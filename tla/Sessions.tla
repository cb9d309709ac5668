------------------------------ MODULE Sessions ------------------------------
(***************************************************************************)
(* The session registry of server/src/sessions.rs: the three maps guarded  *)
(* by the RwLock of SessionManager, and the methods that read and write    *)
(* them.  Every method takes the lock once and holds it to its end, so     *)
(* each writing method is one action and each reading method one operator. *)
(*                                                                         *)
(* A map is a total function into its values and None (absent key).  An    *)
(* occupied seat of a session is the TCP address of its client: the        *)
(* message channel stored beside the address is the one of the connection  *)
(* with that address, so the address names it.                             *)
(***************************************************************************)

CONSTANTS
  SessionIds,   \* session names that clients ask for
  Tcp,          \* TCP addresses of control connections
  Udp,          \* UDP source addresses
  IpOf,         \* the host part of every address: IpOf[a]
  None          \* absent

Seat == Tcp \cup {None}
Port == Udp \cup {None}

Session ==
  [client_a : Seat, client_b : Seat, udp_a : Port, udp_b : Port,
   connected_notified : BOOLEAN]

ASSUME AddressAssumption ==
  /\ None \notin SessionIds
  /\ None \notin Tcp
  /\ None \notin Udp
  /\ None \notin Session

VARIABLES
  sessions,         \* session id -> Session
  client_sessions,  \* TCP address -> session id
  udp_to_tcp        \* UDP address -> TCP address

registry == <<sessions, client_sessions, udp_to_tcp>>

TypeOK ==
  /\ sessions \in [SessionIds -> Session \cup {None}]
  /\ client_sessions \in [Tcp -> SessionIds \cup {None}]
  /\ udp_to_tcp \in [Udp -> Tcp \cup {None}]

RegistryInit ==
  /\ sessions = [id \in SessionIds |-> None]
  /\ client_sessions = [t \in Tcp |-> None]
  /\ udp_to_tcp = [u \in Udp |-> None]

-----------------------------------------------------------------------------
(* struct Session: the operations on one session.                          *)

NewSession ==
  [client_a |-> None, client_b |-> None, udp_a |-> None, udp_b |-> None,
   connected_notified |-> FALSE]

HasOpenSlot(s) == s.client_a = None \/ s.client_b = None

IsEmpty(s) == s.client_a = None /\ s.client_b = None

\* Session::add_client when a slot is open (HasOpenSlot).
Seated(s, t) ==
  IF s.client_a = None THEN [s EXCEPT !.client_a = t]
                       ELSE [s EXCEPT !.client_b = t]

\* Session::get_peer_tx: the connection at the other end of t's channel.
PeerTx(s, t) ==
  CASE HasOpenSlot(s)                    -> None
    [] ~HasOpenSlot(s) /\ s.client_a = t -> s.client_b
    [] ~HasOpenSlot(s) /\ s.client_a # t /\ s.client_b = t -> s.client_a
    [] OTHER                             -> None

\* Session::register_udp
WithUdp(s, t, u) ==
  CASE s.client_a = t                    -> [s EXCEPT !.udp_a = u]
    [] s.client_a # t /\ s.client_b = t  -> [s EXCEPT !.udp_b = u]
    [] OTHER                             -> s

\* Mutant: each client gets its own address back.
PeerUdpInOwn(s, t) ==
  CASE s.client_a = t                    -> s.udp_a
    [] s.client_a # t /\ s.client_b = t  -> s.udp_b
    [] OTHER                             -> None

\* Session::get_peer_udp
PeerUdpIn(s, t) ==
  CASE s.client_a = t                    -> s.udp_b
    [] s.client_a # t /\ s.client_b = t  -> s.udp_a
    [] OTHER                             -> None

\* Mutant: the seat is freed, the UDP address stays behind.
UnseatedKeepsUdp(s, t) ==
  CASE s.client_a = t ->
         [s EXCEPT !.client_a = None, !.connected_notified = FALSE]
    [] s.client_a # t /\ s.client_b = t ->
         [s EXCEPT !.client_b = None, !.connected_notified = FALSE]
    [] OTHER -> s

\* Mutant: the first branch copied into the second.
UnseatedCopied(s, t) ==
  IF s.client_a = t \/ s.client_b = t
  THEN [s EXCEPT !.client_a = None, !.udp_a = None, !.connected_notified = FALSE]
  ELSE s

\* Session::remove_client
Unseated(s, t) ==
  CASE s.client_a = t ->
         [s EXCEPT !.client_a = None, !.udp_a = None,
                   !.connected_notified = FALSE]
    [] s.client_a # t /\ s.client_b = t ->
         [s EXCEPT !.client_b = None, !.udp_b = None,
                   !.connected_notified = FALSE]
    [] OTHER -> s

-----------------------------------------------------------------------------
(* impl SessionManager: the reads.                                         *)

\* get_peer_udp_from_tcp
PeerUdpFromTcp(t) ==
  LET id == client_sessions[t] IN
  IF id = None \/ sessions[id] = None THEN None
  ELSE PeerUdpIn(sessions[id], t)

\* get_peer_udp
PeerUdp(u) ==
  IF udp_to_tcp[u] = None THEN None ELSE PeerUdpFromTcp(udp_to_tcp[u])

\* the lookup notify_peer makes under the read lock
NotifyTarget(t) ==
  LET id == client_sessions[t] IN
  IF id = None \/ sessions[id] = None THEN None ELSE PeerTx(sessions[id], t)

SessionFull(id) == sessions[id] # None /\ ~HasOpenSlot(sessions[id])

IsConnected(id) == sessions[id] # None /\ sessions[id].connected_notified

-----------------------------------------------------------------------------
(* impl SessionManager: the writes.  Each is the whole method, its early   *)
(* returns included: a call that finds nothing to do changes nothing.      *)

EnsureSession(id) ==
  /\ sessions' = [sessions EXCEPT ![id] = IF @ = None THEN NewSession ELSE @]
  /\ UNCHANGED <<client_sessions, udp_to_tcp>>

\* What add_client returns.
CanAdd(id) == sessions[id] # None /\ HasOpenSlot(sessions[id])

AddClient(id, t) ==
  IF CanAdd(id)
  THEN /\ sessions' = [sessions EXCEPT ![id] = Seated(@, t)]
       /\ client_sessions' = [client_sessions EXCEPT ![t] = id]
       /\ UNCHANGED udp_to_tcp
  ELSE UNCHANGED registry

\* SessionManager::register_udp, a public method that no caller uses.
RegisterUdp(t, u) ==
  LET id == client_sessions[t] IN
  IF id # None /\ sessions[id] # None
  THEN /\ sessions' = [sessions EXCEPT ![id] = WithUdp(@, t, u)]
       /\ udp_to_tcp' = [udp_to_tcp EXCEPT ![u] = t]
       /\ UNCHANGED client_sessions
  ELSE UNCHANGED registry

\* remove_client for a client_sessions entry: the session it leaves behind.
Remaining(id, t) == [Unseated(sessions[id], t) EXCEPT !.connected_notified = FALSE]

\* Mutant: the UDP mappings of the client survive it.
RemoveClientKeepsMappings(t) ==
  LET id == client_sessions[t] IN
  IF id = None THEN UNCHANGED registry
  ELSE /\ client_sessions' = [client_sessions EXCEPT ![t] = None]
       /\ sessions' =
            [sessions EXCEPT ![id] = IF @ = None \/ IsEmpty(Remaining(id, t))
                                     THEN None ELSE Remaining(id, t)]
       /\ UNCHANGED udp_to_tcp

\* Mutant: the session is dropped with the first client that leaves it.
RemoveClientDropsSession(t) ==
  LET id == client_sessions[t] IN
  IF id = None THEN UNCHANGED registry
  ELSE /\ client_sessions' = [client_sessions EXCEPT ![t] = None]
       /\ sessions' = [sessions EXCEPT ![id] = None]
       /\ udp_to_tcp' =
            [u \in Udp |-> IF udp_to_tcp[u] = t THEN None ELSE udp_to_tcp[u]]

\* Mutant: a session without clients stays in the map.
RemoveClientKeepsEmpty(t) ==
  LET id == client_sessions[t] IN
  IF id = None THEN UNCHANGED registry
  ELSE /\ client_sessions' = [client_sessions EXCEPT ![t] = None]
       /\ sessions' = [sessions EXCEPT ![id] = Remaining(id, t)]
       /\ udp_to_tcp' =
            [u \in Udp |-> IF udp_to_tcp[u] = t THEN None ELSE udp_to_tcp[u]]

\* The second early return (no such session) leaves udp_to_tcp alone.
RemoveClient(t) ==
  LET id == client_sessions[t] IN
  IF id = None THEN UNCHANGED registry
  ELSE /\ client_sessions' = [client_sessions EXCEPT ![t] = None]
       /\ sessions' =
            [sessions EXCEPT ![id] = IF @ = None \/ IsEmpty(Remaining(id, t))
                                     THEN None ELSE Remaining(id, t)]
       /\ udp_to_tcp' =
            [u \in Udp |-> IF sessions[id] # None /\ udp_to_tcp[u] = t
                           THEN None ELSE udp_to_tcp[u]]

\* The filter of map_udp_to_tcp: t holds a seat whose UDP slot is free.
Unregistered(t) ==
  LET s == sessions[client_sessions[t]] IN
  /\ s # None
  /\ \/ s.client_a = t /\ s.udp_a = None
     \/ s.client_b = t /\ s.udp_b = None

\* Mutant: the first client of the host, registered already or not.
CandidatesAnySeat(u) ==
  {t \in Tcp : client_sessions[t] # None /\ IpOf[t] = IpOf[u]}

\* Mutant: the host is not compared.
CandidatesAnyHost(u) ==
  {t \in Tcp : client_sessions[t] # None /\ Unregistered(t)}

\* The clients that map_udp_to_tcp may pick for a datagram from u: the
\* iteration order of the HashMap decides among them.
Candidates(u) ==
  {t \in Tcp : /\ client_sessions[t] # None
               /\ IpOf[t] = IpOf[u]
               /\ Unregistered(t)}

\* u is mapped to a client that is still there.
Mapped(u) == udp_to_tcp[u] # None /\ client_sessions[udp_to_tcp[u]] # None

\* Mutant: the key inserted as the value; both are a SocketAddr.
MapUdpToTcpSwapped(u) ==
  \/ /\ Mapped(u) \/ Candidates(u) = {}
     /\ UNCHANGED registry
  \/ /\ ~Mapped(u)
     /\ \E t \in Candidates(u) :
          /\ sessions' = [sessions EXCEPT ![client_sessions[t]] =
                                            WithUdp(@, t, u)]
          /\ udp_to_tcp' = [udp_to_tcp EXCEPT ![u] = u]
     /\ UNCHANGED client_sessions

\* A mapping kept, a datagram nobody claims, a client found.
MapUdpToTcp(u) ==
  \/ /\ Mapped(u)
     /\ UNCHANGED registry
  \/ /\ ~Mapped(u)
     /\ Candidates(u) = {}
     /\ udp_to_tcp' = [udp_to_tcp EXCEPT ![u] = None]
     /\ UNCHANGED <<sessions, client_sessions>>
  \/ /\ ~Mapped(u)
     /\ \E t \in Candidates(u) :
          /\ sessions' = [sessions EXCEPT ![client_sessions[t]] =
                                            WithUdp(@, t, u)]
          /\ udp_to_tcp' = [udp_to_tcp EXCEPT ![u] = t]
     /\ UNCHANGED client_sessions

MarkConnected(id) ==
  /\ sessions' =
       [sessions EXCEPT ![id] =
          IF @ = None THEN None ELSE [@ EXCEPT !.connected_notified = TRUE]]
  /\ UNCHANGED <<client_sessions, udp_to_tcp>>

-----------------------------------------------------------------------------
(* The registry as an object, under two kinds of callers.                  *)

\* Any sequence of calls to the public methods, with any arguments.
AnyCall ==
  \/ \E id \in SessionIds : EnsureSession(id) \/ MarkConnected(id)
  \/ \E id \in SessionIds, t \in Tcp : AddClient(id, t)
  \/ \E t \in Tcp, u \in Udp : RegisterUdp(t, u)
  \/ \E t \in Tcp : RemoveClient(t)
  \/ \E u \in Udp : MapUdpToTcp(u)

AnyCallSpec == RegistryInit /\ [][AnyCall]_registry

\* The calls sfu.rs makes while every connection is in one session at a time.
SfuCall ==
  \/ \E id \in SessionIds : EnsureSession(id) \/ MarkConnected(id)
  \/ \E id \in SessionIds, t \in Tcp : client_sessions[t] = None /\ AddClient(id, t)
  \/ \E t \in Tcp : RemoveClient(t)
  \/ \E u \in Udp : MapUdpToTcp(u)

SfuCallSpec == RegistryInit /\ [][SfuCall]_registry

-----------------------------------------------------------------------------
(* What holds whatever the callers do.                                     *)

SeatsOf(id) == {sessions[id].client_a, sessions[id].client_b} \ {None}

\* A registered client sits in a session that exists: remove_client never takes
\* its second early return, which would leave the client's mappings behind.
MembersSeated ==
  \A t \in Tcp :
    client_sessions[t] # None =>
      /\ sessions[client_sessions[t]] # None
      /\ t \in SeatsOf(client_sessions[t])

\* A UDP address is mapped only to a client that is registered: a departed
\* client leaves no mapping behind through which its datagrams, or those of
\* the next owner of its port, would still be routed.
MappingsLive ==
  \A u \in Udp : udp_to_tcp[u] # None => client_sessions[udp_to_tcp[u]] # None

\* A session keeps a UDP address only for a seat that is taken: whoever takes
\* the seat next does not inherit the address of an earlier occupant.
PortsSeated ==
  \A id \in SessionIds :
    sessions[id] # None =>
      /\ sessions[id].udp_a # None => sessions[id].client_a # None
      /\ sessions[id].udp_b # None => sessions[id].client_b # None

-----------------------------------------------------------------------------
(* What holds when a connection is in one session at a time.               *)

\* client_sessions is the reverse map of the seats, and nobody has two seats.
SeatsAgree ==
  \A id \in SessionIds :
    sessions[id] # None =>
      /\ \A t \in SeatsOf(id) : client_sessions[t] = id
      /\ sessions[id].client_a = sessions[id].client_b => IsEmpty(sessions[id])

\* The UDP address kept at the seat of t.
OwnUdp(t) ==
  LET id == client_sessions[t] IN
  IF id = None THEN None
  ELSE IF sessions[id].client_a = t THEN sessions[id].udp_a
                                    ELSE sessions[id].udp_b

\* udp_to_tcp and the UDP addresses in the seats are inverses of each other,
\* and a mapping never leaves the host it was made on.
PortsAgree ==
  \A t \in Tcp, u \in Udp :
    /\ OwnUdp(t) = u <=> udp_to_tcp[u] = t
    /\ udp_to_tcp[u] = t => IpOf[t] = IpOf[u]

\* Forwarding is symmetric and stays in a session: the address a datagram is
\* forwarded to would have its own datagrams forwarded back.
RoutesSymmetric ==
  \A u \in Udp :
    LET v == PeerUdp(u) IN
    v # None =>
      /\ v # u
      /\ PeerUdp(v) = u
      /\ client_sessions[udp_to_tcp[v]] = client_sessions[udp_to_tcp[u]]

\* The abstract specification: rooms of at most two clients.
R == INSTANCE Rooms WITH room <- client_sessions,
                         port <- [t \in Tcp |-> OwnUdp(t)]

\* Under the calls sfu.rs makes the registry implements Rooms.
RoomsSpec == R!Spec

\* The address get_peer_udp finds is the one the abstract room prescribes.
RoutesAgree ==
  \A u \in Udp : R!Routes(u) = {PeerUdp(u)} \ {None}

=============================================================================
