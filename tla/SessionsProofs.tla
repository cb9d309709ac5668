--------------------------- MODULE SessionsProofs ---------------------------
(***************************************************************************)
(* Theorems about the session registry, for any sets of session ids,       *)
(* connections and UDP addresses and any assignment of hosts to them.      *)
(***************************************************************************)
EXTENDS Sessions, TLAPS

-----------------------------------------------------------------------------
(* The operations on one session: the type they return, and what they do   *)
(* to each field.                                                          *)

LEMMA NewSessionType == NewSession \in Session
  BY DEF NewSession, Session, Seat, Port

LEMMA SeatedType ==
  ASSUME NEW s \in Session, NEW t \in Tcp
  PROVE  Seated(s, t) \in Session
  BY DEF Seated, Session, Seat, Port

LEMMA WithUdpType ==
  ASSUME NEW s \in Session, NEW t \in Tcp, NEW u \in Udp
  PROVE  WithUdp(s, t, u) \in Session
  BY DEF WithUdp, Session, Seat, Port

LEMMA UnseatedType ==
  ASSUME NEW s \in Session, NEW t \in Tcp
  PROVE  Unseated(s, t) \in Session
  BY DEF Unseated, Session, Seat, Port

LEMMA NotifiedType ==
  ASSUME NEW s \in Session, NEW b \in BOOLEAN
  PROVE  [s EXCEPT !.connected_notified = b] \in Session
  BY DEF Session

-----------------------------------------------------------------------------
(* Each writing method preserves the types.                                *)

LEMMA EnsureSessionType ==
  ASSUME TypeOK, NEW id \in SessionIds, EnsureSession(id)
  PROVE  TypeOK'
  BY NewSessionType DEF TypeOK, EnsureSession

LEMMA MarkConnectedType ==
  ASSUME TypeOK, NEW id \in SessionIds, MarkConnected(id)
  PROVE  TypeOK'
  BY NotifiedType DEF TypeOK, MarkConnected

LEMMA AddClientType ==
  ASSUME TypeOK, NEW id \in SessionIds, NEW t \in Tcp, AddClient(id, t)
  PROVE  TypeOK'
<1>1. CASE CanAdd(id)
  <2>1. sessions[id] \in Session
    BY <1>1 DEF TypeOK, CanAdd
  <2>2. Seated(sessions[id], t) \in Session
    BY <2>1, SeatedType
  <2> QED BY <1>1, <2>2 DEF TypeOK, AddClient
<1>2. CASE ~CanAdd(id)
  BY <1>2 DEF TypeOK, AddClient, registry
<1> QED BY <1>1, <1>2

LEMMA RegisterUdpType ==
  ASSUME TypeOK, NEW t \in Tcp, NEW u \in Udp, RegisterUdp(t, u)
  PROVE  TypeOK'
<1> DEFINE id == client_sessions[t]
<1>1. CASE id # None /\ sessions[id] # None
  <2>1. id \in SessionIds /\ sessions[id] \in Session
    BY <1>1 DEF TypeOK
  <2>2. WithUdp(sessions[id], t, u) \in Session
    BY <2>1, WithUdpType
  <2> QED BY <1>1, <2>1, <2>2 DEF TypeOK, RegisterUdp
<1>2. CASE ~(id # None /\ sessions[id] # None)
  BY <1>2 DEF TypeOK, RegisterUdp, registry
<1> QED BY <1>1, <1>2

LEMMA RemainingType ==
  ASSUME NEW id \in SessionIds, NEW t \in Tcp, sessions[id] \in Session
  PROVE  Remaining(id, t) \in Session
  BY UnseatedType, NotifiedType DEF Remaining

LEMMA RemoveClientType ==
  ASSUME TypeOK, NEW t \in Tcp, RemoveClient(t)
  PROVE  TypeOK'
<1> DEFINE id == client_sessions[t]
<1>1. CASE id = None
  BY <1>1 DEF TypeOK, RemoveClient, registry
<1>2. CASE id # None
  <2>1. id \in SessionIds /\ sessions[id] \in Session \cup {None}
    BY <1>2 DEF TypeOK
  <2>2. sessions[id] # None => Remaining(id, t) \in Session
    BY <2>1, RemainingType
  <2>3. sessions' \in [SessionIds -> Session \cup {None}]
    BY <1>2, <2>1, <2>2 DEF TypeOK, RemoveClient
  <2>4. client_sessions' \in [Tcp -> SessionIds \cup {None}]
    BY <1>2 DEF TypeOK, RemoveClient
  <2>5. udp_to_tcp' \in [Udp -> Tcp \cup {None}]
    BY <1>2 DEF TypeOK, RemoveClient
  <2> QED BY <2>3, <2>4, <2>5 DEF TypeOK
<1> QED BY <1>1, <1>2

LEMMA MapUdpToTcpType ==
  ASSUME TypeOK, NEW u \in Udp, MapUdpToTcp(u)
  PROVE  TypeOK'
<1>1. CASE UNCHANGED registry
  BY <1>1 DEF TypeOK, registry
<1>2. CASE /\ udp_to_tcp' = [udp_to_tcp EXCEPT ![u] = None]
           /\ UNCHANGED <<sessions, client_sessions>>
  BY <1>2 DEF TypeOK
<1>3. ASSUME NEW t \in Candidates(u),
             sessions' = [sessions EXCEPT ![client_sessions[t]] = WithUdp(@, t, u)],
             udp_to_tcp' = [udp_to_tcp EXCEPT ![u] = t],
             UNCHANGED client_sessions
      PROVE  TypeOK'
  <2>1. t \in Tcp /\ client_sessions[t] \in SessionIds
    BY <1>3 DEF Candidates, TypeOK
  <2>2. sessions[client_sessions[t]] \in Session
    BY <1>3, <2>1 DEF Candidates, Unregistered, TypeOK
  <2>3. WithUdp(sessions[client_sessions[t]], t, u) \in Session
    BY <2>1, <2>2, WithUdpType
  <2> QED BY <1>3, <2>1, <2>3 DEF TypeOK
<1> QED BY <1>1, <1>2, <1>3 DEF MapUdpToTcp

\* The values of the three maps stay in their types, for all callers.
THEOREM AnyCallTypeCorrect == AnyCallSpec => []TypeOK
<1>1. RegistryInit => TypeOK
  BY DEF RegistryInit, TypeOK
<1>2. TypeOK /\ [AnyCall]_registry => TypeOK'
  <2> SUFFICES ASSUME TypeOK, [AnyCall]_registry PROVE TypeOK'
    OBVIOUS
  <2>1. ASSUME NEW id \in SessionIds, EnsureSession(id) PROVE TypeOK'
    BY <2>1, EnsureSessionType
  <2>2. ASSUME NEW id \in SessionIds, MarkConnected(id) PROVE TypeOK'
    BY <2>2, MarkConnectedType
  <2>3. ASSUME NEW id \in SessionIds, NEW t \in Tcp, AddClient(id, t)
        PROVE  TypeOK'
    BY <2>3, AddClientType
  <2>4. ASSUME NEW t \in Tcp, NEW u \in Udp, RegisterUdp(t, u) PROVE TypeOK'
    BY <2>4, RegisterUdpType
  <2>5. ASSUME NEW t \in Tcp, RemoveClient(t) PROVE TypeOK'
    BY <2>5, RemoveClientType
  <2>6. ASSUME NEW u \in Udp, MapUdpToTcp(u) PROVE TypeOK'
    BY <2>6, MapUdpToTcpType
  <2>7. CASE UNCHANGED registry
    BY <2>7 DEF TypeOK, registry
  <2> QED BY <2>1, <2>2, <2>3, <2>4, <2>5, <2>6, <2>7 DEF AnyCall
<1> QED BY <1>1, <1>2, PTL DEF AnyCallSpec

-----------------------------------------------------------------------------
(* What the methods leave consistent for all callers: the conjunction is   *)
(* inductive.                                                              *)

AnyInv == TypeOK /\ MembersSeated /\ MappingsLive /\ PortsSeated

LEMMA EnsureSessionAny ==
  ASSUME AnyInv, NEW id \in SessionIds, EnsureSession(id)
  PROVE  AnyInv'
<1> USE DEF AnyInv
<1>1. TypeOK'
  BY EnsureSessionType
<1>2. \A i \in SessionIds : sessions[i] # None => sessions'[i] = sessions[i]
  BY DEF TypeOK, EnsureSession
<1>3. MembersSeated'
  BY <1>2, AddressAssumption, NewSessionType
     DEF TypeOK, MembersSeated, SeatsOf, EnsureSession
<1>4. MappingsLive'
  BY DEF MappingsLive, EnsureSession
<1>5. PortsSeated'
  BY DEF TypeOK, PortsSeated, EnsureSession, NewSession
<1> QED BY <1>1, <1>3, <1>4, <1>5

LEMMA MarkConnectedAny ==
  ASSUME AnyInv, NEW id \in SessionIds, MarkConnected(id)
  PROVE  AnyInv'
<1> USE DEF AnyInv
<1>1. TypeOK'
  BY MarkConnectedType
<1>2. \A i \in SessionIds :
        /\ sessions'[i] = None <=> sessions[i] = None
        /\ sessions[i] # None =>
             /\ sessions'[i].client_a = sessions[i].client_a
             /\ sessions'[i].client_b = sessions[i].client_b
             /\ sessions'[i].udp_a = sessions[i].udp_a
             /\ sessions'[i].udp_b = sessions[i].udp_b
  BY NotifiedType, AddressAssumption DEF TypeOK, MarkConnected, Session
<1>3. MembersSeated'
  BY <1>2 DEF TypeOK, MembersSeated, SeatsOf, MarkConnected
<1>4. MappingsLive'
  BY DEF MappingsLive, MarkConnected
<1>5. PortsSeated'
  BY <1>2 DEF TypeOK, PortsSeated
<1> QED BY <1>1, <1>3, <1>4, <1>5

\* Seated puts t in a free seat and moves nothing else.
LEMMA SeatedFields ==
  ASSUME NEW s \in Session, NEW t \in Tcp, HasOpenSlot(s)
  PROVE  LET r == Seated(s, t) IN
         /\ r.udp_a = s.udp_a /\ r.udp_b = s.udp_b
         /\ \/ s.client_a = None /\ r.client_a = t /\ r.client_b = s.client_b
            \/ /\ s.client_a # None /\ r.client_a = s.client_a
               /\ s.client_b = None /\ r.client_b = t
  BY DEF Seated, HasOpenSlot, Session

LEMMA AddClientAny ==
  ASSUME AnyInv, NEW id \in SessionIds, NEW t \in Tcp, AddClient(id, t)
  PROVE  AnyInv'
<1> USE DEF AnyInv
<1>1. TypeOK'
  BY AddClientType
<1>2. CASE ~CanAdd(id)
  BY <1>2 DEF TypeOK, MembersSeated, SeatsOf, MappingsLive, PortsSeated,
              AddClient, registry
<1>3. CASE CanAdd(id)
  <2> DEFINE s == sessions[id]
             r == Seated(s, t)
  <2>1. s \in Session /\ HasOpenSlot(s) /\ t # None
    BY <1>3, AddressAssumption DEF TypeOK, CanAdd
  <2>2. r \in Session /\ r # None
    BY <2>1, SeatedType, AddressAssumption
  <2>3. /\ sessions' = [sessions EXCEPT ![id] = r]
        /\ client_sessions' = [client_sessions EXCEPT ![t] = id]
        /\ udp_to_tcp' = udp_to_tcp
    BY <1>3 DEF AddClient
  <2>4. MembersSeated'
    <3> SUFFICES ASSUME NEW q \in Tcp, client_sessions'[q] # None
                 PROVE  /\ sessions'[client_sessions'[q]] # None
                        /\ q \in {sessions'[client_sessions'[q]].client_a,
                                  sessions'[client_sessions'[q]].client_b}
                        /\ q # None
      BY DEF MembersSeated, SeatsOf
    <3>1. q # None
      BY AddressAssumption
    <3>2. CASE q = t
      BY <3>1, <3>2, <2>1, <2>2, <2>3, SeatedFields DEF TypeOK
    <3>3. CASE q # t
      <4>1. client_sessions'[q] = client_sessions[q] /\ client_sessions[q] \in SessionIds
        BY <3>3, <2>3 DEF TypeOK
      <4>2. /\ sessions[client_sessions[q]] # None
            /\ q \in {sessions[client_sessions[q]].client_a,
                      sessions[client_sessions[q]].client_b}
        BY <4>1 DEF MembersSeated, SeatsOf
      <4>3. CASE client_sessions[q] = id
        BY <3>1, <4>1, <4>2, <4>3, <2>1, <2>2, <2>3, SeatedFields DEF TypeOK
      <4>4. CASE client_sessions[q] # id
        BY <3>1, <4>1, <4>2, <4>4, <2>3 DEF TypeOK
      <4> QED BY <4>3, <4>4
    <3> QED BY <3>2, <3>3
  <2>5. MappingsLive'
    BY <2>3, AddressAssumption DEF TypeOK, MappingsLive
  <2>6. PortsSeated'
    <3>1. /\ r.udp_a # None => r.client_a # None
          /\ r.udp_b # None => r.client_b # None
      BY <2>1, SeatedFields, <1>3 DEF PortsSeated, CanAdd
    <3> QED BY <3>1, <2>3 DEF TypeOK, PortsSeated
  <2> QED BY <1>1, <2>4, <2>5, <2>6
<1> QED BY <1>2, <1>3

\* WithUdp records the address at the seat of t, if t has one.
LEMMA WithUdpFields ==
  ASSUME NEW s \in Session, NEW t \in Tcp, NEW u \in Udp
  PROVE  LET r == WithUdp(s, t, u) IN
         /\ r.client_a = s.client_a /\ r.client_b = s.client_b
         /\ r.udp_a = IF s.client_a = t THEN u ELSE s.udp_a
         /\ r.udp_b = IF s.client_a # t /\ s.client_b = t THEN u ELSE s.udp_b
  BY DEF WithUdp, Session

\* Recording an address at a seat leaves the seats and the free ports alone.
LEMMA RecordUdpAny ==
  ASSUME AnyInv, NEW t \in Tcp, NEW u \in Udp, NEW id \in SessionIds,
         client_sessions[t] = id,
         sessions[id] # None,
         sessions' = [sessions EXCEPT ![id] = WithUdp(@, t, u)],
         udp_to_tcp' = [udp_to_tcp EXCEPT ![u] = t],
         UNCHANGED client_sessions
  PROVE  MembersSeated' /\ MappingsLive' /\ PortsSeated'
<1> DEFINE s == sessions[id]
           r == WithUdp(s, t, u)
<1> USE DEF AnyInv
<1>1. s \in Session /\ t # None /\ id # None
  BY AddressAssumption DEF TypeOK
<1>2. r \in Session /\ r # None
  BY <1>1, WithUdpType, AddressAssumption
<1>3. sessions' = [sessions EXCEPT ![id] = r]
  OBVIOUS
<1>4. /\ r.client_a = s.client_a
      /\ r.client_b = s.client_b
      /\ r.udp_a # None => s.client_a = t \/ s.udp_a # None
      /\ r.udp_b # None => s.client_b = t \/ s.udp_b # None
  BY <1>1, WithUdpFields
<1> HIDE DEF r
<1>5. MembersSeated'
  BY <1>2, <1>3, <1>4 DEF TypeOK, MembersSeated, SeatsOf
<1>6. MappingsLive'
  BY <1>1 DEF TypeOK, MappingsLive
<1>7. PortsSeated'
  <2>1. /\ r.udp_a # None => r.client_a # None
        /\ r.udp_b # None => r.client_b # None
    BY <1>1, <1>4 DEF PortsSeated
  <2> QED BY <2>1, <1>3 DEF TypeOK, PortsSeated
<1> QED BY <1>5, <1>6, <1>7

LEMMA RegisterUdpAny ==
  ASSUME AnyInv, NEW t \in Tcp, NEW u \in Udp, RegisterUdp(t, u)
  PROVE  AnyInv'
<1> DEFINE id == client_sessions[t]
<1> USE DEF AnyInv
<1>1. TypeOK'
  BY RegisterUdpType
<1>2. CASE ~(id # None /\ sessions[id] # None)
  BY <1>1, <1>2 DEF MembersSeated, SeatsOf, MappingsLive, PortsSeated,
                    RegisterUdp, registry
<1>3. CASE id # None /\ sessions[id] # None
  <2>1. id \in SessionIds
    BY <1>3 DEF TypeOK
  <2>2. /\ sessions' = [sessions EXCEPT ![id] = WithUdp(@, t, u)]
        /\ udp_to_tcp' = [udp_to_tcp EXCEPT ![u] = t]
        /\ UNCHANGED client_sessions
    BY <1>3 DEF RegisterUdp
  <2> QED BY <1>1, <1>3, <2>1, <2>2, RecordUdpAny
<1> QED BY <1>2, <1>3

LEMMA MapUdpToTcpAny ==
  ASSUME AnyInv, NEW u \in Udp, MapUdpToTcp(u)
  PROVE  AnyInv'
<1> USE DEF AnyInv
<1>1. TypeOK'
  BY MapUdpToTcpType
<1>2. CASE UNCHANGED registry
  BY <1>1, <1>2 DEF MembersSeated, SeatsOf, MappingsLive, PortsSeated, registry
<1>3. CASE /\ udp_to_tcp' = [udp_to_tcp EXCEPT ![u] = None]
           /\ UNCHANGED <<sessions, client_sessions>>
  BY <1>1, <1>3 DEF TypeOK, MembersSeated, SeatsOf, MappingsLive, PortsSeated
<1>4. ASSUME NEW t \in Candidates(u),
             sessions' = [sessions EXCEPT ![client_sessions[t]] = WithUdp(@, t, u)],
             udp_to_tcp' = [udp_to_tcp EXCEPT ![u] = t],
             UNCHANGED client_sessions
      PROVE  AnyInv'
  <2>1. t \in Tcp /\ client_sessions[t] \in SessionIds
    BY <1>4 DEF Candidates, TypeOK
  <2>2. sessions[client_sessions[t]] # None
    BY <1>4 DEF Candidates, Unregistered
  <2> QED BY <1>1, <1>4, <2>1, <2>2, RecordUdpAny
<1> QED BY <1>2, <1>3, <1>4 DEF MapUdpToTcp

\* What remove_client does to a session: it frees the seat of t, with its UDP
\* address, and no other.
LEMMA RemainingFields ==
  ASSUME NEW id \in SessionIds, NEW t \in Tcp, sessions[id] \in Session
  PROVE  LET s == sessions[id]
             r == Remaining(id, t)
         IN  /\ r.client_a = IF s.client_a = t THEN None ELSE s.client_a
             /\ r.udp_a = IF s.client_a = t THEN None ELSE s.udp_a
             /\ r.client_b = IF s.client_a # t /\ s.client_b = t
                             THEN None ELSE s.client_b
             /\ r.udp_b = IF s.client_a # t /\ s.client_b = t
                          THEN None ELSE s.udp_b
  BY DEF Remaining, Unseated, Session

LEMMA RemoveClientAny ==
  ASSUME AnyInv, NEW t \in Tcp, RemoveClient(t)
  PROVE  AnyInv'
<1> DEFINE id == client_sessions[t]
           s == sessions[id]
           r == Remaining(id, t)
<1> USE DEF AnyInv
<1>1. TypeOK'
  BY RemoveClientType
<1>2. CASE id = None
  BY <1>1, <1>2 DEF MembersSeated, SeatsOf, MappingsLive, PortsSeated,
                    RemoveClient, registry
<1>3. CASE id # None
  <2>1. id \in SessionIds /\ s \in Session /\ s # None /\ t # None
    BY <1>3, AddressAssumption DEF TypeOK, MembersSeated
  <2>2. r \in Session /\ r # None
    BY <2>1, RemainingType, AddressAssumption
  <2>3. /\ client_sessions' = [client_sessions EXCEPT ![t] = None]
        /\ sessions' = [sessions EXCEPT ![id] = IF IsEmpty(r) THEN None ELSE r]
        /\ udp_to_tcp' = [u \in Udp |-> IF udp_to_tcp[u] = t THEN None
                                                            ELSE udp_to_tcp[u]]
    BY <1>3, <2>1 DEF RemoveClient
  <2>4. /\ r.client_a = IF s.client_a = t THEN None ELSE s.client_a
        /\ r.udp_a = IF s.client_a = t THEN None ELSE s.udp_a
        /\ r.client_b = IF s.client_a # t /\ s.client_b = t THEN None ELSE s.client_b
        /\ r.udp_b = IF s.client_a # t /\ s.client_b = t THEN None ELSE s.udp_b
    BY <2>1, RemainingFields
  <2> HIDE DEF r
  <2>5. MembersSeated'
    <3> SUFFICES ASSUME NEW q \in Tcp, client_sessions'[q] # None
                 PROVE  /\ sessions'[client_sessions'[q]] # None
                        /\ q \in {sessions'[client_sessions'[q]].client_a,
                                  sessions'[client_sessions'[q]].client_b}
                        /\ q # None
      BY DEF MembersSeated, SeatsOf
    <3>1. q # None
      BY AddressAssumption
    <3>2. /\ q # t
          /\ client_sessions'[q] = client_sessions[q]
          /\ client_sessions[q] \in SessionIds
      BY <2>3 DEF TypeOK
    <3>3. /\ sessions[client_sessions[q]] # None
          /\ q \in {sessions[client_sessions[q]].client_a,
                    sessions[client_sessions[q]].client_b}
      BY <3>2 DEF MembersSeated, SeatsOf
    <3>4. CASE client_sessions[q] = id
      <4>1. q \in {r.client_a, r.client_b}
        BY <3>2, <3>3, <3>4, <2>4
      <4>2. sessions'[id] = r
        BY <4>1, <3>1, <2>1, <2>3 DEF IsEmpty, TypeOK
      <4> QED BY <4>1, <4>2, <3>1, <3>2, <3>4, <2>2
    <3>5. CASE client_sessions[q] # id
      BY <3>1, <3>2, <3>3, <3>5, <2>3 DEF TypeOK
    <3> QED BY <3>4, <3>5
  <2>6. MappingsLive'
    BY <2>3 DEF TypeOK, MappingsLive
  <2>7. PortsSeated'
    <3>1. /\ r.udp_a # None => r.client_a # None
          /\ r.udp_b # None => r.client_b # None
      BY <2>1, <2>4 DEF PortsSeated
    <3> QED BY <3>1, <2>3 DEF TypeOK, PortsSeated
  <2> QED BY <1>1, <2>5, <2>6, <2>7
<1> QED BY <1>2, <1>3

\* The invariant of every run of calls to the public methods.
THEOREM AnyCallInvariant == AnyCallSpec => []AnyInv
<1>1. RegistryInit => AnyInv
  BY DEF RegistryInit, AnyInv, TypeOK, MembersSeated, MappingsLive, PortsSeated
<1>2. AnyInv /\ [AnyCall]_registry => AnyInv'
  <2> SUFFICES ASSUME AnyInv, [AnyCall]_registry PROVE AnyInv'
    OBVIOUS
  <2>1. ASSUME NEW id \in SessionIds, EnsureSession(id) PROVE AnyInv'
    BY <2>1, EnsureSessionAny
  <2>2. ASSUME NEW id \in SessionIds, MarkConnected(id) PROVE AnyInv'
    BY <2>2, MarkConnectedAny
  <2>3. ASSUME NEW id \in SessionIds, NEW t \in Tcp, AddClient(id, t)
        PROVE  AnyInv'
    BY <2>3, AddClientAny
  <2>4. ASSUME NEW t \in Tcp, NEW u \in Udp, RegisterUdp(t, u) PROVE AnyInv'
    BY <2>4, RegisterUdpAny
  <2>5. ASSUME NEW t \in Tcp, RemoveClient(t) PROVE AnyInv'
    BY <2>5, RemoveClientAny
  <2>6. ASSUME NEW u \in Udp, MapUdpToTcp(u) PROVE AnyInv'
    BY <2>6, MapUdpToTcpAny
  <2>7. CASE UNCHANGED registry
    BY <2>7 DEF AnyInv, TypeOK, MembersSeated, SeatsOf, MappingsLive,
                PortsSeated, registry
  <2> QED BY <2>1, <2>2, <2>3, <2>4, <2>5, <2>6, <2>7 DEF AnyCall
<1> QED BY <1>1, <1>2, PTL DEF AnyCallSpec

\* A registered client sits in a session that exists, whatever the callers
\* do: remove_client never takes its second early return.
THEOREM AnyCallMembersSeated == AnyCallSpec => []MembersSeated
<1>1. AnyInv => MembersSeated
  BY DEF AnyInv
<1> QED BY <1>1, AnyCallInvariant, PTL

\* No mapping of a UDP address outlives the registration of its client.
THEOREM AnyCallMappingsLive == AnyCallSpec => []MappingsLive
<1>1. AnyInv => MappingsLive
  BY DEF AnyInv
<1> QED BY <1>1, AnyCallInvariant, PTL

\* Nobody inherits the UDP address of an earlier occupant of its seat.
THEOREM AnyCallPortsSeated == AnyCallSpec => []PortsSeated
<1>1. AnyInv => PortsSeated
  BY DEF AnyInv
<1> QED BY <1>1, AnyCallInvariant, PTL

-----------------------------------------------------------------------------
(* The registry under the calls sfu.rs makes: the seats, the reverse map   *)
(* and the UDP addresses agree, forwarding is symmetric, and the registry  *)
(* implements Rooms.                                                       *)

\* The inductive invariant: AnyInv gives seats to members, SeatsAgree makes
\* members of those who have seats, PortsAgree ties the addresses to both.
SfuInv == AnyInv /\ SeatsAgree /\ PortsAgree

LEMMA OwnUdpType ==
  ASSUME AnyInv, NEW t \in Tcp
  PROVE  OwnUdp(t) \in Port
<1>1. CASE client_sessions[t] = None
  BY <1>1 DEF OwnUdp, Port
<1>2. CASE client_sessions[t] # None
  <2>1. sessions[client_sessions[t]] \in Session
    BY <1>2 DEF AnyInv, TypeOK, MembersSeated
  <2> QED BY <1>2, <2>1 DEF OwnUdp, Session
<1> QED BY <1>1, <1>2

-----------------------------------------------------------------------------
(* What each method does to the address kept at a client's seat.           *)

LEMMA EnsureSessionOwn ==
  ASSUME AnyInv, NEW id \in SessionIds, EnsureSession(id)
  PROVE  \A q \in Tcp : OwnUdp(q)' = OwnUdp(q)
<1> SUFFICES ASSUME NEW q \in Tcp PROVE OwnUdp(q)' = OwnUdp(q)
  OBVIOUS
<1>1. client_sessions' = client_sessions
  BY DEF EnsureSession
<1>2. client_sessions[q] # None =>
        sessions'[client_sessions[q]] = sessions[client_sessions[q]]
  BY DEF AnyInv, TypeOK, MembersSeated, EnsureSession
<1> QED BY <1>1, <1>2 DEF OwnUdp

LEMMA MarkConnectedOwn ==
  ASSUME AnyInv, NEW id \in SessionIds, MarkConnected(id)
  PROVE  \A q \in Tcp : OwnUdp(q)' = OwnUdp(q)
<1> SUFFICES ASSUME NEW q \in Tcp PROVE OwnUdp(q)' = OwnUdp(q)
  OBVIOUS
<1> DEFINE i == client_sessions[q]
<1>1. client_sessions' = client_sessions
  BY DEF MarkConnected
<1>2. CASE i = None
  BY <1>1, <1>2 DEF OwnUdp
<1>3. CASE i # None
  <2>1. i \in SessionIds /\ sessions[i] \in Session /\ sessions[i] # None
    BY <1>3 DEF AnyInv, TypeOK, MembersSeated
  <2>2. /\ sessions'[i].client_a = sessions[i].client_a
        /\ sessions'[i].udp_a = sessions[i].udp_a
        /\ sessions'[i].udp_b = sessions[i].udp_b
    BY <2>1 DEF AnyInv, TypeOK, MarkConnected, Session
  <2> QED BY <1>1, <1>3, <2>2 DEF OwnUdp
<1> QED BY <1>2, <1>3

\* The seat that add_client gives out has no address.
LEMMA AddClientOwn ==
  ASSUME AnyInv, SeatsAgree, NEW id \in SessionIds, NEW t \in Tcp,
         client_sessions[t] = None, AddClient(id, t)
  PROVE  \A q \in Tcp : OwnUdp(q)' = OwnUdp(q)
<1> SUFFICES ASSUME NEW q \in Tcp PROVE OwnUdp(q)' = OwnUdp(q)
  OBVIOUS
<1>1. CASE ~CanAdd(id)
  BY <1>1 DEF AddClient, OwnUdp, registry
<1>2. CASE CanAdd(id)
  <2> DEFINE s == sessions[id]
             r == Seated(s, t)
  <2>1. /\ s \in Session /\ s # None /\ HasOpenSlot(s)
        /\ q # None /\ t # None /\ id # None
    BY <1>2, AddressAssumption DEF AnyInv, TypeOK, CanAdd
  <2>2. /\ sessions' = [sessions EXCEPT ![id] = r]
        /\ client_sessions' = [client_sessions EXCEPT ![t] = id]
    BY <1>2 DEF AddClient
  <2>3. /\ r.udp_a = s.udp_a /\ r.udp_b = s.udp_b
        /\ \/ s.client_a = None /\ r.client_a = t /\ r.client_b = s.client_b
           \/ /\ s.client_a # None /\ r.client_a = s.client_a
              /\ s.client_b = None /\ r.client_b = t
    BY <2>1, SeatedFields
  <2>4. /\ s.client_a = None => s.udp_a = None
        /\ s.client_b = None => s.udp_b = None
    BY <2>1 DEF AnyInv, PortsSeated
  <2> HIDE DEF r
  <2>5. CASE q = t
    <3>1. OwnUdp(q) = None
      BY <2>5 DEF OwnUdp
    <3>2. client_sessions'[t] = id /\ sessions'[id] = r
      BY <2>2 DEF AnyInv, TypeOK
    <3>3. s.client_a # t
      BY <2>1 DEF SeatsAgree, SeatsOf
    <3>4. OwnUdp(q)' = None
      BY <2>1, <2>3, <2>4, <2>5, <3>2, <3>3 DEF OwnUdp
    <3> QED BY <3>1, <3>4
  <2>6. CASE q # t
    <3>1. client_sessions'[q] = client_sessions[q]
      BY <2>2, <2>6 DEF AnyInv, TypeOK
    <3>2. CASE client_sessions[q] = id
      <4>1. sessions'[id] = r
        BY <2>2 DEF AnyInv, TypeOK
      <4>2. r.client_a = q <=> s.client_a = q
        BY <2>1, <2>3, <2>6
      <4> QED BY <2>1, <2>3, <3>1, <3>2, <4>1, <4>2 DEF OwnUdp
    <3>3. CASE client_sessions[q] # id
      <4>1. client_sessions[q] # None =>
              sessions'[client_sessions[q]] = sessions[client_sessions[q]]
        BY <2>2, <3>3 DEF AnyInv, TypeOK
      <4> QED BY <3>1, <4>1 DEF OwnUdp
    <3> QED BY <3>2, <3>3
  <2> QED BY <2>5, <2>6
<1> QED BY <1>1, <1>2

\* remove_client takes the address of t with its seat, and no other.
LEMMA RemoveClientOwn ==
  ASSUME AnyInv, SeatsAgree, NEW t \in Tcp,
         client_sessions[t] # None, RemoveClient(t)
  PROVE  \A q \in Tcp : OwnUdp(q)' = IF q = t THEN None ELSE OwnUdp(q)
<1> SUFFICES ASSUME NEW q \in Tcp
             PROVE  OwnUdp(q)' = IF q = t THEN None ELSE OwnUdp(q)
  OBVIOUS
<1> DEFINE id == client_sessions[t]
           s == sessions[id]
           r == Remaining(id, t)
<1>1. /\ id \in SessionIds /\ s \in Session /\ s # None
      /\ t # None /\ q # None
  BY AddressAssumption DEF AnyInv, TypeOK, MembersSeated
<1>2. /\ client_sessions' = [client_sessions EXCEPT ![t] = None]
      /\ sessions' = [sessions EXCEPT ![id] = IF IsEmpty(r) THEN None ELSE r]
  BY <1>1 DEF RemoveClient
<1>3. CASE q = t
  BY <1>2, <1>3 DEF AnyInv, TypeOK, OwnUdp
<1>4. CASE q # t
  <2>1. client_sessions'[q] = client_sessions[q]
    BY <1>2, <1>4 DEF AnyInv, TypeOK
  <2>2. CASE client_sessions[q] = id
    <3>1. q \in {s.client_a, s.client_b}
      BY <1>1, <2>2 DEF AnyInv, MembersSeated, SeatsOf
    <3>2. /\ r.client_a = IF s.client_a = t THEN None ELSE s.client_a
          /\ r.udp_a = IF s.client_a = t THEN None ELSE s.udp_a
          /\ r.client_b = IF s.client_a # t /\ s.client_b = t
                          THEN None ELSE s.client_b
          /\ r.udp_b = IF s.client_a # t /\ s.client_b = t
                       THEN None ELSE s.udp_b
      BY <1>1, RemainingFields
    <3> HIDE DEF r
    <3>3. q \in {r.client_a, r.client_b}
      BY <1>4, <3>1, <3>2
    <3>4. sessions'[id] = r
      BY <1>1, <1>2, <3>3 DEF AnyInv, TypeOK, IsEmpty
    <3> QED BY <1>1, <1>4, <2>1, <2>2, <3>1, <3>2, <3>4 DEF OwnUdp
  <2>3. CASE client_sessions[q] # id
    <3>1. client_sessions[q] # None =>
            sessions'[client_sessions[q]] = sessions[client_sessions[q]]
      BY <1>2, <2>3 DEF AnyInv, TypeOK
    <3> QED BY <1>4, <2>1, <3>1 DEF OwnUdp
  <2> QED BY <2>2, <2>3
<1> QED BY <1>3, <1>4

\* map_udp_to_tcp picks a client without an address and gives it one.
LEMMA MapUdpToTcpOwn ==
  ASSUME AnyInv, SeatsAgree, NEW u \in Udp, NEW t \in Candidates(u),
         sessions' = [sessions EXCEPT ![client_sessions[t]] = WithUdp(@, t, u)],
         UNCHANGED client_sessions
  PROVE  /\ OwnUdp(t) = None
         /\ \A q \in Tcp : OwnUdp(q)' = IF q = t THEN u ELSE OwnUdp(q)
<1> DEFINE id == client_sessions[t]
           s == sessions[id]
           r == WithUdp(s, t, u)
<1>1. /\ t \in Tcp /\ id \in SessionIds /\ id # None
      /\ s \in Session /\ s # None /\ t # None /\ u # None
  BY AddressAssumption DEF AnyInv, TypeOK, Candidates, Unregistered
<1>2. \/ s.client_a = t /\ s.udp_a = None
      \/ s.client_b = t /\ s.udp_b = None
  BY DEF Candidates, Unregistered
<1>3. s.client_a = t => s.client_b # t
  BY <1>1 DEF SeatsAgree, IsEmpty
<1>4. OwnUdp(t) = None
  BY <1>1, <1>2, <1>3 DEF OwnUdp
<1>5. /\ r.client_a = s.client_a /\ r.client_b = s.client_b
      /\ r.udp_a = IF s.client_a = t THEN u ELSE s.udp_a
      /\ r.udp_b = IF s.client_a # t /\ s.client_b = t THEN u ELSE s.udp_b
  BY <1>1, WithUdpFields
<1>6. sessions' = [sessions EXCEPT ![id] = r]
  OBVIOUS
<1> HIDE DEF r
<1>7. ASSUME NEW q \in Tcp
      PROVE  OwnUdp(q)' = IF q = t THEN u ELSE OwnUdp(q)
  <2>1. CASE client_sessions[q] = id
    <3>1. sessions'[id] = r /\ client_sessions'[q] = id
      BY <1>1, <1>6, <2>1 DEF AnyInv, TypeOK
    <3>2. q \in {s.client_a, s.client_b}
      BY <1>1, <2>1 DEF AnyInv, MembersSeated, SeatsOf
    <3> QED BY <1>1, <1>2, <1>3, <1>5, <2>1, <3>1, <3>2 DEF OwnUdp
  <2>2. CASE client_sessions[q] # id
    <3>1. client_sessions[q] # None =>
            sessions'[client_sessions[q]] = sessions[client_sessions[q]]
      BY <1>6, <2>2 DEF AnyInv, TypeOK
    <3> QED BY <2>2, <3>1 DEF OwnUdp
  <2> QED BY <2>1, <2>2
<1> QED BY <1>4, <1>7

-----------------------------------------------------------------------------
(* Each method preserves the agreement of seats and reverse map.           *)

LEMMA EnsureSessionSeats ==
  ASSUME AnyInv, SeatsAgree, NEW id \in SessionIds, EnsureSession(id)
  PROVE  SeatsAgree'
<1>1. \A i \in SessionIds :
        sessions'[i] = sessions[i] \/ sessions'[i] = NewSession
  BY DEF AnyInv, TypeOK, EnsureSession
<1>2. client_sessions' = client_sessions
  BY DEF EnsureSession
<1>3. NewSession.client_a = None /\ NewSession.client_b = None
  BY DEF NewSession
<1> QED BY <1>1, <1>2, <1>3 DEF SeatsAgree, SeatsOf, IsEmpty

LEMMA MarkConnectedSeats ==
  ASSUME AnyInv, SeatsAgree, NEW id \in SessionIds, MarkConnected(id)
  PROVE  SeatsAgree'
<1>1. \A i \in SessionIds :
        sessions'[i] # None =>
          /\ sessions[i] # None
          /\ sessions'[i].client_a = sessions[i].client_a
          /\ sessions'[i].client_b = sessions[i].client_b
  BY DEF AnyInv, TypeOK, MarkConnected, Session
<1>2. client_sessions' = client_sessions
  BY DEF MarkConnected
<1> QED BY <1>1, <1>2 DEF SeatsAgree, SeatsOf, IsEmpty

LEMMA AddClientSeats ==
  ASSUME AnyInv, SeatsAgree, NEW id \in SessionIds, NEW t \in Tcp,
         client_sessions[t] = None, AddClient(id, t)
  PROVE  SeatsAgree'
<1>1. CASE ~CanAdd(id)
  BY <1>1 DEF AddClient, registry, SeatsAgree, SeatsOf
<1>2. CASE CanAdd(id)
  <2> DEFINE s == sessions[id]
             r == Seated(s, t)
  <2>1. /\ s \in Session /\ s # None /\ HasOpenSlot(s)
        /\ t # None /\ id # None
    BY <1>2, AddressAssumption DEF AnyInv, TypeOK, CanAdd
  <2>2. /\ sessions' = [sessions EXCEPT ![id] = r]
        /\ client_sessions' = [client_sessions EXCEPT ![t] = id]
    BY <1>2 DEF AddClient
  <2>3. \/ s.client_a = None /\ r.client_a = t /\ r.client_b = s.client_b
        \/ /\ s.client_a # None /\ r.client_a = s.client_a
           /\ s.client_b = None /\ r.client_b = t
    BY <2>1, SeatedFields
  <2> HIDE DEF r
  <2> SUFFICES ASSUME NEW i \in SessionIds, sessions'[i] # None
               PROVE  /\ \A q \in SeatsOf(i)' : client_sessions'[q] = i
                      /\ sessions'[i].client_a = sessions'[i].client_b =>
                           IsEmpty(sessions'[i])
    BY DEF SeatsAgree
  <2>4. t \notin SeatsOf(i) \/ sessions[i] = None
    BY AddressAssumption DEF SeatsAgree
  <2>5. CASE i = id
    <3>1. sessions'[i] = r
      BY <2>2, <2>5 DEF AnyInv, TypeOK
    <3>2. SeatsOf(i)' = SeatsOf(i) \cup {t}
      BY <2>1, <2>3, <2>5, <3>1 DEF SeatsOf
    <3>3. \A q \in SeatsOf(i) : q \in Tcp /\ client_sessions[q] = i
      BY <2>1, <2>5 DEF SeatsAgree, SeatsOf, Session, Seat
    <3>4. \A q \in SeatsOf(i)' : client_sessions'[q] = i
      BY <2>2, <2>5, <3>2, <3>3 DEF AnyInv, TypeOK
    <3>5. r.client_a # r.client_b
      BY <2>1, <2>3, <2>4, <2>5 DEF SeatsOf
    <3> QED BY <3>1, <3>4, <3>5
  <2>6. CASE i # id
    <3>1. sessions'[i] = sessions[i]
      BY <2>2, <2>6 DEF AnyInv, TypeOK
    <3>2. SeatsOf(i)' = SeatsOf(i)
      BY <3>1 DEF SeatsOf
    <3>3. \A q \in SeatsOf(i) : q \in Tcp /\ q # t /\ client_sessions[q] = i
      BY <2>4, <3>1 DEF AnyInv, TypeOK, SeatsAgree, SeatsOf, Session, Seat
    <3>4. \A q \in SeatsOf(i)' : client_sessions'[q] = i
      BY <2>2, <3>2, <3>3 DEF AnyInv, TypeOK
    <3> QED BY <3>1, <3>4 DEF SeatsAgree
  <2> QED BY <2>5, <2>6
<1> QED BY <1>1, <1>2

LEMMA RemoveClientSeats ==
  ASSUME AnyInv, SeatsAgree, NEW t \in Tcp, RemoveClient(t)
  PROVE  SeatsAgree'
<1> DEFINE id == client_sessions[t]
           s == sessions[id]
           r == Remaining(id, t)
<1>1. CASE id = None
  BY <1>1 DEF RemoveClient, registry, SeatsAgree, SeatsOf
<1>2. CASE id # None
  <2>1. /\ id \in SessionIds /\ s \in Session /\ s # None /\ t # None
    BY <1>2, AddressAssumption DEF AnyInv, TypeOK, MembersSeated
  <2>2. /\ client_sessions' = [client_sessions EXCEPT ![t] = None]
        /\ sessions' = [sessions EXCEPT ![id] = IF IsEmpty(r) THEN None ELSE r]
    BY <1>2, <2>1 DEF RemoveClient
  <2>3. /\ r.client_a = IF s.client_a = t THEN None ELSE s.client_a
        /\ r.client_b = IF s.client_a # t /\ s.client_b = t
                        THEN None ELSE s.client_b
    BY <2>1, RemainingFields
  <2> HIDE DEF r
  <2>4. s.client_a = s.client_b => IsEmpty(s)
    BY <2>1 DEF SeatsAgree
  <2> SUFFICES ASSUME NEW i \in SessionIds, sessions'[i] # None
               PROVE  /\ \A q \in SeatsOf(i)' : client_sessions'[q] = i
                      /\ sessions'[i].client_a = sessions'[i].client_b =>
                           IsEmpty(sessions'[i])
    BY DEF SeatsAgree
  <2>5. CASE i = id
    <3>1. sessions'[i] = r
      BY <2>1, <2>2, <2>5 DEF AnyInv, TypeOK
    <3>2. SeatsOf(i)' = SeatsOf(i) \ {t}
      BY <2>1, <2>3, <2>4, <2>5, <3>1 DEF SeatsOf, IsEmpty
    <3>3. \A q \in SeatsOf(i) : q \in Tcp /\ client_sessions[q] = i
      BY <2>1, <2>5 DEF SeatsAgree, SeatsOf, Session, Seat
    <3>4. \A q \in SeatsOf(i)' : client_sessions'[q] = i
      BY <2>2, <3>2, <3>3 DEF AnyInv, TypeOK
    <3>5. r.client_a = r.client_b => IsEmpty(r)
      BY <2>3, <2>4 DEF IsEmpty
    <3> QED BY <3>1, <3>4, <3>5
  <2>6. CASE i # id
    <3>1. sessions'[i] = sessions[i]
      BY <2>2, <2>6 DEF AnyInv, TypeOK
    <3>2. SeatsOf(i)' = SeatsOf(i)
      BY <3>1 DEF SeatsOf
    <3>3. \A q \in SeatsOf(i) : q \in Tcp /\ q # t /\ client_sessions[q] = i
      BY <2>6, <3>1 DEF AnyInv, TypeOK, SeatsAgree, SeatsOf, Session, Seat
    <3>4. \A q \in SeatsOf(i)' : client_sessions'[q] = i
      BY <2>2, <3>2, <3>3 DEF AnyInv, TypeOK
    <3> QED BY <3>1, <3>4 DEF SeatsAgree
  <2> QED BY <2>5, <2>6
<1> QED BY <1>1, <1>2

LEMMA MapUdpToTcpSeats ==
  ASSUME AnyInv, SeatsAgree, NEW u \in Udp, MapUdpToTcp(u)
  PROVE  SeatsAgree'
<1>1. CASE UNCHANGED <<sessions, client_sessions>>
  BY <1>1 DEF SeatsAgree, SeatsOf
<1>2. ASSUME NEW t \in Candidates(u),
             sessions' = [sessions EXCEPT ![client_sessions[t]] = WithUdp(@, t, u)],
             UNCHANGED client_sessions
      PROVE  SeatsAgree'
  <2> DEFINE id == client_sessions[t]
  <2>1. t \in Tcp /\ id \in SessionIds /\ sessions[id] \in Session
    BY <1>2 DEF AnyInv, TypeOK, Candidates, Unregistered
  <2>2. \A i \in SessionIds :
          sessions'[i] # None =>
            /\ sessions[i] # None
            /\ sessions'[i].client_a = sessions[i].client_a
            /\ sessions'[i].client_b = sessions[i].client_b
    BY <1>2, <2>1, WithUdpFields, AddressAssumption DEF AnyInv, TypeOK
  <2> QED BY <1>2, <2>2 DEF SeatsAgree, SeatsOf, IsEmpty
<1> QED BY <1>1, <1>2 DEF MapUdpToTcp, registry

-----------------------------------------------------------------------------
(* The agreement of addresses and mappings.                                *)

\* A step that moves neither addresses nor mappings.
LEMMA PortsUnmoved ==
  ASSUME PortsAgree, \A q \in Tcp : OwnUdp(q)' = OwnUdp(q), UNCHANGED udp_to_tcp
  PROVE  PortsAgree'
  BY DEF PortsAgree

LEMMA RemoveClientPorts ==
  ASSUME SfuInv, NEW t \in Tcp, RemoveClient(t)
  PROVE  PortsAgree'
<1> DEFINE id == client_sessions[t]
<1> USE DEF SfuInv
<1>1. CASE id = None
  <2>1. UNCHANGED registry
    BY <1>1 DEF RemoveClient
  <2>2. \A q \in Tcp : OwnUdp(q)' = OwnUdp(q)
    BY <2>1 DEF registry, OwnUdp
  <2> QED BY <2>1, <2>2, PortsUnmoved DEF registry
<1>2. CASE id # None
  <2>1. \A q \in Tcp : OwnUdp(q)' = IF q = t THEN None ELSE OwnUdp(q)
    BY <1>2, RemoveClientOwn
  <2>2. \A v \in Udp :
          udp_to_tcp'[v] = IF udp_to_tcp[v] = t THEN None ELSE udp_to_tcp[v]
    BY <1>2 DEF RemoveClient, AnyInv, MembersSeated
  <2>3. \A q \in Tcp, v \in Udp :
          /\ OwnUdp(q)' = v <=> udp_to_tcp'[v] = q
          /\ udp_to_tcp'[v] = q => IpOf[q] = IpOf[v]
    BY <2>1, <2>2, AddressAssumption DEF PortsAgree
  <2> QED BY <2>3 DEF PortsAgree
<1> QED BY <1>1, <1>2

LEMMA MapUdpToTcpPorts ==
  ASSUME SfuInv, NEW u \in Udp, MapUdpToTcp(u)
  PROVE  PortsAgree'
<1> USE DEF SfuInv
<1>1. ~Mapped(u) => udp_to_tcp[u] = None
  BY DEF Mapped, AnyInv, MappingsLive
<1>2. CASE UNCHANGED registry
  <2>1. \A q \in Tcp : OwnUdp(q)' = OwnUdp(q)
    BY <1>2 DEF registry, OwnUdp
  <2> QED BY <1>2, <2>1, PortsUnmoved DEF registry
<1>3. CASE /\ ~Mapped(u)
           /\ udp_to_tcp' = [udp_to_tcp EXCEPT ![u] = None]
           /\ UNCHANGED <<sessions, client_sessions>>
  <2>1. udp_to_tcp' = udp_to_tcp
    BY <1>1, <1>3 DEF AnyInv, TypeOK
  <2>2. \A q \in Tcp : OwnUdp(q)' = OwnUdp(q)
    BY <1>3 DEF OwnUdp
  <2> QED BY <2>1, <2>2, PortsUnmoved
<1>4. ASSUME ~Mapped(u),
             NEW t \in Candidates(u),
             sessions' = [sessions EXCEPT ![client_sessions[t]] = WithUdp(@, t, u)],
             udp_to_tcp' = [udp_to_tcp EXCEPT ![u] = t],
             UNCHANGED client_sessions
      PROVE  PortsAgree'
  <2>1. t \in Tcp /\ IpOf[t] = IpOf[u] /\ udp_to_tcp[u] = None
    BY <1>1, <1>4 DEF Candidates
  <2>2. /\ OwnUdp(t) = None
        /\ \A q \in Tcp : OwnUdp(q)' = IF q = t THEN u ELSE OwnUdp(q)
    BY <1>4, MapUdpToTcpOwn
  <2>3. \A v \in Udp : udp_to_tcp'[v] = IF v = u THEN t ELSE udp_to_tcp[v]
    BY <1>4 DEF AnyInv, TypeOK
  <2>4. \A q \in Tcp, v \in Udp :
          /\ OwnUdp(q)' = v <=> udp_to_tcp'[v] = q
          /\ udp_to_tcp'[v] = q => IpOf[q] = IpOf[v]
    BY <2>1, <2>2, <2>3, AddressAssumption DEF PortsAgree
  <2> QED BY <2>4 DEF PortsAgree
<1> QED BY <1>2, <1>3, <1>4 DEF MapUdpToTcp

-----------------------------------------------------------------------------
(* The invariant of the registry under the calls sfu.rs makes.             *)

THEOREM SfuCallInvariant == SfuCallSpec => []SfuInv
<1>1. RegistryInit => SfuInv
  BY AddressAssumption
     DEF RegistryInit, SfuInv, AnyInv, TypeOK, MembersSeated, MappingsLive,
         PortsSeated, SeatsAgree, PortsAgree, OwnUdp
<1>2. SfuInv /\ [SfuCall]_registry => SfuInv'
  <2> SUFFICES ASSUME SfuInv, [SfuCall]_registry PROVE SfuInv'
    OBVIOUS
  <2> USE DEF SfuInv
  <2>1. ASSUME NEW id \in SessionIds, EnsureSession(id) PROVE SfuInv'
    <3>1. AnyInv' /\ SeatsAgree'
      BY <2>1, EnsureSessionAny, EnsureSessionSeats
    <3>2. PortsAgree'
      BY <2>1, EnsureSessionOwn, PortsUnmoved DEF EnsureSession
    <3> QED BY <3>1, <3>2
  <2>2. ASSUME NEW id \in SessionIds, MarkConnected(id) PROVE SfuInv'
    <3>1. AnyInv' /\ SeatsAgree'
      BY <2>2, MarkConnectedAny, MarkConnectedSeats
    <3>2. PortsAgree'
      BY <2>2, MarkConnectedOwn, PortsUnmoved DEF MarkConnected
    <3> QED BY <3>1, <3>2
  <2>3. ASSUME NEW id \in SessionIds, NEW t \in Tcp,
               client_sessions[t] = None, AddClient(id, t)
        PROVE  SfuInv'
    <3>1. AnyInv' /\ SeatsAgree'
      BY <2>3, AddClientAny, AddClientSeats
    <3>2. UNCHANGED udp_to_tcp
      BY <2>3 DEF AddClient, registry
    <3>3. PortsAgree'
      BY <2>3, <3>2, AddClientOwn, PortsUnmoved
    <3> QED BY <3>1, <3>3
  <2>4. ASSUME NEW t \in Tcp, RemoveClient(t) PROVE SfuInv'
    BY <2>4, RemoveClientAny, RemoveClientSeats, RemoveClientPorts
  <2>5. ASSUME NEW u \in Udp, MapUdpToTcp(u) PROVE SfuInv'
    BY <2>5, MapUdpToTcpAny, MapUdpToTcpSeats, MapUdpToTcpPorts
  <2>6. CASE UNCHANGED registry
    <3>1. AnyInv' /\ SeatsAgree'
      BY <2>6 DEF AnyInv, TypeOK, MembersSeated, SeatsOf, MappingsLive,
                  PortsSeated, SeatsAgree, registry
    <3>2. \A q \in Tcp : OwnUdp(q)' = OwnUdp(q)
      BY <2>6 DEF registry, OwnUdp
    <3> QED BY <2>6, <3>1, <3>2, PortsUnmoved DEF registry
  <2> QED BY <2>1, <2>2, <2>3, <2>4, <2>5, <2>6 DEF SfuCall
<1> QED BY <1>1, <1>2, PTL DEF SfuCallSpec

\* client_sessions is the reverse map of the seats, and nobody has two.
THEOREM SfuCallSeatsAgree == SfuCallSpec => []SeatsAgree
<1>1. SfuInv => SeatsAgree
  BY DEF SfuInv
<1> QED BY <1>1, SfuCallInvariant, PTL

\* udp_to_tcp and the addresses in the seats are inverses of each other, and
\* an address is mapped only to a client of its own host.
THEOREM SfuCallPortsAgree == SfuCallSpec => []PortsAgree
<1>1. SfuInv => PortsAgree
  BY DEF SfuInv
<1> QED BY <1>1, SfuCallInvariant, PTL

-----------------------------------------------------------------------------
(* Forwarding.                                                             *)

\* What get_peer_udp looks up: the address of the other client of the session
\* of the client that the source is mapped to.
LEMMA PeerFound ==
  ASSUME SfuInv, NEW u \in Udp, PeerUdp(u) # None
  PROVE  \E p, q \in Tcp :
           /\ p # q
           /\ udp_to_tcp[u] = p /\ OwnUdp(p) = u
           /\ OwnUdp(q) = PeerUdp(u) /\ PeerUdp(u) \in Udp
           /\ client_sessions[p] # None /\ client_sessions[p] = client_sessions[q]
<1> DEFINE p == udp_to_tcp[u]
           id == client_sessions[p]
           s == sessions[id]
<1> USE DEF SfuInv
<1>1. /\ p \in Tcp /\ id \in SessionIds /\ s \in Session /\ s # None
      /\ id # None /\ p # None
      /\ PeerUdp(u) = PeerUdpIn(s, p)
      /\ p \in {s.client_a, s.client_b}
  BY AddressAssumption
     DEF PeerUdp, PeerUdpFromTcp, AnyInv, TypeOK, MembersSeated, SeatsOf
<1>2. OwnUdp(p) = u
  BY <1>1 DEF PortsAgree
<1>3. /\ s.udp_a # None => s.client_a # None
      /\ s.udp_b # None => s.client_b # None
      /\ s.client_a = s.client_b => s.client_a = None
      /\ \A q \in {s.client_a, s.client_b} \ {None} : client_sessions[q] = id
  BY <1>1 DEF AnyInv, PortsSeated, SeatsAgree, SeatsOf, IsEmpty
<1>4. PeerUdp(u) \in Udp
  BY <1>1 DEF PeerUdpIn, Session, Port
<1>5. CASE s.client_a = p
  <2>1. PeerUdp(u) = s.udp_b
    BY <1>1, <1>5 DEF PeerUdpIn
  <2>2. s.client_b \in Tcp /\ s.client_b # p /\ client_sessions[s.client_b] = id
    BY <1>1, <1>3, <1>5, <2>1 DEF Session, Seat
  <2>3. OwnUdp(s.client_b) = s.udp_b
    BY <1>1, <1>5, <2>2 DEF OwnUdp
  <2> QED BY <1>1, <1>2, <1>4, <2>1, <2>2, <2>3
<1>6. CASE s.client_a # p /\ s.client_b = p
  <2>1. PeerUdp(u) = s.udp_a
    BY <1>1, <1>6 DEF PeerUdpIn
  <2>2. s.client_a \in Tcp /\ s.client_a # p /\ client_sessions[s.client_a] = id
    BY <1>1, <1>3, <1>6, <2>1 DEF Session, Seat
  <2>3. OwnUdp(s.client_a) = s.udp_a
    BY <1>1, <2>2 DEF OwnUdp
  <2> QED BY <1>1, <1>2, <1>4, <2>1, <2>2, <2>3
<1> QED BY <1>1, <1>5, <1>6

\* Conversely, two clients of a session are the only ones in it, and the
\* address of the one is found for the address of the other.
LEMMA PairFound ==
  ASSUME SfuInv, NEW p \in Tcp, NEW q \in Tcp, p # q,
         client_sessions[p] # None, client_sessions[p] = client_sessions[q]
  PROVE  /\ OwnUdp(p) # None => PeerUdp(OwnUdp(p)) = OwnUdp(q)
         /\ \A r \in Tcp : client_sessions[r] = client_sessions[p] => r \in {p, q}
<1> DEFINE id == client_sessions[p]
           s == sessions[id]
<1> USE DEF SfuInv
<1>1. /\ id \in SessionIds /\ s \in Session /\ s # None
      /\ p # None /\ q # None
      /\ p \in {s.client_a, s.client_b}
      /\ q \in {s.client_a, s.client_b}
      /\ \A r \in Tcp : client_sessions[r] = id => r \in {s.client_a, s.client_b}
  BY AddressAssumption DEF AnyInv, TypeOK, MembersSeated, SeatsOf
<1>2. ASSUME OwnUdp(p) # None
      PROVE  PeerUdp(OwnUdp(p)) = OwnUdp(q)
  <2>1. OwnUdp(p) \in Udp
    BY <1>2, OwnUdpType DEF Port
  <2>2. udp_to_tcp[OwnUdp(p)] = p
    BY <2>1 DEF PortsAgree
  <2>3. PeerUdp(OwnUdp(p)) = PeerUdpIn(s, p)
    BY <1>1, <2>2 DEF PeerUdp, PeerUdpFromTcp
  <2> QED BY <1>1, <2>3 DEF PeerUdpIn, OwnUdp
<1> QED BY <1>1, <1>2

LEMMA RoutesSymmetricHolds == SfuInv => RoutesSymmetric
<1> SUFFICES ASSUME SfuInv, NEW u \in Udp, PeerUdp(u) # None
             PROVE  /\ PeerUdp(u) # u
                    /\ PeerUdp(PeerUdp(u)) = u
                    /\ client_sessions[udp_to_tcp[PeerUdp(u)]] =
                         client_sessions[udp_to_tcp[u]]
  BY DEF RoutesSymmetric
<1>1. PICK p, q \in Tcp :
        /\ p # q
        /\ udp_to_tcp[u] = p /\ OwnUdp(p) = u
        /\ OwnUdp(q) = PeerUdp(u) /\ PeerUdp(u) \in Udp
        /\ client_sessions[p] # None /\ client_sessions[p] = client_sessions[q]
  BY PeerFound
<1>2. udp_to_tcp[PeerUdp(u)] = q
  BY <1>1 DEF SfuInv, PortsAgree
<1>3. PeerUdp(OwnUdp(q)) = OwnUdp(p)
  BY <1>1, PairFound
<1> QED BY <1>1, <1>2, <1>3

\* The address a datagram is forwarded to has its own datagrams forwarded
\* back, and both belong to clients of one session.
THEOREM SfuCallRoutesSymmetric == SfuCallSpec => []RoutesSymmetric
  BY RoutesSymmetricHolds, SfuCallInvariant, PTL

LEMMA RoutesAgreeHolds == SfuInv => RoutesAgree
<1> SUFFICES ASSUME SfuInv, NEW u \in Udp
             PROVE  R!Routes(u) = {PeerUdp(u)} \ {None}
  BY DEF RoutesAgree
<1> DEFINE port == [t \in Tcp |-> OwnUdp(t)]
<1>1. R!Routes(u) =
        {port[q] : q \in {q \in Tcp :
           /\ port[q] # None
           /\ \E p \in Tcp : /\ p # q
                             /\ port[p] = u
                             /\ client_sessions[p] = client_sessions[q]}}
  BY DEF R!Routes
<1>2. ASSUME NEW q \in Tcp, NEW p \in Tcp,
             OwnUdp(q) # None, p # q, OwnUdp(p) = u,
             client_sessions[p] = client_sessions[q]
      PROVE  OwnUdp(q) = PeerUdp(u)
  <2>1. client_sessions[p] # None
    BY <1>2, AddressAssumption DEF OwnUdp
  <2> QED BY <1>2, <2>1, PairFound, AddressAssumption
<1>3. ASSUME PeerUdp(u) # None
      PROVE  \E p, q \in Tcp : /\ p # q /\ OwnUdp(p) = u
                               /\ OwnUdp(q) = PeerUdp(u)
                               /\ client_sessions[p] = client_sessions[q]
  BY <1>3, PeerFound
<1> QED BY <1>1, <1>2, <1>3

\* get_peer_udp finds the address that the abstract room prescribes.
THEOREM SfuCallRoutesAgree == SfuCallSpec => []RoutesAgree
  BY RoutesAgreeHolds, SfuCallInvariant, PTL

-----------------------------------------------------------------------------
(* The registry implements Rooms.                                          *)

LEMMA RoomsStutter ==
  ASSUME UNCHANGED client_sessions, \A q \in Tcp : OwnUdp(q)' = OwnUdp(q)
  PROVE  UNCHANGED R!vars
  BY DEF R!vars

LEMMA AddClientJoins ==
  ASSUME SfuInv, NEW id \in SessionIds, NEW t \in Tcp,
         client_sessions[t] = None, AddClient(id, t)
  PROVE  R!Join(t, id) \/ UNCHANGED R!vars
<1> USE DEF SfuInv
<1>1. \A q \in Tcp : OwnUdp(q)' = OwnUdp(q)
  BY AddClientOwn
<1>2. CASE ~CanAdd(id)
  BY <1>1, <1>2, RoomsStutter DEF AddClient, registry
<1>3. CASE CanAdd(id)
  <2>1. client_sessions' = [client_sessions EXCEPT ![t] = id]
    BY <1>3 DEF AddClient
  <2>2. ASSUME NEW p \in Tcp, NEW q \in Tcp,
               client_sessions[p] = id, client_sessions[q] = id
        PROVE  p = q
    <3>1. /\ p \in {sessions[id].client_a, sessions[id].client_b} \ {None}
          /\ q \in {sessions[id].client_a, sessions[id].client_b} \ {None}
      BY <2>2, AddressAssumption DEF AnyInv, MembersSeated, SeatsOf
    <3> QED BY <1>3, <3>1 DEF CanAdd, HasOpenSlot
  <2>3. [q \in Tcp |-> OwnUdp(q)]' = [q \in Tcp |-> OwnUdp(q)]
    BY <1>1
  <2> QED BY <2>1, <2>2, <2>3 DEF R!Join
<1> QED BY <1>2, <1>3

LEMMA RemoveClientLeaves ==
  ASSUME SfuInv, NEW t \in Tcp, RemoveClient(t)
  PROVE  R!Leave(t) \/ UNCHANGED R!vars
<1> USE DEF SfuInv
<1>1. CASE client_sessions[t] = None
  BY <1>1 DEF RemoveClient, registry, R!vars, OwnUdp
<1>2. CASE client_sessions[t] # None
  <2>1. \A q \in Tcp : OwnUdp(q)' = IF q = t THEN None ELSE OwnUdp(q)
    BY <1>2, RemoveClientOwn
  <2>2. client_sessions' = [client_sessions EXCEPT ![t] = None]
    BY <1>2 DEF RemoveClient
  <2>3. [q \in Tcp |-> OwnUdp(q)]' =
          [[q \in Tcp |-> OwnUdp(q)] EXCEPT ![t] = None]
    BY <2>1
  <2> QED BY <1>2, <2>2, <2>3 DEF R!Leave
<1> QED BY <1>1, <1>2

LEMMA MapUdpToTcpBinds ==
  ASSUME SfuInv, NEW u \in Udp, MapUdpToTcp(u)
  PROVE  (\E t \in Tcp : R!Bind(t, u)) \/ UNCHANGED R!vars
<1> USE DEF SfuInv
<1>1. CASE UNCHANGED <<sessions, client_sessions>>
  BY <1>1 DEF R!vars, OwnUdp
<1>2. ASSUME ~Mapped(u),
             NEW t \in Candidates(u),
             sessions' = [sessions EXCEPT ![client_sessions[t]] = WithUdp(@, t, u)],
             UNCHANGED client_sessions
      PROVE  R!Bind(t, u)
  <2>1. /\ t \in Tcp /\ client_sessions[t] # None /\ IpOf[t] = IpOf[u]
    BY <1>2 DEF Candidates
  <2>2. udp_to_tcp[u] = None
    BY <1>2 DEF Mapped, AnyInv, MappingsLive
  <2>3. /\ OwnUdp(t) = None
        /\ \A q \in Tcp : OwnUdp(q)' = IF q = t THEN u ELSE OwnUdp(q)
    BY <1>2, MapUdpToTcpOwn
  <2>4. \A p \in Tcp : OwnUdp(p) # u
    BY <2>2, AddressAssumption DEF PortsAgree
  <2>5. [q \in Tcp |-> OwnUdp(q)]' = [[q \in Tcp |-> OwnUdp(q)] EXCEPT ![t] = u]
    BY <2>3
  <2> QED BY <1>2, <2>1, <2>3, <2>4, <2>5 DEF R!Bind
<1>3. ASSUME NEW t \in Candidates(u), R!Bind(t, u)
      PROVE  \E q \in Tcp : R!Bind(q, u)
  BY <1>3 DEF Candidates
<1> QED BY <1>1, <1>2, <1>3 DEF MapUdpToTcp, registry

\* Seen through the rooms of its clients and the addresses at their seats,
\* every call that sfu.rs makes is a Join, a Bind, a Leave or nothing.
THEOREM SfuCallImplementsRooms == SfuCallSpec => RoomsSpec
<1>1. RegistryInit => R!Init
  BY DEF RegistryInit, R!Init, OwnUdp
<1>2. SfuInv /\ [SfuCall]_registry => [R!Next]_(R!vars)
  <2> SUFFICES ASSUME SfuInv, [SfuCall]_registry
               PROVE  R!Next \/ UNCHANGED R!vars
    OBVIOUS
  <2>1. ASSUME NEW id \in SessionIds, EnsureSession(id)
        PROVE  UNCHANGED R!vars
    BY <2>1, EnsureSessionOwn, RoomsStutter DEF SfuInv, EnsureSession
  <2>2. ASSUME NEW id \in SessionIds, MarkConnected(id)
        PROVE  UNCHANGED R!vars
    BY <2>2, MarkConnectedOwn, RoomsStutter DEF SfuInv, MarkConnected
  <2>3. ASSUME NEW id \in SessionIds, NEW t \in Tcp,
               client_sessions[t] = None, AddClient(id, t)
        PROVE  R!Next \/ UNCHANGED R!vars
    BY <2>3, AddClientJoins DEF R!Next
  <2>4. ASSUME NEW t \in Tcp, RemoveClient(t)
        PROVE  R!Next \/ UNCHANGED R!vars
    BY <2>4, RemoveClientLeaves DEF R!Next
  <2>5. ASSUME NEW u \in Udp, MapUdpToTcp(u)
        PROVE  R!Next \/ UNCHANGED R!vars
    BY <2>5, MapUdpToTcpBinds DEF R!Next
  <2>6. CASE UNCHANGED registry
    BY <2>6 DEF registry, R!vars, OwnUdp
  <2> QED BY <2>1, <2>2, <2>3, <2>4, <2>5, <2>6 DEF SfuCall
<1> QED BY <1>1, <1>2, SfuCallInvariant, PTL DEF SfuCallSpec, RoomsSpec, R!Spec

=============================================================================
