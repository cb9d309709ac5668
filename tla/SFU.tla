-------------------------------- MODULE SFU ---------------------------------
(***************************************************************************)
(* The server of server/src/sfu.rs over the registry of Sessions: one      *)
(* handle_client task per TCP connection and one udp_loop task, which      *)
(* interleave between any two of their accesses to the registry, and the   *)
(* clients and the network that drive them.                                *)
(*                                                                         *)
(* A task does one access to shared state per step: a method of the        *)
(* SessionManager (it holds the lock from its start to its end), a send to *)
(* a mailbox, a line written to a connection.  Reading a command or a      *)
(* datagram touches nothing another task reads, so it is part of the step  *)
(* of the access that follows it.                                          *)
(***************************************************************************)
EXTENDS Sessions, Sequences, Naturals

CONSTANTS
  SocketOf,          \* SocketOf[t]: the UDP socket of the client behind t
  MaxCommands,       \* bound: MaxCommands[t] commands from a connection
  LeavesBeforeJoin,  \* a client in a session sends no JOIN (client.rs does not)
  Faults             \* what may fail: a subset of FaultKinds

\* tcp: a read or a write of a connection fails; lose, duplicate: datagrams.
FaultKinds == {"tcp", "lose", "duplicate"}

ASSUME EnvironmentAssumption ==
  /\ SocketOf \in [Tcp -> Udp]
  /\ \A p, q \in Tcp : SocketOf[p] = SocketOf[q] => p = q
  /\ MaxCommands \in [Tcp -> Nat]
  /\ LeavesBeforeJoin \in BOOLEAN
  /\ Faults \subseteq FaultKinds

VARIABLES
  pc,        \* where the handle_client task of a connection is
  asked,     \* the session id of the last JOIN of a connection
  peer_tx,   \* the mailbox notify_peer cloned under the lock, by its owner
  mailbox,   \* the unbounded channel peer_rx of a connection
  line,      \* the last line written to a connection
  commands,  \* how many commands a connection has sent
  hungup,    \* connections whose client has closed its end
  pinged,    \* clients that have sent the PING of the handshake
  net,       \* UDP sources with a datagram in flight to the server
  fwd        \* the locals of udp_loop

control == <<pc, asked, peer_tx, mailbox, line, commands>>
vars == <<registry, control, hungup, pinged, net, fwd>>

Message == {"Connect", "Disconnect"}
Line == {"OK", "ERROR", "LEFT", "CONNECTED", "DISCONNECTED"}

\* unborn: not accepted yet.  join: between ensure_session and add_client.
\* joined, refused, left: the reply to write.  *_notify: between the lookup
\* of notify_peer and its send.  *_remove: before remove_client.
HandlerState ==
  {"unborn", "select", "join", "joined", "refused",
   "leave_notify", "leave_remove", "left", "eof_notify", "eof_remove", "ended"}

\* Before which of its accesses to shared state udp_loop is.
ForwarderState ==
  {"recv", "peer", "src_tcp", "dst_tcp", "session", "connected", "find_src",
   "tell_src", "find_dst", "tell_dst", "mark", "send"}

Forwarder ==
  [at : ForwarderState, src : Port, dst : Port, src_tcp : Seat,
   dst_tcp : Seat, id : SessionIds \cup {None}, tx : Seat]

SfuTypeOK ==
  /\ TypeOK
  /\ pc \in [Tcp -> HandlerState]
  /\ asked \in [Tcp -> SessionIds \cup {None}]
  /\ peer_tx \in [Tcp -> Seat]
  /\ mailbox \in [Tcp -> Seq(Message)]
  /\ line \in [Tcp -> Line \cup {None}]
  /\ commands \in [Tcp -> Nat]
  /\ \A t \in Tcp : commands[t] <= MaxCommands[t]
  /\ hungup \subseteq Tcp
  /\ pinged \subseteq Tcp
  /\ net \subseteq Udp
  /\ fwd \in Forwarder

Receiving ==
  [at |-> "recv", src |-> None, dst |-> None, src_tcp |-> None,
   dst_tcp |-> None, id |-> None, tx |-> None]

Init ==
  /\ RegistryInit
  /\ pc = [t \in Tcp |-> "unborn"]
  /\ asked = [t \in Tcp |-> None]
  /\ peer_tx = [t \in Tcp |-> None]
  /\ mailbox = [t \in Tcp |-> <<>>]
  /\ line = [t \in Tcp |-> None]
  /\ commands = [t \in Tcp |-> 0]
  /\ hungup = {}
  /\ pinged = {}
  /\ net = {}
  /\ fwd = Receiving

-----------------------------------------------------------------------------
(* Tasks, mailboxes and connections.                                       *)

Goto(t, from, to) ==
  /\ pc[t] = from
  /\ pc' = [pc EXCEPT ![t] = to]

\* tx.send(msg): fails silently when the receiving task has ended, because
\* that task dropped its receiver.
Deliver(tx, msg) ==
  mailbox' = IF tx = None \/ pc[tx] = "ended" THEN mailbox
             ELSE [mailbox EXCEPT ![tx] = Append(@, msg)]

\* A read or a write fails and `?` ends the task: no cleanup runs.
Abort(t) ==
  /\ "tcp" \in Faults
  /\ pc' = [pc EXCEPT ![t] = "ended"]
  /\ mailbox' = [mailbox EXCEPT ![t] = <<>>]
  /\ UNCHANGED <<registry, asked, peer_tx, line, commands>>

-----------------------------------------------------------------------------
(* handle_client.                                                          *)

\* run: a connection is accepted and its task spawned.
Accept(t) ==
  /\ Goto(t, "unborn", "select")
  /\ UNCHANGED <<registry, asked, peer_tx, mailbox, line, commands>>

Command(t) ==
  /\ pc[t] = "select"
  /\ commands[t] < MaxCommands[t]
  /\ commands' = [commands EXCEPT ![t] = @ + 1]

\* "JOIN id": ensure_session.
ReadJoin(t, id) ==
  /\ Command(t)
  /\ LeavesBeforeJoin => client_sessions[t] = None
  /\ Goto(t, "select", "join")
  /\ asked' = [asked EXCEPT ![t] = id]
  /\ EnsureSession(id)
  /\ UNCHANGED <<peer_tx, mailbox, line>>

\* add_client, and the reply that its result selects.
Join(t) ==
  /\ Goto(t, "join", IF CanAdd(asked[t]) THEN "joined" ELSE "refused")
  /\ AddClient(asked[t], t)
  /\ UNCHANGED <<asked, peer_tx, mailbox, line, commands>>

\* "LEAVE": notify_peer, remove_client, the reply.
ReadLeave(t) ==
  /\ Command(t)
  /\ Goto(t, "select", "leave_notify")
  /\ peer_tx' = [peer_tx EXCEPT ![t] = NotifyTarget(t)]
  /\ UNCHANGED <<registry, asked, mailbox, line>>

\* Mutant: the end of the stream is read like an empty command.
ReadEofIgnored(t) ==
  /\ t \in hungup
  /\ pc[t] = "select"
  /\ UNCHANGED <<registry, control>>

\* read returned 0: the client closed its end.
ReadEof(t) ==
  /\ t \in hungup
  /\ Goto(t, "select", "eof_notify")
  /\ peer_tx' = [peer_tx EXCEPT ![t] = NotifyTarget(t)]
  /\ UNCHANGED <<registry, asked, mailbox, line, commands>>

\* The read fails, or what it read is not UTF-8.
ReadError(t) ==
  /\ pc[t] = "select"
  /\ Abort(t)

\* The send of notify_peer, after the lock is released.
NotifyLeft(t) ==
  /\ \/ Goto(t, "leave_notify", "leave_remove")
     \/ Goto(t, "eof_notify", "eof_remove")
  /\ Deliver(peer_tx[t], "Disconnect")
  /\ peer_tx' = [peer_tx EXCEPT ![t] = None]
  /\ UNCHANGED <<registry, asked, line, commands>>

RemoveLeft(t) ==
  /\ Goto(t, "leave_remove", "left")
  /\ RemoveClient(t)
  /\ UNCHANGED <<asked, peer_tx, mailbox, line, commands>>

\* Mutant: the task ends without remove_client.
RemoveEofSkipped(t) ==
  /\ Goto(t, "eof_remove", "ended")
  /\ mailbox' = [mailbox EXCEPT ![t] = <<>>]
  /\ UNCHANGED <<registry, asked, peer_tx, line, commands>>

\* The cleanup after the loop; the task returns and drops its receiver.
RemoveEof(t) ==
  /\ Goto(t, "eof_remove", "ended")
  /\ RemoveClient(t)
  /\ mailbox' = [mailbox EXCEPT ![t] = <<>>]
  /\ UNCHANGED <<asked, peer_tx, line, commands>>

\* What is written back in each state that owes a reply.
ReplyTo == [joined |-> "OK", refused |-> "ERROR", left |-> "LEFT"]

Reply(t) ==
  /\ pc[t] \in DOMAIN ReplyTo
  /\ pc' = [pc EXCEPT ![t] = "select"]
  /\ line' = [line EXCEPT ![t] = ReplyTo[pc[t]]]
  /\ UNCHANGED <<registry, asked, peer_tx, mailbox, commands>>

LineFor == [Connect |-> "CONNECTED", Disconnect |-> "DISCONNECTED"]

\* Mutant: messages are written by a task of their own, at any time.
NotifyAtOnce(t) ==
  /\ mailbox[t] # <<>>
  /\ line' = [line EXCEPT ![t] = LineFor[Head(mailbox[t])]]
  /\ mailbox' = [mailbox EXCEPT ![t] = Tail(@)]
  /\ UNCHANGED <<registry, pc, asked, peer_tx, commands>>

\* The other branch of select!: a message for this client.
Notify(t) ==
  /\ pc[t] = "select"
  /\ mailbox[t] # <<>>
  /\ line' = [line EXCEPT ![t] = LineFor[Head(mailbox[t])]]
  /\ mailbox' = [mailbox EXCEPT ![t] = Tail(@)]
  /\ UNCHANGED <<registry, pc, asked, peer_tx, commands>>

\* The write of Reply or Notify fails: the client is no longer there.
WriteError(t) ==
  /\ t \in hungup
  /\ \/ pc[t] \in DOMAIN ReplyTo
     \/ pc[t] = "select" /\ mailbox[t] # <<>>
  /\ Abort(t)

\* What the task does of itself, and what it does at its client's word.
HandlerStep(t) ==
  \/ Join(t)
  \/ Reply(t)
  \/ Notify(t)
  \/ ReadEof(t)
  \/ NotifyLeft(t)
  \/ RemoveLeft(t)
  \/ RemoveEof(t)

HandlerInput(t) ==
  \/ Accept(t)
  \/ \E id \in SessionIds : ReadJoin(t, id)
  \/ ReadLeave(t)
  \/ ReadError(t)
  \/ WriteError(t)

Handler(t) ==
  /\ HandlerStep(t) \/ HandlerInput(t)
  /\ UNCHANGED <<hungup, pinged, net, fwd>>

-----------------------------------------------------------------------------
(* Clients and the network.                                                *)

\* The client process ends or closes its connection.
HangUp(t) ==
  /\ pc[t] \notin {"unborn", "ended"}
  /\ t \notin hungup
  /\ hungup' = hungup \cup {t}
  /\ UNCHANGED <<registry, control, pinged, net, fwd>>

\* client.rs, run: expect_ok, then one PING, never repeated.
Ping(t) ==
  /\ t \notin hungup \cup pinged
  /\ line[t] \notin {None, "ERROR"}
  /\ pinged' = pinged \cup {t}
  /\ net' = net \cup {SocketOf[t]}
  /\ UNCHANGED <<registry, control, hungup, fwd>>

\* A frame: the sender task waits for the peer flag, set by CONNECTED.
SendFrame(t) ==
  /\ t \notin hungup
  /\ line[t] = "CONNECTED"
  /\ net' = net \cup {SocketOf[t]}
  /\ UNCHANGED <<registry, control, hungup, pinged, fwd>>

Lose(u) ==
  /\ "lose" \in Faults
  /\ u \in net
  /\ net' = net \ {u}
  /\ UNCHANGED <<registry, control, hungup, pinged, fwd>>

-----------------------------------------------------------------------------
(* udp_loop: one datagram at a time, ten accesses to the registry.         *)

At(here) == fwd.at = here

\* recv_from, map_udp_to_tcp.
Recv(u) ==
  /\ At("recv")
  /\ u \in net
  /\ \/ net' = net \ {u}
     \/ "duplicate" \in Faults /\ net' = net
  /\ MapUdpToTcp(u)
  /\ fwd' = [Receiving EXCEPT !.at = "peer", !.src = u]
  /\ UNCHANGED mailbox

\* get_peer_udp: no peer, and the datagram is dropped.
FindPeer ==
  /\ At("peer")
  /\ fwd' = IF PeerUdp(fwd.src) = None THEN Receiving
            ELSE [fwd EXCEPT !.at = "src_tcp", !.dst = PeerUdp(fwd.src)]
  /\ UNCHANGED <<registry, net, mailbox>>

\* tcp_for_udp, of the source and of the destination.
FindSrcTcp ==
  /\ At("src_tcp")
  /\ fwd' = [fwd EXCEPT !.at = "dst_tcp", !.src_tcp = udp_to_tcp[fwd.src]]
  /\ UNCHANGED <<registry, net, mailbox>>

\* The datagram is sent on; the other locals are dead.
Sending == [Receiving EXCEPT !.at = "send", !.src = fwd.src, !.dst = fwd.dst]

FindDstTcp ==
  /\ At("dst_tcp")
  /\ fwd' = IF fwd.src_tcp = None \/ udp_to_tcp[fwd.dst] = None THEN Sending
            ELSE [fwd EXCEPT !.at = "session", !.dst_tcp = udp_to_tcp[fwd.dst]]
  /\ UNCHANGED <<registry, net, mailbox>>

\* session_id_for the destination.
FindSession ==
  /\ At("session")
  /\ fwd' = IF client_sessions[fwd.dst_tcp] = None THEN Sending
            ELSE [fwd EXCEPT !.at = "connected",
                             !.id = client_sessions[fwd.dst_tcp]]
  /\ UNCHANGED <<registry, net, mailbox>>

\* Mutant: the condition of the if is negated.
CheckConnectedNegated ==
  /\ At("connected")
  /\ fwd' = IF ~IsConnected(fwd.id) THEN Sending
            ELSE [fwd EXCEPT !.at = "find_src"]
  /\ UNCHANGED <<registry, net, mailbox>>

CheckConnected ==
  /\ At("connected")
  /\ fwd' = IF IsConnected(fwd.id) THEN Sending
            ELSE [fwd EXCEPT !.at = "find_src"]
  /\ UNCHANGED <<registry, net, mailbox>>

\* notify_peer(src_tcp, Connect), then notify_peer(dst_tcp, Connect): the
\* lookup under the lock and the send after it.
FindTarget(here, next, of) ==
  /\ At(here)
  /\ fwd' = [fwd EXCEPT !.at = next, !.tx = NotifyTarget(of)]
  /\ UNCHANGED <<registry, net, mailbox>>

TellTarget(here, next) ==
  /\ At(here)
  /\ Deliver(fwd.tx, "Connect")
  /\ fwd' = [fwd EXCEPT !.at = next, !.tx = None]
  /\ UNCHANGED <<registry, net>>

NotifySrc ==
  \/ FindTarget("find_src", "tell_src", fwd.src_tcp)
  \/ TellTarget("tell_src", "find_dst")

\* Mutant: only the source is told.
NotifyDstSkipped ==
  /\ At("find_dst")
  /\ fwd' = [fwd EXCEPT !.at = "mark"]
  /\ UNCHANGED <<registry, net, mailbox>>

NotifyDst ==
  \/ FindTarget("find_dst", "tell_dst", fwd.dst_tcp)
  \/ TellTarget("tell_dst", "mark")

\* Mutant: entry(id).or_insert instead of get_mut(id).
MarkRecreates ==
  /\ At("mark")
  /\ sessions' = [sessions EXCEPT ![fwd.id] =
       [(IF @ = None THEN NewSession ELSE @) EXCEPT !.connected_notified = TRUE]]
  /\ fwd' = Sending
  /\ UNCHANGED <<client_sessions, udp_to_tcp, net, mailbox>>

Mark ==
  /\ At("mark")
  /\ MarkConnected(fwd.id)
  /\ fwd' = Sending
  /\ UNCHANGED <<net, mailbox>>

\* send_to: to an address that may have left the session since it was found.
Send ==
  /\ At("send")
  /\ fwd' = Receiving
  /\ UNCHANGED <<registry, net, mailbox>>

ForwarderStep ==
  /\ \/ FindPeer
     \/ FindSrcTcp
     \/ FindDstTcp
     \/ FindSession
     \/ CheckConnected
     \/ NotifySrc
     \/ NotifyDst
     \/ Mark
     \/ Send
  /\ UNCHANGED <<pc, asked, peer_tx, line, commands, hungup, pinged>>

Receive(u) ==
  /\ Recv(u)
  /\ UNCHANGED <<pc, asked, peer_tx, line, commands, hungup, pinged>>

-----------------------------------------------------------------------------

Next ==
  \/ \E t \in Tcp : Handler(t) \/ HangUp(t) \/ Ping(t) \/ SendFrame(t)
  \/ \E u \in Udp : Receive(u) \/ Lose(u)
  \/ ForwarderStep

Spec == Init /\ [][Next]_vars

\* The runtime polls every task that can run; a client that was let in sends
\* its PING; a datagram that reached the socket waits there in order, so the
\* loop does not pass it by for ever.  Clients owe no command and no hang-up.
Fairness ==
  /\ \A t \in Tcp : WF_vars(HandlerStep(t) /\ UNCHANGED <<hungup, pinged, net, fwd>>)
  /\ \A t \in Tcp : WF_vars(Ping(t))
  /\ WF_vars(ForwarderStep)
  /\ \A u \in Udp : SF_vars(Receive(u))

FairSpec == Spec /\ Fairness

-----------------------------------------------------------------------------
(* Safety.                                                                 *)

\* The registry is used as SfuCallSpec says: only the task of a connection
\* registers or removes it, and never twice, though the check and the
\* registration are steps apart.
UsesRegistry == SfuCallSpec

\* An empty session is in the map only while a JOIN is between ensure_session
\* and add_client: none is left behind by a refused or interrupted JOIN.
NoOrphanSession ==
  \A id \in SessionIds :
    sessions[id] # None /\ IsEmpty(sessions[id]) =>
      \E t \in Tcp : pc[t] = "join" /\ asked[t] = id

\* A task that has ended has taken its client out of the registry.
NoGhost ==
  \A t \in Tcp : pc[t] = "ended" => client_sessions[t] = None

\* The client behind a UDP address.
Owner(u) == CHOOSE t \in Tcp : SocketOf[t] = u

\* A datagram is sent on only between clients that asked for one session,
\* although the destination is looked up many steps before it is used.
FramesStayInSession ==
  At("send") => asked[Owner(fwd.src)] = asked[Owner(fwd.dst)]

Told(t) ==
  \/ line[t] = "CONNECTED"
  \/ \E i \in DOMAIN mailbox[t] : mailbox[t][i] = "Connect"

\* While nobody who asked for a session has hung up, its connected_notified
\* means that both its clients have been told, or will be: the flag stops
\* udp_loop from ever telling them again.  (Clients that JOIN once.)
NotifiedMeansTold ==
  \A id \in SessionIds :
    IsConnected(id) /\ (\A t \in hungup : asked[t] # id) =>
      ~HasOpenSlot(sessions[id]) /\ \A t \in SeatsOf(id) : Told(t)

Together(p, q) ==
  p # q /\ client_sessions[p] # None /\ client_sessions[p] = client_sessions[q]

\* Whenever udp_loop waits for a datagram, no pair is forgotten: two clients
\* of one session whose addresses are both known have been told of each other,
\* or will be, while nobody who asked for the session has hung up.  The
\* datagram that made the second address known was the last chance the
\* handshake gave: the PING is not repeated.  (Clients that JOIN once.)
NoForgottenPair ==
  At("recv") =>
    \A p, q \in Tcp :
      /\ Together(p, q) /\ OwnUdp(p) # None /\ OwnUdp(q) # None
      /\ \A t \in hungup : asked[t] # client_sessions[p]
      => Told(p) /\ Told(q)

\* expect_ok in client.rs takes the first line for the reply to its JOIN: no
\* notification comes before it, though the client is registered earlier.
ReplyComesFirst ==
  [][\A t \in Tcp : line[t] = None => line'[t] \in {None, "OK", "ERROR", "LEFT"}]_line

-----------------------------------------------------------------------------
(* Liveness.                                                               *)

\* Two clients of one session are both told so, unless somebody leaves
\* (what a departure at the wrong moment does is NoStrandedPair).
PairConnects ==
  \A p, q \in Tcp :
    Together(p, q) ~>
      \/ line[p] = "CONNECTED" /\ line[q] = "CONNECTED"
      \/ ~Together(p, q)
      \/ hungup # {}

\* A client that hangs up is taken out of the registry.
HangUpCleans ==
  \A t \in Tcp : (t \in hungup) ~> (pc[t] = "ended" /\ client_sessions[t] = None)

-----------------------------------------------------------------------------
(* What one would expect and the code does not keep: each of these has a   *)
(* counterexample (see the README).                                        *)

\* Nothing is under way: no datagram, no message, no task between steps.
Quiet ==
  /\ At("recv")
  /\ net = {}
  /\ \A t \in Tcp :
       /\ pc[t] \in {"unborn", "select", "ended"}
       /\ mailbox[t] = <<>>
       /\ t \in hungup => pc[t] = "ended"

\* When nothing is under way, two clients of one session whose UDP addresses
\* are known have both been told so.
NoStrandedPair ==
  Quiet =>
    \A p, q \in Tcp :
      Together(p, q) /\ OwnUdp(p) # None /\ OwnUdp(q) # None => line[p] = "CONNECTED"

\* When nothing is under way, who was last told CONNECTED has a peer.
NoPhantomPeer ==
  Quiet =>
    \A t \in Tcp :
      line[t] = "CONNECTED" /\ pc[t] # "ended" => \E p \in Tcp : Together(t, p)

\* add_client refuses, and "ERROR: session full" follows, only when it is full.
RefusedOnlyWhenFull ==
  [][\A t \in Tcp : pc[t] = "join" /\ pc'[t] = "refused" => SessionFull(asked[t])]_pc

=============================================================================
