----------------------------- MODULE SFUProofs ------------------------------
(***************************************************************************)
(* Theorems about the server, for any number of connections, sessions and  *)
(* commands and any faults: the tasks of sfu.rs use the registry as        *)
(* SfuCallSpec says, so what SessionsProofs shows of it holds while the    *)
(* server runs; and no session without clients is left in the map.         *)
(***************************************************************************)
EXTENDS SFU, SessionsProofs

-----------------------------------------------------------------------------
(* What the lookups return.                                                *)

LEMMA PeerUdpType ==
  ASSUME TypeOK, NEW u \in Udp
  PROVE  PeerUdp(u) \in Port
<1> DEFINE t == udp_to_tcp[u]
<1>1. CASE t = None
  BY <1>1 DEF PeerUdp, Port
<1>2. CASE t # None
  <2>1. t \in Tcp /\ client_sessions[t] \in SessionIds \cup {None}
    BY <1>2 DEF TypeOK
  <2>2. CASE client_sessions[t] = None \/ sessions[client_sessions[t]] = None
    BY <1>2, <2>2 DEF PeerUdp, PeerUdpFromTcp, Port
  <2>3. CASE ~(client_sessions[t] = None \/ sessions[client_sessions[t]] = None)
    <3>1. sessions[client_sessions[t]] \in Session
      BY <2>1, <2>3 DEF TypeOK
    <3> QED BY <1>2, <2>3, <3>1
            DEF PeerUdp, PeerUdpFromTcp, PeerUdpIn, Session, Port
  <2> QED BY <2>2, <2>3
<1> QED BY <1>1, <1>2

LEMMA NotifyTargetType ==
  ASSUME TypeOK, NEW t \in Tcp
  PROVE  NotifyTarget(t) \in Seat
<1> DEFINE id == client_sessions[t]
<1>1. CASE id = None \/ sessions[id] = None
  BY <1>1 DEF NotifyTarget, Seat
<1>2. CASE ~(id = None \/ sessions[id] = None)
  <2>1. sessions[id] \in Session
    BY <1>2 DEF TypeOK
  <2>2. PeerTx(sessions[id], t) \in Seat
    BY <2>1 DEF PeerTx, Session, Seat
  <2> QED BY <1>2, <2>2 DEF NotifyTarget
<1> QED BY <1>1, <1>2

\* A delivery keeps the mailboxes lists of messages.
LEMMA DeliverType ==
  ASSUME mailbox \in [Tcp -> Seq(Message)], NEW tx \in Seat,
         NEW msg \in Message, Deliver(tx, msg)
  PROVE  mailbox' \in [Tcp -> Seq(Message)]
<1>1. CASE tx = None \/ pc[tx] = "ended"
  BY <1>1 DEF Deliver
<1>2. CASE ~(tx = None \/ pc[tx] = "ended")
  <2>1. tx \in Tcp
    BY <1>2 DEF Seat
  <2>2. Append(mailbox[tx], msg) \in Seq(Message)
    BY <2>1
  <2> QED BY <1>2, <2>1, <2>2 DEF Deliver
<1> QED BY <1>1, <1>2

-----------------------------------------------------------------------------
(* The inductive invariant.                                                *)

\* Every task that is about to call add_client has no session and knows the
\* id to add it to.
JoinsUnseated ==
  \A t \in Tcp :
    pc[t] = "join" => client_sessions[t] = None /\ asked[t] \in SessionIds

\* The locals of udp_loop that are bound where it is.
LocalsBound ==
  /\ ~At("recv") => fwd.src \in Udp
  /\ fwd.at \notin {"recv", "peer"} => fwd.dst \in Udp
  /\ fwd.at \notin {"recv", "peer", "src_tcp", "dst_tcp", "send"} =>
       fwd.src_tcp \in Tcp /\ fwd.dst_tcp \in Tcp
  /\ fwd.at \notin {"recv", "peer", "src_tcp", "dst_tcp", "session", "send"} =>
       fwd.id \in SessionIds

ServerInv == SfuTypeOK /\ LocalsBound /\ JoinsUnseated

-----------------------------------------------------------------------------
(* handle_client preserves the invariant.                                  *)

\* What one connection does to the control state, all but the registry.
ControlTypeOK ==
  /\ pc \in [Tcp -> HandlerState]
  /\ asked \in [Tcp -> SessionIds \cup {None}]
  /\ peer_tx \in [Tcp -> Seat]
  /\ mailbox \in [Tcp -> Seq(Message)]
  /\ line \in [Tcp -> Line \cup {None}]
  /\ commands \in [Tcp -> Nat]
  /\ \A t \in Tcp : commands[t] <= MaxCommands[t]

\* The session of every other connection is left alone by a task.
OthersKept(t) == \A q \in Tcp \ {t} : client_sessions'[q] = client_sessions[q]

LEMMA AcceptInv ==
  ASSUME SfuTypeOK, JoinsUnseated, NEW t \in Tcp, Accept(t)
  PROVE  TypeOK' /\ ControlTypeOK' /\ JoinsUnseated'
<1>1. TypeOK' /\ UNCHANGED registry
  BY DEF SfuTypeOK, Accept, TypeOK, registry
<1>2. ControlTypeOK'
  BY DEF SfuTypeOK, ControlTypeOK, Accept, Goto, HandlerState
<1>3. JoinsUnseated'
  BY <1>1 DEF SfuTypeOK, JoinsUnseated, Accept, Goto, registry
<1> QED BY <1>1, <1>2, <1>3

LEMMA CommandBound ==
  ASSUME SfuTypeOK, NEW t \in Tcp, Command(t)
  PROVE  /\ commands' \in [Tcp -> Nat]
         /\ \A q \in Tcp : commands'[q] <= MaxCommands[q]
<1>1. commands[t] \in Nat /\ MaxCommands[t] \in Nat
  BY EnvironmentAssumption DEF SfuTypeOK
<1>2. commands[t] + 1 \in Nat /\ commands[t] + 1 <= MaxCommands[t]
  BY <1>1 DEF Command
<1>3. commands' = [commands EXCEPT ![t] = commands[t] + 1]
  BY DEF Command
<1> QED BY <1>2, <1>3 DEF SfuTypeOK

LEMMA ReadJoinInv ==
  ASSUME SfuTypeOK, JoinsUnseated, LeavesBeforeJoin,
         NEW t \in Tcp, NEW id \in SessionIds, ReadJoin(t, id)
  PROVE  TypeOK' /\ ControlTypeOK' /\ JoinsUnseated'
<1>1. TypeOK'
  BY EnsureSessionType DEF SfuTypeOK, ReadJoin
<1>2. ControlTypeOK'
  BY CommandBound DEF SfuTypeOK, ControlTypeOK, ReadJoin, Goto, HandlerState
<1>3. JoinsUnseated'
  BY DEF SfuTypeOK, JoinsUnseated, ReadJoin, Goto, EnsureSession
<1> QED BY <1>1, <1>2, <1>3

LEMMA JoinInv ==
  ASSUME SfuTypeOK, JoinsUnseated, NEW t \in Tcp, Join(t)
  PROVE  TypeOK' /\ ControlTypeOK' /\ JoinsUnseated'
<1>1. pc[t] = "join" /\ asked[t] \in SessionIds
  BY DEF JoinsUnseated, Join, Goto
<1>2. TypeOK'
  BY <1>1, AddClientType DEF SfuTypeOK, Join
<1>3. ControlTypeOK'
  BY DEF SfuTypeOK, ControlTypeOK, Join, Goto, HandlerState
<1>4. OthersKept(t)
  BY <1>1 DEF SfuTypeOK, TypeOK, Join, AddClient, OthersKept, registry
<1>5. JoinsUnseated'
  BY <1>4 DEF SfuTypeOK, JoinsUnseated, Join, Goto, OthersKept
<1> QED BY <1>2, <1>3, <1>5

LEMMA ReadLeaveInv ==
  ASSUME SfuTypeOK, JoinsUnseated, NEW t \in Tcp, ReadLeave(t)
  PROVE  TypeOK' /\ ControlTypeOK' /\ JoinsUnseated'
<1>1. TypeOK' /\ UNCHANGED registry
  BY DEF SfuTypeOK, ReadLeave, TypeOK, registry
<1>2. ControlTypeOK'
  BY CommandBound, NotifyTargetType
     DEF SfuTypeOK, ControlTypeOK, ReadLeave, Goto, HandlerState
<1>3. JoinsUnseated'
  BY <1>1 DEF SfuTypeOK, JoinsUnseated, ReadLeave, Goto, registry
<1> QED BY <1>1, <1>2, <1>3

LEMMA ReadEofInv ==
  ASSUME SfuTypeOK, JoinsUnseated, NEW t \in Tcp, ReadEof(t)
  PROVE  TypeOK' /\ ControlTypeOK' /\ JoinsUnseated'
<1>1. TypeOK' /\ UNCHANGED registry
  BY DEF SfuTypeOK, ReadEof, TypeOK, registry
<1>2. ControlTypeOK'
  BY NotifyTargetType DEF SfuTypeOK, ControlTypeOK, ReadEof, Goto, HandlerState
<1>3. JoinsUnseated'
  BY <1>1 DEF SfuTypeOK, JoinsUnseated, ReadEof, Goto, registry
<1> QED BY <1>1, <1>2, <1>3

LEMMA AbortInv ==
  ASSUME SfuTypeOK, JoinsUnseated, NEW t \in Tcp, Abort(t)
  PROVE  TypeOK' /\ ControlTypeOK' /\ JoinsUnseated'
<1>1. TypeOK' /\ UNCHANGED registry
  BY DEF SfuTypeOK, Abort, TypeOK, registry
<1>2. ControlTypeOK'
  BY DEF SfuTypeOK, ControlTypeOK, Abort, HandlerState
<1>3. JoinsUnseated'
  BY <1>1 DEF SfuTypeOK, JoinsUnseated, Abort, registry
<1> QED BY <1>1, <1>2, <1>3

LEMMA NotifyLeftInv ==
  ASSUME SfuTypeOK, JoinsUnseated, NEW t \in Tcp, NotifyLeft(t)
  PROVE  TypeOK' /\ ControlTypeOK' /\ JoinsUnseated'
<1>1. TypeOK' /\ UNCHANGED registry
  BY DEF SfuTypeOK, NotifyLeft, TypeOK, registry
<1>2. mailbox' \in [Tcp -> Seq(Message)]
  BY DeliverType DEF SfuTypeOK, NotifyLeft, Message
<1>3. ControlTypeOK'
  BY <1>2 DEF SfuTypeOK, ControlTypeOK, NotifyLeft, Goto, HandlerState, Seat
<1>4. JoinsUnseated'
  BY <1>1 DEF SfuTypeOK, JoinsUnseated, NotifyLeft, Goto, registry
<1> QED BY <1>1, <1>3, <1>4

LEMMA RemoveClientOthers ==
  ASSUME TypeOK, NEW t \in Tcp, RemoveClient(t)
  PROVE  OthersKept(t)
  BY DEF TypeOK, RemoveClient, OthersKept, registry

LEMMA RemoveLeftInv ==
  ASSUME SfuTypeOK, JoinsUnseated, NEW t \in Tcp, RemoveLeft(t)
  PROVE  TypeOK' /\ ControlTypeOK' /\ JoinsUnseated'
<1>1. TypeOK' /\ OthersKept(t)
  BY RemoveClientType, RemoveClientOthers DEF SfuTypeOK, RemoveLeft
<1>2. ControlTypeOK'
  BY DEF SfuTypeOK, ControlTypeOK, RemoveLeft, Goto, HandlerState
<1>3. JoinsUnseated'
  BY <1>1 DEF SfuTypeOK, JoinsUnseated, RemoveLeft, Goto, OthersKept
<1> QED BY <1>1, <1>2, <1>3

LEMMA RemoveEofInv ==
  ASSUME SfuTypeOK, JoinsUnseated, NEW t \in Tcp, RemoveEof(t)
  PROVE  TypeOK' /\ ControlTypeOK' /\ JoinsUnseated'
<1>1. TypeOK' /\ OthersKept(t)
  BY RemoveClientType, RemoveClientOthers DEF SfuTypeOK, RemoveEof
<1>2. ControlTypeOK'
  BY DEF SfuTypeOK, ControlTypeOK, RemoveEof, Goto, HandlerState
<1>3. JoinsUnseated'
  BY <1>1 DEF SfuTypeOK, JoinsUnseated, RemoveEof, Goto, OthersKept
<1> QED BY <1>1, <1>2, <1>3

LEMMA ReplyInv ==
  ASSUME SfuTypeOK, JoinsUnseated, NEW t \in Tcp, Reply(t)
  PROVE  TypeOK' /\ ControlTypeOK' /\ JoinsUnseated'
<1>1. TypeOK' /\ UNCHANGED registry
  BY DEF SfuTypeOK, Reply, TypeOK, registry
<1>2. ReplyTo[pc[t]] \in Line
  BY DEF Reply, ReplyTo, Line
<1>3. ControlTypeOK'
  BY <1>2 DEF SfuTypeOK, ControlTypeOK, Reply, HandlerState
<1>4. JoinsUnseated'
  BY <1>1 DEF SfuTypeOK, JoinsUnseated, Reply, registry
<1> QED BY <1>1, <1>3, <1>4

LEMMA NotifyInv ==
  ASSUME SfuTypeOK, JoinsUnseated, NEW t \in Tcp, Notify(t)
  PROVE  TypeOK' /\ ControlTypeOK' /\ JoinsUnseated'
<1>1. TypeOK' /\ UNCHANGED registry
  BY DEF SfuTypeOK, Notify, TypeOK, registry
<1>2. /\ Head(mailbox[t]) \in Message
      /\ Tail(mailbox[t]) \in Seq(Message)
  BY DEF SfuTypeOK, Notify
<1>3. LineFor[Head(mailbox[t])] \in Line
  BY <1>2 DEF LineFor, Line, Message
<1>4. ControlTypeOK'
  BY <1>2, <1>3 DEF SfuTypeOK, ControlTypeOK, Notify
<1>5. JoinsUnseated'
  BY <1>1 DEF SfuTypeOK, JoinsUnseated, Notify, registry
<1> QED BY <1>1, <1>4, <1>5

LEMMA HandlerInv ==
  ASSUME ServerInv, LeavesBeforeJoin, NEW t \in Tcp, Handler(t)
  PROVE  ServerInv'
<1> USE DEF ServerInv
<1>1. TypeOK' /\ ControlTypeOK' /\ JoinsUnseated'
  BY AcceptInv, ReadJoinInv, JoinInv, ReadLeaveInv, ReadEofInv, AbortInv,
     NotifyLeftInv, RemoveLeftInv, RemoveEofInv, ReplyInv, NotifyInv
     DEF Handler, HandlerStep, HandlerInput, ReadError, WriteError
<1>2. SfuTypeOK'
  BY <1>1 DEF SfuTypeOK, ControlTypeOK, Handler
<1>3. LocalsBound'
  BY DEF LocalsBound, Handler, At
<1> QED BY <1>1, <1>2, <1>3

-----------------------------------------------------------------------------
(* udp_loop preserves the invariant.                                       *)

\* What the loop may do to the state: it moves no connection and no task.
ForwarderTypes ==
  /\ TypeOK
  /\ mailbox \in [Tcp -> Seq(Message)]
  /\ net \subseteq Udp
  /\ fwd \in Forwarder
  /\ LocalsBound

LEMMA ReceiveTypes ==
  ASSUME ServerInv, NEW u \in Udp, Recv(u)
  PROVE  ForwarderTypes' /\ UNCHANGED client_sessions
<1>1. TypeOK' /\ UNCHANGED client_sessions
  BY MapUdpToTcpType DEF ServerInv, SfuTypeOK, Recv, MapUdpToTcp, registry
<1>2. mailbox' \in [Tcp -> Seq(Message)] /\ net' \subseteq Udp
  BY DEF ServerInv, SfuTypeOK, Recv
<1>3. fwd' = [at |-> "peer", src |-> u, dst |-> None, src_tcp |-> None,
              dst_tcp |-> None, id |-> None, tx |-> None]
  BY DEF Recv, Receiving
<1>4. fwd' \in Forwarder /\ LocalsBound'
  BY <1>3 DEF Forwarder, ForwarderState, Port, Seat, LocalsBound, At
<1> QED BY <1>1, <1>2, <1>4 DEF ForwarderTypes

\* A lookup: it reads the registry and moves the loop on.
Lookup == UNCHANGED <<registry, net, mailbox>>

LEMMA LookupTypes ==
  ASSUME ServerInv, Lookup, fwd' \in Forwarder, LocalsBound'
  PROVE  ForwarderTypes' /\ UNCHANGED client_sessions
  BY DEF ServerInv, SfuTypeOK, TypeOK, Lookup, registry, ForwarderTypes

LEMMA ReceivingTypes ==
  ASSUME fwd' = Receiving
  PROVE  fwd' \in Forwarder /\ LocalsBound'
  BY DEF Receiving, Forwarder, ForwarderState, Port, Seat, LocalsBound, At

LEMMA SendingTypes ==
  ASSUME ServerInv, fwd.at \notin {"recv", "peer"}, fwd' = Sending
  PROVE  fwd' \in Forwarder /\ LocalsBound'
<1>1. fwd.src \in Udp /\ fwd.dst \in Udp
  BY DEF ServerInv, LocalsBound, At
<1>2. fwd' = [at |-> "send", src |-> fwd.src, dst |-> fwd.dst, src_tcp |-> None,
              dst_tcp |-> None, id |-> None, tx |-> None]
  BY DEF Sending, Receiving
<1> QED BY <1>1, <1>2
        DEF Forwarder, ForwarderState, Port, Seat, LocalsBound, At

LEMMA FindPeerTypes ==
  ASSUME ServerInv, FindPeer
  PROVE  ForwarderTypes' /\ UNCHANGED client_sessions
<1>1. fwd.src \in Udp /\ fwd.at = "peer" /\ fwd \in Forwarder /\ Lookup
  BY DEF ServerInv, SfuTypeOK, LocalsBound, FindPeer, At, Lookup
<1>2. PeerUdp(fwd.src) \in Port
  BY <1>1, PeerUdpType DEF ServerInv, SfuTypeOK
<1>3. CASE PeerUdp(fwd.src) = None
  BY <1>1, <1>3, ReceivingTypes, LookupTypes DEF FindPeer
<1>4. CASE PeerUdp(fwd.src) # None
  <2>1. fwd' = [fwd EXCEPT !.at = "src_tcp", !.dst = PeerUdp(fwd.src)]
    BY <1>4 DEF FindPeer
  <2>2. fwd' \in Forwarder /\ LocalsBound'
    BY <1>1, <1>2, <1>4, <2>1
       DEF Forwarder, ForwarderState, Port, LocalsBound, At
  <2> QED BY <1>1, <2>2, LookupTypes
<1> QED BY <1>3, <1>4

LEMMA FindSrcTcpTypes ==
  ASSUME ServerInv, FindSrcTcp
  PROVE  ForwarderTypes' /\ UNCHANGED client_sessions
<1>1. /\ fwd.src \in Udp /\ fwd.dst \in Udp /\ fwd.at = "src_tcp"
      /\ fwd \in Forwarder /\ Lookup
  BY DEF ServerInv, SfuTypeOK, LocalsBound, FindSrcTcp, At, Lookup
<1>2. udp_to_tcp[fwd.src] \in Seat
  BY <1>1 DEF ServerInv, SfuTypeOK, TypeOK, Seat
<1>3. fwd' \in Forwarder /\ LocalsBound'
  BY <1>1, <1>2 DEF FindSrcTcp, Forwarder, ForwarderState, LocalsBound, At
<1> QED BY <1>1, <1>3, LookupTypes

LEMMA FindDstTcpTypes ==
  ASSUME ServerInv, FindDstTcp
  PROVE  ForwarderTypes' /\ UNCHANGED client_sessions
<1>1. /\ fwd.src \in Udp /\ fwd.dst \in Udp /\ fwd.at = "dst_tcp"
      /\ fwd \in Forwarder /\ Lookup
  BY DEF ServerInv, SfuTypeOK, LocalsBound, FindDstTcp, At, Lookup
<1>2. udp_to_tcp[fwd.dst] \in Seat /\ fwd.src_tcp \in Seat
  BY <1>1 DEF ServerInv, SfuTypeOK, TypeOK, Seat, Forwarder
<1>3. CASE fwd.src_tcp = None \/ udp_to_tcp[fwd.dst] = None
  BY <1>1, <1>3, SendingTypes, LookupTypes DEF FindDstTcp
<1>4. CASE ~(fwd.src_tcp = None \/ udp_to_tcp[fwd.dst] = None)
  <2>1. fwd' = [fwd EXCEPT !.at = "session", !.dst_tcp = udp_to_tcp[fwd.dst]]
    BY <1>4 DEF FindDstTcp
  <2>2. fwd' \in Forwarder /\ LocalsBound'
    BY <1>1, <1>2, <1>4, <2>1
       DEF Forwarder, ForwarderState, Seat, LocalsBound, At
  <2> QED BY <1>1, <2>2, LookupTypes
<1> QED BY <1>3, <1>4

LEMMA FindSessionTypes ==
  ASSUME ServerInv, FindSession
  PROVE  ForwarderTypes' /\ UNCHANGED client_sessions
<1>1. /\ fwd.src \in Udp /\ fwd.dst \in Udp /\ fwd.at = "session"
      /\ fwd.src_tcp \in Tcp /\ fwd.dst_tcp \in Tcp
      /\ fwd \in Forwarder /\ Lookup
  BY DEF ServerInv, SfuTypeOK, LocalsBound, FindSession, At, Lookup
<1>2. CASE client_sessions[fwd.dst_tcp] = None
  BY <1>1, <1>2, SendingTypes, LookupTypes DEF FindSession
<1>3. CASE client_sessions[fwd.dst_tcp] # None
  <2>1. client_sessions[fwd.dst_tcp] \in SessionIds
    BY <1>1, <1>3 DEF ServerInv, SfuTypeOK, TypeOK
  <2>2. fwd' = [fwd EXCEPT !.at = "connected", !.id = client_sessions[fwd.dst_tcp]]
    BY <1>3 DEF FindSession
  <2>3. fwd' \in Forwarder /\ LocalsBound'
    BY <1>1, <2>1, <2>2 DEF Forwarder, ForwarderState, LocalsBound, At
  <2> QED BY <1>1, <2>3, LookupTypes
<1> QED BY <1>2, <1>3

LEMMA CheckConnectedTypes ==
  ASSUME ServerInv, CheckConnected
  PROVE  ForwarderTypes' /\ UNCHANGED client_sessions
<1>1. /\ fwd.at = "connected" /\ fwd \in Forwarder /\ Lookup
  BY DEF ServerInv, SfuTypeOK, CheckConnected, At, Lookup
<1>2. CASE IsConnected(fwd.id)
  BY <1>1, <1>2, SendingTypes, LookupTypes DEF CheckConnected
<1>3. CASE ~IsConnected(fwd.id)
  <2>1. fwd' = [fwd EXCEPT !.at = "find_src"]
    BY <1>3 DEF CheckConnected
  <2>2. fwd' \in Forwarder /\ LocalsBound'
    BY <1>1, <2>1 DEF ServerInv, Forwarder, ForwarderState, LocalsBound, At
  <2> QED BY <1>1, <2>2, LookupTypes
<1> QED BY <1>2, <1>3

\* The control points of the notifications, where all the locals are bound.
Notifying == {"find_src", "tell_src", "find_dst", "tell_dst", "mark"}

LEMMA NotificationTypes ==
  ASSUME ServerInv, NotifySrc \/ NotifyDst
  PROVE  ForwarderTypes' /\ UNCHANGED client_sessions
<1>1. ASSUME NEW here \in Notifying, NEW next \in Notifying, NEW of \in Tcp,
             FindTarget(here, next, of)
      PROVE  ForwarderTypes' /\ UNCHANGED client_sessions
  <2>1. fwd \in Forwarder /\ fwd.at = here /\ Lookup
    BY <1>1 DEF ServerInv, SfuTypeOK, FindTarget, At, Lookup
  <2>2. NotifyTarget(of) \in Seat
    BY NotifyTargetType DEF ServerInv, SfuTypeOK
  <2>3. fwd' = [fwd EXCEPT !.at = next, !.tx = NotifyTarget(of)]
    BY <1>1 DEF FindTarget
  <2>4. fwd' \in Forwarder /\ LocalsBound'
    BY <2>1, <2>2, <2>3
       DEF ServerInv, Notifying, Forwarder, ForwarderState, LocalsBound, At
  <2> QED BY <2>1, <2>4, LookupTypes
<1>2. ASSUME NEW here \in Notifying, NEW next \in Notifying,
             TellTarget(here, next)
      PROVE  ForwarderTypes' /\ UNCHANGED client_sessions
  <2>1. fwd \in Forwarder /\ fwd.at = here /\ fwd.tx \in Seat
    BY <1>2 DEF ServerInv, SfuTypeOK, TellTarget, At, Forwarder
  <2>2. mailbox' \in [Tcp -> Seq(Message)]
    BY <1>2, <2>1, DeliverType
       DEF ServerInv, SfuTypeOK, TellTarget, Message
  <2>3. fwd' = [fwd EXCEPT !.at = next, !.tx = None]
    BY <1>2 DEF TellTarget
  <2>4. fwd' \in Forwarder /\ LocalsBound'
    BY <2>1, <2>3
       DEF ServerInv, Notifying, Forwarder, ForwarderState, Seat, LocalsBound, At
  <2>5. TypeOK' /\ net' \subseteq Udp /\ UNCHANGED client_sessions
    BY <1>2 DEF ServerInv, SfuTypeOK, TypeOK, TellTarget, registry
  <2> QED BY <2>2, <2>4, <2>5 DEF ForwarderTypes
<1>3. ASSUME fwd.at \in {"find_src", "find_dst"}
      PROVE  fwd.src_tcp \in Tcp /\ fwd.dst_tcp \in Tcp
  BY <1>3 DEF ServerInv, LocalsBound
<1> QED BY <1>1, <1>2, <1>3
        DEF NotifySrc, NotifyDst, Notifying, FindTarget, At

LEMMA MarkTypes ==
  ASSUME ServerInv, Mark
  PROVE  ForwarderTypes' /\ UNCHANGED client_sessions
<1>1. fwd.at = "mark" /\ fwd.id \in SessionIds
  BY DEF ServerInv, LocalsBound, Mark, At
<1>2. TypeOK' /\ UNCHANGED client_sessions
  BY <1>1, MarkConnectedType DEF ServerInv, SfuTypeOK, Mark, MarkConnected
<1>3. fwd' \in Forwarder /\ LocalsBound'
  BY <1>1, SendingTypes DEF Mark
<1>4. mailbox' \in [Tcp -> Seq(Message)] /\ net' \subseteq Udp
  BY DEF ServerInv, SfuTypeOK, Mark
<1> QED BY <1>2, <1>3, <1>4 DEF ForwarderTypes

LEMMA SendTypes ==
  ASSUME ServerInv, Send
  PROVE  ForwarderTypes' /\ UNCHANGED client_sessions
  BY ReceivingTypes, LookupTypes DEF Send, Lookup

LEMMA ForwarderInv ==
  ASSUME ServerInv, ForwarderTypes', UNCHANGED client_sessions,
         UNCHANGED <<pc, asked, peer_tx, line, commands, hungup, pinged>>
  PROVE  ServerInv'
  BY DEF ServerInv, SfuTypeOK, ForwarderTypes, JoinsUnseated

-----------------------------------------------------------------------------
(* The invariant, and the use of the registry.                             *)

LEMMA ServerInit == Init => ServerInv
  BY EnvironmentAssumption
     DEF Init, RegistryInit, ServerInv, SfuTypeOK, TypeOK, LocalsBound, At,
         JoinsUnseated, HandlerState, Forwarder, ForwarderState, Receiving,
         Seat, Port

\* The clients and the network move nothing of the server.
LEMMA EnvironmentInv ==
  ASSUME ServerInv, NEW t \in Tcp, HangUp(t) \/ Ping(t) \/ SendFrame(t)
  PROVE  ServerInv' /\ UNCHANGED <<registry, pc>>
<1>1. SocketOf[t] \in Udp
  BY EnvironmentAssumption
<1>2. hungup' \subseteq Tcp /\ pinged' \subseteq Tcp /\ net' \subseteq Udp
  BY <1>1 DEF ServerInv, SfuTypeOK, HangUp, Ping, SendFrame
<1>3. UNCHANGED <<registry, control, fwd>>
  BY DEF HangUp, Ping, SendFrame
<1> QED BY <1>2, <1>3
        DEF ServerInv, SfuTypeOK, TypeOK, LocalsBound, At, JoinsUnseated,
            registry, control

LEMMA LoseInv ==
  ASSUME ServerInv, NEW u \in Udp, Lose(u)
  PROVE  ServerInv' /\ UNCHANGED <<registry, pc>>
<1>1. net' \subseteq Udp
  BY DEF ServerInv, SfuTypeOK, Lose
<1>2. UNCHANGED <<registry, control, hungup, pinged, fwd>>
  BY DEF Lose
<1> QED BY <1>1, <1>2
        DEF ServerInv, SfuTypeOK, TypeOK, LocalsBound, At, JoinsUnseated,
            registry, control

LEMMA ServerNext ==
  ASSUME ServerInv, LeavesBeforeJoin, [Next]_vars
  PROVE  ServerInv'
<1>1. ASSUME NEW t \in Tcp, Handler(t) PROVE ServerInv'
  BY <1>1, HandlerInv
<1>2. ASSUME NEW t \in Tcp, HangUp(t) \/ Ping(t) \/ SendFrame(t)
      PROVE  ServerInv'
  BY <1>2, EnvironmentInv
<1>3. ASSUME NEW u \in Udp, Receive(u) PROVE ServerInv'
  BY <1>3, ReceiveTypes, ForwarderInv DEF Receive
<1>4. ASSUME NEW u \in Udp, Lose(u) PROVE ServerInv'
  BY <1>4, LoseInv
<1>5. CASE ForwarderStep
  <2>1. ForwarderTypes' /\ UNCHANGED client_sessions
    BY <1>5, FindPeerTypes, FindSrcTcpTypes, FindDstTcpTypes, FindSessionTypes,
       CheckConnectedTypes, NotificationTypes, MarkTypes, SendTypes
       DEF ForwarderStep
  <2> QED BY <1>5, <2>1, ForwarderInv DEF ForwarderStep
<1>6. CASE UNCHANGED vars
  BY <1>6 DEF vars, control, registry, ServerInv, SfuTypeOK, TypeOK,
              LocalsBound, At, JoinsUnseated
<1> QED BY <1>1, <1>2, <1>3, <1>4, <1>5, <1>6 DEF Next

\* The invariant of the server while clients leave before they join again.
THEOREM ServerInvariant ==
  ASSUME LeavesBeforeJoin
  PROVE  Spec => []ServerInv
<1>1. ServerInv /\ [Next]_vars => ServerInv'
  BY ServerNext
<1> QED BY <1>1, ServerInit, PTL DEF Spec

\* All variables of the server keep to their types.
THEOREM SfuTypeCorrect ==
  ASSUME LeavesBeforeJoin
  PROVE  Spec => []SfuTypeOK
<1>1. ServerInv => SfuTypeOK
  BY DEF ServerInv
<1> QED BY <1>1, ServerInvariant, PTL

\* The step of a task is a call that SfuCall allows, or none.
LEMMA HandlerCalls ==
  ASSUME ServerInv, NEW t \in Tcp, Handler(t)
  PROVE  SfuCall \/ UNCHANGED registry
<1>1. ASSUME NEW id \in SessionIds, ReadJoin(t, id) PROVE SfuCall
  BY <1>1 DEF ReadJoin, SfuCall
<1>2. CASE Join(t)
  <2>1. client_sessions[t] = None /\ asked[t] \in SessionIds
    BY <1>2 DEF ServerInv, JoinsUnseated, Join, Goto
  <2> QED BY <1>2, <2>1 DEF Join, SfuCall
<1>3. CASE RemoveLeft(t) \/ RemoveEof(t)
  BY <1>3 DEF RemoveLeft, RemoveEof, SfuCall
<1>4. CASE \/ Accept(t) \/ ReadLeave(t) \/ ReadEof(t) \/ ReadError(t)
           \/ WriteError(t) \/ NotifyLeft(t) \/ Reply(t) \/ Notify(t)
  BY <1>4 DEF Accept, ReadLeave, ReadEof, ReadError, WriteError, Abort,
              NotifyLeft, Reply, Notify
<1> QED BY <1>1, <1>2, <1>3, <1>4 DEF Handler, HandlerStep, HandlerInput

LEMMA ForwarderCalls ==
  ASSUME ServerInv, ForwarderStep
  PROVE  SfuCall \/ UNCHANGED registry
<1>1. CASE Mark
  <2>1. fwd.id \in SessionIds
    BY <1>1 DEF ServerInv, LocalsBound, Mark, At
  <2> QED BY <1>1, <2>1 DEF Mark, SfuCall
<1>2. CASE ~Mark
  BY <1>2 DEF ForwarderStep, FindPeer, FindSrcTcp, FindDstTcp, FindSession,
              CheckConnected, NotifySrc, NotifyDst, FindTarget, TellTarget, Send
<1> QED BY <1>1, <1>2

\* Every step of the server is a call to the registry that SfuCallSpec
\* allows, or leaves the registry alone.
THEOREM SfuUsesRegistry ==
  ASSUME LeavesBeforeJoin
  PROVE  Spec => UsesRegistry
<1>1. Init => RegistryInit
  BY DEF Init
<1>2. ServerInv /\ [Next]_vars => [SfuCall]_registry
  <2> SUFFICES ASSUME ServerInv, [Next]_vars
               PROVE  SfuCall \/ UNCHANGED registry
    OBVIOUS
  <2>1. ASSUME NEW t \in Tcp, Handler(t) PROVE SfuCall \/ UNCHANGED registry
    BY <2>1, HandlerCalls
  <2>2. ASSUME NEW t \in Tcp, HangUp(t) \/ Ping(t) \/ SendFrame(t)
        PROVE  UNCHANGED registry
    BY <2>2 DEF HangUp, Ping, SendFrame
  <2>3. ASSUME NEW u \in Udp, Receive(u) PROVE SfuCall
    BY <2>3 DEF Receive, Recv, SfuCall
  <2>4. ASSUME NEW u \in Udp, Lose(u) PROVE UNCHANGED registry
    BY <2>4 DEF Lose
  <2>5. CASE ForwarderStep
    BY <2>5, ForwarderCalls
  <2>6. CASE UNCHANGED vars
    BY <2>6 DEF vars, registry
  <2> QED BY <2>1, <2>2, <2>3, <2>4, <2>5, <2>6 DEF Next
<1> QED BY <1>1, <1>2, ServerInvariant, PTL DEF Spec, UsesRegistry, SfuCallSpec

\* So the server implements Rooms, and forwards symmetrically.
THEOREM SfuImplementsRooms ==
  ASSUME LeavesBeforeJoin
  PROVE  Spec => RoomsSpec /\ []RoutesSymmetric /\ []SeatsAgree /\ []PortsAgree
<1>1. Spec => SfuCallSpec
  BY SfuUsesRegistry DEF UsesRegistry
<1> QED BY <1>1, SfuCallImplementsRooms, SfuCallRoutesSymmetric,
           SfuCallSeatsAgree, SfuCallPortsAgree, PTL

-----------------------------------------------------------------------------
(* No session without clients is left behind.                              *)

Orphan(id) == sessions[id] # None /\ IsEmpty(sessions[id])

\* No session has lost its last client, or come to be, without one.
NoNewOrphan == \A id \in SessionIds : Orphan(id)' => Orphan(id)

LEMMA AddClientFills ==
  ASSUME TypeOK, NEW id \in SessionIds, NEW t \in Tcp, AddClient(id, t)
  PROVE  NoNewOrphan /\ ~Orphan(id)'
<1>1. CASE ~CanAdd(id)
  BY <1>1 DEF AddClient, CanAdd, HasOpenSlot, IsEmpty, Orphan, NoNewOrphan, registry
<1>2. CASE CanAdd(id)
  <2> DEFINE s == sessions[id]
             r == Seated(s, t)
  <2>1. s \in Session /\ HasOpenSlot(s) /\ t # None
    BY <1>2, AddressAssumption DEF TypeOK, CanAdd
  <2>2. r.client_a = t \/ r.client_b = t
    BY <2>1, SeatedFields
  <2>3. sessions' = [sessions EXCEPT ![id] = r]
    BY <1>2 DEF AddClient
  <2> HIDE DEF r
  <2>4. ~Orphan(id)'
    BY <2>1, <2>2, <2>3 DEF TypeOK, Orphan, IsEmpty
  <2>5. \A i \in SessionIds \ {id} : sessions'[i] = sessions[i]
    BY <2>3 DEF TypeOK
  <2> QED BY <2>4, <2>5 DEF NoNewOrphan, Orphan
<1> QED BY <1>1, <1>2

LEMMA RemoveClientDrops ==
  ASSUME TypeOK, NEW t \in Tcp, RemoveClient(t)
  PROVE  NoNewOrphan
<1> DEFINE id == client_sessions[t]
           r == Remaining(id, t)
<1>1. CASE id = None
  BY <1>1 DEF RemoveClient, NoNewOrphan, Orphan, registry
<1>2. CASE id # None
  <2>1. id \in SessionIds
    BY <1>2 DEF TypeOK
  <2>2. sessions' = [sessions EXCEPT ![id] =
                       IF @ = None \/ IsEmpty(r) THEN None ELSE r]
    BY <1>2 DEF RemoveClient
  <2> HIDE DEF r
  <2>3. sessions'[id] = None \/ ~IsEmpty(sessions'[id])
    BY <2>1, <2>2 DEF TypeOK
  <2>4. \A i \in SessionIds \ {id} : sessions'[i] = sessions[i]
    BY <2>2 DEF TypeOK
  <2> QED BY <2>3, <2>4 DEF NoNewOrphan, Orphan
<1> QED BY <1>1, <1>2

LEMMA MapUdpToTcpKeeps ==
  ASSUME TypeOK, NEW u \in Udp, MapUdpToTcp(u)
  PROVE  NoNewOrphan
<1>1. CASE UNCHANGED <<sessions, client_sessions>>
  BY <1>1 DEF NoNewOrphan, Orphan
<1>2. ASSUME NEW t \in Candidates(u),
             sessions' = [sessions EXCEPT ![client_sessions[t]] = WithUdp(@, t, u)]
      PROVE  NoNewOrphan
  <2> DEFINE id == client_sessions[t]
             r == WithUdp(sessions[id], t, u)
  <2>1. t \in Tcp /\ id \in SessionIds /\ sessions[id] \in Session
    BY <1>2 DEF TypeOK, Candidates, Unregistered
  <2>2. /\ r.client_a = sessions[id].client_a
        /\ r.client_b = sessions[id].client_b
    BY <2>1, WithUdpFields
  <2>3. sessions' = [sessions EXCEPT ![id] = r] /\ sessions[id] # None
    BY <1>2, <2>1, AddressAssumption
  <2> HIDE DEF r
  <2> QED BY <2>1, <2>2, <2>3 DEF TypeOK, NoNewOrphan, Orphan, IsEmpty
<1> QED BY <1>1, <1>2 DEF MapUdpToTcp, registry

LEMMA MarkConnectedKeeps ==
  ASSUME TypeOK, NEW id \in SessionIds, MarkConnected(id)
  PROVE  NoNewOrphan
  BY DEF TypeOK, MarkConnected, NoNewOrphan, Orphan, IsEmpty, Session

\* The tasks that are about to call add_client still are.
JoinersKept ==
  \A t \in Tcp : pc[t] = "join" => pc'[t] = "join" /\ asked'[t] = asked[t]

LEMMA OrphansKept ==
  ASSUME NoOrphanSession, NoNewOrphan, JoinersKept
  PROVE  NoOrphanSession'
  BY DEF NoOrphanSession, NoNewOrphan, JoinersKept, Orphan

LEMMA HandlerOrphans ==
  ASSUME ServerInv, NoOrphanSession, NEW t \in Tcp, Handler(t)
  PROVE  NoOrphanSession'
<1> USE DEF ServerInv
<1>1. ASSUME NEW id \in SessionIds, ReadJoin(t, id) PROVE NoOrphanSession'
  <2>1. /\ \A i \in SessionIds \ {id} : sessions'[i] = sessions[i]
        /\ pc[t] # "join" /\ pc'[t] = "join" /\ asked'[t] = id
        /\ \A q \in Tcp \ {t} : pc'[q] = pc[q] /\ asked'[q] = asked[q]
    BY <1>1 DEF ReadJoin, Goto, EnsureSession, SfuTypeOK, TypeOK
  <2> QED BY <2>1 DEF NoOrphanSession
<1>2. CASE Join(t)
  <2>1. pc[t] = "join" /\ asked[t] \in SessionIds
    BY <1>2 DEF JoinsUnseated, Join, Goto
  <2>2. NoNewOrphan /\ ~Orphan(asked[t])'
    <3>1. ASSUME NEW id \in SessionIds, id = asked[t]
          PROVE  NoNewOrphan /\ ~Orphan(id)'
      BY <1>2, <3>1, AddClientFills DEF Join, SfuTypeOK
    <3>2. asked' = asked
      BY <1>2 DEF Join
    <3> QED BY <2>1, <3>1, <3>2 DEF Orphan
  <2>3. /\ asked' = asked
        /\ \A q \in Tcp \ {t} : pc'[q] = pc[q]
    BY <1>2 DEF Join, Goto, SfuTypeOK
  <2> QED BY <2>1, <2>2, <2>3 DEF NoOrphanSession, NoNewOrphan, Orphan
<1>3. CASE RemoveLeft(t) \/ RemoveEof(t)
  <2>1. NoNewOrphan
    BY <1>3, RemoveClientDrops DEF RemoveLeft, RemoveEof, SfuTypeOK
  <2>2. JoinersKept
    BY <1>3 DEF RemoveLeft, RemoveEof, Goto, JoinersKept, SfuTypeOK
  <2> QED BY <2>1, <2>2, OrphansKept
<1>4. CASE \/ Accept(t) \/ ReadLeave(t) \/ ReadEof(t) \/ ReadError(t)
           \/ WriteError(t) \/ NotifyLeft(t) \/ Reply(t) \/ Notify(t)
  <2>1. NoNewOrphan
    BY <1>4 DEF Accept, ReadLeave, ReadEof, ReadError, WriteError, Abort,
                NotifyLeft, Reply, Notify, registry, NoNewOrphan, Orphan
  <2>2. asked' = asked
    BY <1>4 DEF Accept, ReadLeave, ReadEof, ReadError, WriteError, Abort,
                NotifyLeft, Reply, Notify
  <2>3. pc[t] # "join" /\ \A q \in Tcp \ {t} : pc'[q] = pc[q]
    BY <1>4 DEF Accept, ReadLeave, ReadEof, ReadError, WriteError, Abort,
                NotifyLeft, Reply, Notify, Goto, ReplyTo, SfuTypeOK
  <2>4. JoinersKept
    BY <2>2, <2>3 DEF JoinersKept
  <2> QED BY <2>1, <2>4, OrphansKept
<1> QED BY <1>1, <1>2, <1>3, <1>4 DEF Handler, HandlerStep, HandlerInput

LEMMA ForwarderOrphans ==
  ASSUME ServerInv, NoOrphanSession,
         (\E u \in Udp : Receive(u)) \/ ForwarderStep
  PROVE  NoOrphanSession'
<1>1. JoinersKept
  BY DEF Receive, ForwarderStep, JoinersKept
<1>2. ASSUME NEW u \in Udp, Receive(u) PROVE NoNewOrphan
  BY <1>2, MapUdpToTcpKeeps DEF Receive, Recv, ServerInv, SfuTypeOK
<1>3. ASSUME ForwarderStep PROVE NoNewOrphan
  <2>1. CASE Mark
    <3>1. fwd.id \in SessionIds
      BY <2>1 DEF ServerInv, LocalsBound, Mark, At
    <3> QED BY <2>1, <3>1, MarkConnectedKeeps DEF Mark, ServerInv, SfuTypeOK
  <2>2. CASE ~Mark
    <3>1. UNCHANGED registry
      BY <1>3, <2>2 DEF ForwarderStep, FindPeer, FindSrcTcp, FindDstTcp,
           FindSession, CheckConnected, NotifySrc, NotifyDst, FindTarget,
           TellTarget, Send
    <3> QED BY <3>1 DEF registry, NoNewOrphan, Orphan
  <2> QED BY <2>1, <2>2
<1> QED BY <1>1, <1>2, <1>3, OrphansKept

\* An empty session is in the map only between ensure_session and add_client
\* of a JOIN that is under way.
THEOREM SfuNoOrphanSession ==
  ASSUME LeavesBeforeJoin
  PROVE  Spec => []NoOrphanSession
<1>1. Init => NoOrphanSession
  BY DEF Init, RegistryInit, NoOrphanSession
<1>2. ServerInv /\ NoOrphanSession /\ [Next]_vars => NoOrphanSession'
  <2> SUFFICES ASSUME ServerInv, NoOrphanSession, [Next]_vars
               PROVE  NoOrphanSession'
    OBVIOUS
  <2>1. ASSUME NEW t \in Tcp, Handler(t) PROVE NoOrphanSession'
    BY <2>1, HandlerOrphans
  <2>2. CASE (\E u \in Udp : Receive(u)) \/ ForwarderStep
    BY <2>2, ForwarderOrphans
  <2>3. CASE UNCHANGED <<registry, control>>
    BY <2>3 DEF registry, control, NoOrphanSession
  <2>4. CASE \/ \E t \in Tcp : HangUp(t) \/ Ping(t) \/ SendFrame(t)
             \/ \E u \in Udp : Lose(u)
             \/ UNCHANGED vars
    BY <2>3, <2>4 DEF HangUp, Ping, SendFrame, Lose, vars
  <2> QED BY <2>1, <2>2, <2>4 DEF Next
<1> QED BY <1>1, <1>2, ServerInvariant, PTL DEF Spec

-----------------------------------------------------------------------------
(* No registered client without a task.                                    *)

\* While reads and writes do not fail, a task that has ended has taken its
\* client out of the registry.
THEOREM SfuNoGhost ==
  ASSUME LeavesBeforeJoin, "tcp" \notin Faults
  PROVE  Spec => []NoGhost
<1>1. Init => NoGhost
  BY DEF Init, NoGhost
<1>2. ServerInv /\ NoGhost /\ [Next]_vars => NoGhost'
  <2> SUFFICES ASSUME ServerInv, NoGhost, [Next]_vars
               PROVE  NoGhost'
    OBVIOUS
  <2>1. ASSUME NEW t \in Tcp, Handler(t) PROVE NoGhost'
    <3>1. pc[t] # "ended" /\ \A q \in Tcp \ {t} : pc'[q] = pc[q]
      BY <2>1 DEF Handler, HandlerStep, HandlerInput, Accept, ReadJoin, Join,
           ReadLeave, ReadEof, ReadError, WriteError, Abort, NotifyLeft,
           RemoveLeft, RemoveEof, Reply, Notify, Goto, ReplyTo, Command,
           ServerInv, SfuTypeOK
    <3>2. OthersKept(t)
      <4>1. CASE Join(t)
        <5>1. asked[t] \in SessionIds
          BY <4>1 DEF ServerInv, JoinsUnseated, Join, Goto
        <5> QED BY <4>1, <5>1 DEF Join, AddClient, registry, OthersKept,
                                  ServerInv, SfuTypeOK, TypeOK
      <4>2. CASE RemoveLeft(t) \/ RemoveEof(t)
        BY <4>2, RemoveClientOthers DEF RemoveLeft, RemoveEof, ServerInv, SfuTypeOK
      <4>3. CASE ~(Join(t) \/ RemoveLeft(t) \/ RemoveEof(t))
        BY <2>1, <4>3 DEF Handler, HandlerStep, HandlerInput, Accept, ReadJoin,
             ReadLeave, ReadEof, ReadError, WriteError, Abort, NotifyLeft,
             Reply, Notify, EnsureSession, registry, OthersKept
      <4> QED BY <4>1, <4>2, <4>3
    <3>3. pc'[t] = "ended" => client_sessions'[t] = None
      <4>1. CASE RemoveEof(t)
        BY <4>1 DEF RemoveEof, RemoveClient, registry, ServerInv, SfuTypeOK, TypeOK
      <4>2. CASE ~RemoveEof(t)
        BY <2>1, <4>2 DEF Handler, HandlerStep, HandlerInput, Accept, ReadJoin,
             Join, ReadLeave, ReadEof, ReadError, WriteError, Abort,
             NotifyLeft, RemoveLeft, Reply, Notify, Goto, ServerInv, SfuTypeOK
      <4> QED BY <4>1, <4>2
    <3> QED BY <3>1, <3>2, <3>3 DEF NoGhost, OthersKept
  <2>2. ASSUME UNCHANGED <<pc, client_sessions>> PROVE NoGhost'
    BY <2>2 DEF NoGhost
  <2>3. ASSUME NEW u \in Udp, Receive(u) PROVE NoGhost'
    BY <2>2, <2>3, ReceiveTypes DEF Receive
  <2>4. CASE ForwarderStep
    <3>1. UNCHANGED client_sessions
      BY <2>4, FindPeerTypes, FindSrcTcpTypes, FindDstTcpTypes, FindSessionTypes,
         CheckConnectedTypes, NotificationTypes, MarkTypes, SendTypes
         DEF ForwarderStep
    <3> QED BY <2>2, <2>4, <3>1 DEF ForwarderStep
  <2>5. CASE \/ \E t \in Tcp : HangUp(t) \/ Ping(t) \/ SendFrame(t)
             \/ \E u \in Udp : Lose(u)
             \/ UNCHANGED vars
    BY <2>2, <2>5 DEF HangUp, Ping, SendFrame, Lose, vars, control, registry
  <2> QED BY <2>1, <2>3, <2>4, <2>5 DEF Next
<1> QED BY <1>1, <1>2, ServerInvariant, PTL DEF Spec

=============================================================================
