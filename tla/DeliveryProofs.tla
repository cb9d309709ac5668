--------------------------- MODULE DeliveryProofs ---------------------------
(***************************************************************************)
(* What the server sends and to whom, for any number of connections,       *)
(* sessions and addresses: frames stay in the session of their sender, the *)
(* first line a client reads is the reply to its command, a pair that is   *)
(* marked as told of each other has been told, and none is forgotten.      *)
(***************************************************************************)
EXTENDS SFUProofs

\* The invariant of the registry holds while the server runs.
LEMMA ServerRegistry ==
  ASSUME LeavesBeforeJoin
  PROVE  Spec => []SfuInv
<1>1. Spec => SfuCallSpec
  BY SfuUsesRegistry DEF UsesRegistry
<1> QED BY <1>1, SfuCallInvariant, PTL

-----------------------------------------------------------------------------
(* What a step of a task changes of its own connection and of the others.  *)

LEMMA HandlerOthers ==
  ASSUME ServerInv, NEW t \in Tcp, Handler(t), NEW q \in Tcp, q # t
  PROVE  /\ client_sessions'[q] = client_sessions[q]
         /\ asked'[q] = asked[q] /\ commands'[q] = commands[q]
         /\ pc'[q] = pc[q] /\ line'[q] = line[q] /\ peer_tx'[q] = peer_tx[q]
<1>1. CASE Join(t)
  <2>1. asked[t] \in SessionIds
    BY <1>1 DEF ServerInv, JoinsUnseated, Join, Goto
  <2> QED BY <1>1, <2>1 DEF Join, Goto, AddClient, registry, ServerInv, SfuTypeOK, TypeOK
<1>2. CASE RemoveLeft(t) \/ RemoveEof(t)
  BY <1>2, RemoveClientOthers
     DEF RemoveLeft, RemoveEof, Goto, OthersKept, ServerInv, SfuTypeOK
<1>3. CASE \/ \E id \in SessionIds : ReadJoin(t, id)
           \/ ReadLeave(t) \/ ReadEof(t) \/ NotifyLeft(t)
  BY <1>3 DEF ReadJoin, ReadLeave, ReadEof, NotifyLeft, Goto, Command, EnsureSession,
              registry, ServerInv, SfuTypeOK
<1>4. CASE Accept(t) \/ ReadError(t) \/ WriteError(t) \/ Reply(t) \/ Notify(t)
  BY <1>4 DEF Accept, ReadError, WriteError, Abort, Reply, Notify, Goto, registry,
              ServerInv, SfuTypeOK
<1> QED BY <1>1, <1>2, <1>3, <1>4 DEF Handler, HandlerStep, HandlerInput

\* A step of the task registers its client for what it asked, or removes it.
LEMMA HandlerMembership ==
  ASSUME ServerInv, NEW t \in Tcp, Handler(t)
  PROVE  \/ client_sessions'[t] = client_sessions[t]
         \/ client_sessions'[t] = None
         \/ client_sessions'[t] = asked[t] /\ pc[t] = "join" /\ UNCHANGED asked
            /\ pc'[t] = "joined"
<1>1. CASE Join(t)
  <2>1. asked[t] \in SessionIds /\ pc[t] = "join" /\ UNCHANGED asked
    BY <1>1 DEF ServerInv, JoinsUnseated, Join, Goto
  <2>2. CASE CanAdd(asked[t])
    <3>1. pc'[t] = "joined"
      BY <1>1, <2>2 DEF Join, Goto, ServerInv, SfuTypeOK
    <3> QED BY <1>1, <2>1, <2>2, <3>1 DEF Join, AddClient, ServerInv, SfuTypeOK, TypeOK
  <2>3. CASE ~CanAdd(asked[t])
    BY <1>1, <2>3 DEF Join, AddClient, registry
  <2> QED BY <2>1, <2>2, <2>3
<1>2. CASE RemoveLeft(t) \/ RemoveEof(t)
  BY <1>2 DEF RemoveLeft, RemoveEof, RemoveClient, registry, ServerInv, SfuTypeOK, TypeOK
<1>3. CASE ~(Join(t) \/ RemoveLeft(t) \/ RemoveEof(t))
  BY <1>3 DEF Handler, HandlerStep, HandlerInput, Accept, ReadJoin, ReadLeave, ReadEof,
              ReadError, WriteError, Abort, NotifyLeft, Reply, Notify, EnsureSession,
              registry
<1> QED BY <1>1, <1>2, <1>3

LEMMA ForwarderMembers ==
  ASSUME ServerInv, ForwarderStep \/ \E u \in Udp : Receive(u)
  PROVE  UNCHANGED <<client_sessions, pc, asked, peer_tx, line, commands>>
<1>1. CASE ForwarderStep
  <2>1. UNCHANGED client_sessions
    BY <1>1, FindPeerTypes, FindSrcTcpTypes, FindDstTcpTypes, FindSessionTypes,
       CheckConnectedTypes, NotificationTypes, MarkTypes, SendTypes DEF ForwarderStep
  <2> QED BY <1>1, <2>1 DEF ForwarderStep
<1>2. ASSUME NEW u \in Udp, Receive(u)
      PROVE  UNCHANGED <<client_sessions, pc, asked, peer_tx, line, commands>>
  BY <1>2, ReceiveTypes DEF Receive
<1> QED BY <1>1, <1>2

-----------------------------------------------------------------------------
(* Frames stay in the session of their sender.                             *)

\* No two clients share a host.
OwnHosts == \A t \in Tcp, u \in Udp : IpOf[t] = IpOf[u] => SocketOf[t] = u

\* As in client.rs, nobody sends a second command.
JoinsOnce == \A t \in Tcp : MaxCommands[t] <= 1

\* A client is in the session it asked for, and has then no command left to
\* ask for another.
AskedInv ==
  /\ \A t \in Tcp : client_sessions[t] # None => asked[t] = client_sessions[t]
  /\ \A t \in Tcp : asked[t] # None => commands[t] >= 1

\* The addresses in the hands of udp_loop, however old, are of clients that
\* asked for one session.
SameSession(u, v) ==
  /\ Owner(u) \in Tcp /\ Owner(v) \in Tcp
  /\ asked[Owner(u)] # None /\ asked[Owner(u)] = asked[Owner(v)]

FramesInv == fwd.at \notin {"recv", "peer"} => SameSession(fwd.src, fwd.dst)

LEMMA OwnerOfSocket ==
  ASSUME NEW t \in Tcp
  PROVE  Owner(SocketOf[t]) = t
<1>1. \E q \in Tcp : SocketOf[q] = SocketOf[t]
  OBVIOUS
<1>2. Owner(SocketOf[t]) \in Tcp /\ SocketOf[Owner(SocketOf[t])] = SocketOf[t]
  BY <1>1 DEF Owner
<1> QED BY <1>2, EnvironmentAssumption

\* The two clients of a session asked for it, and the address that each has
\* registered is the one of its socket.
LEMMA PeerAskedSame ==
  ASSUME OwnHosts, SfuInv, AskedInv, NEW u \in Udp, PeerUdp(u) # None
  PROVE  SameSession(u, PeerUdp(u))
<1>1. PICK p \in Tcp, q \in Tcp :
        /\ udp_to_tcp[u] = p /\ OwnUdp(q) = PeerUdp(u) /\ PeerUdp(u) \in Udp
        /\ client_sessions[p] # None /\ client_sessions[p] = client_sessions[q]
  BY PeerFound
<1>2. udp_to_tcp[PeerUdp(u)] = q
  BY <1>1 DEF SfuInv, PortsAgree
<1>3. SocketOf[p] = u /\ SocketOf[q] = PeerUdp(u)
  BY <1>1, <1>2 DEF SfuInv, PortsAgree, OwnHosts
<1>4. Owner(u) = p /\ Owner(PeerUdp(u)) = q
  BY <1>3, OwnerOfSocket
<1> QED BY <1>1, <1>4 DEF AskedInv, SameSession

\* Whoever has asked for a session goes on asking for it.
LEMMA AskedForGood ==
  ASSUME LeavesBeforeJoin, JoinsOnce, ServerInv, AskedInv, NEW t \in Tcp, Handler(t)
  PROVE  /\ \A q \in Tcp : asked[q] # None => asked'[q] = asked[q]
         /\ asked'[t] # None => commands'[t] >= 1
<1>1. commands[t] \in Nat /\ MaxCommands[t] \in Nat
  BY EnvironmentAssumption DEF ServerInv, SfuTypeOK
<1>2. ASSUME NEW id \in SessionIds, ReadJoin(t, id)
      PROVE  asked[t] = None /\ commands'[t] >= 1
  <2>1. commands[t] < MaxCommands[t] /\ MaxCommands[t] <= 1
    BY <1>2 DEF ReadJoin, Command, JoinsOnce
  <2>2. commands'[t] = commands[t] + 1
    BY <1>2 DEF ReadJoin, Command, ServerInv, SfuTypeOK
  <2> QED BY <1>1, <2>1, <2>2 DEF AskedInv
<1>3. ASSUME \A id \in SessionIds : ~ReadJoin(t, id)
      PROVE  UNCHANGED asked
  BY <1>3 DEF Handler, HandlerStep, HandlerInput, Accept, Join, ReadLeave, ReadEof,
     ReadError, WriteError, Abort, NotifyLeft, RemoveLeft, RemoveEof, Reply, Notify
<1>4. commands'[t] >= commands[t]
  <2>1. CASE ReadLeave(t) \/ \E id \in SessionIds : ReadJoin(t, id)
    <3>1. commands'[t] = commands[t] + 1
      BY <2>1 DEF ReadLeave, ReadJoin, Command, ServerInv, SfuTypeOK
    <3> QED BY <1>1, <3>1
  <2>2. CASE ~(ReadLeave(t) \/ \E id \in SessionIds : ReadJoin(t, id))
    <3>1. UNCHANGED commands
      BY <2>2 DEF Handler, HandlerStep, HandlerInput, Accept, Join, ReadEof,
         ReadError, WriteError, Abort, NotifyLeft, RemoveLeft, RemoveEof, Reply, Notify
    <3> QED BY <1>1, <3>1
  <2> QED BY <2>1, <2>2
<1>5. CASE \E id \in SessionIds : ReadJoin(t, id)
  BY <1>2, <1>5, HandlerOthers
<1>6. CASE \A id \in SessionIds : ~ReadJoin(t, id)
  <2>1. commands'[t] \in Nat
    BY HandlerInv DEF ServerInv, SfuTypeOK
  <2> QED BY <1>1, <1>3, <1>4, <1>6, <2>1 DEF AskedInv
<1> QED BY <1>5, <1>6

LEMMA HandlerAsked ==
  ASSUME LeavesBeforeJoin, JoinsOnce, ServerInv, AskedInv, NEW t \in Tcp, Handler(t)
  PROVE  AskedInv'
<1>1. \A q \in Tcp : client_sessions'[q] # None => asked'[q] = client_sessions'[q]
  <2>1. \A q \in Tcp \ {t} : client_sessions'[q] # None => asked'[q] = client_sessions'[q]
    BY HandlerOthers DEF AskedInv
  <2>2. client_sessions'[t] # None => asked'[t] = client_sessions'[t]
    BY HandlerMembership, AskedForGood DEF AskedInv
  <2> QED BY <2>1, <2>2
<1>2. \A q \in Tcp : asked'[q] # None => commands'[q] >= 1
  BY HandlerOthers, AskedForGood DEF AskedInv
<1> QED BY <1>1, <1>2 DEF AskedInv

LEMMA NextAsked ==
  ASSUME LeavesBeforeJoin, JoinsOnce, ServerInv, AskedInv, [Next]_vars
  PROVE  AskedInv'
<1>1. ASSUME NEW t \in Tcp, Handler(t) PROVE AskedInv'
  BY <1>1, HandlerAsked
<1>2. CASE ForwarderStep \/ \E u \in Udp : Receive(u)
  BY <1>2, ForwarderMembers DEF AskedInv
<1>3. CASE UNCHANGED <<registry, control>>
  BY <1>3 DEF registry, control, AskedInv
<1>4. CASE \/ \E t \in Tcp : HangUp(t) \/ Ping(t) \/ SendFrame(t)
           \/ \E u \in Udp : Lose(u)
           \/ UNCHANGED vars
  BY <1>3, <1>4 DEF HangUp, Ping, SendFrame, Lose, vars
<1> QED BY <1>1, <1>2, <1>4 DEF Next

\* A client is where it asked to be, as long as it is anywhere.
LEMMA AskedInvariant ==
  ASSUME LeavesBeforeJoin, JoinsOnce
  PROVE  Spec => []AskedInv
<1>1. Init => AskedInv
  BY DEF Init, RegistryInit, AskedInv
<1>2. ServerInv /\ AskedInv /\ [Next]_vars => AskedInv'
  BY NextAsked
<1> QED BY <1>1, <1>2, ServerInvariant, PTL DEF Spec

LEMMA HandlerFrames ==
  ASSUME LeavesBeforeJoin, JoinsOnce, ServerInv, AskedInv, FramesInv,
         NEW t \in Tcp, Handler(t)
  PROVE  FramesInv'
<1> SUFFICES ASSUME fwd.at \notin {"recv", "peer"} PROVE SameSession(fwd.src, fwd.dst)'
  BY DEF Handler, FramesInv
<1>1. SameSession(fwd.src, fwd.dst)
  BY DEF FramesInv
<1> QED BY <1>1, AskedForGood DEF SameSession, Handler, Owner

LEMMA ForwarderFrames ==
  ASSUME OwnHosts, ServerInv, SfuInv, AskedInv, FramesInv,
         ForwarderStep \/ \E u \in Udp : Receive(u)
  PROVE  FramesInv'
<1>1. UNCHANGED asked
  BY ForwarderMembers
<1>2. fwd'.at \notin {"recv", "peer"} => SameSession(fwd'.src, fwd'.dst)
  <2>1. ASSUME NEW u \in Udp, Receive(u) PROVE fwd'.at = "peer"
    BY <2>1 DEF Receive, Recv, Receiving
  <2>2. CASE FindPeer
    <3>1. fwd.src \in Udp
      BY <2>2 DEF ServerInv, LocalsBound, FindPeer, At
    <3>2. CASE PeerUdp(fwd.src) = None
      BY <2>2, <3>2 DEF FindPeer, Receiving
    <3>3. CASE PeerUdp(fwd.src) # None
      <4>1. fwd'.src = fwd.src /\ fwd'.dst = PeerUdp(fwd.src)
        BY <2>2, <3>3 DEF FindPeer, ServerInv, SfuTypeOK, Forwarder
      <4> QED BY <3>1, <3>3, <4>1, PeerAskedSame
    <3> QED BY <3>2, <3>3
  <2>3. CASE ForwarderStep /\ ~FindPeer
    <3>1. fwd.at \notin {"recv", "peer"}
      BY <2>3 DEF ForwarderStep, FindPeer, FindSrcTcp, FindDstTcp, FindSession,
         CheckConnected, NotifySrc, NotifyDst, FindTarget, TellTarget, Mark, Send, At
    <3>2. CASE FindSrcTcp \/ FindDstTcp \/ FindSession \/ CheckConnected
      BY <3>1, <3>2 DEF FindSrcTcp, FindDstTcp, FindSession, CheckConnected,
         Receiving, Sending, ServerInv, SfuTypeOK, Forwarder, FramesInv
    <3>3. CASE NotifySrc \/ NotifyDst
      BY <3>1, <3>3 DEF NotifySrc, NotifyDst, FindTarget, TellTarget,
         ServerInv, SfuTypeOK, Forwarder, FramesInv
    <3>4. CASE Mark
      <4>1. fwd'.src = fwd.src /\ fwd'.dst = fwd.dst
        BY <3>4 DEF Mark, Sending, Receiving
      <4> QED BY <3>1, <4>1 DEF FramesInv
    <3>5. CASE Send
      <4>1. fwd'.at = "recv"
        BY <3>5 DEF Send, Receiving
      <4> QED BY <4>1
    <3> QED BY <2>3, <3>2, <3>3, <3>4, <3>5 DEF ForwarderStep
  <2> QED BY <2>1, <2>2, <2>3
<1>3. SameSession(fwd'.src, fwd'.dst) => SameSession(fwd.src, fwd.dst)'
  BY <1>1 DEF SameSession, Owner
<1> QED BY <1>2, <1>3 DEF FramesInv

\* A datagram is sent on only between clients that asked for one session,
\* however long ago udp_loop looked them up, and whoever has left meanwhile:
\* when no two clients share a host, which bug_crossed shows is needed.
THEOREM SfuFramesStayInSession ==
  ASSUME LeavesBeforeJoin, OwnHosts, JoinsOnce
  PROVE  Spec => []FramesStayInSession
<1>1. Init => FramesInv
  BY DEF Init, FramesInv, Receiving
<1>2. ServerInv /\ SfuInv /\ AskedInv /\ FramesInv /\ [Next]_vars => FramesInv'
  <2> SUFFICES ASSUME ServerInv, SfuInv, AskedInv, FramesInv, [Next]_vars
               PROVE  FramesInv'
    OBVIOUS
  <2>1. ASSUME NEW t \in Tcp, Handler(t) PROVE FramesInv'
    BY <2>1, HandlerFrames
  <2>2. CASE ForwarderStep \/ \E u \in Udp : Receive(u)
    BY <2>2, ForwarderFrames
  <2>3. CASE UNCHANGED <<control, fwd>>
    BY <2>3 DEF control, FramesInv, SameSession, Owner
  <2>4. CASE \/ \E t \in Tcp : HangUp(t) \/ Ping(t) \/ SendFrame(t)
             \/ \E u \in Udp : Lose(u)
             \/ UNCHANGED vars
    BY <2>3, <2>4 DEF HangUp, Ping, SendFrame, Lose, vars
  <2> QED BY <2>1, <2>2, <2>4 DEF Next
<1>3. FramesInv => FramesStayInSession
  BY DEF FramesInv, SameSession, FramesStayInSession, At
<1> QED BY <1>1, <1>2, <1>3, ServerInvariant, ServerRegistry, AskedInvariant, PTL DEF Spec

-----------------------------------------------------------------------------
(* The reply comes before any notification.                                *)

\* notify_peer finds the other client of the session, which is registered.
LEMMA NotifyTargetFound ==
  ASSUME SfuInv, NEW t \in Tcp, NotifyTarget(t) # None
  PROVE  /\ NotifyTarget(t) \in Tcp /\ NotifyTarget(t) # t
         /\ client_sessions[t] # None
         /\ client_sessions[NotifyTarget(t)] = client_sessions[t]
<1> DEFINE id == client_sessions[t]
           s == sessions[id]
<1>1. /\ id \in SessionIds /\ id # None /\ s \in Session /\ s # None
      /\ NotifyTarget(t) = PeerTx(s, t)
  BY AddressAssumption DEF NotifyTarget, SfuInv, AnyInv, TypeOK
<1>2. /\ \A q \in {s.client_a, s.client_b} \ {None} : client_sessions[q] = id
      /\ s.client_a = s.client_b => s.client_a = None
  BY <1>1 DEF SfuInv, SeatsAgree, SeatsOf, IsEmpty
<1>3. PeerTx(s, t) \in {s.client_a, s.client_b} \ {None, t}
  BY <1>1, <1>2 DEF PeerTx, HasOpenSlot
<1> QED BY <1>1, <1>2, <1>3 DEF Session, Seat

\* A connection that has been written nothing, its reply not under way.
Fresh(t) == line[t] = None /\ pc[t] \notin {"joined", "ended"}

\* Nobody can reach such a connection: its client is not registered, and no
\* task that has looked up a peer, however long ago, has found it.
FreshInv ==
  \A t \in Tcp :
    Fresh(t) =>
      /\ client_sessions[t] = None
      /\ mailbox[t] = <<>>
      /\ fwd.tx # t
      /\ \A q \in Tcp : peer_tx[q] # t

\* What was written stays written.
LEMMA LinesStay ==
  ASSUME None \notin Line, ServerInv, NEW t \in Tcp, Handler(t), Fresh(t)'
  PROVE  Fresh(t)
<1>1. CASE Reply(t)
  <2>1. line'[t] \in {"OK", "ERROR", "LEFT"}
    BY <1>1 DEF Reply, ReplyTo, ServerInv, SfuTypeOK
  <2> QED BY <2>1 DEF Line, Fresh
<1>2. CASE Notify(t)
  <2>1. Head(mailbox[t]) \in Message
    BY <1>2 DEF Notify, ServerInv, SfuTypeOK
  <2>2. line'[t] \in {"CONNECTED", "DISCONNECTED"}
    BY <1>2, <2>1 DEF Notify, LineFor, Message, ServerInv, SfuTypeOK
  <2> QED BY <2>2 DEF Line, Fresh
<1>3. CASE ~(Reply(t) \/ Notify(t))
  <2>1. UNCHANGED line
    BY <1>3 DEF Handler, HandlerStep, HandlerInput, Accept, ReadJoin, Join, ReadLeave,
       ReadEof, ReadError, WriteError, Abort, NotifyLeft, RemoveLeft, RemoveEof
  <2>2. pc[t] \in {"joined", "ended"} => pc'[t] = "ended"
    BY <1>3 DEF Handler, HandlerStep, HandlerInput, Accept, ReadJoin, Join, ReadLeave,
       ReadEof, ReadError, WriteError, Abort, NotifyLeft, RemoveLeft, RemoveEof, Goto,
       Command, ServerInv, SfuTypeOK
  <2> QED BY <2>1, <2>2 DEF Fresh
<1> QED BY <1>1, <1>2, <1>3

\* A message to one connection is not one to another.
LEMMA DeliverElsewhere ==
  ASSUME NEW tx, NEW msg, Deliver(tx, msg), NEW q \in Tcp, tx # q,
         mailbox \in [Tcp -> Seq(Message)]
  PROVE  mailbox'[q] = mailbox[q]
  BY DEF Deliver

LEMMA HandlerMailboxes ==
  ASSUME ServerInv, NEW t \in Tcp, Handler(t), NEW q \in Tcp, Fresh(q),
         mailbox[q] = <<>>, peer_tx[t] # q
  PROVE  mailbox'[q] = <<>>
<1>1. mailbox \in [Tcp -> Seq(Message)]
  BY DEF ServerInv, SfuTypeOK
<1>2. CASE NotifyLeft(t)
  BY <1>1, <1>2, DeliverElsewhere DEF NotifyLeft
<1>3. CASE ReadError(t) \/ WriteError(t) \/ RemoveEof(t)
  BY <1>1, <1>3 DEF ReadError, WriteError, RemoveEof, Abort
<1>4. CASE Notify(t)
  BY <1>1, <1>4 DEF Notify
<1>5. CASE ~(\/ NotifyLeft(t) \/ ReadError(t) \/ WriteError(t) \/ RemoveEof(t)
             \/ Notify(t))
  BY <1>5 DEF Handler, HandlerStep, HandlerInput, Accept, ReadJoin, Join, ReadLeave,
     ReadEof, RemoveLeft, Reply
<1> QED BY <1>2, <1>3, <1>4, <1>5

\* What a task has in hand to notify: what it had, nobody, or what it finds.
LEMMA HandlerTarget ==
  ASSUME ServerInv, NEW t \in Tcp, Handler(t)
  PROVE  peer_tx'[t] \in {peer_tx[t], None, NotifyTarget(t)}
<1>1. CASE ReadLeave(t) \/ ReadEof(t)
  BY <1>1 DEF ReadLeave, ReadEof, ServerInv, SfuTypeOK
<1>2. CASE NotifyLeft(t)
  BY <1>2 DEF NotifyLeft, ServerInv, SfuTypeOK
<1>3. CASE ~(ReadLeave(t) \/ ReadEof(t) \/ NotifyLeft(t))
  BY <1>3 DEF Handler, HandlerStep, HandlerInput, Accept, ReadJoin, Join, ReadError,
     WriteError, Abort, RemoveLeft, RemoveEof, Reply, Notify
<1> QED BY <1>1, <1>2, <1>3

LEMMA HandlerFresh ==
  ASSUME None \notin Line, ServerInv, SfuInv, FreshInv, NEW t \in Tcp, Handler(t)
  PROVE  FreshInv'
<1> SUFFICES ASSUME NEW q \in Tcp, Fresh(q)'
             PROVE  /\ client_sessions'[q] = None
                    /\ mailbox'[q] = <<>>
                    /\ fwd'.tx # q
                    /\ \A r \in Tcp : peer_tx'[r] # q
  BY DEF FreshInv
<1>1. Fresh(q)
  BY LinesStay, HandlerOthers DEF Fresh
<1>2. /\ client_sessions[q] = None /\ mailbox[q] = <<>>
      /\ fwd.tx # q /\ \A r \in Tcp : peer_tx[r] # q
  BY <1>1 DEF FreshInv
<1>3. client_sessions'[q] = None
  <2>1. CASE q # t
    BY <1>2, <2>1, HandlerOthers
  <2>2. CASE q = t
    BY <1>2, <2>2, HandlerMembership DEF Fresh
  <2> QED BY <2>1, <2>2
<1>4. mailbox'[q] = <<>>
  BY <1>1, <1>2, HandlerMailboxes
<1>5. fwd'.tx # q
  BY <1>2 DEF Handler
<1>6. ASSUME NEW r \in Tcp PROVE peer_tx'[r] # q
  <2>1. CASE r # t
    BY <1>2, <2>1, HandlerOthers
  <2>2. CASE r = t
    <3>1. NotifyTarget(t) # q /\ None # q
      BY <1>2, NotifyTargetFound, AddressAssumption
    <3> QED BY <1>2, <2>2, <3>1, HandlerTarget
  <2> QED BY <2>1, <2>2
<1> QED BY <1>3, <1>4, <1>5, <1>6

\* What udp_loop has in hand to notify, likewise, and what it delivers.
LEMMA ForwarderTarget ==
  ASSUME ServerInv, SfuInv, ForwarderStep \/ \E u \in Udp : Receive(u)
  PROVE  /\ \/ fwd'.tx = fwd.tx \/ fwd'.tx = None
            \/ fwd'.tx # None /\ \E t \in Tcp : fwd'.tx = NotifyTarget(t)
         /\ UNCHANGED mailbox \/ Deliver(fwd.tx, "Connect")
<1>1. ASSUME NEW u \in Udp, Receive(u)
      PROVE  fwd'.tx = None /\ UNCHANGED mailbox
  BY <1>1 DEF Receive, Recv, Receiving
<1>2. CASE NotifySrc \/ NotifyDst
  <2>1. ASSUME NEW here, NEW next, NEW t \in Tcp, FindTarget(here, next, t)
        PROVE  fwd'.tx = NotifyTarget(t) /\ UNCHANGED mailbox
    BY <2>1 DEF FindTarget, ServerInv, SfuTypeOK, Forwarder
  <2>2. ASSUME NEW here, NEW next, TellTarget(here, next)
        PROVE  fwd'.tx = None /\ Deliver(fwd.tx, "Connect")
    BY <2>2 DEF TellTarget, ServerInv, SfuTypeOK, Forwarder
  <2>3. CASE At("find_src") \/ At("find_dst")
    <3>1. fwd.src_tcp \in Tcp /\ fwd.dst_tcp \in Tcp
      BY <2>3 DEF ServerInv, LocalsBound, At
    <3>2. \/ FindTarget("find_src", "tell_src", fwd.src_tcp)
          \/ FindTarget("find_dst", "tell_dst", fwd.dst_tcp)
      BY <1>2, <2>3 DEF NotifySrc, NotifyDst, TellTarget, At
    <3> QED BY <2>1, <3>1, <3>2
  <2>4. CASE ~(At("find_src") \/ At("find_dst"))
    <3>1. TellTarget("tell_src", "find_dst") \/ TellTarget("tell_dst", "mark")
      BY <1>2, <2>4 DEF NotifySrc, NotifyDst, FindTarget
    <3> QED BY <2>2, <3>1
  <2> QED BY <2>3, <2>4
<1>3. CASE FindPeer \/ FindSrcTcp \/ FindDstTcp \/ FindSession \/ CheckConnected
  <2>1. Receiving.tx = None /\ Sending.tx = None
    BY DEF Receiving, Sending
  <2>2. fwd'.tx \in {fwd.tx, None} /\ UNCHANGED mailbox
    BY <1>3, <2>1 DEF FindPeer, FindSrcTcp, FindDstTcp, FindSession, CheckConnected,
       ServerInv, SfuTypeOK, Forwarder
  <2> QED BY <2>2
<1>4. CASE Mark \/ Send
  <2>1. Receiving.tx = None /\ Sending.tx = None
    BY DEF Receiving, Sending
  <2>2. fwd'.tx = None /\ UNCHANGED mailbox
    BY <1>4, <2>1 DEF Mark, Send
  <2> QED BY <2>2
<1> QED BY <1>1, <1>2, <1>3, <1>4 DEF ForwarderStep

LEMMA ForwarderFresh ==
  ASSUME ServerInv, SfuInv, FreshInv, ForwarderStep \/ \E u \in Udp : Receive(u)
  PROVE  FreshInv'
<1> SUFFICES ASSUME NEW q \in Tcp, Fresh(q)'
             PROVE  /\ client_sessions'[q] = None
                    /\ mailbox'[q] = <<>>
                    /\ fwd'.tx # q
                    /\ \A r \in Tcp : peer_tx'[r] # q
  BY DEF FreshInv
<1>1. UNCHANGED <<client_sessions, pc, peer_tx, line>>
  BY ForwarderMembers
<1>2. Fresh(q)
  BY <1>1 DEF Fresh
<1>3. /\ client_sessions[q] = None /\ mailbox[q] = <<>>
      /\ fwd.tx # q /\ \A r \in Tcp : peer_tx[r] # q
  BY <1>2 DEF FreshInv
<1>4. mailbox'[q] = <<>>
  BY <1>3, ForwarderTarget, DeliverElsewhere DEF ServerInv, SfuTypeOK
<1>5. fwd'.tx # q
  BY <1>3, ForwarderTarget, NotifyTargetFound, AddressAssumption
<1> QED BY <1>1, <1>3, <1>4, <1>5

LEMMA FreshInvariant ==
  ASSUME LeavesBeforeJoin, None \notin Line
  PROVE  Spec => []FreshInv
<1>1. Init => FreshInv
  BY AddressAssumption DEF Init, RegistryInit, FreshInv, Receiving
<1>2. ServerInv /\ SfuInv /\ FreshInv /\ [Next]_vars => FreshInv'
  <2> SUFFICES ASSUME ServerInv, SfuInv, FreshInv, [Next]_vars PROVE FreshInv'
    OBVIOUS
  <2>1. ASSUME NEW t \in Tcp, Handler(t) PROVE FreshInv'
    BY <2>1, HandlerFresh
  <2>2. CASE ForwarderStep \/ \E u \in Udp : Receive(u)
    BY <2>2, ForwarderFresh
  <2>3. CASE UNCHANGED <<registry, control, fwd>>
    BY <2>3 DEF registry, control, FreshInv, Fresh
  <2>4. CASE \/ \E t \in Tcp : HangUp(t) \/ Ping(t) \/ SendFrame(t)
             \/ \E u \in Udp : Lose(u)
             \/ UNCHANGED vars
    BY <2>3, <2>4 DEF HangUp, Ping, SendFrame, Lose, vars
  <2> QED BY <2>1, <2>2, <2>4 DEF Next
<1> QED BY <1>1, <1>2, ServerInvariant, ServerRegistry, PTL DEF Spec

\* The first line that a client reads is the reply to its command, although
\* it is registered before the reply is written: expect_ok may rely on it.
THEOREM SfuReplyComesFirst ==
  ASSUME LeavesBeforeJoin, None \notin Line
  PROVE  Spec => ReplyComesFirst
<1> DEFINE First == \A t \in Tcp :
                      line[t] = None => line'[t] \in {None, "OK", "ERROR", "LEFT"}
<1>1. ServerInv /\ FreshInv /\ [Next]_vars => [First]_line
  <2> SUFFICES ASSUME ServerInv, FreshInv, [Next]_vars, ~UNCHANGED line
               PROVE  First
    OBVIOUS
  <2>1. PICK t \in Tcp : Handler(t)
    BY ForwarderMembers DEF Next, HangUp, Ping, SendFrame, Lose, vars, control
  <2>2. \A q \in Tcp \ {t} : line'[q] = line[q]
    BY <2>1, HandlerOthers
  <2>3. CASE Notify(t)
    <3>1. line[t] # None
      BY <2>3 DEF Notify, Fresh, FreshInv
    <3> QED BY <2>2, <3>1
  <2>4. CASE Reply(t)
    <3>1. line'[t] \in {"OK", "ERROR", "LEFT"}
      BY <2>4 DEF Reply, ReplyTo, ServerInv, SfuTypeOK
    <3> QED BY <2>2, <3>1
  <2>5. CASE ~(Notify(t) \/ Reply(t))
    BY <2>1, <2>5 DEF Handler, HandlerStep, HandlerInput, Accept, ReadJoin, Join,
       ReadLeave, ReadEof, ReadError, WriteError, Abort, NotifyLeft, RemoveLeft, RemoveEof
  <2> QED BY <2>3, <2>4, <2>5
<1> QED BY <1>1, ServerInvariant, FreshInvariant, PTL DEF Spec, ReplyComesFirst

-----------------------------------------------------------------------------
(* Departures: who takes part in one, and who hears of it.                 *)

\* Somebody who asked for the session has hung up.
Deserted(id) == \E t \in Tcp : t \in hungup /\ asked[t] = id

Has(box, msg) == \E i \in DOMAIN box : box[i] = msg

\* A task removes its client only when the client has hung up or was never
\* in a session.  A client whose reply is under way has read nothing.  A
\* notice of departure, in hand or in a mailbox, is from a deserted session.
DepartInv ==
  \A t \in Tcp :
    /\ pc[t] \in {"eof_notify", "eof_remove"} => t \in hungup
    /\ pc[t] \in {"leave_notify", "leave_remove", "left"} => asked[t] = None
    /\ pc[t] \in {"join", "joined", "refused"} => line[t] = None
    /\ commands[t] = 0 =>
         /\ line[t] = None
         /\ pc[t] \in {"unborn", "select", "eof_notify", "eof_remove", "ended"}
    /\ peer_tx[t] # None =>
         t \in hungup /\ asked[t] # None /\ asked[peer_tx[t]] = asked[t]
    /\ Has(mailbox[t], "Disconnect") => asked[t] # None /\ Deserted(asked[t])

Departing == ServerInv /\ SfuInv /\ AskedInv /\ FreshInv /\ DepartInv

\* A deserted session stays deserted.
LEMMA DesertedForGood ==
  ASSUME NEW id, id # None, Deserted(id), hungup \subseteq hungup',
         \A q \in Tcp : asked[q] # None => asked'[q] = asked[q]
  PROVE  Deserted(id)'
  BY DEF Deserted

LEMMA BoxAfterAppend ==
  ASSUME NEW box \in Seq(Message), NEW msg \in Message, NEW m \in Message
  PROVE  Has(Append(box, msg), m) <=> Has(box, m) \/ msg = m
  BY DEF Has

LEMMA BoxAfterTail ==
  ASSUME NEW box \in Seq(Message), box # <<>>, NEW m \in Message
  PROVE  Has(box, m) <=> Has(Tail(box), m) \/ Head(box) = m
<1>1. ASSUME Has(box, m) PROVE Has(Tail(box), m) \/ Head(box) = m
  <2>1. PICK i \in DOMAIN box : box[i] = m
    BY <1>1 DEF Has
  <2>2. CASE i = 1
    BY <2>1, <2>2
  <2>3. CASE i # 1
    <3>1. i - 1 \in DOMAIN Tail(box) /\ Tail(box)[i - 1] = box[i]
      BY <2>1, <2>3
    <3> QED BY <2>1, <3>1 DEF Has
  <2> QED BY <2>2, <2>3
<1>2. ASSUME Has(Tail(box), m) PROVE Has(box, m)
  <2>1. PICK i \in DOMAIN Tail(box) : Tail(box)[i] = m
    BY <1>2 DEF Has
  <2>2. i + 1 \in DOMAIN box /\ Tail(box)[i] = box[i + 1]
    BY <2>1
  <2> QED BY <2>1, <2>2 DEF Has
<1>3. ASSUME Head(box) = m PROVE Has(box, m)
  <2>1. 1 \in DOMAIN box /\ Head(box) = box[1]
    OBVIOUS
  <2> QED BY <1>3, <2>1 DEF Has
<1> QED BY <1>1, <1>2, <1>3

\* After a delivery: what was there, and the message at its receiver.
LEMMA BoxAfterDeliver ==
  ASSUME mailbox \in [Tcp -> Seq(Message)], NEW tx \in Seat, NEW msg \in Message,
         Deliver(tx, msg), NEW q \in Tcp, NEW m \in Message
  PROVE  /\ Has(mailbox[q], m) => Has(mailbox'[q], m)
         /\ Has(mailbox'[q], m) => Has(mailbox[q], m) \/ (q = tx /\ m = msg)
         /\ q = tx /\ q # None /\ pc[q] # "ended" => Has(mailbox'[q], msg)
<1>1. mailbox[q] \in Seq(Message)
  OBVIOUS
<1>2. CASE q = tx /\ q # None /\ pc[q] # "ended"
  <2>1. mailbox'[q] = Append(mailbox[q], msg)
    BY <1>2 DEF Deliver
  <2> QED BY <1>1, <1>2, <2>1, BoxAfterAppend
<1>3. CASE ~(q = tx /\ q # None /\ pc[q] # "ended")
  <2>1. mailbox'[q] = mailbox[q]
    BY <1>3 DEF Deliver
  <2> QED BY <1>3, <2>1
<1> QED BY <1>2, <1>3

LEMMA HandlerBoxes ==
  ASSUME ServerInv, NEW t \in Tcp, Handler(t), NEW q \in Tcp, NEW m \in Message
  PROVE  Has(mailbox'[q], m) =>
           Has(mailbox[q], m) \/ (q = peer_tx[t] /\ m = "Disconnect")
<1>1. /\ mailbox \in [Tcp -> Seq(Message)] /\ mailbox[q] \in Seq(Message)
      /\ peer_tx[t] \in Seat
  BY DEF ServerInv, SfuTypeOK
<1>2. CASE NotifyLeft(t)
  BY <1>1, <1>2, BoxAfterDeliver DEF NotifyLeft, Message
<1>3. CASE ReadError(t) \/ WriteError(t) \/ RemoveEof(t)
  <2>1. mailbox'[q] \in {mailbox[q], <<>>}
    BY <1>1, <1>3 DEF ReadError, WriteError, RemoveEof, Abort
  <2> QED BY <2>1 DEF Has
<1>4. CASE Notify(t)
  <2>1. mailbox[t] # <<>> /\ mailbox'[q] = IF q = t THEN Tail(mailbox[q]) ELSE mailbox[q]
    BY <1>1, <1>4 DEF Notify
  <2> QED BY <1>1, <2>1, BoxAfterTail
<1>5. CASE ~(\/ NotifyLeft(t) \/ ReadError(t) \/ WriteError(t) \/ RemoveEof(t)
             \/ Notify(t))
  BY <1>5 DEF Handler, HandlerStep, HandlerInput, Accept, ReadJoin, Join, ReadLeave,
     ReadEof, RemoveLeft, Reply
<1> QED BY <1>2, <1>3, <1>4, <1>5

\* The first command is the only one.
LEMMA FirstCommand ==
  ASSUME JoinsOnce, ServerInv, AskedInv, DepartInv, NEW t \in Tcp, Command(t)
  PROVE  /\ commands[t] = 0 /\ commands'[t] # 0
         /\ asked[t] = None /\ client_sessions[t] = None /\ line[t] = None
<1>1. commands[t] \in Nat /\ MaxCommands[t] \in Nat
  BY EnvironmentAssumption DEF ServerInv, SfuTypeOK
<1>2. commands[t] < MaxCommands[t] /\ MaxCommands[t] <= 1
  BY DEF Command, JoinsOnce
<1>3. commands'[t] = commands[t] + 1
  BY DEF Command, ServerInv, SfuTypeOK
<1>4. commands[t] = 0 /\ commands'[t] # 0 /\ ~(commands[t] >= 1)
  BY <1>1, <1>2, <1>3
<1> QED BY <1>4 DEF AskedInv, DepartInv

LEMMA HandlerPlace ==
  ASSUME LeavesBeforeJoin, JoinsOnce, Departing, NEW t \in Tcp, Handler(t)
  PROVE  /\ pc'[t] \in {"eof_notify", "eof_remove"} => t \in hungup
         /\ pc'[t] \in {"leave_notify", "leave_remove", "left"} => asked'[t] = None
         /\ pc'[t] \in {"join", "joined", "refused"} => line'[t] = None
         /\ commands'[t] = 0 =>
              /\ line'[t] = None
              /\ pc'[t] \in {"unborn", "select", "eof_notify", "eof_remove", "ended"}
<1> USE DEF Departing
<1>1. pc \in [Tcp -> HandlerState]
  BY DEF ServerInv, SfuTypeOK
<1>2. CASE ReadLeave(t) \/ \E id \in SessionIds : ReadJoin(t, id)
  <2>1. Command(t)
    BY <1>2 DEF ReadLeave, ReadJoin
  <2>2. commands'[t] # 0 /\ asked[t] = None /\ line[t] = None
    BY <2>1, FirstCommand
  <2> QED BY <1>1, <1>2, <2>2 DEF ReadLeave, ReadJoin, Goto
<1>3. CASE Accept(t) \/ ReadEof(t) \/ NotifyLeft(t)
  BY <1>1, <1>3 DEF Accept, ReadEof, NotifyLeft, Goto, DepartInv
<1>4. CASE Join(t)
  BY <1>1, <1>4 DEF Join, Goto, DepartInv
<1>5. CASE RemoveLeft(t) \/ RemoveEof(t)
  BY <1>1, <1>5 DEF RemoveLeft, RemoveEof, Goto, DepartInv
<1>6. CASE Reply(t)
  BY <1>1, <1>6 DEF Reply, ReplyTo, DepartInv
<1>7. CASE Notify(t)
  <2>1. commands[t] # 0
    BY <1>7 DEF Notify, DepartInv, FreshInv, Fresh
  <2> QED BY <1>1, <1>7, <2>1 DEF Notify, DepartInv
<1>8. CASE ReadError(t) \/ WriteError(t)
  <2>1. commands[t] = 0 => line[t] = None
    BY DEF DepartInv
  <2> QED BY <1>1, <1>8, <2>1 DEF ReadError, WriteError, Abort
<1> QED BY <1>2, <1>3, <1>4, <1>5, <1>6, <1>7, <1>8
        DEF Handler, HandlerStep, HandlerInput

LEMMA HandlerDepart ==
  ASSUME LeavesBeforeJoin, JoinsOnce, Departing, NEW t \in Tcp, Handler(t)
  PROVE  DepartInv'
<1> USE DEF Departing
<1>1. /\ \A q \in Tcp : asked[q] # None => asked'[q] = asked[q]
      /\ hungup' = hungup
  BY AskedForGood DEF Handler
<1>2. /\ peer_tx \in [Tcp -> Seat] /\ asked \in [Tcp -> SessionIds \cup {None}]
      /\ \A q \in Tcp : peer_tx[q] # None => peer_tx[q] \in Tcp
  BY DEF ServerInv, SfuTypeOK, Seat
<1>3. ASSUME NEW q \in Tcp
      PROVE  peer_tx'[q] # None =>
               q \in hungup' /\ asked'[q] # None /\ asked'[peer_tx'[q]] = asked'[q]
  <2>1. CASE peer_tx'[q] \in {peer_tx[q], None}
    BY <1>1, <1>2, <2>1 DEF DepartInv
  <2>2. CASE q = t /\ peer_tx'[t] = NotifyTarget(t) /\ NotifyTarget(t) \notin {peer_tx[t], None}
    <3>1. ~ReadLeave(t)
      <4>1. ASSUME ReadLeave(t) PROVE client_sessions[t] = None
        BY <4>1, FirstCommand DEF ReadLeave
      <4> QED BY <2>2, <4>1, NotifyTargetFound
    <3>2. ReadEof(t)
      <4>1. peer_tx'[t] \notin {peer_tx[t], None}
        BY <2>2
      <4> QED BY <1>2, <3>1, <4>1
              DEF Handler, HandlerStep, HandlerInput, Accept, ReadJoin, Join, ReadError,
                  WriteError, Abort, NotifyLeft, RemoveLeft, RemoveEof, Reply, Notify
    <3>3. /\ NotifyTarget(t) \in Tcp /\ client_sessions[t] # None
          /\ client_sessions[NotifyTarget(t)] = client_sessions[t]
      BY <2>2, NotifyTargetFound
    <3>4. asked[t] # None /\ asked[NotifyTarget(t)] = asked[t]
      BY <3>3 DEF AskedInv
    <3> QED BY <1>1, <2>2, <3>2, <3>3, <3>4 DEF ReadEof
  <2> QED BY <2>1, <2>2, HandlerTarget, HandlerOthers
<1>4. ASSUME NEW q \in Tcp, Has(mailbox'[q], "Disconnect")
      PROVE  asked'[q] # None /\ Deserted(asked[q])' /\ asked'[q] = asked[q]
  <2>1. asked[q] # None /\ Deserted(asked[q])
    <3>1. CASE Has(mailbox[q], "Disconnect")
      BY <3>1 DEF DepartInv
    <3>2. CASE q = peer_tx[t]
      <4>1. t \in hungup /\ asked[t] # None /\ asked[q] = asked[t]
        BY <1>2, <3>2, AddressAssumption DEF DepartInv
      <4> QED BY <4>1 DEF Deserted
    <3> QED BY <1>4, <3>1, <3>2, HandlerBoxes DEF Message
  <2>2. asked'[q] = asked[q]
    BY <1>1, <2>1
  <2>3. \E r \in Tcp : r \in hungup' /\ asked'[r] = asked[q]
    BY <1>1, <2>1 DEF Deserted
  <2> QED BY <2>1, <2>2, <2>3 DEF Deserted
<1>5. ASSUME NEW q \in Tcp \ {t}
      PROVE  UNCHANGED <<pc[q], asked[q], line[q], commands[q], hungup>>
  BY HandlerOthers DEF Handler
<1>6. ASSUME NEW q \in Tcp
      PROVE  /\ pc'[q] \in {"eof_notify", "eof_remove"} => q \in hungup'
             /\ pc'[q] \in {"leave_notify", "leave_remove", "left"} => asked'[q] = None
             /\ pc'[q] \in {"join", "joined", "refused"} => line'[q] = None
             /\ commands'[q] = 0 =>
                  /\ line'[q] = None
                  /\ pc'[q] \in {"unborn", "select", "eof_notify", "eof_remove", "ended"}
  <2>1. CASE q = t
    BY <1>1, <2>1, HandlerPlace
  <2>2. CASE q # t
    BY <1>5, <2>2 DEF DepartInv
  <2> QED BY <2>1, <2>2
<1> QED BY <1>3, <1>4, <1>6 DEF DepartInv, Deserted

\* What udp_loop puts into a mailbox is no notice of departure.
LEMMA ForwarderBoxes ==
  ASSUME ServerInv, SfuInv, ForwarderStep \/ \E u \in Udp : Receive(u), NEW q \in Tcp
  PROVE  /\ Has(mailbox[q], "Connect") => Has(mailbox'[q], "Connect")
         /\ Has(mailbox'[q], "Disconnect") => Has(mailbox[q], "Disconnect")
<1>1. mailbox \in [Tcp -> Seq(Message)] /\ fwd.tx \in Seat
  BY DEF ServerInv, SfuTypeOK, Forwarder
<1>2. CASE UNCHANGED mailbox
  BY <1>2
<1>3. CASE Deliver(fwd.tx, "Connect")
  BY <1>1, <1>3, BoxAfterDeliver DEF Message
<1> QED BY <1>2, <1>3, ForwarderTarget

LEMMA NextDepart ==
  ASSUME LeavesBeforeJoin, JoinsOnce, Departing, [Next]_vars
  PROVE  /\ DepartInv'
         /\ hungup \subseteq hungup'
         /\ \A q \in Tcp : asked[q] # None => asked'[q] = asked[q]
<1> USE DEF Departing
<1>1. ASSUME NEW t \in Tcp, Handler(t)
      PROVE  DepartInv' /\ hungup' = hungup
             /\ \A q \in Tcp : asked[q] # None => asked'[q] = asked[q]
  BY <1>1, HandlerDepart, AskedForGood DEF Handler
<1>2. CASE ForwarderStep \/ \E u \in Udp : Receive(u)
  <2>1. UNCHANGED <<pc, asked, peer_tx, line, commands, hungup>>
    BY <1>2, ForwarderMembers DEF ForwarderStep, Receive
  <2>2. \A q \in Tcp : Has(mailbox'[q], "Disconnect") => Has(mailbox[q], "Disconnect")
    BY <1>2, ForwarderBoxes
  <2> QED BY <2>1, <2>2 DEF DepartInv, Deserted
<1>3. CASE UNCHANGED <<registry, control>> /\ hungup \subseteq hungup'
  <2>1. \A id : Deserted(id) => Deserted(id)'
    BY <1>3 DEF control, Deserted
  <2> QED BY <1>3, <2>1 DEF control, DepartInv
<1>4. CASE \/ \E t \in Tcp : HangUp(t) \/ Ping(t) \/ SendFrame(t)
           \/ \E u \in Udp : Lose(u)
           \/ UNCHANGED vars
  BY <1>3, <1>4 DEF HangUp, Ping, SendFrame, Lose, vars
<1> QED BY <1>1, <1>2, <1>4 DEF Next

LEMMA DepartInvariant ==
  ASSUME LeavesBeforeJoin, JoinsOnce, None \notin Line
  PROVE  Spec => []Departing
<1>1. Init => DepartInv
  BY DEF Init, DepartInv, Has
<1>2. Departing /\ [Next]_vars => DepartInv'
  BY NextDepart
<1> QED BY <1>1, <1>2, ServerInvariant, ServerRegistry, AskedInvariant, FreshInvariant,
           PTL DEF Spec, Departing

-----------------------------------------------------------------------------
(* Who has been told stays told, and knows the right thing.                *)

\* In a session that nobody has deserted no client is removed, and who has
\* been told stays told.
LEMMA HandlerTold ==
  ASSUME LeavesBeforeJoin, JoinsOnce, None \notin Line, "tcp" \notin Faults, Departing,
         NEW t \in Tcp, Handler(t),
         NEW q \in Tcp, client_sessions[q] # None, ~Deserted(client_sessions[q])
  PROVE  /\ client_sessions'[q] = client_sessions[q]
         /\ Told(q) => Told(q)'
<1> USE DEF Departing
<1>1. asked[q] = client_sessions[q] /\ q \notin hungup /\ ~Has(mailbox[q], "Disconnect")
  BY DEF AskedInv, DepartInv, Deserted
<1>2. /\ mailbox \in [Tcp -> Seq(Message)] /\ mailbox[q] \in Seq(Message)
      /\ peer_tx[t] \in Seat /\ line \in [Tcp -> Line \cup {None}]
      /\ client_sessions \in [Tcp -> SessionIds \cup {None}]
  BY DEF ServerInv, SfuTypeOK, TypeOK
<1>3. ~RemoveEof(q) /\ ~RemoveLeft(q) /\ ~ReadError(t) /\ ~WriteError(t)
  BY <1>1 DEF RemoveEof, RemoveLeft, ReadError, WriteError, Abort, Goto, DepartInv
<1>4. client_sessions'[q] = client_sessions[q]
  <2>1. CASE q # t
    BY <2>1, HandlerOthers
  <2>2. CASE q = t /\ Join(t)
    BY <2>2 DEF Join, Goto, ServerInv, JoinsUnseated
  <2>3. CASE q = t /\ ~Join(t)
    BY <1>3, <2>3 DEF Handler, HandlerStep, HandlerInput, Accept, ReadJoin, ReadLeave,
       ReadEof, NotifyLeft, Reply, Notify, EnsureSession, registry
  <2> QED BY <2>1, <2>2, <2>3
<1>5. ASSUME Told(q) PROVE Told(q)'
  <2>1. line[q] = "CONNECTED" \/ Has(mailbox[q], "Connect")
    BY <1>5 DEF Told, Has
  <2>2. CASE NotifyLeft(t)
    <3>1. Has(mailbox[q], "Connect") => Has(mailbox'[q], "Connect")
      BY <1>2, <2>2, BoxAfterDeliver DEF NotifyLeft, Message
    <3> QED BY <2>1, <2>2, <3>1 DEF NotifyLeft, Told, Has
  <2>3. CASE Notify(t)
    <3>1. CASE q # t
      <4>1. mailbox'[q] = mailbox[q] /\ line'[q] = line[q]
        BY <1>2, <2>3, <3>1 DEF Notify
      <4> QED BY <1>5, <4>1 DEF Told
    <3>2. CASE q = t
      <4>1. mailbox[q] # <<>>
        BY <2>3, <3>2 DEF Notify
      <4>2. Head(mailbox[q]) \in Message /\ Head(mailbox[q]) # "Disconnect"
        BY <1>1, <1>2, <4>1, BoxAfterTail DEF Message
      <4>3. line'[q] = "CONNECTED"
        BY <1>2, <2>3, <3>2, <4>2 DEF Notify, LineFor, Message
      <4> QED BY <4>3 DEF Told
    <3> QED BY <3>1, <3>2
  <2>4. CASE Reply(t)
    <3>1. q = t => line[q] = None
      <4>1. q = t => pc[q] # "left"
        BY <1>1 DEF DepartInv
      <4> QED BY <2>4, <4>1 DEF Reply, ReplyTo, DepartInv
    <3>2. q = t => Has(mailbox[q], "Connect")
      BY <2>1, <3>1 DEF Line
    <3> QED BY <1>2, <1>5, <2>4, <3>2 DEF Reply, Told, Has
  <2>5. CASE RemoveEof(t)
    <3>1. mailbox'[q] = mailbox[q] /\ line'[q] = line[q]
      BY <1>2, <1>3, <2>5 DEF RemoveEof
    <3> QED BY <1>5, <3>1 DEF Told
  <2>6. CASE ~(NotifyLeft(t) \/ Notify(t) \/ Reply(t) \/ RemoveEof(t))
    <3>1. UNCHANGED <<mailbox, line>>
      BY <1>3, <2>6 DEF Handler, HandlerStep, HandlerInput, Accept, ReadJoin, Join,
         ReadLeave, ReadEof, RemoveLeft
    <3> QED BY <1>5, <3>1 DEF Told
  <2> QED BY <2>2, <2>3, <2>4, <2>5, <2>6
<1> QED BY <1>4, <1>5

\* A session that is marked was marked before the step of a task, and a full
\* one has the same clients.
LEMMA HandlerSession ==
  ASSUME Departing, NEW t \in Tcp, Handler(t),
         NEW id \in SessionIds, IsConnected(id)'
  PROVE  /\ IsConnected(id)
         /\ ~HasOpenSlot(sessions[id]) => sessions'[id] = sessions[id]
<1> USE DEF Departing
<1>1. /\ sessions \in [SessionIds -> Session \cup {None}]
      /\ sessions'[id] # None /\ sessions'[id].connected_notified
  BY DEF ServerInv, SfuTypeOK, TypeOK, IsConnected
<1>2. ASSUME NEW i \in SessionIds, ReadJoin(t, i)
      PROVE  sessions'[id] = sessions[id]
  <2>1. sessions'[id] = sessions[id] \/ sessions'[id] = NewSession
    BY <1>1, <1>2 DEF ReadJoin, EnsureSession
  <2> QED BY <1>1, <2>1 DEF NewSession
<1>3. CASE Join(t)
  <2>1. asked[t] \in SessionIds
    BY <1>3 DEF ServerInv, JoinsUnseated, Join, Goto
  <2>2. CASE sessions'[id] = sessions[id]
    BY <1>1, <2>2 DEF IsConnected
  <2>3. CASE sessions'[id] # sessions[id]
    <3>1. asked[t] = id /\ CanAdd(id) /\ sessions'[id] = Seated(sessions[id], t)
      BY <1>1, <1>3, <2>1, <2>3 DEF Join, AddClient, registry
    <3>2. sessions[id] \in Session /\ HasOpenSlot(sessions[id]) /\ sessions[id] # None
      BY <1>1, <3>1 DEF CanAdd
    <3>3. Seated(sessions[id], t).connected_notified = sessions[id].connected_notified
      BY <3>2 DEF Seated, Session
    <3> QED BY <1>1, <3>1, <3>2, <3>3 DEF IsConnected
  <2> QED BY <2>2, <2>3
<1>4. CASE RemoveLeft(t) \/ RemoveEof(t)
  <2>1. RemoveClient(t)
    BY <1>4 DEF RemoveLeft, RemoveEof
  <2>2. CASE client_sessions[t] = id
    <3> DEFINE r == Remaining(id, t)
    <3>1. sessions[id] = None \/ r.connected_notified = FALSE
      <4>1. ASSUME sessions[id] \in Session PROVE r.connected_notified = FALSE
        <5>1. Unseated(sessions[id], t) \in Session
          BY <4>1 DEF Unseated, Session, Seat, Port
        <5> HIDE DEF r
        <5> QED BY <5>1 DEF r, Remaining, Session
      <4> QED BY <1>1, <4>1
    <3>2. id # None
      BY AddressAssumption
    <3>3. sessions' = [sessions EXCEPT ![id] =
                         IF @ = None \/ IsEmpty(r) THEN None ELSE r]
      BY <2>1, <2>2, <3>2 DEF RemoveClient
    <3> HIDE DEF r
    <3> QED BY <1>1, <3>1, <3>3
  <2>3. CASE client_sessions[t] # id
    <3>1. sessions'[id] = sessions[id]
      BY <1>1, <2>1, <2>3 DEF RemoveClient, registry
    <3> QED BY <1>1, <3>1 DEF IsConnected
  <2> QED BY <2>2, <2>3
<1>5. CASE \/ Accept(t) \/ ReadLeave(t) \/ ReadEof(t) \/ ReadError(t) \/ WriteError(t)
           \/ NotifyLeft(t) \/ Reply(t) \/ Notify(t)
  <2>1. UNCHANGED sessions
    BY <1>5 DEF Accept, ReadLeave, ReadEof, ReadError, WriteError, Abort, NotifyLeft,
       Reply, Notify, registry
  <2> QED BY <1>1, <2>1 DEF IsConnected
<1> QED BY <1>1, <1>2, <1>3, <1>4, <1>5
        DEF Handler, HandlerStep, HandlerInput, IsConnected

\* Two clients of a session fill it, and notify_peer finds the one for the
\* other.
LEMMA TwoFill ==
  ASSUME SfuInv, NEW p \in Tcp, NEW q \in Tcp, p # q,
         client_sessions[p] # None, client_sessions[p] = client_sessions[q]
  PROVE  /\ sessions[client_sessions[p]] # None
         /\ ~HasOpenSlot(sessions[client_sessions[p]])
         /\ SeatsOf(client_sessions[p]) = {p, q}
         /\ NotifyTarget(p) = q /\ NotifyTarget(q) = p
<1> DEFINE id == client_sessions[p]
           s == sessions[id]
<1>1. /\ id \in SessionIds /\ s \in Session /\ s # None
      /\ p # None /\ q # None
      /\ p \in {s.client_a, s.client_b}
      /\ q \in {s.client_a, s.client_b}
  BY AddressAssumption DEF SfuInv, AnyInv, TypeOK, MembersSeated, SeatsOf
<1>2. ~HasOpenSlot(s) /\ SeatsOf(id) = {p, q} /\ PeerTx(s, p) = q /\ PeerTx(s, q) = p
  BY <1>1 DEF HasOpenSlot, SeatsOf, PeerTx
<1> QED BY <1>1, <1>2, AddressAssumption DEF NotifyTarget

-----------------------------------------------------------------------------
(* udp_loop tells both clients before it marks their session.              *)

\* Two clients that asked for one session, and are in it unless it has been
\* deserted.
Paired(p, q) ==
  /\ p \in Tcp /\ q \in Tcp /\ p # q
  /\ asked[p] # None /\ asked[p] = asked[q]
  /\ ~Deserted(asked[p]) => client_sessions[p] = asked[p] /\ client_sessions[q] = asked[p]

LookedUp == {"session", "connected", "find_src", "tell_src", "find_dst", "tell_dst", "mark"}

\* What udp_loop has found of the pair, and whom it has told.  A mapping that
\* it has not looked up yet may meanwhile be gone.
LoopInv ==
  /\ fwd.at = "src_tcp" =>
       \E p, q \in Tcp : /\ Paired(p, q)
                         /\ udp_to_tcp[fwd.src] \in {p, None}
                         /\ udp_to_tcp[fwd.dst] \in {q, None}
  /\ fwd.at = "dst_tcp" =>
       \E p, q \in Tcp : /\ Paired(p, q)
                         /\ fwd.src_tcp \in {p, None}
                         /\ udp_to_tcp[fwd.dst] \in {q, None}
  /\ fwd.at \in LookedUp => Paired(fwd.src_tcp, fwd.dst_tcp)
  /\ fwd.at \in LookedUp \ {"session"} => fwd.id = asked[fwd.src_tcp]
  /\ fwd.at \in LookedUp /\ ~Deserted(asked[fwd.src_tcp]) =>
       /\ fwd.at = "tell_src" => fwd.tx = fwd.dst_tcp
       /\ fwd.at \in {"find_dst", "tell_dst", "mark"} => Told(fwd.dst_tcp)
       /\ fwd.at = "tell_dst" => fwd.tx = fwd.src_tcp
       /\ fwd.at = "mark" => Told(fwd.src_tcp)

TellInv == Departing /\ NoGhost /\ LoopInv /\ NotifiedMeansTold

LEMMA HandlerPaired ==
  ASSUME LeavesBeforeJoin, JoinsOnce, None \notin Line, "tcp" \notin Faults, Departing,
         NEW t \in Tcp, Handler(t), NEW p, NEW q, Paired(p, q)
  PROVE  /\ Paired(p, q)' /\ asked'[p] = asked[p]
         /\ ~Deserted(asked[p])' => /\ ~Deserted(asked[p])
                                    /\ Told(p) => Told(p)'
                                    /\ Told(q) => Told(q)'
<1>1. /\ \A r \in Tcp : asked[r] # None => asked'[r] = asked[r]
      /\ hungup' = hungup
  BY AskedForGood DEF Departing, Handler
<1>2. p \in Tcp /\ q \in Tcp /\ asked'[p] = asked[p] /\ asked'[q] = asked[q]
  BY <1>1 DEF Paired
<1>3. Deserted(asked[p]) => Deserted(asked[p])'
  <2> SUFFICES ASSUME Deserted(asked[p]) PROVE \E r \in Tcp : r \in hungup' /\ asked'[r] = asked'[p]
    BY DEF Deserted
  <2> QED BY <1>1, <1>2 DEF Deserted, Paired
<1>4. ASSUME ~Deserted(asked[p])
      PROVE  /\ client_sessions'[p] = asked[p] /\ client_sessions'[q] = asked[p]
             /\ Told(p) => Told(p)'
             /\ Told(q) => Told(q)'
  <2>1. /\ client_sessions[p] = asked[p] /\ client_sessions[q] = asked[p]
        /\ asked[p] # None
    BY <1>4 DEF Paired
  <2>2. ~Deserted(client_sessions[p]) /\ ~Deserted(client_sessions[q])
    BY <1>4, <2>1
  <2> QED BY <1>2, <2>1, <2>2, HandlerTold
<1> QED BY <1>2, <1>3, <1>4 DEF Paired

\* A task takes mappings away, it makes none.
LEMMA HandlerMappings ==
  ASSUME ServerInv, NEW t \in Tcp, Handler(t), NEW u \in Udp
  PROVE  udp_to_tcp'[u] \in {udp_to_tcp[u], None}
<1>1. CASE RemoveLeft(t) \/ RemoveEof(t)
  BY <1>1 DEF RemoveLeft, RemoveEof, RemoveClient, registry
<1>2. CASE Join(t)
  BY <1>2 DEF Join, AddClient, registry
<1>3. CASE ~(RemoveLeft(t) \/ RemoveEof(t) \/ Join(t))
  BY <1>3 DEF Handler, HandlerStep, HandlerInput, Accept, ReadJoin, ReadLeave, ReadEof,
     ReadError, WriteError, Abort, NotifyLeft, Reply, Notify, EnsureSession, registry
<1> QED BY <1>1, <1>2, <1>3

LEMMA HandlerLoop ==
  ASSUME LeavesBeforeJoin, JoinsOnce, None \notin Line, "tcp" \notin Faults, TellInv,
         NEW t \in Tcp, Handler(t)
  PROVE  LoopInv'
<1> USE DEF TellInv, Departing
<1>1. fwd' = fwd
  BY DEF Handler
<1>2. CASE fwd.at \in {"src_tcp", "dst_tcp"}
  <2>1. fwd.src \in Udp /\ fwd.dst \in Udp
    BY <1>2 DEF ServerInv, LocalsBound, At
  <2>2. /\ udp_to_tcp'[fwd.src] \in {udp_to_tcp[fwd.src], None}
        /\ udp_to_tcp'[fwd.dst] \in {udp_to_tcp[fwd.dst], None}
    BY <2>1, HandlerMappings
  <2>3. CASE fwd.at = "src_tcp"
    <3>1. PICK p \in Tcp, q \in Tcp : /\ Paired(p, q)
                                      /\ udp_to_tcp[fwd.src] \in {p, None}
                                      /\ udp_to_tcp[fwd.dst] \in {q, None}
      BY <2>3 DEF LoopInv
    <3>2. Paired(p, q)'
      BY <3>1, HandlerPaired
    <3> QED BY <1>1, <2>2, <2>3, <3>1, <3>2 DEF LoopInv, LookedUp
  <2>4. CASE fwd.at = "dst_tcp"
    <3>1. PICK p \in Tcp, q \in Tcp : /\ Paired(p, q)
                                      /\ fwd.src_tcp \in {p, None}
                                      /\ udp_to_tcp[fwd.dst] \in {q, None}
      BY <2>4 DEF LoopInv
    <3>2. Paired(p, q)'
      BY <3>1, HandlerPaired
    <3> QED BY <1>1, <2>2, <2>4, <3>1, <3>2 DEF LoopInv, LookedUp
  <2> QED BY <1>2, <2>3, <2>4
<1>3. CASE fwd.at \in LookedUp
  <2>1. PICK p \in Tcp, q \in Tcp :
          p = fwd.src_tcp /\ q = fwd.dst_tcp /\ Paired(p, q)
    BY <1>3 DEF LoopInv, Paired
  <2>2. /\ Paired(p, q)' /\ asked'[p] = asked[p]
        /\ ~Deserted(asked[p])' => /\ ~Deserted(asked[p])
                                   /\ Told(p) => Told(p)'
                                   /\ Told(q) => Told(q)'
    BY <2>1, HandlerPaired
  <2>3. fwd.at \notin {"src_tcp", "dst_tcp"}
    BY <1>3 DEF LookedUp
  <2>4. /\ fwd'.src_tcp = p /\ fwd'.dst_tcp = q
        /\ Deserted(asked[fwd.src_tcp])' <=> Deserted(asked[p])'
        /\ Told(fwd.dst_tcp)' <=> Told(q)'
        /\ Told(fwd.src_tcp)' <=> Told(p)'
        /\ Paired(fwd.src_tcp, fwd.dst_tcp)' <=> Paired(p, q)'
    BY <1>1, <2>1
  <2> QED BY <1>1, <1>3, <2>1, <2>2, <2>3, <2>4 DEF LoopInv
<1>4. CASE fwd.at \notin LookedUp \cup {"src_tcp", "dst_tcp"}
  BY <1>1, <1>4 DEF LoopInv
<1> QED BY <1>2, <1>3, <1>4

LEMMA HandlerNotified ==
  ASSUME LeavesBeforeJoin, JoinsOnce, None \notin Line, "tcp" \notin Faults, TellInv,
         NEW t \in Tcp, Handler(t)
  PROVE  NotifiedMeansTold'
<1> USE DEF TellInv, Departing
<1> SUFFICES ASSUME NEW id \in SessionIds, IsConnected(id)',
                    \A r \in hungup' : asked'[r] # id
             PROVE  /\ ~HasOpenSlot(sessions'[id])
                    /\ \A q \in SeatsOf(id)' : Told(q)'
  BY DEF NotifiedMeansTold, HasOpenSlot
<1>1. /\ \A r \in Tcp : asked[r] # None => asked'[r] = asked[r]
      /\ hungup' = hungup /\ hungup \subseteq Tcp /\ id # None
  BY AskedForGood, AddressAssumption DEF Handler, ServerInv, SfuTypeOK
<1>2. \A r \in hungup : asked[r] # id
  BY <1>1
<1>3. IsConnected(id) /\ (~HasOpenSlot(sessions[id]) => sessions'[id] = sessions[id])
  BY HandlerSession
<1>4. ~HasOpenSlot(sessions[id]) /\ \A q \in SeatsOf(id) : Told(q)
  BY <1>2, <1>3 DEF NotifiedMeansTold
<1>5. ASSUME NEW q \in SeatsOf(id) PROVE Told(q)'
  <2>1. q \in Tcp /\ client_sessions[q] = id
    BY <1>3 DEF SfuInv, SeatsAgree, SeatsOf, IsConnected, AnyInv, TypeOK, Session, Seat
  <2>2. ~Deserted(id)
    BY <1>2 DEF Deserted
  <2> QED BY <1>1, <1>4, <2>1, <2>2, HandlerTold
<1> QED BY <1>3, <1>4, <1>5 DEF SeatsOf

\* udp_loop moves no client; who has been told stays told.
LEMMA ForwarderKeeps ==
  ASSUME ServerInv, SfuInv, ForwarderStep \/ \E u \in Udp : Receive(u)
  PROVE  /\ UNCHANGED <<client_sessions, pc, asked, line, hungup>>
         /\ \A q \in Tcp : Told(q) => Told(q)'
<1>1. UNCHANGED <<client_sessions, pc, asked, line, hungup>>
  BY ForwarderMembers DEF ForwarderStep, Receive
<1>2. \A q \in Tcp : Has(mailbox[q], "Connect") => Has(mailbox'[q], "Connect")
  BY ForwarderBoxes
<1> QED BY <1>1, <1>2 DEF Told, Has

LEMMA PairedUnmoved ==
  ASSUME UNCHANGED <<client_sessions, asked, hungup>>, NEW p, NEW q
  PROVE  /\ Paired(p, q)' <=> Paired(p, q)
         /\ Deserted(asked[p])' <=> Deserted(asked[p])
  BY DEF Paired, Deserted

\* The notification of one client of a pair: it is told.
LEMMA TellTells ==
  ASSUME ServerInv, NoGhost, NEW here, NEW next, TellTarget(here, next),
         NEW q \in Tcp, fwd.tx = q, client_sessions[q] # None
  PROVE  Told(q)'
<1>1. pc[q] # "ended" /\ q # None
  BY AddressAssumption DEF NoGhost
<1>2. mailbox \in [Tcp -> Seq(Message)] /\ fwd.tx \in Seat
  BY DEF ServerInv, SfuTypeOK, Forwarder
<1>3. Has(mailbox'[q], "Connect")
  BY <1>1, <1>2, BoxAfterDeliver DEF TellTarget, Message
<1> QED BY <1>3 DEF Told, Has

LEMMA ForwarderLoopPair ==
  ASSUME TellInv, ForwarderStep, fwd.at \in LookedUp
  PROVE  LoopInv'
<1> USE DEF TellInv, Departing
<1>1. PICK p \in Tcp, q \in Tcp :
        p = fwd.src_tcp /\ q = fwd.dst_tcp /\ Paired(p, q)
  BY DEF LoopInv, Paired
<1>2. /\ UNCHANGED <<client_sessions, pc, asked, line, hungup>>
      /\ Told(p) => Told(p)'
      /\ Told(q) => Told(q)'
  BY ForwarderKeeps
<1>3. Paired(p, q)' /\ (Deserted(asked[p])' <=> Deserted(asked[p]))
  BY <1>1, <1>2, PairedUnmoved
<1>4. ~Deserted(asked[p]) =>
        /\ client_sessions[p] # None /\ client_sessions[q] # None
        /\ NotifyTarget(p) = q /\ NotifyTarget(q) = p
  BY <1>1, TwoFill DEF Paired
<1>5. fwd \in Forwarder
  BY DEF ServerInv, SfuTypeOK
\* What LoopInv says after a step that leaves the pair in hand.
<1>6. ASSUME fwd'.src_tcp = p, fwd'.dst_tcp = q, fwd'.at \in LookedUp,
             fwd'.at # "session" => fwd'.id = asked[p],
             ~Deserted(asked[p]) =>
               /\ fwd'.at = "tell_src" => fwd'.tx = q
               /\ fwd'.at \in {"find_dst", "tell_dst", "mark"} => Told(q)'
               /\ fwd'.at = "tell_dst" => fwd'.tx = p
               /\ fwd'.at = "mark" => Told(p)'
      PROVE  LoopInv'
  <2>1. /\ Deserted(asked[fwd.src_tcp])' <=> Deserted(asked[p])
        /\ Told(fwd.dst_tcp)' <=> Told(q)'
        /\ Told(fwd.src_tcp)' <=> Told(p)'
        /\ Paired(fwd.src_tcp, fwd.dst_tcp)' <=> Paired(p, q)'
        /\ asked'[p] = asked[p]
    BY <1>2, <1>3, <1>6
  <2>2. fwd'.at \notin {"src_tcp", "dst_tcp"}
    BY <1>6 DEF LookedUp
  <2> QED BY <1>3, <1>6, <2>1, <2>2 DEF LoopInv
<1>7. ASSUME fwd'.at \notin LookedUp \cup {"src_tcp", "dst_tcp"}
      PROVE  LoopInv'
  BY <1>7 DEF LoopInv
<1>8. Sending.at = "send" /\ Receiving.at = "recv"
  BY DEF Sending, Receiving
<1>9. CASE FindSession
  <2>1. CASE client_sessions[q] = None
    BY <1>1, <1>7, <1>8, <1>9, <2>1 DEF FindSession, LookedUp
  <2>2. CASE client_sessions[q] # None
    <3>1. /\ fwd'.src_tcp = p /\ fwd'.dst_tcp = q /\ fwd'.at = "connected"
          /\ fwd'.id = client_sessions[q]
      BY <1>1, <1>5, <1>9, <2>2 DEF FindSession, Forwarder
    <3>2. client_sessions[q] = asked[p]
      BY <1>1, <2>2 DEF AskedInv, Paired
    <3> QED BY <1>6, <3>1, <3>2 DEF LookedUp
  <2> QED BY <2>1, <2>2
<1>10. CASE CheckConnected
  <2>1. fwd.id = asked[p] /\ fwd.at = "connected"
    BY <1>1, <1>10 DEF LoopInv, CheckConnected, At, LookedUp
  <2>2. CASE IsConnected(fwd.id)
    BY <1>7, <1>8, <1>10, <2>2 DEF CheckConnected, LookedUp
  <2>3. CASE ~IsConnected(fwd.id)
    <3>1. /\ fwd'.src_tcp = p /\ fwd'.dst_tcp = q /\ fwd'.at = "find_src"
          /\ fwd'.id = fwd.id
      BY <1>1, <1>5, <1>10, <2>3 DEF CheckConnected, Forwarder
    <3> QED BY <1>6, <2>1, <3>1 DEF LookedUp
  <2> QED BY <2>2, <2>3
<1>11. CASE NotifySrc
  <2>1. fwd.id = asked[p] /\ fwd.at \in {"find_src", "tell_src"}
    BY <1>1, <1>11 DEF LoopInv, NotifySrc, FindTarget, TellTarget, At, LookedUp
  <2>2. CASE FindTarget("find_src", "tell_src", fwd.src_tcp)
    <3>1. /\ fwd'.src_tcp = p /\ fwd'.dst_tcp = q /\ fwd'.at = "tell_src"
          /\ fwd'.id = fwd.id /\ fwd'.tx = NotifyTarget(p)
      BY <1>1, <1>5, <2>2 DEF FindTarget, Forwarder
    <3> QED BY <1>4, <1>6, <2>1, <3>1 DEF LookedUp
  <2>3. CASE TellTarget("tell_src", "find_dst")
    <3>1. /\ fwd'.src_tcp = p /\ fwd'.dst_tcp = q /\ fwd'.at = "find_dst"
          /\ fwd'.id = fwd.id /\ fwd.at = "tell_src"
      BY <1>1, <1>5, <2>3 DEF TellTarget, Forwarder, At
    <3>2. ~Deserted(asked[p]) => Told(q)'
      <4> SUFFICES ASSUME ~Deserted(asked[p]) PROVE Told(q)'
        OBVIOUS
      <4>1. fwd.tx = q
        BY <1>1, <3>1 DEF LoopInv, LookedUp
      <4> QED BY <1>4, <2>3, <4>1, TellTells
    <3> QED BY <1>6, <2>1, <3>1, <3>2 DEF LookedUp
  <2> QED BY <1>11, <2>2, <2>3 DEF NotifySrc
<1>12. CASE NotifyDst
  <2>1. /\ fwd.id = asked[p] /\ fwd.at \in {"find_dst", "tell_dst"}
        /\ ~Deserted(asked[p]) => Told(q)'
    BY <1>1, <1>2, <1>12 DEF LoopInv, NotifyDst, FindTarget, TellTarget, At, LookedUp
  <2>2. CASE FindTarget("find_dst", "tell_dst", fwd.dst_tcp)
    <3>1. /\ fwd'.src_tcp = p /\ fwd'.dst_tcp = q /\ fwd'.at = "tell_dst"
          /\ fwd'.id = fwd.id /\ fwd'.tx = NotifyTarget(q)
      BY <1>1, <1>5, <2>2 DEF FindTarget, Forwarder
    <3> QED BY <1>4, <1>6, <2>1, <3>1 DEF LookedUp
  <2>3. CASE TellTarget("tell_dst", "mark")
    <3>1. /\ fwd'.src_tcp = p /\ fwd'.dst_tcp = q /\ fwd'.at = "mark"
          /\ fwd'.id = fwd.id /\ fwd.at = "tell_dst"
      BY <1>1, <1>5, <2>3 DEF TellTarget, Forwarder, At
    <3>2. ~Deserted(asked[p]) => Told(p)'
      <4> SUFFICES ASSUME ~Deserted(asked[p]) PROVE Told(p)'
        OBVIOUS
      <4>1. fwd.tx = p
        BY <1>1, <3>1 DEF LoopInv, LookedUp
      <4> QED BY <1>4, <2>3, <4>1, TellTells
    <3> QED BY <1>6, <2>1, <3>1, <3>2 DEF LookedUp
  <2> QED BY <1>12, <2>2, <2>3 DEF NotifyDst
<1>13. CASE Mark
  BY <1>7, <1>8, <1>13 DEF Mark, LookedUp
<1>14. CASE FindPeer \/ FindSrcTcp \/ FindDstTcp \/ Send
  BY <1>14 DEF FindPeer, FindSrcTcp, FindDstTcp, Send, At, LookedUp
<1> QED BY <1>9, <1>10, <1>11, <1>12, <1>13, <1>14 DEF ForwarderStep

LEMMA ForwarderLoop ==
  ASSUME TellInv, ForwarderStep \/ \E u \in Udp : Receive(u)
  PROVE  LoopInv'
<1> USE DEF TellInv, Departing
<1>1. UNCHANGED <<client_sessions, asked, hungup>>
  BY ForwarderKeeps
<1>2. /\ Sending.at = "send" /\ Receiving.at = "recv"
      /\ fwd \in Forwarder
  BY DEF Sending, Receiving, ServerInv, SfuTypeOK
<1>3. ASSUME NEW u \in Udp, Receive(u) PROVE LoopInv'
  <2>1. fwd'.at = "peer"
    BY <1>3 DEF Receive, Recv, Receiving
  <2> QED BY <2>1 DEF LoopInv, LookedUp
<1>4. CASE FindPeer
  <2>1. fwd.src \in Udp /\ UNCHANGED udp_to_tcp
    BY <1>4 DEF ServerInv, LocalsBound, FindPeer, At, registry
  <2>2. CASE PeerUdp(fwd.src) = None
    BY <1>2, <1>4, <2>2 DEF FindPeer, LoopInv, LookedUp
  <2>3. CASE PeerUdp(fwd.src) # None
    <3>1. PICK p \in Tcp, q \in Tcp :
            /\ p # q /\ udp_to_tcp[fwd.src] = p
            /\ OwnUdp(q) = PeerUdp(fwd.src) /\ PeerUdp(fwd.src) \in Udp
            /\ client_sessions[p] # None /\ client_sessions[p] = client_sessions[q]
      BY <2>1, <2>3, PeerFound
    <3>2. udp_to_tcp[PeerUdp(fwd.src)] = q
      BY <3>1 DEF SfuInv, PortsAgree
    <3>3. Paired(p, q)
      BY <3>1 DEF Paired, AskedInv
    <3>4. fwd'.at = "src_tcp" /\ fwd'.src = fwd.src /\ fwd'.dst = PeerUdp(fwd.src)
      BY <1>2, <1>4, <2>3 DEF FindPeer, Forwarder
    <3>5. /\ Paired(p, q)'
          /\ udp_to_tcp'[fwd'.src] \in {p, None} /\ udp_to_tcp'[fwd'.dst] \in {q, None}
      BY <1>1, <2>1, <3>1, <3>2, <3>3, <3>4, PairedUnmoved
    <3> QED BY <3>4, <3>5 DEF LoopInv, LookedUp
  <2> QED BY <2>2, <2>3
<1>5. CASE FindSrcTcp
  <2>1. fwd.at = "src_tcp" /\ UNCHANGED udp_to_tcp
    BY <1>5 DEF FindSrcTcp, At, registry
  <2>2. PICK p \in Tcp, q \in Tcp : /\ Paired(p, q)
                                    /\ udp_to_tcp[fwd.src] \in {p, None}
                                    /\ udp_to_tcp[fwd.dst] \in {q, None}
    BY <2>1 DEF LoopInv
  <2>3. /\ fwd'.at = "dst_tcp" /\ fwd'.dst = fwd.dst
        /\ fwd'.src_tcp = udp_to_tcp[fwd.src]
    BY <1>2, <1>5 DEF FindSrcTcp, Forwarder
  <2>4. Paired(p, q)'
    BY <1>1, <2>2, PairedUnmoved
  <2> QED BY <2>1, <2>2, <2>3, <2>4 DEF LoopInv, LookedUp
<1>6. CASE FindDstTcp
  <2>1. fwd.at = "dst_tcp"
    BY <1>6 DEF FindDstTcp, At
  <2>2. PICK p \in Tcp, q \in Tcp : /\ Paired(p, q)
                                    /\ fwd.src_tcp \in {p, None}
                                    /\ udp_to_tcp[fwd.dst] \in {q, None}
    BY <2>1 DEF LoopInv
  <2>3. CASE fwd.src_tcp = None \/ udp_to_tcp[fwd.dst] = None
    BY <1>2, <1>6, <2>3 DEF FindDstTcp, LoopInv, LookedUp
  <2>4. CASE ~(fwd.src_tcp = None \/ udp_to_tcp[fwd.dst] = None)
    <3>1. fwd'.at = "session" /\ fwd'.src_tcp = p /\ fwd'.dst_tcp = q
      BY <1>2, <1>6, <2>2, <2>4 DEF FindDstTcp, Forwarder
    <3>2. Paired(p, q)'
      BY <1>1, <2>2, PairedUnmoved
    <3>3. Paired(fwd.src_tcp, fwd.dst_tcp)'
      BY <3>1, <3>2
    <3> QED BY <3>1, <3>3 DEF LoopInv, LookedUp
  <2> QED BY <2>3, <2>4
<1>7. CASE Send
  BY <1>2, <1>7 DEF Send, LoopInv, LookedUp
<1>8. CASE FindSession \/ CheckConnected \/ NotifySrc \/ NotifyDst \/ Mark
  <2>1. fwd.at \in LookedUp /\ ForwarderStep
    BY <1>8, <1>3 DEF FindSession, CheckConnected, NotifySrc, NotifyDst, FindTarget,
       TellTarget, Mark, At, LookedUp, Receive, Recv
  <2> QED BY <2>1, ForwarderLoopPair
<1> QED BY <1>3, <1>4, <1>5, <1>6, <1>7, <1>8 DEF ForwarderStep

\* The registration of a port leaves the clients and the mark of a session.
LEMMA MapKeepsSession ==
  ASSUME TypeOK, NEW u \in Udp, MapUdpToTcp(u), NEW id \in SessionIds,
         sessions'[id] # None
  PROVE  /\ sessions[id] # None
         /\ sessions'[id].client_a = sessions[id].client_a
         /\ sessions'[id].client_b = sessions[id].client_b
         /\ sessions'[id].connected_notified = sessions[id].connected_notified
<1>1. CASE UNCHANGED sessions
  BY <1>1
<1>2. ASSUME NEW t \in Candidates(u),
             sessions' = [sessions EXCEPT ![client_sessions[t]] = WithUdp(@, t, u)]
      PROVE  /\ sessions[id] # None
             /\ sessions'[id].client_a = sessions[id].client_a
             /\ sessions'[id].client_b = sessions[id].client_b
             /\ sessions'[id].connected_notified = sessions[id].connected_notified
  <2>1. /\ t \in Tcp /\ client_sessions[t] \in SessionIds
        /\ sessions[client_sessions[t]] \in Session /\ sessions[client_sessions[t]] # None
    BY AddressAssumption DEF TypeOK, Candidates, Unregistered
  <2>2. CASE client_sessions[t] = id
    <3>1. sessions'[id] = WithUdp(sessions[id], t, u)
      BY <1>2, <2>2 DEF TypeOK
    <3> QED BY <2>1, <2>2, <3>1 DEF WithUdp, Session
  <2>3. CASE client_sessions[t] # id
    BY <1>2, <2>1, <2>3 DEF TypeOK
  <2> QED BY <2>2, <2>3
<1> QED BY <1>1, <1>2 DEF MapUdpToTcp, registry

LEMMA ForwarderNotified ==
  ASSUME TellInv, ForwarderStep \/ \E u \in Udp : Receive(u)
  PROVE  NotifiedMeansTold'
<1> USE DEF TellInv, Departing
<1>1. /\ UNCHANGED <<client_sessions, asked, hungup>>
      /\ \A q \in Tcp : Told(q) => Told(q)'
      /\ TypeOK
  BY ForwarderKeeps DEF ServerInv, SfuTypeOK
<1> SUFFICES ASSUME NEW id \in SessionIds, IsConnected(id)', \A r \in hungup : asked[r] # id
             PROVE  /\ ~HasOpenSlot(sessions'[id])
                    /\ \A q \in SeatsOf(id)' : Told(q)'
  BY <1>1 DEF NotifiedMeansTold, HasOpenSlot
\* A session that was marked before and keeps its clients.
<1>2. ASSUME IsConnected(id),
             sessions'[id].client_a = sessions[id].client_a,
             sessions'[id].client_b = sessions[id].client_b
      PROVE  ~HasOpenSlot(sessions'[id]) /\ \A q \in SeatsOf(id)' : Told(q)'
  <2>1. ~HasOpenSlot(sessions[id]) /\ \A q \in SeatsOf(id) : Told(q)
    BY <1>2 DEF NotifiedMeansTold
  <2>2. SeatsOf(id) \subseteq Tcp
    BY <1>1, <1>2 DEF SeatsOf, IsConnected, TypeOK, Session, Seat
  <2>3. SeatsOf(id)' = SeatsOf(id)
    BY <1>2 DEF SeatsOf
  <2> QED BY <1>1, <1>2, <2>1, <2>2, <2>3 DEF HasOpenSlot
<1>3. ASSUME NEW u \in Udp, Receive(u)
      PROVE  ~HasOpenSlot(sessions'[id]) /\ \A q \in SeatsOf(id)' : Told(q)'
  BY <1>1, <1>2, <1>3, MapKeepsSession DEF Receive, Recv, IsConnected
<1>4. CASE Mark
  <2>1. fwd.at = "mark" /\ fwd.id \in SessionIds /\ MarkConnected(fwd.id)
    BY <1>4 DEF Mark, At, ServerInv, LocalsBound
  <2>2. CASE fwd.id = id
    <3>1. PICK p \in Tcp, q \in Tcp :
            /\ p = fwd.src_tcp /\ q = fwd.dst_tcp /\ Paired(p, q) /\ asked[p] = id
      BY <2>1, <2>2 DEF LoopInv, LookedUp, Paired
    <3>2. ~Deserted(asked[p])
      BY <3>1 DEF Deserted
    <3>3. Told(p) /\ Told(q)
      BY <2>1, <3>1, <3>2 DEF LoopInv, LookedUp
    <3>4. /\ sessions[id] # None /\ ~HasOpenSlot(sessions[id]) /\ SeatsOf(id) = {p, q}
      BY <3>1, <3>2, TwoFill DEF Paired
    <3>5. /\ sessions'[id].client_a = sessions[id].client_a
          /\ sessions'[id].client_b = sessions[id].client_b
      BY <1>1, <2>1, <2>2, <3>4 DEF MarkConnected, TypeOK, Session
    <3> QED BY <1>1, <3>1, <3>3, <3>4, <3>5 DEF HasOpenSlot, SeatsOf
  <2>3. CASE fwd.id # id
    <3>1. sessions'[id] = sessions[id]
      BY <1>1, <2>1, <2>3 DEF MarkConnected, TypeOK
    <3> QED BY <1>2, <3>1 DEF IsConnected
  <2> QED BY <2>2, <2>3
<1>5. CASE ForwarderStep /\ ~Mark
  <2>1. UNCHANGED sessions
    BY <1>5 DEF ForwarderStep, FindPeer, FindSrcTcp, FindDstTcp, FindSession,
       CheckConnected, NotifySrc, NotifyDst, FindTarget, TellTarget, Send, registry
  <2> QED BY <1>2, <2>1 DEF IsConnected
<1> QED BY <1>3, <1>4, <1>5

\* The flag connected_notified, which keeps udp_loop from telling a pair
\* twice, is set only after both have been told, and stays true of the pair
\* as long as nobody who asked for the session has hung up and no connection
\* breaks.
THEOREM SfuNotifiedMeansTold ==
  ASSUME LeavesBeforeJoin, JoinsOnce, None \notin Line, "tcp" \notin Faults
  PROVE  Spec => []NotifiedMeansTold
<1>1. Init => LoopInv /\ NotifiedMeansTold
  BY DEF Init, RegistryInit, Receiving, LoopInv, LookedUp, NotifiedMeansTold, IsConnected
<1>2. Departing /\ NoGhost /\ LoopInv /\ NotifiedMeansTold /\ [Next]_vars
        => LoopInv' /\ NotifiedMeansTold'
  <2> SUFFICES ASSUME TellInv, [Next]_vars
               PROVE  LoopInv' /\ NotifiedMeansTold'
    BY DEF TellInv
  <2>1. ASSUME NEW t \in Tcp, Handler(t) PROVE LoopInv' /\ NotifiedMeansTold'
    BY <2>1, HandlerLoop, HandlerNotified
  <2>2. CASE ForwarderStep \/ \E u \in Udp : Receive(u)
    BY <2>2, ForwarderLoop, ForwarderNotified
  <2>3. CASE UNCHANGED <<registry, control, fwd>> /\ hungup \subseteq hungup'
    <3>1. \A q : Told(q)' <=> Told(q)
      BY <2>3 DEF control, Told
    <3>2. \A id : Deserted(id) => Deserted(id)'
      BY <2>3 DEF control, Deserted
    <3>3. \A p, q : Paired(p, q) => Paired(p, q)'
      BY <2>3, <3>2 DEF registry, control, Paired
    <3>4. LoopInv'
      <4>1. /\ UNCHANGED <<fwd, udp_to_tcp, asked>>
            /\ Told(fwd.src_tcp)' <=> Told(fwd.src_tcp)
            /\ Told(fwd.dst_tcp)' <=> Told(fwd.dst_tcp)
            /\ Deserted(asked[fwd.src_tcp]) => Deserted(asked[fwd.src_tcp])'
            /\ Paired(fwd.src_tcp, fwd.dst_tcp) => Paired(fwd.src_tcp, fwd.dst_tcp)'
        BY <2>3, <3>1, <3>2, <3>3 DEF registry, control
      <4> QED BY <3>3, <4>1 DEF TellInv, LoopInv
    <3>5. NotifiedMeansTold'
      BY <2>3, <3>1 DEF TellInv, NotifiedMeansTold, registry, control, IsConnected,
                        SeatsOf, HasOpenSlot
    <3> QED BY <3>4, <3>5
  <2>4. CASE \/ \E t \in Tcp : HangUp(t) \/ Ping(t) \/ SendFrame(t)
             \/ \E u \in Udp : Lose(u)
             \/ UNCHANGED vars
    BY <2>3, <2>4 DEF HangUp, Ping, SendFrame, Lose, vars
  <2> QED BY <2>1, <2>2, <2>4 DEF Next
<1> QED BY <1>1, <1>2, DepartInvariant, SfuNoGhost, PTL DEF Spec

-----------------------------------------------------------------------------
(* No pair is forgotten.                                                   *)

\* Both addresses of a session are known, and its clients need telling.
Untold(id) ==
  /\ sessions[id] # None
  /\ sessions[id].udp_a # None /\ sessions[id].udp_b # None
  /\ ~sessions[id].connected_notified
  /\ ~Deserted(id)

In(t, id) == t # None /\ client_sessions[t] = id

\* udp_loop is on its way to tell them: nothing that it finds will stop it.
Telling(id) ==
  /\ fwd.at \notin {"recv", "send"}
  /\ fwd.at \in {"peer", "src_tcp"} => In(udp_to_tcp[fwd.src], id)
  /\ fwd.at = "dst_tcp" => In(fwd.src_tcp, id)
  /\ fwd.at \in {"src_tcp", "dst_tcp"} => In(udp_to_tcp[fwd.dst], id)
  /\ fwd.at = "session" => In(fwd.dst_tcp, id)
  /\ fwd.at \in LookedUp \ {"session"} => fwd.id = id

UntoldInv == \A id \in SessionIds : Untold(id) => Telling(id)

LEMMA InitUntold == Init => UntoldInv
  BY DEF Init, RegistryInit, UntoldInv, Untold

\* A session whose clients need telling after the step of a task needed it
\* before: tasks make no address known and take no mark away but with a client
\* that deserts its session.
LEMMA HandlerUntold ==
  ASSUME LeavesBeforeJoin, JoinsOnce, Departing, NEW t \in Tcp, Handler(t),
         NEW id \in SessionIds, Untold(id)'
  PROVE  Untold(id)
<1> USE DEF Departing
<1>1. /\ \A q \in Tcp : asked[q] # None => asked'[q] = asked[q]
      /\ hungup' = hungup /\ id # None
      /\ sessions \in [SessionIds -> Session \cup {None}]
  BY AskedForGood, AddressAssumption DEF Handler, ServerInv, SfuTypeOK, TypeOK
<1>2. ~Deserted(id)
  BY <1>1, DesertedForGood DEF Untold
<1>3. CASE sessions'[id] = sessions[id]
  BY <1>2, <1>3 DEF Untold
<1>4. ASSUME NEW i \in SessionIds, ReadJoin(t, i), sessions'[id] # sessions[id]
      PROVE  FALSE
  <2>1. sessions'[id] = NewSession
    BY <1>1, <1>4 DEF ReadJoin, EnsureSession
  <2> QED BY <2>1 DEF NewSession, Untold
<1>5. CASE Join(t) /\ sessions'[id] # sessions[id]
  <2>1. asked[t] \in SessionIds
    BY <1>5 DEF ServerInv, JoinsUnseated, Join, Goto
  <2>2. CanAdd(id) /\ sessions'[id] = Seated(sessions[id], t)
    BY <1>1, <1>5, <2>1 DEF Join, AddClient, registry
  <2>3. sessions[id] \in Session /\ sessions[id] # None
    BY <1>1, <2>2 DEF CanAdd
  <2>4. /\ Seated(sessions[id], t).udp_a = sessions[id].udp_a
        /\ Seated(sessions[id], t).udp_b = sessions[id].udp_b
        /\ Seated(sessions[id], t).connected_notified = sessions[id].connected_notified
    BY <2>3 DEF Seated, Session
  <2> QED BY <1>2, <2>2, <2>3, <2>4 DEF Untold
<1>6. CASE (RemoveLeft(t) \/ RemoveEof(t)) /\ sessions'[id] # sessions[id]
  <2>1. client_sessions[t] = id
    BY <1>1, <1>6 DEF RemoveLeft, RemoveEof, RemoveClient, registry
  <2>2. asked[t] = id
    BY <1>1, <2>1 DEF AskedInv
  <2>3. t \in hungup
    BY <1>1, <1>6, <2>2 DEF RemoveLeft, RemoveEof, Goto, DepartInv
  <2> QED BY <1>2, <2>2, <2>3 DEF Deserted
<1>7. CASE ~(\/ Join(t) \/ RemoveLeft(t) \/ RemoveEof(t)
             \/ \E i \in SessionIds : ReadJoin(t, i))
  <2>1. UNCHANGED sessions
    BY <1>7 DEF Handler, HandlerStep, HandlerInput, Accept, ReadLeave, ReadEof, ReadError,
       WriteError, Abort, NotifyLeft, Reply, Notify, registry
  <2> QED BY <1>3, <2>1
<1> QED BY <1>3, <1>4, <1>5, <1>6, <1>7

\* Who is in a session that nobody has deserted stays there and keeps its
\* address.
LEMMA HandlerIn ==
  ASSUME LeavesBeforeJoin, JoinsOnce, None \notin Line, "tcp" \notin Faults, Departing,
         NEW t \in Tcp, Handler(t), NEW id \in SessionIds, ~Deserted(id)
  PROVE  /\ \A q \in Tcp : In(q, id) => In(q, id)'
         /\ \A u \in Udp : In(udp_to_tcp[u], id) => In(udp_to_tcp[u], id)'
<1> USE DEF Departing
<1>1. id # None
  BY AddressAssumption
<1>2. \A q \in Tcp : client_sessions[q] = id => client_sessions'[q] = id
  BY <1>1, HandlerTold
<1>3. ASSUME NEW u \in Udp, In(udp_to_tcp[u], id) PROVE udp_to_tcp'[u] = udp_to_tcp[u]
  <2>1. udp_to_tcp[u] \in Tcp /\ client_sessions[udp_to_tcp[u]] = id
    BY <1>3 DEF In, ServerInv, SfuTypeOK, TypeOK
  <2>2. CASE RemoveLeft(t) \/ RemoveEof(t)
    <3>1. udp_to_tcp[u] # t
      <4>1. ASSUME client_sessions[t] = id PROVE FALSE
        <5>1. asked[t] = id
          BY <1>1, <4>1 DEF AskedInv
        <5>2. t \in hungup
          BY <1>1, <2>2, <5>1 DEF RemoveLeft, RemoveEof, Goto, DepartInv
        <5> QED BY <5>1, <5>2 DEF Deserted
      <4> QED BY <2>1, <4>1
    <3> QED BY <2>1, <2>2, <3>1 DEF RemoveLeft, RemoveEof, RemoveClient, registry
  <2>3. CASE ~(RemoveLeft(t) \/ RemoveEof(t))
    BY <2>3 DEF Handler, HandlerStep, HandlerInput, Accept, ReadJoin, Join, ReadLeave, ReadEof,
       ReadError, WriteError, Abort, NotifyLeft, Reply, Notify, EnsureSession, AddClient,
       registry
  <2> QED BY <2>2, <2>3
<1>4. ASSUME NEW u \in Udp, In(udp_to_tcp[u], id) PROVE In(udp_to_tcp[u], id)'
  <2>1. udp_to_tcp[u] \in Tcp /\ client_sessions[udp_to_tcp[u]] = id
    BY <1>4 DEF In, ServerInv, SfuTypeOK, TypeOK
  <2> QED BY <1>2, <1>3, <1>4, <2>1 DEF In
<1> QED BY <1>2, <1>4 DEF In

LEMMA HandlerTelling ==
  ASSUME LeavesBeforeJoin, JoinsOnce, None \notin Line, "tcp" \notin Faults, Departing,
         UntoldInv, NEW t \in Tcp, Handler(t)
  PROVE  UntoldInv'
<1> SUFFICES ASSUME NEW id \in SessionIds, Untold(id)' PROVE Telling(id)'
  BY DEF UntoldInv
<1>1. Untold(id) /\ Telling(id) /\ fwd' = fwd
  BY HandlerUntold DEF UntoldInv, Handler
<1>2. ServerInv /\ ~Deserted(id)
  BY <1>1 DEF Untold, Departing
<1>3. /\ \A q \in Tcp : In(q, id) => In(q, id)'
      /\ \A u \in Udp : In(udp_to_tcp[u], id) => In(udp_to_tcp[u], id)'
  BY <1>2, HandlerIn
<1>4. /\ fwd.at # "recv" => fwd.src \in Udp
      /\ fwd.at \in {"src_tcp", "dst_tcp"} => fwd.dst \in Udp
      /\ fwd.at = "session" => fwd.dst_tcp \in Tcp
      /\ fwd.at = "dst_tcp" /\ In(fwd.src_tcp, id) => fwd.src_tcp \in Tcp
  BY <1>2 DEF ServerInv, LocalsBound, At, SfuTypeOK, Forwarder, Seat, In
<1> QED BY <1>1, <1>3, <1>4 DEF Telling, In

\* Both addresses of the session known, get_peer_udp finds for the one client
\* the address of the other, and it is mapped.
LEMMA UntoldPeer ==
  ASSUME ServerInv, SfuInv, NEW id \in SessionIds, Untold(id),
         NEW u \in Udp, In(udp_to_tcp[u], id)
  PROVE  /\ PeerUdp(u) # None /\ PeerUdp(u) \in Udp
         /\ In(udp_to_tcp[PeerUdp(u)], id)
<1> DEFINE p == udp_to_tcp[u]
           s == sessions[id]
<1>1. /\ p \in Tcp /\ p # None /\ client_sessions[p] = id /\ id # None
      /\ s \in Session /\ s # None
  BY AddressAssumption DEF In, Untold, ServerInv, SfuTypeOK, TypeOK
<1>2. s.client_a = p \/ s.client_b = p
  BY <1>1 DEF SfuInv, AnyInv, MembersSeated, SeatsOf
<1>3. PeerUdp(u) = PeerUdpIn(s, p)
  BY <1>1 DEF PeerUdp, PeerUdpFromTcp
<1>4. PeerUdp(u) # None
  BY <1>2, <1>3 DEF PeerUdpIn, Untold
<1>5. PICK q \in Tcp : /\ OwnUdp(q) = PeerUdp(u) /\ PeerUdp(u) \in Udp
                       /\ client_sessions[q] = id
  BY <1>1, <1>4, PeerFound
<1>6. udp_to_tcp[PeerUdp(u)] = q /\ q # None
  BY <1>5, AddressAssumption DEF SfuInv, PortsAgree
<1> QED BY <1>4, <1>5, <1>6 DEF In

\* The registration of an address is by the datagram that udp_loop holds.
LEMMA ReceiveTelling ==
  ASSUME ServerInv, SfuInv, UntoldInv, NEW u \in Udp, Receive(u)
  PROVE  UntoldInv'
<1> SUFFICES ASSUME NEW id \in SessionIds, Untold(id)' PROVE Telling(id)'
  BY DEF UntoldInv
<1>1. UNCHANGED <<client_sessions, asked, hungup>>
  BY ForwarderKeeps
<1>2. /\ MapUdpToTcp(u) /\ fwd.at = "recv" /\ fwd \in Forwarder
      /\ fwd'.at = "peer" /\ fwd'.src = u
  BY DEF Receive, Recv, At, Receiving, ServerInv, SfuTypeOK
<1>3. sessions'[id] # sessions[id]
  <2>1. ~Untold(id)
    BY <1>2 DEF UntoldInv, Telling
  <2> QED BY <1>1, <2>1 DEF Untold, Deserted
<1>4. PICK t \in Candidates(u) :
        /\ sessions' = [sessions EXCEPT ![client_sessions[t]] = WithUdp(@, t, u)]
        /\ udp_to_tcp' = [udp_to_tcp EXCEPT ![u] = t]
  BY <1>2, <1>3 DEF MapUdpToTcp, registry
<1>5. client_sessions[t] = id
  BY <1>3, <1>4 DEF ServerInv, SfuTypeOK, TypeOK
<1>6. udp_to_tcp'[u] = t /\ t # None
  BY <1>4, AddressAssumption DEF Candidates, ServerInv, SfuTypeOK, TypeOK
<1>7. In(udp_to_tcp[u], id)'
  BY <1>1, <1>5, <1>6 DEF In
<1> QED BY <1>2, <1>7 DEF Telling, LookedUp

LEMMA MarkTelling ==
  ASSUME ServerInv, SfuInv, UntoldInv, Mark, UNCHANGED <<asked, hungup>>
  PROVE  UntoldInv'
<1> SUFFICES ASSUME NEW id \in SessionIds, Untold(id)' PROVE FALSE
  BY DEF UntoldInv
<1>1. /\ fwd.at = "mark" /\ fwd.id \in SessionIds /\ MarkConnected(fwd.id)
      /\ sessions \in [SessionIds -> Session \cup {None}]
  BY DEF Mark, At, ServerInv, LocalsBound, SfuTypeOK, TypeOK
<1>2. CASE fwd.id = id
  <2>1. sessions[id] # None /\ sessions[id] \in Session
    BY <1>1, <1>2 DEF MarkConnected, Untold
  <2>2. sessions'[id] = [sessions[id] EXCEPT !.connected_notified = TRUE]
    BY <1>1, <1>2, <2>1 DEF MarkConnected
  <2>3. sessions'[id].connected_notified = TRUE
    BY <2>1, <2>2 DEF Session
  <2> QED BY <2>3 DEF Untold
<1>3. CASE fwd.id # id
  <2>1. sessions'[id] = sessions[id]
    BY <1>1, <1>3 DEF MarkConnected
  <2>2. Untold(id)
    BY <2>1 DEF Untold, Deserted
  <2> QED BY <1>1, <1>3, <2>2 DEF UntoldInv, Telling, LookedUp
<1> QED BY <1>2, <1>3

LEMMA ForwarderTelling ==
  ASSUME ServerInv, SfuInv, UntoldInv, ForwarderStep
  PROVE  UntoldInv'
<1>1. CASE Mark
  BY <1>1, MarkTelling, ForwarderKeeps
<1>2. CASE ForwarderStep /\ ~Mark
  <2> SUFFICES ASSUME NEW id \in SessionIds, Untold(id)' PROVE Telling(id)'
    BY DEF UntoldInv
  <2>1. UNCHANGED <<registry, asked, hungup>>
    BY <1>2, ForwarderKeeps
       DEF ForwarderStep, FindPeer, FindSrcTcp, FindDstTcp, FindSession, CheckConnected,
           NotifySrc, NotifyDst, FindTarget, TellTarget, Send
  <2>2. UNCHANGED <<sessions, client_sessions, udp_to_tcp>>
    BY <2>1 DEF registry
  <2>3. Untold(id) /\ Telling(id)
    BY <2>1, <2>2 DEF Untold, Deserted, UntoldInv
  <2>4. /\ fwd \in Forwarder
        /\ \A t : In(t, id)' <=> In(t, id)
    BY <2>2 DEF ServerInv, SfuTypeOK, In
  <2>5. CASE FindPeer
    <3>1. fwd.at = "peer" /\ fwd.src \in Udp /\ In(udp_to_tcp[fwd.src], id)
      BY <2>3, <2>5 DEF FindPeer, At, ServerInv, LocalsBound, Telling
    <3>2. PeerUdp(fwd.src) # None /\ In(udp_to_tcp[PeerUdp(fwd.src)], id)
      BY <2>3, <3>1, UntoldPeer
    <3>3. fwd'.at = "src_tcp" /\ fwd'.src = fwd.src /\ fwd'.dst = PeerUdp(fwd.src)
      BY <2>4, <2>5, <3>2 DEF FindPeer, Forwarder
    <3>4. In(udp_to_tcp[fwd.src], id)' /\ In(udp_to_tcp[fwd.dst], id)'
      BY <2>2, <3>1, <3>2, <3>3 DEF In
    <3> QED BY <3>3, <3>4 DEF Telling, LookedUp
  <2>6. CASE FindSrcTcp
    <3>1. /\ fwd.at = "src_tcp"
          /\ In(udp_to_tcp[fwd.src], id) /\ In(udp_to_tcp[fwd.dst], id)
      BY <2>3, <2>6 DEF FindSrcTcp, At, Telling
    <3>2. /\ fwd'.at = "dst_tcp" /\ fwd'.dst = fwd.dst
          /\ fwd'.src_tcp = udp_to_tcp[fwd.src]
      BY <2>4, <2>6 DEF FindSrcTcp, Forwarder
    <3>3. In(fwd.src_tcp, id)' /\ In(udp_to_tcp[fwd.dst], id)'
      BY <2>2, <3>1, <3>2 DEF In
    <3> QED BY <3>2, <3>3 DEF Telling, LookedUp
  <2>7. CASE FindDstTcp
    <3>1. fwd.at = "dst_tcp" /\ In(fwd.src_tcp, id) /\ In(udp_to_tcp[fwd.dst], id)
      BY <2>3, <2>7 DEF FindDstTcp, At, Telling
    <3>2. fwd'.at = "session" /\ fwd'.dst_tcp = udp_to_tcp[fwd.dst]
      BY <2>4, <2>7, <3>1 DEF FindDstTcp, Forwarder, In
    <3>3. In(fwd.dst_tcp, id)'
      BY <2>2, <3>1, <3>2 DEF In
    <3> QED BY <3>2, <3>3 DEF Telling, LookedUp
  <2>8. CASE FindSession
    <3>1. fwd.at = "session" /\ In(fwd.dst_tcp, id) /\ id # None
      BY <2>3, <2>8, AddressAssumption DEF FindSession, At, Telling
    <3>2. fwd'.at = "connected" /\ fwd'.id = id
      BY <2>4, <2>8, <3>1 DEF FindSession, Forwarder, In
    <3> QED BY <3>2 DEF Telling, LookedUp
  <2>9. CASE CheckConnected
    <3>1. fwd.at = "connected" /\ fwd.id = id /\ ~IsConnected(fwd.id)
      BY <2>3, <2>9 DEF CheckConnected, At, Telling, LookedUp, IsConnected, Untold
    <3>2. fwd'.at = "find_src" /\ fwd'.id = id
      BY <2>4, <2>9, <3>1 DEF CheckConnected, Forwarder
    <3> QED BY <3>2 DEF Telling, LookedUp
  <2>10. CASE NotifySrc \/ NotifyDst
    <3>1. fwd.at \in LookedUp \ {"session"} /\ fwd.id = id
      BY <2>3, <2>10 DEF NotifySrc, NotifyDst, FindTarget, TellTarget, At, Telling, LookedUp
    <3>2. fwd'.at \in {"tell_src", "find_dst", "tell_dst", "mark"} /\ fwd'.id = id
      BY <2>4, <2>10, <3>1 DEF NotifySrc, NotifyDst, FindTarget, TellTarget, Forwarder
    <3> QED BY <3>2 DEF Telling, LookedUp
  <2>11. ~Send
    BY <2>3 DEF Send, At, Telling
  <2> QED BY <1>2, <2>5, <2>6, <2>7, <2>8, <2>9, <2>10, <2>11 DEF ForwarderStep
<1> QED BY <1>1, <1>2

\* While udp_loop waits, a session with both addresses known that nobody has
\* deserted is marked.
LEMMA NobodyForgotten ==
  ASSUME Departing, UntoldInv, NotifiedMeansTold
  PROVE  NoForgottenPair
<1> USE DEF Departing
<1> SUFFICES ASSUME At("recv"), NEW p \in Tcp, NEW q \in Tcp, Together(p, q),
                    OwnUdp(p) # None, OwnUdp(q) # None,
                    \A t \in hungup : asked[t] # client_sessions[p]
             PROVE  Told(p) /\ Told(q)
  BY DEF NoForgottenPair
<1> DEFINE id == client_sessions[p]
           s == sessions[id]
<1>1. /\ p # q /\ client_sessions[q] = id /\ id # None /\ id \in SessionIds
      /\ s # None /\ SeatsOf(id) = {p, q}
  BY TwoFill DEF Together, ServerInv, SfuTypeOK, TypeOK
<1>2. s.udp_a # None /\ s.udp_b # None
  <2>1. /\ p \in {s.client_a, s.client_b} /\ q \in {s.client_a, s.client_b}
    BY <1>1 DEF SeatsOf
  <2> QED BY <1>1, <2>1 DEF OwnUdp
<1>3. ~Deserted(id)
  BY DEF Deserted
<1>4. IsConnected(id)
  <2>1. ~Untold(id)
    BY <1>1 DEF UntoldInv, Telling, At
  <2> QED BY <1>1, <1>2, <1>3, <2>1 DEF Untold, IsConnected
<1> QED BY <1>1, <1>4 DEF NotifiedMeansTold

\* No pair is forgotten: whenever udp_loop waits for a datagram, two clients of
\* one session whose addresses are both known have been told of each other, or
\* the message is in their mailboxes, while nobody who asked for the session
\* has hung up and no connection breaks.  The premises are those under which
\* the mark means anything; bug_stranded shows that departures are needed to
\* break it.
THEOREM SfuNoForgottenPair ==
  ASSUME LeavesBeforeJoin, JoinsOnce, None \notin Line, "tcp" \notin Faults
  PROVE  Spec => []NoForgottenPair
<1>1. Departing /\ UntoldInv /\ [Next]_vars => UntoldInv'
  <2> SUFFICES ASSUME Departing, UntoldInv, [Next]_vars PROVE UntoldInv'
    OBVIOUS
  <2>1. ASSUME NEW t \in Tcp, Handler(t) PROVE UntoldInv'
    BY <2>1, HandlerTelling
  <2>2. ASSUME NEW u \in Udp, Receive(u) PROVE UntoldInv'
    BY <2>2, ReceiveTelling DEF Departing
  <2>3. CASE ForwarderStep
    BY <2>3, ForwarderTelling DEF Departing
  <2>4. CASE UNCHANGED <<registry, control, fwd>> /\ hungup \subseteq hungup'
    <3>1. UNCHANGED <<sessions, client_sessions, udp_to_tcp, asked, fwd>>
      BY <2>4 DEF registry, control
    <3>2. \A id \in SessionIds : Untold(id)' => Untold(id)
      BY <2>4, <3>1 DEF Untold, Deserted
    <3>3. \A id \in SessionIds : Telling(id) => Telling(id)'
      BY <3>1 DEF Telling, In
    <3> QED BY <3>2, <3>3 DEF UntoldInv
  <2>5. CASE \/ \E t \in Tcp : HangUp(t) \/ Ping(t) \/ SendFrame(t)
             \/ \E u \in Udp : Lose(u)
             \/ UNCHANGED vars
    BY <2>4, <2>5 DEF HangUp, Ping, SendFrame, Lose, vars
  <2> QED BY <2>1, <2>2, <2>3, <2>5 DEF Next
<1> QED BY <1>1, InitUntold, NobodyForgotten, DepartInvariant, SfuNotifiedMeansTold,
           PTL DEF Spec

=============================================================================
