---------------------------- MODULE ClientProofs ----------------------------
(***************************************************************************)
(* What the client sends when its peer has gone, what it renders, and what *)
(* it knows of its peer, for any capacity of the broadcast channel and any *)
(* number of frames, notices and datagrams.                                *)
(***************************************************************************)
EXTENDS Client, TLAPS, FiniteSetTheorems, SequenceTheorems

\* Nothing has been sent alone while the peer flag is up, nor by a sender
\* that waits for a frame: it came there with the flag up.
SendInv ==
  /\ alone \in {0, 1}
  /\ peer_flag => alone = 0
  /\ send = "recv" => alone = 0

LEMMA InitSend == Init => SendInv
  BY DEF Init, SendInv

LEMMA MainStepSend ==
  ASSUME SendInv, MainStep PROVE SendInv'
<1>1. CASE Spawn
  BY <1>1 DEF Spawn, SendInv, flags, video
<1>2. CASE SendJoin \/ ExpectOk \/ SendPing \/ SetUp \/ CheckConn \/ CheckPeer \/ SendLeave
  BY <1>2 DEF SendJoin, ExpectOk, SendPing, SetUp, CheckConn, CheckPeer, SendLeave,
     SendInv, tasks, flags, video
<1>3. CASE RaiseConn \/ Capture
  BY <1>3 DEF RaiseConn, Capture, SendInv, tasks, flags, video
<1> QED
  BY <1>1, <1>2, <1>3 DEF MainStep

LEMMA ControlStepSend ==
  ASSUME SendInv, ControlStep PROVE SendInv'
<1>1. CASE ReadChunk
  BY <1>1 DEF ReadChunk, SendInv
<1>2. CASE ReadEnd
  BY <1>2 DEF ReadEnd, SendInv, video
<1> QED
  BY <1>1, <1>2 DEF ControlStep

LEMMA SenderStepSend ==
  ASSUME SendInv, SenderStep PROVE SendInv'
<1>1. CASE SendLoop
  BY <1>1 DEF SendLoop, SendInv, flags, video
<1>2. CASE SendWait
  BY <1>2 DEF SendWait, SendInv, flags, video
<1>3. CASE SendFrame
  BY <1>3 DEF SendFrame, SendInv, flags
<1> QED
  BY <1>1, <1>2, <1>3 DEF SenderStep

LEMMA OtherStepSend ==
  ASSUME SendInv, RendererStep \/ Environment \/ UNCHANGED vars PROVE SendInv'
<1>1. CASE RendererStep
  BY <1>1 DEF RendererStep, StartRenderer, RenderLoop, RenderWait, Take,
     WouldBlock, ReceiveError, Render, SendInv, tasks, flags, video
<1>2. CASE Environment
  BY <1>2 DEF Environment, ServerReplies, ServerNotifies, ServerCloses, Arrive, SendInv,
     tasks, flags, video
<1>3. CASE UNCHANGED vars
  BY <1>3 DEF vars, SendInv, tasks, flags, video
<1> QED
  BY <1>1, <1>2, <1>3

\* Sending stops with the peer: after the flag has fallen the sender sends at
\* most the frame it was already waiting for.
THEOREM SentAloneAtMostOnce == Spec => []LittleSentAlone
<1>1. SendInv /\ [Next]_vars => SendInv'
  BY MainStepSend, ControlStepSend, SenderStepSend, OtherStepSend DEF Next
<1>2. SendInv => LittleSentAlone
  BY DEF SendInv, LittleSentAlone
<1> QED
  BY InitSend, <1>1, <1>2, PTL DEF Spec

-----------------------------------------------------------------------------
(* What the renderer renders.                                              *)

\* The newest frame the renderer has taken from the socket: it is in hand, or
\* the last that render() was called with.
Taken == IF next_frame # 0 THEN next_frame ELSE rendered

ScreenTypes ==
  /\ socket \in Seq(Nat) /\ arrived \in Nat
  /\ next_frame \in Nat /\ rendered \in Nat
  /\ Taken <= arrived

\* The socket holds the frames from the one after Taken to the last that has
\* arrived, each of them once and in their order, with other datagrams between.
InSocket ==
  \A i \in DOMAIN socket : socket[i] # 0 => Taken < socket[i] /\ socket[i] <= arrived
InOrder ==
  \A i, j \in DOMAIN socket : i < j /\ socket[i] # 0 /\ socket[j] # 0 => socket[i] < socket[j]
NoneLost ==
  \A n \in Nat : Taken < n /\ n <= arrived => \E i \in DOMAIN socket : socket[i] = n

SocketInv == InSocket /\ InOrder /\ NoneLost

\* The renderer has a frame in hand only in its inner loop, and is spawned
\* once: run() does not come back to the steps before the spawn.
HandInv ==
  /\ rend # "poll" => next_frame = 0
  /\ main \in {"join", "reply", "ping", "raise", "spawn"} => rend = "unborn"

ScreenInv == ScreenTypes /\ SocketInv /\ HandInv

LEMMA InitScreen == Init => ScreenInv
<1> SUFFICES ASSUME Init PROVE ScreenInv
  OBVIOUS
<1>1. socket = <<>> /\ arrived = 0 /\ next_frame = 0 /\ rendered = 0
  BY DEF Init
<1>2. Taken = 0
  BY <1>1 DEF Taken
<1>3. DOMAIN socket = {}
  BY <1>1
<1>4. ScreenTypes
  BY <1>1, <1>2 DEF ScreenTypes
<1>5. SocketInv
  BY <1>1, <1>2, <1>3 DEF SocketInv, InSocket, InOrder, NoneLost
<1>6. HandInv
  BY DEF Init, HandInv
<1> QED
  BY <1>4, <1>5, <1>6 DEF ScreenInv

\* A step that leaves the socket and the frames alone.
LEMMA ScreenKept ==
  ASSUME ScreenInv, HandInv', UNCHANGED <<socket, arrived, next_frame, rendered>>
  PROVE  ScreenInv'
<1>1. Taken' = Taken
  BY DEF Taken
<1>2. ScreenTypes'
  BY <1>1 DEF ScreenInv, ScreenTypes
<1>3. SocketInv'
  BY <1>1 DEF ScreenInv, SocketInv, InSocket, InOrder, NoneLost
<1> QED
  BY <1>2, <1>3 DEF ScreenInv

LEMMA OthersScreen ==
  ASSUME ScreenInv, MainStep \/ ControlStep \/ SenderStep PROVE ScreenInv'
<1>1. CASE MainStep
  <2>1. UNCHANGED <<socket, arrived, next_frame, rendered>>
    BY <1>1 DEF MainStep, SendJoin, ExpectOk, SendPing, RaiseConn, Spawn, SetUp,
       CheckConn, CheckPeer, Capture, SendLeave, screen
  <2>2. CASE Spawn
    <3>1. HandInv'
      BY <2>2 DEF Spawn, Proceed, After, ScreenInv, HandInv, screen
    <3> QED
      BY <2>1, <3>1, ScreenKept
  <2>3. CASE SendJoin \/ ExpectOk \/ SendPing \/ RaiseConn
    <3>1. HandInv'
      BY <2>3 DEF SendJoin, ExpectOk, SendPing, RaiseConn, Proceed, After,
         ScreenInv, HandInv, tasks, screen
    <3> QED
      BY <2>1, <3>1, ScreenKept
  <2>4. CASE SetUp \/ CheckConn \/ CheckPeer \/ Capture \/ SendLeave
    <3>1. HandInv'
      BY <2>4 DEF SetUp, CheckConn, CheckPeer, Capture, SendLeave, Proceed, After,
         ScreenInv, HandInv, tasks, screen
    <3> QED
      BY <2>1, <3>1, ScreenKept
  <2> QED
    BY <1>1, <2>2, <2>3, <2>4 DEF MainStep
<1>2. CASE ControlStep \/ SenderStep
  <2>1. UNCHANGED <<main, rend, socket, arrived, next_frame, rendered>>
    BY <1>2 DEF ControlStep, ReadChunk, ReadEnd, SenderStep, SendLoop, SendWait,
       SendFrame, screen
  <2>2. HandInv'
    BY <2>1 DEF ScreenInv, HandInv
  <2> QED
    BY <2>1, <2>2, ScreenKept
<1> QED
  BY <1>1, <1>2

\* The first datagram is taken: if it is a frame, it is the one after Taken.
LEMMA TakeScreen ==
  ASSUME ScreenInv, Take PROVE ScreenInv'
<1> DEFINE head == Head(socket)
<1>1. /\ rend = "poll" /\ socket # <<>> /\ socket' = Tail(socket)
      /\ next_frame' = IF head = 0 THEN next_frame ELSE head
      /\ UNCHANGED <<main, rend, arrived, rendered>>
  BY DEF Take, tasks
<1>2. ScreenTypes
  BY DEF ScreenInv
<1>3. /\ socket \in Seq(Nat) /\ Len(socket) \in Nat \ {0} /\ socket[1] \in Nat
      /\ head = socket[1] /\ 1 \in DOMAIN socket
  BY <1>1, <1>2 DEF ScreenTypes
<1>4. socket' \in Seq(Nat) /\ Len(socket') = Len(socket) - 1
  BY <1>1, <1>2 DEF ScreenTypes
<1>5. ASSUME NEW i \in DOMAIN socket'
      PROVE  /\ i + 1 \in DOMAIN socket /\ i \in Nat \ {0}
             /\ socket'[i] = socket[i + 1] /\ socket[i + 1] \in Nat
  BY <1>1, <1>3, <1>4, <1>5
<1>6. ASSUME NEW i \in DOMAIN socket, i # 1
      PROVE  i - 1 \in DOMAIN socket' /\ socket'[i - 1] = socket[i]
  <2>1. i \in 2..Len(socket)
    BY <1>3, <1>6
  <2> QED
    BY <1>1, <1>3, <1>4, <2>1
<1>7. Taken' = IF head = 0 THEN Taken ELSE head
  BY <1>1, <1>3 DEF Taken
<1>8. head # 0 => Taken < head /\ head <= arrived
  BY <1>3 DEF ScreenInv, SocketInv, InSocket
<1>9. ScreenTypes'
  BY <1>1, <1>2, <1>3, <1>4, <1>7, <1>8 DEF ScreenTypes
<1>10. InSocket'
  <2> SUFFICES ASSUME NEW i \in DOMAIN socket', socket'[i] # 0
               PROVE  Taken' < socket'[i] /\ socket'[i] <= arrived'
    BY DEF InSocket
  <2>1. Taken < socket[i + 1] /\ socket[i + 1] <= arrived
    BY <1>5 DEF ScreenInv, SocketInv, InSocket
  <2>2. head # 0 => head < socket[i + 1]
    <3>1. 1 < i + 1
      BY <1>5
    <3> QED
      BY <1>3, <1>5, <3>1 DEF ScreenInv, SocketInv, InOrder
  <2> QED
    BY <1>1, <1>5, <1>7, <2>1, <2>2
<1>11. InOrder'
  <2> SUFFICES ASSUME NEW i \in DOMAIN socket', NEW j \in DOMAIN socket',
                      i < j, socket'[i] # 0, socket'[j] # 0
               PROVE  socket'[i] < socket'[j]
    BY DEF InOrder
  <2>1. i + 1 < j + 1
    BY <1>5
  <2> QED
    BY <1>5, <2>1 DEF ScreenInv, SocketInv, InOrder
<1>12. NoneLost'
  <2> SUFFICES ASSUME NEW n \in Nat, Taken' < n, n <= arrived'
               PROVE  \E i \in DOMAIN socket' : socket'[i] = n
    BY DEF NoneLost
  <2>1. Taken < n /\ n # head
    BY <1>2, <1>3, <1>7, <1>8 DEF ScreenTypes, Taken
  <2>2. PICK i \in DOMAIN socket : socket[i] = n
    BY <1>1, <2>1 DEF ScreenInv, SocketInv, NoneLost
  <2>3. i # 1
    BY <1>3, <2>1, <2>2
  <2> QED
    BY <1>6, <2>2, <2>3
<1>13. HandInv'
  BY <1>1 DEF ScreenInv, HandInv
<1> QED
  BY <1>9, <1>10, <1>11, <1>12, <1>13 DEF ScreenInv, SocketInv

\* A datagram arrives at the end of the socket: a frame is newer than all.
LEMMA ArriveScreen ==
  ASSUME ScreenInv, NEW frame \in BOOLEAN, Arrive(frame) PROVE ScreenInv'
<1> DEFINE new == IF frame THEN arrived + 1 ELSE 0
           last == Len(socket) + 1
<1>1. /\ arrived' = (IF frame THEN arrived + 1 ELSE arrived)
      /\ socket' = Append(socket, new)
      /\ UNCHANGED <<main, rend, next_frame, rendered>>
  BY DEF Arrive, tasks
<1>2. ScreenTypes
  BY DEF ScreenInv
<1>3. arrived' \in Nat /\ arrived <= arrived' /\ new \in Nat
  BY <1>1, <1>2 DEF ScreenTypes
<1>4. /\ socket' \in Seq(Nat) /\ last \in Nat
      /\ DOMAIN socket' = 1..last /\ socket'[last] = new
  BY <1>1, <1>2, <1>3 DEF ScreenTypes
<1>5. DOMAIN socket = 1..(last - 1)
  BY <1>2 DEF ScreenTypes
<1>6. \A i \in DOMAIN socket :
         /\ i \in DOMAIN socket' /\ socket'[i] = socket[i]
         /\ i < last /\ socket[i] \in Nat
  BY <1>1, <1>2, <1>3, <1>4, <1>5 DEF ScreenTypes
<1>7. \A i \in DOMAIN socket' : i \in DOMAIN socket \/ i = last
  BY <1>4, <1>5
<1>8. Taken' = Taken /\ Taken \in Nat
  BY <1>1, <1>2 DEF Taken, ScreenTypes
<1>9. ScreenTypes'
  BY <1>1, <1>2, <1>3, <1>4, <1>8 DEF ScreenTypes
<1> HIDE DEF last
<1>10. InSocket'
  <2> SUFFICES ASSUME NEW i \in DOMAIN socket', socket'[i] # 0
               PROVE  Taken' < socket'[i] /\ socket'[i] <= arrived'
    BY DEF InSocket
  <2>1. CASE i \in DOMAIN socket
    <3>1. Taken < socket[i] /\ socket[i] <= arrived
      BY <1>6, <2>1 DEF ScreenInv, SocketInv, InSocket
    <3> QED
      BY <1>2, <1>3, <1>6, <1>8, <2>1, <3>1 DEF ScreenTypes
  <2>2. CASE i = last
    BY <1>1, <1>2, <1>4, <1>8, <2>2 DEF ScreenTypes
  <2> QED
    BY <1>7, <2>1, <2>2
<1>11. InOrder'
  <2> SUFFICES ASSUME NEW i \in DOMAIN socket', NEW j \in DOMAIN socket',
                      i < j, socket'[i] # 0, socket'[j] # 0
               PROVE  socket'[i] < socket'[j]
    BY DEF InOrder
  <2>1. CASE j \in DOMAIN socket
    <3>1. i \in DOMAIN socket
      BY <1>4, <1>5, <1>6, <1>7, <2>1
    <3> QED
      BY <1>6, <2>1, <3>1 DEF ScreenInv, SocketInv, InOrder
  <2>2. CASE j = last
    <3>1. i \in DOMAIN socket
      BY <1>4, <1>7, <2>2
    <3>2. socket[i] <= arrived
      BY <1>6, <3>1 DEF ScreenInv, SocketInv, InSocket
    <3> QED
      BY <1>2, <1>4, <1>6, <2>2, <3>1, <3>2 DEF ScreenTypes
  <2> QED
    BY <1>7, <2>1, <2>2
<1>12. NoneLost'
  <2> SUFFICES ASSUME NEW n \in Nat, Taken' < n, n <= arrived'
               PROVE  \E i \in DOMAIN socket' : socket'[i] = n
    BY DEF NoneLost
  <2>1. CASE n <= arrived
    BY <1>6, <1>8, <2>1 DEF ScreenInv, SocketInv, NoneLost
  <2>2. CASE ~(n <= arrived)
    <3>1. n = new
      BY <1>1, <1>2, <2>2 DEF ScreenTypes
    <3>2. last \in DOMAIN socket'
      BY <1>4, <1>3, <1>9 DEF last, ScreenTypes
    <3> QED
      BY <1>4, <3>1, <3>2
  <2> QED
    BY <2>1, <2>2
<1>13. HandInv'
  BY <1>1 DEF ScreenInv, HandInv
<1> QED
  BY <1>9, <1>10, <1>11, <1>12, <1>13 DEF ScreenInv, SocketInv

LEMMA RestScreen ==
  ASSUME ScreenInv, RendererStep \/ Environment \/ UNCHANGED vars PROVE ScreenInv'
<1>1. CASE StartRenderer \/ RenderLoop \/ RenderWait
  <2>1. UNCHANGED <<main, socket, arrived, next_frame, rendered>>
    BY <1>1 DEF StartRenderer, RenderLoop, RenderWait, screen
  <2>2. HandInv'
    BY <1>1, <2>1 DEF StartRenderer, RenderLoop, RenderWait, ScreenInv, HandInv
  <2> QED
    BY <2>1, <2>2, ScreenKept
<1>2. CASE WouldBlock \/ ReceiveError
  <2>1. /\ rend = "poll" /\ next_frame # 0 /\ rendered' = next_frame /\ next_frame' = 0
        /\ UNCHANGED <<main, socket, arrived>> /\ rend' \in {"conn", "panicked"}
    BY <1>2 DEF WouldBlock, ReceiveError, Render
  <2>2. Taken' = Taken
    BY <2>1 DEF Taken
  <2>3. ScreenTypes'
    BY <2>1, <2>2 DEF ScreenInv, ScreenTypes
  <2>4. SocketInv'
    BY <2>1, <2>2 DEF ScreenInv, SocketInv, InSocket, InOrder, NoneLost
  <2>5. HandInv'
    BY <2>1 DEF ScreenInv, HandInv
  <2> QED
    BY <2>3, <2>4, <2>5 DEF ScreenInv
<1>3. CASE Environment
  <2>1. CASE \E frame \in BOOLEAN : Arrive(frame)
    BY <2>1, ArriveScreen
  <2>2. CASE \/ \E reply \in {"OK", "ERROR"} : ServerReplies(reply)
             \/ \E notice \in Notice : ServerNotifies(notice)
             \/ ServerCloses
    <3>1. UNCHANGED <<main, rend, socket, arrived, next_frame, rendered>>
      BY <2>2 DEF ServerReplies, ServerNotifies, ServerCloses, tasks, screen
    <3>2. HandInv'
      BY <3>1 DEF ScreenInv, HandInv
    <3> QED
      BY <3>1, <3>2, ScreenKept
  <2> QED
    BY <1>3, <2>1, <2>2 DEF Environment
<1>4. CASE UNCHANGED vars
  <2>1. UNCHANGED <<main, rend, socket, arrived, next_frame, rendered>>
    BY <1>4 DEF vars, tasks, screen
  <2>2. HandInv'
    BY <2>1 DEF ScreenInv, HandInv
  <2> QED
    BY <2>1, <2>2, ScreenKept
<1> QED
  BY <1>1, <1>2, <1>3, <1>4, TakeScreen DEF RendererStep

\* The frames in the socket are as many as have arrived since the one taken.
LEMMA FramesInSocket ==
  ASSUME ScreenInv
  PROVE  Cardinality({i \in DOMAIN socket : socket[i] # 0}) = arrived - Taken
<1> DEFINE S == {i \in DOMAIN socket : socket[i] # 0}
           T == (Taken + 1)..arrived
           f == [i \in S |-> socket[i]]
<1>1. /\ socket \in Seq(Nat) /\ arrived \in Nat /\ Taken \in Nat /\ Taken <= arrived
      /\ DOMAIN socket = 1..Len(socket) /\ Len(socket) \in Nat
  BY DEF ScreenInv, ScreenTypes, Taken
<1>2. f \in [S -> T]
  <2>1. \A i \in S : socket[i] \in T
    BY <1>1 DEF ScreenInv, SocketInv, InSocket
  <2> QED
    BY <2>1
<1>3. \A i, j \in S : f[i] = f[j] => i = j
  BY <1>1 DEF ScreenInv, SocketInv, InOrder
<1>4. \A n \in T : \E i \in S : f[i] = n
  <2> SUFFICES ASSUME NEW n \in T PROVE \E i \in S : f[i] = n
    OBVIOUS
  <2>1. n \in Nat /\ n # 0 /\ Taken < n /\ n <= arrived
    BY <1>1
  <2>2. PICK i \in DOMAIN socket : socket[i] = n
    BY <2>1 DEF ScreenInv, SocketInv, NoneLost
  <2> QED
    BY <2>1, <2>2
<1> HIDE DEF f
<1>5. ExistsBijection(S, T)
  <2> HIDE DEF S, T
  <2>1. f \in Bijection(S, T)
    BY <1>2, <1>3, <1>4 DEF Bijection, Injection, Surjection, IsInjective
  <2> QED
    BY <2>1 DEF ExistsBijection
<1>6. IsFiniteSet(S)
  <2>1. IsFiniteSet(DOMAIN socket)
    BY <1>1, FS_Interval
  <2> QED
    BY <2>1, FS_Subset
<1>7. Cardinality(T) = Cardinality(S)
  BY <1>5, <1>6, FS_Bijection
<1>8. Cardinality(T) = arrived - Taken
  <2>1. Taken + 1 \in Int /\ arrived \in Int
    BY <1>1
  <2>2. Cardinality(T) = IF Taken + 1 > arrived THEN 0 ELSE arrived - (Taken + 1) + 1
    BY <2>1, FS_Interval
  <2> QED
    BY <1>1, <2>2
<1> QED
  BY <1>7, <1>8

\* Outside the renderer's inner loop, render() was last called with the newest
\* frame taken from the socket, also when a receive error has ended the loop
\* or a panic the task: none is skipped for an older one, and no datagram that
\* is not a frame costs the frame in hand.
THEOREM RenderedIsNewest == Spec => []RendersNewest
<1>1. ScreenInv /\ [Next]_vars => ScreenInv'
  BY OthersScreen, RestScreen DEF Next
<1>2. ScreenInv => RendersNewest
  <2> SUFFICES ASSUME ScreenInv, rend # "poll"
               PROVE  rendered = arrived - Cardinality({i \in DOMAIN socket : socket[i] # 0})
    BY DEF RendersNewest
  <2>1. Taken = rendered
    BY DEF ScreenInv, HandInv, Taken
  <2>2. rendered \in Nat /\ arrived \in Nat
    BY DEF ScreenInv, ScreenTypes
  <2> QED
    BY FramesInSocket, <2>1, <2>2
<1> QED
  BY InitScreen, <1>1, <1>2, PTL DEF Spec

-----------------------------------------------------------------------------
(* Types.                                                                  *)

\* The capture loop adds a frame only where there is room for one: the step
\* before it has looked.
TypeInv == ClientTypeOK /\ (main = "capture" => captured < MaxFrames)

Line == Notice \cup {"OK", "ERROR"}

LEMMA Bounds ==
  /\ FRAME_BUFFER \in Nat \ {0}
  /\ MaxFrames \in Nat /\ MaxNotices \in Nat /\ MaxArrivals \in Nat
  /\ SocketSize \in Nat
  BY ClientAssumption

LEMMA InitTypes == Init => TypeInv
<1> SUFFICES ASSUME Init PROVE TypeInv
  OBVIOUS
<1>1. lines \in Seq(Line) /\ socket \in Seq(0..arrived)
  BY EmptySeq DEF Init
<1>2. /\ captured = 0 /\ received = 0 /\ alone = 0 /\ notices = 0
      /\ arrived = 0 /\ Len(socket) = 0 /\ next_frame = 0 /\ rendered = 0
  BY DEF Init
<1>3. /\ notices \in 0..MaxNotices /\ captured \in 0..MaxFrames /\ received \in 0..captured
      /\ alone \in Nat /\ arrived \in 0..MaxArrivals /\ Len(socket) <= SocketSize
      /\ next_frame \in 0..arrived /\ rendered \in 0..arrived
  BY <1>2, Bounds
<1>4. /\ main \in MainState /\ main # "capture" /\ latest \in Notice
      /\ ctrl = "unborn" /\ rend = "unborn" /\ send = "unborn"
      /\ conn_flag = FALSE /\ peer_flag = FALSE /\ closed = FALSE
  BY DEF Init, MainState, Notice
<1> QED
  BY <1>1, <1>3, <1>4 DEF TypeInv, ClientTypeOK, Line

\* A step of run() before the loop, other than the one that reads the reply.
LEMMA StartTypes ==
  ASSUME TypeInv, SendJoin \/ SendPing \/ RaiseConn \/ Spawn \/ SetUp PROVE TypeInv'
<1>1. main' \in MainState /\ main' # "capture"
  BY DEF SendJoin, SendPing, RaiseConn, Spawn, SetUp, Proceed, After, MainState
<1>2. UNCHANGED <<server, video, screen>>
  BY DEF SendJoin, SendPing, RaiseConn, Spawn, SetUp
<1>3. /\ ctrl' \in {ctrl, "read"} /\ rend' \in {rend, "start"} /\ send' \in {send, "conn"}
      /\ conn_flag' \in {conn_flag, TRUE} /\ peer_flag' = peer_flag
  BY DEF SendJoin, SendPing, RaiseConn, Spawn, SetUp, tasks, flags
<1> QED
  BY <1>1, <1>2, <1>3 DEF TypeInv, ClientTypeOK, server, video, screen

LEMMA ReplyTypes ==
  ASSUME TypeInv, ExpectOk PROVE TypeInv'
<1>1. main' \in {"ping", "failed"}
  BY DEF ExpectOk, After
<1>2. lines' \in Seq(Line)
  <2>1. lines \in Seq(Line)
    BY DEF TypeInv, ClientTypeOK, Line
  <2>2. lines' = lines \/ (lines # <<>> /\ lines' = Tail(lines))
    BY DEF ExpectOk
  <2> QED
    BY <2>1, <2>2, HeadTailProperties
<1>3. UNCHANGED <<tasks, flags, notices, latest, closed, video, screen>>
  BY DEF ExpectOk
<1> QED
  BY <1>1, <1>2, <1>3 DEF TypeInv, ClientTypeOK, MainState, Line, tasks, flags, video, screen

LEMMA LoopTypes ==
  ASSUME TypeInv, CheckConn \/ CheckPeer \/ Capture \/ SendLeave PROVE TypeInv'
<1>1. /\ captured \in Nat /\ received \in Nat /\ received <= captured
      /\ captured <= MaxFrames /\ (main = "capture" => captured < MaxFrames)
  BY Bounds DEF TypeInv, ClientTypeOK
<1>2. main' \in MainState
  BY DEF CheckConn, CheckPeer, Capture, SendLeave, MainState
<1>3. UNCHANGED <<tasks, flags, server, received, alone, screen>>
  BY DEF CheckConn, CheckPeer, Capture, SendLeave, video
<1>4. captured' = captured \/ (main = "capture" /\ main' # "capture" /\ captured' = captured + 1)
  BY DEF CheckConn, CheckPeer, Capture, SendLeave, video
<1>5. captured' \in 0..MaxFrames /\ received' \in 0..captured'
  BY <1>1, <1>3, <1>4, Bounds
<1>6. main' = "capture" => captured' < MaxFrames
  BY DEF CheckConn, CheckPeer, Capture, SendLeave, video
<1> QED
  BY <1>2, <1>3, <1>5, <1>6 DEF TypeInv, ClientTypeOK, tasks, flags, server, screen

LEMMA ControlTypes ==
  ASSUME TypeInv, ControlStep PROVE TypeInv'
<1>1. CASE ReadEnd
  BY <1>1 DEF ReadEnd, TypeInv, ClientTypeOK, server, video, screen
<1>2. CASE ReadChunk
  <2>1. PICK n \in 1..Len(lines) :
          /\ peer_flag' = PeerAfter(SubSeq(lines, 1, n), peer_flag)
          /\ lines' = SubSeq(lines, n + 1, Len(lines))
    BY <1>2 DEF ReadChunk
  <2>2. lines \in Seq(Line) /\ peer_flag \in BOOLEAN
    BY DEF TypeInv, ClientTypeOK, Line
  <2>3. lines' \in Seq(Line)
    <3>1. \A i \in (n + 1)..Len(lines) : lines[i] \in Line
      BY <2>1, <2>2
    <3> QED
      BY <2>1, <2>2, <3>1, SubSeqProperties
  <2>4. peer_flag' \in BOOLEAN
    BY <2>1, <2>2 DEF PeerAfter
  <2>5. alone' \in Nat
    BY <1>2 DEF ReadChunk, TypeInv, ClientTypeOK
  <2> QED
    BY <1>2, <2>3, <2>4, <2>5 DEF ReadChunk, TypeInv, ClientTypeOK, Line, screen
<1> QED
  BY <1>1, <1>2 DEF ControlStep

LEMMA SenderTypes ==
  ASSUME TypeInv, SenderStep PROVE TypeInv'
<1>1. CASE SendLoop \/ SendWait
  BY <1>1 DEF SendLoop, SendWait, TypeInv, ClientTypeOK, flags, server, video, screen
<1>2. CASE SendFrame
  <2>1. /\ captured \in Nat /\ received \in Nat /\ received < captured /\ alone \in Nat
    BY <1>2, Bounds DEF SendFrame, TypeInv, ClientTypeOK
  <2>2. received' \in 0..captured
    BY <1>2, <2>1, Bounds DEF SendFrame, Oldest
  <2>3. alone' \in Nat
    BY <1>2, <2>1 DEF SendFrame
  <2> QED
    BY <1>2, <2>2, <2>3 DEF SendFrame, TypeInv, ClientTypeOK, flags, server, screen
<1> QED
  BY <1>1, <1>2 DEF SenderStep

LEMMA RendererTypes ==
  ASSUME TypeInv, RendererStep PROVE TypeInv'
<1>1. CASE StartRenderer \/ RenderLoop \/ RenderWait
  BY <1>1 DEF StartRenderer, RenderLoop, RenderWait, TypeInv, ClientTypeOK, flags, server, video, screen
<1>2. CASE Take
  <2>1. socket \in Seq(0..arrived) /\ socket # <<>>
    BY <1>2 DEF Take, TypeInv, ClientTypeOK
  <2>2. /\ socket' \in Seq(0..arrived) /\ Head(socket) \in 0..arrived
        /\ Len(socket') = Len(socket) - 1
    BY <1>2, <2>1, HeadTailProperties DEF Take
  <2>3. next_frame' \in 0..arrived
    BY <1>2, <2>2 DEF Take, TypeInv, ClientTypeOK
  <2>4. Len(socket') <= SocketSize
    <3>1. Len(socket) \in Nat /\ Len(socket) <= SocketSize
      BY <2>1 DEF TypeInv, ClientTypeOK
    <3> QED
      BY <2>2, <3>1, Bounds
  <2> QED
    BY <1>2, <2>2, <2>3, <2>4 DEF Take, TypeInv, ClientTypeOK, tasks, flags, server, video
<1>3. CASE WouldBlock \/ ReceiveError
  <2>1. next_frame' \in 0..arrived /\ rendered' \in 0..arrived
    BY <1>3, Bounds DEF WouldBlock, ReceiveError, Render, TypeInv, ClientTypeOK
  <2> QED
    BY <1>3, <2>1 DEF WouldBlock, ReceiveError, Render, TypeInv, ClientTypeOK, flags,
       server, video
<1> QED
  BY <1>1, <1>2, <1>3 DEF RendererStep

LEMMA EnvironmentTypes ==
  ASSUME TypeInv, Environment PROVE TypeInv'
<1>1. lines \in Seq(Line)
  BY DEF TypeInv, ClientTypeOK, Line
<1>2. ASSUME NEW reply \in {"OK", "ERROR"}, ServerReplies(reply) PROVE TypeInv'
  <2>1. lines' \in Seq(Line)
    BY <1>2 DEF ServerReplies, Line
  <2> QED
    BY <1>2, <2>1 DEF ServerReplies, TypeInv, ClientTypeOK, Line, tasks, flags, video, screen
<1>3. ASSUME NEW notice \in Notice, ServerNotifies(notice) PROVE TypeInv'
  <2>1. lines' \in Seq(Line)
    <3>1. notice \in Line /\ lines' = Append(lines, notice)
      BY <1>3 DEF ServerNotifies, Line
    <3> QED
      BY <1>1, <3>1, AppendProperties
  <2>2. notices' \in 0..MaxNotices
    BY <1>3, Bounds DEF ServerNotifies, TypeInv, ClientTypeOK
  <2> QED
    BY <1>3, <2>1, <2>2 DEF ServerNotifies, TypeInv, ClientTypeOK, Line, tasks, flags,
       video, screen
<1>4. CASE ServerCloses
  <2>1. lines' \in Seq(Line)
    BY <1>1, <1>4, EmptySeq DEF ServerCloses
  <2> QED
    BY <1>4, <2>1 DEF ServerCloses, TypeInv, ClientTypeOK, Line, tasks, flags, video, screen
<1>5. ASSUME NEW frame \in BOOLEAN, Arrive(frame) PROVE TypeInv'
  <2>1. /\ arrived \in Nat /\ arrived <= MaxArrivals
        /\ frame => arrived < MaxArrivals
    BY <1>5, Bounds DEF Arrive, TypeInv, ClientTypeOK
  <2>2. arrived' \in Nat /\ arrived <= arrived' /\ arrived' <= arrived + 1
    BY <1>5, <2>1 DEF Arrive
  <2>3. arrived' \in 0..MaxArrivals
    BY <1>5, <2>1, <2>2, Bounds DEF Arrive
  <2>4. 0..arrived \subseteq 0..arrived'
    BY <2>1, <2>2
  <2>5. next_frame' \in 0..arrived' /\ rendered' \in 0..arrived'
    BY <1>5, <2>4 DEF Arrive, TypeInv, ClientTypeOK
  <2>6. socket' \in Seq(0..arrived')
    <3>1. socket \in Seq(0..arrived')
      BY <2>4, SeqMonotonic DEF TypeInv, ClientTypeOK
    <3>2. (IF frame THEN arrived + 1 ELSE 0) \in 0..arrived'
      BY <1>5, <2>1 DEF Arrive
    <3> QED
      BY <1>5, <3>1, <3>2, AppendProperties DEF Arrive
  <2>7. Len(socket') <= SocketSize
    <3>1. Len(socket) \in Nat /\ Len(socket') = Len(socket) + 1
      BY <1>5 DEF Arrive, TypeInv, ClientTypeOK
    <3>2. Len(socket) < SocketSize
      BY <1>5 DEF Arrive
    <3> QED
      BY <3>1, <3>2, Bounds
  <2> QED
    BY <1>5, <2>3, <2>5, <2>6, <2>7 DEF Arrive, TypeInv, ClientTypeOK, tasks, flags, server, video
<1> QED
  BY <1>2, <1>3, <1>4, <1>5 DEF Environment

LEMMA TypesKept == TypeInv /\ [Next]_vars => TypeInv'
<1> SUFFICES ASSUME TypeInv, [Next]_vars PROVE TypeInv'
  OBVIOUS
<1>1. CASE MainStep
  BY <1>1, StartTypes, ReplyTypes, LoopTypes DEF MainStep
<1>2. CASE UNCHANGED vars
  BY <1>2 DEF vars, tasks, flags, server, video, screen, TypeInv, ClientTypeOK
<1> QED
  BY <1>1, <1>2, ControlTypes, SenderTypes, RendererTypes, EnvironmentTypes DEF Next

\* Every variable keeps its type; in particular a receiver that has lagged
\* never passes the last frame captured, and the frame in hand has arrived.
THEOREM ClientTypeCorrect == Spec => []ClientTypeOK
<1>1. TypeInv => ClientTypeOK
  BY DEF TypeInv
<1> QED
  BY InitTypes, TypesKept, <1>1, PTL DEF Spec

-----------------------------------------------------------------------------
(* The peer flag, when no read returns more than one line.                 *)

\* The unread lines after the first `replies` ones are notices; when there are
\* none the flag is what the last notice said, and else the last of them is it.
FlagBehind(replies) ==
  /\ \A i \in 1..Len(lines) : i > replies => lines[i] \in Notice
  /\ IF Len(lines) <= replies
     THEN peer_flag <=> latest = "CONNECTED"
     ELSE lines[Len(lines)] = latest

\* The reply to JOIN comes first, and expect_ok takes it before the control
\* reader exists.
FlagInv ==
  /\ main \in {"join", "reply"} => ctrl = "unborn"
  /\ main \in {"join", "reply"} /\ ~closed => FlagBehind(1)
  /\ main \notin {"join", "reply", "failed"} /\ ~closed => FlagBehind(0)

LEMMA InitFlag == Init => FlagInv
<1> SUFFICES ASSUME Init PROVE FlagInv
  OBVIOUS
<1>1. /\ main = "join" /\ ctrl = "unborn" /\ lines = <<>>
      /\ peer_flag = FALSE /\ latest = "DISCONNECTED"
  BY DEF Init
<1>2. Len(lines) = 0 /\ 1..Len(lines) = {}
  BY <1>1
<1> QED
  BY <1>1, <1>2 DEF FlagInv, FlagBehind

\* A step that leaves the flag, the lines and the connection alone.
LEMMA FlagKept ==
  ASSUME FlagInv, UNCHANGED <<peer_flag, lines, latest, closed>>,
         main' \in {"join", "reply"} => main \in {"join", "reply"} /\ ctrl' = "unborn",
         main' \notin {"join", "reply", "failed"} => main \notin {"join", "reply", "failed"}
  PROVE  FlagInv'
  BY DEF FlagInv, FlagBehind

LEMMA MainStepFlag ==
  ASSUME TypeInv, FlagInv, MainStep PROVE FlagInv'
<1>1. CASE SendJoin \/ SendPing \/ RaiseConn \/ Spawn \/ SetUp
  <2>1. UNCHANGED <<peer_flag, lines, latest, closed>>
    BY <1>1 DEF SendJoin, SendPing, RaiseConn, Spawn, SetUp, flags, server
  <2>2. main' \in {"join", "reply"} => main \in {"join", "reply"} /\ ctrl' = ctrl
    BY <1>1 DEF SendJoin, SendPing, RaiseConn, Spawn, SetUp, Proceed, After, tasks
  <2>3. main' \notin {"join", "reply", "failed"} => main \notin {"join", "reply", "failed"}
    BY <1>1 DEF SendJoin, SendPing, RaiseConn, Spawn, SetUp, Proceed, After
  <2> QED
    BY <2>1, <2>2, <2>3, FlagKept DEF FlagInv
<1>2. CASE CheckConn \/ CheckPeer \/ Capture \/ SendLeave
  <2>1. UNCHANGED <<peer_flag, lines, latest, closed>>
    BY <1>2 DEF CheckConn, CheckPeer, Capture, SendLeave, flags, server
  <2>2. main' \notin {"join", "reply"} /\ main \notin {"join", "reply", "failed"}
    BY <1>2 DEF CheckConn, CheckPeer, Capture, SendLeave
  <2> QED
    BY <2>1, <2>2, FlagKept
<1>3. CASE ExpectOk
  <2>1. main = "reply" /\ main' \in {"ping", "failed"} /\ UNCHANGED <<peer_flag, latest, closed>>
    BY <1>3 DEF ExpectOk, After, flags
  <2>2. ASSUME ~closed, lines # <<>>, lines' = Tail(lines) PROVE FlagBehind(0)'
    <3>1. lines \in Seq(Line) /\ Len(lines) \in Nat \ {0}
      BY <2>2, EmptySeq DEF TypeInv, ClientTypeOK, Line
    <3>2. /\ Len(lines') = Len(lines) - 1
          /\ \A i \in 1..Len(lines') : lines'[i] = lines[i + 1]
      BY <2>2, <3>1, HeadTailProperties
    <3>3. FlagBehind(1)
      BY <2>1, <2>2 DEF FlagInv
    <3>4. \A i \in 1..Len(lines') : lines'[i] \in Notice
      BY <3>1, <3>2, <3>3 DEF FlagBehind
    <3>5. CASE Len(lines) = 1
      BY <2>1, <3>1, <3>2, <3>3, <3>4, <3>5 DEF FlagBehind
    <3>6. CASE Len(lines) > 1
      <4>1. lines'[Len(lines')] = lines[Len(lines)]
        BY <3>1, <3>2, <3>6
      <4> QED
        BY <2>1, <3>1, <3>2, <3>3, <3>4, <3>6, <4>1 DEF FlagBehind
    <3> QED
      <4>1. Len(lines) \in Nat /\ Len(lines) # 0
        BY <3>1
      <4>2. \A n \in Nat : n # 0 => n = 1 \/ n > 1
        OBVIOUS
      <4> QED
        BY <3>5, <3>6, <4>1, <4>2
  <2>3. main' = "ping" => lines # <<>> /\ lines' = Tail(lines)
    BY <1>3 DEF ExpectOk
  <2> QED
    BY <2>1, <2>2, <2>3 DEF FlagInv
<1> QED
  BY <1>1, <1>2, <1>3 DEF MainStep

LEMMA ControlStepFlag ==
  ASSUME ~Coalesce, TypeInv, FlagInv, ControlStep PROVE FlagInv'
<1>1. CASE ReadEnd
  BY <1>1 DEF ReadEnd, FlagInv, server
<1>2. CASE ReadChunk
  <2>1. /\ main \notin {"join", "reply", "failed"}
        /\ UNCHANGED <<main, latest, closed>>
    BY <1>2 DEF ControlStep, Alive, ReadChunk, FlagInv
  <2>2. ASSUME ~closed PROVE FlagBehind(0)'
    <3>1. lines \in Seq(Line) /\ Len(lines) \in Nat
      BY DEF TypeInv, ClientTypeOK, Line
    <3>2. /\ 1 \in 1..Len(lines)
          /\ peer_flag' = PeerAfter(SubSeq(lines, 1, 1), peer_flag)
          /\ lines' = SubSeq(lines, 2, Len(lines))
      BY <1>2, <3>1 DEF ReadChunk
    <3>3. FlagBehind(0)
      BY <2>1, <2>2 DEF FlagInv
    <3>4. lines[1] \in Notice /\ lines[Len(lines)] = latest
      BY <3>1, <3>2, <3>3 DEF FlagBehind
    <3>5. peer_flag' <=> lines[1] = "CONNECTED"
      <4>1. Head(SubSeq(lines, 1, 1)) = lines[1]
        BY <3>1, <3>2, HeadTailOfSubSeq
      <4> QED
        BY <3>2, <3>4, <4>1 DEF PeerAfter, Notice
    <3>6. /\ Len(lines') = Len(lines) - 1
          /\ \A i \in 1..Len(lines') : lines'[i] = lines[i + 1]
      <4>1. \A i \in 2..Len(lines) : lines[i] \in Line
        BY <3>1
      <4>2. /\ Len(lines') = IF 2 <= Len(lines) THEN Len(lines) - 2 + 1 ELSE 0
            /\ \A i \in 1..(Len(lines) - 2 + 1) : lines'[i] = lines[2 + i - 1]
        BY <3>1, <3>2, <4>1, SubSeqProperties
      <4>3. Len(lines) \in Nat /\ Len(lines) # 0
        BY <3>1, <3>2
      <4>4. Len(lines') = Len(lines) - 1
        <5>1. \A n \in Nat : n # 0 => (IF 2 <= n THEN n - 2 + 1 ELSE 0) = n - 1
          OBVIOUS
        <5> QED
          BY <4>2, <4>3, <5>1
      <4>5. ASSUME NEW i \in 1..Len(lines') PROVE lines'[i] = lines[i + 1]
        <5>1. i \in 1..(Len(lines) - 2 + 1) /\ 2 + i - 1 = i + 1
          BY <4>3, <4>4
        <5> QED
          BY <4>2, <5>1
      <4> QED
        BY <4>4, <4>5
    <3>7. \A i \in 1..Len(lines') : lines'[i] \in Notice
      BY <3>1, <3>2, <3>3, <3>6 DEF FlagBehind
    <3>8. CASE Len(lines) = 1
      BY <2>1, <3>4, <3>5, <3>6, <3>7, <3>8 DEF FlagBehind
    <3>9. CASE Len(lines) > 1
      <4>1. lines'[Len(lines')] = lines[Len(lines)]
        BY <3>1, <3>6, <3>9
      <4> QED
        BY <2>1, <3>1, <3>4, <3>6, <3>7, <3>9, <4>1 DEF FlagBehind
    <3> QED
      <4>1. Len(lines) \in Nat /\ Len(lines) # 0
        BY <3>1, <3>2
      <4>2. \A n \in Nat : n # 0 => n = 1 \/ n > 1
        OBVIOUS
      <4> QED
        BY <3>8, <3>9, <4>1, <4>2
  <2> QED
    BY <2>1, <2>2 DEF FlagInv
<1> QED
  BY <1>1, <1>2 DEF ControlStep

LEMMA EnvironmentFlag ==
  ASSUME TypeInv, FlagInv, Environment PROVE FlagInv'
<1>1. lines \in Seq(Line) /\ Len(lines) \in Nat
  BY DEF TypeInv, ClientTypeOK, Line
<1>2. ASSUME NEW reply \in {"OK", "ERROR"}, ServerReplies(reply) PROVE FlagInv'
  <2>1. /\ main = "reply" /\ lines = <<>> /\ ~closed /\ lines' = <<reply>>
        /\ UNCHANGED <<main, ctrl, peer_flag, latest, closed>>
    BY <1>2 DEF ServerReplies, tasks, flags
  <2>2. Len(lines) = 0 /\ Len(lines') = 1
    BY <2>1
  <2>3. FlagBehind(1)'
    BY <2>1, <2>2 DEF FlagInv, FlagBehind
  <2> QED
    BY <2>1, <2>3 DEF FlagInv
<1>3. ASSUME NEW notice \in Notice, ServerNotifies(notice) PROVE FlagInv'
  <2>1. /\ main \notin {"join", "failed"} /\ (lines # <<>> \/ main # "reply")
        /\ ~closed /\ lines' = Append(lines, notice) /\ latest' = notice
        /\ UNCHANGED <<main, ctrl, peer_flag, closed>>
    BY <1>3 DEF ServerNotifies, tasks, flags
  <2>2. /\ Len(lines') = Len(lines) + 1
        /\ \A i \in 1..Len(lines) : lines'[i] = lines[i]
        /\ lines'[Len(lines) + 1] = notice
    <3>1. notice \in Line
      BY DEF Line
    <3> QED
      BY <1>1, <2>1, <3>1, AppendProperties
  <2>3. ASSUME NEW replies \in {0, 1}, replies <= Len(lines), FlagBehind(replies)
        PROVE  FlagBehind(replies)'
    <3>1. \A i \in 1..Len(lines') : i > replies => lines'[i] \in Notice
      <4> SUFFICES ASSUME NEW i \in 1..Len(lines'), i > replies PROVE lines'[i] \in Notice
        OBVIOUS
      <4>1. CASE i = Len(lines) + 1
        BY <2>2, <4>1
      <4>2. CASE i \in 1..Len(lines)
        BY <2>2, <2>3, <4>2 DEF FlagBehind
      <4> QED
        BY <1>1, <2>2, <4>1, <4>2
    <3> QED
      BY <1>1, <2>1, <2>2, <2>3, <3>1 DEF FlagBehind
  <2>4. lines # <<>> => 1 <= Len(lines)
    BY <1>1, EmptySeq
  <2> QED
    BY <1>1, <2>1, <2>3, <2>4 DEF FlagInv
<1>4. CASE ServerCloses
  BY <1>4 DEF ServerCloses, FlagInv, tasks
<1>5. ASSUME NEW frame \in BOOLEAN, Arrive(frame) PROVE FlagInv'
  BY <1>5, FlagKept DEF Arrive, FlagInv, tasks, flags, server
<1> QED
  BY <1>2, <1>3, <1>4, <1>5 DEF Environment

\* The control reader keeps its promise as long as every read returns one
\* line: when it has read all there is, the peer flag is what the last notice
\* said, whatever came between the reply to JOIN and its first read.
THEOREM FlagFollowsSingleLines ==
  ASSUME ~Coalesce PROVE Spec => []PeerFlagFollows
<1>1. TypeInv /\ FlagInv /\ [Next]_vars => FlagInv'
  <2> SUFFICES ASSUME TypeInv, FlagInv, [Next]_vars PROVE FlagInv'
    OBVIOUS
  <2>1. CASE SenderStep \/ RendererStep
    <3>1. UNCHANGED <<main, ctrl, peer_flag, lines, latest, closed>>
      BY <2>1 DEF SenderStep, SendLoop, SendWait, SendFrame, RendererStep,
         StartRenderer, RenderLoop, RenderWait, Take, WouldBlock, ReceiveError, Render, tasks, flags, server
    <3> QED
      BY <3>1, FlagKept DEF FlagInv
  <2>2. CASE UNCHANGED vars
    BY <2>2, FlagKept DEF vars, tasks, flags, server, FlagInv
  <2> QED
    BY <2>1, <2>2, MainStepFlag, ControlStepFlag, EnvironmentFlag DEF Next
<1>2. FlagInv => PeerFlagFollows
  <2> SUFFICES ASSUME FlagInv, Running, ctrl = "read", ~closed, lines = <<>>
               PROVE  peer_flag <=> latest = "CONNECTED"
    BY DEF PeerFlagFollows
  <2>1. main \notin {"join", "reply", "failed"} /\ Len(lines) = 0
    BY DEF FlagInv, Running, Alive
  <2> QED
    BY <2>1 DEF FlagInv, FlagBehind
<1> QED
  BY InitTypes, InitFlag, TypesKept, <1>1, <1>2, PTL DEF Spec

=============================================================================
