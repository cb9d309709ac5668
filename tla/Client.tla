------------------------------- MODULE Client -------------------------------
(***************************************************************************)
(* The client of client/src/client.rs: run(), the three tasks it spawns    *)
(* (control reader, renderer, sender) and the two watch flags, the         *)
(* broadcast channel and the sockets through which they meet.  A task does *)
(* one access to any of these per step.                                    *)
(*                                                                         *)
(* The environment is the server, which writes lines and closes the        *)
(* connection, and the peer, whose datagrams arrive.  Frames are numbered  *)
(* in the order of their capture (own frames) or arrival (peer's frames).  *)
(***************************************************************************)
EXTENDS Naturals, Sequences, FiniteSets

CONSTANTS
  FRAME_BUFFER,  \* frames the broadcast channel keeps for its receiver
  Coalesce,      \* one read of the connection may return several lines
  MaxFrames,     \* bound: frames captured
  MaxNotices,    \* bound: CONNECTED and DISCONNECTED lines
  MaxArrivals,   \* bound: frames that arrive from the peer
  SocketSize     \* datagrams the UDP socket holds; it drops what is more

ASSUME ClientAssumption ==
  /\ FRAME_BUFFER \in Nat \ {0}
  /\ Coalesce \in BOOLEAN
  /\ {MaxFrames, MaxNotices, MaxArrivals, SocketSize} \subseteq Nat

VARIABLES
  main,       \* where run() is
  ctrl,       \* where the control reader is
  rend,       \* where the renderer is
  send,       \* where the sender is
  conn_flag,  \* the watch channels
  peer_flag,
  lines,      \* what the server has written and nobody has read
  notices,    \* how many notices it has written
  latest,     \* the last of them
  closed,     \* the server's end of the connection is closed
  captured,   \* frames put into the broadcast channel
  received,   \* the last of them the sender has passed
  alone,      \* frames sent since the peer flag fell
  socket,     \* datagrams in the UDP socket: a frame's number, or 0
  arrived,    \* frames among the datagrams that have arrived
  next_frame, \* the renderer's local, 0 for None
  rendered    \* the last frame render() was called with

server == <<lines, notices, latest, closed>>
video == <<captured, received, alone>>
screen == <<socket, arrived, next_frame, rendered>>
tasks == <<ctrl, rend, send>>
flags == <<conn_flag, peer_flag>>
vars == <<main, tasks, flags, server, video, screen>>

MainState ==
  {"join", "reply", "ping", "raise", "spawn", "setup", "conn", "peer",
   "capture", "leave", "done", "failed"}
Notice == {"CONNECTED", "DISCONNECTED"}

ClientTypeOK ==
  /\ main \in MainState
  /\ ctrl \in {"unborn", "read", "ended"}
  /\ rend \in {"unborn", "start", "conn", "peer", "poll", "ended", "panicked"}
  /\ send \in {"unborn", "conn", "peer", "recv", "ended"}
  /\ conn_flag \in BOOLEAN /\ peer_flag \in BOOLEAN
  /\ lines \in Seq(Notice \cup {"OK", "ERROR"})
  /\ notices \in 0..MaxNotices
  /\ latest \in Notice
  /\ closed \in BOOLEAN
  /\ captured \in 0..MaxFrames
  /\ received \in 0..captured
  /\ alone \in Nat
  /\ socket \in Seq(0..arrived) /\ Len(socket) <= SocketSize
  /\ arrived \in 0..MaxArrivals
  /\ next_frame \in 0..arrived /\ rendered \in 0..arrived

Init ==
  /\ main = "join" /\ ctrl = "unborn" /\ rend = "unborn" /\ send = "unborn"
  /\ conn_flag = FALSE /\ peer_flag = FALSE
  /\ lines = <<>> /\ notices = 0 /\ latest = "DISCONNECTED" /\ closed = FALSE
  /\ captured = 0 /\ received = 0 /\ alone = 0
  /\ socket = <<>> /\ arrived = 0
  /\ next_frame = 0 /\ rendered = 0

\* When run() returns, main returns and the process ends with all its tasks.
Alive == main \notin {"done", "failed"}

-----------------------------------------------------------------------------
(* run().                                                                  *)

\* Mutant: the tasks are spawned before the connection flag is raised.
AfterSpawningFirst ==
  [join |-> "reply", reply |-> "ping", ping |-> "spawn", spawn |-> "raise",
   raise |-> "setup", setup |-> "conn"]

\* The order of the steps that lead to the capture loop.
After ==
  [join |-> "reply", reply |-> "ping", ping |-> "raise", raise |-> "spawn",
   spawn |-> "setup", setup |-> "conn"]

Proceed(step) == main = step /\ main' = After[step]

\* connect, bind, "JOIN id": any of them may fail.
SendJoin ==
  /\ Proceed("join") \/ (main = "join" /\ main' = "failed")
  /\ UNCHANGED <<tasks, flags, server, video, screen>>

\* expect_ok reads byte by byte, so it takes one line and no more.
ExpectOk ==
  /\ main = "reply"
  /\ \/ /\ lines # <<>>
        /\ main' = IF Head(lines) = "OK" THEN After["reply"] ELSE "failed"
        /\ lines' = Tail(lines)
     \/ /\ lines = <<>> /\ closed
        /\ main' = "failed"
        /\ UNCHANGED lines
  /\ UNCHANGED <<tasks, flags, notices, latest, closed, video, screen>>

SendPing ==
  /\ Proceed("ping") \/ (main = "ping" /\ main' = "failed")
  /\ UNCHANGED <<tasks, flags, server, video, screen>>

RaiseConn ==
  /\ Proceed("raise")
  /\ conn_flag' = TRUE
  /\ UNCHANGED <<tasks, peer_flag, server, video, screen>>

\* A task that is spawned runs at some later time, so one step spawns all.
Spawn ==
  /\ Proceed("spawn")
  /\ ctrl' = "read" /\ rend' = "start" /\ send' = "conn"
  /\ UNCHANGED <<flags, server, video, screen>>

\* The camera or the pattern is set up, or cannot be: the tasks run already.
SetUp ==
  /\ Proceed("setup") \/ (main = "setup" /\ main' = "failed")
  /\ UNCHANGED <<tasks, flags, server, video, screen>>

\* The capture loop: no await in it, so it spins while there is no peer.
CheckConn ==
  /\ main = "conn"
  /\ main' = IF conn_flag THEN "peer" ELSE "leave"
  /\ UNCHANGED <<tasks, flags, server, video, screen>>

CheckPeer ==
  /\ main = "peer"
  /\ main' = IF peer_flag /\ captured < MaxFrames THEN "capture" ELSE "conn"
  /\ UNCHANGED <<tasks, flags, server, video, screen>>

\* A frame into the broadcast channel, or an error of the camera: that one
\* returns from run() without LEAVE.
Capture ==
  /\ main = "capture"
  /\ \/ main' = "conn" /\ captured' = captured + 1
     \/ main' = "failed" /\ UNCHANGED captured
  /\ UNCHANGED <<tasks, flags, server, received, alone, screen>>

SendLeave ==
  /\ main = "leave"
  /\ main' = "done"
  /\ UNCHANGED <<tasks, flags, server, video, screen>>

MainStep ==
  \/ SendJoin \/ ExpectOk \/ SendPing \/ RaiseConn \/ Spawn \/ SetUp
  \/ CheckConn \/ CheckPeer \/ Capture \/ SendLeave

-----------------------------------------------------------------------------
(* The control reader.                                                     *)

\* What a chunk does to the peer flag: its first line decides.
PeerAfter(chunk, peer) ==
  CASE Head(chunk) = "CONNECTED"    -> TRUE
    [] Head(chunk) = "DISCONNECTED" -> FALSE
    [] OTHER                        -> peer

\* A read returns all that has arrived, or a part of it.
ReadChunk ==
  /\ ctrl = "read"
  /\ \E n \in 1..Len(lines) :
       /\ ~Coalesce => n = 1
       /\ peer_flag' = PeerAfter(SubSeq(lines, 1, n), peer_flag)
       /\ lines' = SubSeq(lines, n + 1, Len(lines))
  /\ alone' = IF peer_flag' THEN 0 ELSE alone
  /\ UNCHANGED <<main, ctrl, rend, send, conn_flag, notices, latest, closed,
                 captured, received, screen>>

\* read returned 0 or an error.
ReadEnd ==
  /\ ctrl = "read" /\ closed /\ lines = <<>>
  /\ conn_flag' = FALSE
  /\ ctrl' = "ended"
  /\ UNCHANGED <<main, rend, send, peer_flag, server, video, screen>>

ControlStep == Alive /\ (ReadChunk \/ ReadEnd)

-----------------------------------------------------------------------------
(* The sender.                                                             *)

SendLoop ==
  /\ send = "conn"
  /\ send' = IF conn_flag THEN "peer" ELSE "ended"
  /\ UNCHANGED <<main, ctrl, rend, flags, server, video, screen>>

\* Mutant: the flag is looked at, not waited for.
SendWaitSkipped ==
  /\ send = "peer"
  /\ send' = "recv"
  /\ UNCHANGED <<main, ctrl, rend, flags, server, video, screen>>

\* wait_for(peer): the connection flag is not looked at meanwhile.
SendWait ==
  /\ send = "peer" /\ peer_flag
  /\ send' = "recv"
  /\ UNCHANGED <<main, ctrl, rend, flags, server, video, screen>>

\* The oldest frame the channel still has for the sender.
Oldest == IF captured - received > FRAME_BUFFER
          THEN captured - FRAME_BUFFER + 1 ELSE received + 1

\* Mutant: a receiver that has fallen behind stops like one that is closed.
SendFrameLagEnds ==
  /\ send = "recv" /\ received < captured
  /\ \/ /\ Oldest = received + 1
        /\ received' = received + 1
        /\ alone' = IF peer_flag THEN 0 ELSE alone + 1
        /\ send' = "conn"
     \/ /\ Oldest > received + 1
        /\ send' = "ended"
        /\ UNCHANGED <<received, alone>>
  /\ UNCHANGED <<main, ctrl, rend, flags, server, captured, screen>>

\* Mutant: recv does not wait for a frame.
SendFrameNoWait ==
  /\ send = "recv"
  /\ send' = "conn"
  /\ received' = received + 1
  /\ UNCHANGED <<main, ctrl, rend, flags, server, captured, alone, screen>>

\* recv: the next frame is serialized and sent, whatever the peer flag says
\* by now; a receiver that has fallen behind skips the frames it has lost.
SendFrame ==
  /\ send = "recv" /\ received < captured
  /\ send' = "conn"
  /\ \/ /\ Oldest = received + 1
        /\ received' = received + 1
        /\ alone' = IF peer_flag THEN 0 ELSE alone + 1
     \/ /\ Oldest > received + 1
        /\ received' = Oldest - 1
        /\ UNCHANGED alone
  /\ UNCHANGED <<main, ctrl, rend, flags, server, captured, screen>>

SenderStep == Alive /\ (SendLoop \/ SendWait \/ SendFrame)

-----------------------------------------------------------------------------
(* The renderer.  When it panics its task is gone, and the others run on.  *)

\* AsciiRenderer::new() clears the screen: the print! in it may panic, and
\* unwrap() does when the flush fails.
StartRenderer ==
  /\ rend = "start"
  /\ rend' \in {"conn", "panicked"}
  /\ UNCHANGED <<main, ctrl, send, flags, server, video, screen>>

RenderLoop ==
  /\ rend = "conn"
  /\ rend' = IF conn_flag THEN "peer" ELSE "ended"
  /\ UNCHANGED <<main, ctrl, send, flags, server, video, screen>>

RenderWait ==
  /\ rend = "peer" /\ peer_flag
  /\ rend' = "poll"
  /\ UNCHANGED <<main, ctrl, send, flags, server, video, screen>>

\* Mutant: the first frame found is kept.
TakeKeepsFirst ==
  /\ rend = "poll" /\ socket # <<>>
  /\ next_frame' = IF next_frame = 0 THEN Head(socket) ELSE next_frame
  /\ socket' = Tail(socket)
  /\ UNCHANGED <<main, tasks, flags, server, video, arrived, rendered>>

\* Mutant: a datagram that is rejected discards the frame in hand.
TakeForgets ==
  /\ rend = "poll" /\ socket # <<>>
  /\ next_frame' = Head(socket)
  /\ socket' = Tail(socket)
  /\ UNCHANGED <<main, tasks, flags, server, video, arrived, rendered>>

\* try_recv: a datagram that process_datagram rejects changes nothing.
Take ==
  /\ rend = "poll" /\ socket # <<>>
  /\ next_frame' = IF Head(socket) = 0 THEN next_frame ELSE Head(socket)
  /\ socket' = Tail(socket)
  /\ UNCHANGED <<main, tasks, flags, server, video, arrived, rendered>>

\* render() is called with the frame in hand, and the loop goes round.  The
\* error it may return is ignored (what is on the screen then is module
\* Renderer's); its print! may panic.
Render ==
  /\ rend = "poll" /\ next_frame # 0
  /\ rend' \in {"conn", "panicked"}
  /\ rendered' = next_frame
  /\ next_frame' = 0
  /\ UNCHANGED <<main, ctrl, send, flags, server, video, socket, arrived>>

\* With a frame in hand the inner loop ends when there is nothing to receive,
\* or when receiving fails, or the runtime has not noticed yet, while
\* datagrams wait.  Without one it sleeps and polls again.
WouldBlock == socket = <<>> /\ Render
ReceiveError == socket # <<>> /\ Render

RendererStep ==
  Alive /\ (StartRenderer \/ RenderLoop \/ RenderWait \/ Take \/ WouldBlock \/ ReceiveError)

-----------------------------------------------------------------------------
(* The server and the peer.                                                *)

\* The reply to JOIN; the notices after it, in any order.
ServerReplies(reply) ==
  /\ main = "reply" /\ lines = <<>> /\ notices = 0 /\ ~closed
  /\ lines' = <<reply>>
  /\ UNCHANGED <<main, tasks, flags, notices, latest, closed, video, screen>>

ServerNotifies(notice) ==
  /\ main \notin {"join", "failed"}
  /\ lines # <<>> \/ main # "reply"
  /\ ~closed /\ notices < MaxNotices
  /\ lines' = Append(lines, notice)
  /\ latest' = notice
  /\ notices' = notices + 1
  /\ UNCHANGED <<main, tasks, flags, closed, video, screen>>

\* The connection ends, or breaks and takes the unread lines with it.
ServerCloses ==
  /\ main # "join" /\ ~closed
  /\ closed' = TRUE
  /\ lines' \in {lines, <<>>}
  /\ UNCHANGED <<main, tasks, flags, notices, latest, video, screen>>

\* A datagram from the server: a frame, or something that is not one.  The
\* bound counts frames only, so the stream of datagrams need not end.
Arrive(frame) ==
  /\ Alive /\ Len(socket) < SocketSize
  /\ frame => arrived < MaxArrivals
  /\ arrived' = IF frame THEN arrived + 1 ELSE arrived
  /\ socket' = Append(socket, IF frame THEN arrived + 1 ELSE 0)
  /\ UNCHANGED <<main, tasks, flags, server, video, next_frame, rendered>>

Environment ==
  \/ \E reply \in {"OK", "ERROR"} : ServerReplies(reply)
  \/ \E notice \in Notice : ServerNotifies(notice)
  \/ ServerCloses
  \/ \E frame \in BOOLEAN : Arrive(frame)

-----------------------------------------------------------------------------

Next == MainStep \/ ControlStep \/ SenderStep \/ RendererStep \/ Environment

Spec == Init /\ [][Next]_vars

\* The runtime has a thread for every task that can run; the capture loop
\* occupies the one of main and yields none of the others.
Fairness ==
  /\ WF_vars(MainStep)
  /\ WF_vars(ControlStep)
  /\ WF_vars(SenderStep)
  /\ WF_vars(RendererStep)

FairSpec == Spec /\ Fairness

-----------------------------------------------------------------------------

Running == ctrl # "unborn" /\ Alive

\* Sending stops with the peer: a sender that was already waiting for a frame
\* when the flag fell sends that one and then waits for the next peer.
LittleSentAlone == alone <= 1

\* The renderer catches up: whenever it is not in its inner loop, whatever
\* ended the loop, render() was last called with the newest of all frames that
\* are no longer in the socket.
RendersNewest ==
  rend # "poll" =>
    rendered = arrived - Cardinality({i \in DOMAIN socket : socket[i] # 0})

\* "Reads control messages from server, updating local state about session
\* connection and / or peer presence": when all notices have been read, the
\* peer flag is what the last of them said.  The code keeps this only while
\* every read returns one line.
PeerFlagFollows ==
  Running /\ ctrl = "read" /\ ~closed /\ lines = <<>> =>
    (peer_flag <=> latest = "CONNECTED")

\* When the server closes the connection, run() returns: neither flag can
\* hold it in its loop, and no late write raises the connection flag again.
RunEnds == closed ~> ~Alive

\* A frame captured is sent, or has fallen out of the channel, unless the
\* peer leaves or the run ends.
FramesFlow ==
  \A n \in 1..MaxFrames :
    (captured = n) ~> (received >= n \/ ~peer_flag \/ ~conn_flag \/ ~Alive)

\* The inner loop renders when a poll finds the socket empty, and nothing in
\* the code makes it stop while datagrams keep coming.  So this is what it
\* takes: while the renderer polls, the socket is not filled for ever, and
\* polls are made when it is empty.
PollsCatchUp ==
  /\ []<>(rend = "poll" => socket = <<>>)
  /\ SF_vars(WouldBlock)

\* If polls catch up with the stream, which may go on for ever, a frame that
\* has arrived is rendered, or a later one is, unless the renderer has
\* panicked, there is no peer or the run ends.
FramesRendered ==
  PollsCatchUp =>
    \A n \in 1..MaxArrivals :
      (arrived = n /\ peer_flag) ~>
        (rendered >= n \/ rend = "panicked" \/ ~peer_flag \/ ~conn_flag \/ ~Alive)

=============================================================================
