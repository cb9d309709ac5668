---------------------------- MODULE EdgeDetector ----------------------------
(***************************************************************************)
(* The edge detection thread of client/src/edge_detector.rs and the thread *)
(* that converts frames (AsciiConverter::convert), which share a buffer, a *)
(* flag and the edges, each behind a mutex of its own.                     *)
(*                                                                         *)
(* Frames are numbered in the order in which they are submitted; 0 is the  *)
(* empty buffer, and the edges (all zero) from before the first frame.  A  *)
(* step acquires one mutex or does one thing under those it holds.  A      *)
(* section under one mutex that does a single thing is one step.           *)
(***************************************************************************)
EXTENDS Naturals

CONSTANT MaxFrames  \* bound: frames submitted

ASSUME MaxFramesAssumption == MaxFrames \in Nat

VARIABLES
  converter,            \* where the converting thread is
  detector,             \* where the edge detection thread is
  submitted,            \* the number of the last frame submitted
  frame_buffer,         \* the frame in the buffer
  buffer_lock,          \* who holds the mutex of frame_buffer
  new_frame_available,  \* the flag
  flag_lock,
  edge_info,            \* the frames whose magnitude and angle it holds
  info_lock,
  frame_data,           \* the detector's copy of the buffer
  info,                 \* what get_edge_info last returned
  running               \* cleared by stop()

handoff == <<submitted, frame_buffer, buffer_lock, new_frame_available, flag_lock>>
result == <<edge_info, info_lock>>
vars == <<converter, detector, handoff, result, frame_data, info, running>>

Owner == {"nobody", "converter", "detector"}
ConverterState == {"idle", "fill", "flag", "release", "read", "angle"}
DetectorState ==
  {"running", "flag", "test", "copy", "magnitude", "angle", "ended"}
EdgeInfo == [magnitude : 0..MaxFrames, angle : 0..MaxFrames]

TypeOK ==
  /\ converter \in ConverterState
  /\ detector \in DetectorState
  /\ submitted \in 0..MaxFrames
  /\ frame_buffer \in 0..submitted
  /\ {buffer_lock, flag_lock, info_lock} \subseteq Owner
  /\ new_frame_available \in BOOLEAN
  /\ edge_info \in EdgeInfo
  /\ frame_data \in 0..MaxFrames
  /\ info \in EdgeInfo
  /\ running \in BOOLEAN

Init ==
  /\ converter = "idle"
  /\ detector = "running"
  /\ submitted = 0
  /\ frame_buffer = 0
  /\ buffer_lock = "nobody"
  /\ new_frame_available = FALSE
  /\ flag_lock = "nobody"
  /\ edge_info = [magnitude |-> 0, angle |-> 0]
  /\ info_lock = "nobody"
  /\ frame_data = 0
  /\ info = [magnitude |-> 0, angle |-> 0]
  /\ running = TRUE

Converter(from, to) == converter = from /\ converter' = to
Detector(from, to) == detector = from /\ detector' = to

-----------------------------------------------------------------------------
(* The converting thread: submit_frame, then get_edge_info.                *)

\* submit_frame: the buffer is locked and cleared.
Submit ==
  /\ Converter("idle", "fill")
  /\ submitted < MaxFrames
  /\ buffer_lock = "nobody"
  /\ buffer_lock' = "converter"
  /\ frame_buffer' = 0
  /\ submitted' = submitted + 1
  /\ UNCHANGED <<new_frame_available, flag_lock, result, info>>

\* Mutant: the number of the frame after this one.
FillNext ==
  /\ Converter("fill", "flag")
  /\ frame_buffer' = submitted + 1
  /\ UNCHANGED <<submitted, buffer_lock, new_frame_available, flag_lock, result, info>>

Fill ==
  /\ Converter("fill", "flag")
  /\ frame_buffer' = submitted
  /\ UNCHANGED <<submitted, buffer_lock, new_frame_available, flag_lock, result, info>>

\* The flag is locked and raised while the buffer is still locked.
RaiseFlag ==
  /\ Converter("flag", "release")
  /\ flag_lock = "nobody"
  /\ flag_lock' = "converter"
  /\ new_frame_available' = TRUE
  /\ UNCHANGED <<submitted, frame_buffer, buffer_lock, result, info>>

\* The guards go out of scope.
Release ==
  /\ Converter("release", "read")
  /\ flag_lock' = "nobody"
  /\ buffer_lock' = "nobody"
  /\ UNCHANGED <<submitted, frame_buffer, new_frame_available, result, info>>

\* get_edge_info: the lock and the first field, then the second.
ReadMagnitude ==
  /\ Converter("read", "angle")
  /\ info_lock = "nobody"
  /\ info_lock' = "converter"
  /\ info' = [info EXCEPT !.magnitude = edge_info.magnitude]
  /\ UNCHANGED <<handoff, edge_info>>

ReadAngle ==
  /\ Converter("angle", "idle")
  /\ info' = [info EXCEPT !.angle = edge_info.angle]
  /\ info_lock' = "nobody"
  /\ UNCHANGED <<handoff, edge_info>>

ConverterStep ==
  /\ Submit \/ Fill \/ RaiseFlag \/ Release \/ ReadMagnitude \/ ReadAngle
  /\ UNCHANGED <<detector, frame_data, running>>

\* stop(), a public method that nobody calls while the client runs.
Stop ==
  /\ running
  /\ running' = FALSE
  /\ UNCHANGED <<converter, detector, handoff, result, frame_data, info>>

-----------------------------------------------------------------------------
(* The edge detection thread: the loop of start.                           *)

\* Mutant: the loop does not look at running.
CheckNothing ==
  /\ Detector("running", "flag")
  /\ UNCHANGED <<handoff, result, frame_data>>

Check ==
  /\ Detector("running", IF running THEN "flag" ELSE "ended")
  /\ UNCHANGED <<handoff, result, frame_data>>

LockFlag ==
  /\ Detector("flag", "test")
  /\ flag_lock = "nobody"
  /\ flag_lock' = "detector"
  /\ UNCHANGED <<submitted, frame_buffer, buffer_lock, new_frame_available,
                 result, frame_data>>

\* Mutant: the buffer is copied inside the block that holds the flag.
TestFlagCopies ==
  /\ Detector("test", IF new_frame_available THEN "magnitude" ELSE "running")
  /\ new_frame_available =>
       buffer_lock = "nobody" /\ frame_data' = frame_buffer
  /\ ~new_frame_available => UNCHANGED frame_data
  /\ new_frame_available' = FALSE
  /\ flag_lock' = "nobody"
  /\ UNCHANGED <<submitted, frame_buffer, buffer_lock, result>>

\* The flag is read, cleared and unlocked before the buffer is touched.
TestFlag ==
  /\ Detector("test", IF new_frame_available THEN "copy" ELSE "running")
  /\ new_frame_available' = FALSE
  /\ flag_lock' = "nobody"
  /\ UNCHANGED <<submitted, frame_buffer, buffer_lock, result, frame_data>>

\* Mutant: the buffer is copied without its lock.
CopyUnlocked ==
  /\ Detector("copy", "magnitude")
  /\ frame_data' = frame_buffer
  /\ UNCHANGED <<handoff, result>>

Copy ==
  /\ Detector("copy", "magnitude")
  /\ buffer_lock = "nobody"
  /\ frame_data' = frame_buffer
  /\ UNCHANGED <<handoff, result>>

\* Mutant: the edges are written without their lock.
WriteMagnitudeUnlocked ==
  /\ Detector("magnitude", "angle")
  /\ edge_info' = [edge_info EXCEPT !.magnitude = frame_data]
  /\ UNCHANGED <<handoff, info_lock, frame_data>>

\* process_frame on the copy, then the lock and the first field.
WriteMagnitude ==
  /\ Detector("magnitude", "angle")
  /\ info_lock = "nobody"
  /\ info_lock' = "detector"
  /\ edge_info' = [edge_info EXCEPT !.magnitude = frame_data]
  /\ UNCHANGED <<handoff, frame_data>>

\* Mutant: the flag is cleared once the frame has been processed.
WriteAngleClears ==
  /\ Detector("angle", "running")
  /\ edge_info' = [edge_info EXCEPT !.angle = frame_data]
  /\ info_lock' = "nobody"
  /\ flag_lock = "nobody"
  /\ new_frame_available' = FALSE
  /\ UNCHANGED <<submitted, frame_buffer, buffer_lock, flag_lock, frame_data>>

WriteAngle ==
  /\ Detector("angle", "running")
  /\ edge_info' = [edge_info EXCEPT !.angle = frame_data]
  /\ info_lock' = "nobody"
  /\ UNCHANGED <<handoff, frame_data>>

DetectorStep ==
  /\ \/ Check
     \/ LockFlag
     \/ TestFlag
     \/ Copy
     \/ WriteMagnitude
     \/ WriteAngle
  /\ UNCHANGED <<converter, info, running>>

-----------------------------------------------------------------------------

\* Every frame is converted and the thread has been stopped.
Finished ==
  /\ converter = "idle"
  /\ submitted = MaxFrames
  /\ detector = "ended"
  /\ UNCHANGED vars

Next == ConverterStep \/ DetectorStep \/ Stop \/ Finished

Spec == Init /\ [][Next]_vars

\* The operating system runs both threads, and a thread that keeps asking for
\* a mutex that is free again and again gets it: strong fairness, because the
\* detector never sleeps (the sleep of its loop is commented out) and takes
\* the flag's mutex on every turn, and because the mutexes have no queue.
Fairness == SF_vars(ConverterStep) /\ SF_vars(DetectorStep)

FairSpec == Spec /\ Fairness

-----------------------------------------------------------------------------

\* What get_edge_info returns is the magnitude and the angle of one frame,
\* though the detector replaces them one after the other.
EdgesOfOneFrame == converter = "idle" => info.magnitude = info.angle

\* No frame is lost in the hand-off: when the detector has none in hand and
\* the flag is down, the edges are those of the last frame submitted.
NoLostFrame ==
  /\ detector \in {"running", "flag", "test"}
  /\ converter \notin {"fill", "flag"}
  /\ ~new_frame_available
  => edge_info = [magnitude |-> submitted, angle |-> submitted]

\* The edges never go back to those of an earlier frame or of a buffer that
\* has been cleared and not filled.
EdgesAdvance ==
  [][/\ edge_info'.magnitude >= edge_info.magnitude
     /\ edge_info'.angle >= edge_info.angle]_edge_info

\* A frame submitted is processed, or a later one is: neither thread waits
\* for ever for a mutex of the other, though submit_frame takes one while it
\* holds another.
EveryFrameOvertaken ==
  \A n \in 1..MaxFrames :
    (submitted = n) ~> (edge_info.angle >= n \/ ~running)

\* stop() ends the thread, whatever it is doing.
StopEnds == ~running ~> detector = "ended"

=============================================================================
