------------------------------ MODULE Renderer -------------------------------
(***************************************************************************)
(* The screen of client/src/ascii_renderer.rs: frames drawn on a terminal  *)
(* as the differences to the frame drawn before, through a buffered stdout *)
(* whose flush may fail, beside lines that others write to the terminal.   *)
(***************************************************************************)
EXTENDS AsciiFrame

CONSTANTS
  Columns, Rows,  \* of the terminal, at least as large as the frames
  Capacity        \* commands that the buffer of stdout holds

ASSUME TerminalAssumption == {Columns, Rows, Capacity} \subseteq Nat \ {0}

VARIABLES
  prev_frame,  \* what the renderer takes to be on the screen,
  prev_w,      \*   and its size
  prev_h,
  stdout,      \* commands that are printed and not yet written
  screen,      \* the characters on the terminal
  foreign,     \* others have written to it since it was cleared
  rendering    \* the task "starts", "runs" or has "panicked"

renderer == <<prev_frame, prev_w, prev_h, stdout, screen, foreign, rendering>>

Positions == (1..Columns) \X (1..Rows)
BlankScreen == [c \in Positions |-> Blank]

\* Commands: clear the screen, or put a character in a column of a row.
Clear == <<>>
Put(x, y, c) == <<x + 1, y + 1, c>>

\* A command says what a cell shows, or does not concern it; of several the
\* last one counts.
Concerns(command, c) == command = Clear \/ <<command[1], command[2]>> = c
Shown(command) == IF command = Clear THEN Blank ELSE command[3]

WriteAll(shown, commands) ==
  [c \in Positions |->
     LET writing == {i \in DOMAIN commands : Concerns(commands[i], c)}
     IN IF writing = {} THEN shown[c] ELSE Shown(commands[Max(writing)])]

RendererInit ==
  /\ prev_frame = <<>>
  /\ prev_w = 0
  /\ prev_h = 0
  /\ stdout = <<>>
  /\ screen \in {BlankScreen}
  /\ foreign = TRUE
  /\ rendering = "starts"

-----------------------------------------------------------------------------

\* n commands of the buffer and of those printed behind it are written.
Flush(commands, n) ==
  LET all == stdout \o commands
      written == SubSeq(all, 1, n)
  IN /\ stdout' = SubSeq(all, n + 1, Len(all))
     /\ screen' = WriteAll(screen, written)
     /\ foreign' = (foreign /\ Clear \notin Range(written))

Pending(commands) == Len(stdout) + Len(commands)

\* print! and the flush behind it, of which the first `sure` commands are
\* flushed before: all is written, or the flush fails and what is not written
\* stays in the buffer.
PrintOk(commands) == Flush(commands, Pending(commands))

PrintErr(commands, sure) ==
  \E n \in sure..(Pending(commands) - 1) :
    /\ Pending(commands) - n <= Capacity
    /\ Flush(commands, n)

\* The buffer runs full before a command fits, the write that this causes
\* fails, and print! panics: the task is gone.
PrintPanics(commands) ==
  /\ Pending(commands) > Capacity
  /\ \E k \in 0..(Len(commands) - 1) : \E n \in 0..(Len(stdout) + k - 1) :
       /\ Len(stdout) + k - n <= Capacity
       /\ Flush(SubSeq(commands, 1, k), n)
  /\ rendering' = "panicked"

\* new: clear_screen, and unwrap of its result.
Start ==
  /\ rendering = "starts"
  /\ \/ PrintOk(<<Clear>>) /\ rendering' = "runs"
     \/ PrintErr(<<Clear>>, 0) /\ rendering' = "panicked"
  /\ UNCHANGED <<prev_frame, prev_w, prev_h>>

Resized(frame) ==
  \/ frame.w # prev_w
  \/ frame.h # prev_h
  \/ Len(prev_frame) # frame.w * frame.h

Clearing(frame) == IF Resized(frame) THEN <<Clear>> ELSE <<>>

\* Mutant: a frame that gets larger or smaller is compared with the old one.
PreviousKept(frame) ==
  [i \in DOMAIN frame.chars |->
     IF i \in DOMAIN prev_frame THEN prev_frame[i] ELSE Blank]

\* prev_frame when the loops begin.
Previous(frame) ==
  IF Resized(frame) THEN NewFrame(frame.w, frame.h, Blank).chars ELSE prev_frame

\* What the loops print: the cells that differ, one row after the other.
PutCell(frame, i) == Put((i - 1) % frame.w, (i - 1) \div frame.w, frame.chars[i])

Changed(frame) == {i \in DOMAIN frame.chars : frame.chars[i] # Previous(frame)[i]}

Changes(frame) ==
  Gathered([i \in Changed(frame) |-> PutCell(frame, i)], Len(frame.chars))[Len(frame.chars)]

\* render returns early, with an empty frame for the last one, when the
\* screen cannot be cleared.
RenderNotCleared(frame) ==
  /\ Resized(frame)
  /\ PrintErr(<<Clear>>, 0)
  /\ prev_frame' = NewFrame(frame.w, frame.h, Blank).chars
  /\ UNCHANGED rendering

RenderChanges(frame) ==
  LET commands == Clearing(frame) \o Changes(frame)
      cleared == IF Resized(frame) THEN Len(stdout) + Len(Clearing(frame)) ELSE 0
  IN /\ \/ PrintOk(commands) /\ UNCHANGED rendering
        \/ PrintErr(commands, cleared) /\ UNCHANGED rendering
        \/ PrintPanics(commands)
     /\ prev_frame' = frame.chars

Render(frame) ==
  /\ rendering = "runs"
  /\ RenderNotCleared(frame) \/ RenderChanges(frame)
  /\ prev_w' = frame.w
  /\ prev_h' = frame.h

\* A line of eprintln! (this task's "Time over", the control reader's error)
\* or of println! (setup_default) lands where the cursor is, and may scroll
\* the terminal.
Foreign ==
  /\ foreign' = TRUE
  /\ UNCHANGED <<prev_frame, prev_w, prev_h, stdout, screen, rendering>>

-----------------------------------------------------------------------------

RendererTypeOK ==
  /\ prev_frame \in Seq(Nat)
  /\ Len(prev_frame) = prev_w * prev_h
  /\ prev_w \in 0..Columns
  /\ prev_h \in 0..Rows
  /\ Len(stdout) <= Capacity
  /\ \A i \in DOMAIN stdout :
       stdout[i] = Clear \/ stdout[i] \in (1..Columns) \X (1..Rows) \X Nat
  /\ DOMAIN screen = Positions
  /\ \A c \in Positions : IsChar(screen[c])
  /\ foreign \in BOOLEAN
  /\ rendering \in {"starts", "runs", "panicked"}

\* prev_frame, blank around.
Expected ==
  [c \in Positions |->
     IF c[1] <= prev_w /\ c[2] <= prev_h
     THEN prev_frame[(c[2] - 1) * prev_w + c[1]] ELSE Blank]

\* The differences that render prints are to what the terminal shows, or
\* will show once the buffer is written: prev_frame is changed although the
\* flush behind it may fail, and reset although clear_screen may fail.  That
\* no one else has written to the terminal is the premise.
ScreenFollows ==
  rendering = "runs" /\ ~(foreign /\ Clear \notin Range(stdout)) =>
    WriteAll(screen, stdout) = Expected

==============================================================================
