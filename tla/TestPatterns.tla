---------------------------- MODULE TestPatterns -----------------------------
(***************************************************************************)
(* The patterns of client/src/mock_frame_generator.rs, drawn into a frame  *)
(* by the value of frame_counter.                                          *)
(***************************************************************************)
EXTENDS AsciiFrame

Dot == 46     \* '.'
Hash == 35    \* '#'
Equals == 61  \* '='

PatternType == {"Checkerboard", "MovingLine"}

\* The board changes its colours every five frames.
GenerateCheckerboard(w, h, counter) ==
  SetCells(NewFrame(w, h, Blank),
           [c \in (0..(w - 1)) \X (0..(h - 1)) |->
              IF (((c[1] + c[2]) % 2) + ((counter \div 5) % 2)) % 2 = 0
              THEN Dot ELSE Hash])

GenerateMovingLine(w, h, counter) ==
  SetCells(NewFrame(w, h, Blank),
           [c \in (0..(w - 1)) \X (0..(h - 1)) |->
              IF c[2] = counter % h THEN Equals ELSE Blank])

GenerateFrame(pattern, w, h, counter) ==
  IF pattern = "Checkerboard" THEN GenerateCheckerboard(w, h, counter)
                              ELSE GenerateMovingLine(w, h, counter)

==============================================================================
