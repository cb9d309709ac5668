-------------------------------- MODULE Edges --------------------------------
(***************************************************************************)
(* What the edge detection thread computes: process_frame of               *)
(* client/src/edge_detector.rs on an ImageFrame of client/src/image_frame.rs. *)
(*                                                                         *)
(* A picture is a record of its size and its pixels, a function over       *)
(* columns and rows (the code's index is y * w + x).  Arithmetic is exact: *)
(* intensities are integers in units of the luminance coefficients, a      *)
(* magnitude is represented by its square and an angle by the gradient it  *)
(* is the angle of.  Where the code compares floating point numbers that   *)
(* differ only in rounding, it may decide otherwise.                       *)
(***************************************************************************)
EXTENDS Integers

CONSTANTS
  R_LUMINANCE, G_LUMINANCE, B_LUMINANCE,  \* weights of the channels
  Threshold,                              \* least magnitude of an edge
  MAX,                                    \* the largest channel: 255
  Pictures                                \* what a camera may deliver

Cells(w, h) == (0..(w - 1)) \X (0..(h - 1))

\* Pixels are triples of channels.
Rgb == (0..MAX) \X (0..MAX) \X (0..MAX)

\* ImageFrame::new refuses a size of zero.
ImageFrames(w, h) == [w : {w}, h : {h}, pixel : [Cells(w, h) -> Rgb]]

ASSUME EdgesAssumption ==
  /\ {R_LUMINANCE, G_LUMINANCE, B_LUMINANCE, MAX} \subseteq Nat
  /\ Threshold \in Nat \ {0}
  /\ \A p \in Pictures :
       p.w \in Nat \ {0} /\ p.h \in Nat \ {0} /\ p \in ImageFrames(p.w, p.h)

CalculateIntensity(rgb) ==
  R_LUMINANCE * rgb[1] + G_LUMINANCE * rgb[2] + B_LUMINANCE * rgb[3]

CreateIntensityMap(frame) ==
  [c \in Cells(frame.w, frame.h) |-> CalculateIntensity(frame.pixel[c])]

\* The loops leave out the first and the last column and row.
Inner(x, y, w, h) == x \in 1..(w - 2) /\ y \in 1..(h - 2)

\* gx and gy at one pixel, term by term as the code adds them.
SobelX(I, x, y) ==
  - I[<<x - 1, y - 1>>] + I[<<x + 1, y - 1>>]
  - 2 * I[<<x - 1, y>>] + 2 * I[<<x + 1, y>>]
  - I[<<x - 1, y + 1>>] + I[<<x + 1, y + 1>>]

\* Mutant: two rows swapped in one column of the kernel.
SobelYSwapped(I, x, y) ==
  - I[<<x - 1, y - 1>>] - 2 * I[<<x, y - 1>>] + I[<<x + 1, y - 1>>]
  + I[<<x - 1, y + 1>>] + 2 * I[<<x, y + 1>>] - I[<<x + 1, y + 1>>]

SobelY(I, x, y) ==
  - I[<<x - 1, y - 1>>] - 2 * I[<<x, y - 1>>] - I[<<x + 1, y - 1>>]
  + I[<<x - 1, y + 1>>] + 2 * I[<<x, y + 1>>] + I[<<x + 1, y + 1>>]

Gradient(I, w, h, x, y) ==
  IF Inner(x, y, w, h) THEN <<SobelX(I, x, y), SobelY(I, x, y)>> ELSE <<0, 0>>

Sobel(I, w, h) == [c \in Cells(w, h) |-> Gradient(I, w, h, c[1], c[2])]

\* The square of the magnitude of a gradient.
Magnitude(g) == g[1] * g[1] + g[2] * g[2]

Abs(n) == IF n < 0 THEN - n ELSE n

\* |v| < tan(22.5 degrees) * |u|, or both are 0.
Flat(u, v) ==
  (Abs(u) + Abs(v)) * (Abs(u) + Abs(v)) < 2 * u * u \/ (u = 0 /\ v = 0)

\* The angle of a gradient, normalized to 0-180 degrees, falls into one of
\* four sectors of 45 degrees.
Sector(g) ==
  CASE Flat(g[1], g[2]) -> "horizontal"
    [] ~Flat(g[1], g[2]) /\ Flat(g[2], g[1]) -> "vertical"
    [] OTHER -> IF (g[1] > 0) = (g[2] > 0) THEN "forward" ELSE "back"

\* Mutant: the two branches of the diagonals give the same neighbours.
NeighboursSame(sector, x, y) ==
  CASE sector = "horizontal" -> {<<x + 1, y>>, <<x - 1, y>>}
    [] sector = "vertical"   -> {<<x, y - 1>>, <<x, y + 1>>}
    [] OTHER                 -> {<<x + 1, y - 1>>, <<x - 1, y + 1>>}

\* The two neighbours a magnitude is compared with.
Neighbours(sector, x, y) ==
  CASE sector = "horizontal" -> {<<x + 1, y>>, <<x - 1, y>>}
    [] sector = "forward"    -> {<<x + 1, y - 1>>, <<x - 1, y + 1>>}
    [] sector = "vertical"   -> {<<x, y - 1>>, <<x, y + 1>>}
    [] OTHER                 -> {<<x - 1, y - 1>>, <<x + 1, y + 1>>}

MagnitudeAt(G, w, h, n) == IF n \in Cells(w, h) THEN Magnitude(G[n]) ELSE 0

\* A strong pixel that none of its two neighbours exceeds.
Survives(G, w, h, x, y) ==
  /\ Inner(x, y, w, h)
  /\ Magnitude(G[<<x, y>>]) >= Threshold * Threshold
  /\ \A n \in Neighbours(Sector(G[<<x, y>>]), x, y) :
       Magnitude(G[<<x, y>>]) >= MagnitudeAt(G, w, h, n)

NonMaximumSuppression(G, w, h) ==
  [c \in Cells(w, h) |->
     IF Survives(G, w, h, c[1], c[2]) THEN Magnitude(G[c]) ELSE 0]

\* An EdgeInfo: its angle field holds gradients.
ProcessFrame(frame) ==
  LET G == Sobel(CreateIntensityMap(frame), frame.w, frame.h)
  IN [w |-> frame.w, h |-> frame.h,
      magnitude |-> NonMaximumSuppression(G, frame.w, frame.h), angle |-> G]

\* EdgeDetector::new: what there is before the first frame is processed.
NoEdges(w, h) ==
  [w |-> w, h |-> h, magnitude |-> [c \in Cells(w, h) |-> 0],
   angle |-> [c \in Cells(w, h) |-> <<0, 0>>]]

-----------------------------------------------------------------------------
(* References for what the code computes.                                  *)

\* The kernels, as the comment of sobel gives them.
KernelX == <<<<-1, 0, 1>>, <<-2, 0, 2>>, <<-1, 0, 1>>>>
KernelY == <<<<-1, -2, -1>>, <<0, 0, 0>>, <<1, 2, 1>>>>

KernelRow(K, I, x, y, j) ==
  K[j][1] * I[<<x - 1, y + j - 2>>] + K[j][2] * I[<<x, y + j - 2>>]
    + K[j][3] * I[<<x + 1, y + j - 2>>]

Convolve(K, I, x, y) ==
  KernelRow(K, I, x, y, 1) + KernelRow(K, I, x, y, 2) + KernelRow(K, I, x, y, 3)

\* The pixel before and the pixel after in the direction of the gradient,
\* rounded to one of eight.  Rows are counted downwards, as gy is.
AlongGradient(sector, x, y) ==
  CASE sector = "horizontal" -> {<<x + 1, y>>, <<x - 1, y>>}
    [] sector = "forward"    -> {<<x + 1, y + 1>>, <<x - 1, y - 1>>}
    [] sector = "vertical"   -> {<<x, y - 1>>, <<x, y + 1>>}
    [] OTHER                 -> {<<x - 1, y + 1>>, <<x + 1, y - 1>>}

\* The picture seen in a mirror, and the picture with columns for rows.
Mirrored(frame) ==
  [frame EXCEPT !.pixel =
     [c \in Cells(frame.w, frame.h) |-> frame.pixel[<<frame.w - 1 - c[1], c[2]>>]]]

Transposed(frame) ==
  [w |-> frame.h, h |-> frame.w,
   pixel |-> [c \in Cells(frame.h, frame.w) |-> frame.pixel[<<c[2], c[1]>>]]]

\* The derivatives that are added up, term by term, are those of the two
\* documented kernels.
MatchesKernels(frame) ==
  LET I == CreateIntensityMap(frame)
      G == Sobel(I, frame.w, frame.h)
  IN \A x \in 1..(frame.w - 2), y \in 1..(frame.h - 2) :
       G[<<x, y>>] = <<Convolve(KernelX, I, x, y), Convolve(KernelY, I, x, y)>>

\* The sector of an edge in the mirrored and in the transposed picture.
MirroredSector(sector) ==
  CASE sector = "forward" -> "back"
    [] sector = "back" -> "forward"
    [] OTHER -> sector

TransposedSector(sector) ==
  CASE sector = "horizontal" -> "vertical"
    [] sector = "vertical" -> "horizontal"
    [] OTHER -> sector

\* What is an edge, how strong and in which direction, does not depend on
\* which way the picture is held: the edges of the mirrored and of the
\* transposed picture are the mirrored and the transposed edges.  All eight
\* symmetries follow from these two.
TurnsWithPicture(frame) ==
  LET edges == ProcessFrame(frame)
      mirrored == ProcessFrame(Mirrored(frame))
      transposed == ProcessFrame(Transposed(frame))
  IN \A x \in 0..(frame.w - 1), y \in 0..(frame.h - 1) :
       /\ mirrored.magnitude[<<frame.w - 1 - x, y>>] = edges.magnitude[<<x, y>>]
       /\ transposed.magnitude[<<y, x>>] = edges.magnitude[<<x, y>>]
       /\ edges.magnitude[<<x, y>>] # 0 =>
            /\ Sector(mirrored.angle[<<frame.w - 1 - x, y>>]) =
                 MirroredSector(Sector(edges.angle[<<x, y>>]))
            /\ Sector(transposed.angle[<<y, x>>]) =
                 TransposedSector(Sector(edges.angle[<<x, y>>]))

\* "By examining each pixel and its neighbors along the gradient direction,
\* the function determines a local maximum": an edge is at least as strong
\* as the pixels before and after it along its gradient.
KeepsLocalMaxima(frame) ==
  LET edges == ProcessFrame(frame)
  IN \A x \in 1..(frame.w - 2), y \in 1..(frame.h - 2) :
       edges.magnitude[<<x, y>>] # 0 =>
         \A n \in AlongGradient(Sector(edges.angle[<<x, y>>]), x, y) :
           edges.magnitude[<<x, y>>] >= MagnitudeAt(edges.angle, frame.w, frame.h, n)

==============================================================================
