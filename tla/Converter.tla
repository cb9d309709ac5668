------------------------------ MODULE Converter ------------------------------
(***************************************************************************)
(* How a picture becomes a frame of characters: convert, adjust_pixel and  *)
(* angle_to_edge of client/src/ascii_converter.rs, get_pixel of            *)
(* client/src/image_frame.rs.                                              *)
(*                                                                         *)
(* Arithmetic is exact, as in Edges: contrast and brightness are fractions *)
(* of one denominator, and `as usize` and `as u8` round down.              *)
(***************************************************************************)
EXTENDS Edges, AsciiFrame

CONSTANTS
  SCALE,            \* what a weight of 1.0 is in units of the luminances
  Contrast,         \* numerators of contrast and brightness over
  Brightness,       \* Denominator: 3, 0 and 2 for 1.5 and 0.0
  Denominator,
  ascii_intensity,  \* the tables of characters
  ascii_horizontal,
  ascii_vertical,
  ascii_forward,
  ascii_back

Tables ==
  {ascii_intensity, ascii_horizontal, ascii_vertical, ascii_forward, ascii_back}

ASSUME ConverterAssumption ==
  /\ Contrast \in Nat
  /\ Brightness \in Int
  /\ Denominator \in Nat \ {0}
  /\ SCALE \in Nat \ {0}
  /\ R_LUMINANCE + G_LUMINANCE + B_LUMINANCE <= SCALE
  /\ MAX # 0
  /\ \A table \in Tables :
       table \in Seq(Nat) /\ table # <<>> /\ \A i \in DOMAIN table : IsChar(table[i])

NoPixel == <<>>

\* get_pixel: the pixel, or None outside of the picture.
GetPixel(image, x, y) ==
  IF x < image.w /\ y < image.h THEN image.pixel[<<x, y>>] ELSE NoPixel

Least(m, n) == IF m < n THEN m ELSE n

Clamp(n) == IF n < 0 THEN 0 ELSE Least(n, MAX)

\* Mutant: the sum wraps around in eight bits.
AdjustUnclamped(value) ==
  (((2 * value - MAX) * Contrast + MAX * Denominator
     + 2 * MAX * Brightness) \div (2 * Denominator)) % (MAX + 1)

\* adjust_pixel, one channel: contrast around the middle, then brightness.
Adjust(value) ==
  Clamp(((2 * value - MAX) * Contrast + MAX * Denominator
          + 2 * MAX * Brightness) \div (2 * Denominator))

\* calculate_intensity_u8 of the adjusted pixel.
IntensityU8(rgb) ==
  CalculateIntensity(<<Adjust(rgb[1]), Adjust(rgb[2]), Adjust(rgb[3])>>) \div SCALE

\* The position in ascii_intensity: sequences begin at 1.
IntensityIndex(rgb) ==
  1 + Least((IntensityU8(rgb) * Len(ascii_intensity)) \div MAX,
            Len(ascii_intensity) - 1)

\* The largest position, counted from 0, that magnitude / 255 * len reaches
\* in a table of that length; the code caps it at the length of one table
\* and then of the one it looks into.
Reached(magnitude, k, len) ==
  (k * MAX * SCALE) * (k * MAX * SCALE) <= magnitude * len * len

EdgeIndex(magnitude, table) ==
  LET len == Len(ascii_horizontal)
      char_i == Max({k \in 0..(len - 1) : Reached(magnitude, k, len)})
  IN 1 + Least(char_i, Len(table) - 1)

\* The sectors are those of non_maximum_suppression.
AngleToEdge(gradient, magnitude) ==
  LET table == CASE Sector(gradient) = "horizontal" -> ascii_horizontal
                 [] Sector(gradient) = "forward"    -> ascii_forward
                 [] Sector(gradient) = "vertical"   -> ascii_vertical
                 [] OTHER                           -> ascii_back
  IN table[EdgeIndex(magnitude, table)]

\* i_x and i_y: the pixel that stands for a cell.
Scaled(image, frame, x, y) ==
  <<(x * image.w) \div frame.w, (y * image.h) \div frame.h>>

\* Mutant: black pixels are left out, as if the frame that is drawn into
\* were blank.
CharOfSkipsBlack(image, edges, p) ==
  LET e == <<Least(p[1], edges.w - 1), Least(p[2], edges.h - 1)>>
      rgb == GetPixel(image, p[1], p[2])
  IN CASE edges.magnitude[e] > Threshold * Threshold ->
            AngleToEdge(edges.angle[e], edges.magnitude[e])
       [] edges.magnitude[e] <= Threshold * Threshold /\ rgb \notin {NoPixel, <<0, 0, 0>>} ->
            ascii_intensity[IntensityIndex(rgb)]
       [] OTHER -> NoChar

\* The character of the cell whose pixel is p: of the edge that the detector
\* found there, in this picture or in an earlier one, or of its brightness.
CharOf(image, edges, p) ==
  LET e == <<Least(p[1], edges.w - 1), Least(p[2], edges.h - 1)>>
      rgb == GetPixel(image, p[1], p[2])
  IN CASE edges.magnitude[e] > Threshold * Threshold ->
            AngleToEdge(edges.angle[e], edges.magnitude[e])
       [] edges.magnitude[e] <= Threshold * Threshold /\ rgb # NoPixel ->
            ascii_intensity[IntensityIndex(rgb)]
       [] OTHER -> NoChar

\* The frame that convert leaves in frame, which is used over and over.
Convert(image, frame, edges) ==
  SetCells(frame,
           [c \in Cells(frame.w, frame.h) |->
              CharOf(image, edges, Scaled(image, frame, c[1], c[2]))])

-----------------------------------------------------------------------------

\* Of two pixels of a picture the brighter is not shown darker: contrast,
\* brightness and the two roundings keep the order of the characters, and no
\* channel wraps around.
KeepsOrder(image) ==
  \A c, d \in Cells(image.w, image.h) :
    LET p == image.pixel[c]
        q == image.pixel[d]
    IN p[1] <= q[1] /\ p[2] <= q[2] /\ p[3] <= q[3] =>
         /\ IntensityIndex(p) <= IntensityIndex(q)
         /\ IntensityIndex(q) \in DOMAIN ascii_intensity

==============================================================================
