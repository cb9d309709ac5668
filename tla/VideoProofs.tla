---------------------------- MODULE VideoProofs -----------------------------
(***************************************************************************)
(* What holds of every picture that a client captures and of every frame   *)
(* on its way to the screen, for every set of pictures, every table of     *)
(* characters, frames of every size and any number of them.                *)
(***************************************************************************)
EXTENDS Video, EdgesProofs, RendererProofs, FiniteSetTheorems

-----------------------------------------------------------------------------
(* The order of brightness.                                                *)

LEMMA DivMonotone ==
  ASSUME NEW m \in Int, NEW n \in Int, NEW k \in Nat \ {0}, m <= n
  PROVE  m \div k \in Int /\ m \div k <= n \div k
  OBVIOUS

LEMMA DivBounds ==
  ASSUME NEW m \in Nat, NEW n \in Nat, NEW k \in Nat \ {0}, m <= n * k
  PROVE  m \div k \in 0..n
  OBVIOUS

LEMMA DivNat ==
  ASSUME NEW m \in Nat, NEW k \in Nat \ {0}
  PROVE  m \div k \in Nat
  OBVIOUS

LEMMA TimesMonotone ==
  ASSUME NEW m \in Int, NEW n \in Int, NEW k \in Nat, m <= n
  PROVE  m * k <= n * k /\ k * m <= k * n
  OBVIOUS

LEMMA AdjustMonotone ==
  ASSUME NEW a \in 0..MAX, NEW b \in 0..MAX, a <= b
  PROVE  /\ Adjust(a) \in 0..MAX /\ Adjust(b) \in 0..MAX
         /\ Adjust(a) <= Adjust(b)
  <1> DEFINE Level(v) == (2 * v - MAX) * Contrast + MAX * Denominator + 2 * MAX * Brightness
             k == 2 * Denominator
  <1>1. /\ MAX \in Nat /\ Contrast \in Nat /\ Brightness \in Int /\ k \in Nat \ {0}
        /\ Denominator \in Nat
    BY EdgesAssumption, ConverterAssumption
  <1>2. (2 * a - MAX) * Contrast \in Int /\ (2 * b - MAX) * Contrast \in Int
    BY <1>1
  <1>3. (2 * a - MAX) * Contrast <= (2 * b - MAX) * Contrast
    BY <1>1, TimesMonotone
  <1>4. MAX * Denominator \in Int /\ 2 * MAX * Brightness \in Int
    BY <1>1
  <1>5. Level(a) \in Int /\ Level(b) \in Int /\ Level(a) <= Level(b)
    BY <1>2, <1>3, <1>4
  <1> HIDE DEF Level, k
  <1>6. /\ Level(a) \div k \in Int /\ Level(b) \div k \in Int
        /\ Level(a) \div k <= Level(b) \div k
    BY <1>1, <1>5, DivMonotone
  <1>7. Adjust(a) = Clamp(Level(a) \div k) /\ Adjust(b) = Clamp(Level(b) \div k)
    BY DEF Adjust, Level, k
  <1> QED  BY <1>1, <1>6, <1>7 DEF Clamp, Least

\* No channel of an adjusted pixel wraps around, and the intensity of the
\* brighter of two pixels is the larger.
LEMMA IntensityMonotone ==
  ASSUME NEW p \in Rgb, NEW q \in Rgb,
         p[1] <= q[1], p[2] <= q[2], p[3] <= q[3]
  PROVE  /\ IntensityU8(p) \in 0..MAX /\ IntensityU8(q) \in 0..MAX
         /\ IntensityU8(p) <= IntensityU8(q)
  <1>1. /\ R_LUMINANCE \in Nat /\ G_LUMINANCE \in Nat /\ B_LUMINANCE \in Nat
        /\ MAX \in Nat /\ SCALE \in Nat \ {0}
        /\ R_LUMINANCE + G_LUMINANCE + B_LUMINANCE <= SCALE
    BY EdgesAssumption, ConverterAssumption
  <1>2. /\ p[1] \in 0..MAX /\ p[2] \in 0..MAX /\ p[3] \in 0..MAX
        /\ q[1] \in 0..MAX /\ q[2] \in 0..MAX /\ q[3] \in 0..MAX
    BY DEF Rgb
  <1> DEFINE Weighted(r, g, b) == R_LUMINANCE * r + G_LUMINANCE * g + B_LUMINANCE * b
  <1>3. ASSUME NEW r \in 0..MAX, NEW g \in 0..MAX, NEW b \in 0..MAX
        PROVE  Weighted(r, g, b) \in Nat /\ Weighted(r, g, b) <= MAX * SCALE
    <2>1. /\ R_LUMINANCE * r <= R_LUMINANCE * MAX /\ R_LUMINANCE * r \in Nat
          /\ G_LUMINANCE * g <= G_LUMINANCE * MAX /\ G_LUMINANCE * g \in Nat
          /\ B_LUMINANCE * b <= B_LUMINANCE * MAX /\ B_LUMINANCE * b \in Nat
      BY <1>1, TimesMonotone
    <2>2. R_LUMINANCE * MAX + G_LUMINANCE * MAX + B_LUMINANCE * MAX
            = MAX * (R_LUMINANCE + G_LUMINANCE + B_LUMINANCE)
      BY <1>1
    <2>3. MAX * (R_LUMINANCE + G_LUMINANCE + B_LUMINANCE) <= MAX * SCALE
      BY <1>1, TimesMonotone
    <2>4. /\ R_LUMINANCE * MAX \in Nat /\ G_LUMINANCE * MAX \in Nat
          /\ B_LUMINANCE * MAX \in Nat /\ MAX * SCALE \in Nat
      BY <1>1
    <2> QED  BY <2>1, <2>2, <2>3, <2>4
  <1>4. ASSUME NEW r \in 0..MAX, NEW g \in 0..MAX, NEW b \in 0..MAX,
               NEW s \in 0..MAX, NEW t \in 0..MAX, NEW u \in 0..MAX,
               r <= s, g <= t, b <= u
        PROVE  Weighted(r, g, b) <= Weighted(s, t, u)
    <2>1. /\ R_LUMINANCE * r <= R_LUMINANCE * s
          /\ G_LUMINANCE * g <= G_LUMINANCE * t
          /\ B_LUMINANCE * b <= B_LUMINANCE * u
      <3>1. R_LUMINANCE * r <= R_LUMINANCE * s
        BY <1>1, <1>4, TimesMonotone
      <3>2. G_LUMINANCE * g <= G_LUMINANCE * t
        BY <1>1, <1>4, TimesMonotone
      <3>3. B_LUMINANCE * b <= B_LUMINANCE * u
        BY <1>1, <1>4, TimesMonotone
      <3> QED  BY <3>1, <3>2, <3>3
    <2>2. /\ R_LUMINANCE * r \in Nat /\ R_LUMINANCE * s \in Nat
          /\ G_LUMINANCE * g \in Nat /\ G_LUMINANCE * t \in Nat
          /\ B_LUMINANCE * b \in Nat /\ B_LUMINANCE * u \in Nat
      BY <1>1
    <2> QED  BY <2>1, <2>2
  <1> HIDE DEF Weighted
  <1>5. \A c \in Rgb : IntensityU8(c) =
          Weighted(Adjust(c[1]), Adjust(c[2]), Adjust(c[3])) \div SCALE
    BY DEF IntensityU8, CalculateIntensity, Weighted
  <1>6. /\ Adjust(p[1]) \in 0..MAX /\ Adjust(p[2]) \in 0..MAX /\ Adjust(p[3]) \in 0..MAX
        /\ Adjust(q[1]) \in 0..MAX /\ Adjust(q[2]) \in 0..MAX /\ Adjust(q[3]) \in 0..MAX
        /\ Adjust(p[1]) <= Adjust(q[1]) /\ Adjust(p[2]) <= Adjust(q[2])
        /\ Adjust(p[3]) <= Adjust(q[3])
    BY <1>2, AdjustMonotone
  <1> DEFINE m == Weighted(Adjust(p[1]), Adjust(p[2]), Adjust(p[3]))
             n == Weighted(Adjust(q[1]), Adjust(q[2]), Adjust(q[3]))
  <1>7. /\ m \in Nat /\ n \in Nat /\ m <= n
        /\ m <= MAX * SCALE /\ n <= MAX * SCALE
    BY <1>3, <1>4, <1>6
  <1>8. IntensityU8(p) = m \div SCALE /\ IntensityU8(q) = n \div SCALE
    BY <1>5
  <1> HIDE DEF m, n
  <1> QED  BY <1>1, <1>7, <1>8, DivMonotone, DivBounds

LEMMA IndexMonotone ==
  ASSUME NEW p \in Rgb, NEW q \in Rgb,
         p[1] <= q[1], p[2] <= q[2], p[3] <= q[3]
  PROVE  /\ IntensityIndex(p) <= IntensityIndex(q)
         /\ IntensityIndex(q) \in DOMAIN ascii_intensity
  <1> DEFINE len == Len(ascii_intensity)
             m == IntensityU8(p) * len
             n == IntensityU8(q) * len
             i == m \div MAX
             j == n \div MAX
  <1>1. /\ MAX \in Nat \ {0} /\ len \in Nat \ {0}
        /\ DOMAIN ascii_intensity = 1..len
    BY EdgesAssumption, ConverterAssumption DEF Tables
  <1>2. /\ IntensityU8(p) \in Nat /\ IntensityU8(q) \in Nat
        /\ IntensityU8(p) <= IntensityU8(q)
    BY <1>1, IntensityMonotone
  <1> HIDE DEF len
  <1>3. m \in Nat /\ n \in Nat /\ m <= n
    BY <1>1, <1>2, TimesMonotone
  <1> HIDE DEF m, n
  <1>4. i \in Int /\ j \in Int /\ i <= j
    BY <1>1, <1>3, DivMonotone
  <1>5. 0 <= j
    BY <1>1, <1>3, DivNat
  <1>6. IntensityIndex(p) = 1 + Least(i, len - 1) /\ IntensityIndex(q) = 1 + Least(j, len - 1)
    BY DEF IntensityIndex, len, m, n
  <1> HIDE DEF i, j
  <1> QED  BY <1>1, <1>4, <1>5, <1>6 DEF Least

\* convert gives the brighter of two pixels the denser character, or the
\* same, whatever contrast and brightness are.
THEOREM ConvertKeepsOrder ==
  ASSUME NEW p \in Pictures
  PROVE  KeepsOrder(p)
  <1>1. ASSUME NEW c \in Cells(p.w, p.h)
        PROVE  p.pixel[c] \in Rgb
    BY PictureSize
  <1> QED  BY <1>1, IndexMonotone DEF KeepsOrder

-----------------------------------------------------------------------------
(* What was captured is a picture.                                         *)

Captured == i_frame \in Pictures \cup {NoFrame}

LEMMA CapturedAlways == Spec => []Captured
  <1>1. Init => Captured
    BY DEF Init, SenderInit, Captured
  <1>2. Captured /\ [Next]_vars => Captured'
    <2> SUFFICES ASSUME Captured, [Next]_vars
                 PROVE  Captured'
      OBVIOUS
    <2>1. CASE \E picture \in Pictures : Capture(picture)
      BY <2>1 DEF Capture, Captured
    <2>2. CASE Generate
      BY <2>2 DEF Generate, Captured
    <2>3. CASE \E s \in Source : Replace(s)
      BY <2>3 DEF Replace, Captured
    <2>4. CASE \E datagram \in net : Deliver(datagram) \/ Lose(datagram)
      BY <2>4 DEF Deliver, Receive, Lose, sender, Captured
    <2>5. CASE (Start \/ Foreign) /\ UNCHANGED <<sender, net>>
      BY <2>5 DEF sender, Captured
    <2>6. CASE UNCHANGED vars
      BY <2>6 DEF vars, sender, Captured
    <2> QED  BY <2>1, <2>2, <2>3, <2>4, <2>5, <2>6 DEF Next
  <1> QED  BY <1>1, <1>2, PTL DEF Spec

\* The gradients of every captured picture are those of the two documented
\* kernels.
THEOREM SobelMatchesKernelsHolds == Spec => []SobelMatchesKernels
  <1>1. Captured => SobelMatchesKernels
    BY SobelIsConvolution DEF Captured, SobelMatchesKernels, Convolved
  <1> QED  BY <1>1, CapturedAlways, PTL

\* The edges of every captured picture turn with it.
THEOREM EdgesTurnWithPictureHolds == Spec => []EdgesTurnWithPicture
  <1>1. Captured => EdgesTurnWithPicture
    BY EdgesAreSymmetric DEF Captured, EdgesTurnWithPicture, Turning
  <1> QED  BY <1>1, CapturedAlways, PTL

\* In every captured picture the brighter pixels get the denser characters.
THEOREM BrighterIsDenserHolds == Spec => []BrighterIsDenser
  <1>1. Captured => BrighterIsDenser
    BY ConvertKeepsOrder DEF Captured, BrighterIsDenser, Ordered
  <1> QED  BY <1>1, CapturedAlways, PTL

-----------------------------------------------------------------------------
(* Frames that clients make.                                               *)

\* The frames that a client with this source may send.
SourceFrame(s) ==
  {f \in [w : {Size[s][1]}, h : {Size[s][2]}, chars : Seq(Char)] :
     Len(f.chars) = Size[s][1] * Size[s][2]}

LEMMA SourceSize ==
  ASSUME NEW s \in Source
  PROVE  /\ Size[s][1] \in 1..Columns /\ Size[s][2] \in 1..Rows
         /\ Size[s] = <<Size[s][1], Size[s][2]>>
         /\ Size[s][1] \in Nat \ {0} /\ Size[s][2] \in Nat \ {0}
         /\ Size[s][1] * Size[s][2] \in Nat
         /\ Size[s][1] * Size[s][2] < USIZE
<1>1. /\ Size[s] \in (1..Columns) \X (1..Rows)
      /\ Size[s][1] * Size[s][2] < USIZE
  BY VideoAssumption
<1>2. Columns \in Nat /\ Rows \in Nat
  BY TerminalAssumption
<1>3. /\ Size[s][1] \in 1..Columns /\ Size[s][2] \in 1..Rows
      /\ Size[s] = <<Size[s][1], Size[s][2]>>
  BY <1>1
<1>4. Size[s][1] \in Nat \ {0} /\ Size[s][2] \in Nat \ {0}
  BY <1>2, <1>3
<1>5. Size[s][1] * Size[s][2] \in Nat
  BY <1>4
<1> QED  BY <1>1, <1>3, <1>4, <1>5

LEMMA SourceFrameFits ==
  ASSUME NEW s \in Source, NEW f \in SourceFrame(s)
  PROVE  f \in ScreenFrame
<1>1. /\ f.w = Size[s][1] /\ f.h = Size[s][2] /\ f.chars \in Seq(Char)
      /\ Len(f.chars) = Size[s][1] * Size[s][2]
      /\ f = [w |-> f.w, h |-> f.h, chars |-> f.chars]
  BY DEF SourceFrame
<1>2. f.w \in Nat \ {0} /\ f.h \in Nat \ {0} /\ f.w <= Columns /\ f.h <= Rows
  BY <1>1, SourceSize
<1>3. f \in [w : Nat \ {0}, h : Nat \ {0}, chars : Seq(Char)]
  BY <1>1, <1>2
<1>4. Len(f.chars) = f.w * f.h /\ f.w * f.h < USIZE
  BY <1>1, SourceSize
<1> QED  BY <1>2, <1>3, <1>4 DEF ScreenFrame, WireFrame

LEMMA EmptyFrame ==
  ASSUME NEW s \in Source
  PROVE  /\ NewAsciiFrame(s) \in SourceFrame(s)
         /\ NewAsciiFrame(s) = NewFrame(Size[s][1], Size[s][2], Blank)
<1> DEFINE n == Size[s][1] * Size[s][2]
           chars == [i \in 1..n |-> Blank]
<1>1. n \in Nat
  BY SourceSize
<1>2. NewAsciiFrame(s) = [w |-> Size[s][1], h |-> Size[s][2], chars |-> chars]
  BY DEF NewAsciiFrame, NewFrame
<1> HIDE DEF n
<1>3. chars \in Seq(Char) /\ Len(chars) = n
  <2>1. Blank \in Char
    BY CharIsNat
  <2> QED  BY <1>1, <2>1
<1> HIDE DEF chars
<1> QED  BY <1>2, <1>3 DEF SourceFrame, NewAsciiFrame, n

\* The cells of a frame that set_char is called for.
LEMMA CellOfChar ==
  ASSUME NEW s \in Source, NEW i \in 1..(Size[s][1] * Size[s][2])
  PROVE  <<(i - 1) % Size[s][1], (i - 1) \div Size[s][1]>> \in Cells(Size[s][1], Size[s][2])
<1> DEFINE w == Size[s][1]
           h == Size[s][2]
           x == (i - 1) % w
           y == (i - 1) \div w
<1>1. w \in Nat \ {0} /\ h \in Nat \ {0}
  BY SourceSize
<1> HIDE DEF w, h
<1>2. i \in 1..(w * h)
  BY DEF w, h
<1>3. x + 1 \in 1..w /\ y + 1 \in 1..h
  BY <1>1, <1>2, CellOfIndex
<1>4. x \in Nat /\ y \in Nat
  BY <1>1, <1>2
<1> HIDE DEF x, y
<1>5. x \in 0..(w - 1) /\ y \in 0..(h - 1)
  BY <1>1, <1>3, <1>4
<1> QED  BY <1>5 DEF Cells, w, h, x, y

\* When every cell gets a character, nothing is left of what was in the frame.
LEMMA CellsSet ==
  ASSUME NEW s \in Source, NEW f \in SourceFrame(s),
         NEW chars \in [Cells(Size[s][1], Size[s][2]) -> Char]
  PROVE  /\ SetCells(f, chars) \in SourceFrame(s)
         /\ SetCells(f, chars) = SetCells(NewAsciiFrame(s), chars)
<1> DEFINE w == Size[s][1]
           h == Size[s][2]
           Cell(i) == <<(i - 1) % w, (i - 1) \div w>>
           text == [i \in 1..(w * h) |-> chars[Cell(i)]]
<1>1. w * h \in Nat
  BY SourceSize
<1>2. ASSUME NEW i \in 1..(w * h) PROVE Cell(i) \in Cells(w, h)
  BY CellOfChar
<1>3. NoChar \notin Char
  BY PlaneValue DEF Char, IsChar
<1>4. ASSUME NEW g \in SourceFrame(s)
      PROVE  SetCells(g, chars) = [w |-> w, h |-> h, chars |-> text]
  <2>1. /\ g.w = w /\ g.h = h /\ g.chars \in Seq(Char) /\ Len(g.chars) = w * h
        /\ g = [w |-> g.w, h |-> g.h, chars |-> g.chars]
    BY DEF SourceFrame
  <2> DEFINE cells == [i \in DOMAIN g.chars |->
                         IF chars[<<(i - 1) % g.w, (i - 1) \div g.w>>] = NoChar THEN g.chars[i]
                         ELSE chars[<<(i - 1) % g.w, (i - 1) \div g.w>>]]
  <2>2. SetCells(g, chars) = [g EXCEPT !.chars = cells]
    BY DEF SetCells
  <2>3. DOMAIN g.chars = 1..(w * h)
    BY <2>1
  <2>4. ASSUME NEW i \in 1..(w * h) PROVE cells[i] = text[i]
    <3>1. chars[Cell(i)] \in Char
      BY <1>2
    <3>2. chars[<<(i - 1) % g.w, (i - 1) \div g.w>>] = chars[Cell(i)]
      BY <2>1
    <3> QED  BY <1>3, <2>3, <3>1, <3>2
  <2>5. cells = text
    BY <2>3, <2>4
  <2> HIDE DEF cells, text
  <2> QED  BY <2>1, <2>2, <2>5
<1>5. text \in Seq(Char) /\ Len(text) = w * h
  <2>1. ASSUME NEW i \in 1..(w * h) PROVE chars[Cell(i)] \in Char
    BY <1>2
  <2> HIDE DEF w, h, Cell
  <2> QED  BY <1>1, <2>1
<1>6. NewAsciiFrame(s) \in SourceFrame(s)
  BY EmptyFrame
<1> HIDE DEF text
<1>7. [w |-> w, h |-> h, chars |-> text] \in SourceFrame(s)
  BY <1>5 DEF SourceFrame
<1> QED  BY <1>4, <1>6, <1>7

\* An EdgeInfo of a picture, or of none yet.
EdgeInfo(w, h) ==
  [w : {w}, h : {h}, magnitude : [Cells(w, h) -> Nat], angle : Gradients(w, h)]

LEMMA EdgesTyped ==
  ASSUME NEW edges \in EdgeInfos
  PROVE  \E w \in Nat \ {0}, h \in Nat \ {0} : edges \in EdgeInfo(w, h)
<1>1. PICK p \in Pictures : edges = NoEdges(p.w, p.h) \/ edges = ProcessFrame(p)
  BY DEF EdgeInfos
<1> DEFINE w == p.w
           h == p.h
           none == [c \in Cells(w, h) |-> 0]
           flat == [c \in Cells(w, h) |-> <<0, 0>>]
           G == Sobel(CreateIntensityMap(p), w, h)
           M == NonMaximumSuppression(G, w, h)
<1>2. w \in Nat \ {0} /\ h \in Nat \ {0}
  BY PictureSize
<1>3. none \in [Cells(w, h) -> Nat] /\ flat \in Gradients(w, h)
  BY DEF Gradients
<1>4. G \in Gradients(w, h)
  <2>1. CreateIntensityMap(p) \in [Cells(w, h) -> Int]
    BY IntensityMapType
  <2> QED  BY <1>2, <2>1, SobelType
<1> HIDE DEF G
<1>5. M \in [Cells(w, h) -> Nat]
  <2>1. ASSUME NEW c \in Cells(w, h) PROVE Magnitude(G[c]) \in Nat
    <3>1. G[c][1] \in Int /\ G[c][2] \in Int /\ G[c] = <<G[c][1], G[c][2]>>
      BY <1>4, Components
    <3>2. Magnitude(<<G[c][1], G[c][2]>>) \in Nat
      BY <3>1, MagnitudeSymmetry
    <3> QED  BY <3>1, <3>2
  <2> QED  BY <2>1 DEF NonMaximumSuppression
<1>6. /\ NoEdges(w, h) = [w |-> w, h |-> h, magnitude |-> none, angle |-> flat]
      /\ ProcessFrame(p) = [w |-> w, h |-> h, magnitude |-> M, angle |-> G]
  BY DEF NoEdges, ProcessFrame, G
<1> HIDE DEF w, h, none, flat, M
<1>7. edges \in EdgeInfo(w, h)
  BY <1>1, <1>3, <1>4, <1>5, <1>6 DEF EdgeInfo, w, h
<1> QED  BY <1>2, <1>7

\* The table has a character for every magnitude.
LEMMA EdgeIndexInTable ==
  ASSUME NEW magnitude \in Nat, NEW table \in Tables
  PROVE  EdgeIndex(magnitude, table) \in DOMAIN table
<1> DEFINE len == Len(ascii_horizontal)
           S == {k \in 0..(len - 1) : Reached(magnitude, k, len)}
<1>1. /\ MAX \in Nat /\ SCALE \in Nat /\ len \in Nat \ {0}
      /\ Len(table) \in Nat \ {0} /\ DOMAIN table = 1..Len(table)
  <2>1. ASSUME NEW t \in Tables
        PROVE  Len(t) \in Nat \ {0} /\ DOMAIN t = 1..Len(t)
    <3>1. t \in Seq(Nat) /\ t # <<>>
      BY ConverterAssumption
    <3> QED  BY <3>1
  <2>2. ascii_horizontal \in Tables
    BY DEF Tables
  <2>3. MAX \in Nat /\ SCALE \in Nat
    BY EdgesAssumption, ConverterAssumption
  <2> QED  BY <2>1, <2>2, <2>3
<1> HIDE DEF len
<1>2. 0 \in S
  <2>1. (0 * MAX * SCALE) * (0 * MAX * SCALE) = 0
    BY <1>1
  <2>2. magnitude * len * len \in Nat
    BY <1>1
  <2>3. Reached(magnitude, 0, len)
    BY <2>1, <2>2 DEF Reached
  <2> QED  BY <1>1, <2>3
<1>3. S \subseteq 0..(len - 1) /\ S # {} /\ len - 1 \in Nat
  BY <1>1, <1>2
<1> HIDE DEF S
<1>4. Max(S) \in S
  BY <1>3, MaxIsMaximum
<1>5. Max(S) \in Nat
  <2>1. Max(S) \in 0..(len - 1)
    BY <1>3, <1>4
  <2> QED  BY <1>1, <2>1
<1>6. EdgeIndex(magnitude, table) = 1 + Least(Max(S), Len(table) - 1)
  BY DEF EdgeIndex, S, len
<1> QED  BY <1>1, <1>5, <1>6 DEF Least

LEMMA AngleToEdgeIsChar ==
  ASSUME NEW gradient, NEW magnitude \in Nat
  PROVE  AngleToEdge(gradient, magnitude) \in Char
<1>1. PICK table \in Tables :
        AngleToEdge(gradient, magnitude) = table[EdgeIndex(magnitude, table)]
  BY DEF AngleToEdge, Tables
<1>2. EdgeIndex(magnitude, table) \in DOMAIN table
  BY EdgeIndexInTable
<1>3. ASSUME NEW i \in DOMAIN table PROVE table[i] \in Char
  BY ConverterAssumption DEF Char
<1> QED  BY <1>1, <1>2, <1>3

\* convert finds a pixel and an edge for every cell, in the bounds of the
\* picture and of the edges, whatever their sizes are.
LEMMA CharOfIsChar ==
  ASSUME NEW p \in Pictures, NEW edges \in EdgeInfos, NEW c \in Cells(p.w, p.h)
  PROVE  CharOf(p, edges, c) \in Char
<1>1. PICK w \in Nat \ {0}, h \in Nat \ {0} : edges \in EdgeInfo(w, h)
  BY EdgesTyped
<1> DEFINE e == <<Least(c[1], edges.w - 1), Least(c[2], edges.h - 1)>>
           rgb == GetPixel(p, c[1], c[2])
           m == edges.magnitude[e]
           i == IntensityIndex(rgb)
<1>2. p.w \in Nat /\ p.h \in Nat /\ p.pixel \in [Cells(p.w, p.h) -> Rgb]
  BY PictureSize
<1>3. /\ c[1] \in Nat /\ c[2] \in Nat /\ c[1] < p.w /\ c[2] < p.h
      /\ c = <<c[1], c[2]>>
  BY <1>2 DEF Cells
<1>4. m \in Nat
  <2>1. edges.w = w /\ edges.h = h /\ edges.magnitude \in [Cells(w, h) -> Nat]
    BY <1>1 DEF EdgeInfo
  <2>2. Least(c[1], w - 1) \in 0..(w - 1) /\ Least(c[2], h - 1) \in 0..(h - 1)
    BY <1>1, <1>3 DEF Least
  <2>3. <<Least(c[1], w - 1), Least(c[2], h - 1)>> \in Cells(w, h)
    BY <2>2 DEF Cells
  <2> QED  BY <2>1, <2>3
<1>5. rgb \in Rgb /\ rgb # NoPixel
  <2>1. rgb = p.pixel[c]
    BY <1>3 DEF GetPixel
  <2>2. rgb \in Rgb
    BY <1>2, <2>1
  <2> HIDE DEF rgb
  <2>3. rgb # NoPixel
    <3>1. rgb = <<rgb[1], rgb[2], rgb[3]>>
      BY <2>2 DEF Rgb
    <3>2. Len(<<rgb[1], rgb[2], rgb[3]>>) = 3 /\ Len(<<>>) = 0
      OBVIOUS
    <3> QED  BY <3>1, <3>2 DEF NoPixel
  <2> QED  BY <2>2, <2>3
<1> HIDE DEF rgb
<1>6. ascii_intensity[i] \in Char
  <2>1. rgb[1] <= rgb[1] /\ rgb[2] <= rgb[2] /\ rgb[3] <= rgb[3]
    BY <1>5, EdgesAssumption DEF Rgb
  <2>2. i \in DOMAIN ascii_intensity
    BY <1>5, <2>1, IndexMonotone
  <2>3. ASSUME NEW j \in DOMAIN ascii_intensity PROVE ascii_intensity[j] \in Char
    BY ConverterAssumption DEF Char, Tables
  <2> QED  BY <2>2, <2>3
<1>7. AngleToEdge(edges.angle[e], m) \in Char
  BY <1>4, AngleToEdgeIsChar
<1>8. Threshold * Threshold \in Nat
  BY EdgesAssumption
<1>9. CharOf(p, edges, c) = CASE m > Threshold * Threshold -> AngleToEdge(edges.angle[e], m)
        [] m <= Threshold * Threshold /\ rgb # NoPixel -> ascii_intensity[i]
        [] OTHER -> NoChar
  BY DEF CharOf, rgb
<1> HIDE DEF m, i, e
<1> DEFINE T == Threshold * Threshold
<1> HIDE DEF T
<1>10. m > T \/ m <= T
  BY <1>4, <1>8 DEF T
<1>11. CASE m > T
  <2>1. ~(m <= T)
    BY <1>4, <1>8, <1>11 DEF T
  <2> QED  BY <1>7, <1>9, <1>11, <2>1 DEF T
<1>12. CASE m <= T
  <2>1. ~(m > T)
    BY <1>4, <1>8, <1>12 DEF T
  <2> QED  BY <1>5, <1>6, <1>9, <1>12, <2>1 DEF T
<1> QED  BY <1>10, <1>11, <1>12

LEMMA ScaledInPicture ==
  ASSUME NEW m \in Nat \ {0}, NEW w \in Nat \ {0}, NEW x \in 0..(w - 1)
  PROVE  (x * m) \div w \in 0..(m - 1)
<1>1. x * m \in Nat /\ x * m <= (w - 1) * m /\ (w - 1) * m = w * m - m
  <2>1. x \in Int /\ w - 1 \in Int /\ x <= w - 1 /\ m \in Nat
    OBVIOUS
  <2>2. x * m <= (w - 1) * m
    BY <2>1, TimesMonotone
  <2> QED  BY <2>2
<1> DEFINE n == x * m
           q == n \div w
<1>2. n \in Nat /\ n <= w * m - m /\ w * m \in Nat
  BY <1>1
<1> HIDE DEF n
<1>3. q \in Nat /\ n >= w * q
  BY <1>2
<1> HIDE DEF q
<1>4. q < m
  <2> SUFFICES ASSUME q >= m PROVE FALSE
    BY <1>3
  <2>1. w * m <= w * q
    BY <1>3, TimesMonotone
  <2>2. w * q \in Nat
    BY <1>3
  <2> QED  BY <1>2, <1>3, <2>1, <2>2
<1> QED  BY <1>3, <1>4 DEF q, n

\* convert writes every cell, so that what was in the frame does not count.
LEMMA Converts ==
  ASSUME NEW p \in Pictures, NEW edges \in EdgeInfos, NEW f \in SourceFrame("Camera")
  PROVE  /\ Convert(p, f, edges) \in SourceFrame("Camera")
         /\ Convert(p, f, edges) = Convert(p, NewAsciiFrame("Camera"), edges)
<1> DEFINE s == "Camera"
           w == Size[s][1]
           h == Size[s][2]
           Cell(c) == <<(c[1] * p.w) \div w, (c[2] * p.h) \div h>>
           chars == [c \in Cells(w, h) |-> CharOf(p, edges, Cell(c))]
<1>1. s \in Source
  BY DEF Source
<1> HIDE DEF s
<1>2. w \in Nat \ {0} /\ h \in Nat \ {0} /\ p.w \in Nat \ {0} /\ p.h \in Nat \ {0}
  BY <1>1, SourceSize, PictureSize
<1>3. ASSUME NEW c \in Cells(w, h) PROVE CharOf(p, edges, Cell(c)) \in Char
  <2>1. c[1] \in 0..(w - 1) /\ c[2] \in 0..(h - 1)
    BY DEF Cells
  <2> HIDE DEF w, h
  <2>2. (c[1] * p.w) \div w \in 0..(p.w - 1)
    BY <1>2, <2>1, ScaledInPicture
  <2>3. (c[2] * p.h) \div h \in 0..(p.h - 1)
    BY <1>2, <2>1, ScaledInPicture
  <2>4. Cell(c) \in Cells(p.w, p.h)
    BY <2>2, <2>3 DEF Cells
  <2> QED  BY <2>4, CharOfIsChar
<1>4. chars \in [Cells(w, h) -> Char]
  <2> HIDE DEF w, h, Cell
  <2> QED  BY <1>3
<1>5. ASSUME NEW g \in SourceFrame(s) PROVE Convert(p, g, edges) = SetCells(g, chars)
  <2>1. g.w = w /\ g.h = h
    BY DEF SourceFrame
  <2>2. \A c : Scaled(p, g, c[1], c[2]) = Cell(c)
    BY <2>1 DEF Scaled
  <2>3. [c \in Cells(g.w, g.h) |-> CharOf(p, edges, Scaled(p, g, c[1], c[2]))] = chars
    BY <2>1, <2>2
  <2> HIDE DEF chars
  <2> QED  BY <2>3 DEF Convert
<1> HIDE DEF chars
<1>6. f \in SourceFrame(s) /\ NewAsciiFrame(s) \in SourceFrame(s)
  BY <1>1, EmptyFrame DEF s
<1>7. SetCells(f, chars) \in SourceFrame(s) /\ SetCells(f, chars) = SetCells(NewAsciiFrame(s), chars)
  BY <1>1, <1>4, <1>6, CellsSet
<1>8. Convert(p, f, edges) = SetCells(f, chars)
  BY <1>5, <1>6
<1>9. Convert(p, NewAsciiFrame(s), edges) = SetCells(NewAsciiFrame(s), chars)
  BY <1>5, <1>6
<1> QED  BY <1>7, <1>8, <1>9 DEF s

\* set_chars with the characters of a whole frame.
LEMMA CharsCopied ==
  ASSUME NEW s \in Source, NEW f \in SourceFrame(s)
  PROVE  SetChars(NewAsciiFrame(s), f.chars) = f
<1> DEFINE n == Size[s][1] * Size[s][2]
           g == NewAsciiFrame(s)
<1>1. n \in Nat
  BY SourceSize
<1>2. /\ f.chars \in Seq(Char) /\ Len(f.chars) = n
      /\ f = [w |-> Size[s][1], h |-> Size[s][2], chars |-> f.chars]
  BY DEF SourceFrame
<1>3. /\ g.chars \in Seq(Char) /\ Len(g.chars) = n
      /\ g = [w |-> Size[s][1], h |-> Size[s][2], chars |-> g.chars]
  BY EmptyFrame DEF SourceFrame
<1> HIDE DEF n, g
<1> DEFINE text == [i \in DOMAIN g.chars |-> IF i <= Len(f.chars) THEN f.chars[i] ELSE g.chars[i]]
<1>4. text = f.chars
  <2>1. DOMAIN g.chars = 1..n /\ DOMAIN f.chars = 1..n
    BY <1>1, <1>2, <1>3
  <2>2. ASSUME NEW i \in 1..n PROVE text[i] = f.chars[i]
    BY <1>1, <1>2, <2>1
  <2>3. f.chars = [i \in 1..n |-> f.chars[i]]
    BY <1>1, <1>2, <2>1
  <2> QED  BY <2>1, <2>2, <2>3
<1>5. ~(Len(f.chars) > Len(g.chars))
  BY <1>1, <1>2, <1>3
<1>6. SetChars(g, f.chars) = [g EXCEPT !.chars = text]
  BY <1>5 DEF SetChars
<1> HIDE DEF text
<1>7. [g EXCEPT !.chars = text] = f
  BY <1>2, <1>3, <1>4
<1> QED  BY <1>6, <1>7 DEF g

LEMMA PatternFrame ==
  ASSUME NEW s \in PatternType, NEW n \in Nat
  PROVE  GenerateFrame(s, Size[s][1], Size[s][2], n) \in SourceFrame(s)
<1> DEFINE w == Size[s][1]
           h == Size[s][2]
           C == (0..(w - 1)) \X (0..(h - 1))
           board == [c \in C |-> IF (((c[1] + c[2]) % 2) + ((n \div 5) % 2)) % 2 = 0
                                 THEN Dot ELSE Hash]
           line == [c \in C |-> IF c[2] = n % h THEN Equals ELSE Blank]
<1>1. s \in Source /\ C = Cells(w, h)
  BY DEF Source, Cells
<1>2. Dot \in Char /\ Hash \in Char /\ Equals \in Char /\ Blank \in Char
  BY PlaneValue DEF Char, IsChar, Dot, Hash, Equals, Blank
<1>3. board \in [C -> Char] /\ line \in [C -> Char]
  BY <1>2
<1> HIDE DEF C
<1>4. /\ GenerateCheckerboard(w, h, n) = SetCells(NewAsciiFrame(s), board)
      /\ GenerateMovingLine(w, h, n) = SetCells(NewAsciiFrame(s), line)
  BY DEF GenerateCheckerboard, GenerateMovingLine, NewAsciiFrame, C
<1> HIDE DEF board, line
<1>5. NewAsciiFrame(s) \in SourceFrame(s)
  BY <1>1, EmptyFrame
<1>6. board \in [Cells(w, h) -> Char] /\ line \in [Cells(w, h) -> Char]
  BY <1>1, <1>3
<1> HIDE DEF w, h
<1>7. SetCells(NewAsciiFrame(s), board) \in SourceFrame(s)
  BY <1>1, <1>5, <1>6, CellsSet DEF w, h
<1>8. SetCells(NewAsciiFrame(s), line) \in SourceFrame(s)
  BY <1>1, <1>5, <1>6, CellsSet DEF w, h
<1> QED  BY <1>4, <1>7, <1>8 DEF GenerateFrame, w, h

Generated ==
  {GenerateFrame(s, Size[s][1], Size[s][2], n) : s \in PatternType, n \in 0..MaxFrames}

LEMMA FrameParts ==
  \A f : f \in Frames <=>
    \/ \E p \in Pictures : f \in Converted[p]
    \/ f \in Generated
    \/ f \in {NewAsciiFrame(s) : s \in Source}
<1> DEFINE all == UNION {Converted[p] : p \in Pictures}
           empty == {NewAsciiFrame(s) : s \in Source}
<1>1. Frames = all \cup Generated \cup empty
  BY DEF Frames, Generated
<1>2. \A f : f \in all <=> \E p \in Pictures : f \in Converted[p]
  OBVIOUS
<1> HIDE DEF all
<1>3. \A f : f \in Frames <=> f \in all \/ f \in Generated \/ f \in empty
  BY <1>1
<1> QED  BY <1>2, <1>3

LEMMA FramesMade ==
  ASSUME NEW f \in Frames
  PROVE  /\ \E s \in Source : f \in SourceFrame(s)
         /\ f \in ScreenFrame
         /\ [w |-> f.w, h |-> f.h, chars |-> f.chars] = f
         /\ NewFrame(f.w, f.h, Blank) \in Frames
<1>1. \E s \in Source : f \in SourceFrame(s)
  <2>1. CASE \E p \in Pictures : f \in Converted[p]
    <3>1. PICK p \in Pictures, edges \in EdgeInfos : f = Convert(p, NewAsciiFrame("Camera"), edges)
      BY <2>1 DEF Converted
    <3>2. "Camera" \in Source
      BY DEF Source
    <3>3. NewAsciiFrame("Camera") \in SourceFrame("Camera")
      BY <3>2, EmptyFrame
    <3>4. f \in SourceFrame("Camera")
      BY <3>1, <3>3, Converts
    <3> QED  BY <3>2, <3>4
  <2>2. CASE f \in Generated
    <3>1. PICK s \in PatternType, n \in 0..MaxFrames :
                 f = GenerateFrame(s, Size[s][1], Size[s][2], n)
      BY <2>2 DEF Generated
    <3>2. n \in Nat
      BY <3>1
    <3>3. s \in Source
      BY DEF Source
    <3> QED  BY <3>1, <3>2, <3>3, PatternFrame
  <2>3. CASE f \in {NewAsciiFrame(s) : s \in Source}
    BY <2>3, EmptyFrame
  <2> QED  BY <2>1, <2>2, <2>3, FrameParts
<1>2. PICK s \in Source : f \in SourceFrame(s)
  BY <1>1
<1>3. f \in ScreenFrame
  BY <1>2, SourceFrameFits
<1>4. f.w = Size[s][1] /\ f.h = Size[s][2] /\ [w |-> f.w, h |-> f.h, chars |-> f.chars] = f
  BY <1>2 DEF SourceFrame
<1>5. NewFrame(f.w, f.h, Blank) = NewAsciiFrame(s)
  BY <1>4, EmptyFrame
<1>6. NewAsciiFrame(s) \in Frames
  BY FrameParts
<1> QED  BY <1>1, <1>3, <1>4, <1>5, <1>6

-----------------------------------------------------------------------------
(* What arrives.                                                           *)

LEMMA SmallNumbers ==
  ASSUME NEW a \in Byte, NEW b \in Byte
  PROVE  FromBeBytes(<<a>>) = a /\ FromBeBytes(<<a, b>>) = 256 * a + b
<1>1. a \in Nat /\ b \in Nat
  BY DEF Byte
<1>2. FromBeBytes(<<a>>) = a
  <2> DEFINE s == <<a>>
  <2>1. s \in Seq(Byte) /\ Len(s) = 1 /\ s[1] = a
    OBVIOUS
  <2> HIDE DEF s
  <2>2. /\ Numbers(s)[0] = 0
        /\ \A n \in 1..Len(s) : Numbers(s)[n] = 256 * Numbers(s)[n - 1] + s[n]
    BY <2>1, NumbersDef
  <2>3. Numbers(s)[1] = a
    <3>1. 1 \in 1..Len(s) /\ 1 - 1 = 0
      BY <2>1
    <3>2. Numbers(s)[1] = 256 * Numbers(s)[0] + s[1]
      BY <2>2, <3>1
    <3> QED  BY <1>1, <2>1, <2>2, <3>2
  <2>4. FromBeBytes(s) = a
    BY <2>1, <2>3 DEF FromBeBytes
  <2> QED  BY <2>4 DEF s
<1>3. FromBeBytes(<<a, b>>) = 256 * a + b
  <2> DEFINE s == <<a, b>>
  <2>1. s \in Seq(Byte) /\ Len(s) = 2 /\ s[1] = a /\ s[2] = b
    OBVIOUS
  <2> HIDE DEF s
  <2>2. /\ Numbers(s)[0] = 0
        /\ \A n \in 1..Len(s) : Numbers(s)[n] = 256 * Numbers(s)[n - 1] + s[n]
    BY <2>1, NumbersDef
  <2>3. Numbers(s)[2] = 256 * a + b
    <3>1. 1 \in 1..Len(s) /\ 1 - 1 = 0 /\ 2 \in 1..Len(s) /\ 2 - 1 = 1
      BY <2>1
    <3>2. Numbers(s)[1] = 256 * Numbers(s)[0] + s[1]
      BY <2>2, <3>1
    <3>3. Numbers(s)[2] = 256 * Numbers(s)[1] + s[2]
      BY <2>2, <3>1
    <3> QED  BY <1>1, <2>1, <2>2, <3>2, <3>3
  <2>4. FromBeBytes(s) = 256 * a + b
    BY <2>1, <2>3 DEF FromBeBytes
  <2> QED  BY <2>4 DEF s
<1> QED  BY <1>2, <1>3

LEMMA OddProduct ==
  ASSUME NEW m \in Nat, NEW n \in Nat, NEW u \in Nat \ {0}
  PROVE  ((2 * m + 1) * (2 * n + 1)) % (2 * u) # 0
<1> DEFINE p == (2 * m + 1) * (2 * n + 1)
           c == 2 * m * n + m + n
<1>1. c \in Nat /\ p = 2 * c + 1
  BY SMT
<1> HIDE DEF p, c
<1> DEFINE k == 2 * u
<1>2. k \in Nat \ {0}
  OBVIOUS
<1> HIDE DEF k
<1>3. p \in Nat /\ p \div k \in Nat /\ p = k * (p \div k) + (p % k)
  BY <1>1, <1>2
<1> DEFINE q == p \div k
<1> HIDE DEF q
<1>4. SUFFICES ASSUME p % k = 0 PROVE FALSE
  BY DEF p, k
<1>5. p = k * q + 0 /\ q \in Nat
  BY <1>3, <1>4 DEF q
<1>6. k * q = 2 * (u * q) /\ u * q \in Nat
  BY <1>5 DEF k
<1> QED  BY <1>1, <1>5, <1>6

LEMMA ShortParts ==
  ASSUME NEW s \in Seq(Byte), NEW m \in 1..(Len(s) - 1)
  PROVE  /\ SubSeq(s, m, m) = <<s[m]>>
         /\ SubSeq(s, m, m + 1) = <<s[m], s[m + 1]>>
<1>1. /\ m \in Int /\ m + 1 \in Int
      /\ \A i \in 1..Len(s) : s[i] \in Byte
  OBVIOUS
<1>2. SubSeq(s, m, m) = <<s[m]>>
  <2> DEFINE t == <<s[m]>>
             u == SubSeq(s, m, m)
  <2>1. s[m] \in Byte
    BY <1>1
  <2>2. t \in Seq(Byte) /\ Len(t) = 1 /\ t[1] = s[m]
    BY <2>1
  <2>3. \A i \in m..m : s[i] \in Byte
    BY <2>1
  <2>4. /\ u \in Seq(Byte) /\ Len(u) = IF m <= m THEN m - m + 1 ELSE 0
        /\ \A i \in 1..(m - m + 1) : u[i] = s[m + i - 1]
    BY <1>1, <2>3, SubSeqProperties
  <2> HIDE DEF t, u
  <2>5. Len(u) = 1 /\ u[1] = s[m]
    <3>1. m - m + 1 = 1 /\ m + 1 - 1 = m
      OBVIOUS
    <3> QED  BY <2>4, <3>1
  <2>6. \A i \in 1..Len(u) : u[i] = t[i]
    BY <2>2, <2>5
  <2>7. u = t
    BY <2>2, <2>4, <2>5, <2>6, SeqEqual
  <2> QED  BY <2>7 DEF t, u
<1>3. SubSeq(s, m, m + 1) = <<s[m], s[m + 1]>>
  <2> DEFINE t == <<s[m], s[m + 1]>>
             k == m + 1
             u == SubSeq(s, m, k)
  <2>1. s[m] \in Byte /\ s[m + 1] \in Byte
    BY <1>1
  <2>2. t \in Seq(Byte) /\ Len(t) = 2 /\ t[1] = s[m] /\ t[2] = s[m + 1]
    BY <2>1
  <2>3. \A i \in m..k : s[i] \in Byte
    BY <1>1
  <2> HIDE DEF t
  <2>4. /\ u \in Seq(Byte) /\ Len(u) = IF m <= k THEN k - m + 1 ELSE 0
        /\ \A i \in 1..(k - m + 1) : u[i] = s[m + i - 1]
    <3>1. k \in Int
      BY <1>1
    <3> HIDE DEF k
    <3> QED  BY <1>1, <2>3, <3>1, SubSeqProperties
  <2> HIDE DEF u
  <2>5. Len(u) = 2 /\ u[1] = s[m] /\ u[2] = s[m + 1]
    <3>1. m <= k /\ k - m + 1 = 2 /\ m + 1 - 1 = m /\ m + 2 - 1 = m + 1
      OBVIOUS
    <3> HIDE DEF k
    <3> QED  BY <2>4, <3>1
  <2>6. \A i \in 1..Len(u) : u[i] = t[i]
    BY <2>2, <2>5
  <2>7. u = t
    BY <2>2, <2>4, <2>5, <2>6, SeqEqual
  <2> QED  BY <2>7 DEF t, u
<1> QED  BY <1>2, <1>3

LEMMA PairJoined ==
  ASSUME NEW a, NEW b
  PROVE  <<a>> \o <<b>> = <<a, b>>
<1> DEFINE S == {a, b}
           one == <<a>>
           other == <<b>>
           both == <<a, b>>
           sum == one \o other
<1>1. /\ one \in Seq(S) /\ Len(one) = 1 /\ one[1] = a
      /\ other \in Seq(S) /\ Len(other) = 1 /\ other[1] = b
      /\ both \in Seq(S) /\ Len(both) = 2 /\ both[1] = a /\ both[2] = b
  OBVIOUS
<1> HIDE DEF S, one, other, both
<1>2. /\ sum \in Seq(S) /\ Len(sum) = Len(one) + Len(other)
      /\ \A i \in 1..(Len(one) + Len(other)) :
           sum[i] = IF i <= Len(one) THEN one[i] ELSE other[i - Len(one)]
  BY <1>1, ConcatProperties
<1> HIDE DEF sum
<1>3. Len(sum) = 2 /\ \A i \in 1..Len(sum) : sum[i] = both[i]
  BY <1>1, <1>2
<1>4. sum = both
  BY <1>1, <1>2, <1>3, SeqEqual
<1> QED  BY <1>4 DEF sum, one, other, both

LEMMA TwoLetters ==
  FromUtf8(<<78, 71>>) = <<78, 71>>
<1>1. 78 \in Char /\ 71 \in Char
  BY PlaneValue DEF Char, IsChar
<1>2. EncodeUtf8(78) = <<78>> /\ EncodeUtf8(71) = <<71>>
  BY PlaneValue DEF EncodeUtf8
<1> DEFINE a == <<>>
           b == a \o EncodeUtf8(78)
           c == b \o EncodeUtf8(71)
<1>3. b = <<78>> /\ c = <<78, 71>>
  <2>1. b = <<78>>
    <3> DEFINE one == <<78>>
    <3>1. one \in Seq(Nat)
      OBVIOUS
    <3>2. EncodeUtf8(78) = one
      BY <1>2
    <3> HIDE DEF one
    <3>3. <<>> \o one = one
      BY <3>1, ConcatEmptySeq
    <3> QED  BY <3>2, <3>3 DEF one
  <2> HIDE DEF b
  <2>2. c = <<78>> \o <<71>>
    BY <1>2, <2>1
  <2>3. <<78>> \o <<71>> = <<78, 71>>
    <3> QED  BY PairJoined
  <2> QED  BY <2>1, <2>2, <2>3
<1>4. a \in Seq(Byte) /\ IsUtf8(a) /\ FromUtf8(a) = <<>>
  BY NoText
<1> HIDE DEF a
<1>5. b \in Seq(Byte) /\ IsUtf8(b) /\ FromUtf8(b) = Append(FromUtf8(a), 78)
  BY <1>1, <1>4, TextAppended
<1>6. FromUtf8(b) = <<78>>
  BY <1>4, <1>5
<1> HIDE DEF b
<1>7. FromUtf8(c) = Append(FromUtf8(b), 71)
  BY <1>1, <1>5, TextAppended
<1>8. FromUtf8(c) = <<78, 71>>
  BY <1>6, <1>7
<1> HIDE DEF c
<1> QED  BY <1>3, <1>8

\* A PING is no frame, whatever the width of a usize.
LEMMA PingRefused == ProcessDatagram(PING) = NoFrame
<1>1. /\ WordBytes \in Nat \ {0} /\ Place[0] = 1
      /\ \A n \in 1..WordBytes : Place[n] = 256 * Place[n - 1]
      /\ \A n \in 0..WordBytes : Place[n] \in Nat \ {0}
  BY PlaceDef
<1>2. /\ Len(PING) = 4 /\ PING \in Seq(Byte)
      /\ PING[1] = 80 /\ PING[2] = 73 /\ PING[3] = 78 /\ PING[4] = 71
  BY DEF PING, Byte
<1>3. 80 \in Byte /\ 73 \in Byte /\ 78 \in Byte /\ 71 \in Byte
  BY DEF Byte
<1> DEFINE first == SubSeq(PING, 1, 1)
           second == SubSeq(PING, 2, 2)
           left == SubSeq(PING, 1, 2)
           right == SubSeq(PING, 3, 4)
<1>4. first = <<80>> /\ second = <<73>> /\ left = <<80, 73>> /\ right = <<78, 71>>
  <2>1. 1 \in 1..(Len(PING) - 1) /\ 2 \in 1..(Len(PING) - 1) /\ 3 \in 1..(Len(PING) - 1)
    BY <1>2
  <2>2. first = <<PING[1]>> /\ SubSeq(PING, 1, 1 + 1) = <<PING[1], PING[1 + 1]>>
    BY <1>2, <2>1, ShortParts
  <2>3. second = <<PING[2]>>
    BY <1>2, <2>1, ShortParts
  <2>4. SubSeq(PING, 3, 3 + 1) = <<PING[3], PING[3 + 1]>>
    BY <1>2, <2>1, ShortParts
  <2>5. 1 + 1 = 2 /\ 3 + 1 = 4
    OBVIOUS
  <2> QED  BY <1>2, <2>2, <2>3, <2>4, <2>5
<1>5. SubSeq(PING, 5, 4) = <<>>
  BY SubSeqEmpty
<1> HIDE DEF first, second, left, right
<1>6. CASE WordBytes = 1
  <2>1. ~(Len(PING) < 2 * WordBytes) /\ WordBytes + 1 = 2 /\ 2 * WordBytes = 2 /\ 2 * WordBytes + 1 = 3
    BY <1>2, <1>6
  <2>2. ProcessDatagram(PING) = FromBytes(80, 73, <<78, 71>>)
    <3>1. ProcessDatagram(PING) = FromBytes(FromBeBytes(first), FromBeBytes(second), right)
      BY <1>2, <1>6, <2>1 DEF ProcessDatagram, first, second, right
    <3>2. FromBeBytes(<<80>>) = 80 /\ FromBeBytes(<<73>>) = 73
      BY <1>3, SmallNumbers
    <3> QED  BY <1>4, <3>1, <3>2
  <2>3. USIZE = 256
    BY <1>1, <1>6 DEF USIZE
  <2>4. Len(<<78, 71>>) < (80 * 73) % USIZE
    BY <2>3
  <2> QED  BY <2>2, <2>4, TwoLetters DEF FromBytes
<1>7. CASE WordBytes = 2
  <2> DEFINE w == 256 * 80 + 73
             h == 256 * 78 + 71
             u == 128 * Place[1]
  <2>1. ~(Len(PING) < 2 * WordBytes) /\ WordBytes + 1 = 3 /\ 2 * WordBytes = 4 /\ 2 * WordBytes + 1 = 5
    BY <1>2, <1>7
  <2>2. FromBeBytes(<<80, 73>>) = w /\ FromBeBytes(<<78, 71>>) = h
    BY <1>3, SmallNumbers
  <2>3. w = 2 * (128 * 80 + 36) + 1 /\ h = 2 * (128 * 78 + 35) + 1
    OBVIOUS
  <2> HIDE DEF w, h
  <2>4. ProcessDatagram(PING) = FromBytes(w, h, <<>>)
    <3>1. ProcessDatagram(PING) = FromBytes(FromBeBytes(left), FromBeBytes(right), SubSeq(PING, 5, 4))
      BY <1>2, <1>7, <2>1 DEF ProcessDatagram, left, right
    <3> QED  BY <1>4, <1>5, <2>2, <3>1
  <2>5. u \in Nat \ {0} /\ USIZE = 2 * u
    <3>1. USIZE = 256 * Place[1] /\ Place[1] \in Nat \ {0}
      BY <1>1, <1>7 DEF USIZE
    <3> QED  BY <3>1
  <2> HIDE DEF u
  <2>6. (w * h) % USIZE # 0
    <3> DEFINE m == 128 * 80 + 36
               n == 128 * 78 + 35
    <3>1. m \in Nat /\ n \in Nat /\ w = 2 * m + 1 /\ h = 2 * n + 1
      BY <2>3
    <3> HIDE DEF m, n
    <3> QED  BY <2>5, <3>1, OddProduct
  <2>7. (w * h) % USIZE \in Nat
    BY <2>3, <2>5
  <2>8. Len(<<>>) = 0
    OBVIOUS
  <2>9. 0 < (w * h) % USIZE
    BY <2>6, <2>7
  <2> QED  BY <2>4, <2>8, <2>9, NoText DEF FromBytes
<1>8. CASE WordBytes > 2
  <2>1. Len(PING) < 2 * WordBytes
    BY <1>1, <1>2, <1>8
  <2> QED  BY <2>1 DEF ProcessDatagram
<1> QED  BY <1>1, <1>6, <1>7, <1>8

\* process_datagram makes of whatever arrives the frame that was sent, or
\* nothing.
THEOREM WholeOrNothing ==
  ASSUME NEW f \in Frames, NEW reading \in Readings(SerializeFrame(f))
  PROVE  ProcessDatagram(reading) \in {f, NoFrame}
<1> DEFINE d == SerializeFrame(f)
<1>1. f \in WireFrame
  BY FramesMade DEF ScreenFrame
<1>2. d \in Seq(Byte) /\ ProcessDatagram(d) = f
  BY <1>1, FrameRead
<1>3. ProcessDatagram(SubSeq(d, 1, Len(d) - 1)) = NoFrame
  <2>1. Len(d) # 0
    <3> SUFFICES ASSUME Len(d) = 0 PROVE FALSE
      OBVIOUS
    <3>1. Len(d) < 2 * WordBytes
      BY WordAssumption
    <3>2. f = NoFrame
      BY <1>2, <3>1 DEF ProcessDatagram
    <3> QED  BY <1>1, <3>2 DEF NoFrame, WireFrame
  <2>2. Len(d) \in Nat
    BY <1>2
  <2> HIDE DEF d
  <2>3. Len(d) - 1 \in 0..(Len(d) - 1)
    BY <2>1, <2>2
  <2> DEFINE m == Len(d) - 1
  <2> HIDE DEF m
  <2>4. m \in 0..(Len(SerializeFrame(f)) - 1)
    BY <2>3 DEF m, d
  <2>5. ProcessDatagram(SubSeq(SerializeFrame(f), 1, m)) = NoFrame
    BY <1>1, <2>4, PartRefused
  <2> QED  BY <2>5 DEF m, d
<1>4. ProcessDatagram(Append(d, Hash)) = NoFrame
  <2>1. Hash \in Char /\ Hash \in Byte /\ EncodeUtf8(Hash) = <<Hash>>
    BY PlaneValue DEF Char, IsChar, Hash, Byte, EncodeUtf8
  <2> HIDE DEF d
  <2>2. Append(d, Hash) = d \o <<Hash>>
    BY <1>2, <2>1, AppendIsConcat
  <2>3. ProcessDatagram(d \o EncodeUtf8(Hash)) = NoFrame
    BY <1>1, <2>1, MoreRefused DEF d
  <2> QED  BY <2>1, <2>2, <2>3
<1>5. reading \in {d, SubSeq(d, 1, Len(d) - 1), Append(d, Hash), PING}
  BY DEF Readings
<1> HIDE DEF d
<1> QED  BY <1>2, <1>3, <1>4, <1>5, PingRefused

-----------------------------------------------------------------------------
(* The way of a frame.                                                     *)

SenderOK ==
  /\ source \in Source
  /\ frame_counter \in 0..MaxFrames
  /\ i_frame \in Pictures \cup {NoFrame}
  /\ a_frame \in SourceFrame(source)
  /\ ConvertFillsFrame

\* The network is finite, and what is in it are frames that a client made.
NetOK ==
  /\ IsFiniteSet(net)
  /\ Cardinality(net) <= MaxFlight
  /\ \A datagram \in net : \E f \in Frames : datagram = SerializeFrame(f)

\* The inductive invariant.
VideoInv == RendererInv /\ SenderOK /\ NetOK /\ ShowsWholeFrames

\* What is sent is a frame, and the network does not overflow.
LEMMA SendKeeps ==
  ASSUME NetOK, NEW f \in Frames, Send(f)
  PROVE  NetOK'
<1> DEFINE d == SerializeFrame(f)
           more == net \cup {d}
<1>1. CASE Cardinality(net) < MaxFlight
  <2>1. net' = more
    BY <1>1 DEF Send
  <2>2. IsFiniteSet(more) /\ Cardinality(more) <= MaxFlight
    <3>1. /\ IsFiniteSet(more)
          /\ Cardinality(more) = IF d \in net THEN Cardinality(net) ELSE Cardinality(net) + 1
      BY FS_AddElement DEF NetOK
    <3>2. Cardinality(net) \in Nat /\ MaxFlight \in Nat
      BY FS_CardinalityType, VideoAssumption DEF NetOK
    <3> QED  BY <1>1, <3>1, <3>2
  <2>3. \A datagram \in more : \E g \in Frames : datagram = SerializeFrame(g)
    BY DEF NetOK
  <2> HIDE DEF more
  <2> QED  BY <2>1, <2>2, <2>3 DEF NetOK
<1>2. CASE ~(Cardinality(net) < MaxFlight)
  BY <1>2 DEF Send, NetOK
<1> QED  BY <1>1, <1>2

LEMMA LessKeeps ==
  ASSUME NetOK, NEW datagram \in net, net' \in {net, net \ {datagram}}
  PROVE  NetOK'
<1> DEFINE less == net \ {datagram}
<1>1. IsFiniteSet(less) /\ Cardinality(less) <= MaxFlight
  <2>1. IsFiniteSet(less) /\ Cardinality(less) = Cardinality(net) - 1
    BY FS_RemoveElement DEF NetOK
  <2>2. Cardinality(net) \in Nat /\ MaxFlight \in Nat
    BY FS_CardinalityType, VideoAssumption DEF NetOK
  <2> QED  BY <2>1, <2>2 DEF NetOK
<1>2. \A d \in less : \E f \in Frames : d = SerializeFrame(f)
  BY DEF NetOK
<1>3. CASE net' = net
  BY <1>3 DEF NetOK
<1>4. CASE net' = less
  <2> HIDE DEF less
  <2> QED  BY <1>1, <1>2, <1>4 DEF NetOK
<1> QED  BY <1>3, <1>4

LEMMA CaptureKeeps ==
  ASSUME VideoInv, NEW picture \in Pictures, Capture(picture)
  PROVE  VideoInv'
<1>1. PICK edges \in EdgeInfos : a_frame' = Convert(picture, a_frame, edges)
  BY DEF Capture
<1>2. /\ source = "Camera" /\ i_frame' = picture
      /\ Send(SetChars(NewAsciiFrame(source), a_frame'.chars))
      /\ source' = source /\ frame_counter' = frame_counter /\ UNCHANGED renderer
  BY DEF Capture
<1>3. a_frame' \in SourceFrame(source) /\ a_frame' \in Converted[picture]
  <2>1. a_frame \in SourceFrame("Camera")
    BY <1>2 DEF VideoInv, SenderOK
  <2>2. /\ a_frame' \in SourceFrame("Camera")
        /\ a_frame' = Convert(picture, NewAsciiFrame("Camera"), edges)
    BY <1>1, <2>1, Converts
  <2> QED  BY <1>2, <2>2 DEF Converted
<1>4. SenderOK'
  BY <1>2, <1>3 DEF VideoInv, SenderOK, ConvertFillsFrame, SourceFrame
<1>5. NetOK'
  <2>1. SetChars(NewAsciiFrame(source), a_frame'.chars) = a_frame'
    BY <1>3, CharsCopied DEF VideoInv, SenderOK
  <2>2. a_frame' \in Frames
    BY <1>3, FrameParts
  <2>3. NetOK /\ Send(a_frame')
    BY <1>2, <2>1 DEF VideoInv
  <2> QED  BY <2>2, <2>3, SendKeeps
<1>6. RendererInv' /\ ShowsWholeFrames'
  <2>1. RendererInv'
    BY <1>2, StutterKeeps DEF VideoInv
  <2> QED  BY <1>2, <2>1 DEF VideoInv, ShowsWholeFrames, renderer
<1> QED  BY <1>4, <1>5, <1>6 DEF VideoInv

LEMMA GenerateKeeps ==
  ASSUME VideoInv, Generate
  PROVE  VideoInv'
<1> DEFINE f == GenerateFrame(source, Size[source][1], Size[source][2], frame_counter)
<1>1. /\ source \in PatternType /\ frame_counter < MaxFrames
      /\ frame_counter' = frame_counter + 1 /\ Send(f)
      /\ UNCHANGED <<source, i_frame, a_frame>> /\ UNCHANGED renderer
  BY DEF Generate
<1>2. frame_counter \in 0..MaxFrames /\ frame_counter' \in 0..MaxFrames
  BY <1>1, VideoAssumption DEF VideoInv, SenderOK
<1>3. f \in Frames
  BY <1>1, <1>2, FrameParts DEF Generated
<1>4. SenderOK'
  BY <1>1, <1>2 DEF VideoInv, SenderOK, ConvertFillsFrame
<1>5. NetOK'
  <2> HIDE DEF f
  <2> QED  BY <1>1, <1>3, SendKeeps DEF VideoInv
<1>6. RendererInv' /\ ShowsWholeFrames'
  <2>1. RendererInv'
    BY <1>1, StutterKeeps DEF VideoInv
  <2> QED  BY <1>1, <2>1 DEF VideoInv, ShowsWholeFrames, renderer
<1> QED  BY <1>4, <1>5, <1>6 DEF VideoInv

LEMMA ReplaceKeeps ==
  ASSUME VideoInv, NEW s \in Source, Replace(s)
  PROVE  VideoInv'
<1>1. /\ source' = s /\ frame_counter' = 0 /\ i_frame' = NoFrame
      /\ a_frame' = NewAsciiFrame(s) /\ net' = net /\ UNCHANGED renderer
  BY DEF Replace
<1>2. SenderOK'
  <2>1. a_frame' \in SourceFrame(s)
    BY <1>1, EmptyFrame
  <2>2. 0 \in 0..MaxFrames
    BY VideoAssumption
  <2> QED  BY <1>1, <2>1, <2>2 DEF SenderOK, ConvertFillsFrame
<1>3. NetOK'
  BY <1>1 DEF VideoInv, NetOK
<1>4. RendererInv' /\ ShowsWholeFrames'
  <2>1. RendererInv'
    BY <1>1, StutterKeeps DEF VideoInv
  <2> QED  BY <1>1, <2>1 DEF VideoInv, ShowsWholeFrames, renderer
<1> QED  BY <1>2, <1>3, <1>4 DEF VideoInv

LEMMA DeliverKeeps ==
  ASSUME VideoInv, NEW datagram \in net, Deliver(datagram)
  PROVE  VideoInv'
<1>1. PICK reading \in Readings(datagram) : Receive(reading)
  BY DEF Deliver
<1>2. PICK f \in Frames : datagram = SerializeFrame(f)
  BY DEF VideoInv, NetOK
<1> DEFINE g == ProcessDatagram(reading)
<1>3. UNCHANGED sender /\ IF g = NoFrame THEN UNCHANGED renderer ELSE Render(g)
  BY <1>1 DEF Receive
<1>4. g \in {f, NoFrame}
  BY <1>1, <1>2, WholeOrNothing
<1> HIDE DEF g
<1>5. RendererInv' /\ ShowsWholeFrames'
  <2>1. CASE g = NoFrame
    <3>1. UNCHANGED renderer
      BY <1>3, <2>1
    <3>2. RendererInv'
      BY <3>1, StutterKeeps DEF VideoInv
    <3> QED  BY <3>1, <3>2 DEF VideoInv, ShowsWholeFrames, renderer
  <2>2. CASE g # NoFrame
    <3>1. Render(f)
      BY <1>3, <1>4, <2>2
    <3>2. /\ f \in ScreenFrame /\ [w |-> f.w, h |-> f.h, chars |-> f.chars] = f
          /\ NewFrame(f.w, f.h, Blank) \in Frames
      BY FramesMade
    <3>3. RendererInv' /\ Drawn(f)'
      BY <3>1, <3>2, RenderKeeps DEF VideoInv
    <3> DEFINE e == NewFrame(f.w, f.h, Blank)
    <3>4. e = [w |-> f.w, h |-> f.h, chars |-> e.chars]
      BY DEF NewFrame
    <3> HIDE DEF e
    <3>5. prev_w' = f.w /\ prev_h' = f.h /\ prev_frame' \in {f.chars, e.chars}
      BY <3>3 DEF Drawn, e
    <3>6. [w |-> prev_w', h |-> prev_h', chars |-> prev_frame'] \in {f, e}
      BY <3>2, <3>4, <3>5
    <3>7. ShowsWholeFrames'
      BY <3>2, <3>6 DEF ShowsWholeFrames, e
    <3> QED  BY <3>3, <3>7
  <2> QED  BY <2>1, <2>2
<1>6. SenderOK'
  BY <1>3 DEF VideoInv, SenderOK, ConvertFillsFrame, sender
<1>7. NetOK'
  <2>1. net' \in {net, net \ {datagram}}
    BY DEF Deliver
  <2> QED  BY <2>1, LessKeeps DEF VideoInv
<1> QED  BY <1>5, <1>6, <1>7 DEF VideoInv

LEMMA LoseKeeps ==
  ASSUME VideoInv, NEW datagram \in net, Lose(datagram)
  PROVE  VideoInv'
<1>1. net' \in {net, net \ {datagram}} /\ UNCHANGED sender /\ UNCHANGED renderer
  BY DEF Lose
<1>2. NetOK'
  BY <1>1, LessKeeps DEF VideoInv
<1>3. SenderOK'
  BY <1>1 DEF VideoInv, SenderOK, ConvertFillsFrame, sender
<1>4. RendererInv'
  BY <1>1, StutterKeeps DEF VideoInv
<1> QED  BY <1>1, <1>2, <1>3, <1>4 DEF VideoInv, ShowsWholeFrames, renderer

LEMMA ScreenKeeps ==
  ASSUME VideoInv, Start \/ Foreign, UNCHANGED <<sender, net>>
  PROVE  VideoInv'
<1>1. RendererInv' /\ UNCHANGED <<prev_frame, prev_w, prev_h>>
  BY StartKeeps, ForeignKeeps DEF VideoInv
<1>2. SenderOK'
  BY DEF VideoInv, SenderOK, ConvertFillsFrame, sender
<1>3. NetOK'
  BY DEF VideoInv, NetOK
<1> QED  BY <1>1, <1>2, <1>3 DEF VideoInv, ShowsWholeFrames

LEMMA VideoInvAlways == Spec => []VideoInv
<1>1. Init => VideoInv
  <2> SUFFICES ASSUME Init PROVE VideoInv
    OBVIOUS
  <2>1. RendererInv
    BY InvInit DEF Init
  <2>2. PICK s \in Source : SenderInit(s)
    BY DEF Init
  <2>3. SenderOK
    <3>1. a_frame \in SourceFrame(s)
      BY <2>2, EmptyFrame DEF SenderInit
    <3>2. 0 \in 0..MaxFrames
      BY VideoAssumption
    <3> QED  BY <2>2, <3>1, <3>2 DEF SenderInit, SenderOK, ConvertFillsFrame
  <2>4. NetOK
    <3>1. net = {}
      BY DEF Init
    <3>2. IsFiniteSet({}) /\ Cardinality({}) = 0
      BY FS_EmptySet
    <3>3. MaxFlight \in Nat
      BY VideoAssumption
    <3> QED  BY <3>1, <3>2, <3>3 DEF NetOK
  <2>5. ShowsWholeFrames
    BY DEF Init, RendererInit, ShowsWholeFrames
  <2> QED  BY <2>1, <2>3, <2>4, <2>5 DEF VideoInv
<1>2. VideoInv /\ [Next]_vars => VideoInv'
  <2> SUFFICES ASSUME VideoInv, [Next]_vars
               PROVE  VideoInv'
    OBVIOUS
  <2>1. CASE \E picture \in Pictures : Capture(picture)
    BY <2>1, CaptureKeeps
  <2>2. CASE Generate
    BY <2>2, GenerateKeeps
  <2>3. CASE \E s \in Source : Replace(s)
    BY <2>3, ReplaceKeeps
  <2>4. CASE \E datagram \in net : Deliver(datagram) \/ Lose(datagram)
    BY <2>4, DeliverKeeps, LoseKeeps
  <2>5. CASE (Start \/ Foreign) /\ UNCHANGED <<sender, net>>
    BY <2>5, ScreenKeeps
  <2>6. CASE UNCHANGED vars
    <3>1. UNCHANGED <<source, frame_counter, i_frame, a_frame, net>> /\ UNCHANGED renderer
      BY <2>6 DEF vars, sender
    <3>2. RendererInv'
      BY <3>1, StutterKeeps DEF VideoInv
    <3> QED  BY <3>1, <3>2 DEF VideoInv, SenderOK, ConvertFillsFrame, NetOK, ShowsWholeFrames, renderer
  <2> QED  BY <2>1, <2>2, <2>3, <2>4, <2>5, <2>6 DEF Next
<1> QED  BY <1>1, <1>2, PTL DEF Spec

\* Every variable has its type: a_frame keeps the size of its source and holds
\* characters only, the network is bounded.
THEOREM VideoTypeOKHolds == Spec => []VideoTypeOK
<1>1. VideoInv => VideoTypeOK
  <2> SUFFICES ASSUME VideoInv PROVE VideoTypeOK
    OBVIOUS
  <2>1. RendererTypeOK
    BY InvTypeOK DEF VideoInv
  <2>2. /\ source \in Source /\ a_frame.w = Size[source][1] /\ a_frame.h = Size[source][2]
        /\ a_frame.chars \in Seq(Char) /\ Len(a_frame.chars) = a_frame.w * a_frame.h
    BY DEF VideoInv, SenderOK, SourceFrame
  <2>3. <<a_frame.w, a_frame.h>> = Size[source]
    BY <2>2, SourceSize
  <2>4. DOMAIN a_frame.chars = 1..(a_frame.w * a_frame.h)
    BY <2>2
  <2>5. \A i \in DOMAIN a_frame.chars : IsChar(a_frame.chars[i])
    BY <2>2 DEF Char
  <2> QED  BY <2>1, <2>2, <2>3, <2>4, <2>5 DEF VideoInv, SenderOK, NetOK, VideoTypeOK
<1> QED  BY <1>1, VideoInvAlways, PTL

\* Unless others write to the terminal, it shows prev_frame as soon as stdout
\* is written, whichever of the flushes fail and wherever they do.
THEOREM ScreenFollowsHolds == Spec => []ScreenFollows
<1>1. VideoInv => ScreenFollows
  BY InvFollows DEF VideoInv
<1> QED  BY <1>1, VideoInvAlways, PTL

\* The renderer takes the screen for a frame that a client made, whole, or for
\* an empty one of such a size, whatever arrives.
THEOREM ShowsWholeFramesHolds == Spec => []ShowsWholeFrames
<1>1. VideoInv => ShowsWholeFrames
  BY DEF VideoInv
<1> QED  BY <1>1, VideoInvAlways, PTL

\* Nothing of an earlier picture is left in the frame that convert writes.
THEOREM ConvertFillsFrameHolds == Spec => []ConvertFillsFrame
<1>1. VideoInv => ConvertFillsFrame
  BY DEF VideoInv, SenderOK
<1> QED  BY <1>1, VideoInvAlways, PTL

==============================================================================
