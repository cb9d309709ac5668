---------------------------- MODULE EdgesProofs -----------------------------
(***************************************************************************)
(* What process_frame computes, for pictures of every size and any weights *)
(* and thresholds.                                                         *)
(***************************************************************************)
EXTENDS Edges, TLAPS

-----------------------------------------------------------------------------
(* Intensities and gradients are integers.                                 *)

LEMMA PictureSize ==
  ASSUME NEW p \in Pictures
  PROVE  /\ p.w \in Nat \ {0} /\ p.h \in Nat \ {0}
         /\ p.pixel \in [Cells(p.w, p.h) -> Rgb]
  BY EdgesAssumption DEF ImageFrames

LEMMA IntensityType ==
  ASSUME NEW rgb \in Rgb
  PROVE  CalculateIntensity(rgb) \in Int
  <1>1. rgb[1] \in Int /\ rgb[2] \in Int /\ rgb[3] \in Int
    BY EdgesAssumption DEF Rgb
  <1>2. R_LUMINANCE \in Int /\ G_LUMINANCE \in Int /\ B_LUMINANCE \in Int
    BY EdgesAssumption
  <1> QED  BY <1>1, <1>2 DEF CalculateIntensity

LEMMA IntensityMapType ==
  ASSUME NEW p \in Pictures
  PROVE  CreateIntensityMap(p) \in [Cells(p.w, p.h) -> Int]
  BY PictureSize, IntensityType DEF CreateIntensityMap

\* The nine pixels around an inner one are in the picture.
LEMMA Surrounded ==
  ASSUME NEW w \in Nat, NEW h \in Nat, NEW x \in 1..(w - 2), NEW y \in 1..(h - 2)
  PROVE  /\ <<x - 1, y - 1>> \in Cells(w, h) /\ <<x - 1, y>> \in Cells(w, h)
         /\ <<x - 1, y + 1>> \in Cells(w, h) /\ <<x, y - 1>> \in Cells(w, h)
         /\ <<x, y>> \in Cells(w, h) /\ <<x, y + 1>> \in Cells(w, h)
         /\ <<x + 1, y - 1>> \in Cells(w, h) /\ <<x + 1, y>> \in Cells(w, h)
         /\ <<x + 1, y + 1>> \in Cells(w, h)
  BY DEF Cells

-----------------------------------------------------------------------------
(* The terms that are added up are the convolutions with the kernels.      *)

LEMMA RowSums ==
  ASSUME NEW w \in Nat, NEW h \in Nat, NEW x \in 1..(w - 2), NEW y \in 1..(h - 2),
         NEW I \in [Cells(w, h) -> Int]
  PROVE  /\ SobelX(I, x, y) = Convolve(KernelX, I, x, y)
         /\ SobelY(I, x, y) = Convolve(KernelY, I, x, y)
         /\ SobelX(I, x, y) \in Int /\ SobelY(I, x, y) \in Int
  <1>1. /\ I[<<x - 1, y - 1>>] \in Int /\ I[<<x, y - 1>>] \in Int
        /\ I[<<x + 1, y - 1>>] \in Int /\ I[<<x - 1, y>>] \in Int
        /\ I[<<x, y>>] \in Int /\ I[<<x + 1, y>>] \in Int
        /\ I[<<x - 1, y + 1>>] \in Int /\ I[<<x, y + 1>>] \in Int
        /\ I[<<x + 1, y + 1>>] \in Int
    BY Surrounded
  <1>2. y + 1 - 2 = y - 1 /\ y + 2 - 2 = y /\ y + 3 - 2 = y + 1
    OBVIOUS
  <1>3. /\ KernelX[1] = <<-1, 0, 1>> /\ KernelX[2] = <<-2, 0, 2>> /\ KernelX[3] = <<-1, 0, 1>>
        /\ KernelY[1] = <<-1, -2, -1>> /\ KernelY[2] = <<0, 0, 0>> /\ KernelY[3] = <<1, 2, 1>>
    BY DEF KernelX, KernelY
  <1>4. /\ KernelRow(KernelX, I, x, y, 1) =
              (-1) * I[<<x - 1, y - 1>>] + 0 * I[<<x, y - 1>>] + 1 * I[<<x + 1, y - 1>>]
        /\ KernelRow(KernelX, I, x, y, 2) =
              (-2) * I[<<x - 1, y>>] + 0 * I[<<x, y>>] + 2 * I[<<x + 1, y>>]
        /\ KernelRow(KernelX, I, x, y, 3) =
              (-1) * I[<<x - 1, y + 1>>] + 0 * I[<<x, y + 1>>] + 1 * I[<<x + 1, y + 1>>]
        /\ KernelRow(KernelY, I, x, y, 1) =
              (-1) * I[<<x - 1, y - 1>>] + (-2) * I[<<x, y - 1>>] + (-1) * I[<<x + 1, y - 1>>]
        /\ KernelRow(KernelY, I, x, y, 2) =
              0 * I[<<x - 1, y>>] + 0 * I[<<x, y>>] + 0 * I[<<x + 1, y>>]
        /\ KernelRow(KernelY, I, x, y, 3) =
              1 * I[<<x - 1, y + 1>>] + 2 * I[<<x, y + 1>>] + 1 * I[<<x + 1, y + 1>>]
    BY <1>2, <1>3 DEF KernelRow
  <1> QED  BY <1>1, <1>4 DEF Convolve, SobelX, SobelY

\* sobel computes the documented kernels, in pictures of every size.
THEOREM SobelIsConvolution ==
  ASSUME NEW p \in Pictures
  PROVE  MatchesKernels(p)
  <1> DEFINE I == CreateIntensityMap(p)
  <1>1. p.w \in Nat /\ p.h \in Nat /\ I \in [Cells(p.w, p.h) -> Int]
    BY PictureSize, IntensityMapType
  <1> HIDE DEF I
  <1>2. ASSUME NEW x \in 1..(p.w - 2), NEW y \in 1..(p.h - 2)
        PROVE  Sobel(I, p.w, p.h)[<<x, y>>] =
                 <<Convolve(KernelX, I, x, y), Convolve(KernelY, I, x, y)>>
    <2>1. <<x, y>> \in Cells(p.w, p.h)
      BY <1>1, Surrounded
    <2>2. Sobel(I, p.w, p.h)[<<x, y>>] = <<SobelX(I, x, y), SobelY(I, x, y)>>
      BY <2>1 DEF Sobel, Gradient, Inner
    <2> QED  BY <1>1, <2>2, RowSums
  <1> QED  BY <1>2 DEF MatchesKernels, I

-----------------------------------------------------------------------------
(* Gradients, their magnitudes and their sectors.                          *)

Gradients(w, h) == [Cells(w, h) -> Int \X Int]

LEMMA Components ==
  ASSUME NEW w, NEW h, NEW G \in Gradients(w, h), NEW c \in Cells(w, h)
  PROVE  G[c][1] \in Int /\ G[c][2] \in Int /\ G[c] = <<G[c][1], G[c][2]>>
  BY DEF Gradients

LEMMA SobelType ==
  ASSUME NEW w \in Nat, NEW h \in Nat, NEW I \in [Cells(w, h) -> Int]
  PROVE  Sobel(I, w, h) \in Gradients(w, h)
  <1>1. ASSUME NEW c \in Cells(w, h)
        PROVE  Gradient(I, w, h, c[1], c[2]) \in Int \X Int
    <2>1. CASE Inner(c[1], c[2], w, h)
      <3>1. c[1] \in 1..(w - 2) /\ c[2] \in 1..(h - 2)
        BY <2>1 DEF Inner
      <3>2. SobelX(I, c[1], c[2]) \in Int /\ SobelY(I, c[1], c[2]) \in Int
        BY <3>1, RowSums
      <3> QED  BY <2>1, <3>2 DEF Gradient
    <2>2. CASE ~Inner(c[1], c[2], w, h)
      BY <2>2 DEF Gradient
    <2> QED  BY <2>1, <2>2
  <1> QED  BY <1>1 DEF Sobel, Gradients

LEMMA MagnitudeSymmetry ==
  ASSUME NEW a \in Int, NEW b \in Int
  PROVE  /\ Magnitude(<<a, b>>) \in Nat
         /\ Magnitude(<<-a, b>>) = Magnitude(<<a, b>>)
         /\ Magnitude(<<b, a>>) = Magnitude(<<a, b>>)
         /\ Magnitude(<<0, 0>>) = 0
  <1>1. a * a \in Nat /\ b * b \in Nat /\ (-a) * (-a) = a * a
    OBVIOUS
  <1> QED  BY <1>1 DEF Magnitude

LEMMA FlatSymmetry ==
  ASSUME NEW a \in Int, NEW b \in Int
  PROVE  /\ Flat(-a, b) <=> Flat(a, b)
         /\ Flat(b, -a) <=> Flat(b, a)
  <1>1. Abs(-a) = Abs(a) /\ 2 * (-a) * (-a) = 2 * a * a /\ (-a = 0 <=> a = 0)
    BY DEF Abs
  <1> QED  BY <1>1 DEF Flat

\* A gradient is not flat in both directions, and it is in one of them when
\* the other component is 0.
LEMMA FlatOnce ==
  ASSUME NEW a \in Int, NEW b \in Int, <<a, b>> # <<0, 0>>
  PROVE  /\ ~(Flat(a, b) /\ Flat(b, a))
         /\ a = 0 => Flat(b, a)
         /\ b = 0 => Flat(a, b)
  <1> DEFINE u == Abs(a)
             v == Abs(b)
  <1>1. /\ u \in Nat /\ v \in Nat /\ u * u = a * a /\ v * v = b * b
        /\ (u = 0 <=> a = 0) /\ (v = 0 <=> b = 0)
    BY DEF Abs
  <1>2. /\ Flat(a, b) <=> (u + v) * (u + v) < 2 * a * a
        /\ Flat(b, a) <=> (v + u) * (v + u) < 2 * b * b
    BY DEF Flat
  <1> HIDE DEF u, v
  <1>3. /\ 2 * a * a = 2 * (u * u) /\ 2 * b * b = 2 * (v * v)
        /\ (u + v) * (u + v) = u * u + 2 * (u * v) + v * v
        /\ (v + u) * (v + u) = u * u + 2 * (u * v) + v * v
        /\ u * v \in Nat /\ u * u \in Nat /\ v * v \in Nat
    BY <1>1
  <1>4. /\ a = 0 => u * u = 0 /\ u * v = 0 /\ v * v > 0
        /\ b = 0 => v * v = 0 /\ u * v = 0 /\ u * u > 0
    BY <1>1
  <1> QED  BY <1>2, <1>3, <1>4

LEMMA SectorSymmetry ==
  ASSUME NEW a \in Int, NEW b \in Int, <<a, b>> # <<0, 0>>
  PROVE  /\ Sector(<<-a, b>>) = MirroredSector(Sector(<<a, b>>))
         /\ Sector(<<b, a>>) = TransposedSector(Sector(<<a, b>>))
  <1>1. CASE Flat(a, b)
    BY <1>1, FlatSymmetry, FlatOnce DEF Sector, MirroredSector, TransposedSector
  <1>2. CASE ~Flat(a, b) /\ Flat(b, a)
    BY <1>2, FlatSymmetry, FlatOnce DEF Sector, MirroredSector, TransposedSector
  <1>3. CASE ~Flat(a, b) /\ ~Flat(b, a)
    <2>1. a # 0 /\ b # 0
      BY <1>3, FlatOnce
    <2>2. ((-a > 0) = (b > 0)) = ~((a > 0) = (b > 0))
      BY <2>1
    <2> QED
      BY <1>3, <2>2, FlatSymmetry DEF Sector, MirroredSector, TransposedSector
  <1> QED  BY <1>1, <1>2, <1>3

-----------------------------------------------------------------------------
(* The mirrored picture.                                                   *)

\* All that the derivatives at a pixel depend on.
TypedAround(I, x, y) ==
  /\ I[<<x - 1, y - 1>>] \in Int /\ I[<<x, y - 1>>] \in Int
  /\ I[<<x + 1, y - 1>>] \in Int /\ I[<<x - 1, y>>] \in Int
  /\ I[<<x + 1, y>>] \in Int /\ I[<<x - 1, y + 1>>] \in Int
  /\ I[<<x, y + 1>>] \in Int /\ I[<<x + 1, y + 1>>] \in Int

\* Around <<z, y>>, J is I around <<x, y>> read backwards.
MirroredAround(I, J, x, y, z) ==
  /\ J[<<z - 1, y - 1>>] = I[<<x + 1, y - 1>>] /\ J[<<z - 1, y>>] = I[<<x + 1, y>>]
  /\ J[<<z - 1, y + 1>>] = I[<<x + 1, y + 1>>]
  /\ J[<<z, y - 1>>] = I[<<x, y - 1>>] /\ J[<<z, y + 1>>] = I[<<x, y + 1>>]
  /\ J[<<z + 1, y - 1>>] = I[<<x - 1, y - 1>>] /\ J[<<z + 1, y>>] = I[<<x - 1, y>>]
  /\ J[<<z + 1, y + 1>>] = I[<<x - 1, y + 1>>]

LEMMA MirroredDerivatives ==
  ASSUME NEW I, NEW J, NEW x, NEW y, NEW z,
         TypedAround(I, x, y), MirroredAround(I, J, x, y, z)
  PROVE  SobelX(J, z, y) = - SobelX(I, x, y) /\ SobelY(J, z, y) = SobelY(I, x, y)
  BY DEF SobelX, SobelY, TypedAround, MirroredAround

\* Of the mirrored intensities the horizontal derivative changes its sign.
LEMMA MirroredSobel ==
  ASSUME NEW w \in Nat, NEW h \in Nat,
         NEW I \in [Cells(w, h) -> Int], NEW J \in [Cells(w, h) -> Int],
         \A x \in 0..(w - 1), y \in 0..(h - 1) : J[<<w - 1 - x, y>>] = I[<<x, y>>],
         NEW x \in 0..(w - 1), NEW y \in 0..(h - 1)
  PROVE  Sobel(J, w, h)[<<w - 1 - x, y>>] =
           <<- Sobel(I, w, h)[<<x, y>>][1], Sobel(I, w, h)[<<x, y>>][2]>>
  <1> DEFINE z == w - 1 - x
  <1>1. /\ <<x, y>> \in Cells(w, h) /\ <<z, y>> \in Cells(w, h)
        /\ Inner(z, y, w, h) <=> Inner(x, y, w, h)
    BY DEF Cells, Inner
  <1>2. /\ Sobel(I, w, h)[<<x, y>>] = Gradient(I, w, h, x, y)
        /\ Sobel(J, w, h)[<<z, y>>] = Gradient(J, w, h, z, y)
    BY <1>1 DEF Sobel
  <1>3. CASE Inner(x, y, w, h)
    <2>1. x \in 1..(w - 2) /\ y \in 1..(h - 2)
      BY <1>3 DEF Inner
    <2>2. /\ x - 1 \in 0..(w - 1) /\ z + 1 = w - 1 - (x - 1)
          /\ x + 1 \in 0..(w - 1) /\ z - 1 = w - 1 - (x + 1)
          /\ y - 1 \in 0..(h - 1) /\ y + 1 \in 0..(h - 1)
      BY <2>1
    <2>3. ASSUME NEW j \in {y - 1, y, y + 1}
          PROVE  /\ J[<<z - 1, j>>] = I[<<x + 1, j>>]
                 /\ J[<<z, j>>] = I[<<x, j>>]
                 /\ J[<<z + 1, j>>] = I[<<x - 1, j>>]
      <3>1. j \in 0..(h - 1)
        BY <2>2
      <3> QED  BY <2>2, <3>1
    <2>4. MirroredAround(I, J, x, y, z)
      BY <2>3 DEF MirroredAround
    <2>5. TypedAround(I, x, y)
      BY <2>1, Surrounded DEF TypedAround
    <2>6. SobelX(J, z, y) = - SobelX(I, x, y) /\ SobelY(J, z, y) = SobelY(I, x, y)
      BY <2>4, <2>5, MirroredDerivatives
    <2> QED  BY <1>1, <1>2, <1>3, <2>6 DEF Gradient
  <1>4. CASE ~Inner(x, y, w, h)
    BY <1>1, <1>2, <1>4 DEF Gradient
  <1> QED  BY <1>3, <1>4

\* The same pixels survive the suppression.
LEMMA MirroredSurvives ==
  ASSUME NEW w \in Nat, NEW h \in Nat,
         NEW G \in Gradients(w, h), NEW H \in Gradients(w, h),
         \A x \in 0..(w - 1), y \in 0..(h - 1) :
           H[<<w - 1 - x, y>>] = <<- G[<<x, y>>][1], G[<<x, y>>][2]>>,
         NEW x \in 0..(w - 1), NEW y \in 0..(h - 1)
  PROVE  /\ Magnitude(H[<<w - 1 - x, y>>]) = Magnitude(G[<<x, y>>])
         /\ Survives(H, w, h, w - 1 - x, y) <=> Survives(G, w, h, x, y)
         /\ Survives(G, w, h, x, y) =>
              Sector(H[<<w - 1 - x, y>>]) = MirroredSector(Sector(G[<<x, y>>]))
  <1> DEFINE m(i, j) == Magnitude(G[<<i, j>>])
             s == Sector(G[<<x, y>>])
             z == w - 1 - x
  <1>1. ASSUME NEW i \in 0..(w - 1), NEW j \in 0..(h - 1)
        PROVE  Magnitude(H[<<w - 1 - i, j>>]) = m(i, j) /\ m(i, j) \in Nat
    <2>1. <<i, j>> \in Cells(w, h)
      BY DEF Cells
    <2>a. G[<<i, j>>][1] \in Int /\ G[<<i, j>>][2] \in Int /\ G[<<i, j>>] = <<G[<<i, j>>][1], G[<<i, j>>][2]>>
      BY <2>1, Components
    <2>2. PICK a \in Int, b \in Int : G[<<i, j>>] = <<a, b>>
      BY <2>a
    <2>3. H[<<w - 1 - i, j>>] = <<-a, b>>
      BY <2>2
    <2> QED  BY <2>2, <2>3, MagnitudeSymmetry
  <1>2. ASSUME NEW i \in 0..(w - 1), NEW j \in 0..(h - 1)
        PROVE  /\ MagnitudeAt(G, w, h, <<i, j>>) = m(i, j)
               /\ MagnitudeAt(H, w, h, <<w - 1 - i, j>>) = m(i, j)
    BY <1>1 DEF MagnitudeAt, Cells
  <1>3. m(x, y) # 0 => Sector(H[<<z, y>>]) = MirroredSector(s)
    <2>1. <<x, y>> \in Cells(w, h)
      BY DEF Cells
    <2>a. G[<<x, y>>][1] \in Int /\ G[<<x, y>>][2] \in Int /\ G[<<x, y>>] = <<G[<<x, y>>][1], G[<<x, y>>][2]>>
      BY <2>1, Components
    <2>2. PICK a \in Int, b \in Int : G[<<x, y>>] = <<a, b>>
      BY <2>a
    <2>3. H[<<z, y>>] = <<-a, b>>
      BY <2>2
    <2>4. m(x, y) # 0 => <<a, b>> # <<0, 0>>
      BY <2>2, MagnitudeSymmetry
    <2> QED  BY <2>2, <2>3, <2>4, SectorSymmetry
  <1>4. Threshold * Threshold > 0
    BY EdgesAssumption
  <1>5. Inner(z, y, w, h) <=> Inner(x, y, w, h)
    BY DEF Inner
  <1>6. ASSUME Inner(x, y, w, h), m(x, y) # 0
        PROVE  (\A n \in Neighbours(s, x, y) : m(x, y) >= MagnitudeAt(G, w, h, n))
                 <=> \A n \in Neighbours(MirroredSector(s), z, y) :
                       m(x, y) >= MagnitudeAt(H, w, h, n)
    <2>1. x \in 1..(w - 2) /\ y \in 1..(h - 2)
      BY <1>6 DEF Inner
    <2>2. /\ x - 1 \in 0..(w - 1) /\ x + 1 \in 0..(w - 1)
          /\ y - 1 \in 0..(h - 1) /\ y + 1 \in 0..(h - 1)
          /\ w - 1 - (x + 1) = z - 1 /\ w - 1 - (x - 1) = z + 1
      BY <2>1
    <2>3. ASSUME NEW j \in {y - 1, y, y + 1}
          PROVE  /\ MagnitudeAt(H, w, h, <<z - 1, j>>) = MagnitudeAt(G, w, h, <<x + 1, j>>)
                 /\ MagnitudeAt(H, w, h, <<z, j>>) = MagnitudeAt(G, w, h, <<x, j>>)
                 /\ MagnitudeAt(H, w, h, <<z + 1, j>>) = MagnitudeAt(G, w, h, <<x - 1, j>>)
      <3>1. j \in 0..(h - 1)
        BY <2>2
      <3>2. /\ MagnitudeAt(H, w, h, <<w - 1 - (x + 1), j>>) = MagnitudeAt(G, w, h, <<x + 1, j>>)
            /\ MagnitudeAt(H, w, h, <<w - 1 - x, j>>) = MagnitudeAt(G, w, h, <<x, j>>)
            /\ MagnitudeAt(H, w, h, <<w - 1 - (x - 1), j>>) = MagnitudeAt(G, w, h, <<x - 1, j>>)
        BY <3>1, <2>2, <1>2
      <3> QED  BY <3>2, <2>2
    <2> HIDE DEF m, z
    <2>4. CASE s = "horizontal"
      BY <2>3, <2>4 DEF Neighbours, MirroredSector
    <2>5. CASE s = "vertical"
      BY <2>3, <2>5 DEF Neighbours, MirroredSector
    <2>6. CASE s = "forward"
      BY <2>3, <2>6 DEF Neighbours, MirroredSector
    <2>7. CASE s = "back"
      BY <2>3, <2>7 DEF Neighbours, MirroredSector
    <2>8. s \in {"horizontal", "vertical", "forward", "back"}
      BY DEF Sector
    <2> QED  BY <2>4, <2>5, <2>6, <2>7, <2>8
  <1>7. Magnitude(H[<<z, y>>]) = m(x, y) /\ m(x, y) \in Nat
    BY <1>1
  <1>8. Survives(G, w, h, x, y) \/ Survives(H, w, h, z, y) => m(x, y) # 0
    <2>1. ~(m(x, y) = 0 /\ m(x, y) >= Threshold * Threshold)
      BY <1>4, EdgesAssumption
    <2> QED  BY <2>1, <1>7 DEF Survives
  <1> QED
    <2>1. Survives(H, w, h, z, y) <=> Survives(G, w, h, x, y)
      BY <1>3, <1>5, <1>6, <1>7, <1>8 DEF Survives
    <2> QED  BY <2>1, <1>3, <1>7, <1>8

-----------------------------------------------------------------------------
(* The transposed picture.                                                 *)

\* Around <<y, x>>, J is I around <<x, y>> with columns for rows.
TransposedAround(I, J, x, y) ==
  /\ J[<<y - 1, x - 1>>] = I[<<x - 1, y - 1>>] /\ J[<<y, x - 1>>] = I[<<x - 1, y>>]
  /\ J[<<y + 1, x - 1>>] = I[<<x - 1, y + 1>>]
  /\ J[<<y - 1, x>>] = I[<<x, y - 1>>] /\ J[<<y + 1, x>>] = I[<<x, y + 1>>]
  /\ J[<<y - 1, x + 1>>] = I[<<x + 1, y - 1>>] /\ J[<<y, x + 1>>] = I[<<x + 1, y>>]
  /\ J[<<y + 1, x + 1>>] = I[<<x + 1, y + 1>>]

LEMMA TransposedDerivatives ==
  ASSUME NEW I, NEW J, NEW x, NEW y,
         TypedAround(I, x, y), TransposedAround(I, J, x, y)
  PROVE  SobelX(J, y, x) = SobelY(I, x, y) /\ SobelY(J, y, x) = SobelX(I, x, y)
  BY DEF SobelX, SobelY, TypedAround, TransposedAround

\* Of the transposed intensities the two derivatives change places.
LEMMA TransposedSobel ==
  ASSUME NEW w \in Nat, NEW h \in Nat,
         NEW I \in [Cells(w, h) -> Int], NEW J \in [Cells(h, w) -> Int],
         \A x \in 0..(w - 1), y \in 0..(h - 1) : J[<<y, x>>] = I[<<x, y>>],
         NEW x \in 0..(w - 1), NEW y \in 0..(h - 1)
  PROVE  Sobel(J, h, w)[<<y, x>>] =
           <<Sobel(I, w, h)[<<x, y>>][2], Sobel(I, w, h)[<<x, y>>][1]>>
  <1>1. /\ <<x, y>> \in Cells(w, h) /\ <<y, x>> \in Cells(h, w)
        /\ Inner(y, x, h, w) <=> Inner(x, y, w, h)
    BY DEF Cells, Inner
  <1>2. /\ Sobel(I, w, h)[<<x, y>>] = Gradient(I, w, h, x, y)
        /\ Sobel(J, h, w)[<<y, x>>] = Gradient(J, h, w, y, x)
    BY <1>1 DEF Sobel
  <1>3. CASE Inner(x, y, w, h)
    <2>1. x \in 1..(w - 2) /\ y \in 1..(h - 2)
      BY <1>3 DEF Inner
    <2>2. /\ x - 1 \in 0..(w - 1) /\ x + 1 \in 0..(w - 1)
          /\ y - 1 \in 0..(h - 1) /\ y + 1 \in 0..(h - 1)
      BY <2>1
    <2>3. TransposedAround(I, J, x, y)
      BY <2>2 DEF TransposedAround
    <2>4. TypedAround(I, x, y)
      BY <2>1, Surrounded DEF TypedAround
    <2>5. SobelX(J, y, x) = SobelY(I, x, y) /\ SobelY(J, y, x) = SobelX(I, x, y)
      BY <2>3, <2>4, TransposedDerivatives
    <2> QED  BY <1>1, <1>2, <1>3, <2>5 DEF Gradient
  <1>4. CASE ~Inner(x, y, w, h)
    BY <1>1, <1>2, <1>4 DEF Gradient
  <1> QED  BY <1>3, <1>4

\* The same pixels survive the suppression.
LEMMA TransposedSurvives ==
  ASSUME NEW w \in Nat, NEW h \in Nat,
         NEW G \in Gradients(w, h), NEW H \in Gradients(h, w),
         \A x \in 0..(w - 1), y \in 0..(h - 1) :
           H[<<y, x>>] = <<G[<<x, y>>][2], G[<<x, y>>][1]>>,
         NEW x \in 0..(w - 1), NEW y \in 0..(h - 1)
  PROVE  /\ Magnitude(H[<<y, x>>]) = Magnitude(G[<<x, y>>])
         /\ Survives(H, h, w, y, x) <=> Survives(G, w, h, x, y)
         /\ Survives(G, w, h, x, y) =>
              Sector(H[<<y, x>>]) = TransposedSector(Sector(G[<<x, y>>]))
  <1> DEFINE m(i, j) == Magnitude(G[<<i, j>>])
             s == Sector(G[<<x, y>>])
  <1>1. ASSUME NEW i \in 0..(w - 1), NEW j \in 0..(h - 1)
        PROVE  Magnitude(H[<<j, i>>]) = m(i, j) /\ m(i, j) \in Nat
    <2>1. <<i, j>> \in Cells(w, h)
      BY DEF Cells
    <2>a. G[<<i, j>>][1] \in Int /\ G[<<i, j>>][2] \in Int /\ G[<<i, j>>] = <<G[<<i, j>>][1], G[<<i, j>>][2]>>
      BY <2>1, Components
    <2>2. PICK a \in Int, b \in Int : G[<<i, j>>] = <<a, b>>
      BY <2>a
    <2>3. H[<<j, i>>] = <<b, a>>
      BY <2>2
    <2> QED  BY <2>2, <2>3, MagnitudeSymmetry
  <1>2. ASSUME NEW i \in 0..(w - 1), NEW j \in 0..(h - 1)
        PROVE  MagnitudeAt(H, h, w, <<j, i>>) = MagnitudeAt(G, w, h, <<i, j>>)
    BY <1>1 DEF MagnitudeAt, Cells
  <1>3. m(x, y) # 0 => Sector(H[<<y, x>>]) = TransposedSector(s)
    <2>1. <<x, y>> \in Cells(w, h)
      BY DEF Cells
    <2>a. G[<<x, y>>][1] \in Int /\ G[<<x, y>>][2] \in Int /\ G[<<x, y>>] = <<G[<<x, y>>][1], G[<<x, y>>][2]>>
      BY <2>1, Components
    <2>2. PICK a \in Int, b \in Int : G[<<x, y>>] = <<a, b>>
      BY <2>a
    <2>3. H[<<y, x>>] = <<b, a>>
      BY <2>2
    <2>4. m(x, y) # 0 => <<a, b>> # <<0, 0>>
      BY <2>2, MagnitudeSymmetry
    <2> QED  BY <2>2, <2>3, <2>4, SectorSymmetry
  <1>4. Threshold * Threshold > 0
    BY EdgesAssumption
  <1>5. Inner(y, x, h, w) <=> Inner(x, y, w, h)
    BY DEF Inner
  <1>6. ASSUME Inner(x, y, w, h), m(x, y) # 0
        PROVE  (\A n \in Neighbours(s, x, y) : m(x, y) >= MagnitudeAt(G, w, h, n))
                 <=> \A n \in Neighbours(TransposedSector(s), y, x) :
                       m(x, y) >= MagnitudeAt(H, h, w, n)
    <2>1. /\ x - 1 \in 0..(w - 1) /\ x + 1 \in 0..(w - 1)
          /\ y - 1 \in 0..(h - 1) /\ y + 1 \in 0..(h - 1)
      BY <1>6 DEF Inner
    <2>2. ASSUME NEW i \in {x - 1, x, x + 1}, NEW j \in {y - 1, y, y + 1}
          PROVE  MagnitudeAt(H, h, w, <<j, i>>) = MagnitudeAt(G, w, h, <<i, j>>)
      BY <2>1, <1>2
    <2> HIDE DEF m
    <2>3. CASE s = "horizontal"
      BY <2>2, <2>3 DEF Neighbours, TransposedSector
    <2>4. CASE s = "vertical"
      BY <2>2, <2>4 DEF Neighbours, TransposedSector
    <2>5. CASE s = "forward"
      BY <2>2, <2>5 DEF Neighbours, TransposedSector
    <2>6. CASE s = "back"
      BY <2>2, <2>6 DEF Neighbours, TransposedSector
    <2>7. s \in {"horizontal", "vertical", "forward", "back"}
      BY DEF Sector
    <2> QED  BY <2>3, <2>4, <2>5, <2>6, <2>7
  <1>7. Magnitude(H[<<y, x>>]) = m(x, y) /\ m(x, y) \in Nat
    BY <1>1
  <1>8. Survives(G, w, h, x, y) \/ Survives(H, h, w, y, x) => m(x, y) # 0
    <2>1. ~(m(x, y) = 0 /\ m(x, y) >= Threshold * Threshold)
      BY <1>4, EdgesAssumption
    <2> QED  BY <2>1, <1>7 DEF Survives
  <1> QED
    <2>1. Survives(H, h, w, y, x) <=> Survives(G, w, h, x, y)
      BY <1>3, <1>5, <1>6, <1>7, <1>8 DEF Survives
    <2> QED  BY <2>1, <1>3, <1>7, <1>8

-----------------------------------------------------------------------------
(* The edges of the turned picture are the turned edges.                   *)

\* process_frame finds the same edges whichever way the picture is held, in
\* pictures of every size.
THEOREM EdgesAreSymmetric ==
  ASSUME NEW p \in Pictures
  PROVE  TurnsWithPicture(p)
  <1> DEFINE w == p.w
             h == p.h
             I == CreateIntensityMap(p)
             J == CreateIntensityMap(Mirrored(p))
             K == CreateIntensityMap(Transposed(p))
             G == Sobel(I, w, h)
             GJ == Sobel(J, w, h)
             GK == Sobel(K, h, w)
  <1>1. w \in Nat /\ h \in Nat /\ I \in [Cells(w, h) -> Int]
    BY PictureSize, IntensityMapType
  <1>2. /\ Mirrored(p).w = w /\ Mirrored(p).h = h
        /\ Transposed(p).w = h /\ Transposed(p).h = w
    BY DEF Mirrored, Transposed
  <1>3. \A c \in Cells(w, h) : I[c] = CalculateIntensity(p.pixel[c])
    BY DEF CreateIntensityMap
  <1>4. /\ J \in [Cells(w, h) -> Int]
        /\ \A x \in 0..(w - 1), y \in 0..(h - 1) : J[<<w - 1 - x, y>>] = I[<<x, y>>]
    <2>1. J = [c \in Cells(w, h) |-> CalculateIntensity(p.pixel[<<w - 1 - c[1], c[2]>>])]
      BY DEF CreateIntensityMap, Mirrored
    <2>2. ASSUME NEW c \in Cells(w, h)
          PROVE  <<w - 1 - c[1], c[2]>> \in Cells(w, h)
      BY <1>1 DEF Cells
    <2>3. ASSUME NEW x \in 0..(w - 1), NEW y \in 0..(h - 1)
          PROVE  /\ <<w - 1 - x, y>> \in Cells(w, h)
                 /\ <<w - 1 - (w - 1 - x), y>> = <<x, y>>
                 /\ <<x, y>> \in Cells(w, h)
      BY <1>1 DEF Cells
    <2>4. J = [c \in Cells(w, h) |-> I[<<w - 1 - c[1], c[2]>>]]
      BY <2>1, <2>2, <1>3
    <2> HIDE DEF I, J
    <2> QED  BY <2>2, <2>3, <2>4, <1>1
  <1>5. /\ K \in [Cells(h, w) -> Int]
        /\ \A x \in 0..(w - 1), y \in 0..(h - 1) : K[<<y, x>>] = I[<<x, y>>]
    <2>1. K = [c \in Cells(h, w) |-> CalculateIntensity(p.pixel[<<c[2], c[1]>>])]
      BY DEF CreateIntensityMap, Transposed
    <2>2. ASSUME NEW c \in Cells(h, w)
          PROVE  <<c[2], c[1]>> \in Cells(w, h)
      BY DEF Cells
    <2>3. ASSUME NEW x \in 0..(w - 1), NEW y \in 0..(h - 1)
          PROVE  <<y, x>> \in Cells(h, w) /\ <<x, y>> \in Cells(w, h)
      BY DEF Cells
    <2>4. K = [c \in Cells(h, w) |-> I[<<c[2], c[1]>>]]
      BY <2>1, <2>2, <1>3
    <2> HIDE DEF I, K
    <2> QED  BY <2>2, <2>3, <2>4, <1>1
  <1>6. /\ ProcessFrame(p).magnitude = NonMaximumSuppression(G, w, h)
        /\ ProcessFrame(p).angle = G
    BY DEF ProcessFrame
  <1>7. /\ ProcessFrame(Mirrored(p)).magnitude = NonMaximumSuppression(GJ, w, h)
        /\ ProcessFrame(Mirrored(p)).angle = GJ
    BY <1>2 DEF ProcessFrame
  <1>8. /\ ProcessFrame(Transposed(p)).magnitude = NonMaximumSuppression(GK, h, w)
        /\ ProcessFrame(Transposed(p)).angle = GK
    BY <1>2 DEF ProcessFrame
  <1> HIDE DEF w, h, I, J, K
  <1>9. G \in Gradients(w, h) /\ GJ \in Gradients(w, h) /\ GK \in Gradients(h, w)
    BY <1>1, <1>4, <1>5, SobelType
  <1>10. /\ \A x \in 0..(w - 1), y \in 0..(h - 1) :
              GJ[<<w - 1 - x, y>>] = <<- G[<<x, y>>][1], G[<<x, y>>][2]>>
         /\ \A x \in 0..(w - 1), y \in 0..(h - 1) :
              GK[<<y, x>>] = <<G[<<x, y>>][2], G[<<x, y>>][1]>>
    BY <1>1, <1>4, <1>5, MirroredSobel, TransposedSobel
  <1> HIDE DEF G, GJ, GK
  <1>11. ASSUME NEW x \in 0..(w - 1), NEW y \in 0..(h - 1)
         PROVE  /\ NonMaximumSuppression(GJ, w, h)[<<w - 1 - x, y>>] =
                      NonMaximumSuppression(G, w, h)[<<x, y>>]
                /\ NonMaximumSuppression(GK, h, w)[<<y, x>>] =
                      NonMaximumSuppression(G, w, h)[<<x, y>>]
                /\ NonMaximumSuppression(G, w, h)[<<x, y>>] # 0 =>
                     /\ Sector(GJ[<<w - 1 - x, y>>]) = MirroredSector(Sector(G[<<x, y>>]))
                     /\ Sector(GK[<<y, x>>]) = TransposedSector(Sector(G[<<x, y>>]))
    <2>1. /\ <<x, y>> \in Cells(w, h) /\ <<w - 1 - x, y>> \in Cells(w, h)
          /\ <<y, x>> \in Cells(h, w)
      BY <1>1 DEF Cells
    <2>2. /\ Magnitude(GJ[<<w - 1 - x, y>>]) = Magnitude(G[<<x, y>>])
          /\ Survives(GJ, w, h, w - 1 - x, y) <=> Survives(G, w, h, x, y)
          /\ Survives(G, w, h, x, y) =>
               Sector(GJ[<<w - 1 - x, y>>]) = MirroredSector(Sector(G[<<x, y>>]))
      BY <1>1, <1>9, <1>10, MirroredSurvives
    <2>3. /\ Magnitude(GK[<<y, x>>]) = Magnitude(G[<<x, y>>])
          /\ Survives(GK, h, w, y, x) <=> Survives(G, w, h, x, y)
          /\ Survives(G, w, h, x, y) =>
               Sector(GK[<<y, x>>]) = TransposedSector(Sector(G[<<x, y>>]))
      BY <1>1, <1>9, <1>10, TransposedSurvives
    <2> QED  BY <2>1, <2>2, <2>3 DEF NonMaximumSuppression
  <1> QED
    <2> SUFFICES ASSUME NEW x \in 0..(w - 1), NEW y \in 0..(h - 1)
                 PROVE  /\ NonMaximumSuppression(GJ, w, h)[<<w - 1 - x, y>>] =
                             NonMaximumSuppression(G, w, h)[<<x, y>>]
                        /\ NonMaximumSuppression(GK, h, w)[<<y, x>>] =
                             NonMaximumSuppression(G, w, h)[<<x, y>>]
                        /\ NonMaximumSuppression(G, w, h)[<<x, y>>] # 0 =>
                             /\ Sector(GJ[<<w - 1 - x, y>>]) =
                                  MirroredSector(Sector(G[<<x, y>>]))
                             /\ Sector(GK[<<y, x>>]) =
                                  TransposedSector(Sector(G[<<x, y>>]))
      BY <1>6, <1>7, <1>8, Zenon DEF TurnsWithPicture, w, h
    <2> QED  BY <1>11

==============================================================================
