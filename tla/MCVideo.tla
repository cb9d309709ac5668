------------------------------- MODULE MCVideo -------------------------------
(* An instance of Video for TLC: pictures of 4x4 pixels with channels 0..3. *)
EXTENDS Video

Picture(Pixel(_, _)) ==
  [w |-> 4, h |-> 4, pixel |-> [c \in Cells(4, 4) |-> Pixel(c[1], c[2])]]

Black == <<0, 0, 0>>
Green == <<0, 2, 0>>
Grey == <<1, 1, 1>>
White == <<MAX, MAX, MAX>>

\* A wall in the light, a slope, and the corner of a bright thing at dusk.
Wall == Picture(LAMBDA x, y : IF x < 2 THEN Green ELSE Black)
Slope == Picture(LAMBDA x, y : CASE x + y < 3 -> Black
                                 [] x + y = 3 -> Grey
                                 [] OTHER -> White)
Corner == Picture(LAMBDA x, y : IF x = 3 /\ y > 1 THEN White ELSE Grey)

Scenes == {Wall, Slope, Corner}

\* The size of the camera's frames is not that of the patterns.
Sizes == [s \in Source |-> IF s = "Camera" THEN <<2, 2>> ELSE <<1, 2>>]

\* " .■", and for each direction the first of the code's characters and one
\* of more than one byte.
Intensity == <<32, 46, 9632>>
Horizontal == <<124, 9474>>
Vertical == <<45, 9473>>
Forward == <<47, 9585>>
Back == <<92, 9586>>

==============================================================================
