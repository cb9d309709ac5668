-------------------------------- MODULE Video --------------------------------
(***************************************************************************)
(* The way of a frame from the camera, or the test pattern, of one client  *)
(* to the screen of the other: capture, convert, set_chars, serialize_frame, *)
(* the network, process_datagram, render.  Who sends to whom and when is   *)
(* in SFU and Client, the threads of the edge detector in EdgeDetector.    *)
(***************************************************************************)
EXTENDS Converter, TestPatterns, Renderer, FiniteSets

CONSTANTS
  Size,       \* Size[s]: width and height of the frames of a source
  MaxFrames,  \* bound: frames of a test pattern
  MaxFlight   \* bound: datagrams in flight

Source == {"Camera"} \cup PatternType

ASSUME VideoAssumption ==
  /\ Size \in [Source -> (1..Columns) \X (1..Rows)]
  /\ \A s \in Source : Size[s][1] * Size[s][2] < USIZE
  /\ {MaxFrames, MaxFlight} \subseteq Nat

VARIABLES
  source,         \* what the client at the other end sends
  frame_counter,  \* of its mock frame generator
  i_frame,        \* the last picture it has captured
  a_frame,        \* the frame it converts into, over and over
  net             \* datagrams in flight

sender == <<source, frame_counter, i_frame, a_frame>>
vars == <<sender, net, renderer>>

NewAsciiFrame(s) == NewFrame(Size[s][1], Size[s][2], Blank)

SenderInit(s) ==
  /\ source = s
  /\ frame_counter = 0
  /\ i_frame = NoFrame
  /\ a_frame = NewAsciiFrame(s)

Init ==
  /\ RendererInit
  /\ \E s \in Source : SenderInit(s)
  /\ net = {}

-----------------------------------------------------------------------------

\* The sender task: what does not find room in the network is lost.
Send(frame) ==
  net' = IF Cardinality(net) < MaxFlight THEN net \cup {SerializeFrame(frame)}
         ELSE net

\* What get_edge_info may return: the edges of this picture or of one before
\* (EdgesOfOneFrame in EdgeDetector), or of none yet.
EdgeInfos ==
  {NoEdges(p.w, p.h) : p \in Pictures} \cup {ProcessFrame(p) : p \in Pictures}

\* capture_frame, convert, and a new frame with the characters of a_frame.
Capture(picture) ==
  /\ source = "Camera"
  /\ i_frame' = picture
  /\ \E edges \in EdgeInfos : a_frame' = Convert(picture, a_frame, edges)
  /\ Send(SetChars(NewAsciiFrame(source), a_frame'.chars))
  /\ UNCHANGED <<source, frame_counter, renderer>>

\* generate_frame.
Generate ==
  /\ source \in PatternType
  /\ frame_counter < MaxFrames
  /\ frame_counter' = frame_counter + 1
  /\ Send(GenerateFrame(source, Size[source][1], Size[source][2], frame_counter))
  /\ UNCHANGED <<source, i_frame, a_frame, renderer>>

\* The client leaves and another one takes its place, while its last
\* datagrams are still on the way.
Replace(s) ==
  /\ source' = s
  /\ frame_counter' = 0
  /\ i_frame' = NoFrame
  /\ a_frame' = NewAsciiFrame(s)
  /\ UNCHANGED <<net, renderer>>

PING == <<80, 73, 78, 71>>

\* What may be read in place of a datagram: itself, cut short, too long, or
\* the PING of the other client, which is forwarded like a frame.
Readings(datagram) ==
  {datagram, SubSeq(datagram, 1, Len(datagram) - 1), Append(datagram, Hash), PING}

\* process_datagram, and render of the frame it returns.
Receive(datagram) ==
  /\ rendering = "runs"
  /\ LET frame == ProcessDatagram(datagram)
     IN IF frame = NoFrame THEN UNCHANGED renderer ELSE Render(frame)
  /\ UNCHANGED sender

\* Delivered, perhaps not for the last time, or lost.
Deliver(datagram) ==
  /\ \E reading \in Readings(datagram) : Receive(reading)
  /\ net' \in {net, net \ {datagram}}

Lose(datagram) ==
  /\ net' = net \ {datagram}
  /\ UNCHANGED <<sender, renderer>>

Next ==
  \/ \E picture \in Pictures : Capture(picture)
  \/ Generate
  \/ \E s \in Source : Replace(s)
  \/ \E datagram \in net : Deliver(datagram) \/ Lose(datagram)
  \/ (Start \/ Foreign) /\ UNCHANGED <<sender, net>>

Spec == Init /\ [][Next]_vars

-----------------------------------------------------------------------------

VideoTypeOK ==
  /\ RendererTypeOK
  /\ source \in Source
  /\ frame_counter \in 0..MaxFrames
  /\ i_frame \in Pictures \cup {NoFrame}
  /\ <<a_frame.w, a_frame.h>> = Size[source]
  /\ DOMAIN a_frame.chars = 1..(a_frame.w * a_frame.h)
  /\ \A i \in DOMAIN a_frame.chars : IsChar(a_frame.chars[i])
  /\ Cardinality(net) <= MaxFlight

\* The frames that a picture may be converted into, an empty one to begin with.
Converted ==
  [p \in Pictures |-> {Convert(p, NewAsciiFrame("Camera"), edges) : edges \in EdgeInfos}]

\* Every frame that some client can make, and an empty one of each size.
Frames ==
  (UNION {Converted[p] : p \in Pictures})
    \cup {GenerateFrame(s, Size[s][1], Size[s][2], n) :
            s \in PatternType, n \in 0..MaxFrames}
    \cup {NewAsciiFrame(s) : s \in Source}

\* The renderer takes the screen for a frame that a client made, whole and
\* with its rows in their place, or for an empty one of such a size, whatever
\* arrives: serialize_frame and process_datagram are inverse, and from_bytes
\* lets no part of a frame pass, nor more than a frame.
ShowsWholeFrames ==
  prev_frame # <<>> =>
    [w |-> prev_w, h |-> prev_h, chars |-> prev_frame] \in Frames

\* convert writes every cell of the frame it is given: what a_frame holds is
\* of the last picture alone, whatever was in it before.
ConvertFillsFrame == i_frame # NoFrame => a_frame \in Converted[i_frame]

\* The pictures of which the edge detector and the converter make what they
\* should: see Edges and Converter.
Convolved == {p \in Pictures : MatchesKernels(p)}
Turning == {p \in Pictures : TurnsWithPicture(p)}
Ordered == {p \in Pictures : KeepsOrder(p)}

\* sobel convolves the picture that was captured with the documented kernels.
SobelMatchesKernels == i_frame # NoFrame => i_frame \in Convolved

\* The edges of the picture that was captured turn with it.
EdgesTurnWithPicture == i_frame # NoFrame => i_frame \in Turning

\* In the picture that was captured the brighter pixels get the denser
\* characters.
BrighterIsDenser == i_frame # NoFrame => i_frame \in Ordered

\* "By examining each pixel and its neighbors along the gradient direction,
\* the function determines a local maximum": not what the code does.
EdgesAreMaxima == i_frame # NoFrame => KeepsLocalMaxima(i_frame)

==============================================================================
