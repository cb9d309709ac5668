------------------------- MODULE EdgeDetectorProofs -------------------------
(***************************************************************************)
(* Safety of the hand-off between the two threads of EdgeDetector, for any *)
(* number of frames.                                                       *)
(***************************************************************************)
EXTENDS EdgeDetector, TLAPS

\* Who holds each mutex is a function of where the two threads are.
LockInv ==
  /\ buffer_lock = "converter" <=> converter \in {"fill", "flag", "release"}
  /\ buffer_lock # "detector"
  /\ flag_lock = "converter" <=> converter = "release"
  /\ flag_lock = "detector" <=> detector = "test"
  /\ info_lock = "converter" <=> converter = "angle"
  /\ info_lock = "detector" <=> detector = "angle"

\* What the converter has handed over, and what it has read back.
HandOverInv ==
  /\ converter # "fill" => frame_buffer = submitted
  /\ converter = "release" => new_frame_available
  /\ converter = "angle" => info.magnitude = edge_info.magnitude
  /\ converter # "angle" => info.magnitude = info.angle

\* Nothing new is on its way to the detector.
NothingNew == converter \notin {"fill", "flag"} /\ ~new_frame_available

\* The edges are of a frame submitted, both fields of one frame between two
\* updates, and of the last frame when there is nothing new.
EdgeInv ==
  /\ edge_info.magnitude <= submitted
  /\ edge_info.angle <= edge_info.magnitude
  /\ detector # "angle" => edge_info.angle = edge_info.magnitude
  /\ detector = "angle" => edge_info.magnitude = frame_data
  /\ detector = "magnitude" => edge_info.magnitude <= frame_data /\ frame_data <= submitted
  /\ detector \in {"magnitude", "angle"} /\ NothingNew => frame_data = submitted
  /\ detector \in {"running", "flag", "test"} /\ NothingNew =>
       edge_info.magnitude = submitted

HandoffInv == TypeOK /\ LockInv /\ HandOverInv /\ EdgeInv

LEMMA InitHandoff == Init => HandoffInv
<1> SUFFICES ASSUME Init PROVE HandoffInv
  OBVIOUS
<1>1. TypeOK
  <2>1. 0 \in 0..MaxFrames /\ 0 \in 0..0
    BY MaxFramesAssumption
  <2>2. edge_info \in EdgeInfo /\ info \in EdgeInfo
    BY <2>1 DEF Init, EdgeInfo
  <2> QED
    BY <2>1, <2>2 DEF Init, TypeOK, Owner, ConverterState, DetectorState
<1>2. LockInv /\ HandOverInv /\ EdgeInv
  BY DEF Init, LockInv, HandOverInv, EdgeInv
<1> QED
  BY <1>1, <1>2 DEF HandoffInv

LEMMA ConverterStepHandoff ==
  ASSUME HandoffInv, ConverterStep PROVE HandoffInv'
<1> USE MaxFramesAssumption DEF HandoffInv, handoff, result, Converter, Owner, ConverterState, DetectorState, EdgeInfo
<1>1. CASE Submit
  BY <1>1 DEF ConverterStep, Submit, TypeOK, LockInv, HandOverInv, EdgeInv, NothingNew
<1>2. CASE Fill
  BY <1>2 DEF ConverterStep, Fill, TypeOK, LockInv, HandOverInv, EdgeInv, NothingNew
<1>3. CASE RaiseFlag
  BY <1>3 DEF ConverterStep, RaiseFlag, TypeOK, LockInv, HandOverInv, EdgeInv, NothingNew
<1>4. CASE Release
  BY <1>4 DEF ConverterStep, Release, TypeOK, LockInv, HandOverInv, EdgeInv, NothingNew
<1>5. CASE ReadMagnitude
  BY <1>5 DEF ConverterStep, ReadMagnitude, TypeOK, LockInv, HandOverInv, EdgeInv, NothingNew
<1>6. CASE ReadAngle
  BY <1>6 DEF ConverterStep, ReadAngle, TypeOK, LockInv, HandOverInv, EdgeInv, NothingNew
<1> QED BY <1>1, <1>2, <1>3, <1>4, <1>5, <1>6 DEF ConverterStep

LEMMA DetectorStepHandoff ==
  ASSUME HandoffInv, DetectorStep PROVE HandoffInv'
<1> USE MaxFramesAssumption DEF HandoffInv, handoff, result, Detector, Owner, ConverterState, DetectorState, EdgeInfo
<1>1. CASE Check
  BY <1>1 DEF DetectorStep, Check, TypeOK, LockInv, HandOverInv, EdgeInv, NothingNew
<1>2. CASE LockFlag
  BY <1>2 DEF DetectorStep, LockFlag, TypeOK, LockInv, HandOverInv, EdgeInv, NothingNew
<1>3. CASE TestFlag
  BY <1>3 DEF DetectorStep, TestFlag, TypeOK, LockInv, HandOverInv, EdgeInv, NothingNew
<1>4. CASE Copy
  BY <1>4 DEF DetectorStep, Copy, TypeOK, LockInv, HandOverInv, EdgeInv, NothingNew
<1>5. CASE WriteMagnitude
  BY <1>5 DEF DetectorStep, WriteMagnitude, TypeOK, LockInv, HandOverInv, EdgeInv, NothingNew
<1>6. CASE WriteAngle
  BY <1>6 DEF DetectorStep, WriteAngle, TypeOK, LockInv, HandOverInv, EdgeInv, NothingNew
<1> QED BY <1>1, <1>2, <1>3, <1>4, <1>5, <1>6 DEF DetectorStep

LEMMA StepHandoff ==
  ASSUME HandoffInv, [Next]_vars PROVE HandoffInv'
<1>1. CASE ConverterStep
  BY <1>1, ConverterStepHandoff
<1>2. CASE DetectorStep
  BY <1>2, DetectorStepHandoff
<1>3. CASE Stop \/ UNCHANGED vars
  BY <1>3 DEF Stop, vars, handoff, result, HandoffInv, TypeOK, LockInv, HandOverInv,
     EdgeInv, NothingNew
<1> QED
  BY <1>1, <1>2, <1>3 DEF Next, Finished

THEOREM HandoffInvariant == Spec => []HandoffInv
  BY InitHandoff, StepHandoff, PTL DEF Spec

-----------------------------------------------------------------------------

\* The types of the variables.
THEOREM EdgeTypeCorrect == Spec => []TypeOK
  BY HandoffInvariant, PTL DEF HandoffInv

\* get_edge_info never mixes the fields of two frames.
THEOREM EdgesOfOneFrameAlways == Spec => []EdgesOfOneFrame
<1>1. HandoffInv => EdgesOfOneFrame
  BY DEF HandoffInv, HandOverInv, EdgesOfOneFrame
<1> QED
  BY <1>1, HandoffInvariant, PTL

\* The detector misses no last frame: flag down and nothing in hand means
\* that the edges are up to date.
THEOREM NoFrameLost == Spec => []NoLostFrame
<1>1. HandoffInv => NoLostFrame
  <2> SUFFICES ASSUME HandoffInv, detector \in {"running", "flag", "test"}, NothingNew
               PROVE  edge_info = [magnitude |-> submitted, angle |-> submitted]
    BY DEF NoLostFrame, NothingNew
  <2>1. edge_info.magnitude = submitted /\ edge_info.angle = submitted
    BY DEF HandoffInv, EdgeInv
  <2> QED
    BY <2>1 DEF HandoffInv, TypeOK, EdgeInfo
<1> QED
  BY <1>1, HandoffInvariant, PTL

\* The edges never go back: a copy taken from the buffer is never older than
\* the edges it replaces.
THEOREM EdgesOnlyAdvance == Spec => EdgesAdvance
<1> DEFINE Advance == /\ edge_info'.magnitude >= edge_info.magnitude
                      /\ edge_info'.angle >= edge_info.angle
<1>1. ASSUME HandoffInv, [Next]_vars PROVE [Advance]_edge_info
  <2>0. edge_info.magnitude \in Nat /\ edge_info.angle \in Nat /\ frame_data \in Nat
    BY <1>1, MaxFramesAssumption DEF HandoffInv, TypeOK, EdgeInfo
  <2>1. CASE WriteMagnitude
    BY <1>1, <2>0, <2>1 DEF WriteMagnitude, Detector, HandoffInv, TypeOK, EdgeInfo, EdgeInv
  <2>2. CASE WriteAngle
    BY <1>1, <2>0, <2>2 DEF WriteAngle, Detector, HandoffInv, TypeOK, EdgeInfo, EdgeInv
  <2>3. CASE ConverterStep \/ Stop \/ Finished \/ UNCHANGED vars
    BY <2>3 DEF ConverterStep, Submit, Fill, RaiseFlag, Release, ReadMagnitude, ReadAngle,
       Stop, Finished, vars, handoff, result
  <2>4. CASE Check \/ LockFlag \/ TestFlag \/ Copy
    BY <2>4 DEF Check, LockFlag, TestFlag, Copy, handoff, result
  <2> QED
    BY <1>1, <2>1, <2>2, <2>3, <2>4 DEF Next, DetectorStep
<1> QED
  BY <1>1, HandoffInvariant, PTL DEF Spec, EdgesAdvance

=============================================================================
