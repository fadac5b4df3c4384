-------------------------- MODULE ULSurfaceProofs --------------------------
(***************************************************************************)
(* What holds of ULSurface for every set of cells.  For any number of      *)
(* images, frame numbers that wrap included: the types.  For every number  *)
(* of images below INT32_MAX: no dirt is lost, the client is at most two   *)
(* frames behind, and a client that keeps up loses no frame.  The run      *)
(* surface_wrap shows that the last one needs the bound.                   *)
(***************************************************************************)
EXTENDS ULSurface, SequenceTheorems, TLAPS

\* The ints of the program.
Ints == IntMin..IntMax

\* Counting frames and numbering them stays within an int, whatever wraps.
LEMMA IntArithmetic ==
    ASSUME frameId \in Ints
    PROVE  /\ NextFrameId \in Ints /\ FrameNumber \in Ints /\ 0 \in Ints
<1>1. /\ IntMax \in Nat /\ IntMax > 0 /\ frameId \in Int
      /\ frameId >= -IntMax - 1 /\ frameId <= IntMax
  BY SurfaceAssumption DEF Ints, IntMin
<1>2. NextFrameId \in Ints /\ 0 \in Ints
  BY <1>1 DEF NextFrameId, Wrap, Ints, IntMin
<1>3. \A n \in Nat : n % IntMax \in 0..(IntMax - 1)
  BY <1>1
<1>4. FrameNumber \in Ints
  <2>1. CASE frameId >= 0
    <3>1. frameId % IntMax \in 0..(IntMax - 1)
      BY <1>1, <1>3, <2>1
    <3> QED BY <1>1, <2>1, <3>1 DEF FrameNumber, Ints, IntMin
  <2>2. CASE ~(frameId >= 0)
    <3>1. -frameId \in Nat
      BY <1>1, <2>2
    <3>2. (-frameId) % IntMax \in 0..(IntMax - 1)
      BY <1>3, <3>1
    <3>3. FrameNumber = -((-frameId) % IntMax)
      BY <2>2 DEF FrameNumber
    <3>4. \A m \in 0..(IntMax - 1) : -m \in Ints
      BY <1>1 DEF Ints, IntMin
    <3> QED BY <3>2, <3>3, <3>4
  <2> QED BY <2>1, <2>2
<1> QED BY <1>2, <1>4

\* TypeOK, in the two parts a step changes separately.
SurfaceTypes ==
    /\ frameId \in Ints /\ ackFrameId \in Ints
    /\ pendingRects \subseteq Cells
    /\ updateThread \in Threads \cup {"none"}
    /\ workaround \in BOOLEAN
    /\ crectSize \in Nat /\ grids \subseteq Nat
    /\ screen \in [Cells -> 0..MaxImages]
    /\ inFlight \in Seq(Ints)

ImageTypes ==
    /\ latest \in [Cells -> 0..MaxImages]
    /\ image \in 0..MaxImages

LEMMA TypesInitial == Init => SurfaceTypes /\ ImageTypes
<1>1. 0 \in Ints
  BY SurfaceAssumption DEF Ints, IntMin
<1> QED BY <1>1, SurfaceAssumption
        DEF Init, SurfaceInit, SurfaceTypes, ImageTypes, RECT_SIZE_BYPASS_CREATE

\* Every way submitUpdate() can end keeps the surface's types.
LEMMA SubmitTypes ==
    ASSUME SurfaceTypes, NEW rects \in SUBSET Cells, NEW img \in 0..MaxImages,
           SubmitUpdate(rects, img)
    PROVE  SurfaceTypes'
<1>1. NextFrameId \in Ints /\ FrameNumber \in Ints
  BY IntArithmetic DEF SurfaceTypes
<1>2. \A cells : Painted(cells, img) \in [Cells -> 0..MaxImages]
  BY DEF Painted, SurfaceTypes
<1>3. CASE DropFrame(rects)
  BY <1>3 DEF DropFrame, KeptRects, SurfaceTypes, clientVars
<1>4. CASE DrawNothing(rects)
  BY <1>4 DEF DrawNothing, SurfaceTypes, surfaceVars, memberVars, clientVars
<1>5. CASE DrawWhole(rects, img)
  <2>1. /\ workaround' = FALSE /\ pendingRects' = {} /\ frameId' \in Ints
        /\ screen' \in [Cells -> 0..MaxImages]
        /\ UNCHANGED <<ackFrameId, updateThread, crectSize, inFlight, grids>>
    BY <1>1, <1>2, <1>5 DEF DrawWhole
  <2> QED BY <2>1 DEF SurfaceTypes
<1>6. CASE DrawRects(rects, img)
  <2>1. /\ pendingRects' = {} /\ frameId' \in Ints
        /\ screen' \in [Cells -> 0..MaxImages]
        /\ grids' = grids \cup {crectSize}
        /\ inFlight' = Append(inFlight, FrameNumber)
        /\ UNCHANGED <<ackFrameId, updateThread, workaround, crectSize>>
    BY <1>1, <1>2, <1>6 DEF DrawRects
  <2>2. inFlight' \in Seq(Ints)
    BY <1>1, <2>1, AppendProperties DEF SurfaceTypes
  <2> QED BY <2>1, <2>2 DEF SurfaceTypes
<1> QED BY <1>3, <1>4, <1>5, <1>6 DEF SubmitUpdate

LEMMA AckTypes ==
    ASSUME SurfaceTypes, NEW k \in 1..Len(inFlight), SetAckFrameId(k)
    PROVE  SurfaceTypes'
<1>1. inFlight \in Seq(Ints) /\ Len(inFlight) \in Nat
  BY DEF SurfaceTypes
<1>2. /\ ackFrameId' = inFlight[k]
      /\ inFlight' = SubSeq(inFlight, k + 1, Len(inFlight))
      /\ UNCHANGED <<frameId, pendingRects, updateThread, workaround, crectSize,
                     screen, grids>>
  BY DEF SetAckFrameId
<1>3. ackFrameId' \in Ints
  BY <1>1, <1>2, ElementOfSeq
<1>4. inFlight' \in Seq(Ints)
  <2>1. \A i \in (k + 1)..Len(inFlight) : inFlight[i] \in Ints
    BY <1>1, ElementOfSeq
  <2> QED BY <1>1, <1>2, <2>1, SubSeqProperties
<1> QED BY <1>2, <1>3, <1>4 DEF SurfaceTypes

\* The steps that only take, give back or configure the surface.
LEMMA HoldTypes ==
    ASSUME SurfaceTypes,
           \/ \E t \in Threads : BeginUpdate(t)
           \/ EndUpdate
           \/ \E size \in Nat : SetCRectSize(size)
    PROVE  SurfaceTypes'
BY DEF BeginUpdate, EndUpdate, SetCRectSize, SurfaceTypes, clientVars

LEMMA TypesStep ==
    ASSUME SurfaceTypes, ImageTypes, [Next]_vars
    PROVE  SurfaceTypes' /\ ImageTypes'
<1>1. ASSUME NEW rects \in SUBSET Cells, Submit(rects)
      PROVE  SurfaceTypes' /\ ImageTypes'
  <2>1. /\ image + 1 \in 0..MaxImages /\ image' = image + 1
        /\ latest' = [c \in Cells |-> IF c \in rects THEN image + 1 ELSE latest[c]]
        /\ SubmitUpdate(rects, image + 1)
    BY <1>1, SurfaceAssumption DEF Submit, ImageTypes
  <2>2. SurfaceTypes'
    BY <2>1, SubmitTypes
  <2>3. ImageTypes'
    BY <2>1 DEF ImageTypes
  <2> QED BY <2>2, <2>3
<1>2. CASE Ack
  BY <1>2, AckTypes DEF Ack, historyVars, ImageTypes
<1>3. CASE Begin \/ End \/ Configure
  BY <1>3, HoldTypes, SurfaceAssumption
     DEF Begin, End, Configure, historyVars, ImageTypes
<1>4. CASE UNCHANGED vars
  BY <1>4 DEF SurfaceTypes, ImageTypes, vars, surfaceVars, memberVars, clientVars,
              historyVars
<1> QED BY <1>1, <1>2, <1>3, <1>4 DEF Next

\* Every member keeps its type however many frames there are: a counter that
\* wraps is an int still, and so is every frame number the client is given.
THEOREM TypesAreKept == Spec => []TypeOK
<1>1. SurfaceTypes /\ ImageTypes <=> TypeOK
  BY DEF TypeOK, SurfaceTypes, ImageTypes, Ints
<1>2. SurfaceTypes /\ ImageTypes /\ [Next]_vars => SurfaceTypes' /\ ImageTypes'
  BY TypesStep
<1> QED BY TypesInitial, <1>1, <1>2, PTL DEF Spec
----------------------------------------------------------------------------
(* While no frame number has wrapped. *)

\* Frame numbers stay below the largest int.
NoOverflow == MaxImages < IntMax

\* Types, as far as the proofs need them.
Types ==
    /\ image \in 0..MaxImages
    /\ frameId \in 0..image /\ ackFrameId \in Nat
    /\ pendingRects \subseteq Cells
    /\ screen \in [Cells -> 0..image] /\ latest \in [Cells -> 0..image]
    /\ inFlight \in Seq(Nat)

\* The outstanding frames are those painted since the one last acknowledged;
\* frame 0 is the workaround's, which is never acknowledged.
FlowInv ==
    /\ workaround <=> frameId = 0
    /\ ackFrameId + Len(inFlight) = (IF frameId = 0 THEN 0 ELSE frameId - 1)
    /\ \A i \in 1..Len(inFlight) : inFlight[i] = ackFrameId + i
    /\ Len(inFlight) <= MAX_FRAME_DELAY

\* Before the first frame the screen is untouched, after it wholly painted.
FirstInv ==
    /\ workaround => \A c \in Cells : screen[c] = 0
    /\ ~workaround => \A c \in Cells : screen[c] > 0

SurfaceInv == Types /\ FlowInv /\ FirstInv /\ NoDirtLost

\* While no frame number has wrapped, the arithmetic is that of the integers.
LEMMA SmallArithmetic ==
    ASSUME NoOverflow, Types, FlowInv
    PROVE  /\ ShouldDropFrame <=> frameId - ackFrameId > MAX_FRAME_DELAY
           /\ NextFrameId = frameId + 1
           /\ FrameNumber = frameId
<1>1. /\ frameId \in Nat /\ frameId < IntMax /\ IntMax \in Nat \ {0}
      /\ ackFrameId \in Nat /\ ackFrameId <= frameId
      /\ Len(inFlight) \in Nat
      /\ image \in Nat /\ MaxImages \in Nat /\ MaxImages < IntMax
      /\ frameId <= image /\ image <= MaxImages
  BY SurfaceAssumption DEF NoOverflow, Types, FlowInv
<1>2. Abs(Wrap(frameId - ackFrameId)) = frameId - ackFrameId
  <2>1. Wrap(frameId - ackFrameId) = frameId - ackFrameId
    BY <1>1 DEF Wrap, IntMin
  <2> QED BY <1>1, <2>1 DEF Abs
<1>3. NextFrameId = frameId + 1
  BY <1>1 DEF NextFrameId, Wrap, IntMin
<1>4. FrameNumber = frameId
  <2>1. frameId % IntMax = frameId
    BY <1>1
  <2> QED BY <1>1, <2>1 DEF FrameNumber
<1> QED BY <1>2, <1>3, <1>4 DEF ShouldDropFrame

LEMMA SurfaceInitial == Init => SurfaceInv
<1> SUFFICES ASSUME Init PROVE SurfaceInv
  OBVIOUS
<1>1. Types /\ NoDirtLost
  BY SurfaceAssumption DEF Init, SurfaceInit, Types, NoDirtLost
<1>2. FlowInv /\ FirstInv
  BY DEF Init, SurfaceInit, FlowInv, FirstInv, MAX_FRAME_DELAY
<1> QED BY <1>1, <1>2 DEF SurfaceInv

\* Whatever is painted is painted with the newest image, and what is neither
\* painted nor pending has not changed.
LEMMA PaintedKeepsUp ==
    ASSUME SurfaceInv, NEW rects \in SUBSET Cells, NEW cleaned \in SUBSET Cells,
           DirtyRects(rects) \subseteq cleaned,
           screen' = Painted(cleaned, image + 1),
           latest' = [c \in Cells |-> IF c \in rects THEN image + 1 ELSE latest[c]],
           image' = image + 1, image < MaxImages
    PROVE  /\ NoDirtLost'
           /\ screen' \in [Cells -> 0..image'] /\ latest' \in [Cells -> 0..image']
           /\ image' \in 0..MaxImages
<1>1. /\ image \in Nat /\ MaxImages \in Nat
      /\ screen \in [Cells -> 0..image] /\ latest \in [Cells -> 0..image]
  BY SurfaceAssumption DEF SurfaceInv, Types
<1>2. /\ screen' \in [Cells -> 0..image'] /\ latest' \in [Cells -> 0..image']
      /\ image' \in 0..MaxImages
  BY <1>1 DEF Painted
<1>3. ASSUME NEW c \in Cells PROVE ~(screen'[c] < latest'[c])
  <2>1. CASE c \in cleaned
    <3>1. screen'[c] = image + 1
      BY <2>1 DEF Painted
    <3>2. latest'[c] \in 0..(image + 1)
      BY <1>2
    <3> QED BY <1>1, <3>1, <3>2
  <2>2. CASE c \notin cleaned
    <3>1. screen'[c] = screen[c] /\ latest'[c] = latest[c] /\ c \notin pendingRects
      BY <2>2 DEF Painted, DirtyRects
    <3>2. ~(screen[c] < latest[c])
      BY <3>1 DEF SurfaceInv, NoDirtLost
    <3> QED BY <3>1, <3>2
  <2> QED BY <2>1, <2>2
<1> QED BY <1>2, <1>3 DEF NoDirtLost

LEMMA SubmitKeeps ==
    ASSUME NoOverflow, SurfaceInv, NEW rects \in SUBSET Cells, Submit(rects)
    PROVE  SurfaceInv'
<1>1. /\ image < MaxImages /\ image' = image + 1
      /\ latest' = [c \in Cells |-> IF c \in rects THEN image + 1 ELSE latest[c]]
  BY DEF Submit
<1>2. /\ image \in Nat /\ MaxImages \in Nat
      /\ frameId \in Nat /\ frameId <= image /\ ackFrameId \in Nat
      /\ pendingRects \subseteq Cells
      /\ screen \in [Cells -> 0..image] /\ latest \in [Cells -> 0..image]
      /\ inFlight \in Seq(Nat) /\ Len(inFlight) \in Nat
  BY SurfaceAssumption DEF SurfaceInv, Types
<1>3. /\ ShouldDropFrame <=> frameId - ackFrameId > 2
      /\ NextFrameId = frameId + 1
      /\ FrameNumber = frameId
  BY SmallArithmetic DEF SurfaceInv, MAX_FRAME_DELAY
<1>4. /\ screen \in [Cells -> 0..image'] /\ latest' \in [Cells -> 0..image']
      /\ image' \in 0..MaxImages
  BY <1>1, <1>2
<1>5. CASE DropFrame(rects)
  <2>1. /\ UNCHANGED <<frameId, ackFrameId, workaround, screen, inFlight>>
        /\ pendingRects' = pendingRects \cup rects
    BY <1>5 DEF DropFrame, KeptRects, clientVars
  <2>2. Types'
    BY <1>1, <1>2, <1>4, <2>1 DEF Types
  <2>3. FlowInv' /\ FirstInv'
    BY <2>1 DEF SurfaceInv, FlowInv, FirstInv
  <2>4. NoDirtLost'
    BY <1>1, <2>1 DEF SurfaceInv, NoDirtLost
  <2> QED BY <2>2, <2>3, <2>4 DEF SurfaceInv
<1>6. CASE DrawNothing(rects)
  <2>1. /\ UNCHANGED <<frameId, ackFrameId, pendingRects, workaround, screen,
                       inFlight>>
        /\ rects = {}
    BY <1>6 DEF DrawNothing, surfaceVars, memberVars, clientVars
  <2>2. Types'
    BY <1>1, <1>2, <1>4, <2>1 DEF Types
  <2>3. FlowInv' /\ FirstInv'
    BY <2>1 DEF SurfaceInv, FlowInv, FirstInv
  <2>4. NoDirtLost'
    BY <1>1, <2>1 DEF SurfaceInv, NoDirtLost
  <2> QED BY <2>2, <2>3, <2>4 DEF SurfaceInv
<1>7. CASE DrawWhole(rects, image + 1)
  <2>1. /\ UNCHANGED <<ackFrameId, inFlight>>
        /\ workaround /\ ~workaround' /\ frameId' = frameId + 1
        /\ screen' = Painted(Cells, image + 1) /\ pendingRects' = {}
    BY <1>3, <1>7 DEF DrawWhole, WholeScreen
  <2>2. /\ NoDirtLost'
        /\ screen' \in [Cells -> 0..image'] /\ latest' \in [Cells -> 0..image']
    <3>1. DirtyRects(rects) \subseteq Cells
      BY <1>2 DEF DirtyRects
    <3> QED BY <1>1, <2>1, <3>1, PaintedKeepsUp
  <2>3. Types'
    BY <1>1, <1>2, <1>4, <2>1, <2>2 DEF Types
  <2>4. FlowInv'
    <3>1. frameId = 0
      BY <2>1 DEF SurfaceInv, FlowInv
    <3> QED BY <2>1, <3>1 DEF SurfaceInv, FlowInv
  <2>5. FirstInv'
    BY <1>2, <2>1 DEF FirstInv, Painted
  <2> QED BY <2>2, <2>3, <2>4, <2>5 DEF SurfaceInv
<1>8. CASE DrawRects(rects, image + 1)
  <2>1. /\ ~workaround /\ ~workaround' /\ ackFrameId' = ackFrameId
        /\ frameId' = frameId + 1 /\ pendingRects' = {}
        /\ inFlight' = Append(inFlight, frameId)
        /\ frameId - ackFrameId <= 2
    BY <1>2, <1>3, <1>8 DEF DrawRects
  <2>2. PICK cleaned \in SUBSET Cells :
            /\ DirtyRects(rects) \subseteq cleaned
            /\ screen' = Painted(cleaned, image + 1)
    BY <1>8 DEF DrawRects
  <2>3. /\ NoDirtLost'
        /\ screen' \in [Cells -> 0..image'] /\ latest' \in [Cells -> 0..image']
    BY <1>1, <2>2, PaintedKeepsUp
  <2>4. /\ Len(inFlight') = Len(inFlight) + 1
        /\ \A i \in 1..Len(inFlight) : inFlight'[i] = inFlight[i]
        /\ inFlight'[Len(inFlight) + 1] = frameId
        /\ inFlight' \in Seq(Nat)
    BY <1>2, <2>1, AppendProperties
  <2>5. Types'
    BY <1>1, <1>2, <1>4, <2>1, <2>3, <2>4 DEF Types
  <2>6. frameId # 0 /\ ackFrameId + Len(inFlight) = frameId - 1
    BY <2>1 DEF SurfaceInv, FlowInv
  <2>7. FlowInv'
    <3>1. ASSUME NEW i \in 1..Len(inFlight') PROVE inFlight'[i] = ackFrameId' + i
      <4>1. CASE i \in 1..Len(inFlight)
        BY <2>1, <2>4, <4>1 DEF SurfaceInv, FlowInv
      <4>2. CASE i = Len(inFlight) + 1
        BY <1>2, <2>1, <2>4, <2>6, <4>2
      <4> QED BY <1>2, <2>4, <4>1, <4>2
    <3>2. /\ ackFrameId' + Len(inFlight') = frameId' - 1 /\ frameId' # 0
          /\ Len(inFlight') <= 2
      BY <1>2, <2>1, <2>4, <2>6
    <3> QED BY <2>1, <3>1, <3>2 DEF FlowInv, MAX_FRAME_DELAY
  <2>8. FirstInv'
    BY <1>2, <2>1, <2>2 DEF SurfaceInv, FirstInv, Painted
  <2> QED BY <2>3, <2>5, <2>7, <2>8 DEF SurfaceInv
<1> QED BY <1>5, <1>6, <1>7, <1>8 DEF Submit, SubmitUpdate

LEMMA AckKeeps ==
    ASSUME SurfaceInv, Ack
    PROVE  SurfaceInv'
<1>1. PICK k \in 1..Len(inFlight) : SetAckFrameId(k)
  BY DEF Ack
<1>2. /\ ackFrameId' = inFlight[k]
      /\ inFlight' = SubSeq(inFlight, k + 1, Len(inFlight))
      /\ UNCHANGED <<frameId, pendingRects, workaround, screen, latest, image>>
  BY <1>1 DEF SetAckFrameId, Ack, historyVars
<1>3. /\ inFlight \in Seq(Nat) /\ ackFrameId \in Nat /\ frameId \in Nat
      /\ Len(inFlight) \in Nat /\ k \in Nat
  BY SurfaceAssumption DEF SurfaceInv, Types
<1>4. ackFrameId' = ackFrameId + k
  BY <1>2 DEF SurfaceInv, FlowInv
<1>5. /\ inFlight' \in Seq(Nat)
      /\ Len(inFlight') = Len(inFlight) - k
      /\ \A i \in 1..(Len(inFlight) - k) : inFlight'[i] = inFlight[k + i]
  <2>1. \A i \in (k + 1)..Len(inFlight) : inFlight[i] \in Nat
    BY <1>3
  <2>2. /\ inFlight' \in Seq(Nat)
        /\ Len(inFlight') = IF k + 1 <= Len(inFlight)
                            THEN Len(inFlight) - (k + 1) + 1 ELSE 0
        /\ \A i \in 1..(Len(inFlight) - (k + 1) + 1) :
              inFlight'[i] = inFlight[(k + 1) + i - 1]
    BY <1>2, <1>3, <2>1, SubSeqProperties
  <2> QED BY <1>3, <2>2
<1>6. Types'
  BY <1>2, <1>3, <1>4, <1>5 DEF SurfaceInv, Types
<1>7. FlowInv'
  <2>1. frameId # 0
    BY <1>3 DEF SurfaceInv, FlowInv
  <2>2. ackFrameId + Len(inFlight) = frameId - 1
    BY <2>1 DEF SurfaceInv, FlowInv
  <2>3. ASSUME NEW i \in 1..Len(inFlight') PROVE inFlight'[i] = ackFrameId' + i
    <3>1. k + i \in 1..Len(inFlight) /\ i \in 1..(Len(inFlight) - k)
      BY <1>3, <1>5
    <3>2. inFlight[k + i] = ackFrameId + (k + i)
      BY <3>1 DEF SurfaceInv, FlowInv
    <3> QED BY <1>3, <1>4, <1>5, <3>1, <3>2
  <2>4. /\ ackFrameId' + Len(inFlight') = frameId' - 1
        /\ Len(inFlight') <= Len(inFlight)
    <3>1. frameId' = frameId
      BY <1>2
    <3>2. Len(inFlight') = Len(inFlight) - k
      BY <1>5
    <3> QED BY <1>3, <1>4, <2>2, <3>1, <3>2
  <2>5. Len(inFlight') <= 2
    BY <1>3, <1>5, <2>4 DEF SurfaceInv, FlowInv, MAX_FRAME_DELAY
  <2> QED BY <1>2, <2>1, <2>3, <2>4, <2>5
          DEF SurfaceInv, FlowInv, MAX_FRAME_DELAY
<1>8. FirstInv' /\ NoDirtLost'
  BY <1>2 DEF SurfaceInv, FirstInv, NoDirtLost
<1> QED BY <1>6, <1>7, <1>8 DEF SurfaceInv

LEMMA SurfaceStep ==
    ASSUME NoOverflow, SurfaceInv, [Next]_vars
    PROVE  SurfaceInv'
<1>1. CASE \E rects \in SUBSET Cells : Submit(rects)
  BY <1>1, SubmitKeeps
<1>2. CASE Ack
  BY <1>2, AckKeeps
<1>3. CASE Begin \/ End \/ Configure \/ UNCHANGED vars
  <2>1. UNCHANGED <<frameId, ackFrameId, pendingRects, workaround, screen,
                    inFlight, latest, image>>
    BY <1>3 DEF Begin, BeginUpdate, End, EndUpdate, Configure, SetCRectSize,
                vars, surfaceVars, memberVars, clientVars, historyVars
  <2> QED BY <2>1 DEF SurfaceInv, Types, FlowInv, FirstInv, NoDirtLost
<1> QED BY <1>1, <1>2, <1>3 DEF Next

LEMMA SurfaceInvariant == ASSUME NoOverflow PROVE Spec => []SurfaceInv
<1>1. SurfaceInv /\ [Next]_vars => SurfaceInv'
  BY SurfaceStep
<1> QED BY SurfaceInitial, <1>1, PTL DEF Spec

\* A dropped frame's rectangles are painted with a later image or still
\* pending, whatever cleanupRects() adds and however late the client is.
THEOREM DirtIsKept == ASSUME NoOverflow PROVE Spec => []NoDirtLost
<1>1. SurfaceInv => NoDirtLost
  BY DEF SurfaceInv
<1> QED BY SurfaceInvariant, <1>1, PTL

\* At most MAX_FRAME_DELAY painted frames are not acknowledged.
THEOREM WindowIsBounded == ASSUME NoOverflow PROVE Spec => []WindowBound
<1>1. SurfaceInv => WindowBound
  BY DEF SurfaceInv, FlowInv, WindowBound
<1> QED BY SurfaceInvariant, <1>1, PTL

\* Below INT32_MAX frames, a client that is not two frames behind gets every
\* frame.
THEOREM NoNeedlessDrop == ASSUME NoOverflow PROVE Spec => []DropsOnlyWhenBehind
<1>1. ASSUME SurfaceInv PROVE DropsOnlyWhenBehind
  <2>1. ShouldDropFrame <=> frameId - ackFrameId > 2
    BY <1>1, SmallArithmetic DEF SurfaceInv, MAX_FRAME_DELAY
  <2>2. /\ frameId \in Nat /\ ackFrameId \in Nat /\ Len(inFlight) \in Nat
        /\ Len(inFlight) <= 2
        /\ frameId # 0 => ackFrameId + Len(inFlight) = frameId - 1
    BY <1>1, SurfaceAssumption
       DEF SurfaceInv, Types, FlowInv, MAX_FRAME_DELAY
  <2>3. ASSUME frameId - ackFrameId > 2 PROVE Len(inFlight) = 2
    <3>1. frameId # 0
      BY <2>2, <2>3
    <3>2. ackFrameId + Len(inFlight) = frameId - 1
      BY <2>2, <3>1
    <3>3. \A f, a, n \in Nat : f - a > 2 /\ a + n = f - 1 /\ n <= 2 => n = 2
      OBVIOUS
    <3> QED BY <2>2, <2>3, <3>2, <3>3
  <2> QED BY <2>1, <2>3 DEF DropsOnlyWhenBehind, MAX_FRAME_DELAY
<1> QED BY SurfaceInvariant, <1>1, PTL

\* Nothing reaches the client before the whole screen has been painted once.
THEOREM WholeScreenComesFirst ==
    ASSUME NoOverflow PROVE Spec => []WholeScreenFirst
<1>1. SurfaceInv => WholeScreenFirst
  BY DEF SurfaceInv, FirstInv, WholeScreenFirst
<1> QED BY SurfaceInvariant, <1>1, PTL
=============================================================================
