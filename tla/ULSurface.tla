----------------------------- MODULE ULSurface -----------------------------
(***************************************************************************)
(* src/ULSurface.{hpp,cpp}: the surface the client sees.  One thread at a  *)
(* time brackets its drawing with beginUpdate() and endUpdate();           *)
(* submitUpdate() paints the dirty parts of the latest image, or keeps     *)
(* them for the next one when the client is more than MAX_FRAME_DELAY      *)
(* frames behind; the client's acknowledgements arrive on another thread.  *)
(*                                                                         *)
(* Abstracted: the screen is a set of cells and a list of rectangles the   *)
(* set of cells it covers (the rectangle algorithms have a module of their *)
(* own, SurfaceRects: all used here is that cleanupRects() may widen what  *)
(* it is given, and never narrows it); an image is its number.  xrdp and   *)
(* the client are the environment: they show what is painted, and          *)
(* acknowledge frames in the order in which they were painted.             *)
(*                                                                         *)
(* An operator whose comment begins with "Variant:" is not part of the     *)
(* specification: it is the plausible mistake that a property is there to  *)
(* catch (PROJECT.json, "mutants").                                        *)
(***************************************************************************)
EXTENDS Integers, Sequences

CONSTANTS Cells,      \* the parts of the screen
          IntMax,     \* INT32_MAX, the largest int
          CRectSizes, \* sizes the owner may give to setCRectSize()
          MaxImages   \* bound: images submitted

ASSUME SurfaceAssumption ==
    /\ Cells # {}
    /\ IntMax \in Nat \ {0}
    /\ CRectSizes \subseteq Nat
    /\ MaxImages \in Nat

VARIABLES
    \* the members of ULSurface
    frameId,       \* _frameId
    ackFrameId,    \* _ackFrameId
    pendingRects,  \* _pendingRects, as the cells it covers
    updateThread,  \* _updateThreadId, "none" for std::thread::id()
    workaround,    \* __HACK__mstsc_workaround
    crectSize,     \* _crectSize
    \* xrdp and the client
    screen,        \* for each cell, the image last painted there
    inFlight,      \* frame numbers painted and not acknowledged yet, in order
    grids,         \* the crectSize values server_paint_rects() was called with
    \* history
    latest,        \* for each cell, the last image submitted that changed it
    image          \* the last image submitted

memberVars == <<frameId, ackFrameId, pendingRects, updateThread, workaround,
                crectSize>>
clientVars == <<screen, inFlight, grids>>
surfaceVars == <<memberVars, clientVars>>
historyVars == <<latest, image>>
vars == <<surfaceVars, historyVars>>

\* Variant: a sentinel that is no size.
BypassMinusOne == -1

RECT_SIZE_BYPASS_CREATE == 0
MAX_FRAME_DELAY == 2

Threads == {"updater", "xrdp"}
----------------------------------------------------------------------------
(* int arithmetic: 32 bits wide in the program, IntMax here. *)

IntMin == -IntMax - 1

\* What an operation on ints leaves in an int, for results at most one range
\* away (overflow is undefined in C++; this is what the machine does).
Wrap(n) == CASE n > IntMax -> n - 2 * (IntMax + 1)
             [] n < IntMin -> n + 2 * (IntMax + 1)
             [] OTHER      -> n

Abs(n) == IF n < 0 THEN Wrap(-n) ELSE n

\* `_frameId % INT32_MAX`: the remainder has the sign of the dividend.
FrameNumber == IF frameId >= 0 THEN frameId % IntMax
                               ELSE -((-frameId) % IntMax)
----------------------------------------------------------------------------
SurfaceInit ==
    /\ frameId = 0 /\ ackFrameId = 0 /\ pendingRects = {}
    /\ updateThread = "none" /\ workaround = TRUE
    /\ crectSize = RECT_SIZE_BYPASS_CREATE
    /\ screen = [c \in Cells |-> 0] /\ inFlight = <<>> /\ grids = {}

\* beginUpdate(): an exception if a thread is drawing already.
BeginUpdate(t) ==
    /\ updateThread = "none"
    /\ updateThread' = t
    /\ UNCHANGED <<frameId, ackFrameId, pendingRects, workaround, crectSize,
                   clientVars>>

EndUpdate ==
    /\ updateThread # "none"
    /\ updateThread' = "none"
    /\ UNCHANGED <<frameId, ackFrameId, pendingRects, workaround, crectSize,
                   clientVars>>

SetCRectSize(size) ==
    /\ crectSize' = size
    /\ UNCHANGED <<frameId, ackFrameId, pendingRects, updateThread, workaround,
                   clientVars>>

\* Variant: one frame too many.
ShouldDropLate == Abs(Wrap(frameId - ackFrameId)) > MAX_FRAME_DELAY + 1
\* Variant: the acknowledged frame counts as outstanding.
ShouldDropEarly == Abs(Wrap(frameId - ackFrameId)) >= MAX_FRAME_DELAY

ShouldDropFrame == Abs(Wrap(frameId - ackFrameId)) > MAX_FRAME_DELAY

\* Cells painted with image img, all others as they were.
Painted(cells, img) == [c \in Cells |-> IF c \in cells THEN img ELSE screen[c]]

NextFrameId == Wrap(frameId + 1)

\* Variant: what was dropped is forgotten.
Forgotten(rects) == {}

\* _pendingRects after a dropped frame, rects being all that is dirty.
KeptRects(rects) == rects

\* submitUpdate() returns false.
DropFrame(rects) ==
    /\ ShouldDropFrame
    /\ pendingRects' = KeptRects(pendingRects \cup rects)
    /\ UNCHANGED <<frameId, ackFrameId, updateThread, workaround, crectSize,
                   clientVars>>

\* drawBitmap() without a rectangle to draw; submitUpdate() returns true.
DrawNothing(rects) ==
    /\ ~ShouldDropFrame
    /\ pendingRects \cup rects = {}
    /\ UNCHANGED surfaceVars

\* Variant: the first frame paints only what is dirty.
FirstRects(rects) == rects

\* What the first frame paints: the screen from 0, 0 to _width, _height.
WholeScreen(rects) == Cells

\* The mstsc.exe workaround: the first bitmap is painted on the whole screen
\* with server_paint_rect(), which nobody acknowledges.
DrawWhole(rects, img) ==
    /\ ~ShouldDropFrame
    /\ pendingRects \cup rects # {}
    /\ workaround
    /\ workaround' = FALSE
    /\ screen' = Painted(WholeScreen(pendingRects \cup rects), img)
    /\ frameId' = NextFrameId
    /\ pendingRects' = {}
    /\ UNCHANGED <<ackFrameId, updateThread, crectSize, inFlight, grids>>

\* Variant: paints this transaction's rectangles only.
OnlyNewRects(rects) == rects

\* The rectangles handed to drawBitmap(): the pending ones and the new ones.
DirtyRects(rects) == pendingRects \cup rects

\* server_paint_rects() with the cleaned rectangles, which cover the dirty
\* ones and perhaps more.
DrawRects(rects, img) ==
    /\ ~ShouldDropFrame
    /\ pendingRects \cup rects # {}
    /\ ~workaround
    /\ \E cleaned \in SUBSET Cells :
          /\ DirtyRects(rects) \subseteq cleaned
          /\ screen' = Painted(cleaned, img)
    /\ inFlight' = Append(inFlight, FrameNumber)
    /\ frameId' = NextFrameId
    /\ grids' = grids \cup {crectSize}
    /\ pendingRects' = {}
    /\ UNCHANGED <<ackFrameId, updateThread, workaround, crectSize>>

\* submitUpdate() for a transaction with the dirty cells rects and image img.
SubmitUpdate(rects, img) ==
    \/ DropFrame(rects)
    \/ DrawNothing(rects)
    \/ DrawWhole(rects, img)
    \/ DrawRects(rects, img)

\* The client acknowledges the k-th outstanding frame, and with it those
\* before: xrdp calls mod_frame_ack(), which calls setAckFrameId().
SetAckFrameId(k) ==
    /\ ackFrameId' = inFlight[k]
    /\ inFlight' = SubSeq(inFlight, k + 1, Len(inFlight))
    /\ UNCHANGED <<frameId, pendingRects, updateThread, workaround, crectSize,
                   screen, grids>>
----------------------------------------------------------------------------
(* The surface as its owner uses it: threads bracket what they draw with   *)
(* beginUpdate() and endUpdate(), acknowledgements come whenever they come. *)

Init ==
    /\ SurfaceInit
    /\ latest = [c \in Cells |-> 0] /\ image = 0

Begin == /\ \E t \in Threads : BeginUpdate(t)
         /\ UNCHANGED historyVars

\* The thread that holds the surface submits the next image.
Submit(rects) ==
    /\ updateThread # "none" /\ image < MaxImages
    /\ SubmitUpdate(rects, image + 1)
    /\ image' = image + 1
    /\ latest' = [c \in Cells |-> IF c \in rects THEN image + 1 ELSE latest[c]]

End == EndUpdate /\ UNCHANGED historyVars

Configure == /\ \E size \in CRectSizes : SetCRectSize(size)
             /\ UNCHANGED historyVars

Ack == /\ \E k \in 1..Len(inFlight) : SetAckFrameId(k)
       /\ UNCHANGED historyVars

Next == \/ Begin
        \/ \E rects \in SUBSET Cells : Submit(rects)
        \/ End
        \/ Configure
        \/ Ack

Spec == Init /\ [][Next]_vars
----------------------------------------------------------------------------
(* Properties. *)

\* Every variable has its type.
TypeOK ==
    /\ frameId \in IntMin..IntMax /\ ackFrameId \in IntMin..IntMax
    /\ pendingRects \subseteq Cells
    /\ updateThread \in Threads \cup {"none"}
    /\ workaround \in BOOLEAN
    /\ crectSize \in Nat /\ grids \subseteq Nat
    /\ screen \in [Cells -> 0..MaxImages]
    /\ inFlight \in Seq(IntMin..IntMax)
    /\ latest \in [Cells -> 0..MaxImages]
    /\ image \in 0..MaxImages

\* What changed in an image the client has not been shown is still pending:
\* dropping a frame delays its rectangles and never loses them.
NoDirtLost == \A c \in Cells : screen[c] < latest[c] => c \in pendingRects

\* The client is never more than two frames behind.
WindowBound == Len(inFlight) <= MAX_FRAME_DELAY

\* A frame is dropped only when the client is two frames behind: "submitUpdate()
\* drops frames when the client is not ready to receive updates" (ULSurface.hpp).
DropsOnlyWhenBehind == ShouldDropFrame => Len(inFlight) = MAX_FRAME_DELAY

\* "we should draw entire screen at least once": whichever cells the first
\* transactions touch, nothing is painted before the whole screen has been.
WholeScreenFirst ==
    \/ \A c \in Cells : screen[c] = 0
    \/ \A c \in Cells : screen[c] > 0
============================================================================
