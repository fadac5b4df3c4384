--------------------------- MODULE SurfaceRects ----------------------------
(***************************************************************************)
(* The rectangle algorithms of src/ULSurface.cpp: cleanupRects(), which    *)
(* merges the dirty rectangles of a frame, and createCopyRects(), which    *)
(* lays the encoder's grid over what is left.                              *)
(*                                                                         *)
(* cleanupRects() is a loop that treats one rectangle per turn and looks   *)
(* at nothing but the result so far; one turn is one step here, so `result`*)
(* is at any time what cleanupRects() returns for the rectangles in        *)
(* `rects`.  The reference the algorithms are held against is the set of   *)
(* pixels a rectangle covers.                                              *)
(***************************************************************************)
EXTENDS Integers, Sequences

CONSTANTS ShortMax,       \* largest int16_t
          Rects,          \* the dirty rectangles the projector may report
          RectSize,       \* _crectSize: the grid of the encoder
          Width, Height,  \* of the surface
          MaxRects        \* bound: rectangles in a frame

Rect(x, y, w, h) == [x |-> x, y |-> y, width |-> w, height |-> h]

\* Rectangles with corners an int16_t can hold, right of and below 0, 0.
GoodRects == {r \in [x : Nat, y : Nat, width : Nat, height : Nat] :
                 /\ r.x + r.width <= ShortMax
                 /\ r.y + r.height <= ShortMax}

ASSUME RectsAssumption ==
    /\ ShortMax \in Nat
    /\ Rects \subseteq GoodRects
    /\ RectSize \in Nat /\ Width \in Nat /\ Height \in Nat /\ MaxRects \in Nat

VARIABLES rects,   \* the rectangles treated so far, in order
          result   \* what has become of them

vars == <<rects, result>>
----------------------------------------------------------------------------
\* What is left of a sum in an int16_t, for sums at most one range away.
Short(n) == IF n > ShortMax THEN n - 2 * (ShortMax + 1) ELSE n

Right(r)  == Short(r.x + r.width)
Bottom(r) == Short(r.y + r.height)

MinOf(a, b) == IF a <= b THEN a ELSE b
MaxOf(a, b) == IF a <= b THEN b ELSE a

Between(lo, n, hi) == lo <= n /\ n <= hi

\* isRectOverlaps(): some corner of a lies in b or on its border.
IsRectOverlaps(a, b) ==
    \E x \in {a.x, Right(a)}, y \in {a.y, Bottom(a)} :
        Between(b.x, x, Right(b)) /\ Between(b.y, y, Bottom(b))

\* Variant: keeps the size of a and only moves its corner.
MergeCorner(a, b) == Rect(MinOf(a.x, b.x), MinOf(a.y, b.y), a.width, a.height)

\* Variant: adds the sizes up.
MergeSizes(a, b) == Rect(MinOf(a.x, b.x), MinOf(a.y, b.y),
                         Short(a.width + b.width), Short(a.height + b.height))

\* mergeRect(): the smallest rectangle around both.
MergeRect(a, b) ==
    LET x == MinOf(a.x, b.x)
        y == MinOf(a.y, b.y)
    IN  Rect(x, y, Short(MaxOf(Right(a), Right(b)) - x),
                   Short(MaxOf(Bottom(a), Bottom(b)) - y))

\* The rectangles of the result that the next one overlaps.
Overlapping(res, r) == {i \in 1..Len(res) : IsRectOverlaps(res[i], r)}

First(indices) == CHOOSE n \in indices : \A m \in indices : n <= m

\* One turn of the loop: the rectangle is merged into the first one of the
\* result that overlaps it, or appended.
Cleaned(res, r) ==
    IF Overlapping(res, r) = {}
    THEN Append(res, r)
    ELSE [res EXCEPT ![First(Overlapping(res, r))] = MergeRect(@, r)]

Init == rects = <<>> /\ result = <<>>

Clean(r) == /\ Len(rects) < MaxRects
            /\ rects' = Append(rects, r)
            /\ result' = Cleaned(result, r)

Next == \E r \in Rects : Clean(r)

Spec == Init /\ [][Next]_vars
----------------------------------------------------------------------------
(* createCopyRects() *)

\* floor and ceil of a quotient.
FloorDiv(a, b) == a \div b
CeilDiv(a, b)  == (a + b - 1) \div b

MapWidth  == CeilDiv(Width, RectSize)
MapHeight == CeilDiv(Height, RectSize)

\* Variant: the last column or row of a rectangle that ends inside a tile is
\* forgotten.
LastTileRoundedDown(start, length, tiles) ==
    MinOf(FloorDiv(start + length, RectSize), tiles) - 1

\* The last column (row) of the map that a rectangle reaches.
LastTile(start, length, tiles) ==
    MinOf(CeilDiv(start + length, RectSize), tiles) - 1

\* The cells of rectMap that a dirty rectangle sets to 1.
Marked(d) ==
    IF Width <= d.x \/ Height <= d.y THEN {}
    ELSE (FloorDiv(d.x, RectSize)..LastTile(d.x, d.width, MapWidth))
             \X (FloorDiv(d.y, RectSize)..LastTile(d.y, d.height, MapHeight))

\* The copy rectangles, as a set: the code lists them row by row.  Without a
\* grid (RECT_SIZE_BYPASS_CREATE) they are the dirty rectangles.
CreateCopyRects(drects) ==
    IF RectSize = 0
    THEN {drects[i] : i \in 1..Len(drects)}
    ELSE {Rect(t[1] * RectSize, t[2] * RectSize, RectSize, RectSize) :
              t \in UNION {Marked(drects[i]) : i \in 1..Len(drects)}}
----------------------------------------------------------------------------
(* Properties.  The reference: pixels. *)

Inside(px, py, r) == /\ r.x <= px /\ px < r.x + r.width
                     /\ r.y <= py /\ py < r.y + r.height

CoveredBy(px, py, s) == \E i \in 1..Len(s) : Inside(px, py, s[i])

\* Every rectangle still has corners an int16_t can hold.
TypeOK == rects \in Seq(Rects) /\ result \in Seq(GoodRects)

\* No dirty pixel is lost: cleanupRects() covers whatever it was given.
CleanupCovers ==
    \A px, py \in 0..ShortMax :
        CoveredBy(px, py, rects) => CoveredBy(px, py, result)

\* A cleaned rectangle reaches no further, on any side, than some dirty one:
\* merging does not push a rectangle past the edge of the bitmap.
CleanupStaysInside ==
    \A i \in 1..Len(result) :
        \E l, t, r, b \in {rects[j] : j \in 1..Len(rects)} :
            /\ result[i].x = l.x /\ result[i].y = t.y
            /\ result[i].x + result[i].width  = r.x + r.width
            /\ result[i].y + result[i].height = b.y + b.height

\* The grid covers every dirty pixel of the surface, and each of its tiles
\* has one: nothing the encoder should send is missing, nothing is sent for
\* nothing.  (Without a grid there is nothing to lay.)
CopyRectsAreTheDirtyTiles ==
    RectSize > 0 =>
        CreateCopyRects(result) =
            {Rect(t[1] * RectSize, t[2] * RectSize, RectSize, RectSize) :
                t \in {u \in (0..MapWidth - 1) \X (0..MapHeight - 1) :
                    \E px \in (u[1] * RectSize)..((u[1] + 1) * RectSize - 1),
                       py \in (u[2] * RectSize)..((u[2] + 1) * RectSize - 1) :
                          /\ px < Width /\ py < Height
                          /\ CoveredBy(px, py, result)}}
============================================================================
