------------------------- MODULE SurfaceRectsProofs ------------------------
(***************************************************************************)
(* cleanupRects() covers what it is given and makes up no edge that it was *)
(* not given, for lists of any length: the state machine of SurfaceRects   *)
(* treats one rectangle per step, so that the step, and not the loop, is   *)
(* what has to be shown.  createCopyRects() makes the tiles of the grid    *)
(* that hold a dirty pixel, for every size of the surface and of the       *)
(* tiles.                                                                  *)
(***************************************************************************)
EXTENDS SurfaceRects, SequenceTheorems, WellFoundedInduction, TLAPS

\* A non-empty set of naturals has a least element.
LEMMA SmallestNat ==
    ASSUME NEW S, S \subseteq Nat, S # {}
    PROVE  \E n \in S : \A m \in S : n <= m
<1> DEFINE Less == {ss \in Nat \X Nat : ss[1] < ss[2]}
<1>1. IsWellFoundedOn(Less, Nat)
  BY NatLessThanWellFounded DEF OpToRel
<1> HIDE DEF Less
<1>2. PICK n \in S : \A m \in S : <<m, n>> \notin Less
  BY <1>1, WFMin
<1>3. \A m \in S : <<m, n>> \notin Less => n <= m
  BY <1>2 DEF Less
<1> QED BY <1>2, <1>3

\* No sum overflows: the merged rectangle is a good one, and each of its four
\* edges is an edge of one of the two.
LEMMA MergeIsExact ==
    ASSUME NEW a \in GoodRects, NEW b \in GoodRects
    PROVE  /\ MergeRect(a, b) \in GoodRects
           /\ MergeRect(a, b).x = MinOf(a.x, b.x)
           /\ MergeRect(a, b).y = MinOf(a.y, b.y)
           /\ MergeRect(a, b).x + MergeRect(a, b).width
                  = MaxOf(a.x + a.width, b.x + b.width)
           /\ MergeRect(a, b).y + MergeRect(a, b).height
                  = MaxOf(a.y + a.height, b.y + b.height)
<1> DEFINE x == MinOf(a.x, b.x)
           y == MinOf(a.y, b.y)
           right == MaxOf(a.x + a.width, b.x + b.width)
           bottom == MaxOf(a.y + a.height, b.y + b.height)
<1>1. /\ a.x \in Nat /\ a.y \in Nat /\ a.width \in Nat /\ a.height \in Nat
      /\ a.x + a.width <= ShortMax /\ a.y + a.height <= ShortMax
      /\ b.x \in Nat /\ b.y \in Nat /\ b.width \in Nat /\ b.height \in Nat
      /\ b.x + b.width <= ShortMax /\ b.y + b.height <= ShortMax
      /\ ShortMax \in Nat
  BY RectsAssumption DEF GoodRects
<1>2. /\ Right(a) = a.x + a.width /\ Right(b) = b.x + b.width
      /\ Bottom(a) = a.y + a.height /\ Bottom(b) = b.y + b.height
  BY <1>1 DEF Right, Bottom, Short
<1>3. /\ x \in Nat /\ x <= a.x /\ x <= b.x
      /\ y \in Nat /\ y <= a.y /\ y <= b.y
  BY <1>1 DEF MinOf
<1>4. /\ right \in Nat /\ a.x + a.width <= right /\ right <= ShortMax
      /\ bottom \in Nat /\ a.y + a.height <= bottom /\ bottom <= ShortMax
  BY <1>1 DEF MaxOf
<1>5. MergeRect(a, b) = Rect(x, y, Short(right - x), Short(bottom - y))
  BY <1>2 DEF MergeRect
<1> HIDE DEF x, y, right, bottom
<1>6. Short(right - x) = right - x /\ Short(bottom - y) = bottom - y
  BY <1>1, <1>3, <1>4 DEF Short
<1>7. MergeRect(a, b) = Rect(x, y, right - x, bottom - y)
  BY <1>5, <1>6
<1>8. MergeRect(a, b) \in GoodRects
  BY <1>1, <1>3, <1>4, <1>7 DEF GoodRects, Rect
<1>9. /\ MergeRect(a, b).x = x /\ MergeRect(a, b).y = y
      /\ MergeRect(a, b).x + MergeRect(a, b).width = right
      /\ MergeRect(a, b).y + MergeRect(a, b).height = bottom
  BY <1>3, <1>4, <1>7 DEF Rect
<1> QED BY <1>8, <1>9 DEF x, y, right, bottom

\* It contains both, and has an inside if one of them has.
LEMMA MergeCovers ==
    ASSUME NEW a \in GoodRects, NEW b \in GoodRects
    PROVE  /\ MergeRect(a, b) \in GoodRects
           /\ \A px, py \in Nat : Inside(px, py, a) \/ Inside(px, py, b)
                                     => Inside(px, py, MergeRect(a, b))
           /\ a.width > 0 /\ a.height > 0
                  => MergeRect(a, b).width > 0 /\ MergeRect(a, b).height > 0
<1> DEFINE m == MergeRect(a, b)
<1>1. /\ a.x \in Nat /\ a.y \in Nat /\ a.width \in Nat /\ a.height \in Nat
      /\ b.x \in Nat /\ b.y \in Nat /\ b.width \in Nat /\ b.height \in Nat
  BY DEF GoodRects
<1>2. /\ m \in GoodRects
      /\ m.x = MinOf(a.x, b.x) /\ m.y = MinOf(a.y, b.y)
      /\ m.x + m.width = MaxOf(a.x + a.width, b.x + b.width)
      /\ m.y + m.height = MaxOf(a.y + a.height, b.y + b.height)
  BY MergeIsExact
<1> HIDE DEF m
<1>3. /\ m.x <= a.x /\ m.x <= b.x /\ m.y <= a.y /\ m.y <= b.y
      /\ a.x + a.width <= m.x + m.width /\ b.x + b.width <= m.x + m.width
      /\ a.y + a.height <= m.y + m.height /\ b.y + b.height <= m.y + m.height
  BY <1>1, <1>2 DEF MinOf, MaxOf
<1>4. m.x \in Nat /\ m.y \in Nat /\ m.width \in Nat /\ m.height \in Nat
  BY <1>2 DEF GoodRects
<1>5. ASSUME NEW px \in Nat, NEW py \in Nat,
             Inside(px, py, a) \/ Inside(px, py, b)
      PROVE  Inside(px, py, m)
  BY <1>1, <1>3, <1>4, <1>5 DEF Inside
<1>6. a.width > 0 /\ a.height > 0 => m.width > 0 /\ m.height > 0
  BY <1>1, <1>3, <1>4
<1> QED BY <1>2, <1>5, <1>6 DEF m

\* What one turn of the loop does: it appends the rectangle, or merges it into
\* one that is there already.
LEMMA CleanedIs ==
    ASSUME NEW res \in Seq(GoodRects), NEW r \in GoodRects
    PROVE  \/ Cleaned(res, r) = Append(res, r)
           \/ \E i \in 1..Len(res) :
                 Cleaned(res, r) = [res EXCEPT ![i] = MergeRect(res[i], r)]
<1>1. CASE Overlapping(res, r) = {}
  BY <1>1 DEF Cleaned
<1>2. CASE Overlapping(res, r) # {}
  <2>1. PICK i \in 1..Len(res) : i = First(Overlapping(res, r))
    <3>1. Overlapping(res, r) \subseteq Nat
      BY DEF Overlapping
    <3>2. \E n \in Overlapping(res, r) : \A m \in Overlapping(res, r) : n <= m
      BY <1>2, <3>1, SmallestNat
    <3>3. First(Overlapping(res, r)) \in Overlapping(res, r)
      BY <3>2 DEF First
    <3> QED BY <3>3 DEF Overlapping
  <2> QED BY <1>2, <2>1 DEF Cleaned
<1> QED BY <1>1, <1>2

\* Element by element.
LEMMA CleanedElements ==
    ASSUME NEW res \in Seq(GoodRects), NEW r \in GoodRects
    PROVE  /\ Cleaned(res, r) \in Seq(GoodRects)
           /\ Len(res) \in Nat /\ Len(res) <= Len(Cleaned(res, r))
           /\ \A j \in 1..Len(Cleaned(res, r)) :
                 \/ j \in 1..Len(res) /\ Cleaned(res, r)[j] = res[j]
                 \/ /\ j \in 1..Len(res)
                    /\ Cleaned(res, r)[j] = MergeRect(res[j], r)
                 \/ Cleaned(res, r)[j] = r
<1>0. Len(res) \in Nat
  OBVIOUS
<1>1. CASE Cleaned(res, r) = Append(res, r)
  <2>1. /\ Append(res, r) \in Seq(GoodRects)
        /\ Len(Append(res, r)) = Len(res) + 1
        /\ \A i \in 1..Len(res) : Append(res, r)[i] = res[i]
        /\ Append(res, r)[Len(res) + 1] = r
    BY AppendProperties
  <2> QED BY <1>0, <1>1, <2>1
<1>2. CASE \E i \in 1..Len(res) :
              Cleaned(res, r) = [res EXCEPT ![i] = MergeRect(res[i], r)]
  <2>1. PICK i \in 1..Len(res) :
            Cleaned(res, r) = [res EXCEPT ![i] = MergeRect(res[i], r)]
    BY <1>2
  <2>2. res[i] \in GoodRects
    BY <2>1
  <2>3. MergeRect(res[i], r) \in GoodRects
    BY <2>2, MergeCovers
  <2>4. /\ Cleaned(res, r) \in Seq(GoodRects)
        /\ Len(Cleaned(res, r)) = Len(res)
        /\ Cleaned(res, r)[i] = MergeRect(res[i], r)
        /\ \A j \in 1..Len(res) : j # i => Cleaned(res, r)[j] = res[j]
    BY <2>1, <2>2, <2>3
  <2> QED BY <1>0, <2>4
<1> QED BY <1>1, <1>2, CleanedIs

\* One turn of the loop keeps the rectangles good and loses no pixel.
LEMMA CleanedCovers ==
    ASSUME NEW res \in Seq(GoodRects), NEW r \in GoodRects
    PROVE  /\ Cleaned(res, r) \in Seq(GoodRects)
           /\ \A px, py \in Nat : CoveredBy(px, py, res) \/ Inside(px, py, r)
                                     => CoveredBy(px, py, Cleaned(res, r))
<1> DEFINE c == Cleaned(res, r)
<1>1. \A j \in 1..Len(res) : res[j] \in GoodRects
  OBVIOUS
<1>2. /\ c \in Seq(GoodRects) /\ Len(res) \in Nat /\ Len(c) \in Nat
      /\ Len(res) <= Len(c)
  BY CleanedElements
<1>3. CASE c = Append(res, r)
  <2>1. /\ Len(c) = Len(res) + 1 /\ c[Len(res) + 1] = r
        /\ \A j \in 1..Len(res) : c[j] = res[j]
    BY <1>3, AppendProperties
  <2> HIDE DEF c
  <2>2. \A px, py \in Nat : CoveredBy(px, py, res) \/ Inside(px, py, r)
                               => CoveredBy(px, py, c)
    BY <1>2, <2>1 DEF CoveredBy
  <2> QED BY <1>2, <2>2 DEF c
<1>4. CASE \E i \in 1..Len(res) : c = [res EXCEPT ![i] = MergeRect(res[i], r)]
  <2>1. PICK i \in 1..Len(res) : c = [res EXCEPT ![i] = MergeRect(res[i], r)]
    BY <1>4
  <2>2. /\ \A px, py \in Nat : Inside(px, py, res[i]) \/ Inside(px, py, r)
                                  => Inside(px, py, MergeRect(res[i], r))
        /\ Len(c) = Len(res) /\ c[i] = MergeRect(res[i], r)
        /\ \A j \in 1..Len(res) : j # i => c[j] = res[j]
    BY <1>1, <2>1, MergeCovers
  <2> HIDE DEF c
  <2>3. ASSUME NEW px \in Nat, NEW py \in Nat,
               CoveredBy(px, py, res) \/ Inside(px, py, r)
        PROVE  CoveredBy(px, py, c)
    BY <2>1, <2>2, <2>3 DEF CoveredBy
  <2> QED BY <1>2, <2>3 DEF c
<1> QED BY <1>3, <1>4, CleanedIs

CoverInv ==
    /\ TypeOK
    /\ \A px, py \in Nat : CoveredBy(px, py, rects) => CoveredBy(px, py, result)

LEMMA CoverInitial == Init => CoverInv
BY DEF Init, CoverInv, TypeOK, CoveredBy

LEMMA CoverStep == CoverInv /\ [Next]_vars => CoverInv'
<1> SUFFICES ASSUME CoverInv, [Next]_vars PROVE CoverInv'
  OBVIOUS
<1>1. CASE UNCHANGED vars
  BY <1>1 DEF CoverInv, TypeOK, vars, CoveredBy
<1>2. CASE Next
  <2>1. PICK r \in Rects : Clean(r)
    BY <1>2 DEF Next
  <2>2. /\ rects \in Seq(Rects) /\ result \in Seq(GoodRects)
        /\ r \in GoodRects /\ Len(rects) \in Nat
    BY RectsAssumption DEF CoverInv, TypeOK
  <2>3. rects' = Append(rects, r) /\ result' = Cleaned(result, r)
    BY <2>1 DEF Clean
  <2>4. TypeOK'
    BY <2>2, <2>3, CleanedCovers, AppendProperties DEF TypeOK
  <2>5. ASSUME NEW px \in Nat, NEW py \in Nat, CoveredBy(px, py, rects')
        PROVE  CoveredBy(px, py, result')
    <3>1. PICK i \in 1..Len(rects') : Inside(px, py, rects'[i])
      BY <2>5 DEF CoveredBy
    <3>2. /\ Len(rects') = Len(rects) + 1
          /\ \A j \in 1..Len(rects) : rects'[j] = rects[j]
          /\ rects'[Len(rects) + 1] = r
      BY <2>2, <2>3, AppendProperties
    <3>3. CoveredBy(px, py, rects) \/ Inside(px, py, r)
      BY <2>2, <3>1, <3>2 DEF CoveredBy
    <3>4. CoveredBy(px, py, result) \/ Inside(px, py, r)
      BY <3>3 DEF CoverInv
    <3> QED BY <2>2, <2>3, <3>4, CleanedCovers
  <2> QED BY <2>4, <2>5 DEF CoverInv, CoveredBy
<1> QED BY <1>1, <1>2

\* However many rectangles a frame has and however they overlap, every dirty
\* pixel is inside a cleaned rectangle.
THEOREM CleanupLosesNothing == Spec => []CleanupCovers
<1>1. ASSUME CoverInv PROVE CleanupCovers
  BY <1>1, RectsAssumption DEF CoverInv, CleanupCovers
<1> QED BY CoverInitial, CoverStep, <1>1, PTL DEF Spec

\* Whatever is merged, the rectangles stay ones that an int16_t can hold.
THEOREM RectsStayGood == Spec => []TypeOK
<1>1. CoverInv => TypeOK
  BY DEF CoverInv
<1> QED BY CoverInitial, CoverStep, <1>1, PTL DEF Spec
-----------------------------------------------------------------------------
(* The edges.  CleanupStaysInside is inductive with TypeOK: a merge takes  *)
(* each edge from one of the two rectangles it merges.                     *)

\* Each edge of d is an edge of one of the rectangles in s.
EdgesFrom(d, s) ==
    \E l, t, r, b \in {s[j] : j \in 1..Len(s)} :
        /\ d.x = l.x /\ d.y = t.y
        /\ d.x + d.width = r.x + r.width
        /\ d.y + d.height = b.y + b.height

LEMMA EdgeStep ==
    ASSUME TypeOK, CleanupStaysInside, NEW r \in Rects, Clean(r)
    PROVE  CleanupStaysInside'
<1>1. /\ rects \in Seq(Rects) /\ result \in Seq(GoodRects)
      /\ r \in GoodRects /\ Len(rects) \in Nat
  BY RectsAssumption DEF TypeOK
<1>2. rects' = Append(rects, r) /\ result' = Cleaned(result, r)
  BY DEF Clean
<1>3. /\ Len(rects') = Len(rects) + 1
      /\ \A j \in 1..Len(rects) : rects'[j] = rects[j]
      /\ rects'[Len(rects) + 1] = r
  BY <1>1, <1>2, AppendProperties
<1> DEFINE Old == {rects[j] : j \in 1..Len(rects)}
           New == {rects'[j] : j \in 1..Len(rects')}
<1>4. Old \subseteq New /\ r \in New
  BY <1>1, <1>3
<1>5. \A i \in 1..Len(result) : EdgesFrom(result[i], rects)
  BY DEF CleanupStaysInside, EdgesFrom
<1>6. ASSUME NEW d, EdgesFrom(d, rects) PROVE EdgesFrom(d, rects')
  <2>1. PICK l \in Old, t \in Old, rt \in Old, b \in Old :
            /\ d.x = l.x /\ d.y = t.y
            /\ d.x + d.width = rt.x + rt.width
            /\ d.y + d.height = b.y + b.height
    BY <1>6 DEF EdgesFrom
  <2>2. l \in New /\ t \in New /\ rt \in New /\ b \in New
    BY <1>4
  <2> HIDE DEF Old, New
  <2>3. \E ll, tt, rr, bb \in New :
            /\ d.x = ll.x /\ d.y = tt.y
            /\ d.x + d.width = rr.x + rr.width
            /\ d.y + d.height = bb.y + bb.height
    BY <2>1, <2>2
  <2> QED BY <2>3 DEF EdgesFrom, New
<1>7. EdgesFrom(r, rects')
  BY <1>4 DEF EdgesFrom
<1>8. ASSUME NEW i \in 1..Len(result)
      PROVE  EdgesFrom(MergeRect(result[i], r), rects')
  <2> DEFINE d == result[i]
             m == MergeRect(d, r)
  <2>1. d \in GoodRects
    BY <1>1
  <2>2. /\ m.x = MinOf(d.x, r.x) /\ m.y = MinOf(d.y, r.y)
        /\ m.x + m.width = MaxOf(d.x + d.width, r.x + r.width)
        /\ m.y + m.height = MaxOf(d.y + d.height, r.y + r.height)
    BY <1>1, <2>1, MergeIsExact
  <2>3. PICK l \in New, t \in New, rt \in New, b \in New :
            /\ d.x = l.x /\ d.y = t.y
            /\ d.x + d.width = rt.x + rt.width
            /\ d.y + d.height = b.y + b.height
    BY <1>5, <1>6 DEF EdgesFrom
  <2> HIDE DEF d, m, New
  <2>4. \E e \in New : m.x = e.x
    BY <1>4, <2>2, <2>3 DEF MinOf
  <2>5. \E e \in New : m.y = e.y
    BY <1>4, <2>2, <2>3 DEF MinOf
  <2>6. \E e \in New : m.x + m.width = e.x + e.width
    BY <1>4, <2>2, <2>3 DEF MaxOf
  <2>7. \E e \in New : m.y + m.height = e.y + e.height
    BY <1>4, <2>2, <2>3 DEF MaxOf
  <2> QED BY <2>4, <2>5, <2>6, <2>7 DEF EdgesFrom, New, m, d
<1>9. ASSUME NEW j \in 1..Len(result') PROVE EdgesFrom(result'[j], rects')
  <2>1. \/ j \in 1..Len(result) /\ result'[j] = result[j]
        \/ j \in 1..Len(result) /\ result'[j] = MergeRect(result[j], r)
        \/ result'[j] = r
    BY <1>1, <1>2, CleanedElements
  <2> QED BY <1>5, <1>6, <1>7, <1>8, <2>1
<1> QED BY <1>9 DEF CleanupStaysInside, EdgesFrom

\* Merging never pushes a rectangle past the outermost edges of the dirty
\* rectangles of the frame, however many were merged into one.
THEOREM CleanupReachesNoFurther == Spec => []CleanupStaysInside
<1> DEFINE Inv == CoverInv /\ CleanupStaysInside
<1>1. Init => Inv
  <2>1. Init => CleanupStaysInside
    BY DEF Init, CleanupStaysInside
  <2> QED BY <2>1, CoverInitial
<1>2. Inv /\ [Next]_vars => Inv'
  <2> SUFFICES ASSUME Inv, [Next]_vars PROVE Inv'
    OBVIOUS
  <2>1. CoverInv'
    BY CoverStep
  <2>2. CASE UNCHANGED vars
    BY <2>1, <2>2 DEF vars, CleanupStaysInside
  <2>3. CASE Next
    BY <2>1, <2>3, EdgeStep DEF Next, CoverInv
  <2> QED BY <2>2, <2>3
<1> QED BY <1>1, <1>2, PTL DEF Spec
-----------------------------------------------------------------------------
(* The grid.  One column (or row) at a time, with the quotients replaced by *)
(* the products they bound.                                                 *)

\* A quotient, by the products around the dividend.
LEMMA Quotient ==
    ASSUME NEW n \in Nat, NEW s \in Nat \ {0}
    PROVE  /\ n \div s \in Nat
           /\ (n \div s) * s <= n /\ n < (n \div s + 1) * s
OBVIOUS

\* Multiplication by the size of a tile keeps the order, both ways.
LEMMA TileOrder ==
    ASSUME NEW a \in Int, NEW b \in Int, NEW s \in Nat \ {0}
    PROVE  a < b <=> a * s < b * s
<1>1. (a + 1) * s = a * s + s /\ (b + 1) * s = b * s + s
  OBVIOUS
<1>2. ASSUME a < b PROVE a * s < b * s
  <2>1. PICK d \in Nat : b = a + 1 + d
    <3>1. b - a - 1 \in Nat /\ b = a + 1 + (b - a - 1)
      BY <1>2
    <3> QED BY <3>1
  <2>2. b * s = a * s + s + d * s
    BY <2>1
  <2>3. d * s >= 0
    BY <2>1
  <2> QED BY <2>2, <2>3
<1>3. ASSUME b <= a PROVE b * s <= a * s
  <2>1. PICK d \in Nat : a = b + d
    <3>1. a - b \in Nat /\ a = b + (a - b)
      BY <1>3
    <3> QED BY <3>1
  <2>2. a * s = b * s + d * s
    BY <2>1
  <2>3. d * s >= 0
    BY <2>1
  <2> QED BY <2>2, <2>3
<1> QED BY <1>2, <1>3

\* A column is marked iff it is one of the map and has a column of pixels of
\* both the rectangle and the surface.  start, length: of the rectangle;
\* extent: of the surface.
LEMMA ColumnMarked ==
    ASSUME NEW start \in Nat, NEW length \in Nat \ {0}, NEW extent \in Nat,
           RectSize > 0, start < extent, NEW k \in Int
    PROVE  k \in FloorDiv(start, RectSize)
                     ..LastTile(start, length, CeilDiv(extent, RectSize))
           <=> /\ k \in 0..CeilDiv(extent, RectSize) - 1
               /\ \E p \in (k * RectSize)..((k + 1) * RectSize - 1) :
                     p < extent /\ start <= p /\ p < start + length
<1> DEFINE s == RectSize
           lo == start \div s
           hi == (start + length + s - 1) \div s
           map == (extent + s - 1) \div s
<1>1. s \in Nat \ {0}
  BY RectsAssumption
<1>2. /\ lo \in Nat /\ lo * s <= start /\ start < (lo + 1) * s
      /\ hi \in Nat /\ hi * s <= start + length + s - 1
      /\ start + length + s - 1 < (hi + 1) * s
      /\ map \in Nat /\ map * s <= extent + s - 1
      /\ extent + s - 1 < (map + 1) * s
  BY <1>1, Quotient
<1>3. /\ FloorDiv(start, s) = lo
      /\ CeilDiv(extent, s) = map
      /\ LastTile(start, length, map) = MinOf(hi, map) - 1
  BY DEF FloorDiv, CeilDiv, LastTile
<1> HIDE DEF s, lo, hi, map
<1>4. (hi + 1) * s = hi * s + s /\ (map + 1) * s = map * s + s
      /\ (k + 1) * s = k * s + s /\ (lo + 1) * s = lo * s + s
      /\ k * s \in Int /\ hi * s \in Int /\ map * s \in Int /\ lo * s \in Int
  BY <1>1, <1>2
<1>5. k \in lo..(MinOf(hi, map) - 1) <=> lo < k + 1 /\ k < hi /\ k < map
  BY <1>2 DEF MinOf
<1>6. /\ k < hi <=> k * s < hi * s
      /\ k < map <=> k * s < map * s
      /\ lo < k + 1 <=> lo * s < (k + 1) * s
  BY <1>1, <1>2, TileOrder
<1>7. /\ k < hi <=> k * s < start + length
      /\ k < map <=> k * s < extent
      /\ lo < k + 1 <=> start < k * s + s
  <2>1. /\ hi < k + 1 <=> hi * s < (k + 1) * s
        /\ map < k + 1 <=> map * s < (k + 1) * s
        /\ k < lo <=> k * s < lo * s
    BY <1>1, <1>2, TileOrder
  <2>2. k < hi => k * s + s <= hi * s
    BY <1>1, <1>2, <1>4, <2>1
  <2>3. k < map => k * s + s <= map * s
    BY <1>1, <1>2, <1>4, <2>1
  <2>4. lo < k + 1 => lo * s + s <= k * s + s
    BY <1>1, <1>2, <1>4, <2>1
  <2>5. k < hi <=> k * s < start + length
    BY <1>1, <1>2, <1>4, <1>6, <2>2
  <2>6. k < map <=> k * s < extent
    BY <1>1, <1>2, <1>4, <1>6, <2>3
  <2>7. lo < k + 1 <=> start < k * s + s
    BY <1>1, <1>2, <1>4, <1>6, <2>4
  <2> QED BY <2>5, <2>6, <2>7
<1>8. ASSUME k * s < start + length, k * s < extent, start < k * s + s
      PROVE  \E p \in (k * s)..((k + 1) * s - 1) :
                 p < extent /\ start <= p /\ p < start + length
  <2>1. CASE k * s <= start
    <3>1. start \in (k * s)..((k + 1) * s - 1)
      BY <1>1, <1>4, <1>8, <2>1
    <3> QED BY <3>1
  <2>2. CASE start < k * s
    <3>1. k * s \in (k * s)..((k + 1) * s - 1)
      BY <1>1, <1>4
    <3> QED BY <1>4, <1>8, <2>2, <3>1
  <2> QED BY <1>4, <2>1, <2>2
<1>9. ASSUME NEW p \in (k * s)..((k + 1) * s - 1),
             p < extent, start <= p, p < start + length
      PROVE  k * s < start + length /\ k * s < extent /\ start < k * s + s
  BY <1>1, <1>4, <1>9
<1>10. lo < k + 1 => 0 <= k
  BY <1>2
<1>11. k \in 0..(map - 1) <=> 0 <= k /\ k < map
  BY <1>2
<1>12. k \in lo..(MinOf(hi, map) - 1)
          <=> /\ k \in 0..(map - 1)
              /\ \E p \in (k * s)..((k + 1) * s - 1) :
                     p < extent /\ start <= p /\ p < start + length
  BY <1>5, <1>7, <1>8, <1>9, <1>10, <1>11
<1> QED BY <1>3, <1>12 DEF s

\* The tiles of the map that have a pixel of the surface and of d.
TilesOf(d) ==
    {u \in (0..MapWidth - 1) \X (0..MapHeight - 1) :
        \E px \in (u[1] * RectSize)..((u[1] + 1) * RectSize - 1),
           py \in (u[2] * RectSize)..((u[2] + 1) * RectSize - 1) :
              px < Width /\ py < Height /\ Inside(px, py, d)}

\* A rectangle with an inside marks these tiles and no other.
LEMMA MarkedAreTiles ==
    ASSUME RectSize > 0, NEW d \in GoodRects, d.width > 0, d.height > 0
    PROVE  Marked(d) = TilesOf(d)
<1>1. /\ d.x \in Nat /\ d.y \in Nat
      /\ d.width \in Nat \ {0} /\ d.height \in Nat \ {0}
      /\ Width \in Nat /\ Height \in Nat
  BY RectsAssumption DEF GoodRects
<1>2. CASE Width <= d.x \/ Height <= d.y
  <2>1. Marked(d) = {}
    BY <1>2 DEF Marked
  <2>2. ASSUME NEW px \in Int, NEW py \in Int, px < Width, py < Height
        PROVE  ~Inside(px, py, d)
    BY <1>1, <1>2, <2>2 DEF Inside
  <2>3. ASSUME NEW u \in TilesOf(d) PROVE FALSE
    <3>1. PICK px \in (u[1] * RectSize)..((u[1] + 1) * RectSize - 1),
               py \in (u[2] * RectSize)..((u[2] + 1) * RectSize - 1) :
                  px < Width /\ py < Height /\ Inside(px, py, d)
      BY DEF TilesOf
    <3>2. px \in Int /\ py \in Int
      OBVIOUS
    <3> QED BY <2>2, <3>1, <3>2
  <2> QED BY <2>1, <2>3
<1>3. CASE d.x < Width /\ d.y < Height
  <2> DEFINE A == FloorDiv(d.x, RectSize)..LastTile(d.x, d.width, MapWidth)
             B == FloorDiv(d.y, RectSize)..LastTile(d.y, d.height, MapHeight)
             X(k) == (k * RectSize)..((k + 1) * RectSize - 1)
  <2>1. Marked(d) = A \X B
    BY <1>1, <1>3 DEF Marked
  <2>2. ASSUME NEW k \in Int
        PROVE  k \in A <=> /\ k \in 0..MapWidth - 1
                           /\ \E p \in X(k) : p < Width /\ d.x <= p
                                                  /\ p < d.x + d.width
    BY <1>1, <1>3, ColumnMarked DEF MapWidth
  <2>3. ASSUME NEW k \in Int
        PROVE  k \in B <=> /\ k \in 0..MapHeight - 1
                           /\ \E p \in X(k) : p < Height /\ d.y <= p
                                                  /\ p < d.y + d.height
    BY <1>1, <1>3, ColumnMarked DEF MapHeight
  <2>4. /\ A \subseteq Int /\ B \subseteq Int
        /\ 0..MapWidth - 1 \subseteq Int /\ 0..MapHeight - 1 \subseteq Int
    OBVIOUS
  <2> HIDE DEF A, B, X
  <2>5. ASSUME NEW k \in Int, NEW l \in Int
        PROVE  <<k, l>> \in A \X B <=> <<k, l>> \in TilesOf(d)
    <3>1. <<k, l>> \in TilesOf(d)
              <=> /\ k \in 0..MapWidth - 1 /\ l \in 0..MapHeight - 1
                  /\ \E px \in X(k), py \in X(l) :
                        px < Width /\ py < Height /\ Inside(px, py, d)
      BY DEF TilesOf, X
    <3>2. (\E px \in X(k), py \in X(l) :
              px < Width /\ py < Height /\ Inside(px, py, d))
          <=> /\ \E p \in X(k) : p < Width /\ d.x <= p /\ p < d.x + d.width
              /\ \E p \in X(l) : p < Height /\ d.y <= p /\ p < d.y + d.height
      BY DEF Inside
    <3> QED BY <2>2, <2>3, <3>1, <3>2
  <2>6. ASSUME NEW u PROVE u \in A \X B <=> u \in TilesOf(d)
    <3>1. u \in A \X B \/ u \in TilesOf(d) => u \in Int \X Int
      BY <2>4 DEF TilesOf
    <3>2. u \in Int \X Int => u = <<u[1], u[2]>> /\ u[1] \in Int /\ u[2] \in Int
      OBVIOUS
    <3> QED BY <2>5, <3>1, <3>2
  <2> QED BY <2>1, <2>6
<1> QED BY <1>1, <1>2, <1>3

\* Every rectangle of the result has an inside.
Solid == \A i \in 1..Len(result) : result[i].width > 0 /\ result[i].height > 0

LEMMA SolidStep ==
    ASSUME \A r \in Rects : r.width > 0 /\ r.height > 0,
           TypeOK, Solid, [Next]_vars
    PROVE  Solid'
<1>1. CASE UNCHANGED vars
  BY <1>1 DEF vars, Solid
<1>2. CASE Next
  <2>1. PICK r \in Rects : Clean(r)
    BY <1>2 DEF Next
  <2>2. /\ r \in GoodRects /\ r.width > 0 /\ r.height > 0
        /\ result \in Seq(GoodRects) /\ result' = Cleaned(result, r)
    BY <2>1, RectsAssumption DEF TypeOK, Clean
  <2>3. ASSUME NEW j \in 1..Len(result')
        PROVE  result'[j].width > 0 /\ result'[j].height > 0
    <3>1. \/ j \in 1..Len(result) /\ result'[j] = result[j]
          \/ j \in 1..Len(result) /\ result'[j] = MergeRect(result[j], r)
          \/ result'[j] = r
      BY <2>2, CleanedElements
    <3>2. CASE j \in 1..Len(result) /\ result'[j] = MergeRect(result[j], r)
      <4>1. result[j] \in GoodRects
        BY <2>2, <3>2
      <4>2. result[j].width > 0 /\ result[j].height > 0
        BY <3>2 DEF Solid
      <4> QED BY <2>2, <3>2, <4>1, <4>2, MergeCovers
    <3> QED BY <2>2, <3>1, <3>2 DEF Solid
  <2> QED BY <2>3 DEF Solid
<1> QED BY <1>1, <1>2

\* The copy rectangles of a solid result are the tiles its pixels lie in.
LEMMA GridIsExact ==
    ASSUME TypeOK, Solid PROVE CopyRectsAreTheDirtyTiles
<1> SUFFICES ASSUME RectSize > 0
             PROVE  CreateCopyRects(result) =
                 {Rect(t[1] * RectSize, t[2] * RectSize, RectSize, RectSize) :
                     t \in {u \in (0..MapWidth - 1) \X (0..MapHeight - 1) :
                         \E px \in (u[1] * RectSize)..((u[1] + 1) * RectSize - 1),
                            py \in (u[2] * RectSize)..((u[2] + 1) * RectSize - 1) :
                               /\ px < Width /\ py < Height
                               /\ CoveredBy(px, py, result)}}
  BY DEF CopyRectsAreTheDirtyTiles
<1> DEFINE Marks == UNION {Marked(result[i]) : i \in 1..Len(result)}
           Tiles == {u \in (0..MapWidth - 1) \X (0..MapHeight - 1) :
                         \E px \in (u[1] * RectSize)..((u[1] + 1) * RectSize - 1),
                            py \in (u[2] * RectSize)..((u[2] + 1) * RectSize - 1) :
                               /\ px < Width /\ py < Height
                               /\ CoveredBy(px, py, result)}
<1>1. ASSUME NEW i \in 1..Len(result)
      PROVE  Marked(result[i]) = TilesOf(result[i])
  <2>1. result[i] \in GoodRects
    BY DEF TypeOK
  <2>2. result[i].width > 0 /\ result[i].height > 0
    BY DEF Solid
  <2> QED BY <2>1, <2>2, MarkedAreTiles
<1>2. ASSUME NEW u PROVE u \in Tiles <=> \E i \in 1..Len(result) : u \in TilesOf(result[i])
  BY DEF TilesOf, CoveredBy
<1>3. ASSUME NEW u PROVE u \in Marks <=> \E i \in 1..Len(result) : u \in Marked(result[i])
  OBVIOUS
<1> HIDE DEF Marks, Tiles
<1>4. Marks = Tiles
  BY <1>1, <1>2, <1>3
<1>5. CreateCopyRects(result)
          = {Rect(t[1] * RectSize, t[2] * RectSize, RectSize, RectSize) : t \in Marks}
  BY RectsAssumption DEF CreateCopyRects, Marks
<1> QED BY <1>4, <1>5 DEF Tiles

\* If no dirty rectangle is empty, the encoder is given exactly the tiles with
\* a dirty pixel of the surface, however the rectangles were merged and
\* whatever the grid leaves over at the edges.  (An empty rectangle would mark
\* the tile its corner lies in.)
THEOREM GridIsTheDirtyTiles ==
    ASSUME \A r \in Rects : r.width > 0 /\ r.height > 0
    PROVE  Spec => []CopyRectsAreTheDirtyTiles
<1> DEFINE Inv == CoverInv /\ Solid
<1>1. Init => Inv
  <2>1. Init => Solid
    BY DEF Init, Solid
  <2> QED BY <2>1, CoverInitial
<1>2. Inv /\ [Next]_vars => Inv'
  BY CoverStep, SolidStep DEF CoverInv
<1>3. Inv => CopyRectsAreTheDirtyTiles
  BY GridIsExact DEF CoverInv
<1> QED BY <1>1, <1>2, <1>3, PTL DEF Spec

\* Both algorithms together: each pixel of the surface that some dirty
\* rectangle of the frame covers is inside a copy rectangle.
DirtyPixelsAreCopied ==
    \A px \in 0..Width - 1, py \in 0..Height - 1 :
        CoveredBy(px, py, rects) =>
            \E c \in CreateCopyRects(result) : Inside(px, py, c)

LEMMA CopiesCover ==
    ASSUME CoverInv, NEW px \in 0..Width - 1, NEW py \in 0..Height - 1,
           CoveredBy(px, py, rects)
    PROVE  \E c \in CreateCopyRects(result) : Inside(px, py, c)
<1>1. Width \in Nat /\ Height \in Nat /\ px \in Nat /\ py \in Nat
      /\ px < Width /\ py < Height /\ RectSize \in Nat
  BY RectsAssumption
<1>2. PICK i \in 1..Len(result) : Inside(px, py, result[i])
  BY <1>1 DEF CoverInv, CoveredBy
<1> PICK d : d = result[i]
  OBVIOUS
<1>3. d \in GoodRects /\ Inside(px, py, d)
  BY <1>2 DEF CoverInv, TypeOK
<1>4. CASE RectSize = 0
  BY <1>2, <1>4 DEF CreateCopyRects
<1>5. CASE RectSize > 0
  <2>1. /\ d.x \in Nat /\ d.y \in Nat
        /\ d.width \in Nat \ {0} /\ d.height \in Nat \ {0}
        /\ d.width > 0 /\ d.height > 0
    BY <1>1, <1>3 DEF GoodRects, Inside
  <2>2. PICK k, l \in Int : k = px \div RectSize /\ l = py \div RectSize
    BY <1>1, <1>5
  <2>3. /\ k * RectSize <= px /\ px < (k + 1) * RectSize
        /\ l * RectSize <= py /\ py < (l + 1) * RectSize
    BY <1>1, <1>5, <2>2, Quotient
  <2>4. /\ px \in (k * RectSize)..((k + 1) * RectSize - 1)
        /\ py \in (l * RectSize)..((l + 1) * RectSize - 1)
    BY <1>1, <2>2, <2>3
  <2>5. /\ d.x < Width /\ d.x <= px /\ px < d.x + d.width
        /\ d.y < Height /\ d.y <= py /\ py < d.y + d.height
    BY <1>1, <1>3, <2>1 DEF Inside
  <2>6. k \in 0..MapWidth - 1 /\ l \in 0..MapHeight - 1
    <3>1. k < MapWidth
      <4>1. Width + RectSize - 1 < (MapWidth + 1) * RectSize /\ MapWidth \in Nat
        BY <1>1, <1>5, Quotient DEF MapWidth, CeilDiv
      <4>2. (MapWidth + 1) * RectSize = MapWidth * RectSize + RectSize
            /\ MapWidth * RectSize \in Int /\ k * RectSize \in Int
        BY <1>1, <4>1
      <4>3. k * RectSize < MapWidth * RectSize
        BY <1>1, <1>5, <2>3, <4>1, <4>2
      <4> QED BY <1>1, <1>5, <4>1, <4>3, TileOrder
    <3>2. l < MapHeight
      <4>1. Height + RectSize - 1 < (MapHeight + 1) * RectSize /\ MapHeight \in Nat
        BY <1>1, <1>5, Quotient DEF MapHeight, CeilDiv
      <4>2. (MapHeight + 1) * RectSize = MapHeight * RectSize + RectSize
            /\ MapHeight * RectSize \in Int /\ l * RectSize \in Int
        BY <1>1, <4>1
      <4>3. l * RectSize < MapHeight * RectSize
        BY <1>1, <1>5, <2>3, <4>1, <4>2
      <4> QED BY <1>1, <1>5, <4>1, <4>3, TileOrder
    <3>3. k \in Nat /\ l \in Nat
      BY <1>1, <1>5, <2>2, Quotient
    <3>4. MapWidth \in Int /\ MapHeight \in Int
      BY <1>1, <1>5, Quotient DEF MapWidth, MapHeight, CeilDiv
    <3> QED BY <3>1, <3>2, <3>3, <3>4
  <2>7. <<k, l>> \in TilesOf(d)
    BY <1>1, <1>3, <2>4, <2>6 DEF TilesOf
  <2>8. <<k, l>> \in Marked(d)
    BY <1>3, <1>5, <2>1, <2>7, MarkedAreTiles
  <2> DEFINE c == Rect(k * RectSize, l * RectSize, RectSize, RectSize)
  <2>9. c \in CreateCopyRects(result)
    BY <1>2, <1>5, <2>8 DEF CreateCopyRects
  <2>10. Inside(px, py, c)
    <3>1. /\ (k + 1) * RectSize = k * RectSize + RectSize
          /\ (l + 1) * RectSize = l * RectSize + RectSize
      BY <1>1
    <3> QED BY <2>3, <3>1 DEF Inside, Rect
  <2> QED BY <2>9, <2>10
<1> QED BY <1>1, <1>4, <1>5

\* Nothing a frame changed is kept from the encoder: from the dirty
\* rectangles through cleanupRects() to createCopyRects(), with any grid or
\* none, for rectangles of any size, empty ones included.
THEOREM EveryDirtyPixelIsCopied == Spec => []DirtyPixelsAreCopied
<1>1. CoverInv => DirtyPixelsAreCopied
  BY CopiesCover DEF DirtyPixelsAreCopied
<1> QED BY CoverInitial, CoverStep, <1>1, PTL DEF Spec
============================================================================
