--------------------------- MODULE MCSurfaceRects --------------------------
(***************************************************************************)
(* Constants for TLC: a 5 x 4 surface under a grid of 2, so that the last  *)
(* column of tiles sticks out; rectangles in its corners and middle, some  *)
(* beyond its edge; ShortMax is small enough for a sum to reach it.        *)
(***************************************************************************)
EXTENDS SurfaceRects

SmallRects == {Rect(x, y, w, h) : x \in {0, 2, 3, 5}, y \in {0, 1, 3},
                                  w \in {1, 3}, h \in {1, 2}}
============================================================================
