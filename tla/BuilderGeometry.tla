---------------------------- MODULE BuilderGeometry ----------------------------
(***************************************************************************)
(* The arithmetic of the report builder's canvas: geometry.ts, align.ts,   *)
(* guides.ts, marquee.ts and pageSetup.ts. Lengths are integers in a unit  *)
(* small enough for the halves and the gaps to be whole; the conversion of *)
(* pixels to inches at the current zoom is left to the caller, so a delta  *)
(* is in the unit of the model.                                            *)
(***************************************************************************)
EXTENDS Integers, SequencesExt

Larger(a, b)  == IF a >= b THEN a ELSE b
Smaller(a, b) == IF a <= b THEN a ELSE b

Rect(x, y, w, h) == [x |-> x, y |-> y, w |-> w, h |-> h]
Right(r)  == r.x + r.w
Bottom(r) == r.y + r.h

-----------------------------------------------------------------------------
(* geometry.ts                                                             *)

\* Math.round rounds halves up.
Snap(value, grid, enabled) ==
  IF ~enabled \/ grid <= 0 THEN value ELSE ((2 * value + grid) \div (2 * grid)) * grid

\* Faulty variant: the position is not held at the origin.
DraggedPositionUnclamped(start, delta, grid, enabled) ==
  [x |-> Snap(start.x + delta.x, grid, enabled), y |-> Snap(start.y + delta.y, grid, enabled)]

DraggedPosition(start, delta, grid, enabled) ==
  [x |-> Snap(Larger(0, start.x + delta.x), grid, enabled),
   y |-> Snap(Larger(0, start.y + delta.y), grid, enabled)]

\* Faulty variant: an edge dragged over the opposite one pushes it along.
ResizedRectPushes(start, handle, delta, grid, enabled) ==
  LET right  == Snap(Right(start) + delta.x, grid, enabled)
      left   == Larger(0, Snap(start.x + delta.x, grid, enabled))
      bottom == Snap(Bottom(start) + delta.y, grid, enabled)
      top    == Larger(0, Snap(start.y + delta.y, grid, enabled))
      l == IF handle \in {"sw", "nw"} THEN left ELSE Smaller(start.x, right)
      r == IF handle \in {"se", "ne"} THEN right ELSE Larger(Right(start), left)
      t == IF handle \in {"ne", "nw"} THEN top ELSE Smaller(start.y, bottom)
      b == IF handle \in {"se", "sw"} THEN bottom ELSE Larger(Bottom(start), top)
  IN Rect(l, t, Larger(0, r - l), Larger(0, b - t))

\* The two edges of the handle follow the pointer; the opposite corner stays.
ResizedRect(start, handle, delta, grid, enabled) ==
  LET right  == Larger(start.x, Snap(Right(start) + delta.x, grid, enabled))
      left   == Smaller(Right(start), Larger(0, Snap(start.x + delta.x, grid, enabled)))
      bottom == Larger(start.y, Snap(Bottom(start) + delta.y, grid, enabled))
      top    == Smaller(Bottom(start), Larger(0, Snap(start.y + delta.y, grid, enabled)))
      l == IF handle \in {"sw", "nw"} THEN left ELSE start.x
      r == IF handle \in {"se", "ne"} THEN right ELSE Right(start)
      t == IF handle \in {"ne", "nw"} THEN top ELSE start.y
      b == IF handle \in {"se", "sw"} THEN bottom ELSE Bottom(start)
  IN Rect(l, t, r - l, b - t)

ResizedPageSize(start, delta, handle, min) ==
  [width  |-> IF handle \in {"e", "se"}
              THEN Larger(min.width, start.width + delta.x) ELSE start.width,
   height |-> IF handle \in {"s", "se"}
              THEN Larger(min.height, start.height + delta.y) ELSE start.height]

TotalLength(lengths) == FoldLeft(+, 0, lengths)

\* The top of each band of a page whose bands have these heights.
BandTops(heights) == [i \in DOMAIN heights |-> TotalLength(SubSeq(heights, 1, i - 1))]

-----------------------------------------------------------------------------
(* align.ts: rects is the sequence of the rects of the selected elements    *)

Edges == {"left", "center", "right", "top", "middle", "bottom"}

AlignRects(rects, edge) ==
  LET minX      == Min({r.x : r \in Range(rects)})
      maxRight  == Max({Right(r) : r \in Range(rects)})
      minY      == Min({r.y : r \in Range(rects)})
      maxBottom == Max({Bottom(r) : r \in Range(rects)})
      Aligned(r) ==
        CASE edge = "left"   -> [r EXCEPT !.x = minX]
          [] edge = "right"  -> [r EXCEPT !.x = maxRight - r.w]
          [] edge = "center" -> [r EXCEPT !.x = (minX + maxRight - r.w) \div 2]
          [] edge = "top"    -> [r EXCEPT !.y = minY]
          [] edge = "bottom" -> [r EXCEPT !.y = maxBottom - r.h]
          [] edge = "middle" -> [r EXCEPT !.y = (minY + maxBottom - r.h) \div 2]
  IN [i \in DOMAIN rects |-> Aligned(rects[i])]

Lead(r, axis)   == IF axis = "horizontal" THEN r.x ELSE r.y
Extent(r, axis) == IF axis = "horizontal" THEN r.w ELSE r.h
Extents(rects, axis, S) == MapThenSumSet(LAMBDA i : Extent(rects[i], axis), S)

\* The items before i in the stable order of their leading edges.
Before(rects, i, axis) ==
  {j \in DOMAIN rects : \/ Lead(rects[j], axis) < Lead(rects[i], axis)
                        \/ Lead(rects[j], axis) = Lead(rects[i], axis) /\ j < i}

\* Faulty variant: shared among the items instead of among the gaps.
GapOfItems(rects, axis) ==
  LET last  == CHOOSE i \in DOMAIN rects : Cardinality(Before(rects, i, axis)) = Len(rects) - 1
      start == Min({Lead(r, axis) : r \in Range(rects)})
      end   == Lead(rects[last], axis) + Extent(rects[last], axis)
      used  == Extents(rects, axis, DOMAIN rects)
  IN (end - start - used) \div Len(rects)

\* The space between two neighbours that uses up what the items leave free.
Gap(rects, axis) ==
  LET last  == CHOOSE i \in DOMAIN rects : Cardinality(Before(rects, i, axis)) = Len(rects) - 1
      start == Min({Lead(r, axis) : r \in Range(rects)})
      end   == Lead(rects[last], axis) + Extent(rects[last], axis)
      used  == Extents(rects, axis, DOMAIN rects)
  IN (end - start - used) \div (Len(rects) - 1)

DistributeRects(rects, axis) ==
  LET start == Min({Lead(r, axis) : r \in Range(rects)})
      Cursor(i) ==
        start + Cardinality(Before(rects, i, axis)) * Gap(rects, axis)
              + Extents(rects, axis, Before(rects, i, axis))
  IN IF Len(rects) < 3 THEN rects
     ELSE [i \in DOMAIN rects |-> IF axis = "horizontal" THEN [rects[i] EXCEPT !.x = Cursor(i)]
                                                         ELSE [rects[i] EXCEPT !.y = Cursor(i)]]

-----------------------------------------------------------------------------
(* guides.ts, marquee.ts                                                   *)

VerticalLines(r)   == {r.x, r.x + r.w \div 2, Right(r)}
HorizontalLines(r) == {r.y, r.y + r.h \div 2, Bottom(r)}

Distance(a, b) == IF a >= b THEN a - b ELSE b - a

\* The lines of the others that a line of the moving rect is close to.
AlignmentGuides(moving, others, tolerance) ==
  {[orientation |-> "vertical", position |-> v] :
     v \in {u \in UNION {VerticalLines(o) : o \in others} :
              \E m \in VerticalLines(moving) : Distance(m, u) <= tolerance}}
  \cup
  {[orientation |-> "horizontal", position |-> v] :
     v \in {u \in UNION {HorizontalLines(o) : o \in others} :
              \E m \in HorizontalLines(moving) : Distance(m, u) <= tolerance}}

MarqueeRect(p, q) ==
  Rect(Smaller(p.x, q.x), Smaller(p.y, q.y), Distance(p.x, q.x), Distance(p.y, q.y))

RectsIntersect(a, b) ==
  a.x < Right(b) /\ Right(a) > b.x /\ a.y < Bottom(b) /\ Bottom(a) > b.y

-----------------------------------------------------------------------------
(* pageSetup.ts; a page is [width, height], in hundredths of an inch       *)

PageSizes ==
  << [name |-> "letter",  width |-> 850,  height |-> 1100],
     [name |-> "legal",   width |-> 850,  height |-> 1400],
     [name |-> "a4",      width |-> 827,  height |-> 1169],
     [name |-> "tabloid", width |-> 1100, height |-> 1700] >>
SizeTolerance == 2

OrientationOf(page) == IF page.width > page.height THEN "landscape" ELSE "portrait"

\* The first preset the page is close to, whichever way it is turned.
PageSizeNameOf(page) ==
  LET lo == Smaller(page.width, page.height)
      hi == Larger(page.width, page.height)
      close == {i \in DOMAIN PageSizes : /\ Distance(lo, PageSizes[i].width)  <= SizeTolerance
                                         /\ Distance(hi, PageSizes[i].height) <= SizeTolerance}
  IN IF close = {} THEN "custom" ELSE PageSizes[Min(close)].name

ApplyPageSize(page, name) ==
  LET size == SelectSeq(PageSizes, LAMBDA s : s.name = name)[1]
      landscape == OrientationOf(page) = "landscape"
  IN [page EXCEPT !.width  = IF landscape THEN size.height ELSE size.width,
                  !.height = IF landscape THEN size.width ELSE size.height]

ApplyOrientation(page, orientation) ==
  LET lo == Smaller(page.width, page.height)
      hi == Larger(page.width, page.height)
  IN IF orientation = "landscape" THEN [page EXCEPT !.width = hi, !.height = lo]
                                  ELSE [page EXCEPT !.width = lo, !.height = hi]
=============================================================================
