--------------------------- MODULE BoardGeometry ---------------------------
(***************************************************************************)
(* The exact integer geometry of pcbflow.board: points, axis-aligned       *)
(* rectangles and the predicates of geometry.py on which the router, the   *)
(* copper planner and the rule checker all rest.  Touching counts as       *)
(* meeting throughout.                                                     *)
(*                                                                         *)
(* A point is [x, y]; a rectangle is [x, y, w, h].                         *)
(***************************************************************************)
EXTENDS Integers, FiniteSets

Point(x, y) == [x |-> x, y |-> y]
Rect(x, y, w, h) == [x |-> x, y |-> y, w |-> w, h |-> h]
Points == [x : Int, y : Int]
Rects == [x : Int, y : Int, w : Int, h : Int]

Least(a, b) == IF a <= b THEN a ELSE b
Most(a, b) == IF a >= b THEN a ELSE b
Dist(a, b) == IF a <= b THEN b - a ELSE a - b

Area(r) == r.w * r.h

\* The unit squares a rectangle is made of.
Cells(r) == {<<x, y>> : x \in r.x .. r.x + r.w - 1, y \in r.y .. r.y + r.h - 1}

RectContains(r, p) == /\ r.x <= p.x /\ p.x <= r.x + r.w
                  /\ r.y <= p.y /\ p.y <= r.y + r.h

\* The rectangles meet when each is grown by nothing and the gap is at most d.
RectsWithin(a, b, d) == /\ a.x + a.w + d >= b.x /\ b.x + b.w + d >= a.x
                        /\ a.y + a.h + d >= b.y /\ b.y + b.h + d >= a.y
RectsIntersect(a, b) == RectsWithin(a, b, 0)

\* Sharing an edge of positive length, or more: a corner is no connection.
RectsConnected(a, b) ==
  LET across == Least(a.x + a.w, b.x + b.w) - Most(a.x, b.x)
      along  == Least(a.y + a.h, b.y + b.h) - Most(a.y, b.y)
  IN  across >= 0 /\ along >= 0 /\ across + along > 0

Corners(r) == <<Point(r.x, r.y), Point(r.x + r.w, r.y),
                Point(r.x + r.w, r.y + r.h), Point(r.x, r.y + r.h)>>
Edges(r) == LET c == Corners(r) IN {<<c[i], c[(i % 4) + 1]>> : i \in 1 .. 4}

PointDistanceWithin(p, q, d) ==
  (p.x - q.x) * (p.x - q.x) + (p.y - q.y) * (p.y - q.y) <= d * d

\* d is the distance to the nearest of the rectangle's points, and 0 inside it.
PointRectWithin(p, r, d) ==
  LET dx == Most(Most(r.x - p.x, 0), p.x - (r.x + r.w))
      dy == Most(Most(r.y - p.y, 0), p.y - (r.y + r.h))
  IN  dx * dx + dy * dy <= d * d

RectContainsCircle(r, p, d) == /\ p.x - d >= r.x /\ p.x + d <= r.x + r.w
                               /\ p.y - d >= r.y /\ p.y + d <= r.y + r.h

PointSegmentWithin(p, a, b, d) ==
  LET dx == b.x - a.x
      dy == b.y - a.y
      length2 == dx * dx + dy * dy
      along  == (p.x - a.x) * dx + (p.y - a.y) * dy
      across == (p.x - a.x) * dy - (p.y - a.y) * dx
  IN  /\ Least(a.x, b.x) - d <= p.x /\ p.x <= Most(a.x, b.x) + d
      /\ Least(a.y, b.y) - d <= p.y /\ p.y <= Most(a.y, b.y) + d
      /\ \/ along <= 0 /\ PointDistanceWithin(p, a, d)
         \/ along > 0 /\ along >= length2 /\ PointDistanceWithin(p, b, d)
         \/ 0 < along /\ along < length2 /\ across * across <= d * d * length2

LOCAL Cross(p, q, r) == (q.x - p.x) * (r.y - p.y) - (q.y - p.y) * (r.x - p.x)
LOCAL Between(p, q, r) ==
  /\ Least(p.x, r.x) <= q.x /\ q.x <= Most(p.x, r.x)
  /\ Least(p.y, r.y) <= q.y /\ q.y <= Most(p.y, r.y)

SegmentsIntersect(a, b, c, d) ==
  LET s1 == Cross(a, b, c)  s2 == Cross(a, b, d)
      s3 == Cross(c, d, a)  s4 == Cross(c, d, b)
  IN  \/ s1 = 0 /\ Between(a, c, b)
      \/ s2 = 0 /\ Between(a, d, b)
      \/ s3 = 0 /\ Between(c, a, d)
      \/ s4 = 0 /\ Between(c, b, d)
      \/ (s1 > 0) # (s2 > 0) /\ (s3 > 0) # (s4 > 0)

SegmentsWithin(a, b, c, d, dist) ==
  /\ Most(Least(a.x, b.x), Least(c.x, d.x)) <= Least(Most(a.x, b.x), Most(c.x, d.x)) + dist
  /\ Most(Least(a.y, b.y), Least(c.y, d.y)) <= Least(Most(a.y, b.y), Most(c.y, d.y)) + dist
  /\ \/ SegmentsIntersect(a, b, c, d)
     \/ PointSegmentWithin(a, c, d, dist) \/ PointSegmentWithin(b, c, d, dist)
     \/ PointSegmentWithin(c, a, b, dist) \/ PointSegmentWithin(d, a, b, dist)

SegmentIntersectsRect(a, b, r) ==
  \/ RectContains(r, a) \/ RectContains(r, b)
  \/ \E e \in Edges(r) : SegmentsIntersect(a, b, e[1], e[2])

SegmentRectWithin(a, b, r, d) ==
  /\ Most(r.x - d, Least(a.x, b.x)) <= Least(r.x + r.w + d, Most(a.x, b.x))
  /\ Most(r.y - d, Least(a.y, b.y)) <= Least(r.y + r.h + d, Most(a.y, b.y))
  /\ \/ SegmentIntersectsRect(a, b, r)
     \/ \E i \in 1 .. 4 : PointSegmentWithin(Corners(r)[i], a, b, d)
     \/ \E e \in Edges(r) : \/ PointSegmentWithin(a, e[1], e[2], d)
                            \/ PointSegmentWithin(b, e[1], e[2], d)

\* A mutant: the lower and upper strips span the width of r.
Subtract_Wide(r, cut) ==
  LET left == Most(r.x, cut.x)
      bottom == Most(r.y, cut.y)
      right == Least(r.x + r.w, cut.x + cut.w)
      top == Least(r.y + r.h, cut.y + cut.h)
  IN  IF left >= right \/ bottom >= top THEN {r}
      ELSE {s \in {Rect(r.x, r.y, left - r.x, r.h),
                   Rect(right, r.y, r.x + r.w - right, r.h),
                   Rect(r.x, r.y, r.w, bottom - r.y),
                   Rect(r.x, top, r.w, r.y + r.h - top)} : s.w > 0 /\ s.h > 0}

\* What is left of r when cut is taken out of it: at most four rectangles.
Subtract(r, cut) ==
  LET left == Most(r.x, cut.x)
      bottom == Most(r.y, cut.y)
      right == Least(r.x + r.w, cut.x + cut.w)
      top == Least(r.y + r.h, cut.y + cut.h)
  IN  IF left >= right \/ bottom >= top THEN {r}
      ELSE {s \in {Rect(r.x, r.y, left - r.x, r.h),
                   Rect(right, r.y, r.x + r.w - right, r.h),
                   Rect(left, r.y, right - left, bottom - r.y),
                   Rect(left, top, right - left, r.y + r.h - top)} : s.w > 0 /\ s.h > 0}

\* r grown by d on every side and clipped: a set with the result, or empty.
ExpandedClipped(r, d, clip) ==
  LET left == Most(clip.x, r.x - d)
      bottom == Most(clip.y, r.y - d)
      right == Least(clip.x + clip.w, r.x + r.w + d)
      top == Least(clip.y + clip.h, r.y + r.h + d)
  IN  IF left >= right \/ bottom >= top THEN {}
      ELSE {Rect(left, bottom, right - left, top - bottom)}

SegmentBounds(a, b, d) ==
  LET left == Least(a.x, b.x) - d
      bottom == Least(a.y, b.y) - d
  IN  Rect(left, bottom, Most(a.x, b.x) - left + d, Most(a.y, b.y) - bottom + d)

PointBounds(p, d) == Rect(p.x - d, p.y - d, Most(1, 2 * d), Most(1, 2 * d))

\* The members of all that are joined to the members of seed by a chain of touching ones.
Joined(seed, all, Touches(_, _)) ==
  LET grown[n \in 0 .. Cardinality(all)] ==
        IF n = 0 THEN seed
        ELSE LET s == grown[n - 1] IN s \cup {e \in all : \E f \in s : Touches(f, e)}
  IN  grown[Cardinality(all)]
=============================================================================
