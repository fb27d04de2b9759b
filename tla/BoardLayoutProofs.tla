---------------------------- MODULE BoardLayoutProofs ----------------------------
(***************************************************************************)
(* Proofs about the layout of a board: that cutting one region after       *)
(* another out of the ground pour leaves exact tiles (TilesAreExact), that *)
(* the placement a solver offers is legal (PlacementIsLegal), that what    *)
(* the solver and the planner propose is executed as it was meant          *)
(* (ProposalsAreExecuted), and that the planner keeps out of all the       *)
(* checker looks at (PlannerMeetsChecker).  They hold for every set of     *)
(* boards, operations and rules that meets the assumptions of BoardLayout  *)
(* and the modules it extends; the last two need more of the boards and    *)
(* the operations by hand, which they name.                                *)
(***************************************************************************)
EXTENDS BoardLayout, FiniteSetTheorems, FunctionTheorems, SequenceTheorems, WellFoundedInduction,
        TLAPS

-----------------------------------------------------------------------------
(* Numbers and finite sets. *)

\* A nonempty set of natural numbers has a least element.
LEMMA LeastNumber ==
  ASSUME NEW T, T \subseteq Nat, T # {}
  PROVE  \E n \in T : \A m \in T : n <= m
<1>1. PICK n \in T : \A m \in T : ~(<<m, n>> \in OpToRel(<, Nat))
  BY WFMin, NatLessThanWellFounded
<1>2. \A m \in T : <<m, n>> \in OpToRel(<, Nat) <=> m < n
  BY DEF OpToRel
<1>3. \A m \in T : ~(m < n)
  BY <1>1, <1>2
<1> QED BY <1>3

\* What holds of a number and of the successor of every number it holds of holds from there on.
LEMMA FromOn ==
  ASSUME NEW a \in Nat, NEW N \in Nat, NEW G,
         a \in G, \A n \in a .. N - 1 : n \in G => n + 1 \in G
  PROVE  a .. N \subseteq G
<1> SUFFICES ASSUME ~(a .. N \subseteq G) PROVE FALSE
  OBVIOUS
<1> DEFINE T == (a .. N) \ G
<1>1. T # {} /\ T \subseteq Nat
  OBVIOUS
<1>2. PICK n \in T : \A m \in T : n <= m
  BY <1>1, LeastNumber
<1>3. n # a /\ n - 1 \in a .. N - 1
  OBVIOUS
<1>4. n - 1 \in G
  BY <1>2, <1>3
<1> QED BY <1>4, <1>3

\* The values of a function on a finite set are finitely many.
LEMMA FinitelyMany ==
  ASSUME NEW f, IsFiniteSet(DOMAIN f)
  PROVE  IsFiniteSet({f[x] : x \in DOMAIN f})
<1> DEFINE g == [x \in DOMAIN f |-> f[x]]
           T == {f[x] : x \in DOMAIN f}
<1>1. g \in Surjection(DOMAIN f, T)
  BY DEF Surjection
<1> HIDE DEF g, T
<1>2. IsFiniteSet(T)
  BY <1>1, FS_Surjection
<1> QED BY <1>2 DEF T

-----------------------------------------------------------------------------
(* Rectangles and the cells they are made of. *)

\* A cell of a rectangle is a pair of numbers between its sides.
LEMMA CellsAre ==
  ASSUME NEW r \in Rects
  PROVE  /\ \A c \in Cells(r) : \E x, y \in Int : c = <<x, y>>
         /\ \A x, y \in Int : <<x, y>> \in Cells(r)
                                <=> r.x <= x /\ x < r.x + r.w /\ r.y <= y /\ y < r.y + r.h
<1>1. r.x \in Int /\ r.y \in Int /\ r.w \in Int /\ r.h \in Int
  BY DEF Rects
<1>2. \A c \in Cells(r) : \E x, y \in Int : c = <<x, y>>
  BY <1>1 DEF Cells
<1>3. ASSUME NEW x \in Int, NEW y \in Int
      PROVE  <<x, y>> \in Cells(r) <=> r.x <= x /\ x < r.x + r.w /\ r.y <= y /\ y < r.y + r.h
  <2>1. ASSUME <<x, y>> \in Cells(r)
        PROVE  r.x <= x /\ x < r.x + r.w /\ r.y <= y /\ y < r.y + r.h
    <3>1. PICK u \in r.x .. r.x + r.w - 1, v \in r.y .. r.y + r.h - 1 : <<x, y>> = <<u, v>>
      BY <2>1 DEF Cells
    <3> QED BY <3>1, <1>1
  <2>2. ASSUME r.x <= x, x < r.x + r.w, r.y <= y, y < r.y + r.h
        PROVE  <<x, y>> \in Cells(r)
    <3>1. x \in r.x .. r.x + r.w - 1 /\ y \in r.y .. r.y + r.h - 1
      BY <2>2, <1>1
    <3> QED BY <3>1 DEF Cells
  <2> QED BY <2>1, <2>2
<1> QED BY <1>2, <1>3

\* What is left of a rectangle has the cells of the rectangle that are not cut out, none of them
\* in two pieces.
LEMMA SubtractIsExact ==
  ASSUME NEW r \in Rects, NEW cut \in Rects
  PROVE  /\ Subtract(r, cut) \subseteq Rects
         /\ UNION {Cells(s) : s \in Subtract(r, cut)} = Cells(r) \ Cells(cut)
         /\ \A s, t \in Subtract(r, cut) : s # t => Cells(s) \cap Cells(t) = {}
<1>1. /\ r.x \in Int /\ r.y \in Int /\ r.w \in Int /\ r.h \in Int
      /\ cut.x \in Int /\ cut.y \in Int /\ cut.w \in Int /\ cut.h \in Int
  BY DEF Rects
<1> DEFINE left == Most(r.x, cut.x)
           bottom == Most(r.y, cut.y)
           right == Least(r.x + r.w, cut.x + cut.w)
           top == Least(r.y + r.h, cut.y + cut.h)
           West == Rect(r.x, r.y, left - r.x, r.h)
           East == Rect(right, r.y, r.x + r.w - right, r.h)
           South == Rect(left, r.y, right - left, bottom - r.y)
           North == Rect(left, top, right - left, r.y + r.h - top)
<1>2. left \in Int /\ bottom \in Int /\ right \in Int /\ top \in Int
  BY <1>1 DEF Most, Least
<1>3. /\ r.x <= left /\ cut.x <= left /\ (left = r.x \/ left = cut.x)
      /\ r.y <= bottom /\ cut.y <= bottom /\ (bottom = r.y \/ bottom = cut.y)
      /\ right <= r.x + r.w /\ right <= cut.x + cut.w /\ (right = r.x + r.w \/ right = cut.x + cut.w)
      /\ top <= r.y + r.h /\ top <= cut.y + cut.h /\ (top = r.y + r.h \/ top = cut.y + cut.h)
  BY <1>1 DEF Most, Least
<1>4. Subtract(r, cut) = IF left >= right \/ bottom >= top THEN {r}
                         ELSE {s \in {West, East, South, North} : s.w > 0 /\ s.h > 0}
  BY DEF Subtract
<1> HIDE DEF left, bottom, right, top
<1>i. /\ left - r.x \in Int /\ r.x + r.w - right \in Int /\ right - left \in Int
      /\ bottom - r.y \in Int /\ r.y + r.h - top \in Int
  BY <1>1, <1>2
<1>w. West \in Rects /\ West.x = r.x /\ West.y = r.y /\ West.w = left - r.x /\ West.h = r.h
  BY <1>1, <1>2, <1>i DEF Rect, Rects
<1>e. /\ East \in Rects /\ East.x = right /\ East.y = r.y /\ East.w = r.x + r.w - right
      /\ East.h = r.h
  BY <1>1, <1>2, <1>i DEF Rect, Rects
<1>s. /\ South \in Rects /\ South.x = left /\ South.y = r.y /\ South.w = right - left
      /\ South.h = bottom - r.y
  BY <1>1, <1>2, <1>i DEF Rect, Rects
<1>n. /\ North \in Rects /\ North.x = left /\ North.y = top /\ North.w = right - left
      /\ North.h = r.y + r.h - top
  BY <1>1, <1>2, <1>i DEF Rect, Rects
<1> HIDE DEF West, East, South, North
<1>5. /\ West \in Rects /\ West.x = r.x /\ West.y = r.y /\ West.w = left - r.x /\ West.h = r.h
      /\ East \in Rects /\ East.x = right /\ East.y = r.y /\ East.w = r.x + r.w - right /\ East.h = r.h
      /\ South \in Rects /\ South.x = left /\ South.y = r.y /\ South.w = right - left
      /\ South.h = bottom - r.y
      /\ North \in Rects /\ North.x = left /\ North.y = top /\ North.w = right - left
      /\ North.h = r.y + r.h - top
  BY <1>w, <1>e, <1>s, <1>n
<1>6. CASE left >= right \/ bottom >= top
  <2>1. Subtract(r, cut) = {r}
    BY <1>4, <1>6
  <2>2. Cells(r) \cap Cells(cut) = {}
    <3> SUFFICES ASSUME NEW c \in Cells(r), c \in Cells(cut) PROVE FALSE
      OBVIOUS
    <3>1. PICK x, y \in Int : c = <<x, y>>
      BY CellsAre
    <3>2. /\ r.x <= x /\ x < r.x + r.w /\ r.y <= y /\ y < r.y + r.h
          /\ cut.x <= x /\ x < cut.x + cut.w /\ cut.y <= y /\ y < cut.y + cut.h
      BY <3>1, CellsAre
    <3> QED BY <3>2, <1>6, <1>1, <1>2, <1>3
  <2> QED BY <2>1, <2>2
<1>7. CASE ~(left >= right \/ bottom >= top)
  <2> DEFINE parts == {s \in {West, East, South, North} : s.w > 0 /\ s.h > 0}
  <2>1. Subtract(r, cut) = parts /\ parts \subseteq Rects
    BY <1>4, <1>5, <1>7
  <2>2. ASSUME NEW x \in Int, NEW y \in Int
        PROVE  /\ <<x, y>> \in Cells(West) <=> r.x <= x /\ x < left /\ r.y <= y /\ y < r.y + r.h
               /\ <<x, y>> \in Cells(East) <=> right <= x /\ x < r.x + r.w /\ r.y <= y /\ y < r.y + r.h
               /\ <<x, y>> \in Cells(South) <=> left <= x /\ x < right /\ r.y <= y /\ y < bottom
               /\ <<x, y>> \in Cells(North) <=> left <= x /\ x < right /\ top <= y /\ y < r.y + r.h
    <3>1. /\ West.x + West.w = left /\ West.y + West.h = r.y + r.h
          /\ East.x + East.w = r.x + r.w /\ East.y + East.h = r.y + r.h
          /\ South.x + South.w = right /\ South.y + South.h = bottom
          /\ North.x + North.w = right /\ North.y + North.h = r.y + r.h
      BY <1>5, <1>1, <1>2
    <3> QED BY <3>1, <1>5, CellsAre
  <2>3. ASSUME NEW s \in {West, East, South, North}, NEW c \in Cells(s)
        PROVE  s \in parts
    <3>1. PICK x, y \in Int : c = <<x, y>>
      BY CellsAre, <1>5
    <3>2. s.w \in Int /\ s.h \in Int /\ s.x <= x /\ x < s.x + s.w /\ s.y <= y /\ y < s.y + s.h
      BY <3>1, CellsAre, <1>5 DEF Rects
    <3>3. s.x \in Int /\ s.y \in Int
      BY <1>5 DEF Rects
    <3> QED BY <3>2, <3>3
  <2>4. UNION {Cells(s) : s \in parts} = Cells(r) \ Cells(cut)
    <3>1. ASSUME NEW s \in parts, NEW c \in Cells(s)
          PROVE  c \in Cells(r) \ Cells(cut)
      <4>1. s \in {West, East, South, North}
        OBVIOUS
      <4>2. PICK x, y \in Int : c = <<x, y>>
        BY <4>1, CellsAre, <1>5
      <4>3. \/ r.x <= x /\ x < left /\ r.y <= y /\ y < r.y + r.h
            \/ right <= x /\ x < r.x + r.w /\ r.y <= y /\ y < r.y + r.h
            \/ left <= x /\ x < right /\ r.y <= y /\ y < bottom
            \/ left <= x /\ x < right /\ top <= y /\ y < r.y + r.h
        BY <4>1, <4>2, <2>2
      <4>4. /\ r.x <= x /\ x < r.x + r.w /\ r.y <= y /\ y < r.y + r.h
            /\ ~(cut.x <= x /\ x < cut.x + cut.w /\ cut.y <= y /\ y < cut.y + cut.h)
        BY <4>3, <1>1, <1>2, <1>3, <1>7
      <4> QED BY <4>4, <4>2, CellsAre
    <3>2. ASSUME NEW c \in Cells(r) \ Cells(cut)
          PROVE  \E s \in parts : c \in Cells(s)
      <4>1. PICK x, y \in Int : c = <<x, y>>
        BY CellsAre
      <4>2. /\ r.x <= x /\ x < r.x + r.w /\ r.y <= y /\ y < r.y + r.h
            /\ ~(cut.x <= x /\ x < cut.x + cut.w /\ cut.y <= y /\ y < cut.y + cut.h)
        BY <4>1, CellsAre
      <4>3. \/ r.x <= x /\ x < left /\ r.y <= y /\ y < r.y + r.h
            \/ right <= x /\ x < r.x + r.w /\ r.y <= y /\ y < r.y + r.h
            \/ left <= x /\ x < right /\ r.y <= y /\ y < bottom
            \/ left <= x /\ x < right /\ top <= y /\ y < r.y + r.h
        BY <4>2, <1>1, <1>2, <1>3, <1>7
      <4>4. \E s \in {West, East, South, North} : c \in Cells(s)
        BY <4>1, <4>3, <2>2
      <4> QED BY <4>4, <2>3
    <3> QED BY <3>1, <3>2
  <2>5. ASSUME NEW s \in parts, NEW t \in parts, s # t
        PROVE  Cells(s) \cap Cells(t) = {}
    <3> SUFFICES ASSUME NEW c \in Cells(s), c \in Cells(t) PROVE FALSE
      OBVIOUS
    <3>1. s \in {West, East, South, North} /\ t \in {West, East, South, North}
      OBVIOUS
    <3>2. PICK x, y \in Int : c = <<x, y>>
      BY <3>1, CellsAre, <1>5
    <3> DEFINE isWest == r.x <= x /\ x < left
               isEast == right <= x /\ x < r.x + r.w
               isSouth == left <= x /\ x < right /\ y < bottom
               isNorth == left <= x /\ x < right /\ top <= y
    <3>3. /\ c \in Cells(West) => isWest
          /\ c \in Cells(East) => isEast
          /\ c \in Cells(South) => isSouth
          /\ c \in Cells(North) => isNorth
      BY <3>2, <2>2
    <3>4. /\ ~(isWest /\ isEast) /\ ~(isWest /\ isSouth) /\ ~(isWest /\ isNorth)
          /\ ~(isEast /\ isSouth) /\ ~(isEast /\ isNorth) /\ ~(isSouth /\ isNorth)
      BY <1>1, <1>2, <1>3, <1>7
    <3> HIDE DEF isWest, isEast, isSouth, isNorth
    <3> QED BY <3>1, <3>3, <3>4, <2>5
  <2> HIDE DEF parts
  <2> QED BY <2>1, <2>4, <2>5
<1> QED BY <1>6, <1>7

-----------------------------------------------------------------------------
(* The regions of a board. *)

\* Growing and clipping a rectangle gives rectangles.
LEMMA ClippedIsRect ==
  ASSUME NEW r \in Rects, NEW d \in Int, NEW clip \in Rects
  PROVE  ExpandedClipped(r, d, clip) \subseteq Rects
<1> DEFINE left == Most(clip.x, r.x - d)
           bottom == Most(clip.y, r.y - d)
           right == Least(clip.x + clip.w, r.x + r.w + d)
           top == Least(clip.y + clip.h, r.y + r.h + d)
<1>1. /\ r.x \in Int /\ r.y \in Int /\ r.w \in Int /\ r.h \in Int
      /\ clip.x \in Int /\ clip.y \in Int /\ clip.w \in Int /\ clip.h \in Int
  BY DEF Rects
<1>2. left \in Int /\ bottom \in Int /\ right \in Int /\ top \in Int
  BY <1>1 DEF Most, Least
<1>3. ExpandedClipped(r, d, clip) \subseteq {Rect(left, bottom, right - left, top - bottom)}
  BY DEF ExpandedClipped
<1> HIDE DEF left, bottom, right, top
<1>4. right - left \in Int /\ top - bottom \in Int
  BY <1>2
<1>5. Rect(left, bottom, right - left, top - bottom) \in Rects
  BY <1>2, <1>4 DEF Rect, Rects
<1> QED BY <1>3, <1>5

\* The bounds of a segment, of a point and of a pad are rectangles.
LEMMA BoundsAreRects ==
  /\ \A a, c \in Points, d \in Int : SegmentBounds(a, c, d) \in Rects
  /\ \A a \in Points, d \in Int : PointBounds(a, d) \in Rects
  /\ \A p : IsPad(p) => PadBounds(p) \in Rects
<1>1. ASSUME NEW a \in Points, NEW c \in Points, NEW d \in Int
      PROVE  SegmentBounds(a, c, d) \in Rects
  <2>1. a.x \in Int /\ a.y \in Int /\ c.x \in Int /\ c.y \in Int
    BY DEF Points
  <2>2. /\ Least(a.x, c.x) \in Int /\ Least(a.y, c.y) \in Int
        /\ Most(a.x, c.x) \in Int /\ Most(a.y, c.y) \in Int
    BY <2>1 DEF Least, Most
  <2>3. /\ Least(a.x, c.x) - d \in Int /\ Most(a.x, c.x) - (Least(a.x, c.x) - d) + d \in Int
        /\ Least(a.y, c.y) - d \in Int /\ Most(a.y, c.y) - (Least(a.y, c.y) - d) + d \in Int
    BY <2>2
  <2> QED BY <2>3 DEF SegmentBounds, Rect, Rects
<1>2. ASSUME NEW a \in Points, NEW d \in Int
      PROVE  PointBounds(a, d) \in Rects
  <2>1. a.x - d \in Int /\ a.y - d \in Int /\ Most(1, 2 * d) \in Int
    BY DEF Points, Most
  <2> QED BY <2>1 DEF PointBounds, Rect, Rects
<1>3. ASSUME NEW p, IsPad(p)
      PROVE  PadBounds(p) \in Rects
  <2>1. p.pos.x \in Int /\ p.pos.y \in Int /\ p.sx \in Int /\ p.sy \in Int
    BY <1>3 DEF IsPad, Points
  <2>2. p.pos.x - p.sx \div 2 \in Int /\ p.pos.y - p.sy \div 2 \in Int
    BY <2>1
  <2> QED BY <2>1, <2>2 DEF PadBounds, Rect, Rects
<1> QED BY <1>1, <1>2, <1>3

\* The board without its edge is one rectangle or none.
LEMMA BoardRectIsRect ==
  ASSUME NEW b, IsBoard(b)
  PROVE  /\ BoardRect(b) \subseteq Rects /\ \A r, s \in BoardRect(b) : r = s
         /\ \A r \in BoardRect(b) : r.w > 0 /\ r.h > 0
<1>1. /\ b.outline.x \in Int /\ b.outline.y \in Int /\ b.outline.w \in Int /\ b.outline.h \in Int
      /\ CopperEdge \in Int
  BY EdgeAssumption DEF IsBoard, Rects
<1>2. /\ b.outline.x + CopperEdge \in Int /\ b.outline.y + CopperEdge \in Int
      /\ b.outline.w - 2 * CopperEdge \in Int /\ b.outline.h - 2 * CopperEdge \in Int
  BY <1>1
<1>3. Rect(b.outline.x + CopperEdge, b.outline.y + CopperEdge,
           b.outline.w - 2 * CopperEdge, b.outline.h - 2 * CopperEdge) \in Rects
  BY <1>2 DEF Rect, Rects
<1>4. \A r \in BoardRect(b) : r.w > 0 /\ r.h > 0
  BY <1>2 DEF BoardRect, Rect
<1> QED BY <1>3, <1>4 DEF BoardRect

\* Every net a board uses has a clearance.
LEMMA ClearancesAreNumbers ==
  ASSUME NEW b, IsBoard(b), ReferencesResolve(b)
  PROVE  /\ GND \in DOMAIN b.class => GroundClearance(b) \in Nat
         /\ \A o \in b.pads \cup b.routes \cup b.vias \cup b.zones : NetClearance(b, o.net) \in Nat
<1>1. \A n \in DOMAIN b.class : Clearance[b.class[n]] \in Nat
  BY ClearanceAssumption DEF IsBoard
<1>2. \A o \in b.pads \cup b.routes \cup b.vias \cup b.zones : o.net \in DOMAIN b.class \/ o.net = NoNet
  BY DEF ReferencesResolve
<1> QED BY <1>1, <1>2 DEF GroundClearance, NetClearance

\* What the ground pour stays out of are rectangles.
LEMMA RegionsAreRects ==
  ASSUME NEW b, NEW layer, IsBoard(b), ReferencesResolve(b), GND \in DOMAIN b.class
  PROVE  ExcludedRegions(b, layer) \subseteq Rects
<1> DEFINE ground == GroundClearance(b)
           clip(r, d) == UNION {ExpandedClipped(r, d, all) : all \in BoardRect(b)}
           need(o) == ground + NetClearance(b, o.net) + 1
           K == {clip(k.bounds, ground + 1) : k \in {k \in {o \in b.keepouts : layer \in o.layers} :
                  "copper_zone" \in k.prohibited \/ k.kind \in SensitiveKinds}}
           P == {clip(PadBounds(p), need(p)) :
                  p \in {o \in {o \in b.pads : layer \in o.layers} : o.net # GND}}
           R == {clip(SegmentBounds(r.start, r.end, r.width \div 2), need(r)) :
                  r \in {o \in {o \in b.routes : layer \in o.layers} : o.net # GND}}
           V == {clip(PointBounds(v.pos, v.diameter \div 2), need(v)) :
                  v \in {o \in {o \in b.vias : layer \in o.layers} : o.net # GND}}
           Z == {clip(z.bounds, ground + z.clearance + 1) :
                  z \in {o \in {o \in b.zones : layer \in o.layers} : o.net # GND}}
           G == {clip(z.bounds, 0) :
                  z \in {z \in {o \in b.zones : layer \in o.layers} : z.net = GND}}
<1>1. ExcludedRegions(b, layer) = UNION (K \cup P \cup R \cup V \cup Z \cup G)
  BY DEF ExcludedRegions
<1>2. ASSUME NEW r \in Rects, NEW d \in Int
      PROVE  clip(r, d) \subseteq Rects
  BY ClippedIsRect, BoardRectIsRect
<1>3. /\ ground \in Nat
      /\ \A o \in b.pads \cup b.routes \cup b.vias : need(o) \in Int
  BY ClearancesAreNumbers
<1> HIDE DEF clip, ground, need
<1>4. \A S \in K : S \subseteq Rects
  <2>1. \A k \in b.keepouts : k.bounds \in Rects
    BY DEF IsBoard, IsKeepout
  <2> QED BY <1>2, <1>3, <2>1
<1>5. \A S \in P : S \subseteq Rects
  <2>1. \A p \in b.pads : PadBounds(p) \in Rects
    BY BoundsAreRects DEF IsBoard
  <2> QED BY <1>2, <1>3, <2>1
<1>6. \A S \in R : S \subseteq Rects
  <2>1. \A r \in b.routes : r.start \in Points /\ r.end \in Points /\ r.width \div 2 \in Int
    BY DEF IsBoard, IsRoute
  <2>2. \A r \in b.routes : SegmentBounds(r.start, r.end, r.width \div 2) \in Rects
    BY <2>1, BoundsAreRects
  <2> QED BY <1>2, <1>3, <2>2
<1>7. \A S \in V : S \subseteq Rects
  <2>1. \A v \in b.vias : v.pos \in Points /\ v.diameter \div 2 \in Int
    BY DEF IsBoard, IsVia
  <2>2. \A v \in b.vias : PointBounds(v.pos, v.diameter \div 2) \in Rects
    BY <2>1, BoundsAreRects
  <2> QED BY <1>2, <1>3, <2>2
<1>8. \A S \in Z : S \subseteq Rects
  <2>1. \A z \in b.zones : z.bounds \in Rects /\ ground + z.clearance + 1 \in Int
    BY <1>3 DEF IsBoard, IsZone
  <2> QED BY <1>2, <2>1
<1>9. \A S \in G : S \subseteq Rects
  <2>1. \A z \in b.zones : z.bounds \in Rects
    BY DEF IsBoard, IsZone
  <2> QED BY <1>2, <2>1
<1> HIDE DEF K, P, R, V, Z, G
<1> QED BY <1>1, <1>4, <1>5, <1>6, <1>7, <1>8, <1>9

-----------------------------------------------------------------------------
(* The operations keep a board a board. *)

\* Placing footprints moves them and their pads.
LEMMA PlacedIsBoard ==
  ASSUME NEW b, NEW pos, IsBoard(b), ReferencesResolve(b), \A i \in DOMAIN pos : pos[i] \in Points
  PROVE  IsBoard(Placed(b, pos))
<1> DEFINE origin(p) == (CHOOSE f \in b.footprints : f.id = p.fp).pos
           moved(p) == Point(p.pos.x + pos[p.fp].x - origin(p).x, p.pos.y + pos[p.fp].y - origin(p).y)
           foot == [f \in b.footprints |-> IF f.id \in DOMAIN pos THEN [f EXCEPT !.pos = pos[f.id]] ELSE f]
           pad == [p \in b.pads |-> IF p.fp \in DOMAIN pos THEN [p EXCEPT !.pos = moved(p)] ELSE p]
           F == {foot[f] : f \in b.footprints}
           P == {pad[p] : p \in b.pads}
<1>1. Placed(b, pos) = [b EXCEPT !.footprints = F, !.pads = P]
  BY DEF Placed
<1>2. \A p \in b.pads : p.fp \in DOMAIN pos => moved(p) \in Points
  <2> SUFFICES ASSUME NEW p \in b.pads, p.fp \in DOMAIN pos PROVE moved(p) \in Points
    OBVIOUS
  <2>1. \E f \in b.footprints : f.id = p.fp
    BY DEF ReferencesResolve
  <2>2. origin(p) \in Points
    BY <2>1 DEF IsBoard, IsFootprint
  <2>3. p.pos \in Points /\ pos[p.fp] \in Points
    BY DEF IsBoard, IsPad
  <2> HIDE DEF origin
  <2> QED BY <2>2, <2>3 DEF Points, Point
<1> HIDE DEF moved
<1>3. ASSUME NEW f \in b.footprints PROVE IsFootprint(foot[f])
  <2>1. IsFootprint(f)
    BY DEF IsBoard
  <2>2. CASE f.id \in DOMAIN pos
    <3>1. foot[f] = [f EXCEPT !.pos = pos[f.id]] /\ pos[f.id] \in Points
      BY <2>2
    <3> QED BY <3>1, <2>1 DEF IsFootprint
  <2> QED BY <2>1, <2>2
<1>4. ASSUME NEW p \in b.pads PROVE IsPad(pad[p])
  <2>1. IsPad(p)
    BY DEF IsBoard
  <2>2. CASE p.fp \in DOMAIN pos
    <3>1. pad[p] = [p EXCEPT !.pos = moved(p)] /\ moved(p) \in Points
      BY <2>2, <1>2
    <3> QED BY <3>1, <2>1 DEF IsPad
  <2> QED BY <2>1, <2>2
<1>5. IsFiniteSet(F) /\ IsFiniteSet(P)
  <2>1. DOMAIN foot = b.footprints /\ DOMAIN pad = b.pads
    OBVIOUS
  <2>2. IsFiniteSet(b.footprints) /\ IsFiniteSet(b.pads)
    BY DEF IsBoard
  <2> HIDE DEF foot, pad
  <2> QED BY <2>1, <2>2, FinitelyMany
<1>6. /\ \A f \in F : IsFootprint(f)
      /\ \A p \in P : IsPad(p)
  BY <1>3, <1>4
<1> HIDE DEF F, P
<1> QED BY <1>1, <1>5, <1>6 DEF IsBoard

\* So does every operation.
LEMMA AppliedIsBoard ==
  ASSUME NEW b, NEW op, IsBoard(b), ReferencesResolve(b), IsOp(op)
  PROVE  IsBoard(Applied(b, op))
<1>1. CASE op.type = "place"
  <2>1. Applied(b, op) = Placed(b, op.pos) /\ \A i \in DOMAIN op.pos : op.pos[i] \in Points
    BY <1>1 DEF Applied, IsOp
  <2> QED BY <2>1, PlacedIsBoard
<1>2. CASE op.type = "route"
  <2> DEFINE R == {r \in b.routes : r.id \notin op.removed} \cup op.segments
             V == b.vias \cup op.vias
  <2>1. Applied(b, op) = [b EXCEPT !.routes = R, !.vias = V]
    BY <1>2 DEF Applied
  <2>2. (\A r \in R : IsRoute(r)) /\ \A v \in V : IsVia(v)
    BY <1>2 DEF IsOp, IsBoard
  <2>3. IsFiniteSet(R) /\ IsFiniteSet(V)
    <3>1. /\ IsFiniteSet(b.routes) /\ IsFiniteSet(op.segments)
          /\ IsFiniteSet(b.vias) /\ IsFiniteSet(op.vias)
      BY <1>2 DEF IsOp, IsBoard
    <3>2. IsFiniteSet({r \in b.routes : r.id \notin op.removed})
      BY <3>1, FS_Subset
    <3> QED BY <3>1, <3>2, FS_Union
  <2> HIDE DEF R, V
  <2> QED BY <2>1, <2>2, <2>3 DEF IsBoard
<1>3. CASE op.type = "zones"
  <2> DEFINE Z == b.zones \cup op.zones
             pad == [p \in b.pads |-> IF p.id \in op.thermal THEN [p EXCEPT !.thermal = TRUE] ELSE p]
             P == {pad[p] : p \in b.pads}
  <2>1. Applied(b, op) = [b EXCEPT !.zones = Z, !.pads = P]
    BY <1>3 DEF Applied
  <2>2. \A z \in Z : IsZone(z)
    BY <1>3 DEF IsOp, IsBoard
  <2>3. IsFiniteSet(P)
    <3>1. DOMAIN pad = b.pads /\ IsFiniteSet(b.pads)
      BY DEF IsBoard
    <3> HIDE DEF pad
    <3> QED BY <3>1, FinitelyMany
  <2>4. \A p \in b.pads : IsPad(pad[p])
    BY DEF IsBoard, IsPad
  <2>5. \A p \in P : IsPad(p)
    BY <2>4
  <2>6. IsFiniteSet(Z)
    BY <1>3, FS_Union DEF IsOp, IsBoard
  <2> HIDE DEF Z, P
  <2> QED BY <2>1, <2>2, <2>3, <2>5, <2>6 DEF IsBoard
<1>4. CASE op.type = "stitch"
  <2> DEFINE V == b.vias \cup op.vias
  <2>1. Applied(b, op) = [b EXCEPT !.vias = V]
    BY <1>4 DEF Applied
  <2>2. \A v \in V : IsVia(v)
    BY <1>4 DEF IsOp, IsBoard
  <2>3. IsFiniteSet(V)
    BY <1>4, FS_Union DEF IsOp, IsBoard
  <2> HIDE DEF V
  <2> QED BY <2>1, <2>2, <2>3 DEF IsBoard
<1>5. CASE op.type \notin {"place", "route", "zones", "stitch"}
  BY <1>5 DEF Applied
<1> QED BY <1>1, <1>2, <1>3, <1>4, <1>5

IsProposal(ops) ==
  Len(ops) \in Nat /\ DOMAIN ops = 1 .. Len(ops) /\ \A i \in DOMAIN ops : IsOp(ops[i])

IsCopies(b, ops, copy, n) ==
  copy = [m \in 0 .. n |-> IF m = 0 THEN Begun(b) ELSE Stepped(copy[m - 1], ops[m])]

\* There are working copies after any number of operations.
LEMMA CopiesExist ==
  ASSUME NEW b, NEW ops, NEW N \in Nat
  PROVE  \E copy : IsCopies(b, ops, copy, N)
<1> DEFINE G == {n \in Nat : \E copy : IsCopies(b, ops, copy, n)}
<1>1. 0 \in G
  <2> DEFINE copy == [m \in 0 .. 0 |-> Begun(b)]
  <2>1. \A m \in 0 .. 0 : m = 0
    OBVIOUS
  <2>2. IsCopies(b, ops, copy, 0)
    BY <2>1 DEF IsCopies
  <2> QED BY <2>2
<1>2. ASSUME NEW n \in 0 .. N - 1, n \in G
      PROVE  n + 1 \in G
  <2>1. PICK old : IsCopies(b, ops, old, n)
    BY <1>2
  <2> DEFINE copy == [m \in 0 .. n + 1 |-> IF m = n + 1 THEN Stepped(old[n], ops[n + 1]) ELSE old[m]]
  <2>2. \A m \in 0 .. n : copy[m] = old[m]
    OBVIOUS
  <2>3. \A m \in 0 .. n + 1 :
          copy[m] = IF m = 0 THEN Begun(b) ELSE Stepped(copy[m - 1], ops[m])
    <3> TAKE m \in 0 .. n + 1
    <3>1. CASE m = n + 1
      BY <3>1, <2>2
    <3>2. CASE m # n + 1
      <4>1. m \in 0 .. n /\ copy[m] = old[m] /\ (m # 0 => copy[m - 1] = old[m - 1])
        BY <3>2, <2>2
      <4>2. old[m] = IF m = 0 THEN Begun(b) ELSE Stepped(old[m - 1], ops[m])
        BY <4>1, <2>1 DEF IsCopies
      <4> HIDE DEF copy
      <4> QED BY <4>1, <4>2
    <3> QED BY <3>1, <3>2
  <2>4. copy = [m \in 0 .. n + 1 |-> copy[m]]
    OBVIOUS
  <2> HIDE DEF copy
  <2>5. IsCopies(b, ops, copy, n + 1)
    BY <2>3, <2>4 DEF IsCopies
  <2> QED BY <2>5
<1> HIDE DEF G
<1>3. 0 .. N \subseteq G
  BY <1>1, <1>2, FromOn
<1> QED BY <1>3 DEF G

\* Unless an operation raised an error, what they come to is a board that loads.
LEMMA ApplyingIsBoard ==
  ASSUME NEW b, NEW ops, IsBoard(b), Loadable(b), IsProposal(ops), ~Applying(b, ops).raised
  PROVE  IsBoard(Applying(b, ops).board) /\ Loadable(Applying(b, ops).board)
<1> DEFINE copy == CHOOSE copy : IsCopies(b, ops, copy, Len(ops))
           G == {n \in Nat : ~copy[n].raised => IsBoard(copy[n].board) /\ Loadable(copy[n].board)}
<1>1. IsCopies(b, ops, copy, Len(ops))
  BY CopiesExist DEF IsProposal
<1>2. Applying(b, ops) = copy[Len(ops)]
  BY DEF Applying, IsCopies
<1> HIDE DEF copy
<1>3. \A m \in 0 .. Len(ops) : copy[m] = IF m = 0 THEN Begun(b) ELSE Stepped(copy[m - 1], ops[m])
  BY <1>1 DEF IsCopies
<1>4. Len(ops) \in Nat
  BY DEF IsProposal
<1>5. 0 \in G
  <2>1. copy[0] = Begun(b)
    BY <1>3, <1>4
  <2> QED BY <2>1 DEF Begun
<1>6. ASSUME NEW n \in 0 .. Len(ops) - 1, n \in G
      PROVE  n + 1 \in G
  <2> SUFFICES ASSUME ~copy[n + 1].raised
               PROVE  IsBoard(copy[n + 1].board) /\ Loadable(copy[n + 1].board)
    OBVIOUS
  <2>1. copy[n + 1] = Stepped(copy[n], ops[n + 1])
    <3>1. n + 1 \in 0 .. Len(ops) /\ n + 1 # 0 /\ (n + 1) - 1 = n
      BY <1>4
    <3> QED BY <3>1, <1>3
  <2>2. ~copy[n].raised /\ Loadable(copy[n + 1].board)
        /\ copy[n + 1].board = Applied(copy[n].board, ops[n + 1])
    <3> DEFINE next == Applied(copy[n].board, ops[n + 1])
               raised == copy[n].raised \/ Refused(copy[n].board, ops[n + 1]) \/ ~Loadable(next)
               announced == copy[n].announced \cup Announced(copy[n].board, ops[n + 1])
    <3>1. copy[n + 1] = [board |-> next, raised |-> raised, announced |-> announced]
      BY <2>1 DEF Stepped
    <3> HIDE DEF next, raised, announced
    <3>2. copy[n + 1].board = next /\ copy[n + 1].raised = raised
      BY <3>1
    <3>3. ~raised
      BY <3>2
    <3> QED BY <3>2, <3>3 DEF next, raised
  <2>3. IsBoard(copy[n].board) /\ Loadable(copy[n].board)
    BY <2>2, <1>6
  <2>4. IsOp(ops[n + 1])
    BY <1>4 DEF IsProposal
  <2> QED BY <2>2, <2>3, <2>4, AppliedIsBoard DEF Loadable
<1> HIDE DEF G
<1>7. 0 .. Len(ops) \subseteq G
  BY <1>4, <1>5, <1>6, FromOn
<1>8. Len(ops) \in G
  BY <1>4, <1>7
<1> QED BY <1>2, <1>8 DEF G

-----------------------------------------------------------------------------
(* The score of a placement is a number. *)

Pick(s) == CHOOSE x \in s : TRUE

\* The subsets of S with at most n members, and the sums over them.
Upto(S, n) == {s \in SUBSET S : Cardinality(s) <= n}

IsSums(f, sum, n) ==
  sum = [s \in Upto(DOMAIN f, n) |-> IF s = {} THEN 0 ELSE f[Pick(s)] + sum[s \ {Pick(s)}]]

\* Taking a member out of a finite set leaves one member less.
LEMMA OneLess ==
  ASSUME NEW S, IsFiniteSet(S), NEW s \in SUBSET S, s # {}
  PROVE  /\ Pick(s) \in s /\ s \ {Pick(s)} \in SUBSET S
         /\ Cardinality(s) \in Nat /\ Cardinality(s \ {Pick(s)}) = Cardinality(s) - 1
<1>1. IsFiniteSet(s)
  BY FS_Subset
<1>2. Pick(s) \in s
  BY DEF Pick
<1> QED BY <1>1, <1>2, FS_RemoveElement, FS_CardinalityType

\* The sums over all subsets of a finite domain exist.
LEMMA SumsExist ==
  ASSUME NEW f, IsFiniteSet(DOMAIN f), NEW N \in Nat
  PROVE  \E sum : IsSums(f, sum, N)
<1> DEFINE G == {n \in Nat : \E sum : IsSums(f, sum, n)}
<1>c. \A s \in SUBSET DOMAIN f : Cardinality(s) \in Nat /\ (Cardinality(s) = 0 => s = {})
  BY FS_Subset, FS_CardinalityType, FS_EmptySet
<1>1. 0 \in G
  <2> DEFINE sum == [s \in Upto(DOMAIN f, 0) |-> 0]
  <2>1. \A s \in Upto(DOMAIN f, 0) : s = {}
    BY <1>c DEF Upto
  <2>2. IsSums(f, sum, 0)
    BY <2>1 DEF IsSums
  <2> QED BY <2>2
<1>2. ASSUME NEW n \in 0 .. N - 1, n \in G
      PROVE  n + 1 \in G
  <2>1. PICK old : IsSums(f, old, n)
    BY <1>2
  <2> DEFINE sum == [s \in Upto(DOMAIN f, n + 1) |->
                       IF s \in Upto(DOMAIN f, n) THEN old[s] ELSE f[Pick(s)] + old[s \ {Pick(s)}]]
  <2>2. \A s \in Upto(DOMAIN f, n) : s \in Upto(DOMAIN f, n + 1) /\ sum[s] = old[s]
    BY <1>c DEF Upto
  <2>3. \A s \in Upto(DOMAIN f, n + 1) : s # {} => s \ {Pick(s)} \in Upto(DOMAIN f, n)
    BY OneLess DEF Upto
  <2>4. \A s \in Upto(DOMAIN f, n) :
          old[s] = IF s = {} THEN 0 ELSE f[Pick(s)] + old[s \ {Pick(s)}]
    BY <2>1 DEF IsSums
  <2>5. \A s \in Upto(DOMAIN f, n + 1) :
          sum[s] = IF s = {} THEN 0 ELSE f[Pick(s)] + sum[s \ {Pick(s)}]
    <3> TAKE s \in Upto(DOMAIN f, n + 1)
    <3>1. CASE s \in Upto(DOMAIN f, n)
      <4>1. sum[s] = old[s] /\ (s # {} => sum[s \ {Pick(s)}] = old[s \ {Pick(s)}])
        BY <3>1, <2>2, <2>3
      <4> HIDE DEF sum
      <4> QED BY <4>1, <2>4, <3>1
    <3>2. CASE s \notin Upto(DOMAIN f, n)
      <4>1. s # {}
        <5>1. {} \in Upto(DOMAIN f, n)
          BY FS_EmptySet DEF Upto
        <5> QED BY <5>1, <3>2
      <4>2. sum[s] = f[Pick(s)] + old[s \ {Pick(s)}]
        BY <3>2
      <4>3. sum[s \ {Pick(s)}] = old[s \ {Pick(s)}]
        BY <4>1, <2>2, <2>3
      <4> HIDE DEF sum
      <4> QED BY <4>1, <4>2, <4>3
    <3> QED BY <3>1, <3>2
  <2>6. sum = [s \in Upto(DOMAIN f, n + 1) |-> sum[s]]
    OBVIOUS
  <2> HIDE DEF sum
  <2>7. IsSums(f, sum, n + 1)
    BY <2>5, <2>6 DEF IsSums
  <2> QED BY <2>7
<1> HIDE DEF G
<1>3. 0 .. N \subseteq G
  BY <1>1, <1>2, FromOn
<1> QED BY <1>3 DEF G

\* A sum of finitely many numbers is a number.
LEMMA SumIsNumber ==
  ASSUME NEW f, IsFiniteSet(DOMAIN f), \A x \in DOMAIN f : f[x] \in Int
  PROVE  SumFunction(f) \in Int
<1> DEFINE N == Cardinality(DOMAIN f)
           sum == CHOOSE sum : IsSums(f, sum, N)
           G == {n \in Nat : \A s \in Upto(DOMAIN f, n) : sum[s] \in Int}
<1>1. N \in Nat
  BY FS_CardinalityType
<1>2. Upto(DOMAIN f, N) = SUBSET DOMAIN f
  BY FS_Subset DEF Upto
<1>3. IsSums(f, sum, N)
  BY <1>1, SumsExist
<1>4. SumFunction(f) = sum[DOMAIN f]
  <2> DEFINE IsIter(iter) ==
               iter = [s \in SUBSET DOMAIN f |-> IF s = {} THEN 0
                         ELSE f[CHOOSE x \in s : TRUE] + iter[s \ {CHOOSE x \in s : TRUE}]]
  <2>1. SumFunction(f) = (CHOOSE iter : IsIter(iter))[DOMAIN f]
    BY DEF SumFunction, SumFunctionOnSet, FoldFunctionOnSet, MapThenFoldSet
  <2>2. \A iter : IsIter(iter) <=> IsSums(f, iter, N)
    BY <1>2 DEF IsSums, Pick
  <2> HIDE DEF IsIter, N
  <2>3. (CHOOSE iter : IsIter(iter)) = (CHOOSE iter : IsSums(f, iter, N))
    BY <2>2
  <2> QED BY <2>1, <2>3
<1> HIDE DEF sum
<1>5. \A s \in SUBSET DOMAIN f : sum[s] = IF s = {} THEN 0 ELSE f[Pick(s)] + sum[s \ {Pick(s)}]
  BY <1>2, <1>3 DEF IsSums
<1>6. 0 \in G
  <2>1. \A s \in Upto(DOMAIN f, 0) : s = {}
    BY FS_Subset, FS_CardinalityType, FS_EmptySet DEF Upto
  <2>2. sum[{}] = 0
    BY <1>5
  <2> QED BY <2>1, <2>2
<1>7. ASSUME NEW n \in 0 .. N - 1, n \in G
      PROVE  n + 1 \in G
  <2>n. n + 1 \in Nat
    BY <1>1
  <2>e. sum[{}] = 0
    BY <1>5
  <2> SUFFICES ASSUME NEW s \in Upto(DOMAIN f, n + 1) PROVE sum[s] \in Int
    BY <2>n
  <2> SUFFICES ASSUME s # {} PROVE sum[s] \in Int
    BY <2>e
  <2>1. s \in SUBSET DOMAIN f /\ Cardinality(s) <= n + 1
    BY DEF Upto
  <2>2. s \ {Pick(s)} \in Upto(DOMAIN f, n) /\ Pick(s) \in DOMAIN f
    BY <2>1, <1>1, OneLess DEF Upto
  <2> QED BY <1>5, <1>7, <2>1, <2>2
<1> HIDE DEF G, N
<1>8. 0 .. N \subseteq G
  BY <1>1, <1>6, <1>7, FromOn
<1>9. DOMAIN f \in Upto(DOMAIN f, N) /\ N \in G
  BY <1>1, <1>2, <1>8
<1> QED BY <1>4, <1>9 DEF G

\* A finite set of numbers that is not empty has a greatest and a least.
LEMMA ExtremesExist ==
  ASSUME NEW T, T \subseteq Int, IsFiniteSet(T), T # {}
  PROVE  Max(T) \in T /\ Min(T) \in T
<1> DEFINE Bounded(S) == (\E x \in S : \A y \in S : x >= y) /\ \E x \in S : \A y \in S : x <= y
           G == {n \in Nat : \A S \in SUBSET T : S # {} /\ Cardinality(S) <= n => Bounded(S)}
           N == Cardinality(T)
<1>c. \A S \in SUBSET T : /\ IsFiniteSet(S) /\ Cardinality(S) \in Nat
                          /\ (Cardinality(S) = 0 => S = {})
  BY FS_Subset, FS_CardinalityType, FS_EmptySet
<1>1. 0 \in G
  <2>1. \A S \in SUBSET T : Cardinality(S) <= 0 => S = {}
    BY <1>c
  <2> HIDE DEF Bounded
  <2> QED BY <2>1
<1>2. N \in Nat
  BY FS_CardinalityType
<1>3. ASSUME NEW n \in 0 .. N - 1, n \in G
      PROVE  n + 1 \in G
  <2> SUFFICES ASSUME NEW S \in SUBSET T, S # {}, Cardinality(S) <= n + 1
               PROVE  Bounded(S)
    BY <1>2
  <2> DEFINE p == Pick(S)
             R == S \ {p}
  <2>1. p \in S /\ p \in Int /\ R \in SUBSET T /\ Cardinality(R) <= n
    <3>1. p \in S /\ Cardinality(R) = Cardinality(S) - 1 /\ Cardinality(S) \in Nat
      BY OneLess
    <3>2. n \in Int
      BY <1>2
    <3> HIDE DEF p
    <3> QED BY <3>1, <3>2
  <2>2. \A x \in S : x = p \/ x \in R
    OBVIOUS
  <2> HIDE DEF R, p
  <2>3. CASE R = {}
    <3>1. \A y \in S : y = p
      BY <2>2, <2>3
    <3> QED BY <3>1, <2>1
  <2>4. CASE R # {}
    <3>1. Bounded(R)
      BY <1>3, <2>1, <2>4
    <3>2. PICK u \in R : \A y \in R : u >= y
      BY <3>1
    <3>3. PICK v \in R : \A y \in R : v <= y
      BY <3>1
    <3>4. u \in Int /\ v \in Int /\ R \subseteq S /\ R \subseteq Int
      BY <2>1 DEF R
    <3>5. \E x \in S : \A y \in S : x >= y
      <4>1. CASE u >= p
        BY <4>1, <3>2, <3>4, <2>2
      <4>2. CASE ~(u >= p)
        <5>1. \A y \in R : p >= y
          BY <4>2, <3>2, <3>4, <2>1
        <5> QED BY <5>1, <2>1, <2>2
      <4> QED BY <4>1, <4>2
    <3>6. \E x \in S : \A y \in S : x <= y
      <4>1. CASE v <= p
        BY <4>1, <3>3, <3>4, <2>2
      <4>2. CASE ~(v <= p)
        <5>1. \A y \in R : p <= y
          BY <4>2, <3>3, <3>4, <2>1
        <5> QED BY <5>1, <2>1, <2>2
      <4> QED BY <4>1, <4>2
    <3> QED BY <3>5, <3>6
  <2> QED BY <2>3, <2>4
<1> HIDE DEF G, N
<1>4. 0 .. N \subseteq G
  BY <1>1, <1>2, <1>3, FromOn
<1>5. N \in G /\ Cardinality(T) <= N
  BY <1>2, <1>4 DEF N
<1>6. Bounded(T)
  BY <1>5 DEF G
<1> QED BY <1>6 DEF Max, Min

\* The distance of two points is a number, and never less than none.
LEMMA ApartIsNumber ==
  ASSUME NEW p \in Points, NEW q \in Points
  PROVE  Apart(p, q) \in Nat
<1>1. p.x \in Int /\ p.y \in Int /\ q.x \in Int /\ q.y \in Int
  BY DEF Points
<1>2. Dist(p.x, q.x) \in Nat /\ Dist(p.y, q.y) \in Nat
  BY <1>1 DEF Dist
<1> QED BY <1>2 DEF Apart

\* Between two sets of points that are not empty there is a shortest way.
LEMMA NearestIsWay ==
  ASSUME NEW in, NEW out, in \subseteq Points, out \subseteq Points, in # {}, out # {}
  PROVE  Nearest(in, out)[1] \in in /\ Nearest(in, out)[2] \in out
<1> DEFINE W == in \X out
           T == {Apart(e[1], e[2]) : e \in W}
<1>1. W # {} /\ \A e \in W : e[1] \in in /\ e[2] \in out
  <2>1. PICK p \in in, q \in out : TRUE
    OBVIOUS
  <2>2. <<p, q>> \in W
    BY <2>1
  <2> QED BY <2>2
<1>2. \A e \in W : Apart(e[1], e[2]) \in Nat
  BY <1>1, ApartIsNumber
<1> HIDE DEF W
<1>3. T # {} /\ T \subseteq Nat
  BY <1>1, <1>2
<1>4. PICK d \in T : \A m \in T : d <= m
  BY <1>3, LeastNumber
<1>5. \E e \in W : \A f \in W : Apart(e[1], e[2]) <= Apart(f[1], f[2])
  BY <1>4
<1>6. Nearest(in, out) \in W
  BY <1>5 DEF Nearest, W
<1> QED BY <1>1, <1>6

\* One more point joined to the tree.
Grown(points, last) ==
  LET e == Nearest(last.in, points \ last.in)
  IN  [in |-> last.in \cup {e[2]}, length |-> last.length + Apart(e[1], e[2])]

Seed(points) == [in |-> {CHOOSE p \in points : TRUE}, length |-> 0]

IsTrees(points, tree, n) ==
  tree = [m \in 1 .. n |-> IF m = 1 THEN Seed(points) ELSE Grown(points, tree[m - 1])]

\* There are trees of any number of points.
LEMMA TreesExist ==
  ASSUME NEW points, NEW N \in Nat
  PROVE  \E tree : IsTrees(points, tree, N)
<1> DEFINE G == {n \in Nat : \E tree : IsTrees(points, tree, n)}
<1>1. 0 \in G
  <2> DEFINE tree == [m \in 1 .. 0 |-> 0]
  <2>1. IsTrees(points, tree, 0)
    BY DEF IsTrees
  <2> QED BY <2>1
<1>2. ASSUME NEW n \in 0 .. N - 1, n \in G
      PROVE  n + 1 \in G
  <2>1. PICK old : IsTrees(points, old, n)
    BY <1>2
  <2> DEFINE tree == [m \in 1 .. n + 1 |->
                        IF m \in 1 .. n THEN old[m]
                        ELSE IF m = 1 THEN Seed(points) ELSE Grown(points, old[m - 1])]
  <2>2. \A m \in 1 .. n : tree[m] = old[m]
    OBVIOUS
  <2>3. \A m \in 1 .. n + 1 :
          tree[m] = IF m = 1 THEN Seed(points) ELSE Grown(points, tree[m - 1])
    <3> TAKE m \in 1 .. n + 1
    <3>1. CASE m \in 1 .. n
      <4>1. tree[m] = old[m] /\ (m # 1 => m - 1 \in 1 .. n /\ tree[m - 1] = old[m - 1])
        BY <3>1, <2>2
      <4>2. old[m] = IF m = 1 THEN Seed(points) ELSE Grown(points, old[m - 1])
        BY <3>1, <2>1 DEF IsTrees
      <4> HIDE DEF tree
      <4> QED BY <4>1, <4>2
    <3>2. CASE m \notin 1 .. n
      <4>1. m = n + 1 /\ tree[m] = IF m = 1 THEN Seed(points) ELSE Grown(points, old[m - 1])
        BY <3>2
      <4>2. m # 1 => m - 1 \in 1 .. n
        BY <4>1
      <4>3. m # 1 => tree[m - 1] = old[m - 1]
        BY <4>2, <2>2
      <4> HIDE DEF tree
      <4> QED BY <4>1, <4>3
    <3> QED BY <3>1, <3>2
  <2>4. tree = [m \in 1 .. n + 1 |-> tree[m]]
    OBVIOUS
  <2> HIDE DEF tree
  <2>5. IsTrees(points, tree, n + 1)
    BY <2>3, <2>4 DEF IsTrees
  <2> QED BY <2>5
<1> HIDE DEF G
<1>3. 0 .. N \subseteq G
  BY <1>1, <1>2, FromOn
<1> QED BY <1>3 DEF G

\* The length of the spanning tree is a number.
LEMMA SpanningIsNumber ==
  ASSUME NEW points, points \subseteq Points, IsFiniteSet(points)
  PROVE  Spanning(points) \in Int
<1> DEFINE N == Cardinality(points)
           tree == CHOOSE tree : IsTrees(points, tree, N)
           IsTree(n) == /\ tree[n].in \subseteq points /\ Cardinality(tree[n].in) = n
                        /\ tree[n].length \in Int
           G == {n \in Nat : n \in 1 .. N => IsTree(n)}
<1>1. N \in Nat
  BY FS_CardinalityType
<1>2. IsTrees(points, tree, N)
  BY <1>1, TreesExist
<1>3. Spanning(points) = IF N < 2 THEN 0 ELSE tree[N].length
  BY DEF Spanning, IsTrees, Seed, Grown
<1> HIDE DEF tree
<1>4. \A m \in 1 .. N : tree[m] = IF m = 1 THEN Seed(points) ELSE Grown(points, tree[m - 1])
  BY <1>2 DEF IsTrees
<1> HIDE DEF N
<1>5. 1 \in 1 .. N => IsTree(1)
  <2> SUFFICES ASSUME 1 \in 1 .. N PROVE IsTree(1)
    OBVIOUS
  <2>1. points # {}
    BY <1>1, FS_EmptySet DEF N
  <2>2. tree[1] = Seed(points)
    BY <1>4
  <2> DEFINE p == CHOOSE p \in points : TRUE
  <2>3. p \in points /\ tree[1].in = {p} /\ tree[1].length = 0
    BY <2>1, <2>2 DEF Seed
  <2> HIDE DEF p
  <2> QED BY <2>3, FS_Singleton
<1>6. ASSUME NEW n \in 1 .. N - 1, IsTree(n)
      PROVE  IsTree(n + 1)
  <2> DEFINE last == tree[n]
             e == Nearest(last.in, points \ last.in)
  <2>1. tree[n + 1] = Grown(points, last)
    <3>1. n + 1 \in 1 .. N /\ n + 1 # 1 /\ (n + 1) - 1 = n
      BY <1>1
    <3> QED BY <3>1, <1>4
  <2>2. IsFiniteSet(last.in) /\ last.in \subseteq points /\ Cardinality(last.in) = n /\ last.length \in Int
    BY <1>6, FS_Subset
  <2>3. last.in # {} /\ points \ last.in # {}
    <3>1. n # 0 /\ n < N /\ n \in Nat
      BY <1>1
    <3>2. last.in # {}
      BY <3>1, <2>2, FS_EmptySet
    <3>3. last.in # points
      BY <3>1, <2>2, <1>1 DEF N
    <3> HIDE DEF last
    <3> QED BY <3>2, <3>3, <2>2
  <2> HIDE DEF last
  <2>4. e[1] \in last.in /\ e[2] \in points \ last.in
    BY <2>2, <2>3, NearestIsWay
  <2>5. tree[n + 1].in = last.in \cup {e[2]} /\ tree[n + 1].length = last.length + Apart(e[1], e[2])
    BY <2>1 DEF Grown
  <2> HIDE DEF e
  <2>6. Apart(e[1], e[2]) \in Nat
    BY <2>2, <2>4, ApartIsNumber
  <2>7. Cardinality(last.in \cup {e[2]}) = n + 1
    BY <2>2, <2>4, FS_AddElement
  <2> QED BY <2>2, <2>4, <2>5, <2>6, <2>7
<1>7. 1 .. N \subseteq G
  <2>1. 1 \in G
    BY <1>5
  <2>2. \A n \in 1 .. N - 1 : n \in G => n + 1 \in G
    <3> TAKE n \in 1 .. N - 1
    <3> HAVE n \in G
    <3>1. n \in 1 .. N /\ n + 1 \in Nat
      BY <1>1
    <3>2. IsTree(n)
      BY <3>1
    <3> HIDE DEF IsTree
    <3> QED BY <3>1, <3>2, <1>6
  <2> HIDE DEF G
  <2> QED BY <1>1, <2>1, <2>2, FromOn
<1>8. N \in 1 .. N => tree[N].length \in Int
  BY <1>7
<1> QED BY <1>1, <1>3, <1>8

IsPlacement(b, pos) == \A i \in FootprintIds(b) : pos[i] \in Points

\* The footprint with an id is one with this id.
LEMMA FootprintIs ==
  ASSUME NEW b, NEW i \in FootprintIds(b)
  PROVE  FootprintOf(b, i) \in b.footprints /\ FootprintOf(b, i).id = i
BY DEF FootprintIds, FootprintOf

\* A net has finitely many points where its pads end up.
LEMMA NetPointsArePoints ==
  ASSUME NEW b, NEW pos, NEW n, IsBoard(b), ReferencesResolve(b), IsPlacement(b, pos)
  PROVE  NetPoints(b, pos, n) \subseteq Points /\ IsFiniteSet(NetPoints(b, pos, n))
<1> DEFINE at(p) == Point(p.pos.x + pos[p.fp].x - FootprintOf(b, p.fp).pos.x,
                          p.pos.y + pos[p.fp].y - FootprintOf(b, p.fp).pos.y)
           g == [p \in OfNet(b.pads, n) |-> at(p)]
<1>1. NetPoints(b, pos, n) = {g[p] : p \in DOMAIN g}
  BY DEF NetPoints
<1>2. ASSUME NEW p \in b.pads
      PROVE  at(p) \in Points
  <2>1. p.fp \in FootprintIds(b)
    BY DEF ReferencesResolve, FootprintIds
  <2>2. FootprintOf(b, p.fp).pos \in Points
    BY <2>1, FootprintIs DEF IsBoard, IsFootprint
  <2>3. p.pos \in Points /\ pos[p.fp] \in Points
    BY <2>1 DEF IsBoard, IsPad, IsPlacement
  <2> QED BY <2>2, <2>3 DEF Points, Point
<1>3. OfNet(b.pads, n) \subseteq b.pads /\ IsFiniteSet(b.pads)
  BY DEF OfNet, IsBoard
<1>4. IsFiniteSet(DOMAIN g)
  BY <1>3, FS_Subset
<1>5. {g[p] : p \in DOMAIN g} \subseteq Points
  BY <1>2, <1>3
<1> HIDE DEF g
<1> QED BY <1>1, <1>4, <1>5, FinitelyMany

\* The nets and the footprints that are scored are finitely many.
LEMMA ScoredAreFinite ==
  ASSUME NEW b, NEW pos, IsBoard(b), ReferencesResolve(b)
  PROVE  /\ IsFiniteSet(RoutedNets(b)) /\ IsFiniteSet(CriticalNets(b))
         /\ \A class : WithNetClass(b, class) \subseteq FootprintIds(b)
         /\ IsFiniteSet(FootprintIds(b)) /\ IsFiniteSet(Noisy(b, pos)) /\ IsFiniteSet(HotPairs(b))
<1>1. IsFiniteSet(RoutedNets(b)) /\ IsFiniteSet(CriticalNets(b))
  <2>1. RoutedNets(b) \subseteq DOMAIN b.class /\ CriticalNets(b) \subseteq DOMAIN b.class
    BY DEF RoutedNets, CriticalNets
  <2> QED BY <2>1, FS_Subset DEF IsBoard
<1>2. IsFiniteSet(FootprintIds(b))
  <2> DEFINE g == [f \in b.footprints |-> f.id]
  <2>1. FootprintIds(b) = {g[f] : f \in DOMAIN g} /\ IsFiniteSet(DOMAIN g)
    BY DEF FootprintIds, IsBoard
  <2> HIDE DEF g
  <2> QED BY <2>1, FinitelyMany
<1>3. \A class : WithNetClass(b, class) \subseteq FootprintIds(b)
  BY DEF WithNetClass, ReferencesResolve, FootprintIds
<1>4. IsFiniteSet(Noisy(b, pos))
  <2>1. Noisy(b, pos) \subseteq FootprintIds(b)
    BY <1>3 DEF Noisy
  <2> QED BY <2>1, <1>2, FS_Subset
<1>5. IsFiniteSet(HotPairs(b))
  <2>1. HotPairs(b) \subseteq SUBSET FootprintIds(b)
    BY <1>3 DEF HotPairs
  <2>2. IsFiniteSet(SUBSET FootprintIds(b))
    BY <1>2, FS_SUBSET
  <2> QED BY <2>1, <2>2, FS_Subset
<1> QED BY <1>1, <1>2, <1>3, <1>4, <1>5

\* The area between finitely many points is a number.
LEMMA PowerLoopIsNumber ==
  ASSUME NEW points, points \subseteq Points, IsFiniteSet(points)
  PROVE  PowerLoop(points) \in Int
<1> DEFINE gx == [p \in points |-> p.x]
           gy == [p \in points |-> p.y]
           X == {p.x : p \in points}
           Y == {p.y : p \in points}
<1>1. CASE Cardinality(points) < 2
  BY <1>1 DEF PowerLoop
<1>2. CASE ~(Cardinality(points) < 2)
  <2>1. points # {}
    BY <1>2, FS_EmptySet
  <2>2. X = {gx[p] : p \in DOMAIN gx} /\ Y = {gy[p] : p \in DOMAIN gy}
        /\ DOMAIN gx = points /\ DOMAIN gy = points
    OBVIOUS
  <2>3. X # {} /\ Y # {} /\ X \subseteq Int /\ Y \subseteq Int
    BY <2>1 DEF Points
  <2> HIDE DEF gx, gy
  <2>4. IsFiniteSet({gx[p] : p \in DOMAIN gx}) /\ IsFiniteSet({gy[p] : p \in DOMAIN gy})
    BY <2>2, FinitelyMany
  <2>5. IsFiniteSet(X) /\ IsFiniteSet(Y)
    BY <2>2, <2>4
  <2>6. PowerLoop(points) = (Extent(X) * Extent(Y)) \div 1000
    BY <1>2 DEF PowerLoop
  <2> HIDE DEF X, Y
  <2>7. Max(X) \in Int /\ Min(X) \in Int /\ Max(Y) \in Int /\ Min(Y) \in Int
    BY <2>3, <2>5, ExtremesExist
  <2>8. Extent(X) \in Int /\ Extent(Y) \in Int
    BY <2>7 DEF Extent
  <2>9. Extent(X) * Extent(Y) \in Int
    BY <2>8
  <2> QED BY <2>6, <2>9
<1> QED BY <1>1, <1>2

\* Where the power nets end up.
LEMMA PowerPointsArePoints ==
  ASSUME NEW b, NEW pos, IsBoard(b), ReferencesResolve(b), IsPlacement(b, pos)
  PROVE  PowerPoints(b, pos) \subseteq Points /\ IsFiniteSet(PowerPoints(b, pos))
<1> DEFINE S == {n \in RoutedNets(b) : b.class[n] = "load_power"}
           g == [n \in S |-> NetPoints(b, pos, n)]
           T == {g[n] : n \in DOMAIN g}
<1>1. PowerPoints(b, pos) = UNION T
  BY DEF PowerPoints
<1>2. S \subseteq RoutedNets(b)
  OBVIOUS
<1> HIDE DEF S
<1>3. DOMAIN g = S /\ \A t \in T : t \subseteq Points /\ IsFiniteSet(t)
  BY NetPointsArePoints
<1> HIDE DEF g
<1>4. IsFiniteSet(S)
  BY <1>2, ScoredAreFinite, FS_Subset
<1>5. IsFiniteSet(T)
  BY <1>3, <1>4, FinitelyMany
<1> HIDE DEF T
<1>6. IsFiniteSet(UNION T)
  BY <1>3, <1>5, FS_UNION
<1> QED BY <1>1, <1>3, <1>6

\* What two footprints that are too close cost is a number.
LEMMA CrowdingIsNumber ==
  ASSUME NEW b, NEW pos, NEW q \in HotPairs(b), IsBoard(b), ReferencesResolve(b), IsPlacement(b, pos)
  PROVE  Crowding(b, pos, q) \in Int
<1> DEFINE i == CHOOSE i \in q : TRUE
           j == CHOOSE j \in q : j # i
<1>1. q \subseteq FootprintIds(b) /\ Cardinality(q) = 2
  BY ScoredAreFinite DEF HotPairs
<1>2. IsFiniteSet(q)
  BY <1>1, ScoredAreFinite, FS_Subset
<1>3. q # {} /\ \A x : q # {x}
  <2>1. ASSUME q = {} PROVE FALSE
    <3>1. Cardinality(q) = 0
      BY <2>1, FS_EmptySet, Zenon
    <3> QED BY <3>1, <1>1
  <2>2. ASSUME NEW x, q = {x} PROVE FALSE
    <3>1. Cardinality({x}) = 1
      BY FS_Singleton
    <3>2. Cardinality(q) = 1
      BY <3>1, <2>2, Zenon
    <3> QED BY <3>2, <1>1
  <2> QED BY <2>1, <2>2, Zenon
<1>4. i \in q
  BY <1>3
<1> HIDE DEF i
<1>5. \E x \in q : x # i
  BY <1>3, <1>4
<1>6. j \in q
  BY <1>5
<1> HIDE DEF j
<1>7. Apart(pos[i], pos[j]) \in Nat
  BY <1>1, <1>4, <1>6, ApartIsNumber DEF IsPlacement
<1>8. b.outline.w \in Int /\ b.outline.h \in Int
  BY DEF IsBoard, Rects
<1>9. Least(b.outline.w, b.outline.h) \in Int
  BY <1>8 DEF Least
<1>10. Least(b.outline.w, b.outline.h) \div 4 - Apart(pos[i], pos[j]) \in Int
  BY <1>7, <1>9
<1>11. Crowding(b, pos, q) = Most(0, Least(b.outline.w, b.outline.h) \div 4 - Apart(pos[i], pos[j]))
  BY DEF Crowding, i, j
<1> QED BY <1>10, <1>11 DEF Most

\* The doubled bounds of a footprint and of a rectangle.
LEMMA DoubledAreRects ==
  /\ \A f, p : IsFootprint(f) /\ p \in Points => DoubledBounds(f, p) \in Rects
  /\ \A r \in Rects : Doubled(r) \in Rects
<1>1. ASSUME NEW f, NEW p, IsFootprint(f), p \in Points
      PROVE  DoubledBounds(f, p) \in Rects
  <2>1. /\ 2 * p.x - f.w \in Int /\ 2 * p.y - f.h \in Int
        /\ 2 * f.w \in Int /\ 2 * f.h \in Int
    BY <1>1 DEF IsFootprint, Points
  <2> QED BY <2>1 DEF DoubledBounds, Rect, Rects
<1>2. ASSUME NEW r \in Rects
      PROVE  Doubled(r) \in Rects
  <2>1. 2 * r.x \in Int /\ 2 * r.y \in Int /\ 2 * r.w \in Int /\ 2 * r.h \in Int
    BY DEF Rects
  <2> QED BY <2>1 DEF Doubled, Rect, Rects
<1> QED BY <1>1, <1>2

\* How far a connector is from the edge is a number.
LEMMA InsetIsNumber ==
  ASSUME NEW b, NEW pos, NEW i \in FootprintIds(b), IsBoard(b), IsPlacement(b, pos)
  PROVE  Inset(b, pos, i) \in Int
<1> DEFINE r == PlacedBounds(b, pos, i)
           o == Doubled(b.outline)
<1>1. IsFootprint(FootprintOf(b, i)) /\ pos[i] \in Points /\ b.outline \in Rects
  BY FootprintIs DEF IsBoard, IsPlacement
<1>2. r \in Rects /\ o \in Rects
  BY <1>1, DoubledAreRects DEF PlacedBounds
<1>3. Inset(b, pos, i) = Least(Least(r.x - o.x, r.y - o.y),
                               Least(o.x + o.w - r.x - r.w, o.y + o.h - r.y - r.h))
  BY DEF Inset
<1> HIDE DEF r, o
<1>4. /\ r.x - o.x \in Int /\ r.y - o.y \in Int
      /\ o.x + o.w - r.x - r.w \in Int /\ o.y + o.h - r.y - r.h \in Int
  BY <1>2 DEF Rects
<1>5. /\ Least(r.x - o.x, r.y - o.y) \in Int
      /\ Least(o.x + o.w - r.x - r.w, o.y + o.h - r.y - r.h) \in Int
  BY <1>4 DEF Least
<1> QED BY <1>3, <1>5 DEF Least

\* The score of a placement is a number.
LEMMA ScoreIsNumber ==
  ASSUME NEW b, NEW pos, IsBoard(b), ReferencesResolve(b), IsPlacement(b, pos)
  PROVE  ScoreLayout(b, pos) \in Int
<1> DEFINE ratsnest == [n \in RoutedNets(b) |-> Weight(b.class[n]) * Span(b, pos, n)]
           critical == [n \in CriticalNets(b) |-> Span(b, pos, n)]
           loop == PowerLoop(PowerPoints(b, pos))
           noise == Cardinality(Noisy(b, pos))
           crowd == [q \in HotPairs(b) |-> Crowding(b, pos, q)]
           access == [i \in Connectors \cap FootprintIds(b) |-> Inset(b, pos, i)]
<1>1. \A n : Span(b, pos, n) \in Int
  BY NetPointsArePoints, SpanningIsNumber DEF Span
<1>2. \A class : Weight(class) \in Int
  BY DEF Weight
<1>3. SumFunction(ratsnest) \in Int
  <2>1. \A n : Weight(b.class[n]) * Span(b, pos, n) \in Int
    BY <1>1, <1>2
  <2>2. IsFiniteSet(DOMAIN ratsnest) /\ \A n \in DOMAIN ratsnest : ratsnest[n] \in Int
    BY <2>1, ScoredAreFinite
  <2> HIDE DEF ratsnest
  <2> QED BY <2>2, SumIsNumber
<1>4. SumFunction(critical) \in Int
  <2>1. IsFiniteSet(DOMAIN critical) /\ \A n \in DOMAIN critical : critical[n] \in Int
    BY <1>1, ScoredAreFinite
  <2> HIDE DEF critical
  <2> QED BY <2>1, SumIsNumber
<1>5. loop \in Int
  BY PowerPointsArePoints, PowerLoopIsNumber
<1>6. noise \in Int
  BY ScoredAreFinite, FS_CardinalityType
<1>7. SumFunction(crowd) \in Int
  <2>1. IsFiniteSet(DOMAIN crowd) /\ \A q \in DOMAIN crowd : crowd[q] \in Int
    BY ScoredAreFinite, CrowdingIsNumber
  <2> HIDE DEF crowd
  <2> QED BY <2>1, SumIsNumber
<1>8. SumFunction(access) \in Int
  <2>1. IsFiniteSet(DOMAIN access)
    BY ScoredAreFinite, FS_Intersection
  <2>2. \A i \in DOMAIN access : access[i] \in Int
    BY InsetIsNumber
  <2> HIDE DEF access
  <2> QED BY <2>1, <2>2, SumIsNumber
<1>9. ScoreLayout(b, pos) = 100 * SumFunction(ratsnest) + 250 * SumFunction(critical) + 400 * loop
                              + 500 * noise + 150 * SumFunction(crowd) + 75 * SumFunction(access)
  BY DEF ScoreLayout
<1> HIDE DEF ratsnest, critical, loop, noise, crowd, access
<1> QED BY <1>3, <1>4, <1>5, <1>6, <1>7, <1>8, <1>9

-----------------------------------------------------------------------------
(* The inductive invariant. *)

\* A placement puts every footprint where it may be, and no two of them on one another.
IsSound(b, pos) ==
  /\ DOMAIN pos = FootprintIds(b)
  /\ \A i \in FootprintIds(b) : pos[i] \in LegalCells(b, FootprintOf(b, i))
  /\ ~HasOverlap(b, pos)

NoWorse(b, pos, first) == ScoreLayout(b, pos) <= ScoreLayout(b, first)

\* While the solver searches, it stands at a sound placement and remembers another.
Searching(b, p) ==
  p.phase \in {"start", "move"} =>
    /\ p.cells = CellsOf(b)
    /\ IsSound(b, p.first) /\ IsSound(b, p.current) /\ IsSound(b, p.best)
    /\ NoWorse(b, p.best, p.first)

Offered(b, offer, first) ==
  offer.by = "placer" => LET pos == offer.ops[1].pos
                         IN  IsSound(b, pos) /\ NoWorse(b, pos, first)

\* The tiles cover the board without the regions cut so far, each cell once.
AreExact(tiles, whole, cut) ==
  /\ UNION {Cells(t) : t \in tiles}
       = (UNION {Cells(r) : r \in whole}) \ UNION {Cells(r) : r \in cut}
  /\ \A t, u \in tiles : t # u => Cells(t) \cap Cells(u) = {}

AreZones(zones) == IsFiniteSet(zones) /\ \A z \in zones : IsZone(z)

PouringSound(b, p) ==
  /\ AreZones(p.zones)
  /\ p.phase \in {"layers", "cutting", "stitching"} => BoardRect(b) # {} /\ GND \in DOMAIN b.class
  /\ p.phase = "cutting" =>
       /\ IsFiniteSet(p.tiles) /\ p.tiles \subseteq Rects /\ \A t \in p.tiles : t.w > 0 /\ t.h > 0
       /\ p.left \subseteq Rects /\ p.cut \subseteq Rects
       /\ AreExact(p.tiles, BoardRect(b), p.cut)

\* One tool at a time: nobody's offer is open while a tool is at work, so that the board it
\* reads stays the board it began with.
Turns(where, p, q, offer) ==
  /\ p.phase \in {"start", "move"} => where = "place"
  /\ q.phase \in {"layers", "cutting", "stitching"} => where = "pour"
  /\ where = "place" /\ p.phase # "done" => offer = NoProposal
  /\ where = "pour" /\ q.phase # "done" => offer = NoProposal

IInv ==
  /\ DOMAIN place = DOMAIN PlaceIdle /\ DOMAIN pour = DOMAIN PourIdle
  /\ IsBoard(board) /\ Loadable(board)
  /\ IsProposal(proposal.ops)
  /\ Turns(stage, place, pour, proposal)
  /\ Searching(board, place)
  /\ Offered(board, proposal, place.first)
  /\ PouringSound(board, pour)

\* Where a footprint may be is a point, and of a locked one only where it is.
LEMMA CellsArePoints ==
  ASSUME NEW b, IsBoard(b), NEW f \in b.footprints
  PROVE  /\ LegalCells(b, f) \subseteq Points
         /\ f.lock => LegalCells(b, f) \subseteq {f.pos}
         /\ \A p \in LegalCells(b, f) : IsLegal(b, f, p)
<1>1. f.pos \in Points
  BY DEF IsBoard, IsFootprint
<1>2. \A lo, hi \in Int : lo .. hi \subseteq Int
  OBVIOUS
<1>3. \A x, y \in Int : Point(x, y) \in Points
  BY DEF Point, Points
<1>4. /\ b.outline.x \in Int /\ b.outline.y \in Int /\ b.outline.w \in Int /\ b.outline.h \in Int
      /\ f.w \in Int /\ f.h \in Int
  BY DEF IsBoard, Rects, IsFootprint
<1> DEFINE from(lo, size) == (2 * lo + size + 1) \div 2
           upTo(hi, size) == (2 * hi - size) \div 2
           line(lo, len, size) == {c \in from(lo, size) .. upTo(lo + len, size) :
                                     (c - from(lo, size)) % Grid = 0}
           X == line(b.outline.x, b.outline.w, f.w)
           Y == line(b.outline.y, b.outline.h, f.h)
           free == {f.pos} \cup {Point(x, y) : x \in X, y \in Y}
<1>5. LegalCells(b, f) = {p \in (IF f.lock THEN {f.pos} ELSE free) : IsLegal(b, f, p)}
  BY DEF LegalCells
<1>6. \A lo, len, size \in Int : line(lo, len, size) \subseteq Int
  OBVIOUS
<1> HIDE DEF line
<1>7. X \subseteq Int /\ Y \subseteq Int
  BY <1>4, <1>6
<1> HIDE DEF X, Y
<1>8. free \subseteq Points
  BY <1>1, <1>3, <1>7
<1> HIDE DEF free
<1> QED BY <1>1, <1>5, <1>8

\* A sound placement has a point for every footprint, so its score is a number.
LEMMA SoundIsPlacement ==
  ASSUME NEW b, NEW pos, IsBoard(b), Loadable(b), IsSound(b, pos)
  PROVE  IsPlacement(b, pos) /\ ScoreLayout(b, pos) \in Int
<1>1. IsPlacement(b, pos)
  BY CellsArePoints, FootprintIs DEF IsSound, IsPlacement
<1> QED BY <1>1, ScoreIsNumber DEF Loadable

\* The constraint solver answers with sound placements.
LEMMA SolverIsSound ==
  ASSUME NEW b, NEW used, NEW pos \in SolveCpSat(b, CellsOf(b), used)
  PROVE  IsSound(b, pos)
<1>1. pos \in Feasible(b, CellsOf(b), used)
  BY DEF SolveCpSat
<1>2. /\ DOMAIN CellsOf(b) = FootprintIds(b)
      /\ \A i \in FootprintIds(b) : CellsOf(b)[i] = LegalCells(b, FootprintOf(b, i))
  BY DEF CellsOf
<1>3. /\ DOMAIN pos = DOMAIN CellsOf(b) /\ \A i \in DOMAIN CellsOf(b) : pos[i] \in CellsOf(b)[i]
      /\ ~HasOverlap(b, pos)
  BY <1>1 DEF Feasible
<1> QED BY <1>2, <1>3 DEF IsSound

\* A move that overlaps nowhere leads from a sound placement to a sound one.
LEMMA MoveIsSound ==
  ASSUME NEW b, NEW pos, IsSound(b, pos), NEW f \in b.footprints, NEW p \in CellsOf(b)[f.id],
         ~HasOverlap(b, [pos EXCEPT ![f.id] = p])
  PROVE  IsSound(b, [pos EXCEPT ![f.id] = p])
<1> DEFINE next == [pos EXCEPT ![f.id] = p]
<1>1. f.id \in FootprintIds(b)
  BY DEF FootprintIds
<1>2. p \in LegalCells(b, FootprintOf(b, f.id))
  BY <1>1 DEF CellsOf
<1>3. DOMAIN next = FootprintIds(b)
  BY DEF IsSound
<1>4. \A i \in FootprintIds(b) : next[i] = IF i = f.id THEN p ELSE pos[i]
  BY DEF IsSound
<1> HIDE DEF next
<1>5. \A i \in FootprintIds(b) : next[i] \in LegalCells(b, FootprintOf(b, i))
  BY <1>2, <1>4 DEF IsSound
<1> QED BY <1>3, <1>5 DEF IsSound, next

-----------------------------------------------------------------------------
(* A sound placement is legal for the checker and the adapter. *)

\* What a sound placement does to the footprints of a board: each takes its place and keeps the rest.
LEMMA PlacedAre ==
  ASSUME NEW b, NEW pos, IsBoard(b), Loadable(b), IsSound(b, pos)
  PROVE  /\ \A g \in Placed(b, pos).footprints : \E f \in b.footprints :
              /\ g.id = f.id /\ g.pos = pos[f.id] /\ g.w = f.w /\ g.h = f.h
              /\ g.layer = f.layer /\ g.keepouts = f.keepouts /\ g = [f EXCEPT !.pos = pos[f.id]]
         /\ \A f \in b.footprints : \E g \in Placed(b, pos).footprints :
              g.id = f.id /\ g.pos = pos[f.id] /\ g.layer = f.layer /\ g.lock = f.lock
         /\ Placed(b, pos).keepouts = b.keepouts /\ Placed(b, pos).routes = b.routes
         /\ Placed(b, pos).vias = b.vias /\ Placed(b, pos).zones = b.zones
<1> DEFINE put(f) == [f EXCEPT !.pos = pos[f.id]]
<1>1. \A f \in b.footprints : f.id \in DOMAIN pos
  BY DEF IsSound, FootprintIds
<1>2. Placed(b, pos).footprints = {put(f) : f \in b.footprints}
  <2>1. Placed(b, pos).footprints =
          {IF f.id \in DOMAIN pos THEN [f EXCEPT !.pos = pos[f.id]] ELSE f : f \in b.footprints}
    BY DEF Placed, IsBoard
  <2>2. \A f \in b.footprints :
          (IF f.id \in DOMAIN pos THEN [f EXCEPT !.pos = pos[f.id]] ELSE f) = put(f)
    BY <1>1
  <2> QED BY <2>1, <2>2
<1>3. /\ Placed(b, pos).keepouts = b.keepouts /\ Placed(b, pos).routes = b.routes
      /\ Placed(b, pos).vias = b.vias /\ Placed(b, pos).zones = b.zones
  BY DEF Placed, IsBoard
<1>4. ASSUME NEW f \in b.footprints
      PROVE  /\ put(f).id = f.id /\ put(f).pos = pos[f.id] /\ put(f).w = f.w /\ put(f).h = f.h
             /\ put(f).layer = f.layer /\ put(f).keepouts = f.keepouts
  <2>1. DOMAIN f = {"id", "pos", "w", "h", "layer", "keepouts", "lock"}
    BY DEF IsBoard, IsFootprint
  <2> QED BY <2>1
<1>5. \A f \in b.footprints : put(f).lock = f.lock
  <2>1. \A f \in b.footprints : "lock" \in DOMAIN f
    BY DEF IsBoard, IsFootprint
  <2> QED BY <2>1
<1> HIDE DEF put
<1>6. \A g \in Placed(b, pos).footprints : \E f \in b.footprints :
        /\ g.id = f.id /\ g.pos = pos[f.id] /\ g.w = f.w /\ g.h = f.h
        /\ g.layer = f.layer /\ g.keepouts = f.keepouts /\ g = put(f)
  BY <1>2, <1>4
<1>7. \A f \in b.footprints : \E g \in Placed(b, pos).footprints :
        g.id = f.id /\ g.pos = pos[f.id] /\ g.layer = f.layer /\ g.lock = f.lock
  BY <1>2, <1>4, <1>5
<1> QED BY <1>3, <1>6, <1>7 DEF put

\* What keeps doubled bounds apart keeps the bounds of footprints of even size apart, and the
\* cells of footprints of any size.
LEMMA DoubledTellApart ==
  ASSUME NEW px \in Int, NEW pw \in Nat
  PROVE  /\ \A kx, kw \in Int : pw % 2 = 0 =>
              /\ px - pw \div 2 + pw >= kx => 2 * px - pw + 2 * pw >= 2 * kx
              /\ kx + kw >= px - pw \div 2 => 2 * kx + 2 * kw >= 2 * px - pw
         /\ \A qx \in Int, qw \in Nat :
              ~(2 * px - pw + 2 * pw >= 2 * qx - qw) => px - pw \div 2 + pw <= qx - qw \div 2
<1>1. ASSUME NEW kx \in Int, NEW kw \in Int, pw % 2 = 0
      PROVE  /\ px - pw \div 2 + pw >= kx => 2 * px - pw + 2 * pw >= 2 * kx
             /\ kx + kw >= px - pw \div 2 => 2 * kx + 2 * kw >= 2 * px - pw
  BY <1>1
<1>2. ASSUME NEW qx \in Int, NEW qw \in Nat, ~(2 * px - pw + 2 * pw >= 2 * qx - qw)
      PROVE  px - pw \div 2 + pw <= qx - qw \div 2
  BY <1>2
<1> QED BY <1>1, <1>2

\* No keepout finding for a footprint of even size.
LEMMA SoundKeepsOut ==
  ASSUME NEW b, NEW pos, IsBoard(b), Loadable(b), IsSound(b, pos),
         NEW g \in Placed(b, pos).footprints, IsEven(g)
  PROVE  Finding("PCB_KEEPOUT_FOOTPRINT", g.id) \notin FootprintKeepoutFindings(Placed(b, pos))
<1> DEFINE after == Placed(b, pos)
           meets(h, k) == /\ "footprint" \in k.prohibited /\ h.layer \in k.layers
                          /\ k.id \notin h.keepouts /\ RectsIntersect(FootprintBounds(h), k.bounds)
<1> SUFFICES ASSUME Finding("PCB_KEEPOUT_FOOTPRINT", g.id) \in FootprintKeepoutFindings(after)
             PROVE  FALSE
  OBVIOUS
<1>1. PICK q \in after.footprints \X after.keepouts :
        /\ Finding("PCB_KEEPOUT_FOOTPRINT", q[1].id) = Finding("PCB_KEEPOUT_FOOTPRINT", g.id)
        /\ meets(q[1], q[2])
  BY DEF FootprintKeepoutFindings
<1> HIDE DEF meets
<1>2. PICK h \in after.footprints, k \in after.keepouts : q = <<h, k>>
  BY <1>1
<1>3. meets(h, k) /\ h.id = g.id
  <2>1. q[1] = h /\ q[2] = k
    BY <1>2
  <2> QED BY <1>1, <2>1 DEF Finding
<1>4. PICK f \in b.footprints : /\ g.id = f.id /\ g.pos = pos[f.id] /\ g.w = f.w /\ g.h = f.h
                                /\ g.layer = f.layer /\ g.keepouts = f.keepouts
                                /\ g = [f EXCEPT !.pos = pos[f.id]]
  BY PlacedAre
<1>5. PICK e \in b.footprints : h.id = e.id /\ h = [e EXCEPT !.pos = pos[e.id]]
  BY PlacedAre
<1>6. e = f
  BY <1>3, <1>4, <1>5 DEF Loadable, UniqueIds, Objects
<1>7. h = g
  BY <1>4, <1>5, <1>6
<1>8. k \in b.keepouts
  BY <1>2, PlacedAre
<1>9. IsLegal(b, f, pos[f.id]) /\ pos[f.id] \in Points
  <2>1. f.id \in FootprintIds(b)
    BY DEF FootprintIds
  <2>2. FootprintOf(b, f.id) = f
    BY <2>1, FootprintIs DEF Loadable, UniqueIds, Objects
  <2> QED BY <2>1, <2>2, CellsArePoints DEF IsSound
<1>10. ~RectsIntersect(DoubledBounds(f, pos[f.id]), Doubled(k.bounds))
  BY <1>3, <1>4, <1>7, <1>8, <1>9 DEF IsLegal, meets
<1>11. RectsIntersect(FootprintBounds(g), k.bounds) /\ k.bounds \in Rects
  BY <1>3, <1>7, <1>8 DEF meets, IsBoard, IsKeepout
<1> DEFINE p == pos[f.id]
           r == k.bounds
<1>12. /\ p.x \in Int /\ p.y \in Int /\ f.w \in Nat /\ f.h \in Nat
       /\ r.x \in Int /\ r.y \in Int /\ r.w \in Int /\ r.h \in Int
  BY <1>9, <1>11 DEF Points, Rects, IsBoard, IsFootprint
<1>13. f.w % 2 = 0 /\ f.h % 2 = 0
  BY <1>4 DEF IsEven
<1>14. /\ p.x - f.w \div 2 + f.w >= r.x /\ r.x + r.w >= p.x - f.w \div 2
       /\ p.y - f.h \div 2 + f.h >= r.y /\ r.y + r.h >= p.y - f.h \div 2
  <2>1. FootprintBounds(g) = Rect(p.x - f.w \div 2, p.y - f.h \div 2, f.w, f.h)
    BY <1>4 DEF FootprintBounds
  <2> HIDE DEF p, r
  <2> QED BY <1>11, <1>12, <2>1 DEF RectsIntersect, RectsWithin, Rect, r
<1>15. /\ 2 * p.x - f.w + 2 * f.w >= 2 * r.x /\ 2 * r.x + 2 * r.w >= 2 * p.x - f.w
       /\ 2 * p.y - f.h + 2 * f.h >= 2 * r.y /\ 2 * r.y + 2 * r.h >= 2 * p.y - f.h
  <2> HIDE DEF p, r
  <2> QED BY <1>12, <1>13, <1>14, DoubledTellApart
<1>16. /\ DoubledBounds(f, p) = Rect(2 * p.x - f.w, 2 * p.y - f.h, 2 * f.w, 2 * f.h)
       /\ Doubled(r) = Rect(2 * r.x, 2 * r.y, 2 * r.w, 2 * r.h)
  BY DEF DoubledBounds, Doubled
<1>17. RectsIntersect(DoubledBounds(f, p), Doubled(r))
  <2> HIDE DEF p, r
  <2> QED BY <1>12, <1>15, <1>16 DEF RectsIntersect, RectsWithin, Rect
<1> QED BY <1>10, <1>17

\* No two footprints on one another.
LEMMA SoundKeepsApart ==
  ASSUME NEW b, NEW pos, IsBoard(b), Loadable(b), IsSound(b, pos),
         NEW g \in Placed(b, pos).footprints, NEW h \in Placed(b, pos).footprints, g.id # h.id
  PROVE  Cells(FootprintBounds(g)) \cap Cells(FootprintBounds(h)) = {}
<1>1. PICK f \in b.footprints : g.id = f.id /\ g.pos = pos[f.id] /\ g.w = f.w /\ g.h = f.h
  BY PlacedAre
<1>2. PICK e \in b.footprints : h.id = e.id /\ h.pos = pos[e.id] /\ h.w = e.w /\ h.h = e.h
  BY PlacedAre
<1> DEFINE p == pos[f.id]
           q == pos[e.id]
<1>3. p \in Points /\ q \in Points
  <2>1. IsPlacement(b, pos) /\ f.id \in FootprintIds(b) /\ e.id \in FootprintIds(b)
    BY SoundIsPlacement DEF FootprintIds
  <2> QED BY <2>1 DEF IsPlacement
<1>4. ~RectsIntersect(DoubledBounds(f, p), DoubledBounds(e, q))
  BY <1>1, <1>2 DEF IsSound, HasOverlap
<1>5. /\ p.x \in Int /\ p.y \in Int /\ q.x \in Int /\ q.y \in Int
      /\ f.w \in Nat /\ f.h \in Nat /\ e.w \in Nat /\ e.h \in Nat
  BY <1>3 DEF Points, IsBoard, IsFootprint
<1>6. /\ DoubledBounds(f, p) = Rect(2 * p.x - f.w, 2 * p.y - f.h, 2 * f.w, 2 * f.h)
      /\ DoubledBounds(e, q) = Rect(2 * q.x - e.w, 2 * q.y - e.h, 2 * e.w, 2 * e.h)
      /\ FootprintBounds(g) = Rect(p.x - f.w \div 2, p.y - f.h \div 2, f.w, f.h)
      /\ FootprintBounds(h) = Rect(q.x - e.w \div 2, q.y - e.h \div 2, e.w, e.h)
  BY <1>1, <1>2 DEF DoubledBounds, FootprintBounds
<1> HIDE DEF p, q
<1>7. \/ ~(2 * p.x - f.w + 2 * f.w >= 2 * q.x - e.w) \/ ~(2 * q.x - e.w + 2 * e.w >= 2 * p.x - f.w)
      \/ ~(2 * p.y - f.h + 2 * f.h >= 2 * q.y - e.h) \/ ~(2 * q.y - e.h + 2 * e.h >= 2 * p.y - f.h)
  BY <1>4, <1>5, <1>6 DEF RectsIntersect, RectsWithin, Rect
<1>8. \/ p.x - f.w \div 2 + f.w <= q.x - e.w \div 2 \/ q.x - e.w \div 2 + e.w <= p.x - f.w \div 2
      \/ p.y - f.h \div 2 + f.h <= q.y - e.h \div 2 \/ q.y - e.h \div 2 + e.h <= p.y - f.h \div 2
  BY <1>5, <1>7, DoubledTellApart
<1> DEFINE G == FootprintBounds(g)
           H == FootprintBounds(h)
<1>9. /\ G \in Rects /\ H \in Rects
      /\ G.x = p.x - f.w \div 2 /\ G.y = p.y - f.h \div 2 /\ G.w = f.w /\ G.h = f.h
      /\ H.x = q.x - e.w \div 2 /\ H.y = q.y - e.h \div 2 /\ H.w = e.w /\ H.h = e.h
  BY <1>5, <1>6 DEF Rect, Rects
<1> HIDE DEF G, H
<1>10. \/ G.x + G.w <= H.x \/ H.x + H.w <= G.x
       \/ G.y + G.h <= H.y \/ H.y + H.h <= G.y
  BY <1>8, <1>9
<1>11. ASSUME NEW c \in Cells(G), c \in Cells(H)
       PROVE  FALSE
  <2>1. PICK x, y \in Int : c = <<x, y>>
    BY <1>9, <1>11, CellsAre
  <2>2. /\ G.x <= x /\ x < G.x + G.w /\ G.y <= y /\ y < G.y + G.h
        /\ H.x <= x /\ x < H.x + H.w /\ H.y <= y /\ y < H.y + H.h
    BY <1>9, <1>11, <2>1, CellsAre
  <2>3. /\ G.x \in Int /\ G.y \in Int /\ G.w \in Int /\ G.h \in Int
        /\ H.x \in Int /\ H.y \in Int /\ H.w \in Int /\ H.h \in Int
    BY <1>9 DEF Rects
  <2> QED BY <1>10, <2>2, <2>3
<1> QED BY <1>11 DEF G, H

\* What is locked stays where it was.
LEMMA SoundKeepsLocked ==
  ASSUME NEW b, NEW pos, IsBoard(b), Loadable(b), IsSound(b, pos)
  PROVE  KeepsLocked(b, Placed(b, pos))
<1>1. ASSUME NEW f \in b.footprints, f.lock
      PROVE  \E g \in Placed(b, pos).footprints : g.id = f.id /\ g.lock /\ g.pos = f.pos /\ g.layer = f.layer
  <2>1. PICK g \in Placed(b, pos).footprints :
          g.id = f.id /\ g.pos = pos[f.id] /\ g.layer = f.layer /\ g.lock = f.lock
    BY PlacedAre
  <2>2. f.id \in FootprintIds(b)
    BY DEF FootprintIds
  <2>3. FootprintOf(b, f.id) = f
    BY <2>2, FootprintIs DEF Loadable, UniqueIds, Objects
  <2>4. pos[f.id] = f.pos
    BY <1>1, <2>2, <2>3, CellsArePoints DEF IsSound
  <2> QED BY <1>1, <2>1, <2>4
<1>2. b.routes \cup b.vias \cup b.zones \subseteq Objects(Placed(b, pos))
  BY PlacedAre DEF Objects
<1> QED BY <1>1, <1>2 DEF KeepsLocked

-----------------------------------------------------------------------------
(* The ground pour. *)

\* Cutting one more region out of exact tiles leaves exact tiles.
LEMMA CutStaysExact ==
  ASSUME NEW tiles, NEW whole, NEW cut, NEW r \in Rects,
         tiles \subseteq Rects, AreExact(tiles, whole, cut)
  PROVE  /\ UNION {Subtract(t, r) : t \in tiles} \subseteq Rects
         /\ AreExact(UNION {Subtract(t, r) : t \in tiles}, whole, cut \cup {r})
<1> DEFINE next == UNION {Subtract(t, r) : t \in tiles}
           covered == UNION {Cells(t) : t \in tiles}
           board0 == UNION {Cells(t) : t \in whole}
           out == UNION {Cells(t) : t \in cut}
<1>1. \A t \in tiles : /\ Subtract(t, r) \subseteq Rects
                       /\ UNION {Cells(s) : s \in Subtract(t, r)} = Cells(t) \ Cells(r)
                       /\ \A s, u \in Subtract(t, r) : s # u => Cells(s) \cap Cells(u) = {}
  BY SubtractIsExact
<1>2. next \subseteq Rects
  BY <1>1
<1>3. covered = board0 \ out
  BY DEF AreExact
<1>4. UNION {Cells(s) : s \in next} = covered \ Cells(r)
  <2>1. ASSUME NEW c \in UNION {Cells(s) : s \in next}
        PROVE  c \in covered /\ c \notin Cells(r)
    <3>1. PICK s \in next : c \in Cells(s)
      OBVIOUS
    <3>2. PICK t \in tiles : s \in Subtract(t, r)
      OBVIOUS
    <3>3. c \in UNION {Cells(u) : u \in Subtract(t, r)}
      BY <3>1, <3>2
    <3> QED BY <3>3, <1>1
  <2>2. ASSUME NEW c \in covered, c \notin Cells(r)
        PROVE  c \in UNION {Cells(s) : s \in next}
    <3>1. PICK t \in tiles : c \in Cells(t)
      OBVIOUS
    <3>2. c \in UNION {Cells(u) : u \in Subtract(t, r)}
      BY <3>1, <2>2, <1>1
    <3>3. PICK s \in Subtract(t, r) : c \in Cells(s)
      BY <3>2
    <3>4. s \in next
      OBVIOUS
    <3> QED BY <3>3, <3>4
  <2> HIDE DEF next, covered
  <2> QED BY <2>1, <2>2
<1>5. UNION {Cells(t) : t \in cut \cup {r}} = out \cup Cells(r)
  OBVIOUS
<1>6. ASSUME NEW s \in next, NEW u \in next, s # u, NEW c \in Cells(s), c \in Cells(u)
      PROVE  FALSE
  <2>1. PICK t \in tiles : s \in Subtract(t, r)
    OBVIOUS
  <2>2. PICK v \in tiles : u \in Subtract(v, r)
    OBVIOUS
  <2>3. CASE t = v
    <3>1. u \in Subtract(t, r)
      BY <2>2, <2>3
    <3>2. Cells(s) \cap Cells(u) = {}
      BY <1>1, <1>6, <2>1, <3>1
    <3> QED BY <1>6, <3>2
  <2>4. CASE t # v
    <3>1. c \in UNION {Cells(x) : x \in Subtract(t, r)} /\ c \in UNION {Cells(x) : x \in Subtract(v, r)}
      BY <1>6, <2>1, <2>2
    <3>2. c \in Cells(t) /\ c \in Cells(v)
      BY <1>1, <3>1
    <3> QED BY <2>4, <3>2 DEF AreExact
  <2> QED BY <2>3, <2>4
<1> HIDE DEF next, covered, board0, out
<1>7. UNION {Cells(s) : s \in next} = board0 \ (out \cup Cells(r))
  BY <1>3, <1>4
<1>8. UNION {Cells(s) : s \in next} = board0 \ UNION {Cells(t) : t \in cut \cup {r}}
  BY <1>5, <1>7
<1> QED BY <1>2, <1>6, <1>8 DEF AreExact, next, board0

\* There are finitely many tiles at every time.
LEMMA CutIsFinite ==
  ASSUME NEW tiles, NEW r, IsFiniteSet(tiles)
  PROVE  IsFiniteSet(UNION {Subtract(t, r) : t \in tiles})
<1> DEFINE part == [t \in tiles |-> Subtract(t, r)]
           parts == {part[t] : t \in DOMAIN part}
<1>1. \A t \in tiles : IsFiniteSet(Subtract(t, r))
  <2> TAKE t \in tiles
  <2>1. \A a, b, c, d : IsFiniteSet({a, b, c, d}) /\ IsFiniteSet({a})
    <3> TAKE a, b, c, d
    <3>1. {a, b} = {a} \cup {b} /\ {a, b, c} = {a, b} \cup {c} /\ {a, b, c, d} = {a, b, c} \cup {d}
      OBVIOUS
    <3>2. IsFiniteSet({a})
      BY FS_Singleton
    <3>3. IsFiniteSet({a, b})
      BY <3>1, <3>2, FS_AddElement
    <3>4. IsFiniteSet({a, b, c})
      BY <3>1, <3>3, FS_AddElement
    <3>5. IsFiniteSet({a, b, c, d})
      BY <3>1, <3>4, FS_AddElement
    <3> QED BY <3>2, <3>5
  <2>2. Subtract(t, r) = {t} \/ \E a, b, c, d : Subtract(t, r) \subseteq {a, b, c, d}
    <3> DEFINE left == Most(t.x, r.x)
               bottom == Most(t.y, r.y)
               right == Least(t.x + t.w, r.x + r.w)
               top == Least(t.y + t.h, r.y + r.h)
               strips == {Rect(t.x, t.y, left - t.x, t.h), Rect(right, t.y, t.x + t.w - right, t.h),
                          Rect(left, t.y, right - left, bottom - t.y),
                          Rect(left, top, right - left, t.y + t.h - top)}
    <3>1. Subtract(t, r) = IF left >= right \/ bottom >= top THEN {t}
                           ELSE {s \in strips : s.w > 0 /\ s.h > 0}
      BY DEF Subtract
    <3>2. \E a, b, c, d : strips = {a, b, c, d}
      OBVIOUS
    <3> HIDE DEF left, bottom, right, top, strips
    <3> QED BY <3>1, <3>2
  <2> QED BY <2>1, <2>2, FS_Subset
<1>2. parts = {Subtract(t, r) : t \in tiles} /\ DOMAIN part = tiles
  OBVIOUS
<1>3. \A s \in parts : IsFiniteSet(s)
  BY <1>1, <1>2
<1> HIDE DEF part, parts
<1>4. IsFiniteSet(parts)
  <2>1. IsFiniteSet({part[t] : t \in DOMAIN part})
    BY <1>2, FinitelyMany
  <2> QED BY <2>1 DEF parts
<1>5. IsFiniteSet(UNION parts)
  BY <1>3, <1>4, FS_UNION
<1> QED BY <1>2, <1>5

\* A tile becomes a zone.
LEMMA GroundZoneIsZone ==
  ASSUME NEW b, NEW layer, NEW t \in Rects, t.w > 0, t.h > 0, IsBoard(b), Loadable(b),
         GND \in DOMAIN b.class
  PROVE  IsZone(GroundZone(b, layer, t))
BY ClearancesAreNumbers DEF GroundZone, IsZone, Loadable

\* Stitching vias stand at points.
LEMMA StitchingAreVias ==
  ASSUME NEW b, NEW zones, IsBoard(b), BoardRect(b) # {}
  PROVE  IsFiniteSet(StitchingVias(b, zones)) /\ \A v \in StitchingVias(b, zones) : IsVia(v)
<1> DEFINE board0 == CHOOSE r \in BoardRect(b) : TRUE
           line(lo, len) == {c \in lo + Pitch \div 2 .. lo + len - 1 : (c - lo - Pitch \div 2) % Pitch = 0}
           points == {Point(x, y) : x \in line(board0.x, board0.w), y \in line(board0.y, board0.h)}
           good == {p \in points : Cardinality(Covered(b, zones, p)) >= 2 /\ ~StitchingBlocked(b, p)}
           before(p) == {q \in good : q.y < p.y \/ (q.y = p.y /\ q.x < p.x)}
           via(p) == [kind |-> "via", id |-> <<"stitch", p>>, net |-> GND, pos |-> p, diameter |-> ViaDiameter,
                      layers |-> Covered(b, zones, p), lock |-> FALSE]
<1>1. StitchingVias(b, zones) = {via(p) : p \in {p \in good : Cardinality(before(p)) < MaxVias}}
  BY DEF StitchingVias
<1>2. board0 \in Rects
  BY BoardRectIsRect
<1> HIDE DEF board0
<1>3. \A lo, len \in Int : line(lo, len) \subseteq Int /\ IsFiniteSet(line(lo, len))
  <2> SUFFICES ASSUME NEW lo \in Int, NEW len \in Int
               PROVE  line(lo, len) \subseteq Int /\ IsFiniteSet(line(lo, len))
    OBVIOUS
  <2>1. lo + Pitch \div 2 \in Int /\ lo + len - 1 \in Int
    BY CopperAssumption
  <2>2. line(lo, len) \subseteq lo + Pitch \div 2 .. lo + len - 1
    OBVIOUS
  <2>3. IsFiniteSet(lo + Pitch \div 2 .. lo + len - 1)
    BY <2>1, FS_Interval
  <2> HIDE DEF line
  <2> QED BY <2>1, <2>2, <2>3, FS_Subset
<1> HIDE DEF line
<1>4. /\ line(board0.x, board0.w) \subseteq Int /\ line(board0.y, board0.h) \subseteq Int
      /\ IsFiniteSet(line(board0.x, board0.w)) /\ IsFiniteSet(line(board0.y, board0.h))
  BY <1>2, <1>3 DEF Rects
<1> DEFINE pairs == line(board0.x, board0.w) \X line(board0.y, board0.h)
           point == [q \in pairs |-> Point(q[1], q[2])]
<1>9. IsFiniteSet(points)
  <2>1. IsFiniteSet(pairs) /\ DOMAIN point = pairs
    BY <1>4, FS_Product
  <2>2. points = {point[q] : q \in DOMAIN point}
    <3> HIDE DEF line, board0
    <3>1. \A x \in line(board0.x, board0.w), y \in line(board0.y, board0.h) :
            <<x, y>> \in pairs /\ point[<<x, y>>] = Point(x, y)
      OBVIOUS
    <3>2. \A q \in pairs : /\ q[1] \in line(board0.x, board0.w) /\ q[2] \in line(board0.y, board0.h)
                           /\ point[q] = Point(q[1], q[2])
      OBVIOUS
    <3>3. DOMAIN point = pairs
      OBVIOUS
    <3> HIDE DEF pairs, point
    <3>4. ASSUME NEW p \in points PROVE p \in {point[q] : q \in DOMAIN point}
      <4>1. PICK x \in line(board0.x, board0.w), y \in line(board0.y, board0.h) : p = Point(x, y)
        OBVIOUS
      <4>2. <<x, y>> \in DOMAIN point /\ p = point[<<x, y>>]
        BY <4>1, <3>1, <3>3
      <4> HIDE DEF points
      <4> QED BY <4>2
    <3>5. ASSUME NEW q \in pairs PROVE point[q] \in points
      BY <3>2
    <3> HIDE DEF points
    <3> QED BY <3>3, <3>4, <3>5
  <2> HIDE DEF point, points, pairs
  <2> QED BY <2>1, <2>2, FinitelyMany
<1>5. \A x, y \in Int : Point(x, y) \in Points
  BY DEF Point, Points
<1>6. points \subseteq Points
  BY <1>4, <1>5
<1> HIDE DEF points
<1>7. good \subseteq Points /\ IsFiniteSet(good)
  BY <1>6, <1>9, FS_Subset
<1> HIDE DEF good
<1>10. IsFiniteSet({via(p) : p \in {p \in good : Cardinality(before(p)) < MaxVias}})
  <2> DEFINE chosen == {p \in good : Cardinality(before(p)) < MaxVias}
             make == [p \in chosen |-> via(p)]
  <2>1. IsFiniteSet(chosen)
    BY <1>7, FS_Subset
  <2>2. {via(p) : p \in chosen} = {make[p] : p \in DOMAIN make} /\ DOMAIN make = chosen
    OBVIOUS
  <2> HIDE DEF make, chosen, via
  <2>3. IsFiniteSet({via(p) : p \in chosen})
    BY <2>1, <2>2, FinitelyMany
  <2> QED BY <2>3 DEF chosen
<1>8. \A p \in Points : IsVia(via(p))
  BY CopperAssumption DEF IsVia
<1> HIDE DEF via, before
<1> QED BY <1>1, <1>7, <1>8, <1>10

\* The plan is a proposal.
LEMMA PlanIsProposal ==
  ASSUME NEW b, NEW zones, NEW vias,
         IsFiniteSet(zones), \A z \in zones : IsZone(z), IsFiniteSet(vias), \A v \in vias : IsVia(v)
  PROVE  IsProposal(PlanOperations(b, zones, vias))
<1> DEFINE pourOp == [type |-> "zones", zones |-> zones, thermal |-> ThermalPads(b, zones)]
           stitchOp == [type |-> "stitch", vias |-> vias]
<1>1. IsOp(pourOp) /\ IsOp(stitchOp)
  BY DEF IsOp
<1> HIDE DEF pourOp, stitchOp
<1> DEFINE first == IF zones = {} THEN <<>> ELSE <<pourOp>>
           second == IF vias = {} THEN <<>> ELSE <<stitchOp>>
           ops == first \o second
<1>2. first \in Seq({pourOp, stitchOp}) /\ second \in Seq({pourOp, stitchOp})
  <2>1. \A S : <<>> \in Seq(S) /\ \A e \in S : <<e>> \in Seq(S)
    OBVIOUS
  <2>2. CASE zones = {} /\ vias = {}
    BY <2>1, <2>2
  <2>3. CASE zones = {} /\ vias # {}
    BY <2>1, <2>3
  <2>4. CASE zones # {} /\ vias = {}
    BY <2>1, <2>4
  <2>5. CASE zones # {} /\ vias # {}
    BY <2>1, <2>5
  <2> QED BY <2>2, <2>3, <2>4, <2>5
<1> HIDE DEF first, second
<1>3. ops \in Seq({pourOp, stitchOp})
  BY <1>2
<1> HIDE DEF ops
<1>4. Len(ops) \in Nat /\ DOMAIN ops = 1 .. Len(ops) /\ \A i \in DOMAIN ops : ops[i] \in {pourOp, stitchOp}
  BY <1>3
<1>5. IsProposal(ops)
  BY <1>1, <1>4 DEF IsProposal
<1> QED BY <1>5 DEF PlanOperations, pourOp, stitchOp, first, second, ops

-----------------------------------------------------------------------------
(* The inductive invariant holds: the initial states, and each action. *)

\* It holds of the boards to begin with.
LEMMA InitIsSound == Init => IInv
<1> SUFFICES ASSUME Init PROVE IInv
  OBVIOUS
<1>1. IsBoard(board) /\ Loadable(board)
  BY BoardsAssumption DEF Init
<1>2. place = PlaceIdle /\ pour = PourIdle /\ place.phase = "idle" /\ pour.phase = "idle"
      /\ proposal = NoProposal /\ proposal.by = "nobody" /\ stage = "place" /\ pour.zones = {}
  BY DEF Init, PlaceIdle, PourIdle, NoProposal
<1>3. IsProposal(proposal.ops) /\ AreZones(pour.zones)
  BY <1>2, FS_EmptySet DEF NoProposal, IsProposal, AreZones
<1> QED BY <1>1, <1>2, <1>3 DEF IInv, Turns, Searching, Offered, PouringSound

\* Every step of the placement solver keeps it.
LEMMA PlacingIsSound ==
  ASSUME IInv, Placing
  PROVE  IInv'
<1>1. /\ stage = "place" /\ place.phase # "done" /\ proposal = NoProposal
      /\ stage' = stage /\ pour' = pour
      /\ IsBoard(board) /\ Loadable(board) /\ IsProposal(NoProposal.ops)
  BY DEF IInv, Placing, Turns
<1>2. /\ DOMAIN place = {"phase", "cells", "first", "run", "step", "current", "best", "used"}
      /\ DOMAIN PlaceIdle = {"phase", "cells", "first", "run", "step", "current", "best", "used"}
  BY DEF IInv, PlaceIdle
<1> DEFINE Kept == /\ DOMAIN place' = DOMAIN PlaceIdle /\ board' = board /\ IsProposal(proposal'.ops)
                   /\ place'.phase # "done" => proposal' = NoProposal
                   /\ Searching(board, place') /\ Offered(board, proposal', place'.first)
<1>3. ASSUME Kept
      PROVE  IInv'
  <2>1. Turns(stage', place', pour', proposal')
    BY <1>1, <1>3 DEF IInv, Turns
  <2> QED BY <1>1, <1>3, <2>1 DEF IInv
<1>4. ASSUME NEW first
      PROVE  Offered(board, NoProposal, first)
  BY DEF Offered, NoProposal
<1>5. CASE SolveInfeasible
  <2>1. place' = [place EXCEPT !.phase = "done"] /\ board' = board /\ proposal' = NoProposal
    BY <1>1, <1>5 DEF SolveInfeasible, adapterVars
  <2>2. place'.phase = "done" /\ DOMAIN place' = DOMAIN PlaceIdle
    BY <1>2, <2>1
  <2> QED BY <1>1, <1>3, <1>4, <2>1, <2>2 DEF Searching
<1>6. CASE SolveBegins
  <2>1. PICK pos \in SolveCpSat(board, CellsOf(board), {}) :
          place' = [phase |-> "move", cells |-> CellsOf(board), first |-> pos, run |-> 1, step |-> 0,
                    current |-> pos, best |-> pos, used |-> {pos}]
    BY <1>6 DEF SolveBegins
  <2>2. board' = board /\ proposal' = NoProposal
    BY <1>1, <1>6 DEF SolveBegins, adapterVars
  <2>3. /\ DOMAIN place' = DOMAIN PlaceIdle /\ place'.cells = CellsOf(board)
        /\ place'.first = pos /\ place'.current = pos /\ place'.best = pos
    BY <1>2, <2>1
  <2>4. IsSound(board, pos)
    BY SolverIsSound
  <2>5. NoWorse(board, pos, pos)
    BY <1>1, <2>4, SoundIsPlacement DEF NoWorse
  <2>6. Searching(board, place')
    BY <2>3, <2>4, <2>5 DEF Searching
  <2> QED BY <1>1, <1>3, <1>4, <2>2, <2>3, <2>6
<1>7. CASE SolveStart
  <2>1. place.phase = "start" /\ board' = board /\ proposal' = NoProposal
    BY <1>1, <1>7 DEF SolveStart, adapterVars
  <2>2. /\ place.cells = CellsOf(board) /\ IsSound(board, place.first) /\ IsSound(board, place.best)
        /\ NoWorse(board, place.best, place.first)
    BY <2>1 DEF IInv, Searching
  <2>3. PICK pos \in SolveCpSat(board, place.cells, place.used) :
          place' = [place EXCEPT !.phase = "move", !.run = @ + 1, !.step = 0, !.current = pos,
                                 !.used = @ \cup {pos}]
    BY <1>7 DEF SolveStart
  <2>4. /\ DOMAIN place' = DOMAIN PlaceIdle /\ place'.cells = place.cells
        /\ place'.first = place.first /\ place'.current = pos /\ place'.best = place.best
    BY <1>2, <2>3
  <2>5. IsSound(board, pos)
    BY <2>2, SolverIsSound
  <2>6. Searching(board, place')
    BY <2>2, <2>4, <2>5 DEF Searching
  <2> QED BY <1>1, <1>3, <1>4, <2>1, <2>4, <2>6
<1>8. CASE Move
  <2>1. place.phase = "move" /\ board' = board /\ proposal' = NoProposal
    BY <1>1, <1>8 DEF Move, adapterVars
  <2>2. /\ place.cells = CellsOf(board) /\ IsSound(board, place.first) /\ IsSound(board, place.best)
        /\ NoWorse(board, place.best, place.first) /\ IsSound(board, place.current)
    BY <2>1 DEF IInv, Searching
  <2>3. PICK f \in {f \in board.footprints : ~f.lock} : \E p \in place.cells[f.id] :
          /\ ~HasOverlap(board, [place.current EXCEPT ![f.id] = p])
          /\ place' = [place EXCEPT !.step = @ + 1, !.current = [place.current EXCEPT ![f.id] = p]]
    BY <1>8 DEF Move
  <2>4. PICK p \in place.cells[f.id] :
          /\ ~HasOverlap(board, [place.current EXCEPT ![f.id] = p])
          /\ place' = [place EXCEPT !.step = @ + 1, !.current = [place.current EXCEPT ![f.id] = p]]
    BY <2>3
  <2>5. IsSound(board, [place.current EXCEPT ![f.id] = p])
    BY <2>2, <2>3, <2>4, MoveIsSound
  <2>6. /\ DOMAIN place' = DOMAIN PlaceIdle /\ place'.cells = place.cells
        /\ place'.first = place.first /\ place'.current = [place.current EXCEPT ![f.id] = p]
        /\ place'.best = place.best
    BY <1>2, <2>4
  <2>7. Searching(board, place')
    BY <2>2, <2>5, <2>6 DEF Searching
  <2>8. place'.phase # "done"
    BY <1>2, <2>1, <2>4
  <2> QED BY <1>1, <1>3, <1>4, <2>1, <2>6, <2>7, <2>8
<1>9. CASE EndStart
  <2>1. place.phase = "move" /\ board' = board /\ proposal' = NoProposal
    BY <1>1, <1>9 DEF EndStart, adapterVars
  <2>2. /\ place.cells = CellsOf(board) /\ IsSound(board, place.first) /\ IsSound(board, place.best)
        /\ NoWorse(board, place.best, place.first) /\ IsSound(board, place.current)
    BY <2>1 DEF IInv, Searching
  <2>3. PICK take \in BOOLEAN :
          /\ ScoreLayout(board, place.current) - ScoreLayout(board, place.best) > 0 => ~take
          /\ place' = [place EXCEPT !.phase = "start", !.best = IF take THEN place.current ELSE @]
    BY <1>9 DEF EndStart
  <2>4. /\ DOMAIN place' = DOMAIN PlaceIdle /\ place'.cells = place.cells
        /\ place'.first = place.first /\ place'.current = place.current
        /\ place'.best = IF take THEN place.current ELSE place.best
    BY <1>2, <2>3
  <2>5. /\ ScoreLayout(board, place.current) \in Int /\ ScoreLayout(board, place.best) \in Int
        /\ ScoreLayout(board, place.first) \in Int
    BY <1>1, <2>2, SoundIsPlacement
  <2>6. take => NoWorse(board, place.current, place.first)
    BY <2>2, <2>3, <2>5 DEF NoWorse
  <2>7. IsSound(board, place'.best) /\ NoWorse(board, place'.best, place'.first)
    BY <2>2, <2>4, <2>6
  <2>8. Searching(board, place')
    BY <2>2, <2>4, <2>7 DEF Searching
  <2> QED BY <1>1, <1>3, <1>4, <2>1, <2>4, <2>8
<1>10. CASE Place
  <2>1. /\ place.phase = "start" /\ board' = board
        /\ proposal' = [by |-> "placer", ops |-> <<[type |-> "place", pos |-> place.best]>>]
        /\ place' = [PlaceIdle EXCEPT !.phase = "done", !.first = place.first]
    BY <1>10 DEF Place
  <2>2. IsSound(board, place.best) /\ NoWorse(board, place.best, place.first)
    BY <2>1 DEF IInv, Searching
  <2>3. DOMAIN place' = DOMAIN PlaceIdle /\ place'.phase = "done" /\ place'.first = place.first
    BY <1>2, <2>1
  <2>4. proposal'.ops[1].pos = place.best
    BY <2>1
  <2>5. Offered(board, proposal', place'.first)
    BY <2>2, <2>3, <2>4 DEF Offered
  <2>6. IsProposal(proposal'.ops)
    <3> DEFINE op == [type |-> "place", pos |-> place.best]
    <3>1. \A i \in DOMAIN place.best : place.best[i] \in Points
      BY <1>1, <2>2, SoundIsPlacement DEF IsSound, IsPlacement
    <3>2. IsOp(op)
      BY <3>1 DEF IsOp
    <3> HIDE DEF op
    <3>3. IsProposal(<<op>>)
      BY <3>2 DEF IsProposal
    <3> QED BY <2>1, <3>3 DEF op
  <2> QED BY <1>3, <2>1, <2>3, <2>5, <2>6 DEF Searching
<1> QED BY <1>5, <1>6, <1>7, <1>8, <1>9, <1>10 DEF Placing

\* Every step of the copper planner keeps it.
LEMMA PouringIsSound ==
  ASSUME IInv, Pouring
  PROVE  IInv'
<1>1. /\ stage = "pour" /\ pour.phase # "done" /\ proposal = NoProposal
      /\ stage' = stage /\ place' = place
      /\ IsBoard(board) /\ Loadable(board) /\ IsProposal(NoProposal.ops)
  BY DEF IInv, Pouring, Turns
<1>2. /\ DOMAIN pour = {"phase", "todo", "layer", "cut", "left", "tiles", "zones", "islands", "findings"}
      /\ DOMAIN PourIdle = {"phase", "todo", "layer", "cut", "left", "tiles", "zones", "islands", "findings"}
  BY DEF IInv, PourIdle
<1> DEFINE Kept == /\ DOMAIN pour' = DOMAIN PourIdle /\ board' = board /\ IsProposal(proposal'.ops)
                   /\ pour'.phase # "done" => proposal' = NoProposal
                   /\ proposal'.by # "placer" /\ PouringSound(board, pour')
<1>3. ASSUME Kept
      PROVE  IInv'
  <2>1. Turns(stage', place', pour', proposal')
    BY <1>1, <1>3 DEF IInv, Turns
  <2>2. Offered(board', proposal', place'.first)
    BY <1>3 DEF Offered
  <2> QED BY <1>1, <1>3, <2>1, <2>2 DEF IInv
<1>4. NoProposal.by # "placer"
  BY DEF NoProposal
<1>5. CASE PlanRefused
  <2>1. board' = board /\ proposal' = NoProposal
    BY <1>1, <1>5 DEF PlanRefused, adapterVars
  <2>2. \E found : pour' = [pour EXCEPT !.phase = "done", !.findings = found]
    BY <1>5 DEF PlanRefused
  <2>3. pour'.phase = "done" /\ DOMAIN pour' = DOMAIN PourIdle /\ pour'.zones = pour.zones
    BY <1>2, <2>2
  <2>4. AreZones(pour.zones)
    BY DEF IInv, PouringSound
  <2> QED BY <1>1, <1>3, <1>4, <2>1, <2>3, <2>4 DEF PouringSound
<1>6. CASE PlanStarts
  <2>1. board' = board /\ proposal' = NoProposal /\ Obstacles(board) = {}
    BY <1>1, <1>6 DEF PlanStarts, adapterVars
  <2>2. pour.phase = "idle" /\ pour' = [pour EXCEPT !.phase = "layers", !.todo = board.layers]
    BY <1>6 DEF PlanStarts
  <2>3. pour'.phase = "layers" /\ DOMAIN pour' = DOMAIN PourIdle /\ pour'.zones = pour.zones
    BY <1>2, <2>2
  <2>4. AreZones(pour.zones)
    BY DEF IInv, PouringSound
  <2>5. BoardRect(board) # {} /\ GND \in DOMAIN board.class
    BY <2>1 DEF Obstacles
  <2> QED BY <1>1, <1>3, <1>4, <2>1, <2>3, <2>4, <2>5 DEF PouringSound
<1>7. CASE TakeLayer
  <2>1. board' = board /\ proposal' = NoProposal /\ pour.phase = "layers"
    BY <1>1, <1>7 DEF TakeLayer, adapterVars
  <2>2. PICK l \in pour.todo :
          pour' = [pour EXCEPT !.phase = "cutting", !.todo = @ \ {l}, !.layer = l, !.cut = {},
                               !.left = ExcludedRegions(board, l), !.tiles = BoardRect(board)]
    BY <1>7 DEF TakeLayer
  <2>3. /\ pour'.phase = "cutting" /\ DOMAIN pour' = DOMAIN PourIdle /\ pour'.zones = pour.zones
        /\ pour'.cut = {} /\ pour'.left = ExcludedRegions(board, l) /\ pour'.tiles = BoardRect(board)
    BY <1>2, <2>2
  <2>4. BoardRect(board) # {} /\ GND \in DOMAIN board.class /\ AreZones(pour.zones)
    BY <2>1 DEF IInv, PouringSound
  <2>5. pour'.tiles \subseteq Rects /\ pour'.left \subseteq Rects
    BY <1>1, <2>3, <2>4, BoardRectIsRect, RegionsAreRects DEF Loadable
  <2>6. AreExact(BoardRect(board), BoardRect(board), {}) /\ IsFiniteSet(BoardRect(board))
    BY <1>1, BoardRectIsRect, FS_EmptySet, FS_Singleton DEF AreExact, BoardRect
  <2>7. \A t \in pour'.tiles : t.w > 0 /\ t.h > 0
    BY <1>1, <2>3, BoardRectIsRect
  <2> QED BY <1>1, <1>3, <1>4, <2>1, <2>3, <2>4, <2>5, <2>6, <2>7 DEF PouringSound
<1>8. CASE CutRegion
  <2>1. board' = board /\ proposal' = NoProposal /\ pour.phase = "cutting"
    BY <1>1, <1>8 DEF CutRegion, adapterVars
  <2>2. PICK r \in pour.left :
          pour' = [pour EXCEPT !.left = @ \ {r}, !.cut = @ \cup {r},
                               !.tiles = UNION {Subtract(t, r) : t \in @}]
    BY <1>8 DEF CutRegion
  <2>3. /\ pour'.phase = "cutting" /\ DOMAIN pour' = DOMAIN PourIdle /\ pour'.zones = pour.zones
        /\ pour'.cut = pour.cut \cup {r} /\ pour'.left = pour.left \ {r}
        /\ pour'.tiles = UNION {Subtract(t, r) : t \in pour.tiles}
    BY <1>2, <2>1, <2>2
  <2>4. /\ BoardRect(board) # {} /\ GND \in DOMAIN board.class /\ AreZones(pour.zones)
        /\ IsFiniteSet(pour.tiles) /\ pour.tiles \subseteq Rects
        /\ \A t \in pour.tiles : t.w > 0 /\ t.h > 0
        /\ pour.left \subseteq Rects /\ pour.cut \subseteq Rects
        /\ AreExact(pour.tiles, BoardRect(board), pour.cut)
    BY <2>1 DEF IInv, PouringSound
  <2>5. r \in Rects
    BY <2>4
  <2> DEFINE next == UNION {Subtract(t, r) : t \in pour.tiles}
  <2>6. /\ IsFiniteSet(pour'.tiles) /\ pour'.tiles \subseteq Rects
        /\ AreExact(pour'.tiles, BoardRect(board), pour'.cut)
    <3>1. next \subseteq Rects /\ AreExact(next, BoardRect(board), pour.cut \cup {r})
      BY <2>4, <2>5, CutStaysExact
    <3>2. pour'.tiles = next /\ pour'.cut = pour.cut \cup {r}
      BY <2>3
    <3>3. IsFiniteSet(next)
      BY <2>4, CutIsFinite
    <3> HIDE DEF next
    <3> QED BY <3>1, <3>2, <3>3
  <2>7. pour'.cut \subseteq Rects /\ pour'.left \subseteq Rects
    BY <2>3, <2>4, <2>5
  <2>8. \A t \in pour'.tiles : t.w > 0 /\ t.h > 0
    BY <2>3, <2>4 DEF Subtract
  <2> QED BY <1>1, <1>3, <1>4, <2>1, <2>3, <2>4, <2>6, <2>7, <2>8 DEF PouringSound
<1>9. CASE CloseLayer
  <2>1. board' = board /\ proposal' = NoProposal /\ pour.phase = "cutting"
    BY <1>1, <1>9 DEF CloseLayer, adapterVars
  <2> DEFINE anchored == AnchoredTiles(board, pour.layer, pour.tiles)
             kept == {t \in pour.tiles : t \in anchored /\ Area(t) >= MinIsland}
             more == {GroundZone(board, pour.layer, t) : t \in kept}
  <2>2. pour' = [pour EXCEPT !.phase = IF pour.todo = {} THEN "stitching" ELSE "layers",
                             !.tiles = {}, !.zones = @ \cup more,
                             !.islands = @ \cup {<<pour.layer, t>> : t \in pour.tiles \ kept}]
    BY <1>9 DEF CloseLayer
  <2>3. /\ pour'.phase \in {"stitching", "layers"} /\ DOMAIN pour' = DOMAIN PourIdle
        /\ pour'.zones = pour.zones \cup more
    BY <1>2, <2>2
  <2>4. /\ BoardRect(board) # {} /\ GND \in DOMAIN board.class /\ AreZones(pour.zones)
        /\ pour.tiles \subseteq Rects /\ IsFiniteSet(pour.tiles)
        /\ \A t \in pour.tiles : t.w > 0 /\ t.h > 0
    BY <2>1 DEF IInv, PouringSound
  <2>5. AreZones(more)
    <3>1. \A z \in more : IsZone(z)
      BY <1>1, <2>4, GroundZoneIsZone
    <3>2. IsFiniteSet(kept)
      BY <2>4, FS_Subset
    <3>3. IsFiniteSet(more)
      <4> DEFINE zone == [t \in kept |-> GroundZone(board, pour.layer, t)]
      <4>1. more = {zone[t] : t \in DOMAIN zone} /\ DOMAIN zone = kept
        OBVIOUS
      <4> HIDE DEF zone, kept, more
      <4> QED BY <3>2, <4>1, FinitelyMany
    <3> QED BY <3>1, <3>3 DEF AreZones
  <2> HIDE DEF more
  <2>6. AreZones(pour'.zones)
    BY <2>3, <2>4, <2>5, FS_Union DEF AreZones
  <2> QED BY <1>1, <1>3, <1>4, <2>1, <2>3, <2>4, <2>6 DEF PouringSound
<1>10. CASE PlanEnds
  <2> DEFINE vias == StitchingVias(board, pour.zones)
  <2>1. board' = board /\ pour.phase = "stitching"
    BY <1>10 DEF PlanEnds
  <2>2. \E found : pour' = [pour EXCEPT !.phase = "done", !.findings = found]
    BY <1>10 DEF PlanEnds
  <2>3. pour'.phase = "done" /\ DOMAIN pour' = DOMAIN PourIdle /\ pour'.zones = pour.zones
    BY <1>2, <2>2
  <2>4. \/ proposal' = NoProposal
        \/ proposal' = [by |-> "planner", ops |-> PlanOperations(board, pour.zones, vias)]
    BY <1>10 DEF PlanEnds
  <2>5. BoardRect(board) # {} /\ GND \in DOMAIN board.class /\ AreZones(pour.zones)
    BY <2>1 DEF IInv, PouringSound
  <2>6. IsFiniteSet(vias) /\ \A v \in vias : IsVia(v)
    BY <1>1, <2>5, StitchingAreVias
  <2>7. IsProposal(PlanOperations(board, pour.zones, vias))
    BY <2>5, <2>6, PlanIsProposal DEF AreZones
  <2> HIDE DEF vias
  <2>8. IsProposal(proposal'.ops) /\ proposal'.by # "placer"
    BY <1>1, <1>4, <2>4, <2>7
  <2> QED BY <1>3, <2>1, <2>3, <2>5, <2>8 DEF PouringSound
<1> QED BY <1>5, <1>6, <1>7, <1>8, <1>9, <1>10 DEF Pouring

\* An executed proposal leaves a board, the old one or the one it describes.
LEMMA ExecuteIsSound ==
  ASSUME IInv, Execute
  PROVE  IInv'
<1> DEFINE end == Applying(board, proposal.ops)
           verdict == Verdict(board, end)
<1>1. /\ proposal.ops # <<>> /\ proposal' = NoProposal
      /\ board' = IF verdict = "clean" THEN end.board ELSE board
      /\ place' = place /\ pour' = pour /\ stage' = stage
  BY DEF Execute, Apply
<1>2. proposal # NoProposal
  BY <1>1 DEF NoProposal
<1>3. verdict = "clean" => ~end.raised
  BY DEF Verdict
<1>4. IsBoard(board) /\ Loadable(board) /\ IsProposal(proposal.ops)
  BY DEF IInv
<1>5. ~end.raised => IsBoard(end.board) /\ Loadable(end.board)
  BY <1>4, ApplyingIsBoard
<1> HIDE DEF end, verdict
<1>6. IsBoard(board') /\ Loadable(board')
  BY <1>1, <1>3, <1>4, <1>5
<1>7. /\ place.phase \notin {"start", "move"}
      /\ pour.phase \notin {"layers", "cutting", "stitching"}
  BY <1>2 DEF IInv, Turns
<1>8. IsProposal(NoProposal.ops) /\ NoProposal.by # "placer"
  BY DEF IsProposal, NoProposal
<1>9. Turns(stage', place', pour', proposal')
  BY <1>1 DEF IInv, Turns
<1> QED BY <1>1, <1>6, <1>7, <1>8, <1>9 DEF IInv, Searching, Offered, PouringSound

\* A client's operations and the change of turns keep it.
LEMMA TurnsAreSound ==
  ASSUME IInv, Hand \/ Advance
  PROVE  IInv'
<1>1. CASE Hand
  <2>1. PICK ops \in ByHand : proposal' = [by |-> "client", ops |-> ops]
    BY <1>1 DEF Hand
  <2>2. IsProposal(proposal'.ops) /\ proposal'.by # "placer"
    BY <2>1, ByHandAssumption DEF IsProposal
  <2>3. stage = "hand" /\ board' = board /\ place' = place /\ pour' = pour /\ stage' = stage
    BY <1>1 DEF Hand
  <2>4. Turns(stage', place', pour', proposal')
    BY <2>3 DEF IInv, Turns
  <2> QED BY <2>2, <2>3, <2>4 DEF IInv, Offered
<1>2. CASE Advance
  <2>1. proposal = NoProposal /\ proposal' = proposal /\ board' = board
    BY <1>2 DEF Advance, adapterVars
  <2>2. Offered(board', proposal', place'.first)
    BY <2>1 DEF Offered, NoProposal
  <2>3. CASE stage = "place" /\ place.phase = "done" /\ stage' = "hand" /\ place' = PlaceIdle /\ UNCHANGED pour
    <3>1. PlaceIdle.phase = "idle"
      BY DEF PlaceIdle
    <3>2. Turns(stage', place', pour', proposal')
      BY <2>3, <3>1 DEF IInv, Turns
    <3> QED BY <2>1, <2>2, <2>3, <3>1, <3>2 DEF IInv, Searching
  <2>4. CASE stage = "hand" /\ stage' = "pour" /\ UNCHANGED <<place, pour>>
    <3>1. Turns(stage', place', pour', proposal')
      BY <2>1, <2>4 DEF IInv, Turns
    <3> QED BY <2>1, <2>2, <2>4, <3>1 DEF IInv
  <2>5. CASE stage = "pour" /\ pour.phase = "done" /\ stage' = "end" /\ UNCHANGED <<place, pour>>
    <3>1. Turns(stage', place', pour', proposal')
      BY <2>1, <2>5 DEF IInv, Turns
    <3> QED BY <2>1, <2>2, <2>5, <3>1 DEF IInv
  <2> QED BY <1>2, <2>3, <2>4, <2>5 DEF Advance
<1> QED BY <1>1, <1>2

\* The inductive invariant is one.
THEOREM SoundnessIsInductive == Spec => []IInv
<1>1. IInv /\ [Next]_vars => IInv'
  <2> SUFFICES ASSUME IInv, [Next]_vars PROVE IInv'
    OBVIOUS
  <2>1. CASE UNCHANGED vars
    <3>1. /\ board' = board /\ proposal' = proposal /\ place' = place /\ pour' = pour /\ stage' = stage
      BY <2>1 DEF vars, adapterVars
    <3> QED BY <3>1 DEF IInv
  <2> QED BY <2>1, PlacingIsSound, PouringIsSound, ExecuteIsSound, TurnsAreSound DEF Next
<1> QED BY InitIsSound, <1>1, PTL DEF Spec

-----------------------------------------------------------------------------
(* Proposals, one operation after the other. *)

\* The working copies of a proposal, of which the last is what it comes to.
LEMMA ApplyingIs ==
  ASSUME NEW b, NEW ops, Len(ops) \in Nat
  PROVE  \E copy : IsCopies(b, ops, copy, Len(ops)) /\ Applying(b, ops) = copy[Len(ops)]
<1> DEFINE copy == CHOOSE copy : IsCopies(b, ops, copy, Len(ops))
<1>1. IsCopies(b, ops, copy, Len(ops))
  BY CopiesExist
<1>2. Applying(b, ops) = copy[Len(ops)]
  BY DEF Applying, IsCopies
<1> QED BY <1>1, <1>2

\* One operation leads where it leads.
LEMMA ApplyingOne ==
  ASSUME NEW b, NEW op
  PROVE  Applying(b, <<op>>) = Stepped(Begun(b), op)
<1> DEFINE ops == <<op>>
<1>1. Len(ops) = 1 /\ ops[1] = op
  OBVIOUS
<1> HIDE DEF ops
<1>2. PICK copy : IsCopies(b, ops, copy, 1) /\ Applying(b, ops) = copy[1]
  BY <1>1, ApplyingIs
<1>3. copy[0] = Begun(b) /\ copy[1] = Stepped(copy[0], ops[1])
  BY <1>2 DEF IsCopies
<1> QED BY <1>1, <1>2, <1>3 DEF ops

\* Two operations lead where the second leads from where the first one led.
LEMMA ApplyingTwo ==
  ASSUME NEW b, NEW op, NEW more
  PROVE  Applying(b, <<op, more>>) = Stepped(Stepped(Begun(b), op), more)
<1> DEFINE ops == <<op, more>>
<1>1. Len(ops) = 2 /\ Len(ops) \in Nat /\ ops[1] = op /\ ops[2] = more
  OBVIOUS
<1> HIDE DEF ops
<1>2. PICK copy : IsCopies(b, ops, copy, 2) /\ Applying(b, ops) = copy[2]
  BY <1>1, ApplyingIs
<1>3. copy[0] = Begun(b) /\ copy[1] = Stepped(copy[0], ops[1]) /\ copy[2] = Stepped(copy[1], ops[2])
  BY <1>2 DEF IsCopies
<1> QED BY <1>1, <1>2, <1>3 DEF ops

\* What has a lock.
Lockable(b) == b.footprints \cup b.routes \cup b.vias \cup b.zones

\* Nothing is locked or unlocked as long as no two things of one id differ in their locks.
LEMMA LocksStay ==
  ASSUME NEW before, IsBoard(before), NEW after,
         \A o \in Lockable(before), q \in Lockable(after) : o.id = q.id => o.lock = q.lock
  PROVE  LockChanged(before, after) = {}
<1> SUFFICES ASSUME NEW l \in Locks(before), <<l[1], ~l[2]>> \in Locks(after) PROVE FALSE
  BY DEF LockChanged
<1>1. PICK o \in Lockable(before) : l = <<o.id, o.lock>>
  BY DEF Locks, Lockable
<1>2. PICK q \in Lockable(after) : <<l[1], ~l[2]>> = <<q.id, q.lock>>
  BY DEF Locks, Lockable
<1>3. o.lock \in BOOLEAN
  BY DEF Lockable, IsBoard, IsFootprint, IsRoute, IsVia, IsZone
<1>4. q.id = o.id /\ q.lock = ~o.lock
  BY <1>1, <1>2
<1>5. q.lock = o.lock
  BY <1>4
<1> QED BY <1>3, <1>4, <1>5

\* When every object of a board is made of one of another board, and has its id, ids stay unique.
LEMMA IdsStayUnique ==
  ASSUME NEW b, UniqueIds(b), NEW after, NEW made,
         \A q \in Objects(after) : \E o \in Objects(b) : q = made[o] /\ q.id = o.id
  PROVE  UniqueIds(after)
<1> SUFFICES ASSUME NEW q \in Objects(after), NEW r \in Objects(after), q.id = r.id PROVE q = r
  BY DEF UniqueIds
<1>1. PICK o \in Objects(b) : q = made[o] /\ q.id = o.id
  OBVIOUS
<1>2. PICK p \in Objects(b) : r = made[p] /\ r.id = p.id
  OBVIOUS
<1>3. o = p
  BY <1>1, <1>2 DEF UniqueIds
<1> QED BY <1>1, <1>2, <1>3

\* The kinds of objects are told apart by what they have.
LEMMA KindsDiffer ==
  ASSUME NEW b, IsBoard(b)
  PROVE  /\ b.footprints \cap b.pads = {}
         /\ (b.footprints \cup b.pads) \cap (b.routes \cup b.vias \cup b.zones \cup b.keepouts) = {}
<1>1. \A f \in b.footprints : "w" \in DOMAIN f
  BY DEF IsBoard, IsFootprint
<1>2. \A p \in b.pads : "w" \notin DOMAIN p /\ "thermal" \in DOMAIN p
  BY DEF IsBoard, IsPad
<1>3. \A o \in b.routes \cup b.vias \cup b.zones \cup b.keepouts :
        "w" \notin DOMAIN o /\ "thermal" \notin DOMAIN o
  BY DEF IsBoard, IsRoute, IsVia, IsZone, IsKeepout
<1> QED BY <1>1, <1>2, <1>3

\* The board a sound placement leads to has the pads in their footprints' new places.
LEMMA PlacedHas ==
  ASSUME NEW b, NEW pos, IsBoard(b), Loadable(b), IsSound(b, pos)
  PROVE  LET after == Placed(b, pos) IN
         /\ after.outline = b.outline /\ after.layers = b.layers /\ after.class = b.class
         /\ after.keepouts = b.keepouts /\ after.routes = b.routes /\ after.vias = b.vias
         /\ after.zones = b.zones
         /\ after.footprints = {[f EXCEPT !.pos = pos[f.id]] : f \in b.footprints}
         /\ \A q \in after.pads : \E p \in b.pads, f \in b.footprints :
              /\ f.id = p.fp /\ q = [p EXCEPT !.pos = Point(p.pos.x + pos[f.id].x - f.pos.x,
                                                            p.pos.y + pos[f.id].y - f.pos.y)]
         /\ \A p \in b.pads, f \in b.footprints : f.id = p.fp =>
              [p EXCEPT !.pos = Point(p.pos.x + pos[f.id].x - f.pos.x, p.pos.y + pos[f.id].y - f.pos.y)]
                \in after.pads
<1> DEFINE origin(p) == (CHOOSE f \in b.footprints : f.id = p.fp).pos
           moved(p) == Point(p.pos.x + pos[p.fp].x - origin(p).x, p.pos.y + pos[p.fp].y - origin(p).y)
           foot(f) == IF f.id \in DOMAIN pos THEN [f EXCEPT !.pos = pos[f.id]] ELSE f
           pad(p) == IF p.fp \in DOMAIN pos THEN [p EXCEPT !.pos = moved(p)] ELSE p
           F == {foot(f) : f \in b.footprints}
           P == {pad(p) : p \in b.pads}
           put(p, f) == [p EXCEPT !.pos = Point(p.pos.x + pos[f.id].x - f.pos.x,
                                                p.pos.y + pos[f.id].y - f.pos.y)]
<1>1. Placed(b, pos) = [b EXCEPT !.footprints = F, !.pads = P]
  BY DEF Placed
<1>2. \A f \in b.footprints : f.id \in DOMAIN pos
  BY DEF IsSound, FootprintIds
<1>3. F = {[f EXCEPT !.pos = pos[f.id]] : f \in b.footprints}
  BY <1>2
<1>4. ASSUME NEW p \in b.pads, NEW f \in b.footprints, f.id = p.fp
      PROVE  pad(p) = put(p, f)
  <2>1. (CHOOSE g \in b.footprints : g.id = p.fp) = f
    BY <1>4 DEF Loadable, UniqueIds, Objects
  <2>2. moved(p) = Point(p.pos.x + pos[f.id].x - f.pos.x, p.pos.y + pos[f.id].y - f.pos.y)
    BY <1>4, <2>1
  <2>3. p.fp \in DOMAIN pos
    BY <1>2, <1>4
  <2> HIDE DEF moved
  <2> QED BY <2>2, <2>3
<1>5. \A p \in b.pads : \E f \in b.footprints : f.id = p.fp
  BY DEF Loadable, ReferencesResolve
<1> HIDE DEF pad, put, F
<1>6. \A q \in P : \E p \in b.pads, f \in b.footprints : f.id = p.fp /\ q = put(p, f)
  BY <1>4, <1>5
<1>7. \A p \in b.pads, f \in b.footprints : f.id = p.fp => put(p, f) \in P
  BY <1>4
<1> HIDE DEF P
<1> QED BY <1>1, <1>3, <1>6, <1>7 DEF IsBoard, put

\* Half a size, rounded up, fits where the whole of it fits when everything is doubled.
LEMMA HalfFits ==
  ASSUME NEW x \in Int, NEW w \in Nat, NEW ox \in Int, NEW ow \in Int,
         2 * x - w >= 2 * ox, 2 * x - w + 2 * w <= 2 * ox + 2 * ow
  PROVE  LET hw == (w + 1) \div 2
         IN  hw \in Nat /\ x - hw >= ox /\ x - hw + 2 * hw <= ox + ow
OBVIOUS

\* A footprint at a legal place lies in the outline with everything in its rectangle.
LEMMA LegalIsInside ==
  ASSUME NEW b, IsBoard(b), NEW f \in b.footprints, NEW p \in Points, IsLegal(b, f, p)
  PROVE  LET g == [f EXCEPT !.pos = p] IN
         /\ InOutline(OutlineRect(g), b.outline)
         /\ \A q \in Points : RectContains(OutlineRect(f), q) =>
              LET to == Point(q.x + p.x - f.pos.x, q.y + p.y - f.pos.y)
              IN  RectContains(b.outline, to)
<1> DEFINE o == b.outline
           g == [f EXCEPT !.pos = p]
           hw == (f.w + 1) \div 2
           hh == (f.h + 1) \div 2
<1>1. /\ o.x \in Int /\ o.y \in Int /\ o.w \in Int /\ o.h \in Int
      /\ p.x \in Int /\ p.y \in Int /\ f.pos.x \in Int /\ f.pos.y \in Int
      /\ f.w \in Nat /\ f.h \in Nat
  BY DEF IsBoard, IsFootprint, Points, Rects
<1>2. g.pos = p /\ g.w = f.w /\ g.h = f.h
  BY DEF IsBoard, IsFootprint
<1>3. OutlineRect(g) = Rect(p.x - hw, p.y - hh, 2 * hw, 2 * hh)
  BY <1>2 DEF OutlineRect
<1>4. OutlineRect(f) = Rect(f.pos.x - hw, f.pos.y - hh, 2 * hw, 2 * hh)
  BY DEF OutlineRect
<1>5. /\ 2 * p.x - f.w >= 2 * o.x /\ 2 * p.x - f.w + 2 * f.w <= 2 * o.x + 2 * o.w
      /\ 2 * p.y - f.h >= 2 * o.y /\ 2 * p.y - f.h + 2 * f.h <= 2 * o.y + 2 * o.h
  BY DEF IsLegal, InOutline, DoubledBounds, Doubled, Rect
<1>6. /\ hw \in Nat /\ p.x - hw >= o.x /\ p.x - hw + 2 * hw <= o.x + o.w
      /\ hh \in Nat /\ p.y - hh >= o.y /\ p.y - hh + 2 * hh <= o.y + o.h
  BY <1>1, <1>5, HalfFits
<1> HIDE DEF hw, hh, o, g
<1>7. InOutline(OutlineRect(g), o)
  BY <1>3, <1>6 DEF InOutline, Rect
<1>8. ASSUME NEW q \in Points, RectContains(OutlineRect(f), q)
      PROVE  RectContains(o, Point(q.x + p.x - f.pos.x, q.y + p.y - f.pos.y))
  <2>1. q.x \in Int /\ q.y \in Int
    BY DEF Points
  <2>2. /\ f.pos.x - hw <= q.x /\ q.x <= f.pos.x - hw + 2 * hw
        /\ f.pos.y - hh <= q.y /\ q.y <= f.pos.y - hh + 2 * hh
    BY <1>4, <1>8 DEF RectContains, Rect
  <2>3. /\ o.x <= q.x + p.x - f.pos.x /\ q.x + p.x - f.pos.x <= o.x + o.w
        /\ o.y <= q.y + p.y - f.pos.y /\ q.y + p.y - f.pos.y <= o.y + o.h
    BY <1>1, <1>6, <2>1, <2>2
  <2> QED BY <2>3 DEF RectContains, Point
<1> QED BY <1>7, <1>8 DEF o, g

\* A sound placement of a board whose pads lie in their footprints leads to a board that loads.
LEMMA PlacedIsLoadable ==
  ASSUME NEW b, NEW pos, IsBoard(b), Loadable(b), PadsInside(b), IsSound(b, pos)
  PROVE  Loadable(Placed(b, pos))
<1> DEFINE after == Placed(b, pos)
           put(p, f) == [p EXCEPT !.pos = Point(p.pos.x + pos[f.id].x - f.pos.x,
                                                p.pos.y + pos[f.id].y - f.pos.y)]
           foot(f) == [f EXCEPT !.pos = pos[f.id]]
           Its(p, f) == f.id = p.fp
<1>1. /\ after.outline = b.outline /\ after.layers = b.layers /\ after.class = b.class
      /\ after.keepouts = b.keepouts /\ after.routes = b.routes /\ after.vias = b.vias
      /\ after.zones = b.zones
      /\ after.footprints = {foot(f) : f \in b.footprints}
      /\ \A q \in after.pads : \E p \in b.pads, f \in b.footprints : Its(p, f) /\ q = put(p, f)
  BY PlacedHas
<1>2. ASSUME NEW p \in b.pads, NEW f \in b.footprints
      PROVE  /\ put(p, f).kind = p.kind /\ put(p, f).id = p.id /\ put(p, f).fp = p.fp
             /\ put(p, f).net = p.net /\ put(p, f).layers = p.layers
             /\ put(p, f).pos = Point(p.pos.x + pos[f.id].x - f.pos.x, p.pos.y + pos[f.id].y - f.pos.y)
  BY DEF IsBoard, IsPad
<1>3. ASSUME NEW f \in b.footprints
      PROVE  /\ foot(f).id = f.id /\ foot(f).layer = f.layer /\ foot(f).keepouts = f.keepouts
  BY DEF IsBoard, IsFootprint
<1>4. ASSUME NEW f \in b.footprints
      PROVE  pos[f.id] \in Points /\ IsLegal(b, f, pos[f.id])
  <2>1. f.id \in FootprintIds(b)
    BY DEF FootprintIds
  <2>2. FootprintOf(b, f.id) = f
    BY <2>1, FootprintIs DEF Loadable, UniqueIds, Objects
  <2> QED BY <2>1, <2>2, CellsArePoints DEF IsSound
<1> HIDE DEF after, put, foot, Its
<1>5. UniqueIds(after)
  <2> DEFINE of(p) == CHOOSE f \in b.footprints : Its(p, f)
             made == [o \in Objects(b) |-> IF o \in b.footprints THEN foot(o)
                                           ELSE IF o \in b.pads THEN put(o, of(o)) ELSE o]
  <2>1. \A p \in b.pads, f \in b.footprints : Its(p, f) => f = of(p)
    BY DEF Loadable, UniqueIds, Objects, Its
  <2>2. \A q \in Objects(after) : \E o \in Objects(b) : q = made[o] /\ q.id = o.id
    <3> TAKE q \in Objects(after)
    <3>1. CASE q \in after.footprints
      <4>1. PICK f \in b.footprints : q = foot(f)
        BY <1>1, <3>1
      <4>2. f \in Objects(b)
        BY DEF Objects
      <4> QED BY <4>1, <4>2, <1>3
    <3>2. CASE q \in after.pads
      <4>1. PICK p \in b.pads, f \in b.footprints : Its(p, f) /\ q = put(p, f)
        BY <1>1, <3>2
      <4>2. p \in Objects(b) /\ p \notin b.footprints
        BY KindsDiffer DEF Objects
      <4>3. f = of(p)
        BY <2>1, <4>1
      <4> HIDE DEF of
      <4> QED BY <4>1, <4>2, <4>3, <1>2
    <3>3. CASE q \in b.routes \cup b.vias \cup b.zones \cup b.keepouts
      <4>1. q \in Objects(b) /\ q \notin b.footprints /\ q \notin b.pads
        BY <3>3, KindsDiffer DEF Objects
      <4> QED BY <4>1
    <3> QED BY <3>1, <3>2, <3>3, <1>1 DEF Objects
  <2> HIDE DEF made
  <2> QED BY <2>2, IdsStayUnique DEF Loadable
<1>6. InsideOutline(after)
  <2>1. \A f \in after.footprints : InOutline(OutlineRect(f), after.outline)
    BY <1>1, <1>4, LegalIsInside DEF foot
  <2>2. ASSUME NEW q \in after.pads PROVE RectContains(after.outline, q.pos)
    <3>1. PICK p \in b.pads, f \in b.footprints : Its(p, f) /\ q = put(p, f)
      BY <1>1
    <3>2. p.pos \in Points /\ RectContains(OutlineRect(f), p.pos)
      BY <3>1 DEF IsBoard, IsPad, PadsInside, Its
    <3>3. RectContains(b.outline, Point(p.pos.x + pos[f.id].x - f.pos.x, p.pos.y + pos[f.id].y - f.pos.y))
      BY <1>4, <3>2, LegalIsInside
    <3> QED BY <1>1, <1>2, <3>1, <3>3
  <2> QED BY <1>1, <2>1, <2>2 DEF InsideOutline, Loadable
<1>7. ReferencesResolve(after)
  <2>1. ASSUME NEW q \in after.pads
        PROVE  /\ q.net \in DOMAIN after.class \/ (q.kind = "pad" /\ q.net = NoNet)
               /\ q.layers \subseteq after.layers
               /\ \E f \in after.footprints : f.id = q.fp
    <3>1. PICK p \in b.pads, f \in b.footprints : Its(p, f) /\ q = put(p, f)
      BY <1>1
    <3>2. foot(f) \in after.footprints /\ foot(f).id = q.fp
      BY <1>1, <1>2, <1>3, <3>1 DEF Its
    <3>3. /\ p.net \in DOMAIN b.class \/ (p.kind = "pad" /\ p.net = NoNet)
          /\ p.layers \subseteq b.layers
      BY DEF Loadable, ReferencesResolve
    <3> QED BY <1>1, <1>2, <3>1, <3>2, <3>3
  <2>2. ASSUME NEW g \in after.footprints
        PROVE  g.layer \in after.layers /\ g.keepouts \subseteq {k.id : k \in after.keepouts}
    <3>1. PICK f \in b.footprints : g = foot(f)
      BY <1>1
    <3> QED BY <1>1, <1>3, <3>1 DEF Loadable, ReferencesResolve
  <2> QED BY <1>1, <2>1, <2>2 DEF Loadable, ReferencesResolve
<1> QED BY <1>5, <1>6, <1>7 DEF Loadable, after

\* What a sound placement changes is announced, and nothing is locked or unlocked.
LEMMA PlacedIsAnnounced ==
  ASSUME NEW b, NEW pos, IsBoard(b), Loadable(b), IsSound(b, pos), NEW op,
         op.type = "place", op.pos = pos
  PROVE  /\ SemanticDiff(b, Placed(b, pos)) \subseteq Announced(b, op)
         /\ LockChanged(b, Placed(b, pos)) = {}
<1> DEFINE after == Placed(b, pos)
           put(p, f) == [p EXCEPT !.pos = Point(p.pos.x + pos[f.id].x - f.pos.x,
                                                p.pos.y + pos[f.id].y - f.pos.y)]
           foot(f) == [f EXCEPT !.pos = pos[f.id]]
<1>1. /\ after.keepouts = b.keepouts /\ after.routes = b.routes /\ after.vias = b.vias
      /\ after.zones = b.zones
      /\ after.footprints = {foot(f) : f \in b.footprints}
      /\ \A q \in after.pads : \E p \in b.pads, f \in b.footprints : f.id = p.fp /\ q = put(p, f)
  BY PlacedHas
<1>2. \A p \in b.pads, f \in b.footprints : put(p, f).id = p.id
  BY DEF IsBoard, IsPad
<1>3. \A f \in b.footprints : foot(f).id = f.id /\ foot(f).lock = f.lock
  BY DEF IsBoard, IsFootprint
<1>4. Announced(b, op) = DOMAIN pos \cup {p.id : p \in {p \in b.pads : p.fp \in DOMAIN pos}}
  BY DEF Announced
<1>5. DOMAIN pos = {f.id : f \in b.footprints}
  BY DEF IsSound, FootprintIds
<1>6. \A p \in b.pads : p.id \in Announced(b, op)
  BY <1>4, <1>5 DEF Loadable, ReferencesResolve
<1>7. \A f \in b.footprints : f.id \in Announced(b, op)
  BY <1>4, <1>5
<1> HIDE DEF after, put, foot
<1>8. ASSUME NEW o \in Objects(b), o \notin Objects(after)
      PROVE  o.id \in Announced(b, op)
  <2>1. o \in b.footprints \cup b.pads
    BY <1>1, <1>8 DEF Objects
  <2> QED BY <1>6, <1>7, <2>1
<1>9. ASSUME NEW q \in Objects(after), q \notin Objects(b)
      PROVE  q.id \in Announced(b, op)
  <2>1. q \in after.footprints \cup after.pads
    BY <1>1, <1>9 DEF Objects
  <2>2. CASE q \in after.footprints
    BY <1>1, <1>3, <1>7, <2>2
  <2>3. CASE q \in after.pads
    BY <1>1, <1>2, <1>6, <2>3
  <2> QED BY <2>1, <2>2, <2>3
<1>10. SemanticDiff(b, after) \subseteq Announced(b, op)
  BY <1>8, <1>9 DEF SemanticDiff
<1>11. \A o \in Lockable(b), q \in Lockable(after) : o.id = q.id => o.lock = q.lock
  <2> SUFFICES ASSUME NEW o \in Lockable(b), NEW q \in Lockable(after), o.id = q.id
               PROVE  o.lock = q.lock
    OBVIOUS
  <2>1. o \in Objects(b)
    BY DEF Lockable, Objects
  <2>2. CASE q \in after.footprints
    <3>1. PICK f \in b.footprints : q = foot(f)
      BY <1>1, <2>2
    <3>2. f = o
      BY <1>3, <2>1, <3>1 DEF Loadable, UniqueIds, Objects
    <3> QED BY <1>3, <3>1, <3>2
  <2>3. CASE q \in b.routes \cup b.vias \cup b.zones
    <3>1. q = o
      BY <2>1, <2>3 DEF Loadable, UniqueIds, Objects
    <3> QED BY <3>1
  <2> QED BY <1>1, <2>2, <2>3 DEF Lockable
<1> QED BY <1>10, <1>11, LocksStay DEF after

\* So what a solver offers is executed: it raises no error, it announces what it changes and it
\* keeps what is locked.
LEMMA PlacementIsExecuted ==
  ASSUME NEW b, NEW pos, IsBoard(b), Loadable(b), PadsInside(b), IsSound(b, pos), NEW op,
         op = [type |-> "place", pos |-> pos]
  PROVE  Verdict(b, Applying(b, <<op>>)) \in {"clean", "findings"}
<1> DEFINE copy == Applying(b, <<op>>)
           after == Placed(b, pos)
<1>1. copy = Stepped(Begun(b), op)
  BY ApplyingOne
<1>2. op.type = "place" /\ op.pos = pos
  OBVIOUS
<1>3. Applied(b, op) = after /\ ~Refused(b, op)
  BY <1>2 DEF Applied, Refused
<1>4. copy.board = after /\ copy.raised = ~Loadable(after) /\ copy.announced = Announced(b, op)
  <2>1. Begun(b).board = b /\ Begun(b).raised = FALSE /\ Begun(b).announced = {}
    BY DEF Begun
  <2> HIDE DEF copy, after
  <2> QED BY <1>1, <1>3, <2>1 DEF Stepped
<1>5. /\ Loadable(after) /\ KeepsLocked(b, after)
      /\ SemanticDiff(b, after) \subseteq Announced(b, op) /\ LockChanged(b, after) = {}
  BY <1>2, PlacedIsLoadable, PlacedIsAnnounced, SoundKeepsLocked
<1> HIDE DEF copy, after
<1>6. (SemanticDiff(b, copy.board) \ copy.announced) \cup LockChanged(b, copy.board) = {}
  BY <1>4, <1>5
<1> QED BY <1>4, <1>5, <1>6 DEF Verdict, copy

-----------------------------------------------------------------------------
(* The thermal policy of a pad makes no difference to the rules. *)

\* t conducts as e does.
Twin(e, t) ==
  /\ t.kind = e.kind /\ t.net = e.net /\ t.layers = e.layers
  /\ e.kind = "pad" => t.pos = e.pos /\ t.sx = e.sx /\ t.sy = e.sy
  /\ e.kind # "pad" => t = e

\* Twins touch the same.
LEMMA TwinsTouch ==
  ASSUME NEW e, NEW t, NEW f, NEW u, Twin(e, t), Twin(f, u), ConductiveContact(e, f)
  PROVE  ConductiveContact(t, u)
<1>1. ASSUME NEW a, NEW b, NEW c, NEW d, Twin(a, b), Twin(c, d), PadTouches(a, c), a.kind = "pad"
      PROVE  PadTouches(b, d)
  <2>1. PadBounds(b) = PadBounds(a) /\ PadReach(b) = PadReach(a)
    BY <1>1 DEF Twin, PadBounds, PadReach
  <2>2. c.kind # "pad"
    BY <1>1 DEF PadTouches
  <2>3. d = c /\ b.layers = a.layers /\ b.net = a.net /\ b.pos = a.pos
    BY <1>1, <2>2 DEF Twin
  <2> QED BY <1>1, <2>1, <2>3 DEF PadTouches
<1>2. ASSUME NEW a, NEW b, NEW c, NEW d, Twin(a, b), Twin(c, d), TouchesInOrder(a, c)
      PROVE  TouchesInOrder(b, d)
  <2>1. CASE a.kind = "pad" /\ PadTouches(a, c)
    <3>1. PadTouches(b, d) /\ b.kind = "pad"
      BY <1>1, <1>2, <2>1 DEF Twin
    <3> QED BY <3>1 DEF TouchesInOrder
  <2>2. CASE ~(a.kind = "pad" /\ PadTouches(a, c))
    <3>1. a.kind # "pad" /\ c.kind # "pad"
      BY <1>2, <2>2 DEF TouchesInOrder
    <3>2. b = a /\ d = c
      BY <1>2, <3>1 DEF Twin
    <3> QED BY <1>2, <3>2
  <2> QED BY <2>1, <2>2
<1> QED BY <1>2 DEF ConductiveContact

\* What is joined grows piece by piece: copper the checker finds in contact, or tiles edge to edge.
Meets(how, f, e) == \/ how = "contact" /\ ConductiveContact(f, e)
                    \/ how = "edge" /\ RectsConnected(f, e)
WithMet(how, s, all) == s \cup {e \in all : \E f \in s : Meets(how, f, e)}
WithTouched(s, all) == s \cup {e \in all : \E f \in s : ConductiveContact(f, e)}
WithConnected(s, all) == s \cup {e \in all : \E f \in s : RectsConnected(f, e)}

IsGrowing(how, seed, all, grown, N) ==
  grown = [n \in 0 .. N |-> IF n = 0 THEN seed ELSE WithMet(how, grown[n - 1], all)]

\* There is such a sequence of parts.
LEMMA GrowingExists ==
  ASSUME NEW how, NEW seed, NEW all, NEW N \in Nat
  PROVE  \E grown : IsGrowing(how, seed, all, grown, N)
<1> DEFINE G == {k \in Nat : \E grown : IsGrowing(how, seed, all, grown, k)}
<1>1. 0 \in G
  <2> DEFINE grown == [m \in 0 .. 0 |-> seed]
  <2>1. \A m \in 0 .. 0 : m = 0
    OBVIOUS
  <2>2. IsGrowing(how, seed, all, grown, 0)
    BY <2>1 DEF IsGrowing
  <2> QED BY <2>2
<1>2. ASSUME NEW k \in 0 .. N - 1, k \in G
      PROVE  k + 1 \in G
  <2>1. PICK old : IsGrowing(how, seed, all, old, k)
    BY <1>2
  <2> DEFINE grown == [m \in 0 .. k + 1 |-> IF m = k + 1 THEN WithMet(how, old[k], all) ELSE old[m]]
  <2>2. \A m \in 0 .. k : grown[m] = old[m]
    OBVIOUS
  <2>3. \A m \in 0 .. k + 1 : grown[m] = IF m = 0 THEN seed ELSE WithMet(how, grown[m - 1], all)
    <3> TAKE m \in 0 .. k + 1
    <3>1. CASE m = k + 1
      <4>1. m # 0 /\ m - 1 = k /\ k \in 0 .. k
        BY <3>1
      <4>2. grown[m] = WithMet(how, old[k], all) /\ grown[m - 1] = old[k]
        BY <4>1, <3>1, <2>2
      <4> HIDE DEF grown
      <4> QED BY <4>1, <4>2, <3>1
    <3>2. CASE m # k + 1
      <4>1. m \in 0 .. k /\ grown[m] = old[m] /\ (m # 0 => grown[m - 1] = old[m - 1])
        BY <3>2, <2>2
      <4>2. old[m] = IF m = 0 THEN seed ELSE WithMet(how, old[m - 1], all)
        BY <4>1, <2>1 DEF IsGrowing
      <4> HIDE DEF grown
      <4> QED BY <4>1, <4>2
    <3> QED BY <3>1, <3>2
  <2>4. grown = [m \in 0 .. k + 1 |-> grown[m]]
    OBVIOUS
  <2> HIDE DEF grown
  <2>5. IsGrowing(how, seed, all, grown, k + 1)
    BY <2>3, <2>4 DEF IsGrowing
  <2> QED BY <2>5
<1> HIDE DEF G
<1>3. 0 .. N \subseteq G
  BY <1>1, <1>2, FromOn
<1> QED BY <1>3 DEF G

\* Joined is the last of the sets that grow, and each of them is made of the one before it.
LEMMA JoinedGrows ==
  ASSUME NEW seed, NEW all, NEW N \in Nat, Cardinality(all) = N
  PROVE  \E grown : /\ Joined(seed, all, ConductiveContact) = grown[N]
                    /\ grown[0] = seed
                    /\ \A k \in 0 .. N - 1 : grown[k + 1] = WithTouched(grown[k], all)
<1> DEFINE IsThis(grown) == grown = [n \in 0 .. N |-> IF n = 0 THEN seed ELSE WithTouched(grown[n - 1], all)]
           grown == CHOOSE grown : IsThis(grown)
<1>1. Joined(seed, all, ConductiveContact) = grown[N]
  BY DEF Joined, WithTouched
<1>2. IsThis(grown)
  <2>1. PICK g : IsGrowing("contact", seed, all, g, N)
    BY GrowingExists
  <2>2. \A s : WithMet("contact", s, all) = WithTouched(s, all)
    BY DEF WithMet, WithTouched, Meets
  <2>3. IsThis(g)
    BY <2>1, <2>2 DEF IsGrowing
  <2> HIDE DEF IsThis
  <2> QED BY <2>3
<1> HIDE DEF grown
<1>3. \A k \in 0 .. N : grown[k] = IF k = 0 THEN seed ELSE WithTouched(grown[k - 1], all)
  BY <1>2
<1>4. grown[0] = seed
  BY <1>3
<1>5. ASSUME NEW k \in 0 .. N - 1 PROVE grown[k + 1] = WithTouched(grown[k], all)
  <2>1. k + 1 \in 0 .. N /\ k + 1 # 0 /\ (k + 1) - 1 = k
    OBVIOUS
  <2> QED BY <1>3, <2>1
<1> QED BY <1>1, <1>4, <1>5

\* What is joined stays joined when every piece is replaced by its twin.
LEMMA TwinsJoin ==
  ASSUME NEW all, IsFiniteSet(all), NEW seed \in SUBSET all, NEW twin,
         \A e \in all : Twin(e, twin[e]), \A e, f \in all : twin[e] = twin[f] => e = f
  PROVE  \A e \in Joined(seed, all, ConductiveContact) :
           /\ e \in all
           /\ twin[e] \in Joined({twin[s] : s \in seed}, {twin[s] : s \in all}, ConductiveContact)
<1> DEFINE all2 == {twin[s] : s \in all}
           seed2 == {twin[s] : s \in seed}
           N == Cardinality(all)
<1>1. N \in Nat /\ Cardinality(all2) = N
  <2> DEFINE map == [e \in all |-> twin[e]]
  <2>1. map \in [all -> all2] /\ \A t \in all2 : \E e \in all : map[e] = t
    OBVIOUS
  <2>2. \A e, f \in all : map[e] = map[f] => e = f
    OBVIOUS
  <2> HIDE DEF map, all2
  <2>3. map \in Bijection(all, all2)
    BY <2>1, <2>2 DEF Bijection, Injection, Surjection, IsInjective
  <2>4. ExistsBijection(all, all2)
    BY <2>3 DEF ExistsBijection
  <2> QED BY <2>4, FS_Bijection, FS_CardinalityType
<1> HIDE DEF N
<1>2. PICK grown : /\ Joined(seed, all, ConductiveContact) = grown[N]
                   /\ grown[0] = seed
                   /\ \A k \in 0 .. N - 1 : grown[k + 1] = WithTouched(grown[k], all)
  BY <1>1, JoinedGrows DEF N
<1>3. PICK grown2 : /\ Joined(seed2, all2, ConductiveContact) = grown2[N]
                    /\ grown2[0] = seed2
                    /\ \A k \in 0 .. N - 1 : grown2[k + 1] = WithTouched(grown2[k], all2)
  <2> HIDE DEF seed2, all2
  <2> QED BY <1>1, JoinedGrows
<1> DEFINE G == {k \in Nat : \A e \in grown[k] : e \in all /\ twin[e] \in grown2[k]}
<1>4. 0 \in G
  BY <1>2, <1>3
<1>5. ASSUME NEW k \in 0 .. N - 1, k \in G PROVE k + 1 \in G
  <2> SUFFICES ASSUME NEW e \in grown[k + 1] PROVE e \in all /\ twin[e] \in grown2[k + 1]
    BY <1>1
  <2>1. grown[k + 1] = WithTouched(grown[k], all) /\ grown2[k + 1] = WithTouched(grown2[k], all2)
    BY <1>2, <1>3
  <2>2. \A f \in grown[k] : f \in all /\ twin[f] \in grown2[k]
    BY <1>5
  <2>3. CASE e \in grown[k]
    BY <2>1, <2>2, <2>3 DEF WithTouched
  <2>4. CASE e \notin grown[k]
    <3>1. PICK f \in grown[k] : ConductiveContact(f, e)
      BY <2>1, <2>4 DEF WithTouched
    <3>2. e \in all
      BY <2>1, <2>4 DEF WithTouched
    <3>3. ConductiveContact(twin[f], twin[e])
      BY <2>2, <3>1, <3>2, TwinsTouch
    <3> QED BY <2>1, <2>2, <3>2, <3>3 DEF WithTouched
  <2> QED BY <2>3, <2>4
<1> HIDE DEF G
<1>6. 0 .. N \subseteq G
  BY <1>1, <1>4, <1>5, FromOn
<1>7. N \in G
  BY <1>1, <1>6
<1> QED BY <1>2, <1>3, <1>7 DEF G

\* A board with the thermal policy of some pads changed.
Warmed(p, thermal) == IF p.id \in thermal THEN [p EXCEPT !.thermal = TRUE] ELSE p
WarmedPads(b, thermal) == {Warmed(p, thermal) : p \in b.pads}

\* It is the same pad but for that.
LEMMA WarmedIs ==
  ASSUME NEW p, IsPad(p), NEW thermal
  PROVE  LET q == Warmed(p, thermal) IN
         /\ q.kind = p.kind /\ q.id = p.id /\ q.fp = p.fp /\ q.net = p.net /\ q.layers = p.layers
         /\ q.pos = p.pos /\ q.sx = p.sx /\ q.sy = p.sy
         /\ PadBounds(q) = PadBounds(p) /\ PadReach(q) = PadReach(p)
         /\ p.id \notin thermal => q = p
<1> DEFINE q == Warmed(p, thermal)
<1>1. /\ q.kind = p.kind /\ q.id = p.id /\ q.fp = p.fp /\ q.net = p.net /\ q.layers = p.layers
      /\ q.pos = p.pos /\ q.sx = p.sx /\ q.sy = p.sy
      /\ p.id \notin thermal => q = p
  BY DEF IsPad, Warmed
<1> HIDE DEF q
<1>2. PadBounds(q) = PadBounds(p) /\ PadReach(q) = PadReach(p)
  BY <1>1 DEF PadBounds, PadReach
<1> QED BY <1>1, <1>2 DEF q

\* The findings that look at no pad are the same, those of clearances to pads no more.
LEMMA WarmedKeepsClear ==
  ASSUME NEW b, IsBoard(b), NEW thermal, NEW after,
         after = [b EXCEPT !.pads = WarmedPads(b, thermal)]
  PROVE  /\ RouteKeepoutFindings(after) \subseteq RouteKeepoutFindings(b)
         /\ RouteClearanceFindings(after) \subseteq RouteClearanceFindings(b)
         /\ ViaFindings(after) \subseteq ViaFindings(b)
         /\ ZoneFindings(after) \subseteq ZoneFindings(b)
         /\ FootprintKeepoutFindings(after) \subseteq FootprintKeepoutFindings(b)
<1>1. /\ after.outline = b.outline /\ after.layers = b.layers /\ after.class = b.class
      /\ after.keepouts = b.keepouts /\ after.footprints = b.footprints /\ after.routes = b.routes
      /\ after.vias = b.vias /\ after.zones = b.zones /\ after.pads = WarmedPads(b, thermal)
  BY DEF IsBoard
<1>2. \A n : NetClearance(after, n) = NetClearance(b, n)
  BY <1>1 DEF NetClearance
<1>3. \A q \in after.pads : \E p \in b.pads : /\ q.id = p.id /\ q.net = p.net /\ q.layers = p.layers
                                             /\ PadBounds(q) = PadBounds(p)
  BY <1>1, WarmedIs DEF WarmedPads, IsBoard
<1>4. ASSUME NEW S, NEW e \in Foreign(S, after.pads)
      PROVE  \E p \in b.pads : /\ <<e[1], p>> \in Foreign(S, b.pads) /\ e[2].net = p.net
                               /\ PadBounds(e[2]) = PadBounds(p)
  <2>1. e[1] \in S /\ e[2] \in after.pads /\ e[1].net # e[2].net /\ e[1].id # e[2].id
        /\ e[1].layers \cap e[2].layers # {}
    BY DEF Foreign
  <2>2. PICK p \in b.pads : /\ e[2].id = p.id /\ e[2].net = p.net /\ e[2].layers = p.layers
                            /\ PadBounds(e[2]) = PadBounds(p)
    BY <2>1, <1>3
  <2>3. <<e[1], p>> \in Foreign(S, b.pads)
    BY <2>1, <2>2 DEF Foreign
  <2> QED BY <2>2, <2>3
<1> HIDE DEF Finding
<1>5. RouteKeepoutFindings(after) = RouteKeepoutFindings(b)
  BY <1>1 DEF RouteKeepoutFindings
<1>6. FootprintKeepoutFindings(after) = FootprintKeepoutFindings(b)
  BY <1>1 DEF FootprintKeepoutFindings
<1>7. RouteClearanceFindings(after) \subseteq RouteClearanceFindings(b)
  <2> DEFINE need(c, r, o) == NetClearance(c, r.net) + NetClearance(c, o.net) + r.width \div 2
             pads(c) == {Finding("PCB_CLEARANCE_PAD", q[1].id) : q \in {q \in Foreign(c.routes, c.pads) :
                           SegmentRectWithin(q[1].start, q[1].end, PadBounds(q[2]), need(c, q[1], q[2]))}}
             routes(c) == {Finding("PCB_CLEARANCE_ROUTE", q[1].id) : q \in {q \in Foreign(c.routes, c.routes) :
                             SegmentsWithin(q[1].start, q[1].end, q[2].start, q[2].end,
                                            need(c, q[1], q[2]) + q[2].width \div 2)}}
             vias(c) == {Finding("PCB_CLEARANCE_VIA", q[1].id) : q \in {q \in Foreign(c.routes, c.vias) :
                           PointSegmentWithin(q[2].pos, q[1].start, q[1].end,
                                              need(c, q[1], q[2]) + q[2].diameter \div 2)}}
  <2>1. \A c : RouteClearanceFindings(c) = pads(c) \cup routes(c) \cup vias(c)
    BY DEF RouteClearanceFindings
  <2>2. routes(after) = routes(b) /\ vias(after) = vias(b)
    BY <1>1, <1>2
  <2>3. ASSUME NEW f \in pads(after) PROVE f \in pads(b)
    <3>1. PICK q \in Foreign(b.routes, after.pads) :
            /\ f = Finding("PCB_CLEARANCE_PAD", q[1].id)
            /\ SegmentRectWithin(q[1].start, q[1].end, PadBounds(q[2]), need(after, q[1], q[2]))
      BY <1>1
    <3>2. PICK p \in b.pads : /\ <<q[1], p>> \in Foreign(b.routes, b.pads) /\ q[2].net = p.net
                              /\ PadBounds(q[2]) = PadBounds(p)
      BY <1>4
    <3>3. need(after, q[1], q[2]) = need(b, q[1], p)
      BY <1>2, <3>2
    <3> HIDE DEF need
    <3>4. SegmentRectWithin(q[1].start, q[1].end, PadBounds(p), need(b, q[1], p))
      BY <3>1, <3>2, <3>3
    <3> QED BY <3>1, <3>2, <3>4
  <2> HIDE DEF pads, routes, vias
  <2> QED BY <2>1, <2>2, <2>3
<1>8. ViaFindings(after) \subseteq ViaFindings(b)
  <2> DEFINE need(c, v, o) == v.diameter \div 2 + NetClearance(c, v.net) + NetClearance(c, o.net)
             edge(v) == CopperEdge + v.diameter \div 2
             kept(c) == {Finding(IF q[1].net = GND THEN "PCB.COPPER.KEEPOUT" ELSE "PCB_KEEPOUT_VIA", q[1].id) :
                           q \in {q \in c.vias \X c.keepouts :
                             /\ \/ "via" \in q[2].prohibited
                                \/ q[1].net = GND /\ q[2].kind \in SensitiveKinds
                             /\ q[1].layers \cap q[2].layers # {}
                             /\ RectContains(q[2].bounds, q[1].pos)}}
             edges(c) == {Finding("PCB.COPPER.EDGE", v.id) : v \in {v \in c.vias :
                            v.net = GND /\ ~RectContainsCircle(c.outline, v.pos, edge(v))}}
             pads(c) == {Finding("PCB_CLEARANCE_PAD", q[1].id) : q \in {q \in Foreign(c.vias, c.pads) :
                           PointRectWithin(q[1].pos, PadBounds(q[2]), need(c, q[1], q[2]))}}
             vias(c) == {Finding("PCB_CLEARANCE_VIA", q[1].id) : q \in {q \in Foreign(c.vias, c.vias) :
                           PointDistanceWithin(q[1].pos, q[2].pos, need(c, q[1], q[2]) + q[2].diameter \div 2)}}
  <2>1. \A c : ViaFindings(c) = kept(c) \cup edges(c) \cup pads(c) \cup vias(c)
    BY DEF ViaFindings
  <2>2. kept(after) = kept(b) /\ edges(after) = edges(b) /\ vias(after) = vias(b)
    BY <1>1, <1>2
  <2>3. ASSUME NEW f \in pads(after) PROVE f \in pads(b)
    <3>1. PICK q \in Foreign(b.vias, after.pads) :
            /\ f = Finding("PCB_CLEARANCE_PAD", q[1].id)
            /\ PointRectWithin(q[1].pos, PadBounds(q[2]), need(after, q[1], q[2]))
      BY <1>1
    <3>2. PICK p \in b.pads : /\ <<q[1], p>> \in Foreign(b.vias, b.pads) /\ q[2].net = p.net
                              /\ PadBounds(q[2]) = PadBounds(p)
      BY <1>4
    <3>3. need(after, q[1], q[2]) = need(b, q[1], p)
      BY <1>2, <3>2
    <3> HIDE DEF need
    <3>4. PointRectWithin(q[1].pos, PadBounds(p), need(b, q[1], p))
      BY <3>1, <3>2, <3>3
    <3> QED BY <3>1, <3>2, <3>4
  <2> HIDE DEF kept, edges, pads, vias
  <2> QED BY <2>1, <2>2, <2>3
<1>9. ZoneFindings(after) \subseteq ZoneFindings(b)
  <2> DEFINE need(c, z, o) == z.clearance + NetClearance(c, o.net)
             kept(c) == {Finding("PCB_KEEPOUT_COPPER_ZONE", q[1].id) : q \in {q \in c.zones \X c.keepouts :
                           /\ "copper_zone" \in q[2].prohibited \/ q[2].kind \in SensitiveKinds
                           /\ q[1].layers \cap q[2].layers # {}
                           /\ RectsIntersect(q[1].bounds, q[2].bounds)}}
             edges(c) == {Finding("PCB.COPPER.EDGE", z.id) : z \in {z \in c.zones :
                            \/ z.bounds.x < c.outline.x + CopperEdge
                            \/ z.bounds.y < c.outline.y + CopperEdge
                            \/ z.bounds.x + z.bounds.w > c.outline.x + c.outline.w - CopperEdge
                            \/ z.bounds.y + z.bounds.h > c.outline.y + c.outline.h - CopperEdge}}
             pads(c) == {q \in Foreign(c.zones, c.pads) :
                           RectsWithin(q[1].bounds, PadBounds(q[2]), need(c, q[1], q[2]))}
             rest(c) == {q \in Foreign(c.zones, c.routes) :
                           SegmentRectWithin(q[2].start, q[2].end, q[1].bounds,
                                             need(c, q[1], q[2]) + q[2].width \div 2)}
                        \cup {q \in Foreign(c.zones, c.vias) :
                                PointRectWithin(q[2].pos, q[1].bounds,
                                                need(c, q[1], q[2]) + q[2].diameter \div 2)}
                        \cup {q \in Foreign(c.zones, c.zones) :
                                RectsWithin(q[1].bounds, q[2].bounds, q[1].clearance + q[2].clearance)}
             cleared(c) == {Finding("PCB.COPPER.CLEARANCE", q[1].id) : q \in pads(c) \cup rest(c)}
  <2>1. \A c : ZoneFindings(c) = kept(c) \cup edges(c) \cup cleared(c)
    <3> TAKE c
    <3>1. {q \in Foreign(c.zones, c.pads) : RectsWithin(q[1].bounds, PadBounds(q[2]), need(c, q[1], q[2]))}
            \cup {q \in Foreign(c.zones, c.routes) :
                    SegmentRectWithin(q[2].start, q[2].end, q[1].bounds, need(c, q[1], q[2]) + q[2].width \div 2)}
            \cup {q \in Foreign(c.zones, c.vias) :
                    PointRectWithin(q[2].pos, q[1].bounds, need(c, q[1], q[2]) + q[2].diameter \div 2)}
            \cup {q \in Foreign(c.zones, c.zones) :
                    RectsWithin(q[1].bounds, q[2].bounds, q[1].clearance + q[2].clearance)}
          = pads(c) \cup rest(c)
      OBVIOUS
    <3> QED BY <3>1 DEF ZoneFindings
  <2>2. kept(after) = kept(b) /\ edges(after) = edges(b)
    BY <1>1
  <2>3. rest(after) = rest(b)
    BY <1>1, <1>2
  <2>4. ASSUME NEW q \in pads(after) PROVE \E r \in pads(b) : r[1] = q[1]
    <3>1. PICK p \in b.pads : /\ <<q[1], p>> \in Foreign(b.zones, b.pads) /\ q[2].net = p.net
                              /\ PadBounds(q[2]) = PadBounds(p)
      BY <1>1, <1>4
    <3>2. need(after, q[1], q[2]) = need(b, q[1], p)
      BY <1>2, <3>1
    <3>3. RectsWithin(q[1].bounds, PadBounds(q[2]), need(after, q[1], q[2]))
      OBVIOUS
    <3> HIDE DEF need
    <3>4. RectsWithin(q[1].bounds, PadBounds(p), need(b, q[1], p))
      BY <3>1, <3>2, <3>3
    <3> QED BY <3>1, <3>4
  <2> HIDE DEF kept, edges, pads, rest
  <2>5. cleared(after) \subseteq cleared(b)
    BY <2>3, <2>4
  <2> HIDE DEF cleared
  <2> QED BY <2>1, <2>2, <2>5
<1> QED BY <1>5, <1>6, <1>7, <1>8, <1>9

\* A board with the thermal policy of some pads changed has no finding the board has not.
LEMMA WarmedStaysClean ==
  ASSUME NEW b, IsBoard(b), UniqueIds(b), Check(b) = {}, NEW thermal, NEW after,
         after = [b EXCEPT !.pads = WarmedPads(b, thermal)]
  PROVE  Check(after) = {}
<1> DEFINE conductors == b.pads \cup b.routes \cup b.vias \cup b.zones
           twin == [e \in conductors |-> IF e \in b.pads THEN Warmed(e, thermal) ELSE e]
<1>1. /\ after.class = b.class /\ after.routes = b.routes
      /\ after.vias = b.vias /\ after.zones = b.zones /\ after.pads = WarmedPads(b, thermal)
  BY DEF IsBoard
<1>2. /\ \A p \in b.pads : twin[p] = Warmed(p, thermal)
      /\ \A e \in b.routes \cup b.vias \cup b.zones : twin[e] = e /\ e.kind # "pad"
  BY KindsDiffer DEF IsBoard, IsRoute, IsVia, IsZone
<1>3. \A e \in conductors : Twin(e, twin[e]) /\ twin[e].id = e.id
  <2>1. \A p \in b.pads : p.kind = "pad" /\ Twin(p, twin[p]) /\ twin[p].id = p.id
    BY <1>2, WarmedIs DEF IsBoard, IsPad, Twin
  <2>2. \A e \in b.routes \cup b.vias \cup b.zones : Twin(e, twin[e]) /\ twin[e].id = e.id
    BY <1>2 DEF Twin
  <2> QED BY <2>1, <2>2
<1>4. \A e, f \in conductors : twin[e] = twin[f] => e = f
  <2> SUFFICES ASSUME NEW e \in conductors, NEW f \in conductors, twin[e] = twin[f] PROVE e = f
    OBVIOUS
  <2>1. e.id = f.id
    <3> HIDE DEF twin, conductors
    <3> QED BY <1>3
  <2>2. e \in Objects(b) /\ f \in Objects(b)
    BY DEF Objects
  <2> QED BY <2>1, <2>2 DEF UniqueIds
<1>5. IsFiniteSet(conductors)
  BY FS_Union DEF IsBoard
<1> HIDE DEF twin
<1>6. ASSUME NEW n
      PROVE  /\ OfNet(after.pads, n) = {twin[p] : p \in OfNet(b.pads, n)}
             /\ OfNet(after.routes, n) = {twin[p] : p \in OfNet(b.routes, n)}
             /\ OfNet(after.vias, n) = {twin[p] : p \in OfNet(b.vias, n)}
             /\ OfNet(after.zones, n) = {twin[p] : p \in OfNet(b.zones, n)}
  <2>1. after.pads = {twin[p] : p \in b.pads} /\ \A p \in b.pads : twin[p].net = p.net
    BY <1>1, <1>2, <1>3 DEF WarmedPads, Twin
  <2> QED BY <1>1, <1>2, <2>1 DEF OfNet
<1>7. ASSUME NEW all \in SUBSET conductors, NEW seed \in SUBSET all
      PROVE  \A e \in Joined(seed, all, ConductiveContact) :
               twin[e] \in Joined({twin[s] : s \in seed}, {twin[s] : s \in all}, ConductiveContact)
  <2>1. IsFiniteSet(all)
    BY <1>5, FS_Subset
  <2> HIDE DEF conductors
  <2> QED BY <1>3, <1>4, <2>1, TwinsJoin
<1>8. ConnectivityFindings(after) = {}
  <2> DEFINE copper(c, n) == OfNet(c.routes, n) \cup OfNet(c.vias, n)
             touched(c, n) == {p \in OfNet(c.pads, n) : \E e \in copper(c, n) : PadTouches(p, e)}
             joined(c, n, p) == Joined({p}, OfNet(c.pads, n) \cup copper(c, n), ConductiveContact)
             apart(c, n) == \E p, q \in touched(c, n) : q \notin joined(c, n, p)
  <2>1. \A c : ConnectivityFindings(c)
                 = {Finding("PCB_ROUTE_DISCONNECTED", n) : n \in {n \in DOMAIN c.class :
                      Cardinality(OfNet(c.pads, n)) >= 2 /\ apart(c, n)}}
    BY DEF ConnectivityFindings
  <2> SUFFICES ASSUME NEW n \in DOMAIN after.class, Cardinality(OfNet(after.pads, n)) >= 2, apart(after, n)
               PROVE  FALSE
    BY <2>1
  <2>2. Cardinality(OfNet(b.pads, n)) >= 2
    <3> DEFINE S == OfNet(b.pads, n)
               map == [e \in S |-> twin[e]]
               T == {twin[e] : e \in S}
    <3>1. IsFiniteSet(S)
      BY FS_Subset DEF OfNet, IsBoard
    <3>2. S \subseteq conductors
      BY DEF OfNet
    <3>3. map \in [S -> T] /\ (\A t \in T : \E e \in S : map[e] = t) /\ \A e, f \in S : map[e] = map[f] => e = f
      BY <1>4, <3>2
    <3>4. T = OfNet(after.pads, n)
      BY <1>6
    <3> HIDE DEF S, T, map, conductors
    <3>5. ExistsBijection(S, T)
      BY <3>3 DEF Bijection, Injection, Surjection, IsInjective, ExistsBijection
    <3>6. Cardinality(T) = Cardinality(S)
      BY <3>1, <3>5, FS_Bijection
    <3> QED BY <3>4, <3>6 DEF S
  <2>3. PICK p2, q2 \in touched(after, n) : q2 \notin joined(after, n, p2)
    OBVIOUS
  <2>4. \A s \in touched(after, n) : \E p \in touched(b, n) : s = twin[p]
    <3> SUFFICES ASSUME NEW s \in touched(after, n) PROVE \E p \in touched(b, n) : s = twin[p]
      OBVIOUS
    <3>1. PICK p \in OfNet(b.pads, n) : s = twin[p]
      BY <1>6
    <3>2. PICK e \in copper(after, n) : PadTouches(s, e)
      OBVIOUS
    <3>3. e \in copper(b, n) /\ p \in b.pads
      BY <1>1 DEF OfNet
    <3>4. s.layers = p.layers /\ s.net = p.net /\ s.pos = p.pos /\ PadBounds(s) = PadBounds(p) /\ PadReach(s) = PadReach(p)
      BY <1>2, <3>1, <3>3, WarmedIs DEF IsBoard
    <3>5. PadTouches(p, e)
      BY <3>2, <3>4 DEF PadTouches
    <3> QED BY <3>1, <3>3, <3>5
  <2>5. PICK p \in touched(b, n), q \in touched(b, n) : p2 = twin[p] /\ q2 = twin[q]
    BY <2>3, <2>4
  <2>6. q \in joined(b, n, p)
    <3>1. ConnectivityFindings(b) = {}
      BY DEF Check
    <3> HIDE DEF apart
    <3>2. ~apart(b, n)
      BY <1>1, <2>1, <2>2, <3>1
    <3> QED BY <2>5, <3>2 DEF apart
  <2> DEFINE all == OfNet(b.pads, n) \cup copper(b, n)
  <2>7. all \in SUBSET conductors /\ {p} \in SUBSET all
    BY DEF OfNet
  <2>8. {twin[s] : s \in all} = OfNet(after.pads, n) \cup copper(after, n)
    BY <1>6
  <2>9. {twin[s] : s \in {p}} = {p2}
    BY <2>5
  <2> HIDE DEF all, conductors
  <2>10. twin[q] \in Joined({twin[s] : s \in {p}}, {twin[s] : s \in all}, ConductiveContact)
    BY <1>7, <2>6, <2>7 DEF all
  <2> QED BY <2>3, <2>5, <2>8, <2>9, <2>10
<1>9. CopperConnectivityFindings(after) = {}
  <2> DEFINE zones(c) == OfNet(c.zones, GND)
             anchors(c) == OfNet(c.pads, GND) \cup OfNet(c.routes, GND) \cup OfNet(c.vias, GND)
             joined(c) == Joined(anchors(c), anchors(c) \cup zones(c), ConductiveContact)
  <2>1. \A c : CopperConnectivityFindings(c)
                 = {Finding("PCB.COPPER.CONNECTIVITY", z.id) : z \in zones(c) \ joined(c)}
    BY DEF CopperConnectivityFindings
  <2>2. zones(b) \subseteq joined(b)
    <3>1. CopperConnectivityFindings(b) = {}
      BY DEF Check
    <3> HIDE DEF zones, joined
    <3> QED BY <2>1, <3>1
  <2>3. anchors(after) = {twin[s] : s \in anchors(b)}
        /\ anchors(after) \cup zones(after) = {twin[s] : s \in anchors(b) \cup zones(b)}
    BY <1>6
  <2>4. anchors(b) \cup zones(b) \in SUBSET conductors /\ anchors(b) \in SUBSET (anchors(b) \cup zones(b))
    BY DEF OfNet
  <2>5. \A z \in zones(after) : z \in zones(b) /\ twin[z] = z
    BY <1>1, <1>2 DEF OfNet
  <2> HIDE DEF anchors, zones, conductors
  <2>6. \A e \in joined(b) : twin[e] \in joined(after)
    BY <1>7, <2>3, <2>4
  <2> HIDE DEF joined
  <2>7. zones(after) \subseteq joined(after)
    BY <2>2, <2>5, <2>6
  <2> QED BY <2>1, <2>7
<1> QED BY <1>8, <1>9, WarmedKeepsClear DEF Check

-----------------------------------------------------------------------------
(* A plan is executed as it was checked. *)

LaidOut(b, zones, vias, thermal) ==
  [b EXCEPT !.zones = @ \cup zones, !.vias = @ \cup vias, !.pads = WarmedPads(b, thermal)]

\* Tiles of the pour on a layer of the board and inside its outline, each with its own id.
ArePoured(b, zones) ==
  \A z \in zones : /\ z.bounds \in Rects /\ InOutline(z.bounds, b.outline)
                   /\ \E l \in b.layers : z = GroundZone(b, l, z.bounds)

AreStitches(b, vias) ==
  /\ \A v \in vias : /\ IsVia(v) /\ v.net = GND /\ v.layers \subseteq b.layers
                     /\ RectContains(b.outline, v.pos) /\ v.id[1] = "stitch" /\ ~v.lock
  /\ \A v, w \in vias : v.id = w.id => v = w

\* Poured zones are unlocked ground zones inside the outline, each with its own id.
LEMMA PouredAre ==
  ASSUME NEW b, NEW zones, ArePoured(b, zones)
  PROVE  /\ \A z \in zones : /\ z.kind = "zone" /\ z.net = GND /\ z.layers \subseteq b.layers
                             /\ InOutline(z.bounds, b.outline) /\ z.id[1] = "pour" /\ ~z.lock
         /\ \A y, z \in zones : y.id = z.id => y = z
<1>1. ASSUME NEW z \in zones
      PROVE  /\ z.kind = "zone" /\ z.net = GND /\ z.layers \subseteq b.layers
             /\ InOutline(z.bounds, b.outline) /\ z.id[1] = "pour" /\ ~z.lock
             /\ z = GroundZone(b, z.id[2], z.id[3])
  <2> DEFINE t == z.bounds
  <2>1. PICK l \in b.layers : z = GroundZone(b, l, t) /\ InOutline(t, b.outline)
    BY DEF ArePoured
  <2> HIDE DEF t
  <2>2. /\ z.kind = "zone" /\ z.net = GND /\ z.layers = {l} /\ z.bounds = t
        /\ z.id = <<"pour", l, t>> /\ z.lock = FALSE
    BY <2>1 DEF GroundZone
  <2>3. z.id[1] = "pour" /\ z.id[2] = l /\ z.id[3] = t
    BY <2>2
  <2> QED BY <2>1, <2>2, <2>3
<1> QED BY <1>1

\* The board laid out has what the board has, the new copper, and warmed pads.
LEMMA LaidHas ==
  ASSUME NEW b, IsBoard(b), NEW zones, NEW vias, NEW thermal
  PROVE  LET after == LaidOut(b, zones, vias, thermal) IN
         /\ after.outline = b.outline /\ after.layers = b.layers /\ after.class = b.class
         /\ after.keepouts = b.keepouts /\ after.footprints = b.footprints /\ after.routes = b.routes
         /\ after.vias = b.vias \cup vias /\ after.zones = b.zones \cup zones
         /\ after.pads = WarmedPads(b, thermal)
         /\ \A q \in after.pads : \E p \in b.pads :
              /\ q = Warmed(p, thermal) /\ q.kind = p.kind /\ q.id = p.id /\ q.fp = p.fp
              /\ q.net = p.net /\ q.layers = p.layers /\ q.pos = p.pos
<1> DEFINE after == LaidOut(b, zones, vias, thermal)
<1>1. /\ after.outline = b.outline /\ after.layers = b.layers /\ after.class = b.class
      /\ after.keepouts = b.keepouts /\ after.footprints = b.footprints /\ after.routes = b.routes
      /\ after.vias = b.vias \cup vias /\ after.zones = b.zones \cup zones
      /\ after.pads = WarmedPads(b, thermal)
  BY DEF LaidOut, IsBoard
<1> HIDE DEF after
<1>2. \A q \in after.pads : \E p \in b.pads :
        /\ q = Warmed(p, thermal) /\ q.kind = p.kind /\ q.id = p.id /\ q.fp = p.fp
        /\ q.net = p.net /\ q.layers = p.layers /\ q.pos = p.pos
  BY <1>1, WarmedIs DEF WarmedPads, IsBoard
<1> QED BY <1>1, <1>2 DEF after

\* It loads, when nothing had an id of poured copper.
LEMMA LaidIsLoadable ==
  ASSUME NEW b, IsBoard(b), Loadable(b), Unpoured(Objects(b)), GND \in DOMAIN b.class,
         NEW zones, ArePoured(b, zones), NEW vias, AreStitches(b, vias), NEW thermal
  PROVE  Loadable(LaidOut(b, zones, vias, thermal))
<1> DEFINE after == LaidOut(b, zones, vias, thermal)
<1>1. /\ after.outline = b.outline /\ after.layers = b.layers /\ after.class = b.class
      /\ after.keepouts = b.keepouts /\ after.footprints = b.footprints /\ after.routes = b.routes
      /\ after.vias = b.vias \cup vias /\ after.zones = b.zones \cup zones
      /\ \A q \in after.pads : \E p \in b.pads :
           /\ q = Warmed(p, thermal) /\ q.kind = p.kind /\ q.id = p.id /\ q.fp = p.fp
           /\ q.net = p.net /\ q.layers = p.layers /\ q.pos = p.pos
  BY LaidHas
<1>2. /\ \A z \in zones : /\ z.kind = "zone" /\ z.net = GND /\ z.layers \subseteq b.layers
                          /\ InOutline(z.bounds, b.outline) /\ z.id[1] = "pour"
      /\ \A y, z \in zones : y.id = z.id => y = z
  BY PouredAre
<1> HIDE DEF after
<1>3. UniqueIds(after)
  <2> DEFINE Old(q, o) == q.id = o.id /\ q = IF o \in b.pads THEN Warmed(o, thermal) ELSE o
  <2>1. \A q \in Objects(after) : q \in zones \/ q \in vias \/ \E o \in Objects(b) : Old(q, o)
    <3> SUFFICES ASSUME NEW q \in Objects(after), q \notin zones, q \notin vias
                 PROVE  \E o \in Objects(b) : Old(q, o)
      OBVIOUS
    <3>1. CASE q \in after.pads
      <4>1. PICK p \in b.pads : q = Warmed(p, thermal) /\ q.id = p.id
        BY <1>1, <3>1
      <4>2. p \in Objects(b)
        BY DEF Objects
      <4> QED BY <4>1, <4>2
    <3>2. CASE q \in b.footprints \cup b.routes \cup b.vias \cup b.zones \cup b.keepouts
      <4>1. q \in Objects(b) /\ q \notin b.pads
        BY <3>2, KindsDiffer DEF Objects
      <4> QED BY <4>1
    <3> QED BY <1>1, <3>1, <3>2 DEF Objects
  <2> SUFFICES ASSUME NEW q \in Objects(after), NEW r \in Objects(after), q.id = r.id PROVE q = r
    BY DEF UniqueIds
  <2>2. \A s, o : o \in Objects(b) /\ Old(s, o) => s.id[1] \notin {"pour", "stitch"}
    BY DEF Unpoured
  <2>3. \A s, o, t, p : /\ o \in Objects(b) /\ p \in Objects(b) /\ Old(s, o) /\ Old(t, p) /\ s.id = t.id
                        => s = t
    BY DEF Loadable, UniqueIds
  <2>4. /\ \A z \in zones : z.id[1] = "pour"
        /\ \A v \in vias : v.id[1] = "stitch"
        /\ \A v, w \in vias : v.id = w.id => v = w
    BY <1>2 DEF AreStitches
  <2> HIDE DEF Old
  <2>5. CASE q \in zones
    BY <1>2, <2>1, <2>2, <2>4, <2>5
  <2>6. CASE q \in vias
    BY <2>1, <2>2, <2>4, <2>6
  <2>7. CASE \E o \in Objects(b) : Old(q, o)
    BY <2>1, <2>2, <2>3, <2>4, <2>7
  <2> QED BY <2>1, <2>5, <2>6, <2>7
<1>4. InsideOutline(after)
  BY <1>1, <1>2 DEF InsideOutline, Loadable, AreStitches
<1>5. ReferencesResolve(after)
  <2>1. \A q \in after.pads : /\ q.net \in DOMAIN after.class \/ (q.kind = "pad" /\ q.net = NoNet)
                              /\ q.layers \subseteq after.layers
                              /\ \E f \in after.footprints : f.id = q.fp
    BY <1>1 DEF Loadable, ReferencesResolve
  <2>2. \A o \in after.routes \cup after.vias \cup after.zones :
          o.net \in DOMAIN after.class /\ o.layers \subseteq after.layers
    <3>1. \A o \in b.routes \cup b.vias \cup b.zones : o.net \in DOMAIN b.class /\ o.layers \subseteq b.layers
      <4>1. \A o \in b.routes \cup b.vias \cup b.zones : o.kind # "pad"
        BY DEF IsBoard, IsRoute, IsVia, IsZone
      <4> QED BY <4>1 DEF Loadable, ReferencesResolve
    <3> QED BY <1>1, <1>2, <3>1 DEF AreStitches
  <2>3. /\ \A k \in after.keepouts : k.layers \subseteq after.layers
        /\ \A f \in after.footprints :
             f.layer \in after.layers /\ f.keepouts \subseteq {k.id : k \in after.keepouts}
    BY <1>1 DEF Loadable, ReferencesResolve
  <2> QED BY <2>1, <2>2, <2>3 DEF ReferencesResolve
<1> QED BY <1>3, <1>4, <1>5 DEF Loadable, after

\* What the plan changes is announced, nothing changes its lock, and what is locked is kept.
LEMMA LaidIsAnnounced ==
  ASSUME NEW b, IsBoard(b), Loadable(b), Unpoured(Objects(b)), NEW zones, ArePoured(b, zones),
         NEW vias, AreStitches(b, vias), NEW thermal
  PROVE  LET after == LaidOut(b, zones, vias, thermal) IN
         /\ SemanticDiff(b, after) \subseteq {o.id : o \in zones \cup vias} \cup thermal
         /\ LockChanged(b, after) = {}
         /\ KeepsLocked(b, after)
<1> DEFINE after == LaidOut(b, zones, vias, thermal)
<1>1. /\ after.keepouts = b.keepouts /\ after.footprints = b.footprints /\ after.routes = b.routes
      /\ after.vias = b.vias \cup vias /\ after.zones = b.zones \cup zones
      /\ after.pads = WarmedPads(b, thermal)
      /\ \A q \in after.pads : \E p \in b.pads : q = Warmed(p, thermal) /\ q.id = p.id
  BY LaidHas
<1>2. /\ \A z \in zones : z.id[1] = "pour"
      /\ \A v \in vias : v.id[1] = "stitch"
  BY PouredAre DEF AreStitches
<1> HIDE DEF after
<1>3. ASSUME NEW o \in Objects(b), o \notin Objects(after) PROVE o.id \in thermal
  <2>1. o \in b.pads
    BY <1>1, <1>3 DEF Objects
  <2>2. Warmed(o, thermal) \in after.pads
    BY <1>1, <2>1 DEF WarmedPads
  <2>3. Warmed(o, thermal) # o
    BY <1>3, <2>2 DEF Objects
  <2> QED BY <2>3 DEF Warmed
<1>4. ASSUME NEW q \in Objects(after), q \notin Objects(b)
      PROVE  q.id \in {o.id : o \in zones \cup vias} \cup thermal
  <2>1. q \in zones \cup vias \cup after.pads
    BY <1>1, <1>4 DEF Objects
  <2>2. CASE q \in after.pads
    <3>1. PICK p \in b.pads : q = Warmed(p, thermal) /\ q.id = p.id
      BY <1>1, <2>2
    <3>2. q # p
      BY <1>4 DEF Objects
    <3> QED BY <3>1, <3>2 DEF Warmed
  <2> QED BY <2>1, <2>2
<1>5. SemanticDiff(b, after) \subseteq {o.id : o \in zones \cup vias} \cup thermal
  BY <1>3, <1>4 DEF SemanticDiff
<1>6. LockChanged(b, after) = {}
  <2>1. \A o \in Lockable(b), q \in Lockable(after) : o.id = q.id => o.lock = q.lock
    <3> SUFFICES ASSUME NEW o \in Lockable(b), NEW q \in Lockable(after), o.id = q.id
                 PROVE  o.lock = q.lock
      OBVIOUS
    <3>1. o \in Objects(b) /\ o.id[1] \notin {"pour", "stitch"}
      BY DEF Lockable, Objects, Unpoured
    <3>2. q \notin zones /\ q \notin vias
      BY <1>2, <3>1
    <3>3. q \in Objects(b)
      BY <1>1, <3>2 DEF Lockable, Objects
    <3> QED BY <3>1, <3>3 DEF Loadable, UniqueIds
  <2> QED BY <2>1, LocksStay
<1>7. KeepsLocked(b, after)
  BY <1>1 DEF KeepsLocked, Objects
<1> QED BY <1>5, <1>6, <1>7 DEF after

\* Two operations, or one when there is nothing for the other, lead to the board laid out.
LEMMA PlanIsApplied ==
  ASSUME NEW b, IsBoard(b), Loadable(b), Unpoured(Objects(b)), GND \in DOMAIN b.class,
         NEW zones, ArePoured(b, zones), NEW vias, AreStitches(b, vias), zones \cup vias # {}
  PROVE  LET end == Applying(b, PlanOperations(b, zones, vias))
             thermal == ThermalPads(b, zones)
         IN  /\ end.board = LaidOut(b, zones, vias, thermal) /\ end.raised = FALSE
             /\ end.announced = {o.id : o \in zones \cup vias} \cup thermal
<1> DEFINE thermal == ThermalPads(b, zones)
           pourOp == [type |-> "zones", zones |-> zones, thermal |-> thermal]
           stitchOp == [type |-> "stitch", vias |-> vias]
           mid == LaidOut(b, zones, {}, thermal)
           last == LaidOut(b, zones, vias, thermal)
<1>1. /\ zones = {} => PlanOperations(b, zones, vias) = <<stitchOp>>
      /\ zones # {} /\ vias = {} => PlanOperations(b, zones, vias) = <<pourOp>>
      /\ zones # {} /\ vias # {} => PlanOperations(b, zones, vias) = <<pourOp, stitchOp>>
  <2>1. PlanOperations(b, zones, vias)
          = (IF zones = {} THEN <<>> ELSE <<pourOp>>) \o (IF vias = {} THEN <<>> ELSE <<stitchOp>>)
    BY DEF PlanOperations
  <2> HIDE DEF pourOp, stitchOp
  <2> DEFINE S == {pourOp, stitchOp}
  <2>2. <<>> \in Seq(S) /\ <<stitchOp>> \in Seq(S) /\ <<pourOp>> \in Seq(S)
    OBVIOUS
  <2>3. <<>> \o <<stitchOp>> = <<stitchOp>>
    BY <2>2
  <2>4. <<pourOp>> \o <<>> = <<pourOp>>
    BY <2>2
  <2>5. <<pourOp>> \o <<stitchOp>> = <<pourOp, stitchOp>>
    <3> DEFINE r == <<pourOp>>
               t == <<stitchOp>>
               s == r \o t
               u == <<pourOp, stitchOp>>
    <3>1. r \in Seq(S) /\ t \in Seq(S) /\ Len(r) = 1 /\ Len(t) = 1 /\ r[1] = pourOp /\ t[1] = stitchOp
      BY <2>2
    <3>2. u \in Seq(S) /\ Len(u) = 2 /\ u[1] = pourOp /\ u[2] = stitchOp
      OBVIOUS
    <3> HIDE DEF r, t, u
    <3>3. s \in Seq(S) /\ Len(s) = 2 /\ s[1] = pourOp /\ s[2] = stitchOp
      <4>1. /\ s \in Seq(S) /\ Len(s) = Len(r) + Len(t)
            /\ \A i \in 1 .. Len(r) + Len(t) : s[i] = IF i <= Len(r) THEN r[i] ELSE t[i - Len(r)]
        BY <3>1, ConcatProperties
      <4> HIDE DEF s
      <4> QED BY <3>1, <4>1
    <3> HIDE DEF s
    <3>4. s = u
      BY <3>2, <3>3, SeqEqual
    <3> QED BY <3>4 DEF r, s, t, u
  <2> QED BY <2>1, <2>3, <2>4, <2>5
<1>2. Begun(b).board = b /\ Begun(b).raised = FALSE /\ Begun(b).announced = {}
  BY DEF Begun
<1>3. /\ mid.vias = b.vias /\ mid.zones = b.zones \cup zones /\ mid.footprints = b.footprints
      /\ mid.keepouts = b.keepouts /\ mid.routes = b.routes
      /\ \A q \in mid.pads : \E p \in b.pads : q.id = p.id
  <2>1. b.vias \cup {} = b.vias
    OBVIOUS
  <2>2. /\ mid.vias = b.vias \cup {} /\ mid.zones = b.zones \cup zones
        /\ mid.footprints = b.footprints /\ mid.keepouts = b.keepouts /\ mid.routes = b.routes
        /\ \A q \in mid.pads : \E p \in b.pads : q.id = p.id
    <3> DEFINE none == {}
               alike == LaidOut(b, zones, none, thermal)
    <3> HIDE DEF none, thermal
    <3>1. /\ alike.vias = b.vias \cup none /\ alike.zones = b.zones \cup zones
          /\ alike.footprints = b.footprints /\ alike.keepouts = b.keepouts /\ alike.routes = b.routes
          /\ \A q \in alike.pads : \E p \in b.pads : q.id = p.id
      BY LaidHas
    <3> QED BY <3>1 DEF none
  <2> HIDE DEF mid
  <2> QED BY <2>1, <2>2
<1>4. \A z \in zones : z.id[1] = "pour"
  BY PouredAre
<1>5. \A v \in vias : v.id[1] = "stitch"
  BY DEF AreStitches
<1>6. Loadable(mid) /\ Loadable(last)
  <2>1. AreStitches(b, {})
    BY DEF AreStitches
  <2> QED BY <2>1, LaidIsLoadable
<1>7. /\ pourOp.type = "zones" /\ pourOp.zones = zones /\ pourOp.thermal = thermal
      /\ stitchOp.type = "stitch" /\ stitchOp.vias = vias
  OBVIOUS
<1> HIDE DEF pourOp, stitchOp
<1>8. Applied(b, pourOp) = mid
  <2>1. Applied(b, pourOp) = [b EXCEPT !.zones = @ \cup zones, !.pads = WarmedPads(b, thermal)]
    BY <1>7 DEF Applied, WarmedPads, Warmed
  <2> DEFINE Z == b.zones \cup zones
             P == WarmedPads(b, thermal)
  <2>2. Applied(b, pourOp) = [b EXCEPT !.zones = Z, !.pads = P]
    BY <2>1
  <2>3. mid = [b EXCEPT !.zones = Z, !.vias = b.vias, !.pads = P]
    BY DEF LaidOut
  <2> HIDE DEF Z, P, mid
  <2> QED BY <2>2, <2>3 DEF IsBoard
<1>9. Applied(mid, stitchOp) = last
  <2> DEFINE Z == b.zones \cup zones
             P == WarmedPads(b, thermal)
             V == b.vias \cup vias
  <2>1. mid = [b EXCEPT !.zones = Z, !.vias = b.vias, !.pads = P]
    BY DEF LaidOut
  <2>2. last = [b EXCEPT !.zones = Z, !.vias = V, !.pads = P]
    BY DEF LaidOut
  <2>3. Applied(mid, stitchOp) = [mid EXCEPT !.vias = V]
    BY <1>3, <1>7 DEF Applied
  <2> HIDE DEF Z, P, V, mid, last
  <2> QED BY <2>1, <2>2, <2>3 DEF IsBoard
<1>10. zones = {} => Applied(b, stitchOp) = last /\ thermal = {}
  <2> SUFFICES ASSUME zones = {} PROVE Applied(b, stitchOp) = last /\ thermal = {}
    OBVIOUS
  <2> DEFINE V == b.vias \cup vias
  <2>1. thermal = {}
    BY DEF ThermalPads
  <2>2. WarmedPads(b, thermal) = b.pads
    BY <2>1 DEF WarmedPads, Warmed
  <2>3. Applied(b, stitchOp) = [b EXCEPT !.vias = V]
    BY <1>7 DEF Applied
  <2>4. last = [b EXCEPT !.zones = b.zones, !.vias = V, !.pads = b.pads]
    BY <2>2 DEF LaidOut
  <2> HIDE DEF V, last, thermal
  <2> QED BY <2>1, <2>3, <2>4 DEF IsBoard
<1>11. vias = {} => last = mid
  OBVIOUS
<1>12. ~Refused(b, pourOp)
  <2>1. \A z \in zones : z.id \notin Ids(b)
    BY <1>4 DEF Ids, Unpoured
  <2>2. \A i \in thermal : \E p \in b.pads : p.id = i /\ p.net = GND
    BY DEF ThermalPads, OfNet
  <2> HIDE DEF thermal
  <2> QED BY <1>7, <2>1, <2>2 DEF Refused
<1>13. ~Refused(b, stitchOp)
  <2>1. \A v \in vias : v.id \notin Ids(b)
    BY <1>5 DEF Ids, Unpoured
  <2> QED BY <1>7, <2>1 DEF Refused
<1>14. ~Refused(mid, stitchOp)
  <2>1. \A o \in Objects(b) : o.id[1] # "stitch"
    BY DEF Unpoured
  <2>2. \A q \in Objects(mid) : q.id[1] # "stitch"
    <3> HIDE DEF mid
    <3> QED BY <1>3, <1>4, <2>1 DEF Objects
  <2>3. \A v \in vias : v.id \notin Ids(mid)
    BY <1>5, <2>2 DEF Ids
  <2> QED BY <1>7, <2>3 DEF Refused
<1>15. /\ \A c : Announced(c, pourOp) = {z.id : z \in zones} \cup thermal
       /\ \A c : Announced(c, stitchOp) = {v.id : v \in vias}
  BY <1>7 DEF Announced
<1> HIDE DEF mid, last, thermal
<1>16. CASE zones = {}
  <2> DEFINE end == Stepped(Begun(b), stitchOp)
  <2>1. Applying(b, PlanOperations(b, zones, vias)) = end
    BY <1>1, <1>16, ApplyingOne
  <2>2. /\ end.board = last /\ end.raised = FALSE
        /\ end.announced = {} \cup {v.id : v \in vias}
    BY <1>2, <1>6, <1>10, <1>13, <1>15, <1>16 DEF Stepped
  <2>3. {} \cup {v.id : v \in vias} = {o.id : o \in zones \cup vias} \cup thermal
    BY <1>10, <1>16
  <2> HIDE DEF end
  <2> QED BY <2>1, <2>2, <2>3 DEF last, thermal
<1>17. CASE zones # {} /\ vias = {}
  <2> DEFINE end == Stepped(Begun(b), pourOp)
  <2>1. Applying(b, PlanOperations(b, zones, vias)) = end
    BY <1>1, <1>17, ApplyingOne
  <2>2. /\ end.board = mid /\ end.raised = FALSE
        /\ end.announced = {} \cup ({z.id : z \in zones} \cup thermal)
    BY <1>2, <1>6, <1>8, <1>12, <1>15 DEF Stepped
  <2>3. {} \cup ({z.id : z \in zones} \cup thermal) = {o.id : o \in zones \cup vias} \cup thermal
    BY <1>17
  <2>4. end.board = last
    BY <1>11, <1>17, <2>2
  <2> HIDE DEF end
  <2> QED BY <2>1, <2>2, <2>3, <2>4 DEF last, thermal
<1>18. CASE zones # {} /\ vias # {}
  <2>1. Applying(b, PlanOperations(b, zones, vias)) = Stepped(Stepped(Begun(b), pourOp), stitchOp)
    BY <1>1, <1>18, ApplyingTwo
  <2> DEFINE first == Stepped(Begun(b), pourOp)
  <2>2. first.board = mid /\ first.raised = FALSE /\ first.announced = {z.id : z \in zones} \cup thermal
    BY <1>2, <1>6, <1>8, <1>12, <1>15 DEF Stepped
  <2> HIDE DEF first
  <2> DEFINE end == Stepped(first, stitchOp)
  <2>3. /\ end.board = last /\ end.raised = FALSE
        /\ end.announced = ({z.id : z \in zones} \cup thermal) \cup {v.id : v \in vias}
    BY <1>6, <1>9, <1>14, <1>15, <2>2 DEF Stepped
  <2>4. ({z.id : z \in zones} \cup thermal) \cup {v.id : v \in vias}
          = {o.id : o \in zones \cup vias} \cup thermal
    OBVIOUS
  <2>5. Applying(b, PlanOperations(b, zones, vias)) = end
    BY <2>1 DEF first
  <2> HIDE DEF end
  <2> QED BY <2>3, <2>4, <2>5 DEF last, thermal
<1> QED BY <1>16, <1>17, <1>18

\* So the plan is executed, and clean as it was found.
LEMMA PlanIsExecuted ==
  ASSUME NEW b, IsBoard(b), Loadable(b), Unpoured(Objects(b)), GND \in DOMAIN b.class,
         NEW zones, AreZones(zones), ArePoured(b, zones),
         NEW vias, IsFiniteSet(vias), AreStitches(b, vias), zones \cup vias # {},
         Check([b EXCEPT !.zones = @ \cup zones, !.vias = @ \cup vias]) = {}
  PROVE  Verdict(b, Applying(b, PlanOperations(b, zones, vias))) = "clean"
<1> DEFINE end == Applying(b, PlanOperations(b, zones, vias))
           thermal == ThermalPads(b, zones)
           after == LaidOut(b, zones, vias, thermal)
           Z == b.zones \cup zones
           V == b.vias \cup vias
           P == WarmedPads(b, thermal)
           planned == [b EXCEPT !.zones = Z, !.vias = V]
<1>1. /\ end.board = after /\ end.raised = FALSE
      /\ end.announced = {o.id : o \in zones \cup vias} \cup thermal
  BY PlanIsApplied
<1>2. /\ SemanticDiff(b, after) \subseteq {o.id : o \in zones \cup vias} \cup thermal
      /\ LockChanged(b, after) = {} /\ KeepsLocked(b, after)
  BY LaidIsAnnounced
<1>3. Check(after) = {}
  <2>1. Check(planned) = {}
    OBVIOUS
  <2>2. IsFiniteSet(Z) /\ IsFiniteSet(V) /\ (\A z \in Z : IsZone(z)) /\ \A v \in V : IsVia(v)
    BY FS_Union DEF IsBoard, AreZones, AreStitches
  <2>3. UniqueIds(planned)
    <3>1. WarmedPads(b, {}) = b.pads
      BY DEF WarmedPads, Warmed
    <3>2. LaidOut(b, zones, vias, {}) = [b EXCEPT !.zones = Z, !.vias = V, !.pads = b.pads]
      BY <3>1 DEF LaidOut
    <3> HIDE DEF Z, V
    <3>3. [b EXCEPT !.zones = Z, !.vias = V, !.pads = b.pads] = planned
      BY DEF IsBoard
    <3> HIDE DEF planned
    <3>4. Loadable(LaidOut(b, zones, vias, {}))
      BY LaidIsLoadable
    <3> QED BY <3>2, <3>3, <3>4 DEF Loadable
  <2>4. after = [b EXCEPT !.zones = Z, !.vias = V, !.pads = P]
    BY DEF LaidOut
  <2> HIDE DEF Z, V, P, after
  <2>5. planned.pads = b.pads /\ IsBoard(planned)
    BY <2>2 DEF IsBoard
  <2>6. WarmedPads(planned, thermal) = P
    BY <2>5 DEF WarmedPads, P
  <2>7. after = [planned EXCEPT !.pads = P]
    BY <2>4 DEF IsBoard
  <2> HIDE DEF planned
  <2> QED BY <2>1, <2>3, <2>5, <2>6, <2>7, WarmedStaysClean
<1> HIDE DEF end, after, thermal
<1>4. (SemanticDiff(b, end.board) \ end.announced) \cup LockChanged(b, end.board) = {}
  BY <1>1, <1>2
<1> QED BY <1>1, <1>2, <1>3, <1>4 DEF Verdict, end

-----------------------------------------------------------------------------
(* Nothing but the planner gives a thing the id of poured copper. *)

\* Whatever is on the board after an operation has an id from before, or is new with the operation.
LEMMA AppliedIsUnpoured ==
  ASSUME NEW b, NEW op, IsBoard(b), Unpoured(Objects(b)), Unpoured(NewObjects(op))
  PROVE  Unpoured(Objects(Applied(b, op)))
<1> DEFINE next == Applied(b, op)
           Known(o) == (\E p \in Objects(b) : p.id = o.id) \/ o \in NewObjects(op)
<1>0. \A o \in Objects(b) : Known(o)
  OBVIOUS
<1>1. CASE op.type = "place"
  <2> DEFINE pos == op.pos
             origin(p) == (CHOOSE f \in b.footprints : f.id = p.fp).pos
             moved(p) == Point(p.pos.x + pos[p.fp].x - origin(p).x, p.pos.y + pos[p.fp].y - origin(p).y)
             foot(f) == IF f.id \in DOMAIN pos THEN [f EXCEPT !.pos = pos[f.id]] ELSE f
             pad(p) == IF p.fp \in DOMAIN pos THEN [p EXCEPT !.pos = moved(p)] ELSE p
             F == {foot(f) : f \in b.footprints}
             P == {pad(p) : p \in b.pads}
  <2>1. next = [b EXCEPT !.footprints = F, !.pads = P]
    BY <1>1 DEF Applied, Placed
  <2> HIDE DEF moved
  <2>2. \A f \in b.footprints : foot(f).id = f.id
    BY DEF IsBoard, IsFootprint
  <2>3. \A p \in b.pads : pad(p).id = p.id
    BY DEF IsBoard, IsPad
  <2> HIDE DEF foot, pad
  <2>4. (\A f \in F : \E g \in b.footprints : f.id = g.id) /\ \A p \in P : \E q \in b.pads : p.id = q.id
    BY <2>2, <2>3
  <2> HIDE DEF F, P, next
  <2>5. /\ next.footprints = F /\ next.pads = P /\ next.routes = b.routes /\ next.vias = b.vias
        /\ next.zones = b.zones /\ next.keepouts = b.keepouts
    BY <2>1 DEF IsBoard
  <2>6. \A o \in Objects(next) : Known(o)
    BY <2>4, <2>5 DEF Objects
  <2> QED BY <2>6 DEF Unpoured, next
<1>2. CASE op.type = "route"
  <2> DEFINE R == {r \in b.routes : r.id \notin op.removed} \cup op.segments
             V == b.vias \cup op.vias
  <2>1. next = [b EXCEPT !.routes = R, !.vias = V]
    BY <1>2 DEF Applied
  <2>2. NewObjects(op) = op.segments \cup op.vias
    BY <1>2 DEF NewObjects
  <2> HIDE DEF next
  <2>3. /\ next.footprints = b.footprints /\ next.pads = b.pads /\ next.routes = R /\ next.vias = V
        /\ next.zones = b.zones /\ next.keepouts = b.keepouts
    BY <2>1 DEF IsBoard
  <2>4. \A o \in Objects(next) : Known(o)
    BY <2>2, <2>3 DEF Objects
  <2> QED BY <2>4 DEF Unpoured, next
<1>3. CASE op.type = "zones"
  <2> DEFINE Z == b.zones \cup op.zones
             pad(p) == IF p.id \in op.thermal THEN [p EXCEPT !.thermal = TRUE] ELSE p
             P == {pad(p) : p \in b.pads}
  <2>1. next = [b EXCEPT !.zones = Z, !.pads = P]
    BY <1>3 DEF Applied
  <2>2. NewObjects(op) = op.zones
    BY <1>3 DEF NewObjects
  <2>3. \A p \in b.pads : pad(p).id = p.id
    BY DEF IsBoard, IsPad
  <2> HIDE DEF pad
  <2>4. \A p \in P : \E q \in b.pads : p.id = q.id
    BY <2>3
  <2> HIDE DEF P, next
  <2>5. /\ next.footprints = b.footprints /\ next.pads = P /\ next.routes = b.routes
        /\ next.vias = b.vias /\ next.zones = Z /\ next.keepouts = b.keepouts
    BY <2>1 DEF IsBoard
  <2>6. \A o \in Objects(next) : Known(o)
    BY <2>2, <2>4, <2>5 DEF Objects
  <2> QED BY <2>6 DEF Unpoured, next
<1>4. CASE op.type = "stitch"
  <2> DEFINE V == b.vias \cup op.vias
  <2>1. next = [b EXCEPT !.vias = V]
    BY <1>4 DEF Applied
  <2>2. NewObjects(op) = op.vias
    BY <1>4 DEF NewObjects
  <2> HIDE DEF next
  <2>3. /\ next.footprints = b.footprints /\ next.pads = b.pads /\ next.routes = b.routes
        /\ next.vias = V /\ next.zones = b.zones /\ next.keepouts = b.keepouts
    BY <2>1 DEF IsBoard
  <2>4. \A o \in Objects(next) : Known(o)
    BY <2>2, <2>3 DEF Objects
  <2> QED BY <2>4 DEF Unpoured, next
<1>5. CASE op.type \notin {"place", "route", "zones", "stitch"}
  BY <1>5 DEF Applied
<1> QED BY <1>1, <1>2, <1>3, <1>4, <1>5

\* So it is after a proposal whose operations were executed.
LEMMA ApplyingIsUnpoured ==
  ASSUME NEW b, NEW ops, IsBoard(b), Loadable(b), IsProposal(ops), ~Applying(b, ops).raised,
         Unpoured(Objects(b)), \A i \in DOMAIN ops : Unpoured(NewObjects(ops[i]))
  PROVE  Unpoured(Objects(Applying(b, ops).board))
<1> DEFINE Good(c) == IsBoard(c.board) /\ Loadable(c.board) /\ Unpoured(Objects(c.board))
<1>1. Len(ops) \in Nat /\ DOMAIN ops = 1 .. Len(ops) /\ \A i \in DOMAIN ops : IsOp(ops[i])
  BY DEF IsProposal
<1>2. PICK copy : IsCopies(b, ops, copy, Len(ops)) /\ Applying(b, ops) = copy[Len(ops)]
  BY <1>1, ApplyingIs
<1> DEFINE G == {n \in Nat : ~copy[n].raised => Good(copy[n])}
<1>3. \A m \in 0 .. Len(ops) : copy[m] = IF m = 0 THEN Begun(b) ELSE Stepped(copy[m - 1], ops[m])
  BY <1>2 DEF IsCopies
<1>4. 0 \in G
  <2>1. copy[0] = Begun(b)
    BY <1>1, <1>3
  <2> QED BY <2>1 DEF Begun
<1>5. ASSUME NEW n \in 0 .. Len(ops) - 1, n \in G
      PROVE  n + 1 \in G
  <2> SUFFICES ASSUME ~copy[n + 1].raised PROVE Good(copy[n + 1])
    BY <1>1
  <2> DEFINE next == Applied(copy[n].board, ops[n + 1])
  <2>1. copy[n + 1] = Stepped(copy[n], ops[n + 1])
    <3>1. n + 1 \in 0 .. Len(ops) /\ n + 1 # 0 /\ (n + 1) - 1 = n
      BY <1>1
    <3> QED BY <3>1, <1>3
  <2>2. copy[n + 1].board = next /\ ~copy[n].raised /\ Loadable(next)
    <3> HIDE DEF next
    <3>1. /\ copy[n + 1].board = next
          /\ copy[n + 1].raised = (copy[n].raised \/ Refused(copy[n].board, ops[n + 1]) \/ ~Loadable(next))
      BY <2>1 DEF Stepped, next
    <3> QED BY <3>1
  <2>3. Good(copy[n])
    BY <2>2, <1>5
  <2>4. IsOp(ops[n + 1]) /\ Unpoured(NewObjects(ops[n + 1]))
    BY <1>1
  <2>5. IsBoard(next) /\ Unpoured(Objects(next))
    BY <2>3, <2>4, AppliedIsBoard, AppliedIsUnpoured DEF Loadable
  <2> QED BY <2>2, <2>5
<1> HIDE DEF G, Good
<1>6. 0 .. Len(ops) \subseteq G
  BY <1>1, <1>4, <1>5, FromOn
<1>7. Len(ops) \in G
  BY <1>1, <1>6
<1> QED BY <1>2, <1>7 DEF G, Good

-----------------------------------------------------------------------------
(* What the planner proposes lies on the board. *)

\* What is left of a rectangle lies where the rectangle lies.
LEMMA SubtractLiesIn ==
  ASSUME NEW r \in Rects, NEW cut \in Rects, NEW outline \in Rects, InOutline(r, outline)
  PROVE  \A s \in Subtract(r, cut) : InOutline(s, outline)
<1> DEFINE left == Most(r.x, cut.x)
           bottom == Most(r.y, cut.y)
           right == Least(r.x + r.w, cut.x + cut.w)
           top == Least(r.y + r.h, cut.y + cut.h)
           West == Rect(r.x, r.y, left - r.x, r.h)
           East == Rect(right, r.y, r.x + r.w - right, r.h)
           South == Rect(left, r.y, right - left, bottom - r.y)
           North == Rect(left, top, right - left, r.y + r.h - top)
<1>1. /\ r.x \in Int /\ r.y \in Int /\ r.w \in Int /\ r.h \in Int
      /\ cut.x \in Int /\ cut.y \in Int /\ cut.w \in Int /\ cut.h \in Int
      /\ outline.x \in Int /\ outline.y \in Int /\ outline.w \in Int /\ outline.h \in Int
  BY DEF Rects
<1>2. left \in Int /\ bottom \in Int /\ right \in Int /\ top \in Int
  BY <1>1 DEF Most, Least
<1>3. r.x <= left /\ r.y <= bottom /\ right <= r.x + r.w /\ top <= r.y + r.h
  BY <1>1 DEF Most, Least
<1>4. Subtract(r, cut) = IF left >= right \/ bottom >= top THEN {r}
                         ELSE {s \in {West, East, South, North} : s.w > 0 /\ s.h > 0}
  BY DEF Subtract
<1> HIDE DEF left, bottom, right, top
<1>5. CASE left >= right \/ bottom >= top
  BY <1>4, <1>5
<1>6. CASE ~(left >= right \/ bottom >= top)
  <2>1. left < right /\ bottom < top
    BY <1>2, <1>6
  <2>2. /\ r.x >= outline.x /\ r.x + r.w <= outline.x + outline.w
        /\ r.y >= outline.y /\ r.y + r.h <= outline.y + outline.h
    BY DEF InOutline
  <2>3. InOutline(West, outline)
    <3>1. West.x = r.x /\ West.y = r.y /\ West.w = left - r.x /\ West.h = r.h
      BY DEF Rect
    <3> HIDE DEF West
    <3> QED BY <1>1, <1>2, <1>3, <2>1, <2>2, <3>1 DEF InOutline
  <2>4. InOutline(East, outline)
    <3>1. East.x = right /\ East.y = r.y /\ East.w = r.x + r.w - right /\ East.h = r.h
      BY DEF Rect
    <3> HIDE DEF East
    <3> QED BY <1>1, <1>2, <1>3, <2>1, <2>2, <3>1 DEF InOutline
  <2>5. InOutline(South, outline)
    <3>1. South.x = left /\ South.y = r.y /\ South.w = right - left /\ South.h = bottom - r.y
      BY DEF Rect
    <3> HIDE DEF South
    <3> QED BY <1>1, <1>2, <1>3, <2>1, <2>2, <3>1 DEF InOutline
  <2>6. InOutline(North, outline)
    <3>1. North.x = left /\ North.y = top /\ North.w = right - left /\ North.h = r.y + r.h - top
      BY DEF Rect
    <3> HIDE DEF North
    <3> QED BY <1>1, <1>2, <1>3, <2>1, <2>2, <3>1 DEF InOutline
  <2> HIDE DEF West, East, South, North
  <2> QED BY <1>4, <1>6, <2>3, <2>4, <2>5, <2>6
<1> QED BY <1>5, <1>6

\* The board without its edge lies inside the outline.
LEMMA BoardRectLiesIn ==
  ASSUME NEW b, IsBoard(b)
  PROVE  \A r \in BoardRect(b) : InOutline(r, b.outline)
<1>1. /\ b.outline.x \in Int /\ b.outline.y \in Int /\ b.outline.w \in Int /\ b.outline.h \in Int
      /\ CopperEdge \in Nat
  BY EdgeAssumption DEF IsBoard, Rects
<1> SUFFICES ASSUME NEW r \in BoardRect(b) PROVE InOutline(r, b.outline)
  OBVIOUS
<1>2. r = Rect(b.outline.x + CopperEdge, b.outline.y + CopperEdge,
               b.outline.w - 2 * CopperEdge, b.outline.h - 2 * CopperEdge)
  BY DEF BoardRect
<1>3. /\ r.x = b.outline.x + CopperEdge /\ r.w = b.outline.w - 2 * CopperEdge
      /\ r.y = b.outline.y + CopperEdge /\ r.h = b.outline.h - 2 * CopperEdge
  BY <1>2 DEF Rect
<1> QED BY <1>1, <1>3 DEF InOutline

\* Stitching vias lie inside the outline, join layers of the board and have their points for ids.
LEMMA StitchesLieIn ==
  ASSUME NEW b, NEW zones, IsBoard(b), BoardRect(b) # {}
  PROVE  AreStitches(b, StitchingVias(b, zones))
<1> DEFINE via(p) == [kind |-> "via", id |-> <<"stitch", p>>, net |-> GND, pos |-> p,
                      diameter |-> ViaDiameter, layers |-> Covered(b, zones, p), lock |-> FALSE]
<1>1. \A v \in StitchingVias(b, zones) : \E p : v = via(p) /\ ~StitchingBlocked(b, p)
  <2> DEFINE board0 == CHOOSE r \in BoardRect(b) : TRUE
             line(lo, len) == {c \in lo + Pitch \div 2 .. lo + len - 1 : (c - lo - Pitch \div 2) % Pitch = 0}
             points == {Point(x, y) : x \in line(board0.x, board0.w), y \in line(board0.y, board0.h)}
             good == {p \in points : Cardinality(Covered(b, zones, p)) >= 2 /\ ~StitchingBlocked(b, p)}
             before(p) == {q \in good : q.y < p.y \/ (q.y = p.y /\ q.x < p.x)}
             chosen == {p \in good : Cardinality(before(p)) < MaxVias}
  <2>1. StitchingVias(b, zones) = {via(p) : p \in chosen}
    BY DEF StitchingVias
  <2>2. \A p \in chosen : ~StitchingBlocked(b, p)
    OBVIOUS
  <2> HIDE DEF chosen, via
  <2> QED BY <2>1, <2>2
<1>2. \A v \in StitchingVias(b, zones) : IsVia(v)
  BY StitchingAreVias
<1>3. ASSUME NEW v \in StitchingVias(b, zones)
      PROVE  /\ v.net = GND /\ v.layers \subseteq b.layers /\ RectContains(b.outline, v.pos)
             /\ v.id = <<"stitch", v.pos>> /\ v.id[1] = "stitch" /\ ~v.lock /\ v = via(v.pos)
  <2>1. PICK p : v = via(p) /\ ~StitchingBlocked(b, p)
    BY <1>1
  <2>2. /\ v.net = GND /\ v.layers = Covered(b, zones, p) /\ v.pos = p /\ v.id = <<"stitch", p>>
        /\ v.lock = FALSE
    BY <2>1
  <2>3. Covered(b, zones, p) \subseteq b.layers
    BY DEF Covered
  <2>4. RectContains(b.outline, p)
    <3> DEFINE d == CopperEdge + ViaDiameter \div 2
    <3>1. RectContainsCircle(b.outline, p, d)
      BY <2>1 DEF StitchingBlocked
    <3>2. p \in Points /\ d \in Nat
      BY <1>2, <2>2, EdgeAssumption, CopperAssumption DEF IsVia
    <3> HIDE DEF d
    <3> QED BY <3>1, <3>2 DEF RectContainsCircle, RectContains, IsBoard, Rects, Points
  <2> QED BY <2>1, <2>2, <2>3, <2>4
<1>4. \A v, w \in StitchingVias(b, zones) : v.id = w.id => v = w
  <2> SUFFICES ASSUME NEW v \in StitchingVias(b, zones), NEW w \in StitchingVias(b, zones), v.id = w.id
               PROVE  v = w
    OBVIOUS
  <2>1. v.pos = w.pos
    BY <1>3
  <2> HIDE DEF via
  <2> QED BY <1>3, <2>1
<1> HIDE DEF via
<1> QED BY <1>2, <1>3, <1>4 DEF AreStitches

-----------------------------------------------------------------------------
(* The inductive invariant behind the executed proposals. *)

\* The boards and the operations by hand leave the ids of poured copper to the planner.
NothingPoured ==
  /\ \A b \in Boards : Unpoured(Objects(b))
  /\ \A ops \in ByHand : \A i \in DOMAIN ops : Unpoured(NewObjects(ops[i]))
PadsAreInside == \A b \in Boards : PadsInside(b)

\* The operations are those of the pour that ended, and the checker found nothing on the board
\* they describe.
IsPlan(b, p, ops) ==
  LET vias == StitchingVias(b, p.zones) IN
  /\ p.phase = "done" /\ ArePoured(b, p.zones)
  /\ BoardRect(b) # {} /\ GND \in DOMAIN b.class /\ p.zones \cup vias # {}
  /\ ops = PlanOperations(b, p.zones, vias)
  /\ Check([b EXCEPT !.zones = @ \cup p.zones, !.vias = @ \cup vias]) = {}

\* What has been poured, and the tiles still to be poured, lie on the board.
PourLiesIn(b, p) ==
  /\ p.phase = "idle" => p.zones = {}
  /\ p.phase \in {"layers", "cutting", "stitching"} => ArePoured(b, p.zones) /\ p.todo \subseteq b.layers
  /\ p.phase = "cutting" => p.layer \in b.layers /\ \A t \in p.tiles : InOutline(t, b.outline)

\* The solver's board is one to begin with, the planner's has nothing it could have poured, and
\* what either offers is what it found.
OffersInv ==
  /\ ProposalsAreExecuted
  /\ stage = "place" /\ place.phase # "done" => board \in Boards
  /\ proposal.by = "placer" =>
       /\ board \in Boards
       /\ proposal.ops = <<[type |-> "place", pos |-> proposal.ops[1].pos]>>
  /\ proposal.by = "planner" => Unpoured(Objects(board)) /\ IsPlan(board, pour, proposal.ops)
  /\ proposal.by # "planner" => \A i \in DOMAIN proposal.ops : Unpoured(NewObjects(proposal.ops[i]))
  /\ pour.phase # "done" => Unpoured(Objects(board))
  /\ PourLiesIn(board, pour)

\* No proposal has nothing to say.
LEMMA NoProposalIs ==
  /\ NoProposal.by = "nobody" /\ NoProposal.ops = <<>> /\ DOMAIN NoProposal.ops = {}
BY DEF NoProposal

\* Between proposals the invariant is about the board and the pour alone.
LEMMA OffersKept ==
  ASSUME OffersInv, outcome' = outcome, board' = board, proposal' = NoProposal,
         stage' = "place" /\ place'.phase # "done" => board \in Boards,
         pour'.phase # "done" => Unpoured(Objects(board)), PourLiesIn(board, pour')
  PROVE  OffersInv'
<1>1. proposal'.by = "nobody" /\ DOMAIN proposal'.ops = {}
  BY NoProposalIs
<1>2. ProposalsAreExecuted'
  BY DEF OffersInv, ProposalsAreExecuted
<1> QED BY <1>1, <1>2 DEF OffersInv

\* It holds of the boards to begin with.
LEMMA InitOffers ==
  ASSUME NothingPoured, Init
  PROVE  OffersInv
<1>1. /\ board \in Boards /\ proposal = NoProposal /\ outcome.by = "nobody"
      /\ pour.phase = "idle" /\ pour.zones = {}
  BY DEF Init, NoOutcome, PourIdle
<1>2. Unpoured(Objects(board))
  BY <1>1 DEF NothingPoured
<1>3. proposal.by = "nobody" /\ DOMAIN proposal.ops = {}
  BY <1>1, NoProposalIs
<1> QED BY <1>1, <1>2, <1>3 DEF OffersInv, ProposalsAreExecuted, PourLiesIn

\* The solver offers one placement of the board it was given.
LEMMA PlacingOffers ==
  ASSUME IInv, OffersInv, Placing
  PROVE  OffersInv'
<1>1. /\ stage = "place" /\ place.phase # "done" /\ proposal = NoProposal
      /\ stage' = stage /\ pour' = pour /\ board \in Boards
      /\ pour.phase # "done" => Unpoured(Objects(board))
      /\ PourLiesIn(board, pour)
  BY DEF IInv, Placing, Turns, OffersInv
<1>2. CASE Place
  <2> DEFINE op == [type |-> "place", pos |-> place.best]
  <2>1. /\ board' = board /\ outcome' = outcome /\ place'.phase = "done"
        /\ proposal' = [by |-> "placer", ops |-> <<op>>]
    BY <1>2 DEF Place, PlaceIdle
  <2>2. /\ proposal'.by = "placer" /\ proposal'.ops = <<op>> /\ proposal'.ops[1] = op
        /\ DOMAIN proposal'.ops = {1}
    BY <2>1
  <2>3. op.type = "place" /\ op.pos = place.best
    OBVIOUS
  <2>4. Unpoured(NewObjects(op))
    BY <2>3 DEF NewObjects, Unpoured
  <2>5. op = [type |-> "place", pos |-> op.pos]
    OBVIOUS
  <2> HIDE DEF op
  <2>6. ProposalsAreExecuted'
    BY <2>1 DEF OffersInv, ProposalsAreExecuted
  <2>7. proposal'.ops = <<[type |-> "place", pos |-> proposal'.ops[1].pos]>>
    BY <2>2, <2>5
  <2> QED BY <1>1, <2>1, <2>2, <2>4, <2>6, <2>7 DEF OffersInv
<1>3. CASE ~Place
  <2>1. board' = board /\ outcome' = outcome /\ proposal' = NoProposal
    BY <1>1, <1>3 DEF Placing, SolveInfeasible, SolveBegins, SolveStart, Move, EndStart, adapterVars
  <2> QED BY <1>1, <2>1, OffersKept
<1> QED BY <1>2, <1>3

\* The planner pours on layers of the board, inside its outline, and offers what it has checked.
LEMMA PouringOffers ==
  ASSUME IInv, OffersInv, Pouring
  PROVE  OffersInv'
<1>1. /\ stage = "pour" /\ pour.phase # "done" /\ proposal = NoProposal /\ stage' = stage
      /\ IsBoard(board) /\ Loadable(board) /\ Unpoured(Objects(board)) /\ PourLiesIn(board, pour)
      /\ PouringSound(board, pour)
  BY DEF IInv, Pouring, Turns, OffersInv
<1>2. /\ DOMAIN pour = {"phase", "todo", "layer", "cut", "left", "tiles", "zones", "islands", "findings"}
  BY DEF IInv, PourIdle
<1>3. ASSUME UNCHANGED adapterVars, PourLiesIn(board, pour') PROVE OffersInv'
  BY <1>1, <1>3, OffersKept DEF adapterVars
<1>4. CASE PlanRefused
  <2>1. UNCHANGED adapterVars /\ \E found : pour' = [pour EXCEPT !.phase = "done", !.findings = found]
    BY <1>4 DEF PlanRefused
  <2>2. pour'.phase = "done"
    BY <1>2, <2>1
  <2> QED BY <1>3, <2>1, <2>2 DEF PourLiesIn
<1>5. CASE PlanStarts
  <2>1. /\ UNCHANGED adapterVars /\ pour.phase = "idle"
        /\ pour' = [pour EXCEPT !.phase = "layers", !.todo = board.layers]
    BY <1>5 DEF PlanStarts
  <2>2. pour'.phase = "layers" /\ pour'.todo = board.layers /\ pour'.zones = pour.zones
    BY <1>2, <2>1
  <2>3. ArePoured(board, pour.zones)
    BY <1>1, <2>1 DEF PourLiesIn, ArePoured
  <2> QED BY <1>3, <2>1, <2>2, <2>3 DEF PourLiesIn
<1>6. CASE TakeLayer
  <2>1. UNCHANGED adapterVars /\ pour.phase = "layers"
    BY <1>6 DEF TakeLayer
  <2>2. PICK l \in pour.todo :
          pour' = [pour EXCEPT !.phase = "cutting", !.todo = @ \ {l}, !.layer = l, !.cut = {},
                               !.left = ExcludedRegions(board, l), !.tiles = BoardRect(board)]
    BY <1>6 DEF TakeLayer
  <2>3. /\ pour'.phase = "cutting" /\ pour'.todo = pour.todo \ {l} /\ pour'.layer = l
        /\ pour'.tiles = BoardRect(board) /\ pour'.zones = pour.zones
    BY <1>2, <2>2
  <2>4. ArePoured(board, pour.zones) /\ pour.todo \subseteq board.layers
    BY <1>1, <2>1 DEF PourLiesIn
  <2>5. \A t \in pour'.tiles : InOutline(t, board.outline)
    BY <1>1, <2>3, BoardRectLiesIn
  <2> QED BY <1>3, <2>1, <2>3, <2>4, <2>5 DEF PourLiesIn
<1>7. CASE CutRegion
  <2>1. UNCHANGED adapterVars /\ pour.phase = "cutting"
    BY <1>7 DEF CutRegion
  <2>2. PICK r \in pour.left :
          pour' = [pour EXCEPT !.left = @ \ {r}, !.cut = @ \cup {r},
                               !.tiles = UNION {Subtract(t, r) : t \in @}]
    BY <1>7 DEF CutRegion
  <2>3. /\ pour'.phase = "cutting" /\ pour'.todo = pour.todo /\ pour'.layer = pour.layer
        /\ pour'.tiles = UNION {Subtract(t, r) : t \in pour.tiles} /\ pour'.zones = pour.zones
    BY <1>2, <2>1, <2>2
  <2>4. /\ ArePoured(board, pour.zones) /\ pour.todo \subseteq board.layers
        /\ pour.layer \in board.layers /\ \A t \in pour.tiles : InOutline(t, board.outline)
    BY <1>1, <2>1 DEF PourLiesIn
  <2>5. pour.tiles \subseteq Rects /\ r \in Rects /\ board.outline \in Rects
    BY <1>1, <2>1, <2>2 DEF PouringSound, IsBoard
  <2>6. \A t \in pour'.tiles : InOutline(t, board.outline)
    <3>1. \A t \in pour.tiles : \A s \in Subtract(t, r) : InOutline(s, board.outline)
      BY <2>4, <2>5, SubtractLiesIn
    <3> QED BY <2>3, <3>1
  <2> QED BY <1>3, <2>1, <2>3, <2>4, <2>6 DEF PourLiesIn
<1>8. CASE CloseLayer
  <2>1. UNCHANGED adapterVars /\ pour.phase = "cutting"
    BY <1>8 DEF CloseLayer
  <2> DEFINE anchored == AnchoredTiles(board, pour.layer, pour.tiles)
             kept == {t \in pour.tiles : t \in anchored /\ Area(t) >= MinIsland}
             more == {GroundZone(board, pour.layer, t) : t \in kept}
  <2>2. pour' = [pour EXCEPT !.phase = IF pour.todo = {} THEN "stitching" ELSE "layers",
                             !.tiles = {}, !.zones = @ \cup more,
                             !.islands = @ \cup {<<pour.layer, t>> : t \in pour.tiles \ kept}]
    BY <1>8 DEF CloseLayer
  <2>3. /\ pour'.phase \in {"stitching", "layers"} /\ pour'.todo = pour.todo
        /\ pour'.zones = pour.zones \cup more
    BY <1>2, <2>2
  <2>4. /\ ArePoured(board, pour.zones) /\ pour.todo \subseteq board.layers
        /\ pour.layer \in board.layers /\ \A t \in pour.tiles : InOutline(t, board.outline)
        /\ pour.tiles \subseteq Rects
    BY <1>1, <2>1 DEF PourLiesIn, PouringSound
  <2>5. \A z \in more : \E t \in pour.tiles : z = GroundZone(board, pour.layer, t) /\ z.bounds = t
    BY DEF GroundZone
  <2> HIDE DEF more
  <2>6. ArePoured(board, more)
    BY <2>4, <2>5 DEF ArePoured
  <2>7. ArePoured(board, pour'.zones)
    BY <2>3, <2>4, <2>6 DEF ArePoured
  <2> QED BY <1>3, <2>1, <2>3, <2>4, <2>7 DEF PourLiesIn
<1>9. CASE PlanEnds
  <2> DEFINE vias == StitchingVias(board, pour.zones)
             found == Check([board EXCEPT !.zones = @ \cup pour.zones, !.vias = @ \cup vias])
             ops == PlanOperations(board, pour.zones, vias)
  <2>1. /\ pour.phase = "stitching" /\ board' = board /\ outcome' = outcome
        /\ pour' = [pour EXCEPT !.phase = "done", !.findings = found]
        /\ proposal' = IF found # {} \/ pour.zones \cup vias = {} THEN NoProposal
                       ELSE [by |-> "planner", ops |-> ops]
    BY <1>9 DEF PlanEnds
  <2> HIDE DEF found, vias, ops
  <2>2. pour'.phase = "done" /\ pour'.zones = pour.zones
    BY <1>2, <2>1
  <2>3. PourLiesIn(board, pour')
    BY <2>2 DEF PourLiesIn
  <2>4. CASE found # {} \/ pour.zones \cup vias = {}
    BY <1>1, <2>1, <2>2, <2>3, <2>4, OffersKept
  <2>5. CASE ~(found # {} \/ pour.zones \cup vias = {})
    <3>1. proposal'.by = "planner" /\ proposal'.ops = ops
      BY <2>1, <2>5
    <3>2. ArePoured(board, pour.zones) /\ BoardRect(board) # {} /\ GND \in DOMAIN board.class
      BY <1>1, <2>1 DEF PourLiesIn, PouringSound
    <3>3. IsPlan(board, pour', ops)
      BY <2>2, <2>5, <3>2 DEF IsPlan, found, vias, ops
    <3>4. ProposalsAreExecuted'
      BY <2>1 DEF OffersInv, ProposalsAreExecuted
    <3> QED BY <1>1, <2>1, <2>2, <2>3, <3>1, <3>3, <3>4 DEF OffersInv
  <2> QED BY <2>4, <2>5
<1> QED BY <1>4, <1>5, <1>6, <1>7, <1>8, <1>9 DEF Pouring

\* What a tool offered is executed as it was meant, and a client's operations pour nothing.
LEMMA ExecuteOffers ==
  ASSUME PadsAreInside, IInv, OffersInv, Execute
  PROVE  OffersInv'
<1> DEFINE end == Applying(board, proposal.ops)
           verdict == Verdict(board, end)
<1>1. /\ proposal.ops # <<>> /\ proposal' = NoProposal
      /\ outcome' = [by |-> proposal.by, verdict |-> verdict]
      /\ board' = IF verdict = "clean" THEN end.board ELSE board
      /\ place' = place /\ pour' = pour /\ stage' = stage
  BY DEF Execute, Apply
<1>2. outcome'.by = proposal.by /\ outcome'.verdict = verdict
  BY <1>1
<1>3. proposal # NoProposal
  BY <1>1, NoProposalIs
<1>4. IsBoard(board) /\ Loadable(board) /\ IsProposal(proposal.ops)
  BY DEF IInv
<1>5. proposal.by = "placer" => verdict \in {"clean", "findings"}
  <2> SUFFICES ASSUME proposal.by = "placer" PROVE verdict \in {"clean", "findings"}
    OBVIOUS
  <2> DEFINE pos == proposal.ops[1].pos
             op == [type |-> "place", pos |-> pos]
  <2>1. proposal.ops = <<op>> /\ PadsInside(board) /\ IsSound(board, pos)
    BY DEF OffersInv, IInv, Offered, PadsAreInside
  <2> HIDE DEF pos
  <2>2. Verdict(board, Applying(board, <<op>>)) \in {"clean", "findings"}
    BY <1>4, <2>1, PlacementIsExecuted
  <2> QED BY <2>1, <2>2
<1>6. proposal.by = "planner" => verdict = "clean"
  <2> SUFFICES ASSUME proposal.by = "planner" PROVE verdict = "clean"
    OBVIOUS
  <2> DEFINE vias == StitchingVias(board, pour.zones)
  <2>1. Unpoured(Objects(board)) /\ IsPlan(board, pour, proposal.ops) /\ AreZones(pour.zones)
    BY DEF OffersInv, IInv, PouringSound
  <2>2. /\ ArePoured(board, pour.zones) /\ BoardRect(board) # {} /\ GND \in DOMAIN board.class
        /\ pour.zones \cup vias # {} /\ proposal.ops = PlanOperations(board, pour.zones, vias)
        /\ Check([board EXCEPT !.zones = @ \cup pour.zones, !.vias = @ \cup vias]) = {}
    BY <2>1 DEF IsPlan
  <2>3. IsFiniteSet(vias) /\ AreStitches(board, vias)
    BY <1>4, <2>2, StitchingAreVias, StitchesLieIn
  <2> HIDE DEF vias
  <2> QED BY <1>4, <2>1, <2>2, <2>3, PlanIsExecuted
<1>7. pour.phase # "done" => Unpoured(Objects(board'))
  <2> SUFFICES ASSUME pour.phase # "done", verdict = "clean" PROVE Unpoured(Objects(end.board))
    BY <1>1 DEF OffersInv
  <2>1. proposal.by # "planner" /\ Unpoured(Objects(board))
    BY DEF OffersInv, IsPlan
  <2>2. \A i \in DOMAIN proposal.ops : Unpoured(NewObjects(proposal.ops[i]))
    BY <2>1 DEF OffersInv
  <2>3. ~end.raised
    BY DEF Verdict
  <2> QED BY <1>4, <2>1, <2>2, <2>3, ApplyingIsUnpoured
<1>8. /\ pour.phase \notin {"layers", "cutting", "stitching"}
      /\ ~(stage = "place" /\ place.phase # "done")
  BY <1>3 DEF IInv, Turns
<1> HIDE DEF end, verdict
<1>9. PourLiesIn(board', pour')
  BY <1>1, <1>8 DEF OffersInv, PourLiesIn
<1>10. ProposalsAreExecuted'
  BY <1>2, <1>5, <1>6 DEF ProposalsAreExecuted
<1>11. proposal'.by = "nobody" /\ DOMAIN proposal'.ops = {}
  BY <1>1, NoProposalIs
<1> QED BY <1>1, <1>7, <1>8, <1>9, <1>10, <1>11 DEF OffersInv

\* A client's operations and the change of turns.
LEMMA TurnsOffer ==
  ASSUME NothingPoured, OffersInv, Hand \/ Advance
  PROVE  OffersInv'
<1>1. CASE Hand
  <2>1. PICK ops \in ByHand : proposal' = [by |-> "client", ops |-> ops]
    BY <1>1 DEF Hand
  <2>2. /\ board' = board /\ outcome' = outcome /\ place' = place /\ pour' = pour /\ stage' = stage
    BY <1>1 DEF Hand
  <2>3. proposal'.by = "client" /\ proposal'.ops = ops
    BY <2>1
  <2>4. \A i \in DOMAIN ops : Unpoured(NewObjects(ops[i]))
    BY DEF NothingPoured
  <2>5. ProposalsAreExecuted'
    BY <2>2 DEF OffersInv, ProposalsAreExecuted
  <2> QED BY <2>2, <2>3, <2>4, <2>5 DEF OffersInv
<1>2. CASE Advance
  <2>1. /\ proposal = NoProposal /\ proposal' = proposal /\ board' = board /\ outcome' = outcome
        /\ pour' = pour /\ stage' \in {"hand", "pour", "end"}
    BY <1>2 DEF Advance, adapterVars
  <2> QED BY <2>1, OffersKept DEF OffersInv
<1> QED BY <1>1, <1>2

-----------------------------------------------------------------------------
(* What is joined is the least closed part. *)

\* A part of all that has everything of all that meets it.
IsClosedIn(how, part, all) == \A f \in part, e \in all : Meets(how, f, e) => e \in part

\* Adding what meets a part as often as there are pieces is enough, and adds nothing too much.
LEMMA GrowthIsClosed ==
  ASSUME NEW how, NEW all, IsFiniteSet(all), NEW seed \in SUBSET all, NEW grown,
         NEW N \in Nat, N = Cardinality(all), grown[0] = seed,
         \A k \in 0 .. N - 1 : grown[k + 1] = WithMet(how, grown[k], all)
  PROVE  /\ seed \subseteq grown[N] /\ grown[N] \subseteq all /\ IsClosedIn(how, grown[N], all)
         /\ \A C : seed \subseteq C /\ IsClosedIn(how, C, all) => grown[N] \subseteq C
<1> DEFINE G == {k \in Nat : /\ seed \subseteq grown[k] /\ grown[k] \subseteq all}
           H == {k \in Nat : Cardinality(grown[k]) >= k \/ IsClosedIn(how, grown[k], all)}
<1>1. \A k \in 0 .. N - 1 : k \in Nat /\ k + 1 \in Nat /\ k \in 0 .. N /\ k + 1 \in 0 .. N
  OBVIOUS
<1>2. 0 .. N \subseteq G
  <2>1. 0 \in G
    OBVIOUS
  <2>2. ASSUME NEW k \in 0 .. N - 1, k \in G PROVE k + 1 \in G
    BY <1>1, <2>2 DEF WithMet
  <2> HIDE DEF G
  <2> QED BY <2>1, <2>2, FromOn
<1>3. \A k \in 0 .. N : seed \subseteq grown[k] /\ grown[k] \subseteq all
  BY <1>2
<1> HIDE DEF G
<1>4. \A k \in 0 .. N : IsFiniteSet(grown[k]) /\ Cardinality(grown[k]) \in Nat /\ Cardinality(grown[k]) <= N
  BY <1>3, FS_Subset, FS_CardinalityType
<1>5. 0 \in H
  BY <1>4
<1>6. ASSUME NEW k \in 0 .. N - 1, k \in H PROVE k + 1 \in H
  <2> DEFINE S == grown[k + 1]
             T == grown[k]
  <2>1. /\ S = WithMet(how, T, all) /\ IsFiniteSet(S) /\ IsFiniteSet(T)
        /\ Cardinality(S) \in Nat /\ Cardinality(T) \in Nat
    BY <1>1, <1>4
  <2> HIDE DEF S, T
  <2>2. CASE IsClosedIn(how, T, all)
    <3>1. S = T
      BY <2>1, <2>2 DEF WithMet, IsClosedIn
    <3> QED BY <1>1, <2>2, <3>1 DEF S, T
  <2>3. CASE ~IsClosedIn(how, T, all)
    <3>1. Cardinality(T) >= k
      BY <1>6, <2>3 DEF T
    <3>2. T \in SUBSET S /\ T # S
      BY <2>1, <2>3 DEF WithMet, IsClosedIn
    <3>3. Cardinality(T) <= Cardinality(S) /\ Cardinality(S) # Cardinality(T)
      BY <2>1, <3>2, FS_Subset
    <3>4. Cardinality(S) >= k + 1
      BY <1>1, <2>1, <3>1, <3>3
    <3> QED BY <1>1, <3>4 DEF S
  <2> QED BY <2>2, <2>3
<1>7. N \in H
  <2> HIDE DEF H
  <2>1. 0 .. N \subseteq H
    BY <1>5, <1>6, FromOn
  <2> QED BY <2>1
<1>8. IsClosedIn(how, grown[N], all)
  <2> DEFINE S == grown[N]
  <2>1. S \in SUBSET all /\ Cardinality(S) \in Nat /\ Cardinality(S) <= N
    BY <1>3, <1>4
  <2>2. Cardinality(S) >= N \/ IsClosedIn(how, S, all)
    BY <1>7
  <2> HIDE DEF S
  <2>3. Cardinality(S) >= N => S = all
    BY <2>1, FS_Subset
  <2>4. IsClosedIn(how, all, all)
    BY DEF IsClosedIn
  <2>5. IsClosedIn(how, S, all)
    BY <2>2, <2>3, <2>4
  <2> QED BY <2>5 DEF S
<1>9. ASSUME NEW C, seed \subseteq C, IsClosedIn(how, C, all) PROVE grown[N] \subseteq C
  <2> DEFINE L == {k \in Nat : grown[k] \subseteq C}
  <2>1. 0 \in L
    BY <1>9
  <2>2. ASSUME NEW k \in 0 .. N - 1, k \in L PROVE k + 1 \in L
    BY <1>1, <1>9, <2>2 DEF WithMet, IsClosedIn
  <2> HIDE DEF L
  <2>3. 0 .. N \subseteq L
    BY <2>1, <2>2, FromOn
  <2>4. N \in L
    BY <2>3
  <2> QED BY <2>4 DEF L
<1>10. seed \subseteq grown[N] /\ grown[N] \subseteq all
  BY <1>3
<1> QED BY <1>8, <1>9, <1>10

\* So it is with copper in contact.
LEMMA ContactIsClosed ==
  ASSUME NEW all, IsFiniteSet(all), NEW seed \in SUBSET all
  PROVE  LET J == Joined(seed, all, ConductiveContact) IN
         /\ seed \subseteq J /\ J \subseteq all /\ IsClosedIn("contact", J, all)
         /\ \A C : seed \subseteq C /\ IsClosedIn("contact", C, all) => J \subseteq C
<1> DEFINE N == Cardinality(all)
<1>1. N \in Nat
  BY FS_CardinalityType
<1>2. PICK grown : /\ Joined(seed, all, ConductiveContact) = grown[N]
                   /\ grown[0] = seed
                   /\ \A k \in 0 .. N - 1 : grown[k + 1] = WithTouched(grown[k], all)
  BY <1>1, JoinedGrows
<1>3. \A s : WithMet("contact", s, all) = WithTouched(s, all)
  BY DEF WithMet, WithTouched, Meets
<1>4. \A k \in 0 .. N - 1 : grown[k + 1] = WithMet("contact", grown[k], all)
  BY <1>2, <1>3
<1> HIDE DEF N
<1>5. N = Cardinality(all) /\ grown[0] = seed
  BY <1>2 DEF N
<1>6. /\ seed \subseteq grown[N] /\ grown[N] \subseteq all /\ IsClosedIn("contact", grown[N], all)
      /\ \A C : seed \subseteq C /\ IsClosedIn("contact", C, all) => grown[N] \subseteq C
  BY <1>1, <1>4, <1>5, GrowthIsClosed
<1> QED BY <1>2, <1>6

\* And with tiles edge to edge.
LEMMA ConnectedIsClosed ==
  ASSUME NEW all, IsFiniteSet(all), NEW seed \in SUBSET all
  PROVE  LET J == Joined(seed, all, RectsConnected) IN
         /\ seed \subseteq J /\ J \subseteq all /\ IsClosedIn("edge", J, all)
         /\ \A C : seed \subseteq C /\ IsClosedIn("edge", C, all) => J \subseteq C
<1> DEFINE N == Cardinality(all)
           IsThis(grown) == grown = [n \in 0 .. N |-> IF n = 0 THEN seed ELSE WithConnected(grown[n - 1], all)]
           grown == CHOOSE grown : IsThis(grown)
<1>1. N \in Nat
  BY FS_CardinalityType
<1>2. Joined(seed, all, RectsConnected) = grown[N]
  BY DEF Joined, WithConnected
<1> HIDE DEF N
<1>3. \A s : WithMet("edge", s, all) = WithConnected(s, all)
  BY DEF WithMet, WithConnected, Meets
<1>4. IsThis(grown)
  <2>1. PICK g : IsGrowing("edge", seed, all, g, N)
    BY <1>1, GrowingExists
  <2>2. IsThis(g)
    BY <1>3, <2>1 DEF IsGrowing
  <2> HIDE DEF IsThis
  <2> QED BY <2>2
<1> HIDE DEF grown
<1>5. \A k \in 0 .. N : grown[k] = IF k = 0 THEN seed ELSE WithConnected(grown[k - 1], all)
  BY <1>4
<1>6. grown[0] = seed
  BY <1>1, <1>5
<1>7. ASSUME NEW k \in 0 .. N - 1 PROVE grown[k + 1] = WithMet("edge", grown[k], all)
  <2>1. k + 1 \in 0 .. N /\ k + 1 # 0 /\ (k + 1) - 1 = k
    BY <1>1
  <2> QED BY <1>3, <1>5, <2>1
<1>8. N = Cardinality(all)
  BY DEF N
<1> QED BY <1>1, <1>2, <1>6, <1>7, <1>8, GrowthIsClosed

-----------------------------------------------------------------------------
(* Distances. *)

\* Of two natural numbers the one with the smaller square is the smaller.
LEMMA SquaresCompare ==
  ASSUME NEW m \in Nat, NEW n \in Nat
  PROVE  /\ m * m \in Nat
         /\ m <= n => m * m <= n * n
         /\ m > n => m * m > n * n
<1>1. m * m \in Nat /\ n * n \in Nat /\ m * n \in Nat
  OBVIOUS
<1>2. ASSUME m <= n PROVE m * m <= n * n
  <2>1. m * m <= m * n /\ m * n <= n * n
    BY <1>2
  <2> QED BY <1>1, <2>1
<1>3. ASSUME m > n PROVE m * m > n * n
  <2>1. m * n >= n * n /\ m * m >= m * (n + 1)
    BY <1>3
  <2>2. m * (n + 1) = m * n + m /\ m > 0
    BY <1>3
  <2> QED BY <1>1, <2>1, <2>2
<1> QED BY <1>1, <1>2, <1>3

\* A point that is near a rectangle is near it in both directions.
LEMMA PointRectIs ==
  ASSUME NEW p \in Points, NEW r \in Rects, NEW d \in Nat, PointRectWithin(p, r, d)
  PROVE  /\ r.x <= p.x + d /\ p.x <= r.x + r.w + d
         /\ r.y <= p.y + d /\ p.y <= r.y + r.h + d
<1> DEFINE dx == Most(Most(r.x - p.x, 0), p.x - (r.x + r.w))
           dy == Most(Most(r.y - p.y, 0), p.y - (r.y + r.h))
<1>1. /\ r.x \in Int /\ r.y \in Int /\ r.w \in Int /\ r.h \in Int /\ p.x \in Int /\ p.y \in Int
  BY DEF Rects, Points
<1>2. dx \in Nat /\ dy \in Nat
  BY <1>1 DEF Most
<1>3. dx * dx + dy * dy <= d * d
  BY DEF PointRectWithin
<1>4. dx >= r.x - p.x /\ dx >= p.x - (r.x + r.w) /\ dy >= r.y - p.y /\ dy >= p.y - (r.y + r.h)
  BY <1>1 DEF Most
<1> HIDE DEF dx, dy
<1>5. dx * dx \in Nat /\ dy * dy \in Nat /\ d * d \in Nat
  BY <1>2, SquaresCompare
<1>6. dx * dx <= d * d /\ dy * dy <= d * d
  BY <1>3, <1>5
<1>7. dx <= d /\ dy <= d
  BY <1>2, <1>5, <1>6, SquaresCompare
<1> QED BY <1>1, <1>2, <1>4, <1>7

\* What is within a distance is within a greater one.
LEMMA NearerIsNear ==
  ASSUME NEW d \in Nat, NEW e \in Nat, d <= e
  PROVE  /\ \A p \in Points, r \in Rects : PointRectWithin(p, r, d) => PointRectWithin(p, r, e)
         /\ \A p, q \in Points : PointDistanceWithin(p, q, d) => PointDistanceWithin(p, q, e)
         /\ \A p, a, c \in Points : PointSegmentWithin(p, a, c, d) => PointSegmentWithin(p, a, c, e)
<1>1. d * d \in Nat /\ e * e \in Nat /\ d * d <= e * e
  BY SquaresCompare
<1>2. ASSUME NEW p \in Points, NEW r \in Rects, PointRectWithin(p, r, d) PROVE PointRectWithin(p, r, e)
  <2> DEFINE dx == Most(Most(r.x - p.x, 0), p.x - (r.x + r.w))
             dy == Most(Most(r.y - p.y, 0), p.y - (r.y + r.h))
  <2>1. dx \in Nat /\ dy \in Nat
    BY DEF Rects, Points, Most
  <2>2. dx * dx + dy * dy <= d * d
    BY <1>2 DEF PointRectWithin
  <2>3. PointRectWithin(p, r, e) <=> dx * dx + dy * dy <= e * e
    BY DEF PointRectWithin
  <2> HIDE DEF dx, dy
  <2>4. dx * dx \in Nat /\ dy * dy \in Nat
    BY <2>1, SquaresCompare
  <2> QED BY <1>1, <2>2, <2>3, <2>4
<1>3. ASSUME NEW p \in Points, NEW q \in Points, PointDistanceWithin(p, q, d)
      PROVE  PointDistanceWithin(p, q, e)
  <2> DEFINE s == (p.x - q.x) * (p.x - q.x) + (p.y - q.y) * (p.y - q.y)
  <2>1. s \in Int
    BY DEF Points
  <2>2. s <= d * d /\ (PointDistanceWithin(p, q, e) <=> s <= e * e)
    BY <1>3 DEF PointDistanceWithin
  <2> HIDE DEF s
  <2> QED BY <1>1, <2>1, <2>2
<1>4. ASSUME NEW p \in Points, NEW a \in Points, NEW c \in Points, PointSegmentWithin(p, a, c, d)
      PROVE  PointSegmentWithin(p, a, c, e)
  <2> DEFINE dx == c.x - a.x
             dy == c.y - a.y
             length2 == dx * dx + dy * dy
             along  == (p.x - a.x) * dx + (p.y - a.y) * dy
             across == (p.x - a.x) * dy - (p.y - a.y) * dx
             Box(m) == /\ Least(a.x, c.x) - m <= p.x /\ p.x <= Most(a.x, c.x) + m
                       /\ Least(a.y, c.y) - m <= p.y /\ p.y <= Most(a.y, c.y) + m
             Near(m) == \/ along <= 0 /\ PointDistanceWithin(p, a, m)
                        \/ along > 0 /\ along >= length2 /\ PointDistanceWithin(p, c, m)
                        \/ 0 < along /\ along < length2 /\ across * across <= m * m * length2
  <2>1. /\ a.x \in Int /\ a.y \in Int /\ c.x \in Int /\ c.y \in Int /\ p.x \in Int /\ p.y \in Int
    BY DEF Points
  <2>2. dx \in Int /\ dy \in Int
    BY <2>1
  <2>3. length2 \in Int /\ along \in Int /\ across \in Int
    <3> HIDE DEF dx, dy
    <3> QED BY <2>1, <2>2
  <2>4. \A m : PointSegmentWithin(p, a, c, m) <=> Box(m) /\ Near(m)
    BY DEF PointSegmentWithin
  <2>5. Box(d) => Box(e)
    BY <2>1 DEF Least, Most
  <2>6. Near(d) => Near(e)
    <3>1. /\ PointDistanceWithin(p, a, d) => PointDistanceWithin(p, a, e)
          /\ PointDistanceWithin(p, c, d) => PointDistanceWithin(p, c, e)
      BY <1>3
    <3> HIDE DEF along, across, length2
    <3>2. ASSUME 0 < along, along < length2, across * across <= d * d * length2
          PROVE  across * across <= e * e * length2
      <4> DEFINE D == d * d
                 E == e * e
                 A == across * across
      <4>1. D \in Nat /\ E \in Nat /\ D <= E /\ length2 \in Nat /\ A \in Int
        BY <1>1, <2>3, <3>2
      <4>2. A <= D * length2
        BY <3>2
      <4> HIDE DEF D, E, A
      <4>3. D * length2 \in Int /\ E * length2 \in Int /\ D * length2 <= E * length2
        BY <4>1
      <4>4. A <= E * length2
        BY <4>1, <4>2, <4>3
      <4> QED BY <4>4 DEF A, E
    <3> QED BY <3>1, <3>2
  <2> HIDE DEF Box, Near
  <2> QED BY <1>4, <2>4, <2>5, <2>6
<1> QED BY <1>2, <1>3, <1>4

\* A tile that shares no cell with a grown rectangle is farther from it than it was grown by.
LEMMA TileKeepsOff ==
  ASSUME NEW all \in Rects, NEW t \in Rects, t.w > 0, t.h > 0, InOutline(t, all),
         NEW r \in Rects, r.w >= 0, r.h >= 0, NEW d \in Nat,
         \A e \in ExpandedClipped(r, d + 1, all) : Cells(t) \cap Cells(e) = {}
  PROVE  ~RectsWithin(t, r, d)
<1> SUFFICES ASSUME RectsWithin(t, r, d) PROVE FALSE
  OBVIOUS
<1> DEFINE left == Most(all.x, r.x - (d + 1))
           bottom == Most(all.y, r.y - (d + 1))
           right == Least(all.x + all.w, r.x + r.w + (d + 1))
           top == Least(all.y + all.h, r.y + r.h + (d + 1))
           e == Rect(left, bottom, right - left, top - bottom)
           x == Most(t.x, left)
           y == Most(t.y, bottom)
<1>1. /\ r.x \in Int /\ r.y \in Int /\ r.w \in Int /\ r.h \in Int
      /\ t.x \in Int /\ t.y \in Int /\ t.w \in Int /\ t.h \in Int
      /\ all.x \in Int /\ all.y \in Int /\ all.w \in Int /\ all.h \in Int
  BY DEF Rects
<1>2. /\ t.x >= all.x /\ t.x + t.w <= all.x + all.w /\ t.y >= all.y /\ t.y + t.h <= all.y + all.h
      /\ t.x + t.w + d >= r.x /\ r.x + r.w + d >= t.x /\ t.y + t.h + d >= r.y /\ r.y + r.h + d >= t.y
  BY DEF InOutline, RectsWithin
<1>3. /\ left \in Int /\ bottom \in Int /\ right \in Int /\ top \in Int
      /\ left < right /\ left < t.x + t.w /\ t.x < right
      /\ bottom < top /\ bottom < t.y + t.h /\ t.y < top
  BY <1>1, <1>2 DEF Most, Least
<1>4. ExpandedClipped(r, d + 1, all) = IF left >= right \/ bottom >= top THEN {} ELSE {e}
  BY DEF ExpandedClipped
<1> HIDE DEF left, bottom, right, top
<1>5. /\ x \in Int /\ y \in Int /\ t.x <= x /\ x < t.x + t.w /\ t.y <= y /\ y < t.y + t.h
      /\ left <= x /\ x < right /\ bottom <= y /\ y < top
  BY <1>1, <1>3 DEF Most
<1> HIDE DEF x, y
<1>6. e.x = left /\ e.y = bottom /\ e.w = right - left /\ e.h = top - bottom /\ e \in Rects
  BY <1>3 DEF Rect, Rects
<1>7. e \in ExpandedClipped(r, d + 1, all)
  BY <1>3, <1>4
<1> HIDE DEF e
<1>8. <<x, y>> \in Cells(t)
  BY <1>5, CellsAre
<1>9. <<x, y>> \in Cells(e)
  <2>1. e.x <= x /\ x < e.x + e.w /\ e.y <= y /\ y < e.y + e.h
    BY <1>3, <1>5, <1>6
  <2> QED BY <1>5, <1>6, <2>1, CellsAre
<1> QED BY <1>7, <1>8, <1>9

\* What is farther from the bounds of a segment or a point is farther from them.
LEMMA BoundsAreNear ==
  ASSUME NEW t \in Rects, NEW d \in Nat, NEW w \in Nat
  PROVE  /\ \A a, c \in Points : SegmentRectWithin(a, c, t, d + w) => RectsWithin(t, SegmentBounds(a, c, w), d)
         /\ \A p \in Points : PointRectWithin(p, t, d + w) => RectsWithin(t, PointBounds(p, w), d)
<1>1. t.x \in Int /\ t.y \in Int /\ t.w \in Int /\ t.h \in Int
  BY DEF Rects
<1>2. ASSUME NEW a \in Points, NEW c \in Points, SegmentRectWithin(a, c, t, d + w)
      PROVE  RectsWithin(t, SegmentBounds(a, c, w), d)
  <2> DEFINE s == SegmentBounds(a, c, w)
             lx == Least(a.x, c.x)
             mx == Most(a.x, c.x)
             ly == Least(a.y, c.y)
             my == Most(a.y, c.y)
  <2>1. lx \in Int /\ mx \in Int /\ ly \in Int /\ my \in Int
    BY DEF Points, Least, Most
  <2>2. /\ Most(t.x - (d + w), lx) <= Least(t.x + t.w + (d + w), mx)
        /\ Most(t.y - (d + w), ly) <= Least(t.y + t.h + (d + w), my)
    BY <1>2 DEF SegmentRectWithin
  <2>3. /\ s.x = lx - w /\ s.w = mx - (lx - w) + w
        /\ s.y = ly - w /\ s.h = my - (ly - w) + w
    BY DEF SegmentBounds, Rect
  <2> HIDE DEF s, lx, mx, ly, my
  <2>4. /\ t.x - (d + w) <= mx /\ lx <= t.x + t.w + (d + w)
        /\ t.y - (d + w) <= my /\ ly <= t.y + t.h + (d + w)
    BY <1>1, <2>1, <2>2 DEF Most, Least
  <2>5. RectsWithin(t, s, d)
    BY <1>1, <2>1, <2>3, <2>4 DEF RectsWithin
  <2> QED BY <2>5 DEF s
<1>3. ASSUME NEW p \in Points, PointRectWithin(p, t, d + w) PROVE RectsWithin(t, PointBounds(p, w), d)
  <2> DEFINE s == PointBounds(p, w)
  <2>1. /\ t.x <= p.x + (d + w) /\ p.x <= t.x + t.w + (d + w)
        /\ t.y <= p.y + (d + w) /\ p.y <= t.y + t.h + (d + w)
    BY <1>3, PointRectIs
  <2>2. s.x = p.x - w /\ s.y = p.y - w /\ s.w = Most(1, 2 * w) /\ s.h = Most(1, 2 * w)
    BY DEF PointBounds, Rect
  <2>3. Most(1, 2 * w) \in Int /\ Most(1, 2 * w) >= 2 * w /\ p.x \in Int /\ p.y \in Int
    BY DEF Most, Points
  <2> HIDE DEF s
  <2>4. RectsWithin(t, s, d)
    BY <1>1, <2>1, <2>2, <2>3 DEF RectsWithin
  <2> QED BY <2>4 DEF s
<1> QED BY <1>2, <1>3

\* Rectangles within a distance are within a greater one, whichever comes first.
LEMMA RectsNear ==
  ASSUME NEW r \in Rects, NEW s \in Rects, NEW d \in Nat, NEW e \in Nat, d <= e, RectsWithin(r, s, d)
  PROVE  RectsWithin(r, s, e) /\ RectsWithin(s, r, e)
BY DEF RectsWithin, Rects

\* A circle in a tile is as much farther from a rectangle as its radius says.
LEMMA CircleKeepsOff ==
  ASSUME NEW y \in Rects, NEW r \in Rects, NEW p \in Points, NEW d \in Nat, NEW radius \in Nat,
         RectContainsCircle(y, p, radius), PointRectWithin(p, r, d + radius)
  PROVE  RectsWithin(y, r, d)
<1>1. /\ r.x <= p.x + (d + radius) /\ p.x <= r.x + r.w + (d + radius)
      /\ r.y <= p.y + (d + radius) /\ p.y <= r.y + r.h + (d + radius)
  BY PointRectIs
<1>2. /\ p.x - radius >= y.x /\ p.x + radius <= y.x + y.w
      /\ p.y - radius >= y.y /\ p.y + radius <= y.y + y.h
  BY DEF RectContainsCircle
<1>3. /\ r.x \in Int /\ r.y \in Int /\ r.w \in Int /\ r.h \in Int /\ p.x \in Int /\ p.y \in Int
      /\ y.x \in Int /\ y.y \in Int /\ y.w \in Int /\ y.h \in Int
  BY DEF Rects, Points
<1> QED BY <1>1, <1>2, <1>3 DEF RectsWithin

-----------------------------------------------------------------------------
(* Tiles keep the distances of the checker. *)

\* Things of a layer, and those of another net than ground.
OnLayer(s, l) == {o \in s : l \in o.layers}
OthersOn(s, l) == {o \in OnLayer(s, l) : o.net # GND}
BarsCopper(k) == "copper_zone" \in k.prohibited \/ k.kind \in SensitiveKinds

\* What a tile keeps off by more than d.
IsOff(t, r, d) == ~RectsWithin(t, r, d)

\* A tile on the board that has no cell of what is excluded.
IsClear(b, l, t) ==
  /\ t \in Rects /\ t.w > 0 /\ t.h > 0
  /\ \E all \in BoardRect(b) : InOutline(t, all)
  /\ \A r \in ExcludedRegions(b, l) : Cells(t) \cap Cells(r) = {}

\* The excluded regions are what other copper and keepouts need, grown and clipped.
LEMMA RegionsInclude ==
  ASSUME NEW b, NEW l, NEW all \in BoardRect(b)
  PROVE  LET ground == GroundClearance(b)
             need(o) == ground + NetClearance(b, o.net) + 1
             regions == ExcludedRegions(b, l)
         IN
         /\ \A k \in OnLayer(b.keepouts, l) :
              BarsCopper(k) => ExpandedClipped(k.bounds, ground + 1, all) \subseteq regions
         /\ \A p \in OthersOn(b.pads, l) : ExpandedClipped(PadBounds(p), need(p), all) \subseteq regions
         /\ \A r \in OthersOn(b.routes, l) :
              ExpandedClipped(SegmentBounds(r.start, r.end, r.width \div 2), need(r), all) \subseteq regions
         /\ \A v \in OthersOn(b.vias, l) :
              ExpandedClipped(PointBounds(v.pos, v.diameter \div 2), need(v), all) \subseteq regions
         /\ \A z \in OthersOn(b.zones, l) :
              ExpandedClipped(z.bounds, ground + z.clearance + 1, all) \subseteq regions
<1> DEFINE ground == GroundClearance(b)
           clip(r, d) == UNION {ExpandedClipped(r, d, a) : a \in BoardRect(b)}
           need(o) == ground + NetClearance(b, o.net) + 1
           K == {clip(k.bounds, ground + 1) : k \in {k \in {o \in b.keepouts : l \in o.layers} :
                  "copper_zone" \in k.prohibited \/ k.kind \in SensitiveKinds}}
           P == {clip(PadBounds(p), need(p)) :
                  p \in {o \in {o \in b.pads : l \in o.layers} : o.net # GND}}
           R == {clip(SegmentBounds(r.start, r.end, r.width \div 2), need(r)) :
                  r \in {o \in {o \in b.routes : l \in o.layers} : o.net # GND}}
           V == {clip(PointBounds(v.pos, v.diameter \div 2), need(v)) :
                  v \in {o \in {o \in b.vias : l \in o.layers} : o.net # GND}}
           Z == {clip(z.bounds, ground + z.clearance + 1) :
                  z \in {o \in {o \in b.zones : l \in o.layers} : o.net # GND}}
           G == {clip(z.bounds, 0) :
                  z \in {z \in {o \in b.zones : l \in o.layers} : z.net = GND}}
<1>1. ExcludedRegions(b, l) = UNION (K \cup P \cup R \cup V \cup Z \cup G)
  BY DEF ExcludedRegions
<1>2. \A r, d : ExpandedClipped(r, d, all) \subseteq clip(r, d)
  OBVIOUS
<1> HIDE DEF clip
<1>3. \A k \in OnLayer(b.keepouts, l) : BarsCopper(k) => clip(k.bounds, ground + 1) \in K
  BY DEF OnLayer, BarsCopper
<1>4. \A p \in OthersOn(b.pads, l) : clip(PadBounds(p), need(p)) \in P
  BY DEF OthersOn, OnLayer
<1>5. \A r \in OthersOn(b.routes, l) : clip(SegmentBounds(r.start, r.end, r.width \div 2), need(r)) \in R
  BY DEF OthersOn, OnLayer
<1>6. \A v \in OthersOn(b.vias, l) : clip(PointBounds(v.pos, v.diameter \div 2), need(v)) \in V
  BY DEF OthersOn, OnLayer
<1>7. \A z \in OthersOn(b.zones, l) : clip(z.bounds, ground + z.clearance + 1) \in Z
  BY DEF OthersOn, OnLayer
<1> HIDE DEF K, P, R, V, Z, G, need, ground
<1>8. \A S \in K \cup P \cup R \cup V \cup Z : S \subseteq ExcludedRegions(b, l)
  BY <1>1
<1>9. /\ \A k \in OnLayer(b.keepouts, l) :
           BarsCopper(k) => ExpandedClipped(k.bounds, ground + 1, all) \subseteq ExcludedRegions(b, l)
      /\ \A p \in OthersOn(b.pads, l) :
           ExpandedClipped(PadBounds(p), need(p), all) \subseteq ExcludedRegions(b, l)
      /\ \A r \in OthersOn(b.routes, l) :
           ExpandedClipped(SegmentBounds(r.start, r.end, r.width \div 2), need(r), all)
             \subseteq ExcludedRegions(b, l)
      /\ \A v \in OthersOn(b.vias, l) :
           ExpandedClipped(PointBounds(v.pos, v.diameter \div 2), need(v), all) \subseteq ExcludedRegions(b, l)
      /\ \A z \in OthersOn(b.zones, l) :
           ExpandedClipped(z.bounds, ground + z.clearance + 1, all) \subseteq ExcludedRegions(b, l)
  BY <1>2, <1>3, <1>4, <1>5, <1>6, <1>7, <1>8
<1> QED BY <1>9 DEF need, ground

\* A clear tile keeps off everything by what the checker asks.
LEMMA ClearKeepsOff ==
  ASSUME NEW b, IsBoard(b), Loadable(b), GND \in DOMAIN b.class, NEW l, NEW t, IsClear(b, l, t)
  PROVE  LET ground == GroundClearance(b)
             need(o) == ground + NetClearance(b, o.net)
         IN
         /\ \A k \in OnLayer(b.keepouts, l) : BarsCopper(k) => IsOff(t, k.bounds, ground)
         /\ \A p \in OthersOn(b.pads, l) : IsOff(t, PadBounds(p), need(p))
         /\ \A r \in OthersOn(b.routes, l) :
              IsOff(t, SegmentBounds(r.start, r.end, r.width \div 2), need(r))
         /\ \A v \in OthersOn(b.vias, l) : IsOff(t, PointBounds(v.pos, v.diameter \div 2), need(v))
         /\ \A z \in OthersOn(b.zones, l) : IsOff(t, z.bounds, ground + z.clearance)
<1> DEFINE ground == GroundClearance(b)
           need(o) == ground + NetClearance(b, o.net)
<1>1. PICK all \in BoardRect(b) : InOutline(t, all)
  BY DEF IsClear
<1>2. all \in Rects /\ t \in Rects /\ t.w > 0 /\ t.h > 0
  BY BoardRectIsRect DEF IsClear
<1>3. ASSUME NEW r \in Rects, r.w >= 0, r.h >= 0, NEW d \in Nat,
             ExpandedClipped(r, d + 1, all) \subseteq ExcludedRegions(b, l)
      PROVE  IsOff(t, r, d)
  <2>1. \A e \in ExpandedClipped(r, d + 1, all) : Cells(t) \cap Cells(e) = {}
    BY <1>3 DEF IsClear
  <2> QED BY <1>1, <1>2, <1>3, <2>1, TileKeepsOff DEF IsOff
<1>4. /\ ground \in Nat
      /\ \A o \in b.pads \cup b.routes \cup b.vias \cup b.zones : need(o) \in Nat
  BY ClearancesAreNumbers DEF Loadable
<1>5. \A k \in OnLayer(b.keepouts, l) :
        BarsCopper(k) => ExpandedClipped(k.bounds, ground + 1, all) \subseteq ExcludedRegions(b, l)
  BY RegionsInclude
<1>6. \A p \in OthersOn(b.pads, l) :
        ExpandedClipped(PadBounds(p), need(p) + 1, all) \subseteq ExcludedRegions(b, l)
  BY RegionsInclude
<1>7. \A r \in OthersOn(b.routes, l) :
        ExpandedClipped(SegmentBounds(r.start, r.end, r.width \div 2), need(r) + 1, all)
          \subseteq ExcludedRegions(b, l)
  BY RegionsInclude
<1>8. \A v \in OthersOn(b.vias, l) :
        ExpandedClipped(PointBounds(v.pos, v.diameter \div 2), need(v) + 1, all)
          \subseteq ExcludedRegions(b, l)
  BY RegionsInclude
<1>9. \A z \in OthersOn(b.zones, l) :
        ExpandedClipped(z.bounds, (ground + z.clearance) + 1, all) \subseteq ExcludedRegions(b, l)
  BY RegionsInclude
<1> HIDE DEF ground, need
<1>10. \A k \in OnLayer(b.keepouts, l) : BarsCopper(k) => IsOff(t, k.bounds, ground)
  <2>1. \A k \in b.keepouts : k.bounds \in Rects /\ k.bounds.w >= 0 /\ k.bounds.h >= 0
    BY DEF IsBoard, IsKeepout, Rects
  <2> QED BY <1>3, <1>4, <1>5, <2>1 DEF OnLayer
<1>11. \A p \in OthersOn(b.pads, l) : IsOff(t, PadBounds(p), need(p))
  <2>1. \A p \in b.pads : PadBounds(p) \in Rects /\ PadBounds(p).w >= 0 /\ PadBounds(p).h >= 0
    <3>1. \A p \in b.pads : PadBounds(p) \in Rects
      BY BoundsAreRects DEF IsBoard
    <3>2. \A p : PadBounds(p).w = p.sx /\ PadBounds(p).h = p.sy
      BY DEF PadBounds, Rect
    <3>3. \A p \in b.pads : p.sx >= 0 /\ p.sy >= 0
      BY DEF IsBoard, IsPad
    <3> QED BY <3>1, <3>2, <3>3
  <2> QED BY <1>3, <1>4, <1>6, <2>1 DEF OthersOn, OnLayer
<1>12. \A r \in OthersOn(b.routes, l) : IsOff(t, SegmentBounds(r.start, r.end, r.width \div 2), need(r))
  <2>1. \A a, c \in Points, d \in Nat : /\ SegmentBounds(a, c, d) \in Rects
                                       /\ SegmentBounds(a, c, d).w >= 0 /\ SegmentBounds(a, c, d).h >= 0
    BY BoundsAreRects DEF SegmentBounds, Rect, Points, Least, Most
  <2>2. \A r \in b.routes : r.start \in Points /\ r.end \in Points /\ r.width \div 2 \in Nat
    BY DEF IsBoard, IsRoute
  <2> QED BY <1>3, <1>4, <1>7, <2>1, <2>2 DEF OthersOn, OnLayer
<1>13. \A v \in OthersOn(b.vias, l) : IsOff(t, PointBounds(v.pos, v.diameter \div 2), need(v))
  <2>1. \A a \in Points, d \in Nat : /\ PointBounds(a, d) \in Rects
                                    /\ PointBounds(a, d).w >= 0 /\ PointBounds(a, d).h >= 0
    <3>1. \A a \in Points, d \in Nat : PointBounds(a, d) \in Rects
      BY BoundsAreRects
    <3>2. \A a, d : PointBounds(a, d).w = Most(1, 2 * d) /\ PointBounds(a, d).h = Most(1, 2 * d)
      BY DEF PointBounds, Rect
    <3>3. \A d \in Nat : Most(1, 2 * d) >= 0
      BY DEF Most
    <3> QED BY <3>1, <3>2, <3>3
  <2>2. \A v \in b.vias : v.pos \in Points /\ v.diameter \div 2 \in Nat
    BY DEF IsBoard, IsVia
  <2> QED BY <1>3, <1>4, <1>8, <2>1, <2>2 DEF OthersOn, OnLayer
<1>14. \A z \in OthersOn(b.zones, l) : IsOff(t, z.bounds, ground + z.clearance)
  <2>1. \A z \in b.zones : /\ z.bounds \in Rects /\ z.bounds.w >= 0 /\ z.bounds.h >= 0
                           /\ ground + z.clearance \in Nat
    BY <1>4 DEF IsBoard, IsZone, Rects
  <2> QED BY <1>3, <1>9, <2>1 DEF OthersOn, OnLayer
<1> QED BY <1>10, <1>11, <1>12, <1>13, <1>14 DEF ground, need

\* The board as the planner has it checked.
Planned(b, zones, vias) == [b EXCEPT !.zones = @ \cup zones, !.vias = @ \cup vias]

\* It differs from the board in zones and vias only.
LEMMA PlannedHas ==
  ASSUME NEW b, IsBoard(b), NEW zones, NEW vias
  PROVE  LET after == Planned(b, zones, vias) IN
         /\ after.outline = b.outline /\ after.layers = b.layers /\ after.class = b.class
         /\ after.keepouts = b.keepouts /\ after.footprints = b.footprints /\ after.pads = b.pads
         /\ after.routes = b.routes /\ after.vias = b.vias \cup vias /\ after.zones = b.zones \cup zones
         /\ \A n : NetClearance(after, n) = NetClearance(b, n)
<1> DEFINE after == Planned(b, zones, vias)
<1>1. /\ after.outline = b.outline /\ after.layers = b.layers /\ after.class = b.class
      /\ after.keepouts = b.keepouts /\ after.footprints = b.footprints /\ after.pads = b.pads
      /\ after.routes = b.routes /\ after.vias = b.vias \cup vias /\ after.zones = b.zones \cup zones
  BY DEF IsBoard, Planned
<1> HIDE DEF after
<1>2. \A n : NetClearance(after, n) = NetClearance(b, n)
  BY <1>1 DEF NetClearance
<1> QED BY <1>1, <1>2 DEF after

\* Zones of ground, each a clear tile of its layer.
AreClear(b, zones) ==
  \A z \in zones : \E l \in z.layers : z = GroundZone(b, l, z.bounds) /\ IsClear(b, l, z.bounds)

\* Such a zone has the clearance of ground, and is clear on its layers.
LEMMA ClearZonesAre ==
  ASSUME NEW b, NEW zones, AreClear(b, zones), NEW z \in zones
  PROVE  /\ z.kind = "zone" /\ z.net = GND /\ z.clearance = GroundClearance(b)
         /\ z.bounds \in Rects /\ \A l \in z.layers : IsClear(b, l, z.bounds)
<1> DEFINE t == z.bounds
<1>1. PICK l \in z.layers : z = GroundZone(b, l, t) /\ IsClear(b, l, t)
  BY DEF AreClear
<1> HIDE DEF t
<1>2. z.kind = "zone" /\ z.net = GND /\ z.clearance = GroundClearance(b) /\ z.layers = {l}
  BY <1>1 DEF GroundZone
<1>3. z.bounds = t /\ t \in Rects
  BY <1>1 DEF t, IsClear
<1> QED BY <1>1, <1>2, <1>3

\* The planner starts on boards without findings of copper only.
NoCopperFindings(b) == \A f \in Check(b) : f.rule \notin CopperRules

\* A stitching via joins the layers that cover its point, where nothing blocks it.
LEMMA StitchesAreFree ==
  ASSUME NEW b, NEW zones, IsBoard(b), BoardRect(b) # {}, NEW v \in StitchingVias(b, zones)
  PROVE  /\ IsVia(v) /\ v.net = GND /\ v.diameter = ViaDiameter
         /\ v.layers = Covered(b, zones, v.pos) /\ ~StitchingBlocked(b, v.pos)
<1> DEFINE via(p) == [kind |-> "via", id |-> <<"stitch", p>>, net |-> GND, pos |-> p,
                      diameter |-> ViaDiameter, layers |-> Covered(b, zones, p), lock |-> FALSE]
           board0 == CHOOSE r \in BoardRect(b) : TRUE
           line(lo, len) == {c \in lo + Pitch \div 2 .. lo + len - 1 : (c - lo - Pitch \div 2) % Pitch = 0}
           points == {Point(x, y) : x \in line(board0.x, board0.w), y \in line(board0.y, board0.h)}
           good == {p \in points : Cardinality(Covered(b, zones, p)) >= 2 /\ ~StitchingBlocked(b, p)}
           before(p) == {q \in good : q.y < p.y \/ (q.y = p.y /\ q.x < p.x)}
           chosen == {p \in good : Cardinality(before(p)) < MaxVias}
<1>1. StitchingVias(b, zones) = {via(p) : p \in chosen}
  BY DEF StitchingVias
<1>2. \A p \in chosen : ~StitchingBlocked(b, p)
  OBVIOUS
<1> HIDE DEF chosen, via
<1>3. PICK p : v = via(p) /\ ~StitchingBlocked(b, p)
  BY <1>1, <1>2
<1>4. v.net = GND /\ v.diameter = ViaDiameter /\ v.pos = p /\ v.layers = Covered(b, zones, p)
  BY <1>3 DEF via
<1>5. IsVia(v)
  BY StitchingAreVias
<1> QED BY <1>3, <1>4, <1>5

\* The clearance of the ground net is at most what the planner keeps vias off by.
LEMMA GroundNeeds ==
  ASSUME NEW b, IsBoard(b), GND \in DOMAIN b.class, GroundIsKept(b, b.zones)
  PROVE  /\ NetClearance(b, GND) \in Nat /\ NetClearance(b, GND) <= GroundClearance(b)
         /\ GroundClearance(b) \in Nat /\ GroundClearance(b) <= CopperEdge
         /\ ViaDiameter \div 2 \in Nat /\ CopperEdge \in Nat
<1>1. Clearance[b.class[GND]] \in Nat
  BY ClearanceAssumption DEF IsBoard
<1>2. NetClearance(b, GND) \in Nat /\ NetClearance(b, GND) <= GroundClearance(b)
  BY <1>1 DEF NetClearance, GroundClearance
<1>3. ViaDiameter \div 2 \in Nat
  BY CopperAssumption
<1> QED BY <1>1, <1>2, <1>3, EdgeAssumption DEF GroundIsKept, GroundClearance

\* A free point keeps a via off other pads, routes and vias, keepouts and edges.
LEMMA StitchKeepsOff ==
  ASSUME NEW b, IsBoard(b), Loadable(b), GND \in DOMAIN b.class, GroundIsKept(b, b.zones),
         NEW p \in Points, ~StitchingBlocked(b, p)
  PROVE  LET need(o) == ViaDiameter \div 2 + NetClearance(b, GND) + NetClearance(b, o.net) IN
         /\ RectContainsCircle(b.outline, p, CopperEdge + ViaDiameter \div 2)
         /\ \A k \in b.keepouts : "via" \in k.prohibited \/ k.kind \in SensitiveKinds =>
              ~RectContains(k.bounds, p)
         /\ \A o \in b.pads : o.net # GND => ~PointRectWithin(p, PadBounds(o), need(o))
         /\ \A o \in b.routes : o.net # GND => ~PointSegmentWithin(p, o.start, o.end, need(o) + o.width \div 2)
         /\ \A o \in b.vias : o.net # GND =>
              /\ ~PointDistanceWithin(p, o.pos, need(o) + o.diameter \div 2)
              /\ ~PointDistanceWithin(o.pos, p, need(o) + o.diameter \div 2)
<1> DEFINE radius == ViaDiameter \div 2
           need(o) == radius + NetClearance(b, GND) + NetClearance(b, o.net)
           kept(o) == radius + CopperEdge + NetClearance(b, o.net)
           barred == {k \in b.keepouts : "via" \in k.prohibited \/ k.kind \in SensitiveKinds}
<1>1. /\ \A k \in barred : ~PointRectWithin(p, k.bounds, radius + CopperEdge)
      /\ RectContainsCircle(b.outline, p, CopperEdge + radius)
      /\ \A o \in b.pads : o.net # GND => ~PointRectWithin(p, PadBounds(o), kept(o) + PadReach(o))
      /\ \A o \in b.routes : o.net # GND => ~PointSegmentWithin(p, o.start, o.end, kept(o) + o.width \div 2)
      /\ \A o \in b.vias : o.net # GND => ~PointDistanceWithin(p, o.pos, kept(o) + o.diameter \div 2)
  BY DEF StitchingBlocked
<1>2. /\ radius \in Nat /\ CopperEdge \in Nat /\ NetClearance(b, GND) \in Nat
      /\ NetClearance(b, GND) <= CopperEdge
  BY GroundNeeds
<1>3. \A o \in b.pads \cup b.routes \cup b.vias : NetClearance(b, o.net) \in Nat
  BY ClearancesAreNumbers DEF Loadable
<1> HIDE DEF radius
<1>4. \A o \in b.pads \cup b.routes \cup b.vias : need(o) \in Nat /\ kept(o) \in Nat /\ need(o) <= kept(o)
  BY <1>2, <1>3
<1> HIDE DEF need, kept
<1>5. \A k \in b.keepouts : "via" \in k.prohibited \/ k.kind \in SensitiveKinds => ~RectContains(k.bounds, p)
  <2> SUFFICES ASSUME NEW k \in barred, RectContains(k.bounds, p) PROVE FALSE
    OBVIOUS
  <2> DEFINE r == k.bounds
             dx == Most(Most(r.x - p.x, 0), p.x - (r.x + r.w))
             dy == Most(Most(r.y - p.y, 0), p.y - (r.y + r.h))
             d == radius + CopperEdge
  <2>1. k.bounds \in Rects
    BY DEF IsBoard, IsKeepout
  <2>2. dx = 0 /\ dy = 0
    BY <2>1 DEF RectContains, Most, Rects, Points
  <2>3. ~(dx * dx + dy * dy <= d * d)
    BY <1>1 DEF PointRectWithin
  <2>4. d \in Nat /\ d * d \in Nat
    BY <1>2, SquaresCompare
  <2> HIDE DEF dx, dy, d
  <2> QED BY <2>2, <2>3, <2>4
<1>6. \A o \in b.pads : o.net # GND => ~PointRectWithin(p, PadBounds(o), need(o))
  <2> SUFFICES ASSUME NEW o \in b.pads, o.net # GND, PointRectWithin(p, PadBounds(o), need(o)) PROVE FALSE
    OBVIOUS
  <2>1. PadReach(o) \in Nat /\ PadBounds(o) \in Rects
    BY BoundsAreRects DEF PadReach, IsBoard, IsPad
  <2>2. kept(o) + PadReach(o) \in Nat /\ need(o) \in Nat /\ need(o) <= kept(o) + PadReach(o)
    BY <1>4, <2>1
  <2>3. PointRectWithin(p, PadBounds(o), kept(o) + PadReach(o))
    BY <2>1, <2>2, NearerIsNear
  <2> QED BY <1>1, <2>3 DEF kept
<1>7. \A o \in b.routes : o.net # GND => ~PointSegmentWithin(p, o.start, o.end, need(o) + o.width \div 2)
  <2> SUFFICES ASSUME NEW o \in b.routes, o.net # GND,
                      PointSegmentWithin(p, o.start, o.end, need(o) + o.width \div 2)
               PROVE  FALSE
    OBVIOUS
  <2>1. o.start \in Points /\ o.end \in Points /\ o.width \div 2 \in Nat
    BY DEF IsBoard, IsRoute
  <2>2. /\ need(o) + o.width \div 2 \in Nat /\ kept(o) + o.width \div 2 \in Nat
        /\ need(o) + o.width \div 2 <= kept(o) + o.width \div 2
    BY <1>4, <2>1
  <2>3. PointSegmentWithin(p, o.start, o.end, kept(o) + o.width \div 2)
    BY <2>1, <2>2, NearerIsNear
  <2> QED BY <1>1, <2>3 DEF kept
<1>8. \A o \in b.vias : o.net # GND =>
        /\ ~PointDistanceWithin(p, o.pos, need(o) + o.diameter \div 2)
        /\ ~PointDistanceWithin(o.pos, p, need(o) + o.diameter \div 2)
  <2> SUFFICES ASSUME NEW o \in b.vias, o.net # GND,
                      \/ PointDistanceWithin(p, o.pos, need(o) + o.diameter \div 2)
                      \/ PointDistanceWithin(o.pos, p, need(o) + o.diameter \div 2)
               PROVE  FALSE
    OBVIOUS
  <2>1. o.pos \in Points /\ o.diameter \div 2 \in Nat
    BY DEF IsBoard, IsVia
  <2>2. /\ need(o) + o.diameter \div 2 \in Nat /\ kept(o) + o.diameter \div 2 \in Nat
        /\ need(o) + o.diameter \div 2 <= kept(o) + o.diameter \div 2
    BY <1>4, <2>1
  <2>3. PointDistanceWithin(p, o.pos, need(o) + o.diameter \div 2)
    <3>1. \A x, y \in Int : (x - y) * (x - y) = (y - x) * (y - x)
      OBVIOUS
    <3>2. \A d : PointDistanceWithin(o.pos, p, d) <=> PointDistanceWithin(p, o.pos, d)
      BY <2>1, <3>1 DEF PointDistanceWithin, Points
    <3> QED BY <3>2
  <2>4. PointDistanceWithin(p, o.pos, kept(o) + o.diameter \div 2)
    BY <2>1, <2>2, <2>3, NearerIsNear
  <2> QED BY <1>1, <2>4 DEF kept
<1> QED BY <1>1, <1>5, <1>6, <1>7, <1>8 DEF need, radius
\* A stitching via keeps off the zones of other nets on the layers it joins: a ground zone of each
\* covers it, and keeps off them itself.
LEMMA CoveringKeepsOff ==
  ASSUME NEW b, IsBoard(b), Loadable(b), GND \in DOMAIN b.class, GroundIsKept(b, b.zones),
         NoCopperFindings(b), NEW zones, AreClear(b, zones), NEW p \in Points,
         NEW z \in b.zones, z.net # GND, NEW l \in z.layers, l \in Covered(b, zones, p)
  PROVE  ~PointRectWithin(p, z.bounds, z.clearance + NetClearance(b, GND) + ViaDiameter \div 2)
<1> DEFINE radius == ViaDiameter \div 2
           d == z.clearance + NetClearance(b, GND)
<1> SUFFICES ASSUME PointRectWithin(p, z.bounds, d + radius) PROVE FALSE
  OBVIOUS
<1>1. PICK y \in OfNet(b.zones, GND) \cup zones :
        l \in y.layers /\ RectContainsCircle(y.bounds, p, radius)
  BY DEF Covered
<1>2. /\ radius \in Nat /\ NetClearance(b, GND) \in Nat /\ GroundClearance(b) \in Nat
      /\ NetClearance(b, GND) <= GroundClearance(b)
  BY GroundNeeds
<1>3. z.bounds \in Rects /\ z.clearance \in Nat /\ IsZone(z)
  BY DEF IsBoard, IsZone
<1>4. y.bounds \in Rects
  BY <1>1, ClearZonesAre DEF IsBoard, IsZone, OfNet
<1>5. d \in Nat
  BY <1>2, <1>3
<1> HIDE DEF radius, d
<1>6. RectsWithin(y.bounds, z.bounds, d)
  BY <1>1, <1>2, <1>3, <1>4, <1>5, CircleKeepsOff
<1>7. CASE y \in OfNet(b.zones, GND)
  <2> DEFINE e == y.clearance + z.clearance
  <2>1. y \in b.zones /\ y.net = GND /\ y.clearance \in Nat
    BY <1>7 DEF OfNet, IsBoard, IsZone
  <2>2. GroundClearance(b) <= y.clearance
    BY <1>7 DEF GroundIsKept
  <2>3. e \in Nat /\ d <= e
    BY <1>2, <1>3, <2>1, <2>2 DEF d
  <2>4. RectsWithin(y.bounds, z.bounds, e)
    BY <1>3, <1>4, <1>5, <1>6, <2>3, RectsNear
  <2>5. y.id # z.id
    BY <2>1 DEF Loadable, UniqueIds, Objects
  <2>6. <<y, z>> \in Foreign(b.zones, b.zones)
    BY <1>1, <2>1, <2>5 DEF Foreign
  <2>7. Finding("PCB.COPPER.CLEARANCE", y.id) \in ZoneFindings(b)
    BY <2>4, <2>6 DEF ZoneFindings
  <2>8. Finding("PCB.COPPER.CLEARANCE", y.id) \in Check(b)
    BY <2>7 DEF Check
  <2>9. Finding("PCB.COPPER.CLEARANCE", y.id).rule \in CopperRules
    BY DEF Finding, CopperRules
  <2> QED BY <2>8, <2>9 DEF NoCopperFindings
<1>8. CASE y \in zones
  <2> DEFINE e == GroundClearance(b) + z.clearance
  <2>1. IsClear(b, l, y.bounds)
    BY <1>1, <1>8, ClearZonesAre
  <2>2. z \in OthersOn(b.zones, l)
    BY DEF OthersOn, OnLayer
  <2>3. ~RectsWithin(y.bounds, z.bounds, e)
    BY <2>1, <2>2, ClearKeepsOff DEF IsOff
  <2>4. e \in Nat /\ d <= e
    BY <1>2, <1>3 DEF d
  <2> QED BY <1>3, <1>4, <1>5, <1>6, <2>3, <2>4, RectsNear
<1> QED BY <1>1, <1>7, <1>8

\* What the planner adds vias and zones to, and the vias and zones it adds.
CanPour(b, zones) ==
  /\ IsBoard(b) /\ Loadable(b) /\ GND \in DOMAIN b.class /\ GroundIsKept(b, b.zones)
  /\ NoCopperFindings(b) /\ AreClear(b, zones)

IsStitch(b, zones, v) == /\ IsVia(v) /\ v.net = GND /\ v.diameter = ViaDiameter
                         /\ v.layers = Covered(b, zones, v.pos) /\ ~StitchingBlocked(b, v.pos)

\* Pads, routes, vias and zones of a board have clearances, ground among them.
LEMMA NeedsAreNumbers ==
  ASSUME NEW b, NEW zones, CanPour(b, zones)
  PROVE  /\ \A o \in b.pads \cup b.routes \cup b.vias \cup b.zones : NetClearance(b, o.net) \in Nat
         /\ NetClearance(b, GND) \in Nat /\ GroundClearance(b) \in Nat
         /\ NetClearance(b, GND) <= GroundClearance(b) /\ ViaDiameter \div 2 \in Nat
  <1>1. IsBoard(b) /\ Loadable(b) /\ GND \in DOMAIN b.class /\ GroundIsKept(b, b.zones)
    BY DEF CanPour
  <1>2. ReferencesResolve(b)
    BY <1>1 DEF Loadable
  <1> QED BY <1>1, <1>2, GroundNeeds, ClearancesAreNumbers

\* The planned board gives routes and footprints no findings they have not.
LEMMA PlannedKeepsRoutes ==
  ASSUME NEW b, NEW zones, CanPour(b, zones), NEW vias, \A v \in vias : IsStitch(b, zones, v),
         NEW after, after = Planned(b, zones, vias)
  PROVE  /\ RouteKeepoutFindings(after) = RouteKeepoutFindings(b)
         /\ FootprintKeepoutFindings(after) = FootprintKeepoutFindings(b)
         /\ RouteClearanceFindings(after) \subseteq RouteClearanceFindings(b)
<1>1. /\ after.keepouts = b.keepouts /\ after.footprints = b.footprints /\ after.routes = b.routes
      /\ after.pads = b.pads /\ after.class = b.class /\ after.vias = b.vias \cup vias
      /\ \A n : NetClearance(after, n) = NetClearance(b, n)
  BY PlannedHas DEF CanPour
<1> HIDE DEF Finding
<1>2. RouteKeepoutFindings(after) = RouteKeepoutFindings(b)
  BY <1>1 DEF RouteKeepoutFindings
<1>3. FootprintKeepoutFindings(after) = FootprintKeepoutFindings(b)
  BY <1>1 DEF FootprintKeepoutFindings
<1>4. RouteClearanceFindings(after) \subseteq RouteClearanceFindings(b)
  <2> DEFINE need(c, r, o) == NetClearance(c, r.net) + NetClearance(c, o.net) + r.width \div 2
             pads(c) == {Finding("PCB_CLEARANCE_PAD", q[1].id) : q \in {q \in Foreign(c.routes, c.pads) :
                           SegmentRectWithin(q[1].start, q[1].end, PadBounds(q[2]), need(c, q[1], q[2]))}}
             routes(c) == {Finding("PCB_CLEARANCE_ROUTE", q[1].id) : q \in {q \in Foreign(c.routes, c.routes) :
                             SegmentsWithin(q[1].start, q[1].end, q[2].start, q[2].end,
                                            need(c, q[1], q[2]) + q[2].width \div 2)}}
             near(c, s) == {q \in Foreign(c.routes, s) :
                              PointSegmentWithin(q[2].pos, q[1].start, q[1].end,
                                                 need(c, q[1], q[2]) + q[2].diameter \div 2)}
             found(c) == {Finding("PCB_CLEARANCE_VIA", q[1].id) : q \in near(c, c.vias)}
  <2>1. \A c : RouteClearanceFindings(c) = pads(c) \cup routes(c) \cup found(c)
    BY DEF RouteClearanceFindings
  <2>2. pads(after) = pads(b) /\ routes(after) = routes(b)
    BY <1>1
  <2>3. near(after, after.vias) \subseteq near(b, b.vias)
    <3> SUFFICES ASSUME NEW q \in near(after, after.vias) PROVE q \in near(b, b.vias)
      OBVIOUS
    <3> DEFINE r == q[1]
               v == q[2]
    <3>1. /\ q = <<r, v>> /\ r \in b.routes /\ v \in b.vias \cup vias /\ r.net # v.net
          /\ r.id # v.id /\ r.layers \cap v.layers # {}
      BY <1>1 DEF Foreign
    <3>2. PointSegmentWithin(v.pos, r.start, r.end,
                             NetClearance(b, r.net) + NetClearance(b, v.net) + r.width \div 2 + v.diameter \div 2)
      BY <1>1
    <3> HIDE DEF r, v
    <3>3. CASE v \in b.vias
      <4>1. <<r, v>> \in Foreign(b.routes, b.vias)
        BY <3>1, <3>3 DEF Foreign
      <4> QED BY <3>1, <3>2, <4>1 DEF r, v
    <3>4. CASE v \in vias
      <4> DEFINE m == ViaDiameter \div 2
                 g == NetClearance(b, GND)
                 n == NetClearance(b, r.net)
                 w == r.width \div 2
      <4>1. v.net = GND /\ v.diameter = ViaDiameter /\ v.pos \in Points /\ ~StitchingBlocked(b, v.pos)
        BY <3>4 DEF IsStitch, IsVia
      <4>2. m \in Nat /\ g \in Nat /\ n \in Nat
        BY <3>1, NeedsAreNumbers
      <4>3. w \in Nat
        BY <3>1 DEF CanPour, IsBoard, IsRoute
      <4>4. ~PointSegmentWithin(v.pos, r.start, r.end, m + g + n + w)
        BY <3>1, <4>1, StitchKeepsOff DEF CanPour
      <4>5. PointSegmentWithin(v.pos, r.start, r.end, n + g + w + m)
        BY <3>2, <4>1
      <4> HIDE DEF m, g, n, w
      <4>6. n + g + w + m = m + g + n + w
        BY <4>2, <4>3
      <4> QED BY <4>4, <4>5, <4>6
    <3> QED BY <3>1, <3>3, <3>4
  <2> HIDE DEF pads, routes, near
  <2>4. found(after) \subseteq found(b)
    BY <2>3
  <2> HIDE DEF found
  <2> QED BY <2>1, <2>2, <2>4
<1> QED BY <1>2, <1>3, <1>4

\* Nor vias.
LEMMA PlannedKeepsVias ==
  ASSUME NEW b, NEW zones, CanPour(b, zones), NEW vias, \A v \in vias : IsStitch(b, zones, v),
         NEW after, after = Planned(b, zones, vias)
  PROVE  ViaFindings(after) \subseteq ViaFindings(b)
<1>1. /\ after.outline = b.outline /\ after.keepouts = b.keepouts
      /\ after.pads = b.pads /\ after.vias = b.vias \cup vias
      /\ \A n : NetClearance(after, n) = NetClearance(b, n)
  BY PlannedHas DEF CanPour
<1>2. ASSUME NEW v \in vias
      PROVE  /\ v.net = GND /\ v.diameter = ViaDiameter
             /\ RectContainsCircle(b.outline, v.pos, CopperEdge + ViaDiameter \div 2)
             /\ \A k \in b.keepouts : "via" \in k.prohibited \/ k.kind \in SensitiveKinds =>
                  ~RectContains(k.bounds, v.pos)
             /\ \A o \in b.pads : o.net # GND =>
                  ~PointRectWithin(v.pos, PadBounds(o),
                                   ViaDiameter \div 2 + NetClearance(b, GND) + NetClearance(b, o.net))
             /\ \A o \in b.vias : o.net # GND =>
                  /\ ~PointDistanceWithin(v.pos, o.pos, ViaDiameter \div 2 + NetClearance(b, GND)
                                                        + NetClearance(b, o.net) + o.diameter \div 2)
                  /\ ~PointDistanceWithin(o.pos, v.pos, o.diameter \div 2 + NetClearance(b, o.net)
                                                        + NetClearance(b, GND) + ViaDiameter \div 2)
  <2>1. v.net = GND /\ v.diameter = ViaDiameter /\ v.pos \in Points /\ ~StitchingBlocked(b, v.pos)
    BY DEF IsStitch, IsVia
  <2>2. IsBoard(b) /\ Loadable(b) /\ GND \in DOMAIN b.class /\ GroundIsKept(b, b.zones)
    BY DEF CanPour
  <2>3. \A o \in b.vias : ViaDiameter \div 2 + NetClearance(b, GND) + NetClearance(b, o.net) + o.diameter \div 2
                           = o.diameter \div 2 + NetClearance(b, o.net) + NetClearance(b, GND) + ViaDiameter \div 2
    <3> TAKE o \in b.vias
    <3>1. ViaDiameter \div 2 \in Nat /\ NetClearance(b, GND) \in Nat /\ NetClearance(b, o.net) \in Nat
      BY NeedsAreNumbers
    <3>2. o.diameter \div 2 \in Nat
      BY <2>2 DEF IsBoard, IsVia
    <3> QED BY <3>1, <3>2
  <2>4. \A o \in b.vias : o.net # GND =>
          /\ ~PointDistanceWithin(v.pos, o.pos, ViaDiameter \div 2 + NetClearance(b, GND)
                                                + NetClearance(b, o.net) + o.diameter \div 2)
          /\ ~PointDistanceWithin(o.pos, v.pos, ViaDiameter \div 2 + NetClearance(b, GND)
                                                + NetClearance(b, o.net) + o.diameter \div 2)
    BY <2>1, <2>2, StitchKeepsOff
  <2> QED BY <2>1, <2>2, <2>3, <2>4, StitchKeepsOff
<1> HIDE DEF Finding
<1> DEFINE need(c, v, o) == v.diameter \div 2 + NetClearance(c, v.net) + NetClearance(c, o.net)
           edge(v) == CopperEdge + v.diameter \div 2
           barred(c) == {q \in c.vias \X c.keepouts :
                           /\ \/ "via" \in q[2].prohibited
                              \/ q[1].net = GND /\ q[2].kind \in SensitiveKinds
                           /\ q[1].layers \cap q[2].layers # {}
                           /\ RectContains(q[2].bounds, q[1].pos)}
           outer(c) == {v \in c.vias : v.net = GND /\ ~RectContainsCircle(c.outline, v.pos, edge(v))}
           nearpads(c) == {q \in Foreign(c.vias, c.pads) :
                             PointRectWithin(q[1].pos, PadBounds(q[2]), need(c, q[1], q[2]))}
           nearvias(c) == {q \in Foreign(c.vias, c.vias) :
                             PointDistanceWithin(q[1].pos, q[2].pos, need(c, q[1], q[2]) + q[2].diameter \div 2)}
           kept(c) == {Finding(IF q[1].net = GND THEN "PCB.COPPER.KEEPOUT" ELSE "PCB_KEEPOUT_VIA", q[1].id) :
                         q \in barred(c)}
           edges(c) == {Finding("PCB.COPPER.EDGE", v.id) : v \in outer(c)}
           pads(c) == {Finding("PCB_CLEARANCE_PAD", q[1].id) : q \in nearpads(c)}
           others(c) == {Finding("PCB_CLEARANCE_VIA", q[1].id) : q \in nearvias(c)}
<1>3. \A c : ViaFindings(c) = kept(c) \cup edges(c) \cup pads(c) \cup others(c)
  BY DEF ViaFindings
<1>4. barred(after) \subseteq barred(b)
  <2> SUFFICES ASSUME NEW q \in barred(after) PROVE q \in barred(b)
    OBVIOUS
  <2>1. q = <<q[1], q[2]>> /\ q[1] \in b.vias \cup vias /\ q[2] \in b.keepouts
    BY <1>1
  <2>2. q[1] \notin vias
    BY <1>2, <2>1
  <2> QED BY <2>1, <2>2
<1>5. outer(after) \subseteq outer(b)
  <2> SUFFICES ASSUME NEW v \in outer(after) PROVE v \in outer(b)
    OBVIOUS
  <2>1. v \in b.vias \cup vias /\ v.net = GND /\ ~RectContainsCircle(b.outline, v.pos, CopperEdge + v.diameter \div 2)
    BY <1>1
  <2>2. v \notin vias
    BY <1>2, <2>1
  <2> QED BY <2>1, <2>2
<1>6. nearpads(after) \subseteq nearpads(b)
  <2> SUFFICES ASSUME NEW q \in nearpads(after) PROVE q \in nearpads(b)
    OBVIOUS
  <2>1. /\ q = <<q[1], q[2]>> /\ q[1] \in b.vias \cup vias /\ q[2] \in b.pads /\ q[1].net # q[2].net
        /\ q[1].id # q[2].id /\ q[1].layers \cap q[2].layers # {}
        /\ PointRectWithin(q[1].pos, PadBounds(q[2]),
                           q[1].diameter \div 2 + NetClearance(b, q[1].net) + NetClearance(b, q[2].net))
    BY <1>1 DEF Foreign
  <2>2. q[1] \notin vias
    BY <1>2, <2>1
  <2>3. q \in Foreign(b.vias, b.pads)
    BY <2>1, <2>2 DEF Foreign
  <2> QED BY <2>1, <2>3
<1>7. nearvias(after) \subseteq nearvias(b)
  <2> SUFFICES ASSUME NEW q \in nearvias(after) PROVE q \in nearvias(b)
    OBVIOUS
  <2>1. /\ q = <<q[1], q[2]>> /\ q[1] \in b.vias \cup vias /\ q[2] \in b.vias \cup vias
        /\ q[1].net # q[2].net /\ q[1].id # q[2].id /\ q[1].layers \cap q[2].layers # {}
        /\ PointDistanceWithin(q[1].pos, q[2].pos,
                               q[1].diameter \div 2 + NetClearance(b, q[1].net) + NetClearance(b, q[2].net)
                                 + q[2].diameter \div 2)
    BY <1>1 DEF Foreign
  <2>2. q[1] \notin vias
    BY <1>2, <2>1
  <2>3. q[2] \notin vias
    BY <1>2, <2>1
  <2>4. q \in Foreign(b.vias, b.vias)
    BY <2>1, <2>2, <2>3 DEF Foreign
  <2> QED BY <2>1, <2>4
<1> HIDE DEF barred, outer, nearpads, nearvias
<1>8. /\ kept(after) \subseteq kept(b) /\ edges(after) \subseteq edges(b)
      /\ pads(after) \subseteq pads(b) /\ others(after) \subseteq others(b)
  BY <1>4, <1>5, <1>6, <1>7
<1> HIDE DEF kept, edges, pads, others
<1> QED BY <1>3, <1>8

\* What the checker finds on zones: those in keepouts, those at the edge, and those near other copper.
ZonesBarred(c) == {q \in c.zones \X c.keepouts :
                     /\ "copper_zone" \in q[2].prohibited \/ q[2].kind \in SensitiveKinds
                     /\ q[1].layers \cap q[2].layers # {}
                     /\ RectsIntersect(q[1].bounds, q[2].bounds)}
ZonesOuter(c) == {z \in c.zones :
                    \/ z.bounds.x < c.outline.x + CopperEdge
                    \/ z.bounds.y < c.outline.y + CopperEdge
                    \/ z.bounds.x + z.bounds.w > c.outline.x + c.outline.w - CopperEdge
                    \/ z.bounds.y + z.bounds.h > c.outline.y + c.outline.h - CopperEdge}
NearPads(c) == {q \in Foreign(c.zones, c.pads) :
                  RectsWithin(q[1].bounds, PadBounds(q[2]), q[1].clearance + NetClearance(c, q[2].net))}
NearRoutes(c) == {q \in Foreign(c.zones, c.routes) :
                    SegmentRectWithin(q[2].start, q[2].end, q[1].bounds,
                                      q[1].clearance + NetClearance(c, q[2].net) + q[2].width \div 2)}
NearVias(c) == {q \in Foreign(c.zones, c.vias) :
                  PointRectWithin(q[2].pos, q[1].bounds,
                                  q[1].clearance + NetClearance(c, q[2].net) + q[2].diameter \div 2)}
NearZones(c) == {q \in Foreign(c.zones, c.zones) :
                   RectsWithin(q[1].bounds, q[2].bounds, q[1].clearance + q[2].clearance)}

\* They are all it finds on zones.
LEMMA ZoneFindingsAre ==
  ASSUME NEW c
  PROVE  ZoneFindings(c)
           = {Finding("PCB_KEEPOUT_COPPER_ZONE", q[1].id) : q \in ZonesBarred(c)}
             \cup {Finding("PCB.COPPER.EDGE", z.id) : z \in ZonesOuter(c)}
             \cup {Finding("PCB.COPPER.CLEARANCE", q[1].id) :
                     q \in NearPads(c) \cup NearRoutes(c) \cup NearVias(c) \cup NearZones(c)}
BY DEF ZoneFindings, ZonesBarred, ZonesOuter, NearPads, NearRoutes, NearVias, NearZones

\* Each planned zone keeps off all that is not ground, on every layer it lies on.
LEMMA PlannedZoneIsOff ==
  ASSUME NEW b, NEW zones, CanPour(b, zones), NEW z \in zones, NEW l \in z.layers
  PROVE  /\ \E all \in BoardRect(b) : InOutline(z.bounds, all)
         /\ \A k \in b.keepouts : l \in k.layers /\ BarsCopper(k) => ~RectsIntersect(z.bounds, k.bounds)
         /\ \A p \in b.pads : l \in p.layers /\ p.net # GND =>
              ~RectsWithin(z.bounds, PadBounds(p), z.clearance + NetClearance(b, p.net))
         /\ \A r \in b.routes : l \in r.layers /\ r.net # GND =>
              ~SegmentRectWithin(r.start, r.end, z.bounds, z.clearance + NetClearance(b, r.net) + r.width \div 2)
         /\ \A v \in b.vias : l \in v.layers /\ v.net # GND =>
              ~PointRectWithin(v.pos, z.bounds, z.clearance + NetClearance(b, v.net) + v.diameter \div 2)
         /\ \A y \in b.zones : l \in y.layers /\ y.net # GND =>
              /\ ~RectsWithin(z.bounds, y.bounds, z.clearance + y.clearance)
              /\ ~RectsWithin(y.bounds, z.bounds, y.clearance + z.clearance)
<1> DEFINE t == z.bounds
           g == GroundClearance(b)
<1>1. IsBoard(b) /\ Loadable(b) /\ GND \in DOMAIN b.class
  BY DEF CanPour
<1>2. z.clearance = g /\ t \in Rects /\ IsClear(b, l, t)
  BY ClearZonesAre DEF CanPour
<1>3. /\ \A k \in OnLayer(b.keepouts, l) : BarsCopper(k) => ~RectsWithin(t, k.bounds, g)
      /\ \A p \in OthersOn(b.pads, l) : ~RectsWithin(t, PadBounds(p), g + NetClearance(b, p.net))
      /\ \A r \in OthersOn(b.routes, l) :
           ~RectsWithin(t, SegmentBounds(r.start, r.end, r.width \div 2), g + NetClearance(b, r.net))
      /\ \A v \in OthersOn(b.vias, l) :
           ~RectsWithin(t, PointBounds(v.pos, v.diameter \div 2), g + NetClearance(b, v.net))
      /\ \A y \in OthersOn(b.zones, l) : ~RectsWithin(t, y.bounds, g + y.clearance)
  BY <1>1, <1>2, ClearKeepsOff DEF IsOff
<1>4. /\ g \in Nat /\ \A o \in b.pads \cup b.routes \cup b.vias \cup b.zones : NetClearance(b, o.net) \in Nat
  BY NeedsAreNumbers
<1>5. \E all \in BoardRect(b) : InOutline(z.bounds, all)
  BY <1>2 DEF IsClear
<1> HIDE DEF t, g
<1>6. ASSUME NEW k \in b.keepouts, l \in k.layers, BarsCopper(k), RectsIntersect(t, k.bounds) PROVE FALSE
  <2>1. k.bounds \in Rects /\ 0 \in Nat /\ 0 <= g
    BY <1>1, <1>4 DEF IsBoard, IsKeepout
  <2>2. RectsWithin(t, k.bounds, g)
    BY <1>2, <1>4, <1>6, <2>1, RectsNear DEF RectsIntersect
  <2> QED BY <1>3, <1>6, <2>2 DEF OnLayer
<1>7. ASSUME NEW r \in b.routes, l \in r.layers, r.net # GND,
             SegmentRectWithin(r.start, r.end, t, g + NetClearance(b, r.net) + r.width \div 2)
      PROVE  FALSE
  <2> DEFINE d == g + NetClearance(b, r.net)
             w == r.width \div 2
  <2>1. r.start \in Points /\ r.end \in Points /\ w \in Nat /\ d \in Nat
    BY <1>1, <1>4 DEF IsBoard, IsRoute
  <2>2. SegmentRectWithin(r.start, r.end, t, d + w)
    BY <1>7
  <2>3. ~RectsWithin(t, SegmentBounds(r.start, r.end, w), d)
    BY <1>3, <1>7 DEF OthersOn, OnLayer
  <2> HIDE DEF d, w
  <2> QED BY <1>2, <2>1, <2>2, <2>3, BoundsAreNear
<1>8. ASSUME NEW v \in b.vias, l \in v.layers, v.net # GND,
             PointRectWithin(v.pos, t, g + NetClearance(b, v.net) + v.diameter \div 2)
      PROVE  FALSE
  <2> DEFINE d == g + NetClearance(b, v.net)
             w == v.diameter \div 2
  <2>1. v.pos \in Points /\ w \in Nat /\ d \in Nat
    BY <1>1, <1>4 DEF IsBoard, IsVia
  <2>2. PointRectWithin(v.pos, t, d + w)
    BY <1>8
  <2>3. ~RectsWithin(t, PointBounds(v.pos, w), d)
    BY <1>3, <1>8 DEF OthersOn, OnLayer
  <2> HIDE DEF d, w
  <2> QED BY <1>2, <2>1, <2>2, <2>3, BoundsAreNear
<1>9. ASSUME NEW y \in b.zones, l \in y.layers, y.net # GND
      PROVE  /\ ~RectsWithin(t, y.bounds, g + y.clearance)
             /\ ~RectsWithin(y.bounds, t, y.clearance + g)
  <2>1. ~RectsWithin(t, y.bounds, g + y.clearance)
    BY <1>3, <1>9 DEF OthersOn, OnLayer
  <2>2. y.bounds \in Rects /\ y.clearance \in Nat
    BY <1>1 DEF IsBoard, IsZone
  <2>3. y.clearance + g = g + y.clearance /\ g + y.clearance \in Nat
    BY <1>4, <2>2
  <2> QED BY <1>2, <2>1, <2>2, <2>3, RectsNear
<1>10. \A p \in b.pads : l \in p.layers /\ p.net # GND => ~RectsWithin(t, PadBounds(p), g + NetClearance(b, p.net))
  BY <1>3 DEF OthersOn, OnLayer
<1> QED BY <1>2, <1>5, <1>6, <1>7, <1>8, <1>9, <1>10 DEF t

\* Nor does the planned board give zones findings they have not.
LEMMA PlannedKeepsZones ==
  ASSUME NEW b, NEW zones, CanPour(b, zones), NEW vias, \A v \in vias : IsStitch(b, zones, v),
         NEW after, after = Planned(b, zones, vias)
  PROVE  ZoneFindings(after) \subseteq ZoneFindings(b)
<1>1. /\ after.outline = b.outline /\ after.keepouts = b.keepouts /\ after.routes = b.routes
      /\ after.pads = b.pads /\ after.vias = b.vias \cup vias /\ after.zones = b.zones \cup zones
      /\ \A n : NetClearance(after, n) = NetClearance(b, n)
  BY PlannedHas DEF CanPour
<1>2. IsBoard(b) /\ Loadable(b) /\ AreClear(b, zones)
  BY DEF CanPour
<1>3. ASSUME NEW z \in zones
      PROVE  z.net = GND /\ z.clearance = GroundClearance(b) /\ z.bounds \in Rects
             /\ \E l \in z.layers : \E all \in BoardRect(b) : InOutline(z.bounds, all)
  <2>1. \E l : l \in z.layers
    BY <1>2 DEF AreClear
  <2> QED BY <1>2, <2>1, ClearZonesAre, PlannedZoneIsOff
<1>4. \A v \in vias : v.net = GND /\ v.diameter = ViaDiameter /\ v.pos \in Points
                      /\ v.layers = Covered(b, zones, v.pos)
  BY DEF IsStitch, IsVia
<1>5. ZonesBarred(after) \subseteq ZonesBarred(b)
  <2> SUFFICES ASSUME NEW q \in ZonesBarred(after) PROVE q \in ZonesBarred(b)
    OBVIOUS
  <2>1. /\ q = <<q[1], q[2]>> /\ q[1] \in b.zones \cup zones /\ q[2] \in b.keepouts /\ BarsCopper(q[2])
        /\ q[1].layers \cap q[2].layers # {} /\ RectsIntersect(q[1].bounds, q[2].bounds)
    BY <1>1 DEF ZonesBarred, BarsCopper
  <2>2. q[1] \notin zones
    BY <2>1, PlannedZoneIsOff
  <2> QED BY <2>1, <2>2 DEF ZonesBarred, BarsCopper
<1>6. ZonesOuter(after) \subseteq ZonesOuter(b)
  <2> SUFFICES ASSUME NEW z \in ZonesOuter(after), z \in zones PROVE FALSE
    BY <1>1 DEF ZonesOuter
  <2>1. PICK all \in BoardRect(b) : InOutline(z.bounds, all)
    BY <1>3
  <2>2. /\ all.x = b.outline.x + CopperEdge /\ all.y = b.outline.y + CopperEdge
        /\ all.w = b.outline.w - 2 * CopperEdge /\ all.h = b.outline.h - 2 * CopperEdge
    BY DEF BoardRect, Rect
  <2>3. z.bounds \in Rects /\ b.outline \in Rects /\ CopperEdge \in Nat
    BY <1>2, <1>3, EdgeAssumption DEF IsBoard
  <2>4. \/ z.bounds.x < b.outline.x + CopperEdge
        \/ z.bounds.y < b.outline.y + CopperEdge
        \/ z.bounds.x + z.bounds.w > b.outline.x + b.outline.w - CopperEdge
        \/ z.bounds.y + z.bounds.h > b.outline.y + b.outline.h - CopperEdge
    BY <1>1 DEF ZonesOuter
  <2> QED BY <2>1, <2>2, <2>3, <2>4 DEF InOutline, Rects
<1>7. NearPads(after) \subseteq NearPads(b)
  <2> SUFFICES ASSUME NEW q \in NearPads(after) PROVE q \in NearPads(b)
    OBVIOUS
  <2>1. /\ q = <<q[1], q[2]>> /\ q[1] \in b.zones \cup zones /\ q[2] \in b.pads
        /\ q[1].net # q[2].net /\ q[1].id # q[2].id /\ q[1].layers \cap q[2].layers # {}
        /\ RectsWithin(q[1].bounds, PadBounds(q[2]), q[1].clearance + NetClearance(b, q[2].net))
    BY <1>1 DEF NearPads, Foreign
  <2>2. q[1] \notin zones
    BY <1>3, <2>1, PlannedZoneIsOff
  <2> QED BY <2>1, <2>2 DEF NearPads, Foreign
<1>8. NearRoutes(after) \subseteq NearRoutes(b)
  <2> SUFFICES ASSUME NEW q \in NearRoutes(after) PROVE q \in NearRoutes(b)
    OBVIOUS
  <2>1. /\ q = <<q[1], q[2]>> /\ q[1] \in b.zones \cup zones /\ q[2] \in b.routes
        /\ q[1].net # q[2].net /\ q[1].id # q[2].id /\ q[1].layers \cap q[2].layers # {}
        /\ SegmentRectWithin(q[2].start, q[2].end, q[1].bounds,
                             q[1].clearance + NetClearance(b, q[2].net) + q[2].width \div 2)
    BY <1>1 DEF NearRoutes, Foreign
  <2>2. q[1] \notin zones
    BY <1>3, <2>1, PlannedZoneIsOff
  <2> QED BY <2>1, <2>2 DEF NearRoutes, Foreign
<1>9. NearVias(after) \subseteq NearVias(b)
  <2> SUFFICES ASSUME NEW q \in NearVias(after) PROVE q \in NearVias(b)
    OBVIOUS
  <2>1. /\ q = <<q[1], q[2]>> /\ q[1] \in b.zones \cup zones /\ q[2] \in b.vias \cup vias
        /\ q[1].net # q[2].net /\ q[1].id # q[2].id /\ q[1].layers \cap q[2].layers # {}
        /\ PointRectWithin(q[2].pos, q[1].bounds,
                           q[1].clearance + NetClearance(b, q[2].net) + q[2].diameter \div 2)
    BY <1>1 DEF NearVias, Foreign
  <2>2. q[2] \notin vias
    <3> SUFFICES ASSUME q[2] \in vias PROVE FALSE
      OBVIOUS
    <3>1. q[2].net = GND /\ q[2].diameter = ViaDiameter /\ q[2].pos \in Points
          /\ q[2].layers = Covered(b, zones, q[2].pos)
      BY <1>4
    <3>2. q[1] \in b.zones /\ q[1].net # GND
      BY <1>3, <2>1, <3>1
    <3>3. PICK l \in q[1].layers : l \in Covered(b, zones, q[2].pos)
      BY <2>1, <3>1
    <3>4. ~PointRectWithin(q[2].pos, q[1].bounds,
                           q[1].clearance + NetClearance(b, GND) + ViaDiameter \div 2)
      BY <3>1, <3>2, <3>3, CoveringKeepsOff DEF CanPour
    <3> QED BY <2>1, <3>1, <3>4
  <2>3. q[1] \notin zones
    BY <1>3, <2>1, <2>2, PlannedZoneIsOff
  <2> QED BY <2>1, <2>2, <2>3 DEF NearVias, Foreign
<1>10. NearZones(after) \subseteq NearZones(b)
  <2> SUFFICES ASSUME NEW q \in NearZones(after) PROVE q \in NearZones(b)
    OBVIOUS
  <2>1. /\ q = <<q[1], q[2]>> /\ q[1] \in b.zones \cup zones /\ q[2] \in b.zones \cup zones
        /\ q[1].net # q[2].net /\ q[1].id # q[2].id /\ q[1].layers \cap q[2].layers # {}
        /\ RectsWithin(q[1].bounds, q[2].bounds, q[1].clearance + q[2].clearance)
    BY <1>1 DEF NearZones, Foreign
  <2>2. ~(q[1] \in zones /\ q[2] \in zones)
    BY <1>3, <2>1
  <2>3. q[1] \notin zones
    BY <1>3, <2>1, <2>2, PlannedZoneIsOff
  <2>4. q[2] \notin zones
    BY <1>3, <2>1, <2>2, PlannedZoneIsOff
  <2> QED BY <2>1, <2>3, <2>4 DEF NearZones, Foreign
<1> HIDE DEF Finding
<1>11. \A c : ZoneFindings(c)
           = {Finding("PCB_KEEPOUT_COPPER_ZONE", q[1].id) : q \in ZonesBarred(c)}
             \cup {Finding("PCB.COPPER.EDGE", z.id) : z \in ZonesOuter(c)}
             \cup {Finding("PCB.COPPER.CLEARANCE", q[1].id) :
                     q \in NearPads(c) \cup NearRoutes(c) \cup NearVias(c) \cup NearZones(c)}
  BY ZoneFindingsAre
<1>12. {Finding("PCB_KEEPOUT_COPPER_ZONE", q[1].id) : q \in ZonesBarred(after)}
         \subseteq {Finding("PCB_KEEPOUT_COPPER_ZONE", q[1].id) : q \in ZonesBarred(b)}
  BY <1>5
<1>13. {Finding("PCB.COPPER.EDGE", z.id) : z \in ZonesOuter(after)}
         \subseteq {Finding("PCB.COPPER.EDGE", z.id) : z \in ZonesOuter(b)}
  BY <1>6
<1>14. {Finding("PCB.COPPER.CLEARANCE", q[1].id) :
          q \in NearPads(after) \cup NearRoutes(after) \cup NearVias(after) \cup NearZones(after)}
         \subseteq {Finding("PCB.COPPER.CLEARANCE", q[1].id) :
                      q \in NearPads(b) \cup NearRoutes(b) \cup NearVias(b) \cup NearZones(b)}
  BY <1>7, <1>8, <1>9, <1>10
<1> QED BY <1>11, <1>12, <1>13, <1>14

-----------------------------------------------------------------------------
(* What is joined on a planned board. *)

JoinedBy(seed, all) == Joined(seed, all, ConductiveContact)
Anchors(b) == OfNet(b.pads, GND) \cup OfNet(b.routes, GND) \cup OfNet(b.vias, GND)
Grounds(b) == OfNet(b.zones, GND)

\* The planned zones are all joined to ground copper that is no zone.
IsJoinedPour(b, zones) == zones \subseteq JoinedBy(Anchors(b), Anchors(b) \cup Grounds(b) \cup zones)

\* With less to join there is less joined.
LEMMA JoinedGrowsWith ==
  ASSUME NEW all, IsFiniteSet(all), NEW seed \in SUBSET all,
         NEW part \in SUBSET all, NEW some \in SUBSET part, some \subseteq seed
  PROVE  JoinedBy(some, part) \subseteq JoinedBy(seed, all)
<1> DEFINE J == JoinedBy(seed, all)
<1>1. seed \subseteq J /\ IsClosedIn("contact", J, all)
  BY ContactIsClosed DEF JoinedBy
<1>2. IsFiniteSet(part)
  BY FS_Subset
<1> HIDE DEF J
<1>3. some \subseteq J /\ IsClosedIn("contact", J, part)
  BY <1>1 DEF IsClosedIn
<1>4. Joined(some, part, ConductiveContact) \subseteq J
  BY <1>2, <1>3, ContactIsClosed
<1> QED BY <1>4 DEF JoinedBy, J

\* New ground copper disconnects no other net.
LEMMA PlannedKeepsNets ==
  ASSUME NEW b, NEW zones, CanPour(b, zones), NEW vias, \A v \in vias : IsStitch(b, zones, v),
         NEW after, after = Planned(b, zones, vias)
  PROVE  ConnectivityFindings(after)
           \subseteq ConnectivityFindings(b) \cup {Finding("PCB_ROUTE_DISCONNECTED", GND)}
<1> DEFINE copper(c, n) == OfNet(c.routes, n) \cup OfNet(c.vias, n)
           touched(c, n) == {p \in OfNet(c.pads, n) : \E e \in copper(c, n) : PadTouches(p, e)}
           apart(c, n) == \E p, q \in touched(c, n) : q \notin JoinedBy({p}, OfNet(c.pads, n) \cup copper(c, n))
           parted(c) == {n \in DOMAIN c.class : Cardinality(OfNet(c.pads, n)) >= 2 /\ apart(c, n)}
<1>1. after.class = b.class /\ after.routes = b.routes /\ after.pads = b.pads /\ after.vias = b.vias \cup vias
  BY PlannedHas DEF CanPour
<1>2. \A v \in vias : v.net = GND
  BY DEF IsStitch
<1>3. \A n : /\ OfNet(after.pads, n) = OfNet(b.pads, n)
             /\ n # GND => copper(after, n) = copper(b, n)
  BY <1>1, <1>2 DEF OfNet
<1>4. \A c : ConnectivityFindings(c) = {Finding("PCB_ROUTE_DISCONNECTED", n) : n \in parted(c)}
  BY DEF ConnectivityFindings, JoinedBy
<1> HIDE DEF copper
<1>5. \A n : n # GND => (apart(after, n) <=> apart(b, n))
  BY <1>3
<1> HIDE DEF apart
<1>6. \A n \in parted(after) : n # GND => n \in parted(b)
  BY <1>1, <1>3, <1>5
<1> HIDE DEF parted, Finding
<1> QED BY <1>4, <1>6

\* Without findings of copper every ground zone is joined.
LEMMA GroundsAreJoined ==
  ASSUME NEW b, NoCopperFindings(b)
  PROVE  Grounds(b) \subseteq JoinedBy(Anchors(b), Anchors(b) \cup Grounds(b))
<1>1. CopperConnectivityFindings(b)
        = {Finding("PCB.COPPER.CONNECTIVITY", z.id) :
             z \in Grounds(b) \ JoinedBy(Anchors(b), Anchors(b) \cup Grounds(b))}
  BY DEF CopperConnectivityFindings, Anchors, Grounds, JoinedBy
<1>2. CopperConnectivityFindings(b) = {}
  <2> SUFFICES ASSUME NEW f \in CopperConnectivityFindings(b) PROVE FALSE
    OBVIOUS
  <2>1. f.rule = "PCB.COPPER.CONNECTIVITY"
    BY <1>1 DEF Finding
  <2>2. f \in Check(b)
    BY DEF Check
  <2> QED BY <2>1, <2>2 DEF NoCopperFindings, CopperRules
<1> HIDE DEF Finding
<1> QED BY <1>1, <1>2

\* A pour of joined zones leaves no ground zone unjoined.
LEMMA PlannedIsJoined ==
  ASSUME NEW b, NEW zones, CanPour(b, zones), IsFiniteSet(zones), IsJoinedPour(b, zones),
         NEW vias, \A v \in vias : IsStitch(b, zones, v), IsFiniteSet(vias),
         NEW after, after = Planned(b, zones, vias)
  PROVE  CopperConnectivityFindings(after) = {}
<1> DEFINE all == Anchors(after) \cup Grounds(after)
           J == JoinedBy(Anchors(after), all)
<1>1. after.routes = b.routes /\ after.pads = b.pads /\ after.vias = b.vias \cup vias
      /\ after.zones = b.zones \cup zones
  BY PlannedHas DEF CanPour
<1>2. IsBoard(b)
  BY DEF CanPour
<1>3. \A z \in zones : z.net = GND
  BY ClearZonesAre DEF CanPour
<1>4. Anchors(b) \subseteq Anchors(after) /\ Grounds(after) = Grounds(b) \cup zones
  BY <1>1, <1>3 DEF Anchors, Grounds, OfNet
<1>5. IsFiniteSet(all)
  <2>1. IsFiniteSet(b.vias \cup vias) /\ IsFiniteSet(b.zones \cup zones)
    BY <1>2, FS_Union DEF IsBoard
  <2>2. \A s, n : IsFiniteSet(s) => IsFiniteSet(OfNet(s, n))
    BY FS_Subset DEF OfNet
  <2>3. /\ IsFiniteSet(OfNet(after.pads, GND)) /\ IsFiniteSet(OfNet(after.routes, GND))
        /\ IsFiniteSet(OfNet(after.vias, GND)) /\ IsFiniteSet(OfNet(after.zones, GND))
    BY <1>1, <1>2, <2>1, <2>2 DEF IsBoard
  <2>4. IsFiniteSet(Anchors(after))
    BY <2>3, FS_Union DEF Anchors
  <2> QED BY <2>3, <2>4, FS_Union DEF Grounds
<1>7. CopperConnectivityFindings(after)
        = {Finding("PCB.COPPER.CONNECTIVITY", z.id) : z \in Grounds(after) \ J}
  BY DEF CopperConnectivityFindings, Anchors, Grounds, JoinedBy
<1>9. Grounds(b) \subseteq JoinedBy(Anchors(b), Anchors(b) \cup Grounds(b))
  BY GroundsAreJoined DEF CanPour
<1>10. JoinedBy(Anchors(b), Anchors(b) \cup Grounds(b)) \subseteq J
  BY <1>4, <1>5, JoinedGrowsWith
<1>11. JoinedBy(Anchors(b), Anchors(b) \cup Grounds(b) \cup zones) \subseteq J
  BY <1>4, <1>5, JoinedGrowsWith
<1> HIDE DEF J
<1>12. Grounds(after) \subseteq J
  BY <1>4, <1>9, <1>10, <1>11 DEF IsJoinedPour
<1> QED BY <1>7, <1>12

\* What a planned board has in findings that the board has not.
LEMMA PlannedMeets ==
  ASSUME NEW b, NEW zones, CanPour(b, zones), IsFiniteSet(zones),
         NEW vias, \A v \in vias : IsStitch(b, zones, v), IsFiniteSet(vias),
         NEW f \in Check(Planned(b, zones, vias)) \ Check(b)
  PROVE  \/ f = Finding("PCB_ROUTE_DISCONNECTED", GND)
         \/ f.rule = "PCB.COPPER.CONNECTIVITY" /\ ~IsJoinedPour(b, zones)
<1> DEFINE after == Planned(b, zones, vias)
<1>1. /\ RouteKeepoutFindings(after) = RouteKeepoutFindings(b)
      /\ FootprintKeepoutFindings(after) = FootprintKeepoutFindings(b)
      /\ RouteClearanceFindings(after) \subseteq RouteClearanceFindings(b)
  BY PlannedKeepsRoutes
<1>2. ViaFindings(after) \subseteq ViaFindings(b)
  BY PlannedKeepsVias
<1>3. ZoneFindings(after) \subseteq ZoneFindings(b)
  BY PlannedKeepsZones
<1>4. ConnectivityFindings(after)
        \subseteq ConnectivityFindings(b) \cup {Finding("PCB_ROUTE_DISCONNECTED", GND)}
  BY PlannedKeepsNets
<1>5. IsJoinedPour(b, zones) => CopperConnectivityFindings(after) = {}
  BY PlannedIsJoined
<1>6. \A g \in CopperConnectivityFindings(after) : g.rule = "PCB.COPPER.CONNECTIVITY"
  BY DEF CopperConnectivityFindings, Finding
<1> HIDE DEF after, Finding
<1>7. f \in Check(after) /\ f \notin Check(b)
  BY DEF after
<1> QED BY <1>1, <1>2, <1>3, <1>4, <1>5, <1>6, <1>7 DEF Check

-----------------------------------------------------------------------------
(* A layer that is closed without losing a small tile. *)

\* Tiles edge to edge meet, whichever comes first.
LEMMA ConnectedMeet ==
  ASSUME NEW r \in Rects, NEW s \in Rects, RectsConnected(r, s)
  PROVE  RectsIntersect(r, s) /\ RectsConnected(s, r)
<1> DEFINE right == Least(r.x + r.w, s.x + s.w)
           left == Most(r.x, s.x)
           top == Least(r.y + r.h, s.y + s.h)
           bottom == Most(r.y, s.y)
<1>1. /\ r.x \in Int /\ r.y \in Int /\ r.w \in Int /\ r.h \in Int
      /\ s.x \in Int /\ s.y \in Int /\ s.w \in Int /\ s.h \in Int
  BY DEF Rects
<1>2. right - left >= 0 /\ top - bottom >= 0 /\ (right - left) + (top - bottom) > 0
  BY DEF RectsConnected
<1>3. right <= r.x + r.w /\ right <= s.x + s.w /\ left >= r.x /\ left >= s.x
      /\ top <= r.y + r.h /\ top <= s.y + s.h /\ bottom >= r.y /\ bottom >= s.y
  BY <1>1 DEF Least, Most
<1>4. right \in Int /\ left \in Int /\ top \in Int /\ bottom \in Int
  BY <1>1 DEF Least, Most
<1>5. /\ right = Least(s.x + s.w, r.x + r.w) /\ left = Most(s.x, r.x)
      /\ top = Least(s.y + s.h, r.y + r.h) /\ bottom = Most(s.y, r.y)
  <2>1. \A m, n \in Int : Least(m, n) = Least(n, m) /\ Most(m, n) = Most(n, m)
    BY DEF Least, Most
  <2>2. r.x + r.w \in Int /\ s.x + s.w \in Int /\ r.y + r.h \in Int /\ s.y + s.h \in Int
    BY <1>1
  <2> QED BY <1>1, <2>1, <2>2
<1>6. RectsConnected(s, r)
  <2> HIDE DEF right, left, top, bottom
  <2> QED BY <1>2, <1>5 DEF RectsConnected
<1> HIDE DEF right, left, top, bottom
<1>7. RectsIntersect(r, s)
  BY <1>1, <1>2, <1>3, <1>4 DEF RectsIntersect, RectsWithin
<1> QED BY <1>6, <1>7

\* What a tile touches is in contact with the zone it becomes.
LEMMA TouchedMeets ==
  ASSUME NEW b, IsBoard(b), NEW l, NEW t \in Rects, TouchesGround(b, l, t)
  PROVE  \E e \in Anchors(b) \cup Grounds(b) : ConductiveContact(e, GroundZone(b, l, t))
<1> DEFINE z == GroundZone(b, l, t)
           On(s) == {o \in OfNet(s, GND) : l \in o.layers}
<1>1. z.kind = "zone" /\ z.net = GND /\ z.layers = {l} /\ z.bounds = t
  BY DEF GroundZone
<1> HIDE DEF z
<1>2. \/ \E y \in On(b.zones) : RectsConnected(t, y.bounds)
      \/ \E p \in On(b.pads) : PointRectWithin(p.pos, t, PadReach(p))
      \/ \E r \in On(b.routes) : SegmentRectWithin(r.start, r.end, t, r.width \div 2)
      \/ \E v \in On(b.vias) : PointRectWithin(v.pos, t, v.diameter \div 2)
  BY DEF TouchesGround
<1>3. \A s : \A e \in On(s) : e \in OfNet(s, GND) /\ e \in s /\ e.net = GND /\ e.layers \cap z.layers # {}
  BY <1>1 DEF OfNet
<1>4. CASE \E y \in On(b.zones) : RectsConnected(t, y.bounds)
  <2>1. PICK y \in On(b.zones) : RectsConnected(t, y.bounds)
    BY <1>4
  <2>2. y \in b.zones /\ y.kind = "zone" /\ y.bounds \in Rects
    BY DEF OfNet, IsBoard, IsZone
  <2>3. RectsIntersect(y.bounds, t)
    BY <2>1, <2>2, ConnectedMeet
  <2>4. y \in Grounds(b) /\ y.net = z.net /\ y.layers \cap z.layers # {}
    BY <1>1, <1>3 DEF Grounds
  <2>5. TouchesInOrder(y, z)
    BY <1>1, <2>2, <2>3, <2>4 DEF TouchesInOrder
  <2> QED BY <2>4, <2>5 DEF ConductiveContact, z
<1>5. CASE \E p \in On(b.pads) : PointRectWithin(p.pos, t, PadReach(p))
  <2>1. PICK p \in On(b.pads) : PointRectWithin(p.pos, t, PadReach(p))
    BY <1>5
  <2>2. p \in b.pads /\ p.kind = "pad"
    BY DEF OfNet, IsBoard, IsPad
  <2>3. p \in Anchors(b) /\ p.net = z.net /\ p.layers \cap z.layers # {}
    BY <1>1, <1>3 DEF Anchors
  <2>4. PadTouches(p, z)
    BY <1>1, <2>1, <2>3 DEF PadTouches
  <2> QED BY <2>2, <2>3, <2>4 DEF ConductiveContact, TouchesInOrder, z
<1>6. CASE \E r \in On(b.routes) : SegmentRectWithin(r.start, r.end, t, r.width \div 2)
  <2>1. PICK r \in On(b.routes) : SegmentRectWithin(r.start, r.end, t, r.width \div 2)
    BY <1>6
  <2>2. r \in b.routes /\ r.kind = "route"
    BY DEF OfNet, IsBoard, IsRoute
  <2>3. r \in Anchors(b) /\ r.net = z.net /\ z.layers \cap r.layers # {}
    BY <1>1, <1>3 DEF Anchors
  <2>4. TouchesInOrder(z, r)
    BY <1>1, <2>1, <2>2, <2>3 DEF TouchesInOrder
  <2> QED BY <2>3, <2>4 DEF ConductiveContact, z
<1>7. CASE \E v \in On(b.vias) : PointRectWithin(v.pos, t, v.diameter \div 2)
  <2>1. PICK v \in On(b.vias) : PointRectWithin(v.pos, t, v.diameter \div 2)
    BY <1>7
  <2>2. v \in b.vias /\ v.kind = "via"
    BY DEF OfNet, IsBoard, IsVia
  <2>3. v \in Anchors(b) /\ v.net = z.net /\ z.layers \cap v.layers # {}
    BY <1>1, <1>3 DEF Anchors
  <2>4. TouchesInOrder(z, v)
    BY <1>1, <2>1, <2>2, <2>3 DEF TouchesInOrder
  <2> QED BY <2>3, <2>4 DEF ConductiveContact, z
<1> QED BY <1>2, <1>4, <1>5, <1>6, <1>7

\* If no anchored tile is dropped, the zones of the layer are joined as those before them were.
LEMMA ClosedIsJoined ==
  ASSUME NEW b, IsBoard(b), NoCopperFindings(b), NEW zones, IsFiniteSet(zones),
         IsJoinedPour(b, zones), NEW l, NEW tiles, IsFiniteSet(tiles), tiles \subseteq Rects
  PROVE  IsJoinedPour(b, zones \cup {GroundZone(b, l, t) : t \in AnchoredTiles(b, l, tiles)})
<1> DEFINE anchored == AnchoredTiles(b, l, tiles)
           zone(t) == GroundZone(b, l, t)
           more == {zone(t) : t \in anchored}
           all == Anchors(b) \cup Grounds(b) \cup (zones \cup more)
           S == JoinedBy(Anchors(b), all)
           seed == {t \in tiles : TouchesGround(b, l, t)}
           C == {t \in tiles : t \in anchored => zone(t) \in S}
<1>1. /\ seed \subseteq anchored /\ anchored \subseteq tiles /\ IsClosedIn("edge", anchored, tiles)
      /\ \A D : seed \subseteq D /\ IsClosedIn("edge", D, tiles) => anchored \subseteq D
  BY ConnectedIsClosed DEF AnchoredTiles
<1> HIDE DEF anchored
<1>2. IsFiniteSet(more)
  <2> DEFINE make == [t \in anchored |-> zone(t)]
  <2>1. more = {make[t] : t \in DOMAIN make} /\ DOMAIN make = anchored
    OBVIOUS
  <2>2. IsFiniteSet(anchored)
    BY <1>1, FS_Subset
  <2> HIDE DEF make, more, zone
  <2> QED BY <2>1, <2>2, FinitelyMany
<1>3. IsFiniteSet(all)
  <2>1. \A s : IsFiniteSet(s) => IsFiniteSet(OfNet(s, GND))
    BY FS_Subset DEF OfNet
  <2>2. IsFiniteSet(Anchors(b)) /\ IsFiniteSet(Grounds(b))
    BY <2>1, FS_Union DEF IsBoard, Anchors, Grounds
  <2> HIDE DEF more
  <2> QED BY <1>2, <2>2, FS_Union
<1>4. Anchors(b) \subseteq S /\ IsClosedIn("contact", S, all)
  <2>1. Anchors(b) \in SUBSET all
    OBVIOUS
  <2> HIDE DEF all
  <2> QED BY <1>3, <2>1, ContactIsClosed DEF JoinedBy
<1>5. zones \subseteq S
  <2>1. JoinedBy(Anchors(b), Anchors(b) \cup Grounds(b) \cup zones) \subseteq S
    <3>1. /\ Anchors(b) \cup Grounds(b) \cup zones \in SUBSET all
          /\ Anchors(b) \in SUBSET (Anchors(b) \cup Grounds(b) \cup zones)
          /\ Anchors(b) \in SUBSET all
      OBVIOUS
    <3> HIDE DEF all
    <3> QED BY <1>3, <3>1, JoinedGrowsWith
  <2> QED BY <2>1 DEF IsJoinedPour
<1>6. Grounds(b) \subseteq S
  <2>1. Grounds(b) \subseteq JoinedBy(Anchors(b), Anchors(b) \cup Grounds(b))
    BY GroundsAreJoined
  <2>2. JoinedBy(Anchors(b), Anchors(b) \cup Grounds(b)) \subseteq S
    <3>1. /\ Anchors(b) \cup Grounds(b) \in SUBSET all
          /\ Anchors(b) \in SUBSET (Anchors(b) \cup Grounds(b))
          /\ Anchors(b) \in SUBSET all
      OBVIOUS
    <3> HIDE DEF all
    <3> QED BY <1>3, <3>1, JoinedGrowsWith
  <2> QED BY <2>1, <2>2
<1>7. \A t \in anchored : zone(t) \in all
  OBVIOUS
<1> HIDE DEF all, S
<1>8. \A e \in S, z \in all : ConductiveContact(e, z) => z \in S
  BY <1>4 DEF IsClosedIn, Meets
<1>9. seed \subseteq C
  <2> SUFFICES ASSUME NEW t \in seed PROVE zone(t) \in S
    OBVIOUS
  <2>1. t \in Rects /\ TouchesGround(b, l, t) /\ t \in anchored
    BY <1>1
  <2>2. PICK e \in Anchors(b) \cup Grounds(b) : ConductiveContact(e, zone(t))
    BY <2>1, TouchedMeets
  <2> HIDE DEF zone
  <2> QED BY <1>4, <1>6, <1>7, <1>8, <2>1, <2>2
<1>10. IsClosedIn("edge", C, tiles)
  <2> SUFFICES ASSUME NEW f \in C, NEW e \in tiles, RectsConnected(f, e), e \in anchored
               PROVE  zone(e) \in S
    BY DEF IsClosedIn, Meets
  <2>1. f \in tiles /\ f \in Rects /\ e \in Rects
    OBVIOUS
  <2>2. RectsConnected(e, f) /\ RectsIntersect(f, e)
    BY <2>1, ConnectedMeet
  <2>3. f \in anchored
    BY <1>1, <2>1, <2>2 DEF IsClosedIn, Meets
  <2>4. zone(f) \in S /\ zone(e) \in all
    BY <1>7, <2>3
  <2>5. ConductiveContact(zone(f), zone(e))
    <3>1. /\ zone(f).kind = "zone" /\ zone(f).net = GND /\ zone(f).layers = {l} /\ zone(f).bounds = f
          /\ zone(e).kind = "zone" /\ zone(e).net = GND /\ zone(e).layers = {l} /\ zone(e).bounds = e
      BY DEF GroundZone
    <3> HIDE DEF zone
    <3>2. TouchesInOrder(zone(f), zone(e))
      BY <2>2, <3>1 DEF TouchesInOrder
    <3> QED BY <3>2 DEF ConductiveContact
  <2> QED BY <1>8, <2>4, <2>5
<1> HIDE DEF seed, C
<1>11. anchored \subseteq C
  BY <1>1, <1>9, <1>10 DEF seed
<1>12. more \subseteq S
  BY <1>11 DEF C
<1>13. zones \cup more \subseteq S
  BY <1>5, <1>12
<1> QED BY <1>13 DEF IsJoinedPour, S, all, anchored

-----------------------------------------------------------------------------
(* Ground zones stay wide enough while others work on the board. *)

\* An operation changes no class, and the zones it leaves are those of the board and its own.
LEMMA AppliedKeepsGround ==
  ASSUME NEW b, NEW op, IsBoard(b), GroundIsKept(b, b.zones),
         op.type = "zones" => GroundIsKept(b, op.zones)
  PROVE  LET next == Applied(b, op) IN next.class = b.class /\ GroundIsKept(next, next.zones)
<1> DEFINE next == Applied(b, op)
<1>1. next.class = b.class /\ next.zones = IF op.type = "zones" THEN b.zones \cup op.zones ELSE b.zones
  <2>1. CASE op.type = "place"
    <3>1. \E F, P : next = [b EXCEPT !.footprints = F, !.pads = P]
      BY <2>1 DEF Applied, Placed
    <3> QED BY <2>1, <3>1 DEF IsBoard
  <2>2. CASE op.type = "route"
    <3>1. \E R, V : next = [b EXCEPT !.routes = R, !.vias = V]
      BY <2>2 DEF Applied
    <3> QED BY <2>2, <3>1 DEF IsBoard
  <2>3. CASE op.type = "zones"
    <3>1. \E P : next = [b EXCEPT !.zones = b.zones \cup op.zones, !.pads = P]
      BY <2>3 DEF Applied
    <3> QED BY <2>3, <3>1 DEF IsBoard
  <2>4. CASE op.type = "stitch"
    <3>1. \E V : next = [b EXCEPT !.vias = V]
      BY <2>4 DEF Applied
    <3> QED BY <2>4, <3>1 DEF IsBoard
  <2>5. CASE op.type \notin {"place", "route", "zones", "stitch"}
    BY <2>5 DEF Applied
  <2> QED BY <2>1, <2>2, <2>3, <2>4, <2>5
<1> HIDE DEF next
<1>2. GroundClearance(next) = GroundClearance(b)
  BY <1>1 DEF GroundClearance
<1>3. GroundIsKept(next, next.zones)
  BY <1>1, <1>2 DEF GroundIsKept, OfNet
<1> QED BY <1>1, <1>3 DEF next

\* So it is after a proposal whose operations were executed.
LEMMA ApplyingKeepsGround ==
  ASSUME NEW b, NEW ops, IsBoard(b), Loadable(b), IsProposal(ops), ~Applying(b, ops).raised,
         GroundIsKept(b, b.zones),
         \A i \in DOMAIN ops : ops[i].type = "zones" => GroundIsKept(b, ops[i].zones)
  PROVE  LET after == Applying(b, ops).board IN after.class = b.class /\ GroundIsKept(after, after.zones)
<1> DEFINE Good(c) == /\ IsBoard(c.board) /\ Loadable(c.board) /\ c.board.class = b.class
                      /\ GroundIsKept(c.board, c.board.zones)
<1>1. Len(ops) \in Nat /\ DOMAIN ops = 1 .. Len(ops) /\ \A i \in DOMAIN ops : IsOp(ops[i])
  BY DEF IsProposal
<1>2. PICK copy : IsCopies(b, ops, copy, Len(ops)) /\ Applying(b, ops) = copy[Len(ops)]
  BY <1>1, ApplyingIs
<1> DEFINE G == {n \in Nat : ~copy[n].raised => Good(copy[n])}
<1>3. \A m \in 0 .. Len(ops) : copy[m] = IF m = 0 THEN Begun(b) ELSE Stepped(copy[m - 1], ops[m])
  BY <1>2 DEF IsCopies
<1>4. 0 \in G
  <2>1. copy[0] = Begun(b)
    BY <1>1, <1>3
  <2> QED BY <2>1 DEF Begun
<1>5. ASSUME NEW n \in 0 .. Len(ops) - 1, n \in G
      PROVE  n + 1 \in G
  <2> SUFFICES ASSUME ~copy[n + 1].raised PROVE Good(copy[n + 1])
    BY <1>1
  <2> DEFINE next == Applied(copy[n].board, ops[n + 1])
  <2>1. copy[n + 1] = Stepped(copy[n], ops[n + 1])
    <3>1. n + 1 \in 0 .. Len(ops) /\ n + 1 # 0 /\ (n + 1) - 1 = n
      BY <1>1
    <3> QED BY <3>1, <1>3
  <2>2. copy[n + 1].board = next /\ ~copy[n].raised /\ Loadable(next)
    <3> HIDE DEF next
    <3>1. /\ copy[n + 1].board = next
          /\ copy[n + 1].raised = (copy[n].raised \/ Refused(copy[n].board, ops[n + 1]) \/ ~Loadable(next))
      BY <2>1 DEF Stepped, next
    <3> QED BY <3>1
  <2>3. Good(copy[n])
    BY <2>2, <1>5
  <2>4. IsOp(ops[n + 1]) /\ (ops[n + 1].type = "zones" => GroundIsKept(b, ops[n + 1].zones))
    BY <1>1
  <2>5. ops[n + 1].type = "zones" => GroundIsKept(copy[n].board, ops[n + 1].zones)
    <3>1. copy[n].board.class = b.class
      BY <2>3
    <3>2. GroundClearance(copy[n].board) = GroundClearance(b)
      BY <3>1 DEF GroundClearance
    <3> QED BY <2>4, <3>1, <3>2 DEF GroundIsKept
  <2>6. IsBoard(next)
    BY <2>3, <2>4, AppliedIsBoard DEF Loadable
  <2>7. next.class = copy[n].board.class /\ GroundIsKept(next, next.zones)
    BY <2>3, <2>5, AppliedKeepsGround
  <2> HIDE DEF next
  <2> QED BY <2>2, <2>3, <2>6, <2>7
<1> HIDE DEF G, Good
<1>6. 0 .. Len(ops) \subseteq G
  BY <1>1, <1>4, <1>5, FromOn
<1>7. Len(ops) \in G
  BY <1>1, <1>6
<1> QED BY <1>2, <1>7 DEF G, Good

-----------------------------------------------------------------------------
(* The inductive invariant behind the meeting of planner and checker. *)

\* The boards and the zones drawn by hand.
GroundsAreKept ==
  /\ \A b \in Boards : GroundIsKept(b, b.zones)
  /\ \A b \in Boards, ops \in ByHand :
       \A i \in DOMAIN ops : ops[i].type = "zones" => GroundIsKept(b, ops[i].zones)

\* What has been poured is clear and joined, or a small tile was dropped; what is still to be
\* poured keeps out of the regions cut so far.
PourMeets(b, p) ==
  /\ p.phase = "idle" => p.zones = {}
  /\ p.phase \in {"layers", "cutting", "stitching"} =>
       /\ NoCopperFindings(b) /\ AreClear(b, p.zones)
       /\ IsJoinedPour(b, p.zones) \/ \E i \in p.islands : Area(i[2]) < MinIsland
  /\ p.phase = "cutting" =>
       /\ p.cut \cup p.left = ExcludedRegions(b, p.layer)
       /\ \A t \in p.tiles : \E all \in BoardRect(b) : InOutline(t, all)

\* Until the planner ends, ground is kept as on the boards to begin with.
MeetsInv ==
  /\ PlannerMeetsChecker
  /\ stage \in {"place", "hand"} => pour.phase = "idle"
  /\ stage = "pour" => proposal = NoProposal \/ proposal.by = "planner"
  /\ proposal.by = "planner" => pour.phase = "done"
  /\ pour.phase # "done" => GroundIsKept(board, board.zones) /\ \E b \in Boards : board.class = b.class
  /\ proposal.by # "planner" =>
       \A i \in DOMAIN proposal.ops : proposal.ops[i].type = "zones" => GroundIsKept(board, proposal.ops[i].zones)
  /\ PourMeets(board, pour)

\* A closed layer adds clear tiles, joined if none of those that were was dropped.
LEMMA ClosingMeets ==
  ASSUME IsBoard(board), Loadable(board), PouringSound(board, pour), PourMeets(board, pour),
         DOMAIN pour = DOMAIN PourIdle, CloseLayer
  PROVE  PourMeets(board, pour')
<1> DEFINE l == pour.layer
           tiles == pour.tiles
           anchored == AnchoredTiles(board, l, tiles)
           kept == {t \in tiles : t \in anchored /\ Area(t) >= MinIsland}
           more == {GroundZone(board, l, t) : t \in kept}
<1>1. /\ pour.phase = "cutting" /\ pour.left = {}
      /\ pour' = [pour EXCEPT !.phase = IF pour.todo = {} THEN "stitching" ELSE "layers",
                              !.tiles = {}, !.zones = @ \cup more,
                              !.islands = @ \cup {<<l, t>> : t \in tiles \ kept}]
  BY DEF CloseLayer
<1>2. /\ pour'.phase \in {"stitching", "layers"} /\ pour'.zones = pour.zones \cup more
      /\ pour'.islands = pour.islands \cup {<<l, t>> : t \in tiles \ kept}
  BY <1>1 DEF PourIdle
<1>3. /\ NoCopperFindings(board) /\ AreClear(board, pour.zones)
      /\ IsJoinedPour(board, pour.zones) \/ \E i \in pour.islands : Area(i[2]) < MinIsland
      /\ pour.cut = ExcludedRegions(board, l)
      /\ \A t \in tiles : \E all \in BoardRect(board) : InOutline(t, all)
  BY <1>1 DEF PourMeets
<1>4. /\ AreZones(pour.zones) /\ IsFiniteSet(tiles) /\ tiles \subseteq Rects
      /\ \A t \in tiles : t.w > 0 /\ t.h > 0
      /\ AreExact(tiles, BoardRect(board), pour.cut)
  BY <1>1 DEF PouringSound
<1>5. anchored \subseteq tiles
  <2>1. {t \in tiles : TouchesGround(board, l, t)} \in SUBSET tiles
    OBVIOUS
  <2> HIDE DEF tiles, l
  <2> QED BY <1>4, <2>1, ConnectedIsClosed DEF AnchoredTiles
<1> HIDE DEF anchored
<1>6. \A t \in tiles : IsClear(board, l, t)
  <2> SUFFICES ASSUME NEW t \in tiles, NEW r \in ExcludedRegions(board, l)
               PROVE  Cells(t) \cap Cells(r) = {}
    BY <1>3, <1>4 DEF IsClear
  <2>1. \A c : c \in Cells(t) => c \in UNION {Cells(u) : u \in tiles}
    OBVIOUS
  <2>2. \A c : c \in Cells(r) => c \in UNION {Cells(u) : u \in pour.cut}
    BY <1>3
  <2> QED BY <1>4, <2>1, <2>2 DEF AreExact
<1>7. AreClear(board, more)
  <2> SUFFICES ASSUME NEW t \in kept
               PROVE  LET z == GroundZone(board, l, t)
                      IN  \E m \in z.layers : z = GroundZone(board, m, z.bounds) /\ IsClear(board, m, z.bounds)
    BY DEF AreClear
  <2>1. GroundZone(board, l, t).layers = {l} /\ GroundZone(board, l, t).bounds = t
    BY DEF GroundZone
  <2> QED BY <1>6, <2>1
<1>8. AreClear(board, pour'.zones)
  BY <1>2, <1>3, <1>7 DEF AreClear
<1>9. ASSUME ~\E i \in pour'.islands : Area(i[2]) < MinIsland
      PROVE  IsJoinedPour(board, pour'.zones)
  <2>1. ~\E i \in pour.islands : Area(i[2]) < MinIsland
    BY <1>2, <1>9
  <2>2. IsJoinedPour(board, pour.zones)
    BY <1>3, <2>1
  <2>3. \A t \in tiles \ kept : ~(Area(t) < MinIsland)
    <3> SUFFICES ASSUME NEW t \in tiles \ kept, Area(t) < MinIsland PROVE FALSE
      OBVIOUS
    <3>1. <<l, t>> \in pour'.islands /\ <<l, t>>[2] = t
      BY <1>2
    <3> QED BY <1>9, <3>1
  <2>4. \A t \in tiles : Area(t) \in Int /\ MinIsland \in Int
    BY <1>4, CopperAssumption DEF Area, Rects
  <2>5. kept = anchored
    BY <1>5, <2>3, <2>4
  <2>6. more = {GroundZone(board, l, t) : t \in anchored}
    BY <2>5
  <2>7. IsFiniteSet(pour.zones)
    BY <1>4 DEF AreZones
  <2> HIDE DEF more, kept, tiles, l
  <2>8. IsJoinedPour(board, pour.zones \cup {GroundZone(board, l, t) : t \in AnchoredTiles(board, l, tiles)})
    BY <1>3, <1>4, <2>2, <2>7, ClosedIsJoined
  <2> QED BY <1>2, <2>6, <2>8 DEF anchored
<1> QED BY <1>2, <1>3, <1>8, <1>9 DEF PourMeets

\* The steps of the planner: what it checks at the end is what it has kept out of.
LEMMA PouringMeets ==
  ASSUME IInv, MeetsInv, Pouring
  PROVE  MeetsInv'
<1>1. /\ stage = "pour" /\ pour.phase # "done" /\ proposal = NoProposal /\ stage' = stage
      /\ IsBoard(board) /\ Loadable(board) /\ GroundIsKept(board, board.zones)
      /\ PourMeets(board, pour) /\ PouringSound(board, pour) /\ DOMAIN pour = DOMAIN PourIdle
      /\ \E b \in Boards : board.class = b.class
  BY DEF IInv, Pouring, Turns, MeetsInv
<1>2. DOMAIN pour = {"phase", "todo", "layer", "cut", "left", "tiles", "zones", "islands", "findings"}
  BY <1>1 DEF PourIdle
<1>3. NoProposal.by = "nobody" /\ DOMAIN NoProposal.ops = {}
  BY NoProposalIs
<1>4. ASSUME UNCHANGED adapterVars, pour'.phase = "done" => pour'.zones = {}, PourMeets(board, pour')
      PROVE  MeetsInv'
  <2>1. board' = board /\ proposal' = NoProposal /\ proposal'.by = "nobody" /\ DOMAIN proposal'.ops = {}
    BY <1>1, <1>3, <1>4 DEF adapterVars
  <2>2. PlannerMeetsChecker'
    BY <1>4 DEF PlannerMeetsChecker
  <2> QED BY <1>1, <1>4, <2>1, <2>2 DEF MeetsInv
<1>5. CASE PlanRefused
  <2>1. UNCHANGED adapterVars /\ pour.phase = "idle"
        /\ \E found : pour' = [pour EXCEPT !.phase = "done", !.findings = found]
    BY <1>5 DEF PlanRefused
  <2>2. pour'.phase = "done" /\ pour'.zones = pour.zones
    BY <1>2, <2>1
  <2>3. pour.zones = {}
    BY <1>1, <2>1 DEF PourMeets
  <2>4. PourMeets(board, pour')
    BY <2>2 DEF PourMeets
  <2> QED BY <1>4, <2>1, <2>2, <2>3, <2>4
<1>6. CASE PlanStarts
  <2>1. /\ UNCHANGED adapterVars /\ pour.phase = "idle" /\ Obstacles(board) = {}
        /\ pour' = [pour EXCEPT !.phase = "layers", !.todo = board.layers]
    BY <1>6 DEF PlanStarts
  <2>2. pour'.phase = "layers" /\ pour'.zones = {}
    BY <1>1, <1>2, <2>1 DEF PourMeets
  <2>3. NoCopperFindings(board)
    <3>1. {f \in Check(board) : f.rule \in CopperRules} = {}
      BY <2>1 DEF Obstacles
    <3> QED BY <3>1 DEF NoCopperFindings
  <2>4. AreClear(board, {}) /\ IsJoinedPour(board, {})
    BY DEF AreClear, IsJoinedPour
  <2> QED BY <1>4, <2>1, <2>2, <2>3, <2>4 DEF PourMeets
<1>7. CASE TakeLayer
  <2>1. UNCHANGED adapterVars /\ pour.phase = "layers"
    BY <1>7 DEF TakeLayer
  <2>2. PICK l \in pour.todo :
          pour' = [pour EXCEPT !.phase = "cutting", !.todo = @ \ {l}, !.layer = l, !.cut = {},
                               !.left = ExcludedRegions(board, l), !.tiles = BoardRect(board)]
    BY <1>7 DEF TakeLayer
  <2>3. /\ pour'.phase = "cutting" /\ pour'.layer = l /\ pour'.cut = {}
        /\ pour'.left = ExcludedRegions(board, l) /\ pour'.tiles = BoardRect(board)
        /\ pour'.zones = pour.zones /\ pour'.islands = pour.islands
    BY <1>2, <2>2
  <2>4. \A t \in BoardRect(board) : InOutline(t, t)
    BY <1>1, BoardRectIsRect DEF InOutline, Rects
  <2> QED BY <1>1, <1>4, <2>1, <2>3, <2>4 DEF PourMeets
<1>8. CASE CutRegion
  <2>1. UNCHANGED adapterVars /\ pour.phase = "cutting"
    BY <1>8 DEF CutRegion
  <2>2. PICK r \in pour.left :
          pour' = [pour EXCEPT !.left = @ \ {r}, !.cut = @ \cup {r},
                               !.tiles = UNION {Subtract(t, r) : t \in @}]
    BY <1>8 DEF CutRegion
  <2>3. /\ pour'.phase = "cutting" /\ pour'.layer = pour.layer /\ pour'.cut = pour.cut \cup {r}
        /\ pour'.left = pour.left \ {r} /\ pour'.tiles = UNION {Subtract(t, r) : t \in pour.tiles}
        /\ pour'.zones = pour.zones /\ pour'.islands = pour.islands
    BY <1>2, <2>1, <2>2
  <2>4. /\ pour.cut \cup pour.left = ExcludedRegions(board, pour.layer)
        /\ \A t \in pour.tiles : \E all \in BoardRect(board) : InOutline(t, all)
    BY <1>1, <2>1 DEF PourMeets
  <2>5. pour.tiles \subseteq Rects /\ r \in Rects /\ BoardRect(board) \subseteq Rects
    BY <1>1, <2>1, <2>2, BoardRectIsRect DEF PouringSound
  <2>6. \A t \in pour'.tiles : \E all \in BoardRect(board) : InOutline(t, all)
    <3> SUFFICES ASSUME NEW t \in pour.tiles, NEW s \in Subtract(t, r)
                 PROVE  \E all \in BoardRect(board) : InOutline(s, all)
      BY <2>3
    <3>1. PICK all \in BoardRect(board) : InOutline(t, all)
      BY <2>4
    <3>2. InOutline(s, all)
      BY <2>5, <3>1, SubtractLiesIn
    <3> QED BY <3>2
  <2>7. pour'.cut \cup pour'.left = ExcludedRegions(board, pour'.layer)
    BY <2>2, <2>3, <2>4
  <2> QED BY <1>1, <1>4, <2>1, <2>3, <2>6, <2>7 DEF PourMeets
<1>9. CASE CloseLayer
  <2>1. UNCHANGED adapterVars /\ PourMeets(board, pour')
    BY <1>1, <1>9, ClosingMeets DEF CloseLayer
  <2>2. pour'.phase # "done"
    BY <1>2, <1>9 DEF CloseLayer
  <2> QED BY <1>4, <2>1, <2>2
<1>10. CASE PlanEnds
  <2> DEFINE vias == StitchingVias(board, pour.zones)
             found == Check(Planned(board, pour.zones, vias))
  <2>1. /\ pour.phase = "stitching" /\ board' = board /\ outcome' = outcome
        /\ pour' = [pour EXCEPT !.phase = "done", !.findings = found]
        /\ proposal' = NoProposal \/ proposal'.by = "planner"
    BY <1>10 DEF PlanEnds, Planned
  <2>2. /\ pour'.phase = "done" /\ pour'.zones = pour.zones /\ pour'.islands = pour.islands
        /\ pour'.findings = found
    BY <1>2, <2>1
  <2>3. /\ BoardRect(board) # {} /\ GND \in DOMAIN board.class /\ IsFiniteSet(pour.zones)
    BY <1>1, <2>1 DEF PouringSound, AreZones
  <2>4. /\ NoCopperFindings(board) /\ AreClear(board, pour.zones)
        /\ IsJoinedPour(board, pour.zones) \/ \E i \in pour.islands : Area(i[2]) < MinIsland
    BY <1>1, <2>1 DEF PourMeets
  <2>5. CanPour(board, pour.zones)
    BY <1>1, <2>3, <2>4 DEF CanPour
  <2>6. IsFiniteSet(vias) /\ \A v \in vias : IsStitch(board, pour.zones, v)
    BY <1>1, <2>3, StitchingAreVias, StitchesAreFree DEF IsStitch
  <2> HIDE DEF vias
  <2>7. ASSUME NEW f \in found \ Check(board)
        PROVE  \/ f.rule = "PCB.COPPER.CONNECTIVITY" /\ \E i \in pour'.islands : Area(i[2]) < MinIsland
               \/ f = Finding("PCB_ROUTE_DISCONNECTED", GND)
    <3>1. \/ f = Finding("PCB_ROUTE_DISCONNECTED", GND)
          \/ f.rule = "PCB.COPPER.CONNECTIVITY" /\ ~IsJoinedPour(board, pour.zones)
      BY <2>3, <2>5, <2>6, <2>7, PlannedMeets
    <3> QED BY <2>2, <2>4, <3>1
  <2> HIDE DEF found
  <2>8. PlannerMeetsChecker'
    BY <2>1, <2>2, <2>7 DEF PlannerMeetsChecker
  <2>9. PourMeets(board, pour')
    BY <2>2 DEF PourMeets
  <2>10. proposal'.by # "planner" => DOMAIN proposal'.ops = {}
    BY <1>3, <2>1
  <2> QED BY <1>1, <2>1, <2>2, <2>8, <2>9, <2>10 DEF MeetsInv
<1> QED BY <1>5, <1>6, <1>7, <1>8, <1>9, <1>10 DEF Pouring

\* The solver draws no zones.
LEMMA PlacingMeets ==
  ASSUME IInv, MeetsInv, Placing
  PROVE  MeetsInv'
<1>1. /\ stage = "place" /\ place.phase # "done" /\ proposal = NoProposal
      /\ stage' = stage /\ pour' = pour
  BY DEF IInv, Placing, Turns
<1>2. pour.phase = "idle" /\ PourMeets(board, pour) /\ GroundIsKept(board, board.zones)
      /\ \E b \in Boards : board.class = b.class
  BY <1>1 DEF MeetsInv
<1>3. board' = board /\ proposal'.by # "planner"
      /\ \A i \in DOMAIN proposal'.ops : proposal'.ops[i].type # "zones"
  <2>1. CASE Place
    <3> DEFINE op == [type |-> "place", pos |-> place.best]
    <3>1. board' = board /\ proposal' = [by |-> "placer", ops |-> <<op>>]
      BY <2>1 DEF Place
    <3>2. op.type = "place"
      OBVIOUS
    <3> HIDE DEF op
    <3>3. proposal'.by = "placer" /\ DOMAIN proposal'.ops = {1} /\ proposal'.ops[1] = op
      BY <3>1
    <3> QED BY <3>1, <3>2, <3>3
  <2>2. CASE ~Place
    <3>1. board' = board /\ proposal' = NoProposal
      BY <1>1, <2>2 DEF Placing, SolveInfeasible, SolveBegins, SolveStart, Move, EndStart, adapterVars
    <3> QED BY <3>1, NoProposalIs
  <2> QED BY <2>1, <2>2
<1>4. PlannerMeetsChecker'
  BY <1>1 DEF PlannerMeetsChecker
<1> QED BY <1>1, <1>2, <1>3, <1>4 DEF MeetsInv

\* What is executed while the planner is still to come keeps ground as it was.
LEMMA ExecuteMeets ==
  ASSUME IInv, MeetsInv, Execute
  PROVE  MeetsInv'
<1> DEFINE end == Applying(board, proposal.ops)
           verdict == Verdict(board, end)
<1>1. /\ proposal.ops # <<>> /\ proposal' = NoProposal
      /\ outcome' = [by |-> proposal.by, verdict |-> verdict]
      /\ board' = IF verdict = "clean" THEN end.board ELSE board
      /\ pour' = pour /\ stage' = stage
  BY DEF Execute, Apply
<1>2. outcome'.by = proposal.by /\ proposal # NoProposal /\ proposal'.by = "nobody" /\ DOMAIN proposal'.ops = {}
  BY <1>1, NoProposalIs
<1>3. IsBoard(board) /\ Loadable(board) /\ IsProposal(proposal.ops)
  BY DEF IInv
<1>4. stage' = "pour" => outcome'.by = "planner"
  BY <1>1, <1>2 DEF MeetsInv
<1>5. PlannerMeetsChecker'
  BY <1>4 DEF PlannerMeetsChecker
<1>6. pour.phase \notin {"layers", "cutting", "stitching"}
  BY <1>2 DEF IInv, Turns
<1>7. PourMeets(board', pour')
  BY <1>1, <1>6 DEF MeetsInv, PourMeets
<1>8. verdict = "clean" => ~end.raised
  BY DEF Verdict
<1>9. pour.phase # "done" =>
        GroundIsKept(board', board'.zones) /\ \E b \in Boards : board'.class = b.class
  <2> SUFFICES ASSUME pour.phase # "done"
               PROVE  GroundIsKept(board', board'.zones) /\ \E b \in Boards : board'.class = b.class
    OBVIOUS
  <2>1. /\ GroundIsKept(board, board.zones) /\ \E b \in Boards : board.class = b.class
        /\ \A i \in DOMAIN proposal.ops :
             proposal.ops[i].type = "zones" => GroundIsKept(board, proposal.ops[i].zones)
    BY DEF MeetsInv
  <2>2. verdict = "clean" => end.board.class = board.class /\ GroundIsKept(end.board, end.board.zones)
    BY <1>3, <1>8, <2>1, ApplyingKeepsGround
  <2> HIDE DEF end, verdict
  <2> QED BY <1>1, <2>1, <2>2
<1> HIDE DEF end, verdict
<1> QED BY <1>1, <1>2, <1>5, <1>7, <1>9, <1>6 DEF MeetsInv

\* A client's zones keep ground, and the planner begins with nothing poured.
LEMMA TurnsMeet ==
  ASSUME GroundsAreKept, MeetsInv, Hand \/ Advance
  PROVE  MeetsInv'
<1>1. CASE Hand
  <2>1. PICK ops \in ByHand : proposal' = [by |-> "client", ops |-> ops]
    BY <1>1 DEF Hand
  <2>2. /\ board' = board /\ pour' = pour /\ stage' = stage /\ stage = "hand"
    BY <1>1 DEF Hand
  <2>3. proposal'.by = "client" /\ proposal'.ops = ops
    BY <2>1
  <2>4. PICK b \in Boards : board.class = b.class
    BY <2>2 DEF MeetsInv
  <2>5. \A i \in DOMAIN ops : ops[i].type = "zones" => GroundIsKept(board, ops[i].zones)
    <3>1. GroundClearance(board) = GroundClearance(b)
      BY <2>4 DEF GroundClearance
    <3> QED BY <2>4, <3>1 DEF GroundsAreKept, GroundIsKept
  <2>6. PlannerMeetsChecker'
    BY <2>2 DEF PlannerMeetsChecker
  <2> QED BY <2>2, <2>3, <2>5, <2>6 DEF MeetsInv
<1>2. CASE Advance
  <2>1. /\ proposal = NoProposal /\ proposal' = proposal /\ board' = board /\ pour' = pour
        /\ \/ stage = "place" /\ stage' = "hand"
           \/ stage = "hand" /\ stage' = "pour"
           \/ stage = "pour" /\ stage' = "end"
    BY <1>2 DEF Advance, adapterVars
  <2>2. PlannerMeetsChecker'
    BY <2>1 DEF PlannerMeetsChecker, MeetsInv
  <2> QED BY <2>1, <2>2 DEF MeetsInv
<1> QED BY <1>1, <1>2

-----------------------------------------------------------------------------
(* The theorems. *)

\* Whatever the tools and a client propose, in whatever order, the candidate's board stays one that
\* BoardSnapshot loads: ids are unique, everything lies inside the outline, references resolve.
THEOREM BoardStaysLoadable == Spec => [](IsBoard(board) /\ Loadable(board))
<1>1. IInv => IsBoard(board) /\ Loadable(board)
  BY DEF IInv
<1> QED BY <1>1, SoundnessIsInductive, PTL

\* While the regions of a layer are cut out one after another, the tiles cover the rest of the
\* board exactly, each cell once, whatever the regions (CutRegion and subtract_rect).
THEOREM TilesAreExactAlways == Spec => []TilesAreExact
<1>1. IInv => TilesAreExact
  BY DEF IInv, PouringSound, AreExact, TilesAreExact
<1> QED BY <1>1, SoundnessIsInductive, PTL

\* The placement a solver offers satisfies the checker, keeps what is locked and is no worse than
\* the one it started from, on every board and after any number of starts and moves.
THEOREM PlacementIsLegalAlways == Spec => []PlacementIsLegal
<1>1. ASSUME IInv
      PROVE  PlacementIsLegal
  <2> SUFFICES ASSUME proposal.by = "placer" PROVE PlacementIsLegal
    BY DEF PlacementIsLegal
  <2> DEFINE pos == proposal.ops[1].pos
  <2>1. IsBoard(board) /\ Loadable(board) /\ IsSound(board, pos) /\ NoWorse(board, pos, place.first)
    BY <1>1 DEF IInv, Offered
  <2> HIDE DEF pos
  <2>2. \A f \in Placed(board, pos).footprints : IsEven(f) =>
          Finding("PCB_KEEPOUT_FOOTPRINT", f.id) \notin FootprintKeepoutFindings(Placed(board, pos))
    BY <2>1, SoundKeepsOut
  <2>3. \A f, g \in Placed(board, pos).footprints :
          f.id # g.id => Cells(FootprintBounds(f)) \cap Cells(FootprintBounds(g)) = {}
    BY <2>1, SoundKeepsApart
  <2>4. KeepsLocked(board, Placed(board, pos))
    BY <2>1, SoundKeepsLocked
  <2>5. ScoreLayout(board, pos) <= ScoreLayout(board, place.first)
    BY <2>1 DEF NoWorse
  <2> QED BY <2>2, <2>3, <2>4, <2>5 DEF PlacementIsLegal, pos
<1>2. IInv => PlacementIsLegal
  BY <1>1
<1> QED BY <1>2, SoundnessIsInductive, PTL

\* What a tool proposes is executed as it was meant, on every set of boards, whatever the
\* operations a client sends in between: a sound placement raises no error, announces every change
\* and keeps what is locked, and a plan the checker found clean is clean on the board it leads to.
\* The boards are those with the pads inside their footprints, and neither they nor the client use
\* an id the planner may give (Verdict, PlacementSolver.solve and CopperPlanner.plan).
THEOREM ProposalsAreExecutedAlways ==
  ASSUME \A b \in Boards : PadsInside(b) /\ Unpoured(Objects(b)),
         \A ops \in ByHand : \A i \in DOMAIN ops : Unpoured(NewObjects(ops[i]))
  PROVE  Spec => []ProposalsAreExecuted
<1>1. PadsAreInside /\ NothingPoured
  BY DEF PadsAreInside, NothingPoured
<1>2. Init => OffersInv
  BY <1>1, InitOffers
<1>3. IInv /\ OffersInv /\ [Next]_vars => OffersInv'
  <2> SUFFICES ASSUME IInv, OffersInv, [Next]_vars PROVE OffersInv'
    OBVIOUS
  <2>1. CASE UNCHANGED vars
    <3>1. /\ board' = board /\ proposal' = proposal /\ outcome' = outcome
          /\ place' = place /\ pour' = pour /\ stage' = stage
      BY <2>1 DEF vars, adapterVars
    <3> QED BY <3>1 DEF OffersInv, ProposalsAreExecuted
  <2> QED BY <1>1, <2>1, PlacingOffers, PouringOffers, ExecuteOffers, TurnsOffer DEF Next
<1>4. OffersInv => ProposalsAreExecuted
  BY DEF OffersInv
<1> QED BY <1>2, <1>3, <1>4, SoundnessIsInductive, PTL DEF Spec

\* The rectangles the planner keeps out of are wide enough for every rule of the checker, on every
\* set of boards and after whatever a client did to them: the plan it has checked adds no finding of
\* clearance, keepout or edge, none of connectivity unless it dropped a small tile, and disconnects
\* no net but ground.  Ground zones have the clearance of their class at least, and that is no more
\* than copper keeps from the edge (CopperPlanner.plan, _stitching_blocked and BoardRuleChecker).
THEOREM PlannerMeetsCheckerAlways ==
  ASSUME \A b \in Boards : GroundIsKept(b, b.zones),
         \A b \in Boards, ops \in ByHand :
           \A i \in DOMAIN ops : ops[i].type = "zones" => GroundIsKept(b, ops[i].zones)
  PROVE  Spec => []PlannerMeetsChecker
<1>1. GroundsAreKept
  BY DEF GroundsAreKept
<1>2. Init => MeetsInv
  <2> SUFFICES ASSUME Init PROVE MeetsInv
    OBVIOUS
  <2>1. /\ board \in Boards /\ proposal = NoProposal /\ stage = "place"
        /\ pour.phase = "idle" /\ pour.zones = {}
    BY DEF Init, PourIdle
  <2>2. proposal.by = "nobody" /\ DOMAIN proposal.ops = {}
    BY <2>1, NoProposalIs
  <2>3. GroundIsKept(board, board.zones)
    BY <1>1, <2>1 DEF GroundsAreKept
  <2> QED BY <2>1, <2>2, <2>3 DEF MeetsInv, PlannerMeetsChecker, PourMeets
<1>3. IInv /\ MeetsInv /\ [Next]_vars => MeetsInv'
  <2> SUFFICES ASSUME IInv, MeetsInv, [Next]_vars PROVE MeetsInv'
    OBVIOUS
  <2>1. CASE UNCHANGED vars
    <3>1. /\ board' = board /\ proposal' = proposal /\ outcome' = outcome
          /\ pour' = pour /\ stage' = stage
      BY <2>1 DEF vars, adapterVars
    <3> QED BY <3>1 DEF MeetsInv, PlannerMeetsChecker
  <2> QED BY <1>1, <2>1, PlacingMeets, PouringMeets, ExecuteMeets, TurnsMeet DEF Next
<1>4. MeetsInv => PlannerMeetsChecker
  BY DEF MeetsInv
<1> QED BY <1>2, <1>3, <1>4, SoundnessIsInductive, PTL DEF Spec
=============================================================================
