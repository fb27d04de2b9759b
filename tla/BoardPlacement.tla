--------------------------- MODULE BoardPlacement ---------------------------
(***************************************************************************)
(* PlacementSolver.solve of placement.py: positions that satisfy the hard  *)
(* constraints, improved by moving one footprint at a time.                *)
(*                                                                         *)
(* The constraint solver is external: it answers with some assignment of   *)
(* legal cells that does not overlap and moves the footprints least, among *)
(* those not excluded.  The random choices of the annealing are any        *)
(* choices.                                                                *)
(***************************************************************************)
EXTENDS BoardAdapter

CONSTANTS
  Grid,        \* _GRID_UM: the pitch of the candidate cells
  Starts,      \* the starts solve() is called with
  Iterations,  \* its iterations
  Connectors   \* the footprints whose id begins with J_

ASSUME GridAssumption == Grid \in Nat \ {0}
ASSUME StartsAssumption == Starts \in Nat \ {0} /\ Iterations \in Nat

VARIABLE
  place  \* [phase, cells, first, run, step, current, best, used]

\* phase: "idle" | "start" | "move" | "done"; cells, where each footprint may be; first, best and
\* current, placements; used, those a start began from.
PlaceIdle == [phase |-> "idle", cells |-> <<>>, first |-> <<>>, run |-> 0, step |-> 0, current |-> <<>>,
              best |-> <<>>, used |-> {}]

FootprintIds(b) == {f.id : f \in b.footprints}
FootprintOf(b, i) == CHOOSE f \in b.footprints : f.id = i

-----------------------------------------------------------------------------
(* Where a footprint may be.  The bounds are doubled so that the half      *)
(* sizes are exact.                                                        *)

DoubledBounds(f, p) == Rect(2 * p.x - f.w, 2 * p.y - f.h, 2 * f.w, 2 * f.h)
Doubled(r) == Rect(2 * r.x, 2 * r.y, 2 * r.w, 2 * r.h)

WithNetClass(b, class) == {p.fp : p \in {p \in b.pads : p.net # NoNet /\ b.class[p.net] = class}}

IsLegal(b, f, p) ==
  LET bounds == DoubledBounds(f, p) IN
  /\ InOutline(bounds, Doubled(b.outline))
  /\ \A k \in b.keepouts : f.layer \in k.layers =>
       LET meets == RectsIntersect(bounds, Doubled(k.bounds)) IN
       /\ "footprint" \in k.prohibited /\ k.id \notin f.keepouts => ~meets
       /\ k.kind \in {"crystal_near_field", "power_zone"} /\ k.id \in f.keepouts => meets
  /\ f.id \in WithNetClass(b, "quiet_signal") =>
       \A k \in b.keepouts : k.kind = "power_zone" => ~RectsIntersect(bounds, Doubled(k.bounds))

LegalCells(b, f) ==
  LET from(lo, size) == (2 * lo + size + 1) \div 2
      upTo(hi, size) == (2 * hi - size) \div 2
      line(lo, len, size) == {c \in from(lo, size) .. upTo(lo + len, size) :
                                (c - from(lo, size)) % Grid = 0}
      cells == IF f.lock THEN {f.pos}
               ELSE {f.pos} \cup {Point(x, y) : x \in line(b.outline.x, b.outline.w, f.w),
                                                y \in line(b.outline.y, b.outline.h, f.h)}
  IN  {p \in cells : IsLegal(b, f, p)}

CellsOf(b) == [i \in FootprintIds(b) |-> LegalCells(b, FootprintOf(b, i))]

\* A mutant: touching is not overlapping.
HasOverlap_Apart(b, pos) ==
  \E f, g \in b.footprints :
    LET r == DoubledBounds(f, pos[f.id])  s == DoubledBounds(g, pos[g.id])
    IN  f.id # g.id /\ r.x + r.w < s.x /\ r.y + r.h < s.y

HasOverlap(b, pos) ==
  \E f, g \in b.footprints : /\ f.id # g.id
                             /\ RectsIntersect(DoubledBounds(f, pos[f.id]), DoubledBounds(g, pos[g.id]))

-----------------------------------------------------------------------------
(* The score of a layout: six costs of where the pads end up.              *)

NetPoints(b, pos, n) ==
  {Point(p.pos.x + pos[p.fp].x - FootprintOf(b, p.fp).pos.x,
         p.pos.y + pos[p.fp].y - FootprintOf(b, p.fp).pos.y) : p \in OfNet(b.pads, n)}

Apart(p, q) == Dist(p.x, q.x) + Dist(p.y, q.y)

\* The shortest way from a point of in to a point of out.
Nearest(in, out) ==
  CHOOSE e \in in \X out : \A f \in in \X out : Apart(e[1], e[2]) <= Apart(f[1], f[2])

\* The length of a shortest spanning tree, one nearest point at a time.
Spanning(points) ==
  LET tree[n \in 1 .. Cardinality(points)] ==
        IF n = 1 THEN [in |-> {CHOOSE p \in points : TRUE}, length |-> 0]
        ELSE LET last == tree[n - 1]
                 e == Nearest(last.in, points \ last.in)
             IN  [in |-> last.in \cup {e[2]}, length |-> last.length + Apart(e[1], e[2])]
  IN  IF Cardinality(points) < 2 THEN 0 ELSE tree[Cardinality(points)].length

RoutedNets(b) == {n \in DOMAIN b.class : OfNet(b.pads, n) # {}}
CriticalNets(b) == {n \in RoutedNets(b) : b.class[n] \in {"quiet_signal", "logic_power"}}

Span(b, pos, n) == Spanning(NetPoints(b, pos, n))
Weight(class) == CASE class = "load_power" -> 4 [] class = "logic_power" -> 3
                   [] class = "quiet_signal" -> 2 [] OTHER -> 1

PowerPoints(b, pos) ==
  UNION {NetPoints(b, pos, n) : n \in {n \in RoutedNets(b) : b.class[n] = "load_power"}}

Extent(values) == Max(values) - Min(values)

PowerLoop(points) ==
  IF Cardinality(points) < 2 THEN 0
  ELSE (Extent({p.x : p \in points}) * Extent({p.y : p \in points})) \div 1000

PlacedBounds(b, pos, i) == DoubledBounds(FootprintOf(b, i), pos[i])

Noisy(b, pos) ==
  {i \in WithNetClass(b, "quiet_signal") :
     \E k \in b.keepouts : /\ k.kind = "power_zone"
                           /\ RectsIntersect(PlacedBounds(b, pos, i), Doubled(k.bounds))}

HotPairs(b) == {q \in SUBSET WithNetClass(b, "load_power") : Cardinality(q) = 2}

\* By how much two hot footprints are too close.
Crowding(b, pos, q) ==
  LET i == CHOOSE i \in q : TRUE
      j == CHOOSE j \in q : j # i
  IN  Most(0, Least(b.outline.w, b.outline.h) \div 4 - Apart(pos[i], pos[j]))

\* How far a connector is from the nearest edge.
Inset(b, pos, i) ==
  LET r == PlacedBounds(b, pos, i)
      o == Doubled(b.outline)
  IN  Least(Least(r.x - o.x, r.y - o.y), Least(o.x + o.w - r.x - r.w, o.y + o.h - r.y - r.h))

ScoreLayout(b, pos) ==
  100 * SumFunction([n \in RoutedNets(b) |-> Weight(b.class[n]) * Span(b, pos, n)])
    + 250 * SumFunction([n \in CriticalNets(b) |-> Span(b, pos, n)])
    + 400 * PowerLoop(PowerPoints(b, pos))
    + 500 * Cardinality(Noisy(b, pos))
    + 150 * SumFunction([q \in HotPairs(b) |-> Crowding(b, pos, q)])
    + 75 * SumFunction([i \in Connectors \cap FootprintIds(b) |-> Inset(b, pos, i)])

-----------------------------------------------------------------------------
(* The search.                                                             *)

Displacement(b, pos) ==
  SumFunction([f \in {f \in b.footprints : ~f.lock} |-> 2 * Apart(pos[f.id], f.pos)])

\* The placements of cells that overlap nowhere and no start has begun from.
Feasible(b, cells, used) ==
  {pos \in [DOMAIN cells -> UNION {cells[i] : i \in DOMAIN cells}] :
     (\A i \in DOMAIN cells : pos[i] \in cells[i]) /\ ~HasOverlap(b, pos)} \ used

SolveCpSat(b, cells, used) ==
  LET all == Feasible(b, cells, used)
      least == Min({Displacement(b, pos) : pos \in all})
  IN  IF all = {} THEN {} ELSE {pos \in all : Displacement(b, pos) = least}

\* No legal cell for a footprint, or none for all together: a finding and no operation.
SolveInfeasible ==
  /\ place.phase = "idle"
  /\ LET cells == CellsOf(board) IN
     \/ \E i \in DOMAIN cells : cells[i] = {}
     \/ SolveCpSat(board, cells, {}) = {}
  /\ place' = [place EXCEPT !.phase = "done"]
  /\ UNCHANGED adapterVars

\* The first start is also the first of the best placements.
SolveBegins ==
  /\ place.phase = "idle"
  /\ LET cells == CellsOf(board) IN
     /\ \A i \in DOMAIN cells : cells[i] # {}
     /\ \E pos \in SolveCpSat(board, cells, {}) :
          place' = [phase |-> "move", cells |-> cells, first |-> pos, run |-> 1, step |-> 0,
                    current |-> pos, best |-> pos, used |-> {pos}]
  /\ UNCHANGED adapterVars

\* A later start begins from a placement no start has begun from.
SolveStart ==
  /\ place.phase = "start" /\ place.run < Starts
  /\ \E pos \in SolveCpSat(board, place.cells, place.used) :
       place' = [place EXCEPT !.phase = "move", !.run = @ + 1, !.step = 0, !.current = pos,
                              !.used = @ \cup {pos}]
  /\ UNCHANGED adapterVars

\* One random move: taken when nothing overlaps, and perhaps although the score is worse.
Move ==
  /\ place.phase = "move" /\ place.step < Iterations
  /\ \E f \in {f \in board.footprints : ~f.lock} : \E p \in place.cells[f.id] :
       LET next == [place.current EXCEPT ![f.id] = p] IN
       /\ ~HasOverlap(board, next)
       /\ place' = [place EXCEPT !.step = @ + 1, !.current = next]
  /\ UNCHANGED adapterVars

\* The iterations may end on any placement reached: a step can leave it unchanged.
EndStart ==
  /\ place.phase = "move"
  /\ LET better == ScoreLayout(board, place.current) - ScoreLayout(board, place.best) IN
     \E take \in {t \in BOOLEAN : (better < 0 => t) /\ (better > 0 => ~t)} :
       place' = [place EXCEPT !.phase = "start", !.best = IF take THEN place.current ELSE @]
  /\ UNCHANGED adapterVars

\* After the last start, or when the solver has no other start to offer.
Place ==
  /\ place.phase = "start"
  /\ place.run = Starts \/ SolveCpSat(board, place.cells, place.used) = {}
  /\ place' = [PlaceIdle EXCEPT !.phase = "done", !.first = place.first]
  /\ proposal' = [by |-> "placer", ops |-> <<[type |-> "place", pos |-> place.best]>>]
  /\ UNCHANGED <<board, outcome>>
=============================================================================
