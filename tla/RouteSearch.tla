---------------------------- MODULE RouteSearch ----------------------------
(***************************************************************************)
(* How the router of routing.py finds a way for one net: _route_net joins  *)
(* its pads one after the other, each pair by _astar over the points of    *)
(* the routing grid and the layers.                                        *)
(*                                                                         *)
(* The search returns some cheapest way; which of several is settled by    *)
(* the order of a heap, so here it is any of them.  Its heuristic never    *)
(* exceeds the cost as long as a grid step is no longer than 1000          *)
(* micrometres, which is what makes the way found a cheapest one.          *)
(***************************************************************************)
EXTENDS BoardAdapter

CONSTANTS
  Step,         \* routing.grid_step_um
  RoutingEdge,  \* routing.edge_clearance_um
  MaxNetVias,   \* routing.max_vias_per_net
  Width,        \* [net class -> min_width_um]
  ViaSize,      \* [net class -> min_via_diameter_um]
  PadOrder      \* the ids of the pads, sorted

ASSUME StepAssumption == Step \in Nat \ {0} /\ RoutingEdge \in Nat /\ MaxNetVias \in Nat
ASSUME WidthAssumption == \A c \in DOMAIN Clearance : Width[c] \in Nat /\ ViaSize[c] \in Nat
ASSUME OrderAssumption == PadOrder \in Seq(Range(PadOrder)) /\ IsInjective(PadOrder)

GridPoints(b) == {Point(x, y) : x \in {c \in b.outline.x .. b.outline.x + b.outline.w : c % Step = 0},
                                y \in {c \in b.outline.y .. b.outline.y + b.outline.h : c % Step = 0}}

OnGrid(p) == p.x % Step = 0 /\ p.y % Step = 0

\* The keepouts of a layer that keep a net's routes out.
RouteKeepouts(b, n, layer) ==
  {k \in b.keepouts : /\ layer \in k.layers
                      /\ \/ k.prohibited \cap {"route", "unrelated_route"} # {}
                         \/ b.class[n] = "quiet_signal" /\ "quiet_signal_route" \in k.prohibited}

\* The bodies in the way: those of the footprints whose pads are being joined are not.
Bodies(b, layer, own) == {FootprintBounds(f) : f \in {f \in b.footprints : f.layer = layer /\ f.id \notin own}}

\* What another net has on a layer; of the zones only the locked ones.
Others(s, n, layer) == {o \in s : o.net # n /\ layer \in o.layers}
LockedZones(b, n, layer) == {z \in Others(b.zones, n, layer) : z.lock}

Gap(b, n, o) == Clearance[b.class[n]] + NetClearance(b, o.net)
ZoneGap(b, n, z) == Clearance[b.class[n]] + Max({z.clearance, NetClearance(b, z.net)})

Blocked(b, n, p, layer, own, radius) ==
  \/ p.x < b.outline.x + RoutingEdge \/ p.x > b.outline.x + b.outline.w - RoutingEdge
  \/ p.y < b.outline.y + RoutingEdge \/ p.y > b.outline.y + b.outline.h - RoutingEdge
  \/ \E k \in RouteKeepouts(b, n, layer) : PointRectWithin(p, k.bounds, radius)
  \/ \E r \in Bodies(b, layer, own) : PointRectWithin(p, r, radius)
  \/ \E o \in Others(b.pads, n, layer) : PointRectWithin(p, PadBounds(o), radius + Gap(b, n, o))
  \/ \E o \in Others(b.routes, n, layer) :
       PointSegmentWithin(p, o.start, o.end, radius + o.width \div 2 + Gap(b, n, o))
  \/ \E o \in Others(b.vias, n, layer) :
       PointDistanceWithin(p, o.pos, radius + o.diameter \div 2 + Gap(b, n, o))
  \/ \E z \in LockedZones(b, n, layer) : PointRectWithin(p, z.bounds, radius + ZoneGap(b, n, z))

\* Mutant: a move is legal between two legal points.
PointsSuffice(b, n, p, q, layer, own) == FALSE

EdgeBlocked(b, n, p, q, layer, own) ==
  LET radius == Width[b.class[n]] \div 2 IN
  \/ \E k \in RouteKeepouts(b, n, layer) : SegmentRectWithin(p, q, k.bounds, radius)
  \/ \E r \in Bodies(b, layer, own) : SegmentRectWithin(p, q, r, radius)
  \/ \E o \in Others(b.pads, n, layer) : SegmentRectWithin(p, q, PadBounds(o), radius + Gap(b, n, o))
  \/ \E o \in Others(b.routes, n, layer) :
       SegmentsWithin(p, q, o.start, o.end, radius + o.width \div 2 + Gap(b, n, o))
  \/ \E o \in Others(b.vias, n, layer) :
       PointSegmentWithin(o.pos, p, q, radius + o.diameter \div 2 + Gap(b, n, o))
  \/ \E z \in LockedZones(b, n, layer) : SegmentRectWithin(p, q, z.bounds, radius + ZoneGap(b, n, z))

\* What a point costs beyond the move to it.  cong counts the ways that went through it.
Penalty(b, p, layer, cong) ==
  LET here == {k \in b.keepouts : layer \in k.layers}
      grown(r) == Rect(r.x - Step, r.y - Step, r.w + 2 * Step, r.h + 2 * Step)
      ground == {z \in OfNet(b.zones, GND) : z.lock /\ layer \in z.layers /\ RectContains(z.bounds, p)}
  IN  2000 * Cardinality({k \in here : k.kind = "quiet_zone" /\ RectContains(k.bounds, p)})
        + 200 * Cardinality({k \in here : RectContains(grown(k.bounds), p)})
        + 500 * Cardinality(ground)
        + 1000 * (IF <<p, layer>> \in DOMAIN cong THEN cong[<<p, layer>>] ELSE 0)

\* The moves the search may make: along the grid on a layer, or through a via.
Moves(b, n, own, cong) ==
  LET free == {s \in GridPoints(b) \X b.layers :
                 ~Blocked(b, n, s[1], s[2], own, Width[b.class[n]] \div 2)}
      near(p) == {Point(p.x + dx, p.y + dy) : dx \in {-Step, 0, Step}, dy \in {-Step, 0, Step}} \ {p}
      along == {m \in UNION {{<<p, s>> : p \in near(s[1]) \cap GridPoints(b)} : s \in free} :
                  ~EdgeBlocked(b, n, m[1], m[2][1], m[2][2], own)}
      bored == {p \in GridPoints(b) :
                  \A l \in b.layers : ~Blocked(b, n, p, l, own, ViaSize[b.class[n]] \div 2)}
  IN  {[from |-> <<m[1], m[2][2]>>, to |-> m[2], via |-> 0,
        cost |-> (IF m[1].x # m[2][1].x /\ m[1].y # m[2][1].y THEN 1414 ELSE 1000)
                   + Penalty(b, m[2][1], m[2][2], cong)] : m \in along}
      \cup {[from |-> <<p, q[1]>>, to |-> <<p, q[2]>>, via |-> 1, cost |-> 25000] :
              p \in bored, q \in {q \in b.layers \X b.layers : q[1] # q[2]}}

\* A place is <<point, layer>>; the search also counts the vias that led to it.  What is reached
\* with one move more than the places in fresh, and at which cost.
Reached(moves, fresh, vias) ==
  {<<<<t[1].to, t[2][2] + t[1].via>>, fresh[t[2]] + t[1].cost>> :
     t \in {t \in moves \X DOMAIN fresh : t[1].from = t[2][1] /\ t[2][2] + t[1].via <= vias}}

\* The cheapest of those that are cheaper than what is known, by place.
Cheaper(cost, reached) ==
  LET better == {r \in reached : r[1] \in DOMAIN cost => r[2] < cost[r[1]]}
  IN  [s \in {r[1] : r \in better} |-> Min({r[2] : r \in {r \in better : r[1] = s}})]

\* A function with the values another one has where it is defined.
Over(old, new) ==
  [x \in DOMAIN old \cup DOMAIN new |-> IF x \in DOMAIN new THEN new[x] ELSE old[x]]

\* The least cost of every place the moves lead to from those in begin, which cost nothing: after
\* n rounds the ways of at most n moves are counted, and a cheapest way comes to no place twice.
LeastCosts(b, moves, begin, vias) ==
  LET most == Cardinality(GridPoints(b)) * Cardinality(b.layers) * (MaxNetVias + 1)
      round[n \in 0 .. most] ==
        IF n = 0 THEN [cost |-> begin, fresh |-> begin]
        ELSE LET last == round[n - 1]
                 fresh == Cheaper(last.cost, Reached(moves, last.fresh, vias))
             IN  IF last.fresh = <<>> THEN last ELSE [cost |-> Over(last.cost, fresh), fresh |-> fresh]
  IN  round[most].cost

\* The cheapest ways to the cheapest of the goals, along moves that each cost what they add.
Cheapest(moves, begin, cost, goals) ==
  LET before(m, s) == <<m.from, s[2] - m.via>>
      into(s) == {m \in moves : /\ m.to = s[1] /\ before(m, s) \in DOMAIN cost
                                /\ cost[before(m, s)] + m.cost = cost[s]}
      ways[n \in 0 .. Cardinality(DOMAIN cost)] ==
        [s \in DOMAIN cost |->
           IF s \in DOMAIN begin THEN {<<s[1]>>}
           ELSE IF n = 0 THEN {}
           ELSE UNION {{Append(w, s[1]) : w \in ways[n - 1][before(m, s)]} : m \in into(s)}]
  IN  UNION {ways[Cardinality(DOMAIN cost)][g] : g \in {g \in goals : \A o \in goals : cost[g] <= cost[o]}}

\* The cheapest ways from one pad to another with at most vias vias, sequences of places.
CheapestWays(b, n, start, target, cong, vias) ==
  LET begin == [s \in {<<<<start.pos, l>>, 0>> : l \in start.layers} |-> 0]
      goals(cost) == {g \in DOMAIN cost : g[1][1] = target.pos /\ g[1][2] \in target.layers}
      ways(moves) == UNION {Cheapest(moves, begin, cost, goals(cost)) :
                              cost \in {LeastCosts(b, moves, begin, vias)}}
  IN  UNION {ways(moves) : moves \in {Moves(b, n, {start.fp, target.fp}, cong)}}

ViasOf(way) == Cardinality({i \in 1 .. Len(way) - 1 : way[i][2] # way[i + 1][2]})

NoWay == <<>>

\* The members of a finite set of numbers, in their order.
Ascending(S) ==
  [k \in 1 .. Cardinality(S) |-> CHOOSE i \in S : Cardinality({j \in S : j <= i}) = k]

\* The pads of a net in the order of their ids.
PadsInOrder(b, n) ==
  LET order == Ascending({i \in DOMAIN PadOrder : \E p \in OfNet(b.pads, n) : p.id = PadOrder[i]})
  IN  [k \in DOMAIN order |-> CHOOSE p \in b.pads : p.id = PadOrder[order[k]]]

\* The ways of a net, a sequence of them for each outcome the search may have: from the first pad
\* to the second, from there to the third, with the vias the earlier ones left.
NetWays(b, n, cong) ==
  LET pads == PadsInOrder(b, n)
      extended(t, i) ==
        LET next == CheapestWays(b, n, pads[i], pads[i + 1], cong, t.left)
        IN  IF next = {} THEN {[t EXCEPT !.ways = NoWay]}
            ELSE {[ways |-> Append(t.ways, w), left |-> t.left - ViasOf(w)] : w \in next}
      joined[i \in 0 .. Len(pads) - 1] ==
        IF i = 0 THEN {[ways |-> NoWay, left |-> MaxNetVias]}
        ELSE UNION {IF i > 1 /\ t.ways = NoWay THEN {t} ELSE extended(t, i) : t \in joined[i - 1]}
  IN  {t.ways : t \in joined[Len(pads) - 1]}

-----------------------------------------------------------------------------
(* The copper of a way.                                                    *)

\* _fresh_id: a name, with the first number no route or via of the board has with it.
FreshId(name, used) ==
  LET free == {k \in 1 .. Cardinality(used) + 1 : Append(name, k) \notin used}
  IN  Append(name, Min(free))

\* Where a way turns, changes its layer, begins or ends.
Turns(way) ==
  LET step(i) == Point(way[i + 1][1].x - way[i][1].x, way[i + 1][1].y - way[i][1].y)
  IN  {i \in 1 .. Len(way) : i \in {1, Len(way)} \/ step(i - 1) # step(i)}

\* Where a run begins, which ends at the next turn.
RunStarts(way) == {i \in Turns(way) \ {Len(way)} : way[i][1] # way[i + 1][1]}
RunEnd(way, i) == Min({j \in Turns(way) : j > i})

\* Mutant: the run that is open when the way ends is lost.
RunsBeforeLast(way) ==
  LET starts == Ascending({i \in RunStarts(way) : RunEnd(way, i) # Len(way)})
  IN  [k \in DOMAIN starts |-> <<way[starts[k]], way[RunEnd(way, starts[k])]>>]

\* The straight runs of a way, in its order.
Runs(way) ==
  LET starts == Ascending(RunStarts(way))
  IN  [k \in DOMAIN starts |-> <<way[starts[k]], way[RunEnd(way, starts[k])]>>]

\* The places where a way leaves its layer.
Bores(way) ==
  LET at == Ascending({i \in 1 .. Len(way) - 1 : way[i][2] # way[i + 1][2]})
  IN  [k \in DOMAIN at |-> way[at[k]]]

\* The routes and vias of the ways of a net, named after the net and numbered.
Copper(b, n, ways) ==
  LET used == {o.id : o \in b.routes \cup b.vias}
      runs == FlattenSeq([i \in 1 .. Len(ways) |-> Runs(ways[i])])
      bores == FlattenSeq([i \in 1 .. Len(ways) |-> Bores(ways[i])])
  IN  [segments |-> {[kind |-> "route", id |-> FreshId(<<"route", n, i>>, used), net |-> n,
                      start |-> runs[i][1][1], end |-> runs[i][2][1], width |-> Width[b.class[n]],
                      layers |-> {runs[i][1][2]}, lock |-> FALSE] : i \in DOMAIN runs},
       vias |-> {[kind |-> "via", id |-> FreshId(<<"via", n, i>>, used), net |-> n,
                  pos |-> bores[i][1], diameter |-> ViaSize[b.class[n]], layers |-> b.layers,
                  lock |-> FALSE] : i \in DOMAIN bores}]

Recorded(cong, ways) ==
  LET places == FlattenSeq(ways)
      count(s) == Cardinality({i \in DOMAIN places : places[i] = s})
  IN  [s \in DOMAIN cong \cup Range(places) |-> count(s) + IF s \in DOMAIN cong THEN cong[s] ELSE 0]
=============================================================================
