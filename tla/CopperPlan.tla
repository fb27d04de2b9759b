----------------------------- MODULE CopperPlan -----------------------------
(***************************************************************************)
(* CopperPlanner.plan of copper.py: the ground pour of a board in          *)
(* rectangular tiles, cut around everything else, with stitching vias.     *)
(*                                                                         *)
(* Zones and vias get the next free number for an id; here their id is     *)
(* what they are, a layer and a rectangle or a point.  The order of the    *)
(* layers only numbers the zones: they are taken in any order.             *)
(***************************************************************************)
EXTENDS BoardAdapter

CONSTANTS
  Pitch,        \* copper.stitching_pitch_um
  MaxVias,      \* copper.max_stitching_vias
  ViaDiameter,  \* the via diameter of the ground class
  MinIsland     \* copper.min_island_area_um2

ASSUME CopperAssumption == /\ Pitch \in Nat \ {0} /\ MaxVias \in Nat
                           /\ ViaDiameter \in Nat \ {0} /\ MinIsland \in Nat \ {0}

VARIABLE
  pour  \* [phase, todo, layer, cut, left, tiles, zones, islands, findings]

\* phase: "idle" | "layers" | "cutting" | "stitching" | "done"; todo, the layers to come;
\* cut, the regions taken out of the tiles; left, those still to be taken out.
PourIdle == [phase |-> "idle", todo |-> {}, layer |-> "none", cut |-> {}, left |-> {}, tiles |-> {},
             zones |-> {}, islands |-> {}, findings |-> {}]

GroundClearance(b) == Clearance[b.class[GND]]

\* The board without its edge: a set with the rectangle, or empty.
BoardRect(b) ==
  LET w == b.outline.w - 2 * CopperEdge
      h == b.outline.h - 2 * CopperEdge
  IN  IF w < 1 \/ h < 1 THEN {} ELSE {Rect(b.outline.x + CopperEdge, b.outline.y + CopperEdge, w, h)}

\* A mutant: conductors are cleared by their own class only.
ExcludedRegions_Own(b, layer) ==
  LET ground == GroundClearance(b)
      on(s) == {o \in s : layer \in o.layers}
      foreign(s) == {o \in on(s) : o.net # GND}
      need(o) == ground + 1
      clip(r, d) == UNION {ExpandedClipped(r, d, all) : all \in BoardRect(b)}
  IN  UNION ({clip(k.bounds, ground + 1) : k \in {k \in on(b.keepouts) :
               "copper_zone" \in k.prohibited \/ k.kind \in SensitiveKinds}}
      \cup {clip(PadBounds(p), need(p)) : p \in foreign(b.pads)}
      \cup {clip(SegmentBounds(r.start, r.end, r.width \div 2), need(r)) : r \in foreign(b.routes)}
      \cup {clip(PointBounds(v.pos, v.diameter \div 2), need(v)) : v \in foreign(b.vias)}
      \cup {clip(z.bounds, ground + z.clearance + 1) : z \in foreign(b.zones)}
      \cup {clip(z.bounds, 0) : z \in {z \in on(b.zones) : z.net = GND}})

\* What a ground tile of a layer stays out of, one micrometre more than its clearance.
ExcludedRegions(b, layer) ==
  LET ground == GroundClearance(b)
      on(s) == {o \in s : layer \in o.layers}
      foreign(s) == {o \in on(s) : o.net # GND}
      need(o) == ground + NetClearance(b, o.net) + 1
      clip(r, d) == UNION {ExpandedClipped(r, d, all) : all \in BoardRect(b)}
  IN  UNION ({clip(k.bounds, ground + 1) : k \in {k \in on(b.keepouts) :
               "copper_zone" \in k.prohibited \/ k.kind \in SensitiveKinds}}
      \cup {clip(PadBounds(p), need(p)) : p \in foreign(b.pads)}
      \cup {clip(SegmentBounds(r.start, r.end, r.width \div 2), need(r)) : r \in foreign(b.routes)}
      \cup {clip(PointBounds(v.pos, v.diameter \div 2), need(v)) : v \in foreign(b.vias)}
      \cup {clip(z.bounds, ground + z.clearance + 1) : z \in foreign(b.zones)}
      \cup {clip(z.bounds, 0) : z \in {z \in on(b.zones) : z.net = GND}})

\* A tile of a layer against or over existing ground copper.
TouchesGround(b, layer, tile) ==
  LET on(s) == {o \in OfNet(s, GND) : layer \in o.layers} IN
  \/ \E z \in on(b.zones) : RectsConnected(tile, z.bounds)
  \/ \E p \in on(b.pads) : PointRectWithin(p.pos, tile, PadReach(p))
  \/ \E r \in on(b.routes) : SegmentRectWithin(r.start, r.end, tile, r.width \div 2)
  \/ \E v \in on(b.vias) : PointRectWithin(v.pos, tile, v.diameter \div 2)

\* The tiles joined, over other tiles of the layer, to one that touches ground copper.
AnchoredTiles(b, layer, tiles) ==
  Joined({t \in tiles : TouchesGround(b, layer, t)}, tiles, RectsConnected)

GroundZone(b, layer, tile) ==
  [kind |-> "zone", id |-> <<"pour", layer, tile>>, net |-> GND, layers |-> {layer}, bounds |-> tile,
   clearance |-> GroundClearance(b), lock |-> FALSE]

-----------------------------------------------------------------------------
(* Stitching.                                                              *)

Covered(b, zones, p) ==
  {l \in b.layers : \E z \in OfNet(b.zones, GND) \cup zones :
                      l \in z.layers /\ RectContainsCircle(z.bounds, p, ViaDiameter \div 2)}

\* The keepouts, edges and foreign copper a via keeps away from, whatever layers it joins.
StitchingBlocked(b, p) ==
  LET radius == ViaDiameter \div 2
      foreign(s) == {o \in s : o.net # GND}
      need(o) == radius + CopperEdge + NetClearance(b, o.net)
      barred == {k \in b.keepouts : "via" \in k.prohibited \/ k.kind \in SensitiveKinds}
  IN  \/ \E k \in barred : PointRectWithin(p, k.bounds, radius + CopperEdge)
      \/ ~RectContainsCircle(b.outline, p, CopperEdge + radius)
      \/ \E o \in foreign(b.pads) : PointRectWithin(p, PadBounds(o), need(o) + PadReach(o))
      \/ \E o \in foreign(b.routes) : PointSegmentWithin(p, o.start, o.end, need(o) + o.width \div 2)
      \/ \E o \in foreign(b.vias) : PointDistanceWithin(p, o.pos, need(o) + o.diameter \div 2)

\* The first MaxVias points of the lattice, row by row, that join two layers and are free.
StitchingVias(b, zones) ==
  LET board0 == CHOOSE r \in BoardRect(b) : TRUE
      line(lo, len) == {c \in lo + Pitch \div 2 .. lo + len - 1 : (c - lo - Pitch \div 2) % Pitch = 0}
      points == {Point(x, y) : x \in line(board0.x, board0.w), y \in line(board0.y, board0.h)}
      good == {p \in points : Cardinality(Covered(b, zones, p)) >= 2 /\ ~StitchingBlocked(b, p)}
      before(p) == {q \in good : q.y < p.y \/ (q.y = p.y /\ q.x < p.x)}
  IN  {[kind |-> "via", id |-> <<"stitch", p>>, net |-> GND, pos |-> p, diameter |-> ViaDiameter,
        layers |-> Covered(b, zones, p), lock |-> FALSE] :
         p \in {p \in good : Cardinality(before(p)) < MaxVias}}

-----------------------------------------------------------------------------
(* The plan.                                                               *)

\* What stops a plan before it begins: no ground net, copper findings already, or no room for copper.
Obstacles(b) ==
  LET found == {f \in Check(b) : f.rule \in CopperRules}
  IN  IF GND \notin DOMAIN b.class THEN {Finding("PCB.COPPER.GND_MISSING", GND)}
      ELSE IF found = {} /\ BoardRect(b) = {} THEN {Finding("PCB.COPPER.BOARD_TOO_SMALL", "board")}
      ELSE found

PlanRefused ==
  /\ pour.phase = "idle" /\ Obstacles(board) # {}
  /\ pour' = [pour EXCEPT !.phase = "done", !.findings = Obstacles(board)]
  /\ UNCHANGED adapterVars

PlanStarts ==
  /\ pour.phase = "idle" /\ Obstacles(board) = {}
  /\ pour' = [pour EXCEPT !.phase = "layers", !.todo = board.layers]
  /\ UNCHANGED adapterVars

TakeLayer ==
  /\ pour.phase = "layers"
  /\ \E l \in pour.todo :
       pour' = [pour EXCEPT !.phase = "cutting", !.todo = @ \ {l}, !.layer = l, !.cut = {},
                            !.left = ExcludedRegions(board, l), !.tiles = BoardRect(board)]
  /\ UNCHANGED adapterVars

\* Regions are taken from left to right, then from bottom to top.
CutRegion ==
  /\ pour.phase = "cutting"
  /\ \E r \in pour.left :
       /\ \A s \in pour.left : r.x < s.x \/ (r.x = s.x /\ r.y <= s.y)
       /\ pour' = [pour EXCEPT !.left = @ \ {r}, !.cut = @ \cup {r},
                               !.tiles = UNION {Subtract(t, r) : t \in @}]
  /\ UNCHANGED adapterVars

\* Tiles joined to ground copper become zones, unless they are too small on their own.
CloseLayer ==
  /\ pour.phase = "cutting" /\ pour.left = {}
  /\ LET anchored == AnchoredTiles(board, pour.layer, pour.tiles)
         kept == {t \in pour.tiles : t \in anchored /\ Area(t) >= MinIsland}
     IN  pour' = [pour EXCEPT !.phase = IF pour.todo = {} THEN "stitching" ELSE "layers",
                              !.tiles = {},
                              !.zones = @ \cup {GroundZone(board, pour.layer, t) : t \in kept},
                              !.islands = @ \cup {<<pour.layer, t>> : t \in pour.tiles \ kept}]
  /\ UNCHANGED adapterVars

ThermalPads(b, zones) == IF zones = {} THEN {} ELSE {p.id : p \in OfNet(b.pads, GND)}

PlanOperations(b, zones, vias) ==
  (IF zones = {} THEN <<>>
   ELSE <<[type |-> "zones", zones |-> zones, thermal |-> ThermalPads(b, zones)]>>)
  \o (IF vias = {} THEN <<>> ELSE <<[type |-> "stitch", vias |-> vias]>>)

\* The board as it would be is checked, and one error withdraws the whole plan.
PlanEnds ==
  /\ pour.phase = "stitching"
  /\ LET vias == StitchingVias(board, pour.zones)
         planned == [board EXCEPT !.zones = @ \cup pour.zones, !.vias = @ \cup vias]
         found == Check(planned)
     IN  /\ pour' = [pour EXCEPT !.phase = "done", !.findings = found]
         /\ proposal' = IF found # {} \/ pour.zones \cup vias = {} THEN NoProposal
                        ELSE [by |-> "planner", ops |-> PlanOperations(board, pour.zones, vias)]
  /\ UNCHANGED <<board, outcome>>
=============================================================================
