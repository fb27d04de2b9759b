----------------------------- MODULE BoardRules -----------------------------
(***************************************************************************)
(* A board (BoardSnapshot of ir.py) and the findings BoardRuleChecker of   *)
(* validation.py makes on it.                                              *)
(*                                                                         *)
(* A board is a record of outline (its bounding rectangle: the outlines    *)
(* here are rectangles), layers, class (a net's class), keepouts,          *)
(* footprints, pads, routes, vias and zones, each of the last five a set   *)
(* of records with an id.  A finding is its rule and its subject.  The     *)
(* comparisons of one number with a minimum (trace width, via and hole     *)
(* diameter, zone clearance, layer count, copper weight, board size) are   *)
(* left out: the boards here meet them.                                    *)
(***************************************************************************)
EXTENDS BoardGeometry

CONSTANTS
  GND,         \* the ground net
  NoNet,       \* what an unconnected pad has for a net
  Clearance,   \* [net class -> clearance], of the rule pack
  CopperEdge   \* the rule pack's copper.edge_clearance_um

ASSUME ClearanceAssumption == \A c \in DOMAIN Clearance : Clearance[c] \in Nat
ASSUME EdgeAssumption == CopperEdge \in Nat

\* What the objects of a board are, as far as the rules compute with it.
IsFootprint(f) == /\ DOMAIN f = {"id", "pos", "w", "h", "layer", "keepouts", "lock"}
                  /\ f.pos \in Points /\ f.w \in Nat /\ f.h \in Nat /\ f.lock \in BOOLEAN
IsPad(p) == /\ DOMAIN p = {"kind", "id", "fp", "net", "pos", "sx", "sy", "layers", "thermal"}
            /\ p.kind = "pad" /\ p.pos \in Points /\ p.sx \in Nat /\ p.sy \in Nat
IsRoute(r) == /\ DOMAIN r = {"kind", "id", "net", "start", "end", "width", "layers", "lock"}
              /\ r.kind = "route" /\ r.start \in Points /\ r.end \in Points /\ r.width \in Nat
              /\ r.lock \in BOOLEAN
IsVia(v) == /\ DOMAIN v = {"kind", "id", "net", "pos", "diameter", "layers", "lock"}
            /\ v.kind = "via" /\ v.pos \in Points /\ v.diameter \in Nat /\ v.lock \in BOOLEAN
IsZone(z) == /\ DOMAIN z = {"kind", "id", "net", "layers", "bounds", "clearance", "lock"}
             /\ z.kind = "zone" /\ z.bounds \in Rects /\ z.bounds.w > 0 /\ z.bounds.h > 0
             /\ z.clearance \in Nat /\ z.lock \in BOOLEAN
IsKeepout(k) == /\ DOMAIN k = {"id", "kind", "prohibited", "bounds", "layers"}
                /\ k.bounds \in Rects /\ k.bounds.w > 0 /\ k.bounds.h > 0

IsBoard(b) ==
  /\ DOMAIN b = {"outline", "layers", "class", "keepouts", "footprints", "pads", "routes", "vias", "zones"}
  /\ b.outline \in Rects
  /\ IsFiniteSet(DOMAIN b.class)
  /\ \A n \in DOMAIN b.class : b.class[n] \in DOMAIN Clearance
  /\ IsFiniteSet(b.footprints) /\ \A f \in b.footprints : IsFootprint(f)
  /\ IsFiniteSet(b.pads) /\ \A p \in b.pads : IsPad(p)
  /\ \A k \in b.keepouts : IsKeepout(k)
  /\ IsFiniteSet(b.routes) /\ IsFiniteSet(b.vias) /\ IsFiniteSet(b.zones)
  /\ \A r \in b.routes : IsRoute(r)
  /\ \A v \in b.vias : IsVia(v)
  /\ \A z \in b.zones : IsZone(z)

Finding(rule, subject) == [rule |-> rule, subject |-> subject]

NetClearance(b, n) == IF n = NoNet THEN 0 ELSE Clearance[b.class[n]]
PadBounds(p) == Rect(p.pos.x - p.sx \div 2, p.pos.y - p.sy \div 2, p.sx, p.sy)
PadReach(p) == (IF p.sx >= p.sy THEN p.sx ELSE p.sy) \div 2
SensitiveKinds == {"esp_antenna", "quiet_zone", "crystal_near_field", "sensitive_analog"}

\* The pairs of two conductors of different nets with a layer in common.
Foreign(s, t) == {q \in s \X t : /\ q[1].net # q[2].net /\ q[1].id # q[2].id
                                 /\ q[1].layers \cap q[2].layers # {}}

RouteKeepoutFindings(b) ==
  {Finding("PCB_KEEPOUT_ROUTE", q[1].id) : q \in {q \in b.routes \X b.keepouts :
     LET r == q[1]  k == q[2] IN
     /\ r.layers \cap k.layers # {}
     /\ \/ k.prohibited \cap {"route", "unrelated_route"} # {}
        \/ "load_power_route" \in k.prohibited /\ b.class[r.net] = "load_power"
        \/ "quiet_signal_route" \in k.prohibited /\ b.class[r.net] = "quiet_signal"
     /\ SegmentRectWithin(r.start, r.end, k.bounds, r.width \div 2)}}

RouteClearanceFindings(b) ==
  LET need(r, o) == NetClearance(b, r.net) + NetClearance(b, o.net) + r.width \div 2
  IN  {Finding("PCB_CLEARANCE_PAD", q[1].id) : q \in {q \in Foreign(b.routes, b.pads) :
         SegmentRectWithin(q[1].start, q[1].end, PadBounds(q[2]), need(q[1], q[2]))}}
      \cup
      {Finding("PCB_CLEARANCE_ROUTE", q[1].id) : q \in {q \in Foreign(b.routes, b.routes) :
         SegmentsWithin(q[1].start, q[1].end, q[2].start, q[2].end,
                        need(q[1], q[2]) + q[2].width \div 2)}}
      \cup
      {Finding("PCB_CLEARANCE_VIA", q[1].id) : q \in {q \in Foreign(b.routes, b.vias) :
         PointSegmentWithin(q[2].pos, q[1].start, q[1].end,
                            need(q[1], q[2]) + q[2].diameter \div 2)}}

ViaFindings(b) ==
  LET need(v, o) == v.diameter \div 2 + NetClearance(b, v.net) + NetClearance(b, o.net)
      edge(v) == CopperEdge + v.diameter \div 2
  IN  {Finding(IF q[1].net = GND THEN "PCB.COPPER.KEEPOUT" ELSE "PCB_KEEPOUT_VIA", q[1].id) : q \in {q \in b.vias \X b.keepouts :
         /\ \/ "via" \in q[2].prohibited
            \/ q[1].net = GND /\ q[2].kind \in SensitiveKinds
         /\ q[1].layers \cap q[2].layers # {}
         /\ RectContains(q[2].bounds, q[1].pos)}}
      \cup
      {Finding("PCB.COPPER.EDGE", v.id) : v \in {v \in b.vias :
         v.net = GND /\ ~RectContainsCircle(b.outline, v.pos, edge(v))}}
      \cup
      {Finding("PCB_CLEARANCE_PAD", q[1].id) : q \in {q \in Foreign(b.vias, b.pads) :
         PointRectWithin(q[1].pos, PadBounds(q[2]), need(q[1], q[2]))}}
      \cup
      {Finding("PCB_CLEARANCE_VIA", q[1].id) : q \in {q \in Foreign(b.vias, b.vias) :
         PointDistanceWithin(q[1].pos, q[2].pos, need(q[1], q[2]) + q[2].diameter \div 2)}}

ZoneFindings(b) ==
  LET need(z, o) == z.clearance + NetClearance(b, o.net)
  IN  {Finding("PCB_KEEPOUT_COPPER_ZONE", q[1].id) : q \in {q \in b.zones \X b.keepouts :
         /\ "copper_zone" \in q[2].prohibited \/ q[2].kind \in SensitiveKinds
         /\ q[1].layers \cap q[2].layers # {}
         /\ RectsIntersect(q[1].bounds, q[2].bounds)}}
      \cup
      {Finding("PCB.COPPER.EDGE", z.id) : z \in {z \in b.zones :
         \/ z.bounds.x < b.outline.x + CopperEdge
         \/ z.bounds.y < b.outline.y + CopperEdge
         \/ z.bounds.x + z.bounds.w > b.outline.x + b.outline.w - CopperEdge
         \/ z.bounds.y + z.bounds.h > b.outline.y + b.outline.h - CopperEdge}}
      \cup
      {Finding("PCB.COPPER.CLEARANCE", q[1].id) :
         q \in {q \in Foreign(b.zones, b.pads) :
                  RectsWithin(q[1].bounds, PadBounds(q[2]), need(q[1], q[2]))}
          \cup {q \in Foreign(b.zones, b.routes) :
                  SegmentRectWithin(q[2].start, q[2].end, q[1].bounds,
                                    need(q[1], q[2]) + q[2].width \div 2)}
          \cup {q \in Foreign(b.zones, b.vias) :
                  PointRectWithin(q[2].pos, q[1].bounds,
                                  need(q[1], q[2]) + q[2].diameter \div 2)}
          \cup {q \in Foreign(b.zones, b.zones) :
                  RectsWithin(q[1].bounds, q[2].bounds, q[1].clearance + q[2].clearance)}}

FootprintBounds(f) == Rect(f.pos.x - f.w \div 2, f.pos.y - f.h \div 2, f.w, f.h)

FootprintKeepoutFindings(b) ==
  {Finding("PCB_KEEPOUT_FOOTPRINT", q[1].id) : q \in {q \in b.footprints \X b.keepouts :
     /\ "footprint" \in q[2].prohibited
     /\ q[1].layer \in q[2].layers
     /\ q[2].id \notin q[1].keepouts
     /\ RectsIntersect(FootprintBounds(q[1]), q[2].bounds)}}

-----------------------------------------------------------------------------
(* Connectivity.  Pads never touch each other; a zone touches what lies in  *)
(* or against it.                                                          *)

PadTouches(p, o) ==
  /\ p.layers \cap o.layers # {}
  /\ \/ o.kind = "route" /\ SegmentRectWithin(o.start, o.end, PadBounds(p), o.width \div 2)
     \/ o.kind = "zone" /\ o.net = p.net /\ PointRectWithin(p.pos, o.bounds, PadReach(p))
     \/ o.kind = "via" /\ PointRectWithin(o.pos, PadBounds(p), o.diameter \div 2)

TouchesInOrder(l, r) ==
  \/ l.kind = "pad" /\ PadTouches(l, r)
  \/ /\ l.layers \cap r.layers # {}
     /\ \/ /\ l.kind = "route" /\ r.kind = "route"
           /\ SegmentsWithin(l.start, l.end, r.start, r.end, l.width \div 2 + r.width \div 2)
        \/ /\ l.kind = "route" /\ r.kind = "via"
           /\ PointSegmentWithin(r.pos, l.start, l.end, l.width \div 2 + r.diameter \div 2)
        \/ /\ l.kind = "via" /\ r.kind = "via"
           /\ PointDistanceWithin(l.pos, r.pos, l.diameter \div 2 + r.diameter \div 2)
        \/ /\ l.kind = "zone" /\ l.net = r.net
           /\ \/ r.kind = "route" /\ SegmentRectWithin(r.start, r.end, l.bounds, r.width \div 2)
              \/ r.kind = "via" /\ PointRectWithin(r.pos, l.bounds, r.diameter \div 2)
              \/ r.kind = "zone" /\ RectsIntersect(l.bounds, r.bounds)

ConductiveContact(l, r) == TouchesInOrder(l, r) \/ TouchesInOrder(r, l)

OfNet(s, n) == {e \in s : e.net = n}

\* The router's geometry of a net has to join the pads it touches, when it touches two.
ConnectivityFindings(b) ==
  LET copper(n) == OfNet(b.routes, n) \cup OfNet(b.vias, n)
      touched(n) == {p \in OfNet(b.pads, n) : \E e \in copper(n) : PadTouches(p, e)}
      joined(n, p) == Joined({p}, OfNet(b.pads, n) \cup copper(n), ConductiveContact)
  IN  {Finding("PCB_ROUTE_DISCONNECTED", n) : n \in {n \in DOMAIN b.class :
         /\ Cardinality(OfNet(b.pads, n)) >= 2
         /\ \E p, q \in touched(n) : q \notin joined(n, p)}}

\* Every ground zone is joined to ground copper that is not a zone.
CopperConnectivityFindings(b) ==
  LET zones == OfNet(b.zones, GND)
      anchors == OfNet(b.pads, GND) \cup OfNet(b.routes, GND) \cup OfNet(b.vias, GND)
  IN  {Finding("PCB.COPPER.CONNECTIVITY", z.id) : z \in
         zones \ Joined(anchors, anchors \cup zones, ConductiveContact)}

Check(b) ==
  RouteKeepoutFindings(b) \cup RouteClearanceFindings(b) \cup ViaFindings(b)
    \cup ZoneFindings(b) \cup FootprintKeepoutFindings(b)
    \cup ConnectivityFindings(b) \cup CopperConnectivityFindings(b)

\* The rules whose names begin with PCB.COPPER.
CopperRules == {"PCB.COPPER.EDGE", "PCB.COPPER.KEEPOUT",
                "PCB.COPPER.CLEARANCE", "PCB.COPPER.CONNECTIVITY"}
=============================================================================
