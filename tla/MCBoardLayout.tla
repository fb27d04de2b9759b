--------------------------- MODULE MCBoardLayout ---------------------------
EXTENDS BoardLayout

\* Two layers, three nets, two footprints of even sizes and one thing of each kind in their way.
\* Ids are sequences, so that they compare with the ids of poured copper.
MCClearance == [ground |-> 0, quiet_signal |-> 1, load_power |-> 1]
Both == {"F", "B"}
MCConnectors == {<<"J_u">>}

Pad(id, fp, net, x, y, layers) ==
  [kind |-> "pad", id |-> <<id>>, fp |-> <<fp>>, net |-> net, pos |-> Point(x, y), sx |-> 2, sy |-> 2,
   layers |-> layers, thermal |-> FALSE]
Footprint(id, x, y, w, h, lock, keepouts) ==
  [id |-> <<id>>, pos |-> Point(x, y), w |-> w, h |-> h, layer |-> "F", keepouts |-> keepouts, lock |-> lock]
Route(id, net, x1, y1, x2, y2, layer, lock) ==
  [kind |-> "route", id |-> <<id>>, net |-> net, start |-> Point(x1, y1), end |-> Point(x2, y2), width |-> 1,
   layers |-> {layer}, lock |-> lock]
Via(id, net, x, y) ==
  [kind |-> "via", id |-> <<id>>, net |-> net, pos |-> Point(x, y), diameter |-> 2, layers |-> Both, lock |-> FALSE]
Zone(id, net, layer, x, y, w, h, lock) ==
  [kind |-> "zone", id |-> <<id>>, net |-> net, layers |-> {layer}, bounds |-> Rect(x, y, w, h), clearance |-> 1,
   lock |-> lock]
Keepout(id, kind, prohibited, x, y, w, h) ==
  [id |-> <<id>>, kind |-> kind, prohibited |-> prohibited, bounds |-> Rect(x, y, w, h), layers |-> Both]

Keepouts == {{}, {Keepout("k", "esp_antenna", {"footprint", "via"}, 9, 6, 3, 4)},
             {Keepout("k", "power_zone", {}, 7, 0, 3, 10)},
             {Keepout("k", "mounting", {"footprint"}, 2, 0, 2, 3)},
             {Keepout("k", "mounting", {"footprint"}, 0, 4, 12, 6), Keepout("k2", "mounting", {"footprint"}, 6, 0, 6, 4)}}
Routes == {{}, {Route("r", "S", 5, 5, 11, 5, "F", FALSE)}, {Route("r", "S", 5, 8, 8, 5, "B", TRUE)},
           {Route("r", GND, 2, 9, 10, 9, "B", TRUE)}}
Pours == {[vias |-> {}, zones |-> {}],
          [vias |-> {Via("v", "S", 6, 2)}, zones |-> {}],
          [vias |-> {}, zones |-> {Zone("z", "P", "B", 2, 5, 3, 4, TRUE)}],
          [vias |-> {}, zones |-> {Zone("z", GND, "B", 1, 1, 4, 3, FALSE)}]}

Draft(lock, keepouts, routes, pours) ==
  [outline |-> Rect(0, 0, 12, 10), layers |-> Both,
   class |-> ("S" :> "quiet_signal") @@ ("P" :> "load_power") @@ (GND :> "ground"),
   keepouts |-> keepouts, routes |-> routes, vias |-> pours.vias, zones |-> pours.zones,
   footprints |-> {Footprint("J_u", 3, 2, 4, 2, lock, {}), Footprint("m", 10, 3, 2, 2, FALSE, {})},
   pads |-> {Pad("u1", "J_u", GND, 2, 2, {"F"}), Pad("u2", "J_u", "S", 5, 2, {"F"}),
             Pad("m1", "m", GND, 10, 3, Both)}]

\* A board without a ground net, and one with no room for copper inside its edge.
Groundless == [Draft(FALSE, {}, {}, [vias |-> {}, zones |-> {}]) EXCEPT
                 !.class = ("S" :> "quiet_signal"), !.pads = {p \in @ : p.net = "S"}]
Tiny == [Groundless EXCEPT !.class = (GND :> "ground"), !.outline = Rect(0, 0, 2, 2), !.pads = {},
                           !.footprints = {Footprint("m", 1, 1, 2, 2, FALSE, {})}]

MCBoards == {d \in {Draft(l, k, r, p) : l \in BOOLEAN, k \in Keepouts, r \in Routes, p \in Pours}
                     \cup {Groundless, Tiny} :
               Loadable(d)}
ASSUME \A b \in MCBoards : PadsInside(b) /\ Unpoured(Objects(b)) /\ GroundIsKept(b, b.zones)

RouteOp(removed, segments) ==
  [type |-> "route", removed |-> removed, segments |-> segments, vias |-> {}]
MCByHand ==
  {<<[type |-> "place", pos |-> [i \in {<<"J_u">>} |-> Point(3, 5)]]>>,
   <<RouteOp({<<"r">>}, {Route("r2", "S", 5, 8, 8, 5, "B", FALSE)})>>,
   <<RouteOp({<<"r">>}, {}), [type |-> "zones", zones |-> {Zone("z", GND, "B", 7, 1, 3, 3, FALSE)}, thermal |-> {<<"u2">>}]>>,
   <<[type |-> "place", pos |-> [i \in {<<"m">>} |-> Point(9, 8)]], [type |-> "lock"]>>}
ASSUME \A ops \in MCByHand : \A i \in DOMAIN ops : Unpoured(NewObjects(ops[i]))
ASSUME \A b \in MCBoards, ops \in MCByHand :
         \A i \in DOMAIN ops : ops[i].type = "zones" => GroundIsKept(b, ops[i].zones)
=============================================================================
