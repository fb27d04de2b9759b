------------------------- MODULE MCRouteNegotiation -------------------------
EXTENDS RouteNegotiation

\* Two nets that cross, a third that may be in the way, a power net, and one thing of each kind
\* the search looks at.  Ids are sequences, as the ids of new copper are.
MCClearance == [signal |-> 0, quiet_signal |-> 1, load_power |-> 1, ground |-> 0]
MCWidth == [signal |-> 1, quiet_signal |-> 1, load_power |-> 1, ground |-> 1]
MCViaSize == [signal |-> 2, quiet_signal |-> 2, load_power |-> 2, ground |-> 2]
MCNetOrder == <<"A", "B", "P", "U", "X">>
MCPadOrder == <<<<"a1">>, <<"a2">>, <<"b1">>, <<"b2">>, <<"p1">>, <<"p2">>, <<"x1">>, <<"x2">>>>
Both == {"F", "B"}

Pad(id, net, x, y, layers) ==
  [kind |-> "pad", id |-> <<id>>, fp |-> <<"f", id>>, net |-> net, pos |-> Point(x, y), sx |-> 2,
   sy |-> 2, layers |-> layers, thermal |-> FALSE]
Footprint(p) ==
  [id |-> p.fp, pos |-> p.pos, w |-> 2, h |-> 2, layer |-> "F", keepouts |-> {}, lock |-> FALSE]
Route(id, net, x1, y1, x2, y2, layer, lock) ==
  [kind |-> "route", id |-> id, net |-> net, start |-> Point(x1, y1), end |-> Point(x2, y2),
   width |-> 1, layers |-> {layer}, lock |-> lock]
Keepout(kind, prohibited, layers, x, y, w, h) ==
  [id |-> <<"k">>, kind |-> kind, prohibited |-> prohibited, bounds |-> Rect(x, y, w, h),
   layers |-> layers]

NoExtra == [keepouts |-> {}, zones |-> {}]
Extras ==
  {NoExtra,
   [NoExtra EXCEPT !.keepouts = {Keepout("esp_antenna", {"via"}, Both, 3, 1, 6, 5)}],
   [NoExtra EXCEPT !.keepouts = {Keepout("quiet_zone", {"route"}, {"B"}, 3, 3, 2, 1)}],
   [NoExtra EXCEPT !.zones = {[kind |-> "zone", id |-> <<"z">>, net |-> "P", layers |-> {"F"},
                               bounds |-> Rect(6, 1, 1, 2), clearance |-> 0, lock |-> FALSE]}]}

\* What the third net has on layer F: nothing, a barrier, or three routes between two pads.
Barriers ==
  {[routes |-> {}, pads |-> {}]}
    \cup {[routes |-> {Route(<<"bar">>, "X", 2, 0, 2, 6, "F", lock)}, pads |-> {}] : lock \in BOOLEAN}
    \cup {[routes |-> {Route(<<"bar", 1>>, "X", 2, 0, 2, 1, "F", TRUE),
                       Route(<<"bar", 2>>, "X", 2, 1, 2, 3, "F", FALSE),
                       Route(<<"bar", 3>>, "X", 2, 3, 2, 6, "F", TRUE)},
           pads |-> {Pad("x1", "X", 2, 0, Both), Pad("x2", "X", 2, 6, Both)}]}

\* The routes an earlier call left to the first net.
Olds == {{}, {Route(<<"route", "A", 1, 1>>, "A", 0, 2, 8, 2, "F", FALSE)}}

\* Where the second net ends: inside, where the first can go round it, or at the far edge.
Ends == {[y |-> 4, layers |-> {"F"}], [y |-> 6, layers |-> {"F"}], [y |-> 6, layers |-> Both]}

Draft(end, barrier, old, extra) ==
  LET pads == {Pad("a1", "A", 0, 2, {"F"}), Pad("a2", "A", 8, 2, {"F"}),
               Pad("b1", "B", 4, 0, {"F"}), Pad("b2", "B", 4, end.y, end.layers)} \cup barrier.pads
  IN  [outline |-> Rect(-1, -1, 10, 8), layers |-> Both,
       class |-> ("A" :> "signal") @@ ("B" :> "signal") @@ ("X" :> "signal")
                   @@ ("P" :> "load_power") @@ (GND :> "ground"),
       keepouts |-> extra.keepouts, routes |-> barrier.routes \cup old, vias |-> {},
       zones |-> extra.zones, footprints |-> {Footprint(p) : p \in pads}, pads |-> pads]

MCBoards == {Draft(e, b, o, x) : e \in Ends, b \in Barriers, o \in Olds, x \in Extras}
ASSUME \A b \in MCBoards : NamesApart(b) /\ PadsApart(b)

\* "U" is no net of the boards.
MCRequests == {{"A"}, {"A", "B"}, {"B", "P", "U"}}
=============================================================================
