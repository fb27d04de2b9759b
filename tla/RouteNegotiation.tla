-------------------------- MODULE RouteNegotiation --------------------------
(***************************************************************************)
(* Autorouter.route of routing.py: the requested nets are routed one after *)
(* the other; then, for a bounded number of rounds, a net that found no    *)
(* way may strip one obstacle, the ways of another requested net or one    *)
(* unlocked route of a net that was not requested.                         *)
(*                                                                         *)
(* The router works on a copy of the board.  What it offers in the end is  *)
(* not that copy but the board without the routes it removed, with the     *)
(* copper of the nets it solved, which the rule checker looks at once      *)
(* more.  The offer is executed, and the board may be routed again.        *)
(***************************************************************************)
EXTENDS RouteSearch

CONSTANTS
  Boards,       \* the boards to begin with
  Requests,     \* the sets of nets that may be requested
  NetOrder,     \* the nets that may be requested, sorted
  RetryRounds,  \* routing.max_retry_rounds
  Calls         \* how often the router is called

ASSUME RetryAssumption == RetryRounds \in Nat \ {0} /\ Calls \in Nat
ASSUME BoardsAssumption ==
  \A b \in Boards : /\ IsBoard(b) /\ Loadable(b) /\ IsFiniteSet(b.layers)
                    /\ {p.id : p \in b.pads} \subseteq Range(PadOrder)
ASSUME RequestsAssumption ==
  /\ NetOrder \in Seq(Range(NetOrder))
  /\ \A nets \in Requests : nets \subseteq Range(NetOrder)

VARIABLES
  route,  \* the state of the call
  calls   \* how many calls were made

vars == <<adapterVars, route, calls>>

\* phase: "idle" | "first" | "between" | "round" | "try" | "again" | "done"; todo, the nets still
\* to be taken in this round; net, the one taken; tries, the obstacles it has not tried; stripped,
\* the net it stripped; work, the copy; solved, the copper by net; lost, the requested nets
\* without a way, of which the router cannot route those in hopeless; removed, the ids of
\* the board's routes taken away; round, the rounds made; found, the checker's last findings.
RouteIdle ==
  [phase |-> "idle", requested |-> {}, todo |-> {}, net |-> NoNet, tries |-> {}, stripped |-> NoNet,
   work |-> <<>>, solved |-> <<>>, lost |-> {}, hopeless |-> {}, removed |-> {}, cong |-> <<>>,
   round |-> 0, found |-> {}]

FirstOf(nets) == NetOrder[Min({i \in DOMAIN NetOrder : NetOrder[i] \in nets})]

\* The router takes signal nets of the board with two pads or more, all on the grid.
Routable(b, n) ==
  /\ n \in DOMAIN b.class
  /\ b.class[n] \in {"signal", "quiet_signal"}
  /\ Cardinality(OfNet(b.pads, n)) >= 2
  /\ \A p \in OfNet(b.pads, n) : OnGrid(p.pos)

Unlocked(s) == {o \in s : ~o.lock}
IdsOf(s) == {o.id : o \in s}

\* Mutant: the locked routes may be stripped as well.
OriginalAll == IdsOf(board.routes)

\* The routes the router may take away.
Original == IdsOf(Unlocked(board.routes))

\* A board without the routes that are stripped, with new copper.
Laid(b, new, stripped) ==
  [b EXCEPT !.routes = {o \in @ : o.id \notin stripped} \cup new.segments, !.vias = @ \cup new.vias]

\* Mutant: what was stripped for a net is not taken away from the board.
InstalledKept(r, n, ways, stripped) ==
  LET new == Copper(r.work, n, ways) IN
  [r EXCEPT !.work = Laid(@, new, stripped), !.solved = Over(@, [m \in {n} |-> new]),
            !.lost = @ \ {n}, !.cong = Recorded(@, ways)]

\* A net's copper enters the copy; what was stripped for it, of the board's own routes, counts
\* as removed.
Installed(r, n, ways, stripped) ==
  LET new == Copper(r.work, n, ways) IN
  [r EXCEPT !.work = Laid(@, new, stripped), !.removed = @ \cup (stripped \cap Original),
            !.solved = Over(@, [m \in {n} |-> new]), !.lost = @ \ {n}, !.cong = Recorded(@, ways)]

RouteBegins ==
  /\ route.phase = "idle" /\ proposal = NoProposal /\ calls < Calls
  /\ \E nets \in Requests :
       route' = [RouteIdle EXCEPT !.phase = "first", !.requested = nets, !.todo = nets,
                                  !.work = board, !.round = 1]
  /\ calls' = calls + 1
  /\ UNCHANGED adapterVars

\* The first round: a net's own unlocked routes make way for what was found with them there.
RouteFirst ==
  /\ route.phase = "first" /\ route.todo # {}
  /\ LET n == FirstOf(route.todo)
         next == [route EXCEPT !.todo = @ \ {n}]
         own == IdsOf(Unlocked(OfNet(route.work.routes, n)))
     IN  \/ /\ ~Routable(board, n)
            /\ route' = [next EXCEPT !.lost = @ \cup {n}, !.hopeless = @ \cup {n}]
         \/ /\ Routable(board, n)
            /\ \E ways \in NetWays(route.work, n, route.cong) :
                 route' = IF ways = NoWay THEN [next EXCEPT !.lost = @ \cup {n}]
                          ELSE Installed(next, n, ways, own)
  /\ UNCHANGED <<adapterVars, calls>>

EndFirst ==
  /\ route.phase = "first" /\ route.todo = {}
  /\ route' = [route EXCEPT !.phase = "between"]
  /\ UNCHANGED <<adapterVars, calls>>

-----------------------------------------------------------------------------
(* The rounds of the negotiation.                                          *)

Unresolved == route.lost \ route.hopeless

NextRound ==
  /\ route.phase = "between"
  /\ Unresolved # {} /\ route.round < RetryRounds
  /\ route' = [route EXCEPT !.phase = "round", !.round = @ + 1, !.todo = Unresolved]
  /\ UNCHANGED <<adapterVars, calls>>

\* What a net may try to strip: a net that is solved, or an unlocked route of the board that
\* belongs to no requested net.
TakeNet ==
  /\ route.phase = "round" /\ route.todo # {}
  /\ LET n == FirstOf(route.todo)
         foreign == {o \in route.work.routes : o.id \in Original /\ o.net \notin route.requested}
     IN  route' = [route EXCEPT !.phase = "try", !.net = n, !.todo = @ \ {n},
                                !.tries = {<<"net", m>> : m \in DOMAIN route.solved}
                                            \cup {<<"route", o.id>> : o \in foreign}]
  /\ UNCHANGED <<adapterVars, calls>>

\* Solved nets are tried first, in their order.
NextTries ==
  LET nets == {n \in DOMAIN route.solved : <<"net", n>> \in route.tries}
  IN  IF nets # {} THEN {<<"net", FirstOf(nets)>>} ELSE route.tries

\* The routes stripped for a try, the net's own unlocked ones with them.
Strip(try) ==
  (IF try[1] = "net" THEN IdsOf(Unlocked(OfNet(route.work.routes, try[2]))) ELSE {try[2]})
  \cup (IdsOf(Unlocked(OfNet(route.work.routes, route.net))) \cap Original)

Without(b, ids) == [b EXCEPT !.routes = {o \in @ : o.id \notin ids}, !.vias = {o \in @ : o.id \notin ids}]

Try ==
  /\ route.phase = "try" /\ route.tries # {}
  /\ \E try \in NextTries :
       LET strip == Strip(try)
           trial == Without(route.work, strip)
       IN  \E ways \in NetWays(trial, route.net, route.cong) :
             route' = IF ways = NoWay THEN [route EXCEPT !.tries = @ \ {try}]
                      ELSE LET done == Installed([route EXCEPT !.work = trial], route.net, ways, strip) IN
                           IF try[1] = "net"
                           THEN [done EXCEPT !.phase = "again", !.stripped = try[2],
                                             !.solved = [m \in DOMAIN @ \ {try[2]} |-> @[m]],
                                             !.lost = @ \cup {try[2]}]
                           ELSE [done EXCEPT !.phase = "between"]
  /\ UNCHANGED <<adapterVars, calls>>

\* A net that was stripped is routed again at once, and may be lost.
RouteAgain ==
  /\ route.phase = "again"
  /\ LET next == [route EXCEPT !.phase = "between", !.stripped = NoNet] IN
     \E ways \in NetWays(route.work, route.stripped, route.cong) :
       route' = IF ways = NoWay THEN next ELSE Installed(next, route.stripped, ways, {})
  /\ UNCHANGED <<adapterVars, calls>>

GiveUpNet ==
  /\ route.phase = "try" /\ route.tries = {}
  /\ route' = [route EXCEPT !.phase = "round"]
  /\ UNCHANGED <<adapterVars, calls>>

-----------------------------------------------------------------------------
(* The offer.                                                              *)

Segments(r) == UNION {r.solved[n].segments : n \in DOMAIN r.solved}
Vias(r) == UNION {r.solved[n].vias : n \in DOMAIN r.solved}
Found(r) == [segments |-> Segments(r), vias |-> Vias(r)]
Offered(r) == Laid(board, Found(r), r.removed)

\* RouteNets refuses a new route with the id of a removed one.
Collides(r) == IdsOf(Segments(r) \cup Vias(r)) \cap r.removed # {}

\* No net is left to try, the rounds are used up, or every net of the round gave up.
RouteEnds ==
  /\ \/ route.phase = "between" /\ (Unresolved = {} \/ route.round = RetryRounds)
     \/ route.phase = "round" /\ route.todo = {}
  /\ LET empty == Segments(route) \cup Vias(route) = {}
         found == IF empty \/ Collides(route) THEN {} ELSE Check(Offered(route))
     IN  /\ route' = [route EXCEPT !.phase = "done", !.found = found]
         /\ outcome' = IF ~empty /\ Collides(route) THEN [by |-> "router", verdict |-> "collides"]
                       ELSE NoOutcome
         /\ proposal' = IF empty \/ Collides(route) \/ found # {} THEN NoProposal
                        ELSE [by |-> "router",
                              ops |-> <<[type |-> "route", removed |-> route.removed,
                                         segments |-> Segments(route), vias |-> Vias(route)]>>]
  /\ UNCHANGED <<board, calls>>

Execute == Apply /\ UNCHANGED <<route, calls>>

RouteLeaves ==
  /\ route.phase = "done" /\ proposal = NoProposal
  /\ route' = RouteIdle
  /\ UNCHANGED <<adapterVars, calls>>

Init ==
  /\ board \in Boards
  /\ proposal = NoProposal /\ outcome = NoOutcome
  /\ route = RouteIdle /\ calls = 0

Next == \/ RouteBegins \/ RouteFirst \/ EndFirst
        \/ NextRound \/ TakeNet \/ Try \/ RouteAgain \/ GiveUpNet
        \/ RouteEnds \/ Execute \/ RouteLeaves

Spec == Init /\ [][Next]_vars

-----------------------------------------------------------------------------
(* Properties.                                                             *)

\* The copy the router searches has exactly the routes of the board it will offer, so that what
\* it found legal there is legal in the offer; of vias it may have more, those of stripped ways.
CopyIsTheOffer ==
  route.phase # "idle" =>
    /\ route.phase # "done" => /\ route.work.routes = Offered(route).routes
                               /\ Offered(route).vias \subseteq route.work.vias
    /\ route.phase = "done" => /\ route.requested = DOMAIN route.solved \cup route.lost
                               /\ DOMAIN route.solved \cap route.lost = {}

\* What the search finds legal the checker finds legal: an offer adds a finding to the board
\* only where the router does not look, a via in a keepout for vias, copper that comes too
\* close to an unlocked zone, or a net left in two parts by the obstacle that was stripped.
RouterMeetsChecker ==
  \A f \in route.found \ Check(board) :
    \/ f.rule = "PCB_KEEPOUT_VIA"
    \/ f.rule = "PCB.COPPER.CLEARANCE" /\ \E z \in Unlocked(board.zones) : z.id = f.subject
    \/ f.rule = "PCB_ROUTE_DISCONNECTED" /\ f.subject \notin route.requested

\* The copper of every net the router solved joins all its pads, when the call is over, whatever
\* was stripped for others after it was found.
RoutedIsJoined ==
  route.phase = "done" /\ outcome = NoOutcome =>
    \A n \in DOMAIN route.solved :
      LET pads == OfNet(board.pads, n)
          copper == OfNet(Offered(route).routes, n) \cup OfNet(Offered(route).vias, n)
      IN  \A p \in pads : pads \subseteq Joined({p}, pads \cup copper, ConductiveContact)

\* No footprint, pad, zone or keepout is named as new copper is.
NamesApart(b) ==
  \A o \in b.footprints \cup b.pads \cup b.zones \cup b.keepouts :
    ~(Len(o.id) = 4 /\ o.id[1] \in {"route", "via"})

\* No pad of a net lies on another one: pads never touch each other, and between these two there
\* is no copper to find.
PadsApart(b) ==
  \A p, q \in b.pads :
    p.net \in DOMAIN b.class /\ p.net = q.net /\ p.pos = q.pos /\ p.layers \cap q.layers # {}
      => p = q

\* An offer is executed as it is, unless its new routes have the names of removed ones.
RouterIsExecuted == outcome.by = "router" => outcome.verdict \in {"clean", "collides"}

\* The way a net's old routes are replaced never depends on what they are called.
RouteIdsAreNew == outcome.verdict # "collides"
=============================================================================
