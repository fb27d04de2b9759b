---------------------------- MODULE BoardLayout ----------------------------
(***************************************************************************)
(* The layout of a board, from a draft to a poured board: the placement    *)
(* solver, a client's own operations and the copper planner take turns at  *)
(* it, and every proposal is executed as a candidate.                      *)
(***************************************************************************)
EXTENDS BoardPlacement, CopperPlan

CONSTANTS
  Boards,  \* the boards to begin with
  ByHand   \* the operations a client sends without a tool, each proposal a sequence

ASSUME BoardsAssumption == \A b \in Boards : IsBoard(b) /\ Loadable(b)
ASSUME ByHandAssumption ==
  \A ops \in ByHand : /\ Len(ops) \in Nat /\ DOMAIN ops = 1 .. Len(ops)
                      /\ \A i \in DOMAIN ops : IsOp(ops[i])

VARIABLE stage  \* "place" | "hand" | "pour" | "end"

vars == <<adapterVars, place, pour, stage>>

Init ==
  /\ board \in Boards
  /\ proposal = NoProposal /\ outcome = NoOutcome
  /\ place = PlaceIdle
  /\ pour = PourIdle
  /\ stage = "place"

Placing == /\ stage = "place" /\ place.phase # "done"
           /\ SolveInfeasible \/ SolveBegins \/ SolveStart \/ Move \/ EndStart \/ Place
           /\ UNCHANGED <<pour, stage>>

Hand == /\ stage = "hand" /\ proposal = NoProposal /\ outcome.by # "client"
        /\ \E ops \in ByHand : proposal' = [by |-> "client", ops |-> ops]
        /\ UNCHANGED <<board, outcome, place, pour, stage>>

Pouring == /\ stage = "pour" /\ pour.phase # "done"
           /\ PlanRefused \/ PlanStarts \/ TakeLayer \/ CutRegion \/ CloseLayer \/ PlanEnds
           /\ UNCHANGED <<place, stage>>

Execute == Apply /\ UNCHANGED <<place, pour, stage>>

\* The next tool begins when nothing of the last one is under way.
Advance ==
  /\ proposal = NoProposal
  /\ \/ stage = "place" /\ place.phase = "done" /\ stage' = "hand" /\ place' = PlaceIdle /\ UNCHANGED pour
     \/ stage = "hand" /\ stage' = "pour" /\ UNCHANGED <<place, pour>>
     \/ stage = "pour" /\ pour.phase = "done" /\ stage' = "end" /\ UNCHANGED <<place, pour>>
  /\ UNCHANGED adapterVars

Next == Placing \/ Hand \/ Pouring \/ Execute \/ Advance

Spec == Init /\ [][Next]_vars

-----------------------------------------------------------------------------
(* The boards on which the tools' proposals are executed as they were       *)
(* meant: pads lie in their footprint, and nothing has the id of copper    *)
(* still to be poured (the planner takes the next free number).            *)

PadsInside(b) ==
  \A p \in b.pads, f \in b.footprints : f.id = p.fp => RectContains(OutlineRect(f), p.pos)

Unpoured(objects) == \A o \in objects : o.id[1] \notin {"pour", "stitch"}

NewObjects(op) == CASE op.type = "route"  -> op.segments \cup op.vias
                    [] op.type = "zones"  -> op.zones
                    [] op.type = "stitch" -> op.vias
                    [] OTHER              -> {}

\* Ground zones have the clearance of their class at least, and that is no more than what copper
\* keeps from the edge (two of the comparisons with a minimum that are left out).
GroundIsKept(b, zones) ==
  GND \in DOMAIN b.class =>
    /\ GroundClearance(b) <= CopperEdge
    /\ \A z \in OfNet(zones, GND) : GroundClearance(b) <= z.clearance

-----------------------------------------------------------------------------
(* Properties.                                                             *)

\* While the regions are cut out, the tiles cover each unit cell of the board that lies in no
\* region cut so far, and none of them twice.
TilesAreExact ==
  pour.phase = "cutting" =>
    /\ UNION {Cells(t) : t \in pour.tiles}
         = (UNION {Cells(r) : r \in BoardRect(board)}) \ UNION {Cells(r) : r \in pour.cut}
    /\ \A t, u \in pour.tiles : t # u => Cells(t) \cap Cells(u) = {}

\* The rectangles the planner keeps out of are wide enough for every rule of the checker: a plan
\* adds a finding to the board only when an undersized tile was dropped that had joined a zone
\* to ground, or when stitching vias lie in two ground pads that no route joins; it never adds
\* one for clearance, a keepout or the edge.
PlannerMeetsChecker ==
  (pour.phase = "done" /\ pour.zones # {} /\ stage = "pour" /\ outcome.by # "planner") =>
    \A f \in pour.findings \ Check(board) :
      \/ f.rule = "PCB.COPPER.CONNECTIVITY" /\ \E i \in pour.islands : Area(i[2]) < MinIsland
      \/ f = Finding("PCB_ROUTE_DISCONNECTED", GND)

\* What a tool proposes is executed as it was meant: the adapter finds every change announced and
\* no object locked or lost, and the copper the planner found clean is clean when it is applied.
ProposalsAreExecuted ==
  /\ outcome.by = "placer" => outcome.verdict \in {"clean", "findings"}
  /\ outcome.by = "planner" => outcome.verdict = "clean"

IsEven(f) == f.w % 2 = 0 /\ f.h % 2 = 0

\* The placement a solver offers gives the checker no keepout finding for a footprint of even
\* size (of an odd one the checker halves the size rounding down, the solver does not), overlaps
\* nowhere, moves nothing locked and scores no worse than the placement it was refined from.
PlacementIsLegal ==
  proposal.by = "placer" =>
    LET pos == proposal.ops[1].pos
        after == Placed(board, pos)
    IN  /\ \A f \in after.footprints :
             IsEven(f) => Finding("PCB_KEEPOUT_FOOTPRINT", f.id) \notin FootprintKeepoutFindings(after)
        /\ \A f, g \in after.footprints :
             f.id # g.id => Cells(FootprintBounds(f)) \cap Cells(FootprintBounds(g)) = {}
        /\ KeepsLocked(board, after)
        /\ ScoreLayout(board, pos) <= ScoreLayout(board, place.first)
================================================================================
