---------------------------- MODULE BoardAdapter ----------------------------
(***************************************************************************)
(* How operations reach a board: FixtureBoardAdapter.apply_operations with  *)
(* the semantic diff of adapter.py, the checks a BoardSnapshot makes of    *)
(* itself when it is loaded again, and what the execution of a candidate   *)
(* asks of the result (locked objects, rule findings).                     *)
(*                                                                         *)
(* An operation is a record with its type.  apply_operations works on a    *)
(* copy of the board nobody else writes, applies one operation after the   *)
(* other, reads the result again and compares it with the start: whatever  *)
(* an operation did not announce is refused.  A clean candidate becomes    *)
(* the board the next tool starts from.                                    *)
(***************************************************************************)
EXTENDS BoardRules, Sequences, SequencesExt

VARIABLES
  board,     \* the snapshot the candidate holds
  proposal,  \* [by, ops]: the operations somebody offers, in their order
  outcome    \* [by, verdict]: what became of the last proposal

adapterVars == <<board, proposal, outcome>>

NoProposal == [by |-> "nobody", ops |-> <<>>]
NoOutcome == [by |-> "nobody", verdict |-> "none"]

Objects(b) == b.footprints \cup b.pads \cup b.routes \cup b.vias \cup b.zones \cup b.keepouts
Ids(b) == {o.id : o \in Objects(b)}

\* The half sizes of a footprint are rounded up: the whole of it lies in the outline.
OutlineRect(f) == LET hw == (f.w + 1) \div 2  hh == (f.h + 1) \div 2
                  IN  Rect(f.pos.x - hw, f.pos.y - hh, 2 * hw, 2 * hh)

InOutline(r, outline) == /\ r.x >= outline.x /\ r.x + r.w <= outline.x + outline.w
                         /\ r.y >= outline.y /\ r.y + r.h <= outline.y + outline.h

UniqueIds(b) == \A o, q \in Objects(b) : o.id = q.id => o = q

InsideOutline(b) ==
  /\ \A f \in b.footprints : InOutline(OutlineRect(f), b.outline)
  /\ \A p \in b.pads \cup b.vias : RectContains(b.outline, p.pos)
  /\ \A r \in b.routes : RectContains(b.outline, r.start) /\ RectContains(b.outline, r.end)
  /\ \A z \in b.zones \cup b.keepouts : InOutline(z.bounds, b.outline)

ReferencesResolve(b) ==
  /\ \A o \in b.pads \cup b.routes \cup b.vias \cup b.zones :
       /\ o.net \in DOMAIN b.class \/ (o.kind = "pad" /\ o.net = NoNet)
       /\ o.layers \subseteq b.layers
  /\ \A k \in b.keepouts : k.layers \subseteq b.layers
  /\ \A f \in b.footprints : f.layer \in b.layers /\ f.keepouts \subseteq {k.id : k \in b.keepouts}
  /\ \A p \in b.pads : \E f \in b.footprints : f.id = p.fp

\* What BoardSnapshot asks of a board it loads.
Loadable(b) == UniqueIds(b) /\ InsideOutline(b) /\ ReferencesResolve(b)

-----------------------------------------------------------------------------
(* The operations: what each does to a board, when it is refused, and the  *)
(* ids it announces.                                                       *)

\* Footprints take their pads along.
Placed(b, pos) ==
  LET origin(p) == (CHOOSE f \in b.footprints : f.id = p.fp).pos
      moved(p) == Point(p.pos.x + pos[p.fp].x - origin(p).x, p.pos.y + pos[p.fp].y - origin(p).y)
  IN  [b EXCEPT !.footprints = {IF f.id \in DOMAIN pos THEN [f EXCEPT !.pos = pos[f.id]] ELSE f : f \in @},
                !.pads = {IF p.fp \in DOMAIN pos THEN [p EXCEPT !.pos = moved(p)] ELSE p : p \in @}]

IsOp(op) ==
  \/ op.type = "place" /\ \A i \in DOMAIN op.pos : op.pos[i] \in Points
  \/ /\ op.type = "route" /\ IsFiniteSet(op.segments) /\ IsFiniteSet(op.vias)
     /\ (\A r \in op.segments : IsRoute(r)) /\ \A v \in op.vias : IsVia(v)
  \/ op.type = "zones" /\ IsFiniteSet(op.zones) /\ \A z \in op.zones : IsZone(z)
  \/ op.type = "stitch" /\ IsFiniteSet(op.vias) /\ \A v \in op.vias : IsVia(v)
  \/ op.type \notin {"place", "route", "zones", "stitch"}

Applied(b, op) ==
  CASE op.type = "place"  -> Placed(b, op.pos)
    [] op.type = "route"  -> [b EXCEPT !.routes = {r \in @ : r.id \notin op.removed} \cup op.segments,
                                       !.vias = @ \cup op.vias]
    [] op.type = "zones"  -> [b EXCEPT !.zones = @ \cup op.zones,
                                       !.pads = {IF p.id \in op.thermal THEN [p EXCEPT !.thermal = TRUE]
                                                 ELSE p : p \in @}]
    [] op.type = "stitch" -> [b EXCEPT !.vias = @ \cup op.vias]
    [] OTHER              -> b

Refused(b, op) ==
  \/ /\ op.type = "route"
     /\ \/ \E i \in op.removed : ~\E r \in b.routes : r.id = i /\ ~r.lock
        \/ \E a \in op.segments \cup op.vias : a.id \in Ids(b) \ op.removed
  \/ op.type = "zones" /\ \/ \E z \in op.zones : z.id \in Ids(b)
                          \/ \E i \in op.thermal : ~\E p \in b.pads : p.id = i /\ p.net = GND
  \/ op.type = "stitch" /\ \E v \in op.vias : v.id \in Ids(b)
  \/ op.type \notin {"place", "route", "zones", "stitch"}  \* a lock: the adapter has none

\* A mutant: the pads a footprint takes along are not announced.
Announced_NoPads(b, op) ==
  CASE op.type = "place"  -> DOMAIN op.pos
    [] op.type = "route"  -> op.removed \cup {a.id : a \in op.segments \cup op.vias}
    [] op.type = "zones"  -> {z.id : z \in op.zones} \cup op.thermal
    [] op.type = "stitch" -> {v.id : v \in op.vias}
    [] OTHER              -> {}

Announced(b, op) ==
  CASE op.type = "place"  -> DOMAIN op.pos \cup {p.id : p \in {p \in b.pads : p.fp \in DOMAIN op.pos}}
    [] op.type = "route"  -> op.removed \cup {a.id : a \in op.segments \cup op.vias}
    [] op.type = "zones"  -> {z.id : z \in op.zones} \cup op.thermal
    [] op.type = "stitch" -> {v.id : v \in op.vias}
    [] OTHER              -> {}

\* The ids of the objects that appear, disappear or differ.
SemanticDiff(before, after) ==
  {o.id : o \in (Objects(before) \ Objects(after)) \cup (Objects(after) \ Objects(before))}

Locks(b) == {<<o.id, o.lock>> : o \in b.footprints \cup b.routes \cup b.vias \cup b.zones}
LockChanged(before, after) ==
  {l[1] : l \in {l \in Locks(before) : <<l[1], ~l[2]>> \in Locks(after)}}

\* validate_proposed_snapshot: what is locked is where it was.
KeepsLocked(before, after) ==
  /\ \A f \in before.footprints :
       f.lock => \E g \in after.footprints : g.id = f.id /\ g.lock /\ g.pos = f.pos /\ g.layer = f.layer
  /\ {o \in before.routes \cup before.vias \cup before.zones : o.lock} \subseteq Objects(after)

\* The working copy: the board so far, whether an operation raised an error, and the ids announced.
Begun(b) == [board |-> b, raised |-> FALSE, announced |-> {}]

Stepped(copy, op) ==
  LET next == Applied(copy.board, op)
  IN  [board |-> next,
       raised |-> copy.raised \/ Refused(copy.board, op) \/ ~Loadable(next),
       announced |-> copy.announced \cup Announced(copy.board, op)]

\* One operation after the other.
Applying(b, ops) ==
  LET copy[n \in 0 .. Len(ops)] == IF n = 0 THEN Begun(b) ELSE Stepped(copy[n - 1], ops[n])
  IN  copy[Len(ops)]

Verdict(before, copy) ==
  LET after == copy.board
      unexpected == (SemanticDiff(before, after) \ copy.announced) \cup LockChanged(before, after)
  IN  IF copy.raised THEN "raised"
      ELSE IF unexpected # {} THEN "mismatch"
      ELSE IF ~KeepsLocked(before, after) THEN "rejected"
      ELSE IF Check(after) # {} THEN "findings" ELSE "clean"

\* A candidate that is not clean is given up, and the board stays as it was.
Apply ==
  /\ proposal.ops # <<>>
  /\ LET end == Applying(board, proposal.ops)
         verdict == Verdict(board, end)
     IN  /\ outcome' = [by |-> proposal.by, verdict |-> verdict]
         /\ board' = IF verdict = "clean" THEN end.board ELSE board
  /\ proposal' = NoProposal
=============================================================================
