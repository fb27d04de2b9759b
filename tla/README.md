# PCBFlow: models and proofs

TLA+ modules for the durable core of PCBFlow (`src/src/pcbflow`) and for the
algorithms its design rests on, the TLC runs that check them on small instances,
and TLAPS proofs of what matters most. `PROJECT.json` maps every definition to
the lines it models, lists the components, the hazards, the runs and the theorems.

## 1. The system

PCBFlow drives PCB design work from evidence: requirements are frozen by a human
gate, design changes and PCB candidates are produced by background tasks, every
report is a content-addressed artifact, and people approve (gates G1,
DESIGN_CHANGE, G3, G4) what the evidence shows. It is a local program: one SQLite
database in WAL mode, a directory of artifacts, one bare Git repository per
project, and processes (CLI, API server, MCP server, resident workers) that share
them. All coordination goes through the database. The designs themselves are
edited by deterministic engines: a schematic adapter that rewrites KiCad files,
and for boards a placement solver, a router, a copper planner and a rule checker.

| Component | State | Operations | What makes it correct |
|---|---|---|---|
| Task queue, `TaskRepository` (`repositories.py`) | `tasks`, `task_attempts` | enqueue, claim_next, start, renew, complete, fail, cancel, assert_active | a lease has one holder; only the holder settles; verdicts and cancellations are final; the history agrees with the row |
| Worker protocol, `Worker.run_claimed` (`tasks.py`) | one execution, its heartbeat thread | start, check, handler, check, settle | no call after a lost lease takes effect; every slot comes free |
| Resident service (`worker_service.py`, `worker_health.py`) | `active_tasks`, lifecycle state, counters, health file | run_one_cycle, execution threads, lease renewal, shutdown | what it knows of its executions is so; a clean shutdown leaves nothing running; the service stops when asked |
| Cancellation scope, process runner (`cancellation.py`, `process.py`) | probe per thread, child process | run, probe, terminate, reap | a cancelled task's tool is stopped |
| Evidence and findings (`repositories.py`) | `artifacts`, `evidence`, `findings` | add_report, add_many, settle_publication | a task that succeeded has its evidence, whichever run recorded it |
| Artifact store (`artifacts.py`) | staged files, objects by digest | stage, publish, verify, discard, rollback | nobody's failure takes away an object that another has made or recorded |
| Validation and capability probe (`validation.py`, `pcb_workflow.py`) | evidence of a task | handlers, capability gate | a rerun replays or repairs; an open gate stays open |
| Project, managed revisions, reconciler (`repositories.py`, `revisions.py`) | project and revision rows, design, proposal and requirement refs | adopt, commit, publish, promote, reconcile | one line of accepted revisions; the design ref follows it |
| Requirements and G1 (`requirement_store.py`, `approvals.py`) | `requirement_sets`, decisions | import, submit, decide | what was frozen is what was approved |
| Design change proposals (`proposal_store.py`, `proposals.py`) | `change_proposals`, command batches, decisions | create, begin, mark_*, accept, reject | one accepted successor per base revision; what was reviewed is what is accepted; decisions stand |
| PCB candidates and G3 (`pcb_candidate_*.py`, `approvals.py`) | `pcb_candidates` | create, execute, mark_*, revert, decide_g3 | an approved candidate is the one the evidence describes; task and candidate agree |
| Release and G4 (`pcb_release.py`, `release_packaging.py`, `manufacturing.py`) | release part of a candidate, release artifacts | enqueue_export, export, mark_ready, restore, decide_g4 | only what passed both gates is released |
| Schematic engine (`schematic/`) | the files of a working copy | parse, diff, apply, instantiate | an accepted batch did what it says and nothing else; a refused one left no trace |
| Board engine (`board/`) | a board snapshot | place, route, pour, check, apply | what a tool offers satisfies the checker and is executed as meant |
| Catalogue, bindings, EDA authority | one table each | create, configure | idempotent replay |
| Interfaces, configuration, formatting | none | translate calls | - |

Interaction: the stores enqueue a task in the transaction that creates their own
row; a worker claims the task and runs the handler; the handler writes artifacts,
evidence and its row's status under the fence `assert_active_fence`; `cancel`
mirrors a cancellation on a candidate in its own transaction; approvals read
evidence and decide with a compare-and-swap; the reconciler repairs the design
ref after crashes, at the start of every process and before most decisions. The
executor of a proposal calls the schematic adapter; the tools of a board propose
operations that the board adapter applies to a copy.

What is hard here: SQLite's `SELECT` runs before the write transaction opens, so
every read-then-update is a race guarded by a version column; leases expire by
wall clock while their holders go on; processes die between any two commits; the
repository, the file system and the database are updated in separate steps; and
each algorithm of a board measures the same distances with predicates of its
own. The `hazards` of `PROJECT.json` list the places.

## 2. Modules

| Module | Content |
|---|---|
| `TaskLifecycle` | what the queue promises the rest of the system: grants under fresh tokens, one holder, final endings |
| `TaskQueue` | `TaskRepository`, the worker protocol and callers of `cancel`, with clock, crashes and failing heartbeats; implements `TaskLifecycle` |
| `TaskQueueProofs` | proofs about `TaskQueue` |
| `WorkerService` | the resident worker over `TaskLifecycle`: the loop of the CLI, executor threads, slots, signals, shutdown |
| `PcbCandidate` | one PCB candidate over `TaskLifecycle`: generation, evidence, G3, release export, G4, cancellation |
| `EvidencePublication` | how handlers leave evidence behind, over `TaskLifecycle`: objects, rows, findings, rollback, the capability gate |
| `ManagedProject` | a project, its history, requirement sets with G1, refs, adoption and the reconciler |
| `DesignChange` | `ManagedProject` with change proposals: creation, execution over `TaskLifecycle`, decisions, promotion |
| `PcbCandidateProofs` | proofs about `PcbCandidate` |
| `WorkerServiceProofs` | proofs about `WorkerService` |
| `DesignChangeProofs` | proofs about `DesignChange` |
| `EvidencePublicationProofs` | proofs about `EvidencePublication` |
| `BoardGeometry` | the integer geometry of `board/geometry.py` and the clearance predicates |
| `BoardRules` | a board, and the findings of `BoardRuleChecker` |
| `BoardAdapter` | operations on a board: announced changes, semantic diff, checks on loading, locked objects, verdict |
| `BoardPlacement` | `PlacementSolver`: legal cells, start, annealing, score |
| `CopperPlan` | `CopperPlanner`: excluded regions, tiles, islands, stitching, plan |
| `BoardLayout` | composition: solver, client and planner take turns at one board |
| `BoardLayoutProofs` | proofs about `BoardLayout` |
| `RouteSearch` | `_route_net`, `_astar` and the copper of a way |
| `RouteNegotiation` | `Autorouter.route`: rounds, stripping, offer, and its execution |
| `RouteNegotiationProofs` | proofs about `RouteNegotiation` and the search it calls |
| `SchematicNets` | documents read from files, nets, and the semantic diff |
| `SchematicEdit` | `CstSchematicAdapter.apply`: batches of edits, modules, writes, verdict, rollback |
| `SchematicEditProofs` | proofs about `SchematicEdit` |
| `MC...` | instances for TLC |

`PcbCandidate`, `WorkerService`, `EvidencePublication` and `DesignChange` take the
queue at its promise: their tasks move by `Submit`, `Grant`, `Surrender` and
`Revoke` of `TaskLifecycle` only, which is what `TaskQueue` is shown to implement.

A definition whose comment begins with "Not so" or calls it a mutant is a faulty variant of the
definition below it. The variants are not part of the model; they show that the
properties notice such a fault (`mutants` in `PROJECT.json`).

### TaskQueue and the code

`row` is `TaskRow` (status, lease token, expiry, retry time, attempt_count,
version); `attempt` is `TaskAttemptRow`; `worker` is the local state of each
execution of `run_claimed`, `client` that of each call of `cancel`.

| Action | Code |
|---|---|
| `Enqueue` | `enqueue`, `enqueue_in_session` (a replayed key changes nothing and is a stutter) |
| `CancelRead`, `CancelWrite`, `CancelLost` | the SELECT, the UPDATE that matched, the UPDATE that did not; three rounds |
| `SelectTask`, `ClaimTask`, `ClaimLost` | the SELECT, the UPDATE that matched, the UPDATE that did not. After three lost rounds `claim_next` returns None and the worker polls again, which is what a lost round does in the model |
| `StartTask`, `UnknownKind`, `CheckBefore`, `HandlerEnds`, `HandlerFenced`, `CheckAfter`, `Settle` | `run_claimed`, one step per repository call; `Settle` is `complete` or `fail` |
| `Heartbeat`, `HeartbeatFails` | the heartbeat thread of `run_claimed`: a renewal, a stale lease, any other exception |
| `ServiceRenew` | `WorkerService._renew_active_leases` |
| `Crash` | the process dies, or an exception leaves `run_claimed` |
| `Tick` | time passes |

Decisions of the model. *Transactions*: a call that is one UPDATE is one step; a
call that SELECTs and then UPDATEs is two steps, because pysqlite opens the write
transaction at the first DML statement. `fail` reads `attempt_count` by lease
token before its fenced UPDATE; a token is minted together with a count that never
changes under it, so the two are one step. *Time*: a row stores the ticks left
until its lease expires or its retry is due. Callers read their clock before they
call, so each call is late by 0..`Lag` ticks: a fence is checked against, and a
lease extended from, an instant in the past. *Handlers* are their outcomes. A
handler that fences itself (`assert_active`) or waits for an external tool can end
early (`HandlerFenced`). *Not in this module*: payloads, error codes, results, and
the PCB candidate that `cancel` updates in the same transaction.

### PcbCandidate and the code

`cand` is `PcbCandidateRow`, `evidence` the evidence set registered for the
generation task, `worker` the execution of a handler, `review` the row that
`decide_g3` or `decide_g4` has read.

| Action | Code |
|---|---|
| `Create` | `PcbCandidateStore.create` with the task it enqueues |
| `Claim`, `Begin`, `Settle`, `Crash` | `claim_next`, the start of a handler, the end of `run_claimed`, the death of the process |
| `Transition`, `Check`, `Revert` | `_transition`: the UPDATE with its fence, the second fence in a transaction of its own, `_revert_stale_transition` and `_revert_stale_release_transition` |
| `MirrorRead`, `MirrorWrite` | `_mirror_cancelled_task`: a SELECT, and an UPDATE by primary key |
| `Generate` | `PcbCandidateTaskHandler.__call__` between its first and its last write: capability check, adapter, `add_reports_and_findings` |
| `Fetch`, `Export`, `MarkReadyForG4`, `RestoreG3` | the release handler of `pcb_release.py`: success, an error it catches, a lost fence, an error it does not catch |
| `EnqueueReleaseExport` | `enqueue_release_export`, with a new key or with one used before |
| `CancelTask` | `TaskRepository.cancel` with `_mirror_cancelled_candidate` |
| `Review`, `DecideG3`, `DecideG4` | the read and the decision of `decide_g3` and `decide_g4`, which are two transactions |

Decisions of the model. *Evidence* is a digest; `Clean` are the digests whose
findings do not block. That all parts of the review contract agree is that one
digest is compared. *Versions* are kept, because the undo of a stale write is
guarded by them. *Export keys* are their tasks: a request with a key used before
finds its task again. *Left out*: replays that change nothing, object files
(artifact store), the content of a manifest and of its package, paging.

### WorkerService and the code

`main` is the main thread, `thread` the executor threads, `active` is
`active_tasks` (the token registered for a task, 0 for none), `service` the fields
of `WorkerService`, `other` the leases of other services.

| Action | Code |
|---|---|
| `Loop` | the loop of `worker --run` in `cli.py`, with and without `--exit-when-idle` |
| `Capacity`, `Claim`, `NothingToClaim`, `ClaimFails`, `Register`, `Spawn`, `Await`, `Finally` | `run_one_cycle`, in its order; `Await` is the synchronous execution with one slot |
| `Signal`, `RequestShutdown`, `Stop` | the signal handler, `request_shutdown`, `shutdown_gracefully` with and without its timeout |
| `Start`, `Run`, `Break`, `Count`, `Leave`, `Delete` | `_execute_task_in_thread`: start of `run_claimed`, its end, an error, the status read again, the two halves of `finally` |
| `Enqueue`, `Cancel`, `OtherClaims`, `OtherEnds` | clients and other services at the same queue |

Main thread and executor threads share `active_tasks` without a lock, so each
access is a step. `clean` is what `shutdown_gracefully` returns; the CLI ignores it
(it disposes of the container and exits with 0 either way, though
`docs/superpowers/specs/2026-08-03-resident-worker-design.md:176` speaks of exit
code 1 for a forced stop). *Left out*: the health file, `failed_count` and the
backoff, which nothing in the service reads; renewal by the service is an action
of `TaskQueue`.

### ManagedProject, DesignChange and the code

`project` is `ProjectRow`, `history` the revision rows in their order, `sets` and
`proposals` the rows of `requirement_sets` and `change_proposals`, `refs` the refs
of the bare repository (the design ref and one candidate ref per subject), `client`
one call of a service each, `worker` one execution of a proposal each. The database
is the authority; refs are written outside its transactions.

| Action | Code |
|---|---|
| `StartAdopt`, `InitRepository`, `CreateDesignRef`, `MarkManaged`, `FailAdoption` | `RevisionService.adopt` under the project's file lock: repository, ref, transaction, undo |
| `StartUp` | `build_container`: every process reconciles when it starts |
| `ListAndCheck`, `ResolveDesignRef`, `RepairDesignRef`, `Resume` | `RevisionReconciler.run_once` and `assert_writable`: facts and candidate refs, the design ref read, compared and promoted in a separate step |
| `StartImport`, `CreateDraft` | `RequirementService.import_draft` |
| `StartSubmit`, `PublishSetRef`, `MarkSubmitted` | `RequirementService.submit`: reconciliation, commit and ref, transaction |
| `StartG1`, `ApproveG1`, `RejectG1` | `ApprovalService.decide_g1` |
| `StartCreate`, `CreateQueued`, `CancelTask` | `ProposalService.create`; the queue's `cancel`, which tells the proposal nothing |
| `Claim`, `ReadRows`, `BeginExecution`, `Execute`, `FenceRef`, `PublishCandidateRef`, `MarkReady`, `MarkValidationFailed`, `Settle` | `ProposalExecutor` in its order, one step per fence and per write |
| `StartAccept`, `DecideAccept`, `PromoteDesignRef`, `StartReject`, `DecideReject` | `ProposalDecisionService` |
| `CrashCall`, `CrashWorker` | death of a process between any two of these |

Decisions of the model. *A commit* is its subject and its tree, which determine it:
parent, author and time come from the subject's row. *A call* keeps what it read
(`seen`, `revision`, `target`, `actual`) until it uses it. The listing of the refs
and the checks of the facts are one step of the reconciler; a project that moves in
between fails the call, which is what a death of the call does. *Left out*: replays
of a decision or a creation under a key used before (they change nothing),
`replace_payload`, `approve_and_freeze` and `reject` of `RequirementStore` (nothing
calls them), sets with a blocking assumption (they are not submitted), conflicts of
a proposal's evidence, the path and content checks on a snapshot.

### EvidencePublication and the code

`flow` is the kind of a task, `worker` a run with the bytes its tools wrote, what it
has published and whether it made or found each object, `objects` the digests in the
store, `rows` the artifact rows, `evidence` the digest bound to each task and kind,
`noted` the findings, `latest` the probe
recorded last.

| Action | Code |
|---|---|
| `Enqueue`, `CancelTask`, `Claim`, `Crash` | the queue, at its promise |
| `Replay` | a probe that an earlier run recorded is answered from the record |
| `RunTools`, `LoseAtBegin`, `Fenced` | the tools of a handler and its fences |
| `Publish`, `PublishFails` | `ContentAddressedStore._publish_staged`: the object is made, or found and verified |
| `CheckReport`, `InsertReport`, `NoteFindings` | `add_report`: the SELECTs with the fence, then the INSERT that opens the write transaction; `FindingRepository.add_many` |
| `Register` | `add_reports_and_findings` of a candidate, `_register_release_artifacts` of a release |
| `Settle` | `settle_publication`: rollback of what this run made and no row names |
| `End` | the result, or the error, that `run_claimed` records |

Decisions of the model. *An object* is its digest; two runs, or two tasks, may write
the same bytes. The rollback's look at the rows and its unlinks run under one write
lock and are one step, as are the fence and the inserts of `add_many`. The newest
probe, which the gate reads, is the last one committed. *Left out*: staging files a
crash leaves behind, collection of old objects (the code has none), corrupted
objects.

### The board modules and the code

A board (`BoardSnapshot`) is a record of its outline, layers, classes, keepouts and
the sets of footprints, pads, routes, vias and zones. `BoardGeometry` and
`BoardRules` are pure: distances and overlaps as `geometry.py` computes them, and
one operator per group of findings of `BoardRuleChecker`. `BoardAdapter.Apply` is
`apply_operations`: it applies, loads the result again, and compares the semantic
diff with what the operations announced. `IsBoard` and `IsOp` say what the rules
compute with (points and rectangles of integers, sizes and clearances not negative,
zones and keepouts with a width and a height, nets of a known class); `Loadable` is what `BoardSnapshot` demands of itself.

| Action | Code |
|---|---|
| `SolveBegins`, `SolveInfeasible`, `SolveStart`, `Move`, `EndStart`, `Place` | `PlacementSolver.solve`: legal cells, one start after the other, one random move after the other, the offer |
| `Hand` | operations a client sends with a request |
| `PlanRefused`, `PlanStarts`, `TakeLayer`, `CutRegion`, `CloseLayer`, `PlanEnds` | `CopperPlanner.plan`: refusal, layers, one excluded region after the other, islands, stitching, self-check |
| `Execute`, `Advance` | the candidate executor: adapter, locked objects, rule findings; a clean candidate is where the next tool starts |
| `RouteBegins`, `RouteFirst`, `EndFirst` | the first round of `Autorouter.route` |
| `NextRound`, `TakeNet`, `Try`, `RouteAgain`, `GiveUpNet` | a retry round: one net, one obstacle it strips, the stripped net again |
| `RouteEnds`, `RouteLeaves` | the offer: the board's own routes taken away, new ones added, one more check |

Decisions of the model. *The search* returns any of the cheapest ways
(`CheapestWays`): which of several is settled by the order of a heap. Its heuristic
is admissible as long as a grid step is at most 1000 micrometres, so what it returns
is a cheapest way. *The constraint solver* is external: any assignment of legal
cells without overlap that moves the footprints least, among those not excluded.
*Random moves* are any moves. *The order of the obstacles* a net may strip is any.
*Left out*: outlines other than rectangles, odd sizes, scalar minimum widths (the
boards meet them), identifiers of zones and vias, the fields operations have in
common, `target_object_ids`, one thermal policy value per pad, records
of evidence. Kept although one may not expect it: the vias of a ripped net stay in
the router's copy as obstacles, one finding of the last check rejects the whole
offer, the router looks neither at keepouts for vias nor at unlocked zones, and an
unlocked route of a net nobody asked for may be stripped and leave that net in two
parts, which only the checker notices.

### The schematic modules and the code

`SchematicNets.Document` is `parse_schematic`: sheets, symbols, labels and nets of
every instance of every file, or nothing when it raises. `Changes` and `Attributed`
are `build_semantic_diff` and the test that each change is claimed by exactly one
command. In `SchematicEdit`, `files` is the working copy and `run` the call in
progress.

| Action | Code |
|---|---|
| `ApplyEdits` | `_apply_controlled_operations` up to the first write: resolution, expected values, references, label bindings, overlapping edits |
| `Instantiate` | `_instantiate` up to the first write: the child file, the sheet node, a label and a wire per port |
| `WriteFile`, `WriteFails` | `_atomic_replace` and `_atomic_create`, which may raise |
| `Judge` | the project read again, the diff, its attribution, the connections of a module's ports |
| `Restore`, `RestoreFails` | the rollback, file by file |

Decisions of the model. *UUIDs* are numbers, of which only equality and order are
used; those the code derives by hashing are any unused number, so that a new label
may come before or after every UUID of its net. All wires and junctions carry UUIDs.
The files of a batch are written in any order. A working copy whose rollback failed
is thrown away by the caller. *Left out*: declared `net` nodes, UUIDs duplicated
across files, path and link safety, the byte layout of the CST, the integrity of the
module catalogue, the look-up of components.

## 3. Runs

| Run | Specification and instance | Shows |
|---|---|---|
| `task_queue_safety` | `Spec`; 1 task, 2 slots, 1 cancel call, 2 claims, 2 attempts, lease of 2 ticks, 1 tick of lag, 1 renewal per lease, 1 fault | the inductive invariant of the proofs, the newest execution of a task owns it although two slots may execute it, a cancellation that was answered holds, leases are respected, and `TaskLifecycle` is implemented |
| `task_queue_progress` | `TimelySpec`; the same, no lag, 3 claims | every enqueued task ends, every slot comes free |
| `pcb_candidate` | `Spec`; one generation and two release tasks, 2 workers, 1 reviewer, 2 digests of which 1 is clean, 2 manifests, 3 grants per task, 2 lapsed leases, 1 crash, 1 uncaught error, 1 reused key, 1 rejection | G3 decides about the evidence that was reviewed, G4 about the manifest that is released unless a lease lapsed under a live worker, a cancellation reaches the candidate and sticks, no undo touches what others wrote, what a task reports as done stays visible |
| `pcb_candidate_progress` | `FairSpec`; 2 crashes, no lapsed lease | no candidate stays queued, executing or release_pending |
| `worker_service` | `FairSpec`; 2 tasks, 1 or 2 slots, 2 threads, 2 claims, one each of: signal, lease taken over, task claimed twice, broken execution, thread that does not start | entries and counts tell what the threads do, a clean stop is clean, the service stops after a signal, slots come back |
| `design_change` | `Spec`; 2 requirement sets, 1 proposal, 2 contents, 2 clients, 1 worker, 1 crash, 2 grants | one line of accepted revisions, the facts the reconciler demands, reviewed is accepted, refs name nothing else |
| `design_execution` | `FairSpec`; 1 set, 1 proposal, 2 contents, 1 client, 2 workers, 1 crash, 3 grants, 1 lapsed lease | decisions stand against late runs, each proposal comes to review or fails, the design ref follows the database |
| `evidence_publication` | `Spec`; 2 tasks of any kind, 2 reports, 2 digests, 2 workers, 2 grants per task, 1 crash or lapse | nobody takes away what another publication made or a release names, a success is backed by its bytes, an open gate stays open |
| `board_layout` | `Spec`; 162 boards, all but one of 12 by 10, one without ground net, one without room for copper; grid of 4, 2 starts, 1 move, 2 layers, 2 stitching vias | tiles cover exactly what is left, each cell once, plans and placements meet the checker, offers are executed as meant |
| `board_routing` | `Spec`; 96 boards of 10 by 8 with a step of 2, requests {A}, {A, B}, {B, P, U} with U unknown, 3 retry rounds, 2 calls, 1 via per net | the copy is the offer, what the router finds legal the checker does, solved nets are joined, offers are executed |
| `board_routing_ids` | the same | finding: a retry gives a route the name of the one it removes |
| `schematic_edit` | `Spec`; 2 projects, batches of at most 2 edits, modules, 3 commands, 1 failing write | an accepted command does what it says and nothing else, references stay apart and labels of one name together, a failure leaves no trace |

*Types.* The invariant `TypeOK` of `TaskQueue` is part of `IInv`; that of
`WorkerService` is part of `ViewIsRight`; those of `PcbCandidate`, `DesignChange` and
`EvidencePublication` are proved only, and so is what takes their place in the
modules of structured values: `TypeOK` of `SchematicEditProofs` (files stay files),
`BoardStaysLoadable` of `BoardLayoutProofs`.

### Finding

*A retry can name its route like the one it removes* (`board/operations.py:102`).
In a retry the net's own unlocked routes leave the copy before `_fresh_id` looks for
a free name (`routing.py:258`, `routing.py:384`), so a route the router itself named
in an earlier call passes its name on, and `RouteNets` refuses the offer.
`PROJECT.json` quotes the test that describes the intended result.

### What the code does not keep

Properties one might expect, each with a configuration in which TLC finds a
counterexample (one has none: it is plain from the code). They are kept for a reader
who changes the code; they are not runs.

| Property | Configuration | What happens |
|---|---|---|
| `AttemptsBounded` | `TaskQueueAttemptsBounded.cfg` | a reclaim raises `attempt_count` without comparing it with `max_attempts` (`repositories.py:694`) |
| `LostLeaseStops` | `TaskQueueLostLeaseStops.cfg` | a handler goes on after a lost lease when the heartbeat ended with another error first (`tasks.py:104`) |
| `ReleasedStays` | `PcbCandidateReleasedStays.cfg` | a late mirror of a cancelled release task makes a released candidate cancelled (`pcb_candidate_store.py:454`) |
| `DecidedManifest` | `PcbCandidateDecidedManifest.cfg` | a G4 decision is recorded for a manifest nobody saw (`pcb_release.py:515`), although it should be about "the immutable release manifest" (`pcb_release.py:420`): `decide_g4` compares the manifest with a row it read before it takes the lock, and under it looks at the status alone. A worker that lost its lease takes its release back, the next one exports another, and a reviewer who read the first decides. Without a lapse `G4IsBacked` excludes it (proved) |
| `FailedExportReopens` | `PcbCandidateFailedExport.cfg` | a failed export leaves the candidate reserved by an ended task (`pcb_candidate_store.py:514`) |
| `SlotsBounded` | `WorkerServiceSlots.cfg` | the slots are exceeded after a task was claimed twice (`worker_service.py:294`) |
| `RegisteredIsStored` | `EvidenceStored.cfg` | a validation or a candidate records an object that another publication has rolled back in between (`repositories.py:963`); a release looks again and does not. `NeededIsStored` covers the other part of this race: what a publication made itself, and the evidence of a release |
| `DesignRefMovesForward` | `DesignRefBackward.cfg` | the reconciler promotes to a revision it read before an acceptance (`revisions.py:1153`); the next reconciliation repairs it |
| `ProposalMoves` without its exception | | cancelling the task of a proposal leaves the proposal queued or executing (`repositories.py:534`); `ProposalMoves` excludes cancelled tasks |
| `RerunsEnd` | `DesignReruns.cfg` | a rerun of a proposal that is ready or decided, whose tree differs from that of the earlier run, can neither swap the candidate ref nor report its failure; it is refused like a run that lost its lease and leaves its task held (`proposal_store.py:419`) |
| `ModuleLabelsTogether` | `SchematicModuleNames.cfg` | the labels of a module's ports are not held against the labels there are |
| `ModuleJoinsNothingElse` | `SchematicModuleWires.cfg` | the straight wire to a port joins a foreign pin on its way |

Two more things a reader of `SchematicEdit` may trip over: two labels added to one
net in one batch are always refused, because neither can claim the net's change; and a label where
one wire ends on the middle of another lies on two nets, so `LabelsStayTogether`
asks for one common net.

### Bounds

*Queue.* `MaxClaims`, `MaxRenewals`, `MaxFaults` and `Lag` cut counters the code
leaves unbounded. Two claims with two slots contain a takeover of an expired lease,
a retry, a retry that exhausts `MaxAttempts` = 2, and a race of two claims; three
claims add a takeover after a retry. One task suffices for the safety of rows,
because no invariant relates two tasks and a step changes one row (the proofs hold
for any number).

*Candidate.* Two workers are one whose lease lapsed and its successor, of the
generation or of a release; two lapses contain a second takeover, and a lapse in
each task. Two keys contain a failed release followed by another. Two digests
contain a rerun that produces other evidence, two manifests a release that is taken
back and exported again. `CancelledReleaseFrees` and `CandidateMoves` are stated
without reused keys: the key of an ended task reserves the candidate for that task,
which nobody will run. One reviewer suffices because a decision by somebody else
in between is the same as a cancellation or an undo to the reviewer: the row differs
from what was read.

*Service.* A task claimed twice, a thread that does not start and a broken execution
each happen once and in every order; a second one of a kind adds no order that two
threads do not have. The properties of a task claimed twice are stated with the
number of such claims (`spent.retaken`), so they say what the code keeps whether or
not it happens.

*Design.* Two sets contain a supersession and a race of two approvals; a set and a
proposal race for one base; two contents let a rerun build another tree. Two clients
are a decision and a reconciliation, or two decisions. The execution run trades the
second client and set for a second worker whose predecessor's lease lapsed.

*Evidence.* Two tasks with two digests contain the shared object, made by one and
found by the other; two reports contain a run that dies between them; two grants and
one fault a run and its successor.

*Board.* The boards are chosen so that every rule of the checker, every kind of
keepout, locked and free objects of each kind, and each predicate of the planner and
the router decides in some of them. Two layers with one via per net contain a way
around a barrier and one under it; two calls let the second find the first one's
routes. Sizes are a few units, one micrometre each: the clearances 0 to 2 make every
comparison fall on both sides, and on its boundary.

*Schematic.* A batch of two contains every conflict of two edits; the third command
finds what the first two left. One sheet file used twice contains the instances that
share a file; the wires that touch in a T, cross, or end on each other are in the
two projects. A label's number below, between and above those on its net contains
the three places it can take in their order.

The systems really stop when all bounds are spent, when a service has stopped or a
candidate is released; deadlock is checked for the queue alone.

### Fairness

*Queue* (`TimelySpec`). Threads are scheduled, a handler returns (external tools run
under `process_timeout_seconds`), the clock advances, a cancel call that read a row
finishes. `TickInTime` says that a slot whose heartbeat has not failed renews in
time: the heartbeat waits a third of the lease (at most 30 s) between renewals, so a
lease runs out under a living slot only after a failed heartbeat, a crash, or a
suspended process. Crashes and failed heartbeats remain possible. Nothing forces a
client to call `cancel` or `enqueue`.

*Candidate and service* (`FairSpec`). Workers and threads are scheduled, and an idle
worker polls. The progress of a candidate is checked without leases that lapse under
a live worker: with them `FailedExportReopens` is a candidate that stays. Nothing
forces a reviewer, a client or another service to act.

*Design* (`FairSpec`). Workers and calls go on, idle workers poll, and `StartUp` is
fair: processes are started again and again, each reconciles, and nothing else would
repair a ref after a crash between the commit of an acceptance and its promotion.
Nothing forces a reviewer to decide or a client to submit.

`board_layout`, `board_routing`, `schematic_edit` and `evidence_publication` check
safety only.

## 4. Proofs

No theorem assumes more than the named assumptions on constants
(`TaskQueueAssumption`, `CandidateAssumption`, `ServiceAssumption`,
`ProjectAssumption`, `RevisionAssumption`, `EvidenceAssumption`, `BoardsAssumption`
and the like), which TLC evaluates on every run of the module, and, in three modules,
the hypotheses its section states: `NamesApart` and `PadsApart` in
`RouteNegotiationProofs`, `PadsInside`, `Unpoured` and `GroundIsKept` in
`BoardLayoutProofs`, and files that `IsDrawn` in `SchematicEditProofs`.

### TaskQueueProofs

For every number of tasks, slots and calls and every value of the lease, retry and
bound constants allowed by `TaskQueueAssumption` (positive attempts, lease and
delays, base delay not above the cap, lateness below one lease): each safety
invariant and action property, and the refinement of `TaskLifecycle`.

The invariants are not inductive alone. `IInv` adds:

- `TokenIsNewest`, `AttemptIffMinted`: only a held row carries a token, it is the
  newest, and attempt rows exist for minted tokens. Without it a reclaim could
  revive an old token, and the history could not be tied to the row.
- `SelectionReliable`, `CancelReliable`: what a slot or a cancel call read before
  its UPDATE describes the row whenever the version still matches. This is the
  whole argument for the compare-and-swap: every UPDATE raises the version.
- `ExecutionReliable`: a slot executes under a minted token and settles with an
  outcome of its handler.
- `TokensAreExclusive`: each claim mints its own token, so what is recorded under a
  token concerns one execution.

`NewestExecutionOwns` rests on it. Two slots may be inside the handler of one task, and
the property says which of them counts: the newest, until its own verdict or a
cancellation. `OnlyTheHolderSettles` shows that a verdict comes from the slot with the
row's token, which has then left the execution; `OwnershipStep` adds that a claim, the
one step that replaces the newest execution, records the attempt of its predecessor as
expired.

The proof has one *effect lemma* per kind of step: what a step does to one task
(nothing, submitted, claimed, settled, withdrawn: `TaskSteps`), to one slot
(`SlotSteps`) and to one call (`CallSteps`). The invariants are then preserved by
effects, not by the twenty actions one by one. `Refinement` uses that a step
affects one task at most (`OneTaskAtATime`).

### PcbCandidateProofs

For every number of release keys, workers, reviewers, digests and manifests and any
number of grants, lapses, crashes and reused keys: `G3IsBacked`,
`G4IsBacked`, `CancellationMirrored`, `CancelledReleaseFrees`, `ResultsAreVisible` and
`ApprovalStands`, all that `pcb_candidate` checks. `IInv` adds to the types:

- `RowsAreSound`: a row that is ready, approved or released rests on the registered
  evidence, names its release and its manifest. This must hold of the rows that
  reviewers have read and that slots have seen as well: a decision is about the first
  and an undo restores the second.
- `SlotsAreSound`: a slot is at a step of its own kind of task. A slot that may take
  its write back made one that was allowed, so what it restores was no more than
  under way.

With it, a final status stays final (`FinalStays`) and `G3IsBacked`, `CancellationMirrored`,
`CancelledReleaseFrees` and `ApprovalStands` follow from `RowMoves`, which says who may
move the row, from where and to where. That a result stays (`ResultsAreVisible`) needs
more, `RInv`:

- `TokensAreSound`: the holder of a task has the newest token, and a token has one slot.
- `WritesAreOrdered`: while the candidate is not cancelled its version is above that
  of every row a slot has replaced; if it is just one above, the row is that slot's.
  So a slot never takes another's write for its own, although the undo compares
  nothing but status, version and release.
- `ResultsStay`: from the moment the holder writes a result, before it confirms it and
  ends the task, no other slot of the task can still find its write. `Done` is that
  moment; the property itself speaks only of ended tasks and would come too late.

That G4 decides about what is released (`G4IsBacked`) needs `GInv`, which holds the
tokens and, as long as no lease lapsed under a live worker, `Steady`:

- `LeasesKept`: every slot at work holds its task or the task was cancelled, and none is
  about to take its write back. So nobody takes a published release back.
- `ReviewsAgree`: what a reviewer has read for G4 is what the candidate would release,
  unless it was cancelled. Without it `DecideG4` could name another manifest.
- `DecisionsAgree`: there is no G4 decision before there is a release.

### WorkerServiceProofs

For every finite number of tasks and executor threads, every number of slots and any
number of claims, lapses, errors, signals and threads that cannot be started:
`ViewIsRight` and `CleanStop`, all the safety that `worker_service` checks. The
properties allow one lost entry and one surplus count for each task that is claimed
again while an older thread has it, so both are accounts, and `IInv` keeps the books:

- `TokensAreSound`: the threads of a task, and the lease just claimed, have different
  tokens. An entry therefore belongs to one execution at most, so a new entry, or a
  thread that deletes an entry not its own, costs one other execution at most.
- `EntriesAreSound`: executions without their entry, and one more while the main
  thread is `Owing` (between claim and start its new entry is about to take another's
  place, or has been deleted already), are no more than such claims. A thread that
  deletes its successor's entry had lost its own: the account is balanced by the end
  of the thread. Counted over executions alone the bound is not inductive.
- `CountsAreSound`: completed executions, threads that have yet to read the status of
  their task and the lease just claimed are no more than the tasks any of them could
  count, plus such claims. It speaks of the counting that is still to come, since a
  task may succeed under another service while two threads here still have it.

`CleanStop` follows from `EntriesAreSound`: when the drain ends no entry is left, so
every execution is one without an entry.

### DesignChangeProofs

For every number of requirement sets, proposals, contents, clients and workers, any
number of crashes, lapses and grants: `TypeOK`, `OneLine`, `ReviewedIsAccepted` and
`DecisionStands`. `IInv` adds to the types:

- `CallsAreSound`: what a call in progress holds. An acceptance that validated a
  candidate holds the candidate of a proposal that is reviewed or decided; without
  it `DecideAccept` could enter a revision nobody reviewed.
- `ManagedFirst`: requirement sets, proposals and calls about them exist only in a
  managed project, so an adoption never meets a history.
- `CandidatesAreSound`: a candidate is a commit of its own subject and its ref still
  names it. Refs of proposals are written by compare-and-swap from nothing, so a
  rerun that built another tree cannot move the ref under a reviewer.
- `RunsAreSound`: a worker about to mark its proposal has published exactly what it
  will mark.
- `LineIsSound`: where each entry of the history comes from. That every entry after
  the first belongs to a set or a proposal that has *ended* is what makes the
  revisions distinct: none of them can be accepted again.

The lemmas `DatabaseSteps`, `RefSteps` and `CallSteps` say which actions write the
rows, the refs and the calls; each part of `IInv` then has one lemma that treats
just those actions. `DecisionsStand` follows from `IInv` and the effect of each
database step on one proposal.

*The facts of the rows.* On top of it, for the same instances: `FactsAreConsistent` and `DesignRefIsAccepted`,
the two properties of `design_change` that relate the rows of different tables with the
refs. `FInv` adds six parts:

- `SetRefsAreSound`: a submission comes to its transaction with the set's ref written,
  and nobody moves that ref again.
- `ActiveIsFrozen`: the project's active set is that of the last row of the history, and
  that row has the facts of gate G1. An approval supersedes the active set and appends
  the row of its own set in one transaction, so the last row never loses its facts; the
  rows before it do.
- `BasesAreSound`: a proposal names a revision together with the set that was active
  with it. Revisions are distinct (`OneLine`), so a proposal whose base is current has
  the active set, although `DecideAccept` compares only the base.
- `PlacesAreSound`: which kind of call can be at which place.
- `AdoptionIsAlone`: while an adoption runs nobody else writes the project or its ref,
  so its transaction always succeeds on what it read, and what a call that created the
  repository leaves behind is taken away unless a process died. An adoption that found
  a repository was preceded by a death.
- `PromotionsAreSound`: what a call may still write to the design ref (the target of a
  reconciliation, the revision of an acceptance) is in the history already. The
  history only grows, so a stale target is an old revision and never a candidate.

### EvidencePublicationProofs

For every set of tasks, reports, digests and workers and any number of faults:
`TypeOK`, `NeededIsStored` (`MadeIsStored` and `ReleasesAreStored`), `SuccessIsEvident`
and `GateStaysOpen`. `IInv` adds:

- `SlotsAreSound`: where a run can be for the kind of its task, and that it has made
  nothing before its tools ran.
- `WorkIsRecorded`: the reports a run has behind it are recorded with the very bytes
  of this run, and their findings noted. Without it nothing ties the result of a
  rerun to evidence that an earlier run recorded.
- `BooksAreSound`: evidence has a row, and a task not yet submitted has none.
- `MadeOnce`: an object has one maker at a time. With `MadeIsStored` it is the whole
  argument for the rollback: a run removes what it made, and nobody else made it.

`GateStaysOpen` is an action property. A settlement takes only objects without a row
(`KeptRows`), so it needs that the evidence of the latest probe has a row
(`BooksAreSound`): then its object stays.

### SchematicEditProofs

For every set of projects whose files are finite and can be read, every set of
commands and templates, and any bound on batches, calls and faults:
`FailureRestores`, `OnlyTheNamedChange`, `ReferencesStayApart` and `LabelsStayTogether`.
`IInv` adds:

- `CallIsPlanned`: what the call is about to write is what its commands, applied to the
  project as it was, come to. Without it an accepted document could not be traced back
  to a command.
- `WritingIsKnown`, `RestoringIsKnown`: which of the files hold new and which old contents
  while a call writes or takes back. The second is the argument for `FailureRestores`:
  the files still to be restored are the only ones that differ, as long as nothing is lost.
- `AcceptedIsJudged`: an accepted call passed the judgement on the very files that are
  there.

`OnlyTheNamedChange` then follows from the judgement: each difference of the two
documents is claimed by one command. The proof needs that a batch of edits changes no
hierarchy, and that a module adds one instance. Both speak about every instance of
every file at any depth, for which `InstancesAreLeast` is the tool: the instances are
the least set that holds the root and the children of its members.
`ReferencesStayApart` argues with the order of the commands: a reference is free when
it is claimed because an earlier command of the batch renamed its owner, and then
that rename is in the document too.

`LabelsStayTogetherAlways` has to carry a net across the batch, although a net is known
by the least UUID on it and a new label may become that. `Meets` says which net (or none)
goes through a point, in terms of the wires, which a batch leaves alone
(`SameComponents`). What `_check_label_binding` compares is what is met where the label is
put (`PlaceMeets`: a pin, a port, the end of a wire, or the object a net is named after),
if the label lies on the sheet the command names; that follows from the judgement
(`LabelsArePlaced`). Two labels that meet the same net before are on one net after
(`MeetTogether`). The theorem says this of calls that found `IsDrawn` files: wires with two
points at least, as the reading demands, and UUIDs that no two objects of a file share.
The last is up to KiCad and not checked by the code: of two pins with one UUID the net of
one and the position of the other might be taken. TLC has checked that every call of the
instance finds such files.

### BoardLayoutProofs

For every set of loadable boards (`BoardsAssumption`: with or without a ground net, of
any size, also odd), every set of proposals a client may send (`ByHandAssumption`: only
that their points are points), any grid, starts, iterations, pitch, clearances:
`TilesAreExact`, `PlacementIsLegal`, `BoardStaysLoadable` and, on boards of a kind named
below, `ProposalsAreExecuted` and `PlannerMeetsChecker`. The invariant `IInv` of the first three consists of:

- the board is one, is loadable, and the open proposal consists of operations. It is
  kept by any proposal, sane or not: `ApplyingIsBoard` follows the operations one by
  one and uses only that the adapter loads the board again after each.
- `Turns`: no proposal is open while a tool is at work. It is what makes the board a tool
  reads at the end the board it read at the start.
- `Searching`, `Offered`: the first, the current and the best placement are sound, that
  is, every footprint in one of its legal cells and no overlap; the best is no worse
  than the first. That a sound placement is legal for the checker, which halves sizes
  where the solver doubles coordinates, is `SoundKeepsOut`, `SoundKeepsApart` and
  `SoundKeepsLocked`.
- `PouringSound`: the tiles are rectangles and exact (`AreExact`). One cut keeps that:
  `SubtractIsExact` is the lemma about `_subtract` for any two rectangles.

`PlacementIsLegal` compares scores, so the proof has to know that a score is a number:
spanning trees, sums over finite sets and extremes are defined, and integers
(`SpanningIsNumber`, `SumIsNumber`, `ExtremesExist`).

`ProposalsAreExecutedAlways` says that a placement is executed without an error, an
unannounced change or a lost lock, and that a plan the checker found clean is clean
when it is applied. Planner, checker and adapter each build the board after the plan in
their own way: the planner adds zones and vias, the adapter applies operation after
operation, warms the thermal pads, loads the result and compares it with what was
announced. The theorem has two hypotheses, which the code does not check when it loads a
board and which the boards of the run satisfy (the MC module assumes them, so TLC
evaluates them):

- `PadsInside`: every pad lies in the outline of its footprint. Otherwise a placement
  that keeps the footprints on the board may take a pad off it.
- `Unpoured`, of the boards and of a client's operations: no object has an id the planner
  gives. The code takes the next free number; in the model the id of a tile is its layer
  and rectangle, the id of a via its point, and nothing else has one.

Its inductive invariant `OffersInv` says of an open proposal what the tool knew when it
made it (`IsPlan`: the operations are those of the pour that ended, and the checker
found nothing on the board they describe), of the planner at work that what it poured
lies on the board (`PourLiesIn`) and that nothing there has a planner's id yet. The
steps: `PlacementIsExecuted` (with `SoundKeepsLocked` and the outline test of every
cell), `SubtractLiesIn` and `StitchesLieIn` (tiles and vias lie on the board),
`WarmedStaysClean` (thermal relief changes no finding), `PlanIsApplied` and
`PlanIsExecuted` (all operations of a plan go through, each change is announced, and
the locks are those of before), `ApplyingIsUnpoured` (nothing a client does takes an id
of the planner).

`PlannerMeetsCheckerAlways` says that whatever board the planner is given, the plan it
checks has no finding of clearance, keepout or edge the board had not, none of
connectivity unless a small tile was dropped, and no net but ground newly disconnected.
Planner and checker compute these with different predicates: the planner takes grown and
clipped rectangles out of the board, the checker measures from points, segments and
rectangles. Its hypothesis `GroundIsKept`, which the MC module assumes of the boards and
of the zones drawn by hand, has two parts:

- The clearance of the ground class is at most `CopperEdge`. `_stitching_point_blocked`
  keeps a via off foreign copper by the edge clearance where the checker asks for the
  clearance of the ground class; `ManufacturingRulePack` compares the two nowhere, and
  both rule packs of the repository have 203 for each. With a wider ground class the
  plan would be withdrawn for a finding on its own vias.
- Ground zones have the clearance of their class at least. Of a narrower one the checker
  has a finding of its own (`PCB_ZONE_CLEARANCE_BELOW_MINIMUM`), one of the comparisons
  with a minimum that `BoardRules` leaves out.

The argument, with the inductive invariant `MeetsInv`:

- *Distances*. A tile that shares no cell with a rectangle grown by one more than `d` is
  farther than `d` from it (`TileKeepsOff`; it needs the tile and the rectangle to be on
  the board, where the clipping bites), and what is far from the bounds of a segment or a
  point is far from them (`BoundsAreNear`). So a clear tile keeps off all the checker
  looks at (`ClearKeepsOff`). `PourMeets` says that what was poured is clear: the tiles
  are exact (`IInv`), the regions cut and still to be cut are the excluded ones.
- *Vias*. A free point keeps off pads, routes and vias (`StitchKeepsOff`). Zones of other
  nets it is not tested against: a ground zone covers it on each layer it joins, and that
  zone keeps off them, being clear or without a finding (`CoveringKeepsOff`).
- *Contact*. What is joined is the least part that contains the seed and is closed under
  touching (`GrowthIsClosed`: growing it as often as there are pieces is enough). A layer
  that loses no anchored tile therefore leaves every poured zone joined to ground copper
  for the checker (`ClosedIsJoined`), whose relation is another one than the planner's:
  a tile that shares an edge with another meets it, and what a tile touches is in contact
  with the zone it becomes (`ConnectedMeet`, `TouchedMeets`).
- `PlannedMeets` puts the groups of findings together, `ApplyingKeepsGround` carries
  `GroundIsKept` over what a client does before the planner begins.

TLC has checked `IInv`, `OffersInv` and `MeetsInv` on the instance of `board_layout`.

### RouteNegotiationProofs

For every set of loadable boards with finitely many layers and routes, every set of
requests (also for nets no board has), any step, widths, clearances, costs, number of
vias, rounds and calls: `CopyIsTheOffer`, `RouterIsExecuted` and `RoutedIsJoined`. The router keeps one
state in three forms (the copy it searches, the copper by net, the ids taken from the
board) and assembles the offer from the last two. `IInv` says at every step of a call
how they agree:

- `CopyIsKept`, `WorkIsSound`: the routes of the copy are those of the board that are
  not removed and those of the solved nets, no more; names are unique, and new copper
  is named after its net. This is why a stripped way takes nobody else's copper with it.
- `SolvedIsSound`: the copper of a solved net is sound: of its net, unlocked, on layers
  of the board, as wide as its class demands, inside the outline.
- `NetsAreSplit`: a requested net is to be taken, solved or lost, and only one of them;
  what is removed was an unlocked route of the board.
- `TriesAreSound`: an obstacle still to be tried is still there: a solved net, or an
  unlocked route of a net that was not requested.
- `OfferIsSound`: what is offered is what the call found and the checker saw.

Most of the proof is about the search: `CheapestWaysAre` and `NetWaysAre` follow its
rounds and show that what it returns are ways on the grid from pad to pad, each move on
one layer or through one via; `CopperIs` that runs and vias of such ways are routes and
vias of the board with names nothing in the copy has. `OfferIsExecuted` needs only that
the board stays loadable. That the adapter does exactly what was announced
(`RouterIsExecutedAlways`) has a hypothesis, `NamesApart`: no footprint, pad, zone or
keepout has a name of the form the router gives. `_fresh_id` looks at routes and vias
only, and the adapter refuses an id that is taken; the boards of the run satisfy it.

`RoutedIsJoinedAlways` is the step from the search to the checker: the router says
"routed" when it has found ways, the checker says "joined" when conductors touch, and
neither calls the other. `JInv` says that of the nets solved so far: no part of a net's
copper and pads that is closed under contact has one of its pads and not all of them.

- `RunIs`, `WayLeads`: the runs that `CopperIs` cuts a way into begin where the one
  before ends, on its layer or through a via, so a closed part with copper at the start
  of a way has copper at its end.
- `PadsAreJoined`: each way of a net starts at copper or a pad of the ways before it and
  ends at a new pad, so all pads are in one part (`StrippedNetJoins`, `TryJoins` carry
  this through both ways a round solves a net).
- `JoinedIsClosed`: the checker grows a part from one pad, one round for each piece.
  After that many rounds nothing is left that touches it: as long as a round adds
  something, the part has at least as many pieces as there were rounds.

Its hypothesis is `PadsApart`: no two pads of one net lie at one point with a layer in
common. Pads never touch each other for the checker, and a way from a point to itself
has no copper. The code does not check it; the boards of the run satisfy it.

TLC has checked `IInv` and `JInv` on the instance of `board_routing`.

*Induction.* The prover cannot instantiate an induction theorem with a predicate, but it
can argue with the least number that is not in a set. `FromOn` and `UpTo` are
induction in that form; with them the proofs above follow recursive functions (levels
of a hierarchy, operations on a copy, spanning trees, sums).

### Model-checked only

- Liveness (`EveryTaskEnds`, `SlotsComeFree`, `CandidateMoves`, `Drains`,
  `SlotsReturn`, `ProposalMoves`, `RefFollows`) is out of the prover's reach.
- `RouterMeetsChecker`: the router measures the moves and the checker the runs they are
  joined to, and a distance between segments is a polynomial of degree four in the
  coordinates.

## 5. Next

`RouterMeetsChecker`: that a run of moves, each of which keeps its distance, keeps it as
one segment. The lemmas on distances in `BoardLayoutProofs` (`SquaresCompare`,
`NearerIsNear`, `BoundsAreNear`) are what such a proof would begin with.

## 6. Not modelled

- *External tools* (`kicad.py`, `lceda_pro.py`, most of `kicad_export.py`): programs
  outside the repository; what they may answer is an outcome of the handlers.
- *Catalogue, bindings, EDA authority* (`component_store.py`,
  `component_binding_store.py`, `eda_authority_store.py`): insert-once tables, one
  guarded statement per operation.
- *Request layers* (`api.py`, `api_schemas.py`, `mcp_server.py`, `cli.py` but for the
  worker loop): they call the services modelled here and keep no state.
- *Formats*: the CST of KiCad files, the KiCad board adapter, manifests, packages,
  canonical JSON. They are text; the properties here are about what it stands for.
- *Configuration, logging, errors, engine*: the settings appear as constants.
- *Process trees, the health file, counters of failures*: nothing in the program
  decides by them.
