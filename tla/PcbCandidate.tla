------------------------------ MODULE PcbCandidate ------------------------------
(***************************************************************************)
(* One PCB layout candidate, from its creation to its release: the row of  *)
(* PcbCandidateStore, the generation task that fills it, the release tasks *)
(* that export it, the G3 and G4 decisions of its reviewers, and the       *)
(* cancellation of any of its tasks.  The task queue is taken at its       *)
(* promise, TaskLifecycle.                                                 *)
(*                                                                         *)
(* Every action is one transaction: a BEGIN IMMEDIATE block, an UPDATE     *)
(* with the guard in its WHERE, or one half of a SELECT that is followed   *)
(* by a blind UPDATE.  A worker whose lease lapsed goes on until one of    *)
(* its fences notices.                                                     *)
(***************************************************************************)
EXTENDS TaskLifecycle

CONSTANTS
  Gen,          \* the generation task; every other task exports a release
  Workers,      \* execution slots of the worker services
  Reviewers,    \* people with a G3 or G4 decision in the making
  Digests,      \* evidence sets that a run of the adapter may produce
  Clean,        \* those without a blocking finding or an unconnected net
  Manifests,    \* release manifests that an export may produce
  Nobody,       \* the null of every reference
  MaxGrants,    \* bound: grants of one task
  MaxLapses,    \* bound: leases that lapse under a live worker
  MaxCrashes,   \* bound: workers that die
  MaxSurprises, \* bound: exports that raise what the handler does not catch
  MaxReuses,    \* bound: export requests that reuse the key of an older one
  MaxRejections \* bound: rejections at G4, which leave the candidate where it is

ASSUME CandidateAssumption ==
  /\ Gen \in Tasks
  /\ Clean \subseteq Digests
  /\ Nobody \notin Tasks \union Digests \union Manifests
  /\ {MaxGrants, MaxLapses, MaxCrashes, MaxSurprises, MaxReuses, MaxRejections} \subseteq Nat

\* An export request with key k owns the task of that key.
Keys == Tasks \ {Gen}

VARIABLES
  cand,     \* the candidate's row
  evidence, \* the evidence set registered for the generation task
  worker,   \* what each slot runs
  review,   \* the row a reviewer has read, and decides about
  spent     \* how often each bounded event happened

queue == <<state, holder, granted>>
vars == <<queue, cand, evidence, worker, review, spent>>

Generating == {"queued", "executing"}
Releasing  == {"release_pending", "ready_for_g4"}
Final      == {"released", "cancelled"}

\* Not so: a second run may start over a reviewed candidate.
Allowed_Rerun ==
  [executing         |-> {"queued", "executing", "ready_for_g3", "g3_approved"},
   ready_for_g3      |-> {"executing"},
   blocked           |-> {"queued", "executing"},
   validation_failed |-> {"executing"}]

\* Where a worker's transaction may take the candidate, and from where.
Allowed ==
  [executing         |-> {"queued", "executing"},
   ready_for_g3      |-> {"executing"},
   blocked           |-> {"queued", "executing"},
   validation_failed |-> {"executing"}]

CandidateStatuses ==
  {"absent", "g3_approved"} \union DOMAIN Allowed \union Generating \union Releasing \union Final

NoRelease == [task |-> Nobody, status |-> "none", manifest |-> Nobody]

Releases ==
  [task : Keys \union {Nobody}, manifest : Manifests \union {Nobody},
   status : {"none", "pending", "failed", "cancelled", "ready_for_g4", "released"}]

\* digest: of the reviewed evidence set; g3: the digest approved at G3;
\* g4: the manifest the last G4 decision names.
Candidates ==
  [status : CandidateStatuses, version : Nat, digest : Digests \union {Nobody},
   g3 : Digests \union {Nobody}, g4 : Manifests \union {Nobody}, release : Releases]

NoCandidate ==
  [status |-> "absent", version |-> 0, digest |-> Nobody,
   g3 |-> Nobody, g4 |-> Nobody, release |-> NoRelease]

Places ==
  {"idle", "begin", "transition", "check", "revert", "run", "fetch", "export", "publish",
   "restore", "mirror_read", "mirror_write", "succeed", "fail"}

\* target: the status being written; value: what the adapter produced;
\* seen: the row before the worker's write.
Slots ==
  [at : Places, task : Tasks \union {Nobody}, token : Nat, target : CandidateStatuses,
   value : Digests \union Manifests \union {Nobody}, seen : Candidates]

IdleSlot ==
  [at |-> "idle", task |-> Nobody, token |-> 0, target |-> "absent",
   value |-> Nobody, seen |-> NoCandidate]

Limit ==
  [lapse |-> MaxLapses, crash |-> MaxCrashes, surprise |-> MaxSurprises, reuse |-> MaxReuses,
   rejection |-> MaxRejections]

Spend(event) ==
  /\ spent[event] < Limit[event]
  /\ spent' = [spent EXCEPT ![event] = @ + 1]

TypeOK ==
  /\ LifecycleTypeOK
  /\ cand \in Candidates
  /\ evidence \in Digests \union {Nobody}
  /\ worker \in [Workers -> Slots]
  /\ review \in [Reviewers -> Candidates]
  /\ spent \in [DOMAIN Limit -> Nat]

Init ==
  /\ LifecycleInit
  /\ cand = NoCandidate
  /\ evidence = Nobody
  /\ worker = [w \in Workers |-> IdleSlot]
  /\ review = [r \in Reviewers |-> NoCandidate]
  /\ spent = [event \in DOMAIN Limit |-> 0]

-----------------------------------------------------------------------------
(* Workers: claims, fences and the tasks' ends.                            *)

Task(w) == worker[w].task

Holds(w) == /\ state[Task(w)] = "held"
            /\ holder[Task(w)] = worker[w].token

Cancelled(w) == state[Task(w)] = "cancelled"

Go(w, place) == worker' = [worker EXCEPT ![w].at = place]
Leave(w)     == worker' = [worker EXCEPT ![w] = IdleSlot]
Write(w, to) == worker' = [worker EXCEPT ![w].at = "transition", ![w].target = to]

\* What _assert_active_or_mirror_cancellation does with a worker that lost
\* its task.
Dropped(w) == IF Cancelled(w) THEN Go(w, "mirror_read") ELSE Leave(w)

Runs(t) == \E w \in Workers :
             /\ worker[w].at # "idle"
             /\ Task(w) = t
             /\ worker[w].token = holder[t]

Claim(w, t) ==
  /\ worker[w].at = "idle"
  /\ granted[t] < MaxGrants
  /\ Grant(t)
  /\ IF state[t] = "held" /\ Runs(t) THEN Spend("lapse") ELSE UNCHANGED spent
  /\ worker' = [worker EXCEPT ![w].at = "begin", ![w].task = t, ![w].token = granted[t] + 1]
  /\ UNCHANGED <<cand, evidence, review>>

\* A task cancelled since the claim is not started.
Begin(w) ==
  /\ worker[w].at = "begin"
  /\ IF Cancelled(w) THEN Leave(w)
     ELSE IF Task(w) = Gen THEN Write(w, "executing")
     ELSE Go(w, "fetch")
  /\ UNCHANGED <<queue, cand, evidence, review, spent>>

\* Only the holder of the lease ends the task; anyone else just goes.
Settle(w) ==
  /\ worker[w].at \in {"succeed", "fail"}
  /\ IF Holds(w)
     THEN Surrender(Task(w), worker[w].token,
                    IF worker[w].at = "succeed" THEN "succeeded" ELSE "failed_terminal")
     ELSE UNCHANGED queue
  /\ Leave(w)
  /\ UNCHANGED <<cand, evidence, review, spent>>

Crash(w) ==
  /\ worker[w].at # "idle"
  /\ Spend("crash")
  /\ Leave(w)
  /\ UNCHANGED <<queue, cand, evidence, review>>

-----------------------------------------------------------------------------
(* A worker's write to the candidate: fence, write, fence again, undo.     *)

\* The handlers turn a refused first or last write into a failure report;
\* a refusal of that report, or of mark_blocked, is an unhandled error.
Refused(w) ==
  IF worker[w].target \in {"executing", "ready_for_g3"}
  THEN worker' = [worker EXCEPT ![w].target = "validation_failed", ![w].value = Nobody]
  ELSE Go(w, "fail")

Written(w) ==
  [cand EXCEPT !.status = worker[w].target, !.version = @ + 1,
               !.digest = worker[w].value, !.g3 = Nobody, !.g4 = Nobody, !.release = NoRelease]

\* A candidate cancelled through its release task ends the worker's run
\* without ending its task.
Transition(w) ==
  /\ worker[w].at = "transition"
  /\ \/ /\ ~Holds(w)
        /\ Dropped(w)
        /\ UNCHANGED cand
     \/ /\ Holds(w)
        /\ cand.status = "cancelled"
        /\ Leave(w)
        /\ UNCHANGED cand
     \/ /\ Holds(w)
        /\ cand.status \notin Allowed[worker[w].target] \union {"cancelled"}
        /\ Refused(w)
        /\ UNCHANGED cand
     \/ /\ Holds(w)
        /\ cand.status \in Allowed[worker[w].target]
        /\ cand' = Written(w)
        /\ worker' = [worker EXCEPT ![w].at = "check", ![w].seen = cand]
  /\ UNCHANGED <<queue, evidence, review, spent>>

After(target) ==
  CASE target = "executing"         -> "run"
    [] target = "validation_failed" -> "fail"
    [] OTHER                        -> "succeed"

\* The second fence, in a transaction of its own.
Check(w) ==
  /\ worker[w].at = "check"
  /\ IF Holds(w) THEN Go(w, After(worker[w].target))
     ELSE IF Cancelled(w) THEN Go(w, "mirror_read")
     ELSE Go(w, "revert")
  /\ UNCHANGED <<queue, cand, evidence, review, spent>>

\* Not so: the undo writes by the candidate's key alone.
StillWritten_Blind(w) == worker[w].at = "revert"

\* Nobody has moved the candidate since w wrote it.
StillWritten(w) ==
  /\ cand.status = worker[w].target
  /\ cand.version = worker[w].seen.version + 1
  /\ worker[w].target = "ready_for_g4" => cand.release.task = Task(w)

Revert(w) ==
  /\ worker[w].at = "revert"
  /\ cand' = IF StillWritten(w) THEN [worker[w].seen EXCEPT !.version = @ + 2] ELSE cand
  /\ Leave(w)
  /\ UNCHANGED <<queue, evidence, review, spent>>

\* _mirror_cancelled_task reads the row, and writes it back by its key.
MirrorRead(w) ==
  /\ worker[w].at = "mirror_read"
  /\ IF cand.status \in Final
     THEN Leave(w)
     ELSE worker' = [worker EXCEPT ![w].at = "mirror_write", ![w].seen = cand]
  /\ UNCHANGED <<queue, cand, evidence, review, spent>>

CancelledRelease(t) == [task |-> t, status |-> "cancelled", manifest |-> Nobody]

MirrorWrite(w) ==
  /\ worker[w].at = "mirror_write"
  /\ LET seen == worker[w].seen
         row  == IF seen.release.task = Task(w)
                 THEN [seen EXCEPT !.release = CancelledRelease(Task(w))]
                 ELSE cand
     IN  cand' = [row EXCEPT !.status = "cancelled", !.version = seen.version + 1]
  /\ Leave(w)
  /\ UNCHANGED <<queue, evidence, review, spent>>

-----------------------------------------------------------------------------
(* The generation handler.                                                 *)

\* Evidence is registered once per task; another set is a conflict.
Registers(d) == evidence \in {Nobody, d}

Outcome(d) == IF d \in Clean THEN "ready_for_g3" ELSE "validation_failed"

\* The adapter builds the candidate and its evidence d, which is registered
\* under the fence.
Generate(w) ==
  /\ worker[w].at = "run"
  /\ \/ /\ \/ Write(w, "blocked")            \* a capability is missing
           \/ Write(w, "validation_failed")  \* the run fails
        /\ UNCHANGED evidence
     \/ /\ ~Holds(w)
        /\ Leave(w)
        /\ UNCHANGED evidence
     \/ \E d \in Digests :
          /\ Holds(w)
          /\ IF Registers(d)
             THEN /\ evidence' = d
                  /\ worker' = [worker EXCEPT ![w].at = "transition", ![w].value = d,
                                              ![w].target = Outcome(d)]
             ELSE Write(w, "validation_failed") /\ UNCHANGED evidence
  /\ UNCHANGED <<queue, cand, review, spent>>

-----------------------------------------------------------------------------
(* The release handler.                                                    *)

\* Not so: a rerun exports over the release that waits for its G4 decision.
Reserved_Again(t) ==
  /\ cand.status \in Releasing
  /\ cand.release.task = t

Reserved(t) ==
  /\ cand.status = "release_pending"
  /\ cand.release.task = t

Fetch(w) ==
  /\ worker[w].at = "fetch"
  /\ Go(w, IF Reserved(Task(w)) THEN "export" ELSE "fail")
  /\ UNCHANGED <<queue, cand, evidence, review, spent>>

Export(w) ==
  /\ worker[w].at = "export"
  /\ \/ /\ \/ \E m \in Manifests :
                worker' = [worker EXCEPT ![w].at = "publish", ![w].value = m]
           \/ Go(w, "restore")
           \/ ~Holds(w) /\ Leave(w)
        /\ UNCHANGED spent
     \/ Spend("surprise") /\ Go(w, "fail")
  /\ UNCHANGED <<queue, cand, evidence, review>>

MarkReadyForG4(w) ==
  /\ worker[w].at = "publish"
  /\ \/ /\ ~Holds(w)
        /\ Dropped(w)
        /\ UNCHANGED cand
     \/ /\ Holds(w)
        /\ ~Reserved(Task(w))
        /\ Go(w, "restore")
        /\ UNCHANGED cand
     \/ /\ Holds(w)
        /\ Reserved(Task(w))
        /\ cand' = [cand EXCEPT !.status = "ready_for_g4", !.version = @ + 1,
                                !.release.status = "ready_for_g4",
                                !.release.manifest = worker[w].value]
        /\ worker' = [worker EXCEPT ![w].at = "check", ![w].target = "ready_for_g4",
                                    ![w].seen = cand]
  /\ UNCHANGED <<queue, evidence, review, spent>>

\* Not so: the failure is reported to the task, never to the candidate.
RestoreG3_ReportOnly(w) ==
  /\ worker[w].at = "restore"
  /\ IF Cancelled(w) THEN Leave(w) ELSE Go(w, "fail")
  /\ UNCHANGED <<queue, cand, evidence, review, spent>>

\* Without the lease, or the reservation, the failure is reported alone.
RestoreG3(w) ==
  /\ worker[w].at = "restore"
  /\ cand' = IF Holds(w) /\ Reserved(Task(w))
             THEN [cand EXCEPT !.status = "g3_approved", !.version = @ + 1,
                               !.release.status = "failed"]
             ELSE cand
  /\ IF Cancelled(w) THEN Leave(w) ELSE Go(w, "fail")
  /\ UNCHANGED <<queue, evidence, review, spent>>

-----------------------------------------------------------------------------
(* Clients and reviewers.                                                  *)

Create ==
  /\ cand.status = "absent"
  /\ Submit(Gen)
  /\ cand' = [cand EXCEPT !.status = "queued", !.version = 1]
  /\ UNCHANGED <<evidence, worker, review, spent>>

\* A failed release may be requested again, under another key; the task of
\* an older request is found again, however it ended.
MayExport(k) ==
  /\ cand.status = "g3_approved"
  /\ cand.g3 # Nobody
  /\ \/ cand.release.status = "none"
     \/ cand.release.status = "failed" /\ cand.release.task # k

EnqueueReleaseExport(k) ==
  /\ MayExport(k)
  /\ IF state[k] = "absent"
     THEN Submit(k) /\ UNCHANGED spent
     ELSE Spend("reuse") /\ UNCHANGED queue
  /\ cand' = [cand EXCEPT !.status = "release_pending", !.version = @ + 1,
                          !.release = [task |-> k, status |-> "pending", manifest |-> Nobody]]
  /\ UNCHANGED <<evidence, worker, review>>

\* Not so: the cancellation reaches a candidate that is being generated only.
MirroredInCancel_Generating(t) ==
  IF t = Gen /\ cand.status \in Generating
  THEN [cand EXCEPT !.status = "cancelled", !.version = @ + 1]
  ELSE IF cand.status \in Releasing /\ cand.release.task = t
  THEN [cand EXCEPT !.status = "cancelled", !.version = @ + 1, !.release = CancelledRelease(t)]
  ELSE cand

\* Not so: a release that is ready for G4 survives its cancelled task.
MirroredInCancel_Pending(t) ==
  IF t = Gen /\ cand.status \notin Final
  THEN [cand EXCEPT !.status = "cancelled", !.version = @ + 1]
  ELSE IF Reserved(t)
  THEN [cand EXCEPT !.status = "cancelled", !.version = @ + 1, !.release = CancelledRelease(t)]
  ELSE cand

\* The candidate's row in the transaction that cancels task t.
MirroredInCancel(t) ==
  IF t = Gen /\ cand.status \notin Final
  THEN [cand EXCEPT !.status = "cancelled", !.version = @ + 1]
  ELSE IF cand.status \in Releasing /\ cand.release.task = t
  THEN [cand EXCEPT !.status = "cancelled", !.version = @ + 1, !.release = CancelledRelease(t)]
  ELSE cand

CancelTask(t) ==
  /\ Revoke(t) \/ (state[t] = "cancelled" /\ UNCHANGED queue)
  /\ cand' = MirroredInCancel(t)
  /\ UNCHANGED <<evidence, worker, review, spent>>

\* The reviewer reads the row, its evidence or its manifest, and decides in
\* a later transaction.
Review(r) ==
  /\ review[r] = NoCandidate
  /\ \/ cand.status = "ready_for_g3" /\ cand.digest \in {evidence} \ {Nobody}
     \/ cand.status = "ready_for_g4" /\ cand.release.manifest # Nobody
  /\ review' = [review EXCEPT ![r] = cand]
  /\ UNCHANGED <<queue, cand, evidence, worker, spent>>

\* Not so: nothing is compared again under the decision lock.
G3Decidable_Unchecked(r) == review[r] # NoCandidate

\* The decision is about the row as it was read.
G3Decidable(r) ==
  /\ cand = review[r]
  /\ cand.digest = evidence

DecideG3(r) ==
  /\ review[r].status = "ready_for_g3"
  /\ cand' \in IF G3Decidable(r)
               THEN {[cand EXCEPT !.status = "g3_approved", !.version = @ + 1,
                                  !.g3 = review[r].digest],
                     [cand EXCEPT !.status = "validation_failed", !.version = @ + 1]}
               ELSE {cand}
  /\ review' = [review EXCEPT ![r] = NoCandidate]
  /\ UNCHANGED <<queue, evidence, worker, spent>>

\* Only the status is looked at again under the lock.
G4Decidable(r) == cand.status = "ready_for_g4"

DecideG4(r) ==
  /\ review[r].status = "ready_for_g4"
  /\ LET manifest == review[r].release.manifest IN
     \/ /\ ~G4Decidable(r)
        /\ UNCHANGED <<cand, spent>>
     \/ /\ G4Decidable(r)
        /\ cand' = [cand EXCEPT !.status = "released", !.version = @ + 1,
                                !.g4 = manifest, !.release.status = "released"]
        /\ UNCHANGED spent
     \/ /\ G4Decidable(r)
        /\ cand' = [cand EXCEPT !.version = @ + 1, !.g4 = manifest]
        /\ Spend("rejection")
  /\ review' = [review EXCEPT ![r] = NoCandidate]
  /\ UNCHANGED <<queue, evidence, worker>>

-----------------------------------------------------------------------------
WorkerStep(w) ==
  \/ Begin(w) \/ Transition(w) \/ Check(w) \/ Revert(w) \/ MirrorRead(w) \/ MirrorWrite(w)
  \/ Generate(w) \/ Fetch(w) \/ Export(w) \/ MarkReadyForG4(w) \/ RestoreG3(w) \/ Settle(w)

ClaimStep == \E w \in Workers, t \in Tasks : Claim(w, t)

Next ==
  \/ Create
  \/ ClaimStep
  \/ \E w \in Workers : WorkerStep(w) \/ Crash(w)
  \/ \E k \in Keys : EnqueueReleaseExport(k)
  \/ \E t \in Tasks : CancelTask(t)
  \/ \E r \in Reviewers : Review(r) \/ DecideG3(r) \/ DecideG4(r)

Spec == Init /\ [][Next]_vars

\* A worker process goes on, and an idle one claims what it can.
FairSpec == Spec /\ WF_vars(ClaimStep) /\ \A w \in Workers : WF_vars(WorkerStep(w))

-----------------------------------------------------------------------------
(* Properties.                                                             *)

\* An approved candidate is the one that was reviewed: the digest approved
\* at G3 is that of the row and of the durable evidence, and its evidence
\* has no blocking finding.  Two workers may generate, one may take its
\* result back, and the reviewer reads before deciding (decide_g3).
ApprovedIsReviewed ==
  /\ cand.g3 # Nobody => cand.g3 = cand.digest /\ cand.digest = evidence /\ evidence \in Clean
  /\ cand.status \in {"g3_approved", "released"} \union Releasing => cand.g3 # Nobody

\* What is ready for G3 can be decided: its digest is that of the evidence
\* registered for the task, whoever wrote it (_transition, _eligible).
ReadyIsBacked == cand.status = "ready_for_g3" => cand.digest = evidence /\ evidence \in Clean

\* A released candidate went through both gates and has a manifest
\* (decide_g4 after any interleaving of export, undo and cancellation).
ReleasedIsBacked ==
  cand.status = "released" =>
    /\ cand.g3 # Nobody
    /\ cand.g4 # Nobody
    /\ cand.release.manifest # Nobody
    /\ cand.release.task # Nobody

\* G3 decides about the registered, clean evidence that was reviewed.
G3IsBacked == ApprovedIsReviewed /\ ReadyIsBacked

\* A G4 decision is about the manifest of the candidate's release
\* (docstring of PcbReleaseApprovalService): decide_g4 compares the manifest
\* before it takes the lock, and a rerun of the export, a crash or a
\* cancellation may come in between.
DecidedManifest ==
  cand.g4 # Nobody /\ cand.status \in {"ready_for_g4", "released"} => cand.g4 = cand.release.manifest

\* What is released went through both gates, and as long as no lease lapses
\* under a live worker the decision names what is released.  After a lapse
\* a release may be taken back and exported anew between the reading and
\* the decision: then the first part alone is kept.
G4IsBacked == ReleasedIsBacked /\ (spent.lapse = 0 => DecidedManifest)

\* Once the generation task is cancelled, no worker, reviewer or export
\* brings the candidate back (_mirror_cancelled_candidate).
CancellationMirrored == state[Gen] = "cancelled" => cand.status \in Final

\* An approval is withdrawn by nothing but a cancellation: no late undo of
\* the generation, no late failure report reaches a candidate past G3.
ApprovalStands ==
  [][cand.g3 # Nobody /\ cand'.status # "cancelled" =>
       /\ cand'.g3 = cand.g3
       /\ cand'.status \in {"g3_approved", "released"} \union Releasing]_vars

\* A generation task that succeeded left a result behind, and none of the
\* workers that lost the lease takes it away (Revert).
SuccessIsVisible == state[Gen] = "succeeded" => cand.status \notin Generating

\* The manifest of a release task that succeeded stays in the candidate,
\* until the candidate is cancelled.
ExportIsVisible ==
  \A k \in Keys : state[k] = "succeeded" =>
    \/ cand.status = "cancelled"
    \/ /\ cand.status \in {"ready_for_g4", "released"}
       /\ cand.release.task = k
       /\ cand.release.manifest # Nobody

\* What a task was said to have achieved is there for the next one to use.
ResultsAreVisible == TypeOK /\ SuccessIsVisible /\ ExportIsVisible

\* As long as every export request has a key of its own, a cancelled release
\* task holds no reservation (cancel, enqueue_release_export).
CancelledReleaseFrees ==
  spent.reuse = 0 =>
    \A k \in Keys : state[k] = "cancelled" =>
      ~(cand.status \in Releasing /\ cand.release.task = k)

\* The candidate does not stay in the hands of the workers for ever.
CandidateMoves == cand.status \in Generating \union {"release_pending"} ~>
                  cand.status \notin Generating \union {"release_pending"}

-----------------------------------------------------------------------------
(* What the code does not keep.                                            *)

\* The cancellation of a task is mirrored into a candidate that is not yet
\* released (docstring of _mirror_cancelled_task).
ReleasedStays == [][cand.status = "released" => cand'.status = "released"]_vars

\* DecidedManifest, after a lease lapsed under a live worker.

\* A failed export reopens the candidate for another release key
\* (test_failed_export_reopens_g3_candidate_for_a_new_release_key).
FailedExportReopens == \A k \in Keys : state[k] = "failed_terminal" => ~Reserved(k)
=============================================================================
