----------------------------- MODULE DesignChange -----------------------------
(***************************************************************************)
(* Change proposals of a managed project: their creation from a command    *)
(* batch, the executor that builds a candidate revision from each, and the *)
(* decisions that accept or reject it.  The task of a proposal is taken at *)
(* the queue's promise, TaskLifecycle; the project, its requirement sets,  *)
(* its refs and the reconciler are those of ManagedProject.                *)
(*                                                                         *)
(* A worker whose lease lapsed goes on until one of its fences notices.    *)
(***************************************************************************)
EXTENDS ManagedProject

CONSTANTS
  Workers,   \* execution slots of the worker services
  MaxGrants, \* bound: grants of one task
  MaxLapses  \* bound: leases that lapse under a live worker

ASSUME ExecutionAssumption == {MaxGrants, MaxLapses} \subseteq Nat

VARIABLES
  state, holder, granted,  \* the proposals' tasks, as TaskLifecycle has them
  worker,                  \* what each slot runs
  lapses                   \* how many leases lapsed under a live worker

Queue == INSTANCE TaskLifecycle WITH Tasks <- Proposals

queue == <<state, holder, granted>>
vars == <<projectVars, queue, worker, lapses>>

Undecided == {"queued", "executing"}
Decided   == {"accepted", "rejected", "stale"}

\* seen: the project's row as the run read it; tree: what the adapter wrote.
Slots ==
  [at : {"idle", "read", "begin", "run", "fence", "publish", "mark", "report", "succeed", "fail"},
   proposal : Proposals \union {Nobody}, token : Nat, seen : Projects, frozen : BOOLEAN,
   tree : Contents \union {Nobody}]

IdleSlot ==
  [at |-> "idle", proposal |-> Nobody, token |-> 0, seen |-> NewProject, frozen |-> FALSE,
   tree |-> Nobody]

TypeOK ==
  /\ ProjectTypeOK
  /\ Queue!LifecycleTypeOK
  /\ worker \in [Workers -> Slots]
  /\ lapses \in Nat

Init ==
  /\ ProjectInit
  /\ Queue!LifecycleInit
  /\ worker = [w \in Workers |-> IdleSlot]
  /\ lapses = 0

-----------------------------------------------------------------------------
(* Proposals.                                                              *)

\* The batch names the project's current revision and its active set.
StartCreate(c, p) ==
  /\ At(c, "idle")
  /\ proposals[p].status = "absent"
  /\ project.active # Nobody
  /\ sets[project.active].status = "frozen"
  /\ Call(c, "create", "list", p, project.current)
  /\ UNCHANGED <<database, git, crashes, queue, worker, lapses>>

\* The batch, its task and the proposal, in one transaction.
CreateQueued(c) ==
  /\ Op(c) = "create"
  /\ At(c, "write")
  /\ LET p == Subject(c) IN
     IF proposals[p].status = "absent"
     THEN /\ proposals' = [proposals EXCEPT ![p] =
                             [@ EXCEPT !.status = "queued", !.base = client[c].revision,
                                       !.set = Seen(c).active]]
          /\ Queue!Submit(p)
     ELSE UNCHANGED <<proposals, queue>>
  /\ Return(c)
  /\ UNCHANGED <<project, history, sets, git, crashes, worker, lapses>>

\* Nothing tells the proposal that its task is cancelled.
CancelTask(p) ==
  /\ Queue!Revoke(p)
  /\ UNCHANGED <<projectVars, worker, lapses>>

-----------------------------------------------------------------------------
(* The executor.                                                           *)

Prop(w) == worker[w].proposal

Holds(w) == /\ state[Prop(w)] = "held"
            /\ holder[Prop(w)] = worker[w].token

Go(w, place) == worker' = [worker EXCEPT ![w].at = place]
Leave(w)     == worker' = [worker EXCEPT ![w] = IdleSlot]

Runs(p) == \E w \in Workers :
             /\ worker[w].at # "idle"
             /\ Prop(w) = p
             /\ worker[w].token = holder[p]

Claim(w, p) ==
  /\ worker[w].at = "idle"
  /\ granted[p] < MaxGrants
  /\ Queue!Grant(p)
  /\ IF state[p] = "held" /\ Runs(p)
     THEN lapses < MaxLapses /\ lapses' = lapses + 1
     ELSE UNCHANGED lapses
  /\ worker' = [worker EXCEPT ![w] = [IdleSlot EXCEPT !.at = "read", !.proposal = p,
                                                      !.token = granted[p] + 1]]
  /\ UNCHANGED projectVars

CandidateOf(w) == Commit(Prop(w), worker[w].tree)

Finished(w) ==
  proposals[Prop(w)].status = "ready_for_review" /\ refs[Prop(w)] = proposals[Prop(w)].candidate

\* A run starts from rows that it does not read again.
ReadRows(w) ==
  /\ worker[w].at = "read"
  /\ LET row == proposals[Prop(w)] IN
     IF ~Holds(w) THEN Leave(w)
     ELSE IF Finished(w) THEN Go(w, "succeed")
     ELSE IF row.status = "validation_failed" THEN Go(w, "fail")
     ELSE worker' = [worker EXCEPT ![w].at = "begin", ![w].seen = project,
                                   ![w].frozen = sets[row.set].status = "frozen"]
  /\ UNCHANGED <<projectVars, queue, lapses>>

\* A decided proposal is executed again without a complaint.
BeginExecution(w) ==
  /\ worker[w].at = "begin"
  /\ IF ~Holds(w)
     THEN Leave(w) /\ UNCHANGED proposals
     ELSE /\ proposals' = IF proposals[Prop(w)].status \in Undecided
                          THEN [proposals EXCEPT ![Prop(w)].status = "executing"]
                          ELSE proposals
          /\ Go(w, "run")
  /\ UNCHANGED <<project, history, sets, git, client, crashes, queue, lapses>>

\* On the rows as they were read: the base is current and its set active.
StillCurrent(w) ==
  LET row == proposals[Prop(w)] IN
  /\ worker[w].seen.current = row.base
  /\ worker[w].seen.active = row.set
  /\ worker[w].frozen
  /\ IsAncestor(sets[row.set].frozen, row.base)

\* The commands are applied to a worktree of the base and validated; any
\* failure is reported, any tree without one is committed.
Execute(w) ==
  /\ worker[w].at = "run"
  /\ \/ Go(w, "report")
     \/ /\ StillCurrent(w)
        /\ \E tree \in Contents : worker' = [worker EXCEPT ![w].at = "fence", ![w].tree = tree]
  /\ UNCHANGED <<projectVars, queue, lapses>>

\* The last fence before the ref is written.
FenceRef(w) ==
  /\ worker[w].at = "fence"
  /\ IF Holds(w) THEN Go(w, "publish") ELSE Leave(w)
  /\ UNCHANGED <<projectVars, queue, lapses>>

\* Not so: the candidate ref is overwritten, whatever it holds.
Publishable_Any(w) == worker[w].at = "publish"

\* A ref that another run left behind must hold the same commit.
Publishable(w) == Swappable(Prop(w), CandidateOf(w), Nobody)

PublishCandidateRef(w) ==
  /\ worker[w].at = "publish"
  /\ IF Publishable(w)
     THEN Swap(Prop(w), CandidateOf(w)) /\ Go(w, "mark")
     ELSE Go(w, "report") /\ UNCHANGED refs
  /\ UNCHANGED <<database, repo, client, crashes, queue, lapses>>

\* Not so: a proposal that was decided is marked again.
MayMark_Decided(w) == Holds(w) /\ proposals[Prop(w)].status # "ready_for_review"

MayMark(w) == Holds(w) /\ proposals[Prop(w)].status = "executing"

MarkReady(w) ==
  /\ worker[w].at = "mark"
  /\ IF MayMark(w)
     THEN /\ proposals' = [proposals EXCEPT ![Prop(w)].status = "ready_for_review",
                                            ![Prop(w)].candidate = CandidateOf(w)]
          /\ Go(w, "succeed")
     ELSE /\ IF Holds(w) /\ proposals[Prop(w)].status = "ready_for_review"
             THEN Go(w, "succeed")
             ELSE Leave(w)
          /\ UNCHANGED proposals
  /\ UNCHANGED <<project, history, sets, git, client, crashes, queue, lapses>>

\* Not so: a failed report leaves the proposal where it is.
ReportFailure_TaskOnly(w) ==
  /\ worker[w].at = "report"
  /\ IF Holds(w) THEN Go(w, "fail") ELSE Leave(w)
  /\ UNCHANGED <<projectVars, queue, lapses>>

\* The report of a run whose proposal is ready or decided is refused like
\* that of a run that lost its lease.
MarkValidationFailed(w) ==
  /\ worker[w].at = "report"
  /\ LET row == proposals[Prop(w)] IN
     \/ /\ Holds(w) /\ row.status \in Undecided
        /\ proposals' = [proposals EXCEPT ![Prop(w)].status = "validation_failed"]
        /\ Go(w, "fail")
     \/ /\ Holds(w) /\ row.status = "validation_failed"
        /\ Go(w, "fail")
        /\ UNCHANGED proposals
     \/ /\ ~Holds(w) \/ row.status \notin Undecided \union {"validation_failed"}
        /\ Leave(w)
        /\ UNCHANGED proposals
  /\ UNCHANGED <<project, history, sets, git, client, crashes, queue, lapses>>

\* Only the holder of the lease ends the task.
Settle(w) ==
  /\ worker[w].at \in {"succeed", "fail"}
  /\ IF Holds(w)
     THEN Queue!Surrender(Prop(w), worker[w].token,
                          IF worker[w].at = "succeed" THEN "succeeded" ELSE "failed_terminal")
     ELSE UNCHANGED queue
  /\ Leave(w)
  /\ UNCHANGED <<projectVars, lapses>>

CrashWorker(w) ==
  /\ worker[w].at # "idle"
  /\ CountCrash
  /\ Leave(w)
  /\ UNCHANGED <<database, git, client, queue, lapses>>

-----------------------------------------------------------------------------
(* Decisions.                                                              *)

\* An acceptance on another base goes straight to the transaction that
\* records it as stale.
StartAccept(c, p) ==
  /\ At(c, "idle")
  /\ proposals[p].status = "ready_for_review"
  /\ sets[proposals[p].set].status \in {"frozen", "superseded"}
  /\ refs[p] = proposals[p].candidate
  /\ Call(c, "accept", IF project.current = proposals[p].base THEN "list" ELSE "write",
          p, proposals[p].candidate)
  /\ UNCHANGED <<database, git, crashes, queue, worker, lapses>>

\* Not so: the ref is promoted whatever was decided.
Refused_Promotes(c) == MoveTo(c, "promote")

Refused(c) == Return(c)

DecideAccept(c) ==
  /\ Op(c) = "accept"
  /\ At(c, "write")
  /\ LET p   == Subject(c)
         row == proposals[p]
         new == client[c].revision
     IN  \/ /\ row.status # "ready_for_review"
            /\ Refused(c)
            /\ UNCHANGED <<project, history, proposals>>
         \/ /\ row.status = "ready_for_review"
            /\ Advances(c, row.base)
            /\ Advance(new, project.active)
            /\ history' = Append(history, [revision |-> new, parent |-> row.base,
                                           set |-> row.set, proposal |-> p])
            /\ proposals' = [proposals EXCEPT ![p].status = "accepted"]
            /\ MoveTo(c, "promote")
         \/ /\ row.status = "ready_for_review"
            /\ ~Advances(c, row.base)
            /\ proposals' = IF project.current # row.base
                            THEN [proposals EXCEPT ![p].status = "stale"]
                            ELSE proposals
            /\ Refused(c)
            /\ UNCHANGED <<project, history>>
  /\ UNCHANGED <<sets, git, crashes, queue, worker, lapses>>

\* After the commit, from the revision that was current at the call's
\* start; whatever goes wrong is left to the reconciler.
PromoteDesignRef(c) ==
  /\ At(c, "promote")
  /\ IF Swappable("design", client[c].revision, Seen(c).current)
     THEN Swap("design", client[c].revision)
     ELSE UNCHANGED refs
  /\ Return(c)
  /\ UNCHANGED <<database, repo, crashes, queue, worker, lapses>>

StartReject(c, p) ==
  /\ At(c, "idle")
  /\ proposals[p].status = "ready_for_review"
  /\ sets[proposals[p].set].status \in {"frozen", "superseded"}
  /\ refs[p] = proposals[p].candidate
  /\ Call(c, "reject", "write", p, proposals[p].candidate)
  /\ UNCHANGED <<database, git, crashes, queue, worker, lapses>>

DecideReject(c) ==
  /\ Op(c) = "reject"
  /\ At(c, "write")
  /\ proposals' = IF proposals[Subject(c)].status = "ready_for_review"
                  THEN [proposals EXCEPT ![Subject(c)].status = "rejected"]
                  ELSE proposals
  /\ Return(c)
  /\ UNCHANGED <<project, history, sets, git, crashes, queue, worker, lapses>>

-----------------------------------------------------------------------------
WorkerStep(w) ==
  \/ ReadRows(w) \/ BeginExecution(w) \/ Execute(w) \/ FenceRef(w) \/ PublishCandidateRef(w)
  \/ MarkReady(w) \/ MarkValidationFailed(w) \/ Settle(w)

DesignStep(c) == CreateQueued(c) \/ DecideAccept(c) \/ PromoteDesignRef(c) \/ DecideReject(c)

CallStep(c) == DesignStep(c) \/ (ProjectStep(c) /\ UNCHANGED <<queue, worker, lapses>>)

ClaimStep == \E w \in Workers, p \in Proposals : Claim(w, p)

Next ==
  \/ ProjectNext /\ UNCHANGED <<queue, worker, lapses>>
  \/ \E c \in Clients :
       \/ DesignStep(c)
       \/ \E p \in Proposals : StartCreate(c, p) \/ StartAccept(c, p) \/ StartReject(c, p)
  \/ \E p \in Proposals : CancelTask(p)
  \/ ClaimStep
  \/ \E w \in Workers : WorkerStep(w) \/ CrashWorker(w)

Spec == Init /\ [][Next]_vars

\* Workers and calls go on, tasks are claimed, and the services are started
\* again and again, each time with a reconciliation.
FairSpec ==
  /\ Spec
  /\ WF_vars(ClaimStep)
  /\ \A w \in Workers : WF_vars(WorkerStep(w))
  /\ \A c \in Clients : WF_vars(CallStep(c)) /\ WF_vars(StartUp(c) /\ UNCHANGED <<queue, worker, lapses>>)

-----------------------------------------------------------------------------
(* Properties.                                                             *)

\* The accepted revisions form one line: of two proposals, or a proposal
\* and a requirement set, on the same base only one is ever accepted, and
\* the project is at the end of the line (decide_accept, decide_g1).
OneLine ==
  /\ \A i \in DOMAIN history :
       /\ history[i].parent = IF i = 1 THEN Nobody ELSE history[i - 1].revision
       /\ Len(history) = i => project.current = history[i].revision
  /\ \A i, j \in DOMAIN history : history[i].revision = history[j].revision => i = j

\* The reconciler finds the facts it demands of the project's current
\* revision, whatever was accepted, superseded or decided meanwhile: it
\* never locks a project that nobody tampered with (RevisionReconciler).
FactsAreConsistent ==
  project.mode = "managed" => ProjectionFacts(project.current) /\ CandidateRefs

\* A candidate that a reviewer may see, or has decided about, is published
\* under its ref, and a revision enters the history for a proposal exactly
\* when that very candidate was accepted (mark_ready, decide_accept).
ReviewedIsAccepted ==
  \A p \in Proposals :
    /\ proposals[p].status \in {"ready_for_review"} \union Decided =>
         proposals[p].candidate # Nobody /\ refs[p] = proposals[p].candidate
    /\ proposals[p].status = "accepted" <=> \E i \in DOMAIN history :
         history[i].proposal = p /\ history[i].revision = proposals[p].candidate

\* The design ref names the adopted tree or an accepted revision; no crash,
\* late promotion or repair makes it name a candidate, and only a process
\* that died leaves one to a project whose adoption failed.
DesignRefIsAccepted ==
  refs["design"] # Nobody =>
    IF project.mode = "registered" THEN crashes > 0 \/ ~Unlocked ELSE RowsOf(refs["design"]) # {}

\* Nothing leaves review but by a decision, and a decision stands.
DecisionStands ==
  [][\A p \in Proposals :
       proposals[p].status \in {"ready_for_review"} \union Decided /\ proposals'[p] # proposals[p] =>
         /\ proposals[p].status = "ready_for_review"
         /\ proposals'[p].status \in Decided
         /\ proposals'[p].candidate = proposals[p].candidate]_vars

\* Every proposal comes to review or fails, unless its task is cancelled,
\* which leaves it where it is.
ProposalMoves ==
  \A p \in Proposals :
    proposals[p].status \in Undecided ~> proposals[p].status \notin Undecided \/ state[p] = "cancelled"

\* However an acceptance was cut short, the design ref comes to name the
\* project's revision and stays there.
RefFollows == <>[](project.mode = "managed" => refs["design"] = project.current)

-----------------------------------------------------------------------------
(* What the code does not keep.                                            *)

\* The reconciler repairs a recoverable projection from the database: it
\* never takes the design ref back to a revision that the project, and the
\* ref, had left behind (DEVELOPMENT_GUIDE 34.4).
DesignRefMovesForward ==
  [][\A i \in RowsOf(refs["design"]), j \in RowsOf(refs'["design"]) : i <= j]_vars

\* A run that finds what an earlier run left behind ends its task
\* (DEVELOPMENT_GUIDE 34.9).
RerunsEnd ==
  [][\A w \in Workers :
       worker[w].at # "idle" /\ worker'[w].at = "idle" /\ Holds(w) /\ crashes' = crashes =>
         state'[Prop(w)] # "held"]_vars
=============================================================================
