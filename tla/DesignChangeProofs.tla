-------------------------- MODULE DesignChangeProofs --------------------------
(***************************************************************************)
(* What DesignChange keeps for every number of requirement sets,           *)
(* proposals, clients and workers, and whatever crashes, lapsed leases and *)
(* concurrent decisions there are.                                         *)
(***************************************************************************)
EXTENDS DesignChange, TLAPS

Ended    == {"frozen", "superseded"}
Reviewed == {"ready_for_review"} \union Decided

\* A call is about a subject of its kind, and a decision about a candidate
\* that can no longer change.
CallsAreSound ==
  \A c \in Clients :
    /\ Op(c) = "adopt" => client[c].revision \in Revisions /\ client[c].revision.subject = Source
    /\ Op(c) \in {"import", "submit", "approve_g1", "reject_g1"} => Subject(c) \in Sets
    /\ Op(c) = "submit" => client[c].revision = Commit(Subject(c), Rendered)
    /\ Op(c) \in {"create", "accept", "reject"} => Subject(c) \in Proposals
    /\ Op(c) = "accept" => /\ proposals[Subject(c)].status \in Reviewed
                           /\ proposals[Subject(c)].candidate = client[c].revision

\* Requirement sets and proposals belong to a managed project.
ManagedFirst ==
  /\ \A s \in Sets : sets[s].status # "absent" => project.mode = "managed"
  /\ \A p \in Proposals : proposals[p].status # "absent" => project.mode = "managed"
  /\ \A c \in Clients : Op(c) \notin {"none", "adopt"} => project.mode = "managed"
  /\ project.active # Nobody => project.mode = "managed"

\* A candidate is a commit of its own subject, and stays under its ref.
CandidatesAreSound ==
  /\ \A s \in Sets : sets[s].status = "pending_approval" => sets[s].candidate = Commit(s, Rendered)
  /\ \A p \in Proposals : proposals[p].status \in Reviewed =>
       /\ proposals[p].candidate \in Revisions
       /\ proposals[p].candidate.subject = p
       /\ refs[p] = proposals[p].candidate

\* A worker that may mark its proposal has published what it will mark.
RunsAreSound ==
  \A w \in Workers :
    /\ worker[w].at # "idle" => Prop(w) \in Proposals
    /\ worker[w].at \in {"fence", "publish", "mark"} => worker[w].tree \in Contents
    /\ worker[w].at = "mark" => refs[Prop(w)] = CandidateOf(w)

\* The first revision is the adopted one, every other that of a requirement
\* set or a proposal that has ended, each of another.
LineIsSound ==
  /\ project.mode = "registered" => history = <<>> /\ project.current = Nobody
  /\ project.mode = "managed" =>
       history # <<>> /\ project.current = history[Len(history)].revision
  /\ \A i \in DOMAIN history :
       /\ history[i].parent = IF i = 1 THEN Nobody ELSE history[i - 1].revision
       /\ i = 1 => history[i].revision.subject = Source /\ history[i].proposal = Nobody
       /\ i # 1 => \/ /\ history[i].revision.subject \in Sets
                      /\ sets[history[i].revision.subject].status \in Ended
                      /\ history[i].proposal = Nobody
                   \/ /\ history[i].proposal \in Proposals
                      /\ history[i].revision.subject = history[i].proposal
                      /\ proposals[history[i].proposal].status = "accepted"
                      /\ proposals[history[i].proposal].candidate = history[i].revision
  /\ \A i, j \in DOMAIN history :
       history[i].revision.subject = history[j].revision.subject => i = j
  /\ \A p \in Proposals : proposals[p].status = "accepted" =>
       \E i \in DOMAIN history : history[i].proposal = p

IInv == /\ TypeOK /\ CallsAreSound /\ ManagedFirst /\ CandidatesAreSound
        /\ RunsAreSound /\ LineIsSound

-----------------------------------------------------------------------------
(* Which steps write what.                                                 *)

\* The rows change in the transactions of eight calls and three runs.
LEMMA DatabaseSteps ==
  ASSUME [Next]_vars
  PROVE  \/ UNCHANGED database
         \/ \E c \in Clients :
              \/ MarkManaged(c) \/ CreateDraft(c) \/ MarkSubmitted(c) \/ ApproveG1(c) \/ RejectG1(c)
              \/ CreateQueued(c) \/ DecideAccept(c) \/ DecideReject(c)
         \/ \E w \in Workers : BeginExecution(w) \/ MarkReady(w) \/ MarkValidationFailed(w)
<1>1. CASE UNCHANGED vars
  BY <1>1 DEF vars, projectVars, database
<1>2. CASE ProjectNext
  <2>1. PICK c \in Clients :
          ProjectStart(c) \/ ProjectStep(c) \/ FailAdoption(c) \/ CrashCall(c)
    BY <1>2 DEF ProjectNext
  <2>2. CASE ProjectStart(c)
    BY <2>2 DEF ProjectStart, StartAdopt, StartUp, StartImport, StartSubmit, StartG1
  <2>3. CASE ProjectStep(c)
    BY <2>3 DEF ProjectStep, InitRepository, CreateDesignRef, ReconcilerStep, ListAndCheck,
                ResolveDesignRef, RepairDesignRef, PublishSetRef, database
  <2>4. CASE FailAdoption(c) \/ CrashCall(c)
    BY <2>4 DEF FailAdoption, CrashCall
  <2>5. QED  BY <2>1, <2>2, <2>3, <2>4
<1>3. ASSUME NEW c \in Clients, DesignStep(c)
      PROVE  CreateQueued(c) \/ DecideAccept(c) \/ DecideReject(c) \/ UNCHANGED database
  BY <1>3 DEF DesignStep, PromoteDesignRef
<1>4. ASSUME NEW c \in Clients, NEW p \in Proposals,
             StartCreate(c, p) \/ StartAccept(c, p) \/ StartReject(c, p)
      PROVE  UNCHANGED database
  BY <1>4 DEF StartCreate, StartAccept, StartReject
<1>5. ASSUME NEW p \in Proposals, CancelTask(p)
      PROVE  UNCHANGED database
  BY <1>5 DEF CancelTask, projectVars
<1>6. CASE ClaimStep
  BY <1>6 DEF ClaimStep, Claim, projectVars
<1>7. ASSUME NEW w \in Workers, WorkerStep(w) \/ CrashWorker(w)
      PROVE  \/ BeginExecution(w) \/ MarkReady(w) \/ MarkValidationFailed(w)
             \/ UNCHANGED database
  BY <1>7 DEF WorkerStep, CrashWorker, ReadRows, Execute, FenceRef, PublishCandidateRef, Settle,
              projectVars, database
<1>8. QED  BY <1>1, <1>2, <1>3, <1>4, <1>5, <1>6, <1>7 DEF Next

\* The refs are written by five calls and one run.
LEMMA RefSteps ==
  ASSUME [Next]_vars
  PROVE  \/ UNCHANGED refs
         \/ \E c \in Clients :
              \/ CreateDesignRef(c) \/ FailAdoption(c) \/ RepairDesignRef(c) \/ PublishSetRef(c)
              \/ PromoteDesignRef(c)
         \/ \E w \in Workers : PublishCandidateRef(w)
<1>1. CASE UNCHANGED vars
  BY <1>1 DEF vars, projectVars, git
<1>2. CASE ProjectNext
  <2>1. PICK c \in Clients :
          ProjectStart(c) \/ ProjectStep(c) \/ FailAdoption(c) \/ CrashCall(c)
    BY <1>2 DEF ProjectNext
  <2>2. CASE ProjectStart(c)
    BY <2>2 DEF ProjectStart, StartAdopt, StartUp, StartImport, StartSubmit, StartG1, git
  <2>3. CASE ProjectStep(c)
    BY <2>3 DEF ProjectStep, InitRepository, MarkManaged, ReconcilerStep, ListAndCheck,
                ResolveDesignRef, CreateDraft, MarkSubmitted, ApproveG1, RejectG1, git
  <2>4. CASE FailAdoption(c) \/ CrashCall(c)
    BY <2>4 DEF CrashCall, git
  <2>5. QED  BY <2>1, <2>2, <2>3, <2>4
<1>3. ASSUME NEW c \in Clients, DesignStep(c)
      PROVE  PromoteDesignRef(c) \/ UNCHANGED refs
  BY <1>3 DEF DesignStep, CreateQueued, DecideAccept, DecideReject, git
<1>4. ASSUME NEW c \in Clients, NEW p \in Proposals,
             StartCreate(c, p) \/ StartAccept(c, p) \/ StartReject(c, p)
      PROVE  UNCHANGED refs
  BY <1>4 DEF StartCreate, StartAccept, StartReject, git
<1>5. ASSUME NEW p \in Proposals, CancelTask(p)
      PROVE  UNCHANGED refs
  BY <1>5 DEF CancelTask, projectVars, git
<1>6. CASE ClaimStep
  BY <1>6 DEF ClaimStep, Claim, projectVars, git
<1>7. ASSUME NEW w \in Workers, WorkerStep(w) \/ CrashWorker(w)
      PROVE  PublishCandidateRef(w) \/ UNCHANGED refs
  BY <1>7 DEF WorkerStep, CrashWorker, ReadRows, BeginExecution, Execute, FenceRef, MarkReady,
              MarkValidationFailed, Settle, projectVars, git
<1>8. QED  BY <1>1, <1>2, <1>3, <1>4, <1>5, <1>6, <1>7 DEF Next

\* A call goes on with its operation, ends, or is a new one.
Continues(c) ==
  /\ client'[c].op = client[c].op
  /\ client'[c].subject = client[c].subject
  /\ client'[c].revision = client[c].revision

Starts(c) ==
  \/ StartAdopt(c) \/ StartUp(c) \/ ApproveG1(c)
  \/ \E s \in Sets : StartImport(c, s) \/ StartSubmit(c, s) \/ StartG1(c, s)
  \/ \E p \in Proposals : StartCreate(c, p) \/ StartAccept(c, p) \/ StartReject(c, p)

\* Every step of a client goes on with a call, ends it or starts one.
LEMMA CallSteps ==
  ASSUME client \in [Clients -> Calls], [Next]_vars, NEW d \in Clients
  PROVE  \/ Continues(d)
         \/ client'[d].op = "none"
         \/ Starts(d)
<1> USE DEF Continues, Starts
<1>1. CASE UNCHANGED vars
  BY <1>1 DEF vars, projectVars
<1>2. CASE ProjectNext
  <2>1. PICK c \in Clients :
          ProjectStart(c) \/ ProjectStep(c) \/ FailAdoption(c) \/ CrashCall(c)
    BY <1>2 DEF ProjectNext
  <2>2. CASE ProjectStart(c)
    <3>1. CASE StartUp(c)
      BY <3>1 DEF StartUp, Call, Calls, NoCall, database
    <3>2. CASE StartAdopt(c)
      BY <3>2 DEF StartAdopt, Call, Calls
    <3>3. CASE \E s \in Sets : StartImport(c, s) \/ StartSubmit(c, s) \/ StartG1(c, s)
      BY <3>3 DEF StartImport, StartSubmit, StartG1, Call, Calls
    <3>4. QED  BY <2>2, <3>1, <3>2, <3>3 DEF ProjectStart
  <2>3. CASE ProjectStep(c)
    <3>1. CASE InitRepository(c)
      BY <3>1 DEF InitRepository, Calls
    <3>2. CASE CreateDesignRef(c)
      BY <3>2 DEF CreateDesignRef, MoveTo, Return, NoCall, Calls
    <3>3. CASE MarkManaged(c) \/ CreateDraft(c) \/ MarkSubmitted(c) \/ RejectG1(c)
      BY <3>3 DEF MarkManaged, CreateDraft, MarkSubmitted, RejectG1, Return, NoCall, Calls
    <3>4. CASE ListAndCheck(c)
      BY <3>4 DEF ListAndCheck, Return, NoCall, Calls
    <3>5. CASE ResolveDesignRef(c)
      BY <3>5 DEF ResolveDesignRef, Resume, Return, NoCall, Calls
    <3>6. CASE RepairDesignRef(c)
      BY <3>6 DEF RepairDesignRef, Resume, Return, NoCall, Calls
    <3>7. CASE PublishSetRef(c)
      BY <3>7 DEF PublishSetRef, MoveTo, Return, NoCall, Calls
    <3>8. CASE ApproveG1(c)
      BY <3>8 DEF ApproveG1, Call, Return, NoCall, Calls
    <3>9. QED  BY <2>3, <3>1, <3>2, <3>3, <3>4, <3>5, <3>6, <3>7, <3>8 DEF ProjectStep, ReconcilerStep
  <2>4. CASE FailAdoption(c) \/ CrashCall(c)
    BY <2>4 DEF FailAdoption, CrashCall, Return, NoCall, Calls
  <2>5. QED  BY <2>1, <2>2, <2>3, <2>4
<1>3. ASSUME NEW c \in Clients, DesignStep(c)
      PROVE  Continues(d) \/ client'[d].op = "none"
  <2>1. CASE DecideAccept(c)
    BY <2>1 DEF DecideAccept, Refused, MoveTo, Return, NoCall, Calls
  <2>2. CASE CreateQueued(c) \/ PromoteDesignRef(c) \/ DecideReject(c)
    BY <2>2 DEF CreateQueued, PromoteDesignRef, DecideReject, Return, NoCall, Calls
  <2>3. QED  BY <1>3, <2>1, <2>2 DEF DesignStep
<1>4. ASSUME NEW c \in Clients, NEW p \in Proposals,
             StartCreate(c, p) \/ StartAccept(c, p) \/ StartReject(c, p)
      PROVE  Continues(d) \/ Starts(d)
  BY <1>4 DEF StartCreate, StartAccept, StartReject, Call, Calls
<1>5. ASSUME NEW p \in Proposals, CancelTask(p)
      PROVE  UNCHANGED client
  BY <1>5 DEF CancelTask, projectVars
<1>6. CASE ClaimStep
  BY <1>6 DEF ClaimStep, Claim, projectVars
<1>7. ASSUME NEW w \in Workers, WorkerStep(w) \/ CrashWorker(w)
      PROVE  UNCHANGED client
  BY <1>7 DEF WorkerStep, CrashWorker, ReadRows, BeginExecution, Execute, FenceRef,
              PublishCandidateRef, MarkReady, MarkValidationFailed, Settle, projectVars
<1>8. QED  BY <1>1, <1>2, <1>3, <1>4, <1>5, <1>6, <1>7 DEF Next

-----------------------------------------------------------------------------
(* What steps never do.                                                    *)

\* A creation writes a queued row or leaves the row as it is.
LEMMA NewProposal ==
  ASSUME TypeOK, NEW c \in Clients, CreateQueued(c), NEW p \in Proposals
  PROVE  proposals'[p] = proposals[p] \/ proposals'[p].status = "queued"
<1>1. proposals \in [Proposals -> ProposalRows]
  BY DEF TypeOK, ProjectTypeOK
<1>2. \/ UNCHANGED proposals
      \/ proposals' = [proposals EXCEPT ![Subject(c)] =
                         [@ EXCEPT !.status = "queued", !.base = client[c].revision,
                                   !.set = Seen(c).active]]
  BY DEF CreateQueued
<1>3. CASE p = Subject(c)
  BY <1>1, <1>2, <1>3 DEF ProposalRows
<1>4. CASE p # Subject(c)
  BY <1>1, <1>2, <1>4
<1>5. QED  BY <1>3, <1>4

\* A reviewed candidate stays; its row only moves from review to a decision.
LEMMA ReviewStays ==
  ASSUME TypeOK, [Next]_vars, NEW p \in Proposals
  PROVE  /\ proposals[p].status \in Reviewed =>
              /\ proposals'[p].status \in Reviewed
              /\ proposals'[p].candidate = proposals[p].candidate
              /\ \/ proposals'[p] = proposals[p]
                 \/ proposals[p].status = "ready_for_review" /\ proposals'[p].status \in Decided
         /\ proposals[p].status = "accepted" => proposals'[p].status = "accepted"
<1> USE DEF TypeOK, ProjectTypeOK, ProposalRows, Reviewed, Decided, Undecided
<1>1. CASE UNCHANGED database
  BY <1>1 DEF database
<1>2. ASSUME NEW c \in Clients,
             MarkManaged(c) \/ CreateDraft(c) \/ MarkSubmitted(c) \/ ApproveG1(c) \/ RejectG1(c)
      PROVE  UNCHANGED proposals
  BY <1>2 DEF MarkManaged, CreateDraft, MarkSubmitted, ApproveG1, RejectG1
<1>3. ASSUME NEW c \in Clients, CreateQueued(c)
      PROVE  proposals[p].status # "absent" => proposals'[p] = proposals[p]
  BY <1>3 DEF CreateQueued
<1>4. ASSUME NEW c \in Clients, DecideAccept(c) \/ DecideReject(c)
      PROVE  /\ proposals'[p].candidate = proposals[p].candidate
             /\ \/ proposals'[p] = proposals[p]
                \/ proposals[p].status = "ready_for_review" /\ proposals'[p].status \in Decided
  <2>1. CASE DecideAccept(c)
    BY <1>4, <2>1 DEF DecideAccept
  <2>2. CASE DecideReject(c)
    BY <1>4, <2>2 DEF DecideReject
  <2>3. QED  BY <1>4, <2>1, <2>2
<1>5. ASSUME NEW w \in Workers, BeginExecution(w) \/ MarkReady(w) \/ MarkValidationFailed(w)
      PROVE  proposals[p].status \in Undecided \/ proposals'[p] = proposals[p]
  <2>1. CASE BeginExecution(w)
    BY <2>1 DEF BeginExecution
  <2>2. CASE MarkReady(w)
    BY <2>2 DEF MarkReady, MayMark
  <2>3. CASE MarkValidationFailed(w)
    BY <2>3 DEF MarkValidationFailed
  <2>4. QED  BY <1>5, <2>1, <2>2, <2>3
<1>6. QED  BY <1>1, <1>2, <1>3, <1>4, <1>5, DatabaseSteps

\* A frozen or superseded requirement set stays one of the two.
LEMMA EndsStay ==
  ASSUME TypeOK, [Next]_vars, NEW s \in Sets, sets[s].status \in Ended
  PROVE  sets'[s].status \in Ended
<1> USE DEF TypeOK, ProjectTypeOK, SetRows, Ended
<1>1. CASE UNCHANGED database
  BY <1>1 DEF database
<1>2. ASSUME NEW c \in Clients, MarkManaged(c) \/ CreateQueued(c) \/ DecideAccept(c) \/ DecideReject(c)
      PROVE  UNCHANGED sets
  BY <1>2 DEF MarkManaged, CreateQueued, DecideAccept, DecideReject
<1>3. ASSUME NEW c \in Clients, CreateDraft(c) \/ MarkSubmitted(c) \/ RejectG1(c)
      PROVE  sets'[s] = sets[s]
  BY <1>3 DEF CreateDraft, MarkSubmitted, RejectG1
<1>4. ASSUME NEW c \in Clients, ApproveG1(c)
      PROVE  sets'[s].status \in Ended
  <2>1. sets' = sets \/ sets' = Superseding(Subject(c))
    BY <1>4 DEF ApproveG1
  <2>2. sets[s] \in SetRows
    OBVIOUS
  <2>3. Superseding(Subject(c))[s].status \in Ended
    <3>1. CASE s = Subject(c)
      BY <2>2, <3>1 DEF Superseding
    <3>2. CASE s # Subject(c) /\ s = project.active
      BY <2>2, <3>2 DEF Superseding
    <3>3. CASE s # Subject(c) /\ s # project.active
      BY <2>2, <3>3 DEF Superseding
    <3>4. QED  BY <3>1, <3>2, <3>3
  <2>4. QED  BY <2>1, <2>3
<1>5. ASSUME NEW w \in Workers, BeginExecution(w) \/ MarkReady(w) \/ MarkValidationFailed(w)
      PROVE  UNCHANGED sets
  BY <1>5 DEF BeginExecution, MarkReady, MarkValidationFailed
<1>6. QED  BY <1>1, <1>2, <1>3, <1>4, <1>5, DatabaseSteps

\* Nobody moves the candidate ref of a proposal once it is there.
LEMMA RefStays ==
  ASSUME TypeOK, CallsAreSound, [Next]_vars, NEW p \in Proposals, refs[p] # Nobody
  PROVE  refs'[p] = refs[p]
<1> USE DEF TypeOK, ProjectTypeOK
<1>1. ASSUME NEW c \in Clients,
             CreateDesignRef(c) \/ FailAdoption(c) \/ RepairDesignRef(c) \/ PromoteDesignRef(c)
      PROVE  \/ UNCHANGED refs
             \/ \E new \in MaybeRevision : refs' = [refs EXCEPT !["design"] = new]
  <2>1. CASE CreateDesignRef(c)
    BY <2>1 DEF CreateDesignRef, RemoveFresh, Swap, git, Calls, MaybeRevision
  <2>2. CASE FailAdoption(c)
    BY <2>2 DEF FailAdoption, RemoveFresh, Swap, git, MaybeRevision
  <2>3. CASE RepairDesignRef(c)
    BY <2>3 DEF RepairDesignRef, Swap, Calls
  <2>4. CASE PromoteDesignRef(c)
    BY <2>4 DEF PromoteDesignRef, Swap, Calls
  <2>5. QED  BY <1>1, <2>1, <2>2, <2>3, <2>4
<1>2. ASSUME NEW c \in Clients, PublishSetRef(c)
      PROVE  refs'[p] = refs[p]
  BY <1>2, ProjectAssumption DEF PublishSetRef, Swap, CallsAreSound
<1>3. ASSUME NEW w \in Workers, PublishCandidateRef(w)
      PROVE  refs'[p] = refs[p]
  BY <1>3 DEF PublishCandidateRef, Publishable, Swappable, Unchanged, Swap
<1>4. "design" # p
  BY ProjectAssumption
<1>5. QED  BY <1>1, <1>2, <1>3, <1>4, RefSteps

-----------------------------------------------------------------------------
(* The parts of the invariant, one after the other.                        *)

\* Whatever others do, a running call stays about its own subject.
LEMMA CallsStep ==
  ASSUME TypeOK, CallsAreSound, [Next]_vars
  PROVE  CallsAreSound'
<1> USE DEF TypeOK, ProjectTypeOK
<1> SUFFICES ASSUME NEW c \in Clients
             PROVE  /\ client'[c].op = "adopt" => client'[c].revision \in Revisions /\ client'[c].revision.subject = Source
                    /\ client'[c].op \in {"import", "submit", "approve_g1", "reject_g1"} => client'[c].subject \in Sets
                    /\ client'[c].op = "submit" => client'[c].revision = Commit(client'[c].subject, Rendered)
                    /\ client'[c].op \in {"create", "accept", "reject"} => client'[c].subject \in Proposals
                    /\ client'[c].op = "accept" =>
                         /\ proposals'[client'[c].subject].status \in Reviewed
                         /\ proposals'[client'[c].subject].candidate = client'[c].revision
  BY DEF CallsAreSound, Op, Subject
<1>1. CASE Continues(c)
  BY <1>1, ReviewStays DEF CallsAreSound, Continues, Op, Subject
<1>2. CASE client'[c].op = "none"
  BY <1>2
<1>3. CASE Starts(c)
  <2>1. CASE StartAdopt(c)
    <3>1. PICK tree \in Contents : Call(c, "adopt", "init", Nobody, Commit(Source, tree))
      BY <2>1 DEF StartAdopt
    <3>2. client'[c].op = "adopt" /\ client'[c].revision = Commit(Source, tree)
      BY <3>1 DEF Call, NoCall
    <3>3. Commit(Source, tree) \in Revisions /\ Commit(Source, tree).subject = Source
      BY DEF Commit, Revisions
    <3>4. QED  BY <3>2, <3>3
  <2>2. CASE StartUp(c)
    BY <2>2 DEF StartUp, Call, NoCall
  <2>3. CASE ApproveG1(c)
    <3>1. \/ Call(c, "settle", "list", Nobody, Nobody)
          \/ Return(c)
      BY <2>3 DEF ApproveG1
    <3>2. client'[c].op \in {"settle", "none"}
      <4>1. CASE Call(c, "settle", "list", Nobody, Nobody)
        BY <4>1 DEF Call, NoCall
      <4>2. CASE Return(c)
        BY <4>2 DEF Return, NoCall
      <4>3. QED  BY <3>1, <4>1, <4>2
    <3>3. QED  BY <3>2
  <2>4. ASSUME NEW s \in Sets, StartImport(c, s) \/ StartSubmit(c, s) \/ StartG1(c, s)
        PROVE  /\ client'[c].op \in {"import", "submit", "approve_g1", "reject_g1"}
               /\ client'[c].subject = s
               /\ client'[c].op = "submit" => client'[c].revision = Commit(s, Rendered)
    <3>1. \/ Call(c, "import", "list", s, Nobody)
          \/ Call(c, "submit", "list", s, Commit(s, Rendered))
          \/ Call(c, "approve_g1", "list", s, sets[s].candidate)
          \/ Call(c, "reject_g1", "write", s, sets[s].candidate)
      BY <2>4 DEF StartImport, StartSubmit, StartG1
    <3>2. CASE Call(c, "import", "list", s, Nobody)
      BY <3>2 DEF Call, NoCall
    <3>3. CASE Call(c, "submit", "list", s, Commit(s, Rendered))
      BY <3>3 DEF Call, NoCall
    <3>4. CASE Call(c, "approve_g1", "list", s, sets[s].candidate)
      BY <3>4 DEF Call, NoCall
    <3>5. CASE Call(c, "reject_g1", "write", s, sets[s].candidate)
      BY <3>5 DEF Call, NoCall
    <3>6. QED  BY <3>1, <3>2, <3>3, <3>4, <3>5
  <2>5. ASSUME NEW p \in Proposals, StartCreate(c, p) \/ StartReject(c, p)
        PROVE  client'[c].op \in {"create", "reject"} /\ client'[c].subject = p
    <3>1. \/ Call(c, "create", "list", p, project.current)
          \/ Call(c, "reject", "write", p, proposals[p].candidate)
      BY <2>5 DEF StartCreate, StartReject
    <3>2. CASE Call(c, "create", "list", p, project.current)
      BY <3>2 DEF Call, NoCall
    <3>3. CASE Call(c, "reject", "write", p, proposals[p].candidate)
      BY <3>3 DEF Call, NoCall
    <3>4. QED  BY <3>1, <3>2, <3>3
  <2>6. ASSUME NEW p \in Proposals, StartAccept(c, p)
        PROVE  /\ client'[c].op = "accept" /\ client'[c].subject = p
               /\ client'[c].revision = proposals[p].candidate
               /\ proposals' = proposals /\ proposals[p].status \in Reviewed
    BY <2>6 DEF StartAccept, Call, NoCall, Reviewed, database
  <2>7. QED  BY <1>3, <2>1, <2>2, <2>3, <2>4, <2>5, <2>6 DEF Starts
<1>4. QED  BY <1>1, <1>2, <1>3, CallSteps

\* A managed project is never registered again.
LEMMA ManagedStays ==
  ASSUME TypeOK, [Next]_vars, project.mode = "managed"
  PROVE  project'.mode = "managed"
<1> USE DEF TypeOK, ProjectTypeOK, Projects
<1>1. CASE UNCHANGED database
  BY <1>1 DEF database
<1>2. ASSUME NEW c \in Clients, CreateDraft(c) \/ MarkSubmitted(c) \/ RejectG1(c) \/ CreateQueued(c) \/ DecideReject(c)
      PROVE  UNCHANGED project
  BY <1>2 DEF CreateDraft, MarkSubmitted, RejectG1, CreateQueued, DecideReject
<1>3. ASSUME NEW c \in Clients, MarkManaged(c) \/ ApproveG1(c) \/ DecideAccept(c)
      PROVE  project'.mode = "managed"
  <2>1. CASE MarkManaged(c)
    BY <2>1 DEF MarkManaged
  <2>2. CASE ApproveG1(c)
    BY <2>2 DEF ApproveG1, Advance
  <2>3. CASE DecideAccept(c)
    BY <2>3 DEF DecideAccept, Advance
  <2>4. QED  BY <1>3, <2>1, <2>2, <2>3
<1>4. ASSUME NEW w \in Workers, BeginExecution(w) \/ MarkReady(w) \/ MarkValidationFailed(w)
      PROVE  UNCHANGED project
  BY <1>4 DEF BeginExecution, MarkReady, MarkValidationFailed
<1>5. QED  BY <1>1, <1>2, <1>3, <1>4, DatabaseSteps

\* Sets, proposals and calls come to managed projects only.
LEMMA ManagedStep ==
  ASSUME TypeOK, ManagedFirst, [Next]_vars
  PROVE  ManagedFirst'
<1> USE DEF TypeOK, ProjectTypeOK, Projects
<1> DEFINE managed == project.mode = "managed"
<1>1. ASSUME NEW s \in Sets, sets'[s].status # "absent"
      PROVE  managed \/ project'.mode = "managed"
  <2>1. CASE UNCHANGED database
    BY <1>1, <2>1 DEF database, ManagedFirst
  <2>2. ASSUME NEW c \in Clients, MarkManaged(c) \/ CreateQueued(c) \/ DecideAccept(c) \/ DecideReject(c)
        PROVE  UNCHANGED sets
    BY <2>2 DEF MarkManaged, CreateQueued, DecideAccept, DecideReject
  <2>3. ASSUME NEW c \in Clients, CreateDraft(c) \/ MarkSubmitted(c) \/ RejectG1(c) \/ ApproveG1(c)
        PROVE  managed
    BY <2>3 DEF CreateDraft, MarkSubmitted, RejectG1, ApproveG1, ManagedFirst
  <2>4. ASSUME NEW w \in Workers, BeginExecution(w) \/ MarkReady(w) \/ MarkValidationFailed(w)
        PROVE  UNCHANGED sets
    BY <2>4 DEF BeginExecution, MarkReady, MarkValidationFailed
  <2>5. QED  BY <1>1, <2>1, <2>2, <2>3, <2>4, DatabaseSteps DEF ManagedFirst
<1>2. ASSUME NEW p \in Proposals, proposals'[p].status # "absent"
      PROVE  managed \/ project'.mode = "managed"
  <2>1. CASE UNCHANGED database
    BY <1>2, <2>1 DEF database, ManagedFirst
  <2>2. ASSUME NEW c \in Clients,
               MarkManaged(c) \/ CreateDraft(c) \/ MarkSubmitted(c) \/ RejectG1(c) \/ ApproveG1(c)
        PROVE  UNCHANGED proposals
    BY <2>2 DEF MarkManaged, CreateDraft, MarkSubmitted, RejectG1, ApproveG1
  <2>3. ASSUME NEW c \in Clients, CreateQueued(c) \/ DecideAccept(c) \/ DecideReject(c)
        PROVE  managed
    BY <2>3 DEF CreateQueued, DecideAccept, DecideReject, ManagedFirst
  <2>4. ASSUME NEW w \in Workers, BeginExecution(w) \/ MarkReady(w) \/ MarkValidationFailed(w)
        PROVE  proposals[p].status # "absent"
    <3>1. proposals[p].status = "absent" => proposals'[p] = proposals[p]
      BY <2>4 DEF BeginExecution, MarkReady, MayMark, MarkValidationFailed, Undecided
    <3>2. QED  BY <1>2, <3>1
  <2>5. QED  BY <1>2, <2>1, <2>2, <2>3, <2>4, DatabaseSteps DEF ManagedFirst
<1>3. ASSUME NEW c \in Clients, client'[c].op \notin {"none", "adopt"}
      PROVE  managed
  <2>1. CASE Continues(c)
    BY <1>3, <2>1 DEF Continues, ManagedFirst, Op
  <2>2. CASE Starts(c)
    <3>1. CASE StartAdopt(c)
      <4>1. PICK tree \in Contents : Call(c, "adopt", "init", Nobody, Commit(Source, tree))
        BY <3>1 DEF StartAdopt
      <4>2. QED  BY <1>3, <4>1 DEF Call, NoCall
    <3>2. CASE StartUp(c)
      BY <3>2 DEF StartUp
    <3>3. CASE ApproveG1(c)
      BY <3>3 DEF ApproveG1, ManagedFirst
    <3>4. CASE \E s \in Sets : StartImport(c, s) \/ StartSubmit(c, s) \/ StartG1(c, s)
      BY <3>4 DEF StartImport, StartSubmit, StartG1, ManagedFirst
    <3>5. CASE \E p \in Proposals : StartCreate(c, p) \/ StartAccept(c, p) \/ StartReject(c, p)
      BY <3>5 DEF StartCreate, StartAccept, StartReject, ManagedFirst
    <3>6. QED  BY <2>2, <3>1, <3>2, <3>3, <3>4, <3>5 DEF Starts
  <2>3. QED  BY <1>3, <2>1, <2>2, CallSteps
<1>4. ASSUME project'.active # Nobody
      PROVE  managed \/ project'.mode = "managed"
  <2>1. CASE UNCHANGED database
    BY <1>4, <2>1 DEF database, ManagedFirst
  <2>2. ASSUME NEW c \in Clients,
               CreateDraft(c) \/ MarkSubmitted(c) \/ RejectG1(c) \/ CreateQueued(c) \/ DecideReject(c)
        PROVE  UNCHANGED project
    BY <2>2 DEF CreateDraft, MarkSubmitted, RejectG1, CreateQueued, DecideReject
  <2>3. ASSUME NEW c \in Clients, MarkManaged(c)
        PROVE  UNCHANGED project \/ project'.mode = "managed"
    BY <2>3 DEF MarkManaged
  <2>4. ASSUME NEW c \in Clients, ApproveG1(c) \/ DecideAccept(c)
        PROVE  managed
    BY <2>4 DEF ApproveG1, DecideAccept, ManagedFirst
  <2>5. ASSUME NEW w \in Workers, BeginExecution(w) \/ MarkReady(w) \/ MarkValidationFailed(w)
        PROVE  UNCHANGED project
    BY <2>5 DEF BeginExecution, MarkReady, MarkValidationFailed
  <2>6. QED  BY <1>4, <2>1, <2>2, <2>3, <2>4, <2>5, DatabaseSteps DEF ManagedFirst
<1>5. managed => project'.mode = "managed"
  BY ManagedStays
<1>6. QED  BY <1>1, <1>2, <1>3, <1>4, <1>5 DEF ManagedFirst, Op

\* A row names a candidate only once its ref holds it, and the ref stays.
LEMMA CandidatesStep ==
  ASSUME TypeOK, CallsAreSound, CandidatesAreSound, RunsAreSound, [Next]_vars
  PROVE  CandidatesAreSound'
<1> USE DEF TypeOK, ProjectTypeOK
<1>1. ASSUME NEW s \in Sets, sets'[s].status = "pending_approval"
      PROVE  sets'[s].candidate = Commit(s, Rendered)
  <2>1. CASE UNCHANGED sets
    BY <1>1, <2>1 DEF CandidatesAreSound
  <2>2. ASSUME NEW c \in Clients, CreateDraft(c) \/ RejectG1(c)
        PROVE  sets'[s] = sets[s]
    BY <1>1, <2>2 DEF CreateDraft, RejectG1, SetRows
  <2>3. ASSUME NEW c \in Clients, MarkSubmitted(c)
        PROVE  sets'[s] = sets[s] \/ sets'[s].candidate = Commit(s, Rendered)
    BY <2>3 DEF MarkSubmitted, SetRows, CallsAreSound
  <2>4. ASSUME NEW c \in Clients, ApproveG1(c)
        PROVE  sets'[s] = sets[s]
    <3>1. sets' = sets \/ sets' = Superseding(Subject(c))
      BY <2>4 DEF ApproveG1
    <3>2. CASE sets' = Superseding(Subject(c))
      <4>1. CASE s = Subject(c)
        BY <1>1, <3>2, <4>1 DEF Superseding, SetRows
      <4>2. CASE s # Subject(c) /\ s = project.active
        BY <1>1, <3>2, <4>2 DEF Superseding, SetRows
      <4>3. CASE s # Subject(c) /\ s # project.active
        BY <1>1, <3>2, <4>3 DEF Superseding, SetRows
      <4>4. QED  BY <4>1, <4>2, <4>3
    <3>3. QED  BY <3>1, <3>2
  <2>5. ASSUME NEW c \in Clients, MarkManaged(c) \/ CreateQueued(c) \/ DecideAccept(c) \/ DecideReject(c)
        PROVE  UNCHANGED sets
    BY <2>5 DEF MarkManaged, CreateQueued, DecideAccept, DecideReject
  <2>6. ASSUME NEW w \in Workers, BeginExecution(w) \/ MarkReady(w) \/ MarkValidationFailed(w)
        PROVE  UNCHANGED sets
    BY <2>6 DEF BeginExecution, MarkReady, MarkValidationFailed
  <2>7. QED
    BY <1>1, <2>1, <2>2, <2>3, <2>4, <2>5, <2>6, DatabaseSteps DEF database, CandidatesAreSound
<1>2. ASSUME NEW p \in Proposals, proposals'[p].status \in Reviewed
      PROVE  /\ proposals'[p].candidate \in Revisions
             /\ proposals'[p].candidate.subject = p
             /\ refs'[p] = proposals'[p].candidate
  <2>1. CASE proposals[p].status \in Reviewed
    <3>1. proposals[p].candidate # Nobody /\ refs[p] = proposals[p].candidate
      BY <2>1, RevisionAssumption DEF CandidatesAreSound
    <3>2. refs'[p] = refs[p]
      BY <3>1, RefStays
    <3>3. QED  BY <2>1, <3>1, <3>2, ReviewStays DEF CandidatesAreSound
  <2>2. CASE proposals[p].status \notin Reviewed
    <3>1. PICK w \in Workers : MarkReady(w) /\ Prop(w) = p /\ MayMark(w)
      <4>1. ASSUME NEW c \in Clients,
                   \/ MarkManaged(c) \/ CreateDraft(c) \/ MarkSubmitted(c) \/ ApproveG1(c) \/ RejectG1(c)
                   \/ CreateQueued(c) \/ DecideReject(c) \/ DecideAccept(c)
            PROVE  FALSE
        <5>1. CASE DecideAccept(c)
          BY <1>2, <2>2, <5>1 DEF DecideAccept, Reviewed, Decided, ProposalRows
        <5>2. CASE MarkManaged(c) \/ CreateDraft(c) \/ MarkSubmitted(c) \/ ApproveG1(c) \/ RejectG1(c)
          BY <1>2, <2>2, <5>2 DEF MarkManaged, CreateDraft, MarkSubmitted, ApproveG1, RejectG1
        <5>3. CASE CreateQueued(c) \/ DecideReject(c)
          <6>1. CASE CreateQueued(c)
            BY <1>2, <2>2, <6>1, NewProposal DEF Reviewed, Decided
          <6>2. CASE DecideReject(c)
            BY <1>2, <2>2, <6>2 DEF DecideReject, Reviewed, Decided, ProposalRows
          <6>3. QED  BY <5>3, <6>1, <6>2
        <5>4. QED  BY <4>1, <5>1, <5>2, <5>3
      <4>2. ASSUME NEW w \in Workers, BeginExecution(w) \/ MarkValidationFailed(w)
            PROVE  FALSE
        <5>1. CASE BeginExecution(w)
          BY <1>2, <2>2, <5>1 DEF BeginExecution, Reviewed, Decided, Undecided, ProposalRows
        <5>2. CASE MarkValidationFailed(w)
          <6>1. \/ UNCHANGED proposals
                \/ proposals' = [proposals EXCEPT ![Prop(w)].status = "validation_failed"]
            BY <5>2 DEF MarkValidationFailed
          <6>2. QED  BY <1>2, <2>2, <6>1 DEF Reviewed, Decided, ProposalRows
        <5>3. QED  BY <4>2, <5>1, <5>2
      <4>3. ASSUME NEW w \in Workers, MarkReady(w)
            PROVE  Prop(w) = p /\ MayMark(w)
        BY <1>2, <2>2, <4>3 DEF MarkReady
      <4>4. ~UNCHANGED proposals
        BY <1>2, <2>2
      <4>5. QED  BY <4>1, <4>2, <4>3, <4>4, DatabaseSteps DEF database
    <3>2. worker[w].at = "mark" /\ proposals'[p].candidate = CandidateOf(w) /\ refs' = refs
      BY <3>1 DEF MarkReady, git, ProposalRows
    <3>3. refs[p] = CandidateOf(w) /\ worker[w].tree \in Contents
      BY <3>1, <3>2 DEF RunsAreSound
    <3>4. CandidateOf(w) \in Revisions /\ CandidateOf(w).subject = p
      BY <3>1, <3>3 DEF CandidateOf, Commit, Revisions
    <3>5. QED  BY <3>2, <3>3, <3>4
  <2>3. QED  BY <2>1, <2>2
<1>3. QED  BY <1>1, <1>2 DEF CandidatesAreSound

\* A run keeps its proposal and what it built, until it leaves; it comes to
\* the next fence with a tree, and to its mark with a ref.
RunContinues(w) ==
  /\ worker'[w].proposal = worker[w].proposal
  /\ worker'[w].tree = worker[w].tree
  /\ worker'[w].at \in {"fence", "publish", "mark"} => worker'[w].at = worker[w].at

\* Where a run can be after a step, and what it brought along.
LEMMA WorkerSteps ==
  ASSUME worker \in [Workers -> Slots], [Next]_vars, NEW v \in Workers
  PROVE  \/ RunContinues(v) /\ (worker'[v].at # "idle" => worker[v].at # "idle")
         \/ worker'[v].at = "idle"
         \/ worker'[v].at = "read" /\ worker'[v].proposal \in Proposals
         \/ /\ worker[v].at = "run" /\ worker'[v].at = "fence"
            /\ worker'[v].proposal = worker[v].proposal /\ worker'[v].tree \in Contents
         \/ /\ worker[v].at = "fence" /\ worker'[v].at = "publish"
            /\ worker'[v].proposal = worker[v].proposal /\ worker'[v].tree = worker[v].tree
         \/ /\ PublishCandidateRef(v) /\ Publishable(v) /\ worker'[v].at = "mark"
            /\ worker'[v].proposal = worker[v].proposal /\ worker'[v].tree = worker[v].tree
<1> USE DEF RunContinues
<1>1. CASE UNCHANGED worker
  BY <1>1
<1>2. CASE ClaimStep
  <2>1. PICK w \in Workers, p \in Proposals : Claim(w, p)
    BY <1>2 DEF ClaimStep
  <2>2. worker' = [worker EXCEPT ![w] = [IdleSlot EXCEPT !.at = "read", !.proposal = p,
                                                         !.token = granted[p] + 1]]
    BY <2>1 DEF Claim
  <2>3. QED  BY <2>2 DEF IdleSlot
<1>3. ASSUME NEW w \in Workers, WorkerStep(w) \/ CrashWorker(w), w = v
      PROVE  \/ RunContinues(w) /\ (worker'[w].at # "idle" => worker[w].at # "idle")
             \/ worker'[w].at = "idle"
             \/ /\ worker[w].at = "run" /\ worker'[w].at = "fence"
                /\ worker'[w].proposal = worker[w].proposal /\ worker'[w].tree \in Contents
             \/ /\ worker[w].at = "fence" /\ worker'[w].at = "publish"
                /\ worker'[w].proposal = worker[w].proposal /\ worker'[w].tree = worker[w].tree
             \/ /\ PublishCandidateRef(w) /\ Publishable(w) /\ worker'[w].at = "mark"
                /\ worker'[w].proposal = worker[w].proposal /\ worker'[w].tree = worker[w].tree
  <2> USE DEF Slots
  <2>1. CASE ReadRows(w)
    BY <2>1 DEF ReadRows, Leave, Go, IdleSlot
  <2>2. CASE BeginExecution(w)
    BY <2>2 DEF BeginExecution, Leave, Go, IdleSlot
  <2>3. CASE Execute(w)
    BY <2>3 DEF Execute, Go
  <2>4. CASE FenceRef(w)
    BY <2>4 DEF FenceRef, Leave, Go, IdleSlot
  <2>5. CASE PublishCandidateRef(w)
    BY <2>5 DEF PublishCandidateRef, Go
  <2>6. CASE MarkReady(w)
    BY <2>6 DEF MarkReady, Leave, Go, IdleSlot
  <2>7. CASE MarkValidationFailed(w)
    BY <2>7 DEF MarkValidationFailed, Leave, Go, IdleSlot
  <2>8. CASE Settle(w) \/ CrashWorker(w)
    BY <2>8 DEF Settle, CrashWorker, Leave, IdleSlot
  <2>9. QED  BY <1>3, <2>1, <2>2, <2>3, <2>4, <2>5, <2>6, <2>7, <2>8 DEF WorkerStep
<1>4. ASSUME NEW w \in Workers, WorkerStep(w) \/ CrashWorker(w), w # v
      PROVE  worker'[v] = worker[v]
  BY <1>4 DEF WorkerStep, CrashWorker, ReadRows, BeginExecution, Execute, FenceRef,
              PublishCandidateRef, MarkReady, MarkValidationFailed, Settle, Go, Leave
<1>5. CASE UNCHANGED vars
  BY <1>5 DEF vars
<1>6. ASSUME NEW c \in Clients, DesignStep(c)
      PROVE  UNCHANGED worker
  BY <1>6 DEF DesignStep, CreateQueued, DecideAccept, PromoteDesignRef, DecideReject
<1>7. ASSUME NEW c \in Clients, NEW p \in Proposals,
             StartCreate(c, p) \/ StartAccept(c, p) \/ StartReject(c, p)
      PROVE  UNCHANGED worker
  BY <1>7 DEF StartCreate, StartAccept, StartReject
<1>8. ASSUME NEW p \in Proposals, CancelTask(p)
      PROVE  UNCHANGED worker
  BY <1>8 DEF CancelTask
<1>9. QED  BY <1>1, <1>2, <1>3, <1>4, <1>5, <1>6, <1>7, <1>8 DEF Next

\* A run that comes to its mark has its candidate under the ref.
LEMMA RunsStep ==
  ASSUME TypeOK, CallsAreSound, RunsAreSound, [Next]_vars
  PROVE  RunsAreSound'
<1> USE DEF TypeOK, ProjectTypeOK
<1> SUFFICES ASSUME NEW w \in Workers
             PROVE  /\ worker'[w].at # "idle" => worker'[w].proposal \in Proposals
                    /\ worker'[w].at \in {"fence", "publish", "mark"} => worker'[w].tree \in Contents
                    /\ worker'[w].at = "mark" =>
                         refs'[worker'[w].proposal] = Commit(worker'[w].proposal, worker'[w].tree)
  BY DEF RunsAreSound, Prop, CandidateOf
<1>1. CASE RunContinues(w) /\ (worker'[w].at # "idle" => worker[w].at # "idle")
  <2>1. /\ worker'[w].at # "idle" => worker'[w].proposal \in Proposals
        /\ worker'[w].at \in {"fence", "publish", "mark"} => worker'[w].tree \in Contents
    BY <1>1 DEF RunContinues, RunsAreSound, Prop
  <2>2. ASSUME worker'[w].at = "mark"
        PROVE  refs'[worker'[w].proposal] = Commit(worker'[w].proposal, worker'[w].tree)
    <3>1. worker[w].at = "mark" /\ worker'[w].proposal = worker[w].proposal /\ worker'[w].tree = worker[w].tree
      BY <1>1, <2>2 DEF RunContinues
    <3>2. /\ worker[w].proposal \in Proposals /\ worker[w].tree \in Contents
          /\ refs[worker[w].proposal] = Commit(worker[w].proposal, worker[w].tree)
      BY <3>1 DEF RunsAreSound, Prop, CandidateOf
    <3>3. Commit(worker[w].proposal, worker[w].tree) # Nobody
      BY <3>2, RevisionAssumption DEF Commit, Revisions
    <3>4. QED  BY <3>1, <3>2, <3>3, RefStays
  <2>3. QED  BY <2>1, <2>2
<1>2. CASE worker'[w].at \in {"idle", "read"} /\ (worker'[w].at # "idle" => worker'[w].proposal \in Proposals)
  BY <1>2
<1>3. CASE /\ worker[w].at = "run" /\ worker'[w].at = "fence"
           /\ worker'[w].proposal = worker[w].proposal /\ worker'[w].tree \in Contents
  BY <1>3 DEF RunsAreSound, Prop
<1>4. CASE /\ worker[w].at = "fence" /\ worker'[w].at = "publish"
           /\ worker'[w].proposal = worker[w].proposal /\ worker'[w].tree = worker[w].tree
  BY <1>4 DEF RunsAreSound, Prop
<1>5. CASE /\ PublishCandidateRef(w) /\ Publishable(w) /\ worker'[w].at = "mark"
           /\ worker'[w].proposal = worker[w].proposal /\ worker'[w].tree = worker[w].tree
  <2>1. worker[w].at = "publish"
    BY <1>5 DEF PublishCandidateRef
  <2>2. worker[w].proposal \in Proposals /\ worker[w].tree \in Contents
    BY <2>1 DEF RunsAreSound, Prop
  <2>3. refs' = [refs EXCEPT ![worker[w].proposal] = Commit(worker[w].proposal, worker[w].tree)]
    BY <1>5 DEF PublishCandidateRef, Swap, CandidateOf, Prop
  <2>4. QED  BY <1>5, <2>2, <2>3
<1>6. QED  BY <1>1, <1>2, <1>3, <1>4, <1>5, WorkerSteps

-----------------------------------------------------------------------------
(* The line of revisions.                                                  *)

\* One revision more, of a subject that has none yet.
Extends(row) ==
  /\ history' = Append(history, row)
  /\ project'.mode = "managed" /\ project'.current = row.revision
  /\ row.parent = project.current
  /\ \A i \in DOMAIN history : history[i].revision.subject # row.revision.subject

\* History grows in the transactions of an adoption, an approval and an
\* acceptance, each time by a revision of a subject that had none.
LEMMA HistorySteps ==
  ASSUME TypeOK, CallsAreSound, ManagedFirst, CandidatesAreSound, LineIsSound, [Next]_vars
  PROVE  \/ /\ UNCHANGED history
            /\ project'.mode = project.mode /\ project'.current = project.current
            /\ \A p \in Proposals : proposals'[p].status = "accepted" => proposals[p].status = "accepted"
         \/ \E row \in Row :
              /\ Extends(row)
              /\ \/ /\ project.mode = "registered" /\ UNCHANGED proposals
                    /\ row.revision.subject = Source /\ row.proposal = Nobody
                 \/ /\ project.mode = "managed" /\ UNCHANGED proposals
                    /\ row.revision.subject \in Sets /\ row.proposal = Nobody
                    /\ sets'[row.revision.subject].status \in Ended
                 \/ /\ project.mode = "managed"
                    /\ row.proposal \in Proposals /\ row.revision.subject = row.proposal
                    /\ proposals'[row.proposal].status = "accepted"
                    /\ proposals'[row.proposal].candidate = row.revision
                    /\ \A p \in Proposals \ {row.proposal} : proposals'[p] = proposals[p]
<1> USE DEF TypeOK, ProjectTypeOK
<1> DEFINE Still == /\ UNCHANGED history
                    /\ project'.mode = project.mode /\ project'.current = project.current
                    /\ \A p \in Proposals : proposals'[p].status = "accepted" => proposals[p].status = "accepted"
<1>1. CASE UNCHANGED database
  BY <1>1 DEF database
<1>2. ASSUME NEW c \in Clients, CreateDraft(c) \/ MarkSubmitted(c) \/ RejectG1(c)
      PROVE  Still
  BY <1>2 DEF CreateDraft, MarkSubmitted, RejectG1
<1>3. ASSUME NEW c \in Clients, CreateQueued(c)
      PROVE  Still
  <2>1. UNCHANGED <<project, history>>
    BY <1>3 DEF CreateQueued
  <2>2. QED  BY <1>3, <2>1, NewProposal
<1>4. ASSUME NEW c \in Clients, DecideReject(c)
      PROVE  Still
  BY <1>4 DEF DecideReject, ProposalRows
<1>5. ASSUME NEW w \in Workers, BeginExecution(w) \/ MarkReady(w) \/ MarkValidationFailed(w)
      PROVE  Still
  <2>1. CASE BeginExecution(w)
    BY <2>1 DEF BeginExecution, ProposalRows
  <2>2. CASE MarkReady(w)
    <3>1. \/ UNCHANGED proposals
          \/ proposals' = [proposals EXCEPT ![Prop(w)].status = "ready_for_review",
                                           ![Prop(w)].candidate = CandidateOf(w)]
      BY <2>2 DEF MarkReady
    <3>2. UNCHANGED <<history, project>>
      BY <2>2 DEF MarkReady
    <3>3. CASE UNCHANGED proposals
      BY <3>2, <3>3
    <3>4. CASE proposals' = [proposals EXCEPT ![Prop(w)].status = "ready_for_review",
                                              ![Prop(w)].candidate = CandidateOf(w)]
      <4>1. ASSUME NEW p \in Proposals
            PROVE  proposals'[p] = proposals[p] \/ proposals'[p].status = "ready_for_review"
        <5>1. CASE p = Prop(w)
          BY <3>4, <5>1 DEF ProposalRows
        <5>2. CASE p # Prop(w)
          BY <3>4, <5>2 DEF ProposalRows
        <5>3. QED  BY <5>1, <5>2
      <4>2. QED  BY <3>2, <4>1
    <3>5. QED  BY <3>1, <3>3, <3>4
  <2>3. CASE MarkValidationFailed(w)
    <3>1. \/ UNCHANGED proposals
          \/ proposals' = [proposals EXCEPT ![Prop(w)].status = "validation_failed"]
      BY <2>3 DEF MarkValidationFailed
    <3>2. UNCHANGED <<history, project>>
      BY <2>3 DEF MarkValidationFailed
    <3>3. QED  BY <3>1, <3>2 DEF ProposalRows
  <2>4. QED  BY <1>5, <2>1, <2>2, <2>3
<1>6. ASSUME NEW c \in Clients, MarkManaged(c), ~Still
      PROVE  \E row \in Row :
               /\ Extends(row)
               /\ project.mode = "registered" /\ UNCHANGED proposals
               /\ row.revision.subject = Source /\ row.proposal = Nobody
  <2> DEFINE row == [revision |-> client[c].revision, parent |-> Nobody, set |-> Nobody, proposal |-> Nobody]
  <2>1. /\ project.mode = "registered" /\ UNCHANGED proposals
        /\ project' = [project EXCEPT !.mode = "managed", !.current = client[c].revision, !.version = @ + 1]
        /\ history' = Append(history, row) /\ Op(c) = "adopt"
    BY <1>6 DEF MarkManaged
  <2>2. client[c].revision \in Revisions /\ client[c].revision.subject = Source
    BY <2>1 DEF CallsAreSound
  <2>3. row \in Row
    BY <2>2 DEF Row, MaybeRevision
  <2>4. project.current = Nobody /\ DOMAIN history = {}
    BY <2>1 DEF LineIsSound
  <2>5. project'.mode = "managed" /\ project'.current = client[c].revision
    BY <2>1 DEF Projects
  <2>6. QED  BY <2>1, <2>2, <2>3, <2>4, <2>5 DEF Extends
<1>7. ASSUME NEW c \in Clients, ApproveG1(c), ~Still
      PROVE  \E row \in Row :
               /\ Extends(row)
               /\ project.mode = "managed" /\ UNCHANGED proposals
               /\ row.revision.subject \in Sets /\ row.proposal = Nobody
               /\ sets'[row.revision.subject].status \in Ended
  <2> DEFINE s   == Subject(c)
             row == [revision |-> sets[s].candidate, parent |-> sets[s].base, set |-> s, proposal |-> Nobody]
  <2>1. /\ sets[s].status = "pending_approval" /\ project.current = sets[s].base
        /\ project' = [project EXCEPT !.current = sets[s].candidate, !.version = @ + 1, !.active = s]
        /\ sets' = Superseding(s) /\ history' = Append(history, row)
        /\ UNCHANGED proposals /\ Op(c) = "approve_g1"
    BY <1>7 DEF ApproveG1, Advances, Advance
  <2>2. s \in Sets /\ project.mode = "managed"
    BY <2>1 DEF CallsAreSound, ManagedFirst
  <2>3. row.revision = Commit(s, Rendered) /\ row.revision.subject = s /\ row.revision \in Revisions
    BY <2>1, <2>2 DEF CandidatesAreSound, Commit, Revisions
  <2>4. row \in Row
    BY <2>2, <2>3 DEF Row, MaybeRevision, SetRows
  <2>5. sets'[s].status \in Ended
    BY <2>1, <2>2 DEF Superseding, Ended, SetRows
  <2>6. ASSUME NEW i \in DOMAIN history
        PROVE  history[i].revision.subject # s
    <3>1. CASE i = 1
      BY <2>2, <3>1, ProjectAssumption DEF LineIsSound
    <3>2. CASE history[i].revision.subject \in Sets
               /\ sets[history[i].revision.subject].status \in Ended
      BY <2>1, <3>2 DEF Ended
    <3>3. CASE history[i].proposal \in Proposals
               /\ history[i].revision.subject = history[i].proposal
      BY <2>2, <3>3, ProjectAssumption
    <3>4. QED  BY <3>1, <3>2, <3>3 DEF LineIsSound
  <2>7. project'.mode = "managed" /\ project'.current = row.revision
    BY <2>1, <2>2 DEF Projects
  <2>8. Extends(row)
    BY <2>1, <2>3, <2>6, <2>7 DEF Extends
  <2>9. QED  BY <2>1, <2>2, <2>3, <2>4, <2>5, <2>8
<1>8. ASSUME NEW c \in Clients, DecideAccept(c), ~Still
      PROVE  \E row \in Row :
               /\ Extends(row)
               /\ project.mode = "managed"
               /\ row.proposal \in Proposals /\ row.revision.subject = row.proposal
               /\ proposals'[row.proposal].status = "accepted"
               /\ proposals'[row.proposal].candidate = row.revision
               /\ \A p \in Proposals \ {row.proposal} : proposals'[p] = proposals[p]
  <2> DEFINE p   == Subject(c)
             row == [revision |-> client[c].revision, parent |-> proposals[p].base,
                     set |-> proposals[p].set, proposal |-> p]
  <2>1. Op(c) = "accept" /\ p \in Proposals /\ proposals[p].candidate = client[c].revision
    BY <1>8 DEF DecideAccept, CallsAreSound
  <2>2. /\ proposals[p].status = "ready_for_review" /\ project.current = proposals[p].base
        /\ project' = [project EXCEPT !.current = client[c].revision, !.version = @ + 1, !.active = project.active]
        /\ history' = Append(history, row)
        /\ proposals' = [proposals EXCEPT ![p].status = "accepted"]
    <3>1. ~(/\ UNCHANGED <<project, history>>
            /\ \/ UNCHANGED proposals
               \/ proposals' = [proposals EXCEPT ![p].status = "stale"])
      BY <1>8 DEF ProposalRows
    <3>2. QED  BY <1>8, <3>1 DEF DecideAccept, Advances, Advance
  <2>3. row.revision \in Revisions /\ row.revision.subject = p
    BY <2>1, <2>2 DEF CandidatesAreSound, Reviewed
  <2>4. row \in Row
    BY <2>1, <2>3 DEF Row, MaybeRevision, ProposalRows
  <2>5. proposals'[p].status = "accepted" /\ proposals'[p].candidate = row.revision
    BY <2>1, <2>2 DEF ProposalRows
  <2>6. ASSUME NEW i \in DOMAIN history
        PROVE  history[i].revision.subject # p
    <3>1. CASE i = 1
      BY <2>1, <3>1, ProjectAssumption DEF LineIsSound
    <3>2. CASE i # 1
      BY <2>1, <2>2, <3>2, ProjectAssumption DEF LineIsSound
    <3>3. QED  BY <3>1, <3>2
  <2>7. project.mode = "managed" /\ project'.mode = "managed" /\ project'.current = row.revision
    BY <2>1, <2>2 DEF Projects, ManagedFirst
  <2>8. Extends(row)
    BY <2>2, <2>3, <2>6, <2>7 DEF Extends
  <2>9. QED  BY <2>1, <2>2, <2>3, <2>4, <2>5, <2>7, <2>8
<1>9. QED  BY <1>1, <1>2, <1>3, <1>4, <1>5, <1>6, <1>7, <1>8, DatabaseSteps

\* A row that stands for an accepted proposal, or an approved set, goes on
\* to do so.
RowIsSound(row) ==
  \/ row.revision.subject \in Sets /\ sets[row.revision.subject].status \in Ended /\ row.proposal = Nobody
  \/ /\ row.proposal \in Proposals /\ row.revision.subject = row.proposal
     /\ proposals[row.proposal].status = "accepted"
     /\ proposals[row.proposal].candidate = row.revision

\* It does so whatever the step.
LEMMA RowsStay ==
  ASSUME TypeOK, [Next]_vars, NEW i \in DOMAIN history, RowIsSound(history[i])
  PROVE  \/ /\ history[i].revision.subject \in Sets
            /\ sets'[history[i].revision.subject].status \in Ended
            /\ history[i].proposal = Nobody
         \/ /\ history[i].proposal \in Proposals
            /\ history[i].revision.subject = history[i].proposal
            /\ proposals'[history[i].proposal].status = "accepted"
            /\ proposals'[history[i].proposal].candidate = history[i].revision
<1>1. CASE /\ history[i].revision.subject \in Sets
           /\ sets[history[i].revision.subject].status \in Ended
           /\ history[i].proposal = Nobody
  BY <1>1, EndsStay
<1>2. CASE /\ history[i].proposal \in Proposals
           /\ history[i].revision.subject = history[i].proposal
           /\ proposals[history[i].proposal].status = "accepted"
           /\ proposals[history[i].proposal].candidate = history[i].revision
  <2>1. /\ proposals'[history[i].proposal].status = "accepted"
        /\ proposals'[history[i].proposal].candidate = proposals[history[i].proposal].candidate
    BY <1>2, ReviewStays DEF Reviewed, Decided
  <2>2. QED  BY <1>2, <2>1
<1>3. QED  BY <1>1, <1>2 DEF RowIsSound

\* The line goes on: the new row is its end, and the old ones stay sound.
LEMMA LineStep ==
  ASSUME TypeOK, CallsAreSound, ManagedFirst, CandidatesAreSound, LineIsSound, [Next]_vars
  PROVE  LineIsSound'
<1> DEFINE Sound(row) ==
      \/ /\ row.revision.subject \in Sets
         /\ sets'[row.revision.subject].status \in Ended
         /\ row.proposal = Nobody
      \/ /\ row.proposal \in Proposals
         /\ row.revision.subject = row.proposal
         /\ proposals'[row.proposal].status = "accepted"
         /\ proposals'[row.proposal].candidate = row.revision
<1>1. history \in Seq(Row) /\ project.mode \in {"registered", "managed"}
  BY DEF TypeOK, ProjectTypeOK, Projects
<1>2. \A i \in DOMAIN history : i # 1 => RowIsSound(history[i])
  BY DEF LineIsSound, RowIsSound
<1>3. \A i \in DOMAIN history : i # 1 => Sound(history[i])
  BY <1>2, RowsStay
<1>4. CASE /\ UNCHANGED history
           /\ project'.mode = project.mode /\ project'.current = project.current
           /\ \A p \in Proposals : proposals'[p].status = "accepted" => proposals[p].status = "accepted"
  BY <1>1, <1>3, <1>4 DEF LineIsSound
<1>5. ASSUME NEW row \in Row, Extends(row),
             \/ /\ project.mode = "registered" /\ UNCHANGED proposals
                /\ row.revision.subject = Source /\ row.proposal = Nobody
             \/ /\ project.mode = "managed" /\ UNCHANGED proposals
                /\ row.revision.subject \in Sets /\ row.proposal = Nobody
                /\ sets'[row.revision.subject].status \in Ended
             \/ /\ project.mode = "managed"
                /\ row.proposal \in Proposals /\ row.revision.subject = row.proposal
                /\ proposals'[row.proposal].status = "accepted"
                /\ proposals'[row.proposal].candidate = row.revision
                /\ \A p \in Proposals \ {row.proposal} : proposals'[p] = proposals[p]
      PROVE  LineIsSound'
  <2> DEFINE n == Len(history) + 1
  <2>1. /\ n \in Nat \ {0} /\ DOMAIN history = 1..(n - 1) /\ DOMAIN history' = 1..n
        /\ Len(history') = n /\ history'[n] = row
        /\ \A i \in 1..(n - 1) : history'[i] = history[i]
    BY <1>1, <1>5 DEF Extends
  <2>2. project'.mode = "managed" /\ project'.current = row.revision
    BY <1>5 DEF Extends
  <2>3. CASE n = 1
    <3>1. project.mode = "registered" /\ row.parent = Nobody
      BY <1>1, <1>5, <2>1, <2>3 DEF LineIsSound, Extends
    <3>2. UNCHANGED proposals /\ row.revision.subject = Source /\ row.proposal = Nobody
      BY <1>5, <3>1
    <3>3. \A p \in Proposals : proposals'[p].status # "accepted"
      BY <2>1, <2>3, <3>2 DEF LineIsSound
    <3>4. QED  BY <2>1, <2>2, <2>3, <3>1, <3>2, <3>3 DEF LineIsSound
  <2>4. CASE n # 1
    <3>1. n - 1 \in DOMAIN history
      BY <2>1, <2>4
    <3>2. project.mode = "managed" /\ row.parent = history[n - 1].revision
      BY <1>1, <1>5, <2>1, <3>1 DEF LineIsSound, Extends
    <3>3. Sound(row)
      BY <1>5, <3>2
    <3>4. ASSUME NEW i \in 1..n
          PROVE  /\ history'[i].parent = IF i = 1 THEN Nobody ELSE history'[i - 1].revision
                 /\ i = 1 => history'[i].revision.subject = Source /\ history'[i].proposal = Nobody
                 /\ i # 1 => Sound(history'[i])
      <4>1. CASE i = n
        BY <2>1, <2>4, <3>2, <3>3, <4>1
      <4>2. CASE i \in 1..(n - 1)
        <5>1. i # 1 => i - 1 \in 1..(n - 1)
          BY <2>1, <4>2
        <5>2. QED  BY <1>3, <2>1, <4>2, <5>1 DEF LineIsSound
      <4>3. QED  BY <2>1, <4>1, <4>2
    <3>5. ASSUME NEW i \in 1..n, NEW j \in 1..n,
                 history'[i].revision.subject = history'[j].revision.subject
          PROVE  i = j
      <4>1. \A k \in 1..(n - 1) : history[k].revision.subject # row.revision.subject
        BY <1>5, <2>1 DEF Extends
      <4>2. i \in 1..(n - 1) \/ i = n
        BY <2>1
      <4>3. j \in 1..(n - 1) \/ j = n
        BY <2>1
      <4>4. QED  BY <2>1, <3>5, <4>1, <4>2, <4>3 DEF LineIsSound
    <3>6. ASSUME NEW p \in Proposals, proposals'[p].status = "accepted"
          PROVE  \E i \in 1..n : history'[i].proposal = p
      <4>1. CASE row.proposal = p
        BY <2>1, <4>1
      <4>2. CASE row.proposal # p
        <5>1. proposals[p].status = "accepted"
          BY <1>5, <3>6, <4>2
        <5>2. PICK i \in 1..(n - 1) : history[i].proposal = p
          BY <2>1, <5>1 DEF LineIsSound
        <5>3. QED  BY <2>1, <5>2
      <4>3. QED  BY <4>1, <4>2
    <3>7. history' # <<>>
      BY <2>1
    <3>8. QED  BY <2>1, <2>2, <3>4, <3>5, <3>6, <3>7 DEF LineIsSound
  <2>5. QED  BY <2>3, <2>4
<1>6. QED  BY <1>4, <1>5, HistorySteps

-----------------------------------------------------------------------------
(* Types.                                                                  *)

\* The row of the project keeps its type.
LEMMA ProjectTypes ==
  ASSUME TypeOK, CallsAreSound, [Next]_vars
  PROVE  project' \in Projects
<1>1. project \in Projects /\ client \in [Clients -> Calls]
  BY DEF TypeOK, ProjectTypeOK
<1>2. CASE UNCHANGED project
  BY <1>1, <1>2
<1>3. ASSUME NEW a \in Sets \union {Nobody}, NEW r \in MaybeRevision
      PROVE  /\ [project EXCEPT !.current = r, !.version = @ + 1, !.active = a] \in Projects
             /\ [project EXCEPT !.mode = "managed", !.current = r, !.version = @ + 1] \in Projects
  <2>1. project.version + 1 \in Nat
    BY <1>1 DEF Projects
  <2>2. ASSUME NEW n \in Nat
        PROVE  /\ [project EXCEPT !.current = r, !.version = n, !.active = a] \in Projects
               /\ [project EXCEPT !.mode = "managed", !.current = r, !.version = n] \in Projects
    BY <1>1 DEF Projects
  <2>3. QED  BY <2>1, <2>2
<1>4. ASSUME NEW c \in Clients, MarkManaged(c) \/ DecideAccept(c)
      PROVE  project' \in Projects
  <2>1. client[c].revision \in MaybeRevision /\ project.active \in Sets \union {Nobody}
    BY <1>1 DEF Calls, Projects
  <2>2. \/ UNCHANGED project
        \/ project' = [project EXCEPT !.mode = "managed", !.current = client[c].revision, !.version = @ + 1]
        \/ project' = [project EXCEPT !.current = client[c].revision, !.version = @ + 1,
                                      !.active = project.active]
    BY <1>4 DEF MarkManaged, DecideAccept, Advance
  <2>3. QED  BY <1>2, <1>3, <2>1, <2>2
<1>5. ASSUME NEW c \in Clients, ApproveG1(c)
      PROVE  project' \in Projects
  <2>1. Subject(c) \in Sets
    BY <1>5 DEF ApproveG1, CallsAreSound
  <2>2. \/ UNCHANGED project
        \/ project' = [project EXCEPT !.current = sets[Subject(c)].candidate, !.version = @ + 1,
                                      !.active = Subject(c)]
    BY <1>5 DEF ApproveG1, Advance
  <2>3. sets[Subject(c)].candidate \in MaybeRevision
    BY <2>1 DEF SetRows, TypeOK, ProjectTypeOK
  <2>4. QED  BY <1>2, <1>3, <2>1, <2>2, <2>3
<1>6. ASSUME NEW c \in Clients, CreateDraft(c) \/ MarkSubmitted(c) \/ RejectG1(c) \/ CreateQueued(c) \/ DecideReject(c)
      PROVE  UNCHANGED project
  BY <1>6 DEF CreateDraft, MarkSubmitted, RejectG1, CreateQueued, DecideReject
<1>7. ASSUME NEW w \in Workers, BeginExecution(w) \/ MarkReady(w) \/ MarkValidationFailed(w)
      PROVE  UNCHANGED project
  BY <1>7 DEF BeginExecution, MarkReady, MarkValidationFailed
<1>8. QED  BY <1>2, <1>4, <1>5, <1>6, <1>7, DatabaseSteps DEF database

\* So do those of the requirement sets,
LEMMA SetTypes ==
  ASSUME TypeOK, [Next]_vars
  PROVE  sets' \in [Sets -> SetRows]
<1>1. sets \in [Sets -> SetRows] /\ client \in [Clients -> Calls]
  BY DEF TypeOK, ProjectTypeOK
<1>2. CASE UNCHANGED sets
  BY <1>1, <1>2
<1>3. ASSUME NEW c \in Clients, CreateDraft(c) \/ MarkSubmitted(c) \/ RejectG1(c)
      PROVE  sets' \in [Sets -> SetRows]
  <2>1. client[c].revision \in MaybeRevision /\ client[c].seen.current \in MaybeRevision
    BY <1>1 DEF Calls, Projects
  <2>2. ASSUME NEW x \in Sets, NEW r \in MaybeRevision
        PROVE  /\ [sets[x] EXCEPT !.status = "draft", !.base = r] \in SetRows
               /\ [sets[x] EXCEPT !.status = "pending_approval", !.candidate = r] \in SetRows
    BY <1>1 DEF SetRows
  <2>3. CASE CreateDraft(c)
    BY <1>1, <2>1, <2>2, <2>3 DEF CreateDraft, Seen
  <2>4. CASE MarkSubmitted(c)
    BY <1>1, <2>1, <2>2, <2>4 DEF MarkSubmitted
  <2>5. CASE RejectG1(c)
    <3>1. ASSUME NEW x \in Sets
          PROVE  [sets[x] EXCEPT !.status = "rejected"] \in SetRows
      BY <1>1 DEF SetRows
    <3>2. QED  BY <1>1, <2>5, <3>1 DEF RejectG1
  <2>6. QED  BY <1>3, <2>3, <2>4, <2>5
<1>4. ASSUME NEW c \in Clients, ApproveG1(c)
      PROVE  sets' \in [Sets -> SetRows]
  <2>1. ASSUME NEW x \in Sets
        PROVE  /\ [sets[x] EXCEPT !.status = "frozen", !.frozen = sets[x].candidate] \in SetRows
               /\ [sets[x] EXCEPT !.status = "superseded"] \in SetRows
    BY <1>1 DEF SetRows
  <2>2. Superseding(Subject(c)) \in [Sets -> SetRows]
    BY <1>1, <2>1 DEF Superseding
  <2>3. QED  BY <1>2, <1>4, <2>2 DEF ApproveG1
<1>5. ASSUME NEW c \in Clients, MarkManaged(c) \/ CreateQueued(c) \/ DecideAccept(c) \/ DecideReject(c)
      PROVE  UNCHANGED sets
  BY <1>5 DEF MarkManaged, CreateQueued, DecideAccept, DecideReject
<1>6. ASSUME NEW w \in Workers, BeginExecution(w) \/ MarkReady(w) \/ MarkValidationFailed(w)
      PROVE  UNCHANGED sets
  BY <1>6 DEF BeginExecution, MarkReady, MarkValidationFailed
<1>7. QED  BY <1>2, <1>3, <1>4, <1>5, <1>6, DatabaseSteps DEF database

\* and those of the proposals, whose candidates are commits of a run;
LEMMA ProposalTypes ==
  ASSUME TypeOK, RunsAreSound, [Next]_vars
  PROVE  proposals' \in [Proposals -> ProposalRows]
<1>1. proposals \in [Proposals -> ProposalRows] /\ client \in [Clients -> Calls]
  BY DEF TypeOK, ProjectTypeOK
<1>2. CASE UNCHANGED proposals
  BY <1>1, <1>2
<1>3. ASSUME NEW p \in Proposals, NEW status \in {"executing", "validation_failed"} \union Decided
      PROVE  [proposals[p] EXCEPT !.status = status] \in ProposalRows
  BY <1>1 DEF ProposalRows, Decided
<1>4. ASSUME NEW c \in Clients, CreateQueued(c)
      PROVE  proposals' \in [Proposals -> ProposalRows]
  <2>1. client[c].revision \in MaybeRevision /\ client[c].seen.active \in Sets \union {Nobody}
    BY <1>1 DEF Calls, Projects
  <2>2. \/ UNCHANGED proposals
        \/ proposals' = [proposals EXCEPT ![Subject(c)] =
                           [@ EXCEPT !.status = "queued", !.base = client[c].revision,
                                     !.set = client[c].seen.active]]
    BY <1>4 DEF CreateQueued, Seen
  <2>3. ASSUME NEW p \in Proposals
        PROVE  [proposals[p] EXCEPT !.status = "queued", !.base = client[c].revision,
                                    !.set = client[c].seen.active] \in ProposalRows
    BY <1>1, <2>1 DEF ProposalRows
  <2>4. QED  BY <1>1, <2>2, <2>3
<1>5. ASSUME NEW c \in Clients, DecideAccept(c) \/ DecideReject(c)
      PROVE  proposals' \in [Proposals -> ProposalRows]
  <2>1. \/ UNCHANGED proposals
        \/ \E status \in Decided : proposals' = [proposals EXCEPT ![Subject(c)].status = status]
    BY <1>5 DEF DecideAccept, DecideReject, Decided
  <2>2. QED  BY <1>1, <1>3, <2>1
<1>6. ASSUME NEW w \in Workers, BeginExecution(w) \/ MarkValidationFailed(w)
      PROVE  proposals' \in [Proposals -> ProposalRows]
  <2>1. \/ UNCHANGED proposals
        \/ proposals' = [proposals EXCEPT ![Prop(w)].status = "executing"]
        \/ proposals' = [proposals EXCEPT ![Prop(w)].status = "validation_failed"]
    BY <1>6 DEF BeginExecution, MarkValidationFailed
  <2>2. QED  BY <1>1, <1>3, <2>1
<1>7. ASSUME NEW w \in Workers, MarkReady(w)
      PROVE  proposals' \in [Proposals -> ProposalRows]
  <2>1. \/ UNCHANGED proposals
        \/ proposals' = [proposals EXCEPT ![Prop(w)].status = "ready_for_review",
                                         ![Prop(w)].candidate = CandidateOf(w)]
    BY <1>7 DEF MarkReady
  <2>2. Prop(w) \in Proposals /\ worker[w].tree \in Contents
    BY <1>7 DEF MarkReady, RunsAreSound
  <2>3. CandidateOf(w) \in MaybeRevision
    BY <2>2 DEF CandidateOf, Commit, Revisions, MaybeRevision
  <2>4. CASE proposals' = [proposals EXCEPT ![Prop(w)].status = "ready_for_review",
                                            ![Prop(w)].candidate = CandidateOf(w)]
    <3>1. proposals' = [proposals EXCEPT ![Prop(w)] =
                          [proposals[Prop(w)] EXCEPT !.status = "ready_for_review",
                                                     !.candidate = CandidateOf(w)]]
      BY <1>1, <2>2, <2>4
    <3>2. [proposals[Prop(w)] EXCEPT !.status = "ready_for_review",
                                     !.candidate = CandidateOf(w)] \in ProposalRows
      BY <1>1, <2>2, <2>3 DEF ProposalRows
    <3>3. QED  BY <1>1, <3>1, <3>2
  <2>5. QED  BY <1>2, <2>1, <2>4
<1>8. ASSUME NEW c \in Clients,
             MarkManaged(c) \/ CreateDraft(c) \/ MarkSubmitted(c) \/ RejectG1(c) \/ ApproveG1(c)
      PROVE  UNCHANGED proposals
  BY <1>8 DEF MarkManaged, CreateDraft, MarkSubmitted, RejectG1, ApproveG1
<1>9. QED  BY <1>2, <1>4, <1>5, <1>6, <1>7, <1>8, DatabaseSteps DEF database

\* and the history, row by row.
LEMMA HistoryTypes ==
  ASSUME TypeOK, CallsAreSound, ManagedFirst, CandidatesAreSound, LineIsSound, [Next]_vars
  PROVE  history' \in Seq(Row)
<1>1. history \in Seq(Row)
  BY DEF TypeOK, ProjectTypeOK
<1>2. UNCHANGED history \/ \E row \in Row : history' = Append(history, row)
  BY HistorySteps DEF Extends
<1>3. QED  BY <1>1, <1>2

Places == {"idle", "init", "ref", "publish", "write", "promote"} \union Reconciling

\* The row of a call that starts.
NewCall(op, place, subject, revision) ==
  [NoCall EXCEPT !.op = op, !.at = place, !.subject = subject, !.seen = project, !.revision = revision]

\* A call keeps its type at every place it goes to.
LEMMA CallTypes ==
  ASSUME TypeOK, [Next]_vars
  PROVE  client' \in [Clients -> Calls]
<1>1. /\ project \in Projects /\ client \in [Clients -> Calls] /\ sets \in [Sets -> SetRows]
      /\ proposals \in [Proposals -> ProposalRows] /\ repo \in BOOLEAN
      /\ refs \in [Sets \union Proposals \union {"design"} -> MaybeRevision]
  BY DEF TypeOK, ProjectTypeOK
<1>2. CASE UNCHANGED client
  BY <1>1, <1>2
<1>3. NoCall \in Calls
  <2>1. NewProject \in Projects
    BY DEF NewProject, Projects, MaybeRevision
  <2>2. QED  BY <2>1 DEF NoCall, Calls, Operations, MaybeRevision
<1>4. ASSUME NEW c \in Clients, Return(c)
      PROVE  client' \in [Clients -> Calls]
  BY <1>1, <1>3, <1>4 DEF Return
<1>5. ASSUME NEW c \in Clients, NEW place \in Places, MoveTo(c, place)
      PROVE  client' \in [Clients -> Calls]
  <2>1. [client[c] EXCEPT !.at = place] \in Calls
    BY <1>1 DEF Calls, Places
  <2>2. QED  BY <1>1, <1>5, <2>1 DEF MoveTo
<1>6. ASSUME NEW op \in Operations, NEW place \in Places,
             NEW subject \in Sets \union Proposals \union {Nobody}, NEW revision \in MaybeRevision
      PROVE  NewCall(op, place, subject, revision) \in Calls
  BY <1>1, <1>3 DEF NewCall, Calls, Places
<1>7. project.current \in MaybeRevision /\ Nobody \in MaybeRevision
  BY <1>1 DEF Projects, MaybeRevision
<1>8. /\ {"idle", "init", "ref", "publish", "write", "promote", "list", "resolve", "repair"} \subseteq Places
      /\ {"adopt", "startup", "import", "submit", "approve_g1", "reject_g1", "settle",
          "create", "accept", "reject"} \subseteq Operations
  BY DEF Places, Reconciling, Operations
<1>9. ASSUME NEW c \in Clients, StartUp(c)
       PROVE  client' \in [Clients -> Calls]
  <2>1. client' = [client EXCEPT ![c] = NewCall("startup", "list", Nobody, Nobody)]
    BY <1>9 DEF StartUp, Call, NewCall
  <2>2. NewCall("startup", "list", Nobody, Nobody) \in Calls
    BY <1>6, <1>7, <1>8
  <2>3. QED  BY <1>1, <2>1, <2>2
<1>10. ASSUME NEW c \in Clients, StartAdopt(c)
       PROVE  client' \in [Clients -> Calls]
  <2>1. PICK tree \in Contents :
          client' = [client EXCEPT ![c] = NewCall("adopt", "init", Nobody, Commit(Source, tree))]
    BY <1>10 DEF StartAdopt, Call, NewCall
  <2>2. Commit(Source, tree) \in MaybeRevision
    BY DEF Commit, Revisions, MaybeRevision
  <2>3. NewCall("adopt", "init", Nobody, Commit(Source, tree)) \in Calls
    BY <1>6, <1>8, <2>2
  <2>4. QED  BY <1>1, <2>1, <2>3
<1>11. ASSUME NEW c \in Clients, NEW s \in Sets, StartImport(c, s) \/ StartSubmit(c, s) \/ StartG1(c, s)
       PROVE  client' \in [Clients -> Calls]
  <2>1. \/ client' = [client EXCEPT ![c] = NewCall("import", "list", s, Nobody)]
        \/ client' = [client EXCEPT ![c] = NewCall("submit", "list", s, Commit(s, Rendered))]
        \/ client' = [client EXCEPT ![c] = NewCall("approve_g1", "list", s, sets[s].candidate)]
        \/ client' = [client EXCEPT ![c] = NewCall("reject_g1", "write", s, sets[s].candidate)]
    BY <1>11 DEF StartImport, StartSubmit, StartG1, Call, NewCall
  <2>2. sets[s].candidate \in MaybeRevision /\ Commit(s, Rendered) \in MaybeRevision
    BY <1>1 DEF SetRows, Commit, Revisions, MaybeRevision
  <2>3. /\ NewCall("import", "list", s, Nobody) \in Calls
        /\ NewCall("submit", "list", s, Commit(s, Rendered)) \in Calls
        /\ NewCall("approve_g1", "list", s, sets[s].candidate) \in Calls
        /\ NewCall("reject_g1", "write", s, sets[s].candidate) \in Calls
    BY <1>6, <1>7, <1>8, <2>2
  <2>4. QED  BY <1>1, <2>1, <2>3
<1>12. ASSUME NEW c \in Clients, NEW p \in Proposals,
              StartCreate(c, p) \/ StartAccept(c, p) \/ StartReject(c, p)
       PROVE  client' \in [Clients -> Calls]
  <2>1. \/ client' = [client EXCEPT ![c] = NewCall("create", "list", p, project.current)]
        \/ \E place \in {"list", "write"} :
             client' = [client EXCEPT ![c] = NewCall("accept", place, p, proposals[p].candidate)]
        \/ client' = [client EXCEPT ![c] = NewCall("reject", "write", p, proposals[p].candidate)]
    BY <1>12 DEF StartCreate, StartAccept, StartReject, Call, NewCall
  <2>2. proposals[p].candidate \in MaybeRevision
    BY <1>1 DEF ProposalRows
  <2>3. /\ NewCall("create", "list", p, project.current) \in Calls
        /\ \A place \in {"list", "write"} : NewCall("accept", place, p, proposals[p].candidate) \in Calls
        /\ NewCall("reject", "write", p, proposals[p].candidate) \in Calls
    BY <1>6, <1>7, <1>8, <2>2
  <2>4. QED  BY <1>1, <2>1, <2>3
<1>13. ASSUME NEW c \in Clients, ProjectStep(c)
       PROVE  client' \in [Clients -> Calls]
  <2>1. CASE InitRepository(c)
    <3>1. [client[c] EXCEPT !.at = "ref", !.fresh = ~repo] \in Calls
      BY <1>1 DEF Calls
    <3>2. client' = [client EXCEPT ![c] = [client[c] EXCEPT !.at = "ref", !.fresh = ~repo]]
      BY <1>1, <2>1 DEF InitRepository
    <3>3. QED  BY <1>1, <3>1, <3>2
  <2>2. CASE CreateDesignRef(c)
    BY <1>4, <1>5, <1>8, <2>2 DEF CreateDesignRef
  <2>3. CASE MarkManaged(c) \/ CreateDraft(c) \/ MarkSubmitted(c) \/ RejectG1(c)
    BY <1>4, <2>3 DEF MarkManaged, CreateDraft, MarkSubmitted, RejectG1
  <2>4. CASE ListAndCheck(c)
    <3>1. [client[c] EXCEPT !.at = "resolve", !.target = project.current] \in Calls
      BY <1>1, <1>7 DEF Calls, Reconciling
    <3>2. \/ Return(c)
          \/ client' = [client EXCEPT ![c] = [client[c] EXCEPT !.at = "resolve", !.target = project.current]]
      BY <1>1, <2>4 DEF ListAndCheck
    <3>3. QED  BY <1>1, <1>4, <3>1, <3>2
  <2>5. Resume(c) => client' \in [Clients -> Calls]
    <3>1. [client[c] EXCEPT !.at = IF client[c].op = "submit" THEN "publish" ELSE "write",
                            !.target = Nobody, !.actual = Nobody] \in Calls
      BY <1>1, <1>7 DEF Calls
    <3>2. Resume(c) => \/ Return(c)
                       \/ client' = [client EXCEPT ![c] =
                            [client[c] EXCEPT !.at = IF client[c].op = "submit" THEN "publish" ELSE "write",
                                              !.target = Nobody, !.actual = Nobody]]
      BY <1>1 DEF Resume, Op
    <3>3. QED  BY <1>1, <1>4, <3>1, <3>2
  <2>6. CASE ResolveDesignRef(c)
    <3>1. [client[c] EXCEPT !.at = "repair", !.actual = refs["design"]] \in Calls
      BY <1>1 DEF Calls, Reconciling
    <3>2. \/ Resume(c)
          \/ client' = [client EXCEPT ![c] = [client[c] EXCEPT !.at = "repair", !.actual = refs["design"]]]
      BY <1>1, <2>6 DEF ResolveDesignRef
    <3>3. QED  BY <1>1, <2>5, <3>1, <3>2
  <2>7. CASE RepairDesignRef(c)
    BY <1>4, <2>5, <2>7 DEF RepairDesignRef
  <2>8. CASE PublishSetRef(c)
    BY <1>4, <1>5, <1>8, <2>8 DEF PublishSetRef
  <2>9. CASE ApproveG1(c)
    <3>1. \/ Return(c)
          \/ client' = [client EXCEPT ![c] = NewCall("settle", "list", Nobody, Nobody)]
      BY <2>9 DEF ApproveG1, Call, NewCall
    <3>2. NewCall("settle", "list", Nobody, Nobody) \in Calls
      BY <1>6, <1>7, <1>8
    <3>3. QED  BY <1>1, <1>4, <3>1, <3>2
  <2>10. QED
    BY <1>13, <2>1, <2>2, <2>3, <2>4, <2>6, <2>7, <2>8, <2>9 DEF ProjectStep, ReconcilerStep
<1>14. ASSUME NEW c \in Clients, DesignStep(c) \/ FailAdoption(c) \/ CrashCall(c)
       PROVE  client' \in [Clients -> Calls]
  <2>1. CASE DecideAccept(c)
    BY <1>4, <1>5, <1>8, <2>1 DEF DecideAccept, Refused
  <2>2. CASE CreateQueued(c) \/ PromoteDesignRef(c) \/ DecideReject(c) \/ FailAdoption(c) \/ CrashCall(c)
    BY <1>4, <2>2 DEF CreateQueued, PromoteDesignRef, DecideReject, FailAdoption, CrashCall
  <2>3. QED  BY <1>14, <2>1, <2>2 DEF DesignStep
<1>15. ASSUME NEW w \in Workers, WorkerStep(w) \/ CrashWorker(w)
       PROVE  UNCHANGED client
  BY <1>15 DEF WorkerStep, CrashWorker, ReadRows, BeginExecution, Execute, FenceRef,
               PublishCandidateRef, MarkReady, MarkValidationFailed, Settle, projectVars
<1>16. CASE UNCHANGED vars \/ ClaimStep \/ \E p \in Proposals : CancelTask(p)
  BY <1>2, <1>16 DEF vars, ClaimStep, Claim, CancelTask, projectVars
<1>17. CASE ProjectNext
  BY <1>9, <1>10, <1>11, <1>13, <1>14, <1>17 DEF ProjectNext, ProjectStart
<1>18. QED  BY <1>2, <1>12, <1>14, <1>15, <1>16, <1>17 DEF Next

\* Refs name commits, or nothing.
LEMMA RefTypes ==
  ASSUME TypeOK, CallsAreSound, RunsAreSound, [Next]_vars
  PROVE  refs' \in [Sets \union Proposals \union {"design"} -> MaybeRevision]
<1>1. /\ refs \in [Sets \union Proposals \union {"design"} -> MaybeRevision]
      /\ client \in [Clients -> Calls] /\ Nobody \in MaybeRevision
  BY DEF TypeOK, ProjectTypeOK, MaybeRevision
<1>2. CASE UNCHANGED refs
  BY <1>1, <1>2
<1>3. ASSUME NEW c \in Clients,
             \/ CreateDesignRef(c) \/ FailAdoption(c) \/ RepairDesignRef(c) \/ PublishSetRef(c)
             \/ PromoteDesignRef(c)
      PROVE  refs' \in [Sets \union Proposals \union {"design"} -> MaybeRevision]
  <2>1. client[c].revision \in MaybeRevision /\ client[c].target \in MaybeRevision
    BY <1>1 DEF Calls
  <2>2. CASE CreateDesignRef(c) \/ FailAdoption(c) \/ PromoteDesignRef(c)
    <3>1. \/ UNCHANGED refs
          \/ refs' = [refs EXCEPT !["design"] = client[c].revision]
          \/ refs' = [refs EXCEPT !["design"] = Nobody]
      BY <2>2 DEF CreateDesignRef, FailAdoption, PromoteDesignRef, RemoveFresh, Swap, git
    <3>2. QED  BY <1>1, <2>1, <3>1
  <2>3. CASE RepairDesignRef(c)
    BY <1>1, <2>1, <2>3 DEF RepairDesignRef, Swap
  <2>4. CASE PublishSetRef(c)
    BY <1>1, <2>1, <2>4 DEF PublishSetRef, Swap
  <2>5. QED  BY <1>3, <2>2, <2>3, <2>4
<1>4. ASSUME NEW w \in Workers, PublishCandidateRef(w)
      PROVE  refs' \in [Sets \union Proposals \union {"design"} -> MaybeRevision]
  <2>1. Prop(w) \in Proposals /\ worker[w].tree \in Contents
    BY <1>4 DEF PublishCandidateRef, RunsAreSound
  <2>2. CandidateOf(w) \in MaybeRevision
    BY <2>1 DEF CandidateOf, Commit, Revisions, MaybeRevision
  <2>3. QED  BY <1>1, <1>4, <2>2 DEF PublishCandidateRef, Swap
<1>5. QED  BY <1>2, <1>3, <1>4, RefSteps

\* A slot keeps the type of its run.
LEMMA SlotTypes ==
  ASSUME TypeOK, [Next]_vars
  PROVE  worker' \in [Workers -> Slots]
<1>1. /\ worker \in [Workers -> Slots] /\ project \in Projects
      /\ Queue!LifecycleTypeOK
  BY DEF TypeOK, ProjectTypeOK
<1>2. CASE UNCHANGED worker
  BY <1>1, <1>2
<1>3. IdleSlot \in Slots
  BY DEF IdleSlot, Slots, NewProject, Projects, MaybeRevision
<1>4. ASSUME NEW w \in Workers, Leave(w)
      PROVE  worker' \in [Workers -> Slots]
  BY <1>1, <1>3, <1>4 DEF Leave
<1>5. ASSUME NEW w \in Workers,
             NEW place \in {"succeed", "fail", "run", "report", "publish", "mark"}, Go(w, place)
      PROVE  worker' \in [Workers -> Slots]
  <2>1. [worker[w] EXCEPT !.at = place] \in Slots
    BY <1>1 DEF Slots
  <2>2. QED  BY <1>1, <1>5, <2>1 DEF Go
<1>6. CASE ClaimStep
  <2>1. PICK w \in Workers, p \in Proposals : Claim(w, p)
    BY <1>6 DEF ClaimStep
  <2>2. granted[p] + 1 \in Nat
    BY <1>1 DEF Queue!LifecycleTypeOK
  <2>3. [IdleSlot EXCEPT !.at = "read", !.proposal = p, !.token = granted[p] + 1] \in Slots
    BY <1>3, <2>2 DEF Slots
  <2>4. QED  BY <1>1, <2>1, <2>3 DEF Claim
<1>7. ASSUME NEW w \in Workers, ReadRows(w)
      PROVE  worker' \in [Workers -> Slots]
  <2>1. ASSUME NEW frozen \in BOOLEAN
        PROVE  [worker[w] EXCEPT !.at = "begin", !.seen = project, !.frozen = frozen] \in Slots
    BY <1>1 DEF Slots
  <2>2. \/ Leave(w) \/ Go(w, "succeed") \/ Go(w, "fail")
        \/ worker' = [worker EXCEPT ![w].at = "begin", ![w].seen = project,
                                    ![w].frozen = sets[proposals[Prop(w)].set].status = "frozen"]
    BY <1>7 DEF ReadRows
  <2>3. QED  BY <1>1, <1>4, <1>5, <2>1, <2>2
<1>8. ASSUME NEW w \in Workers, Execute(w)
      PROVE  worker' \in [Workers -> Slots]
  <2>1. \/ Go(w, "report")
        \/ \E tree \in Contents : worker' = [worker EXCEPT ![w].at = "fence", ![w].tree = tree]
    BY <1>8 DEF Execute
  <2>2. ASSUME NEW tree \in Contents
        PROVE  [worker[w] EXCEPT !.at = "fence", !.tree = tree] \in Slots
    BY <1>1 DEF Slots
  <2>3. QED  BY <1>1, <1>5, <2>1, <2>2
<1>9. ASSUME NEW w \in Workers,
             \/ BeginExecution(w) \/ FenceRef(w) \/ PublishCandidateRef(w) \/ MarkReady(w)
             \/ MarkValidationFailed(w) \/ Settle(w) \/ CrashWorker(w)
      PROVE  worker' \in [Workers -> Slots]
  <2>1. CASE BeginExecution(w) \/ FenceRef(w) \/ PublishCandidateRef(w)
    BY <1>4, <1>5, <2>1 DEF BeginExecution, FenceRef, PublishCandidateRef
  <2>2. CASE MarkReady(w)
    BY <1>4, <1>5, <2>2 DEF MarkReady
  <2>3. CASE MarkValidationFailed(w) \/ Settle(w) \/ CrashWorker(w)
    BY <1>4, <1>5, <2>3 DEF MarkValidationFailed, Settle, CrashWorker
  <2>4. QED  BY <1>9, <2>1, <2>2, <2>3
<1>10. ASSUME NEW c \in Clients, DesignStep(c)
       PROVE  UNCHANGED worker
  BY <1>10 DEF DesignStep, CreateQueued, DecideAccept, PromoteDesignRef, DecideReject
<1>11. ASSUME NEW c \in Clients, NEW p \in Proposals,
              StartCreate(c, p) \/ StartAccept(c, p) \/ StartReject(c, p)
       PROVE  UNCHANGED worker
  BY <1>11 DEF StartCreate, StartAccept, StartReject
<1>12. CASE UNCHANGED vars \/ \E p \in Proposals : CancelTask(p)
  BY <1>2, <1>12 DEF vars, CancelTask
<1>13. QED
  BY <1>2, <1>6, <1>7, <1>8, <1>9, <1>10, <1>11, <1>12 DEF Next, WorkerStep

\* What is left: the queue's promise, the repository and the counters.
LEMMA QueueTypes ==
  ASSUME TypeOK, [Next]_vars
  PROVE  Queue!LifecycleTypeOK'
<1>1. Queue!LifecycleTypeOK
  BY DEF TypeOK
<1>2. CASE UNCHANGED queue
  BY <1>1, <1>2 DEF queue, Queue!LifecycleTypeOK
<1>3. ASSUME NEW p \in Proposals,
             Queue!Submit(p) \/ Queue!Grant(p) \/ Queue!Revoke(p)
      PROVE  Queue!LifecycleTypeOK'
  BY <1>1, <1>3 DEF Queue!Submit, Queue!Grant, Queue!Revoke, Queue!LifecycleTypeOK, Queue!States, Queue!Endings
<1>4. ASSUME NEW w \in Workers, WorkerStep(w)
      PROVE  Queue!LifecycleTypeOK'
  <2>1. CASE Settle(w)
    <3>1. \/ UNCHANGED queue
          \/ Queue!Surrender(Prop(w), worker[w].token, "succeeded")
          \/ Queue!Surrender(Prop(w), worker[w].token, "failed_terminal")
      BY <2>1 DEF Settle
    <3>2. QED
      BY <1>1, <1>2, <3>1 DEF Queue!Surrender, Queue!LifecycleTypeOK, Queue!States, Queue!Endings
  <2>2. CASE ~Settle(w)
    BY <1>2, <1>4, <2>2 DEF WorkerStep, ReadRows, BeginExecution, Execute, FenceRef,
                           PublishCandidateRef, MarkReady, MarkValidationFailed
  <2>3. QED  BY <2>1, <2>2
<1>5. ASSUME NEW c \in Clients, CreateQueued(c)
      PROVE  Queue!LifecycleTypeOK'
  <2>1. Queue!Submit(Subject(c)) \/ UNCHANGED queue
    BY <1>5 DEF CreateQueued
  <2>2. QED
    BY <1>1, <1>2, <2>1 DEF Queue!Submit, Queue!LifecycleTypeOK, Queue!States
<1>6. CASE ClaimStep
  BY <1>3, <1>6 DEF ClaimStep, Claim
<1>7. CASE \E p \in Proposals : CancelTask(p)
  BY <1>3, <1>7 DEF CancelTask
<1>8. ASSUME NEW c \in Clients, DesignStep(c), ~CreateQueued(c)
      PROVE  UNCHANGED queue
  BY <1>8 DEF DesignStep, DecideAccept, PromoteDesignRef, DecideReject
<1>9. ASSUME NEW c \in Clients, NEW p \in Proposals,
             StartCreate(c, p) \/ StartAccept(c, p) \/ StartReject(c, p)
      PROVE  UNCHANGED queue
  BY <1>9 DEF StartCreate, StartAccept, StartReject
<1>10. ASSUME NEW w \in Workers, CrashWorker(w)
       PROVE  UNCHANGED queue
  BY <1>10 DEF CrashWorker
<1>11. CASE UNCHANGED vars
  BY <1>2, <1>11 DEF vars
<1>12. QED
  BY <1>2, <1>4, <1>5, <1>6, <1>7, <1>8, <1>9, <1>10, <1>11 DEF Next

\* The repository and the two counters.
LEMMA CounterTypes ==
  ASSUME TypeOK, [Next]_vars
  PROVE  repo' \in BOOLEAN /\ crashes' \in Nat /\ lapses' \in Nat
<1>1. repo \in BOOLEAN /\ crashes \in Nat /\ lapses \in Nat
  BY DEF TypeOK, ProjectTypeOK
<1>2. (UNCHANGED crashes \/ CountCrash) => crashes' \in Nat
  BY <1>1 DEF CountCrash
<1>3. CASE UNCHANGED vars
  BY <1>1, <1>3 DEF vars, projectVars, git
<1>4. ASSUME NEW c \in Clients, ProjectStart(c) \/ ProjectStep(c) \/ FailAdoption(c) \/ CrashCall(c)
      PROVE  repo' \in BOOLEAN /\ crashes' \in Nat
  <2>1. CASE ProjectStart(c)
    BY <1>1, <2>1 DEF ProjectStart, StartAdopt, StartUp, StartImport, StartSubmit, StartG1, git
  <2>2. CASE ProjectStep(c)
    <3>1. CASE InitRepository(c) \/ CreateDesignRef(c)
      BY <1>1, <3>1 DEF InitRepository, CreateDesignRef, RemoveFresh, git
    <3>2. CASE MarkManaged(c) \/ CreateDraft(c) \/ MarkSubmitted(c) \/ ApproveG1(c) \/ RejectG1(c)
      BY <1>1, <3>2 DEF MarkManaged, CreateDraft, MarkSubmitted, ApproveG1, RejectG1, git
    <3>3. CASE ReconcilerStep(c) \/ PublishSetRef(c)
      BY <1>1, <3>3 DEF ReconcilerStep, ListAndCheck, ResolveDesignRef, RepairDesignRef,
                        PublishSetRef, git
    <3>4. QED  BY <2>2, <3>1, <3>2, <3>3 DEF ProjectStep
  <2>3. CASE FailAdoption(c) \/ CrashCall(c)
    BY <1>1, <1>2, <2>3 DEF FailAdoption, RemoveFresh, CrashCall, git
  <2>4. QED  BY <1>4, <2>1, <2>2, <2>3
<1>5. CASE ProjectNext /\ UNCHANGED <<queue, worker, lapses>>
  BY <1>1, <1>4, <1>5 DEF ProjectNext
<1>6. ASSUME NEW c \in Clients, DesignStep(c)
      PROVE  UNCHANGED <<repo, crashes, lapses>>
  BY <1>6 DEF DesignStep, CreateQueued, DecideAccept, PromoteDesignRef, DecideReject, git
<1>7. ASSUME NEW c \in Clients, NEW p \in Proposals,
             StartCreate(c, p) \/ StartAccept(c, p) \/ StartReject(c, p)
      PROVE  UNCHANGED <<repo, crashes, lapses>>
  BY <1>7 DEF StartCreate, StartAccept, StartReject, git
<1>8. ASSUME NEW p \in Proposals, CancelTask(p)
      PROVE  UNCHANGED <<repo, crashes, lapses>>
  BY <1>8 DEF CancelTask, projectVars, git
<1>9. CASE ClaimStep
  <2>1. UNCHANGED <<repo, crashes>>
    BY <1>9 DEF ClaimStep, Claim, projectVars, git
  <2>2. UNCHANGED lapses \/ lapses' = lapses + 1
    BY <1>9 DEF ClaimStep, Claim
  <2>3. QED  BY <1>1, <2>1, <2>2
<1>10. ASSUME NEW w \in Workers, WorkerStep(w)
       PROVE  UNCHANGED <<repo, crashes, lapses>>
  BY <1>10 DEF WorkerStep, ReadRows, BeginExecution, Execute, FenceRef, PublishCandidateRef,
               MarkReady, MarkValidationFailed, Settle, projectVars, git
<1>11. ASSUME NEW w \in Workers, CrashWorker(w)
       PROVE  repo' \in BOOLEAN /\ crashes' \in Nat /\ lapses' \in Nat
  BY <1>1, <1>2, <1>11 DEF CrashWorker, git
<1>12. QED
  BY <1>1, <1>3, <1>5, <1>6, <1>7, <1>8, <1>9, <1>10, <1>11 DEF Next

-----------------------------------------------------------------------------
(* The invariant.                                                          *)

\* The invariant holds at first,
LEMMA InitIInv == Init => IInv
<1> SUFFICES ASSUME Init
             PROVE  IInv
  OBVIOUS
<1> USE DEF Init, ProjectInit
<1>1. TypeOK
  <2>1. ProjectTypeOK
    <3>1. /\ NewProject \in Projects /\ NoSet \in SetRows /\ NoProposal \in ProposalRows
          /\ Nobody \in MaybeRevision
      BY DEF NewProject, Projects, NoSet, SetRows, NoProposal, ProposalRows, MaybeRevision
    <3>2. NoCall \in Calls
      BY <3>1 DEF NoCall, Calls, Operations
    <3>3. history \in Seq(Row)
      OBVIOUS
    <3>4. QED  BY <3>1, <3>2, <3>3, ProjectAssumption DEF ProjectTypeOK
  <2>2. Queue!LifecycleTypeOK
    BY DEF Queue!LifecycleInit, Queue!LifecycleTypeOK, Queue!States
  <2>3. IdleSlot \in Slots
    BY DEF IdleSlot, Slots, NewProject, Projects, MaybeRevision
  <2>4. QED  BY <2>1, <2>2, <2>3 DEF TypeOK
<1>2. CallsAreSound
  BY DEF CallsAreSound, Op, NoCall
<1>3. ManagedFirst
  BY DEF ManagedFirst, Op, NoCall, NoSet, NoProposal, NewProject
<1>4. CandidatesAreSound
  BY DEF CandidatesAreSound, NoSet, NoProposal, Reviewed, Decided
<1>5. RunsAreSound
  BY DEF RunsAreSound, IdleSlot
<1>6. LineIsSound
  BY DEF LineIsSound, NewProject, NoProposal
<1>7. QED  BY <1>1, <1>2, <1>3, <1>4, <1>5, <1>6 DEF IInv

\* and every step keeps it.
LEMMA NextIInv == IInv /\ [Next]_vars => IInv'
<1> SUFFICES ASSUME IInv, [Next]_vars
             PROVE  IInv'
  OBVIOUS
<1>1. /\ TypeOK /\ CallsAreSound /\ ManagedFirst /\ CandidatesAreSound /\ RunsAreSound
      /\ LineIsSound
  BY DEF IInv
<1>2. TypeOK'
  <2>1. ProjectTypeOK'
    BY <1>1, ProjectTypes, SetTypes, ProposalTypes, HistoryTypes, CallTypes, RefTypes, CounterTypes
       DEF ProjectTypeOK
  <2>2. QED  BY <1>1, <2>1, QueueTypes, SlotTypes, CounterTypes DEF TypeOK
<1>3. CallsAreSound'
  BY <1>1, CallsStep
<1>4. ManagedFirst'
  BY <1>1, ManagedStep
<1>5. CandidatesAreSound'
  BY <1>1, CandidatesStep
<1>6. RunsAreSound'
  BY <1>1, RunsStep
<1>7. LineIsSound'
  BY <1>1, LineStep
<1>8. QED  BY <1>2, <1>3, <1>4, <1>5, <1>6, <1>7 DEF IInv

\* Whatever crashes, lapses and concurrent calls there are, each part of the
\* invariant holds in every reachable state.
THEOREM Invariance == Spec => []IInv
BY InitIInv, NextIInv, PTL DEF Spec

\* The rows, the refs, the calls and the runs stay what their types say.
THEOREM TypeCorrect == Spec => []TypeOK
<1>1. IInv => TypeOK
  BY DEF IInv
<1>2. QED  BY <1>1, Invariance, PTL

\* The accepted revisions of a project form one line that ends at its
\* current revision, and no revision is in it twice.
THEOREM LineIsOne == Spec => []OneLine
<1>1. IInv => OneLine
  <2> SUFFICES ASSUME IInv
               PROVE  OneLine
    OBVIOUS
  <2>1. LineIsSound /\ history \in Seq(Row) /\ project.mode \in {"registered", "managed"}
    BY DEF IInv, TypeOK, ProjectTypeOK, Projects
  <2>2. \A i \in DOMAIN history : Len(history) = i => project.current = history[i].revision
    BY <2>1 DEF LineIsSound
  <2>3. \A i, j \in DOMAIN history : history[i].revision = history[j].revision => i = j
    BY <2>1 DEF LineIsSound
  <2>4. QED  BY <2>1, <2>2, <2>3 DEF OneLine, LineIsSound
<1>2. QED  BY <1>1, Invariance, PTL

\* A candidate under review is published under its ref, and the history has
\* a revision for a proposal exactly when that candidate was accepted.
THEOREM ReviewIsSound == Spec => []ReviewedIsAccepted
<1>1. IInv => ReviewedIsAccepted
  <2> SUFFICES ASSUME IInv, NEW p \in Proposals
               PROVE  /\ proposals[p].status \in Reviewed =>
                           proposals[p].candidate # Nobody /\ refs[p] = proposals[p].candidate
                      /\ proposals[p].status = "accepted" <=> \E i \in DOMAIN history :
                           history[i].proposal = p /\ history[i].revision = proposals[p].candidate
    BY DEF ReviewedIsAccepted, Reviewed
  <2>1. LineIsSound /\ CandidatesAreSound
    BY DEF IInv
  <2>2. proposals[p].status \in Reviewed =>
          proposals[p].candidate # Nobody /\ refs[p] = proposals[p].candidate
    BY <2>1, RevisionAssumption DEF CandidatesAreSound
  <2>3. ASSUME NEW i \in DOMAIN history, history[i].proposal = p
        PROVE  proposals[p].status = "accepted" /\ proposals[p].candidate = history[i].revision
    BY <2>1, <2>3, ProjectAssumption DEF LineIsSound
  <2>4. ASSUME proposals[p].status = "accepted"
        PROVE  \E i \in DOMAIN history : history[i].proposal = p
    BY <2>1, <2>4 DEF LineIsSound
  <2>5. QED  BY <2>2, <2>3, <2>4
<1>2. QED  BY <1>1, Invariance, PTL

\* A proposal under review leaves it by a decision alone, and no step of any
\* call, run or rerun changes a row that was decided.
THEOREM DecisionsStand == Spec => DecisionStands
<1>1. ASSUME IInv, [Next]_vars, NEW p \in Proposals,
             proposals[p].status \in {"ready_for_review"} \union Decided,
             proposals'[p] # proposals[p]
      PROVE  /\ proposals[p].status = "ready_for_review"
             /\ proposals'[p].status \in Decided
             /\ proposals'[p].candidate = proposals[p].candidate
  <2>1. TypeOK
    BY <1>1 DEF IInv
  <2>2. QED  BY <1>1, <2>1, ReviewStays DEF Reviewed
<1>2. IInv /\ [Next]_vars =>
        [\A p \in Proposals :
           proposals[p].status \in {"ready_for_review"} \union Decided /\ proposals'[p] # proposals[p] =>
             /\ proposals[p].status = "ready_for_review"
             /\ proposals'[p].status \in Decided
             /\ proposals'[p].candidate = proposals[p].candidate]_vars
  BY <1>1
<1>3. QED  BY <1>2, Invariance, PTL DEF Spec, DecisionStands

-----------------------------------------------------------------------------
(* The reconciler and the history: that the reconciler never refuses a      *)
(* project that nobody tampered with, and that the design ref names what    *)
(* was accepted.  These relate the refs and the facts of different rows.    *)

Accepted(revision) == \E i \in DOMAIN history : history[i].revision = revision

AcceptedWith(revision, set) ==
  \E i \in DOMAIN history : history[i].revision = revision /\ history[i].set = set

\* The candidate of a set is under its ref before its row names it.
SetRefsAreSound ==
  /\ \A s \in Sets : sets[s].status = "pending_approval" => refs[s] = Commit(s, Rendered)
  /\ \A c \in Clients : Op(c) = "submit" /\ At(c, "write") => refs[Subject(c)] = client[c].revision

\* The active set is that of the last row; it is frozen since an accepted
\* revision, and the last row has the facts of gate G1.
ActiveIsFrozen ==
  /\ history # <<>> => /\ project.active = history[Len(history)].set
                       /\ G1Facts(history[Len(history)])
  /\ project.active # Nobody => /\ sets[project.active].status = "frozen"
                                /\ Accepted(sets[project.active].frozen)

\* A proposal is based on a revision and the set that was active with it.
BasesAreSound ==
  /\ \A p \in Proposals :
       proposals[p].status # "absent" => AcceptedWith(proposals[p].base, proposals[p].set)
  /\ \A c \in Clients : Op(c) = "create" => AcceptedWith(client[c].revision, Seen(c).active)

\* The places that only one kind of call comes to.
PlacesAreSound ==
  \A c \in Clients :
    /\ Op(c) = "none" => At(c, "idle")
    /\ Op(c) = "adopt" => client[c].at \in {"init", "ref", "write"}
    /\ client[c].at \in {"init", "ref"} => Op(c) = "adopt"
    /\ At(c, "promote") => Op(c) = "accept"

\* An adoption is alone, and what it leaves behind is taken away unless a
\* process died.
AdoptionIsAlone ==
  /\ \A c, d \in Clients : Op(c) = "adopt" /\ Op(d) = "adopt" => c = d
  /\ \A c \in Clients : Op(c) = "adopt" =>
       /\ project.mode = "registered" /\ project.version = Seen(c).version
       /\ ~At(c, "init") /\ ~client[c].fresh => crashes > 0
       /\ At(c, "write") => refs["design"] = client[c].revision
  /\ project.mode = "registered" /\ (repo \/ refs["design"] # Nobody) =>
       \/ crashes > 0
       \/ \E c \in Clients : Op(c) = "adopt" /\ ~At(c, "init") /\ client[c].fresh

\* Whatever a call may still write to the design ref was accepted.
PromotionsAreSound ==
  /\ project.mode = "managed" /\ refs["design"] # Nobody => Accepted(refs["design"])
  /\ \A c \in Clients :
       /\ client[c].at \in {"resolve", "repair"} => Accepted(client[c].target)
       /\ At(c, "promote") => Accepted(client[c].revision)

FInv == /\ IInv /\ SetRefsAreSound /\ ActiveIsFrozen /\ BasesAreSound
        /\ PlacesAreSound /\ AdoptionIsAlone /\ PromotionsAreSound

-----------------------------------------------------------------------------
(* Steps of calls.                                                         *)

\* The steps that leave a call going, at another place.
Moves(c) ==
  \/ InitRepository(c) \/ CreateDesignRef(c) \/ ListAndCheck(c) \/ ResolveDesignRef(c)
  \/ RepairDesignRef(c) \/ PublishSetRef(c) \/ DecideAccept(c)

\* A call stands still, ends, starts or moves.
LEMMA OwnSteps ==
  ASSUME client \in [Clients -> Calls], [Next]_vars, NEW d \in Clients
  PROVE  client'[d] = client[d] \/ client'[d] = NoCall \/ Starts(d) \/ Moves(d)
<1> USE DEF Starts, Moves
<1>1. CASE UNCHANGED vars
  BY <1>1 DEF vars, projectVars
<1>2. CASE ProjectNext
  <2>1. PICK c \in Clients :
          ProjectStart(c) \/ ProjectStep(c) \/ FailAdoption(c) \/ CrashCall(c)
    BY <1>2 DEF ProjectNext
  <2>2. CASE ProjectStart(c)
    <3>1. c # d => client'[d] = client[d]
      BY <2>2 DEF ProjectStart, StartAdopt, StartUp, StartImport, StartSubmit, StartG1, Call
    <3>2. QED  BY <2>2, <3>1 DEF ProjectStart
  <2>3. CASE ProjectStep(c)
    <3>1. c # d => client'[d] = client[d]
      <4>1. CASE InitRepository(c) \/ CreateDesignRef(c) \/ MarkManaged(c)
        BY <4>1 DEF InitRepository, CreateDesignRef, MarkManaged, MoveTo, Return
      <4>2. CASE ReconcilerStep(c)
        BY <4>2 DEF ReconcilerStep, ListAndCheck, ResolveDesignRef, RepairDesignRef, Resume, Return
      <4>3. CASE CreateDraft(c) \/ PublishSetRef(c) \/ MarkSubmitted(c) \/ RejectG1(c)
        BY <4>3 DEF CreateDraft, PublishSetRef, MarkSubmitted, RejectG1, MoveTo, Return
      <4>4. CASE ApproveG1(c)
        BY <4>4 DEF ApproveG1, Call, Return
      <4>5. QED  BY <2>3, <4>1, <4>2, <4>3, <4>4 DEF ProjectStep
    <3>2. MarkManaged(c) \/ CreateDraft(c) \/ MarkSubmitted(c) \/ RejectG1(c) => client'[c] = NoCall
      BY DEF MarkManaged, CreateDraft, MarkSubmitted, RejectG1, Return
    <3>3. QED  BY <2>3, <3>1, <3>2 DEF ProjectStep, ReconcilerStep
  <2>4. CASE FailAdoption(c) \/ CrashCall(c)
    BY <2>4 DEF FailAdoption, CrashCall, Return
  <2>5. QED  BY <2>1, <2>2, <2>3, <2>4
<1>3. ASSUME NEW c \in Clients, DesignStep(c)
      PROVE  client'[d] = client[d] \/ client'[d] = NoCall \/ Moves(d)
  <2>1. CASE DecideAccept(c)
    BY <2>1 DEF DecideAccept, Refused, MoveTo, Return
  <2>2. CASE CreateQueued(c) \/ PromoteDesignRef(c) \/ DecideReject(c)
    BY <2>2 DEF CreateQueued, PromoteDesignRef, DecideReject, Return
  <2>3. QED  BY <1>3, <2>1, <2>2 DEF DesignStep
<1>4. ASSUME NEW c \in Clients, NEW p \in Proposals,
             StartCreate(c, p) \/ StartAccept(c, p) \/ StartReject(c, p)
      PROVE  client'[d] = client[d] \/ Starts(d)
  <2>1. c # d => client'[d] = client[d]
    BY <1>4 DEF StartCreate, StartAccept, StartReject, Call
  <2>2. QED  BY <1>4, <2>1
<1>5. ASSUME NEW p \in Proposals, CancelTask(p)
      PROVE  UNCHANGED client
  BY <1>5 DEF CancelTask, projectVars
<1>6. CASE ClaimStep
  BY <1>6 DEF ClaimStep, Claim, projectVars
<1>7. ASSUME NEW w \in Workers, WorkerStep(w) \/ CrashWorker(w)
      PROVE  UNCHANGED client
  BY <1>7 DEF WorkerStep, CrashWorker, ReadRows, BeginExecution, Execute, FenceRef,
              PublishCandidateRef, MarkReady, MarkValidationFailed, Settle, projectVars
<1>8. QED  BY <1>1, <1>2, <1>3, <1>4, <1>5, <1>6, <1>7 DEF Next

\* Where a new call is, and what it knows of the project.
FirstPlace(c) ==
  /\ client'[c].seen = project
  /\ \/ client'[c].op = "adopt" /\ client'[c].at = "init" /\ StartAdopt(c)
     \/ client'[c].op \in {"startup", "settle", "import", "submit", "approve_g1"} /\ client'[c].at = "list"
     \/ client'[c].op \in {"reject_g1", "reject"} /\ client'[c].at = "write"
     \/ /\ client'[c].op = "create" /\ client'[c].at = "list"
        /\ client'[c].revision = project.current /\ project.active # Nobody
     \/ client'[c].op = "accept" /\ client'[c].at \in {"list", "write"}

\* So it is for every new call.
LEMMA StartedCalls ==
  ASSUME client \in [Clients -> Calls], NEW c \in Clients, Starts(c)
  PROVE  client'[c] = NoCall \/ FirstPlace(c)
<1> USE DEF FirstPlace, Call, NoCall
<1>1. CASE StartAdopt(c)
  BY <1>1 DEF StartAdopt
<1>2. CASE StartUp(c)
  BY <1>2 DEF StartUp
<1>3. CASE ApproveG1(c)
  <2>1. Call(c, "settle", "list", Nobody, Nobody) \/ Return(c)
    BY <1>3 DEF ApproveG1
  <2>2. QED  BY <2>1 DEF Return
<1>4. ASSUME NEW s \in Sets, StartImport(c, s) \/ StartSubmit(c, s) \/ StartG1(c, s)
      PROVE  FirstPlace(c)
  <2>1. \/ Call(c, "import", "list", s, Nobody)
        \/ Call(c, "submit", "list", s, Commit(s, Rendered))
        \/ Call(c, "approve_g1", "list", s, sets[s].candidate)
        \/ Call(c, "reject_g1", "write", s, sets[s].candidate)
    BY <1>4 DEF StartImport, StartSubmit, StartG1
  <2>2. CASE Call(c, "import", "list", s, Nobody)
    BY <2>2
  <2>3. CASE Call(c, "submit", "list", s, Commit(s, Rendered))
    BY <2>3
  <2>4. CASE Call(c, "approve_g1", "list", s, sets[s].candidate)
    BY <2>4
  <2>5. CASE Call(c, "reject_g1", "write", s, sets[s].candidate)
    BY <2>5
  <2>6. QED  BY <2>1, <2>2, <2>3, <2>4, <2>5
<1>5. ASSUME NEW p \in Proposals, StartCreate(c, p)
      PROVE  FirstPlace(c)
  BY <1>5 DEF StartCreate
<1>6. ASSUME NEW p \in Proposals, StartAccept(c, p) \/ StartReject(c, p)
      PROVE  FirstPlace(c)
  <2>1. CASE StartReject(c, p)
    BY <2>1 DEF StartReject
  <2>2. CASE StartAccept(c, p)
    <3>1. PICK place \in {"list", "write"} : Call(c, "accept", place, p, proposals[p].candidate)
      BY <2>2 DEF StartAccept
    <3>2. QED  BY <3>1
  <2>3. QED  BY <1>6, <2>1, <2>2
<1>7. QED  BY <1>1, <1>2, <1>3, <1>4, <1>5, <1>6 DEF Starts

\* A call that moves keeps what it is about and what it saw first.
LEMMA MovesKeep ==
  ASSUME client \in [Clients -> Calls], NEW c \in Clients, Moves(c), client'[c] # NoCall
  PROVE  /\ client'[c].op = client[c].op /\ client'[c].subject = client[c].subject
         /\ client'[c].revision = client[c].revision /\ client'[c].seen = client[c].seen
<1> USE DEF Calls
<1>1. CASE InitRepository(c) \/ CreateDesignRef(c) \/ PublishSetRef(c)
  BY <1>1 DEF InitRepository, CreateDesignRef, PublishSetRef, MoveTo, Return
<1>2. CASE ListAndCheck(c) \/ ResolveDesignRef(c) \/ RepairDesignRef(c)
  BY <1>2 DEF ListAndCheck, ResolveDesignRef, RepairDesignRef, Resume, Return
<1>3. CASE DecideAccept(c)
  BY <1>3 DEF DecideAccept, Refused, MoveTo, Return
<1>4. QED  BY <1>1, <1>2, <1>3 DEF Moves

\* The history only grows.
LEMMA AcceptedStays ==
  ASSUME TypeOK, CallsAreSound, ManagedFirst, CandidatesAreSound, LineIsSound, [Next]_vars
  PROVE  /\ Len(history') \in {Len(history), Len(history) + 1}
         /\ \A i \in DOMAIN history : i \in DOMAIN history' /\ history'[i] = history[i]
         /\ \/ /\ UNCHANGED history
               /\ project'.mode = project.mode /\ project'.current = project.current
            \/ \E row \in Row : Extends(row)
<1>1. history \in Seq(Row)
  BY DEF TypeOK, ProjectTypeOK
<1>2. UNCHANGED history \/ \E row \in Row : Extends(row)
  BY HistorySteps
<1>3. QED  BY <1>1, <1>2, HistorySteps DEF Extends

\* The ref of a set, once written, stays.
LEMMA SetRefStays ==
  ASSUME TypeOK, CallsAreSound, RunsAreSound, [Next]_vars, NEW s \in Sets, refs[s] # Nobody
  PROVE  refs'[s] = refs[s]
<1> USE DEF TypeOK, ProjectTypeOK
<1>1. "design" # s
  BY ProjectAssumption
<1>2. ASSUME NEW c \in Clients,
             CreateDesignRef(c) \/ FailAdoption(c) \/ RepairDesignRef(c) \/ PromoteDesignRef(c)
      PROVE  refs'[s] = refs[s]
  BY <1>1, <1>2 DEF CreateDesignRef, FailAdoption, RepairDesignRef, PromoteDesignRef, RemoveFresh,
                    Swap, git
<1>3. ASSUME NEW c \in Clients, PublishSetRef(c)
      PROVE  refs'[s] = refs[s]
  BY <1>3 DEF PublishSetRef, Swappable, Unchanged, Swap
<1>4. ASSUME NEW w \in Workers, PublishCandidateRef(w)
      PROVE  refs'[s] = refs[s]
  <2>1. Prop(w) # s
    BY <1>4, ProjectAssumption DEF PublishCandidateRef, RunsAreSound
  <2>2. QED  BY <1>4, <2>1 DEF PublishCandidateRef, Swap
<1>5. QED  BY <1>2, <1>3, <1>4, RefSteps

\* Calls come to the places of their kind only.
LEMMA PlacesStep ==
  ASSUME TypeOK, PlacesAreSound, [Next]_vars
  PROVE  PlacesAreSound'
<1> USE DEF TypeOK, ProjectTypeOK
<1> SUFFICES ASSUME NEW c \in Clients
             PROVE  /\ client'[c].op = "none" => client'[c].at = "idle"
                    /\ client'[c].op = "adopt" => client'[c].at \in {"init", "ref", "write"}
                    /\ client'[c].at \in {"init", "ref"} => client'[c].op = "adopt"
                    /\ client'[c].at = "promote" => client'[c].op = "accept"
  BY DEF PlacesAreSound, Op, At
<1>1. CASE client'[c] = client[c]
  BY <1>1 DEF PlacesAreSound, Op, At
<1>2. CASE client'[c] = NoCall
  BY <1>2 DEF NoCall
<1>3. CASE Starts(c) /\ client'[c] # NoCall
  BY <1>3, StartedCalls DEF FirstPlace
<1>4. CASE Moves(c) /\ client'[c] # NoCall
  <2>1. client'[c].op = client[c].op
    BY <1>4, MovesKeep
  <2>2. /\ client[c].op = "none" => client[c].at = "idle"
        /\ client[c].op = "adopt" => client[c].at \in {"init", "ref", "write"}
        /\ client[c].at \in {"init", "ref"} => client[c].op = "adopt"
    BY DEF PlacesAreSound, Op, At
  <2>3. CASE InitRepository(c)
    BY <2>1, <2>2, <2>3 DEF InitRepository, At, Calls
  <2>4. CASE CreateDesignRef(c)
    BY <1>4, <2>1, <2>2, <2>4 DEF CreateDesignRef, MoveTo, Return, At, Calls
  <2>5. CASE ListAndCheck(c)
    BY <1>4, <2>1, <2>2, <2>5 DEF ListAndCheck, Return, At, Calls
  <2>6. CASE ResolveDesignRef(c)
    BY <1>4, <2>1, <2>2, <2>6 DEF ResolveDesignRef, Resume, Return, At, Calls
  <2>7. CASE RepairDesignRef(c)
    BY <1>4, <2>1, <2>2, <2>7 DEF RepairDesignRef, Resume, Return, At, Calls
  <2>8. CASE PublishSetRef(c)
    BY <1>4, <2>1, <2>2, <2>8 DEF PublishSetRef, MoveTo, Return, At, Calls, Op
  <2>9. CASE DecideAccept(c)
    BY <1>4, <2>1, <2>2, <2>9 DEF DecideAccept, Refused, MoveTo, Return, At, Calls, Op
  <2>10. QED  BY <1>4, <2>3, <2>4, <2>5, <2>6, <2>7, <2>8, <2>9 DEF Moves
<1>5. QED  BY <1>1, <1>2, <1>3, <1>4, OwnSteps

\* A submission comes to its transaction with its ref written.
LEMMA SetRefsStep ==
  ASSUME TypeOK, CallsAreSound, CandidatesAreSound, RunsAreSound, PlacesAreSound,
         SetRefsAreSound, [Next]_vars
  PROVE  SetRefsAreSound'
<1> USE DEF TypeOK, ProjectTypeOK
<1>1. \A s \in Sets : Commit(s, Rendered) # Nobody
  BY RevisionAssumption DEF Commit, Revisions
<1>2. ASSUME NEW s \in Sets, sets'[s].status = "pending_approval"
      PROVE  refs'[s] = Commit(s, Rendered)
  <2>1. CASE sets[s].status = "pending_approval"
    BY <1>1, <2>1, SetRefStays DEF SetRefsAreSound
  <2>2. CASE sets[s].status # "pending_approval"
    <3>1. PICK c \in Clients : MarkSubmitted(c) /\ Subject(c) = s
      <4>1. ASSUME NEW c \in Clients, CreateDraft(c) \/ RejectG1(c) \/ ApproveG1(c)
            PROVE  FALSE
        <5>1. CASE CreateDraft(c) \/ RejectG1(c)
          BY <1>2, <2>2, <5>1 DEF CreateDraft, RejectG1, SetRows
        <5>2. CASE ApproveG1(c)
          <6>1. sets' = Superseding(Subject(c)) /\ Subject(c) \in Sets
            BY <1>2, <2>2, <5>2 DEF ApproveG1, CallsAreSound
          <6>2. CASE s = Subject(c)
            BY <1>2, <6>1, <6>2 DEF Superseding, SetRows
          <6>3. CASE s # Subject(c) /\ s = project.active
            BY <1>2, <6>1, <6>3 DEF Superseding, SetRows
          <6>4. CASE s # Subject(c) /\ s # project.active
            BY <1>2, <2>2, <6>1, <6>4 DEF Superseding, SetRows
          <6>5. QED  BY <6>2, <6>3, <6>4
        <5>3. QED  BY <4>1, <5>1, <5>2
      <4>2. ASSUME NEW c \in Clients,
                   MarkManaged(c) \/ CreateQueued(c) \/ DecideAccept(c) \/ DecideReject(c)
            PROVE  UNCHANGED sets
        BY <4>2 DEF MarkManaged, CreateQueued, DecideAccept, DecideReject
      <4>3. ASSUME NEW w \in Workers, BeginExecution(w) \/ MarkReady(w) \/ MarkValidationFailed(w)
            PROVE  UNCHANGED sets
        BY <4>3 DEF BeginExecution, MarkReady, MarkValidationFailed
      <4>4. ASSUME NEW c \in Clients, MarkSubmitted(c)
            PROVE  Subject(c) = s
        BY <1>2, <2>2, <4>4 DEF MarkSubmitted, SetRows
      <4>5. ~UNCHANGED sets
        BY <1>2, <2>2
      <4>6. QED  BY <4>1, <4>2, <4>3, <4>4, <4>5, DatabaseSteps DEF database
    <3>2. /\ Op(c) = "submit" /\ At(c, "write") /\ UNCHANGED refs
      BY <3>1 DEF MarkSubmitted, git
    <3>3. QED  BY <3>1, <3>2 DEF SetRefsAreSound, CallsAreSound
  <2>3. QED  BY <2>1, <2>2
<1>3. ASSUME NEW c \in Clients, client'[c].op = "submit", client'[c].at = "write"
      PROVE  refs'[client'[c].subject] = client'[c].revision
  <2>1. CASE client'[c] = client[c]
    <3>1. /\ Subject(c) \in Sets /\ client[c].revision = Commit(Subject(c), Rendered)
          /\ refs[Subject(c)] = client[c].revision
      BY <1>3, <2>1 DEF CallsAreSound, SetRefsAreSound, Op, At
    <3>2. QED  BY <1>1, <2>1, <3>1, SetRefStays DEF Subject
  <2>2. client'[c] # NoCall
    BY <1>3 DEF NoCall
  <2>3. CASE Starts(c)
    BY <1>3, <2>2, <2>3, StartedCalls DEF FirstPlace
  <2>4. CASE Moves(c)
    <3>1. client[c].op = "submit" /\ ~At(c, "ref")
      BY <1>3, <2>2, <2>4, MovesKeep DEF PlacesAreSound, Op, At
    <3>2. CASE PublishSetRef(c)
      <4>1. client'[c].subject = Subject(c) /\ client'[c].revision = client[c].revision
        BY <2>2, <2>4, MovesKeep DEF Subject
      <4>2. refs' = [refs EXCEPT ![Subject(c)] = client[c].revision]
        BY <2>2, <3>2 DEF PublishSetRef, Swap, Return
      <4>3. Subject(c) \in Sets
        BY <3>1 DEF CallsAreSound, Op
      <4>4. QED  BY <4>1, <4>2, <4>3
    <3>3. CASE InitRepository(c) \/ CreateDesignRef(c) \/ DecideAccept(c) \/ ListAndCheck(c)
      BY <1>3, <2>2, <3>1, <3>3
         DEF InitRepository, CreateDesignRef, DecideAccept, ListAndCheck, MoveTo, Return, Op, Calls
    <3>4. CASE ResolveDesignRef(c) \/ RepairDesignRef(c)
      BY <1>3, <2>2, <3>1, <3>4 DEF ResolveDesignRef, RepairDesignRef, Resume, Return, Op, Calls
    <3>5. QED  BY <2>4, <3>2, <3>3, <3>4 DEF Moves
  <2>5. QED  BY <2>1, <2>2, <2>3, <2>4, OwnSteps
<1>4. QED  BY <1>2, <1>3 DEF SetRefsAreSound, Op, At, Subject

-----------------------------------------------------------------------------
(* The facts of the last row.                                              *)

\* A row of a proposal that was accepted does not change.
LEMMA AcceptedRowStays ==
  ASSUME TypeOK, [Next]_vars, NEW p \in Proposals, proposals[p].status = "accepted"
  PROVE  proposals'[p] = proposals[p]
BY ReviewStays DEF Reviewed, Decided

\* The facts stand as long as the history and the active set do.
LEMMA ActiveStays ==
  ASSUME TypeOK, LineIsSound, ActiveIsFrozen, [Next]_vars,
         UNCHANGED history, project'.active = project.active,
         project.active # Nobody => sets'[project.active] = sets[project.active]
  PROVE  ActiveIsFrozen'
<1> DEFINE row == history[Len(history)]
<1>1. ASSUME history # <<>>
      PROVE  project.active = row.set /\ G1Facts(row) /\ Len(history) \in DOMAIN history
  BY <1>1 DEF ActiveIsFrozen, TypeOK, ProjectTypeOK
<1>2. ASSUME history # <<>>
      PROVE  G1Facts(row)'
  <2>1. CASE row.set = Nobody
    BY <2>1 DEF G1Facts
  <2>2. CASE row.set # Nobody
    <3>1. row.set = project.active /\ sets'[row.set] = sets[row.set]
      BY <1>1, <1>2, <2>2
    <3>2. row.proposal # Nobody => proposals'[row.proposal] = proposals[row.proposal]
      BY <1>1, <1>2, AcceptedRowStays DEF LineIsSound
    <3>3. G1Facts(row)
      BY <1>1, <1>2
    <3>4. QED  BY <3>1, <3>2, <3>3 DEF G1Facts, IsAncestor, RowsOf
  <2>3. QED  BY <2>1, <2>2
<1>3. QED  BY <1>1, <1>2 DEF ActiveIsFrozen, Accepted

\* An approval appends the row of its own set, which it freezes.
LEMMA ActiveAfterApproval ==
  ASSUME TypeOK, CallsAreSound, CandidatesAreSound, NEW c \in Clients, ApproveG1(c),
         history' # history
  PROVE  ActiveIsFrozen'
<1> DEFINE s == Subject(c)
           row == [revision |-> sets[s].candidate, parent |-> sets[s].base,
                   set |-> s, proposal |-> Nobody]
<1>1. /\ project'.active = s /\ sets' = Superseding(s) /\ history' = Append(history, row)
      /\ s \in Sets /\ sets[s] \in SetRows /\ history \in Seq(Row)
  BY DEF ApproveG1, Advance, CallsAreSound, TypeOK, ProjectTypeOK, Projects
<1>2. sets'[s].status = "frozen" /\ sets'[s].frozen = sets[s].candidate
  BY <1>1 DEF Superseding, SetRows
<1>3. Len(history') = Len(history) + 1 /\ Len(history') \in DOMAIN history' /\ history'[Len(history')] = row
  BY <1>1
<1>4. G1Facts(history[Len(history)])'
  BY <1>2, <1>3 DEF G1Facts
<1>5. Accepted(sets[project.active].frozen)'
  BY <1>1, <1>2, <1>3 DEF Accepted
<1>6. QED  BY <1>1, <1>2, <1>3, <1>4, <1>5 DEF ActiveIsFrozen

\* An acceptance appends a row for the set that is active: the proposal is
\* based on the last revision, and no other has that revision.
LEMMA ActiveAfterAcceptance ==
  ASSUME TypeOK, CallsAreSound, ManagedFirst, CandidatesAreSound, LineIsSound, ActiveIsFrozen,
         BasesAreSound, [Next]_vars, NEW c \in Clients, DecideAccept(c), history' # history
  PROVE  ActiveIsFrozen'
<1> DEFINE p == Subject(c)
           base == proposals[p].base
           n == Len(history)
           row == [revision |-> client[c].revision, parent |-> base,
                   set |-> proposals[p].set, proposal |-> p]
<1>1. /\ project' = [project EXCEPT !.current = client[c].revision, !.version = @ + 1,
                                    !.active = project.active]
      /\ history' = Append(history, row) /\ sets' = sets
      /\ proposals' = [proposals EXCEPT ![p].status = "accepted"]
      /\ project.current = base /\ proposals[p].status = "ready_for_review"
      /\ p \in Proposals /\ Op(c) = "accept"
  BY DEF DecideAccept, Advances, Advance, CallsAreSound
<1>2. /\ history \in Seq(Row) /\ project \in Projects /\ proposals \in [Proposals -> ProposalRows]
      /\ project.mode = "managed"
  BY <1>1 DEF TypeOK, ProjectTypeOK, ManagedFirst
<1>3. project'.active = project.active /\ proposals'[p].base = base
  BY <1>1, <1>2 DEF Projects, ProposalRows
<1>4. n \in DOMAIN history /\ history[n].revision = base /\ history[n].set = project.active
  BY <1>1, <1>2 DEF LineIsSound, ActiveIsFrozen
<1>5. proposals[p].set = project.active
  <2>1. PICK i \in DOMAIN history : history[i].revision = base /\ history[i].set = proposals[p].set
    BY <1>1 DEF BasesAreSound, AcceptedWith
  <2>2. i = n
    BY <1>4, <2>1 DEF LineIsSound
  <2>3. QED  BY <1>4, <2>1, <2>2
<1>6. /\ Len(history') = n + 1 /\ Len(history') \in DOMAIN history' /\ history'[Len(history')] = row
      /\ \A i \in DOMAIN history : i \in DOMAIN history' /\ history'[i] = history[i] /\ i <= n
  BY <1>1, <1>2
<1>7. ASSUME project.active # Nobody
      PROVE  /\ sets[project.active].status = "frozen"
             /\ \E i \in DOMAIN history' : i <= n /\ history'[i].revision = sets[project.active].frozen
  BY <1>6, <1>7 DEF ActiveIsFrozen, Accepted
<1>8. G1Facts(history[Len(history)])'
  <2>1. CASE project.active = Nobody
    BY <1>5, <1>6, <2>1 DEF G1Facts
  <2>2. CASE project.active # Nobody
    <3>1. PICK i \in DOMAIN history' : i <= n /\ history'[i].revision = sets[project.active].frozen
      BY <1>7, <2>2
    <3>2. n \in DOMAIN history' /\ history'[n].revision = base
      BY <1>4, <1>6
    <3>3. DEFINE last == history'[Len(history')]
    <3>4. /\ last.set = project.active /\ last.proposal = p /\ p # Nobody
          /\ sets'[last.set] = sets[project.active] /\ proposals'[last.proposal].base = base
      BY <1>1, <1>3, <1>5, <1>6, ProjectAssumption
    <3>5. \E j, k \in DOMAIN history' :
            history'[j].revision = sets[project.active].frozen /\ history'[k].revision = base /\ j <= k
      BY <3>1, <3>2
    <3>6. sets'[last.set].status = "frozen"
      BY <1>7, <2>2, <3>4
    <3>7. QED  BY <3>4, <3>5, <3>6 DEF G1Facts, IsAncestor, RowsOf
  <2>3. QED  BY <2>1, <2>2
<1>9. QED  BY <1>1, <1>3, <1>5, <1>6, <1>7, <1>8 DEF ActiveIsFrozen, Accepted

\* Only an approval or an acceptance changes the set that the facts are
\* about, and both write its successor.
LEMMA ActiveStep ==
  ASSUME TypeOK, CallsAreSound, ManagedFirst, CandidatesAreSound, LineIsSound, ActiveIsFrozen,
         BasesAreSound, [Next]_vars
  PROVE  ActiveIsFrozen'
<1>1. CASE UNCHANGED database
  BY <1>1, ActiveStays DEF database
<1>2. ASSUME NEW c \in Clients, MarkManaged(c)
      PROVE  ActiveIsFrozen'
  <2>1. CASE UNCHANGED <<project, history>>
    BY <1>2, <2>1, ActiveStays DEF MarkManaged
  <2>2. CASE ~UNCHANGED <<project, history>>
    <3>1. /\ history' = Append(history, [revision |-> client[c].revision, parent |-> Nobody,
                                         set |-> Nobody, proposal |-> Nobody])
          /\ project' = [project EXCEPT !.mode = "managed", !.current = client[c].revision,
                                        !.version = @ + 1]
          /\ project.mode = "registered"
      BY <1>2, <2>2 DEF MarkManaged
    <3>2. project \in Projects /\ history \in Seq(Row)
      BY DEF TypeOK, ProjectTypeOK
    <3>3. project'.active = Nobody
      BY <3>1, <3>2 DEF ManagedFirst, Projects
    <3>4. history'[Len(history')].set = Nobody
      BY <3>1, <3>2
    <3>5. QED  BY <3>3, <3>4 DEF ActiveIsFrozen, G1Facts
  <2>3. QED  BY <2>1, <2>2
<1>3. ASSUME NEW c \in Clients, CreateDraft(c) \/ MarkSubmitted(c) \/ RejectG1(c)
      PROVE  ActiveIsFrozen'
  <2>1. UNCHANGED <<project, history>>
    BY <1>3 DEF CreateDraft, MarkSubmitted, RejectG1
  <2>2. ASSUME project.active # Nobody
        PROVE  sets'[project.active] = sets[project.active]
    <3>1. sets[project.active].status = "frozen"
      BY <2>2 DEF ActiveIsFrozen
    <3>2. sets \in [Sets -> SetRows] /\ project.active \in Sets
      BY <2>2 DEF TypeOK, ProjectTypeOK, Projects
    <3>3. QED  BY <1>3, <3>1, <3>2 DEF CreateDraft, MarkSubmitted, RejectG1
  <2>3. QED  BY <2>1, <2>2, ActiveStays
<1>4. ASSUME NEW c \in Clients, ApproveG1(c)
      PROVE  ActiveIsFrozen'
  <2>1. CASE UNCHANGED <<project, history, sets>>
    BY <2>1, ActiveStays
  <2>2. CASE ~UNCHANGED <<project, history, sets>>
    <3>1. \E row : history' = Append(history, row)
      BY <1>4, <2>2 DEF ApproveG1
    <3>2. history' # history
      BY <3>1 DEF TypeOK, ProjectTypeOK
    <3>3. QED  BY <1>4, <3>2, ActiveAfterApproval
  <2>3. QED  BY <2>1, <2>2
<1>5. ASSUME NEW c \in Clients, CreateQueued(c) \/ DecideReject(c)
      PROVE  ActiveIsFrozen'
  BY <1>5, ActiveStays DEF CreateQueued, DecideReject
<1>6. ASSUME NEW c \in Clients, DecideAccept(c)
      PROVE  ActiveIsFrozen'
  <2>1. CASE UNCHANGED <<project, history>>
    BY <1>6, <2>1, ActiveStays DEF DecideAccept
  <2>2. CASE ~UNCHANGED <<project, history>>
    <3>1. \E row : history' = Append(history, row)
      BY <1>6, <2>2 DEF DecideAccept
    <3>2. history' # history
      BY <3>1 DEF TypeOK, ProjectTypeOK
    <3>3. QED  BY <1>6, <3>2, ActiveAfterAcceptance
  <2>3. QED  BY <2>1, <2>2
<1>7. ASSUME NEW w \in Workers, BeginExecution(w) \/ MarkReady(w) \/ MarkValidationFailed(w)
      PROVE  ActiveIsFrozen'
  BY <1>7, ActiveStays DEF BeginExecution, MarkReady, MarkValidationFailed
<1>8. QED  BY <1>1, <1>2, <1>3, <1>4, <1>5, <1>6, <1>7, DatabaseSteps

\* A proposal keeps its base and its set; both come from the call that
\* created it.
LEMMA BaseStays ==
  ASSUME TypeOK, RunsAreSound, [Next]_vars, NEW p \in Proposals
  PROVE  \/ /\ proposals'[p].base = proposals[p].base /\ proposals'[p].set = proposals[p].set
            /\ proposals'[p].status # "absent" => proposals[p].status # "absent"
         \/ \E c \in Clients : /\ Op(c) = "create"
                               /\ proposals'[p].base = client[c].revision
                               /\ proposals'[p].set = Seen(c).active
<1>0. proposals \in [Proposals -> ProposalRows]
  BY DEF TypeOK, ProjectTypeOK
<1> USE DEF ProposalRows
<1>1. ASSUME NEW c \in Clients,
             MarkManaged(c) \/ CreateDraft(c) \/ MarkSubmitted(c) \/ ApproveG1(c) \/ RejectG1(c)
      PROVE  UNCHANGED proposals
  BY <1>1 DEF MarkManaged, CreateDraft, MarkSubmitted, ApproveG1, RejectG1
<1>2. ASSUME NEW c \in Clients, CreateQueued(c)
      PROVE  \/ proposals'[p] = proposals[p]
             \/ /\ Op(c) = "create" /\ proposals'[p].base = client[c].revision
                /\ proposals'[p].set = Seen(c).active
  <2>1. \/ UNCHANGED proposals
        \/ proposals' = [proposals EXCEPT ![Subject(c)] =
                           [@ EXCEPT !.status = "queued", !.base = client[c].revision,
                                     !.set = Seen(c).active]]
    BY <1>2 DEF CreateQueued
  <2>2. Op(c) = "create"
    BY <1>2 DEF CreateQueued
  <2>3. CASE p = Subject(c)
    BY <1>0, <2>1, <2>2, <2>3
  <2>4. CASE p # Subject(c)
    BY <1>0, <2>1, <2>4
  <2>5. QED  BY <2>3, <2>4
<1> DEFINE Kept == /\ proposals'[p].base = proposals[p].base /\ proposals'[p].set = proposals[p].set
                   /\ proposals'[p].status # "absent" => proposals[p].status # "absent"
<1>3. ASSUME NEW c \in Clients, DecideAccept(c) \/ DecideReject(c)
      PROVE  Kept
  <2>1. CASE DecideAccept(c)
    BY <1>0, <2>1 DEF DecideAccept
  <2>2. CASE DecideReject(c)
    BY <1>0, <2>2 DEF DecideReject
  <2>3. QED  BY <1>3, <2>1, <2>2
<1>4. ASSUME NEW w \in Workers, BeginExecution(w) \/ MarkReady(w) \/ MarkValidationFailed(w)
      PROVE  Kept
  <2>1. CASE BeginExecution(w)
    <3>1. \/ UNCHANGED proposals
          \/ /\ proposals' = [proposals EXCEPT ![Prop(w)].status = "executing"]
             /\ proposals[Prop(w)].status \in Undecided
      BY <2>1 DEF BeginExecution
    <3>2. QED  BY <1>0, <3>1 DEF Undecided
  <2>2. CASE MarkReady(w)
    BY <1>0, <2>2 DEF MarkReady, MayMark
  <2>3. CASE MarkValidationFailed(w)
    BY <1>0, <2>3 DEF MarkValidationFailed, Undecided
  <2>4. QED  BY <1>4, <2>1, <2>2, <2>3
<1>5. QED  BY <1>1, <1>2, <1>3, <1>4, DatabaseSteps DEF database

\* A base that was accepted with a set stays so, and a batch names the last
\* revision with the active set.
LEMMA BasesStep ==
  ASSUME TypeOK, CallsAreSound, ManagedFirst, CandidatesAreSound, RunsAreSound, LineIsSound,
         ActiveIsFrozen, BasesAreSound, [Next]_vars
  PROVE  BasesAreSound'
<1>1. ASSUME NEW revision, NEW set, AcceptedWith(revision, set)
      PROVE  \E i \in DOMAIN history' : history'[i].revision = revision /\ history'[i].set = set
  BY <1>1, AcceptedStays DEF AcceptedWith
<1>2. ASSUME NEW p \in Proposals, proposals'[p].status # "absent"
      PROVE  \E i \in DOMAIN history' :
               history'[i].revision = proposals'[p].base /\ history'[i].set = proposals'[p].set
  <2>1. AcceptedWith(proposals'[p].base, proposals'[p].set)
    BY <1>2, BaseStays DEF BasesAreSound, AcceptedWith
  <2>2. QED  BY <1>1, <2>1
<1>3. ASSUME NEW c \in Clients, client'[c].op = "create"
      PROVE  \E i \in DOMAIN history' :
               history'[i].revision = client'[c].revision /\ history'[i].set = client'[c].seen.active
  <2>1. client'[c] # NoCall /\ client \in [Clients -> Calls]
    BY <1>3 DEF NoCall, TypeOK, ProjectTypeOK
  <2>2. CASE client'[c] = client[c] \/ Moves(c)
    <3>1. /\ client[c].op = "create" /\ client'[c].revision = client[c].revision
          /\ client'[c].seen = client[c].seen
      BY <1>3, <2>1, <2>2, MovesKeep
    <3>2. AcceptedWith(client[c].revision, client[c].seen.active)
      BY <3>1 DEF BasesAreSound, Op, Seen
    <3>3. QED  BY <1>1, <3>1, <3>2
  <2>3. CASE Starts(c)
    <3>1. /\ client'[c].revision = project.current /\ client'[c].seen = project
          /\ project.active # Nobody
      BY <1>3, <2>1, <2>3, StartedCalls DEF FirstPlace
    <3>2. project.mode = "managed" /\ history \in Seq(Row)
      BY <3>1 DEF ManagedFirst, TypeOK, ProjectTypeOK
    <3>3. AcceptedWith(project.current, project.active)
      BY <3>2 DEF AcceptedWith, LineIsSound, ActiveIsFrozen
    <3>4. QED  BY <1>1, <3>1, <3>3
  <2>4. QED  BY <2>1, <2>2, <2>3, OwnSteps
<1>4. QED  BY <1>2, <1>3 DEF BasesAreSound, AcceptedWith, Op, Seen

-----------------------------------------------------------------------------
(* The design ref.                                                         *)

\* An adoption that does not stand still builds, publishes, ends or dies.
LEMMA AdoptionSteps ==
  ASSUME client \in [Clients -> Calls], PlacesAreSound, [Next]_vars,
         NEW c \in Clients, Op(c) = "adopt"
  PROVE  \/ client'[c] = client[c]
         \/ InitRepository(c) \/ CreateDesignRef(c) \/ MarkManaged(c) \/ FailAdoption(c) \/ CrashCall(c)
<1>1. client[c].at \in {"init", "ref", "write"}
  BY DEF PlacesAreSound
<1>2. CASE UNCHANGED vars
  BY <1>2 DEF vars, projectVars
<1>3. CASE ProjectNext
  <2>1. PICK d \in Clients :
          ProjectStart(d) \/ ProjectStep(d) \/ FailAdoption(d) \/ CrashCall(d)
    BY <1>3 DEF ProjectNext
  <2>2. CASE ProjectStart(d)
    <3>1. At(d, "idle")
      BY <2>2 DEF ProjectStart, StartAdopt, StartUp, StartImport, StartSubmit, StartG1
    <3>2. c # d
      BY <1>1, <3>1 DEF At
    <3>3. QED
      BY <2>2, <3>2 DEF ProjectStart, StartAdopt, StartUp, StartImport, StartSubmit, StartG1, Call
  <2>3. CASE ProjectStep(d) /\ c # d
    <3>1. CASE InitRepository(d) \/ CreateDesignRef(d) \/ MarkManaged(d)
      BY <2>3, <3>1 DEF InitRepository, CreateDesignRef, MarkManaged, MoveTo, Return
    <3>2. CASE ReconcilerStep(d)
      BY <2>3, <3>2 DEF ReconcilerStep, ListAndCheck, ResolveDesignRef, RepairDesignRef, Resume, Return
    <3>3. CASE CreateDraft(d) \/ PublishSetRef(d) \/ MarkSubmitted(d) \/ RejectG1(d)
      BY <2>3, <3>3 DEF CreateDraft, PublishSetRef, MarkSubmitted, RejectG1, MoveTo, Return
    <3>4. CASE ApproveG1(d)
      BY <2>3, <3>4 DEF ApproveG1, Call, Return
    <3>5. QED  BY <2>3, <3>1, <3>2, <3>3, <3>4 DEF ProjectStep
  <2>4. CASE ProjectStep(d) /\ c = d
    <3>1. ~ReconcilerStep(c)
      BY <1>1 DEF ReconcilerStep, ListAndCheck, ResolveDesignRef, RepairDesignRef, At
    <3>2. ~CreateDraft(c) /\ ~PublishSetRef(c) /\ ~MarkSubmitted(c) /\ ~ApproveG1(c) /\ ~RejectG1(c)
      BY DEF CreateDraft, PublishSetRef, MarkSubmitted, ApproveG1, RejectG1
    <3>3. QED  BY <2>4, <3>1, <3>2 DEF ProjectStep
  <2>5. CASE FailAdoption(d) \/ CrashCall(d)
    BY <2>5 DEF FailAdoption, CrashCall, Return
  <2>6. QED  BY <2>1, <2>2, <2>3, <2>4, <2>5
<1>4. ASSUME NEW d \in Clients, DesignStep(d)
      PROVE  client'[c] = client[c]
  <2>1. c # d
    BY <1>1, <1>4 DEF DesignStep, CreateQueued, DecideAccept, PromoteDesignRef, DecideReject, At
  <2>2. CASE DecideAccept(d)
    BY <2>1, <2>2 DEF DecideAccept, Refused, MoveTo, Return
  <2>3. CASE CreateQueued(d) \/ PromoteDesignRef(d) \/ DecideReject(d)
    BY <2>1, <2>3 DEF CreateQueued, PromoteDesignRef, DecideReject, Return
  <2>4. QED  BY <1>4, <2>2, <2>3 DEF DesignStep
<1>5. ASSUME NEW d \in Clients, NEW p \in Proposals,
             StartCreate(d, p) \/ StartAccept(d, p) \/ StartReject(d, p)
      PROVE  client'[c] = client[c]
  <2>1. c # d
    BY <1>1, <1>5 DEF StartCreate, StartAccept, StartReject, At
  <2>2. QED  BY <1>5, <2>1 DEF StartCreate, StartAccept, StartReject, Call
<1>6. ASSUME NEW p \in Proposals, CancelTask(p)
      PROVE  UNCHANGED client
  BY <1>6 DEF CancelTask, projectVars
<1>7. CASE ClaimStep
  BY <1>7 DEF ClaimStep, Claim, projectVars
<1>8. ASSUME NEW w \in Workers, WorkerStep(w) \/ CrashWorker(w)
      PROVE  UNCHANGED client
  BY <1>8 DEF WorkerStep, CrashWorker, ReadRows, BeginExecution, Execute, FenceRef,
              PublishCandidateRef, MarkReady, MarkValidationFailed, Settle, projectVars
<1>9. QED  BY <1>2, <1>3, <1>4, <1>5, <1>6, <1>7, <1>8 DEF Next

\* Only an adoption makes or removes a repository, and nobody takes a death
\* back.
LEMMA RepoSteps ==
  ASSUME TypeOK, [Next]_vars
  PROVE  /\ \/ UNCHANGED repo
            \/ \E c \in Clients : InitRepository(c) \/ CreateDesignRef(c) \/ FailAdoption(c)
         /\ crashes > 0 => crashes' > 0
<1> DEFINE Died == UNCHANGED crashes \/ CountCrash
<1>1. Died => (crashes > 0 => crashes' > 0)
  BY DEF CountCrash, TypeOK, ProjectTypeOK
<1>2. CASE UNCHANGED vars
  BY <1>1, <1>2 DEF vars, projectVars, git
<1>3. ASSUME NEW c \in Clients, ProjectStart(c) \/ ProjectStep(c) \/ FailAdoption(c) \/ CrashCall(c)
      PROVE  /\ UNCHANGED repo \/ InitRepository(c) \/ CreateDesignRef(c) \/ FailAdoption(c)
             /\ Died
  <2>1. CASE ProjectStart(c)
    BY <2>1 DEF ProjectStart, StartAdopt, StartUp, StartImport, StartSubmit, StartG1, git
  <2>2. CASE ProjectStep(c)
    <3>1. CASE InitRepository(c) \/ CreateDesignRef(c)
      BY <3>1 DEF InitRepository, CreateDesignRef
    <3>2. CASE MarkManaged(c) \/ CreateDraft(c) \/ MarkSubmitted(c) \/ ApproveG1(c) \/ RejectG1(c)
      BY <3>2 DEF MarkManaged, CreateDraft, MarkSubmitted, ApproveG1, RejectG1, git
    <3>3. CASE ReconcilerStep(c) \/ PublishSetRef(c)
      BY <3>3 DEF ReconcilerStep, ListAndCheck, ResolveDesignRef, RepairDesignRef, PublishSetRef, git
    <3>4. QED  BY <2>2, <3>1, <3>2, <3>3 DEF ProjectStep
  <2>3. CASE FailAdoption(c) \/ CrashCall(c)
    BY <2>3 DEF FailAdoption, CrashCall, git
  <2>4. QED  BY <1>3, <2>1, <2>2, <2>3
<1>4. ASSUME NEW c \in Clients, DesignStep(c)
      PROVE  UNCHANGED <<repo, crashes>>
  BY <1>4 DEF DesignStep, CreateQueued, DecideAccept, PromoteDesignRef, DecideReject, git
<1>5. ASSUME NEW c \in Clients, NEW p \in Proposals,
             StartCreate(c, p) \/ StartAccept(c, p) \/ StartReject(c, p)
      PROVE  UNCHANGED <<repo, crashes>>
  BY <1>5 DEF StartCreate, StartAccept, StartReject, git
<1>6. ASSUME NEW p \in Proposals, CancelTask(p)
      PROVE  UNCHANGED <<repo, crashes>>
  BY <1>6 DEF CancelTask, projectVars, git
<1>7. CASE ClaimStep
  BY <1>1, <1>7 DEF ClaimStep, Claim, projectVars, git
<1>8. ASSUME NEW w \in Workers, WorkerStep(w) \/ CrashWorker(w)
      PROVE  UNCHANGED repo /\ Died
  BY <1>8 DEF WorkerStep, CrashWorker, ReadRows, BeginExecution, Execute, FenceRef,
              PublishCandidateRef, MarkReady, MarkValidationFailed, Settle, projectVars, git
<1>9. QED  BY <1>1, <1>2, <1>3, <1>4, <1>5, <1>6, <1>7, <1>8 DEF Next, ProjectNext

\* Who writes the design ref: the adoption of a registered project, or the
\* calls of a managed one.
LEMMA DesignWrites ==
  ASSUME TypeOK, CallsAreSound, ManagedFirst, RunsAreSound, PlacesAreSound, AdoptionIsAlone,
         [Next]_vars
  PROVE  \/ UNCHANGED repo /\ refs'["design"] = refs["design"]
         \/ /\ project.mode = "registered"
            /\ \E c \in Clients :
                 /\ Op(c) = "adopt"
                 /\ InitRepository(c) \/ CreateDesignRef(c) \/ FailAdoption(c)
         \/ /\ project.mode = "managed"
            /\ \E c \in Clients : RepairDesignRef(c) \/ PromoteDesignRef(c)
<1>1. refs \in [Sets \union Proposals \union {"design"} -> MaybeRevision]
  BY DEF TypeOK, ProjectTypeOK
<1>2. ASSUME NEW c \in Clients, InitRepository(c) \/ CreateDesignRef(c) \/ FailAdoption(c)
      PROVE  Op(c) = "adopt" /\ project.mode = "registered"
  BY <1>2 DEF InitRepository, CreateDesignRef, FailAdoption, PlacesAreSound, AdoptionIsAlone, At
<1>3. ASSUME NEW c \in Clients, RepairDesignRef(c) \/ PromoteDesignRef(c)
      PROVE  project.mode = "managed"
  <2>1. Op(c) \notin {"none", "adopt"}
    BY <1>3 DEF RepairDesignRef, PromoteDesignRef, PlacesAreSound, At
  <2>2. QED  BY <2>1 DEF ManagedFirst
<1>4. ASSUME NEW c \in Clients, PublishSetRef(c)
      PROVE  UNCHANGED repo /\ refs'["design"] = refs["design"]
  <2>1. Subject(c) # "design"
    BY <1>4, ProjectAssumption DEF PublishSetRef, CallsAreSound
  <2>2. QED  BY <1>1, <1>4, <2>1 DEF PublishSetRef, Swap
<1>5. ASSUME NEW w \in Workers, PublishCandidateRef(w)
      PROVE  UNCHANGED repo /\ refs'["design"] = refs["design"]
  <2>1. Prop(w) # "design"
    BY <1>5, ProjectAssumption DEF PublishCandidateRef, RunsAreSound
  <2>2. QED  BY <1>1, <1>5, <2>1 DEF PublishCandidateRef, Swap
<1>6. QED  BY <1>2, <1>3, <1>4, <1>5, RefSteps, RepoSteps

\* While an adoption runs, the project changes only by its own transaction.
LEMMA AdoptionWaits ==
  ASSUME TypeOK, ManagedFirst, AdoptionIsAlone, [Next]_vars, NEW c \in Clients, Op(c) = "adopt"
  PROVE  UNCHANGED project \/ MarkManaged(c)
<1>1. project.mode = "registered"
  BY DEF AdoptionIsAlone
<1>2. ASSUME NEW d \in Clients, ApproveG1(d) \/ DecideAccept(d)
      PROVE  FALSE
  BY <1>1, <1>2 DEF ApproveG1, DecideAccept, ManagedFirst
<1>3. ASSUME NEW d \in Clients, MarkManaged(d)
      PROVE  d = c
  BY <1>3 DEF MarkManaged, AdoptionIsAlone
<1>4. ASSUME NEW d \in Clients,
             CreateDraft(d) \/ MarkSubmitted(d) \/ RejectG1(d) \/ CreateQueued(d) \/ DecideReject(d)
      PROVE  UNCHANGED project
  BY <1>4 DEF CreateDraft, MarkSubmitted, RejectG1, CreateQueued, DecideReject
<1>5. ASSUME NEW w \in Workers, BeginExecution(w) \/ MarkReady(w) \/ MarkValidationFailed(w)
      PROVE  UNCHANGED project
  BY <1>5 DEF BeginExecution, MarkReady, MarkValidationFailed
<1>6. QED  BY <1>2, <1>3, <1>4, <1>5, DatabaseSteps DEF database

\* What the adoption that runs does next to the repository and its ref.
LEMMA AdoptionMoves ==
  ASSUME TypeOK, CallsAreSound, ManagedFirst, RunsAreSound, PlacesAreSound, AdoptionIsAlone,
         [Next]_vars, NEW c \in Clients, Op(c) = "adopt"
  PROVE  \/ /\ client'[c] = client[c] /\ UNCHANGED <<project, repo>>
            /\ refs'["design"] = refs["design"]
         \/ /\ client[c].at = "init" /\ client'[c] = [client[c] EXCEPT !.at = "ref", !.fresh = ~repo]
            /\ repo => crashes > 0
            /\ UNCHANGED project
         \/ /\ client[c].at = "ref" /\ client'[c] = [client[c] EXCEPT !.at = "write"]
            /\ refs'["design"] = client[c].revision
            /\ UNCHANGED project
         \/ /\ client'[c] = NoCall
            /\ \/ crashes' > 0
               \/ ~repo' /\ refs'["design"] = Nobody
               \/ project'.mode = "managed"
<1>1. /\ client \in [Clients -> Calls] /\ project \in Projects /\ crashes \in Nat
      /\ refs \in [Sets \union Proposals \union {"design"} -> MaybeRevision]
      /\ project.mode = "registered" /\ project.version = Seen(c).version
  BY DEF TypeOK, ProjectTypeOK, AdoptionIsAlone
<1>2. CASE InitRepository(c)
  <2>1. client[c].at = "init" /\ client'[c] = [client[c] EXCEPT !.at = "ref", !.fresh = ~repo]
    BY <1>1, <1>2 DEF InitRepository, At
  <2>2. repo => crashes > 0
    BY <1>1, <2>1 DEF AdoptionIsAlone, At
  <2>3. QED  BY <1>2, <2>1, <2>2 DEF InitRepository, database
<1>3. ASSUME RemoveFresh(c), client[c].at \in {"ref", "write"}
      PROVE  crashes > 0 \/ (~repo' /\ refs'["design"] = Nobody)
  <2>1. CASE client[c].fresh
    BY <1>1, <1>3, <2>1 DEF RemoveFresh, Swap
  <2>2. CASE ~client[c].fresh
    BY <1>3, <2>2 DEF AdoptionIsAlone, At
  <2>3. QED  BY <2>1, <2>2
<1>4. CASE CreateDesignRef(c)
  <2>1. client[c].at = "ref" /\ UNCHANGED project
    BY <1>4 DEF CreateDesignRef, At, database
  <2>2. \/ Swap("design", client[c].revision) /\ MoveTo(c, "write")
        \/ RemoveFresh(c) /\ Return(c)
    BY <1>4 DEF CreateDesignRef
  <2>3. CASE Swap("design", client[c].revision) /\ MoveTo(c, "write")
    BY <1>1, <2>1, <2>3 DEF Swap, MoveTo
  <2>4. CASE RemoveFresh(c) /\ Return(c)
    <3>1. client'[c] = NoCall
      BY <1>1, <2>4 DEF Return
    <3>2. QED  BY <1>3, <2>1, <2>4, <3>1, RepoSteps
  <2>5. QED  BY <2>2, <2>3, <2>4
<1>5. CASE MarkManaged(c)
  <2>1. project'.mode = "managed"
    BY <1>1, <1>5 DEF MarkManaged, Projects
  <2>2. QED  BY <1>1, <1>5, <2>1 DEF MarkManaged, Return
<1>6. CASE FailAdoption(c)
  <2>1. RemoveFresh(c) /\ client[c].at = "write" /\ client'[c] = NoCall
    BY <1>1, <1>6 DEF FailAdoption, Return, At
  <2>2. QED  BY <1>3, <2>1, RepoSteps
<1>7. CASE CrashCall(c)
  BY <1>1, <1>7 DEF CrashCall, CountCrash, Return
<1>8. CASE client'[c] = client[c]
  <2>1. UNCHANGED project
    <3>1. ~MarkManaged(c)
      BY <1>1, <1>8 DEF MarkManaged, Return, NoCall, Op
    <3>2. QED  BY <3>1, AdoptionWaits
  <2>2. ASSUME NEW d \in Clients, Op(d) = "adopt",
               InitRepository(d) \/ CreateDesignRef(d) \/ FailAdoption(d)
        PROVE  FALSE
    <3>1. d = c
      BY <2>2 DEF AdoptionIsAlone
    <3>2. CASE InitRepository(c)
      BY <1>1, <1>8, <3>2 DEF InitRepository, At, Calls
    <3>3. CASE CreateDesignRef(c)
      BY <1>1, <1>8, <3>3 DEF CreateDesignRef, MoveTo, Return, NoCall, At, Calls
    <3>4. CASE FailAdoption(c)
      BY <1>1, <1>8, <3>4 DEF FailAdoption, Return, NoCall, Op
    <3>5. QED  BY <2>2, <3>1, <3>2, <3>3, <3>4
  <2>3. UNCHANGED repo /\ refs'["design"] = refs["design"]
    BY <1>1, <2>2, DesignWrites
  <2>4. QED  BY <1>8, <2>1, <2>3
<1>9. QED  BY <1>1, <1>2, <1>4, <1>5, <1>6, <1>7, <1>8, AdoptionSteps

\* An adoption stays alone, and leaves nothing but by a death.
LEMMA AdoptionStep ==
  ASSUME TypeOK, CallsAreSound, ManagedFirst, RunsAreSound, PlacesAreSound, AdoptionIsAlone,
         [Next]_vars
  PROVE  AdoptionIsAlone'
<1>1. /\ client \in [Clients -> Calls] /\ project \in Projects
  BY DEF TypeOK, ProjectTypeOK
<1>2. ASSUME NEW c \in Clients, client'[c].op = "adopt"
      PROVE  Op(c) = "adopt" \/ StartAdopt(c)
  <2>1. client'[c] # NoCall
    BY <1>2 DEF NoCall
  <2>2. QED  BY <1>1, <1>2, <2>1, OwnSteps, MovesKeep, StartedCalls DEF FirstPlace, Op
<1>3. ASSUME NEW c \in Clients, StartAdopt(c)
      PROVE  /\ \A d \in Clients : d # c => client'[d].op # "adopt"
             /\ client'[c].at = "init" /\ client'[c].seen = project
             /\ project'.mode = "registered" /\ project' = project
  <2>1. PICK tree \in Contents : Call(c, "adopt", "init", Nobody, Commit(Source, tree))
    BY <1>3 DEF StartAdopt
  <2>2. /\ UNCHANGED project /\ project.mode = "registered"
        /\ \A d \in Clients : client[d].op # "adopt"
    BY <1>3 DEF StartAdopt, Unlocked, Op, database
  <2>3. QED  BY <1>1, <2>1, <2>2 DEF Call, NoCall
<1>4. ASSUME NEW c \in Clients, NEW d \in Clients, client'[c].op = "adopt", client'[d].op = "adopt"
      PROVE  c = d
  BY <1>2, <1>3, <1>4 DEF AdoptionIsAlone
<1>5. ASSUME NEW c \in Clients, client'[c].op = "adopt"
      PROVE  /\ project'.mode = "registered" /\ project'.version = client'[c].seen.version
             /\ client'[c].at # "init" /\ ~client'[c].fresh => crashes' > 0
             /\ client'[c].at = "write" => refs'["design"] = client'[c].revision
  <2>1. CASE StartAdopt(c)
    BY <1>3, <2>1
  <2>2. CASE Op(c) = "adopt"
    <3>1. /\ project.mode = "registered" /\ project.version = client[c].seen.version
          /\ client[c].at # "init" /\ ~client[c].fresh => crashes > 0
          /\ client[c].at = "write" => refs["design"] = client[c].revision
      BY <2>2 DEF AdoptionIsAlone, Seen, At
    <3>2. client'[c] # NoCall /\ client[c] \in Calls
      BY <1>1, <1>5 DEF NoCall
    <3>3. crashes > 0 => crashes' > 0
      BY RepoSteps
    <3>4. \/ /\ client'[c] = client[c] /\ UNCHANGED <<project, repo>>
             /\ refs'["design"] = refs["design"]
          \/ /\ client[c].at = "init" /\ client'[c] = [client[c] EXCEPT !.at = "ref", !.fresh = ~repo]
             /\ repo => crashes > 0
             /\ UNCHANGED project
          \/ /\ client[c].at = "ref" /\ client'[c] = [client[c] EXCEPT !.at = "write"]
             /\ refs'["design"] = client[c].revision
             /\ UNCHANGED project
      BY <2>2, <3>2, AdoptionMoves
    <3>5. QED  BY <3>1, <3>2, <3>3, <3>4 DEF Calls
  <2>3. QED  BY <1>2, <1>5, <2>1, <2>2
<1>6. ASSUME project'.mode = "registered", repo' \/ refs'["design"] # Nobody, ~(crashes' > 0)
      PROVE  \E c \in Clients :
               client'[c].op = "adopt" /\ client'[c].at # "init" /\ client'[c].fresh
  <2>1. project.mode = "registered" /\ ~(crashes > 0)
    BY <1>1, <1>6, ManagedStays, RepoSteps DEF Projects
  <2>2. (repo \/ refs["design"] # Nobody) =>
          \E c \in Clients : client[c].op = "adopt" /\ client[c].at # "init" /\ client[c].fresh
    BY <2>1 DEF AdoptionIsAlone, Op, At
  <2>3. CASE \E c \in Clients : Op(c) = "adopt"
    <3>1. PICK c \in Clients : Op(c) = "adopt"
      BY <2>3
    <3>2. client[c] \in Calls
      BY <1>1
    <3>3. CASE /\ client'[c] = client[c] /\ UNCHANGED <<project, repo>>
               /\ refs'["design"] = refs["design"]
      <4>1. PICK d \in Clients : client[d].op = "adopt" /\ client[d].at # "init" /\ client[d].fresh
        BY <1>6, <2>2, <3>3
      <4>2. d = c
        BY <3>1, <4>1 DEF AdoptionIsAlone, Op
      <4>3. QED  BY <3>3, <4>1, <4>2
    <3>4. CASE /\ client[c].at = "init" /\ client'[c] = [client[c] EXCEPT !.at = "ref", !.fresh = ~repo]
               /\ repo => crashes > 0
      <4>1. client'[c].op = "adopt" /\ client'[c].at = "ref" /\ client'[c].fresh
        BY <2>1, <3>1, <3>2, <3>4 DEF Calls, Op
      <4>2. QED  BY <4>1
    <3>5. CASE client[c].at = "ref" /\ client'[c] = [client[c] EXCEPT !.at = "write"]
      <4>1. client[c].fresh
        BY <2>1, <3>1, <3>5 DEF AdoptionIsAlone, At
      <4>2. client'[c].op = "adopt" /\ client'[c].at = "write" /\ client'[c].fresh
        BY <3>1, <3>2, <3>5, <4>1 DEF Calls, Op
      <4>3. QED  BY <4>2
    <3>6. QED  BY <1>6, <3>1, <3>3, <3>4, <3>5, AdoptionMoves
  <2>4. CASE \A c \in Clients : Op(c) # "adopt"
    <3>1. UNCHANGED repo /\ refs'["design"] = refs["design"]
      BY <2>1, <2>4, DesignWrites
    <3>2. QED  BY <1>6, <2>2, <2>4, <3>1 DEF Op
  <2>5. QED  BY <2>3, <2>4
<1>7. QED  BY <1>4, <1>5, <1>6 DEF AdoptionIsAlone, Op, At, Seen

\* Whatever is written to the design ref of a managed project was accepted
\* before, and goes on to be.
LEMMA PromotionsStep ==
  ASSUME TypeOK, CallsAreSound, ManagedFirst, CandidatesAreSound, RunsAreSound, LineIsSound,
         PlacesAreSound, AdoptionIsAlone, PromotionsAreSound, [Next]_vars
  PROVE  PromotionsAreSound'
<1> DEFINE Stays(revision) == \E i \in DOMAIN history' : history'[i].revision = revision
<1>1. /\ client \in [Clients -> Calls] /\ project \in Projects /\ history \in Seq(Row)
      /\ refs \in [Sets \union Proposals \union {"design"} -> MaybeRevision]
  BY DEF TypeOK, ProjectTypeOK
<1>2. ASSUME NEW revision, Accepted(revision)
      PROVE  Stays(revision)
  BY <1>2, AcceptedStays DEF Accepted
<1>3. ASSUME project.mode = "managed", refs'["design"] # Nobody
      PROVE  Stays(refs'["design"])
  <2>1. Accepted(refs["design"]) \/ refs["design"] = Nobody
    BY <1>3 DEF PromotionsAreSound
  <2>2. CASE refs'["design"] = refs["design"]
    BY <1>2, <1>3, <2>1, <2>2
  <2>3. ASSUME NEW c \in Clients, RepairDesignRef(c)
        PROVE  refs'["design"] = refs["design"] \/ Accepted(refs'["design"])
    <3>1. Accepted(client[c].target)
      BY <2>3 DEF RepairDesignRef, At, PromotionsAreSound
    <3>2. UNCHANGED refs \/ refs' = [refs EXCEPT !["design"] = client[c].target]
      BY <2>3 DEF RepairDesignRef, Swap
    <3>3. QED  BY <1>1, <3>1, <3>2
  <2>4. ASSUME NEW c \in Clients, PromoteDesignRef(c)
        PROVE  refs'["design"] = refs["design"] \/ Accepted(refs'["design"])
    <3>1. Accepted(client[c].revision)
      BY <2>4 DEF PromoteDesignRef, At, PromotionsAreSound
    <3>2. UNCHANGED refs \/ refs' = [refs EXCEPT !["design"] = client[c].revision]
      BY <2>4 DEF PromoteDesignRef, Swap
    <3>3. QED  BY <1>1, <3>1, <3>2
  <2>5. QED  BY <1>2, <1>3, <2>2, <2>3, <2>4, DesignWrites
<1>4. ASSUME project.mode = "registered", project'.mode = "managed"
      PROVE  Stays(refs'["design"])
  <2>1. PICK c \in Clients : MarkManaged(c)
    <3>1. ASSUME NEW c \in Clients, ApproveG1(c) \/ DecideAccept(c)
          PROVE  FALSE
      BY <1>4, <3>1 DEF ApproveG1, DecideAccept, ManagedFirst
    <3>2. ASSUME NEW c \in Clients,
                 CreateDraft(c) \/ MarkSubmitted(c) \/ RejectG1(c) \/ CreateQueued(c) \/ DecideReject(c)
          PROVE  UNCHANGED project
      BY <3>2 DEF CreateDraft, MarkSubmitted, RejectG1, CreateQueued, DecideReject
    <3>3. ASSUME NEW w \in Workers, BeginExecution(w) \/ MarkReady(w) \/ MarkValidationFailed(w)
          PROVE  UNCHANGED project
      BY <3>3 DEF BeginExecution, MarkReady, MarkValidationFailed
    <3>4. project' # project
      BY <1>4
    <3>5. QED  BY <3>1, <3>2, <3>3, <3>4, DatabaseSteps DEF database
  <2>2. refs'["design"] = client[c].revision
    BY <2>1 DEF MarkManaged, git, AdoptionIsAlone
  <2>3. history' = Append(history, [revision |-> client[c].revision, parent |-> Nobody,
                                    set |-> Nobody, proposal |-> Nobody])
    BY <1>4, <2>1 DEF MarkManaged
  <2>4. QED
    <3>1. Len(history) + 1 \in DOMAIN history' /\ history'[Len(history) + 1].revision = client[c].revision
      BY <1>1, <2>3
    <3>2. QED  BY <2>2, <3>1
<1>5. ASSUME NEW c \in Clients, client'[c].at \in {"resolve", "repair"}
      PROVE  Stays(client'[c].target)
  <2>1. client'[c] # NoCall /\ client[c] \in Calls
    BY <1>1, <1>5 DEF NoCall
  <2>2. client[c].at \in {"resolve", "repair"} => Stays(client[c].target)
    BY <1>2 DEF PromotionsAreSound
  <2>3. CASE client'[c] = client[c]
    BY <1>5, <2>2, <2>3
  <2>4. CASE Starts(c)
    BY <1>1, <1>5, <2>1, <2>4, StartedCalls DEF FirstPlace
  <2>5. CASE ListAndCheck(c)
    <3>1. client'[c].target = project.current
      BY <1>1, <2>1, <2>5 DEF ListAndCheck, Return, Calls
    <3>2. Op(c) \notin {"none", "adopt"}
      BY <2>5 DEF ListAndCheck, At, PlacesAreSound
    <3>3. Accepted(project.current)
      BY <1>1, <3>2 DEF ManagedFirst, LineIsSound, Accepted
    <3>4. QED  BY <1>2, <3>1, <3>3
  <2>6. CASE ResolveDesignRef(c)
    <3>1. client[c].at = "resolve" /\ client'[c].target = client[c].target
      BY <1>1, <1>5, <2>1, <2>6 DEF ResolveDesignRef, Resume, Return, At, Calls
    <3>2. QED  BY <2>2, <3>1
  <2>7. CASE RepairDesignRef(c)
    BY <1>1, <1>5, <2>1, <2>7 DEF RepairDesignRef, Resume, Return, Calls
  <2>8. CASE InitRepository(c) \/ CreateDesignRef(c) \/ PublishSetRef(c)
    BY <1>1, <1>5, <2>1, <2>8 DEF InitRepository, CreateDesignRef, PublishSetRef, MoveTo, Return, Calls
  <2>9. CASE DecideAccept(c)
    BY <1>1, <1>5, <2>1, <2>9 DEF DecideAccept, Refused, MoveTo, Return, Calls
  <2>10. QED  BY <1>1, <2>1, <2>3, <2>4, <2>5, <2>6, <2>7, <2>8, <2>9, OwnSteps DEF Moves
<1>6. ASSUME NEW c \in Clients, client'[c].at = "promote"
      PROVE  Stays(client'[c].revision)
  <2>1. client'[c] # NoCall /\ client[c] \in Calls
    BY <1>1, <1>6 DEF NoCall
  <2>2. CASE client'[c] = client[c]
    BY <1>2, <1>6, <2>2 DEF PromotionsAreSound, At
  <2>3. CASE Starts(c)
    BY <1>1, <1>6, <2>1, <2>3, StartedCalls DEF FirstPlace
  <2>4. CASE DecideAccept(c)
    <3>1. client'[c].revision = client[c].revision
      BY <1>1, <2>1, <2>4, MovesKeep DEF Moves
    <3>2. \E row : history' = Append(history, row) /\ row.revision = client[c].revision
      BY <1>1, <2>1, <2>4 DEF DecideAccept, Refused, Return
    <3>3. Len(history) + 1 \in DOMAIN history' /\ history'[Len(history) + 1].revision = client[c].revision
      BY <1>1, <3>2
    <3>4. QED  BY <3>1, <3>3
  <2>5. CASE InitRepository(c) \/ CreateDesignRef(c) \/ PublishSetRef(c)
    BY <1>1, <1>6, <2>1, <2>5 DEF InitRepository, CreateDesignRef, PublishSetRef, MoveTo, Return, Calls
  <2>6. CASE ListAndCheck(c) \/ ResolveDesignRef(c) \/ RepairDesignRef(c)
    BY <1>1, <1>6, <2>1, <2>6
       DEF ListAndCheck, ResolveDesignRef, RepairDesignRef, Resume, Return, Calls
  <2>7. QED  BY <1>1, <2>1, <2>2, <2>3, <2>4, <2>5, <2>6, OwnSteps DEF Moves
<1>7. project'.mode = "managed" => project.mode \in {"registered", "managed"}
  BY <1>1 DEF Projects
<1>8. QED  BY <1>3, <1>4, <1>5, <1>6, <1>7 DEF PromotionsAreSound, Accepted, At

-----------------------------------------------------------------------------
(* The invariant, and what it says.                                        *)

\* The invariant holds at first,
LEMMA InitFacts == Init => FInv
<1> SUFFICES ASSUME Init
             PROVE  FInv
  OBVIOUS
<1>1. IInv
  BY InitIInv
<1>2. SetRefsAreSound
  BY DEF Init, ProjectInit, SetRefsAreSound, NoSet, NoCall, Op
<1>3. ActiveIsFrozen
  BY DEF Init, ProjectInit, ActiveIsFrozen, NewProject
<1>4. BasesAreSound
  BY DEF Init, ProjectInit, BasesAreSound, NoProposal, NoCall, Op
<1>5. PlacesAreSound
  BY DEF Init, ProjectInit, PlacesAreSound, NoCall, Op, At
<1>6. AdoptionIsAlone
  BY DEF Init, ProjectInit, AdoptionIsAlone, NoCall, Op
<1>7. PromotionsAreSound
  BY DEF Init, ProjectInit, PromotionsAreSound, NoCall, NewProject, At
<1>8. QED  BY <1>1, <1>2, <1>3, <1>4, <1>5, <1>6, <1>7 DEF FInv

\* and every step keeps it.
LEMMA NextFacts == FInv /\ [Next]_vars => FInv'
<1> SUFFICES ASSUME FInv, [Next]_vars
             PROVE  FInv'
  OBVIOUS
<1>1. /\ IInv /\ SetRefsAreSound /\ ActiveIsFrozen /\ BasesAreSound /\ PlacesAreSound
      /\ AdoptionIsAlone /\ PromotionsAreSound
  BY DEF FInv
<1>2. /\ TypeOK /\ CallsAreSound /\ ManagedFirst /\ CandidatesAreSound /\ RunsAreSound
      /\ LineIsSound
  BY <1>1 DEF IInv
<1>3. IInv'
  BY <1>1, NextIInv
<1>4. SetRefsAreSound'
  BY <1>1, <1>2, SetRefsStep
<1>5. ActiveIsFrozen'
  BY <1>1, <1>2, ActiveStep
<1>6. BasesAreSound'
  BY <1>1, <1>2, BasesStep
<1>7. PlacesAreSound'
  BY <1>1, <1>2, PlacesStep
<1>8. AdoptionIsAlone'
  BY <1>1, <1>2, AdoptionStep
<1>9. PromotionsAreSound'
  BY <1>1, <1>2, PromotionsStep
<1>10. QED  BY <1>3, <1>4, <1>5, <1>6, <1>7, <1>8, <1>9 DEF FInv

\* Besides the invariant of DesignChangeProofs, its six additions hold in
\* every reachable state.
THEOREM FactsInvariance == Spec => []FInv
BY InitFacts, NextFacts, PTL DEF Spec

\* The reconciler finds its facts: the last row's set is frozen since its
\* base or an ancestor of it, its proposal accepted with that candidate, and
\* every candidate that is reviewed is under its ref.
THEOREM ReconcilerFindsItsFacts == Spec => []FactsAreConsistent
<1>1. FInv => FactsAreConsistent
  <2> SUFFICES ASSUME FInv, project.mode = "managed"
               PROVE  ProjectionFacts(project.current) /\ CandidateRefs
    BY DEF FactsAreConsistent
  <2>1. /\ LineIsSound /\ CandidatesAreSound /\ SetRefsAreSound /\ ActiveIsFrozen
        /\ history \in Seq(Row)
    BY DEF FInv, IInv, TypeOK, ProjectTypeOK
  <2> DEFINE n == Len(history)
  <2>2. n \in DOMAIN history /\ project.current = history[n].revision /\ G1Facts(history[n])
    BY <2>1 DEF LineIsSound, ActiveIsFrozen
  <2>3. AcceptanceFacts(history[n])
    BY <2>1, <2>2 DEF LineIsSound, AcceptanceFacts
  <2>4. ProjectionFacts(project.current)
    BY <2>2, <2>3 DEF ProjectionFacts, RowsOf
  <2>5. CandidateRefs
    BY <2>1 DEF CandidateRefs, SetRefsAreSound, CandidatesAreSound, Reviewed
  <2>6. QED  BY <2>4, <2>5
<1>2. QED  BY <1>1, FactsInvariance, PTL

\* No crash, late promotion or repair makes the design ref name a revision
\* that was not accepted, and an adoption leaves one only where it died.
THEOREM DesignRefIsSound == Spec => []DesignRefIsAccepted
<1>1. FInv => DesignRefIsAccepted
  <2> SUFFICES ASSUME FInv, refs["design"] # Nobody
               PROVE  IF project.mode = "registered" THEN crashes > 0 \/ ~Unlocked
                      ELSE RowsOf(refs["design"]) # {}
    BY DEF DesignRefIsAccepted
  <2>1. AdoptionIsAlone /\ PromotionsAreSound /\ project.mode \in {"registered", "managed"}
    BY DEF FInv, IInv, TypeOK, ProjectTypeOK, Projects
  <2>2. CASE project.mode = "registered"
    BY <2>1, <2>2 DEF AdoptionIsAlone, Unlocked
  <2>3. CASE project.mode = "managed"
    BY <2>1, <2>3 DEF PromotionsAreSound, Accepted, RowsOf
  <2>4. QED  BY <2>1, <2>2, <2>3
<1>2. QED  BY <1>1, FactsInvariance, PTL
===============================================================================
