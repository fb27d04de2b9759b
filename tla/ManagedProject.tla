---------------------------- MODULE ManagedProject ----------------------------
(***************************************************************************)
(* One project under management: its row in the database, the revisions it *)
(* went through, its requirement sets with gate G1, the refs of its bare   *)
(* repository, and the reconciler that repairs the design ref from the     *)
(* database.  The database is the authority; the refs are a projection of  *)
(* it that every operation writes outside the database's transactions.     *)
(*                                                                         *)
(* A client is one call of a service: it reads rows, reconciles, and       *)
(* writes in one transaction; each of these is an action of its own, and   *)
(* the client may die between any two.                                     *)
(***************************************************************************)
EXTENDS Naturals, Sequences

CONSTANTS
  Sets,        \* requirement sets
  Proposals,   \* change proposals, each the result of one command batch
  Contents,    \* trees that a source directory or an adapter run may hold
  Source,      \* the subject of the adopted revision
  Clients,     \* concurrent calls of the services
  Nobody,      \* the null of every reference
  MaxCrashes   \* bound: clients and workers that die

ASSUME ProjectAssumption ==
  /\ Nobody \notin Sets \union Proposals \union Contents \union {Source}
  /\ Source \notin Sets \union Proposals
  /\ Sets \intersect Proposals = {}
  /\ "design" \notin Sets \union Proposals
  /\ MaxCrashes \in Nat

VARIABLES
  project,    \* the project's row
  history,    \* the rows of its revisions, in the order of their insertion
  sets,       \* the rows of the requirement sets
  proposals,  \* the rows of the change proposals
  repo,       \* whether the bare repository exists
  refs,       \* design, and a candidate ref for every set and proposal
  client,     \* what each client is doing
  crashes     \* how many clients and workers died

database == <<project, history, sets, proposals>>
git      == <<repo, refs>>
projectVars == <<database, git, client, crashes>>

\* A commit is determined by its subject and its tree: parent, author and
\* time are taken from the subject's row.
Commit(subject, tree) == [subject |-> subject, tree |-> tree]

\* The files of a requirement set are rendered from its payload alone.
Rendered == Nobody
Revisions == [subject : Sets \union Proposals \union {Source}, tree : Contents \union {Rendered}]
MaybeRevision == Revisions \union {Nobody}

ASSUME RevisionAssumption == Nobody \notin Revisions

Projects ==
  [mode : {"registered", "managed"}, current : MaybeRevision, version : Nat,
   active : Sets \union {Nobody}]

\* set, proposal: what the revision was accepted for.
Row == [revision : Revisions, parent : MaybeRevision,
        set : Sets \union {Nobody}, proposal : Proposals \union {Nobody}]

SetRows ==
  [status : {"absent", "draft", "pending_approval", "frozen", "rejected", "superseded"},
   base : MaybeRevision, candidate : MaybeRevision, frozen : MaybeRevision]

ProposalRows ==
  [status : {"absent", "queued", "executing", "validation_failed", "ready_for_review",
             "accepted", "rejected", "stale"},
   base : MaybeRevision, set : Sets \union {Nobody}, candidate : MaybeRevision]

NewProject == [mode |-> "registered", current |-> Nobody, version |-> 1, active |-> Nobody]
NoSet      == [status |-> "absent", base |-> Nobody, candidate |-> Nobody, frozen |-> Nobody]
NoProposal == [status |-> "absent", base |-> Nobody, set |-> Nobody, candidate |-> Nobody]

Reconciling == {"list", "resolve", "repair"}
Operations ==
  {"none", "adopt", "startup", "import", "submit", "approve_g1", "reject_g1", "settle",
   "create", "accept", "reject"}

\* seen: the project's row as the call read it first; revision: the commit
\* the call is about; target, actual: what its reconciliation read.
Calls ==
  [op : Operations, at : {"idle", "init", "ref", "publish", "write", "promote"} \union Reconciling,
   subject : Sets \union Proposals \union {Nobody}, seen : Projects,
   revision : MaybeRevision, target : MaybeRevision, actual : MaybeRevision, fresh : BOOLEAN]

NoCall ==
  [op |-> "none", at |-> "idle", subject |-> Nobody, seen |-> NewProject,
   revision |-> Nobody, target |-> Nobody, actual |-> Nobody, fresh |-> FALSE]

CountCrash ==
  /\ crashes < MaxCrashes
  /\ crashes' = crashes + 1

ProjectTypeOK ==
  /\ project \in Projects
  /\ history \in Seq(Row)
  /\ sets \in [Sets -> SetRows]
  /\ proposals \in [Proposals -> ProposalRows]
  /\ repo \in BOOLEAN
  /\ refs \in [Sets \union Proposals \union {"design"} -> MaybeRevision]
  /\ client \in [Clients -> Calls]
  /\ crashes \in Nat

ProjectInit ==
  /\ project = NewProject
  /\ history = <<>>
  /\ sets = [s \in Sets |-> NoSet]
  /\ proposals = [p \in Proposals |-> NoProposal]
  /\ repo = FALSE
  /\ refs = [r \in Sets \union Proposals \union {"design"} |-> Nobody]
  /\ client = [c \in Clients |-> NoCall]
  /\ crashes = 0

-----------------------------------------------------------------------------
(* Calls.                                                                  *)

Op(c)      == client[c].op
At(c, place) == client[c].at = place
Subject(c) == client[c].subject
Seen(c)    == client[c].seen

Call(c, op, place, subject, revision) ==
  client' = [client EXCEPT ![c] = [NoCall EXCEPT !.op = op, !.at = place, !.subject = subject,
                                                 !.seen = project, !.revision = revision]]

MoveTo(c, place) == client' = [client EXCEPT ![c].at = place]
Return(c)        == client' = [client EXCEPT ![c] = NoCall]

\* git update-ref: nothing to do, a compare-and-swap, or an error.
Unchanged(ref, new)            == refs[ref] = new
Swappable(ref, new, expected)  == Unchanged(ref, new) \/ refs[ref] = expected
Swap(ref, new) == refs' = [refs EXCEPT ![ref] = new]

CrashCall(c) ==
  /\ ~At(c, "idle")
  /\ CountCrash
  /\ Return(c)
  /\ UNCHANGED <<database, git>>

-----------------------------------------------------------------------------
(* Adoption, one call at a time under the project's file lock.             *)

Unlocked == \A c \in Clients : Op(c) # "adopt"

\* The source directory may hold another tree each time.
StartAdopt(c) ==
  /\ At(c, "idle")
  /\ Unlocked
  /\ project.mode = "registered"
  /\ \E tree \in Contents : Call(c, "adopt", "init", Nobody, Commit(Source, tree))
  /\ UNCHANGED <<database, git, crashes>>

InitRepository(c) ==
  /\ At(c, "init")
  /\ repo' = TRUE
  /\ client' = [client EXCEPT ![c].at = "ref", ![c].fresh = ~repo]
  /\ UNCHANGED <<database, refs, crashes>>

\* Only a repository that this call created is removed again.
RemoveFresh(c) ==
  IF client[c].fresh
  THEN repo' = FALSE /\ Swap("design", Nobody)
  ELSE UNCHANGED git

CreateDesignRef(c) ==
  /\ At(c, "ref")
  /\ LET new == client[c].revision IN
     IF Swappable("design", new, Nobody)
     THEN Swap("design", new) /\ MoveTo(c, "write") /\ UNCHANGED repo
     ELSE RemoveFresh(c) /\ Return(c)
  /\ UNCHANGED <<database, crashes>>

\* The proof checkout, or the transaction, fails.
FailAdoption(c) ==
  /\ Op(c) = "adopt"
  /\ At(c, "write")
  /\ RemoveFresh(c)
  /\ Return(c)
  /\ UNCHANGED <<database, crashes>>

MarkManaged(c) ==
  /\ Op(c) = "adopt"
  /\ At(c, "write")
  /\ LET new == client[c].revision IN
     IF project.mode = "registered" /\ project.version = Seen(c).version
     THEN /\ project' = [project EXCEPT !.mode = "managed", !.current = new, !.version = @ + 1]
          /\ history' = Append(history, [revision |-> new, parent |-> Nobody,
                                         set |-> Nobody, proposal |-> Nobody])
     ELSE UNCHANGED <<project, history>>
  /\ Return(c)
  /\ UNCHANGED <<sets, proposals, git, crashes>>

-----------------------------------------------------------------------------
(* The reconciler.                                                         *)

RowsOf(revision) == {i \in DOMAIN history : history[i].revision = revision}

\* In a history without forks.
IsAncestor(old, new) == \E i \in RowsOf(old), j \in RowsOf(new) : i <= j

G1Facts(row) ==
  row.set # Nobody =>
    LET set == sets[row.set]
        expected == IF row.proposal = Nobody THEN row.revision ELSE proposals[row.proposal].base
    IN  /\ set.status = "frozen"
        /\ \/ set.frozen = expected
           \/ row.proposal # Nobody /\ IsAncestor(set.frozen, expected)

AcceptanceFacts(row) ==
  row.proposal # Nobody =>
    /\ proposals[row.proposal].status = "accepted"
    /\ proposals[row.proposal].candidate = row.revision

ProjectionFacts(revision) ==
  \E i \in RowsOf(revision) : G1Facts(history[i]) /\ AcceptanceFacts(history[i])

CandidateRefs ==
  /\ \A s \in Sets : sets[s].status = "pending_approval" => refs[s] = sets[s].candidate
  /\ \A p \in Proposals :
       proposals[p].status = "ready_for_review" => refs[p] = proposals[p].candidate

StartUp(c) ==
  /\ At(c, "idle")
  /\ project.mode = "managed"
  /\ Call(c, "startup", "list", Nobody, Nobody)
  /\ UNCHANGED <<database, git, crashes>>

Consistent == ProjectionFacts(project.current) /\ CandidateRefs

\* One step for the listing and the checks: a project that moves in between
\* fails the call, as a crash of the client does.
ListAndCheck(c) ==
  /\ At(c, "list")
  /\ IF Consistent
     THEN client' = [client EXCEPT ![c].at = "resolve", ![c].target = project.current]
     ELSE Return(c)
  /\ UNCHANGED <<database, git, crashes>>

\* What a call does once the project is in order.
Resume(c) ==
  IF Op(c) \in {"startup", "settle"} THEN Return(c)
  ELSE client' = [client EXCEPT ![c].at = IF Op(c) = "submit" THEN "publish" ELSE "write",
                                ![c].target = Nobody, ![c].actual = Nobody]

ResolveDesignRef(c) ==
  /\ At(c, "resolve")
  /\ IF refs["design"] = client[c].target
     THEN Resume(c)
     ELSE client' = [client EXCEPT ![c].at = "repair", ![c].actual = refs["design"]]
  /\ UNCHANGED <<database, git, crashes>>

\* Not so: only a missing ref is repaired.
RepairFrom_Missing(c) == Nobody

RepairFrom(c) == client[c].actual

RepairDesignRef(c) ==
  /\ At(c, "repair")
  /\ IF Swappable("design", client[c].target, RepairFrom(c))
     THEN Swap("design", client[c].target) /\ Resume(c)
     ELSE Return(c) /\ UNCHANGED refs
  /\ UNCHANGED <<database, repo, crashes>>

-----------------------------------------------------------------------------
(* Requirement sets and gate G1.                                           *)

StartImport(c, s) ==
  /\ At(c, "idle")
  /\ sets[s].status = "absent"
  /\ project.mode = "managed"
  /\ Call(c, "import", "list", s, Nobody)
  /\ UNCHANGED <<database, git, crashes>>

\* The draft is based on the revision read before the reconciliation.
CreateDraft(c) ==
  /\ Op(c) = "import"
  /\ At(c, "write")
  /\ sets' = IF sets[Subject(c)].status = "absent"
             THEN [sets EXCEPT ![Subject(c)] = [@ EXCEPT !.status = "draft", !.base = Seen(c).current]]
             ELSE sets
  /\ Return(c)
  /\ UNCHANGED <<project, history, proposals, git, crashes>>

StartSubmit(c, s) ==
  /\ At(c, "idle")
  /\ sets[s].status = "draft"
  /\ Call(c, "submit", "list", s, Commit(s, Rendered))
  /\ UNCHANGED <<database, git, crashes>>

\* Committed and published before the database knows of it.
PublishSetRef(c) ==
  /\ Op(c) = "submit"
  /\ At(c, "publish")
  /\ LET s == Subject(c) IN
     IF Seen(c).current = sets[s].base /\ Swappable(s, client[c].revision, Nobody)
     THEN Swap(s, client[c].revision) /\ MoveTo(c, "write")
     ELSE Return(c) /\ UNCHANGED refs
  /\ UNCHANGED <<database, repo, crashes>>

MarkSubmitted(c) ==
  /\ Op(c) = "submit"
  /\ At(c, "write")
  /\ sets' = IF sets[Subject(c)].status = "draft"
             THEN [sets EXCEPT ![Subject(c)].status = "pending_approval",
                               ![Subject(c)].candidate = client[c].revision]
             ELSE sets
  /\ Return(c)
  /\ UNCHANGED <<project, history, proposals, git, crashes>>

\* Only an approval goes through the reconciler.  A call about a set that is
\* no longer pending does nothing but that.
StartG1(c, s) ==
  /\ At(c, "idle")
  /\ sets[s].status = "pending_approval"
  /\ \/ Call(c, "approve_g1", "list", s, sets[s].candidate)
     \/ Call(c, "reject_g1", "write", s, sets[s].candidate)
  /\ UNCHANGED <<database, git, crashes>>

\* Not so: an approval moves the project from wherever it is.
Advances_Anywhere(c, base) == project.version >= Seen(c).version

\* The compare-and-swap of the project's row.
Advances(c, base) ==
  /\ project.current = base
  /\ project.version = Seen(c).version

Advance(revision, set) ==
  project' = [project EXCEPT !.current = revision, !.version = @ + 1, !.active = set]

\* The new set is frozen, and takes the place of the active one.
Superseding(s) ==
  [x \in Sets |->
     CASE x = s -> [sets[x] EXCEPT !.status = "frozen", !.frozen = sets[x].candidate]
       [] x = project.active /\ x # s -> [sets[x] EXCEPT !.status = "superseded"]
       [] OTHER -> sets[x]]

ApproveG1(c) ==
  /\ Op(c) = "approve_g1"
  /\ At(c, "write")
  /\ LET s == Subject(c)
         base == sets[s].base
     IN  IF sets[s].status = "pending_approval" /\ Advances(c, base)
         THEN /\ Advance(sets[s].candidate, s)
              /\ sets' = Superseding(s)
              /\ history' = Append(history, [revision |-> sets[s].candidate, parent |-> base,
                                             set |-> s, proposal |-> Nobody])
              /\ Call(c, "settle", "list", Nobody, Nobody)
         ELSE Return(c) /\ UNCHANGED <<project, history, sets>>
  /\ UNCHANGED <<proposals, git, crashes>>

RejectG1(c) ==
  /\ Op(c) = "reject_g1"
  /\ At(c, "write")
  /\ sets' = IF sets[Subject(c)].status = "pending_approval"
             THEN [sets EXCEPT ![Subject(c)].status = "rejected"]
             ELSE sets
  /\ Return(c)
  /\ UNCHANGED <<project, history, proposals, git, crashes>>

-----------------------------------------------------------------------------
ReconcilerStep(c) == ListAndCheck(c) \/ ResolveDesignRef(c) \/ RepairDesignRef(c)

ProjectStart(c) ==
  \/ StartAdopt(c) \/ StartUp(c)
  \/ \E s \in Sets : StartImport(c, s) \/ StartSubmit(c, s) \/ StartG1(c, s)

ProjectStep(c) ==
  \/ InitRepository(c) \/ CreateDesignRef(c) \/ MarkManaged(c)
  \/ ReconcilerStep(c)
  \/ CreateDraft(c) \/ PublishSetRef(c) \/ MarkSubmitted(c) \/ ApproveG1(c) \/ RejectG1(c)

ProjectNext ==
  \E c \in Clients : ProjectStart(c) \/ ProjectStep(c) \/ FailAdoption(c) \/ CrashCall(c)
=============================================================================
