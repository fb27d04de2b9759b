-------------------------- MODULE PcbCandidateProofs --------------------------
(***************************************************************************)
(* What PcbCandidate keeps for every number of release keys, workers and   *)
(* reviewers, and whatever lapsed leases, crashes, cancellations and       *)
(* reused keys there are.                                                  *)
(***************************************************************************)
EXTENDS PcbCandidate, TLAPS

Approved == {"g3_approved", "released"} \union Releasing
Exported == {"ready_for_g4", "released"}

\* What a gate let pass rests on the registered evidence, and names its
\* release.
RowIsSound(c, e) ==
  /\ c.status \in Approved => c.g3 # Nobody
  /\ c.g3 # Nobody => /\ c.status \in Approved \union {"cancelled"}
                      /\ c.g3 = c.digest /\ c.digest = e /\ e \in Clean
  /\ c.status = "ready_for_g3" => c.digest = e /\ e \in Clean
  /\ c.status \in Releasing \union {"released"} => c.release.task # Nobody
  /\ c.status \in Exported => c.release.manifest # Nobody
  /\ c.status = "released" => c.g4 # Nobody

\* A write of the row s.target over the row s.seen, by a slot s of its kind.
WriteIsSound(s) ==
  \/ /\ s.task = Gen /\ s.target \in DOMAIN Allowed
     /\ s.seen.status \in Allowed[s.target]
  \/ /\ s.task \in Keys /\ s.target = "ready_for_g4"
     /\ s.seen.status = "release_pending" /\ s.seen.release.task = s.task

\* Where a slot can be for its task, and what it is about to write.
SlotIsSound(s, e) ==
  /\ s.at = "idle" => s = IdleSlot
  /\ s.at # "idle" => s.task \in Tasks
  /\ s.at = "begin" \/ s.task = Gen => s.value \in Digests \union {Nobody}
  /\ s.at = "run" => s.task = Gen
  /\ s.at = "transition" => /\ s.task = Gen /\ s.target \in DOMAIN Allowed
                            /\ s.target = "ready_for_g3" => s.value = e /\ e \in Clean
  /\ s.at \in {"fetch", "export", "publish", "restore"} => s.task \in Keys
  /\ s.at = "publish" => s.value \in Manifests
  /\ s.at \in {"check", "revert"} => WriteIsSound(s)
  /\ RowIsSound(s.seen, e)

RowsAreSound == RowIsSound(cand, evidence) /\ \A r \in Reviewers : RowIsSound(review[r], evidence)
SlotsAreSound == \A w \in Workers : SlotIsSound(worker[w], evidence)

IInv == TypeOK /\ RowsAreSound /\ SlotsAreSound

\* Tokens: the holder of a task has the newest one, and no two slots share one.
TokensAreSound ==
  /\ \A t \in Tasks : state[t] = "held" => holder[t] = granted[t]
  /\ \A w \in Workers : worker[w].at # "idle" => worker[w].token <= granted[Task(w)]
  /\ \A v, w \in Workers :
       v # w /\ worker[v].at # "idle" /\ worker[w].at # "idle" /\ Task(v) = Task(w) =>
         worker[v].token # worker[w].token

\* Slots that wrote the row and may take it back.
Undoing(w) == worker[w].at \in {"check", "revert"}

\* Every write raises the version, so a slot's write is the last one as long
\* as the version is the slot's own.
WritesAreOrdered ==
  /\ cand.status = "absent" => cand.version = 0
  /\ \A w \in Workers : Undoing(w) /\ cand.status # "cancelled" =>
       /\ cand.version > worker[w].seen.version
       /\ cand.version = worker[w].seen.version + 1 => StillWritten(w)

\* A run of task t has written its result, or the task has ended with it.
Done(t) ==
  \/ state[t] = "succeeded"
  \/ \E v \in Workers :
       /\ Task(v) = t /\ Holds(v)
       /\ \/ worker[v].at = "succeed"
          \/ /\ worker[v].at = "check"
             /\ worker[v].target \in {"ready_for_g3", "blocked", "ready_for_g4"}

\* Nobody but the holder can still take it back.
NoUndo(t) ==
  \A w \in Workers : Undoing(w) /\ Task(w) = t /\ StillWritten(w) =>
    worker[w].at = "check" /\ Holds(w)

ResultsStay ==
  /\ Done(Gen) => cand.status \notin Generating \union {"absent"} /\ NoUndo(Gen)
  /\ \A k \in Keys : Done(k) =>
       /\ cand.status \in Exported \union {"cancelled"}
       /\ cand.status \in Exported => cand.release.task = k
       /\ NoUndo(k)

RInv == IInv /\ TokensAreSound /\ WritesAreOrdered /\ ResultsStay

-----------------------------------------------------------------------------
(* Steps, and what they leave alone.                                       *)

\* The kinds of step there are, each with who takes it.
LEMMA Steps ==
  ASSUME [Next]_vars
  PROVE  \/ UNCHANGED vars
         \/ Create
         \/ \E w \in Workers, t \in Tasks : Claim(w, t)
         \/ \E w \in Workers :
              \/ Begin(w) \/ Transition(w) \/ Check(w) \/ Revert(w) \/ MirrorRead(w)
              \/ MirrorWrite(w) \/ Generate(w) \/ Fetch(w) \/ Export(w) \/ MarkReadyForG4(w)
              \/ RestoreG3(w) \/ Settle(w) \/ Crash(w)
         \/ \E k \in Keys : EnqueueReleaseExport(k)
         \/ \E t \in Tasks : CancelTask(t)
         \/ \E r \in Reviewers : Review(r) \/ DecideG3(r) \/ DecideG4(r)
BY DEF Next, WorkerStep, ClaimStep

\* The row is written by five steps of a slot and five of others.
LEMMA RowSteps ==
  ASSUME [Next]_vars
  PROVE  \/ UNCHANGED cand
         \/ UNCHANGED evidence /\ \/ Create
                                  \/ \E k \in Keys : EnqueueReleaseExport(k)
                                  \/ \E t \in Tasks : CancelTask(t)
                                  \/ \E r \in Reviewers : DecideG3(r) \/ DecideG4(r)
                                  \/ \E w \in Workers :
                                       \/ Transition(w) \/ Revert(w) \/ MirrorWrite(w)
                                       \/ MarkReadyForG4(w) \/ RestoreG3(w)
<1>1. ASSUME NEW w \in Workers,
             \/ Begin(w) \/ Check(w) \/ MirrorRead(w) \/ Generate(w) \/ Fetch(w) \/ Export(w)
             \/ Settle(w) \/ Crash(w) \/ \E t \in Tasks : Claim(w, t)
      PROVE  UNCHANGED cand
  BY <1>1 DEF Begin, Check, MirrorRead, Generate, Fetch, Export, Settle, Crash, Claim
<1>2. ASSUME NEW w \in Workers,
             \/ Transition(w) \/ Revert(w) \/ MirrorWrite(w) \/ MarkReadyForG4(w) \/ RestoreG3(w)
      PROVE  UNCHANGED evidence
  BY <1>2 DEF Transition, Revert, MirrorWrite, MarkReadyForG4, RestoreG3
<1>3. ASSUME NEW r \in Reviewers, Review(r)
      PROVE  UNCHANGED cand
  BY <1>3 DEF Review
<1>4. ASSUME NEW r \in Reviewers, DecideG3(r) \/ DecideG4(r)
      PROVE  UNCHANGED evidence
  BY <1>4 DEF DecideG3, DecideG4
<1>5. /\ Create => UNCHANGED evidence
      /\ \A k \in Keys : EnqueueReleaseExport(k) => UNCHANGED evidence
      /\ \A t \in Tasks : CancelTask(t) => UNCHANGED evidence
  BY DEF Create, EnqueueReleaseExport, CancelTask
<1>6. CASE UNCHANGED vars
  BY <1>6 DEF vars
<1>7. QED  BY <1>1, <1>2, <1>3, <1>4, <1>5, <1>6, Steps

\* Evidence is registered once.
LEMMA EvidenceStays ==
  ASSUME TypeOK, [Next]_vars
  PROVE  /\ evidence' \in Digests \union {Nobody}
         /\ evidence # Nobody => evidence' = evidence
<1>1. evidence \in Digests \union {Nobody}
  BY DEF TypeOK
<1>2. ASSUME NEW w \in Workers, Generate(w)
      PROVE  /\ evidence' \in Digests \union {Nobody}
             /\ evidence # Nobody => evidence' = evidence
  BY <1>1, <1>2 DEF Generate, Registers
<1>3. ASSUME NEW w \in Workers,
             \/ Begin(w) \/ Transition(w) \/ Check(w) \/ Revert(w) \/ MirrorRead(w)
             \/ MirrorWrite(w) \/ Fetch(w) \/ Export(w) \/ MarkReadyForG4(w)
             \/ RestoreG3(w) \/ Settle(w) \/ Crash(w) \/ \E t \in Tasks : Claim(w, t)
      PROVE  UNCHANGED evidence
  BY <1>3 DEF Begin, Transition, Check, Revert, MirrorRead, MirrorWrite, Fetch, Export,
              MarkReadyForG4, RestoreG3, Settle, Crash, Claim
<1>4. ASSUME NEW r \in Reviewers, Review(r) \/ DecideG3(r) \/ DecideG4(r)
      PROVE  UNCHANGED evidence
  BY <1>4 DEF Review, DecideG3, DecideG4
<1>5. /\ Create => UNCHANGED evidence
      /\ \A k \in Keys : EnqueueReleaseExport(k) => UNCHANGED evidence
      /\ \A t \in Tasks : CancelTask(t) => UNCHANGED evidence
  BY DEF Create, EnqueueReleaseExport, CancelTask
<1>6. CASE UNCHANGED vars
  BY <1>1, <1>6 DEF vars
<1>7. QED  BY <1>1, <1>2, <1>3, <1>4, <1>5, <1>6, Steps

\* Evidence that is registered later takes nothing from a sound row.
LEMMA RowKept ==
  ASSUME NEW c, NEW e, NEW f, e # Nobody => f = e, RowIsSound(c, e)
  PROVE  RowIsSound(c, f)
BY CandidateAssumption DEF RowIsSound

\* Nor from a sound slot.
LEMMA SlotKept ==
  ASSUME NEW s, NEW e, NEW f, e # Nobody => f = e, SlotIsSound(s, e)
  PROVE  SlotIsSound(s, f)
<1>1. RowIsSound(s.seen, f)
  BY RowKept DEF SlotIsSound
<1>2. s.at = "transition" => /\ s.task = Gen /\ s.target \in DOMAIN Allowed
                             /\ s.target = "ready_for_g3" => s.value = f /\ f \in Clean
  BY CandidateAssumption DEF SlotIsSound
<1>3. QED  BY <1>1, <1>2 DEF SlotIsSound

\* A step spends at most one of its bounds.
LEMMA SpentSteps ==
  ASSUME [Next]_vars
  PROVE  UNCHANGED spent \/ \E event \in DOMAIN Limit : Spend(event)
<1>1. ASSUME NEW w \in Workers,
             \/ Begin(w) \/ Transition(w) \/ Check(w) \/ Revert(w) \/ MirrorRead(w)
             \/ MirrorWrite(w) \/ Generate(w) \/ Fetch(w) \/ MarkReadyForG4(w)
             \/ RestoreG3(w) \/ Settle(w)
      PROVE  UNCHANGED spent
  BY <1>1 DEF Begin, Transition, Check, Revert, MirrorRead, MirrorWrite, Generate, Fetch,
              MarkReadyForG4, RestoreG3, Settle
<1>2. ASSUME NEW r \in Reviewers, Review(r) \/ DecideG3(r) \/ DecideG4(r)
      PROVE  UNCHANGED spent \/ Spend("rejection")
  BY <1>2 DEF Review, DecideG3, DecideG4
<1>3. /\ Create => UNCHANGED spent
      /\ \A k \in Keys : EnqueueReleaseExport(k) => UNCHANGED spent \/ Spend("reuse")
      /\ \A t \in Tasks : CancelTask(t) => UNCHANGED spent
      /\ \A w \in Workers, t \in Tasks : Claim(w, t) => UNCHANGED spent \/ Spend("lapse")
      /\ \A w \in Workers : Crash(w) => Spend("crash")
      /\ \A w \in Workers : Export(w) => UNCHANGED spent \/ Spend("surprise")
  BY DEF Create, EnqueueReleaseExport, CancelTask, Claim, Crash, Export
<1>4. CASE UNCHANGED vars
  BY <1>4 DEF vars
<1>5. DOMAIN Limit = {"lapse", "crash", "surprise", "reuse", "rejection"}
  BY DEF Limit
<1>6. QED  BY <1>1, <1>2, <1>3, <1>4, <1>5, Steps

\* What the queue, the budget and the reviews are.
LEMMA RestOfTypes ==
  ASSUME TypeOK, [Next]_vars
  PROVE  /\ LifecycleTypeOK' /\ spent' \in [DOMAIN Limit -> Nat]
         /\ review' \in [Reviewers -> Candidates]
<1>1. /\ LifecycleTypeOK /\ spent \in [DOMAIN Limit -> Nat]
      /\ review \in [Reviewers -> Candidates] /\ cand \in Candidates
  BY DEF TypeOK
<1>2. NoCandidate \in Candidates
  BY DEF NoCandidate, Candidates, CandidateStatuses, NoRelease, Releases
<1>3. LifecycleTypeOK'
  <2>1. ASSUME NEW t \in Tasks, \/ Submit(t) \/ Grant(t) \/ Revoke(t)
                                \/ \E k, s : Surrender(t, k, s)
        PROVE  LifecycleTypeOK'
    BY <1>1, <2>1 DEF LifecycleTypeOK, States, Endings, Submit, Grant, Revoke, Surrender
  <2>2. CASE UNCHANGED queue
    BY <1>1, <2>2 DEF LifecycleTypeOK, queue
  <2>3. \/ UNCHANGED queue
        \/ \E t \in Tasks : Submit(t) \/ Grant(t) \/ Revoke(t)
        \/ \E w \in Workers : Settle(w)
    <3>1. ASSUME NEW w \in Workers,
                 \/ Begin(w) \/ Transition(w) \/ Check(w) \/ Revert(w) \/ MirrorRead(w)
                 \/ MirrorWrite(w) \/ Generate(w) \/ Fetch(w) \/ Export(w) \/ MarkReadyForG4(w)
                 \/ RestoreG3(w) \/ Crash(w)
          PROVE  UNCHANGED queue
      BY <3>1 DEF Begin, Transition, Check, Revert, MirrorRead, MirrorWrite, Generate, Fetch,
                  Export, MarkReadyForG4, RestoreG3, Crash
    <3>2. ASSUME NEW r \in Reviewers, Review(r) \/ DecideG3(r) \/ DecideG4(r)
          PROVE  UNCHANGED queue
      BY <3>2 DEF Review, DecideG3, DecideG4
    <3>3. /\ Create => Submit(Gen)
          /\ \A k \in Keys : EnqueueReleaseExport(k) => Submit(k) \/ UNCHANGED queue
          /\ \A t \in Tasks : CancelTask(t) => Revoke(t) \/ UNCHANGED queue
          /\ \A w \in Workers, t \in Tasks : Claim(w, t) => Grant(t)
      BY DEF Create, EnqueueReleaseExport, CancelTask, Claim
    <3>4. CASE UNCHANGED vars
      BY <3>4 DEF vars
    <3>5. QED  BY <3>1, <3>2, <3>3, <3>4, Steps, CandidateAssumption DEF Keys
  <2>4. ASSUME NEW w \in Workers, Settle(w)
        PROVE  LifecycleTypeOK'
    <3>1. UNCHANGED queue \/ \E k, s : Surrender(Task(w), k, s)
      BY <2>4 DEF Settle
    <3>2. ASSUME NEW k, NEW s, Surrender(Task(w), k, s)
          PROVE  LifecycleTypeOK'
      BY <1>1, <3>2 DEF LifecycleTypeOK, States, Endings, Surrender
    <3>3. QED  BY <2>2, <3>1, <3>2
  <2>5. QED  BY <2>1, <2>2, <2>3, <2>4
<1>4. spent' \in [DOMAIN Limit -> Nat]
  <2>1. UNCHANGED spent \/ \E event \in DOMAIN Limit : Spend(event)
    BY SpentSteps
  <2>2. ASSUME NEW event \in DOMAIN Limit, Spend(event)
        PROVE  spent' \in [DOMAIN Limit -> Nat]
    BY <1>1, <2>2 DEF Spend
  <2>3. QED  BY <1>1, <2>1, <2>2
<1>5. review' \in [Reviewers -> Candidates]
  <2>1. ASSUME NEW r \in Reviewers, Review(r) \/ DecideG3(r) \/ DecideG4(r)
        PROVE  review' \in [Reviewers -> Candidates]
    BY <1>1, <1>2, <2>1 DEF Review, DecideG3, DecideG4
  <2>2. ASSUME NEW w \in Workers,
               \/ Begin(w) \/ Transition(w) \/ Check(w) \/ Revert(w) \/ MirrorRead(w)
               \/ MirrorWrite(w) \/ Generate(w) \/ Fetch(w) \/ Export(w) \/ MarkReadyForG4(w)
               \/ RestoreG3(w) \/ Settle(w) \/ Crash(w) \/ \E t \in Tasks : Claim(w, t)
        PROVE  UNCHANGED review
    BY <2>2 DEF Begin, Transition, Check, Revert, MirrorRead, MirrorWrite, Generate, Fetch,
                Export, MarkReadyForG4, RestoreG3, Settle, Crash, Claim
  <2>3. /\ Create => UNCHANGED review
        /\ \A k \in Keys : EnqueueReleaseExport(k) => UNCHANGED review
        /\ \A t \in Tasks : CancelTask(t) => UNCHANGED review
    BY DEF Create, EnqueueReleaseExport, CancelTask
  <2>4. CASE UNCHANGED vars
    BY <1>1, <2>4 DEF vars
  <2>5. QED  BY <1>1, <2>1, <2>2, <2>3, <2>4, Steps
<1>6. QED  BY <1>3, <1>4, <1>5

-----------------------------------------------------------------------------
(* Rows, field by field.                                                   *)

Row(st, v, d, a, m, r) ==
  [status |-> st, version |-> v, digest |-> d, g3 |-> a, g4 |-> m, release |-> r]
ReleaseOf(t, m, st) == [task |-> t, manifest |-> m, status |-> st]

ReleaseStatuses == {"none", "pending", "failed", "cancelled", "ready_for_g4", "released"}

\* A release is its three fields.
LEMMA ReleaseFields ==
  ASSUME NEW r \in Releases
  PROVE  /\ r = ReleaseOf(r.task, r.manifest, r.status)
         /\ r.task \in Keys \union {Nobody} /\ r.manifest \in Manifests \union {Nobody}
         /\ r.status \in ReleaseStatuses
BY DEF Releases, ReleaseOf, ReleaseStatuses

\* A row is its six fields.
LEMMA RowFields ==
  ASSUME NEW c \in Candidates
  PROVE  /\ c = Row(c.status, c.version, c.digest, c.g3, c.g4, c.release)
         /\ c.status \in CandidateStatuses /\ c.version \in Nat
         /\ c.digest \in Digests \union {Nobody} /\ c.g3 \in Digests \union {Nobody}
         /\ c.g4 \in Manifests \union {Nobody} /\ c.release \in Releases
BY DEF Candidates, Row

\* A row of typed fields is a typed row.
LEMMA RowIsCandidate ==
  ASSUME NEW st \in CandidateStatuses, NEW v \in Nat, NEW d \in Digests \union {Nobody},
         NEW a \in Digests \union {Nobody}, NEW m \in Manifests \union {Nobody},
         NEW r \in Releases
  PROVE  Row(st, v, d, a, m, r) \in Candidates
BY DEF Row, Candidates

\* A release of typed fields is a typed release.
LEMMA ReleaseIsRelease ==
  ASSUME NEW t \in Keys \union {Nobody}, NEW n \in Manifests \union {Nobody},
         NEW rs \in ReleaseStatuses
  PROVE  ReleaseOf(t, n, rs) \in Releases
BY DEF ReleaseOf, Releases, ReleaseStatuses

\* The updates of a release, written out.
LEMMA ReleaseUpdates ==
  ASSUME NEW r \in Releases, NEW n, NEW rs
  PROVE  /\ [r EXCEPT !.status = rs] = ReleaseOf(r.task, r.manifest, rs)
         /\ [r EXCEPT !.status = rs, !.manifest = n] = ReleaseOf(r.task, n, rs)
<1>1. ASSUME NEW y, y = [r EXCEPT !.status = rs]
      PROVE  y = ReleaseOf(r.task, r.manifest, rs)
  BY <1>1 DEF Releases, ReleaseOf
<1>2. ASSUME NEW y, y = [r EXCEPT !.status = rs, !.manifest = n]
      PROVE  y = ReleaseOf(r.task, n, rs)
  BY <1>2 DEF Releases, ReleaseOf
<1>3. QED  BY <1>1, <1>2
-----------------------------------------------------------------------------
(* The candidate's row.                                                    *)

\* A slot writes what the gates may trust, and takes back to what they did.
LEMMA SlotsWriteSoundRows ==
  ASSUME IInv, NEW w \in Workers,
         \/ Transition(w) \/ Revert(w) \/ MirrorWrite(w) \/ MarkReadyForG4(w) \/ RestoreG3(w)
  PROVE  cand' \in Candidates /\ RowIsSound(cand', evidence)
<1> DEFINE s == worker[w]
<1>1. /\ cand \in Candidates /\ RowIsSound(cand, evidence) /\ evidence \in Digests \union {Nobody}
      /\ s \in Slots /\ SlotIsSound(s, evidence)
  BY DEF IInv, TypeOK, RowsAreSound, SlotsAreSound
<1>2. s.seen \in Candidates /\ RowIsSound(s.seen, evidence)
  BY <1>1 DEF Slots, SlotIsSound
<1>3. /\ "ready_for_g3" \in CandidateStatuses /\ DOMAIN Allowed \subseteq CandidateStatuses
      /\ "ready_for_g4" \in CandidateStatuses /\ "g3_approved" \in CandidateStatuses
      /\ "cancelled" \in CandidateStatuses
  BY DEF CandidateStatuses, Allowed, Releasing, Final
<1>4. DOMAIN Allowed = {"executing", "ready_for_g3", "blocked", "validation_failed"}
  BY DEF Allowed
<1> DEFINE rel == cand.release
<1>5. /\ cand.version + 1 \in Nat /\ cand.digest \in Digests \union {Nobody}
       /\ cand.g3 \in Digests \union {Nobody} /\ cand.g4 \in Manifests \union {Nobody}
       /\ rel \in Releases /\ rel.task \in Keys \union {Nobody}
       /\ rel.manifest \in Manifests \union {Nobody}
  BY <1>1, RowFields, ReleaseFields
<1>6. CASE UNCHANGED cand
  BY <1>1, <1>6
<1>7. CASE Transition(w)
  <2>1. UNCHANGED cand \/ (s.at = "transition" /\ cand' = Written(w))
    BY <1>7 DEF Transition
  <2>2. ASSUME s.at = "transition", cand' = Written(w)
        PROVE  cand' \in Candidates /\ RowIsSound(cand', evidence)
    <3>1. /\ s.target \in DOMAIN Allowed /\ s.value \in Digests \union {Nobody}
          /\ s.target = "ready_for_g3" => s.value = evidence /\ evidence \in Clean
      BY <1>1, <2>2 DEF SlotIsSound
    <3>2. NoRelease \in Releases
      BY DEF NoRelease, Releases
    <3>3. /\ cand'.status = s.target /\ cand'.version = cand.version + 1 /\ cand'.digest = s.value
          /\ cand'.g3 = Nobody /\ cand'.g4 = Nobody /\ cand'.release = NoRelease
          /\ cand' = [status |-> s.target, version |-> cand.version + 1, digest |-> s.value,
                      g3 |-> Nobody, g4 |-> Nobody, release |-> NoRelease]
      BY <1>1, <2>2 DEF Written, Candidates
    <3>4. cand' \in Candidates
      BY <1>1, <1>3, <3>1, <3>2, <3>3 DEF Candidates
    <3>5. RowIsSound(cand', evidence)
      BY <1>4, <3>1, <3>3 DEF RowIsSound, Approved, Releasing, Exported
    <3>6. QED  BY <3>4, <3>5
  <2>3. QED  BY <1>6, <2>1, <2>2
<1>8. CASE Revert(w)
  <2>1. UNCHANGED cand \/ cand' = [s.seen EXCEPT !.version = @ + 2]
    BY <1>8 DEF Revert
  <2>2. ASSUME cand' = [s.seen EXCEPT !.version = @ + 2]
        PROVE  cand' \in Candidates /\ RowIsSound(cand', evidence)
    BY <1>2, <2>2 DEF Candidates, RowIsSound
  <2>3. QED  BY <1>6, <2>1, <2>2
<1>9. CASE MirrorWrite(w)
  <2> DEFINE row == IF s.seen.release.task = Task(w)
                    THEN [s.seen EXCEPT !.release = CancelledRelease(Task(w))] ELSE cand
  <2>1. cand' = [row EXCEPT !.status = "cancelled", !.version = s.seen.version + 1]
    BY <1>9 DEF MirrorWrite
  <2>2. row \in Candidates /\ (row.g3 # Nobody => row.g3 = row.digest /\ row.digest = evidence
                                                  /\ evidence \in Clean)
    <3>1. CASE s.seen.release.task = Task(w)
      <4>1. CancelledRelease(Task(w)) \in Releases
        BY <1>2, <3>1 DEF CancelledRelease, Releases, Candidates
      <4>2. QED  BY <1>2, <3>1, <4>1 DEF Candidates, RowIsSound
    <3>2. CASE s.seen.release.task # Task(w)
      BY <1>1, <3>2 DEF RowIsSound
    <3>3. QED  BY <3>1, <3>2
  <2>3. s.seen.version + 1 \in Nat
    BY <1>2 DEF Candidates
  <2> HIDE DEF row
  <2>4. cand' \in Candidates
    BY <1>3, <2>1, <2>2, <2>3 DEF Candidates
  <2>5. RowIsSound(cand', evidence)
    BY <2>1, <2>2 DEF RowIsSound, Candidates, Approved, Releasing, Exported
  <2>6. QED  BY <2>4, <2>5
<1>10. CASE MarkReadyForG4(w)
  <2>1. \/ UNCHANGED cand
        \/ /\ s.at = "publish" /\ Reserved(Task(w))
           /\ cand' = [cand EXCEPT !.status = "ready_for_g4", !.version = @ + 1,
                                   !.release.status = "ready_for_g4", !.release.manifest = s.value]
    BY <1>10 DEF MarkReadyForG4
  <2>2. ASSUME s.at = "publish", Reserved(Task(w)),
               cand' = [cand EXCEPT !.status = "ready_for_g4", !.version = @ + 1,
                                    !.release.status = "ready_for_g4", !.release.manifest = s.value]
        PROVE  cand' \in Candidates /\ RowIsSound(cand', evidence)
    <3>1. s.value \in Manifests /\ s.value # Nobody
      BY <1>1, <2>2, CandidateAssumption DEF SlotIsSound
    <3>2. cand' = Row("ready_for_g4", cand.version + 1, cand.digest, cand.g3, cand.g4,
                      ReleaseOf(rel.task, s.value, "ready_for_g4"))
      <4>1. cand' = Row("ready_for_g4", cand.version + 1, cand.digest, cand.g3, cand.g4,
                        [rel EXCEPT !.status = "ready_for_g4", !.manifest = s.value])
        BY <1>1, <2>2 DEF Candidates, Row
      <4>2. ASSUME NEW y, y = [rel EXCEPT !.status = "ready_for_g4", !.manifest = s.value]
            PROVE  y = ReleaseOf(rel.task, s.value, "ready_for_g4")
        BY <1>5, <4>2 DEF Releases, ReleaseOf
      <4>3. QED  BY <4>1, <4>2
    <3>3. ReleaseOf(rel.task, s.value, "ready_for_g4") \in Releases
      BY <1>5, <3>1, ReleaseIsRelease DEF ReleaseStatuses
    <3>4. cand' \in Candidates
      BY <1>3, <1>5, <3>2, <3>3, RowIsCandidate
    <3>5. /\ cand'.status = "ready_for_g4" /\ cand'.g3 = cand.g3 /\ cand'.digest = cand.digest
          /\ cand'.release.task = cand.release.task /\ cand'.release.manifest = s.value
      BY <3>2 DEF Row, ReleaseOf
    <3>6. RowIsSound(cand', evidence)
      BY <1>1, <2>2, <3>1, <3>5 DEF RowIsSound, Approved, Releasing, Exported, Reserved
    <3>7. QED  BY <3>6, <3>4
  <2>3. QED  BY <1>6, <2>1, <2>2
<1>11. CASE RestoreG3(w)
  <2>1. \/ UNCHANGED cand
        \/ /\ Reserved(Task(w))
           /\ cand' = [cand EXCEPT !.status = "g3_approved", !.version = @ + 1,
                                   !.release.status = "failed"]
    BY <1>11 DEF RestoreG3
  <2>2. ASSUME Reserved(Task(w)),
               cand' = [cand EXCEPT !.status = "g3_approved", !.version = @ + 1,
                                    !.release.status = "failed"]
        PROVE  cand' \in Candidates /\ RowIsSound(cand', evidence)
    <3>1. cand' = Row("g3_approved", cand.version + 1, cand.digest, cand.g3, cand.g4,
                      ReleaseOf(rel.task, rel.manifest, "failed"))
      <4>1. cand' = Row("g3_approved", cand.version + 1, cand.digest, cand.g3, cand.g4,
                        [rel EXCEPT !.status = "failed"])
        BY <1>1, <2>2 DEF Candidates, Row
      <4>2. QED  BY <1>5, <4>1, ReleaseUpdates
    <3>2. cand' \in Candidates
      <4>1. ReleaseOf(rel.task, rel.manifest, "failed") \in Releases
        BY <1>5, ReleaseIsRelease DEF ReleaseStatuses
      <4>2. QED  BY <1>3, <1>5, <3>1, <4>1, RowIsCandidate
    <3>3. cand'.status = "g3_approved" /\ cand'.g3 = cand.g3 /\ cand'.digest = cand.digest
      BY <3>1 DEF Row
    <3>4. RowIsSound(cand', evidence)
      BY <1>1, <2>2, <3>3 DEF RowIsSound, Approved, Releasing, Exported, Reserved
    <3>5. QED  BY <3>2, <3>4
  <2>3. QED  BY <1>6, <2>1, <2>2
<1>12. QED  BY <1>7, <1>8, <1>9, <1>10, <1>11

\* A client or a reviewer moves it on from what it is.
LEMMA OthersWriteSoundRows ==
  ASSUME IInv,
         \/ Create
         \/ \E k \in Keys : EnqueueReleaseExport(k)
         \/ \E t \in Tasks : CancelTask(t)
         \/ \E r \in Reviewers : DecideG3(r) \/ DecideG4(r)
  PROVE  cand' \in Candidates /\ RowIsSound(cand', evidence)
<1>1. cand \in Candidates /\ RowIsSound(cand, evidence)
  BY DEF IInv, TypeOK, RowsAreSound
<1>2. {"queued", "release_pending", "cancelled", "g3_approved", "validation_failed", "released"}
        \subseteq CandidateStatuses
  BY DEF CandidateStatuses, Allowed, Generating, Releasing, Final
<1> DEFINE rel == cand.release
           up == cand.version + 1
<1>3. /\ up \in Nat /\ cand.digest \in Digests \union {Nobody}
       /\ cand.g3 \in Digests \union {Nobody} /\ cand.g4 \in Manifests \union {Nobody}
       /\ rel \in Releases /\ rel.task \in Keys \union {Nobody}
       /\ rel.manifest \in Manifests \union {Nobody}
  BY <1>1, RowFields, ReleaseFields
<1>4. CASE UNCHANGED cand
  BY <1>1, <1>4
<1>5. CASE Create
  <2>1. cand.status = "absent" /\ cand' = [cand EXCEPT !.status = "queued", !.version = 1]
    BY <1>5 DEF Create
  <2>2. QED  BY <1>1, <1>2, <2>1 DEF Candidates, RowIsSound, Approved, Releasing, Exported
<1>6. ASSUME NEW k \in Keys, EnqueueReleaseExport(k)
      PROVE  cand' \in Candidates /\ RowIsSound(cand', evidence)
  <2> DEFINE new == [task |-> k, status |-> "pending", manifest |-> Nobody]
  <2>1. /\ cand.g3 # Nobody
        /\ cand' = [cand EXCEPT !.status = "release_pending", !.version = @ + 1, !.release = new]
    BY <1>6 DEF EnqueueReleaseExport, MayExport
  <2>2. new \in Releases /\ new.task # Nobody
    BY CandidateAssumption DEF Releases, Keys
  <2> HIDE DEF new
  <2>3. cand' = Row("release_pending", up, cand.digest, cand.g3, cand.g4, new)
    BY <1>1, <2>1 DEF Candidates, Row
  <2>4. cand' \in Candidates
    BY <1>2, <1>3, <2>2, <2>3, RowIsCandidate
  <2>5. /\ cand'.status = "release_pending" /\ cand'.g3 = cand.g3 /\ cand'.digest = cand.digest
        /\ cand'.release.task # Nobody
    BY <2>2, <2>3 DEF Row
  <2>6. RowIsSound(cand', evidence)
    BY <1>1, <2>1, <2>5 DEF RowIsSound, Approved, Releasing, Exported
  <2>7. QED  BY <2>4, <2>6
<1>7. ASSUME NEW t \in Tasks, CancelTask(t)
      PROVE  cand' \in Candidates /\ RowIsSound(cand', evidence)
  <2>1. \/ UNCHANGED cand
        \/ cand' = [cand EXCEPT !.status = "cancelled", !.version = @ + 1]
        \/ /\ cand.release.task = t
           /\ cand' = [cand EXCEPT !.status = "cancelled", !.version = @ + 1,
                                   !.release = CancelledRelease(t)]
    BY <1>7 DEF CancelTask, MirroredInCancel
  <2>2. CASE cand' = [cand EXCEPT !.status = "cancelled", !.version = @ + 1]
    <3>1. cand' = Row("cancelled", up, cand.digest, cand.g3, cand.g4, rel)
      BY <1>1, <2>2 DEF Candidates, Row
    <3>2. cand' \in Candidates
      BY <1>2, <1>3, <3>1, RowIsCandidate
    <3>3. cand'.status = "cancelled" /\ cand'.g3 = cand.g3 /\ cand'.digest = cand.digest
      BY <3>1 DEF Row
    <3>4. QED  BY <1>1, <3>2, <3>3 DEF RowIsSound, Approved, Releasing, Exported
  <2>3. CASE /\ cand.release.task = t
             /\ cand' = [cand EXCEPT !.status = "cancelled", !.version = @ + 1,
                                     !.release = CancelledRelease(t)]
    <3>1. CancelledRelease(t) \in Releases
      BY <1>3, <2>3 DEF Releases, CancelledRelease
    <3>2. cand' = Row("cancelled", up, cand.digest, cand.g3, cand.g4, CancelledRelease(t))
      BY <1>1, <2>3 DEF Candidates, Row
    <3>3. cand' \in Candidates
      BY <1>2, <1>3, <3>1, <3>2, RowIsCandidate
    <3>4. cand'.status = "cancelled" /\ cand'.g3 = cand.g3 /\ cand'.digest = cand.digest
      BY <3>2 DEF Row
    <3>5. QED  BY <1>1, <3>3, <3>4 DEF RowIsSound, Approved, Releasing, Exported
  <2>4. QED  BY <1>4, <2>1, <2>2, <2>3
<1>8. ASSUME NEW r \in Reviewers, DecideG3(r)
      PROVE  cand' \in Candidates /\ RowIsSound(cand', evidence)
  <2>1. \/ UNCHANGED cand
        \/ /\ cand.status = "ready_for_g3"
           /\ \/ cand' = [cand EXCEPT !.status = "g3_approved", !.version = @ + 1,
                                      !.g3 = cand.digest]
              \/ cand' = [cand EXCEPT !.status = "validation_failed", !.version = @ + 1]
    BY <1>8 DEF DecideG3, G3Decidable
  <2>2. CASE /\ cand.status = "ready_for_g3"
             /\ cand' = [cand EXCEPT !.status = "g3_approved", !.version = @ + 1,
                                     !.g3 = cand.digest]
    <3>1. cand' = Row("g3_approved", up, cand.digest, cand.digest, cand.g4, rel)
      BY <1>1, <2>2 DEF Candidates, Row
    <3>2. cand' \in Candidates
      BY <1>2, <1>3, <3>1, RowIsCandidate
    <3>3. cand'.status = "g3_approved" /\ cand'.g3 = cand.digest /\ cand'.digest = cand.digest
      BY <3>1 DEF Row
    <3>4. cand.digest = evidence /\ evidence \in Clean /\ evidence # Nobody
      BY <1>1, <2>2, CandidateAssumption DEF RowIsSound
    <3>5. QED  BY <3>2, <3>3, <3>4 DEF RowIsSound, Approved, Releasing, Exported
  <2>3. CASE /\ cand.status = "ready_for_g3"
             /\ cand' = [cand EXCEPT !.status = "validation_failed", !.version = @ + 1]
    <3>1. cand' = Row("validation_failed", up, cand.digest, cand.g3, cand.g4, rel)
      BY <1>1, <2>3 DEF Candidates, Row
    <3>2. cand' \in Candidates
      BY <1>2, <1>3, <3>1, RowIsCandidate
    <3>3. cand'.status = "validation_failed" /\ cand'.g3 = cand.g3
      BY <3>1 DEF Row
    <3>4. cand.g3 = Nobody
      BY <1>1, <2>3 DEF RowIsSound, Approved, Releasing
    <3>5. QED  BY <3>2, <3>3, <3>4 DEF RowIsSound, Approved, Releasing, Exported
  <2>4. QED  BY <1>4, <2>1, <2>2, <2>3
<1>9. ASSUME NEW r \in Reviewers, DecideG4(r)
      PROVE  cand' \in Candidates /\ RowIsSound(cand', evidence)
  <2> DEFINE m == review[r].release.manifest
  <2>1. \/ UNCHANGED cand
        \/ /\ cand.status = "ready_for_g4"
           /\ \/ cand' = [cand EXCEPT !.status = "released", !.version = @ + 1,
                                      !.g4 = m, !.release.status = "released"]
              \/ cand' = [cand EXCEPT !.version = @ + 1, !.g4 = m]
    BY <1>9 DEF DecideG4, G4Decidable
  <2>2. m \in Manifests /\ m # Nobody
    <3>1. review[r] \in Candidates /\ RowIsSound(review[r], evidence)
      BY DEF IInv, TypeOK, RowsAreSound
    <3>2. review[r].status = "ready_for_g4"
      BY <1>9 DEF DecideG4
    <3>3. QED  BY <3>1, <3>2 DEF RowIsSound, Exported, Candidates, Releases
  <2> HIDE DEF m
  <2>3. CASE /\ cand.status = "ready_for_g4"
             /\ cand' = [cand EXCEPT !.status = "released", !.version = @ + 1,
                                     !.g4 = m, !.release.status = "released"]
    <3>1. cand' = Row("released", up, cand.digest, cand.g3, m,
                      ReleaseOf(rel.task, rel.manifest, "released"))
      <4>1. cand' = Row("released", up, cand.digest, cand.g3, m,
                        [rel EXCEPT !.status = "released"])
        BY <1>1, <2>3 DEF Candidates, Row
      <4>2. QED  BY <1>3, <4>1, ReleaseUpdates
    <3>2. cand' \in Candidates
      <4>1. ReleaseOf(rel.task, rel.manifest, "released") \in Releases
        BY <1>3, ReleaseIsRelease DEF ReleaseStatuses
      <4>2. QED  BY <1>2, <1>3, <2>2, <3>1, <4>1, RowIsCandidate
    <3>3. /\ cand'.status = "released" /\ cand'.g3 = cand.g3 /\ cand'.digest = cand.digest
          /\ cand'.g4 = m /\ cand'.release.task = cand.release.task
          /\ cand'.release.manifest = cand.release.manifest
      BY <3>1 DEF Row, ReleaseOf
    <3>4. RowIsSound(cand', evidence)
      BY <1>1, <2>2, <2>3, <3>3 DEF RowIsSound, Approved, Releasing, Exported
    <3>5. QED  BY <3>2, <3>4
  <2>4. CASE /\ cand.status = "ready_for_g4"
             /\ cand' = [cand EXCEPT !.version = @ + 1, !.g4 = m]
    <3>1. cand' = Row(cand.status, up, cand.digest, cand.g3, m, rel)
      BY <1>1, <2>4 DEF Candidates, Row
    <3>2. cand' \in Candidates
      BY <1>2, <1>3, <2>2, <3>1, RowIsCandidate, RowFields, <1>1
    <3>3. /\ cand'.status = cand.status /\ cand'.g3 = cand.g3 /\ cand'.digest = cand.digest
          /\ cand'.g4 = m /\ cand'.release = rel
      BY <3>1 DEF Row
    <3>4. QED  BY <1>1, <2>2, <3>2, <3>3 DEF RowIsSound, Approved, Releasing, Exported
  <2>5. QED  BY <1>4, <2>1, <2>3, <2>4
<1>10. QED  BY <1>5, <1>6, <1>7, <1>8, <1>9

\* The row stays typed and sound in every step.
LEMMA RowStep ==
  ASSUME IInv, [Next]_vars
  PROVE  cand' \in Candidates /\ RowIsSound(cand', evidence')
<1>1. CASE UNCHANGED cand
  <2>1. TypeOK /\ cand \in Candidates /\ RowIsSound(cand, evidence)
    BY DEF IInv, TypeOK, RowsAreSound
  <2>2. RowIsSound(cand, evidence')
    BY <2>1, EvidenceStays, RowKept
  <2>3. QED  BY <1>1, <2>1, <2>2
<1>2. QED  BY <1>1, RowSteps, SlotsWriteSoundRows, OthersWriteSoundRows

\* What a reviewer has read stays as sound as it was.
LEMMA ReviewStep ==
  ASSUME IInv, [Next]_vars, NEW r \in Reviewers
  PROVE  RowIsSound(review'[r], evidence')
<1>1. /\ TypeOK /\ RowIsSound(cand, evidence) /\ RowIsSound(review[r], evidence)
      /\ review \in [Reviewers -> Candidates]
  BY DEF IInv, TypeOK, RowsAreSound
<1>2. RowIsSound(NoCandidate, evidence)
  BY DEF RowIsSound, NoCandidate, NoRelease, Approved, Releasing, Exported
<1>3. review'[r] \in {review[r], cand, NoCandidate}
  <2>1. ASSUME NEW q \in Reviewers, Review(q) \/ DecideG3(q) \/ DecideG4(q)
        PROVE  review'[r] \in {review[r], cand, NoCandidate}
    BY <1>1, <2>1 DEF Review, DecideG3, DecideG4
  <2>2. ASSUME NEW w \in Workers,
               \/ Begin(w) \/ Transition(w) \/ Check(w) \/ Revert(w) \/ MirrorRead(w)
               \/ MirrorWrite(w) \/ Generate(w) \/ Fetch(w) \/ Export(w) \/ MarkReadyForG4(w)
               \/ RestoreG3(w) \/ Settle(w) \/ Crash(w) \/ \E t \in Tasks : Claim(w, t)
        PROVE  UNCHANGED review
    BY <2>2 DEF Begin, Transition, Check, Revert, MirrorRead, MirrorWrite, Generate, Fetch,
                Export, MarkReadyForG4, RestoreG3, Settle, Crash, Claim
  <2>3. /\ Create => UNCHANGED review
        /\ \A k \in Keys : EnqueueReleaseExport(k) => UNCHANGED review
        /\ \A t \in Tasks : CancelTask(t) => UNCHANGED review
    BY DEF Create, EnqueueReleaseExport, CancelTask
  <2>4. CASE UNCHANGED vars
    BY <2>4 DEF vars
  <2>5. QED  BY <2>1, <2>2, <2>3, <2>4, Steps
<1>4. QED  BY <1>1, <1>2, <1>3, EvidenceStays, RowKept


-----------------------------------------------------------------------------
(* The slots.                                                              *)

Slot(a, t, k, g, v, c) ==
  [at |-> a, task |-> t, token |-> k, target |-> g, value |-> v, seen |-> c]

\* The step leaves w where it may be.
Lands(w) == \E y \in Slots : SlotIsSound(y, evidence') /\ worker' = [worker EXCEPT ![w] = y]

\* The fields of a slot are typed.
LEMMA SlotFields ==
  ASSUME NEW s \in Slots
  PROVE  /\ s.at \in Places /\ s.task \in Tasks \union {Nobody} /\ s.token \in Nat
         /\ s.target \in CandidateStatuses /\ s.value \in Digests \union Manifests \union {Nobody}
         /\ s.seen \in Candidates
BY DEF Slots

\* A slot of typed fields is a typed slot.
LEMMA SlotIsSlot ==
  ASSUME NEW a \in Places, NEW t \in Tasks \union {Nobody}, NEW k \in Nat,
         NEW g \in CandidateStatuses, NEW v \in Digests \union Manifests \union {Nobody},
         NEW c \in Candidates
  PROVE  Slot(a, t, k, g, v, c) \in Slots
BY DEF Slots, Slot

\* What the workers of the generation task may write.
LEMMA Statuses ==
  /\ DOMAIN Allowed = {"executing", "ready_for_g3", "blocked", "validation_failed"}
  /\ DOMAIN Allowed \subseteq CandidateStatuses
  /\ "ready_for_g4" \in CandidateStatuses
BY DEF Allowed, CandidateStatuses, Releasing

\* A slot may always give up its task.
LEMMA Leaving ==
  ASSUME NEW w \in Workers, Leave(w)
  PROVE  Lands(w)
<1>1. NoCandidate \in Candidates /\ RowIsSound(NoCandidate, evidence')
  BY DEF NoCandidate, Candidates, CandidateStatuses, NoRelease, Releases, RowIsSound, Approved,
         Releasing, Exported
<1>2. IdleSlot \in Slots
  BY <1>1 DEF IdleSlot, Slots, Places, CandidateStatuses
<1>3. SlotIsSound(IdleSlot, evidence')
  BY <1>1 DEF IdleSlot, SlotIsSound
<1>4. QED  BY <1>2, <1>3 DEF Lands, Leave

\* A slot may go on to where its task takes it.
LEMMA Going ==
  ASSUME worker \in [Workers -> Slots], NEW w \in Workers, SlotIsSound(worker[w], evidence'),
         worker[w].at # "idle",
         NEW a \in {"run", "fetch", "export", "restore", "revert", "mirror_read",
                    "succeed", "fail"},
         Go(w, a),
         a = "run" => worker[w].task = Gen,
         a \in {"fetch", "export", "restore"} => worker[w].task \in Keys,
         a = "revert" => WriteIsSound(worker[w])
  PROVE  Lands(w)
<1> DEFINE s == worker[w]
           y == Slot(a, s.task, s.token, s.target, s.value, s.seen)
<1>1. PICK x : x = [s EXCEPT !.at = a]
  OBVIOUS
<1>2. worker' = [worker EXCEPT ![w] = x]
  BY <1>1 DEF Go
<1>3. x = y
  BY <1>1 DEF Slots, Slot
<1>4. y \in Slots
  <2>1. a \in Places
    BY DEF Places
  <2>2. QED  BY <2>1, SlotFields, SlotIsSlot
<1>5. SlotIsSound(y, evidence')
  <2>1. y.at = a /\ y.task = s.task /\ y.target = s.target /\ y.value = s.value /\ y.seen = s.seen
    BY DEF Slot
  <2>2. WriteIsSound(s) => WriteIsSound(y)
    BY <2>1 DEF WriteIsSound
  <2> HIDE DEF y
  <2>3. QED  BY <2>1, <2>2 DEF SlotIsSound
<1>6. QED  BY <1>2, <1>3, <1>4, <1>5 DEF Lands

\* A slot of the generation task may turn to writing a status.
LEMMA Writing ==
  ASSUME worker \in [Workers -> Slots], NEW w \in Workers, SlotIsSound(worker[w], evidence'),
         worker[w].task = Gen, NEW g \in {"executing", "blocked", "validation_failed"}, Write(w, g)
  PROVE  Lands(w)
<1> DEFINE s == worker[w]
           y == Slot("transition", s.task, s.token, g, s.value, s.seen)
<1>1. PICK x : x = [s EXCEPT !.at = "transition", !.target = g]
  OBVIOUS
<1>2. worker' = [worker EXCEPT ![w] = x]
  BY <1>1 DEF Write
<1>3. x = y
  BY <1>1 DEF Slots, Slot
<1>4. y \in Slots
  <2>1. "transition" \in Places
    BY DEF Places
  <2>2. QED  BY <2>1, SlotFields, SlotIsSlot, Statuses
<1>5. SlotIsSound(y, evidence')
  <2>1. y.at = "transition" /\ y.task = Gen /\ y.target = g /\ y.value = s.value /\ y.seen = s.seen
    BY DEF Slot
  <2> HIDE DEF y
  <2>2. QED  BY <2>1, Statuses, CandidateAssumption DEF SlotIsSound
<1>6. QED  BY <1>2, <1>3, <1>4, <1>5 DEF Lands

\* Every step of a slot leaves it where it may be.
LEMMA SlotLands ==
  ASSUME IInv, [Next]_vars, NEW w \in Workers,
         \/ Begin(w) \/ Transition(w) \/ Check(w) \/ Revert(w) \/ MirrorRead(w) \/ MirrorWrite(w)
         \/ Generate(w) \/ Fetch(w) \/ Export(w) \/ MarkReadyForG4(w) \/ RestoreG3(w) \/ Settle(w)
         \/ Crash(w) \/ \E t \in Tasks : Claim(w, t)
  PROVE  Lands(w)
<1> DEFINE s == worker[w]
<1>1. /\ worker \in [Workers -> Slots] /\ s \in Slots /\ SlotIsSound(s, evidence)
      /\ SlotIsSound(s, evidence')
      /\ cand \in Candidates /\ RowIsSound(cand, evidence')
      /\ granted \in [Tasks -> Nat]
  <2>1. /\ TypeOK /\ worker \in [Workers -> Slots] /\ SlotIsSound(s, evidence)
        /\ cand \in Candidates /\ RowIsSound(cand, evidence) /\ granted \in [Tasks -> Nat]
    BY DEF IInv, TypeOK, LifecycleTypeOK, RowsAreSound, SlotsAreSound
  <2>2. QED  BY <2>1, EvidenceStays, SlotKept, RowKept
<1>2. ASSUME NEW t \in Tasks, Claim(w, t)
      PROVE  Lands(w)
  <2> DEFINE y == Slot("begin", t, granted[t] + 1, s.target, s.value, s.seen)
  <2>1. PICK x : x = [s EXCEPT !.at = "begin", !.task = t, !.token = granted[t] + 1]
    OBVIOUS
  <2>2. worker' = [worker EXCEPT ![w] = x]
    BY <1>2, <2>1 DEF Claim
  <2>3. x = y
    BY <1>1, <2>1 DEF Slots, Slot
  <2>4. y \in Slots
    <3>1. "begin" \in Places /\ granted[t] + 1 \in Nat
      BY <1>1 DEF Places
    <3>2. QED  BY <1>1, <3>1, SlotFields, SlotIsSlot
  <2>5. SlotIsSound(y, evidence')
    <3>1. s = IdleSlot
      BY <1>1, <1>2 DEF Claim, SlotIsSound
    <3>2. s.value = Nobody
      BY <3>1 DEF IdleSlot
    <3>3. y.at = "begin" /\ y.task = t /\ y.value = s.value /\ y.seen = s.seen
      BY DEF Slot
    <3> HIDE DEF y
    <3>4. QED  BY <1>1, <3>2, <3>3 DEF SlotIsSound
  <2>6. QED  BY <2>2, <2>3, <2>4, <2>5 DEF Lands
<1>3. CASE Begin(w)
  <2>1. \/ Leave(w)
        \/ s.at = "begin" /\ s.task = Gen /\ Write(w, "executing")
        \/ s.at = "begin" /\ s.task # Gen /\ Go(w, "fetch")
    BY <1>3 DEF Begin, Task
  <2>2. CASE s.at = "begin" /\ s.task # Gen /\ Go(w, "fetch")
    <3>1. s.task \in Keys
      BY <1>1, <2>2 DEF SlotIsSound, Keys
    <3>2. QED  BY <1>1, <2>2, <3>1, Going
  <2>3. QED  BY <1>1, <2>1, <2>2, Leaving, Writing
<1>4. CASE Transition(w)
  <2>1. s.at = "transition" /\ s.task = Gen /\ s.target \in DOMAIN Allowed
    BY <1>1, <1>4 DEF Transition, SlotIsSound
  <2>2. \/ Leave(w) \/ Go(w, "mirror_read") \/ Go(w, "fail")
        \/ worker' = [worker EXCEPT ![w].target = "validation_failed", ![w].value = Nobody]
        \/ /\ cand.status \in Allowed[s.target]
           /\ worker' = [worker EXCEPT ![w].at = "check", ![w].seen = cand]
    BY <1>4 DEF Transition, Dropped, Refused
  <2>3. CASE worker' = [worker EXCEPT ![w].target = "validation_failed", ![w].value = Nobody]
    <3> DEFINE y == Slot(s.at, s.task, s.token, "validation_failed", Nobody, s.seen)
    <3>1. PICK x : x = [s EXCEPT !.target = "validation_failed", !.value = Nobody]
      OBVIOUS
    <3>2. worker' = [worker EXCEPT ![w] = x]
      BY <2>3, <3>1
    <3>3. x = y
      BY <1>1, <3>1 DEF Slots, Slot
    <3>4. y \in Slots
      BY <1>1, SlotFields, SlotIsSlot, Statuses
    <3>5. SlotIsSound(y, evidence')
      <4>1. /\ y.at = "transition" /\ y.task = Gen /\ y.target = "validation_failed"
            /\ y.value = Nobody /\ y.seen = s.seen
        BY <2>1 DEF Slot
      <4> HIDE DEF y
      <4>2. QED  BY <1>1, <4>1, Statuses, CandidateAssumption DEF SlotIsSound
    <3>6. QED  BY <3>2, <3>3, <3>4, <3>5 DEF Lands
  <2>4. CASE /\ cand.status \in Allowed[s.target]
             /\ worker' = [worker EXCEPT ![w].at = "check", ![w].seen = cand]
    <3> DEFINE y == Slot("check", s.task, s.token, s.target, s.value, cand)
    <3>1. PICK x : x = [s EXCEPT !.at = "check", !.seen = cand]
      OBVIOUS
    <3>2. worker' = [worker EXCEPT ![w] = x]
      BY <2>4, <3>1
    <3>3. x = y
      BY <1>1, <3>1 DEF Slots, Slot
    <3>4. y \in Slots
      <4>1. "check" \in Places
        BY DEF Places
      <4>2. QED  BY <1>1, <4>1, SlotFields, SlotIsSlot
    <3>5. SlotIsSound(y, evidence')
      <4>1. /\ y.at = "check" /\ y.task = s.task /\ y.target = s.target /\ y.value = s.value
            /\ y.seen = cand
        BY DEF Slot
      <4> HIDE DEF y
      <4>2. WriteIsSound(y)
        BY <2>1, <2>4, <4>1 DEF WriteIsSound
      <4>3. y.task \in Tasks /\ y.value \in Digests \union {Nobody}
        BY <1>1, <2>1, <4>1 DEF SlotIsSound
      <4>4. QED  BY <1>1, <4>1, <4>2, <4>3 DEF SlotIsSound
    <3>6. QED  BY <3>2, <3>3, <3>4, <3>5 DEF Lands
  <2>5. QED  BY <1>1, <2>1, <2>2, <2>3, <2>4, Leaving, Going
<1>5. CASE Check(w)
  <2>1. s.at = "check" /\ WriteIsSound(s)
    BY <1>1, <1>5 DEF Check, SlotIsSound
  <2>2. \/ Go(w, "mirror_read") \/ Go(w, "revert") \/ Go(w, "fail") \/ Go(w, "succeed")
        \/ s.target = "executing" /\ Go(w, "run")
    BY <1>5 DEF Check, After
  <2>3. s.target = "executing" => s.task = Gen
    BY <2>1 DEF WriteIsSound
  <2>4. QED  BY <1>1, <2>1, <2>2, <2>3, Going
<1>6. CASE Revert(w) \/ MirrorWrite(w) \/ Settle(w) \/ Crash(w)
  BY <1>6, Leaving DEF Revert, MirrorWrite, Settle, Crash
<1>7. CASE MirrorRead(w)
  <2>1. \/ Leave(w)
        \/ /\ s.at = "mirror_read"
           /\ worker' = [worker EXCEPT ![w].at = "mirror_write", ![w].seen = cand]
    BY <1>7 DEF MirrorRead
  <2>2. CASE /\ s.at = "mirror_read"
             /\ worker' = [worker EXCEPT ![w].at = "mirror_write", ![w].seen = cand]
    <3> DEFINE y == Slot("mirror_write", s.task, s.token, s.target, s.value, cand)
    <3>1. PICK x : x = [s EXCEPT !.at = "mirror_write", !.seen = cand]
      OBVIOUS
    <3>2. worker' = [worker EXCEPT ![w] = x]
      BY <2>2, <3>1
    <3>3. x = y
      BY <1>1, <3>1 DEF Slots, Slot
    <3>4. y \in Slots
      <4>1. "mirror_write" \in Places
        BY DEF Places
      <4>2. QED  BY <1>1, <4>1, SlotFields, SlotIsSlot
    <3>5. SlotIsSound(y, evidence')
      <4>1. y.at = "mirror_write" /\ y.task = s.task /\ y.value = s.value /\ y.seen = cand
        BY DEF Slot
      <4> HIDE DEF y
      <4>2. QED  BY <1>1, <2>2, <4>1 DEF SlotIsSound
    <3>6. QED  BY <3>2, <3>3, <3>4, <3>5 DEF Lands
  <2>3. QED  BY <2>1, <2>2, Leaving
<1>8. CASE Generate(w)
  <2>1. s.at = "run" /\ s.task = Gen
    BY <1>1, <1>8 DEF Generate, SlotIsSound
  <2>2. \/ Leave(w) \/ Write(w, "blocked") \/ Write(w, "validation_failed")
        \/ \E d \in Digests :
             /\ evidence' = d
             /\ worker' = [worker EXCEPT ![w].at = "transition", ![w].value = d,
                                         ![w].target = Outcome(d)]
    BY <1>8 DEF Generate
  <2>3. ASSUME NEW d \in Digests, evidence' = d,
               worker' = [worker EXCEPT ![w].at = "transition", ![w].value = d,
                                        ![w].target = Outcome(d)]
        PROVE  Lands(w)
    <3> DEFINE y == Slot("transition", s.task, s.token, Outcome(d), d, s.seen)
    <3>1. PICK x : x = [s EXCEPT !.at = "transition", !.value = d, !.target = Outcome(d)]
      OBVIOUS
    <3>2. worker' = [worker EXCEPT ![w] = x]
      BY <2>3, <3>1
    <3>3. x = y
      BY <1>1, <3>1 DEF Slots, Slot
    <3>4. /\ Outcome(d) \in {"ready_for_g3", "validation_failed"}
          /\ Outcome(d) = "ready_for_g3" => d \in Clean
      BY DEF Outcome
    <3>5. y \in Slots
      <4>1. "transition" \in Places
        BY DEF Places
      <4>2. QED  BY <1>1, <3>4, <4>1, SlotFields, SlotIsSlot, Statuses
    <3>6. SlotIsSound(y, evidence')
      <4>1. /\ y.at = "transition" /\ y.task = Gen /\ y.target = Outcome(d) /\ y.value = d
            /\ y.seen = s.seen
        BY <2>1 DEF Slot
      <4> HIDE DEF y
      <4>2. QED  BY <1>1, <2>3, <3>4, <4>1, Statuses, CandidateAssumption DEF SlotIsSound
    <3>7. QED  BY <3>2, <3>3, <3>5, <3>6 DEF Lands
  <2>4. QED  BY <1>1, <2>1, <2>2, <2>3, Leaving, Writing
<1>9. CASE Fetch(w) \/ RestoreG3(w)
  <2>1. s.at \in {"fetch", "restore"} /\ s.task \in Keys
    BY <1>1, <1>9 DEF Fetch, RestoreG3, SlotIsSound
  <2>2. Leave(w) \/ Go(w, "export") \/ Go(w, "fail")
    BY <1>9 DEF Fetch, RestoreG3
  <2>3. QED  BY <1>1, <2>1, <2>2, Leaving, Going
<1>10. CASE Export(w)
  <2>1. s.at = "export" /\ s.task \in Keys
    BY <1>1, <1>10 DEF Export, SlotIsSound
  <2>2. \/ Leave(w) \/ Go(w, "restore") \/ Go(w, "fail")
        \/ \E m \in Manifests : worker' = [worker EXCEPT ![w].at = "publish", ![w].value = m]
    BY <1>10 DEF Export
  <2>3. ASSUME NEW m \in Manifests,
               worker' = [worker EXCEPT ![w].at = "publish", ![w].value = m]
        PROVE  Lands(w)
    <3> DEFINE y == Slot("publish", s.task, s.token, s.target, m, s.seen)
    <3>1. PICK x : x = [s EXCEPT !.at = "publish", !.value = m]
      OBVIOUS
    <3>2. worker' = [worker EXCEPT ![w] = x]
      BY <2>3, <3>1
    <3>3. x = y
      BY <1>1, <3>1 DEF Slots, Slot
    <3>4. y \in Slots
      <4>1. "publish" \in Places
        BY DEF Places
      <4>2. QED  BY <1>1, <4>1, SlotFields, SlotIsSlot
    <3>5. SlotIsSound(y, evidence')
      <4>1. y.at = "publish" /\ y.task = s.task /\ y.value = m /\ y.seen = s.seen
        BY DEF Slot
      <4> HIDE DEF y
      <4>2. QED  BY <1>1, <2>1, <4>1 DEF SlotIsSound, Keys
    <3>6. QED  BY <3>2, <3>3, <3>4, <3>5 DEF Lands
  <2>4. QED  BY <1>1, <2>1, <2>2, <2>3, Leaving, Going
<1>11. CASE MarkReadyForG4(w)
  <2>1. s.at = "publish" /\ s.task \in Keys
    BY <1>1, <1>11 DEF MarkReadyForG4, SlotIsSound
  <2>2. \/ Leave(w) \/ Go(w, "mirror_read") \/ Go(w, "restore")
        \/ /\ cand.status = "release_pending" /\ cand.release.task = s.task
           /\ worker' = [worker EXCEPT ![w].at = "check", ![w].target = "ready_for_g4",
                                       ![w].seen = cand]
    BY <1>11 DEF MarkReadyForG4, Dropped, Reserved, Task
  <2>3. CASE /\ cand.status = "release_pending" /\ cand.release.task = s.task
             /\ worker' = [worker EXCEPT ![w].at = "check", ![w].target = "ready_for_g4",
                                         ![w].seen = cand]
    <3> DEFINE y == Slot("check", s.task, s.token, "ready_for_g4", s.value, cand)
    <3>1. PICK x : x = [s EXCEPT !.at = "check", !.target = "ready_for_g4", !.seen = cand]
      OBVIOUS
    <3>2. worker' = [worker EXCEPT ![w] = x]
      BY <2>3, <3>1
    <3>3. x = y
      BY <1>1, <3>1 DEF Slots, Slot
    <3>4. y \in Slots
      <4>1. "check" \in Places
        BY DEF Places
      <4>2. QED  BY <1>1, <4>1, SlotFields, SlotIsSlot, Statuses
    <3>5. SlotIsSound(y, evidence')
      <4>1. y.at = "check" /\ y.task = s.task /\ y.target = "ready_for_g4" /\ y.seen = cand
        BY DEF Slot
      <4> HIDE DEF y
      <4>2. WriteIsSound(y)
        BY <2>1, <2>3, <4>1 DEF WriteIsSound
      <4>3. QED  BY <1>1, <2>1, <4>1, <4>2 DEF SlotIsSound, Keys
    <3>6. QED  BY <3>2, <3>3, <3>4, <3>5 DEF Lands
  <2>4. QED  BY <1>1, <2>1, <2>2, <2>3, Leaving, Going
<1>12. QED  BY <1>2, <1>3, <1>4, <1>5, <1>6, <1>7, <1>8, <1>9, <1>10, <1>11

\* No step takes a slot where it may not be.
LEMMA SlotStep ==
  ASSUME IInv, [Next]_vars
  PROVE  /\ worker' \in [Workers -> Slots]
         /\ \A v \in Workers : SlotIsSound(worker'[v], evidence')
<1>1. /\ TypeOK /\ worker \in [Workers -> Slots]
      /\ \A v \in Workers : SlotIsSound(worker[v], evidence')
  <2>1. TypeOK /\ \A v \in Workers : SlotIsSound(worker[v], evidence)
    BY DEF IInv, SlotsAreSound
  <2>2. QED  BY <2>1, EvidenceStays, SlotKept DEF TypeOK
<1>2. ASSUME NEW w \in Workers, Lands(w)
      PROVE  /\ worker' \in [Workers -> Slots]
             /\ \A v \in Workers : SlotIsSound(worker'[v], evidence')
  BY <1>1, <1>2 DEF Lands
<1>3. ASSUME NEW r \in Reviewers, Review(r) \/ DecideG3(r) \/ DecideG4(r)
      PROVE  UNCHANGED worker
  BY <1>3 DEF Review, DecideG3, DecideG4
<1>4. /\ Create => UNCHANGED worker
      /\ \A k \in Keys : EnqueueReleaseExport(k) => UNCHANGED worker
      /\ \A t \in Tasks : CancelTask(t) => UNCHANGED worker
  BY DEF Create, EnqueueReleaseExport, CancelTask
<1>5. CASE UNCHANGED worker
  BY <1>1, <1>5
<1>6. CASE UNCHANGED vars
  BY <1>5, <1>6 DEF vars
<1>7. QED  BY <1>2, <1>3, <1>4, <1>5, <1>6, SlotLands, Steps

-----------------------------------------------------------------------------
(* The invariant.                                                          *)

\* The invariant holds at the start.
LEMMA InitIInv ==
  ASSUME Init
  PROVE  IInv
<1>1. NoCandidate \in Candidates /\ RowIsSound(NoCandidate, Nobody)
  BY DEF NoCandidate, Candidates, CandidateStatuses, NoRelease, Releases, RowIsSound, Approved,
         Releasing, Exported
<1>2. IdleSlot \in Slots /\ SlotIsSound(IdleSlot, Nobody)
  BY <1>1 DEF IdleSlot, Slots, Places, CandidateStatuses, SlotIsSound
<1>3. LifecycleTypeOK
  BY DEF Init, LifecycleInit, LifecycleTypeOK, States
<1>4. TypeOK
  BY <1>1, <1>2, <1>3 DEF Init, TypeOK
<1>5. RowsAreSound /\ SlotsAreSound
  BY <1>1, <1>2 DEF Init, RowsAreSound, SlotsAreSound
<1>6. QED  BY <1>4, <1>5 DEF IInv

\* Every step keeps it.
LEMMA NextIInv ==
  ASSUME IInv, [Next]_vars
  PROVE  IInv'
<1>1. TypeOK
  BY DEF IInv
<1>2. TypeOK'
  BY <1>1, RestOfTypes, EvidenceStays, RowStep, SlotStep DEF TypeOK
<1>3. RowsAreSound' /\ SlotsAreSound'
  BY RowStep, ReviewStep, SlotStep DEF RowsAreSound, SlotsAreSound
<1>4. QED  BY <1>2, <1>3 DEF IInv

\* Rows and slots are typed and sound in every state.
THEOREM Invariance == Spec => []IInv
<1>1. IInv /\ [Next]_vars => IInv'
  BY NextIInv
<1>2. QED  BY <1>1, InitIInv, PTL DEF Spec

-----------------------------------------------------------------------------
(* What a step does to the row.                                            *)

Writes(w)   == /\ worker[w].at = "transition" /\ worker[w].task = Gen /\ Holds(w)
               /\ worker[w].target \in DOMAIN Allowed
               /\ cand.status \in Allowed[worker[w].target]
               /\ cand'.status = worker[w].target /\ cand'.version = cand.version + 1
Publishes(w) == /\ worker[w].at = "publish" /\ worker[w].task \in Keys /\ Holds(w)
                /\ Reserved(worker[w].task)
                /\ cand'.status = "ready_for_g4" /\ cand'.version = cand.version + 1
                /\ cand'.release.task = cand.release.task
                /\ cand'.g3 = cand.g3
Restores(w) == /\ worker[w].at = "restore" /\ worker[w].task \in Keys /\ Holds(w)
               /\ Reserved(worker[w].task)
               /\ cand'.status = "g3_approved" /\ cand'.version = cand.version + 1
               /\ cand'.g3 = cand.g3
Undoes(w)   == /\ worker[w].at = "revert" /\ WriteIsSound(worker[w]) /\ StillWritten(w)
               /\ cand' = [worker[w].seen EXCEPT !.version = @ + 2]
Enqueues(k) == /\ cand.status = "g3_approved" /\ cand'.status = "release_pending"
               /\ cand'.version = cand.version + 1
               /\ cand'.release.task = k /\ cand'.g3 = cand.g3
Decides     == /\ cand'.version = cand.version + 1
               /\ cand'.release.task = cand.release.task
               /\ \/ /\ cand.status = "ready_for_g3"
                     /\ cand'.status \in {"g3_approved", "validation_failed"}
                  \/ /\ cand.status = "ready_for_g4"
                     /\ cand'.status \in {"ready_for_g4", "released"}
                     /\ cand'.g3 = cand.g3
Cancels     == cand'.status = "cancelled"

\* MarkReadyForG4 publishes the manifest of its own reservation, or nothing.
LEMMA Publishing ==
  ASSUME IInv, NEW w \in Workers, MarkReadyForG4(w)
  PROVE  UNCHANGED cand \/ Publishes(w)
<1>1. cand \in Candidates /\ cand.release \in Releases /\ SlotIsSound(worker[w], evidence)
  BY DEF IInv, TypeOK, SlotsAreSound, Candidates
<1>2. ASSUME worker[w].at = "publish", Holds(w), Reserved(Task(w)),
             cand' = [cand EXCEPT !.status = "ready_for_g4", !.version = @ + 1,
                                  !.release.status = "ready_for_g4",
                                  !.release.manifest = worker[w].value]
      PROVE  Publishes(w)
  <2>1. /\ cand'.status = "ready_for_g4" /\ cand'.version = cand.version + 1
        /\ cand'.g3 = cand.g3
        /\ cand'.release = [cand.release EXCEPT !.status = "ready_for_g4",
                                                !.manifest = worker[w].value]
    BY <1>1, <1>2 DEF Candidates
  <2>2. cand'.release.task = cand.release.task
    BY <1>1, <2>1 DEF Releases
  <2>3. worker[w].task \in Keys
    BY <1>1, <1>2 DEF SlotIsSound
  <2>4. QED  BY <1>2, <2>1, <2>2, <2>3 DEF Publishes, Task
<1>3. QED  BY <1>2 DEF MarkReadyForG4

\* Who may move the row, from where and to where.
LEMMA RowMoves ==
  ASSUME IInv, [Next]_vars
  PROVE  \/ UNCHANGED cand
         \/ /\ Create /\ cand.status = "absent" /\ cand'.status = "queued"
            /\ cand'.g3 = cand.g3 /\ cand'.version = 1
         \/ \E k \in Keys : EnqueueReleaseExport(k) /\ Enqueues(k)
         \/ \E r \in Reviewers : (DecideG3(r) \/ DecideG4(r)) /\ Decides
         \/ \E t \in Tasks : CancelTask(t) /\ Cancels /\ cand.status # "cancelled"
         \/ \E w \in Workers :
              \/ Transition(w) /\ Writes(w)
              \/ Revert(w) /\ Undoes(w)
              \/ MirrorWrite(w) /\ Cancels
              \/ MarkReadyForG4(w) /\ Publishes(w)
              \/ RestoreG3(w) /\ Restores(w)
<1>1. /\ cand \in Candidates
      /\ \A w \in Workers : worker[w] \in Slots /\ SlotIsSound(worker[w], evidence)
  BY DEF IInv, TypeOK, SlotsAreSound

<1>2. ASSUME Create
      PROVE  /\ cand.status = "absent" /\ cand'.status = "queued"
             /\ cand'.g3 = cand.g3 /\ cand'.version = 1
  BY <1>1, <1>2 DEF Create, Candidates
<1>3. ASSUME NEW k \in Keys, EnqueueReleaseExport(k)
      PROVE  Enqueues(k)
  BY <1>1, <1>3 DEF EnqueueReleaseExport, MayExport, Enqueues, Candidates
<1>4. ASSUME NEW r \in Reviewers, DecideG3(r)
      PROVE  UNCHANGED cand \/ Decides
  BY <1>1, <1>4 DEF DecideG3, G3Decidable, Decides, Candidates
<1>5. ASSUME NEW r \in Reviewers, DecideG4(r)
      PROVE  UNCHANGED cand \/ Decides
  <2>1. cand \in Candidates /\ cand.release \in Releases
    BY <1>1 DEF Candidates
  <2>2. CASE UNCHANGED cand
    BY <2>2
  <2>3. CASE /\ cand.status = "ready_for_g4"
             /\ cand' = [cand EXCEPT !.status = "released", !.version = @ + 1,
                                     !.g4 = review[r].release.manifest,
                                     !.release.status = "released"]
    <3>1. /\ cand'.status = "released" /\ cand'.version = cand.version + 1 /\ cand'.g3 = cand.g3
          /\ cand'.release = [cand.release EXCEPT !.status = "released"]
      BY <2>1, <2>3 DEF Candidates
    <3>2. cand'.release.task = cand.release.task
      BY <2>1, <3>1 DEF Releases
    <3>3. QED  BY <2>3, <3>1, <3>2 DEF Decides
  <2>4. CASE /\ cand.status = "ready_for_g4"
             /\ cand' = [cand EXCEPT !.version = @ + 1, !.g4 = review[r].release.manifest]
    BY <2>1, <2>4 DEF Candidates, Decides
  <2>5. QED  BY <1>5, <2>2, <2>3, <2>4 DEF DecideG4, G4Decidable
<1>6. ASSUME NEW t \in Tasks, CancelTask(t)
      PROVE  UNCHANGED cand \/ (Cancels /\ cand.status # "cancelled")
  BY <1>1, <1>6 DEF CancelTask, MirroredInCancel, Cancels, Candidates, Final, Releasing
<1>7. ASSUME NEW w \in Workers, Transition(w)
      PROVE  UNCHANGED cand \/ Writes(w)
  <2>1. SlotIsSound(worker[w], evidence)
    BY <1>1
  <2>2. \/ UNCHANGED cand
        \/ /\ worker[w].at = "transition" /\ Holds(w)
           /\ cand.status \in Allowed[worker[w].target] /\ cand' = Written(w)
    BY <1>7 DEF Transition
  <2>3. QED  BY <1>1, <2>1, <2>2 DEF Written, Writes, SlotIsSound, Candidates
<1>8. ASSUME NEW w \in Workers, Revert(w)
      PROVE  UNCHANGED cand \/ Undoes(w)
  BY <1>1, <1>8 DEF Revert, Undoes, SlotIsSound
<1>9. ASSUME NEW w \in Workers, MirrorWrite(w)
      PROVE  Cancels
  <2> DEFINE seen == worker[w].seen
             row == IF seen.release.task = Task(w)
                    THEN [seen EXCEPT !.release = CancelledRelease(Task(w))] ELSE cand
  <2>1. cand' = [row EXCEPT !.status = "cancelled", !.version = seen.version + 1]
    BY <1>9 DEF MirrorWrite
  <2>2. seen \in Candidates
    BY <1>1 DEF Slots
  <2>3. "status" \in DOMAIN row
    BY <1>1, <2>2 DEF Candidates
  <2> HIDE DEF row
  <2>4. QED  BY <2>1, <2>3 DEF Cancels
<1>10. ASSUME NEW w \in Workers, MarkReadyForG4(w)
       PROVE  UNCHANGED cand \/ Publishes(w)
  BY <1>10, Publishing
<1>11. ASSUME NEW w \in Workers, RestoreG3(w)
       PROVE  UNCHANGED cand \/ Restores(w)
  <2>1. SlotIsSound(worker[w], evidence)
    BY <1>1
  <2>2. ASSUME worker[w].at = "restore", Holds(w), Reserved(Task(w)),
               cand' = [cand EXCEPT !.status = "g3_approved", !.version = @ + 1,
                                    !.release.status = "failed"]
        PROVE  Restores(w)
    <3>1. cand'.status = "g3_approved" /\ cand'.version = cand.version + 1 /\ cand'.g3 = cand.g3
      BY <1>1, <2>2 DEF Candidates
    <3>2. worker[w].task \in Keys
      BY <2>1, <2>2 DEF SlotIsSound
    <3>3. QED  BY <2>2, <3>1, <3>2 DEF Restores, Task
  <2>3. QED  BY <1>11, <2>2 DEF RestoreG3
<1>12. QED  BY <1>2, <1>3, <1>4, <1>5, <1>6, <1>7, <1>8, <1>9, <1>10, <1>11, RowSteps

\* Only CancelTask cancels a task.
LEMMA CancelsOnly ==
  ASSUME IInv, [Next]_vars, NEW t \in Tasks, state'[t] = "cancelled", state[t] # "cancelled"
  PROVE  CancelTask(t)
<1>1. state \in [Tasks -> States]
  BY DEF IInv, TypeOK, LifecycleTypeOK
<1>2. ASSUME NEW w \in Workers,
             \/ Begin(w) \/ Transition(w) \/ Check(w) \/ Revert(w) \/ MirrorRead(w)
             \/ MirrorWrite(w) \/ Generate(w) \/ Fetch(w) \/ Export(w) \/ MarkReadyForG4(w)
             \/ RestoreG3(w) \/ Crash(w)
      PROVE  UNCHANGED queue
  BY <1>2 DEF Begin, Transition, Check, Revert, MirrorRead, MirrorWrite, Generate, Fetch,
              Export, MarkReadyForG4, RestoreG3, Crash
<1>3. ASSUME NEW r \in Reviewers, Review(r) \/ DecideG3(r) \/ DecideG4(r)
      PROVE  UNCHANGED queue
  BY <1>3 DEF Review, DecideG3, DecideG4
<1>4. ASSUME NEW w \in Workers, Settle(w)
      PROVE  FALSE
  <2>1. \/ UNCHANGED queue
        \/ \E s \in {"succeeded", "failed_terminal"} : Surrender(Task(w), worker[w].token, s)
    BY <1>4 DEF Settle
  <2>2. QED  BY <1>1, <2>1 DEF Surrender, queue
<1>5. ASSUME NEW u \in Tasks, Submit(u) \/ Grant(u) \/ (Revoke(u) /\ u # t)
      PROVE  FALSE
  BY <1>1, <1>5 DEF Submit, Grant, Revoke
<1>6. /\ Create => Submit(Gen)
      /\ \A k \in Keys : EnqueueReleaseExport(k) => Submit(k) \/ UNCHANGED queue
      /\ \A u \in Tasks : CancelTask(u) => Revoke(u) \/ UNCHANGED queue
      /\ \A w \in Workers, u \in Tasks : Claim(w, u) => Grant(u)
  BY DEF Create, EnqueueReleaseExport, CancelTask, Claim
<1>7. ~UNCHANGED queue /\ ~UNCHANGED vars
  BY DEF vars, queue
<1>8. QED  BY <1>2, <1>3, <1>4, <1>5, <1>6, <1>7, Steps, CandidateAssumption DEF Keys

-----------------------------------------------------------------------------
(* What holds whatever the workers, the clients and the reviewers do.      *)

\* Every state is well typed.
THEOREM TypeCorrect == Spec => []TypeOK
BY Invariance, PTL DEF IInv

\* What waits for G3, or passed it, is the registered, clean evidence that
\* was reviewed, whichever worker wrote, took back or restored it.
THEOREM G3Holds == Spec => []G3IsBacked
<1>1. IInv => G3IsBacked
  <2>1. SUFFICES ASSUME RowIsSound(cand, evidence)
                 PROVE  G3IsBacked
    BY DEF IInv, RowsAreSound
  <2>2. ApprovedIsReviewed
    BY <2>1 DEF ApprovedIsReviewed, RowIsSound, Approved
  <2>3. ReadyIsBacked
    BY <2>1 DEF ReadyIsBacked, RowIsSound
  <2>4. QED  BY <2>2, <2>3 DEF G3IsBacked
<1>2. QED  BY <1>1, Invariance, PTL

\* A cancelled or released candidate is not brought back.
LEMMA FinalStays ==
  ASSUME IInv, [Next]_vars
  PROVE  /\ cand.status = "cancelled" => cand'.status = "cancelled"
         /\ cand.status \in Final => cand'.status \in Final
<1>1. ASSUME NEW w \in Workers, Writes(w)
      PROVE  cand.status \in Generating
  <2>1. worker[w].target \in DOMAIN Allowed
    BY <1>1 DEF Writes
  <2>2. \A g \in DOMAIN Allowed : Allowed[g] \subseteq Generating
    BY DEF Allowed, Generating
  <2>3. QED  BY <1>1, <2>1, <2>2 DEF Writes
<1>2. ASSUME NEW w \in Workers, Undoes(w)
      PROVE  cand.status \notin Final
  <2>1. /\ cand.status = worker[w].target
        /\ worker[w].target \in DOMAIN Allowed \union {"ready_for_g4"}
    BY <1>2 DEF Undoes, StillWritten, WriteIsSound
  <2>2. QED  BY <2>1, Statuses DEF Final
<1>3. QED  BY <1>1, <1>2, RowMoves
           DEF Generating, Final, Enqueues, Decides, Cancels, Publishes, Restores, Reserved

\* Once the generation task is cancelled, nothing brings the candidate back.
THEOREM CancellationHolds == Spec => []CancellationMirrored
<1>1. Init => CancellationMirrored
  BY CandidateAssumption DEF Init, LifecycleInit, CancellationMirrored
<1>2. IInv /\ CancellationMirrored /\ [Next]_vars => CancellationMirrored'
  <2>1. SUFFICES ASSUME IInv, CancellationMirrored, [Next]_vars, state'[Gen] = "cancelled"
                 PROVE  cand'.status \in Final
    BY DEF CancellationMirrored
  <2>2. CASE state[Gen] = "cancelled"
    BY <2>1, <2>2, FinalStays DEF CancellationMirrored
  <2>3. CASE CancelTask(Gen)
    <3>1. cand \in Candidates
      BY <2>1 DEF IInv, TypeOK
    <3>2. QED  BY <2>3, <3>1 DEF CancelTask, MirroredInCancel, Final, Candidates
  <2>4. CASE state[Gen] # "cancelled" /\ ~CancelTask(Gen)
    BY <2>1, <2>4, CancelsOnly, CandidateAssumption
  <2>5. QED  BY <2>2, <2>3, <2>4
<1>3. QED  BY <1>1, <1>2, Invariance, PTL DEF Spec

\* Nothing but a cancellation withdraws an approval.
THEOREM ApprovalsStand == Spec => ApprovalStands
<1> DEFINE Kept == cand.g3 # Nobody /\ cand'.status # "cancelled" =>
                     /\ cand'.g3 = cand.g3
                     /\ cand'.status \in {"g3_approved", "released"} \union Releasing
<1>1. IInv /\ [Next]_vars => Kept
  <2>1. SUFFICES ASSUME IInv, [Next]_vars, cand.g3 # Nobody, cand'.status # "cancelled"
                 PROVE  cand'.g3 = cand.g3 /\ cand'.status \in Approved
    BY DEF Approved
  <2>2. /\ RowIsSound(cand, evidence) /\ RowIsSound(cand', evidence')
        /\ cand.g3 = evidence
        /\ cand.status \in Approved
    BY <2>1, RowStep, FinalStays DEF IInv, RowsAreSound, RowIsSound
  <2>3. ASSUME NEW w \in Workers, Writes(w)
        PROVE  FALSE
    <3>1. \A g \in DOMAIN Allowed : Allowed[g] \subseteq Generating
      BY DEF Allowed, Generating
    <3>2. QED  BY <2>2, <2>3, <3>1 DEF Writes, Generating, Approved, Releasing
  <2>4. ASSUME NEW w \in Workers, Undoes(w)
        PROVE  cand'.g3 = cand.g3
    <3>1. RowIsSound(worker[w].seen, evidence) /\ worker[w].seen \in Candidates
      BY <2>1 DEF IInv, TypeOK, SlotsAreSound, SlotIsSound, Slots
    <3>2. worker[w].target = "ready_for_g4"
      BY <2>2, <2>4, Statuses DEF Undoes, StillWritten, WriteIsSound, Approved, Releasing
    <3>3. worker[w].seen.status = "release_pending"
      BY <2>4, <3>2, Statuses DEF Undoes, WriteIsSound
    <3>4. worker[w].seen.g3 = evidence
      BY <3>1, <3>3 DEF RowIsSound, Approved, Releasing
    <3>5. cand'.g3 = worker[w].seen.g3
      BY <2>4, <3>1 DEF Undoes, Candidates
    <3>6. QED  BY <2>2, <3>4, <3>5
  <2>5. cand'.g3 = cand.g3
    BY <2>1, <2>2, <2>3, <2>4, RowMoves
       DEF Approved, Releasing, Enqueues, Decides, Cancels, Publishes, Restores
  <2>6. QED  BY <2>1, <2>2, <2>5 DEF RowIsSound
<1>2. QED  BY <1>1, Invariance, PTL DEF Spec, ApprovalStands

\* A cancelled release task holds no reservation.
THEOREM ReleaseFrees == Spec => []CancelledReleaseFrees
<1>1. Init => CancelledReleaseFrees
  BY DEF Init, LifecycleInit, CancelledReleaseFrees, Keys
<1>2. IInv /\ CancelledReleaseFrees /\ [Next]_vars => CancelledReleaseFrees'
  <2>1. SUFFICES ASSUME IInv, CancelledReleaseFrees, [Next]_vars, spent'.reuse = 0,
                        NEW k \in Keys, state'[k] = "cancelled",
                        cand'.status \in Releasing, cand'.release.task = k
                 PROVE  FALSE
    BY DEF CancelledReleaseFrees
  <2>2. cand \in Candidates /\ spent \in [DOMAIN Limit -> Nat] /\ k \in Tasks /\ k # Gen
    BY <2>1 DEF IInv, TypeOK, Keys
  <2>3. spent.reuse = 0
    <3>1. UNCHANGED spent \/ \E event \in DOMAIN Limit : Spend(event)
      BY <2>1, SpentSteps
    <3>2. DOMAIN Limit = {"lapse", "crash", "surprise", "reuse", "rejection"}
      BY DEF Limit
    <3>3. ASSUME NEW event \in DOMAIN Limit, Spend(event)
          PROVE  spent.reuse = 0
      BY <2>1, <2>2, <3>2, <3>3 DEF Spend
    <3>4. QED  BY <2>1, <3>1, <3>3
  <2>4. CASE state[k] = "cancelled"
    <3>1. ~(cand.status \in Releasing /\ cand.release.task = k)
      BY <2>1, <2>3, <2>4 DEF CancelledReleaseFrees
    <3>2. ASSUME NEW h \in Keys, EnqueueReleaseExport(h), Enqueues(h)
          PROVE  FALSE
      <4>1. h = k
        BY <2>1, <3>2 DEF Enqueues
      <4>2. Spend("reuse")
        BY <2>4, <3>2, <4>1 DEF EnqueueReleaseExport
      <4>3. spent'.reuse = spent.reuse + 1
        BY <2>2, <4>2 DEF Spend, Limit
      <4>4. QED  BY <2>1, <2>3, <4>3
    <3>3. ASSUME NEW w \in Workers, Undoes(w)
          PROVE  FALSE
      <4>1. worker[w].seen \in Candidates
        BY <2>1 DEF IInv, TypeOK, Slots
      <4>2. worker[w].seen.status \in Releasing /\ worker[w].seen.release.task = k
        BY <2>1, <3>3, <4>1 DEF Undoes, Candidates
      <4>3. \A g \in DOMAIN Allowed : Allowed[g] \subseteq Generating
        BY DEF Allowed, Generating
      <4>4. worker[w].target = "ready_for_g4" /\ worker[w].task = k
        BY <3>3, <4>2, <4>3 DEF Undoes, WriteIsSound, Generating, Releasing
      <4>5. QED  BY <3>1, <3>3, <4>4 DEF Undoes, StillWritten, Task, Releasing
    <3>4. ASSUME NEW w \in Workers, Writes(w)
          PROVE  FALSE
      BY <2>1, <3>4, Statuses DEF Writes, Releasing
    <3>5. QED  BY <2>1, <3>1, <3>2, <3>3, <3>4, RowMoves
               DEF Releasing, Decides, Cancels, Publishes, Restores, Reserved
  <2>5. CASE state[k] # "cancelled"
    <3>1. CancelTask(k)
      BY <2>1, <2>2, <2>5, CancelsOnly
    <3>2. \/ UNCHANGED cand /\ ~(cand.status \in Releasing /\ cand.release.task = k)
          \/ cand'.status = "cancelled"
      BY <2>2, <3>1 DEF CancelTask, MirroredInCancel, Candidates
    <3>3. QED  BY <2>1, <3>2 DEF Releasing
  <2>6. QED  BY <2>4, <2>5
<1>3. QED  BY <1>1, <1>2, Invariance, PTL DEF Spec

-----------------------------------------------------------------------------
(* What a step does to the queue and to one slot.                          *)

\* Only the holder of a task ends it.
LEMMA QueueSteps ==
  ASSUME [Next]_vars
  PROVE  \/ UNCHANGED queue
         \/ \E t \in Tasks : Submit(t) \/ Revoke(t)
         \/ \E w \in Workers, t \in Tasks : Claim(w, t) /\ Grant(t)
         \/ \E w \in Workers :
              /\ Settle(w) /\ Holds(w) /\ worker[w].at \in {"succeed", "fail"}
              /\ Surrender(Task(w), worker[w].token,
                           IF worker[w].at = "succeed" THEN "succeeded" ELSE "failed_terminal")
<1>1. ASSUME NEW w \in Workers,
             \/ Begin(w) \/ Transition(w) \/ Check(w) \/ Revert(w) \/ MirrorRead(w)
             \/ MirrorWrite(w) \/ Generate(w) \/ Fetch(w) \/ Export(w) \/ MarkReadyForG4(w)
             \/ RestoreG3(w) \/ Crash(w)
      PROVE  UNCHANGED queue
  BY <1>1 DEF Begin, Transition, Check, Revert, MirrorRead, MirrorWrite, Generate, Fetch,
              Export, MarkReadyForG4, RestoreG3, Crash
<1>2. ASSUME NEW r \in Reviewers, Review(r) \/ DecideG3(r) \/ DecideG4(r)
      PROVE  UNCHANGED queue
  BY <1>2 DEF Review, DecideG3, DecideG4
<1>3. /\ Create => Submit(Gen)
      /\ \A k \in Keys : EnqueueReleaseExport(k) => Submit(k) \/ UNCHANGED queue
      /\ \A t \in Tasks : CancelTask(t) => Revoke(t) \/ UNCHANGED queue
      /\ \A w \in Workers, t \in Tasks : Claim(w, t) => Grant(t)
  BY DEF Create, EnqueueReleaseExport, CancelTask, Claim
<1>4. ASSUME NEW w \in Workers, Settle(w)
      PROVE  \/ UNCHANGED queue
             \/ /\ Holds(w) /\ worker[w].at \in {"succeed", "fail"}
                /\ Surrender(Task(w), worker[w].token,
                             IF worker[w].at = "succeed" THEN "succeeded" ELSE "failed_terminal")
  BY <1>4 DEF Settle
<1>5. CASE UNCHANGED vars
  BY <1>5 DEF vars
<1>6. QED  BY <1>1, <1>2, <1>3, <1>4, <1>5, Steps, CandidateAssumption DEF Keys

\* How a slot that stays with its task moves on.
Moves(v) ==
  /\ worker[v].at # "idle"
  /\ worker'[v].task = worker[v].task /\ worker'[v].token = worker[v].token
  /\ \/ /\ Writes(v) /\ Transition(v)
        /\ worker'[v].at = "check" /\ worker'[v].target = worker[v].target
        /\ worker'[v].seen = cand
     \/ /\ Publishes(v) /\ MarkReadyForG4(v)
        /\ worker'[v].at = "check" /\ worker'[v].target = "ready_for_g4"
        /\ worker'[v].seen = cand
     \/ /\ Check(v) /\ worker[v].at = "check"
        /\ worker'[v].target = worker[v].target /\ worker'[v].seen = worker[v].seen
        /\ \/ ~Holds(v) /\ worker'[v].at = "revert"
           \/ Holds(v) /\ worker'[v].at = After(worker[v].target)
     \/ worker'[v].at \notin {"check", "revert", "succeed"}

Claims(v, t) == /\ Claim(v, t) /\ worker'[v].at = "begin"
                /\ worker'[v].task = t /\ worker'[v].token = granted[t] + 1

\* A slot stays, becomes idle, claims a task or moves on with its own.
LEMMA SlotMoves ==
  ASSUME IInv, [Next]_vars, NEW v \in Workers
  PROVE  \/ worker'[v] = worker[v]
         \/ worker'[v].at = "idle"
         \/ \E t \in Tasks : Claims(v, t)
         \/ Moves(v)
<1>1. /\ worker \in [Workers -> Slots] /\ cand \in Candidates
      /\ SlotIsSound(worker[v], evidence)
  BY DEF IInv, TypeOK, SlotsAreSound
<1>2. ASSUME NEW w \in Workers, w # v,
             \/ Begin(w) \/ Transition(w) \/ Check(w) \/ Revert(w) \/ MirrorRead(w)
             \/ MirrorWrite(w) \/ Generate(w) \/ Fetch(w) \/ Export(w) \/ MarkReadyForG4(w)
             \/ RestoreG3(w) \/ Settle(w) \/ Crash(w) \/ \E t \in Tasks : Claim(w, t)
      PROVE  worker'[v] = worker[v]
  <2>1. CASE Begin(w) \/ Check(w) \/ Revert(w) \/ MirrorRead(w) \/ MirrorWrite(w)
    BY <1>1, <1>2, <2>1 DEF Begin, Check, Revert, MirrorRead, MirrorWrite, Go, Leave, Write
  <2>2. CASE Transition(w) \/ MarkReadyForG4(w)
    BY <1>1, <1>2, <2>2 DEF Transition, MarkReadyForG4, Go, Leave, Dropped, Refused
  <2>3. CASE Generate(w) \/ Export(w) \/ Fetch(w)
    BY <1>1, <1>2, <2>3 DEF Generate, Export, Fetch, Go, Leave, Write
  <2>4. CASE RestoreG3(w) \/ Settle(w) \/ Crash(w) \/ \E t \in Tasks : Claim(w, t)
    BY <1>1, <1>2, <2>4 DEF RestoreG3, Settle, Crash, Claim, Go, Leave
  <2>5. QED  BY <1>2, <2>1, <2>2, <2>3, <2>4
<1>3. Leave(v) => worker'[v].at = "idle"
  BY <1>1 DEF Leave, IdleSlot
<1>4. ASSUME NEW a, a \notin {"check", "revert", "succeed"}, worker[v].at # "idle", Go(v, a)
      PROVE  Moves(v)
  BY <1>1, <1>4 DEF Go, Slots, Moves
<1>5. ASSUME NEW g, worker[v].at # "idle", Write(v, g)
      PROVE  Moves(v)
  BY <1>1, <1>5 DEF Write, Slots, Moves
<1>6. ASSUME NEW t \in Tasks, Claim(v, t)
      PROVE  Claims(v, t)
  BY <1>1, <1>6 DEF Claim, Claims, Slots
<1>7. CASE Begin(v)
  BY <1>3, <1>4, <1>5, <1>7 DEF Begin
<1>8. CASE Transition(v)
  <2>1. worker[v].at = "transition" /\ worker[v].task = Gen /\ worker[v].target \in DOMAIN Allowed
    BY <1>1, <1>8 DEF Transition, SlotIsSound
  <2>2. \/ Leave(v) \/ Go(v, "mirror_read") \/ Go(v, "fail")
        \/ worker' = [worker EXCEPT ![v].target = "validation_failed", ![v].value = Nobody]
        \/ /\ Holds(v) /\ cand.status \in Allowed[worker[v].target] /\ cand' = Written(v)
           /\ worker' = [worker EXCEPT ![v].at = "check", ![v].seen = cand]
    BY <1>8 DEF Transition, Dropped, Refused
  <2>3. CASE worker' = [worker EXCEPT ![v].target = "validation_failed", ![v].value = Nobody]
    BY <1>1, <2>1, <2>3 DEF Slots, Moves
  <2>4. CASE /\ Holds(v) /\ cand.status \in Allowed[worker[v].target] /\ cand' = Written(v)
             /\ worker' = [worker EXCEPT ![v].at = "check", ![v].seen = cand]
    <3>1. Writes(v)
      BY <1>1, <2>1, <2>4 DEF Writes, Written, Candidates
    <3>2. /\ worker'[v].task = worker[v].task /\ worker'[v].token = worker[v].token
          /\ worker'[v].at = "check" /\ worker'[v].target = worker[v].target
          /\ worker'[v].seen = cand
      BY <1>1, <2>4 DEF Slots
    <3>3. QED  BY <1>8, <2>1, <3>1, <3>2 DEF Moves
  <2>5. QED  BY <1>3, <1>4, <2>1, <2>2, <2>3, <2>4
<1>9. CASE Check(v)
  <2>1. worker[v].at = "check"
    BY <1>9 DEF Check
  <2>2. \/ Go(v, "mirror_read")
        \/ ~Holds(v) /\ Go(v, "revert")
        \/ Holds(v) /\ Go(v, After(worker[v].target))
    BY <1>9 DEF Check
  <2>3. ASSUME NEW a, Go(v, a)
        PROVE  /\ worker'[v].task = worker[v].task /\ worker'[v].token = worker[v].token
               /\ worker'[v].target = worker[v].target /\ worker'[v].seen = worker[v].seen
               /\ worker'[v].at = a
    BY <1>1, <2>3 DEF Go, Slots
  <2>4. QED  BY <1>4, <1>9, <2>1, <2>2, <2>3 DEF Moves
<1>10. CASE Revert(v) \/ MirrorWrite(v) \/ Settle(v) \/ Crash(v)
  BY <1>3, <1>10 DEF Revert, MirrorWrite, Settle, Crash
<1>11. CASE MirrorRead(v)
  <2>1. \/ Leave(v)
        \/ worker' = [worker EXCEPT ![v].at = "mirror_write", ![v].seen = cand]
    BY <1>11 DEF MirrorRead
  <2>2. CASE worker' = [worker EXCEPT ![v].at = "mirror_write", ![v].seen = cand]
    BY <1>1, <1>11, <2>2 DEF MirrorRead, Slots, Moves
  <2>3. QED  BY <1>3, <2>1, <2>2
<1>12. CASE Generate(v)
  <2>1. \/ Leave(v) \/ Write(v, "blocked") \/ Write(v, "validation_failed")
        \/ \E d \in Digests :
             worker' = [worker EXCEPT ![v].at = "transition", ![v].value = d,
                                      ![v].target = Outcome(d)]
    BY <1>12 DEF Generate
  <2>2. ASSUME NEW d \in Digests,
               worker' = [worker EXCEPT ![v].at = "transition", ![v].value = d,
                                        ![v].target = Outcome(d)]
        PROVE  Moves(v)
    BY <1>1, <1>12, <2>2 DEF Generate, Slots, Moves
  <2>3. worker[v].at # "idle"
    BY <1>12 DEF Generate
  <2>4. QED  BY <1>3, <1>5, <2>1, <2>2, <2>3
<1>13. CASE Fetch(v) \/ RestoreG3(v)
  <2>1. worker[v].at # "idle" /\ (Leave(v) \/ Go(v, "export") \/ Go(v, "fail"))
    BY <1>13 DEF Fetch, RestoreG3
  <2>2. QED  BY <1>3, <1>4, <2>1
<1>14. CASE Export(v)
  <2>1. \/ Leave(v) \/ Go(v, "restore") \/ Go(v, "fail")
        \/ \E m \in Manifests : worker' = [worker EXCEPT ![v].at = "publish", ![v].value = m]
    BY <1>14 DEF Export
  <2>2. ASSUME NEW m \in Manifests, worker' = [worker EXCEPT ![v].at = "publish", ![v].value = m]
        PROVE  Moves(v)
    BY <1>1, <1>14, <2>2 DEF Export, Slots, Moves
  <2>3. worker[v].at # "idle"
    BY <1>14 DEF Export
  <2>4. QED  BY <1>3, <1>4, <2>1, <2>2, <2>3
<1>15. CASE MarkReadyForG4(v)
  <2>1. worker[v].at = "publish"
    BY <1>15 DEF MarkReadyForG4
  <2>2. \/ Leave(v) \/ Go(v, "mirror_read") \/ Go(v, "restore")
        \/ /\ Holds(v) /\ Reserved(Task(v)) /\ cand'.version # cand.version
           /\ worker' = [worker EXCEPT ![v].at = "check", ![v].target = "ready_for_g4",
                                       ![v].seen = cand]
    <3>1. \/ Leave(v) \/ Go(v, "mirror_read") \/ Go(v, "restore")
          \/ /\ Holds(v) /\ Reserved(Task(v))
             /\ cand' = [cand EXCEPT !.status = "ready_for_g4", !.version = @ + 1,
                                     !.release.status = "ready_for_g4",
                                     !.release.manifest = worker[v].value]
             /\ worker' = [worker EXCEPT ![v].at = "check", ![v].target = "ready_for_g4",
                                         ![v].seen = cand]
      BY <1>15 DEF MarkReadyForG4, Dropped
    <3>2. ASSUME cand' = [cand EXCEPT !.status = "ready_for_g4", !.version = @ + 1,
                                      !.release.status = "ready_for_g4",
                                      !.release.manifest = worker[v].value]
          PROVE  cand'.version # cand.version
      <4>1. cand'.version = cand.version + 1 /\ cand.version \in Nat
        BY <1>1, <3>2 DEF Candidates
      <4>2. QED  BY <4>1
    <3>3. QED  BY <3>1, <3>2
  <2>3. CASE /\ Holds(v) /\ Reserved(Task(v)) /\ cand'.version # cand.version
             /\ worker' = [worker EXCEPT ![v].at = "check", ![v].target = "ready_for_g4",
                                         ![v].seen = cand]
    <3>1. Publishes(v)
      BY <1>15, <2>3, Publishing
    <3>2. /\ worker'[v].task = worker[v].task /\ worker'[v].token = worker[v].token
          /\ worker'[v].at = "check" /\ worker'[v].target = "ready_for_g4"
          /\ worker'[v].seen = cand
      BY <1>1, <2>3 DEF Slots
    <3>3. QED  BY <1>15, <2>1, <3>1, <3>2 DEF Moves
  <2>4. QED  BY <1>3, <1>4, <2>1, <2>2, <2>3
<1>16. CASE UNCHANGED worker
  BY <1>16
<1>17. ASSUME NEW r \in Reviewers, Review(r) \/ DecideG3(r) \/ DecideG4(r)
       PROVE  UNCHANGED worker
  BY <1>17 DEF Review, DecideG3, DecideG4
<1>18. /\ Create => UNCHANGED worker
       /\ \A k \in Keys : EnqueueReleaseExport(k) => UNCHANGED worker
       /\ \A t \in Tasks : CancelTask(t) => UNCHANGED worker
       /\ UNCHANGED vars => UNCHANGED worker
  BY DEF Create, EnqueueReleaseExport, CancelTask, vars
<1>19. ASSUME NEW w \in Workers,
              \/ Begin(w) \/ Transition(w) \/ Check(w) \/ Revert(w) \/ MirrorRead(w)
              \/ MirrorWrite(w) \/ Generate(w) \/ Fetch(w) \/ Export(w) \/ MarkReadyForG4(w)
              \/ RestoreG3(w) \/ Settle(w) \/ Crash(w) \/ \E t \in Tasks : Claim(w, t)
       PROVE  \/ worker'[v] = worker[v] \/ worker'[v].at = "idle"
              \/ \E t \in Tasks : Claims(v, t)
              \/ Moves(v)
  <2>1. CASE w = v
    BY <1>6, <1>7, <1>8, <1>9, <1>10, <1>11, <1>12, <1>13, <1>14, <1>15, <1>19, <2>1
  <2>2. QED  BY <1>2, <1>19, <2>1
<1>20. QED  BY <1>16, <1>17, <1>18, <1>19, Steps

-----------------------------------------------------------------------------
(* Tokens.                                                                 *)

\* Every step keeps the tokens sound.
LEMMA TokensStep ==
  ASSUME IInv, TokensAreSound, [Next]_vars
  PROVE  TokensAreSound'
<1>1. /\ state \in [Tasks -> States] /\ holder \in [Tasks -> Nat] /\ granted \in [Tasks -> Nat]
      /\ \A w \in Workers : worker[w] \in Slots /\ SlotIsSound(worker[w], evidence)
  BY DEF IInv, TypeOK, LifecycleTypeOK, SlotsAreSound
<1>2. /\ granted' \in [Tasks -> Nat]
      /\ \A t \in Tasks : /\ granted'[t] >= granted[t]
                          /\ \A w \in Workers : Claims(w, t) => granted'[t] = granted[t] + 1
      /\ \A t \in Tasks : state'[t] = "held" => holder'[t] = granted'[t]
  <2>1. ASSUME NEW t \in Tasks, Submit(t) \/ Revoke(t)
        PROVE  /\ granted' = granted
               /\ \A u \in Tasks : state'[u] = "held" => holder'[u] = granted'[u]
    BY <1>1, <2>1 DEF Submit, Revoke, TokensAreSound
  <2>2. ASSUME NEW t \in Tasks, Grant(t)
        PROVE  /\ granted' = [granted EXCEPT ![t] = @ + 1]
               /\ \A u \in Tasks : state'[u] = "held" => holder'[u] = granted'[u]
    BY <1>1, <2>2 DEF Grant, TokensAreSound
  <2>3. ASSUME NEW w \in Workers,
               Surrender(Task(w), worker[w].token,
                         IF worker[w].at = "succeed" THEN "succeeded" ELSE "failed_terminal")
        PROVE  /\ granted' = granted
               /\ \A u \in Tasks : state'[u] = "held" => holder'[u] = granted'[u]
    BY <1>1, <2>3 DEF Surrender, TokensAreSound
  <2>4. ASSUME UNCHANGED queue
        PROVE  /\ granted' = granted
               /\ \A u \in Tasks : state'[u] = "held" => holder'[u] = granted'[u]
    BY <1>1, <2>4 DEF queue, TokensAreSound
  <2>5. /\ \A t \in Tasks : state'[t] = "held" => holder'[t] = granted'[t]
        /\ granted' = granted \/ \E t \in Tasks : granted' = [granted EXCEPT ![t] = @ + 1]
    BY <2>1, <2>2, <2>3, <2>4, QueueSteps DEF queue
  <2>6. ASSUME NEW t \in Tasks, NEW w \in Workers, Claims(w, t)
        PROVE  granted'[t] = granted[t] + 1
    BY <1>1, <2>6 DEF Claims, Claim, Grant
  <2>7. QED  BY <1>1, <2>5, <2>6
<1>3. ASSUME NEW v \in Workers, worker'[v].at # "idle"
      PROVE  \/ \E t \in Tasks : Claims(v, t)
             \/ /\ worker[v].at # "idle" /\ worker[v].task \in Tasks
                /\ worker'[v].task = worker[v].task /\ worker'[v].token = worker[v].token
  BY <1>1, <1>3, SlotMoves DEF Moves, SlotIsSound
<1>4. ASSUME NEW v \in Workers, NEW t \in Tasks, Claims(v, t)
      PROVE  \A w \in Workers : w # v => worker'[w] = worker[w]
  <2>1. worker' = [worker EXCEPT ![v].at = "begin", ![v].task = t, ![v].token = granted[t] + 1]
    BY <1>4 DEF Claims, Claim
  <2>2. worker \in [Workers -> Slots]
    BY DEF IInv, TypeOK
  <2>3. QED  BY <2>1, <2>2
<1>5. ASSUME NEW v \in Workers, worker'[v].at # "idle"
      PROVE  worker'[v].token <= granted'[worker'[v].task]
  <2>1. CASE \E t \in Tasks : Claims(v, t)
    BY <1>1, <1>2, <2>1 DEF Claims
  <2>2. CASE /\ worker[v].at # "idle" /\ worker[v].task \in Tasks
             /\ worker'[v].task = worker[v].task /\ worker'[v].token = worker[v].token
    <3>1. worker[v].token <= granted[worker[v].task] /\ worker[v].token \in Nat
      BY <1>1, <2>2, SlotFields DEF TokensAreSound, Task
    <3>2. QED  BY <1>1, <1>2, <2>2, <3>1
  <2>3. QED  BY <1>3, <1>5, <2>1, <2>2
<1>6. ASSUME NEW v \in Workers, NEW w \in Workers, v # w, worker'[v].at # "idle",
             worker'[w].at # "idle", worker'[v].task = worker'[w].task
      PROVE  worker'[v].token # worker'[w].token
  <2>1. ASSUME NEW x \in Workers, NEW y \in Workers, x # y, worker'[x].at # "idle",
               worker'[y].at # "idle", worker'[x].task = worker'[y].task,
               NEW t \in Tasks, Claims(x, t)
        PROVE  worker'[x].token # worker'[y].token
    <3>1. worker'[y] = worker[y] /\ worker[y].at # "idle" /\ worker[y].task = t
      BY <1>4, <2>1 DEF Claims
    <3>2. worker[y].token <= granted[t] /\ worker[y].token \in Nat
      BY <1>1, <3>1, SlotFields DEF TokensAreSound, Task
    <3>3. QED  BY <1>1, <2>1, <3>1, <3>2 DEF Claims
  <2>2. CASE /\ worker[v].at # "idle" /\ worker[w].at # "idle"
             /\ worker'[v].task = worker[v].task /\ worker'[v].token = worker[v].token
             /\ worker'[w].task = worker[w].task /\ worker'[w].token = worker[w].token
    BY <1>6, <2>2 DEF TokensAreSound, Task
  <2>3. QED  BY <1>3, <1>6, <2>1, <2>2
<1>7. QED  BY <1>2, <1>5, <1>6 DEF TokensAreSound, Task

-----------------------------------------------------------------------------
(* The order of the writes.                                                *)

\* A write that is not a cancellation raises the version by one.
LEMMA VersionRises ==
  ASSUME IInv, WritesAreOrdered, [Next]_vars
  PROVE  \/ UNCHANGED cand
         \/ cand'.status = "cancelled"
         \/ cand'.version = cand.version + 1
<1>1. ASSUME NEW w \in Workers, Undoes(w)
      PROVE  cand'.version = cand.version + 1
  <2>1. worker[w].seen \in Candidates /\ cand.version = worker[w].seen.version + 1
    BY <1>1 DEF IInv, TypeOK, Slots, Undoes, StillWritten
  <2>2. cand'.version = worker[w].seen.version + 2 /\ worker[w].seen.version \in Nat
    BY <1>1, <2>1 DEF Undoes, Candidates
  <2>3. QED  BY <2>1, <2>2
<1>2. QED  BY <1>1, RowMoves
           DEF WritesAreOrdered, Enqueues, Decides, Cancels, Writes, Publishes, Restores

\* Once another write followed, a slot finds its own no longer.
LEMMA OldWrites ==
  ASSUME IInv, WritesAreOrdered, [Next]_vars, cand' # cand, NEW v \in Workers, Undoing(v),
         worker'[v].target = worker[v].target, worker'[v].seen = worker[v].seen
  PROVE  /\ ~StillWritten(v)'
         /\ cand'.status # "cancelled" => cand'.version > worker[v].seen.version + 1
<1>1. /\ cand.version \in Nat /\ worker[v].seen.version \in Nat
      /\ worker[v].target \in DOMAIN Allowed \union {"ready_for_g4"}
  <2>1. cand \in Candidates /\ worker[v] \in Slots /\ WriteIsSound(worker[v])
    BY DEF IInv, TypeOK, SlotsAreSound, SlotIsSound, Undoing
  <2>2. QED  BY <2>1 DEF WriteIsSound, Slots, Candidates
<1>2. CASE cand'.status = "cancelled"
  BY <1>1, <1>2, Statuses DEF StillWritten
<1>3. CASE cand'.status # "cancelled" /\ cand'.version = cand.version + 1
  <2>1. cand.status # "cancelled"
    BY <1>3, FinalStays
  <2>2. cand.version > worker[v].seen.version
    BY <2>1 DEF WritesAreOrdered
  <2>3. cand'.version > worker[v].seen.version + 1
    BY <1>1, <1>3, <2>2
  <2>4. ~StillWritten(v)'
    BY <1>1, <2>3 DEF StillWritten
  <2>5. QED  BY <2>3, <2>4
<1>4. QED  BY <1>2, <1>3, VersionRises

\* How a slot comes to be one that may take its write back.
LEMMA UndoingMoves ==
  ASSUME IInv, [Next]_vars, NEW v \in Workers, Undoing(v)'
  PROVE  \/ /\ Moves(v) /\ worker'[v].at = "check" /\ worker'[v].seen = cand
            /\ \/ Writes(v) /\ Transition(v) /\ worker'[v].target = worker[v].target
               \/ /\ Publishes(v) /\ MarkReadyForG4(v) /\ worker'[v].target = "ready_for_g4"
         \/ /\ Undoing(v) /\ worker'[v].task = worker[v].task
            /\ worker'[v].token = worker[v].token
            /\ worker'[v].target = worker[v].target /\ worker'[v].seen = worker[v].seen
            /\ \/ worker'[v] = worker[v]
               \/ Check(v) /\ ~Holds(v)
<1>1. After(worker[v].target) \notin {"check", "revert"}
  BY DEF After
<1>2. worker'[v].at \in {"check", "revert"}
  BY DEF Undoing
<1>3. QED  BY <1>1, <1>2, SlotMoves DEF Moves, Claims, Undoing

\* Every step keeps the writes in order.
LEMMA OrderStep ==
  ASSUME IInv, WritesAreOrdered, [Next]_vars
  PROVE  WritesAreOrdered'
<1>1. /\ cand \in Candidates
      /\ \A w \in Workers : worker[w] \in Slots /\ SlotIsSound(worker[w], evidence)
  BY DEF IInv, TypeOK, SlotsAreSound
<1>2. cand'.status = "absent" => cand'.version = 0
  <2>1. ASSUME NEW w \in Workers, Undoes(w)
        PROVE  cand'.status # "absent"
    <3>1. cand'.status = worker[w].seen.status
      BY <1>1, <2>1 DEF Undoes, Slots, Candidates
    <3>2. QED  BY <2>1, <3>1 DEF Undoes, WriteIsSound, Allowed
  <2>2. ASSUME NEW w \in Workers, Writes(w)
        PROVE  cand'.status # "absent"
    BY <2>2, Statuses DEF Writes
  <2>3. QED  BY <2>1, <2>2, RowMoves
             DEF WritesAreOrdered, Enqueues, Decides, Cancels, Publishes, Restores
<1>3. ASSUME NEW v \in Workers, Undoing(v)', cand'.status # "cancelled"
      PROVE  /\ cand'.version > worker'[v].seen.version
             /\ cand'.version = worker'[v].seen.version + 1 => StillWritten(v)'
  <2>1. CASE /\ Moves(v) /\ worker'[v].seen = cand
             /\ Writes(v) /\ worker'[v].target = worker[v].target
    <3>1. cand.version \in Nat /\ cand'.version = cand.version + 1
          /\ cand'.status = worker[v].target /\ worker[v].target # "ready_for_g4"
      BY <1>1, <2>1, Statuses DEF Writes, Candidates
    <3>2. QED  BY <2>1, <3>1 DEF StillWritten
  <2>2. CASE /\ Moves(v) /\ worker'[v].seen = cand
             /\ Publishes(v) /\ worker'[v].target = "ready_for_g4"
    <3>1. cand.version \in Nat /\ cand'.version = cand.version + 1
      BY <1>1, <2>2 DEF Publishes, Candidates
    <3>2. /\ cand'.status = "ready_for_g4" /\ cand'.release.task = worker[v].task
          /\ worker'[v].task = worker[v].task
      BY <2>2 DEF Publishes, Reserved, Moves
    <3>3. QED  BY <2>2, <3>1, <3>2 DEF StillWritten, Task
  <2>3. CASE /\ Undoing(v) /\ worker'[v].task = worker[v].task
             /\ worker'[v].target = worker[v].target /\ worker'[v].seen = worker[v].seen
    <3>1. CASE UNCHANGED cand
      BY <1>3, <2>3, <3>1 DEF WritesAreOrdered, StillWritten, Task
    <3>2. CASE cand' # cand
      <4>1. cand'.version > worker[v].seen.version + 1
        BY <1>3, <2>3, <3>2, OldWrites
      <4>2. worker[v].seen.version \in Nat
        BY <1>1 DEF Slots, Candidates
      <4>3. cand'.version \in Nat
        BY RowStep DEF Candidates
      <4>4. QED  BY <2>3, <4>1, <4>2, <4>3
    <3>3. QED  BY <3>1, <3>2
  <2>4. QED  BY <1>3, <2>1, <2>2, <2>3, UndoingMoves
<1>4. QED  BY <1>2, <1>3 DEF WritesAreOrdered

\* A task that is granted again has no result yet.
LEMMA ClaimUndone ==
  ASSUME IInv, TokensAreSound, [Next]_vars, NEW w \in Workers, NEW t \in Tasks, Claim(w, t)
  PROVE  ~Done(t)'
<1>1. /\ state \in [Tasks -> States] /\ holder \in [Tasks -> Nat] /\ granted \in [Tasks -> Nat]
      /\ \A v \in Workers : worker[v] \in Slots
  BY DEF IInv, TypeOK, LifecycleTypeOK
<1>2. state'[t] = "held" /\ holder'[t] = granted[t] + 1
  BY <1>1 DEF Claim, Grant
<1>3. ASSUME NEW v \in Workers, worker'[v].task = t, worker'[v].token = granted[t] + 1,
             worker'[v].at \in {"succeed", "check"}
      PROVE  FALSE
  <2>1. /\ worker[v].at # "idle" /\ worker[v].task = t /\ worker[v].token = granted[t] + 1
    BY <1>3, SlotMoves DEF Moves, Claims
  <2>2. worker[v].token <= granted[t]
    BY <2>1 DEF TokensAreSound, Task
  <2>3. granted[t] \in Nat
    BY <1>1
  <2>4. QED  BY <2>1, <2>2, <2>3
<1>4. QED  BY <1>2, <1>3 DEF Done, Holds, Task

-----------------------------------------------------------------------------
(* Results.                                                                *)

\* What a slot holds after a step, it held before, unless it claimed it.
LEMMA HeldBefore ==
  ASSUME IInv, TokensAreSound, [Next]_vars, NEW v \in Workers, worker[v].at # "idle",
         worker'[v].task = worker[v].task, worker'[v].token = worker[v].token, Holds(v)'
  PROVE  Holds(v)
<1>1. /\ state \in [Tasks -> States] /\ holder \in [Tasks -> Nat] /\ granted \in [Tasks -> Nat]
      /\ worker[v].task \in Tasks /\ worker[v].token \in Nat
      /\ worker[v].token <= granted[worker[v].task]
  BY SlotFields DEF IInv, TypeOK, LifecycleTypeOK, SlotsAreSound, SlotIsSound, TokensAreSound, Task
<1> DEFINE t == worker[v].task
<1>2. state'[t] = "held" /\ holder'[t] = worker[v].token
  BY DEF Holds, Task
<1>3. ASSUME NEW u \in Tasks, Submit(u) \/ Revoke(u)
      PROVE  Holds(v)
  BY <1>1, <1>2, <1>3 DEF Submit, Revoke, Holds, Task
<1>4. ASSUME NEW u \in Tasks, Grant(u)
      PROVE  Holds(v)
  <2>1. u # t
    BY <1>1, <1>2, <1>4 DEF Grant
  <2>2. QED  BY <1>1, <1>2, <1>4, <2>1 DEF Grant, Holds, Task
<1>5. ASSUME NEW u, NEW k, NEW s \in {"succeeded", "failed_terminal"}, Surrender(u, k, s)
      PROVE  Holds(v)
  BY <1>1, <1>2, <1>5 DEF Surrender, Holds, Task
<1>6. CASE UNCHANGED queue
  BY <1>2, <1>6 DEF queue, Holds, Task
<1>7. QED  BY <1>3, <1>4, <1>5, <1>6, QueueSteps

\* A task's result was there before, or is written by this step.
LEMMA DoneBefore ==
  ASSUME IInv, TokensAreSound, [Next]_vars, NEW t \in Tasks, Done(t)'
  PROVE  \/ Done(t)
         \/ \E w \in Workers : /\ worker[w].task = t
                               /\ \/ Writes(w) /\ worker[w].target \in {"ready_for_g3", "blocked"}
                                  \/ Publishes(w)
<1>1. /\ state \in [Tasks -> States]
      /\ \A w \in Workers : worker[w] \in Slots /\ SlotIsSound(worker[w], evidence)
  BY DEF IInv, TypeOK, LifecycleTypeOK, SlotsAreSound
<1>2. CASE state'[t] = "succeeded"
  <2>1. ASSUME NEW u \in Tasks, Submit(u) \/ Grant(u) \/ Revoke(u)
        PROVE  state[t] = "succeeded"
    BY <1>1, <1>2, <2>1 DEF Submit, Grant, Revoke
  <2>2. ASSUME NEW w \in Workers, Holds(w), worker[w].at \in {"succeed", "fail"},
               Surrender(Task(w), worker[w].token,
                         IF worker[w].at = "succeed" THEN "succeeded" ELSE "failed_terminal")
        PROVE  Done(t)
    <3>1. CASE Task(w) = t
      BY <1>1, <1>2, <2>2, <3>1 DEF Surrender, Done
    <3>2. CASE Task(w) # t
      BY <1>1, <1>2, <2>2, <3>2 DEF Surrender, Done
    <3>3. QED  BY <3>1, <3>2
  <2>3. CASE UNCHANGED queue
    BY <1>2, <2>3 DEF queue, Done
  <2>4. QED  BY <2>1, <2>2, <2>3, QueueSteps DEF Done
<1>3. ASSUME NEW v \in Workers, worker'[v].task = t, Holds(v)',
             \/ worker'[v].at = "succeed"
             \/ /\ worker'[v].at = "check"
                /\ worker'[v].target \in {"ready_for_g3", "blocked", "ready_for_g4"}
      PROVE  \/ Done(t)
             \/ \E w \in Workers : /\ worker[w].task = t
                                   /\ \/ /\ Writes(w)
                                         /\ worker[w].target \in {"ready_for_g3", "blocked"}
                                      \/ Publishes(w)
  <2>1. CASE worker'[v] = worker[v]
    <3>1. Holds(v)
      BY <1>3, <2>1, HeldBefore
    <3>2. QED  BY <1>3, <2>1, <3>1 DEF Done, Task
  <2>2. CASE /\ Moves(v) /\ worker'[v].at = "check"
             /\ Writes(v) /\ worker'[v].target = worker[v].target
    BY <1>3, <2>2, Statuses DEF Moves, Writes
  <2>3. CASE Moves(v) /\ Publishes(v)
    BY <1>3, <2>3 DEF Moves
  <2>4. CASE /\ Moves(v) /\ worker[v].at = "check" /\ Holds(v)
             /\ worker'[v].at = After(worker[v].target)
    <3>1. worker[v].target \notin {"executing", "validation_failed"}
      BY <1>3, <2>4 DEF After
    <3>2. worker[v].target \in {"ready_for_g3", "blocked", "ready_for_g4"}
      BY <1>1, <2>4, <3>1, Statuses DEF SlotIsSound, WriteIsSound
    <3>3. QED  BY <1>3, <2>4, <3>2 DEF Done, Task, Moves
  <2>5. QED  BY <1>3, <2>1, <2>2, <2>3, <2>4, SlotMoves DEF Moves, Claims
<1>4. QED  BY <1>2, <1>3 DEF Done, Task

\* A holder and a worker with the same task and token are one.
LEMMA OneHolder ==
  ASSUME IInv, TokensAreSound, NEW v \in Workers, NEW w \in Workers,
         worker[v].at # "idle", worker[w].at # "idle",
         worker[v].task = worker[w].task, Holds(v), Holds(w)
  PROVE  v = w
BY DEF TokensAreSound, Holds, Task

\* Every step keeps the results that are there.
LEMMA ResultsStep ==
  ASSUME IInv, TokensAreSound, WritesAreOrdered, ResultsStay, [Next]_vars
  PROVE  ResultsStay'
<1>1. /\ cand \in Candidates /\ state \in [Tasks -> States]
      /\ \A w \in Workers : worker[w] \in Slots /\ SlotIsSound(worker[w], evidence)
      /\ Gen \in Tasks /\ Keys \subseteq Tasks /\ Gen \notin Keys
  BY CandidateAssumption DEF IInv, TypeOK, LifecycleTypeOK, SlotsAreSound, Keys
<1>2. ASSUME NEW w \in Workers, Writes(w)
      PROVE  cand.status \in Generating /\ cand' # cand
  <2>1. \A g \in DOMAIN Allowed : Allowed[g] \subseteq Generating
    BY DEF Allowed, Generating
  <2>2. cand.version \in Nat
    BY <1>1 DEF Candidates
  <2>3. QED  BY <1>2, <2>1, <2>2 DEF Writes
<1>3. ASSUME NEW w \in Workers, Publishes(w)
      PROVE  cand' # cand
  <2>1. cand.version \in Nat
    BY <1>1 DEF Candidates
  <2>2. QED  BY <1>3, <2>1 DEF Publishes
<1>4. ASSUME NEW t \in Tasks, Done(t)'
      PROVE  NoUndo(t)'
  <2>1. SUFFICES ASSUME NEW v \in Workers, Undoing(v)', worker'[v].task = t, StillWritten(v)'
                 PROVE  worker'[v].at = "check" /\ Holds(v)'
    BY DEF NoUndo, Task
  <2>2. CASE /\ Moves(v) /\ worker'[v].at = "check"
             /\ (Writes(v) /\ Transition(v)) \/ (Publishes(v) /\ MarkReadyForG4(v))
    <3>1. UNCHANGED queue /\ Holds(v)
      BY <2>2 DEF Transition, MarkReadyForG4, Writes, Publishes
    <3>2. QED  BY <2>2, <3>1 DEF queue, Holds, Moves, Task
  <2>3. CASE /\ Undoing(v) /\ worker'[v].task = worker[v].task
             /\ worker'[v].token = worker[v].token
             /\ worker'[v].target = worker[v].target /\ worker'[v].seen = worker[v].seen
             /\ \/ worker'[v] = worker[v]
                \/ Check(v) /\ ~Holds(v)
    <3>1. UNCHANGED cand
      BY <2>1, <2>3, OldWrites
    <3>2. StillWritten(v)
      BY <2>1, <2>3, <3>1 DEF StillWritten, Task
    <3>3. Done(t)
      BY <1>2, <1>3, <1>4, <3>1, DoneBefore
    <3>4. worker[v].at = "check" /\ Holds(v)
      BY <1>1, <1>4, <2>1, <2>3, <3>2, <3>3 DEF ResultsStay, NoUndo, Task, Keys
    <3>5. worker'[v] = worker[v]
      BY <2>3, <3>4
    <3>6. state[t] = "held" /\ holder[t] = worker[v].token
      BY <2>1, <2>3, <3>4 DEF Holds, Task
    <3>7. state'[t] = "held" /\ holder'[t] = holder[t]
      <4>1. state \in [Tasks -> States] /\ holder \in [Tasks -> Nat]
        BY DEF IInv, TypeOK, LifecycleTypeOK
      <4>2. ASSUME NEW w \in Workers, Claim(w, t)
            PROVE  FALSE
        BY <1>4, <4>2, ClaimUndone
      <4>3. ASSUME NEW u \in Tasks, u # t, Submit(u) \/ Revoke(u) \/ Grant(u)
            PROVE  state'[t] = "held" /\ holder'[t] = holder[t]
        BY <3>6, <4>3, <4>1 DEF Submit, Revoke, Grant
      <4>4. ~Submit(t)
        BY <3>6 DEF Submit
      <4>5. ASSUME Revoke(t)
            PROVE  FALSE
        <5>1. state'[t] = "cancelled"
          BY <1>1, <4>5 DEF Revoke
        <5>2. QED  BY <1>4, <5>1 DEF Done, Holds, Task
      <4>6. ASSUME NEW w \in Workers, Holds(w), worker[w].at \in {"succeed", "fail"},
                   Surrender(Task(w), worker[w].token,
                             IF worker[w].at = "succeed" THEN "succeeded" ELSE "failed_terminal")
            PROVE  state'[t] = "held" /\ holder'[t] = holder[t]
        <5>1. Task(w) # t
          BY <2>1, <2>3, <3>4, <4>6, OneHolder DEF Task
        <5>2. QED  BY <1>1, <3>6, <4>6, <5>1 DEF Surrender
      <4>7. CASE UNCHANGED queue
        BY <3>6, <4>7 DEF queue
      <4>8. QED  BY <4>2, <4>3, <4>4, <4>5, <4>6, <4>7, QueueSteps
    <3>8. QED  BY <2>1, <3>4, <3>5, <3>6, <3>7 DEF Holds, Task
  <2>4. \/ /\ Moves(v) /\ worker'[v].at = "check"
           /\ (Writes(v) /\ Transition(v)) \/ (Publishes(v) /\ MarkReadyForG4(v))
        \/ /\ Undoing(v) /\ worker'[v].task = worker[v].task
           /\ worker'[v].token = worker[v].token
           /\ worker'[v].target = worker[v].target /\ worker'[v].seen = worker[v].seen
           /\ \/ worker'[v] = worker[v]
              \/ Check(v) /\ ~Holds(v)
    BY <2>1, UndoingMoves
  <2>5. QED  BY <2>2, <2>3, <2>4
<1>5. ASSUME Done(Gen)'
      PROVE  cand'.status \notin Generating \union {"absent"}
  <2>1. CASE Done(Gen)
    <3>1. cand.status \notin Generating \union {"absent"} /\ NoUndo(Gen)
      BY <2>1 DEF ResultsStay
    <3>2. ASSUME NEW w \in Workers, Undoes(w)
          PROVE  cand'.status \notin Generating \union {"absent"}
      <4>1. worker[w].task # Gen
        BY <3>1, <3>2 DEF Undoes, NoUndo, Undoing, Task
      <4>2. worker[w].seen.status = "release_pending" /\ worker[w].seen \in Candidates
        BY <1>1, <3>2, <4>1 DEF Undoes, WriteIsSound, Slots
      <4>3. cand'.status = "release_pending"
        BY <3>2, <4>2 DEF Undoes, Candidates
      <4>4. QED  BY <4>3 DEF Generating
    <3>3. QED  BY <1>2, <3>1, <3>2, RowMoves
               DEF Generating, Enqueues, Decides, Cancels, Publishes, Restores
  <2>2. CASE \E w \in Workers :
               /\ worker[w].task = Gen
               /\ \/ Writes(w) /\ worker[w].target \in {"ready_for_g3", "blocked"}
                  \/ Publishes(w)
    BY <1>1, <2>2 DEF Writes, Publishes, Generating
  <2>3. QED  BY <1>1, <1>5, <2>1, <2>2, DoneBefore
<1>6. ASSUME NEW k \in Keys, Done(k)'
      PROVE  /\ cand'.status \in Exported \union {"cancelled"}
             /\ cand'.status \in Exported => cand'.release.task = k
  <2>1. CASE Done(k)
    <3>1. /\ cand.status \in Exported \union {"cancelled"}
          /\ cand.status \in Exported => cand.release.task = k
          /\ NoUndo(k)
      BY <2>1 DEF ResultsStay
    <3>2. ASSUME NEW w \in Workers, Undoes(w)
          PROVE  FALSE
      <4>1. worker[w].task # k
        BY <3>1, <3>2 DEF Undoes, NoUndo, Undoing, Task
      <4>2. cand.status = worker[w].target
        BY <3>2 DEF Undoes, StillWritten
      <4>3. worker[w].target = "ready_for_g4"
        BY <3>1, <3>2, <4>2, Statuses DEF Undoes, WriteIsSound, Exported
      <4>4. cand.release.task = worker[w].task
        BY <3>2, <4>3 DEF Undoes, StillWritten, Task
      <4>5. QED  BY <3>1, <4>1, <4>2, <4>3, <4>4 DEF Exported
    <3>3. cand.status = "cancelled" => cand'.status = "cancelled"
      BY FinalStays
    <3>4. QED  BY <1>2, <3>1, <3>2, <3>3, RowMoves
               DEF Generating, Exported, Enqueues, Decides, Cancels, Publishes, Restores, Reserved
  <2>2. CASE \E w \in Workers :
               /\ worker[w].task = k
               /\ \/ Writes(w) /\ worker[w].target \in {"ready_for_g3", "blocked"}
                  \/ Publishes(w)
    BY <1>1, <2>2 DEF Writes, Publishes, Exported, Reserved
  <2>3. QED  BY <1>1, <1>6, <2>1, <2>2, DoneBefore
<1>7. QED  BY <1>1, <1>4, <1>5, <1>6 DEF ResultsStay

\* What a task was said to have achieved is there for the next one to use,
\* whatever the workers that lost it take back.
THEOREM ResultsHold == Spec => []ResultsAreVisible
<1>1. Init => RInv
  <2>1. SUFFICES ASSUME Init
                 PROVE  RInv
    OBVIOUS
  <2>2. /\ \A w \in Workers : worker[w].at = "idle"
        /\ \A t \in Tasks : state[t] = "absent"
        /\ cand.version = 0
    BY <2>1 DEF Init, LifecycleInit, IdleSlot, NoCandidate
  <2>3. TokensAreSound
    BY <2>2 DEF TokensAreSound
  <2>4. WritesAreOrdered
    BY <2>2 DEF WritesAreOrdered, Undoing
  <2>5. ResultsStay
    BY <2>2, CandidateAssumption DEF ResultsStay, Done, Keys
  <2>6. QED  BY <2>1, <2>3, <2>4, <2>5, InitIInv DEF RInv
<1>2. RInv /\ [Next]_vars => RInv'
  BY NextIInv, TokensStep, OrderStep, ResultsStep DEF RInv
<1>3. RInv => ResultsAreVisible
  <2>1. SUFFICES ASSUME RInv
                 PROVE  ResultsAreVisible
    OBVIOUS
  <2>2. TypeOK /\ RowIsSound(cand, evidence)
    BY <2>1 DEF RInv, IInv, RowsAreSound
  <2>3. SuccessIsVisible
    BY <2>1 DEF RInv, ResultsStay, Done, SuccessIsVisible
  <2>4. ExportIsVisible
    BY <2>1, <2>2 DEF RInv, ResultsStay, Done, ExportIsVisible, Exported, RowIsSound
  <2>5. QED  BY <2>2, <2>3, <2>4 DEF ResultsAreVisible
<1>4. QED  BY <1>1, <1>2, <1>3, PTL DEF Spec

-----------------------------------------------------------------------------
(* The decision at G4, as long as no lease lapses under a live worker.     *)

\* Every slot that works holds its task, or the task was cancelled, and none
\* is about to take its write back.
LeasesKept ==
  \A w \in Workers : worker[w].at # "idle" =>
    /\ Holds(w) \/ Cancelled(w)
    /\ worker[w].at # "revert"

\* What a reviewer has read for G4 is still what the candidate would release.
ReviewsAgree ==
  \A r \in Reviewers : review[r].status = "ready_for_g4" =>
    \/ cand.status = "cancelled"
    \/ cand.status \in Exported /\ cand.release.manifest = review[r].release.manifest

\* Nothing is decided before there is a release to decide about.
DecisionsAgree ==
  /\ cand.status \notin Exported \union {"cancelled"} => cand.g4 = Nobody
  /\ DecidedManifest

Steady == LeasesKept /\ ReviewsAgree /\ DecisionsAgree

GInv == IInv /\ TokensAreSound /\ (spent.lapse = 0 => Steady)

\* A lapse is not forgotten.
LEMMA NoLapseBefore ==
  ASSUME IInv, [Next]_vars, spent'.lapse = 0
  PROVE  spent.lapse = 0
<1>1. spent \in [DOMAIN Limit -> Nat]
  BY DEF IInv, TypeOK
<1>2. UNCHANGED spent \/ \E event \in DOMAIN Limit : Spend(event)
  BY SpentSteps
<1>3. DOMAIN Limit = {"lapse", "crash", "surprise", "reuse", "rejection"}
  BY DEF Limit
<1>4. ASSUME NEW event \in DOMAIN Limit, Spend(event)
      PROVE  spent.lapse = 0
  BY <1>1, <1>3, <1>4 DEF Spend
<1>5. QED  BY <1>2, <1>4

\* A slot that is not interrupted keeps its task until it ends it.
LEMMA LeasesStep ==
  ASSUME IInv, TokensAreSound, LeasesKept, [Next]_vars, spent.lapse = 0, spent'.lapse = 0
  PROVE  LeasesKept'
<1>1. /\ state \in [Tasks -> States] /\ holder \in [Tasks -> Nat] /\ granted \in [Tasks -> Nat]
      /\ worker \in [Workers -> Slots] /\ spent \in [DOMAIN Limit -> Nat]
      /\ \A w \in Workers : worker[w].at # "idle" => worker[w].task \in Tasks
      /\ "lapse" \in DOMAIN Limit
  BY DEF IInv, TypeOK, LifecycleTypeOK, SlotsAreSound, SlotIsSound, Limit
<1>2. ASSUME NEW v \in Workers, NEW t \in Tasks, Claims(v, t)
      PROVE  Holds(v)' /\ worker'[v].at # "revert"
  BY <1>1, <1>2 DEF Claims, Claim, Grant, Holds, Task
<1>3. ASSUME NEW v \in Workers, worker[v].at # "idle", worker'[v].at # "idle",
             worker'[v].task = worker[v].task, worker'[v].token = worker[v].token
      PROVE  Holds(v)' \/ Cancelled(v)'
  <2> DEFINE t == worker[v].task
  <2>1. t \in Tasks /\ (Holds(v) \/ Cancelled(v))
    BY <1>1, <1>3 DEF LeasesKept
  <2>2. SUFFICES \/ state'[t] = "cancelled"
                 \/ state'[t] = "held" /\ holder'[t] = worker[v].token
    BY <1>3 DEF Holds, Cancelled, Task
  <2>3. \/ state[t] = "cancelled"
        \/ state[t] = "held" /\ holder[t] = worker[v].token
    BY <2>1 DEF Holds, Cancelled, Task
  <2>4. ASSUME NEW u \in Tasks, Submit(u) \/ Revoke(u)
        PROVE  \/ state'[t] = "cancelled"
               \/ state'[t] = "held" /\ holder'[t] = worker[v].token
    BY <1>1, <2>1, <2>3, <2>4 DEF Submit, Revoke
  <2>5. ASSUME NEW w \in Workers, NEW u \in Tasks, Claim(w, u), Grant(u)
        PROVE  \/ state'[t] = "cancelled"
               \/ state'[t] = "held" /\ holder'[t] = worker[v].token
    <3>1. CASE u # t
      BY <1>1, <2>1, <2>3, <2>5, <3>1 DEF Grant
    <3>2. CASE u = t
      <4>1. state[t] = "held" /\ holder[t] = worker[v].token
        BY <2>3, <2>5, <3>2 DEF Grant
      <4>2. Runs(t)
        BY <1>3, <4>1 DEF Runs, Task
      <4>3. Spend("lapse")
        BY <2>5, <3>2, <4>1, <4>2 DEF Claim
      <4>4. spent'.lapse = spent.lapse + 1
        BY <1>1, <4>3 DEF Spend
      <4>5. QED  BY <4>4
    <3>3. QED  BY <3>1, <3>2
  <2>6. ASSUME NEW w \in Workers, Settle(w), Holds(w), worker[w].at \in {"succeed", "fail"},
               Surrender(Task(w), worker[w].token,
                         IF worker[w].at = "succeed" THEN "succeeded" ELSE "failed_terminal")
        PROVE  \/ state'[t] = "cancelled"
               \/ state'[t] = "held" /\ holder'[t] = worker[v].token
    <3>1. CASE Task(w) # t
      BY <1>1, <2>1, <2>3, <2>6, <3>1 DEF Surrender
    <3>2. CASE Task(w) = t
      <4>1. Holds(v)
        BY <2>1, <2>6, <3>2 DEF Holds, Cancelled, Task
      <4>2. v = w
        BY <1>3, <2>6, <3>2, <4>1, OneHolder DEF Task
      <4>3. worker'[v].at = "idle"
        BY <1>1, <2>6, <4>2 DEF Settle, Leave, IdleSlot
      <4>4. QED  BY <1>3, <4>3
    <3>3. QED  BY <3>1, <3>2
  <2>7. CASE UNCHANGED queue
    BY <2>3, <2>7 DEF queue
  <2>8. QED  BY <2>4, <2>5, <2>6, <2>7, QueueSteps
<1>4. ASSUME NEW v \in Workers, worker[v].at # "idle"
      PROVE  worker'[v].at # "revert"
  <2>1. CASE worker'[v] = worker[v]
    BY <1>4, <2>1 DEF LeasesKept
  <2>2. CASE Check(v)
    <3>1. ASSUME NEW a, Go(v, a)
          PROVE  worker'[v].at = a
      BY <1>1, <3>1 DEF Go, Slots
    <3>2. CASE Holds(v)
      <4>1. Go(v, After(worker[v].target))
        BY <2>2, <3>2 DEF Check
      <4>2. After(worker[v].target) # "revert"
        BY DEF After
      <4>3. QED  BY <3>1, <4>1, <4>2
    <3>3. CASE ~Holds(v)
      <4>1. Cancelled(v)
        BY <1>4, <3>3 DEF LeasesKept
      <4>2. Go(v, "mirror_read")
        BY <2>2, <3>3, <4>1 DEF Check
      <4>3. QED  BY <3>1, <4>2
    <3>4. QED  BY <3>2, <3>3
  <2>3. QED  BY <1>2, <2>1, <2>2, SlotMoves DEF Moves
<1>5. ASSUME NEW v \in Workers, worker'[v].at # "idle"
      PROVE  (Holds(v)' \/ Cancelled(v)') /\ worker'[v].at # "revert"
  <2>1. \/ \E t \in Tasks : Claims(v, t)
        \/ /\ worker[v].at # "idle"
           /\ worker'[v].task = worker[v].task /\ worker'[v].token = worker[v].token
    BY <1>5, SlotMoves DEF Moves
  <2>2. QED  BY <1>2, <1>3, <1>4, <1>5, <2>1
<1>6. QED  BY <1>5 DEF LeasesKept

\* A row that may be decided about at G4 is moved on by the decision alone,
\* unless its writer takes it back or it is cancelled.
LEMMA DecisionMoves ==
  ASSUME IInv, [Next]_vars, \A w \in Workers : worker[w].at # "revert"
  PROVE  \/ UNCHANGED cand
         \/ cand'.status = "cancelled"
         \/ cand.status \notin Exported \union {"cancelled"} /\ cand'.g4 \in {cand.g4, Nobody}
         \/ \E r \in Reviewers :
              /\ review[r].status = "ready_for_g4" /\ cand.status = "ready_for_g4"
              /\ cand'.status \in Exported
              /\ cand'.g4 = review[r].release.manifest
              /\ cand'.release.manifest = cand.release.manifest
<1> DEFINE Early == /\ cand.status \notin Exported \union {"cancelled"}
                    /\ cand'.g4 \in {cand.g4, Nobody}
<1>1. cand \in Candidates /\ cand.release \in Releases
  BY DEF IInv, TypeOK, Candidates
<1>2. ASSUME Create
      PROVE  Early
  BY <1>1, <1>2 DEF Create, Candidates, Exported
<1>3. ASSUME NEW k \in Keys, EnqueueReleaseExport(k)
      PROVE  Early
  BY <1>1, <1>3 DEF EnqueueReleaseExport, MayExport, Candidates, Exported
<1>4. ASSUME NEW r \in Reviewers, DecideG3(r)
      PROVE  UNCHANGED cand \/ Early
  BY <1>1, <1>4 DEF DecideG3, G3Decidable, Candidates, Exported
<1>5. ASSUME NEW r \in Reviewers, DecideG4(r)
      PROVE  \/ UNCHANGED cand
             \/ /\ review[r].status = "ready_for_g4" /\ cand.status = "ready_for_g4"
                /\ cand'.status \in Exported
                /\ cand'.g4 = review[r].release.manifest
                /\ cand'.release.manifest = cand.release.manifest
  <2> DEFINE m == review[r].release.manifest
  <2>1. review[r].status = "ready_for_g4"
    BY <1>5 DEF DecideG4
  <2>2. \/ UNCHANGED cand
        \/ /\ cand.status = "ready_for_g4"
           /\ \/ cand' = [cand EXCEPT !.status = "released", !.version = @ + 1,
                                      !.g4 = m, !.release.status = "released"]
              \/ cand' = [cand EXCEPT !.version = @ + 1, !.g4 = m]
    BY <1>5 DEF DecideG4, G4Decidable
  <2> HIDE DEF m
  <2>3. ASSUME cand' = [cand EXCEPT !.status = "released", !.version = @ + 1,
                                    !.g4 = m, !.release.status = "released"]
        PROVE  /\ cand'.status \in Exported /\ cand'.g4 = m
               /\ cand'.release.manifest = cand.release.manifest
    <3>1. /\ cand'.status = "released" /\ cand'.g4 = m
          /\ cand'.release = [cand.release EXCEPT !.status = "released"]
      BY <1>1, <2>3 DEF Candidates
    <3>2. cand'.release.manifest = cand.release.manifest
      BY <1>1, <3>1 DEF Releases
    <3>3. QED  BY <3>1, <3>2 DEF Exported
  <2>4. ASSUME cand.status = "ready_for_g4", cand' = [cand EXCEPT !.version = @ + 1, !.g4 = m]
        PROVE  /\ cand'.status \in Exported /\ cand'.g4 = m
               /\ cand'.release.manifest = cand.release.manifest
    BY <1>1, <2>4 DEF Candidates, Exported
  <2>5. QED  BY <2>1, <2>2, <2>3, <2>4 DEF m
<1>6. ASSUME NEW w \in Workers, Transition(w), Writes(w)
      PROVE  UNCHANGED cand \/ Early
  <2>1. UNCHANGED cand \/ cand' = Written(w)
    BY <1>6 DEF Transition
  <2>2. \A g \in DOMAIN Allowed : Allowed[g] \subseteq Generating
    BY DEF Allowed, Generating
  <2>3. cand.status \in Generating
    BY <1>6, <2>2 DEF Writes
  <2>4. QED  BY <1>1, <2>1, <2>3 DEF Written, Candidates, Generating, Exported
<1>7. ASSUME NEW w \in Workers, MarkReadyForG4(w), Publishes(w)
      PROVE  UNCHANGED cand \/ Early
  <2>1. cand.status = "release_pending"
    BY <1>7 DEF Publishes, Reserved
  <2>2. UNCHANGED cand \/ cand'.g4 = cand.g4
    BY <1>1, <1>7 DEF MarkReadyForG4, Candidates
  <2>3. QED  BY <2>1, <2>2 DEF Exported
<1>8. ASSUME NEW w \in Workers, RestoreG3(w), Restores(w)
      PROVE  UNCHANGED cand \/ Early
  <2>1. cand.status = "release_pending"
    BY <1>8 DEF Restores, Reserved
  <2>2. UNCHANGED cand \/ cand'.g4 = cand.g4
    BY <1>1, <1>8 DEF RestoreG3, Candidates
  <2>3. QED  BY <2>1, <2>2 DEF Exported
<1>9. QED  BY <1>2, <1>3, <1>4, <1>5, <1>6, <1>7, <1>8, RowMoves DEF Cancels, Undoes

\* A reviewer keeps the row that was read, drops it, or reads the row anew.
LEMMA ReviewMoves ==
  ASSUME IInv, [Next]_vars, NEW r \in Reviewers
  PROVE  \/ review'[r] = review[r]
         \/ review'[r].status = "absent"
         \/ UNCHANGED cand /\ review'[r] = cand
<1>1. review \in [Reviewers -> Candidates] /\ NoCandidate.status = "absent"
  BY DEF IInv, TypeOK, NoCandidate
<1>2. ASSUME NEW q \in Reviewers, Review(q)
      PROVE  review'[r] = review[r] \/ (UNCHANGED cand /\ review'[r] = cand)
  BY <1>1, <1>2 DEF Review
<1>3. ASSUME NEW q \in Reviewers, DecideG3(q) \/ DecideG4(q)
      PROVE  review'[r] = review[r] \/ review'[r].status = "absent"
  BY <1>1, <1>3 DEF DecideG3, DecideG4
<1>4. ASSUME NEW w \in Workers,
             \/ Begin(w) \/ Transition(w) \/ Check(w) \/ Revert(w) \/ MirrorRead(w)
             \/ MirrorWrite(w) \/ Generate(w) \/ Fetch(w) \/ Export(w) \/ MarkReadyForG4(w)
             \/ RestoreG3(w) \/ Settle(w) \/ Crash(w) \/ \E t \in Tasks : Claim(w, t)
      PROVE  UNCHANGED review
  BY <1>4 DEF Begin, Transition, Check, Revert, MirrorRead, MirrorWrite, Generate, Fetch,
              Export, MarkReadyForG4, RestoreG3, Settle, Crash, Claim
<1>5. /\ Create => UNCHANGED review
      /\ \A k \in Keys : EnqueueReleaseExport(k) => UNCHANGED review
      /\ \A t \in Tasks : CancelTask(t) => UNCHANGED review
      /\ UNCHANGED vars => UNCHANGED review
  BY DEF Create, EnqueueReleaseExport, CancelTask, vars
<1>6. QED  BY <1>2, <1>3, <1>4, <1>5, Steps

\* The reviewers go on seeing what the candidate would release.
LEMMA DecisionStep ==
  ASSUME IInv, Steady, [Next]_vars
  PROVE  ReviewsAgree' /\ DecisionsAgree'
<1>1. \A w \in Workers : worker[w].at # "revert"
  BY DEF Steady, LeasesKept
<1>2. ReviewsAgree'
  <2>1. SUFFICES ASSUME NEW r \in Reviewers, review'[r].status = "ready_for_g4"
                 PROVE  \/ cand'.status = "cancelled"
                        \/ /\ cand'.status \in Exported
                           /\ cand'.release.manifest = review'[r].release.manifest
    BY DEF ReviewsAgree
  <2>2. CASE UNCHANGED cand /\ review'[r] = cand
    BY <2>1, <2>2 DEF Exported
  <2>3. CASE review'[r] = review[r]
    <3>1. \/ cand.status = "cancelled"
          \/ cand.status \in Exported /\ cand.release.manifest = review[r].release.manifest
      BY <2>1, <2>3 DEF Steady, ReviewsAgree
    <3>2. cand.status = "cancelled" => cand'.status = "cancelled"
      BY FinalStays
    <3>3. QED  BY <1>1, <2>3, <3>1, <3>2, DecisionMoves
  <2>4. QED  BY <2>1, <2>2, <2>3, ReviewMoves
<1>3. DecisionsAgree'
  <2>1. /\ cand.status \notin Exported \union {"cancelled"} => cand.g4 = Nobody
        /\ cand.g4 # Nobody /\ cand.status \in Exported => cand.g4 = cand.release.manifest
        /\ \A r \in Reviewers : review[r].status = "ready_for_g4" /\ cand.status = "ready_for_g4" =>
             cand.release.manifest = review[r].release.manifest
    BY DEF Steady, ReviewsAgree, DecisionsAgree, DecidedManifest, Exported
  <2>2. CASE UNCHANGED cand
    BY <2>1, <2>2 DEF DecisionsAgree, DecidedManifest, Exported
  <2>3. CASE cand'.status = "cancelled"
    BY <2>3 DEF DecisionsAgree, DecidedManifest
  <2>4. CASE cand.status \notin Exported \union {"cancelled"} /\ cand'.g4 \in {cand.g4, Nobody}
    BY <2>1, <2>4 DEF DecisionsAgree, DecidedManifest
  <2>5. ASSUME NEW r \in Reviewers, review[r].status = "ready_for_g4",
               cand.status = "ready_for_g4", cand'.status \in Exported,
               cand'.g4 = review[r].release.manifest,
               cand'.release.manifest = cand.release.manifest
        PROVE  DecisionsAgree'
    BY <2>1, <2>5 DEF DecisionsAgree, DecidedManifest
  <2>6. QED  BY <1>1, <2>2, <2>3, <2>4, <2>5, DecisionMoves
<1>4. QED  BY <1>2, <1>3

\* What is released went through both gates; and as long as no lease lapses
\* under a live worker, a decision at G4 names the manifest that the
\* candidate's release has, through reruns after crashes, rejections and
\* cancellations between the reading and the decision.
THEOREM G4Holds == Spec => []G4IsBacked
<1>1. Init => GInv
  <2>1. SUFFICES ASSUME Init
                 PROVE  GInv
    OBVIOUS
  <2>2. /\ \A w \in Workers : worker[w].at = "idle"
        /\ \A t \in Tasks : state[t] = "absent"
        /\ \A r \in Reviewers : review[r].status = "absent"
        /\ cand.g4 = Nobody
    BY <2>1 DEF Init, LifecycleInit, IdleSlot, NoCandidate
  <2>3. TokensAreSound
    BY <2>2 DEF TokensAreSound
  <2>4. Steady
    BY <2>2 DEF Steady, LeasesKept, ReviewsAgree, DecisionsAgree, DecidedManifest
  <2>5. QED  BY <2>1, <2>3, <2>4, InitIInv DEF GInv
<1>2. GInv /\ [Next]_vars => GInv'
  <2>1. SUFFICES ASSUME GInv, [Next]_vars
                 PROVE  GInv'
    OBVIOUS
  <2>2. IInv' /\ TokensAreSound'
    BY <2>1, NextIInv, TokensStep DEF GInv
  <2>3. ASSUME spent'.lapse = 0
        PROVE  Steady'
    <3>1. spent.lapse = 0
      BY <2>1, <2>3, NoLapseBefore DEF GInv
    <3>2. Steady
      BY <2>1, <3>1 DEF GInv
    <3>3. LeasesKept'
      BY <2>1, <2>3, <3>1, <3>2, LeasesStep DEF GInv, Steady
    <3>4. ReviewsAgree' /\ DecisionsAgree'
      BY <2>1, <3>2, DecisionStep DEF GInv
    <3>5. QED  BY <3>3, <3>4 DEF Steady
  <2>4. QED  BY <2>2, <2>3 DEF GInv
<1>3. GInv => G4IsBacked
  <2>1. SUFFICES ASSUME GInv
                 PROVE  G4IsBacked
    OBVIOUS
  <2>2. ReleasedIsBacked
    BY <2>1 DEF GInv, IInv, RowsAreSound, RowIsSound, ReleasedIsBacked, Approved, Exported
  <2>3. spent.lapse = 0 => DecidedManifest
    BY <2>1 DEF GInv, Steady, DecisionsAgree
  <2>4. QED  BY <2>2, <2>3 DEF G4IsBacked
<1>4. QED  BY <1>1, <1>2, <1>3, PTL DEF Spec
===============================================================================
