----------------------- MODULE EvidencePublicationProofs -----------------------
(***************************************************************************)
(* What EvidencePublication keeps for every number of tasks, reports,      *)
(* contents and workers, whatever dies, lapses or is cancelled meanwhile.  *)
(***************************************************************************)
EXTENDS EvidencePublication, TLAPS

Single == {"check", "insert", "insert_both", "note"}
Busy   == {"publish", "register"} \union Single
Batch  == {"candidate", "release"}
KindsOf(f) == 1 .. IF f = "probe" THEN 1 ELSE Reports

\* A slot whose task is in state s and was enqueued as f: the task was
\* submitted, nothing was made before the tools ran, and what is under way
\* fits the kind of the task.
SlotIsSound(slot, s, f) ==
  /\ slot.at # "idle" => slot.task \in Tasks /\ s # "absent"
  /\ slot.at \in {"idle", "begin"} => slot.part = 1 /\ \A i \in Parts : slot.link[i] = "none"
  /\ slot.at \in Busy =>
       /\ slot.part \in KindsOf(f)
       /\ \A i \in KindsOf(f) : slot.bytes[i] \in Digests
  /\ slot.at \in Single => f \notin Batch
  /\ slot.at = "register" => f \in Batch

SlotsAreSound == \A w \in Workers : SlotIsSound(worker[w], state[Task(w)], flow[Task(w)])

\* A slot whose task has the evidence e, and the notes n of all tasks: what
\* the run has behind it is recorded, to the byte, and noted.
Behind(slot, e, i) == e[i] # Nobody /\ e[i] = slot.bytes[i]

WorkIsSound(slot, e, n, f) ==
  /\ slot.at \in {"publish"} \union Single /\ f \notin Batch =>
       \A i \in KindsOf(f) : i < slot.part => Behind(slot, e, i) /\ <<slot.task, i>> \in n
  /\ slot.at = "note" => Behind(slot, e, slot.part) /\ f # "probe"
  /\ slot.at = "succeed" => \A i \in KindsOf(f) :
       Behind(slot, e, i) /\ (f # "probe" => <<slot.task, i>> \in n)

WorkIsRecorded ==
  \A w \in Workers : WorkIsSound(worker[w], evidence[Task(w)], noted, flow[Task(w)])

\* Evidence has a row, and a task that was not submitted has none.
BooksAreSound ==
  \A t \in Tasks : \A i \in Parts : evidence[t][i] # Nobody =>
    evidence[t][i] \in rows /\ state[t] # "absent"

\* An object was made by one publication at most.
MadeOnce ==
  \A v, w \in Workers : \A i, j \in Parts :
    /\ worker[v].link[i] = "new" /\ worker[w].link[j] = "new"
    /\ worker[v].bytes[i] = worker[w].bytes[j]
    => v = w /\ i = j

IInv == /\ TypeOK /\ SlotsAreSound /\ WorkIsRecorded /\ BooksAreSound
        /\ MadeOnce /\ MadeIsStored /\ ReleasesAreStored /\ SuccessIsEvident

\* The kinds of reports, from the flow of a task.
LEMMA KindsAre ==
  \A t \in Tasks : /\ Kinds(t) = KindsOf(flow[t]) /\ Kinds(t) \subseteq Parts /\ Parts \subseteq Nat
                   /\ flow[t] \in Batch => Kinds(t) = Parts
                   /\ Batched(t) <=> flow[t] \in Batch
BY EvidenceAssumption DEF Kinds, KindsOf, Last, Batched, Batch, Parts

-----------------------------------------------------------------------------
(* The tasks and the books.                                                *)

\* Every step is a slot's, a submission or a cancellation.
LEMMA Steps ==
  ASSUME [Next]_vars
  PROVE  \/ UNCHANGED vars
         \/ \E t \in Tasks : Enqueue(t) \/ CancelTask(t)
         \/ \E w \in Workers :
              \/ Replay(w) \/ RunTools(w) \/ LoseAtBegin(w) \/ Publish(w) \/ PublishFails(w)
              \/ CheckReport(w) \/ InsertReport(w) \/ NoteFindings(w) \/ Register(w) \/ Settle(w)
              \/ End(w) \/ Crash(w) \/ \E t \in Tasks : Claim(w, t)
BY DEF Next, WorkerStep

\* A task that was submitted stays so, and keeps its kind; an ended one stays
\* as it ended.
LEMMA TaskSteps ==
  ASSUME TypeOK, SlotsAreSound, [Next]_vars, NEW t \in Tasks
  PROVE  /\ state[t] # "absent" => state'[t] # "absent" /\ flow'[t] = flow[t]
         /\ state[t] \in Queue!Endings => state'[t] = state[t]
         /\ Queue!LifecycleTypeOK'
<1>1. Queue!LifecycleTypeOK /\ flow \in [Tasks -> Flows \union {Nobody}]
  BY DEF TypeOK
<1> USE DEF Queue!LifecycleTypeOK, Queue!States, Queue!Endings
<1>2. CASE UNCHANGED queue /\ UNCHANGED flow
  BY <1>1, <1>2 DEF queue
<1>3. ASSUME NEW s \in Tasks, Enqueue(s)
      PROVE  /\ state[t] # "absent" => state'[t] # "absent" /\ flow'[t] = flow[t]
             /\ state[t] \in Queue!Endings => state'[t] = state[t]
             /\ Queue!LifecycleTypeOK'
  <2>1. PICK f \in Flows : flow' = [flow EXCEPT ![s] = f]
    BY <1>3 DEF Enqueue
  <2>2. Queue!Submit(s)
    BY <1>3 DEF Enqueue
  <2>3. QED  BY <1>1, <2>1, <2>2 DEF Queue!Submit
<1>4. ASSUME NEW s \in Tasks, CancelTask(s)
      PROVE  /\ state[t] # "absent" => state'[t] # "absent" /\ flow'[t] = flow[t]
             /\ state[t] \in Queue!Endings => state'[t] = state[t]
             /\ Queue!LifecycleTypeOK'
  BY <1>1, <1>4 DEF CancelTask, Queue!Revoke
<1>5. ASSUME NEW w \in Workers, NEW s \in Tasks, Claim(w, s)
      PROVE  /\ state[t] # "absent" => state'[t] # "absent" /\ flow'[t] = flow[t]
             /\ state[t] \in Queue!Endings => state'[t] = state[t]
             /\ Queue!LifecycleTypeOK'
  BY <1>1, <1>5 DEF Claim, Queue!Grant
<1>6. ASSUME NEW w \in Workers, End(w)
      PROVE  /\ state[t] # "absent" => state'[t] # "absent" /\ flow'[t] = flow[t]
             /\ state[t] \in Queue!Endings => state'[t] = state[t]
             /\ Queue!LifecycleTypeOK'
  <2>1. /\ UNCHANGED flow
        /\ \/ UNCHANGED queue
           \/ \E s \in {"ready", "succeeded", "failed_terminal"} :
                Queue!Surrender(Task(w), worker[w].token, s)
    BY <1>6 DEF End, Verdict
  <2>2. CASE UNCHANGED queue
    BY <1>2, <2>1, <2>2
  <2>3. ASSUME NEW s \in {"ready", "succeeded", "failed_terminal"},
               Queue!Surrender(Task(w), worker[w].token, s)
        PROVE  /\ state[t] # "absent" => state'[t] # "absent"
               /\ state[t] \in Queue!Endings => state'[t] = state[t]
               /\ Queue!LifecycleTypeOK'
    BY <1>1, <2>3 DEF Queue!Surrender
  <2>4. QED  BY <2>1, <2>2, <2>3
<1>7. ASSUME NEW w \in Workers,
             \/ Replay(w) \/ RunTools(w) \/ LoseAtBegin(w) \/ Publish(w) \/ PublishFails(w)
             \/ CheckReport(w) \/ InsertReport(w) \/ NoteFindings(w) \/ Register(w) \/ Settle(w)
             \/ Crash(w)
      PROVE  UNCHANGED queue /\ UNCHANGED flow
  BY <1>7 DEF Replay, RunTools, LoseAtBegin, Publish, PublishFails, CheckReport, InsertReport,
              NoteFindings, Register, Settle, Crash
<1>8. CASE UNCHANGED vars
  BY <1>2, <1>8 DEF vars
<1>9. QED  BY <1>2, <1>3, <1>4, <1>5, <1>6, <1>7, <1>8, Steps

\* A row, a bound report and a noted one stay; objects leave in settlements.
LEMMA BooksGrow ==
  ASSUME TypeOK, SlotsAreSound, [Next]_vars
  PROVE  /\ rows \subseteq rows' /\ noted \subseteq noted'
         /\ \A t \in Tasks : \A i \in Parts :
              evidence[t][i] # Nobody => evidence'[t][i] = evidence[t][i]
         /\ \A d \in objects : d \in objects' \/ \E w \in Workers : Settle(w)
<1>1. evidence \in [Tasks -> [Parts -> Digests \union {Nobody}]]
  BY DEF TypeOK
<1>2. CASE UNCHANGED <<objects, books>>
  BY <1>2 DEF books
<1>3. ASSUME NEW w \in Workers, Publish(w) \/ Settle(w)
      PROVE  UNCHANGED books /\ (objects \subseteq objects' \/ Settle(w))
  BY <1>3 DEF Publish, Settle
<1>4. ASSUME NEW w \in Workers, InsertReport(w), NEW t \in Tasks, NEW i \in Parts,
             evidence[t][i] # Nobody
      PROVE  evidence'[t][i] = evidence[t][i]
  <2>1. \/ UNCHANGED evidence
        \/ /\ evidence[Task(w)][Part(w)] = Nobody
           /\ evidence' = [evidence EXCEPT ![Task(w)][Part(w)] = Digest(w)]
    BY <1>4 DEF InsertReport
  <2>2. QED  BY <1>1, <1>4, <2>1
<1>5. ASSUME NEW w \in Workers, Register(w), NEW t \in Tasks, NEW i \in Parts,
             evidence[t][i] # Nobody
      PROVE  evidence'[t][i] = evidence[t][i]
  <2>1. \/ UNCHANGED evidence
        \/ /\ \A j \in Kinds(Task(w)) : evidence[Task(w)][j] \in {Nobody, worker[w].bytes[j]}
           /\ evidence' = [evidence EXCEPT ![Task(w)] = worker[w].bytes]
    BY <1>5 DEF Register, Registrable, Conflicts
  <2>2. Kinds(Task(w)) = Parts
    BY <1>5, KindsAre DEF Register, SlotsAreSound, SlotIsSound, Task
  <2>3. QED  BY <1>1, <1>5, <2>1, <2>2
<1>6. ASSUME NEW w \in Workers, InsertReport(w) \/ Register(w) \/ NoteFindings(w)
      PROVE  rows \subseteq rows' /\ noted \subseteq noted' /\ UNCHANGED objects
  BY <1>6 DEF InsertReport, Register, NoteFindings
<1>7. ASSUME NEW w \in Workers, NoteFindings(w)
      PROVE  UNCHANGED evidence
  BY <1>7 DEF NoteFindings
<1>8. ASSUME NEW w \in Workers,
             \/ Replay(w) \/ RunTools(w) \/ LoseAtBegin(w) \/ PublishFails(w) \/ CheckReport(w)
             \/ End(w) \/ Crash(w) \/ \E t \in Tasks : Claim(w, t)
      PROVE  UNCHANGED <<objects, books>>
  BY <1>8 DEF Replay, RunTools, LoseAtBegin, PublishFails, CheckReport, End, Crash, Claim
<1>9. CASE UNCHANGED vars \/ \E t \in Tasks : Enqueue(t) \/ CancelTask(t)
  BY <1>9 DEF vars, books, Enqueue, CancelTask
<1>10. QED
  <2>1. CASE \E w \in Workers : Publish(w) \/ Settle(w)
    BY <1>3, <2>1 DEF books
  <2>2. CASE \E w \in Workers : InsertReport(w) \/ Register(w) \/ NoteFindings(w)
    BY <1>4, <1>5, <1>6, <1>7, <2>2
  <2>3. QED  BY <1>2, <1>8, <1>9, <2>1, <2>2, Steps

-----------------------------------------------------------------------------
(* Types.                                                                  *)

\* A step changes one slot at most, to another slot.
LEMMA OneSlot ==
  ASSUME TypeOK, [Next]_vars
  PROVE  \/ UNCHANGED worker
         \/ \E w \in Workers, slot \in Slots : worker' = [worker EXCEPT ![w] = slot]
<1>1. /\ worker \in [Workers -> Slots] /\ Queue!LifecycleTypeOK
      /\ evidence \in [Tasks -> [Parts -> Digests \union {Nobody}]]
  BY DEF TypeOK
<1>2. 1 \in Parts /\ Parts \subseteq Nat
  BY EvidenceAssumption DEF Parts
<1>3. IdleSlot \in Slots
  BY <1>2 DEF IdleSlot, Slots
<1>4. ASSUME NEW w \in Workers, Leave(w)
      PROVE  \E slot \in Slots : worker' = [worker EXCEPT ![w] = slot]
  BY <1>3, <1>4 DEF Leave
<1>5. ASSUME NEW w \in Workers,
             NEW place \in {"publish", "check", "insert", "insert_both", "note", "register",
                            "settle_fail", "settle_leave", "succeed", "fail", "retry"},
             Go(w, place)
      PROVE  \E slot \in Slots : worker' = [worker EXCEPT ![w] = slot]
  <2>1. [worker[w] EXCEPT !.at = place] \in Slots
    BY <1>1 DEF Slots
  <2>2. worker' = [worker EXCEPT ![w] = [worker[w] EXCEPT !.at = place]]
    BY <1>1, <1>5 DEF Go
  <2>3. QED  BY <2>1, <2>2
<1>6. ASSUME NEW w \in Workers, Stop(w, "settle_fail") \/ Stop(w, "settle_leave")
      PROVE  \E slot \in Slots : worker' = [worker EXCEPT ![w] = slot]
  <2>1. Leave(w) \/ Go(w, "fail") \/ Go(w, "settle_fail") \/ Go(w, "settle_leave")
    BY <1>6 DEF Stop, SettlesBy
  <2>2. QED  BY <1>4, <1>5, <2>1
<1>7. ASSUME NEW w \in Workers, Replay(w)
      PROVE  \E slot \in Slots : worker' = [worker EXCEPT ![w] = slot]
  <2> DEFINE d == evidence[Task(w)][1]
             slot == [worker[w] EXCEPT !.at = "succeed", !.bytes = [@ EXCEPT ![1] = d]]
  <2>1. Go(w, "fail") \/ (worker' = [worker EXCEPT ![w] = slot] /\ d \in objects)
    <3>1. CASE d \in objects
      <4>1. worker' = [worker EXCEPT ![w].at = "succeed", ![w].bytes[1] = d]
        BY <1>7, <3>1 DEF Replay
      <4>2. QED  BY <1>1, <3>1, <4>1
    <3>2. CASE d \notin objects
      BY <1>7, <3>2 DEF Replay
    <3>3. QED  BY <3>1, <3>2
  <2>2. d \in objects => slot \in Slots
    BY <1>1, <1>2 DEF Slots, TypeOK
  <2>3. QED  BY <1>5, <2>1, <2>2
<1>8. ASSUME NEW w \in Workers, RunTools(w)
      PROVE  \E slot \in Slots : worker' = [worker EXCEPT ![w] = slot]
  <2>1. ASSUME NEW bytes \in [Kinds(Task(w)) -> Digests],
               worker' = [worker EXCEPT ![w].at = "publish",
                            ![w].bytes = [i \in Parts |-> IF i \in Kinds(Task(w)) THEN bytes[i] ELSE Nobody]]
        PROVE  \E slot \in Slots : worker' = [worker EXCEPT ![w] = slot]
    <3> DEFINE all == [i \in Parts |-> IF i \in Kinds(Task(w)) THEN bytes[i] ELSE Nobody]
               slot == [worker[w] EXCEPT !.at = "publish", !.bytes = all]
    <3>1. all \in [Parts -> Digests \union {Nobody}]
      OBVIOUS
    <3>2. slot \in Slots
      BY <1>1, <3>1 DEF Slots
    <3>3. worker' = [worker EXCEPT ![w] = slot]
      BY <1>1, <2>1
    <3>4. QED  BY <3>2, <3>3
  <2>2. QED  BY <1>5, <1>8, <2>1 DEF RunTools
<1>9. ASSUME NEW w \in Workers, Publish(w)
      PROVE  \E slot \in Slots : worker' = [worker EXCEPT ![w] = slot]
  <2> DEFINE at   == AfterPublish(w)
             part == IF AfterPublish(w) = "publish" THEN Part(w) + 1 ELSE Part(w)
             made == IF Digest(w) \in objects THEN "verified" ELSE "new"
             slot == [worker[w] EXCEPT !.at = at, !.part = part, !.link = [@ EXCEPT ![Part(w)] = made]]
  <2>1. worker' = [worker EXCEPT ![w] = slot]
    BY <1>1, <1>9 DEF Publish, Part
  <2>2. at \in {"check", "publish", "register"}
    BY DEF AfterPublish
  <2>3. worker[w].part \in Parts
    BY <1>1 DEF Slots
  <2>4. part \in Parts
    <3>1. at = "publish" => Part(w) < Reports
      BY DEF AfterPublish, Last, Batched
    <3>2. QED  BY <2>3, <3>1, EvidenceAssumption DEF Parts, Part
  <2>5. [worker[w].link EXCEPT ![Part(w)] = made] \in [Parts -> {"none", "new", "verified"}]
    BY <1>1 DEF Slots
  <2>6. slot \in Slots
    <3>1. ASSUME NEW place \in {"check", "publish", "register"}, NEW p \in Parts,
                 NEW link \in [Parts -> {"none", "new", "verified"}]
          PROVE  [worker[w] EXCEPT !.at = place, !.part = p, !.link = link] \in Slots
      BY <1>1 DEF Slots
    <3>2. slot = [worker[w] EXCEPT !.at = at, !.part = part,
                                   !.link = [worker[w].link EXCEPT ![Part(w)] = made]]
      OBVIOUS
    <3> HIDE DEF at, part, made, slot
    <3>3. QED  BY <2>2, <2>4, <2>5, <3>1, <3>2
  <2>7. QED  BY <2>1, <2>6
<1>10. ASSUME NEW w \in Workers, CheckReport(w) \/ InsertReport(w)
       PROVE  \E slot \in Slots : worker' = [worker EXCEPT ![w] = slot]
  <2>1. \/ Stop(w, "settle_fail") \/ Stop(w, "settle_leave") \/ Go(w, "succeed") \/ Go(w, "note")
        \/ Go(w, "insert") \/ Go(w, "insert_both")
    BY <1>10 DEF CheckReport, InsertReport, AfterReport
  <2>2. QED  BY <1>5, <1>6, <2>1
<1>11. ASSUME NEW w \in Workers, NoteFindings(w)
       PROVE  \E slot \in Slots : worker' = [worker EXCEPT ![w] = slot]
  <2> DEFINE slot == [worker[w] EXCEPT !.at = "publish", !.part = @ + 1]
  <2>1. \/ Leave(w) \/ Go(w, "succeed")
        \/ worker' = [worker EXCEPT ![w] = slot] /\ Part(w) < Last(Task(w))
    BY <1>1, <1>11 DEF NoteFindings
  <2>2. Part(w) < Last(Task(w)) => worker[w].part + 1 \in Parts
    <3>1. worker[w].part \in Parts
      BY <1>1 DEF Slots
    <3>2. QED  BY <3>1, EvidenceAssumption DEF Parts, Part, Last
  <2>3. Part(w) < Last(Task(w)) => slot \in Slots
    BY <1>1, <2>2 DEF Slots
  <2>4. QED  BY <1>4, <1>5, <2>1, <2>3
<1>12. ASSUME NEW w \in Workers, Settle(w)
       PROVE  \E slot \in Slots : worker' = [worker EXCEPT ![w] = slot]
  <2> DEFINE slot == [worker[w] EXCEPT !.at = "fail", !.link = IdleSlot.link]
  <2>1. Leave(w) \/ worker' = [worker EXCEPT ![w] = slot]
    BY <1>1, <1>12 DEF Settle
  <2>2. slot \in Slots
    BY <1>1, <1>3 DEF Slots
  <2>3. QED  BY <1>4, <2>1, <2>2
<1>13. ASSUME NEW w \in Workers, NEW t \in Tasks, Claim(w, t)
       PROVE  \E slot \in Slots : worker' = [worker EXCEPT ![w] = slot]
  <2> DEFINE slot == [IdleSlot EXCEPT !.at = "begin", !.task = t, !.token = granted[t] + 1]
  <2>1. granted[t] + 1 \in Nat
    BY <1>1 DEF Queue!LifecycleTypeOK
  <2>2. slot \in Slots
    BY <1>3, <2>1 DEF Slots
  <2>3. QED  BY <1>13, <2>2 DEF Claim
<1>14. ASSUME NEW w \in Workers,
              LoseAtBegin(w) \/ PublishFails(w) \/ Register(w) \/ End(w) \/ Crash(w)
       PROVE  \E slot \in Slots : worker' = [worker EXCEPT ![w] = slot]
  <2>1. \/ Leave(w) \/ Stop(w, "settle_fail") \/ Stop(w, "settle_leave") \/ Go(w, "succeed")
        \/ Go(w, "settle_fail") \/ Go(w, "settle_leave")
    BY <1>14 DEF LoseAtBegin, PublishFails, Register, End, Crash
  <2>2. QED  BY <1>4, <1>5, <1>6, <2>1
<1>15. CASE UNCHANGED vars \/ \E t \in Tasks : Enqueue(t) \/ CancelTask(t)
  BY <1>15 DEF vars, Enqueue, CancelTask
<1>16. QED
  BY <1>7, <1>8, <1>9, <1>10, <1>11, <1>12, <1>13, <1>14, <1>15, Steps

\* Every part of the state keeps its type.
LEMMA TypeStep ==
  ASSUME TypeOK, SlotsAreSound, [Next]_vars
  PROVE  TypeOK'
<1>1. worker' \in [Workers -> Slots]
  BY OneSlot DEF TypeOK
<1>2. Queue!LifecycleTypeOK'
  <2>1. CASE Tasks = {}
    <3>1. UNCHANGED queue \/ \E w \in Workers : End(w)
      BY <2>1, Steps DEF vars, Replay, RunTools, LoseAtBegin, Publish, PublishFails, CheckReport,
            InsertReport, NoteFindings, Register, Settle, Crash
    <3>2. ~\E w \in Workers : End(w)
      BY <2>1 DEF End, Verdict, SlotsAreSound, SlotIsSound
    <3>3. QED  BY <3>1, <3>2 DEF queue, TypeOK, Queue!LifecycleTypeOK
  <2>2. CASE Tasks # {}
    BY <2>2, TaskSteps
  <2>3. QED  BY <2>1, <2>2
<1>3. UNCHANGED flow \/ \E t \in Tasks, f \in Flows : flow' = [flow EXCEPT ![t] = f]
  BY Steps DEF vars, Enqueue, CancelTask, Replay, RunTools, LoseAtBegin, Publish, PublishFails,
         CheckReport, InsertReport, NoteFindings, Register, Settle, End, Crash, Claim
<1>4. flow' \in [Tasks -> Flows \union {Nobody}]
  BY <1>3 DEF TypeOK
<1>5. ASSUME NEW w \in Workers, worker[w].at \in Busy
      PROVE  /\ Task(w) \in Tasks /\ Part(w) \in Parts /\ Digest(w) \in Digests
             /\ Written(w) \subseteq Digests /\ worker[w].bytes \in [Parts -> Digests \union {Nobody}]
             /\ Kinds(Task(w)) \subseteq Parts
  <2>1. worker[w] \in Slots
    BY DEF TypeOK
  <2>2. Kinds(Task(w)) \subseteq Parts
    BY EvidenceAssumption DEF Kinds, Parts, Last
  <2>3. QED  BY <1>5, <2>1, <2>2, KindsAre DEF SlotsAreSound, SlotIsSound, Busy, Single, Digest, Written, Slots, Part, Task
<1>6. objects' \subseteq Digests
  <2>1. \A w \in Workers : Publish(w) => objects' = objects \union {Digest(w)} /\ worker[w].at \in Busy
    BY DEF Publish, Busy
  <2>2. \/ objects' \subseteq objects
        \/ \E w \in Workers : Publish(w)
    BY Steps DEF vars, books, Enqueue, CancelTask, Replay, RunTools, LoseAtBegin, PublishFails,
           CheckReport, InsertReport, NoteFindings, Register, Settle, End, Crash, Claim
  <2>3. QED  BY <1>5, <2>1, <2>2 DEF TypeOK
<1>7. /\ rows' \subseteq Digests /\ noted' \subseteq Tasks \X Parts
      /\ evidence' \in [Tasks -> [Parts -> Digests \union {Nobody}]]
      /\ latest' \in Tasks \union {Nobody}
  <2>1. CASE UNCHANGED books
    BY <2>1 DEF books, TypeOK
  <2>2. ASSUME NEW w \in Workers, InsertReport(w)
        PROVE  /\ rows' \subseteq Digests /\ noted' \subseteq Tasks \X Parts
               /\ evidence' \in [Tasks -> [Parts -> Digests \union {Nobody}]]
               /\ latest' \in Tasks \union {Nobody}
    <3>1. Task(w) \in Tasks /\ Part(w) \in Parts /\ Digest(w) \in Digests
      BY <1>5, <2>2 DEF InsertReport, Busy, Single
    <3>2. /\ rows' = rows \/ rows' = rows \union {Digest(w)}
          /\ evidence' = evidence \/ evidence' = [evidence EXCEPT ![Task(w)][Part(w)] = Digest(w)]
          /\ latest' = latest \/ latest' = Task(w)
          /\ noted' = noted
      BY <2>2 DEF InsertReport
    <3>3. evidence' \in [Tasks -> [Parts -> Digests \union {Nobody}]]
      BY <3>1, <3>2 DEF TypeOK
    <3>4. QED  BY <3>1, <3>2, <3>3 DEF TypeOK
  <2>3. ASSUME NEW w \in Workers, NoteFindings(w)
        PROVE  /\ rows' \subseteq Digests /\ noted' \subseteq Tasks \X Parts
               /\ evidence' \in [Tasks -> [Parts -> Digests \union {Nobody}]]
               /\ latest' \in Tasks \union {Nobody}
    <3>1. Task(w) \in Tasks /\ Part(w) \in Parts
      BY <1>5, <2>3 DEF NoteFindings, Busy, Single
    <3>2. QED  BY <2>3, <3>1 DEF NoteFindings, TypeOK
  <2>4. ASSUME NEW w \in Workers, Register(w)
        PROVE  /\ rows' \subseteq Digests /\ noted' \subseteq Tasks \X Parts
               /\ evidence' \in [Tasks -> [Parts -> Digests \union {Nobody}]]
               /\ latest' \in Tasks \union {Nobody}
    <3>1. /\ Task(w) \in Tasks /\ Kinds(Task(w)) \subseteq Parts /\ Written(w) \subseteq Digests
          /\ worker[w].bytes \in [Parts -> Digests \union {Nobody}]
      BY <1>5, <2>4 DEF Register, Busy
    <3>2. /\ rows' = rows \/ rows' = rows \union Written(w)
          /\ evidence' = evidence \/ evidence' = [evidence EXCEPT ![Task(w)] = worker[w].bytes]
          /\ noted' = noted \/ noted' = noted \union {<<Task(w), i>> : i \in Kinds(Task(w))}
          /\ latest' = latest
      BY <2>4 DEF Register
    <3>3. rows' \subseteq Digests /\ latest' \in Tasks \union {Nobody}
      BY <3>1, <3>2 DEF TypeOK
    <3>4. evidence' \in [Tasks -> [Parts -> Digests \union {Nobody}]]
      BY <3>1, <3>2 DEF TypeOK
    <3>5. noted' \subseteq Tasks \X Parts
      BY <3>1, <3>2 DEF TypeOK
    <3>6. QED  BY <3>3, <3>4, <3>5
  <2>5. UNCHANGED books \/ \E w \in Workers : InsertReport(w) \/ NoteFindings(w) \/ Register(w)
    BY Steps DEF vars, Enqueue, CancelTask, Replay, RunTools, LoseAtBegin, Publish, PublishFails,
           CheckReport, Settle, End, Crash, Claim
  <2>6. QED  BY <2>1, <2>2, <2>3, <2>4, <2>5
<1>8. result' \in [Tasks -> [Parts -> Digests \union {Nobody}]]
  <2>1. \/ UNCHANGED result
        \/ \E w \in Workers : result' = [result EXCEPT ![Task(w)] = worker[w].bytes]
    BY Steps DEF vars, Enqueue, CancelTask, Replay, RunTools, LoseAtBegin, Publish, PublishFails,
           CheckReport, InsertReport, NoteFindings, Register, Settle, End, Crash, Claim
  <2>2. \A w \in Workers : worker[w].bytes \in [Parts -> Digests \union {Nobody}]
    BY DEF TypeOK, Slots
  <2>3. QED  BY <2>1, <2>2 DEF TypeOK
<1>9. faults' \in Nat
  <2>1. UNCHANGED faults \/ faults' = faults + 1
    BY Steps DEF vars, Enqueue, CancelTask, Replay, RunTools, LoseAtBegin, Publish, PublishFails,
           CheckReport, InsertReport, NoteFindings, Register, Settle, End, Crash, Claim, Fault
  <2>2. QED  BY <2>1 DEF TypeOK
<1>10. QED  BY <1>1, <1>2, <1>4, <1>6, <1>7, <1>8, <1>9 DEF TypeOK

-----------------------------------------------------------------------------
(* The slots.                                                              *)

\* What a run does to its own slot.
LEMMA OwnSlot ==
  ASSUME TypeOK, SlotsAreSound, [Next]_vars, NEW w \in Workers, worker'[w] # worker[w]
  PROVE  \/ worker'[w] = IdleSlot
         \/ \E t \in Tasks : Claim(w, t) /\ worker'[w].at = "begin" /\ worker'[w].task = t
              /\ worker'[w].part = 1 /\ worker'[w].link = IdleSlot.link
         \/ Replay(w) \/ RunTools(w) \/ Publish(w) \/ PublishFails(w)
         \/ CheckReport(w) \/ InsertReport(w) \/ NoteFindings(w) \/ Register(w) \/ Settle(w)
<1>1. worker \in [Workers -> Slots]
  BY DEF TypeOK
<1>2. CASE UNCHANGED vars \/ \E t \in Tasks : Enqueue(t) \/ CancelTask(t)
  BY <1>2 DEF vars, Enqueue, CancelTask
<1>3. ASSUME NEW v \in Workers, NEW t \in Tasks, Claim(v, t)
      PROVE  v # w => worker'[w] = worker[w]
  BY <1>3 DEF Claim
<1>4. ASSUME NEW t \in Tasks, Claim(w, t)
      PROVE  /\ worker'[w].at = "begin" /\ worker'[w].task = t
             /\ worker'[w].part = 1 /\ worker'[w].link = IdleSlot.link
  BY <1>1, <1>4 DEF Claim, IdleSlot
<1>5. ASSUME NEW v \in Workers, LoseAtBegin(v) \/ End(v) \/ Crash(v)
      PROVE  worker'[v] = IdleSlot /\ (v # w => worker'[w] = worker[w])
  BY <1>1, <1>5 DEF LoseAtBegin, End, Crash, Leave
<1>6. ASSUME NEW v \in Workers, v # w,
             \/ Replay(v) \/ RunTools(v) \/ Publish(v) \/ PublishFails(v)
             \/ CheckReport(v) \/ InsertReport(v) \/ NoteFindings(v) \/ Register(v) \/ Settle(v)
      PROVE  worker'[w] = worker[w]
  <2>1. CASE Replay(v) \/ RunTools(v) \/ Publish(v)
    BY <1>1, <1>6, <2>1 DEF Replay, RunTools, Publish, Go
  <2>2. CASE PublishFails(v) \/ CheckReport(v) \/ InsertReport(v)
    BY <1>1, <1>6, <2>2 DEF PublishFails, CheckReport, InsertReport, Go, Leave, Stop
  <2>3. CASE NoteFindings(v) \/ Register(v) \/ Settle(v)
    BY <1>1, <1>6, <2>3 DEF NoteFindings, Register, Settle, Go, Leave
  <2>4. QED  BY <1>6, <2>1, <2>2, <2>3
<1>7. QED  BY <1>2, <1>3, <1>4, <1>5, <1>6, Steps

\* Where a run goes when it only moves on.
LEMMA Moves ==
  ASSUME TypeOK, NEW w \in Workers, NEW place, Go(w, place)
  PROVE  /\ worker'[w].at = place /\ worker'[w].task = worker[w].task
         /\ worker'[w].part = worker[w].part /\ worker'[w].bytes = worker[w].bytes
         /\ worker'[w].link = worker[w].link
BY DEF TypeOK, Go, Slots

\* A slot stays sound: its own steps see to it, and nobody takes its task back.
LEMMA SlotsStep ==
  ASSUME TypeOK, SlotsAreSound, [Next]_vars
  PROVE  SlotsAreSound'
<1> SUFFICES ASSUME NEW w \in Workers
             PROVE  SlotIsSound(worker'[w], state'[worker'[w].task], flow'[worker'[w].task])
  BY DEF SlotsAreSound, Task
<1> DEFINE Goal == SlotIsSound(worker'[w], state'[worker'[w].task], flow'[worker'[w].task])
<1>1. worker \in [Workers -> Slots] /\ 1 \in Parts
  BY EvidenceAssumption DEF TypeOK, Parts
<1>2. ASSUME NEW t \in Tasks, state[t] # "absent"
      PROVE  state'[t] # "absent" /\ flow'[t] = flow[t]
  BY <1>2, TaskSteps
<1>3. SlotIsSound(worker[w], state[worker[w].task], flow[worker[w].task])
  BY DEF SlotsAreSound, Task
<1>4. ASSUME worker[w].at # "idle", worker'[w].task = worker[w].task
      PROVE  /\ worker'[w].task \in Tasks /\ state'[worker'[w].task] # "absent"
             /\ flow'[worker'[w].task] = flow[worker[w].task]
  BY <1>2, <1>3, <1>4 DEF SlotIsSound
<1>5. CASE worker'[w] = worker[w]
  <2>1. CASE worker[w].at = "idle"
    BY <1>3, <1>5, <2>1 DEF SlotIsSound, Busy, Single
  <2>2. CASE worker[w].at # "idle"
    BY <1>3, <1>4, <1>5, <2>2 DEF SlotIsSound
  <2>3. QED  BY <2>1, <2>2
<1>6. CASE worker'[w] = IdleSlot
  BY <1>1, <1>6 DEF IdleSlot, SlotIsSound, Busy, Single
<1>7. ASSUME NEW place \in {"settle_fail", "settle_leave", "succeed", "fail", "retry"},
             worker[w].at # "idle", Go(w, place)
      PROVE  Goal
  BY <1>4, <1>7, Moves DEF SlotIsSound, Busy, Single
<1>8. ASSUME NEW place \in Single, worker[w].at \in Single, Go(w, place)
      PROVE  Goal
  BY <1>3, <1>4, <1>8, Moves DEF SlotIsSound, Busy, Single
<1>9. ASSUME Stop(w, "settle_fail") \/ Stop(w, "settle_leave"), worker[w].at # "idle"
      PROVE  Goal
  <2>1. Leave(w) \/ Go(w, "fail") \/ Go(w, "settle_fail") \/ Go(w, "settle_leave")
    BY <1>9 DEF Stop, SettlesBy
  <2>2. Leave(w) => worker'[w] = IdleSlot
    BY <1>1 DEF Leave
  <2>3. QED  BY <1>6, <1>7, <1>9, <2>1, <2>2
<1>10. ASSUME NEW t \in Tasks, Claim(w, t), worker'[w].at = "begin", worker'[w].task = t,
              worker'[w].part = 1, worker'[w].link = IdleSlot.link
       PROVE  Goal
  <2>1. state'[t] # "absent"
    BY <1>10 DEF Claim, Queue!Grant, TypeOK, Queue!LifecycleTypeOK
  <2>2. QED  BY <1>10, <2>1 DEF IdleSlot, SlotIsSound, Busy, Single
<1>11. CASE Replay(w)
  <2>1. worker'[w].at \in {"succeed", "fail"} /\ worker'[w].task = worker[w].task
    BY <1>1, <1>11 DEF Replay, Go, Slots
  <2>2. worker[w].at # "idle"
    BY <1>11 DEF Replay
  <2>3. QED  BY <1>4, <2>1, <2>2 DEF SlotIsSound, Busy, Single
<1>12. CASE RunTools(w)
  <2>1. worker[w].at = "begin"
    BY <1>12 DEF RunTools
  <2>2. ASSUME NEW bytes \in [Kinds(Task(w)) -> Digests],
               worker' = [worker EXCEPT ![w].at = "publish",
                            ![w].bytes = [i \in Parts |-> IF i \in Kinds(Task(w)) THEN bytes[i] ELSE Nobody]]
        PROVE  Goal
    <3>1. /\ worker'[w].at = "publish" /\ worker'[w].task = worker[w].task
          /\ worker'[w].part = worker[w].part
          /\ worker'[w].bytes = [i \in Parts |-> IF i \in Kinds(Task(w)) THEN bytes[i] ELSE Nobody]
      BY <1>1, <2>2 DEF Slots
    <3>2. /\ worker[w].task \in Tasks /\ worker[w].part = 1
      BY <1>3, <2>1 DEF SlotIsSound
    <3>3. Kinds(Task(w)) = KindsOf(flow[worker[w].task]) /\ Kinds(Task(w)) \subseteq Parts
      BY <3>2, KindsAre DEF Task
    <3>4. 1 \in KindsOf(flow[worker[w].task])
      BY EvidenceAssumption DEF KindsOf
    <3>5. \A i \in KindsOf(flow[worker[w].task]) : worker'[w].bytes[i] \in Digests
      BY <3>1, <3>3
    <3>6. QED  BY <1>4, <2>1, <3>1, <3>2, <3>4, <3>5 DEF SlotIsSound, Busy, Single
  <2>3. QED  BY <1>7, <1>12, <2>1, <2>2 DEF RunTools
<1>13. CASE Publish(w)
  <2>1. /\ worker[w].at = "publish"
        /\ worker'[w].at = AfterPublish(w) /\ worker'[w].task = worker[w].task
        /\ worker'[w].part = IF AfterPublish(w) = "publish" THEN Part(w) + 1 ELSE Part(w)
        /\ worker'[w].bytes = worker[w].bytes
    BY <1>1, <1>13 DEF Publish, Slots, Part
  <2>2. /\ worker[w].task \in Tasks /\ Part(w) \in KindsOf(flow[worker[w].task])
        /\ \A i \in KindsOf(flow[worker[w].task]) : worker[w].bytes[i] \in Digests
    BY <1>3, <2>1 DEF SlotIsSound, Busy, Part
  <2>3. /\ AfterPublish(w) \in {"check", "publish", "register"}
        /\ AfterPublish(w) = "check" => flow[worker[w].task] \notin Batch
        /\ AfterPublish(w) = "register" => flow[worker[w].task] \in Batch
        /\ AfterPublish(w) = "publish" => Part(w) < Last(Task(w))
    BY <2>2, KindsAre DEF AfterPublish, Task
  <2>4. worker'[w].part \in KindsOf(flow[worker[w].task])
    <3>1. KindsOf(flow[worker[w].task]) = 1 .. Last(Task(w)) /\ Last(Task(w)) \in Nat
      BY EvidenceAssumption DEF KindsOf, Last, Task
    <3>2. QED  BY <2>1, <2>2, <2>3, <3>1
  <2>5. QED  BY <1>4, <2>1, <2>2, <2>3, <2>4 DEF SlotIsSound, Busy, Single
<1>14. CASE PublishFails(w)
  BY <1>9, <1>14 DEF PublishFails
<1>15. CASE CheckReport(w)
  BY <1>7, <1>8, <1>9, <1>15 DEF CheckReport, AfterReport, Single
<1>16. CASE InsertReport(w)
  <2>1. worker[w].at \in Single /\ worker[w].at # "idle"
    BY <1>16 DEF InsertReport, Single
  <2>2. Stop(w, "settle_fail") \/ Go(w, "succeed") \/ Go(w, "note")
    BY <1>16 DEF InsertReport, AfterReport
  <2>3. QED  BY <1>7, <1>8, <1>9, <2>1, <2>2 DEF Single
<1>17. CASE NoteFindings(w)
  <2>1. worker[w].at = "note"
    BY <1>17 DEF NoteFindings
  <2>2. CASE worker' = [worker EXCEPT ![w].at = "publish", ![w].part = @ + 1] /\ Part(w) < Last(Task(w))
    <3>1. /\ worker'[w].at = "publish" /\ worker'[w].task = worker[w].task
          /\ worker'[w].part = worker[w].part + 1 /\ worker'[w].bytes = worker[w].bytes
      BY <1>1, <2>2 DEF Slots
    <3>2. /\ worker[w].part \in KindsOf(flow[worker[w].task])
          /\ \A i \in KindsOf(flow[worker[w].task]) : worker[w].bytes[i] \in Digests
      BY <1>3, <2>1 DEF SlotIsSound, Busy, Single
    <3>3. KindsOf(flow[worker[w].task]) = 1 .. Last(Task(w)) /\ Last(Task(w)) \in Nat
      BY EvidenceAssumption DEF KindsOf, Last, Task
    <3>4. worker'[w].part \in KindsOf(flow[worker[w].task])
      BY <2>2, <3>1, <3>2, <3>3 DEF Part
    <3>5. QED  BY <1>4, <2>1, <3>1, <3>2, <3>4 DEF SlotIsSound, Busy, Single
  <2>3. CASE Leave(w)
    BY <1>1, <1>6, <2>3 DEF Leave
  <2>4. QED  BY <1>7, <1>17, <2>1, <2>2, <2>3 DEF NoteFindings
<1>18. CASE Register(w)
  BY <1>7, <1>18 DEF Register
<1>19. CASE Settle(w)
  <2>1. CASE worker' = [worker EXCEPT ![w].at = "fail", ![w].link = IdleSlot.link]
    <3>1. worker'[w].at = "fail" /\ worker'[w].task = worker[w].task
      BY <1>1, <2>1 DEF Slots
    <3>2. worker[w].at # "idle"
      BY <1>19 DEF Settle
    <3>3. QED  BY <1>4, <3>1, <3>2 DEF SlotIsSound, Busy, Single
  <2>2. CASE Leave(w)
    BY <1>1, <1>6, <2>2 DEF Leave
  <2>3. QED  BY <1>19, <2>1, <2>2 DEF Settle
<1>20. QED
  BY <1>5, <1>6, <1>10, <1>11, <1>12, <1>13, <1>14, <1>15, <1>16, <1>17, <1>18, <1>19, OwnSlot

\* What is behind a run stays recorded, and each step of it records what it
\* leaves behind.
LEMMA WorkStep ==
  ASSUME TypeOK, SlotsAreSound, WorkIsRecorded, [Next]_vars
  PROVE  WorkIsRecorded'
<1> SUFFICES ASSUME NEW w \in Workers
             PROVE  WorkIsSound(worker'[w], evidence'[worker'[w].task], noted', flow'[worker'[w].task])
  BY DEF WorkIsRecorded, Task
<1> DEFINE t == worker[w].task
           f == flow[worker[w].task]
           e == evidence[worker[w].task]
           Goal == WorkIsSound(worker'[w], evidence'[worker'[w].task], noted', flow'[worker'[w].task])
<1>1. /\ worker \in [Workers -> Slots] /\ 1 \in Parts /\ Parts \subseteq Nat
      /\ evidence \in [Tasks -> [Parts -> Digests \union {Nobody}]]
  BY EvidenceAssumption DEF TypeOK, Parts
<1>2. /\ SlotIsSound(worker[w], state[t], f)
      /\ WorkIsSound(worker[w], e, noted, f)
  BY DEF SlotsAreSound, WorkIsRecorded, Task
<1>3. CASE worker'[w].at \notin {"publish", "succeed"} \union Single
  BY <1>3 DEF WorkIsSound, Single
<1>4. ASSUME worker[w].at # "idle", worker'[w].task = t
      PROVE  /\ t \in Tasks /\ flow'[t] = f /\ KindsOf(f) \subseteq Parts
             /\ noted \subseteq noted'
             /\ \A i \in KindsOf(f) : e[i] # Nobody => evidence'[t][i] = e[i]
  <2>1. t \in Tasks /\ state[t] # "absent"
    BY <1>2, <1>4 DEF SlotIsSound
  <2>2. KindsOf(f) \subseteq Parts
    BY <2>1, KindsAre
  <2>3. QED  BY <2>1, <2>2, TaskSteps, BooksGrow
<1>5. CASE worker'[w] = worker[w] /\ worker[w].at # "idle"
  <2>1. WorkIsSound(worker[w], evidence'[t], noted', f)
    <3>1. worker[w].at \in Busy => worker[w].part \in KindsOf(f)
      BY <1>2 DEF SlotIsSound
    <3>2. QED  BY <1>2, <1>4, <1>5, <3>1 DEF WorkIsSound, Behind, Busy, Single
  <2>2. QED  BY <1>4, <1>5, <2>1
<1>6. ASSUME NEW place \in {"insert", "insert_both", "check"},
             worker'[w].at = place, worker'[w].task = t, worker'[w].part = worker[w].part,
             worker'[w].bytes = worker[w].bytes,
             worker[w].at \in {"publish"} \union Single
      PROVE  Goal
  <2>1. worker[w].at # "idle"
    BY <1>6 DEF Single
  <2>2. QED  BY <1>2, <1>4, <1>6, <2>1 DEF WorkIsSound, Behind, Single
<1>7. CASE Replay(w)
  <2>1. worker[w].at = "begin" /\ f = "probe" /\ e[1] # Nobody
    BY <1>7 DEF Replay, Recorded, Task
  <2>2. CASE Go(w, "fail")
    BY <1>3, <2>2, Moves DEF Single
  <2>3. CASE worker' = [worker EXCEPT ![w].at = "succeed", ![w].bytes[1] = e[1]]
    <3>1. worker'[w].at = "succeed" /\ worker'[w].task = t /\ worker'[w].bytes[1] = e[1]
      BY <1>1, <2>3 DEF Slots
    <3>2. KindsOf(f) = {1}
      BY <2>1 DEF KindsOf
    <3>3. QED  BY <1>4, <2>1, <3>1, <3>2 DEF WorkIsSound, Behind, Single
  <2>4. QED  BY <1>7, <2>2, <2>3 DEF Replay, Task
<1>8. CASE RunTools(w)
  <2>1. worker[w].at = "begin" /\ worker[w].part = 1
    BY <1>2, <1>8 DEF RunTools, SlotIsSound
  <2>2. CASE Go(w, "fail") \/ Go(w, "retry")
    BY <1>3, <2>2, Moves DEF Single
  <2>3. ASSUME worker'[w].at = "publish", worker'[w].part = 1
        PROVE  Goal
    BY <1>1, <2>3 DEF WorkIsSound, Single, KindsOf
  <2>4. (\E bytes \in [Kinds(Task(w)) -> Digests] :
          worker' = [worker EXCEPT ![w].at = "publish",
                       ![w].bytes = [i \in Parts |-> IF i \in Kinds(Task(w)) THEN bytes[i] ELSE Nobody]])
        => worker'[w].at = "publish" /\ worker'[w].part = 1
    BY <1>1, <2>1 DEF Slots
  <2>5. QED  BY <1>8, <2>2, <2>3, <2>4 DEF RunTools
<1>9. CASE Publish(w)
  <2>1. /\ worker[w].at = "publish"
        /\ worker'[w].at = AfterPublish(w) /\ worker'[w].task = t
        /\ worker'[w].bytes = worker[w].bytes
        /\ AfterPublish(w) # "publish" => worker'[w].part = worker[w].part
    BY <1>1, <1>9 DEF Publish, Slots
  <2>2. t \in Tasks
    BY <1>2, <2>1 DEF SlotIsSound
  <2>3. \/ AfterPublish(w) = "check"
        \/ AfterPublish(w) = "register"
        \/ AfterPublish(w) = "publish" /\ f \in Batch
    BY <2>2, KindsAre DEF AfterPublish, Task
  <2>4. CASE AfterPublish(w) = "publish" /\ f \in Batch
    BY <1>4, <2>1, <2>4 DEF WorkIsSound, Single
  <2>5. CASE AfterPublish(w) = "register"
    BY <1>3, <2>1, <2>5 DEF Single
  <2>6. CASE AfterPublish(w) = "check"
    BY <1>6, <2>1, <2>6
  <2>7. QED  BY <2>3, <2>4, <2>5, <2>6
<1>10. ASSUME Stop(w, "settle_fail") \/ Stop(w, "settle_leave")
       PROVE  Goal
  <2>1. Leave(w) \/ Go(w, "fail") \/ Go(w, "settle_fail") \/ Go(w, "settle_leave")
    BY <1>10 DEF Stop, SettlesBy
  <2>2. Leave(w) => worker'[w].at = "idle"
    BY <1>1 DEF Leave, IdleSlot
  <2>3. QED  BY <1>3, <2>1, <2>2, Moves DEF Single
<1>11. ASSUME NEW place \in {"succeed", "note"}, worker[w].at \in Single, Go(w, place),
              place = "succeed" <=> f = "probe",
              evidence'[t][worker[w].part] # Nobody,
              evidence'[t][worker[w].part] = worker[w].bytes[worker[w].part]
       PROVE  Goal
  <2>1. worker[w].at # "idle" /\ worker'[w].task = t
    BY <1>11, Moves DEF Single
  <2>2. f \notin Batch /\ worker[w].part \in KindsOf(f)
    BY <1>2, <1>11 DEF SlotIsSound, Busy
  <2>3. CASE f = "probe"
    <3>1. KindsOf(f) = {1} /\ worker[w].part = 1
      BY <2>2, <2>3 DEF KindsOf
    <3>2. QED  BY <1>4, <1>11, <2>1, <2>3, <3>1, Moves DEF WorkIsSound, Behind, Single
  <2>4. CASE f # "probe"
    BY <1>2, <1>4, <1>11, <2>1, <2>2, <2>4, Moves DEF WorkIsSound, Behind, Single
  <2>5. QED  BY <2>3, <2>4
<1>12. CASE CheckReport(w)
  <2>1. worker[w].at = "check"
    BY <1>12 DEF CheckReport
  <2>2. CASE Go(w, AfterReport(w)) /\ evidence[Task(w)][Part(w)] # Nobody /\ ~Conflicts(w, Part(w))
    <3>1. worker[w].part \in KindsOf(f)
      BY <1>2, <2>1 DEF SlotIsSound, Busy, Single
    <3>2. evidence'[t][worker[w].part] = e[worker[w].part]
      BY <1>4, <2>1, <2>2, <3>1, Moves DEF Task, Part
    <3>3. AfterReport(w) \in {"succeed", "note"} /\ (AfterReport(w) = "succeed" <=> f = "probe")
      BY DEF AfterReport, Task
    <3>4. QED  BY <1>11, <2>1, <2>2, <3>2, <3>3 DEF Conflicts, Task, Part, Single
  <2>3. CASE Go(w, "insert") \/ Go(w, "insert_both")
    BY <1>6, <2>1, <2>3, Moves DEF Single
  <2>4. QED  BY <1>10, <1>12, <2>2, <2>3 DEF CheckReport
<1>13. CASE InsertReport(w)
  <2>1. worker[w].at \in Single
    BY <1>13 DEF InsertReport, Single
  <2>2. t \in Tasks /\ worker[w].part \in Parts /\ worker[w].bytes[worker[w].part] \in Digests
    BY <1>1, <1>2, <2>1 DEF SlotIsSound, Busy, Single, Slots
  <2>3. CASE Go(w, AfterReport(w)) /\ evidence' = [evidence EXCEPT ![Task(w)][Part(w)] = Digest(w)]
    <3>1. evidence'[t][worker[w].part] = worker[w].bytes[worker[w].part]
      BY <1>1, <2>2, <2>3 DEF Task, Part, Digest
    <3>2. evidence'[t][worker[w].part] # Nobody
      BY <2>2, <3>1, EvidenceAssumption
    <3>3. AfterReport(w) \in {"succeed", "note"} /\ (AfterReport(w) = "succeed" <=> f = "probe")
      BY DEF AfterReport, Task
    <3>4. QED  BY <1>11, <2>1, <2>3, <3>1, <3>2, <3>3
  <2>4. QED  BY <1>10, <1>13, <2>3 DEF InsertReport
<1>14. CASE NoteFindings(w)
  <2>1. worker[w].at = "note"
    BY <1>14 DEF NoteFindings
  <2>2. /\ t \in Tasks /\ f \notin Batch /\ worker[w].part \in KindsOf(f) /\ f # "probe"
        /\ Behind(worker[w], e, worker[w].part)
        /\ \A i \in KindsOf(f) : i < worker[w].part => Behind(worker[w], e, i) /\ <<t, i>> \in noted
    BY <1>2, <2>1 DEF SlotIsSound, WorkIsSound, Busy, Single
  <2>3. KindsOf(f) = 1 .. Last(Task(w)) /\ Last(Task(w)) \in Nat
    BY EvidenceAssumption DEF KindsOf, Last, Task
  <2>4. CASE Leave(w)
    BY <1>1, <1>3, <2>4 DEF Leave, IdleSlot, Single
  <2>5. CASE /\ noted' = noted \union {<<Task(w), Part(w)>>}
             /\ worker' = [worker EXCEPT ![w].at = "publish", ![w].part = @ + 1]
    <3>1. /\ worker'[w].at = "publish" /\ worker'[w].task = t
          /\ worker'[w].part = worker[w].part + 1 /\ worker'[w].bytes = worker[w].bytes
      BY <1>1, <2>5 DEF Slots
    <3>2. \A i \in KindsOf(f) : i < worker[w].part + 1 => i < worker[w].part \/ i = worker[w].part
      BY <2>2, <2>3
    <3>3. ASSUME NEW i \in KindsOf(f), i < worker[w].part + 1
          PROVE  Behind(worker'[w], evidence'[t], i) /\ <<t, i>> \in noted'
      <4>1. Behind(worker[w], e, i) /\ <<t, i>> \in noted'
        BY <2>2, <2>5, <3>2, <3>3 DEF Task, Part
      <4>2. evidence'[t][i] = e[i]
        BY <1>4, <2>1, <3>1, <4>1 DEF Behind
      <4>3. QED  BY <3>1, <4>1, <4>2 DEF Behind
    <3>4. flow'[t] = f
      BY <1>4, <2>1, <3>1
    <3>5. QED  BY <3>1, <3>3, <3>4 DEF WorkIsSound, Single
  <2>6. CASE /\ noted' = noted \union {<<Task(w), Part(w)>>}
             /\ Go(w, "succeed") /\ ~(Part(w) < Last(Task(w)))
    <3>1. \A i \in KindsOf(f) : i < worker[w].part \/ i = worker[w].part
      BY <2>2, <2>3, <2>6 DEF Part
    <3>2. QED
      BY <1>4, <2>1, <2>2, <2>6, <3>1, Moves DEF WorkIsSound, Behind, Task, Part, Single
  <2>7. QED  BY <1>14, <2>4, <2>5, <2>6 DEF NoteFindings
<1>15. CASE Register(w)
  <2>1. worker[w].at = "register"
    BY <1>15 DEF Register
  <2>2. t \in Tasks /\ f \in Batch /\ \A i \in KindsOf(f) : worker[w].bytes[i] \in Digests
    BY <1>2, <2>1 DEF SlotIsSound, Busy
  <2>3. CASE /\ evidence' = [evidence EXCEPT ![Task(w)] = worker[w].bytes]
             /\ noted' = noted \union {<<Task(w), i>> : i \in Kinds(Task(w))}
             /\ Go(w, "succeed")
    <3>1. evidence'[t] = worker[w].bytes
      BY <1>1, <2>2, <2>3 DEF Task
    <3>2. \A i \in KindsOf(f) : <<t, i>> \in noted'
      BY <2>2, <2>3, KindsAre DEF Task
    <3>3. QED
      BY <1>4, <2>1, <2>2, <2>3, <3>1, <3>2, Moves, EvidenceAssumption DEF WorkIsSound, Behind, Single
  <2>4. CASE Go(w, "settle_fail") \/ Go(w, "settle_leave")
    BY <1>3, <2>4, Moves DEF Single
  <2>5. QED  BY <1>15, <2>3, <2>4 DEF Register
<1>16. CASE Settle(w)
  <2>1. CASE worker' = [worker EXCEPT ![w].at = "fail", ![w].link = IdleSlot.link]
    BY <1>1, <1>3, <2>1 DEF Slots, Single
  <2>2. CASE Leave(w)
    BY <1>1, <1>3, <2>2 DEF Leave, IdleSlot, Single
  <2>3. QED  BY <1>16, <2>1, <2>2 DEF Settle
<1>17. CASE worker'[w] = IdleSlot \/ worker'[w].at = "begin"
  BY <1>3, <1>17 DEF IdleSlot, Single
<1>18. CASE worker'[w] = worker[w] /\ worker[w].at = "idle"
  BY <1>3, <1>18 DEF Single
<1>19. CASE PublishFails(w)
  BY <1>10, <1>19 DEF PublishFails
<1>20. QED
  BY <1>5, <1>7, <1>8, <1>9, <1>12, <1>13, <1>14, <1>15, <1>16, <1>17, <1>18, <1>19, OwnSlot

-----------------------------------------------------------------------------
(* Evidence, rows and objects.                                             *)

\* What is bound anew was written by a run, has a row, and, for a release,
\* is in the store.
LEMMA NewEvidence ==
  ASSUME TypeOK, SlotsAreSound, [Next]_vars, NEW t \in Tasks, NEW i \in Parts,
         evidence'[t][i] # evidence[t][i]
  PROVE  /\ evidence'[t][i] \in rows' /\ state[t] # "absent"
         /\ flow[t] = "release" => evidence'[t][i] \in objects /\ UNCHANGED objects
<1>1. evidence \in [Tasks -> [Parts -> Digests \union {Nobody}]]
  BY DEF TypeOK
<1>2. PICK w \in Workers : InsertReport(w) \/ Register(w)
  BY Steps DEF vars, books, Enqueue, CancelTask, Replay, RunTools, LoseAtBegin, Publish,
         PublishFails, CheckReport, NoteFindings, Settle, End, Crash, Claim
<1>3. SlotIsSound(worker[w], state[Task(w)], flow[Task(w)])
  BY DEF SlotsAreSound
<1>4. CASE InsertReport(w)
  <2>1. /\ evidence' = [evidence EXCEPT ![Task(w)][Part(w)] = Digest(w)]
        /\ rows' = rows \union {Digest(w)} /\ worker[w].at \in Single
    BY <1>4 DEF InsertReport, Single
  <2>2. t = Task(w) /\ i = Part(w) /\ evidence'[t][i] = Digest(w)
    BY <1>1, <2>1
  <2>3. flow[t] \notin Batch /\ state[t] # "absent"
    BY <1>3, <2>1, <2>2 DEF SlotIsSound, Single
  <2>4. QED  BY <2>1, <2>2, <2>3 DEF Batch
<1>5. CASE Register(w)
  <2>1. /\ evidence' = [evidence EXCEPT ![Task(w)] = worker[w].bytes]
        /\ rows' = rows \union Written(w) /\ Available(w) /\ UNCHANGED objects
        /\ worker[w].at = "register"
    BY <1>5 DEF Register
  <2>2. t = Task(w) /\ evidence'[t][i] = worker[w].bytes[i]
    BY <1>1, <2>1
  <2>3. flow[t] \in Batch /\ state[t] # "absent"
    BY <1>3, <2>1, <2>2 DEF SlotIsSound
  <2>4. evidence'[t][i] \in Written(w)
    BY <2>2, <2>3, KindsAre DEF Written
  <2>5. QED  BY <2>1, <2>2, <2>3, <2>4 DEF Available
<1>6. QED  BY <1>2, <1>4, <1>5

\* Rows keep their objects: a settlement takes none that has a row.
LEMMA KeptRows ==
  ASSUME [Next]_vars, NEW d \in rows \intersect objects
  PROVE  d \in objects'
<1>1. ASSUME NEW w \in Workers, Settle(w)
      PROVE  d \in objects'
  BY <1>1 DEF Settle, Unregistered
<1>2. ASSUME NEW w \in Workers, Publish(w)
      PROVE  d \in objects'
  BY <1>2 DEF Publish
<1>3. UNCHANGED objects \/ \E w \in Workers : Settle(w) \/ Publish(w)
  BY Steps DEF vars, books, Enqueue, CancelTask, Replay, RunTools, LoseAtBegin, PublishFails,
         CheckReport, InsertReport, NoteFindings, Register, End, Crash, Claim
<1>4. QED  BY <1>1, <1>2, <1>3

\* Evidence has a row in the transaction that binds it, and rows stay.
LEMMA BooksStep ==
  ASSUME TypeOK, SlotsAreSound, BooksAreSound, [Next]_vars
  PROVE  BooksAreSound'
<1> SUFFICES ASSUME NEW t \in Tasks, NEW i \in Parts, evidence'[t][i] # Nobody
             PROVE  evidence'[t][i] \in rows' /\ state'[t] # "absent"
  BY DEF BooksAreSound
<1>1. CASE evidence'[t][i] = evidence[t][i]
  BY <1>1, BooksGrow, TaskSteps DEF BooksAreSound
<1>2. CASE evidence'[t][i] # evidence[t][i]
  BY <1>2, NewEvidence, TaskSteps
<1>3. QED  BY <1>1, <1>2

\* A release is bound while its objects are there, and its rows keep them.
LEMMA ReleasesStep ==
  ASSUME TypeOK, SlotsAreSound, BooksAreSound, ReleasesAreStored, [Next]_vars
  PROVE  ReleasesAreStored'
<1> SUFFICES ASSUME NEW t \in Tasks, flow'[t] = "release", NEW i \in Parts, evidence'[t][i] # Nobody
             PROVE  evidence'[t][i] \in objects'
  BY DEF ReleasesAreStored
<1>1. CASE evidence'[t][i] = evidence[t][i]
  <2>1. state[t] # "absent" /\ evidence[t][i] \in rows
    BY <1>1 DEF BooksAreSound
  <2>2. flow[t] = "release"
    BY <2>1, TaskSteps
  <2>3. evidence[t][i] \in objects
    BY <1>1, <2>2 DEF ReleasesAreStored
  <2>4. QED  BY <1>1, <2>1, <2>3, KeptRows
<1>2. CASE evidence'[t][i] # evidence[t][i]
  BY <1>2, NewEvidence, TaskSteps
<1>3. QED  BY <1>1, <1>2

\* A publication makes an object that was not there; its settlement takes
\* that very object away, and forgets it.
LEMMA MadeSteps ==
  ASSUME TypeOK, SlotsAreSound, [Next]_vars
  PROVE  \/ \E w \in Workers : Publish(w) /\ worker[w].bytes[Part(w)] \in Digests
         \/ \E w \in Workers : Settle(w)
         \/ /\ UNCHANGED objects
            /\ \A v \in Workers : \A i \in Parts : worker'[v].link[i] = "new" =>
                 worker[v].link[i] = "new" /\ worker'[v].bytes[i] = worker[v].bytes[i]
<1>1. worker \in [Workers -> Slots]
  BY DEF TypeOK
<1>2. ASSUME NEW w \in Workers, Publish(w)
      PROVE  worker[w].bytes[Part(w)] \in Digests
  BY <1>2 DEF Publish, SlotsAreSound, SlotIsSound, Busy, Part
<1>3. ASSUME ~\E w \in Workers : Publish(w) \/ Settle(w)
      PROVE  UNCHANGED objects
  BY <1>3, Steps DEF vars, books, Enqueue, CancelTask, Replay, RunTools, LoseAtBegin, PublishFails,
         CheckReport, InsertReport, NoteFindings, Register, End, Crash, Claim
<1>4. ASSUME ~\E w \in Workers : Publish(w) \/ Settle(w), NEW v \in Workers, NEW i \in Parts,
             worker'[v].link[i] = "new"
      PROVE  worker[v].link[i] = "new" /\ worker'[v].bytes[i] = worker[v].bytes[i]
  <2> DEFINE Goal == worker[v].link[i] = "new" /\ worker'[v].bytes[i] = worker[v].bytes[i]
  <2>1. CASE worker'[v] = worker[v]
    BY <1>4, <2>1
  <2>2. CASE worker'[v].link = IdleSlot.link
    BY <1>4, <2>2 DEF IdleSlot
  <2>3. CASE Replay(v) \/ RunTools(v)
    <3>1. worker[v].link[i] = "none"
      BY <2>3 DEF Replay, RunTools, SlotsAreSound, SlotIsSound
    <3>2. worker'[v].link = worker[v].link
      BY <1>1, <2>3 DEF Replay, RunTools, Go, Slots
    <3>3. QED  BY <1>4, <3>1, <3>2
  <2>4. ASSUME Leave(v)
        PROVE  worker'[v].link = IdleSlot.link
    BY <1>1, <2>4 DEF Leave, IdleSlot
  <2>5. ASSUME NEW place, Go(v, place)
        PROVE  Goal
    BY <1>4, <2>5, Moves
  <2>6. ASSUME Stop(v, "settle_fail") \/ Stop(v, "settle_leave")
        PROVE  Goal
    BY <2>2, <2>4, <2>5, <2>6 DEF Stop
  <2>7. CASE PublishFails(v) \/ CheckReport(v) \/ InsertReport(v) \/ Register(v)
    <3>1. CASE PublishFails(v)
      BY <2>6, <3>1 DEF PublishFails
    <3>2. CASE CheckReport(v)
      BY <2>5, <2>6, <3>2 DEF CheckReport
    <3>3. CASE InsertReport(v)
      BY <2>5, <2>6, <3>3 DEF InsertReport
    <3>4. CASE Register(v)
      BY <2>5, <3>4 DEF Register
    <3>5. QED  BY <2>7, <3>1, <3>2, <3>3, <3>4
  <2>8. CASE NoteFindings(v)
    <3>1. CASE worker' = [worker EXCEPT ![v].at = "publish", ![v].part = @ + 1]
      BY <1>1, <1>4, <3>1 DEF Slots
    <3>2. QED  BY <2>2, <2>4, <2>5, <2>8, <3>1 DEF NoteFindings
  <2>9. QED  BY <1>4, <2>1, <2>2, <2>3, <2>7, <2>8, OwnSlot
<1>5. QED  BY <1>2, <1>3, <1>4

\* One publication makes an object, and its settlement alone takes it away.
LEMMA MadeStep ==
  ASSUME TypeOK, SlotsAreSound, MadeOnce, MadeIsStored, [Next]_vars
  PROVE  MadeOnce' /\ MadeIsStored'
<1>1. worker \in [Workers -> Slots]
  BY DEF TypeOK
<1>2. CASE /\ UNCHANGED objects
           /\ \A v \in Workers : \A i \in Parts : worker'[v].link[i] = "new" =>
                worker[v].link[i] = "new" /\ worker'[v].bytes[i] = worker[v].bytes[i]
  BY <1>2 DEF MadeOnce, MadeIsStored
<1>3. ASSUME NEW w \in Workers, Publish(w)
      PROVE  MadeOnce' /\ MadeIsStored'
  <2> DEFINE n == Part(w)
             d == Digest(w)
  <2>1. /\ objects' = objects \union {d}
        /\ worker'[w].bytes = worker[w].bytes
        /\ worker'[w].link = [worker[w].link EXCEPT ![n] = IF d \in objects THEN "verified" ELSE "new"]
        /\ \A v \in Workers \ {w} : worker'[v] = worker[v]
        /\ n \in Parts /\ d = worker[w].bytes[n]
    BY <1>1, <1>3 DEF Publish, Slots, Digest, Part
  <2>2. ASSUME NEW v \in Workers, NEW i \in Parts, worker'[v].link[i] = "new"
        PROVE  /\ worker'[v].bytes[i] = worker[v].bytes[i]
               /\ worker[v].link[i] = "new" \/ (v = w /\ i = n /\ d \notin objects)
    <3>1. CASE v = w /\ i = n
      BY <1>1, <2>1, <2>2, <3>1 DEF Slots
    <3>2. CASE v = w /\ i # n
      BY <1>1, <2>1, <2>2, <3>2 DEF Slots
    <3>3. CASE v # w
      BY <2>1, <2>2, <3>3
    <3>4. QED  BY <3>1, <3>2, <3>3
  <2>3. MadeIsStored'
    BY <2>1, <2>2 DEF MadeIsStored
  <2>4. MadeOnce'
    <3> SUFFICES ASSUME NEW u \in Workers, NEW v \in Workers, NEW i \in Parts, NEW j \in Parts,
                        worker'[u].link[i] = "new", worker'[v].link[j] = "new",
                        worker'[u].bytes[i] = worker'[v].bytes[j]
                 PROVE  u = v /\ i = j
      BY DEF MadeOnce
    <3>1. worker[u].bytes[i] = worker[v].bytes[j]
      BY <2>2
    <3>2. CASE worker[u].link[i] = "new" /\ worker[v].link[j] = "new"
      BY <3>1, <3>2 DEF MadeOnce
    <3>3. CASE worker[u].link[i] # "new"
      BY <2>1, <2>2, <3>1, <3>3 DEF MadeIsStored
    <3>4. CASE worker[v].link[j] # "new"
      BY <2>1, <2>2, <3>1, <3>4 DEF MadeIsStored
    <3>5. QED  BY <3>2, <3>3, <3>4
  <2>5. QED  BY <2>3, <2>4
<1>4. ASSUME NEW w \in Workers, Settle(w)
      PROVE  MadeOnce' /\ MadeIsStored'
  <2>1. /\ \A v \in Workers \ {w} : worker'[v] = worker[v]
        /\ worker'[w].link = IdleSlot.link
    BY <1>1, <1>4 DEF Settle, Leave, Slots, IdleSlot
  <2>2. \A i \in Parts : worker'[w].link[i] # "new"
    BY <2>1 DEF IdleSlot
  <2>3. ASSUME NEW v \in Workers, NEW i \in Parts, worker'[v].link[i] = "new"
        PROVE  v # w /\ worker'[v] = worker[v] /\ worker[v].link[i] = "new"
    BY <2>1, <2>2, <2>3
  <2>4. MadeOnce'
    BY <2>3 DEF MadeOnce
  <2>5. ASSUME NEW v \in Workers, NEW i \in Parts, worker'[v].link[i] = "new"
        PROVE  worker'[v].bytes[i] \in objects'
    <3>1. worker[v].bytes[i] \in objects
      BY <2>3, <2>5 DEF MadeIsStored
    <3>2. \A j \in Rollback(w) : worker[w].bytes[j] # worker[v].bytes[i]
      BY <2>3, <2>5 DEF MadeOnce, Rollback
    <3>3. objects' = objects \ ({worker[w].bytes[j] : j \in Rollback(w)} \intersect Unregistered)
      BY <1>4 DEF Settle
    <3>4. QED  BY <2>3, <2>5, <3>1, <3>2, <3>3
  <2>6. QED  BY <2>4, <2>5 DEF MadeIsStored
<1>5. QED  BY <1>2, <1>3, <1>4, MadeSteps

-----------------------------------------------------------------------------
(* Success.                                                                *)

\* A task succeeds by the end of a run that has recorded everything, and
\* names what that run wrote.
LEMMA SuccessSteps ==
  ASSUME TypeOK, SlotsAreSound, [Next]_vars, NEW t \in Tasks, state'[t] = "succeeded"
  PROVE  \/ state[t] = "succeeded" /\ result'[t] = result[t]
         \/ \E w \in Workers :
              /\ worker[w].at = "succeed" /\ Task(w) = t /\ result'[t] = worker[w].bytes
              /\ UNCHANGED <<flow, books>>
<1>1. /\ Queue!LifecycleTypeOK
      /\ result \in [Tasks -> [Parts -> Digests \union {Nobody}]]
  BY DEF TypeOK
<1> USE DEF Queue!LifecycleTypeOK
<1>2. CASE UNCHANGED <<state, result>>
  BY <1>2
<1>3. ASSUME NEW s \in Tasks, Enqueue(s) \/ CancelTask(s)
      PROVE  state[t] = "succeeded" /\ result'[t] = result[t]
  BY <1>1, <1>3 DEF Enqueue, CancelTask, Queue!Submit, Queue!Revoke
<1>4. ASSUME NEW w \in Workers, NEW s \in Tasks, Claim(w, s)
      PROVE  state[t] = "succeeded" /\ result'[t] = result[t]
  BY <1>1, <1>4 DEF Claim, Queue!Grant
<1>5. ASSUME NEW w \in Workers, End(w), ~UNCHANGED <<state, result>>
      PROVE  \/ state[t] = "succeeded" /\ result'[t] = result[t]
             \/ /\ worker[w].at = "succeed" /\ Task(w) = t /\ result'[t] = worker[w].bytes
                /\ UNCHANGED <<flow, books>>
  <2>1. /\ Holds(w) /\ worker[w].at \in DOMAIN Verdict
        /\ Queue!Surrender(Task(w), worker[w].token, Verdict[worker[w].at])
        /\ result' = IF worker[w].at = "succeed"
                     THEN [result EXCEPT ![Task(w)] = worker[w].bytes]
                     ELSE result
        /\ UNCHANGED <<flow, books>>
    BY <1>5 DEF End, queue
  <2>2. state[Task(w)] = "held" /\ state' = [state EXCEPT ![Task(w)] = Verdict[worker[w].at]]
    BY <2>1 DEF Holds, Queue!Surrender
  <2>3. CASE Task(w) = t
    <3>1. Verdict[worker[w].at] = "succeeded"
      BY <1>1, <2>2, <2>3
    <3>2. worker[w].at = "succeed"
      BY <2>1, <3>1 DEF Verdict
    <3>3. QED  BY <1>1, <2>1, <2>3, <3>2
  <2>4. CASE Task(w) # t
    BY <1>1, <2>1, <2>2, <2>4
  <2>5. QED  BY <2>3, <2>4
<1>6. ASSUME NEW w \in Workers,
             \/ Replay(w) \/ RunTools(w) \/ LoseAtBegin(w) \/ Publish(w) \/ PublishFails(w)
             \/ CheckReport(w) \/ InsertReport(w) \/ NoteFindings(w) \/ Register(w) \/ Settle(w)
             \/ Crash(w)
      PROVE  UNCHANGED <<state, result>>
  BY <1>6 DEF queue, Replay, RunTools, LoseAtBegin, Publish, PublishFails, CheckReport, InsertReport,
              NoteFindings, Register, Settle, Crash
<1>7. CASE UNCHANGED vars
  BY <1>2, <1>7 DEF vars, queue
<1>8. QED  BY <1>2, <1>3, <1>4, <1>5, <1>6, <1>7, Steps

\* Success is claimed with the evidence at hand, and the evidence stays.
LEMMA SuccessStep ==
  ASSUME TypeOK, SlotsAreSound, WorkIsRecorded, SuccessIsEvident, [Next]_vars
  PROVE  SuccessIsEvident'
<1> SUFFICES ASSUME NEW t \in Tasks, state'[t] = "succeeded"
             PROVE  \A i \in KindsOf(flow'[t]) :
                      /\ evidence'[t][i] # Nobody /\ result'[t][i] = evidence'[t][i]
                      /\ flow'[t] # "probe" => <<t, i>> \in noted'
  BY DEF SuccessIsEvident, Kinds, KindsOf, Last
<1>1. CASE state[t] = "succeeded" /\ result'[t] = result[t]
  <2>1. flow'[t] = flow[t]
    BY <1>1, TaskSteps
  <2>2. ASSUME NEW i \in KindsOf(flow[t])
        PROVE  /\ evidence'[t][i] # Nobody /\ result[t][i] = evidence'[t][i]
               /\ flow[t] # "probe" => <<t, i>> \in noted'
    <3>1. i \in Kinds(t) /\ i \in Parts
      BY KindsAre
    <3>2. /\ evidence[t][i] # Nobody /\ result[t][i] = evidence[t][i]
          /\ flow[t] # "probe" => <<t, i>> \in noted
      BY <1>1, <3>1 DEF SuccessIsEvident
    <3>3. QED  BY <3>1, <3>2, BooksGrow
  <2>3. QED  BY <1>1, <2>1, <2>2
<1>2. ASSUME NEW w \in Workers, worker[w].at = "succeed", Task(w) = t,
             result'[t] = worker[w].bytes, UNCHANGED <<flow, books>>
      PROVE  \A i \in KindsOf(flow'[t]) :
               /\ evidence'[t][i] # Nobody /\ result'[t][i] = evidence'[t][i]
               /\ flow'[t] # "probe" => <<t, i>> \in noted'
  BY <1>2 DEF WorkIsRecorded, WorkIsSound, Behind, Task, books
<1>3. QED  BY <1>1, <1>2, SuccessSteps

-----------------------------------------------------------------------------
(* The invariant.                                                          *)

\* The invariant holds at first,
LEMMA InitIInv == Init => IInv
<1> SUFFICES ASSUME Init
             PROVE  IInv
  OBVIOUS
<1> USE DEF Init
<1>1. 1 \in Parts /\ Parts \subseteq Nat
  BY EvidenceAssumption DEF Parts
<1>2. TypeOK
  <2>1. IdleSlot \in Slots
    BY <1>1 DEF IdleSlot, Slots
  <2>2. Queue!LifecycleTypeOK
    BY DEF Queue!LifecycleInit, Queue!LifecycleTypeOK, Queue!States
  <2>3. QED  BY <2>1, <2>2 DEF TypeOK
<1>3. SlotsAreSound
  BY <1>1 DEF SlotsAreSound, SlotIsSound, IdleSlot, Busy, Single
<1>4. WorkIsRecorded
  BY DEF WorkIsRecorded, WorkIsSound, IdleSlot, Single
<1>5. BooksAreSound /\ ReleasesAreStored
  BY DEF BooksAreSound, ReleasesAreStored
<1>6. MadeOnce /\ MadeIsStored
  BY DEF MadeOnce, MadeIsStored, IdleSlot
<1>7. SuccessIsEvident
  BY DEF SuccessIsEvident, Queue!LifecycleInit
<1>8. QED  BY <1>2, <1>3, <1>4, <1>5, <1>6, <1>7 DEF IInv

\* and every step keeps it.
LEMMA NextIInv == IInv /\ [Next]_vars => IInv'
<1> SUFFICES ASSUME IInv, [Next]_vars
             PROVE  IInv'
  OBVIOUS
<1>1. /\ TypeOK /\ SlotsAreSound /\ WorkIsRecorded /\ BooksAreSound
      /\ MadeOnce /\ MadeIsStored /\ ReleasesAreStored /\ SuccessIsEvident
  BY DEF IInv
<1>2. TypeOK' /\ SlotsAreSound'
  BY <1>1, TypeStep, SlotsStep
<1>3. WorkIsRecorded' /\ BooksAreSound'
  BY <1>1, WorkStep, BooksStep
<1>4. MadeOnce' /\ MadeIsStored'
  BY <1>1, MadeStep
<1>5. ReleasesAreStored' /\ SuccessIsEvident'
  BY <1>1, ReleasesStep, SuccessStep
<1>6. QED  BY <1>2, <1>3, <1>4, <1>5 DEF IInv

\* Whatever dies, lapses or is cancelled, each part of the invariant holds in
\* every reachable state.
THEOREM Invariance == Spec => []IInv
BY InitIInv, NextIInv, PTL DEF Spec

\* Tasks, books, objects and slots stay what their types say.
THEOREM TypeCorrect == Spec => []TypeOK
<1>1. IInv => TypeOK
  BY DEF IInv
<1>2. QED  BY <1>1, Invariance, PTL

\* What a publication made is in the store until that publication settles, and the evidence of
\* a release is in the store: no rollback takes what another publication made or recorded.
THEOREM NeededStays == Spec => []NeededIsStored
<1>1. IInv => NeededIsStored
  BY DEF IInv, NeededIsStored
<1>2. QED  BY <1>1, Invariance, PTL

\* A succeeded task has all its evidence and findings, and its result names
\* that very evidence.
THEOREM SuccessHasEvidence == Spec => []SuccessIsEvident
<1>1. IInv => SuccessIsEvident
  BY DEF IInv
<1>2. QED  BY <1>1, Invariance, PTL

\* Only a later probe closes the gate that a probe opened.
THEOREM GateIsStable == Spec => GateStaysOpen
<1>1. ASSUME IInv, [Next]_vars, GateOpen, latest' = latest
      PROVE  GateOpen'
  <2>1. TypeOK /\ SlotsAreSound /\ BooksAreSound
    BY <1>1 DEF IInv
  <2>2. 1 \in Parts
    BY EvidenceAssumption DEF Parts
  <2>3. /\ latest \in Tasks /\ state[latest] = "succeeded"
        /\ result[latest][1] = evidence[latest][1] /\ evidence[latest][1] \in objects
    BY <1>1, <2>1 DEF GateOpen, TypeOK
  <2>4. evidence[latest][1] # Nobody
    BY <2>1, <2>3, EvidenceAssumption DEF TypeOK
  <2>5. evidence'[latest][1] = evidence[latest][1] /\ evidence[latest][1] \in objects'
    BY <1>1, <2>1, <2>2, <2>3, <2>4, BooksGrow, KeptRows DEF BooksAreSound
  <2>6. state'[latest] = "succeeded"
    BY <1>1, <2>1, <2>3, TaskSteps DEF Queue!Endings
  <2>7. result'[latest] = result[latest]
    <3>1. CASE result'[latest] = result[latest]
      BY <3>1
    <3>2. ASSUME NEW w \in Workers, End(w), result'[latest] # result[latest]
          PROVE  FALSE
      BY <2>1, <2>3, <3>2 DEF End, Holds, TypeOK
    <3>3. UNCHANGED result \/ \E w \in Workers : End(w)
      BY <1>1, Steps DEF vars, Enqueue, CancelTask, Replay, RunTools, LoseAtBegin, Publish,
             PublishFails, CheckReport, InsertReport, NoteFindings, Register, Settle, Crash, Claim
    <3>4. QED  BY <3>1, <3>2, <3>3
  <2>8. QED  BY <1>1, <2>3, <2>5, <2>6, <2>7 DEF GateOpen
<1>2. IInv /\ [Next]_vars => [GateOpen /\ ~GateOpen' => latest' # latest]_vars
  BY <1>1
<1>3. QED  BY <1>2, Invariance, PTL DEF Spec, GateStaysOpen
===============================================================================
