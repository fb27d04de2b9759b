-------------------------- MODULE EvidencePublication --------------------------
(***************************************************************************)
(* How the handlers of tasks leave evidence behind: bytes become objects   *)
(* of a content-addressed store, objects become rows of the database, and  *)
(* a publication that comes to nothing takes its objects away again.  The  *)
(* store is a directory that every worker process shares; nothing but the  *)
(* name of an object, its digest, ties it to its row.                      *)
(*                                                                         *)
(*   validation  one report after the other, each put and then recorded    *)
(*   probe       one report, recorded once for the task's whole life       *)
(*   candidate   a staged batch, published one by one, recorded at once    *)
(*   release     the same, recorded only if every object is still there    *)
(*                                                                         *)
(* The queue is taken at its promise, TaskLifecycle.                       *)
(***************************************************************************)
EXTENDS Naturals

CONSTANTS
  Tasks,
  Reports,     \* how many reports a batch or a validation has
  Digests,     \* contents that a report may have
  Workers,     \* execution slots of all worker services
  Nobody,      \* the null of every reference
  MaxGrants,   \* bound: grants of one task
  MaxFaults    \* bound: workers that die, and leases that lapse under a live one

ASSUME EvidenceAssumption ==
  /\ Reports \in Nat \ {0}
  /\ Nobody \notin Tasks \union Digests
  /\ {MaxGrants, MaxFaults} \subseteq Nat

VARIABLES
  state, holder, granted,  \* the tasks, as TaskLifecycle has them
  flow,                    \* the kind that a task was enqueued as
  objects,                 \* digests that have a file in the store
  rows,                    \* digests that have an artifact row
  evidence,                \* the digest that a task's report of each kind is bound to
  noted,                   \* reports whose findings are recorded
  result,                  \* what the digests of a succeeded task are, by its own account
  latest,                  \* the probe whose report was recorded last
  worker,                  \* what each slot runs
  faults                   \* how many of these happened

Queue == INSTANCE TaskLifecycle

queue == <<state, holder, granted>>
books == <<rows, evidence, noted, latest>>
vars == <<queue, flow, objects, books, result, worker, faults>>

Flows == {"validation", "probe", "candidate", "release"}

Last(t)  == IF flow[t] = "probe" THEN 1 ELSE Reports
Kinds(t) == 1 .. Last(t)
Parts    == 1 .. Reports
Batched(t) == flow[t] \in {"candidate", "release"}

\* bytes: what the tools of this run wrote; link: whether a publication
\* made the object, or found it and verified it.
Slots ==
  [at : {"idle", "begin", "publish", "check", "insert", "insert_both", "note", "register", "settle_fail",
         "settle_leave", "succeed", "fail", "retry"},
   task : Tasks \union {Nobody}, token : Nat, part : Parts,
   bytes : [Parts -> Digests \union {Nobody}], link : [Parts -> {"none", "new", "verified"}]]

IdleSlot ==
  [at |-> "idle", task |-> Nobody, token |-> 0, part |-> 1,
   bytes |-> [i \in Parts |-> Nobody], link |-> [i \in Parts |-> "none"]]

TypeOK ==
  /\ Queue!LifecycleTypeOK
  /\ flow \in [Tasks -> Flows \union {Nobody}]
  /\ objects \subseteq Digests
  /\ rows \subseteq Digests
  /\ evidence \in [Tasks -> [Parts -> Digests \union {Nobody}]]
  /\ noted \subseteq Tasks \X Parts
  /\ result \in [Tasks -> [Parts -> Digests \union {Nobody}]]
  /\ latest \in Tasks \union {Nobody}
  /\ worker \in [Workers -> Slots]
  /\ faults \in Nat

Init ==
  /\ Queue!LifecycleInit
  /\ flow = [t \in Tasks |-> Nobody]
  /\ objects = {} /\ rows = {} /\ noted = {}
  /\ evidence = [t \in Tasks |-> [i \in Parts |-> Nobody]]
  /\ result = [t \in Tasks |-> [i \in Parts |-> Nobody]]
  /\ latest = Nobody
  /\ worker = [w \in Workers |-> IdleSlot]
  /\ faults = 0

-----------------------------------------------------------------------------
Task(w)   == worker[w].task
Part(w)   == worker[w].part
Digest(w) == worker[w].bytes[Part(w)]
Written(w) == {worker[w].bytes[i] : i \in Kinds(Task(w))}

Holds(w) == state[Task(w)] = "held" /\ holder[Task(w)] = worker[w].token

Go(w, place) == worker' = [worker EXCEPT ![w].at = place]
Leave(w)     == worker' = [worker EXCEPT ![w] = IdleSlot]

Fault == faults < MaxFaults /\ faults' = faults + 1

Enqueue(t) ==
  /\ Queue!Submit(t)
  /\ \E f \in Flows : flow' = [flow EXCEPT ![t] = f]
  /\ UNCHANGED <<objects, books, result, worker, faults>>

CancelTask(t) ==
  /\ Queue!Revoke(t)
  /\ UNCHANGED <<flow, objects, books, result, worker, faults>>

Runs(t) == \E w \in Workers : worker[w].at # "idle" /\ Task(w) = t /\ worker[w].token = holder[t]

Claim(w, t) ==
  /\ worker[w].at = "idle"
  /\ granted[t] < MaxGrants
  /\ Queue!Grant(t)
  /\ IF state[t] = "held" /\ Runs(t)
     THEN Fault
     ELSE UNCHANGED faults
  /\ worker' = [worker EXCEPT ![w] = [IdleSlot EXCEPT !.at = "begin", !.task = t,
                                                      !.token = granted[t] + 1]]
  /\ UNCHANGED <<flow, objects, books, result>>

\* Its temporary files stay behind; its objects too.
Crash(w) ==
  /\ worker[w].at # "idle"
  /\ Fault
  /\ Leave(w)
  /\ UNCHANGED <<flow, queue, objects, books, result>>

-----------------------------------------------------------------------------
(* The handlers.                                                           *)

\* A probe that an earlier run recorded is answered from the record, if its
\* object can be read.
Recorded(w) == flow[Task(w)] = "probe" /\ evidence[Task(w)][1] # Nobody

Replay(w) ==
  /\ worker[w].at = "begin"
  /\ Holds(w)
  /\ Recorded(w)
  /\ LET d == evidence[Task(w)][1] IN
     IF d \in objects
     THEN worker' = [worker EXCEPT ![w].at = "succeed", ![w].bytes[1] = d]
     ELSE Go(w, "fail")
  /\ UNCHANGED <<flow, queue, objects, books, result, faults>>

\* The tools fail, or write reports that no earlier run foresees.
RunTools(w) ==
  /\ worker[w].at = "begin"
  /\ Holds(w)
  /\ ~Recorded(w)
  /\ \/ Go(w, "fail")
     \/ flow[Task(w)] = "validation" /\ Go(w, "retry")
     \/ \E bytes \in [Kinds(Task(w)) -> Digests] :
          worker' = [worker EXCEPT ![w].at = "publish",
                       ![w].bytes = [i \in Parts |-> IF i \in Kinds(Task(w)) THEN bytes[i] ELSE Nobody]]
  /\ UNCHANGED <<flow, queue, objects, books, result, faults>>

LoseAtBegin(w) ==
  /\ worker[w].at = "begin"
  /\ ~Holds(w)
  /\ Leave(w)
  /\ UNCHANGED <<flow, queue, objects, books, result, faults>>

\* A release is staged and published without a look at the lease.
Fenced(w) == flow[Task(w)] # "release"

\* What a batch, or a probe, does with its objects when it fails; a single
\* report that was put stays.
SettlesBy(w, place) == IF flow[Task(w)] = "validation"
                       THEN IF place = "settle_leave" THEN "leave" ELSE "fail"
                       ELSE place

Stop(w, place) == IF SettlesBy(w, place) = "leave" THEN Leave(w) ELSE Go(w, SettlesBy(w, place))

AfterPublish(w) ==
  IF ~Batched(Task(w)) THEN "check"
  ELSE IF Part(w) < Last(Task(w)) THEN "publish" ELSE "register"

\* A link to the staged file: it is made, or there already and verified.
Publish(w) ==
  /\ worker[w].at = "publish"
  /\ Fenced(w) => Holds(w)
  /\ objects' = objects \union {Digest(w)}
  /\ worker' = [worker EXCEPT
                  ![w].at = AfterPublish(w),
                  ![w].part = IF AfterPublish(w) = "publish" THEN @ + 1 ELSE @,
                  ![w].link[Part(w)] = IF Digest(w) \in objects THEN "verified" ELSE "new"]
  /\ UNCHANGED <<flow, queue, books, result, faults>>

\* The lease is gone, or the store refuses.
PublishFails(w) ==
  /\ worker[w].at = "publish"
  /\ \/ Fenced(w) /\ ~Holds(w) /\ Stop(w, "settle_leave")
     \/ Stop(w, "settle_fail")
  /\ UNCHANGED <<flow, queue, objects, books, result, faults>>

-----------------------------------------------------------------------------
(* One report: what is read before the INSERT is not part of its           *)
(* transaction.                                                            *)

\* Another run recorded other bytes.
Conflicts(w, i) == evidence[Task(w)][i] \notin {Nobody, worker[w].bytes[i]}

\* Not so: a report that an earlier run recorded needs nothing more.
AfterReport_Recorded(w) ==
  IF flow[Task(w)] = "probe" \/ evidence[Task(w)][Part(w)] # Nobody THEN "succeed" ELSE "note"

AfterReport(w) == IF flow[Task(w)] = "probe" THEN "succeed" ELSE "note"

CheckReport(w) ==
  /\ worker[w].at = "check"
  /\ IF ~Holds(w) THEN Stop(w, "settle_leave")
     ELSE IF Conflicts(w, Part(w)) THEN Stop(w, "settle_fail")
     ELSE IF evidence[Task(w)][Part(w)] # Nobody THEN Go(w, AfterReport(w))
     ELSE Go(w, IF Digest(w) \in rows THEN "insert" ELSE "insert_both")
  /\ UNCHANGED <<flow, queue, objects, books, result, faults>>

\* The unique keys, on task and kind and on the digest, are what is left of
\* the check.
InsertReport(w) ==
  /\ worker[w].at \in {"insert", "insert_both"}
  /\ IF evidence[Task(w)][Part(w)] = Nobody /\ (worker[w].at = "insert_both" => Digest(w) \notin rows)
     THEN /\ rows' = rows \union {Digest(w)}
          /\ evidence' = [evidence EXCEPT ![Task(w)][Part(w)] = Digest(w)]
          /\ latest' = IF flow[Task(w)] = "probe" THEN Task(w) ELSE latest
          /\ Go(w, AfterReport(w))
     ELSE Stop(w, "settle_fail") /\ UNCHANGED <<rows, evidence, latest>>
  /\ UNCHANGED <<flow, queue, objects, noted, result, faults>>

NoteFindings(w) ==
  /\ worker[w].at = "note"
  /\ IF Holds(w)
     THEN /\ noted' = noted \union {<<Task(w), Part(w)>>}
          /\ IF Part(w) < Last(Task(w))
             THEN worker' = [worker EXCEPT ![w].at = "publish", ![w].part = @ + 1]
             ELSE Go(w, "succeed")
     ELSE Leave(w) /\ UNCHANGED noted
  /\ UNCHANGED <<flow, queue, objects, rows, evidence, latest, result, faults>>

-----------------------------------------------------------------------------
(* A batch, in one transaction that holds the database's write lock.       *)

Registrable(w) == Holds(w) /\ \A i \in Kinds(Task(w)) : ~Conflicts(w, i)

\* Not so: the objects are not looked at.
Available_Always(w) == TRUE

\* Only a release asks whether its objects are still there.
Available(w) == flow[Task(w)] = "release" => Written(w) \subseteq objects

Register(w) ==
  /\ worker[w].at = "register"
  /\ IF Registrable(w) /\ Available(w)
     THEN /\ rows' = rows \union Written(w)
          /\ evidence' = [evidence EXCEPT ![Task(w)] = worker[w].bytes]
          /\ noted' = noted \union {<<Task(w), i>> : i \in Kinds(Task(w))}
          /\ Go(w, "succeed")
     ELSE /\ Go(w, IF Holds(w) THEN "settle_fail" ELSE "settle_leave")
          /\ UNCHANGED <<rows, evidence, noted>>
  /\ UNCHANGED <<flow, queue, objects, latest, result, faults>>

-----------------------------------------------------------------------------
(* The settlement of what was published in vain, under the same lock.      *)

\* Not so: whatever this run published is taken away.
Rollback_Verified(w) == {i \in Parts : worker[w].link[i] # "none"}

\* Only objects that this run made.
Rollback(w) == {i \in Parts : worker[w].link[i] = "new"}

\* Not so: rows are not looked at.
Unregistered_Any == Digests

Unregistered == Digests \ rows

Settle(w) ==
  /\ worker[w].at \in {"settle_fail", "settle_leave"}
  /\ objects' = objects \ ({worker[w].bytes[i] : i \in Rollback(w)} \intersect Unregistered)
  /\ IF worker[w].at = "settle_fail"
     THEN worker' = [worker EXCEPT ![w].at = "fail", ![w].link = IdleSlot.link]
     ELSE Leave(w)
  /\ UNCHANGED <<flow, queue, books, result, faults>>

Verdict == [succeed |-> "succeeded", fail |-> "failed_terminal", retry |-> "ready"]

End(w) ==
  /\ worker[w].at \in DOMAIN Verdict
  /\ IF Holds(w)
     THEN /\ Queue!Surrender(Task(w), worker[w].token, Verdict[worker[w].at])
          /\ result' = IF worker[w].at = "succeed"
                       THEN [result EXCEPT ![Task(w)] = worker[w].bytes]
                       ELSE result
     ELSE UNCHANGED <<queue, result>>
  /\ Leave(w)
  /\ UNCHANGED <<flow, objects, books, faults>>

-----------------------------------------------------------------------------
WorkerStep(w) ==
  \/ Replay(w) \/ RunTools(w) \/ LoseAtBegin(w) \/ Publish(w) \/ PublishFails(w)
  \/ CheckReport(w) \/ InsertReport(w) \/ NoteFindings(w) \/ Register(w) \/ Settle(w) \/ End(w)

Next ==
  \/ \E t \in Tasks : Enqueue(t) \/ CancelTask(t)
  \/ \E w \in Workers : WorkerStep(w) \/ Crash(w) \/ \E t \in Tasks : Claim(w, t)

Spec == Init /\ [][Next]_vars

-----------------------------------------------------------------------------
(* Properties.                                                             *)

\* What the gate asks of the latest probe (CapabilityGateService).
GateOpen ==
  /\ latest # Nobody
  /\ state[latest] = "succeeded"
  /\ result[latest][1] = evidence[latest][1]
  /\ evidence[latest][1] \in objects

\* An object that a publication made is there until that publication is
\* settled: nobody else's rollback takes it away (StagedArtifact.rollback).
MadeIsStored ==
  \A w \in Workers : \A i \in Parts :
    worker[w].link[i] = "new" => worker[w].bytes[i] \in objects

\* A task succeeds only with a report of each kind, the findings of each,
\* and the very bytes that its result names, whichever of its runs, or of
\* two at a time, recorded them (add_report, add_many).
SuccessIsEvident ==
  \A t \in Tasks : state[t] = "succeeded" => \A i \in Kinds(t) :
    /\ evidence[t][i] # Nobody /\ result[t][i] = evidence[t][i]
    /\ flow[t] # "probe" => <<t, i>> \in noted

\* A release is bound to objects that are there, and stay
\* (_register_release_artifacts).
ReleasesAreStored ==
  \A t \in Tasks : flow[t] = "release" =>
    \A i \in Parts : evidence[t][i] # Nobody => evidence[t][i] \in objects

\* An object stays in the store as long as it is needed, by the publication that made it or by
\* a release bound to it, whatever other publications of the same bytes do.
NeededIsStored == MadeIsStored /\ ReleasesAreStored

\* An open gate closes for a later probe and for nothing else
\* (require_operations).
GateStaysOpen == [][GateOpen /\ ~GateOpen' => latest' # latest]_vars

-----------------------------------------------------------------------------
(* What the code does not keep.                                            *)

\* Every registered artifact has its object: a publication is settled
\* safely against durable rows.
RegisteredIsStored == rows \subseteq objects
=============================================================================
