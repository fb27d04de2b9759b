----------------------------- MODULE WorkerService -----------------------------
(***************************************************************************)
(* The resident worker: WorkerService (worker_service.py) and the loop of  *)
(* `worker --run` around it (cli.py).  The main thread claims tasks and    *)
(* hands them to executor threads, all of them share active_tasks, and a   *)
(* signal asks the service to stop.  The task queue is taken at its        *)
(* promise, TaskLifecycle; other services claim from it too.               *)
(*                                                                         *)
(* The health file, the failure counter and the backoff are left out:      *)
(* nothing in the service reads them.                                      *)
(***************************************************************************)
EXTENDS TaskLifecycle, FiniteSets

CONSTANTS
  Threads,     \* executor threads that may exist at a time
  SlotCounts,  \* settings of worker_slots
  NoTask,
  MaxClaims,   \* bound: claims, of all services together
  MaxSignals,  \* bound: SIGTERM and SIGINT
  MaxTaken,    \* bound: leases of live threads that another service takes over
  MaxRetaken,  \* bound: tasks claimed again while an older thread has them
  MaxBreaks,   \* bound: executions that end without settling their task
  MaxNoThread  \* bound: threads that cannot be started

ASSUME ServiceAssumption ==
  /\ NoTask \notin Tasks
  /\ IsFiniteSet(Tasks) /\ IsFiniteSet(Threads)
  /\ SlotCounts \subseteq Nat \ {0}
  /\ {MaxClaims, MaxSignals, MaxTaken, MaxRetaken, MaxBreaks, MaxNoThread} \subseteq Nat

VARIABLES
  main,    \* the main thread: its place and the lease it claimed
  service, \* slots, state, shutdown_requested, completed_count of WorkerService
  active,  \* active_tasks: the token of the execution registered for a task
  thread,  \* the executor threads
  other,   \* the token with which another service holds a task
  spent    \* how often each bounded event happened

queue == <<state, holder, granted>>
vars == <<queue, main, service, active, thread, other, spent>>

WorkerStates == {"IDLE", "CLAIMING", "EXECUTING", "STOPPING", "STOPPED"}

MainPlaces ==
  {"loop", "capacity", "claim", "register", "spawn", "await", "finally", "shutdown",
   "drain", "stopped"}

Results == {"claimed", "none", "error"}

ThreadPlaces == {"free", "start", "run", "count", "leave", "delete"}

NoThread == [at |-> "free", task |-> NoTask, token |-> 0]

\* result: whether the cycle claimed a task, or raised an error;
\* clean: what shutdown_gracefully returns.
Init ==
  /\ LifecycleInit
  /\ main = [at |-> "loop", task |-> NoTask, token |-> 0, result |-> "claimed", clean |-> TRUE]
  /\ service \in [slots : SlotCounts, state : {"IDLE"}, stop : {FALSE}, completed : {0}]
  /\ active = [t \in Tasks |-> 0]
  /\ thread = [x \in Threads |-> NoThread]
  /\ other = [t \in Tasks |-> 0]
  /\ spent = [claims |-> 0, taken |-> 0, retaken |-> 0, break |-> 0, nothread |-> 0, signals |-> 0]

Limit ==
  [claims |-> MaxClaims, taken |-> MaxTaken, retaken |-> MaxRetaken,
   break |-> MaxBreaks, nothread |-> MaxNoThread, signals |-> MaxSignals]

Spend(events) ==
  /\ \A e \in events : spent[e] < Limit[e]
  /\ spent' = [e \in DOMAIN spent |-> IF e \in events THEN spent[e] + 1 ELSE spent[e]]

TypeOK ==
  /\ LifecycleTypeOK
  /\ main \in [at : MainPlaces, task : Tasks \union {NoTask}, token : Nat,
               result : Results, clean : BOOLEAN]
  /\ service \in [slots : SlotCounts, state : WorkerStates, stop : BOOLEAN, completed : Nat]
  /\ active \in [Tasks -> Nat]
  /\ thread \in [Threads -> [at : ThreadPlaces, task : Tasks \union {NoTask}, token : Nat]]
  /\ other \in [Tasks -> Nat]
  /\ spent \in [DOMAIN Limit -> Nat]

Registered == {t \in Tasks : active[t] # 0}

\* Threads that have not yet left their execution.
Executions == {x \in Threads : thread[x].at # "free"}

-----------------------------------------------------------------------------
(* The main thread: run_one_cycle in the loop of the CLI.                  *)

MainAt(place) == main.at = place
MainGo(place) == main' = [main EXCEPT !.at = place]
MainEnds(place, result) == main' = [main EXCEPT !.at = place, !.result = result]

\* With --exit-when-idle the loop also ends when a cycle claimed nothing,
\* because the slots were full perhaps, and no execution is left.
Loop ==
  /\ MainAt("loop")
  /\ \E exit_when_idle \in BOOLEAN :
       main' = [main EXCEPT !.result = "claimed", !.at =
         IF \/ service.stop
            \/ main.result = "error"
            \/ exit_when_idle /\ main.result = "none" /\ Registered = {}
         THEN "shutdown" ELSE "capacity"]
  /\ UNCHANGED <<queue, service, active, thread, other, spent>>

HasAvailableSlot == Cardinality(Registered) < service.slots

Capacity ==
  /\ MainAt("capacity")
  /\ IF HasAvailableSlot
     THEN MainGo("claim") /\ service' = [service EXCEPT !.state = "CLAIMING"]
     ELSE MainEnds("loop", "none") /\ UNCHANGED service
  /\ UNCHANGED <<queue, active, thread, other, spent>>

\* A lease is free to be claimed again when nobody works under it; from a
\* live holder it is taken when it lapsed.
Claim(t) ==
  /\ MainAt("claim")
  /\ Grant(t)
  /\ Spend({"claims"}
           \union {e \in {"retaken"} : \E x \in Executions : thread[x].task = t}
           \union {e \in {"taken"} : other[t] # 0})
  /\ other' = [other EXCEPT ![t] = 0]
  /\ main' = [main EXCEPT !.at = "register", !.task = t, !.token = granted[t] + 1]
  /\ UNCHANGED <<service, active, thread>>

\* No task can be claimed.  Once the claims are spent, a task that is ready
\* waits out its retry delay.
NothingToClaim ==
  /\ MainAt("claim")
  /\ \A t \in Tasks : state[t] = "ready" => spent.claims = MaxClaims
  /\ service' = [service EXCEPT !.state = IF Registered = {} THEN "IDLE" ELSE "EXECUTING"]
  /\ MainEnds("finally", "none")
  /\ UNCHANGED <<queue, active, thread, other, spent>>

\* An error of the database ends the loop.
ClaimFails ==
  /\ MainAt("claim")
  /\ Spend({"break"})
  /\ MainEnds("finally", "error")
  /\ UNCHANGED <<queue, service, active, thread, other>>

\* Not so: the execution is registered under the attempt before.
Register_OldToken ==
  /\ MainAt("register")
  /\ active' = [active EXCEPT ![main.task] = main.token - 1]
  /\ service' = [service EXCEPT !.state = IF service.slots = 1 THEN "EXECUTING" ELSE @]
  /\ MainGo("spawn")
  /\ UNCHANGED <<queue, thread, other, spent>>

Register ==
  /\ MainAt("register")
  /\ active' = [active EXCEPT ![main.task] = main.token]
  /\ service' = [service EXCEPT !.state = IF service.slots = 1 THEN "EXECUTING" ELSE @]
  /\ MainGo("spawn")
  /\ UNCHANGED <<queue, thread, other, spent>>

\* With one slot the main thread executes the task itself, here as a thread
\* it waits for.
Spawn ==
  /\ MainAt("spawn")
  /\ \/ /\ \E x \in Threads :
             /\ thread[x].at = "free"
             /\ thread' = [thread EXCEPT ![x] =
                  [NoThread EXCEPT !.at = "start", !.task = main.task, !.token = main.token]]
        /\ service' = [service EXCEPT !.state = IF service.slots = 1 THEN @ ELSE "EXECUTING"]
        /\ MainGo(IF service.slots = 1 THEN "await" ELSE "finally")
        /\ UNCHANGED spent
     \/ /\ service.slots > 1
        /\ Spend({"nothread"})
        /\ MainEnds("finally", "error")
        /\ UNCHANGED <<service, thread>>
  /\ UNCHANGED <<queue, active, other>>

Await ==
  /\ MainAt("await")
  /\ \A x \in Threads : thread[x].at = "free"
  /\ service' = [service EXCEPT !.state = "IDLE"]
  /\ MainGo("finally")
  /\ UNCHANGED <<queue, active, thread, other, spent>>

\* The end of a cycle.
Finally ==
  /\ MainAt("finally")
  /\ service' = [service EXCEPT !.state = IF Registered = {} THEN "IDLE" ELSE @]
  /\ MainGo("loop")
  /\ UNCHANGED <<queue, active, thread, other, spent>>

-----------------------------------------------------------------------------
(* Signals and shutdown.                                                   *)

\* request_shutdown, called by the signal handler between two steps of the
\* main thread.
Signal ==
  /\ main.at # "stopped"
  /\ Spend({"signals"})
  /\ service' = [service EXCEPT !.stop = TRUE, !.state = "STOPPING"]
  /\ UNCHANGED <<queue, main, active, thread, other>>

\* shutdown_gracefully asks again, and waits for the executions.
RequestShutdown ==
  /\ MainAt("shutdown")
  /\ service' = [service EXCEPT !.stop = TRUE, !.state = "STOPPING"]
  /\ MainGo("drain")
  /\ UNCHANGED <<queue, active, thread, other, spent>>

\* Not so: one execution is not waited for.
Drained_AllButOne == Cardinality(Registered) <= 1

Drained == Registered = {}

\* Not so: there is no timeout.
Stop_NoTimeout ==
  /\ MainAt("drain")
  /\ Drained
  /\ service' = [service EXCEPT !.state = "STOPPED"]
  /\ main' = [main EXCEPT !.at = "stopped"]
  /\ UNCHANGED <<queue, active, thread, other, spent>>

\* The executions are over, or the timeout is.
Stop ==
  /\ MainAt("drain")
  /\ service' = [service EXCEPT !.state = "STOPPED"]
  /\ \E clean \in BOOLEAN :
       /\ clean <=> Drained
       /\ main' = [main EXCEPT !.at = "stopped", !.clean = clean]
  /\ UNCHANGED <<queue, active, thread, other, spent>>

-----------------------------------------------------------------------------
(* Executor threads: _execute_task_in_thread.                              *)

Holds(x) == /\ state[thread[x].task] = "held"
            /\ holder[thread[x].task] = thread[x].token

ThreadGo(x, place) == thread' = [thread EXCEPT ![x].at = place]

\* run_claimed returns at once when the lease is gone.
Start(x) ==
  /\ thread[x].at = "start"
  /\ ThreadGo(x, IF Holds(x) THEN "run" ELSE "count")
  /\ UNCHANGED <<queue, main, service, active, other, spent>>

\* The handler ends, and the task with it if the lease still stands.
Run(x) ==
  /\ thread[x].at = "run"
  /\ IF Holds(x)
     THEN \E s \in {"ready", "succeeded", "failed_terminal"} :
            Surrender(thread[x].task, thread[x].token, s)
     ELSE UNCHANGED queue
  /\ ThreadGo(x, "count")
  /\ UNCHANGED <<main, service, active, other, spent>>

\* A lost heartbeat keeps the result back; an error of the database ends the
\* execution wherever it is.  Either way the task is left as it was.
Break(x) ==
  /\ thread[x].at \in {"start", "run", "count"}
  /\ Spend({"break"})
  /\ \/ thread[x].at = "run" /\ ThreadGo(x, "count")
     \/ ThreadGo(x, "leave")
  /\ UNCHANGED <<queue, main, service, active, other>>

\* The task's status is read again, whoever wrote it.
Count(x) ==
  /\ thread[x].at = "count"
  /\ service' = IF state[thread[x].task] = "succeeded"
                THEN [service EXCEPT !.completed = @ + 1] ELSE service
  /\ ThreadGo(x, "leave")
  /\ UNCHANGED <<queue, main, active, other, spent>>

\* Not so: only the entry of a lease that still stands is found.
InActive_Held(x) == active[thread[x].task] # 0 /\ Holds(x)

\* finally: if task_id in active_tasks...
InActive(x) == active[thread[x].task] # 0

Leave(x) ==
  /\ thread[x].at = "leave"
  /\ IF InActive(x) THEN ThreadGo(x, "delete") ELSE thread' = [thread EXCEPT ![x] = NoThread]
  /\ UNCHANGED <<queue, main, service, active, other, spent>>

\* ...del active_tasks[task_id], which fails, and ends the thread, if the
\* entry is gone.
Delete(x) ==
  /\ thread[x].at = "delete"
  /\ active' = [active EXCEPT ![thread[x].task] = 0]
  /\ thread' = [thread EXCEPT ![x] = NoThread]
  /\ UNCHANGED <<queue, main, service, other, spent>>

-----------------------------------------------------------------------------
(* Clients and other services.                                             *)

Enqueue(t) ==
  /\ Submit(t)
  /\ UNCHANGED <<main, service, active, thread, other, spent>>

Cancel(t) ==
  /\ Revoke(t)
  /\ other' = [other EXCEPT ![t] = 0]
  /\ UNCHANGED <<main, service, active, thread, spent>>

\* This service is at work on t.
Ours(t) == \/ \E x \in Executions : thread[x].task = t
           \/ main.at \in {"register", "spawn"} /\ main.task = t

OtherClaims(t) ==
  /\ other[t] = 0
  /\ Grant(t)
  /\ Spend({"claims"} \union {e \in {"taken"} : state[t] = "held" /\ Ours(t)})
  /\ other' = [other EXCEPT ![t] = granted[t] + 1]
  /\ UNCHANGED <<main, service, active, thread>>

OtherEnds(t) ==
  /\ other[t] # 0
  /\ \E s \in {"ready", "succeeded", "failed_terminal"} : Surrender(t, other[t], s)
  /\ other' = [other EXCEPT ![t] = 0]
  /\ UNCHANGED <<main, service, active, thread, spent>>

-----------------------------------------------------------------------------
MainStep ==
  \/ Loop \/ Capacity \/ NothingToClaim \/ ClaimFails \/ Register \/ Spawn \/ Await
  \/ Finally \/ RequestShutdown \/ Stop
  \/ \E t \in Tasks : Claim(t)

ThreadStep(x) ==
  \/ Start(x) \/ Run(x) \/ Break(x) \/ Count(x) \/ Leave(x) \/ Delete(x)

Environment ==
  \/ Signal
  \/ \E t \in Tasks : Enqueue(t) \/ Cancel(t) \/ OtherClaims(t) \/ OtherEnds(t)

Next ==
  \/ MainStep
  \/ \E x \in Threads : ThreadStep(x)
  \/ Environment

Spec == Init /\ [][Next]_vars

\* The scheduler of the operating system lets every thread go on, and a
\* handler ends, by itself or by its timeout.
FairSpec ==
  /\ Spec
  /\ WF_vars(MainStep)
  /\ \A x \in Threads : WF_vars(ThreadStep(x))

-----------------------------------------------------------------------------
(* Properties.                                                             *)

\* A task that the service claims a second time while its older thread is
\* still alive takes over that thread's entry in active_tasks, and the older
\* thread removes it when it ends.  Each such claim costs the service one
\* entry at most: the properties say that nothing else does.
Unregistered == {x \in Executions : active[thread[x].task] # thread[x].token}

\* Every execution has its entry in active_tasks under its own token, so that
\* its lease is renewed and a shutdown waits for it, but for one execution per
\* task claimed twice (run_one_cycle, _execute_task_in_thread).
ExecutionsRegistered == Cardinality(Unregistered) <= spent.retaken

\* A shutdown that reports a clean stop leaves nothing in execution that uses
\* the container it disposes of, but for one execution per task claimed twice
\* (shutdown_gracefully).
CleanStop ==
  main.at = "stopped" /\ main.clean => Cardinality(Executions) <= spent.retaken

\* The service reports no more completed tasks than there are, but for one per
\* task claimed twice, though it reads a status that others write, too
\* (_execute_task_in_thread).
CountsHonest ==
  service.completed <= Cardinality({t \in Tasks : state[t] = "succeeded"}) + spent.retaken

\* What the service knows about its executions is so.
ViewIsRight == TypeOK /\ ExecutionsRegistered /\ CountsHonest

Busy == {thread[x].task : x \in {y \in Threads : thread[y].at \in {"start", "run"}}}

\* The claim of the design's settings table: no more tasks are executed at a
\* time than PCBFLOW_WORKER_SLOTS says.
SlotsBounded == Cardinality(Busy) <= service.slots

\* After a signal the service stops, whatever its threads run into.
Drains == service.stop ~> main.at = "stopped"

\* An entry does not stay in active_tasks for ever, except one whose thread
\* could not be started, and that one ends the service.
SlotsReturn == \A t \in Tasks : active[t] # 0 ~> (active[t] = 0 \/ main.at = "stopped")
=============================================================================
