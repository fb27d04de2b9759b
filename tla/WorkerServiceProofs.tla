-------------------------- MODULE WorkerServiceProofs --------------------------
(***************************************************************************)
(* What WorkerService keeps for every number of tasks, executor threads    *)
(* and slots, and whatever signals, lost leases, errors and threads that   *)
(* cannot be started there are.                                            *)
(***************************************************************************)
EXTENDS WorkerService, FiniteSetTheorems, TLAPS

\* Between the claim of a task and the start of its thread.
Pending == main.at \in {"register", "spawn"}

\* The threads of a task have tokens of their own, and the lease just claimed
\* has another.
TokensAreSound ==
  /\ \A x \in Executions : /\ thread[x].task \in Tasks
                           /\ thread[x].token \in 1..granted[thread[x].task]
  /\ Pending => /\ main.task \in Tasks
                /\ main.token \in 1..granted[main.task]
                /\ \A x \in Executions :
                     thread[x].task = main.task => thread[x].token # main.token
  /\ \A x, y \in Executions :
       x # y /\ thread[x].task = thread[y].task => thread[x].token # thread[y].token

\* The execution to come has lost its entry already, or will take the entry
\* of another.
Owing ==
  \/ main.at = "spawn" /\ active[main.task] # main.token
  \/ /\ main.at = "register"
     /\ \E x \in Executions :
          thread[x].task = main.task /\ active[main.task] = thread[x].token

One(condition) == IF condition THEN 1 ELSE 0

EntriesAreSound == Cardinality(Unregistered) + One(Owing) <= spent.retaken

\* Threads that have not yet read the status of their task again.
Working == {x \in Threads : thread[x].at \in {"start", "run", "count"}}

\* Tasks that succeeded or that an execution may yet count.
Countable ==
  {t \in Tasks : \/ state[t] = "succeeded"
                 \/ Pending /\ main.task = t
                 \/ \E x \in Working : thread[x].task = t}

CountsAreSound ==
  service.completed + Cardinality(Working) + One(Pending)
    <= Cardinality(Countable) + spent.retaken

IInv == TypeOK /\ TokensAreSound /\ EntriesAreSound /\ CountsAreSound /\ CleanStop

-----------------------------------------------------------------------------
(* Steps, and what they leave alone.                                       *)

\* The kinds of step there are.
LEMMA Steps ==
  ASSUME [Next]_vars
  PROVE  \/ UNCHANGED vars
         \/ Loop \/ Capacity \/ NothingToClaim \/ ClaimFails \/ Register \/ Spawn \/ Await
         \/ Finally \/ RequestShutdown \/ Stop \/ Signal
         \/ \E t \in Tasks : Claim(t) \/ Enqueue(t) \/ Cancel(t) \/ OtherClaims(t) \/ OtherEnds(t)
         \/ \E x \in Threads :
              Start(x) \/ Run(x) \/ Break(x) \/ Count(x) \/ Leave(x) \/ Delete(x)
BY DEF Next, MainStep, ThreadStep, Environment

\* The bounded events, by name.
LEMMA Events ==
  DOMAIN Limit = {"claims", "taken", "retaken", "break", "nothread", "signals"}
BY DEF Limit

\* An event that happens is added to what happened before.
LEMMA SpendAdds ==
  ASSUME TypeOK, NEW events, Spend(events)
  PROVE  /\ spent' \in [DOMAIN Limit -> Nat]
         /\ spent'.retaken = IF "retaken" \in events THEN spent.retaken + 1 ELSE spent.retaken
<1>1. spent \in [DOMAIN Limit -> Nat] /\ "retaken" \in DOMAIN Limit
  BY Events DEF TypeOK
<1>2. spent' = [e \in DOMAIN Limit |-> IF e \in events THEN spent[e] + 1 ELSE spent[e]]
  BY <1>1 DEF Spend
<1>3. \A e \in DOMAIN Limit : spent'[e] \in Nat
  BY <1>1, <1>2
<1>4. spent' \in [DOMAIN Limit -> Nat]
  BY <1>2, <1>3
<1>5. spent'["retaken"] = IF "retaken" \in events THEN spent["retaken"] + 1 ELSE spent["retaken"]
  BY <1>1, <1>2
<1>6. QED  BY <1>4, <1>5

\* The executor threads: one is started, goes on, or ends.
LEMMA ThreadSteps ==
  ASSUME [Next]_vars
  PROVE  \/ UNCHANGED thread
         \/ /\ Spawn
            /\ \E x \in Threads :
                 /\ thread[x].at = "free"
                 /\ thread' = [thread EXCEPT ![x] =
                      [NoThread EXCEPT !.at = "start", !.task = main.task, !.token = main.token]]
         \/ \E x \in Threads :
              /\ Start(x) \/ Run(x) \/ Break(x) \/ Count(x) \/ Leave(x)
              /\ thread[x].at # "free"
              /\ \E p \in ThreadPlaces \ {"free"} : ThreadGo(x, p)
         \/ \E x \in Threads :
              /\ \/ Leave(x) /\ ~InActive(x)
                 \/ Delete(x)
              /\ thread' = [thread EXCEPT ![x] = NoThread]
<1>1. ASSUME NEW x \in Threads, Start(x) \/ Run(x) \/ Break(x) \/ Count(x)
      PROVE  thread[x].at # "free" /\ \E p \in ThreadPlaces \ {"free"} : ThreadGo(x, p)
  BY <1>1 DEF Start, Run, Break, Count, ThreadPlaces
<1>2. ASSUME NEW x \in Threads, Leave(x)
      PROVE  /\ thread[x].at # "free"
             /\ \/ ThreadGo(x, "delete") /\ "delete" \in ThreadPlaces \ {"free"}
                \/ ~InActive(x) /\ thread' = [thread EXCEPT ![x] = NoThread]
  BY <1>2 DEF Leave, ThreadPlaces
<1>3. ASSUME NEW x \in Threads, Delete(x)
      PROVE  thread' = [thread EXCEPT ![x] = NoThread]
  BY <1>3 DEF Delete
<1>4. ASSUME NEW t \in Tasks,
             Claim(t) \/ Enqueue(t) \/ Cancel(t) \/ OtherClaims(t) \/ OtherEnds(t)
      PROVE  UNCHANGED thread
  BY <1>4 DEF Claim, Enqueue, Cancel, OtherClaims, OtherEnds
<1>5. CASE Spawn
  BY <1>5 DEF Spawn
<1>6. CASE \/ Loop \/ Capacity \/ NothingToClaim \/ ClaimFails \/ Register \/ Await
           \/ Finally \/ RequestShutdown \/ Stop \/ Signal \/ UNCHANGED vars
  <2>1. UNCHANGED thread
    BY <1>6 DEF Loop, Capacity, NothingToClaim, ClaimFails, Register, Await, Finally,
                RequestShutdown, Stop, Signal, vars
  <2>2. QED  BY <2>1
<1>7. QED  BY <1>1, <1>2, <1>3, <1>4, <1>5, <1>6, Steps

\* active_tasks: an entry is made, or deleted.
LEMMA ActiveSteps ==
  ASSUME [Next]_vars
  PROVE  UNCHANGED active \/ Register \/ \E x \in Threads : Delete(x)
<1>1. ASSUME NEW x \in Threads, Start(x) \/ Run(x) \/ Break(x) \/ Count(x) \/ Leave(x)
      PROVE  UNCHANGED active
  BY <1>1 DEF Start, Run, Break, Count, Leave
<1>2. ASSUME NEW t \in Tasks,
             Claim(t) \/ Enqueue(t) \/ Cancel(t) \/ OtherClaims(t) \/ OtherEnds(t)
      PROVE  UNCHANGED active
  BY <1>2 DEF Claim, Enqueue, Cancel, OtherClaims, OtherEnds
<1>3. CASE \/ Loop \/ Capacity \/ NothingToClaim \/ ClaimFails \/ Spawn \/ Await
           \/ Finally \/ RequestShutdown \/ Stop \/ Signal \/ UNCHANGED vars
  <2>1. UNCHANGED active
    BY <1>3 DEF Loop, Capacity, NothingToClaim, ClaimFails, Spawn, Await, Finally,
                RequestShutdown, Stop, Signal, vars
  <2>2. QED  BY <2>1
<1>4. QED  BY <1>1, <1>2, <1>3, Steps

\* What happened is not forgotten.
LEMMA SpentSteps ==
  ASSUME TypeOK, [Next]_vars
  PROVE  /\ spent' \in [DOMAIN Limit -> Nat]
         /\ spent.retaken \in Nat /\ spent'.retaken \in Nat
         /\ spent.retaken <= spent'.retaken
<1> DEFINE Goal == /\ spent' \in [DOMAIN Limit -> Nat]
                   /\ spent.retaken \in Nat /\ spent'.retaken \in Nat
                   /\ spent.retaken <= spent'.retaken
<1>1. spent \in [DOMAIN Limit -> Nat] /\ spent["retaken"] \in Nat
  BY Events DEF TypeOK
<1>2. CASE UNCHANGED spent
  BY <1>1, <1>2
<1>3. ASSUME NEW events, Spend(events) PROVE Goal
  BY <1>1, <1>3, SpendAdds
<1>4. ASSUME NEW x \in Threads,
             Start(x) \/ Run(x) \/ Break(x) \/ Count(x) \/ Leave(x) \/ Delete(x)
      PROVE  Goal
  <2>1. CASE Break(x)
    BY <2>1, <1>3 DEF Break
  <2>2. CASE ~Break(x)
    BY <2>2, <1>2, <1>4 DEF Start, Run, Count, Leave, Delete
  <2>3. QED  BY <2>1, <2>2
<1>5. ASSUME NEW t \in Tasks,
             Claim(t) \/ Enqueue(t) \/ Cancel(t) \/ OtherClaims(t) \/ OtherEnds(t)
      PROVE  Goal
  <2>1. (\E events : Spend(events)) \/ UNCHANGED spent
    BY <1>5 DEF Claim, Enqueue, Cancel, OtherClaims, OtherEnds
  <2>2. QED  BY <2>1, <1>2, <1>3
<1>6. CASE \/ Loop \/ Capacity \/ NothingToClaim \/ ClaimFails \/ Register \/ Spawn \/ Await
           \/ Finally \/ RequestShutdown \/ Stop \/ Signal \/ UNCHANGED vars
  <2>1. (\E events : Spend(events)) \/ UNCHANGED spent
    BY <1>6 DEF Loop, Capacity, NothingToClaim, ClaimFails, Register, Spawn, Await, Finally,
                RequestShutdown, Stop, Signal, vars
  <2>2. QED  BY <2>1, <1>2, <1>3
<1>7. QED  BY <1>4, <1>5, <1>6, Steps

-----------------------------------------------------------------------------
(* Types.                                                                  *)

\* The first state has its types.
LEMMA TypeInit == Init => TypeOK
<1>1. ASSUME Init PROVE TypeOK
  <2>1. LifecycleTypeOK
    BY <1>1 DEF Init, LifecycleInit, LifecycleTypeOK, States
  <2>2. main \in [at : MainPlaces, task : Tasks \union {NoTask}, token : Nat,
                  result : Results, clean : BOOLEAN]
    BY <1>1 DEF Init, MainPlaces, Results
  <2>3. service \in [slots : SlotCounts, state : WorkerStates, stop : BOOLEAN, completed : Nat]
    <3>1. PICK n \in SlotCounts :
            service = [slots |-> n, state |-> "IDLE", stop |-> FALSE, completed |-> 0]
      BY <1>1 DEF Init
    <3>2. QED  BY <3>1 DEF WorkerStates
  <2>4. active \in [Tasks -> Nat] /\ other \in [Tasks -> Nat]
    BY <1>1 DEF Init
  <2>5. thread \in [Threads -> [at : ThreadPlaces, task : Tasks \union {NoTask}, token : Nat]]
    BY <1>1 DEF Init, NoThread, ThreadPlaces
  <2>6. spent \in [DOMAIN Limit -> Nat]
    BY <1>1, Events DEF Init
  <2>7. QED  BY <2>1, <2>2, <2>3, <2>4, <2>5, <2>6 DEF TypeOK
<1>2. QED  BY <1>1

\* Each step of the queue keeps its types.
LEMMA LifecycleTypes ==
  ASSUME LifecycleTypeOK, NEW t \in Tasks,
         \/ Submit(t) \/ Grant(t) \/ Revoke(t)
         \/ \E k, s : Surrender(t, k, s)
  PROVE  LifecycleTypeOK'
BY DEF LifecycleTypeOK, States, Endings, Submit, Grant, Revoke, Surrender

\* Whose task is a task of the queue.
LEMMA OwnTasks ==
  ASSUME TypeOK, TokensAreSound
  PROVE  /\ Pending => main.task \in Tasks
         /\ \A x \in Threads : thread[x].at # "free" => thread[x].task \in Tasks
BY DEF TokensAreSound, Executions

\* The service keeps the types of the queue.
LEMMA LifecycleStep ==
  ASSUME TypeOK, TokensAreSound, [Next]_vars
  PROVE  LifecycleTypeOK'
<1>1. CASE UNCHANGED queue
  BY <1>1 DEF TypeOK, LifecycleTypeOK, queue
<1>2. ASSUME NEW t \in Tasks, \/ Submit(t) \/ Grant(t) \/ Revoke(t)
                               \/ \E k, s : Surrender(t, k, s)
      PROVE  LifecycleTypeOK'
  BY <1>2, LifecycleTypes DEF TypeOK
<1>3. ASSUME NEW x \in Threads, Run(x) PROVE LifecycleTypeOK'
  <2>1. thread[x].task \in Tasks
    BY <1>3, OwnTasks DEF Run
  <2>2. UNCHANGED queue \/ \E s : Surrender(thread[x].task, thread[x].token, s)
    BY <1>3 DEF Run
  <2>3. QED  BY <2>1, <2>2, <1>1, <1>2
<1>4. ASSUME NEW t \in Tasks, Claim(t) \/ Enqueue(t) \/ Cancel(t) \/ OtherClaims(t) \/ OtherEnds(t)
      PROVE  LifecycleTypeOK'
  BY <1>4, <1>2 DEF Claim, Enqueue, Cancel, OtherClaims, OtherEnds
<1>5. ASSUME NEW x \in Threads, Start(x) \/ Break(x) \/ Count(x) \/ Leave(x) \/ Delete(x)
      PROVE  UNCHANGED queue
  BY <1>5 DEF Start, Break, Count, Leave, Delete
<1>6. CASE \/ Loop \/ Capacity \/ NothingToClaim \/ ClaimFails \/ Register \/ Spawn \/ Await
           \/ Finally \/ RequestShutdown \/ Stop \/ Signal
  <2>1. UNCHANGED queue
    BY <1>6 DEF Loop, Capacity, NothingToClaim, ClaimFails, Register, Spawn, Await, Finally,
                RequestShutdown, Stop, Signal
  <2>2. QED  BY <2>1, <1>1
<1>7. CASE UNCHANGED vars
  BY <1>7, <1>1 DEF vars
<1>8. QED  BY <1>1, <1>3, <1>4, <1>5, <1>6, <1>7, Steps

\* Every step keeps the types.
LEMMA TypeStep ==
  ASSUME TypeOK, TokensAreSound, [Next]_vars
  PROVE  TypeOK'
<1> DEFINE MainType == main \in [at : MainPlaces, task : Tasks \union {NoTask}, token : Nat,
                                 result : Results, clean : BOOLEAN]
           ServiceType == service \in [slots : SlotCounts, state : WorkerStates,
                                       stop : BOOLEAN, completed : Nat]
           ActiveType == active \in [Tasks -> Nat]
           ThreadType == thread \in [Threads ->
                           [at : ThreadPlaces, task : Tasks \union {NoTask}, token : Nat]]
           OtherType == other \in [Tasks -> Nat]
           SpentType == spent \in [DOMAIN Limit -> Nat]
<1>1. MainType /\ ServiceType /\ ActiveType /\ ThreadType /\ OtherType /\ SpentType
  BY DEF TypeOK
<1>2. granted \in [Tasks -> Nat]
  BY DEF TypeOK, LifecycleTypeOK
<1>3. MainType'
  <2>1. CASE UNCHANGED main
    BY <2>1, <1>1
  <2>2. ASSUME NEW p \in MainPlaces, MainGo(p) PROVE MainType'
    BY <2>2, <1>1 DEF MainGo
  <2>3. ASSUME NEW p \in MainPlaces, NEW r \in Results, MainEnds(p, r) PROVE MainType'
    BY <2>3, <1>1 DEF MainEnds
  <2>4. CASE Loop
    <3>1. PICK p \in MainPlaces : main' = [main EXCEPT !.result = "claimed", !.at = p]
      BY <2>4 DEF Loop, MainPlaces
    <3>2. "claimed" \in Results
      BY DEF Results
    <3>3. QED  BY <3>1, <3>2, <1>1
  <2>5. ASSUME NEW t \in Tasks, Claim(t) PROVE MainType'
    <3>1. main' = [main EXCEPT !.at = "register", !.task = t, !.token = granted[t] + 1]
      BY <2>5 DEF Claim
    <3>2. granted[t] + 1 \in Nat /\ "register" \in MainPlaces
      BY <1>2 DEF MainPlaces
    <3>3. QED  BY <3>1, <3>2, <1>1
  <2>6. CASE Stop
    <3>1. PICK clean \in BOOLEAN : main' = [main EXCEPT !.at = "stopped", !.clean = clean]
      BY <2>6 DEF Stop
    <3>2. "stopped" \in MainPlaces
      BY DEF MainPlaces
    <3>3. QED  BY <3>1, <3>2, <1>1
  <2>7. CASE \/ Capacity \/ NothingToClaim \/ ClaimFails \/ Register \/ Spawn \/ Await
             \/ Finally \/ RequestShutdown
    <3>1. \/ \E p \in MainPlaces : MainGo(p)
          \/ \E p \in MainPlaces, r \in Results : MainEnds(p, r)
      BY <2>7 DEF Capacity, NothingToClaim, ClaimFails, Register, Spawn, Await, Finally,
                  RequestShutdown, MainPlaces, Results
    <3>2. QED  BY <3>1, <2>2, <2>3
  <2>8. ASSUME NEW x \in Threads,
               Start(x) \/ Run(x) \/ Break(x) \/ Count(x) \/ Leave(x) \/ Delete(x)
        PROVE  UNCHANGED main
    BY <2>8 DEF Start, Run, Break, Count, Leave, Delete
  <2>9. ASSUME NEW t \in Tasks, Enqueue(t) \/ Cancel(t) \/ OtherClaims(t) \/ OtherEnds(t)
        PROVE  UNCHANGED main
    BY <2>9 DEF Enqueue, Cancel, OtherClaims, OtherEnds
  <2>10. Signal \/ UNCHANGED vars => UNCHANGED main
    BY DEF Signal, vars
  <2>11. QED  BY <2>1, <2>4, <2>5, <2>6, <2>7, <2>8, <2>9, <2>10, Steps
<1>4. ServiceType'
  <2>1. CASE UNCHANGED service
    BY <2>1, <1>1
  <2>2. ASSUME NEW s \in WorkerStates, NEW b \in BOOLEAN,
               \/ service' = [service EXCEPT !.state = s]
               \/ service' = [service EXCEPT !.stop = b, !.state = s]
        PROVE  ServiceType'
    BY <2>2, <1>1
  <2>3. ASSUME NEW x \in Threads, Count(x) PROVE ServiceType'
    <3>1. UNCHANGED service \/ service' = [service EXCEPT !.completed = @ + 1]
      BY <2>3 DEF Count
    <3>2. QED  BY <3>1, <1>1
  <2>4. CASE \/ Capacity \/ NothingToClaim \/ Register \/ Spawn \/ Await \/ Finally
             \/ Stop \/ RequestShutdown \/ Signal
    <3>1. service.state \in WorkerStates
      BY <1>1
    <3>2. \/ UNCHANGED service
          \/ \E s \in WorkerStates, b \in BOOLEAN :
               \/ service' = [service EXCEPT !.state = s]
               \/ service' = [service EXCEPT !.stop = b, !.state = s]
      BY <2>4, <3>1 DEF Capacity, NothingToClaim, Register, Spawn, Await, Finally, Stop,
                        RequestShutdown, Signal, WorkerStates
    <3>3. QED  BY <3>2, <2>1, <2>2
  <2>5. ASSUME NEW x \in Threads, Start(x) \/ Run(x) \/ Break(x) \/ Leave(x) \/ Delete(x)
        PROVE  UNCHANGED service
    BY <2>5 DEF Start, Run, Break, Leave, Delete
  <2>6. ASSUME NEW t \in Tasks,
               Claim(t) \/ Enqueue(t) \/ Cancel(t) \/ OtherClaims(t) \/ OtherEnds(t)
        PROVE  UNCHANGED service
    BY <2>6 DEF Claim, Enqueue, Cancel, OtherClaims, OtherEnds
  <2>7. Loop \/ ClaimFails \/ UNCHANGED vars => UNCHANGED service
    BY DEF Loop, ClaimFails, vars
  <2>8. QED  BY <2>1, <2>3, <2>4, <2>5, <2>6, <2>7, Steps
<1>5. ThreadType'
  <2>1. CASE UNCHANGED thread
    BY <2>1, <1>1
  <2>2. ASSUME NEW x \in Threads, NEW p \in ThreadPlaces, ThreadGo(x, p) PROVE ThreadType'
    BY <2>2, <1>1 DEF ThreadGo
  <2>3. ASSUME NEW x \in Threads, thread' = [thread EXCEPT ![x] = NoThread] PROVE ThreadType'
    BY <2>3, <1>1 DEF NoThread, ThreadPlaces
  <2>4. ASSUME NEW x \in Threads,
               thread' = [thread EXCEPT ![x] =
                 [NoThread EXCEPT !.at = "start", !.task = main.task, !.token = main.token]]
        PROVE  ThreadType'
    <3>1. [NoThread EXCEPT !.at = "start", !.task = main.task, !.token = main.token]
            \in [at : ThreadPlaces, task : Tasks \union {NoTask}, token : Nat]
      BY <1>1 DEF NoThread, ThreadPlaces
    <3>2. QED  BY <2>4, <3>1, <1>1
  <2>5. QED  BY <2>1, <2>2, <2>3, <2>4, ThreadSteps DEF Spawn
<1>6. ActiveType'
  <2>1. CASE UNCHANGED active
    BY <2>1, <1>1
  <2>2. CASE Register
    <3>1. main.token \in Nat
      BY <1>1
    <3>2. QED  BY <2>2, <3>1, <1>1 DEF Register
  <2>3. ASSUME NEW x \in Threads, Delete(x) PROVE ActiveType'
    BY <2>3, <1>1 DEF Delete
  <2>4. QED  BY <2>1, <2>2, <2>3, ActiveSteps
<1>7. OtherType'
  <2>1. CASE UNCHANGED other
    BY <2>1, <1>1
  <2>2. ASSUME NEW t \in Tasks, NEW n \in Nat, other' = [other EXCEPT ![t] = n] PROVE OtherType'
    BY <2>2, <1>1
  <2>3. ASSUME NEW t \in Tasks, Claim(t) \/ Cancel(t) \/ OtherEnds(t) PROVE OtherType'
    BY <2>3, <2>2 DEF Claim, Cancel, OtherEnds
  <2>4. ASSUME NEW t \in Tasks, OtherClaims(t) PROVE OtherType'
    <3>1. granted[t] + 1 \in Nat
      BY <1>2
    <3>2. QED  BY <2>4, <3>1, <2>2 DEF OtherClaims
  <2>5. ASSUME NEW t \in Tasks, Enqueue(t) PROVE UNCHANGED other
    BY <2>5 DEF Enqueue
  <2>6. ASSUME NEW x \in Threads,
               Start(x) \/ Run(x) \/ Break(x) \/ Count(x) \/ Leave(x) \/ Delete(x)
        PROVE  UNCHANGED other
    BY <2>6 DEF Start, Run, Break, Count, Leave, Delete
  <2>7. CASE \/ Loop \/ Capacity \/ NothingToClaim \/ ClaimFails \/ Register \/ Spawn \/ Await
             \/ Finally \/ RequestShutdown \/ Stop \/ Signal \/ UNCHANGED vars
    <3>1. UNCHANGED other
      BY <2>7 DEF Loop, Capacity, NothingToClaim, ClaimFails, Register, Spawn, Await, Finally,
                  RequestShutdown, Stop, Signal, vars
    <3>2. QED  BY <3>1, <2>1
  <2>8. QED  BY <2>1, <2>3, <2>4, <2>5, <2>6, <2>7, Steps
<1>8. SpentType'
  BY SpentSteps, <1>1
<1>9. QED  BY <1>3, <1>4, <1>5, <1>6, <1>7, <1>8, LifecycleStep DEF TypeOK

-----------------------------------------------------------------------------
(* Tokens.                                                                 *)

\* The queue: grants are counted, and a success stands.
LEMMA QueueSteps ==
  ASSUME TypeOK, TokensAreSound, [Next]_vars
  PROVE  /\ granted' \in [Tasks -> Nat]
         /\ \A t \in Tasks : granted[t] <= granted'[t]
         /\ \A t \in Tasks : state[t] = "succeeded" => state'[t] = "succeeded"
<1> DEFINE Goal == \A t \in Tasks : /\ granted[t] <= granted'[t]
                                    /\ state[t] = "succeeded" => state'[t] = "succeeded"
<1>1. granted \in [Tasks -> Nat] /\ state \in [Tasks -> States]
  BY DEF TypeOK, LifecycleTypeOK
<1>2. CASE UNCHANGED queue
  BY <1>1, <1>2 DEF queue
<1>3. ASSUME NEW t \in Tasks, \/ Submit(t) \/ Grant(t) \/ Revoke(t)
                               \/ \E k, s : Surrender(t, k, s)
      PROVE  Goal
  BY <1>1, <1>3 DEF Submit, Grant, Revoke, Surrender
<1>4. ASSUME NEW x \in Threads, Run(x) PROVE Goal
  <2>1. thread[x].task \in Tasks
    BY <1>4, OwnTasks DEF Run
  <2>2. UNCHANGED queue \/ \E s : Surrender(thread[x].task, thread[x].token, s)
    BY <1>4 DEF Run
  <2>3. QED  BY <2>1, <2>2, <1>2, <1>3
<1>5. ASSUME NEW t \in Tasks,
             Claim(t) \/ Enqueue(t) \/ Cancel(t) \/ OtherClaims(t) \/ OtherEnds(t)
      PROVE  Goal
  BY <1>5, <1>3 DEF Claim, Enqueue, Cancel, OtherClaims, OtherEnds
<1>6. ASSUME NEW x \in Threads, Start(x) \/ Break(x) \/ Count(x) \/ Leave(x) \/ Delete(x)
      PROVE  UNCHANGED queue
  BY <1>6 DEF Start, Break, Count, Leave, Delete
<1>7. CASE \/ Loop \/ Capacity \/ NothingToClaim \/ ClaimFails \/ Register \/ Spawn \/ Await
           \/ Finally \/ RequestShutdown \/ Stop \/ Signal \/ UNCHANGED vars
  <2>1. UNCHANGED queue
    BY <1>7 DEF Loop, Capacity, NothingToClaim, ClaimFails, Register, Spawn, Await, Finally,
                RequestShutdown, Stop, Signal, vars
  <2>2. QED  BY <2>1, <1>2
<1>8. Goal
  BY <1>2, <1>4, <1>5, <1>6, <1>7, Steps
<1>9. granted' \in [Tasks -> Nat]
  BY LifecycleStep DEF LifecycleTypeOK
<1>10. QED  BY <1>8, <1>9

\* The main thread holds a lease from Claim to Spawn.
LEMMA MainSteps ==
  ASSUME TypeOK, [Next]_vars
  PROVE  \/ \E t \in Tasks : Claim(t)
         \/ ~Pending' /\ (Spawn \/ ~Pending)
         \/ Register /\ Pending /\ Pending' /\ main'.task = main.task /\ main'.token = main.token
         \/ UNCHANGED main
<1>1. main \in [at : MainPlaces, task : Tasks \union {NoTask}, token : Nat,
                result : Results, clean : BOOLEAN]
  BY DEF TypeOK
<1>2. \A p : MainGo(p) => main'.at = p /\ main'.task = main.task /\ main'.token = main.token
  BY <1>1 DEF MainGo
<1>3. \A p, r : MainEnds(p, r) => main'.at = p
  BY <1>1 DEF MainEnds
<1>4. CASE Loop
  <2>1. PICK p \in {"shutdown", "capacity"} : main' = [main EXCEPT !.result = "claimed", !.at = p]
    BY <1>4 DEF Loop
  <2>2. main'.at = p
    BY <2>1, <1>1
  <2>3. QED  BY <1>4, <2>2 DEF Loop, MainAt, Pending
<1>5. CASE Stop
  <2>1. PICK clean \in BOOLEAN : main' = [main EXCEPT !.at = "stopped", !.clean = clean]
    BY <1>5 DEF Stop
  <2>2. main'.at = "stopped"
    BY <2>1, <1>1
  <2>3. QED  BY <1>5, <2>2 DEF Stop, MainAt, Pending
<1>6. CASE Register
  BY <1>6, <1>2 DEF Register, MainAt, Pending
<1>7. CASE Spawn
  BY <1>7, <1>2, <1>3 DEF Spawn, Pending
<1>8. CASE Capacity \/ NothingToClaim \/ ClaimFails \/ Await \/ Finally \/ RequestShutdown
  BY <1>8, <1>2, <1>3 DEF Capacity, NothingToClaim, ClaimFails, Await, Finally, RequestShutdown,
                          MainAt, Pending
<1>9. ASSUME NEW x \in Threads,
             Start(x) \/ Run(x) \/ Break(x) \/ Count(x) \/ Leave(x) \/ Delete(x)
      PROVE  UNCHANGED main
  BY <1>9 DEF Start, Run, Break, Count, Leave, Delete
<1>10. ASSUME NEW t \in Tasks, Enqueue(t) \/ Cancel(t) \/ OtherClaims(t) \/ OtherEnds(t)
      PROVE  UNCHANGED main
  BY <1>10 DEF Enqueue, Cancel, OtherClaims, OtherEnds
<1>11. Signal \/ UNCHANGED vars => UNCHANGED main
  BY DEF Signal, vars
<1>12. QED  BY <1>4, <1>5, <1>6, <1>7, <1>8, <1>9, <1>10, <1>11, Steps

\* What becomes of the executions.
LEMMA ExecutionSteps ==
  ASSUME TypeOK, [Next]_vars
  PROVE  \/ /\ Spawn /\ ~Pending' /\ UNCHANGED spent
            /\ \E x \in Threads \ Executions :
                 /\ Executions' = Executions \union {x}
                 /\ Working' = Working \union {x} /\ x \notin Working
                 /\ thread'[x].task = main.task /\ thread'[x].token = main.token
                 /\ \A y \in Executions : thread'[y] = thread[y]
         \/ /\ Executions' \subseteq Executions
            /\ \A y \in Executions' : /\ thread'[y].task = thread[y].task
                                       /\ thread'[y].token = thread[y].token
            /\ \/ Executions' = Executions
               \/ \E x \in Executions :
                    /\ (Leave(x) /\ ~InActive(x)) \/ Delete(x)
                    /\ Executions' = Executions \ {x}
            /\ \/ Working' = Working
               \/ \E x \in Working :
                    Working' = Working \ {x} /\ (Count(x) \/ Break(x))
<1>1. thread \in [Threads -> [at : ThreadPlaces, task : Tasks \union {NoTask}, token : Nat]]
  BY DEF TypeOK
<1>2. CASE UNCHANGED thread
  BY <1>2 DEF Executions, Working
<1>3. ASSUME Spawn, NEW x \in Threads, thread[x].at = "free",
             thread' = [thread EXCEPT ![x] =
               [NoThread EXCEPT !.at = "start", !.task = main.task, !.token = main.token]]
      PROVE  /\ ~Pending' /\ UNCHANGED spent
             /\ x \notin Executions
             /\ Executions' = Executions \union {x}
             /\ Working' = Working \union {x} /\ x \notin Working
             /\ thread'[x].task = main.task /\ thread'[x].token = main.token
             /\ \A y \in Executions : thread'[y] = thread[y]
  <2>1. thread'[x] = [at |-> "start", task |-> main.task, token |-> main.token]
    BY <1>1, <1>3 DEF NoThread
  <2>2. \A y \in Threads \ {x} : thread'[y] = thread[y]
    BY <1>1, <1>3
  <2>3. ~UNCHANGED thread
    BY <2>1, <1>3
  <2>4. ~Pending' /\ UNCHANGED spent
    BY <1>3, <2>3, MainSteps DEF Spawn, MainGo, TypeOK, Pending
  <2>5. QED  BY <2>1, <2>2, <2>4, <1>3 DEF Executions, Working
<1>4. ASSUME NEW x \in Threads, NEW p \in ThreadPlaces \ {"free"}, ThreadGo(x, p),
             thread[x].at # "free",
             Start(x) \/ Run(x) \/ Break(x) \/ Count(x) \/ Leave(x)
      PROVE  /\ Executions' = Executions
             /\ \A y \in Executions' : /\ thread'[y].task = thread[y].task
                                       /\ thread'[y].token = thread[y].token
             /\ \/ Working' = Working
                \/ /\ x \in Working /\ Working' = Working \ {x}
                   /\ Count(x) \/ Break(x)
  <2>1. /\ thread'[x].at = p /\ thread'[x].task = thread[x].task
        /\ thread'[x].token = thread[x].token
    BY <1>1, <1>4 DEF ThreadGo
  <2>2. \A y \in Threads \ {x} : thread'[y] = thread[y]
    BY <1>1, <1>4 DEF ThreadGo
  <2>3. CASE Start(x) \/ Run(x)
    <3>1. thread[x].at \in {"start", "run"} /\ thread'[x].at \in {"run", "count"}
      BY <2>3, <1>1 DEF Start, Run, ThreadGo
    <3>2. QED  BY <3>1, <2>1, <2>2 DEF Executions, Working
  <2>4. CASE Break(x) \/ Count(x)
    <3>1. thread[x].at \in {"start", "run", "count"} /\ thread'[x].at \in {"count", "leave"}
      BY <2>4, <1>1 DEF Break, Count, ThreadGo
    <3>2. QED  BY <3>1, <2>1, <2>2, <2>4, <1>4 DEF Executions, Working
  <2>5. CASE Leave(x)
    <3>1. thread[x].at = "leave" /\ thread'[x].at \in {"delete", "free"}
      BY <2>5, <1>1 DEF Leave, ThreadGo, NoThread
    <3>2. QED  BY <3>1, <2>1, <2>2, <1>4 DEF Executions, Working
  <2>6. QED  BY <1>4, <2>3, <2>4, <2>5
<1>5. ASSUME NEW x \in Threads, thread' = [thread EXCEPT ![x] = NoThread],
             (Leave(x) /\ ~InActive(x)) \/ Delete(x)
      PROVE  /\ x \in Executions
             /\ Executions' = Executions \ {x} /\ Working' = Working
             /\ \A y \in Executions' : thread'[y] = thread[y]
  <2>1. thread[x].at \in {"leave", "delete"}
    BY <1>5 DEF Leave, Delete
  <2>2. thread'[x].at = "free" /\ \A y \in Threads \ {x} : thread'[y] = thread[y]
    BY <1>1, <1>5 DEF NoThread
  <2>3. QED  BY <2>1, <2>2 DEF Executions, Working
<1>6. QED  BY <1>2, <1>3, <1>4, <1>5, ThreadSteps

\* Executions are threads, and the threads at work are executions.
LEMMA ExecutionsAreThreads ==
  /\ Executions \subseteq Threads /\ Working \subseteq Executions
  /\ Working' \subseteq Executions'
BY DEF Executions, Working

\* Every step keeps the tokens apart.
LEMMA TokenStep ==
  ASSUME TypeOK, TokensAreSound, [Next]_vars
  PROVE  TokensAreSound'
<1> DEFINE Typed == \A x \in Executions : /\ thread[x].task \in Tasks
                                          /\ thread[x].token \in 1..granted[thread[x].task]
           Fresh == Pending => /\ main.task \in Tasks
                               /\ main.token \in 1..granted[main.task]
                               /\ \A x \in Executions :
                                    thread[x].task = main.task => thread[x].token # main.token
           Unique == \A x, y \in Executions :
                       x # y /\ thread[x].task = thread[y].task => thread[x].token # thread[y].token
           Fewer == /\ Executions' \subseteq Executions
                    /\ \A y \in Executions' : /\ thread'[y].task = thread[y].task
                                              /\ thread'[y].token = thread[y].token
<1>1. granted \in [Tasks -> Nat] /\ granted' \in [Tasks -> Nat]
  BY QueueSteps DEF TypeOK, LifecycleTypeOK
<1>2. \A t \in Tasks : granted[t] <= granted'[t]
  BY QueueSteps
<1>3. Typed /\ Fresh /\ Unique
  BY DEF TokensAreSound
<1>4. CASE Fewer
  <2>1. Typed'
    BY <1>1, <1>2, <1>3, <1>4
  <2>2. Unique'
    BY <1>3, <1>4
  <2>3. ASSUME Pending, main'.task = main.task, main'.token = main.token PROVE Fresh'
    <3>1. main.task \in Tasks /\ main.token \in 1..granted[main.task]
      BY <2>3, <1>3
    <3>2. main.token \in 1..granted'[main.task]
      BY <3>1, <1>1, <1>2
    <3>3. ASSUME NEW x \in Executions', thread'[x].task = main'.task
          PROVE  thread'[x].token # main'.token
      BY <3>3, <2>3, <1>3, <1>4
    <3>4. QED  BY <3>1, <3>2, <3>3, <2>3
  <2>4. ASSUME NEW t \in Tasks, Claim(t) PROVE Fresh'
    <3>1. main'.task = t /\ main'.token = granted[t] + 1 /\ granted'[t] = granted[t] + 1
      BY <2>4, <1>1 DEF Claim, Grant, TypeOK
    <3>2. \A x \in Executions' : thread'[x].task = t => thread'[x].token \in 1..granted[t]
      BY <1>3, <1>4
    <3>3. QED  BY <3>1, <3>2, <1>1
  <2>5. UNCHANGED main => (Pending' <=> Pending)
    BY DEF Pending
  <2>6. Fresh'
    <3>1. CASE ~Pending'
      BY <3>1
    <3>2. CASE Pending'
      BY <3>2, <2>3, <2>4, <2>5, MainSteps
    <3>3. QED  BY <3>1, <3>2
  <2>7. QED  BY <2>1, <2>2, <2>6 DEF TokensAreSound
<1>5. ASSUME Spawn, ~Pending', NEW x \in Threads \ Executions,
             Executions' = Executions \union {x},
             thread'[x].task = main.task, thread'[x].token = main.token,
             \A y \in Executions : thread'[y] = thread[y]
      PROVE  TokensAreSound'
  <2>1. Pending
    BY <1>5 DEF Spawn, MainAt, Pending
  <2>2. Typed'
    <3>1. \A y \in Executions : /\ thread'[y].task \in Tasks
                                /\ thread'[y].token \in 1..granted'[thread'[y].task]
      BY <1>1, <1>2, <1>3, <1>5
    <3>2. main.task \in Tasks /\ main.token \in 1..granted[main.task]
      BY <2>1, <1>3
    <3>3. main.token \in 1..granted'[main.task]
      BY <3>2, <1>1, <1>2
    <3>4. \A y \in Executions' : y \in Executions \/ y = x
      BY <1>5
    <3>5. QED  BY <3>1, <3>2, <3>3, <3>4, <1>5
  <2>3. Unique'
    BY <2>1, <1>3, <1>5
  <2>4. QED  BY <2>2, <2>3, <1>5 DEF TokensAreSound
<1>6. CASE \E x \in Threads \ Executions :
             /\ Spawn /\ ~Pending'
             /\ Executions' = Executions \union {x}
             /\ thread'[x].task = main.task /\ thread'[x].token = main.token
             /\ \A y \in Executions : thread'[y] = thread[y]
  BY <1>5, <1>6
<1>7. QED  BY <1>4, <1>6, ExecutionSteps, ExecutionsAreThreads

-----------------------------------------------------------------------------
(* Entries of active_tasks.                                                *)

\* There are finitely many threads.
LEMMA Finite ==
  /\ \A S \in SUBSET Threads : IsFiniteSet(S) /\ Cardinality(S) \in Nat
  /\ \A S \in SUBSET Tasks : IsFiniteSet(S) /\ Cardinality(S) \in Nat
BY ServiceAssumption, FS_Subset, FS_CardinalityType

\* A part of a set of threads.
LEMMA Subsets ==
  ASSUME NEW S \in SUBSET Threads, NEW T \in SUBSET S
  PROVE  Cardinality(T) <= Cardinality(S)
BY Finite, FS_Subset

\* A set within another and one thread more.
LEMMA OneMore ==
  ASSUME NEW S \in SUBSET Threads, NEW T \in SUBSET Threads, NEW x \in Threads,
         T \subseteq S \union {x}
  PROVE  Cardinality(T) <= Cardinality(S) + 1
<1>1. S \union {x} \in SUBSET Threads
  OBVIOUS
<1>2. Cardinality(S \union {x}) <= Cardinality(S) + 1
  BY Finite, FS_AddElement
<1>3. Cardinality(T) <= Cardinality(S \union {x})
  BY <1>1, Subsets
<1>4. QED  BY <1>1, <1>2, <1>3, Finite

\* A part of a set that lacks one thread.
LEMMA OneLess ==
  ASSUME NEW S \in SUBSET Threads, NEW x \in S, NEW T \in SUBSET S, x \notin T
  PROVE  Cardinality(T) + 1 <= Cardinality(S)
<1>1. S \ {x} \in SUBSET Threads /\ T \in SUBSET (S \ {x})
  OBVIOUS
<1>2. Cardinality(S \ {x}) = Cardinality(S) - 1
  BY Finite, FS_RemoveElement
<1>3. Cardinality(T) <= Cardinality(S \ {x})
  BY <1>1, Subsets
<1>4. QED  BY <1>1, <1>2, <1>3, Finite

\* What is counted of entries are numbers.
LEMMA EntryNumbers ==
  ASSUME TypeOK
  PROVE  /\ Cardinality(Unregistered) \in Nat /\ Cardinality(Unregistered') \in Nat
         /\ spent.retaken \in Nat
<1>1. Unregistered \in SUBSET Threads /\ Unregistered' \in SUBSET Threads
  BY DEF Unregistered, Executions
<1>2. spent["retaken"] \in Nat
  BY Events DEF TypeOK
<1>3. QED  BY <1>1, <1>2, Finite

\* A new entry replaces the entry of at most one execution, which then is the
\* one the main thread was owing.
LEMMA EntryRegister ==
  ASSUME TypeOK, TokensAreSound, EntriesAreSound, Register
  PROVE  Cardinality(Unregistered') + One(Owing') <= spent.retaken
<1>1. Unregistered \in SUBSET Threads /\ Unregistered' \in SUBSET Threads
  BY DEF Unregistered, Executions
<1>2. main.at = "register" /\ main.task \in Tasks /\ UNCHANGED thread /\ active \in [Tasks -> Nat]
  BY DEF Register, MainAt, TokensAreSound, Pending, TypeOK
<1>3. active' = [active EXCEPT ![main.task] = main.token]
  BY DEF Register
<1>4. main'.at = "spawn" /\ main'.task = main.task /\ main'.token = main.token
  BY DEF Register, MainGo, TypeOK
<1>5. ~Owing'
  BY <1>2, <1>3, <1>4 DEF Owing
<1>6. \A x \in Executions : thread[x].task \in Tasks
  BY DEF TokensAreSound
<1>7. CASE Owing
  <2>1. PICK y \in Executions :
          thread[y].task = main.task /\ active[main.task] = thread[y].token
    BY <1>2, <1>7 DEF Owing
  <2>2. ASSUME NEW x \in Unregistered', x # y PROVE x \in Unregistered
    <3>1. x \in Executions /\ active'[thread[x].task] # thread[x].token
      BY <1>2 DEF Unregistered, Executions
    <3>2. CASE thread[x].task = main.task
      BY <2>1, <2>2, <3>1, <3>2 DEF TokensAreSound, Unregistered
    <3>3. CASE thread[x].task # main.task
      BY <1>2, <1>3, <1>6, <3>1, <3>3 DEF Unregistered
    <3>4. QED  BY <3>2, <3>3
  <2>3. Unregistered' \subseteq Unregistered \union {y} /\ y \in Threads
    BY <2>1, <2>2 DEF Executions
  <2>4. Cardinality(Unregistered') <= Cardinality(Unregistered) + 1
    BY <1>1, <2>3, OneMore
  <2>5. QED  BY <1>5, <1>7, <2>4, EntryNumbers DEF EntriesAreSound, One
<1>8. CASE ~Owing
  <2>1. ASSUME NEW x \in Unregistered' PROVE x \in Unregistered
    <3>1. x \in Executions /\ active'[thread[x].task] # thread[x].token
      BY <1>2 DEF Unregistered, Executions
    <3>2. CASE thread[x].task = main.task
      BY <1>2, <1>8, <3>1, <3>2 DEF Owing, Unregistered
    <3>3. CASE thread[x].task # main.task
      BY <1>2, <1>3, <1>6, <3>1, <3>3 DEF Unregistered
    <3>4. QED  BY <3>2, <3>3
  <2>2. Cardinality(Unregistered') <= Cardinality(Unregistered)
    BY <1>1, <2>1, Subsets
  <2>3. QED  BY <1>5, <1>8, <2>2, EntryNumbers DEF EntriesAreSound, One
<1>9. QED  BY <1>7, <1>8

\* A thread that deletes the entry of another takes its own loss with it.
LEMMA EntryDelete ==
  ASSUME TypeOK, TokensAreSound, EntriesAreSound, NEW x \in Threads, Delete(x)
  PROVE  Cardinality(Unregistered') + One(Owing') <= spent.retaken
<1> DEFINE t == thread[x].task
<1>1. Unregistered \in SUBSET Threads /\ Unregistered' \in SUBSET Threads
  BY DEF Unregistered, Executions
<1>2. x \in Executions /\ t \in Tasks /\ UNCHANGED main /\ active \in [Tasks -> Nat]
  BY DEF Delete, TokensAreSound, TypeOK, Executions
<1>3. active' = [active EXCEPT ![t] = 0]
  BY DEF Delete
<1>4. Executions' = Executions \ {x} /\ \A y \in Executions' : thread'[y] = thread[y]
  <2>1. thread \in [Threads -> [at : ThreadPlaces, task : Tasks \union {NoTask}, token : Nat]]
    BY DEF TypeOK
  <2>2. thread' = [thread EXCEPT ![x] = NoThread]
    BY DEF Delete
  <2>3. QED  BY <2>1, <2>2 DEF Executions, NoThread
<1>5. \A y \in Executions : thread[y].task \in Tasks /\ thread[y].token # 0
  BY DEF TokensAreSound
<1>6. ASSUME NEW y \in Unregistered'
      PROVE  y \in Executions \ {x} /\ (y \in Unregistered \/ thread[y].task = t)
  BY <1>2, <1>3, <1>4, <1>5 DEF Unregistered
<1>7. ASSUME Owing'
      PROVE  Owing \/ (main.at = "spawn" /\ main.task = t /\ active[t] = main.token)
  <2>1. CASE main.at = "spawn" /\ active'[main.task] # main.token
    <3>1. main.task \in Tasks
      BY <2>1 DEF TokensAreSound, Pending
    <3>2. CASE main.task = t /\ active[t] = main.token
      BY <2>1, <3>2
    <3>3. CASE main.task = t /\ active[t] # main.token
      BY <2>1, <3>3 DEF Owing
    <3>4. CASE main.task # t
      BY <2>1, <3>1, <3>4, <1>2, <1>3 DEF Owing
    <3>5. QED  BY <3>2, <3>3, <3>4
  <2>2. CASE main.at = "register"
    <3>1. main.task \in Tasks
      BY <2>2 DEF TokensAreSound, Pending
    <3>2. PICK y \in Executions' :
            thread'[y].task = main.task /\ active'[main.task] = thread'[y].token
      BY <1>2, <1>7, <2>2 DEF Owing
    <3>3. main.task # t
      BY <1>2, <1>3, <1>4, <1>5, <3>2
    <3>4. active'[main.task] = active[main.task]
      BY <3>1, <3>3, <1>2, <1>3
    <3>5. y \in Executions /\ thread'[y] = thread[y]
      BY <3>2, <1>4
    <3>6. QED  BY <3>2, <3>4, <3>5, <2>2 DEF Owing
  <2>3. QED  BY <1>2, <1>7, <2>1, <2>2 DEF Owing
<1>8. CASE \E y \in Executions : thread[y].task = t /\ active[t] = thread[y].token
  <2>1. PICK y \in Executions : thread[y].task = t /\ active[t] = thread[y].token
    BY <1>8
  <2>2. Owing' => Owing
    BY <1>7, <2>1 DEF TokensAreSound, Pending
  <2>3. \A z \in Executions : z # y /\ thread[z].task = t => z \in Unregistered
    BY <2>1 DEF TokensAreSound, Unregistered
  <2>4. CASE y = x
    <3>1. Unregistered' \subseteq Unregistered
      BY <1>6, <2>3, <2>4
    <3>2. Cardinality(Unregistered') <= Cardinality(Unregistered)
      BY <1>1, <3>1, Subsets
    <3>3. QED  BY <2>2, <3>2, EntryNumbers DEF EntriesAreSound, One
  <2>5. CASE y # x
    <3> DEFINE U == Unregistered \ {x}
    <3>1. x \in Unregistered /\ y \in Threads
      BY <1>2, <2>3, <2>5 DEF Executions
    <3>2. U \in SUBSET Threads /\ Unregistered' \subseteq U \union {y}
      BY <1>1, <1>6, <2>3
    <3>3. Cardinality(Unregistered') <= Cardinality(U) + 1
      BY <1>1, <3>1, <3>2, OneMore
    <3>4. Cardinality(U) + 1 <= Cardinality(Unregistered)
      BY <1>1, <3>1, OneLess
    <3>5. Cardinality(Unregistered') <= Cardinality(Unregistered)
      BY <1>1, <3>2, <3>3, <3>4, Finite
    <3>6. QED  BY <2>2, <3>5, EntryNumbers DEF EntriesAreSound, One
  <2>6. QED  BY <2>4, <2>5
<1>9. CASE ~\E y \in Executions : thread[y].task = t /\ active[t] = thread[y].token
  <2>1. x \in Unregistered
    BY <1>2, <1>9 DEF Unregistered
  <2>2. Unregistered' \subseteq Unregistered /\ x \notin Unregistered'
    BY <1>6, <1>9 DEF Unregistered
  <2>3. Cardinality(Unregistered') + 1 <= Cardinality(Unregistered)
    BY <1>1, <2>1, <2>2, OneLess
  <2>4. QED  BY <2>3, EntryNumbers DEF EntriesAreSound, One
<1>10. QED  BY <1>8, <1>9

\* No other step costs an entry, unless a task is claimed twice.
LEMMA EntryStep ==
  ASSUME TypeOK, TokensAreSound, EntriesAreSound, [Next]_vars
  PROVE  EntriesAreSound'
<1>1. Unregistered \in SUBSET Threads /\ Unregistered' \in SUBSET Threads
  BY DEF Unregistered, Executions
<1>2. /\ spent.retaken \in Nat /\ spent'.retaken \in Nat
      /\ spent.retaken <= spent'.retaken
  BY SpentSteps
<1>3. Cardinality(Unregistered) \in Nat /\ Cardinality(Unregistered') \in Nat
  BY <1>1, Finite
<1>4. CASE Register \/ \E x \in Threads : Delete(x)
  <2>1. Cardinality(Unregistered') + One(Owing') <= spent.retaken
    BY <1>4, EntryRegister, EntryDelete
  <2>2. One(Owing') \in Nat
    BY DEF One
  <2>3. QED  BY <2>1, <2>2, <1>2, <1>3 DEF EntriesAreSound, One
<1>5. CASE /\ UNCHANGED active /\ Spawn /\ ~Pending' /\ UNCHANGED spent
           /\ \E x \in Threads \ Executions :
                /\ Executions' = Executions \union {x}
                /\ thread'[x].task = main.task /\ thread'[x].token = main.token
                /\ \A y \in Executions : thread'[y] = thread[y]
  <2>1. PICK x \in Threads \ Executions :
          /\ Executions' = Executions \union {x}
          /\ thread'[x].task = main.task /\ thread'[x].token = main.token
          /\ \A y \in Executions : thread'[y] = thread[y]
    BY <1>5
  <2>2. ~Owing'
    BY <1>5 DEF Owing, Pending
  <2>3. main.at = "spawn"
    BY <1>5 DEF Spawn, MainAt
  <2>4. Unregistered' \subseteq Unregistered \union {x}
    BY <1>5, <2>1 DEF Unregistered
  <2>5. CASE Owing
    <3>1. Cardinality(Unregistered') <= Cardinality(Unregistered) + 1
      BY <1>1, <2>4, OneMore
    <3>2. QED  BY <1>5, <2>2, <2>5, <3>1, EntryNumbers DEF EntriesAreSound, One
  <2>6. CASE ~Owing
    <3>1. Unregistered' \subseteq Unregistered
      BY <1>5, <2>1, <2>3, <2>4, <2>6 DEF Owing, Unregistered
    <3>2. Cardinality(Unregistered') <= Cardinality(Unregistered)
      BY <1>1, <3>1, Subsets
    <3>3. QED  BY <1>5, <2>2, <2>6, <3>2, EntryNumbers DEF EntriesAreSound, One
  <2>7. QED  BY <2>5, <2>6
<1>6. CASE /\ UNCHANGED active
           /\ Executions' \subseteq Executions
           /\ \A y \in Executions' : /\ thread'[y].task = thread[y].task
                                     /\ thread'[y].token = thread[y].token
           /\ ~Register
  <2>1. Unregistered' \subseteq Unregistered
    BY <1>6 DEF Unregistered
  <2>2. Cardinality(Unregistered') <= Cardinality(Unregistered)
    BY <1>1, <2>1, Subsets
  <2>3. CASE Owing' => Owing
    BY <1>2, <1>3, <2>2, <2>3 DEF EntriesAreSound, One
  <2>4. UNCHANGED main \/ ~Pending' => (Owing' => Owing)
    BY <1>6 DEF Owing, Pending
  <2>5. ASSUME NEW k \in Tasks, Claim(k), Owing'
        PROVE  spent'.retaken = spent.retaken + 1
    <3>1. main'.at = "register" /\ main'.task = k
      BY <2>5 DEF Claim, TypeOK
    <3>2. \E x \in Executions : thread[x].task = k
      BY <2>5, <3>1, <1>6 DEF Owing
    <3>3. PICK events : "retaken" \in events /\ Spend(events)
      BY <2>5, <3>2 DEF Claim
    <3>4. QED  BY <3>3, SpendAdds
  <2>6. ASSUME NEW k \in Tasks, Claim(k) PROVE ~Owing
    BY <2>6 DEF Claim, MainAt, Owing
  <2>7. ASSUME NEW k \in Tasks, Claim(k), Owing' PROVE EntriesAreSound'
    BY <1>2, <1>3, <2>2, <2>5, <2>6, <2>7 DEF EntriesAreSound, One
  <2>8. QED  BY <1>6, <2>3, <2>4, <2>7, MainSteps
<1>7. QED  BY <1>4, <1>5, <1>6, ActiveSteps, ExecutionSteps

-----------------------------------------------------------------------------
(* Counts.                                                                 *)

\* Only a thread that found its task succeeded counts.
LEMMA CompletedSteps ==
  ASSUME TypeOK, [Next]_vars
  PROVE  \/ service'.completed = service.completed
         \/ \E x \in Threads : /\ Count(x) /\ state[thread[x].task] = "succeeded"
                              /\ service'.completed = service.completed + 1
<1>1. service \in [slots : SlotCounts, state : WorkerStates, stop : BOOLEAN, completed : Nat]
  BY DEF TypeOK
<1>2. ASSUME NEW x \in Threads, Count(x)
      PROVE  \/ service'.completed = service.completed
             \/ /\ state[thread[x].task] = "succeeded"
                /\ service'.completed = service.completed + 1
  BY <1>1, <1>2 DEF Count
<1>3. ASSUME NEW x \in Threads, Start(x) \/ Run(x) \/ Break(x) \/ Leave(x) \/ Delete(x)
      PROVE  service'.completed = service.completed
  BY <1>3 DEF Start, Run, Break, Leave, Delete
<1>4. ASSUME NEW t \in Tasks,
             Claim(t) \/ Enqueue(t) \/ Cancel(t) \/ OtherClaims(t) \/ OtherEnds(t)
      PROVE  service'.completed = service.completed
  BY <1>4 DEF Claim, Enqueue, Cancel, OtherClaims, OtherEnds
<1>5. CASE \/ Loop \/ Capacity \/ NothingToClaim \/ ClaimFails \/ Register \/ Spawn \/ Await
           \/ Finally \/ RequestShutdown \/ Stop \/ Signal \/ UNCHANGED vars
  <2>1. \/ UNCHANGED service
        \/ \E s : service' = [service EXCEPT !.state = s]
        \/ \E s, b : service' = [service EXCEPT !.stop = b, !.state = s]
    BY <1>5 DEF Loop, Capacity, NothingToClaim, ClaimFails, Register, Spawn, Await, Finally,
                RequestShutdown, Stop, Signal, vars
  <2>2. QED  BY <1>1, <2>1
<1>6. QED  BY <1>2, <1>3, <1>4, <1>5, Steps

\* What is counted of results are numbers.
LEMMA CountNumbers ==
  ASSUME TypeOK
  PROVE  /\ service.completed \in Nat /\ spent.retaken \in Nat
         /\ Cardinality(Working) \in Nat /\ Cardinality(Working') \in Nat
         /\ Cardinality(Countable) \in Nat /\ Cardinality(Countable') \in Nat
<1>1. Working \in SUBSET Threads /\ Working' \in SUBSET Threads
  BY DEF Working
<1>2. Countable \in SUBSET Tasks /\ Countable' \in SUBSET Tasks
  BY DEF Countable
<1>3. service.completed \in Nat
  BY DEF TypeOK
<1>4. QED  BY <1>1, <1>2, <1>3, EntryNumbers, Finite

\* The countable tasks may grow.
LEMMA Grown ==
  ASSUME Countable \subseteq Countable'
  PROVE  Cardinality(Countable) <= Cardinality(Countable')
<1>1. IsFiniteSet(Countable') /\ Countable \in SUBSET Countable'
  BY Finite DEF Countable
<1>2. QED  BY <1>1, FS_Subset

\* The countable tasks may lose one.
LEMMA LostOne ==
  ASSUME NEW t, Countable \ {t} \subseteq Countable'
  PROVE  Cardinality(Countable) <= Cardinality(Countable') + 1
<1>1. Countable' \union {t} \in SUBSET (Tasks \union {t}) /\ IsFiniteSet(Countable')
  BY Finite DEF Countable
<1>2. /\ IsFiniteSet(Countable' \union {t})
      /\ Cardinality(Countable' \union {t}) =
           IF t \in Countable' THEN Cardinality(Countable') ELSE Cardinality(Countable') + 1
  BY <1>1, FS_AddElement
<1>3. Cardinality(Countable) <= Cardinality(Countable' \union {t})
  BY <1>2, FS_Subset
<1>4. Cardinality(Countable) \in Nat /\ Cardinality(Countable') \in Nat
  BY Finite DEF Countable
<1>5. QED  BY <1>2, <1>3, <1>4

\* A claim adds an execution, and a task or a task claimed twice.
LEMMA CountClaim ==
  ASSUME TypeOK, TokensAreSound, CountsAreSound, NEW t \in Tasks, Claim(t)
  PROVE  CountsAreSound'
<1>1. UNCHANGED <<thread, service>> /\ ~Pending /\ Pending' /\ main'.task = t
  BY DEF Claim, MainAt, Pending, TypeOK
<1>2. Working' = Working
  BY <1>1 DEF Working
<1>3. \A u \in Tasks : state[u] = "succeeded" => state'[u] = "succeeded"
  BY DEF Claim, Grant, TypeOK, LifecycleTypeOK
<1>4. Countable \subseteq Countable' /\ t \in Countable'
  BY <1>1, <1>2, <1>3 DEF Countable
<1>5. PICK events : Spend(events) /\ ((\E x \in Executions : thread[x].task = t) => "retaken" \in events)
  BY DEF Claim
<1>6. spent'.retaken = IF "retaken" \in events THEN spent.retaken + 1 ELSE spent.retaken
  BY <1>5, SpendAdds
<1>7. CASE t \in Countable
  <2>1. \E x \in Working : thread[x].task = t
    BY <1>1, <1>7 DEF Countable, Claim, Grant
  <2>2. spent'.retaken = spent.retaken + 1
    BY <1>5, <1>6, <2>1, ExecutionsAreThreads
  <2>3. Cardinality(Countable) <= Cardinality(Countable')
    BY <1>4, Grown
  <2>4. QED  BY <1>1, <1>2, <2>2, <2>3, CountNumbers DEF CountsAreSound, One
<1>8. CASE t \notin Countable
  <2>1. IsFiniteSet(Countable) /\ IsFiniteSet(Countable')
    BY Finite DEF Countable
  <2>2. /\ IsFiniteSet(Countable \union {t})
        /\ Cardinality(Countable \union {t}) = Cardinality(Countable) + 1
    BY <1>8, <2>1, FS_AddElement
  <2>3. Cardinality(Countable \union {t}) <= Cardinality(Countable')
    BY <1>4, <2>1, FS_Subset
  <2>4. spent.retaken <= spent'.retaken /\ spent'.retaken \in Nat
    BY <1>6, CountNumbers
  <2>5. QED  BY <1>1, <1>2, <2>2, <2>3, <2>4, CountNumbers DEF CountsAreSound, One
<1>9. QED  BY <1>7, <1>8

\* The lease just claimed becomes a thread, or is lost.
LEMMA CountSpawn ==
  ASSUME TypeOK, TokensAreSound, CountsAreSound, Spawn, [Next]_vars
  PROVE  CountsAreSound'
<1>1. /\ Pending /\ UNCHANGED state
      /\ service'.completed = service.completed
  BY DEF Spawn, MainAt, Pending, queue, TypeOK
<1>2. ~Pending'
  BY DEF Spawn, MainGo, MainEnds, Pending, TypeOK
<1>3. spent.retaken <= spent'.retaken /\ spent'.retaken \in Nat
  BY SpentSteps
<1>4. CASE UNCHANGED thread
  <2>1. Working' = Working
    BY <1>4 DEF Working
  <2>2. Countable \ {main.task} \subseteq Countable'
    BY <1>1, <1>4, <2>1 DEF Countable
  <2>3. Cardinality(Countable) <= Cardinality(Countable') + 1
    BY <2>2, LostOne
  <2>4. QED  BY <1>1, <1>2, <1>3, <2>1, <2>3, CountNumbers DEF CountsAreSound, One
<1>5. ASSUME NEW x \in Threads, Working' = Working \union {x},
             thread'[x].task = main.task,
             \A y \in Executions : thread'[y] = thread[y]
      PROVE  CountsAreSound'
  <2>1. Countable \subseteq Countable'
    BY <1>1, <1>5, ExecutionsAreThreads DEF Countable
  <2>2. Cardinality(Countable) <= Cardinality(Countable')
    BY <2>1, Grown
  <2>3. Working \in SUBSET Threads /\ Working' \in SUBSET Threads
    BY DEF Working
  <2>4. Cardinality(Working') <= Cardinality(Working) + 1
    BY <1>5, <2>3, OneMore
  <2>5. QED  BY <1>1, <1>2, <1>3, <2>2, <2>4, CountNumbers DEF CountsAreSound, One
<1>6. CASE ~UNCHANGED thread
  <2>1. PICK x \in Threads :
          /\ thread[x].at = "free"
          /\ thread' = [thread EXCEPT ![x] =
               [NoThread EXCEPT !.at = "start", !.task = main.task, !.token = main.token]]
    BY <1>6 DEF Spawn
  <2>2. thread'[x] = [at |-> "start", task |-> main.task, token |-> main.token]
    BY <2>1 DEF NoThread, TypeOK
  <2>3. \A y \in Threads \ {x} : thread'[y] = thread[y]
    BY <2>1 DEF TypeOK
  <2>4. Working' = Working \union {x} /\ \A y \in Executions : thread'[y] = thread[y]
    BY <2>1, <2>2, <2>3 DEF Working, Executions
  <2>5. QED  BY <1>5, <2>2, <2>4
<1>7. QED  BY <1>4, <1>6

\* Every step keeps the count.
LEMMA CountStep ==
  ASSUME TypeOK, TokensAreSound, CountsAreSound, [Next]_vars
  PROVE  CountsAreSound'
<1>1. spent.retaken <= spent'.retaken /\ spent'.retaken \in Nat
  BY SpentSteps
<1>2. \A t \in Tasks : state[t] = "succeeded" => state'[t] = "succeeded"
  BY QueueSteps
<1>3. Working \in SUBSET Threads /\ Working' \in SUBSET Threads
  BY DEF Working
<1>4. CASE Spawn
  BY <1>4, CountSpawn
<1>5. CASE \E t \in Tasks : Claim(t)
  BY <1>5, CountClaim
<1>6. CASE ~Spawn /\ ~\E t \in Tasks : Claim(t)
  <2>1. (Pending' <=> Pending) /\ (Pending => main'.task = main.task)
    BY <1>6, MainSteps DEF Pending
  <2>2. \A y \in Executions' : thread'[y].task = thread[y].task
    BY <1>6, ExecutionSteps
  <2>3. ASSUME NEW x \in Working, Working' = Working \ {x},
               service'.completed = service.completed
        PROVE  CountsAreSound'
    <3>1. Countable \ {thread[x].task} \subseteq Countable'
      BY <1>2, <2>1, <2>2, <2>3, ExecutionsAreThreads DEF Countable
    <3>2. Cardinality(Countable) <= Cardinality(Countable') + 1
      BY <3>1, LostOne
    <3>3. Cardinality(Working') + 1 <= Cardinality(Working)
      BY <1>3, <2>3, OneLess
    <3>4. QED  BY <1>1, <2>1, <2>3, <3>2, <3>3, CountNumbers DEF CountsAreSound, One
  <2>4. CASE Working' = Working /\ service'.completed = service.completed
    <3>1. Countable \subseteq Countable'
      BY <1>2, <2>1, <2>2, <2>4, ExecutionsAreThreads DEF Countable
    <3>2. Cardinality(Countable) <= Cardinality(Countable')
      BY <3>1, Grown
    <3>3. QED  BY <1>1, <2>1, <2>4, <3>2, CountNumbers DEF CountsAreSound, One
  <2>5. ASSUME NEW x \in Threads, Count(x), state[thread[x].task] = "succeeded",
               service'.completed = service.completed + 1
        PROVE  CountsAreSound'
    <3>1. x \in Working /\ Working' = Working \ {x}
      BY <2>5 DEF Count, ThreadGo, Working, TypeOK
    <3>2. thread[x].task \in Tasks
      BY <3>1, ExecutionsAreThreads DEF TokensAreSound
    <3>3. Countable \subseteq Countable'
      BY <1>2, <2>1, <2>2, <2>5, <3>1, <3>2, ExecutionsAreThreads DEF Countable
    <3>4. Cardinality(Countable) <= Cardinality(Countable')
      BY <3>3, Grown
    <3>5. Cardinality(Working') + 1 <= Cardinality(Working)
      BY <1>3, <3>1, OneLess
    <3>6. QED  BY <1>1, <2>1, <2>5, <3>4, <3>5, CountNumbers DEF CountsAreSound, One
  <2>6. QED  BY <1>6, <2>3, <2>4, <2>5, CompletedSteps, ExecutionSteps
<1>7. QED  BY <1>4, <1>5, <1>6

-----------------------------------------------------------------------------
(* A clean stop.                                                           *)

\* Once the main thread has stopped, no execution is added.
LEMMA StopStep ==
  ASSUME TypeOK, TokensAreSound, EntriesAreSound, CleanStop, [Next]_vars
  PROVE  CleanStop'
<1>1. Executions \in SUBSET Threads /\ Unregistered \in SUBSET Threads
  BY DEF Executions, Unregistered
<1>2. /\ spent.retaken \in Nat /\ spent'.retaken \in Nat
      /\ spent.retaken <= spent'.retaken
  BY SpentSteps
<1>3. CASE Stop
  <2>1. UNCHANGED <<thread, spent>>
    BY <1>3 DEF Stop
  <2>2. ASSUME main'.clean PROVE Registered = {}
    BY <1>3, <2>2 DEF Stop, Drained, TypeOK
  <2>3. ASSUME main'.clean PROVE Executions \subseteq Unregistered
    BY <2>2, <2>3 DEF Registered, Unregistered, TokensAreSound
  <2>4. ASSUME main'.clean PROVE Cardinality(Executions) <= Cardinality(Unregistered)
    BY <1>1, <2>3, <2>4, Subsets
  <2>5. Cardinality(Executions) \in Nat
    BY <1>1, Finite
  <2>6. Executions' = Executions
    BY <2>1 DEF Executions
  <2>7. QED  BY <2>1, <2>4, <2>5, <2>6, EntryNumbers DEF CleanStop, EntriesAreSound, One
<1>4. CASE main'.at = "stopped" /\ ~Stop
  <2>1. UNCHANGED main
    <3>1. main \in [at : MainPlaces, task : Tasks \union {NoTask}, token : Nat,
                    result : Results, clean : BOOLEAN]
      BY DEF TypeOK
    <3>2. CASE Loop
      <4>1. PICK p \in {"shutdown", "capacity"} :
              main' = [main EXCEPT !.result = "claimed", !.at = p]
        BY <3>2 DEF Loop
      <4>2. QED  BY <4>1, <3>1, <1>4
    <3>3. ~\/ Capacity \/ NothingToClaim \/ ClaimFails \/ Register \/ Spawn \/ Await
           \/ Finally \/ RequestShutdown
      BY <3>1, <1>4 DEF Capacity, NothingToClaim, ClaimFails, Register, Spawn, Await, Finally,
                        RequestShutdown, MainGo, MainEnds
    <3>4. \A t \in Tasks : Claim(t) => main'.at = "register"
      BY <3>1 DEF Claim
    <3>5. ASSUME NEW x \in Threads,
                 Start(x) \/ Run(x) \/ Break(x) \/ Count(x) \/ Leave(x) \/ Delete(x)
          PROVE  UNCHANGED main
      BY <3>5 DEF Start, Run, Break, Count, Leave, Delete
    <3>6. ASSUME NEW t \in Tasks, Enqueue(t) \/ Cancel(t) \/ OtherClaims(t) \/ OtherEnds(t)
          PROVE  UNCHANGED main
      BY <3>6 DEF Enqueue, Cancel, OtherClaims, OtherEnds
    <3>7. Signal \/ UNCHANGED vars => UNCHANGED main
      BY DEF Signal, vars
    <3>8. QED  BY <1>4, <3>2, <3>3, <3>4, <3>5, <3>6, <3>7, Steps
  <2>2. ~Spawn
    BY <1>4, <2>1 DEF Spawn, MainAt
  <2>3. Executions' \in SUBSET Executions
    BY <2>2, ExecutionSteps
  <2>4. Cardinality(Executions') <= Cardinality(Executions)
    BY <1>1, <2>3, Subsets
  <2>5. Cardinality(Executions) \in Nat /\ Cardinality(Executions') \in Nat
    BY <1>1, <2>3, Finite
  <2>6. QED  BY <1>2, <2>1, <2>4, <2>5 DEF CleanStop
<1>5. QED  BY <1>3, <1>4 DEF CleanStop

-----------------------------------------------------------------------------
(* The theorems.                                                           *)

\* The first state satisfies the invariant.
LEMMA InvInit == Init => IInv
<1>1. ASSUME Init PROVE IInv
  <2>1. main.at = "loop" /\ service.completed = 0 /\ spent.retaken = 0
    BY <1>1 DEF Init
  <2>2. Executions = {} /\ Unregistered = {} /\ Working = {} /\ Countable = {}
    BY <1>1, <2>1 DEF Init, LifecycleInit, NoThread, Executions, Unregistered, Working, Countable,
                     Pending
  <2>3. ~Pending /\ ~Owing
    BY <2>1 DEF Pending, Owing
  <2>4. TokensAreSound
    BY <2>2, <2>3 DEF TokensAreSound
  <2>5. EntriesAreSound /\ CountsAreSound
    BY <2>1, <2>2, <2>3, FS_EmptySet DEF EntriesAreSound, CountsAreSound, One
  <2>6. CleanStop
    BY <2>1 DEF CleanStop
  <2>7. QED  BY <1>1, <2>4, <2>5, <2>6, TypeInit DEF IInv
<1>2. QED  BY <1>1

\* Every step keeps the invariant.
LEMMA InvStep == IInv /\ [Next]_vars => IInv'
BY TypeStep, TokenStep, EntryStep, CountStep, StopStep DEF IInv

\* The inductive invariant: types, tokens of their own, and the two accounts
\* of what a task claimed twice costs (run_one_cycle, _execute_task_in_thread).
THEOREM Invariance == Spec => []IInv
<1>1. IInv /\ UNCHANGED vars => IInv'
  BY InvStep
<1>2. QED  BY InvInit, InvStep, <1>1, PTL DEF Spec

\* What a countable task is counted for: a success, or a thread at work.
LEMMA CountableBound ==
  ASSUME TypeOK
  PROVE  Cardinality(Countable)
           <= Cardinality({t \in Tasks : state[t] = "succeeded"}) + Cardinality(Working) + One(Pending)
<1> DEFINE Succeeded == {t \in Tasks : state[t] = "succeeded"}
           At == {thread[x].task : x \in Working}
           Coming == IF Pending THEN {main.task} ELSE {}
           f == [x \in Working |-> thread[x].task]
<1>1. IsFiniteSet(Working) /\ IsFiniteSet(Succeeded)
  BY Finite DEF Working
<1>2. IsFiniteSet(At) /\ Cardinality(At) <= Cardinality(Working)
  <2>1. f \in Surjection(Working, At)
    BY DEF Surjection
  <2>2. QED  BY <1>1, <2>1, FS_Surjection
<1>3. IsFiniteSet(Coming) /\ Cardinality(Coming) = One(Pending)
  BY FS_EmptySet, FS_Singleton DEF One
<1>4. Countable \subseteq (Succeeded \union At) \union Coming
  BY DEF Countable
<1> HIDE DEF Succeeded, At, Coming
<1>5. /\ IsFiniteSet(Succeeded \union At)
      /\ Cardinality(Succeeded \union At) <= Cardinality(Succeeded) + Cardinality(At)
  <2>1. Cardinality(Succeeded \intersect At) \in Nat
    BY <1>1, FS_Subset, FS_CardinalityType
  <2>2. Cardinality(Succeeded) \in Nat /\ Cardinality(At) \in Nat
    BY <1>1, <1>2, FS_CardinalityType
  <2>3. /\ IsFiniteSet(Succeeded \union At)
        /\ Cardinality(Succeeded \union At) =
             Cardinality(Succeeded) + Cardinality(At) - Cardinality(Succeeded \intersect At)
    BY <1>1, <1>2, FS_Union, Zenon
  <2>4. QED  BY <2>1, <2>2, <2>3
<1>6. /\ IsFiniteSet((Succeeded \union At) \union Coming)
      /\ Cardinality((Succeeded \union At) \union Coming)
           <= Cardinality(Succeeded \union At) + One(Pending)
  <2>1. Cardinality((Succeeded \union At) \intersect Coming) \in Nat
    BY <1>5, FS_Subset, FS_CardinalityType
  <2>2. Cardinality(Succeeded \union At) \in Nat /\ Cardinality(Coming) \in Nat
    BY <1>3, <1>5, FS_CardinalityType
  <2>3. /\ IsFiniteSet((Succeeded \union At) \union Coming)
        /\ Cardinality((Succeeded \union At) \union Coming) =
             Cardinality(Succeeded \union At) + Cardinality(Coming)
               - Cardinality((Succeeded \union At) \intersect Coming)
    BY <1>3, <1>5, FS_Union, Zenon
  <2>4. QED  BY <1>3, <2>1, <2>2, <2>3
<1>7. Cardinality(Countable) <= Cardinality((Succeeded \union At) \union Coming)
  BY <1>4, <1>6, FS_Subset
<1>8. /\ Cardinality(Succeeded) \in Nat /\ Cardinality(At) \in Nat
      /\ Cardinality(Succeeded \union At) \in Nat
      /\ Cardinality((Succeeded \union At) \union Coming) \in Nat
      /\ One(Pending) \in Nat
  BY <1>1, <1>2, <1>5, <1>6, FS_CardinalityType DEF One
<1>9. QED  BY <1>2, <1>5, <1>6, <1>7, <1>8, CountNumbers DEF Succeeded

\* Every execution has its entry in active_tasks and the service counts no
\* more completed tasks than there are, but for one each per task that is
\* claimed again while an older thread has it (_execute_task_in_thread).
THEOREM ViewHolds == Spec => []ViewIsRight
<1>1. ASSUME IInv PROVE ViewIsRight
  <2>1. TypeOK /\ EntriesAreSound /\ CountsAreSound
    BY <1>1 DEF IInv
  <2>2. ExecutionsRegistered
    BY <2>1, EntryNumbers DEF EntriesAreSound, ExecutionsRegistered, One
  <2>3. Cardinality({t \in Tasks : state[t] = "succeeded"}) \in Nat
    BY Finite
  <2>4. One(Pending) \in Nat
    BY DEF One
  <2>5. CountsHonest
    BY <2>1, <2>3, <2>4, CountNumbers, CountableBound DEF CountsAreSound, CountsHonest
  <2>6. QED  BY <2>1, <2>2, <2>5 DEF ViewIsRight
<1>2. QED  BY <1>1, Invariance, PTL

\* A stop reported as clean leaves no execution behind, but for one per task
\* claimed again while an older thread had it (shutdown_gracefully).
THEOREM CleanStopHolds == Spec => []CleanStop
<1>1. IInv => CleanStop
  BY DEF IInv
<1>2. QED  BY <1>1, Invariance, PTL
=============================================================================
