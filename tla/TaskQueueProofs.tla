--------------------------- MODULE TaskQueueProofs ---------------------------
(***************************************************************************)
(* The task queue is safe for any set of tasks, slots and cancel calls,    *)
(* any lease and retry setting, and any number of claims, renewals and     *)
(* faults.                                                                 *)
(***************************************************************************)
EXTENDS TaskQueue, TLAPS

\* A retry delay is a number of ticks (_retry_delay_seconds).
LEMMA RetryDelayIsInt ==
  ASSUME NEW n \in Nat
  PROVE  RetryDelay(n) \in Int
<1>1. 2 ^ (IF n > 0 THEN n - 1 ELSE 0) \in Int
  <2>1. (IF n > 0 THEN n - 1 ELSE 0) \in Nat
    OBVIOUS
  <2>2. \A m \in Nat : 2 ^ m \in Int
    BY Z3
  <2>3. QED
    BY <2>1, <2>2
<1>2. RetryBase \in Int /\ RetryCap \in Int
  BY TaskQueueAssumption
<1>3. RetryBase * 2 ^ (IF n > 0 THEN n - 1 ELSE 0) \in Int
  BY <1>1, <1>2
<1>4. QED
  BY <1>2, <1>3 DEF RetryDelay

\* Every verdict is one of three UPDATEs of the row and its attempt.
LEMMA SettleCases ==
  ASSUME NEW t, NEW k, NEW outcome, NEW late, SettleRow(t, k, outcome, late)
  PROVE  \/ outcome = "succeeded" /\ Finish(t, k, "succeeded", outcome, 0)
         \/ /\ outcome = "retryable_failure"
            /\ row[t].count < MaxAttempts
            /\ Finish(t, k, "retry_wait", outcome, RetryDelay(row[t].count) - late)
         \/ /\ outcome # "succeeded"
            /\ ~(outcome = "retryable_failure" /\ row[t].count < MaxAttempts)
            /\ Finish(t, k, "failed_terminal", outcome, 0)
BY DEF SettleRow
-----------------------------------------------------------------------------
(* Types.                                                                  *)

\* Closing attempts keeps a task's attempt rows attempt rows.
LEMMA CloseAttemptsType ==
  ASSUME TypeOK, NEW t \in Tasks, NEW ks, NEW outcome \in Outcomes
  PROVE  CloseAttempts(t, ks, outcome) \in [Tokens -> Attempts]
<1>1. ASSUME NEW k \in Tokens
      PROVE  /\ attempt[t][k] \in Attempts
             /\ [attempt[t][k] EXCEPT !.outcome = outcome] \in Attempts
  <2>1. attempt[t][k] \in Attempts
    BY DEF TypeOK
  <2>2. QED
    BY <2>1 DEF Attempts
<1>2. QED
  BY <1>1 DEF CloseAttempts

\* A row stays a row when columns of it are assigned.
LEMMA RowReleased ==
  ASSUME NEW r \in Rows, NEW s \in Statuses, NEW k \in Nat, NEW l \in Int,
         NEW m \in Int, NEW v \in Nat
  PROVE  [r EXCEPT !.status = s, !.token = k, !.left = l, !.wait = m, !.version = v] \in Rows
BY DEF Rows

\* An UPDATE of the status alone (start, a fresh task) leaves a row.
LEMMA RowMoved ==
  ASSUME NEW r \in Rows, NEW s \in Statuses, NEW v \in Nat
  PROVE  [r EXCEPT !.status = s, !.version = v] \in Rows
BY DEF Rows

\* renew assigns the lease and the version.
LEMMA RowRenewed ==
  ASSUME NEW r \in Rows, NEW l \in Int, NEW v \in Nat
  PROVE  [r EXCEPT !.left = l, !.version = v] \in Rows
BY DEF Rows

\* The clock assigns the two countdowns.
LEMMA RowTicked ==
  ASSUME NEW r \in Rows, NEW l \in Int, NEW m \in Int
  PROVE  [r EXCEPT !.left = l, !.wait = m] \in Rows
BY DEF Rows

\* The counters of a row are numbers.
LEMMA RowCounters ==
  ASSUME NEW r \in Rows
  PROVE  /\ r.version \in Nat /\ r.version + 1 \in Nat
         /\ r.count \in Nat
         /\ r.left \in Int
         /\ r.token \in Nat
         /\ r.status \in Statuses
BY DEF Rows

\* The types survive _finish_attempt.
LEMMA FinishType ==
  ASSUME TypeOK, NEW t \in Tasks, NEW k \in Nat, NEW status \in Statuses,
         NEW outcome \in Outcomes, NEW wait \in Int, Finish(t, k, status, outcome, wait)
  PROVE  row' \in [Tasks -> Rows] /\ attempt' \in [Tasks -> [Tokens -> Attempts]]
<1>1. CloseAttempts(t, {k}, outcome) \in [Tokens -> Attempts]
  BY CloseAttemptsType
<1>2. row[t] \in Rows
  BY DEF TypeOK
<1>3. [row[t] EXCEPT !.status = status, !.token = NoToken, !.left = 0,
                     !.wait = wait, !.version = @ + 1] \in Rows
  <2>1. row[t].version + 1 \in Nat /\ 0 \in Nat /\ 0 \in Int
    BY <1>2, RowCounters
  <2>2. QED
    BY <1>2, <2>1, RowReleased DEF NoToken
<1>4. QED
  BY <1>1, <1>3 DEF Finish, TypeOK

\* The types survive complete and fail.
LEMMA SettleType ==
  ASSUME TypeOK, NEW t \in Tasks, NEW k \in Nat, NEW late \in 0..Lag,
         NEW outcome \in {"succeeded"} \union Failures, SettleRow(t, k, outcome, late)
  PROVE  row' \in [Tasks -> Rows] /\ attempt' \in [Tasks -> [Tokens -> Attempts]]
<1>1. outcome \in Outcomes
  BY DEF Outcomes, Failures
<1>2. {"succeeded", "failed_terminal", "retry_wait"} \subseteq Statuses
  BY DEF Statuses, TerminalStatuses, WaitingStatuses
<1>3. row[t].count \in Nat
  BY DEF TypeOK, Rows
<1>4. RetryDelay(row[t].count) - late \in Int
  BY <1>3, RetryDelayIsInt, TaskQueueAssumption
<1>5. CASE Finish(t, k, "succeeded", outcome, 0)
  BY <1>1, <1>2, <1>5, FinishType
<1>6. CASE Finish(t, k, "retry_wait", outcome, RetryDelay(row[t].count) - late)
  BY <1>1, <1>2, <1>4, <1>6, FinishType
<1>7. CASE Finish(t, k, "failed_terminal", outcome, 0)
  BY <1>1, <1>2, <1>7, FinishType
<1>8. QED
  BY <1>5, <1>6, <1>7, SettleCases

\* An idle slot is a slot.
LEMMA IdleWorkerType == IdleWorker \in Slots
BY DEF IdleWorker, Slots, NoToken, Outcomes

\* A slot that is released is idle.
LEMMA ReleaseType ==
  ASSUME TypeOK, NEW w \in Workers, Release(w)
  PROVE  worker' \in [Workers -> Slots]
BY IdleWorkerType DEF Release, TypeOK

\* Moving a slot to another point of run_claimed keeps it a slot.
LEMMA SlotType ==
  ASSUME TypeOK, NEW w \in Workers, NEW p \in {"selected"} \union Executing,
         NEW b \in BOOLEAN, NEW o \in Outcomes
  PROVE  /\ [worker[w] EXCEPT !.pc = p] \in Slots
         /\ [worker[w] EXCEPT !.pc = p, !.outcome = o] \in Slots
         /\ [worker[w] EXCEPT !.lost = b] \in Slots
<1>1. worker[w] \in Slots
  BY DEF TypeOK
<1>2. QED
  BY <1>1 DEF Slots

\* The types survive a renewal.
LEMMA RenewType ==
  ASSUME TypeOK, NEW t \in Tasks, NEW late \in 0..Lag, RenewRow(t, late)
  PROVE  row' \in [Tasks -> Rows] /\ renewals' \in [Tasks -> Nat]
<1>1. row[t] \in Rows /\ renewals[t] \in Nat
  BY DEF TypeOK
<1>2. LeaseTicks - late \in Int
  BY TaskQueueAssumption
<1>3. [row[t] EXCEPT !.left = LeaseTicks - late, !.version = @ + 1] \in Rows
  <2>1. row[t].version + 1 \in Nat
    BY <1>1, RowCounters
  <2>2. QED
    BY <1>1, <1>2, <2>1, RowRenewed
<1>4. QED
  BY <1>1, <1>3 DEF RenewRow, TypeOK

\* The types hold initially and are kept by every step.
LEMMA InitType == Init => TypeOK
BY TaskQueueAssumption, IdleWorkerType
   DEF Init, TypeOK, Rows, Attempts, Calls, Statuses, Outcomes, NoToken

\* Every step keeps the types, whichever thread takes it.
LEMMA StepType ==
  ASSUME TypeOK, SelectionReliable, CancelReliable, ExecutionReliable, [Next]_vars
  PROVE  TypeOK'
<1> USE TaskQueueAssumption
<1>1. ASSUME NEW t \in Tasks, Enqueue(t)
      PROVE  TypeOK'
  <2>1. row[t] \in Rows /\ "queued" \in Statuses
    BY DEF TypeOK, Statuses, WaitingStatuses
  <2>2. [row[t] EXCEPT !.status = "queued", !.version = 1] \in Rows
    BY <2>1, RowMoved
  <2>3. row' \in [Tasks -> Rows]
    BY <1>1, <2>2 DEF Enqueue, TypeOK
  <2>4. queue' \in Seq(Tasks)
    BY <1>1 DEF Enqueue, TypeOK
  <2>5. QED
    BY <1>1, <2>3, <2>4 DEF Enqueue, TypeOK
<1>2. ASSUME NEW c \in Clients, NEW t \in Tasks, CancelRead(c, t)
      PROVE  TypeOK'
  <2>1. row[t] \in Rows /\ client[c] \in Calls
    BY DEF TypeOK
  <2>2. [pc |-> CASE row[t].status = "cancelled" -> "cancelled"
                  [] Terminal(t) /\ row[t].status # "cancelled" -> "refused"
                  [] OTHER -> "read",
         task |-> t, token |-> row[t].token,
         version |-> IF Terminal(t) THEN 0 ELSE row[t].version,
         tries |-> IF Terminal(t) THEN 0 ELSE client[c].tries + 1] \in Calls
    BY <2>1 DEF Calls, Rows
  <2>3. QED
    BY <1>2, <2>2 DEF CancelRead, TypeOK
<1>3. ASSUME NEW c \in Clients, CancelWrite(c)
      PROVE  TypeOK'
  <2> DEFINE t == client[c].task
  <2>1. t \in Tasks /\ client[c] \in Calls
    BY <1>3 DEF CancelWrite, CancelReliable, TypeOK
  <2>2. CloseAttempts(t, {client[c].token}, "cancelled") \in [Tokens -> Attempts]
    BY <2>1, CloseAttemptsType DEF Outcomes
  <2>3. [row[t] EXCEPT !.status = "cancelled", !.token = NoToken, !.left = 0,
                       !.wait = 0, !.version = client[c].version + 1] \in Rows
    <3>1. row[t] \in Rows /\ client[c].version + 1 \in Nat
      BY <2>1 DEF TypeOK, Calls
    <3>2. "cancelled" \in Statuses /\ 0 \in Nat /\ 0 \in Int
      BY DEF Statuses, TerminalStatuses
    <3>3. QED
      BY <3>1, <3>2, RowReleased DEF NoToken
  <2>4. [client[c] EXCEPT !.pc = "cancelled", !.token = NoToken, !.version = 0,
                          !.tries = 0] \in Calls
    BY <2>1 DEF Calls, NoToken
  <2>5. QED
    BY <1>3, <2>1, <2>2, <2>3, <2>4 DEF CancelWrite, TypeOK
<1>4. ASSUME NEW c \in Clients, CancelLost(c)
      PROVE  TypeOK'
  <2>1. [client[c] EXCEPT !.pc = IF client[c].tries < 3 THEN "retry" ELSE "conflict",
                          !.token = NoToken, !.version = 0] \in Calls
    BY DEF TypeOK, Calls, NoToken
  <2>2. QED
    BY <1>4, <2>1 DEF CancelLost, TypeOK
<1>5. ASSUME NEW w \in Workers, SelectTask(w)
      PROVE  TypeOK'
  <2>1. PICK i \in DOMAIN queue :
          worker' = [worker EXCEPT ![w] =
                       [IdleWorker EXCEPT !.pc = "selected", !.task = queue[i],
                                          !.count = row[queue[i]].count,
                                          !.version = row[queue[i]].version]]
    BY <1>5 DEF SelectTask
  <2>2. queue[i] \in Tasks
    BY DEF TypeOK
  <2>3. row[queue[i]] \in Rows
    BY <2>2 DEF TypeOK
  <2>4. [IdleWorker EXCEPT !.pc = "selected", !.task = queue[i],
                           !.count = row[queue[i]].count,
                           !.version = row[queue[i]].version] \in Slots
    BY <2>2, <2>3, IdleWorkerType DEF Slots, Rows
  <2>5. QED
    BY <1>5, <2>1, <2>4 DEF SelectTask, TypeOK
<1>6. ASSUME NEW w \in Workers, ClaimTask(w)
      PROVE  TypeOK'
  <2> DEFINE t == worker[w].task
             k == minted[t] + 1
             n == worker[w].count + 1
             closed == CloseAttempts(t, Tokens, "lease_expired")
  <2>1. t \in Tasks
    BY <1>6 DEF ClaimTask, SelectionReliable
  <2>2. worker[w] \in Slots /\ minted[t] \in Nat
    BY <2>1 DEF TypeOK
  <2>3. n \in Nat /\ worker[w].version + 1 \in Nat /\ k \in Nat
    BY <2>2 DEF Slots
  <2>4. k \in Tokens /\ k \in 0..MaxClaims
    BY <1>6, <2>3 DEF ClaimTask, Tokens
  <2>5. closed \in [Tokens -> Attempts]
    BY <2>1, CloseAttemptsType DEF Outcomes
  <2>6. [number |-> n, outcome |-> "open"] \in Attempts
    BY <2>3 DEF Attempts, Outcomes
  <2>7. [closed EXCEPT ![k] = [number |-> n, outcome |-> "open"]] \in [Tokens -> Attempts]
    BY <2>5, <2>6
  <2>8. attempt' \in [Tasks -> [Tokens -> Attempts]]
    BY <1>6, <2>7 DEF ClaimTask, TypeOK
  <2>9. ASSUME NEW late \in 0..Lag
        PROVE  [status |-> "leased", token |-> k, left |-> LeaseTicks - late,
                wait |-> 0, count |-> n, version |-> worker[w].version + 1] \in Rows
    BY <2>3 DEF Rows, Statuses, LeasedStatuses
  <2>10. row' \in [Tasks -> Rows]
    <3>1. PICK late \in 0..Lag :
            row' = [row EXCEPT ![t] =
              [status |-> "leased", token |-> k, left |-> LeaseTicks - late,
               wait |-> 0, count |-> n, version |-> worker[w].version + 1]]
      BY <1>6 DEF ClaimTask
    <3>2. QED
      BY <3>1, <2>9 DEF TypeOK
  <2>11. [IdleWorker EXCEPT !.pc = "claimed", !.task = t, !.token = k] \in Slots
    BY <2>1, <2>3, IdleWorkerType DEF Slots, Executing
  <2>12. worker' \in [Workers -> Slots]
    BY <1>6, <2>11 DEF ClaimTask, TypeOK
  <2>13. /\ minted' \in [Tasks -> 0..MaxClaims]
         /\ renewals' \in [Tasks -> Nat]
    <3>1. /\ minted' = [minted EXCEPT ![t] = k]
          /\ renewals' = [renewals EXCEPT ![t] = 0]
      BY <1>6 DEF ClaimTask
    <3>2. QED
      BY <3>1, <2>4 DEF TypeOK
  <2>14. QED
    BY <1>6, <2>8, <2>10, <2>12, <2>13 DEF ClaimTask, TypeOK
<1>7. ASSUME NEW w \in Workers, ClaimLost(w)
      PROVE  TypeOK'
  BY <1>7, ReleaseType DEF ClaimLost, TypeOK, Release
<1>8. ASSUME NEW w \in Workers, StartTask(w)
      PROVE  TypeOK'
  <2>1. worker[w].task \in Tasks
    BY <1>8 DEF StartTask, ExecutionReliable, Executing
  <2>2. [row[worker[w].task] EXCEPT !.status = "running", !.version = @ + 1] \in Rows
    <3>1. row[worker[w].task] \in Rows /\ "running" \in Statuses
      BY <2>1 DEF TypeOK, Statuses, LeasedStatuses
    <3>2. row[worker[w].task].version + 1 \in Nat
      BY <3>1, RowCounters
    <3>3. QED
      BY <3>1, <3>2, RowMoved
  <2>3. [worker[w] EXCEPT !.pc = "started"] \in Slots
    BY SlotType DEF Executing, Outcomes
  <2>4. /\ \/ row' = [row EXCEPT ![worker[w].task].status = "running",
                                 ![worker[w].task].version = @ + 1]
           \/ row' = row
        /\ \/ worker' = [worker EXCEPT ![w].pc = "started"]
           \/ Release(w)
    BY <1>8 DEF StartTask
  <2>5. row' \in [Tasks -> Rows]
    BY <2>2, <2>4 DEF TypeOK
  <2>6. worker' \in [Workers -> Slots]
    BY <2>3, <2>4, ReleaseType DEF TypeOK
  <2>7. QED
    BY <1>8, <2>5, <2>6 DEF StartTask, TypeOK
<1>9. ASSUME NEW w \in Workers, UnknownKind(w)
      PROVE  TypeOK'
  <2>1. worker[w].task \in Tasks /\ worker[w].token \in Nat
    BY <1>9 DEF UnknownKind, ExecutionReliable, Executing, TypeOK, Slots
  <2>2. PICK late \in 0..Lag :
          \/ SettleRow(worker[w].task, worker[w].token, "terminal_failure", late)
          \/ UNCHANGED <<row, attempt>>
    BY <1>9 DEF UnknownKind
  <2>3. row' \in [Tasks -> Rows] /\ attempt' \in [Tasks -> [Tokens -> Attempts]]
    BY <2>1, <2>2, SettleType DEF TypeOK, Failures
  <2>4. QED
    BY <1>9, <2>3, ReleaseType DEF UnknownKind, TypeOK
<1>10. ASSUME NEW w \in Workers, CheckBefore(w)
       PROVE  TypeOK'
  <2>1. [worker[w] EXCEPT !.pc = "handling"] \in Slots
    BY SlotType DEF Executing, Outcomes
  <2>2. QED
    BY <1>10, <2>1, ReleaseType DEF CheckBefore, TypeOK
<1>11. ASSUME NEW w \in Workers, HandlerEnds(w)
       PROVE  TypeOK'
  <2>1. PICK outcome \in {"succeeded"} \union Failures :
          worker' = [worker EXCEPT
            ![w].pc = IF outcome = "succeeded" THEN "returned" ELSE "settling",
            ![w].outcome = outcome]
    BY <1>11 DEF HandlerEnds
  <2>2. [worker[w] EXCEPT !.pc = IF outcome = "succeeded" THEN "returned" ELSE "settling",
                          !.outcome = outcome] \in Slots
    BY SlotType DEF Executing, Outcomes
  <2>3. QED
    BY <1>11, <2>1, <2>2 DEF HandlerEnds, TypeOK
<1>12. ASSUME NEW w \in Workers, HandlerFenced(w)
       PROVE  TypeOK'
  BY <1>12, ReleaseType DEF HandlerFenced, TypeOK
<1>13. ASSUME NEW w \in Workers, CheckAfter(w)
       PROVE  TypeOK'
  <2>1. [worker[w] EXCEPT !.pc = "settling"] \in Slots
    BY SlotType DEF Executing, Outcomes
  <2>2. QED
    BY <1>13, <2>1, ReleaseType DEF CheckAfter, TypeOK
<1>14. ASSUME NEW w \in Workers, Settle(w)
       PROVE  TypeOK'
  <2>1. /\ worker[w].task \in Tasks
        /\ worker[w].token \in Nat
        /\ worker[w].outcome \in {"succeeded"} \union Failures
    BY <1>14 DEF Settle, ExecutionReliable, Executing, TypeOK, Slots
  <2>2. PICK late \in 0..Lag :
          \/ SettleRow(worker[w].task, worker[w].token, worker[w].outcome, late)
          \/ UNCHANGED <<row, attempt>>
    BY <1>14 DEF Settle
  <2>3. row' \in [Tasks -> Rows] /\ attempt' \in [Tasks -> [Tokens -> Attempts]]
    BY <2>1, <2>2, SettleType DEF TypeOK
  <2>4. QED
    BY <1>14, <2>3, ReleaseType DEF Settle, TypeOK
<1>15. ASSUME NEW w \in Workers, Heartbeat(w)
       PROVE  TypeOK'
  <2>1. worker[w].task \in Tasks
    BY <1>15 DEF Heartbeat, Beating, Executing, ExecutionReliable
  <2>2. [worker[w] EXCEPT !.lost = TRUE] \in Slots
    BY SlotType DEF Executing, Outcomes
  <2>3. /\ \/ \E late \in 0..Lag : RenewRow(worker[w].task, late)
           \/ UNCHANGED <<row, renewals>>
        /\ \/ UNCHANGED worker
           \/ worker' = [worker EXCEPT ![w].lost = TRUE]
    BY <1>15 DEF Heartbeat
  <2>4. row' \in [Tasks -> Rows] /\ renewals' \in [Tasks -> Nat]
    BY <2>1, <2>3, RenewType DEF TypeOK
  <2>5. worker' \in [Workers -> Slots]
    BY <2>2, <2>3 DEF TypeOK
  <2>6. QED
    BY <1>15, <2>4, <2>5 DEF Heartbeat, TypeOK
<1>16. ASSUME NEW w \in Workers, HeartbeatFails(w)
       PROVE  TypeOK'
  <2>1. [worker[w] EXCEPT !.lost = TRUE] \in Slots
    BY SlotType DEF Executing, Outcomes
  <2>2. QED
    BY <1>16, <2>1 DEF HeartbeatFails, TypeOK
<1>17. ASSUME NEW w \in Workers, ServiceRenew(w)
       PROVE  TypeOK'
  <2>1. worker[w].task \in Tasks
    BY <1>17 DEF ServiceRenew, ExecutionReliable
  <2>2. QED
    BY <1>17, <2>1, RenewType DEF ServiceRenew, TypeOK
<1>18. ASSUME NEW w \in Workers, Crash(w)
       PROVE  TypeOK'
  <2>1. worker' \in [Workers -> Slots]
    BY <1>18, ReleaseType DEF Crash
  <2>2. QED
    BY <1>18, <2>1 DEF Crash, TypeOK
<1>19. CASE Tick
  <2>1. ASSUME NEW t \in Tasks
        PROVE  row'[t] \in Rows
    <3>1. row[t] \in Rows /\ row[t].status \in Statuses
      BY DEF TypeOK, Rows
    <3>2. PICK l \in Int :
            l = IF Held(t) THEN Countdown(row[t].left) ELSE row[t].left
      BY <3>1 DEF Countdown, Rows
    <3>3. PICK m \in Int :
            m = IF row[t].status = "retry_wait"
                THEN Countdown(row[t].wait) ELSE row[t].wait
      BY <3>1 DEF Countdown, Rows
    <3>4. row'[t] = [row[t] EXCEPT !.left = l, !.wait = m]
      BY <1>19, <3>2, <3>3 DEF Tick
    <3>5. [row[t] EXCEPT !.left = l, !.wait = m] \in Rows
      BY <3>1, RowTicked
    <3>6. QED
      BY <3>4, <3>5
  <2>2. row' \in [Tasks -> Rows]
    BY <1>19, <2>1 DEF Tick
  <2>3. QED
    BY <1>19, <2>2 DEF Tick, TypeOK
<1>20. CASE UNCHANGED vars
  BY <1>20 DEF vars, TypeOK
<1>21. QED
  BY <1>1, <1>2, <1>3, <1>4, <1>5, <1>6, <1>7, <1>8, <1>9, <1>10, <1>11, <1>12,
     <1>13, <1>14, <1>15, <1>16, <1>17, <1>18, <1>19, <1>20
     DEF Next, WorkerStep, Background, ClientStep
-----------------------------------------------------------------------------
(* What one step does to one task: nothing that matters, or one of the     *)
(* four UPDATEs that change its status.                                    *)

\* The attempt rows change only where an open attempt is closed.
Closed(t, ks, outcome) ==
  \A j \in Tokens :
    /\ attempt'[t][j].number = attempt[t][j].number
    /\ attempt'[t][j].outcome = IF j \in ks /\ attempt[t][j].outcome = "open"
                                THEN outcome ELSE attempt[t][j].outcome

Kept(t) ==
  /\ row'[t].token = row[t].token
  /\ row'[t].count = row[t].count
  /\ row'[t].version >= row[t].version
  /\ \/ row'[t].status = row[t].status
     \/ row[t].status = "leased" /\ row'[t].status = "running"
  /\ Terminal(t) => row'[t] = row[t]
  /\ minted'[t] = minted[t]
  /\ attempt'[t] = attempt[t]

Submitted(t) ==
  /\ row[t].status = "absent"
  /\ row'[t].status = "queued"
  /\ row'[t].token = row[t].token
  /\ row'[t].count = row[t].count
  /\ minted'[t] = minted[t]
  /\ attempt'[t] = attempt[t]

Claimed(t) ==
  /\ row[t].status \in WaitingStatuses \union LeasedStatuses
  /\ Held(t) => row[t].left <= 0
  /\ minted'[t] = minted[t] + 1
  /\ minted'[t] \in Tokens
  /\ row'[t].status = "leased"
  /\ row'[t].token = minted'[t]
  /\ row'[t].count = row[t].count + 1
  /\ row'[t].version = row[t].version + 1
  /\ \A j \in Tokens :
       IF j = minted'[t]
       THEN attempt'[t][j] = [number |-> row[t].count + 1, outcome |-> "open"]
       ELSE /\ attempt'[t][j].number = attempt[t][j].number
            /\ attempt'[t][j].outcome = IF attempt[t][j].outcome = "open"
                                        THEN "lease_expired" ELSE attempt[t][j].outcome

\* The row gives up its lease, if it had one, and takes another status.
GivenUp(t, status, outcome) ==
  /\ row'[t].status = status
  /\ row'[t].token = NoToken
  /\ row'[t].count = row[t].count
  /\ row'[t].version = row[t].version + 1
  /\ minted'[t] = minted[t]
  /\ Closed(t, {row[t].token}, outcome)

Settled(t) ==
  /\ Held(t)
  /\ \/ GivenUp(t, "succeeded", "succeeded")
     \/ row[t].count < MaxAttempts /\ GivenUp(t, "retry_wait", "retryable_failure")
     \/ row[t].count >= MaxAttempts /\ GivenUp(t, "failed_terminal", "retryable_failure")
     \/ GivenUp(t, "failed_terminal", "terminal_failure")

Withdrawn(t) ==
  /\ row[t].status \in WaitingStatuses \union LeasedStatuses
  /\ GivenUp(t, "cancelled", "cancelled")

TaskStep(t) == Kept(t) \/ Submitted(t) \/ Claimed(t) \/ Settled(t) \/ Withdrawn(t)

\* What closing attempts does to each attempt row.
LEMMA CloseAttemptsEffect ==
  ASSUME TypeOK, NEW t \in Tasks, NEW ks, NEW outcome, NEW j \in Tokens
  PROVE  /\ CloseAttempts(t, ks, outcome)[j].number = attempt[t][j].number
         /\ CloseAttempts(t, ks, outcome)[j].outcome =
              IF j \in ks /\ attempt[t][j].outcome = "open"
              THEN outcome ELSE attempt[t][j].outcome
<1>1. attempt[t][j] \in Attempts
  BY DEF TypeOK
<1>2. QED
  BY <1>1 DEF CloseAttempts, Attempts

\* A step that leaves the rows alone keeps every task.
LEMMA NoUpdate ==
  ASSUME TypeOK, NEW t \in Tasks, UNCHANGED <<row, minted, attempt>>
  PROVE  TaskStep(t)
<1>1. row[t] \in Rows
  BY DEF TypeOK
<1>2. row[t].version >= row[t].version
  BY <1>1, RowCounters
<1>3. QED
  BY <1>2 DEF TaskStep, Kept

\* _finish_attempt gives up the lease.
LEMMA FinishEffect ==
  ASSUME TypeOK, NEW t \in Tasks, NEW k, NEW status, NEW outcome, NEW wait,
         row[t].token = k, UNCHANGED minted, Finish(t, k, status, outcome, wait),
         NEW u \in Tasks
  PROVE  IF u = t THEN GivenUp(t, status, outcome)
                  ELSE row'[u] = row[u] /\ attempt'[u] = attempt[u]
<1>1. CASE u = t
  <2>1. row[t] \in Rows
    BY DEF TypeOK
  <2>2. row'[t] = [row[t] EXCEPT !.status = status, !.token = NoToken, !.left = 0,
                                 !.wait = wait, !.version = @ + 1]
    BY DEF Finish, TypeOK
  <2>3. /\ row'[t].status = status
        /\ row'[t].token = NoToken
        /\ row'[t].count = row[t].count
        /\ row'[t].version = row[t].version + 1
    BY <2>1, <2>2 DEF Rows
  <2>4. attempt'[t] = CloseAttempts(t, {k}, outcome)
    BY DEF Finish, TypeOK
  <2>5. Closed(t, {k}, outcome)
    BY <2>4, CloseAttemptsEffect DEF Closed
  <2>6. QED
    BY <1>1, <2>3, <2>5 DEF GivenUp
<1>2. CASE u # t
  BY <1>2 DEF Finish, TypeOK
<1>3. QED
  BY <1>1, <1>2

\* complete and fail settle a held task and keep the others.
LEMMA SettleEffect ==
  ASSUME TypeOK, NEW t \in Tasks, NEW k, NEW outcome \in {"succeeded"} \union Failures,
         NEW late, Held(t), row[t].token = k, UNCHANGED minted,
         SettleRow(t, k, outcome, late), NEW u \in Tasks
  PROVE  TaskStep(u)
<1>1. row[u].version >= row[u].version /\ row[t].count \in Nat
  BY RowCounters DEF TypeOK
<1>2. CASE u # t
  <2>1. \E status, wait : Finish(t, k, status, outcome, wait)
    BY SettleCases
  <2>2. row'[u] = row[u] /\ attempt'[u] = attempt[u]
    BY <1>2, <2>1, FinishEffect
  <2>3. QED
    BY <1>1, <2>2 DEF TaskStep, Kept
<1>3. CASE u = t
  <2>1. \/ GivenUp(t, "succeeded", "succeeded")
        \/ row[t].count < MaxAttempts /\ GivenUp(t, "retry_wait", "retryable_failure")
        \/ /\ ~(outcome = "retryable_failure" /\ row[t].count < MaxAttempts)
           /\ outcome \in Failures
           /\ GivenUp(t, "failed_terminal", outcome)
    <3>1. CASE outcome = "succeeded" /\ Finish(t, k, "succeeded", outcome, 0)
      BY <3>1, FinishEffect
    <3>2. CASE /\ outcome = "retryable_failure"
               /\ row[t].count < MaxAttempts
               /\ Finish(t, k, "retry_wait", outcome, RetryDelay(row[t].count) - late)
      BY <3>2, FinishEffect
    <3>3. CASE /\ outcome # "succeeded"
               /\ ~(outcome = "retryable_failure" /\ row[t].count < MaxAttempts)
               /\ Finish(t, k, "failed_terminal", outcome, 0)
      BY <3>3, FinishEffect
    <3>4. QED
      BY <3>1, <3>2, <3>3, SettleCases
  <2>2. row[t].count < MaxAttempts \/ row[t].count >= MaxAttempts
    BY <1>1, TaskQueueAssumption
  <2>3. Settled(t)
    BY <2>1, <2>2 DEF Settled, Failures
  <2>4. QED
    BY <1>3, <2>3 DEF TaskStep
<1>4. QED
  BY <1>2, <1>3

\* renew keeps every task.
LEMMA RenewEffect ==
  ASSUME TypeOK, NEW t \in Tasks, NEW late, Held(t), UNCHANGED <<minted, attempt>>,
         RenewRow(t, late), NEW u \in Tasks
  PROVE  TaskStep(u)
<1>1. row[u] \in Rows
  BY DEF TypeOK
<1>2. row'[u] = IF u = t THEN [row[t] EXCEPT !.left = LeaseTicks - late, !.version = @ + 1]
                         ELSE row[u]
  BY DEF RenewRow, TypeOK
<1>3. /\ row'[u].token = row[u].token
      /\ row'[u].count = row[u].count
      /\ row'[u].status = row[u].status
      /\ row'[u].version >= row[u].version
  BY <1>1, <1>2 DEF Rows
<1>4. Terminal(u) => row'[u] = row[u]
  BY <1>2 DEF Terminal, Held, TerminalStatuses, LeasedStatuses
<1>5. QED
  BY <1>3, <1>4 DEF TaskStep, Kept

\* Every step of the system is such a step for every task.
LEMMA TaskSteps ==
  ASSUME IInv, [Next]_vars, NEW u \in Tasks
  PROVE  TaskStep(u)
<1> USE TaskQueueAssumption
<1>0. /\ TypeOK /\ SelectionReliable /\ CancelReliable /\ ExecutionReliable
      /\ row[u] \in Rows
      /\ row[u].version \in Int
      /\ row[u].version >= row[u].version
  BY RowCounters DEF IInv, TypeOK
<1>1. ASSUME NEW t \in Tasks, Enqueue(t)
      PROVE  TaskStep(u)
  <2>1. row'[u] = IF u = t THEN [row[t] EXCEPT !.status = "queued", !.version = 1]
                           ELSE row[u]
    BY <1>0, <1>1 DEF Enqueue, TypeOK
  <2>2. CASE u = t
    <3>1. /\ row'[u].status = "queued"
          /\ row'[u].token = row[u].token
          /\ row'[u].count = row[u].count
      BY <1>0, <2>1, <2>2 DEF Rows
    <3>2. QED
      BY <1>1, <2>2, <3>1 DEF Enqueue, TaskStep, Submitted
  <2>3. CASE u # t
    BY <1>0, <1>1, <2>1, <2>3 DEF Enqueue, TaskStep, Kept
  <2>4. QED
    BY <2>2, <2>3
<1>2. ASSUME NEW c \in Clients, CancelWrite(c)
      PROVE  TaskStep(u)
  <2> DEFINE t == client[c].task
  <2>1. /\ t \in Tasks
        /\ row[t].status \in WaitingStatuses \union LeasedStatuses
        /\ client[c].version = row[t].version
        /\ client[c].token = row[t].token
    <3>1. row[t].status \in Statuses /\ row[t].status # "absent" /\ ~Terminal(t)
      BY <1>0, <1>2, RowCounters DEF CancelWrite, CancelReliable, TypeOK
    <3>2. QED
      BY <1>0, <1>2, <3>1
         DEF CancelWrite, CancelReliable, CancelMatches, Statuses, Terminal
  <2>2. CASE u = t
    <3>1. row'[t] = [row[t] EXCEPT !.status = "cancelled", !.token = NoToken, !.left = 0,
                                   !.wait = 0, !.version = client[c].version + 1]
      BY <1>0, <1>2, <2>1 DEF CancelWrite, TypeOK
    <3>2. /\ row'[t].status = "cancelled"
          /\ row'[t].token = NoToken
          /\ row'[t].count = row[t].count
          /\ row'[t].version = row[t].version + 1
      BY <1>0, <2>1, <2>2, <3>1 DEF Rows
    <3>3. attempt'[t] = CloseAttempts(t, {row[t].token}, "cancelled")
      BY <1>0, <1>2, <2>1 DEF CancelWrite, TypeOK
    <3>4. Closed(t, {row[t].token}, "cancelled")
      BY <1>0, <2>1, <3>3, CloseAttemptsEffect DEF Closed
    <3>5. minted' = minted
      BY <1>2 DEF CancelWrite
    <3>6. QED
      BY <2>1, <2>2, <3>2, <3>4, <3>5 DEF TaskStep, Withdrawn, GivenUp
  <2>3. CASE u # t
    BY <1>0, <1>2, <2>1, <2>3 DEF CancelWrite, TypeOK, TaskStep, Kept
  <2>4. QED
    BY <2>2, <2>3
<1>3. ASSUME NEW w \in Workers, ClaimTask(w)
      PROVE  TaskStep(u)
  <2> DEFINE t == worker[w].task
             k == minted[t] + 1
             n == worker[w].count + 1
  <2>1. PICK late \in 0..Lag :
          /\ ClaimMatches(w, late)
          /\ row' = [row EXCEPT ![t] =
               [status |-> "leased", token |-> k, left |-> LeaseTicks - late,
                wait |-> 0, count |-> n, version |-> worker[w].version + 1]]
    BY <1>3 DEF ClaimTask
  <2>2. /\ t \in Tasks
        /\ row[t] \in Rows
        /\ minted[t] \in Nat
        /\ worker[w].version = row[t].version
        /\ worker[w].count = row[t].count
    <3>1. worker[w].pc = "selected"
      BY <1>3 DEF ClaimTask
    <3>2. worker[w].version = row[t].version
      BY <2>1 DEF ClaimMatches
    <3>3. t \in Tasks /\ worker[w].count = row[t].count
      BY <1>0, <3>1, <3>2 DEF SelectionReliable
    <3>4. row[t] \in Rows /\ minted[t] \in Nat
      BY <1>0, <3>3 DEF TypeOK
    <3>5. QED
      BY <3>2, <3>3, <3>4
  <2>3. CASE u = t
    <3>1. Claimable(t, late)
      BY <2>1 DEF ClaimMatches
    <3>2. row[t].status \in WaitingStatuses \union LeasedStatuses
      BY <3>1 DEF Claimable, Held, WaitingStatuses
    <3>3. Held(t) => row[t].left <= 0
      <4>1. row[t].left \in Int
        BY <2>2, RowCounters
      <4>2. QED
        BY <3>1, <4>1 DEF Claimable, Held, LeasedStatuses
    <3>4. minted'[t] = k /\ k \in Tokens
      BY <1>0, <1>3, <2>2 DEF ClaimTask, TypeOK
    <3>5. /\ row'[t].status = "leased"
          /\ row'[t].token = k
          /\ row'[t].count = row[t].count + 1
          /\ row'[t].version = row[t].version + 1
      BY <1>0, <2>1, <2>2 DEF TypeOK
    <3>6. attempt'[t] = [CloseAttempts(t, Tokens, "lease_expired")
                           EXCEPT ![k] = [number |-> n, outcome |-> "open"]]
      BY <1>0, <1>3, <2>2 DEF ClaimTask, TypeOK
    <3>7. ASSUME NEW j \in Tokens
          PROVE  IF j = k
                 THEN attempt'[t][j] = [number |-> row[t].count + 1, outcome |-> "open"]
                 ELSE /\ attempt'[t][j].number = attempt[t][j].number
                      /\ attempt'[t][j].outcome = IF attempt[t][j].outcome = "open"
                                                  THEN "lease_expired"
                                                  ELSE attempt[t][j].outcome
      <4>1. CloseAttempts(t, Tokens, "lease_expired") \in [Tokens -> Attempts]
        BY <1>0, <2>2, CloseAttemptsType DEF Outcomes
      <4>2. CASE j = k
        BY <2>2, <3>6, <4>1, <4>2
      <4>3. CASE j # k
        <5>1. attempt'[t][j] = CloseAttempts(t, Tokens, "lease_expired")[j]
          BY <3>6, <4>1, <4>3
        <5>2. QED
          BY <1>0, <2>2, <4>3, <5>1, CloseAttemptsEffect
      <4>4. QED
        BY <4>2, <4>3
    <3>8. Claimed(t)
      BY <3>2, <3>3, <3>4, <3>5, <3>7 DEF Claimed
    <3>9. QED
      BY <2>3, <3>8 DEF TaskStep
  <2>4. CASE u # t
    BY <1>0, <1>3, <2>1, <2>2, <2>4 DEF ClaimTask, TypeOK, TaskStep, Kept
  <2>5. QED
    BY <2>3, <2>4
<1>4. ASSUME NEW w \in Workers, StartTask(w)
      PROVE  TaskStep(u)
  <2> DEFINE t == worker[w].task
  <2>1. CASE UNCHANGED row
    BY <1>0, <1>4, <2>1, NoUpdate DEF StartTask
  <2>2. CASE /\ row[t].status = "leased"
             /\ row' = [row EXCEPT ![t].status = "running", ![t].version = @ + 1]
    <3>1. row'[u] = IF u = t THEN [row[t] EXCEPT !.status = "running", !.version = @ + 1]
                             ELSE row[u]
      BY <1>0, <2>2 DEF TypeOK
    <3>2. CASE u = t
      <4>1. ~Terminal(u)
        BY <2>2, <3>2 DEF Terminal, TerminalStatuses
      <4>2. /\ row'[u].token = row[u].token
            /\ row'[u].count = row[u].count
            /\ row'[u].version >= row[u].version
            /\ row'[u].status = "running"
        BY <1>0, <3>1, <3>2 DEF Rows
      <4>3. QED
        BY <1>4, <2>2, <3>2, <4>1, <4>2 DEF StartTask, TaskStep, Kept
    <3>3. CASE u # t
      BY <1>0, <1>4, <3>1, <3>3 DEF StartTask, TaskStep, Kept
    <3>4. QED
      BY <3>2, <3>3
  <2>3. QED
    BY <1>4, <2>1, <2>2 DEF StartTask, HoldsLease
<1>5. ASSUME NEW w \in Workers, UnknownKind(w) \/ Settle(w)
      PROVE  TaskStep(u)
  <2> DEFINE t == worker[w].task
  <2>1. t \in Tasks
    BY <1>0, <1>5 DEF UnknownKind, Settle, ExecutionReliable, Executing
  <2>2. minted' = minted
    BY <1>5 DEF UnknownKind, Settle
  <2>3. CASE UNCHANGED <<row, attempt>>
    BY <1>0, <2>2, <2>3, NoUpdate
  <2>4. ASSUME NEW late \in 0..Lag, NEW outcome \in {"succeeded"} \union Failures,
               HoldsLease(t, worker[w].token, LeasedStatuses, late),
               SettleRow(t, worker[w].token, outcome, late)
        PROVE  TaskStep(u)
    <3>1. Held(t) /\ row[t].token = worker[w].token
      BY <2>4 DEF HoldsLease, Held
    <3>2. QED
      BY <1>0, <2>1, <2>2, <2>4, <3>1, SettleEffect
  <2>5. CASE UnknownKind(w)
    BY <2>3, <2>4, <2>5 DEF UnknownKind, Failures
  <2>6. CASE Settle(w)
    <3>1. worker[w].outcome \in {"succeeded"} \union Failures
      BY <1>0, <2>6 DEF Settle, ExecutionReliable
    <3>2. QED
      BY <2>3, <2>4, <2>6, <3>1 DEF Settle
  <2>7. QED
    BY <1>5, <2>5, <2>6
<1>6. ASSUME NEW w \in Workers, Heartbeat(w) \/ ServiceRenew(w)
      PROVE  TaskStep(u)
  <2> DEFINE t == worker[w].task
  <2>1. t \in Tasks
    BY <1>0, <1>6 DEF Heartbeat, ServiceRenew, Beating, ExecutionReliable, Executing
  <2>2. UNCHANGED <<minted, attempt>>
    BY <1>6 DEF Heartbeat, ServiceRenew
  <2>3. \/ UNCHANGED row
        \/ \E late \in 0..Lag :
             HoldsLease(t, worker[w].token, LeasedStatuses, late) /\ RenewRow(t, late)
    BY <1>6 DEF Heartbeat, ServiceRenew
  <2>4. CASE UNCHANGED row
    BY <1>0, <2>2, <2>4, NoUpdate
  <2>5. ASSUME NEW late \in 0..Lag, HoldsLease(t, worker[w].token, LeasedStatuses, late),
               RenewRow(t, late)
        PROVE  TaskStep(u)
    <3>1. Held(t)
      BY <2>5 DEF HoldsLease, Held
    <3>2. QED
      BY <1>0, <2>1, <2>2, <2>5, <3>1, RenewEffect
  <2>6. QED
    BY <2>3, <2>4, <2>5
<1>7. CASE Tick
  <2>1. PICK l, m :
          /\ row'[u] = [row[u] EXCEPT !.left = l, !.wait = m]
          /\ Terminal(u) => l = row[u].left /\ m = row[u].wait
    BY <1>7 DEF Tick, Terminal, Held, TerminalStatuses, LeasedStatuses
  <2>2. /\ row'[u].token = row[u].token
        /\ row'[u].count = row[u].count
        /\ row'[u].status = row[u].status
        /\ row'[u].version = row[u].version
        /\ Terminal(u) => row'[u] = row[u]
    BY <1>0, <2>1 DEF Rows
  <2>3. QED
    BY <1>0, <1>7, <2>2 DEF Tick, TaskStep, Kept
<1>8. CASE UNCHANGED <<row, minted, attempt>>
  BY <1>0, <1>8, NoUpdate
<1>9. ASSUME NEW w \in Workers, WorkerStep(w) \/ Background(w)
      PROVE  TaskStep(u)
  <2>1. \/ ClaimTask(w) \/ StartTask(w) \/ UnknownKind(w) \/ Settle(w)
        \/ Heartbeat(w) \/ ServiceRenew(w)
        \/ UNCHANGED <<row, minted, attempt>>
    BY <1>9 DEF WorkerStep, Background, SelectTask, ClaimLost, CheckBefore, HandlerEnds,
                HandlerFenced, CheckAfter, HeartbeatFails, Crash
  <2>2. QED
    BY <1>3, <1>4, <1>5, <1>6, <1>8, <2>1
<1>10. ASSUME NEW c \in Clients, ClientStep(c)
       PROVE  TaskStep(u)
  <2>1. CancelWrite(c) \/ UNCHANGED <<row, minted, attempt>>
    BY <1>10 DEF ClientStep, CancelRead, CancelLost
  <2>2. QED
    BY <1>2, <1>8, <2>1
<1>11. CASE UNCHANGED vars
  BY <1>8, <1>11 DEF vars
<1>12. QED
  BY <1>1, <1>7, <1>9, <1>10, <1>11 DEF Next
-----------------------------------------------------------------------------
(* The invariants that speak of one task at a time.                        *)

TokenOf(t) == IF Held(t) THEN row[t].token = minted[t] /\ minted[t] > 0
                         ELSE row[t].token = NoToken

MintedOf(t) == \A k \in Tokens : attempt[t][k].outcome = "none" <=> k > minted[t]

OpenOf(t) ==
  \A k \in Tokens : attempt[t][k].outcome = "open" <=> Held(t) /\ row[t].token = k

NumbersOf(t) ==
  /\ row[t].count = minted[t]
  /\ \A k \in Tokens : attempt[t][k].number = IF k <= minted[t] THEN k ELSE 0

ExplainedOf(t) ==
  /\ row[t].status \in {"absent", "queued"} => minted[t] = 0
  /\ row[t].status = "succeeded" <=> LastOutcome(t) = "succeeded"
  /\ row[t].status = "retry_wait" =>
       LastOutcome(t) = "retryable_failure" /\ row[t].count < MaxAttempts
  /\ row[t].status = "failed_terminal" =>
       \/ LastOutcome(t) = "terminal_failure"
       \/ LastOutcome(t) = "retryable_failure" /\ row[t].count >= MaxAttempts

VerdictOf(t) ==
  \A k \in Tokens :
    attempt[t][k].outcome \in {"succeeded", "terminal_failure", "cancelled"} =>
      k = minted[t] /\ Terminal(t)

TaskSafe(t) ==
  TokenOf(t) /\ MintedOf(t) /\ OpenOf(t) /\ NumbersOf(t) /\ ExplainedOf(t) /\ VerdictOf(t)

\* The invariants of the rows and attempts, taken together, are TaskSafe of each task.
LEMMA TaskSafeSplits ==
  /\ IInv => \A t \in Tasks : TaskSafe(t)
  /\ (\A t \in Tasks : TaskSafe(t)) =>
       /\ OpenAttemptIffHeld /\ AttemptsNumbered /\ StatusExplained
       /\ VerdictIsLast /\ TokenIsNewest /\ AttemptIffMinted
BY DEF IInv, TaskSafe, TokenOf, MintedOf, OpenOf, NumbersOf, ExplainedOf, VerdictOf,
       OpenAttemptIffHeld, AttemptsNumbered, StatusExplained, VerdictIsLast,
       TokenIsNewest, AttemptIffMinted

\* The types behind the invariants of a task.
LEMMA TaskTypes ==
  ASSUME TypeOK, NEW t \in Tasks
  PROVE  /\ minted[t] \in Nat
         /\ minted[t] \in Tokens \union {0}
         /\ row[t].count \in Nat
         /\ row[t].token \in Nat
         /\ \A k \in Tokens : k \in Nat \ {0}
<1>1. minted[t] \in 0..MaxClaims /\ row[t] \in Rows
  BY DEF TypeOK
<1>2. QED
  BY <1>1, RowCounters, TaskQueueAssumption DEF Tokens

\* Closing the attempt of the lease that was given up.
\* A task whose lease was given up, by a verdict or a cancellation, is safe when the
\* new status is one that the outcome explains.
LEMMA GivenUpSafe ==
  ASSUME TypeOK, NEW t \in Tasks, TaskSafe(t), NEW status, NEW outcome, 
         GivenUp(t, status, outcome),
         status \in {"succeeded", "retry_wait", "failed_terminal", "cancelled"},
         outcome \in {"succeeded", "retryable_failure", "terminal_failure", "cancelled"}
  PROVE  /\ TokenOf(t)' /\ MintedOf(t)' /\ OpenOf(t)' /\ NumbersOf(t)'
         /\ Held(t) => LastOutcome(t)' = outcome
         /\ ~Held(t) => \A k \in Tokens : attempt'[t][k].outcome = attempt[t][k].outcome
         /\ \A k \in Tokens : k # minted[t] \/ ~Held(t) =>
                                attempt'[t][k].outcome = attempt[t][k].outcome
<1> USE TaskTypes
<1>1. /\ row'[t].status = status /\ row'[t].token = NoToken
      /\ row'[t].count = row[t].count
      /\ minted'[t] = minted[t]
      /\ ~Held(t)'
  BY DEF GivenUp, Held, LeasedStatuses
<1>2. ASSUME NEW k \in Tokens
      PROVE  /\ attempt'[t][k].number = attempt[t][k].number
             /\ attempt'[t][k].outcome = IF Held(t) /\ k = minted[t]
                                         THEN outcome ELSE attempt[t][k].outcome
  BY DEF GivenUp, Closed, TaskSafe, TokenOf, OpenOf, NoToken
<1>3. TokenOf(t)'
  BY <1>1 DEF TokenOf
<1>4. MintedOf(t)'
  BY <1>1, <1>2 DEF MintedOf, TaskSafe
<1>5. OpenOf(t)'
  BY <1>1, <1>2 DEF OpenOf, TaskSafe, TokenOf
<1>6. NumbersOf(t)'
  BY <1>1, <1>2 DEF NumbersOf, TaskSafe
<1>7. Held(t) => LastOutcome(t)' = outcome
  BY <1>1, <1>2 DEF LastOutcome, TaskSafe, TokenOf
<1>8. QED
  BY <1>2, <1>3, <1>4, <1>5, <1>6, <1>7

\* A safe task stays safe: each of the five things that can happen to it keeps the
\* row, the token and the attempt history in agreement.
LEMMA TaskSafeStep ==
  ASSUME TypeOK, TypeOK', NEW t \in Tasks, TaskSafe(t), TaskStep(t)
  PROVE  TaskSafe(t)'
<1> USE TaskTypes
<1>1. CASE Kept(t)
  <2>0. \/ row'[t].status = row[t].status
        \/ row[t].status = "leased" /\ row'[t].status = "running"
    BY <1>1 DEF Kept
  <2>1. (Held(t)' <=> Held(t)) /\ (Terminal(t)' <=> Terminal(t))
    <3>1. Held(t)' <=> Held(t)
      BY <2>0, Zenon DEF Held, LeasedStatuses
    <3>2. Terminal(t)' <=> Terminal(t)
      BY <2>0 DEF Terminal, TerminalStatuses
    <3>3. QED
      BY <3>1, <3>2
  <2>2. /\ row'[t].token = row[t].token
        /\ row'[t].count = row[t].count
        /\ minted'[t] = minted[t]
        /\ attempt'[t] = attempt[t]
    BY <1>1 DEF Kept
  <2>3. TokenOf(t)' /\ MintedOf(t)' /\ OpenOf(t)' /\ NumbersOf(t)' /\ VerdictOf(t)'
    BY <2>1, <2>2 DEF TaskSafe, TokenOf, MintedOf, OpenOf, NumbersOf, VerdictOf
  <2>4. ExplainedOf(t)'
    BY <2>0, <2>2 DEF TaskSafe, ExplainedOf, LastOutcome
  <2>5. QED
    BY <2>3, <2>4 DEF TaskSafe
<1>2. CASE Submitted(t)
  <2>1. ~Held(t) /\ ~Held(t)' /\ ~Terminal(t) /\ ~Terminal(t)'
    BY <1>2 DEF Submitted, Held, Terminal, LeasedStatuses, TerminalStatuses
  <2>2. TokenOf(t)' /\ MintedOf(t)' /\ OpenOf(t)' /\ NumbersOf(t)' /\ VerdictOf(t)'
    BY <1>2, <2>1 DEF Submitted, TaskSafe, TokenOf, MintedOf, OpenOf, NumbersOf, VerdictOf
  <2>3. ExplainedOf(t)'
    BY <1>2 DEF Submitted, TaskSafe, ExplainedOf, LastOutcome
  <2>4. QED
    BY <2>2, <2>3 DEF TaskSafe
<1>3. CASE Claimed(t)
  <2>1. /\ ~Terminal(t)
        /\ Held(t)'
        /\ ~Terminal(t)'
    BY <1>3 DEF Claimed, Held, Terminal, WaitingStatuses, LeasedStatuses, TerminalStatuses
  <2>2. minted'[t] = minted[t] + 1 /\ minted'[t] \in Tokens /\ row'[t].token = minted'[t]
    BY <1>3 DEF Claimed
  <2>3. ASSUME NEW k \in Tokens
        PROVE  /\ attempt'[t][k].number = IF k = minted'[t] THEN row[t].count + 1
                                          ELSE attempt[t][k].number
               /\ attempt'[t][k].outcome =
                    CASE k = minted'[t] -> "open"
                      [] k # minted'[t] /\ attempt[t][k].outcome = "open" -> "lease_expired"
                      [] OTHER -> attempt[t][k].outcome
    BY <1>3 DEF Claimed
  <2>4. TokenOf(t)' 
    BY <2>1, <2>2 DEF TokenOf
  <2>5. MintedOf(t)'
    BY <2>2, <2>3 DEF MintedOf, TaskSafe
  <2>6. OpenOf(t)'
    BY <2>1, <2>2, <2>3 DEF OpenOf
  <2>7. NumbersOf(t)'
    BY <1>3, <2>2, <2>3 DEF NumbersOf, TaskSafe, Claimed
  <2>8. VerdictOf(t)'
    BY <2>1, <2>3 DEF VerdictOf, TaskSafe
  <2>9. LastOutcome(t)' = "open"
    BY <2>2, <2>3 DEF LastOutcome
  <2>10. ExplainedOf(t)'
    BY <1>3, <2>9 DEF ExplainedOf, Claimed
  <2>11. QED
    BY <2>4, <2>5, <2>6, <2>7, <2>8, <2>10 DEF TaskSafe
<1>4. CASE Settled(t)
  <2>1. PICK status, outcome :
          /\ GivenUp(t, status, outcome)
          /\ \/ status = "succeeded" /\ outcome = "succeeded"
             \/ /\ status = "retry_wait" /\ outcome = "retryable_failure"
                /\ row[t].count < MaxAttempts
             \/ /\ status = "failed_terminal" /\ outcome = "retryable_failure"
                /\ row[t].count >= MaxAttempts
             \/ status = "failed_terminal" /\ outcome = "terminal_failure"
    BY <1>4 DEF Settled
  <2>2. Held(t) /\ ~Terminal(t)
    BY <1>4 DEF Settled, Held, Terminal, LeasedStatuses, TerminalStatuses
  <2>3. /\ TokenOf(t)' /\ MintedOf(t)' /\ OpenOf(t)' /\ NumbersOf(t)'
        /\ LastOutcome(t)' = outcome
        /\ \A k \in Tokens : k # minted[t] => attempt'[t][k].outcome = attempt[t][k].outcome
    BY <2>1, <2>2, GivenUpSafe
  <2>4. /\ row'[t].status = status
        /\ row'[t].count = row[t].count
        /\ minted'[t] = minted[t]
        /\ minted[t] > 0
    BY <2>1, <2>2 DEF GivenUp, TaskSafe, TokenOf
  <2>5. ExplainedOf(t)'
    BY <2>1, <2>3, <2>4 DEF ExplainedOf
  <2>6. VerdictOf(t)'
    <3>1. attempt'[t][minted[t]].outcome = outcome /\ minted[t] \in Tokens
      BY <2>3, <2>4 DEF LastOutcome
    <3>2. Terminal(t)' <=> status # "retry_wait"
      BY <2>1, <2>4 DEF Terminal, TerminalStatuses
    <3>3. QED
      BY <2>1, <2>2, <2>3, <2>4, <3>1, <3>2 DEF VerdictOf, TaskSafe
  <2>7. QED
    BY <2>3, <2>5, <2>6 DEF TaskSafe
<1>5. CASE Withdrawn(t)
  <2>1. /\ GivenUp(t, "cancelled", "cancelled")
        /\ ~Terminal(t)
    BY <1>5 DEF Withdrawn, Terminal, WaitingStatuses, LeasedStatuses, TerminalStatuses
  <2>2. /\ TokenOf(t)' /\ MintedOf(t)' /\ OpenOf(t)' /\ NumbersOf(t)'
        /\ Held(t) => LastOutcome(t)' = "cancelled"
        /\ ~Held(t) => \A k \in Tokens : attempt'[t][k].outcome = attempt[t][k].outcome
        /\ \A k \in Tokens : k # minted[t] => attempt'[t][k].outcome = attempt[t][k].outcome
    BY <2>1, GivenUpSafe
  <2>3. /\ row'[t].status = "cancelled"
        /\ minted'[t] = minted[t]
        /\ Terminal(t)'
    BY <2>1 DEF GivenUp, Terminal, TerminalStatuses
  <2>4. LastOutcome(t)' # "succeeded"
    <3>1. row[t].status # "succeeded"
      BY <2>1 DEF Terminal, TerminalStatuses
    <3>2. CASE Held(t)
      BY <2>2, <3>2
    <3>3. CASE ~Held(t)
      BY <2>2, <2>3, <3>1, <3>3 DEF LastOutcome, TaskSafe, ExplainedOf
    <3>4. QED
      BY <3>2, <3>3
  <2>5. ExplainedOf(t)'
    BY <2>3, <2>4 DEF ExplainedOf
  <2>6. VerdictOf(t)'
    BY <2>1, <2>2, <2>3 DEF VerdictOf, TaskSafe
  <2>7. QED
    BY <2>2, <2>5, <2>6 DEF TaskSafe
<1>6. QED
  BY <1>1, <1>2, <1>3, <1>4, <1>5 DEF TaskStep
-----------------------------------------------------------------------------
(* What one step does to a slot and to a cancel call.                      *)

\* The row of a task that was read keeps its version only with its contents.
LEMMA VersionPins ==
  ASSUME TypeOK, NEW t \in Tasks, TaskStep(t), row[t].status # "absent"
  PROVE  /\ row'[t].status # "absent"
         /\ row'[t].version >= row[t].version
         /\ row'[t].version = row[t].version =>
              row'[t].count = row[t].count /\ row'[t].token = row[t].token
         /\ row[t].status = "cancelled" => row'[t].status = "cancelled"
         /\ minted'[t] >= minted[t]
<1> USE RowCounters
<1>1. row[t] \in Rows /\ row[t].version \in Nat /\ minted[t] \in Nat
  BY TaskTypes DEF TypeOK
<1>2. CASE Kept(t)
  BY <1>1, <1>2 DEF Kept
<1>3. CASE Claimed(t)
  BY <1>1, <1>3 DEF Claimed, WaitingStatuses, LeasedStatuses
<1>4. CASE Settled(t)
  BY <1>1, <1>4 DEF Settled, GivenUp, Held, LeasedStatuses
<1>5. CASE Withdrawn(t)
  BY <1>1, <1>5 DEF Withdrawn, GivenUp
<1>6. QED
  BY <1>2, <1>3, <1>4, <1>5 DEF TaskStep, Submitted

SlotKept(w) ==
  /\ worker'[w].pc \in Executing =>
       /\ worker[w].pc \in Executing
       /\ worker'[w].task = worker[w].task
       /\ worker'[w].token = worker[w].token
  /\ worker'[w].pc \in {"returned", "settling"} =>
       worker'[w].outcome \in {"succeeded"} \union Failures
  /\ worker'[w].pc = "selected" =>
       \/ worker'[w] = worker[w]
       \/ /\ worker'[w].task \in Tasks
          /\ row[worker'[w].task].status # "absent"
          /\ row'[worker'[w].task] = row[worker'[w].task]
          /\ worker'[w].version = row[worker'[w].task].version
          /\ worker'[w].count = row[worker'[w].task].count

SlotClaims(w) ==
  /\ worker'[w].pc = "claimed"
  /\ worker'[w].task \in Tasks
  /\ worker'[w].token = minted[worker'[w].task] + 1
  /\ minted'[worker'[w].task] = worker'[w].token
  /\ \A v \in Workers \ {w} : worker'[v] = worker[v]

SlotStep(w) == SlotKept(w) \/ SlotClaims(w)

\* A claim gives the slot a token nobody executes under; every other step leaves a
\* slot its lease or takes it away.
LEMMA SlotSteps ==
  ASSUME IInv, [Next]_vars, NEW u \in Workers
  PROVE  SlotStep(u)
<1> USE DEF Executing, SlotStep, SlotKept
<1>0. /\ TypeOK /\ SelectionReliable /\ ExecutionReliable
      /\ worker[u] \in Slots
  BY DEF IInv, TypeOK
<1>1. CASE worker'[u] = worker[u]
  BY <1>0, <1>1 DEF ExecutionReliable
<1>2. CASE worker'[u] = IdleWorker
  BY <1>0, <1>2 DEF IdleWorker
<1>3. CASE UNCHANGED worker
  BY <1>1, <1>3
<1>4. ASSUME NEW w \in Workers, Release(w)
      PROVE  SlotStep(u)
  BY <1>0, <1>1, <1>2, <1>4 DEF Release, TypeOK
<1>5. ASSUME NEW w \in Workers, SelectTask(w)
      PROVE  SlotStep(u)
  <2>1. PICK i \in DOMAIN queue :
          /\ \E late \in 0..Lag : Claimable(queue[i], late)
          /\ worker' = [worker EXCEPT ![w] =
               [IdleWorker EXCEPT !.pc = "selected", !.task = queue[i],
                                  !.count = row[queue[i]].count,
                                  !.version = row[queue[i]].version]]
    BY <1>5 DEF SelectTask
  <2>2. queue[i] \in Tasks /\ row[queue[i]].status # "absent"
    BY <1>0, <2>1 DEF TypeOK, Claimable, Held, LeasedStatuses
  <2>3. row' = row
    BY <1>5 DEF SelectTask
  <2>4. CASE u = w
    <3>1. /\ worker'[u].pc = "selected"
          /\ worker'[u].task = queue[i]
          /\ worker'[u].count = row[queue[i]].count
          /\ worker'[u].version = row[queue[i]].version
      BY <1>0, <2>1, <2>4 DEF TypeOK, IdleWorker
    <3>2. QED
      BY <2>2, <2>3, <3>1
  <2>5. QED
    BY <1>0, <1>1, <2>1, <2>4 DEF TypeOK
<1>6. ASSUME NEW w \in Workers, ClaimTask(w)
      PROVE  SlotStep(u)
  <2> DEFINE t == worker[w].task
  <2>1. t \in Tasks
    BY <1>0, <1>6 DEF ClaimTask, SelectionReliable
  <2>2. CASE u = w
    <3>1. /\ worker'[u].pc = "claimed"
          /\ worker'[u].task = t
          /\ worker'[u].token = minted[t] + 1
      BY <1>0, <1>6, <2>2 DEF ClaimTask, TypeOK, IdleWorker
    <3>2. minted'[t] = minted[t] + 1
      BY <1>0, <1>6, <2>1 DEF ClaimTask, TypeOK
    <3>3. \A v \in Workers \ {u} : worker'[v] = worker[v]
      BY <1>0, <1>6, <2>2 DEF ClaimTask, TypeOK
    <3>4. QED
      BY <2>1, <3>1, <3>2, <3>3 DEF SlotClaims
  <2>3. CASE u # w
    BY <1>0, <1>1, <1>6, <2>3 DEF ClaimTask, TypeOK
  <2>4. QED
    BY <2>2, <2>3
<1>7. ASSUME NEW w \in Workers, NEW p \in {"started", "handling"},
             worker[w].pc \in {"claimed", "started"},
             worker' = [worker EXCEPT ![w].pc = p]
      PROVE  SlotStep(u)
  <2>1. CASE u = w
    <3>1. /\ worker'[u].pc = p
          /\ worker'[u].task = worker[u].task
          /\ worker'[u].token = worker[u].token
      BY <1>0, <1>7, <2>1 DEF TypeOK, Slots
    <3>2. QED
      BY <1>7, <2>1, <3>1
  <2>2. QED
    BY <1>0, <1>1, <1>7, <2>1 DEF TypeOK
<1>8. ASSUME NEW w \in Workers, HandlerEnds(w)
      PROVE  SlotStep(u)
  <2>1. PICK outcome \in {"succeeded"} \union Failures :
          worker' = [worker EXCEPT
            ![w].pc = IF outcome = "succeeded" THEN "returned" ELSE "settling",
            ![w].outcome = outcome]
    BY <1>8 DEF HandlerEnds
  <2>2. CASE u = w
    <3>1. /\ worker'[u].pc \in {"returned", "settling"}
          /\ worker'[u].task = worker[u].task
          /\ worker'[u].token = worker[u].token
          /\ worker'[u].outcome = outcome
      BY <1>0, <2>1, <2>2 DEF TypeOK, Slots
    <3>2. QED
      BY <1>8, <2>2, <3>1 DEF HandlerEnds
  <2>3. QED
    BY <1>0, <1>1, <2>1, <2>2 DEF TypeOK
<1>9. ASSUME NEW w \in Workers, CheckAfter(w)
      PROVE  SlotStep(u)
  <2>1. CASE Release(w)
    BY <1>4, <2>1
  <2>2. CASE worker' = [worker EXCEPT ![w].pc = "settling"]
    <3>1. CASE u = w
      <4>1. /\ worker'[u].pc = "settling"
            /\ worker'[u].task = worker[u].task
            /\ worker'[u].token = worker[u].token
            /\ worker'[u].outcome = worker[u].outcome
        BY <1>0, <2>2, <3>1 DEF TypeOK, Slots
      <4>2. worker[u].outcome \in {"succeeded"} \union Failures
        BY <1>0, <1>9, <3>1 DEF CheckAfter, ExecutionReliable
      <4>3. QED
        BY <1>9, <3>1, <4>1, <4>2 DEF CheckAfter
    <3>2. QED
      BY <1>0, <1>1, <2>2, <3>1 DEF TypeOK
  <2>3. QED
    BY <1>9, <2>1, <2>2 DEF CheckAfter
<1>10. ASSUME NEW w \in Workers, worker[w].pc \in Beating,
              worker' = [worker EXCEPT ![w].lost = TRUE]
       PROVE  SlotStep(u)
  <2>1. CASE u = w
    <3>1. /\ worker'[u].pc = worker[u].pc
          /\ worker'[u].task = worker[u].task
          /\ worker'[u].token = worker[u].token
          /\ worker'[u].outcome = worker[u].outcome
      BY <1>0, <1>10, <2>1 DEF TypeOK, Slots
    <3>2. QED
      BY <1>0, <1>10, <2>1, <3>1 DEF ExecutionReliable, Beating
  <2>2. QED
    BY <1>0, <1>1, <1>10, <2>1 DEF TypeOK
<1>11. ASSUME NEW w \in Workers, WorkerStep(w)
       PROVE  SlotStep(u)
  <2>1. CASE StartTask(w)
    BY <1>4, <1>7, <2>1 DEF StartTask
  <2>2. CASE CheckBefore(w)
    BY <1>4, <1>7, <2>2 DEF CheckBefore
  <2>3. CASE ClaimLost(w) \/ UnknownKind(w) \/ HandlerFenced(w) \/ Settle(w)
    BY <1>4, <2>3 DEF ClaimLost, UnknownKind, HandlerFenced, Settle, Release
  <2>4. QED
    BY <1>5, <1>6, <1>8, <1>9, <1>11, <2>1, <2>2, <2>3 DEF WorkerStep
<1>12. ASSUME NEW w \in Workers, Background(w)
       PROVE  SlotStep(u)
  BY <1>3, <1>4, <1>10, <1>12 DEF Background, Heartbeat, HeartbeatFails, ServiceRenew, Crash
<1>13. QED
  BY <1>3, <1>11, <1>12
     DEF Next, Enqueue, ClientStep, CancelRead, CancelWrite, CancelLost, Tick, vars

CallStep(c) ==
  \/ client'[c] = client[c]
  \/ /\ client'[c].task \in Tasks
     /\ client'[c].pc = "cancelled" => row'[client'[c].task].status = "cancelled"
     /\ client'[c].pc = "read" =>
          /\ row[client'[c].task].status # "absent"
          /\ row'[client'[c].task] = row[client'[c].task]
          /\ client'[c].version = row[client'[c].task].version
          /\ client'[c].token = row[client'[c].task].token

\* A cancel call answers "cancelled" for a row that is so.
LEMMA CallSteps ==
  ASSUME IInv, [Next]_vars, NEW d \in Clients
  PROVE  CallStep(d)
<1> USE DEF CallStep
<1>0. /\ TypeOK /\ CancelReliable
      /\ client[d] \in Calls
  BY DEF IInv, TypeOK
<1>1. ASSUME NEW c \in Clients, NEW t \in Tasks, CancelRead(c, t)
      PROVE  CallStep(d)
  <2>1. row' = row
    BY <1>1 DEF CancelRead
  <2>2. CASE d = c
    <3>1. /\ client'[d].task = t
          /\ client'[d].token = row[t].token
          /\ client'[d].pc = "cancelled" => row[t].status = "cancelled"
          /\ client'[d].pc = "read" =>
               row[t].status # "absent" /\ client'[d].version = row[t].version
      BY <1>0, <1>1, <2>2 DEF CancelRead, TypeOK, Terminal, TerminalStatuses
    <3>2. QED
      BY <2>1, <3>1
  <2>3. QED
    BY <1>0, <1>1, <2>2 DEF CancelRead, TypeOK
<1>2. ASSUME NEW c \in Clients, CancelWrite(c)
      PROVE  CallStep(d)
  <2>1. client[c].task \in Tasks
    BY <1>0, <1>2 DEF CancelWrite, CancelReliable
  <2>2. CASE d = c
    <3>1. client'[d].task = client[d].task /\ client'[d].pc = "cancelled"
      BY <1>0, <1>2, <2>2 DEF CancelWrite, TypeOK, Calls
    <3>2. row'[client[d].task].status = "cancelled"
      <4>1. row[client[d].task] \in Rows
        BY <1>0, <2>1, <2>2 DEF TypeOK
      <4>2. QED
        BY <1>0, <1>2, <2>1, <2>2, <4>1 DEF CancelWrite, TypeOK, Rows
    <3>3. QED
      BY <2>1, <2>2, <3>1, <3>2
  <2>3. QED
    BY <1>0, <1>2, <2>2 DEF CancelWrite, TypeOK
<1>3. ASSUME NEW c \in Clients, CancelLost(c)
      PROVE  CallStep(d)
  <2>1. client[c].task \in Tasks
    BY <1>0, <1>3 DEF CancelLost, CancelReliable
  <2>2. CASE d = c
    <3>1. client'[d].task = client[d].task /\ client'[d].pc \in {"retry", "conflict"}
      BY <1>0, <1>3, <2>2 DEF CancelLost, TypeOK, Calls
    <3>2. QED
      BY <2>1, <2>2, <3>1
  <2>3. QED
    BY <1>0, <1>3, <2>2 DEF CancelLost, TypeOK
<1>4. CASE UNCHANGED client
  BY <1>4
<1>5. ASSUME NEW w \in Workers, WorkerStep(w) \/ Background(w)
      PROVE  UNCHANGED client
  BY <1>5 DEF WorkerStep, Background, SelectTask, ClaimTask, ClaimLost, StartTask,
              UnknownKind, CheckBefore, HandlerEnds, HandlerFenced, CheckAfter, Settle,
              Heartbeat, HeartbeatFails, ServiceRenew, Crash
<1>6. QED
  BY <1>1, <1>2, <1>3, <1>4, <1>5 DEF Next, ClientStep, Enqueue, Tick, vars
-----------------------------------------------------------------------------
(* The invariant is inductive.                                             *)

\* The empty database satisfies the inductive invariant.
LEMMA InitInvariant == Init => IInv
<1> SUFFICES ASSUME Init PROVE IInv
  OBVIOUS
<1>1. TypeOK
  BY InitType
<1>2. ASSUME NEW t \in Tasks
      PROVE  TaskSafe(t)
  <2>1. /\ row[t].status = "absent" /\ row[t].token = 0 /\ row[t].count = 0
        /\ minted[t] = 0
        /\ \A k \in Tokens : attempt[t][k].number = 0 /\ attempt[t][k].outcome = "none"
    BY DEF Init, NoToken
  <2>2. ~Held(t) /\ ~Terminal(t)
    BY <2>1 DEF Held, Terminal, LeasedStatuses, TerminalStatuses
  <2>3. \A k \in Tokens : k \in Nat \ {0}
    BY TaskQueueAssumption DEF Tokens
  <2>4. QED
    BY <2>1, <2>2, <2>3 DEF TaskSafe, TokenOf, MintedOf, OpenOf, NumbersOf, ExplainedOf,
                            VerdictOf, LastOutcome, NoToken
<1>3. /\ \A w \in Workers : worker[w].pc = "idle"
      /\ \A c \in Clients : client[c].pc = "idle"
  BY DEF Init, IdleWorker
<1>4. /\ TokensAreExclusive /\ CancelAnswerHolds /\ SelectionReliable
      /\ CancelReliable /\ ExecutionReliable
  BY <1>3 DEF TokensAreExclusive, CancelAnswerHolds, SelectionReliable, CancelReliable,
              ExecutionReliable, Executing
<1>5. QED
  BY <1>1, <1>2, <1>4, TaskSafeSplits DEF IInv

\* The invariant is inductive: every step of a slot, call or clock keeps it.
LEMMA StepInvariant == IInv /\ [Next]_vars => IInv'
<1> SUFFICES ASSUME IInv, [Next]_vars PROVE IInv'
  OBVIOUS
<1>1. TypeOK /\ TypeOK'
  BY StepType DEF IInv
<1>2. \A t \in Tasks : TaskStep(t)
  BY TaskSteps
<1>3. \A t \in Tasks : TaskSafe(t) /\ TaskSafe(t)'
  BY <1>1, <1>2, TaskSafeSplits, TaskSafeStep
<1>4. /\ OpenAttemptIffHeld' /\ AttemptsNumbered' /\ StatusExplained'
      /\ VerdictIsLast' /\ TokenIsNewest' /\ AttemptIffMinted'
  <2>1. (\A t \in Tasks : TaskSafe(t))'
    BY <1>3
  <2>2. QED
    BY <2>1, TaskSafeSplits, PTL
<1>5. ASSUME NEW t \in Tasks, row[t].status # "absent"
      PROVE  /\ row'[t].status # "absent"
             /\ row'[t].version >= row[t].version
             /\ row'[t].version = row[t].version =>
                  row'[t].count = row[t].count /\ row'[t].token = row[t].token
             /\ row[t].status = "cancelled" => row'[t].status = "cancelled"
  BY <1>1, <1>2, <1>5, VersionPins
<1>6. ASSUME NEW t \in Tasks
      PROVE  minted'[t] \in Nat /\ minted[t] \in Nat /\ minted'[t] >= minted[t]
  <2>1. minted'[t] \in Nat /\ minted[t] \in Nat
    BY <1>1 DEF TypeOK
  <2>2. minted'[t] = minted[t] \/ minted'[t] = minted[t] + 1
    BY <1>2 DEF TaskStep, Kept, Submitted, Claimed, Settled, Withdrawn, GivenUp
  <2>3. QED
    BY <2>1, <2>2
<1>7. ExecutionReliable'
  <2>1. ASSUME NEW w \in Workers
        PROVE  /\ worker'[w].pc \in Executing =>
                    worker'[w].task \in Tasks /\ worker'[w].token \in 1..minted'[worker'[w].task]
               /\ worker'[w].pc \in {"returned", "settling"} =>
                    worker'[w].outcome \in {"succeeded"} \union Failures
    <3>1. CASE SlotKept(w)
      BY <1>6, <3>1 DEF SlotKept, IInv, ExecutionReliable
    <3>2. CASE SlotClaims(w)
      BY <1>6, <3>2 DEF SlotClaims
    <3>3. QED
      BY <3>1, <3>2, SlotSteps DEF SlotStep
  <2>2. QED
    BY <2>1 DEF ExecutionReliable, Executing, Failures
<1>8. TokensAreExclusive'
  <2>1. ASSUME NEW v \in Workers, NEW w \in Workers, v # w,
               worker'[v].pc \in Executing, worker'[w].pc \in Executing,
               worker'[v].task = worker'[w].task
        PROVE  worker'[v].token # worker'[w].token
    <3>1. CASE SlotKept(v) /\ SlotKept(w)
      BY <2>1, <3>1 DEF SlotKept, IInv, TokensAreExclusive
    <3>2. ASSUME NEW x \in Workers, NEW y \in Workers, x # y, SlotClaims(x),
                 worker'[y].pc \in Executing, worker'[x].task = worker'[y].task
          PROVE  worker'[x].token # worker'[y].token
      <4>1. worker'[y] = worker[y]
        BY <3>2 DEF SlotClaims
      <4>2. worker[y].token \in 1..minted[worker[y].task] /\ worker[y].task \in Tasks
        BY <3>2, <4>1 DEF IInv, ExecutionReliable
      <4>3. worker'[x].token = minted[worker[y].task] + 1
        BY <3>2, <4>1 DEF SlotClaims
      <4>4. QED
        BY <1>6, <4>1, <4>2, <4>3
    <3>3. QED
      BY <2>1, <3>1, <3>2, SlotSteps DEF SlotStep
  <2>2. QED
    BY <2>1 DEF TokensAreExclusive, Executing
<1>9. SelectionReliable'
  <2>1. ASSUME NEW w \in Workers, worker'[w].pc = "selected"
        PROVE  LET t == worker'[w].task IN
               /\ t \in Tasks
               /\ row'[t].status # "absent"
               /\ worker'[w].version <= row'[t].version
               /\ worker'[w].version = row'[t].version => worker'[w].count = row'[t].count
    <3>1. SlotKept(w)
      BY <2>1, SlotSteps DEF SlotStep, SlotClaims
    <3>2. CASE worker'[w] = worker[w]
      <4>1. /\ worker[w].task \in Tasks
            /\ row[worker[w].task].status # "absent"
            /\ worker[w].version <= row[worker[w].task].version
            /\ worker[w].version = row[worker[w].task].version =>
                 worker[w].count = row[worker[w].task].count
        BY <2>1, <3>2 DEF IInv, SelectionReliable
      <4>2. /\ worker[w].version \in Nat
            /\ row[worker[w].task].version \in Nat
            /\ row'[worker[w].task].version \in Nat
        BY <1>1, <4>1 DEF TypeOK, Slots, Rows
      <4>3. QED
        BY <1>5, <3>2, <4>1, <4>2
    <3>3. CASE /\ worker'[w].task \in Tasks
               /\ row[worker'[w].task].status # "absent"
               /\ row'[worker'[w].task] = row[worker'[w].task]
               /\ worker'[w].version = row[worker'[w].task].version
               /\ worker'[w].count = row[worker'[w].task].count
      <4>1. row'[worker'[w].task].version \in Nat
        BY <1>1, <3>3 DEF TypeOK, Rows
      <4>2. QED
        BY <3>3, <4>1
    <3>4. QED
      BY <2>1, <3>1, <3>2, <3>3 DEF SlotKept
  <2>2. QED
    BY <2>1 DEF SelectionReliable
<1>10. CancelReliable' /\ CancelAnswerHolds'
  <2>1. ASSUME NEW c \in Clients
        PROVE  LET t == client'[c].task IN
               /\ client'[c].pc \in {"retry", "cancelled"} => t \in Tasks
               /\ client'[c].pc = "cancelled" => row'[t].status = "cancelled"
               /\ client'[c].pc = "read" =>
                    /\ t \in Tasks
                    /\ row'[t].status # "absent"
                    /\ client'[c].version <= row'[t].version
                    /\ client'[c].version = row'[t].version => client'[c].token = row'[t].token
    <3>1. CASE client'[c] = client[c]
      <4>1. /\ client[c].pc \in {"retry", "cancelled"} => client[c].task \in Tasks
            /\ client[c].pc = "cancelled" => row[client[c].task].status = "cancelled"
            /\ client[c].pc = "read" =>
                 /\ client[c].task \in Tasks
                 /\ row[client[c].task].status # "absent"
                 /\ client[c].version <= row[client[c].task].version
                 /\ client[c].version = row[client[c].task].version =>
                      client[c].token = row[client[c].task].token
        BY DEF IInv, CancelReliable, CancelAnswerHolds
      <4>2. client[c].task \in Tasks => /\ client[c].version \in Nat
                                        /\ row[client[c].task].version \in Nat
                                        /\ row'[client[c].task].version \in Nat
        BY <1>1 DEF TypeOK, Calls, Rows
      <4>3. QED
        BY <1>5, <3>1, <4>1, <4>2
    <3>2. CASE client'[c] # client[c]
      <4>1. client'[c].task \in Tasks => row'[client'[c].task].version \in Nat
        BY <1>1 DEF TypeOK, Rows
      <4>2. QED
        BY <3>2, <4>1, CallSteps DEF CallStep
    <3>3. QED
      BY <3>1, <3>2
  <2>2. QED
    BY <2>1 DEF CancelReliable, CancelAnswerHolds
<1>11. QED
  BY <1>1, <1>4, <1>7, <1>8, <1>9, <1>10 DEF IInv

\* The inductive invariant holds in every reachable state: rows, attempt history, and
\* what slots and cancel calls remember of the rows they read, agree.
THEOREM InductiveInvariant == Spec => []IInv
BY InitInvariant, StepInvariant, PTL DEF Spec

\* Every reachable state is well typed: versions, counts and tokens are numbers, and
\* what slots and calls remember is of a task that exists.
THEOREM TypeCorrect == Spec => []TypeOK
BY InductiveInvariant, PTL DEF IInv

\* The task row and the attempt history never disagree on who holds the task.
THEOREM HistoryAgrees == Spec => []OpenAttemptIffHeld
BY InductiveInvariant, PTL DEF IInv

\* Attempts are numbered 1, 2, 3 ... however claims race reclaims and cancellations.
THEOREM HistoryIsNumbered == Spec => []AttemptsNumbered
BY InductiveInvariant, PTL DEF IInv

\* The status of a task that nobody holds follows from how its last attempt ended.
THEOREM StatusIsExplained == Spec => []StatusExplained
BY InductiveInvariant, PTL DEF IInv

\* A settled task is not handed out again.
THEOREM SettledOnce == Spec => []VerdictIsLast
BY InductiveInvariant, PTL DEF IInv

\* A cancellation that was confirmed stays so.
THEOREM CancellationHolds == Spec => []CancelAnswerHolds
BY InductiveInvariant, PTL DEF IInv
-----------------------------------------------------------------------------
(* Two executions of one task.                                             *)

\* Nobody but the slot with the token settles a task, and it settles for good: with
\* the verdict it has left the execution.
LEMMA OnlyTheHolderSettles ==
  ASSUME IInv, [Next]_vars, NEW t \in Tasks, NEW w \in Workers, Settled(t),
         worker[w].pc \in Executing, worker[w].task = t, worker[w].token = row[t].token
  PROVE  worker'[w].pc = "idle"
<1>0. /\ TypeOK /\ SelectionReliable /\ CancelReliable /\ ExecutionReliable
      /\ TokensAreExclusive
      /\ row[t] \in Rows
  BY DEF IInv, TypeOK
<1>1. /\ row[t].status \in LeasedStatuses
      /\ row'[t].status \in {"succeeded", "retry_wait", "failed_terminal"}
  BY DEF Settled, GivenUp, Held
<1>2. row'[t].status # row[t].status /\ row'[t] # row[t]
  BY <1>1 DEF LeasedStatuses
<1>3. ASSUME NEW v \in Workers, UnknownKind(v) \/ Settle(v)
      PROVE  worker'[w].pc = "idle"
  <2>1. worker[v].pc \in Executing /\ Release(v)
    BY <1>3 DEF UnknownKind, Settle, Executing
  <2>2. worker[v].task \in Tasks
    BY <1>0, <2>1 DEF ExecutionReliable
  <2>3. \E late \in 0..Lag : \E outcome :
          /\ HoldsLease(worker[v].task, worker[v].token, LeasedStatuses, late)
          /\ SettleRow(worker[v].task, worker[v].token, outcome, late)
    BY <1>2, <1>3 DEF UnknownKind, Settle
  <2>4. \E k, status, outcome, wait : Finish(worker[v].task, k, status, outcome, wait)
    BY <2>3, SettleCases
  <2>5. worker[v].task = t
    BY <1>0, <1>2, <2>2, <2>4 DEF Finish, TypeOK
  <2>6. worker[v].token = row[t].token
    BY <2>3, <2>5 DEF HoldsLease
  <2>7. v = w
    BY <1>0, <2>1, <2>5, <2>6 DEF TokensAreExclusive
  <2>8. QED
    BY <1>0, <2>1, <2>7 DEF Release, TypeOK, IdleWorker
<1>4. ASSUME NEW v \in Workers, ClaimTask(v)
      PROVE  FALSE
  <2>1. worker[v].task \in Tasks
    BY <1>0, <1>4 DEF ClaimTask, SelectionReliable
  <2>2. row'[t].status = "leased" \/ row'[t] = row[t]
    BY <1>0, <1>4, <2>1 DEF ClaimTask, TypeOK
  <2>3. QED
    BY <1>1, <1>2, <2>2
<1>5. ASSUME NEW v \in Workers, StartTask(v)
      PROVE  FALSE
  <2>1. \/ row' = row
        \/ row' = [row EXCEPT ![worker[v].task].status = "running",
                              ![worker[v].task].version = @ + 1]
    BY <1>5 DEF StartTask
  <2>2. row'[t] = row[t] \/ row'[t] = [row[t] EXCEPT !.status = "running", !.version = @ + 1]
    BY <1>0, <2>1 DEF TypeOK
  <2>3. row'[t] = row[t] \/ row'[t].status = "running"
    BY <1>0, <2>2 DEF Rows
  <2>4. QED
    BY <1>1, <1>2, <2>3
<1>6. ASSUME NEW v \in Workers, Heartbeat(v) \/ ServiceRenew(v)
      PROVE  FALSE
  <2>1. row' = row \/ \E late : RenewRow(worker[v].task, late)
    BY <1>6 DEF Heartbeat, ServiceRenew
  <2>2. ASSUME NEW late, RenewRow(worker[v].task, late)
        PROVE  row'[t].status = row[t].status
    <3>1. \/ row'[t] = row[t]
          \/ row'[t] = [row[t] EXCEPT !.left = LeaseTicks - late, !.version = row[t].version + 1]
      BY <1>0, <2>2 DEF RenewRow, TypeOK
    <3>2. QED
      BY <1>0, <3>1 DEF Rows
  <2>3. row'[t].status = row[t].status
    BY <2>1, <2>2
  <2>4. QED
    BY <1>2, <2>3
<1>7. ASSUME Tick
      PROVE  FALSE
  <2>1. PICK l, m : row'[t] = [row[t] EXCEPT !.left = l, !.wait = m]
    BY <1>7 DEF Tick
  <2>2. row'[t].status = row[t].status
    BY <1>0, <2>1 DEF Rows
  <2>3. QED
    BY <1>2, <2>2
<1>8. ASSUME NEW c \in Clients, CancelWrite(c)
      PROVE  FALSE
  <2>1. client[c].task \in Tasks
    BY <1>0, <1>8 DEF CancelWrite, CancelReliable
  <2>2. client[c].task = t
    BY <1>0, <1>2, <1>8, <2>1 DEF CancelWrite, TypeOK
  <2>3. row'[t] = [row[t] EXCEPT !.status = "cancelled", !.token = NoToken, !.left = 0,
                                 !.wait = 0, !.version = client[c].version + 1]
    BY <1>0, <1>8, <2>2 DEF CancelWrite, TypeOK
  <2>4. row'[t].status = "cancelled"
    BY <1>0, <2>3 DEF Rows
  <2>5. QED
    BY <1>1, <2>4
<1>9. ASSUME NEW x \in Tasks, Enqueue(x)
      PROVE  FALSE
  <2>1. x # t
    BY <1>1, <1>9 DEF Enqueue, LeasedStatuses
  <2>2. QED
    BY <1>0, <1>2, <1>9, <2>1 DEF Enqueue, TypeOK
<1>10. row' # row
  BY <1>2
<1>11. ASSUME NEW v \in Workers, WorkerStep(v) \/ Background(v)
       PROVE  worker'[w].pc = "idle"
  BY <1>3, <1>4, <1>5, <1>6, <1>10, <1>11
     DEF WorkerStep, Background, SelectTask, ClaimLost, CheckBefore, HandlerEnds,
         HandlerFenced, CheckAfter, HeartbeatFails, Crash
<1>12. ASSUME NEW c \in Clients, ClientStep(c)
       PROVE  FALSE
  BY <1>8, <1>10, <1>12 DEF ClientStep, CancelRead, CancelLost
<1>13. QED
  BY <1>7, <1>9, <1>10, <1>11, <1>12 DEF Next, vars

\* A slot keeps what it owns through every step of the others, and what a reclaim took
\* from it stays on record as expired.
LEMMA OwnershipStep ==
  ASSUME IInv, NewestExecutionOwns, [Next]_vars
  PROVE  NewestExecutionOwns'
<1>0. /\ TypeOK /\ TypeOK' /\ OpenAttemptIffHeld /\ ExecutionReliable
  BY StepType DEF IInv
<1> SUFFICES ASSUME NEW w \in Workers, worker'[w].pc \in Executing
             PROVE  LET t == worker'[w].task
                        k == worker'[w].token
                    IN  IF k = minted'[t]
                        THEN \/ row'[t].status \in LeasedStatuses /\ row'[t].token = k
                             \/ row'[t].status = "cancelled"
                        ELSE attempt'[t][k].outcome = "lease_expired"
  BY DEF NewestExecutionOwns, Held, Executing, LeasedStatuses
<1> DEFINE t == worker'[w].task
           k == worker'[w].token
<1>1. CASE SlotClaims(w)
  <2>1. t \in Tasks /\ k = minted[t] + 1 /\ minted'[t] = k
    BY <1>1 DEF SlotClaims
  <2>2. minted[t] \in Nat
    BY <1>0, <2>1 DEF TypeOK
  <2>3. Claimed(t)
    <3>1. minted'[t] # minted[t]
      BY <2>1, <2>2
    <3>2. TaskStep(t)
      BY <2>1, TaskSteps
    <3>3. QED
      BY <3>1, <3>2 DEF TaskStep, Kept, Submitted, Settled, Withdrawn, GivenUp
  <2>4. QED
    BY <2>1, <2>3 DEF Claimed, LeasedStatuses
<1>2. CASE SlotKept(w)
  <2>1. /\ worker[w].pc \in Executing
        /\ worker[w].task = t /\ worker[w].token = k
    BY <1>2 DEF SlotKept
  <2>2. /\ t \in Tasks /\ k \in 1..minted[t]
        /\ minted[t] \in Nat /\ k \in Tokens
    BY <1>0, <2>1, TaskQueueAssumption DEF ExecutionReliable, TypeOK, Tokens
  <2>3. IF k = minted[t]
        THEN (Held(t) /\ row[t].token = k) \/ row[t].status = "cancelled"
        ELSE attempt[t][k].outcome = "lease_expired"
    BY <2>1 DEF NewestExecutionOwns
  <2>4. CASE Kept(t)
    BY <2>2, <2>3, <2>4 DEF Kept, Held, LeasedStatuses
  <2>5. CASE Submitted(t)
    BY <2>2, <2>3, <2>5 DEF Submitted, Held, LeasedStatuses
  <2>6. CASE Claimed(t)
    <3>1. k # minted'[t]
      BY <2>2, <2>6 DEF Claimed
    <3>2. attempt'[t][k].outcome = IF attempt[t][k].outcome = "open"
                                   THEN "lease_expired" ELSE attempt[t][k].outcome
      BY <2>2, <2>6, <3>1 DEF Claimed
    <3>3. CASE k = minted[t]
      <4>1. Held(t) /\ row[t].token = k
        BY <2>3, <2>6, <3>3 DEF Claimed, WaitingStatuses, LeasedStatuses
      <4>2. attempt[t][k].outcome = "open"
        BY <1>0, <2>2, <4>1 DEF OpenAttemptIffHeld
      <4>3. QED
        BY <3>1, <3>2, <4>2
    <3>4. CASE k # minted[t]
      BY <2>3, <3>1, <3>2, <3>4
    <3>5. QED
      BY <3>3, <3>4
  <2>7. CASE Settled(t)
    <3>1. k # row[t].token
      <4>1. "idle" \notin Executing
        BY DEF Executing
      <4>2. QED
        BY <2>1, <2>2, <2>7, <4>1, OnlyTheHolderSettles
    <3>2. k # minted[t] /\ attempt[t][k].outcome = "lease_expired"
      BY <2>3, <2>7, <3>1 DEF Settled, Held, LeasedStatuses
    <3>3. minted'[t] = minted[t] /\ attempt'[t][k].outcome = attempt[t][k].outcome
      BY <2>2, <2>7, <3>2 DEF Settled, GivenUp, Closed
    <3>4. QED
      BY <3>2, <3>3
  <2>8. CASE Withdrawn(t)
    <3>1. /\ row'[t].status = "cancelled" /\ minted'[t] = minted[t]
          /\ attempt[t][k].outcome = "lease_expired" =>
               attempt'[t][k].outcome = "lease_expired"
      BY <2>2, <2>8 DEF Withdrawn, GivenUp, Closed
    <3>2. QED
      BY <2>3, <3>1
  <2>9. QED
    BY <2>2, <2>4, <2>5, <2>6, <2>7, <2>8, TaskSteps DEF TaskStep
<1>3. QED
  BY <1>1, <1>2, SlotSteps DEF SlotStep

\* Of the slots that execute one task only the one with the newest token counts, from
\* its claim to its own verdict or a cancellation: no heartbeat that fails, no lapse
\* and no late verdict of a superseded slot ends its execution for it.
THEOREM NewestOwns == Spec => []NewestExecutionOwns
<1>1. Init => NewestExecutionOwns
  BY DEF Init, IdleWorker, NewestExecutionOwns, Executing
<1>2. IInv /\ NewestExecutionOwns /\ [Next]_vars => NewestExecutionOwns'
  BY OwnershipStep
<1>3. QED
  BY <1>1, <1>2, InductiveInvariant, PTL DEF Spec

-----------------------------------------------------------------------------
(* What a step may never do.                                               *)

\* An ended task keeps its row and its attempts.
THEOREM EndsForGood == Spec => EndedForGood
<1>1. ASSUME IInv, [Next]_vars, NEW t \in Tasks, Terminal(t)
      PROVE  row'[t] = row[t] /\ attempt'[t] = attempt[t]
  BY <1>1, TaskSteps DEF TaskStep, Kept, Submitted, Claimed, Settled, Withdrawn,
                         Terminal, Held, TerminalStatuses, WaitingStatuses, LeasedStatuses
<1>2. IInv /\ [Next]_vars => [\A t \in Tasks :
         Terminal(t) => row'[t] = row[t] /\ attempt'[t] = attempt[t]]_vars
  BY <1>1
<1>3. QED
  BY <1>2, InductiveInvariant, PTL DEF Spec, EndedForGood

\* A lease with time left is never handed to another slot.
THEOREM LeasesAreRespected == Spec => LeaseRespected
<1>1. ASSUME IInv, [Next]_vars, NEW t \in Tasks, Held(t), row[t].left > 0,
             row'[t].token # row[t].token
      PROVE  row'[t].token = NoToken
  <2>1. row[t].left \in Int
    BY <1>1, RowCounters DEF IInv, TypeOK
  <2>2. ~Claimed(t)
    BY <1>1, <2>1 DEF Claimed
  <2>3. QED
    BY <1>1, <2>2, TaskSteps DEF TaskStep, Kept, Submitted, Settled, Withdrawn, GivenUp
<1>2. IInv /\ [Next]_vars => [\A t \in Tasks :
         Held(t) /\ row[t].left > 0 /\ row'[t].token # row[t].token
           => row'[t].token = NoToken]_vars
  BY <1>1
<1>3. QED
  BY <1>2, InductiveInvariant, PTL DEF Spec, LeaseRespected
-----------------------------------------------------------------------------
(* The queue implements the lifecycle.                                     *)

\* An empty database is an empty lifecycle.
LEMMA InitRefines == Init => Lifecycle!LifecycleInit
BY DEF Init, Lifecycle!LifecycleInit, AbstractState, WaitingStatuses, Held, LeasedStatuses,
       NoToken

\* The lifecycle sees nothing of a step on this task.
Quiet(t) ==
  /\ row'[t].status = row[t].status
  /\ row'[t].token = row[t].token
  /\ minted'[t] = minted[t]

\* A step changes the status, token or attempts of one task at most.
LEMMA OneTaskAtATime ==
  ASSUME IInv, [Next]_vars, NEW t \in Tasks, NEW u \in Tasks, t # u
  PROVE  Quiet(t) \/ Quiet(u)
<1>0. /\ TypeOK /\ SelectionReliable /\ CancelReliable /\ ExecutionReliable
      /\ row[t] \in Rows /\ row[u] \in Rows
  BY DEF IInv, TypeOK
<1>1. ASSUME NEW x \in Tasks,
             \A y \in Tasks \ {x} : row'[y] = row[y] /\ minted'[y] = minted[y]
      PROVE  Quiet(t) \/ Quiet(u)
  BY <1>1 DEF Quiet
<1>2. CASE UNCHANGED <<row, minted>>
  BY <1>2 DEF Quiet
<1>3. ASSUME NEW x \in Tasks, Enqueue(x)
      PROVE  Quiet(t) \/ Quiet(u)
  BY <1>0, <1>1, <1>3 DEF Enqueue, TypeOK
<1>4. ASSUME NEW c \in Clients, CancelWrite(c)
      PROVE  Quiet(t) \/ Quiet(u)
  <2>1. client[c].task \in Tasks
    BY <1>0, <1>4 DEF CancelWrite, CancelReliable
  <2>2. \A y \in Tasks \ {client[c].task} : row'[y] = row[y] /\ minted'[y] = minted[y]
    BY <1>0, <1>4, <2>1 DEF CancelWrite, TypeOK
  <2>3. QED
    BY <1>1, <2>1, <2>2
<1>5. ASSUME NEW w \in Workers, WorkerStep(w) \/ Background(w)
      PROVE  Quiet(t) \/ Quiet(u)
  <2> DEFINE x == worker[w].task
  <2>1. SUFFICES ASSUME ~UNCHANGED <<row, minted>>
                 PROVE  /\ x \in Tasks
                        /\ \A y \in Tasks \ {x} : row'[y] = row[y] /\ minted'[y] = minted[y]
    BY <1>1, <1>2
  <2>2. CASE ClaimTask(w)
    <3>1. x \in Tasks
      BY <1>0, <2>2 DEF ClaimTask, SelectionReliable
    <3>2. QED
      BY <1>0, <2>2, <3>1 DEF ClaimTask, TypeOK
  <2>3. CASE StartTask(w)
    BY <1>0, <2>1, <2>3 DEF StartTask, ExecutionReliable, Executing, TypeOK
  <2>4. CASE UnknownKind(w) \/ Settle(w)
    <3>1. x \in Tasks
      BY <1>0, <2>4 DEF UnknownKind, Settle, ExecutionReliable, Executing
    <3>2. minted' = minted
      BY <2>4 DEF UnknownKind, Settle
    <3>3. \E k, outcome, late : SettleRow(x, k, outcome, late)
      BY <2>1, <2>4, <3>2 DEF UnknownKind, Settle
    <3>4. \E k, status, outcome, wait : Finish(x, k, status, outcome, wait)
      BY <3>3, SettleCases
    <3>5. QED
      BY <1>0, <3>1, <3>2, <3>4 DEF Finish, TypeOK
  <2>5. CASE Heartbeat(w) \/ ServiceRenew(w)
    <3>1. x \in Tasks
      BY <1>0, <2>5 DEF Heartbeat, ServiceRenew, Beating, ExecutionReliable, Executing
    <3>2. minted' = minted
      BY <2>5 DEF Heartbeat, ServiceRenew
    <3>3. \E late : RenewRow(x, late)
      BY <2>1, <2>5, <3>2 DEF Heartbeat, ServiceRenew
    <3>4. QED
      BY <1>0, <3>1, <3>2, <3>3 DEF RenewRow, TypeOK
  <2>6. QED
    BY <1>5, <2>1, <2>2, <2>3, <2>4, <2>5
       DEF WorkerStep, Background, SelectTask, ClaimLost, CheckBefore, HandlerEnds,
           HandlerFenced, CheckAfter, HeartbeatFails, Crash
<1>6. CASE Tick
  <2>1. PICK l, m : row'[t] = [row[t] EXCEPT !.left = l, !.wait = m]
    BY <1>6 DEF Tick
  <2>2. row'[t].status = row[t].status /\ row'[t].token = row[t].token
    BY <1>0, <2>1 DEF Rows
  <2>3. QED
    BY <1>6, <2>2 DEF Tick, Quiet
<1>7. ASSUME NEW c \in Clients, ClientStep(c)
      PROVE  Quiet(t) \/ Quiet(u)
  BY <1>2, <1>4, <1>7 DEF ClientStep, CancelRead, CancelLost
<1>8. QED
  BY <1>2, <1>3, <1>5, <1>6, <1>7 DEF Next, vars

\* How the lifecycle reads a status.
Abstract(s) == CASE s \in WaitingStatuses -> "ready"
                 [] s \in LeasedStatuses  -> "held"
                 [] OTHER                 -> s

\* The lifecycle state of a task depends on its status alone.
LEMMA AbstractStates ==
  /\ AbstractState = [t \in Tasks |-> Abstract(row[t].status)]
  /\ AbstractState' = [t \in Tasks |-> Abstract(row'[t].status)]
BY DEF AbstractState, Abstract, Held, WaitingStatuses, LeasedStatuses

\* Every step of the queue is a step of the lifecycle of one task, or a stutter.
LEMMA StepRefines ==
  IInv /\ [Next]_vars => [Lifecycle!LifecycleNext]_(Lifecycle!lifecycle)
<1> DEFINE hold == [t \in Tasks |-> row[t].token]
           holdx == [t \in Tasks |-> row'[t].token]
<1> SUFFICES ASSUME IInv, [Next]_vars
             PROVE  \/ Lifecycle!LifecycleNext
                    \/ AbstractState' = AbstractState /\ holdx = hold /\ minted' = minted
  BY DEF Lifecycle!lifecycle
<1>1. TypeOK /\ TypeOK'
  BY StepType DEF IInv
<1>2. minted \in [Tasks -> Nat] /\ minted' \in [Tasks -> Nat]
  <2>1. 0..MaxClaims \subseteq Nat
    OBVIOUS
  <2>2. QED
    BY <1>1, <2>1 DEF TypeOK
<1>3. CASE \A t \in Tasks : Quiet(t)
  BY <1>2, <1>3, AbstractStates DEF Quiet
<1>4. ASSUME NEW t \in Tasks, ~Quiet(t)
      PROVE  \/ Lifecycle!LifecycleNext
             \/ AbstractState' = AbstractState /\ holdx = hold /\ minted' = minted
  <2>1. \A u \in Tasks \ {t} : Quiet(u)
    BY <1>4, OneTaskAtATime
  <2>2. TaskStep(t) /\ TaskSafe(t)
    BY TaskSteps, TaskSafeSplits
  <2>3. ASSUME NEW s, Abstract(row'[t].status) = s
        PROVE  AbstractState' = [AbstractState EXCEPT ![t] = s]
    BY <2>1, <2>3, AbstractStates DEF Quiet
  <2>4. ASSUME NEW k, row'[t].token = k
        PROVE  holdx = [hold EXCEPT ![t] = k]
    BY <2>1, <2>4 DEF Quiet
  <2>5. ASSUME NEW n, minted'[t] = n
        PROVE  minted' = [minted EXCEPT ![t] = n]
    BY <1>2, <2>1, <2>5 DEF Quiet
  <2>6. AbstractState[t] = Abstract(row[t].status)
    BY AbstractStates
  <2>7. CASE Kept(t)
    <3>1. Abstract(row'[t].status) = Abstract(row[t].status)
      BY <2>7 DEF Kept, Abstract, WaitingStatuses, LeasedStatuses
    <3>2. AbstractState' = AbstractState
      BY <2>1, <3>1, AbstractStates DEF Quiet
    <3>3. holdx = hold /\ minted' = minted
      BY <1>2, <2>1, <2>7 DEF Quiet, Kept
    <3>4. QED
      BY <3>2, <3>3
  <2>8. CASE Submitted(t)
    <3>1. /\ AbstractState[t] = "absent" /\ Abstract(row'[t].status) = "ready"
      BY <2>6, <2>8 DEF Submitted, Abstract, WaitingStatuses, LeasedStatuses
    <3>2. holdx = hold /\ minted' = minted
      BY <1>2, <2>1, <2>8 DEF Quiet, Submitted
    <3>3. Lifecycle!Submit(t)
      BY <2>3, <3>1, <3>2 DEF Lifecycle!Submit
    <3>4. QED
      BY <3>3 DEF Lifecycle!LifecycleNext
  <2>9. CASE Claimed(t)
    <3>1. AbstractState[t] \in {"ready", "held"} /\ Abstract(row'[t].status) = "held"
      BY <2>6, <2>9 DEF Claimed, Abstract, WaitingStatuses, LeasedStatuses
    <3>2. row'[t].token = minted[t] + 1 /\ minted'[t] = minted[t] + 1
      BY <2>9 DEF Claimed
    <3>3. Lifecycle!Grant(t)
      BY <2>3, <2>4, <2>5, <3>1, <3>2 DEF Lifecycle!Grant
    <3>4. QED
      BY <3>3 DEF Lifecycle!LifecycleNext
  <2>10. CASE Settled(t)
    <3>1. PICK status \in {"succeeded", "retry_wait", "failed_terminal"} :
            /\ row'[t].status = status
            /\ row'[t].token = NoToken
            /\ minted'[t] = minted[t]
      BY <2>10 DEF Settled, GivenUp
    <3>2. AbstractState[t] = "held"
      BY <2>6, <2>10 DEF Settled, Held, Abstract, WaitingStatuses, LeasedStatuses
    <3>3. Abstract(row'[t].status) \in {"ready", "succeeded", "failed_terminal"}
      BY <3>1 DEF Abstract, WaitingStatuses, LeasedStatuses
    <3>4. holdx = [hold EXCEPT ![t] = 0] /\ minted' = minted
      BY <1>2, <2>1, <2>4, <3>1 DEF Quiet, NoToken
    <3>5. PICK s \in Lifecycle!States :
            s = Abstract(row'[t].status) /\ s \in {"ready", "succeeded", "failed_terminal"}
      BY <3>3 DEF Lifecycle!States, Lifecycle!Endings
    <3>6. Lifecycle!Surrender(t, hold[t], s)
      BY <2>3, <3>2, <3>4, <3>5 DEF Lifecycle!Surrender
    <3>7. QED
      BY <3>6 DEF Lifecycle!LifecycleNext
  <2>11. CASE Withdrawn(t)
    <3>1. /\ AbstractState[t] \in {"ready", "held"}
          /\ Abstract(row'[t].status) = "cancelled"
      BY <2>6, <2>11 DEF Withdrawn, GivenUp, Abstract, WaitingStatuses, LeasedStatuses
    <3>2. holdx = [hold EXCEPT ![t] = 0] /\ minted' = minted
      BY <1>2, <2>1, <2>4, <2>11 DEF Quiet, Withdrawn, GivenUp, NoToken
    <3>3. Lifecycle!Revoke(t)
      BY <2>3, <3>1, <3>2 DEF Lifecycle!Revoke
    <3>4. QED
      BY <3>3 DEF Lifecycle!LifecycleNext
  <2>12. QED
    BY <2>2, <2>7, <2>8, <2>9, <2>10, <2>11 DEF TaskStep
<1>5. QED
  BY <1>3, <1>4

\* The repository calls, with their lost races, late timestamps and reclaims, are
\* together no more than the lifecycle of TaskLifecycle.
THEOREM Refinement == Spec => ImplementsLifecycle
BY InitRefines, StepRefines, InductiveInvariant, PTL
   DEF Spec, ImplementsLifecycle, Lifecycle!LifecycleSpec
=============================================================================
