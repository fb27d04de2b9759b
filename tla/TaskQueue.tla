------------------------------ MODULE TaskQueue ------------------------------
(***************************************************************************)
(* The durable task queue: TaskRepository (repositories.py) and the worker *)
(* protocol of Worker.run_claimed (tasks.py), with the callers of          *)
(* `task cancel`.  Every repository call is one SQLite transaction and so  *)
(* one step, except that a SELECT followed by a compare-and-swap UPDATE is *)
(* two steps: pysqlite opens the write transaction at the UPDATE only.     *)
(*                                                                         *)
(* Time.  The code stores instants; the model stores the ticks that remain *)
(* until lease_expires_at and next_attempt_at, which Tick counts down.     *)
(* Each call receives a timestamp its caller read beforehand, so a call is *)
(* made with some lateness in 0..Lag: the instant it compares with, or     *)
(* adds a lease to, lies that many ticks in the past.                      *)
(*                                                                         *)
(* A lease token is a fresh uuid4: the tokens of a task are numbered in    *)
(* the order they are minted, and 0 is the NULL of an unleased row.        *)
(***************************************************************************)
EXTENDS Integers, Sequences, FiniteSets

CONSTANTS
  Tasks,        \* task ids
  Workers,      \* execution slots; each runs one claimed lease at a time
  Clients,      \* calls of TaskRepository.cancel
  NoTask,
  MaxAttempts,  \* task_retry_max_attempts
  LeaseTicks,   \* task_lease_seconds
  RetryBase,    \* task_retry_base_seconds
  RetryCap,     \* task_retry_max_delay_seconds
  Lag,          \* bound: how old a timestamp can be when its call executes
  MaxClaims,    \* bound: claims of one task
  MaxRenewals,  \* bound: renewals of one lease
  MaxFaults     \* bound: crashes and failed heartbeats

ASSUME TaskQueueAssumption ==
  /\ NoTask \notin Tasks
  /\ MaxAttempts \in Nat \ {0}
  /\ LeaseTicks \in Nat \ {0}
  /\ RetryBase \in Nat \ {0}
  /\ RetryCap \in Nat \ {0}
  /\ RetryBase <= RetryCap
  /\ Lag \in 0..(LeaseTicks - 1)
  /\ MaxClaims \in Nat
  /\ MaxRenewals \in Nat
  /\ MaxFaults \in Nat

VARIABLES
  queue,    \* the enqueued tasks in the order (created_at, id)
  row,      \* TaskRow of each task
  renewals, \* how often the current lease of each task was renewed (for the bound)
  minted,   \* how many lease tokens each task has been given
  attempt,  \* TaskAttemptRow of each task and token
  worker,   \* the execution state of each slot
  client,   \* the state of each cancel call
  faults    \* crashes and failed heartbeats so far

vars == <<queue, row, renewals, minted, attempt, worker, client, faults>>
-----------------------------------------------------------------------------
NoToken == 0
Tokens  == 1..MaxClaims

LeasedStatuses   == {"leased", "running"}
WaitingStatuses  == {"queued", "retry_wait"}
TerminalStatuses == {"succeeded", "failed_terminal", "cancelled"}
Statuses == {"absent"} \union WaitingStatuses \union LeasedStatuses
                       \union TerminalStatuses

Failures == {"retryable_failure", "terminal_failure"}
Outcomes == {"none", "open", "lease_expired", "succeeded", "cancelled"}
              \union Failures

\* Between claim_next returning a lease and run_claimed returning.
Executing == {"claimed", "started", "handling", "returned", "settling"}
\* The heartbeat thread of run_claimed lives and has waited its first interval, a
\* third of a lease: the check before the handler is long past.
Beating   == {"handling", "returned", "settling"}

Rows     == [status: Statuses, token: Nat, left: Int, wait: Int,
             count: Nat, version: Nat]
Attempts == [number: Nat, outcome: Outcomes]
Slots    == [pc: {"idle", "selected"} \union Executing,
             task: Tasks \union {NoTask}, token: Nat, count: Nat, version: Nat,
             lost: BOOLEAN, outcome: Outcomes]
Calls    == [pc: {"idle", "read", "retry", "cancelled", "refused", "conflict"},
             task: Tasks \union {NoTask}, token: Nat, version: Nat, tries: Nat]

\* What the columns, the attempt history and the callers' variables can hold.
TypeOK ==
  /\ queue \in Seq(Tasks)
  /\ row \in [Tasks -> Rows]
  /\ renewals \in [Tasks -> Nat]
  /\ minted \in [Tasks -> 0..MaxClaims]
  /\ attempt \in [Tasks -> [Tokens -> Attempts]]
  /\ worker \in [Workers -> Slots]
  /\ client \in [Clients -> Calls]
  /\ faults \in Nat

IdleWorker == [pc |-> "idle", task |-> NoTask, token |-> NoToken, count |-> 0,
               version |-> 0, lost |-> FALSE, outcome |-> "none"]

Init ==
  /\ queue = << >>
  /\ row = [t \in Tasks |-> [status |-> "absent", token |-> NoToken, left |-> 0,
                             wait |-> 0, count |-> 0, version |-> 0]]
  /\ renewals = [t \in Tasks |-> 0]
  /\ minted = [t \in Tasks |-> 0]
  /\ attempt = [t \in Tasks |-> [k \in Tokens |-> [number |-> 0,
                                                   outcome |-> "none"]]]
  /\ worker = [w \in Workers |-> IdleWorker]
  /\ client = [c \in Clients |-> [pc |-> "idle", task |-> NoTask,
                                  token |-> NoToken, version |-> 0, tries |-> 0]]
  /\ faults = 0
-----------------------------------------------------------------------------
(* Row predicates: the WHERE clauses of the repository.                    *)

Terminal(t) == row[t].status \in TerminalStatuses
Held(t)     == row[t].status \in LeasedStatuses

\* Variants with a mistake in them (named ..._x) stand before what they vary; a
\* property is worth its place when it tells the two apart.

\* Not so: a failed task can be claimed again.
Claimable_AfterFailure(t, late) ==
  \/ row[t].status = "queued"
  \/ row[t].status \in {"retry_wait", "failed_terminal"} /\ row[t].wait + late <= 0
  \/ Held(t) /\ row[t].left + late <= 0

\* Not so: the last tick of a lease counts as expired.
Claimable_Early(t, late) ==
  \/ row[t].status = "queued"
  \/ row[t].status = "retry_wait" /\ row[t].wait + late <= 0
  \/ Held(t) /\ row[t].left + late <= 1

\* Not so: an expired lease is not reclaimed.
Claimable_NoReclaim(t, late) ==
  \/ row[t].status = "queued"
  \/ row[t].status = "retry_wait" /\ row[t].wait + late <= 0

\* TaskRepository._claimable
Claimable(t, late) ==
  \/ row[t].status = "queued"
  \/ row[t].status = "retry_wait" /\ row[t].wait + late <= 0
  \/ Held(t) /\ row[t].left + late <= 0

\* Not so: any lease of the task will do, whoever holds it.
HoldsLease_Anybodys(t, k, statuses, late) ==
  /\ row[t].status \in statuses
  /\ row[t].left + late > 0

\* The fence of renew and _finish_attempt, and with "running" alone in place of
\* LeasedStatuses that of assert_active_fence.
HoldsLease(t, k, statuses, late) ==
  /\ row[t].token = k
  /\ row[t].status \in statuses
  /\ row[t].left + late > 0

\* TaskRepository._retry_delay_seconds
RetryDelay(n) ==
  LET delay == RetryBase * 2 ^ (IF n > 0 THEN n - 1 ELSE 0)
  IN  IF delay < RetryCap THEN delay ELSE RetryCap

\* UPDATE task_attempts SET outcome WHERE finished_at IS NULL AND token IN ks
CloseAttempts(t, ks, outcome) ==
  [k \in Tokens |-> IF k \in ks /\ attempt[t][k].outcome = "open"
                    THEN [attempt[t][k] EXCEPT !.outcome = outcome]
                    ELSE attempt[t][k]]
-----------------------------------------------------------------------------
(* Clients: enqueue and cancel.                                            *)

Enqueue(t) ==
  /\ row[t].status = "absent"
  /\ row' = [row EXCEPT ![t].status = "queued", ![t].version = 1]
  /\ queue' = Append(queue, t)
  /\ UNCHANGED <<renewals, minted, attempt, worker, client, faults>>

\* The SELECT of one round of cancel: an already cancelled task is replayed,
\* another terminal one refused.
CancelRead(c, t) ==
  /\ \/ client[c].pc = "idle"
     \/ client[c].pc = "retry" /\ client[c].task = t
  /\ row[t].status # "absent"
  /\ client' = [client EXCEPT ![c] =
       [pc |-> CASE row[t].status = "cancelled" -> "cancelled"
                 [] Terminal(t) /\ row[t].status # "cancelled" -> "refused"
                 [] OTHER -> "read",
        task |-> t, token |-> row[t].token,
        version |-> IF Terminal(t) THEN 0 ELSE row[t].version,
        tries |-> IF Terminal(t) THEN 0 ELSE client[c].tries + 1]]
  /\ UNCHANGED <<queue, row, renewals, minted, attempt, worker, faults>>

\* The row and version cancel compares with are those of its SELECT.
CancelMatches(c) == row[client[c].task].version = client[c].version

\* The UPDATE of cancel: the row becomes terminal, its lease is cleared and the
\* attempt of the lease that was read is closed.
CancelWrite(c) ==
  LET t == client[c].task IN
  /\ client[c].pc = "read"
  /\ CancelMatches(c)
  /\ ~Terminal(t)
  /\ row' = [row EXCEPT ![t].status = "cancelled", ![t].token = NoToken,
                        ![t].left = 0, ![t].wait = 0,
                        ![t].version = client[c].version + 1]
  /\ attempt' = [attempt EXCEPT ![t] =
                   CloseAttempts(t, {client[c].token}, "cancelled")]
  /\ client' = [client EXCEPT ![c].pc = "cancelled", ![c].token = NoToken,
                              ![c].version = 0, ![c].tries = 0]
  /\ UNCHANGED <<queue, renewals, minted, worker, faults>>

\* Not so: the third lost round is answered as a success.
CancelLost_Ignored(c) ==
  /\ client[c].pc = "read"
  /\ ~(CancelMatches(c) /\ ~Terminal(client[c].task))
  /\ client' = [client EXCEPT
       ![c].pc = IF client[c].tries < 3 THEN "retry" ELSE "cancelled",
       ![c].token = NoToken, ![c].version = 0]
  /\ UNCHANGED <<queue, row, renewals, minted, attempt, worker, faults>>

\* The UPDATE matched no row: read again, three rounds in all.
CancelLost(c) ==
  /\ client[c].pc = "read"
  /\ ~(CancelMatches(c) /\ ~Terminal(client[c].task))
  /\ client' = [client EXCEPT
       ![c].pc = IF client[c].tries < 3 THEN "retry" ELSE "conflict",
       ![c].token = NoToken, ![c].version = 0]
  /\ UNCHANGED <<queue, row, renewals, minted, attempt, worker, faults>>
-----------------------------------------------------------------------------
(* Workers: claiming.                                                      *)

\* The SELECT of claim_next: the oldest claimable task.
SelectTask(w) ==
  \E late \in 0..Lag, i \in DOMAIN queue :
    LET t == queue[i] IN
    /\ worker[w].pc = "idle"
    /\ Claimable(t, late)
    /\ \A j \in 1..(i - 1) : ~Claimable(queue[j], late)
    /\ minted[t] < MaxClaims
    /\ worker' = [worker EXCEPT ![w] =
                    [IdleWorker EXCEPT !.pc = "selected", !.task = t,
                                       !.count = row[t].count,
                                       !.version = row[t].version]]
    /\ UNCHANGED <<queue, row, renewals, minted, attempt, client, faults>>

\* Not so: the UPDATE of claim_next compares no version.
ClaimMatches_Blind(w, late) == Claimable(worker[w].task, late)

ClaimMatches(w, late) ==
  LET t == worker[w].task IN
  /\ row[t].version = worker[w].version
  /\ Claimable(t, late)

\* The UPDATE of claim_next: a new token and a new attempt; attempts left open
\* by an earlier holder are closed as lease_expired.
ClaimTask(w) ==
  LET t == worker[w].task
      k == minted[t] + 1
      n == worker[w].count + 1
  IN
  \E late \in 0..Lag :
    /\ worker[w].pc = "selected"
    /\ ClaimMatches(w, late)
    /\ k \in Tokens
    /\ row' = [row EXCEPT ![t] =
                 [status |-> "leased", token |-> k, left |-> LeaseTicks - late,
                  wait |-> 0, count |-> n, version |-> worker[w].version + 1]]
    /\ minted' = [minted EXCEPT ![t] = k]
    /\ attempt' = [attempt EXCEPT ![t] =
                     [CloseAttempts(t, Tokens, "lease_expired")
                        EXCEPT ![k] = [number |-> n, outcome |-> "open"]]]
    /\ worker' = [worker EXCEPT ![w] =
                    [IdleWorker EXCEPT !.pc = "claimed", !.task = t, !.token = k]]
    /\ renewals' = [renewals EXCEPT ![t] = 0]
    /\ UNCHANGED <<queue, client, faults>>

\* The UPDATE matched no row: claim_next reads again, as an idle slot does.
ClaimLost(w) ==
  /\ worker[w].pc = "selected"
  /\ \E late \in 0..Lag : ~ClaimMatches(w, late)
  /\ worker' = [worker EXCEPT ![w] = IdleWorker]
  /\ UNCHANGED <<queue, row, renewals, minted, attempt, client, faults>>
-----------------------------------------------------------------------------
(* Workers: Worker.run_claimed.                                            *)

Release(w) == worker' = [worker EXCEPT ![w] = IdleWorker]

\* TaskRepository.start; a stale lease ends the execution.
StartTask(w) ==
  LET t == worker[w].task IN
  \E late \in 0..Lag :
    /\ worker[w].pc = "claimed"
    /\ IF HoldsLease(t, worker[w].token, {"leased"}, late)
       THEN /\ row' = [row EXCEPT ![t].status = "running", ![t].version = @ + 1]
            /\ worker' = [worker EXCEPT ![w].pc = "started"]
       ELSE /\ Release(w)
            /\ UNCHANGED row
    /\ UNCHANGED <<queue, renewals, minted, attempt, client, faults>>

\* _finish_attempt: the row leaves the lease and its attempt is closed.
Finish(t, k, status, outcome, wait) ==
  /\ row' = [row EXCEPT ![t].status = status, ![t].token = NoToken,
                        ![t].left = 0, ![t].wait = wait, ![t].version = @ + 1]
  /\ attempt' = [attempt EXCEPT ![t] = CloseAttempts(t, {k}, outcome)]

\* complete, or fail with its choice between retry_wait and failed_terminal.
\* fail reads attempt_count by token first; the token pins the count, so the
\* read and the fenced UPDATE that follows are one step.
SettleRow(t, k, outcome, late) ==
  CASE outcome = "succeeded" ->
         Finish(t, k, "succeeded", outcome, 0)
    [] outcome = "retryable_failure" /\ row[t].count < MaxAttempts ->
         Finish(t, k, "retry_wait", outcome, RetryDelay(row[t].count) - late)
    [] OTHER ->
         Finish(t, k, "failed_terminal", outcome, 0)

\* run_claimed on a kind without handler: fail(retryable=False) at once.
UnknownKind(w) ==
  LET t == worker[w].task IN
  \E late \in 0..Lag :
    /\ worker[w].pc = "started"
    /\ IF HoldsLease(t, worker[w].token, LeasedStatuses, late)
       THEN SettleRow(t, worker[w].token, "terminal_failure", late)
       ELSE UNCHANGED <<row, attempt>>
    /\ Release(w)
    /\ UNCHANGED <<queue, renewals, minted, client, faults>>

\* is_cancelled before the handler is called.
CheckBefore(w) ==
  /\ worker[w].pc = "started"
  /\ IF row[worker[w].task].status = "cancelled"
     THEN Release(w)
     ELSE worker' = [worker EXCEPT ![w].pc = "handling"]
  /\ UNCHANGED <<queue, row, renewals, minted, attempt, client, faults>>

\* The handler returns a result, or raises: RetryableTaskError, or
\* TerminalTaskError and any other exception, which fail terminally.
HandlerEnds(w) ==
  \E outcome \in {"succeeded"} \union Failures :
    /\ worker[w].pc = "handling"
    /\ worker' = [worker EXCEPT
                    ![w].pc = IF outcome = "succeeded" THEN "returned" ELSE "settling",
                    ![w].outcome = outcome]
    /\ UNCHANGED <<queue, row, renewals, minted, attempt, client, faults>>

\* The handler's assert_active, or the process runner's probe, finds the lease
\* gone or the task cancelled and the execution ends without a call.
HandlerFenced(w) ==
  /\ worker[w].pc = "handling"
  /\ \E late \in 0..Lag :
       ~HoldsLease(worker[w].task, worker[w].token, {"running"}, late)
  /\ Release(w)
  /\ UNCHANGED <<queue, row, renewals, minted, attempt, client, faults>>

\* is_cancelled after the handler returned.
CheckAfter(w) ==
  /\ worker[w].pc = "returned"
  /\ IF row[worker[w].task].status = "cancelled"
     THEN Release(w)
     ELSE worker' = [worker EXCEPT ![w].pc = "settling"]
  /\ UNCHANGED <<queue, row, renewals, minted, attempt, client, faults>>

\* Not so: an execution whose lease was lost waits for it to come back.
Settle_Waits(w) ==
  LET t == worker[w].task
      k == worker[w].token
  IN
  \E late \in 0..Lag :
    /\ worker[w].pc = "settling"
    /\ ~worker[w].lost /\ HoldsLease(t, k, LeasedStatuses, late)
    /\ SettleRow(t, k, worker[w].outcome, late)
    /\ Release(w)
    /\ UNCHANGED <<queue, renewals, minted, client, faults>>

\* complete or fail, unless the heartbeat reported the lease lost.
Settle(w) ==
  LET t == worker[w].task
      k == worker[w].token
  IN
  \E late \in 0..Lag :
    /\ worker[w].pc = "settling"
    /\ IF ~worker[w].lost /\ HoldsLease(t, k, LeasedStatuses, late)
       THEN SettleRow(t, k, worker[w].outcome, late)
       ELSE UNCHANGED <<row, attempt>>
    /\ Release(w)
    /\ UNCHANGED <<queue, renewals, minted, client, faults>>
-----------------------------------------------------------------------------
(* Lease renewal, the clock, and faults.                                   *)

\* TaskRepository.renew, when its fence holds.
RenewRow(t, late) ==
  /\ renewals[t] < MaxRenewals
  /\ renewals' = [renewals EXCEPT ![t] = @ + 1]
  /\ row' = [row EXCEPT ![t].left = LeaseTicks - late, ![t].version = @ + 1]

\* One beat of the heartbeat thread; it ends at the first stale lease.
Heartbeat(w) ==
  LET t == worker[w].task IN
  \E late \in 0..Lag :
    /\ worker[w].pc \in Beating
    /\ ~worker[w].lost
    /\ IF HoldsLease(t, worker[w].token, LeasedStatuses, late)
       THEN RenewRow(t, late) /\ UNCHANGED worker
       ELSE UNCHANGED <<row, renewals>> /\ worker' = [worker EXCEPT ![w].lost = TRUE]
    /\ UNCHANGED <<queue, minted, attempt, client, faults>>

\* A beat that fails for another reason (a locked database): fail closed.
HeartbeatFails(w) ==
  /\ worker[w].pc \in Beating
  /\ ~worker[w].lost
  /\ faults < MaxFaults
  /\ faults' = faults + 1
  /\ worker' = [worker EXCEPT ![w].lost = TRUE]
  /\ UNCHANGED <<queue, row, renewals, minted, attempt, client>>

\* WorkerService._renew_active_leases renews for every active execution, also
\* after the heartbeat thread has given up; a failure is only logged.
ServiceRenew(w) ==
  \E late \in 0..Lag :
    /\ worker[w].pc \in Executing
    /\ HoldsLease(worker[w].task, worker[w].token, LeasedStatuses, late)
    /\ RenewRow(worker[w].task, late)
    /\ UNCHANGED <<queue, minted, attempt, worker, client, faults>>

\* The worker process dies, or an exception leaves run_claimed; only its rows
\* survive.
Crash(w) ==
  /\ worker[w].pc # "idle"
  /\ faults < MaxFaults
  /\ faults' = faults + 1
  /\ Release(w)
  /\ UNCHANGED <<queue, row, renewals, minted, attempt, client>>

Countdown(n) == IF n + Lag > 0 THEN n - 1 ELSE n

Tick ==
  /\ row' = [t \in Tasks |->
       [row[t] EXCEPT !.left = IF Held(t) THEN Countdown(@) ELSE @,
                      !.wait = IF row[t].status = "retry_wait"
                               THEN Countdown(@) ELSE @]]
  /\ UNCHANGED <<queue, renewals, minted, attempt, worker, client, faults>>
-----------------------------------------------------------------------------
WorkerStep(w) ==
  \/ SelectTask(w) \/ ClaimTask(w) \/ ClaimLost(w) \/ StartTask(w)
  \/ UnknownKind(w) \/ CheckBefore(w) \/ HandlerEnds(w) \/ HandlerFenced(w)
  \/ CheckAfter(w) \/ Settle(w)

Background(w) ==
  Heartbeat(w) \/ HeartbeatFails(w) \/ ServiceRenew(w) \/ Crash(w)

ClientStep(c) == (\E t \in Tasks : CancelRead(c, t)) \/ CancelWrite(c) \/ CancelLost(c)

Next ==
  \/ \E t \in Tasks : Enqueue(t)
  \/ \E w \in Workers : WorkerStep(w) \/ Background(w)
  \/ \E c \in Clients : ClientStep(c)
  \/ Tick

Spec == Init /\ [][Next]_vars
-----------------------------------------------------------------------------
(* Safety.                                                                 *)

\* The row and the attempt history tell one story, whatever worker, reclaim or
\* cancellation closed an attempt: an attempt is open exactly while its token
\* holds the task (claim_next, _finish_attempt and cancel update two tables).
OpenAttemptIffHeld ==
  \A t \in Tasks : \A k \in Tokens :
    attempt[t][k].outcome = "open" <=> Held(t) /\ row[t].token = k

\* attempt_count and attempt_number come from a row read before the UPDATE, and
\* still number the attempts of a task 1, 2, 3 ... without gap or repetition, as
\* uq_task_attempt_number demands.
AttemptsNumbered ==
  \A t \in Tasks :
    /\ row[t].count = minted[t]
    /\ \A k \in Tokens : attempt[t][k].number = IF k <= minted[t] THEN k ELSE 0

\* How the last attempt ended explains the status of a task that nobody holds:
\* no success without a successful last attempt, no wait without a retryable
\* failure that left attempts to spend, no attempt after the end.
LastOutcome(t) == IF minted[t] = 0 THEN "none" ELSE attempt[t][minted[t]].outcome

StatusExplained ==
  \A t \in Tasks :
    /\ row[t].status \in {"absent", "queued"} => minted[t] = 0
    /\ row[t].status = "succeeded" <=> LastOutcome(t) = "succeeded"
    /\ row[t].status = "retry_wait" =>
         LastOutcome(t) = "retryable_failure" /\ row[t].count < MaxAttempts
    /\ row[t].status = "failed_terminal" =>
         \/ LastOutcome(t) = "terminal_failure"
         \/ LastOutcome(t) = "retryable_failure" /\ row[t].count >= MaxAttempts

\* An attempt that reached a verdict other than a retryable one was the last:
\* a settled task is not handed out again.
VerdictIsLast ==
  \A t \in Tasks : \A k \in Tokens :
    attempt[t][k].outcome \in {"succeeded", "terminal_failure", "cancelled"} =>
      k = minted[t] /\ Terminal(t)

\* The newest execution of a task owns it until that execution itself ends or the task
\* is cancelled, and every older one that still runs is on record as expired: although
\* two slots may be inside the handler of one task, no late complete, fail or renew of
\* the one takes the task from the other (renew, _finish_attempt, claim_next).
NewestExecutionOwns ==
  \A w \in Workers : worker[w].pc \in Executing =>
    LET t == worker[w].task
        k == worker[w].token
    IN  IF k = minted[t]
        THEN (Held(t) /\ row[t].token = k) \/ row[t].status = "cancelled"
        ELSE attempt[t][k].outcome = "lease_expired"

\* A caller told that its task is cancelled finds it so ever after, even when
\* the cancellation raced a claim, a renewal or the worker's own verdict.
CancelAnswerHolds ==
  \A c \in Clients :
    client[c].pc = "cancelled" => row[client[c].task].status = "cancelled"

\* docs/superpowers/plans/2026-08-02-concurrency-and-retry-hardening.md promises a
\* terminal attempt limit that includes the first execution.
AttemptsBounded == \A t \in Tasks : row[t].count <= MaxAttempts

\* docs/superpowers/specs/2026-08-03-resident-worker-design.md promises that a slot
\* whose renewal failed stops work at once: it does not run the handler of a task
\* that another slot has taken over.
LostLeaseStops ==
  \A v, w \in Workers :
    /\ v # w
    /\ worker[v].pc = "handling"
    /\ worker[w].pc = "handling"
    /\ worker[v].task = worker[w].task
    => ~worker[v].lost /\ ~worker[w].lost
-----------------------------------------------------------------------------
(* The inductive invariant behind the safety properties.                   *)

\* Only a held row carries a token, and it is the newest one.
TokenIsNewest ==
  \A t \in Tasks :
    IF Held(t) THEN row[t].token = minted[t] /\ minted[t] > 0
               ELSE row[t].token = NoToken

\* The attempt rows are those of the minted tokens.
AttemptIffMinted ==
  \A t \in Tasks : \A k \in Tokens :
    attempt[t][k].outcome = "none" <=> k > minted[t]

\* Two slots never execute under one token: a claim mints a token of its own.
TokensAreExclusive ==
  \A v, w \in Workers :
    /\ v # w
    /\ worker[v].pc \in Executing
    /\ worker[w].pc \in Executing
    /\ worker[v].task = worker[w].task
    => worker[v].token # worker[w].token

\* What a slot read before its UPDATE still describes the row if the version
\* does: every UPDATE of a row raises its version.
SelectionReliable ==
  \A w \in Workers :
    LET t == worker[w].task IN
    worker[w].pc = "selected" =>
      /\ t \in Tasks
      /\ row[t].status # "absent"
      /\ worker[w].version <= row[t].version
      /\ worker[w].version = row[t].version => worker[w].count = row[t].count

CancelReliable ==
  \A c \in Clients :
    LET t == client[c].task IN
    /\ client[c].pc \in {"retry", "cancelled"} => t \in Tasks
    /\ client[c].pc = "read" =>
         /\ t \in Tasks
         /\ row[t].status # "absent"
         /\ client[c].version <= row[t].version
         /\ client[c].version = row[t].version => client[c].token = row[t].token

\* A slot executes under a minted token, and settles with a handler's outcome.
ExecutionReliable ==
  \A w \in Workers :
    /\ worker[w].pc \in Executing =>
         worker[w].task \in Tasks /\ worker[w].token \in 1..minted[worker[w].task]
    /\ worker[w].pc \in {"returned", "settling"} =>
         worker[w].outcome \in {"succeeded"} \union Failures

\* The safety properties and what they rest on: tokens, versions and the copies of
\* them that slots and calls keep between a SELECT and its UPDATE.
IInv ==
  /\ TypeOK
  /\ OpenAttemptIffHeld
  /\ AttemptsNumbered
  /\ StatusExplained
  /\ VerdictIsLast
  /\ TokensAreExclusive
  /\ CancelAnswerHolds
  /\ TokenIsNewest
  /\ AttemptIffMinted
  /\ SelectionReliable
  /\ CancelReliable
  /\ ExecutionReliable
-----------------------------------------------------------------------------
(* What a step may never do.                                               *)

\* An ended task never changes again: no late completion, failure, renewal or
\* repeated cancellation rewrites its row or its last attempt.
EndedForGood ==
  [][\A t \in Tasks :
       Terminal(t) => row'[t] = row[t] /\ attempt'[t] = attempt[t]]_vars

\* A lease that has not run out is never handed to another slot: while ticks
\* are left the token changes only by being given up.
LeaseRespected ==
  [][\A t \in Tasks :
       Held(t) /\ row[t].left > 0 /\ row'[t].token # row[t].token
         => row'[t].token = NoToken]_vars

-----------------------------------------------------------------------------
(* Refinement: the queue is a TaskLifecycle.                               *)

AbstractState ==
  [t \in Tasks |-> CASE row[t].status \in WaitingStatuses -> "ready"
                     [] Held(t)                           -> "held"
                     [] OTHER                             -> row[t].status]

Lifecycle == INSTANCE TaskLifecycle
  WITH state   <- AbstractState,
       holder  <- [t \in Tasks |-> row[t].token],
       granted <- minted

\* Every repository call is a step, or a stutter, of the lifecycle the other
\* components rely on.
ImplementsLifecycle == Lifecycle!LifecycleSpec
-----------------------------------------------------------------------------
(* Progress.                                                               *)

\* The heartbeat runs every third of a lease and a call takes a fraction of it:
\* a slot that executes and has not been told otherwise never sees its lease
\* run out.
TickInTime ==
  /\ Tick
  /\ \A w \in Workers :
       /\ worker[w].pc \in Executing
       /\ ~worker[w].lost
       /\ row[worker[w].task].token = worker[w].token
       => row[worker[w].task].left > 1

TimelyNext ==
  \/ \E t \in Tasks : Enqueue(t)
  \/ \E w \in Workers : WorkerStep(w) \/ Background(w)
  \/ \E c \in Clients : ClientStep(c)
  \/ TickInTime

\* Threads are scheduled, handlers return (process_timeout_seconds bounds the
\* external tools they wait for), the clock advances, and calls return.
TimelySpec ==
  /\ Init
  /\ [][TimelyNext]_vars
  /\ WF_vars(TickInTime)
  /\ \A w \in Workers : WF_vars(WorkerStep(w)) /\ WF_vars(Heartbeat(w))
  /\ \A c \in Clients : WF_vars(CancelWrite(c) \/ CancelLost(c))

\* Every enqueued task ends, through retries, crashes and lost heartbeats.
EveryTaskEnds == \A t \in Tasks : row[t].status # "absent" ~> Terminal(t)

\* A slot that works on an ended task becomes free again.
SlotsComeFree ==
  \A w \in Workers :
    worker[w].pc \in Executing /\ Terminal(worker[w].task) ~> worker[w].pc = "idle"
=============================================================================
