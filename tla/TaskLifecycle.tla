---------------------------- MODULE TaskLifecycle ----------------------------
(***************************************************************************)
(* What the task queue promises the parts of PCBFlow built on it: a task   *)
(* is granted to one holder at a time, each grant under a token of its     *)
(* own; only the current holder decides how the task ends; a cancellation  *)
(* revokes the grant; and an ended task stays as it ended.                 *)
(***************************************************************************)
EXTENDS Naturals

CONSTANTS Tasks

VARIABLES
  state,   \* absent, ready, held, or how the task ended
  holder,  \* the token of the current grant, 0 when there is none
  granted  \* how many grants the task has had

lifecycle == <<state, holder, granted>>

Endings == {"succeeded", "failed_terminal", "cancelled"}
States  == {"absent", "ready", "held"} \union Endings

LifecycleTypeOK ==
  /\ state \in [Tasks -> States]
  /\ holder \in [Tasks -> Nat]
  /\ granted \in [Tasks -> Nat]

LifecycleInit ==
  /\ state = [t \in Tasks |-> "absent"]
  /\ holder = [t \in Tasks |-> 0]
  /\ granted = [t \in Tasks |-> 0]

Submit(t) ==
  /\ state[t] = "absent"
  /\ state' = [state EXCEPT ![t] = "ready"]
  /\ UNCHANGED <<holder, granted>>

\* A grant replaces the grant of a holder that let its lease expire.
Grant(t) ==
  /\ state[t] \in {"ready", "held"}
  /\ state' = [state EXCEPT ![t] = "held"]
  /\ granted' = [granted EXCEPT ![t] = @ + 1]
  /\ holder' = [holder EXCEPT ![t] = granted[t] + 1]

\* The holder of token k hands the task back, or ends it.
Surrender(t, k, s) ==
  /\ state[t] = "held"
  /\ holder[t] = k
  /\ s \in {"ready", "succeeded", "failed_terminal"}
  /\ state' = [state EXCEPT ![t] = s]
  /\ holder' = [holder EXCEPT ![t] = 0]
  /\ UNCHANGED granted

Revoke(t) ==
  /\ state[t] \in {"ready", "held"}
  /\ state' = [state EXCEPT ![t] = "cancelled"]
  /\ holder' = [holder EXCEPT ![t] = 0]
  /\ UNCHANGED granted

LifecycleNext ==
  \E t \in Tasks :
    \/ Submit(t) \/ Grant(t) \/ Revoke(t)
    \/ \E s \in States : Surrender(t, holder[t], s)

LifecycleSpec == LifecycleInit /\ [][LifecycleNext]_lifecycle
=============================================================================
