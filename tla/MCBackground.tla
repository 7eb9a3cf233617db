---------------------------- MODULE MCBackground ----------------------------
(***************************************************************************)
(* TLC instance of what runs behind the servers: the process, the retry    *)
(* queue, the delay queue and the outbox.  They share no state, so nothing *)
(* is lost by letting one of them run in a behaviour while the others rest.*)
(***************************************************************************)
EXTENDS RetryQueue, DelayQueue, Runtime

CONSTANTS
  Saved,  \* messages of an outbox
  Worker, NoWorker, BatchSize, MaxRetry, MaxRollback

VARIABLES
  awake,  \* the one that runs
  row, polling, batch, sentIDs, failedIDs, owner, delivered, failures, rollbacks

Polls == INSTANCE Outbox WITH Message <- Saved, phase <- polling

outboxVars == <<row, polling, batch, sentIDs, failedIDs, owner, delivered, failures, rollbacks>>

vars == <<awake, retryVars, delayVars, runtimeVars, outboxVars>>

\* What rests is in an initial state in which none of its steps is fair: a
\* cancelled runner, a clock at its bound, a service that is not deployed, an
\* empty outbox.
Init ==
  /\ awake \in {"retry", "delay", "runtime", "outbox"}
  /\ RetryInit /\ alive = (awake = "retry")
  /\ DelayInit /\ now = (IF awake = "delay" THEN 0 ELSE MaxTime)
  /\ RuntimeInit /\ Polls!Init
  /\ IF awake = "runtime" THEN phase = "wiring"
     ELSE phase = "absent" /\ service = CHOOSE s \in Service : TRUE

Next ==
  /\ UNCHANGED awake
  /\ \/ awake = "retry" /\ RetryNext /\ UNCHANGED <<delayVars, runtimeVars, outboxVars>>
     \/ awake = "delay" /\ DelayNext /\ UNCHANGED <<retryVars, runtimeVars, outboxVars>>
     \/ awake = "runtime" /\ RuntimeNext /\ UNCHANGED <<retryVars, delayVars, outboxVars>>
     \/ awake = "outbox" /\ Polls!Next /\ UNCHANGED <<retryVars, delayVars, runtimeVars>>

Spec == Init /\ [][Next]_vars
FairSpec == Spec /\ DelayFairness /\ RuntimeFairness /\ Polls!Fairness

TypeOK == RetryTypeOK /\ DelayTypeOK /\ RuntimeTypeOK

\* The liveness of AtLeastOnce: a saved message is finally sent or given up,
\* whatever deadlocks, rollbacks and other pollers do (Outbox.Run).
PromiseLiveness == Polls!PromiseLiveness
=============================================================================
