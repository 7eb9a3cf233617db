------------------------------- MODULE Outbox -------------------------------
(***************************************************************************)
(* internal/pkg/outbox: the transactional outbox every service embeds.     *)
(* A service saves a message in the transaction of its business change;    *)
(* a poller lists the due messages, dispatches them concurrently and, in   *)
(* the transaction that listed them, marks the failures and then the       *)
(* successes.  Listing takes no row lock, so during a rolling update the   *)
(* pollers of the old and of the new pod work on the same rows: a Worker   *)
(* is one running poller.  Updating a row locks it until the transaction   *)
(* ends (PostgreSQL, READ COMMITTED), and two pollers may deadlock on it.  *)
(*                                                                         *)
(* An operator X_Fault is X with a plausible fault; no specification uses  *)
(* it, it serves to test that a property notices the fault.                *)
(***************************************************************************)
EXTENDS Naturals, FiniteSets

CONSTANTS
  Message,     \* identities of the messages that may be saved
  Worker,      \* pollers that may run at the same time
  NoWorker,    \* the owner of a row nobody has locked
  BatchSize,   \* outboxBatchSize
  MaxRetry,    \* outboxMaxRetryCount
  MaxRollback  \* bound: polls lost to a crash or a failed transaction

ASSUME OutboxAssumption ==
  /\ IsFiniteSet(Worker) /\ Worker # {} /\ NoWorker \notin Worker
  /\ BatchSize \in Nat \ {0}
  /\ MaxRetry \in Nat \ {0}
  /\ MaxRollback \in Nat

VARIABLES
  row,        \* row[m]: the committed outbox row of m
  phase,      \* phase[w]: "idle", "dispatch" or "mark"
  batch,      \* batch[w]: listed by w, its dispatch not yet returned
  sentIDs,    \* sentIDs[w]: dispatched by w with success in this poll
  failedIDs,  \* failedIDs[w]: dispatched by w with an error in this poll
  owner,      \* owner[m]: the poller whose transaction has locked the row of m
  delivered,  \* history: messages whose dispatch has taken effect
  failures,   \* history: failures[m] dispatches of m returned an error
  rollbacks   \* polls lost so far, for the bound

vars == <<row, phase, batch, sentIDs, failedIDs, owner, delivered, failures, rollbacks>>
poll == <<phase, batch, sentIDs, failedIDs, owner>>
history == <<delivered, failures>>

Status == {"absent", "unsent", "sent"}

Init ==
  /\ row = [m \in Message |-> [status |-> "absent", retries |-> 0, due |-> FALSE]]
  /\ phase = [w \in Worker |-> "idle"]
  /\ batch = [w \in Worker |-> {}]
  /\ sentIDs = [w \in Worker |-> {}]
  /\ failedIDs = [w \in Worker |-> {}]
  /\ owner = [m \in Message |-> NoWorker]
  /\ delivered = {}
  /\ failures = [m \in Message |-> 0]
  /\ rollbacks = 0
-----------------------------------------------------------------------------
\* Save commits with the business transaction.  A new row is due at once.
Save(m) ==
  /\ row[m].status = "absent"
  /\ row' = [row EXCEPT ![m] = [status |-> "unsent", retries |-> 0, due |-> TRUE]]
  /\ UNCHANGED <<poll, history, rollbacks>>

\* next_retry_at of a row whose dispatch failed passes.
BecomeDue(m) ==
  /\ row[m].status = "unsent" /\ ~row[m].due
  /\ row' = [row EXCEPT ![m].due = TRUE]
  /\ UNCHANGED <<poll, history, rollbacks>>

\* ListDueOutboxMessages.  A row another transaction has updated but not yet
\* committed is listed with its committed content.
Due_NoLimit == {m \in Message : row[m].status = "unsent" /\ row[m].due}
Due_OneTooFew == {m \in Due_NoLimit : row[m].retries + 1 < MaxRetry}

Due == {m \in Message : /\ row[m].status = "unsent"
                        /\ row[m].retries < MaxRetry
                        /\ row[m].due}

\* The batch: every due row if they fit, else BatchSize of them.  The order
\* next_retry_at ASC is abstracted to any choice.
Batches(D) == IF IsFiniteSet(D) /\ Cardinality(D) <= BatchSize
              THEN {D}
              ELSE {B \in SUBSET D : IsFiniteSet(B) /\ Cardinality(B) = BatchSize}

\* A tick of Run: open the transaction and list.  (An empty list changes nothing.)
Poll(w) ==
  /\ phase[w] = "idle" /\ Due # {}
  /\ \E B \in Batches(Due) : batch' = [batch EXCEPT ![w] = B]
  /\ phase' = [phase EXCEPT ![w] = "dispatch"]
  /\ UNCHANGED <<row, sentIDs, failedIDs, owner, history, rollbacks>>

\* markID: the goroutine of m appends its id to one of the two lists.
MarkID_AlwaysSent(w, m, success) ==
  /\ sentIDs' = [sentIDs EXCEPT ![w] = @ \cup {m}]
  /\ failedIDs' = failedIDs

MarkID(w, m, success) ==
  /\ sentIDs' = IF success THEN [sentIDs EXCEPT ![w] = @ \cup {m}] ELSE sentIDs
  /\ failedIDs' = IF success THEN failedIDs ELSE [failedIDs EXCEPT ![w] = @ \cup {m}]

\* The dispatch of m returns without error.
DispatchSucceeds(w, m) ==
  /\ m \in batch[w]
  /\ batch' = [batch EXCEPT ![w] = @ \ {m}]
  /\ MarkID(w, m, TRUE)
  /\ delivered' = delivered \cup {m}
  /\ UNCHANGED <<row, phase, owner, failures, rollbacks>>

\* The dispatch of m returns an error; the effect may still have taken place
\* (a broker or a database that answered too late).
DispatchFails(w, m) ==
  /\ m \in batch[w]
  /\ batch' = [batch EXCEPT ![w] = @ \ {m}]
  /\ MarkID(w, m, FALSE)
  /\ failures' = [failures EXCEPT ![m] = @ + 1]
  /\ delivered' \in {delivered, delivered \cup {m}}
  /\ UNCHANGED <<row, phase, owner, rollbacks>>

\* wg.Wait returns: every goroutine has marked its id.
AllDispatched(w) ==
  /\ phase[w] = "dispatch" /\ batch[w] = {}
  /\ phase' = [phase EXCEPT ![w] = "mark"]
  /\ UNCHANGED <<row, batch, sentIDs, failedIDs, owner, history, rollbacks>>

Held(w) == {m \in Message : owner[m] = w}

\* The rows the UPDATE in progress has still to lock: MarkOutboxMessagesFailed
\* comes first, MarkOutboxMessagesSent after it.
Wanted(w) ==
  IF phase[w] # "mark" THEN {}
  ELSE IF failedIDs[w] \subseteq Held(w) THEN sentIDs[w] \ Held(w)
  ELSE failedIDs[w] \ Held(w)

LockRow(w, m) ==
  /\ m \in Wanted(w) /\ owner[m] = NoWorker
  /\ owner' = [owner EXCEPT ![m] = w]
  /\ UNCHANGED <<row, phase, batch, sentIDs, failedIDs, history, rollbacks>>

\* The end of w's poll, whatever its outcome: its lists are gone.
EndPoll(w) ==
  /\ phase' = [phase EXCEPT ![w] = "idle"]
  /\ batch' = [batch EXCEPT ![w] = {}]
  /\ sentIDs' = [sentIDs EXCEPT ![w] = {}]
  /\ failedIDs' = [failedIDs EXCEPT ![w] = {}]

\* The row locks after w's transaction ended.
Released(w) == [m \in Message |-> IF owner[m] = w THEN NoWorker ELSE owner[m]]

\* A row after the UPDATEs of w: each works on the latest committed version.
MarkFailed_Decrements(r) == [status |-> r.status, retries |-> r.retries - 1, due |-> FALSE]
MarkFailed_Unsends(r) == [status |-> "unsent", retries |-> r.retries + 1, due |-> FALSE]
MarkSent_Counts(r) == [status |-> "sent", retries |-> r.retries + 1, due |-> r.due]

MarkFailed(r) == [status |-> r.status, retries |-> r.retries + 1, due |-> FALSE]
MarkSent(r)   == [r EXCEPT !.status = "sent"]

Commit(w) ==
  /\ phase[w] = "mark" /\ Wanted(w) = {}
  /\ row' = [m \in Message |-> IF m \in failedIDs[w] THEN MarkFailed(row[m])
                               ELSE IF m \in sentIDs[w] THEN MarkSent(row[m])
                               ELSE row[m]]
  /\ EndPoll(w)
  /\ owner' = Released(w)
  /\ UNCHANGED <<history, rollbacks>>

\* In S everybody may wait for a row that somebody else in S has locked.
Deadlocked(S) == \A v \in S : \E m \in Wanted(v) : owner[m] \in S \ {v}

\* PostgreSQL breaks a deadlock by aborting one of its transactions, here w,
\* and grants the row that v was waiting for.
DeadlockAbort(w) ==
  /\ \E S \in SUBSET Worker : \E v \in S : \E m \in Wanted(v) :
       /\ w \in S /\ Deadlocked(S) /\ owner[m] = w
       /\ owner' = [Released(w) EXCEPT ![m] = v]
  /\ EndPoll(w)
  /\ UNCHANGED <<row, history, rollbacks>>

\* The process dies, or a statement or the COMMIT fails: everything w did in
\* its transaction is undone, the effects of its dispatches are not.
Rollback(w) ==
  /\ phase[w] # "idle" /\ rollbacks < MaxRollback
  /\ rollbacks' = rollbacks + 1
  /\ EndPoll(w)
  /\ owner' = Released(w)
  /\ UNCHANGED <<row, history>>
-----------------------------------------------------------------------------
Step(w) ==
  \/ Poll(w) \/ AllDispatched(w) \/ Commit(w) \/ DeadlockAbort(w)
  \/ \E m \in Message : DispatchSucceeds(w, m) \/ DispatchFails(w, m) \/ LockRow(w, m)

Next ==
  \/ \E m \in Message : Save(m) \/ BecomeDue(m)
  \/ \E w \in Worker : Step(w) \/ Rollback(w)

Spec == Init /\ [][Next]_vars

\* Run polls on a ticker for ever, a dispatch returns, and time passes.
Fairness ==
  /\ \A w \in Worker : WF_vars(Step(w))
  /\ \A m \in Message : WF_vars(BecomeDue(m))

FairSpec == Spec /\ Fairness
-----------------------------------------------------------------------------
TypeOK ==
  /\ row \in [Message -> [status : Status, retries : Nat, due : BOOLEAN]]
  /\ phase \in [Worker -> {"idle", "dispatch", "mark"}]
  /\ batch \in [Worker -> SUBSET Message]
  /\ sentIDs \in [Worker -> SUBSET Message]
  /\ failedIDs \in [Worker -> SUBSET Message]
  /\ owner \in [Message -> Worker \cup {NoWorker}]
  /\ delivered \in SUBSET Message
  /\ failures \in [Message -> Nat]
  /\ rollbacks \in 0..MaxRollback

\* No message is lost by the bookkeeping: a row marked sent has been dispatched
\* with effect, whichever poller marked it and whatever was rolled back.
SentWasDelivered == \A m \in Message : row[m].status = "sent" => m \in delivered

\* The retry limit is checked when a row is listed and counted when the poll
\* commits, so overlapping pollers exceed it, each by one at most.
RetryOverrunBounded ==
  \A m \in Message : row[m].retries <= MaxRetry + Cardinality(Worker) - 1

\* Retries are never counted without a failed dispatch: a message is given up
\* only after at least MaxRetry dispatches of it failed.
RetriesAreFailures == \A m \in Message : row[m].retries <= failures[m]

\* The abstract outcome of a message, read off its row.
OutcomeOf(r) == IF r.status # "unsent" THEN r.status
                ELSE IF r.retries >= MaxRetry THEN "givenUp" ELSE "accepted"

Promise == INSTANCE AtLeastOnce
             WITH outcome <- [m \in Message |-> OutcomeOf(row[m])]

\* The outbox keeps the promise of AtLeastOnce, its safety ...
PromiseSafety == Promise!Spec

\* ... and its liveness: a saved message does not stay due for ever, whatever
\* the other pollers, rollbacks and deadlocks do to the polls that list it.
PromiseLiveness == Promise!Liveness
=============================================================================
