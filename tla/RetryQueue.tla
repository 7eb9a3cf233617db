----------------------------- MODULE RetryQueue -----------------------------
(***************************************************************************)
(* The Retrier of the order service: Submit runs a closure that releases   *)
(* the stock of an order and, if it fails, publishes a message to the      *)
(* retry queue; Run consumes the queue and runs a closure again.           *)
(*                                                                         *)
(* Closures live in the memory of the process, one per event type, and the *)
(* program has one event type: task holds the closure submitted last.      *)
(* Submit is called by concurrent dispatches of the outbox, which calls it *)
(* again until it has marked its message.  The consumer marks a message    *)
(* whatever its handler returns, and shares its group with the loop that   *)
(* handles the events of the other services.                               *)
(*                                                                         *)
(* An operator X_Fault is X with a plausible fault, for testing that a     *)
(* property notices it.                                                    *)
(***************************************************************************)
EXTENDS Consumer, FiniteSets

CONSTANTS
  Order,          \* orders whose stock is to be released
  MaxRetryCount,  \* maxRetryCount
  MaxUncommitted, \* bound: records marked before they have to be committed
  MaxEnds         \* bound: sessions ended, loops cancelled, processes killed,
                  \* messages Kafka refuses, and polls of the outbox rolled back

ASSUME RetryAssumption ==
  MaxRetryCount \in Nat /\ MaxUncommitted \in Nat /\ MaxEnds \in Nat

VARIABLES
  queue,     \* the partition of topic retry_queue
  dead,      \* messages in topic dead_letter_queue
  task,      \* the order whose closure is stored in tasks, or "none"
  calls,     \* executions of once: see Call
  session,   \* of Run's consumer: "open", "closing" (its context is done), "none",
             \* or "other": the group is in a session of HandleKafkaMessages
  alive,     \* the runner's context is not cancelled
  accepted,  \* orders for which Submit has returned nil
  released,  \* orders whose closure has succeeded
  lost,      \* lost[o]: why a message of o was first marked without effect, or "no"
  ends       \* counts towards MaxEnds

retryVars == <<queue, dead, task, calls, session, alive, accepted, released, lost, ends>>

\* The message; its counter is as large as it was when it was encoded.
Message == [order : Order, count : 0..(MaxRetryCount + 2)]

\* caller: who waits for once; runs: whose closure it is; at: before the call,
\* before the end of the wait, or before the return; ok: it will return nil.
Call == [caller : {"outbox", "queue"}, message : Message, runs : Order,
         at : {"calling", "waiting", "returning"}, ok : BOOLEAN]

Reason == {"foreign", "no_task", "cancelled", "publish"}

RetryTypeOK ==
  /\ queue \in Partition(Message)
  /\ dead \subseteq Message
  /\ task \in Order \cup {"none"}
  /\ calls \subseteq Call
  /\ session \in {"open", "closing", "none", "other"} /\ alive \in BOOLEAN
  /\ accepted \subseteq Order /\ released \subseteq Order
  /\ lost \in [Order -> Reason \cup {"no"}]
  /\ ends \in 0..MaxEnds

RetryInit ==
  /\ queue = NewPartition
  /\ dead = {} /\ task = "none" /\ calls = {}
  /\ session = "none" /\ alive \in BOOLEAN
  /\ accepted = {} /\ released = {} /\ lost = [o \in Order |-> "no"]
  /\ ends = 0

Goes(c, d) == calls' = (calls \ {c}) \cup {d}
LosesMessage(m, reason) ==
  lost' = [lost EXCEPT ![m.order] = IF @ = "no" THEN reason ELSE @]
Loses(c, reason) == IF c.caller = "queue" THEN LosesMessage(c.message, reason) ELSE UNCHANGED lost
-----------------------------------------------------------------------------
(* Callers of once. *)

\* Submit stores the closure and calls once; a new message counts from zero.
\* The outbox submits what it has not marked as sent, and so submits it again
\* after a poll that had it accepted was rolled back.
Submit(o) ==
  /\ alive
  /\ o \in accepted => ends < MaxEnds
  /\ \A c \in calls : c.caller = "outbox" => c.message.order # o
  /\ task' = o
  /\ calls' = calls \cup {[caller |-> "outbox", message |-> [order |-> o, count |-> 0],
                           runs |-> o, at |-> "calling", ok |-> FALSE]}
  /\ ends' = IF o \in accepted THEN ends + 1 ELSE ends
  /\ UNCHANGED <<queue, dead, session, alive, accepted, released, lost>>

\* What the counter of a decoded message is: it has no exported name, so JSON
\* never carries it.
Decoded_Exported(m) == m
Decoded(m) == [m EXCEPT !.count = 0]

Handling == {c \in calls : c.caller = "queue"}
Consuming == session \in {"open", "closing"}

\* The offset of a message that has been taken but not handled: unmarked.
Taken_Marked(p) == Mark(Deliver(p))
Taken(p) == Deliver(p)

\* Which message the handler's closure is for: that of the event type.
Loaded(m) == task

\* ConsumeClaim takes the next message, even when its session is closing (a
\* select with two ready cases); Run's handler looks its closure up.
Handle ==
  /\ Consuming /\ Handling = {} /\ HasNext(queue)
  /\ queue.marked <= MaxUncommitted
  /\ LET m == Decoded(queue.log[queue.position + 1]) IN
     IF Loaded(m) = "none"
     THEN /\ queue' = Mark(Deliver(queue))
          /\ LosesMessage(m, "no_task")
          /\ UNCHANGED calls
     ELSE /\ queue' = Taken(queue)
          /\ calls' = calls \cup {[caller |-> "queue", message |-> m,
                                   runs |-> Loaded(m), at |-> "calling", ok |-> FALSE]}
          /\ UNCHANGED lost
  /\ UNCHANGED <<dead, task, session, alive, accepted, released, ends>>
-----------------------------------------------------------------------------
(* once. *)

Succeed(c) ==
  /\ c.at = "calling"
  /\ released' = released \cup {c.runs}
  /\ Goes(c, [c EXCEPT !.at = "returning", !.ok = TRUE])
  /\ IF c.runs # c.message.order THEN Loses(c, "foreign") ELSE UNCHANGED lost
  /\ UNCHANGED <<queue, dead, task, session, alive, accepted, ends>>

Fail(c) ==
  /\ c.at = "calling"
  /\ Goes(c, [c EXCEPT !.at = "waiting"])
  /\ UNCHANGED <<queue, dead, task, session, alive, accepted, released, lost, ends>>

\* The context of the caller is done before the retry interval has passed.
CtxDone(c) == IF c.caller = "queue" THEN session = "closing" ELSE ~alive

StopWaiting(c) ==
  /\ c.at = "waiting" /\ CtxDone(c)
  /\ Goes(c, [c EXCEPT !.at = "returning"])
  /\ Loses(c, "cancelled")
  /\ UNCHANGED <<queue, dead, task, session, alive, accepted, released, ends>>

\* The counter is past the limit: the dead letter queue, if it can be reached.
GivesUp(c) == c.message.count > MaxRetryCount

Requeued(c) == [c.message EXCEPT !.count = @ + 1]

\* Otherwise the message goes to the end of the retry queue ...
Dispose(c) ==
  /\ c.at = "waiting"
  /\ IF GivesUp(c) THEN dead' \in {dead, dead \cup {c.message}} /\ UNCHANGED queue
     ELSE queue' = Append1(queue, Requeued(c)) /\ UNCHANGED dead
  /\ Goes(c, [c EXCEPT !.at = "returning", !.ok = TRUE])
  /\ UNCHANGED <<task, session, alive, accepted, released, lost, ends>>

\* ... unless Kafka does not take it.
FailToRepublish(c) ==
  /\ c.at = "waiting" /\ ~GivesUp(c) /\ ends < MaxEnds
  /\ ends' = ends + 1
  /\ Goes(c, [c EXCEPT !.at = "returning"])
  /\ Loses(c, "publish")
  /\ UNCHANGED <<queue, dead, task, session, alive, accepted, released>>

\* What the consumer does with a message whose handler has returned.
Settle(p, c) == IF c.caller = "queue" THEN Mark(p) ELSE p

Return(c) ==
  /\ c.at = "returning"
  /\ calls' = calls \ {c}
  /\ queue' = Settle(queue, c)
  /\ accepted' = IF c.caller = "outbox" /\ c.ok THEN accepted \cup {c.message.order}
                 ELSE accepted
  /\ UNCHANGED <<dead, task, session, alive, released, lost, ends>>

Once(c) ==
  \/ Succeed(c) \/ Fail(c) \/ StopWaiting(c)
  \/ Dispose(c) \/ FailToRepublish(c) \/ Return(c)
-----------------------------------------------------------------------------
(* Sessions and processes. *)

\* Subscribe calls Consume again until its context is done.  Consume locks the
\* group for the whole session; the loops of Run and of HandleKafkaMessages
\* both call it, and whichever finds the group free has it.
OpenSession ==
  /\ session = "none" /\ alive
  /\ session' \in {"open", "other"}
  /\ UNCHANGED <<queue, dead, task, calls, alive, accepted, released, lost, ends>>

EndSession(stays) ==
  /\ ends < MaxEnds
  /\ ends' = ends + 1
  /\ session' = IF Consuming THEN "closing" ELSE "none"
  /\ alive' = stays
  /\ UNCHANGED <<queue, dead, task, calls, accepted, released, lost>>

\* The group rebalances: Subscribe goes on with a new session.
Rebalance == session \in {"open", "other"} /\ EndSession(alive)

\* A sibling loop of the runner has failed and errgroup cancels the context of
\* them all, for good.
CancelLoops == alive /\ EndSession(FALSE)

CloseSession ==
  /\ session = "closing" /\ Handling = {}
  /\ session' = "none"
  /\ queue' = Rewind(Commit(queue))
  /\ UNCHANGED <<dead, task, calls, alive, accepted, released, lost, ends>>

AutoCommit ==
  /\ Consuming /\ queue.marked > 0
  /\ queue' = Commit(queue)
  /\ UNCHANGED <<dead, task, calls, session, alive, accepted, released, lost, ends>>

\* The process dies and is started again: the closures are gone.
Restart ==
  /\ ends < MaxEnds
  /\ ends' = ends + 1
  /\ calls' = {} /\ task' = "none" /\ session' = "none" /\ alive' = TRUE
  /\ queue' = Rewind(queue)
  /\ UNCHANGED <<dead, accepted, released, lost>>

RetryNext ==
  \/ \E o \in Order : Submit(o)
  \/ Handle
  \/ \E c \in calls : Once(c)
  \/ OpenSession \/ Rebalance \/ CancelLoops \/ CloseSession \/ AutoCommit \/ Restart

RetrySpec == RetryInit /\ [][RetryNext]_retryVars
-----------------------------------------------------------------------------
(* Properties. *)

Waiting(o) == \E m \in Kept(queue) : m.order = o
LostFor(o) == lost[o] # "no"

\* A release Submit has taken from the outbox is done, or its message will be
\* delivered again, or it was lost in one of the four ways the code has
\* (Reason): a crash at any other point keeps it, for a message is marked only
\* after it was published again.
AcceptedIsKept ==
  \A o \in accepted : o \in released \/ Waiting(o) \/ LostFor(o)

\* Nothing is ever given up: the counter does not survive the queue.
DeadLetterStaysEmpty == dead = {}
=============================================================================
