----------------------------- MODULE DelayQueue -----------------------------
(***************************************************************************)
(* The delay worker: SendMessage publishes a message with the time it is   *)
(* due, and the worker's consumer sends it on when it is.  The consumer    *)
(* pauses its partition for a message that is not due and goes on with     *)
(* whatever the client has fetched before; resuming fetches what follows,  *)
(* never the message itself.                                               *)
(*                                                                         *)
(* No runner of the program starts the worker; this module is the library  *)
(* as it behaves when one does.                                            *)
(*                                                                         *)
(* An operator X_Fault is X with a plausible fault, for testing that a     *)
(* property notices it.                                                    *)
(***************************************************************************)
EXTENDS Consumer, FiniteSets, TLC

CONSTANTS
  Delayed,   \* messages: each is sent once
  Delay,     \* the delay, in ticks
  MaxTime,   \* bound of the clock
  MaxRuns,   \* bound: sessions
  MaxFails   \* bound: messages that cannot be sent on

ASSUME DelayAssumption ==
  /\ Delay \in Nat \ {0} /\ MaxTime \in Nat
  /\ MaxRuns \in Nat /\ MaxFails \in Nat

VARIABLES
  now,       \* the clock
  published, \* the messages sent to delay_queue, in order
  topic,     \* the partition of topic delay_queue
  fetched,   \* records the client has fetched for the session
  paused,    \* the partition is paused
  timer,     \* when delayTimer fires, 0 if it is nil or has fired
  running,   \* Run is in Consume
  runs,      \* sessions so far
  sending,   \* the message sent on but not yet marked, or "none"
  sent,      \* messages sent on to their topic
  skipped,   \* messages this session has passed over because they were not due
  fails      \* counts towards MaxFails

delayVars == <<now, published, topic, fetched, paused, timer, running, runs, sending, sent, skipped, fails>>

DelayMessage == [message : Delayed, due : 1..MaxTime]

DelayTypeOK ==
  /\ now \in 0..MaxTime
  /\ published \in Seq(Delayed)
  /\ topic \in Partition(DelayMessage)
  /\ fetched \in topic.position..Len(topic.log)
  /\ paused \in BOOLEAN /\ running \in BOOLEAN
  /\ timer \in 0..MaxTime
  /\ runs \in 0..MaxRuns /\ fails \in 0..MaxFails
  /\ sending \in Delayed \cup {"none"}
  /\ sent \subseteq Delayed /\ skipped \subseteq Delayed

DelayInit ==
  /\ now \in {0, MaxTime}
  /\ published = <<>> /\ topic = NewPartition /\ fetched = 0
  /\ paused = FALSE /\ timer = 0
  /\ running = FALSE /\ runs = 0
  /\ sending = "none" /\ sent = {} /\ skipped = {} /\ fails = 0

Tick ==
  /\ now < MaxTime
  /\ now' = now + 1
  /\ UNCHANGED <<published, topic, fetched, paused, timer, running, runs, sending, sent, skipped, fails>>

\* SendMessage, by the producer: the bound leaves time for what it delays.
SendMessage(m) ==
  /\ m \notin Range(published) /\ now + Delay <= MaxTime
  /\ published' = Append(published, m)
  /\ topic' = Append1(topic, [message |-> m, due |-> now + Delay])
  /\ UNCHANGED <<now, fetched, paused, timer, running, runs, sending, sent, skipped, fails>>

\* Run joins the group.  Pauses and timers are those of a session.
Run ==
  /\ ~running /\ runs < MaxRuns
  /\ running' = TRUE /\ runs' = runs + 1
  /\ fetched' = 0 /\ paused' = FALSE /\ timer' = 0 /\ skipped' = {}
  /\ UNCHANGED <<now, published, topic, sending, sent, fails>>

\* The client fetches ahead of the handler, but not from a paused partition.
Fetch ==
  /\ running /\ ~paused /\ fetched < Len(topic.log)
  /\ fetched' = Len(topic.log)
  /\ UNCHANGED <<now, published, topic, paused, timer, running, runs, sending, sent, skipped, fails>>
-----------------------------------------------------------------------------
(* ConsumeClaim. *)

Ready == running /\ sending = "none" /\ topic.position < fetched
Next1 == topic.log[topic.position + 1]
IsDue(r) == r.due <= now

\* The timer of an earlier message is forgotten.
NewTimer_None(r) == timer
NewTimer(r) == r.due

\* Not due: a timer, a pause, and the message is passed over unmarked.
PassOver ==
  /\ Ready /\ ~IsDue(Next1)
  /\ timer' = NewTimer(Next1) /\ paused' = TRUE
  /\ topic' = Deliver(topic)
  /\ skipped' = skipped \cup {Next1.message}
  /\ UNCHANGED <<now, published, fetched, running, runs, sending, sent, fails>>

SendOn ==
  /\ Ready /\ IsDue(Next1)
  /\ sent' = sent \cup {Next1.message}
  /\ sending' = Next1.message
  /\ topic' = Deliver(topic)
  /\ UNCHANGED <<now, published, fetched, paused, timer, running, runs, skipped, fails>>

MarkSent ==
  /\ sending # "none"
  /\ sending' = "none"
  /\ topic' = Mark(topic)
  /\ UNCHANGED <<now, published, fetched, paused, timer, running, runs, sent, skipped, fails>>

\* What becomes of the partition when a message cannot be sent on: unmarked.
AfterFailure_Marks(p) == Mark(p)
AfterFailure(p) == p

FailToSendOn ==
  /\ Ready /\ IsDue(Next1) /\ fails < MaxFails
  /\ fails' = fails + 1
  /\ topic' = AfterFailure(Deliver(topic))
  /\ UNCHANGED <<now, published, fetched, paused, timer, running, runs, sending, sent, skipped>>

\* Where the client goes on when the partition is resumed: what comes next.
ResumeAt_Rewinds == Rewind(topic)
ResumeAt == topic

TimerFires ==
  /\ running /\ sending = "none" /\ timer # 0 /\ timer <= now
  /\ timer' = 0 /\ paused' = FALSE
  /\ topic' = ResumeAt
  /\ UNCHANGED <<now, published, fetched, running, runs, sending, sent, skipped, fails>>
-----------------------------------------------------------------------------
\* The session ends with its marks committed, and Run with it: it does not loop.
EndRun ==
  /\ running /\ sending = "none"
  /\ running' = FALSE
  /\ topic' = Rewind(Commit(topic)) /\ fetched' = 0
  /\ paused' = FALSE /\ timer' = 0
  /\ UNCHANGED <<now, published, runs, sending, sent, skipped, fails>>

\* The process dies: the marks of the last second are not committed.
Die ==
  /\ running
  /\ running' = FALSE /\ sending' = "none"
  /\ topic' = Rewind(topic) /\ fetched' = 0
  /\ paused' = FALSE /\ timer' = 0
  /\ UNCHANGED <<now, published, runs, sent, skipped, fails>>

CommitMarks ==
  /\ running /\ topic.marked > 0
  /\ topic' = Commit(topic) /\ fetched' = fetched - topic.marked
  /\ UNCHANGED <<now, published, paused, timer, running, runs, sending, sent, skipped, fails>>

DelayNext ==
  \/ Tick \/ (\E m \in Delayed : SendMessage(m)) \/ Run \/ Fetch
  \/ PassOver \/ SendOn \/ MarkSent \/ FailToSendOn \/ TimerFires
  \/ EndRun \/ Die \/ CommitMarks

DelaySpec == DelayInit /\ [][DelayNext]_delayVars

\* Time passes and the worker's loop goes on.
DelayFairness ==
  /\ WF_delayVars(Tick) /\ WF_delayVars(TimerFires) /\ WF_delayVars(MarkSent)
  /\ WF_delayVars(Fetch) /\ WF_delayVars(PassOver \/ SendOn)
-----------------------------------------------------------------------------
(* Properties. *)

Redelivered(m) == \E r \in Kept(topic) : r.message = m

\* A message that is neither sent on nor delivered again by the next session
\* is behind one that was sent: marking goes by offset, so the mark of the
\* later one took along what was passed over or failed.
LostBehindALater ==
  \A i \in DOMAIN published :
    \/ published[i] \in sent \/ Redelivered(published[i])
    \/ \E j \in DOMAIN published : j > i /\ published[j] \in sent

\* What a session has passed over it never sends on: the timer resumes the
\* fetching, it does not bring the message back.
PassedOverWaits ==
  [][\A m \in skipped : m \in sent' => m \in sent]_delayVars

\* A paused partition is always resumed.
PauseEnds == paused ~> ~paused
=============================================================================
