-------------------------- MODULE BackgroundProofs --------------------------
(***************************************************************************)
(* Proofs about what runs behind the servers, for any orders, messages,    *)
(* services and limits: the retry queue, the delay queue, the process, and *)
(* the instance that runs them beside each other.                          *)
(*                                                                         *)
(* Of each the types.  Of the retry queue that no message is ever given    *)
(* up, since none comes back with a counter, and that an accepted release  *)
(* is kept unless it was lost in a known way.  Of the delay queue that a   *)
(* message it loses is behind one that was sent, and that what a session   *)
(* has passed over it never sends.  Of the process that a signal alone     *)
(* does not end one with a runner, and that a failed runner leaves the     *)
(* listeners alone.                                                        *)
(***************************************************************************)
EXTENDS MCBackground, SequenceTheorems, TLAPS
-----------------------------------------------------------------------------
(* A partition. *)

LEMMA AppendType ==
  ASSUME NEW R, NEW p \in Partition(R), NEW r \in R
  PROVE  /\ Append1(p, r) \in Partition(R)
         /\ Append1(p, r).position = p.position /\ Append1(p, r).marked = p.marked
<1>1. /\ p.log \in Seq(R) /\ p.position \in Nat /\ p.marked \in Nat
      /\ p = [log |-> p.log, position |-> p.position, marked |-> p.marked]
  BY DEF Partition
<1>2. Append(p.log, r) \in Seq(R) /\ Len(Append(p.log, r)) = Len(p.log) + 1
  BY <1>1
<1>3. Append1(p, r) = [log |-> Append(p.log, r), position |-> p.position, marked |-> p.marked]
  BY <1>1 DEF Append1
<1>4. p.marked <= p.position /\ p.position <= Len(p.log)
  BY DEF Partition
<1>5. p.position <= Len(p.log) + 1
  BY <1>1, <1>4
<1> QED BY <1>1, <1>2, <1>3, <1>4, <1>5 DEF Partition

LEMMA DeliverType ==
  ASSUME NEW R, NEW p \in Partition(R), HasNext(p)
  PROVE  /\ Deliver(p) \in Partition(R) /\ p.log[p.position + 1] \in R
         /\ Mark(Deliver(p)) \in Partition(R)
<1>1. /\ p.log \in Seq(R) /\ p.position \in Nat /\ p.marked \in Nat
      /\ p = [log |-> p.log, position |-> p.position, marked |-> p.marked]
      /\ p.marked <= p.position /\ p.position < Len(p.log) /\ Len(p.log) \in Nat
  BY DEF Partition, HasNext
<1>2. Deliver(p) = [log |-> p.log, position |-> p.position + 1, marked |-> p.marked]
  BY <1>1 DEF Deliver
<1>3. p.position + 1 \in Nat /\ p.marked <= p.position + 1 /\ p.position + 1 <= Len(p.log)
  BY <1>1
<1>4. Deliver(p) \in Partition(R)
  BY <1>1, <1>2, <1>3 DEF Partition
<1>5. Mark(Deliver(p)) = [log |-> p.log, position |-> p.position + 1, marked |-> p.position + 1]
  BY <1>2 DEF Mark
<1>6. Mark(Deliver(p)) \in Partition(R)
  BY <1>1, <1>3, <1>5 DEF Partition
<1>7. p.log[p.position + 1] \in R
  BY <1>1, <1>3
<1> QED BY <1>4, <1>6, <1>7

LEMMA MarkType ==
  ASSUME NEW R, NEW p \in Partition(R)
  PROVE  Mark(p) \in Partition(R)
BY DEF Partition, Mark

LEMMA RewindType ==
  ASSUME NEW R, NEW p \in Partition(R)
  PROVE  Rewind(p) \in Partition(R)
<1>1. p.log \in Seq(R) /\ Len(p.log) \in Nat
  BY DEF Partition
<1>2. p \in [log : Seq(R), position : Nat, marked : Nat]
  BY DEF Partition
<1>3. /\ Rewind(p) \in [log : Seq(R), position : Nat, marked : Nat]
      /\ Rewind(p).log = p.log /\ Rewind(p).position = 0 /\ Rewind(p).marked = 0
  BY <1>2 DEF Rewind
<1> QED BY <1>1, <1>3 DEF Partition

LEMMA CommitType ==
  ASSUME NEW R, NEW p \in Partition(R)
  PROVE  Commit(p) \in Partition(R)
<1>1. /\ p.log \in Seq(R) /\ p.position \in Nat /\ p.marked \in Nat /\ Len(p.log) \in Nat
      /\ p.marked <= p.position /\ p.position <= Len(p.log)
  BY DEF Partition
<1> DEFINE rest == SubSeq(p.log, p.marked + 1, Len(p.log))
<1>2. rest \in Seq(R) /\ Len(rest) = Len(p.log) - p.marked
  BY <1>1
<1>3. p.position - p.marked \in Nat /\ p.position - p.marked <= Len(rest) /\ 0 <= p.position - p.marked
  BY <1>1, <1>2
<1> HIDE DEF rest
<1>4. [log |-> rest, position |-> p.position - p.marked, marked |-> 0] \in Partition(R)
  BY <1>2, <1>3 DEF Partition
<1> QED BY <1>4 DEF Commit, rest

LEMMA NewPartitionType ==
  ASSUME NEW R
  PROVE  NewPartition \in Partition(R)
BY DEF NewPartition, Partition
LEMMA PartitionShape ==
  ASSUME NEW R, NEW p \in Partition(R)
  PROVE  /\ p.log \in Seq(R) /\ Len(p.log) \in Nat
         /\ p.position \in Nat /\ p.marked \in Nat
         /\ p.marked <= p.position /\ p.position <= Len(p.log)
         /\ p = [log |-> p.log, position |-> p.position, marked |-> p.marked]
BY DEF Partition

LEMMA DeliverShape ==
  ASSUME NEW R, NEW p \in Partition(R)
  PROVE  /\ Deliver(p).log = p.log /\ Deliver(p).marked = p.marked
         /\ Deliver(p).position = p.position + 1
BY PartitionShape DEF Deliver

LEMMA MarkShape ==
  ASSUME NEW R, NEW p \in Partition(R)
  PROVE  /\ Mark(p).log = p.log /\ Mark(p).position = p.position
         /\ Mark(p).marked = p.position
BY PartitionShape DEF Mark

LEMMA RewindShape ==
  ASSUME NEW R, NEW p \in Partition(R)
  PROVE  /\ Rewind(p).log = p.log /\ Rewind(p).position = 0 /\ Rewind(p).marked = 0
BY PartitionShape DEF Rewind

LEMMA AppendShape ==
  ASSUME NEW R, NEW p \in Partition(R), NEW r \in R
  PROVE  /\ Append1(p, r).position = p.position /\ Append1(p, r).marked = p.marked
         /\ Len(Append1(p, r).log) = Len(p.log) + 1
         /\ \A i \in 1..Len(p.log) : Append1(p, r).log[i] = p.log[i]
         /\ Append1(p, r).log[Len(p.log) + 1] = r
<1>1. p.log \in Seq(R)
  BY PartitionShape
<1>2. /\ Append1(p, r).log = Append(p.log, r)
      /\ Append1(p, r).position = p.position /\ Append1(p, r).marked = p.marked
  BY DEF Partition, Append1
<1> QED BY <1>1, <1>2

LEMMA CommitShape ==
  ASSUME NEW R, NEW p \in Partition(R)
  PROVE  /\ Commit(p).position = p.position - p.marked /\ Commit(p).marked = 0
         /\ Len(Commit(p).log) = Len(p.log) - p.marked
         /\ \A i \in 1..Len(Commit(p).log) : Commit(p).log[i] = p.log[i + p.marked]
<1>1. /\ p.log \in Seq(R) /\ Len(p.log) \in Nat /\ p.marked \in Nat /\ p.marked <= Len(p.log)
  BY PartitionShape
<1> DEFINE rest == SubSeq(p.log, p.marked + 1, Len(p.log))
<1>2. /\ Len(rest) = IF p.marked + 1 <= Len(p.log) THEN Len(p.log) - (p.marked + 1) + 1 ELSE 0
      /\ \A i \in 1..(Len(p.log) - (p.marked + 1) + 1) : rest[i] = p.log[p.marked + 1 + i - 1]
  <2>1. \A i \in (p.marked + 1)..Len(p.log) : p.log[i] \in R
    BY <1>1
  <2>2. p.marked + 1 \in Int /\ Len(p.log) \in Int
    BY <1>1
  <2> QED BY <2>1, <2>2, SubSeqProperties
<1>3. Len(rest) = Len(p.log) - p.marked
  BY <1>1, <1>2
<1>4. \A i \in 1..Len(rest) :
        i \in 1..(Len(p.log) - (p.marked + 1) + 1) /\ p.marked + 1 + i - 1 = i + p.marked
  BY <1>1, <1>3
<1>5. \A i \in 1..Len(rest) : rest[i] = p.log[i + p.marked]
  BY <1>2, <1>4
<1> HIDE DEF rest
<1> QED BY <1>3, <1>5 DEF Commit, rest
-----------------------------------------------------------------------------
(* The retry queue: the types, and that every message in hand counts from zero. *)

CountsFromZero == \A c \in calls : c.message.count = 0

RetryInv == RetryTypeOK /\ CountsFromZero /\ DeadLetterStaysEmpty

LEMMA RetryInvInit == RetryInit => RetryInv
BY NewPartitionType, RetryAssumption
   DEF RetryInit, RetryInv, RetryTypeOK, CountsFromZero, DeadLetterStaysEmpty

LEMMA DecodedType ==
  ASSUME NEW m \in Message
  PROVE  Decoded(m) \in Message /\ Decoded(m).count = 0 /\ Decoded(m).order = m.order
<1>1. 0 \in 0..(MaxRetryCount + 2)
  BY RetryAssumption
<1> QED BY <1>1 DEF Decoded, Message

\* A step that only replaces a call by one with the same message.
LEMMA GoesType ==
  ASSUME RetryInv, NEW c \in calls, NEW d \in Call, d.message = c.message, Goes(c, d)
  PROVE  calls' \subseteq Call /\ CountsFromZero'
BY DEF RetryInv, RetryTypeOK, CountsFromZero, Goes

LEMMA LosesType ==
  ASSUME RetryInv, NEW m \in Message, NEW reason \in Reason, LosesMessage(m, reason)
  PROVE  lost' \in [Order -> Reason \cup {"no"}]
BY DEF RetryInv, RetryTypeOK, LosesMessage

LEMMA LosesCallType ==
  ASSUME RetryInv, NEW c \in calls, NEW reason \in Reason, Loses(c, reason)
  PROVE  lost' \in [Order -> Reason \cup {"no"}]
<1>1. c.message \in Message
  BY DEF RetryInv, RetryTypeOK, Call
<1> QED BY <1>1, LosesType DEF Loses, RetryInv, RetryTypeOK

LEMMA RetryInvOnce ==
  ASSUME RetryInv, NEW c \in calls, Once(c)
  PROVE  RetryInv'
<1> USE DEF RetryInv
<1>1. /\ c \in Call /\ c.message \in Message /\ c.runs \in Order
      /\ c.message.count = 0 /\ c.message.order \in Order
  BY DEF RetryTypeOK, Call, CountsFromZero, Message
<1>2. ASSUME NEW a \in {"waiting", "returning"}, NEW ok \in BOOLEAN
      PROVE  /\ [c EXCEPT !.at = a, !.ok = ok] \in Call /\ [c EXCEPT !.at = a] \in Call
             /\ [c EXCEPT !.at = a, !.ok = ok].message = c.message
             /\ [c EXCEPT !.at = a].message = c.message
  BY <1>1 DEF Call
<1>3. CASE Succeed(c)
  <2>1. calls' \subseteq Call /\ CountsFromZero'
    BY <1>2, <1>3, GoesType DEF Succeed
  <2>2. lost' \in [Order -> Reason \cup {"no"}]
    BY <1>3, LosesCallType DEF Succeed, Reason, RetryTypeOK
  <2> QED BY <1>1, <1>3, <2>1, <2>2 DEF Succeed, RetryTypeOK, DeadLetterStaysEmpty
<1>4. CASE Fail(c)
  <2>1. calls' \subseteq Call /\ CountsFromZero'
    BY <1>2, <1>4, GoesType DEF Fail
  <2> QED BY <1>4, <2>1 DEF Fail, RetryTypeOK, DeadLetterStaysEmpty
<1>5. CASE StopWaiting(c)
  <2>1. calls' \subseteq Call /\ CountsFromZero'
    BY <1>2, <1>5, GoesType DEF StopWaiting
  <2>2. lost' \in [Order -> Reason \cup {"no"}]
    BY <1>5, LosesCallType DEF StopWaiting, Reason
  <2> QED BY <1>5, <2>1, <2>2 DEF StopWaiting, RetryTypeOK, DeadLetterStaysEmpty
<1>6. CASE Dispose(c)
  <2>1. calls' \subseteq Call /\ CountsFromZero'
    BY <1>2, <1>6, GoesType DEF Dispose
  <2>2. ~GivesUp(c)
    BY <1>1, RetryAssumption DEF GivesUp
  <2>3. Requeued(c) \in Message
    <3>1. c.message.count + 1 \in 0..(MaxRetryCount + 2)
      BY <1>1, RetryAssumption
    <3> QED BY <1>1, <3>1 DEF Requeued, Message
  <2>4. queue' \in Partition(Message)
    BY <1>6, <2>2, <2>3, AppendType DEF Dispose, RetryTypeOK
  <2> QED BY <1>6, <2>1, <2>2, <2>4 DEF Dispose, RetryTypeOK, DeadLetterStaysEmpty
<1>7. CASE FailToRepublish(c)
  <2>1. calls' \subseteq Call /\ CountsFromZero'
    BY <1>2, <1>7, GoesType DEF FailToRepublish
  <2>2. lost' \in [Order -> Reason \cup {"no"}]
    BY <1>7, LosesCallType DEF FailToRepublish, Reason
  <2>3. ends' \in 0..MaxEnds
    BY <1>7, RetryAssumption DEF FailToRepublish, RetryTypeOK
  <2> QED BY <1>7, <2>1, <2>2, <2>3 DEF FailToRepublish, RetryTypeOK, DeadLetterStaysEmpty
<1>8. CASE Return(c)
  <2>1. queue' \in Partition(Message)
    BY <1>8, MarkType DEF Return, Settle, RetryTypeOK
  <2> QED BY <1>1, <1>8, <2>1 DEF Return, RetryTypeOK, CountsFromZero, DeadLetterStaysEmpty
<1> QED BY <1>3, <1>4, <1>5, <1>6, <1>7, <1>8 DEF Once

LEMMA RetryInvStep ==
  ASSUME RetryInv, [RetryNext]_retryVars
  PROVE  RetryInv'
<1> USE DEF RetryInv
<1>1. ASSUME NEW o \in Order, Submit(o) PROVE RetryInv'
  <2> DEFINE c == [caller |-> "outbox", message |-> [order |-> o, count |-> 0],
                   runs |-> o, at |-> "calling", ok |-> FALSE]
  <2>1. c \in Call /\ c.message.count = 0
    BY RetryAssumption DEF Call, Message
  <2>2. calls' = calls \cup {c}
    BY <1>1 DEF Submit
  <2> HIDE DEF c
  <2>3. calls' \subseteq Call /\ CountsFromZero'
    BY <2>1, <2>2 DEF RetryTypeOK, CountsFromZero
  <2>4. ends' \in 0..MaxEnds
    BY <1>1, RetryAssumption DEF Submit, RetryTypeOK
  <2> QED BY <1>1, <2>3, <2>4 DEF Submit, RetryTypeOK, DeadLetterStaysEmpty
<1>2. ASSUME Handle PROVE RetryInv'
  <2> DEFINE m == Decoded(queue.log[queue.position + 1])
             c == [caller |-> "queue", message |-> m, runs |-> Loaded(m),
                   at |-> "calling", ok |-> FALSE]
  <2>1. queue \in Partition(Message) /\ HasNext(queue)
    BY <1>2 DEF Handle, RetryTypeOK
  <2>2. /\ Deliver(queue) \in Partition(Message) /\ Mark(Deliver(queue)) \in Partition(Message)
        /\ m \in Message /\ m.count = 0
    BY <2>1, DeliverType, DecodedType
  <2> HIDE DEF m
  <2>3. CASE Loaded(m) = "none"
    <3>1. /\ queue' = Mark(Deliver(queue)) /\ LosesMessage(m, "no_task") /\ UNCHANGED calls
          /\ UNCHANGED <<dead, task, session, alive, accepted, released, ends>>
      BY <1>2, <2>3 DEF Handle, m
    <3>2. lost' \in [Order -> Reason \cup {"no"}]
      BY <2>2, <3>1, LosesType DEF Reason
    <3> QED BY <2>2, <3>1, <3>2 DEF RetryTypeOK, CountsFromZero, DeadLetterStaysEmpty
  <2>4. CASE Loaded(m) # "none"
    <3>1. /\ queue' = Deliver(queue) /\ calls' = calls \cup {c}
          /\ UNCHANGED <<lost, dead, task, session, alive, accepted, released, ends>>
      BY <1>2, <2>4 DEF Handle, Taken, m
    <3>2. Loaded(m) \in Order
      BY <2>4 DEF Loaded, RetryTypeOK
    <3>3. c \in Call /\ c.message.count = 0
      BY <2>2, <3>2 DEF Call
    <3> HIDE DEF c
    <3> QED BY <2>2, <3>1, <3>3 DEF RetryTypeOK, CountsFromZero, DeadLetterStaysEmpty
  <2> QED BY <2>3, <2>4
<1>3. ASSUME NEW c \in calls, Once(c) PROVE RetryInv'
  BY <1>3, RetryInvOnce
<1>4. ASSUME UNCHANGED <<dead, calls, accepted, released, lost>>,
             queue' \in Partition(Message), task' \in Order \cup {"none"},
             session' \in {"open", "closing", "none", "other"}, alive' \in BOOLEAN, ends' \in 0..MaxEnds
      PROVE  RetryInv'
  BY <1>4 DEF RetryTypeOK, CountsFromZero, DeadLetterStaysEmpty
<1>5. CASE OpenSession
  BY <1>4, <1>5 DEF OpenSession, RetryTypeOK
<1>6. ASSUME NEW stays \in BOOLEAN, EndSession(stays) PROVE RetryInv'
  <2>1. ends' \in 0..MaxEnds
    BY <1>6, RetryAssumption DEF EndSession, RetryTypeOK
  <2>2. session' \in {"open", "closing", "none", "other"} /\ alive' \in BOOLEAN
    BY <1>6 DEF EndSession
  <2> QED BY <1>4, <1>6, <2>1, <2>2 DEF EndSession, RetryTypeOK
<1>7. CASE Rebalance \/ CancelLoops
  BY <1>6, <1>7 DEF Rebalance, CancelLoops, RetryTypeOK
<1>8. CASE CloseSession
  BY <1>4, <1>8, CommitType, RewindType DEF CloseSession, RetryTypeOK
<1>9. CASE AutoCommit
  BY <1>4, <1>9, CommitType DEF AutoCommit, RetryTypeOK
<1>10. CASE Restart
  <2>1. ends' \in 0..MaxEnds
    BY <1>10, RetryAssumption DEF Restart, RetryTypeOK
  <2>2. queue' \in Partition(Message)
    BY <1>10, RewindType DEF Restart, RetryTypeOK
  <2> QED BY <1>10, <2>1, <2>2 DEF Restart, RetryTypeOK, CountsFromZero, DeadLetterStaysEmpty
<1>11. CASE UNCHANGED retryVars
  BY <1>4, <1>11 DEF retryVars, RetryTypeOK
<1> QED BY <1>1, <1>2, <1>3, <1>5, <1>7, <1>8, <1>9, <1>10, <1>11 DEF RetryNext

\* Partition, messages, calls and histories have their types.
THEOREM RetryTypeCorrect == RetrySpec => []RetryTypeOK
<1>1. RetryInv => RetryTypeOK
  BY DEF RetryInv
<1> QED BY <1>1, RetryInvInit, RetryInvStep, PTL DEF RetrySpec

\* No release is ever given up, whatever the limit: the counter of a message
\* that comes back from the queue is zero again (Message.retryCount).
THEOREM NothingIsGivenUp == RetrySpec => []DeadLetterStaysEmpty
<1>1. RetryInv => DeadLetterStaysEmpty
  BY DEF RetryInv
<1> QED BY <1>1, RetryInvInit, RetryInvStep, PTL DEF RetrySpec
-----------------------------------------------------------------------------
(* The retry queue: which orders have a message after the k-th record. *)

Pending(p, k) == {p.log[i].order : i \in (k + 1)..Len(p.log)}

LEMMA PendingAppend ==
  ASSUME NEW p \in Partition(Message), NEW r \in Message, NEW k \in 0..Len(p.log)
  PROVE  Pending(p, k) \cup {r.order} \subseteq Pending(Append1(p, r), k)
<1>1. /\ p.log \in Seq(Message) /\ Append1(p, r).log = Append(p.log, r)
      /\ Len(p.log) \in Nat /\ k \in Nat /\ k <= Len(p.log)
  BY DEF Partition, Append1
<1>2. /\ Len(Append(p.log, r)) = Len(p.log) + 1
      /\ Append(p.log, r)[Len(p.log) + 1] = r
      /\ \A i \in 1..Len(p.log) : Append(p.log, r)[i] = p.log[i]
  BY <1>1
<1>3. \A i \in (k + 1)..Len(p.log) : i \in 1..Len(p.log) /\ i \in (k + 1)..(Len(p.log) + 1)
  BY <1>1
<1>4. Len(p.log) + 1 \in (k + 1)..(Len(p.log) + 1)
  BY <1>1
<1> QED BY <1>1, <1>2, <1>3, <1>4 DEF Pending

\* Past one more record only that record is missing.
LEMMA PendingNext ==
  ASSUME NEW p, NEW k \in Nat, Len(p.log) \in Nat
  PROVE  Pending(p, k) \subseteq Pending(p, k + 1) \cup {p.log[k + 1].order}
<1>1. \A i \in (k + 1)..Len(p.log) : i = k + 1 \/ i \in (k + 2)..Len(p.log)
  OBVIOUS
<1>2. k + 1 + 1 = k + 2
  OBVIOUS
<1> QED BY <1>1, <1>2 DEF Pending

LEMMA PendingMore ==
  ASSUME NEW p, NEW k \in Nat, NEW n \in Nat, k <= n, Len(p.log) \in Nat
  PROVE  Pending(p, n) \subseteq Pending(p, k)
<1>1. \A i \in (n + 1)..Len(p.log) : i \in (k + 1)..Len(p.log)
  OBVIOUS
<1> QED BY <1>1 DEF Pending

\* Committing drops only what is marked.
LEMMA PendingCommit ==
  ASSUME NEW p \in Partition(Message), NEW k \in p.marked..Len(p.log)
  PROVE  /\ Pending(p, k) \subseteq Pending(Commit(p), k - p.marked)
         /\ k > p.marked => Commit(p).log[k - p.marked] = p.log[k]
<1> DEFINE n == p.marked
           rest == SubSeq(p.log, n + 1, Len(p.log))
<1>1. /\ p.log \in Seq(Message) /\ n \in Nat /\ Len(p.log) \in Nat
      /\ n <= Len(p.log) /\ k \in Nat /\ n <= k /\ k <= Len(p.log)
  BY DEF Partition
<1>2. Commit(p).log = rest
  BY DEF Commit
<1>3. Len(rest) = Len(p.log) - n /\ \A i \in 1..(Len(p.log) - n) : rest[i] = p.log[n + i]
  <2>1. \A i \in (n + 1)..Len(p.log) : p.log[i] \in Message
    BY <1>1
  <2>2. /\ Len(rest) = IF n + 1 <= Len(p.log) THEN Len(p.log) - (n + 1) + 1 ELSE 0
        /\ \A i \in 1..(Len(p.log) - (n + 1) + 1) : rest[i] = p.log[n + 1 + i - 1]
    <3>1. n + 1 \in Int /\ Len(p.log) \in Int
      BY <1>1
    <3> QED BY <2>1, <3>1, SubSeqProperties
  <2>3. Len(rest) = Len(p.log) - n
    BY <1>1, <2>2
  <2>4. \A i \in 1..(Len(p.log) - n) :
          i \in 1..(Len(p.log) - (n + 1) + 1) /\ n + 1 + i - 1 = n + i
    BY <1>1
  <2> QED BY <2>2, <2>3, <2>4
<1> HIDE DEF n, rest
<1>4. \A i \in (k + 1)..Len(p.log) :
        /\ i - n \in (k - n + 1)..Len(rest) /\ i - n \in 1..(Len(p.log) - n) /\ n + (i - n) = i
  BY <1>1, <1>3
<1>5. \A i \in (k + 1)..Len(p.log) : rest[i - n] = p.log[i]
  BY <1>3, <1>4
<1>6. Pending(p, k) \subseteq Pending(Commit(p), k - n)
  BY <1>2, <1>4, <1>5 DEF Pending
<1>7. k > n => rest[k - n] = p.log[k]
  <2>1. k > n => k - n \in 1..(Len(p.log) - n) /\ n + (k - n) = k
    BY <1>1
  <2> QED BY <1>3, <2>1
<1> QED BY <1>2, <1>6, <1>7 DEF n

LEMMA WaitingIsPending ==
  ASSUME NEW o \in Order
  PROVE  Waiting(o) <=> o \in Pending(queue, queue.marked)
BY DEF Waiting, Kept, Pending
-----------------------------------------------------------------------------
(* What has been accepted is kept. *)

\* The consumer works on one message, the only one taken and not marked.
OneAtATime ==
  /\ Handling = {} => queue.position = queue.marked
  /\ \A c \in Handling :
       /\ queue.position = queue.marked + 1
       /\ queue.log[queue.position].order = c.message.order
       /\ \A d \in Handling : c = d

Safe(o, k) == o \in released \/ LostFor(o) \/ o \in Pending(queue, k)

\* A call about to return has done, lost or republished its release: one of
\* the consumer behind the message it is about to mark.
Disposed(c) ==
  c.at = "returning" =>
    IF c.caller = "queue" THEN Safe(c.message.order, queue.position)
    ELSE c.ok => Safe(c.message.order, queue.marked)

CallsAreSafe ==
  \A c \in calls :
    /\ c.caller = "outbox" => c.runs = c.message.order
    /\ c.at # "returning" => ~c.ok
    /\ Disposed(c)

KeptInv == RetryInv /\ OneAtATime /\ CallsAreSafe /\ \A o \in accepted : Safe(o, queue.marked)

LEMMA KeptInvInit == RetryInit => KeptInv
BY RetryInvInit
   DEF RetryInit, KeptInv, OneAtATime, CallsAreSafe, Handling, NewPartition

LEMMA QueueFacts ==
  ASSUME RetryInv
  PROVE  /\ queue \in Partition(Message)
         /\ queue.log \in Seq(Message) /\ Len(queue.log) \in Nat
         /\ queue.position \in Nat /\ queue.marked \in Nat
         /\ queue.marked <= queue.position /\ queue.position <= Len(queue.log)
BY DEF RetryInv, RetryTypeOK, Partition

\* A step that leaves the queue as it is or appends to it keeps what is safe.
LEMMA SafeStays ==
  ASSUME RetryInv, released \subseteq released',
         \A o \in Order : LostFor(o) => LostFor(o)',
         \/ queue' = queue
         \/ \E r \in Message : queue' = Append1(queue, r),
         NEW o \in Order, NEW k \in 0..Len(queue.log), Safe(o, k)
  PROVE  Safe(o, k)'
<1>1. CASE queue' = queue
  BY <1>1 DEF Safe
<1>2. ASSUME NEW r \in Message, queue' = Append1(queue, r)
      PROVE  Safe(o, k)'
  <2>1. Pending(queue, k) \subseteq Pending(queue', k)
    BY <1>2, QueueFacts, PendingAppend
  <2> QED BY <2>1 DEF Safe
<1> QED BY <1>1, <1>2

LEMMA LostStays ==
  ASSUME RetryInv, NEW m \in Message, NEW reason \in Reason, LosesMessage(m, reason)
  PROVE  LostFor(m.order)' /\ \A o \in Order : LostFor(o) => LostFor(o)'
BY DEF RetryInv, RetryTypeOK, LosesMessage, LostFor, Reason, Message

LEMMA LosesStays ==
  ASSUME RetryInv, NEW c \in calls, NEW reason \in Reason, Loses(c, reason)
  PROVE  /\ c.caller = "queue" => LostFor(c.message.order)'
         /\ \A o \in Order : LostFor(o) => LostFor(o)'
<1>1. c.message \in Message
  BY DEF RetryInv, RetryTypeOK, Call
<1> QED BY <1>1, LostStays DEF Loses, LostFor

\* What a step of once does to a call: it goes to another with the same message,
\* or returns.
LEMMA KeptGoes ==
  ASSUME KeptInv, NEW c \in calls, NEW d \in Call, RetryInv', Goes(c, d),
         d.caller = c.caller, d.message = c.message, d.runs = c.runs,
         c.at # "returning",
         d.at # "returning" => ~d.ok,
         UNCHANGED accepted, released \subseteq released',
         \A o \in Order : LostFor(o) => LostFor(o)',
         \/ queue' = queue
         \/ \E r \in Message : queue' = Append1(queue, r),
         Disposed(d)'
  PROVE  KeptInv'
<1> USE DEF KeptInv
<1>1. /\ queue'.position = queue.position /\ queue'.marked = queue.marked
      /\ \A i \in 1..Len(queue.log) : queue'.log[i] = queue.log[i]
  <2>1. ASSUME NEW r \in Message, queue' = Append1(queue, r)
        PROVE  /\ queue'.position = queue.position /\ queue'.marked = queue.marked
               /\ \A i \in 1..Len(queue.log) : queue'.log[i] = queue.log[i]
    <3>1. queue'.log = Append(queue.log, r)
      BY <2>1, QueueFacts DEF Append1, Partition
    <3>2. \A i \in 1..Len(queue.log) : queue'.log[i] = queue.log[i]
      BY <3>1, QueueFacts
    <3> QED BY <2>1, <3>2, QueueFacts, AppendType
  <2> QED BY <2>1
<1>2. OneAtATime'
  <2>1. calls' = (calls \ {c}) \cup {d}
    BY DEF Goes
  <2>2. CASE c.caller = "queue"
    <3>1. Handling = {c} /\ queue.position = queue.marked + 1
          /\ queue.log[queue.position].order = c.message.order
      BY <2>2 DEF OneAtATime, Handling
    <3>2. Handling' = {d}
      BY <2>1, <2>2, <3>1 DEF Handling
    <3>3. queue.position \in 1..Len(queue.log)
      BY <3>1, QueueFacts
    <3> QED BY <1>1, <3>1, <3>2, <3>3 DEF OneAtATime
  <2>3. CASE c.caller # "queue"
    <3>1. Handling' = Handling
      BY <2>1, <2>3 DEF Handling
    <3>2. Handling # {} => queue.position \in 1..Len(queue.log)
      BY QueueFacts DEF OneAtATime
    <3> QED BY <1>1, <3>1, <3>2 DEF OneAtATime
  <2> QED BY <2>2, <2>3
<1>3. queue.position \in 0..Len(queue.log) /\ queue.marked \in 0..Len(queue.log)
  BY QueueFacts
<1>4. \A e \in calls : e.message.order \in Order
  BY DEF RetryInv, RetryTypeOK, Call, Message
<1>5. ASSUME NEW e \in calls PROVE Disposed(e)'
  BY <1>1, <1>3, <1>4, SafeStays DEF CallsAreSafe, Disposed
<1>6. CallsAreSafe'
  BY <1>5 DEF Goes, CallsAreSafe
<1>7. ASSUME NEW o \in accepted PROVE Safe(o, queue.marked)'
  <2>1. o \in Order /\ Safe(o, queue.marked)
    BY DEF RetryInv, RetryTypeOK
  <2> DEFINE k == queue.marked
  <2>2. k \in 0..Len(queue.log) /\ queue'.marked = k
    BY <1>1, <1>3
  <2> QED BY <2>1, <2>2, SafeStays DEF Safe
<1> QED BY <1>1, <1>2, <1>6, <1>7

\* A mark loses nothing that is safe behind the record it marks.
LEMMA SafeMark ==
  ASSUME KeptInv, NEW c \in Handling, c.at = "returning",
         NEW o \in Order, Safe(o, queue.marked)
  PROVE  Safe(o, queue.position)
<1> USE DEF KeptInv
<1>1. queue.position = queue.marked + 1 /\ queue.log[queue.marked + 1].order = c.message.order
  BY DEF OneAtATime
<1>2. Safe(c.message.order, queue.position)
  BY DEF CallsAreSafe, Disposed, Handling
<1>3. Pending(queue, queue.marked) \subseteq Pending(queue, queue.position) \cup {c.message.order}
  BY <1>1, QueueFacts, PendingNext
<1> QED BY <1>2, <1>3 DEF Safe

LEMMA KeptReturn ==
  ASSUME KeptInv, NEW c \in calls, Return(c), RetryInv'
  PROVE  KeptInv'
<1> USE DEF KeptInv
<1>1. /\ calls' = calls \ {c} /\ c.at = "returning" /\ UNCHANGED <<released, lost>>
      /\ accepted' = IF c.caller = "outbox" /\ c.ok THEN accepted \cup {c.message.order}
                     ELSE accepted
  BY DEF Return
<1>2. \A e \in calls : e.message.order \in Order
  BY DEF RetryInv, RetryTypeOK, Call, Message
<1>3. c.caller \in {"queue", "outbox"}
  BY DEF RetryInv, RetryTypeOK, Call
<1>4. CASE c.caller = "outbox"
  <2>1. queue' = queue
    BY <1>4 DEF Return, Settle
  <2>2. Handling' = Handling
    BY <1>1, <1>4 DEF Handling
  <2>3. OneAtATime'
    BY <2>1, <2>2 DEF OneAtATime
  <2>4. \A o, k : Safe(o, k) => Safe(o, k)'
    BY <1>1, <2>1 DEF Safe, LostFor
  <2>5. CallsAreSafe'
    BY <1>1, <2>1, <2>4 DEF CallsAreSafe, Disposed
  <2>6. c.ok => Safe(c.message.order, queue.marked)
    BY <1>1, <1>4 DEF CallsAreSafe, Disposed
  <2>7. \A o \in accepted' : Safe(o, queue.marked)'
    BY <1>1, <2>1, <2>4, <2>6
  <2> QED BY <2>3, <2>5, <2>7
<1>5. CASE c.caller = "queue"
  <2>1. queue' = Mark(queue) /\ accepted' = accepted /\ c \in Handling
    BY <1>1, <1>5 DEF Return, Settle, Handling
  <2>2. /\ queue'.marked = queue.position /\ queue'.position = queue.position
        /\ queue'.log = queue.log
    BY <2>1 DEF Mark, RetryInv, RetryTypeOK, Partition
  <2>3. Handling' = {}
    BY <1>1, <2>1 DEF Handling, OneAtATime
  <2>4. OneAtATime'
    BY <2>2, <2>3 DEF OneAtATime
  <2>5. \A o \in Order : Safe(o, queue.marked) => Safe(o, queue.marked)'
    BY <1>1, <2>1, <2>2, SafeMark DEF Safe, LostFor, Pending
  <2>6. CallsAreSafe'
    <3>1. \A e \in calls' : e \in calls /\ e.caller # "queue"
      BY <1>1, <2>3 DEF Handling
    <3> QED BY <1>2, <2>5, <3>1 DEF CallsAreSafe, Disposed
  <2>7. \A o \in accepted' : Safe(o, queue.marked)'
    BY <2>1, <2>5 DEF RetryInv, RetryTypeOK
  <2> QED BY <2>4, <2>6, <2>7
<1> QED BY <1>3, <1>4, <1>5

LEMMA KeptOnce ==
  ASSUME KeptInv, NEW c \in calls, Once(c), RetryInv'
  PROVE  KeptInv'
<1> USE DEF KeptInv
<1>1. /\ c \in Call /\ c.message \in Message /\ c.message.order \in Order
      /\ c.message.count = 0
  BY DEF RetryInv, RetryTypeOK, Call, CountsFromZero, Message
<1>2. ASSUME NEW a \in {"waiting", "returning"}, NEW ok \in BOOLEAN
      PROVE  LET d == [c EXCEPT !.at = a, !.ok = ok]
             IN /\ d \in Call /\ d.caller = c.caller /\ d.message = c.message
                /\ d.runs = c.runs /\ d.at = a /\ d.ok = ok
  BY <1>1 DEF Call
<1>3. ASSUME NEW a \in {"waiting", "returning"}
      PROVE  LET d == [c EXCEPT !.at = a]
             IN /\ d \in Call /\ d.caller = c.caller /\ d.message = c.message
                /\ d.runs = c.runs /\ d.at = a /\ d.ok = c.ok
  BY <1>1 DEF Call
<1>4. c.at # "returning" => ~c.ok
  BY DEF CallsAreSafe
<1>5. CASE Succeed(c)
  <2> DEFINE d == [c EXCEPT !.at = "returning", !.ok = TRUE]
  <2>1. /\ d \in Call /\ d.caller = c.caller /\ d.message = c.message
        /\ d.runs = c.runs /\ d.at = "returning" /\ d.ok = TRUE
    BY <1>2
  <2>2. /\ Goes(c, d) /\ c.at = "calling" /\ released' = released \cup {c.runs}
        /\ UNCHANGED <<queue, accepted>>
        /\ IF c.runs # c.message.order THEN Loses(c, "foreign") ELSE UNCHANGED lost
    BY <1>5 DEF Succeed
  <2> HIDE DEF d
  <2>3. \A o \in Order : LostFor(o) => LostFor(o)'
    BY <2>2, LosesStays DEF LostFor, Reason
  <2>4. c.message.order \in released' \/ LostFor(c.message.order)'
    <3>1. CASE c.runs = c.message.order
      BY <2>2, <3>1
    <3>2. CASE c.runs # c.message.order
      <4>1. c.caller = "queue"
        BY <1>1, <3>2 DEF CallsAreSafe, Call
      <4> QED BY <2>2, <3>2, <4>1, LosesStays DEF Reason
    <3> QED BY <3>1, <3>2
  <2>5. Disposed(d)'
    BY <2>1, <2>4 DEF Disposed, Safe
  <2> QED BY <2>1, <2>2, <2>3, <2>5, KeptGoes
<1>6. CASE Fail(c)
  <2> DEFINE d == [c EXCEPT !.at = "waiting"]
  <2>1. /\ d \in Call /\ d.caller = c.caller /\ d.message = c.message
        /\ d.runs = c.runs /\ d.at = "waiting" /\ d.ok = c.ok
    BY <1>3
  <2>2. Goes(c, d) /\ c.at = "calling" /\ UNCHANGED <<queue, accepted, released, lost>>
    BY <1>6 DEF Fail
  <2> HIDE DEF d
  <2>3. Disposed(d)'
    BY <2>1 DEF Disposed
  <2>4. \A o \in Order : LostFor(o) => LostFor(o)'
    BY <2>2 DEF LostFor
  <2> QED BY <1>4, <2>1, <2>2, <2>3, <2>4, KeptGoes
<1>7. ASSUME StopWaiting(c) \/ FailToRepublish(c) PROVE KeptInv'
  <2> DEFINE d == [c EXCEPT !.at = "returning"]
  <2>1. /\ d \in Call /\ d.caller = c.caller /\ d.message = c.message
        /\ d.runs = c.runs /\ d.at = "returning" /\ d.ok = c.ok
    BY <1>3
  <2>2. PICK reason \in Reason : Loses(c, reason)
    BY <1>7 DEF StopWaiting, FailToRepublish, Reason
  <2>3. Goes(c, d) /\ c.at = "waiting" /\ UNCHANGED <<queue, accepted, released>>
    BY <1>7 DEF StopWaiting, FailToRepublish
  <2> HIDE DEF d
  <2>4. /\ \A o \in Order : LostFor(o) => LostFor(o)'
        /\ c.caller = "queue" => LostFor(c.message.order)'
    BY <2>2, LosesStays
  <2>5. Disposed(d)'
    BY <1>4, <2>1, <2>3, <2>4 DEF Disposed, Safe
  <2> QED BY <1>4, <2>1, <2>3, <2>4, <2>5, KeptGoes
<1>8. CASE Dispose(c)
  <2> DEFINE d == [c EXCEPT !.at = "returning", !.ok = TRUE]
  <2>1. /\ d \in Call /\ d.caller = c.caller /\ d.message = c.message
        /\ d.runs = c.runs /\ d.at = "returning" /\ d.ok = TRUE
    BY <1>2
  <2>2. ~GivesUp(c)
    BY <1>1, RetryAssumption DEF GivesUp
  <2>3. /\ Goes(c, d) /\ c.at = "waiting" /\ UNCHANGED <<accepted, released, lost>>
        /\ queue' = Append1(queue, Requeued(c))
    BY <1>8, <2>2 DEF Dispose
  <2> HIDE DEF d
  <2>4. Requeued(c) \in Message /\ Requeued(c).order = c.message.order
    <3>1. c.message.count + 1 \in 0..(MaxRetryCount + 2)
      BY <1>1, RetryAssumption
    <3> QED BY <1>1, <3>1 DEF Requeued, Message
  <2>5. queue'.position = queue.position /\ queue'.marked = queue.marked
    BY <2>3, <2>4, QueueFacts, AppendType
  <2>6. /\ c.message.order \in Pending(queue', queue.position)
        /\ c.message.order \in Pending(queue', queue.marked)
    <3>1. queue.position \in 0..Len(queue.log) /\ queue.marked \in 0..Len(queue.log)
      BY QueueFacts
    <3> QED BY <2>3, <2>4, <3>1, QueueFacts, PendingAppend
  <2>7. Disposed(d)'
    BY <2>1, <2>5, <2>6 DEF Disposed, Safe
  <2>8. \A o \in Order : LostFor(o) => LostFor(o)'
    BY <2>3 DEF LostFor
  <2> QED BY <2>1, <2>3, <2>4, <2>7, <2>8, KeptGoes
<1>9. CASE Return(c)
  BY <1>9, KeptReturn
<1> QED BY <1>5, <1>6, <1>7, <1>8, <1>9 DEF Once

\* A step that neither touches the queue nor takes or ends a call.
LEMMA KeptIdle ==
  ASSUME KeptInv, UNCHANGED <<queue, calls, accepted, released, lost>>, RetryInv'
  PROVE  KeptInv'
<1>1. OneAtATime'
  BY DEF KeptInv, OneAtATime, Handling
<1>2. \A o, k : Safe(o, k) => Safe(o, k)'
  BY DEF Safe, LostFor
<1>3. CallsAreSafe'
  BY <1>2 DEF KeptInv, CallsAreSafe, Disposed
<1>4. \A o \in accepted' : Safe(o, queue.marked)'
  BY <1>2 DEF KeptInv
<1> QED BY <1>1, <1>3, <1>4 DEF KeptInv

LEMMA KeptSubmit ==
  ASSUME KeptInv, NEW o \in Order, Submit(o), RetryInv'
  PROVE  KeptInv'
<1> DEFINE c == [caller |-> "outbox", message |-> [order |-> o, count |-> 0],
                 runs |-> o, at |-> "calling", ok |-> FALSE]
<1> USE DEF KeptInv
<1>1. calls' = calls \cup {c} /\ UNCHANGED <<queue, accepted, released, lost>>
  BY DEF Submit
<1>2. /\ c.caller = "outbox" /\ c.runs = c.message.order /\ c.at = "calling" /\ c.ok = FALSE
  OBVIOUS
<1> HIDE DEF c
<1>3. Handling' = Handling
  BY <1>1, <1>2 DEF Handling
<1>4. OneAtATime'
  BY <1>1, <1>3 DEF OneAtATime
<1>5. \A e, k : Safe(e, k) => Safe(e, k)'
  BY <1>1 DEF Safe, LostFor
<1>6. CallsAreSafe'
  <2>1. \A e \in calls : Disposed(e) => Disposed(e)'
    BY <1>1, <1>5 DEF Disposed
  <2>2. Disposed(c)'
    BY <1>2 DEF Disposed
  <2> QED BY <1>1, <1>2, <2>1, <2>2 DEF CallsAreSafe
<1>7. \A e \in accepted' : Safe(e, queue.marked)'
  BY <1>1, <1>5
<1> QED BY <1>4, <1>6, <1>7

LEMMA KeptHandle ==
  ASSUME KeptInv, Handle, RetryInv'
  PROVE  KeptInv'
<1> USE DEF KeptInv
<1>1. /\ Handling = {} /\ HasNext(queue) /\ UNCHANGED <<accepted, released>>
      /\ queue.position = queue.marked
  BY DEF Handle, OneAtATime
<1> PICK m : m = Decoded(queue.log[queue.position + 1])
  OBVIOUS
<1>2. /\ m \in Message /\ m.order = queue.log[queue.position + 1].order
  BY <1>1, QueueFacts, DeliverType, DecodedType
<1>3. /\ Deliver(queue).log = queue.log /\ Deliver(queue).marked = queue.marked
      /\ Deliver(queue).position = queue.position + 1
  BY QueueFacts DEF Deliver, Partition
<1>4. \A e \in calls : e.caller # "queue"
  BY <1>1 DEF Handling
<1>5. \A e \in calls : e.message.order \in Order
  BY DEF RetryInv, RetryTypeOK, Call, Message
<1>6. CASE Loaded(m) = "none"
  <2>1. queue' = Mark(Deliver(queue)) /\ LosesMessage(m, "no_task") /\ UNCHANGED calls
    BY <1>6 DEF Handle
  <2>2. /\ queue'.log = queue.log /\ queue'.marked = queue.marked + 1
        /\ queue'.position = queue.position + 1
    <3>1. Mark(Deliver(queue)) = [Deliver(queue) EXCEPT !.marked = queue.position + 1]
      BY <1>3 DEF Mark
    <3> QED BY <2>1, <3>1, <1>1, <1>3, QueueFacts DEF Deliver, Partition
  <2>3. Handling' = {}
    BY <1>1, <2>1 DEF Handling
  <2>4. OneAtATime'
    BY <1>1, <2>2, <2>3 DEF OneAtATime
  <2>5. LostFor(m.order)' /\ \A o \in Order : LostFor(o) => LostFor(o)'
    BY <1>2, <2>1, LostStays DEF Reason
  <2>6. Pending(queue, queue.marked) \subseteq Pending(queue, queue.marked + 1) \cup {m.order}
    <3>1. queue.marked \in Nat /\ queue.marked < Len(queue.log)
      BY <1>1, QueueFacts DEF HasNext
    <3> QED BY <1>1, <1>2, <3>1, QueueFacts, PendingNext
  <2>7. ASSUME NEW o \in Order, Safe(o, queue.marked) PROVE Safe(o, queue.marked)'
    <3>1. CASE o \in released
      BY <1>1, <3>1 DEF Safe
    <3>2. CASE LostFor(o)
      BY <2>5, <3>2 DEF Safe
    <3>3. CASE o \in Pending(queue, queue.marked)
      <4>1. Pending(queue', queue'.marked) = Pending(queue, queue.marked + 1)
        BY <2>2 DEF Pending
      <4>2. CASE o = m.order
        BY <2>5, <4>2 DEF Safe
      <4>3. CASE o # m.order
        BY <2>6, <3>3, <4>1, <4>3 DEF Safe
      <4> QED BY <4>2, <4>3
    <3> QED BY <2>7, <3>1, <3>2, <3>3 DEF Safe
  <2>8. CallsAreSafe'
    BY <1>4, <1>5, <2>1, <2>7 DEF CallsAreSafe, Disposed
  <2>9. \A o \in accepted' : Safe(o, queue.marked)'
    BY <1>1, <2>7 DEF RetryInv, RetryTypeOK
  <2> QED BY <2>4, <2>8, <2>9
<1>7. CASE Loaded(m) # "none"
  <2> PICK c : c = [caller |-> "queue", message |-> m, runs |-> Loaded(m),
                    at |-> "calling", ok |-> FALSE]
    OBVIOUS
  <2>1. queue' = Deliver(queue) /\ calls' = calls \cup {c} /\ UNCHANGED lost
    BY <1>7 DEF Handle, Taken
  <2>2. c.caller = "queue" /\ c.message = m /\ c.at = "calling" /\ c.ok = FALSE
    OBVIOUS
  <2>3. Handling' = {c}
    BY <1>4, <2>1, <2>2 DEF Handling
  <2>4. OneAtATime'
    BY <1>1, <1>2, <1>3, <2>1, <2>2, <2>3 DEF OneAtATime
  <2>5. \A o : Safe(o, queue.marked) => Safe(o, queue.marked)'
    BY <1>1, <1>3, <2>1 DEF Safe, LostFor, Pending
  <2>6. CallsAreSafe'
    <3>1. \A e \in calls : Disposed(e) => Disposed(e)'
      BY <1>4, <2>5 DEF Disposed
    <3>2. Disposed(c)'
      BY <2>2 DEF Disposed
    <3> QED BY <2>1, <2>2, <3>1, <3>2 DEF CallsAreSafe
  <2>7. \A o \in accepted' : Safe(o, queue.marked)'
    BY <1>1, <2>5
  <2> QED BY <2>4, <2>6, <2>7
<1> QED BY <1>6, <1>7

LEMMA KeptCommit ==
  ASSUME KeptInv, queue' = Commit(queue), UNCHANGED <<calls, accepted, released, lost>>, RetryInv'
  PROVE  KeptInv'
<1> USE DEF KeptInv
<1>1. /\ queue'.marked = 0 /\ queue'.position = queue.position - queue.marked
  BY DEF Commit
<1>2. /\ queue.marked \in queue.marked..Len(queue.log)
      /\ queue.position \in queue.marked..Len(queue.log)
      /\ queue.marked - queue.marked = 0
  BY QueueFacts
<1>3. /\ Pending(queue, queue.marked) \subseteq Pending(queue', 0)
      /\ Pending(queue, queue.position) \subseteq Pending(queue', queue'.position)
      /\ queue.position > queue.marked => queue'.log[queue'.position] = queue.log[queue.position]
  BY <1>1, <1>2, QueueFacts, PendingCommit
<1>4. Handling' = Handling
  BY DEF Handling
<1>5. OneAtATime'
  BY <1>1, <1>3, <1>4, QueueFacts DEF OneAtATime
<1>6. \A o : /\ Safe(o, queue.marked) => Safe(o, queue.marked)'
             /\ Safe(o, queue.position) => Safe(o, queue.position)'
  BY <1>1, <1>3 DEF Safe, LostFor
<1>7. CallsAreSafe'
  BY <1>6 DEF CallsAreSafe, Disposed
<1>8. \A o \in accepted' : Safe(o, queue.marked)'
  BY <1>6
<1> QED BY <1>5, <1>7, <1>8

\* Rewinding keeps what was not marked: a restart after a failed commit even
\* brings back what was.
LEMMA KeptRewind ==
  ASSUME KeptInv, queue' = Rewind(queue), NEW D, calls' = calls \ D, Handling \subseteq D,
         UNCHANGED <<accepted, released, lost>>, RetryInv'
  PROVE  KeptInv'
<1> USE DEF KeptInv
<1>1. queue'.log = queue.log /\ queue'.marked = 0 /\ queue'.position = 0
  BY QueueFacts DEF Rewind, Partition
<1>2. Handling' = {}
  BY DEF Handling
<1>3. Pending(queue, queue.marked) \subseteq Pending(queue', 0)
  <2>1. Pending(queue', 0) = Pending(queue, 0)
    BY <1>1 DEF Pending
  <2> QED BY <2>1, QueueFacts, PendingMore
<1>4. \A o : Safe(o, queue.marked) => Safe(o, queue.marked)'
  BY <1>1, <1>3 DEF Safe, LostFor
<1>5. CallsAreSafe'
  <2>1. \A e \in calls' : e \in calls /\ e.caller # "queue"
    BY <1>2 DEF Handling
  <2> QED BY <1>4, <2>1 DEF CallsAreSafe, Disposed
<1>6. \A o \in accepted' : Safe(o, queue.marked)'
  BY <1>4
<1> QED BY <1>1, <1>2, <1>5, <1>6 DEF OneAtATime

\* A session that ends commits its marks and rewinds; nothing is being handled.
LEMMA KeptClose ==
  ASSUME KeptInv, CloseSession, RetryInv'
  PROVE  KeptInv'
<1> USE DEF KeptInv
<1>1. /\ queue' = Rewind(Commit(queue)) /\ Handling = {}
      /\ UNCHANGED <<calls, accepted, released, lost>>
  BY DEF CloseSession
<1>2. Commit(queue) \in Partition(Message) /\ Commit(queue).marked = 0
  BY QueueFacts, CommitType DEF Commit
<1>3. /\ queue'.log = Commit(queue).log /\ queue'.marked = 0 /\ queue'.position = 0
  BY <1>1, <1>2 DEF Rewind, Partition
<1>4. Pending(queue, queue.marked) \subseteq Pending(queue', 0)
  <2>1. queue.marked \in queue.marked..Len(queue.log) /\ queue.marked - queue.marked = 0
    BY QueueFacts
  <2>2. Pending(queue, queue.marked) \subseteq Pending(Commit(queue), 0)
    BY <2>1, QueueFacts, PendingCommit
  <2> QED BY <1>3, <2>2 DEF Pending
<1>5. Handling' = {}
  BY <1>1 DEF Handling
<1>6. \A o : Safe(o, queue.marked) => Safe(o, queue.marked)'
  BY <1>1, <1>3, <1>4 DEF Safe, LostFor
<1>7. CallsAreSafe'
  <2>1. \A e \in calls' : e \in calls /\ e.caller # "queue"
    BY <1>1 DEF Handling
  <2> QED BY <1>6, <2>1 DEF CallsAreSafe, Disposed
<1>8. \A o \in accepted' : Safe(o, queue.marked)'
  BY <1>1, <1>6
<1> QED BY <1>3, <1>5, <1>7, <1>8 DEF OneAtATime

LEMMA KeptStep ==
  ASSUME KeptInv, [RetryNext]_retryVars
  PROVE  KeptInv'
<1>1. RetryInv'
  BY RetryInvStep DEF KeptInv
<1>2. CASE OpenSession
  BY <1>1, <1>2, KeptIdle DEF OpenSession
<1>3. CASE Rebalance \/ CancelLoops
  BY <1>1, <1>3, KeptIdle DEF Rebalance, CancelLoops, EndSession
<1>4. CASE AutoCommit
  BY <1>1, <1>4, KeptCommit DEF AutoCommit
<1>5. CASE Restart
  <2>1. calls' = calls \ calls /\ Handling \subseteq calls
    BY <1>5 DEF Restart, Handling
  <2> QED BY <1>1, <1>5, <2>1, KeptRewind DEF Restart
<1>6. CASE UNCHANGED retryVars
  BY <1>1, <1>6, KeptIdle DEF retryVars
<1> QED BY <1>1, <1>2, <1>3, <1>4, <1>5, <1>6, KeptSubmit, KeptHandle, KeptOnce, KeptClose
        DEF RetryNext

\* A release that Submit has accepted is done, waits in the queue where the next
\* session finds it, or was lost in one of the ways that lost names: no crash,
\* rebalance, commit or interleaving of the calls loses it in any other way.
THEOREM AcceptedReleaseIsKept == RetrySpec => []AcceptedIsKept
<1>1. KeptInv => AcceptedIsKept
  BY WaitingIsPending DEF KeptInv, AcceptedIsKept, Safe, RetryInv, RetryTypeOK
<1> QED BY <1>1, KeptInvInit, KeptStep, PTL DEF RetrySpec
-----------------------------------------------------------------------------
(* The delay queue.  The log is what is left of the messages published once *)
(* those before the committed offset are gone.                              *)

Committed == Len(published) - Len(topic.log)

LogIsRest ==
  /\ Len(topic.log) <= Len(published)
  /\ \A i \in 1..Len(topic.log) : topic.log[i].message = published[i + Committed]

PublishedOnce ==
  \A i, j \in 1..Len(published) : published[i] = published[j] => i = j

\* The message being sent is the one delivered last, and is not marked.
SendingIsLast ==
  sending # "none" =>
    /\ topic.marked < topic.position /\ sending \in sent
    /\ sending = topic.log[topic.position].message

\* No mark is set, or committed, but by a message that was sent.
MarkedBehindSent ==
  \A i \in 1..(Committed + topic.marked) :
    \E j \in 1..Len(published) : i <= j /\ published[j] \in sent

\* What the session has passed over it has delivered.
SkippedIsBehind ==
  running => \A m \in skipped : \E k \in 1..(Committed + topic.position) : published[k] = m

DelayInv ==
  /\ DelayTypeOK /\ (~running => topic.position = 0)
  /\ LogIsRest /\ PublishedOnce /\ SendingIsLast /\ MarkedBehindSent /\ SkippedIsBehind

LEMMA DelayInvInit == DelayInit => DelayInv
<1> SUFFICES ASSUME DelayInit PROVE DelayInv
  OBVIOUS
<1>1. topic \in Partition(DelayMessage) /\ topic.log = <<>> /\ topic.position = 0 /\ topic.marked = 0
  BY NewPartitionType DEF DelayInit, NewPartition
<1>2. published = <<>> /\ Len(published) = 0 /\ Len(topic.log) = 0
  BY <1>1 DEF DelayInit
<1>3. published \in Seq(Delayed) /\ now \in 0..MaxTime /\ 0 \in 0..MaxTime
  BY DelayAssumption DEF DelayInit
<1>4. 0 \in 0..MaxRuns /\ 0 \in 0..MaxFails /\ 0 \in 0..0
  BY DelayAssumption
<1>5. DelayTypeOK
  BY <1>1, <1>2, <1>3, <1>4 DEF DelayInit, DelayTypeOK
<1> QED BY <1>1, <1>2, <1>5
        DEF DelayInit, DelayInv, LogIsRest, PublishedOnce, SendingIsLast, MarkedBehindSent,
            SkippedIsBehind, Committed

\* The numbers the invariant is about, and their types.
LEMMA DelayFacts ==
  ASSUME DelayInv
  PROVE  /\ topic \in Partition(DelayMessage) /\ topic.log \in Seq(DelayMessage)
         /\ Len(topic.log) \in Nat /\ Len(published) \in Nat
         /\ topic.position \in Nat /\ topic.marked \in Nat /\ fetched \in Nat
         /\ topic.marked <= topic.position /\ topic.position <= fetched
         /\ fetched <= Len(topic.log) /\ Len(topic.log) <= Len(published)
         /\ Committed \in Nat /\ Committed + Len(topic.log) = Len(published)
<1>1. topic \in Partition(DelayMessage) /\ published \in Seq(Delayed)
  BY DEF DelayInv, DelayTypeOK
<1>2. /\ Len(topic.log) \in Nat /\ topic.position \in Nat /\ topic.marked \in Nat
      /\ topic.marked <= topic.position /\ topic.log \in Seq(DelayMessage)
  BY <1>1, PartitionShape
<1>3. Len(published) \in Nat
  BY <1>1
<1>4. fetched \in topic.position..Len(topic.log) /\ Len(topic.log) <= Len(published)
  BY DEF DelayInv, DelayTypeOK, LogIsRest
<1> QED BY <1>1, <1>2, <1>3, <1>4 DEF Committed

LEMMA NextRecord ==
  ASSUME DelayInv, Ready
  PROVE  /\ Next1 \in DelayMessage /\ Next1.message \in Delayed /\ Next1.due \in 1..MaxTime
         /\ Deliver(topic) \in Partition(DelayMessage)
         /\ Next1.message = published[topic.position + 1 + Committed]
         /\ topic.position + 1 \in 1..Len(topic.log)
<1>1. topic.position + 1 \in 1..Len(topic.log) /\ HasNext(topic)
  BY DelayFacts DEF Ready, HasNext
<1>2. Next1 \in DelayMessage /\ Deliver(topic) \in Partition(DelayMessage)
  BY <1>1, DelayFacts, DeliverType DEF Next1
<1>3. Next1.message = published[topic.position + 1 + Committed]
  BY <1>1 DEF Next1, DelayInv, LogIsRest
<1> QED BY <1>1, <1>2, <1>3 DEF DelayMessage

LEMMA DelayTypeStep ==
  ASSUME DelayInv, DelayNext
  PROVE  DelayTypeOK'
<1> USE DEF DelayTypeOK
<1>1. DelayTypeOK /\ (~running => topic.position = 0)
  BY DEF DelayInv
<1>2. CASE Tick
  BY <1>1, <1>2, DelayAssumption DEF Tick
<1>3. ASSUME NEW m \in Delayed, SendMessage(m) PROVE DelayTypeOK'
  <2>1. [message |-> m, due |-> now + Delay] \in DelayMessage
    <3>1. now + Delay \in 1..MaxTime
      BY <1>1, <1>3, DelayAssumption DEF SendMessage
    <3> QED BY <3>1 DEF DelayMessage
  <2>2. /\ topic' \in Partition(DelayMessage) /\ topic'.position = topic.position
        /\ Len(topic'.log) = Len(topic.log) + 1
    BY <1>3, <2>1, DelayFacts, AppendType, AppendShape DEF SendMessage
  <2>3. fetched' \in topic'.position..Len(topic'.log)
    BY <1>1, <1>3, <2>2, DelayFacts DEF SendMessage
  <2> QED BY <1>1, <1>3, <2>2, <2>3 DEF SendMessage
<1>4. CASE Run
  <2>1. fetched' \in topic'.position..Len(topic'.log) /\ timer' \in 0..MaxTime
    BY <1>1, <1>4, DelayFacts, DelayAssumption DEF Run
  <2>2. runs' \in 0..MaxRuns
    BY <1>1, <1>4, DelayAssumption DEF Run
  <2> QED BY <1>1, <1>4, <2>1, <2>2 DEF Run
<1>5. CASE Fetch
  <2>1. fetched' \in topic'.position..Len(topic'.log)
    BY <1>5, DelayFacts DEF Fetch
  <2> QED BY <1>1, <1>5, <2>1 DEF Fetch
<1>6. ASSUME Ready, topic' = Deliver(topic), fetched' = fetched
      PROVE  topic' \in Partition(DelayMessage) /\ fetched' \in topic'.position..Len(topic'.log)
  BY <1>6, NextRecord, DelayFacts, DeliverShape DEF Ready
<1>7. CASE PassOver
  <2>1. timer' \in 0..MaxTime
    BY <1>7, NextRecord, DelayAssumption DEF PassOver, NewTimer
  <2> QED BY <1>1, <1>6, <1>7, <2>1, NextRecord DEF PassOver
<1>8. CASE SendOn
  BY <1>1, <1>6, <1>8, NextRecord DEF SendOn
<1>9. CASE MarkSent
  <2>1. topic' \in Partition(DelayMessage) /\ fetched' \in topic'.position..Len(topic'.log)
    BY <1>1, <1>9, MarkType, MarkShape DEF MarkSent
  <2> QED BY <1>1, <1>9, <2>1 DEF MarkSent
<1>10. CASE FailToSendOn
  <2>1. fails' \in 0..MaxFails
    BY <1>1, <1>10, DelayAssumption DEF FailToSendOn
  <2> QED BY <1>1, <1>6, <1>10, <2>1 DEF FailToSendOn, AfterFailure
<1>11. 0 \in 0..MaxTime
  BY DelayAssumption
<1>12. CASE TimerFires
  BY <1>1, <1>12, <1>11 DEF TimerFires, ResumeAt
<1>13. ASSUME NEW p \in Partition(DelayMessage), topic' = Rewind(p), fetched' = 0
       PROVE  topic' \in Partition(DelayMessage) /\ fetched' \in topic'.position..Len(topic'.log)
  <2>1. /\ topic' \in Partition(DelayMessage) /\ topic'.position = 0
        /\ topic'.log = p.log /\ Len(p.log) \in Nat
    BY <1>13, RewindType, RewindShape, PartitionShape
  <2> QED BY <1>13, <2>1
<1>14. Commit(topic) \in Partition(DelayMessage)
  BY <1>1, CommitType
<1>15. CASE EndRun
  BY <1>1, <1>13, <1>14, <1>15, <1>11 DEF EndRun
<1>16. CASE Die
  BY <1>1, <1>13, <1>16, <1>11 DEF Die
<1>17. CASE CommitMarks
  <2>1. /\ topic' \in Partition(DelayMessage) /\ topic'.position = topic.position - topic.marked
        /\ Len(topic'.log) = Len(topic.log) - topic.marked
    BY <1>14, <1>17, DelayFacts, CommitShape DEF CommitMarks
  <2>2. fetched' \in topic'.position..Len(topic'.log)
    BY <1>17, <2>1, DelayFacts DEF CommitMarks
  <2> QED BY <1>1, <1>17, <2>1, <2>2 DEF CommitMarks
<1> QED
  BY <1>2, <1>3, <1>4, <1>5, <1>7, <1>8, <1>9, <1>10, <1>12, <1>15, <1>16, <1>17 DEF DelayNext

\* What a step does to the log and the messages published, while their number
\* of committed ones stays: nothing, or one more of both.
LEMMA DelaySameLog ==
  ASSUME DelayInv, topic'.log = topic.log, published' = published
  PROVE  LogIsRest' /\ PublishedOnce' /\ Committed' = Committed
BY DEF DelayInv, LogIsRest, PublishedOnce, Committed

LEMMA DelaySend ==
  ASSUME DelayInv, NEW m \in Delayed, SendMessage(m)
  PROVE  DelayInv'
<1> DEFINE r == [message |-> m, due |-> now + Delay]
<1>1. DelayTypeOK'
  BY DelayTypeStep DEF DelayNext
<1>2. r \in DelayMessage
  <2>1. now + Delay \in 1..MaxTime
    BY DelayAssumption DEF SendMessage, DelayInv, DelayTypeOK
  <2> QED BY <2>1 DEF DelayMessage
<1>3. /\ topic'.position = topic.position /\ topic'.marked = topic.marked
      /\ Len(topic'.log) = Len(topic.log) + 1
      /\ \A i \in 1..Len(topic.log) : topic'.log[i] = topic.log[i]
      /\ topic'.log[Len(topic.log) + 1].message = m
  BY <1>2, DelayFacts, AppendShape DEF SendMessage
<1>4. /\ Len(published') = Len(published) + 1
      /\ \A i \in 1..Len(published) : published'[i] = published[i] /\ published[i] # m
      /\ published'[Len(published) + 1] = m
  <2>1. published \in Seq(Delayed) /\ published' = Append(published, m) /\ m \notin Range(published)
    BY DEF DelayInv, DelayTypeOK, SendMessage
  <2>2. \A i \in 1..Len(published) : published[i] # m
    BY <2>1 DEF Range
  <2> QED BY <2>1, <2>2
<1> HIDE DEF r
<1>5. Committed' = Committed
  BY <1>3, <1>4, DelayFacts DEF Committed
<1>6. LogIsRest'
  <2>1. ASSUME NEW i \in 1..Len(topic'.log)
        PROVE  topic'.log[i].message = published'[i + Committed]
    <3>1. CASE i \in 1..Len(topic.log)
      <4>1. i + Committed \in 1..Len(published)
        BY <3>1, DelayFacts
      <4> QED BY <1>3, <1>4, <3>1, <4>1 DEF DelayInv, LogIsRest
    <3>2. CASE i = Len(topic.log) + 1
      <4>1. i + Committed = Len(published) + 1
        BY <3>2, DelayFacts
      <4> QED BY <1>3, <1>4, <3>2, <4>1
    <3> QED BY <1>3, <2>1, <3>1, <3>2, DelayFacts
  <2>2. Len(topic'.log) <= Len(published')
    BY <1>3, <1>4, DelayFacts
  <2> QED BY <1>5, <2>1, <2>2 DEF LogIsRest
<1>7. PublishedOnce'
  <2>1. \A i \in 1..Len(published') : i \in 1..Len(published) \/ i = Len(published) + 1
    BY <1>4, DelayFacts
  <2> QED BY <1>4, <2>1 DEF DelayInv, PublishedOnce
<1>8. SendingIsLast'
  <2>1. sending' = sending /\ sent' = sent
    BY DEF SendMessage
  <2>2. sending # "none" => topic.position \in 1..Len(topic.log)
    BY DelayFacts DEF DelayInv, SendingIsLast
  <2> QED BY <1>3, <2>1, <2>2 DEF DelayInv, SendingIsLast
<1>9. \A i \in 1..Len(published) : i \in 1..Len(published')
  BY <1>4, DelayFacts
<1>10. MarkedBehindSent'
  <2>1. Committed' + topic'.marked = Committed + topic.marked /\ sent' = sent
    BY <1>3, <1>5 DEF SendMessage
  <2> QED BY <1>4, <1>9, <2>1 DEF DelayInv, MarkedBehindSent
<1>11. SkippedIsBehind'
  <2>1. /\ Committed' + topic'.position = Committed + topic.position
        /\ skipped' = skipped /\ running' = running
    BY <1>3, <1>5 DEF SendMessage
  <2>2. \A k \in 1..(Committed + topic.position) : k \in 1..Len(published)
    BY DelayFacts
  <2> QED BY <1>4, <2>1, <2>2 DEF DelayInv, SkippedIsBehind
<1>12. ~running' => topic'.position = 0
  BY <1>3 DEF SendMessage, DelayInv
<1> QED BY <1>1, <1>6, <1>7, <1>8, <1>10, <1>11, <1>12 DEF DelayInv

\* Steps that deliver nothing, mark nothing and commit nothing.
LEMMA DelayRest ==
  ASSUME DelayInv, Tick \/ Run \/ Fetch \/ TimerFires
  PROVE  DelayInv'
<1>1. DelayTypeOK'
  BY DelayTypeStep DEF DelayNext
<1>2. /\ topic' = topic /\ published' = published
      /\ sending' = sending /\ sent' = sent
      /\ \/ running' = running /\ skipped' = skipped
         \/ running' = TRUE /\ skipped' = {}
  BY DEF Tick, Run, Fetch, TimerFires, ResumeAt
<1>3. LogIsRest' /\ PublishedOnce' /\ Committed' = Committed
  BY <1>2, DelaySameLog
<1>4. SendingIsLast' /\ MarkedBehindSent'
  BY <1>2, <1>3 DEF DelayInv, SendingIsLast, MarkedBehindSent
<1>5. SkippedIsBehind' /\ (~running' => topic'.position = 0)
  BY <1>2, <1>3 DEF DelayInv, SkippedIsBehind
<1> QED BY <1>1, <1>3, <1>4, <1>5 DEF DelayInv

LEMMA DelayDeliver ==
  ASSUME DelayInv, PassOver \/ SendOn \/ FailToSendOn
  PROVE  DelayInv'
<1>1. DelayTypeOK'
  BY DelayTypeStep DEF DelayNext
<1>2. Ready /\ topic' = Deliver(topic) /\ published' = published /\ running' = running
  BY DEF PassOver, SendOn, FailToSendOn, AfterFailure
<1>3. /\ topic'.log = topic.log /\ topic'.marked = topic.marked
      /\ topic'.position = topic.position + 1
  BY <1>2, DelayFacts, DeliverShape
<1>4. LogIsRest' /\ PublishedOnce' /\ Committed' = Committed
  BY <1>2, <1>3, DelaySameLog
<1>5. /\ Next1.message = published[topic.position + 1 + Committed]
      /\ topic.position + 1 \in 1..Len(topic.log)
  BY <1>2, NextRecord
<1>6. SendingIsLast'
  <2>1. CASE SendOn
    <3>1. sending' = topic'.log[topic'.position].message /\ sending' \in sent'
      BY <1>3, <2>1 DEF SendOn, Next1
    <3>2. topic'.marked < topic'.position
      BY <1>3, DelayFacts
    <3> QED BY <3>1, <3>2 DEF SendingIsLast
  <2>2. CASE PassOver \/ FailToSendOn
    <3>1. sending' = "none"
      BY <2>2 DEF PassOver, FailToSendOn, Ready
    <3> QED BY <3>1 DEF SendingIsLast
  <2> QED BY <2>1, <2>2
<1>7. MarkedBehindSent'
  <2>1. sent \subseteq sent'
    BY DEF PassOver, SendOn, FailToSendOn
  <2> QED BY <1>2, <1>3, <1>4, <2>1 DEF DelayInv, MarkedBehindSent
<1>8. SkippedIsBehind'
  <2>1. \A m \in skipped' : m \in skipped \/ m = Next1.message
    BY DEF PassOver, SendOn, FailToSendOn
  <2>2. \A k \in 1..(Committed + topic.position) : k \in 1..(Committed' + topic'.position)
    BY <1>3, <1>4, DelayFacts
  <2>3. topic.position + 1 + Committed \in 1..(Committed' + topic'.position)
    BY <1>3, <1>4, DelayFacts
  <2> QED BY <1>2, <1>5, <2>1, <2>2, <2>3 DEF DelayInv, SkippedIsBehind, Ready
<1>9. running'
  BY <1>2 DEF Ready
<1> QED BY <1>1, <1>4, <1>6, <1>7, <1>8, <1>9 DEF DelayInv

LEMMA DelayMark ==
  ASSUME DelayInv, MarkSent
  PROVE  DelayInv'
<1>1. DelayTypeOK'
  BY DelayTypeStep DEF DelayNext
<1>2. /\ topic'.log = topic.log /\ topic'.marked = topic.position
      /\ topic'.position = topic.position
  BY DelayFacts, MarkShape DEF MarkSent
<1>3. published' = published /\ sent' = sent /\ sending' = "none"
  BY DEF MarkSent
<1>4. LogIsRest' /\ PublishedOnce' /\ Committed' = Committed
  BY <1>2, <1>3, DelaySameLog
<1>5. sending \in sent /\ sending = topic.log[topic.position].message /\ topic.position \in 1..Len(topic.log)
  BY DelayFacts DEF MarkSent, DelayInv, SendingIsLast
<1>6. published[topic.position + Committed] \in sent
  BY <1>5 DEF DelayInv, LogIsRest
<1>7. topic.position + Committed \in 1..Len(published)
  BY <1>5, DelayFacts
<1>8. MarkedBehindSent'
  <2>1. \A i \in 1..(Committed + topic.position) : i <= topic.position + Committed
    BY DelayFacts
  <2> QED BY <1>2, <1>3, <1>4, <1>6, <1>7, <2>1 DEF MarkedBehindSent
<1>9. SkippedIsBehind' /\ (~running' => topic'.position = 0)
  BY <1>2, <1>3, <1>4 DEF MarkSent, DelayInv, SkippedIsBehind
<1> QED BY <1>1, <1>3, <1>4, <1>8, <1>9 DEF DelayInv, SendingIsLast

\* A partition at its committed offset: what the session marked before it
\* ended is committed or forgotten.
LEMMA DelayEnd ==
  ASSUME DelayInv, EndRun \/ Die
  PROVE  DelayInv'
<1>1. DelayTypeOK'
  BY DelayTypeStep DEF DelayNext
<1>2. published' = published /\ sent' = sent /\ sending' = "none" /\ running' = FALSE
  BY DEF EndRun, Die
<1>3. topic'.position = 0 /\ topic'.marked = 0
  BY DelayFacts, CommitType, RewindShape DEF EndRun, Die
<1>4. CASE EndRun
  <2>1. Commit(topic) \in Partition(DelayMessage) /\ topic' = Rewind(Commit(topic))
    BY <1>4, DelayFacts, CommitType DEF EndRun
  <2>2. /\ Len(topic'.log) = Len(topic.log) - topic.marked
        /\ \A i \in 1..Len(topic'.log) : topic'.log[i] = topic.log[i + topic.marked]
    BY <2>1, DelayFacts, CommitShape, RewindShape
  <2>3. Committed' = Committed + topic.marked
    BY <1>2, <2>2, DelayFacts DEF Committed
  <2>4. LogIsRest'
    <3>1. ASSUME NEW i \in 1..Len(topic'.log)
          PROVE  topic'.log[i].message = published'[i + Committed']
      <4>1. i + topic.marked \in 1..Len(topic.log) /\ i + topic.marked + Committed = i + Committed'
        BY <2>2, <2>3, DelayFacts
      <4> QED BY <1>2, <2>2, <4>1 DEF DelayInv, LogIsRest
    <3>2. Len(topic'.log) <= Len(published')
      BY <1>2, <2>2, DelayFacts
    <3> QED BY <3>1, <3>2 DEF LogIsRest
  <2>5. MarkedBehindSent'
    <3>1. Committed' + topic'.marked = Committed + topic.marked
      BY <1>3, <2>3, DelayFacts
    <3> QED BY <1>2, <3>1 DEF DelayInv, MarkedBehindSent
  <2> QED BY <1>1, <1>2, <1>3, <2>4, <2>5
          DEF DelayInv, PublishedOnce, SendingIsLast, SkippedIsBehind
<1>5. CASE Die
  <2>1. topic'.log = topic.log
    BY <1>5, DelayFacts, RewindShape DEF Die
  <2>2. LogIsRest' /\ PublishedOnce' /\ Committed' = Committed
    BY <1>2, <2>1, DelaySameLog
  <2>3. \A i \in 1..(Committed' + topic'.marked) : i \in 1..(Committed + topic.marked)
    BY <1>3, <2>2, DelayFacts
  <2> QED BY <1>1, <1>2, <1>3, <2>2, <2>3
          DEF DelayInv, MarkedBehindSent, SendingIsLast, SkippedIsBehind
<1> QED BY <1>4, <1>5

LEMMA DelayCommit ==
  ASSUME DelayInv, CommitMarks
  PROVE  DelayInv'
<1>1. DelayTypeOK'
  BY DelayTypeStep DEF DelayNext
<1>2. /\ published' = published /\ sent' = sent /\ sending' = sending
      /\ running' = running /\ running /\ skipped' = skipped /\ topic' = Commit(topic)
  BY DEF CommitMarks
<1>3. /\ topic'.position = topic.position - topic.marked /\ topic'.marked = 0
      /\ Len(topic'.log) = Len(topic.log) - topic.marked
      /\ \A i \in 1..Len(topic'.log) : topic'.log[i] = topic.log[i + topic.marked]
  BY <1>2, DelayFacts, CommitShape
<1>4. Committed' = Committed + topic.marked
  BY <1>2, <1>3, DelayFacts DEF Committed
<1>5. LogIsRest'
  <2>1. ASSUME NEW i \in 1..Len(topic'.log)
        PROVE  topic'.log[i].message = published'[i + Committed']
    <3>1. i \in 1..(Len(topic.log) - topic.marked)
      BY <1>3, <2>1
    <3>2. i + topic.marked \in 1..Len(topic.log) /\ i + topic.marked + Committed = i + Committed'
      <4>1. /\ Len(topic.log) \in Nat /\ topic.marked \in Nat
            /\ topic.marked <= Len(topic.log) /\ Committed \in Nat
        BY DelayFacts
      <4> QED BY <1>4, <3>1, <4>1
    <3> QED BY <1>2, <1>3, <3>2 DEF DelayInv, LogIsRest
  <2>2. Len(topic'.log) <= Len(published')
    BY <1>2, <1>3, DelayFacts
  <2> QED BY <2>1, <2>2 DEF LogIsRest
<1>6. MarkedBehindSent'
  <2>1. Committed' + topic'.marked = Committed + topic.marked
    BY <1>3, <1>4, DelayFacts
  <2> QED BY <1>2, <2>1 DEF DelayInv, MarkedBehindSent
<1>7. SendingIsLast'
  <2>1. ASSUME sending # "none"
        PROVE  topic'.position \in 1..Len(topic'.log) /\ topic'.position + topic.marked = topic.position
    BY <1>3, <2>1, DelayFacts DEF DelayInv, SendingIsLast
  <2>2. sending # "none" => topic'.log[topic'.position] = topic.log[topic.position]
    BY <1>3, <2>1
  <2>3. sending # "none" => topic'.marked < topic'.position
    BY <1>3, <2>1
  <2> QED BY <1>2, <2>2, <2>3 DEF DelayInv, SendingIsLast
<1>8. SkippedIsBehind'
  <2>1. Committed' + topic'.position = Committed + topic.position
    BY <1>3, <1>4, DelayFacts
  <2> QED BY <1>2, <2>1 DEF DelayInv, SkippedIsBehind
<1> QED BY <1>1, <1>2, <1>5, <1>6, <1>7, <1>8 DEF DelayInv, PublishedOnce

LEMMA DelayInvStep == DelayInv /\ [DelayNext]_delayVars => DelayInv'
<1> SUFFICES ASSUME DelayInv, [DelayNext]_delayVars PROVE DelayInv'
  OBVIOUS
<1>1. CASE UNCHANGED delayVars
  BY <1>1 DEF delayVars, DelayInv, DelayTypeOK, LogIsRest, PublishedOnce, SendingIsLast,
              MarkedBehindSent, SkippedIsBehind, Committed
<1>2. CASE DelayNext
  BY <1>2, DelaySend, DelayRest, DelayDeliver, DelayMark, DelayEnd, DelayCommit DEF DelayNext
<1> QED BY <1>1, <1>2

\* The delay queue keeps its types.
THEOREM DelayTypeCorrect == DelaySpec => []DelayTypeOK
<1>1. DelayInv => DelayTypeOK
  BY DEF DelayInv
<1> QED BY <1>1, DelayInvInit, DelayInvStep, PTL DEF DelaySpec

LEMMA LostFollows == DelayInv => LostBehindALater
<1> SUFFICES ASSUME DelayInv, NEW i \in DOMAIN published,
                    published[i] \notin sent, ~ Redelivered(published[i])
             PROVE  \E j \in DOMAIN published : j > i /\ published[j] \in sent
  BY DEF LostBehindALater
<1>1. DOMAIN published = 1..Len(published) /\ i \in 1..Len(published)
  BY DEF DelayInv, DelayTypeOK
<1>2. i \in 1..(Committed + topic.marked)
  <2>1. SUFFICES ASSUME ~ (i \in 1..(Committed + topic.marked)) PROVE FALSE
    OBVIOUS
  <2>2. /\ i - Committed \in (topic.marked + 1)..Len(topic.log)
        /\ i - Committed \in 1..Len(topic.log) /\ (i - Committed) + Committed = i
    BY <1>1, <2>1, DelayFacts
  <2>3. topic.log[i - Committed].message = published[i]
    BY <2>2 DEF DelayInv, LogIsRest
  <2> QED BY <2>2, <2>3 DEF Redelivered, Kept
<1>3. PICK j \in 1..Len(published) : i <= j /\ published[j] \in sent
  BY <1>2 DEF DelayInv, MarkedBehindSent
<1>4. j > i
  BY <1>1, <1>3, DelayFacts
<1> QED BY <1>1, <1>3, <1>4

\* A message the delay queue has lost, that is, one neither sent on nor kept
\* for the next session, is always behind a later one that was sent: it was
\* passed over or failed, and the mark of the later one took it along.
THEOREM DelayLosesBehindSent == DelaySpec => []LostBehindALater
BY DelayInvInit, DelayInvStep, LostFollows, PTL DEF DelaySpec

\* What a session has passed over because it was not due, the session never
\* sends on: neither the timer nor the resumed partition brings it back.
THEOREM PassedOverIsNotSent == DelaySpec => PassedOverWaits
<1>1. DelayInv /\ [DelayNext]_delayVars
        => [\A m \in skipped : m \in sent' => m \in sent]_delayVars
  <2> SUFFICES ASSUME DelayInv, DelayNext, NEW m \in skipped, m \in sent', m \notin sent
               PROVE  FALSE
    OBVIOUS
  <2>1. SendOn /\ m = Next1.message
    <3>1. SendOn \/ sent' = sent
      BY DEF DelayNext, Tick, SendMessage, Run, Fetch, PassOver, MarkSent,
             FailToSendOn, TimerFires, EndRun, Die, CommitMarks
    <3> QED BY <3>1 DEF SendOn
  <2>2. /\ Ready /\ m = published[topic.position + 1 + Committed]
        /\ topic.position + 1 \in 1..Len(topic.log)
    BY <2>1, NextRecord DEF SendOn
  <2>3. PICK k \in 1..(Committed + topic.position) : published[k] = m
    BY <2>2 DEF DelayInv, SkippedIsBehind, Ready
  <2>4. /\ topic.position \in Nat /\ Committed \in Nat /\ Len(topic.log) \in Nat
        /\ topic.position <= Len(topic.log) /\ Committed + Len(topic.log) = Len(published)
    BY DelayFacts
  <2>5. k # topic.position + 1 + Committed
    BY <2>3, <2>4
  <2>6. k \in 1..Len(published) /\ topic.position + 1 + Committed \in 1..Len(published)
    BY <2>2, <2>3, <2>4
  <2> QED BY <2>2, <2>3, <2>5, <2>6 DEF DelayInv, PublishedOnce
<1> QED BY <1>1, DelayInvInit, DelayInvStep, PTL DEF DelaySpec, PassedOverWaits
-----------------------------------------------------------------------------
(* The process. *)

LEMMA NeedsType ==
  ASSUME NEW s \in Service
  PROVE  Needs(s) \in Seq(Dependency) /\ Len(Needs(s)) \in Nat
<1>1. s \in {"auth", "inventory", "order", "payment", "product"}
  BY RuntimeAssumption
<1>2. Needs(s) \in {AuthNeeds, InventoryNeeds, OrderNeeds, PaymentNeeds, ProductNeeds}
  BY <1>1 DEF Needs
<1>3. /\ AuthNeeds \in Seq(Dependency) /\ InventoryNeeds \in Seq(Dependency)
      /\ OrderNeeds \in Seq(Dependency) /\ PaymentNeeds \in Seq(Dependency)
      /\ ProductNeeds \in Seq(Dependency)
  BY DEF AuthNeeds, InventoryNeeds, OrderNeeds, PaymentNeeds, ProductNeeds, Dependency
<1> QED BY <1>2, <1>3

\* Only the loops of this service's runner ever run, and one has returned
\* only if one has failed.
LoopsInv ==
  /\ \A l \in AllLoops : loop[l] # "idle" => l \in LoopsOf
  /\ \A l \in LoopsOf : loop[l] = "returned" => LoopsOf \cap failed # {}

RuntimeInv == RuntimeTypeOK /\ LoopsInv

LEMMA LoopsAreLoops == service \in Service => LoopsOf \subseteq AllLoops
BY DEF LoopsOf, AllLoops

LEMMA NothingStarted ==
  ASSUME service' \in Service, server' = NoServer, closed' = {}, loop' = Idle,
         failed' = {}, wired' = 0
  PROVE  /\ LoopsInv'
         /\ server' \in [HTTPServers -> {"idle", "listening", "returned"}]
         /\ loop' \in [AllLoops -> {"idle", "running", "returned"}]
         /\ wired' \in 0..Len(Needs(service'))
<1>1. wired' \in 0..Len(Needs(service'))
  BY NeedsType
<1>2. /\ \A l \in AllLoops : loop'[l] = "idle"
      /\ loop' \in [AllLoops -> {"idle", "running", "returned"}]
  BY DEF Idle
<1>3. LoopsInv'
  BY <1>2, LoopsAreLoops DEF LoopsInv, LoopsOf, AllLoops
<1> QED BY <1>1, <1>2, <1>3 DEF NoServer

LEMMA RuntimeInvInit == RuntimeInit => RuntimeInv
<1> SUFFICES ASSUME RuntimeInit PROVE RuntimeInv
  OBVIOUS
<1>1. wired \in 0..Len(Needs(service))
  BY NeedsType DEF RuntimeInit
<1>2. \A l \in AllLoops : loop[l] = "idle"
  BY DEF RuntimeInit, Idle
<1>3. LoopsInv
  BY <1>2, LoopsAreLoops DEF LoopsInv, RuntimeInit
<1>4. loop \in [AllLoops -> {"idle", "running", "returned"}]
  BY DEF RuntimeInit, Idle
<1>5. 0 \in 0..MaxOutages /\ 0 \in 0..MaxSignals
  BY RuntimeAssumption
<1> QED BY <1>1, <1>3, <1>4, <1>5 DEF RuntimeInit, RuntimeInv, RuntimeTypeOK, NoServer

\* Steps of the environment, of wireApp and of a signal: no loop moves.
LEMMA RuntimeOutside ==
  ASSUME RuntimeInv,
         \/ \E d \in Dependency : BecomeUnavailable(d) \/ Recover(d)
         \/ Kill \/ Connect \/ Panic \/ Bootstrap \/ Signal \/ Exit
  PROVE  RuntimeInv'
<1> USE DEF RuntimeInv, RuntimeTypeOK
<1>1. /\ service' = service /\ server' = server /\ closed' = closed
      /\ loop' = loop /\ failed' = failed
  BY DEF BecomeUnavailable, Recover, Kill, Connect, Panic, Bootstrap, Signal, Exit, processVars
<1>2. LoopsInv'
  BY <1>1 DEF LoopsInv, LoopsOf, AllLoops
<1>3. outages' \in 0..MaxOutages /\ signals' \in 0..MaxSignals
  BY RuntimeAssumption
     DEF BecomeUnavailable, Recover, Kill, Connect, Panic, Bootstrap, Signal, Exit, processVars
<1>4. wired' \in 0..Len(Needs(service))
  BY NeedsType
     DEF BecomeUnavailable, Recover, Kill, Connect, Panic, Bootstrap, Signal, Exit, processVars
<1>5. /\ available' \subseteq Dependency /\ signalled' \in BOOLEAN
      /\ phase' \in {"absent", "wiring", "running", "exited", "down"}
  BY DEF BecomeUnavailable, Recover, Kill, Connect, Panic, Bootstrap, Signal, Exit, processVars
<1> QED BY <1>1, <1>2, <1>3, <1>4, <1>5

LEMMA RuntimeBoot ==
  ASSUME RuntimeInv, Boot
  PROVE  RuntimeInv'
<1>1. service' \in Service
  BY DEF RuntimeInv, RuntimeTypeOK, Boot
<1> QED BY <1>1, NothingStarted DEF RuntimeInv, RuntimeTypeOK, Boot

LEMMA RuntimeServer ==
  ASSUME RuntimeInv, NEW s \in HTTPServers, StartServer(s) \/ FailToListen(s) \/ StopServer(s)
  PROVE  RuntimeInv'
<1> USE DEF RuntimeInv, RuntimeTypeOK
<1>1. /\ service' = service /\ loop' = loop /\ failed \subseteq failed'
      /\ failed' \subseteq (HTTPServers \cup AllLoops)
  BY DEF StartServer, FailToListen, StopServer, LoopsAfterStop
<1>2. LoopsInv'
  BY <1>1 DEF LoopsInv, LoopsOf, AllLoops
<1>3. server' \in [HTTPServers -> {"idle", "listening", "returned"}]
  BY DEF StartServer, FailToListen, StopServer, Stopped
<1>4. outages' \in 0..MaxOutages /\ signals' \in 0..MaxSignals
  BY RuntimeAssumption DEF StartServer, FailToListen, StopServer
<1> QED BY <1>1, <1>2, <1>3, <1>4 DEF StartServer, FailToListen, StopServer

LEMMA RuntimeRunner ==
  ASSUME RuntimeInv, StartRunner
  PROVE  RuntimeInv'
<1>1. /\ loop' \in [AllLoops -> {"idle", "running", "returned"}]
      /\ \A l \in LoopsOf : l \in AllLoops /\ loop'[l] = "running"
      /\ \A l \in AllLoops \ LoopsOf : loop'[l] = loop[l]
      /\ service' = service
  BY LoopsAreLoops DEF StartRunner, Started, RuntimeInv, RuntimeTypeOK
<1>2. LoopsInv'
  BY <1>1 DEF LoopsInv, LoopsOf, AllLoops, RuntimeInv
<1> QED BY <1>1, <1>2 DEF StartRunner, RuntimeInv, RuntimeTypeOK

LEMMA RuntimeLoop ==
  ASSUME RuntimeInv, NEW l \in AllLoops, FailLoop(l) \/ EndLoop(l)
  PROVE  RuntimeInv'
<1> USE DEF RuntimeInv, RuntimeTypeOK
<1>1. /\ service' = service /\ loop' = [loop EXCEPT ![l] = "returned"]
      /\ failed \subseteq failed' /\ failed' \subseteq (HTTPServers \cup AllLoops)
  BY DEF FailLoop, EndLoop
<1>2. l \in LoopsOf
  BY DEF LoopsInv, FailLoop, EndLoop
<1>3. LoopsOf \cap failed' # {}
  BY <1>2 DEF FailLoop, EndLoop, Cancelled
<1>4. LoopsInv'
  BY <1>1, <1>2, <1>3 DEF LoopsInv, LoopsOf, AllLoops
<1> QED BY <1>1, <1>4 DEF FailLoop, EndLoop, ServersAfterFailure

LEMMA RuntimeInvStep == RuntimeInv /\ [RuntimeNext]_runtimeVars => RuntimeInv'
<1> SUFFICES ASSUME RuntimeInv, [RuntimeNext]_runtimeVars PROVE RuntimeInv'
  OBVIOUS
<1>1. CASE UNCHANGED runtimeVars
  BY <1>1 DEF runtimeVars, processVars, RuntimeInv, RuntimeTypeOK, LoopsInv, LoopsOf
<1>2. CASE RuntimeNext
  BY <1>2, RuntimeOutside, RuntimeBoot, RuntimeServer, RuntimeRunner, RuntimeLoop DEF RuntimeNext
<1> QED BY <1>1, <1>2

\* A process keeps its types.
THEOREM RuntimeTypeCorrect == RuntimeSpec => []RuntimeTypeOK
<1>1. RuntimeInv => RuntimeTypeOK
  BY DEF RuntimeInv
<1> QED BY <1>1, RuntimeInvInit, RuntimeInvStep, PTL DEF RuntimeSpec

\* A process that has a runner exits by itself only after one of the runner's
\* loops has failed: a signal alone leaves it waiting for its loops.
THEOREM SignalIsNotEnough == RuntimeSpec => SignalDoesNotEndRunner
<1>1. RuntimeInv /\ [RuntimeNext]_runtimeVars
        => [(phase = "running" /\ phase' = "exited" /\ LoopsOf # {})
              => LoopsOf \cap failed # {}]_runtimeVars
  <2> SUFFICES ASSUME RuntimeInv, RuntimeNext, phase = "running", phase' = "exited", LoopsOf # {}
               PROVE  LoopsOf \cap failed # {}
    OBVIOUS
  <2>1. Exit
    BY DEF RuntimeNext, BecomeUnavailable, Recover, Boot, Kill, Connect, Panic, Bootstrap,
           StartServer, FailToListen, StopServer, StartRunner, FailLoop, EndLoop, Signal, processVars
  <2> QED BY <2>1 DEF Exit, RuntimeInv, LoopsInv
<1> QED BY <1>1, RuntimeInvInit, RuntimeInvStep, PTL DEF RuntimeSpec, SignalDoesNotEndRunner

\* While a process runs and has not been signalled, what listens goes on
\* listening, whatever becomes of the loops of its runner.
THEOREM RunnerTakesNoListenerDown == RuntimeSpec => ServingOutlivesRunner
<1>1. RuntimeInv /\ [RuntimeNext]_runtimeVars
        => [(phase = "running" /\ phase' = "running" /\ ~signalled)
              => Listening \subseteq Listening']_runtimeVars
  <2> SUFFICES ASSUME RuntimeInv, RuntimeNext, phase = "running", phase' = "running", ~signalled
               PROVE  Listening \subseteq Listening'
    OBVIOUS
  <2>1. CASE \E s \in HTTPServers : StartServer(s) \/ FailToListen(s)
    BY <2>1 DEF StartServer, FailToListen, Listening, RuntimeInv, RuntimeTypeOK
  <2>2. server' = server \/ (\E s \in HTTPServers : StartServer(s) \/ FailToListen(s))
    BY DEF RuntimeNext, BecomeUnavailable, Recover, Boot, Kill, Connect, Panic, Bootstrap,
           StopServer, StartRunner, FailLoop, EndLoop, ServersAfterFailure, Signal, Exit, processVars
  <2> QED BY <2>1, <2>2 DEF Listening
<1> QED BY <1>1, RuntimeInvInit, RuntimeInvStep, PTL DEF RuntimeSpec, ServingOutlivesRunner
-----------------------------------------------------------------------------
(* All of them together: a step of one leaves the others as they are. *)

BackgroundInv == RetryInv /\ DelayInv /\ RuntimeInv

\* The retry queue, the delay queue and the process keep their types when any
\* one of them runs beside the others.
THEOREM BackgroundTypeCorrect == Spec => []TypeOK
<1>1. Init => BackgroundInv
  BY RetryInvInit, DelayInvInit, RuntimeInvInit DEF Init, BackgroundInv
<1>2. BackgroundInv /\ [Next]_vars => BackgroundInv'
  <2>1. [Next]_vars => [RetryNext]_retryVars /\ [DelayNext]_delayVars /\ [RuntimeNext]_runtimeVars
    BY DEF Next, vars
  <2> QED BY <2>1, RetryInvStep, DelayInvStep, RuntimeInvStep DEF BackgroundInv
<1>3. BackgroundInv => TypeOK
  BY DEF BackgroundInv, TypeOK, RetryInv, DelayInv, RuntimeInv
<1> QED BY <1>1, <1>2, <1>3, PTL DEF Spec
=============================================================================
