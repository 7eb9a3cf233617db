---------------------------- MODULE OutboxProofs ----------------------------
(***************************************************************************)
(* Proofs about Outbox for every set of messages, every finite set of      *)
(* pollers and every batch size and retry limit: the type invariant, the   *)
(* three safety invariants, and that the outbox implements the safety part *)
(* of AtLeastOnce.                                                         *)
(***************************************************************************)
EXTENDS Outbox, FiniteSetTheorems, TLAPS

\* The pollers that have counted a failed dispatch of m but not committed it,
\* and those that may still commit one.
Failing(m) == {w \in Worker : m \in failedIDs[w]}
Trying(m)  == {w \in Worker : m \in batch[w] \cup failedIDs[w]}

ListedAreSaved ==
  \A w \in Worker : \A m \in batch[w] \cup sentIDs[w] \cup failedIDs[w] :
    row[m].status # "absent"

SentIDsDelivered == \A w \in Worker : sentIDs[w] \subseteq delivered

FailuresCounted ==
  \A m \in Message : row[m].retries + Cardinality(Failing(m)) <= failures[m]

OverrunCounted ==
  \A m \in Message :
    row[m].retries + Cardinality(Trying(m)) <= MaxRetry + Cardinality(Worker) - 1

IInv == /\ TypeOK
        /\ ListedAreSaved
        /\ SentIDsDelivered
        /\ SentWasDelivered
        /\ FailuresCounted
        /\ OverrunCounted
-----------------------------------------------------------------------------
(* Cardinalities of sets of pollers. *)

LEMMA PollersFinite ==
  ASSUME NEW T \in SUBSET Worker
  PROVE  /\ IsFiniteSet(T)
         /\ Cardinality(T) \in Nat
         /\ Cardinality(Worker) \in Nat \ {0}
         /\ Cardinality(T) <= Cardinality(Worker)
<1>1. IsFiniteSet(Worker) /\ Worker # {}
  BY OutboxAssumption
<1>2. IsFiniteSet(T) /\ Cardinality(T) <= Cardinality(Worker)
  BY <1>1, FS_Subset
<1>3. Cardinality(T) \in Nat /\ Cardinality(Worker) \in Nat
  BY <1>1, <1>2, FS_CardinalityType
<1>4. Cardinality(Worker) # 0
  BY <1>1, FS_EmptySet
<1> QED BY <1>2, <1>3, <1>4

LEMMA FewerPollers ==
  ASSUME NEW T \in SUBSET Worker, NEW S \in SUBSET T
  PROVE  Cardinality(S) \in Nat /\ Cardinality(T) \in Nat /\ Cardinality(S) <= Cardinality(T)
<1>1. IsFiniteSet(T)
  BY PollersFinite
<1>2. S \in SUBSET Worker
  OBVIOUS
<1> QED BY <1>1, <1>2, FS_Subset, PollersFinite

LEMMA OnePollerLess ==
  ASSUME NEW T \in SUBSET Worker, NEW w \in T, NEW S \in SUBSET (T \ {w})
  PROVE  Cardinality(S) \in Nat /\ Cardinality(T) \in Nat /\ Cardinality(S) + 1 <= Cardinality(T)
<1>1. IsFiniteSet(T) /\ Cardinality(T) \in Nat
  BY PollersFinite
<1>2. Cardinality(T \ {w}) = Cardinality(T) - 1
  BY <1>1, FS_RemoveElement
<1>3. T \ {w} \in SUBSET Worker
  OBVIOUS
<1>4. Cardinality(S) \in Nat /\ Cardinality(S) <= Cardinality(T \ {w})
  BY <1>3, FewerPollers
<1> QED BY <1>1, <1>2, <1>4

LEMMA OnePollerMore ==
  ASSUME NEW T \in SUBSET Worker, NEW w \in Worker, NEW S \in SUBSET (T \cup {w})
  PROVE  Cardinality(S) \in Nat /\ Cardinality(T) \in Nat /\ Cardinality(S) <= Cardinality(T) + 1
<1>1. IsFiniteSet(T) /\ Cardinality(T) \in Nat
  BY PollersFinite
<1>2. Cardinality(T \cup {w}) <= Cardinality(T) + 1
  BY <1>1, FS_AddElement
<1>3. T \cup {w} \in SUBSET Worker
  OBVIOUS
<1>4. Cardinality(S) \in Nat /\ Cardinality(T \cup {w}) \in Nat /\ Cardinality(S) <= Cardinality(T \cup {w})
  BY <1>3, FewerPollers
<1> QED BY <1>1, <1>2, <1>4
-----------------------------------------------------------------------------
(* The initial state. *)

LEMMA IInvInit == Init => IInv
<1> SUFFICES ASSUME Init PROVE IInv
  OBVIOUS
<1>1. TypeOK
  BY OutboxAssumption DEF Init, TypeOK, Status
<1>2. ListedAreSaved /\ SentIDsDelivered /\ SentWasDelivered
  BY DEF Init, ListedAreSaved, SentIDsDelivered, SentWasDelivered
<1>3. \A m \in Message : Failing(m) = {} /\ Trying(m) = {} /\ row[m].retries = 0 /\ failures[m] = 0
  BY DEF Init, Failing, Trying
<1>4. Cardinality({}) = 0
  BY FS_EmptySet
<1>5. Cardinality(Worker) \in Nat \ {0} /\ MaxRetry \in Nat
  BY OutboxAssumption, PollersFinite
<1>6. FailuresCounted
  BY <1>3, <1>4 DEF FailuresCounted
<1>7. OverrunCounted
  <2>1. \A m \in Message : Cardinality(Trying(m)) = 0
    BY <1>3, <1>4
  <2>2. 0 + 0 <= MaxRetry + Cardinality(Worker) - 1
    BY <1>5
  <2> QED BY <1>3, <2>1, <2>2 DEF OverrunCounted
<1> QED BY <1>1, <1>2, <1>6, <1>7 DEF IInv
-----------------------------------------------------------------------------
(* The type invariant. *)

RowType == [status : Status, retries : Nat, due : BOOLEAN]

LEMMA MarkedRows ==
  ASSUME NEW r \in RowType
  PROVE  /\ MarkFailed(r) \in RowType
         /\ MarkFailed(r).status = r.status
         /\ MarkFailed(r).retries = r.retries + 1
         /\ MarkSent(r) \in RowType
         /\ MarkSent(r).status = "sent"
         /\ MarkSent(r).retries = r.retries
<1>1. /\ MarkFailed(r) \in RowType
      /\ MarkFailed(r).status = r.status
      /\ MarkFailed(r).retries = r.retries + 1
  BY DEF RowType, MarkFailed
<1>2. /\ MarkSent(r) \in RowType
      /\ MarkSent(r).status = "sent"
      /\ MarkSent(r).retries = r.retries
  BY DEF RowType, MarkSent, Status
<1> QED BY <1>1, <1>2

LEMMA TypeOKStep ==
  ASSUME TypeOK, [Next]_vars
  PROVE  TypeOK'
<1> USE OutboxAssumption DEF TypeOK, Status, poll, history, MarkID
<1>1. ASSUME NEW m \in Message, Save(m) PROVE TypeOK'
  BY <1>1 DEF Save
<1>2. ASSUME NEW m \in Message, BecomeDue(m) PROVE TypeOK'
  BY <1>2 DEF BecomeDue
<1>3. ASSUME NEW w \in Worker, Poll(w) PROVE TypeOK'
  <2>1. PICK B \in Batches(Due) : batch' = [batch EXCEPT ![w] = B]
    BY <1>3 DEF Poll
  <2>2. B \in SUBSET Message
    BY <2>1 DEF Batches, Due
  <2> QED BY <1>3, <2>1, <2>2 DEF Poll
<1>4. ASSUME NEW w \in Worker, NEW m \in Message, DispatchSucceeds(w, m) PROVE TypeOK'
  BY <1>4 DEF DispatchSucceeds
<1>5. ASSUME NEW w \in Worker, NEW m \in Message, DispatchFails(w, m) PROVE TypeOK'
  BY <1>5 DEF DispatchFails
<1>6. ASSUME NEW w \in Worker, AllDispatched(w) PROVE TypeOK'
  BY <1>6 DEF AllDispatched
<1>7. ASSUME NEW w \in Worker, NEW m \in Message, LockRow(w, m) PROVE TypeOK'
  BY <1>7 DEF LockRow
<1>8. ASSUME NEW w \in Worker, Commit(w) PROVE TypeOK'
  <2>1. \A m \in Message : row[m] \in RowType
    BY DEF RowType
  <2>2. \A m \in Message : MarkFailed(row[m]) \in RowType /\ MarkSent(row[m]) \in RowType
    BY <2>1, MarkedRows
  <2>3. row' \in [Message -> [status : Status, retries : Nat, due : BOOLEAN]]
    BY <1>8, <2>1, <2>2 DEF Commit, RowType
  <2> QED BY <1>8, <2>3 DEF Commit, EndPoll, Released
<1>9. ASSUME NEW w \in Worker, DeadlockAbort(w) PROVE TypeOK'
  <2>1. \E v \in Worker : \E m \in Message : owner' = [Released(w) EXCEPT ![m] = v]
    BY <1>9 DEF DeadlockAbort, Wanted
  <2>2. Released(w) \in [Message -> Worker \cup {NoWorker}]
    BY DEF Released
  <2>3. owner' \in [Message -> Worker \cup {NoWorker}]
    BY <2>1, <2>2
  <2> QED BY <1>9, <2>3 DEF DeadlockAbort, EndPoll
<1>10. ASSUME NEW w \in Worker, Rollback(w) PROVE TypeOK'
  BY <1>10 DEF Rollback, EndPoll, Released
<1>11. CASE UNCHANGED vars
  BY <1>11 DEF vars
<1> QED BY <1>1, <1>2, <1>3, <1>4, <1>5, <1>6, <1>7, <1>8, <1>9, <1>10, <1>11 DEF Next, Step
-----------------------------------------------------------------------------
(* What a poller lists has been saved, and what it will mark sent delivered. *)

LEMMA ListedStep ==
  ASSUME TypeOK, ListedAreSaved, [Next]_vars
  PROVE  ListedAreSaved'
<1> USE DEF TypeOK, Status, poll, history, MarkID, ListedAreSaved
<1>1. ASSUME NEW m \in Message, Save(m) PROVE ListedAreSaved'
  BY <1>1 DEF Save
<1>2. ASSUME NEW m \in Message, BecomeDue(m) PROVE ListedAreSaved'
  BY <1>2 DEF BecomeDue
<1>3. ASSUME NEW w \in Worker, Poll(w) PROVE ListedAreSaved'
  <2>1. PICK B \in Batches(Due) : batch' = [batch EXCEPT ![w] = B]
    BY <1>3 DEF Poll
  <2>2. B \subseteq Due
    BY <2>1 DEF Batches
  <2>3. \A m \in B : row[m].status # "absent"
    BY <2>2 DEF Due
  <2> QED BY <1>3, <2>1, <2>3 DEF Poll
<1>4. ASSUME NEW w \in Worker, NEW m \in Message,
             DispatchSucceeds(w, m) \/ DispatchFails(w, m)
      PROVE ListedAreSaved'
  <2>1. m \in batch[w]
    BY <1>4 DEF DispatchSucceeds, DispatchFails
  <2>2. batch' = [batch EXCEPT ![w] = @ \ {m}]
    BY <1>4 DEF DispatchSucceeds, DispatchFails
  <2>3. \/ sentIDs' = [sentIDs EXCEPT ![w] = @ \cup {m}] /\ failedIDs' = failedIDs
        \/ failedIDs' = [failedIDs EXCEPT ![w] = @ \cup {m}] /\ sentIDs' = sentIDs
    BY <1>4 DEF DispatchSucceeds, DispatchFails
  <2>4. \A v \in Worker : \A n \in batch'[v] \cup sentIDs'[v] \cup failedIDs'[v] :
          n \in batch[v] \cup sentIDs[v] \cup failedIDs[v]
    BY <2>1, <2>2, <2>3
  <2>5. row' = row
    BY <1>4 DEF DispatchSucceeds, DispatchFails
  <2> QED BY <2>4, <2>5
<1>5. ASSUME NEW w \in Worker, AllDispatched(w) PROVE ListedAreSaved'
  BY <1>5 DEF AllDispatched
<1>6. ASSUME NEW w \in Worker, NEW m \in Message, LockRow(w, m) PROVE ListedAreSaved'
  BY <1>6 DEF LockRow
<1>7. ASSUME NEW w \in Worker, Commit(w) PROVE ListedAreSaved'
  <2>1. \A m \in Message : row[m].status # "absent" => row'[m].status # "absent"
    BY <1>7 DEF Commit, MarkFailed, MarkSent
  <2> QED BY <1>7, <2>1 DEF Commit, EndPoll
<1>8. ASSUME NEW w \in Worker, DeadlockAbort(w) \/ Rollback(w) PROVE ListedAreSaved'
  BY <1>8 DEF DeadlockAbort, Rollback, EndPoll
<1>9. CASE UNCHANGED vars
  BY <1>9 DEF vars
<1> QED BY <1>1, <1>2, <1>3, <1>4, <1>5, <1>6, <1>7, <1>8, <1>9 DEF Next, Step

LEMMA DeliveredStep ==
  ASSUME TypeOK, SentIDsDelivered, SentWasDelivered, [Next]_vars
  PROVE  SentIDsDelivered' /\ SentWasDelivered'
<1> USE DEF TypeOK, Status, poll, history, MarkID, SentIDsDelivered, SentWasDelivered
<1>1. ASSUME NEW m \in Message, Save(m) \/ BecomeDue(m)
      PROVE SentIDsDelivered' /\ SentWasDelivered'
  BY <1>1 DEF Save, BecomeDue
<1>2. ASSUME NEW w \in Worker, Poll(w) \/ AllDispatched(w)
      PROVE SentIDsDelivered' /\ SentWasDelivered'
  BY <1>2 DEF Poll, AllDispatched
<1>3. ASSUME NEW w \in Worker, NEW m \in Message,
             DispatchSucceeds(w, m) \/ DispatchFails(w, m) \/ LockRow(w, m)
      PROVE SentIDsDelivered' /\ SentWasDelivered'
  BY <1>3 DEF DispatchSucceeds, DispatchFails, LockRow
<1>4. ASSUME NEW w \in Worker, Commit(w) PROVE SentIDsDelivered' /\ SentWasDelivered'
  <2>1. \A m \in Message : row'[m].status = "sent" => row[m].status = "sent" \/ m \in sentIDs[w]
    BY <1>4 DEF Commit, MarkFailed, MarkSent
  <2> QED BY <1>4, <2>1 DEF Commit, EndPoll
<1>5. ASSUME NEW w \in Worker, DeadlockAbort(w) \/ Rollback(w)
      PROVE SentIDsDelivered' /\ SentWasDelivered'
  BY <1>5 DEF DeadlockAbort, Rollback, EndPoll
<1>6. CASE UNCHANGED vars
  BY <1>6 DEF vars
<1> QED BY <1>1, <1>2, <1>3, <1>4, <1>5, <1>6 DEF Next, Step
-----------------------------------------------------------------------------
(* The two counting invariants.  Only three things can happen to a message *)
(* in a step: it is saved afresh, a poller starts to try it, or a poller   *)
(* gives up its claim, adding one to the committed retries at most.        *)

LEMMA RetriesOfCommit ==
  ASSUME TypeOK, NEW w \in Worker, Commit(w), NEW m \in Message
  PROVE  /\ row'[m].retries = IF m \in failedIDs[w] THEN row[m].retries + 1 ELSE row[m].retries
         /\ row'[m].status = IF m \in sentIDs[w] \ failedIDs[w] THEN "sent" ELSE row[m].status
<1>1. row[m] \in RowType
  BY DEF TypeOK, RowType
<1>2. row'[m] = IF m \in failedIDs[w] THEN MarkFailed(row[m])
                ELSE IF m \in sentIDs[w] THEN MarkSent(row[m]) ELSE row[m]
  BY DEF Commit
<1> QED BY <1>1, <1>2, MarkedRows

LEMMA FailuresCountedStep ==
  ASSUME TypeOK, FailuresCounted, [Next]_vars
  PROVE  FailuresCounted'
<1> SUFFICES ASSUME NEW m \in Message
             PROVE  row'[m].retries + Cardinality(Failing(m)') <= failures'[m]
  BY DEF FailuresCounted
<1> USE DEF poll, history, MarkID
<1>0. /\ row[m].retries \in Nat /\ failures[m] \in Nat
      /\ row[m].retries + Cardinality(Failing(m)) <= failures[m]
      /\ Cardinality(Failing(m)) \in Nat
      /\ Failing(m) \in SUBSET Worker
  <2>1. Failing(m) \in SUBSET Worker
    BY DEF Failing
  <2>2. Cardinality(Failing(m)) \in Nat
    BY <2>1, PollersFinite
  <2> QED BY <2>1, <2>2 DEF TypeOK, FailuresCounted
<1>1. ASSUME row'[m].retries \in {0, row[m].retries}, failures'[m] = failures[m],
             Failing(m)' \subseteq Failing(m)
      PROVE  row'[m].retries + Cardinality(Failing(m)') <= failures'[m]
  <2>1. Cardinality(Failing(m)') \in Nat /\ Cardinality(Failing(m)') <= Cardinality(Failing(m))
    BY <1>0, <1>1, FewerPollers
  <2> QED BY <1>0, <1>1, <2>1
<1>2. ASSUME NEW n \in Message, Save(n) \/ BecomeDue(n)
      PROVE  row'[m].retries + Cardinality(Failing(m)') <= failures'[m]
  <2>1. row'[m].retries \in {0, row[m].retries}
    BY <1>2 DEF Save, BecomeDue, TypeOK
  <2>2. failures'[m] = failures[m] /\ Failing(m)' = Failing(m)
    BY <1>2 DEF Save, BecomeDue, Failing
  <2> QED BY <1>1, <2>1, <2>2
<1>3. ASSUME NEW w \in Worker, Poll(w) \/ AllDispatched(w)
      PROVE  row'[m].retries + Cardinality(Failing(m)') <= failures'[m]
  <2>1. row' = row /\ failures' = failures /\ failedIDs' = failedIDs
    BY <1>3 DEF Poll, AllDispatched
  <2> QED BY <1>1, <2>1 DEF Failing
<1>4. ASSUME NEW w \in Worker, NEW n \in Message, DispatchSucceeds(w, n) \/ LockRow(w, n)
      PROVE  row'[m].retries + Cardinality(Failing(m)') <= failures'[m]
  <2>1. row' = row /\ failures' = failures /\ failedIDs' = failedIDs
    BY <1>4 DEF DispatchSucceeds, LockRow
  <2> QED BY <1>1, <2>1 DEF Failing
<1>5. ASSUME NEW w \in Worker, NEW n \in Message, DispatchFails(w, n)
      PROVE  row'[m].retries + Cardinality(Failing(m)') <= failures'[m]
  <2>1. /\ row' = row /\ failures' = [failures EXCEPT ![n] = @ + 1]
        /\ failedIDs' = [failedIDs EXCEPT ![w] = @ \cup {n}]
    BY <1>5 DEF DispatchFails
  <2>2. CASE n = m
    <3>1. Failing(m)' \in SUBSET (Failing(m) \cup {w})
      BY <2>1, <2>2 DEF Failing, TypeOK
    <3>2. Cardinality(Failing(m)') \in Nat /\ Cardinality(Failing(m)') <= Cardinality(Failing(m)) + 1
      BY <1>0, <3>1, OnePollerMore
    <3>3. failures'[m] = failures[m] + 1
      BY <2>1, <2>2 DEF TypeOK
    <3> QED BY <1>0, <2>1, <3>2, <3>3
  <2>3. CASE n # m
    <3>1. Failing(m)' \subseteq Failing(m) /\ failures'[m] = failures[m]
      BY <2>1, <2>3 DEF Failing, TypeOK
    <3> QED BY <1>1, <2>1, <3>1
  <2> QED BY <2>2, <2>3
<1>6. ASSUME NEW w \in Worker, Commit(w)
      PROVE  row'[m].retries + Cardinality(Failing(m)') <= failures'[m]
  <2>1. failures' = failures /\ failedIDs' = [failedIDs EXCEPT ![w] = {}]
    BY <1>6 DEF Commit, EndPoll
  <2>2. CASE m \in failedIDs[w]
    <3>1. w \in Failing(m) /\ Failing(m)' \in SUBSET (Failing(m) \ {w})
      BY <2>1, <2>2 DEF Failing, TypeOK
    <3>2. Cardinality(Failing(m)') \in Nat /\ Cardinality(Failing(m)') + 1 <= Cardinality(Failing(m))
      BY <1>0, <3>1, OnePollerLess
    <3>3. row'[m].retries = row[m].retries + 1
      BY <1>6, <2>2, RetriesOfCommit
    <3> QED BY <1>0, <2>1, <3>2, <3>3
  <2>3. CASE m \notin failedIDs[w]
    <3>1. Failing(m)' \subseteq Failing(m)
      BY <2>1 DEF Failing, TypeOK
    <3>2. row'[m].retries = row[m].retries
      BY <1>6, <2>3, RetriesOfCommit
    <3> QED BY <1>1, <2>1, <3>1, <3>2
  <2> QED BY <2>2, <2>3
<1>7. ASSUME NEW w \in Worker, DeadlockAbort(w) \/ Rollback(w)
      PROVE  row'[m].retries + Cardinality(Failing(m)') <= failures'[m]
  <2>1. row' = row /\ failures' = failures /\ failedIDs' = [failedIDs EXCEPT ![w] = {}]
    BY <1>7 DEF DeadlockAbort, Rollback, EndPoll
  <2>2. Failing(m)' \subseteq Failing(m)
    BY <2>1 DEF Failing, TypeOK
  <2> QED BY <1>1, <2>1, <2>2
<1>8. CASE UNCHANGED vars
  <2>1. row' = row /\ failures' = failures /\ failedIDs' = failedIDs
    BY <1>8 DEF vars
  <2> QED BY <1>1, <2>1 DEF Failing
<1> QED BY <1>2, <1>3, <1>4, <1>5, <1>6, <1>7, <1>8 DEF Next, Step

LEMMA OverrunCountedStep ==
  ASSUME TypeOK, OverrunCounted, [Next]_vars
  PROVE  OverrunCounted'
<1> DEFINE Limit == MaxRetry + Cardinality(Worker) - 1
<1> SUFFICES ASSUME NEW m \in Message
             PROVE  row'[m].retries + Cardinality(Trying(m)') <= Limit
  BY DEF OverrunCounted
<1> USE DEF poll, history, MarkID
<1>0. /\ row[m].retries \in Nat /\ MaxRetry \in Nat \ {0} /\ Cardinality(Worker) \in Nat \ {0}
      /\ row[m].retries + Cardinality(Trying(m)) <= Limit
      /\ Cardinality(Trying(m)) \in Nat
      /\ Trying(m) \in SUBSET Worker /\ Trying(m)' \in SUBSET Worker
  <2>1. Trying(m) \in SUBSET Worker /\ Trying(m)' \in SUBSET Worker
    BY DEF Trying
  <2>2. Cardinality(Trying(m)) \in Nat /\ Cardinality(Worker) \in Nat \ {0}
    BY <2>1, PollersFinite
  <2> QED BY <2>1, <2>2, OutboxAssumption DEF TypeOK, OverrunCounted
<1> HIDE DEF Limit
<1>1. ASSUME row'[m].retries = row[m].retries, Trying(m)' \subseteq Trying(m)
      PROVE  row'[m].retries + Cardinality(Trying(m)') <= Limit
  <2>1. Cardinality(Trying(m)') \in Nat /\ Cardinality(Trying(m)') <= Cardinality(Trying(m))
    BY <1>0, <1>1, FewerPollers
  <2>2. Limit \in Int
    BY <1>0 DEF Limit
  <2> QED BY <1>0, <1>1, <2>1, <2>2
<1>2. ASSUME row'[m].retries \in Nat, row'[m].retries < MaxRetry
      PROVE  row'[m].retries + Cardinality(Trying(m)') <= Limit
  <2>1. Cardinality(Trying(m)') \in Nat /\ Cardinality(Trying(m)') <= Cardinality(Worker)
    BY <1>0, PollersFinite
  <2> QED BY <1>0, <1>2, <2>1 DEF Limit
<1>3. ASSUME NEW n \in Message, Save(n) \/ BecomeDue(n)
      PROVE  row'[m].retries + Cardinality(Trying(m)') <= Limit
  <2>1. row'[m].retries = 0 \/ row'[m].retries = row[m].retries
    BY <1>3 DEF Save, BecomeDue, TypeOK
  <2>2. Trying(m)' = Trying(m)
    BY <1>3 DEF Save, BecomeDue, Trying
  <2> QED BY <1>0, <1>1, <1>2, <2>1, <2>2
<1>4. ASSUME NEW w \in Worker, Poll(w)
      PROVE  row'[m].retries + Cardinality(Trying(m)') <= Limit
  <2>1. PICK B \in Batches(Due) : batch' = [batch EXCEPT ![w] = B]
    BY <1>4 DEF Poll
  <2>2. B \subseteq Due
    BY <2>1 DEF Batches
  <2>3. row' = row /\ failedIDs' = failedIDs
    BY <1>4 DEF Poll
  <2>4. CASE m \in B
    <3>1. row[m].retries < MaxRetry
      BY <2>2, <2>4 DEF Due
    <3> QED BY <1>0, <1>2, <2>3, <3>1
  <2>5. CASE m \notin B
    <3>1. Trying(m)' \subseteq Trying(m)
      BY <2>1, <2>3, <2>5 DEF Trying, TypeOK
    <3> QED BY <1>1, <2>3, <3>1
  <2> QED BY <2>4, <2>5
<1>5. ASSUME NEW w \in Worker, NEW n \in Message, DispatchSucceeds(w, n) \/ DispatchFails(w, n)
      PROVE  row'[m].retries + Cardinality(Trying(m)') <= Limit
  <2>1. /\ row' = row /\ n \in batch[w]
        /\ batch' = [batch EXCEPT ![w] = @ \ {n}]
        /\ failedIDs' \in {failedIDs, [failedIDs EXCEPT ![w] = @ \cup {n}]}
    BY <1>5 DEF DispatchSucceeds, DispatchFails
  <2>2. \A v \in Worker : m \in batch'[v] \cup failedIDs'[v] => m \in batch[v] \cup failedIDs[v]
    BY <2>1 DEF TypeOK
  <2>3. Trying(m)' \subseteq Trying(m)
    BY <2>2 DEF Trying
  <2> QED BY <1>1, <2>1, <2>3
<1>6. ASSUME NEW w \in Worker, Commit(w)
      PROVE  row'[m].retries + Cardinality(Trying(m)') <= Limit
  <2>1. /\ failedIDs' = [failedIDs EXCEPT ![w] = {}]
        /\ batch' = [batch EXCEPT ![w] = {}]
    BY <1>6 DEF Commit, EndPoll
  <2>2. CASE m \in failedIDs[w]
    <3>1. w \in Trying(m) /\ Trying(m)' \in SUBSET (Trying(m) \ {w})
      BY <2>1, <2>2 DEF Trying, TypeOK
    <3>2. Cardinality(Trying(m)') \in Nat /\ Cardinality(Trying(m)') + 1 <= Cardinality(Trying(m))
      BY <1>0, <3>1, OnePollerLess
    <3>3. row'[m].retries = row[m].retries + 1
      BY <1>6, <2>2, RetriesOfCommit
    <3> QED BY <1>0, <3>2, <3>3 DEF Limit
  <2>3. CASE m \notin failedIDs[w]
    <3>1. Trying(m)' \subseteq Trying(m)
      BY <2>1 DEF Trying, TypeOK
    <3>2. row'[m].retries = row[m].retries
      BY <1>6, <2>3, RetriesOfCommit
    <3> QED BY <1>1, <3>1, <3>2
  <2> QED BY <2>2, <2>3
<1>7. ASSUME NEW w \in Worker, DeadlockAbort(w) \/ Rollback(w)
      PROVE  row'[m].retries + Cardinality(Trying(m)') <= Limit
  <2>1. /\ row' = row /\ failedIDs' = [failedIDs EXCEPT ![w] = {}]
        /\ batch' = [batch EXCEPT ![w] = {}]
    BY <1>7 DEF DeadlockAbort, Rollback, EndPoll
  <2>2. Trying(m)' \subseteq Trying(m)
    BY <2>1 DEF Trying, TypeOK
  <2> QED BY <1>1, <2>1, <2>2
<1>8. CASE UNCHANGED vars
  <2>1. row' = row /\ batch' = batch /\ failedIDs' = failedIDs
    BY <1>8 DEF vars
  <2> QED BY <1>1, <2>1 DEF Trying
<1>9. ASSUME NEW w \in Worker, AllDispatched(w) \/ \E n \in Message : LockRow(w, n)
      PROVE  row'[m].retries + Cardinality(Trying(m)') <= Limit
  <2>1. row' = row /\ batch' = batch /\ failedIDs' = failedIDs
    BY <1>9 DEF AllDispatched, LockRow
  <2> QED BY <1>1, <2>1 DEF Trying
<1> QED BY <1>3, <1>4, <1>5, <1>6, <1>7, <1>8, <1>9 DEF Next, Step, Limit
-----------------------------------------------------------------------------
(* The theorems. *)

LEMMA IInvNext == IInv /\ [Next]_vars => IInv'
BY TypeOKStep, ListedStep, DeliveredStep, FailuresCountedStep, OverrunCountedStep DEF IInv

LEMMA IInvHolds == Spec => []IInv
BY IInvInit, IInvNext, PTL DEF Spec

\* The variables of the outbox always have the types its code gives them.
THEOREM OutboxTypeCorrect == Spec => []TypeOK
<1>1. IInv => TypeOK
  BY DEF IInv
<1> QED BY <1>1, IInvHolds, PTL

\* A row marked sent has been dispatched with effect, for any number of pollers
\* that roll back, deadlock and overlap.
THEOREM SentMessagesWereDelivered == Spec => []SentWasDelivered
<1>1. IInv => SentWasDelivered
  BY DEF IInv
<1> QED BY <1>1, IInvHolds, PTL

\* Retries are counted only for failed dispatches.
THEOREM CountedRetriesFailed == Spec => []RetriesAreFailures
<1>1. IInv => RetriesAreFailures
  <2> SUFFICES ASSUME IInv, NEW m \in Message PROVE row[m].retries <= failures[m]
    BY DEF RetriesAreFailures
  <2>1. row[m].retries \in Nat /\ failures[m] \in Nat
    BY DEF IInv, TypeOK
  <2>2. Failing(m) \in SUBSET Worker
    BY DEF Failing
  <2>3. Cardinality(Failing(m)) \in Nat
    BY <2>2, PollersFinite
  <2>4. row[m].retries + Cardinality(Failing(m)) <= failures[m]
    BY DEF IInv, FailuresCounted
  <2> QED BY <2>1, <2>3, <2>4
<1> QED BY <1>1, IInvHolds, PTL

\* n overlapping pollers overrun the retry limit by at most n - 1.
THEOREM OverrunIsBounded == Spec => []RetryOverrunBounded
<1>1. IInv => RetryOverrunBounded
  <2> SUFFICES ASSUME IInv, NEW m \in Message
               PROVE row[m].retries <= MaxRetry + Cardinality(Worker) - 1
    BY DEF RetryOverrunBounded
  <2>1. row[m].retries \in Nat
    BY DEF IInv, TypeOK
  <2>2. Trying(m) \in SUBSET Worker
    BY DEF Trying
  <2>3. Cardinality(Trying(m)) \in Nat /\ Cardinality(Worker) \in Nat \ {0} /\ MaxRetry \in Nat
    BY <2>2, PollersFinite, OutboxAssumption
  <2>4. row[m].retries + Cardinality(Trying(m)) <= MaxRetry + Cardinality(Worker) - 1
    BY DEF IInv, OverrunCounted
  <2> QED BY <2>1, <2>3, <2>4
<1> QED BY <1>1, IInvHolds, PTL
-----------------------------------------------------------------------------
(* The outbox implements the safety part of AtLeastOnce. *)

outcome == [m \in Message |-> OutcomeOf(row[m])]

LEMMA CommitSettles ==
  ASSUME IInv, NEW w \in Worker, Commit(w)
  PROVE  Promise!Settle
<1> DEFINE S == {m \in Message : m \in sentIDs[w] \ failedIDs[w]}
           G == {m \in Message : m \in failedIDs[w] /\ outcome[m] = "accepted"
                                 /\ row[m].retries + 1 >= MaxRetry}
<1>1. \A m \in Message : /\ row[m].status \in Status /\ row[m].retries \in Nat
                         /\ failures[m] \in Nat /\ MaxRetry \in Nat
  BY OutboxAssumption DEF IInv, TypeOK
<1>2. \A m \in Message :
         /\ row'[m].retries = IF m \in failedIDs[w] THEN row[m].retries + 1 ELSE row[m].retries
         /\ row'[m].status = IF m \in S THEN "sent" ELSE row[m].status
  BY RetriesOfCommit DEF IInv
<1>3. S \subseteq {m \in delivered : outcome[m] \in {"accepted", "givenUp", "sent"}}
  <2> SUFFICES ASSUME NEW m \in S
               PROVE  m \in delivered /\ outcome[m] \in {"accepted", "givenUp", "sent"}
    OBVIOUS
  <2>1. m \in delivered
    BY DEF IInv, SentIDsDelivered
  <2>2. row[m].status # "absent"
    BY DEF IInv, ListedAreSaved
  <2> QED BY <1>1, <2>1, <2>2 DEF outcome, OutcomeOf, Status
<1>4. G \subseteq {m \in Message : outcome[m] = "accepted" /\ failures[m] >= MaxRetry}
  <2> SUFFICES ASSUME NEW m \in Message, m \in failedIDs[w], row[m].retries + 1 >= MaxRetry
               PROVE  failures[m] >= MaxRetry
    OBVIOUS
  <2>1. Failing(m) \in SUBSET Worker /\ w \in Failing(m) /\ {} \in SUBSET (Failing(m) \ {w})
    BY DEF Failing
  <2>2. Cardinality(Failing(m)) \in Nat /\ 0 + 1 <= Cardinality(Failing(m))
    BY <2>1, OnePollerLess, FS_EmptySet
  <2>3. row[m].retries + Cardinality(Failing(m)) <= failures[m]
    BY DEF IInv, FailuresCounted
  <2> QED BY <1>1, <2>2, <2>3
<1>5. outcome' = [m \in Message |-> IF m \in S THEN "sent"
                                   ELSE IF m \in G THEN "givenUp" ELSE outcome[m]]
  <2> SUFFICES ASSUME NEW m \in Message
               PROVE  OutcomeOf(row'[m]) = IF m \in S THEN "sent"
                                           ELSE IF m \in G THEN "givenUp" ELSE outcome[m]
    BY DEF outcome
  <2>1. CASE m \in S
    BY <1>2, <2>1 DEF OutcomeOf
  <2>2. CASE m \in failedIDs[w]
    <3>1. row'[m].retries = row[m].retries + 1 /\ row'[m].status = row[m].status
      BY <1>2, <2>2
    <3>2. CASE m \in G
      <4>1. OutcomeOf(row[m]) = "accepted" /\ row[m].retries + 1 >= MaxRetry
        BY <3>2 DEF outcome
      <4>2. row[m].status = "unsent"
        BY <1>1, <4>1 DEF OutcomeOf, Status
      <4>3. OutcomeOf(row'[m]) = "givenUp"
        BY <3>1, <4>1, <4>2 DEF OutcomeOf
      <4> QED BY <2>2, <3>2, <4>3
    <3>3. CASE m \notin G
      BY <1>1, <2>2, <3>1, <3>3 DEF OutcomeOf, outcome
    <3> QED BY <3>2, <3>3
  <2>3. CASE m \notin S /\ m \notin failedIDs[w]
    BY <1>2, <2>3 DEF OutcomeOf, outcome
  <2> QED BY <2>1, <2>2, <2>3
<1>6. UNCHANGED <<delivered, failures>>
  BY DEF Commit, history
<1>7. S \in SUBSET Message /\ G \in SUBSET Message
  OBVIOUS
<1> HIDE DEF S, G
<1> QED BY <1>3, <1>4, <1>5, <1>6, <1>7 DEF Promise!Settle, outcome

LEMMA PromiseStep ==
  ASSUME IInv, [Next]_vars
  PROVE  [Promise!Next]_(Promise!vars)
<1> USE DEF poll, history, MarkID
<1>1. ASSUME NEW m \in Message, Save(m) PROVE Promise!Accept(m)
  <2>1. /\ row[m].status = "absent"
        /\ row' = [row EXCEPT ![m] = [status |-> "unsent", retries |-> 0, due |-> TRUE]]
        /\ UNCHANGED <<delivered, failures>>
    BY <1>1 DEF Save
  <2>2. OutcomeOf(row[m]) = "absent"
    BY <2>1 DEF OutcomeOf
  <2>3. row'[m].status = "unsent" /\ row'[m].retries = 0
    BY <2>1 DEF IInv, TypeOK
  <2>4. OutcomeOf(row'[m]) = "accepted"
    BY <2>3, OutboxAssumption DEF OutcomeOf
  <2>5. \A n \in Message \ {m} : row'[n] = row[n]
    BY <2>1 DEF IInv, TypeOK
  <2>6. \A n \in Message : OutcomeOf(row'[n]) =
          [[k \in Message |-> OutcomeOf(row[k])] EXCEPT ![m] = "accepted"][n]
    BY <2>4, <2>5
  <2>7. [n \in Message |-> OutcomeOf(row'[n])] =
          [[k \in Message |-> OutcomeOf(row[k])] EXCEPT ![m] = "accepted"]
    BY <2>6
  <2> QED BY <2>1, <2>2, <2>7 DEF Promise!Accept
<1>2. ASSUME row' = row, UNCHANGED <<delivered, failures>> PROVE UNCHANGED Promise!vars
  BY <1>2 DEF Promise!vars
<1>3. ASSUME NEW m \in Message, BecomeDue(m) PROVE UNCHANGED Promise!vars
  <2>1. \A n \in Message : row'[n].status = row[n].status /\ row'[n].retries = row[n].retries
    BY <1>3 DEF BecomeDue, IInv, TypeOK
  <2>2. \A n \in Message : OutcomeOf(row'[n]) = OutcomeOf(row[n])
    BY <2>1 DEF OutcomeOf
  <2> QED BY <1>3, <2>2 DEF BecomeDue, Promise!vars
<1>4. ASSUME NEW w \in Worker, NEW m \in Message, DispatchSucceeds(w, m) \/ DispatchFails(w, m)
      PROVE  Promise!Attempt(m)
  <2>1. row[m].status # "absent"
    BY <1>4 DEF DispatchSucceeds, DispatchFails, IInv, ListedAreSaved
  <2>2. OutcomeOf(row[m]) # "absent"
    BY <2>1 DEF OutcomeOf
  <2>3. /\ row' = row /\ delivered' \in {delivered, delivered \cup {m}}
        /\ failures' \in {failures, [failures EXCEPT ![m] = @ + 1]}
    BY <1>4 DEF DispatchSucceeds, DispatchFails
  <2> QED BY <2>2, <2>3 DEF Promise!Attempt
<1>5. ASSUME NEW w \in Worker, Commit(w) PROVE Promise!Settle
  BY <1>5, CommitSettles
<1>6. ASSUME NEW w \in Worker,
             \/ Poll(w) \/ AllDispatched(w) \/ DeadlockAbort(w) \/ Rollback(w)
             \/ \E m \in Message : LockRow(w, m)
      PROVE  UNCHANGED Promise!vars
  BY <1>2, <1>6 DEF Poll, AllDispatched, DeadlockAbort, Rollback, LockRow
<1>7. CASE UNCHANGED vars
  BY <1>2, <1>7 DEF vars
<1> QED BY <1>1, <1>3, <1>4, <1>5, <1>6, <1>7 DEF Next, Step, Promise!Next

\* The outbox never does what AtLeastOnce forbids its users to expect.
THEOREM OutboxKeepsPromise == Spec => PromiseSafety
<1>1. Init => Promise!Init
  BY DEF Init, Promise!Init, OutcomeOf
<1>2. IInv /\ [Next]_vars => [Promise!Next]_(Promise!vars)
  BY PromiseStep
<1> QED BY <1>1, <1>2, IInvHolds, PTL DEF Spec, PromiseSafety, Promise!Spec
=============================================================================
