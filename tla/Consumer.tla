------------------------------ MODULE Consumer ------------------------------
(***************************************************************************)
(* One partition of a Kafka topic and the session of a consumer group that *)
(* holds it, as sarama keeps them for the handlers of this program.        *)
(*                                                                         *)
(* The log starts at the committed offset: a record before it is never     *)
(* delivered again.  position counts the records the session has           *)
(* delivered, marked those its offset manager may commit.                  *)
(*                                                                         *)
(* Deliver_Skipping is Deliver with a plausible fault, for testing that a  *)
(* property notices it.                                                    *)
(***************************************************************************)
EXTENDS Naturals, Sequences, SequencesExt

\* A group that has committed nothing starts at the oldest record.
NewPartition == [log |-> <<>>, position |-> 0, marked |-> 0]

Partition(record) ==
  {p \in [log : Seq(record), position : Nat, marked : Nat] :
     p.marked <= p.position /\ p.position <= Len(p.log)}

\* SendMessages: all replicas have acknowledged the record when it returns.
Append1(p, record) == [p EXCEPT !.log = Append(@, record)]

\* claim.Messages() yields the next record.
HasNext(p) == p.position < Len(p.log)
Deliver_Skipping(p) == [p EXCEPT !.position = @ + 2]
Deliver(p) == [p EXCEPT !.position = @ + 1]

\* session.MarkMessage of the record delivered last: its predecessors count
\* as marked with it.
Mark(p) == [p EXCEPT !.marked = p.position]

\* The marked records are committed, every second and when a session ends.
Commit(p) == [log |-> SubSeq(p.log, p.marked + 1, Len(p.log)),
              position |-> p.position - p.marked, marked |-> 0]

\* The next session starts at the committed offset.
Rewind(p) == [p EXCEPT !.position = 0, !.marked = 0]

\* The records that will still be delivered if the session ends now.
Kept(p) == {p.log[i] : i \in (p.marked + 1)..Len(p.log)}
=============================================================================
