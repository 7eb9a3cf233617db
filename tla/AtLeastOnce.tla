---------------------------- MODULE AtLeastOnce ----------------------------
(***************************************************************************)
(* What the transactional outbox promises the service that saves a message *)
(* in it: an accepted message is eventually marked sent or given up, it is *)
(* marked sent only after its dispatch took effect, and it is given up     *)
(* only after MaxRetry failed dispatches.  Nothing limits how often the    *)
(* effect of a dispatch is repeated.  Outbox.tla implements this.          *)
(***************************************************************************)
EXTENDS Naturals

CONSTANTS
  Message,      \* the messages that may be saved
  MaxRetry      \* failed dispatches after which a message is given up

VARIABLES
  outcome,      \* outcome[m]: "absent", "accepted", "givenUp" or "sent"
  delivered,    \* messages whose dispatch has taken effect at least once
  failures      \* failures[m]: dispatches of m that returned an error

vars == <<outcome, delivered, failures>>

Init ==
  /\ outcome = [m \in Message |-> "absent"]
  /\ delivered = {}
  /\ failures = [m \in Message |-> 0]

\* The service's own transaction commits with the message in the outbox.
Accept(m) ==
  /\ outcome[m] = "absent"
  /\ outcome' = [outcome EXCEPT ![m] = "accepted"]
  /\ UNCHANGED <<delivered, failures>>

\* One dispatch of m: it takes effect, or reports an error, or both.
Attempt(m) ==
  /\ outcome[m] # "absent"
  /\ delivered' \in {delivered, delivered \cup {m}}
  /\ failures' \in {failures, [failures EXCEPT ![m] = @ + 1]}
  /\ UNCHANGED outcome

\* The bookkeeping of a whole batch becomes visible at once.  A message that
\* was given up may still be marked sent: an attempt that was under way when
\* the last retry was counted may succeed.
Settle ==
  /\ \E S, G \in SUBSET Message :
       /\ S \subseteq {m \in delivered : outcome[m] \in {"accepted", "givenUp", "sent"}}
       /\ G \subseteq {m \in Message : outcome[m] = "accepted" /\ failures[m] >= MaxRetry}
       /\ outcome' = [m \in Message |-> IF m \in S THEN "sent"
                                        ELSE IF m \in G THEN "givenUp"
                                        ELSE outcome[m]]
  /\ UNCHANGED <<delivered, failures>>

Next == (\E m \in Message : Accept(m) \/ Attempt(m)) \/ Settle

Settled(m) == outcome[m] \in {"givenUp", "sent"}

Liveness == \A m \in Message : outcome[m] = "accepted" ~> Settled(m)

Spec == Init /\ [][Next]_vars

LiveSpec == Spec /\ Liveness
=============================================================================
