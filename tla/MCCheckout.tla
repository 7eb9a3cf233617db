----------------------------- MODULE MCCheckout -----------------------------
(* TLC instances of Checkout: an order with up to two Stripe sessions. *)
EXTENDS Checkout

\* Bound: two sessions, or one and a lost message, or two lost messages; and a
\* time-out or losses.  No step that has to happen is bounded by it.
Requested == {p \in Session : stripe[p] # "none"}
Bounded ==
  /\ Cardinality(Requested') + Cardinality(dropped') <= 2
  /\ timingOut' # {} => dropped' = {}

BoundedSpec == Init /\ [][Next /\ Bounded]_vars /\ Fairness
=============================================================================
