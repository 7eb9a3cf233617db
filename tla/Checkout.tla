------------------------------ MODULE Checkout ------------------------------
(***************************************************************************)
(* The checkout saga: the order, payment and inventory services, Stripe    *)
(* and the Kafka topics and outboxes between them.                         *)
(*                                                                         *)
(* Every hop is asynchronous.  A message saved in an outbox may be         *)
(* dispatched any number of times (Outbox.tla proves it is an AtLeastOnce  *)
(* queue) and after enough failures is given up; a published message may   *)
(* be consumed any number of times and in any order (no message has a key, *)
(* dispatches run concurrently), and a consumer marks it even if its       *)
(* handler fails; Stripe repeats and reorders its events.  So the channels *)
(* are sets that only grow, and what a failure loses is recorded in        *)
(* dropped.                                                                *)
(*                                                                         *)
(* Stock is what Inventory.tla says it is with the pinned gorm             *)
(* (InventoryKeepsPromise): a reservation happens in one step, once, and    *)
(* no deduction or release takes effect.                                   *)
(*                                                                         *)
(* An operator X_Fault is X with a plausible fault; no specification uses  *)
(* it, it serves to test that a property notices the fault.                *)
(***************************************************************************)
EXTENDS Naturals, FiniteSets

CONSTANTS
  Order,            \* order ids
  Session,          \* ids of Stripe checkout sessions
  TimeoutMessages,  \* orders for which a message arrives on topic order.cancelled
  MaxDropped        \* bound: failures that lose a message for good

ASSUME CheckoutAssumption ==
  /\ TimeoutMessages \subseteq Order
  /\ MaxDropped \in Nat

VARIABLES
  order,      \* order[o]: status of the orders row, or "none"
  timingOut,  \* orders handleOrderCancelled has read as pending, not yet updated
  stripe,     \* stripe[p]: the session as Stripe knows it, or how far its request is
  of,         \* of[p]: the order of session p
  payment,    \* payment[p]: status of the payments row with external_id p, or "none"
  events,     \* events Stripe has sent: [session, type]
  saved,      \* messages that were saved in an outbox
  published,  \* messages that were published to a topic
  lock,       \* lock[o]: status of the inventory_locks row of o, or "none"
  dropped     \* <<where, message>>: a message lost there

orderVars == <<order, timingOut>>
paymentVars == <<stripe, of, payment, events>>
vars == <<orderVars, paymentVars, saved, published, lock, dropped>>

OrderStatus == {"pending", "cancelled", "confirmed"}
PaymentStatus == {"pending", "cancelled", "paid"}
EventType == {"completed_paid", "completed_unpaid", "async_succeeded",
              "async_failed", "expired"}
Event == [session : Session, type : EventType]

\* By their outbox: the order, the payment and the inventory service.
OrderKinds == {"created", "timeout", "release"}
PaymentKinds == {"paid", "cancelled"}
InventoryKinds == {"reserve", "deduct"}
Message == [kind : OrderKinds \cup PaymentKinds \cup InventoryKinds, order : Order]
M(k, o) == [kind |-> k, order |-> o]

\* Where what must happen can get lost: Stripe takes the answer to a failed
\* callback for success, an outbox gives up, the inventory service marks what its
\* handler failed on.  Nothing has to happen in the order service's handlers.
Drop == ({"callback"} \X Event) \cup ({"outbox", "inventory"} \X Message)

Init ==
  /\ order = [o \in Order |-> "none"]
  /\ timingOut = {}
  /\ stripe = [p \in Session |-> "none"]
  /\ of \in [Session -> Order]
  /\ payment = [p \in Session |-> "none"]
  /\ events = {} /\ saved = {} /\ published = {} /\ dropped = {}
  /\ lock = [o \in Order |-> "none"]
-----------------------------------------------------------------------------
(* The order service. *)

\* CreateOrder: the row and two outbox messages in one transaction.
CreateOrder(o) ==
  /\ order[o] = "none"
  /\ order' = [order EXCEPT ![o] = "pending"]
  /\ saved' = saved \cup {M("created", o), M("timeout", o)}
  /\ UNCHANGED <<timingOut, paymentVars, published, lock, dropped>>

\* CancelOrder, by the customer: one conditional UPDATE and the outbox message.
CancelOrder(o) ==
  /\ order[o] \in {"pending", "confirmed"}
  /\ order' = [order EXCEPT ![o] = "cancelled"]
  /\ saved' = saved \cup {M("release", o)}
  /\ UNCHANGED <<timingOut, paymentVars, published, lock, dropped>>

\* Which statuses make handlePaymentStatus confirm the order: both.
Confirms(k) == k \in {"paid", "cancelled"}

\* handlePaymentStatus, an UPDATE of the row whatever its status.
HandlePaymentStatus(k, o) ==
  /\ M(k, o) \in published /\ Confirms(k)
  /\ order' = IF order[o] = "none" THEN order ELSE [order EXCEPT ![o] = "confirmed"]
  /\ UNCHANGED <<timingOut, paymentVars, saved, published, lock, dropped>>

\* handleOrderCancelled reads the order ...
ReadTimedOut(o) ==
  /\ o \in TimeoutMessages /\ order[o] = "pending"
  /\ timingOut' = timingOut \cup {o}
  /\ UNCHANGED <<order, paymentVars, saved, published, lock, dropped>>

AfterTimeout_Confirms == "confirmed"
AfterTimeout == "cancelled"

\* ... and updates it, whatever its status is by then.
UpdateTimedOut(o) ==
  /\ o \in timingOut
  /\ timingOut' = timingOut \ {o}
  /\ order' = [order EXCEPT ![o] = AfterTimeout]
  /\ UNCHANGED <<paymentVars, saved, published, lock, dropped>>
-----------------------------------------------------------------------------
(* The payment service and Stripe. *)

\* CreatePayment reads the order by RPC and asks Stripe for a session.
RequestSession(p, o) ==
  /\ stripe[p] = "none" /\ order[o] = "pending"
  /\ stripe' = [stripe EXCEPT ![p] = "requested"]
  /\ of' = [of EXCEPT ![p] = o]
  /\ UNCHANGED <<orderVars, payment, events, saved, published, lock, dropped>>

\* The session exists; its request may still fail, and then has no row.
OpenSession(p) ==
  /\ stripe[p] = "requested"
  /\ stripe' = [stripe EXCEPT ![p] = "open"]
  /\ UNCHANGED <<orderVars, of, payment, events, saved, published, lock, dropped>>

\* The payments row is inserted and the customer gets the URL.
InsertPayment(p) ==
  /\ stripe[p] \notin {"none", "requested"} /\ payment[p] = "none"
  /\ payment' = [payment EXCEPT ![p] = "pending"]
  /\ UNCHANGED <<orderVars, stripe, of, events, saved, published, lock, dropped>>

\* Stripe's own life cycle of a session.  Only who has the URL can complete it.
Reports(p, from, to, type) ==
  /\ stripe[p] = from
  /\ stripe' = [stripe EXCEPT ![p] = to]
  /\ events' = events \cup {[session |-> p, type |-> type]}
  /\ UNCHANGED <<orderVars, of, payment, saved, published, lock, dropped>>

StripeReports(p) ==
  \/ payment[p] # "none" /\ Reports(p, "open", "paid", "completed_paid")
  \/ payment[p] # "none" /\ Reports(p, "open", "processing", "completed_unpaid")
  \/ Reports(p, "processing", "paid", "async_succeeded")
  \/ Reports(p, "processing", "unpaid", "async_failed")
  \/ Reports(p, "open", "unpaid", "expired")

\* handleStripeCallback: the status an event stands for.
StatusOf_Unspecified(type) == CASE type \in {"completed_paid", "async_succeeded"} -> "paid"
                                [] type = "expired" -> "unspecified"
                                [] OTHER -> "cancelled"
StatusOf_Completed(type) == IF type \in {"completed_paid", "completed_unpaid", "async_succeeded"}
                            THEN "paid" ELSE "cancelled"

StatusOf(type) == IF type \in {"completed_paid", "async_succeeded"} THEN "paid" ELSE "cancelled"

\* The rows UpdatePaymentStatusByOrderID changes: all pending ones of the order.
PendingOf(o) == {p \in Session : of[p] = o /\ payment[p] = "pending"}

\* The outbox messages of a callback: one, even if no row was pending any more.
StatusMessages_OnlyIfPending(e) ==
  {M(StatusOf(e.type), of[q]) : q \in PendingOf(of[e.session])}

StatusMessages(e) == {M(StatusOf(e.type), of[e.session])}

\* Callback: the rows of the order and the outbox message in one transaction.
Callback(e) ==
  /\ e \in events
  /\ payment' = [p \in Session |-> IF p \in PendingOf(of[e.session]) THEN StatusOf(e.type)
                                   ELSE payment[p]]
  /\ saved' = saved \cup StatusMessages(e)
  /\ UNCHANGED <<orderVars, stripe, of, events, published, lock, dropped>>
-----------------------------------------------------------------------------
(* The inventory service. *)

\* handleOrderCreated and handlePaymentStatus save what is to be done.
WorkFor_AnyStatus(k) == IF k = "created" THEN {"reserve"} ELSE {"deduct"}

WorkFor(k) == CASE k = "created" -> {"reserve"}
                [] k = "paid"    -> {"deduct"}
                [] OTHER         -> {}

HandleInventory(k, o) ==
  /\ M(k, o) \in published /\ k \in {"created"} \cup PaymentKinds
  /\ saved' = saved \cup {M(w, o) : w \in WorkFor(k)}
  /\ UNCHANGED <<orderVars, paymentVars, published, lock, dropped>>

\* Dispatch of the reservation; a second lock of an order violates the primary
\* key.  (The dispatch of a deduction always fails, see Inventory.)
ReserveStock(o) ==
  /\ M("reserve", o) \in saved
  /\ lock[o] = "none"
  /\ lock' = [lock EXCEPT ![o] = "locked"]
  /\ UNCHANGED <<orderVars, paymentVars, saved, published, dropped>>
-----------------------------------------------------------------------------
(* Outboxes and failures. *)

\* The dispatch of a message of the order or the payment service publishes it:
\* on its topic, on the delay queue ("timeout") or, since the ReleaseStock RPC
\* of a background task has no token and fails, on the retry queue ("release").
Dispatched_NotCreated == {"timeout", "release"} \cup PaymentKinds

Dispatched == OrderKinds \cup PaymentKinds

Publish(m) ==
  /\ m \in saved /\ m.kind \in Dispatched
  /\ published' = published \cup {m}
  /\ UNCHANGED <<orderVars, paymentVars, saved, lock, dropped>>

Lose(d) ==
  /\ d \notin dropped /\ Cardinality(dropped) < MaxDropped
  /\ \/ d[1] = "callback" /\ d[2] \in events
     \/ d[1] = "outbox" /\ d[2] \in saved
     \/ d[1] = "inventory" /\ d[2] \in published
  /\ dropped' = dropped \cup {d}
  /\ UNCHANGED <<orderVars, paymentVars, saved, published, lock>>
-----------------------------------------------------------------------------
Next ==
  \/ \E o \in Order :
       \/ CreateOrder(o) \/ CancelOrder(o) \/ ReadTimedOut(o) \/ UpdateTimedOut(o)
       \/ ReserveStock(o)
       \/ \E k \in PaymentKinds : HandlePaymentStatus(k, o)
       \/ \E k \in {"created"} \cup PaymentKinds : HandleInventory(k, o)
       \/ \E p \in Session : RequestSession(p, o)
  \/ \E p \in Session : OpenSession(p) \/ InsertPayment(p) \/ StripeReports(p)
  \/ \E e \in events : Callback(e)
  \/ \E m \in saved : Publish(m)
  \/ \E d \in Drop : Lose(d)

Spec == Init /\ [][Next]_vars

\* What is retried until it has happened, unless it was dropped: Stripe's calls,
\* the outboxes (AtLeastOnce!Liveness) and the one consumer of the inventory
\* service's group.  Nothing makes the customer or Stripe act, nor the order
\* service handle a message: its HandleKafkaMessages shares its consumer group
\* with Retrier.Run and may never get it.
Fairness ==
  /\ \A e \in Event : WF_vars(<<"callback", e>> \notin dropped /\ Callback(e))
  /\ \A m \in Message : WF_vars(<<"outbox", m>> \notin dropped /\ Publish(m))
  /\ \A o \in Order :
       /\ WF_vars(<<"outbox", M("reserve", o)>> \notin dropped /\ ReserveStock(o))
       /\ \A k \in {"created"} \cup PaymentKinds :
            WF_vars(<<"inventory", M(k, o)>> \notin dropped /\ HandleInventory(k, o))

FairSpec == Spec /\ Fairness
-----------------------------------------------------------------------------
TypeOK ==
  /\ order \in [Order -> OrderStatus \cup {"none"}]
  /\ timingOut \in SUBSET Order
  /\ stripe \in [Session -> {"none", "requested", "open", "processing", "paid", "unpaid"}]
  /\ of \in [Session -> Order]
  /\ payment \in [Session -> PaymentStatus \cup {"none"}]
  /\ events \in SUBSET Event
  /\ saved \in SUBSET Message
  /\ published \in SUBSET Message
  /\ lock \in [Order -> {"none", "locked"}]
  /\ dropped \in SUBSET Drop

\* Stripe has taken money for order o.
Charged(o) == \E p \in Session : of[p] = o /\ stripe[p] = "paid"

\* Stripe has reported something about a session of o.
Reported(o) == \E e \in events : of[e.session] = o

\* The payment service never records a payment Stripe did not take for that
\* order, in whatever order and however often the events of its sessions come.
PaidRowsWereCharged == \A p \in Session : payment[p] = "paid" => Charged(of[p])

\* Stock is deducted only for an order that was charged: no reordering or
\* repetition of events and messages gets a deduction into the inventory outbox.
DeductionsWereCharged == \A o \in Order : M("deduct", o) \in saved => Charged(o)

\* An order is confirmed only after Stripe reported on one of its sessions:
\* neither a timeout nor a stale or foreign message confirms it.
ConfirmedWasReported == \A o \in Order : order[o] = "confirmed" => Reported(o)

\* Failures that may keep the charge of session p from the inventory service.
ChargeDropped(p) ==
  \/ \E t \in {"completed_paid", "async_succeeded"} :
       <<"callback", [session |-> p, type |-> t]>> \in dropped
  \/ \E w \in {"outbox", "inventory"} : <<w, M("paid", of[p])>> \in dropped

\* Every charge gets the order's deduction into the inventory outbox unless a
\* message that carries the charge was dropped: also that of a session whose
\* payments row the expiry of another or its own unpaid completion has settled.
ChargeReachesInventory ==
  \A p \in Session :
    stripe[p] = "paid" ~> (M("deduct", of[p]) \in saved \/ ChargeDropped(p))

\* The stock of a created order is reserved unless a message was dropped; in
\* particular also that of an order cancelled in the meantime.
OrderReservesStock ==
  \A o \in Order :
    order[o] # "none" ~> \/ lock[o] = "locked"
                         \/ <<"outbox", M("created", o)>> \in dropped
                         \/ <<"inventory", M("created", o)>> \in dropped
                         \/ <<"outbox", M("reserve", o)>> \in dropped

\* payment_service.go tells the customer that an order which is neither pending
\* nor cancelled "has been paid already": so a confirmed order was charged ...
ConfirmedMeansPaid == \A o \in Order : order[o] = "confirmed" => Charged(o)

\* ... and an order is not charged twice.
ChargedOnce ==
  \A p, q \in Session : stripe[p] = "paid" /\ stripe[q] = "paid" /\ of[p] = of[q] => p = q
=============================================================================
