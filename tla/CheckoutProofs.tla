--------------------------- MODULE CheckoutProofs ---------------------------
(***************************************************************************)
(* Proofs about Checkout for all sets of orders and sessions: the type     *)
(* invariant and the three properties that relate what the services record *)
(* to what Stripe did.  Their argument: Charged and Reported are stable,   *)
(* and every message, event and row on the way from Stripe to the order    *)
(* and to the inventory was, when it was written, backed by one of them.   *)
(***************************************************************************)
EXTENDS Checkout, TLAPS

\* An event of a session follows the session's state at Stripe, ...
EventsAreTrue ==
  \A e \in events :
    /\ stripe[e.session] \notin {"none", "requested"}
    /\ StatusOf(e.type) = "paid" => stripe[e.session] = "paid"

\* ... a row exists only once its session does, ...
RowsHaveSessions ==
  \A p \in Session : payment[p] # "none" => stripe[p] \notin {"none", "requested"}

\* ... and a message of the payment service reports what Stripe reported.
MessagesAreTrue ==
  /\ published \subseteq saved
  /\ \A o \in Order : M("paid", o) \in saved => Charged(o)
  /\ \A o \in Order, k \in PaymentKinds : M(k, o) \in saved => Reported(o)

IInv ==
  /\ TypeOK
  /\ EventsAreTrue
  /\ RowsHaveSessions
  /\ MessagesAreTrue
  /\ PaidRowsWereCharged
  /\ DeductionsWereCharged
  /\ ConfirmedWasReported
-----------------------------------------------------------------------------
LEMMA TypeOKInit == Init => TypeOK
BY DEF Init, TypeOK, Drop

LEMMA StatusOfType == \A t : StatusOf(t) \in {"paid", "cancelled"}
BY DEF StatusOf

LEMMA MessageOf ==
  ASSUME NEW o \in Order,
         NEW k \in OrderKinds \cup PaymentKinds \cup InventoryKinds
  PROVE  M(k, o) \in Message /\ M(k, o).kind = k /\ M(k, o).order = o
BY DEF M, Message

LEMMA TypeOKStep ==
  ASSUME TypeOK, [Next]_vars
  PROVE  TypeOK'
<1> USE DEF orderVars, paymentVars
<1>1. ASSUME NEW o \in Order, CreateOrder(o) PROVE TypeOK'
  BY <1>1, MessageOf DEF CreateOrder, TypeOK, OrderStatus, OrderKinds
<1>2. ASSUME NEW o \in Order, CancelOrder(o) PROVE TypeOK'
  BY <1>2, MessageOf DEF CancelOrder, TypeOK, OrderStatus, OrderKinds
<1>3. ASSUME NEW o \in Order, ReadTimedOut(o) \/ UpdateTimedOut(o) PROVE TypeOK'
  BY <1>3 DEF ReadTimedOut, UpdateTimedOut, AfterTimeout, TypeOK, OrderStatus
<1>4. ASSUME NEW o \in Order, ReserveStock(o) PROVE TypeOK'
  BY <1>4 DEF ReserveStock, TypeOK
<1>5. ASSUME NEW o \in Order, NEW k \in PaymentKinds, HandlePaymentStatus(k, o) PROVE TypeOK'
  BY <1>5 DEF HandlePaymentStatus, TypeOK, OrderStatus
<1>6. ASSUME NEW o \in Order, NEW k \in {"created"} \cup PaymentKinds, HandleInventory(k, o)
      PROVE  TypeOK'
  <2>1. WorkFor(k) \subseteq InventoryKinds
    BY DEF WorkFor, PaymentKinds, InventoryKinds
  <2> QED BY <1>6, <2>1, MessageOf DEF HandleInventory, TypeOK
<1>7. ASSUME NEW o \in Order, NEW p \in Session, RequestSession(p, o) PROVE TypeOK'
  BY <1>7 DEF RequestSession, TypeOK
<1>8. ASSUME NEW p \in Session, OpenSession(p) PROVE TypeOK'
  BY <1>8 DEF OpenSession, TypeOK
<1>9. ASSUME NEW p \in Session, InsertPayment(p) PROVE TypeOK'
  BY <1>9 DEF InsertPayment, TypeOK, PaymentStatus
<1>10. ASSUME NEW p \in Session, StripeReports(p) PROVE TypeOK'
  <2>1. ASSUME NEW from, NEW to \in {"processing", "paid", "unpaid"}, NEW type \in EventType,
               Reports(p, from, to, type)
        PROVE  TypeOK'
    BY <2>1 DEF Reports, TypeOK, Event
  <2> QED BY <1>10, <2>1 DEF StripeReports, EventType
<1>11. ASSUME NEW e \in events, Callback(e) PROVE TypeOK'
  <2>1. e.session \in Session /\ of[e.session] \in Order
    BY DEF TypeOK, Event
  <2>2. StatusMessages(e) \subseteq Message
    BY <2>1, StatusOfType, MessageOf DEF StatusMessages, PaymentKinds
  <2>3. payment' \in [Session -> PaymentStatus \cup {"none"}]
    BY <1>11, StatusOfType DEF Callback, TypeOK, PaymentStatus
  <2> QED BY <1>11, <2>2, <2>3 DEF Callback, TypeOK
<1>12. ASSUME NEW m \in saved, Publish(m) PROVE TypeOK'
  BY <1>12 DEF Publish, TypeOK
<1>13. ASSUME NEW d \in Drop, Lose(d) PROVE TypeOK'
  BY <1>13 DEF Lose, TypeOK
<1>14. CASE UNCHANGED vars
  BY <1>14 DEF vars, TypeOK
<1> QED BY <1>1, <1>2, <1>3, <1>4, <1>5, <1>6, <1>7, <1>8, <1>9, <1>10, <1>11,
           <1>12, <1>13, <1>14 DEF Next

\* The tables, the channels and Stripe's sessions always have their types.
THEOREM CheckoutTypeCorrect == Spec => []TypeOK
BY TypeOKInit, TypeOKStep, PTL DEF Spec
-----------------------------------------------------------------------------
\* A step of any action but the three that write stripe or of leaves both alone.
LEMMA WhoWritesStripe ==
  ASSUME [Next]_vars
  PROVE  \/ UNCHANGED <<stripe, of, events>>
         \/ \E p \in Session, o \in Order : RequestSession(p, o)
         \/ \E p \in Session : OpenSession(p) \/ StripeReports(p)
BY DEF Next, vars, orderVars, paymentVars, CreateOrder, CancelOrder, ReadTimedOut,
       UpdateTimedOut, ReserveStock, HandlePaymentStatus, HandleInventory,
       InsertPayment, Callback, Publish, Lose

\* A session never leaves the state "paid", keeps its order once Stripe has it,
\* and its events stay.
LEMMA SessionsAreStable ==
  ASSUME TypeOK, [Next]_vars
  PROVE  /\ events \subseteq events'
         /\ \A p \in Session : stripe[p] = "paid" => stripe'[p] = "paid"
         /\ \A p \in Session : stripe[p] \notin {"none", "requested"} =>
              stripe'[p] \notin {"none", "requested"} /\ of'[p] = of[p]
<1>1. ASSUME NEW p \in Session, NEW o \in Order, RequestSession(p, o)
      PROVE  /\ events' = events /\ stripe[p] = "none"
             /\ \A q \in Session \ {p} : stripe'[q] = stripe[q] /\ of'[q] = of[q]
  BY <1>1 DEF RequestSession, TypeOK
<1>2. ASSUME NEW p \in Session, OpenSession(p)
      PROVE  /\ UNCHANGED <<events, of>> /\ stripe[p] = "requested"
             /\ \A q \in Session \ {p} : stripe'[q] = stripe[q]
  BY <1>2 DEF OpenSession, TypeOK
<1>3. ASSUME NEW p \in Session, StripeReports(p)
      PROVE  /\ events \subseteq events' /\ of' = of
             /\ stripe[p] \in {"open", "processing"}
             /\ stripe'[p] \in {"processing", "paid", "unpaid"}
             /\ \A q \in Session \ {p} : stripe'[q] = stripe[q]
  BY <1>3 DEF StripeReports, Reports, TypeOK
<1>4. CASE \E p \in Session, o \in Order : RequestSession(p, o)
  BY <1>1, <1>4
<1>5. CASE \E p \in Session : OpenSession(p)
  <2>1. PICK p \in Session : OpenSession(p)
    BY <1>5
  <2>2. stripe'[p] = "open"
    BY <2>1 DEF OpenSession, TypeOK
  <2> QED BY <1>2, <2>1, <2>2
<1>6. CASE \E p \in Session : StripeReports(p)
  BY <1>3, <1>6
<1> QED BY <1>4, <1>5, <1>6, WhoWritesStripe

LEMMA EventsStep ==
  ASSUME TypeOK, EventsAreTrue, [Next]_vars
  PROVE  EventsAreTrue'
<1>1. ASSUME NEW e \in events' PROVE e \in events \/ \E p \in Session : StripeReports(p)
  BY <1>1, WhoWritesStripe DEF RequestSession, OpenSession
<1>2. ASSUME NEW e \in events
      PROVE  /\ stripe'[e.session] \notin {"none", "requested"}
             /\ StatusOf(e.type) = "paid" => stripe'[e.session] = "paid"
  <2>1. e.session \in Session
    BY DEF TypeOK, Event
  <2> QED BY <2>1, SessionsAreStable DEF EventsAreTrue
<1>3. ASSUME NEW p \in Session, NEW from, NEW to, NEW type, Reports(p, from, to, type),
             to \in {"processing", "paid", "unpaid"}, StatusOf(type) = "paid" => to = "paid"
      PROVE  EventsAreTrue'
  <2>1. stripe'[p] = to
    BY <1>3 DEF Reports, TypeOK
  <2>2. events' = events \cup {[session |-> p, type |-> type]}
    BY <1>3 DEF Reports
  <2> QED BY <1>2, <1>3, <2>1, <2>2 DEF EventsAreTrue
<1>4. ASSUME NEW p \in Session, StripeReports(p) PROVE EventsAreTrue'
  BY <1>3, <1>4 DEF StripeReports, StatusOf
<1> QED BY <1>1, <1>2, <1>4 DEF EventsAreTrue

LEMMA WhoWritesPayment ==
  ASSUME [Next]_vars
  PROVE  \/ UNCHANGED payment
         \/ \E p \in Session : InsertPayment(p)
         \/ \E e \in events : Callback(e)
BY DEF Next, vars, orderVars, paymentVars, CreateOrder, CancelOrder, ReadTimedOut,
       UpdateTimedOut, ReserveStock, HandlePaymentStatus, HandleInventory,
       RequestSession, OpenSession, StripeReports, Reports, Publish, Lose

LEMMA RowsStep ==
  ASSUME TypeOK, RowsHaveSessions, [Next]_vars
  PROVE  RowsHaveSessions'
<1>1. ASSUME NEW p \in Session, payment'[p] # "none"
      PROVE  stripe[p] \notin {"none", "requested"}
  <2>1. CASE UNCHANGED payment
    BY <1>1, <2>1 DEF RowsHaveSessions
  <2>2. ASSUME NEW q \in Session, InsertPayment(q)
        PROVE  stripe[p] \notin {"none", "requested"}
    BY <1>1, <2>2 DEF InsertPayment, RowsHaveSessions, TypeOK
  <2>3. ASSUME NEW e \in events, Callback(e) PROVE payment[p] # "none"
    BY <1>1, <2>3 DEF Callback, PendingOf
  <2> QED BY <2>1, <2>2, <2>3, WhoWritesPayment DEF RowsHaveSessions
<1> QED BY <1>1, SessionsAreStable DEF RowsHaveSessions
-----------------------------------------------------------------------------
LEMMA ChargedIsStable ==
  ASSUME TypeOK, [Next]_vars, NEW o \in Order, Charged(o)
  PROVE  Charged(o)'
<1>1. PICK p \in Session : of[p] = o /\ stripe[p] = "paid"
  BY DEF Charged
<1>2. of'[p] = o /\ stripe'[p] = "paid"
  BY <1>1, SessionsAreStable
<1> QED BY <1>2 DEF Charged

LEMMA ReportedIsStable ==
  ASSUME TypeOK, EventsAreTrue, [Next]_vars, NEW o \in Order, Reported(o)
  PROVE  Reported(o)'
<1>1. PICK e \in events : of[e.session] = o
  BY DEF Reported
<1>2. e.session \in Session /\ stripe[e.session] \notin {"none", "requested"}
  BY DEF TypeOK, Event, EventsAreTrue
<1>3. e \in events' /\ of'[e.session] = o
  BY <1>1, <1>2, SessionsAreStable
<1> QED BY <1>3 DEF Reported

\* An event that stands for a payment was sent for a charged order.
LEMMA EventBacksStatus ==
  ASSUME TypeOK, EventsAreTrue, NEW e \in events
  PROVE  /\ of[e.session] \in Order /\ Reported(of[e.session])
         /\ StatusOf(e.type) = "paid" => Charged(of[e.session])
BY DEF TypeOK, Event, EventsAreTrue, Reported, Charged

\* The messages a step may save.
LEMMA WhoSaves ==
  ASSUME [Next]_vars
  PROVE  \/ UNCHANGED saved
         \/ \E o \in Order : saved' = saved \cup {M("created", o), M("timeout", o)}
         \/ \E o \in Order : saved' = saved \cup {M("release", o)}
         \/ \E e \in events : saved' = saved \cup StatusMessages(e)
         \/ \E o \in Order, k \in {"created"} \cup PaymentKinds :
              M(k, o) \in published /\ saved' = saved \cup {M(w, o) : w \in WorkFor(k)}
BY DEF Next, vars, orderVars, paymentVars, CreateOrder, CancelOrder, ReadTimedOut,
       UpdateTimedOut, ReserveStock, HandlePaymentStatus, HandleInventory,
       RequestSession, OpenSession, InsertPayment, StripeReports, Reports, Callback,
       Publish, Lose

\* A new message of the payment service comes from an event, a new deduction
\* from a published payment.
LEMMA SavedHasCause ==
  ASSUME [Next]_vars, NEW o \in Order, NEW k \in PaymentKinds \cup {"deduct"},
         M(k, o) \in saved', M(k, o) \notin saved
  PROVE  \/ k \in PaymentKinds /\ \E e \in events : of[e.session] = o /\ StatusOf(e.type) = k
         \/ k = "deduct" /\ M("paid", o) \in published
<1>1. ASSUME NEW e \in events, saved' = saved \cup StatusMessages(e)
      PROVE  k \in PaymentKinds /\ of[e.session] = o /\ StatusOf(e.type) = k
  BY <1>1, StatusOfType DEF StatusMessages, M, PaymentKinds
<1>2. ASSUME NEW q \in Order, NEW j \in {"created"} \cup PaymentKinds, M(j, q) \in published,
             saved' = saved \cup {M(w, q) : w \in WorkFor(j)}
      PROVE  k = "deduct" /\ M("paid", o) \in published
  <2>1. q = o /\ k \in WorkFor(j)
    BY <1>2 DEF M
  <2> QED BY <1>2, <2>1 DEF WorkFor, PaymentKinds
<1>3. ASSUME NEW q \in Order
      PROVE  M(k, o) \notin {M("created", q), M("timeout", q), M("release", q)}
  BY DEF M, PaymentKinds
<1>4. saved' # saved
  OBVIOUS
<1>5. CASE \E e \in events : saved' = saved \cup StatusMessages(e)
  BY <1>1, <1>5
<1>6. CASE \E q \in Order, j \in {"created"} \cup PaymentKinds :
             M(j, q) \in published /\ saved' = saved \cup {M(w, q) : w \in WorkFor(j)}
  BY <1>2, <1>6
<1>7. ASSUME NEW q \in Order PROVE /\ saved' # saved \cup {M("created", q), M("timeout", q)}
                                   /\ saved' # saved \cup {M("release", q)}
  BY <1>3
<1> QED BY <1>4, <1>5, <1>6, <1>7, WhoSaves

LEMMA MessagesStep ==
  ASSUME TypeOK, EventsAreTrue, MessagesAreTrue, [Next]_vars
  PROVE  MessagesAreTrue'
<1>1. (published \subseteq saved)'
  <2>1. saved \subseteq saved'
    BY WhoSaves
  <2>2. UNCHANGED published \/ \E m \in saved : published' = published \cup {m}
    BY DEF Next, vars, orderVars, paymentVars, CreateOrder, CancelOrder, ReadTimedOut,
           UpdateTimedOut, ReserveStock, HandlePaymentStatus, HandleInventory,
           RequestSession, OpenSession, InsertPayment, StripeReports, Reports, Callback,
           Publish, Lose
  <2> QED BY <2>1, <2>2 DEF MessagesAreTrue
<1>2. ASSUME NEW o \in Order, M("paid", o) \in saved' PROVE Charged(o)'
  <2>1. CASE M("paid", o) \in saved
    BY <2>1, ChargedIsStable DEF MessagesAreTrue
  <2>2. CASE M("paid", o) \notin saved
    BY <1>2, <2>2, SavedHasCause, EventBacksStatus, ChargedIsStable DEF PaymentKinds
  <2> QED BY <2>1, <2>2
<1>3. ASSUME NEW o \in Order, NEW k \in PaymentKinds, M(k, o) \in saved' PROVE Reported(o)'
  <2>1. CASE M(k, o) \in saved
    BY <2>1, ReportedIsStable DEF MessagesAreTrue
  <2>2. CASE M(k, o) \notin saved
    BY <1>3, <2>2, SavedHasCause, EventBacksStatus, ReportedIsStable DEF PaymentKinds
  <2> QED BY <2>1, <2>2
<1> QED BY <1>1, <1>2, <1>3 DEF MessagesAreTrue

LEMMA DeductionsStep ==
  ASSUME TypeOK, MessagesAreTrue, DeductionsWereCharged, [Next]_vars
  PROVE  DeductionsWereCharged'
<1>1. ASSUME NEW o \in Order, M("deduct", o) \in saved' PROVE Charged(o)
  <2>1. CASE M("deduct", o) \in saved
    BY <2>1 DEF DeductionsWereCharged
  <2>2. CASE M("deduct", o) \notin saved
    <3>1. M("paid", o) \in published
      BY <1>1, <2>2, SavedHasCause DEF PaymentKinds
    <3> QED BY <3>1 DEF MessagesAreTrue
  <2> QED BY <2>1, <2>2
<1> QED BY <1>1, ChargedIsStable DEF DeductionsWereCharged

LEMMA PaidRowsStep ==
  ASSUME TypeOK, EventsAreTrue, RowsHaveSessions, PaidRowsWereCharged, [Next]_vars
  PROVE  PaidRowsWereCharged'
<1>1. ASSUME NEW p \in Session, payment'[p] = "paid"
      PROVE  Charged(of[p]) /\ stripe[p] \notin {"none", "requested"}
  <2>1. CASE payment[p] = "paid"
    BY <2>1 DEF PaidRowsWereCharged, RowsHaveSessions
  <2>2. CASE payment[p] # "paid"
    <3>1. PICK e \in events : Callback(e)
      BY <1>1, <2>2, WhoWritesPayment DEF InsertPayment, TypeOK
    <3>2. p \in PendingOf(of[e.session]) /\ StatusOf(e.type) = "paid"
      BY <1>1, <2>2, <3>1 DEF Callback
    <3> QED BY <3>2, EventBacksStatus DEF PendingOf, RowsHaveSessions
  <2> QED BY <2>1, <2>2
<1>2. ASSUME NEW p \in Session, payment'[p] = "paid" PROVE Charged(of[p])'
  <2>1. of[p] \in Order /\ of'[p] = of[p]
    BY <1>1, <1>2, SessionsAreStable DEF TypeOK
  <2>2. PICK q \in Session : of[q] = of[p] /\ stripe[q] = "paid"
    BY <1>1, <1>2 DEF Charged
  <2>3. of'[q] = of'[p] /\ stripe'[q] = "paid"
    BY <2>1, <2>2, SessionsAreStable
  <2> QED BY <2>3 DEF Charged
<1> QED BY <1>2 DEF PaidRowsWereCharged

LEMMA ConfirmedStep ==
  ASSUME TypeOK, EventsAreTrue, MessagesAreTrue, ConfirmedWasReported, [Next]_vars
  PROVE  ConfirmedWasReported'
<1>1. \/ UNCHANGED order
      \/ \E o \in Order : CreateOrder(o) \/ CancelOrder(o) \/ UpdateTimedOut(o)
      \/ \E o \in Order, k \in PaymentKinds : HandlePaymentStatus(k, o)
  BY DEF Next, vars, orderVars, paymentVars, ReadTimedOut, ReserveStock, HandleInventory,
         RequestSession, OpenSession, InsertPayment, StripeReports, Reports, Callback,
         Publish, Lose
<1>2. ASSUME NEW o \in Order, order'[o] = "confirmed" PROVE Reported(o)
  <2>1. CASE order[o] = "confirmed"
    BY <2>1 DEF ConfirmedWasReported
  <2>2. CASE order[o] # "confirmed"
    <3>1. PICK q \in Order, k \in PaymentKinds : HandlePaymentStatus(k, q)
      BY <1>1, <1>2, <2>2 DEF CreateOrder, CancelOrder, UpdateTimedOut, AfterTimeout, TypeOK
    <3>2. q = o /\ M(k, o) \in saved
      BY <1>2, <2>2, <3>1 DEF HandlePaymentStatus, TypeOK, MessagesAreTrue
    <3> QED BY <3>2 DEF MessagesAreTrue
  <2> QED BY <2>1, <2>2
<1> QED BY <1>2, ReportedIsStable DEF ConfirmedWasReported
-----------------------------------------------------------------------------
LEMMA IInvHolds == Spec => []IInv
<1>1. Init => IInv
  BY TypeOKInit DEF Init, IInv, EventsAreTrue, RowsHaveSessions, MessagesAreTrue,
     PaidRowsWereCharged, DeductionsWereCharged, ConfirmedWasReported
<1>2. IInv /\ [Next]_vars => IInv'
  BY TypeOKStep, EventsStep, RowsStep, MessagesStep, PaidRowsStep, DeductionsStep,
     ConfirmedStep DEF IInv
<1> QED BY <1>1, <1>2, PTL DEF Spec

\* A payments row is "paid" only if Stripe took the money for its order.
THEOREM PaidRowsAreCharged == Spec => []PaidRowsWereCharged
<1>1. IInv => PaidRowsWereCharged
  BY DEF IInv
<1> QED BY <1>1, IInvHolds, PTL

\* Only charged orders get a deduction of stock.
THEOREM DeductionsAreCharged == Spec => []DeductionsWereCharged
<1>1. IInv => DeductionsWereCharged
  BY DEF IInv
<1> QED BY <1>1, IInvHolds, PTL

\* Only an outcome Stripe reported for the order itself confirms it.
THEOREM ConfirmedIsReported == Spec => []ConfirmedWasReported
<1>1. IInv => ConfirmedWasReported
  BY DEF IInv
<1> QED BY <1>1, IInvHolds, PTL
=============================================================================
