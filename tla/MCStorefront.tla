---------------------------- MODULE MCStorefront ----------------------------
(***************************************************************************)
(* TLC instance of what a customer meets: accounts and purchases.  They    *)
(* share no state, so one of them runs in a behaviour and the other rests. *)
(***************************************************************************)
EXTENDS Purchase, Accounts

CONSTANTS k1, k2, u1

VARIABLE awake  \* the one that runs

vars == <<awake, purchaseVars, accountsVars>>

Good == [scheme |-> "Bearer", token |-> u1]
Item1 == [sku |-> 1, canonical |-> TRUE, quantity |-> 2]
Item2 == [sku |-> 2, canonical |-> TRUE, quantity |-> 1]

Ordering(key, items) ==
  [verb |-> "POST", service |-> "order", procedure |-> "CreateOrder", authorization |-> Good, key |-> key,
   items |-> items, order |-> 0, pays |-> "unspecified"]
Paying(key, pays) ==
  [verb |-> "POST", service |-> "payment", procedure |-> "CreatePayment", authorization |-> Good, key |-> key,
   items |-> <<>>, order |-> 1, pays |-> pays]

\* Requests that are refused whatever happens, and those that need not be.
Refused ==
  {[Ordering(k1, <<Item1>>) EXCEPT !.verb = "OPTIONS"],
   [Ordering(k1, <<Item1>>) EXCEPT !.procedure = "DeleteOrder"],
   [Ordering(k1, <<Item1>>) EXCEPT !.authorization = [scheme |-> "Bearer", token |-> Garbled]],
   [Ordering(k1, <<Item1>>) EXCEPT !.key = NoKey],
   Ordering(k2, <<Item2, [Item1 EXCEPT !.sku = 3]>>),
   Ordering(k2, <<[Item1 EXCEPT !.canonical = FALSE]>>),
   Paying(k1, "unspecified"), Paying(k2, "alipay")}
MCWanted ==
  Refused \cup
  {Ordering(k1, <<Item1, Item2>>), Paying(k1, "stripe"), Paying(k2, "stripe")}

\* What rests is in one initial state; prices start low.
Resting == CHOOSE v \in Visit : v.stage = "new"
Cheapest == CHOOSE p \in Price : \A q \in Price : p <= q

Init ==
  /\ awake \in {"purchase", "accounts"}
  /\ PurchaseInit /\ AccountsInit
  /\ awake = "purchase" => \A v \in Visitor : visit[v] = Resting
  /\ \A s \in Sku : price[s] = Cheapest

\* Bound: a request that is refused whatever happens is the first.
RefusedFirst == \A c \in DOMAIN calls' : calls'[c].request \in Refused => c = 1

Next ==
  /\ UNCHANGED awake
  /\ \/ awake = "purchase" /\ PurchaseNext /\ RefusedFirst /\ UNCHANGED accountsVars
     \/ awake = "accounts" /\ AccountsNext /\ UNCHANGED purchaseVars

Spec == Init /\ [][Next]_vars
FairSpec == Spec /\ PurchaseFairness

TypeOK == PurchaseTypeOK /\ AccountsTypeOK
=============================================================================
