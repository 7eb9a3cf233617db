------------------------------- MODULE Stock -------------------------------
(***************************************************************************)
(* What the inventory service promises of its stock: an order reserves its *)
(* items in one step, once, and keeps them until it is released or         *)
(* deducted, likewise in one step and once.  A reservation leaves out what *)
(* had no row when its turn came, and nothing of another order is touched. *)
(* Inventory.tla implements this.                                          *)
(***************************************************************************)
EXTENDS Integers, Sequences, FiniteSets, Functions

CONSTANTS
  Sku,         \* stock keeping units
  Order,       \* order ids
  Items,       \* Items[o]: the items of order o, a sequence of [sku, qty]
  StockValues \* quantities AdjustStock is called with

VARIABLES
  listed,    \* SKUs with a row
  stock,     \* stock[s]: the units in stock
  reserved,  \* reserved[s]: the units reserved
  status,    \* status[o]: "none", "locked", "confirmed" or "released"
  taken      \* <<o, i>>: item i is reserved for order o

vars == <<listed, stock, reserved, status, taken>>

ItemsOf(o) == {o} \X DOMAIN Items[o]
SkuOf(p) == Items[p[1]][p[2]].sku

\* The units of SKU s in the items P.
Units(P, s) ==
  SumFunctionOnSet([p \in P |-> Items[p[1]][p[2]].qty], {p \in P : SkuOf(p) = s})

Init ==
  /\ listed = {} /\ taken = {}
  /\ stock = [s \in Sku |-> 0] /\ reserved = [s \in Sku |-> 0]
  /\ status = [o \in Order |-> "none"]

List(S) ==
  /\ S \cap listed = {}
  /\ listed' = listed \cup S
  /\ UNCHANGED <<stock, reserved, status, taken>>

\* AdjustStock "sets stock to a specific quantity".
Adjust(s, q) ==
  /\ s \in listed /\ q >= 0
  /\ stock' = [stock EXCEPT ![s] = q]
  /\ UNCHANGED <<listed, reserved, status, taken>>

Reserve(o, P) ==
  /\ status[o] = "none" /\ \A p \in P : SkuOf(p) \in listed
  /\ status' = [status EXCEPT ![o] = "locked"]
  /\ taken' = taken \cup P
  /\ reserved' = [s \in Sku |-> reserved[s] + Units(P, s)]
  /\ UNCHANGED <<listed, stock>>

\* What order o holds is given back, or leaves the stock.
Held(o) == {p \in taken : p[1] = o}
Settle(o, to) ==
  /\ status[o] = "locked"
  /\ status' = [status EXCEPT ![o] = to]
  /\ taken' = taken \ Held(o)
  /\ reserved' = [s \in Sku |-> reserved[s] - Units(Held(o), s)]
  /\ UNCHANGED listed

Release(o) == Settle(o, "released") /\ UNCHANGED stock
Deduct(o) == /\ Settle(o, "confirmed")
             /\ stock' = [s \in Sku |-> stock[s] - Units(Held(o), s)]

Next ==
  \/ \E S \in SUBSET Sku : List(S)
  \/ \E s \in Sku, q \in StockValues : Adjust(s, q)
  \/ \E o \in Order :
       \/ \E P \in SUBSET ItemsOf(o) : Reserve(o, P)
       \/ Release(o) \/ Deduct(o)

Spec == Init /\ [][Next]_vars
=============================================================================
