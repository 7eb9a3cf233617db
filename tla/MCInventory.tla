---------------------------- MODULE MCInventory ----------------------------
(* TLC instances of Inventory: two orders that name two SKUs in opposite   *)
(* orders, with quantities a client can send (the service checks none).    *)
EXTENDS Inventory, TLC

CONSTANTS o1, o2, s1, s2

PositiveItems == o1 :> <<[sku |-> s1, qty |-> 1], [sku |-> s2, qty |-> 2]>>
              @@ o2 :> <<[sku |-> s2, qty |-> 1], [sku |-> s1, qty |-> 1]>>

AnyItems == o1 :> <<[sku |-> s1, qty |-> 2], [sku |-> s2, qty |-> 0]>>
         @@ o2 :> <<[sku |-> s2, qty |-> 1], [sku |-> s1, qty |-> -1], [sku |-> s2, qty |-> 1]>>

\* Quantities a merchant can send.
AnyStock == {-1, 0, 3}
=============================================================================
