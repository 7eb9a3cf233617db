----------------------------- MODULE Inventory -----------------------------
(***************************************************************************)
(* The inventory service: stock and reserved quantity of every SKU and one *)
(* inventory lock per order.  ReserveStock, DeductStock and ReleaseStock   *)
(* are called by the outbox of the service or by RPC, each any number of   *)
(* times for an order, in any order and concurrently.  Each is one         *)
(* transaction of several statements: an UPDATE locks the row until the    *)
(* transaction ends, other transactions go on in between, and orders that  *)
(* name the same SKUs in opposite orders can deadlock.  Every error path   *)
(* rolls back.                                                             *)
(*                                                                         *)
(* UpdateInventories and UpdateInventoryLock call gorm's                   *)
(* Model(v).Select(paths).Updates(v) on structs that declare no primary    *)
(* key.  gorm then finds no WHERE condition and returns an error.          *)
(* ModelIsKeyed = FALSE is that behaviour; TRUE is what the calls would do *)
(* if gorm knew the key, and has all the behaviours of FALSE and more.     *)
(*                                                                         *)
(* An operator X_Fault is X with a plausible fault; no specification uses  *)
(* it, it serves to test that a property notices the fault.                *)
(***************************************************************************)
EXTENDS Integers, Sequences, FiniteSets, FiniteSetsExt

CONSTANTS
  Sku,            \* stock keeping units
  Order,          \* order ids
  Items,          \* Items[o]: the order items, a sequence of [sku, qty]
  Tx,             \* transactions of the three calls that may run at the same time
  StockValues,    \* quantities AdjustStock is called with
  ModelIsKeyed    \* whether gorm derives a WHERE from the model (see above)

ItemType == [sku : Sku, qty : Int]

ASSUME InventoryAssumption ==
  /\ Items \in [Order -> Seq(ItemType)]
  /\ \A o \in Order : Len(Items[o]) > 0     \* CreateOrder rejects an empty order
  /\ StockValues \subseteq Int
  /\ ModelIsKeyed \in BOOLEAN

VARIABLES
  listed,   \* SKUs that have a row in table inventories
  inv,      \* inv[s]: the committed quantities of a listed SKU
  lock,     \* lock[o]: status of the inventory_locks row of o, or "none"
  call,     \* call[t]: the call that t runs, or "idle"
  for,      \* for[t]: the order of that call
  pos,      \* pos[t]: the item whose row t updates next
  held,     \* held[t]: rows t has updated, and so locked
  draft,    \* draft[t]: the uncommitted content of those rows
  skipped,  \* history: skipped[t]: items whose UPDATE by t found no row
  missed    \* history: <<o, i>> reserved for an item i whose SKU had no row

tables == <<listed, inv, lock, missed>>
txs == <<call, for, pos, held, draft, skipped>>
vars == <<tables, txs>>

LockStatus == {"locked", "confirmed", "released"}
Calls == {"reserve", "deduct", "release"}
Row == [stock : Int, reserved : Int]
Empty == [s \in Sku |-> [stock |-> 0, reserved |-> 0]]

Init ==
  /\ listed = {}
  /\ inv = Empty
  /\ lock = [o \in Order |-> "none"]
  /\ call = [t \in Tx |-> "idle"]
  /\ for \in [Tx -> Order]
  /\ pos = [t \in Tx |-> 1]
  /\ held = [t \in Tx |-> {}]
  /\ draft = [t \in Tx |-> Empty]
  /\ skipped = [t \in Tx |-> {}]
  /\ missed = {}
-----------------------------------------------------------------------------
\* The rows that some running transaction has locked.
LockedRows == UNION {held[t] : t \in Tx}

\* BatchCreateInventoris: one INSERT; a SKU that exists violates the primary key.
BatchCreateInventoris(S) ==
  /\ S # {} /\ S \cap listed = {}
  /\ listed' = listed \cup S
  /\ inv' = [s \in Sku |-> IF s \in S THEN Empty[s] ELSE inv[s]]
  /\ UNCHANGED <<lock, missed, txs>>

\* The handler of AdjustStock refuses a negative quantity.
Accepts(q) == q >= 0

\* AdjustStock: a transaction of one UPDATE, which waits for the row.
AdjustStock(s, q) ==
  /\ Accepts(q) /\ ModelIsKeyed
  /\ s \in listed \ LockedRows
  /\ inv' = [inv EXCEPT ![s].stock = q]
  /\ UNCHANGED <<listed, lock, missed, txs>>

\* BatchGetStock: the available quantity of the SKUs in S that have a row.
BatchGetStock(S) == [s \in S \cap listed |-> inv[s].stock - inv[s].reserved]

\* What the first statement of a call requires of the lock row it reads, without
\* locking it: DeductStock wants a locked one, ReleaseStock only one with a payload.
MayBegin(c, o) ==
  \/ c = "reserve"
  \/ c = "deduct" /\ lock[o] = "locked"
  \/ c = "release" /\ lock[o] # "none"

Begin(t, c, o) ==
  /\ call[t] = "idle" /\ MayBegin(c, o)
  /\ call' = [call EXCEPT ![t] = c]
  /\ for' = [for EXCEPT ![t] = o]
  /\ pos' = [pos EXCEPT ![t] = 1]
  /\ UNCHANGED <<held, draft, skipped, tables>>

Item(t) == Items[for[t]][pos[t]]
MoreItems(t) == call[t] # "idle" /\ pos[t] <= Len(Items[for[t]])

\* The row as t sees it, and as the UPDATE of the next item leaves it:
\* UpdateDeltaQuantity adds, UpdateInventories sets the negated quantity.
View(t, s) == IF s \in held[t] THEN draft[t][s] ELSE inv[s]

Updated_Sets(c, r, qty) == [r EXCEPT !.reserved = qty]

Updated(c, r, qty) ==
  CASE c = "reserve" -> [r EXCEPT !.reserved = @ + qty]
    [] c = "deduct"  -> [stock |-> -qty, reserved |-> -qty]
    [] c = "release" -> [r EXCEPT !.reserved = -qty]

CheckHolds(r) == r.stock >= 0 /\ r.reserved >= 0

Waits(t) == /\ MoreItems(t)
            /\ Item(t).sku \in LockedRows \ held[t]

\* One UPDATE ... WHERE sku_id = ?, which affects no row if there is none.
UpdateRow(t) ==
  LET s == Item(t).sku
      r == Updated(call[t], View(t, s), Item(t).qty)
  IN /\ MoreItems(t) /\ ~Waits(t)
     /\ call[t] = "reserve" \/ ModelIsKeyed
     /\ \/ /\ s \in listed /\ CheckHolds(r)
           /\ held' = [held EXCEPT ![t] = @ \cup {s}]
           /\ draft' = [draft EXCEPT ![t][s] = r]
           /\ UNCHANGED skipped
        \/ /\ s \notin listed
           /\ skipped' = [skipped EXCEPT ![t] = @ \cup {pos[t]}]
           /\ UNCHANGED <<held, draft>>
     /\ pos' = [pos EXCEPT ![t] = @ + 1]
     /\ UNCHANGED <<call, for, tables>>

\* The last statement: insert the lock of a reservation (a second one violates
\* the primary key), or set the status of the lock, whatever it is by now.
FinalStatus_Unknown(c) == "pending"

FinalStatus(c) == CASE c = "reserve" -> "locked"
                    [] c = "deduct"  -> "confirmed"
                    [] c = "release" -> "released"

EndTx(t) ==
  /\ call' = [call EXCEPT ![t] = "idle"]
  /\ held' = [held EXCEPT ![t] = {}]
  /\ draft' = [draft EXCEPT ![t] = Empty]
  /\ skipped' = [skipped EXCEPT ![t] = {}]
  /\ pos' = [pos EXCEPT ![t] = 1]
  /\ UNCHANGED for

MayFinish_NoPrimaryKey(c, o) == TRUE
MayFinish(c, o) == IF c = "reserve" THEN lock[o] = "none" ELSE ModelIsKeyed

Commit(t) ==
  /\ call[t] # "idle" /\ ~MoreItems(t)
  /\ MayFinish(call[t], for[t])
  /\ lock' = [lock EXCEPT ![for[t]] = FinalStatus(call[t])]
  /\ inv' = [s \in Sku |-> View(t, s)]
  /\ missed' = IF call[t] = "reserve" THEN missed \cup ({for[t]} \X skipped[t]) ELSE missed
  /\ EndTx(t)
  /\ UNCHANGED listed

\* Any error, deadlock, crash or failed commit: nothing of t remains.
Abort(t) ==
  /\ call[t] # "idle"
  /\ EndTx(t)
  /\ UNCHANGED tables
-----------------------------------------------------------------------------
Next ==
  \/ \E S \in SUBSET Sku : BatchCreateInventoris(S)
  \/ \E s \in Sku, q \in StockValues : AdjustStock(s, q)
  \/ \E t \in Tx :
       \/ \E c \in Calls, o \in Order : Begin(t, c, o)
       \/ UpdateRow(t) \/ Commit(t) \/ Abort(t)

Spec == Init /\ [][Next]_vars

\* A merchant adjusts the stock of every SKU again and again ...
Adjusting ==
  /\ WF_vars(BatchCreateInventoris(Sku))
  /\ \A s \in Sku, q \in StockValues : SF_vars(AdjustStock(s, q))

\* ... and a call is made of every order again and again, goes on whenever it
\* can and ends.
Calling(c) ==
  \A t \in Tx :
    /\ \A o \in Order : SF_vars(Begin(t, c, o))
    /\ SF_vars(call[t] = c /\ UpdateRow(t)) /\ SF_vars(call[t] = c /\ Commit(t))
    /\ WF_vars(Abort(t))

CallingSpec == Spec /\ Adjusting /\ Calling("release") /\ Calling("deduct")
-----------------------------------------------------------------------------
TypeOK ==
  /\ listed \in SUBSET Sku
  /\ inv \in [Sku -> Row]
  /\ lock \in [Order -> LockStatus \cup {"none"}]
  /\ call \in [Tx -> Calls \cup {"idle"}]
  /\ for \in [Tx -> Order]
  /\ pos \in [Tx -> Nat \ {0}]
  /\ held \in [Tx -> SUBSET Sku]
  /\ draft \in [Tx -> [Sku -> Row]]
  /\ skipped \in [Tx -> SUBSET Nat]
  /\ missed \in SUBSET (Order \X Nat)

\* What the orders with a locked lock have reserved of s, the items that were
\* reserved before their SKU had a row excepted.
LockedItems(s) ==
  (UNION {{<<o, i>> : i \in {j \in DOMAIN Items[o] : Items[o][j].sku = s}} :
          o \in {o \in Order : lock[o] = "locked"}}) \ missed

\* Exactly-once effect of at-least-once dispatch: however often ReserveStock is
\* repeated, interleaved with other calls or rolled back, the reserved quantity
\* of a SKU is the sum of what the locked orders hold of it.
ReservedIsLocked ==
  \A s \in listed :
    inv[s].reserved = MapThenSumSet(LAMBDA p : Items[p[1]][p[2]].qty, LockedItems(s))

\* The statements of the transactions, interleaved, rolled back and repeated, do
\* what Stock does in one step per call: an order reserves its items once, all
\* at the same time, and neither loses them nor changes what others hold.
Taken == {p \in UNION {{o} \X DOMAIN Items[o] : o \in {o \in Order : lock[o] = "locked"}} :
            p \notin missed}
Promise == INSTANCE Stock WITH stock <- [s \in Sku |-> inv[s].stock],
                               reserved <- [s \in Sku |-> inv[s].reserved],
                               status <- lock, taken <- Taken
KeepsPromise == Promise!Spec

\* inventory.proto: AdjustStock "sets stock to a specific quantity", ReleaseStock
\* is to "release reserved stock", and 001_init.sql has locks end as confirmed or
\* released: an order on which these calls are made again and again sees at least
\* one of them take effect.
SomeCallTakesEffect ==
  \A o \in Order :
    lock[o] = "locked" ~> (lock[o] # "locked" \/ \E s \in Sku : inv[s].stock > 0)
=============================================================================
