-------------------------- MODULE InventoryProofs --------------------------
(***************************************************************************)
(* Proofs about Inventory for every set of SKUs, orders and transactions   *)
(* and every order contents: the type invariant and what is reserved, for  *)
(* both settings of ModelIsKeyed; and, for the pinned gorm, that Inventory *)
(* implements Stock.                                                       *)
(***************************************************************************)
EXTENDS Inventory, Induction, SequenceTheorems

LEMMA ItemsOf ==
  ASSUME NEW o \in Order, NEW i \in 1..Len(Items[o])
  PROVE  Items[o][i].sku \in Sku /\ Items[o][i].qty \in Int
<1>1. Items[o] \in Seq(ItemType)
  BY InventoryAssumption
<1>2. Items[o][i] \in ItemType
  BY <1>1
<1> QED BY <1>2 DEF ItemType

\* The item a running call updates next.
LEMMA CurrentItem ==
  ASSUME TypeOK, NEW t \in Tx, MoreItems(t)
  PROVE  Item(t).sku \in Sku /\ Item(t).qty \in Int
<1>1. for[t] \in Order /\ Items[for[t]] \in Seq(ItemType) /\ pos[t] \in Nat \ {0}
  BY InventoryAssumption DEF TypeOK
<1>2. Len(Items[for[t]]) \in Nat
  BY <1>1
<1>3. pos[t] \in 1..Len(Items[for[t]])
  BY <1>1, <1>2 DEF MoreItems
<1> QED BY <1>1, <1>3, ItemsOf DEF Item

LEMMA ViewType ==
  ASSUME TypeOK, NEW t \in Tx, NEW s \in Sku
  PROVE  View(t, s) \in Row
BY DEF TypeOK, View

LEMMA UpdatedType ==
  ASSUME NEW c \in Calls, NEW r \in Row, NEW q \in Int
  PROVE  /\ Updated(c, r, q) \in Row
         /\ c = "reserve" => Updated(c, r, q).stock = r.stock
<1>1. CASE c = "reserve"
  BY <1>1 DEF Updated, Row
<1>2. CASE c = "deduct"
  BY <1>2 DEF Updated, Row
<1>3. CASE c = "release"
  BY <1>3 DEF Updated, Row
<1> QED BY <1>1, <1>2, <1>3 DEF Calls

\* What one UPDATE does: it changes nothing but the position and the skipped
\* items, or it drafts new content of a listed row that no other transaction holds.
LEMMA UpdateRowEffect ==
  ASSUME TypeOK, NEW t \in Tx, UpdateRow(t)
  PROVE  /\ UNCHANGED <<call, for, tables>>
         /\ call[t] = "reserve" \/ ModelIsKeyed
         /\ pos' = [pos EXCEPT ![t] = @ + 1]
         /\ skipped' \in [Tx -> SUBSET Nat]
         /\ \/ UNCHANGED <<held, draft>>
            \/ \E s \in Sku, r \in Row :
                 /\ s \in listed /\ s \notin LockedRows \ held[t]
                 /\ call[t] = "reserve" => r.stock = View(t, s).stock
                 /\ r.reserved >= 0
                 /\ held' = [held EXCEPT ![t] = @ \cup {s}]
                 /\ draft' = [draft EXCEPT ![t][s] = r]
<1> DEFINE s == Item(t).sku
           r == Updated(call[t], View(t, s), Item(t).qty)
<1>1. MoreItems(t) /\ ~Waits(t)
  BY DEF UpdateRow
<1>2. s \in Sku /\ Item(t).qty \in Int
  BY <1>1, CurrentItem
<1>3. call[t] \in Calls
  BY <1>1 DEF MoreItems, TypeOK
<1>4. r \in Row /\ (call[t] = "reserve" => r.stock = View(t, s).stock)
  BY <1>2, <1>3, ViewType, UpdatedType
<1>5. s \notin LockedRows \ held[t]
  BY <1>1 DEF Waits
<1>6. \/ /\ s \in listed /\ r.reserved >= 0
         /\ held' = [held EXCEPT ![t] = @ \cup {s}]
         /\ draft' = [draft EXCEPT ![t][s] = r]
      \/ UNCHANGED <<held, draft>>
  BY DEF UpdateRow, CheckHolds
<1>7. skipped' \in {skipped, [skipped EXCEPT ![t] = @ \cup {pos[t]}]}
  BY DEF UpdateRow
<1>8. skipped' \in [Tx -> SUBSET Nat]
  BY <1>7 DEF TypeOK
<1>9. /\ UNCHANGED <<call, for, tables>> /\ (call[t] = "reserve" \/ ModelIsKeyed)
      /\ pos' = [pos EXCEPT ![t] = @ + 1]
  BY DEF UpdateRow
<1> HIDE DEF s, r
<1> QED BY <1>2, <1>4, <1>5, <1>6, <1>8, <1>9
-----------------------------------------------------------------------------
LEMMA EmptyType ==
  Empty \in [Sku -> Row] /\ \A s \in Sku : Empty[s] = [stock |-> 0, reserved |-> 0]
BY DEF Empty, Row

LEMMA TypeOKInit == Init => TypeOK
BY EmptyType DEF Init, TypeOK

LEMMA TypeOKStep ==
  ASSUME TypeOK, [Next]_vars
  PROVE  TypeOK'
<1> USE DEF tables, txs
<1>1. ASSUME NEW S \in SUBSET Sku, BatchCreateInventoris(S) PROVE TypeOK'
  <2>1. inv' \in [Sku -> Row]
    BY <1>1, EmptyType DEF BatchCreateInventoris, TypeOK
  <2> QED BY <1>1, <2>1 DEF BatchCreateInventoris, TypeOK
<1>2. ASSUME NEW s \in Sku, NEW q \in StockValues, AdjustStock(s, q) PROVE TypeOK'
  <2>1. q \in Int /\ inv \in [Sku -> Row]
    BY InventoryAssumption DEF TypeOK
  <2>2. inv' = [inv EXCEPT ![s].stock = q]
    BY <1>2 DEF AdjustStock
  <2>3. inv' \in [Sku -> Row]
    BY <2>1, <2>2 DEF Row
  <2> QED BY <1>2, <2>3 DEF AdjustStock, TypeOK
<1>3. ASSUME NEW t \in Tx, NEW c \in Calls, NEW o \in Order, Begin(t, c, o) PROVE TypeOK'
  BY <1>3 DEF Begin, TypeOK
<1>4. ASSUME NEW t \in Tx, UpdateRow(t) PROVE TypeOK'
  <2>1. held' \in [Tx -> SUBSET Sku] /\ draft' \in [Tx -> [Sku -> Row]]
    <3>1. CASE UNCHANGED <<held, draft>>
      BY <3>1 DEF TypeOK
    <3>2. ASSUME NEW s \in Sku, NEW r \in Row,
                 held' = [held EXCEPT ![t] = @ \cup {s}],
                 draft' = [draft EXCEPT ![t][s] = r]
          PROVE  held' \in [Tx -> SUBSET Sku] /\ draft' \in [Tx -> [Sku -> Row]]
      <4>1. [draft[t] EXCEPT ![s] = r] \in [Sku -> Row]
        BY DEF TypeOK
      <4> QED BY <3>2, <4>1 DEF TypeOK
    <3> QED BY <1>4, <3>1, <3>2, UpdateRowEffect
  <2>2. pos' \in [Tx -> Nat \ {0}]
    BY <1>4, UpdateRowEffect DEF TypeOK
  <2>3. skipped' \in [Tx -> SUBSET Nat] /\ UNCHANGED <<call, for, tables>>
    BY <1>4, UpdateRowEffect
  <2> QED BY <2>1, <2>2, <2>3 DEF TypeOK
<1>5. ASSUME NEW t \in Tx, EndTx(t) PROVE
        /\ call' \in [Tx -> Calls \cup {"idle"}] /\ for' \in [Tx -> Order]
        /\ pos' \in [Tx -> Nat \ {0}] /\ held' \in [Tx -> SUBSET Sku]
        /\ draft' \in [Tx -> [Sku -> Row]] /\ skipped' \in [Tx -> SUBSET Nat]
  BY <1>5, EmptyType DEF EndTx, TypeOK
<1>6. ASSUME NEW t \in Tx, Commit(t) PROVE TypeOK'
  <2>1. for[t] \in Order /\ call[t] \in Calls
    BY <1>6 DEF Commit, TypeOK
  <2>2. FinalStatus(call[t]) \in LockStatus
    BY <2>1 DEF FinalStatus, Calls, LockStatus
  <2>3. lock' \in [Order -> LockStatus \cup {"none"}]
    BY <1>6, <2>1, <2>2 DEF Commit, TypeOK
  <2>4. inv' \in [Sku -> Row]
    BY <1>6, ViewType DEF Commit
  <2>5. missed' \in SUBSET (Order \X Nat)
    BY <1>6, <2>1 DEF Commit, TypeOK
  <2>6. EndTx(t) /\ listed' = listed
    BY <1>6 DEF Commit
  <2> QED BY <1>5, <2>3, <2>4, <2>5, <2>6 DEF TypeOK
<1>7. ASSUME NEW t \in Tx, Abort(t) PROVE TypeOK'
  <2>1. EndTx(t) /\ UNCHANGED tables
    BY <1>7 DEF Abort
  <2> QED BY <1>5, <2>1 DEF TypeOK
<1>8. CASE UNCHANGED vars
  BY <1>8 DEF vars, TypeOK
<1> QED BY <1>1, <1>2, <1>3, <1>4, <1>6, <1>7, <1>8 DEF Next

\* The tables and the transactions always have the types of the schema.
THEOREM InventoryTypeCorrect == Spec => []TypeOK
BY TypeOKInit, TypeOKStep, PTL DEF Spec
-----------------------------------------------------------------------------
\* No two transactions have uncommitted content of the same row, and none of
\* a row that does not exist: the row locks, which the proofs below rest on.
RowsHaveOneWriter ==
  \A t, u \in Tx :
    held[t] \subseteq listed /\ (t # u => held[t] \cap held[u] = {})

LEMMA OneWriterStep ==
  ASSUME TypeOK, RowsHaveOneWriter, [Next]_vars
  PROVE  RowsHaveOneWriter'
<1> USE DEF tables, txs, RowsHaveOneWriter
<1>1. ASSUME UNCHANGED held, listed \subseteq listed' PROVE RowsHaveOneWriter'
  BY <1>1
<1>2. ASSUME NEW S \in SUBSET Sku, BatchCreateInventoris(S) PROVE RowsHaveOneWriter'
  BY <1>1, <1>2 DEF BatchCreateInventoris
<1>3. ASSUME NEW s \in Sku, NEW q \in StockValues, AdjustStock(s, q) PROVE RowsHaveOneWriter'
  BY <1>1, <1>3 DEF AdjustStock
<1>4. ASSUME NEW t \in Tx, NEW c \in Calls, NEW o \in Order, Begin(t, c, o)
      PROVE  RowsHaveOneWriter'
  BY <1>1, <1>4 DEF Begin
<1>5. ASSUME NEW t \in Tx, UpdateRow(t) PROVE RowsHaveOneWriter'
  <2>1. CASE UNCHANGED held
    BY <1>1, <1>5, <2>1, UpdateRowEffect
  <2>2. ASSUME NEW s \in listed, s \notin LockedRows \ held[t],
               held' = [held EXCEPT ![t] = @ \cup {s}]
        PROVE  RowsHaveOneWriter'
    <3>1. \A u \in Tx : u # t => s \notin held[u]
      BY <2>2 DEF LockedRows
    <3>2. held'[t] = held[t] \cup {s} /\ \A u \in Tx \ {t} : held'[u] = held[u]
      BY <2>2 DEF TypeOK
    <3>3. listed' = listed
      BY <1>5 DEF UpdateRow
    <3> QED BY <2>2, <3>1, <3>2, <3>3
  <2> QED BY <1>5, <2>1, <2>2, UpdateRowEffect
<1>6. ASSUME NEW t \in Tx, EndTx(t), listed' = listed PROVE RowsHaveOneWriter'
  <2>1. held'[t] = {} /\ \A u \in Tx \ {t} : held'[u] = held[u]
    BY <1>6 DEF EndTx, TypeOK
  <2> QED BY <1>6, <2>1
<1>7. ASSUME NEW t \in Tx, Commit(t) \/ Abort(t) PROVE RowsHaveOneWriter'
  BY <1>6, <1>7 DEF Commit, Abort
<1>8. CASE UNCHANGED vars
  BY <1>1, <1>8 DEF vars
<1> QED BY <1>2, <1>3, <1>4, <1>5, <1>7, <1>8 DEF Next

-----------------------------------------------------------------------------
\* What is drafted would keep the stock at zero, and no reserved quantity, drafted
\* or committed, is negative: the CHECK of the table.
DraftsKeepStock ==
  /\ \A t \in Tx : \A s \in Sku : draft[t][s].stock = 0 /\ draft[t][s].reserved >= 0
  /\ \A s \in Sku : inv[s].reserved >= 0

\* No stock is set, no lock settled, and nothing reserved of a SKU without a row.
NothingSettled ==
  /\ \A s \in Sku : inv[s].stock = 0
  /\ \A s \in Sku \ listed : inv[s].reserved = 0
  /\ \A o \in Order : lock[o] \in {"none", "locked"}

LEMMA ReservationsStep ==
  ASSUME ~ModelIsKeyed, TypeOK, RowsHaveOneWriter, DraftsKeepStock, NothingSettled, [Next]_vars
  PROVE  (DraftsKeepStock /\ NothingSettled)'
<1> USE DEF tables, txs, DraftsKeepStock, NothingSettled
<1>1. ASSUME NEW S \in SUBSET Sku, BatchCreateInventoris(S)
      PROVE  (DraftsKeepStock /\ NothingSettled)'
  BY <1>1, EmptyType DEF BatchCreateInventoris
<1>2. ASSUME NEW s \in Sku, NEW q \in StockValues, AdjustStock(s, q) PROVE FALSE
  BY <1>2 DEF AdjustStock
<1>3. ASSUME NEW t \in Tx, NEW c \in Calls, NEW o \in Order, Begin(t, c, o)
      PROVE  (DraftsKeepStock /\ NothingSettled)'
  BY <1>3 DEF Begin
<1>4. ASSUME NEW t \in Tx, UpdateRow(t)
      PROVE  (DraftsKeepStock /\ NothingSettled)'
  <2>1. UNCHANGED tables /\ call[t] = "reserve"
    BY <1>4, UpdateRowEffect
  <2>2. CASE UNCHANGED draft
    BY <2>1, <2>2
  <2>3. ASSUME NEW s \in Sku, NEW r \in Row, r.stock = View(t, s).stock, r.reserved >= 0,
               draft' = [draft EXCEPT ![t][s] = r]
        PROVE  (DraftsKeepStock /\ NothingSettled)'
    <3>1. r.stock = 0
      BY <2>3 DEF View
    <3> QED BY <2>1, <2>3, <3>1 DEF TypeOK
  <2> QED BY <1>4, <2>1, <2>2, <2>3, UpdateRowEffect
<1>5. ASSUME NEW t \in Tx, EndTx(t), \A s \in Sku : inv'[s].reserved >= 0 PROVE DraftsKeepStock'
  BY <1>5, EmptyType DEF EndTx, TypeOK
<1>6. ASSUME NEW t \in Tx, Commit(t) PROVE (DraftsKeepStock /\ NothingSettled)'
  <2>1. call[t] = "reserve"
    BY <1>6 DEF Commit, MayFinish
  <2>2. lock' = [lock EXCEPT ![for[t]] = "locked"]
    BY <1>6, <2>1 DEF Commit, FinalStatus
  <2>3. \A s \in Sku : inv'[s].stock = 0 /\ inv'[s].reserved >= 0
    BY <1>6 DEF Commit, View
  <2>4. EndTx(t) /\ listed' = listed
    BY <1>6 DEF Commit
  <2>5. \A s \in Sku \ listed : inv'[s].reserved = 0
    BY <1>6 DEF Commit, View, RowsHaveOneWriter
  <2> QED BY <1>5, <2>2, <2>3, <2>4, <2>5 DEF TypeOK
<1>7. ASSUME NEW t \in Tx, Abort(t) PROVE (DraftsKeepStock /\ NothingSettled)'
  BY <1>5, <1>7 DEF Abort
<1>8. CASE UNCHANGED vars
  BY <1>8 DEF vars
<1> QED BY <1>1, <1>2, <1>3, <1>4, <1>6, <1>7, <1>8 DEF Next
-----------------------------------------------------------------------------
(* The reserved quantity is what the locked orders hold.  The inductive     *)
(* invariant says what a draft adds to it, which items an order misses, and *)
(* why no deduction or release gets past an item that is not missed: with   *)
(* the pinned gorm it never updates, and a keyed one would set a negative   *)
(* quantity, which the CHECK of the table refuses.                          *)

\* The quantity of an item, given as its order and its place there.
Qty == [p \in Order \X Nat |-> Items[p[1]][p[2]].qty]

\* The items of s that t has updated so far, the skipped ones excepted.
PassedItems(t, s) ==
  {<<for[t], i>> : i \in {j \in 1..(pos[t] - 1) :
                            Items[for[t]][j].sku = s /\ j \notin skipped[t]}}

\* A transaction is at an item of its order or behind the last, and has skipped
\* only items before it; one that has not begun has done nothing.
InOrder ==
  \A t \in Tx :
    /\ pos[t] <= Len(Items[for[t]]) + 1 /\ skipped[t] \subseteq 1..(pos[t] - 1)
    /\ call[t] = "idle" => pos[t] = 1 /\ held[t] = {}

\* The reserved quantity is the sum of what the locked orders hold.
SumsHold ==
  /\ \A s \in Sku : IsFiniteSet(LockedItems(s))
  /\ \A s \in listed : inv[s].reserved = SumOf(Qty, LockedItems(s))

\* What an order with a lock misses had no row when it was reserved, and only
\* such orders miss anything.
MissedItems ==
  /\ \A o \in Order : lock[o] # "none" =>
       \A i \in DOMAIN Items[o] : <<o, i>> \in missed \/ Items[o][i].sku \in listed
  /\ \A p \in missed : lock[p[1]] # "none"

\* A draft adds what the transaction has updated, and there is one for each item
\* that was not skipped.
DraftsAdd ==
  \A t \in Tx :
    /\ \A s \in held[t] : draft[t][s].reserved = inv[s].reserved + SumOf(Qty, PassedItems(t, s))
    /\ \A i \in 1..(pos[t] - 1) : i \in skipped[t] \/ Items[for[t]][i].sku \in held[t]

\* A deduction or a release has come past missed items only.
SettlesNothing ==
  \A t \in Tx : call[t] \in {"deduct", "release"} =>
    /\ held[t] = {} /\ lock[for[t]] # "none"
    /\ \A i \in skipped[t] : <<for[t], i>> \in missed

LocksAddUp == InOrder /\ SumsHold /\ MissedItems /\ DraftsAdd /\ SettlesNothing

\* The calls fail on every item that has a row.
NoneSettles == ~ModelIsKeyed \/ \A o \in Order : \A i \in DOMAIN Items[o] : Items[o][i].qty > 0

LEMMA ItemPairs ==
  ASSUME NEW s, NEW T, T = LockedItems(s)
  PROVE  \A p \in T : /\ p \in Order \X Nat /\ p[1] \in Order /\ p[2] \in DOMAIN Items[p[1]]
                      /\ lock[p[1]] = "locked" /\ Items[p[1]][p[2]].sku = s /\ p \notin missed
                      /\ p = <<p[1], p[2]>>
                      /\ Qty[p] = Items[p[1]][p[2]].qty /\ Qty[p] \in Int
<1> SUFFICES ASSUME NEW p \in T
             PROVE  /\ p \in Order \X Nat /\ p[1] \in Order /\ p[2] \in DOMAIN Items[p[1]]
                    /\ lock[p[1]] = "locked" /\ Items[p[1]][p[2]].sku = s /\ p \notin missed
                    /\ p = <<p[1], p[2]>>
                    /\ Qty[p] = Items[p[1]][p[2]].qty /\ Qty[p] \in Int
  OBVIOUS
<1>1. p \notin missed /\ \E o \in Order : /\ lock[o] = "locked"
        /\ \E i \in DOMAIN Items[o] : Items[o][i].sku = s /\ p = <<o, i>>
  <2>1. p \notin missed /\ \E A : /\ p \in A
          /\ A \in {{<<o, i>> : i \in {j \in DOMAIN Items[o] : Items[o][j].sku = s}} :
                    o \in {o \in Order : lock[o] = "locked"}}
    BY DEF LockedItems
  <2> QED BY <2>1
<1>2. PICK o \in Order : /\ lock[o] = "locked"
                         /\ \E i \in DOMAIN Items[o] : Items[o][i].sku = s /\ p = <<o, i>>
  BY <1>1
<1>7. PICK i \in DOMAIN Items[o] : Items[o][i].sku = s /\ p = <<o, i>>
  BY <1>2
<1>3. Items[o] \in Seq(ItemType)
  BY InventoryAssumption
<1>4. i \in 1..Len(Items[o]) /\ i \in Nat
  BY <1>3
<1>5. Items[o][i].qty \in Int
  BY <1>4, ItemsOf
<1>6. p \in Order \X Nat /\ Qty[p] = Items[o][i].qty
  BY <1>7, <1>4 DEF Qty
<1> QED BY <1>1, <1>2, <1>7, <1>5, <1>6

LEMMA SumOfItems ==
  ASSUME NEW S, IsFiniteSet(S),
         \A p \in S : Qty[p] = Items[p[1]][p[2]].qty /\ Qty[p] \in Int
  PROVE  MapThenSumSet(LAMBDA p : Items[p[1]][p[2]].qty, S) = SumOf(Qty, S)
<1> PICK q : q = [p \in S |-> Items[p[1]][p[2]].qty]
  OBVIOUS
<1> DEFINE Fits(f) == f = [s \in SUBSET S |->
                        IF s = {} THEN 0
                        ELSE Items[(CHOOSE y \in s : TRUE)[1]][(CHOOSE y \in s : TRUE)[2]].qty
                             + f[s \ {CHOOSE y \in s : TRUE}]]
<1>1. MapThenSumSet(LAMBDA p : Items[p[1]][p[2]].qty, S) = (CHOOSE f : Fits(f))[S]
  BY Zenon DEF MapThenSumSet, MapThenFoldSet
<1>2. Sums(Summing(q, S), q, S)
  BY SummingSums
<1>4. \A s \in SUBSET S : s # {} => Chosen(s) \in S /\ q[Chosen(s)] = Items[Chosen(s)[1]][Chosen(s)[2]].qty
  BY ChosenIn
<1>5. Fits(Summing(q, S))
  <2> PICK g : g = Summing(q, S)
    OBVIOUS
  <2>1. g = [s \in SUBSET S |->
              IF s = {} THEN 0
              ELSE Items[Chosen(s)[1]][Chosen(s)[2]].qty + g[s \ {Chosen(s)}]]
    BY <1>2, <1>4 DEF Sums
  <2> QED BY <2>1 DEF Chosen
<1>6. PICK h : h = CHOOSE f : Fits(f)
  OBVIOUS
<1> HIDE DEF Fits
<1>7. Fits(h)
  BY <1>5, <1>6
<1>8. h = [s \in SUBSET S |-> IF s = {} THEN 0 ELSE q[Chosen(s)] + h[s \ {Chosen(s)}]]
  <2>1. h = [s \in SUBSET S |->
              IF s = {} THEN 0
              ELSE Items[Chosen(s)[1]][Chosen(s)[2]].qty + h[s \ {Chosen(s)}]]
    BY <1>7 DEF Fits, Chosen
  <2> QED BY <1>4, <2>1
<1>9. Sums(h, q, S)
  BY <1>8, SumsByEquation
<1>10. h[S] = Summing(q, S)[S]
  BY <1>2, <1>9, SumsUnique
<1>11. SumOf(q, S) = Summing(q, S)[S]
  BY SumIs DEF SumOf
<1>3. SumOf(q, S) = SumOf(Qty, S)
  <2>1. \A p \in S : q[p] = Qty[p]
    OBVIOUS
  <2> QED BY <2>1, SumSame
<1> QED BY <1>1, <1>3, <1>6, <1>10, <1>11

LEMMA PassedPairs ==
  ASSUME TypeOK, InOrder, NEW t \in Tx, NEW s
  PROVE  /\ IsFiniteSet(PassedItems(t, s))
         /\ \A p \in PassedItems(t, s) :
              /\ p[1] = for[t] /\ p[2] \in 1..(pos[t] - 1) /\ p[2] \notin skipped[t]
              /\ p[2] \in DOMAIN Items[for[t]] /\ Items[for[t]][p[2]].sku = s
              /\ p = <<for[t], p[2]>> /\ p \in Order \X Nat
              /\ Qty[p] = Items[p[1]][p[2]].qty /\ Qty[p] \in Int
<1>1. /\ for[t] \in Order /\ pos[t] \in Nat \ {0} /\ Items[for[t]] \in Seq(ItemType)
      /\ pos[t] <= Len(Items[for[t]]) + 1
  BY InventoryAssumption DEF TypeOK, InOrder
<1>2. DOMAIN Items[for[t]] = 1..Len(Items[for[t]]) /\ Len(Items[for[t]]) \in Nat
  BY <1>1
<1>3. IsFiniteSet(PassedItems(t, s))
  <2>1. PICK P : P = {j \in 1..(pos[t] - 1) : Items[for[t]][j].sku = s /\ j \notin skipped[t]}
    OBVIOUS
  <2>2. IsFiniteSet(1..(pos[t] - 1))
    BY <1>1, FS_Interval
  <2>3. IsFiniteSet(P)
    BY <2>1, <2>2, FS_Subset
  <2>4. IsFiniteSet({for[t]} \X P)
    BY <2>3, FS_Singleton, FS_Product
  <2>5. PassedItems(t, s) \subseteq {for[t]} \X P
    BY <2>1 DEF PassedItems
  <2> QED BY <2>4, <2>5, FS_Subset
<1>4. ASSUME NEW p \in PassedItems(t, s)
      PROVE  /\ p[1] = for[t] /\ p[2] \in 1..(pos[t] - 1) /\ p[2] \notin skipped[t]
             /\ p[2] \in DOMAIN Items[for[t]] /\ Items[for[t]][p[2]].sku = s
             /\ p = <<for[t], p[2]>> /\ p \in Order \X Nat
             /\ Qty[p] = Items[p[1]][p[2]].qty /\ Qty[p] \in Int
  <2>1. PICK i \in 1..(pos[t] - 1) : /\ Items[for[t]][i].sku = s /\ i \notin skipped[t]
                                     /\ p = <<for[t], i>>
    BY DEF PassedItems
  <2>2. i \in 1..Len(Items[for[t]]) /\ i \in Nat
    BY <1>1, <1>2
  <2>3. Items[for[t]][i].qty \in Int
    BY <1>1, <2>2, ItemsOf
  <2>4. p \in Order \X Nat /\ Qty[p] = Items[p[1]][p[2]].qty
    BY <1>1, <2>1, <2>2 DEF Qty
  <2> QED BY <1>2, <2>1, <2>2, <2>3, <2>4
<1> QED BY <1>3, <1>4

\* A row a transaction has not updated is the committed one to it.
LEMMA ViewAdds ==
  ASSUME TypeOK, InOrder, DraftsAdd, NEW t \in Tx, NEW s \in Sku
  PROVE  /\ View(t, s).reserved = inv[s].reserved + SumOf(Qty, PassedItems(t, s))
         /\ s \notin held[t] => PassedItems(t, s) = {}
<1>1. CASE s \in held[t]
  BY <1>1 DEF View, DraftsAdd
<1>2. CASE s \notin held[t]
  <2>1. PassedItems(t, s) = {}
    BY <1>2, PassedPairs DEF DraftsAdd
  <2>2. inv[s].reserved \in Int /\ View(t, s) = inv[s]
    BY <1>2 DEF View, TypeOK, Row
  <2> QED BY <2>1, <2>2, SumEmpty
<1> QED BY <1>1, <1>2

LEMMA AddUpInit == Init => LocksAddUp
<1> SUFFICES ASSUME Init PROVE LocksAddUp
  OBVIOUS
<1>1. \A s : LockedItems(s) = {}
  BY DEF Init, LockedItems
<1>2. \A t \in Tx : Len(Items[for[t]]) \in Nat /\ pos[t] = 1
  <2>1. \A o \in Order : Len(Items[o]) \in Nat
    BY InventoryAssumption
  <2> QED BY <2>1 DEF Init
<1>3. InOrder
  BY <1>2 DEF InOrder, Init
<1>4. SumsHold
  BY <1>1, FS_EmptySet DEF SumsHold, Init
<1>5. DraftsAdd
  BY <1>2 DEF DraftsAdd, Init
<1>6. MissedItems /\ SettlesNothing
  BY DEF MissedItems, SettlesNothing, Init
<1> QED BY <1>3, <1>4, <1>5, <1>6 DEF LocksAddUp

\* The transaction has ended: what holds of the others holds of it.
LEMMA AddUpEnd ==
  ASSUME TypeOK, LocksAddUp, NEW t \in Tx, EndTx(t),
         \A u \in Tx \ {t} : \A s \in held[u] : inv'[s].reserved = inv[s].reserved,
         \A o \in Order : lock[o] # "none" => lock'[o] # "none",
         missed \subseteq missed'
  PROVE  InOrder' /\ DraftsAdd' /\ SettlesNothing'
<1>1. /\ pos'[t] = 1 /\ held'[t] = {} /\ skipped'[t] = {} /\ call'[t] = "idle" /\ for' = for
      /\ \A u \in Tx \ {t} : /\ pos'[u] = pos[u] /\ held'[u] = held[u] /\ skipped'[u] = skipped[u]
                             /\ call'[u] = call[u] /\ draft'[u] = draft[u]
  BY DEF EndTx, TypeOK
<1>2. Len(Items[for[t]]) \in Nat
  BY InventoryAssumption DEF TypeOK
<1>3. InOrder'
  BY <1>1, <1>2 DEF LocksAddUp, InOrder
<1>4. ASSUME NEW u \in Tx
      PROVE  /\ \A s \in held'[u] : draft'[u][s].reserved = inv'[s].reserved + SumOf(Qty, PassedItems(u, s)')
             /\ \A i \in 1..(pos'[u] - 1) : i \in skipped'[u] \/ Items[for'[u]][i].sku \in held'[u]
  <2>1. CASE u = t
    BY <1>1, <2>1
  <2>2. CASE u # t
    <3>1. \A s : PassedItems(u, s)' = PassedItems(u, s)
      BY <1>1, <2>2 DEF PassedItems
    <3>2. \A s \in held[u] : draft[u][s].reserved = inv[s].reserved + SumOf(Qty, PassedItems(u, s))
      BY DEF LocksAddUp, DraftsAdd
    <3>3. \A i \in 1..(pos[u] - 1) : i \in skipped[u] \/ Items[for[u]][i].sku \in held[u]
      BY DEF LocksAddUp, DraftsAdd
    <3> QED BY <1>1, <2>2, <3>1, <3>2, <3>3
  <2> QED BY <2>1, <2>2
<1>5. DraftsAdd'
  BY <1>4 DEF DraftsAdd, SumOf
<1>6. SettlesNothing'
  <2>1. \A u \in Tx : for[u] \in Order
    BY DEF TypeOK
  <2> QED BY <1>1, <2>1 DEF LocksAddUp, SettlesNothing
<1> QED BY <1>3, <1>5, <1>6

\* An order is locked: it holds what its transaction has updated.
LEMMA LockedBy ==
  ASSUME TypeOK, LocksAddUp, NEW t \in Tx, call[t] = "reserve", Commit(t), NEW s
  PROVE  /\ LockedItems(s)' = LockedItems(s) \cup PassedItems(t, s)
         /\ LockedItems(s) \cap PassedItems(t, s) = {}
<1>1. /\ lock[for[t]] = "none" /\ lock' = [lock EXCEPT ![for[t]] = "locked"]
      /\ missed' = missed \cup ({for[t]} \X skipped[t]) /\ ~MoreItems(t)
      /\ for[t] \in Order /\ DOMAIN lock = Order
  BY DEF Commit, MayFinish, FinalStatus, TypeOK
<1>2. DOMAIN Items[for[t]] = 1..(pos[t] - 1)
  <2>1. Items[for[t]] \in Seq(ItemType) /\ pos[t] \in Nat \ {0} /\ pos[t] <= Len(Items[for[t]]) + 1
    BY <1>1, InventoryAssumption DEF LocksAddUp, InOrder, TypeOK
  <2>2. ~ (pos[t] <= Len(Items[for[t]]))
    BY <1>1 DEF MoreItems
  <2>3. pos[t] - 1 = Len(Items[for[t]])
    BY <2>1, <2>2
  <2> QED BY <2>1, <2>3
<1>3. \A i : <<for[t], i>> \notin missed
  BY <1>1 DEF LocksAddUp, MissedItems
<1>4. \A p : p \in LockedItems(s) <=>
        /\ p \notin missed
        /\ \E o \in Order : lock[o] = "locked" /\ \E i \in DOMAIN Items[o] : Items[o][i].sku = s /\ p = <<o, i>>
  BY DEF LockedItems
<1>5. \A p : p \in LockedItems(s)' <=>
        /\ p \notin missed'
        /\ \E o \in Order : lock'[o] = "locked" /\ \E i \in DOMAIN Items[o] : Items[o][i].sku = s /\ p = <<o, i>>
  BY DEF LockedItems
<1>6. \A p : p \in PassedItems(t, s) <=>
        \E i \in DOMAIN Items[for[t]] : Items[for[t]][i].sku = s /\ i \notin skipped[t] /\ p = <<for[t], i>>
  BY <1>2 DEF PassedItems
<1>7. \A o \in Order : \A i : <<o, i>> \in missed' <=> (<<o, i>> \in missed \/ (o = for[t] /\ i \in skipped[t]))
  BY <1>1
<1>8. \A o \in Order : lock'[o] = "locked" <=> (o = for[t] \/ lock[o] = "locked")
  BY <1>1
<1>9. ASSUME NEW p PROVE p \in LockedItems(s)' <=> p \in LockedItems(s) \cup PassedItems(t, s)
  <2>1. ASSUME p \in LockedItems(s)' PROVE p \in LockedItems(s) \cup PassedItems(t, s)
    <3>1. PICK o \in Order : lock'[o] = "locked" /\ \E i \in DOMAIN Items[o] : Items[o][i].sku = s /\ p = <<o, i>>
      BY <1>5, <2>1
    <3>2. PICK i \in DOMAIN Items[o] : Items[o][i].sku = s /\ p = <<o, i>>
      BY <3>1
    <3>3. <<o, i>> \notin missed'
      BY <1>5, <2>1, <3>2
    <3>4. CASE o = for[t]
      BY <1>6, <1>7, <3>2, <3>3, <3>4
    <3>5. CASE o # for[t]
      <4>1. lock[o] = "locked" /\ <<o, i>> \notin missed
        BY <1>7, <1>8, <3>1, <3>3, <3>5
      <4> QED BY <1>4, <3>2, <4>1
    <3> QED BY <3>4, <3>5
  <2>2. ASSUME p \in LockedItems(s) PROVE p \in LockedItems(s)'
    <3>1. PICK o \in Order : lock[o] = "locked" /\ \E i \in DOMAIN Items[o] : Items[o][i].sku = s /\ p = <<o, i>>
      BY <1>4, <2>2
    <3>2. PICK i \in DOMAIN Items[o] : Items[o][i].sku = s /\ p = <<o, i>>
      BY <3>1
    <3>3. o # for[t] /\ <<o, i>> \notin missed
      BY <1>1, <1>4, <2>2, <3>1, <3>2
    <3> QED BY <1>5, <1>7, <1>8, <3>1, <3>2, <3>3
  <2>3. ASSUME p \in PassedItems(t, s) PROVE p \in LockedItems(s)'
    <3>1. PICK i \in DOMAIN Items[for[t]] : Items[for[t]][i].sku = s /\ i \notin skipped[t] /\ p = <<for[t], i>>
      BY <1>6, <2>3
    <3>2. p \notin missed'
      BY <1>1, <1>3, <1>7, <3>1
    <3> QED BY <1>1, <1>5, <1>8, <3>1, <3>2
  <2> QED BY <2>1, <2>2, <2>3
<1>10. ASSUME NEW p \in LockedItems(s), p \in PassedItems(t, s) PROVE FALSE
  <2>1. p[1] = for[t]
    BY <1>6, <1>10
  <2>2. lock[p[1]] = "locked"
    BY ItemPairs
  <2> QED BY <1>1, <2>1, <2>2
<1> QED BY <1>9, <1>10

\* A deduction or a release that gets to its end has missed everything: the lock
\* it settles holds nothing.
LEMMA SettledHeldNothing ==
  ASSUME TypeOK, LocksAddUp, NEW t \in Tx, call[t] # "reserve", Commit(t), NEW s
  PROVE  /\ LockedItems(s)' = LockedItems(s) /\ missed' = missed
         /\ held[t] = {} /\ lock[for[t]] # "none" /\ \A o \in Order : lock'[o] = lock[o] \/ o = for[t]
         /\ lock'[for[t]] # "none"
<1>1. /\ call[t] \in {"deduct", "release"} /\ missed' = missed /\ ~MoreItems(t)
      /\ lock' = [lock EXCEPT ![for[t]] = FinalStatus(call[t])]
      /\ FinalStatus(call[t]) \in {"confirmed", "released"}
      /\ for[t] \in Order /\ DOMAIN lock = Order
  BY DEF Commit, TypeOK, Calls, FinalStatus
<1>2. /\ held[t] = {} /\ lock[for[t]] # "none"
      /\ \A i \in skipped[t] : <<for[t], i>> \in missed
  BY <1>1 DEF LocksAddUp, SettlesNothing
<1>3. DOMAIN Items[for[t]] = 1..(pos[t] - 1)
  <2>1. Items[for[t]] \in Seq(ItemType) /\ pos[t] \in Nat \ {0} /\ pos[t] <= Len(Items[for[t]]) + 1
    BY <1>1, InventoryAssumption DEF LocksAddUp, InOrder, TypeOK
  <2>2. ~ (pos[t] <= Len(Items[for[t]]))
    BY <1>1 DEF MoreItems
  <2>3. pos[t] - 1 = Len(Items[for[t]])
    BY <2>1, <2>2
  <2> QED BY <2>1, <2>3
<1>4. \A i \in DOMAIN Items[for[t]] : <<for[t], i>> \in missed
  BY <1>2, <1>3 DEF LocksAddUp, DraftsAdd
<1>5. \A p : p \in LockedItems(s) <=>
        /\ p \notin missed
        /\ \E o \in Order : lock[o] = "locked" /\ \E i \in DOMAIN Items[o] : Items[o][i].sku = s /\ p = <<o, i>>
  BY DEF LockedItems
<1>6. \A p : p \in LockedItems(s)' <=>
        /\ p \notin missed
        /\ \E o \in Order : lock'[o] = "locked" /\ \E i \in DOMAIN Items[o] : Items[o][i].sku = s /\ p = <<o, i>>
  BY <1>1 DEF LockedItems
<1>7. \A o \in Order : o # for[t] => lock'[o] = lock[o]
  BY <1>1
<1>8. lock'[for[t]] # "locked" /\ lock'[for[t]] # "none"
  BY <1>1
<1>9. ASSUME NEW p PROVE p \in LockedItems(s)' <=> p \in LockedItems(s)
  BY <1>4, <1>5, <1>6, <1>7, <1>8
<1>10. LockedItems(s)' = LockedItems(s)
  BY <1>9
<1> QED BY <1>1, <1>2, <1>7, <1>8, <1>10

\* One UPDATE: a reservation drafts one item more, and the other calls find no row.
LEMMA AddUpUpdate ==
  ASSUME NoneSettles, TypeOK, LocksAddUp, NEW t \in Tx, UpdateRow(t)
  PROVE  InOrder' /\ DraftsAdd' /\ SettlesNothing'
<1> PICK i : i = pos[t]
  OBVIOUS
<1> PICK o : o = for[t]
  OBVIOUS
<1> PICK s : s = Item(t).sku
  OBVIOUS
<1> PICK qty : qty = Item(t).qty
  OBVIOUS
<1> PICK r : r = Updated(call[t], View(t, s), qty)
  OBVIOUS
<1>1. /\ o \in Order /\ i \in Nat \ {0} /\ i \in DOMAIN Items[o] /\ i <= Len(Items[o])
      /\ Len(Items[o]) \in Nat /\ call[t] \in Calls
      /\ Items[o][i].sku = s /\ Items[o][i].qty = qty /\ s \in Sku /\ qty \in Int
  <2>1. MoreItems(t)
    BY DEF UpdateRow
  <2>2. /\ o \in Order /\ i \in Nat \ {0} /\ i <= Len(Items[o]) /\ call[t] \in Calls
        /\ Items[o] \in Seq(ItemType)
    BY <2>1, InventoryAssumption DEF MoreItems, TypeOK
  <2>3. i \in DOMAIN Items[o] /\ Len(Items[o]) \in Nat
    BY <2>2
  <2> QED BY <2>1, <2>2, <2>3, CurrentItem DEF Item
<1>2. /\ \/ /\ s \in listed /\ CheckHolds(r)
            /\ held' = [held EXCEPT ![t] = held[t] \cup {s}]
            /\ draft' = [draft EXCEPT ![t][s] = r]
            /\ UNCHANGED skipped
         \/ /\ s \notin listed
            /\ skipped' = [skipped EXCEPT ![t] = skipped[t] \cup {i}]
            /\ UNCHANGED <<held, draft>>
      /\ pos' = [pos EXCEPT ![t] = i + 1]
      /\ call' = call /\ for' = for /\ listed' = listed /\ inv' = inv /\ lock' = lock /\ missed' = missed
      /\ call[t] = "reserve" \/ ModelIsKeyed
  BY DEF UpdateRow, tables
<1>3. /\ pos'[t] = i + 1 /\ i + 1 - 1 = i /\ skipped[t] \subseteq 1..(i - 1) /\ call[t] # "idle"
      /\ \A u \in Tx \ {t} : /\ pos'[u] = pos[u] /\ held'[u] = held[u] /\ skipped'[u] = skipped[u]
                             /\ draft'[u] = draft[u]
  <2>1. call[t] # "idle" /\ i + 1 - 1 = i
    BY <1>1 DEF Calls
  <2>2. skipped[t] \subseteq 1..(i - 1)
    BY DEF LocksAddUp, InOrder
  <2>3. DOMAIN pos = Tx /\ DOMAIN held = Tx /\ DOMAIN skipped = Tx /\ DOMAIN draft = Tx
    BY DEF TypeOK
  <2> QED BY <1>2, <2>1, <2>2, <2>3
<1>14. for'[t] = o /\ pos'[t] - 1 = i /\ pos'[t] = i + 1
  <2>1. for' = for /\ pos'[t] = i + 1
    BY <1>2, <1>3
  <2> QED BY <1>1, <2>1
<1>4. skipped'[t] \in {skipped[t], skipped[t] \cup {i}}
  BY <1>2 DEF TypeOK
<1>5. InOrder'
  <2>1. skipped'[t] \subseteq 1..i
    BY <1>1, <1>3, <1>4
  <2>2. pos'[t] <= Len(Items[o]) + 1
    BY <1>1, <1>3
  <2>3. ASSUME NEW u \in Tx
        PROVE  /\ pos'[u] <= Len(Items[for'[u]]) + 1 /\ skipped'[u] \subseteq 1..(pos'[u] - 1)
               /\ call'[u] = "idle" => pos'[u] = 1 /\ held'[u] = {}
    <3>1. CASE u = t
      <4>1. call'[t] = call[t] /\ call[t] # "idle"
        BY <1>2, <1>3
      <4> QED BY <1>14, <2>1, <2>2, <3>1, <4>1
    <3>2. CASE u # t
      <4>1. /\ pos[u] <= Len(Items[for[u]]) + 1 /\ skipped[u] \subseteq 1..(pos[u] - 1)
            /\ call[u] = "idle" => pos[u] = 1 /\ held[u] = {}
        BY DEF LocksAddUp, InOrder
      <4> QED BY <1>2, <1>3, <3>2, <4>1
    <3> QED BY <3>1, <3>2
  <2> QED BY <2>3 DEF InOrder
<1>6. \A u \in Tx \ {t} : \A x : PassedItems(u, x)' = PassedItems(u, x)
  BY <1>2, <1>3 DEF PassedItems
<1>7. \A x, j : <<o, j>> \in PassedItems(t, x)' <=>
         j \in 1..i /\ Items[o][j].sku = x /\ j \notin skipped'[t]
  <2>1. \A x : PassedItems(t, x)' =
                {<<o, k>> : k \in {j \in 1..i : Items[o][j].sku = x /\ j \notin skipped'[t]}}
    BY <1>14 DEF PassedItems
  <2> QED BY <2>1
<1>8. \A x, j : <<o, j>> \in PassedItems(t, x) <=>
         j \in 1..(i - 1) /\ Items[o][j].sku = x /\ j \notin skipped[t]
  BY DEF PassedItems
<1>9. \A x : /\ \A p \in PassedItems(t, x)' : p = <<o, p[2]>>
             /\ \A p \in PassedItems(t, x) : p = <<o, p[2]>>
  BY <1>2 DEF PassedItems
<1>10. \A j : j \in 1..i <=> (j \in 1..(i - 1) \/ j = i)
  BY <1>1
<1>11. i \notin 1..(i - 1)
  BY <1>1
<1>12. CASE s \in listed /\ CheckHolds(r) /\ held' = [held EXCEPT ![t] = held[t] \cup {s}]
            /\ draft' = [draft EXCEPT ![t][s] = r] /\ UNCHANGED skipped
  <2>1. call[t] = "reserve"
    <3> SUFFICES ASSUME call[t] \in {"deduct", "release"} PROVE FALSE
      BY <1>1 DEF Calls
    <3>1. qty > 0
      BY <1>1, <1>2 DEF NoneSettles
    <3>2. r.reserved = -qty
      <4>1. View(t, s) \in Row
        BY <1>1, ViewType
      <4> QED BY <4>1 DEF Updated, Row
    <3> QED BY <1>1, <1>12, <3>1, <3>2 DEF CheckHolds
  <2>2. r.reserved = inv[s].reserved + SumOf(Qty, PassedItems(t, s)) + qty
    <3>1. View(t, s) \in Row /\ View(t, s).reserved = inv[s].reserved + SumOf(Qty, PassedItems(t, s))
      BY <1>1, ViewType, ViewAdds DEF LocksAddUp
    <3>2. r.reserved = View(t, s).reserved + qty
      BY <2>1, <3>1 DEF Updated, Row
    <3> QED BY <3>1, <3>2
  <2>3. /\ held'[t] = held[t] \cup {s} /\ draft'[t][s] = r /\ skipped'[t] = skipped[t]
        /\ \A x \in Sku : x # s => draft'[t][x] = draft[t][x]
    BY <1>1, <1>12 DEF TypeOK
  <2>4. \A x : x # s => PassedItems(t, x)' = PassedItems(t, x)
    <3>1. ASSUME NEW x, x # s, NEW j
          PROVE  <<o, j>> \in PassedItems(t, x)' <=> <<o, j>> \in PassedItems(t, x)
      BY <1>1, <1>7, <1>8, <1>10, <2>3, <3>1
    <3>2. ASSUME NEW x, x # s, NEW p
          PROVE  p \in PassedItems(t, x)' <=> p \in PassedItems(t, x)
      BY <1>9, <3>1, <3>2
    <3> QED BY <3>2
  <2>5. PassedItems(t, s)' = PassedItems(t, s) \cup {<<o, i>>} /\ <<o, i>> \notin PassedItems(t, s)
    <3>1. \A j : <<o, j>> \in PassedItems(t, s)' <=> (<<o, j>> \in PassedItems(t, s) \/ j = i)
      BY <1>1, <1>3, <1>7, <1>8, <1>10, <1>11, <2>3
    <3>2. ASSUME NEW p PROVE p \in PassedItems(t, s)' <=> (p \in PassedItems(t, s) \/ p = <<o, i>>)
      BY <1>9, <3>1
    <3>3. <<o, i>> \notin PassedItems(t, s)
      BY <1>8, <1>11
    <3> QED BY <3>2, <3>3
  <2>6. /\ Qty[<<o, i>>] = qty
        /\ SumOf(Qty, PassedItems(t, s)') = qty + SumOf(Qty, PassedItems(t, s))
        /\ SumOf(Qty, PassedItems(t, s)) \in Int
    <3>1. Qty[<<o, i>>] = qty
      BY <1>1 DEF Qty
    <3>2. IsFiniteSet(PassedItems(t, s)) /\ \A p \in PassedItems(t, s) : Qty[p] \in Int
      BY PassedPairs DEF LocksAddUp
    <3>3. PICK P : P = PassedItems(t, s)
      OBVIOUS
    <3>4. SumOf(Qty, P \cup {<<o, i>>}) = Qty[<<o, i>>] + SumOf(Qty, P)
      <4>1. \A y \in P \cup {<<o, i>>} : Qty[y] \in Int
        BY <1>1, <3>1, <3>2, <3>3
      <4> QED BY <2>5, <3>2, <3>3, <4>1, SumAdd
    <3>5. SumOf(Qty, P) \in Int
      BY <3>2, <3>3, SumType
    <3> QED BY <2>5, <3>1, <3>3, <3>4, <3>5
  <2>7. inv[s].reserved \in Int
    BY <1>1 DEF TypeOK, Row
  <2>8. draft'[t][s].reserved = inv[s].reserved + SumOf(Qty, PassedItems(t, s)')
    BY <1>1, <2>2, <2>3, <2>6, <2>7
  <2>9. ASSUME NEW x \in held'[t]
        PROVE  draft'[t][x].reserved = inv[x].reserved + SumOf(Qty, PassedItems(t, x)')
    <3>1. CASE x = s
      BY <2>8, <3>1
    <3>2. CASE x # s
      <4>1. x \in held[t] /\ x \in Sku
        BY <2>3, <2>9, <3>2 DEF TypeOK
      <4>2. draft[t][x].reserved = inv[x].reserved + SumOf(Qty, PassedItems(t, x))
        BY <4>1 DEF LocksAddUp, DraftsAdd
      <4> QED BY <2>3, <2>4, <3>2, <4>1, <4>2
    <3> QED BY <3>1, <3>2
  <2>10. \A j \in 1..(pos'[t] - 1) : j \in skipped'[t] \/ Items[for'[t]][j].sku \in held'[t]
    <3>1. \A j \in 1..(i - 1) : j \in skipped[t] \/ Items[o][j].sku \in held[t]
      BY DEF LocksAddUp, DraftsAdd
    <3> QED BY <1>1, <1>2, <1>3, <1>10, <2>3, <3>1
  <2>11. DraftsAdd'
    <3>1. ASSUME NEW u \in Tx
          PROVE  /\ \A x \in held'[u] : draft'[u][x].reserved = inv'[x].reserved + SumOf(Qty, PassedItems(u, x)')
                 /\ \A j \in 1..(pos'[u] - 1) : j \in skipped'[u] \/ Items[for'[u]][j].sku \in held'[u]
      <4>1. CASE u = t
        BY <1>2, <2>9, <2>10, <4>1
      <4>2. CASE u # t
        <5>1. /\ \A x \in held[u] : draft[u][x].reserved = inv[x].reserved + SumOf(Qty, PassedItems(u, x))
              /\ \A j \in 1..(pos[u] - 1) : j \in skipped[u] \/ Items[for[u]][j].sku \in held[u]
          BY DEF LocksAddUp, DraftsAdd
        <5> QED BY <1>2, <1>3, <1>6, <4>2, <5>1
      <4> QED BY <4>1, <4>2
    <3> QED BY <3>1 DEF DraftsAdd, SumOf
  <2>12. SettlesNothing'
    BY <1>2, <1>3, <2>1 DEF LocksAddUp, SettlesNothing
  <2> QED BY <1>5, <2>11, <2>12
<1>13. CASE s \notin listed /\ skipped' = [skipped EXCEPT ![t] = skipped[t] \cup {i}]
            /\ UNCHANGED <<held, draft>>
  <2>1. skipped'[t] = skipped[t] \cup {i}
    BY <1>13 DEF TypeOK
  <2>2. \A x : PassedItems(t, x)' = PassedItems(t, x)
    <3>1. ASSUME NEW x, NEW j PROVE <<o, j>> \in PassedItems(t, x)' <=> <<o, j>> \in PassedItems(t, x)
      BY <1>7, <1>8, <1>10, <1>11, <2>1
    <3>2. ASSUME NEW x, NEW p PROVE p \in PassedItems(t, x)' <=> p \in PassedItems(t, x)
      BY <1>9, <3>1
    <3> QED BY <3>2
  <2>3. DraftsAdd'
    <3>1. ASSUME NEW u \in Tx
          PROVE  /\ \A x \in held'[u] : draft'[u][x].reserved = inv'[x].reserved + SumOf(Qty, PassedItems(u, x)')
                 /\ \A j \in 1..(pos'[u] - 1) : j \in skipped'[u] \/ Items[for'[u]][j].sku \in held'[u]
      <4>0. /\ \A x \in held[u] : draft[u][x].reserved = inv[x].reserved + SumOf(Qty, PassedItems(u, x))
            /\ \A j \in 1..(pos[u] - 1) : j \in skipped[u] \/ Items[for[u]][j].sku \in held[u]
        BY DEF LocksAddUp, DraftsAdd
      <4>1. CASE u = t
        BY <1>2, <1>3, <1>10, <1>13, <2>1, <2>2, <4>0, <4>1
      <4>2. CASE u # t
        BY <1>2, <1>3, <1>6, <1>13, <4>0, <4>2
      <4> QED BY <4>1, <4>2
    <3> QED BY <3>1 DEF DraftsAdd, SumOf
  <2>4. lock[o] # "none" => <<o, i>> \in missed
    BY <1>1, <1>13 DEF LocksAddUp, MissedItems
  <2>5. SettlesNothing'
    BY <1>2, <1>3, <1>13, <2>1, <2>4 DEF LocksAddUp, SettlesNothing
  <2> QED BY <1>5, <2>3, <2>5
<1> QED BY <1>2, <1>12, <1>13

LEMMA AddUpStep ==
  ASSUME NoneSettles, TypeOK, RowsHaveOneWriter, LocksAddUp, [Next]_vars
  PROVE  LocksAddUp'
<1> USE DEF tables, txs
<1>0. /\ InOrder /\ SumsHold /\ MissedItems /\ DraftsAdd /\ SettlesNothing
      /\ DOMAIN inv = Sku /\ \A s \in Sku : inv[s] \in Row
  BY DEF LocksAddUp, TypeOK
\* What follows when the transactions and the locks stay as they are.
<1>1. ASSUME UNCHANGED txs, UNCHANGED <<lock, missed>>, listed \subseteq listed',
             \A t \in Tx : \A s \in held[t] : inv'[s].reserved = inv[s].reserved,
             \A s \in listed' : inv'[s].reserved = SumOf(Qty, LockedItems(s))
      PROVE  LocksAddUp'
  <2>1. InOrder' /\ SettlesNothing'
    BY <1>0, <1>1 DEF InOrder, SettlesNothing
  <2>2. \A s : LockedItems(s)' = LockedItems(s)
    BY <1>1 DEF LockedItems
  <2>3. SumsHold'
    BY <1>0, <1>1, <2>2 DEF SumsHold, SumOf
  <2>4. MissedItems'
    BY <1>0, <1>1 DEF MissedItems
  <2>5. \A t \in Tx : \A s : PassedItems(t, s)' = PassedItems(t, s)
    BY <1>1 DEF PassedItems
  <2>6. DraftsAdd'
    <3>1. ASSUME NEW t \in Tx, NEW s \in held[t]
          PROVE  draft[t][s].reserved = inv'[s].reserved + SumOf(Qty, PassedItems(t, s)')
      BY <1>0, <1>1, <2>5 DEF DraftsAdd
    <3>2. ASSUME NEW t \in Tx, NEW i \in 1..(pos[t] - 1)
          PROVE  i \in skipped[t] \/ Items[for[t]][i].sku \in held[t]
      BY <1>0 DEF DraftsAdd
    <3> QED BY <1>1, <3>1, <3>2 DEF DraftsAdd, SumOf
  <2> QED BY <2>1, <2>3, <2>4, <2>6 DEF LocksAddUp
<1>2. ASSUME NEW S \in SUBSET Sku, BatchCreateInventoris(S) PROVE LocksAddUp'
  <2>1. /\ S \cap listed = {} /\ listed' = listed \cup S
        /\ \A s \in Sku : inv'[s] = IF s \in S THEN Empty[s] ELSE inv[s]
        /\ UNCHANGED <<lock, missed, txs>>
    BY <1>2 DEF BatchCreateInventoris
  <2>2. \A t \in Tx : \A s \in held[t] : s \in listed /\ s \in Sku
    BY DEF RowsHaveOneWriter, TypeOK
  <2>3. \A s \in listed : inv[s].reserved = SumOf(Qty, LockedItems(s)) /\ s \in Sku
    BY <1>0 DEF SumsHold, TypeOK
  <2>4. ASSUME NEW s \in S PROVE LockedItems(s) = {}
    <3>1. \A p \in LockedItems(s) : /\ p[1] \in Order /\ p[2] \in DOMAIN Items[p[1]] /\ p \notin missed
                                    /\ p = <<p[1], p[2]>> /\ lock[p[1]] = "locked"
                                    /\ Items[p[1]][p[2]].sku = s
      BY ItemPairs
    <3>2. s \notin listed
      BY <2>1
    <3> QED BY <1>0, <3>1, <3>2 DEF MissedItems
  <2>5. \A s \in S : inv'[s].reserved = SumOf(Qty, LockedItems(s))
    BY <2>1, <2>4, SumEmpty, EmptyType
  <2>6. \A s \in listed' : inv'[s].reserved = SumOf(Qty, LockedItems(s))
    BY <2>1, <2>3, <2>5
  <2>7. \A t \in Tx : \A s \in held[t] : inv'[s].reserved = inv[s].reserved
    BY <2>1, <2>2
  <2> QED BY <1>1, <2>1, <2>6, <2>7
<1>3. ASSUME NEW s \in Sku, NEW q \in StockValues, AdjustStock(s, q) PROVE LocksAddUp'
  <2>1. inv' = [inv EXCEPT ![s].stock = q] /\ UNCHANGED <<listed, lock, missed, txs>>
    BY <1>3 DEF AdjustStock
  <2>2. \A x \in Sku : inv'[x].reserved = inv[x].reserved
    BY <1>0, <2>1 DEF Row
  <2>3. /\ \A t \in Tx : \A x \in held[t] : x \in Sku
        /\ \A x \in listed : inv[x].reserved = SumOf(Qty, LockedItems(x)) /\ x \in Sku
    BY <1>0 DEF SumsHold, TypeOK
  <2> QED BY <1>1, <2>1, <2>2, <2>3
<1>4. ASSUME NEW t \in Tx, NEW c \in Calls, NEW o \in Order, Begin(t, c, o) PROVE LocksAddUp'
  <2>1. /\ call[t] = "idle" /\ MayBegin(c, o)
        /\ call'[t] = c /\ for'[t] = o /\ pos'[t] = 1
        /\ \A u \in Tx \ {t} : call'[u] = call[u] /\ for'[u] = for[u] /\ pos'[u] = pos[u]
        /\ UNCHANGED <<held, draft, skipped, listed, inv, lock, missed>>
    BY <1>4 DEF Begin, TypeOK
  <2>2. held[t] = {} /\ skipped[t] = {} /\ c # "idle"
    <3>1. pos[t] = 1 /\ held[t] = {} /\ skipped[t] \subseteq 1..(pos[t] - 1)
      BY <1>0, <2>1 DEF InOrder
    <3> QED BY <3>1 DEF Calls
  <2>3. Len(Items[o]) \in Nat
    BY InventoryAssumption
  <2>4. InOrder'
    BY <1>0, <2>1, <2>2, <2>3 DEF InOrder
  <2>5. SumsHold' /\ MissedItems'
    <3>1. \A s : LockedItems(s)' = LockedItems(s)
      BY <2>1 DEF LockedItems
    <3> QED BY <1>0, <2>1, <3>1 DEF SumsHold, SumOf, MissedItems
  <2>6. DraftsAdd'
    <3>1. ASSUME NEW u \in Tx
          PROVE  /\ \A s \in held[u] : draft[u][s].reserved = inv[s].reserved + SumOf(Qty, PassedItems(u, s)')
                 /\ \A i \in 1..(pos'[u] - 1) : i \in skipped[u] \/ Items[for'[u]][i].sku \in held[u]
      <4>1. CASE u = t
        BY <2>1, <2>2, <4>1
      <4>2. CASE u # t
        <5>1. \A s : PassedItems(u, s)' = PassedItems(u, s)
          BY <2>1, <4>2 DEF PassedItems
        <5>2. /\ \A s \in held[u] : draft[u][s].reserved = inv[s].reserved + SumOf(Qty, PassedItems(u, s))
              /\ \A i \in 1..(pos[u] - 1) : i \in skipped[u] \/ Items[for[u]][i].sku \in held[u]
          BY <1>0 DEF DraftsAdd
        <5> QED BY <2>1, <4>2, <5>1, <5>2
      <4> QED BY <4>1, <4>2
    <3> QED BY <2>1, <3>1 DEF DraftsAdd, SumOf
  <2>7. SettlesNothing'
    <3>1. c # "reserve" => lock[o] # "none"
      BY <2>1 DEF MayBegin
    <3> QED BY <1>0, <2>1, <2>2, <3>1 DEF SettlesNothing
  <2> QED BY <2>4, <2>5, <2>6, <2>7 DEF LocksAddUp
<1>5. ASSUME NEW t \in Tx, UpdateRow(t) PROVE LocksAddUp'
  <2>1. UNCHANGED tables
    BY <1>5 DEF UpdateRow
  <2>2. \A s : LockedItems(s)' = LockedItems(s)
    BY <2>1 DEF LockedItems
  <2>3. SumsHold' /\ MissedItems'
    BY <1>0, <2>1, <2>2 DEF SumsHold, SumOf, MissedItems
  <2> QED BY <1>5, <2>3, AddUpUpdate DEF LocksAddUp
<1>6. ASSUME NEW t \in Tx, Commit(t) PROVE LocksAddUp'
  <2>1. /\ EndTx(t) /\ listed' = listed /\ \A s \in Sku : inv'[s] = View(t, s)
        /\ for[t] \in Order
    BY <1>6 DEF Commit, TypeOK
  <2>2. ASSUME NEW s \in Sku, s \notin held[t] PROVE inv'[s] = inv[s]
    BY <2>1, <2>2 DEF View
  <2>3. \A u \in Tx \ {t} : \A s \in held[u] : inv'[s].reserved = inv[s].reserved
    BY <2>2 DEF RowsHaveOneWriter, TypeOK
  <2>4. missed \subseteq missed'
    BY <1>6 DEF Commit
  <2>5. CASE call[t] = "reserve"
    <3>1. /\ lock[for[t]] = "none" /\ lock' = [lock EXCEPT ![for[t]] = "locked"]
          /\ missed' = missed \cup ({for[t]} \X skipped[t]) /\ DOMAIN lock = Order
      BY <1>6, <2>5 DEF Commit, MayFinish, FinalStatus, TypeOK
    <3>2. \A o \in Order : lock[o] # "none" => lock'[o] # "none"
      BY <3>1
    <3>3. InOrder' /\ DraftsAdd' /\ SettlesNothing'
      BY <2>1, <2>3, <2>4, <3>2, AddUpEnd
    <3>4. MissedItems'
      <4>1. \A i \in DOMAIN Items[for[t]] : i \in skipped[t] \/ Items[for[t]][i].sku \in listed
        <5>1. DOMAIN Items[for[t]] = 1..(pos[t] - 1)
          <6>1. Items[for[t]] \in Seq(ItemType) /\ pos[t] \in Nat \ {0} /\ pos[t] <= Len(Items[for[t]]) + 1
            BY <1>0, <2>1, InventoryAssumption DEF InOrder, TypeOK
          <6>2. ~ (pos[t] <= Len(Items[for[t]]))
            BY <1>6, <2>5 DEF Commit, MoreItems
          <6>3. pos[t] - 1 = Len(Items[for[t]])
            BY <6>1, <6>2
          <6> QED BY <6>1, <6>3
        <5> QED BY <1>0, <5>1 DEF DraftsAdd, RowsHaveOneWriter
      <4>2. \A o \in Order : lock'[o] # "none" => o = for[t] \/ lock[o] # "none"
        BY <3>1
      <4>3. ASSUME NEW o \in Order, lock'[o] # "none", NEW i \in DOMAIN Items[o]
            PROVE  <<o, i>> \in missed' \/ Items[o][i].sku \in listed
        <5>1. CASE o = for[t]
          BY <3>1, <4>1, <5>1
        <5>2. CASE o # for[t]
          BY <1>0, <2>4, <4>2, <4>3, <5>2 DEF MissedItems
        <5> QED BY <5>1, <5>2
      <4>4. ASSUME NEW p \in missed' PROVE lock'[p[1]] # "none"
        <5>1. CASE p \in missed
          <6>1. p[1] \in Order /\ lock[p[1]] # "none"
            BY <1>0, <5>1 DEF MissedItems, TypeOK
          <6> QED BY <3>2, <6>1
        <5>2. CASE p \in {for[t]} \X skipped[t]
          BY <2>1, <3>1, <5>2
        <5> QED BY <3>1, <5>1, <5>2
      <4> QED BY <2>1, <4>3, <4>4 DEF MissedItems
    <3>5. SumsHold'
      <4>1. ASSUME NEW s \in Sku
            PROVE  /\ IsFiniteSet(LockedItems(s)')
                   /\ SumOf(Qty, LockedItems(s)') = SumOf(Qty, LockedItems(s)) + SumOf(Qty, PassedItems(t, s))
        <5>1. PICK A : A = LockedItems(s)
          OBVIOUS
        <5>2. PICK B : B = PassedItems(t, s)
          OBVIOUS
        <5>3. LockedItems(s)' = A \cup B /\ A \cap B = {}
          BY <1>6, <2>5, <5>1, <5>2, LockedBy
        <5>4. IsFiniteSet(A) /\ IsFiniteSet(B)
          BY <1>0, <5>1, <5>2, PassedPairs DEF SumsHold
        <5>5. \A p \in A \cup B : Qty[p] \in Int
          <6>1. \A p \in A : Qty[p] \in Int
            BY <5>1, ItemPairs
          <6>2. \A p \in B : Qty[p] \in Int
            BY <1>0, <5>2, PassedPairs
          <6> QED BY <6>1, <6>2
        <5>6. IsFiniteSet(A \cup B)
          BY <5>4, FS_Union
        <5>7. SumOf(Qty, A \cup B) = SumOf(Qty, A) + SumOf(Qty, B)
          BY <5>3, <5>4, <5>5, SumUnion
        <5> QED BY <5>1, <5>2, <5>3, <5>6, <5>7
      <4>2. ASSUME NEW s \in listed PROVE inv'[s].reserved = SumOf(Qty, LockedItems(s)')
        <5>1. s \in Sku
          BY DEF TypeOK
        <5>2. inv'[s].reserved = inv[s].reserved + SumOf(Qty, PassedItems(t, s))
          BY <1>0, <2>1, <5>1, ViewAdds
        <5>3. inv[s].reserved = SumOf(Qty, LockedItems(s))
          BY <1>0 DEF SumsHold
        <5> QED BY <4>1, <5>1, <5>2, <5>3
      <4> QED BY <2>1, <4>1, <4>2 DEF SumsHold, SumOf
    <3> QED BY <3>3, <3>4, <3>5 DEF LocksAddUp
  <2>6. CASE call[t] # "reserve"
    <3>1. /\ \A s : LockedItems(s)' = LockedItems(s)
          /\ missed' = missed /\ held[t] = {} /\ lock[for[t]] # "none" /\ lock'[for[t]] # "none"
          /\ \A o \in Order : lock'[o] = lock[o] \/ o = for[t]
      BY <1>6, <2>6, SettledHeldNothing
    <3>2. \A s \in Sku : inv'[s] = inv[s]
      BY <2>2, <3>1
    <3>3. \A o \in Order : (lock[o] # "none") <=> (lock'[o] # "none")
      BY <3>1
    <3>4. InOrder' /\ DraftsAdd' /\ SettlesNothing'
      BY <2>1, <2>3, <3>1, <3>3, AddUpEnd
    <3>5. MissedItems'
      <4>1. \A p \in missed : p[1] \in Order
        BY DEF TypeOK
      <4> QED BY <1>0, <2>1, <3>1, <3>3, <4>1 DEF MissedItems
    <3>6. SumsHold'
      <4>1. \A s \in listed : s \in Sku
        BY DEF TypeOK
      <4> QED BY <1>0, <2>1, <3>1, <3>2, <4>1 DEF SumsHold, SumOf
    <3> QED BY <3>4, <3>5, <3>6 DEF LocksAddUp
  <2> QED BY <2>5, <2>6
<1>7. ASSUME NEW t \in Tx, Abort(t) PROVE LocksAddUp'
  <2>1. EndTx(t) /\ UNCHANGED tables
    BY <1>7 DEF Abort
  <2>2. InOrder' /\ DraftsAdd' /\ SettlesNothing'
    BY <2>1, AddUpEnd
  <2>3. \A s : LockedItems(s)' = LockedItems(s)
    BY <2>1 DEF LockedItems
  <2>4. SumsHold' /\ MissedItems'
    BY <1>0, <2>1, <2>3 DEF SumsHold, SumOf, MissedItems
  <2> QED BY <2>2, <2>4 DEF LocksAddUp
<1>8. CASE UNCHANGED vars
  <2>1. /\ UNCHANGED txs /\ UNCHANGED <<lock, missed>> /\ listed' = listed /\ inv' = inv
    BY <1>8 DEF vars
  <2>2. \A s \in listed : inv[s].reserved = SumOf(Qty, LockedItems(s))
    BY <1>0 DEF SumsHold
  <2> QED BY <1>1, <2>1, <2>2
<1> QED BY <1>2, <1>3, <1>4, <1>5, <1>6, <1>7, <1>8 DEF Next

\* The reserved quantity of a SKU is the sum of what the locked orders hold of
\* it, for any orders with the pinned gorm, and with a keyed one for orders of
\* positive quantities (ReserveStock under at-least-once dispatch).
THEOREM ReservedIsWhatLocksHold ==
  ASSUME ~ModelIsKeyed \/ \A o \in Order : \A i \in DOMAIN Items[o] : Items[o][i].qty > 0
  PROVE  Spec => []ReservedIsLocked
<1> DEFINE I == TypeOK /\ RowsHaveOneWriter /\ LocksAddUp
<1>0. NoneSettles
  BY DEF NoneSettles
<1>1. Init => I
  <2>1. Init => RowsHaveOneWriter
    BY DEF Init, RowsHaveOneWriter
  <2> QED BY <2>1, TypeOKInit, AddUpInit
<1>2. I /\ [Next]_vars => I'
  BY <1>0, TypeOKStep, OneWriterStep, AddUpStep
<1>3. I => ReservedIsLocked
  <2> SUFFICES ASSUME I, NEW s \in listed
               PROVE  inv[s].reserved = MapThenSumSet(LAMBDA p : Items[p[1]][p[2]].qty, LockedItems(s))
    BY DEF ReservedIsLocked
  <2>1. PICK S : S = LockedItems(s)
    OBVIOUS
  <2>2. s \in Sku /\ IsFiniteSet(S) /\ inv[s].reserved = SumOf(Qty, S)
    BY <2>1 DEF TypeOK, LocksAddUp, SumsHold
  <2>3. \A p \in S : Qty[p] = Items[p[1]][p[2]].qty /\ Qty[p] \in Int
    BY <2>1, ItemPairs
  <2>4. MapThenSumSet(LAMBDA p : Items[p[1]][p[2]].qty, S) = SumOf(Qty, S)
    BY <2>2, <2>3, SumOfItems
  <2> QED BY <2>1, <2>2, <2>4
<1> HIDE DEF I
<1> QED BY <1>1, <1>2, <1>3, PTL DEF Spec
-----------------------------------------------------------------------------
(* Inventory implements Stock: a reservation happens when its transaction   *)
(* commits, and takes what was not skipped.                                 *)

\* The two modules add up alike.
LEMMA PromiseAddsUp == \A q, S : Promise!SumFunctionOnSet(q, S) = SumOf(q, S)
<1>1. \A q, S : Promise!SumFunctionOnSet(q, S) = Summing(q, S)[S]
  BY Zenon DEF Promise!SumFunctionOnSet, Promise!FoldFunctionOnSet, Promise!MapThenFoldSet, Summing
<1> QED BY <1>1, SumIs DEF SumOf

\* What a transaction reserves, given as in Stock.
Reserving(t) == {<<for[t], i>> : i \in DOMAIN Items[for[t]] \ skipped[t]}

LEMMA ReservesUnits ==
  ASSUME TypeOK, LocksAddUp, NEW t \in Tx, call[t] # "idle", ~MoreItems(t), NEW s \in Sku
  PROVE  Promise!Units(Reserving(t), s) = SumOf(Qty, PassedItems(t, s))
<1>1. DOMAIN Items[for[t]] = 1..(pos[t] - 1)
  <2>1. Items[for[t]] \in Seq(ItemType) /\ pos[t] \in Nat \ {0} /\ pos[t] <= Len(Items[for[t]]) + 1
    BY InventoryAssumption DEF LocksAddUp, InOrder, TypeOK
  <2>2. ~ (pos[t] <= Len(Items[for[t]]))
    BY DEF MoreItems
  <2>3. pos[t] - 1 = Len(Items[for[t]])
    BY <2>1, <2>2
  <2> QED BY <2>1, <2>3
<1>2. PICK P : P = Reserving(t)
  OBVIOUS
<1>3. PICK S : S = PassedItems(t, s)
  OBVIOUS
<1>4. {p \in P : Promise!SkuOf(p) = s} = S
  <2>1. ASSUME NEW p PROVE p \in P /\ Promise!SkuOf(p) = s <=> p \in S
    <3>1. p \in P <=> \E i \in DOMAIN Items[for[t]] : i \notin skipped[t] /\ p = <<for[t], i>>
      BY <1>2 DEF Reserving
    <3>2. p \in S <=> \E i \in 1..(pos[t] - 1) : /\ Items[for[t]][i].sku = s /\ i \notin skipped[t]
                                                /\ p = <<for[t], i>>
      BY <1>3 DEF PassedItems
    <3> QED BY <1>1, <3>1, <3>2 DEF Promise!SkuOf
  <2> QED BY <2>1
<1> PICK q : q = [p \in P |-> Items[p[1]][p[2]].qty]
  OBVIOUS
<1>5. IsFiniteSet(S) /\ \A p \in S : Qty[p] = Items[p[1]][p[2]].qty /\ Qty[p] \in Int
  BY <1>3, PassedPairs DEF LocksAddUp
<1>6. \A p \in S : Qty[p] \in Int /\ q[p] = Qty[p]
  BY <1>4, <1>5
<1>7. SumOf(q, S) = SumOf(Qty, S)
  BY <1>5, <1>6, SumSame
<1>8. Promise!Units(P, s) = Promise!SumFunctionOnSet(q, S)
  BY <1>4 DEF Promise!Units
<1> QED BY <1>2, <1>3, <1>7, <1>8, PromiseAddsUp

LEMMA CommitReserves ==
  ASSUME ~ModelIsKeyed, TypeOK, RowsHaveOneWriter, LocksAddUp, DraftsKeepStock, NothingSettled,
         NEW t \in Tx, Commit(t), NEW P, P = Reserving(t)
  PROVE  Promise!Reserve(for[t], P) /\ P \in SUBSET Promise!ItemsOf(for[t])
<1>1. /\ call[t] = "reserve" /\ ~MoreItems(t) /\ lock[for[t]] = "none" /\ for[t] \in Order
      /\ lock' = [lock EXCEPT ![for[t]] = "locked"] /\ DOMAIN lock = Order
      /\ missed' = missed \cup ({for[t]} \X skipped[t]) /\ listed' = listed
      /\ \A s \in Sku : inv'[s] = View(t, s)
  BY DEF Commit, MayFinish, FinalStatus, TypeOK
<1>2. DOMAIN Items[for[t]] = 1..(pos[t] - 1)
  <2>1. Items[for[t]] \in Seq(ItemType) /\ pos[t] \in Nat \ {0} /\ pos[t] <= Len(Items[for[t]]) + 1
    BY <1>1, InventoryAssumption DEF LocksAddUp, InOrder, TypeOK
  <2>2. ~ (pos[t] <= Len(Items[for[t]]))
    BY <1>1 DEF MoreItems
  <2>3. pos[t] - 1 = Len(Items[for[t]])
    BY <2>1, <2>2
  <2> QED BY <2>1, <2>3
<1>3. \A p \in Reserving(t) : Promise!SkuOf(p) \in listed
  <2>1. \A i \in 1..(pos[t] - 1) : i \in skipped[t] \/ Items[for[t]][i].sku \in held[t]
    BY DEF LocksAddUp, DraftsAdd
  <2> QED BY <1>2, <2>1 DEF Reserving, RowsHaveOneWriter, Promise!SkuOf
<1>4. Taken' = Taken \cup Reserving(t)
  <2>1. \A p : p \in Taken <=> /\ p \notin missed
                               /\ \E o \in Order : lock[o] = "locked" /\ p \in {o} \X DOMAIN Items[o]
    BY DEF Taken
  <2>2. \A p : p \in Taken' <=> /\ p \notin missed'
                                /\ \E o \in Order : lock'[o] = "locked" /\ p \in {o} \X DOMAIN Items[o]
    BY DEF Taken
  <2>3. \A o \in Order : lock'[o] = "locked" <=> o = for[t] \/ lock[o] = "locked"
    BY <1>1
  <2>4. \A i : <<for[t], i>> \notin missed
    BY <1>1 DEF LocksAddUp, MissedItems
  <2>5. ASSUME NEW p PROVE p \in Taken' <=> p \in Taken \/ p \in Reserving(t)
    <3>1. CASE \E i \in DOMAIN Items[for[t]] : p = <<for[t], i>>
      <4>1. PICK i \in DOMAIN Items[for[t]] : p = <<for[t], i>>
        BY <3>1
      <4>2. p \notin Taken
        BY <1>1, <2>1, <4>1
      <4>3. p \in Taken' <=> i \notin skipped[t]
        BY <1>1, <2>2, <2>3, <2>4, <4>1
      <4> QED BY <4>1, <4>2, <4>3 DEF Reserving
    <3>2. CASE ~ \E i \in DOMAIN Items[for[t]] : p = <<for[t], i>>
      <4>1. p \notin Reserving(t)
        BY <3>2 DEF Reserving
      <4>2. \A o \in Order : p \in {o} \X DOMAIN Items[o] => o # for[t] /\ p \notin {for[t]} \X skipped[t]
        BY <3>2
      <4> QED BY <1>1, <2>1, <2>2, <2>3, <4>1, <4>2
    <3> QED BY <3>1, <3>2
  <2> QED BY <2>5
<1>5. ASSUME NEW s \in Sku
      PROVE  /\ inv'[s].reserved = inv[s].reserved + Promise!Units(Reserving(t), s)
             /\ inv'[s].stock = inv[s].stock
  <2>1. inv'[s].reserved = inv[s].reserved + SumOf(Qty, PassedItems(t, s))
    BY <1>1, ViewAdds DEF LocksAddUp
  <2>2. Promise!Units(Reserving(t), s) = SumOf(Qty, PassedItems(t, s))
    BY <1>1, ReservesUnits
  <2>3. inv'[s].stock = inv[s].stock
    BY <1>1 DEF View, DraftsKeepStock, NothingSettled
  <2> QED BY <2>1, <2>2, <2>3
<1>6. P \in SUBSET Promise!ItemsOf(for[t])
  BY DEF Reserving, Promise!ItemsOf
<1> QED BY <1>1, <1>3, <1>4, <1>5, <1>6 DEF Promise!Reserve

LEMMA PromiseStep ==
  ASSUME ~ModelIsKeyed, TypeOK, RowsHaveOneWriter, LocksAddUp, DraftsKeepStock, NothingSettled,
         [Next]_vars
  PROVE  [Promise!Next]_(Promise!vars)
<1> USE DEF tables, txs
<1>1. ASSUME UNCHANGED tables PROVE UNCHANGED Promise!vars
  BY <1>1 DEF Promise!vars, Taken
<1>2. ASSUME NEW S \in SUBSET Sku, BatchCreateInventoris(S) PROVE Promise!Next
  <2>1. /\ S \cap listed = {} /\ listed' = listed \cup S /\ UNCHANGED <<lock, missed>>
        /\ \A s \in Sku : inv'[s] = IF s \in S THEN Empty[s] ELSE inv[s]
    BY <1>2 DEF BatchCreateInventoris
  <2>2. \A s \in Sku : inv'[s].stock = inv[s].stock /\ inv'[s].reserved = inv[s].reserved
    BY <2>1, EmptyType DEF NothingSettled
  <2>3. Taken' = Taken
    BY <2>1 DEF Taken
  <2>4. Promise!List(S)
    BY <2>1, <2>2, <2>3 DEF Promise!List
  <2> QED BY <2>4 DEF Promise!Next
<1>3. ASSUME NEW s \in Sku, NEW q \in StockValues, AdjustStock(s, q) PROVE FALSE
  BY <1>3 DEF AdjustStock
<1>4. ASSUME NEW t \in Tx, NEW c \in Calls, NEW o \in Order, Begin(t, c, o) PROVE UNCHANGED tables
  BY <1>4 DEF Begin
<1>5. ASSUME NEW t \in Tx, UpdateRow(t) \/ Abort(t) PROVE UNCHANGED tables
  BY <1>5 DEF UpdateRow, Abort
<1>6. ASSUME NEW t \in Tx, Commit(t) PROVE Promise!Next
  <2>1. for[t] \in Order
    BY DEF TypeOK
  <2>2. PICK P : P = Reserving(t)
    OBVIOUS
  <2>3. P \in SUBSET Promise!ItemsOf(for[t]) /\ Promise!Reserve(for[t], P)
    BY <1>6, <2>2, CommitReserves
  <2>4. \E o \in Order : \E Q \in SUBSET Promise!ItemsOf(o) : Promise!Reserve(o, Q)
    BY <2>1, <2>3, Zenon
  <2> QED BY <2>4, Zenon DEF Promise!Next
<1>7. ASSUME UNCHANGED vars PROVE UNCHANGED tables
  BY <1>7 DEF vars
<1>8. Promise!Next \/ UNCHANGED tables
  BY <1>2, <1>3, <1>4, <1>5, <1>6, <1>7 DEF Next
<1>9. Promise!Next \/ UNCHANGED Promise!vars
  BY <1>1, <1>8
<1> QED BY <1>9

\* With the pinned gorm the calls, however their statements interleave, repeat or
\* roll back, keep the promise of Stock: an order takes its items in one step and
\* once, and nothing of another order changes (ReserveStock).
THEOREM InventoryKeepsPromise ==
  ASSUME ~ModelIsKeyed
  PROVE  Spec => KeepsPromise
<1> DEFINE I == TypeOK /\ RowsHaveOneWriter /\ LocksAddUp /\ DraftsKeepStock /\ NothingSettled
<1>0. NoneSettles
  BY DEF NoneSettles
<1>1. Init => I
  <2>1. Init => RowsHaveOneWriter /\ DraftsKeepStock /\ NothingSettled
    BY EmptyType DEF Init, RowsHaveOneWriter, DraftsKeepStock, NothingSettled
  <2> QED BY <2>1, TypeOKInit, AddUpInit
<1>2. I /\ [Next]_vars => I'
  BY <1>0, TypeOKStep, OneWriterStep, AddUpStep, ReservationsStep
<1>3. Init => Promise!Init
  BY EmptyType DEF Init, Promise!Init, Taken
<1>4. I /\ [Next]_vars => [Promise!Next]_(Promise!vars)
  BY PromiseStep
<1> HIDE DEF I
<1> QED BY <1>1, <1>2, <1>3, <1>4, PTL DEF Spec, KeepsPromise, Promise!Spec
=============================================================================
