--------------------------- MODULE PurchaseProofs ---------------------------
(***************************************************************************)
(* Proofs about Purchase for any requests, SKUs, keys and bounds: at most  *)
(* one order has an idempotency key, only duplicates are refused as such,  *)
(* and a repeated payment records no second row unless Redis lost the      *)
(* entry; and, from a second invariant, the types, the amounts and the     *)
(* reasons of refusals.                                                    *)
(***************************************************************************)
EXTENDS Purchase, Induction, TLAPS, SequenceTheorems

CallFields == {"request", "answer", "after", "found", "lines", "amount", "stage", "retry"}
OrderFields == {"key", "user", "lines", "total", "status"}

\* A sequence of records with these fields, whatever the fields hold.
Rows(s, fields) ==
  /\ s \in Seq(Range(s))
  /\ \A i \in DOMAIN s : DOMAIN s[i] = fields

\* t is s and another row.
Grows(s, t, row) ==
  /\ DOMAIN t = DOMAIN s \cup {Len(s) + 1} /\ Len(s) + 1 \notin DOMAIN s
  /\ t[Len(s) + 1] = row
  /\ \A i \in DOMAIN s : t[i] = s[i]

LEMMA RowsAppend ==
  ASSUME NEW s, NEW fields, Rows(s, fields), NEW r, DOMAIN r = fields
  PROVE  Rows(Append(s, r), fields) /\ Grows(s, Append(s, r), r)
<1> DEFINE S == Range(s) \cup {r}
           t == Append(s, r)
<1>1. s \in Seq(Range(s))
  BY DEF Rows
<1>2. Len(s) \in Nat /\ DOMAIN s = 1..Len(s) /\ s \in [1..Len(s) -> Range(s)]
  BY <1>1, LenProperties
<1>3. s \in Seq(S)
  <2>1. s \in [1..Len(s) -> S]
    BY <1>2
  <2> QED BY <1>2, <2>1, SeqDef
<1>4. r \in S
  OBVIOUS
<1>5. /\ t \in Seq(S) /\ Len(t) = Len(s) + 1
      /\ \A i \in 1..Len(s) : t[i] = s[i]
      /\ t[Len(s) + 1] = r
  <2> HIDE DEF S
  <2> QED BY <1>3, <1>4, AppendProperties
<1>6. DOMAIN t = 1..(Len(s) + 1)
  <2> HIDE DEF S, t
  <2> QED BY <1>5, LenProperties
<1>7. t \in Seq(Range(t))
  <2> HIDE DEF S, t
  <2> QED BY <1>5, SeqOfRange
<1>8. /\ DOMAIN t = DOMAIN s \cup {Len(s) + 1}
      /\ Len(s) + 1 \notin DOMAIN s
  <2> HIDE DEF t
  <2> QED BY <1>2, <1>6
<1>9. \A i \in DOMAIN t : DOMAIN t[i] = fields
  <2> HIDE DEF t
  <2> QED BY <1>2, <1>5, <1>8 DEF Rows
<1> HIDE DEF t
<1>10. Rows(t, fields)
  BY <1>7, <1>9 DEF Rows
<1>11. Grows(s, t, r)
  BY <1>2, <1>5, <1>8 DEF Grows
<1> QED BY <1>10, <1>11 DEF t

LEMMA RowsExcept ==
  ASSUME NEW s, NEW fields, Rows(s, fields), NEW i \in DOMAIN s, NEW r, DOMAIN r = fields
  PROVE  Rows([s EXCEPT ![i] = r], fields)
<1> DEFINE S == Range(s) \cup {r}
           t == [s EXCEPT ![i] = r]
<1>1. Len(s) \in Nat /\ DOMAIN s = 1..Len(s) /\ s \in [1..Len(s) -> Range(s)]
  BY LenProperties DEF Rows
<1>2. t \in [1..Len(s) -> S] /\ DOMAIN t = DOMAIN s
  BY <1>1
<1>3. \A j \in DOMAIN t : DOMAIN t[j] = fields
  BY <1>2 DEF Rows
<1>4. t \in Seq(S)
  BY <1>1, <1>2, SeqDef
<1> HIDE DEF t, S
<1>5. t \in Seq(Range(t))
  BY <1>4, SeqOfRange
<1> QED BY <1>3, <1>5 DEF Rows, t
-----------------------------------------------------------------------------
(* What a step does to the requests. *)

\* Only request c moves, to this stage with this answer.
Moves(c, stage, answer) ==
  /\ c \in DOMAIN calls /\ DOMAIN calls' = DOMAIN calls
  /\ Rows(calls', CallFields)
  /\ \A d \in DOMAIN calls :
       /\ calls'[d].request = calls[d].request /\ calls'[d].retry = calls[d].retry
       /\ d # c => calls'[d] = calls[d]
  /\ calls'[c].stage = stage /\ calls'[c].answer = answer

LEMMA MovesTo ==
  ASSUME Rows(calls, CallFields), NEW c \in DOMAIN calls, NEW r,
         calls' = [calls EXCEPT ![c] = r], DOMAIN r = CallFields,
         r.request = calls[c].request, r.retry = calls[c].retry
  PROVE  Moves(c, r.stage, r.answer)
<1>1. Rows(calls', CallFields)
  BY RowsExcept
<1> QED BY <1>1 DEF Moves

LEMMA GotoMoves ==
  ASSUME Rows(calls, CallFields), NEW c \in DOMAIN calls, NEW stage, Goto(c, stage)
  PROVE  Moves(c, stage, calls[c].answer)
<1> PICK r : r = [calls[c] EXCEPT !.stage = stage]
  OBVIOUS
<1>1. DOMAIN calls[c] = CallFields
  BY DEF Rows
<1>2. /\ DOMAIN r = CallFields /\ r.request = calls[c].request /\ r.retry = calls[c].retry
      /\ r.stage = stage /\ r.answer = calls[c].answer
  BY <1>1 DEF CallFields
<1>3. calls' = [calls EXCEPT ![c] = r]
  BY DEF Goto
<1> QED BY <1>2, <1>3, MovesTo

LEMMA EndMoves ==
  ASSUME Rows(calls, CallFields), NEW c \in DOMAIN calls, NEW answer, End(c, answer)
  PROVE  Moves(c, "done", answer)
<1> PICK r : r = [calls[c] EXCEPT !.stage = "done", !.answer = answer, !.found = <<>>,
                                  !.after = 0, !.lines = <<>>, !.amount = 0]
  OBVIOUS
<1>1. DOMAIN calls[c] = CallFields
  BY DEF Rows
<1>2. /\ DOMAIN r = CallFields /\ r.request = calls[c].request /\ r.retry = calls[c].retry
      /\ r.stage = "done" /\ r.answer = answer
  BY <1>1 DEF CallFields
<1>3. calls' = [calls EXCEPT ![c] = r]
  BY DEF End
<1> QED BY <1>2, <1>3, MovesTo

\* A call that is answered, and neither ok nor as a duplicate, or that has not
\* come to its insert.
Settles(c) ==
  /\ c \in DOMAIN calls /\ calls[c].stage # "done"
  /\ \E stage, answer :
       /\ Moves(c, stage, answer)
       /\ \/ stage \in {"fetching", "opening", "checking"} /\ answer = calls[c].answer
          \/ stage = "done" /\ answer \notin {"none", "ok", "duplicate"}
  /\ UNCHANGED <<orders, payments, cache, lost>>

LEMMA EarlySettles ==
  ASSUME Rows(calls, CallFields), NEW c,
         FetchPage(c) \/ ReadOrder(c) \/ OpenSession(c) \/ Fail(c)
  PROVE  Settles(c)
<1>1. c \in DOMAIN calls /\ calls[c].stage # "done" /\ UNCHANGED <<orders, payments, cache, lost>>
  BY DEF FetchPage, ReadOrder, OpenSession, Fail, At
<1>2. ASSUME NEW answer, answer \notin {"none", "ok", "duplicate"}, End(c, answer)
      PROVE  Settles(c)
  <2>1. Moves(c, "done", answer)
    BY <1>1, <1>2, EndMoves
  <2> QED BY <1>1, <1>2, <2>1 DEF Settles
<1>3. ASSUME NEW r, calls' = [calls EXCEPT ![c] = r], DOMAIN r = CallFields,
             r.request = calls[c].request, r.retry = calls[c].retry,
             r.stage \in {"fetching", "opening", "checking"}, r.answer = calls[c].answer
      PROVE  Settles(c)
  <2>1. Moves(c, r.stage, r.answer)
    BY <1>1, <1>3, MovesTo
  <2> QED BY <1>1, <1>3, <2>1 DEF Settles
<1>4. DOMAIN calls[c] = CallFields
  BY <1>1 DEF Rows
<1>5. CASE FetchPage(c)
  <2> DEFINE items == calls[c].request.items
             page == SkuPage({items[i].sku : i \in DOMAIN items}, calls[c].after)
             found == Found(calls[c].found, page)
  <2>5. IF Called("product", "BatchGetSkus", Ctx(c)) # "handled" THEN End(c, "unauthenticated")
        ELSE IF NextPageToken(page) # 0
        THEN calls' = [calls EXCEPT ![c].found = found, ![c].after = NextPageToken(page)]
        ELSE IF ~Known(items, found) THEN End(c, "unknown sku")
        ELSE calls' = [calls EXCEPT ![c].stage = "checking", ![c].found = <<>>,
                                    ![c].after = 0, ![c].lines = Lines(items, found)]
    BY <1>5, Zenon DEF FetchPage
  <2> HIDE DEF items, page, found
  <2>1. CASE Called("product", "BatchGetSkus", Ctx(c)) # "handled"
    BY <1>2, <2>1, <2>5
  <2>2. CASE /\ Called("product", "BatchGetSkus", Ctx(c)) = "handled"
             /\ NextPageToken(page) # 0
    <3> PICK r : r = [calls[c] EXCEPT !.found = found, !.after = NextPageToken(page)]
      OBVIOUS
    <3>1. calls' = [calls EXCEPT ![c] = r]
      BY <2>2, <2>5
    <3>2. /\ DOMAIN r = CallFields /\ r.request = calls[c].request
          /\ r.retry = calls[c].retry /\ r.stage = calls[c].stage /\ r.answer = calls[c].answer
      BY <1>4 DEF CallFields
    <3>3. calls[c].stage = "fetching"
      BY <1>5 DEF FetchPage, At
    <3> QED BY <1>3, <3>1, <3>2, <3>3
  <2>3. CASE /\ Called("product", "BatchGetSkus", Ctx(c)) = "handled"
             /\ NextPageToken(page) = 0 /\ ~Known(items, found)
    BY <1>2, <2>3, <2>5
  <2>4. CASE /\ Called("product", "BatchGetSkus", Ctx(c)) = "handled"
             /\ NextPageToken(page) = 0 /\ Known(items, found)
    <3> PICK r : r = [calls[c] EXCEPT !.stage = "checking", !.found = <<>>, !.after = 0,
                                      !.lines = Lines(items, found)]
      OBVIOUS
    <3>1. calls' = [calls EXCEPT ![c] = r]
      BY <2>4, <2>5
    <3>2. /\ DOMAIN r = CallFields /\ r.request = calls[c].request
          /\ r.retry = calls[c].retry /\ r.stage = "checking" /\ r.answer = calls[c].answer
      BY <1>4 DEF CallFields
    <3> QED BY <1>3, <3>1, <3>2
  <2> QED BY <2>1, <2>2, <2>3, <2>4
<1>6. CASE ReadOrder(c)
  <2> PICK row : row = GetOrder(calls[c].request.order)
    OBVIOUS
  <2>1. CASE Called("order", "GetOrder", Ctx(c)) # "handled"
    BY <1>2, <1>6, <2>1 DEF ReadOrder
  <2>2. CASE /\ Called("order", "GetOrder", Ctx(c)) = "handled"
             /\ ~Decodes(row) \/ row.status # "pending"
    BY <1>2, <1>6, <2>2 DEF ReadOrder
  <2>3. CASE /\ Called("order", "GetOrder", Ctx(c)) = "handled"
             /\ ~(~Decodes(row) \/ row.status # "pending")
    <3> PICK r : r = [calls[c] EXCEPT !.stage = "opening", !.lines = row.lines]
      OBVIOUS
    <3>1. calls' = [calls EXCEPT ![c] = r]
      BY <1>6, <2>3 DEF ReadOrder
    <3>2. /\ DOMAIN r = CallFields /\ r.request = calls[c].request
          /\ r.retry = calls[c].retry /\ r.stage = "opening" /\ r.answer = calls[c].answer
      BY <1>4 DEF CallFields
    <3> QED BY <1>3, <3>1, <3>2
  <2> QED BY <2>1, <2>2, <2>3
<1>7. CASE OpenSession(c)
  <2> PICK amount : amount = AmountTotal(calls[c].lines)
    OBVIOUS
  <2>1. CASE End(c, "not payable")
    BY <1>2, <2>1
  <2>2. CASE ~End(c, "not payable")
    <3> PICK r : r = [calls[c] EXCEPT !.stage = "checking", !.amount = amount, !.lines = <<>>]
      OBVIOUS
    <3>1. calls' = [calls EXCEPT ![c] = r]
      BY <1>7, <2>2 DEF OpenSession
    <3>2. /\ DOMAIN r = CallFields /\ r.request = calls[c].request
          /\ r.retry = calls[c].retry /\ r.stage = "checking" /\ r.answer = calls[c].answer
      BY <1>4 DEF CallFields
    <3> QED BY <1>3, <3>1, <3>2
  <2> QED BY <2>1, <2>2
<1>8. CASE Fail(c)
  BY <1>2, <1>8 DEF Fail
<1> QED BY <1>5, <1>6, <1>7, <1>8
-----------------------------------------------------------------------------
(* One order for each key. *)

\* A transaction of CreateOrder that has inserted its row is the only one of
\* its key, and no committed order has the key.
KeyIsHeld ==
  \A c \in DOMAIN calls : Uncommitted(c) =>
    /\ ~TakenKey(c)
    /\ \A d \in DOMAIN calls : Uncommitted(d) /\ KeyOf(d) = KeyOf(c) => c = d

OnlyOrdersCommit == \A c \in DOMAIN calls : At(c, "committing") => Creates(c)

KeyInv ==
  /\ Rows(calls, CallFields) /\ Rows(orders, OrderFields)
  /\ OnlyOrdersCommit /\ KeyIsHeld /\ OneOrderPerKey

\* A call that does not hold its key afterwards takes none from another.
LEMMA KeyMoves ==
  ASSUME KeyInv, NEW c, NEW stage, NEW answer, Moves(c, stage, answer),
         stage # "committing" /\ (stage = "caching" => ~Creates(c)), UNCHANGED orders
  PROVE  KeyInv'
<1>1. /\ c \in DOMAIN calls /\ DOMAIN calls' = DOMAIN calls /\ Rows(calls', CallFields)
      /\ calls'[c].stage = stage
      /\ \A d \in DOMAIN calls : d # c => calls'[d] = calls[d]
  BY DEF Moves
<1>2. \A d \in DOMAIN calls : calls'[d].request = calls[d].request
  BY DEF Moves
<1>3. ~Uncommitted(c)'
  BY <1>1, <1>2 DEF Uncommitted, At, Creates
<1>4. \A d \in DOMAIN calls : Uncommitted(d)' => Uncommitted(d)
  BY <1>1, <1>2, <1>3 DEF Uncommitted, At, Creates
<1>5. KeyIsHeld'
  BY <1>1, <1>2, <1>4 DEF KeyInv, KeyIsHeld, TakenKey, KeyOf
<1>6. OnlyOrdersCommit'
  BY <1>1, <1>2 DEF KeyInv, OnlyOrdersCommit, At, Creates
<1>7. OneOrderPerKey' /\ Rows(orders', OrderFields)
  BY DEF KeyInv, OneOrderPerKey
<1> QED BY <1>1, <1>5, <1>6, <1>7 DEF KeyInv

\* The one call that takes its key holds it alone: nobody else does, and no
\* committed order has it.
LEMMA KeyTaken ==
  ASSUME KeyInv, NEW c, NEW answer, Moves(c, "caching", answer), Creates(c),
         ~WaitsForKey(c), ~TakenKey(c), UNCHANGED orders
  PROVE  KeyInv'
<1>1. /\ c \in DOMAIN calls /\ DOMAIN calls' = DOMAIN calls /\ Rows(calls', CallFields)
      /\ calls'[c].stage = "caching"
      /\ \A d \in DOMAIN calls : d # c => calls'[d] = calls[d]
  BY DEF Moves
<1>2. \A d \in DOMAIN calls : calls'[d].request = calls[d].request
  BY DEF Moves
<1>3. \A d \in DOMAIN calls : d # c /\ Uncommitted(d)' => Uncommitted(d)
  BY <1>1 DEF Uncommitted, At, Creates
<1>4. \A d \in DOMAIN calls : d # c /\ Uncommitted(d) => KeyOf(d) # KeyOf(c)
  BY <1>1 DEF WaitsForKey
<1>5. KeyIsHeld'
  <2>1. ASSUME NEW d \in DOMAIN calls, NEW e \in DOMAIN calls, d # e,
               Uncommitted(d)', Uncommitted(e)'
        PROVE  KeyOf(d) # KeyOf(e)
    <3>1. CASE d # c /\ e # c
      BY <1>3, <2>1, <3>1 DEF KeyInv, KeyIsHeld
    <3>2. CASE d = c \/ e = c
      BY <1>3, <1>4, <2>1, <3>2
    <3> QED BY <3>1, <3>2
  <2>2. \A d \in DOMAIN calls : Uncommitted(d)' => ~TakenKey(d)
    BY <1>3 DEF KeyInv, KeyIsHeld
  <2>3. \A d \in DOMAIN calls : KeyOf(d)' = KeyOf(d) /\ (TakenKey(d)' <=> TakenKey(d))
    BY <1>2 DEF KeyOf, TakenKey
  <2> QED BY <1>1, <2>1, <2>2, <2>3 DEF KeyIsHeld
<1>6. OnlyOrdersCommit'
  BY <1>1, <1>2 DEF KeyInv, OnlyOrdersCommit, At, Creates
<1>7. OneOrderPerKey' /\ Rows(orders', OrderFields)
  BY DEF KeyInv, OneOrderPerKey
<1> QED BY <1>1, <1>5, <1>6, <1>7 DEF KeyInv

LEMMA KeyGoesOn ==
  ASSUME KeyInv, NEW c, NEW answer, Moves(c, "committing", answer), Creates(c),
         At(c, "caching"), UNCHANGED orders
  PROVE  KeyInv'
<1>1. /\ c \in DOMAIN calls /\ DOMAIN calls' = DOMAIN calls /\ Rows(calls', CallFields)
      /\ \A d \in DOMAIN calls : d # c => calls'[d] = calls[d]
      /\ \A d \in DOMAIN calls : calls'[d].request = calls[d].request
  BY DEF Moves
<1>2. \A d \in DOMAIN calls : Uncommitted(d)' => Uncommitted(d)
  BY <1>1 DEF Uncommitted, At, Creates
<1>3. KeyIsHeld'
  BY <1>1, <1>2 DEF KeyInv, KeyIsHeld, TakenKey, KeyOf
<1>4. OnlyOrdersCommit'
  BY <1>1 DEF KeyInv, OnlyOrdersCommit, At, Creates
<1>5. OneOrderPerKey' /\ Rows(orders', OrderFields)
  BY DEF KeyInv, OneOrderPerKey
<1> QED BY <1>1, <1>3, <1>4, <1>5 DEF KeyInv

LEMMA KeyCommitted ==
  ASSUME KeyInv, NEW c, CommitOrder(c)
  PROVE  KeyInv'
<1> PICK row : row = [key |-> KeyOf(c), user |-> Ctx(c).user, lines |-> calls[c].lines,
                      total |-> Total(calls[c].lines), status |-> "pending"]
  OBVIOUS
<1>1. c \in DOMAIN calls /\ orders' = Append(orders, row) /\ End(c, "ok") /\ At(c, "committing")
  BY DEF CommitOrder, At
<1>2. row.key = KeyOf(c) /\ DOMAIN row = OrderFields
  BY DEF OrderFields
<1>3. /\ Rows(orders', OrderFields) /\ DOMAIN orders' = DOMAIN orders \cup {Len(orders) + 1}
      /\ orders'[Len(orders) + 1] = row /\ \A o \in DOMAIN orders : orders'[o] = orders[o]
  <2>1. Rows(orders, OrderFields)
    BY DEF KeyInv
  <2>2. Rows(Append(orders, row), OrderFields) /\ Grows(orders, Append(orders, row), row)
    BY <1>2, <2>1, RowsAppend
  <2> QED BY <1>1, <2>2 DEF Grows
<1>4. Moves(c, "done", "ok")
  BY <1>1, EndMoves DEF KeyInv
<1>5. /\ DOMAIN calls' = DOMAIN calls /\ Rows(calls', CallFields)
      /\ \A d \in DOMAIN calls : d # c => calls'[d] = calls[d]
      /\ \A d \in DOMAIN calls : calls'[d].request = calls[d].request
      /\ calls'[c].stage = "done"
  BY <1>4 DEF Moves
<1>6. Uncommitted(c) /\ ~TakenKey(c)
  BY <1>1 DEF KeyInv, OnlyOrdersCommit, KeyIsHeld, Uncommitted
<1>7. OneOrderPerKey'
  <2>1. \A o \in DOMAIN orders : orders[o].key # row.key
    BY <1>2, <1>6 DEF TakenKey
  <2> QED BY <1>3, <2>1 DEF KeyInv, OneOrderPerKey
<1>8. \A d \in DOMAIN calls : Uncommitted(d)' => Uncommitted(d) /\ d # c
  BY <1>5 DEF Uncommitted, At, Creates
<1>9. KeyIsHeld'
  <2>1. ASSUME NEW d \in DOMAIN calls, Uncommitted(d)' PROVE ~TakenKey(d)'
    <3>1. KeyOf(d) # KeyOf(c) /\ ~TakenKey(d) /\ KeyOf(d)' = KeyOf(d)
      BY <1>1, <1>5, <1>6, <1>8, <2>1 DEF KeyInv, KeyIsHeld, KeyOf
    <3> QED BY <1>2, <1>3, <3>1 DEF TakenKey
  <2>2. \A d \in DOMAIN calls : KeyOf(d)' = KeyOf(d)
    BY <1>5 DEF KeyOf
  <2> QED BY <1>5, <1>8, <2>1, <2>2 DEF KeyInv, KeyIsHeld
<1>10. OnlyOrdersCommit'
  BY <1>5 DEF KeyInv, OnlyOrdersCommit, At, Creates
<1> QED BY <1>3, <1>5, <1>7, <1>9, <1>10 DEF KeyInv

\* A request that comes in is another row, in its first stage or refused.
Arrives(w) ==
  /\ Rows(calls', CallFields)
  /\ DOMAIN calls' = DOMAIN calls \cup {Len(calls) + 1} /\ Len(calls) + 1 \notin DOMAIN calls
  /\ \A d \in DOMAIN calls : calls'[d] = calls[d]
  /\ LET n == calls'[Len(calls) + 1] IN
       /\ n.request = w
       /\ n.retry = \E d \in DOMAIN calls : Pays(d) /\ KeyOf(d) = w.key /\ calls[d].answer = "ok"
       /\ \/ n.stage = "done" /\ n.answer \notin {"none", "ok", "duplicate"}
          \/ n.stage \in {"fetching", "reading"} /\ n.answer = "none"

LEMMA ReceiveArrives ==
  ASSUME Rows(calls, CallFields), NEW w \in Wanted, Receive(w)
  PROVE  Arrives(w) /\ UNCHANGED <<orders, payments, cache, lost>>
<1> PICK r : r = [request |-> w, answer |-> Entry(w), after |-> 0, found |-> <<>>, lines |-> <<>>,
        amount |-> 0,
        stage |-> IF Entry(w) # "none" THEN "done"
                  ELSE IF w.procedure = "CreateOrder" THEN "fetching" ELSE "reading",
        retry |-> \E c \in DOMAIN calls : Pays(c) /\ KeyOf(c) = w.key /\ calls[c].answer = "ok"]
  OBVIOUS
<1>1. calls' = Append(calls, r) /\ UNCHANGED <<orders, payments, cache, lost>>
  BY Zenon DEF Receive
<1>2. Entry(w) \in {"no content", "not found", "unauthenticated", "invalid", "none"}
  BY DEF Entry, CORSFilter
<1>3. DOMAIN r = CallFields
  BY DEF CallFields
<1>4. /\ r.request = w
      /\ r.retry = \E d \in DOMAIN calls : Pays(d) /\ KeyOf(d) = w.key /\ calls[d].answer = "ok"
      /\ r.answer = Entry(w)
      /\ r.stage = IF Entry(w) # "none" THEN "done"
                   ELSE IF w.procedure = "CreateOrder" THEN "fetching" ELSE "reading"
  OBVIOUS
<1>5. /\ Rows(calls', CallFields)
      /\ DOMAIN calls' = DOMAIN calls \cup {Len(calls) + 1}
      /\ Len(calls) + 1 \notin DOMAIN calls
      /\ calls'[Len(calls) + 1] = r
      /\ \A d \in DOMAIN calls : calls'[d] = calls[d]
  <2>1. Rows(Append(calls, r), CallFields) /\ Grows(calls, Append(calls, r), r)
    BY <1>3, RowsAppend
  <2> QED BY <1>1, <2>1 DEF Grows
<1> QED BY <1>1, <1>2, <1>4, <1>5 DEF Arrives

LEMMA KeyReceive ==
  ASSUME KeyInv, NEW w \in Wanted, Receive(w)
  PROVE  KeyInv'
<1> PICK n : n = Len(calls) + 1
  OBVIOUS
<1>1. /\ Rows(calls', CallFields)
      /\ DOMAIN calls' = DOMAIN calls \cup {n}
      /\ \A d \in DOMAIN calls : calls'[d] = calls[d]
      /\ calls'[n].stage \in {"done", "fetching", "reading"} /\ UNCHANGED orders
  BY ReceiveArrives DEF KeyInv, Arrives
<1>2. \A d \in DOMAIN calls' : Uncommitted(d)' => d \in DOMAIN calls /\ Uncommitted(d)
  BY <1>1 DEF Uncommitted, At, Creates
<1>3. KeyIsHeld'
  BY <1>1, <1>2 DEF KeyInv, KeyIsHeld, TakenKey, KeyOf
<1>4. OnlyOrdersCommit'
  BY <1>1 DEF KeyInv, OnlyOrdersCommit, At, Creates
<1>5. OneOrderPerKey' /\ Rows(orders', OrderFields)
  BY <1>1 DEF KeyInv, OneOrderPerKey
<1> QED BY <1>1, <1>3, <1>4, <1>5 DEF KeyInv

\* Cancelling leaves every order its key.
LEMMA CancelKeeps ==
  ASSUME Rows(orders, OrderFields), NEW o \in DOMAIN orders, CancelOrder(o)
  PROVE  /\ Rows(orders', OrderFields) /\ DOMAIN orders' = DOMAIN orders
         /\ \A p \in DOMAIN orders : orders'[p].key = orders[p].key
<1> PICK row : row = [orders[o] EXCEPT !.status = "cancelled"]
  OBVIOUS
<1>1. orders' = [orders EXCEPT ![o] = row]
  BY DEF CancelOrder
<1>2. DOMAIN row = OrderFields /\ row.key = orders[o].key
  BY DEF Rows, OrderFields
<1>3. Rows(orders', OrderFields)
  BY <1>1, <1>2, RowsExcept
<1> QED BY <1>1, <1>2, <1>3

LEMMA KeyStep ==
  ASSUME KeyInv, [PurchaseNext]_purchaseVars
  PROVE  KeyInv'
<1>0. Rows(calls, CallFields) /\ Rows(orders, OrderFields)
  BY DEF KeyInv
<1>1. ASSUME NEW w \in Wanted, Receive(w) PROVE KeyInv'
  BY <1>1, KeyReceive
<1>2. ASSUME NEW c, FetchPage(c) \/ ReadOrder(c) \/ OpenSession(c) \/ Fail(c) PROVE KeyInv'
  <2>1. Settles(c)
    BY <1>0, <1>2, EarlySettles
  <2> QED BY <2>1, KeyMoves DEF Settles
<1>3. ASSUME NEW c, CheckCache(c) PROVE KeyInv'
  <2>1. c \in DOMAIN calls /\ (End(c, "duplicate") \/ Goto(c, "inserting")) /\ UNCHANGED orders
    BY <1>3 DEF CheckCache, At
  <2>2. Moves(c, "done", "duplicate") \/ Moves(c, "inserting", calls[c].answer)
    BY <1>0, <2>1, EndMoves, GotoMoves
  <2> QED BY <2>1, <2>2, KeyMoves
<1>4. ASSUME NEW c, InsertOrder(c) PROVE KeyInv'
  <2>1. c \in DOMAIN calls /\ Creates(c) /\ ~WaitsForKey(c) /\ UNCHANGED orders
    BY <1>4 DEF InsertOrder, At
  <2>2. CASE TakenKey(c)
    <3>1. Moves(c, "done", "duplicate")
      BY <1>0, <1>4, <2>1, <2>2, EndMoves DEF InsertOrder
    <3> QED BY <2>1, <3>1, KeyMoves
  <2>3. CASE ~TakenKey(c)
    <3>1. Moves(c, "caching", calls[c].answer)
      BY <1>0, <1>4, <2>1, <2>3, GotoMoves DEF InsertOrder
    <3> QED BY <2>1, <2>3, <3>1, KeyTaken
  <2> QED BY <2>2, <2>3
<1>5. ASSUME NEW c, InsertPayment(c) PROVE KeyInv'
  <2>1. c \in DOMAIN calls /\ ~Creates(c) /\ Goto(c, "caching") /\ UNCHANGED orders
    BY <1>5 DEF InsertPayment, At, Pays, Creates
  <2>2. Moves(c, "caching", calls[c].answer)
    BY <1>0, <2>1, GotoMoves
  <2> QED BY <2>1, <2>2, KeyMoves
<1>6. ASSUME NEW c, SetCache(c) PROVE KeyInv'
  <2>1. c \in DOMAIN calls /\ At(c, "caching") /\ UNCHANGED orders
    BY <1>6 DEF SetCache, At
  <2>2. CASE Creates(c)
    <3>1. Moves(c, "committing", calls[c].answer)
      BY <1>0, <1>6, <2>1, <2>2, GotoMoves DEF SetCache
    <3> QED BY <2>1, <2>2, <3>1, KeyGoesOn
  <2>3. CASE ~Creates(c)
    <3>1. Moves(c, "done", "ok")
      BY <1>0, <1>6, <2>1, <2>3, EndMoves DEF SetCache
    <3> QED BY <2>1, <3>1, KeyMoves
  <2> QED BY <2>2, <2>3
<1>7. ASSUME NEW c, CommitOrder(c) PROVE KeyInv'
  BY <1>7, KeyCommitted
<1>8. CASE UNCHANGED <<calls, orders>>
  BY <1>8 DEF KeyInv, OnlyOrdersCommit, KeyIsHeld, OneOrderPerKey, Uncommitted, At, Creates,
              TakenKey, KeyOf
<1>9. ASSUME NEW o \in DOMAIN orders, CancelOrder(o) PROVE KeyInv'
  <2>1. UNCHANGED calls
    BY <1>9 DEF CancelOrder
  <2>2. /\ Rows(orders', OrderFields) /\ DOMAIN orders' = DOMAIN orders
        /\ \A p \in DOMAIN orders : orders'[p].key = orders[p].key
    BY <1>0, <1>9, CancelKeeps
  <2> QED BY <2>1, <2>2 DEF KeyInv, OnlyOrdersCommit, KeyIsHeld, OneOrderPerKey, Uncommitted,
                            At, Creates, TakenKey, KeyOf
<1> QED BY <1>1, <1>2, <1>3, <1>4, <1>5, <1>6, <1>7, <1>8, <1>9
        DEF PurchaseNext, Serve, Expire, UpdatePrice, purchaseVars

LEMMA EmptyRows ==
  ASSUME NEW fields
  PROVE  Rows(<<>>, fields)
BY EmptySeq DEF Rows

\* However requests with one idempotency key overlap, fail or are sent again,
\* at most one order has the key.
THEOREM KeysMakeOneOrder == PurchaseSpec => []OneOrderPerKey
<1>1. PurchaseInit => KeyInv
  BY EmptyRows DEF PurchaseInit, KeyInv, OnlyOrdersCommit, KeyIsHeld, OneOrderPerKey
<1>2. KeyInv /\ [PurchaseNext]_purchaseVars => KeyInv'
  BY KeyStep
<1>3. KeyInv => OneOrderPerKey
  BY DEF KeyInv
<1> QED BY <1>1, <1>2, <1>3, PTL DEF PurchaseSpec
-----------------------------------------------------------------------------
(* What was made stays made, and is remembered. *)

HasOrder(k) == \E o \in DOMAIN orders : orders[o].key = k
HasPayment(k) == \E row \in payments : row.key = k
Remembered(k) == k \in lost \/ Looked(k) \in cache

\* A step leaves what other calls rest on.
Keeps ==
  \A k : /\ HasOrder(k) => HasOrder(k)'
         /\ HasPayment(k) => HasPayment(k)'
         /\ Remembered(k) => Remembered(k)'
         /\ k \in lost => k \in lost'

\* The steps of a call from the look-up of its key on.
Checks(c) ==
  /\ calls[c].stage = "checking"
  /\ \/ Looked(KeyOf(c)) \in cache /\ Moves(c, "done", "duplicate")
     \/ Moves(c, "inserting", calls[c].answer) /\ (Remembered(KeyOf(c)) => KeyOf(c) \in lost')
  /\ UNCHANGED <<payments, cache>>

Inserts(c) ==
  /\ calls[c].stage = "inserting"
  /\ \/ HasOrder(KeyOf(c)) /\ Moves(c, "done", "duplicate")
     \/ Creates(c) /\ Moves(c, "caching", calls[c].answer)
  /\ UNCHANGED <<payments, cache>>

Records(c) ==
  /\ calls[c].stage = "inserting" /\ ~Creates(c) /\ Moves(c, "caching", calls[c].answer)
  /\ \E row : row.call = c /\ row.key = KeyOf(c) /\ payments' = payments \cup {row}
  /\ UNCHANGED cache

Caches(c) ==
  /\ calls[c].stage = "caching"
  /\ \/ Creates(c) /\ Moves(c, "committing", calls[c].answer)
     \/ ~Creates(c) /\ Moves(c, "done", "ok") /\ Remembered(KeyOf(c))'
  /\ \A k : Looked(k) \in cache' => Looked(k) \in cache \/ (k = KeyOf(c) /\ ~Creates(c))
  /\ UNCHANGED payments

Commits(c) ==
  /\ calls[c].stage = "committing" /\ Creates(c) /\ Moves(c, "done", "ok")
  /\ UNCHANGED <<payments, cache>>

Effect ==
  \/ \E w \in Wanted : Arrives(w) /\ UNCHANGED <<payments, cache>>
  \/ \E c \in DOMAIN calls :
       Settles(c) \/ Checks(c) \/ Inserts(c) \/ Records(c) \/ Caches(c) \/ Commits(c)
  \/ UNCHANGED <<calls, payments>> /\ cache' \subseteq cache

LEMMA EffectOfStep ==
  ASSUME KeyInv, [PurchaseNext]_purchaseVars
  PROVE  Effect /\ Keeps
<1>0. Rows(calls, CallFields) /\ Rows(orders, OrderFields)
  BY DEF KeyInv
<1>k. ASSUME UNCHANGED orders, payments \subseteq payments', cache \subseteq cache',
             lost \subseteq lost'
      PROVE  Keeps
  BY <1>k DEF Keeps, HasOrder, HasPayment, Remembered
<1>1. ASSUME NEW w \in Wanted, Receive(w) PROVE Effect /\ Keeps
  <2>1. Arrives(w) /\ UNCHANGED <<orders, payments, cache, lost>>
    BY <1>0, <1>1, ReceiveArrives
  <2> QED BY <1>k, <2>1 DEF Effect
<1>2. ASSUME NEW c, FetchPage(c) \/ ReadOrder(c) \/ OpenSession(c) \/ Fail(c)
      PROVE  Effect /\ Keeps
  <2>1. Settles(c)
    BY <1>0, <1>2, EarlySettles
  <2>2. c \in DOMAIN calls /\ UNCHANGED <<orders, payments, cache, lost>>
    BY <2>1 DEF Settles
  <2> QED BY <1>k, <2>1, <2>2 DEF Effect
<1>3. ASSUME NEW c, CheckCache(c) PROVE Effect /\ Keeps
  <2>1. c \in DOMAIN calls /\ calls[c].stage = "checking"
        /\ UNCHANGED <<orders, payments, cache>>
    BY <1>3 DEF CheckCache, At
  <2>2. CASE Looked(KeyOf(c)) \in cache /\ End(c, "duplicate") /\ UNCHANGED lost
    <3>1. Moves(c, "done", "duplicate")
      BY <1>0, <2>1, <2>2, EndMoves
    <3> QED BY <1>k, <2>1, <2>2, <3>1 DEF Effect, Checks
  <2>3. CASE /\ Goto(c, "inserting")
             /\ lost' = IF Looked(KeyOf(c)) \in cache THEN lost \cup {KeyOf(c)} ELSE lost
    <3>1. Moves(c, "inserting", calls[c].answer)
      BY <1>0, <2>1, <2>3, GotoMoves
    <3>2. lost \subseteq lost' /\ (Remembered(KeyOf(c)) => KeyOf(c) \in lost')
      BY <2>3 DEF Remembered
    <3> QED BY <1>k, <2>1, <3>1, <3>2 DEF Effect, Checks
  <2> QED BY <1>3, <2>2, <2>3 DEF CheckCache
<1>4. ASSUME NEW c, InsertOrder(c) PROVE Effect /\ Keeps
  <2>1. c \in DOMAIN calls /\ calls[c].stage = "inserting" /\ Creates(c)
        /\ UNCHANGED <<orders, payments, cache, lost>>
    BY <1>4 DEF InsertOrder, At
  <2>2. CASE TakenKey(c)
    <3>1. Moves(c, "done", "duplicate")
      BY <1>0, <1>4, <2>1, <2>2, EndMoves DEF InsertOrder
    <3>2. HasOrder(KeyOf(c))
      BY <2>2 DEF TakenKey, HasOrder
    <3> QED BY <1>k, <2>1, <3>1, <3>2 DEF Effect, Inserts
  <2>3. CASE ~TakenKey(c)
    <3>1. Moves(c, "caching", calls[c].answer)
      BY <1>0, <1>4, <2>1, <2>3, GotoMoves DEF InsertOrder
    <3> QED BY <1>k, <2>1, <3>1 DEF Effect, Inserts
  <2> QED BY <2>2, <2>3
<1>5. ASSUME NEW c, InsertPayment(c) PROVE Effect /\ Keeps
  <2> PICK row : row = [call |-> c, key |-> KeyOf(c), order |-> calls[c].request.order,
                        user |-> Ctx(c).user, amount |-> calls[c].amount]
    OBVIOUS
  <2>1. c \in DOMAIN calls /\ calls[c].stage = "inserting" /\ ~Creates(c)
        /\ Goto(c, "caching") /\ UNCHANGED <<orders, cache, lost>>
    BY <1>5 DEF InsertPayment, At, Pays, Creates
  <2>2. payments' = payments \cup {row} /\ row.call = c /\ row.key = KeyOf(c)
    BY <1>5 DEF InsertPayment
  <2>3. Moves(c, "caching", calls[c].answer)
    BY <1>0, <2>1, GotoMoves
  <2>4. Records(c)
    BY <2>1, <2>2, <2>3 DEF Records
  <2> QED BY <1>k, <2>1, <2>2, <2>4 DEF Effect
<1>6. ASSUME NEW c, SetCache(c) PROVE Effect /\ Keeps
  <2>1. c \in DOMAIN calls /\ calls[c].stage = "caching" /\ UNCHANGED <<orders, payments>>
        /\ cache \subseteq cache' /\ lost \subseteq lost'
    BY <1>6 DEF SetCache, At
  <2>2. CASE Creates(c)
    <3>1. Moves(c, "committing", calls[c].answer)
      BY <1>0, <1>6, <2>1, <2>2, GotoMoves DEF SetCache
    <3>2. \A k : Looked(k) \in cache' => Looked(k) \in cache \/ (k = KeyOf(c) /\ ~Creates(c))
      <4> PICK entry : entry = OrderEntry(KeyOf(c))
        OBVIOUS
      <4>1. cache' \subseteq cache \cup {entry}
        BY <1>6, <2>2 DEF SetCache
      <4>2. \A k : Looked(k) # entry
        BY DEF Looked, OrderEntry
      <4>3. ASSUME NEW k, Looked(k) \in cache' PROVE Looked(k) \in cache
        BY <4>1, <4>2, <4>3
      <4> QED BY <4>3
    <3>3. Caches(c)
      BY <2>1, <2>2, <3>1, <3>2, Zenon DEF Caches
    <3> QED BY <1>k, <2>1, <3>3 DEF Effect
  <2>3. CASE ~Creates(c)
    <3>1. Moves(c, "done", "ok")
      BY <1>0, <1>6, <2>1, <2>3, EndMoves DEF SetCache
    <3>2. \A k : Looked(k) \in cache' => Looked(k) \in cache \/ k = KeyOf(c)
      <4>1. cache' \subseteq cache \cup {PaymentEntry(KeyOf(c))}
        BY <1>6, <2>3 DEF SetCache
      <4>2. \A k : Looked(k) = PaymentEntry(KeyOf(c)) => k = KeyOf(c)
        BY DEF Looked, PaymentEntry
      <4> QED BY <4>1, <4>2
    <3>3. Remembered(KeyOf(c))'
      <4>1. KeyOf(c) \in lost' \/ Looked(KeyOf(c)) \in cache'
        BY <1>6, <2>3 DEF SetCache, PaymentEntry, Looked
      <4>2. KeyOf(c)' = KeyOf(c)
        BY <2>1, <3>1 DEF Moves, KeyOf
      <4> QED BY <4>1, <4>2 DEF Remembered, Looked
    <3>4. Caches(c)
      BY <2>1, <2>3, <3>1, <3>2, <3>3 DEF Caches
    <3> QED BY <1>k, <2>1, <3>4 DEF Effect
  <2> QED BY <2>2, <2>3
<1>7. ASSUME NEW c, CommitOrder(c) PROVE Effect /\ Keeps
  <2> PICK row : row = [key |-> KeyOf(c), user |-> Ctx(c).user, lines |-> calls[c].lines,
                        total |-> Total(calls[c].lines), status |-> "pending"]
    OBVIOUS
  <2>1. c \in DOMAIN calls /\ calls[c].stage = "committing" /\ End(c, "ok")
        /\ orders' = Append(orders, row) /\ UNCHANGED <<payments, cache, lost>>
    BY <1>7 DEF CommitOrder, At
  <2>2. Moves(c, "done", "ok") /\ Creates(c)
    BY <1>0, <2>1, EndMoves DEF KeyInv, OnlyOrdersCommit, At
  <2>3. DOMAIN row = OrderFields
    BY DEF OrderFields
  <2>4. Grows(orders, Append(orders, row), row)
    BY <1>0, <2>3, RowsAppend
  <2>5. Keeps
    BY <2>1, <2>4 DEF Keeps, HasOrder, HasPayment, Remembered, Grows
  <2> QED BY <2>1, <2>2, <2>5 DEF Effect, Commits
<1>8. ASSUME NEW k \in Key, Expire(k) PROVE Effect /\ Keeps
  <2>1. UNCHANGED <<calls, orders, payments>> /\ cache' = cache \ {Looked(k)}
        /\ lost' = lost \cup {k}
    BY <1>8 DEF Expire
  <2>2. Keeps
    BY <2>1 DEF Keeps, HasOrder, HasPayment, Remembered, Looked
  <2> QED BY <2>1, <2>2 DEF Effect
<1>9. CASE UNCHANGED <<calls, orders, payments, cache, lost>>
  BY <1>k, <1>9 DEF Effect
<1>10. ASSUME NEW o \in DOMAIN orders, CancelOrder(o) PROVE Effect /\ Keeps
  <2>1. UNCHANGED <<calls, payments, cache, lost>>
    BY <1>10 DEF CancelOrder
  <2>2. DOMAIN orders' = DOMAIN orders /\ \A p \in DOMAIN orders : orders'[p].key = orders[p].key
    BY <1>0, <1>10, CancelKeeps
  <2>3. Keeps
    BY <2>1, <2>2 DEF Keeps, HasOrder, HasPayment, Remembered
  <2> QED BY <2>1, <2>3 DEF Effect
<1> QED BY <1>1, <1>2, <1>3, <1>4, <1>5, <1>6, <1>7, <1>8, <1>9, <1>10
        DEF PurchaseNext, Serve, UpdatePrice, purchaseVars
-----------------------------------------------------------------------------
(* A duplicate is one. *)

\* An entry that is looked for was written for a payment, as is the one a
\* CreatePayment is about to write.
DuplicateInv ==
  /\ KeyInv
  /\ \A k : Looked(k) \in cache => HasPayment(k)
  /\ \A c \in DOMAIN calls : calls[c].stage = "caching" /\ ~Creates(c) => HasPayment(KeyOf(c))
  /\ \A c \in DOMAIN calls :
       calls[c].answer = "duplicate" => HasOrder(KeyOf(c)) \/ HasPayment(KeyOf(c))

LEMMA DuplicateStep ==
  ASSUME DuplicateInv, [PurchaseNext]_purchaseVars
  PROVE  DuplicateInv'
<1> USE DEF DuplicateInv
<1>1. KeyInv'
  BY KeyStep
<1>2. Effect /\ Keeps
  BY EffectOfStep
<1>3. \A k : /\ HasOrder(k) => HasOrder(k)'
             /\ HasPayment(k) => HasPayment(k)'
  BY <1>2 DEF Keeps
<1>4. ASSUME NEW c, NEW stage, NEW answer, Moves(c, stage, answer),
             \A k : Looked(k) \in cache' => HasPayment(k)',
             stage = "caching" /\ ~Creates(c) => HasPayment(KeyOf(c))',
             answer = "duplicate" => answer = calls[c].answer \/ HasOrder(KeyOf(c)) \/ HasPayment(KeyOf(c))
      PROVE  DuplicateInv'
  <2>1. /\ c \in DOMAIN calls /\ DOMAIN calls' = DOMAIN calls
        /\ calls'[c].stage = stage /\ calls'[c].answer = answer
        /\ \A d \in DOMAIN calls : d # c => calls'[d] = calls[d]
    BY <1>4 DEF Moves
  <2>2. \A d \in DOMAIN calls : KeyOf(d)' = KeyOf(d) /\ (Creates(d)' <=> Creates(d))
    BY <1>4 DEF Moves, KeyOf, Creates
  <2>3. ASSUME NEW d \in DOMAIN calls', calls'[d].stage = "caching", ~Creates(d)'
        PROVE  HasPayment(KeyOf(d))'
    <3>1. HasPayment(KeyOf(d)) => HasPayment(KeyOf(d))'
      BY <1>3, <2>1, <2>2, <2>3 DEF HasPayment
    <3> QED BY <1>4, <2>1, <2>2, <2>3, <3>1
  <2>4. ASSUME NEW d \in DOMAIN calls', calls'[d].answer = "duplicate"
        PROVE  HasOrder(KeyOf(d))' \/ HasPayment(KeyOf(d))'
    <3>1. HasOrder(KeyOf(d)) \/ HasPayment(KeyOf(d))
      BY <1>4, <2>1, <2>4
    <3> QED BY <1>3, <2>1, <2>2, <3>1 DEF HasOrder, HasPayment
  <2> QED BY <1>1, <1>4, <2>3, <2>4
<1>5. cache' \subseteq cache => \A k : Looked(k) \in cache' => HasPayment(k)'
  BY <1>3
<1>6. CASE \E w \in Wanted : Arrives(w) /\ UNCHANGED <<payments, cache>>
  <2> PICK w \in Wanted : Arrives(w) /\ UNCHANGED <<payments, cache>>
    BY <1>6
  <2> PICK n : n = Len(calls) + 1
    OBVIOUS
  <2>1. /\ DOMAIN calls' = DOMAIN calls \cup {n}
        /\ \A d \in DOMAIN calls : calls'[d] = calls[d]
        /\ calls'[n].stage # "caching" /\ calls'[n].answer # "duplicate"
    BY DEF Arrives
  <2>2. \A d \in DOMAIN calls : KeyOf(d)' = KeyOf(d) /\ (Creates(d)' <=> Creates(d))
    BY <2>1 DEF KeyOf, Creates
  <2>3. ASSUME NEW d \in DOMAIN calls', calls'[d].stage = "caching", ~Creates(d)'
        PROVE  HasPayment(KeyOf(d))'
    BY <1>3, <2>1, <2>2, <2>3 DEF HasPayment
  <2>4. ASSUME NEW d \in DOMAIN calls', calls'[d].answer = "duplicate"
        PROVE  HasOrder(KeyOf(d))' \/ HasPayment(KeyOf(d))'
    <3>1. d \in DOMAIN calls /\ (HasOrder(KeyOf(d)) \/ HasPayment(KeyOf(d)))
      BY <2>1, <2>4
    <3> QED BY <1>3, <2>2, <3>1 DEF HasOrder, HasPayment
  <2> QED BY <1>1, <1>5, <2>3, <2>4
<1>7. ASSUME NEW c \in DOMAIN calls, Settles(c) PROVE DuplicateInv'
  <2>1. cache' = cache
    BY <1>7 DEF Settles
  <2> QED BY <1>4, <1>5, <1>7, <2>1 DEF Settles
<1>8. ASSUME NEW c \in DOMAIN calls, Checks(c) PROVE DuplicateInv'
  <2>1. cache' = cache
    BY <1>8 DEF Checks
  <2> QED BY <1>4, <1>5, <1>8, <2>1 DEF Checks
<1>9. ASSUME NEW c \in DOMAIN calls, Inserts(c) PROVE DuplicateInv'
  <2>1. cache' = cache
    BY <1>9 DEF Inserts
  <2> QED BY <1>4, <1>5, <1>9, <2>1 DEF Inserts
<1>10. ASSUME NEW c \in DOMAIN calls, Records(c) PROVE DuplicateInv'
  <2>1. cache' = cache /\ Moves(c, "caching", calls[c].answer)
    BY <1>10 DEF Records
  <2>2. KeyOf(c)' = KeyOf(c)
    BY <2>1 DEF Moves, KeyOf
  <2>3. HasPayment(KeyOf(c))'
    BY <1>10, <2>2 DEF Records, HasPayment
  <2> QED BY <1>4, <1>5, <2>1, <2>3
<1>11. ASSUME NEW c \in DOMAIN calls, Caches(c) PROVE DuplicateInv'
  <2>1. \A k : Looked(k) \in cache' => HasPayment(k)'
    BY <1>3, <1>11 DEF Caches
  <2> QED BY <1>4, <1>11, <2>1 DEF Caches
<1>12. ASSUME NEW c \in DOMAIN calls, Commits(c) PROVE DuplicateInv'
  <2>1. cache' = cache
    BY <1>12 DEF Commits
  <2> QED BY <1>4, <1>5, <1>12, <2>1 DEF Commits
<1>13. CASE UNCHANGED <<calls, payments>> /\ cache' \subseteq cache
  <2>1. \A d : KeyOf(d)' = KeyOf(d) /\ (Creates(d)' <=> Creates(d))
    BY <1>13 DEF KeyOf, Creates
  <2>2. \A d : (HasOrder(KeyOf(d)) => HasOrder(KeyOf(d))')
               /\ (HasPayment(KeyOf(d)) => HasPayment(KeyOf(d))')
    BY <1>3, <2>1 DEF HasOrder, HasPayment
  <2> QED BY <1>1, <1>5, <1>13, <2>1, <2>2
<1> QED BY <1>2, <1>6, <1>7, <1>8, <1>9, <1>10, <1>11, <1>12, <1>13 DEF Effect

\* Only a key that an order or a payment was made with is refused as a
\* duplicate, whatever was rolled back.
THEOREM DuplicatesWereMade == PurchaseSpec => []DuplicateWasMade
<1>1. PurchaseInit => DuplicateInv
  BY EmptyRows DEF PurchaseInit, DuplicateInv, KeyInv, OnlyOrdersCommit, KeyIsHeld, OneOrderPerKey
<1>2. DuplicateInv /\ [PurchaseNext]_purchaseVars => DuplicateInv'
  BY DuplicateStep
<1>3. DuplicateInv => DuplicateWasMade
  BY DEF DuplicateInv, DuplicateWasMade, HasOrder, HasPayment
<1> QED BY <1>1, <1>2, <1>3, PTL DEF PurchaseSpec
-----------------------------------------------------------------------------
(* A payment that was answered is remembered. *)

\* The key of a payment answered ok is in Redis, or Redis failed it; a retry of
\* one gets to its insert only in the second case.
RememberedInv ==
  /\ KeyInv
  /\ \A c \in DOMAIN calls :
       /\ calls[c].stage # "done" => calls[c].answer = "none"
       /\ calls[c].answer = "ok" /\ Pays(c) => Remembered(KeyOf(c))
       /\ calls[c].retry => Remembered(KeyOf(c))
       /\ calls[c].retry /\ calls[c].stage = "inserting" => KeyOf(c) \in lost
  /\ \A row \in payments : row.call \in DOMAIN calls /\ row.key = KeyOf(row.call)
  /\ RetryRecordsNoSecondRow

\* Only call c, when it inserts, adds payments.
Pay(c) ==
  \A row \in payments' :
    \/ row \in payments
    \/ row.call = c /\ row.key = KeyOf(c) /\ calls[c].stage = "inserting"

LEMMA RememberedMoves ==
  ASSUME RememberedInv, KeyInv', Keeps, NEW c, NEW stage, NEW answer,
         Moves(c, stage, answer), Pay(c),
         stage # "done" => answer = "none",
         answer = "ok" /\ Pays(c) => Remembered(KeyOf(c))',
         stage = "inserting" => (Remembered(KeyOf(c)) => KeyOf(c) \in lost')
  PROVE  RememberedInv'
<1> USE DEF RememberedInv
<1>1. /\ c \in DOMAIN calls /\ DOMAIN calls' = DOMAIN calls
      /\ calls'[c].stage = stage /\ calls'[c].answer = answer
      /\ \A d \in DOMAIN calls : /\ d # c => calls'[d] = calls[d]
                                 /\ calls'[d].retry = calls[d].retry
  BY DEF Moves
<1>2. \A d \in DOMAIN calls : KeyOf(d)' = KeyOf(d) /\ (Pays(d)' <=> Pays(d))
  BY DEF Moves, KeyOf, Pays
<1>3. \A k : k \in lost => k \in lost'
  BY DEF Keeps
<1>4. \A d \in DOMAIN calls : Remembered(KeyOf(d)) => Remembered(KeyOf(d))'
  BY <1>2 DEF Keeps, Remembered, Looked
<1>5. ASSUME NEW d \in DOMAIN calls'
      PROVE  /\ calls'[d].stage # "done" => calls'[d].answer = "none"
             /\ calls'[d].answer = "ok" /\ Pays(d)' => Remembered(KeyOf(d))'
             /\ calls'[d].retry => Remembered(KeyOf(d))'
             /\ calls'[d].retry /\ calls'[d].stage = "inserting" => KeyOf(d)' \in lost'
  BY <1>1, <1>2, <1>3, <1>4
<1>6. ASSUME NEW row \in payments'
      PROVE  /\ row.call \in DOMAIN calls' /\ row.key = KeyOf(row.call)'
             /\ calls'[row.call].retry => row.key \in lost'
  <2>1. CASE row \in payments
    BY <1>1, <1>2, <1>3, <2>1 DEF RetryRecordsNoSecondRow
  <2>2. CASE row \notin payments
    <3>1. row.call = c /\ row.key = KeyOf(c) /\ calls[c].stage = "inserting"
      BY <1>6, <2>2 DEF Pay
    <3> QED BY <1>1, <1>2, <1>3, <3>1
  <2> QED BY <2>1, <2>2
<1> QED BY <1>5, <1>6 DEF RetryRecordsNoSecondRow

LEMMA RememberedStep ==
  ASSUME RememberedInv, [PurchaseNext]_purchaseVars
  PROVE  RememberedInv'
<1>0. KeyInv
  BY DEF RememberedInv
<1>1. KeyInv'
  BY <1>0, KeyStep
<1>2. Effect /\ Keeps
  BY <1>0, EffectOfStep
<1>3. \A k : /\ Remembered(k) => Remembered(k)'
             /\ k \in lost => k \in lost'
  BY <1>2 DEF Keeps
<1>4. \A c : payments' = payments => Pay(c)
  BY DEF Pay
<1>5. CASE \E w \in Wanted : Arrives(w) /\ UNCHANGED <<payments, cache>>
  <2> USE DEF RememberedInv
  <2> PICK w \in Wanted : Arrives(w) /\ UNCHANGED <<payments, cache>>
    BY <1>5
  <2> PICK n : n = Len(calls) + 1
    OBVIOUS
  <2>1. /\ DOMAIN calls' = DOMAIN calls \cup {n} /\ n \notin DOMAIN calls
        /\ \A d \in DOMAIN calls : calls'[d] = calls[d]
        /\ calls'[n].stage \notin {"inserting", "done"} => calls'[n].answer = "none"
        /\ calls'[n].stage # "inserting" /\ calls'[n].answer # "ok"
        /\ calls'[n].request = w
        /\ calls'[n].retry =
             \E d \in DOMAIN calls : Pays(d) /\ KeyOf(d) = w.key /\ calls[d].answer = "ok"
    BY DEF Arrives
  <2>2. \A d \in DOMAIN calls : KeyOf(d)' = KeyOf(d) /\ (Pays(d)' <=> Pays(d))
    BY <2>1 DEF KeyOf, Pays
  <2>3. \A d \in DOMAIN calls : Remembered(KeyOf(d)) => Remembered(KeyOf(d))'
    BY <1>3, <2>2 DEF Remembered, Looked
  <2>4. ASSUME calls'[n].retry PROVE Remembered(KeyOf(n))'
    <3>1. PICK d \in DOMAIN calls : Pays(d) /\ KeyOf(d) = w.key /\ calls[d].answer = "ok"
      BY <2>1, <2>4
    <3>2. Remembered(KeyOf(d))' /\ KeyOf(n)' = KeyOf(d)'
      BY <2>1, <2>2, <2>3, <3>1 DEF KeyOf
    <3> QED BY <3>2 DEF Remembered, Looked
  <2>5. ASSUME NEW d \in DOMAIN calls'
        PROVE  /\ calls'[d].stage # "done" => calls'[d].answer = "none"
               /\ calls'[d].answer = "ok" /\ Pays(d)' => Remembered(KeyOf(d))'
               /\ calls'[d].retry => Remembered(KeyOf(d))'
               /\ calls'[d].retry /\ calls'[d].stage = "inserting" => KeyOf(d)' \in lost'
    <3>1. CASE d = n
      BY <2>1, <2>4, <3>1
    <3>2. CASE d # n
      BY <1>3, <2>1, <2>2, <2>3, <2>5, <3>2
    <3> QED BY <3>1, <3>2
  <2>6. ASSUME NEW row \in payments'
        PROVE  /\ row.call \in DOMAIN calls' /\ row.key = KeyOf(row.call)'
               /\ calls'[row.call].retry => row.key \in lost'
    BY <1>3, <2>1, <2>2 DEF RetryRecordsNoSecondRow
  <2> QED BY <1>1, <2>5, <2>6 DEF RetryRecordsNoSecondRow
<1>6. ASSUME NEW c \in DOMAIN calls, calls[c].stage # "done" PROVE calls[c].answer = "none"
  BY <1>6 DEF RememberedInv
<1>7. ASSUME NEW c \in DOMAIN calls, Settles(c) PROVE RememberedInv'
  <2>1. payments' = payments /\ calls[c].answer = "none"
    BY <1>6, <1>7 DEF Settles
  <2>2. PICK stage, answer : /\ Moves(c, stage, answer)
                             /\ \/ stage \in {"fetching", "opening", "checking"} /\ answer = "none"
                                \/ stage = "done" /\ answer \notin {"none", "ok", "duplicate"}
    BY <1>7, <2>1 DEF Settles
  <2>3. stage # "inserting" /\ answer # "ok" /\ (stage # "done" => answer = "none")
    BY <2>2
  <2> QED BY <1>1, <1>2, <1>4, <2>1, <2>2, <2>3, RememberedMoves
<1>8. ASSUME NEW c \in DOMAIN calls, Checks(c) PROVE RememberedInv'
  <2>1. payments' = payments /\ calls[c].answer = "none"
    BY <1>6, <1>8 DEF Checks
  <2>2. CASE Moves(c, "done", "duplicate")
    BY <1>1, <1>2, <1>4, <2>1, <2>2, RememberedMoves
  <2>3. CASE Moves(c, "inserting", "none") /\ (Remembered(KeyOf(c)) => KeyOf(c) \in lost')
    BY <1>1, <1>2, <1>4, <2>1, <2>3, RememberedMoves
  <2> QED BY <1>8, <2>1, <2>2, <2>3 DEF Checks
<1>9. ASSUME NEW c \in DOMAIN calls, Inserts(c) PROVE RememberedInv'
  <2>1. payments' = payments /\ calls[c].answer = "none"
    BY <1>6, <1>9 DEF Inserts
  <2>2. Moves(c, "done", "duplicate") \/ Moves(c, "caching", "none")
    BY <1>9, <2>1 DEF Inserts
  <2> QED BY <1>1, <1>2, <1>4, <2>1, <2>2, RememberedMoves
<1>10. ASSUME NEW c \in DOMAIN calls, Records(c) PROVE RememberedInv'
  <2>1. calls[c].answer = "none" /\ calls[c].stage = "inserting" /\ Moves(c, "caching", "none")
    BY <1>6, <1>10 DEF Records
  <2>2. Pay(c)
    BY <1>10 DEF Records, Pay
  <2> QED BY <1>1, <1>2, <2>1, <2>2, RememberedMoves
<1>11. ASSUME NEW c \in DOMAIN calls, Caches(c) \/ Commits(c) PROVE RememberedInv'
  <2>1. payments' = payments /\ calls[c].answer = "none"
    BY <1>6, <1>11 DEF Caches, Commits
  <2>2. CASE Moves(c, "committing", "none")
    BY <1>1, <1>2, <1>4, <2>1, <2>2, RememberedMoves
  <2>3. CASE Moves(c, "done", "ok") /\ Remembered(KeyOf(c))'
    BY <1>1, <1>2, <1>4, <2>1, <2>3, RememberedMoves
  <2>4. CASE Moves(c, "done", "ok") /\ Creates(c)
    <3>1. ~Pays(c)
      BY <2>4 DEF Creates, Pays
    <3> QED BY <1>1, <1>2, <1>4, <2>1, <2>4, <3>1, RememberedMoves
  <2> QED BY <1>11, <2>1, <2>2, <2>3, <2>4 DEF Caches, Commits
<1>12. CASE UNCHANGED <<calls, payments>> /\ cache' \subseteq cache
  <2> USE DEF RememberedInv
  <2>1. \A d : KeyOf(d)' = KeyOf(d) /\ (Pays(d)' <=> Pays(d))
    BY <1>12 DEF KeyOf, Pays
  <2>2. \A d : Remembered(KeyOf(d)) => Remembered(KeyOf(d))'
    BY <1>3, <2>1 DEF Remembered, Looked
  <2>3. RetryRecordsNoSecondRow'
    BY <1>3, <1>12 DEF RetryRecordsNoSecondRow
  <2> QED BY <1>1, <1>3, <1>12, <2>1, <2>2, <2>3
<1> QED BY <1>2, <1>5, <1>7, <1>8, <1>9, <1>10, <1>11, <1>12 DEF Effect

\* A payment sent again after it was answered records no second row, unless
\* Redis lost its entry or could not be reached.
THEOREM RetriesRecordNoSecondRow == PurchaseSpec => []RetryRecordsNoSecondRow
<1>1. PurchaseInit => RememberedInv
  BY EmptyRows DEF PurchaseInit, RememberedInv, KeyInv, OnlyOrdersCommit, KeyIsHeld,
                   OneOrderPerKey, RetryRecordsNoSecondRow
<1>2. RememberedInv /\ [PurchaseNext]_purchaseVars => RememberedInv'
  BY RememberedStep
<1>3. RememberedInv => RetryRecordsNoSecondRow
  BY DEF RememberedInv
<1> QED BY <1>1, <1>2, <1>3, PTL DEF PurchaseSpec
-----------------------------------------------------------------------------
(* Types, amounts and refusals: the invariant. *)

Ids(w) == {w.items[i].sku : i \in DOMAIN w.items}

\* Whose request passed the filter and the handler's first checks.
Admitted(w) == Bears(w.authorization) /\ w.key \in Key

\* A call has its types; one that is not answered was admitted; one that
\* fetches knows the SKUs up to its token and no others; and one that was refused
\* was refused for a reason.
Typed(r) ==
  /\ r.request \in Wanted /\ r.stage \in Stage /\ r.answer \in Answer
  /\ (r.stage = "done") <=> (r.answer # "none")
  /\ r.after \in Sku \cup {0} /\ r.retry \in BOOLEAN
  /\ DOMAIN r.found \subseteq Sku /\ \A s \in DOMAIN r.found : r.found[s] \in Price
  /\ r.lines \in Seq(Line) /\ r.amount \in Int

Fetches(r) ==
  /\ r.request.procedure = "CreateOrder"
  /\ DOMAIN r.found = {s \in Ids(r.request) \cap Sku : s <= r.after}

Misnames(w) == \E i \in DOMAIN w.items : ~w.items[i].canonical \/ w.items[i].sku \notin Sku

Reasoned(answer, w) ==
  /\ answer = "unauthenticated" => ~Bears(w.authorization)
  /\ answer = "unknown sku" => Misnames(w)

Sound(r) ==
  /\ Typed(r) /\ Reasoned(r.answer, r.request)
  /\ r.stage # "done" => Admitted(r.request)
  /\ r.stage = "fetching" => Fetches(r)

\* A payment that is under way is about a committed order: first about its
\* lines, then about its total.
Owed(r) ==
  /\ r.stage = "opening" =>
       r.request.order \in DOMAIN orders /\ r.lines = orders[r.request.order].lines
  /\ r.stage \in {"checking", "inserting"} /\ r.request.procedure = "CreatePayment" =>
       r.request.order \in DOMAIN orders /\ r.amount = orders[r.request.order].total

OrdersAddUp ==
  \A o \in DOMAIN orders : orders[o] \in OrderRow /\ orders[o].total = Total(orders[o].lines)

CallsSound ==
  /\ Rows(calls, CallFields) /\ Len(calls) <= MaxCalls
  /\ \A c \in DOMAIN calls : Sound(calls[c]) /\ Owed(calls[c])

SoundInv ==
  /\ CallsSound
  /\ Rows(orders, OrderFields) /\ OrdersAddUp
  /\ AmountIsTotal /\ payments \subseteq PaymentRow
  /\ price \in [Sku -> Price]
  /\ cache \subseteq {"", "idempotency:"} \X Key /\ lost \subseteq Key
  /\ updates \in 0..MaxUpdates
-----------------------------------------------------------------------------
(* Totals.  FoldSeq takes the lines one by one as CHOOSE yields them. *)

\* Stripe adds up what the order service added up.
LEMMA AmountOfOrder == \A lines : AmountTotal(lines) = Total(lines)
BY Zenon DEF AmountTotal, Total, UnitAmount

\* The total of any lines is a number.
LEMMA TotalType ==
  ASSUME NEW lines \in Seq(Line)
  PROVE  Total(lines) \in Int
<1> PICK S : S = DOMAIN lines
  OBVIOUS
<1>1. S = 1..Len(lines) /\ Len(lines) \in Nat /\ IsFiniteSet(S)
  BY LenProperties, FS_Interval
<1>2. \A i \in S : lines[i].price \in Int /\ lines[i].quantity \in Int
  <2>1. \A i \in S : lines[i] \in Line
    BY <1>1
  <2>2. \A p \in Price : p \in Int
    <3>1. Price \subseteq Nat
      BY PurchaseAssumption
    <3> QED BY <3>1
  <2>3. \A l \in Line : l.price \in Price /\ l.quantity \in Int
    BY DEF Line
  <2>4. \A i \in S : lines[i].price \in Price /\ lines[i].quantity \in Int
    BY <2>1, <2>3
  <2> QED BY <2>2, <2>4
<1> PICK q : q = [i \in S |-> lines[i].price * lines[i].quantity]
  OBVIOUS
<1>3. \A i \in S : q[i] \in Int
  BY <1>2
<1> DEFINE Fits(f) == f = [s \in SUBSET S |->
                        IF s = {} THEN 0
                        ELSE f[s \ {CHOOSE y \in s : TRUE}]
                             + lines[CHOOSE y \in s : TRUE].price
                               * lines[CHOOSE y \in s : TRUE].quantity]
<1>4. Total(lines) = (CHOOSE f : Fits(f))[S]
  BY Zenon DEF Total, FoldSeq, FoldFunction, FoldFunctionOnSet, MapThenFoldSet
<1>5. PICK g : Sums(g, q, S)
  BY <1>1, <1>3, SumsExist
<1>6. \A s \in SUBSET S : s # {} => Chosen(s) \in S /\ s \ {Chosen(s)} \in SUBSET S
  BY ChosenIn
<1>7. Fits(g)
  <2>1. \A s \in SUBSET S : s # {} =>
          /\ q[Chosen(s)] \in Int /\ g[s \ {Chosen(s)}] \in Int
          /\ q[Chosen(s)] = lines[Chosen(s)].price * lines[Chosen(s)].quantity
          /\ g[s] = q[Chosen(s)] + g[s \ {Chosen(s)}]
    BY <1>3, <1>5, <1>6 DEF Sums
  <2>2. \A s \in SUBSET S : s # {} =>
          g[s] = g[s \ {Chosen(s)}] + lines[Chosen(s)].price * lines[Chosen(s)].quantity
    <3> TAKE s \in SUBSET S
    <3> HAVE s # {}
    <3> PICK a, b : a = q[Chosen(s)] /\ b = g[s \ {Chosen(s)}]
      OBVIOUS
    <3>1. a \in Int /\ b \in Int /\ g[s] = a + b
          /\ a = lines[Chosen(s)].price * lines[Chosen(s)].quantity
      BY <2>1
    <3>2. g[s] = b + a
      BY <3>1
    <3> QED BY <3>1, <3>2
  <2>3. g = [s \in SUBSET S |->
              IF s = {} THEN 0
              ELSE g[s \ {Chosen(s)}] + lines[Chosen(s)].price * lines[Chosen(s)].quantity]
    BY <1>5, <2>2 DEF Sums
  <2> QED BY <2>3, Zenon DEF Chosen
<1>8. PICK h : h = CHOOSE f : Fits(f)
  OBVIOUS
<1> HIDE DEF Fits
<1>9. Fits(h)
  BY <1>7, <1>8
<1>10. \A s \in SUBSET S : h[s] \in Int
  <2>1. h = [s \in SUBSET S |->
              IF s = {} THEN 0
              ELSE h[s \ {Chosen(s)}] + lines[Chosen(s)].price * lines[Chosen(s)].quantity]
    BY <1>9 DEF Fits, Chosen
  <2>2. /\ h[{}] = 0
        /\ \A s \in SUBSET S : s # {} => h[s] = h[s \ {Chosen(s)}] + q[Chosen(s)]
    BY <1>6, <2>1
  <2> PICK B : B = {s \in SUBSET S : h[s] \notin Int}
    OBVIOUS
  <2> SUFFICES ASSUME B # {} PROVE FALSE
    OBVIOUS
  <2>3. B \subseteq SUBSET S
    OBVIOUS
  <2>4. PICK T \in B : \A U \in B : U \subseteq T => U = T
    BY <1>1, <2>3, SubsetLeast
  <2>5. T \in SUBSET S /\ h[T] \notin Int /\ T # {}
    <3>1. T \in SUBSET S /\ h[T] \notin Int
      BY <2>4
    <3>2. h[{}] = 0
      BY <2>2
    <3>3. h[{}] \in Int
      BY <3>2
    <3> QED BY <3>1, <3>3, Zenon
  <2>6. Chosen(T) \in T /\ Chosen(T) \in S /\ T \ {Chosen(T)} \in SUBSET S /\ T \ {Chosen(T)} # T
    BY <1>6, <2>5, ChosenIn
  <2>7. h[T \ {Chosen(T)}] \in Int
    BY <2>4, <2>6
  <2>8. h[T] = h[T \ {Chosen(T)}] + q[Chosen(T)]
    BY <2>2, <2>5
  <2> QED BY <1>3, <2>5, <2>6, <2>7, <2>8
<1> QED BY <1>4, <1>8, <1>10
-----------------------------------------------------------------------------
(* Pages of SKUs. *)

\* A page is all that matches, or all that matches up to its token.
LEMMA PageUpToToken ==
  ASSUME NEW ids, NEW after \in Sku \cup {0}, NEW page, page = SkuPage(ids, after)
  PROVE  IF NextPageToken(page) = 0 THEN page = {s \in ids \cap Sku : s > after}
         ELSE /\ NextPageToken(page) \in Sku /\ NextPageToken(page) > after
              /\ page = {s \in ids \cap Sku : s > after /\ s <= NextPageToken(page)}
<1> PICK matching : matching = {s \in ids \cap Sku : s > after}
  OBVIOUS
<1> DEFINE Smaller(s) == {t \in matching : t < s}
<1>0. MaxSku \in Nat /\ MaxPage \in Nat \ {0}
  BY PurchaseAssumption
<1>1. matching \subseteq Sku /\ Sku = 1..MaxSku /\ IsFiniteSet(Sku) /\ IsFiniteSet(matching)
  <2>1. Sku = 1..MaxSku /\ IsFiniteSet(Sku)
    BY <1>0, FS_Interval DEF Sku
  <2>2. matching \subseteq Sku
    OBVIOUS
  <2> QED BY <2>1, <2>2, FS_Subset
<1>2. \A s \in matching : s \in Nat \ {0} /\ s <= MaxSku
  BY <1>0, <1>1
<1>3. page = {s \in matching : Cardinality(Smaller(s)) < MaxPage}
  BY Zenon DEF SkuPage
<1>4. ASSUME NEW T \in SUBSET matching
      PROVE  IsFiniteSet(T) /\ Cardinality(T) \in Nat
  BY <1>1, FS_Subset, FS_CardinalityType
<1>5. ASSUME NEW s \in matching PROVE Smaller(s) \in SUBSET matching
  OBVIOUS
<1>6. ASSUME NEW s \in matching, NEW t \in matching, t <= s
      PROVE  Cardinality(Smaller(t)) <= Cardinality(Smaller(s))
  <2>1. Smaller(t) \subseteq Smaller(s)
    BY <1>2, <1>6
  <2>2. IsFiniteSet(Smaller(s))
    BY <1>4
  <2> QED BY <2>1, <2>2, FS_Subset
<1> HIDE DEF Smaller
<1>7. page \in SUBSET matching /\ IsFiniteSet(page) /\ Cardinality(page) \in Nat
  BY <1>3, <1>4
<1>8. \A s \in page, t \in matching : t <= s => t \in page
  <2> TAKE s \in page, t \in matching
  <2> HAVE t <= s
  <2>1. Cardinality(Smaller(t)) <= Cardinality(Smaller(s)) /\ Cardinality(Smaller(s)) < MaxPage
    BY <1>3, <1>6
  <2>2. Cardinality(Smaller(t)) \in Nat /\ Cardinality(Smaller(s)) \in Nat
    BY <1>4, <1>5, <1>7
  <2> QED BY <1>0, <1>3, <2>1, <2>2
<1>9. ASSUME page # {} PROVE \E g \in page : \A s \in page : s <= g
  <2>1. page \subseteq 0..MaxSku
    BY <1>2, <1>7, <1>0
  <2> QED BY <1>0, <1>9, <2>1, NatGreatest
<1>10. CASE NextPageToken(page) # 0
  <2>1. Cardinality(page) = MaxPage
    BY <1>10 DEF NextPageToken
  <2>2. page # {}
    BY <1>0, <2>1, FS_EmptySet
  <2> PICK g : g = NextPageToken(page)
    OBVIOUS
  <2>3. g \in page /\ \A s \in page : s <= g
    BY <1>9, <2>1, <2>2 DEF NextPageToken
  <2>4. page = {s \in matching : s <= g}
    BY <1>7, <1>8, <2>3
  <2>5. g \in Sku /\ g > after
    BY <1>7, <2>3
  <2> QED BY <1>10, <2>4, <2>5
<1>11. CASE NextPageToken(page) = 0
  <2>1. Cardinality(page) # MaxPage
    <3> SUFFICES ASSUME Cardinality(page) = MaxPage PROVE FALSE
      OBVIOUS
    <3>1. page # {}
      BY <1>0, FS_EmptySet
    <3>2. NextPageToken(page) \in page
      BY <1>9, <3>1 DEF NextPageToken
    <3> QED BY <1>2, <1>7, <1>11, <3>2
  <2>2. Cardinality(page) <= MaxPage
    <3>1. CASE page = {}
      BY <1>0, <3>1, FS_EmptySet
    <3>2. CASE page # {}
      <4>1. PICK g \in page : \A s \in page : s <= g
        BY <1>9, <3>2
      <4>2. g \in matching /\ page \ {g} \subseteq Smaller(g)
        BY <1>2, <1>7, <4>1 DEF Smaller
      <4>3. IsFiniteSet(Smaller(g)) /\ Cardinality(Smaller(g)) \in Nat /\ Cardinality(Smaller(g)) < MaxPage
        BY <1>3, <1>4, <1>5, <4>2
      <4>4. Cardinality(page \ {g}) <= Cardinality(Smaller(g))
        BY <4>2, <4>3, FS_Subset
      <4>5. Cardinality(page \ {g}) = Cardinality(page) - 1
        BY <1>7, <4>1, FS_RemoveElement
      <4> QED BY <1>0, <1>7, <4>3, <4>4, <4>5
    <3> QED BY <3>1, <3>2
  <2>3. ASSUME matching \ page # {} PROVE FALSE
    <3>1. matching \ page \subseteq Nat
      BY <1>2
    <3>2. PICK m \in matching \ page : \A s \in matching \ page : m <= s
      BY <2>3, <3>1, NatLeast
    <3>3. Smaller(m) \subseteq page
      BY <1>2, <3>2 DEF Smaller
    <3>4. ~ (Cardinality(Smaller(m)) < MaxPage)
      BY <1>3, <3>2
    <3>5. Cardinality(Smaller(m)) <= Cardinality(page)
      BY <1>7, <3>3, FS_Subset
    <3>6. Cardinality(Smaller(m)) \in Nat
      BY <1>4, <1>5, <3>2
    <3> QED BY <1>0, <1>7, <2>1, <2>2, <3>4, <3>5, <3>6
  <2> QED BY <1>7, <1>11, <2>3
<1> QED BY <1>10, <1>11
-----------------------------------------------------------------------------
(* How a sound call moves. *)

\* What payments and orders under way rest on stays.
OrdersKept ==
  /\ DOMAIN orders \subseteq DOMAIN orders'
  /\ \A o \in DOMAIN orders :
       orders'[o].lines = orders[o].lines /\ orders'[o].total = orders[o].total

LEMMA OwedStays ==
  ASSUME OrdersKept, NEW r, Owed(r)
  PROVE  Owed(r)'
BY DEF OrdersKept, Owed

\* Only call c moves, to a sound row.
Turns(c, r) ==
  /\ c \in DOMAIN calls /\ calls' = [calls EXCEPT ![c] = r]
  /\ DOMAIN r = CallFields /\ Sound(r)

LEMMA TurnsSound ==
  ASSUME CallsSound, OrdersKept, NEW c, NEW r, Turns(c, r), Owed(r)'
  PROVE  CallsSound'
<1>1. Rows(calls, CallFields) /\ c \in DOMAIN calls
  BY DEF CallsSound, Turns
<1>2. Rows([calls EXCEPT ![c] = r], CallFields)
  BY <1>1, RowsExcept DEF Turns
<1>3. Rows(calls', CallFields) /\ DOMAIN calls' = DOMAIN calls
  BY <1>2 DEF Turns
<1>4. Len(calls') = Len(calls)
  <2>1. calls \in Seq(Range(calls)) /\ calls' \in Seq(Range(calls'))
    BY <1>1, <1>3 DEF Rows
  <2> QED BY <1>3, <2>1, LenProperties
<1>5. ASSUME NEW d \in DOMAIN calls' PROVE (Sound(calls[d]) /\ Owed(calls[d]))'
  <2> PICK q : q = calls'[d]
    OBVIOUS
  <2>1. Sound(q) /\ Owed(q)'
    <3>1. CASE d = c
      <4>1. q = r
        BY <1>1, <3>1 DEF Turns
      <4> QED BY <4>1 DEF Turns
    <3>2. CASE d # c
      <4>1. q = calls[d] /\ d \in DOMAIN calls
        BY <1>3, <3>2 DEF Turns
      <4>2. Sound(q) /\ Owed(q)
        BY <4>1 DEF CallsSound
      <4> QED BY <4>2, OwedStays
    <3> QED BY <3>1, <3>2
  <2>2. Sound(calls[d])'
    BY <2>1
  <2>3. Owed(calls[d])'
    BY <2>1 DEF Owed
  <2> QED BY <2>2, <2>3
<1> QED BY <1>3, <1>4, <1>5 DEF CallsSound

LEMMA EmptyDomain == DOMAIN <<>> = {}
<1>1. <<>> \in Seq(Line) /\ Len(<<>>) = 0
  BY EmptySeq
<1> QED BY <1>1, LenProperties

\* A call ends for a reason.
LEMMA EndTurns ==
  ASSUME CallsSound, NEW c \in DOMAIN calls,
         NEW answer \in Answer \ {"none"}, Reasoned(answer, calls[c].request), End(c, answer)
  PROVE  \E r : Turns(c, r) /\ r.stage = "done"
<1>0. PICK r : r = [calls[c] EXCEPT !.stage = "done", !.answer = answer, !.found = <<>>,
                                    !.after = 0, !.lines = <<>>, !.amount = 0]
  OBVIOUS
<1>1. DOMAIN calls[c] = CallFields /\ Sound(calls[c])
  BY DEF Rows, CallsSound
<1>2. /\ DOMAIN r = CallFields /\ r.request = calls[c].request /\ r.retry = calls[c].retry
      /\ r.stage = "done" /\ r.answer = answer /\ r.found = <<>> /\ r.after = 0
      /\ r.lines = <<>> /\ r.amount = 0
  BY <1>0, <1>1 DEF CallFields
<1>3. calls' = [calls EXCEPT ![c] = r]
  BY <1>0 DEF End
<1>4. Typed(r)
  <2>1. Typed(calls[c])
    BY <1>1 DEF Sound
  <2>2. /\ r.request \in Wanted /\ r.stage \in Stage /\ r.answer \in Answer
        /\ r.stage = "done" /\ r.answer # "none" /\ r.retry \in BOOLEAN
    BY <1>2, <2>1 DEF Typed, Stage
  <2>3. DOMAIN r.found = {} /\ r.after \in Sku \cup {0} /\ r.amount \in Int
    <3>1. DOMAIN r.found = {}
      BY <1>2, EmptyDomain, Zenon
    <3>2. r.after = 0 /\ r.amount = 0
      BY <1>2
    <3> QED BY <3>1, <3>2
  <2>4. r.lines \in Seq(Line)
    BY <1>2, EmptySeq
  <2> QED BY <2>2, <2>3, <2>4 DEF Typed
<1>5. Reasoned(r.answer, r.request)
  BY <1>2
<1>6. Sound(r)
  BY <1>2, <1>4, <1>5 DEF Sound
<1> QED BY <1>2, <1>3, <1>6 DEF Turns

LEMMA GotoTurns ==
  ASSUME CallsSound, NEW c \in DOMAIN calls,
         NEW stage \in Stage \ {"done", "fetching"}, calls[c].stage # "done", Goto(c, stage)
  PROVE  \E r : /\ Turns(c, r) /\ r.stage = stage /\ r.request = calls[c].request
                /\ r.lines = calls[c].lines /\ r.amount = calls[c].amount
<1> PICK r : r = [calls[c] EXCEPT !.stage = stage]
  OBVIOUS
<1>1. DOMAIN calls[c] = CallFields /\ Sound(calls[c])
  BY DEF Rows, CallsSound
<1>2. /\ DOMAIN r = CallFields /\ r.request = calls[c].request /\ r.retry = calls[c].retry
      /\ r.stage = stage /\ r.answer = calls[c].answer /\ r.found = calls[c].found
      /\ r.after = calls[c].after /\ r.lines = calls[c].lines /\ r.amount = calls[c].amount
  BY <1>1 DEF CallFields
<1>3. calls' = [calls EXCEPT ![c] = r]
  BY DEF Goto
<1>4. Typed(r)
  BY <1>1, <1>2 DEF Sound, Typed
<1>5. Reasoned(r.answer, r.request)
  BY <1>1, <1>2 DEF Sound
<1>6. Sound(r)
  BY <1>1, <1>2, <1>4, <1>5 DEF Sound
<1> QED BY <1>2, <1>3, <1>6 DEF Turns
-----------------------------------------------------------------------------
\* The calls a handler makes for a customer carry the customer's token.
LEMMA CallsAreHandled ==
  ASSUME NEW w, Admitted(w)
  PROVE  /\ Called("product", "BatchGetSkus", Context(w)) = "handled"
         /\ Called("order", "GetOrder", Context(w)) = "handled"
<1> PICK h : h = Forwarded(Context(w))
  OBVIOUS
<1>1. h.scheme = "bearer" /\ h.token \in User
  BY DEF Forwarded, Context, Admitted, Bears
<1>2. Bears(h)
  BY <1>1 DEF Bears
<1>3. "BatchGetSkus" \in Procedures["product"] /\ "GetOrder" \in Procedures["order"]
  BY DEF Procedures, ProductProcedures, OrderProcedures
<1> QED BY <1>2, <1>3 DEF Called, CORSFilter

LEMMA WantedRequests ==
  ASSUME NEW w \in Wanted
  PROVE  /\ w.service \in {"order", "payment"} /\ w.key \in Key \cup {NoKey} /\ w.order \in Nat
         /\ w.items \in Seq(Item)
<1>1. w \in Request
  BY PurchaseAssumption
<1> QED BY <1>1 DEF Request

\* A request that is not refused at the entry is admitted, and one that is
\* refused for want of a token bears none.
LEMMA EntryAdmits ==
  ASSUME NEW w \in Wanted
  PROVE  /\ Entry(w) \in Answer \ {"unknown sku"}
         /\ Entry(w) = "none" => Admitted(w)
         /\ Entry(w) = "unauthenticated" => ~Bears(w.authorization)
<1>1. w.service \in Guarded /\ w.key \in Key \cup {NoKey}
  BY WantedRequests DEF Guarded
<1>2. CORSFilter(w) \in {"no content", "not found", "unauthenticated", "handled"}
  BY DEF CORSFilter
<1>3. CORSFilter(w) = "handled" => Bears(w.authorization)
  BY <1>1 DEF CORSFilter
<1>4. CORSFilter(w) = "unauthenticated" => ~Bears(w.authorization)
  BY <1>1 DEF CORSFilter
<1>5. Context(w).key = w.key
  BY DEF Context
<1>6. Entry(w) \in Answer \ {"unknown sku"}
  BY <1>2 DEF Entry, Answer
<1>7. Entry(w) = "none" => CORSFilter(w) = "handled" /\ w.key # NoKey
  BY <1>2, <1>5 DEF Entry
<1>8. Entry(w) = "unauthenticated" => CORSFilter(w) = "unauthenticated"
  BY <1>2 DEF Entry
<1> QED BY <1>1, <1>3, <1>4, <1>6, <1>7, <1>8 DEF Admitted

\* A request that comes in is sound and owes nothing yet.
LEMMA ReceiveSound ==
  ASSUME CallsSound, NEW w \in Wanted, Receive(w)
  PROVE  CallsSound'
<1>0. PICK r : r = [request |-> w, answer |-> Entry(w), after |-> 0, found |-> <<>>, lines |-> <<>>,
        amount |-> 0,
        stage |-> IF Entry(w) # "none" THEN "done"
                  ELSE IF w.procedure = "CreateOrder" THEN "fetching" ELSE "reading",
        retry |-> \E c \in DOMAIN calls : Pays(c) /\ KeyOf(c) = w.key /\ calls[c].answer = "ok"]
  OBVIOUS
<1>1. calls' = Append(calls, r) /\ UNCHANGED orders /\ Len(calls) < MaxCalls
  BY <1>0, Zenon DEF Receive
<1>2. /\ r.request = w /\ r.answer = Entry(w) /\ r.after = 0 /\ r.found = <<>> /\ r.lines = <<>>
      /\ r.amount = 0 /\ r.retry \in BOOLEAN
  BY <1>0, Zenon
<1>3. /\ Entry(w) # "none" => r.stage = "done"
      /\ Entry(w) = "none" => \/ r.stage = "fetching" /\ w.procedure = "CreateOrder"
                              \/ r.stage = "reading"
  BY <1>0, Zenon
<1>4. DOMAIN r = CallFields
  BY <1>0 DEF CallFields
<1>5. Typed(r)
  <2>1. /\ r.stage \in Stage
        /\ (r.stage = "done") <=> (r.answer # "none")
    BY <1>2, <1>3 DEF Stage
  <2>2. r.request \in Wanted /\ r.answer \in Answer /\ r.retry \in BOOLEAN
    BY <1>2, EntryAdmits
  <2>3. DOMAIN r.found = {}
    BY <1>2, EmptyDomain, Zenon
  <2>4. r.after \in Sku \cup {0} /\ r.amount \in Int /\ r.lines \in Seq(Line)
    BY <1>2, EmptySeq
  <2> QED BY <2>1, <2>2, <2>3, <2>4 DEF Typed
<1>6. Reasoned(r.answer, r.request)
  <2>1. Entry(w) # "unknown sku"
    BY EntryAdmits
  <2> QED BY <1>2, <2>1, EntryAdmits, Zenon DEF Reasoned
<1>7. r.stage = "fetching" => Fetches(r)
  <2> HAVE r.stage = "fetching"
  <2>1. w.procedure = "CreateOrder"
    BY <1>3
  <2>2. \A s \in Sku : ~ (s <= 0)
    BY PurchaseAssumption DEF Sku
  <2>3. DOMAIN r.found = {}
    BY <1>2, EmptyDomain, Zenon
  <2> QED BY <1>2, <2>1, <2>2, <2>3 DEF Fetches
<1>8. r.stage # "done" => Admitted(r.request)
  BY <1>2, <1>3, EntryAdmits
<1>9. Sound(r)
  BY <1>5, <1>6, <1>7, <1>8 DEF Sound
<1>10. Owed(r)
  BY <1>3 DEF Owed
<1>11. Rows(calls', CallFields) /\ Grows(calls, calls', r)
  BY <1>1, <1>4, RowsAppend DEF CallsSound
<1>12. Len(calls') <= MaxCalls
  <2>1. calls \in Seq(Range(calls)) /\ calls' \in Seq(Range(calls'))
    BY <1>11 DEF CallsSound, Rows
  <2>2. Len(calls) \in Nat /\ Len(calls') \in Nat
    BY <2>1, LenProperties
  <2>3. DOMAIN calls' = 1..Len(calls') /\ DOMAIN calls = 1..Len(calls)
    BY <2>1, LenProperties
  <2>4. DOMAIN calls' = 1..(Len(calls) + 1)
    BY <1>11, <2>2, <2>3 DEF Grows
  <2>5. Len(calls') = Len(calls) + 1
    <3>1. Len(calls) + 1 \in 1..Len(calls')
      BY <2>2, <2>3, <2>4
    <3>2. Len(calls') \in 1..(Len(calls) + 1)
      BY <2>2, <2>3, <2>4, <3>1
    <3> QED BY <2>2, <3>1, <3>2
  <2> QED BY <1>1, <2>2, <2>5, PurchaseAssumption
<1>13. OrdersKept
  BY <1>1 DEF OrdersKept
<1>14. ASSUME NEW d \in DOMAIN calls' PROVE (Sound(calls[d]) /\ Owed(calls[d]))'
  <2> PICK q : q = calls'[d]
    OBVIOUS
  <2>1. Sound(q) /\ Owed(q)
    <3>1. CASE d \in DOMAIN calls
      <4>1. q = calls[d]
        BY <1>11, <3>1 DEF Grows
      <4> QED BY <3>1, <4>1 DEF CallsSound
    <3>2. CASE d \notin DOMAIN calls
      <4>1. q = r
        BY <1>11, <3>2 DEF Grows
      <4> QED BY <1>9, <1>10, <4>1
    <3> QED BY <3>1, <3>2
  <2>2. Owed(q)'
    BY <1>13, <2>1, OwedStays
  <2>3. Sound(calls[d])'
    BY <2>1
  <2>4. Owed(calls[d])'
    BY <2>2 DEF Owed
  <2> QED BY <2>3, <2>4
<1> QED BY <1>11, <1>12, <1>14 DEF CallsSound

\* A page of SKUs is taken up to its token, and after the last one every SKU of
\* the request that exists is known.
LEMMA FetchTurns ==
  ASSUME CallsSound, price \in [Sku -> Price], NEW c, FetchPage(c)
  PROVE  \E r : Turns(c, r) /\ Owed(r)
<1> DEFINE items == calls[c].request.items
           after == calls[c].after
           ids == {items[i].sku : i \in DOMAIN items}
           page == SkuPage(ids, after)
           token == NextPageToken(page)
           found == Found(calls[c].found, page)
<1>0. c \in DOMAIN calls /\ calls[c].stage = "fetching"
  BY DEF FetchPage, At
<1>1. /\ Sound(calls[c]) /\ Typed(calls[c]) /\ Fetches(calls[c]) /\ Admitted(calls[c].request)
      /\ DOMAIN calls[c] = CallFields
  BY <1>0 DEF CallsSound, Sound, Rows
<1>2. Called("product", "BatchGetSkus", Ctx(c)) = "handled"
  BY <1>1, CallsAreHandled DEF Ctx
<1>3. IF token # 0
      THEN calls' = [calls EXCEPT ![c].found = found, ![c].after = token]
      ELSE IF ~Known(items, found) THEN End(c, "unknown sku")
      ELSE calls' = [calls EXCEPT ![c].stage = "checking", ![c].found = <<>>,
                                  ![c].after = 0, ![c].lines = Lines(items, found)]
  BY <1>2, Zenon DEF FetchPage
<1>4. ids = Ids(calls[c].request) /\ after \in Sku \cup {0}
  BY <1>1 DEF Ids, Typed
<1> HIDE DEF after, ids, page, token, found
<1>5. DOMAIN calls[c].found = {s \in ids \cap Sku : s <= after}
  BY <1>1, <1>4 DEF Fetches, after
<1>6. \A s \in Sku \cup {0} : s \in Int
  BY PurchaseAssumption DEF Sku
<1>14. page = SkuPage(ids, after) /\ token = NextPageToken(page) /\ found = Found(calls[c].found, page)
  BY DEF page, token, found
<1>7. IF token = 0 THEN page = {s \in ids \cap Sku : s > after}
      ELSE /\ token \in Sku /\ token > after
           /\ page = {s \in ids \cap Sku : s > after /\ s <= token}
  <2>1. IF NextPageToken(page) = 0 THEN page = {s \in ids \cap Sku : s > after}
        ELSE /\ NextPageToken(page) \in Sku /\ NextPageToken(page) > after
             /\ page = {s \in ids \cap Sku : s > after /\ s <= NextPageToken(page)}
    BY <1>4, <1>14, PageUpToToken
  <2> QED BY <1>14, <2>1
<1>8. page \subseteq Sku
  BY <1>7
<1>9. /\ DOMAIN found = DOMAIN calls[c].found \cup page
      /\ \A s \in DOMAIN found : found[s] \in Price
  <2>1. \A s \in DOMAIN calls[c].found : calls[c].found[s] \in Price
    BY <1>1 DEF Typed
  <2>2. \A s \in page : price[s] \in Price
    BY <1>8
  <2> QED BY <1>14, <2>1, <2>2 DEF Found
<1>10. CASE token # 0
  <2>0. PICK r : r = [calls[c] EXCEPT !.found = found, !.after = token]
    OBVIOUS
  <2>1. calls' = [calls EXCEPT ![c] = r]
    <3>1. calls' = [calls EXCEPT ![c].found = found, ![c].after = token]
      BY <1>3, <1>10
    <3> QED BY <2>0, <3>1
  <2>2. /\ DOMAIN r = CallFields /\ r.request = calls[c].request /\ r.answer = calls[c].answer
        /\ r.stage = calls[c].stage /\ r.retry = calls[c].retry /\ r.found = found
        /\ r.after = token /\ r.lines = calls[c].lines /\ r.amount = calls[c].amount
    BY <1>1, <2>0 DEF CallFields
  <2>3. DOMAIN found = {s \in ids \cap Sku : s <= token}
    <3>1. token > after /\ token \in Int /\ after \in Int
      BY <1>4, <1>6, <1>7, <1>10
    <3>2. page = {s \in ids \cap Sku : s > after /\ s <= token}
      BY <1>7, <1>10
    <3>3. \A s \in Sku : s <= token <=> s <= after \/ (s > after /\ s <= token)
      BY <1>6, <3>1
    <3> QED BY <1>5, <1>9, <3>2, <3>3
  <2>4. Typed(r)
    <3>1. DOMAIN found \subseteq Sku /\ token \in Sku
      BY <1>7, <1>10, <2>3
    <3> QED BY <1>1, <1>9, <2>2, <3>1 DEF Typed
  <2>5. Fetches(r)
    BY <1>1, <1>4, <2>2, <2>3 DEF Fetches
  <2>6. Sound(r)
    BY <1>1, <2>2, <2>4, <2>5 DEF Sound
  <2>7. Owed(r)
    BY <1>0, <2>2 DEF Owed
  <2> QED BY <1>0, <2>1, <2>2, <2>6, <2>7 DEF Turns
<1>11. ASSUME token = 0 PROVE DOMAIN found = ids \cap Sku
  <2>1. page = {s \in ids \cap Sku : s > after}
    BY <1>7, <1>11
  <2>2. \A s \in Sku : s <= after \/ s > after
    BY <1>4, <1>6
  <2> QED BY <1>5, <1>9, <2>1, <2>2
<1>12. CASE token = 0 /\ ~Known(items, found)
  <2>1. End(c, "unknown sku")
    BY <1>3, <1>12
  <2>2. PICK i \in DOMAIN items : ~items[i].canonical \/ items[i].sku \notin DOMAIN found
    BY <1>12 DEF Known
  <2>3. items[i].sku \in ids
    BY DEF ids
  <2>4. Misnames(calls[c].request)
    BY <1>11, <1>12, <2>2, <2>3 DEF Misnames
  <2>5. Reasoned("unknown sku", calls[c].request)
    BY <2>4, Zenon DEF Reasoned
  <2>6. "unknown sku" \in Answer \ {"none"}
    BY DEF Answer
  <2>7. PICK r : Turns(c, r) /\ r.stage = "done"
    BY <1>0, <2>1, <2>5, <2>6, EndTurns
  <2> QED BY <2>7 DEF Owed
<1>13. CASE token = 0 /\ Known(items, found)
  <2> PICK lines : lines = Lines(items, found)
    OBVIOUS
  <2>0. PICK r : r = [calls[c] EXCEPT !.stage = "checking", !.found = <<>>, !.after = 0,
                                      !.lines = lines]
    OBVIOUS
  <2>1. calls' = [calls EXCEPT ![c] = r]
    BY <1>3, <1>13, <2>0
  <2>2. /\ DOMAIN r = CallFields /\ r.request = calls[c].request /\ r.answer = calls[c].answer
        /\ r.stage = "checking" /\ r.retry = calls[c].retry /\ r.found = <<>>
        /\ r.after = 0 /\ r.lines = lines /\ r.amount = calls[c].amount
    BY <1>1, <2>0 DEF CallFields
  <2>3. lines \in Seq(Line)
    <3>1. items \in Seq(Item)
      BY <1>1, WantedRequests DEF Typed
    <3>2. Len(items) \in Nat /\ DOMAIN items = 1..Len(items)
          /\ \A i \in DOMAIN items : items[i] \in Item
      BY <3>1, LenProperties
    <3>3. \A i \in DOMAIN items : items[i].quantity \in Int
      BY <3>2 DEF Item
    <3>4. DOMAIN found \subseteq Sku
      BY <1>11, <1>13
    <3>5. \A i \in DOMAIN items : items[i].sku \in Sku /\ found[items[i].sku] \in Price
      BY <1>9, <1>13, <3>4 DEF Known
    <3>6. \A i \in DOMAIN items :
            [sku |-> items[i].sku, quantity |-> items[i].quantity,
             price |-> found[items[i].sku]] \in Line
      BY <3>3, <3>5 DEF Line
    <3>7. lines \in [1..Len(items) -> Line]
      BY <3>2, <3>6 DEF Lines
    <3> QED BY <3>2, <3>7, SeqDef
  <2>4. Typed(r)
    <3>1. Typed(calls[c]) /\ calls[c].stage # "done"
      BY <1>0, <1>1
    <3>2. /\ r.request \in Wanted /\ r.stage \in Stage /\ r.answer \in Answer
          /\ r.stage # "done" /\ r.answer = "none" /\ r.retry \in BOOLEAN /\ r.amount \in Int
      BY <2>2, <3>1 DEF Typed, Stage
    <3>3. DOMAIN r.found = {}
      BY <2>2, EmptyDomain, Zenon
    <3>4. r.after \in Sku \cup {0} /\ r.lines \in Seq(Line)
      BY <2>2, <2>3
    <3> QED BY <3>2, <3>3, <3>4 DEF Typed
  <2>5. Sound(r)
    BY <1>1, <2>2, <2>4 DEF Sound
  <2>6. Owed(r)
    BY <1>1, <2>2 DEF Owed, Fetches
  <2> QED BY <1>0, <2>1, <2>2, <2>5, <2>6 DEF Turns
<1> QED BY <1>10, <1>12, <1>13

\* A payment takes the lines of the order it reads.
LEMMA ReadTurns ==
  ASSUME CallsSound, OrdersAddUp, NEW c, ReadOrder(c)
  PROVE  \E r : Turns(c, r) /\ Owed(r)
<1> DEFINE o == calls[c].request.order
<1>0. c \in DOMAIN calls /\ calls[c].stage = "reading"
  BY DEF ReadOrder, At
<1>1. Sound(calls[c]) /\ Typed(calls[c]) /\ Admitted(calls[c].request) /\ DOMAIN calls[c] = CallFields
  BY <1>0 DEF CallsSound, Sound, Rows
<1>2. Called("order", "GetOrder", Ctx(c)) = "handled"
  BY <1>1, CallsAreHandled DEF Ctx
<1>3. IF ~Decodes(GetOrder(o)) \/ GetOrder(o).status # "pending" THEN End(c, "not payable")
      ELSE calls' = [calls EXCEPT ![c].stage = "opening", ![c].lines = GetOrder(o).lines]
  BY <1>2, Zenon DEF ReadOrder
<1> HIDE DEF o
<1>4. CASE ~Decodes(GetOrder(o)) \/ GetOrder(o).status # "pending"
  <2>1. End(c, "not payable")
    BY <1>3, <1>4
  <2>2. "not payable" \in Answer \ {"none"} /\ Reasoned("not payable", calls[c].request)
    BY Zenon DEF Answer, Reasoned
  <2>3. PICK r : Turns(c, r) /\ r.stage = "done"
    BY <1>0, <2>1, <2>2, EndTurns
  <2> QED BY <2>3 DEF Owed
<1>5. CASE ~(~Decodes(GetOrder(o)) \/ GetOrder(o).status # "pending")
  <2>1. o \in DOMAIN orders /\ GetOrder(o) = orders[o]
    <3>1. CASE o \in DOMAIN orders
      BY <3>1 DEF GetOrder
    <3>2. CASE o \notin DOMAIN orders
      <4>1. GetOrder(o).lines = <<>>
        BY <3>2 DEF GetOrder
      <4> QED BY <1>5, <4>1 DEF Decodes
    <3> QED BY <3>1, <3>2
  <2>2. orders[o].lines \in Seq(Line)
    BY <2>1 DEF OrdersAddUp, OrderRow
  <2>3. calls' = [calls EXCEPT ![c].stage = "opening", ![c].lines = orders[o].lines]
    BY <1>3, <1>5, <2>1
  <2>4. PICK r : r = [calls[c] EXCEPT !.stage = "opening", !.lines = orders[o].lines]
    OBVIOUS
  <2>5. calls' = [calls EXCEPT ![c] = r]
    BY <2>3, <2>4
  <2>6. /\ DOMAIN r = CallFields /\ r.request = calls[c].request /\ r.answer = calls[c].answer
        /\ r.stage = "opening" /\ r.retry = calls[c].retry /\ r.found = calls[c].found
        /\ r.after = calls[c].after /\ r.lines = orders[o].lines /\ r.amount = calls[c].amount
    BY <1>1, <2>4 DEF CallFields
  <2>7. Typed(r)
    <3>1. "opening" \in Stage /\ calls[c].answer = "none"
      BY <1>0, <1>1 DEF Stage, Typed
    <3> QED BY <1>1, <2>2, <2>6, <3>1 DEF Typed
  <2>8. Sound(r)
    BY <1>1, <2>6, <2>7 DEF Sound
  <2>9. Owed(r)
    BY <2>1, <2>6 DEF Owed, o
  <2> QED BY <1>0, <2>5, <2>6, <2>8, <2>9 DEF Turns
<1> QED BY <1>4, <1>5

\* What Stripe is asked for is the total of the order whose lines were read.
LEMMA OpenTurns ==
  ASSUME CallsSound, OrdersAddUp, NEW c, OpenSession(c)
  PROVE  \E r : Turns(c, r) /\ Owed(r)
<1> DEFINE o == calls[c].request.order
<1>0. c \in DOMAIN calls /\ calls[c].stage = "opening"
  BY DEF OpenSession, At
<1>1. /\ Sound(calls[c]) /\ Typed(calls[c]) /\ Admitted(calls[c].request)
      /\ DOMAIN calls[c] = CallFields /\ Owed(calls[c])
  BY <1>0 DEF CallsSound, Sound, Rows
<1>2. o \in DOMAIN orders /\ calls[c].lines = orders[o].lines
  BY <1>0, <1>1 DEF Owed
<1> HIDE DEF o
<1>3. AmountTotal(calls[c].lines) = orders[o].total /\ orders[o].total \in Int
  <2>1. orders[o].total = Total(orders[o].lines) /\ orders[o].total \in Int
    BY <1>2 DEF OrdersAddUp, OrderRow
  <2> QED BY <1>2, <2>1, AmountOfOrder
<1>4. CASE End(c, "not payable")
  <2>2. "not payable" \in Answer \ {"none"} /\ Reasoned("not payable", calls[c].request)
    BY Zenon DEF Answer, Reasoned
  <2>3. PICK r : Turns(c, r) /\ r.stage = "done"
    BY <1>0, <1>4, <2>2, EndTurns
  <2> QED BY <2>3 DEF Owed
<1>5. CASE calls' = [calls EXCEPT ![c].stage = "checking", ![c].amount = orders[o].total,
                                  ![c].lines = <<>>]
  <2>4. PICK r : r = [calls[c] EXCEPT !.stage = "checking", !.amount = orders[o].total,
                                      !.lines = <<>>]
    OBVIOUS
  <2>5. calls' = [calls EXCEPT ![c] = r]
    BY <1>5, <2>4
  <2>6. /\ DOMAIN r = CallFields /\ r.request = calls[c].request /\ r.answer = calls[c].answer
        /\ r.stage = "checking" /\ r.retry = calls[c].retry /\ r.found = calls[c].found
        /\ r.after = calls[c].after /\ r.lines = <<>> /\ r.amount = orders[o].total
    BY <1>1, <2>4 DEF CallFields
  <2>7. Typed(r)
    <3>1. "checking" \in Stage /\ calls[c].answer = "none"
      BY <1>0, <1>1 DEF Stage, Typed
    <3>2. r.lines \in Seq(Line)
      BY <2>6, EmptySeq
    <3> QED BY <1>1, <1>3, <2>6, <3>1, <3>2 DEF Typed
  <2>8. Sound(r)
    BY <1>1, <2>6, <2>7 DEF Sound
  <2>9. Owed(r)
    BY <1>2, <2>6 DEF Owed, o
  <2> QED BY <1>0, <2>5, <2>6, <2>8, <2>9 DEF Turns
<1> QED BY <1>3, <1>4, <1>5, Zenon DEF OpenSession

LEMMA CheckTurns ==
  ASSUME CallsSound, lost \subseteq Key, NEW c, CheckCache(c)
  PROVE  (\E r : Turns(c, r) /\ Owed(r)) /\ lost' \subseteq Key
<1>0. c \in DOMAIN calls /\ calls[c].stage = "checking"
  BY DEF CheckCache, At
<1>1. Admitted(calls[c].request) /\ Owed(calls[c])
  BY <1>0 DEF CallsSound, Sound
<1>2. KeyOf(c) \in Key
  BY <1>1 DEF KeyOf, Admitted
<1>3. lost' \subseteq Key
  BY <1>2 DEF CheckCache
<1>4. CASE End(c, "duplicate")
  <2>2. "duplicate" \in Answer \ {"none"} /\ Reasoned("duplicate", calls[c].request)
    BY Zenon DEF Answer, Reasoned
  <2>3. PICK r : Turns(c, r) /\ r.stage = "done"
    BY <1>0, <1>4, <2>2, EndTurns
  <2> QED BY <1>3, <2>3 DEF Owed
<1>5. CASE Goto(c, "inserting")
  <2>1. "inserting" \in Stage \ {"done", "fetching"}
    BY DEF Stage
  <2>2. PICK r : /\ Turns(c, r) /\ r.stage = "inserting" /\ r.request = calls[c].request
                 /\ r.lines = calls[c].lines /\ r.amount = calls[c].amount
    BY <1>0, <1>5, <2>1, GotoTurns
  <2> QED BY <1>0, <1>1, <1>3, <2>2 DEF Owed
<1> QED BY <1>4, <1>5 DEF CheckCache

\* What is left of a call after its insert owes nothing.
LEMMA InsertTurns ==
  ASSUME CallsSound, NEW c \in DOMAIN calls, calls[c].stage # "done",
         \/ \E answer \in {"ok", "failed", "duplicate"} : End(c, answer)
         \/ \E stage \in {"caching", "committing"} : Goto(c, stage)
  PROVE  \E r : Turns(c, r) /\ r.stage \in {"done", "caching", "committing"}
<1>1. ASSUME NEW answer \in {"ok", "failed", "duplicate"}, End(c, answer)
      PROVE  \E r : Turns(c, r) /\ r.stage \in {"done", "caching", "committing"}
  <2>1. answer \in Answer \ {"none"} /\ Reasoned(answer, calls[c].request)
    BY <1>1, Zenon DEF Answer, Reasoned
  <2>2. PICK r : Turns(c, r) /\ r.stage = "done"
    BY <1>1, <2>1, EndTurns
  <2> QED BY <2>2
<1>2. ASSUME NEW stage \in {"caching", "committing"}, Goto(c, stage)
      PROVE  \E r : Turns(c, r) /\ r.stage \in {"done", "caching", "committing"}
  <2>1. stage \in Stage \ {"done", "fetching"}
    BY <1>2 DEF Stage
  <2>2. PICK r : Turns(c, r) /\ r.stage = stage
    BY <1>2, <2>1, GotoTurns
  <2> QED BY <1>2, <2>2
<1> QED BY <1>1, <1>2

LEMMA OwesNothing ==
  ASSUME NEW r, r.stage \in {"done", "caching", "committing"}
  PROVE  Owed(r) /\ Owed(r)'
BY DEF Owed
-----------------------------------------------------------------------------
\* The payment recorded is the one the call owed.
LEMMA PaymentSound ==
  ASSUME SoundInv, NEW c, InsertPayment(c)
  PROVE  SoundInv'
<1> PICK row : row = [call |-> c, key |-> KeyOf(c), order |-> calls[c].request.order,
                      user |-> Ctx(c).user, amount |-> calls[c].amount]
  OBVIOUS
<1>0. /\ c \in DOMAIN calls /\ calls[c].stage = "inserting" /\ Pays(c)
      /\ payments' = payments \cup {row} /\ Goto(c, "caching")
      /\ UNCHANGED <<price, orders, cache, lost, updates>>
  BY Zenon DEF InsertPayment, At
<1>1. Sound(calls[c]) /\ Typed(calls[c]) /\ Admitted(calls[c].request) /\ Owed(calls[c])
  BY <1>0 DEF SoundInv, CallsSound, Sound
<1>2. /\ row.call = c /\ row.key = calls[c].request.key /\ row.order = calls[c].request.order
      /\ row.user = calls[c].request.authorization.token /\ row.amount = calls[c].amount
  BY DEF KeyOf, Ctx, Context
<1>3. row.order \in DOMAIN orders /\ row.amount = orders[row.order].total
  BY <1>0, <1>1, <1>2 DEF Owed, Pays
<1>4. row \in PaymentRow
  <2>1. c \in 1..MaxCalls
    <3>1. Rows(calls, CallFields) /\ Len(calls) <= MaxCalls
      BY DEF SoundInv, CallsSound
    <3>2. DOMAIN calls = 1..Len(calls) /\ Len(calls) \in Nat
      BY <3>1, LenProperties DEF Rows
    <3> QED BY <1>0, <3>1, <3>2, PurchaseAssumption
  <2>2. row.key \in Key /\ row.user \in User
    BY <1>1, <1>2 DEF Admitted, Bears
  <2>3. row.order \in Nat
    BY <1>1, <1>2, WantedRequests DEF Typed
  <2>4. row.amount \in Int
    BY <1>1, <1>2 DEF Typed
  <2>5. row = [call |-> row.call, key |-> row.key, order |-> row.order, user |-> row.user,
               amount |-> row.amount]
    BY <1>2
  <2> QED BY <1>2, <2>1, <2>2, <2>3, <2>4, <2>5 DEF PaymentRow
<1>5. OrdersKept
  BY <1>0 DEF OrdersKept
<1>6. CallsSound'
  <2>1. CallsSound
    BY DEF SoundInv
  <2>2. PICK r : Turns(c, r) /\ r.stage \in {"done", "caching", "committing"}
    BY <1>0, <2>1, InsertTurns
  <2> QED BY <1>5, <2>1, <2>2, OwesNothing, TurnsSound
<1>7. AmountIsTotal' /\ payments' \subseteq PaymentRow
  BY <1>0, <1>3, <1>4 DEF SoundInv, AmountIsTotal
<1>8. OrdersAddUp' /\ Rows(orders', OrderFields)
  BY <1>0 DEF SoundInv, OrdersAddUp
<1> QED BY <1>0, <1>6, <1>7, <1>8 DEF SoundInv

\* A committed order has its lines and their total.
LEMMA CommitSound ==
  ASSUME SoundInv, NEW c, CommitOrder(c)
  PROVE  SoundInv'
<1> PICK row : row = [key |-> KeyOf(c), user |-> Ctx(c).user, lines |-> calls[c].lines,
                      total |-> Total(calls[c].lines), status |-> "pending"]
  OBVIOUS
<1>0. /\ c \in DOMAIN calls /\ calls[c].stage = "committing" /\ End(c, "ok")
      /\ orders' = Append(orders, row) /\ UNCHANGED <<price, payments, cache, lost, updates>>
  BY Zenon DEF CommitOrder, At
<1>1. Sound(calls[c]) /\ Typed(calls[c]) /\ Admitted(calls[c].request)
  BY <1>0 DEF SoundInv, CallsSound, Sound
<1>2. /\ row.key = calls[c].request.key /\ row.user = calls[c].request.authorization.token
      /\ row.lines = calls[c].lines /\ row.total = Total(row.lines) /\ row.status = "pending"
      /\ DOMAIN row = OrderFields
  BY DEF KeyOf, Ctx, Context, OrderFields
<1>3. row \in OrderRow
  <2>1. row.key \in Key /\ row.user \in User /\ row.lines \in Seq(Line)
    BY <1>1, <1>2 DEF Admitted, Bears, Typed
  <2>2. row.total \in Int
    BY <1>2, <2>1, TotalType
  <2>3. row.status \in OrderStatus
    BY <1>2 DEF OrderStatus
  <2>4. row = [key |-> row.key, user |-> row.user, lines |-> row.lines, total |-> row.total,
               status |-> row.status]
    BY <1>2
  <2> QED BY <2>1, <2>2, <2>3, <2>4 DEF OrderRow
<1>4. Rows(orders', OrderFields) /\ Grows(orders, orders', row)
  BY <1>0, <1>2, RowsAppend DEF SoundInv
<1>5. OrdersKept
  BY <1>4 DEF OrdersKept, Grows
<1>6. CallsSound'
  <2>1. CallsSound
    BY DEF SoundInv
  <2>2. PICK r : Turns(c, r) /\ r.stage \in {"done", "caching", "committing"}
    BY <1>0, <2>1, InsertTurns
  <2> QED BY <1>5, <2>1, <2>2, OwesNothing, TurnsSound
<1>7. OrdersAddUp'
  BY <1>2, <1>3, <1>4 DEF SoundInv, OrdersAddUp, Grows
<1>8. AmountIsTotal' /\ payments' \subseteq PaymentRow
  BY <1>0, <1>5 DEF SoundInv, AmountIsTotal, OrdersKept
<1> QED BY <1>0, <1>4, <1>6, <1>7, <1>8 DEF SoundInv

\* Cancelling leaves an order its lines and its total.
LEMMA CancelSound ==
  ASSUME SoundInv, NEW o \in DOMAIN orders, CancelOrder(o)
  PROVE  SoundInv'
<1> PICK row : row = [orders[o] EXCEPT !.status = "cancelled"]
  OBVIOUS
<1>1. orders' = [orders EXCEPT ![o] = row] /\ UNCHANGED <<calls, price, payments, cache, lost, updates>>
  BY DEF CancelOrder
<1>2. orders[o] \in OrderRow /\ orders[o].total = Total(orders[o].lines)
  BY DEF SoundInv, OrdersAddUp
<1>3. /\ row \in OrderRow /\ row.lines = orders[o].lines /\ row.total = orders[o].total
      /\ DOMAIN row = OrderFields
  BY <1>2 DEF OrderRow, OrderStatus, OrderFields
<1>4. Rows(orders', OrderFields) /\ DOMAIN orders' = DOMAIN orders
  BY <1>1, <1>3, RowsExcept DEF SoundInv
<1>5. \A p \in DOMAIN orders : orders'[p] = IF p = o THEN row ELSE orders[p]
  BY <1>1
<1>6. OrdersKept
  BY <1>3, <1>4, <1>5 DEF OrdersKept
<1>7. OrdersAddUp'
  BY <1>2, <1>3, <1>4, <1>5 DEF SoundInv, OrdersAddUp
<1>8. AmountIsTotal' /\ payments' \subseteq PaymentRow
  BY <1>1, <1>6 DEF SoundInv, AmountIsTotal, OrdersKept
<1>9. CallsSound'
  <2>1. ASSUME NEW c \in DOMAIN calls PROVE (Sound(calls[c]) /\ Owed(calls[c]))'
    <3> PICK q : q = calls[c]
      OBVIOUS
    <3>1. Sound(q) /\ Owed(q) /\ calls'[c] = q
      BY <1>1 DEF SoundInv, CallsSound
    <3>2. Owed(q)'
      BY <1>6, <3>1, OwedStays
    <3>3. Sound(calls[c])'
      BY <3>1
    <3>4. Owed(calls[c])'
      BY <3>1, <3>2 DEF Owed
    <3> QED BY <3>3, <3>4
  <2> QED BY <1>1, <2>1 DEF SoundInv, CallsSound
<1> QED BY <1>1, <1>4, <1>7, <1>8, <1>9 DEF SoundInv

\* A call that moves without touching orders and payments.
LEMMA OtherSound ==
  ASSUME SoundInv, NEW c, \E r : Turns(c, r) /\ Owed(r),
         UNCHANGED <<price, orders, payments, updates>>,
         cache' \subseteq {"", "idempotency:"} \X Key, lost' \subseteq Key
  PROVE  SoundInv'
<1>1. PICK r : Turns(c, r) /\ Owed(r)
  OBVIOUS
<1>2. OrdersKept
  BY DEF OrdersKept
<1>3. CallsSound'
  BY <1>1, <1>2, OwedStays, TurnsSound DEF SoundInv
<1>4. Rows(orders', OrderFields) /\ OrdersAddUp' /\ AmountIsTotal'
  BY DEF SoundInv, OrdersAddUp, AmountIsTotal
<1> QED BY <1>3, <1>4 DEF SoundInv

LEMMA SoundInit ==
  ASSUME PurchaseInit
  PROVE  SoundInv
<1>1. calls = <<>> /\ orders = <<>> /\ payments = {} /\ cache = {} /\ lost = {} /\ updates = 0
      /\ price \in [Sku -> Price]
  BY DEF PurchaseInit
<1>2. DOMAIN calls = {} /\ DOMAIN orders = {} /\ Len(calls) = 0
  BY <1>1, EmptyDomain, EmptySeq, Zenon
<1>3. Rows(calls, CallFields) /\ Rows(orders, OrderFields)
  BY <1>1, EmptyRows
<1>4. 0 <= MaxCalls /\ 0 \in 0..MaxUpdates
  BY PurchaseAssumption
<1>5. CallsSound
  BY <1>2, <1>3, <1>4 DEF CallsSound
<1>6. OrdersAddUp /\ AmountIsTotal
  BY <1>1, <1>2 DEF OrdersAddUp, AmountIsTotal
<1> QED BY <1>1, <1>3, <1>4, <1>5, <1>6 DEF SoundInv

LEMMA SoundStep ==
  ASSUME SoundInv, [PurchaseNext]_purchaseVars
  PROVE  SoundInv'
<1>0. /\ CallsSound /\ OrdersAddUp /\ price \in [Sku -> Price]
      /\ cache \subseteq {"", "idempotency:"} \X Key /\ lost \subseteq Key
      /\ updates \in 0..MaxUpdates
  BY DEF SoundInv
<1>1. ASSUME NEW w \in Wanted, Receive(w) PROVE SoundInv'
  <2>1. UNCHANGED <<price, orders, payments, cache, lost, updates>>
    BY <1>1 DEF Receive
  <2>2. CallsSound'
    BY <1>0, <1>1, ReceiveSound
  <2>3. Rows(orders', OrderFields) /\ OrdersAddUp' /\ AmountIsTotal'
    BY <2>1 DEF SoundInv, OrdersAddUp, AmountIsTotal
  <2> QED BY <2>1, <2>2, <2>3 DEF SoundInv
<1>2. ASSUME NEW c, FetchPage(c) PROVE SoundInv'
  <2>1. UNCHANGED <<price, orders, payments, cache, lost, updates>>
    BY <1>2 DEF FetchPage
  <2> QED BY <1>0, <1>2, <2>1, FetchTurns, OtherSound
<1>3. ASSUME NEW c, ReadOrder(c) PROVE SoundInv'
  <2>1. UNCHANGED <<price, orders, payments, cache, lost, updates>>
    BY <1>3 DEF ReadOrder
  <2> QED BY <1>0, <1>3, <2>1, ReadTurns, OtherSound
<1>4. ASSUME NEW c, OpenSession(c) PROVE SoundInv'
  <2>1. UNCHANGED <<price, orders, payments, cache, lost, updates>>
    BY <1>4 DEF OpenSession
  <2> QED BY <1>0, <1>4, <2>1, OpenTurns, OtherSound
<1>5. ASSUME NEW c, CheckCache(c) PROVE SoundInv'
  <2>1. UNCHANGED <<price, orders, payments, cache, updates>>
    BY <1>5 DEF CheckCache
  <2>2. (\E r : Turns(c, r) /\ Owed(r)) /\ lost' \subseteq Key
    BY <1>0, <1>5, CheckTurns
  <2> QED BY <1>0, <2>1, <2>2, OtherSound
<1>6. ASSUME NEW c \in DOMAIN calls, calls[c].stage # "done",
             \/ \E answer \in {"ok", "failed", "duplicate"} : End(c, answer)
             \/ \E stage \in {"caching", "committing"} : Goto(c, stage),
             UNCHANGED <<price, orders, payments, updates>>,
             cache' \subseteq {"", "idempotency:"} \X Key, lost' \subseteq Key
      PROVE  SoundInv'
  <2>1. PICK r : Turns(c, r) /\ r.stage \in {"done", "caching", "committing"}
    BY <1>0, <1>6, InsertTurns
  <2>2. Owed(r)
    BY <2>1, OwesNothing
  <2> QED BY <1>6, <2>1, <2>2, OtherSound
<1>7. ASSUME NEW c, InsertOrder(c) PROVE SoundInv'
  <2>1. /\ c \in DOMAIN calls /\ calls[c].stage = "inserting"
        /\ End(c, "duplicate") \/ Goto(c, "caching")
        /\ UNCHANGED <<price, orders, payments, cache, lost, updates>>
    BY <1>7 DEF InsertOrder, At
  <2> QED BY <1>0, <1>6, <2>1
<1>8. ASSUME NEW c, InsertPayment(c) PROVE SoundInv'
  BY <1>8, PaymentSound
<1>9. ASSUME NEW c, SetCache(c) PROVE SoundInv'
  <2> PICK entry : entry = IF Creates(c) THEN OrderEntry(KeyOf(c)) ELSE PaymentEntry(KeyOf(c))
    OBVIOUS
  <2>1. /\ c \in DOMAIN calls /\ calls[c].stage = "caching"
        /\ End(c, "ok") \/ Goto(c, "committing")
        /\ UNCHANGED <<price, orders, payments, updates>>
        /\ cache' \subseteq cache \cup {entry} /\ lost' \subseteq lost \cup {KeyOf(c)}
    BY <1>9 DEF SetCache, At
  <2>2. KeyOf(c) \in Key
    BY <1>0, <2>1 DEF CallsSound, Sound, Admitted, KeyOf
  <2>3. entry \in {"", "idempotency:"} \X Key
    BY <2>2 DEF OrderEntry, PaymentEntry
  <2>4. cache' \subseteq {"", "idempotency:"} \X Key /\ lost' \subseteq Key
    BY <1>0, <2>1, <2>2, <2>3
  <2> QED BY <1>6, <2>1, <2>4
<1>10. ASSUME NEW c, CommitOrder(c) PROVE SoundInv'
  BY <1>10, CommitSound
<1>11. ASSUME NEW c, Fail(c) PROVE SoundInv'
  <2>1. /\ c \in DOMAIN calls /\ calls[c].stage # "done" /\ End(c, "failed")
        /\ UNCHANGED <<price, orders, payments, cache, lost, updates>>
    BY <1>11 DEF Fail, At
  <2> QED BY <1>0, <1>6, <2>1
<1>12. ASSUME UNCHANGED <<calls, orders, payments>>, price' \in [Sku -> Price],
              cache' \subseteq {"", "idempotency:"} \X Key, lost' \subseteq Key,
              updates' \in 0..MaxUpdates
       PROVE  SoundInv'
  <2>1. CallsSound'
    BY <1>0, <1>12 DEF CallsSound, Owed
  <2>2. Rows(orders', OrderFields) /\ OrdersAddUp' /\ AmountIsTotal'
    BY <1>12 DEF SoundInv, OrdersAddUp, AmountIsTotal
  <2> QED BY <1>12, <2>1, <2>2 DEF SoundInv
<1>13. ASSUME NEW k \in Key, Expire(k) PROVE SoundInv'
  <2>1. /\ UNCHANGED <<calls, price, orders, payments, updates>>
        /\ cache' \subseteq cache /\ lost' = lost \cup {k}
    BY <1>13 DEF Expire
  <2> QED BY <1>0, <1>12, <1>13, <2>1
<1>14. ASSUME NEW s \in Sku, NEW p \in Price, UpdatePrice(s, p) PROVE SoundInv'
  <2>1. /\ UNCHANGED <<calls, orders, payments, cache, lost>>
        /\ price' = [price EXCEPT ![s] = p] /\ updates < MaxUpdates /\ updates' = updates + 1
    BY <1>14 DEF UpdatePrice
  <2>2. updates' \in 0..MaxUpdates
    <3>1. MaxUpdates \in Nat /\ updates \in 0..MaxUpdates
      BY <1>0, PurchaseAssumption
    <3> QED BY <2>1, <3>1
  <2>3. price' \in [Sku -> Price]
    BY <1>0, <1>14, <2>1
  <2> QED BY <1>0, <1>12, <2>1, <2>2, <2>3
<1>15. ASSUME NEW o \in DOMAIN orders, CancelOrder(o) PROVE SoundInv'
  BY <1>15, CancelSound
<1>16. CASE UNCHANGED purchaseVars
  BY <1>0, <1>12, <1>16 DEF purchaseVars
<1> QED BY <1>1, <1>2, <1>3, <1>4, <1>5, <1>7, <1>8, <1>9, <1>10, <1>11, <1>13, <1>14, <1>15,
           <1>16 DEF PurchaseNext, Serve

LEMMA SoundTypes == SoundInv => PurchaseTypeOK
<1> SUFFICES ASSUME SoundInv PROVE PurchaseTypeOK
  OBVIOUS
<1>1. Len(calls) <= MaxCalls
  BY DEF SoundInv, CallsSound
<1>2. ASSUME NEW c \in DOMAIN calls
      PROVE  /\ calls[c].request \in Wanted /\ calls[c].stage \in Stage
             /\ calls[c].answer \in Answer
             /\ (calls[c].stage = "done") <=> (calls[c].answer # "none")
             /\ calls[c].after \in Sku \cup {0} /\ DOMAIN calls[c].found \subseteq Sku
             /\ Range(calls[c].found) \subseteq Price
             /\ Range(calls[c].lines) \subseteq Line /\ calls[c].amount \in Int
             /\ calls[c].retry \in BOOLEAN
  <2>1. Typed(calls[c])
    BY DEF SoundInv, CallsSound, Sound
  <2>2. Range(calls[c].found) \subseteq Price
    BY <2>1 DEF Typed, Range
  <2>3. Range(calls[c].lines) \subseteq Line
    <3>1. calls[c].lines \in Seq(Line)
      BY <2>1 DEF Typed
    <3> QED BY <3>1, LenProperties DEF Range
  <2> QED BY <2>1, <2>2, <2>3 DEF Typed
<1>3. Range(orders) \subseteq OrderRow
  BY DEF SoundInv, OrdersAddUp, Range
<1> QED BY <1>1, <1>2, <1>3 DEF SoundInv, PurchaseTypeOK

\* Requests, orders, payments and cache have their types: a request that is
\* admitted has a user and a key, and a total is a number (CreateOrder and
\* CreatePayment).
THEOREM PurchaseTypeCorrect == PurchaseSpec => []PurchaseTypeOK
BY SoundInit, SoundStep, SoundTypes, PTL DEF PurchaseSpec

\* What Stripe charges and the payment row records is the total the order
\* had when it was made, for any prices, quantities and changes of a price.
THEOREM AmountsAreTotals == PurchaseSpec => []AmountIsTotal
<1>1. SoundInv => AmountIsTotal
  BY DEF SoundInv
<1> QED BY <1>1, SoundInit, SoundStep, PTL DEF PurchaseSpec

\* A customer with a token is never refused as unauthenticated by a handler's
\* own calls, and a SKU that exists is found on some page, whatever the size of
\* the pages (convertToBizOrderItems, BatchGetSkus).
THEOREM RefusalsHaveReasons == PurchaseSpec => []RefusedForAReason
<1>1. SoundInv => RefusedForAReason
  <2> SUFFICES ASSUME SoundInv, NEW c \in DOMAIN calls
               PROVE  /\ calls[c].answer = "unauthenticated" => ~Bears(calls[c].request.authorization)
                      /\ calls[c].answer = "unknown sku" => Misnames(calls[c].request)
    BY Zenon DEF RefusedForAReason, Misnames
  <2>1. Reasoned(calls[c].answer, calls[c].request)
    BY DEF SoundInv, CallsSound, Sound
  <2> QED BY <2>1, Zenon DEF Reasoned
<1> QED BY <1>1, SoundInit, SoundStep, PTL DEF PurchaseSpec
=============================================================================
