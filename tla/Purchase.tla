------------------------------ MODULE Purchase ------------------------------
(***************************************************************************)
(* Buying: CreateOrder of the order service and CreatePayment of the       *)
(* payment service, with the idempotency keys, the Redis they share and    *)
(* the calls they make to the product service, to the order service and to *)
(* Stripe.  Each of these is a step of its own, requests interleave, and   *)
(* any of them may fail or break off between two steps.                    *)
(*                                                                         *)
(* An order's number here is its place among the committed orders.  Prices *)
(* and totals are in cents, which NUMERIC(10, 2) holds exactly.  SKUs are  *)
(* numbered in the order of their ids.                                     *)
(*                                                                         *)
(* An operator X_Fault is X with a plausible fault, for testing that a     *)
(* property notices it.                                                    *)
(***************************************************************************)
EXTENDS Access, Integers, Sequences, FiniteSets, SequencesExt

CONSTANTS
  Wanted,      \* the requests that customers send
  MaxCalls,    \* bound: requests
  MaxSku,      \* bound: SKUs are 1..MaxSku
  Price,       \* bound: prices in cents
  TextAttrs,   \* SKUs whose attributes are all strings
  MaxPage,     \* maxPageSize: SKUs in a page, 100 in the code
  MaxUpdates   \* bound: changes of a price

Sku == 1..MaxSku

\* A request names its procedure.  An item names a SKU, perhaps one that does
\* not exist, perhaps not in the form the product service writes ids in.
Item == [sku : Int, canonical : BOOLEAN, quantity : Int]
Method == {"unspecified", "stripe", "alipay", "wechat"}
Request == [verb : {"POST", "OPTIONS"}, service : {"order", "payment"}, procedure : STRING,
            authorization : Authorization, key : Key \cup {NoKey},
            items : Seq(Item), order : Nat, pays : Method]

ASSUME PurchaseAssumption ==
  /\ Wanted \subseteq Request /\ NoKey \notin Key /\ Garbled \notin User
  /\ \A w \in Wanted : w.procedure = "CreateOrder" => w.items # <<>>
  /\ MaxCalls \in Nat /\ MaxSku \in Nat /\ MaxUpdates \in Nat
  /\ MaxPage \in Nat \ {0} /\ TextAttrs \subseteq Sku
  /\ Price \subseteq Nat /\ Price # {}

VARIABLES
  calls,     \* the requests so far and how far each has come
  price,     \* price[s]: the unit price of SKU s
  orders,    \* committed rows of orders
  payments,  \* rows of payments, with the call and the key that made them
  cache,     \* the idempotency entries in Redis: <<prefix, key>>
  lost,      \* history: keys an entry was lost of, or could not be read or written
  updates    \* counts towards MaxUpdates

purchaseVars == <<calls, price, orders, payments, cache, lost, updates>>

OrderStatus == {"pending", "cancelled"}   \* the others are Checkout's
Stage == {"fetching", "reading", "opening", "checking", "inserting", "caching",
          "committing", "done"}
Answer == {"none", "ok", "failed", "no content", "not found", "unauthenticated", "invalid",
           "unknown sku", "not payable", "duplicate"}

Line == [sku : Sku, quantity : Int, price : Price]
OrderRow == [key : Key, user : User, lines : Seq(Line), total : Int, status : OrderStatus]
PaymentRow == [call : 1..MaxCalls, key : Key, order : Nat, user : User, amount : Int]

PurchaseTypeOK ==
  /\ Len(calls) <= MaxCalls
  /\ \A c \in DOMAIN calls :
       /\ calls[c].request \in Wanted /\ calls[c].stage \in Stage
       /\ calls[c].answer \in Answer /\ (calls[c].stage = "done") <=> (calls[c].answer # "none")
       /\ calls[c].after \in Sku \cup {0} /\ DOMAIN calls[c].found \subseteq Sku
       /\ Range(calls[c].found) \subseteq Price
       /\ Range(calls[c].lines) \subseteq Line /\ calls[c].amount \in Int
       /\ calls[c].retry \in BOOLEAN
  /\ price \in [Sku -> Price]
  /\ Range(orders) \subseteq OrderRow /\ payments \subseteq PaymentRow
  /\ cache \subseteq {"", "idempotency:"} \X Key /\ lost \subseteq Key
  /\ updates \in 0..MaxUpdates

PurchaseInit ==
  /\ calls = <<>> /\ price \in [Sku -> Price] /\ orders = <<>> /\ payments = {}
  /\ cache = {} /\ lost = {} /\ updates = 0
-----------------------------------------------------------------------------
Creates(c) == calls[c].request.procedure = "CreateOrder"
Pays(c) == calls[c].request.procedure = "CreatePayment"
KeyOf(c) == calls[c].request.key
Ctx(c) == Context(calls[c].request)

At(c, stage) == c \in DOMAIN calls /\ calls[c].stage = stage
Goto(c, stage) == calls' = [calls EXCEPT ![c].stage = stage]
End(c, answer) == calls' = [calls EXCEPT ![c].stage = "done", ![c].answer = answer,
                                         ![c].found = <<>>, ![c].after = 0,
                                         ![c].lines = <<>>, ![c].amount = 0]

\* convertToBizPaymentMethod.
Supported(method) == method \in {"stripe", "alipay", "wechat"}

\* A request comes in: filter, route, interceptors, then the handler's checks.
\* retry: an earlier payment with its key was already answered ok.
Entry(w) ==
  IF CORSFilter(w) # "handled" THEN CORSFilter(w)
  ELSE IF Context(w).key = NoKey \/ (w.procedure = "CreatePayment" /\ ~Supported(w.pays))
  THEN "invalid" ELSE "none"

Receive(w) ==
  /\ Len(calls) < MaxCalls
  /\ calls' = Append(calls,
       [request |-> w, answer |-> Entry(w), after |-> 0, found |-> <<>>, lines |-> <<>>,
        amount |-> 0,
        stage |-> IF Entry(w) # "none" THEN "done"
                  ELSE IF w.procedure = "CreateOrder" THEN "fetching" ELSE "reading",
        retry |-> \E c \in DOMAIN calls : Pays(c) /\ KeyOf(c) = w.key /\ calls[c].answer = "ok"])
  /\ UNCHANGED <<price, orders, payments, cache, lost, updates>>
-----------------------------------------------------------------------------
(* CreateOrder: fetching the SKUs. *)

\* BatchGetSkus: the SKUs among ids after the token, a page of them.
SkuPage_FromToken(ids, token) ==
  LET matching == {s \in ids \cap Sku : s >= token}
  IN {s \in matching : Cardinality({t \in matching : t < s}) < MaxPage}
SkuPage(ids, token) ==
  LET matching == {s \in ids \cap Sku : s > token}
  IN {s \in matching : Cardinality({t \in matching : t < s}) < MaxPage}

\* The token of the next page: none, here 0, unless the page is full.
NextPageToken_Never(page) == 0
NextPageToken(page) ==
  IF Cardinality(page) = MaxPage
  THEN CHOOSE s \in page : \A t \in page : t <= s
  ELSE 0

\* What is known of the SKUs after another page: their prices of this moment,
\* under the ids the product service writes.
Found(found, page) ==
  [s \in DOMAIN found \cup page |-> IF s \in page THEN price[s] ELSE found[s]]

\* convertToBizOrderItems looks the names of the request up among the ids the
\* product service answered with.
Known(items, found) ==
  \A i \in DOMAIN items : items[i].canonical /\ items[i].sku \in DOMAIN found
Lines(items, found) ==
  [i \in DOMAIN items |->
     [sku |-> items[i].sku, quantity |-> items[i].quantity, price |-> found[items[i].sku]]]

\* A page of SKUs; after the last one the items take their names and prices
\* from what was found.
FetchPage(c) ==
  LET items == calls[c].request.items
      page == SkuPage({items[i].sku : i \in DOMAIN items}, calls[c].after)
      found == Found(calls[c].found, page)
  IN /\ At(c, "fetching")
     /\ IF Called("product", "BatchGetSkus", Ctx(c)) # "handled" THEN End(c, "unauthenticated")
        ELSE IF NextPageToken(page) # 0
        THEN calls' = [calls EXCEPT ![c].found = found, ![c].after = NextPageToken(page)]
        ELSE IF ~Known(items, found) THEN End(c, "unknown sku")
        ELSE calls' = [calls EXCEPT ![c].stage = "checking", ![c].found = <<>>,
                                    ![c].after = 0, ![c].lines = Lines(items, found)]
     /\ UNCHANGED <<price, orders, payments, cache, lost, updates>>

\* The total of an order.
Total_PerSku(lines) == FoldSeq(LAMBDA line, sum : sum + line.price, 0, lines)
Total(lines) == FoldSeq(LAMBDA line, sum : sum + line.price * line.quantity, 0, lines)
-----------------------------------------------------------------------------
(* CreatePayment: reading the order and opening a session. *)

\* GetOrder: a missing order is no error but an empty row ...
GetOrder(o) ==
  IF o \in DOMAIN orders THEN orders[o] ELSE [lines |-> <<>>, status |-> "unspecified"]

\* ... whose items cannot be decoded.
Decodes(row) == row.lines # <<>>

\* Only a pending order is paid for.
ReadOrder(c) ==
  LET row == GetOrder(calls[c].request.order)
  IN /\ At(c, "reading")
     /\ IF Called("order", "GetOrder", Ctx(c)) # "handled" THEN End(c, "unauthenticated")
        ELSE IF ~Decodes(row) \/ row.status # "pending" THEN End(c, "not payable")
        ELSE calls' = [calls EXCEPT ![c].stage = "opening", ![c].lines = row.lines]
     /\ UNCHANGED <<price, orders, payments, cache, lost, updates>>

\* What Stripe is told a unit costs, in cents.
UnitAmount_WholeUnits(line) == (line.price \div 100) * 100
UnitAmount(line) == line.price

\* Stripe multiplies and adds up (external).
AmountTotal(lines) ==
  FoldSeq(LAMBDA line, sum : sum + UnitAmount(line) * line.quantity, 0, lines)

\* Only Stripe is supported, and only attributes that are strings fit its
\* metadata.
OpenSession(c) ==
  LET lines == calls[c].lines
  IN /\ At(c, "opening")
     /\ IF /\ calls[c].request.pays = "stripe"
           /\ \A i \in DOMAIN lines : lines[i].sku \in TextAttrs
        THEN calls' = [calls EXCEPT ![c].stage = "checking", ![c].amount = AmountTotal(lines),
                                    ![c].lines = <<>>]
        ELSE End(c, "not payable")
     /\ UNCHANGED <<price, orders, payments, cache, lost, updates>>
-----------------------------------------------------------------------------
(* The idempotency key. *)

\* The entry each service writes under a key, and the one both read.
OrderEntry_Raw(k) == <<"", k>>
OrderEntry(k) == <<"idempotency:", k>>
PaymentEntry_Prefixed(k) == <<"idempotency:", k>>
PaymentEntry(k) == <<"", k>>
Looked(k) == <<"", k>>

\* Both look for the raw key; an error of Redis counts as a miss.
CheckCache(c) ==
  /\ At(c, "checking")
  /\ \/ /\ Looked(KeyOf(c)) \in cache /\ End(c, "duplicate") /\ UNCHANGED lost
     \/ /\ Goto(c, "inserting")
        /\ lost' = IF Looked(KeyOf(c)) \in cache THEN lost \cup {KeyOf(c)} ELSE lost
  /\ UNCHANGED <<price, orders, payments, cache, updates>>

\* The unique index: a key of a committed order is refused, one that another
\* transaction has inserted is waited for.
TakenKey_None(c) == FALSE
TakenKey(c) == \E o \in DOMAIN orders : orders[o].key = KeyOf(c)
Uncommitted(c) == Creates(c) /\ (At(c, "caching") \/ At(c, "committing"))
WaitsForKey_Never(c) == FALSE
WaitsForKey(c) ==
  \E d \in DOMAIN calls \ {c} : Uncommitted(d) /\ KeyOf(d) = KeyOf(c)

InsertOrder(c) ==
  /\ At(c, "inserting") /\ Creates(c) /\ ~WaitsForKey(c)
  /\ IF TakenKey(c) THEN End(c, "duplicate") ELSE Goto(c, "caching")
  /\ UNCHANGED <<price, orders, payments, cache, lost, updates>>

\* The payment row has no key in it, and is committed at once.
InsertPayment(c) ==
  /\ At(c, "inserting") /\ Pays(c)
  /\ payments' = payments \cup
       {[call |-> c, key |-> KeyOf(c), order |-> calls[c].request.order,
         user |-> Ctx(c).user, amount |-> calls[c].amount]}
  /\ Goto(c, "caching")
  /\ UNCHANGED <<price, orders, cache, lost, updates>>

\* The entry is written, or the error of Redis ignored; an order's transaction
\* still has its outbox messages to save and to commit.
SetCache(c) ==
  LET entry == IF Creates(c) THEN OrderEntry(KeyOf(c)) ELSE PaymentEntry(KeyOf(c))
  IN /\ At(c, "caching")
     /\ \/ cache' = cache \cup {entry} /\ UNCHANGED lost
        \/ UNCHANGED cache /\ lost' = lost \cup {KeyOf(c)}
     /\ IF Creates(c) THEN Goto(c, "committing") ELSE End(c, "ok")
     /\ UNCHANGED <<price, orders, payments, updates>>

CommitOrder(c) ==
  /\ At(c, "committing")
  /\ orders' = Append(orders, [key |-> KeyOf(c), user |-> Ctx(c).user,
                               lines |-> calls[c].lines, total |-> Total(calls[c].lines),
                               status |-> "pending"])
  /\ End(c, "ok")
  /\ UNCHANGED <<price, payments, cache, lost, updates>>

\* A step fails, or the process or the connection breaks off: an open
\* transaction is rolled back, whatever else was done stays.
Fail(c) ==
  /\ c \in DOMAIN calls /\ ~At(c, "done")
  /\ End(c, "failed")
  /\ UNCHANGED <<price, orders, payments, cache, lost, updates>>
-----------------------------------------------------------------------------
(* Meanwhile. *)

\* An entry that is looked for expires or is evicted.
Expire(k) ==
  /\ Looked(k) \in cache
  /\ cache' = cache \ {Looked(k)}
  /\ lost' = lost \cup {k}
  /\ UNCHANGED <<calls, price, orders, payments, updates>>

\* A merchant changes a price.
UpdatePrice(s, p) ==
  /\ updates < MaxUpdates /\ p # price[s]
  /\ price' = [price EXCEPT ![s] = p]
  /\ updates' = updates + 1
  /\ UNCHANGED <<calls, orders, payments, cache, lost>>

\* The customer cancels an order.
CancelOrder(o) ==
  /\ orders[o].status = "pending"
  /\ orders' = [orders EXCEPT ![o].status = "cancelled"]
  /\ UNCHANGED <<calls, price, payments, cache, lost, updates>>

Serve(c) == \/ FetchPage(c) \/ ReadOrder(c) \/ OpenSession(c) \/ CheckCache(c)
            \/ InsertOrder(c) \/ InsertPayment(c) \/ SetCache(c) \/ CommitOrder(c)

PurchaseNext ==
  \/ \E w \in Wanted : Receive(w)
  \/ \E c \in 1..MaxCalls : Serve(c) \/ Fail(c)
  \/ \E k \in Key : Expire(k)
  \/ \E s \in Sku, p \in Price : UpdatePrice(s, p)
  \/ \E o \in DOMAIN orders : CancelOrder(o)

PurchaseSpec == PurchaseInit /\ [][PurchaseNext]_purchaseVars

\* A database, Redis or a peer answers; the gateway breaks off a request after
\* 30 s, which ends the calls it waits for.
PurchaseFairness == \A c \in 1..MaxCalls : WF_purchaseVars(Serve(c))
-----------------------------------------------------------------------------
(* Properties. *)

\* However requests with one idempotency key overlap, are retried or fail, at
\* most one order has the key (CreateOrder and the unique index of orders).
OneOrderPerKey ==
  \A o, p \in DOMAIN orders : orders[o].key = orders[p].key => o = p

\* A request refused as a duplicate is one: an order or a payment was made
\* with its key.  Were the entry of an order found by the look-up, a rolled
\* back CreateOrder would leave a key that refuses every retry.
DuplicateWasMade ==
  \A c \in DOMAIN calls : calls[c].answer = "duplicate" =>
    \/ \E o \in DOMAIN orders : orders[o].key = KeyOf(c)
    \/ \E row \in payments : row.key = KeyOf(c)

\* A customer is refused only for what is wrong with the request itself: the
\* calls a handler makes are authenticated as the customer was, and a SKU that
\* exists, named as the product service writes it, is found on some page.
RefusedForAReason ==
  \A c \in DOMAIN calls :
    LET w == calls[c].request
    IN /\ calls[c].answer = "unauthenticated" => ~Bears(w.authorization)
       /\ calls[c].answer = "unknown sku" =>
            \E i \in DOMAIN w.items : ~w.items[i].canonical \/ w.items[i].sku \notin Sku

\* A payment repeated after it was answered records no second row, unless
\* Redis lost or could not serve the entry: the row itself has no key
\* (PaymentRepo.CreatePayment).  Requests that overlap may record two.
RetryRecordsNoSecondRow ==
  \A row \in payments : calls[row.call].retry => row.key \in lost

\* What Stripe charges and the payment row records is the total of the order,
\* whatever happens to the prices after the order took its snapshot.
AmountIsTotal ==
  \A row \in payments : row.order \in DOMAIN orders /\ row.amount = orders[row.order].total

\* Every request is answered: the pages of SKUs come to an end and no
\* transaction waits for ever for another's key.
RequestsEnd ==
  \A c \in 1..MaxCalls : (c \in DOMAIN calls) ~> At(c, "done")
=============================================================================
