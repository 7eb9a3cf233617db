------------------------------ MODULE Catalog ------------------------------
(***************************************************************************)
(* The product service: the listing of a seller's products and the Redis   *)
(* cache in front of it.                                                   *)
(*                                                                         *)
(* A listing that is not cached is queried through singleflight, stored    *)
(* under its own key and added to the set of the seller's keys; a create   *)
(* or an update commits and then deletes the keys of that set.  Each of    *)
(* these is a command of its own to PostgreSQL or Redis, none is atomic    *)
(* with the next, an error of Redis is logged and ignored, and a process   *)
(* that dies in between leaves the rest undone.                            *)
(*                                                                         *)
(* A product is what the listing shows of it: its seller, its status and   *)
(* the version of its name and prices.  Ids grow with time (UUID v7).      *)
(*                                                                         *)
(* An operator X_Fault is X with a plausible fault, for testing that a     *)
(* property notices it.                                                    *)
(***************************************************************************)
EXTENDS Naturals, Integers, Sequences, FiniteSets, SequencesExt, Functions

CONSTANTS
  Seller,      \* user ids of merchants
  Listed,      \* bound: the sellers who have products and whose products are listed
  MaxProduct,  \* bound: products, whose ids are 1..MaxProduct
  Skus,        \* Skus[p]: how many SKUs product p has
  Page,        \* page sizes asked for
  Asked,       \* statuses asked for, or "unspecified"
  Other,       \* a user who is no seller: a customer or an administrator
  Reader,      \* listings in progress at a time
  Writer,      \* creates and updates in progress at a time
  MaxWrites,   \* bound: creates and updates
  MaxFails     \* bound: Redis commands that fail, or are left undone by a crash

Status == {"active", "offline"}       \* of the five statuses, one that is public

ASSUME CatalogAssumption ==
  /\ Listed \subseteq Seller /\ MaxProduct \in Nat
  /\ Skus \in [1..MaxProduct -> Nat \ {0}]
  /\ Page \subseteq Int /\ Asked \subseteq Status \cup {"unspecified"}
  /\ MaxWrites \in Nat /\ MaxFails \in Nat /\ "none" \notin Reader

VARIABLES
  products,  \* the rows, by id
  cache,     \* <<key, listing>>: what Redis holds under each key
  keySet,    \* keySet[s]: members of the set of seller s
  flight,    \* flight[s]: the reader that leads singleflight's call for s, or "none"
  reader,    \* reader[r]: a listing in progress
  writer,    \* writer[w]: a create or an update in progress
  exposed,   \* history: a caller was shown what only others may see
  overlaps,  \* history: what has overlapped so far, see Overlaps
  writes,    \* counts towards MaxWrites
  fails      \* counts towards MaxFails

catalogVars == <<products, cache, keySet, flight, reader, writer, exposed, overlaps, writes, fails>>

Id == 1..MaxProduct

\* Who calls, with the user id and the role of the token.
Caller == [user : Seller, role : {"merchant"}]
          \cup [user : {Other}, role : {"admin", "customer"}]
Row == [seller : Seller, status : Status, version : 1..(MaxWrites + 1)]

\* The cache key of a listing: seller, page token, page size and status.
KeyOf_NoStatus(s, token, size, filter) == <<s, token, size>>
KeyOf(s, token, size, filter) == <<s, token, size, filter>>
-----------------------------------------------------------------------------
(* The query. *)

\* The products of the seller after the page token, with the status if one is
\* asked for.
Matching(s, token, filter) ==
  {p \in DOMAIN products :
     /\ p > token /\ products[p].seller = s
     /\ filter # "unspecified" => products[p].status = filter}

\* The join yields a row per SKU, in the order of the products' ids: how many
\* come before those of product p.
RowsBefore_Newest(ids, p) == SumFunctionOnSet(Skus, {q \in ids : q > p})
RowsBefore(ids, p) == SumFunctionOnSet(Skus, {q \in ids : q < p})

\* LIMIT counts these rows; a negative one is none.  How many it leaves of a
\* product's.
Limited(before, rows, size) ==
  CASE size < 0 \/ before + rows <= size -> rows
    [] size >= 0 /\ size <= before -> 0
    [] OTHER -> size - before
RowsOf(ids, p, size) == Limited(RowsBefore(ids, p), Skus[p], size)

\* convertToBizProducts groups the rows by product.
Grouped(ids, size) ==
  {[id |-> p, status |-> products[p].status, version |-> products[p].version,
    skus |-> RowsOf(ids, p, size)] : p \in {q \in ids : RowsOf(ids, q, size) > 0}}

Listing(s, token, size, filter) == Grouped(Matching(s, token, filter), size)
-----------------------------------------------------------------------------
(* Readers: ListSellerProducts. *)

\* Which status a role gets to see of what it asks for.
StatusFilter_AsAsked(asked, s, user, role) == asked
StatusFilter(asked, s, user, role) ==
  CASE role = "admin"    -> asked
    [] role = "merchant" -> IF s = user THEN asked ELSE "active"
    [] role = "customer" -> "active"
    [] OTHER             -> "unspecified"

\* Whom only active products are meant for: customers and other merchants.
Public(s, user, role) == role # "admin" /\ user # s

\* A caller is shown a listing.
Show(public, listing) ==
  exposed' = (exposed \/ (public /\ \E row \in listing : row.status # "active"))

\* A Redis command may fail, and then changes nothing.
Ok == UNCHANGED fails
Err == fails < MaxFails /\ fails' = fails + 1

NoRequest == [at |-> "idle"]
Cached(k) == {e \in cache : e[1] = k}

\* The page comes from the cache if it is there and Redis answers; otherwise the
\* caller leads the seller's flight or joins the one that is under way.
List(r, s, token, size, asked, user, role) ==
  LET filter == StatusFilter(asked, s, user, role)
      key == KeyOf(s, token, size, filter)
      public == Public(s, user, role)
  IN /\ reader[r].at = "idle"
     /\ \/ Ok /\ (\E e \in Cached(key) : Show(public, e[2].shown)) /\ UNCHANGED <<flight, reader>>
        \/ /\ IF Cached(key) = {} THEN Ok ELSE Err
           /\ reader' = [reader EXCEPT ![r] =
                [at |-> IF flight[s] = "none" THEN "leading" ELSE "joined", key |-> key,
                 query |-> <<s, token, size, filter>>, public |-> public, shown |-> {}]]
           /\ flight' = [flight EXCEPT ![s] = IF @ = "none" THEN r ELSE @]
           /\ UNCHANGED exposed
     /\ UNCHANGED <<products, cache, keySet, writer, writes>>

\* Everyone in the flight gets what the leader's query yields: its own page
\* size and status.
InFlight(s) == {r \in Reader : reader[r].at \in {"leading", "joined"} /\ reader[r].query[1] = s}
Run(q) == Listing(q[1], q[2], q[3], q[4])

\* The call is forgotten when it ends, whichever way.
Ended_Never(s) == flight
Ended(s) == [flight EXCEPT ![s] = "none"]

Query(r) ==
  /\ reader[r].at = "leading"
  /\ LET s == reader[r].query[1]
         listing == Run(reader[r].query)
     IN /\ reader' = [q \in Reader |-> IF q \in InFlight(s)
                                       THEN [reader[q] EXCEPT !.at = "loaded", !.shown = listing]
                                       ELSE reader[q]]
        /\ flight' = Ended(s)
  /\ UNCHANGED <<products, cache, keySet, writer, fails, exposed, writes>>

\* The query fails, or the context of the leader is done: for all of them.
FailQuery(r) ==
  /\ reader[r].at = "leading"
  /\ LET s == reader[r].query[1]
     IN /\ reader' = [q \in Reader |-> IF q \in InFlight(s) THEN NoRequest ELSE reader[q]]
        /\ flight' = Ended(s)
  /\ UNCHANGED <<products, cache, keySet, writer, fails, exposed, writes>>

\* SetCache ...
Store(r) ==
  /\ reader[r].at = "loaded"
  /\ LET k == reader[r].key IN
     \/ Ok /\ cache' = (cache \ Cached(k))
                        \cup {<<k, [query |-> reader[r].query, shown |-> reader[r].shown]>>}
     \/ Err /\ UNCHANGED cache
  /\ reader' = [reader EXCEPT ![r].at = "stored"]
  /\ UNCHANGED <<products, keySet, flight, writer, exposed, writes>>

\* ... and SetCacheSAdd, after which the caller has its answer.
Track(r) ==
  /\ reader[r].at = "stored"
  /\ \/ Ok /\ keySet' = [keySet EXCEPT ![reader[r].query[1]] = @ \cup {reader[r].key}]
     \/ Err /\ UNCHANGED keySet
  /\ reader' = [reader EXCEPT ![r] = NoRequest]
  /\ Show(reader[r].public, reader[r].shown)
  /\ UNCHANGED <<products, cache, flight, writer, writes>>

\* SetCache gives every key a time to live, a minute and some jitter; no read
\* renews it.
Expires_Never(e) == FALSE
Expires(e) == e \in cache

Expire(e) ==
  /\ Expires(e)
  /\ cache' = cache \ {e}
  /\ UNCHANGED <<products, keySet, flight, reader, writer, fails, exposed, writes>>
-----------------------------------------------------------------------------
(* Writers: BatchCreateProducts and BatchUpdateProducts. *)

NoWrite == [at |-> "idle"]
Clearing(s, foreign) == [at |-> "committed", seller |-> s, foreign |-> foreign, keys |-> {}]

\* productsFilter: what a merchant writes is taken for offline and its own.
ProductsFilter(asked, user, role) ==
  IF role = "merchant" THEN [seller |-> user, status |-> "offline"] ELSE asked

Begin(w, role) ==
  /\ writer[w].at = "idle" /\ role # "customer"
  /\ writes < MaxWrites /\ writes' = writes + 1

\* The row of a new product, under the next id.
Inserted(product) ==
  Append(products, [seller |-> product.seller, status |-> product.status, version |-> 1])

\* The rows are committed together with their outbox message.
Create(w, asked, user, role) ==
  LET p == Cardinality(DOMAIN products) + 1
      product == ProductsFilter(asked, user, role)
  IN /\ Begin(w, role) /\ p \in Id /\ product.seller \in Listed
     /\ products' = Inserted(product)
     /\ writer' = [writer EXCEPT ![w] = Clearing(product.seller, FALSE)]
     /\ UNCHANGED <<cache, keySet, flight, reader, fails, exposed>>

\* The row with new names, SKUs and prices, whatever seller it has.
Updated(p) == [products EXCEPT ![p].version = @ + 1]

\* An update is by id alone and changes any product, name and prices; the
\* seller whose keys it clears is the caller or, for an administrator, as asked.
Update(w, p, asked, user, role) ==
  LET s == ProductsFilter(asked, user, role).seller
  IN /\ Begin(w, role) /\ p \in DOMAIN products
     /\ products' = Updated(p)
     /\ writer' = [writer EXCEPT ![w] = Clearing(s, s # products[p].seller)]
     /\ UNCHANGED <<cache, keySet, flight, reader, fails, exposed>>

\* delProductCaches: the members of the set ...
ReadKeys(w) ==
  /\ writer[w].at = "committed"
  /\ LET s == writer[w].seller IN
     \/ Ok /\ writer' = [writer EXCEPT ![w] = IF keySet[s] = {} THEN NoWrite
                                              ELSE [@ EXCEPT !.at = "read", !.keys = keySet[s]]]
     \/ Err /\ writer' = [writer EXCEPT ![w] = NoWrite]
  /\ UNCHANGED <<products, cache, keySet, flight, reader, exposed, writes>>

\* ... their deletion ...
Deleted_First(keys) == {CHOOSE k \in keys : TRUE}
Deleted(keys) == keys

DeleteKeys(w) ==
  /\ writer[w].at = "read"
  /\ \/ Ok /\ cache' = {e \in cache : e[1] \notin Deleted(writer[w].keys)}
     \/ Err /\ UNCHANGED cache
  /\ writer' = [writer EXCEPT ![w].at = "deleted"]
  /\ UNCHANGED <<products, keySet, flight, reader, exposed, writes>>

\* ... and that of the set, with whatever was added to it since.
DeleteSet(w) ==
  /\ writer[w].at = "deleted"
  /\ \/ Ok /\ keySet' = [keySet EXCEPT ![writer[w].seller] = {}]
     \/ Err /\ UNCHANGED keySet
  /\ writer' = [writer EXCEPT ![w] = NoWrite]
  /\ UNCHANGED <<products, cache, flight, reader, exposed, writes>>
-----------------------------------------------------------------------------
\* A process dies with the listings R and the writes W, and with the flights it
\* leads; what it has done to PostgreSQL and Redis stays.  It counts as a
\* failure if a cached key is not in the set yet or the keys are not cleared.
Crash(R, W) ==
  /\ \A s \in Listed : InFlight(s) \cap R \in {{}, InFlight(s)}
  /\ IF (\E r \in R : reader[r].at = "stored") \/ (\E w \in W : writer[w].at # "idle")
     THEN Err ELSE Ok
  /\ reader' = [r \in Reader |-> IF r \in R THEN NoRequest ELSE reader[r]]
  /\ writer' = [w \in Writer |-> IF w \in W THEN NoWrite ELSE writer[w]]
  /\ flight' = [s \in Listed |-> IF flight[s] \in R THEN "none" ELSE flight[s]]
  /\ UNCHANGED <<products, cache, keySet, exposed, writes>>
-----------------------------------------------------------------------------
Filling == {r \in Reader : reader[r].at \in {"loaded", "stored"}}
Joining == {r \in Reader : reader[r].at = "joined"}
Writing == {w \in Writer : writer[w].at # "idle"}

\* What overlaps: a fill and a write, two callers in a flight, or a write of a
\* product and the keys of a seller it is not of.
Overlaps ==
  (IF Filling # {} /\ Writing # {} THEN {"fill"} ELSE {})
  \cup (IF Joining # {} THEN {"flight"} ELSE {})
  \cup (IF \E w \in Writing : writer[w].foreign THEN {"foreign"} ELSE {})

CatalogInit ==
  /\ products \in UNION {[1..n -> {row \in Row : row.seller \in Listed /\ row.version = 1}] : n \in 0..MaxProduct}
  /\ cache = {} /\ keySet = [s \in Seller |-> {}]
  /\ flight = [s \in Listed |-> "none"]
  /\ reader = [r \in Reader |-> NoRequest]
  /\ writer = [w \in Writer |-> NoWrite]
  /\ exposed = FALSE /\ overlaps = {}
  /\ writes \in 0..MaxWrites /\ fails \in 0..MaxFails

CatalogStep ==
  \/ \E r \in Reader :
       \/ \E s \in Listed, size \in Page, asked \in Asked, c \in Caller :
            List(r, s, 0, size, asked, c.user, c.role)
       \/ Query(r) \/ FailQuery(r) \/ Store(r) \/ Track(r)
  \/ \E e \in cache : Expire(e)
  \/ \E w \in Writer :
       \/ \E asked \in [seller : Seller, status : Status], c \in Caller :
            \/ Create(w, asked, c.user, c.role)
            \/ \E p \in Id : Update(w, p, asked, c.user, c.role)
       \/ ReadKeys(w) \/ DeleteKeys(w) \/ DeleteSet(w)
  \/ \E R \in SUBSET Reader, W \in SUBSET Writer : Crash(R, W)

CatalogNext == CatalogStep /\ overlaps' = overlaps \cup Overlaps'

CatalogSpec == CatalogInit /\ [][CatalogNext]_catalogVars

\* What Redis would answer is what the database would.
Stale(e) == e[2].shown # Run(e[2].query)

\* Every request goes on, and Redis expires keys.
CatalogFairness ==
  /\ \A r \in Reader :
       WF_catalogVars((Query(r) \/ FailQuery(r) \/ Store(r) \/ Track(r)) /\ CatalogNext)
  /\ \A w \in Writer :
       WF_catalogVars((ReadKeys(w) \/ DeleteKeys(w) \/ DeleteSet(w)) /\ CatalogNext)
  /\ WF_catalogVars((\E e \in cache : Stale(e) /\ Expire(e)) /\ CatalogNext)

-----------------------------------------------------------------------------
(* Properties. *)

CatalogTypeOK ==
  /\ products \in Seq(Row) /\ Len(products) <= MaxProduct
  /\ \A e, f \in cache : e[1] = f[1] => e = f
  /\ \A s \in Listed : flight[s] # "none" => reader[flight[s]].at = "leading"
  /\ writes \in 0..MaxWrites /\ fails \in 0..MaxFails

\* A listing in the cache is the current one once the writes are done, if no
\* fill overlapped a write, no flight was shared, no update cleared the keys
\* of another seller than the product's, Redis did not fail and no process died
\* before a key was in the set or the keys were cleared.
FreshUnlessOverlapped ==
  (overlaps = {} /\ fails = 0 /\ Writing = {}) => \A e \in cache : ~Stale(e)

\* Only a shared flight shows a customer or another merchant a product that is
\* not active: neither the role, nor the cache, nor a write does.
OnlyActiveIsPublic == exposed => "flight" \in overlaps

\* A client that asks for page after page, with the last product it got as the
\* next token, sees every product, though a page may end within one.  It need
\* not ask for more pages than there can be products.
Ids(listing) == {row.id : row \in listing}
LastOf(listing) == CHOOSE p \in Ids(listing) : \A q \in Ids(listing) : q <= p
NextToken(token, listing) == IF listing = {} THEN token ELSE LastOf(listing)
NextPage(s, size, filter, at) ==
  LET page == Listing(s, at.token, size, filter)
  IN [token |-> NextToken(at.token, page), seen |-> at.seen \cup Ids(page)]
Visited(s, size, filter) ==
  LET after[n \in 0..MaxProduct] ==
        IF n = 0 THEN [token |-> 0, seen |-> {}]
        ELSE NextPage(s, size, filter, after[n - 1])
  IN after[MaxProduct].seen

PagesVisitEveryProduct ==
  \A s \in Seller, size \in 1..3, filter \in Status \cup {"unspecified"} :
    Visited(s, size, filter) = Matching(s, 0, filter)

\* Whatever made a listing stale - a fill that overlapped a write, another
\* seller's keys, a failed or unfinished clearing - it does not last: unless
\* flights are shared again and again, the cache is again and again current.
StaleListingsExpire ==
  <>[](Joining = {}) => []<>(\A e \in cache : ~Stale(e))

\* product.proto: ListSellerProducts filters by the given product status.
ShowsWhatIsAsked ==
  \A r \in Filling : \A row \in reader[r].shown :
    reader[r].query[4] \in {"unspecified", row.status}
=============================================================================
