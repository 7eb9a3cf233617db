--------------------------- MODULE CatalogProofs ---------------------------
(***************************************************************************)
(* Proofs about Catalog for any sellers, products, page sizes, readers and *)
(* writers: the types; that page after page shows every product; that only *)
(* a shared flight shows what is not public; and that the cache is current *)
(* unless an overlap, a failure or a crash of those named made it stale.   *)
(***************************************************************************)
EXTENDS Catalog, Induction, SequenceTheorems
-----------------------------------------------------------------------------
(* Pages. *)

\* What is known of the products in every state.
Rows == products \in Seq(Row) /\ Len(products) <= MaxProduct

LEMMA ProductIds ==
  ASSUME Rows
  PROVE  /\ DOMAIN products = 1..Len(products) /\ Len(products) \in Nat
         /\ DOMAIN products \subseteq Id /\ IsFiniteSet(DOMAIN products)
<1>1. DOMAIN products = 1..Len(products) /\ Len(products) \in Nat
  BY DEF Rows
<1>2. MaxProduct \in Nat
  BY CatalogAssumption
<1>3. IsFiniteSet(1..Len(products))
  BY <1>1, FS_Interval
<1> QED BY <1>1, <1>2, <1>3 DEF Id, Rows

LEMMA FiniteIds == IsFiniteSet(Id) /\ Id \subseteq Nat
<1>1. MaxProduct \in Nat
  BY CatalogAssumption
<1>2. IsFiniteSet(1..MaxProduct)
  BY <1>1, FS_Interval
<1> QED BY <1>1, <1>2 DEF Id

LEMMA RowsBeforeType ==
  ASSUME NEW ids \in SUBSET Id, NEW p \in ids
  PROVE  /\ RowsBefore(ids, p) \in Nat /\ Skus[p] \in Nat \ {0}
         /\ RowsBefore(ids, p) = SumOf(Skus, {q \in ids : q < p})
         /\ IsFiniteSet({q \in ids : q < p}) /\ \A q \in ids : Skus[q] \in Nat \ {0}
<1>1. \A q \in ids : Skus[q] \in Nat \ {0}
  BY CatalogAssumption DEF Id
<1> DEFINE before == {q \in ids : q < p}
<1>2. IsFiniteSet(before) /\ \A q \in before : Skus[q] \in Nat
  <2>1. before \subseteq Id
    OBVIOUS
  <2> QED BY <1>1, <2>1, FiniteIds, FS_Subset
<1>3. SumOf(Skus, before) \in Nat
  BY <1>2, SumNat
<1>4. RowsBefore(ids, p) = SumOf(Skus, before)
  BY DEF RowsBefore, SumOf
<1> QED BY <1>1, <1>2, <1>3, <1>4

\* Before a later product there are the rows of the earlier one and those
\* before it.
LEMMA RowsInOrder ==
  ASSUME NEW ids \in SUBSET Id, NEW p \in ids, NEW q \in ids, q < p
  PROVE  RowsBefore(ids, q) + Skus[q] <= RowsBefore(ids, p)
<1> DEFINE before(r) == {i \in ids : i < r}
<1>1. ids \subseteq Nat
  BY FiniteIds
<1>2. before(q) \cup {q} \subseteq before(p) /\ q \notin before(q)
  <2>1. ASSUME NEW i \in ids, i < q PROVE i < p
    <3>1. i \in Nat /\ q \in Nat /\ p \in Nat
      BY <1>1
    <3> QED BY <2>1, <3>1
  <2>2. ~ (q < q)
    <3>1. q \in Nat
      BY <1>1
    <3> QED BY <3>1
  <2> QED BY <2>1, <2>2
<1>3. /\ RowsBefore(ids, q) = SumOf(Skus, before(q)) /\ RowsBefore(ids, q) \in Nat
      /\ RowsBefore(ids, p) = SumOf(Skus, before(p)) /\ RowsBefore(ids, p) \in Nat
      /\ IsFiniteSet(before(p)) /\ IsFiniteSet(before(q))
      /\ \A i \in ids : Skus[i] \in Nat \ {0}
  BY RowsBeforeType
<1>4. \A i \in before(p) : i \in ids /\ Skus[i] \in Nat
  BY <1>3
<1> HIDE DEF before
<1>5. SumOf(Skus, before(q) \cup {q}) = Skus[q] + SumOf(Skus, before(q))
  <2>1. \A i \in before(q) \cup {q} : Skus[i] \in Int
    BY <1>2, <1>4
  <2> QED BY <1>2, <1>3, <2>1, SumAdd
<1>6. SumOf(Skus, before(q) \cup {q}) <= SumOf(Skus, before(p))
  BY <1>2, <1>3, <1>4, SumMore
<1> QED BY <1>3, <1>5, <1>6

\* What LIMIT leaves is a beginning of the products, and not empty.
LEMMA PageIsBeginning ==
  ASSUME NEW ids \in SUBSET Id, NEW size \in Nat \ {0}
  PROVE  /\ \A p, q \in ids : (q < p /\ RowsOf(ids, p, size) > 0) => RowsOf(ids, q, size) > 0
         /\ ids # {} => \E p \in ids : RowsOf(ids, p, size) > 0
<1>1. ASSUME NEW p \in ids
      PROVE  RowsOf(ids, p, size) > 0 <=> RowsBefore(ids, p) < size
  <2>1. RowsBefore(ids, p) \in Nat /\ Skus[p] \in Nat \ {0}
    BY RowsBeforeType
  <2> QED BY <2>1 DEF RowsOf, Limited
<1>2. ASSUME NEW p \in ids, NEW q \in ids, q < p, RowsOf(ids, p, size) > 0
      PROVE  RowsOf(ids, q, size) > 0
  <2>1. /\ RowsBefore(ids, q) \in Nat /\ Skus[q] \in Nat \ {0} /\ RowsBefore(ids, p) \in Nat
        /\ RowsBefore(ids, q) + Skus[q] <= RowsBefore(ids, p)
    BY <1>2, RowsBeforeType, RowsInOrder
  <2>2. RowsBefore(ids, q) < size
    BY <1>1, <1>2, <2>1
  <2> QED BY <1>1, <2>2
<1>3. ASSUME ids # {} PROVE \E p \in ids : RowsOf(ids, p, size) > 0
  <2>1. PICK p \in ids : \A q \in ids : p <= q
    BY <1>3, FiniteIds, NatLeast
  <2>2. {q \in ids : q < p} = {}
    <3>1. ASSUME NEW q \in ids PROVE ~ (q < p)
      <4>1. q \in Nat /\ p \in Nat /\ p <= q
        BY <2>1, FiniteIds
      <4> QED BY <4>1
    <3> QED BY <3>1
  <2>3. RowsBefore(ids, p) = 0
    BY <2>2, RowsBeforeType, SumEmpty
  <2> QED BY <1>1, <2>3
<1> QED BY <1>2, <1>3

LEMMA MatchingIds ==
  ASSUME Rows, NEW s, NEW token \in Nat, NEW filter
  PROVE  /\ Matching(s, token, filter) = {p \in Matching(s, 0, filter) : p > token}
         /\ Matching(s, token, filter) \subseteq Id /\ 0 \notin Matching(s, 0, filter)
<1>1. DOMAIN products \subseteq Id /\ Id \subseteq Nat
  BY ProductIds, FiniteIds
<1>2. Matching(s, token, filter) \subseteq Id /\ Matching(s, 0, filter) \subseteq Nat
  BY <1>1 DEF Matching
<1>3. ASSUME NEW p \in DOMAIN products PROVE (p > token) => (p > 0)
  <2>1. p \in Nat
    BY <1>1
  <2> QED BY <2>1
<1>4. Matching(s, token, filter) = {p \in Matching(s, 0, filter) : p > token}
  BY <1>3 DEF Matching
<1>5. 0 \notin Matching(s, 0, filter)
  BY DEF Matching
<1> QED BY <1>2, <1>4, <1>5

\* The ids on a page.
LEMMA PageIds ==
  ASSUME NEW ids, NEW size
  PROVE  /\ Ids(Grouped(ids, size)) = {p \in ids : RowsOf(ids, p, size) > 0}
         /\ Grouped(ids, size) = {} <=> Ids(Grouped(ids, size)) = {}
<1> DEFINE on == {p \in ids : RowsOf(ids, p, size) > 0}
           row(p) == [id |-> p, status |-> products[p].status,
                      version |-> products[p].version, skus |-> RowsOf(ids, p, size)]
<1>1. Grouped(ids, size) = {row(p) : p \in on} /\ \A p : row(p).id = p
  BY DEF Grouped
<1> HIDE DEF on, row
<1>2. Ids(Grouped(ids, size)) = on
  BY <1>1 DEF Ids
<1>3. Grouped(ids, size) = {} <=> on = {}
  BY <1>1
<1> QED BY <1>2, <1>3 DEF on

\* Where a client is in the pages: it has seen all up to its token.
Position(all) ==
  {at \in [token : 0..MaxProduct, seen : SUBSET all] : \A p \in all : p <= at.token => p \in at.seen}

\* The next page leaves out nothing, and comes further unless it was the last.
LEMMA PageAdvances ==
  ASSUME Rows, NEW s, NEW size \in Nat \ {0}, NEW filter,
         NEW at \in Position(Matching(s, 0, filter))
  PROVE  /\ NextPage(s, size, filter, at) \in Position(Matching(s, 0, filter))
         /\ \/ NextPage(s, size, filter, at).token > at.token
            \/ /\ NextPage(s, size, filter, at).token = at.token
               /\ \A p \in Matching(s, 0, filter) : p <= at.token
<1> PICK all : all = Matching(s, 0, filter)
  OBVIOUS
<1> PICK ids : ids = Matching(s, at.token, filter)
  OBVIOUS
<1> PICK page : page = Listing(s, at.token, size, filter)
  OBVIOUS
<1> PICK next : next = NextPage(s, size, filter, at)
  OBVIOUS
<1>1. /\ at.token \in 0..MaxProduct /\ at.seen \subseteq all
      /\ \A p \in all : p <= at.token => p \in at.seen
  BY DEF Position
<1>2. MaxProduct \in Nat
  BY CatalogAssumption
<1>3. at.token \in Nat
  BY <1>1, <1>2
<1>4. ids = {p \in all : p > at.token} /\ ids \subseteq Id /\ Id \subseteq Nat
  BY <1>3, MatchingIds, FiniteIds
<1>5. all \subseteq Nat
  <2>1. Matching(s, 0, filter) \subseteq Id
    BY MatchingIds
  <2> QED BY <1>4, <2>1
<1>6. Ids(page) = {p \in ids : RowsOf(ids, p, size) > 0} /\ (page = {} <=> Ids(page) = {})
  BY PageIds DEF Listing
<1>7. /\ next.token = NextToken(at.token, page) /\ next.seen = at.seen \cup Ids(page)
      /\ next = [token |-> NextToken(at.token, page), seen |-> at.seen \cup Ids(page)]
  BY DEF NextPage
<1>8. /\ \A p, q \in ids : (q < p /\ p \in Ids(page)) => q \in Ids(page)
      /\ ids # {} => Ids(page) # {}
  <2>1. ids \in SUBSET Id
    BY <1>4
  <2> QED BY <1>6, <2>1, PageIsBeginning
<1>9. CASE page = {}
  <2>1. ids = {}
    BY <1>6, <1>8, <1>9
  <2>2. \A p \in all : p <= at.token
    BY <1>3, <1>4, <1>5, <2>1
  <2>3. next = [token |-> at.token, seen |-> at.seen]
    BY <1>6, <1>7, <1>9 DEF NextToken
  <2>4. at = next
    <3>1. at = [token |-> at.token, seen |-> at.seen]
      BY DEF Position
    <3> QED BY <2>3, <3>1
  <2> QED BY <2>2, <2>4
<1>10. CASE page # {}
  <2>1. Ids(page) \subseteq ids /\ Ids(page) # {}
    BY <1>6, <1>10
  <2>2. Ids(page) \subseteq 0..MaxProduct
    <3>1. Id \subseteq 0..MaxProduct
      BY <1>2 DEF Id
    <3> QED BY <1>4, <2>1, <3>1
  <2>3. PICK last : last = LastOf(page)
    OBVIOUS
  <2>4. last \in Ids(page) /\ \A q \in Ids(page) : q <= last
    <3>1. \E x \in Ids(page) : \A y \in Ids(page) : y <= x
      BY <1>2, <2>1, <2>2, NatGreatest
    <3> QED BY <2>3, <3>1 DEF LastOf
  <2>5. next = [token |-> last, seen |-> at.seen \cup Ids(page)]
    BY <1>7, <1>10, <2>3 DEF NextToken
  <2>6. last > at.token /\ last \in Nat /\ last \in 0..MaxProduct /\ last \in ids
    BY <1>4, <2>1, <2>2, <2>4
  <2>7. ASSUME NEW p \in all, p <= last PROVE p \in at.seen \cup Ids(page)
    <3>1. p \in Nat
      BY <1>5
    <3>2. CASE p <= at.token
      BY <1>1, <3>2
    <3>3. CASE p > at.token
      <4>1. p \in ids
        BY <1>4, <3>3
      <4>2. p = last \/ p < last
        BY <2>6, <2>7, <3>1
      <4> QED BY <1>8, <2>4, <2>6, <4>1, <4>2
    <3> QED BY <1>3, <3>1, <3>2, <3>3
  <2>8. at.seen \cup Ids(page) \subseteq all
    BY <1>1, <1>4, <2>1
  <2>9. next \in Position(all)
    BY <2>5, <2>6, <2>7, <2>8 DEF Position
  <2> QED BY <2>5, <2>6, <2>9
<1> QED BY <1>9, <1>10

\* Asking for page after page shows every product once there were as many
\* pages as there can be products.
LEMMA PagesVisit ==
  ASSUME Rows, NEW s, NEW size \in Nat \ {0}, NEW filter
  PROVE  Visited(s, size, filter) = Matching(s, 0, filter)
<1> PICK all : all = Matching(s, 0, filter)
  OBVIOUS
<1> PICK V : V = Position(all)
  OBVIOUS
<1> PICK first : first = [token |-> 0, seen |-> {}]
  OBVIOUS
<1> PICK step : step = [x \in Nat \X V |-> NextPage(s, size, filter, x[2])]
  OBVIOUS
<1>1. MaxProduct \in Nat
  BY CatalogAssumption
<1>2. all \subseteq Nat /\ 0 \notin all /\ all \subseteq 0..MaxProduct
  <2>1. Matching(s, 0, filter) \subseteq Id /\ 0 \notin Matching(s, 0, filter)
    BY MatchingIds
  <2> QED BY <1>1, <2>1 DEF Id
<1>3. first \in V
  <2>1. 0 \in 0..MaxProduct /\ \A p \in all : ~ (p <= 0)
    BY <1>1, <1>2
  <2> QED BY <2>1 DEF Position
<1>4. \A at \in V : NextPage(s, size, filter, at) \in V
  BY PageAdvances
<1>5. step \in [Nat \X V -> V]
  BY <1>4
<1>6. PICK g : Recurs(g, MaxProduct, V, first, step)
  BY <1>1, <1>3, <1>5, RecursExists
<1>7. /\ g \in [0..MaxProduct -> V] /\ g[0] = first
      /\ \A n \in 0..(MaxProduct - 1) : g[n + 1] = NextPage(s, size, filter, g[n])
  <2>1. ASSUME NEW n \in 0..(MaxProduct - 1) PROVE g[n + 1] = NextPage(s, size, filter, g[n])
    <3>1. n \in Nat /\ n \in 0..MaxProduct
      BY <1>1
    <3>2. g[n] \in V
      BY <1>6, <3>1 DEF Recurs
    <3>3. g[n + 1] = step[<<n, g[n]>>] /\ <<n, g[n]>> \in Nat \X V
      BY <1>6, <3>1, <3>2 DEF Recurs
    <3> QED BY <3>3
  <2> QED BY <1>6, <2>1 DEF Recurs
<1> DEFINE Fits(f) == f = [n \in 0..MaxProduct |->
                       IF n = 0 THEN [token |-> 0, seen |-> {}]
                       ELSE NextPage(s, size, filter, f[n - 1])]
<1>8. Fits(g)
  <2>1. ASSUME NEW n \in 0..MaxProduct, n # 0 PROVE g[n] = NextPage(s, size, filter, g[n - 1])
    <3>1. n - 1 \in 0..(MaxProduct - 1) /\ (n - 1) + 1 = n
      BY <1>1, <2>1
    <3> QED BY <1>7, <3>1
  <2> QED BY <1>7, <2>1
<1>9. PICK h : h = CHOOSE f : Fits(f)
  OBVIOUS
<1>10. Visited(s, size, filter) = h[MaxProduct].seen
  BY Zenon, <1>9 DEF Visited
<1> HIDE DEF Fits
<1>11. Fits(h)
  BY <1>8, <1>9
<1>12. /\ h[0] = first
       /\ \A n \in 0..MaxProduct : n # 0 => h[n] = NextPage(s, size, filter, h[n - 1])
  <2>1. 0 \in 0..MaxProduct
    BY <1>1
  <2> QED BY <1>11, <2>1 DEF Fits
<1>13. PICK P : P = {n \in Nat : n <= MaxProduct =>
                       /\ h[n] \in V
                       /\ h[n].token >= n \/ \A p \in all : p <= h[n].token}
  OBVIOUS
<1>14. 0 \in P
  BY <1>3, <1>12, <1>13
<1>15. ASSUME NEW n \in Nat, n \in P PROVE n + 1 \in P
  <2> SUFFICES ASSUME n + 1 <= MaxProduct
               PROVE  /\ h[n + 1] \in V
                      /\ h[n + 1].token >= n + 1 \/ \A p \in all : p <= h[n + 1].token
    BY <1>13
  <2> PICK at : at = h[n]
    OBVIOUS
  <2> PICK next : next = h[n + 1]
    OBVIOUS
  <2>1. n + 1 \in 0..MaxProduct /\ n + 1 # 0 /\ (n + 1) - 1 = n /\ n <= MaxProduct
    BY <1>1
  <2>2. next = NextPage(s, size, filter, at)
    BY <1>12, <2>1
  <2>3. at \in V /\ (at.token >= n \/ \A p \in all : p <= at.token)
    BY <1>13, <1>15, <2>1
  <2>4. /\ next \in V
        /\ next.token > at.token \/ (next.token = at.token /\ \A p \in all : p <= at.token)
    BY <2>2, <2>3, PageAdvances
  <2>5. at.token \in Nat /\ next.token \in Nat
    BY <1>1, <2>3, <2>4 DEF Position
  <2>6. next.token >= n + 1 \/ \A p \in all : p <= next.token
    <3>1. CASE next.token = at.token /\ \A p \in all : p <= at.token
      BY <3>1
    <3>2. CASE next.token > at.token /\ at.token >= n
      BY <2>5, <3>2
    <3>3. CASE next.token > at.token /\ \A p \in all : p <= at.token
      <4>1. ASSUME NEW p \in all PROVE p <= next.token
        <5>1. p \in Nat /\ p <= at.token
          BY <1>2, <3>3
        <5> QED BY <2>5, <3>3, <5>1
      <4> QED BY <4>1
    <3> QED BY <2>3, <2>4, <3>1, <3>2, <3>3
  <2> QED BY <2>4, <2>6
<1>16. MaxProduct \in P
  BY <1>1, <1>14, <1>15, NatInducts
<1>17. PICK end : end = h[MaxProduct]
  OBVIOUS
<1>18. end \in V /\ (end.token >= MaxProduct \/ \A p \in all : p <= end.token)
  BY <1>1, <1>13, <1>16, <1>17
<1>19. end.seen \subseteq all /\ end.token \in Nat /\ \A p \in all : p <= end.token => p \in end.seen
  BY <1>1, <1>18 DEF Position
<1>20. \A p \in all : p <= end.token
  <2>1. ASSUME NEW p \in all, end.token >= MaxProduct PROVE p <= end.token
    BY <1>1, <1>2, <1>19, <2>1
  <2> QED BY <1>18, <2>1
<1> QED BY <1>10, <1>17, <1>19, <1>20

-----------------------------------------------------------------------------
(* The inductive invariant. *)

Filter == Status \cup {"unspecified"}
Queries == Listed \X {0} \X Page \X Filter
ShownRow == [id : Id, status : Status, version : 1..(MaxWrites + 1), skus : Int]
Request == [at : {"leading", "joined", "loaded", "stored"}, key : Queries, query : Queries,
            public : BOOLEAN, shown : SUBSET ShownRow]
Write == [at : {"committed", "read", "deleted"}, seller : Seller, foreign : BOOLEAN,
          keys : SUBSET Queries]
Entry == Queries \X [query : Queries, shown : SUBSET ShownRow]

\* The state by its types: a key is the query it answers.
Typed ==
  /\ products \in Seq(Row) /\ Len(products) <= MaxProduct
  /\ \A p \in DOMAIN products : products[p].version <= writes + 1
  /\ cache \subseteq Entry /\ \A e \in cache : e[2].query = e[1]
  /\ \A e, f \in cache : e[1] = f[1] => e = f
  /\ keySet \in [Seller -> SUBSET Queries]
  /\ flight \in [Listed -> Reader \cup {"none"}]
  /\ reader \in [Reader -> Request \cup {NoRequest}]
  /\ \A r \in Reader : reader[r].at # "idle" => reader[r].key = reader[r].query
  /\ writer \in [Writer -> Write \cup {NoWrite}]
  /\ exposed \in BOOLEAN /\ writes \in 0..MaxWrites /\ fails \in 0..MaxFails

\* The leader of a flight and the flight know each other.
Led ==
  /\ \A s \in Listed : flight[s] # "none" => /\ reader[flight[s]].at = "leading"
                                             /\ reader[flight[s]].query[1] = s
  /\ \A r \in Reader : reader[r].at = "leading" => flight[reader[r].query[1]] = r

\* What is happening now has been counted.
Counted == Overlaps \subseteq overlaps

Conforms(q, shown) == q[4] # "unspecified" => \A row \in shown : row.status = q[4]

\* Who may see active products only has asked for those; what is held for a
\* query conforms to it, unless a flight was shared.
AsAsked ==
  /\ \A r \in Reader : (reader[r].at # "idle" /\ reader[r].public) => reader[r].query[4] = "active"
  /\ "flight" \notin overlaps =>
       /\ ~exposed
       /\ \A r \in Filling : Conforms(reader[r].query, reader[r].shown)
       /\ \A e \in cache : Conforms(e[1], e[2].shown)

\* Nothing overlapped and nothing failed.
Quiet == overlaps = {} /\ fails = 0

\* What is about to be stored is current.
FillsCurrent == \A r \in Filling : reader[r].shown = Run(reader[r].query)

\* Every key in the cache is tracked or is about to be.
KeysKnown ==
  \A e \in cache : \/ e[1] \in keySet[e[1][1]]
                   \/ \E r \in Reader : reader[r].at = "stored" /\ reader[r].key = e[1]

\* A writer has read all the cached keys of its seller, or has deleted them.
KeysRead ==
  \A w \in Writer, e \in cache :
    (writer[w].at # "idle" /\ writer[w].seller = e[1][1]) =>
       /\ writer[w].at = "read" => e[1] \in writer[w].keys
       /\ writer[w].at # "deleted"

\* What is not current is still to be deleted.
StaleGoes ==
  \A e \in cache : Stale(e) =>
    \E w \in Writer : writer[w].at \in {"committed", "read"} /\ writer[w].seller = e[1][1]

Tracked == Quiet => FillsCurrent /\ KeysKnown /\ KeysRead /\ StaleGoes

CatalogInv == Typed /\ Led /\ Counted /\ AsAsked /\ Tracked

LEMMA CatalogCases ==
  ASSUME CatalogNext
  PROVE  /\ overlaps' = overlaps \cup Overlaps'
         /\ \/ \E r \in Reader, s \in Listed, size \in Page, asked \in Asked, c \in Caller :
                 List(r, s, 0, size, asked, c.user, c.role)
            \/ \E r \in Reader : Query(r)
            \/ \E r \in Reader : FailQuery(r)
            \/ \E r \in Reader : Store(r)
            \/ \E r \in Reader : Track(r)
            \/ \E e \in cache : Expire(e)
            \/ \E w \in Writer, asked \in [seller : Seller, status : Status], c \in Caller :
                 Create(w, asked, c.user, c.role)
            \/ \E w \in Writer, asked \in [seller : Seller, status : Status], c \in Caller, p \in Id :
                 Update(w, p, asked, c.user, c.role)
            \/ \E w \in Writer : ReadKeys(w)
            \/ \E w \in Writer : DeleteKeys(w)
            \/ \E w \in Writer : DeleteSet(w)
            \/ \E R \in SUBSET Reader, W \in SUBSET Writer : Crash(R, W)
BY DEF CatalogNext, CatalogStep

\* A listing shows what is cached, or makes a request.
Hit(key, public) ==
  /\ \E e \in Cached(key) : Show(public, e[2].shown)
  /\ Ok /\ UNCHANGED <<flight, reader>>
Miss(r, s, key, query, public) ==
  /\ reader[r].at = "idle" /\ (Ok \/ Err)
  /\ reader' = [reader EXCEPT ![r] =
       [at |-> IF flight[s] = "none" THEN "leading" ELSE "joined",
        key |-> key, query |-> query, public |-> public, shown |-> {}]]
  /\ flight' = [flight EXCEPT ![s] = IF flight[s] = "none" THEN r ELSE flight[s]]
  /\ UNCHANGED exposed

LEMMA ListIs ==
  ASSUME NEW r \in Reader, NEW s, NEW size, NEW asked, NEW c, NEW filter, NEW key,
         filter = StatusFilter(asked, s, c.user, c.role), key = KeyOf(s, 0, size, filter),
         List(r, s, 0, size, asked, c.user, c.role)
  PROVE  /\ UNCHANGED <<products, cache, keySet, writer, writes>>
         /\ \/ Hit(key, Public(s, c.user, c.role))
            \/ Miss(r, s, key, <<s, 0, size, filter>>, Public(s, c.user, c.role))
BY DEF List, Hit, Miss

\* A crash leaves a request as it is or ends it.
LEMMA CrashIs ==
  ASSUME Typed, NEW R \in SUBSET Reader, NEW W \in SUBSET Writer, Crash(R, W)
  PROVE  /\ UNCHANGED <<products, cache, keySet, exposed, writes>> /\ (Ok \/ Err)
         /\ reader' \in [Reader -> Request \cup {NoRequest}]
         /\ \A r \in Reader : \/ r \notin R /\ reader'[r] = reader[r]
                              \/ r \in R /\ reader'[r].at = "idle"
         /\ writer' \in [Writer -> Write \cup {NoWrite}]
         /\ \A w \in Writer : \/ w \notin W /\ writer'[w] = writer[w]
                              \/ w \in W /\ writer'[w].at = "idle"
         /\ flight' \in [Listed -> Reader \cup {"none"}]
         /\ \A s \in Listed : flight'[s] = IF flight[s] \in R THEN "none" ELSE flight[s]
<1>1. /\ UNCHANGED <<products, cache, keySet, exposed, writes>> /\ (Ok \/ Err)
      /\ reader' = [r \in Reader |-> IF r \in R THEN NoRequest ELSE reader[r]]
      /\ writer' = [w \in Writer |-> IF w \in W THEN NoWrite ELSE writer[w]]
      /\ flight' = [s \in Listed |-> IF flight[s] \in R THEN "none" ELSE flight[s]]
  BY DEF Crash
<1>2. /\ reader \in [Reader -> Request \cup {NoRequest}]
      /\ writer \in [Writer -> Write \cup {NoWrite}]
      /\ flight \in [Listed -> Reader \cup {"none"}]
  BY DEF Typed
<1>3. NoRequest.at = "idle" /\ NoWrite.at = "idle"
  BY DEF NoRequest, NoWrite
<1>4. reader' \in [Reader -> Request \cup {NoRequest}]
  BY <1>1, <1>2
<1>5. writer' \in [Writer -> Write \cup {NoWrite}]
  BY <1>1, <1>2
<1>6. flight' \in [Listed -> Reader \cup {"none"}]
  BY <1>1, <1>2
<1>7. \A r \in Reader : \/ r \notin R /\ reader'[r] = reader[r]
                        \/ r \in R /\ reader'[r].at = "idle"
  <2>1. ASSUME NEW r \in Reader, r \in R PROVE reader'[r] = NoRequest
    BY <1>1, <2>1
  <2>2. ASSUME NEW r \in Reader, r \notin R PROVE reader'[r] = reader[r]
    BY <1>1, <2>2
  <2> QED BY <1>3, <2>1, <2>2
<1>8. \A w \in Writer : \/ w \notin W /\ writer'[w] = writer[w]
                        \/ w \in W /\ writer'[w].at = "idle"
  <2>1. ASSUME NEW w \in Writer, w \in W PROVE writer'[w] = NoWrite
    BY <1>1, <2>1
  <2>2. ASSUME NEW w \in Writer, w \notin W PROVE writer'[w] = writer[w]
    BY <1>1, <2>2
  <2> QED BY <1>3, <2>1, <2>2
<1>9. \A s \in Listed : flight'[s] = IF flight[s] \in R THEN "none" ELSE flight[s]
  BY <1>1
<1> QED BY <1>1, <1>4, <1>5, <1>6, <1>7, <1>8, <1>9

\* What a role gets to see, and who is shown active products only.
LEMMA FilterIs ==
  ASSUME NEW asked \in Asked, NEW s \in Listed, NEW c \in Caller
  PROVE  /\ StatusFilter(asked, s, c.user, c.role) \in Filter
         /\ Public(s, c.user, c.role) => StatusFilter(asked, s, c.user, c.role) = "active"
         /\ Public(s, c.user, c.role) \in BOOLEAN
<1>1. c.role \in {"merchant", "admin", "customer"}
  BY DEF Caller
<1>2. asked \in Filter /\ "active" \in Filter /\ "unspecified" \in Filter
  BY CatalogAssumption DEF Filter, Status
<1> QED BY <1>1, <1>2 DEF StatusFilter, Public

\* Rows of the query's seller, of the query's status.
LEMMA RunType ==
  ASSUME Rows, NEW q \in Queries
  PROVE  Run(q) \in SUBSET ShownRow /\ Conforms(q, Run(q))
<1> DEFINE ids == Matching(q[1], q[2], q[4])
           row(p) == [id |-> p, status |-> products[p].status,
                      version |-> products[p].version, skus |-> RowsOf(ids, p, q[3])]
<1>1. q[3] \in Int /\ q[2] = 0
  BY CatalogAssumption DEF Queries
<1>2. ids \subseteq DOMAIN products /\ ids \in SUBSET Id
  BY ProductIds DEF Matching
<1>3. \A x \in Run(q) : \E p \in ids : x = row(p)
  BY DEF Run, Listing, Grouped
<1>4. ASSUME NEW p \in ids PROVE row(p) \in ShownRow
  <2>1. products[p] \in Row
    BY <1>2 DEF Rows
  <2>2. RowsBefore(ids, p) \in Nat /\ Skus[p] \in Nat
    BY <1>2, RowsBeforeType
  <2>3. RowsOf(ids, p, q[3]) \in Int
    BY <1>1, <2>2 DEF RowsOf, Limited
  <2>4. p \in Id
    BY <1>2
  <2> HIDE DEF ids
  <2> QED BY <2>1, <2>3, <2>4 DEF ShownRow, Row
<1>5. ASSUME NEW p \in ids, q[4] # "unspecified" PROVE row(p).status = q[4]
  BY <1>5 DEF Matching
<1> HIDE DEF ids, row
<1>6. Run(q) \subseteq ShownRow
  BY <1>3, <1>4
<1>7. Conforms(q, Run(q))
  BY <1>3, <1>5 DEF Conforms
<1> QED BY <1>6, <1>7

LEMMA TypedInit == CatalogInit => Typed
<1> SUFFICES ASSUME CatalogInit PROVE Typed
  OBVIOUS
<1>1. MaxWrites \in Nat /\ MaxProduct \in Nat /\ MaxFails \in Nat
  BY CatalogAssumption
<1>2. PICK n \in 0..MaxProduct :
        products \in [1..n -> {row \in Row : row.seller \in Listed /\ row.version = 1}]
  BY DEF CatalogInit
<1>3. products \in [1..n -> Row] /\ \A p \in 1..n : products[p].version = 1
  BY <1>2
<1>4. products \in Seq(Row) /\ Len(products) = n /\ DOMAIN products = 1..n
  BY <1>1, <1>2, <1>3
<1>5. writes \in Nat /\ \A p \in DOMAIN products : products[p].version <= writes + 1
  BY <1>1, <1>3, <1>4 DEF CatalogInit
<1>6. /\ cache = {} /\ keySet = [s \in Seller |-> {}] /\ flight = [s \in Listed |-> "none"]
      /\ reader = [r \in Reader |-> NoRequest] /\ writer = [w \in Writer |-> NoWrite]
      /\ exposed = FALSE /\ writes \in 0..MaxWrites /\ fails \in 0..MaxFails
  BY DEF CatalogInit
<1>7. Len(products) <= MaxProduct
  BY <1>1, <1>4
<1>8. \A r \in Reader : reader[r].at = "idle"
  BY <1>6 DEF NoRequest
<1> QED BY <1>4, <1>5, <1>6, <1>7, <1>8 DEF Typed

\* The request of a listing that is not in the cache.
LEMMA RequestType ==
  ASSUME NEW s \in Listed, NEW size \in Page, NEW asked \in Asked, NEW c \in Caller,
         NEW filter, filter = StatusFilter(asked, s, c.user, c.role),
         NEW at \in {"leading", "joined"}
  PROVE  /\ KeyOf(s, 0, size, filter) = <<s, 0, size, filter>>
         /\ <<s, 0, size, filter>> \in Queries
         /\ [at |-> at, key |-> KeyOf(s, 0, size, filter), query |-> <<s, 0, size, filter>>,
             public |-> Public(s, c.user, c.role), shown |-> {}] \in Request
<1>1. filter \in Filter /\ Public(s, c.user, c.role) \in BOOLEAN
  BY FilterIs
<1>2. <<s, 0, size, filter>> \in Queries /\ KeyOf(s, 0, size, filter) = <<s, 0, size, filter>>
  BY <1>1 DEF Queries, KeyOf
<1> QED BY <1>1, <1>2 DEF Request

LEMMA FailsType ==
  ASSUME fails \in 0..MaxFails, Ok \/ Err
  PROVE  fails' \in 0..MaxFails /\ (fails' = 0 => Ok /\ fails = 0)
<1>1. MaxFails \in Nat
  BY CatalogAssumption
<1> QED BY <1>1 DEF Ok, Err

LEMMA ReaderIs ==
  ASSUME Typed, NEW r \in Reader, reader[r].at # "idle"
  PROVE  reader[r] \in Request /\ reader[r].key = reader[r].query
<1>1. reader[r] \in Request \cup {NoRequest} /\ reader[r].key = reader[r].query
  BY DEF Typed
<1> QED BY <1>1 DEF NoRequest

LEMMA WriterIs ==
  ASSUME Typed, NEW w \in Writer, writer[w].at # "idle"
  PROVE  writer[w] \in Write
<1>1. writer[w] \in Write \cup {NoWrite}
  BY DEF Typed
<1> QED BY <1>1 DEF NoWrite

LEMMA ProductIs ==
  ASSUME Typed, NEW p \in DOMAIN products
  PROVE  /\ products[p] \in Row /\ products[p].version \in 1..(MaxWrites + 1)
         /\ products[p].version \in Int /\ products[p].version <= writes + 1
<1>1. products[p] \in Row /\ products[p].version <= writes + 1
  <2>1. products \in Seq(Row)
    BY DEF Typed
  <2>2. products[p] \in Row
    BY <2>1
  <2> QED BY <2>2 DEF Typed
<1>2. MaxWrites \in Nat
  BY CatalogAssumption
<1> QED BY <1>1, <1>2 DEF Row

LEMMA TypedStep == Typed /\ Led /\ [CatalogNext]_catalogVars => Typed'
<1> SUFFICES ASSUME Typed, Led, [CatalogNext]_catalogVars PROVE Typed'
  OBVIOUS
<1>0. MaxWrites \in Nat /\ MaxProduct \in Nat /\ MaxFails \in Nat
  BY CatalogAssumption
<1>1. ASSUME NEW r \in Reader, NEW s \in Listed, NEW size \in Page, NEW asked \in Asked,
             NEW c \in Caller, List(r, s, 0, size, asked, c.user, c.role)
      PROVE  Typed'
  <2> PICK filter : filter = StatusFilter(asked, s, c.user, c.role)
    OBVIOUS
  <2> PICK key : key = KeyOf(s, 0, size, filter)
    OBVIOUS
  <2> PICK public : public = Public(s, c.user, c.role)
    OBVIOUS
  <2>1. /\ UNCHANGED <<products, cache, keySet, writer, writes>>
        /\ Hit(key, public) \/ Miss(r, s, key, <<s, 0, size, filter>>, public)
    BY <1>1, ListIs
  <2>4. exposed' \in BOOLEAN /\ fails' \in 0..MaxFails
    <3>1. Ok \/ Err
      BY <2>1 DEF Hit, Miss
    <3>2. exposed' \in BOOLEAN
      BY <2>1 DEF Hit, Miss, Show, Typed
    <3> QED BY <3>1, <3>2, FailsType DEF Typed
  <2>2. CASE Hit(key, public)
    BY <2>1, <2>2, <2>4 DEF Typed, Hit
  <2>3. CASE Miss(r, s, key, <<s, 0, size, filter>>, public)
    <3> PICK at \in {"leading", "joined"} : at = IF flight[s] = "none" THEN "leading" ELSE "joined"
      OBVIOUS
    <3> PICK request : request = [at |-> at, key |-> key, query |-> <<s, 0, size, filter>>,
                                  public |-> public, shown |-> {}]
      OBVIOUS
    <3>1. reader' = [reader EXCEPT ![r] = request]
          /\ flight' = [flight EXCEPT ![s] = IF flight[s] = "none" THEN r ELSE flight[s]]
      BY <2>3 DEF Miss
    <3>2. request \in Request /\ request.key = request.query
      BY RequestType
    <3>3. reader' \in [Reader -> Request \cup {NoRequest}]
          /\ flight' \in [Listed -> Reader \cup {"none"}]
      BY <3>1, <3>2 DEF Typed
    <3>4. \A q \in Reader : reader'[q].at # "idle" => reader'[q].key = reader'[q].query
      BY <3>1, <3>2 DEF Typed
    <3> QED BY <2>1, <2>4, <3>3, <3>4 DEF Typed
  <2> QED BY <2>1, <2>2, <2>3
<1>2. ASSUME NEW r \in Reader, Query(r) PROVE Typed'
  <2> PICK s : s = reader[r].query[1]
    OBVIOUS
  <2> PICK listing : listing = Run(reader[r].query)
    OBVIOUS
  <2>1. /\ reader[r].at = "leading"
        /\ reader' = [q \in Reader |-> IF q \in InFlight(s)
                                       THEN [reader[q] EXCEPT !.at = "loaded", !.shown = listing]
                                       ELSE reader[q]]
        /\ flight' = [flight EXCEPT ![s] = "none"]
        /\ UNCHANGED <<products, cache, keySet, writer, fails, exposed, writes>>
    BY <1>2 DEF Query, Ended
  <2>2. reader[r] \in Request /\ listing \in SUBSET ShownRow
    <3>1. reader[r] \in Request
      BY <2>1, ReaderIs
    <3>2. reader[r].query \in Queries /\ Rows
      BY <3>1 DEF Request, Typed, Rows
    <3> QED BY <3>1, <3>2, RunType
  <2>3. ASSUME NEW q \in Reader
        PROVE  /\ reader'[q] \in Request \cup {NoRequest}
               /\ reader'[q].at # "idle" => reader'[q].key = reader'[q].query
    <3>1. CASE q \in InFlight(s)
      <4>1. reader[q] \in Request /\ reader[q].key = reader[q].query
        BY <3>1, ReaderIs DEF InFlight
      <4>2. reader'[q] = [reader[q] EXCEPT !.at = "loaded", !.shown = listing]
        BY <2>1, <3>1
      <4> QED BY <2>2, <4>1, <4>2 DEF Request
    <3>2. CASE q \notin InFlight(s)
      BY <2>1, <3>2 DEF Typed
    <3> QED BY <3>1, <3>2
  <2>4. reader' \in [Reader -> Request \cup {NoRequest}]
    BY <2>1, <2>3
  <2> QED BY <2>1, <2>3, <2>4 DEF Typed
<1>3. ASSUME NEW r \in Reader, FailQuery(r) PROVE Typed'
  BY <1>3 DEF FailQuery, Ended, Typed, NoRequest
<1>4. ASSUME NEW r \in Reader, Store(r) PROVE Typed'
  <2> PICK k : k = reader[r].key
    OBVIOUS
  <2> PICK new : new = <<k, [query |-> reader[r].query, shown |-> reader[r].shown]>>
    OBVIOUS
  <2>1. /\ reader[r].at = "loaded"
        /\ cache' = (cache \ Cached(k)) \cup {new} \/ UNCHANGED cache
        /\ reader' = [reader EXCEPT ![r].at = "stored"]
        /\ Ok \/ Err
        /\ UNCHANGED <<products, keySet, flight, writer, exposed, writes>>
    BY <1>4 DEF Store
  <2>2. reader[r] \in Request /\ reader[r].key = reader[r].query
    BY <2>1, ReaderIs
  <2>3. new \in Entry /\ new[1] = k /\ new[2].query = new[1]
    BY <2>2 DEF Request, Entry
  <2>4. \A e \in cache : e[1] = k => e \in Cached(k)
    BY DEF Cached
  <2>5. /\ cache' \subseteq Entry /\ \A e \in cache' : e[2].query = e[1]
        /\ \A e, f \in cache' : e[1] = f[1] => e = f
    BY <2>1, <2>3, <2>4 DEF Typed
  <2>6. reader' \in [Reader -> Request \cup {NoRequest}]
    BY <2>1, <2>2 DEF Typed, Request
  <2>7. \A q \in Reader : reader'[q].at # "idle" => reader'[q].key = reader'[q].query
    BY <2>1, <2>2 DEF Typed, Request
  <2>8. fails' \in 0..MaxFails
    BY <2>1, FailsType DEF Typed
  <2> QED BY <2>1, <2>5, <2>6, <2>7, <2>8 DEF Typed
<1>5. ASSUME NEW r \in Reader, Track(r) PROVE Typed'
  <2>1. /\ reader[r].at = "stored"
        /\ \/ keySet' = [keySet EXCEPT ![reader[r].query[1]] = keySet[reader[r].query[1]] \cup {reader[r].key}]
           \/ UNCHANGED keySet
        /\ reader' = [reader EXCEPT ![r] = NoRequest] /\ exposed' \in BOOLEAN
        /\ Ok \/ Err
        /\ UNCHANGED <<products, cache, flight, writer, writes>>
    BY <1>5 DEF Track, Show, Typed
  <2>2. reader[r].key \in Queries
    <3>1. reader[r] \in Request
      BY <2>1, ReaderIs
    <3> QED BY <3>1 DEF Request
  <2>3. keySet' \in [Seller -> SUBSET Queries]
    BY <2>1, <2>2 DEF Typed
  <2>4. /\ reader' \in [Reader -> Request \cup {NoRequest}]
        /\ \A q \in Reader : reader'[q].at # "idle" => reader'[q].key = reader'[q].query
    BY <2>1 DEF Typed, NoRequest
  <2>5. fails' \in 0..MaxFails
    BY <2>1, FailsType DEF Typed
  <2> QED BY <2>1, <2>3, <2>4, <2>5 DEF Typed
<1>6. ASSUME NEW e \in cache, Expire(e) PROVE Typed'
  BY <1>6 DEF Expire, Typed
<1>7. ASSUME NEW w \in Writer, NEW asked \in [seller : Seller, status : Status], NEW c \in Caller,
             Create(w, asked, c.user, c.role)
      PROVE  Typed'
  <2> PICK product : product = ProductsFilter(asked, c.user, c.role)
    OBVIOUS
  <2> PICK row : row = [seller |-> product.seller, status |-> product.status, version |-> 1]
    OBVIOUS
  <2>1. /\ Cardinality(DOMAIN products) + 1 \in Id /\ products' = Append(products, row)
        /\ writer' = [writer EXCEPT ![w] = Clearing(product.seller, FALSE)]
        /\ writes < MaxWrites /\ writes' = writes + 1
        /\ UNCHANGED <<cache, keySet, flight, reader, fails, exposed>>
    BY <1>7 DEF Create, Begin, Inserted
  <2>2. product.seller \in Seller /\ product.status \in Status
    BY DEF ProductsFilter, Caller, Status
  <2>3. row \in Row
    BY <1>0, <2>2 DEF Row
  <2>4. Len(products) + 1 <= MaxProduct
    <3>1. Cardinality(DOMAIN products) = Len(products)
      <4>1. DOMAIN products = 1..Len(products) /\ Len(products) \in Nat
        BY ProductIds DEF Typed, Rows
      <4>2. Cardinality(1..Len(products)) = Len(products)
        BY <4>1, FS_Interval
      <4> QED BY <4>1, <4>2
    <3> QED BY <1>0, <2>1, <3>1 DEF Id
  <2>5. /\ products' \in Seq(Row) /\ Len(products') = Len(products) + 1
        /\ \A p \in DOMAIN products' : p \in DOMAIN products \/ p = Len(products) + 1
        /\ \A p \in DOMAIN products : products'[p] = products[p]
        /\ products'[Len(products) + 1] = row
    BY <2>1, <2>3 DEF Typed
  <2>6. \A p \in DOMAIN products : products[p].version \in Int /\ products[p].version <= writes + 1
    BY ProductIs
  <2>7. \A p \in DOMAIN products' : products'[p].version <= writes' + 1
    BY <1>0, <2>1, <2>5, <2>6 DEF Typed
  <2>8. writer' \in [Writer -> Write \cup {NoWrite}]
    <3>1. Clearing(product.seller, FALSE) \in Write
      BY <2>2 DEF Clearing, Write
    <3> QED BY <2>1, <3>1 DEF Typed
  <2>9. writes' \in 0..MaxWrites
    BY <1>0, <2>1 DEF Typed
  <2> QED BY <2>1, <2>4, <2>5, <2>7, <2>8, <2>9 DEF Typed
<1>8. ASSUME NEW w \in Writer, NEW asked \in [seller : Seller, status : Status], NEW c \in Caller,
             NEW p \in Id, Update(w, p, asked, c.user, c.role)
      PROVE  Typed'
  <2> PICK s : s = ProductsFilter(asked, c.user, c.role).seller
    OBVIOUS
  <2>1. /\ p \in DOMAIN products
        /\ products' = [products EXCEPT ![p].version = products[p].version + 1]
        /\ writer' = [writer EXCEPT ![w] = Clearing(s, s # products[p].seller)]
        /\ writes < MaxWrites /\ writes' = writes + 1
        /\ UNCHANGED <<cache, keySet, flight, reader, fails, exposed>>
    BY <1>8 DEF Update, Begin, Updated
  <2>2. s \in Seller
    BY DEF ProductsFilter, Caller
  <2>3. \A q \in DOMAIN products : /\ products[q] \in Row /\ products[q].version \in 1..(MaxWrites + 1)
                                   /\ products[q].version <= writes + 1
    BY ProductIs
  <2> PICK row : row = [products[p] EXCEPT !.version = products[p].version + 1]
    OBVIOUS
  <2>4. /\ row \in Row /\ row.version = products[p].version + 1
        /\ products' = [products EXCEPT ![p] = row]
    <3>1. products[p].version + 1 \in 1..(MaxWrites + 1)
      BY <1>0, <2>1, <2>3 DEF Typed
    <3> QED BY <2>1, <2>3, <3>1 DEF Row
  <2>5. /\ products' \in Seq(Row) /\ Len(products') = Len(products)
        /\ DOMAIN products' = DOMAIN products
        /\ \A q \in DOMAIN products : products'[q] = IF q = p THEN row ELSE products[q]
    BY <2>1, <2>4 DEF Typed
  <2>6. \A q \in DOMAIN products' : products'[q].version <= writes' + 1
    BY <1>0, <2>1, <2>3, <2>4, <2>5 DEF Typed
  <2>7. writer' \in [Writer -> Write \cup {NoWrite}]
    <3>1. Clearing(s, s # products[p].seller) \in Write
      BY <2>2 DEF Clearing, Write
    <3> QED BY <2>1, <3>1 DEF Typed
  <2>8. writes' \in 0..MaxWrites
    BY <1>0, <2>1 DEF Typed
  <2> QED BY <2>1, <2>5, <2>6, <2>7, <2>8 DEF Typed
<1>9. ASSUME NEW w \in Writer, ReadKeys(w) PROVE Typed'
  <2> PICK s : s = writer[w].seller
    OBVIOUS
  <2>1. /\ writer[w].at = "committed"
        /\ \/ writer' = [writer EXCEPT ![w] = [writer[w] EXCEPT !.at = "read", !.keys = keySet[s]]]
           \/ writer' = [writer EXCEPT ![w] = NoWrite]
        /\ Ok \/ Err
        /\ UNCHANGED <<products, cache, keySet, flight, reader, exposed, writes>>
    BY <1>9 DEF ReadKeys
  <2>2. writer[w] \in Write
    BY <2>1, WriterIs
  <2>3. keySet[s] \in SUBSET Queries
    BY <2>2 DEF Typed, Write
  <2>4. writer' \in [Writer -> Write \cup {NoWrite}]
    <3>1. [writer[w] EXCEPT !.at = "read", !.keys = keySet[s]] \in Write
      BY <2>2, <2>3 DEF Write
    <3> QED BY <2>1, <3>1 DEF Typed
  <2>5. fails' \in 0..MaxFails
    BY <2>1, FailsType DEF Typed
  <2> QED BY <2>1, <2>4, <2>5 DEF Typed
<1>10. ASSUME NEW w \in Writer, DeleteKeys(w) PROVE Typed'
  <2>1. /\ writer[w].at = "read" /\ cache' \subseteq cache
        /\ writer' = [writer EXCEPT ![w].at = "deleted"]
        /\ Ok \/ Err
        /\ UNCHANGED <<products, keySet, flight, reader, exposed, writes>>
    BY <1>10 DEF DeleteKeys
  <2>2. writer' \in [Writer -> Write \cup {NoWrite}]
    <3>1. writer[w] \in Write
      BY <2>1, WriterIs
    <3>2. [writer[w] EXCEPT !.at = "deleted"] \in Write
      BY <3>1 DEF Write
    <3> QED BY <2>1, <3>2 DEF Typed
  <2>3. fails' \in 0..MaxFails
    BY <2>1, FailsType DEF Typed
  <2> QED BY <2>1, <2>2, <2>3 DEF Typed
<1>11. ASSUME NEW w \in Writer, DeleteSet(w) PROVE Typed'
  <2>1. /\ keySet' = [keySet EXCEPT ![writer[w].seller] = {}] \/ UNCHANGED keySet
        /\ writer' = [writer EXCEPT ![w] = NoWrite]
        /\ Ok \/ Err
        /\ UNCHANGED <<products, cache, flight, reader, exposed, writes>>
    BY <1>11 DEF DeleteSet
  <2>2. fails' \in 0..MaxFails
    BY <2>1, FailsType DEF Typed
  <2> QED BY <2>1, <2>2 DEF Typed
<1>12. ASSUME NEW R \in SUBSET Reader, NEW W \in SUBSET Writer, Crash(R, W) PROVE Typed'
  <2>1. /\ UNCHANGED <<products, cache, keySet, exposed, writes>> /\ (Ok \/ Err)
        /\ reader' \in [Reader -> Request \cup {NoRequest}]
        /\ \A r \in Reader : reader'[r] = reader[r] \/ reader'[r].at = "idle"
        /\ writer' \in [Writer -> Write \cup {NoWrite}]
        /\ flight' \in [Listed -> Reader \cup {"none"}]
    BY <1>12, CrashIs
  <2>2. fails' \in 0..MaxFails
    BY <2>1, FailsType DEF Typed
  <2> QED BY <2>1, <2>2 DEF Typed
<1>13. CASE UNCHANGED catalogVars
  BY <1>13 DEF catalogVars, Typed
<1> QED
  BY <1>1, <1>2, <1>3, <1>4, <1>5, <1>6, <1>7, <1>8, <1>9, <1>10, <1>11, <1>12, <1>13, CatalogCases

LEMMA LedInit == CatalogInit => Led
BY CatalogAssumption DEF CatalogInit, Led, NoRequest

LEMMA LedStep == Typed /\ Led /\ [CatalogNext]_catalogVars => Led'
<1> SUFFICES ASSUME Typed, Led, [CatalogNext]_catalogVars PROVE Led'
  OBVIOUS
<1>0. /\ DOMAIN reader = Reader /\ flight \in [Listed -> Reader \cup {"none"}]
      /\ "none" \notin Reader
  BY CatalogAssumption DEF Typed
<1>1. ASSUME NEW r \in Reader, NEW s \in Listed, NEW size \in Page, NEW asked \in Asked,
             NEW c \in Caller, List(r, s, 0, size, asked, c.user, c.role)
      PROVE  Led'
  <2> PICK filter : filter = StatusFilter(asked, s, c.user, c.role)
    OBVIOUS
  <2> PICK key : key = KeyOf(s, 0, size, filter)
    OBVIOUS
  <2> PICK public : public = Public(s, c.user, c.role)
    OBVIOUS
  <2>1. CASE Hit(key, public)
    BY <2>1 DEF Hit, Led
  <2>2. CASE Miss(r, s, key, <<s, 0, size, filter>>, public)
    <3> PICK at : at = IF flight[s] = "none" THEN "leading" ELSE "joined"
      OBVIOUS
    <3>1. /\ reader[r].at = "idle"
          /\ reader' = [reader EXCEPT ![r] =
               [at |-> at, key |-> key, query |-> <<s, 0, size, filter>>,
                public |-> public, shown |-> {}]]
          /\ flight' = [flight EXCEPT ![s] = IF flight[s] = "none" THEN r ELSE flight[s]]
      BY <2>2 DEF Miss
    <3>2. /\ reader'[r].at = at /\ reader'[r].query[1] = s
          /\ \A q \in Reader : q # r => reader'[q] = reader[q]
          /\ flight'[s] = IF flight[s] = "none" THEN r ELSE flight[s]
          /\ \A t \in Listed : t # s => flight'[t] = flight[t]
      BY <1>0, <3>1
    <3>3. \A t \in Listed : flight[t] # "none" => flight[t] # r /\ flight[t] \in Reader
      BY <1>0, <3>1 DEF Led
    <3>4. ASSUME NEW t \in Listed, flight'[t] # "none"
          PROVE  reader'[flight'[t]].at = "leading" /\ reader'[flight'[t]].query[1] = t
      <4>1. CASE t = s /\ flight[s] = "none"
        BY <3>2, <4>1
      <4>2. CASE ~ (t = s /\ flight[s] = "none")
        <5>1. flight'[t] = flight[t]
          BY <3>2, <4>2
        <5> QED BY <3>2, <3>3, <3>4, <5>1 DEF Led
      <4> QED BY <4>1, <4>2
    <3>5. ASSUME NEW q \in Reader, reader'[q].at = "leading"
          PROVE  flight'[reader'[q].query[1]] = q
      <4>1. CASE q = r
        BY <3>2, <3>5, <4>1
      <4>2. CASE q # r
        <5>1. reader'[q] = reader[q] /\ flight[reader[q].query[1]] = q
          BY <3>2, <3>5, <4>2 DEF Led
        <5>2. reader[q] \in Request
          BY <3>5, <5>1, ReaderIs
        <5>3. reader[q].query[1] \in Listed
          BY <5>2 DEF Request, Queries
        <5> QED BY <1>0, <3>2, <5>1, <5>3
      <4> QED BY <4>1, <4>2
    <3> QED BY <3>4, <3>5 DEF Led
  <2> QED BY <1>1, <2>1, <2>2, ListIs
<1>2. ASSUME NEW r \in Reader, Query(r) \/ FailQuery(r) PROVE Led'
  <2> PICK s : s = reader[r].query[1]
    OBVIOUS
  <2>1. /\ flight' = [flight EXCEPT ![s] = "none"]
        /\ \A q \in Reader : q \in InFlight(s) => reader'[q].at # "leading"
        /\ \A q \in Reader : q \notin InFlight(s) => reader'[q] = reader[q]
    <3>1. \A q \in Reader : q \in InFlight(s) => reader[q] \in Request
      BY ReaderIs DEF InFlight
    <3>2. CASE Query(r)
      BY <3>1, <3>2 DEF Query, Ended, Request
    <3>3. CASE FailQuery(r)
      BY <3>3 DEF FailQuery, Ended, NoRequest
    <3> QED BY <1>2, <3>2, <3>3
  <2>2. \A q \in Reader : (reader[q].at = "leading" /\ reader[q].query[1] = s) => q \in InFlight(s)
    BY DEF InFlight
  <2>3. ASSUME NEW t \in Listed, flight'[t] # "none"
        PROVE  reader'[flight'[t]].at = "leading" /\ reader'[flight'[t]].query[1] = t
    <3>1. t # s /\ flight'[t] = flight[t] /\ flight[t] \in Reader
      BY <1>0, <2>1, <2>3
    <3>2. reader[flight[t]].at = "leading" /\ reader[flight[t]].query[1] = t
      BY <2>3, <3>1 DEF Led
    <3>3. flight[t] \notin InFlight(s)
      BY <3>1, <3>2 DEF InFlight
    <3> QED BY <2>1, <3>1, <3>2, <3>3
  <2>4. ASSUME NEW q \in Reader, reader'[q].at = "leading"
        PROVE  flight'[reader'[q].query[1]] = q
    <3>1. q \notin InFlight(s) /\ reader'[q] = reader[q]
      BY <2>1, <2>4
    <3>2. reader[q].at = "leading" /\ reader[q].query[1] # s
      BY <2>2, <2>4, <3>1
    <3>3. reader[q] \in Request
      BY <3>2, ReaderIs
    <3>4. reader[q].query[1] \in Listed
      BY <3>3 DEF Request, Queries
    <3> QED BY <1>0, <2>1, <3>1, <3>2, <3>4 DEF Led
  <2> QED BY <2>3, <2>4 DEF Led
<1>3. ASSUME NEW r \in Reader, Store(r) \/ Track(r) PROVE Led'
  <2>1. /\ UNCHANGED flight /\ reader[r].at # "leading" /\ reader'[r].at # "leading"
        /\ \A q \in Reader : q # r => reader'[q] = reader[q]
    <3>1. CASE Store(r)
      <4>1. reader[r] \in Request
        BY <3>1, ReaderIs DEF Store
      <4> QED BY <1>0, <3>1, <4>1 DEF Store, Request
    <3>2. CASE Track(r)
      BY <1>0, <3>2 DEF Track, NoRequest
    <3> QED BY <1>3, <3>1, <3>2
  <2>2. ASSUME NEW t \in Listed, flight[t] # "none"
        PROVE  reader'[flight[t]].at = "leading" /\ reader'[flight[t]].query[1] = t
    <3>1. flight[t] \in Reader /\ reader[flight[t]].at = "leading" /\ reader[flight[t]].query[1] = t
      BY <1>0, <2>2 DEF Led
    <3> QED BY <2>1, <3>1
  <2>3. ASSUME NEW q \in Reader, reader'[q].at = "leading"
        PROVE  flight[reader'[q].query[1]] = q
    BY <2>1, <2>3 DEF Led
  <2> QED BY <2>1, <2>2, <2>3 DEF Led
<1>4. ASSUME UNCHANGED <<flight, reader>> PROVE Led'
  BY <1>4 DEF Led
<1>5. ASSUME NEW e \in cache, Expire(e) PROVE Led'
  BY <1>4, <1>5 DEF Expire
<1>6. ASSUME NEW w \in Writer, NEW asked, NEW c, Create(w, asked, c.user, c.role) PROVE Led'
  BY <1>4, <1>6 DEF Create
<1>7. ASSUME NEW w \in Writer, NEW asked, NEW c, NEW p \in Id, Update(w, p, asked, c.user, c.role)
      PROVE  Led'
  BY <1>4, <1>7 DEF Update
<1>8. ASSUME NEW w \in Writer, ReadKeys(w) \/ DeleteKeys(w) \/ DeleteSet(w) PROVE Led'
  BY <1>4, <1>8 DEF ReadKeys, DeleteKeys, DeleteSet
<1>9. ASSUME NEW R \in SUBSET Reader, NEW W \in SUBSET Writer, Crash(R, W) PROVE Led'
  <2>1. /\ \A r \in Reader : \/ r \notin R /\ reader'[r] = reader[r]
                             \/ r \in R /\ reader'[r].at = "idle"
        /\ \A s \in Listed : flight'[s] = IF flight[s] \in R THEN "none" ELSE flight[s]
    BY <1>9, CrashIs
  <2>2. ASSUME NEW t \in Listed, flight'[t] # "none"
        PROVE  reader'[flight'[t]].at = "leading" /\ reader'[flight'[t]].query[1] = t
    <3>1. flight'[t] = flight[t] /\ flight[t] \in Reader /\ flight[t] \notin R
      BY <1>0, <2>1, <2>2
    <3> QED BY <2>1, <2>2, <3>1 DEF Led
  <2>3. ASSUME NEW q \in Reader, reader'[q].at = "leading"
        PROVE  flight'[reader'[q].query[1]] = q
    <3>1. q \notin R /\ reader'[q] = reader[q]
      BY <2>1, <2>3
    <3>2. reader[q] \in Request /\ flight[reader[q].query[1]] = q
      BY <2>3, <3>1, ReaderIs DEF Led
    <3>3. reader[q].query[1] \in Listed
      BY <3>2 DEF Request, Queries
    <3> QED BY <2>1, <3>1, <3>2, <3>3
  <2> QED BY <2>2, <2>3 DEF Led
<1>10. CASE UNCHANGED catalogVars
  BY <1>4, <1>10 DEF catalogVars
<1> QED
  BY <1>1, <1>2, <1>3, <1>5, <1>6, <1>7, <1>8, <1>9, <1>10, CatalogCases

LEMMA CountedInit == CatalogInit => Counted
BY DEF CatalogInit, Counted, Overlaps, Filling, Joining, Writing, NoRequest, NoWrite

LEMMA CountedStep == Counted /\ [CatalogNext]_catalogVars => Counted'
<1>1. CatalogNext => Counted'
  BY CatalogCases DEF Counted
<1>2. Counted /\ UNCHANGED catalogVars => Counted'
  BY DEF catalogVars, Counted, Overlaps, Filling, Joining, Writing
<1> QED BY <1>1, <1>2

\* What has not been counted is not happening.
LEMMA NotCounted ==
  ASSUME Counted
  PROVE  /\ "flight" \notin overlaps => Joining = {}
         /\ overlaps = {} => /\ Filling = {} \/ Writing = {}
                             /\ \A w \in Writing : ~ writer[w].foreign
BY DEF Counted, Overlaps

LEMMA OverlapsGrow == [CatalogNext]_catalogVars => overlaps \subseteq overlaps'
BY CatalogCases DEF catalogVars

\* A flight that nobody joined is its leader's alone.
LEMMA QueryAlone ==
  ASSUME Typed, Led, Joining = {}, NEW r \in Reader, Query(r)
  PROVE  /\ reader[r].at = "leading" /\ reader[r] \in Request
         /\ reader' = [reader EXCEPT ![r] =
              [reader[r] EXCEPT !.at = "loaded", !.shown = Run(reader[r].query)]]
         /\ UNCHANGED <<products, cache, keySet, writer, fails, exposed, writes>>
<1> PICK s : s = reader[r].query[1]
  OBVIOUS
<1>1. reader[r].at = "leading"
  BY DEF Query
<1>2. InFlight(s) = {r}
  <2>1. \A q \in Reader : q \in InFlight(s) => reader[q].at = "leading" /\ reader[q].query[1] = s
    BY DEF InFlight, Joining
  <2>2. \A q \in Reader : q \in InFlight(s) => flight[s] = q
    BY <2>1 DEF Led
  <2>3. r \in InFlight(s)
    BY <1>1 DEF InFlight
  <2>4. InFlight(s) \subseteq Reader
    BY DEF InFlight
  <2> QED BY <2>2, <2>3, <2>4
<1>3. DOMAIN reader = Reader
  BY DEF Typed
<1>4. reader' = [q \in Reader |-> IF q \in InFlight(s)
                                  THEN [reader[q] EXCEPT !.at = "loaded", !.shown = Run(reader[r].query)]
                                  ELSE reader[q]]
  BY DEF Query
<1>5. reader' = [reader EXCEPT ![r] =
              [reader[r] EXCEPT !.at = "loaded", !.shown = Run(reader[r].query)]]
  BY <1>2, <1>3, <1>4
<1>6. UNCHANGED <<products, cache, keySet, writer, fails, exposed, writes>>
  BY DEF Query
<1> QED BY <1>1, <1>5, <1>6, ReaderIs
-----------------------------------------------------------------------------
(* Who sees what. *)

LEMMA NotExposed ==
  ASSUME NEW q, NEW public, NEW shown, Show(public, shown), ~exposed,
         public => q[4] = "active", Conforms(q, shown)
  PROVE  ~exposed'
BY DEF Show, Conforms

LEMMA AsAskedInit == CatalogInit => AsAsked
BY DEF CatalogInit, AsAsked, Filling, NoRequest

LEMMA AsAskedStep ==
  Typed /\ Led /\ Counted /\ AsAsked /\ Counted' /\ [CatalogNext]_catalogVars => AsAsked'
<1> SUFFICES ASSUME Typed, Led, Counted, AsAsked, Counted', [CatalogNext]_catalogVars
             PROVE  AsAsked'
  OBVIOUS
<1>0. DOMAIN reader = Reader
  BY DEF Typed
<1> DEFINE asked1 == \A r \in Reader : (reader[r].at # "idle" /\ reader[r].public) => reader[r].query[4] = "active"
           held1 == \A r \in Filling : Conforms(reader[r].query, reader[r].shown)
           held2 == \A e \in cache : Conforms(e[1], e[2].shown)
<1>1. /\ asked1
      /\ "flight" \notin overlaps => ~exposed /\ held1 /\ held2
  BY DEF AsAsked
<1>2. "flight" \notin overlaps' => "flight" \notin overlaps /\ Joining = {}
  BY NotCounted, OverlapsGrow
<1>3. ASSUME asked1', "flight" \notin overlaps => ~exposed' /\ held1' /\ held2' PROVE AsAsked'
  BY <1>2, <1>3 DEF AsAsked
<1>4. ASSUME NEW r \in Reader, NEW s \in Listed, NEW size \in Page, NEW asked \in Asked,
             NEW c \in Caller, List(r, s, 0, size, asked, c.user, c.role)
      PROVE  AsAsked'
  <2> PICK filter : filter = StatusFilter(asked, s, c.user, c.role)
    OBVIOUS
  <2> PICK key : key = KeyOf(s, 0, size, filter)
    OBVIOUS
  <2> PICK public : public = Public(s, c.user, c.role)
    OBVIOUS
  <2>1. key[4] = filter /\ (public => filter = "active")
    BY FilterIs DEF KeyOf
  <2>4. /\ UNCHANGED cache
        /\ Hit(key, public) \/ Miss(r, s, key, <<s, 0, size, filter>>, public)
    BY <1>4, ListIs
  <2>2. CASE Hit(key, public)
    <3>1. /\ UNCHANGED <<cache, reader>>
          /\ \E e \in Cached(key) : Show(public, e[2].shown)
      BY <2>2, <2>4 DEF Hit
    <3>2. asked1' /\ (held1 => held1') /\ (held2 => held2')
      BY <1>1, <3>1 DEF Filling
    <3>3. ASSUME ~exposed, held2 PROVE ~exposed'
      <4>1. PICK e \in Cached(key) : Show(public, e[2].shown)
        BY <3>1
      <4>2. e \in cache /\ e[1] = key
        BY DEF Cached
      <4> QED BY <2>1, <3>3, <4>1, <4>2, NotExposed
    <3> HIDE DEF asked1, held1, held2
    <3> QED BY <1>1, <1>3, <3>2, <3>3
  <2>3. CASE Miss(r, s, key, <<s, 0, size, filter>>, public)
    <3> PICK at \in {"leading", "joined"} : at = IF flight[s] = "none" THEN "leading" ELSE "joined"
      OBVIOUS
    <3>1. /\ reader' = [reader EXCEPT ![r] =
               [at |-> at, key |-> key, query |-> <<s, 0, size, filter>>, public |-> public, shown |-> {}]]
          /\ UNCHANGED <<cache, exposed>>
      BY <2>3, <2>4 DEF Miss
    <3>2. /\ reader'[r].at = at /\ reader'[r].public = public /\ reader'[r].query[4] = filter
          /\ \A q \in Reader : q # r => reader'[q] = reader[q]
      BY <1>0, <3>1
    <3>3. asked1'
      BY <1>1, <2>1, <3>2
    <3>4. (held1 => held1') /\ (held2 => held2')
      BY <3>1, <3>2 DEF Filling
    <3> HIDE DEF asked1, held1, held2
    <3> QED BY <1>1, <1>3, <3>1, <3>3, <3>4
  <2> QED BY <2>2, <2>3, <2>4
<1>5. ASSUME NEW r \in Reader, Query(r) PROVE AsAsked'
  <2>1. /\ UNCHANGED <<cache, exposed>>
        /\ \A q \in Reader : (reader'[q].at # "idle" /\ reader'[q].public) =>
              reader[q].at # "idle" /\ reader[q].public /\ reader'[q].query = reader[q].query
    <3>1. \A q \in Reader : q \in InFlight(reader[r].query[1]) => reader[q] \in Request /\ reader[q].at # "idle"
      BY ReaderIs DEF InFlight
    <3> QED BY <1>5, <3>1 DEF Query, Request
  <2>2. asked1'
    BY <1>1, <2>1
  <2>3. ASSUME "flight" \notin overlaps, Joining = {} PROVE held1'
    <3>1. /\ reader[r] \in Request
          /\ reader' = [reader EXCEPT ![r] =
               [reader[r] EXCEPT !.at = "loaded", !.shown = Run(reader[r].query)]]
      BY <1>5, <2>3, QueryAlone
    <3>2. reader'[r].query = reader[r].query /\ reader'[r].shown = Run(reader[r].query)
      BY <1>0, <3>1 DEF Request
    <3>3. reader[r].query \in Queries /\ Rows
      BY <3>1 DEF Request, Typed, Rows
    <3>4. Conforms(reader'[r].query, reader'[r].shown)
      BY <3>2, <3>3, RunType
    <3>5. \A q \in Reader : q # r => reader'[q] = reader[q]
      BY <1>0, <3>1
    <3> QED BY <1>1, <2>3, <3>4, <3>5 DEF Filling
  <2> QED BY <1>1, <1>2, <2>1, <2>2, <2>3 DEF AsAsked
<1>6. ASSUME NEW r \in Reader, FailQuery(r) PROVE AsAsked'
  <2>1. /\ UNCHANGED <<cache, exposed>>
        /\ \A q \in Reader : reader'[q] = reader[q] \/ reader'[q].at = "idle"
    BY <1>6 DEF FailQuery, NoRequest
  <2>2. asked1' /\ (held1 => held1') /\ (held2 => held2')
    BY <1>1, <2>1 DEF Filling
  <2> HIDE DEF asked1, held1, held2
  <2> QED BY <1>1, <1>3, <2>1, <2>2
<1>7. ASSUME NEW r \in Reader, Store(r) PROVE AsAsked'
  <2> PICK new : new = <<reader[r].key, [query |-> reader[r].query, shown |-> reader[r].shown]>>
    OBVIOUS
  <2>1. /\ reader[r].at = "loaded"
        /\ cache' \subseteq cache \cup {new}
        /\ reader' = [reader EXCEPT ![r].at = "stored"] /\ UNCHANGED exposed
    BY <1>7 DEF Store
  <2>2. reader[r] \in Request /\ reader[r].key = reader[r].query
    BY <2>1, ReaderIs
  <2>3. /\ reader'[r].query = reader[r].query /\ reader'[r].shown = reader[r].shown
        /\ reader'[r].public = reader[r].public /\ r \in Filling
        /\ \A q \in Reader : q # r => reader'[q] = reader[q]
    BY <1>0, <2>1, <2>2 DEF Request, Filling
  <2>4. asked1' /\ (held1 => held1')
    BY <1>1, <2>1, <2>3 DEF Filling
  <2>5. ASSUME held1, held2 PROVE held2'
    <3>1. new[1] = reader[r].query /\ new[2].shown = reader[r].shown
      BY <2>2
    <3>2. Conforms(new[1], new[2].shown)
      BY <2>3, <2>5, <3>1
    <3> QED BY <2>1, <2>5, <3>2
  <2> HIDE DEF asked1, held1, held2
  <2> QED BY <1>1, <1>3, <2>1, <2>4, <2>5
<1>8. ASSUME NEW r \in Reader, Track(r) PROVE AsAsked'
  <2>1. /\ reader[r].at = "stored" /\ reader' = [reader EXCEPT ![r] = NoRequest]
        /\ Show(reader[r].public, reader[r].shown) /\ UNCHANGED cache
    BY <1>8 DEF Track
  <2>2. /\ reader'[r].at = "idle" /\ r \in Filling
        /\ \A q \in Reader : q # r => reader'[q] = reader[q]
    BY <1>0, <2>1 DEF NoRequest, Filling
  <2>3. asked1' /\ (held1 => held1') /\ (held2 => held2')
    BY <1>1, <2>1, <2>2 DEF Filling
  <2>4. ASSUME ~exposed, held1 PROVE ~exposed'
    <3>1. Conforms(reader[r].query, reader[r].shown) /\ (reader[r].public => reader[r].query[4] = "active")
      BY <1>1, <2>1, <2>2, <2>4
    <3> QED BY <2>1, <2>4, <3>1, NotExposed
  <2> HIDE DEF asked1, held1, held2
  <2> QED BY <1>1, <1>3, <2>3, <2>4
<1>9. ASSUME UNCHANGED <<reader, exposed>>, cache' \subseteq cache PROVE AsAsked'
  <2>1. asked1' /\ (held1 => held1') /\ (held2 => held2')
    BY <1>1, <1>9 DEF Filling
  <2> HIDE DEF asked1, held1, held2
  <2> QED BY <1>1, <1>3, <1>9, <2>1
<1>10. ASSUME NEW e \in cache, Expire(e) PROVE AsAsked'
  BY <1>9, <1>10 DEF Expire
<1>11. ASSUME NEW w \in Writer, NEW asked, NEW c, Create(w, asked, c.user, c.role) PROVE AsAsked'
  BY <1>9, <1>11 DEF Create
<1>12. ASSUME NEW w \in Writer, NEW asked, NEW c, NEW p \in Id, Update(w, p, asked, c.user, c.role)
       PROVE  AsAsked'
  BY <1>9, <1>12 DEF Update
<1>13. ASSUME NEW w \in Writer, ReadKeys(w) \/ DeleteKeys(w) \/ DeleteSet(w) PROVE AsAsked'
  <2>1. UNCHANGED <<reader, exposed>> /\ cache' \subseteq cache
    BY <1>13 DEF ReadKeys, DeleteKeys, DeleteSet
  <2> QED BY <1>9, <2>1
<1>14. ASSUME NEW R \in SUBSET Reader, NEW W \in SUBSET Writer, Crash(R, W) PROVE AsAsked'
  <2>1. /\ UNCHANGED <<cache, exposed>>
        /\ \A q \in Reader : reader'[q] = reader[q] \/ reader'[q].at = "idle"
    BY <1>14, CrashIs
  <2>2. asked1' /\ (held1 => held1') /\ (held2 => held2')
    BY <1>1, <2>1 DEF Filling
  <2> HIDE DEF asked1, held1, held2
  <2> QED BY <1>1, <1>3, <2>1, <2>2
<1>15. CASE UNCHANGED catalogVars
  BY <1>9, <1>15 DEF catalogVars
<1> HIDE DEF asked1, held1, held2
<1> QED
  BY <1>4, <1>5, <1>6, <1>7, <1>8, <1>10, <1>11, <1>12, <1>13, <1>14, <1>15, CatalogCases
-----------------------------------------------------------------------------
(* What is current. *)

\* The listing of a query depends on the products it matches.
LEMMA RunSame ==
  ASSUME NEW q, Matching(q[1], q[2], q[4])' = Matching(q[1], q[2], q[4]),
         \A p \in Matching(q[1], q[2], q[4]) : products'[p] = products[p]
  PROVE  Run(q)' = Run(q)
<1> PICK ids : ids = Matching(q[1], q[2], q[4])
  OBVIOUS
<1> PICK on : on = {p \in ids : RowsOf(ids, p, q[3]) > 0}
  OBVIOUS
<1>1. Run(q) = {[id |-> p, status |-> products[p].status, version |-> products[p].version,
                 skus |-> RowsOf(ids, p, q[3])] : p \in on}
  BY DEF Run, Listing, Grouped
<1>2. Run(q)' = {[id |-> p, status |-> products'[p].status, version |-> products'[p].version,
                  skus |-> RowsOf(ids, p, q[3])] : p \in on}
  BY DEF Run, Listing, Grouped
<1> QED BY <1>1, <1>2

LEMMA RunUnchanged ==
  ASSUME UNCHANGED products, NEW q
  PROVE  Run(q)' = Run(q)
BY RunSame DEF Matching

\* A write changes the listings of the product's seller only.
LEMMA RunOfOthers ==
  ASSUME Typed, NEW q, NEW w \in Writer, NEW asked \in [seller : Seller, status : Status],
         NEW c \in Caller,
         \/ /\ Create(w, asked, c.user, c.role)
            /\ q[1] # ProductsFilter(asked, c.user, c.role).seller
         \/ \E p \in Id : /\ Update(w, p, asked, c.user, c.role)
                          /\ q[1] # products[p].seller
  PROVE  Run(q)' = Run(q)
<1>0. products \in Seq(Row) /\ DOMAIN products = 1..Len(products) /\ Len(products) \in Nat
  BY DEF Typed
<1>1. CASE Create(w, asked, c.user, c.role) /\ q[1] # ProductsFilter(asked, c.user, c.role).seller
  <2> PICK product : product = ProductsFilter(asked, c.user, c.role)
    OBVIOUS
  <2> PICK row : row = [seller |-> product.seller, status |-> product.status, version |-> 1]
    OBVIOUS
  <2>1. products' = Append(products, row) /\ row.seller # q[1]
    BY <1>1 DEF Create, Inserted
  <2>2. /\ DOMAIN products' = DOMAIN products \cup {Len(products) + 1}
        /\ \A p \in DOMAIN products : products'[p] = products[p]
        /\ products'[Len(products) + 1] = row /\ Len(products) + 1 \notin DOMAIN products
    BY <1>0, <2>1
  <2> QED BY <2>1, <2>2, RunSame DEF Matching
<1>2. CASE \E p \in Id : Update(w, p, asked, c.user, c.role) /\ q[1] # products[p].seller
  <2>1. PICK p \in Id : Update(w, p, asked, c.user, c.role) /\ q[1] # products[p].seller
    BY <1>2
  <2>2. p \in DOMAIN products /\ products' = [products EXCEPT ![p].version = products[p].version + 1]
    BY <2>1 DEF Update, Updated
  <2>3. products[p] \in Row
    BY <1>0, <2>2
  <2>4. /\ DOMAIN products' = DOMAIN products
        /\ \A i \in DOMAIN products : i # p => products'[i] = products[i]
        /\ products'[p].seller = products[p].seller
    BY <1>0, <2>2, <2>3 DEF Row
  <2> QED BY <2>1, <2>2, <2>4, RunSame DEF Matching
<1> QED BY <1>1, <1>2

LEMMA TrackedInit == CatalogInit => Tracked
BY DEF CatalogInit, Tracked, FillsCurrent, KeysKnown, KeysRead, StaleGoes, Filling, NoRequest

LEMMA TrackedStep ==
  Typed /\ Led /\ Counted /\ Tracked /\ Counted' /\ [CatalogNext]_catalogVars => Tracked'
<1> SUFFICES ASSUME Typed, Led, Counted, Tracked, Counted', [CatalogNext]_catalogVars, Quiet'
             PROVE  (FillsCurrent /\ KeysKnown /\ KeysRead /\ StaleGoes)'
  BY DEF Tracked
<1>0. DOMAIN reader = Reader /\ DOMAIN writer = Writer /\ fails \in 0..MaxFails
  BY DEF Typed
<1>1. overlaps = {} /\ overlaps' = {} /\ fails' = 0
  BY OverlapsGrow DEF Quiet
<1>2. (Ok \/ Err) => Ok /\ fails = 0
  BY <1>0, <1>1, FailsType
<1>3. /\ Joining = {} /\ (Filling = {} \/ Writing = {})
      /\ (Filling = {} \/ Writing = {})' /\ \A w \in Writing' : ~ writer'[w].foreign
  <2>1. Joining = {} /\ (Filling = {} \/ Writing = {})
    BY <1>1, NotCounted
  <2>2. (Filling = {} \/ Writing = {})' /\ \A w \in Writing' : ~ writer'[w].foreign
    BY <1>1 DEF Counted, Overlaps
  <2> QED BY <2>1, <2>2
<1>4. ASSUME Quiet PROVE FillsCurrent /\ KeysKnown /\ KeysRead /\ StaleGoes
  BY <1>4 DEF Tracked
<1>5. \A e \in cache : /\ e[1] \in Queries /\ e[2].query = e[1] /\ e[1][1] \in Listed
                       /\ e[1][1] \in Seller
  <2>1. ASSUME NEW e \in cache PROVE e[1] \in Queries /\ e[2].query = e[1]
    BY DEF Typed, Entry
  <2>2. \A q \in Queries : q[1] \in Listed /\ q[1] \in Seller
    BY CatalogAssumption DEF Queries
  <2> QED BY <2>1, <2>2
<1>6. ASSUME UNCHANGED fails PROVE FillsCurrent /\ KeysKnown /\ KeysRead /\ StaleGoes
  BY <1>1, <1>4, <1>6 DEF Quiet
<1>7. ASSUME UNCHANGED products PROVE \A q : Run(q)' = Run(q)
  BY <1>7, RunUnchanged
<1>10. ASSUME NEW r \in Reader, NEW s \in Listed, NEW size \in Page, NEW asked \in Asked,
              NEW c \in Caller, List(r, s, 0, size, asked, c.user, c.role)
       PROVE  (FillsCurrent /\ KeysKnown /\ KeysRead /\ StaleGoes)'
  <2> PICK key : key = KeyOf(s, 0, size, StatusFilter(asked, s, c.user, c.role))
    OBVIOUS
  <2> PICK query : query = <<s, 0, size, StatusFilter(asked, s, c.user, c.role)>>
    OBVIOUS
  <2> PICK public : public = Public(s, c.user, c.role)
    OBVIOUS
  <2>0. /\ UNCHANGED <<products, cache, keySet, writer, writes>>
        /\ Hit(key, public) \/ Miss(r, s, key, query, public)
    BY <1>10, ListIs
  <2>1. UNCHANGED <<products, cache, keySet, writer, fails>>
    <3>1. Ok \/ Err
      BY <2>0 DEF Hit, Miss
    <3> QED BY <1>2, <2>0, <3>1 DEF Ok
  <2>2. ASSUME NEW q \in Reader
        PROVE  reader'[q] = reader[q] \/ (reader[q].at = "idle" /\ reader'[q].at \in {"leading", "joined"})
    BY <1>0, <2>0 DEF Hit, Miss
  <2>3. FillsCurrent'
    <3>1. \A q \in Filling' : q \in Filling /\ reader'[q] = reader[q]
      BY <2>2 DEF Filling
    <3> QED BY <1>6, <1>7, <2>1, <3>1 DEF FillsCurrent
  <2>4. KeysKnown'
    BY <1>6, <2>1, <2>2 DEF KeysKnown
  <2>5. KeysRead' /\ StaleGoes'
    BY <1>6, <1>7, <2>1 DEF KeysRead, StaleGoes, Stale
  <2> QED BY <2>3, <2>4, <2>5
<1>11. ASSUME NEW r \in Reader, Query(r)
       PROVE  (FillsCurrent /\ KeysKnown /\ KeysRead /\ StaleGoes)'
  <2>1. /\ reader[r].at = "leading" /\ reader[r] \in Request
        /\ reader' = [reader EXCEPT ![r] =
             [reader[r] EXCEPT !.at = "loaded", !.shown = Run(reader[r].query)]]
        /\ UNCHANGED <<products, cache, keySet, writer, fails>>
    BY <1>3, <1>11, QueryAlone
  <2>2. /\ reader'[r].shown = Run(reader'[r].query)
        /\ \A q \in Reader : q # r => reader'[q] = reader[q]
    BY <1>0, <2>1 DEF Request
  <2>3. FillsCurrent'
    <3>1. \A q \in Filling' : q = r \/ (q \in Filling /\ reader'[q] = reader[q])
      BY <2>2 DEF Filling
    <3> QED BY <1>6, <1>7, <2>1, <2>2, <3>1 DEF FillsCurrent
  <2>4. KeysKnown'
    <3>1. \A q \in Reader : reader[q].at = "stored" => reader'[q] = reader[q]
      BY <2>1, <2>2
    <3> QED BY <1>6, <2>1, <3>1 DEF KeysKnown
  <2>5. KeysRead' /\ StaleGoes'
    BY <1>6, <1>7, <2>1 DEF KeysRead, StaleGoes, Stale
  <2> QED BY <2>3, <2>4, <2>5
<1>12. ASSUME NEW r \in Reader, FailQuery(r)
       PROVE  (FillsCurrent /\ KeysKnown /\ KeysRead /\ StaleGoes)'
  <2>1. UNCHANGED <<products, cache, keySet, writer, fails>>
    BY <1>12 DEF FailQuery
  <2>2. \A q \in Reader : \/ reader'[q] = reader[q]
                          \/ reader[q].at \in {"leading", "joined"} /\ reader'[q].at = "idle"
    BY <1>12 DEF FailQuery, InFlight, NoRequest
  <2>3. FillsCurrent'
    <3>1. \A q \in Filling' : q \in Filling /\ reader'[q] = reader[q]
      BY <2>2 DEF Filling
    <3> QED BY <1>6, <1>7, <2>1, <3>1 DEF FillsCurrent
  <2>4. KeysKnown'
    BY <1>6, <2>1, <2>2 DEF KeysKnown
  <2>5. KeysRead' /\ StaleGoes'
    BY <1>6, <1>7, <2>1 DEF KeysRead, StaleGoes, Stale
  <2> QED BY <2>3, <2>4, <2>5
<1>13. ASSUME NEW r \in Reader, Store(r)
       PROVE  (FillsCurrent /\ KeysKnown /\ KeysRead /\ StaleGoes)'
  <2> PICK k : k = reader[r].key
    OBVIOUS
  <2> PICK new : new = <<k, [query |-> reader[r].query, shown |-> reader[r].shown]>>
    OBVIOUS
  <2>0. Ok \/ Err
    BY <1>13 DEF Store
  <2>1. /\ reader[r].at = "loaded" /\ r \in Filling
        /\ cache' \subseteq cache \cup {new}
        /\ reader' = [reader EXCEPT ![r].at = "stored"]
        /\ UNCHANGED <<products, keySet, writer, fails>>
    BY <1>2, <1>13, <2>0 DEF Store, Ok, Filling
  <2>2. reader[r] \in Request /\ reader[r].key = reader[r].query
    BY <2>1, ReaderIs
  <2>3. /\ reader'[r].query = reader[r].query /\ reader'[r].shown = reader[r].shown
        /\ reader'[r].at = "stored" /\ reader'[r].key = k
        /\ \A q \in Reader : q # r => reader'[q] = reader[q]
    BY <1>0, <2>1, <2>2 DEF Request
  <2>4. \A w \in Writer : writer'[w].at = "idle"
    <3>1. Writing = {}
      BY <1>3, <2>1
    <3> QED BY <2>1, <3>1 DEF Writing
  <2>5. FillsCurrent'
    <3>1. \A q \in Filling' : /\ q \in Filling /\ reader'[q].shown = reader[q].shown
                              /\ reader'[q].query = reader[q].query
      BY <2>1, <2>3 DEF Filling
    <3> QED BY <1>6, <1>7, <2>1, <3>1 DEF FillsCurrent
  <2>6. KeysKnown'
    <3>1. ASSUME NEW e \in cache' PROVE \/ e[1] \in keySet'[e[1][1]]
                                        \/ \E q \in Reader : reader'[q].at = "stored" /\ reader'[q].key = e[1]
      <4>1. CASE e = new
        BY <2>3, <4>1
      <4>2. CASE e # new
        <5>1. e \in cache
          BY <2>1, <4>2
        <5>2. CASE e[1] \in keySet[e[1][1]]
          BY <2>1, <5>2
        <5>3. ASSUME NEW q \in Reader, reader[q].at = "stored", reader[q].key = e[1]
              PROVE  reader'[q].at = "stored" /\ reader'[q].key = e[1]
          BY <2>1, <2>3, <5>3
        <5> QED BY <1>6, <2>1, <5>1, <5>2, <5>3 DEF KeysKnown
      <4> QED BY <4>1, <4>2
    <3> QED BY <3>1 DEF KeysKnown
  <2>7. KeysRead'
    BY <2>4 DEF KeysRead
  <2>8. StaleGoes'
    <3>1. \A e \in cache : ~ Stale(e)
      <4>1. \A w \in Writer : writer[w].at = "idle"
        BY <2>1, <2>4
      <4> QED BY <1>6, <2>1, <4>1 DEF StaleGoes
    <3>2. new[2].shown = Run(new[2].query)
      BY <1>6, <2>1 DEF FillsCurrent
    <3>3. \A e \in cache' : ~ Stale(e)'
      BY <1>7, <2>1, <3>1, <3>2 DEF Stale
    <3> QED BY <3>3 DEF StaleGoes
  <2> QED BY <2>5, <2>6, <2>7, <2>8
<1>14. ASSUME NEW r \in Reader, Track(r)
       PROVE  (FillsCurrent /\ KeysKnown /\ KeysRead /\ StaleGoes)'
  <2>0. Ok \/ Err
    BY <1>14 DEF Track
  <2>1. /\ reader[r].at = "stored"
        /\ keySet' = [keySet EXCEPT ![reader[r].query[1]] = keySet[reader[r].query[1]] \cup {reader[r].key}]
        /\ reader' = [reader EXCEPT ![r] = NoRequest]
        /\ UNCHANGED <<products, cache, writer, fails>>
    <3>1. ~ Err
      BY <1>0, <1>2, <2>0 DEF Ok, Err
    <3> QED BY <1>2, <1>14, <2>0, <3>1 DEF Track, Ok
  <2>2. /\ reader'[r].at = "idle" /\ reader[r].key = reader[r].query
        /\ \A q \in Reader : q # r => reader'[q] = reader[q]
    BY <1>0, <2>1, ReaderIs DEF NoRequest
  <2>3. /\ DOMAIN keySet = Seller
        /\ \A s \in Seller : keySet[s] \subseteq keySet'[s]
        /\ reader[r].key[1] \in Seller => reader[r].key \in keySet'[reader[r].key[1]]
    BY <2>1, <2>2 DEF Typed
  <2>4. FillsCurrent'
    <3>1. \A q \in Filling' : q \in Filling /\ reader'[q] = reader[q]
      BY <2>2 DEF Filling
    <3> QED BY <1>6, <1>7, <2>1, <3>1 DEF FillsCurrent
  <2>5. KeysKnown'
    <3>1. ASSUME NEW e \in cache PROVE \/ e[1] \in keySet'[e[1][1]]
                                       \/ \E q \in Reader : reader'[q].at = "stored" /\ reader'[q].key = e[1]
      <4>1. CASE e[1] \in keySet[e[1][1]]
        BY <1>5, <2>3, <4>1
      <4>2. ASSUME NEW q \in Reader, reader[q].at = "stored", reader[q].key = e[1]
            PROVE  \/ e[1] \in keySet'[e[1][1]]
                   \/ reader'[q].at = "stored" /\ reader'[q].key = e[1]
        BY <1>5, <2>2, <2>3, <4>2
      <4> QED BY <1>6, <2>1, <4>1, <4>2 DEF KeysKnown
    <3> QED BY <2>1, <3>1 DEF KeysKnown
  <2>6. KeysRead' /\ StaleGoes'
    BY <1>6, <1>7, <2>1 DEF KeysRead, StaleGoes, Stale
  <2> QED BY <2>4, <2>5, <2>6
<1>15. ASSUME NEW x \in cache, Expire(x)
       PROVE  (FillsCurrent /\ KeysKnown /\ KeysRead /\ StaleGoes)'
  <2>1. cache' \subseteq cache /\ UNCHANGED <<products, keySet, reader, writer, fails>>
    BY <1>15 DEF Expire
  <2>2. FillsCurrent'
    BY <1>6, <1>7, <2>1 DEF FillsCurrent, Filling
  <2>3. KeysKnown' /\ KeysRead'
    BY <1>6, <2>1 DEF KeysKnown, KeysRead
  <2>4. StaleGoes'
    BY <1>6, <1>7, <2>1 DEF StaleGoes, Stale
  <2> QED BY <2>2, <2>3, <2>4
<1>16. ASSUME NEW w \in Writer, NEW s, writer[w].at = "idle",
              writer' = [writer EXCEPT ![w] = Clearing(s, FALSE)],
              UNCHANGED <<cache, keySet, reader, fails>>,
              \A e \in cache : e[1][1] # s => Run(e[1])' = Run(e[1])
       PROVE  (FillsCurrent /\ KeysKnown /\ KeysRead /\ StaleGoes)'
  <2>1. /\ writer'[w].at = "committed" /\ writer'[w].seller = s
        /\ \A v \in Writer : v # w => writer'[v] = writer[v]
    BY <1>0, <1>16 DEF Clearing
  <2>2. FillsCurrent'
    <3>1. Filling' = {}
      BY <1>3, <2>1 DEF Writing
    <3> QED BY <3>1 DEF FillsCurrent
  <2>3. KeysKnown'
    BY <1>6, <1>16 DEF KeysKnown
  <2>4. KeysRead'
    BY <1>6, <1>16, <2>1 DEF KeysRead
  <2>5. StaleGoes'
    <3>1. ASSUME NEW e \in cache, Stale(e)'
          PROVE  \E v \in Writer : writer'[v].at \in {"committed", "read"} /\ writer'[v].seller = e[1][1]
      <4>1. CASE e[1][1] = s
        BY <2>1, <4>1
      <4>2. CASE e[1][1] # s
        <5>1. Stale(e)
          BY <1>5, <1>16, <3>1, <4>2 DEF Stale
        <5>2. PICK v \in Writer : writer[v].at \in {"committed", "read"} /\ writer[v].seller = e[1][1]
          BY <1>6, <1>16, <5>1 DEF StaleGoes
        <5> QED BY <1>16, <2>1, <5>2
      <4> QED BY <4>1, <4>2
    <3> QED BY <1>16, <3>1 DEF StaleGoes
  <2> QED BY <2>2, <2>3, <2>4, <2>5
<1>17. ASSUME NEW w \in Writer, NEW asked \in [seller : Seller, status : Status], NEW c \in Caller,
              Create(w, asked, c.user, c.role)
       PROVE  (FillsCurrent /\ KeysKnown /\ KeysRead /\ StaleGoes)'
  <2> PICK s : s = ProductsFilter(asked, c.user, c.role).seller
    OBVIOUS
  <2>1. /\ writer[w].at = "idle" /\ writer' = [writer EXCEPT ![w] = Clearing(s, FALSE)]
        /\ UNCHANGED <<cache, keySet, reader, fails>>
    BY <1>17 DEF Create, Begin
  <2>2. \A e \in cache : e[1][1] # s => Run(e[1])' = Run(e[1])
    BY <1>17, RunOfOthers
  <2> QED BY <1>16, <2>1, <2>2
<1>18. ASSUME NEW w \in Writer, NEW asked \in [seller : Seller, status : Status], NEW c \in Caller,
              NEW p \in Id, Update(w, p, asked, c.user, c.role)
       PROVE  (FillsCurrent /\ KeysKnown /\ KeysRead /\ StaleGoes)'
  <2> PICK s : s = ProductsFilter(asked, c.user, c.role).seller
    OBVIOUS
  <2>1. /\ writer[w].at = "idle"
        /\ writer' = [writer EXCEPT ![w] = Clearing(s, s # products[p].seller)]
        /\ UNCHANGED <<cache, keySet, reader, fails>>
    BY <1>18 DEF Update, Begin
  <2>2. s = products[p].seller
    <3>1. writer'[w] = Clearing(s, s # products[p].seller)
      BY <1>0, <2>1
    <3>2. w \in Writing'
      BY <3>1 DEF Writing, Clearing
    <3>3. ~ writer'[w].foreign
      BY <1>3, <3>2
    <3>4. writer'[w].foreign = (s # products[p].seller)
      BY <3>1 DEF Clearing
    <3> QED BY Zenon, <3>3, <3>4
  <2>3. writer' = [writer EXCEPT ![w] = Clearing(s, FALSE)]
    BY <2>1, <2>2
  <2>4. \A e \in cache : e[1][1] # s => Run(e[1])' = Run(e[1])
    <3>1. ASSUME NEW e \in cache, e[1][1] # s PROVE Run(e[1])' = Run(e[1])
      <4>1. \E i \in Id : Update(w, i, asked, c.user, c.role) /\ e[1][1] # products[i].seller
        BY <1>18, <2>2, <3>1
      <4> QED BY <4>1, RunOfOthers
    <3> QED BY <3>1
  <2>5. writer[w].at = "idle" /\ UNCHANGED <<cache, keySet, reader, fails>>
    BY <2>1
  <2> QED BY <1>16, <2>3, <2>4, <2>5
\* While someone writes, every cached key is tracked.
<1>19. ASSUME NEW w \in Writer, writer[w].at # "idle", UNCHANGED fails
       PROVE  Filling = {} /\ \A e \in cache : e[1] \in keySet[e[1][1]]
  <2>1. Filling = {}
    BY <1>3, <1>19 DEF Writing
  <2> QED BY <1>6, <1>19, <2>1 DEF KeysKnown, Filling
<1>20. ASSUME NEW w \in Writer, ReadKeys(w)
       PROVE  (FillsCurrent /\ KeysKnown /\ KeysRead /\ StaleGoes)'
  <2> PICK s : s = writer[w].seller
    OBVIOUS
  <2>0. Ok \/ Err
    BY <1>20 DEF ReadKeys
  <2>1. /\ writer[w].at = "committed"
        /\ writer' = [writer EXCEPT ![w] = IF keySet[s] = {} THEN NoWrite
                                           ELSE [writer[w] EXCEPT !.at = "read", !.keys = keySet[s]]]
        /\ UNCHANGED <<products, cache, keySet, reader, fails>>
    <3>1. ~ Err
      BY <1>0, <1>2, <2>0 DEF Ok, Err
    <3> QED BY <1>2, <1>20, <2>0, <3>1 DEF ReadKeys, Ok
  <2>2. Filling = {} /\ \A e \in cache : e[1] \in keySet[e[1][1]]
    BY <1>19, <2>1
  <2>3. writer[w] \in Write /\ \A v \in Writer : v # w => writer'[v] = writer[v]
    BY <1>0, <2>1, WriterIs
  <2>4. FillsCurrent' /\ KeysKnown'
    <3>1. Filling' = {}
      BY <2>1, <2>2 DEF Filling
    <3> QED BY <1>6, <2>1, <3>1 DEF FillsCurrent, KeysKnown
  <2>5. CASE keySet[s] = {}
    <3>1. writer'[w].at = "idle" /\ \A e \in cache : e[1][1] # s
      BY <1>0, <2>1, <2>2, <2>5 DEF NoWrite
    <3>2. KeysRead'
      BY <1>6, <2>1, <2>3, <3>1 DEF KeysRead
    <3>3. StaleGoes'
      BY <1>6, <1>7, <2>1, <2>3, <3>1 DEF StaleGoes, Stale
    <3> QED BY <2>4, <3>2, <3>3
  <2>6. CASE keySet[s] # {}
    <3>1. writer'[w].at = "read" /\ writer'[w].keys = keySet[s] /\ writer'[w].seller = s
      BY <1>0, <2>1, <2>3, <2>6 DEF Write
    <3>2. KeysRead'
      BY <1>6, <2>1, <2>2, <2>3, <3>1 DEF KeysRead
    <3>3. StaleGoes'
      BY <1>6, <1>7, <2>1, <2>3, <3>1 DEF StaleGoes, Stale
    <3> QED BY <2>4, <3>2, <3>3
  <2> QED BY <2>5, <2>6
<1>21. ASSUME NEW w \in Writer, DeleteKeys(w)
       PROVE  (FillsCurrent /\ KeysKnown /\ KeysRead /\ StaleGoes)'
  <2> PICK s : s = writer[w].seller
    OBVIOUS
  <2>0. Ok \/ Err
    BY <1>21 DEF DeleteKeys
  <2>1. /\ writer[w].at = "read"
        /\ cache' = {e \in cache : e[1] \notin writer[w].keys}
        /\ writer' = [writer EXCEPT ![w].at = "deleted"]
        /\ UNCHANGED <<products, keySet, reader, fails>>
    <3>1. ~ Err
      BY <1>0, <1>2, <2>0 DEF Ok, Err
    <3> QED BY <1>2, <1>21, <2>0, <3>1 DEF DeleteKeys, Ok, Deleted
  <2>2. /\ writer'[w].at = "deleted" /\ writer'[w].seller = s
        /\ \A v \in Writer : v # w => writer'[v] = writer[v]
    <3>1. writer[w] \in Write
      BY <2>1, WriterIs
    <3> QED BY <1>0, <2>1, <3>1 DEF Write
  <2>3. \A e \in cache' : e \in cache /\ e[1][1] # s
    BY <1>6, <2>1 DEF KeysRead
  <2>4. FillsCurrent'
    BY <1>6, <1>7, <2>1 DEF FillsCurrent, Filling
  <2>5. KeysKnown'
    BY <1>6, <2>1 DEF KeysKnown
  <2>6. KeysRead'
    BY <1>6, <2>1, <2>2, <2>3 DEF KeysRead
  <2>7. StaleGoes'
    <3>1. ASSUME NEW e \in cache', Stale(e)'
          PROVE  \E v \in Writer : writer'[v].at \in {"committed", "read"} /\ writer'[v].seller = e[1][1]
      <4>1. e \in cache /\ Stale(e) /\ e[1][1] # s
        BY <1>7, <2>1, <2>3, <3>1 DEF Stale
      <4>2. PICK v \in Writer : writer[v].at \in {"committed", "read"} /\ writer[v].seller = e[1][1]
        BY <1>6, <2>1, <4>1 DEF StaleGoes
      <4> QED BY <2>2, <4>1, <4>2
    <3> QED BY <3>1 DEF StaleGoes
  <2> QED BY <2>4, <2>5, <2>6, <2>7
<1>22. ASSUME NEW w \in Writer, DeleteSet(w)
       PROVE  (FillsCurrent /\ KeysKnown /\ KeysRead /\ StaleGoes)'
  <2> PICK s : s = writer[w].seller
    OBVIOUS
  <2>0. Ok \/ Err
    BY <1>22 DEF DeleteSet
  <2>1. /\ writer[w].at = "deleted"
        /\ keySet' = [keySet EXCEPT ![s] = {}]
        /\ writer' = [writer EXCEPT ![w] = NoWrite]
        /\ UNCHANGED <<products, cache, reader, fails>>
    <3>1. ~ Err
      BY <1>0, <1>2, <2>0 DEF Ok, Err
    <3> QED BY <1>2, <1>22, <2>0, <3>1 DEF DeleteSet, Ok
  <2>2. writer'[w].at = "idle" /\ \A v \in Writer : v # w => writer'[v] = writer[v]
    BY <1>0, <2>1 DEF NoWrite
  <2>3. \A e \in cache : e[1][1] # s
    BY <1>6, <2>1 DEF KeysRead
  <2>4. FillsCurrent'
    BY <1>6, <1>7, <2>1 DEF FillsCurrent, Filling
  <2>5. KeysKnown'
    <3>1. \A e \in cache : keySet'[e[1][1]] = keySet[e[1][1]]
      BY <2>1, <2>3
    <3> QED BY <1>6, <2>1, <3>1 DEF KeysKnown
  <2>6. KeysRead'
    BY <1>6, <2>1, <2>2 DEF KeysRead
  <2>7. StaleGoes'
    BY <1>6, <1>7, <2>1, <2>2, <2>3 DEF StaleGoes, Stale
  <2> QED BY <2>4, <2>5, <2>6, <2>7
\* A crash that does not count ends no request that has stored or written.
<1>23. ASSUME NEW R \in SUBSET Reader, NEW W \in SUBSET Writer, Crash(R, W)
       PROVE  (FillsCurrent /\ KeysKnown /\ KeysRead /\ StaleGoes)'
  <2>1. /\ UNCHANGED <<products, cache, keySet>> /\ (Ok \/ Err)
        /\ \A q \in Reader : \/ q \notin R /\ reader'[q] = reader[q]
                             \/ q \in R /\ reader'[q].at = "idle"
        /\ \A w \in Writer : \/ w \notin W /\ writer'[w] = writer[w]
                             \/ w \in W /\ writer'[w].at = "idle"
    BY <1>23, CrashIs
  <2>2. UNCHANGED fails /\ ~ Err
    BY <1>0, <1>2, <2>1 DEF Ok, Err
  <2>3. (\A q \in R : reader[q].at # "stored") /\ \A w \in W : writer[w].at = "idle"
    BY <1>23, <2>2 DEF Crash
  <2>4. FillsCurrent'
    <3>1. \A q \in Filling' : q \in Filling /\ reader'[q] = reader[q]
      BY <2>1 DEF Filling
    <3> QED BY <1>6, <1>7, <2>1, <2>2, <3>1 DEF FillsCurrent
  <2>5. KeysKnown'
    <3>1. \A q \in Reader : reader[q].at = "stored" => reader'[q] = reader[q]
      BY <2>1, <2>3
    <3> QED BY <1>6, <2>1, <2>2, <3>1 DEF KeysKnown
  <2>6. \A w \in Writer : writer'[w] = writer[w] \/ (writer[w].at = "idle" /\ writer'[w].at = "idle")
    BY <2>1, <2>3
  <2>7. KeysRead'
    BY <1>6, <2>1, <2>2, <2>6 DEF KeysRead
  <2>8. StaleGoes'
    <3>1. \A w \in Writer : writer[w].at \in {"committed", "read"} => writer'[w] = writer[w]
      BY <2>6
    <3> QED BY <1>6, <1>7, <2>1, <2>2, <3>1 DEF StaleGoes, Stale
  <2> QED BY <2>4, <2>5, <2>7, <2>8
<1>24. CASE UNCHANGED catalogVars
  <2>1. UNCHANGED <<products, cache, keySet, reader, writer, fails>>
    BY <1>24 DEF catalogVars
  <2> QED BY <1>6, <1>7, <2>1 DEF FillsCurrent, KeysKnown, KeysRead, StaleGoes, Stale, Filling
<1> QED
  BY <1>10, <1>11, <1>12, <1>13, <1>14, <1>15, <1>17, <1>18, <1>20, <1>21, <1>22, <1>23, <1>24,
     CatalogCases
-----------------------------------------------------------------------------
(* The theorems. *)

LEMMA CatalogInvariant == CatalogSpec => []CatalogInv
<1>1. CatalogInit => CatalogInv
  BY TypedInit, LedInit, CountedInit, AsAskedInit, TrackedInit DEF CatalogInv
<1>2. CatalogInv /\ [CatalogNext]_catalogVars => CatalogInv'
  BY TypedStep, LedStep, CountedStep, AsAskedStep, TrackedStep DEF CatalogInv
<1> QED BY <1>1, <1>2, PTL DEF CatalogSpec

\* Rows, cache and flights keep their types: a key is cached once, and a flight
\* that is under way has a leader (ListSellerProducts and what it calls).
THEOREM CatalogTypeCorrect == CatalogSpec => []CatalogTypeOK
<1>1. CatalogInv => CatalogTypeOK
  BY DEF CatalogInv, Typed, Led, CatalogTypeOK
<1> QED BY <1>1, CatalogInvariant, PTL

\* A client that turns the pages of a seller's products sees all of them, for
\* any number of SKUs per product and any page size (listSellerProducts).
THEOREM PagesShowEveryProduct == CatalogSpec => []PagesVisitEveryProduct
<1>1. CatalogInv => PagesVisitEveryProduct
  <2> SUFFICES ASSUME CatalogInv, NEW s \in Seller, NEW size \in 1..3,
                      NEW filter \in Status \cup {"unspecified"}
               PROVE  Visited(s, size, filter) = Matching(s, 0, filter)
    BY DEF PagesVisitEveryProduct
  <2>1. Rows /\ size \in Nat \ {0}
    BY DEF CatalogInv, Typed, Rows
  <2> QED BY <2>1, PagesVisit
<1> QED BY <1>1, CatalogInvariant, PTL

\* Neither the role, nor the cache, nor a write shows a customer or another
\* merchant a product that is not active: only a shared flight does
\* (ListSellerProducts).
THEOREM OnlyActiveShown == CatalogSpec => []OnlyActiveIsPublic
<1>1. CatalogInv => OnlyActiveIsPublic
  BY DEF CatalogInv, AsAsked, OnlyActiveIsPublic
<1> QED BY <1>1, CatalogInvariant, PTL

\* The cache is current once the writes are done, but for the overlaps, the
\* failures and the crashes that are named (delProductCaches against
\* ListSellerProducts).
THEOREM CacheIsFresh == CatalogSpec => []FreshUnlessOverlapped
<1>1. CatalogInv => FreshUnlessOverlapped
  <2> SUFFICES ASSUME CatalogInv, overlaps = {}, fails = 0, Writing = {}, NEW e \in cache
               PROVE  ~Stale(e)
    BY DEF FreshUnlessOverlapped
  <2>1. StaleGoes
    BY DEF CatalogInv, Tracked, Quiet
  <2> QED BY <2>1 DEF StaleGoes, Writing
<1> QED BY <1>1, CatalogInvariant, PTL
=============================================================================
