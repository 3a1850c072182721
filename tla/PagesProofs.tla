----------------------------- MODULE PagesProofs -----------------------------
(***************************************************************************)
(* What a client of the listings can rely on, for every number of rows,    *)
(* pages and sizes: a walk over the pages misses nothing, it is exact      *)
(* while nothing is written, a page that is announced exists, and orders   *)
(* are listed whole and to their owners only.                              *)
(***************************************************************************)
EXTENDS Pages, FiniteSetTheorems, SequenceTheorems, TLAPS

Ids == OrderIds \cup Products

(* How many rows come before row x in the listing that q asks for. *)
Rank(q, x) == Cardinality({y \in Matching(q) : Precedes(q.list, y, x)})

(* How many rows come before the page that q asks for, and how many before the next one. *)
Before(q) == (q.page - 1) * q.size
After(q) == q.page * q.size

-----------------------------------------------------------------------------
(* The inductive invariant *)

(* The rows of s are those ranked k, k + 1, ... *)
InOrder(q, s, k) ==
    \A i \in DOMAIN s : s[i] \in Matching(q) /\ Rank(q, s[i]) = k + i - 1

(* The page that c asked for is still to come. *)
Waiting(c) == answer[c].code # "OK"

Codes == {"NONE", "OK", "UNAUTHENTICATED", "INVALID_FILTER", "INTERNAL_ERROR"}

Types ==
    /\ TypeOK
    /\ total \in [Clients -> Nat]
    /\ rows \in [Clients -> Seq(Ids)]
    /\ answer \in [Clients -> [code : Codes, rows : Seq(Ids), items : SUBSET OrderIds,
                               total : Nat, hasNextPage : BOOLEAN]]
    /\ walk \in [Clients -> [on : BOOLEAN, seen : Seq(Ids), began : SUBSET Ids,
                             since : {"quiet", "grown", "shrunk"}]]

(* What the page that c asked for owes to its walk and to its owner, whatever is written before
   it is delivered. *)
Fetched(c, ids) ==
    LET q == query[c]
        w == walk[c]
    IN
    /\ Len(ids) <= q.size
    /\ w.on /\ Len(ids) = q.size => After(q) <= IntMax
    /\ w.on /\ w.since # "shrunk" =>
          \A x \in w.began \ Range(w.seen) :
             x \in Range(ids) \/ (Len(ids) = q.size /\ Rank(q, x) >= After(q))
    /\ w.on /\ w.since = "quiet" =>
          /\ Orderings(q) # {}
          /\ InOrder(q, ids, Before(q))
          /\ Len(ids) = q.size \/ Before(q) + Len(ids) = Cardinality(Matching(q))
    /\ w.since # "shrunk" /\ After(q) < total[c] => Len(ids) = q.size
    /\ q.list = "myOrders" => Range(ids) \subseteq Matching(q) /\ IsInjective(ids)

(* A page is kept only while its items are loaded, and answers come when a request is over. *)
Paged(c) ==
    /\ IF pc[c] = "items" THEN query[c].list = "myOrders" /\ Fetched(c, rows[c])
       ELSE rows[c] = << >>
    /\ pc[c] # "idle" => answer[c] = NoAnswer
    /\ ~Waiting(c) => /\ Len(answer[c].rows) <= query[c].size
                      /\ answer[c].hasNextPage <=> After(query[c]) < answer[c].total

(* A walk does not leave the numbers that an int holds. *)
Bounded(c) ==
    walk[c].on =>
        /\ Waiting(c) => Before(query[c]) <= IntMax
        /\ ~Waiting(c) /\ Len(answer[c].rows) = query[c].size => After(query[c]) <= IntMax

(* What a walk has not shown yet is still ahead of it. *)
Ahead(c) ==
    walk[c].on /\ walk[c].since # "shrunk" =>
        /\ walk[c].began \subseteq Matching(query[c])
        /\ \A x \in walk[c].began \ Range(walk[c].seen) :
              /\ Waiting(c) => Rank(query[c], x) >= Before(query[c])
              /\ ~Waiting(c) => /\ Len(answer[c].rows) = query[c].size
                                /\ Rank(query[c], x) >= After(query[c])

(* While nothing is written a walk shows the rows in their order, up to the end of its page. *)
Exact(c) ==
    walk[c].on /\ walk[c].since = "quiet" =>
        /\ walk[c].began = Matching(query[c])
        /\ InOrder(query[c], walk[c].seen, 0)
        /\ Waiting(c) => Len(walk[c].seen) = Before(query[c])
        /\ pc[c] \in {"select", "items"} => total[c] = Cardinality(Matching(query[c]))
        /\ ~Waiting(c) =>
              /\ Orderings(query[c]) # {}
              /\ answer[c].total = Cardinality(Matching(query[c]))
              /\ IF Len(answer[c].rows) = query[c].size
                 THEN Len(walk[c].seen) = After(query[c])
                 ELSE /\ Len(walk[c].seen) = Cardinality(Matching(query[c]))
                      /\ Len(walk[c].seen) < After(query[c])

(* What is announced is there. *)
Announced(c) ==
    walk[c].since # "shrunk" =>
        /\ pc[c] \in {"select", "items"} => total[c] <= Cardinality(Matching(query[c]))
        /\ ~Waiting(c) /\ answer[c].hasNextPage =>
              /\ Len(answer[c].rows) = query[c].size
              /\ After(query[c]) < Cardinality(Matching(query[c]))

(* The orders that a client was sent are its own, each once and with its items. *)
Owned(c) ==
    ~Waiting(c) /\ query[c].list = "myOrders" =>
        /\ Range(answer[c].rows) \subseteq Matching(query[c])
        /\ IsInjective(answer[c].rows)
        /\ answer[c].items = Range(answer[c].rows)

ClientInv(c) == Paged(c) /\ Bounded(c) /\ Ahead(c) /\ Exact(c) /\ Announced(c) /\ Owned(c)

Inv ==
    /\ Types
    /\ items = Placed
    /\ \A c \in Clients : ClientInv(c)

-----------------------------------------------------------------------------
(* Numbers *)

LEMMA Multiples ==
    ASSUME NEW a \in Int, NEW b \in Int, NEW n \in Nat, a <= b
    PROVE  a * n <= b * n
<1>1. (b - a) * n >= 0
  OBVIOUS
<1>2. (b - a) * n = b * n - a * n
  OBVIOUS
<1> QED
  BY <1>1, <1>2

(* A next page is announced exactly if some rows come after this one. *)
LEMMA HasNextIff ==
    ASSUME NEW count \in Nat, NEW page \in Nat \ {0}, NEW size \in Nat \ {0}
    PROVE  HasNextPage(count, page, size) <=> page * size < count
<1> DEFINE n == count + size - 1
           k == n \div size
<1>1. n \in Nat
  OBVIOUS
<1>2. k \in Int /\ k * size <= n /\ n < (k + 1) * size
  BY <1>1
<1>3. TotalPages(count, size) = k
  BY DEF TotalPages
<1> HIDE DEF k
<1>4. CASE page < k
  <2>1. (page + 1) * size <= k * size
    BY <1>2, <1>4, Multiples
  <2>2. (page + 1) * size = page * size + size
    OBVIOUS
  <2> QED
    BY <1>2, <1>3, <1>4, <2>1, <2>2 DEF HasNextPage
<1>5. CASE ~(page < k)
  <2>1. (k + 1) * size <= (page + 1) * size
    BY <1>2, <1>5, Multiples
  <2>2. (page + 1) * size = page * size + size
    OBVIOUS
  <2> QED
    BY <1>2, <1>3, <1>5, <2>1, <2>2 DEF HasNextPage
<1> QED
  BY <1>4, <1>5

LEMMA WrappedFits == \A n \in 0..IntMax : Wrapped(n) = n
<1> SUFFICES ASSUME NEW n \in 0..IntMax PROVE Wrapped(n) = n
  OBVIOUS
<1>1. IntMax \in Nat /\ n \in Nat /\ n <= IntMax
  BY PagesAssumption
<1> DEFINE k == n + IntMax + 1
           w == 2 * (IntMax + 1)
<1>2. k \in Nat /\ w \in Nat /\ w > 0 /\ k < w /\ k - IntMax - 1 = n
  BY <1>1
<1> HIDE DEF k, w
<1>3. k % w = k
  BY <1>2
<1> QED
  BY <1>2, <1>3 DEF Wrapped, k, w

LEMMA MinOfTwo ==
    ASSUME NEW a \in Int, NEW b \in Int
    PROVE  Min({a, b}) = IF a <= b THEN a ELSE b
<1>1. \E x \in {a, b} : \A y \in {a, b} : x =< y
  OBVIOUS
<1>2. Min({a, b}) \in {a, b} /\ \A y \in {a, b} : Min({a, b}) =< y
  BY <1>1 DEF Min
<1> QED
  BY <1>2

LEMMA PageNumbers ==
    ASSUME NEW q \in Query
    PROVE  /\ Before(q) \in Nat /\ After(q) \in Nat /\ After(q) = Before(q) + q.size
           /\ q.page = 1 => Before(q) = 0
           /\ Before(q) <= IntMax => Offset(q.page, q.size) = Before(q)
           /\ \A count \in Nat : HasNextPage(count, q.page, q.size) <=> After(q) < count
           /\ Offset(q.page, q.size) \in Int
           /\ q.size \in 1..MaxSize /\ q.page \in 1..IntMax
<1>1. q.size \in 1..MaxSize /\ q.page \in 1..IntMax
  BY DEF Query
<1>2. /\ IntMax \in Nat /\ MaxSize \in Nat
      /\ q.page \in Nat \ {0} /\ q.size \in Nat \ {0} /\ q.page - 1 \in Nat
  BY <1>1, PagesAssumption
<1>3. Before(q) \in Nat /\ After(q) \in Nat /\ After(q) = Before(q) + q.size
  <2>1. (q.page - 1) * q.size = q.page * q.size - q.size
    BY <1>2
  <2>2. 0 * q.size <= (q.page - 1) * q.size
    BY <1>2, Multiples
  <2> QED
    BY <1>2, <2>1, <2>2 DEF Before, After
<1>4. q.page = 1 => Before(q) = 0
  BY <1>2 DEF Before
<1>5. Before(q) <= IntMax => Offset(q.page, q.size) = Before(q)
  BY <1>3, <1>2, WrappedFits DEF Offset, Before
<1>6. \A count \in Nat : HasNextPage(count, q.page, q.size) <=> After(q) < count
  BY <1>2, HasNextIff DEF After
<1>7. Offset(q.page, q.size) \in Int
  <2>1. \A n \in Int : Wrapped(n) \in Int
    BY <1>2 DEF Wrapped
  <2> QED
    BY <1>3, <2>1 DEF Offset, Before
<1> QED
  BY <1>1, <1>3, <1>4, <1>5, <1>6, <1>7

-----------------------------------------------------------------------------
(* The order of the rows *)

LEMMA MatchingFinite ==
    ASSUME NEW q
    PROVE  /\ Matching(q) \subseteq Ids /\ IsFiniteSet(Matching(q))
           /\ Cardinality(Matching(q)) \in Nat /\ Cardinality(Matching(q)) <= IntMax
           /\ q.list = "myOrders" => Matching(q) \subseteq OrderIds
<1>1. \/ Matching(q) \in SUBSET OrderIds
      \/ q.list # "myOrders" /\ Matching(q) \in SUBSET Products
  BY DEF Matching, Placed
<1>2. CASE Matching(q) \in SUBSET OrderIds
  <2>1. IsFiniteSet(Matching(q)) /\ Cardinality(Matching(q)) <= Cardinality(OrderIds)
    BY <1>2, PagesAssumption, FS_Subset
  <2>2. Cardinality(OrderIds) \in Nat /\ Cardinality(Matching(q)) \in Nat
    BY <2>1, PagesAssumption, FS_CardinalityType
  <2> QED
    BY <1>2, <2>1, <2>2, PagesAssumption DEF Ids
<1>3. CASE q.list # "myOrders" /\ Matching(q) \in SUBSET Products
  <2>1. IsFiniteSet(Matching(q)) /\ Cardinality(Matching(q)) <= Cardinality(Products)
    BY <1>3, PagesAssumption, FS_Subset
  <2>2. Cardinality(Products) \in Nat /\ Cardinality(Matching(q)) \in Nat
    BY <2>1, PagesAssumption, FS_CardinalityType
  <2> QED
    BY <1>3, <2>1, <2>2, PagesAssumption DEF Ids
<1> QED
  BY <1>1, <1>2, <1>3

LEMMA RankType ==
    ASSUME NEW q, NEW x
    PROVE  Rank(q, x) \in Nat
<1>1. {y \in Matching(q) : Precedes(q.list, y, x)} \in SUBSET Matching(q)
  OBVIOUS
<1>2. IsFiniteSet({y \in Matching(q) : Precedes(q.list, y, x)})
  BY <1>1, MatchingFinite, FS_Subset
<1> QED
  BY <1>2, FS_CardinalityType DEF Rank

(* ORDER BY is a strict total order: the id decides between rows that are otherwise equal. *)
LEMMA TotalOrder ==
    ASSUME TypeOK, NEW q, NEW a \in Matching(q), NEW b \in Matching(q)
    PROVE  /\ ~(Precedes(q.list, a, b) /\ Precedes(q.list, b, a))
           /\ a # b => Precedes(q.list, a, b) \/ Precedes(q.list, b, a)
<1>1. CASE q.list = "myOrders"
  <2>1. a \in OrderIds /\ b \in OrderIds /\ orders[a] # NoOrder /\ orders[b] # NoOrder
    BY <1>1 DEF Matching, Placed
  <2>2. orders[a].created \in Int /\ orders[b].created \in Int /\ a \in Int /\ b \in Int
    BY <2>1, PagesAssumption DEF TypeOK
  <2> QED
    BY <1>1, <2>2 DEF Precedes
<1>2. CASE q.list # "myOrders"
  <2>1. a \in Int /\ b \in Int
    BY <1>2, PagesAssumption DEF Matching
  <2> QED
    BY <1>2, <2>1 DEF Precedes
<1> QED
  BY <1>1, <1>2

(* The database returns every row once, each at the place that its rank gives it. *)
LEMMA Sorted ==
    ASSUME TypeOK, NEW q, NEW s \in Orderings(q)
    PROVE  /\ s \in Seq(Ids) /\ Len(s) = Cardinality(Matching(q)) /\ DOMAIN s = 1..Len(s)
           /\ \A i \in 1..Len(s) : s[i] \in Matching(q) /\ Rank(q, s[i]) = i - 1
           /\ \A x \in Matching(q) : \E i \in 1..Len(s) : s[i] = x
<1> DEFINE M == Matching(q)
           n == Cardinality(M)
<1>1. /\ s \in [1..n -> M]
      /\ \A i, j \in 1..n : i # j => s[i] # s[j]
      /\ \A i, j \in 1..n : i < j => ~Precedes(q.list, s[j], s[i])
  BY DEF Orderings, SetToSeqs
<1>2. IsFiniteSet(M) /\ n \in Nat /\ M \subseteq Ids
  BY MatchingFinite
<1>3. s \in Seq(Ids) /\ Len(s) = n /\ DOMAIN s = 1..n
  BY <1>1, <1>2
<1>4. \A x \in M : \E i \in 1..n : s[i] = x
  <2>1. s \in Injection(1..n, M)
    BY <1>1 DEF Injection, IsInjective
  <2>2. IsFiniteSet(1..n) /\ Cardinality(1..n) = n
    <3>1. 1 \in Int /\ n \in Int
      BY <1>2
    <3> QED
      BY <1>2, <3>1, FS_Interval
  <2>3. s \in Surjection(1..n, M)
    BY <1>2, <2>1, <2>2, FS_Injection
  <2> QED
    BY <2>3 DEF Surjection
<1>5. \A i, j \in 1..n : i < j => Precedes(q.list, s[i], s[j])
  BY <1>1, TotalOrder
<1>6. ASSUME NEW i \in 1..n PROVE Rank(q, s[i]) = i - 1
  <2> DEFINE T == {y \in M : Precedes(q.list, y, s[i])}
             D == 1..(i - 1)
             f == [j \in D |-> s[j]]
  <2>1. \A j \in D : s[j] \in T
    BY <1>1, <1>5, <1>2
  <2>2. \A y \in T : \E j \in D : s[j] = y
    <3>1. SUFFICES ASSUME NEW y \in T PROVE \E j \in D : s[j] = y
      OBVIOUS
    <3>2. PICK j \in 1..n : s[j] = y
      BY <1>4
    <3>3. Precedes(q.list, s[j], s[i]) /\ s[j] \in M /\ s[i] \in M
      BY <1>1, <3>2
    <3>4. ~(i < j) /\ i # j
      BY <1>1, <3>3, TotalOrder
    <3> QED
      BY <1>2, <3>2, <3>4
  <2>3. f \in Bijection(D, T)
    <3> HIDE DEF T
    <3>1. f \in [D -> T]
      BY <2>1
    <3>2. \A j, k \in D : f[j] = f[k] => j = k
      BY <1>1, <1>2
    <3>3. \A y \in T : \E j \in D : f[j] = y
      BY <2>2
    <3> QED
      BY <3>1, <3>2, <3>3 DEF Bijection, Injection, Surjection, IsInjective
  <2>4. IsFiniteSet(D) /\ Cardinality(D) = i - 1
    <3>1. 1 \in Int /\ i - 1 \in Int /\ (IF 1 > i - 1 THEN 0 ELSE (i - 1) - 1 + 1) = i - 1
      BY <1>2
    <3> QED
      BY <3>1, FS_Interval
  <2>5. ExistsBijection(D, T)
    BY <2>3 DEF ExistsBijection
  <2>6. Cardinality(T) = Cardinality(D)
    BY <2>4, <2>5, FS_Bijection
  <2> QED
    BY <2>4, <2>6 DEF Rank
<1> QED
  BY <1>1, <1>3, <1>4, <1>6

(* The page that a statement with this LIMIT and OFFSET selects. *)
Page(s, offset, size) == SubSeq(s, offset + 1, Min({offset + size, Len(s)}))

LEMMA Slice ==
    ASSUME NEW S, NEW s \in Seq(S), NEW offset \in Nat, NEW size \in Nat \ {0}
    PROVE  /\ Page(s, offset, size) \in Seq(S)
           /\ Len(Page(s, offset, size)) = IF offset + size <= Len(s) THEN size
                         ELSE IF offset <= Len(s) THEN Len(s) - offset ELSE 0
           /\ \A i \in 1..Len(Page(s, offset, size)) : Page(s, offset, size)[i] = s[offset + i]
<1> DEFINE n == Len(s)
           last == IF offset + size <= n THEN offset + size ELSE n
           ids == SubSeq(s, offset + 1, last)
<1>1. n \in Nat /\ DOMAIN s = 1..n /\ last \in Int /\ last <= n
  OBVIOUS
<1>2. Page(s, offset, size) = ids
  <2>1. offset + size \in Int /\ n \in Int
    BY <1>1
  <2>2. Min({offset + size, n}) = last
    BY <2>1, MinOfTwo
  <2> QED
    BY <2>2 DEF Page
<1>3. \A i \in (offset + 1)..last : s[i] \in S
  BY <1>1, ElementOfSeq
<1>4. /\ ids \in Seq(S)
      /\ Len(ids) = IF offset + 1 <= last THEN last - (offset + 1) + 1 ELSE 0
      /\ \A i \in 1..(last - (offset + 1) + 1) : ids[i] = s[(offset + 1) + i - 1]
  <2>1. offset + 1 \in Int
    OBVIOUS
  <2> HIDE DEF last, n
  <2> QED
    BY <1>1, <1>3, <2>1, SubSeqProperties
<1>5. last = IF offset + size <= n THEN offset + size ELSE n
  OBVIOUS
<1> HIDE DEF n, last, ids
<1>6. /\ offset + 1 <= last <=> offset < last
      /\ last - (offset + 1) + 1 = last - offset
      /\ \A i \in Int : (offset + 1) + i - 1 = offset + i
  BY <1>1
<1>7. Len(ids) = IF offset < last THEN last - offset ELSE 0
  BY <1>4, <1>6
<1>8. Len(ids) = IF offset + size <= n THEN size ELSE IF offset <= n THEN n - offset ELSE 0
  <2>1. CASE offset + size <= n
    BY <1>1, <1>5, <1>7, <2>1
  <2>2. CASE ~(offset + size <= n)
    BY <1>1, <1>5, <1>7, <2>2
  <2> QED
    BY <2>1, <2>2
<1>9. ASSUME NEW i \in 1..Len(ids) PROVE ids[i] = s[offset + i]
  <2>1. i \in Int /\ i \in 1..(last - offset)
    BY <1>1, <1>7
  <2>2. i \in 1..(last - (offset + 1) + 1) /\ (offset + 1) + i - 1 = offset + i
    BY <1>6, <2>1
  <2> QED
    BY <1>4, <2>2
<1> QED
  BY <1>2, <1>4, <1>8, <1>9 DEF n

(* The rows of a page, as the rows that follow its offset. *)
LEMMA RankedPage ==
    ASSUME NEW q, NEW s \in Seq(Ids), NEW offset \in Nat, NEW size \in Nat \ {0}, NEW ids \in Seq(Ids),
           \A i \in 1..Len(s) : s[i] \in Matching(q) /\ Rank(q, s[i]) = i - 1,
           \A x \in Matching(q) : \E i \in 1..Len(s) : s[i] = x,
           Len(ids) = IF offset + size <= Len(s) THEN size
                      ELSE IF offset <= Len(s) THEN Len(s) - offset ELSE 0,
           \A i \in 1..Len(ids) : ids[i] = s[offset + i]
    PROVE  /\ InOrder(q, ids, offset) /\ IsInjective(ids)
           /\ \A x \in Matching(q) : Rank(q, x) >= offset =>
                 x \in Range(ids) \/ (Len(ids) = size /\ Rank(q, x) >= offset + size)
<1>1. DOMAIN ids = 1..Len(ids) /\ Len(ids) \in Nat /\ Len(s) \in Nat
  OBVIOUS
<1>2. \A i \in DOMAIN ids : offset + i \in 1..Len(s) /\ ids[i] = s[offset + i]
  BY <1>1
<1>3. ASSUME NEW i \in DOMAIN ids
      PROVE  ids[i] \in Matching(q) /\ Rank(q, ids[i]) = offset + i - 1
  <2>1. s[offset + i] \in Matching(q) /\ Rank(q, s[offset + i]) = (offset + i) - 1
    BY <1>2
  <2> QED
    BY <1>2, <2>1
<1>4. InOrder(q, ids, offset)
  BY <1>3 DEF InOrder
<1>5. IsInjective(ids)
  BY <1>1, <1>3 DEF IsInjective
<1>6. ASSUME NEW x \in Matching(q), Rank(q, x) >= offset
      PROVE  x \in Range(ids) \/ (Len(ids) = size /\ Rank(q, x) >= offset + size)
  <2>1. PICK i \in 1..Len(s) : s[i] = x
    OBVIOUS
  <2>2. Rank(q, x) = i - 1 /\ offset < i
    BY <1>1, <1>6, <2>1
  <2>3. CASE i - offset <= Len(ids)
    <3>1. i - offset \in DOMAIN ids /\ ids[i - offset] = x
      BY <1>1, <1>2, <2>1, <2>2, <2>3
    <3> QED
      BY <3>1 DEF Range
  <2>4. CASE ~(i - offset <= Len(ids))
    BY <1>1, <2>2, <2>4
  <2> QED
    BY <2>3, <2>4
<1> QED
  BY <1>4, <1>5, <1>6

(* A page holds the rows from its offset on, as many as it may and there are. *)
LEMMA SelectedPage ==
    ASSUME TypeOK, NEW q \in Query, NEW s \in Orderings(q), NEW offset \in Nat
    PROVE  LET ids == Page(s, offset, q.size)
               count == Cardinality(Matching(q))
           IN
           /\ ids \in Seq(Ids) /\ Len(ids) <= q.size
           /\ InOrder(q, ids, offset) /\ IsInjective(ids)
           /\ Len(ids) = q.size <=> offset + q.size <= count
           /\ offset <= count /\ Len(ids) # q.size => offset + Len(ids) = count
           /\ \A x \in Matching(q) : Rank(q, x) >= offset =>
                 x \in Range(ids) \/ (Len(ids) = q.size /\ Rank(q, x) >= offset + q.size)
<1> DEFINE ids == Page(s, offset, q.size)
           count == Cardinality(Matching(q))
<1>1. /\ s \in Seq(Ids) /\ Len(s) = count
      /\ \A i \in 1..Len(s) : s[i] \in Matching(q) /\ Rank(q, s[i]) = i - 1
      /\ \A x \in Matching(q) : \E i \in 1..Len(s) : s[i] = x
  BY Sorted
<1>2. q.size \in Nat \ {0} /\ count \in Nat
  <2>1. q.size \in 1..MaxSize /\ MaxSize \in Nat
    BY PageNumbers, PagesAssumption
  <2> QED
    BY <2>1, MatchingFinite
<1>3. /\ ids \in Seq(Ids)
      /\ Len(ids) = IF offset + q.size <= Len(s) THEN q.size
                    ELSE IF offset <= Len(s) THEN Len(s) - offset ELSE 0
      /\ \A i \in 1..Len(ids) : ids[i] = s[offset + i]
  <2>1. s \in Seq(Ids) /\ q.size \in Nat \ {0}
    BY <1>1, <1>2
  <2> QED
    BY <2>1, Slice, Zenon
<1> HIDE DEF ids, count
<1>4. /\ InOrder(q, ids, offset) /\ IsInjective(ids)
      /\ \A x \in Matching(q) : Rank(q, x) >= offset =>
            x \in Range(ids) \/ (Len(ids) = q.size /\ Rank(q, x) >= offset + q.size)
  BY <1>1, <1>2, <1>3, RankedPage
<1>5. /\ Len(ids) <= q.size
      /\ Len(ids) = q.size <=> offset + q.size <= count
      /\ offset <= count /\ Len(ids) # q.size => offset + Len(ids) = count
  BY <1>1, <1>2, <1>3
<1> QED
  BY <1>3, <1>4, <1>5 DEF ids, count

-----------------------------------------------------------------------------
(* What happens to the rows *)

LEMMA SubsetOfIds ==
    ASSUME NEW S \in SUBSET Ids
    PROVE  IsFiniteSet(S) /\ Cardinality(S) \in Nat
<1>1. IsFiniteSet(Ids)
  BY PagesAssumption, FS_Union DEF Ids
<1>2. IsFiniteSet(S)
  BY <1>1, FS_Subset
<1> QED
  BY <1>2, FS_CardinalityType

(* Rows that stay keep their order; a row that comes can only push others back. *)
LEMMA Grows ==
    ASSUME NEW q, Matching(q) \subseteq Matching(q)',
           \A a, b \in Matching(q) : Precedes(q.list, a, b)' <=> Precedes(q.list, a, b)
    PROVE  /\ Cardinality(Matching(q)) \in Nat /\ Cardinality(Matching(q))' \in Nat
           /\ Cardinality(Matching(q)) <= Cardinality(Matching(q))'
           /\ \A x \in Matching(q) : /\ Rank(q, x) \in Nat /\ Rank(q, x)' \in Nat
                                     /\ Rank(q, x) <= Rank(q, x)'
<1>1. Matching(q) \in SUBSET Ids /\ Matching(q)' \in SUBSET Ids
  BY DEF Matching, Placed, Ids
<1>2. /\ IsFiniteSet(Matching(q)') /\ Cardinality(Matching(q)) \in Nat
      /\ Cardinality(Matching(q)') \in Nat
  BY <1>1, SubsetOfIds
<1>3. Cardinality(Matching(q)) <= Cardinality(Matching(q)')
  BY <1>2, FS_Subset
<1>4. ASSUME NEW x \in Matching(q)
      PROVE  Rank(q, x) \in Nat /\ Rank(q, x)' \in Nat /\ Rank(q, x) <= Rank(q, x)'
  <2> DEFINE S == {y \in Matching(q) : Precedes(q.list, y, x)}
             T == {y \in Matching(q)' : Precedes(q.list, y, x)'}
  <2>1. S \in SUBSET T /\ S \in SUBSET Ids /\ T \in SUBSET Ids
    BY <1>1
  <2>2. Rank(q, x) = Cardinality(S) /\ Rank(q, x)' = Cardinality(T)
    BY DEF Rank
  <2> HIDE DEF S, T
  <2>3. IsFiniteSet(T) /\ Cardinality(S) \in Nat /\ Cardinality(T) \in Nat
    BY <2>1, SubsetOfIds
  <2>4. Cardinality(S) <= Cardinality(T)
    BY <2>1, <2>3, FS_Subset
  <2> QED
    BY <2>2, <2>3, <2>4
<1> QED
  BY <1>2, <1>3, <1>4

(* Where no row comes and none goes, everything stays where it is. *)
LEMMA Stays ==
    ASSUME NEW q, Matching(q)' = Matching(q),
           \A a, b \in Matching(q) : Precedes(q.list, a, b)' <=> Precedes(q.list, a, b)
    PROVE  /\ \A x \in Matching(q) : Rank(q, x)' = Rank(q, x)
           /\ Orderings(q)' = Orderings(q)
<1>1. ASSUME NEW x \in Matching(q) PROVE Rank(q, x)' = Rank(q, x)
  <2>1. {y \in Matching(q)' : Precedes(q.list, y, x)'} = {y \in Matching(q) : Precedes(q.list, y, x)}
    OBVIOUS
  <2> QED
    BY <2>1 DEF Rank
<1>2. \A s \in SetToSeqs(Matching(q)) : \A i \in DOMAIN s : s[i] \in Matching(q)
  BY DEF SetToSeqs
<1>3. SetToSeqs(Matching(q))' = SetToSeqs(Matching(q))
  BY DEF SetToSeqs
<1>4. Orderings(q)' = Orderings(q)
  BY <1>2, <1>3 DEF Orderings
<1> QED
  BY <1>1, <1>4

LEMMA Unmoved ==
    ASSUME UNCHANGED db, NEW q
    PROVE  /\ Matching(q)' = Matching(q) /\ Placed' = Placed
           /\ \A x : Rank(q, x)' = Rank(q, x)
           /\ Orderings(q)' = Orderings(q)
<1>1. Matching(q)' = Matching(q) /\ Placed' = Placed
  BY DEF Matching, Placed, Satisfies, db
<1>2. \A a, b : Precedes(q.list, a, b)' <=> Precedes(q.list, a, b)
  BY DEF Precedes, db
<1>3. ASSUME NEW x PROVE Rank(q, x)' = Rank(q, x)
  <2>1. {y \in Matching(q)' : Precedes(q.list, y, x)'} = {y \in Matching(q) : Precedes(q.list, y, x)}
    BY <1>1, <1>2
  <2> QED
    BY <2>1 DEF Rank
<1>4. Orderings(q)' = Orderings(q)
  BY <1>1, <1>2, Stays
<1> QED
  BY <1>1, <1>3, <1>4

(* A step of one client leaves the others where they are. *)
LEMMA Others ==
    ASSUME UNCHANGED db, NEW c \in Clients, ClientInv(c),
           pc'[c] = pc[c], query'[c] = query[c], total'[c] = total[c], rows'[c] = rows[c],
           answer'[c] = answer[c], walk'[c] = walk[c]
    PROVE  ClientInv(c)'
<1>1. PICK q : q = query[c]
  OBVIOUS
<1>2. query'[c] = q /\ query[c] = q
  BY <1>1
<1>3. /\ Matching(query[c])' = Matching(query[c])
      /\ \A x : Rank(query[c], x)' = Rank(query[c], x)
      /\ Orderings(query[c])' = Orderings(query[c])
  BY <1>2, Unmoved
<1>4. Waiting(c)' <=> Waiting(c)
  BY DEF Waiting
<1>5. \A s, k : InOrder(query[c], s, k)' <=> InOrder(query[c], s, k)
  BY <1>3 DEF InOrder
<1>6. \A ids : Fetched(c, ids)' <=> Fetched(c, ids)
  BY <1>3, <1>5 DEF Fetched, After, Before
<1>7. Paged(c)'
  BY <1>3, <1>4, <1>6 DEF ClientInv, Paged, After
<1>8. Bounded(c)' /\ Ahead(c)'
  BY <1>3, <1>4 DEF ClientInv, Bounded, Ahead, Before, After
<1>9. Exact(c)'
  BY <1>3, <1>4, <1>5 DEF ClientInv, Exact, Before, After
<1>10. Announced(c)' /\ Owned(c)'
  BY <1>3, <1>4 DEF ClientInv, Announced, Owned, After
<1> QED
  BY <1>7, <1>8, <1>9, <1>10 DEF ClientInv

LEMMA StillTyped ==
    ASSUME Types, UNCHANGED <<request, answer>>, Disturb,
           orders' \in [OrderIds -> {NoOrder} \cup [user : Users, created : Times]],
           items' \subseteq OrderIds, price' \in [Products -> Prices]
    PROVE  Types'
<1> DEFINE Walk == [on : BOOLEAN, seen : Seq(Ids), began : SUBSET Ids,
                    since : {"quiet", "grown", "shrunk"}]
<1>1. ASSUME NEW c \in Clients, NEW w \in {"quiet", "grown", "shrunk"}
      PROVE  [walk[c] EXCEPT !.since = w] \in Walk
  BY DEF Types
<1>2. \A c \in Clients : Worst(query[c], walk[c].since) \in {"quiet", "grown", "shrunk"}
  BY DEF Worst, Types
<1>3. walk' \in [Clients -> Walk]
  BY <1>1, <1>2 DEF Disturb
<1>4. \A c \in Clients : walk'[c].since \in {"quiet", "grown", "shrunk"}
  BY <1>3
<1> QED
  BY <1>3, <1>4 DEF Types, TypeOK, request

(* An order that is placed, and a price that changes, leave the orders that there are. *)
LEMMA Moves ==
    ASSUME Types, items = Placed,
           (\E o \in OrderIds : PlaceOrder(o)) \/ (\E p \in Products : Reprice(p))
    PROVE  /\ Types' /\ items' = Placed'
           /\ \A q : /\ q.list = "myOrders" => Matching(q) \subseteq Matching(q)'
                     /\ \A a, b \in Matching(q) : Precedes(q.list, a, b)' <=> Precedes(q.list, a, b)
<1>1. ASSUME NEW o \in OrderIds, PlaceOrder(o)
      PROVE  /\ Types' /\ items' = Placed'
             /\ \A q : /\ q.list = "myOrders" => Matching(q) \subseteq Matching(q)'
                       /\ \A a, b \in Matching(q) : Precedes(q.list, a, b)' <=> Precedes(q.list, a, b)
  <2>1. PICK user \in Users, created \in Times :
              orders' = [orders EXCEPT ![o] = [user |-> user, created |-> created]]
    BY <1>1 DEF PlaceOrder
  <2>2. orders[o] = NoOrder /\ items' = items \cup {o} /\ UNCHANGED <<price, request, answer>>
        /\ Disturb
    BY <1>1 DEF PlaceOrder
  <2>3. [user |-> user, created |-> created] # NoOrder
    BY PagesAssumption DEF NoOrder
  <2>4. /\ orders'[o] # NoOrder /\ \A r \in OrderIds \ {o} : orders'[r] = orders[r]
    BY <2>1, <2>3 DEF Types, TypeOK
  <2>5. items' = Placed' /\ \A r \in Placed : orders'[r] = orders[r] /\ r \in Placed'
    BY <2>2, <2>4 DEF Placed, NoOrder
  <2>6. Types'
    <3>1. orders' \in [OrderIds -> {NoOrder} \cup [user : Users, created : Times]]
      BY <2>1 DEF Types, TypeOK
    <3>2. items' \subseteq OrderIds
      BY <2>2 DEF Types, TypeOK
    <3> QED
      BY <2>2, <3>1, <3>2, StillTyped DEF Types, TypeOK
  <2>7. ASSUME NEW q, q.list = "myOrders"
        PROVE  Matching(q) \subseteq Matching(q)'
    BY <2>5, <2>7 DEF Matching
  <2>8. ASSUME NEW q, NEW a \in Matching(q), NEW b \in Matching(q)
        PROVE  Precedes(q.list, a, b)' <=> Precedes(q.list, a, b)
    <3>1. CASE q.list = "myOrders"
      <4>1. a \in Placed /\ b \in Placed
        BY <3>1 DEF Matching
      <4> QED
        BY <2>5, <4>1 DEF Precedes
    <3>2. CASE q.list # "myOrders"
      BY <3>2 DEF Precedes
    <3> QED
      BY <3>1, <3>2
  <2> QED
    BY <2>5, <2>6, <2>7, <2>8
<1>2. ASSUME NEW p \in Products, Reprice(p)
      PROVE  /\ Types' /\ items' = Placed'
             /\ \A q : /\ q.list = "myOrders" => Matching(q) \subseteq Matching(q)'
                       /\ \A a, b \in Matching(q) : Precedes(q.list, a, b)' <=> Precedes(q.list, a, b)
  <2>1. UNCHANGED <<orders, items, request, answer>> /\ Disturb /\ price' \in [Products -> Prices]
    BY <1>2 DEF Reprice, Types, TypeOK
  <2>2. items' = Placed'
    BY <2>1 DEF Placed
  <2>3. Types'
    BY <2>1, StillTyped DEF Types, TypeOK
  <2>4. \A q : q.list = "myOrders" => Matching(q) \subseteq Matching(q)'
    BY <2>1 DEF Matching, Placed
  <2>5. \A q : \A a, b \in Matching(q) : Precedes(q.list, a, b)' <=> Precedes(q.list, a, b)
    BY <2>1 DEF Precedes
  <2> QED
    BY <2>2, <2>3, <2>4, <2>5
<1> QED
  BY <1>1, <1>2

(* What a walk has still to show stays ahead of it, unless a row has left. *)
LEMMA Disturbed ==
    ASSUME Inv, NEW c \in Clients,
           (\E o \in OrderIds : PlaceOrder(o)) \/ (\E p \in Products : Reprice(p))
    PROVE  ClientInv(c)'
<1>1. /\ UNCHANGED <<request, answer>>
      /\ walk'[c] = [walk[c] EXCEPT !.since = Worst(query[c], @)]
  BY DEF PlaceOrder, Reprice, Disturb
<1>2. PICK q : q = query[c]
  OBVIOUS
<1>3. /\ query'[c] = q /\ query[c] = q /\ pc'[c] = pc[c] /\ total'[c] = total[c]
      /\ rows'[c] = rows[c] /\ answer'[c] = answer[c]
  BY <1>1, <1>2 DEF request
<1>4. /\ walk'[c].on = walk[c].on /\ walk'[c].seen = walk[c].seen /\ walk'[c].began = walk[c].began
      /\ walk'[c].since # "shrunk" => walk[c].since # "shrunk" /\ Matching(q) \subseteq Matching(q)'
      /\ walk'[c].since = "quiet" => walk[c].since = "quiet" /\ Matching(q) = Matching(q)'
  <2>1. walk[c] \in [on : BOOLEAN, seen : Seq(Ids), began : SUBSET Ids,
                     since : {"quiet", "grown", "shrunk"}]
    BY DEF Inv, Types
  <2>2. PICK w : w = Worst(query[c], walk[c].since)
    OBVIOUS
  <2>3. walk'[c] = [walk[c] EXCEPT !.since = w]
    BY <1>1, <2>2
  <2>4. /\ walk'[c].on = walk[c].on /\ walk'[c].seen = walk[c].seen /\ walk'[c].began = walk[c].began
        /\ walk'[c].since = w
    BY <2>1, <2>3
  <2>5. Matching(query[c]) = Matching(q) /\ Matching(query[c])' = Matching(q)'
    BY <1>3
  <2>6. /\ w # "shrunk" => walk[c].since # "shrunk" /\ Matching(q) \subseteq Matching(q)'
        /\ w = "quiet" => walk[c].since = "quiet" /\ Matching(q) = Matching(q)'
    BY <2>1, <2>2, <2>5 DEF Worst
  <2> QED
    BY <2>4, <2>6
<1>5. /\ \A a, b \in Matching(q) : Precedes(q.list, a, b)' <=> Precedes(q.list, a, b)
      /\ q.list = "myOrders" => Matching(q) \subseteq Matching(q)'
  BY Moves DEF Inv
<1>6. ASSUME Matching(q) \subseteq Matching(q)'
      PROVE  /\ Cardinality(Matching(q)) \in Nat /\ Cardinality(Matching(q))' \in Nat
             /\ Cardinality(Matching(q)) <= Cardinality(Matching(q))'
             /\ \A x \in Matching(q) : /\ Rank(q, x) \in Nat /\ Rank(q, x)' \in Nat
                                       /\ Rank(q, x) <= Rank(q, x)'
  BY <1>5, <1>6, Grows
<1>7. ASSUME Matching(q) = Matching(q)'
      PROVE  /\ Cardinality(Matching(q))' = Cardinality(Matching(q))
             /\ Orderings(q)' = Orderings(q)
             /\ \A s, k : InOrder(q, s, k) => InOrder(q, s, k)'
  <2>1. (\A x \in Matching(q) : Rank(q, x)' = Rank(q, x)) /\ Orderings(q)' = Orderings(q)
    BY <1>5, <1>7, Stays
  <2> QED
    BY <1>7, <2>1 DEF InOrder
<1>8. (Waiting(c)' <=> Waiting(c)) /\ Before(q)' = Before(q) /\ After(q)' = After(q)
  BY <1>3 DEF Waiting, Before, After
<1>9. /\ q \in Query /\ Before(q) \in Nat /\ After(q) \in Nat /\ total[c] \in Nat
  BY <1>3, PageNumbers DEF Inv, Types, TypeOK
<1>10. ASSUME walk[c].on, walk[c].since # "shrunk" PROVE walk[c].began \subseteq Matching(q)
  BY <1>3, <1>10 DEF Inv, ClientInv, Ahead
<1>11. ASSUME NEW ids, Fetched(c, ids) PROVE Fetched(c, ids)'
  <2>1. Len(ids) <= q.size /\ (walk'[c].on /\ Len(ids) = q.size => After(q) <= IntMax)
    BY <1>3, <1>4, <1>11 DEF Fetched
  <2>2. ASSUME walk'[c].on, walk'[c].since # "shrunk", NEW x \in walk'[c].began \ Range(walk'[c].seen)
        PROVE  x \in Range(ids) \/ (Len(ids) = q.size /\ Rank(q, x)' >= After(q))
    <3>1. x \in Range(ids) \/ (Len(ids) = q.size /\ Rank(q, x) >= After(q))
      BY <1>3, <1>4, <1>11, <2>2 DEF Fetched
    <3>2. Rank(q, x) \in Nat /\ Rank(q, x)' \in Nat /\ Rank(q, x) <= Rank(q, x)'
      BY <1>4, <1>6, <1>10, <2>2
    <3> QED
      BY <1>9, <3>1, <3>2
  <2>3. ASSUME walk'[c].on, walk'[c].since = "quiet"
        PROVE  /\ Orderings(q)' # {}
               /\ InOrder(q, ids, Before(q))'
               /\ Len(ids) = q.size \/ Before(q) + Len(ids) = Cardinality(Matching(q))'
    <3>1. /\ Orderings(q) # {} /\ InOrder(q, ids, Before(q))
          /\ Len(ids) = q.size \/ Before(q) + Len(ids) = Cardinality(Matching(q))
      BY <1>3, <1>4, <1>11, <2>3 DEF Fetched
    <3>2. InOrder(q, ids, Before(q))'
      BY <1>4, <1>7, <1>8, <2>3, <3>1
    <3> QED
      BY <1>4, <1>7, <2>3, <3>1, <3>2
  <2>4. walk'[c].since # "shrunk" /\ After(q) < total[c] => Len(ids) = q.size
    BY <1>3, <1>4, <1>11 DEF Fetched
  <2>5. q.list = "myOrders" => Range(ids) \subseteq Matching(q)' /\ IsInjective(ids)
    BY <1>3, <1>5, <1>11 DEF Fetched
  <2> QED
    BY <1>3, <1>8, <2>1, <2>2, <2>3, <2>4, <2>5 DEF Fetched
<1>12. Paged(c)'
  BY <1>3, <1>8, <1>11 DEF Inv, ClientInv, Paged
<1>13. Bounded(c)'
  BY <1>3, <1>4, <1>8 DEF Inv, ClientInv, Bounded
<1>14. Ahead(c)'
  <2>1. SUFFICES ASSUME walk'[c].on, walk'[c].since # "shrunk"
                 PROVE  /\ walk[c].began \subseteq Matching(q)'
                        /\ \A x \in walk[c].began \ Range(walk[c].seen) :
                              /\ Waiting(c) => Rank(q, x)' >= Before(q)
                              /\ ~Waiting(c) => /\ Len(answer[c].rows) = q.size
                                                /\ Rank(q, x)' >= After(q)
    BY <1>3, <1>4, <1>8 DEF Ahead
  <2>2. walk[c].began \subseteq Matching(q) /\ Matching(q) \subseteq Matching(q)'
    BY <1>4, <1>10, <2>1
  <2>3. ASSUME NEW x \in walk[c].began \ Range(walk[c].seen)
        PROVE  /\ Waiting(c) => Rank(q, x)' >= Before(q)
               /\ ~Waiting(c) => /\ Len(answer[c].rows) = q.size
                                 /\ Rank(q, x)' >= After(q)
    <3>1. /\ Waiting(c) => Rank(q, x) >= Before(q)
          /\ ~Waiting(c) => /\ Len(answer[c].rows) = q.size
                            /\ Rank(q, x) >= After(q)
      BY <1>3, <1>4, <2>1 DEF Inv, ClientInv, Ahead
    <3>2. Rank(q, x) \in Nat /\ Rank(q, x)' \in Nat /\ Rank(q, x) <= Rank(q, x)'
      BY <1>6, <2>2
    <3> QED
      BY <1>9, <3>1, <3>2
  <2> QED
    BY <2>2, <2>3
<1>15. Exact(c)'
  BY <1>3, <1>4, <1>7, <1>8 DEF Inv, ClientInv, Exact
<1>16. Announced(c)'
  <2>1. SUFFICES ASSUME walk'[c].since # "shrunk"
                 PROVE  /\ pc[c] \in {"select", "items"} => total[c] <= Cardinality(Matching(q))'
                        /\ ~Waiting(c) /\ answer[c].hasNextPage =>
                              /\ Len(answer[c].rows) = q.size
                              /\ After(q) < Cardinality(Matching(q))'
    BY <1>3, <1>8 DEF Announced
  <2>2. /\ pc[c] \in {"select", "items"} => total[c] <= Cardinality(Matching(q))
        /\ ~Waiting(c) /\ answer[c].hasNextPage =>
              /\ Len(answer[c].rows) = q.size
              /\ After(q) < Cardinality(Matching(q))
    BY <1>3, <1>4, <2>1 DEF Inv, ClientInv, Announced
  <2> QED
    BY <1>4, <1>6, <1>9, <2>1, <2>2
<1>17. Owned(c)'
  BY <1>3, <1>5, <1>8 DEF Inv, ClientInv, Owned
<1> QED
  BY <1>12, <1>13, <1>14, <1>15, <1>16, <1>17 DEF ClientInv

-----------------------------------------------------------------------------
(* Every step keeps the invariant *)

LEMMA Empty ==
    /\ << >> \in Seq(Ids) /\ Len(<< >>) = 0 /\ Range(<< >>) = {} /\ DOMAIN << >> = {}
    /\ NoAnswer \in [code : Codes, rows : Seq(Ids), items : SUBSET OrderIds,
                     total : Nat, hasNextPage : BOOLEAN]
    /\ NoAnswer.code = "NONE" /\ NoAnswer.rows = << >>
    /\ NoWalk \in [on : BOOLEAN, seen : Seq(Ids), began : SUBSET Ids,
                   since : {"quiet", "grown", "shrunk"}]
    /\ ~NoWalk.on /\ NoWalk.since = "quiet" /\ NoWalk.seen = << >>
<1>1. << >> \in Seq(Ids) /\ Len(<< >>) = 0 /\ Range(<< >>) = {} /\ DOMAIN << >> = {}
  BY DEF Range
<1>2. "NONE" \in Codes
  BY DEF Codes
<1>3. {} \in SUBSET OrderIds /\ 0 \in Nat /\ FALSE \in BOOLEAN
  OBVIOUS
<1>4. NoAnswer \in [code : Codes, rows : Seq(Ids), items : SUBSET OrderIds,
                    total : Nat, hasNextPage : BOOLEAN]
  BY <1>1, <1>2, <1>3 DEF NoAnswer
<1> QED
  BY <1>1, <1>4 DEF NoAnswer, NoWalk

LEMMA Start == Init => Inv
<1> SUFFICES ASSUME Init PROVE Inv
  OBVIOUS
<1>1. NoQuery \in Query /\ NoQuery.page = 1 /\ NoQuery.size = 1
  BY PagesAssumption DEF NoQuery, Query
<1>2. << >> \in Seq(Ids) /\ Len(<< >>) = 0
  BY Empty
<1>5. Types
  <2>1. Len(<< >>) <= MaxSize /\ << >> \in Seq(OrderIds \cup Products)
    BY <1>2, PagesAssumption DEF Ids
  <2>2. \A c \in Clients : walk[c].since = "quiet"
    BY DEF Init, NoWalk
  <2>3. TypeOK
    BY <1>1, <2>1, <2>2 DEF Init, TypeOK
  <2> QED
    BY <1>2, <2>3, Empty DEF Init, Types
<1>6. items = Placed
  BY DEF Init, Placed
<1>7. ASSUME NEW c \in Clients PROVE ClientInv(c)
  <2>1. /\ pc[c] = "idle" /\ rows[c] = << >> /\ answer[c] = NoAnswer /\ walk[c] = NoWalk
        /\ Waiting(c)
    BY DEF Init, Waiting, NoAnswer
  <2>2. ~walk[c].on
    BY <2>1 DEF NoWalk
  <2> QED
    BY <2>1, <2>2 DEF ClientInv, Paged, Bounded, Ahead, Exact, Announced, Owned
<1> QED
  BY <1>5, <1>6, <1>7 DEF Inv

(* A step of a client that leaves the rows and the other clients alone. *)
LEMMA OneClient ==
    ASSUME Inv, UNCHANGED db, NEW c \in Clients, Types', ClientInv(c)',
           \A d \in Clients \ {c} :
              /\ pc'[d] = pc[d] /\ query'[d] = query[d] /\ total'[d] = total[d]
              /\ rows'[d] = rows[d] /\ answer'[d] = answer[d] /\ walk'[d] = walk[d]
    PROVE  Inv'
<1>1. items' = Placed'
  <2>1. items = Placed
    BY DEF Inv
  <2> QED
    BY <2>1 DEF Placed, db
<1>2. ASSUME NEW d \in Clients PROVE ClientInv(d)'
  <2>1. CASE d = c
    BY <2>1
  <2>2. CASE d # c
    BY <2>2, Others DEF Inv
  <2> QED
    BY <2>1, <2>2
<1> QED
  BY <1>1, <1>2 DEF Inv

LEMMA Refused ==
    ASSUME Inv, NEW c \in Clients, NEW code \in Codes, code # "OK", Refuse(c, code),
           \/ UNCHANGED walk /\ pc[c] # "idle"
           \/ walk' = [walk EXCEPT ![c] = NoWalk]
    PROVE  Inv'
<1> DEFINE Answer == [code : Codes, rows : Seq(Ids), items : SUBSET OrderIds,
                      total : Nat, hasNextPage : BOOLEAN]
           Walk == [on : BOOLEAN, seen : Seq(Ids), began : SUBSET Ids,
                    since : {"quiet", "grown", "shrunk"}]
           refusal == [NoAnswer EXCEPT !.code = code]
<1>1. << >> \in Seq(Ids) /\ Len(<< >>) = 0
  OBVIOUS
<1>2. refusal \in Answer /\ refusal.code = code
  BY <1>1 DEF NoAnswer
<1>3. NoWalk \in Walk /\ ~NoWalk.on /\ NoWalk.since = "quiet"
  BY <1>1 DEF NoWalk
<1>4. /\ pc' = [pc EXCEPT ![c] = "idle"] /\ answer' = [answer EXCEPT ![c] = refusal]
      /\ total' = [total EXCEPT ![c] = 0] /\ rows' = [rows EXCEPT ![c] = << >>]
      /\ UNCHANGED <<db, query>>
  BY DEF Refuse, Forget
<1> HIDE DEF refusal
<1>5. Types'
  <2>1. /\ pc' \in [Clients -> {"idle", "count", "select", "items"}]
        /\ answer' \in [Clients -> Answer]
        /\ total' \in [Clients -> Nat] /\ rows' \in [Clients -> Seq(Ids)]
        /\ walk' \in [Clients -> Walk]
    <3>1. pc \in [Clients -> {"idle", "count", "select", "items"}]
      BY DEF Inv, Types, TypeOK
    <3>2. answer \in [Clients -> Answer] /\ total \in [Clients -> Nat]
          /\ rows \in [Clients -> Seq(Ids)] /\ walk \in [Clients -> Walk]
      BY DEF Inv, Types
    <3> HIDE DEF Answer, Walk
    <3> QED
      BY <1>1, <1>2, <1>3, <1>4, <3>1, <3>2
  <2>2. \A d \in Clients : Len(rows'[d]) <= MaxSize
    BY <1>1, <1>4, PagesAssumption DEF Inv, Types, TypeOK
  <2>3. \A d \in Clients : walk'[d].since \in {"quiet", "grown", "shrunk"}
    BY <2>1
  <2> QED
    BY <1>4, <2>1, <2>2, <2>3 DEF Inv, Types, TypeOK, db, Ids
<1>6. /\ pc'[c] = "idle" /\ answer'[c].code # "OK" /\ total'[c] = 0 /\ rows'[c] = << >>
      /\ query'[c] = query[c]
  BY <1>2, <1>4 DEF Inv, Types, TypeOK
<1>7. Waiting(c)'
  BY <1>6 DEF Waiting
<1>8. \/ walk'[c] = walk[c] /\ Waiting(c)
      \/ walk'[c] = NoWalk
  <2>1. pc[c] # "idle" => Waiting(c)
    BY DEF Inv, ClientInv, Paged, Waiting, NoAnswer
  <2> QED
    BY <2>1 DEF Inv, Types
<1>9. ClientInv(c)'
  <2>1. Paged(c)' /\ Announced(c)' /\ Owned(c)'
    BY <1>6, <1>7 DEF Paged, Announced, Owned
  <2>2. CASE walk'[c] = NoWalk
    <3>1. Bounded(c)' /\ Ahead(c)' /\ Exact(c)'
      BY <1>3, <2>2 DEF Bounded, Ahead, Exact
    <3> QED
      BY <2>1, <3>1 DEF ClientInv
  <2>3. CASE walk'[c] = walk[c] /\ Waiting(c)
    <3>1. PICK q : q = query[c]
      OBVIOUS
    <3>2. query'[c] = q /\ query[c] = q
      BY <1>6, <3>1
    <3>3. /\ Matching(query[c])' = Matching(query[c])
          /\ \A x : Rank(query[c], x)' = Rank(query[c], x)
      BY <1>4, <3>2, Unmoved
    <3>4. \A s, k : InOrder(query[c], s, k)' <=> InOrder(query[c], s, k)
      BY <3>3 DEF InOrder
    <3>5. Bounded(c) /\ Ahead(c) /\ Exact(c)
      BY DEF Inv, ClientInv
    <3>6. Bounded(c)' /\ Ahead(c)' /\ Exact(c)'
      BY <1>6, <1>7, <2>3, <3>3, <3>4, <3>5 DEF Bounded, Ahead, Exact, Before, After
    <3> QED
      BY <2>1, <3>6 DEF ClientInv
  <2> QED
    BY <1>8, <2>2, <2>3
<1>10. \A d \in Clients \ {c} :
          /\ pc'[d] = pc[d] /\ query'[d] = query[d] /\ total'[d] = total[d]
          /\ rows'[d] = rows[d] /\ answer'[d] = answer[d] /\ walk'[d] = walk[d]
  BY <1>4 DEF Inv, Types, TypeOK
<1> QED
  BY <1>4, <1>5, <1>9, <1>10, OneClient

(* A request that is accepted, with what its walk has still to show ahead of it. *)
LEMMA Accepted ==
    ASSUME Inv, NEW c \in Clients, NEW q \in Query, NEW continues, Accept(c, q, continues),
           pc[c] = "idle",
           ~continues \/
              /\ walk[c].on /\ Before(q) <= IntMax
              /\ walk[c].since # "shrunk" =>
                    /\ walk[c].began \subseteq Matching(q)
                    /\ \A x \in walk[c].began \ Range(walk[c].seen) : Rank(q, x) >= Before(q)
              /\ walk[c].since = "quiet" =>
                    /\ walk[c].began = Matching(q)
                    /\ InOrder(q, walk[c].seen, 0)
                    /\ Len(walk[c].seen) = Before(q)
    PROVE  Inv'
<1> DEFINE Walk == [on : BOOLEAN, seen : Seq(Ids), began : SUBSET Ids,
                    since : {"quiet", "grown", "shrunk"}]
           first == [NoWalk EXCEPT !.on = TRUE, !.began = Matching(q)]
           w == IF continues THEN walk[c] ELSE IF q.page = 1 THEN first ELSE NoWalk
<1>1. << >> \in Seq(Ids) /\ Len(<< >>) = 0 /\ Range(<< >>) = {} /\ DOMAIN << >> = {}
  BY DEF Range
<1>2. /\ NoWalk \in Walk /\ ~NoWalk.on
      /\ first \in Walk /\ first.on /\ first.began = Matching(q) /\ first.seen = << >>
  <2>1. Matching(q) \in SUBSET Ids
    BY MatchingFinite
  <2> QED
    BY <1>1, <2>1 DEF NoWalk
<1>3. /\ query' = [query EXCEPT ![c] = q] /\ pc' = [pc EXCEPT ![c] = "count"]
      /\ walk' = [walk EXCEPT ![c] = w] /\ answer' = [answer EXCEPT ![c] = NoAnswer]
      /\ UNCHANGED <<db, total, rows>>
  BY DEF Accept, Inv, Types
<1>4. NoAnswer \in [code : Codes, rows : Seq(Ids), items : SUBSET OrderIds,
                    total : Nat, hasNextPage : BOOLEAN]
  BY Empty
<1>5. w \in Walk
  BY <1>2 DEF Inv, Types
<1>6. w.on =>
        /\ Before(q) <= IntMax
        /\ w.since # "shrunk" =>
              /\ w.began \subseteq Matching(q)
              /\ \A x \in w.began \ Range(w.seen) : Rank(q, x) >= Before(q)
        /\ w.since = "quiet" =>
              /\ w.began = Matching(q)
              /\ InOrder(q, w.seen, 0)
              /\ Len(w.seen) = Before(q)
  <2>1. CASE continues
    BY <2>1
  <2>2. CASE ~continues /\ q.page = 1
    <3>1. w = first /\ Before(q) = 0 /\ IntMax \in Nat /\ \A x : Rank(q, x) \in Nat
      BY <2>2, PageNumbers, PagesAssumption, RankType
    <3> QED
      BY <1>1, <1>2, <3>1 DEF InOrder
  <2>3. CASE ~continues /\ q.page # 1
    BY <1>2, <2>3
  <2> QED
    BY <2>1, <2>2, <2>3
<1> HIDE DEF w
<1>7. Types'
  <2>1. /\ pc' \in [Clients -> {"idle", "count", "select", "items"}]
        /\ query' \in [Clients -> Query]
        /\ answer' \in [Clients -> [code : Codes, rows : Seq(Ids), items : SUBSET OrderIds,
                                    total : Nat, hasNextPage : BOOLEAN]]
        /\ walk' \in [Clients -> Walk]
    BY <1>3, <1>4, <1>5 DEF Inv, Types, TypeOK
  <2>2. \A d \in Clients : walk'[d].since \in {"quiet", "grown", "shrunk"}
    BY <2>1
  <2> QED
    BY <1>3, <2>1, <2>2 DEF Inv, Types, TypeOK, db
<1>8. /\ pc'[c] = "count" /\ query'[c] = q /\ walk'[c] = w /\ answer'[c] = NoAnswer
      /\ rows'[c] = << >>
  BY <1>3 DEF Inv, Types, TypeOK, ClientInv, Paged
<1>9. Waiting(c)'
  BY <1>8 DEF Waiting, NoAnswer
<1>10. ClientInv(c)'
  <2>1. Paged(c)' /\ Announced(c)' /\ Owned(c)'
    BY <1>8, <1>9 DEF Paged, Announced, Owned
  <2>2. Matching(q)' = Matching(q) /\ \A x : Rank(q, x)' = Rank(q, x)
    BY <1>3, Unmoved
  <2>3. \A s, k : InOrder(q, s, k)' <=> InOrder(q, s, k)
    BY <2>2 DEF InOrder
  <2>4. Bounded(c)' /\ Ahead(c)' /\ Exact(c)'
    BY <1>6, <1>8, <1>9, <2>2, <2>3 DEF Bounded, Ahead, Exact, Before
  <2> QED
    BY <2>1, <2>4 DEF ClientInv
<1>11. \A d \in Clients \ {c} :
          /\ pc'[d] = pc[d] /\ query'[d] = query[d] /\ total'[d] = total[d]
          /\ rows'[d] = rows[d] /\ answer'[d] = answer[d] /\ walk'[d] = walk[d]
  BY <1>3 DEF Inv, Types, TypeOK
<1> QED
  BY <1>3, <1>7, <1>10, <1>11, OneClient

(* normalizePagination brings whatever a client sends into its bounds. *)
LEMMA Normal ==
    /\ \A page \in PageArgs : NormalPage(PageOr(page, 1)) \in 1..IntMax
    /\ \A size \in SizeArgs : NormalSize(PageOr(size, DefaultSize)) \in 1..MaxSize
<1>1. IntMax \in Nat \ {0} /\ DefaultSize \in 1..MaxSize /\ MaxSize \in Nat
  BY PagesAssumption
<1>2. ASSUME NEW page \in PageArgs PROVE NormalPage(PageOr(page, 1)) \in 1..IntMax
  <2>1. PageOr(page, 1) \in (-IntMax - 1)..IntMax
    BY <1>1, PagesAssumption DEF PageOr
  <2> QED
    BY <1>1, <2>1 DEF NormalPage
<1>3. ASSUME NEW size \in SizeArgs PROVE NormalSize(PageOr(size, DefaultSize)) \in 1..MaxSize
  <2>1. PageOr(size, DefaultSize) \in Int
    BY <1>1, PagesAssumption DEF PageOr
  <2> QED
    BY <1>1, <2>1 DEF NormalSize
<1> QED
  BY <1>2, <1>3

LEMMA NoQueryType == NoQuery \in Query
BY PagesAssumption DEF NoQuery, Query

LEMMA OrdersAsked ==
    ASSUME Inv, NEW c \in Clients, AskOrders(c)
    PROVE  Inv'
<1>1. PICK user \in Users \cup {None}, page \in PageArgs, size \in SizeArgs :
          IF user = None THEN /\ Refuse(c, "UNAUTHENTICATED")
                              /\ walk' = [walk EXCEPT ![c] = NoWalk]
          ELSE Accept(c, [NoQuery EXCEPT !.list = "myOrders", !.user = user,
                                         !.page = NormalPage(PageOr(page, 1)),
                                         !.size = NormalSize(PageOr(size, DefaultSize))], FALSE)
  BY DEF AskOrders
<1>2. CASE user = None
  <2>1. "UNAUTHENTICATED" \in Codes
    BY DEF Codes
  <2> QED
    BY <1>1, <1>2, <2>1, Refused
<1>3. CASE user # None
  <2> DEFINE q == [NoQuery EXCEPT !.list = "myOrders", !.user = user,
                                  !.page = NormalPage(PageOr(page, 1)),
                                  !.size = NormalSize(PageOr(size, DefaultSize))]
  <2>1. q \in Query
    BY Normal, NoQueryType DEF Query
  <2>2. Accept(c, q, FALSE) /\ pc[c] = "idle"
    BY <1>1, <1>3 DEF AskOrders
  <2> HIDE DEF q
  <2> QED
    BY <2>1, <2>2, Accepted
<1> QED
  BY <1>2, <1>3

LEMMA ProductsAsked ==
    ASSUME Inv, NEW c \in Clients, AskProducts(c)
    PROVE  Inv'
<1>1. PICK filter \in Filters, page \in PageArgs, size \in SizeArgs :
          IF ~ValidFilter(filter) THEN /\ Refuse(c, "INVALID_FILTER")
                                       /\ walk' = [walk EXCEPT ![c] = NoWalk]
          ELSE Accept(c, [NoQuery EXCEPT !.filter = filter,
                                         !.page = NormalPage(PageOr(page, 1)),
                                         !.size = NormalSize(PageOr(size, DefaultSize))], FALSE)
  BY DEF AskProducts
<1>2. CASE ~ValidFilter(filter)
  <2>1. "INVALID_FILTER" \in Codes
    BY DEF Codes
  <2> QED
    BY <1>1, <1>2, <2>1, Refused
<1>3. CASE ValidFilter(filter)
  <2> DEFINE q == [NoQuery EXCEPT !.filter = filter,
                                  !.page = NormalPage(PageOr(page, 1)),
                                  !.size = NormalSize(PageOr(size, DefaultSize))]
  <2>1. q \in Query
    BY Normal, NoQueryType DEF Query
  <2>2. Accept(c, q, FALSE) /\ pc[c] = "idle"
    BY <1>1, <1>3 DEF AskProducts
  <2> HIDE DEF q
  <2> QED
    BY <2>1, <2>2, Accepted
<1> QED
  BY <1>2, <1>3

(* The page after one that was full is a page of the same rows, and begins where it ended. *)
LEMMA NextAsked ==
    ASSUME Inv, NEW c \in Clients, AskNext(c)
    PROVE  Inv'
<1> DEFINE q == [query[c] EXCEPT !.page = @ + 1]
<1>1. /\ pc[c] = "idle" /\ walk[c].on /\ answer[c].code = "OK"
      /\ Len(answer[c].rows) = query[c].size
      /\ query[c].page < IntMax /\ query[c] \in Query
      /\ Accept(c, q, TRUE)
  BY DEF AskNext, Inv, Types, TypeOK
<1>2. q \in Query /\ q.page = query[c].page + 1
  <2>1. query[c].page \in 1..IntMax /\ IntMax \in Nat
    BY <1>1, PageNumbers, PagesAssumption
  <2>2. query[c].page + 1 \in 1..IntMax
    BY <1>1, <2>1
  <2> QED
    BY <1>1, <2>2 DEF Query
<1>3. q.list = query[c].list /\ q.user = query[c].user /\ q.filter = query[c].filter
      /\ q.size = query[c].size
  BY <1>1 DEF Query
<1>4. Before(q) = After(query[c])
  <2>1. query[c].page \in Int /\ (query[c].page + 1) - 1 = query[c].page
    BY <1>1, PageNumbers
  <2> QED
    BY <1>2, <1>3, <2>1 DEF Before, After
<1> HIDE DEF q
<1>5. Matching(q) = Matching(query[c]) /\ \A x : Rank(q, x) = Rank(query[c], x)
  <2>1. Matching(q) = Matching(query[c])
    BY <1>3 DEF Matching
  <2> QED
    BY <1>3, <2>1 DEF Rank
<1>6. \A s, k : InOrder(q, s, k) <=> InOrder(query[c], s, k)
  BY <1>5 DEF InOrder
<1>7. ~Waiting(c) /\ Bounded(c) /\ Ahead(c) /\ Exact(c)
  BY <1>1 DEF Waiting, Inv, ClientInv
<1>8. /\ walk[c].on /\ Before(q) <= IntMax
      /\ walk[c].since # "shrunk" =>
            /\ walk[c].began \subseteq Matching(q)
            /\ \A x \in walk[c].began \ Range(walk[c].seen) : Rank(q, x) >= Before(q)
      /\ walk[c].since = "quiet" =>
            /\ walk[c].began = Matching(q)
            /\ InOrder(q, walk[c].seen, 0)
            /\ Len(walk[c].seen) = Before(q)
  BY <1>1, <1>4, <1>5, <1>6, <1>7 DEF Bounded, Ahead, Exact
<1> QED
  BY <1>1, <1>2, <1>8, Accepted

LEMMA AskedAgain ==
    ASSUME Inv, NEW c \in Clients, AskAgain(c)
    PROVE  Inv'
<1>1. /\ pc[c] = "idle" /\ walk[c].on /\ Waiting(c) /\ query[c] \in Query
      /\ Accept(c, query[c], TRUE)
  BY DEF AskAgain, Waiting, Inv, Types, TypeOK
<1>2. Bounded(c) /\ Ahead(c) /\ Exact(c)
  BY DEF Inv, ClientInv
<1>3. PICK q : q = query[c]
  OBVIOUS
<1>4. /\ walk[c].on /\ Before(q) <= IntMax
      /\ walk[c].since # "shrunk" =>
            /\ walk[c].began \subseteq Matching(q)
            /\ \A x \in walk[c].began \ Range(walk[c].seen) : Rank(q, x) >= Before(q)
      /\ walk[c].since = "quiet" =>
            /\ walk[c].began = Matching(q)
            /\ InOrder(q, walk[c].seen, 0)
            /\ Len(walk[c].seen) = Before(q)
  BY <1>1, <1>2, <1>3 DEF Bounded, Ahead, Exact
<1> QED
  BY <1>1, <1>3, <1>4, Accepted

LEMMA CountTaken ==
    ASSUME Inv, NEW c \in Clients, Count(c)
    PROVE  Inv'
<1>1. /\ pc[c] = "count" /\ pc' = [pc EXCEPT ![c] = "select"]
      /\ total' = [total EXCEPT ![c] = Cardinality(Matching(query[c]))]
      /\ UNCHANGED <<db, query, rows, answer, walk>>
  BY DEF Count, Counted
<1>2. PICK q : q = query[c]
  OBVIOUS
<1>3. /\ query'[c] = q /\ query[c] = q /\ pc'[c] = "select" /\ rows'[c] = rows[c]
      /\ answer'[c] = answer[c] /\ walk'[c] = walk[c] /\ total'[c] = Cardinality(Matching(q))
  BY <1>1, <1>2 DEF Inv, Types, TypeOK
<1>4. Cardinality(Matching(q)) \in Nat
  BY MatchingFinite
<1>5. Types'
  <2>1. pc' \in [Clients -> {"idle", "count", "select", "items"}] /\ total' \in [Clients -> Nat]
    BY <1>1, <1>2, <1>4 DEF Inv, Types, TypeOK
  <2> QED
    BY <1>1, <2>1 DEF Inv, Types, TypeOK, db
<1>6. Matching(q)' = Matching(q) /\ \A x : Rank(q, x)' = Rank(q, x)
  BY <1>1, Unmoved
<1>7. \A s, k : InOrder(q, s, k)' <=> InOrder(q, s, k)
  BY <1>6 DEF InOrder
<1>8. Waiting(c) /\ Waiting(c)' /\ answer[c] = NoAnswer
  BY <1>1, <1>3 DEF Inv, ClientInv, Paged, Waiting, NoAnswer
<1>9. ClientInv(c)'
  <2>1. Paged(c)' /\ Owned(c)'
    BY <1>1, <1>3, <1>8 DEF Inv, ClientInv, Paged, Owned
  <2>2. Bounded(c)' /\ Ahead(c)'
    BY <1>3, <1>6, <1>8 DEF Inv, ClientInv, Bounded, Ahead, Before
  <2>3. Exact(c)' /\ Announced(c)'
    BY <1>3, <1>4, <1>6, <1>7, <1>8 DEF Inv, ClientInv, Exact, Announced, Before
  <2> QED
    BY <2>1, <2>2, <2>3 DEF ClientInv
<1>10. \A d \in Clients \ {c} :
          /\ pc'[d] = pc[d] /\ query'[d] = query[d] /\ total'[d] = total[d]
          /\ rows'[d] = rows[d] /\ answer'[d] = answer[d] /\ walk'[d] = walk[d]
  BY <1>1 DEF Inv, Types, TypeOK
<1> QED
  BY <1>1, <1>5, <1>9, <1>10, OneClient

LEMMA Failed ==
    ASSUME Inv, NEW c \in Clients, StatementFails(c)
    PROVE  Inv'
<1>1. "INTERNAL_ERROR" \in Codes
  BY DEF Codes
<1> QED
  BY <1>1, Refused DEF StatementFails

(* The select sees every row that the count saw, in the order in which the walk sees them. *)
LEMMA PageFetched ==
    ASSUME Inv, NEW c \in Clients, pc[c] = "select", NEW s \in Orderings(query[c]),
           Offset(query[c].page, query[c].size) >= 0
    PROVE  LET ids == Page(s, Offset(query[c].page, query[c].size), query[c].size) IN
           ids \in Seq(Ids) /\ Fetched(c, ids)
<1> DEFINE q == query[c]
           offset == Offset(q.page, q.size)
           ids == Page(s, offset, q.size)
           count == Cardinality(Matching(q))
<1>1. q \in Query /\ TypeOK
  BY DEF Inv, Types, TypeOK
<1>2. /\ Before(q) \in Nat /\ After(q) \in Nat /\ After(q) = Before(q) + q.size
      /\ Before(q) <= IntMax => offset = Before(q)
      /\ offset \in Nat /\ q.size \in Nat
  BY <1>1, PageNumbers
<1>3. count \in Nat /\ count <= IntMax /\ IntMax \in Nat
  BY MatchingFinite, PagesAssumption
<1>4. /\ ids \in Seq(Ids) /\ Len(ids) <= q.size
      /\ InOrder(q, ids, offset) /\ IsInjective(ids)
      /\ Len(ids) = q.size <=> offset + q.size <= count
      /\ offset <= count /\ Len(ids) # q.size => offset + Len(ids) = count
      /\ \A x \in Matching(q) : Rank(q, x) >= offset =>
            x \in Range(ids) \/ (Len(ids) = q.size /\ Rank(q, x) >= offset + q.size)
  BY <1>1, <1>2, SelectedPage
<1>5. Waiting(c) /\ Bounded(c) /\ Ahead(c) /\ Exact(c) /\ Announced(c)
  BY DEF Inv, ClientInv, Paged, Waiting, NoAnswer
<1>6. Len(ids) \in Nat
  BY <1>4
<1>7. ASSUME walk[c].on PROVE Before(q) <= IntMax /\ offset = Before(q)
  BY <1>2, <1>5, <1>7 DEF Bounded
<1> HIDE DEF ids, count, offset
<1>8. walk[c].on /\ Len(ids) = q.size => After(q) <= IntMax
  BY <1>2, <1>3, <1>4, <1>7
<1>9. ASSUME walk[c].on, walk[c].since # "shrunk", NEW x \in walk[c].began \ Range(walk[c].seen)
      PROVE  x \in Range(ids) \/ (Len(ids) = q.size /\ Rank(q, x) >= After(q))
  <2>1. x \in Matching(q) /\ Rank(q, x) >= Before(q)
    BY <1>5, <1>9 DEF Ahead
  <2> QED
    BY <1>2, <1>4, <1>7, <1>9, <2>1
<1>10. ASSUME walk[c].on, walk[c].since = "quiet"
       PROVE  /\ Orderings(q) # {} /\ InOrder(q, ids, Before(q))
              /\ Len(ids) = q.size \/ Before(q) + Len(ids) = count
  <2>1. Before(q) <= count
    <3>1. InOrder(q, walk[c].seen, 0) /\ Len(walk[c].seen) = Before(q)
      BY <1>5, <1>10 DEF Exact
    <3>2. walk[c].seen \in Seq(Ids)
      BY DEF Inv, Types
    <3>3. CASE Before(q) = 0
      BY <1>3, <3>3
    <3>4. CASE Before(q) # 0
      <4>1. Before(q) \in DOMAIN walk[c].seen
        BY <1>2, <3>1, <3>2, <3>4
      <4>2. PICK x : x \in Matching(q) /\ Rank(q, x) = 0 + Before(q) - 1
        BY <3>1, <4>1 DEF InOrder
      <4>3. /\ Len(s) = count /\ Len(s) \in Nat
            /\ \A i \in 1..Len(s) : Rank(q, s[i]) = i - 1
            /\ \A y \in Matching(q) : \E i \in 1..Len(s) : s[i] = y
        BY <1>1, <1>3, Sorted DEF count
      <4>4. PICK i \in 1..Len(s) : s[i] = x
        BY <4>2, <4>3
      <4> QED
        BY <1>2, <4>2, <4>3, <4>4
    <3> QED
      BY <3>3, <3>4
  <2> QED
    BY <1>4, <1>7, <1>10, <2>1
<1>11. ASSUME walk[c].since # "shrunk", After(q) < total[c] PROVE Len(ids) = q.size
  <2>1. total[c] <= count /\ total[c] \in Nat
    BY <1>5, <1>11 DEF Announced, Inv, Types, TypeOK, count
  <2>2. Before(q) <= IntMax
    BY <1>2, <1>3, <1>11, <2>1
  <2> QED
    BY <1>2, <1>3, <1>4, <1>11, <2>1, <2>2
<1>12. Range(ids) \subseteq Matching(q)
  BY <1>4 DEF InOrder, Range
<1> QED
  BY <1>4, <1>8, <1>9, <1>10, <1>11, <1>12 DEF Fetched, ids, count, offset

(* What a walk has seen, with the next page. *)
LEMMA Seen ==
    ASSUME NEW q, NEW s \in Seq(Ids), NEW t \in Seq(Ids)
    PROVE  /\ s \o t \in Seq(Ids) /\ Len(s \o t) = Len(s) + Len(t)
           /\ Range(s \o t) = Range(s) \cup Range(t)
           /\ InOrder(q, s, 0) /\ InOrder(q, t, Len(s)) => InOrder(q, s \o t, 0)
<1>1. /\ s \o t \in Seq(Ids) /\ Len(s \o t) = Len(s) + Len(t) /\ Len(s) \in Nat /\ Len(t) \in Nat
      /\ \A i \in 1..(Len(s) + Len(t)) : (s \o t)[i] = IF i <= Len(s) THEN s[i] ELSE t[i - Len(s)]
      /\ DOMAIN s = 1..Len(s) /\ DOMAIN t = 1..Len(t) /\ DOMAIN (s \o t) = 1..(Len(s) + Len(t))
  BY ConcatProperties
<1> DEFINE st == s \o t
<1> HIDE DEF st
<1>2. /\ \A i \in DOMAIN s : i \in DOMAIN st /\ st[i] = s[i]
      /\ \A i \in DOMAIN t : i + Len(s) \in DOMAIN st /\ st[i + Len(s)] = t[i]
      /\ \A i \in DOMAIN st : i \in DOMAIN s \/ (i - Len(s) \in DOMAIN t /\ st[i] = t[i - Len(s)])
  BY <1>1 DEF st
<1>3. Range(st) = Range(s) \cup Range(t)
  BY <1>2 DEF Range
<1>4. ASSUME InOrder(q, s, 0), InOrder(q, t, Len(s)), NEW i \in DOMAIN st
      PROVE  st[i] \in Matching(q) /\ Rank(q, st[i]) = 0 + i - 1
  <2>1. CASE i \in DOMAIN s
    BY <1>2, <1>4, <2>1 DEF InOrder
  <2>2. CASE i - Len(s) \in DOMAIN t /\ st[i] = t[i - Len(s)]
    <3>1. st[i] \in Matching(q) /\ Rank(q, st[i]) = Len(s) + (i - Len(s)) - 1
      BY <1>4, <2>2 DEF InOrder
    <3>2. i \in Int /\ Len(s) + (i - Len(s)) - 1 = 0 + i - 1
      BY <1>1 DEF st
    <3> QED
      BY <3>1, <3>2
  <2> QED
    BY <1>2, <2>1, <2>2
<1>5. InOrder(q, s, 0) /\ InOrder(q, t, Len(s)) => InOrder(q, st, 0)
  BY <1>4 DEF InOrder
<1> QED
  BY <1>1, <1>3, <1>5 DEF st

LEMMA Delivered ==
    ASSUME Inv, NEW c \in Clients, pc[c] \in {"select", "items"},
           NEW ids \in Seq(Ids), Fetched(c, ids), NEW withItems \in SUBSET OrderIds,
           query[c].list = "myOrders" => withItems = Range(ids),
           Deliver(c, ids, withItems)
    PROVE  Inv'
<1> DEFINE Answer == [code : Codes, rows : Seq(Ids), items : SUBSET OrderIds,
                      total : Nat, hasNextPage : BOOLEAN]
           Walk == [on : BOOLEAN, seen : Seq(Ids), began : SUBSET Ids,
                    since : {"quiet", "grown", "shrunk"}]
           next == HasNextPage(total[c], query[c].page, query[c].size)
           a == [code |-> "OK", rows |-> ids, items |-> withItems, total |-> total[c],
                 hasNextPage |-> next]
           w == [walk[c] EXCEPT !.seen = IF walk[c].on THEN @ \o ids ELSE @]
<1>1. PICK q : q = query[c]
  OBVIOUS
<1>2. /\ q \in Query /\ walk[c] \in Walk /\ total[c] \in Nat
  BY <1>1 DEF Inv, Types, TypeOK
<1>3. /\ Before(q) \in Nat /\ After(q) \in Nat /\ After(q) = Before(q) + q.size /\ q.size \in Nat
      /\ next <=> After(q) < total[c]
  BY <1>1, <1>2, PageNumbers
<1>4. /\ next \in BOOLEAN /\ Len(ids) \in Nat /\ Len(walk[c].seen) \in Nat
      /\ Cardinality(Matching(q)) \in Nat
  BY <1>2, MatchingFinite DEF HasNextPage
<1>5. /\ a \in Answer /\ a.code = "OK" /\ a.rows = ids /\ a.items = withItems /\ a.total = total[c]
      /\ a.hasNextPage = next
  <2>1. "OK" \in Codes
    BY DEF Codes
  <2> HIDE DEF next
  <2> QED
    BY <1>2, <1>4, <2>1
<1>6. /\ w \in Walk /\ w.on = walk[c].on /\ w.began = walk[c].began /\ w.since = walk[c].since
      /\ w.on => w.seen = walk[c].seen \o ids
  <2>1. walk[c].seen \o ids \in Seq(Ids)
    BY <1>2, Seen
  <2> QED
    BY <1>2, <2>1
<1>7. /\ pc' = [pc EXCEPT ![c] = "idle"] /\ answer' = [answer EXCEPT ![c] = a]
      /\ walk' = [walk EXCEPT ![c] = w] /\ total' = [total EXCEPT ![c] = 0]
      /\ rows' = [rows EXCEPT ![c] = << >>] /\ UNCHANGED <<db, query>>
  BY DEF Deliver, Forget
<1> HIDE DEF a, w, next
<1>8. Types'
  <2>1. pc \in [Clients -> {"idle", "count", "select", "items"}]
    BY DEF Inv, Types, TypeOK
  <2>2. answer \in [Clients -> Answer] /\ total \in [Clients -> Nat]
        /\ rows \in [Clients -> Seq(Ids)] /\ walk \in [Clients -> Walk]
    BY DEF Inv, Types
  <2>3. /\ pc' \in [Clients -> {"idle", "count", "select", "items"}]
        /\ answer' \in [Clients -> Answer]
        /\ total' \in [Clients -> Nat] /\ rows' \in [Clients -> Seq(Ids)]
        /\ walk' \in [Clients -> Walk]
    <3> HIDE DEF Answer, Walk
    <3> QED
      BY <1>5, <1>6, <1>7, <2>1, <2>2, Empty
  <2>4. \A d \in Clients : walk'[d].since \in {"quiet", "grown", "shrunk"}
    BY <2>3
  <2>5. \A d \in Clients : Len(rows'[d]) <= MaxSize
    BY <1>7, Empty, PagesAssumption DEF Inv, Types, TypeOK
  <2> QED
    BY <1>7, <2>3, <2>4, <2>5 DEF Inv, Types, TypeOK, db, Ids
<1>9. /\ pc'[c] = "idle" /\ query'[c] = q /\ answer'[c] = a /\ walk'[c] = w /\ rows'[c] = << >>
  BY <1>1, <1>7 DEF Inv, Types, TypeOK
<1>10. ~Waiting(c)' /\ Waiting(c)
  BY <1>5, <1>9 DEF Waiting, Inv, ClientInv, Paged, NoAnswer
<1>11. Matching(q)' = Matching(q) /\ Orderings(q)' = Orderings(q) /\ \A x : Rank(q, x)' = Rank(q, x)
  BY <1>7, Unmoved
<1>12. \A s, k : InOrder(q, s, k)' <=> InOrder(q, s, k)
  BY <1>11 DEF InOrder
<1>13. Bounded(c) /\ Ahead(c) /\ Exact(c) /\ Announced(c)
  BY DEF Inv, ClientInv
<1>14. Paged(c)'
  BY <1>1, <1>3, <1>5, <1>9 DEF Paged, Fetched, After
<1>15. Bounded(c)'
  BY <1>1, <1>5, <1>6, <1>9, <1>10 DEF Bounded, Fetched, After
<1>16. Ahead(c)'
  <2>1. SUFFICES ASSUME w.on, w.since # "shrunk"
                 PROVE  /\ w.began \subseteq Matching(q)
                        /\ \A x \in w.began \ Range(w.seen) :
                              Len(ids) = q.size /\ Rank(q, x) >= After(q)
    BY <1>5, <1>9, <1>10, <1>11 DEF Ahead, After
  <2>2. w.began \subseteq Matching(q)
    BY <1>1, <1>6, <1>13, <2>1 DEF Ahead
  <2>3. Range(w.seen) = Range(walk[c].seen) \cup Range(ids)
    BY <1>2, <1>6, <2>1, Seen
  <2>4. \A x \in w.began \ Range(w.seen) : Len(ids) = q.size /\ Rank(q, x) >= After(q)
    BY <1>1, <1>6, <2>1, <2>3 DEF Fetched
  <2> QED
    BY <2>2, <2>4
<1>17. Exact(c)'
  <2>1. SUFFICES ASSUME w.on, w.since = "quiet"
                 PROVE  /\ w.began = Matching(q)
                        /\ InOrder(q, w.seen, 0)
                        /\ Orderings(q) # {}
                        /\ total[c] = Cardinality(Matching(q))
                        /\ IF Len(ids) = q.size
                           THEN Len(w.seen) = After(q)
                           ELSE /\ Len(w.seen) = Cardinality(Matching(q))
                                /\ Len(w.seen) < After(q)
    BY <1>5, <1>9, <1>10, <1>11, <1>12 DEF Exact, After
  <2>2. /\ walk[c].began = Matching(q) /\ InOrder(q, walk[c].seen, 0)
        /\ Len(walk[c].seen) = Before(q) /\ total[c] = Cardinality(Matching(q))
    BY <1>1, <1>6, <1>10, <1>13, <2>1 DEF Exact
  <2>3. /\ Orderings(q) # {} /\ InOrder(q, ids, Before(q)) /\ Len(ids) <= q.size
        /\ Len(ids) = q.size \/ Before(q) + Len(ids) = Cardinality(Matching(q))
    BY <1>1, <1>6, <2>1 DEF Fetched
  <2>4. InOrder(q, w.seen, 0) /\ Len(w.seen) = Before(q) + Len(ids)
    <3>1. walk[c].seen \in Seq(Ids) /\ w.seen = walk[c].seen \o ids
      BY <1>2, <1>6, <2>1
    <3>2. InOrder(q, walk[c].seen, 0) /\ InOrder(q, ids, Len(walk[c].seen))
      BY <2>2, <2>3
    <3>3. /\ InOrder(q, walk[c].seen \o ids, 0)
          /\ Len(walk[c].seen \o ids) = Len(walk[c].seen) + Len(ids)
      BY <3>1, <3>2, Seen
    <3> QED
      BY <2>2, <3>1, <3>3
  <2> QED
    BY <1>3, <1>4, <1>6, <2>2, <2>3, <2>4
<1>18. Announced(c)'
  <2>1. SUFFICES ASSUME w.since # "shrunk", next
                 PROVE  Len(ids) = q.size /\ After(q) < Cardinality(Matching(q))
    BY <1>5, <1>9, <1>10, <1>11 DEF Announced, After
  <2>2. total[c] <= Cardinality(Matching(q))
    BY <1>1, <1>6, <1>13, <2>1 DEF Announced
  <2>3. Len(ids) = q.size
    BY <1>1, <1>3, <1>6, <2>1 DEF Fetched
  <2> QED
    BY <1>2, <1>3, <1>4, <2>1, <2>2, <2>3
<1>19. Owned(c)'
  BY <1>1, <1>5, <1>9, <1>10, <1>11 DEF Owned, Fetched
<1>20. ClientInv(c)'
  BY <1>14, <1>15, <1>16, <1>17, <1>18, <1>19 DEF ClientInv
<1>21. \A d \in Clients \ {c} :
          /\ pc'[d] = pc[d] /\ query'[d] = query[d] /\ total'[d] = total[d]
          /\ rows'[d] = rows[d] /\ answer'[d] = answer[d] /\ walk'[d] = walk[d]
  BY <1>7 DEF Inv, Types, TypeOK
<1> QED
  BY <1>7, <1>8, <1>20, <1>21, OneClient

LEMMA Selected ==
    ASSUME Inv, NEW c \in Clients, Select(c)
    PROVE  Inv'
<1> DEFINE offset == Offset(query[c].page, query[c].size)
<1>1. CASE Refuse(c, "INTERNAL_ERROR") /\ UNCHANGED walk
  <2>1. "INTERNAL_ERROR" \in Codes /\ pc[c] # "idle"
    BY DEF Codes, Select
  <2> QED
    BY <1>1, <2>1, Refused
<1>2. CASE ~(Refuse(c, "INTERNAL_ERROR") /\ UNCHANGED walk)
  <2>1. pc[c] = "select" /\ offset >= 0
    BY <1>2 DEF Select
  <2>2. PICK s \in Orderings(query[c]) :
            LET ids == Page(s, offset, query[c].size) IN
            IF query[c].list = "myOrders" /\ ids # << >>
            THEN /\ pc' = [pc EXCEPT ![c] = "items"]
                 /\ rows' = [rows EXCEPT ![c] = ids]
                 /\ UNCHANGED <<db, query, total, answer, walk>>
            ELSE Deliver(c, ids, {})
    BY <1>2 DEF Select, Page
  <2>3. PICK ids : ids = Page(s, offset, query[c].size)
    OBVIOUS
  <2>4. ids \in Seq(Ids) /\ Fetched(c, ids)
    BY <2>1, <2>3, PageFetched
  <2>5. CASE query[c].list = "myOrders" /\ ids # << >>
    <3>1. /\ pc' = [pc EXCEPT ![c] = "items"] /\ rows' = [rows EXCEPT ![c] = ids]
          /\ UNCHANGED <<db, query, total, answer, walk>>
      BY <2>2, <2>3, <2>5
    <3>2. PICK q : q = query[c]
      OBVIOUS
    <3>3. /\ query'[c] = q /\ query[c] = q /\ pc'[c] = "items" /\ rows'[c] = ids
          /\ total'[c] = total[c] /\ answer'[c] = answer[c] /\ walk'[c] = walk[c]
          /\ q \in Query
      BY <3>1, <3>2 DEF Inv, Types, TypeOK
    <3>4. Types'
      <4>1. pc' \in [Clients -> {"idle", "count", "select", "items"}] /\ rows' \in [Clients -> Seq(Ids)]
        BY <2>4, <3>1 DEF Inv, Types, TypeOK
      <4>2. Len(ids) <= MaxSize
        <5>1. Len(ids) <= q.size /\ Len(ids) \in Nat /\ q.size \in 1..MaxSize /\ MaxSize \in Nat
          BY <2>4, <3>3, PageNumbers, PagesAssumption DEF Fetched
        <5> QED
          BY <5>1
      <4>3. \A d \in Clients : Len(rows'[d]) <= MaxSize
        BY <3>1, <4>2 DEF Inv, Types, TypeOK
      <4> QED
        BY <3>1, <4>1, <4>3 DEF Inv, Types, TypeOK, db, Ids
    <3>5. Matching(q)' = Matching(q) /\ Orderings(q)' = Orderings(q)
          /\ \A x : Rank(q, x)' = Rank(q, x)
      BY <3>1, Unmoved
    <3>6. \A r, k : InOrder(q, r, k)' <=> InOrder(q, r, k)
      BY <3>5 DEF InOrder
    <3>7. Fetched(c, ids)'
      BY <2>4, <3>3, <3>5, <3>6 DEF Fetched, Before, After
    <3>8. Waiting(c) /\ Waiting(c)' /\ answer[c] = NoAnswer
      BY <2>1, <3>3 DEF Inv, ClientInv, Paged, Waiting, NoAnswer
    <3>9. ClientInv(c)'
      <4>1. Paged(c)' /\ Owned(c)'
        BY <2>5, <3>2, <3>3, <3>7, <3>8 DEF Paged, Owned
      <4>2. Bounded(c)' /\ Ahead(c)'
        BY <3>3, <3>5, <3>8 DEF Inv, ClientInv, Bounded, Ahead, Before
      <4>3. Exact(c)' /\ Announced(c)'
        BY <2>1, <3>3, <3>5, <3>6, <3>8 DEF Inv, ClientInv, Exact, Announced, Before
      <4> QED
        BY <4>1, <4>2, <4>3 DEF ClientInv
    <3>10. \A d \in Clients \ {c} :
              /\ pc'[d] = pc[d] /\ query'[d] = query[d] /\ total'[d] = total[d]
              /\ rows'[d] = rows[d] /\ answer'[d] = answer[d] /\ walk'[d] = walk[d]
      BY <3>1 DEF Inv, Types, TypeOK
    <3> QED
      BY <3>1, <3>4, <3>9, <3>10, OneClient
  <2>6. CASE ~(query[c].list = "myOrders" /\ ids # << >>)
    <3>1. Deliver(c, ids, {})
      BY <2>2, <2>3, <2>6
    <3>2. query[c].list = "myOrders" => {} = Range(ids)
      BY <2>6, Empty
    <3>3. {} \in SUBSET OrderIds
      OBVIOUS
    <3> QED
      BY <2>1, <2>4, <3>1, <3>2, <3>3, Delivered
  <2> QED
    BY <2>5, <2>6
<1> QED
  BY <1>1, <1>2

(* Every order of the page has its items: they were committed with it. *)
LEMMA ItemsLoaded ==
    ASSUME Inv, NEW c \in Clients, LoadItems(c)
    PROVE  Inv'
<1>1. pc[c] = "items" /\ Deliver(c, rows[c], ItemsOf(rows[c]))
  BY DEF LoadItems
<1>2. query[c].list = "myOrders" /\ Fetched(c, rows[c]) /\ rows[c] \in Seq(Ids)
  BY <1>1 DEF Inv, ClientInv, Paged, Types
<1>3. ItemsOf(rows[c]) = Range(rows[c]) /\ ItemsOf(rows[c]) \in SUBSET OrderIds
  <2>1. Range(rows[c]) \subseteq Matching(query[c]) /\ Matching(query[c]) \subseteq Placed
    BY <1>2 DEF Fetched, Matching
  <2>2. items = Placed
    BY DEF Inv
  <2> QED
    BY <2>1, <2>2 DEF ItemsOf, Placed
<1> QED
  BY <1>1, <1>2, <1>3, Delivered

THEOREM InvHolds == Safety => []Inv
<1>1. ASSUME Inv, [Next]_vars PROVE Inv'
  <2>1. CASE UNCHANGED vars
    <3>1. /\ UNCHANGED <<orders, items, price, pc, query, total, rows, answer, walk>>
          /\ UNCHANGED db
      BY <2>1 DEF vars, db, request
    <3>2. Types'
      BY <1>1, <3>1 DEF Inv, Types, TypeOK
    <3>3. items' = Placed'
      BY <1>1, <3>1, Unmoved DEF Inv
    <3>4. \A c \in Clients : ClientInv(c)'
      BY <1>1, <3>1, Others DEF Inv
    <3> QED
      BY <3>2, <3>3, <3>4 DEF Inv
  <2>2. ASSUME NEW c \in Clients,
               \/ AskOrders(c) \/ AskProducts(c) \/ AskNext(c) \/ AskAgain(c)
               \/ Count(c) \/ Select(c) \/ LoadItems(c) \/ StatementFails(c)
        PROVE  Inv'
    BY <1>1, <2>2, OrdersAsked, ProductsAsked, NextAsked, AskedAgain, CountTaken, Selected,
       ItemsLoaded, Failed
  <2>3. CASE (\E o \in OrderIds : PlaceOrder(o)) \/ (\E p \in Products : Reprice(p))
    <3>1. Types' /\ items' = Placed'
      BY <1>1, <2>3, Moves DEF Inv
    <3>2. \A c \in Clients : ClientInv(c)'
      BY <1>1, <2>3, Disturbed
    <3> QED
      BY <3>1, <3>2 DEF Inv
  <2> QED
    BY <1>1, <2>1, <2>2, <2>3 DEF Next
<1> QED
  BY <1>1, Start, PTL DEF Safety

-----------------------------------------------------------------------------
(* What the invariant says *)

(* Every variable keeps its type: whatever a client sends, the page that reaches a repository is
   at least one and no page is longer than maxPageSize (pagination.go:34-45). *)
THEOREM PagesTypes == Safety => []TypeOK
<1>1. Inv => TypeOK
  BY DEF Inv, Types
<1> QED
  BY <1>1, InvHolds, PTL

(* A client that asks for page after page until one is not full has seen every row that it was
   about when it began and that did not leave, whatever is placed meanwhile
   (order_repo.go:77-79, product_repo.go:42-44). *)
THEOREM NothingMissed == Safety => []WalkMissesNothing
<1>1. Inv => WalkMissesNothing
  <2> SUFFICES ASSUME Inv, NEW c \in Clients, Answered(c), walk[c].on,
                      Len(answer[c].rows) < query[c].size, walk[c].since # "shrunk"
               PROVE  walk[c].began \subseteq Range(walk[c].seen)
    BY DEF WalkMissesNothing
  <2>1. ~Waiting(c) /\ Ahead(c)
    BY DEF Answered, Waiting, Inv, ClientInv
  <2>2. Len(answer[c].rows) # query[c].size
    <3>1. Len(answer[c].rows) \in Nat
      BY DEF Inv, Types
    <3> QED
      BY <3>1
  <2> QED
    BY <2>1, <2>2 DEF Ahead
<1> QED
  BY <1>1, InvHolds, PTL

(* While nothing is written the pages partition the rows, in their order; the total is their
   number and hasNextPage says exactly whether some are still to come (pagination.go:18-30). *)
THEOREM QuietPagesAreExact == Safety => []QuietWalkIsExact
<1>1. Inv => QuietWalkIsExact
  <2> SUFFICES ASSUME Inv, NEW c \in Clients, Answered(c), walk[c].on, walk[c].since = "quiet"
               PROVE  /\ IsInjective(walk[c].seen)
                      /\ \E s \in Orderings(query[c]) : IsPrefix(walk[c].seen, s)
                      /\ answer[c].total = Cardinality(walk[c].began)
                      /\ answer[c].hasNextPage <=> Len(walk[c].seen) < answer[c].total
    BY DEF QuietWalkIsExact
  <2>1. PICK q : q = query[c]
    OBVIOUS
  <2>2. PICK seen : seen = walk[c].seen
    OBVIOUS
  <2>3. /\ q \in Query /\ TypeOK /\ seen \in Seq(Ids)
        /\ Len(answer[c].rows) \in Nat /\ answer[c].hasNextPage \in BOOLEAN
    BY <2>1, <2>2 DEF Inv, Types, TypeOK
  <2>4. ~Waiting(c) /\ Exact(c) /\ Paged(c)
    BY DEF Answered, Waiting, Inv, ClientInv
  <2>5. /\ walk[c].began = Matching(q) /\ InOrder(q, seen, 0) /\ Orderings(q) # {}
        /\ answer[c].total = Cardinality(Matching(q))
        /\ \/ Len(seen) = After(q)
           \/ Len(seen) = Cardinality(Matching(q)) /\ Len(seen) < After(q)
        /\ answer[c].hasNextPage <=> After(q) < answer[c].total
    BY <2>1, <2>2, <2>4 DEF Exact, Paged
  <2>6. After(q) \in Nat /\ Cardinality(Matching(q)) \in Nat /\ Len(seen) \in Nat
        /\ DOMAIN seen = 1..Len(seen)
    BY <2>3, PageNumbers, MatchingFinite
  <2>7. answer[c].hasNextPage <=> Len(seen) < answer[c].total
    BY <2>3, <2>5, <2>6
  <2>8. IsInjective(seen)
    BY <2>5, <2>6 DEF InOrder, IsInjective
  <2>9. PICK s \in Orderings(q) : TRUE
    BY <2>5
  <2>10. /\ s \in Seq(Ids) /\ Len(s) \in Nat
         /\ \A i \in 1..Len(s) : Rank(q, s[i]) = i - 1
         /\ \A x \in Matching(q) : \E i \in 1..Len(s) : s[i] = x
    BY <2>3, Sorted
  <2>11. \A i \in 1..Len(seen) : i \in 1..Len(s) /\ seen[i] = s[i]
    <3>1. SUFFICES ASSUME NEW i \in 1..Len(seen) PROVE i \in 1..Len(s) /\ seen[i] = s[i]
      OBVIOUS
    <3>2. seen[i] \in Matching(q) /\ Rank(q, seen[i]) = 0 + i - 1
      BY <2>5, <2>6 DEF InOrder
    <3>3. PICK j \in 1..Len(s) : s[j] = seen[i]
      BY <2>10, <3>2
    <3>4. j - 1 = i - 1
      BY <2>10, <3>2, <3>3
    <3> QED
      BY <2>6, <2>10, <3>3, <3>4
  <2>12. IsPrefix(seen, s)
    <3>1. Len(seen) <= Len(s)
      <4>1. CASE Len(seen) = 0
        BY <2>6, <2>10, <4>1
      <4>2. CASE Len(seen) # 0
        BY <2>6, <2>10, <2>11, <4>2
      <4> QED
        BY <4>1, <4>2
    <3>2. ASSUME NEW t \in Seq(Ids), Len(seen) <= Len(t)
          PROVE  /\ SubSeq(t, 1, Len(seen)) \in Seq(Ids)
                 /\ Len(SubSeq(t, 1, Len(seen))) = Len(seen)
                 /\ \A i \in 1..Len(seen) : SubSeq(t, 1, Len(seen))[i] = t[i]
      <4>1. \A i \in 1..Len(seen) : t[i] \in Ids
        BY <2>6, <3>2
      <4>2. 1 \in Int /\ Len(seen) \in Int /\ Len(seen) - 1 + 1 = Len(seen)
        BY <2>6
      <4>3. \A i \in 1..Len(seen) : 1 + i - 1 = i
        BY <2>6
      <4> QED
        BY <2>6, <4>1, <4>2, <4>3, SubSeqProperties
    <3>3. SubSeq(seen, 1, Len(seen)) = SubSeq(s, 1, Len(seen))
      BY <2>3, <2>6, <2>10, <2>11, <3>1, <3>2, SeqEqual
    <3> QED
      BY <3>1, <3>3 DEF IsPrefix
  <2> QED
    BY <2>1, <2>2, <2>5, <2>7, <2>8, <2>9, <2>12
<1> QED
  BY <1>1, InvHolds, PTL

(* A page that announces another is full, and some row does come after it (order_repo.go:73, 77). *)
THEOREM NextPageExists == Safety => []AnnouncedPageExists
<1>1. Inv => AnnouncedPageExists
  BY DEF Inv, ClientInv, Announced, AnnouncedPageExists, Answered, Waiting, After
<1> QED
  BY <1>1, InvHolds, PTL

(* Orders are listed to their owner only, once in a page and with their items
   (order_repo.go:100). *)
THEOREM OrdersListedWhole == Safety => []OwnWholeOrders
<1>1. Inv => OwnWholeOrders
  BY DEF Inv, ClientInv, Owned, OwnWholeOrders, Answered, Waiting, Matching
<1> QED
  BY <1>1, InvHolds, PTL

(* The claim of pagination.go:26 that finding 5 refutes, for walks during which nothing is
   written. *)
QuietEndIsTheEnd ==
    \A c \in Clients :
        /\ Answered(c) /\ walk[c].on /\ walk[c].since = "quiet"
        /\ ~answer[c].hasNextPage
        => walk[c].began \subseteq Range(walk[c].seen)

(* Where hasNextPage is false and nothing has been written since the walk began, the client has
   seen every row, whichever list, filter and page size it asked for: only a write misleads it. *)
THEOREM LastPageIsLast == Safety => []QuietEndIsTheEnd
<1>1. Inv => QuietEndIsTheEnd
  <2> SUFFICES ASSUME Inv, NEW c \in Clients, Answered(c), walk[c].on, walk[c].since = "quiet",
                      ~answer[c].hasNextPage, NEW x \in walk[c].began \ Range(walk[c].seen)
               PROVE  FALSE
    BY DEF QuietEndIsTheEnd
  <2>1. PICK q : q = query[c]
    OBVIOUS
  <2>2. Ahead(c) /\ Exact(c) /\ Paged(c) /\ ~Waiting(c) /\ TypeOK /\ q \in Query
    BY <2>1 DEF Answered, Waiting, Inv, ClientInv, Types, TypeOK
  <2>3. x \in Matching(q) /\ Rank(q, x) >= After(q)
    BY <2>1, <2>2 DEF Ahead
  <2>4. answer[c].total = Cardinality(Matching(q)) /\ ~(After(q) < answer[c].total)
        /\ Orderings(q) # {}
    BY <2>1, <2>2 DEF Exact, Paged
  <2>5. PICK s \in Orderings(q) : TRUE
    BY <2>4
  <2>6. PICK i \in 1..Len(s) : s[i] = x
    BY <2>2, <2>3, <2>5, Sorted
  <2>7. Rank(q, x) = i - 1 /\ Len(s) = Cardinality(Matching(q))
    BY <2>2, <2>5, <2>6, Sorted
  <2>8. Cardinality(Matching(q)) \in Nat /\ After(q) \in Nat
    BY <2>2, MatchingFinite, PageNumbers
  <2> QED
    BY <2>3, <2>4, <2>6, <2>7, <2>8
<1> QED
  BY <1>1, InvHolds, PTL

=============================================================================
