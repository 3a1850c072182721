--------------------------- MODULE RateLimiterProofs ---------------------------
(***************************************************************************)
(* Theorems about RateLimiter for every set of requests and addresses,     *)
(* every rate and every length of a minute.  Both bounds come from one     *)
(* account of a bucket: what an address was granted since an instant, and  *)
(* what its bucket holds, never exceed a full bucket and the time that has *)
(* passed, and equal them since the last instant the bucket was full.      *)
(***************************************************************************)
EXTENDS RateLimiter, FiniteSetTheorems, TLAPS

(* How requests and buckets hang together: the bucket of an address is the one its requests
   use, no two addresses share one, and a grant is never later than its bucket's last. *)
KeyInv ==
    /\ \A a \in Addresses : buckets[a] # None => address[buckets[a]] = a
    /\ \A r \in Requests : address[r] = None => verdict[r] = "none" /\ bucket[r] = None
    /\ \A r \in Requests : address[r] # None => buckets[address[r]] # None
    /\ \A r \in Requests : bucket[r] # None =>
          address[r] # None /\ bucket[r] = buckets[address[r]] /\ verdict[r] = "none"

TimeInv ==
    /\ \A b \in Requests : last[b] <= now
    /\ \A r \in Requests : decidedAt[r] <= now
    /\ \A r \in Requests : verdict[r] = "allowed" => decidedAt[r] <= last[buckets[address[r]]]

Count(a, s, t) == Cardinality(Granted(a, s, t))

(* What address a has had since s is paid for by a full bucket and the time since s. *)
NeverMore ==
    \A a \in Addresses : buckets[a] # None =>
        \A s \in 0..last[buckets[a]] :
            Count(a, s, now) * Interval + credit[buckets[a]] <= Capacity + (last[buckets[a]] - s)

(* Since some instant, when its bucket was full, it has had all of that. *)
NeverLess ==
    \A a \in Addresses : buckets[a] # None =>
        \E s \in 0..last[buckets[a]] :
            Count(a, s, now) * Interval + credit[buckets[a]] >= Capacity + (last[buckets[a]] - s)

LimiterInv == LimiterTypeOK /\ KeyInv /\ TimeInv /\ NeverMore /\ NeverLess

-----------------------------------------------------------------------------
(* Constants and counts *)

LEMMA RateFacts ==
    /\ Burst \in Nat /\ Burst >= 1
    /\ Interval \in Nat
    /\ Capacity \in Nat /\ Capacity >= Interval
    /\ Capacity = Burst * Interval
<1>1. Burst \in Nat /\ Burst >= 1
  BY LimiterAssumption DEF Burst
<1>2. Interval \in Nat
  BY <1>1, LimiterAssumption DEF Interval
<1>3. Capacity = Burst * Interval
  BY DEF Capacity
<1>4. \A m, n \in Nat : m >= 1 => m * n \in Nat /\ m * n >= n
  OBVIOUS
<1> QED
  BY <1>1, <1>2, <1>3, <1>4

LEMMA CountFacts ==
    ASSUME NEW a, NEW s, NEW t
    PROVE  IsFiniteSet(Granted(a, s, t)) /\ Count(a, s, t) \in Nat
<1>1. Granted(a, s, t) \subseteq Requests
  BY DEF Granted
<1>2. IsFiniteSet(Requests)
  BY LimiterAssumption
<1>3. IsFiniteSet(Granted(a, s, t))
  BY <1>1, <1>2, FS_Subset
<1> QED
  BY <1>3, FS_CardinalityType DEF Count

LEMMA CountFactsNext ==
    ASSUME NEW a, NEW s, NEW t
    PROVE  IsFiniteSet(Granted(a, s, t)') /\ Count(a, s, t)' \in Nat
<1>1. Granted(a, s, t)' \subseteq Requests
  BY DEF Granted
<1>2. IsFiniteSet(Requests)
  BY LimiterAssumption
<1>3. IsFiniteSet(Granted(a, s, t)')
  BY <1>1, <1>2, FS_Subset
<1> QED
  BY <1>3, FS_CardinalityType DEF Count

(* Nothing was granted after the bucket's last grant, nor to an address without a bucket. *)
LEMMA NothingAfterLast ==
    ASSUME LimiterInv, NEW a \in Addresses, NEW s \in Nat, NEW t \in Nat,
           buckets[a] = None \/ s > last[buckets[a]]
    PROVE  Count(a, s, t) = 0
<1>1. Granted(a, s, t) = {}
  <2> SUFFICES ASSUME NEW r \in Requests, verdict[r] = "allowed", address[r] = a,
                      decidedAt[r] \in s..t
               PROVE  FALSE
    BY DEF Granted
  <2>1. address[r] # None
    BY LimiterAssumption
  <2>2. buckets[a] # None
    BY <2>1 DEF LimiterInv, KeyInv
  <2>3. decidedAt[r] <= last[buckets[a]]
    BY DEF LimiterInv, TimeInv
  <2>4. last[buckets[a]] \in Nat /\ decidedAt[r] \in Nat
    BY <2>2 DEF LimiterInv, LimiterTypeOK
  <2> QED
    BY <2>2, <2>3, <2>4
<1> QED
  BY <1>1, FS_EmptySet DEF Count

(* The step grants nothing. *)
SameGrants ==
    \A r \in Requests :
        /\ verdict'[r] = "allowed" <=> verdict[r] = "allowed"
        /\ verdict[r] = "allowed" => address'[r] = address[r] /\ decidedAt'[r] = decidedAt[r]

(* Such a step leaves every count. *)
LEMMA CountKept ==
    ASSUME LimiterInv, NEW a \in Addresses, NEW s \in Nat, NEW t \in Nat,
           SameGrants
    PROVE  Count(a, s, t)' = Count(a, s, t)
<1>1. Granted(a, s, t)' = Granted(a, s, t)
  BY DEF Granted, SameGrants
<1> QED
  BY <1>1 DEF Count

-----------------------------------------------------------------------------

LEMMA LimiterInitially == LimiterInit => LimiterInv
<1> SUFFICES ASSUME LimiterInit PROVE LimiterInv
  OBVIOUS
<1>1. LimiterTypeOK
  BY RateFacts DEF LimiterInit, LimiterTypeOK
<1>2. KeyInv /\ TimeInv
  BY DEF LimiterInit, KeyInv, TimeInv
<1>3. NeverMore /\ NeverLess
  BY DEF LimiterInit, NeverMore, NeverLess
<1> QED
  BY <1>1, <1>2, <1>3 DEF LimiterInv

(* A bucket keeps its account while nothing is granted from it and time may pass. *)
LEMMA AccountKept ==
    ASSUME LimiterInv, NEW a \in Addresses, buckets[a] # None,
           SameGrants,
           now' \in Nat, now <= now', buckets'[a] = buckets[a],
           credit'[buckets[a]] = credit[buckets[a]], last'[buckets[a]] = last[buckets[a]]
    PROVE  /\ \A s \in 0..last'[buckets'[a]] :
                 Count(a, s, now)' * Interval + credit'[buckets'[a]]
                     <= Capacity + (last'[buckets'[a]] - s)
           /\ \E s \in 0..last'[buckets'[a]] :
                 Count(a, s, now)' * Interval + credit'[buckets'[a]]
                     >= Capacity + (last'[buckets'[a]] - s)
<1>1. ASSUME NEW s \in Nat PROVE Count(a, s, now)' = Count(a, s, now)
  <2>1. Granted(a, s, now)' = Granted(a, s, now)
    <3>1. \A r \in Requests : decidedAt[r] \in Nat /\ decidedAt[r] <= now
      BY DEF LimiterInv, LimiterTypeOK, TimeInv
    <3>2. \A r \in Requests : decidedAt[r] \in s..now <=> decidedAt[r] \in s..now'
      BY <3>1 DEF LimiterInv, LimiterTypeOK
    <3> QED
      BY <3>2 DEF Granted, SameGrants
  <2> QED
    BY <2>1 DEF Count
<1>2. buckets[a] \in Requests /\ last[buckets[a]] \in Nat
  BY DEF LimiterInv, LimiterTypeOK
<1>3. \A s \in 0..last[buckets[a]] : s \in Nat
  BY <1>2
<1>4. \A s \in 0..last[buckets[a]] :
          Count(a, s, now) * Interval + credit[buckets[a]] <= Capacity + (last[buckets[a]] - s)
  BY DEF LimiterInv, NeverMore
<1>5. PICK s \in 0..last[buckets[a]] :
          Count(a, s, now) * Interval + credit[buckets[a]] >= Capacity + (last[buckets[a]] - s)
  BY DEF LimiterInv, NeverLess
<1> QED
  BY <1>1, <1>3, <1>4, <1>5

LEMMA LookupStep ==
    ASSUME LimiterInv, NEW r \in Requests, NEW a \in Addresses, Lookup(r, a)
    PROVE  LimiterInv'
<1> USE DEF Lookup, Missing, Key
<1>0. address[r] = None /\ verdict[r] = "none" /\ bucket[r] = None /\ r # None /\ a # None
  BY LimiterAssumption DEF LimiterInv, KeyInv
<1>a. SameGrants
  BY <1>0 DEF LimiterInv, LimiterTypeOK, SameGrants
<1>b. \A k \in Addresses : buckets[k] # r
  BY <1>0, LimiterAssumption DEF LimiterInv, KeyInv
<1>1. LimiterTypeOK'
  BY RateFacts DEF LimiterInv, LimiterTypeOK
<1>2. KeyInv'
  BY <1>0, <1>b, LimiterAssumption DEF LimiterInv, LimiterTypeOK, KeyInv
<1>3. TimeInv'
  <2>1. \A q \in Requests : verdict[q] = "allowed" =>
            address[q] # None /\ address[q] \in Addresses /\ buckets[address[q]] # None
    BY DEF LimiterInv, LimiterTypeOK, KeyInv
  <2>2. \A q \in Requests : verdict[q] = "allowed" => buckets'[address'[q]] = buckets[address[q]]
    BY <2>1, <1>a DEF LimiterInv, LimiterTypeOK, SameGrants
  <2>3. \A q \in Requests : verdict[q] = "allowed" =>
            last'[buckets[address[q]]] = last[buckets[address[q]]]
    BY <2>1, <1>b DEF LimiterInv, LimiterTypeOK
  <2>4. \A b \in Requests : last'[b] <= now
    BY DEF LimiterInv, LimiterTypeOK, TimeInv
  <2> QED
    BY <2>2, <2>3, <2>4 DEF LimiterInv, TimeInv
<1>4. ASSUME NEW k \in Addresses, buckets'[k] # None
      PROVE  /\ \A s \in 0..last'[buckets'[k]] :
                   Count(k, s, now)' * Interval + credit'[buckets'[k]]
                       <= Capacity + (last'[buckets'[k]] - s)
             /\ \E s \in 0..last'[buckets'[k]] :
                   Count(k, s, now)' * Interval + credit'[buckets'[k]]
                       >= Capacity + (last'[buckets'[k]] - s)
  <2>1. CASE buckets[k] = None
    <3>1. k = a /\ buckets'[k] = r /\ credit'[r] = Capacity /\ last'[r] = now
      BY <1>4, <2>1 DEF LimiterInv, LimiterTypeOK
    <3>2. ASSUME NEW s \in 0..now PROVE Count(k, s, now)' = 0
      <4>1. s \in Nat /\ now \in Nat
        BY DEF LimiterInv, LimiterTypeOK
      <4>2. Count(k, s, now)' = Count(k, s, now)
        BY <4>1, <1>a, CountKept
      <4> QED
        BY <4>1, <4>2, <2>1, NothingAfterLast
    <3>3. now \in Nat /\ now \in 0..now
      BY DEF LimiterInv, LimiterTypeOK
    <3>4. 0 * Interval = 0
      BY RateFacts
    <3> QED
      BY <3>1, <3>2, <3>3, <3>4, RateFacts
  <2>2. CASE buckets[k] # None
    <3>1. buckets'[k] = buckets[k] /\ credit'[buckets[k]] = credit[buckets[k]]
          /\ last'[buckets[k]] = last[buckets[k]]
      BY <2>2, <1>b DEF LimiterInv, LimiterTypeOK
    <3>2. now' = now /\ now \in Nat
      BY DEF LimiterInv, LimiterTypeOK
    <3> QED
      BY <2>2, <3>1, <3>2, <1>a, AccountKept
  <2> QED
    BY <2>1, <2>2
<1>5. NeverMore' /\ NeverLess'
  BY <1>4 DEF NeverMore, NeverLess
<1> QED
  BY <1>1, <1>2, <1>3, <1>5 DEF LimiterInv

(* Time passes: every account has one tick more to spend. *)
LEMMA TickStep ==
    ASSUME LimiterInv, Tick
    PROVE  LimiterInv'
<1> USE DEF Tick
<1>1. SameGrants /\ now \in Nat /\ now' \in Nat /\ now <= now'
  BY DEF LimiterInv, LimiterTypeOK, SameGrants
<1>2. LimiterTypeOK' /\ KeyInv'
  BY DEF LimiterInv, LimiterTypeOK, KeyInv
<1>3. TimeInv'
  BY <1>1 DEF LimiterInv, LimiterTypeOK, TimeInv
<1>4. NeverMore' /\ NeverLess'
  BY <1>1, AccountKept DEF NeverMore, NeverLess
<1> QED
  BY <1>2, <1>3, <1>4 DEF LimiterInv

LEMMA RefuseStep ==
    ASSUME LimiterInv, NEW r \in Requests, Decide(r), ~HasToken(bucket[r])
    PROVE  LimiterInv'
<1> USE DEF Decide
<1>1. SameGrants /\ verdict' = [verdict EXCEPT ![r] = "refused"]
  BY DEF LimiterInv, LimiterTypeOK, SameGrants
<1>2. address[r] # None
  BY DEF LimiterInv, KeyInv
<1>3. LimiterTypeOK' /\ KeyInv'
  BY <1>1, <1>2 DEF LimiterInv, LimiterTypeOK, KeyInv
<1>4. TimeInv'
  BY <1>1 DEF LimiterInv, LimiterTypeOK, TimeInv
<1>5. now' = now /\ now \in Nat
  BY DEF LimiterInv, LimiterTypeOK
<1>6. UNCHANGED <<buckets, credit, last>>
  OBVIOUS
<1>7. NeverMore' /\ NeverLess'
  BY <1>1, <1>5, <1>6, AccountKept DEF NeverMore, NeverLess
<1> QED
  BY <1>3, <1>4, <1>7 DEF LimiterInv

(* A token is granted: the count of its address goes up by one in every window that ends now. *)
LEMMA AllowStep ==
    ASSUME LimiterInv, NEW r \in Requests, Decide(r), HasToken(bucket[r])
    PROVE  LimiterInv'
<1> DEFINE a == address[r]
           b == bucket[r]
<1> USE DEF Decide
<1>1. /\ a \in Addresses /\ a # None /\ b \in Requests /\ b = buckets[a] /\ b # None
      /\ verdict[r] = "none" /\ now \in Nat
  BY LimiterAssumption DEF LimiterInv, LimiterTypeOK, KeyInv
<1>2. /\ credit' = [credit EXCEPT ![b] = Refilled(b) - Interval]
      /\ last' = [last EXCEPT ![b] = now]
      /\ verdict' = [verdict EXCEPT ![r] = "allowed"]
      /\ decidedAt' = [decidedAt EXCEPT ![r] = now]
      /\ bucket' = [bucket EXCEPT ![r] = None]
      /\ UNCHANGED <<now, buckets, address>>
  OBVIOUS
<1>3. /\ credit[b] \in Nat /\ credit[b] <= Capacity /\ last[b] \in Nat /\ last[b] <= now
      /\ credit \in [Requests -> 0..Capacity] /\ last \in [Requests -> Nat]
  BY <1>1 DEF LimiterInv, LimiterTypeOK, TimeInv
<1>4. Refilled(b) \in Interval..Capacity
  BY <1>1, <1>3, RateFacts DEF HasToken, Refilled
<1>5. LimiterTypeOK'
  <2>1. Refilled(b) - Interval \in 0..Capacity
    BY <1>4, RateFacts
  <2> QED
    BY <1>1, <1>2, <2>1 DEF LimiterInv, LimiterTypeOK
<1>6. KeyInv'
  BY <1>1, <1>2, LimiterAssumption DEF LimiterInv, LimiterTypeOK, KeyInv
<1>7. TimeInv'
  <2>1. \A k \in Requests : last'[k] <= now /\ last[k] <= last'[k]
    BY <1>1, <1>2, <1>3 DEF LimiterInv, TimeInv
  <2>2. \A q \in Requests : decidedAt'[q] <= now
    BY <1>1, <1>2 DEF LimiterInv, LimiterTypeOK, TimeInv
  <2>3. ASSUME NEW q \in Requests, verdict'[q] = "allowed"
        PROVE  decidedAt'[q] <= last'[buckets[address[q]]]
    <3>1. CASE q = r
      BY <1>1, <1>2, <1>3, <3>1 DEF LimiterInv, LimiterTypeOK
    <3>2. CASE q # r
      <4>1. verdict[q] = "allowed" /\ decidedAt'[q] = decidedAt[q]
        BY <1>2, <2>3, <3>2 DEF LimiterInv, LimiterTypeOK
      <4>2. address[q] \in Addresses /\ buckets[address[q]] \in Requests
        BY <4>1 DEF LimiterInv, LimiterTypeOK, KeyInv
      <4>3. decidedAt[q] <= last[buckets[address[q]]]
        BY <4>1 DEF LimiterInv, TimeInv
      <4>4. last[buckets[address[q]]] \in Nat /\ last'[buckets[address[q]]] \in Nat
            /\ decidedAt[q] \in Nat
        BY <4>2, <1>5 DEF LimiterInv, LimiterTypeOK
      <4> QED
        BY <2>1, <4>1, <4>2, <4>3, <4>4
    <3> QED
      BY <3>1, <3>2
  <2> QED
    BY <1>2, <2>1, <2>2, <2>3 DEF TimeInv
<1>8. ASSUME NEW s \in 0..now
      PROVE  Count(a, s, now)' = Count(a, s, now) + 1
  <2>1. Granted(a, s, now)' = Granted(a, s, now) \cup {r}
    BY <1>1, <1>2 DEF Granted, LimiterInv, LimiterTypeOK
  <2>2. r \notin Granted(a, s, now)
    BY <1>1 DEF Granted
  <2>3. IsFiniteSet(Granted(a, s, now))
    BY CountFacts
  <2>4. Cardinality(Granted(a, s, now) \cup {r}) = Cardinality(Granted(a, s, now)) + 1
    BY <2>2, <2>3, FS_AddElement
  <2> QED
    BY <2>1, <2>4 DEF Count
<1>9. ASSUME NEW k \in Addresses, buckets[k] # None, k # a, NEW s \in Nat
      PROVE  /\ Count(k, s, now)' = Count(k, s, now) /\ buckets[k] # b
             /\ credit'[buckets[k]] = credit[buckets[k]] /\ last'[buckets[k]] = last[buckets[k]]
  <2>1. Granted(k, s, now)' = Granted(k, s, now)
    BY <1>1, <1>2, <1>9 DEF Granted, LimiterInv, LimiterTypeOK
  <2>2. buckets[k] # b /\ buckets[k] \in Requests
    BY <1>1, <1>9 DEF LimiterInv, LimiterTypeOK, KeyInv
  <2> QED
    BY <1>2, <1>3, <2>1, <2>2 DEF Count
<1>10. NeverMore'
  <2> SUFFICES ASSUME NEW k \in Addresses, buckets[k] # None, NEW s \in 0..last'[buckets[k]]
               PROVE  Count(k, s, now)' * Interval + credit'[buckets[k]]
                          <= Capacity + (last'[buckets[k]] - s)
    BY <1>2 DEF NeverMore
  <2>1. CASE k # a
    <3>1. s \in Nat
      BY <1>9, <2>1 DEF LimiterInv, LimiterTypeOK
    <3> QED
      BY <1>9, <2>1, <3>1 DEF LimiterInv, NeverMore
  <2>2. CASE k = a
    <3> DEFINE n == Count(a, s, now)
    <3>1. last'[b] = now /\ credit'[b] = Refilled(b) - Interval /\ s \in 0..now
      BY <1>1, <1>2, <1>3, <2>2
    <3>2. n \in Nat
      BY CountFacts
    <3>3. (n + 1) * Interval + (Refilled(b) - Interval) = n * Interval + Refilled(b)
      BY <1>4, <3>2, RateFacts
    <3>4. n * Interval \in Nat
      BY <3>2, RateFacts
    <3>5. n * Interval + Refilled(b) <= Capacity + (now - s)
      <4>1. CASE s <= last[b]
        <5>1. n * Interval + credit[b] <= Capacity + (last[b] - s)
          BY <1>1, <1>3, <3>1, <4>1 DEF LimiterInv, NeverMore
        <5>2. Refilled(b) <= credit[b] + (now - last[b])
          BY <1>1, <1>3, RateFacts DEF Refilled
        <5> QED
          BY <5>1, <5>2, <1>1, <1>3, <1>4, <3>1, <3>4, RateFacts
      <4>2. CASE s > last[b]
        <5>1. n = 0
          BY <1>1, <3>1, <4>2, NothingAfterLast
        <5>2. n * Interval = 0
          BY <5>1, RateFacts
        <5> QED
          BY <5>2, <1>1, <1>4, <3>1, RateFacts
      <4> QED
        BY <4>1, <4>2, <1>3, <3>1
    <3> QED
      BY <1>1, <1>8, <2>2, <3>1, <3>3, <3>5
  <2> QED
    BY <2>1, <2>2
<1>11. NeverLess'
  <2> SUFFICES ASSUME NEW k \in Addresses, buckets[k] # None
               PROVE  \E s \in 0..last'[buckets[k]] :
                         Count(k, s, now)' * Interval + credit'[buckets[k]]
                             >= Capacity + (last'[buckets[k]] - s)
    BY <1>2 DEF NeverLess
  <2>1. CASE k # a
    <3>1. PICK s \in 0..last[buckets[k]] :
              Count(k, s, now) * Interval + credit[buckets[k]]
                  >= Capacity + (last[buckets[k]] - s)
      BY DEF LimiterInv, NeverLess
    <3>2. s \in Nat
      BY DEF LimiterInv, LimiterTypeOK
    <3> QED
      BY <1>9, <2>1, <3>1, <3>2
  <2>2. CASE k = a
    <3>1. last'[b] = now /\ credit'[b] = Refilled(b) - Interval
      BY <1>1, <1>2, <1>3
    <3>2. CASE Refilled(b) = credit[b] + (now - last[b])
      <4>1. PICK s \in 0..last[b] :
                Count(a, s, now) * Interval + credit[b] >= Capacity + (last[b] - s)
        BY <1>1 DEF LimiterInv, NeverLess
      <4> DEFINE n == Count(a, s, now)
      <4>2. n \in Nat /\ s \in 0..now
        BY <1>1, <1>3, CountFacts
      <4>3. (n + 1) * Interval + (Refilled(b) - Interval) = n * Interval + Refilled(b)
        BY <1>4, <4>2, RateFacts
      <4>4. n * Interval \in Nat
        BY <4>2, RateFacts
      <4>5. n * Interval + Refilled(b) >= Capacity + (now - s)
        BY <3>2, <4>1, <4>2, <4>4, <1>1, <1>3, RateFacts
      <4> QED
        BY <1>1, <1>8, <2>2, <3>1, <4>2, <4>3, <4>5
    <3>3. CASE Refilled(b) # credit[b] + (now - last[b])
      <4>1. Refilled(b) = Capacity /\ now > last[b]
        BY <3>3, <1>1, <1>3, RateFacts DEF Refilled
      <4>2. Count(a, now, now) = 0
        BY <1>1, <4>1, NothingAfterLast
      <4>3. Count(a, now, now)' = 1 /\ now \in 0..now
        BY <1>1, <1>8, <4>2
      <4>4. 1 * Interval + (Refilled(b) - Interval) >= Capacity + (now - now)
        BY <4>1, <1>1, RateFacts
      <4> QED
        BY <1>1, <2>2, <3>1, <4>3, <4>4
    <3> QED
      BY <3>2, <3>3
  <2> QED
    BY <2>1, <2>2
<1> QED
  BY <1>5, <1>6, <1>7, <1>10, <1>11 DEF LimiterInv

LEMMA LimiterInvStep == LimiterInv /\ [LimiterNext]_limiterVars => LimiterInv'
<1> SUFFICES ASSUME LimiterInv, [LimiterNext]_limiterVars PROVE LimiterInv'
  OBVIOUS
<1>1. ASSUME NEW r \in Requests, NEW a \in Addresses, Lookup(r, a) PROVE LimiterInv'
  BY <1>1, LookupStep
<1>2. ASSUME NEW r \in Requests, Decide(r) PROVE LimiterInv'
  BY <1>2, RefuseStep, AllowStep
<1>3. CASE Tick
  BY <1>3, TickStep
<1>4. CASE UNCHANGED limiterVars
  <2>1. LimiterTypeOK' /\ KeyInv' /\ TimeInv'
    BY <1>4 DEF limiterVars, LimiterInv, LimiterTypeOK, KeyInv, TimeInv
  <2>2. \A a, s : Count(a, s, now)' = Count(a, s, now)
    BY <1>4 DEF limiterVars, Count, Granted
  <2>3. NeverMore' /\ NeverLess'
    BY <1>4, <2>2 DEF limiterVars, LimiterInv, NeverMore, NeverLess
  <2> QED
    BY <2>1, <2>3 DEF LimiterInv
<1> QED
  BY <1>1, <1>2, <1>3, <1>4 DEF LimiterNext

LEMMA LimiterInvAlways == LimiterSpec => []LimiterInv
  BY LimiterInitially, LimiterInvStep, PTL DEF LimiterSpec

-----------------------------------------------------------------------------
(* The theorems *)

LEMMA NothingAfterLastNext ==
    ASSUME LimiterInv', NEW a \in Addresses, NEW s \in Nat, NEW t \in Nat,
           buckets'[a] = None \/ s > last'[buckets'[a]]
    PROVE  Count(a, s, t)' = 0
<1>1. Granted(a, s, t)' = {}
  <2> SUFFICES ASSUME NEW r \in Requests, verdict'[r] = "allowed", address'[r] = a,
                      decidedAt'[r] \in s..t
               PROVE  FALSE
    BY DEF Granted
  <2>1. address'[r] # None
    BY LimiterAssumption
  <2>2. buckets'[a] # None
    BY <2>1 DEF LimiterInv, KeyInv
  <2>3. decidedAt'[r] <= last'[buckets'[a]]
    BY DEF LimiterInv, TimeInv
  <2>4. last'[buckets'[a]] \in Nat /\ decidedAt'[r] \in Nat
    BY <2>2 DEF LimiterInv, LimiterTypeOK
  <2> QED
    BY <2>2, <2>3, <2>4
<1> QED
  BY <1>1, FS_EmptySet DEF Count

(* The bound for the windows that end now. *)
LEMMA NowBound ==
    ASSUME LimiterInv', NEW a \in Addresses, NEW s \in 0..now'
    PROVE  (Cardinality(Granted(a, s, now)') - Burst) * Interval <= now' - s
<1> DEFINE n == Count(a, s, now)'
<1>1. n \in Nat /\ n = Cardinality(Granted(a, s, now)')
  BY CountFactsNext DEF Count
<1>2. now' \in Nat /\ s \in Nat /\ s <= now'
  BY DEF LimiterInv, LimiterTypeOK
<1>3. (n - Burst) * Interval = n * Interval - Capacity
  BY <1>1, RateFacts
<1>4. n * Interval <= Capacity + (now' - s)
  <2>1. CASE buckets'[a] = None \/ s > last'[buckets'[a]]
    <3>1. n = 0
      BY <1>2, <2>1, NothingAfterLastNext
    <3>2. n * Interval = 0
      BY <3>1, RateFacts
    <3> QED
      BY <1>2, <3>2, RateFacts
  <2>2. CASE buckets'[a] # None /\ ~(s > last'[buckets'[a]])
    <3>1. last'[buckets'[a]] \in Nat /\ credit'[buckets'[a]] \in Nat
          /\ last'[buckets'[a]] <= now'
      BY <2>2, RateFacts DEF LimiterInv, LimiterTypeOK, TimeInv
    <3>2. n * Interval + credit'[buckets'[a]] <= Capacity + (last'[buckets'[a]] - s)
      BY <1>2, <2>2, <3>1 DEF LimiterInv, NeverMore
    <3>3. n * Interval \in Nat
      BY <1>1, RateFacts
    <3> QED
      BY <1>2, <3>1, <3>2, <3>3, RateFacts
  <2> QED
    BY <2>1, <2>2
<1>5. n * Interval \in Nat
  BY <1>1, RateFacts
<1> QED
  BY <1>1, <1>2, <1>3, <1>4, <1>5, RateFacts

(* Once a window is over its grants are settled. *)
LEMMA PastKept ==
    ASSUME LimiterInv, [LimiterNext]_limiterVars,
           NEW a \in Addresses, NEW s \in Nat, NEW t \in Nat, t < now'
    PROVE  Granted(a, s, t)' = Granted(a, s, t) /\ t <= now
<1>1. now \in Nat
  BY DEF LimiterInv, LimiterTypeOK
<1>2. ASSUME NEW r \in Requests, NEW k \in Addresses, Lookup(r, k)
      PROVE  Granted(a, s, t)' = Granted(a, s, t) /\ t <= now
  <2>1. address[r] = None /\ verdict[r] = "none" /\ now' = now
    BY <1>2 DEF Lookup, LimiterInv, KeyInv
  <2>2. \A q \in Requests : verdict[q] = "allowed" => address'[q] = address[q]
    BY <1>2, <2>1 DEF Lookup, LimiterInv, LimiterTypeOK
  <2> QED
    BY <1>1, <1>2, <2>1, <2>2 DEF Lookup, Granted
<1>3. ASSUME NEW r \in Requests, Decide(r)
      PROVE  Granted(a, s, t)' = Granted(a, s, t) /\ t <= now
  <2>1. verdict[r] = "none" /\ now' = now /\ decidedAt'[r] = now /\ address' = address
    BY <1>3 DEF Decide, LimiterInv, LimiterTypeOK
  <2>2. \A q \in Requests : q # r => verdict'[q] = verdict[q] /\ decidedAt'[q] = decidedAt[q]
    BY <1>3 DEF Decide, LimiterInv, LimiterTypeOK
  <2>3. decidedAt'[r] \notin s..t
    BY <1>1, <2>1
  <2> QED
    BY <1>1, <2>1, <2>2, <2>3 DEF Granted
<1>4. CASE Tick
  BY <1>1, <1>4 DEF Tick, Granted
<1>5. CASE UNCHANGED limiterVars
  BY <1>1, <1>5 DEF limiterVars, Granted
<1> QED
  BY <1>2, <1>3, <1>4, <1>5 DEF LimiterNext

LEMMA WindowBoundStep ==
    LimiterInv /\ WindowBound /\ [LimiterNext]_limiterVars => WindowBound'
<1> SUFFICES ASSUME LimiterInv, WindowBound, [LimiterNext]_limiterVars,
                    NEW a \in Addresses, NEW s \in 0..now', NEW t \in 0..now', s <= t
             PROVE  (Cardinality(Granted(a, s, t)') - Burst) * Interval <= t - s
  BY DEF WindowBound
<1>1. LimiterInv'
  BY LimiterInvStep
<1>2. now \in Nat /\ now' \in Nat
  BY <1>1 DEF LimiterInv, LimiterTypeOK
<1>3. CASE t = now'
  <2>1. Granted(a, s, t)' = Granted(a, s, now)'
    BY <1>3 DEF Granted
  <2> QED
    BY <1>1, <1>3, <2>1, NowBound
<1>4. CASE t < now'
  <2>1. Granted(a, s, t)' = Granted(a, s, t) /\ t <= now
    BY <1>2, <1>4, PastKept
  <2>2. s \in 0..now /\ t \in 0..now
    BY <1>2, <2>1
  <2> QED
    BY <2>1, <2>2 DEF WindowBound
<1> QED
  BY <1>2, <1>3, <1>4

(* What has been granted stays granted, and a verdict is final. *)
LEMMA DecisionsStand ==
    ASSUME LimiterInv, [LimiterNext]_limiterVars, NEW r \in Requests, verdict[r] # "none"
    PROVE  verdict'[r] = verdict[r] /\ address'[r] = address[r] /\ decidedAt'[r] = decidedAt[r]
<1>1. ASSUME NEW q \in Requests, NEW a \in Addresses, Lookup(q, a)
      PROVE  verdict'[r] = verdict[r] /\ address'[r] = address[r] /\ decidedAt'[r] = decidedAt[r]
  <2>1. q # r
    BY <1>1 DEF Lookup, LimiterInv, KeyInv
  <2> QED
    BY <1>1, <2>1 DEF Lookup, LimiterInv, LimiterTypeOK
<1>2. ASSUME NEW q \in Requests, Decide(q)
      PROVE  verdict'[r] = verdict[r] /\ address'[r] = address[r] /\ decidedAt'[r] = decidedAt[r]
  BY <1>2 DEF Decide, LimiterInv, LimiterTypeOK
<1>3. CASE Tick
  BY <1>3 DEF Tick
<1>4. CASE UNCHANGED limiterVars
  BY <1>4 DEF limiterVars
<1> QED
  BY <1>1, <1>2, <1>3, <1>4 DEF LimiterNext

LEMMA Expand ==
    ASSUME NEW k \in Nat
    PROVE  /\ (k - Burst) * Interval = k * Interval - Capacity
           /\ (k + 1 - Burst) * Interval = k * Interval + Interval - Capacity
           /\ k * Interval \in Nat
  BY RateFacts

LEMMA InProportion ==
    ASSUME NEW m \in Nat, NEW n \in Nat, m <= n
    PROVE  m * Interval <= n * Interval
  BY RateFacts

(* The next value of Granted, for an address and a time that are named now. *)
GrantedAfter(a, s, t) ==
    {r \in Requests : verdict'[r] = "allowed" /\ address'[r] = a /\ decidedAt'[r] \in s..t}

LEMMA RefusedStep ==
    LimiterInv /\ RefusedOnlyWhenSpent /\ [LimiterNext]_limiterVars => RefusedOnlyWhenSpent'
<1> SUFFICES ASSUME LimiterInv, RefusedOnlyWhenSpent, [LimiterNext]_limiterVars,
                    NEW r \in Requests, verdict'[r] = "refused"
             PROVE  \E s \in 0..decidedAt'[r] :
                        (Cardinality(GrantedAfter(address'[r], s, decidedAt'[r])) + 1 - Burst)
                            * Interval > decidedAt'[r] - s
  BY DEF RefusedOnlyWhenSpent, Granted, GrantedAfter
<1> DEFINE a == address[r]
<1>1. \A s, t : Granted(a, s, t) \subseteq GrantedAfter(a, s, t)
  BY DecisionsStand DEF Granted, GrantedAfter
<1>2. ASSUME NEW s, NEW t
      PROVE  /\ Count(a, s, t) <= Cardinality(GrantedAfter(a, s, t))
             /\ Cardinality(GrantedAfter(a, s, t)) \in Nat /\ Count(a, s, t) \in Nat
  <2>1. GrantedAfter(a, s, t) \subseteq Requests /\ IsFiniteSet(Requests)
    BY LimiterAssumption DEF GrantedAfter
  <2>2. IsFiniteSet(GrantedAfter(a, s, t))
    BY <2>1, FS_Subset
  <2> QED
    BY <1>1, <2>2, CountFacts, FS_Subset, FS_CardinalityType DEF Count
<1>3. CASE verdict[r] = "refused"
  <2> DEFINE t == decidedAt[r]
  <2>1. address'[r] = a /\ decidedAt'[r] = t /\ t \in Nat
    BY <1>3, DecisionsStand DEF LimiterInv, LimiterTypeOK
  <2>2. PICK s \in 0..t : (Count(a, s, t) + 1 - Burst) * Interval > t - s
    BY <1>3 DEF RefusedOnlyWhenSpent, Count
  <2> DEFINE m == Count(a, s, t)
             n == Cardinality(GrantedAfter(a, s, t))
  <2>3. m \in Nat /\ n \in Nat /\ m <= n
    BY <1>2
  <2>4. m * Interval <= n * Interval
    BY <2>3, InProportion
  <2>5. /\ (m + 1 - Burst) * Interval = m * Interval + Interval - Capacity
        /\ (n + 1 - Burst) * Interval = n * Interval + Interval - Capacity
        /\ m * Interval \in Nat /\ n * Interval \in Nat
    BY <2>3, Expand
  <2>6. (n + 1 - Burst) * Interval > t - s
    BY <2>1, <2>2, <2>4, <2>5, RateFacts
  <2> QED
    BY <2>1, <2>2, <2>6
<1>4. CASE verdict[r] # "refused"
  <2> DEFINE b == bucket[r]
  <2>1. Decide(r)
    <3>1. ASSUME NEW q \in Requests, NEW k \in Addresses, Lookup(q, k) PROVE FALSE
      BY <1>4, <3>1 DEF Lookup
    <3>2. ~Tick /\ limiterVars' # limiterVars
      BY <1>4 DEF Tick, limiterVars
    <3>3. PICK q \in Requests : Decide(q)
      BY <3>1, <3>2 DEF LimiterNext
    <3>4. q = r
      BY <1>4, <3>3 DEF Decide, LimiterInv, LimiterTypeOK
    <3> QED
      BY <3>3, <3>4
  <2>2. ~HasToken(b) /\ address'[r] = a /\ decidedAt'[r] = now
    BY <1>4, <2>1 DEF Decide, LimiterInv, LimiterTypeOK
  <2>3. a \in Addresses /\ b = buckets[a] /\ b # None /\ b \in Requests
    BY <2>1 DEF Decide, LimiterInv, LimiterTypeOK, KeyInv
  <2>4. /\ credit[b] \in Nat /\ last[b] \in Nat /\ now \in Nat /\ last[b] <= now
    BY <2>3, RateFacts DEF LimiterInv, LimiterTypeOK, TimeInv
  <2>5. credit[b] + (now - last[b]) < Interval
    BY <2>2, <2>4, RateFacts DEF HasToken, Refilled
  <2>6. PICK s \in 0..last[b] :
            Count(a, s, now) * Interval + credit[b] >= Capacity + (last[b] - s)
    BY <2>3 DEF LimiterInv, NeverLess
  <2> DEFINE m == Count(a, s, now)
             n == Cardinality(GrantedAfter(a, s, now))
  <2>7. m \in Nat /\ n \in Nat /\ m <= n
    BY <1>2
  <2>8. m * Interval <= n * Interval
    BY <2>7, InProportion
  <2>9. /\ (n + 1 - Burst) * Interval = n * Interval + Interval - Capacity
        /\ m * Interval \in Nat /\ n * Interval \in Nat
    BY <2>7, Expand
  <2>10. (n + 1 - Burst) * Interval > now - s
    BY <2>4, <2>5, <2>6, <2>8, <2>9, RateFacts
  <2>11. s \in 0..now
    BY <2>4
  <2> QED
    BY <2>2, <2>10, <2>11
<1> QED
  BY <1>3, <1>4

(* The types of the limiter's variables, for every rate; a bucket never owes a token. *)
THEOREM LimiterTypes == LimiterSpec => []LimiterTypeOK
<1>1. LimiterInv => LimiterTypeOK
  BY DEF LimiterInv
<1> QED
  BY <1>1, LimiterInvAlways, PTL

(* Allow (ratelimit.go:34-44) bounds every address in every window of time, whatever the rate and
   however many requests interleave. *)
THEOREM WindowBoundTheorem == LimiterSpec => []WindowBound
<1>1. LimiterInit => WindowBound
  <2> SUFFICES ASSUME LimiterInit, NEW a \in Addresses
               PROVE  (Cardinality(Granted(a, 0, 0)) - Burst) * Interval <= 0
    BY DEF LimiterInit, WindowBound
  <2>1. Granted(a, 0, 0) = {}
    BY DEF LimiterInit, Granted
  <2>2. Cardinality(Granted(a, 0, 0)) = 0
    BY <2>1, FS_EmptySet
  <2>3. (0 - Burst) * Interval = -Capacity
    BY RateFacts
  <2> QED
    BY <2>2, <2>3, RateFacts
<1> QED
  BY <1>1, LimiterInvAlways, WindowBoundStep, PTL DEF LimiterSpec

(* Nobody is refused because of somebody else (ratelimit.go:12, 34), whatever the rate. *)
THEOREM RefusedTheorem == LimiterSpec => []RefusedOnlyWhenSpent
<1>1. LimiterInit => RefusedOnlyWhenSpent
  BY DEF LimiterInit, RefusedOnlyWhenSpent
<1> QED
  BY <1>1, LimiterInvAlways, RefusedStep, PTL DEF LimiterSpec

=============================================================================
