------------------------------ MODULE RateLimiter ------------------------------
(***************************************************************************)
(* The rate limiter of the authentication mutations                        *)
(* (internal/delivery/graphql/ratelimit/ratelimit.go): a token bucket per  *)
(* client address, made by the first request of that address and shared by *)
(* the later ones.  The map of buckets is read and written under a mutex,  *)
(* a bucket is used after the mutex has been released, so a step is either *)
(* the critical section or the use of the bucket.                          *)
(*                                                                         *)
(* Time is counted in ticks.  A bucket holds credit in ticks too: a token  *)
(* is Interval ticks of it, and credit grows by one tick per tick.         *)
(***************************************************************************)
EXTENDS Integers, FiniteSets

CONSTANTS
    Requests,    \* the calls of Allow
    Addresses,   \* the client addresses, which are the keys of the limiter
    PerMinute,   \* AUTH_RATE_LIMIT
    Minute,      \* the ticks of a minute
    MaxTime,     \* bound: the last instant a run looks at
    None         \* no bucket, no address

(* New raises a rate below one to one. *)
Burst == IF PerMinute < 1 THEN 1 ELSE PerMinute

(* The ticks one token takes to come back: an integer division. *)
Interval == Minute \div Burst

Capacity == Burst * Interval

(* The rate fits in a minute: beyond one event per tick the division gives no interval at all. *)
ASSUME LimiterAssumption ==
    /\ IsFiniteSet(Requests) /\ None \notin Requests
    /\ None \notin Addresses
    /\ PerMinute \in Int /\ Minute \in Nat /\ Burst <= Minute
    /\ MaxTime \in Nat

VARIABLES
    now,        \* the clock
    buckets,    \* the bucket of each address; a bucket is named by the request that made it
    credit,     \* what each bucket held when it last gave a token
    last,       \* when that was
    address,    \* the address each request comes from
    bucket,     \* the bucket each request has got from the map and not used yet
    verdict,    \* what Allow returned to each request
    decidedAt   \* when (history)

limiterVars == <<now, buckets, credit, last, address, bucket, verdict, decidedAt>>

-----------------------------------------------------------------------------

LimiterInit ==
    /\ now = 0
    /\ buckets = [a \in Addresses |-> None]
    /\ credit = [b \in Requests |-> 0]
    /\ last = [b \in Requests |-> 0]
    /\ address = [r \in Requests |-> None]
    /\ bucket = [r \in Requests |-> None]
    /\ verdict = [r \in Requests |-> "none"]
    /\ decidedAt = [r \in Requests |-> 0]

(* Variant: the map is written whether or not it has the key. *)
AlwaysMissing(a) == TRUE

Missing(a) == buckets[a] = None

(* Variant: all clients share one bucket. *)
SameKey(a) == CHOOSE k \in Addresses : TRUE

Key(a) == a

(* The critical section of Allow: the bucket of the key, made full if there is none. *)
Lookup(r, a) ==
    /\ address[r] = None
    /\ address' = [address EXCEPT ![r] = a]
    /\ \/ /\ Missing(Key(a))
          /\ buckets' = [buckets EXCEPT ![Key(a)] = r]
          /\ bucket' = [bucket EXCEPT ![r] = r]
          /\ credit' = [credit EXCEPT ![r] = Capacity]
          /\ last' = [last EXCEPT ![r] = now]
       \/ /\ ~Missing(Key(a))
          /\ bucket' = [bucket EXCEPT ![r] = buckets[Key(a)]]
          /\ UNCHANGED <<buckets, credit, last>>
    /\ UNCHANGED <<now, verdict, decidedAt>>

(* What a bucket holds now: it fills as time passes, up to its capacity. *)
Refilled(b) ==
    LET c == credit[b] + (now - last[b]) IN IF c > Capacity THEN Capacity ELSE c

(* Variant: a part of a token will do. *)
AnyCredit(b) == Refilled(b) > 0

HasToken(b) == Refilled(b) >= Interval

(* rate.Limiter.Allow: takes a token if there is one. *)
Decide(r) ==
    /\ bucket[r] # None
    /\ verdict[r] = "none"
    /\ decidedAt' = [decidedAt EXCEPT ![r] = now]
    /\ LET b == bucket[r] IN
       \/ /\ HasToken(b)
          /\ credit' = [credit EXCEPT ![b] = Refilled(b) - Interval]
          /\ last' = [last EXCEPT ![b] = now]
          /\ verdict' = [verdict EXCEPT ![r] = "allowed"]
       \/ /\ ~HasToken(b)
          /\ verdict' = [verdict EXCEPT ![r] = "refused"]
          /\ UNCHANGED <<credit, last>>
    /\ bucket' = [bucket EXCEPT ![r] = None]
    /\ UNCHANGED <<now, buckets, address>>

Tick ==
    /\ now < MaxTime
    /\ now' = now + 1
    /\ UNCHANGED <<buckets, credit, last, address, bucket, verdict, decidedAt>>

LimiterNext ==
    \/ \E r \in Requests :
          \/ \E a \in Addresses : Lookup(r, a)
          \/ Decide(r)
    \/ Tick

LimiterSpec == LimiterInit /\ [][LimiterNext]_limiterVars

-----------------------------------------------------------------------------
(* Properties *)

LimiterTypeOK ==
    /\ now \in Nat
    /\ buckets \in [Addresses -> Requests \cup {None}]
    /\ credit \in [Requests -> 0..Capacity]
    /\ last \in [Requests -> Nat]
    /\ address \in [Requests -> Addresses \cup {None}]
    /\ bucket \in [Requests -> Requests \cup {None}]
    /\ verdict \in [Requests -> {"none", "allowed", "refused"}]
    /\ decidedAt \in [Requests -> Nat]

(* The requests of one address that were let through from time s to time t. *)
Granted(a, s, t) ==
    {r \in Requests : verdict[r] = "allowed" /\ address[r] = a /\ decidedAt[r] \in s..t}

(* In every window of time, however the requests of an address interleave between the map and the
   bucket (ratelimit.go:36-43), no more pass than a full bucket and what comes back meanwhile. *)
WindowBound ==
    \A a \in Addresses, s, t \in 0..now :
        s <= t => (Cardinality(Granted(a, s, t)) - Burst) * Interval <= t - s

(* Nobody is refused because of somebody else: a refused request would have exceeded, in some
   window that ends with it, what its own address is promised (ratelimit.go:12, 34). *)
RefusedOnlyWhenSpent ==
    \A r \in Requests : verdict[r] = "refused" =>
        \E s \in 0..decidedAt[r] :
            (Cardinality(Granted(address[r], s, decidedAt[r])) + 1 - Burst) * Interval
                > decidedAt[r] - s

=============================================================================
