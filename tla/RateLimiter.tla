---------------------------- MODULE RateLimiter ----------------------------
(***************************************************************************)
(* The rate limiter of the REST API (backend/internal/middleware/          *)
(* security.go): one bucket of tokens per endpoint, refilled a minute      *)
(* after its last refill, and a sweep of old buckets.                      *)
(*                                                                         *)
(* What a request does between Lock and Unlock is one step.  Time passes   *)
(* in ticks; ages stop growing where no comparison tells them apart.       *)
(***************************************************************************)
EXTENDS Naturals, FiniteSets, FiniteSetsExt

CONSTANTS
  Requests,     \* HTTP requests, which clients repeat
  Keys,         \* endpoints: a method and a path
  Limit,        \* defaultEndpointRateLimit
  MaxBuckets,   \* maxRateLimitBuckets
  RefillAfter,  \* ticks in a minute
  StaleAfter,   \* ticks in two minutes
  SweepEvery    \* ticks in five minutes

ASSUME LimitsAssumption == Limit \in Nat \ {0} /\ MaxBuckets \in Nat
ASSUME TimesAssumption ==
  /\ RefillAfter \in Nat \ {0} /\ StaleAfter \in Nat /\ SweepEvery \in Nat
  /\ RefillAfter <= StaleAfter

VARIABLES
  locked,     \* is rl.mu held by a goroutine that will not release it?
  requests,   \* rl.requests: the buckets, by key
  sweepAge,   \* ticks since rl.lastSweep
  pc, key,    \* the state of each request, and its endpoint
  served      \* history: requests let through, by key and age in ticks

vars == <<locked, requests, sweepAge, pc, key, served>>

Oldest == StaleAfter + 1
Window == 0..RefillAfter

NewBucket == [tokens |-> Limit, age |-> 0]

Init ==
  /\ locked = FALSE
  /\ requests = [k \in {} |-> NewBucket]
  /\ sweepAge = SweepEvery              \* lastSweep is the zero time
  /\ pc = [r \in Requests |-> "idle"]
  /\ key \in [Requests -> Keys]
  /\ served = [k \in Keys |-> [i \in Window |-> 0]]

-----------------------------------------------------------------------------

\* A client sends a request.
Arrive(r, k) ==
  /\ pc[r] = "idle"
  /\ pc' = [pc EXCEPT ![r] = "waiting"]
  /\ key' = [key EXCEPT ![r] = k]
  /\ UNCHANGED <<locked, requests, sweepAge, served>>

Stale(b) == b.age > StaleAfter

\* The buckets once the request has made sure that it has one.
WithBucket(k) ==
  [j \in DOMAIN requests \cup {k} |-> IF j \in DOMAIN requests THEN requests[j] ELSE NewBucket]

\* Mutant of SweepDue: the number of buckets is not looked at.
SweepDueByTimeOnly(buckets) == sweepAge >= SweepEvery

SweepDue(buckets) == Cardinality(DOMAIN buckets) > MaxBuckets \/ sweepAge >= SweepEvery

\* sweepLocked: what is left of the buckets.
Swept(buckets) ==
  [j \in {i \in DOMAIN buckets : SweepDue(buckets) => ~Stale(buckets[i])} |-> buckets[j]]

Refilled(b) == IF b.age > RefillAfter THEN NewBucket ELSE b

\* The buckets left when request r looks for its own.
Left(r) == Swept(WithBucket(key[r]))

\* The request may hold the mutex, and leaves lastSweep behind.
Enter(r) ==
  /\ pc[r] = "waiting"
  /\ ~locked
  /\ sweepAge' = IF SweepDue(WithBucket(key[r])) THEN 0 ELSE sweepAge
  /\ UNCHANGED key

\* Mutant of TokenLeft: the last token is taken twice.
TokenLeftOffByOne(b) == b.tokens >= 0

TokenLeft(b) == b.tokens > 0

\* A token is left: take it and call the next handler.
Serve(r) ==
  LET k == key[r]
      b == Refilled(Left(r)[k])
  IN
    /\ Enter(r)
    /\ k \in DOMAIN Left(r)
    /\ TokenLeft(b)
    /\ requests' = [Left(r) EXCEPT ![k] = [b EXCEPT !.tokens = @ - 1]]
    /\ pc' = [pc EXCEPT ![r] = "served"]
    /\ served' = [served EXCEPT ![k][0] = @ + 1]
    /\ UNCHANGED locked

\* No token is left: 429.
Reject(r) ==
  LET k == key[r]
      b == Refilled(Left(r)[k])
  IN
    /\ Enter(r)
    /\ k \in DOMAIN Left(r)
    /\ ~TokenLeft(b)
    /\ requests' = [Left(r) EXCEPT ![k] = b]
    /\ pc' = [pc EXCEPT ![r] = "rejected"]
    /\ UNCHANGED <<locked, served>>

\* The sweep has taken the request's own bucket: reading it dereferences nil.
\* The panic unwinds past the mutex, which no deferred call releases; the
\* recoverer is registered inside the limiter and does not see it.
Panic(r) ==
  /\ Enter(r)
  /\ key[r] \notin DOMAIN Left(r)
  /\ requests' = Left(r)
  /\ locked' = TRUE
  /\ pc' = [pc EXCEPT ![r] = "panicked"]
  /\ UNCHANGED served

Handle(r) == Serve(r) \/ Reject(r) \/ Panic(r)

\* The response is sent, or the connection closed; the client may come back.
Answered(r) ==
  /\ pc[r] \in {"served", "rejected", "panicked"}
  /\ pc' = [pc EXCEPT ![r] = "idle"]
  /\ UNCHANGED <<locked, requests, sweepAge, key, served>>

Older(age, oldest) == IF age < oldest THEN age + 1 ELSE age

Tick ==
  /\ requests' = [k \in DOMAIN requests |-> [requests[k] EXCEPT !.age = Older(@, Oldest)]]
  /\ sweepAge' = Older(sweepAge, SweepEvery)
  /\ served' = [k \in Keys |-> [i \in Window |-> IF i = 0 THEN 0 ELSE served[k][i - 1]]]
  /\ UNCHANGED <<locked, pc, key>>

Next ==
  \/ \E r \in Requests, k \in Keys : Arrive(r, k)
  \/ \E r \in Requests : Handle(r) \/ Answered(r)
  \/ Tick

Spec == Init /\ [][Next]_vars

\* sync.Mutex is fair enough that a waiting request gets it in the end if it
\* is released again and again.
Fairness == \A r \in Requests : SF_vars(Handle(r))

FairSpec == Spec /\ Fairness

-----------------------------------------------------------------------------
(* Properties                                                              *)

Bucket == [tokens : 0..Limit, age : 0..Oldest]

\* Every variable keeps the shape the code gives it.
TypeOK ==
  /\ locked \in BOOLEAN
  /\ DOMAIN requests \subseteq Keys
  /\ \A k \in DOMAIN requests : requests[k] \in Bucket
  /\ sweepAge \in 0..SweepEvery
  /\ pc \in [Requests -> {"idle", "waiting", "served", "rejected", "panicked"}]
  /\ key \in [Requests -> Keys]
  /\ served \in [Keys -> [Window -> Nat]]

\* How many requests for k were let through in the last minute.
LastMinute(k) == MapThenSumSet(LAMBDA i : served[k][i], Window)

\* No endpoint lets more than twice its limit through in any minute, though
\* buckets are refilled at once and swept and made anew.
WindowBudget == \A k \in Keys : LastMinute(k) <= 2 * Limit

\* No request is refused unless its endpoint has let its whole limit through
\* in the last minute.
RefusedOnlyWhenSpent ==
  [][ \A r \in Requests : pc[r] = "waiting" /\ pc'[r] = "rejected" =>
        LastMinute(key[r]) >= Limit ]_vars

\* Together: an endpoint lets no more than twice its limit through in a minute,
\* and refuses nothing below it.
BudgetIsKept == [](TypeOK /\ WindowBudget) /\ RefusedOnlyWhenSpent

\* The map outgrows maxRateLimitBuckets only with buckets in recent use:
\* whenever a request leaves it larger, none of its buckets is stale.
OverflowIsFresh ==
  [][ requests' # requests /\ Cardinality(DOMAIN requests') > MaxBuckets
        /\ (\E r \in Requests : pc[r] = "waiting" /\ pc'[r] # "waiting") =>
      \A k \in DOMAIN requests' : ~(requests'[k].age > StaleAfter) ]_vars

-----------------------------------------------------------------------------
(* What the code says of itself and does not do                            *)

\* security.go:67, "token bucket rate limiting for fault tolerance": every
\* request is answered, with a token or a refusal.
EveryRequestAnswered ==
  \A r \in Requests : pc[r] = "waiting" ~> pc[r] # "waiting"
=============================================================================
