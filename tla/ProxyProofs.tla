----------------------------- MODULE ProxyProofs ------------------------------
(***************************************************************************)
(* Theorems about the local proxy of the VPN client (L) and the dialler of *)
(* the torrent client (D), as MCVpn instantiates them, for all values of   *)
(* their constants.  The connection itself has a module of its own.        *)
(***************************************************************************)
EXTENDS MCVpn, FiniteSetTheorems, SequenceTheorems, WellFoundedInduction, TLAPS

-----------------------------------------------------------------------------
(* The local proxy.  That a pair is taken off the counter once rests on    *)
(* the closings of a pair that is open: there were none.                   *)

\* The instance counts as the theorems about finite sets do.
LEMMA CardinalityIsSame == \A S : L!Cardinality(S) = Cardinality(S)
  BY DEF L!Cardinality, Cardinality

\* The variables of the requests are functions of them.
LocalShapes ==
  /\ state \in [Requests -> L!States] /\ private \in [Requests -> BOOLEAN]
  /\ via \in [Requests -> L!Upstreams] /\ upstream \in L!Upstreams
  /\ closedEnds \in [Requests -> Nat]
  /\ block \in BOOLEAN

\* Sockets close when a pair was open, which it is not afterwards.
OpenIsFresh == \A r \in Requests : closedEnds[r] # 0 => state[r] = "closed"

LocalInv == LocalShapes /\ OpenIsFresh /\ L!CountIsOpen /\ L!CountIsBounded

\* Among finitely many requests, finitely many pairs are open.
LEMMA OpenIsFinite ==
  ASSUME IsFiniteSet(Requests) PROVE IsFiniteSet(L!Open) /\ Cardinality(L!Open) \in Nat
  <1>1. IsFiniteSet(L!Open)
    BY FS_Subset DEF L!Open
  <1>2. QED
    BY <1>1, FS_CardinalityType

\* In the beginning nothing is open.
LEMMA LocalInit == L!Init => LocalInv
  <1> SUFFICES ASSUME L!Init PROVE LocalInv
    OBVIOUS
  <1>1. L!Open = {}
    BY DEF L!Init, L!Open
  <1>2. Cardinality(L!Open) = 0
    BY <1>1, FS_EmptySet
  <1>3. QED
    BY CardinalityIsSame, <1>2 DEF L!Init, LocalInv, LocalShapes, L!States, L!Upstreams, OpenIsFresh, L!CountIsOpen, L!CountIsBounded

\* A step that opens and closes nothing, and leaves the counter alone, keeps
\* what is said of it.
LEMMA CountStays ==
  ASSUME L!CountIsOpen, L!CountIsBounded, L!Open' = L!Open, UNCHANGED <<count, outlived>>
  PROVE  L!CountIsOpen' /\ L!CountIsBounded'
  BY DEF L!CountIsOpen, L!CountIsBounded

\* A route that goes up or down makes the counter start anew.
LEMMA RouteKeeps ==
  ASSUME IsFiniteSet(Requests), L!CountIsBounded, L!Open' = L!Open, count' = 0,
         outlived' = (outlived \/ L!Open # {})
  PROVE  L!CountIsOpen' /\ L!CountIsBounded'
  <1>1. Cardinality(L!Open') = Cardinality(L!Open) /\ Cardinality(L!Open) \in Nat
    BY OpenIsFinite
  <1>2. L!CountIsBounded'
    BY CardinalityIsSame, <1>1 DEF L!CountIsBounded
  <1>3. L!CountIsOpen'
    <2>1. ~outlived' => L!Open = {}
      OBVIOUS
    <2>2. L!Open = {} => Cardinality(L!Open) = 0
      BY FS_EmptySet
    <2>3. QED
      BY CardinalityIsSame, <1>1, <2>1, <2>2 DEF L!CountIsOpen
  <1>4. QED
    BY <1>2, <1>3

\* A tunnel that is up is one more.
LEMMA OpensKeeps ==
  ASSUME IsFiniteSet(Requests), LocalInv, NEW r \in Requests, L!Opens(r) PROVE LocalInv'
  <1> USE DEF LocalInv, L!Opens, L!Become
  <1>1. LocalShapes' /\ OpenIsFresh'
    BY DEF LocalShapes, OpenIsFresh, L!States
  <1>2. L!Open' = L!Open \cup {r} /\ r \notin L!Open
    BY DEF L!Open, LocalShapes
  <1>3. Cardinality(L!Open') = Cardinality(L!Open) + 1
    BY <1>2, OpenIsFinite, FS_AddElement
  <1>4. QED
    BY CardinalityIsSame, <1>1, <1>3, OpenIsFinite DEF L!CountIsOpen, L!CountIsBounded

\* Of the two closings of a pair, the first is counted.
LEMMA EndClosesKeeps ==
  ASSUME IsFiniteSet(Requests), LocalInv, NEW r \in Requests, L!EndCloses(r) PROVE LocalInv'
  <1> USE DEF LocalInv, L!EndCloses, L!Become
  <1>1. LocalShapes' /\ OpenIsFresh'
    BY DEF LocalShapes, OpenIsFresh, L!States
  <1>2. CASE state[r] = "open"
    <2>1. L!Open' = L!Open \ {r} /\ r \in L!Open
      BY <1>2 DEF L!Open, LocalShapes
    <2>2. Cardinality(L!Open') = Cardinality(L!Open) - 1
      BY <2>1, OpenIsFinite, FS_RemoveElement
    <2>3. Cardinality(L!Open) > 0
      BY <2>1, OpenIsFinite, FS_EmptySet
    <2>4. count' = L!Less(count)
      BY <1>2 DEF OpenIsFresh, L!Counted, LocalShapes
    <2>5. QED
      BY CardinalityIsSame, <1>1, <2>2, <2>3, <2>4, OpenIsFinite DEF L!CountIsOpen, L!CountIsBounded, L!Less
  <1>3. CASE state[r] = "closed" /\ closedEnds[r] = 1
    <2>1. L!Open' = L!Open
      BY <1>3 DEF L!Open, LocalShapes
    <2>2. count' = count
      BY <1>3 DEF L!Counted
    <2>3. QED
      BY <1>1, <2>1, <2>2, CountStays
  <1>4. QED
    BY <1>2, <1>3

\* Every other step of a request neither opens nor closes a pair.
LEMMA OtherKeeps ==
  ASSUME LocalInv, NEW r \in Requests,
         \/ L!Greet(r) \/ L!Asks(r) \/ L!Leaves(r)
         \/ \E how \in {"refused", "error", "timeout", "end"} : L!Turns(r, how)
  PROVE  LocalInv'
  <1> USE DEF LocalInv, L!Become, L!Rest
  <1>1. state[r] \in {"none", "greeted", "waiting"} /\ state'[r] # "open"
    BY DEF L!Greet, L!Asks, L!Leaves, L!Turns, LocalShapes
  <1>2. LocalShapes'
    BY DEF L!Greet, L!Asks, L!Leaves, L!Turns, LocalShapes, L!States
  <1>3. \A q \in Requests \ {r} : state'[q] = state[q]
    BY DEF L!Greet, L!Asks, L!Leaves, L!Turns, LocalShapes
  <1>4. L!Open' = L!Open
    BY <1>1, <1>3 DEF L!Open
  <1>5. UNCHANGED <<count, closedEnds, outlived>>
    BY DEF L!Greet, L!Asks, L!Leaves, L!Turns
  <1>6. OpenIsFresh'
    BY <1>1, <1>3, <1>5 DEF OpenIsFresh
  <1>7. QED
    BY <1>2, <1>4, <1>5, <1>6, CountStays

\* Every step keeps the invariant.
LEMMA LocalStep == ASSUME IsFiniteSet(Requests), LocalInv, [L!Next]_(L!vars) PROVE LocalInv'
  <1>1. CASE L!RouteUp
    <2>1. L!Open' = L!Open /\ LocalShapes' /\ OpenIsFresh'
      BY <1>1 DEF L!RouteUp, L!Open, LocalInv, LocalShapes, OpenIsFresh
    <2>2. QED
      BY <1>1, <2>1, RouteKeeps DEF L!RouteUp, LocalInv
  <1>2. CASE L!RouteDown
    <2>1. L!Open' = L!Open /\ LocalShapes' /\ OpenIsFresh'
      BY <1>2 DEF L!RouteDown, L!Open, LocalInv, LocalShapes, OpenIsFresh
    <2>2. QED
      BY <1>2, <2>1, RouteKeeps DEF L!RouteDown, LocalInv
  <1>3. CASE L!SaveSettings \/ UNCHANGED L!vars
    <2>1. L!Open' = L!Open /\ LocalShapes' /\ OpenIsFresh' /\ UNCHANGED <<count, outlived>>
      BY <1>3 DEF L!SaveSettings, L!vars, L!Open, LocalInv, LocalShapes, OpenIsFresh
    <2>2. QED
      BY <2>1, CountStays DEF LocalInv
  <1>4. ASSUME NEW r \in Requests,
               L!Greet(r) \/ L!Asks(r) \/ L!Handle(r) \/ L!Leaves(r) \/ L!EndCloses(r)
        PROVE  LocalInv'
    BY <1>4, OpensKeeps, EndClosesKeeps, OtherKeeps DEF L!Handle
  <1>5. QED
    BY <1>1, <1>2, <1>3, <1>4 DEF L!Next

\* The invariant holds in every behaviour.
LEMMA LocalInductive == ASSUME IsFiniteSet(Requests) PROVE L!Spec => []LocalInv
  <1>1. LocalInv /\ [L!Next]_(L!vars) => LocalInv'
    BY LocalStep
  <1>2. QED
    BY LocalInit, <1>1, PTL DEF L!Spec

\* The number on show is right, or too small, whatever closes in whatever order.
THEOREM CountStaysHonest == ASSUME IsFiniteSet(Requests) PROVE L!Spec => []CountIsHonest
  <1>1. LocalInv => CountIsHonest
    BY DEF LocalInv, CountIsHonest, L!CountIsHonest
  <1>2. QED
    BY LocalInductive, <1>1, PTL

\* What one step asks of an upstream is not private, or private is not blocked.
LEMMA StepNothingPrivate ==
  ASSUME LocalShapes, [L!Next]_(L!vars)
  PROVE  [\A r \in Requests : private'[r] /\ state[r] # "waiting" /\ state'[r] = "waiting" => ~block]_(L!vars)
  <1>1. ASSUME NEW q \in Requests, L!Asks(q), NEW r \in Requests,
               private'[r], state[r] # "waiting", state'[r] = "waiting"
        PROVE  ~block
    BY <1>1 DEF L!Asks, L!Become, L!Refused, LocalShapes, L!Rest
  <1>2. ASSUME NEW q \in Requests, L!Greet(q) \/ L!Handle(q) \/ L!Leaves(q) \/ L!EndCloses(q),
               NEW r \in Requests
        PROVE  ~(state[r] # "waiting" /\ state'[r] = "waiting")
    BY <1>2 DEF L!Greet, L!Handle, L!Opens, L!Turns, L!Leaves, L!EndCloses, L!Become, LocalShapes
  <1>3. CASE L!RouteUp \/ L!RouteDown \/ L!SaveSettings \/ UNCHANGED L!vars
    BY <1>3 DEF L!RouteUp, L!RouteDown, L!SaveSettings, L!vars
  <1>4. QED
    BY <1>1, <1>2, <1>3 DEF L!Next

\* No tunnel to a private address is asked for while those are blocked.
THEOREM SpecNothingPrivate == ASSUME IsFiniteSet(Requests) PROVE L!Spec => L!NothingPrivate
  <1>1. LocalInv => LocalShapes
    BY DEF LocalInv
  <1>2. QED
    BY LocalInductive, <1>1, StepNothingPrivate, PTL DEF L!Spec, L!NothingPrivate


-----------------------------------------------------------------------------
(* The dialler.  The goroutine of a call sends once, and a connection if   *)
(* and only if it has made one.                                            *)

\* What the proof needs of types: the functions of calls.
DialShapes ==
  /\ pc \in [Dials -> {"idle", "waiting", "returned"}]
  /\ done \in [Dials -> BOOLEAN]
  /\ result \in [Dials -> {Nil, "conn", "err"}]
  /\ got \in [Dials -> {Nil, "conn", "err", "ctx"}]

\* A call has at most one connection, which it has sent.
OneSent ==
  \A x \in open : /\ x.call \in Dials /\ result[x.call] = "conn"
                  /\ \A y \in open : y.call = x.call => y = x

\* A call has been given what was sent, unless its context was done.
GivenOrDone ==
  \A d \in Dials : pc[d] = "returned" =>
    \/ got[d] = "ctx" /\ done[d]
    \/ got[d] = result[d] /\ result[d] # Nil

DialInv == DialShapes /\ OneSent /\ GivenOrDone

\* In the beginning nothing is open.
LEMMA DialInit == D!Init => DialInv
  BY DEF D!Init, DialInv, DialShapes, OneSent, GivenOrDone

\* Every step keeps the invariant, if Nil is not what is sent.
LEMMA DialStep == ASSUME Nil \notin {"conn", "err", "ctx"}, DialInv, [D!Next]_(D!vars) PROVE DialInv'
  <1> USE DEF DialInv, DialShapes, OneSent, GivenOrDone
  <1>1. ASSUME NEW d \in Dials, D!DialContext(d) PROVE DialInv'
    BY <1>1 DEF D!DialContext
  <1>2. ASSUME NEW d \in Dials, D!ContextEnds(d) PROVE DialInv'
    BY <1>2 DEF D!ContextEnds
  <1>3. ASSUME NEW d \in Dials, D!Shuffle(d) PROVE DialInv'
    BY <1>3 DEF D!Shuffle
  <1>4. ASSUME NEW d \in Dials, D!Fails(d) PROVE DialInv'
    BY <1>4 DEF D!Fails
  <1>5. ASSUME NEW d \in Dials, D!Connects(d) PROVE DialInv'
    <2>1. DialShapes' /\ GivenOrDone'
      BY <1>5 DEF D!Connects, D!Running
    <2>2. \A x \in open : x.call # d
      BY <1>5 DEF D!Connects, D!Running
    <2>3. OneSent'
      BY <1>5, <2>2 DEF D!Connects, D!Running
    <2>4. QED
      BY <2>1, <2>3
  <1>6. ASSUME NEW d \in Dials, D!GivesUp(d) PROVE DialInv'
    BY <1>6 DEF D!GivesUp, D!Running
  <1>7. ASSUME NEW d \in Dials, D!TakesResult(d) PROVE DialInv'
    BY <1>7 DEF D!TakesResult
  <1>8. ASSUME NEW d \in Dials, D!TakesDone(d) PROVE DialInv'
    BY <1>8 DEF D!TakesDone
  <1>9. CASE UNCHANGED D!vars
    BY <1>9 DEF D!vars
  <1>10. QED
    BY <1>1, <1>2, <1>3, <1>4, <1>5, <1>6, <1>7, <1>8, <1>9 DEF D!Next, D!Attempts

\* With the invariant, a connection is lost only by a context that was done.
LEMMA DialImplies == DialInv => D!LostOnlyLate
  BY DEF DialInv, DialShapes, OneSent, GivenOrDone, D!LostOnlyLate

-----------------------------------------------------------------------------
(* The shuffle.  However often two places are swapped, the sequence holds  *)
(* what the chain holds.                                                   *)

\* Induction, over a set instead of a property.
LEMMA SetInduction ==
  ASSUME NEW good, 0 \in good, \A n \in Nat : n \in good => n + 1 \in good
  PROVE  Nat \subseteq good
  <1> DEFINE bad  == Nat \ good
             down == {1..n : n \in bad}
             less == StrictSubsetOrdering(Nat)
             all  == FiniteSubsetsOf(Nat)
  <1> SUFFICES ASSUME bad # {} PROVE FALSE
    OBVIOUS
  <1>1. down \subseteq all /\ down # {}
    <2>1. ASSUME NEW n \in bad PROVE 1..n \in all
      <3>1. n \in Int /\ 1..n \subseteq Nat
        OBVIOUS
      <3>2. IsFiniteSet(1..n)
        BY <3>1, FS_Interval
      <3>3. QED
        BY <3>1, <3>2 DEF FiniteSubsetsOf
    <2>2. QED
      BY <2>1
  <1>2. IsWellFoundedOn(less, all)
    BY FS_StrictSubsetOrderingWellFounded
  <1>3. \E x \in down : \A y \in down : <<y, x>> \notin less
    <2> HIDE DEF down, less, all
    <2>1. QED
      BY <1>1, <1>2, WFMin
  <1>4. PICK n \in bad : \A y \in down : <<y, 1..n>> \notin less
    BY <1>3
  <1>5. n # 0 /\ n - 1 \in bad
    <2>1. n # 0
      OBVIOUS
    <2>2. n - 1 \in Nat /\ (n - 1) + 1 = n
      BY <2>1
    <2>3. QED
      BY <2>1, <2>2
  <1>6. 1..(n - 1) \in down
    BY <1>5
  <1>7. <<1..(n - 1), 1..n>> \in less
    <2>1. n \in 1..n /\ n \notin 1..(n - 1) /\ 1..(n - 1) \subseteq 1..n /\ 1..n \subseteq Nat
      BY <1>5
    <2>2. QED
      BY <2>1 DEF StrictSubsetOrdering
  <1>8. QED
    BY <1>4, <1>6, <1>7

Proxies == {ProxyChain[i] : i \in DOMAIN ProxyChain}
Places  == 1..Len(ProxyChain)

\* An order of the chain.
Whole(s) == s \in [Places -> Proxies] /\ \A p \in Proxies : \E i \in Places : s[i] = p

LEMMA ChainIsWhole == Whole(ProxyChain) /\ Len(ProxyChain) \in Nat \ {0}
  <1>1. ProxyChain \in Seq(Proxies) /\ ProxyChain # <<>>
    BY DialerAssumption DEF Proxies
  <1>2. Len(ProxyChain) \in Nat \ {0} /\ DOMAIN ProxyChain = Places
    BY <1>1, LenProperties, EmptySeq DEF Places
  <1>3. ProxyChain \in [Places -> Proxies]
    BY <1>1, LenProperties DEF Places
  <1>4. QED
    BY <1>2, <1>3 DEF Whole, Proxies

LEMMA SwapKeeps ==
  ASSUME NEW s, Whole(s), NEW i \in Places, NEW j \in Places
  PROVE  Whole(D!Swap(s, i, j))
  <1> DEFINE t == D!Swap(s, i, j)
  <1>1. s \in [Places -> Proxies]
    BY DEF Whole
  <1>2. /\ t \in [Places -> Proxies]
        /\ t[i] = s[j] /\ t[j] = s[i]
        /\ \A k \in Places \ {i, j} : t[k] = s[k]
    BY <1>1 DEF D!Swap
  <1> HIDE DEF t
  <1>3. ASSUME NEW p \in Proxies PROVE \E k \in Places : t[k] = p
    <2>1. PICK k \in Places : s[k] = p
      BY DEF Whole
    <2>2. CASE k = i
      BY <1>2, <2>1, <2>2
    <2>3. CASE k = j
      BY <1>2, <2>1, <2>3
    <2>4. CASE k \notin {i, j}
      BY <1>2, <2>1, <2>4
    <2>5. QED
      BY <2>2, <2>3, <2>4
  <1>4. QED
    BY <1>2, <1>3 DEF Whole, t

\* A round of the shuffle, for the orders that the one before may have left.
Round(orders, k) ==
  UNION {{D!Swap(s, Len(ProxyChain) + 1 - k, j) : j \in 1..(Len(ProxyChain) + 1 - k)} : s \in orders}

\* The recursive definition of the orders after so many rounds means what it says.
LEMMA RoundByRound ==
  \A k \in 0..(Len(ProxyChain) - 1) :
    D!After[k] = IF k = 0 THEN {ProxyChain} ELSE Round(D!After[k - 1], k)
  <1> DEFINE Rounds(f, m) == f = [k \in 0..m |-> IF k = 0 THEN {ProxyChain} ELSE Round(f[k - 1], k)]
             last == Len(ProxyChain) - 1
             good == {m \in Nat : \E f : Rounds(f, m)}
  <1>1. last \in Nat
    BY ChainIsWhole
  <1>2. 0 \in good
    <2>1. Rounds([k \in 0..0 |-> {ProxyChain}], 0)
      OBVIOUS
    <2>2. QED
      BY <2>1
  <1>3. ASSUME NEW m \in Nat, m \in good PROVE m + 1 \in good
    <2>1. PICK f : Rounds(f, m)
      BY <1>3
    <2> DEFINE g == [k \in 0..(m + 1) |-> IF k = m + 1 THEN Round(f[m], k) ELSE f[k]]
    <2>2. ASSUME NEW k \in 0..(m + 1)
          PROVE  g[k] = IF k = 0 THEN {ProxyChain} ELSE Round(g[k - 1], k)
      <3>1. CASE k = m + 1
        <4>1. g[k] = Round(f[m], k) /\ k # 0 /\ k - 1 = m /\ g[m] = f[m]
          BY <3>1
        <4>2. QED
          BY <4>1
      <3>2. CASE k # m + 1
        <4>1. k \in 0..m /\ g[k] = f[k]
          BY <3>2
        <4>2. f[k] = IF k = 0 THEN {ProxyChain} ELSE Round(f[k - 1], k)
          BY <2>1, <4>1
        <4>3. k # 0 => k - 1 \in 0..m /\ g[k - 1] = f[k - 1]
          BY <4>1
        <4> HIDE DEF g
        <4>4. QED
          BY <4>1, <4>2, <4>3
      <3>3. QED
        BY <3>1, <3>2
    <2>3. g = [k \in 0..(m + 1) |-> g[k]]
      OBVIOUS
    <2> HIDE DEF g
    <2>4. Rounds(g, m + 1)
      BY <2>2, <2>3
    <2>5. QED
      BY <2>4
  <1>4. last \in good
    <2> HIDE DEF good, last
    <2>1. QED
      BY <1>1, <1>2, <1>3, SetInduction
  <1>5. D!After = CHOOSE f : Rounds(f, last)
    BY DEF D!After, Round
  <1>6. Rounds(D!After, last)
    BY <1>4, <1>5
  <1>7. QED
    BY <1>6

LEMMA ShufflesAreWhole == \A s \in D!Shuffles : Whole(s)
  <1> DEFINE last == Len(ProxyChain) - 1
             good == {k \in Nat : k \in 0..last => \A s \in D!After[k] : Whole(s)}
  <1>1. 0 \in good
    BY ChainIsWhole, RoundByRound
  <1>2. ASSUME NEW k \in Nat, k \in good PROVE k + 1 \in good
    <2> SUFFICES ASSUME k + 1 \in 0..last, NEW s \in D!After[k + 1] PROVE Whole(s)
      OBVIOUS
    <2>1. Len(ProxyChain) \in Nat
      BY ChainIsWhole
    <2>2. k \in 0..last /\ k + 1 # 0 /\ (k + 1) - 1 = k
      BY <2>1
    <2>3. D!After[k + 1] = Round(D!After[k], k + 1)
      BY <2>2, RoundByRound
    <2>4. PICK t \in D!After[k], j \in 1..(Len(ProxyChain) + 1 - (k + 1)) :
                s = D!Swap(t, Len(ProxyChain) + 1 - (k + 1), j)
      BY <2>3 DEF Round
    <2>5. Whole(t)
      BY <1>2, <2>2
    <2>6. Len(ProxyChain) + 1 - (k + 1) \in Places /\ j \in Places
      BY <2>1, <2>2 DEF Places
    <2>7. QED
      BY <2>4, <2>5, <2>6, SwapKeeps
  <1> HIDE DEF good
  <1>3. Nat \subseteq good
    BY <1>1, <1>2, SetInduction
  <1>4. last \in Nat
    BY ChainIsWhole
  <1>5. QED
    BY <1>3, <1>4 DEF good, D!Shuffles

\* The hops of an attempt, and those of a connection, are an order of the chain.
OrdersInv ==
  /\ hops \in [Dials -> [Places -> Proxies] \cup {<<>>}]
  /\ \A d \in Dials : hops[d] # <<>> => Whole(hops[d])
  /\ \A x \in open : Whole(x.through)

LEMMA OrdersStep == ASSUME OrdersInv, [D!Next]_(D!vars) PROVE OrdersInv'
  <1>1. ASSUME NEW d \in Dials, D!Shuffle(d) PROVE OrdersInv'
    <2>1. PICK s \in D!Shuffles : hops' = [hops EXCEPT ![d] = s]
      BY <1>1 DEF D!Shuffle
    <2>2. Whole(s) /\ s \in [Places -> Proxies] /\ open' = open
      BY <1>1, ShufflesAreWhole DEF D!Shuffle, Whole
    <2>3. QED
      BY <2>1, <2>2 DEF OrdersInv
  <1>2. ASSUME NEW d \in Dials, D!Fails(d) PROVE OrdersInv'
    BY <1>2 DEF D!Fails, OrdersInv
  <1>3. ASSUME NEW d \in Dials, D!Connects(d) PROVE OrdersInv'
    BY <1>3 DEF D!Connects, OrdersInv
  <1>4. ASSUME UNCHANGED <<hops, open>> PROVE OrdersInv'
    BY <1>4 DEF OrdersInv
  <1>5. QED
    BY <1>1, <1>2, <1>3, <1>4
    DEF D!Next, D!Attempts, D!DialContext, D!ContextEnds, D!GivesUp, D!TakesResult, D!TakesDone, D!vars

LEMMA OrdersImply == OrdersInv => D!WholeChain
  <1> SUFFICES ASSUME NEW s, Whole(s)
               PROVE  Len(s) = Len(ProxyChain) /\ D!ToSet(s) = D!ToSet(ProxyChain)
    BY DEF OrdersInv, D!WholeChain
  <1>1. s \in [Places -> Proxies] /\ Len(ProxyChain) \in Nat
    BY ChainIsWhole DEF Whole
  <1>2. Len(s) = Len(ProxyChain) /\ DOMAIN s = Places
    <2>1. s \in Seq(Proxies)
      BY <1>1, SeqDef DEF Places
    <2>2. DOMAIN s = 1..Len(s) /\ Len(s) \in Nat
      BY <2>1, LenProperties
    <2>3. QED
      BY <1>1, <2>2 DEF Places
  <1>3. D!ToSet(s) = Proxies
    BY <1>1, <1>2 DEF D!ToSet, Whole
  <1>4. D!ToSet(ProxyChain) = Proxies
    BY DEF D!ToSet, Proxies
  <1>5. QED
    BY <1>2, <1>3, <1>4

\* A connection goes through every proxy of the chain, whatever order the shuffle
\* takes; a call makes at most one, and loses it only if its context was done
\* (internal/torrent/multiproxy.go: shuffleProxies, DialWithRetry, DialContext).
THEOREM SpecDialsAreSound == D!Spec => []DialsAreSound
  <1>1. D!Init => DialInv /\ OrdersInv
    BY DialInit DEF D!Init, OrdersInv
  <1>2. DialInv /\ OrdersInv /\ [D!Next]_(D!vars) => (DialInv /\ OrdersInv)'
    BY DialStep, OrdersStep, DialerAssumption
  <1>3. DialInv /\ OrdersInv => DialsAreSound
    BY DialImplies, OrdersImply DEF DialsAreSound, D!DialsAreSound
  <1>4. QED
    BY <1>1, <1>2, <1>3, PTL DEF D!Spec

===============================================================================
