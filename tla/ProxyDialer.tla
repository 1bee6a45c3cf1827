----------------------------- MODULE ProxyDialer -----------------------------
(***************************************************************************)
(* The dialling of peers and trackers through the chain of proxies         *)
(* (internal/torrent/multiproxy.go): DialContext leaves the attempts to a  *)
(* goroutine of its own, which goes on when the context is done.           *)
(***************************************************************************)
EXTENDS Naturals, Sequences, SequencesExt

CONSTANTS
  ProxyChain,   \* proxyChain: a sequence
  Dials,        \* calls of DialContext
  MaxRetries,   \* of Dial
  Nil

VARIABLES
  pc,         \* of each call: "idle", "waiting", "returned"
  done,       \* whether its context is done
  attempt,    \* attempts of its goroutine that are over
  hops,       \* the proxies, in the order of this attempt
  lastErr,
  result,     \* resultChan, with room for one: Nil, "conn" or "err"
  got,        \* what the caller was given: Nil, "conn", "err" or "ctx"
  open        \* the connections: of which call, and through which proxies

vars == <<pc, done, attempt, hops, lastErr, result, got, open>>

Swap(s, i, j) == [s EXCEPT ![i] = s[j], ![j] = s[i]]

\* The orders that the loop of shuffleProxies may have made after k rounds: from
\* the last place down, each place is swapped with one that is not behind it.
After[k \in 0..(Len(ProxyChain) - 1)] ==
  IF k = 0 THEN {ProxyChain}
  ELSE LET i == Len(ProxyChain) + 1 - k
       IN  UNION {{Swap(s, i, j) : j \in 1..i} : s \in After[k - 1]}

Shuffles == After[Len(ProxyChain) - 1]

Init ==
  /\ pc = [d \in Dials |-> "idle"] /\ done = [d \in Dials |-> FALSE]
  /\ attempt = [d \in Dials |-> 0] /\ hops = [d \in Dials |-> <<>>]
  /\ lastErr = [d \in Dials |-> FALSE]
  /\ result = [d \in Dials |-> Nil] /\ got = [d \in Dials |-> Nil]
  /\ open = {}

\* DialContext starts the goroutine and waits.
DialContext(d) ==
  /\ pc[d] = "idle"
  /\ pc' = [pc EXCEPT ![d] = "waiting"]
  /\ UNCHANGED <<done, attempt, hops, lastErr, result, got, open>>

ContextEnds(d) ==
  /\ pc[d] # "idle" /\ ~done[d]
  /\ done' = [done EXCEPT ![d] = TRUE]
  /\ UNCHANGED <<pc, attempt, hops, lastErr, result, got, open>>

Running(d) == pc[d] # "idle" /\ result[d] = Nil

\* An attempt begins with a shuffle, unless they are used up.
Shuffle(d) ==
  /\ Running(d) /\ hops[d] = <<>> /\ attempt[d] < MaxRetries
  /\ hops' \in {[hops EXCEPT ![d] = s] : s \in Shuffles}
  /\ UNCHANGED <<pc, done, attempt, lastErr, result, got, open>>

\* The error of an earlier attempt, which nothing clears, ends it at once.
Fails(d) ==
  /\ Running(d) /\ hops[d] # <<>>
  /\ lastErr' = [lastErr EXCEPT ![d] = TRUE]
  /\ attempt' = [attempt EXCEPT ![d] = @ + 1]
  /\ hops' = [hops EXCEPT ![d] = <<>>]
  /\ UNCHANGED <<pc, done, result, got, open>>

\* Mutant of Connects: the loop goes on.
ConnectsOn(d) ==
  /\ Running(d) /\ hops[d] # <<>> /\ ~lastErr[d]
  /\ open' = open \cup {[call |-> d, through |-> hops[d]]}
  /\ attempt' = [attempt EXCEPT ![d] = @ + 1]
  /\ hops' = [hops EXCEPT ![d] = <<>>]
  /\ UNCHANGED <<pc, done, lastErr, result, got>>

Connects(d) ==
  /\ Running(d) /\ hops[d] # <<>> /\ ~lastErr[d]
  /\ open' = open \cup {[call |-> d, through |-> hops[d]]}
  /\ result' = [result EXCEPT ![d] = "conn"]
  /\ UNCHANGED <<pc, done, attempt, hops, lastErr, got>>

GivesUp(d) ==
  /\ Running(d) /\ attempt[d] = MaxRetries /\ hops[d] = <<>>
  /\ result' = [result EXCEPT ![d] = "err"]
  /\ UNCHANGED <<pc, done, attempt, hops, lastErr, got, open>>

\* DialContext returns what the goroutine sent; of two cases that are ready,
\* select takes either.
TakesResult(d) ==
  /\ pc[d] = "waiting" /\ result[d] # Nil
  /\ pc' = [pc EXCEPT ![d] = "returned"] /\ got' = [got EXCEPT ![d] = result[d]]
  /\ UNCHANGED <<done, attempt, hops, lastErr, result, open>>

TakesDone(d) ==
  /\ pc[d] = "waiting" /\ done[d]
  /\ pc' = [pc EXCEPT ![d] = "returned"] /\ got' = [got EXCEPT ![d] = "ctx"]
  /\ UNCHANGED <<done, attempt, hops, lastErr, result, open>>

Attempts(d) == Shuffle(d) \/ Fails(d) \/ Connects(d) \/ GivesUp(d)

Next ==
  \E d \in Dials : DialContext(d) \/ ContextEnds(d) \/ Attempts(d) \/ TakesResult(d) \/ TakesDone(d)

\* Each dial and each attempt ends at some time, and so does the goroutine.
Fairness == \A d \in Dials : WF_vars(Attempts(d)) /\ WF_vars(TakesResult(d) \/ TakesDone(d))

Spec == Init /\ [][Next]_vars /\ Fairness

-----------------------------------------------------------------------------
(* Properties                                                              *)

\* A connection goes through every proxy of the chain once, whatever order the
\* shuffle takes.
WholeChain ==
  \A x \in open : Len(x.through) = Len(ProxyChain) /\ ToSet(x.through) = ToSet(ProxyChain)

\* A call makes at most one connection, and one that the caller was not given
\* is left over only by a context that was done: none is lost while its caller
\* waits for it.
LostOnlyLate ==
  \A x \in open :
    /\ \A y \in open : y.call = x.call => y = x
    /\ pc[x.call] = "returned" /\ got[x.call] # "conn" => done[x.call]

\* A call returns, although its context may never be done and all attempts fail.
EveryDialEnds == \A d \in Dials : pc[d] = "waiting" ~> pc[d] = "returned"

\* Together: what a dial opens goes over the whole chain, and it loses no
\* connection that somebody waits for.
DialsAreSound == WholeChain /\ LostOnlyLate

=============================================================================
