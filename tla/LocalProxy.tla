------------------------------ MODULE LocalProxy ------------------------------
(***************************************************************************)
(* The local HTTP and SOCKS5 proxy of the VPN client (vpn-client/main.js): *)
(* a request waits for a tunnel through the upstream, and a pair of        *)
(* sockets is counted until either closes.  Closing a listener leaves the  *)
(* pairs alone that it has accepted.                                       *)
(***************************************************************************)
EXTENDS Integers, FiniteSets

CONSTANTS
  Requests,   \* requests of clients
  MaxRuns     \* bound: routes in a run

Upstreams == {"socks5", "https"}             \* what the upstream speaks

VARIABLES
  up, upstream,     \* whether a route is up; what its upstream speaks
  block,            \* settings.blockPrivateDestinations
  state,            \* each request: what has become of it
  private, via,     \* each request: whether it is for a private address, and
                    \* what the upstream of its listener speaks
  count,            \* transferStats.activeConnections
  closedEnds,       \* each pair: the closings of sockets seen so far
  outlived,         \* history: a pair outlived its route
  quiet,            \* history: requests whose upstream went without a word
  runs              \* history: routes so far

vars == <<up, upstream, block, state, private, via, count, closedEnds, outlived, quiet, runs>>

\* "waiting" at an upstream; "open": both sockets are piped; "refused" and
\* "closed" are final.
States == {"none", "greeted", "waiting", "open", "refused", "closed"}

Open == {r \in Requests : state[r] = "open"}

Init ==
  /\ up = FALSE /\ upstream = "socks5" /\ block = TRUE
  /\ state = [r \in Requests |-> "none"] /\ private = [r \in Requests |-> FALSE]
  /\ via = [r \in Requests |-> "socks5"]
  /\ count = 0 /\ closedEnds = [r \in Requests |-> 0]
  /\ outlived = FALSE /\ quiet = {} /\ runs = 0

Become(r, s) == state' = [state EXCEPT ![r] = s]

\* connectToVPN and disconnect: the counters start anew.
RouteUp ==
  /\ ~up /\ runs < MaxRuns
  /\ up' = TRUE /\ runs' = runs + 1
  /\ upstream' \in Upstreams
  /\ count' = 0
  /\ outlived' = (outlived \/ Open # {})
  /\ UNCHANGED <<block, state, private, via, closedEnds, quiet>>

RouteDown ==
  /\ up
  /\ up' = FALSE
  /\ count' = 0
  /\ outlived' = (outlived \/ Open # {})
  /\ UNCHANGED <<upstream, block, state, private, via, closedEnds, quiet, runs>>

SaveSettings ==
  /\ block' = ~block
  /\ UNCHANGED <<up, upstream, state, private, via, count, closedEnds, outlived, quiet, runs>>

-----------------------------------------------------------------------------

Rest == UNCHANGED <<up, upstream, block, count, closedEnds, outlived, runs>>

\* startSOCKSProxy: a greeting that is SOCKS5 is answered.
Greet(r) ==
  /\ up /\ state[r] = "none"
  /\ Become(r, "greeted") \/ Become(r, "closed")
  /\ via' = [via EXCEPT ![r] = upstream]
  /\ UNCHANGED <<private, quiet>> /\ Rest

\* assertDestinationAllowed, before either tunnel is opened.
Refused(p, speaks) == block /\ p

\* handleHttpRequest, handleConnectRequest, and the second message of a SOCKS
\* client, which may not be understood.
Asks(r) ==
  /\ \/ up /\ state[r] = "none" /\ via' = [via EXCEPT ![r] = upstream]
     \/ state[r] = "greeted" /\ UNCHANGED via
  /\ \E p \in BOOLEAN :
       /\ private' = [private EXCEPT ![r] = p]
       /\ \/ Become(r, IF Refused(p, via'[r]) THEN "refused" ELSE "waiting")
          \/ state[r] = "greeted" /\ Become(r, "refused")
  /\ UNCHANGED quiet /\ Rest

\* The tunnel is up: trackSocketPair.
Opens(r) ==
  /\ state[r] = "waiting" /\ r \notin quiet
  /\ Become(r, "open")
  /\ count' = count + 1
  /\ UNCHANGED <<up, upstream, block, private, via, closedEnds, outlived, quiet, runs>>

\* Mutant of Fails: the time-out of the upstream is not listened for.
FailsOfItself == {"refused", "error"}

Fails == {"refused", "error", "timeout"}

\* How an upstream may turn out: it answers, says no, breaks, is silent until
\* the time is up, or (over HTTPS) ends without a word, which nothing hears.
Turns(r, how) ==
  /\ state[r] = "waiting" /\ r \notin quiet
  /\ \/ how \in Fails /\ Become(r, "refused") /\ UNCHANGED quiet
     \/ how = "end" /\ via[r] = "https" /\ quiet' = quiet \cup {r} /\ UNCHANGED state
  /\ UNCHANGED <<private, via>> /\ Rest

\* A client leaves before it has its tunnel.
Leaves(r) ==
  /\ state[r] \in {"greeted", "waiting"}
  /\ Become(r, "closed")
  /\ UNCHANGED <<private, via, quiet>> /\ Rest

\* Mutant of Counted: each end of a pair counts.
CountedTwice(r) == TRUE

\* Whether this closing is the one that counts.
Counted(r) == closedEnds[r] = 0

Less(n) == IF n > 0 THEN n - 1 ELSE 0

\* "close" or "error" of either socket of a pair.
EndCloses(r) ==
  /\ state[r] = "open" \/ (state[r] = "closed" /\ closedEnds[r] = 1)
  /\ closedEnds' = [closedEnds EXCEPT ![r] = @ + 1]
  /\ count' = IF Counted(r) THEN Less(count) ELSE count
  /\ Become(r, "closed")
  /\ UNCHANGED <<up, upstream, block, private, via, outlived, quiet, runs>>

Handle(r) == Opens(r) \/ \E how \in {"refused", "error", "timeout", "end"} : Turns(r, how)

Next ==
  \/ RouteUp \/ RouteDown \/ SaveSettings
  \/ \E r \in Requests : Greet(r) \/ Asks(r) \/ Handle(r) \/ Leaves(r) \/ EndCloses(r)

\* An upstream turns out somehow, or the time is up.
Fairness == \A r \in Requests : WF_vars(Turns(r, "timeout"))

Spec == Init /\ [][Next]_vars /\ Fairness

-----------------------------------------------------------------------------
(* Properties                                                              *)

\* The number of connections on show is the number of open pairs, unless a
\* pair has outlived its route.
CountIsOpen == ~outlived => count = Cardinality(Open)

\* Whatever has outlived what: never more than the open pairs, never below none.
CountIsBounded == count \in 0 .. Cardinality(Open)

\* Together: the number on show is right, or too small.
CountIsHonest == CountIsOpen /\ CountIsBounded

\* Every request is answered, or its client leaves, unless an upstream ends
\* without a word.
EveryRequestEnds ==
  \A r \in Requests : state[r] = "waiting" ~> state[r] # "waiting" \/ r \in quiet

\* A tunnel to a private address was asked for while those were not blocked.
NothingPrivate ==
  [][ \A r \in Requests : private'[r] /\ state[r] # "waiting" /\ state'[r] = "waiting" => ~block ]_vars
==============================================================================
