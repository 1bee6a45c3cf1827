-------------------------------- MODULE MCVpn ---------------------------------
(* Small instances for TLC of what connects through proxies: a run is one    *)
(* of the connection of the VPN client, of its local proxy, or of the        *)
(* dialler of the torrent client.                                            *)
EXTENDS MCVpnClient, Sequences

CONSTANTS
  Requests, MaxRuns,                  \* LocalProxy
  ProxyChain, Dials, MaxRetries, Nil  \* ProxyDialer

\* The dialler is made for at least one proxy.
ASSUME DialerAssumption ==
  /\ ProxyChain \in Seq({ProxyChain[i] : i \in DOMAIN ProxyChain}) /\ ProxyChain # <<>>
  /\ Nil \notin {"conn", "err", "ctx"}

VARIABLES
  mode,   \* the component that runs; the others rest
  up, upstream, block, state, private, via, count, closedEnds, outlived,
  quiet, runs,   \* LocalProxy
  pc, done, attempt, hops, lastErr, result, got, open   \* ProxyDialer

localVars ==
  <<up, upstream, block, state, private, via, count, closedEnds, outlived,
    quiet, runs>>
dialerVars == <<pc, done, attempt, hops, lastErr, result, got, open>>

\* A chain that a swap too many or too few would show.
ThreeProxies == <<"first", "second", "third">>

L == INSTANCE LocalProxy
D == INSTANCE ProxyDialer

MCInit ==
  /\ mode \in {"connection", "local", "dialer"}
  /\ Init /\ L!Init /\ D!Init
  /\ mode # "connection" => env = {} /\ settings = CHOOSE s \in Settings : TRUE

MCNext ==
  /\ UNCHANGED mode
  /\ \/ mode = "connection" /\ Next
     \/ mode = "local"      /\ L!Next
     \/ mode = "dialer"     /\ D!Next
     \/ mode # "connection" /\ UNCHANGED <<localVars, dialerVars>>   \* or its bound is reached
  /\ mode # "connection" => UNCHANGED vars
  /\ mode # "local"      => UNCHANGED localVars
  /\ mode # "dialer"     => UNCHANGED dialerVars

MCFairness == Fairness /\ L!Fairness /\ D!Fairness

MCSpec ==
  /\ MCInit /\ [][MCNext]_<<mode, vars, localVars, dialerVars>>
  /\ MCFairness

CountIsHonest    == L!CountIsHonest
EveryRequestEnds == L!EveryRequestEnds /\ D!EveryDialEnds
DialsAreSound    == D!DialsAreSound
===============================================================================
