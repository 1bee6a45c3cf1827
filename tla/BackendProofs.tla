---------------------------- MODULE BackendProofs -----------------------------
(***************************************************************************)
(* Theorems about the displays that judge the torrent client's             *)
(* configuration (D) and about the alerts and toasts (A), as MCBackend     *)
(* instantiates them, for all values of their constants.                   *)
(***************************************************************************)
EXTENDS MCBackend, SequenceTheorems, TLAPS

-----------------------------------------------------------------------------
(* The displays: a case distinction over the switches.                     *)

DisplaysInv == displaysConfig = None \/ displaysConfig \in D!Configs

LEMMA DisplaysInvInvariant == MCSpec => []DisplaysInv
<1>1. MCInit => DisplaysInv
  BY DEF MCInit, D!Init, DisplaysInv
<1>2. DisplaysInv /\ [MCNext]_<<mode, vars, displaysVars, alertsVars>> => DisplaysInv'
  BY DEF DisplaysInv, MCNext, D!Next, D!Configure, D!Configs, D!Switches, displaysVars
<1> QED  BY <1>1, <1>2, PTL DEF MCSpec

\* Whatever is configured, each switch is on or off, and a Tor proxy is
\* available exactly if it runs, for it runs with a chain.
LEMMA SwitchesOnOrOff ==
  ASSUME displaysConfig \in D!Configs
  PROVE  /\ \A t \in D!Switches : displaysConfig[t] \in BOOLEAN
         /\ D!ProxyAvailable <=> displaysConfig["torEnabled"]
  BY DEF D!Configs, D!Switches, D!ProxyAvailable

LEMMA NoFalseGreenHolds ==
  D!NoFalseGreen
BY DEF D!NoFalseGreen, D!GetSecurityStatus, D!Enforced, D!tickerLevel, D!monitorLevel,
       D!badge, D!isSecure, D!leakStatus, D!Everything, D!Guarded

\* The boxes of the dialog that are blocked are those that are asked for and
\* have no proxy.
LEMMA BlockedTogglesAre ==
  ASSUME displaysConfig \in D!Configs
  PROVE  D!blockedToggles(D!GetSecurityStatus) = {}
           <=> (D!ProxyRequired => D!ProxyAvailable)
<1> DEFINE s == D!GetSecurityStatus
<1>1. /\ s.ipObfuscationActive <=> displaysConfig["ipObfuscation"] /\ D!ProxyAvailable
      /\ s.dnsObfuscationActive <=> displaysConfig["dnsObfuscation"] /\ D!ProxyAvailable
  BY DEF D!GetSecurityStatus, D!PrivacyStatus
<1>2. <<"ipObfuscation", s.ipObfuscationActive>> \in D!blockedToggles(s)
        <=> displaysConfig["ipObfuscation"] /\ ~s.ipObfuscationActive
  BY DEF D!blockedToggles
<1>3. <<"dnsObfuscation", s.dnsObfuscationActive>> \in D!blockedToggles(s)
        <=> displaysConfig["dnsObfuscation"] /\ ~s.dnsObfuscationActive
  BY DEF D!blockedToggles
<1>4. D!blockedToggles(s) \subseteq {<<"ipObfuscation", s.ipObfuscationActive>>,
                                     <<"dnsObfuscation", s.dnsObfuscationActive>>}
  BY DEF D!blockedToggles
<1> HIDE DEF s
<1>5. D!blockedToggles(s) = {}
        <=> /\ <<"ipObfuscation", s.ipObfuscationActive>> \notin D!blockedToggles(s)
            /\ <<"dnsObfuscation", s.dnsObfuscationActive>> \notin D!blockedToggles(s)
  BY <1>4
<1>6. D!blockedToggles(s) = {} <=> (D!ProxyRequired => D!ProxyAvailable)
  BY <1>1, <1>2, <1>3, <1>5 DEF D!ProxyRequired
<1> QED  BY <1>6 DEF s

LEMMA ReadyMeansMaskedHolds ==
  ASSUME displaysConfig \in D!Configs
  PROVE  D!ReadyMeansMasked
<1> DEFINE s == D!GetSecurityStatus
<1>1. /\ s.proxyRequired <=> D!ProxyRequired
      /\ s.proxyAvailable <=> D!ProxyAvailable
      /\ s.connectionType = D!connectionType
  BY DEF D!GetSecurityStatus, D!PrivacyStatus
<1>2. D!connectionType # "Tor Proxy Unavailable" <=> (D!vpnTypeIsTor => D!ProxyAvailable)
  BY DEF D!connectionType, D!vpnTypeIsTor
<1>3. D!routeBadge(s) = "Route ready" <=> ~D!proxyBlocked(s)
  BY DEF D!routeBadge
<1>4. D!proxyBlocked(s) <=> (s.proxyRequired \/ D!vpnTypeIsTor) /\ ~s.proxyAvailable
  BY DEF D!proxyBlocked
<1> HIDE DEF s
<1>5. D!routeBadge(s) = "Route ready"
        <=> D!blockedToggles(s) = {} /\ s.connectionType # "Tor Proxy Unavailable"
  BY <1>1, <1>2, <1>3, <1>4, BlockedTogglesAre DEF s
<1> QED  BY <1>5 DEF D!ReadyMeansMasked, s

LEMMA TickerAgreesHolds ==
  ASSUME displaysConfig \in D!Configs
  PROVE  D!TickerAgrees
BY SwitchesOnOrOff
DEF D!TickerAgrees, D!GetSecurityStatus, D!tickerItems, D!protectionFlow,
    D!DNSProtection, D!PrivacyStatus, D!Switches

\* No display turns green for protection that nothing enforces, and the ticker,
\* the monitor, the badge and the dialog never contradict each other
\* (components/security-status-ticker.tsx, settings-dialog.tsx and the others,
\* each of which derives a level of its own from the reply of
\* /api/security/status).
THEOREM SpecDisplaysAgree == MCSpec => []DisplaysAgree
<1>1. DisplaysInv => DisplaysAgree
  <2>1. CASE displaysConfig = None
    BY <2>1 DEF DisplaysAgree, D!DisplaysAgree, D!NoFalseGreen, D!ReadyMeansMasked,
                D!TickerAgrees, D!Answered
  <2>2. CASE displaysConfig \in D!Configs
    BY <2>2, NoFalseGreenHolds, ReadyMeansMaskedHolds, TickerAgreesHolds
    DEF DisplaysAgree, D!DisplaysAgree
  <2> QED  BY <2>1, <2>2 DEF DisplaysInv
<1> QED  BY <1>1, DisplaysInvInvariant, PTL

-----------------------------------------------------------------------------
(* Alerts: what the effect closed over only lags behind what was shown, and *)
(* catches up before it asks again.                                        *)

\* The events that happened.
Numbers == 1..Len(happened)

\* The identities of those that were shown.
Shown == {A!Id(e) : e \in {d \in Numbers : alerts[d] > 0}}

PollStates ==
  [at : {"free", "sent", "served"}, seen : SUBSET Shown, late : SUBSET Numbers,
   events : SUBSET Numbers]

AlertsTypeOK ==
  /\ happened \in Seq(Types) /\ Len(happened) <= MaxEvents
  /\ kept \in Seq(Numbers)
  /\ tries \in [A!Events -> Nat] /\ alerts \in [A!Events -> Nat]
  /\ polls \in [Polls -> PollStates]
  /\ render \in BOOLEAN

\* Nothing is known of an event before it happens.
NewIsFresh == \A e \in A!Events \ Numbers : tries[e] = 0 /\ alerts[e] = 0

PollsAreSound ==
  \A p \in Polls :
    /\ polls[p].at # "served" => polls[p].events = {}
    /\ \A e \in polls[p].late : A!Id(e) \in polls[p].seen

EffectIsSound ==
  /\ processed = Shown
  /\ closure \subseteq Shown
  /\ ~render => closure = Shown

AlertsInv ==
  /\ AlertsTypeOK /\ NewIsFresh /\ PollsAreSound /\ EffectIsSound
  /\ A!NoneIsMissed

LEMMA NumbersAreEvents ==
  ASSUME AlertsTypeOK
  PROVE  Numbers \subseteq A!Events /\ Len(happened) \in Nat
BY BoundsAssumption DEF AlertsTypeOK, Numbers, A!Events

\* An event is known by its identity.
LEMMA IdsDiffer ==
  ASSUME NEW e \in Numbers
  PROVE  A!Id(e) \in Shown <=> alerts[e] > 0
BY DEF Shown, A!Id

LEMMA KeptAreNumbers ==
  ASSUME AlertsTypeOK
  PROVE  A!ToSet(kept) \subseteq Numbers
BY DEF AlertsTypeOK, A!ToSet

\* Asking needs nothing but a free request.
LEMMA AskingIsSound ==
  ASSUME AlertsInv, NEW p \in Polls, polls[p] = A!Free,
         polls' = A!Asking(p, Shown), UNCHANGED <<happened, kept, tries, alerts>>
  PROVE  /\ Shown' = Shown /\ Numbers' = Numbers
         /\ polls' \in [Polls -> PollStates'] /\ PollsAreSound' /\ A!NoneIsMissed'
<1>1. Shown' = Shown /\ Numbers' = Numbers
  BY DEF Shown, Numbers, A!Id
<1>2. /\ polls'[p] = [at |-> "sent", seen |-> Shown, events |-> {},
                      late |-> {e \in A!Events : alerts[e] > 0}]
      /\ \A q \in Polls \ {p} : polls'[q] = polls[q]
  BY DEF A!Asking, AlertsInv, AlertsTypeOK
<1>3. {e \in A!Events : alerts[e] > 0} \subseteq Numbers
  BY DEF AlertsInv, NewIsFresh
<1>4. PollStates' = PollStates
  BY <1>1 DEF PollStates
<1>5. polls' \in [Polls -> PollStates']
  BY <1>2, <1>3, <1>4 DEF A!Asking, AlertsInv, AlertsTypeOK, PollStates
<1>6. PollsAreSound'
  <2> SUFFICES ASSUME NEW q \in Polls
               PROVE  /\ polls'[q].at # "served" => polls'[q].events = {}
                      /\ \A e \in polls'[q].late : A!Id(e)' \in polls'[q].seen
    BY DEF PollsAreSound
  <2>1. CASE q = p
    BY <2>1, <1>2, <1>3, IdsDiffer DEF A!Id
  <2>2. CASE q # p
    BY <2>2, <1>2 DEF AlertsInv, PollsAreSound, A!Id
  <2> QED  BY <2>1, <2>2
<1>7. A!NoneIsMissed'
  BY <1>2 DEF AlertsInv, A!NoneIsMissed, A!Free, A!ToSet
<1> QED  BY <1>1, <1>5, <1>6, <1>7

\* AddSecurityEvent: the new event is fresh, and pushes out the oldest.
LEMMA HappensStep ==
  ASSUME AlertsInv, NEW type \in Types, A!Happens(type)
  PROVE  AlertsInv'
<1> DEFINE n == Len(happened) + 1
           all == Append(kept, n)
<1> USE DEF AlertsInv
<1>1. /\ happened' = Append(happened, type) /\ Len(happened) < MaxEvents
      /\ UNCHANGED <<tries, processed, closure, render, polls, alerts>>
  BY DEF A!Happens, A!effect
<1>2. happened' \in Seq(Types) /\ Len(happened') = n /\ n \in Nat /\ n <= MaxEvents
  BY <1>1, BoundsAssumption DEF AlertsTypeOK
<1>3. Numbers' = Numbers \cup {n} /\ n \notin Numbers /\ n \in A!Events
  BY <1>2, BoundsAssumption DEF Numbers, AlertsTypeOK, A!Events
<1>4. \A e \in Numbers : A!Id(e)' = A!Id(e)
  BY <1>1 DEF A!Id, Numbers, AlertsTypeOK
<1>5. tries[n] = 0 /\ alerts[n] = 0
  BY <1>3 DEF NewIsFresh
<1>6. Shown' = Shown
  <2>1. {d \in Numbers' : alerts'[d] > 0} = {d \in Numbers : alerts[d] > 0}
    BY <1>1, <1>3, <1>5
  <2> QED  BY <2>1, <1>4 DEF Shown
<1>7. /\ kept' = IF Len(all) > 2 THEN Tail(all) ELSE all
      /\ all \in Seq(Numbers')
  BY <1>2, <1>3 DEF A!Happens, AlertsTypeOK
<1> HIDE DEF all
<1>8. kept' \in Seq(Numbers') /\ A!ToSet(kept') \subseteq A!ToSet(all)
  BY <1>7 DEF A!ToSet
<1>9. A!ToSet(all) \subseteq A!ToSet(kept) \cup {n}
  <2> SUFFICES ASSUME NEW i \in 1..(Len(kept) + 1)
               PROVE  all[i] \in A!ToSet(kept) \cup {n}
    BY DEF AlertsTypeOK, A!ToSet, all
  <2>1. CASE i = Len(kept) + 1
    BY <2>1 DEF AlertsTypeOK, all
  <2>2. CASE i # Len(kept) + 1
    BY <2>2 DEF AlertsTypeOK, A!ToSet, all
  <2> QED  BY <2>1, <2>2
<1>10. AlertsTypeOK'
  BY <1>1, <1>2, <1>3, <1>6, <1>8 DEF AlertsTypeOK, PollStates, A!Events
<1>11. NewIsFresh'
  BY <1>1, <1>3 DEF NewIsFresh
<1>12. PollsAreSound'
  <2>1. \A p \in Polls : polls[p].late \subseteq Numbers
    BY DEF AlertsTypeOK, PollStates
  <2> QED  BY <2>1, <1>1, <1>4 DEF PollsAreSound
<1>13. EffectIsSound'
  BY <1>1, <1>6 DEF EffectIsSound
<1>14. A!NoneIsMissed'
  BY <1>1, <1>5, <1>8, <1>9 DEF A!NoneIsMissed
<1> QED  BY <1>10, <1>11, <1>12, <1>13, <1>14

\* What is tried is what happened.
LEMMA RecentAreNumbers ==
  ASSUME AlertsTypeOK
  PROVE  A!Recent \subseteq Numbers
BY KeptAreNumbers DEF A!Recent

\* The backend answers: the events that leave its window with this try are in
\* the answer.
LEMMA ServeStep ==
  ASSUME AlertsInv, NEW p \in Polls, A!Serve(p)
  PROVE  AlertsInv'
<1> USE DEF AlertsInv
<1>1. /\ polls[p].at = "sent"
      /\ tries' = [e \in A!Events |-> IF e \in A!Recent THEN tries[e] + 1 ELSE tries[e]]
      /\ UNCHANGED <<happened, kept, processed, closure, render, alerts>>
  BY DEF A!Serve
<1>2. /\ polls' = [polls EXCEPT ![p] = polls'[p]]
      /\ polls'[p] = [polls[p] EXCEPT !.at = "served", !.events = A!Recent]
      /\ polls'[p].at = "served" /\ polls'[p].events = A!Recent
      /\ polls'[p].late = polls[p].late /\ polls'[p].seen = polls[p].seen
      /\ \A q \in Polls \ {p} : polls'[q] = polls[q]
  BY DEF A!Serve, AlertsTypeOK, PollStates
<1>3. /\ Numbers' = Numbers /\ Shown' = Shown /\ PollStates' = PollStates
      /\ \A e \in Numbers : A!Id(e)' = A!Id(e)
  BY <1>1 DEF Numbers, Shown, PollStates, A!Id
<1>4. AlertsTypeOK'
  <2>1. tries' \in [A!Events -> Nat]
    BY <1>1 DEF AlertsTypeOK
  <2>2. polls'[p] \in PollStates
    BY <1>2, RecentAreNumbers DEF AlertsTypeOK, PollStates
  <2>3. polls' \in [Polls -> PollStates]
    BY <2>2, <1>2 DEF AlertsTypeOK
  <2> QED  BY <2>1, <2>3, <1>1, <1>3 DEF AlertsTypeOK, A!Events
<1>5. NewIsFresh'
  BY <1>1, <1>3, RecentAreNumbers DEF NewIsFresh, A!Events
<1>6. PollsAreSound'
  <2>1. \A q \in Polls : polls'[q].late = polls[q].late /\ polls'[q].seen = polls[q].seen
    BY <1>2
  <2>2. \A q \in Polls : polls'[q].at # "served" => polls'[q].events = {}
    BY <1>2 DEF PollsAreSound
  <2> QED  BY <2>1, <2>2, <1>1 DEF PollsAreSound, A!Id
<1>7. EffectIsSound'
  BY <1>1, <1>3 DEF EffectIsSound
<1>8. A!NoneIsMissed'
  <2> SUFFICES ASSUME NEW e \in A!ToSet(kept), tries'[e] = 3
               PROVE  alerts[e] > 0 \/ \E q \in Polls : e \in polls'[q].events
    BY <1>1 DEF A!NoneIsMissed
  <2>1. e \in A!Events
    BY KeptAreNumbers, NumbersAreEvents
  <2>2. CASE e \in A!Recent
    BY <2>2, <1>2
  <2>3. CASE e \notin A!Recent
    <3>1. tries[e] = 3
      BY <2>1, <2>3, <1>1
    <3>2. \A q \in Polls : polls[q].events \subseteq polls'[q].events
      BY <1>1, <1>2 DEF PollsAreSound
    <3> QED  BY <3>1, <3>2 DEF A!NoneIsMissed
  <2> QED  BY <2>2, <2>3
<1> QED  BY <1>4, <1>5, <1>6, <1>7, <1>8

\* A request fails while every recent event has tries left.
LEMMA FailsStep ==
  ASSUME AlertsInv, NEW p \in Polls, A!Fails(p)
  PROVE  AlertsInv'
<1> USE DEF AlertsInv
<1>1. /\ polls[p].at = "sent" /\ \A e \in A!Recent : tries[e] + 1 < 3
      /\ tries' = [e \in A!Events |-> IF e \in A!Recent THEN tries[e] + 1 ELSE tries[e]]
      /\ UNCHANGED <<happened, kept, processed, closure, render, alerts>>
  BY DEF A!Fails
<1>2. /\ polls' = [polls EXCEPT ![p] = A!Free] /\ polls'[p] = A!Free
      /\ \A q \in Polls \ {p} : polls'[q] = polls[q]
  BY DEF A!Fails, AlertsTypeOK
<1>3. /\ Numbers' = Numbers /\ Shown' = Shown /\ PollStates' = PollStates
      /\ \A e \in Numbers : A!Id(e)' = A!Id(e)
  BY <1>1 DEF Numbers, Shown, PollStates, A!Id
<1>4. AlertsTypeOK'
  <2>1. tries' \in [A!Events -> Nat]
    BY <1>1 DEF AlertsTypeOK
  <2>2. polls' \in [Polls -> PollStates]
    BY <1>2 DEF AlertsTypeOK, PollStates, A!Free
  <2> QED  BY <2>1, <2>2, <1>1, <1>3 DEF AlertsTypeOK, A!Events
<1>5. NewIsFresh'
  BY <1>1, <1>3, RecentAreNumbers DEF NewIsFresh, A!Events
<1>6. PollsAreSound'
  <2> SUFFICES ASSUME NEW q \in Polls
               PROVE  /\ polls'[q].at # "served" => polls'[q].events = {}
                      /\ \A e \in polls'[q].late : A!Id(e)' \in polls'[q].seen
    BY DEF PollsAreSound
  <2>1. CASE q = p
    BY <2>1, <1>2 DEF A!Free
  <2>2. CASE q # p
    BY <2>2, <1>1, <1>2 DEF PollsAreSound, A!Id
  <2> QED  BY <2>1, <2>2
<1>7. EffectIsSound'
  BY <1>1, <1>3 DEF EffectIsSound
<1>8. A!NoneIsMissed'
  <2> SUFFICES ASSUME NEW e \in A!ToSet(kept), tries'[e] = 3
               PROVE  alerts[e] > 0 \/ \E q \in Polls : e \in polls'[q].events
    BY <1>1 DEF A!NoneIsMissed
  <2>1. e \in A!Events
    BY KeptAreNumbers, NumbersAreEvents
  <2>2. tries[e] = 3
    BY <2>1, <1>1
  <2>3. \A q \in Polls : polls[q].events \subseteq polls'[q].events
    BY <1>1, <1>2 DEF PollsAreSound
  <2> QED  BY <2>2, <2>3 DEF A!NoneIsMissed
<1> QED  BY <1>4, <1>5, <1>6, <1>7, <1>8

\* The interval and the effect run anew ask with all that was shown.
LEMMA AskStep ==
  ASSUME AlertsInv, NEW p \in Polls, A!Tick(p) \/ A!Rerun(p)
  PROVE  AlertsInv'
<1>1. polls[p] = A!Free /\ polls' = A!Asking(p, Shown)
  BY DEF A!Tick, A!Rerun, A!Closed, AlertsInv, EffectIsSound
<1>2. /\ UNCHANGED <<happened, kept, tries, processed, alerts>>
      /\ render' = FALSE /\ closure' = Shown
  BY DEF A!Tick, A!Rerun, A!Closed, A!backend, AlertsInv, EffectIsSound, AlertsTypeOK
<1>3. /\ Shown' = Shown /\ Numbers' = Numbers
      /\ polls' \in [Polls -> PollStates'] /\ PollsAreSound' /\ A!NoneIsMissed'
  BY <1>1, <1>2, AskingIsSound
<1>4. AlertsTypeOK'
  BY <1>2, <1>3 DEF AlertsInv, AlertsTypeOK, A!Events
<1>5. NewIsFresh' /\ EffectIsSound'
  BY <1>2, <1>3 DEF AlertsInv, NewIsFresh, EffectIsSound
<1> QED  BY <1>3, <1>4, <1>5 DEF AlertsInv

\* An answer comes: what is new to its closure is shown, the rest was shown.
LEMMA ArriveStep ==
  ASSUME AlertsInv, NEW p \in Polls, A!Arrive(p)
  PROVE  AlertsInv'
<1> USE DEF AlertsInv
<1>1. /\ alerts' = [e \in A!Events |-> IF e \in A!Alerted(p) THEN alerts[e] + 1 ELSE alerts[e]]
      /\ processed' = processed \cup {A!Id(e) : e \in A!Alerted(p)}
      /\ render' = (render \/ A!Alerted(p) # {})
      /\ UNCHANGED <<happened, kept, tries, closure>>
  BY DEF A!Arrive, A!backend
<1>2. /\ polls' = [polls EXCEPT ![p] = A!Free] /\ polls'[p] = A!Free
      /\ \A q \in Polls \ {p} : polls'[q] = polls[q]
  BY DEF A!Arrive, AlertsTypeOK
<1>3. A!Alerted(p) \subseteq Numbers /\ Numbers \subseteq A!Events
  BY NumbersAreEvents DEF A!Alerted, AlertsTypeOK, PollStates
<1>4. Numbers' = Numbers /\ \A e \in Numbers : A!Id(e)' = A!Id(e)
  BY <1>1 DEF Numbers, A!Id
<1>5. \A e \in Numbers : alerts'[e] > 0 <=> alerts[e] > 0 \/ e \in A!Alerted(p)
  BY <1>1, <1>3 DEF AlertsTypeOK
<1>6. Shown' = Shown \cup {A!Id(e) : e \in A!Alerted(p)}
  <2>1. {d \in Numbers : alerts'[d] > 0}
          = {d \in Numbers : alerts[d] > 0} \cup A!Alerted(p)
    BY <1>3, <1>5
  <2>2. Shown' = {A!Id(e) : e \in {d \in Numbers : alerts'[d] > 0}}
    BY <1>1, <1>4 DEF Shown, A!Id
  <2> QED  BY <2>1, <2>2 DEF Shown
<1>7. AlertsTypeOK'
  <2>1. alerts' \in [A!Events -> Nat]
    BY <1>1 DEF AlertsTypeOK
  <2>2. PollStates \subseteq PollStates'
    BY <1>4, <1>6 DEF PollStates
  <2>3. polls' \in [Polls -> PollStates]
    BY <1>2 DEF AlertsTypeOK, PollStates, A!Free
  <2> QED  BY <2>1, <2>2, <2>3, <1>1, <1>4 DEF AlertsTypeOK, A!Events
<1>8. NewIsFresh'
  BY <1>1, <1>3, <1>4 DEF NewIsFresh, A!Events
<1>9. PollsAreSound'
  <2> SUFFICES ASSUME NEW q \in Polls
               PROVE  /\ polls'[q].at # "served" => polls'[q].events = {}
                      /\ \A e \in polls'[q].late : A!Id(e)' \in polls'[q].seen
    BY DEF PollsAreSound
  <2>1. CASE q = p
    BY <2>1, <1>2 DEF A!Free
  <2>2. CASE q # p
    BY <2>2, <1>1, <1>2 DEF PollsAreSound, A!Id
  <2> QED  BY <2>1, <2>2
<1>10. EffectIsSound'
  <2>1. processed' = Shown' /\ closure' \subseteq Shown'
    BY <1>1, <1>6 DEF EffectIsSound
  <2>2. ASSUME ~render'  PROVE  closure' = Shown'
    <3>1. ~render /\ A!Alerted(p) = {}
      BY <2>2, <1>1
    <3> QED  BY <3>1, <1>1, <1>6 DEF EffectIsSound
  <2> QED  BY <2>1, <2>2 DEF EffectIsSound
<1>11. A!NoneIsMissed'
  <2> SUFFICES ASSUME NEW e \in A!ToSet(kept), tries[e] = 3
               PROVE  alerts'[e] > 0 \/ \E q \in Polls : e \in polls'[q].events
    BY <1>1 DEF A!NoneIsMissed
  <2>1. e \in Numbers
    BY KeptAreNumbers
  <2>2. CASE alerts[e] > 0
    BY <2>1, <2>2, <1>5
  <2>3. CASE e \in polls[p].events
    <3>1. e \in A!Alerted(p) \/ A!Id(e) \in Shown
      BY <2>3 DEF A!Alerted, AlertsTypeOK, PollStates
    <3> QED  BY <3>1, <2>1, <1>5, IdsDiffer
  <2>4. ASSUME NEW q \in Polls \ {p}, e \in polls[q].events
        PROVE  e \in polls'[q].events
    BY <2>4, <1>2
  <2> QED  BY <2>2, <2>3, <2>4 DEF A!NoneIsMissed
<1> QED  BY <1>7, <1>8, <1>9, <1>10, <1>11

LEMMA AlertsRest ==
  ASSUME AlertsInv,
         UNCHANGED <<happened, kept, tries, processed, closure, render, polls, alerts>>
  PROVE  AlertsInv'
BY DEF AlertsInv, AlertsTypeOK, NewIsFresh, PollsAreSound, EffectIsSound, A!NoneIsMissed,
       Shown, Numbers, PollStates, A!Events, A!Id

LEMMA AlertsInvInvariant == MCSpec => []AlertsInv
<1>1. MCInit => AlertsInv
  <2> SUFFICES ASSUME A!Init  PROVE AlertsInv
    BY DEF MCInit
  <2>1. Numbers = {} /\ Shown = {}
    BY DEF A!Init, Numbers, Shown
  <2>2. AlertsTypeOK
    <3> USE DEF A!Init
    <3>1. happened \in Seq(Types) /\ kept \in Seq(Numbers)
      BY EmptySeq
    <3>5. Len(happened) <= MaxEvents
      BY BoundsAssumption
    <3>6. render \in BOOLEAN
      OBVIOUS
    <3>2. tries \in [A!Events -> Nat] /\ alerts \in [A!Events -> Nat]
      OBVIOUS
    <3>3. A!Free \in PollStates
      BY DEF PollStates, A!Free
    <3>4. polls \in [Polls -> PollStates]
      BY <3>3
    <3> QED  BY <3>1, <3>2, <3>4, <3>5, <3>6 DEF AlertsTypeOK
  <2>3. NewIsFresh /\ PollsAreSound
    BY DEF A!Init, NewIsFresh, PollsAreSound, A!Free, A!Events
  <2>4. EffectIsSound /\ A!NoneIsMissed
    BY <2>1 DEF A!Init, EffectIsSound, A!NoneIsMissed, A!ToSet
  <2> QED  BY <2>2, <2>3, <2>4 DEF AlertsInv
<1>2. AlertsInv /\ [MCNext]_<<mode, vars, displaysVars, alertsVars>> => AlertsInv'
  <2> SUFFICES ASSUME AlertsInv, [MCNext]_<<mode, vars, displaysVars, alertsVars>>
               PROVE  AlertsInv'
    OBVIOUS
  <2>1. CASE UNCHANGED alertsVars
    BY <2>1, AlertsRest DEF alertsVars
  <2>2. CASE A!Next
    <3>1. ASSUME NEW type \in Types, A!Happens(type)  PROVE AlertsInv'
      BY <3>1, HappensStep
    <3>2. ASSUME NEW p \in Polls, A!Serve(p)  PROVE AlertsInv'
      BY <3>2, ServeStep
    <3>3. ASSUME NEW p \in Polls, A!Fails(p)  PROVE AlertsInv'
      BY <3>3, FailsStep
    <3>4. ASSUME NEW p \in Polls, A!Tick(p) \/ A!Rerun(p)  PROVE AlertsInv'
      BY <3>4, AskStep
    <3>5. ASSUME NEW p \in Polls, A!Arrive(p)  PROVE AlertsInv'
      BY <3>5, ArriveStep
    <3>6. CASE A!Toast
      BY <3>6, AlertsRest DEF A!Toast, A!backend, A!effect
    <3>7. ASSUME NEW i, A!Dismiss(i) \/ A!Removed(i)  PROVE AlertsInv'
      BY <3>7, AlertsRest DEF A!Dismiss, A!Removed, A!backend, A!effect
    <3> QED  BY <2>2, <3>1, <3>2, <3>3, <3>4, <3>5, <3>6, <3>7 DEF A!Next
  <2> QED  BY <2>1, <2>2 DEF MCNext, alertsVars
<1> QED  BY <1>1, <1>2, PTL DEF MCSpec

-----------------------------------------------------------------------------
(* Toasts: a timer runs only for a toast that was dismissed.               *)

ToastsInv ==
  /\ count \in Nat
  /\ timers \subseteq dismissed /\ dismissed \subseteq 1..count
  /\ A!NewestStays

LEMMA ToastsInvInvariant == MCSpec => []ToastsInv
<1>1. MCInit => ToastsInv
  BY DEF MCInit, A!Init, ToastsInv, A!NewestStays
<1>2. ToastsInv /\ [MCNext]_<<mode, vars, displaysVars, alertsVars>> => ToastsInv'
  <2> SUFFICES ASSUME ToastsInv, [MCNext]_<<mode, vars, displaysVars, alertsVars>>
               PROVE  ToastsInv'
    OBVIOUS
  <2> USE DEF ToastsInv, A!NewestStays
  <2>1. CASE UNCHANGED <<toasts, timers, count, dismissed>>
    BY <2>1
  <2>2. CASE A!Toast
    BY <2>2 DEF A!Toast
  <2>3. ASSUME NEW i, A!Dismiss(i)  PROVE ToastsInv'
    <3>1. /\ count' = count /\ i \in 1..count
          /\ timers' = timers \cup {i} /\ dismissed' = dismissed \cup {i}
          /\ toasts' = {IF t.id = i THEN [t EXCEPT !.open = FALSE] ELSE t : t \in toasts}
      BY <2>3 DEF A!Dismiss
    <3>2. ASSUME count' > 0, count' \notin dismissed'
          PROVE  toasts' = {[id |-> count', open |-> TRUE]}
      <4>1. toasts = {[id |-> count, open |-> TRUE]} /\ count # i
        BY <3>1, <3>2
      <4> QED  BY <4>1, <3>1
    <3> QED  BY <3>1, <3>2
  <2>4. ASSUME NEW i, A!Removed(i)  PROVE ToastsInv'
    <3>1. /\ count' = count /\ dismissed' = dismissed /\ i \in timers
          /\ timers' = timers \ {i} /\ toasts' = {t \in toasts : t.id # i}
      BY <2>4 DEF A!Removed, A!Remaining
    <3> QED  BY <3>1
  <2> QED  BY <2>1, <2>2, <2>3, <2>4
           DEF MCNext, A!Next, alertsVars, A!Happens, A!Serve, A!Fails, A!Tick, A!Rerun,
               A!Arrive, A!toastVars, A!effect
<1> QED  BY <1>1, <1>2, PTL DEF MCSpec

-----------------------------------------------------------------------------

\* Every event is seen, unless too many others push it out of what the backend
\* keeps; only a request made before its alert shows it again, for a later one
\* carries what was shown; and the newest toast stays until it is dismissed
\* (components/security-alert-system.tsx, hooks/use-toast.ts).
THEOREM SpecAlertsAreSeen == MCSpec => AlertsAreSeen
<1>1. ASSUME AlertsInv
      PROVE  \A e \in A!Events, p \in Polls :
               A!Arrive(p) /\ e \in A!Alerted(p) => e \notin polls[p].late
  BY <1>1 DEF AlertsInv, PollsAreSound, A!Alerted
<1>2. MCSpec => []A!NoneIsMissed
  <2>1. AlertsInv => A!NoneIsMissed
    BY DEF AlertsInv
  <2> QED  BY <2>1, AlertsInvInvariant, PTL
<1>3. MCSpec => []A!NewestStays
  <2>1. ToastsInv => A!NewestStays
    BY DEF ToastsInv
  <2> QED  BY <2>1, ToastsInvInvariant, PTL
<1>4. MCSpec => A!RepeatsOnlyOverlap
  <2>1. AlertsInv /\ [MCNext]_<<mode, vars, displaysVars, alertsVars>>
          => [\A e \in A!Events, p \in Polls :
                A!Arrive(p) /\ e \in A!Alerted(p) => e \notin polls[p].late]_(A!vars)
    BY <1>1
  <2> QED  BY <2>1, AlertsInvInvariant, PTL DEF MCSpec, A!RepeatsOnlyOverlap
<1> QED  BY <1>2, <1>3, <1>4, PTL DEF AlertsAreSeen, A!AlertsAreSeen

===============================================================================
