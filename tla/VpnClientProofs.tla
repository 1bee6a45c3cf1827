-------------------------- MODULE VpnClientProofs --------------------------
(***************************************************************************)
(* What holds of VpnClient for every set of slots, ports and settings.     *)
(***************************************************************************)
EXTENDS VpnClient, TLAPS

\* The fields of the three status objects that handlers create.
LEMMA ShapeOfStatus ==
  /\ DisconnectedStatus.connected = FALSE
  /\ DisconnectedStatus.connecting = FALSE
  /\ DisconnectedStatus.killSwitchActive = FALSE
  /\ ConnectingStatus.connected = FALSE
  /\ ConnectingStatus.connecting = TRUE
  /\ ConnectingStatus.killSwitchActive = FALSE
  /\ Dropped.connected = FALSE
  /\ Dropped.connecting = FALSE
  /\ Dropped.killSwitchActive = KillSwitchOn
  /\ DisconnectedStatus.reconnectAttempts = 0
  /\ ConnectingStatus.reconnectAttempts = 0
  /\ Dropped.reconnectAttempts = 0
BY DEF DisconnectedStatus, ConnectingStatus, Dropped

\* The status objects that handlers create are status objects.
LEMMA StatusesTyped ==
  DisconnectedStatus \in StatusType /\ ConnectingStatus \in StatusType /\ Dropped \in StatusType
BY DEF DisconnectedStatus, ConnectingStatus, Dropped, StatusType, KillSwitchOn

\* stopTunMode keeps the process table a process table.
LEMMA KillTyped ==
  ASSUME TypeOK, NEW p PROVE Kill(p) \in [Slots -> HelperState]
BY DEF TypeOK, Kill, HelperState

\* disconnect, called with a well-typed status and process table.
LEMMA DisconnectTyped ==
  ASSUME TypeOK, NEW m \in BOOLEAN, NEW k \in BOOLEAN, NEW st \in StatusType,
         NEW h \in [Slots -> HelperState],
         Disconnect(m, k, h, st)
  PROVE  /\ status' \in StatusType /\ activeConfig' \in Config \cup {NoConfig}
         /\ httpServer' \in Ports \cup {NoPort} /\ socksServer' \in Ports \cup {NoPort}
         /\ tunProcess' \in Slots \cup {NoHelper}
         /\ helper' \in [Slots -> HelperState]
         /\ stoppingTun' \in BOOLEAN
         /\ sysProxy' \in {Direct, Blackhole} \cup Ports /\ monitor' \in BOOLEAN
BY DEF Disconnect, TypeOK

\* The catch block of connectToVPN leaves every variable it sets in its type.
LEMMA AbortTyped ==
  ASSUME TypeOK, NEW p, Abort(p)
  PROVE  /\ status' \in StatusType /\ activeConfig' \in Config \cup {NoConfig}
         /\ httpServer' \in Ports \cup {NoPort} /\ socksServer' \in Ports \cup {NoPort}
         /\ tunProcess' \in Slots \cup {NoHelper}
         /\ helper' \in [Slots -> HelperState]
         /\ stoppingTun' \in BOOLEAN
         /\ sysProxy' \in {Direct, Blackhole} \cup Ports /\ monitor' \in BOOLEAN
BY DisconnectTyped, KillTyped, StatusesTyped DEF Abort

\* Listeners are bound to ports that a configuration may name.
LEMMA BoundTyped ==
  ASSUME TypeOK PROVE BoundHttp \subseteq Ports /\ BoundSocks \subseteq Ports
BY DEF TypeOK, BoundHttp, BoundSocks, OwnHttp, OwnSocks

\* The first turn of connectToVPN leaves every variable it sets in its type.
LEMMA BeginTyped ==
  ASSUME TypeOK, NEW s \in Slots, NEW cfg \in Config, Begin(s, cfg), checks' \in Nat, env' = env
  PROVE  TypeOK'
<1>1. calls' \in [Slots -> Call]
  BY DEF Begin, TypeOK, Call
<1>2. CASE status.connected \/ status.connecting
  <2>1. Disconnect(TRUE, FALSE, Kill(tunProcess), ConnectingStatus)
    BY <1>2 DEF Begin
  <2> QED BY <1>1, <2>1, DisconnectTyped, KillTyped, StatusesTyped DEF Begin, TypeOK, leaked
<1>3. CASE ~(status.connected \/ status.connecting)
  BY <1>1, <1>3, StatusesTyped DEF Begin, TypeOK, tunVars, leaked
<1> QED BY <1>2, <1>3

\* So do the statements after the route is in place.
LEMMA FinishTyped ==
  ASSUME TypeOK, NEW cfg \in Config, NEW ip \in {"proxy", "tun"}, Finish(cfg, ip)
  PROVE  status' \in StatusType /\ lastConnection' \in Config \cup {NoConfig} /\ monitor' \in BOOLEAN
<1>1. settings \in SettingsType
  BY SettingsAssumption DEF TypeOK
<1>2. settings.autoReconnect \in BOOLEAN
  BY <1>1 DEF SettingsType
<1> QED BY <1>2 DEF Finish, TypeOK, StatusType

\* A call in flight has a configuration.
LEMMA CallConfig ==
  ASSUME TypeOK, NEW s \in Slots, calls[s].pc \in {"probe", "starting"}
  PROVE  calls[s].config \in Config
BY DEF TypeOK, Call

\* A call that ends leaves a well-typed table of calls.
LEMMA CallEndTyped ==
  ASSUME TypeOK, NEW s \in Slots, calls' = [calls EXCEPT ![s] = NoCall]
  PROVE  calls' \in [Slots -> Call]
BY DEF TypeOK, Call, NoCall

\* The table of calls of a fresh process is well-typed.
LEMMA NoCallsTyped == [s \in Slots |-> NoCall] \in [Slots -> Call]
<1>1. NoCall \in Call
  BY DEF Call, NoCall
<1> QED BY <1>1

\* Every variable keeps its type.
THEOREM TypeCorrect == Spec => []TypeOK
<1>1. Init => TypeOK
  <2>1. Init => checks \in Nat
    BY DEF Init
  <2> QED BY <2>1, StatusesTyped, NoCallsTyped DEF Init, TypeOK, HelperState
<1>2. TypeOK /\ [Next]_vars => TypeOK'
  <2> SUFFICES ASSUME TypeOK, [Next]_vars PROVE TypeOK'
    OBVIOUS
  <2>0. env' = env
    BY DEF Next, vars
  <2> USE <2>0
  <2>1. ASSUME NEW s \in Slots, NEW cfg \in Configs, Connect(s, cfg) PROVE TypeOK'
    BY <2>1, BeginTyped, ConfigsAssumption DEF Connect, TypeOK
  <2>2. ASSUME NEW s \in Slots, ConnectLast(s) PROVE TypeOK'
    <3>1. lastConnection \in Config
      BY <2>2 DEF ConnectLast, TypeOK
    <3> QED BY <2>2, <3>1, BeginTyped DEF ConnectLast, Connect, TypeOK
  <2>3. CASE ConnectRejected
    BY <2>3, AbortTyped DEF ConnectRejected, TypeOK, leaked
  <2>4. ASSUME NEW s \in Slots, ProbeFails(s) PROVE TypeOK'
    BY <2>4, AbortTyped, CallEndTyped DEF ProbeFails, TypeOK, leaked
  <2>5. ASSUME NEW s \in Slots, ProxyRouteUp(s) PROVE TypeOK'
    <3>1. calls[s].config \in Config
      BY <2>5, CallConfig DEF ProxyRouteUp
    <3>2. Finish(calls[s].config, "proxy") /\ calls[s].config.localPort \in Ports
      BY <2>5, <3>1 DEF ProxyRouteUp, Config
    <3> QED BY <2>5, <3>1, <3>2, FinishTyped, CallEndTyped, BoundTyped
            DEF ProxyRouteUp, ListenersStart, TypeOK, tunVars
  <2>6. ASSUME NEW s \in Slots, ListenersUnavailable(s) PROVE TypeOK'
    BY <2>6, AbortTyped, CallEndTyped, BoundTyped
       DEF ListenersUnavailable, ListenersFail, TypeOK, leaked
  <2>7. ASSUME NEW s \in Slots, SpawnHelper(s) PROVE TypeOK'
    <3>1. calls[s].config \in Config
      BY <2>7, CallConfig DEF SpawnHelper
    <3>2. calls[s].config.localPort \in Ports
      BY <3>1 DEF Config
    <3>3. calls' \in [Slots -> Call] /\ helper' \in [Slots -> HelperState]
      BY <2>7, <3>1 DEF SpawnHelper, TypeOK, Call, HelperState
    <3>4. /\ httpServer' \in Ports \cup {NoPort} /\ socksServer' \in Ports \cup {NoPort}
          /\ leakedHttp' \subseteq Ports /\ leakedSocks' \subseteq Ports
      BY <2>7, <3>2, BoundTyped DEF SpawnHelper, ListenersStart, TypeOK, serverVars, leaked
    <3> QED BY <2>7, <3>1, <3>3, <3>4 DEF SpawnHelper, TypeOK
  <2>8. ASSUME NEW s \in Slots, SpawnFails(s) PROVE TypeOK'
    BY <2>8, AbortTyped, CallEndTyped, BoundTyped DEF SpawnFails, ListenersFail, TypeOK, leaked
  <2>9. ASSUME NEW s \in Slots, TunRouteUp(s) PROVE TypeOK'
    <3>1. calls[s].config \in Config
      BY <2>9, CallConfig DEF TunRouteUp
    <3> QED BY <2>9, <3>1, FinishTyped, CallEndTyped
            DEF TunRouteUp, TypeOK, serverVars, leaked, tunVars
  <2>10. ASSUME NEW s \in Slots, HelperExit(s) PROVE TypeOK'
    <3> DEFINE h == [helper EXCEPT ![s] = "none"]
    <3>1. h \in [Slots -> HelperState]
      BY DEF TypeOK, HelperState
    <3>2. CASE ~stoppingTun /\ status.connected
      <4>1. Disconnect(FALSE, TRUE, h, Dropped)
        BY <2>10, <3>2 DEF HelperExit
      <4> QED BY <2>10, <4>1, <3>1, DisconnectTyped, StatusesTyped DEF HelperExit, TypeOK, leaked
    <3>3. CASE ~(~stoppingTun /\ status.connected)
      <4>1. status' \in StatusType
        BY <2>10, <3>3 DEF HelperExit, TypeOK, StatusType
      <4> QED BY <2>10, <4>1, <3>1, <3>3 DEF HelperExit, TypeOK, leaked
    <3> QED BY <3>2, <3>3
  <2>11. CASE CheckStart
    BY <2>11 DEF CheckStart, TypeOK, serverVars, leaked, tunVars
  <2>12. CASE CheckAnswers
    BY <2>12 DEF CheckAnswers, TypeOK, serverVars, leaked, tunVars
  <2>13. CASE CheckFailsReconnect
    <3>1. checks' \in Nat
      BY <2>13 DEF CheckFailsReconnect, TypeOK
    <3>2. CASE activeConfig = NoConfig
      BY <2>13, <3>1, <3>2, AbortTyped DEF CheckFailsReconnect, TypeOK, leaked
    <3>3. CASE activeConfig # NoConfig
      BY <2>13, <3>1, <3>3, BeginTyped DEF CheckFailsReconnect, TypeOK, FreeSlots
    <3> QED BY <3>2, <3>3
  <2>14. CASE CheckFailsGiveUp
    <3>1. checks' \in Nat
      BY <2>14 DEF CheckFailsGiveUp, TypeOK
    <3> QED BY <2>14, <3>1, DisconnectTyped, KillTyped, StatusesTyped DEF CheckFailsGiveUp, TypeOK, leaked
  <2>15. CASE UserDisconnect
    BY <2>15, DisconnectTyped, KillTyped, StatusesTyped DEF UserDisconnect, TypeOK, leaked
  <2>16. ASSUME NEW new \in Settings, SaveSettings(new) PROVE TypeOK'
    BY <2>16 DEF SaveSettings, TypeOK, serverVars, leaked, tunVars
  <2>17. CASE Crash \/ Quit
    <3>1. checks' \in Nat
      BY <2>17 DEF Crash, Quit, Relaunch
    <3> QED BY <2>17, <3>1, StatusesTyped, NoCallsTyped DEF Crash, Quit, Relaunch, TypeOK, HelperState
  <2>18. ASSUME NEW s \in Slots, DetachedExit(s) PROVE TypeOK'
    BY <2>18 DEF DetachedExit, TypeOK, serverVars, leaked, HelperState
  <2>19. CASE UNCHANGED vars
    BY <2>19 DEF vars, TypeOK, serverVars, leaked, tunVars, Call
  <2> QED
    BY <2>1, <2>2, <2>3, <2>4, <2>5, <2>6, <2>7, <2>8, <2>9, <2>10, <2>11, <2>12, <2>13,
       <2>14, <2>15, <2>16, <2>17, <2>18, <2>19 DEF Next, Step, Progress
<1> QED BY <1>1, <1>2, PTL DEF Spec

-----------------------------------------------------------------------------
(* The status tells the truth                                              *)

USE DEF KillSwitchTruthful, ProxyRouteServed, ConnectingHasCall, MonitorOnlyWhileConnected

\* disconnect restores all of it, whoever calls it and for whatever reason.
LEMMA TornDown ==
  ASSUME monitor' = FALSE,
         \/ status' = DisconnectedStatus
         \/ status' = Dropped /\ (KillSwitchOn => sysProxy' = Blackhole)
  PROVE  Truthful'
BY ShapeOfStatus DEF Truthful

\* After a failed call the window shows neither a route nor an attempt.
LEMMA AbortTruthful == ASSUME NEW p, Abort(p) PROVE Truthful'
BY TornDown DEF Abort, Disconnect

\* A call that begins shows "Connecting", and is itself in flight.
LEMMA BeginTruthful ==
  ASSUME TypeOK, Truthful, NEW s \in Slots, NEW cfg, Begin(s, cfg) PROVE Truthful'
<1>1. status' = ConnectingStatus /\ InFlight(s)' /\ monitor' = FALSE
  BY DEF Begin, Disconnect, Truthful, InFlight, TypeOK
<1> QED BY <1>1, ShapeOfStatus DEF Truthful

\* The fields that the end of a successful call writes.
LEMMA FinishStatus ==
  ASSUME TypeOK, NEW cfg, NEW ip, Finish(cfg, ip)
  PROVE  /\ status'.connected = TRUE /\ status'.connecting = FALSE
         /\ status'.killSwitchActive = FALSE /\ status'.ip = ip
         /\ status'.reconnectAttempts = 0
BY DEF Finish, TypeOK, StatusType

\* Handlers that change none of the state the four conjuncts look at.
LEMMA StutterTruthful ==
  ASSUME Truthful, UNCHANGED <<status, calls, sysProxy, httpServer, leakedHttp, monitor>>
  PROVE  Truthful'
BY DEF Truthful, BoundHttp, OwnHttp, InFlight

\* Every step of the client keeps what the window shows true.
THEOREM TruthfulStep == TypeOK /\ Truthful /\ [Next]_vars => Truthful'
<1> SUFFICES ASSUME TypeOK, Truthful, [Next]_vars PROVE Truthful'
  OBVIOUS
<1>1. ASSUME NEW s \in Slots, NEW cfg, Connect(s, cfg) PROVE Truthful'
  BY <1>1, BeginTruthful DEF Connect
<1>2. ASSUME NEW s \in Slots, ConnectLast(s) PROVE Truthful'
  BY <1>2, <1>1 DEF ConnectLast
<1>3. CASE ConnectRejected
  BY <1>3, AbortTruthful DEF ConnectRejected
<1>4. ASSUME NEW s \in Slots, ProbeFails(s) PROVE Truthful'
  BY <1>4, AbortTruthful DEF ProbeFails
<1>5. ASSUME NEW s \in Slots, ProxyRouteUp(s) PROVE Truthful'
  <2>1. calls[s].config \in Config
    BY <1>5, CallConfig DEF ProxyRouteUp
  <2>2. calls[s].config.localPort \in Ports
    BY <2>1 DEF Config
  <2>3. calls[s].config.localPort # NoPort
    BY <2>2, PortsAssumption
  <2>4. sysProxy' = calls[s].config.localPort /\ httpServer' = calls[s].config.localPort
    BY <1>5 DEF ProxyRouteUp, ListenersStart
  <2>5. sysProxy' \in BoundHttp'
    BY <2>3, <2>4 DEF BoundHttp, OwnHttp
  <2> QED BY <1>5, <2>5, FinishStatus DEF ProxyRouteUp, Truthful
<1>6. ASSUME NEW s \in Slots, ListenersUnavailable(s) PROVE Truthful'
  BY <1>6, AbortTruthful DEF ListenersUnavailable
<1>7. ASSUME NEW s \in Slots, SpawnHelper(s) PROVE Truthful'
  <2>1. BoundHttp \subseteq BoundHttp'
    BY <1>7 DEF SpawnHelper, ListenersStart, serverVars, leaked, BoundHttp, OwnHttp
  <2>2. \A t \in Slots : InFlight(t) => InFlight(t)'
    BY <1>7 DEF SpawnHelper, InFlight, TypeOK
  <2> QED BY <1>7, <2>1, <2>2 DEF SpawnHelper, Truthful
<1>8. ASSUME NEW s \in Slots, SpawnFails(s) PROVE Truthful'
  <2>1. \E p : Abort(p)
    BY <1>8 DEF SpawnFails
  <2> QED BY <2>1, AbortTruthful
<1>9. ASSUME NEW s \in Slots, TunRouteUp(s) PROVE Truthful'
  <2>1. /\ status'.connected = TRUE /\ status'.connecting = FALSE
        /\ status'.killSwitchActive = FALSE /\ status'.ip = "tun"
    BY <1>9, FinishStatus DEF TunRouteUp
  <2> QED BY <2>1 DEF Truthful
<1>10. ASSUME NEW s \in Slots, HelperExit(s) PROVE Truthful'
  <2>1. CASE ~stoppingTun /\ status.connected
    BY <1>10, <2>1, TornDown DEF HelperExit, Disconnect
  <2>2. CASE ~(~stoppingTun /\ status.connected)
    <3>1. /\ status'.connected = status.connected /\ status'.connecting = status.connecting
          /\ status'.ip = status.ip /\ status'.killSwitchActive = status.killSwitchActive
      BY <1>10, <2>2 DEF HelperExit, TypeOK, StatusType
    <3> QED BY <1>10, <2>2, <3>1 DEF HelperExit, Truthful, leaked, BoundHttp, OwnHttp, InFlight
  <2> QED BY <2>1, <2>2
<1>11. CASE CheckStart \/ CheckAnswers
  BY <1>11, StutterTruthful DEF CheckStart, CheckAnswers, serverVars, leaked
<1>12. CASE CheckFailsReconnect
  BY <1>12, AbortTruthful, BeginTruthful DEF CheckFailsReconnect, FreeSlots
<1>13. CASE CheckFailsGiveUp
  BY <1>13, TornDown DEF CheckFailsGiveUp, Disconnect
<1>14. CASE UserDisconnect
  BY <1>14, TornDown DEF UserDisconnect, Disconnect
<1>15. ASSUME NEW new \in Settings, SaveSettings(new) PROVE Truthful'
  BY <1>15, StutterTruthful DEF SaveSettings, serverVars, leaked
<1>16. CASE Crash \/ Quit
  BY <1>16, TornDown DEF Crash, Quit, Relaunch
<1>17. ASSUME NEW s \in Slots, DetachedExit(s) PROVE Truthful'
  BY <1>17, StutterTruthful DEF DetachedExit, serverVars, leaked
<1>18. CASE UNCHANGED vars
  BY <1>18, StutterTruthful DEF vars, serverVars, leaked
<1> QED
  BY <1>1, <1>2, <1>3, <1>4, <1>5, <1>6, <1>7, <1>8, <1>9, <1>10, <1>11, <1>12, <1>13,
     <1>14, <1>15, <1>16, <1>17, <1>18 DEF Next, Step, Progress

\* A fresh process shows nothing.
LEMMA InitTruthful == Init => Truthful
BY ShapeOfStatus DEF Init, Truthful

\* The window tells the truth about route, blocking and attempts.
THEOREM StatusTruthful == Spec => []Truthful
BY InitTruthful, TruthfulStep, TypeCorrect, PTL DEF Spec

\* The kill-switch badge is shown only while the system proxy is the blackhole.
THEOREM KillSwitchBadge == Spec => []KillSwitchTruthful
<1>1. Truthful => KillSwitchTruthful
  BY DEF Truthful
<1> QED BY <1>1, InitTruthful, TruthfulStep, TypeCorrect, PTL DEF Spec

\* A route reported as a proxy route is one the system proxy points at.
THEOREM ProxyRoute == Spec => []ProxyRouteServed
<1>1. Truthful => ProxyRouteServed
  BY DEF Truthful
<1> QED BY <1>1, InitTruthful, TruthfulStep, TypeCorrect, PTL DEF Spec

\* "Connecting" is never shown without a call in flight that will end it.
THEOREM ConnectingIsLive == Spec => []ConnectingHasCall
<1>1. Truthful => ConnectingHasCall
  BY DEF Truthful
<1> QED BY <1>1, InitTruthful, TruthfulStep, TypeCorrect, PTL DEF Spec

\* The monitor's interval never outlives the connection it was armed for.
THEOREM MonitorLifetime == Spec => []MonitorOnlyWhileConnected
<1>1. Truthful => MonitorOnlyWhileConnected
  BY DEF Truthful
<1> QED BY <1>1, InitTruthful, TruthfulStep, TypeCorrect, PTL DEF Spec

-----------------------------------------------------------------------------
(* The retry budget                                                        *)

\* Between steps no attempt is ever counted: the only handler that counts one
\* replaces the status object in the same turn.
NothingCounted == status.reconnectAttempts = 0

\* connectToVPN creates a status object with no attempts counted.
LEMMA BeginForgets == ASSUME NEW s, NEW cfg, Begin(s, cfg) PROVE NothingCounted'
BY ShapeOfStatus DEF Begin, Disconnect, NothingCounted

\* So does its catch block.
LEMMA AbortForgets == ASSUME NEW p, Abort(p) PROVE NothingCounted'
BY ShapeOfStatus DEF Abort, Disconnect, NothingCounted

\* No step of the client leaves an attempt counted.
THEOREM NothingCountedStep == TypeOK /\ NothingCounted /\ [Next]_vars => NothingCounted'
<1> SUFFICES ASSUME TypeOK, NothingCounted, [Next]_vars PROVE NothingCounted'
  OBVIOUS
<1>1. ASSUME NEW s \in Slots, NEW cfg, Connect(s, cfg) \/ ConnectLast(s) PROVE NothingCounted'
  BY <1>1, BeginForgets DEF Connect, ConnectLast
<1>2. ASSUME NEW s \in Slots, Progress(s) PROVE NothingCounted'
  <2>1. CASE ProbeFails(s) \/ ListenersUnavailable(s) \/ SpawnFails(s)
    <3>1. \E p : Abort(p)
      BY <2>1 DEF ProbeFails, ListenersUnavailable, SpawnFails
    <3> QED BY <3>1, AbortForgets
  <2>2. CASE ProxyRouteUp(s) \/ TunRouteUp(s)
    <3>1. \E cfg, ip : Finish(cfg, ip)
      BY <2>2 DEF ProxyRouteUp, TunRouteUp
    <3> QED BY <3>1, FinishStatus DEF NothingCounted
  <2>3. CASE SpawnHelper(s)
    BY <2>3 DEF SpawnHelper, NothingCounted
  <2> QED BY <1>2, <2>1, <2>2, <2>3 DEF Progress
<1>3. CASE ConnectRejected
  BY <1>3, AbortForgets DEF ConnectRejected
<1>4. ASSUME NEW s \in Slots, HelperExit(s) PROVE NothingCounted'
  <2>1. CASE ~stoppingTun /\ status.connected
    BY <1>4, <2>1, ShapeOfStatus DEF HelperExit, Disconnect, NothingCounted
  <2>2. CASE ~(~stoppingTun /\ status.connected)
    BY <1>4, <2>2 DEF HelperExit, NothingCounted, TypeOK, StatusType
  <2> QED BY <2>1, <2>2
<1>5. CASE CheckStart \/ CheckAnswers
  BY <1>5 DEF CheckStart, CheckAnswers, NothingCounted
<1>6. CASE CheckFailsReconnect
  BY <1>6, AbortForgets, BeginForgets DEF CheckFailsReconnect
<1>7. CASE CheckFailsGiveUp \/ UserDisconnect
  BY <1>7, ShapeOfStatus DEF CheckFailsGiveUp, UserDisconnect, Disconnect, NothingCounted
<1>8. ASSUME NEW new \in Settings, SaveSettings(new) PROVE NothingCounted'
  BY <1>8 DEF SaveSettings, NothingCounted
<1>9. CASE Crash \/ Quit
  BY <1>9, ShapeOfStatus DEF Crash, Quit, Relaunch, NothingCounted
<1>10. ASSUME NEW s \in Slots, DetachedExit(s) PROVE NothingCounted'
  BY <1>10 DEF DetachedExit, NothingCounted
<1>11. CASE UNCHANGED vars
  BY <1>11 DEF vars, NothingCounted
<1> QED
  BY <1>1, <1>2, <1>3, <1>4, <1>5, <1>6, <1>7, <1>8, <1>9, <1>10, <1>11 DEF Next, Step

\* The step property, from the fact that nothing is counted.
BudgetUntouched ==
  (checks' < checks /\ sysProxy # Blackhole /\ sysProxy' = Blackhole)
    => ~settings.autoReconnect \/ settings.maxReconnectAttempts = 0

\* The number of probes in flight is a number: it is not less than itself.
LEMMA ChecksOnly ==
  ASSUME TypeOK, checks' = checks, checks' < checks PROVE FALSE
BY DEF TypeOK

\* No step of the client engages the kill switch against the retry settings.
LEMMA BudgetStep ==
  ASSUME TypeOK, NothingCounted, [Next]_vars PROVE BudgetUntouched
<1> SUFFICES ASSUME checks' < checks, sysProxy # Blackhole, sysProxy' = Blackhole
             PROVE  ~settings.autoReconnect \/ settings.maxReconnectAttempts = 0
  BY DEF BudgetUntouched
<1>1. Direct # Blackhole
  BY DEF Direct, Blackhole
<1>2. CheckFailsGiveUp => ~settings.autoReconnect \/ settings.maxReconnectAttempts = 0
  <2>1. settings \in SettingsType
    BY SettingsAssumption DEF TypeOK
  <2>2. settings.maxReconnectAttempts \in 0..10
    BY <2>1 DEF SettingsType
  <2> QED BY <2>2 DEF CheckFailsGiveUp, RetriesLeft, NothingCounted
<1>3. CheckFailsReconnect => FALSE
  BY <1>1 DEF CheckFailsReconnect, Abort, Begin, Disconnect
<1>4. CASE UNCHANGED <<sysProxy>>
  BY <1>4
<1>5. CASE sysProxy' = Direct
  BY <1>1, <1>5
<1>6. CASE UNCHANGED checks
  BY <1>6, ChecksOnly
<1>7. ASSUME NEW s \in Slots, Progress(s) PROVE UNCHANGED checks
  BY <1>7 DEF Progress, ProbeFails, ProxyRouteUp, ListenersUnavailable, SpawnHelper, SpawnFails, TunRouteUp
<1>8. ASSUME NEW s \in Slots, NEW cfg, Connect(s, cfg) \/ ConnectLast(s) PROVE UNCHANGED checks
  BY <1>8 DEF Connect, ConnectLast
<1>9. ASSUME NEW s \in Slots, HelperExit(s) \/ DetachedExit(s) PROVE UNCHANGED checks
  BY <1>9 DEF HelperExit, DetachedExit
<1>10. ConnectRejected \/ UserDisconnect => UNCHANGED checks
  BY DEF ConnectRejected, UserDisconnect
<1>11. ASSUME NEW new \in Settings, SaveSettings(new) PROVE UNCHANGED checks
  BY <1>11 DEF SaveSettings
<1>12. CheckStart \/ CheckAnswers \/ Crash => UNCHANGED sysProxy
  BY DEF CheckStart, CheckAnswers, Crash
<1>13. Quit => sysProxy' = Direct
  BY DEF Quit
<1> QED
  BY <1>2, <1>3, <1>4, <1>5, <1>6, <1>7, <1>8, <1>9, <1>10, <1>11, <1>12, <1>13 DEF Next, Step, vars

\* While automatic reconnection is on, a failed probe never engages the kill
\* switch: the attempts it would have to exhaust are forgotten as counted.
THEOREM RetriesPreempt == Spec => RetriesPreemptKillSwitch
<1>1. Init => NothingCounted
  BY ShapeOfStatus DEF Init, NothingCounted
<1>2. TypeOK /\ NothingCounted /\ [Next]_vars => [BudgetUntouched]_vars
  BY BudgetStep
<1> QED
  BY <1>1, <1>2, NothingCountedStep, TypeCorrect, PTL DEF Spec, RetriesPreemptKillSwitch, BudgetUntouched

-----------------------------------------------------------------------------
(* Listeners, when connectToVPN calls do not overlap                       *)

Probing(s)  == calls[s].pc = "probe"
Starting(s) == calls[s].pc = "starting"

\* One call at a time; a listener has a variable, and a connection or a
\* helper being started to serve; and while a call probes there is neither.
Solo ==
  /\ \A s, t \in Slots : InFlight(s) /\ InFlight(t) => s = t
  /\ (httpServer # NoPort \/ socksServer # NoPort)
       => status.connected \/ \E s \in Slots : Starting(s)
  /\ (\E s \in Slots : Probing(s)) => ~status.connected
  /\ NoneLeaked

\* Every handler that ends in disconnect and starts no call restores it.
LEMMA SoloAfterDisconnect ==
  ASSUME TypeOK, Solo, status'.connected = FALSE, httpServer' = NoPort, socksServer' = NoPort,
         leakedHttp' = {}, leakedSocks' = {},
         calls' = calls \/ \E s \in Slots : calls' = [calls EXCEPT ![s] = NoCall]
  PROVE  Solo'
<1>1. \A t \in Slots : InFlight(t)' => InFlight(t)
  BY DEF InFlight, TypeOK, NoCall
<1> QED BY <1>1 DEF Solo, NoneLeaked

\* A call that probes is alone, and no listener is bound.
LEMMA ProbeIsAlone ==
  ASSUME TypeOK, Solo, NEW s \in Slots, Probing(s)
  PROVE  BoundHttp = {} /\ BoundSocks = {} /\ ~status.connected
<1>1. \A t \in Slots : ~Starting(t)
  BY DEF Solo, Probing, Starting, InFlight
<1>2. httpServer = NoPort /\ socksServer = NoPort
  BY <1>1 DEF Solo
<1> QED BY <1>2 DEF Solo, NoneLeaked, BoundHttp, BoundSocks, OwnHttp, OwnSocks

\* The catch block of connectToVPN restores Solo.
LEMMA AbortSolo ==
  ASSUME TypeOK, Solo, NEW p, Abort(p), leakedHttp' = {}, leakedSocks' = {},
         calls' = calls \/ \E s \in Slots : calls' = [calls EXCEPT ![s] = NoCall]
  PROVE  Solo'
BY SoloAfterDisconnect, ShapeOfStatus DEF Abort, Disconnect

\* A call that begins while no other is in flight finds and leaves no listener.
LEMMA BeginSolo ==
  ASSUME TypeOK, Solo, NEW s \in Slots, NEW cfg, \A t \in Slots : ~InFlight(t), Begin(s, cfg)
  PROVE  Solo'
<1>1. \A t \in Slots : InFlight(t)' => t = s
  BY DEF Begin, InFlight, TypeOK
<1>2. status'.connected = FALSE
  BY ShapeOfStatus DEF Begin, Disconnect
<1>3. httpServer' = NoPort /\ socksServer' = NoPort
  <2>1. CASE status.connected \/ status.connecting
    BY <2>1 DEF Begin, Disconnect
  <2>2. CASE ~(status.connected \/ status.connecting)
    BY <2>2 DEF Begin, Solo, Starting, InFlight
  <2> QED BY <2>1, <2>2
<1> QED BY <1>1, <1>2, <1>3 DEF Begin, Solo, NoneLeaked, leaked

\* Handlers that change neither calls nor listeners keep Solo.
LEMMA SoloStutter ==
  ASSUME Solo, status'.connected = status.connected,
         UNCHANGED <<calls, httpServer, socksServer, leakedHttp, leakedSocks>>
  PROVE  Solo'
BY DEF Solo, NoneLeaked, InFlight, Probing, Starting

\* While calls do not overlap, every step keeps hold of each listener that it
\* binds or frees.
THEOREM SoloStep ==
  ASSUME Serial PROVE TypeOK /\ Solo /\ [Next]_vars => Solo'
<1> SUFFICES ASSUME TypeOK, Solo, [Next]_vars PROVE Solo'
  OBVIOUS
<1>1. MayStart => \A t \in Slots : ~InFlight(t)
  BY DEF MayStart, Serial
<1>2. ASSUME NEW s \in Slots, NEW cfg, Connect(s, cfg) \/ ConnectLast(s) PROVE Solo'
  BY <1>1, <1>2, BeginSolo DEF Connect, ConnectLast
<1>3. CASE ConnectRejected
  BY <1>3, AbortSolo DEF ConnectRejected, Solo, NoneLeaked, leaked
<1>4. ASSUME NEW s \in Slots, ProbeFails(s) PROVE Solo'
  BY <1>4, AbortSolo DEF ProbeFails, Solo, NoneLeaked, leaked
<1>5. ASSUME NEW s \in Slots, ProxyRouteUp(s) PROVE Solo'
  <2>1. BoundHttp = {} /\ BoundSocks = {}
    BY <1>5, ProbeIsAlone DEF ProxyRouteUp, Probing
  <2>2. \A t \in Slots : ~InFlight(t)'
    BY <1>5 DEF ProxyRouteUp, Solo, InFlight, TypeOK, NoCall
  <2>3. status'.connected = TRUE
    BY <1>5, FinishStatus DEF ProxyRouteUp
  <2> QED BY <1>5, <2>1, <2>2, <2>3
          DEF ProxyRouteUp, ListenersStart, Solo, NoneLeaked, InFlight, Probing
<1>6. ASSUME NEW s \in Slots, ListenersUnavailable(s) PROVE Solo'
  <2>1. BoundHttp = {} /\ BoundSocks = {}
    BY <1>6, ProbeIsAlone DEF ListenersUnavailable, Probing
  <2>2. leakedHttp' = {} /\ leakedSocks' = {}
    BY <1>6, <2>1 DEF ListenersUnavailable, ListenersFail, Solo, NoneLeaked
  <2> QED BY <1>6, <2>2, AbortSolo DEF ListenersUnavailable
<1>7. ASSUME NEW s \in Slots, SpawnHelper(s) PROVE Solo'
  <2>1. BoundHttp = {} /\ BoundSocks = {} /\ ~status.connected
    BY <1>7, ProbeIsAlone DEF SpawnHelper, Probing
  <2>2. leakedHttp' = {} /\ leakedSocks' = {}
    BY <1>7, <2>1 DEF SpawnHelper, ListenersStart, serverVars, leaked, Solo, NoneLeaked
  <2>3. /\ \A t \in Slots : InFlight(t)' => t = s
        /\ Starting(s)' /\ ~Probing(s)'
    BY <1>7 DEF SpawnHelper, Solo, InFlight, Starting, Probing, TypeOK
  <2>4. \A t \in Slots : ~Probing(t)'
    BY <2>3 DEF InFlight, Probing
  <2> QED BY <1>7, <2>1, <2>2, <2>3, <2>4 DEF SpawnHelper, Solo, NoneLeaked
<1>8. ASSUME NEW s \in Slots, SpawnFails(s) PROVE Solo'
  <2>1. BoundHttp = {} /\ BoundSocks = {}
    BY <1>8, ProbeIsAlone DEF SpawnFails, Probing
  <2>2. leakedHttp' = {} /\ leakedSocks' = {}
    BY <1>8, <2>1 DEF SpawnFails, ListenersFail, leaked, Solo, NoneLeaked
  <2>3. \E p : Abort(p)
    BY <1>8 DEF SpawnFails
  <2> QED BY <1>8, <2>2, <2>3, AbortSolo DEF SpawnFails
<1>9. ASSUME NEW s \in Slots, TunRouteUp(s) PROVE Solo'
  <2>1. \A t \in Slots : ~InFlight(t)'
    BY <1>9 DEF TunRouteUp, Solo, InFlight, TypeOK, NoCall
  <2>2. status'.connected = TRUE
    BY <1>9, FinishStatus DEF TunRouteUp
  <2> QED BY <1>9, <2>1, <2>2
          DEF TunRouteUp, Solo, NoneLeaked, serverVars, leaked, InFlight, Probing
<1>10. ASSUME NEW s \in Slots, HelperExit(s) PROVE Solo'
  <2>1. CASE ~stoppingTun /\ status.connected
    BY <1>10, <2>1, SoloAfterDisconnect, ShapeOfStatus
       DEF HelperExit, Disconnect, Solo, NoneLeaked, leaked
  <2>2. CASE ~(~stoppingTun /\ status.connected)
    <3>1. status'.connected = status.connected
      BY <1>10, <2>2 DEF HelperExit, TypeOK, StatusType
    <3> QED BY <1>10, <2>2, <3>1, SoloStutter DEF HelperExit, leaked
  <2> QED BY <2>1, <2>2
<1>11. CASE CheckStart \/ CheckAnswers
  BY <1>11, SoloStutter DEF CheckStart, CheckAnswers, serverVars, leaked
<1>12. CASE CheckFailsReconnect
  <2>1. CASE activeConfig = NoConfig
    BY <1>12, <2>1, AbortSolo DEF CheckFailsReconnect, Solo, NoneLeaked, leaked
  <2>2. CASE activeConfig # NoConfig
    BY <1>1, <1>12, <2>2, BeginSolo DEF CheckFailsReconnect, FreeSlots
  <2> QED BY <2>1, <2>2
<1>13. CASE CheckFailsGiveUp \/ UserDisconnect
  BY <1>13, SoloAfterDisconnect, ShapeOfStatus
     DEF CheckFailsGiveUp, UserDisconnect, Disconnect, Solo, NoneLeaked, leaked
<1>14. ASSUME NEW new \in Settings, SaveSettings(new) PROVE Solo'
  BY <1>14, SoloStutter DEF SaveSettings, serverVars, leaked
<1>15. CASE Crash \/ Quit
  BY <1>15, ShapeOfStatus
     DEF Crash, Quit, Relaunch, Solo, NoneLeaked, InFlight, Probing, NoCall
<1>16. ASSUME NEW s \in Slots, DetachedExit(s) PROVE Solo'
  BY <1>16, SoloStutter DEF DetachedExit, serverVars, leaked
<1>17. CASE UNCHANGED vars
  BY <1>17, SoloStutter DEF vars, serverVars, leaked
<1> QED
  BY <1>2, <1>3, <1>4, <1>5, <1>6, <1>7, <1>8, <1>9, <1>10, <1>11, <1>12, <1>13, <1>14,
     <1>15, <1>16, <1>17 DEF Next, Step, Progress

\* When calls do not overlap, disconnect always has hold of every listener.
THEOREM ListenersOwned == Spec => []NoLeakedListener
<1>1. Init => (Serial => Solo)
  BY ShapeOfStatus DEF Init, Solo, NoneLeaked, InFlight, Probing, NoCall
<1>2. (Serial => Solo) => NoLeakedListener
  BY DEF Solo, NoLeakedListener
<1>3. TypeOK /\ (Serial => Solo) /\ [Next]_vars => (Serial => Solo)'
  BY SoloStep DEF Next, vars, Serial
<1> QED BY <1>1, <1>2, <1>3, TypeCorrect, PTL DEF Spec

-----------------------------------------------------------------------------
(* Helpers, when moreover none of them outlives the start of the next       *)

NoneRuns == \A s \in Slots : helper[s] # "running"

\* A helper that runs is the one the variable refers to, alone, and there is
\* a connection or a start-up for it to serve.
Owned ==
  /\ \A s \in Slots : helper[s] = "running" => tunProcess = s
  /\ ~NoneRuns => /\ \A s \in Slots : helper[s] # "killed"
                  /\ status.connected \/ \E s \in Slots : Starting(s)

\* Where no helper runs there is nothing to own.
LEMMA NoneRunsOwned == NoneRuns' => Owned'
BY DEF NoneRuns, Owned

\* stopTunMode with the right reference leaves no helper running.
LEMMA KillsTheOne ==
  ASSUME Owned, helper' = Kill(tunProcess) PROVE NoneRuns'
BY DEF Owned, Kill, NoneRuns

\* stopTunMode with whatever reference starts no helper.
LEMMA KillStartsNone ==
  ASSUME NoneRuns, NEW p, helper' = Kill(p) PROVE NoneRuns'
BY DEF Kill, NoneRuns

\* While a call probes, no helper runs.
LEMMA ProbeWithoutHelper ==
  ASSUME TypeOK, Solo, Owned, NEW s \in Slots, Probing(s)
  PROVE  NoneRuns
<1>1. \A t \in Slots : ~Starting(t)
  BY DEF Solo, Probing, Starting, InFlight
<1> QED BY <1>1 DEF Solo, Owned

\* A call that begins while no other is in flight leaves no helper running.
LEMMA BeginStopsHelper ==
  ASSUME Owned, NEW s \in Slots, NEW cfg, \A t \in Slots : ~InFlight(t), Begin(s, cfg)
  PROVE  NoneRuns'
<1>1. CASE status.connected \/ status.connecting
  BY <1>1, KillsTheOne DEF Begin, Disconnect
<1>2. CASE ~(status.connected \/ status.connecting)
  <2>1. NoneRuns
    BY <1>2 DEF Owned, Starting, InFlight
  <2> QED BY <1>2, <2>1 DEF Begin, tunVars, NoneRuns
<1> QED BY <1>1, <1>2

\* Handlers that leave helpers, calls and the connection alone keep Owned.
LEMMA OwnedStutter ==
  ASSUME Owned, status'.connected = status.connected, UNCHANGED <<calls, tunProcess, helper>>
  PROVE  Owned'
BY DEF Owned, NoneRuns, Starting

\* Every step leaves a running helper where disconnect finds it.
THEOREM OwnedStep ==
  ASSUME Serial, "slowExit" \notin env
  PROVE  TypeOK /\ Solo /\ Owned /\ [Next]_vars => Owned'
<1> SUFFICES ASSUME TypeOK, Solo, Owned, [Next]_vars PROVE Owned'
  OBVIOUS
<1>1. MayStart => \A t \in Slots : ~InFlight(t)
  BY DEF MayStart, Serial
<1>2. ASSUME NEW s \in Slots, NEW cfg, Connect(s, cfg) \/ ConnectLast(s) PROVE Owned'
  BY <1>1, <1>2, BeginStopsHelper, NoneRunsOwned DEF Connect, ConnectLast
<1>3. CASE ConnectRejected
  BY <1>3, KillsTheOne, NoneRunsOwned DEF ConnectRejected, Abort, Disconnect
<1>4. ASSUME NEW s \in Slots, ProbeFails(s) PROVE Owned'
  BY <1>4, KillsTheOne, NoneRunsOwned DEF ProbeFails, Abort, Disconnect
<1>5. ASSUME NEW s \in Slots, ProxyRouteUp(s) PROVE Owned'
  <2>1. NoneRuns
    BY <1>5, ProbeWithoutHelper DEF ProxyRouteUp, Probing
  <2> QED BY <1>5, <2>1, NoneRunsOwned DEF ProxyRouteUp, tunVars, NoneRuns
<1>6. ASSUME NEW s \in Slots, ListenersUnavailable(s) PROVE Owned'
  BY <1>6, KillsTheOne, NoneRunsOwned DEF ListenersUnavailable, Abort, Disconnect
<1>7. ASSUME NEW s \in Slots, SpawnHelper(s) PROVE Owned'
  <2>1. NoneRuns
    BY <1>7, ProbeWithoutHelper DEF SpawnHelper, Probing
  <2>2. \A t \in Slots : helper[t] # "killed"
    BY <1>7 DEF SpawnHelper, MaySpawn
  <2>3. helper' = [helper EXCEPT ![s] = "running"] /\ tunProcess' = s
    BY <1>7 DEF SpawnHelper
  <2>4. Starting(s)'
    BY <1>7 DEF SpawnHelper, Starting, TypeOK
  <2> QED BY <2>1, <2>2, <2>3, <2>4 DEF Owned, NoneRuns, TypeOK
<1>8. ASSUME NEW s \in Slots, SpawnFails(s) PROVE Owned'
  <2>1. NoneRuns
    BY <1>8, ProbeWithoutHelper DEF SpawnFails, Probing
  <2>2. \E p : helper' = Kill(p)
    BY <1>8 DEF SpawnFails, Abort, Disconnect
  <2> QED BY <2>1, <2>2, KillStartsNone, NoneRunsOwned
<1>9. ASSUME NEW s \in Slots, TunRouteUp(s) PROVE Owned'
  <2>1. status'.connected = TRUE
    BY <1>9, FinishStatus DEF TunRouteUp
  <2> QED BY <1>9, <2>1 DEF TunRouteUp, tunVars, Owned, NoneRuns
<1>10. ASSUME NEW s \in Slots, HelperExit(s) PROVE Owned'
  <2>1. helper' = [helper EXCEPT ![s] = "none"] /\ helper[s] \in {"running", "killed"}
    BY <1>10 DEF HelperExit, Disconnect
  <2>2. NoneRuns'
    BY <2>1 DEF Owned, NoneRuns, TypeOK
  <2> QED BY <2>2, NoneRunsOwned
<1>11. CASE CheckStart \/ CheckAnswers
  BY <1>11, OwnedStutter DEF CheckStart, CheckAnswers, tunVars
<1>12. CASE CheckFailsReconnect
  <2>1. CASE activeConfig = NoConfig
    BY <1>12, <2>1, KillsTheOne, NoneRunsOwned DEF CheckFailsReconnect, Abort, Disconnect
  <2>2. CASE activeConfig # NoConfig
    BY <1>1, <1>12, <2>2, BeginStopsHelper, NoneRunsOwned DEF CheckFailsReconnect, FreeSlots
  <2> QED BY <2>1, <2>2
<1>13. CASE CheckFailsGiveUp \/ UserDisconnect
  BY <1>13, KillsTheOne, NoneRunsOwned DEF CheckFailsGiveUp, UserDisconnect, Disconnect
<1>14. ASSUME NEW new \in Settings, SaveSettings(new) PROVE Owned'
  BY <1>14, OwnedStutter DEF SaveSettings, tunVars
<1>15. CASE Crash \/ Quit
  <2>1. NoneRuns'
    BY <1>15 DEF Crash, Quit, Relaunch, NoneRuns
  <2> QED BY <2>1, NoneRunsOwned
<1>16. ASSUME NEW s \in Slots, DetachedExit(s) PROVE Owned'
  <2>1. /\ helper[s] = "detached" /\ helper' = [helper EXCEPT ![s] = "none"]
        /\ UNCHANGED <<calls, tunProcess>> /\ status' = status
    BY <1>16 DEF DetachedExit
  <2> QED BY <2>1 DEF Owned, NoneRuns, Starting, TypeOK
<1>17. CASE UNCHANGED vars
  BY <1>17, OwnedStutter DEF vars, tunVars
<1> QED
  BY <1>2, <1>3, <1>4, <1>5, <1>6, <1>7, <1>8, <1>9, <1>10, <1>11, <1>12, <1>13, <1>14,
     <1>15, <1>16, <1>17 DEF Next, Step, Progress

\* In an environment without overlaps and late exits.
LEMMA CalmInvariant == Spec => [](Calm => Solo /\ Owned)
<1>1. Init => (Calm => Solo /\ Owned)
  BY ShapeOfStatus DEF Init, Solo, Owned, NoneRuns, NoneLeaked, InFlight, Probing, NoCall
<1>2. TypeOK /\ (Calm => Solo /\ Owned) /\ [Next]_vars => (Calm => Solo /\ Owned)'
  BY SoloStep, OwnedStep DEF Next, vars, Calm, Serial
<1> QED BY <1>1, <1>2, TypeCorrect, PTL DEF Spec

\* There, disconnect can always stop the helper that runs.
THEOREM HelpersOwned == Spec => []HelperOwned
<1>1. (Calm => Solo /\ Owned) => HelperOwned
  BY DEF Owned, HelperOwned
<1> QED BY <1>1, CalmInvariant, PTL

\* There, what is neither connected nor in flight holds no port and no helper.
THEOREM IdleHoldsNothing == Spec => []IdleMeansReleased
<1>1. (Calm => Solo /\ Owned) => IdleMeansReleased
  <2> SUFFICES ASSUME Solo, Owned, ~status.connected, \A s \in Slots : ~InFlight(s)
               PROVE  BoundHttp = {} /\ BoundSocks = {} /\ NoneRuns
    BY DEF IdleMeansReleased, NoneRuns
  <2>1. \A s \in Slots : ~Starting(s)
    BY DEF Starting, InFlight
  <2>2. httpServer = NoPort /\ socksServer = NoPort
    BY <2>1 DEF Solo
  <2> QED
    BY <2>1, <2>2 DEF Solo, NoneLeaked, BoundHttp, BoundSocks, OwnHttp, OwnSocks, Owned
<1> QED BY <1>1, CalmInvariant, PTL

\* Listeners and helpers together: nothing is lost, nothing is kept.
THEOREM NothingIsLeaked == Spec => []NothingLeaks
<1>1. NoLeakedListener /\ HelperOwned /\ IdleMeansReleased => NothingLeaks
  BY DEF NothingLeaks
<1> QED BY <1>1, ListenersOwned, HelpersOwned, IdleHoldsNothing, PTL
=============================================================================
