----------------------------- MODULE VpnClient -----------------------------
(***************************************************************************)
(* The connection life-cycle of the desktop VPN client                     *)
(* (vpn-client/main.js).                                                   *)
(*                                                                         *)
(* The main process is a single JavaScript thread: a handler runs to its   *)
(* next await without interruption, and everything that happens while it   *)
(* awaits (another IPC request, a monitor tick, the exit of the TUN        *)
(* helper, a settings change) is a step of its own.  connectToVPN awaits   *)
(* the reachability probe and, in TUN mode, a 1200 ms start-up timer; the  *)
(* local listeners start within one turn of the event loop.                *)
(***************************************************************************)
EXTENDS Naturals, FiniteSets

CONSTANTS
  Slots,        \* identities for connectToVPN calls and the helpers they spawn
  Ports,        \* local ports a configuration may ask for (HTTP; SOCKS is next)
  Configs,      \* the configurations the user has
  Settings,     \* settings objects the user may save
  MaxChecks,    \* bound on reachability probes of the monitor in flight
  NoHelper,     \* null, as a reference to a helper
  Envs          \* the environments considered, each a set of EnvFeatures

(***************************************************************************)
(* overlap   - connectToVPN may start while another call is in flight      *)
(* slowExit  - a helper sent SIGTERM may outlive the start of the next one *)
(* crash     - the application may die and be started again                *)
(***************************************************************************)
EnvFeatures == {"overlap", "slowExit", "crash"}

SettingsType ==
  [killSwitchMode : {"off", "app", "system-proxy"}, autoReconnect : BOOLEAN,
   maxReconnectAttempts : 0..10, helper : {"sing-box", "custom"}]

\* The values of the operating system's proxy setting besides local ports.
Direct    == 0     \* off
Blackhole == 9     \* 127.0.0.1:9, where nothing listens

NoPort   == 0
NoConfig == [mode |-> "none", localPort |-> NoPort]

\* No configuration listens at port 9: its route would be the blackhole.
ASSUME PortsAssumption ==
  Ports \subseteq Nat /\ NoPort \notin Ports /\ Blackhole \notin Ports
ASSUME SettingsAssumption == Settings \subseteq SettingsType
ASSUME NullAssumption     == NoHelper \notin Slots
ASSUME BoundsAssumption   == MaxChecks \in Nat /\ Envs \subseteq SUBSET EnvFeatures

\* What normalizeConfig leaves of a configuration for the properties below.
Config == [mode : {"proxy", "tun"}, localPort : Ports]

ASSUME ConfigsAssumption == Configs \subseteq Config

VARIABLES
  status,        \* connectionStatus
  settings,      \* settings, and their stored copy
  activeConfig,
  calls,         \* the connectToVPN calls in flight, one per slot
  httpServer,    \* the port of the listener `proxyServer` refers to
  socksServer,   \* the same of `socksServer`
  leakedHttp,    \* ports still bound by HTTP listeners no variable refers to
  leakedSocks,   \* the same of SOCKS listeners
  tunProcess,    \* the helper `tunProcess` refers to
  helper,        \* the operating system's view of each helper process
  stoppingTun,
  sysProxy,      \* the operating system's proxy setting, or the port it names
  monitor,       \* is the interval of connectionMonitor armed?
  checks,        \* probes of the monitor that have not answered yet
  lastConnection,\* the stored lastConnection
  env            \* what the environment may do, chosen before the first step

leaked     == <<leakedHttp, leakedSocks>>
serverVars == <<httpServer, socksServer, leaked>>
tunVars    == <<tunProcess, helper, stoppingTun>>
vars == <<status, settings, activeConfig, calls, serverVars, tunVars,
          sysProxy, monitor, checks, lastConnection, env>>

-----------------------------------------------------------------------------
(* Status objects and small helpers.                                       *)

DisconnectedStatus ==
  [connected |-> FALSE, connecting |-> FALSE, ip |-> "not routed",
   tunActive |-> FALSE, killSwitchActive |-> FALSE, reconnectAttempts |-> 0]

ConnectingStatus == [DisconnectedStatus EXCEPT !.connecting = TRUE]

NoCall == [pc |-> "idle", config |-> NoConfig]
InFlight(s) == calls[s].pc # "idle"

KillSwitchOn == settings.killSwitchMode = "system-proxy"

\* The ports of the listeners the variables refer to.
OwnHttp  == {httpServer} \ {NoPort}
OwnSocks == {socksServer} \ {NoPort}

\* The ports that are bound, whether or not a variable still refers to it.
BoundHttp  == OwnHttp \cup leakedHttp
BoundSocks == OwnSocks \cup leakedSocks

FreeSlots == {s \in Slots : calls[s] = NoCall /\ helper[s] = "none"}

\* May a connectToVPN call start now?
MayStart == "overlap" \in env \/ \A s \in Slots : ~InFlight(s)

\* Mutant of Kill: the signal is never sent.
KillForgotten(p) == helper

\* SIGTERM to the helper the variable refers to.
Kill(p) ==
  [s \in Slots |-> IF s = p /\ helper[s] = "running" THEN "killed" ELSE helper[s]]

(***************************************************************************)
(* disconnect({manual, preserveKillSwitch}); `helpers` is what stopTunMode *)
(* leaves of them.  The caller says what becomes of calls, leaked, checks, *)
(* settings and lastConnection.                                            *)
(***************************************************************************)
Disconnect(manual, preserve, helpers, newStatus) ==
  /\ monitor' = FALSE
  /\ httpServer' = NoPort
  /\ socksServer' = NoPort
  /\ stoppingTun' = TRUE
  /\ helper' = helpers
  /\ tunProcess' = NoHelper
  /\ sysProxy' = IF manual \/ ~preserve THEN Direct
                 ELSE IF KillSwitchOn THEN Blackhole ELSE sysProxy
  /\ activeConfig' = NoConfig
  /\ status' = newStatus

\* Mutant of Dropped: the flag is set whatever the mode.
DroppedAlwaysBlocking == [DisconnectedStatus EXCEPT !.killSwitchActive = TRUE]

\* The status after a dropped route: disconnect's last statement.
Dropped == [DisconnectedStatus EXCEPT !.killSwitchActive = KillSwitchOn]

\* The catch block of connectToVPN: disconnect({manual: false}).
Abort(p) == Disconnect(FALSE, FALSE, Kill(p), DisconnectedStatus)

Init ==
  /\ status = DisconnectedStatus
  /\ settings \in Settings
  /\ activeConfig = NoConfig
  /\ calls = [s \in Slots |-> NoCall]
  /\ httpServer = NoPort
  /\ socksServer = NoPort
  /\ leakedHttp = {}
  /\ leakedSocks = {}
  /\ tunProcess = NoHelper
  /\ helper = [s \in Slots |-> "none"]
  /\ stoppingTun = FALSE
  /\ sysProxy = Direct
  /\ monitor = FALSE
  /\ checks = 0
  /\ lastConnection = NoConfig
  /\ env \in Envs

-----------------------------------------------------------------------------
(* connectToVPN                                                            *)

(***************************************************************************)
(* Up to the reachability probe.  A route that is up or being set up is    *)
(* torn down first, as if the user had asked for it.                       *)
(***************************************************************************)
Begin(s, cfg) ==
  /\ calls' = [calls EXCEPT ![s] = [pc |-> "probe", config |-> cfg]]
  /\ IF status.connected \/ status.connecting
     THEN Disconnect(TRUE, FALSE, Kill(tunProcess), ConnectingStatus)
     ELSE /\ status' = ConnectingStatus
          /\ UNCHANGED <<activeConfig, httpServer, socksServer, tunVars, sysProxy, monitor>>
  /\ UNCHANGED <<settings, leaked, lastConnection>>

\* connect-vpn, connect-saved-server, the tray's Quick Connect, --config.
Connect(s, cfg) ==
  /\ s \in FreeSlots
  /\ MayStart
  /\ Begin(s, cfg)
  /\ UNCHANGED checks

\* The tray's Quick Connect and --connect-last.
ConnectLast(s) == lastConnection # NoConfig /\ Connect(s, lastConnection)

\* normalizeConfig throws, or a TUN engine lacks its secret: the route in
\* place is torn down all the same.
ConnectRejected ==
  /\ MayStart
  /\ Abort(tunProcess)
  /\ UNCHANGED <<settings, calls, leaked, checks, lastConnection>>

\* checkServerReachable rejects (refused, unreachable, or timed out).
ProbeFails(s) ==
  /\ calls[s].pc = "probe"
  /\ calls' = [calls EXCEPT ![s] = NoCall]
  /\ Abort(tunProcess)
  /\ UNCHANGED <<settings, leaked, checks, lastConnection>>

\* Mutant of Finish: `connecting` is not reset.
FinishStillConnecting(cfg, ip) ==
  /\ status' = [status EXCEPT !.connected = TRUE, !.ip = ip,
                  !.tunActive = @ \/ ip = "tun",
                  !.killSwitchActive = FALSE, !.reconnectAttempts = 0]
  /\ lastConnection' \in {cfg, NoConfig}
  /\ monitor' = (monitor \/ settings.autoReconnect)

\* The statements after the route is in place; they write into whatever
\* status object is current, which need not be the one this call created.
Finish(cfg, ip) ==
  /\ status' = [status EXCEPT !.connected = TRUE, !.connecting = FALSE, !.ip = ip,
                  !.tunActive = @ \/ ip = "tun",
                  !.killSwitchActive = FALSE, !.reconnectAttempts = 0]
  /\ lastConnection' \in {cfg, NoConfig}   \* NoConfig: the keychain refused the secrets
  /\ monitor' = (monitor \/ settings.autoReconnect)

\* startProxyServer binds both ports of the configuration.
ListenersStart(p) ==
  /\ p \notin BoundHttp /\ p \notin BoundSocks
  /\ httpServer' = p
  /\ socksServer' = p
  /\ leakedHttp' = BoundHttp
  /\ leakedSocks' = BoundSocks

\* startProxyServer, or the statements up to the spawn of a custom helper,
\* fail after `proxyServer` (and, if socks, also `socksServer`) was assigned.
ListenersFail(socks) ==
  /\ leakedHttp' = BoundHttp
  /\ leakedSocks' = IF socks THEN BoundSocks ELSE leakedSocks

\* Proxy mode: listeners, system proxy and status in one turn.
ProxyRouteUp(s) ==
  /\ calls[s].pc = "probe"
  /\ LET cfg == calls[s].config IN
       /\ cfg.mode = "proxy"
       /\ ListenersStart(cfg.localPort)
       /\ sysProxy' = cfg.localPort
       /\ activeConfig' = cfg
       /\ Finish(cfg, "proxy")
  /\ calls' = [calls EXCEPT ![s] = NoCall]
  /\ UNCHANGED <<settings, tunVars, checks>>

UsesListeners(cfg) == cfg.mode = "proxy" \/ settings.helper = "custom"

\* A port is taken, by another program or by a listener of this one.
ListenersUnavailable(s) ==
  /\ calls[s].pc = "probe"
  /\ UsesListeners(calls[s].config)
  /\ \/ ListenersFail(FALSE)
     \/ calls[s].config.localPort \notin BoundHttp /\ ListenersFail(TRUE)
  /\ calls' = [calls EXCEPT ![s] = NoCall]
  /\ Abort(tunProcess)
  /\ UNCHANGED <<settings, checks, lastConnection>>

-----------------------------------------------------------------------------
(* TUN mode                                                                *)

\* A helper is only started once the previous one is gone, unless slowExit.
MaySpawn == "slowExit" \in env \/ \A s \in Slots : helper[s] # "killed"

\* startTunProcess: spawn, then wait 1200 ms for the helper to settle.
SpawnHelper(s) ==
  /\ calls[s].pc = "probe"
  /\ MaySpawn
  /\ LET cfg == calls[s].config IN
       /\ cfg.mode = "tun"
       /\ activeConfig' = cfg
       /\ IF settings.helper = "custom"
          THEN ListenersStart(cfg.localPort)
          ELSE UNCHANGED serverVars
  /\ stoppingTun' = FALSE
  /\ tunProcess' = s
  /\ helper' = [helper EXCEPT ![s] = "running"]
  /\ calls' = [calls EXCEPT ![s].pc = "starting"]
  /\ UNCHANGED <<status, settings, sysProxy, monitor, checks, lastConnection>>

\* No helper starts: an exception before the spawn, before or after a custom
\* helper's listeners, or the "error" event of a spawn whose handle has
\* replaced, and so lost, the one `tunProcess` held.
SpawnFails(s) ==
  /\ calls[s].pc = "probe"
  /\ calls[s].config.mode = "tun"
  /\ calls' = [calls EXCEPT ![s] = NoCall]
  /\ \/ Abort(tunProcess) /\ UNCHANGED leaked
     \/ settings.helper = "sing-box" /\ Abort(NoHelper) /\ UNCHANGED leaked
     \/ /\ settings.helper = "custom"
        /\ calls[s].config.localPort \notin BoundHttp \cup BoundSocks
        /\ ListenersFail(TRUE)
        /\ \E p \in {tunProcess, NoHelper} : Abort(p)
  /\ UNCHANGED <<settings, checks, lastConnection>>

\* The timer fires; it does not look at whether the helper still runs.
TunRouteUp(s) ==
  /\ calls[s].pc = "starting"
  /\ Finish(calls[s].config, "tun")
  /\ calls' = [calls EXCEPT ![s] = NoCall]
  /\ UNCHANGED <<settings, activeConfig, serverVars, tunVars, sysProxy, checks>>

\* The "exit" handler, which clears `tunProcess` whichever helper it was.
HelperExit(s) ==
  /\ helper[s] \in {"running", "killed"}
  /\ LET helpers == [helper EXCEPT ![s] = "none"] IN
       IF ~stoppingTun /\ status.connected
       THEN Disconnect(FALSE, TRUE, helpers, Dropped)
       ELSE /\ status' = [status EXCEPT !.tunActive = FALSE]
            /\ tunProcess' = NoHelper
            /\ helper' = helpers
            /\ UNCHANGED <<activeConfig, httpServer, socksServer, stoppingTun, sysProxy, monitor>>
  /\ UNCHANGED <<settings, calls, leaked, checks, lastConnection>>

-----------------------------------------------------------------------------
(* The connection monitor                                                  *)

CheckStart ==
  /\ monitor
  /\ status.connected
  /\ activeConfig # NoConfig
  /\ checks < MaxChecks
  /\ checks' = checks + 1
  /\ UNCHANGED <<status, settings, activeConfig, calls, serverVars, tunVars,
                 sysProxy, monitor, lastConnection>>

CheckAnswers ==
  /\ checks > 0
  /\ checks' = checks - 1
  /\ UNCHANGED <<status, settings, activeConfig, calls, serverVars, tunVars,
                 sysProxy, monitor, lastConnection>>

\* Mutant of RetriesLeft: off by one.
RetriesLeftOffByOne ==
  settings.autoReconnect /\ status.reconnectAttempts + 1 < settings.maxReconnectAttempts

\* May the monitor reconnect, or does it give up?
RetriesLeft == settings.autoReconnect /\ status.reconnectAttempts < settings.maxReconnectAttempts

\* The probe failed.  Nothing re-checks that the route it was for is still
\* the current one.  connectToVPN resets the attempts it was counted with.
CheckFailsReconnect ==
  /\ checks > 0
  /\ RetriesLeft
  /\ IF activeConfig = NoConfig     \* connectToVPN(null): normalizeConfig throws
     THEN Abort(tunProcess) /\ UNCHANGED <<settings, calls, leaked, lastConnection>>
     ELSE \E s \in FreeSlots : MayStart /\ Begin(s, activeConfig)
  /\ checks' = checks - 1

CheckFailsGiveUp ==
  /\ checks > 0
  /\ ~RetriesLeft
  /\ Disconnect(FALSE, TRUE, Kill(tunProcess), Dropped)
  /\ checks' = checks - 1
  /\ UNCHANGED <<settings, calls, leaked, lastConnection>>

-----------------------------------------------------------------------------
(* The other handlers                                                      *)

\* disconnect-vpn and the tray's Disconnect.
UserDisconnect ==
  /\ Disconnect(TRUE, FALSE, Kill(tunProcess), DisconnectedStatus)
  /\ UNCHANGED <<settings, calls, leaked, checks, lastConnection>>

SaveSettings(new) ==
  /\ settings' = new
  /\ UNCHANGED <<status, activeConfig, calls, serverVars, tunVars,
                 sysProxy, monitor, checks, lastConnection>>

\* The process ends and is started again: its memory is fresh, its listeners
\* are gone, and helpers it left behind run on with nobody to hear them exit.
Relaunch ==
  /\ status' = DisconnectedStatus
  /\ activeConfig' = NoConfig
  /\ calls' = [s \in Slots |-> NoCall]
  /\ httpServer' = NoPort /\ socksServer' = NoPort
  /\ leakedHttp' = {} /\ leakedSocks' = {}
  /\ tunProcess' = NoHelper
  /\ stoppingTun' = FALSE
  /\ helper' = [s \in Slots |-> IF helper[s] = "none" THEN "none" ELSE "detached"]
  /\ monitor' = FALSE
  /\ checks' = 0
  /\ UNCHANGED <<settings, lastConnection>>

Crash == "crash" \in env /\ Relaunch /\ UNCHANGED sysProxy

\* before-quit: disconnect({manual: true}), then the process ends.
Quit == Relaunch /\ sysProxy' = Direct

DetachedExit(s) ==
  /\ helper[s] = "detached"
  /\ helper' = [helper EXCEPT ![s] = "none"]
  /\ UNCHANGED <<status, settings, activeConfig, calls, serverVars, tunProcess,
                 stoppingTun, sysProxy, monitor, checks, lastConnection, env>>

-----------------------------------------------------------------------------

\* What the end of a connectToVPN call waits for: the probe, then the timer.
Progress(s) ==
  \/ ProbeFails(s)
  \/ ProxyRouteUp(s)
  \/ ListenersUnavailable(s)
  \/ SpawnHelper(s)
  \/ SpawnFails(s)
  \/ TunRouteUp(s)

Step ==
  \/ \E s \in Slots, cfg \in Configs : Connect(s, cfg)
  \/ \E s \in Slots : ConnectLast(s)
  \/ ConnectRejected
  \/ \E s \in Slots : Progress(s)
  \/ \E s \in Slots : HelperExit(s)
  \/ CheckStart
  \/ CheckAnswers
  \/ CheckFailsReconnect
  \/ CheckFailsGiveUp
  \/ UserDisconnect
  \/ \E new \in Settings : SaveSettings(new)
  \/ Crash
  \/ Quit
  \/ \E s \in Slots : DetachedExit(s)

Next == Step /\ UNCHANGED env

Spec == Init /\ [][Next]_vars

\* The probe has a socket timeout (connectTimeout) and the start-up timer
\* fires, so a call that is in flight ends.  Nothing else is promised: users,
\* helpers and servers owe the client no step.
Fairness == \A s \in Slots : WF_vars(Progress(s) /\ UNCHANGED env)

FairSpec == Spec /\ Fairness

-----------------------------------------------------------------------------
(* Properties                                                              *)

StatusType ==
  [connected : BOOLEAN, connecting : BOOLEAN,
   ip : {"not routed", "proxy", "tun"}, tunActive : BOOLEAN,
   killSwitchActive : BOOLEAN, reconnectAttempts : Nat]

HelperState == {"none", "running", "killed", "detached"}

Call ==
  {c \in [pc : {"idle", "probe", "starting"}, config : Config \cup {NoConfig}] :
     c.pc # "idle" => c.config \in Config}

\* Calls do not overlap; helpers do not exit late, nor does the process die.
Serial == "overlap" \notin env
Calm   == env = {}

NoneLeaked == leakedHttp = {} /\ leakedSocks = {}

\* Every variable keeps the shape the code gives it.
TypeOK ==
  /\ status \in StatusType
  /\ settings \in Settings
  /\ activeConfig \in Config \cup {NoConfig}
  /\ calls \in [Slots -> Call]
  /\ httpServer \in Ports \cup {NoPort}
  /\ socksServer \in Ports \cup {NoPort}
  /\ leakedHttp \subseteq Ports
  /\ leakedSocks \subseteq Ports
  /\ tunProcess \in Slots \cup {NoHelper}
  /\ helper \in [Slots -> HelperState]
  /\ stoppingTun \in BOOLEAN
  /\ sysProxy \in {Direct, Blackhole} \cup Ports
  /\ monitor \in BOOLEAN
  /\ checks \in Nat
  /\ lastConnection \in Config \cup {NoConfig}
  /\ env \in Envs

\* The window never shows "Kill switch blocking" while the system proxy is
\* anything but the blackhole, whatever calls, exits and crashes interleave.
KillSwitchTruthful == status.killSwitchActive => sysProxy = Blackhole

\* A route reported as "Routed by system proxy" is one: the system proxy
\* names a port on which a listener of this process is bound, even when
\* overlapping connects have replaced the listener variables.
ProxyRouteServed ==
  status.connected /\ status.ip = "proxy" => sysProxy \in BoundHttp

\* "Connecting" is only shown while a connectToVPN call is in flight that
\* will replace it: no failure or disconnect leaves the status stuck there.
ConnectingHasCall == status.connecting => \E s \in Slots : InFlight(s)

\* The interval is armed only while connected, and being connected excludes
\* connecting: no path leaves a monitor polling for a route that is gone.
MonitorOnlyWhileConnected ==
  /\ monitor => status.connected
  /\ ~(status.connected /\ status.connecting)

\* Together: what the window shows of route, blocking and attempts is so.
Truthful ==
  /\ KillSwitchTruthful
  /\ ProxyRouteServed
  /\ ConnectingHasCall
  /\ MonitorOnlyWhileConnected

\* What the monitor does on a lost server: it engages the kill switch only
\* when the settings in force leave it no retry.  Because connectToVPN resets
\* reconnectAttempts, that means automatic reconnection is off or set to 0.
RetriesPreemptKillSwitch ==
  [][ (checks' < checks /\ sysProxy # Blackhole /\ sysProxy' = Blackhole)
        => ~settings.autoReconnect \/ settings.maxReconnectAttempts = 0 ]_vars

\* Without overlapping calls no listener loses its last reference while bound,
\* so disconnect can always free the ports, on every failure path too.
NoLeakedListener == Serial => NoneLeaked

\* Without overlapping calls, late exits or crashes, a running helper is the
\* one `tunProcess` refers to, so disconnect can always stop it.
HelperOwned == Calm => \A s \in Slots : helper[s] = "running" => tunProcess = s

\* Under the same conditions, when nothing is connected or in flight, no listener is bound and no helper
\* has been left running, whichever of the failure paths led there.
IdleMeansReleased ==
  Calm /\ ~status.connected /\ (\A s \in Slots : ~InFlight(s))
    => /\ BoundHttp = {} /\ BoundSocks = {}
       /\ \A s \in Slots : helper[s] # "running"

\* Together: disconnect can always free what was taken, and nothing is held
\* when nothing is connected.
NothingLeaks ==
  /\ NoLeakedListener
  /\ HelperOwned
  /\ IdleMeansReleased

\* Every call that shows "Connecting" comes to an end of it.
ConnectingEnds == status.connecting ~> ~status.connecting

-----------------------------------------------------------------------------
(* What the documents say and the code does not do                         *)

\* docs/STANDALONE_APPS.md:51: in system-proxy mode, a dropped connection
\* that the monitor detects points the system proxy at the blackhole; it is
\* certainly not switched off by that very detection.
DropNeverUnblocks ==
  [][ (checks' < checks /\ KillSwitchOn /\ status.connected /\ sysProxy # Direct)
        => sysProxy' # Direct ]_vars

\* docs/VPN_CLIENT_README.md:12: TUN mode routes device traffic through the
\* helper, so a connected TUN route has a helper running.
TunRouteHasHelper ==
  status.connected /\ status.ip = "tun" => \E s \in Slots : helper[s] = "running"
=============================================================================
