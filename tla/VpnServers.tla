------------------------------ MODULE VpnServers ------------------------------
(***************************************************************************)
(* The saved servers, secrets and settings of the VPN client               *)
(* (vpn-client/main.js) and the window that works on them by position      *)
(* (vpn-client/renderer.js).  Requests of the window are handled in order, *)
(* and answered in order.  Of a configuration counts whether its transport *)
(* is weak; of the settings, whether secrets are saved, weak transports    *)
(* allowed, and which network service is given the proxy (on macOS).       *)
(* The life-cycle of the route is that of VpnClient; here it is up or not. *)
(***************************************************************************)
EXTENDS Naturals, Sequences, SequencesExt

CONSTANTS
  Servers,    \* the servers that are saved in a run
  Services,   \* network services
  Nil,
  MaxActs     \* bound: what the user does

Settings == [saveSecrets : BOOLEAN, allowInsecure : BOOLEAN, service : Services]

VARIABLES
  settings,          \* settings, and their stored copy
  form,              \* window: the settings form
  servers, last,     \* store: "servers" and "lastConnection"
  route,             \* activeConfig
  proxied,           \* the services whose proxy is set
  keyring,           \* whether the operating system can keep secrets
  shown,             \* window: savedServers
  toMain, toWindow,  \* requests and answers under way
  saved, moved, acts \* history: servers saved so far; the service was changed
                     \* while a route was up; acts so far

mainVars == <<settings, servers, last, route, proxied, keyring, moved>>
vars == <<mainVars, form, shown, toMain, toWindow, saved, acts>>

Default == [saveSecrets |-> FALSE, allowInsecure |-> FALSE, service |-> CHOOSE s \in Services : TRUE]

Init ==
  /\ settings = Default /\ form = Default
  /\ servers = <<>> /\ last = Nil /\ route = Nil /\ proxied = {} /\ keyring = TRUE
  /\ shown = <<>> /\ toMain = <<>> /\ toWindow = <<>>
  /\ saved = {} /\ moved = FALSE /\ acts = 0

Act == acts < MaxActs /\ acts' = acts + 1

-----------------------------------------------------------------------------
(* The window                                                              *)

Idle == toMain = <<>> /\ toWindow = <<>>

\* A request, with what the user means by it.
Ask(kind, what, index) ==
  toMain' = Append(toMain, [kind |-> kind, what |-> what, index |-> index, calm |-> Idle])

\* addServerForm: a server with a secret.
AddServer(s, weak) ==
  /\ Act /\ s \notin saved
  /\ saved' = saved \cup {s}
  /\ Ask("save-server", [id |-> s, weak |-> weak, secret |-> TRUE], 0)
  /\ UNCHANGED <<mainVars, form, shown, toWindow>>

\* connectToServer and deleteServer: the position of the card that is clicked.
ClickCard(i) ==
  /\ Act /\ i \in DOMAIN shown
  /\ Ask("delete-server", shown[i], i) \/ Ask("connect-saved-server", shown[i], i)
  /\ UNCHANGED <<mainVars, form, shown, toWindow, saved>>

\* parseConnectionLink: what a link stands for.
Linked(weak) == [id |-> Nil, weak |-> weak, secret |-> TRUE]

\* connectFromLink
ConnectLink(weak) ==
  /\ Act
  /\ Ask("connect-vpn", Linked(weak), 0)
  /\ UNCHANGED <<mainVars, form, shown, toWindow, saved>>

\* The settings form: one field is changed, and the form is submitted.
SubmitSettings ==
  /\ Act
  /\ form' \in {[form EXCEPT !.saveSecrets = ~@], [form EXCEPT !.allowInsecure = ~@]}
               \cup {[form EXCEPT !.service = v] : v \in Services}
  /\ Ask("save-settings", form', 0)
  /\ UNCHANGED <<mainVars, shown, toWindow, saved>>

ClickDisconnect ==
  /\ Act
  /\ Ask("disconnect-vpn", Nil, 0)
  /\ UNCHANGED <<mainVars, form, shown, toWindow, saved>>

\* Mutant of Reloading: the list is left as it is after a server is deleted.
ReloadingAfterSave == {"save-server"}

\* After which answers the window asks for the servers: loadServers.
Reloading == {"save-server", "delete-server"}

Receive ==
  /\ toWindow # <<>>
  /\ toWindow' = Tail(toWindow)
  /\ shown' = IF Head(toWindow).kind = "servers" THEN Head(toWindow).list ELSE shown
  /\ IF Head(toWindow).kind \in Reloading THEN Ask("get-servers", Nil, 0) ELSE UNCHANGED toMain
  /\ UNCHANGED <<mainVars, form, saved, acts>>

-----------------------------------------------------------------------------
(* The main process                                                        *)

Requested(kind) == toMain # <<>> /\ Head(toMain).kind = kind
What == Head(toMain).what
Answer(reply) ==
  /\ toMain' = Tail(toMain)
  /\ toWindow' = Append(toWindow, reply)
  /\ UNCHANGED <<form, shown, saved, acts>>
Done == Answer([kind |-> Head(toMain).kind, list |-> <<>>])

\* Mutant of Accepted: a saved server was found good when it was saved.
AcceptedOnceSaved(config) == config.id # Nil \/ ~config.weak \/ settings.allowInsecure

\* normalizeConfig: what is refused for its transport.
Accepted(config) == ~config.weak \/ settings.allowInsecure

\* prepareServerForStorage: the secret is dropped unless secrets are saved.
Prepared(config) == [config EXCEPT !.secret = config.secret /\ settings.saveSecrets]

\* Encrypting a secret without the keyring throws.
Storable(config) == Prepared(config).secret => keyring

\* "save-server"
SaveServer ==
  /\ Requested("save-server")
  /\ servers' = IF Accepted(What) /\ Storable(What) THEN Append(servers, Prepared(What)) ELSE servers
  /\ Done
  /\ UNCHANGED <<settings, last, route, proxied, keyring, moved>>

\* "delete-server": whatever server is at that position by now.
DeleteServer ==
  /\ Requested("delete-server")
  /\ servers' = IF Head(toMain).index \in DOMAIN servers
                  THEN RemoveAt(servers, Head(toMain).index) ELSE servers
  /\ Done
  /\ UNCHANGED <<settings, last, route, proxied, keyring, moved>>

\* "get-servers": publicServerView keeps secrets back.
GetServers ==
  /\ Requested("get-servers")
  /\ Answer([kind |-> "servers", list |-> servers])
  /\ UNCHANGED mainVars

\* "save-settings"
SaveSettings ==
  /\ Requested("save-settings")
  /\ settings' = What
  /\ moved' = (moved \/ (route # Nil /\ What.service # settings.service))
  /\ Done
  /\ UNCHANGED <<servers, last, route, proxied, keyring>>

\* clearSystemProxy: of the service that the settings name by now.
Cleared == proxied \ {settings.service}

\* connectToVPN, which takes down the route that is up, sets the system proxy
\* and stores the configuration for the next time.
RouteUp(config) ==
  /\ Accepted(config)
  /\ route' = config
  /\ proxied' = (IF route # Nil THEN Cleared ELSE proxied) \cup {settings.service}
  /\ last' = IF Storable(config) THEN Prepared(config) ELSE Nil

\* It failed: whatever was up is taken down.
RouteDown == route' = Nil /\ proxied' = Cleared /\ UNCHANGED last

\* hydrateStoredServer needs the keyring for a secret that is kept.
Readable(config) == config.secret => keyring

\* "connect-vpn" and "connect-saved-server"
Connect ==
  LET config == IF Requested("connect-vpn") THEN What ELSE servers[Head(toMain).index]
  IN
    /\ Requested("connect-vpn") \/ Requested("connect-saved-server")
    /\ IF Requested("connect-saved-server") /\
            (Head(toMain).index \notin DOMAIN servers \/ ~Readable(servers[Head(toMain).index]))
         THEN UNCHANGED <<route, proxied, last>>
         ELSE RouteUp(config) \/ RouteDown
    /\ Done
    /\ UNCHANGED <<settings, servers, keyring, moved>>

\* "disconnect-vpn"
Disconnect ==
  /\ Requested("disconnect-vpn")
  /\ RouteDown
  /\ Done
  /\ UNCHANGED <<settings, servers, keyring, moved>>

ConnectLast == last # Nil /\ Readable(last) /\ (RouteUp(last) \/ RouteDown)

\* The tray's "Quick Connect", and the monitor's reconnection.
Again ==
  /\ Act
  /\ \/ route # Nil /\ (RouteUp(route) \/ RouteDown)
     \/ route = Nil /\ ConnectLast
  /\ UNCHANGED <<settings, servers, keyring, moved, form, shown, toMain, toWindow, saved>>

\* readCliConfig: a configuration that --config names.
CliConfig == {Linked(weak) : weak \in BOOLEAN}

\* The fields show the settings that main has.
loadSettings == form' = settings

\* The application was closed without a route and starts anew, with --config or
\* --connect-last: store and settings are still there.
Restart ==
  /\ Act /\ route = Nil /\ Idle
  /\ \/ \E config \in CliConfig : RouteUp(config) \/ RouteDown
     \/ ConnectLast
  /\ loadSettings /\ shown' = servers
  /\ UNCHANGED <<settings, servers, keyring, moved, toMain, toWindow, saved>>

\* The keyring is locked or unlocked.
Keyring ==
  /\ Act
  /\ keyring' = ~keyring
  /\ UNCHANGED <<settings, servers, last, route, proxied, moved, form, shown, toMain, toWindow, saved>>

Next ==
  \/ \E s \in Servers, weak \in BOOLEAN : AddServer(s, weak)
  \/ \E i \in DOMAIN shown : ClickCard(i)
  \/ \E weak \in BOOLEAN : ConnectLink(weak)
  \/ SubmitSettings \/ ClickDisconnect \/ Receive
  \/ SaveServer \/ DeleteServer \/ GetServers \/ SaveSettings \/ Connect \/ Disconnect
  \/ Again \/ Restart \/ Keyring

Spec == Init /\ [][Next]_vars

-----------------------------------------------------------------------------
(* Properties                                                              *)

\* A deletion removes the server whose card was clicked, unless it was clicked
\* while another request was on its way.
DeletesTheClicked ==
  [][ DeleteServer /\ Head(toMain).calm =>
        LET i == Head(toMain).index IN i \in DOMAIN servers /\ servers[i].id = What.id ]_vars

\* A route over a weak transport is only started while weak transports are
\* allowed, whenever the server was saved.
WeakNeedsConsent ==
  [][ route' # route /\ route' # Nil => ~route'.weak \/ settings.allowInsecure ]_vars

\* A secret comes into the store only while secrets are saved, whether with a
\* server or with the last connection.
SecretsEnterWithConsent ==
  [][ \/ settings.saveSecrets
      \/ /\ \A i \in DOMAIN servers' : servers'[i].secret => servers'[i] \in ToSet(servers)
         /\ last' # Nil => (last'.secret => last' = last) ]_vars

\* Without a route no service has a proxy left, unless the service was changed
\* in the settings while a route was up.
ProxyIsTakenDown == route = Nil /\ ~moved => proxied = {}

\* Together: a route is accepted as it starts and takes its proxy with it.
RouteIsSound == []ProxyIsTakenDown /\ WeakNeedsConsent

\* Together: the store loses only what was clicked, and takes only what may be kept.
StoreIsSound == DeletesTheClicked /\ SecretsEnterWithConsent

==============================================================================
