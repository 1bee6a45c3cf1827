------------------------------ MODULE Settings ------------------------------
(***************************************************************************)
(* The settings dialog and the first-run wizard of the web front end, and  *)
(* the settings of the backend that both write.  The dialog loads its two  *)
(* forms whenever it opens, the user may edit while a load or a save goes  *)
(* on, and a reply may come late.  The wizard runs in a second window.     *)
(*                                                                         *)
(* One rate limit and the download path stand for the general settings, a  *)
(* switch for the advanced ones, no-logs mode, sharing and the connection  *)
(* type for the security settings.                                         *)
(***************************************************************************)
EXTENDS Integers, FiniteSets

CONSTANTS
  TorEnabled,  \* does the backend run with its Tor proxy?  Fixed at its start
  MaxActs,     \* bound: what the users do
  Nil

VARIABLES
  open, showDeleteConfirm,
  settings, securitySettings,   \* the two forms
  isLoading,
  call,      \* the request of the dialog that changes something, or Nil
  loads,     \* replies under way that will fill a form: <<form, content>>
  db,        \* the settings table
  live,      \* the privacy configuration of the torrent client
  wizard,    \* step, configuration, requests, and is the setup completed?
  acts,      \* number of user actions so far
  base,      \* history: what the general form was last loaded with, or Nil
  touched    \* history: its fields that were edited since

dialog == <<open, showDeleteConfirm, settings, securitySettings, isLoading, call>>
history == <<base, touched>>
vars == <<dialog, loads, db, live, wizard, acts, history>>

Blank == ""
DefaultPath == "/app/downloads"
Limits == {Blank, "100"}
Places == {DefaultPath, "/data"}
General == {"limit", "path"}
Advanced == {"default", "changed"}
Security == [noLogs : BOOLEAN, sharingDisabled : BOOLEAN, vpn : {"none", "tor", "vless"}]

-----------------------------------------------------------------------------
(* The backend                                                             *)

EmptyDb == [limit |-> Blank, path |-> Blank, noLogs |-> FALSE, sharingDisabled |-> TRUE,
            vpn |-> "none"]

GetSettings == [limit |-> db.limit, path |-> db.path]

GetSecurityConfig ==
  [noLogs |-> db.noLogs, sharingDisabled |-> db.sharingDisabled,
   vpn |-> IF TorEnabled /\ db.vpn = "none" THEN "tor" ELSE db.vpn]

\* Blank fields are left as they are, and so are advanced ones: they have no
\* place in the table.
UpdateSettings(req) ==
  /\ db' = [db EXCEPT !.limit = IF req.limit = Blank THEN @ ELSE req.limit,
                      !.path = IF req.path = Blank THEN @ ELSE req.path]
  /\ UNCHANGED live

\* No-logs mode takes the switches with it that would leave traces.
Forced(c) == [c EXCEPT !.sharingDisabled = @ \/ c.noLogs]

SetTorEnabled(on) == on = TorEnabled

UpdateSecuritySettings(req) ==
  LET c == Forced(req)
  IN /\ req.vpn # "vless" /\ SetTorEnabled(req.vpn = "tor")
     /\ db' = [db EXCEPT !.noLogs = c.noLogs, !.sharingDisabled = c.sharingDisabled,
                         !.vpn = c.vpn]
     /\ live' = [noLogs |-> c.noLogs, sharingDisabled |-> c.sharingDisabled]

\* The client turns sharing off with no-logs mode; the table keeps its value.
ApplyInitialConfig(req) ==
  /\ SetTorEnabled(req.tor)
  /\ db' = [db EXCEPT !.path = IF req.path = Blank THEN @ ELSE req.path,
                      !.noLogs = req.noLogs, !.vpn = "none"]
  /\ live' = [noLogs |-> req.noLogs, sharingDisabled |-> live.sharingDisabled \/ req.noLogs]

\* Torrents, settings, temporary files and downloads go in this order.
CleanupData == db' \in {db, EmptyDb} /\ UNCHANGED live

-----------------------------------------------------------------------------
(* The dialog                                                              *)

InitialForm == [limit |-> Blank, path |-> DefaultPath, advanced |-> "default"]
InitialSecurity == [noLogs |-> FALSE, sharingDisabled |-> TRUE, vpn |-> "none"]
InitialConfig == [path |-> Blank, tor |-> FALSE, noLogs |-> TRUE]

\* A path that was chosen before the server started.
StoredDb == [EmptyDb EXCEPT !.path = "/data"]

Init ==
  /\ open = FALSE /\ showDeleteConfirm = FALSE /\ isLoading = FALSE
  /\ settings = InitialForm /\ securitySettings = InitialSecurity
  /\ call = Nil /\ loads = {}
  /\ db \in {EmptyDb, StoredDb} /\ live = [noLogs |-> FALSE, sharingDisabled |-> TRUE]
  /\ wizard = [open |-> TRUE, step |-> 1, config |-> InitialConfig, posts |-> {},
               completed |-> FALSE, stored |-> Nil, accepted |-> {}]
  /\ acts = 0 /\ base = Nil /\ touched = {}

Act == acts < MaxActs /\ acts' = acts + 1

fetchSettings == <<"general", GetSettings>>
fetchSecuritySettings == <<"security", GetSecurityConfig>>

Open ==
  /\ ~open /\ Act
  /\ open' = TRUE
  /\ loads' = loads \cup {fetchSettings, fetchSecuritySettings}
  /\ UNCHANGED <<showDeleteConfirm, settings, securitySettings, isLoading, call, db, live,
                 wizard, history>>

Close ==
  /\ open /\ Act
  /\ open' = FALSE
  /\ UNCHANGED <<showDeleteConfirm, settings, securitySettings, isLoading, call, loads, db,
                 live, wizard, history>>

Reset(load) ==
  /\ open /\ ~isLoading /\ Act
  /\ loads' = loads \cup {load}
  /\ UNCHANGED <<dialog, db, live, wizard, history>>

\* Mutant of LoadedForm: a stored path is not shown.
FormForgetsPath(data) ==
  [limit |-> data.limit, path |-> DefaultPath, advanced |-> "default"]

LoadedForm(data) ==
  [limit |-> data.limit, path |-> IF data.path = Blank THEN DefaultPath ELSE data.path,
   advanced |-> "default"]

\* A reply comes in, and fills the form whatever the user did meanwhile...
Loaded(load) ==
  /\ loads' = loads \ {load}
  /\ IF load[1] = "general"
     THEN /\ settings' = LoadedForm(load[2])
          /\ base' = load[2] /\ touched' = {}
          /\ UNCHANGED securitySettings
     ELSE /\ securitySettings' = load[2]
          /\ UNCHANGED <<settings, history>>
  /\ UNCHANGED <<open, showDeleteConfirm, isLoading, call, db, live, wizard, acts>>

\* ... or it is an error, or never comes.
LoadFails(load) ==
  /\ loads' = loads \ {load}
  /\ UNCHANGED <<dialog, db, live, wizard, acts, history>>

Edit(f, v) ==
  /\ open /\ Act
  /\ settings' = [settings EXCEPT ![f] = v]
  /\ touched' = touched \cup {f}
  /\ UNCHANGED <<open, showDeleteConfirm, securitySettings, isLoading, call, loads, db, live,
                 wizard, base>>

setSecurityToggle(f, v) ==
  /\ open /\ Act
  /\ securitySettings' = [securitySettings EXCEPT ![f] = v]
  /\ UNCHANGED <<open, showDeleteConfirm, settings, isLoading, call, loads, db, live, wizard,
                 history>>

GeneralTab ==
  \/ \E v \in Limits : Edit("limit", v)
  \/ \E v \in Places \cup {Blank} : Edit("path", v)

\* Sent with every save, and gone with the next load.
AdvancedTab == \E v \in Advanced : Edit("advanced", v)

SecurityTab == \E f \in {"noLogs", "sharingDisabled"}, v \in BOOLEAN : setSecurityToggle(f, v)

ConnectionType == \E v \in {"none", "tor", "vless"} : setSecurityToggle("vpn", v)

Ask(c) == call' = c /\ isLoading' = TRUE

Idle == ~isLoading

Save(kind, req) ==
  /\ open /\ Idle /\ Act
  /\ Ask([kind |-> kind, req |-> req, base |-> base, touched |-> touched])
  /\ UNCHANGED <<open, showDeleteConfirm, settings, securitySettings, loads, db, live, wizard,
                 history>>

handleSave == Save("general", settings)
handleSaveSecurity == Save("security", securitySettings)
handleKillSwitch == Save("kill", Nil)

ShowDeleteConfirm(shown) ==
  /\ Idle /\ Act
  /\ shown => open
  /\ showDeleteConfirm' = shown
  /\ UNCHANGED <<open, settings, securitySettings, isLoading, call, loads, db, live, wizard,
                 history>>

handleDeleteAllData ==
  /\ showDeleteConfirm /\ ~isLoading /\ Act
  /\ Ask([kind |-> "delete", req |-> Nil, base |-> base, touched |-> touched])
  /\ UNCHANGED <<open, showDeleteConfirm, settings, securitySettings, loads, db, live, wizard,
                 history>>

Finally == call' = Nil /\ isLoading' = FALSE

SettingsSaved ==
  /\ call # Nil /\ call.kind = "general"
  /\ UpdateSettings(call.req)
  /\ Finally
  /\ UNCHANGED <<open, showDeleteConfirm, settings, securitySettings, loads, wizard, acts, history>>

\* The dialog loads the form again before it says that it is saved; if that
\* fails the form stays as it is.
SecuritySaved ==
  /\ call # Nil /\ call.kind = "security"
  /\ UpdateSecuritySettings(call.req)
  /\ securitySettings' \in {securitySettings, GetSecurityConfig'}
  /\ Finally
  /\ UNCHANGED <<open, showDeleteConfirm, settings, loads, wizard, acts, history>>

Killed ==
  /\ call # Nil /\ call.kind = "kill"
  /\ open' = FALSE
  /\ Finally
  /\ UNCHANGED <<showDeleteConfirm, settings, securitySettings, loads, db, live, wizard, acts,
                 history>>

Deleted ==
  /\ call # Nil /\ call.kind = "delete"
  /\ CleanupData /\ db' = EmptyDb
  /\ open' = FALSE /\ showDeleteConfirm' = FALSE
  /\ Finally
  /\ UNCHANGED <<settings, securitySettings, loads, wizard, acts, history>>

\* Refused or lost; a cleanup may have gone half of its way.
CallFails ==
  /\ call # Nil
  /\ IF call.kind = "delete" THEN CleanupData ELSE UNCHANGED <<db, live>>
  /\ Finally
  /\ UNCHANGED <<open, showDeleteConfirm, settings, securitySettings, loads, wizard, acts,
                 history>>

-----------------------------------------------------------------------------
(* The wizard                                                              *)

Elsewhere == UNCHANGED <<dialog, loads, history>>

\* What the backend runs with is filled in when the first reply comes.
WizardLoads ==
  /\ wizard.open /\ wizard.config.tor # TorEnabled
  /\ wizard' = [wizard EXCEPT !.config.tor = TorEnabled]
  /\ Elsewhere /\ UNCHANGED <<db, live, acts>>

EditConfig(f, v) ==
  /\ wizard.open /\ Act
  /\ <<f, wizard.step>> \in {<<"noLogs", 1>>, <<"path", 3>>}
  /\ wizard' = [wizard EXCEPT !.config[f] = v]
  /\ Elsewhere /\ UNCHANGED <<db, live>>

nextStep ==
  /\ wizard.open /\ wizard.step < 4
  /\ wizard' = [wizard EXCEPT !.step = @ + 1]
  /\ Elsewhere /\ UNCHANGED <<db, live, acts>>

prevStep ==
  /\ wizard.open /\ wizard.step > 1
  /\ wizard' = [wizard EXCEPT !.step = @ - 1]
  /\ Elsewhere /\ UNCHANGED <<db, live, acts>>

\* Nothing disables the button while a request is under way.
completeSetup ==
  /\ wizard.open /\ wizard.step = 4 /\ Act
  /\ wizard' = [wizard EXCEPT !.posts = @ \cup {<<"asked", wizard.config>>}]
  /\ Elsewhere /\ UNCHANGED <<db, live>>

SetupReaches(c) ==
  /\ <<"asked", c>> \in wizard.posts
  /\ \/ /\ ApplyInitialConfig(c)
        /\ wizard' = [wizard EXCEPT !.posts = (@ \ {<<"asked", c>>}) \cup {<<"accepted", c>>},
                                    !.accepted = @ \cup {c}]
     \/ /\ wizard' = [wizard EXCEPT !.posts = (@ \ {<<"asked", c>>}) \cup {<<"refused", c>>}]
        /\ UNCHANGED <<db, live>>
  /\ Elsewhere /\ UNCHANGED acts

\* What was accepted is stored in the browser; the user starts again otherwise.
SetupEnds(outcome, c) ==
  /\ <<outcome, c>> \in wizard.posts /\ outcome # "asked"
  /\ wizard' = IF outcome = "accepted"
               THEN [wizard EXCEPT !.posts = @ \ {<<outcome, c>>}, !.completed = TRUE,
                                   !.stored = c, !.open = FALSE]
               ELSE [wizard EXCEPT !.posts = @ \ {<<outcome, c>>}]
  /\ Elsewhere /\ UNCHANGED <<db, live, acts>>

Dismiss ==
  /\ wizard.open /\ Act
  /\ wizard' = [wizard EXCEPT !.open = FALSE]
  /\ Elsewhere /\ UNCHANGED <<db, live>>

-----------------------------------------------------------------------------

Answer == SettingsSaved \/ SecuritySaved \/ Killed \/ Deleted \/ CallFails

Next ==
  \/ Open \/ Close \/ Reset(fetchSettings) \/ Reset(fetchSecuritySettings)
  \/ \E load \in loads : Loaded(load) \/ LoadFails(load)
  \/ GeneralTab \/ AdvancedTab \/ SecurityTab \/ ConnectionType
  \/ handleSave \/ handleSaveSecurity \/ handleKillSwitch \/ handleDeleteAllData
  \/ \E shown \in BOOLEAN : ShowDeleteConfirm(shown)
  \/ Answer
  \/ WizardLoads \/ nextStep \/ prevStep \/ completeSetup \/ Dismiss
  \/ \E v \in Places \cup {Blank} : EditConfig("path", v)
  \/ \E v \in BOOLEAN : EditConfig("noLogs", v)
  \/ \E post \in wizard.posts : SetupReaches(post[2]) \/ SetupEnds(post[1], post[2])

\* A request of the dialog is answered, or fails.
Fairness == WF_vars(Answer)

Spec == Init /\ [][Next]_vars /\ Fairness

-----------------------------------------------------------------------------
(* Properties                                                              *)

Configs == [path : Places \cup {Blank}, tor : BOOLEAN, noLogs : BOOLEAN]

\* The forms, the table and the wizard hold values of their fields.
TypeOK ==
  /\ settings \in [limit : Limits, path : Places \cup {Blank}, advanced : Advanced]
  /\ securitySettings \in Security
  /\ db \in [limit : Limits, path : Places \cup {Blank}, noLogs : BOOLEAN,
             sharingDisabled : BOOLEAN, vpn : {"none", "tor"}]
  /\ wizard.config \in Configs /\ wizard.step \in 1..4
  /\ isLoading = (call # Nil)

\* A torrent client in no-logs mode shares nothing, whoever turned it on and
\* whatever the form that was saved says of sharing.
NoLogsHolds == live.noLogs => live.sharingDisabled

\* A save of the general settings is a save of the whole form, and yet it
\* changes nothing that the user left alone, as long as the form was loaded
\* and nobody else changed it since: however loads, edits and saves overlap,
\* and although an empty field is not stored and a missing one is defaulted.
Effective(f, v) == IF f = "path" /\ v = Blank THEN DefaultPath ELSE v
UntouchedIsKept ==
  [][\A f \in General :
       SettingsSaved /\ call.base # Nil /\ f \notin call.touched /\ call.base[f] = db[f]
         => Effective(f, db'[f]) = Effective(f, db[f])]_vars

\* The wizard is over for good only if the backend accepted what is stored.
SetupWasAccepted == wizard.completed => wizard.stored \in wizard.accepted

\* The dialog never stays disabled, however its request ends.
DialogComesBack == []<>~isLoading

\* Together: settings change only by what the user does and the backend
\* accepts.
SettingsAreKept == [](TypeOK /\ NoLogsHolds /\ SetupWasAccepted) /\ UntouchedIsKept

=============================================================================
