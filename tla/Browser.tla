------------------------------- MODULE Browser -------------------------------
(***************************************************************************)
(* The main process of the standalone browser (browser/main.js): its tabs, *)
(* each with a session of its own, and the proxy that all sessions share   *)
(* by convention only.                                                     *)
(*                                                                         *)
(* A handler runs to its first await in one step.  session.setProxy is     *)
(* asynchronous: a session works off the settings it is given in order,    *)
(* and the handler "set-proxy" goes on when all of its own are through.    *)
(***************************************************************************)
EXTENDS Naturals, Sequences, SequencesExt

CONSTANTS
  Tabs,        \* the tabs that a run of the browser opens
  Window,      \* the session of the main window
  Proxies,     \* the proxy settings that users save
  Direct,      \* no proxy: null
  Calls,       \* calls of "set-proxy" in flight
  Nobody,      \* no tab, or no call
  MaxPending   \* bound: settings that a session has still to apply

ASSUME NamesAssumption ==
  /\ Window \notin Tabs
  /\ Direct \notin Proxies
  /\ Nobody \notin Tabs \cup Calls \cup Proxies \cup {Direct}
ASSUME PendingAssumption == MaxPending \in Nat

VARIABLES
  tabs,          \* the keys of tabs, in the order in which they were set
  activeTabId,
  attached,      \* the views that the window shows
  used,          \* history: tabs created in this run
  proxyConfig,   \* the proxy that new tabs are given
  stored,        \* store.get("proxy")
  proxy,         \* the proxy of each session
  pending,       \* what each session has still to apply, in order
  calls,         \* each call of "set-proxy": its setting, while it waits
  disturbed      \* history: since the last call that began on its own, another
                 \* one began or a tab was created while a call was in flight,
                 \* or a session rejected a setting

tabVars == <<tabs, activeTabId, attached, used>>
vars == <<tabs, activeTabId, attached, used, proxyConfig, stored, proxy, pending, calls,
          disturbed>>

Sessions == Tabs \cup {Window}
Settings == Proxies \cup {Direct}
Open == ToSet(tabs)

Waiting(c) == calls[c] # Nobody
InFlight == \E c \in Calls : Waiting(c)

Init ==
  /\ tabs = <<>> /\ activeTabId = Nobody /\ attached = {} /\ used = {}
  /\ stored = Direct /\ proxyConfig = Direct
  /\ proxy = [s \in Sessions |-> Direct]
  /\ pending = [s \in Sessions |-> <<>>]
  /\ calls = [c \in Calls |-> Nobody]
  /\ disturbed = FALSE

-----------------------------------------------------------------------------
(* Tabs                                                                    *)

\* switchToTab, with the views that are attached when it is called.
SwitchToTab(t, views) ==
  /\ activeTabId' = t
  /\ attached' = (views \ {activeTabId}) \cup {t}

\* createTab: what the new session is given.
ProxyOfNew == IF proxyConfig = Direct THEN <<>> ELSE <<[by |-> Nobody, rules |-> proxyConfig]>>

Fresh(t) == t \notin used

\* "create-tab", a pop-up that is allowed, or the timer after start-up.
CreateTab(t) ==
  /\ Fresh(t)
  /\ used' = used \cup {t}
  /\ tabs' = Append(tabs, t)
  /\ pending' = [pending EXCEPT ![t] = ProxyOfNew]
  /\ SwitchToTab(t, attached)
  /\ disturbed' = (disturbed \/ InFlight)
  /\ UNCHANGED <<proxyConfig, stored, proxy, calls>>

\* "switch-tab"
SwitchTab(t) ==
  /\ t \in Open
  /\ SwitchToTab(t, attached)
  /\ UNCHANGED <<tabs, used, proxyConfig, stored, proxy, pending, calls, disturbed>>

\* "close-tab"; the youngest of the other tabs takes the place of the active one.
CloseTab(t) ==
  LET rest == RemoveFirst(tabs, t)
  IN
    /\ t \in Open
    /\ tabs' = rest
    /\ CASE activeTabId # t -> UNCHANGED <<activeTabId, attached>>
         [] activeTabId = t /\ rest # <<>> -> SwitchToTab(Last(rest), attached \ {t})
         [] activeTabId = t /\ rest = <<>> -> activeTabId' = Nobody /\ attached' = attached \ {t}
    /\ UNCHANGED <<used, proxyConfig, stored, proxy, pending, calls, disturbed>>

-----------------------------------------------------------------------------
(* The proxy                                                               *)

\* Mutant of Targets: the tab that is shown, and no other, gets the proxy.
TargetsShown == {Window} \cup attached

\* The sessions that a call gives its setting to.
Targets == {Window} \cup Open

\* "set-proxy" up to its await.
SetProxy(c, rules) ==
  /\ ~Waiting(c)
  /\ \A s \in Sessions : Len(pending[s]) < MaxPending
  /\ calls' = [calls EXCEPT ![c] = rules]
  /\ pending' = [s \in Sessions |->
       IF s \in Targets THEN Append(pending[s], [by |-> c, rules |-> rules]) ELSE pending[s]]
  /\ disturbed' = InFlight
  /\ UNCHANGED <<tabVars, proxyConfig, stored, proxy>>

\* A session applies the oldest setting it has been given.
Apply(s) ==
  /\ pending[s] # <<>>
  /\ proxy' = [proxy EXCEPT ![s] = Head(pending[s]).rules]
  /\ pending' = [pending EXCEPT ![s] = Tail(@)]
  /\ UNCHANGED <<tabVars, proxyConfig, stored, calls, disturbed>>

\* A session rejects it: Promise.all rejects at once, and the handler with it.
\* What the other sessions were given, they still apply.
Rejected(s) ==
  /\ pending[s] # <<>>
  /\ LET c == Head(pending[s]).by
     IN  calls' = [d \in Calls |-> IF d = c THEN Nobody ELSE calls[d]]
  /\ pending' = [q \in Sessions |->
       LET rest == IF q = s THEN Tail(pending[q]) ELSE pending[q]
       IN  [i \in DOMAIN rest |->
              IF rest[i].by = Head(pending[s]).by THEN [rest[i] EXCEPT !.by = Nobody] ELSE rest[i]]]
  /\ disturbed' = TRUE
  /\ UNCHANGED <<tabVars, proxyConfig, stored, proxy>>

\* Mutant of Through: the handler waits for sessions that were given nothing.
ThroughEverywhere(c) == \A s \in Sessions : proxy[s] = calls[c]

\* All that the call has given out is applied.
Through(c) == \A s \in Sessions : \A i \in DOMAIN pending[s] : pending[s][i].by # c

\* "set-proxy" after its await.
Resume(c) ==
  /\ Waiting(c)
  /\ Through(c)
  /\ proxyConfig' = calls[c]
  /\ stored' = calls[c]
  /\ calls' = [calls EXCEPT ![c] = Nobody]
  /\ UNCHANGED <<tabVars, proxy, pending, disturbed>>

\* The browser is left and started again.  Sessions are kept in memory only;
\* the store is on disk, under a key that depends on the time, so that it may
\* be found invalid and cleared.
Relaunch ==
  /\ stored' \in {stored, Direct}
  /\ tabs' = <<>> /\ activeTabId' = Nobody /\ attached' = {} /\ used' = {}
  /\ proxyConfig' = stored'
  /\ proxy' = [s \in Sessions |-> Direct]
  /\ pending' = [s \in Sessions |-> <<>>]
  /\ calls' = [c \in Calls |-> Nobody]
  /\ disturbed' = FALSE

Next ==
  \/ \E t \in Tabs : CreateTab(t) \/ SwitchTab(t) \/ CloseTab(t)
  \/ \E c \in Calls : Resume(c) \/ \E rules \in Settings : SetProxy(c, rules)
  \/ \E s \in Sessions : Apply(s) \/ Rejected(s)
  \/ Relaunch

Spec == Init /\ [][Next]_vars

\* setProxy settles, and a settled promise resumes its handler.
Fairness ==
  /\ \A s \in Sessions : WF_vars(Apply(s) \/ Rejected(s))
  /\ \A c \in Calls : WF_vars(Resume(c))

FairSpec == Spec /\ Fairness

-----------------------------------------------------------------------------
(* Properties                                                              *)

\* Every variable keeps the shape the code gives it.
TypeOK ==
  /\ IsInjective(tabs) /\ tabs \in Seq(Tabs) /\ Open \subseteq used /\ used \subseteq Tabs
  /\ activeTabId \in Tabs \cup {Nobody}
  /\ attached \subseteq Tabs
  /\ proxyConfig \in Settings /\ stored \in Settings
  /\ proxy \in [Sessions -> Settings]
  /\ pending \in [Sessions -> Seq([by : Calls \cup {Nobody}, rules : Settings])]
  /\ calls \in [Calls -> Settings \cup {Nobody}]
  /\ disturbed \in BOOLEAN

\* The window shows the view of the active tab, which is open, and no other;
\* it shows none only when no tab is open.
ActiveIsShown ==
  /\ attached = {activeTabId} \ {Nobody}
  /\ activeTabId = Nobody <=> tabs = <<>>
  /\ attached \subseteq Open

\* What a session is about to use: the last setting it has been given.
Bound(s) == IF pending[s] = <<>> THEN proxy[s] ELSE Last(pending[s]).rules

\* docs/STANDALONE_APPS.md:136, "network-layer privacy from your configured
\* proxy": while no change is under way, every open tab uses, or is about to
\* use, the proxy that is configured and that the user is shown; unless the
\* last change met another one, a new tab or a rejection.
TabsUseProxy ==
  ~InFlight /\ ~disturbed => \A t \in Open : Bound(t) = proxyConfig /\ proxyConfig = stored

\* When a change that nothing disturbed is stored and reported as made, every
\* open tab has applied it.
ReportedIsApplied ==
  [][ \A c \in Calls : Resume(c) /\ ~disturbed => \A t \in Open : proxy[t] = calls[c] ]_vars

\* Together: the window shows one of its tabs, tabs use the proxy on show, and
\* a change is reported when they do.
TabsAreSound == [](TypeOK /\ ActiveIsShown /\ TabsUseProxy) /\ ReportedIsApplied

\* Every change of the proxy ends, with success or not.
ChangesSettle == \A c \in Calls : Waiting(c) ~> ~Waiting(c)

-----------------------------------------------------------------------------
(* What the code says of itself and does not do                            *)

\* The same without the exception: a change is reported as made only when
\* every open tab has applied it.
ReportedEverywhere ==
  [][ \A c \in Calls : Resume(c) => \A t \in Open : proxy[t] = calls[c] ]_vars
==============================================================================
