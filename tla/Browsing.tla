------------------------------- MODULE Browsing -------------------------------
(***************************************************************************)
(* What the standalone browser lets through and what it keeps              *)
(* (browser/main.js, browser/renderer.js): addresses and requests, the     *)
(* counters of what was blocked, the protection settings and their dialog, *)
(* searches, and the clearing of data, which waits for one session after   *)
(* the other while tabs come and go.                                       *)
(***************************************************************************)
EXTENDS Integers, Sequences, SequencesExt

CONSTANTS
  Tabs,      \* the tabs that a run opens
  Clears,    \* clearings of data that may be under way at once
  MaxActs    \* bound: what users and pages do

Flags == {"httpsOnlyMode", "blockAds", "blockPopups"}
Addresses == {"https", "http", "local", "other"}   \* kinds of addresses
Blocked == {"ads", "heuristic", "downloads"}       \* what is counted apart
Default == [f \in Flags |-> TRUE]
Nothing == [b \in Blocked |-> 0]

VARIABLES
  tabs, used,      \* the open tabs in order; history: all so far
  going, page,     \* the address a tab asks for, and that of its page
  settings,        \* store: "browserSettings"
  stats, total,    \* blockStats
  dirty,           \* tabs with data in their session
  clearing,        \* each clearing: the tabs it has still to come to
  proxy, route,    \* store: whether a proxy is set; what the sessions use
  form, dialog, touched,   \* window: the boxes of the dialog, its state; history: boxes touched
  search,          \* window: a search on its way
  popups, chosen, sentUnder, cleared, rejected, switched, acts   \* history
  \* pop-ups counted since the reset; the flags last saved; the setting under
  \* which each page was asked for; the tabs that each clearing must have
  \* cleared and has not; whether a session refused; whether the proxy has
  \* been changed since the search was begun; acts so far

tabVars == <<tabs, used, going, page, sentUnder>>
statVars == <<stats, total, popups>>
clearVars == <<dirty, clearing, cleared, rejected>>
netVars == <<proxy, route, search, switched>>
dialogVars == <<settings, form, dialog, touched, chosen>>
vars == <<tabVars, statVars, clearVars, netVars, dialogVars, acts>>

Done == [left |-> <<>>, at |-> "done"]

Init ==
  /\ tabs = <<>> /\ used = {}
  /\ going = [t \in Tabs |-> "none"] /\ page = [t \in Tabs |-> "none"]
  /\ sentUnder = [t \in Tabs |-> FALSE]
  /\ settings = Default /\ chosen = Default
  /\ form = Default /\ dialog = "closed" /\ touched = {}
  /\ stats = Nothing /\ total = 0 /\ popups = 0
  /\ dirty = {} /\ clearing = [c \in Clears |-> Done] /\ cleared = [c \in Clears |-> {}]
  /\ rejected = FALSE
  /\ proxy = FALSE /\ route = FALSE /\ search = "none" /\ switched = FALSE
  /\ acts = 0

Act == acts < MaxActs /\ acts' = acts + 1

-----------------------------------------------------------------------------
(* Addresses and requests                                                  *)

\* normalizeNavigationUrl: a clear address is raised to a secure one, unless
\* it is of this host or the setting is off; what is not of the web is refused.
Normalized(u) ==
  CASE u = "other" -> "none"
    [] u = "http" /\ settings["httpsOnlyMode"] -> "https"
    [] OTHER -> u

\* "navigate", "tab-navigate", and links: will-navigate.
Navigate(t, u) ==
  /\ Act /\ t \in ToSet(tabs)
  /\ Normalized(u) # "none"
  /\ going' = [going EXCEPT ![t] = Normalized(u)]
  /\ UNCHANGED <<tabs, used, page, sentUnder, statVars, clearVars, netVars, dialogVars>>

\* Mutant of Cancelled: the filter trusts that addresses were raised.
CancelledOther(u) == u = "other"

\* onBeforeRequest: what is cancelled for its scheme.
Cancelled(u) == u = "other" \/ (u = "http" /\ settings["httpsOnlyMode"])

\* onBeforeRequest: the lists and the patterns; a request counts once.
Listed(t) ==
  /\ Act /\ going[t] # "none" /\ ~Cancelled(going[t])
  /\ \E b \in {"ads", "heuristic"} :
       /\ b = "ads" => settings["blockAds"]
       /\ stats' = [stats EXCEPT ![b] = @ + 1]
  /\ total' = total + 1
  /\ going' = [going EXCEPT ![t] = "none"]
  /\ UNCHANGED <<tabs, used, page, sentUnder, popups, clearVars, netVars, dialogVars>>

\* A request passes or is cancelled; the answer is a page, or a redirection
\* that is requested in its turn.
Request(t) ==
  /\ going[t] # "none"
  /\ IF Cancelled(going[t])
       THEN going' = [going EXCEPT ![t] = "none"] /\ UNCHANGED <<page, sentUnder, dirty, acts>>
       ELSE \/ /\ page' = [page EXCEPT ![t] = going[t]]
               /\ sentUnder' = [sentUnder EXCEPT ![t] = settings["httpsOnlyMode"]]
               /\ going' = [going EXCEPT ![t] = "none"]
               /\ dirty' = dirty \cup {t}
               /\ UNCHANGED acts
            \/ /\ Act
               /\ \E u \in Addresses : going' = [going EXCEPT ![t] = u]
               /\ UNCHANGED <<page, sentUnder, dirty>>
  /\ UNCHANGED <<tabs, used, statVars, clearing, cleared, rejected, netVars, dialogVars>>

\* "will-download"
Download(t) ==
  /\ Act /\ t \in ToSet(tabs)
  /\ stats' = [stats EXCEPT !["downloads"] = @ + 1] /\ total' = total + 1
  /\ UNCHANGED <<tabVars, popups, clearVars, netVars, dialogVars>>

\* createTab, by the user or by a pop-up that is allowed.
CreateTab(t) ==
  /\ Act /\ t \notin used
  /\ tabs' = Append(tabs, t) /\ used' = used \cup {t}
  /\ clearing' = [c \in Clears |->
       IF clearing[c].at = "tabs" THEN [clearing[c] EXCEPT !.left = Append(@, t)] ELSE clearing[c]]
  /\ UNCHANGED <<going, page, sentUnder, statVars, dirty, cleared, rejected, netVars, dialogVars>>

\* setWindowOpenHandler, while pop-ups are blocked.
Popup ==
  /\ Act /\ tabs # <<>> /\ settings["blockPopups"]
  /\ total' = total + 1 /\ popups' = popups + 1
  /\ UNCHANGED <<tabVars, stats, clearVars, netVars, dialogVars>>

\* Mutant of Remaining: the walk over the tabs goes by position.
RemainingByPosition(left, t) == IF left = <<>> THEN left ELSE Tail(left)

\* A walk over the map of tabs does not come to a tab that is deleted.
Remaining(left, t) == RemoveFirst(left, t)

\* closeTab
CloseTab(t) ==
  /\ Act /\ t \in ToSet(tabs)
  /\ tabs' = RemoveFirst(tabs, t)
  /\ going' = [going EXCEPT ![t] = "none"] /\ page' = [page EXCEPT ![t] = "none"]
  /\ dirty' = dirty \ {t}
  /\ clearing' = [c \in Clears |-> [clearing[c] EXCEPT !.left = Remaining(@, t)]]
  /\ cleared' = [c \in Clears |-> cleared[c] \ {t}]
  /\ UNCHANGED <<used, sentUnder, statVars, rejected, netVars, dialogVars>>

\* "reset-block-stats"
Zero == Nothing
ResetStats ==
  /\ Act
  /\ stats' = Zero /\ total' = 0 /\ popups' = 0
  /\ UNCHANGED <<tabVars, clearVars, netVars, dialogVars>>

-----------------------------------------------------------------------------
(* clearAllData: "clear-data", asked for by the user and every half hour   *)

ClearData(c) ==
  /\ Act /\ clearing[c].at = "done"
  /\ clearing' = [clearing EXCEPT ![c] = [left |-> <<>>, at |-> "window"]]
  /\ cleared' = [cleared EXCEPT ![c] = {}]
  /\ UNCHANGED <<tabVars, statVars, dirty, rejected, netVars, dialogVars>>

\* The session of the window is cleared; if it refuses, the call fails.
ClearWindow(c) ==
  /\ clearing[c].at = "window"
  /\ \/ /\ clearing' = [clearing EXCEPT ![c] = [left |-> tabs, at |-> "tabs"]]
        /\ cleared' = [cleared EXCEPT ![c] = ToSet(tabs)]
     \/ clearing' = [clearing EXCEPT ![c] = Done] /\ UNCHANGED cleared
  /\ UNCHANGED <<tabVars, statVars, dirty, rejected, netVars, dialogVars, acts>>

\* The next tab; that its session refuses is passed over.
ClearTab(c) ==
  /\ clearing[c].at = "tabs" /\ clearing[c].left # <<>>
  /\ LET t == Head(clearing[c].left)
     IN  \/ /\ dirty' = dirty \ {t}
            /\ cleared' = [d \in Clears |-> cleared[d] \ {t}]
            /\ UNCHANGED rejected
         \/ rejected' = TRUE /\ UNCHANGED <<dirty, cleared>>
  /\ clearing' = [clearing EXCEPT ![c].left = Tail(@)]
  /\ UNCHANGED <<tabVars, statVars, netVars, dialogVars, acts>>

\* What is written back to the store after it is cleared.
Preserved == settings

ClearStore(c) ==
  /\ clearing[c].at = "tabs" /\ clearing[c].left = <<>>
  /\ clearing' = [clearing EXCEPT ![c] = Done]
  /\ settings' = Preserved
  /\ UNCHANGED <<tabVars, statVars, dirty, cleared, rejected, netVars, form, dialog, touched,
                 chosen, acts>>

-----------------------------------------------------------------------------
(* The settings dialog of the window                                       *)

\* showBrowserSettings: the dialog is on show before the settings are read.
ShowSettings ==
  /\ Act /\ dialog = "closed"
  /\ dialog' = "loading" /\ touched' = {}
  /\ UNCHANGED <<settings, form, chosen, tabVars, statVars, clearVars, netVars>>

Loaded == settings

\* loadBrowserSettings after its await.
LoadSettings ==
  /\ dialog = "loading"
  /\ form' = Loaded /\ dialog' = "ready" /\ touched' = {}
  /\ UNCHANGED <<settings, chosen, tabVars, statVars, clearVars, netVars, acts>>

Toggle(f) ==
  /\ Act /\ dialog # "closed"
  /\ form' = [form EXCEPT ![f] = ~@] /\ touched' = touched \cup {f}
  /\ UNCHANGED <<settings, dialog, chosen, tabVars, statVars, clearVars, netVars>>

\* saveBrowserSettings and "save-browser-settings"
SaveSettings ==
  /\ Act /\ dialog # "closed"
  /\ settings' = form /\ chosen' = form /\ dialog' = "closed"
  /\ UNCHANGED <<form, touched, tabVars, statVars, clearVars, netVars>>

\* The dialog is cancelled: what was ticked stays ticked, unsaved.
CancelSettings ==
  /\ dialog # "closed"
  /\ dialog' = "closed"
  /\ UNCHANGED <<settings, form, touched, chosen, tabVars, statVars, clearVars, netVars, acts>>

-----------------------------------------------------------------------------
(* The proxy and searches                                                  *)

\* "set-proxy": the sessions first, the store when they are through.
SetProxy(on) ==
  /\ Act /\ proxy = route /\ on # proxy
  /\ route' = on /\ switched' = TRUE
  /\ UNCHANGED <<proxy, search, tabVars, statVars, clearVars, dialogVars>>

ProxyStored ==
  /\ proxy # route
  /\ proxy' = route
  /\ UNCHANGED <<route, search, switched, tabVars, statVars, clearVars, dialogVars, acts>>

\* navigate, for words that are no address: getProxy.
Search ==
  /\ Act /\ search = "none"
  /\ search' = "asked" /\ switched' = (proxy # route)
  /\ UNCHANGED <<proxy, route, tabVars, statVars, clearVars, dialogVars>>

Goes == proxy

\* Without a proxy, handleB2Search has the search refused: "b2-search".
Answered ==
  /\ search = "asked"
  /\ search' = IF Goes THEN "going" ELSE "none"
  /\ UNCHANGED <<proxy, route, switched, tabVars, statVars, clearVars, dialogVars, acts>>

SearchSent ==
  /\ search = "going"
  /\ search' = "none"
  /\ UNCHANGED <<proxy, route, switched, tabVars, statVars, clearVars, dialogVars, acts>>

Next ==
  \/ \E t \in Tabs :
       \/ CreateTab(t) \/ CloseTab(t) \/ Listed(t) \/ Request(t) \/ Download(t)
       \/ \E u \in Addresses : Navigate(t, u)
  \/ \E c \in Clears : ClearData(c) \/ ClearWindow(c) \/ ClearTab(c) \/ ClearStore(c)
  \/ \E f \in Flags : Toggle(f)
  \/ \E on \in BOOLEAN : SetProxy(on)
  \/ Popup \/ ResetStats \/ ShowSettings \/ LoadSettings \/ SaveSettings \/ CancelSettings
  \/ ProxyStored \/ Search \/ Answered \/ SearchSent

Spec == Init /\ [][Next]_vars

-----------------------------------------------------------------------------
(* Properties                                                              *)

\* A page of another host that came in the clear was not asked for while only
\* secure ones were wanted, whatever servers redirect to.
NothingInTheClear == \A t \in Tabs : page[t] = "http" => ~sentUnder[t]

\* The total is the sum of its parts and the pop-ups, which have none.
CountsAddUp == total = stats["ads"] + stats["heuristic"] + stats["downloads"] + popups

\* A clearing that ends well has cleared every open tab that was open when it
\* came to the tabs, unless a session refused.
ClearedMeansClean ==
  [][ \A c \in Clears : ClearStore(c) /\ ~rejected => cleared[c] = {} ]_vars

\* What the user chose outlives every clearing.
ChoicesAreKept == settings = chosen

\* Saving the dialog changes no setting that the user has not touched, unless
\* it is saved before it is filled in.
OnlyTouchedChange ==
  [][ SaveSettings /\ dialog = "ready" =>
        \A f \in Flags \ touched : settings'[f] = settings[f] ]_vars

\* A search leaves through the proxy, unless the proxy is changed meanwhile.
SearchesAreProxied == [][ SearchSent => route \/ switched ]_vars

\* Together: a clearing clears all, and the counts with it.
ClearingIsSound == []CountsAddUp /\ ClearedMeansClean

\* Together: what the user chose is kept over clearings and savings, and is
\* what pages and searches are loaded with.
ChoicesAreHonoured ==
  [](ChoicesAreKept /\ NothingInTheClear) /\ OnlyTouchedChange /\ SearchesAreProxied
==============================================================================
