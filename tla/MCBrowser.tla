------------------------------ MODULE MCBrowser -------------------------------
(* Small instances for TLC of the parts of the browser. A run is one of the  *)
(* tabs and their proxies, of the window with its messages, of the pages     *)
(* that tabs load, or of the dialogs.                                        *)
EXTENDS Browser

CONSTANTS UITabs, Urls, Blank, Typed, UIActs, Clears, BrowsingActs, DialogActs

VARIABLES
  mode,   \* the component that runs; the others rest
  windowTabs, windowActiveTabId, url, loading, toMain, toWindow, bar,
  currentTabId, urlBar, welcome, timers, windowUsed, silent, acts,   \* BrowserUI
  browsingTabs, browsingUsed, going, page, settings, stats, total, dirty,
  clearing, browsingProxy, route, form, dialog, touched, search, popups,
  chosen, sentUnder, cleared, rejected, switched, browsingActs,   \* Browsing
  store, searchStore, queue, channel, applying, dialogsClearing, fields,
  modal, box, dialogsTouched, dialogsSearch, claim, dialogsRoute, refused,
  dialogsActs   \* BrowserDialogs

windowVars ==
  <<windowTabs, windowActiveTabId, url, loading, toMain, toWindow, bar,
    currentTabId, urlBar, welcome, timers, windowUsed, silent, acts>>
browsingVars ==
  <<browsingTabs, browsingUsed, going, page, settings, stats, total, dirty,
    clearing, browsingProxy, route, form, dialog, touched, search, popups,
    chosen, sentUnder, cleared, rejected, switched, browsingActs>>
dialogsVars ==
  <<store, searchStore, queue, channel, applying, dialogsClearing, fields,
    modal, box, dialogsTouched, dialogsSearch, claim, dialogsRoute, refused,
    dialogsActs>>

U == INSTANCE BrowserUI WITH
       Tabs <- UITabs, MaxActs <- UIActs, tabs <- windowTabs,
       activeTabId <- windowActiveTabId, used <- windowUsed
B == INSTANCE Browsing WITH
       Tabs <- UITabs, MaxActs <- BrowsingActs, tabs <- browsingTabs,
       used <- browsingUsed, proxy <- browsingProxy, acts <- browsingActs
D == INSTANCE BrowserDialogs WITH
       MaxActs <- DialogActs, clearing <- dialogsClearing,
       touched <- dialogsTouched, search <- dialogsSearch,
       route <- dialogsRoute, acts <- dialogsActs

MCInit ==
  /\ mode \in {"tabs", "window", "browsing", "dialogs"}
  /\ Init /\ U!Init /\ B!Init /\ D!Init

MCNext ==
  /\ UNCHANGED mode
  /\ \/ mode = "tabs"     /\ Next
     \/ mode = "window"   /\ U!Next
     \/ mode = "browsing" /\ B!Next
     \/ mode = "dialogs"  /\ D!Next
     \/ mode # "tabs" /\ UNCHANGED <<windowVars, browsingVars, dialogsVars>>   \* or its bound is reached
  /\ mode # "tabs"     => UNCHANGED vars
  /\ mode # "window"   => UNCHANGED windowVars
  /\ mode # "browsing" => UNCHANGED browsingVars
  /\ mode # "dialogs"  => UNCHANGED dialogsVars

WindowFairness ==
  /\ WF_windowVars(mode = "window" /\ U!Main)
  /\ WF_windowVars(mode = "window" /\ U!Renderer)

MCFairness == Fairness /\ WindowFairness

MCSpec ==
  /\ MCInit /\ [][MCNext]_<<mode, vars, windowVars, browsingVars, dialogsVars>>
  /\ MCFairness

WindowIsHonest     == U!WindowIsHonest
ClearingIsSound    == B!ClearingIsSound
ChoicesAreHonoured == B!ChoicesAreHonoured
DialogsAreHonest   == D!DialogsAreHonest

\* What is under way comes to an end: every change of the proxy, and, in a run
\* of the window, the messages. What rests does not come to rest.
BrowserSettles == ChangesSettle /\ (mode = "window" => U!ComesToRest)
===============================================================================
