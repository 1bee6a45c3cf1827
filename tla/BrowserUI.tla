------------------------------ MODULE BrowserUI ------------------------------
(***************************************************************************)
(* The window of the standalone browser (browser/renderer.js), which shows *)
(* a tab bar and an address bar of tabs that live in another process       *)
(* (browser/main.js).  The two exchange messages: requests of the window   *)
(* are handled in order; answers and events come back in the order in      *)
(* which main sends them.  A handler that does not wait runs in one step.  *)
(***************************************************************************)
EXTENDS Naturals, Sequences, SequencesExt

CONSTANTS
  Tabs,      \* the tabs that a run opens
  Urls,      \* the addresses of pages
  Blank,     \* the empty address
  Typed,     \* what a user types into the address bar
  Nobody,    \* no tab
  MaxActs    \* bound: what users and pages do

VARIABLES
  tabs, activeTabId,   \* main: the open tabs, in order, and the one on show
  url, loading,        \* main: the address of each tab, and whether it loads
  toMain, toWindow,    \* the messages under way
  bar,                 \* window: the tabs that the bar shows, and the one marked active
  currentTabId, urlBar, welcome,   \* window
  timers,              \* window: timers that will ask for the address
  used,                \* history: the tabs opened so far
  silent,              \* history: main opened a tab on its own; the bar was not asked for since
  acts                 \* history: acts so far

mainVars == <<tabs, activeTabId, url, loading, silent>>
windowVars == <<bar, currentTabId, urlBar, welcome, timers>>
vars == <<mainVars, windowVars, toMain, toWindow, used, acts>>

Ask(kind, t) == [kind |-> kind, tab |-> t]
Event(kind, t, u) == [kind |-> kind, tab |-> t, url |-> u]
Bar(list, active) == [kind |-> "tabs", list |-> list, active |-> active]

Init ==
  /\ tabs = <<>> /\ activeTabId = Nobody
  /\ url = [t \in Tabs |-> Blank] /\ loading = [t \in Tabs |-> FALSE]
  /\ toMain = <<Ask("get-tabs", Nobody)>> /\ toWindow = <<>>
  /\ bar = Bar(<<>>, Nobody) /\ currentTabId = Nobody /\ urlBar = Blank /\ welcome = TRUE
  /\ timers = 0 /\ used = {} /\ silent = FALSE /\ acts = 0

Act == acts < MaxActs /\ acts' = acts + 1

-----------------------------------------------------------------------------
(* What the user does in the window                                        *)

Send(kind, t) == toMain' = Append(toMain, Ask(kind, t))

\* createNewTab, up to its await.
NewTab(t) ==
  /\ Act /\ t \notin used
  /\ used' = used \cup {t}
  /\ Send("create-tab", t)
  /\ UNCHANGED <<mainVars, windowVars, toWindow>>

\* A click on a tab of the bar, or on its cross: switchToTab and closeTab.
ClickTab(t) ==
  /\ Act /\ t \in ToSet(bar.list)
  /\ Send("switch-tab", t) \/ Send("close-tab", t)
  /\ UNCHANGED <<mainVars, windowVars, toWindow, used>>

\* navigate: what is typed, and Enter.
Navigate ==
  /\ Act
  /\ urlBar' = Typed
  /\ Send("navigate", Nobody)
  /\ UNCHANGED <<mainVars, bar, currentTabId, welcome, timers, toWindow, used>>

\* "go-back", "go-forward", "reload" and "stop".
Buttons ==
  /\ Act
  /\ Send("move", Nobody)
  /\ UNCHANGED <<mainVars, windowVars, toWindow, used>>

-----------------------------------------------------------------------------
(* The main process                                                        *)

Requested(kind) == toMain # <<>> /\ Head(toMain).kind = kind
Of == Head(toMain).tab

\* Mutant of Switched: the window is not told.
SwitchedInSilence(t) == <<>>

\* switchToTab: what it tells the window.
Switched(t) == <<Event("tab-switched", t, url[t])>>

\* The answer follows the events that the handler sent.
Answer(events, kind) ==
  /\ toMain' = Tail(toMain)
  /\ toWindow' = toWindow \o events \o <<Ask(kind, Nobody)>>
  /\ UNCHANGED <<windowVars, used, acts>>

\* "create-tab"
CreateTab ==
  /\ Requested("create-tab")
  /\ tabs' = Append(tabs, Of) /\ activeTabId' = Of
  /\ Answer(Switched(Of), "changed")
  /\ UNCHANGED <<url, loading, silent>>

\* "switch-tab": a tab that is closed by now is let be.
SwitchTab ==
  /\ Requested("switch-tab")
  /\ IF Of \in ToSet(tabs)
       THEN activeTabId' = Of /\ Answer(Switched(Of), "changed")
       ELSE UNCHANGED activeTabId /\ Answer(<<>>, "changed")
  /\ UNCHANGED <<tabs, url, loading, silent>>

\* "close-tab"
CloseTab ==
  LET rest == RemoveFirst(tabs, Of)
      closed == <<Event("tab-closed", Of, Blank)>>
  IN
    /\ Requested("close-tab")
    /\ tabs' = rest
    /\ CASE Of \notin ToSet(tabs) -> UNCHANGED activeTabId /\ Answer(<<>>, "changed")
         [] Of \in ToSet(tabs) /\ activeTabId # Of ->
              UNCHANGED activeTabId /\ Answer(closed, "changed")
         [] Of = activeTabId /\ rest # <<>> ->
              activeTabId' = Last(rest) /\ Answer(Switched(Last(rest)) \o closed, "changed")
         [] Of = activeTabId /\ rest = <<>> ->
              /\ activeTabId' = Nobody
              /\ Answer(<<Event("all-tabs-closed", Nobody, Blank)>> \o closed, "changed")
    /\ UNCHANGED <<url, loading, silent>>

\* "navigate", "go-back", "go-forward", "reload", "stop": the active tab may
\* begin to load a page; an address that is not allowed, it does not.
MoveActive ==
  /\ Requested("navigate") \/ Requested("move")
  /\ \/ UNCHANGED loading
     \/ activeTabId # Nobody /\ loading' = [loading EXCEPT ![activeTabId] = TRUE]
  /\ Answer(<<>>, IF Requested("navigate") THEN "navigated" ELSE "moved")
  /\ UNCHANGED <<tabs, activeTabId, url, silent>>

\* "get-url"
GetUrl ==
  /\ Requested("get-url")
  /\ toMain' = Tail(toMain)
  /\ toWindow' = Append(toWindow,
       Event("url", Nobody, IF activeTabId = Nobody THEN Blank ELSE url[activeTabId]))
  /\ UNCHANGED <<mainVars, windowVars, used, acts>>

\* "get-tabs"
GetTabs ==
  /\ Requested("get-tabs")
  /\ toMain' = Tail(toMain)
  /\ toWindow' = Append(toWindow, Bar(tabs, activeTabId))
  /\ silent' = FALSE
  /\ UNCHANGED <<tabs, activeTabId, url, loading, windowVars, used, acts>>

\* The timer after start-up, or a pop-up that is allowed: a tab of main's own.
OwnTab(t) ==
  /\ Act /\ t \notin used
  /\ used' = used \cup {t}
  /\ tabs' = Append(tabs, t) /\ activeTabId' = t
  /\ \/ UNCHANGED loading
     \/ tabs # <<>> /\ loading' = [loading EXCEPT ![t] = TRUE]
  /\ toWindow' = toWindow \o Switched(t)
  /\ silent' = TRUE
  /\ UNCHANGED <<url, toMain, windowVars>>

\* A page follows a link of its own accord, or changes its title.
PageMoves(t) ==
  /\ Act /\ t \in ToSet(tabs)
  /\ \/ loading' = [loading EXCEPT ![t] = TRUE] /\ UNCHANGED toWindow
     \/ toWindow' = Append(toWindow, Event("tab-title-updated", t, Blank)) /\ UNCHANGED loading
  /\ UNCHANGED <<tabs, activeTabId, url, silent, windowVars, toMain, used>>

\* Which tab the window is told of.
Tells(t) == t = activeTabId

\* "did-stop-loading"
StopLoading(t) ==
  /\ t \in ToSet(tabs) /\ loading[t]
  /\ loading' = [loading EXCEPT ![t] = FALSE]
  /\ \E u \in Urls :
       /\ url' = [url EXCEPT ![t] = u]
       /\ toWindow' = IF Tells(t) THEN Append(toWindow, Event("tab-updated", t, u)) ELSE toWindow
  /\ UNCHANGED <<tabs, activeTabId, silent, windowVars, toMain, used, acts>>

-----------------------------------------------------------------------------
(* The window takes what main sends                                        *)

Got(kinds) == toWindow # <<>> /\ Head(toWindow).kind \in kinds
Take == toWindow' = Tail(toWindow) /\ UNCHANGED <<mainVars, used, acts>>

\* What makes the window ask for the tabs: refreshTabList.
Refreshing == {"changed", "tab-updated", "tab-title-updated", "tab-closed"}

\* createNewTab, switchToTab and closeTab after their awaits, onTabUpdated,
\* onTabTitleUpdated and onTabClosed; "tab-updated" also sets the address.
Notice ==
  /\ Got(Refreshing \cup {"changed", "moved"})
  /\ Take
  /\ urlBar' = IF Got({"tab-updated"}) /\ Head(toWindow).tab = currentTabId
                 THEN Head(toWindow).url ELSE urlBar
  /\ IF Got(Refreshing) THEN Send("get-tabs", Nobody) ELSE UNCHANGED toMain
  /\ UNCHANGED <<bar, currentTabId, welcome, timers>>

\* renderTabs
RenderTabs ==
  /\ Got({"tabs"})
  /\ Take
  /\ bar' = Head(toWindow)
  /\ currentTabId' = IF bar'.active = Nobody THEN currentTabId ELSE bar'.active
  /\ UNCHANGED <<urlBar, welcome, timers, toMain>>

\* onTabSwitched
OnTabSwitched ==
  /\ Got({"tab-switched"})
  /\ Take
  /\ currentTabId' = Head(toWindow).tab /\ urlBar' = Head(toWindow).url /\ welcome' = FALSE
  /\ UNCHANGED <<bar, timers, toMain>>

\* onAllTabsClosed
OnAllTabsClosed ==
  /\ Got({"all-tabs-closed"})
  /\ Take
  /\ urlBar' = Blank /\ welcome' = TRUE
  /\ UNCHANGED <<bar, currentTabId, timers, toMain>>

\* navigate after its await, and the timer that it sets.
Navigated ==
  /\ Got({"navigated"})
  /\ Take
  /\ welcome' = FALSE /\ timers' = timers + 1
  /\ UNCHANGED <<bar, currentTabId, urlBar, toMain>>

Timer ==
  /\ timers > 0
  /\ timers' = timers - 1
  /\ Send("get-url", Nobody)
  /\ UNCHANGED <<mainVars, bar, currentTabId, urlBar, welcome, toWindow, used, acts>>

GotUrl ==
  /\ Got({"url"})
  /\ Take
  /\ urlBar' = Head(toWindow).url
  /\ UNCHANGED <<bar, currentTabId, welcome, timers, toMain>>

Main == CreateTab \/ SwitchTab \/ CloseTab \/ MoveActive \/ GetUrl \/ GetTabs
Renderer == Notice \/ RenderTabs \/ OnTabSwitched \/ OnAllTabsClosed \/ Navigated \/ GotUrl \/ Timer
Next ==
  \/ \E t \in Tabs : NewTab(t) \/ ClickTab(t) \/ OwnTab(t) \/ PageMoves(t) \/ StopLoading(t)
  \/ Navigate \/ Buttons \/ Main \/ Renderer

Fairness == WF_vars(Main) /\ WF_vars(Renderer)

Spec == Init /\ [][Next]_vars /\ Fairness

-----------------------------------------------------------------------------
(* Properties                                                              *)

Idle == toMain = <<>> /\ toWindow = <<>> /\ timers = 0

\* With nothing under way, the address bar shows the address of the page on
\* show, whatever was typed, switched, closed and loaded before, and in which
\* order; and none when no tab is open.
AddressIsHonest ==
  Idle =>
    IF activeTabId = Nobody THEN urlBar = Blank
    ELSE ~loading[activeTabId] => urlBar = url[activeTabId] /\ currentTabId = activeTabId

\* With nothing under way, the tab bar shows the tabs that are open and marks
\* the one on show, unless main opened one by itself and no page has moved since.
BarIsHonest == Idle /\ ~silent => bar = Bar(tabs, activeTabId)

\* Together: with nothing under way the window shows what is.
WindowIsHonest == AddressIsHonest /\ BarIsHonest

\* The window and main always come to rest: no message begets messages for ever.
ComesToRest == []<>Idle
==============================================================================
