---------------------------- MODULE BrowserDialogs ----------------------------
(***************************************************************************)
(* The proxy dialog, the search settings and the clearing of data in the   *)
(* window of the standalone browser (browser/renderer.js), the handlers of *)
(* main that serve them, and what the window then says about the proxy.    *)
(* Requests reach main in order, and answers the window.  main waits for   *)
(* the sessions before it stores a proxy, so that two savings overtake     *)
(* each other there.                                                       *)
(***************************************************************************)
EXTENDS Integers, Sequences, SequencesExt

CONSTANT MaxActs         \* bound: what the user does

Routes == {"tor", "vpn"} \* the two presets, for all good addresses
Off == "off"             \* no proxy
Bad == "bad"             \* an address that main refuses
None == "none"           \* nothing is stored

VARIABLES
  store, searchStore,    \* main: "proxy"; safe search of "searchSettings"
  queue, channel,        \* requests to main; answers to the window
  applying, clearing,    \* main: proxies it waits for; clearings under way
  fields, modal,         \* window: the proxy form; is its dialog open
  box, touched, search,  \* window: the box of safe search; history: changed by
                         \* hand; is its dialog open
  claim, route,          \* window: "Proxy: ..." and "Proxy route"
  refused, acts          \* history: has a bad address been saved; acts so far

proxyVars == <<fields, modal, claim, route>>
searchVars == <<box, touched, search>>
mainVars == <<store, searchStore, applying, clearing>>
vars == <<proxyVars, searchVars, mainVars, queue, channel, refused, acts>>

\* The key of the store is made of the time of the launch: what an earlier
\* one has stored cannot be read.
Init ==
  /\ store = Off /\ searchStore = None
  /\ queue = <<>> /\ channel = <<>> /\ applying = {} /\ clearing = 0
  /\ fields = [on |-> FALSE, to |-> "vpn"] /\ modal = FALSE
  /\ box = TRUE /\ touched = FALSE /\ search = FALSE
  /\ claim = Off /\ route = Off
  /\ refused = FALSE /\ acts = 0

Act == acts < MaxActs /\ acts' = acts + 1

\* A dialog covers the buttons of the window.
Covered == modal \/ search

\* The user does something that asks main.
Ask(what, x) ==
  /\ Act
  /\ queue' = Append(queue, [to |-> what, is |-> x, n |-> acts])
  /\ UNCHANGED <<proxyVars, searchVars, mainVars, channel, refused>>

-----------------------------------------------------------------------------
(* The proxy dialog                                                        *)

ProxyButton == ~Covered /\ Ask("get-proxy", None)

EditProxy ==
  /\ Act /\ modal
  /\ \/ fields' = [fields EXCEPT !.on = ~@]
     \/ \E r \in Routes \cup {Bad} : fields' = [fields EXCEPT !.to = r]
  /\ UNCHANGED <<modal, claim, route, searchVars, mainVars, queue, channel, refused>>

Preset ==
  /\ Act /\ modal
  /\ \E r \in Routes : fields' = [fields EXCEPT !.to = r]
  /\ UNCHANGED <<modal, claim, route, searchVars, mainVars, queue, channel, refused>>

Config == IF fields.on THEN fields.to ELSE Off

SaveProxy == modal /\ Ask("set-proxy", Config)

CancelProxy ==
  /\ modal' = FALSE /\ modal
  /\ UNCHANGED <<fields, claim, route, searchVars, mainVars, queue, channel, refused, acts>>

\* renderBrowserProtection, which a change of a protection box calls too.
Shown(f, c) == IF f.on \/ c # Off THEN "proxied" ELSE Off

Render ==
  /\ route' = Shown(fields, claim)
  /\ UNCHANGED <<fields, modal, claim, searchVars, mainVars, queue, channel, refused, acts>>

-----------------------------------------------------------------------------
(* The search settings, and the clearing                                   *)

showSearchSettings == ~Covered /\ Ask("get-search", None)

Toggle ==
  /\ Act /\ search
  /\ box' = ~box /\ touched' = TRUE
  /\ UNCHANGED <<proxyVars, search, mainVars, queue, channel, refused>>

\* A refused warning about the dark web saves nothing; main stores no more of it.
SaveSearch == search /\ Ask("save-search", IF box THEN "safe" ELSE "unsafe")

CancelSearch ==
  /\ search' = FALSE /\ search
  /\ UNCHANGED <<proxyVars, box, touched, mainVars, queue, channel, refused, acts>>

\* The button and the timer of thirty minutes.
ClearButton == ~Covered /\ Ask("clear", None)

AutoClear == Ask("clear", None)

-----------------------------------------------------------------------------
(* main                                                                    *)

Answer(what, x) == channel' = Append(channel, [to |-> what, is |-> x])

GetProxy(r) ==
  /\ r.to = "get-proxy"
  /\ Answer("proxy", store)
  /\ UNCHANGED <<mainVars, refused>>

SetProxy(r) ==
  /\ r.to = "set-proxy"
  /\ IF r.is = Bad
       THEN Answer("saved", Bad) /\ refused' = TRUE /\ UNCHANGED applying
       ELSE applying' = applying \cup {r} /\ UNCHANGED <<channel, refused>>
  /\ UNCHANGED <<store, searchStore, clearing>>

GetSearch(r) ==
  /\ r.to = "get-search"
  /\ Answer("search", searchStore)
  /\ UNCHANGED <<mainVars, refused>>

SaveSearchSettings(r) ==
  /\ r.to = "save-search"
  /\ searchStore' = r.is
  /\ Answer("searchSaved", None)
  /\ UNCHANGED <<store, applying, clearing, refused>>

ClearData(r) ==
  /\ r.to = "clear"
  /\ clearing' = clearing + 1
  /\ UNCHANGED <<store, searchStore, applying, channel, refused>>

Serve ==
  /\ queue # <<>> /\ queue' = Tail(queue)
  /\ LET r == Head(queue)
     IN GetProxy(r) \/ SetProxy(r) \/ GetSearch(r) \/ SaveSearchSettings(r) \/ ClearData(r)
  /\ UNCHANGED <<proxyVars, searchVars, acts>>

\* Every session has taken the proxy.
Applied ==
  \E r \in applying :
    /\ applying' = applying \ {r}
    /\ store' = r.is
    /\ Answer("saved", r.is)
    /\ UNCHANGED <<proxyVars, searchVars, searchStore, clearing, queue, refused, acts>>

\* A session refuses: the call of the window fails, and nothing follows it.
Fails ==
  \E r \in applying :
    /\ applying' = applying \ {r}
    /\ UNCHANGED <<proxyVars, searchVars, store, searchStore, clearing, queue, channel, refused, acts>>

Preserved == [proxy |-> store, search |-> searchStore]

\* clearAllData, once the sessions are cleared.
StoreCleared ==
  /\ clearing > 0 /\ clearing' = clearing - 1
  /\ store' = Preserved.proxy /\ searchStore' = Preserved.search
  /\ UNCHANGED <<proxyVars, searchVars, applying, queue, channel, refused, acts>>

-----------------------------------------------------------------------------
(* The window takes an answer                                              *)

GotProxy(a) ==
  /\ a.to = "proxy"
  /\ fields' = IF a.is = Off THEN fields ELSE [on |-> TRUE, to |-> a.is]
  /\ modal' = TRUE
  /\ UNCHANGED <<claim, route, searchVars>>

\* Mutant of Saved: what is shown is what the form holds by now.
SavedForm(a) ==
  /\ a.to = "saved"
  /\ modal' = FALSE /\ claim' = Config /\ route' = Shown(fields, claim')
  /\ UNCHANGED <<fields, searchVars>>

\* Whether main has accepted the proxy is not looked at.
Saved(a) ==
  /\ a.to = "saved"
  /\ modal' = FALSE /\ claim' = a.is /\ route' = Shown(fields, claim')
  /\ UNCHANGED <<fields, searchVars>>

\* With nothing stored the box is cleared.
GotSearch(a) ==
  /\ a.to = "search"
  /\ box' = (a.is = "safe") /\ touched' = FALSE /\ search' = TRUE
  /\ UNCHANGED proxyVars

SearchSaved(a) ==
  /\ a.to = "searchSaved"
  /\ search' = FALSE
  /\ UNCHANGED <<proxyVars, box, touched>>

Take ==
  /\ channel # <<>> /\ channel' = Tail(channel)
  /\ LET a == Head(channel)
     IN GotProxy(a) \/ Saved(a) \/ GotSearch(a) \/ SearchSaved(a)
  /\ UNCHANGED <<mainVars, queue, refused, acts>>

Next ==
  \/ ProxyButton \/ EditProxy \/ Preset \/ SaveProxy \/ CancelProxy \/ Render
  \/ showSearchSettings \/ Toggle \/ SaveSearch \/ CancelSearch
  \/ ClearButton \/ AutoClear
  \/ Serve \/ Applied \/ Fails \/ StoreCleared \/ Take

Spec == Init /\ [][Next]_vars

-----------------------------------------------------------------------------
(* Properties                                                              *)

AtRest == queue = <<>> /\ channel = <<>> /\ applying = {}

\* Once no saving is under way, "Proxy: ..." names the proxy that main has
\* stored and that new tabs use, in whatever order the savings have ended and
\* whichever have failed, unless an address that main refuses has been saved.
ClaimIsStored == AtRest /\ ~refused => claim = store

\* When nothing is on its way, an open search dialog that nobody has changed
\* shows the stored setting, over savings, double clicks and the clearings of
\* data, which must spare it.
BoxShowsStore == AtRest /\ search /\ ~touched => box = (searchStore = "safe")

\* Together: both dialogs show what main has stored.
DialogsAreHonest == ClaimIsStored /\ BoxShowsStore

=============================================================================
