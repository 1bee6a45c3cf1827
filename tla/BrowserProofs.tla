---------------------------- MODULE BrowserProofs ------------------------------
(***************************************************************************)
(* Proofs about the standalone browser: its dialogs (D), the pages it      *)
(* loads and what it clears (B), the tabs of its main process, and its     *)
(* window with the messages that the two exchange (U).                     *)
(***************************************************************************)
EXTENDS MCBrowser, FiniteSetTheorems, SequenceTheorems, TLAPS

-----------------------------------------------------------------------------
(* Sequences                                                               *)

\* What an element of a sequence with one more at its end is.
LEMMA Appended ==
  ASSUME NEW Item, NEW s \in Seq(Item), NEW x \in Item
  PROVE  /\ Append(s, x) \in Seq(Item) /\ Len(Append(s, x)) = Len(s) + 1
         /\ DOMAIN s = 1..Len(s) /\ DOMAIN Append(s, x) = 1..(Len(s) + 1) /\ Len(s) \in Nat
         /\ Append(s, x)[Len(s) + 1] = x
         /\ \A k \in DOMAIN s : k \in DOMAIN Append(s, x) /\ Append(s, x)[k] = s[k]
  BY AppendProperties, LenProperties

\* What an element of a sequence without its head is.
LEMMA Shortened ==
  ASSUME NEW Item, NEW s \in Seq(Item), s # <<>>
  PROVE  /\ Tail(s) \in Seq(Item) /\ Head(s) \in Item /\ Head(s) = s[1] /\ 1 \in DOMAIN s
         /\ DOMAIN s = 1..Len(s) /\ DOMAIN Tail(s) = 1..(Len(s) - 1) /\ Len(s) \in Nat \ {0}
         /\ \A k \in DOMAIN Tail(s) : k + 1 \in DOMAIN s /\ Tail(s)[k] = s[k + 1]
         /\ \A k \in DOMAIN s : k # 1 => k - 1 \in DOMAIN Tail(s) /\ Tail(s)[k - 1] = s[k]
  BY HeadTailProperties, LenProperties

-----------------------------------------------------------------------------
(* The dialogs: what is on the way to the window says what main stores     *)

Values == {"tor", "vpn", "off", "bad", "none", "safe", "unsafe"}
AnswerKinds == {"proxy", "saved", "search", "searchSaved"}
Answers == [to : AnswerKinds, is : Values]
Requests == [to : {"get-proxy", "set-proxy", "get-search", "save-search", "clear"},
             is : Values, n : Nat]

DialogType ==
  /\ queue \in Seq(Requests) /\ channel \in Seq(Answers)
  /\ applying \subseteq Requests
  /\ store \in Values /\ searchStore \in Values
  /\ fields \in [on : BOOLEAN, to : Values]
  /\ dialogsActs \in Nat

\* The last report of a saving that is on its way names what is stored; if
\* there is none, the window does.
ClaimFollows ==
  ~refused =>
    \/ \E i \in DOMAIN channel :
         /\ channel[i].to = "saved" /\ channel[i].is = store
         /\ \A j \in DOMAIN channel : j > i => channel[j].to # "saved"
    \/ claim = store /\ \A i \in DOMAIN channel : channel[i].to # "saved"

\* An answer about the search names what is stored, or a report follows it
\* that closes the dialog.
SearchFollows ==
  \A k \in DOMAIN channel : channel[k].to = "search" =>
    \/ channel[k].is = searchStore
    \/ \E j \in DOMAIN channel : j > k /\ channel[j].to = "searchSaved"

\* So does the box of an open dialog that is not touched.
BoxFollows ==
  dialogsSearch /\ ~dialogsTouched =>
    \/ box = (searchStore = "safe")
    \/ \E i \in DOMAIN channel : channel[i].to = "searchSaved"

DialogsInv == DialogType /\ ClaimFollows /\ SearchFollows /\ BoxFollows

\* An answer that is no report of a saving changes none of the three.
LEMMA AnswerKeeps ==
  ASSUME DialogsInv, NEW x \in Answers, x.to # "saved",
         x.to = "search" => x.is = searchStore,
         channel' = Append(channel, x),
         UNCHANGED <<store, claim, refused, searchStore, box, dialogsTouched, dialogsSearch>>
  PROVE  ClaimFollows' /\ SearchFollows' /\ BoxFollows'
  <1> DEFINE s == channel
  <1>1. s \in Seq(Answers)
    BY DEF DialogsInv, DialogType
  <1>2. /\ DOMAIN s = 1..Len(s) /\ DOMAIN channel' = 1..(Len(s) + 1) /\ Len(s) \in Nat
        /\ channel'[Len(s) + 1] = x
        /\ \A k \in DOMAIN s : k \in DOMAIN channel' /\ channel'[k] = s[k]
    BY <1>1, Appended
  <1>3. \A k \in DOMAIN channel' : k \in DOMAIN s \/ (k = Len(s) + 1 /\ channel'[k] = x)
    BY <1>2
  <1>4. ClaimFollows'
    BY <1>2, <1>3 DEF DialogsInv, ClaimFollows
  <1>5. SearchFollows'
    BY <1>2, <1>3 DEF DialogsInv, SearchFollows
  <1>6. BoxFollows'
    BY <1>2, <1>3 DEF DialogsInv, BoxFollows
  <1>7. QED
    BY <1>4, <1>5, <1>6

\* A report of a saving names what is stored from then on.
LEMMA ReportKeeps ==
  ASSUME DialogsInv, NEW x \in Answers, x.to = "saved", ~refused' => x.is = store' /\ ~refused,
         channel' = Append(channel, x),
         UNCHANGED <<claim, searchStore, box, dialogsTouched, dialogsSearch>>
  PROVE  ClaimFollows' /\ SearchFollows' /\ BoxFollows'
  <1> DEFINE s == channel
  <1>1. s \in Seq(Answers)
    BY DEF DialogsInv, DialogType
  <1>2. /\ DOMAIN s = 1..Len(s) /\ DOMAIN channel' = 1..(Len(s) + 1) /\ Len(s) \in Nat
        /\ channel'[Len(s) + 1] = x
        /\ \A k \in DOMAIN s : k \in DOMAIN channel' /\ channel'[k] = s[k]
    BY <1>1, Appended
  <1>3. \A k \in DOMAIN channel' : k \in DOMAIN s \/ (k = Len(s) + 1 /\ channel'[k] = x)
    BY <1>2
  <1>4. ClaimFollows'
    BY <1>2 DEF ClaimFollows
  <1>5. SearchFollows'
    BY <1>2, <1>3 DEF DialogsInv, SearchFollows
  <1>6. BoxFollows'
    BY <1>2, <1>3 DEF DialogsInv, BoxFollows
  <1>7. QED
    BY <1>4, <1>5, <1>6

\* A saved search setting is followed by its report.
LEMMA SearchReportKeeps ==
  ASSUME DialogsInv, NEW x \in Answers, x.to = "searchSaved",
         channel' = Append(channel, x),
         UNCHANGED <<store, claim, refused, box, dialogsTouched, dialogsSearch>>
  PROVE  ClaimFollows' /\ SearchFollows' /\ BoxFollows'
  <1> DEFINE s == channel
  <1>1. s \in Seq(Answers)
    BY DEF DialogsInv, DialogType
  <1>2. /\ DOMAIN s = 1..Len(s) /\ DOMAIN channel' = 1..(Len(s) + 1) /\ Len(s) \in Nat
        /\ channel'[Len(s) + 1] = x
        /\ \A k \in DOMAIN s : k \in DOMAIN channel' /\ channel'[k] = s[k]
    BY <1>1, Appended
  <1>3. \A k \in DOMAIN channel' : k \in DOMAIN s \/ (k = Len(s) + 1 /\ channel'[k] = x)
    BY <1>2
  <1>4. ClaimFollows'
    BY <1>2, <1>3 DEF DialogsInv, ClaimFollows
  <1>5. SearchFollows'
    BY <1>2, <1>3 DEF SearchFollows
  <1>6. BoxFollows'
    BY <1>2, <1>3 DEF BoxFollows
  <1>7. QED
    BY <1>4, <1>5, <1>6


\* The window takes an answer.
LEMMA TakeKeeps == ASSUME DialogsInv, D!Take PROVE DialogsInv'
  <1> DEFINE a == Head(channel)
  <1>1. /\ channel \in Seq(Answers) /\ channel # <<>> /\ channel' = Tail(channel)
        /\ D!GotProxy(a) \/ D!Saved(a) \/ D!GotSearch(a) \/ D!SearchSaved(a)
        /\ UNCHANGED <<store, searchStore, queue, applying, refused, dialogsActs>>
    BY DEF D!Take, D!mainVars, DialogsInv, DialogType
  <1>2. /\ channel' \in Seq(Answers) /\ a \in Answers /\ a = channel[1] /\ 1 \in DOMAIN channel
        /\ DOMAIN channel = 1..Len(channel) /\ DOMAIN channel' = 1..(Len(channel) - 1) /\ Len(channel) \in Nat \ {0}
        /\ \A k \in DOMAIN channel' : k + 1 \in DOMAIN channel /\ channel'[k] = channel[k + 1]
        /\ \A k \in DOMAIN channel : k # 1 => k - 1 \in DOMAIN channel' /\ channel'[k - 1] = channel[k]
    BY <1>1, Shortened
  <1>3. DialogType'
    <2>1. fields' \in [on : BOOLEAN, to : Values]
      <3>1. a.is \in Values /\ fields \in [on : BOOLEAN, to : Values]
        BY <1>2 DEF Answers, DialogsInv, DialogType
      <3>2. fields' = fields \/ fields' = [on |-> TRUE, to |-> a.is]
        BY <1>1 DEF D!GotProxy, D!Saved, D!GotSearch, D!SearchSaved, D!proxyVars
      <3>3. [on |-> TRUE, to |-> a.is] \in [on : BOOLEAN, to : Values]
        BY <3>1, Zenon
      <3>4. QED
        BY <3>1, <3>2, <3>3, Zenon
    <2>2. QED
      BY <1>1, <1>2, <2>1 DEF DialogsInv, DialogType
  <1>4. ClaimFollows'
    <2> SUFFICES ASSUME ~refused
                 PROVE  \/ \E i \in DOMAIN channel' :
                             /\ channel'[i].to = "saved" /\ channel'[i].is = store
                             /\ \A j \in DOMAIN channel' : j > i => channel'[j].to # "saved"
                        \/ claim' = store /\ \A i \in DOMAIN channel' : channel'[i].to # "saved"
      BY <1>1 DEF ClaimFollows
    <2>1. CASE claim = store /\ \A i \in DOMAIN channel : channel[i].to # "saved"
      <3>1. claim' = claim
        BY <1>1, <1>2, <2>1 DEF D!GotProxy, D!Saved, D!GotSearch, D!SearchSaved, D!proxyVars
      <3>2. QED
        BY <1>2, <2>1, <3>1
    <2>2. ASSUME NEW i \in DOMAIN channel, channel[i].to = "saved", channel[i].is = store,
                 \A j \in DOMAIN channel : j > i => channel[j].to # "saved"
          PROVE  \/ \E q \in DOMAIN channel' :
                      /\ channel'[q].to = "saved" /\ channel'[q].is = store
                      /\ \A j \in DOMAIN channel' : j > q => channel'[j].to # "saved"
                 \/ claim' = store /\ \A q \in DOMAIN channel' : channel'[q].to # "saved"
      <3>1. CASE i = 1
        <4>1. claim' = store
          BY <1>1, <1>2, <2>2, <3>1 DEF D!GotProxy, D!Saved, D!GotSearch, D!SearchSaved
        <4>2. \A q \in DOMAIN channel' : q + 1 > i
          BY <1>2, <3>1
        <4>3. QED
          BY <1>2, <2>2, <4>1, <4>2
      <3>2. CASE i # 1
        <4>1. i - 1 \in DOMAIN channel' /\ channel'[i - 1] = channel[i]
          BY <1>2, <3>2
        <4>2. \A j \in DOMAIN channel' : j > i - 1 => j + 1 > i
          BY <1>2
        <4>3. \A j \in DOMAIN channel' : j > i - 1 => channel'[j].to # "saved"
          BY <1>2, <2>2, <4>2
        <4>4. QED
          BY <2>2, <4>1, <4>3
      <3>3. QED
        BY <3>1, <3>2
    <2>3. QED
      BY <2>1, <2>2 DEF DialogsInv, ClaimFollows
  <1>5. ASSUME NEW j \in DOMAIN channel, j > 1, channel[j].to = "searchSaved"
        PROVE  \E i \in DOMAIN channel' : i = j - 1 /\ channel'[i].to = "searchSaved"
    BY <1>2, <1>5
  <1>6. SearchFollows'
    <2> SUFFICES ASSUME NEW k \in DOMAIN channel', channel'[k].to = "search"
                 PROVE  \/ channel'[k].is = searchStore
                        \/ \E j \in DOMAIN channel' : j > k /\ channel'[j].to = "searchSaved"
      BY <1>1 DEF SearchFollows
    <2>1. k + 1 \in DOMAIN channel /\ channel[k + 1] = channel'[k]
      BY <1>2
    <2>2. \/ channel[k + 1].is = searchStore
          \/ \E j \in DOMAIN channel : j > k + 1 /\ channel[j].to = "searchSaved"
      BY <2>1 DEF DialogsInv, SearchFollows
    <2>3. ASSUME NEW j \in DOMAIN channel, j > k + 1, channel[j].to = "searchSaved"
          PROVE  \E i \in DOMAIN channel' : i > k /\ channel'[i].to = "searchSaved"
      <3>1. j > 1 /\ j - 1 > k
        BY <1>2, <2>3
      <3>2. QED
        BY <1>5, <2>3, <3>1
    <2>4. QED
      BY <2>1, <2>2, <2>3
  <1>7. BoxFollows'
    <2> SUFFICES ASSUME dialogsSearch', ~dialogsTouched'
                 PROVE  \/ box' = (searchStore = "safe")
                        \/ \E i \in DOMAIN channel' : channel'[i].to = "searchSaved"
      BY <1>1 DEF BoxFollows
    <2>1. CASE D!GotSearch(a)
      <3>1. a.to = "search" /\ box' = (a.is = "safe")
        BY <2>1 DEF D!GotSearch
      <3>2. \/ a.is = searchStore
            \/ \E j \in DOMAIN channel : j > 1 /\ channel[j].to = "searchSaved"
        BY <1>2, <3>1 DEF DialogsInv, SearchFollows
      <3>3. QED
        BY <1>5, <3>1, <3>2
    <2>2. CASE D!GotProxy(a) \/ D!Saved(a)
      <3>1. box' = box /\ dialogsTouched' = dialogsTouched /\ dialogsSearch' = dialogsSearch /\ a.to # "searchSaved"
        BY <2>2 DEF D!GotProxy, D!Saved, D!searchVars
      <3>2. \/ box = (searchStore = "safe")
            \/ \E j \in DOMAIN channel : channel[j].to = "searchSaved"
        BY <3>1 DEF DialogsInv, BoxFollows
      <3>3. \A j \in DOMAIN channel : channel[j].to = "searchSaved" => j > 1
        BY <1>2, <3>1
      <3>4. QED
        BY <1>5, <3>1, <3>2, <3>3
    <2>3. CASE D!SearchSaved(a)
      BY <2>3 DEF D!SearchSaved
    <2>4. QED
      BY <1>1, <2>1, <2>2, <2>3
  <1>8. QED
    BY <1>3, <1>4, <1>6, <1>7 DEF DialogsInv


\* What the user does at the window: a request more, the form, the boxes.
LEMMA AskedKeeps ==
  ASSUME DialogsInv, NEW what, NEW x, D!Ask(what, x),
         what \in {"get-proxy", "set-proxy", "get-search", "save-search", "clear"}, x \in Values
  PROVE  DialogsInv'
  <1>1. /\ queue' = Append(queue, [to |-> what, is |-> x, n |-> dialogsActs]) /\ dialogsActs' = dialogsActs + 1
        /\ UNCHANGED <<fields, claim, box, dialogsTouched, dialogsSearch, store, searchStore, applying, channel, refused>>
    BY DEF D!Ask, D!Act, D!proxyVars, D!searchVars, D!mainVars
  <1>2. [to |-> what, is |-> x, n |-> dialogsActs] \in Requests
    BY DEF Requests, DialogsInv, DialogType
  <1>3. queue' \in Seq(Requests) /\ dialogsActs' \in Nat
    BY <1>1, <1>2, Appended DEF DialogsInv, DialogType
  <1>4. DialogType'
    BY <1>1, <1>3 DEF DialogsInv, DialogType
  <1>5. QED
    BY <1>1, <1>4 DEF DialogsInv, ClaimFollows, SearchFollows, BoxFollows

LEMMA FormKeeps ==
  ASSUME DialogsInv, D!EditProxy \/ D!Preset \/ D!CancelProxy \/ D!Render
  PROVE  DialogsInv'
  <1>1. /\ UNCHANGED <<claim, box, dialogsTouched, dialogsSearch, store, searchStore, applying, queue, channel, refused>>
        /\ dialogsActs' = dialogsActs + 1 \/ dialogsActs' = dialogsActs
    BY DEF D!EditProxy, D!Preset, D!CancelProxy, D!Render, D!Act, D!searchVars, D!mainVars
  <1>2. fields' \in [on : BOOLEAN, to : Values]
    <2>1. fields \in [on : BOOLEAN, to : Values] /\ D!Routes \cup {D!Bad} \subseteq Values
      BY DEF DialogsInv, DialogType, D!Routes, D!Bad, Values
    <2>2. (~fields.on) \in BOOLEAN
      OBVIOUS
    <2>3. \/ fields' = fields
          \/ fields' = [fields EXCEPT !.on = ~@]
          \/ \E r \in D!Routes \cup {D!Bad} : fields' = [fields EXCEPT !.to = r]
      BY DEF D!EditProxy, D!Preset, D!CancelProxy, D!Render
    <2>4. QED
      BY <2>1, <2>2, <2>3
  <1>3. DialogType'
    BY <1>1, <1>2 DEF DialogsInv, DialogType
  <1>4. QED
    BY <1>1, <1>3 DEF DialogsInv, ClaimFollows, SearchFollows, BoxFollows

LEMMA SearchFormKeeps ==
  ASSUME DialogsInv, D!Toggle \/ D!CancelSearch
  PROVE  DialogsInv'
  <1>1. /\ UNCHANGED <<fields, claim, store, searchStore, applying, queue, channel, refused>>
        /\ dialogsActs' = dialogsActs + 1 \/ dialogsActs' = dialogsActs
        /\ dialogsTouched' \/ ~dialogsSearch'
    BY DEF D!Toggle, D!CancelSearch, D!Act, D!proxyVars, D!mainVars
  <1>2. DialogType'
    BY <1>1 DEF DialogsInv, DialogType
  <1>3. QED
    BY <1>1, <1>2 DEF DialogsInv, ClaimFollows, SearchFollows, BoxFollows

\* main takes a request: only a bad address, a saved search setting and the
\* questions are answered at once.
LEMMA ServeKeeps == ASSUME DialogsInv, D!Serve PROVE DialogsInv'
  <1> DEFINE r == Head(queue)
  <1>1. /\ queue \in Seq(Requests) /\ queue # <<>> /\ queue' = Tail(queue)
        /\ D!GetProxy(r) \/ D!SetProxy(r) \/ D!GetSearch(r) \/ D!SaveSearchSettings(r) \/ D!ClearData(r)
        /\ UNCHANGED <<fields, claim, box, dialogsTouched, dialogsSearch, dialogsActs>>
    BY DEF D!Serve, D!proxyVars, D!searchVars, DialogsInv, DialogType
  <1>2. queue' \in Seq(Requests) /\ r \in Requests
    BY <1>1, Shortened
  <1>3. r.is \in Values
    BY <1>2 DEF Requests
  <1>4. CASE D!GetProxy(r)
    <2>1. /\ channel' = Append(channel, [to |-> "proxy", is |-> store])
          /\ UNCHANGED <<store, searchStore, applying, refused>>
      BY <1>4 DEF D!GetProxy, D!Answer, D!mainVars
    <2>2. [to |-> "proxy", is |-> store] \in Answers
      BY DEF Answers, AnswerKinds, DialogsInv, DialogType
    <2>3. ClaimFollows' /\ SearchFollows' /\ BoxFollows'
      BY <1>1, <2>1, <2>2, AnswerKeeps
    <2>4. DialogType'
      BY <1>1, <1>2, <2>1, <2>2, Appended DEF DialogsInv, DialogType
    <2>5. QED
      BY <2>3, <2>4 DEF DialogsInv
  <1>5. CASE D!GetSearch(r)
    <2>1. /\ channel' = Append(channel, [to |-> "search", is |-> searchStore])
          /\ UNCHANGED <<store, searchStore, applying, refused>>
      BY <1>5 DEF D!GetSearch, D!Answer, D!mainVars
    <2>2. [to |-> "search", is |-> searchStore] \in Answers
      BY DEF Answers, AnswerKinds, DialogsInv, DialogType
    <2>3. ClaimFollows' /\ SearchFollows' /\ BoxFollows'
      BY <1>1, <2>1, <2>2, AnswerKeeps
    <2>4. DialogType'
      BY <1>1, <1>2, <2>1, <2>2, Appended DEF DialogsInv, DialogType
    <2>5. QED
      BY <2>3, <2>4 DEF DialogsInv
  <1>6. CASE D!SetProxy(r) /\ r.is = D!Bad
    <2>1. /\ channel' = Append(channel, [to |-> "saved", is |-> "bad"]) /\ refused'
          /\ UNCHANGED <<store, searchStore, applying>>
      BY <1>6 DEF D!SetProxy, D!Answer, D!Bad
    <2>2. [to |-> "saved", is |-> "bad"] \in Answers
      BY DEF Answers, AnswerKinds, Values
    <2>3. ClaimFollows' /\ SearchFollows' /\ BoxFollows'
      BY <1>1, <2>1, <2>2, ReportKeeps
    <2>4. DialogType'
      BY <1>1, <1>2, <2>1, <2>2, Appended DEF DialogsInv, DialogType
    <2>5. QED
      BY <2>3, <2>4 DEF DialogsInv
  <1>7. CASE D!SetProxy(r) /\ r.is # D!Bad
    <2>1. applying' = applying \cup {r} /\ UNCHANGED <<store, searchStore, channel, refused>>
      BY <1>7 DEF D!SetProxy
    <2>2. DialogType'
      BY <1>1, <1>2, <2>1 DEF DialogsInv, DialogType
    <2>3. QED
      BY <1>1, <2>1, <2>2 DEF DialogsInv, ClaimFollows, SearchFollows, BoxFollows
  <1>8. CASE D!SaveSearchSettings(r)
    <2>1. /\ channel' = Append(channel, [to |-> "searchSaved", is |-> "none"]) /\ searchStore' = r.is
          /\ UNCHANGED <<store, applying, refused>>
      BY <1>8 DEF D!SaveSearchSettings, D!Answer, D!None
    <2>2. [to |-> "searchSaved", is |-> "none"] \in Answers
      BY DEF Answers, AnswerKinds, Values
    <2>3. ClaimFollows' /\ SearchFollows' /\ BoxFollows'
      BY <1>1, <2>1, <2>2, SearchReportKeeps
    <2>4. DialogType'
      BY <1>1, <1>2, <1>3, <2>1, <2>2, Appended DEF DialogsInv, DialogType
    <2>5. QED
      BY <2>3, <2>4 DEF DialogsInv
  <1>9. CASE D!ClearData(r)
    <2>1. UNCHANGED <<store, searchStore, applying, channel, refused>>
      BY <1>9 DEF D!ClearData
    <2>2. DialogType'
      BY <1>1, <1>2, <2>1 DEF DialogsInv, DialogType
    <2>3. QED
      BY <1>1, <2>1, <2>2 DEF DialogsInv, ClaimFollows, SearchFollows, BoxFollows
  <1>10. QED
    BY <1>1, <1>4, <1>5, <1>6, <1>7, <1>8, <1>9

\* What main does of its own: a proxy is applied or refused, the store cleared.
LEMMA MainKeeps == ASSUME DialogsInv, D!Applied \/ D!Fails \/ D!StoreCleared PROVE DialogsInv'
  <1>1. CASE D!Applied
    <2>1. PICK r \in applying :
            /\ applying' = applying \ {r} /\ store' = r.is
            /\ channel' = Append(channel, [to |-> "saved", is |-> r.is])
            /\ UNCHANGED <<fields, claim, box, dialogsTouched, dialogsSearch, searchStore, queue, refused, dialogsActs>>
      BY <1>1 DEF D!Applied, D!Answer, D!proxyVars, D!searchVars
    <2>2. r.is \in Values
      BY <2>1 DEF DialogsInv, DialogType, Requests
    <2>3. [to |-> "saved", is |-> r.is] \in Answers
      BY <2>2 DEF Answers, AnswerKinds
    <2>4. ClaimFollows' /\ SearchFollows' /\ BoxFollows'
      BY <2>1, <2>3, ReportKeeps
    <2>5. DialogType'
      BY <2>1, <2>2, <2>3, Appended DEF DialogsInv, DialogType
    <2>6. QED
      BY <2>4, <2>5 DEF DialogsInv
  <1>2. CASE D!Fails \/ D!StoreCleared
    <2>1. /\ UNCHANGED <<fields, claim, box, dialogsTouched, dialogsSearch, store, searchStore, queue, channel, refused, dialogsActs>>
          /\ applying' \subseteq applying
      BY <1>2 DEF D!Fails, D!StoreCleared, D!Preserved, D!proxyVars, D!searchVars
    <2>2. DialogType'
      BY <2>1 DEF DialogsInv, DialogType
    <2>3. QED
      BY <2>1, <2>2 DEF DialogsInv, ClaimFollows, SearchFollows, BoxFollows
  <1>3. QED
    BY <1>1, <1>2

LEMMA DialogsStart == ASSUME D!Init PROVE DialogsInv
  <1>1. /\ queue = <<>> /\ channel = <<>> /\ applying = {} /\ dialogsActs = 0
        /\ store = "off" /\ searchStore = "none" /\ fields = [on |-> FALSE, to |-> "vpn"]
        /\ claim = "off" /\ ~dialogsSearch
    BY DEF D!Init, D!Off, D!None
  <1>2. DialogType
    BY <1>1, EmptySeq DEF DialogType, Values
  <1>3. DOMAIN channel = {}
    BY <1>1
  <1>4. QED
    BY <1>1, <1>2, <1>3 DEF DialogsInv, ClaimFollows, SearchFollows, BoxFollows

LEMMA DialogsStay == ASSUME DialogsInv, [D!Next]_(D!vars) PROVE DialogsInv'
  <1>1. CASE D!ProxyButton \/ D!SaveProxy \/ D!showSearchSettings \/ D!SaveSearch \/ D!ClearButton \/ D!AutoClear
    <2>1. D!Config \in Values
      BY DEF D!Config, D!Off, Values, DialogsInv, DialogType
    <2>2. (IF box THEN "safe" ELSE "unsafe") \in Values /\ "none" \in Values
      BY DEF Values
    <2>3. CASE D!ProxyButton
      BY <2>2, <2>3, AskedKeeps DEF D!ProxyButton, D!None
    <2>4. CASE D!SaveProxy
      BY <2>1, <2>4, AskedKeeps DEF D!SaveProxy
    <2>5. CASE D!showSearchSettings
      BY <2>2, <2>5, AskedKeeps DEF D!showSearchSettings, D!None
    <2>6. CASE D!SaveSearch
      BY <2>2, <2>6, AskedKeeps DEF D!SaveSearch
    <2>7. CASE D!ClearButton \/ D!AutoClear
      BY <2>2, <2>7, AskedKeeps DEF D!ClearButton, D!AutoClear, D!None
    <2>8. QED
      BY <1>1, <2>3, <2>4, <2>5, <2>6, <2>7
  <1>2. CASE UNCHANGED D!vars
    BY <1>2 DEF D!vars, D!proxyVars, D!searchVars, D!mainVars, DialogsInv, DialogType, ClaimFollows, SearchFollows, BoxFollows
  <1>3. QED
    BY <1>1, <1>2, FormKeeps, SearchFormKeeps, ServeKeeps, MainKeeps, TakeKeeps DEF D!Next

\* With nothing on its way, "Proxy: ..." and the box of safe search show what
\* main has stored (saveProxySettings and saveSearchSettings of the window,
\* "set-proxy" and "save-search-settings" of main), for any number of acts.
THEOREM SpecDialogsAreHonest == D!Spec => []DialogsAreHonest
  <1>1. DialogsInv => DialogsAreHonest
    <2>1. channel = <<>> => DOMAIN channel = {}
      OBVIOUS
    <2>2. QED
      BY <2>1 DEF DialogsInv, ClaimFollows, BoxFollows, DialogsAreHonest, D!DialogsAreHonest, D!ClaimIsStored, D!BoxShowsStore, D!AtRest
  <1>2. QED
    BY <1>1, DialogsStart, DialogsStay, PTL DEF D!Spec


-----------------------------------------------------------------------------
(* Removing the first of what is equal from a sequence                     *)

LEMMA LeastNumber == ASSUME NEW I, I \subseteq Nat, I # {} PROVE \E i \in I : \A j \in I : i <= j
  <1> DEFINE down == {1..n : n \in I}
             less == StrictSubsetOrdering(Nat)
             all  == FiniteSubsetsOf(Nat)
  <1>1. down \subseteq all /\ down # {}
    <2>1. ASSUME NEW n \in I PROVE 1..n \in all
      <3>1. n \in Int /\ 1..n \subseteq Nat
        OBVIOUS
      <3>2. IsFiniteSet(1..n)
        BY <3>1, FS_Interval
      <3>3. QED
        BY <3>1, <3>2 DEF FiniteSubsetsOf
    <2>2. QED
      BY <2>1
  <1>2. IsWellFoundedOn(less, all)
    BY FS_StrictSubsetOrderingWellFounded
  <1>3. \E x \in down : \A y \in down : <<y, x>> \notin less
    <2> HIDE DEF down, less, all
    <2>1. QED
      BY <1>1, <1>2, WFMin
  <1>4. PICK i \in I : \A y \in down : <<y, 1..i>> \notin less
    BY <1>3
  <1>5. ASSUME NEW j \in I, j < i PROVE FALSE
    <2>1. 1..j \in down /\ 1..i \in down
      OBVIOUS
    <2>2. 1..j \subseteq 1..i /\ i \in 1..i /\ i \notin 1..j /\ 1..i \subseteq Nat /\ 1..j \subseteq Nat
      BY <1>5
    <2>3. 1..j # 1..i
      BY <2>2
    <2>4. <<1..j, 1..i>> \in less
      BY <2>2, <2>3 DEF StrictSubsetOrdering
    <2>5. QED
      BY <1>4, <2>1, <2>4
  <1>6. QED
    BY <1>5

\* The place at which RemoveFirst removes.
LEMMA FirstPlace ==
  ASSUME NEW Item, NEW s \in Seq(Item), NEW x, \E k \in 1..Len(s) : s[k] = x
  PROVE  \E i \in 1..Len(s) : s[i] = x /\ RemoveFirst(s, x) = RemoveAt(s, i)
  <1> DEFINE I == {i \in 1..Len(s) : s[i] = x}
             least == CHOOSE i \in I : \A j \in I : i <= j
  <1>1. I # {} /\ I \subseteq Nat
    BY LenProperties
  <1>2. \E i \in I : \A j \in I : i <= j
    <2> HIDE DEF I
    <2>1. QED
      BY <1>1, LeastNumber
  <1>3. least \in I
    <2> HIDE DEF I
    <2>1. QED
      BY <1>2
  <1>4. RemoveFirst(s, x) = RemoveAt(s, least)
    BY <1>1 DEF RemoveFirst, SelectInSeq, Min
  <1>5. QED
    <2> HIDE DEF least
    <2>1. QED
      BY <1>3, <1>4

\* What is left without the element at place i.
LEMMA RemovedAt ==
  ASSUME NEW Item, NEW s \in Seq(Item), NEW i \in 1..Len(s)
  PROVE  /\ RemoveAt(s, i) \in Seq(Item) /\ Len(RemoveAt(s, i)) = Len(s) - 1
         /\ \A k \in 1..(Len(s) - 1) : RemoveAt(s, i)[k] = IF k < i THEN s[k] ELSE s[k + 1]
  <1> DEFINE front == SubSeq(s, 1, i - 1)
             back  == SubSeq(s, i + 1, Len(s))
  <1>1. Len(s) \in Nat /\ i \in Nat /\ i >= 1 /\ i <= Len(s) /\ \A k \in 1..Len(s) : s[k] \in Item
    BY LenProperties, ElementOfSeq
  <1>2. front \in Seq(Item) /\ Len(front) = i - 1 /\ \A k \in 1..(i - 1) : front[k] = s[k]
    BY <1>1, SubSeqProperties
  <1>3. back \in Seq(Item) /\ Len(back) = Len(s) - i /\ \A k \in 1..(Len(s) - i) : back[k] = s[i + k]
    BY <1>1, SubSeqProperties
  <1> HIDE DEF front, back
  <1>4. /\ front \o back \in Seq(Item) /\ Len(front \o back) = Len(s) - 1
        /\ \A k \in 1..(Len(s) - 1) :
             (front \o back)[k] = IF k <= i - 1 THEN front[k] ELSE back[k - (i - 1)]
    <2>1. /\ front \o back \in Seq(Item) /\ Len(front \o back) = Len(front) + Len(back)
          /\ \A k \in 1..(Len(front) + Len(back)) :
               (front \o back)[k] = IF k <= Len(front) THEN front[k] ELSE back[k - Len(front)]
      BY <1>2, <1>3, ConcatProperties
    <2>2. Len(front) + Len(back) = Len(s) - 1
      BY <1>1, <1>2, <1>3
    <2>3. QED
      BY <1>2, <2>1, <2>2
  <1>5. ASSUME NEW k \in 1..(Len(s) - 1)
        PROVE  (front \o back)[k] = IF k < i THEN s[k] ELSE s[k + 1]
    <2>1. CASE k < i
      BY <1>1, <1>2, <1>4, <2>1
    <2>2. CASE k >= i
      <3>1. k - (i - 1) \in 1..(Len(s) - i) /\ i + (k - (i - 1)) = k + 1 /\ ~(k <= i - 1)
        BY <1>1, <2>2
      <3> DEFINE n == k - (i - 1)
      <3>0. n \in 1..(Len(s) - i) /\ i + n = k + 1
        BY <3>1
      <3> HIDE DEF n
      <3>2. back[n] = s[k + 1]
        BY <1>3, <3>0
      <3>3. (front \o back)[k] = back[n]
        BY <1>4, <3>1 DEF n
      <3>4. ~(k < i)
        BY <1>1, <2>2
      <3>5. QED
        BY <3>2, <3>3, <3>4
    <2>3. k < i \/ k >= i
      BY <1>1
    <2>4. QED
      BY <2>1, <2>2, <2>3
  <1>6. RemoveAt(s, i) = front \o back
    BY DEF RemoveAt, front, back
  <1>7. QED
    BY <1>4, <1>5, <1>6


\* What is left without the first of what equals x.
LEMMA OthersStay ==
  ASSUME NEW Item, NEW s \in Seq(Item), NEW x, x \in ToSet(s)
  PROVE  /\ RemoveFirst(s, x) \in Seq(Item)
         /\ ToSet(s) \ {x} \subseteq ToSet(RemoveFirst(s, x))
         /\ ToSet(RemoveFirst(s, x)) \subseteq ToSet(s)
         /\ IsInjective(s) => IsInjective(RemoveFirst(s, x)) /\ x \notin ToSet(RemoveFirst(s, x))
  <1>1. Len(s) \in Nat /\ DOMAIN s = 1..Len(s)
    BY LenProperties
  <1>2. PICK i \in 1..Len(s) : s[i] = x /\ RemoveFirst(s, x) = RemoveAt(s, i)
    <2>1. \E k \in 1..Len(s) : s[k] = x
      BY <1>1 DEF ToSet
    <2>2. QED
      BY <2>1, FirstPlace
  <1> DEFINE r == RemoveFirst(s, x)
  <1>3. /\ r \in Seq(Item) /\ Len(r) = Len(s) - 1
        /\ \A k \in 1..(Len(s) - 1) : r[k] = IF k < i THEN s[k] ELSE s[k + 1]
    BY <1>2, RemovedAt
  <1> HIDE DEF r
  <1>4. DOMAIN r = 1..(Len(s) - 1)
    BY <1>3, LenProperties
  <1>5. ASSUME NEW k \in 1..(Len(s) - 1)
        PROVE  \E j \in 1..Len(s) : j # i /\ r[k] = s[j] /\ (k < i => j = k) /\ (k >= i => j = k + 1)
    <2>1. CASE k < i
      <3>1. r[k] = s[k] /\ k \in 1..Len(s) /\ k # i /\ ~(k >= i)
        BY <1>1, <1>3, <2>1
      <3>2. QED
        BY <3>1
    <2>2. CASE k >= i
      <3>1. r[k] = s[k + 1] /\ k + 1 \in 1..Len(s) /\ k + 1 # i /\ ~(k < i)
        BY <1>1, <1>3, <2>2
      <3>2. QED
        BY <3>1
    <2>3. k < i \/ k >= i
      BY <1>1
    <2>4. QED
      BY <2>1, <2>2, <2>3
  <1>6. ToSet(r) \subseteq ToSet(s)
    BY <1>1, <1>4, <1>5 DEF ToSet
  <1>7. ASSUME NEW j \in 1..Len(s), j # i
        PROVE  s[j] \in ToSet(r)
    <2>1. CASE j < i
      <3>1. j \in 1..(Len(s) - 1)
        BY <1>1, <2>1
      <3>2. r[j] = s[j]
        BY <1>3, <2>1, <3>1
      <3>3. QED
        BY <1>4, <3>1, <3>2 DEF ToSet
    <2>2. CASE j > i
      <3>1. j - 1 \in 1..(Len(s) - 1) /\ ~(j - 1 < i) /\ (j - 1) + 1 = j
        BY <1>1, <2>2
      <3>2. r[j - 1] = s[j]
        BY <1>3, <3>1
      <3>3. QED
        BY <1>4, <3>1, <3>2 DEF ToSet
    <2>3. j < i \/ j > i
      BY <1>1, <1>7
    <2>4. QED
      BY <2>1, <2>2, <2>3
  <1>8. ToSet(s) \ {x} \subseteq ToSet(r)
    BY <1>1, <1>2, <1>7 DEF ToSet
  <1>9. ASSUME IsInjective(s) PROVE IsInjective(r) /\ x \notin ToSet(r)
    <2>1. \A a \in 1..Len(s), b \in 1..Len(s) : s[a] = s[b] => a = b
      BY <1>1, <1>9 DEF IsInjective
    <2>2. x \notin ToSet(r)
      BY <1>2, <1>4, <1>5, <2>1 DEF ToSet
    <2>3. ASSUME NEW a \in 1..(Len(s) - 1), NEW b \in 1..(Len(s) - 1), r[a] = r[b]
          PROVE  a = b
      <3>1. PICK aa \in 1..Len(s) : r[a] = s[aa] /\ (a < i => aa = a) /\ (a >= i => aa = a + 1)
        BY <1>5
      <3>2. PICK bb \in 1..Len(s) : r[b] = s[bb] /\ (b < i => bb = b) /\ (b >= i => bb = b + 1)
        BY <1>5
      <3>3. aa = bb
        BY <2>1, <2>3, <3>1, <3>2
      <3>4. QED
        BY <1>1, <3>1, <3>2, <3>3
    <2>4. IsInjective(r)
      BY <1>4, <2>3 DEF IsInjective
    <2>5. QED
      BY <2>2, <2>4
  <1>10. QED
    BY <1>3, <1>6, <1>8, <1>9 DEF r

LEMMA SameOperators ==
  ASSUME NEW s, NEW x
  PROVE  B!ToSet(s) = ToSet(s) /\ B!RemoveFirst(s, x) = RemoveFirst(s, x)
  <1>1. B!ToSet(s) = ToSet(s)
    BY DEF B!ToSet, ToSet
  <1>2. \A i : B!RemoveAt(s, i) = RemoveAt(s, i)
    BY DEF B!RemoveAt, RemoveAt
  <1>3. B!SelectInSeq(s, LAMBDA v : v = x) = SelectInSeq(s, LAMBDA v : v = x)
    BY DEF B!SelectInSeq, SelectInSeq, B!Min, Min
  <1>4. QED
    BY <1>1, <1>2, <1>3 DEF B!RemoveFirst, RemoveFirst


-----------------------------------------------------------------------------
(* The pages: counts, and the clearing that goes from tab to tab           *)

CountsType ==
  /\ stats \in [B!Blocked -> Nat] /\ total \in Nat /\ popups \in Nat

CountsInv == CountsType /\ B!CountsAddUp

ClearingType ==
  /\ browsingTabs \in Seq(UITabs)
  /\ clearing \in [Clears -> [left : Seq(UITabs), at : {"done", "window", "tabs"}]]
  /\ cleared \in [Clears -> SUBSET UITabs]

\* A clearing that goes over the tabs has before it all that it must clear
\* and has not, if no session has refused.
ClearingFollows ==
  ~rejected => \A c \in Clears : clearing[c].at = "tabs" => cleared[c] \subseteq ToSet(clearing[c].left)

ClearingInv == ClearingType /\ ClearingFollows

\* What blocks, counts and resets.
LEMMA CountsStay == ASSUME CountsInv, [B!Next]_(B!vars) PROVE CountsInv'
  <1>1. /\ stats \in [B!Blocked -> Nat] /\ total \in Nat /\ popups \in Nat
        /\ total = stats["ads"] + stats["heuristic"] + stats["downloads"] + popups
        /\ B!Blocked = {"ads", "heuristic", "downloads"}
    BY DEF CountsInv, CountsType, B!CountsAddUp, B!Blocked
  <1>2. CASE UNCHANGED B!statVars
    BY <1>2 DEF B!statVars, CountsInv, CountsType, B!CountsAddUp
  <1>3. ASSUME NEW b \in B!Blocked, stats' = [stats EXCEPT ![b] = @ + 1], total' = total + 1, popups' = popups
        PROVE  CountsInv'
    <2>1. stats' \in [B!Blocked -> Nat] /\ total' \in Nat
      BY <1>1, <1>3
    <2>2. stats'[b] = stats[b] + 1 /\ \A a \in B!Blocked \ {b} : stats'[a] = stats[a]
      BY <1>1, <1>3
    <2>3. stats["ads"] \in Nat /\ stats["heuristic"] \in Nat /\ stats["downloads"] \in Nat
      BY <1>1
    <2>4. total' = stats'["ads"] + stats'["heuristic"] + stats'["downloads"] + popups'
      BY <1>1, <1>3, <2>2, <2>3
    <2>5. QED
      BY <1>1, <1>3, <2>1, <2>4 DEF CountsInv, CountsType, B!CountsAddUp
  <1>4. ASSUME NEW t \in UITabs, B!Listed(t) PROVE CountsInv'
    <2>1. PICK b \in {"ads", "heuristic"} : stats' = [stats EXCEPT ![b] = @ + 1]
      BY <1>4 DEF B!Listed
    <2>2. b \in B!Blocked /\ total' = total + 1 /\ popups' = popups
      BY <1>1, <1>4 DEF B!Listed
    <2>3. QED
      BY <1>3, <2>1, <2>2
  <1>5. ASSUME NEW t \in UITabs, B!Download(t) PROVE CountsInv'
    <2>1. stats' = [stats EXCEPT !["downloads"] = @ + 1] /\ total' = total + 1 /\ popups' = popups
      BY <1>5 DEF B!Download
    <2>2. QED
      BY <1>1, <1>3, <2>1
  <1>6. ASSUME B!Popup PROVE CountsInv'
    <2>1. stats' = stats /\ total' = total + 1 /\ popups' = popups + 1
      BY <1>6 DEF B!Popup
    <2>2. stats["ads"] \in Nat /\ stats["heuristic"] \in Nat /\ stats["downloads"] \in Nat
      BY <1>1
    <2>3. QED
      BY <1>1, <2>1, <2>2 DEF CountsInv, CountsType, B!CountsAddUp
  <1>7. ASSUME B!ResetStats PROVE CountsInv'
    BY <1>7 DEF B!ResetStats, B!Zero, B!Nothing, B!Blocked, CountsInv, CountsType, B!CountsAddUp
  <1>8. ASSUME NEW t \in UITabs, B!CreateTab(t) \/ B!CloseTab(t) \/ B!Request(t) \/ \E u \in B!Addresses : B!Navigate(t, u)
        PROVE  UNCHANGED B!statVars
    BY <1>8 DEF B!CreateTab, B!CloseTab, B!Request, B!Navigate
  <1>9. ASSUME NEW c \in Clears, B!ClearData(c) \/ B!ClearWindow(c) \/ B!ClearTab(c) \/ B!ClearStore(c)
        PROVE  UNCHANGED B!statVars
    BY <1>9 DEF B!ClearData, B!ClearWindow, B!ClearTab, B!ClearStore
  <1>10. ASSUME \/ \E f \in B!Flags : B!Toggle(f)
                \/ \E on \in BOOLEAN : B!SetProxy(on)
                \/ B!ShowSettings \/ B!LoadSettings \/ B!SaveSettings \/ B!CancelSettings
                \/ B!ProxyStored \/ B!Search \/ B!Answered \/ B!SearchSent \/ UNCHANGED B!vars
        PROVE  UNCHANGED B!statVars
    BY <1>10 DEF B!Toggle, B!SetProxy, B!ShowSettings, B!LoadSettings, B!SaveSettings, B!CancelSettings,
              B!ProxyStored, B!Search, B!Answered, B!SearchSent, B!vars
  <1>11. QED
    BY <1>2, <1>4, <1>5, <1>6, <1>7, <1>8, <1>9, <1>10 DEF B!Next

\* Every step but those of a tab and of a clearing leaves them alone.
LEMMA ClearingRests ==
  ASSUME ClearingInv, UNCHANGED <<browsingTabs, clearing, cleared, rejected>>
  PROVE  ClearingInv'
  BY DEF ClearingInv, ClearingType, ClearingFollows

\* A tab that is created is the last that a clearing comes to.
LEMMA CreateKeepsClearing == ASSUME ClearingInv, NEW t \in UITabs, B!CreateTab(t) PROVE ClearingInv'
  <1>1. /\ browsingTabs' = Append(browsingTabs, t)
        /\ clearing' = [c \in Clears |->
             IF clearing[c].at = "tabs" THEN [clearing[c] EXCEPT !.left = Append(@, t)] ELSE clearing[c]]
        /\ cleared' = cleared /\ rejected' = rejected
    BY DEF B!CreateTab
  <1>2. browsingTabs' \in Seq(UITabs)
    BY <1>1, Appended DEF ClearingInv, ClearingType
  <1>3. ASSUME NEW c \in Clears
        PROVE  /\ clearing'[c] \in [left : Seq(UITabs), at : {"done", "window", "tabs"}]
               /\ clearing'[c].at = clearing[c].at
               /\ clearing[c].at = "tabs" => ToSet(clearing[c].left) \subseteq ToSet(clearing'[c].left)
    <2> DEFINE s == clearing[c].left
    <2>1. clearing[c] \in [left : Seq(UITabs), at : {"done", "window", "tabs"}] /\ s \in Seq(UITabs)
      BY DEF ClearingInv, ClearingType
    <2>2. Append(s, t) \in Seq(UITabs) /\ \A k \in DOMAIN s : k \in DOMAIN Append(s, t) /\ Append(s, t)[k] = s[k]
      BY <2>1, Appended
    <2>3. ToSet(s) \subseteq ToSet(Append(s, t))
      BY <2>2 DEF ToSet
    <2>4. clearing'[c] = IF clearing[c].at = "tabs" THEN [clearing[c] EXCEPT !.left = Append(s, t)] ELSE clearing[c]
      BY <1>1
    <2>5. QED
      BY <2>1, <2>2, <2>3, <2>4
  <1>4. clearing' \in [Clears -> [left : Seq(UITabs), at : {"done", "window", "tabs"}]]
    BY <1>1, <1>3
  <1>5. ClearingFollows'
    BY <1>1, <1>3 DEF ClearingInv, ClearingFollows
  <1>6. QED
    BY <1>1, <1>2, <1>4, <1>5 DEF ClearingInv, ClearingType

\* A tab that is closed needs no clearing.
LEMMA CloseKeepsClearing == ASSUME ClearingInv, NEW t \in UITabs, B!CloseTab(t) PROVE ClearingInv'
  <1>1. /\ browsingTabs' = RemoveFirst(browsingTabs, t) /\ t \in ToSet(browsingTabs)
        /\ clearing' = [c \in Clears |-> [clearing[c] EXCEPT !.left = RemoveFirst(@, t)]]
        /\ cleared' = [c \in Clears |-> cleared[c] \ {t}] /\ rejected' = rejected
    BY SameOperators DEF B!CloseTab, B!Remaining
  <1>2. browsingTabs' \in Seq(UITabs)
    BY <1>1, OthersStay DEF ClearingInv, ClearingType
  <1>3. ASSUME NEW c \in Clears
        PROVE  /\ clearing'[c] \in [left : Seq(UITabs), at : {"done", "window", "tabs"}]
               /\ clearing'[c].at = clearing[c].at
               /\ ToSet(clearing[c].left) \ {t} \subseteq ToSet(clearing'[c].left)
    <2> DEFINE s == clearing[c].left
    <2>1. clearing[c] \in [left : Seq(UITabs), at : {"done", "window", "tabs"}] /\ s \in Seq(UITabs)
      BY DEF ClearingInv, ClearingType
    <2>2. clearing'[c] = [clearing[c] EXCEPT !.left = RemoveFirst(s, t)]
      BY <1>1
    <2>3. RemoveFirst(s, t) \in Seq(UITabs) /\ ToSet(s) \ {t} \subseteq ToSet(RemoveFirst(s, t))
      <3>1. CASE t \in ToSet(s)
        BY <2>1, <3>1, OthersStay
      <3>2. CASE t \notin ToSet(s)
        <4>1. RemoveFirst(s, t) = s
          BY <2>1, <3>2, LenProperties DEF ToSet, RemoveFirst
        <4>2. QED
          BY <2>1, <4>1
      <3>3. QED
        BY <3>1, <3>2
    <2>4. QED
      BY <2>1, <2>2, <2>3
  <1>4. clearing' \in [Clears -> [left : Seq(UITabs), at : {"done", "window", "tabs"}]]
    BY <1>1, <1>3
  <1>5. cleared' \in [Clears -> SUBSET UITabs] /\ \A c \in Clears : cleared'[c] = cleared[c] \ {t}
    BY <1>1 DEF ClearingInv, ClearingType
  <1>6. ClearingFollows'
    BY <1>1, <1>3, <1>5 DEF ClearingInv, ClearingFollows
  <1>7. QED
    BY <1>2, <1>4, <1>5, <1>6 DEF ClearingInv, ClearingType

\* The steps of a clearing.
LEMMA ClearStepsKeep ==
  ASSUME ClearingInv, NEW c \in Clears, B!ClearData(c) \/ B!ClearWindow(c) \/ B!ClearTab(c) \/ B!ClearStore(c)
  PROVE  ClearingInv'
  <1> DEFINE Walks == [left : Seq(UITabs), at : {"done", "window", "tabs"}]
  <1>0. /\ browsingTabs \in Seq(UITabs) /\ clearing \in [Clears -> Walks]
        /\ cleared \in [Clears -> SUBSET UITabs] /\ <<>> \in Seq(UITabs)
    BY EmptySeq DEF ClearingInv, ClearingType
  <1>1. CASE B!ClearData(c) \/ B!ClearStore(c)
    <2>1. PICK at \in {"done", "window"} :
            /\ clearing' = [clearing EXCEPT ![c] = [left |-> <<>>, at |-> at]]
            /\ cleared' = cleared \/ cleared' = [cleared EXCEPT ![c] = {}]
            /\ browsingTabs' = browsingTabs /\ rejected' = rejected
      BY <1>1 DEF B!ClearData, B!ClearStore, B!Done, B!tabVars
    <2>2. [left |-> <<>>, at |-> at] \in Walks
      BY <1>0
    <2>3. ClearingType'
      BY <1>0, <2>1, <2>2 DEF ClearingType
    <2>4. \A d \in Clears : clearing'[d].at = "tabs" => clearing'[d] = clearing[d] /\ cleared'[d] = cleared[d]
      BY <1>0, <2>1
    <2>5. QED
      BY <2>1, <2>3, <2>4 DEF ClearingInv, ClearingFollows
  <1>2. CASE B!ClearWindow(c)
    <2>1. browsingTabs' = browsingTabs /\ rejected' = rejected
      BY <1>2 DEF B!ClearWindow, B!tabVars
    <2>2. CASE /\ clearing' = [clearing EXCEPT ![c] = [left |-> browsingTabs, at |-> "tabs"]]
               /\ cleared' = [cleared EXCEPT ![c] = ToSet(browsingTabs)]
      <3>1. [left |-> browsingTabs, at |-> "tabs"] \in Walks
        BY <1>0
      <3>2. ToSet(browsingTabs) \subseteq UITabs
        BY <1>0, LenProperties, ElementOfSeq DEF ToSet
      <3>3. ClearingType'
        BY <1>0, <2>1, <2>2, <3>1, <3>2 DEF ClearingType
      <3>4. /\ clearing'[c].left = browsingTabs /\ cleared'[c] = ToSet(browsingTabs)
            /\ \A d \in Clears \ {c} : clearing'[d] = clearing[d] /\ cleared'[d] = cleared[d]
        BY <1>0, <2>2
      <3>5. QED
        BY <2>1, <3>3, <3>4 DEF ClearingInv, ClearingFollows
    <2>3. CASE clearing' = [clearing EXCEPT ![c] = B!Done] /\ cleared' = cleared
      <3>1. B!Done \in Walks /\ B!Done.at # "tabs"
        BY <1>0 DEF B!Done
      <3>2. ClearingType'
        BY <1>0, <2>1, <2>3, <3>1 DEF ClearingType
      <3>3. \A d \in Clears : clearing'[d].at = "tabs" => clearing'[d] = clearing[d]
        BY <1>0, <2>3, <3>1
      <3>4. QED
        BY <2>1, <2>3, <3>2, <3>3 DEF ClearingInv, ClearingFollows
    <2>4. QED
      BY <1>2, <2>2, <2>3, SameOperators DEF B!ClearWindow
  <1>3. CASE B!ClearTab(c)
    <2> DEFINE s == clearing[c].left
               t == Head(s)
    <2>1. /\ s # <<>> /\ clearing' = [clearing EXCEPT ![c].left = Tail(s)] /\ browsingTabs' = browsingTabs
          /\ \/ cleared' = [d \in Clears |-> cleared[d] \ {t}] /\ rejected' = rejected
             \/ rejected' /\ cleared' = cleared
      BY <1>3 DEF B!ClearTab, B!tabVars
    <2>2. s \in Seq(UITabs)
      BY <1>0
    <2>3. /\ Tail(s) \in Seq(UITabs) /\ t = s[1]
          /\ \A k \in DOMAIN s : k # 1 => k - 1 \in DOMAIN Tail(s) /\ Tail(s)[k - 1] = s[k]
      BY <2>1, <2>2, Shortened
    <2>4. ToSet(s) \ {t} \subseteq ToSet(Tail(s))
      <3> HIDE DEF s, t
      <3> SUFFICES ASSUME NEW k \in DOMAIN s, s[k] # t PROVE s[k] \in ToSet(Tail(s))
        BY DEF ToSet
      <3>1. k - 1 \in DOMAIN Tail(s) /\ Tail(s)[k - 1] = s[k]
        BY <2>3
      <3>2. QED
        BY <3>1 DEF ToSet
    <2>5. clearing'[c].left = Tail(s) /\ clearing'[c] \in Walks /\ clearing' \in [Clears -> Walks]
      BY <1>0, <2>1, <2>3
    <2>6. \A d \in Clears : clearing'[d].at = clearing[d].at /\ (d # c => clearing'[d] = clearing[d])
      BY <1>0, <2>1
    <2>7. ClearingType'
      BY <1>0, <2>1, <2>5 DEF ClearingType
    <2>8. ClearingFollows'
      <3> SUFFICES ASSUME ~rejected', NEW d \in Clears, clearing'[d].at = "tabs"
                   PROVE  cleared'[d] \subseteq ToSet(clearing'[d].left)
        BY DEF ClearingFollows
      <3>1. cleared'[d] = cleared[d] \ {t} /\ ~rejected
        BY <2>1
      <3>2. cleared[d] \subseteq ToSet(clearing[d].left)
        BY <2>6, <3>1 DEF ClearingInv, ClearingFollows
      <3>3. QED
        BY <2>4, <2>5, <2>6, <3>1, <3>2
    <2>9. QED
      BY <2>7, <2>8 DEF ClearingInv
  <1>4. QED
    BY <1>1, <1>2, <1>3

LEMMA ClearingStays == ASSUME ClearingInv, [B!Next]_(B!vars) PROVE ClearingInv'
  <1>1. ASSUME NEW t \in UITabs, B!Listed(t) \/ B!Request(t) \/ B!Download(t) \/ \E u \in B!Addresses : B!Navigate(t, u)
        PROVE  ClearingInv'
    BY <1>1, ClearingRests DEF B!Listed, B!Request, B!Download, B!Navigate, B!tabVars, B!clearVars
  <1>2. ASSUME \/ \E f \in B!Flags : B!Toggle(f)
               \/ \E on \in BOOLEAN : B!SetProxy(on)
               \/ B!Popup \/ B!ResetStats
               \/ B!ShowSettings \/ B!LoadSettings \/ B!SaveSettings \/ B!CancelSettings
               \/ B!ProxyStored \/ B!Search \/ B!Answered \/ B!SearchSent \/ UNCHANGED B!vars
        PROVE  ClearingInv'
    <2>1. UNCHANGED <<B!tabVars, B!clearVars>>
      BY <1>2 DEF B!Toggle, B!SetProxy, B!Popup, B!ResetStats, B!ShowSettings, B!LoadSettings, B!SaveSettings,
              B!CancelSettings, B!ProxyStored, B!Search, B!Answered, B!SearchSent, B!vars
    <2>2. QED
      BY <2>1, ClearingRests DEF B!tabVars, B!clearVars
  <1>3. QED
    BY <1>1, <1>2, CreateKeepsClearing, CloseKeepsClearing, ClearStepsKeep DEF B!Next

\* The total is the sum of what is counted apart and the pop-ups, and a
\* clearing that ends well has cleared every tab that was open when it came to
\* the tabs and still is (clearAllData), for any number of tabs and clearings.
THEOREM SpecClearingIsSound == B!Spec => ClearingIsSound
  <1>1. B!Init => CountsInv
    BY DEF B!Init, B!Nothing, B!Blocked, CountsInv, CountsType, B!CountsAddUp
  <1>2. B!Init => ClearingInv
    <2> SUFFICES ASSUME B!Init PROVE ClearingInv
      OBVIOUS
    <2>1. /\ browsingTabs = <<>> /\ clearing = [c \in Clears |-> [left |-> <<>>, at |-> "done"]]
          /\ cleared = [c \in Clears |-> {}]
      BY DEF B!Init, B!Done
    <2>2. QED
      BY <2>1, EmptySeq DEF ClearingInv, ClearingType, ClearingFollows
  <1>3. CountsInv => B!CountsAddUp
    BY DEF CountsInv
  <1>4. ClearingInv => \A c \in Clears : B!ClearStore(c) /\ ~rejected => cleared[c] = {}
    <2>1. ToSet(<<>>) = {}
      BY DEF ToSet
    <2>2. QED
      BY <2>1 DEF ClearingInv, ClearingFollows, B!ClearStore
  <1>5. B!Spec => []B!CountsAddUp
    BY <1>1, <1>3, CountsStay, PTL DEF B!Spec
  <1>6. B!Spec => B!ClearedMeansClean
    <2>1. B!Spec => []ClearingInv
      BY <1>2, ClearingStays, PTL DEF B!Spec
    <2>2. QED
      BY <1>4, <2>1, PTL DEF B!ClearedMeansClean
  <1>7. QED
    BY <1>5, <1>6 DEF ClearingIsSound, B!ClearingIsSound


-----------------------------------------------------------------------------
(* What the user chose: settings, pages, searches                          *)

\* The settings are what was saved last; a dialog that is filled in differs
\* from them where the user has touched it.
SettingsInv ==
  /\ settings = chosen
  /\ settings \in [B!Flags -> BOOLEAN] /\ form \in [B!Flags -> BOOLEAN]
  /\ dialog = "ready" => \A f \in B!Flags \ touched : form[f] = settings[f]

\* A page in the clear was not asked for while only secure ones were wanted.
PagesInv ==
  /\ page \in [UITabs -> B!Addresses \cup {"none"}] /\ going \in [UITabs -> B!Addresses \cup {"none"}]
  /\ sentUnder \in [UITabs -> BOOLEAN]
  /\ B!NothingInTheClear

\* The proxy that a search has asked for is the one that sessions use, or it
\* has been changed since.
SearchInv ==
  /\ search = "asked" /\ ~switched => browsingProxy = route
  /\ search = "going" => route \/ switched

ChosenInv == SettingsInv /\ PagesInv /\ SearchInv

LEMMA SettingsStay == ASSUME SettingsInv, [B!Next]_(B!vars) PROVE SettingsInv'
  <1>1. CASE UNCHANGED B!dialogVars
    BY <1>1 DEF B!dialogVars, SettingsInv
  <1>2. ASSUME NEW f \in B!Flags, B!Toggle(f) PROVE SettingsInv'
    <2>1. form' = [form EXCEPT ![f] = ~@] /\ touched' = touched \cup {f} /\ UNCHANGED <<settings, dialog, chosen>>
      BY <1>2 DEF B!Toggle
    <2>2. (~form[f]) \in BOOLEAN
      OBVIOUS
    <2>3. form' \in [B!Flags -> BOOLEAN] /\ \A g \in B!Flags : g # f => form'[g] = form[g]
      BY <2>1, <2>2 DEF SettingsInv
    <2>4. QED
      BY <2>1, <2>3 DEF SettingsInv
  <1>3. ASSUME B!ShowSettings \/ B!LoadSettings \/ B!SaveSettings \/ B!CancelSettings PROVE SettingsInv'
    BY <1>3 DEF B!ShowSettings, B!LoadSettings, B!Loaded, B!SaveSettings, B!CancelSettings, SettingsInv
  <1>4. ASSUME NEW c \in Clears, B!ClearStore(c) PROVE SettingsInv'
    BY <1>4 DEF B!ClearStore, B!Preserved, SettingsInv
  <1>5. ASSUME NEW c \in Clears, B!ClearData(c) \/ B!ClearWindow(c) \/ B!ClearTab(c)
        PROVE  UNCHANGED B!dialogVars
    BY <1>5 DEF B!ClearData, B!ClearWindow, B!ClearTab
  <1>6. ASSUME NEW t \in UITabs,
               \/ B!CreateTab(t) \/ B!CloseTab(t) \/ B!Listed(t) \/ B!Request(t) \/ B!Download(t)
               \/ \E u \in B!Addresses : B!Navigate(t, u)
        PROVE  UNCHANGED B!dialogVars
    BY <1>6 DEF B!CreateTab, B!CloseTab, B!Listed, B!Request, B!Download, B!Navigate
  <1>7. ASSUME \/ \E on \in BOOLEAN : B!SetProxy(on)
               \/ B!Popup \/ B!ResetStats \/ B!ProxyStored \/ B!Search \/ B!Answered \/ B!SearchSent
               \/ UNCHANGED B!vars
        PROVE  UNCHANGED B!dialogVars
    BY <1>7 DEF B!SetProxy, B!Popup, B!ResetStats, B!ProxyStored, B!Search, B!Answered, B!SearchSent, B!vars
  <1>8. QED
    BY <1>1, <1>2, <1>3, <1>4, <1>5, <1>6, <1>7 DEF B!Next

LEMMA SearchStays == ASSUME SearchInv, [B!Next]_(B!vars) PROVE SearchInv'
  <1>1. CASE UNCHANGED B!netVars
    BY <1>1 DEF B!netVars, SearchInv
  <1>2. ASSUME NEW on \in BOOLEAN, B!SetProxy(on) PROVE SearchInv'
    BY <1>2 DEF B!SetProxy, SearchInv
  <1>3. ASSUME B!ProxyStored \/ B!Search \/ B!Answered \/ B!SearchSent PROVE SearchInv'
    <2>1. CASE B!ProxyStored \/ B!SearchSent
      BY <2>1 DEF B!ProxyStored, B!SearchSent, SearchInv
    <2>2. CASE B!Search
      BY <2>2 DEF B!Search, SearchInv
    <2>3. CASE B!Answered
      BY <2>3 DEF B!Answered, B!Goes, SearchInv
    <2>4. QED
      BY <1>3, <2>1, <2>2, <2>3
  <1>4. ASSUME NEW c \in Clears, B!ClearData(c) \/ B!ClearWindow(c) \/ B!ClearTab(c) \/ B!ClearStore(c)
        PROVE  UNCHANGED B!netVars
    BY <1>4 DEF B!ClearData, B!ClearWindow, B!ClearTab, B!ClearStore, B!netVars
  <1>5. ASSUME NEW t \in UITabs,
               \/ B!CreateTab(t) \/ B!CloseTab(t) \/ B!Listed(t) \/ B!Request(t) \/ B!Download(t)
               \/ \E u \in B!Addresses : B!Navigate(t, u)
        PROVE  UNCHANGED B!netVars
    BY <1>5 DEF B!CreateTab, B!CloseTab, B!Listed, B!Request, B!Download, B!Navigate
  <1>6. ASSUME \/ \E f \in B!Flags : B!Toggle(f)
               \/ B!Popup \/ B!ResetStats \/ B!ShowSettings \/ B!LoadSettings \/ B!SaveSettings \/ B!CancelSettings
               \/ UNCHANGED B!vars
        PROVE  UNCHANGED B!netVars
    BY <1>6 DEF B!Toggle, B!Popup, B!ResetStats, B!ShowSettings, B!LoadSettings, B!SaveSettings, B!CancelSettings, B!vars
  <1>7. QED
    BY <1>1, <1>2, <1>3, <1>4, <1>5, <1>6 DEF B!Next

\* A page is shown when its address has passed the filter under the setting
\* of that moment.
LEMMA PagesStay == ASSUME SettingsInv, PagesInv, [B!Next]_(B!vars) PROVE PagesInv'
  <1> DEFINE Places == B!Addresses \cup {"none"}
  <1>0. /\ page \in [UITabs -> Places] /\ going \in [UITabs -> Places] /\ sentUnder \in [UITabs -> BOOLEAN]
        /\ \A t \in UITabs : page[t] = "http" => ~sentUnder[t]
    BY DEF PagesInv, B!NothingInTheClear
  <1>1. CASE UNCHANGED <<going, page, sentUnder>>
    BY <1>1 DEF PagesInv, B!NothingInTheClear
  <1>2. ASSUME NEW t \in UITabs, NEW u \in Places, going' = [going EXCEPT ![t] = u], UNCHANGED <<page, sentUnder>>
        PROVE  PagesInv'
    BY <1>0, <1>2 DEF PagesInv, B!NothingInTheClear
  <1>3. ASSUME NEW t \in UITabs, \E u \in B!Addresses : B!Navigate(t, u)
        PROVE  PagesInv'
    <2>1. PICK u \in B!Addresses : B!Navigate(t, u)
      BY <1>3
    <2>2. B!Normalized(u) \in Places
      BY DEF B!Normalized, B!Addresses
    <2>3. QED
      BY <1>2, <2>1, <2>2 DEF B!Navigate
  <1>4. ASSUME NEW t \in UITabs, B!Listed(t) PROVE PagesInv'
    BY <1>2, <1>4 DEF B!Listed
  <1>5. ASSUME NEW t \in UITabs, B!Request(t) PROVE PagesInv'
    <2>1. CASE \/ going' = [going EXCEPT ![t] = "none"] /\ UNCHANGED <<page, sentUnder>>
               \/ UNCHANGED <<page, sentUnder>> /\ \E u \in B!Addresses : going' = [going EXCEPT ![t] = u]
      BY <1>2, <2>1
    <2>2. CASE /\ ~B!Cancelled(going[t])
               /\ page' = [page EXCEPT ![t] = going[t]]
               /\ sentUnder' = [sentUnder EXCEPT ![t] = settings["httpsOnlyMode"]]
               /\ going' = [going EXCEPT ![t] = "none"]
      <3>1. settings["httpsOnlyMode"] \in BOOLEAN
        BY DEF SettingsInv, B!Flags
      <3>2. page' \in [UITabs -> Places] /\ going' \in [UITabs -> Places] /\ sentUnder' \in [UITabs -> BOOLEAN]
        BY <1>0, <2>2, <3>1
      <3>3. page'[t] = going[t] /\ sentUnder'[t] = settings["httpsOnlyMode"]
        BY <1>0, <2>2
      <3>4. going[t] = "http" => ~settings["httpsOnlyMode"]
        BY <2>2 DEF B!Cancelled
      <3>5. \A q \in UITabs : q # t => page'[q] = page[q] /\ sentUnder'[q] = sentUnder[q]
        BY <1>0, <2>2
      <3>6. \A q \in UITabs : page'[q] = "http" => ~sentUnder'[q]
        BY <1>0, <3>3, <3>4, <3>5
      <3>7. QED
        BY <3>2, <3>6 DEF PagesInv, B!NothingInTheClear
    <2>3. QED
      BY <1>5, <2>1, <2>2 DEF B!Request
  <1>6. ASSUME NEW t \in UITabs, B!CloseTab(t) PROVE PagesInv'
    <2>1. /\ going' = [going EXCEPT ![t] = "none"] /\ page' = [page EXCEPT ![t] = "none"] /\ sentUnder' = sentUnder
      BY <1>6 DEF B!CloseTab
    <2>2. page' \in [UITabs -> Places] /\ going' \in [UITabs -> Places]
      BY <1>0, <2>1
    <2>3. \A q \in UITabs : page'[q] = "http" => page[q] = "http"
      BY <1>0, <2>1
    <2>4. QED
      BY <1>0, <2>1, <2>2, <2>3 DEF PagesInv, B!NothingInTheClear
  <1>7. ASSUME NEW t \in UITabs, B!CreateTab(t) \/ B!Download(t)
        PROVE  UNCHANGED <<going, page, sentUnder>>
    BY <1>7 DEF B!CreateTab, B!Download, B!tabVars
  <1>8. ASSUME NEW c \in Clears, B!ClearData(c) \/ B!ClearWindow(c) \/ B!ClearTab(c) \/ B!ClearStore(c)
        PROVE  UNCHANGED <<going, page, sentUnder>>
    BY <1>8 DEF B!ClearData, B!ClearWindow, B!ClearTab, B!ClearStore, B!tabVars
  <1>9. ASSUME \/ \E f \in B!Flags : B!Toggle(f)
               \/ \E on \in BOOLEAN : B!SetProxy(on)
               \/ B!Popup \/ B!ResetStats
               \/ B!ShowSettings \/ B!LoadSettings \/ B!SaveSettings \/ B!CancelSettings
               \/ B!ProxyStored \/ B!Search \/ B!Answered \/ B!SearchSent \/ UNCHANGED B!vars
        PROVE  UNCHANGED B!tabVars
    BY <1>9 DEF B!Toggle, B!SetProxy, B!Popup, B!ResetStats, B!ShowSettings, B!LoadSettings, B!SaveSettings,
             B!CancelSettings, B!ProxyStored, B!Search, B!Answered, B!SearchSent, B!vars
  <1>10. UNCHANGED B!tabVars => UNCHANGED <<going, page, sentUnder>>
    BY DEF B!tabVars
  <1>11. QED
    BY <1>1, <1>3, <1>4, <1>5, <1>6, <1>7, <1>8, <1>9, <1>10 DEF B!Next

LEMMA ChosenStays == ASSUME ChosenInv, [B!Next]_(B!vars) PROVE ChosenInv'
  BY SettingsStay, PagesStay, SearchStays DEF ChosenInv

\* Saving changes no setting that is not touched, and a search goes through
\* the proxy or its change.
LEMMA ChosenSteps ==
  ASSUME ChosenInv
  PROVE  /\ B!SaveSettings /\ dialog = "ready" => \A f \in B!Flags \ touched : settings'[f] = settings[f]
         /\ B!SearchSent => route \/ switched
  <1>1. ASSUME B!SaveSettings, dialog = "ready", NEW f \in B!Flags \ touched
        PROVE  settings'[f] = settings[f]
    BY <1>1 DEF B!SaveSettings, ChosenInv, SettingsInv
  <1>2. B!SearchSent => route \/ switched
    BY DEF B!SearchSent, ChosenInv, SearchInv
  <1>3. QED
    BY <1>1, <1>2

\* The settings outlive every clearing, saving changes only what was touched,
\* no page of another host comes in the clear against the settings, and a
\* search leaves through the proxy (clearAllData, saveBrowserSettings,
\* normalizeNavigationUrl and onBeforeRequest, handleB2Search).
THEOREM SpecChoicesAreHonoured == B!Spec => ChoicesAreHonoured
  <1>1. B!Init => ChosenInv
    BY DEF B!Init, B!Default, B!Flags, B!Addresses, B!NothingInTheClear, ChosenInv, SettingsInv, PagesInv, SearchInv
  <1>2. B!Spec => []ChosenInv
    BY <1>1, ChosenStays, PTL DEF B!Spec
  <1>3. ChosenInv => B!ChoicesAreKept /\ B!NothingInTheClear
    BY DEF ChosenInv, SettingsInv, PagesInv, B!ChoicesAreKept
  <1>4. B!Spec => [](B!ChoicesAreKept /\ B!NothingInTheClear)
    BY <1>2, <1>3, PTL
  <1>5. B!Spec => B!OnlyTouchedChange
    BY <1>2, ChosenSteps, PTL DEF B!OnlyTouchedChange
  <1>6. B!Spec => B!SearchesAreProxied
    BY <1>2, ChosenSteps, PTL DEF B!SearchesAreProxied
  <1>7. QED
    BY <1>4, <1>5, <1>6 DEF ChoicesAreHonoured, B!ChoicesAreHonoured


-----------------------------------------------------------------------------
(* The tabs of main, and the proxy of each                                 *)

Orders == [by : Calls \cup {Nobody}, rules : Settings]

\* A session that no tab has had yet is as it was made.
UnusedAreDirect == \A t \in Tabs \ used : proxy[t] = Direct /\ pending[t] = <<>>

\* While nothing has disturbed the last call: if it is under way, it is alone,
\* and every tab is about to use its setting, which is the last it was given;
\* if none is, every tab is about to use the proxy that is configured.
CallIsAlone == \A c, d \in Calls : Waiting(c) /\ Waiting(d) => c = d

TabsFollowCall ==
  \A c \in Calls : Waiting(c) =>
    \A t \in Open : Bound(t) = calls[c] /\ (pending[t] # <<>> => Last(pending[t]).by = c)

TabsFollowConfig == ~InFlight => \A t \in Open : Bound(t) = proxyConfig

ProxyFollows ==
  /\ proxyConfig = stored /\ UnusedAreDirect
  /\ ~disturbed => CallIsAlone /\ TabsFollowCall /\ TabsFollowConfig

TabsInv == TypeOK /\ ActiveIsShown /\ ProxyFollows

\* The tabs keep their types over what adds and removes one.
LEMMA OneMore ==
  ASSUME NEW Item, NEW s \in Seq(Item), NEW x \in Item
  PROVE  /\ ToSet(Append(s, x)) = ToSet(s) \cup {x}
         /\ IsInjective(s) /\ x \notin ToSet(s) => IsInjective(Append(s, x))
  <1> DEFINE r == Append(s, x)
  <1>1. /\ DOMAIN s = 1..Len(s) /\ DOMAIN r = 1..(Len(s) + 1) /\ Len(s) \in Nat /\ r[Len(s) + 1] = x
        /\ \A k \in DOMAIN s : k \in DOMAIN r /\ r[k] = s[k]
    BY Appended
  <1> HIDE DEF r
  <1>2. \A k \in DOMAIN r : k \in DOMAIN s \/ k = Len(s) + 1
    BY <1>1
  <1>3. Len(s) + 1 \in DOMAIN r /\ Len(s) + 1 \notin DOMAIN s
    BY <1>1
  <1>4. ToSet(r) = ToSet(s) \cup {x}
    BY <1>1, <1>2, <1>3 DEF ToSet
  <1>5. ASSUME IsInjective(s), x \notin ToSet(s) PROVE IsInjective(r)
    BY <1>1, <1>2, <1>3, <1>5 DEF IsInjective, ToSet
  <1>6. QED
    BY <1>4, <1>5 DEF r

LEMMA OpenTabs == ASSUME TypeOK PROVE Open \subseteq Tabs /\ (Open = {} <=> tabs = <<>>)
  <1>1. tabs \in Seq(Tabs) /\ DOMAIN tabs = 1..Len(tabs) /\ Len(tabs) \in Nat
    BY LenProperties DEF TypeOK
  <1>2. Open \subseteq Tabs
    BY DEF TypeOK
  <1>3. ASSUME tabs # <<>> PROVE 1 \in DOMAIN tabs
    BY <1>1, <1>3, EmptySeq
  <1>4. QED
    BY <1>2, <1>3 DEF Open, ToSet

\* What the last of a sequence is.
LEMMA LastOf ==
  ASSUME NEW Item, NEW s \in Seq(Item)
  PROVE  /\ s # <<>> => Last(s) \in Item /\ Last(s) \in ToSet(s) /\ Last(s) = s[Len(s)] /\ Len(s) \in DOMAIN s
         /\ \A x \in Item : Append(s, x) # <<>> /\ Last(Append(s, x)) = x
         /\ s # <<>> /\ Tail(s) # <<>> => Last(Tail(s)) = Last(s)
         /\ s # <<>> /\ Tail(s) = <<>> => Last(s) = Head(s)
  <1>1. Len(s) \in Nat /\ DOMAIN s = 1..Len(s) /\ (s # <<>> => Len(s) >= 1)
    BY LenProperties, EmptySeq
  <1>2. ASSUME s # <<>>
        PROVE  Last(s) \in Item /\ Last(s) \in ToSet(s) /\ Last(s) = s[Len(s)] /\ Len(s) \in DOMAIN s
    <2>1. Len(s) \in DOMAIN s
      BY <1>1, <1>2
    <2>2. QED
      BY <1>1, <2>1, ElementOfSeq DEF Last, ToSet
  <1>3. ASSUME NEW x \in Item PROVE Append(s, x) # <<>> /\ Last(Append(s, x)) = x
    BY AppendProperties DEF Last
  <1>4. ASSUME s # <<>>
        PROVE  /\ Tail(s) # <<>> => Last(Tail(s)) = Last(s)
               /\ Tail(s) = <<>> => Last(s) = Head(s)
    <2>1. /\ Tail(s) \in Seq(Item) /\ Head(s) = s[1] /\ DOMAIN Tail(s) = 1..(Len(s) - 1)
          /\ \A k \in DOMAIN Tail(s) : Tail(s)[k] = s[k + 1]
      BY <1>4, Shortened
    <2>2. Len(Tail(s)) = Len(s) - 1
      BY <1>4, HeadTailProperties
    <2>3. Tail(s) # <<>> => Len(s) - 1 \in 1..(Len(s) - 1)
      BY <1>1, <1>4, <2>1, <2>2, EmptySeq
    <2>4. Tail(s) # <<>> => Tail(s)[Len(s) - 1] = s[Len(s)]
      BY <1>1, <2>1, <2>3
    <2>5. Tail(s) = <<>> => Len(s) = 1
      <3> SUFFICES ASSUME Tail(s) = <<>> PROVE Len(s) = 1
        OBVIOUS
      <3>1. 1 \notin DOMAIN Tail(s)
        <4> DEFINE rest == Tail(s)
        <4>1. rest = <<>>
          OBVIOUS
        <4> HIDE DEF rest
        <4>2. 1 \notin DOMAIN rest
          BY <4>1
        <4>3. QED
          BY <4>2 DEF rest
      <3>2. Len(s) > 1 => 1 \in 1..(Len(s) - 1)
        BY <1>1
      <3>3. QED
        BY <1>1, <1>4, <2>1, <3>1, <3>2
    <2>6. QED
      BY <2>1, <2>2, <2>4, <2>5 DEF Last
  <1>5. QED
    BY <1>2, <1>3, <1>4


\* A step that touches neither proxies nor calls, and opens no tab.
LEMMA FollowsWithFewer ==
  ASSUME ProxyFollows, Open' \subseteq Open, used' = used,
         UNCHANGED <<proxyConfig, stored, proxy, pending, calls, disturbed>>
  PROVE  ProxyFollows'
  <1>1. proxyConfig' = stored' /\ UnusedAreDirect'
    BY DEF ProxyFollows, UnusedAreDirect
  <1>2. ASSUME ~disturbed PROVE CallIsAlone' /\ TabsFollowCall' /\ TabsFollowConfig'
    <2>1. CallIsAlone /\ TabsFollowCall /\ TabsFollowConfig
      BY <1>2 DEF ProxyFollows
    <2>2. CallIsAlone'
      BY <2>1 DEF CallIsAlone, Waiting
    <2>3. \A t : Bound(t)' = Bound(t)
      BY DEF Bound
    <2>4. TabsFollowCall'
      BY <2>1 DEF TabsFollowCall, Waiting, Bound
    <2>5. TabsFollowConfig'
      BY <2>1 DEF TabsFollowConfig, InFlight, Waiting, Bound
    <2>6. QED
      BY <2>2, <2>4, <2>5
  <1>3. QED
    BY <1>1, <1>2 DEF ProxyFollows

LEMMA CreateTabKeeps == ASSUME TabsInv, NEW t \in Tabs, CreateTab(t) PROVE TabsInv'
  <1>1. /\ t \notin used /\ used' = used \cup {t} /\ tabs' = Append(tabs, t)
        /\ pending' = [pending EXCEPT ![t] = ProxyOfNew]
        /\ activeTabId' = t /\ attached' = (attached \ {activeTabId}) \cup {t}
        /\ disturbed' = (disturbed \/ InFlight)
        /\ UNCHANGED <<proxyConfig, stored, proxy, calls>>
    BY DEF CreateTab, Fresh, SwitchToTab
  <1>2. /\ TypeOK /\ t \notin Open /\ t # Nobody /\ t \in Sessions
        /\ attached = {activeTabId} \ {Nobody} /\ proxy[t] = Direct /\ pending[t] = <<>>
    BY <1>1, NamesAssumption DEF TabsInv, TypeOK, ActiveIsShown, ProxyFollows, UnusedAreDirect, Sessions
  <1>3. /\ tabs' \in Seq(Tabs) /\ IsInjective(tabs') /\ Open' = Open \cup {t}
    BY <1>1, <1>2, OneMore, Appended DEF TypeOK, Open
  <1>4. ProxyOfNew \in Seq(Orders) /\ (ProxyOfNew = <<>> => proxyConfig = Direct)
        /\ (ProxyOfNew # <<>> => Last(ProxyOfNew).rules = proxyConfig)
    <2>1. CASE proxyConfig = Direct
      BY <2>1, EmptySeq DEF ProxyOfNew
    <2>2. CASE proxyConfig # Direct
      <3> DEFINE x == [by |-> Nobody, rules |-> proxyConfig]
      <3>1. x \in Orders
        BY <1>2 DEF Orders, TypeOK
      <3>2. ProxyOfNew = <<x>>
        BY <2>2 DEF ProxyOfNew
      <3>3. x.rules = proxyConfig
        OBVIOUS
      <3> HIDE DEF x
      <3>4. ProxyOfNew \in Seq(Orders) /\ ProxyOfNew # <<>> /\ Last(ProxyOfNew) = x
        BY <3>1, <3>2 DEF Last
      <3>5. QED
        BY <3>3, <3>4
    <2>3. QED
      BY <2>1, <2>2
  <1>5. pending \in [Sessions -> Seq(Orders)]
    BY <1>2 DEF TypeOK, Orders
  <1>6. pending' \in [Sessions -> Seq(Orders)] /\ pending'[t] = ProxyOfNew /\ \A q \in Sessions : q # t => pending'[q] = pending[q]
    BY <1>1, <1>2, <1>4, <1>5
  <1>7. disturbed' \in BOOLEAN
    BY <1>1, <1>2 DEF TypeOK, InFlight
  <1>8. TypeOK'
    BY <1>1, <1>2, <1>3, <1>6, <1>7 DEF TypeOK, Orders, Open
  <1>9. ActiveIsShown'
    <2>1. attached' = {t}
      BY <1>1, <1>2
    <2>2. tabs' # <<>>
      BY <1>1, <1>2, LastOf DEF TypeOK
    <2>3. QED
      BY <1>1, <1>2, <1>3, <2>1, <2>2 DEF ActiveIsShown
  <1>10. UnusedAreDirect'
    BY <1>1, <1>6 DEF TabsInv, ProxyFollows, UnusedAreDirect, Sessions
  <1>11. ASSUME ~disturbed' PROVE CallIsAlone' /\ TabsFollowCall' /\ TabsFollowConfig'
    <2>1. ~disturbed /\ ~InFlight /\ TabsFollowConfig
      BY <1>1, <1>11 DEF TabsInv, ProxyFollows
    <2>2. \A c \in Calls : ~Waiting(c)'
      BY <1>1, <2>1 DEF InFlight, Waiting
    <2>3. ASSUME NEW q \in Open' PROVE Bound(q)' = proxyConfig
      <3>1. CASE q = t
        BY <1>1, <1>2, <1>4, <1>6, <3>1 DEF Bound
      <3>2. CASE q # t
        <4>1. q \in Open /\ q \in Sessions
          BY <1>2, <1>3, <2>3, <3>2, OpenTabs DEF Sessions
        <4>2. Bound(q)' = Bound(q)
          BY <1>1, <1>6, <3>2, <4>1 DEF Bound
        <4>3. QED
          BY <2>1, <4>1, <4>2 DEF TabsFollowConfig
      <3>3. QED
        BY <3>1, <3>2
    <2>4. TabsFollowConfig'
      BY <1>1, <2>3 DEF TabsFollowConfig
    <2>5. QED
      BY <2>2, <2>4 DEF CallIsAlone, TabsFollowCall
  <1>12. QED
    BY <1>1, <1>8, <1>9, <1>10, <1>11 DEF TabsInv, ProxyFollows

LEMMA SwitchTabKeeps == ASSUME TabsInv, NEW t \in Tabs, SwitchTab(t) PROVE TabsInv'
  <1>1. /\ t \in Open /\ activeTabId' = t /\ attached' = (attached \ {activeTabId}) \cup {t}
        /\ UNCHANGED <<tabs, used, proxyConfig, stored, proxy, pending, calls, disturbed>>
    BY DEF SwitchTab, SwitchToTab
  <1>2. TypeOK /\ attached = {activeTabId} \ {Nobody} /\ t # Nobody /\ Open' = Open
    BY <1>1, NamesAssumption DEF TabsInv, ActiveIsShown, Open
  <1>3. attached' = {t}
    BY <1>1, <1>2
  <1>4. TypeOK'
    BY <1>1, <1>2, <1>3 DEF TypeOK
  <1>5. ActiveIsShown'
    BY <1>1, <1>2, <1>3, OpenTabs DEF ActiveIsShown
  <1>6. ProxyFollows'
    BY <1>1, <1>2, FollowsWithFewer DEF TabsInv
  <1>7. QED
    BY <1>4, <1>5, <1>6 DEF TabsInv

LEMMA CloseTabKeeps == ASSUME TabsInv, NEW t \in Tabs, CloseTab(t) PROVE TabsInv'
  <1> DEFINE rest == RemoveFirst(tabs, t)
  <1>1. /\ t \in Open /\ tabs' = rest
        /\ UNCHANGED <<used, proxyConfig, stored, proxy, pending, calls, disturbed>>
        /\ \/ activeTabId # t /\ UNCHANGED <<activeTabId, attached>>
           \/ /\ activeTabId = t /\ rest # <<>>
              /\ activeTabId' = Last(rest) /\ attached' = ((attached \ {t}) \ {activeTabId}) \cup {Last(rest)}
           \/ activeTabId = t /\ rest = <<>> /\ activeTabId' = Nobody /\ attached' = attached \ {t}
    BY DEF CloseTab, SwitchToTab
  <1>2. /\ TypeOK /\ attached = {activeTabId} \ {Nobody} /\ t # Nobody /\ attached \subseteq Open
        /\ activeTabId = Nobody <=> tabs = <<>>
    BY NamesAssumption DEF TabsInv, ActiveIsShown
  <1>3. /\ rest \in Seq(Tabs) /\ IsInjective(rest) /\ t \notin ToSet(rest)
        /\ Open \ {t} \subseteq ToSet(rest) /\ ToSet(rest) \subseteq Open
    BY <1>1, <1>2, OthersStay DEF TypeOK, Open
  <1> HIDE DEF rest
  <1>4. Open' = ToSet(rest)
    BY <1>1 DEF Open
  <1>5. rest # <<>> => Last(rest) \in Tabs /\ Last(rest) \in ToSet(rest) /\ Last(rest) # Nobody
    BY <1>3, LastOf, NamesAssumption
  <1>6. TypeOK'
    BY <1>1, <1>2, <1>3, <1>4, <1>5 DEF TypeOK
  <1>7. ActiveIsShown'
    <2>1. CASE activeTabId # t /\ UNCHANGED <<activeTabId, attached>>
      <3>1. tabs # <<>> /\ activeTabId # Nobody /\ activeTabId \in Open
        BY <1>1, <1>2, OpenTabs
      <3>2. activeTabId \in ToSet(rest)
        BY <1>3, <2>1, <3>1
      <3>3. rest # <<>>
        BY <3>2 DEF ToSet
      <3>4. QED
        BY <1>1, <1>2, <1>4, <2>1, <3>1, <3>2, <3>3 DEF ActiveIsShown
    <2>2. CASE /\ activeTabId = t /\ rest # <<>>
               /\ activeTabId' = Last(rest) /\ attached' = ((attached \ {t}) \ {activeTabId}) \cup {Last(rest)}
      <3>1. attached' = {Last(rest)}
        BY <1>2, <2>2
      <3>2. QED
        BY <1>1, <1>4, <1>5, <2>2, <3>1 DEF ActiveIsShown
    <2>3. CASE activeTabId = t /\ rest = <<>> /\ activeTabId' = Nobody /\ attached' = attached \ {t}
      <3>1. attached' = {}
        BY <1>2, <2>3
      <3>2. QED
        BY <1>1, <2>3, <3>1 DEF ActiveIsShown
    <2>4. QED
      BY <1>1, <2>1, <2>2, <2>3
  <1>8. ProxyFollows'
    BY <1>1, <1>3, <1>4, FollowsWithFewer DEF TabsInv
  <1>9. QED
    BY <1>6, <1>7, <1>8 DEF TabsInv

LEMMA TabsRest ==
  ASSUME TypeOK, ActiveIsShown, UNCHANGED tabVars
  PROVE  ActiveIsShown' /\ Open' = Open
  BY DEF tabVars, ActiveIsShown, Open

LEMMA SetProxyKeeps == ASSUME TabsInv, NEW c \in Calls, NEW rules \in Settings, SetProxy(c, rules) PROVE TabsInv'
  <1> DEFINE x == [by |-> c, rules |-> rules]
  <1>1. /\ calls' = [calls EXCEPT ![c] = rules]
        /\ pending' = [s \in Sessions |-> IF s \in Targets THEN Append(pending[s], x) ELSE pending[s]]
        /\ disturbed' = InFlight
        /\ UNCHANGED <<tabVars, proxyConfig, stored, proxy>>
    BY DEF SetProxy
  <1>2. TypeOK /\ x \in Orders /\ x.by = c /\ x.rules = rules /\ rules # Nobody
    BY NamesAssumption DEF TabsInv, Orders, Settings
  <1> HIDE DEF x
  <1>3. pending \in [Sessions -> Seq(Orders)]
    BY <1>2 DEF TypeOK, Orders
  <1>4. \A s \in Sessions : /\ pending'[s] \in Seq(Orders)
                            /\ s \in Targets => pending'[s] # <<>> /\ Last(pending'[s]) = x
                            /\ s \notin Targets => pending'[s] = pending[s]
    BY <1>1, <1>2, <1>3, LastOf, Appended
  <1>5. pending' \in [Sessions -> Seq(Orders)]
    BY <1>1, <1>4
  <1>6. calls' \in [Calls -> Settings \cup {Nobody}] /\ calls'[c] = rules /\ \A d \in Calls : d # c => calls'[d] = calls[d]
    BY <1>1, <1>2 DEF TypeOK
  <1>7. disturbed' \in BOOLEAN
    BY <1>1 DEF InFlight
  <1>8. TypeOK'
    BY <1>1, <1>2, <1>5, <1>6, <1>7 DEF TypeOK, Orders, tabVars, Open
  <1>9. ActiveIsShown' /\ Open' = Open
    BY <1>1, <1>2, TabsRest DEF TabsInv
  <1>10. UnusedAreDirect'
    <2> SUFFICES ASSUME NEW t \in Tabs \ used PROVE proxy[t] = Direct /\ pending'[t] = <<>>
      BY <1>1 DEF UnusedAreDirect, tabVars
    <2>1. t \notin Targets /\ t \in Sessions
      BY <1>2, NamesAssumption DEF Targets, TypeOK, Sessions
    <2>2. QED
      BY <1>4, <2>1 DEF TabsInv, ProxyFollows, UnusedAreDirect
  <1>11. ASSUME ~disturbed' PROVE CallIsAlone' /\ TabsFollowCall' /\ TabsFollowConfig'
    <2>1. \A d \in Calls : Waiting(d)' <=> d = c
      BY <1>1, <1>2, <1>6, <1>11 DEF InFlight, Waiting
    <2>2. \A t \in Open : t \in Sessions /\ t \in Targets
      BY <1>2, OpenTabs DEF Sessions, Targets
    <2>3. \A t \in Open : Bound(t)' = rules /\ Last(pending'[t]).by = c
      BY <1>2, <1>4, <2>2 DEF Bound
    <2>4. CallIsAlone'
      BY <2>1 DEF CallIsAlone
    <2>5. TabsFollowCall'
      BY <1>6, <1>9, <2>1, <2>3 DEF TabsFollowCall
    <2>6. TabsFollowConfig'
      BY <2>1 DEF TabsFollowConfig, InFlight
    <2>7. QED
      BY <2>4, <2>5, <2>6
  <1>12. QED
    BY <1>1, <1>8, <1>9, <1>10, <1>11 DEF TabsInv, ProxyFollows


\* A session applies what it was given first: what it is bound to stays.
LEMMA ApplyKeeps == ASSUME TabsInv, NEW s \in Sessions, Apply(s) PROVE TabsInv'
  <1>1. /\ pending[s] # <<>>
        /\ proxy' = [proxy EXCEPT ![s] = Head(pending[s]).rules]
        /\ pending' = [pending EXCEPT ![s] = Tail(@)]
        /\ UNCHANGED <<tabVars, proxyConfig, stored, calls, disturbed>>
    BY DEF Apply
  <1>2. TypeOK /\ pending \in [Sessions -> Seq(Orders)] /\ proxy \in [Sessions -> Settings]
    BY DEF TabsInv, TypeOK, Orders
  <1>3. Tail(pending[s]) \in Seq(Orders) /\ Head(pending[s]) \in Orders
    BY <1>1, <1>2, Shortened
  <1>4. /\ pending' \in [Sessions -> Seq(Orders)] /\ proxy' \in [Sessions -> Settings]
        /\ pending'[s] = Tail(pending[s]) /\ proxy'[s] = Head(pending[s]).rules
        /\ \A q \in Sessions : q # s => pending'[q] = pending[q] /\ proxy'[q] = proxy[q]
    BY <1>1, <1>2, <1>3 DEF Orders
  <1>5. TypeOK'
    BY <1>1, <1>2, <1>4 DEF TypeOK, Orders, tabVars, Open
  <1>6. ActiveIsShown' /\ Open' = Open
    BY <1>1, <1>2, TabsRest DEF TabsInv
  <1>7. UnusedAreDirect'
    BY <1>1, <1>4 DEF TabsInv, ProxyFollows, UnusedAreDirect, Sessions, tabVars
  <1>8. /\ Tail(pending[s]) # <<>> => Last(Tail(pending[s])) = Last(pending[s])
        /\ Tail(pending[s]) = <<>> => Last(pending[s]) = Head(pending[s])
    BY <1>1, <1>2, LastOf
  <1>9. \A t \in Open : /\ t \in Sessions /\ Bound(t)' = Bound(t)
                        /\ pending'[t] # <<>> => pending[t] # <<>> /\ Last(pending'[t]) = Last(pending[t])
    <2> SUFFICES ASSUME NEW t \in Open
                 PROVE  /\ t \in Sessions /\ Bound(t)' = Bound(t)
                        /\ pending'[t] # <<>> => pending[t] # <<>> /\ Last(pending'[t]) = Last(pending[t])
      OBVIOUS
    <2>1. t \in Sessions
      BY <1>2, OpenTabs DEF Sessions
    <2>2. CASE t = s
      BY <1>1, <1>4, <1>8, <2>1, <2>2 DEF Bound
    <2>3. CASE t # s
      BY <1>4, <2>1, <2>3 DEF Bound
    <2>4. QED
      BY <2>1, <2>2, <2>3
  <1>10. ASSUME ~disturbed PROVE CallIsAlone' /\ TabsFollowCall' /\ TabsFollowConfig'
    <2>1. CallIsAlone /\ TabsFollowCall /\ TabsFollowConfig
      BY <1>10 DEF TabsInv, ProxyFollows
    <2>2. \A c : Waiting(c)' <=> Waiting(c)
      BY <1>1 DEF Waiting
    <2>3. CallIsAlone'
      BY <2>1, <2>2 DEF CallIsAlone
    <2>4. TabsFollowCall'
      BY <1>1, <1>6, <1>9, <2>1, <2>2 DEF TabsFollowCall
    <2>5. InFlight' <=> InFlight
      BY <2>2 DEF InFlight
    <2>6. TabsFollowConfig'
      BY <1>1, <1>6, <1>9, <2>1, <2>5 DEF TabsFollowConfig
    <2>7. QED
      BY <2>3, <2>4, <2>6
  <1>11. QED
    BY <1>1, <1>5, <1>6, <1>7, <1>10 DEF TabsInv, ProxyFollows

\* A function of the right places is a sequence.
LEMMA IsSequence ==
  ASSUME NEW Item, NEW n \in Nat, NEW f \in [1..n -> Item]
  PROVE  f \in Seq(Item)
  BY SeqDef

LEMMA RejectedKeeps == ASSUME TabsInv, NEW s \in Sessions, Rejected(s) PROVE TabsInv'
  <1> DEFINE e == Head(pending[s]).by
             Rest(q) == IF q = s THEN Tail(pending[q]) ELSE pending[q]
             Freed(q) == [i \in DOMAIN Rest(q) |-> IF Rest(q)[i].by = e THEN [Rest(q)[i] EXCEPT !.by = Nobody] ELSE Rest(q)[i]]
  <1>1. /\ pending[s] # <<>> /\ disturbed' = TRUE
        /\ calls' = [d \in Calls |-> IF d = e THEN Nobody ELSE calls[d]]
        /\ pending' = [q \in Sessions |-> Freed(q)]
        /\ UNCHANGED <<tabVars, proxyConfig, stored, proxy>>
    BY DEF Rejected
  <1>2. TypeOK /\ pending \in [Sessions -> Seq(Orders)]
    BY DEF TabsInv, TypeOK, Orders
  <1>3. ASSUME NEW q \in Sessions PROVE Freed(q) \in Seq(Orders) /\ (q # s /\ pending[q] = <<>> => Freed(q) = <<>>)
    <2>1. Rest(q) \in Seq(Orders)
      BY <1>1, <1>2, Shortened
    <2>2. q # s /\ pending[q] = <<>> => Rest(q) = <<>>
      OBVIOUS
    <2> DEFINE r == Rest(q)
    <2> HIDE DEF r
    <2>3. Len(r) \in Nat /\ DOMAIN r = 1..Len(r) /\ \A i \in DOMAIN r : r[i] \in Orders
      BY <2>1, LenProperties, ElementOfSeq DEF r
    <2>4. \A i \in DOMAIN r : (IF r[i].by = e THEN [r[i] EXCEPT !.by = Nobody] ELSE r[i]) \in Orders
      <3> HIDE DEF e
      <3>1. QED
        BY <2>3 DEF Orders
    <2> DEFINE f == [i \in DOMAIN r |-> IF r[i].by = e THEN [r[i] EXCEPT !.by = Nobody] ELSE r[i]]
    <2>5. f \in [1..Len(r) -> Orders]
      BY <2>3, <2>4
    <2>6. f \in Seq(Orders)
      <3> HIDE DEF f
      <3>1. QED
        BY <2>3, <2>5, IsSequence
    <2>7. r = <<>> => f = <<>>
      <3>1. r = <<>> => Len(r) = 0
        OBVIOUS
      <3>2. f = <<>> <=> DOMAIN r = {}
        BY <2>3, <2>6, EmptySeq, LenProperties
      <3>3. QED
        BY <3>2
    <2>8. QED
      BY <2>2, <2>6, <2>7 DEF r
  <1> HIDE DEF Freed
  <1>4. pending' \in [Sessions -> Seq(Orders)] /\ \A q \in Sessions : pending'[q] = Freed(q)
    BY <1>1, <1>3
  <1>5. calls' \in [Calls -> Settings \cup {Nobody}]
    BY <1>1, <1>2 DEF TypeOK
  <1>6. TypeOK'
    BY <1>1, <1>2, <1>4, <1>5 DEF TypeOK, Orders, tabVars, Open
  <1>7. ActiveIsShown' /\ Open' = Open
    BY <1>1, <1>2, TabsRest DEF TabsInv
  <1>8. UnusedAreDirect'
    <2> SUFFICES ASSUME NEW t \in Tabs \ used PROVE proxy[t] = Direct /\ pending'[t] = <<>>
      BY <1>1 DEF UnusedAreDirect, tabVars
    <2>1. proxy[t] = Direct /\ pending[t] = <<>> /\ t \in Sessions
      BY DEF TabsInv, ProxyFollows, UnusedAreDirect, Sessions
    <2>2. QED
      BY <1>1, <1>3, <1>4, <2>1
  <1>9. QED
    BY <1>1, <1>6, <1>7, <1>8 DEF TabsInv, ProxyFollows

\* What a call has reported as made, every open tab has applied.
LEMMA ResumedIsApplied ==
  ASSUME TabsInv, NEW c \in Calls, Resume(c), ~disturbed
  PROVE  \A t \in Open : proxy[t] = calls[c] /\ Bound(t) = calls[c]
  <1> SUFFICES ASSUME NEW t \in Open PROVE proxy[t] = calls[c] /\ Bound(t) = calls[c]
    OBVIOUS
  <1>1. Waiting(c) /\ Through(c) /\ TypeOK
    BY DEF Resume, TabsInv
  <1>2. Bound(t) = calls[c] /\ (pending[t] # <<>> => Last(pending[t]).by = c)
    BY <1>1 DEF TabsInv, ProxyFollows, TabsFollowCall
  <1>3. t \in Sessions /\ pending[t] \in Seq(Orders)
    BY <1>1, OpenTabs DEF TypeOK, Orders, Sessions
  <1>4. pending[t] # <<>> => Last(pending[t]) = pending[t][Len(pending[t])] /\ Len(pending[t]) \in DOMAIN pending[t]
    BY <1>3, LastOf
  <1>5. pending[t] = <<>>
    BY <1>1, <1>2, <1>3, <1>4 DEF Through
  <1>6. QED
    BY <1>2, <1>5 DEF Bound

LEMMA ResumeKeeps == ASSUME TabsInv, NEW c \in Calls, Resume(c) PROVE TabsInv'
  <1>1. /\ Waiting(c) /\ proxyConfig' = calls[c] /\ stored' = calls[c] /\ calls' = [calls EXCEPT ![c] = Nobody]
        /\ UNCHANGED <<tabVars, proxy, pending, disturbed>>
    BY DEF Resume
  <1>2. TypeOK /\ calls[c] \in Settings
    BY <1>1 DEF TabsInv, TypeOK, Waiting
  <1>3. TypeOK'
    BY <1>1, <1>2 DEF TypeOK, tabVars, Open
  <1>4. ActiveIsShown' /\ Open' = Open
    BY <1>1, <1>2, TabsRest DEF TabsInv
  <1>5. UnusedAreDirect'
    BY <1>1 DEF TabsInv, ProxyFollows, UnusedAreDirect, tabVars
  <1>6. ASSUME ~disturbed PROVE CallIsAlone' /\ TabsFollowCall' /\ TabsFollowConfig'
    <2>1. CallIsAlone
      BY <1>6 DEF TabsInv, ProxyFollows
    <2>2. \A d \in Calls : ~Waiting(d)'
      BY <1>1, <1>2, <2>1 DEF CallIsAlone, Waiting, TypeOK
    <2>3. \A t \in Open : Bound(t)' = calls[c]
      BY <1>1, <1>6, ResumedIsApplied DEF Bound
    <2>4. TabsFollowConfig'
      BY <1>1, <1>4, <2>3 DEF TabsFollowConfig
    <2>5. QED
      BY <2>2, <2>4 DEF CallIsAlone, TabsFollowCall
  <1>7. QED
    BY <1>1, <1>3, <1>4, <1>5, <1>6 DEF TabsInv, ProxyFollows

\* As it starts, whatever the store has kept.
Launched ==
  /\ tabs = <<>> /\ activeTabId = Nobody /\ attached = {} /\ used = {}
  /\ stored \in Settings /\ proxyConfig = stored
  /\ proxy = [s \in Sessions |-> Direct] /\ pending = [s \in Sessions |-> <<>>]
  /\ calls = [c \in Calls |-> Nobody] /\ disturbed = FALSE

LEMMA LaunchIsSound == Launched => TabsInv
  <1> SUFFICES ASSUME Launched PROVE TabsInv
    OBVIOUS
  <1> USE DEF Launched
  <1>1. Open = {} /\ IsInjective(tabs) /\ tabs \in Seq(Tabs) /\ <<>> \in Seq(Orders)
    BY EmptySeq DEF Open, ToSet, IsInjective
  <1>2. Direct \in Settings
    BY DEF Settings
  <1>3. TypeOK
    BY <1>1, <1>2 DEF TypeOK, Orders
  <1>4. ActiveIsShown
    BY <1>1 DEF ActiveIsShown
  <1>5. ProxyFollows
    BY <1>1 DEF ProxyFollows, UnusedAreDirect, CallIsAlone, TabsFollowCall, TabsFollowConfig, Waiting, Sessions
  <1>6. QED
    BY <1>3, <1>4, <1>5 DEF TabsInv

LEMMA TabsStart == ASSUME Init PROVE TabsInv
  BY LaunchIsSound DEF Init, Settings, Launched

LEMMA RelaunchKeeps == ASSUME TabsInv, Relaunch PROVE TabsInv'
  <1>1. stored' \in Settings
    BY DEF Relaunch, TabsInv, TypeOK, Settings
  <1>2. Launched'
    BY <1>1 DEF Relaunch, Launched, Settings, Sessions
  <1>3. Launched' => TabsInv'
    BY LaunchIsSound, PTL
  <1>4. QED
    BY <1>2, <1>3

LEMMA TabsStay == ASSUME TabsInv, [Next]_vars PROVE TabsInv'
  <1>1. CASE UNCHANGED vars
    <2>1. TypeOK'
      BY <1>1 DEF vars, TabsInv, TypeOK, Open
    <2>2. ActiveIsShown' /\ Open' = Open
      BY <1>1, TabsRest DEF vars, tabVars, TabsInv
    <2>3. ProxyFollows'
      BY <1>1, <2>2, FollowsWithFewer DEF vars, TabsInv
    <2>4. QED
      BY <2>1, <2>2, <2>3 DEF TabsInv
  <1>2. QED
    BY <1>1, CreateTabKeeps, SwitchTabKeeps, CloseTabKeeps, ResumeKeeps, SetProxyKeeps, ApplyKeeps, RejectedKeeps,
       RelaunchKeeps DEF Next

\* The window shows one of its tabs, while any is open; a tab uses the proxy
\* on show, and a change is reported when every tab does, unless calls, new
\* tabs or rejections disturb it (createTab, switchToTab, closeTab and
\* "set-proxy" of browser/main.js), for any number of tabs, calls and proxies.
THEOREM SpecTabsAreSound == Spec => TabsAreSound
  <1>1. Spec => []TabsInv
    BY TabsStart, TabsStay, PTL DEF Spec
  <1>2. TabsInv => TypeOK /\ ActiveIsShown /\ TabsUseProxy
    BY DEF TabsInv, ProxyFollows, TabsFollowConfig, TabsUseProxy
  <1>3. TabsInv => \A c \in Calls : Resume(c) /\ ~disturbed => \A t \in Open : proxy[t] = calls[c]
    BY ResumedIsApplied
  <1>4. Spec => [](TypeOK /\ ActiveIsShown /\ TabsUseProxy)
    BY <1>1, <1>2, PTL
  <1>5. Spec => ReportedIsApplied
    BY <1>1, <1>3, PTL DEF ReportedIsApplied
  <1>6. QED
    BY <1>4, <1>5 DEF TabsAreSound


-----------------------------------------------------------------------------
(* The window and main: where the messages on their way lead               *)

AnyUrls == Urls \cup {Blank}
AnyTabs == UITabs \cup {Nobody}

Asks ==
  [kind : {"create-tab", "switch-tab", "close-tab"}, tab : UITabs]
    \cup [kind : {"get-tabs", "navigate", "move", "get-url"}, tab : {Nobody}]

\* What main sends: answers, events that tell an address, others, the tabs.
Replies == [kind : {"changed", "navigated", "moved"}, tab : {Nobody}]
Addresses == [kind : {"tab-switched", "tab-updated", "url", "all-tabs-closed"}, tab : AnyTabs, url : AnyUrls]
Notices == [kind : {"tab-closed", "tab-title-updated"}, tab : UITabs, url : {Blank}]
Bars == [kind : {"tabs"}, list : Seq(UITabs), active : AnyTabs]
Messages == Replies \cup Addresses \cup Notices \cup Bars

\* What tells the window which tab is on show, and which one it tells.
Switches == {m \in Messages : m.kind = "tab-switched" \/ (m.kind = "tabs" /\ m.active # Nobody)}
Told(m) == IF m.kind = "tabs" THEN m.active ELSE m.tab

\* Once s is taken, by a window that has x, the window has v: the last of the
\* messages X in s is one of Y, or there is none and x is v.
Ends(s, X, Y, x, v) ==
  \/ \E j \in DOMAIN s : s[j] \in Y /\ \A k \in DOMAIN s : k > j => s[k] \notin X
  \/ x = v /\ \A k \in DOMAIN s : s[k] \notin X

\* The window is at tab t when it takes message i of s.
Reaches(s, i, x, t) ==
  \/ \E j \in DOMAIN s :
       j < i /\ s[j] \in Switches /\ Told(s[j]) = t /\ \A k \in DOMAIN s : j < k /\ k < i => s[k] \notin Switches
  \/ x = t /\ \A k \in DOMAIN s : k < i => s[k] \notin Switches

Has(s, kinds) == \E k \in DOMAIN s : s[k].kind \in kinds

\* Where messages lead, by what they are about.
Tracks(s, x, t) == Ends(s, Switches, {m \in Switches : Told(m) = t}, x, t)
Addressed(s, x, v) == Ends(s, Addresses, {m \in Addresses : m.url = v}, x, v)
Barred(s, x, v) == Ends(s, Bars, {v}, x, v)
Updated(s, x) == \A i \in DOMAIN s : s[i].kind = "tab-updated" => Reaches(s, i, x, s[i].tab)
BlankWhenClosed(s) == \A i \in DOMAIN s : s[i].kind = "all-tabs-closed" => s[i].url = Blank

WindowType ==
  /\ windowTabs \in Seq(UITabs) /\ windowActiveTabId \in AnyTabs
  /\ windowActiveTabId # Nobody => windowActiveTabId \in ToSet(windowTabs)
  /\ url \in [UITabs -> AnyUrls] /\ loading \in [UITabs -> BOOLEAN]
  /\ toMain \in Seq(Asks) /\ toWindow \in Seq(Messages) /\ timers \in Nat
  /\ BlankWhenClosed(toWindow)

\* The window comes to the tab on show.
CurrentFollows ==
  windowActiveTabId # Nobody => Tracks(toWindow, currentTabId, windowActiveTabId)

\* An address that is told of a tab finds the window at that tab.
UpdatesReach == Updated(toWindow, currentTabId)

\* The address of the tab on show, and whether it will be asked for.
Target == IF windowActiveTabId = Nobody THEN Blank ELSE url[windowActiveTabId]
Asking == Has(toMain, {"navigate", "get-url"}) \/ Has(toWindow, {"navigated"}) \/ timers > 0
Settled == windowActiveTabId = Nobody \/ ~loading[windowActiveTabId]

\* The window comes to that address, unless it will ask for it.
AddressFollows ==
  Settled => Asking \/ Addressed(toWindow, urlBar, Target)

\* The bar comes to show the tabs, unless the window will ask for them.
Shows == U!Bar(windowTabs, windowActiveTabId)
Refreshes == Has(toMain, {"get-tabs"}) \/ Has(toWindow, U!Refreshing)
BarFollows == ~silent => Refreshes \/ Barred(toWindow, bar, Shows)

WindowInv == WindowType /\ CurrentFollows /\ UpdatesReach /\ AddressFollows /\ BarFollows

\* Ends and Reaches over a message more, and a message less.
LEMMA EndsAppend ==
  ASSUME NEW Item, NEW s \in Seq(Item), NEW m \in Item, NEW X, NEW Y, NEW x, NEW v,
         m \notin X, Ends(s, X, Y, x, v)
  PROVE  Ends(Append(s, m), X, Y, x, v)
  <1> DEFINE r == Append(s, m)
  <1>1. /\ DOMAIN s = 1..Len(s) /\ DOMAIN r = 1..(Len(s) + 1) /\ Len(s) \in Nat /\ r[Len(s) + 1] = m
        /\ \A k \in DOMAIN s : k \in DOMAIN r /\ r[k] = s[k]
    BY Appended
  <1> HIDE DEF r
  <1>2. \A k \in DOMAIN r : k \in DOMAIN s \/ k = Len(s) + 1
    BY <1>1
  <1>3. Ends(r, X, Y, x, v)
    BY <1>1, <1>2 DEF Ends
  <1>4. QED
    BY <1>3 DEF r

LEMMA EndsWith ==
  ASSUME NEW Item, NEW s \in Seq(Item), NEW m \in Item, NEW X, NEW Y, NEW x, NEW v, m \in Y
  PROVE  Ends(Append(s, m), X, Y, x, v)
  <1> DEFINE r == Append(s, m)
  <1>1. /\ DOMAIN r = 1..(Len(s) + 1) /\ Len(s) \in Nat /\ r[Len(s) + 1] = m
    BY Appended
  <1> HIDE DEF r
  <1>2. Len(s) + 1 \in DOMAIN r /\ \A k \in DOMAIN r : ~(k > Len(s) + 1)
    BY <1>1
  <1>3. Ends(r, X, Y, x, v)
    BY <1>1, <1>2 DEF Ends
  <1>4. QED
    BY <1>3 DEF r

LEMMA EndsTail ==
  ASSUME NEW Item, NEW s \in Seq(Item), s # <<>>, NEW X, NEW Y, NEW x, NEW y, NEW v, Ends(s, X, Y, x, v),
         Head(s) \notin X => y = x, Head(s) \in Y => y = v, Y \subseteq X
  PROVE  Ends(Tail(s), X, Y, y, v)
  <1> DEFINE r == Tail(s)
  <1>1. /\ Head(s) = s[1] /\ 1 \in DOMAIN s /\ DOMAIN s = 1..Len(s) /\ DOMAIN r = 1..(Len(s) - 1) /\ Len(s) \in Nat \ {0}
        /\ \A k \in DOMAIN r : k + 1 \in DOMAIN s /\ r[k] = s[k + 1]
        /\ \A k \in DOMAIN s : k # 1 => k - 1 \in DOMAIN r /\ r[k - 1] = s[k]
    BY Shortened
  <1> HIDE DEF r
  <1>2. ASSUME NEW j \in DOMAIN s, s[j] \in Y, \A k \in DOMAIN s : k > j => s[k] \notin X
        PROVE  Ends(r, X, Y, y, v)
    <2>1. CASE j = 1
      <3>1. y = v
        BY <1>1, <1>2, <2>1
      <3>2. \A k \in DOMAIN r : k + 1 > j
        BY <1>1, <2>1
      <3>3. \A k \in DOMAIN r : r[k] \notin X
        BY <1>1, <1>2, <3>2
      <3>4. QED
        BY <3>1, <3>3 DEF Ends
    <2>2. CASE j # 1
      <3>1. j - 1 \in DOMAIN r /\ r[j - 1] = s[j]
        BY <1>1, <2>2
      <3>2. \A k \in DOMAIN r : k > j - 1 => k + 1 > j
        BY <1>1
      <3>3. \A k \in DOMAIN r : k > j - 1 => r[k] \notin X
        BY <1>1, <1>2, <3>2
      <3>4. QED
        BY <1>2, <3>1, <3>3 DEF Ends
    <2>3. QED
      BY <2>1, <2>2
  <1>3. ASSUME x = v, \A k \in DOMAIN s : s[k] \notin X
        PROVE  Ends(r, X, Y, y, v)
    BY <1>1, <1>3 DEF Ends
  <1>4. Ends(r, X, Y, y, v)
    BY <1>2, <1>3 DEF Ends
  <1>5. QED
    BY <1>4 DEF r

LEMMA ReachesAppend ==
  ASSUME NEW Item, NEW s \in Seq(Item), NEW m \in Item, NEW i \in DOMAIN s, NEW x, NEW t, Reaches(s, i, x, t)
  PROVE  Reaches(Append(s, m), i, x, t)
  <1> DEFINE r == Append(s, m)
  <1>1. /\ DOMAIN s = 1..Len(s) /\ DOMAIN r = 1..(Len(s) + 1) /\ Len(s) \in Nat
        /\ \A k \in DOMAIN s : k \in DOMAIN r /\ r[k] = s[k]
    BY Appended
  <1> HIDE DEF r
  <1>2. \A k \in DOMAIN r : k < i => k \in DOMAIN s
    BY <1>1
  <1>3. Reaches(r, i, x, t)
    BY <1>1, <1>2 DEF Reaches
  <1>4. QED
    BY <1>3 DEF r

\* A message at the end of s finds the window where s ends.
LEMMA ReachesEnd ==
  ASSUME NEW Item, NEW s \in Seq(Item), NEW m \in Item, NEW x, NEW t,
         Ends(s, Switches, {n \in Switches : Told(n) = t}, x, t)
  PROVE  Reaches(Append(s, m), Len(s) + 1, x, t)
  <1> DEFINE r == Append(s, m)
  <1>1. /\ DOMAIN s = 1..Len(s) /\ DOMAIN r = 1..(Len(s) + 1) /\ Len(s) \in Nat
        /\ \A k \in DOMAIN s : k \in DOMAIN r /\ r[k] = s[k]
    BY Appended
  <1> HIDE DEF r
  <1>2. \A k \in DOMAIN r : k < Len(s) + 1 => k \in DOMAIN s
    BY <1>1
  <1>3. \A k \in DOMAIN s : k < Len(s) + 1
    BY <1>1
  <1>4. Reaches(r, Len(s) + 1, x, t)
    BY <1>1, <1>2, <1>3 DEF Ends, Reaches
  <1>5. QED
    BY <1>4 DEF r

LEMMA ReachesTail ==
  ASSUME NEW Item, NEW s \in Seq(Item), s # <<>>, NEW x, NEW y, NEW t, NEW i \in DOMAIN Tail(s), Reaches(s, i + 1, x, t),
         IF Head(s) \in Switches THEN y = Told(Head(s)) ELSE y = x
  PROVE  Reaches(Tail(s), i, y, t)
  <1> DEFINE r == Tail(s)
  <1>1. /\ Head(s) = s[1] /\ 1 \in DOMAIN s /\ DOMAIN s = 1..Len(s) /\ DOMAIN r = 1..(Len(s) - 1) /\ Len(s) \in Nat \ {0}
        /\ \A k \in DOMAIN r : k + 1 \in DOMAIN s /\ r[k] = s[k + 1]
        /\ \A k \in DOMAIN s : k # 1 => k - 1 \in DOMAIN r /\ r[k - 1] = s[k]
    BY Shortened
  <1> HIDE DEF r
  <1>2. i \in DOMAIN r /\ i \in Nat /\ 1 < i + 1
    BY <1>1 DEF r
  <1>3. ASSUME NEW j \in DOMAIN s, j < i + 1, s[j] \in Switches, Told(s[j]) = t,
               \A k \in DOMAIN s : j < k /\ k < i + 1 => s[k] \notin Switches
        PROVE  Reaches(r, i, y, t)
    <2>1. CASE j = 1
      <3>1. y = t
        BY <1>1, <1>3, <2>1
      <3>2. \A k \in DOMAIN r : k < i => j < k + 1 /\ k + 1 < i + 1
        BY <1>1, <1>2, <2>1
      <3>3. \A k \in DOMAIN r : k < i => r[k] \notin Switches
        BY <1>1, <1>3, <3>2
      <3>4. QED
        BY <3>1, <3>3 DEF Reaches
    <2>2. CASE j # 1
      <3>1. j - 1 \in DOMAIN r /\ r[j - 1] = s[j] /\ j - 1 < i
        BY <1>1, <1>2, <1>3, <2>2
      <3>2. \A k \in DOMAIN r : j - 1 < k /\ k < i => j < k + 1 /\ k + 1 < i + 1
        BY <1>1, <1>2
      <3>3. \A k \in DOMAIN r : j - 1 < k /\ k < i => r[k] \notin Switches
        BY <1>1, <1>3, <3>2
      <3>4. QED
        BY <1>3, <3>1, <3>3 DEF Reaches
    <2>3. QED
      BY <2>1, <2>2
  <1>4. ASSUME x = t, \A k \in DOMAIN s : k < i + 1 => s[k] \notin Switches
        PROVE  Reaches(r, i, y, t)
    <2>1. y = t
      BY <1>1, <1>2, <1>4
    <2>2. \A k \in DOMAIN r : k < i => k + 1 < i + 1
      BY <1>1, <1>2
    <2>3. QED
      BY <1>1, <1>4, <2>1, <2>2 DEF Reaches
  <1>5. Reaches(r, i, y, t)
    BY <1>3, <1>4 DEF Reaches
  <1>6. QED
    BY <1>5 DEF r

\* What is on its way stays on its way, until it is taken.
LEMMA HasAppend ==
  ASSUME NEW Item, NEW s \in Seq(Item), NEW m \in Item, NEW kinds
  PROVE  Has(Append(s, m), kinds) <=> Has(s, kinds) \/ m.kind \in kinds
  <1> DEFINE r == Append(s, m)
  <1>1. /\ DOMAIN s = 1..Len(s) /\ DOMAIN r = 1..(Len(s) + 1) /\ Len(s) \in Nat /\ r[Len(s) + 1] = m
        /\ \A k \in DOMAIN s : k \in DOMAIN r /\ r[k] = s[k]
    BY Appended
  <1> HIDE DEF r
  <1>2. Len(s) + 1 \in DOMAIN r /\ \A k \in DOMAIN r : k \in DOMAIN s \/ k = Len(s) + 1
    BY <1>1
  <1>3. Has(r, kinds) <=> Has(s, kinds) \/ m.kind \in kinds
    BY <1>1, <1>2 DEF Has
  <1>4. QED
    BY <1>3 DEF r

LEMMA HasTail ==
  ASSUME NEW Item, NEW s \in Seq(Item), s # <<>>, NEW kinds, Has(s, kinds), Head(s).kind \notin kinds
  PROVE  Has(Tail(s), kinds)
  <1> DEFINE r == Tail(s)
  <1>1. /\ Head(s) = s[1]
        /\ \A k \in DOMAIN s : k # 1 => k - 1 \in DOMAIN r /\ r[k - 1] = s[k]
    BY Shortened
  <1> HIDE DEF r
  <1>2. PICK k \in DOMAIN s : s[k].kind \in kinds
    BY DEF Has
  <1>3. k # 1
    BY <1>1, <1>2
  <1>4. r[k - 1].kind \in kinds /\ k - 1 \in DOMAIN r
    BY <1>1, <1>2, <1>3
  <1>5. Has(r, kinds)
    BY <1>4 DEF Has
  <1>6. QED
    BY <1>5 DEF r


\* What main answers with, as messages one after the other.
LEMMA Joined ==
  ASSUME NEW Item, NEW s \in Seq(Item), NEW a \in Item, NEW b \in Item, NEW c \in Item
  PROVE  /\ s \o <<a>> = Append(s, a)
         /\ s \o <<>> \o <<a>> = Append(s, a)
         /\ s \o <<a>> \o <<b>> = Append(Append(s, a), b)
         /\ s \o (<<a>> \o <<b>>) \o <<c>> = Append(Append(Append(s, a), b), c)
  <1>1. \A q \in Seq(Item), x \in Item : q \o <<x>> = Append(q, x)
    BY AppendIsConcat
  <1>2. s \o <<>> = s
    BY ConcatEmptySeq
  <1>3. Append(s, a) \in Seq(Item) /\ Append(Append(s, a), b) \in Seq(Item)
    BY AppendProperties
  <1>4. <<a>> \in Seq(Item) /\ <<b>> \in Seq(Item)
    OBVIOUS
  <1>5. s \o (<<a>> \o <<b>>) = (s \o <<a>>) \o <<b>>
    BY <1>4, ConcatAssociative
  <1>6. s \o <<a>> = Append(s, a) /\ Append(s, a) \o <<b>> = Append(Append(s, a), b)
        /\ Append(Append(s, a), b) \o <<c>> = Append(Append(Append(s, a), b), c)
    BY <1>1, <1>3
  <1>7. s \o <<a>> \o <<b>> = Append(Append(s, a), b)
    BY <1>6
  <1>8. s \o (<<a>> \o <<b>>) \o <<c>> = Append(Append(Append(s, a), b), c)
    BY <1>5, <1>6
  <1>9. s \o <<>> \o <<a>> = Append(s, a)
    BY <1>2, <1>6
  <1>10. QED
    BY <1>6, <1>7, <1>8, <1>9

\* A message more that is no update, or an update of the tab the window comes to.
LEMMA UpdatedMore ==
  ASSUME NEW s \in Seq(Messages), NEW m \in Messages, NEW x, Updated(s, x), BlankWhenClosed(s),
         m.kind = "tab-updated" => Tracks(s, x, m.tab), m.kind = "all-tabs-closed" => m.url = Blank
  PROVE  Append(s, m) \in Seq(Messages) /\ Updated(Append(s, m), x) /\ BlankWhenClosed(Append(s, m))
  <1> DEFINE r == Append(s, m)
  <1>1. /\ r \in Seq(Messages) /\ DOMAIN r = 1..(Len(s) + 1) /\ DOMAIN s = 1..Len(s) /\ Len(s) \in Nat
        /\ r[Len(s) + 1] = m /\ \A k \in DOMAIN s : k \in DOMAIN r /\ r[k] = s[k]
    BY Appended
  <1>2. \A i \in DOMAIN s : s[i].kind = "tab-updated" => Reaches(r, i, x, s[i].tab)
    <2> SUFFICES ASSUME NEW i \in DOMAIN s, s[i].kind = "tab-updated" PROVE Reaches(r, i, x, s[i].tab)
      OBVIOUS
    <2>1. Reaches(s, i, x, s[i].tab)
      BY DEF Updated
    <2>2. QED
      BY <2>1, ReachesAppend
  <1>3. m.kind = "tab-updated" => Reaches(r, Len(s) + 1, x, m.tab)
    BY ReachesEnd DEF Tracks
  <1> HIDE DEF r
  <1>4. \A k \in DOMAIN r : k \in DOMAIN s \/ k = Len(s) + 1
    BY <1>1
  <1>5. Updated(r, x)
    BY <1>1, <1>2, <1>3, <1>4 DEF Updated
  <1>6. BlankWhenClosed(r)
    BY <1>1, <1>4 DEF BlankWhenClosed
  <1>7. QED
    BY <1>1, <1>5, <1>6 DEF r

\* An answer or a notice leads nowhere.
LEMMA NoticedMore ==
  ASSUME NEW s \in Seq(Messages), NEW m \in Replies \cup Notices, NEW c, Updated(s, c), BlankWhenClosed(s)
  PROVE  /\ m \in Messages /\ Append(s, m) \in Seq(Messages)
         /\ Updated(Append(s, m), c) /\ BlankWhenClosed(Append(s, m))
         /\ \A x, t : Tracks(s, x, t) => Tracks(Append(s, m), x, t)
         /\ \A x, v : Addressed(s, x, v) => Addressed(Append(s, m), x, v)
         /\ \A x, v : Barred(s, x, v) => Barred(Append(s, m), x, v)
  <1>1. m \in Messages
    BY DEF Messages
  <1>2. m.kind \in {"changed", "navigated", "moved", "tab-closed", "tab-title-updated"}
    BY DEF Replies, Notices
  <1>3. m \notin Switches
    BY <1>2 DEF Switches
  <1>4. m \notin Addresses
    BY <1>2 DEF Addresses
  <1>5. m \notin Bars
    BY <1>2 DEF Bars
  <1>6. Append(s, m) \in Seq(Messages) /\ Updated(Append(s, m), c) /\ BlankWhenClosed(Append(s, m))
    BY <1>1, <1>2, UpdatedMore
  <1>7. \A x, t : Tracks(s, x, t) => Tracks(Append(s, m), x, t)
    BY <1>1, <1>3, EndsAppend DEF Tracks
  <1>8. \A x, v : Addressed(s, x, v) => Addressed(Append(s, m), x, v)
    BY <1>1, <1>4, EndsAppend DEF Addressed
  <1>9. \A x, v : Barred(s, x, v) => Barred(Append(s, m), x, v)
    BY <1>1, <1>5, EndsAppend DEF Barred
  <1>10. QED
    BY <1>1, <1>6, <1>7, <1>8, <1>9

\* An address leads to itself, and a switch to its tab.
LEMMA AddressedMore ==
  ASSUME NEW s \in Seq(Messages), NEW m \in Addresses, NEW c, Updated(s, c), BlankWhenClosed(s),
         m.kind = "tab-updated" => Tracks(s, c, m.tab), m.kind = "all-tabs-closed" => m.url = Blank
  PROVE  /\ m \in Messages /\ Append(s, m) \in Seq(Messages)
         /\ Updated(Append(s, m), c) /\ BlankWhenClosed(Append(s, m))
         /\ \A x : Addressed(Append(s, m), x, m.url)
         /\ \A x, v : Barred(s, x, v) => Barred(Append(s, m), x, v)
         /\ m.kind = "tab-switched" => \A x : Tracks(Append(s, m), x, m.tab)
         /\ m.kind # "tab-switched" => \A x, t : Tracks(s, x, t) => Tracks(Append(s, m), x, t)
  <1>1. m \in Messages
    BY DEF Messages
  <1>2. m.kind \in {"tab-switched", "tab-updated", "url", "all-tabs-closed"}
    BY DEF Addresses
  <1>3. m \notin Bars
    BY <1>2 DEF Bars
  <1>4. Append(s, m) \in Seq(Messages) /\ Updated(Append(s, m), c) /\ BlankWhenClosed(Append(s, m))
    BY <1>1, UpdatedMore
  <1>5. \A x : Addressed(Append(s, m), x, m.url)
    BY <1>1, EndsWith DEF Addressed
  <1>6. \A x, v : Barred(s, x, v) => Barred(Append(s, m), x, v)
    BY <1>1, <1>3, EndsAppend DEF Barred
  <1>7. ASSUME m.kind = "tab-switched" PROVE \A x : Tracks(Append(s, m), x, m.tab)
    <2>1. m \in {n \in Switches : Told(n) = m.tab}
      BY <1>1, <1>7 DEF Switches, Told
    <2>2. QED
      BY <1>1, <2>1, EndsWith DEF Tracks
  <1>8. ASSUME m.kind # "tab-switched" PROVE \A x, t : Tracks(s, x, t) => Tracks(Append(s, m), x, t)
    <2>1. m \notin Switches
      BY <1>2, <1>8 DEF Switches
    <2>2. QED
      BY <1>1, <2>1, EndsAppend DEF Tracks
  <1>9. QED
    BY <1>1, <1>4, <1>5, <1>6, <1>7, <1>8

\* The tabs lead to themselves, and to the one that is active.
LEMMA BarredMore ==
  ASSUME NEW s \in Seq(Messages), NEW m \in Bars, NEW c, Updated(s, c), BlankWhenClosed(s)
  PROVE  /\ m \in Messages /\ Append(s, m) \in Seq(Messages)
         /\ Updated(Append(s, m), c) /\ BlankWhenClosed(Append(s, m))
         /\ \A x : Barred(Append(s, m), x, m)
         /\ \A x, v : Addressed(s, x, v) => Addressed(Append(s, m), x, v)
         /\ m.active # Nobody => \A x : Tracks(Append(s, m), x, m.active)
  <1>1. m \in Messages /\ m.kind = "tabs"
    BY DEF Messages, Bars
  <1>2. m \notin Addresses
    BY <1>1 DEF Addresses
  <1>3. Append(s, m) \in Seq(Messages) /\ Updated(Append(s, m), c) /\ BlankWhenClosed(Append(s, m))
    BY <1>1, UpdatedMore
  <1>4. \A x : Barred(Append(s, m), x, m)
    BY <1>1, EndsWith DEF Barred
  <1>5. \A x, v : Addressed(s, x, v) => Addressed(Append(s, m), x, v)
    BY <1>1, <1>2, EndsAppend DEF Addressed
  <1>6. ASSUME m.active # Nobody PROVE \A x : Tracks(Append(s, m), x, m.active)
    <2>1. m \in {n \in Switches : Told(n) = m.active}
      BY <1>1, <1>6 DEF Switches, Told
    <2>2. QED
      BY <1>1, <2>1, EndsWith DEF Tracks
  <1>7. QED
    BY <1>1, <1>3, <1>4, <1>5, <1>6


\* The window asks main: what is wanted of it stays, or an address is.
LEMMA AskedInv ==
  ASSUME WindowInv, NEW a \in Asks, toMain' = Append(toMain, a),
         UNCHANGED <<windowTabs, windowActiveTabId, url, loading, silent, bar, currentTabId, toWindow>>,
         timers' \in Nat, a.kind \in {"navigate", "get-url"} \/ UNCHANGED <<urlBar, timers>>
  PROVE  WindowInv'
  <1>1. toMain \in Seq(Asks)
    BY DEF WindowInv, WindowType
  <1>2. toMain' \in Seq(Asks)
    BY <1>1, AppendProperties
  <1>3. WindowType'
    BY <1>2 DEF WindowInv, WindowType
  <1>4. \A kinds : Has(toMain', kinds) <=> Has(toMain, kinds) \/ a.kind \in kinds
    BY <1>1, HasAppend
  <1>5. CurrentFollows' /\ UpdatesReach'
    BY DEF WindowInv, CurrentFollows, UpdatesReach
  <1>6. AddressFollows'
    <2>1. Settled' = Settled /\ Target' = Target
      BY DEF Settled, Target
    <2>2. Asking => Asking'
      BY <1>4 DEF Asking
    <2>3. CASE a.kind \in {"navigate", "get-url"}
      BY <1>4, <2>3 DEF AddressFollows, Asking
    <2>4. CASE UNCHANGED <<urlBar, timers>>
      BY <2>1, <2>2, <2>4 DEF WindowInv, AddressFollows
    <2>5. QED
      BY <2>3, <2>4
  <1>7. BarFollows'
    <2>1. Shows' = Shows
      BY DEF Shows
    <2>2. Refreshes => Refreshes'
      BY <1>4 DEF Refreshes
    <2>3. QED
      BY <2>1, <2>2 DEF WindowInv, BarFollows
  <1>8. QED
    BY <1>3, <1>5, <1>6, <1>7 DEF WindowInv

\* The window takes a message and does what it says.
LEMMA TakenInv ==
  ASSUME WindowInv, toWindow # <<>>, toWindow' = Tail(toWindow),
         UNCHANGED <<windowTabs, windowActiveTabId, url, loading, silent>>,
         IF Head(toWindow) \in Switches THEN currentTabId' = Told(Head(toWindow)) ELSE currentTabId' = currentTabId,
         IF Head(toWindow) \in Addresses THEN urlBar' = Head(toWindow).url ELSE urlBar' = urlBar,
         IF Head(toWindow) \in Bars THEN bar' = Head(toWindow) ELSE bar' = bar,
         toMain' = toMain \/ \E a \in Asks : toMain' = Append(toMain, a),
         timers' \in Nat, timers' >= timers, Head(toWindow).kind = "navigated" => timers' > 0,
         Head(toWindow).kind \in U!Refreshing => Has(toMain', {"get-tabs"})
  PROVE  WindowInv'
  <1> DEFINE m == Head(toWindow)
             s == toWindow
  <1>1. /\ s \in Seq(Messages) /\ toMain \in Seq(Asks) /\ timers \in Nat /\ BlankWhenClosed(s)
        /\ Updated(s, currentTabId)
    BY DEF WindowInv, WindowType, UpdatesReach
  <1>2. /\ Tail(s) \in Seq(Messages) /\ m \in Messages /\ m = s[1]
        /\ \A k \in DOMAIN Tail(s) : k + 1 \in DOMAIN s /\ Tail(s)[k] = s[k + 1]
    BY <1>1, Shortened
  <1>3. toMain' \in Seq(Asks) /\ \A kinds : Has(toMain, kinds) => Has(toMain', kinds)
    <2>1. CASE toMain' = toMain
      BY <1>1, <2>1
    <2>2. ASSUME NEW a \in Asks, toMain' = Append(toMain, a)
          PROVE  toMain' \in Seq(Asks) /\ \A kinds : Has(toMain, kinds) => Has(toMain', kinds)
      <3>1. toMain' \in Seq(Asks)
        BY <1>1, <2>2, AppendProperties
      <3>2. \A kinds : Has(Append(toMain, a), kinds) <=> Has(toMain, kinds) \/ a.kind \in kinds
        BY <1>1, HasAppend
      <3>3. QED
        BY <2>2, <3>1, <3>2
    <2>3. QED
      BY <2>1, <2>2
  <1>4. BlankWhenClosed(toWindow')
    BY <1>1, <1>2 DEF BlankWhenClosed
  <1>5. WindowType'
    BY <1>2, <1>3, <1>4 DEF WindowInv, WindowType
  <1>6. CurrentFollows'
    <2> SUFFICES ASSUME windowActiveTabId # Nobody
                 PROVE  Tracks(Tail(s), currentTabId', windowActiveTabId)
      BY DEF CurrentFollows
    <2> DEFINE Y == {n \in Switches : Told(n) = windowActiveTabId}
    <2>1. Ends(s, Switches, Y, currentTabId, windowActiveTabId)
      BY DEF WindowInv, CurrentFollows, Tracks
    <2>2. /\ m \notin Switches => currentTabId' = currentTabId
          /\ m \in Y => currentTabId' = windowActiveTabId
          /\ Y \subseteq Switches
      OBVIOUS
    <2> HIDE DEF Y, m
    <2>3. Ends(Tail(s), Switches, Y, currentTabId', windowActiveTabId)
      BY <1>1, <2>1, <2>2, EndsTail DEF m
    <2>4. QED
      BY <2>3 DEF Tracks, Y
  <1>7. UpdatesReach'
    <2> SUFFICES ASSUME NEW i \in DOMAIN Tail(s), Tail(s)[i].kind = "tab-updated"
                 PROVE  Reaches(Tail(s), i, currentTabId', Tail(s)[i].tab)
      BY DEF UpdatesReach, Updated
    <2>1. i + 1 \in DOMAIN s /\ Tail(s)[i] = s[i + 1]
      BY <1>2
    <2>2. Reaches(s, i + 1, currentTabId, s[i + 1].tab)
      BY <1>1, <2>1 DEF Updated
    <2>3. Reaches(Tail(s), i, currentTabId', s[i + 1].tab)
      BY <1>1, <2>2, ReachesTail
    <2>4. QED
      BY <2>1, <2>3
  <1>8. AddressFollows'
    <2> SUFFICES ASSUME Settled, ~Asking' PROVE Addressed(Tail(s), urlBar', Target)
      BY DEF AddressFollows, Settled, Target
    <2>1. ~Asking
      <3>1. CASE Has(toMain, {"navigate", "get-url"})
        BY <1>3, <3>1 DEF Asking
      <3>2. CASE Has(toWindow, {"navigated"})
        <4>1. CASE m.kind = "navigated"
          BY <4>1 DEF Asking
        <4>2. CASE m.kind # "navigated"
          <5>1. Has(toWindow', {"navigated"})
            BY <1>1, <3>2, <4>2, HasTail
          <5>2. QED
            BY <5>1 DEF Asking
        <4>3. QED
          BY <4>1, <4>2
      <3>3. CASE timers > 0
        <4>1. timers' > 0
          BY <1>1, <3>3
        <4>2. QED
          BY <4>1 DEF Asking
      <3>4. QED
        BY <3>1, <3>2, <3>3 DEF Asking
    <2> DEFINE Y == {n \in Addresses : n.url = Target}
    <2>2. Ends(s, Addresses, Y, urlBar, Target)
      BY <2>1 DEF WindowInv, AddressFollows, Addressed
    <2>3. /\ m \notin Addresses => urlBar' = urlBar
          /\ m \in Y => urlBar' = Target
          /\ Y \subseteq Addresses
      OBVIOUS
    <2> HIDE DEF Y, m
    <2>4. Ends(Tail(s), Addresses, Y, urlBar', Target)
      BY <1>1, <2>2, <2>3, EndsTail DEF m
    <2>5. QED
      BY <2>4 DEF Addressed, Y
  <1>9. BarFollows'
    <2> SUFFICES ASSUME ~silent, ~Refreshes' PROVE Barred(Tail(s), bar', Shows)
      BY DEF BarFollows, Shows
    <2>1. ~Refreshes
      <3>1. CASE Has(toMain, {"get-tabs"})
        BY <1>3, <3>1 DEF Refreshes
      <3>2. CASE Has(toWindow, U!Refreshing)
        <4>1. CASE m.kind \in U!Refreshing
          BY <4>1 DEF Refreshes
        <4>2. CASE m.kind \notin U!Refreshing
          <5>1. Has(toWindow', U!Refreshing)
            BY <1>1, <3>2, <4>2, HasTail
          <5>2. U!Refreshing' = U!Refreshing
            BY DEF U!Refreshing
          <5>3. QED
            BY <5>1, <5>2 DEF Refreshes
        <4>3. QED
          BY <4>1, <4>2
      <3>3. QED
        BY <3>1, <3>2 DEF Refreshes
    <2>2. Shows \in Bars
      BY DEF Shows, U!Bar, Bars, WindowInv, WindowType
    <2>3. Ends(s, Bars, {Shows}, bar, Shows)
      BY <2>1 DEF WindowInv, BarFollows, Barred
    <2>4. /\ m \notin Bars => bar' = bar
          /\ m \in {Shows} => bar' = Shows
          /\ {Shows} \subseteq Bars
      BY <2>2
    <2> HIDE DEF m
    <2>5. Ends(Tail(s), Bars, {Shows}, bar', Shows)
      BY <1>1, <2>3, <2>4, EndsTail DEF m
    <2>6. QED
      BY <2>5 DEF Barred
  <1>10. QED
    BY <1>5, <1>6, <1>7, <1>8, <1>9 DEF WindowInv


\* What users do.
LEMMA UserKeeps ==
  ASSUME WindowInv, \/ \E t \in UITabs : U!NewTab(t) \/ U!ClickTab(t)
                    \/ U!Navigate \/ U!Buttons
  PROVE  WindowInv'
  <1>1. PICK a : /\ a \in Asks /\ toMain' = Append(toMain, a)
                 /\ UNCHANGED <<windowTabs, windowActiveTabId, url, loading, silent, bar, currentTabId, toWindow, timers>>
                 /\ a.kind \in {"navigate", "get-url"} \/ UNCHANGED urlBar
    <2>1. ASSUME NEW t \in UITabs, NEW kind \in {"create-tab", "switch-tab", "close-tab"} PROVE U!Ask(kind, t) \in Asks
      BY DEF U!Ask, Asks
    <2>2. ASSUME NEW t \in UITabs, U!NewTab(t)
          PROVE  /\ toMain' = Append(toMain, U!Ask("create-tab", t))
                 /\ UNCHANGED <<windowTabs, windowActiveTabId, url, loading, silent, bar, currentTabId, toWindow, timers, urlBar>>
      BY <2>2 DEF U!NewTab, U!Send, U!mainVars, U!windowVars
    <2>3. ASSUME NEW t \in UITabs, U!ClickTab(t)
          PROVE  /\ \E kind \in {"switch-tab", "close-tab"} : toMain' = Append(toMain, U!Ask(kind, t))
                 /\ UNCHANGED <<windowTabs, windowActiveTabId, url, loading, silent, bar, currentTabId, toWindow, timers, urlBar>>
      BY <2>3 DEF U!ClickTab, U!Send, U!mainVars, U!windowVars
    <2>4. U!Ask("navigate", Nobody) \in Asks /\ U!Ask("navigate", Nobody).kind = "navigate" /\ U!Ask("move", Nobody) \in Asks
      BY DEF U!Ask, Asks
    <2>5. ASSUME U!Navigate
          PROVE  /\ toMain' = Append(toMain, U!Ask("navigate", Nobody))
                 /\ UNCHANGED <<windowTabs, windowActiveTabId, url, loading, silent, bar, currentTabId, toWindow, timers>>
      BY <2>5 DEF U!Navigate, U!Send, U!mainVars
    <2>6. ASSUME U!Buttons
          PROVE  /\ toMain' = Append(toMain, U!Ask("move", Nobody))
                 /\ UNCHANGED <<windowTabs, windowActiveTabId, url, loading, silent, bar, currentTabId, toWindow, timers, urlBar>>
      BY <2>6 DEF U!Buttons, U!Send, U!mainVars, U!windowVars
    <2>7. QED
      BY <2>1, <2>2, <2>3, <2>4, <2>5, <2>6
  <1>2. timers' \in Nat
    BY <1>1 DEF WindowInv, WindowType
  <1>3. a.kind \in {"navigate", "get-url"} \/ UNCHANGED <<urlBar, timers>>
    BY <1>1
  <1>4. QED
    BY <1>1, <1>2, <1>3, AskedInv

LEMMA TimerKeeps == ASSUME WindowInv, U!Timer PROVE WindowInv'
  <1>1. /\ toMain' = Append(toMain, U!Ask("get-url", Nobody)) /\ timers > 0 /\ timers' = timers - 1
        /\ UNCHANGED <<windowTabs, windowActiveTabId, url, loading, silent, bar, currentTabId, toWindow>>
    BY DEF U!Timer, U!Send, U!mainVars
  <1>2. U!Ask("get-url", Nobody) \in Asks /\ U!Ask("get-url", Nobody).kind = "get-url"
    BY DEF U!Ask, Asks
  <1>3. timers' \in Nat
    BY <1>1 DEF WindowInv, WindowType
  <1>4. QED
    BY <1>1, <1>2, <1>3, AskedInv

\* What a message of a kind is.
LEMMA KindsOfMessages ==
  ASSUME NEW m \in Messages
  PROVE  /\ m \in Addresses <=> m.kind \in {"tab-switched", "tab-updated", "url", "all-tabs-closed"}
         /\ m \in Bars <=> m.kind = "tabs"
         /\ m \in Switches <=> m.kind = "tab-switched" \/ (m.kind = "tabs" /\ m.active # Nobody)
  <1>1. m \in Addresses <=> m.kind \in {"tab-switched", "tab-updated", "url", "all-tabs-closed"}
    BY DEF Messages, Replies, Addresses, Notices, Bars
  <1>2. m \in Bars <=> m.kind = "tabs"
    BY DEF Messages, Replies, Addresses, Notices, Bars
  <1>3. m \in Switches <=> m.kind = "tab-switched" \/ (m.kind = "tabs" /\ m.active # Nobody)
    BY DEF Switches
  <1>4. QED
    BY <1>1, <1>2, <1>3

\* The window takes a message.
LEMMA RendererKeeps == ASSUME WindowInv, U!Renderer PROVE WindowInv'
  <1> DEFINE m == Head(toWindow)
  <1>1. toWindow \in Seq(Messages) /\ timers \in Nat /\ BlankWhenClosed(toWindow)
    BY DEF WindowInv, WindowType
  <1>2. ASSUME toWindow # <<>>
        PROVE  /\ m \in Messages /\ m = toWindow[1] /\ 1 \in DOMAIN toWindow
               /\ m \in Addresses <=> m.kind \in {"tab-switched", "tab-updated", "url", "all-tabs-closed"}
               /\ m \in Bars <=> m.kind = "tabs"
               /\ m \in Switches <=> m.kind = "tab-switched" \/ (m.kind = "tabs" /\ m.active # Nobody)
    BY <1>1, <1>2, Shortened, KindsOfMessages
  <1>3. CASE U!Notice
    <2>1. /\ toWindow # <<>> /\ toWindow' = Tail(toWindow)
          /\ m.kind \in {"changed", "tab-updated", "tab-title-updated", "tab-closed", "moved"}
          /\ UNCHANGED <<windowTabs, windowActiveTabId, url, loading, silent, bar, currentTabId, timers>>
          /\ urlBar' = IF m.kind = "tab-updated" /\ m.tab = currentTabId THEN m.url ELSE urlBar
          /\ IF m.kind \in U!Refreshing THEN toMain' = Append(toMain, U!Ask("get-tabs", Nobody)) ELSE toMain' = toMain
      BY <1>3 DEF U!Notice, U!Got, U!Take, U!Send, U!Refreshing, U!mainVars
    <2>2. U!Ask("get-tabs", Nobody) \in Asks /\ U!Ask("get-tabs", Nobody).kind = "get-tabs"
      BY DEF U!Ask, Asks
    <2>3. m.kind = "tab-updated" => m.tab = currentTabId
      <3> SUFFICES ASSUME m.kind = "tab-updated" PROVE m.tab = currentTabId
        OBVIOUS
      <3>1. Reaches(toWindow, 1, currentTabId, m.tab)
        BY <1>2, <2>1 DEF WindowInv, UpdatesReach, Updated
      <3>2. \A j \in DOMAIN toWindow : ~(j < 1)
        BY <1>1, LenProperties
      <3>3. QED
        BY <3>1, <3>2 DEF Reaches
    <2>4. m.kind \in U!Refreshing => Has(toMain', {"get-tabs"})
      <3>1. toMain \in Seq(Asks)
        BY DEF WindowInv, WindowType
      <3> DEFINE a == U!Ask("get-tabs", Nobody)
      <3>2. Has(Append(toMain, a), {"get-tabs"})
        <4> HIDE DEF a
        <4>1. a \in Asks /\ a.kind \in {"get-tabs"}
          BY <2>2 DEF a
        <4>2. QED
          BY <3>1, <4>1, HasAppend
      <3>3. QED
        BY <2>1, <3>2
    <2>5. IF m \in Addresses THEN urlBar' = m.url ELSE urlBar' = urlBar
      BY <1>2, <2>1, <2>3
    <2>6. m \notin Switches /\ m \notin Bars /\ m.kind # "navigated"
      BY <1>2, <2>1
    <2>7. timers' \in Nat /\ timers' >= timers
      BY <1>1, <2>1
    <2>8. QED
      BY <2>1, <2>2, <2>4, <2>5, <2>6, <2>7, TakenInv
  <1>4. CASE U!RenderTabs
    <2>1. /\ toWindow # <<>> /\ toWindow' = Tail(toWindow) /\ m.kind = "tabs" /\ bar' = m
          /\ currentTabId' = IF m.active = Nobody THEN currentTabId ELSE m.active
          /\ UNCHANGED <<windowTabs, windowActiveTabId, url, loading, silent, urlBar, timers, toMain>>
      BY <1>4 DEF U!RenderTabs, U!Got, U!Take, U!mainVars
    <2>2. IF m \in Switches THEN currentTabId' = Told(m) ELSE currentTabId' = currentTabId
      BY <1>2, <2>1 DEF Told
    <2>3. m \in Bars /\ m \notin Addresses /\ m.kind # "navigated" /\ m.kind \notin U!Refreshing
      BY <1>2, <2>1 DEF U!Refreshing
    <2>4. timers' \in Nat /\ timers' >= timers
      BY <1>1, <2>1
    <2>5. QED
      BY <2>1, <2>2, <2>3, <2>4, TakenInv
  <1>5. CASE U!OnTabSwitched \/ U!OnAllTabsClosed \/ U!GotUrl
    <2>1. /\ toWindow # <<>> /\ toWindow' = Tail(toWindow) /\ m.kind \in {"tab-switched", "url", "all-tabs-closed"}
          /\ IF m.kind = "tab-switched" THEN currentTabId' = m.tab ELSE currentTabId' = currentTabId
          /\ urlBar' = IF m.kind = "all-tabs-closed" THEN Blank ELSE m.url
          /\ UNCHANGED <<windowTabs, windowActiveTabId, url, loading, silent, bar, timers, toMain>>
      BY <1>5 DEF U!OnTabSwitched, U!OnAllTabsClosed, U!GotUrl, U!Got, U!Take, U!mainVars
    <2>2. urlBar' = m.url
      BY <1>1, <1>2, <2>1 DEF BlankWhenClosed
    <2>3. IF m \in Switches THEN currentTabId' = Told(m) ELSE currentTabId' = currentTabId
      BY <1>2, <2>1 DEF Told
    <2>4. m \notin Bars /\ m \in Addresses /\ m.kind # "navigated" /\ m.kind \notin U!Refreshing
      BY <1>2, <2>1 DEF U!Refreshing
    <2>5. timers' \in Nat /\ timers' >= timers
      BY <1>1, <2>1
    <2>6. QED
      BY <2>1, <2>2, <2>3, <2>4, <2>5, TakenInv
  <1>6. CASE U!Navigated
    <2>1. /\ toWindow # <<>> /\ toWindow' = Tail(toWindow) /\ m.kind = "navigated" /\ timers' = timers + 1
          /\ UNCHANGED <<windowTabs, windowActiveTabId, url, loading, silent, bar, currentTabId, urlBar, toMain>>
      BY <1>6 DEF U!Navigated, U!Got, U!Take, U!mainVars
    <2>2. m \notin Bars /\ m \notin Addresses /\ m \notin Switches /\ m.kind \notin U!Refreshing
      BY <1>2, <2>1 DEF U!Refreshing
    <2>3. timers' \in Nat /\ timers' >= timers /\ timers' > 0
      BY <1>1, <2>1
    <2>4. QED
      BY <2>1, <2>2, <2>3, TakenInv
  <1>7. QED
    BY <1>3, <1>4, <1>5, <1>6, TimerKeeps DEF U!Renderer


\* A request that main has served: what else was asked for still is.
LEMMA Served ==
  ASSUME WindowInv, toMain # <<>>, toMain' = Tail(toMain)
  PROVE  /\ toMain' \in Seq(Asks) /\ Head(toMain) \in Asks
         /\ \A kinds : Has(toMain, kinds) /\ Head(toMain).kind \notin kinds => Has(toMain', kinds)
  <1>1. toMain \in Seq(Asks)
    BY DEF WindowInv, WindowType
  <1>2. toMain' \in Seq(Asks) /\ Head(toMain) \in Asks
    BY <1>1, Shortened
  <1>3. \A kinds : Has(toMain, kinds) /\ Head(toMain).kind \notin kinds => Has(toMain', kinds)
    BY <1>1, HasTail
  <1>4. QED
    BY <1>2, <1>3

\* main shows tab t and says so, perhaps after a tab was closed.
LEMMA SwitchedInv ==
  ASSUME WindowInv, Nobody \notin UITabs, NEW t \in UITabs, windowActiveTabId' = t,
         windowTabs' \in Seq(UITabs), t \in ToSet(windowTabs'), toMain' \in Seq(Asks),
         UNCHANGED <<url, bar, currentTabId, urlBar, timers>>, loading' \in [UITabs -> BOOLEAN],
         NEW sent, sent = Append(toWindow, U!Event("tab-switched", t, url[t])),
         \/ silent' /\ toWindow' = sent
         \/ toWindow' = Append(sent, U!Ask("changed", Nobody))
         \/ \E c \in UITabs : toWindow' = Append(Append(sent, U!Event("tab-closed", c, Blank)), U!Ask("changed", Nobody))
  PROVE  WindowInv'
  <1> DEFINE s == toWindow
             e == U!Event("tab-switched", t, url[t])
             a == U!Ask("changed", Nobody)
  <1>1. /\ s \in Seq(Messages) /\ Updated(s, currentTabId) /\ BlankWhenClosed(s) /\ timers \in Nat
        /\ url \in [UITabs -> AnyUrls]
    BY DEF WindowInv, WindowType, UpdatesReach
  <1>2. e \in Addresses /\ e.kind = "tab-switched" /\ e.tab = t /\ e.url = url[t]
    BY <1>1 DEF U!Event, Addresses, AnyTabs
  <1>3. a \in Replies /\ a.kind = "changed"
    BY DEF U!Ask, Replies
  <1>4. \A c \in UITabs : U!Event("tab-closed", c, Blank) \in Notices
    BY DEF U!Event, Notices
  <1> HIDE DEF s, e, a
  <1>5. /\ sent \in Seq(Messages) /\ Updated(sent, currentTabId) /\ BlankWhenClosed(sent)
        /\ Addressed(sent, urlBar, url[t]) /\ Tracks(sent, currentTabId, t)
    <2>1. sent = Append(s, e) /\ e.kind # "tab-updated" /\ e.kind # "all-tabs-closed"
      BY <1>2 DEF s, e
    <2>2. /\ Append(s, e) \in Seq(Messages) /\ Updated(Append(s, e), currentTabId) /\ BlankWhenClosed(Append(s, e))
          /\ \A x : Addressed(Append(s, e), x, e.url)
          /\ \A x : Tracks(Append(s, e), x, e.tab)
      BY <1>1, <1>2, <2>1, AddressedMore
    <2>3. QED
      BY <1>2, <2>1, <2>2
  <1>6. ASSUME NEW r \in Seq(Messages), NEW m \in Replies \cup Notices, Updated(r, currentTabId), BlankWhenClosed(r),
               Addressed(r, urlBar, url[t]), Tracks(r, currentTabId, t)
        PROVE  /\ Append(r, m) \in Seq(Messages) /\ Updated(Append(r, m), currentTabId) /\ BlankWhenClosed(Append(r, m))
               /\ Addressed(Append(r, m), urlBar, url[t]) /\ Tracks(Append(r, m), currentTabId, t)
               /\ m = a => Has(Append(r, m), {"changed"})
    <2>1. m \in Messages
      BY DEF Messages
    <2>2. Has(Append(r, m), {"changed"}) <=> Has(r, {"changed"}) \/ m.kind \in {"changed"}
      BY <2>1, HasAppend
    <2>3. QED
      BY <1>3, <1>6, <2>2, NoticedMore
  <1>7. /\ toWindow' \in Seq(Messages) /\ Updated(toWindow', currentTabId) /\ BlankWhenClosed(toWindow')
        /\ Addressed(toWindow', urlBar, url[t]) /\ Tracks(toWindow', currentTabId, t)
        /\ silent' \/ Has(toWindow', {"changed"})
    <2>1. CASE silent' /\ toWindow' = sent
      BY <1>5, <2>1
    <2>2. CASE toWindow' = Append(sent, a)
      BY <1>3, <1>5, <1>6, <2>2
    <2>3. ASSUME NEW c \in UITabs, toWindow' = Append(Append(sent, U!Event("tab-closed", c, Blank)), a)
          PROVE  /\ toWindow' \in Seq(Messages) /\ Updated(toWindow', currentTabId) /\ BlankWhenClosed(toWindow')
                 /\ Addressed(toWindow', urlBar, url[t]) /\ Tracks(toWindow', currentTabId, t)
                 /\ Has(toWindow', {"changed"})
      <3> DEFINE r == Append(sent, U!Event("tab-closed", c, Blank))
      <3>1. /\ r \in Seq(Messages) /\ Updated(r, currentTabId) /\ BlankWhenClosed(r)
            /\ Addressed(r, urlBar, url[t]) /\ Tracks(r, currentTabId, t)
        BY <1>4, <1>5, <1>6
      <3> HIDE DEF r
      <3>2. toWindow' = Append(r, a)
        BY <2>3 DEF r
      <3>3. QED
        BY <1>3, <1>6, <3>1, <3>2
    <2>4. QED
      BY <2>1, <2>2, <2>3 DEF a
  <1>8. WindowType'
    BY <1>1, <1>7 DEF WindowInv, WindowType, AnyTabs
  <1>9. CurrentFollows' /\ UpdatesReach'
    BY <1>7 DEF CurrentFollows, UpdatesReach
  <1>10. Target' = url[t]
    BY DEF Target
  <1>11. AddressFollows'
    BY <1>7, <1>10 DEF AddressFollows
  <1>12. BarFollows'
    <2>1. Has(toWindow', {"changed"}) => Has(toWindow', U!Refreshing)
      BY DEF Has, U!Refreshing
    <2>2. U!Refreshing' = U!Refreshing
      BY DEF U!Refreshing
    <2>3. QED
      BY <1>7, <2>1, <2>2 DEF BarFollows, Refreshes
  <1>13. QED
    BY <1>8, <1>9, <1>11, <1>12 DEF WindowInv

\* main answers with nothing that leads anywhere, and shows the tab it showed.
LEMMA AnsweredInv ==
  ASSUME WindowInv, windowTabs' \in Seq(UITabs), loading' \in [UITabs -> BOOLEAN], Settled' => Settled,
         UNCHANGED <<windowActiveTabId, url, silent, bar, currentTabId, urlBar, timers>>,
         windowActiveTabId # Nobody => windowActiveTabId \in ToSet(windowTabs'),
         NEW n \in Replies \cup Notices, NEW m \in Replies \cup Notices,
         toWindow' = Append(toWindow, m) \/ toWindow' = Append(Append(toWindow, n), m),
         toMain' \in Seq(Asks), Has(toMain, {"get-tabs"}) => Has(toMain', {"get-tabs"}),
         Has(toMain, {"navigate", "get-url"}) => Has(toMain', {"navigate", "get-url"}) \/ m.kind = "navigated",
         windowTabs' = windowTabs \/ m.kind = "changed"
  PROVE  WindowInv'
  <1> DEFINE Holds(s) ==
        /\ s \in Seq(Messages) /\ Updated(s, currentTabId) /\ BlankWhenClosed(s)
        /\ \A x, t : Tracks(toWindow, x, t) => Tracks(s, x, t)
        /\ \A x, v : Addressed(toWindow, x, v) => Addressed(s, x, v)
        /\ \A x, v : Barred(toWindow, x, v) => Barred(s, x, v)
        /\ \A kinds : Has(toWindow, kinds) => Has(s, kinds)
  <1>1. Holds(toWindow)
    BY DEF WindowInv, WindowType, UpdatesReach
  <1>2. ASSUME NEW s, Holds(s), NEW a \in Replies \cup Notices
        PROVE  Holds(Append(s, a)) /\ \A kinds : a.kind \in kinds => Has(Append(s, a), kinds)
    <2>1. s \in Seq(Messages) /\ Updated(s, currentTabId) /\ BlankWhenClosed(s)
      BY <1>2
    <2>2. /\ a \in Messages /\ Append(s, a) \in Seq(Messages)
          /\ Updated(Append(s, a), currentTabId) /\ BlankWhenClosed(Append(s, a))
          /\ \A x, t : Tracks(s, x, t) => Tracks(Append(s, a), x, t)
          /\ \A x, v : Addressed(s, x, v) => Addressed(Append(s, a), x, v)
          /\ \A x, v : Barred(s, x, v) => Barred(Append(s, a), x, v)
      BY <2>1, NoticedMore
    <2>3. \A kinds : Has(Append(s, a), kinds) <=> Has(s, kinds) \/ a.kind \in kinds
      BY <2>1, <2>2, HasAppend
    <2>4. QED
      BY <1>2, <2>2, <2>3
  <1>3. Holds(toWindow') /\ \A kinds : m.kind \in kinds => Has(toWindow', kinds)
    <2> HIDE DEF Holds
    <2>1. CASE toWindow' = Append(toWindow, m)
      BY <1>1, <1>2, <2>1
    <2>2. CASE toWindow' = Append(Append(toWindow, n), m)
      BY <1>1, <1>2, <2>2
    <2>3. QED
      BY <2>1, <2>2
  <1>4. WindowType'
    BY <1>3 DEF WindowInv, WindowType
  <1>5. CurrentFollows' /\ UpdatesReach'
    BY <1>3 DEF WindowInv, CurrentFollows, UpdatesReach
  <1>6. AddressFollows'
    <2> SUFFICES ASSUME Settled', ~Asking' PROVE Addressed(toWindow', urlBar, Target)
      BY DEF AddressFollows, Target
    <2>1. ~Asking
      BY <1>3 DEF Asking
    <2>2. QED
      BY <1>3, <2>1 DEF WindowInv, AddressFollows
  <1>7. BarFollows'
    <2> SUFFICES ASSUME ~silent, ~Refreshes' PROVE Barred(toWindow', bar, Shows')
      BY DEF BarFollows
    <2>1. U!Refreshing' = U!Refreshing /\ "changed" \in U!Refreshing
      BY DEF U!Refreshing
    <2>2. ~Has(toMain', {"get-tabs"}) /\ ~Has(toWindow', U!Refreshing)
      BY <2>1 DEF Refreshes
    <2>3. windowTabs' = windowTabs /\ ~Refreshes
      BY <1>3, <2>1, <2>2 DEF Refreshes
    <2>4. Shows' = Shows
      BY <2>3 DEF Shows
    <2>5. QED
      BY <1>3, <2>3, <2>4 DEF WindowInv, BarFollows
  <1>8. QED
    BY <1>4, <1>5, <1>6, <1>7 DEF WindowInv

LEMMA SameInWindow ==
  ASSUME NEW s, NEW x
  PROVE  U!ToSet(s) = ToSet(s) /\ U!RemoveFirst(s, x) = RemoveFirst(s, x) /\ U!Last(s) = Last(s)
  <1>1. U!ToSet(s) = ToSet(s) /\ U!Last(s) = Last(s)
    BY DEF U!ToSet, ToSet, U!Last, Last
  <1>2. \A i : U!RemoveAt(s, i) = RemoveAt(s, i)
    BY DEF U!RemoveAt, RemoveAt
  <1>3. U!SelectInSeq(s, LAMBDA v : v = x) = SelectInSeq(s, LAMBDA v : v = x)
    BY DEF U!SelectInSeq, SelectInSeq, U!Min, Min
  <1>4. QED
    BY <1>1, <1>2, <1>3 DEF U!RemoveFirst, RemoveFirst

\* What main answers with, told as messages of the sets above.
LEMMA AnswersAre ==
  ASSUME WindowInv, NEW t \in UITabs
  PROVE  /\ \A kind \in {"changed", "navigated", "moved"} : U!Ask(kind, Nobody) \in Replies /\ U!Ask(kind, Nobody).kind = kind
         /\ U!Event("tab-switched", t, url[t]) \in Messages
         /\ U!Event("tab-closed", t, Blank) \in Notices /\ U!Event("tab-title-updated", t, Blank) \in Notices
         /\ U!Event("all-tabs-closed", Nobody, Blank) \in Addresses
         /\ Replies \cup Notices \cup Addresses \subseteq Messages
  <1>1. url[t] \in AnyUrls
    BY DEF WindowInv, WindowType
  <1>2. U!Event("tab-switched", t, url[t]) \in Addresses
    BY <1>1 DEF U!Event, Addresses, AnyTabs
  <1>3. U!Event("tab-closed", t, Blank) \in Notices /\ U!Event("tab-title-updated", t, Blank) \in Notices
    BY DEF U!Event, Notices
  <1>4. U!Event("all-tabs-closed", Nobody, Blank) \in Addresses
    BY DEF U!Event, Addresses, AnyTabs, AnyUrls
  <1>5. \A kind \in {"changed", "navigated", "moved"} : U!Ask(kind, Nobody) \in Replies /\ U!Ask(kind, Nobody).kind = kind
    BY DEF U!Ask, Replies
  <1>6. QED
    BY <1>2, <1>3, <1>4, <1>5 DEF Messages

LEMMA RequestOf ==
  ASSUME WindowInv, NEW kind, U!Requested(kind)
  PROVE  /\ toMain # <<>> /\ Head(toMain).kind = kind /\ Tail(toMain) \in Seq(Asks)
         /\ kind \in {"create-tab", "switch-tab", "close-tab"} => U!Of \in UITabs
         /\ \A kinds : Has(toMain, kinds) /\ kind \notin kinds => Has(Tail(toMain), kinds)
  <1>1. toMain \in Seq(Asks) /\ toMain # <<>> /\ Head(toMain).kind = kind
    BY DEF WindowInv, WindowType, U!Requested
  <1>2. Tail(toMain) \in Seq(Asks) /\ Head(toMain) \in Asks
    BY <1>1, Shortened
  <1>3. kind \in {"create-tab", "switch-tab", "close-tab"} => U!Of \in UITabs
    BY <1>1, <1>2 DEF Asks, U!Of
  <1>4. \A kinds : Has(toMain, kinds) /\ kind \notin kinds => Has(Tail(toMain), kinds)
    BY <1>1, HasTail
  <1>5. QED
    BY <1>1, <1>2, <1>3, <1>4

LEMMA CreateKeeps == ASSUME WindowInv, Nobody \notin UITabs, U!CreateTab PROVE WindowInv'
  <1> DEFINE t == U!Of
             e == U!Event("tab-switched", t, url[t])
             a == U!Ask("changed", Nobody)
  <1>1. /\ windowTabs' = Append(windowTabs, t) /\ windowActiveTabId' = t /\ toMain' = Tail(toMain)
        /\ UNCHANGED <<url, loading, bar, currentTabId, urlBar, timers>>
        /\ toWindow' = toWindow \o <<e>> \o <<a>>
    BY DEF U!CreateTab, U!Answer, U!Switched, U!windowVars
  <1>2. t \in UITabs /\ toMain' \in Seq(Asks)
    BY <1>1, RequestOf DEF U!CreateTab
  <1>3. toWindow \in Seq(Messages) /\ windowTabs \in Seq(UITabs) /\ loading \in [UITabs -> BOOLEAN]
    BY DEF WindowInv, WindowType
  <1>4. e \in Messages /\ a \in Messages
    BY <1>2, AnswersAre
  <1>5. windowTabs' \in Seq(UITabs) /\ t \in ToSet(windowTabs')
    BY <1>1, <1>2, <1>3, OneMore, AppendProperties
  <1> HIDE DEF t, a, e
  <1>6. toWindow \o <<e>> \o <<a>> = Append(Append(toWindow, e), a)
    BY <1>3, <1>4, Joined
  <1>7. toWindow' = Append(Append(toWindow, U!Event("tab-switched", t, url[t])), U!Ask("changed", Nobody))
    BY <1>1, <1>6 DEF a, e
  <1>8. QED
    BY <1>1, <1>2, <1>3, <1>5, <1>7, SwitchedInv

LEMMA SwitchKeeps == ASSUME WindowInv, Nobody \notin UITabs, U!SwitchTab PROVE WindowInv'
  <1> DEFINE t == U!Of
             e == U!Event("tab-switched", t, url[t])
             a == U!Ask("changed", Nobody)
  <1>1. /\ IF t \in ToSet(windowTabs)
             THEN windowActiveTabId' = t /\ toWindow' = toWindow \o <<e>> \o <<a>>
             ELSE windowActiveTabId' = windowActiveTabId /\ toWindow' = toWindow \o <<>> \o <<a>>
        /\ toMain' = Tail(toMain)
        /\ UNCHANGED <<windowTabs, silent, url, loading, bar, currentTabId, urlBar, timers>>
    BY SameInWindow DEF U!SwitchTab, U!Answer, U!Switched, U!windowVars
  <1>2. t \in UITabs /\ toMain' \in Seq(Asks)
    BY <1>1, RequestOf DEF U!SwitchTab
  <1>3. \A kinds : Has(toMain, kinds) /\ "switch-tab" \notin kinds => Has(toMain', kinds)
    BY <1>1, RequestOf DEF U!SwitchTab
  <1>4. toWindow \in Seq(Messages) /\ windowTabs \in Seq(UITabs) /\ loading \in [UITabs -> BOOLEAN]
    BY DEF WindowInv, WindowType
  <1>5. e \in Messages /\ a \in Messages /\ a \in Replies /\ U!Event("tab-closed", t, Blank) \in Notices
    BY <1>2, AnswersAre
  <1> HIDE DEF t, a, e
  <1>6. toWindow \o <<e>> \o <<a>> = Append(Append(toWindow, e), a) /\ toWindow \o <<>> \o <<a>> = Append(toWindow, a)
    BY <1>4, <1>5, Joined
  <1>7. CASE t \in ToSet(windowTabs)
    <2>1. toWindow' = Append(Append(toWindow, U!Event("tab-switched", t, url[t])), U!Ask("changed", Nobody))
      BY <1>1, <1>6, <1>7 DEF a, e
    <2>2. windowActiveTabId' = t
      BY <1>1, <1>7
    <2>3. QED
      BY <1>1, <1>2, <1>4, <1>7, <2>1, <2>2, SwitchedInv
  <1>8. CASE t \notin ToSet(windowTabs)
    <2>1. toWindow' = Append(toWindow, a) /\ windowActiveTabId' = windowActiveTabId
      BY <1>1, <1>6, <1>8
    <2>2. Settled' = Settled
      BY <1>1, <2>1 DEF Settled
    <2>3. windowActiveTabId # Nobody => windowActiveTabId \in ToSet(windowTabs')
      BY <1>1 DEF WindowInv, WindowType
    <2>4. /\ Has(toMain, {"get-tabs"}) => Has(toMain', {"get-tabs"})
          /\ Has(toMain, {"navigate", "get-url"}) => Has(toMain', {"navigate", "get-url"})
      BY <1>3
    <2>5. QED
      BY <1>1, <1>2, <1>4, <1>5, <2>1, <2>2, <2>3, <2>4, AnsweredInv
  <1>9. QED
    BY <1>7, <1>8

\* The last tab is closed: there is no address.
LEMMA ClosedAllInv ==
  ASSUME WindowInv, Nobody \notin UITabs, NEW t \in UITabs,
         windowTabs' = <<>>, windowActiveTabId' = Nobody, toMain' \in Seq(Asks),
         UNCHANGED <<url, loading, silent, bar, currentTabId, urlBar, timers>>,
         toWindow' = Append(Append(Append(toWindow, U!Event("all-tabs-closed", Nobody, Blank)),
                                   U!Event("tab-closed", t, Blank)), U!Ask("changed", Nobody))
  PROVE  WindowInv'
  <1> DEFINE e == U!Event("all-tabs-closed", Nobody, Blank)
             n == U!Event("tab-closed", t, Blank)
             a == U!Ask("changed", Nobody)
             r == Append(toWindow, e)
             q == Append(r, n)
  <1>1. /\ toWindow \in Seq(Messages) /\ Updated(toWindow, currentTabId) /\ BlankWhenClosed(toWindow)
    BY DEF WindowInv, WindowType, UpdatesReach
  <1>2. e \in Addresses /\ n \in Replies \cup Notices /\ a \in Replies \cup Notices
    BY AnswersAre
  <1>3. e.kind # "tab-updated" /\ e.url = Blank /\ a.kind = "changed"
    BY DEF U!Event, U!Ask
  <1>4. toWindow' = Append(q, a)
    OBVIOUS
  <1> HIDE DEF e, n, a
  <1>5. /\ r \in Seq(Messages) /\ Updated(r, currentTabId) /\ BlankWhenClosed(r)
        /\ \A x : Addressed(r, x, e.url)
    BY <1>1, <1>2, <1>3, AddressedMore
  <1> HIDE DEF r
  <1>6. /\ q \in Seq(Messages) /\ Updated(q, currentTabId) /\ BlankWhenClosed(q)
        /\ \A x, v : Addressed(r, x, v) => Addressed(q, x, v)
    BY <1>2, <1>5, NoticedMore
  <1> HIDE DEF q
  <1>7. /\ a \in Messages /\ Append(q, a) \in Seq(Messages)
        /\ Updated(Append(q, a), currentTabId) /\ BlankWhenClosed(Append(q, a))
        /\ \A x, v : Addressed(q, x, v) => Addressed(Append(q, a), x, v)
    BY <1>2, <1>6, NoticedMore
  <1>8. Addressed(toWindow', urlBar, Blank)
    BY <1>3, <1>4, <1>5, <1>6, <1>7
  <1>9. Has(toWindow', {"changed"})
    <2>1. Has(Append(q, a), {"changed"}) <=> Has(q, {"changed"}) \/ a.kind \in {"changed"}
      BY <1>6, <1>7, HasAppend
    <2>2. QED
      BY <1>3, <1>4, <2>1
  <1>10. WindowType'
    <2>1. windowTabs' \in Seq(UITabs) /\ windowActiveTabId' \in AnyTabs
      BY EmptySeq DEF AnyTabs
    <2>2. /\ url' \in [UITabs -> AnyUrls] /\ loading' \in [UITabs -> BOOLEAN] /\ timers' \in Nat
      BY DEF WindowInv, WindowType
    <2>3. toWindow' \in Seq(Messages) /\ BlankWhenClosed(toWindow')
      BY <1>4, <1>7
    <2>4. QED
      BY <2>1, <2>2, <2>3 DEF WindowType
  <1>11. CurrentFollows' /\ UpdatesReach'
    BY <1>4, <1>7 DEF CurrentFollows, UpdatesReach
  <1>12. AddressFollows'
    BY <1>8 DEF AddressFollows, Target
  <1>13. BarFollows'
    <2>1. Has(toWindow', U!Refreshing')
      BY <1>9 DEF Has, U!Refreshing
    <2>2. QED
      BY <2>1 DEF BarFollows, Refreshes
  <1>14. QED
    BY <1>10, <1>11, <1>12, <1>13 DEF WindowInv

LEMMA CloseKeeps == ASSUME WindowInv, Nobody \notin UITabs, U!CloseTab PROVE WindowInv'
  <1> DEFINE t == U!Of
             rest == RemoveFirst(windowTabs, t)
             a == U!Ask("changed", Nobody)
             n == U!Event("tab-closed", t, Blank)
             all == U!Event("all-tabs-closed", Nobody, Blank)
             e == U!Event("tab-switched", Last(rest), url[Last(rest)])
  <1>1. /\ toMain' = Tail(toMain) /\ windowTabs' = rest
        /\ UNCHANGED <<silent, url, loading, bar, currentTabId, urlBar, timers>>
    BY SameInWindow DEF U!CloseTab, U!Answer, U!windowVars
  <1>2. \/ t \notin ToSet(windowTabs) /\ windowActiveTabId' = windowActiveTabId /\ toWindow' = toWindow \o <<>> \o <<a>>
        \/ /\ t \in ToSet(windowTabs) /\ windowActiveTabId # t /\ windowActiveTabId' = windowActiveTabId
           /\ toWindow' = toWindow \o <<n>> \o <<a>>
        \/ /\ t = windowActiveTabId /\ rest # <<>> /\ windowActiveTabId' = Last(rest)
           /\ toWindow' = toWindow \o (<<e>> \o <<n>>) \o <<a>>
        \/ /\ t = windowActiveTabId /\ rest = <<>> /\ windowActiveTabId' = Nobody
           /\ toWindow' = toWindow \o (<<all>> \o <<n>>) \o <<a>>
    <2>1. /\ U!ToSet(windowTabs) = ToSet(windowTabs) /\ U!RemoveFirst(windowTabs, t) = rest
          /\ U!Last(rest) = Last(rest)
      BY SameInWindow
    <2> HIDE DEF rest
    <2>2. CASE t \notin ToSet(windowTabs)
      <3>1. t \in UITabs
        BY RequestOf DEF U!CloseTab
      <3>2. t # windowActiveTabId
        BY <2>2, <3>1 DEF WindowInv, WindowType
      <3>3. UNCHANGED windowActiveTabId /\ U!Answer(<<>>, "changed")
        BY <2>1, <2>2, <3>2 DEF U!CloseTab
      <3>4. QED
        BY <2>2, <3>3 DEF U!Answer
    <2>3. CASE t \in ToSet(windowTabs) /\ windowActiveTabId # t
      BY <2>1, <2>3 DEF U!CloseTab, U!Answer
    <2>4. CASE t \in ToSet(windowTabs) /\ windowActiveTabId = t /\ rest # <<>>
      BY <2>1, <2>4 DEF U!CloseTab, U!Answer, U!Switched
    <2>5. CASE t \in ToSet(windowTabs) /\ windowActiveTabId = t /\ rest = <<>>
      BY <2>1, <2>5 DEF U!CloseTab, U!Answer
    <2>6. QED
      BY <2>2, <2>3, <2>4, <2>5
  <1>3. t \in UITabs /\ toMain' \in Seq(Asks)
    BY <1>1, RequestOf DEF U!CloseTab
  <1>4. /\ Has(toMain, {"get-tabs"}) => Has(toMain', {"get-tabs"})
        /\ Has(toMain, {"navigate", "get-url"}) => Has(toMain', {"navigate", "get-url"})
    <2>1. \A kinds : Has(toMain, kinds) /\ "close-tab" \notin kinds => Has(toMain', kinds)
      BY <1>1, RequestOf DEF U!CloseTab
    <2>2. QED
      BY <2>1
  <1>5. /\ toWindow \in Seq(Messages) /\ windowTabs \in Seq(UITabs) /\ loading \in [UITabs -> BOOLEAN]
        /\ windowActiveTabId # Nobody => windowActiveTabId \in ToSet(windowTabs)
    BY DEF WindowInv, WindowType
  <1>6. /\ n \in Messages /\ a \in Messages /\ all \in Messages /\ n \in Replies \cup Notices
        /\ a \in Replies \cup Notices /\ a.kind = "changed"
    BY <1>3, AnswersAre
  <1>7. rest \in Seq(UITabs) /\ \A x \in ToSet(windowTabs) : x # t => x \in ToSet(rest)
    <2>1. CASE t \in ToSet(windowTabs)
      BY <1>5, <2>1, OthersStay
    <2>2. CASE t \notin ToSet(windowTabs)
      <3>1. rest = windowTabs
        BY <1>5, <2>2, LenProperties DEF ToSet, RemoveFirst
      <3>2. QED
        BY <1>5, <3>1
    <2>3. QED
      BY <2>1, <2>2
  <1> HIDE DEF t, rest
  <1>8. Settled' = Settled \/ windowActiveTabId' # windowActiveTabId
    BY <1>1 DEF Settled
  <1>9. ASSUME windowActiveTabId' = windowActiveTabId,
               toWindow' = toWindow \o <<>> \o <<a>> \/ toWindow' = toWindow \o <<n>> \o <<a>>,
               windowActiveTabId # t \/ rest = windowTabs
        PROVE  WindowInv'
    <2> HIDE DEF n, a
    <2>1. toWindow \o <<n>> \o <<a>> = Append(Append(toWindow, n), a) /\ toWindow \o <<>> \o <<a>> = Append(toWindow, a)
      BY <1>5, <1>6, Joined
    <2>2. toWindow' = Append(toWindow, a) \/ toWindow' = Append(Append(toWindow, n), a)
      BY <1>9, <2>1
    <2>3. Settled' => Settled
      BY <1>8, <1>9
    <2>4. windowActiveTabId # Nobody => windowActiveTabId \in ToSet(windowTabs')
      BY <1>1, <1>5, <1>7, <1>9
    <2>5. windowTabs' \in Seq(UITabs) /\ loading' \in [UITabs -> BOOLEAN]
      BY <1>1, <1>5, <1>7
    <2>6. QED
      BY <1>1, <1>3, <1>4, <1>6, <1>9, <2>2, <2>3, <2>4, <2>5, AnsweredInv
  <1>10. CASE t \notin ToSet(windowTabs) /\ windowActiveTabId' = windowActiveTabId /\ toWindow' = toWindow \o <<>> \o <<a>>
    <2>1. windowActiveTabId # t
      BY <1>3, <1>5, <1>10
    <2>2. QED
      BY <1>9, <1>10, <2>1
  <1>11. CASE /\ t \in ToSet(windowTabs) /\ windowActiveTabId # t /\ windowActiveTabId' = windowActiveTabId
              /\ toWindow' = toWindow \o <<n>> \o <<a>>
    BY <1>9, <1>11
  <1>12. CASE /\ t = windowActiveTabId /\ rest # <<>> /\ windowActiveTabId' = Last(rest)
              /\ toWindow' = toWindow \o (<<e>> \o <<n>>) \o <<a>>
    <2>1. Last(rest) \in UITabs /\ Last(rest) \in ToSet(rest)
      BY <1>7, <1>12, LastOf
    <2>2. e \in Messages
      BY <2>1, AnswersAre
    <2> HIDE DEF n, a, e
    <2>3. toWindow \o (<<e>> \o <<n>>) \o <<a>> = Append(Append(Append(toWindow, e), n), a)
      BY <1>5, <1>6, <2>2, Joined
    <2> DEFINE sent == Append(toWindow, U!Event("tab-switched", Last(rest), url[Last(rest)]))
    <2>4. toWindow' = Append(Append(sent, U!Event("tab-closed", t, Blank)), U!Ask("changed", Nobody))
      BY <1>12, <2>3 DEF n, a, e
    <2>5. windowTabs' \in Seq(UITabs) /\ loading' \in [UITabs -> BOOLEAN] /\ Last(rest) \in ToSet(windowTabs')
          /\ windowActiveTabId' = Last(rest)
      BY <1>1, <1>5, <1>7, <1>12, <2>1
    <2>6. QED
      BY <1>1, <1>3, <2>1, <2>4, <2>5, SwitchedInv
  <1>13. CASE /\ t = windowActiveTabId /\ rest = <<>> /\ windowActiveTabId' = Nobody
              /\ toWindow' = toWindow \o (<<all>> \o <<n>>) \o <<a>>
    <2> HIDE DEF n, a, all
    <2>1. toWindow \o (<<all>> \o <<n>>) \o <<a>> = Append(Append(Append(toWindow, all), n), a)
      BY <1>5, <1>6, Joined
    <2>2. toWindow' = Append(Append(Append(toWindow, U!Event("all-tabs-closed", Nobody, Blank)),
                                    U!Event("tab-closed", t, Blank)), U!Ask("changed", Nobody))
      BY <1>13, <2>1 DEF n, a, all
    <2>3. windowTabs' = <<>> /\ windowActiveTabId' = Nobody
      BY <1>1, <1>13
    <2>4. QED
      BY <1>1, <1>3, <2>2, <2>3, ClosedAllInv
  <1>14. QED
    BY <1>2, <1>10, <1>11, <1>12, <1>13

LEMMA MoveKeeps == ASSUME WindowInv, Nobody \notin UITabs, U!MoveActive PROVE WindowInv'
  <1> DEFINE kind == IF U!Requested("navigate") THEN "navigated" ELSE "moved"
             a == U!Ask(kind, Nobody)
  <1>1. /\ toMain' = Tail(toMain) /\ toWindow' = toWindow \o <<>> \o <<a>>
        /\ UNCHANGED <<windowTabs, windowActiveTabId, silent, url, bar, currentTabId, urlBar, timers>>
        /\ UNCHANGED loading \/ (windowActiveTabId # Nobody /\ loading' = [loading EXCEPT ![windowActiveTabId] = TRUE])
    BY DEF U!MoveActive, U!Answer, U!windowVars
  <1>2. /\ toWindow \in Seq(Messages) /\ windowTabs \in Seq(UITabs) /\ loading \in [UITabs -> BOOLEAN]
        /\ windowActiveTabId # Nobody => windowActiveTabId \in ToSet(windowTabs)
        /\ windowActiveTabId \in AnyTabs
    BY DEF WindowInv, WindowType
  <1>3. a \in Replies /\ a.kind = kind /\ a \in Messages
    BY DEF U!Ask, Replies, Messages
  <1>4. /\ toMain' \in Seq(Asks)
        /\ Has(toMain, {"get-tabs"}) => Has(toMain', {"get-tabs"})
        /\ Has(toMain, {"navigate", "get-url"}) => Has(toMain', {"navigate", "get-url"}) \/ a.kind = "navigated"
    <2>1. CASE U!Requested("navigate")
      BY <1>1, <1>3, <2>1, RequestOf
    <2>2. CASE U!Requested("move")
      BY <1>1, <1>3, <2>2, RequestOf
    <2>3. QED
      BY <2>1, <2>2 DEF U!MoveActive
  <1> HIDE DEF a, kind
  <1>5. toWindow' = Append(toWindow, a)
    BY <1>1, <1>2, <1>3, Joined
  <1>6. loading' \in [UITabs -> BOOLEAN] /\ (Settled' => Settled)
    BY <1>1, <1>2 DEF Settled
  <1>7. a \in Replies \cup Notices
    BY <1>3
  <1>8. /\ windowTabs' \in Seq(UITabs) /\ windowTabs' = windowTabs
        /\ windowActiveTabId # Nobody => windowActiveTabId \in ToSet(windowTabs')
        /\ UNCHANGED <<windowActiveTabId, url, silent, bar, currentTabId, urlBar, timers>>
    BY <1>1, <1>2
  <1>9. QED
    BY <1>4, <1>5, <1>6, <1>7, <1>8, AnsweredInv

\* main sends the address of the tab on show.
LEMMA ToldInv ==
  ASSUME WindowInv, NEW m \in Addresses, m.kind \in {"url", "tab-updated"}, toWindow' = Append(toWindow, m),
         m.kind = "tab-updated" => windowActiveTabId # Nobody /\ m.tab = windowActiveTabId,
         UNCHANGED <<windowTabs, windowActiveTabId, silent, bar, currentTabId, urlBar, timers>>,
         url' \in [UITabs -> AnyUrls], loading' \in [UITabs -> BOOLEAN], Target' = m.url,
         toMain' \in Seq(Asks), Has(toMain, {"get-tabs"}) => Has(toMain', {"get-tabs"})
  PROVE  WindowInv'
  <1>1. toWindow \in Seq(Messages) /\ Updated(toWindow, currentTabId) /\ BlankWhenClosed(toWindow)
    BY DEF WindowInv, WindowType, UpdatesReach
  <1>2. m.kind # "tab-switched" /\ m.kind # "all-tabs-closed"
    OBVIOUS
  <1>3. m.kind = "tab-updated" => Tracks(toWindow, currentTabId, m.tab)
    BY DEF WindowInv, CurrentFollows
  <1>4. /\ m \in Messages /\ toWindow' \in Seq(Messages)
        /\ Updated(toWindow', currentTabId) /\ BlankWhenClosed(toWindow')
        /\ \A x : Addressed(toWindow', x, m.url)
        /\ \A x, v : Barred(toWindow, x, v) => Barred(toWindow', x, v)
        /\ \A x, t : Tracks(toWindow, x, t) => Tracks(toWindow', x, t)
    BY <1>1, <1>2, <1>3, AddressedMore
  <1>5. WindowType'
    BY <1>4 DEF WindowInv, WindowType
  <1>6. CurrentFollows' /\ UpdatesReach'
    BY <1>4 DEF WindowInv, CurrentFollows, UpdatesReach
  <1>7. AddressFollows'
    BY <1>4 DEF AddressFollows
  <1>8. BarFollows'
    <2>1. Shows' = Shows /\ U!Refreshing' = U!Refreshing
      BY DEF Shows, U!Refreshing
    <2>2. \A kinds : Has(toWindow, kinds) => Has(toWindow', kinds)
      BY <1>1, <1>4, HasAppend
    <2>3. Refreshes => Refreshes'
      BY <2>1, <2>2 DEF Refreshes
    <2>4. QED
      BY <1>4, <2>1, <2>3 DEF WindowInv, BarFollows
  <1>9. QED
    BY <1>5, <1>6, <1>7, <1>8 DEF WindowInv

LEMMA GetUrlKeeps == ASSUME WindowInv, Nobody \notin UITabs, U!GetUrl PROVE WindowInv'
  <1> DEFINE m == U!Event("url", Nobody, Target)
  <1>1. /\ toMain' = Tail(toMain) /\ toWindow' = Append(toWindow, m) /\ U!Requested("get-url")
        /\ UNCHANGED <<windowTabs, windowActiveTabId, silent, url, loading, bar, currentTabId, urlBar, timers>>
    BY DEF U!GetUrl, U!mainVars, U!windowVars, Target
  <1>2. /\ url \in [UITabs -> AnyUrls] /\ loading \in [UITabs -> BOOLEAN] /\ windowActiveTabId \in AnyTabs
    BY DEF WindowInv, WindowType
  <1>3. Target \in AnyUrls /\ Target' = Target
    BY <1>1, <1>2 DEF Target, AnyUrls, AnyTabs
  <1>4. m \in Addresses /\ m.kind = "url" /\ m.url = Target
    BY <1>3 DEF U!Event, Addresses, AnyTabs
  <1>5. toMain' \in Seq(Asks) /\ (Has(toMain, {"get-tabs"}) => Has(toMain', {"get-tabs"}))
    BY <1>1, RequestOf
  <1> HIDE DEF m
  <1>6. QED
    BY <1>1, <1>2, <1>3, <1>4, <1>5, ToldInv

LEMMA GetTabsKeeps == ASSUME WindowInv, U!GetTabs PROVE WindowInv'
  <1> DEFINE m == Shows
  <1>1. /\ toMain' = Tail(toMain) /\ toWindow' = Append(toWindow, m) /\ U!Requested("get-tabs")
        /\ UNCHANGED <<windowTabs, windowActiveTabId, url, loading, bar, currentTabId, urlBar, timers>>
    BY DEF U!GetTabs, U!mainVars, U!windowVars, Shows
  <1>2. /\ toWindow \in Seq(Messages) /\ Updated(toWindow, currentTabId) /\ BlankWhenClosed(toWindow)
    BY DEF WindowInv, WindowType, UpdatesReach
  <1>3. m \in Bars /\ m.active = windowActiveTabId
    BY DEF Shows, U!Bar, Bars, WindowInv, WindowType
  <1>4. Shows' = m
    BY <1>1 DEF Shows
  <1> HIDE DEF m
  <1>5. /\ m \in Messages /\ toWindow' \in Seq(Messages)
        /\ Updated(toWindow', currentTabId) /\ BlankWhenClosed(toWindow')
        /\ \A x : Barred(toWindow', x, m)
        /\ \A x, v : Addressed(toWindow, x, v) => Addressed(toWindow', x, v)
        /\ m.active # Nobody => \A x : Tracks(toWindow', x, m.active)
    BY <1>1, <1>2, <1>3, BarredMore
  <1>6. toMain' \in Seq(Asks) /\ (Has(toMain, {"navigate", "get-url"}) => Has(toMain', {"navigate", "get-url"}))
    BY <1>1, RequestOf
  <1>7. WindowType'
    BY <1>1, <1>5, <1>6 DEF WindowInv, WindowType
  <1>8. CurrentFollows' /\ UpdatesReach'
    BY <1>1, <1>3, <1>5 DEF CurrentFollows, UpdatesReach
  <1>9. AddressFollows'
    <2>1. Settled' = Settled /\ Target' = Target
      BY <1>1 DEF Settled, Target
    <2>2. \A kinds : Has(toWindow, kinds) => Has(toWindow', kinds)
      BY <1>1, <1>2, <1>5, HasAppend
    <2>3. Asking => Asking'
      BY <1>1, <1>6, <2>2 DEF Asking
    <2>4. QED
      BY <1>1, <1>5, <2>1, <2>3 DEF WindowInv, AddressFollows
  <1>10. BarFollows'
    BY <1>4, <1>5 DEF BarFollows
  <1>11. QED
    BY <1>7, <1>8, <1>9, <1>10 DEF WindowInv

LEMMA OwnKeeps == ASSUME WindowInv, Nobody \notin UITabs, NEW t \in UITabs, U!OwnTab(t) PROVE WindowInv'
  <1> DEFINE e == U!Event("tab-switched", t, url[t])
  <1>1. /\ windowTabs' = Append(windowTabs, t) /\ windowActiveTabId' = t
        /\ UNCHANGED loading \/ loading' = [loading EXCEPT ![t] = TRUE]
        /\ toWindow' = toWindow \o <<e>> /\ silent'
        /\ UNCHANGED <<url, toMain, bar, currentTabId, urlBar, timers>>
    BY DEF U!OwnTab, U!Switched, U!windowVars
  <1>2. /\ toWindow \in Seq(Messages) /\ windowTabs \in Seq(UITabs) /\ loading \in [UITabs -> BOOLEAN]
        /\ toMain' \in Seq(Asks)
    BY <1>1 DEF WindowInv, WindowType
  <1>3. e \in Messages
    BY AnswersAre
  <1>4. windowTabs' \in Seq(UITabs) /\ t \in ToSet(windowTabs') /\ loading' \in [UITabs -> BOOLEAN]
    <2>1. windowTabs' \in Seq(UITabs)
      BY <1>1, <1>2, AppendProperties
    <2>2. t \in ToSet(windowTabs')
      BY <1>1, <1>2, OneMore
    <2>3. loading' \in [UITabs -> BOOLEAN]
      BY <1>1, <1>2
    <2>4. QED
      BY <2>1, <2>2, <2>3
  <1> HIDE DEF e
  <1>5. toWindow \o <<e>> = Append(toWindow, e)
    BY <1>2, <1>3, Joined
  <1>6. toWindow' = Append(toWindow, U!Event("tab-switched", t, url[t]))
    BY <1>1, <1>5 DEF e
  <1>7. QED
    BY <1>1, <1>2, <1>4, <1>6, SwitchedInv

\* Nothing is sent, and the address on show stays.
LEMMA QuietInv ==
  ASSUME WindowInv, UNCHANGED <<windowTabs, windowActiveTabId, silent, bar, currentTabId, urlBar, timers, toMain, toWindow>>,
         url' \in [UITabs -> AnyUrls], loading' \in [UITabs -> BOOLEAN], Target' = Target, Settled' => Settled
  PROVE  WindowInv'
  <1>1. WindowType'
    BY DEF WindowInv, WindowType
  <1>2. CurrentFollows' /\ UpdatesReach'
    BY DEF WindowInv, CurrentFollows, UpdatesReach
  <1>3. Asking' = Asking /\ Refreshes' = Refreshes /\ Shows' = Shows
    BY DEF Asking, Refreshes, U!Refreshing, Shows
  <1>4. AddressFollows'
    BY <1>3 DEF WindowInv, AddressFollows
  <1>5. BarFollows'
    BY <1>3 DEF WindowInv, BarFollows
  <1>6. QED
    BY <1>1, <1>2, <1>4, <1>5 DEF WindowInv

LEMMA PageKeeps == ASSUME WindowInv, NEW t \in UITabs, U!PageMoves(t) PROVE WindowInv'
  <1> DEFINE m == U!Event("tab-title-updated", t, Blank)
  <1>1. /\ \/ loading' = [loading EXCEPT ![t] = TRUE] /\ UNCHANGED toWindow
           \/ toWindow' = Append(toWindow, m) /\ UNCHANGED loading
        /\ UNCHANGED <<windowTabs, windowActiveTabId, url, silent, bar, currentTabId, urlBar, timers, toMain>>
    BY DEF U!PageMoves, U!windowVars
  <1>2. /\ url \in [UITabs -> AnyUrls] /\ loading \in [UITabs -> BOOLEAN] /\ windowActiveTabId \in AnyTabs
        /\ windowTabs \in Seq(UITabs) /\ toMain \in Seq(Asks)
        /\ windowActiveTabId # Nobody => windowActiveTabId \in ToSet(windowTabs)
    BY DEF WindowInv, WindowType
  <1>3. /\ Target' = Target /\ (Settled' => Settled)
        /\ url' \in [UITabs -> AnyUrls] /\ loading' \in [UITabs -> BOOLEAN]
    <2>1. Target' = Target /\ url' \in [UITabs -> AnyUrls]
      BY <1>1, <1>2 DEF Target
    <2>2. CASE UNCHANGED loading
      BY <1>1, <1>2, <2>1, <2>2 DEF Settled
    <2>3. CASE loading' = [loading EXCEPT ![t] = TRUE]
      <3>1. loading' \in [UITabs -> BOOLEAN]
        BY <1>2, <2>3
      <3>2. Settled' => Settled
        BY <1>1, <1>2, <2>3 DEF Settled, AnyTabs
      <3>3. QED
        BY <2>1, <3>1, <3>2
    <2>4. QED
      BY <1>1, <2>2, <2>3
  <1>4. m \in Replies \cup Notices
    BY AnswersAre
  <1> HIDE DEF m
  <1>5. CASE UNCHANGED toWindow
    BY <1>1, <1>3, <1>5, QuietInv
  <1>6. CASE toWindow' = Append(toWindow, m)
    <2>1. /\ windowTabs' \in Seq(UITabs) /\ windowTabs' = windowTabs /\ toMain' \in Seq(Asks) /\ toMain' = toMain
          /\ windowActiveTabId # Nobody => windowActiveTabId \in ToSet(windowTabs')
          /\ UNCHANGED <<windowActiveTabId, url, silent, bar, currentTabId, urlBar, timers>>
      BY <1>1, <1>2
    <2>2. QED
      BY <1>3, <1>4, <1>6, <2>1, AnsweredInv
  <1>7. QED
    BY <1>1, <1>5, <1>6

LEMMA StopKeeps == ASSUME WindowInv, Nobody \notin UITabs, NEW t \in UITabs, U!StopLoading(t) PROVE WindowInv'
  <1>1. PICK u \in Urls :
          /\ url' = [url EXCEPT ![t] = u] /\ loading' = [loading EXCEPT ![t] = FALSE]
          /\ toWindow' = IF t = windowActiveTabId THEN Append(toWindow, U!Event("tab-updated", t, u)) ELSE toWindow
          /\ UNCHANGED <<windowTabs, windowActiveTabId, silent, bar, currentTabId, urlBar, timers, toMain>>
    BY DEF U!StopLoading, U!Tells, U!windowVars
  <1>2. /\ url \in [UITabs -> AnyUrls] /\ loading \in [UITabs -> BOOLEAN] /\ windowActiveTabId \in AnyTabs
        /\ toMain \in Seq(Asks)
    BY DEF WindowInv, WindowType
  <1>3. url' \in [UITabs -> AnyUrls] /\ loading' \in [UITabs -> BOOLEAN] /\ u \in AnyUrls
    BY <1>1, <1>2 DEF AnyUrls
  <1>4. CASE t = windowActiveTabId
    <2> DEFINE m == U!Event("tab-updated", t, u)
    <2>1. m \in Addresses /\ m.kind = "tab-updated" /\ m.url = u /\ m.tab = t
      BY <1>3 DEF U!Event, Addresses, AnyTabs
    <2>2. Target' = u
      BY <1>1, <1>2, <1>4 DEF Target
    <2>3. toWindow' = Append(toWindow, m)
      BY <1>1, <1>4
    <2> HIDE DEF m
    <2>4. m.kind = "tab-updated" => windowActiveTabId # Nobody /\ m.tab = windowActiveTabId
      BY <1>4, <2>1
    <2>5. toMain' \in Seq(Asks) /\ toMain' = toMain
      BY <1>1, <1>2
    <2>6. QED
      BY <1>1, <1>3, <2>1, <2>2, <2>3, <2>4, <2>5, ToldInv
  <1>5. CASE t # windowActiveTabId
    <2>1. Target' = Target
      BY <1>1, <1>2, <1>5 DEF Target, AnyTabs
    <2>2. Settled' => Settled
      BY <1>1, <1>2, <1>5 DEF Settled, AnyTabs
    <2>3. QED
      BY <1>1, <1>3, <1>5, <2>1, <2>2, QuietInv
  <1>6. QED
    BY <1>4, <1>5

\* Every step keeps the invariant.
LEMMA WindowStays == ASSUME Nobody \notin UITabs, WindowInv, [U!Next]_(U!vars) PROVE WindowInv'
  <1>1. CASE UNCHANGED U!vars
    <2>1. UNCHANGED <<windowTabs, windowActiveTabId, silent, bar, currentTabId, urlBar, timers, toMain, toWindow, url, loading>>
      BY <1>1 DEF U!vars, U!mainVars, U!windowVars
    <2>2. Target' = Target /\ Settled' = Settled
      BY <2>1 DEF Target, Settled
    <2>3. url' \in [UITabs -> AnyUrls] /\ loading' \in [UITabs -> BOOLEAN]
      BY <2>1 DEF WindowInv, WindowType
    <2>4. QED
      BY <2>1, <2>2, <2>3, QuietInv
  <1>2. CASE U!Main
    BY <1>2, CreateKeeps, SwitchKeeps, CloseKeeps, MoveKeeps, GetUrlKeeps, GetTabsKeeps DEF U!Main
  <1>3. CASE U!Renderer
    BY <1>3, RendererKeeps
  <1>4. CASE (\E t \in UITabs : U!NewTab(t) \/ U!ClickTab(t)) \/ U!Navigate \/ U!Buttons
    BY <1>4, UserKeeps
  <1>5. ASSUME NEW t \in UITabs, U!OwnTab(t) \/ U!PageMoves(t) \/ U!StopLoading(t) PROVE WindowInv'
    BY <1>5, OwnKeeps, PageKeeps, StopKeeps
  <1>6. QED
    BY <1>1, <1>2, <1>3, <1>4, <1>5 DEF U!Next

LEMMA WindowStarts == ASSUME U!Init PROVE WindowInv
  <1>1. /\ windowTabs = <<>> /\ windowActiveTabId = Nobody /\ toWindow = <<>> /\ timers = 0
        /\ url = [t \in UITabs |-> Blank] /\ loading = [t \in UITabs |-> FALSE]
        /\ toMain = <<U!Ask("get-tabs", Nobody)>> /\ urlBar = Blank
    BY DEF U!Init
  <1>2. U!Ask("get-tabs", Nobody) \in Asks /\ U!Ask("get-tabs", Nobody).kind = "get-tabs"
    BY DEF U!Ask, Asks
  <1>3. DOMAIN toWindow = {} /\ toWindow \in Seq(Messages) /\ windowTabs \in Seq(UITabs)
    BY <1>1, EmptySeq
  <1>4. toMain \in Seq(Asks) /\ 1 \in DOMAIN toMain /\ toMain[1].kind = "get-tabs"
    BY <1>1, <1>2
  <1>5. WindowType
    BY <1>1, <1>3, <1>4 DEF WindowType, AnyTabs, AnyUrls, BlankWhenClosed
  <1>6. CurrentFollows /\ UpdatesReach
    BY <1>1, <1>3 DEF CurrentFollows, UpdatesReach, Updated
  <1>7. AddressFollows
    BY <1>1, <1>3 DEF AddressFollows, Addressed, Ends, Target
  <1>8. BarFollows
    BY <1>4 DEF BarFollows, Refreshes, Has
  <1>9. QED
    BY <1>5, <1>6, <1>7, <1>8 DEF WindowInv

\* With nothing on its way the window shows what is.
LEMMA WindowShows == ASSUME WindowInv PROVE WindowIsHonest
  <1> SUFFICES ASSUME U!Idle PROVE U!AddressIsHonest /\ U!BarIsHonest
    BY DEF WindowIsHonest, U!WindowIsHonest, U!AddressIsHonest, U!BarIsHonest
  <1>1. DOMAIN toMain = {} /\ DOMAIN toWindow = {} /\ ~(timers > 0)
    BY EmptySeq DEF U!Idle
  <1>2. ~Asking /\ ~Refreshes
    BY <1>1 DEF Asking, Refreshes, Has
  <1>3. windowActiveTabId # Nobody => currentTabId = windowActiveTabId
    BY <1>1 DEF WindowInv, CurrentFollows, Tracks, Ends
  <1>4. Settled => urlBar = Target
    BY <1>1, <1>2 DEF WindowInv, AddressFollows, Addressed, Ends
  <1>5. ~silent => bar = Shows
    BY <1>1, <1>2 DEF WindowInv, BarFollows, Barred, Ends
  <1>6. U!AddressIsHonest
    BY <1>3, <1>4 DEF U!AddressIsHonest, Settled, Target
  <1>7. U!BarIsHonest
    BY <1>5 DEF U!BarIsHonest, Shows
  <1>8. QED
    BY <1>6, <1>7

\* With nothing under way the address bar shows the address of the tab on show
\* and the tab bar the tabs that are open, in whatever order the messages of
\* browser/main.js and the answers to browser/renderer.js were sent and taken.
THEOREM SpecWindowIsHonest == ASSUME Nobody \notin UITabs PROVE U!Spec => []WindowIsHonest
  <1>1. U!Init => WindowInv
    BY WindowStarts
  <1>2. WindowInv /\ [U!Next]_(U!vars) => WindowInv'
    BY WindowStays
  <1>3. WindowInv => WindowIsHonest
    BY WindowShows
  <1>4. QED
    BY <1>1, <1>2, <1>3, PTL DEF U!Spec

===============================================================================
