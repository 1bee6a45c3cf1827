------------------------------ MODULE AppsProofs ------------------------------
(***************************************************************************)
(* Theorems about the rate limiter and, as MCApps instantiates them, about *)
(* the rating of a file (R), the servers that the VPN client keeps (S),    *)
(* its audit (U), the players with their editor of subtitles (P) and the   *)
(* file viewer (V), for all values of their constants.                     *)
(***************************************************************************)
EXTENDS MCApps, FiniteSetTheorems, SequenceTheorems, WellFoundedInduction, TLAPS

-----------------------------------------------------------------------------
(* The rating of a file: a report is one of the file on show, and a case   *)
(* distinction over what the file may be says the rest.                    *)

RatingInv == file \in R!Files /\ (report = R!NoReport \/ report = R!Report(file))

\* What a condition adds to the score.
LEMMA PointsCount ==
  ASSUME NEW yes \in BOOLEAN, NEW n \in Nat
  PROVE  /\ R!Points(yes, n) \in {0, n} /\ R!Points(yes, n) \in Nat
         /\ yes => R!Points(yes, n) = n
         /\ ~yes => R!Points(yes, n) = 0
  BY DEF R!Points

\* A warning is there when its condition is.
LEMMA WarningsOf ==
  ASSUME NEW f
  PROVE  /\ "extension" \in R!BuildWarnings(f) <=> f.extension \in R!RiskyExtensions
         /\ "double" \in R!BuildWarnings(f) <=> f.double
         /\ "signature" \in R!BuildWarnings(f) <=> f.signature \in R!Executables
         /\ "active" \in R!BuildWarnings(f) <=> f.extension \in R!ActiveExtensions
         /\ "unknown" \in R!BuildWarnings(f) <=> f.signature = "Unknown" /\ f.size # "none"
         /\ "entropy" \in R!BuildWarnings(f) <=> f.dense /\ f.size = "large"
         /\ R!BuildWarnings(f) \subseteq {"extension", "double", "signature", "active", "unknown", "entropy"}
  BY DEF R!BuildWarnings

\* The group of a file, by its signature.
LEMMA GroupOf ==
  ASSUME NEW f \in R!Files
  PROVE  /\ R!ClassifyFile(f) = "image" <=> f.signature \in R!Images /\ f.extension # ".svg"
         /\ R!ClassifyFile(f) = "video" <=> f.signature \in R!Videos
         /\ R!ClassifyFile(f) = "audio" <=> f.signature \in R!Audios
         /\ R!ClassifyFile(f) = "archive" <=> f.signature \in R!Archives
         /\ R!ClassifyFile(f) = "executable" <=> f.signature \in R!Executables
  <1> USE DEF R!Images, R!Videos, R!Audios, R!Archives, R!Executables, R!Documents
  <1>1. f.signature \in R!Images /\ f.extension # ".svg" => R!ClassifyFile(f) = "image"
    BY DEF R!ClassifyFile
  <1>2. f.signature \in R!Videos => R!ClassifyFile(f) = "video"
    BY DEF R!ClassifyFile
  <1>3. f.signature \in R!Audios => R!ClassifyFile(f) = "audio"
    BY DEF R!ClassifyFile
  <1>4. f.signature \in R!Documents => R!ClassifyFile(f) = "document"
    BY DEF R!ClassifyFile
  <1>5. f.signature \in R!Archives => R!ClassifyFile(f) = "archive"
    BY DEF R!ClassifyFile
  <1>6. f.signature \in R!Executables => R!ClassifyFile(f) = "executable"
    BY DEF R!ClassifyFile
  <1>7. f.signature \in {"Ogg", "SQLite", "Unknown"} => R!ClassifyFile(f) \in {"text", "binary"}
    BY DEF R!ClassifyFile
  <1>8. f.signature \in R!Images /\ ~(f.extension # ".svg") => R!ClassifyFile(f) \in {"text", "binary"}
    BY DEF R!ClassifyFile
  <1>9. f.signature \in R!Signatures
    BY DEF R!Files
  <1>10. CASE f.signature \in R!Images
    BY <1>1, <1>8, <1>10
  <1>11. CASE f.signature \in R!Videos \cup R!Audios \cup R!Documents
    BY <1>2, <1>3, <1>4, <1>11
  <1>12. CASE f.signature \in R!Archives \cup R!Executables
    BY <1>5, <1>6, <1>12
  <1>13. CASE f.signature \in {"Ogg", "SQLite", "Unknown"}
    BY <1>7, <1>13
  <1>14. QED
    BY <1>9, <1>10, <1>11, <1>12, <1>13 DEF R!Signatures

\* The MIME type of a file that is rendered as media.
LEMMA MimeOf ==
  ASSUME NEW f \in R!Files
  PROVE  /\ f.signature \in R!Images => R!DetectMimeType(f) = "image"
         /\ f.signature \in R!Videos => R!DetectMimeType(f) = "video"
         /\ f.signature \in R!Audios => R!DetectMimeType(f) = "audio"
  BY DEF R!DetectMimeType, R!Images, R!Videos, R!Audios, R!Archives, R!Documents

\* The score of a file, as a sum of numbers that its conditions decide.
LEMMA ScoreOf ==
  ASSUME NEW f \in R!Files
  PROVE  /\ R!RawScore(f) \in Nat
         /\ f.signature \in R!Executables => R!RawScore(f) >= 75
         /\ f.extension \in R!RiskyExtensions => R!RawScore(f) >= 15
         /\ R!BuildWarnings(f) = {} => R!RawScore(f) < 75
         /\ R!BuildWarnings(f) # {} => R!RawScore(f) >= 15
  <1> DEFINE executable == R!Points(R!ClassifyFile(f) = "executable", 85)
             archive == R!Points(R!ClassifyFile(f) = "archive", 25)
             unknown == R!Points(f.signature = "Unknown", 18)
             dense == R!Points(f.dense, 15)
             active == R!Points(f.extension \in R!ActiveExtensions, 30)
             wExtension == R!Points("extension" \in R!BuildWarnings(f), 35)
             wSignature == R!Points("signature" \in R!BuildWarnings(f), 35)
             wDouble == R!Points("double" \in R!BuildWarnings(f), 25)
             wEntropy == R!Points("entropy" \in R!BuildWarnings(f), 12)
             wActive == R!Points("active" \in R!BuildWarnings(f), 8)
             wUnknown == R!Points("unknown" \in R!BuildWarnings(f), 8)
  <1>1. R!RawScore(f) = executable + archive + unknown + dense + active + wExtension + wSignature
                          + wDouble + wEntropy + wActive + wUnknown
    BY DEF R!RawScore
  <1>2. f.dense \in BOOLEAN /\ f.double \in BOOLEAN
    BY DEF R!Files
  <1>3. /\ executable \in {0, 85} /\ archive \in {0, 25} /\ unknown \in {0, 18} /\ dense \in {0, 15}
        /\ active \in {0, 30} /\ wExtension \in {0, 35} /\ wSignature \in {0, 35}
        /\ wDouble \in {0, 25} /\ wEntropy \in {0, 12} /\ wActive \in {0, 8} /\ wUnknown \in {0, 8}
    BY <1>2 DEF R!Points
  <1>4. f.signature \in R!Executables => executable = 85
    BY GroupOf DEF R!Points
  <1>5. f.extension \in R!RiskyExtensions => wExtension = 35
    BY WarningsOf DEF R!Points
  <1>6. R!BuildWarnings(f) = {} =>
          /\ executable = 0 /\ active = 0
          /\ wExtension = 0 /\ wSignature = 0 /\ wDouble = 0 /\ wEntropy = 0 /\ wActive = 0 /\ wUnknown = 0
    BY GroupOf, WarningsOf DEF R!Points
  <1>7. R!BuildWarnings(f) # {} =>
          \/ wExtension = 35 \/ wSignature = 35 \/ wDouble = 25 \/ active = 30 \/ unknown = 18
          \/ dense = 15
    <2> SUFFICES ASSUME NEW w \in R!BuildWarnings(f)
                 PROVE  \/ wExtension = 35 \/ wSignature = 35 \/ wDouble = 25 \/ active = 30
                        \/ unknown = 18 \/ dense = 15
      OBVIOUS
    <2>1. w \in {"extension", "double", "signature", "active", "unknown", "entropy"}
      BY WarningsOf
    <2>2. QED
      BY <2>1, WarningsOf DEF R!Points
  <1> HIDE DEF executable, archive, unknown, dense, active, wExtension, wSignature, wDouble,
               wEntropy, wActive, wUnknown
  <1>8. R!RawScore(f) \in Nat
    BY <1>1, <1>3
  <1>9. ASSUME f.signature \in R!Executables PROVE R!RawScore(f) >= 75
    BY <1>1, <1>3, <1>4, <1>9
  <1>10. ASSUME f.extension \in R!RiskyExtensions PROVE R!RawScore(f) >= 15
    BY <1>1, <1>3, <1>5, <1>10
  <1>11. ASSUME R!BuildWarnings(f) = {} PROVE R!RawScore(f) < 75
    BY <1>1, <1>3, <1>6, <1>11
  <1>12. ASSUME R!BuildWarnings(f) # {} PROVE R!RawScore(f) >= 15
    <2>1. \/ wExtension = 35 \/ wSignature = 35 \/ wDouble = 25 \/ active = 30 \/ unknown = 18
          \/ dense = 15
      BY <1>7, <1>12
    <2>2. QED
      BY <1>1, <1>3, <2>1
  <1>13. QED
    BY <1>8, <1>9, <1>10, <1>11, <1>12

\* A report of a file is sound.
LEMMA ReportIsSound ==
  ASSUME file \in R!Files, report = R!Report(file)
  PROVE  R!RatingIsSound
  <1>1. /\ report.group = R!ClassifyFile(file) /\ report.mime = R!DetectMimeType(file)
        /\ report.warnings = R!BuildWarnings(file) /\ report.level = R!Level(R!RawScore(file))
        /\ report.preview = R!Preview(file)
    BY DEF R!Report
  <1>2. R!MediaAreMedia
    <2> SUFFICES ASSUME report.preview \in {"image", "audio", "video"}
                 PROVE  report.mime = report.preview /\ (report.preview = "image" => file.extension # ".svg")
      BY DEF R!MediaAreMedia
    <2>1. report.preview = R!ClassifyFile(file)
      BY <1>1 DEF R!Preview
    <2>2. QED
      BY <1>1, <2>1, GroupOf, MimeOf
  <1>3. R!ExecutableIsHigh
    BY <1>1, ScoreOf DEF R!ExecutableIsHigh, R!Level
  <1>4. R!HighIsExplained
    BY <1>1, ScoreOf DEF R!HighIsExplained, R!Level
  <1>5. QED
    BY <1>2, <1>3, <1>4 DEF R!RatingIsSound

\* What the viewer says of a file fits together, for every file: the MIME type
\* and the preview, the level and the warnings, the level and what can be run.
THEOREM SpecRatingIsSound == R!Spec => []RatingIsSound
  <1>1. R!Init => RatingInv
    BY DEF R!Init, RatingInv
  <1>2. RatingInv /\ [R!Next]_(R!vars) => RatingInv'
    BY DEF RatingInv, R!Next, R!Analyze, R!vars
  <1>3. RatingInv => RatingIsSound
    <2>1. ASSUME report = R!NoReport PROVE R!RatingIsSound
      BY <2>1 DEF R!NoReport, R!RatingIsSound, R!MediaAreMedia, R!ExecutableIsHigh, R!HighIsExplained
    <2>2. QED
      BY <2>1, ReportIsSound DEF RatingInv, RatingIsSound
  <1>4. QED
    BY <1>1, <1>2, <1>3, PTL DEF R!Spec


-----------------------------------------------------------------------------
(* The saved servers of the VPN client.  Two facts carry the theorems: the *)
(* proxy of a route is that of the service in the settings, unless it was  *)
(* changed; and a window that lags behind the store is going to be told.   *)

Configs == [id : Servers \cup {Nil}, weak : BOOLEAN, secret : BOOLEAN]
SavedSettings == S!Settings

\* Requests that carry a configuration, and requests in general.
OfConfig == {"save-server", "delete-server", "connect-saved-server", "connect-vpn"}
Kinds == OfConfig \cup {"save-settings", "disconnect-vpn", "get-servers"}
SavedRequests ==
  {r \in [kind : Kinds, what : Configs \cup SavedSettings \cup {Nil}, index : Nat, calm : BOOLEAN] :
     /\ r.kind \in OfConfig => r.what \in Configs
     /\ r.kind = "save-settings" => r.what \in SavedSettings}
SavedAnswers == [kind : Kinds \cup {"servers"}, list : Seq(Configs)]

SavedType ==
  /\ settings \in SavedSettings /\ form \in SavedSettings
  /\ servers \in Seq(Configs) /\ shown \in Seq(Configs)
  /\ last \in Configs \cup {Nil} /\ route \in Configs \cup {Nil}
  /\ toMain \in Seq(SavedRequests) /\ toWindow \in Seq(SavedAnswers)

\* A proxy that is set is that of the route which is up.
ProxyFollows == ~moved => proxied \subseteq (IF route = Nil THEN {} ELSE {settings.service})

\* The answer k is the last one that tells the servers.
TellsLast(k) ==
  /\ toWindow[k].kind = "servers"
  /\ \A j \in DOMAIN toWindow : j > k => toWindow[j].kind # "servers"

\* The window shows the servers, or is about to: it has asked, will ask, or is
\* going to be told.
Fresh ==
  \/ \E k \in DOMAIN toMain : toMain[k].kind = "get-servers"
  \/ \E k \in DOMAIN toWindow : toWindow[k].kind \in S!Reloading
  \/ \E k \in DOMAIN toWindow : TellsLast(k) /\ toWindow[k].list = servers
  \/ shown = servers /\ \A k \in DOMAIN toWindow : toWindow[k].kind # "servers"

\* The server that the user means is at the position that was clicked.
Meant(r) == r.index \in DOMAIN servers /\ servers[r.index].id = r.what.id

\* A request that was sent when nothing was under way is the next one, and what
\* it deletes is still where it was.
CalmHolds ==
  \A k \in DOMAIN toMain :
    toMain[k].calm => k = 1 /\ toWindow = <<>> /\ (toMain[k].kind = "delete-server" => Meant(toMain[k]))

SavedInv == SavedType /\ ProxyFollows /\ Fresh /\ CalmHolds

\* What an element of a longer sequence is.
LEMMA Appended ==
  ASSUME NEW Item, NEW s \in Seq(Item), NEW x \in Item
  PROVE  /\ Append(s, x) \in Seq(Item) /\ Len(Append(s, x)) = Len(s) + 1
         /\ DOMAIN s = 1..Len(s) /\ DOMAIN Append(s, x) = 1..(Len(s) + 1) /\ Len(s) \in Nat
         /\ Append(s, x)[Len(s) + 1] = x
         /\ \A k \in DOMAIN s : k \in DOMAIN Append(s, x) /\ Append(s, x)[k] = s[k]
  BY AppendProperties, LenProperties

\* What an element of a sequence without its head is.
LEMMA Shortened ==
  ASSUME NEW Item, NEW s \in Seq(Item), s # <<>>
  PROVE  /\ Tail(s) \in Seq(Item) /\ Head(s) \in Item /\ Head(s) = s[1] /\ 1 \in DOMAIN s
         /\ DOMAIN s = 1..Len(s) /\ DOMAIN Tail(s) = 1..(Len(s) - 1) /\ Len(s) \in Nat \ {0}
         /\ \A k \in DOMAIN Tail(s) : k + 1 \in DOMAIN s /\ Tail(s)[k] = s[k + 1]
         /\ \A k \in DOMAIN s : k # 1 => k - 1 \in DOMAIN Tail(s) /\ Tail(s)[k - 1] = s[k]
  BY HeadTailProperties, LenProperties

\* Nothing under way: the window shows the servers.
LEMMA IdleIsFresh == ASSUME Fresh, S!Idle PROVE shown = servers
  BY DEF Fresh, S!Idle

\* A request of the window keeps what is said of the messages.
LEMMA AskKeeps ==
  ASSUME SavedType, Fresh, CalmHolds, UNCHANGED <<servers, shown, toWindow>>,
         NEW kind, NEW what, NEW index, S!Ask(kind, what, index),
         [kind |-> kind, what |-> what, index |-> index, calm |-> S!Idle] \in SavedRequests,
         kind = "delete-server" /\ S!Idle => index \in DOMAIN servers /\ servers[index].id = what.id
  PROVE  toMain' \in Seq(SavedRequests) /\ Fresh' /\ CalmHolds'
  <1> DEFINE r == [kind |-> kind, what |-> what, index |-> index, calm |-> S!Idle]
  <1>1. toMain' = Append(toMain, r) /\ toMain \in Seq(SavedRequests) /\ r \in SavedRequests
    BY DEF S!Ask, SavedType
  <1>2. /\ r.kind = kind /\ r.what = what /\ r.index = index /\ r.calm = S!Idle
    OBVIOUS
  <1> HIDE DEF r
  <1>3. /\ toMain' \in Seq(SavedRequests) /\ DOMAIN toMain = 1..Len(toMain) /\ Len(toMain) \in Nat
        /\ DOMAIN toMain' = 1..(Len(toMain) + 1) /\ toMain'[Len(toMain) + 1] = r
        /\ \A k \in DOMAIN toMain : k \in DOMAIN toMain' /\ toMain'[k] = toMain[k]
    BY <1>1, Appended
  <1>4. Fresh'
    BY <1>3 DEF Fresh, TellsLast
  <1>5. CalmHolds'
    <2> SUFFICES ASSUME NEW k \in DOMAIN toMain', toMain'[k].calm
                 PROVE  /\ k = 1 /\ toWindow' = <<>>
                        /\ toMain'[k].kind = "delete-server" =>
                             /\ toMain'[k].index \in DOMAIN servers'
                             /\ servers'[toMain'[k].index].id = toMain'[k].what.id
      BY DEF CalmHolds, Meant
    <2>1. CASE k \in DOMAIN toMain
      BY <1>3, <2>1 DEF CalmHolds, Meant
    <2>2. CASE k \notin DOMAIN toMain
      <3>1. k = Len(toMain) + 1 /\ toMain'[k] = r
        BY <1>3, <2>2
      <3>2. S!Idle
        BY <1>2, <3>1
      <3>3. Len(toMain) = 0
        BY <3>2 DEF S!Idle
      <3>4. QED
        BY <1>2, <3>1, <3>2, <3>3 DEF S!Idle, Meant
    <2>3. QED
      BY <2>1, <2>2
  <1>6. QED
    BY <1>3, <1>4, <1>5

\* An answer of the main process keeps it too, when servers that change are
\* going to be told, and servers that are asked for are.
LEMMA AnswerKeeps ==
  ASSUME SavedType, Fresh, CalmHolds, toMain # <<>>, NEW reply \in SavedAnswers, S!Answer(reply),
         servers' = servers \/ reply.kind \in S!Reloading,
         Head(toMain).kind = "get-servers" => reply.kind = "servers",
         reply.kind = "servers" => reply.list = servers'
  PROVE  toMain' \in Seq(SavedRequests) /\ toWindow' \in Seq(SavedAnswers) /\ Fresh' /\ CalmHolds'
  <1>1. /\ toMain' = Tail(toMain) /\ toWindow' = Append(toWindow, reply) /\ UNCHANGED shown
        /\ toMain \in Seq(SavedRequests) /\ toWindow \in Seq(SavedAnswers)
    BY DEF S!Answer, SavedType
  <1>2. /\ toMain' \in Seq(SavedRequests) /\ Head(toMain) = toMain[1] /\ DOMAIN toMain = 1..Len(toMain)
        /\ Len(toMain) \in Nat \ {0}
        /\ \A k \in DOMAIN toMain' : k + 1 \in DOMAIN toMain /\ toMain'[k] = toMain[k + 1]
        /\ \A k \in DOMAIN toMain : k # 1 => k - 1 \in DOMAIN toMain' /\ toMain'[k - 1] = toMain[k]
        /\ DOMAIN toMain' = 1..(Len(toMain) - 1)
    BY <1>1, Shortened
  <1>3. /\ toWindow' \in Seq(SavedAnswers) /\ DOMAIN toWindow = 1..Len(toWindow) /\ Len(toWindow) \in Nat
        /\ DOMAIN toWindow' = 1..(Len(toWindow) + 1) /\ toWindow'[Len(toWindow) + 1] = reply
        /\ \A k \in DOMAIN toWindow : k \in DOMAIN toWindow' /\ toWindow'[k] = toWindow[k]
    BY <1>1, Appended
  <1>4. CalmHolds'
    <2> SUFFICES ASSUME NEW k \in DOMAIN toMain', toMain'[k].calm PROVE FALSE
      BY DEF CalmHolds
    <2>1. k + 1 \in DOMAIN toMain /\ toMain[k + 1].calm /\ k + 1 # 1
      BY <1>2
    <2>2. QED
      BY <2>1 DEF CalmHolds
  <1>5. Fresh'
    <2>1. CASE reply.kind \in S!Reloading
      BY <1>3, <2>1 DEF Fresh
    <2>2. CASE reply.kind = "servers"
      <3> DEFINE n == Len(toWindow) + 1
      <3>1. /\ n \in DOMAIN toWindow' /\ toWindow'[n] = reply /\ reply.list = servers'
            /\ \A j \in DOMAIN toWindow' : ~(j > n)
        BY <1>3, <2>2
      <3> HIDE DEF n
      <3>2. QED
        BY <2>2, <3>1 DEF Fresh, TellsLast
    <2>3. CASE reply.kind # "servers" /\ reply.kind \notin S!Reloading
      <3>1. servers' = servers /\ Head(toMain).kind # "get-servers"
        BY <2>3
      <3>2. CASE \E k \in DOMAIN toMain : toMain[k].kind = "get-servers"
        BY <1>2, <3>1, <3>2 DEF Fresh
      <3>3. CASE \E k \in DOMAIN toWindow : toWindow[k].kind \in S!Reloading
        BY <1>3, <3>3 DEF Fresh
      <3>4. CASE \E k \in DOMAIN toWindow : TellsLast(k) /\ toWindow[k].list = servers
        <4>1. PICK k \in DOMAIN toWindow : TellsLast(k) /\ toWindow[k].list = servers
          BY <3>4
        <4>2. \A j \in DOMAIN toWindow' : j \in DOMAIN toWindow \/ toWindow'[j] = reply
          BY <1>3
        <4>3. k \in DOMAIN toWindow' /\ TellsLast(k)' /\ toWindow'[k].list = servers'
          BY <1>3, <2>3, <3>1, <4>1, <4>2 DEF TellsLast
        <4>4. QED
          BY <4>3 DEF Fresh
      <3>5. CASE shown = servers /\ \A k \in DOMAIN toWindow : toWindow[k].kind # "servers"
        <4>1. \A j \in DOMAIN toWindow' : j \in DOMAIN toWindow \/ toWindow'[j] = reply
          BY <1>3
        <4>2. shown' = servers' /\ \A k \in DOMAIN toWindow' : toWindow'[k].kind # "servers"
          BY <1>1, <1>3, <2>3, <3>1, <3>5, <4>1
        <4>3. QED
          BY <4>2 DEF Fresh
      <3>6. QED
        BY <3>2, <3>3, <3>4, <3>5 DEF Fresh
    <2>4. QED
      BY <2>1, <2>2, <2>3
  <1>6. QED
    BY <1>2, <1>3, <1>4, <1>5


\* An answer that reaches the window does.
LEMMA ReceiveKeeps ==
  ASSUME SavedType, Fresh, CalmHolds, S!Receive
  PROVE  /\ toMain' \in Seq(SavedRequests) /\ toWindow' \in Seq(SavedAnswers)
         /\ shown' \in Seq(Configs) /\ Fresh' /\ CalmHolds'
  <1>1. /\ toWindow # <<>> /\ toWindow' = Tail(toWindow) /\ UNCHANGED servers
        /\ toMain \in Seq(SavedRequests) /\ toWindow \in Seq(SavedAnswers)
    BY DEF S!Receive, S!mainVars, SavedType
  <1>2. /\ toWindow' \in Seq(SavedAnswers) /\ Head(toWindow) \in SavedAnswers
        /\ Head(toWindow) = toWindow[1] /\ 1 \in DOMAIN toWindow /\ DOMAIN toWindow = 1..Len(toWindow)
        /\ Len(toWindow) \in Nat \ {0} /\ DOMAIN toWindow' = 1..(Len(toWindow) - 1)
        /\ \A k \in DOMAIN toWindow' : k + 1 \in DOMAIN toWindow /\ toWindow'[k] = toWindow[k + 1]
        /\ \A k \in DOMAIN toWindow : k # 1 => k - 1 \in DOMAIN toWindow' /\ toWindow'[k - 1] = toWindow[k]
    BY <1>1, Shortened
  <1>3. \A k \in DOMAIN toMain : ~toMain[k].calm
    BY <1>1 DEF CalmHolds
  <1>4. shown' = IF Head(toWindow).kind = "servers" THEN Head(toWindow).list ELSE shown
    BY DEF S!Receive
  <1>5. shown' \in Seq(Configs)
    BY <1>2, <1>4 DEF SavedAnswers, SavedType
  <1>6. CASE Head(toWindow).kind \in S!Reloading
    <2> DEFINE r == [kind |-> "get-servers", what |-> Nil, index |-> 0, calm |-> S!Idle]
    <2>1. toMain' = Append(toMain, r)
      BY <1>6 DEF S!Receive, S!Ask
    <2>2. r \in SavedRequests /\ r.kind = "get-servers" /\ r.calm = FALSE
      BY <1>1 DEF S!Idle, SavedRequests, OfConfig, Kinds
    <2> HIDE DEF r
    <2>3. /\ toMain' \in Seq(SavedRequests) /\ DOMAIN toMain = 1..Len(toMain) /\ Len(toMain) \in Nat
          /\ DOMAIN toMain' = 1..(Len(toMain) + 1) /\ toMain'[Len(toMain) + 1] = r
          /\ \A k \in DOMAIN toMain : k \in DOMAIN toMain' /\ toMain'[k] = toMain[k]
      BY <1>1, <2>1, <2>2, Appended
    <2>4. Fresh'
      BY <2>2, <2>3 DEF Fresh
    <2>5. \A k \in DOMAIN toMain' : k \in DOMAIN toMain \/ toMain'[k] = r
      BY <2>3
    <2>6. CalmHolds'
      BY <1>3, <2>2, <2>3, <2>5 DEF CalmHolds
    <2>7. QED
      BY <1>2, <1>5, <2>3, <2>4, <2>6
  <1>7. CASE Head(toWindow).kind \notin S!Reloading
    <2>1. UNCHANGED toMain
      BY <1>7 DEF S!Receive
    <2>2. CalmHolds'
      BY <1>3, <2>1 DEF CalmHolds
    <2>3. CASE \E k \in DOMAIN toMain : toMain[k].kind = "get-servers"
      BY <1>1, <1>2, <1>5, <2>1, <2>2, <2>3 DEF Fresh
    <2>4. CASE \E k \in DOMAIN toWindow : toWindow[k].kind \in S!Reloading
      <3>1. Fresh'
        BY <1>2, <1>7, <2>4 DEF Fresh
      <3>2. QED
        BY <1>1, <1>2, <1>5, <2>1, <2>2, <3>1
    <2>5. CASE \E k \in DOMAIN toWindow : TellsLast(k) /\ toWindow[k].list = servers
      <3>1. PICK k \in DOMAIN toWindow : TellsLast(k) /\ toWindow[k].list = servers
        BY <2>5
      <3>2. CASE k = 1
        <4>1. shown' = servers' /\ \A j \in DOMAIN toWindow : j > 1 => toWindow[j].kind # "servers"
          BY <1>1, <1>2, <1>4, <3>1, <3>2 DEF TellsLast
        <4>2. \A j \in DOMAIN toWindow' : toWindow'[j].kind # "servers"
          <5> SUFFICES ASSUME NEW j \in DOMAIN toWindow' PROVE toWindow'[j].kind # "servers"
            OBVIOUS
          <5>1. j + 1 \in DOMAIN toWindow /\ j + 1 > 1 /\ toWindow'[j] = toWindow[j + 1]
            BY <1>2
          <5>2. QED
            BY <4>1, <5>1
        <4>3. Fresh'
          BY <4>1, <4>2 DEF Fresh
        <4>4. QED
          BY <1>1, <1>2, <1>5, <2>1, <2>2, <4>3
      <3>3. CASE k # 1
        <4> DEFINE n == k - 1
        <4>1. n \in DOMAIN toWindow' /\ toWindow'[n] = toWindow[k]
          BY <1>2, <3>3
        <4>2. \A j \in DOMAIN toWindow' : j > n => toWindow'[j].kind # "servers"
          <5> SUFFICES ASSUME NEW j \in DOMAIN toWindow', j > n PROVE toWindow'[j].kind # "servers"
            OBVIOUS
          <5>1. j + 1 \in DOMAIN toWindow /\ j + 1 > k /\ toWindow'[j] = toWindow[j + 1]
            BY <1>2
          <5>2. QED
            BY <3>1, <5>1 DEF TellsLast
        <4>3. toWindow'[n].kind = "servers" /\ toWindow'[n].list = servers'
          BY <1>1, <3>1, <4>1 DEF TellsLast
        <4> HIDE DEF n
        <4>4. Fresh'
          BY <4>1, <4>2, <4>3 DEF Fresh, TellsLast
        <4>5. QED
          BY <1>1, <1>2, <1>5, <2>1, <2>2, <4>4
      <3>4. QED
        BY <3>2, <3>3
    <2>6. CASE shown = servers /\ \A k \in DOMAIN toWindow : toWindow[k].kind # "servers"
      <3>1. Fresh'
        BY <1>1, <1>2, <1>4, <2>6 DEF Fresh
      <3>2. QED
        BY <1>1, <1>2, <1>5, <2>1, <2>2, <3>1
    <2>7. QED
      BY <2>3, <2>4, <2>5, <2>6 DEF Fresh
  <1>8. QED
    BY <1>6, <1>7

\* What a step may do to the route, the proxy, the last connection and the store.
RouteStep ==
  /\ ProxyFollows' /\ route' \in Configs \cup {Nil} /\ last' \in Configs \cup {Nil}
  /\ route' # route /\ route' # Nil => ~route'.weak \/ settings.allowInsecure
  /\ ~settings.saveSecrets /\ last' # Nil => (last'.secret => last' = last)

\* Connecting, failing and disconnecting.
LEMMA RouteUpKeeps ==
  ASSUME Nil \notin Configs, SavedType, ProxyFollows, UNCHANGED <<settings, moved>>,
         NEW config \in Configs, S!RouteUp(config)
  PROVE  RouteStep
  <1>1. S!Prepared(config) \in Configs /\ S!Prepared(config).secret = (config.secret /\ settings.saveSecrets)
    BY DEF S!Prepared, Configs, SavedType, SavedSettings, S!Settings
  <1>2. route' = config /\ route' # Nil
    BY DEF S!RouteUp
  <1>3. ProxyFollows'
    BY <1>2 DEF S!RouteUp, ProxyFollows, S!Cleared
  <1>4. route' # route /\ route' # Nil => ~route'.weak \/ settings.allowInsecure
    BY DEF S!RouteUp, S!Accepted
  <1>5. last' = S!Prepared(config) \/ last' = Nil
    BY DEF S!RouteUp
  <1>6. ~settings.saveSecrets /\ last' # Nil => (last'.secret => last' = last)
    BY <1>1, <1>5
  <1>7. QED
    BY <1>1, <1>2, <1>3, <1>4, <1>5, <1>6 DEF RouteStep

LEMMA RouteDownKeeps ==
  ASSUME SavedType, ProxyFollows, UNCHANGED <<settings, moved>>, S!RouteDown
  PROVE  RouteStep
  BY DEF RouteStep, S!RouteDown, ProxyFollows, S!Cleared, SavedType

LEMMA RouteStays ==
  ASSUME SavedType, ProxyFollows, UNCHANGED <<settings, moved, route, proxied, last>>
  PROVE  RouteStep
  BY DEF RouteStep, ProxyFollows, SavedType


\* What is left of the servers when one is removed.
LEMMA ServerRemoved ==
  ASSUME NEW Item, NEW s \in Seq(Item), NEW i \in DOMAIN s
  PROVE  S!RemoveAt(s, i) \in Seq(S!ToSet(s)) /\ S!ToSet(s) \subseteq Item
  <1>1. i \in 1..Len(s) /\ DOMAIN s = 1..Len(s) /\ Len(s) \in Nat
    BY LenProperties
  <1>2. \A k \in 1..Len(s) : s[k] \in S!ToSet(s)
    BY <1>1 DEF S!ToSet
  <1>3. SubSeq(s, 1, i - 1) \in Seq(S!ToSet(s))
    BY <1>1, <1>2, SubSeqProperties
  <1>4. SubSeq(s, i + 1, Len(s)) \in Seq(S!ToSet(s))
    BY <1>1, <1>2, SubSeqProperties
  <1>5. S!ToSet(s) \subseteq Item
    BY <1>1, ElementOfSeq DEF S!ToSet
  <1>6. QED
    BY <1>3, <1>4, <1>5, ConcatProperties DEF S!RemoveAt

\* A secret that is in the store afterwards was there, or may be kept.
SecretsStep ==
  ~settings.saveSecrets => \A i \in DOMAIN servers' : servers'[i].secret => servers'[i] \in S!ToSet(servers)

LEMMA StoreStays == ASSUME servers' = servers PROVE SecretsStep
  BY DEF SecretsStep, S!ToSet

\* Saving and deleting a server.
LEMMA SaveServerKeeps ==
  ASSUME SavedInv, S!SaveServer
  PROVE  servers' \in Seq(Configs) /\ SecretsStep
  <1>1. Head(toMain) \in SavedRequests /\ Head(toMain).kind = "save-server"
    BY Shortened DEF S!SaveServer, S!Requested, SavedInv, SavedType
  <1>2. S!What \in Configs
    BY <1>1 DEF S!What, SavedRequests, OfConfig
  <1>3. /\ S!Prepared(S!What) \in Configs
        /\ S!Prepared(S!What).secret = (S!What.secret /\ settings.saveSecrets)
    BY <1>2 DEF S!Prepared, Configs, SavedInv, SavedType, SavedSettings, S!Settings
  <1>4. servers' = servers \/ servers' = Append(servers, S!Prepared(S!What))
    BY DEF S!SaveServer
  <1>5. servers \in Seq(Configs)
    BY DEF SavedInv, SavedType
  <1>6. CASE servers' = servers
    BY <1>5, <1>6, StoreStays
  <1>7. CASE servers' = Append(servers, S!Prepared(S!What))
    <2>1. /\ servers' \in Seq(Configs) /\ DOMAIN servers = 1..Len(servers) /\ Len(servers) \in Nat
          /\ DOMAIN servers' = 1..(Len(servers) + 1) /\ servers'[Len(servers) + 1] = S!Prepared(S!What)
          /\ \A k \in DOMAIN servers : servers'[k] = servers[k]
      BY <1>3, <1>5, <1>7, Appended
    <2>2. \A k \in DOMAIN servers' : k \in DOMAIN servers \/ servers'[k] = S!Prepared(S!What)
      BY <2>1
    <2>3. SecretsStep
      BY <1>3, <2>1, <2>2 DEF SecretsStep, S!ToSet
    <2>4. QED
      BY <2>1, <2>3
  <1>8. QED
    BY <1>4, <1>6, <1>7

LEMMA DeleteServerKeeps ==
  ASSUME SavedInv, S!DeleteServer
  PROVE  servers' \in Seq(Configs) /\ SecretsStep
  <1>1. servers \in Seq(Configs)
    BY DEF SavedInv, SavedType
  <1>2. CASE servers' = servers
    BY <1>1, <1>2, StoreStays
  <1>3. CASE Head(toMain).index \in DOMAIN servers /\ servers' = S!RemoveAt(servers, Head(toMain).index)
    <2>1. servers' \in Seq(S!ToSet(servers)) /\ S!ToSet(servers) \subseteq Configs
      BY <1>1, <1>3, ServerRemoved
    <2>2. \A i \in DOMAIN servers' : servers'[i] \in S!ToSet(servers)
      BY <2>1, ElementOfSeq, LenProperties
    <2>3. servers' \in Seq(Configs)
      BY <2>1, SeqMonotonic
    <2>4. QED
      BY <2>2, <2>3 DEF SecretsStep
  <1>4. QED
    BY <1>2, <1>3 DEF S!DeleteServer

\* Every step keeps the invariant, and does to the route and to the store no
\* more than it may.
SavedStep == SavedInv' /\ RouteStep /\ SecretsStep

\* The steps of the window.
LEMMA WindowKeeps ==
  ASSUME Nil \notin Configs, SavedInv,
         \/ \E s \in Servers, weak \in BOOLEAN : S!AddServer(s, weak)
         \/ \E i \in DOMAIN shown : S!ClickCard(i)
         \/ \E weak \in BOOLEAN : S!ConnectLink(weak)
         \/ S!SubmitSettings \/ S!ClickDisconnect \/ S!Receive
  PROVE  SavedStep
  <1> USE DEF SavedInv
  <1>1. UNCHANGED <<settings, servers, last, route, proxied, moved>>
    BY DEF S!AddServer, S!ClickCard, S!ConnectLink, S!SubmitSettings, S!ClickDisconnect, S!Receive, S!mainVars
  <1>2. RouteStep /\ SecretsStep
    BY <1>1, RouteStays, StoreStays
  <1>3. S!Idle \in BOOLEAN
    BY DEF S!Idle
  <1>4. ASSUME form' \in SavedSettings, shown' \in Seq(Configs), toWindow' \in Seq(SavedAnswers),
               toMain' \in Seq(SavedRequests), Fresh', CalmHolds'
        PROVE  SavedStep
    BY <1>1, <1>2, <1>4 DEF SavedStep, SavedType, RouteStep
  <1>5. ASSUME NEW s \in Servers, NEW weak \in BOOLEAN, S!AddServer(s, weak) PROVE SavedStep
    <2> DEFINE what == [id |-> s, weak |-> weak, secret |-> TRUE]
    <2>1. what \in Configs
      BY DEF Configs
    <2> HIDE DEF what
    <2>2. [kind |-> "save-server", what |-> what, index |-> 0, calm |-> S!Idle] \in SavedRequests
      BY <1>3, <2>1 DEF SavedRequests, OfConfig, Kinds
    <2>3. UNCHANGED <<form, shown, toWindow>> /\ S!Ask("save-server", what, 0)
      BY <1>5 DEF S!AddServer, what
    <2>4. toMain' \in Seq(SavedRequests) /\ Fresh' /\ CalmHolds'
      BY <1>1, <2>2, <2>3, AskKeeps
    <2>5. QED
      BY <1>4, <2>3, <2>4 DEF SavedType
  <1>6. ASSUME NEW i \in DOMAIN shown, S!ClickCard(i) PROVE SavedStep
    <2>1. shown[i] \in Configs /\ i \in Nat
      BY ElementOfSeq, LenProperties DEF SavedType
    <2>2. PICK kind \in {"delete-server", "connect-saved-server"} : S!Ask(kind, shown[i], i)
      BY <1>6 DEF S!ClickCard
    <2>3. [kind |-> kind, what |-> shown[i], index |-> i, calm |-> S!Idle] \in SavedRequests
      BY <1>3, <2>1 DEF SavedRequests, OfConfig, Kinds
    <2>4. UNCHANGED <<form, shown, toWindow>>
      BY <1>6 DEF S!ClickCard
    <2>5. S!Idle => i \in DOMAIN servers /\ servers[i].id = shown[i].id
      BY IdleIsFresh
    <2>6. toMain' \in Seq(SavedRequests) /\ Fresh' /\ CalmHolds'
      BY <1>1, <2>2, <2>3, <2>4, <2>5, AskKeeps
    <2>7. QED
      BY <1>4, <2>4, <2>6 DEF SavedType
  <1>7. ASSUME NEW weak \in BOOLEAN, S!ConnectLink(weak) PROVE SavedStep
    <2>1. S!Linked(weak) \in Configs
      BY DEF Configs, S!Linked
    <2>2. [kind |-> "connect-vpn", what |-> S!Linked(weak), index |-> 0, calm |-> S!Idle] \in SavedRequests
      BY <1>3, <2>1 DEF SavedRequests, OfConfig, Kinds
    <2>3. UNCHANGED <<form, shown, toWindow>> /\ S!Ask("connect-vpn", S!Linked(weak), 0)
      BY <1>7 DEF S!ConnectLink
    <2>4. toMain' \in Seq(SavedRequests) /\ Fresh' /\ CalmHolds'
      BY <1>1, <2>2, <2>3, AskKeeps
    <2>5. QED
      BY <1>4, <2>3, <2>4 DEF SavedType
  <1>8. ASSUME S!SubmitSettings PROVE SavedStep
    <2>1. form' \in SavedSettings
      BY <1>8 DEF S!SubmitSettings, SavedType, SavedSettings, S!Settings
    <2>2. [kind |-> "save-settings", what |-> form', index |-> 0, calm |-> S!Idle] \in SavedRequests
      BY <1>3, <2>1 DEF SavedRequests, OfConfig, Kinds
    <2>3. UNCHANGED <<shown, toWindow>>
      BY <1>8 DEF S!SubmitSettings
    <2>4. PICK what : what = form'
      OBVIOUS
    <2>5. S!Ask("save-settings", what, 0)
      BY <1>8, <2>4 DEF S!SubmitSettings, S!Ask
    <2>6. toMain' \in Seq(SavedRequests) /\ Fresh' /\ CalmHolds'
      BY <1>1, <2>2, <2>3, <2>4, <2>5, AskKeeps
    <2>7. QED
      BY <1>4, <2>1, <2>3, <2>6 DEF SavedType
  <1>9. ASSUME S!ClickDisconnect PROVE SavedStep
    <2>1. [kind |-> "disconnect-vpn", what |-> Nil, index |-> 0, calm |-> S!Idle] \in SavedRequests
      BY <1>3 DEF SavedRequests, OfConfig, Kinds
    <2>2. UNCHANGED <<form, shown, toWindow>> /\ S!Ask("disconnect-vpn", Nil, 0)
      BY <1>9 DEF S!ClickDisconnect
    <2>3. toMain' \in Seq(SavedRequests) /\ Fresh' /\ CalmHolds'
      BY <1>1, <2>1, <2>2, AskKeeps
    <2>4. QED
      BY <1>4, <2>2, <2>3 DEF SavedType
  <1>10. ASSUME S!Receive PROVE SavedStep
    <2>1. UNCHANGED form
      BY <1>10 DEF S!Receive
    <2>2. QED
      BY <1>4, <1>10, <2>1, ReceiveKeeps DEF SavedType
  <1>11. QED
    BY <1>5, <1>6, <1>7, <1>8, <1>9, <1>10


\* The steps of the main process that serve a request.
LEMMA MainKeeps ==
  ASSUME Nil \notin Configs, SavedInv,
         \/ S!SaveServer \/ S!DeleteServer \/ S!GetServers \/ S!SaveSettings \/ S!Connect \/ S!Disconnect
  PROVE  SavedStep
  <1> USE DEF SavedInv
  <1>1. toMain # <<>> /\ Head(toMain).kind \in Kinds /\ Head(toMain) \in SavedRequests
    BY Shortened DEF S!SaveServer, S!DeleteServer, S!GetServers, S!SaveSettings, S!Connect, S!Disconnect,
       S!Requested, SavedType, SavedRequests
  <1> DEFINE done == [kind |-> Head(toMain).kind, list |-> <<>>]
             told == [kind |-> "servers", list |-> servers]
  <1>2. done \in SavedAnswers /\ told \in SavedAnswers
    BY <1>1 DEF SavedAnswers, SavedType
  <1>3. done.kind = Head(toMain).kind /\ told.kind = "servers" /\ told.list = servers
    OBVIOUS
  <1>4. S!Done => S!Answer(done)
    BY DEF S!Done
  <1> HIDE DEF done, told
  <1>5. ASSUME S!Done, Head(toMain).kind # "get-servers",
               servers' = servers \/ Head(toMain).kind \in S!Reloading
        PROVE  toMain' \in Seq(SavedRequests) /\ toWindow' \in Seq(SavedAnswers) /\ Fresh' /\ CalmHolds'
    <2>1. done.kind # "servers" /\ (servers' = servers \/ done.kind \in S!Reloading)
      BY <1>1, <1>3, <1>5 DEF Kinds, OfConfig
    <2>2. QED
      BY <1>1, <1>2, <1>4, <1>5, <2>1, AnswerKeeps
  <1>6. S!Done => UNCHANGED <<form, shown>>
    BY DEF S!Done, S!Answer
  <1>7. ASSUME toMain' \in Seq(SavedRequests), toWindow' \in Seq(SavedAnswers), Fresh', CalmHolds',
               UNCHANGED <<form, shown>>, settings' \in SavedSettings, servers' \in Seq(Configs),
               RouteStep, SecretsStep
        PROVE  SavedStep
    BY <1>7 DEF SavedStep, SavedType, RouteStep
  <1>8. settings \in SavedSettings /\ servers \in Seq(Configs)
    BY DEF SavedType
  <1>9. ASSUME S!SaveServer PROVE SavedStep
    <2>1. Head(toMain).kind \in S!Reloading /\ Head(toMain).kind # "get-servers" /\ S!Done
          /\ UNCHANGED <<settings, last, route, proxied, moved>>
      BY <1>9 DEF S!SaveServer, S!Requested, S!Reloading
    <2>2. QED
      BY <1>5, <1>6, <1>7, <1>8, <1>9, <2>1, SaveServerKeeps, RouteStays
  <1>10. ASSUME S!DeleteServer PROVE SavedStep
    <2>1. Head(toMain).kind \in S!Reloading /\ Head(toMain).kind # "get-servers" /\ S!Done
          /\ UNCHANGED <<settings, last, route, proxied, moved>>
      BY <1>10 DEF S!DeleteServer, S!Requested, S!Reloading
    <2>2. QED
      BY <1>5, <1>6, <1>7, <1>8, <1>10, <2>1, DeleteServerKeeps, RouteStays
  <1>11. ASSUME S!GetServers PROVE SavedStep
    <2>1. S!Answer(told) /\ UNCHANGED <<settings, servers, last, route, proxied, moved>>
      BY <1>11 DEF S!GetServers, S!mainVars, told
    <2>2. toMain' \in Seq(SavedRequests) /\ toWindow' \in Seq(SavedAnswers) /\ Fresh' /\ CalmHolds'
      BY <1>1, <1>2, <1>3, <2>1, AnswerKeeps
    <2>3. UNCHANGED <<form, shown>>
      BY <2>1 DEF S!Answer
    <2>4. RouteStep /\ SecretsStep
      BY <2>1, RouteStays, StoreStays
    <2>5. QED
      BY <1>7, <1>8, <2>1, <2>2, <2>3, <2>4
  <1>12. ASSUME S!SaveSettings PROVE SavedStep
    <2>1. Head(toMain).kind = "save-settings" /\ S!Done /\ UNCHANGED <<servers, last, route, proxied>>
          /\ settings' = S!What /\ moved' = (moved \/ (route # Nil /\ S!What.service # settings.service))
      BY <1>12 DEF S!SaveSettings, S!Requested
    <2>2. settings' \in SavedSettings
      BY <1>1, <2>1 DEF S!What, SavedRequests
    <2>3. ProxyFollows'
      BY <2>1 DEF ProxyFollows
    <2>4. RouteStep
      BY <2>1, <2>3 DEF RouteStep, SavedType
    <2>5. SecretsStep
      BY <2>1, StoreStays
    <2>6. QED
      BY <1>5, <1>6, <1>7, <1>8, <2>1, <2>2, <2>4, <2>5
  <1>13. ASSUME S!Connect PROVE SavedStep
    <2>1. Head(toMain).kind \in {"connect-vpn", "connect-saved-server"} /\ S!Done
          /\ UNCHANGED <<settings, servers, moved>>
      BY <1>13 DEF S!Connect, S!Requested
    <2>2. S!What \in Configs
      BY <1>1, <2>1 DEF S!What, SavedRequests, OfConfig
    <2>3. Head(toMain).index \in DOMAIN servers => servers[Head(toMain).index] \in Configs
      BY <1>8, ElementOfSeq, LenProperties
    <2>4. \/ UNCHANGED <<route, proxied, last>>
          \/ S!RouteDown
          \/ \E config \in Configs : S!RouteUp(config)
      BY <1>13, <2>2, <2>3 DEF S!Connect, S!Requested
    <2>5. RouteStep
      BY <2>1, <2>4, RouteStays, RouteDownKeeps, RouteUpKeeps
    <2>6. QED
      BY <1>5, <1>6, <1>7, <1>8, <2>1, <2>5, StoreStays
  <1>14. ASSUME S!Disconnect PROVE SavedStep
    <2>1. Head(toMain).kind = "disconnect-vpn" /\ S!Done /\ S!RouteDown
          /\ UNCHANGED <<settings, servers, moved>>
      BY <1>14 DEF S!Disconnect, S!Requested
    <2>2. QED
      BY <1>5, <1>6, <1>7, <1>8, <2>1, RouteDownKeeps, StoreStays
  <1>15. QED
    BY <1>9, <1>10, <1>11, <1>12, <1>13, <1>14

\* The steps that no request asks for.
LEMMA OwnStepsKeep ==
  ASSUME Nil \notin Configs, SavedInv, S!Again \/ S!Restart \/ S!Keyring
  PROVE  SavedStep
  <1> USE DEF SavedInv
  <1>1. UNCHANGED <<settings, servers, moved, toMain, toWindow>>
    BY DEF S!Again, S!Restart, S!Keyring
  <1>2. S!CliConfig \subseteq Configs
    <2>1. \A weak \in BOOLEAN : S!Linked(weak) \in Configs
      BY DEF S!Linked, Configs
    <2>2. QED
      BY <2>1 DEF S!CliConfig
  <1>3. \/ UNCHANGED <<route, proxied, last>>
        \/ S!RouteDown
        \/ \E config \in Configs : S!RouteUp(config)
    BY <1>2 DEF S!Again, S!Restart, S!Keyring, S!ConnectLast, SavedType
  <1>4. RouteStep /\ SecretsStep
    BY <1>1, <1>3, RouteStays, RouteDownKeeps, RouteUpKeeps, StoreStays
  <1>5. CalmHolds'
    BY <1>1 DEF CalmHolds, Meant
  <1>6. UNCHANGED <<form, shown>> \/ (S!Idle /\ form' = settings /\ shown' = servers)
    BY DEF S!Again, S!Restart, S!Keyring, S!loadSettings
  <1>7. Fresh'
    BY <1>1, <1>6 DEF Fresh, TellsLast, S!Idle
  <1>8. QED
    BY <1>1, <1>4, <1>5, <1>6, <1>7 DEF SavedStep, SavedType, RouteStep

LEMMA SavedNext == ASSUME Nil \notin Configs, SavedInv, S!Next PROVE SavedStep
  BY WindowKeeps, MainKeeps, OwnStepsKeep DEF S!Next

LEMMA SavedInit == ASSUME Services # {}, S!Init PROVE SavedInv
  <1>1. S!Default \in SavedSettings
    BY DEF S!Default, SavedSettings, S!Settings
  <1>2. QED
    BY <1>1 DEF S!Init, SavedInv, SavedType, ProxyFollows, Fresh, CalmHolds

\* A stutter is no step.
LEMMA SavedStutters == ASSUME SavedInv, UNCHANGED S!vars PROVE SavedStep
  <1>1. UNCHANGED <<settings, servers, last, route, proxied, moved, form, shown, toMain, toWindow>>
    BY DEF S!vars, S!mainVars
  <1>2. RouteStep /\ SecretsStep
    BY <1>1, RouteStays, StoreStays DEF SavedInv
  <1>3. QED
    BY <1>1, <1>2 DEF SavedStep, SavedInv, SavedType, Fresh, TellsLast, CalmHolds, Meant, ProxyFollows

\* For any number of servers and acts: a route over a weak transport is started
\* only while those are allowed, and a route that ends takes its proxy with it,
\* unless the service was changed meanwhile.
THEOREM SpecRouteIsSound ==
  ASSUME Nil \notin Configs, Services # {} PROVE S!Spec => RouteIsSound
  <1>1. S!Init => SavedInv
    BY SavedInit
  <1>2. SavedInv /\ [S!Next]_(S!vars) => SavedInv'
    BY SavedNext, SavedStutters DEF SavedStep
  <1>3. SavedInv => S!ProxyIsTakenDown
    BY DEF SavedInv, ProxyFollows, S!ProxyIsTakenDown
  <1>4. SavedInv /\ [S!Next]_(S!vars) =>
          [route' # route /\ route' # Nil => ~route'.weak \/ settings.allowInsecure]_(S!vars)
    BY SavedNext DEF SavedStep, RouteStep
  <1>5. QED
    BY <1>1, <1>2, <1>3, <1>4, PTL DEF S!Spec, RouteIsSound, S!RouteIsSound, S!WeakNeedsConsent

\* For any number of servers and acts: what is deleted is what was clicked, when
\* nothing else was under way, and a secret comes into the store only while
\* secrets are saved.
THEOREM SpecStoreIsSound ==
  ASSUME Nil \notin Configs, Services # {} PROVE S!Spec => StoreIsSound
  <1> DEFINE deletes == S!DeleteServer /\ Head(toMain).calm =>
                          LET i == Head(toMain).index IN i \in DOMAIN servers /\ servers[i].id = S!What.id
             keeps == \/ settings.saveSecrets
                      \/ /\ \A i \in DOMAIN servers' : servers'[i].secret => servers'[i] \in S!ToSet(servers)
                         /\ last' # Nil => (last'.secret => last' = last)
  <1>1. S!Init => SavedInv
    BY SavedInit
  <1>2. SavedInv /\ [S!Next]_(S!vars) => SavedInv'
    BY SavedNext, SavedStutters DEF SavedStep
  <1>3. SavedInv /\ [S!Next]_(S!vars) => [deletes]_(S!vars)
    <2> SUFFICES ASSUME SavedInv, S!DeleteServer, Head(toMain).calm
                 PROVE  Meant(Head(toMain))
      BY DEF Meant, S!What
    <2>1. toMain # <<>> /\ Head(toMain).kind = "delete-server"
      BY DEF S!DeleteServer, S!Requested
    <2>2. Head(toMain) = toMain[1] /\ 1 \in DOMAIN toMain
      BY <2>1, Shortened DEF SavedInv, SavedType
    <2>3. QED
      BY <2>1, <2>2 DEF SavedInv, CalmHolds
  <1>4. SavedInv /\ [S!Next]_(S!vars) => [keeps]_(S!vars)
    BY SavedNext DEF SavedStep, RouteStep, SecretsStep
  <1>5. QED
    BY <1>1, <1>2, <1>3, <1>4, PTL DEF S!Spec, StoreIsSound, S!StoreIsSound, S!DeletesTheClicked,
       S!SecretsEnterWithConsent

-----------------------------------------------------------------------------
(* Sums over finite sets: what MapThenSumSet computes                      *)

SomeOf(s) == CHOOSE x \in s : TRUE

\* g adds up p over every subset of D, as the recursion of MapThenSumSet does.
Adds(g, p, D) == g = [s \in SUBSET D |-> IF s = {} THEN 0 ELSE p[SomeOf(s)] + g[s \ {SomeOf(s)}]]

Sum(p, D) == (CHOOSE g : Adds(g, p, D))[D]

\* Among sets of subsets of a finite set there is a smallest one.
LEMMA LeastSet ==
  ASSUME NEW D, IsFiniteSet(D), NEW Bad, Bad \subseteq SUBSET D, Bad # {}
  PROVE  \E s \in Bad : \A t \in Bad : t \subseteq s => t = s
  <1> DEFINE less == StrictSubsetOrdering(D)
             all  == FiniteSubsetsOf(D)
  <1>1. Bad \subseteq all
    BY FS_Subset DEF FiniteSubsetsOf
  <1>2. IsWellFoundedOn(less, all)
    BY FS_StrictSubsetOrderingWellFounded
  <1>3. \E s \in Bad : \A t \in Bad : <<t, s>> \notin less
    <2> HIDE DEF less, all
    <2>1. QED
      BY <1>1, <1>2, WFMin
  <1>4. PICK s \in Bad : \A t \in Bad : <<t, s>> \notin less
    BY <1>3
  <1>5. ASSUME NEW t \in Bad, t \subseteq s PROVE t = s
    BY <1>4, <1>5 DEF StrictSubsetOrdering
  <1>6. QED
    BY <1>5

LEMMA AddsAt ==
  ASSUME NEW D, NEW p, NEW g, Adds(g, p, D), NEW s \in SUBSET D
  PROVE  /\ s = {} => g[s] = 0
         /\ s # {} => SomeOf(s) \in s /\ s \ {SomeOf(s)} \in SUBSET D /\ g[s] = p[SomeOf(s)] + g[s \ {SomeOf(s)}]
  <1> DEFINE F(t) == IF t = {} THEN 0 ELSE p[SomeOf(t)] + g[t \ {SomeOf(t)}]
  <1>1. g = [t \in SUBSET D |-> F(t)]
    BY DEF Adds
  <1>2. s # {} => SomeOf(s) \in s
    BY DEF SomeOf
  <1> HIDE DEF F
  <1>3. g[s] = F(s)
    BY <1>1
  <1>4. QED
    BY <1>2, <1>3 DEF F

\* There is only one way to add up.
LEMMA AddsAgree ==
  ASSUME NEW D, IsFiniteSet(D), NEW E, NEW p, NEW q, NEW g, NEW h, Adds(g, p, D), Adds(h, q, E),
         NEW s \in SUBSET D, s \subseteq E, \A x \in s : p[x] = q[x]
  PROVE  g[s] = h[s]
  <1> DEFINE Bad == {t \in SUBSET s : g[t] # h[t]}
  <1>1. CASE Bad = {}
    BY <1>1
  <1>2. CASE Bad # {}
    <2>1. Bad \subseteq SUBSET D
      OBVIOUS
    <2>2. \E t \in Bad : \A u \in Bad : u \subseteq t => u = t
      <3> HIDE DEF Bad
      <3>1. QED
        BY <1>2, <2>1, LeastSet
    <2>3. PICK t \in Bad : \A u \in Bad : u \subseteq t => u = t
      BY <2>2
    <2>4. t \in SUBSET D /\ t \in SUBSET E /\ t \in SUBSET s /\ g[t] # h[t]
      OBVIOUS
    <2>5. /\ t = {} => g[t] = 0 /\ h[t] = 0
          /\ t # {} => /\ SomeOf(t) \in t /\ g[t] = p[SomeOf(t)] + g[t \ {SomeOf(t)}]
                       /\ h[t] = q[SomeOf(t)] + h[t \ {SomeOf(t)}]
      BY <2>4, AddsAt
    <2>6. t # {} /\ SomeOf(t) \in t /\ t \ {SomeOf(t)} # t
      BY <2>4, <2>5
    <2>7. t \ {SomeOf(t)} \notin Bad
      BY <2>3, <2>6
    <2>8. g[t \ {SomeOf(t)}] = h[t \ {SomeOf(t)}]
      BY <2>4, <2>7
    <2>9. p[SomeOf(t)] = q[SomeOf(t)]
      BY <2>4, <2>6
    <2>10. QED
      BY <2>4, <2>5, <2>6, <2>8, <2>9
  <1>3. QED
    BY <1>1, <1>2

LEMMA AddsExists ==
  ASSUME NEW D, IsFiniteSet(D), NEW p, \A x \in D : p[x] \in Nat
  PROVE  \E g \in [SUBSET D -> Nat] : Adds(g, p, D)
  <1> DEFINE Good(T) == \E g \in [SUBSET T -> Nat] : Adds(g, p, T)
             Bad == {T \in SUBSET D : ~Good(T)}
  <1>1. CASE Bad = {}
    BY <1>1
  <1>2. CASE Bad # {}
    <2>1. Bad \subseteq SUBSET D
      OBVIOUS
    <2>2. \E T \in Bad : \A u \in Bad : u \subseteq T => u = T
      <3> HIDE DEF Bad
      <3>1. QED
        BY <1>2, <2>1, LeastSet
    <2>3. PICK T \in Bad : \A u \in Bad : u \subseteq T => u = T
      BY <2>2
    <2>4. T \in SUBSET D /\ ~Good(T) /\ \A u \in SUBSET T : u # T => Good(u)
      BY <2>3
    <2> DEFINE G(u) == CHOOSE g : g \in [SUBSET u -> Nat] /\ Adds(g, p, u)
               h == [u \in SUBSET T |-> IF u = {} THEN 0 ELSE p[SomeOf(u)] + G(u \ {SomeOf(u)})[u \ {SomeOf(u)}]]
    <2>5. ASSUME NEW u \in SUBSET T, u # T PROVE G(u) \in [SUBSET u -> Nat] /\ Adds(G(u), p, u)
      BY <2>4, <2>5
    <2>6. ASSUME NEW u \in SUBSET T, u # {}
          PROVE  /\ SomeOf(u) \in u /\ p[SomeOf(u)] \in Nat /\ u \ {SomeOf(u)} \in SUBSET T /\ u \ {SomeOf(u)} # T
                 /\ IsFiniteSet(u \ {SomeOf(u)})
      <3>1. SomeOf(u) \in u
        BY <2>6 DEF SomeOf
      <3>2. p[SomeOf(u)] \in Nat
        BY <2>4, <3>1
      <3>3. u \ {SomeOf(u)} \in SUBSET T /\ u \ {SomeOf(u)} # T
        BY <3>1
      <3>4. IsFiniteSet(u \ {SomeOf(u)})
        BY <2>4, FS_Subset
      <3>5. QED
        BY <3>1, <3>2, <3>3, <3>4
    <2> HIDE DEF G, Good, Bad
    <2>7. h \in [SUBSET T -> Nat]
      <3>1. ASSUME NEW u \in SUBSET T, u # {} PROVE p[SomeOf(u)] + G(u \ {SomeOf(u)})[u \ {SomeOf(u)}] \in Nat
        <4> DEFINE v == u \ {SomeOf(u)}
        <4>1. v \in SUBSET T /\ v # T /\ p[SomeOf(u)] \in Nat
          BY <2>6, <3>1
        <4> HIDE DEF v
        <4>2. G(v) \in [SUBSET v -> Nat]
          BY <2>5, <4>1
        <4>3. G(v)[v] \in Nat
          BY <4>2
        <4>4. p[SomeOf(u)] + G(v)[v] \in Nat
          BY <4>1, <4>3
        <4>5. QED
          BY <4>4 DEF v
      <3>2. QED
        BY <3>1
    <2>8. ASSUME NEW u \in SUBSET T, u # T PROVE h[u] = G(u)[u]
      <3>1. CASE u = {}
        <4>1. Adds(G(u), p, u) /\ u \in SUBSET u
          BY <2>5, <2>8
        <4>2. G(u)[u] = 0
          BY <3>1, <4>1, AddsAt
        <4>3. QED
          BY <3>1, <4>2
      <3>2. CASE u # {}
        <4> DEFINE v == u \ {SomeOf(u)}
        <4>1. v \in SUBSET T /\ v # T /\ IsFiniteSet(v) /\ v \in SUBSET v /\ v \subseteq u
          BY <2>6, <3>2
        <4>2. h[u] = p[SomeOf(u)] + G(v)[v]
          BY <3>2
        <4> HIDE DEF v, h
        <4>3. Adds(G(u), p, u) /\ Adds(G(v), p, v)
          BY <2>5, <2>8, <4>1
        <4>4. G(u)[u] = p[SomeOf(u)] + G(u)[v]
          BY <3>2, <4>3, AddsAt DEF v
        <4>5. G(v)[v] = G(u)[v]
          BY <4>1, <4>3, AddsAgree
        <4>6. QED
          BY <4>2, <4>4, <4>5
      <3>3. QED
        BY <3>1, <3>2
    <2>9. \A u \in SUBSET T : u # {} => G(u \ {SomeOf(u)})[u \ {SomeOf(u)}] = h[u \ {SomeOf(u)}]
      <3> HIDE DEF h
      <3>1. QED
        BY <2>6, <2>8
    <2>10. h = [u \in SUBSET T |-> IF u = {} THEN 0 ELSE p[SomeOf(u)] + h[u \ {SomeOf(u)}]]
      <3> DEFINE F(u) == IF u = {} THEN 0 ELSE p[SomeOf(u)] + G(u \ {SomeOf(u)})[u \ {SomeOf(u)}]
                 E(u) == IF u = {} THEN 0 ELSE p[SomeOf(u)] + h[u \ {SomeOf(u)}]
      <3>1. \A u \in SUBSET T : F(u) = E(u)
        BY <2>9
      <3>2. h = [u \in SUBSET T |-> F(u)]
        OBVIOUS
      <3> HIDE DEF h, F, E
      <3>3. h = [u \in SUBSET T |-> E(u)]
        BY <3>1, <3>2
      <3>4. QED
        BY <3>3 DEF E
    <2> HIDE DEF h
    <2>11. Good(T)
      BY <2>7, <2>10 DEF Good, Adds
    <2>12. QED
      BY <2>4, <2>11
  <1>3. QED
    BY <1>1, <1>2

\* A sum over the empty set, and what an element adds, whichever it is.
LEMMA SumFacts ==
  ASSUME NEW D, IsFiniteSet(D), NEW p, \A x \in D : p[x] \in Nat
  PROVE  /\ Sum(p, {}) = 0
         /\ \A T \in SUBSET D : Sum(p, T) \in Nat
         /\ \A T \in SUBSET D : \A x \in T : Sum(p, T) = p[x] + Sum(p, T \ {x})
  <1> DEFINE g == CHOOSE h : h \in [SUBSET D -> Nat] /\ Adds(h, p, D)
  <1>1. g \in [SUBSET D -> Nat] /\ Adds(g, p, D)
    BY AddsExists
  <1> HIDE DEF g
  <1>2. ASSUME NEW T \in SUBSET D PROVE Sum(p, T) = g[T]
    <2> DEFINE k == CHOOSE h : Adds(h, p, T)
    <2>1. IsFiniteSet(T) /\ \A x \in T : p[x] \in Nat
      BY FS_Subset
    <2>2. \E h : Adds(h, p, T)
      BY <2>1, AddsExists
    <2>3. Adds(k, p, T)
      BY <2>2
    <2> HIDE DEF k
    <2>4. k[T] = g[T]
      BY <1>1, <2>1, <2>3, AddsAgree
    <2>5. QED
      BY <2>4 DEF k, Sum
  <1>3. Sum(p, {}) = 0
    <2>1. g[{}] = 0
      BY <1>1, AddsAt
    <2>2. QED
      BY <1>2, <2>1
  <1>4. \A T \in SUBSET D : Sum(p, T) \in Nat
    BY <1>1, <1>2
  <1>7. \A s \in SUBSET D : s # {} => SomeOf(s) \in s /\ s \ {SomeOf(s)} \in SUBSET D /\ g[s] = p[SomeOf(s)] + g[s \ {SomeOf(s)}]
    <2>1. Adds(g, p, D)
      BY <1>1
    <2>2. TAKE s \in SUBSET D
    <2>3. QED
      BY <2>1, <2>2, AddsAt
  <1> DEFINE Bad == {T \in SUBSET D : \E x \in T : Sum(p, T) # p[x] + Sum(p, T \ {x})}
  <1>5. CASE Bad = {}
    BY <1>3, <1>4, <1>5
  <1>6. CASE Bad # {}
    <2>1. Bad \subseteq SUBSET D
      OBVIOUS
    <2>2. \E T \in Bad : \A u \in Bad : u \subseteq T => u = T
      <3> HIDE DEF Bad
      <3>1. QED
        BY <1>6, <2>1, LeastSet
    <2>3. PICK T \in Bad : \A u \in Bad : u \subseteq T => u = T
      BY <2>2
    <2>4. PICK x \in T : Sum(p, T) # p[x] + Sum(p, T \ {x})
      OBVIOUS
    <2>5. \A u \in SUBSET T : u # T => \A y \in u : Sum(p, u) = p[y] + Sum(p, u \ {y})
      BY <2>3
    <2>6. T \in SUBSET D /\ T # {}
      BY <2>4
    <2> HIDE DEF Bad
    <2> DEFINE a == SomeOf(T)
    <2>7. a \in T /\ T \ {a} \in SUBSET D /\ g[T] = p[a] + g[T \ {a}]
      BY <1>7, <2>6
    <2> HIDE DEF a
    <2>8. Sum(p, T) = p[a] + Sum(p, T \ {a})
      BY <1>2, <2>6, <2>7
    <2>9. a # x
      BY <2>4, <2>8
    <2>10. /\ T \ {a} \in SUBSET T /\ T \ {a} # T /\ x \in T \ {a}
           /\ T \ {x} \in SUBSET T /\ T \ {x} # T /\ a \in T \ {x}
      BY <2>4, <2>7, <2>9
    <2>11. /\ Sum(p, T \ {a}) = p[x] + Sum(p, (T \ {a}) \ {x})
           /\ Sum(p, T \ {x}) = p[a] + Sum(p, (T \ {x}) \ {a})
      BY <2>5, <2>10
    <2>12. (T \ {a}) \ {x} = (T \ {x}) \ {a} /\ (T \ {x}) \ {a} \in SUBSET D
      BY <2>6
    <2>13. Sum(p, (T \ {x}) \ {a}) \in Nat /\ p[a] \in Nat /\ p[x] \in Nat
      BY <1>4, <2>4, <2>6, <2>7, <2>12
    <2> DEFINE rest == Sum(p, (T \ {x}) \ {a})
    <2>14. Sum(p, T) = p[a] + (p[x] + rest) /\ Sum(p, T \ {x}) = p[a] + rest /\ rest \in Nat
      BY <2>8, <2>11, <2>12, <2>13
    <2> HIDE DEF rest
    <2>15. p[a] + (p[x] + rest) = p[x] + (p[a] + rest)
      BY <2>13, <2>14
    <2>16. QED
      BY <2>4, <2>14, <2>15
  <1>8. QED
    BY <1>5, <1>6

\* Sums of what is equal are equal.
LEMMA SumEqual ==
  ASSUME NEW D, IsFiniteSet(D), NEW p, NEW q, \A x \in D : p[x] \in Nat /\ q[x] = p[x]
  PROVE  Sum(q, D) = Sum(p, D)
  <1> DEFINE g == CHOOSE h : Adds(h, p, D)
             k == CHOOSE h : Adds(h, q, D)
  <1>1. (\E h : Adds(h, p, D)) /\ (\E h : Adds(h, q, D))
    BY AddsExists
  <1>2. Adds(g, p, D) /\ Adds(k, q, D)
    BY <1>1
  <1> HIDE DEF g, k
  <1>3. g[D] = k[D]
    BY <1>2, AddsAgree
  <1>4. QED
    BY <1>3 DEF g, k, Sum

\* A sum in two parts.
LEMMA SumParts ==
  ASSUME NEW D, IsFiniteSet(D), NEW p, \A x \in D : p[x] \in Nat, NEW A \in SUBSET D
  PROVE  Sum(p, D) = Sum(p, A) + Sum(p, D \ A)
  <1>1. /\ Sum(p, {}) = 0
        /\ \A T \in SUBSET D : Sum(p, T) \in Nat
        /\ \A T \in SUBSET D : \A x \in T : Sum(p, T) = p[x] + Sum(p, T \ {x})
    BY SumFacts
  <1> DEFINE Bad == {T \in SUBSET D : A \subseteq T /\ Sum(p, T) # Sum(p, A) + Sum(p, T \ A)}
  <1>2. CASE Bad = {}
    BY <1>2
  <1>3. CASE Bad # {}
    <2>1. Bad \subseteq SUBSET D
      OBVIOUS
    <2>2. \E T \in Bad : \A u \in Bad : u \subseteq T => u = T
      <3> HIDE DEF Bad
      <3>1. QED
        BY <1>3, <2>1, LeastSet
    <2>3. PICK T \in Bad : \A u \in Bad : u \subseteq T => u = T
      BY <2>2
    <2>4. /\ T \in SUBSET D /\ A \subseteq T /\ Sum(p, T) # Sum(p, A) + Sum(p, T \ A)
          /\ \A u \in SUBSET T : A \subseteq u /\ u # T => Sum(p, u) = Sum(p, A) + Sum(p, u \ A)
      BY <2>3
    <2> HIDE DEF Bad
    <2>5. CASE T = A
      <3>1. T \ A = {}
        BY <2>5
      <3>2. Sum(p, A) + 0 = Sum(p, A)
        BY <1>1
      <3>3. Sum(p, T) = Sum(p, A) + Sum(p, T \ A)
        BY <1>1, <2>5, <3>1, <3>2
      <3>4. QED
        BY <2>4, <3>3
    <2>6. CASE T # A
      <3>1. PICK x \in T : x \notin A
        BY <2>4, <2>6
      <3> DEFINE u == T \ {x}
      <3>2. u \in SUBSET T /\ A \subseteq u /\ u # T /\ u \in SUBSET D /\ p[x] \in Nat
        BY <2>4, <3>1
      <3>3. (T \ A) \ {x} = u \ A /\ x \in T \ A /\ T \ A \in SUBSET D /\ u \ A \in SUBSET D
        BY <2>4, <3>1
      <3>4. Sum(p, T) = p[x] + Sum(p, u)
        BY <1>1, <2>4
      <3> HIDE DEF u
      <3>5. Sum(p, u) = Sum(p, A) + Sum(p, u \ A)
        BY <2>4, <3>2
      <3>6. Sum(p, T \ A) = p[x] + Sum(p, u \ A)
        BY <1>1, <3>3
      <3>7. Sum(p, A) \in Nat /\ Sum(p, u \ A) \in Nat
        BY <1>1, <3>3
      <3>8. QED
        BY <2>4, <3>2, <3>4, <3>5, <3>6, <3>7
    <2>7. QED
      BY <2>5, <2>6
  <1>4. QED
    BY <1>2, <1>3

\* A sum of nothing but zeros.
LEMMA SumZero ==
  ASSUME NEW D, IsFiniteSet(D), NEW p, \A x \in D : p[x] = 0
  PROVE  Sum(p, D) = 0
  <1>1. /\ Sum(p, {}) = 0
        /\ \A T \in SUBSET D : \A x \in T : Sum(p, T) = p[x] + Sum(p, T \ {x})
    <2>1. \A x \in D : p[x] \in Nat
      OBVIOUS
    <2>2. QED
      BY <2>1, SumFacts
  <1> DEFINE Bad == {T \in SUBSET D : Sum(p, T) # 0}
  <1>2. CASE Bad = {}
    BY <1>2
  <1>3. CASE Bad # {}
    <2>1. Bad \subseteq SUBSET D
      OBVIOUS
    <2>2. \E T \in Bad : \A u \in Bad : u \subseteq T => u = T
      <3> HIDE DEF Bad
      <3>1. QED
        BY <1>3, <2>1, LeastSet
    <2>3. PICK T \in Bad : \A u \in Bad : u \subseteq T => u = T
      BY <2>2
    <2>4. T \in SUBSET D /\ Sum(p, T) # 0 /\ \A u \in SUBSET T : u # T => Sum(p, u) = 0
      BY <2>3
    <2> HIDE DEF Bad
    <2>5. PICK x \in T : TRUE
      BY <1>1, <2>4
    <2>6. p[x] = 0 /\ T \ {x} \in SUBSET T /\ T \ {x} # T
      BY <2>4
    <2>7. Sum(p, T) = p[x] + Sum(p, T \ {x}) /\ Sum(p, T \ {x}) = 0
      BY <1>1, <2>4, <2>6
    <2>8. QED
      BY <2>4, <2>6, <2>7
  <1>4. QED
    BY <1>2, <1>3

\* A sum is the same over what the elements are moved to, one by one.
LEMMA SumMoved ==
  ASSUME NEW D, IsFiniteSet(D), NEW m, \A i, j \in D : m[i] = m[j] => i = j,
         NEW p, NEW q, \A i \in D : p[i] \in Nat /\ q[m[i]] = p[i]
  PROVE  Sum(q, {m[i] : i \in D}) = Sum(p, D)
  <1> DEFINE Moved(T) == {m[i] : i \in T}
             Bad == {T \in SUBSET D : Sum(q, Moved(T)) # Sum(p, T)}
  <1>1. /\ Sum(p, {}) = 0
        /\ \A T \in SUBSET D : \A x \in T : Sum(p, T) = p[x] + Sum(p, T \ {x})
    <2>1. \A i \in D : p[i] \in Nat
      OBVIOUS
    <2>2. QED
      BY <2>1, SumFacts
  <1>2. IsFiniteSet(Moved(D)) /\ \A j \in Moved(D) : q[j] \in Nat
    <2>1. [i \in D |-> m[i]] \in Surjection(D, Moved(D))
      BY DEF Surjection
    <2>2. IsFiniteSet(Moved(D))
      <3> HIDE DEF Moved
      <3>1. QED
        BY <2>1, FS_Surjection
    <2>3. QED
      BY <2>2
  <1>3. /\ Sum(q, {}) = 0
        /\ \A T \in SUBSET Moved(D) : \A x \in T : Sum(q, T) = q[x] + Sum(q, T \ {x})
    <2> HIDE DEF Moved
    <2>1. QED
      BY <1>2, SumFacts
  <1>4. CASE Bad = {}
    BY <1>4
  <1>5. CASE Bad # {}
    <2>1. Bad \subseteq SUBSET D
      OBVIOUS
    <2>2. \E T \in Bad : \A u \in Bad : u \subseteq T => u = T
      <3> HIDE DEF Bad
      <3>1. QED
        BY <1>5, <2>1, LeastSet
    <2>3. PICK T \in Bad : \A u \in Bad : u \subseteq T => u = T
      BY <2>2
    <2>4. /\ T \in SUBSET D /\ Sum(q, Moved(T)) # Sum(p, T)
          /\ \A u \in SUBSET T : u # T => Sum(q, Moved(u)) = Sum(p, u)
      BY <2>3
    <2> HIDE DEF Bad
    <2>5. CASE T = {}
      <3>1. Moved(T) = {}
        BY <2>5
      <3>2. QED
        BY <1>1, <1>3, <2>4, <2>5, <3>1
    <2>6. CASE T # {}
      <3>1. PICK x \in T : TRUE
        BY <2>6
      <3>2. T \ {x} \in SUBSET T /\ T \ {x} # T /\ x \in D
        BY <2>4
      <3>3. Moved(T) \in SUBSET Moved(D) /\ m[x] \in Moved(T)
        BY <2>4
      <3>4. Moved(T) \ {m[x]} = Moved(T \ {x})
        BY <2>4, <3>2
      <3> HIDE DEF Moved
      <3>5. Sum(q, Moved(T)) = q[m[x]] + Sum(q, Moved(T \ {x}))
        BY <1>3, <3>3, <3>4
      <3>6. Sum(q, Moved(T \ {x})) = Sum(p, T \ {x}) /\ Sum(p, T) = p[x] + Sum(p, T \ {x}) /\ q[m[x]] = p[x]
        BY <1>1, <2>4, <3>2
      <3>7. QED
        BY <2>4, <3>5, <3>6
    <2>7. QED
      BY <2>5, <2>6
  <1>6. QED
    BY <1>4, <1>5

-----------------------------------------------------------------------------
(* The rate limiter: the tokens a bucket has lost since its last refill    *)
(* are the requests served since then.                                     *)

LEMMA LastMinuteIsSum == \A k : LastMinute(k) = Sum(served[k], Window)
  BY DEF LastMinute, MapThenSumSet, MapThenFoldSet, Sum, Adds, SomeOf

LEMMA Intervals == \A a, b \in Int : IsFiniteSet(a..b)
  BY FS_Interval

\* The window in two parts, at the age of a bucket.
LEMMA SumSplit ==
  ASSUME NEW p \in [Window -> Nat], NEW a \in Window
  PROVE  /\ Sum(p, Window) = Sum(p, 0..a) + Sum(p, (a + 1)..RefillAfter)
         /\ Sum(p, 0..a) \in Nat /\ Sum(p, (a + 1)..RefillAfter) \in Nat
  <1> USE TimesAssumption DEF Window
  <1>1. IsFiniteSet(Window) /\ (\A x \in Window : p[x] \in Nat)
    <2>1. 0 \in Int /\ RefillAfter \in Int
      OBVIOUS
    <2>2. QED
      BY <2>1, Intervals
  <1>2. (0..a) \in SUBSET Window /\ ((a + 1)..RefillAfter) \in SUBSET Window
    OBVIOUS
  <1>3. Window \ (0..a) = (a + 1)..RefillAfter
    OBVIOUS
  <1> HIDE DEF Window
  <1>4. \A T \in SUBSET Window : Sum(p, T) \in Nat
    BY <1>1, SumFacts
  <1>5. Sum(p, Window) = Sum(p, 0..a) + Sum(p, Window \ (0..a))
    BY <1>1, <1>2, SumParts
  <1>6. QED
    BY <1>2, <1>3, <1>4, <1>5

\* A request more, now.
LEMMA SumServe ==
  ASSUME NEW p \in [Window -> Nat], NEW a \in Window
  PROVE  LET q == [p EXCEPT ![0] = @ + 1]
         IN  /\ q \in [Window -> Nat]
             /\ Sum(q, 0..a) = Sum(p, 0..a) + 1
             /\ Sum(q, (a + 1)..RefillAfter) = Sum(p, (a + 1)..RefillAfter)
  <1> USE TimesAssumption
  <1> DEFINE q == [p EXCEPT ![0] = @ + 1]
             D == 0..a
             E == (a + 1)..RefillAfter
  <1>1. D \subseteq Window /\ E \subseteq Window /\ 0 \in D /\ 0 \notin E
    BY DEF Window
  <1>2. q \in [Window -> Nat] /\ q[0] = p[0] + 1 /\ \A x \in Window \ {0} : q[x] = p[x]
    BY <1>1
  <1>3. IsFiniteSet(D) /\ IsFiniteSet(E) /\ IsFiniteSet(D \ {0})
    <2>1. 0 \in Int /\ a \in Int /\ a + 1 \in Int /\ RefillAfter \in Int
      BY DEF Window
    <2>2. IsFiniteSet(D) /\ IsFiniteSet(E)
      BY <2>1, Intervals
    <2>3. QED
      BY <2>2, FS_Subset
  <1> HIDE DEF q, D, E
  <1>4. (\A x \in D : p[x] \in Nat) /\ (\A x \in D : q[x] \in Nat)
    BY <1>1, <1>2
  <1>5. Sum(p, D) = p[0] + Sum(p, D \ {0}) /\ Sum(p, D \ {0}) \in Nat
    BY <1>1, <1>3, <1>4, SumFacts
  <1>6. Sum(q, D) = q[0] + Sum(q, D \ {0})
    BY <1>1, <1>3, <1>4, SumFacts
  <1>7. Sum(q, D \ {0}) = Sum(p, D \ {0})
    <2>1. \A x \in D \ {0} : p[x] \in Nat /\ q[x] = p[x]
      BY <1>1, <1>2
    <2>2. QED
      BY <1>3, <2>1, SumEqual
  <1>8. Sum(q, E) = Sum(p, E)
    <2>1. \A x \in E : p[x] \in Nat /\ q[x] = p[x]
      BY <1>1, <1>2
    <2>2. QED
      BY <1>3, <2>1, SumEqual
  <1>9. p[0] \in Nat
    BY <1>1, <1>4
  <1>10. Sum(q, D) = Sum(p, D) + 1
    BY <1>2, <1>5, <1>6, <1>7, <1>9
  <1>11. QED
    BY <1>2, <1>8, <1>10 DEF q, D, E

\* A tick later: what was served is a tick older.
Aged(p) == [i \in Window |-> IF i = 0 THEN 0 ELSE p[i - 1]]

LEMMA AgedSum ==
  ASSUME NEW p \in [Window -> Nat], NEW a \in Nat, NEW b \in Window, b < RefillAfter
  PROVE  Sum(Aged(p), (a + 1)..(b + 1)) = Sum(p, a..b)
  <1> USE TimesAssumption
  <1> DEFINE m == [i \in a..b |-> i + 1]
             D == a..b
             q == Aged(p)
  <1>1. \A i, j \in D : m[i] = m[j] => i = j
    OBVIOUS
  <1>2. \A i \in D : p[i] \in Nat /\ q[m[i]] = p[i]
    BY DEF Aged, Window
  <1>3. {m[i] : i \in D} = (a + 1)..(b + 1)
    <2>1. \A j \in (a + 1)..(b + 1) : j - 1 \in D /\ m[j - 1] = j
      BY DEF Window
    <2>2. \A i \in D : m[i] \in (a + 1)..(b + 1)
      BY DEF Window
    <2> HIDE DEF D, m
    <2>3. QED
      BY <2>1, <2>2
  <1>4. IsFiniteSet(D)
    BY Intervals DEF Window
  <1> HIDE DEF m, D, q
  <1>5. Sum(q, {m[i] : i \in D}) = Sum(p, D)
    BY <1>1, <1>2, <1>4, SumMoved
  <1>6. QED
    BY <1>3, <1>5 DEF D, q

LEMMA AgedFacts ==
  ASSUME NEW p \in [Window -> Nat], NEW a \in Window
  PROVE  /\ Aged(p) \in [Window -> Nat] /\ Aged(p)[0] = 0
         /\ Sum(Aged(p), 0..0) = 0
         /\ a < RefillAfter => Sum(Aged(p), 0..(a + 1)) = Sum(p, 0..a)
         /\ a < RefillAfter => Sum(Aged(p), (a + 2)..RefillAfter) <= Sum(p, (a + 1)..RefillAfter)
         /\ Sum(Aged(p), Window) <= Sum(p, Window)
         /\ a = RefillAfter => Sum(Aged(p), Window) <= Sum(p, 0..a)
  <1> USE TimesAssumption
  <1> DEFINE q == Aged(p)
             top == RefillAfter
  <1>1. q \in [Window -> Nat] /\ q[0] = 0 /\ 0 \in Window
    BY DEF Aged, Window
  <1>2. \A b \in Window : IsFiniteSet(0..b) /\ (0..b) \subseteq Window /\ 0 \in 0..b /\ (0..b) \ {0} = 1..b
    <2>1. \A b \in Window : 0 \in Int /\ b \in Int
      BY DEF Window
    <2>2. \A b \in Window : IsFiniteSet(0..b)
      BY <2>1, Intervals
    <2>3. QED
      BY <2>2 DEF Window
  <1>3. ASSUME NEW b \in Window PROVE Sum(q, 0..b) = Sum(q, 1..b) /\ Sum(q, 1..b) \in Nat
    <2> DEFINE D == 0..b
    <2>1. IsFiniteSet(D) /\ 0 \in D /\ D \ {0} = 1..b /\ (\A x \in D : q[x] \in Nat)
      BY <1>1, <1>2, <1>3
    <2> HIDE DEF D, q
    <2>2. Sum(q, D) = q[0] + Sum(q, D \ {0}) /\ Sum(q, D \ {0}) \in Nat
      BY <2>1, SumFacts
    <2>3. q[0] = 0
      BY <1>1
    <2>4. Sum(q, D) = Sum(q, D \ {0}) /\ Sum(q, D \ {0}) \in Nat
      BY <2>2, <2>3
    <2>5. Sum(q, D) = Sum(q, 1..b) /\ Sum(q, 1..b) \in Nat
      BY <2>1, <2>4, Zenon
    <2>6. QED
      BY <2>5 DEF D
  <1>4. Sum(q, 0..0) = 0
    <2>1. IsFiniteSet({}) /\ (\A x \in {} : q[x] \in Nat)
      BY FS_EmptySet
    <2>2. Sum(q, {}) = 0
      BY <2>1, SumFacts
    <2>3. 1..0 = {}
      OBVIOUS
    <2>4. QED
      BY <1>1, <1>3, <2>2, <2>3
  <1>5. ASSUME NEW b \in Window, b < top PROVE Sum(q, 0..(b + 1)) = Sum(p, 0..b)
    <2>1. b + 1 \in Window /\ 0 + 1 = 1
      BY <1>5 DEF Window
    <2>2. Sum(q, (0 + 1)..(b + 1)) = Sum(p, 0..b)
      BY <1>5, AgedSum
    <2>3. QED
      BY <1>3, <2>1, <2>2
  <1>6. ASSUME NEW b \in Window, b < top PROVE Sum(q, (b + 2)..top) <= Sum(p, (b + 1)..top)
    <2> DEFINE c == top - 1
               D == (b + 1)..c
    <2>1. c \in Window /\ c < top /\ b + 1 \in Nat /\ c + 1 = top /\ (b + 1) + 1 = b + 2
      BY <1>6 DEF Window
    <2>2. Sum(q, (b + 2)..top) = Sum(p, D)
      <3>1. Sum(q, ((b + 1) + 1)..(c + 1)) = Sum(p, (b + 1)..c)
        BY <2>1, AgedSum
      <3>2. QED
        BY <2>1, <3>1
    <2> DEFINE E == (b + 1)..top
    <2>3. IsFiniteSet(E) /\ D \in SUBSET E /\ (\A x \in E : p[x] \in Nat) /\ E \ D \in SUBSET E
      <3>1. b + 1 \in Int /\ top \in Int
        BY <2>1
      <3>2. IsFiniteSet(E)
        BY <3>1, Intervals
      <3>3. QED
        BY <3>2 DEF Window
    <2> HIDE DEF D, E
    <2>4. Sum(p, E) = Sum(p, D) + Sum(p, E \ D)
      BY <2>3, SumParts
    <2>5. Sum(p, D) \in Nat /\ Sum(p, E \ D) \in Nat
      BY <2>3, SumFacts
    <2>6. QED
      BY <2>2, <2>4, <2>5 DEF E
  <1>7. Sum(q, Window) <= Sum(p, Window)
    <2> DEFINE c == top - 1
    <2>1. c \in Window /\ c < top /\ c + 1 = top /\ Window = 0..top
      BY DEF Window
    <2>2. Sum(q, Window) = Sum(p, 0..c)
      BY <1>5, <2>1
    <2>3. Sum(p, Window) = Sum(p, 0..c) + Sum(p, (c + 1)..top) /\ Sum(p, 0..c) \in Nat /\ Sum(p, (c + 1)..top) \in Nat
      BY <2>1, SumSplit
    <2>4. QED
      BY <2>2, <2>3
  <1>8. QED
    BY <1>1, <1>4, <1>5, <1>6, <1>7 DEF Window

\* What is served of p since the bucket was made is what its tokens lack; the
\* older part of the minute was under the bucket before, which had Limit too.
Counts(b, p) ==
  /\ Sum(p, 0..b.age) + b.tokens = Limit
  /\ Sum(p, (b.age + 1)..RefillAfter) <= Limit

\* Of an endpoint whose bucket is due, or that has none, nothing is served yet
\* in this tick, and no more than Limit in the minute.
Honest(buckets, p, k) ==
  IF k \in DOMAIN buckets /\ buckets[k].age <= RefillAfter
    THEN Counts(buckets[k], p)
    ELSE p[0] = 0 /\ Sum(p, Window) <= Limit

LimiterInv ==
  /\ TypeOK
  /\ IsFiniteSet(DOMAIN requests)
  /\ \A k \in Keys : Honest(requests, served[k], k)

\* A bucket made while nothing is served yet in this tick.
LEMMA MadeAnew ==
  ASSUME NEW p \in [Window -> Nat], p[0] = 0, Sum(p, Window) <= Limit
  PROVE  Counts(NewBucket, p)
  <1> USE LimitsAssumption, TimesAssumption
  <1> DEFINE D == {0}
  <1>1. 0 \in Window /\ D = 0..0 /\ D \ {0} = {}
    BY DEF Window
  <1>2. IsFiniteSet(D) /\ 0 \in D /\ \A x \in D : p[x] \in Nat
    BY <1>1, FS_Singleton
  <1> HIDE DEF D
  <1>3. Sum(p, D) = p[0] + Sum(p, D \ {0}) /\ Sum(p, {}) = 0
    BY <1>2, SumFacts
  <1>4. Sum(p, D) = p[0] + Sum(p, {})
    BY <1>1, <1>3, Zenon
  <1>5. Sum(p, D) = 0
    BY <1>3, <1>4
  <1>6. Sum(p, 0..0) = 0
    BY <1>1, <1>5, Zenon
  <1>7. Sum(p, Window) = Sum(p, 0..0) + Sum(p, (0 + 1)..RefillAfter) /\ Sum(p, (0 + 1)..RefillAfter) \in Nat
    BY <1>1, SumSplit
  <1>8. Sum(p, (0 + 1)..RefillAfter) <= Limit
    BY <1>6, <1>7
  <1>9. NewBucket.age = 0 /\ NewBucket.tokens = Limit
    BY DEF NewBucket
  <1>10. QED
    BY <1>6, <1>8, <1>9 DEF Counts

LEMMA HonestFacts ==
  ASSUME LimiterInv, NEW k \in Keys
  PROVE  /\ served[k] \in [Window -> Nat] /\ LastMinute(k) \in Nat
         /\ LastMinute(k) <= 2 * Limit
         /\ k \in DOMAIN requests /\ requests[k].age <= RefillAfter =>
              LastMinute(k) >= Limit - requests[k].tokens
  <1> USE LimitsAssumption, TimesAssumption
  <1>1. served[k] \in [Window -> Nat] /\ Honest(requests, served[k], k)
    BY DEF LimiterInv, TypeOK
  <1>2. LastMinute(k) = Sum(served[k], Window)
    BY LastMinuteIsSum
  <1>3. CASE k \in DOMAIN requests /\ requests[k].age <= RefillAfter
    <2>1. requests[k] \in Bucket /\ requests[k].age \in Window /\ requests[k].tokens \in 0..Limit
      BY <1>3 DEF LimiterInv, TypeOK, Bucket, Window
    <2> DEFINE a == requests[k].age
               p == served[k]
    <2>2. a \in Window /\ p \in [Window -> Nat] /\ requests[k].tokens \in 0..Limit
      BY <1>1, <2>1
    <2>3. Sum(p, 0..a) + requests[k].tokens = Limit /\ Sum(p, (a + 1)..RefillAfter) <= Limit
      BY <1>1, <1>3 DEF Honest, Counts
    <2> HIDE DEF a, p
    <2>4. /\ Sum(p, Window) = Sum(p, 0..a) + Sum(p, (a + 1)..RefillAfter)
          /\ Sum(p, 0..a) \in Nat /\ Sum(p, (a + 1)..RefillAfter) \in Nat
      BY <2>2, SumSplit
    <2>5. Sum(p, Window) \in Nat /\ Sum(p, Window) <= 2 * Limit /\ Sum(p, Window) >= Limit - requests[k].tokens
      BY <2>2, <2>3, <2>4
    <2>6. QED
      BY <1>1, <1>2, <2>5 DEF p
  <1>4. CASE ~(k \in DOMAIN requests /\ requests[k].age <= RefillAfter)
    <2>1. Sum(served[k], Window) <= Limit
      BY <1>1, <1>4 DEF Honest
    <2>2. 0 \in Window
      BY DEF Window
    <2>3. Sum(served[k], Window) \in Nat
      BY <1>1, <2>2, SumSplit
    <2>4. QED
      BY <1>1, <1>2, <1>4, <2>1, <2>3
  <1>5. QED
    BY <1>3, <1>4

\* A request finds every bucket honest, its own among them unless it is swept.
LEMMA LeftHonest ==
  ASSUME LimiterInv, NEW r \in Requests, NEW L, L = Left(r)
  PROVE  /\ DOMAIN L \subseteq Keys /\ IsFiniteSet(DOMAIN L)
         /\ \A j \in DOMAIN L : L[j] \in Bucket
         /\ \A k \in Keys : Honest(L, served[k], k)
         /\ key[r] \in Keys
         /\ Cardinality(DOMAIN L) > MaxBuckets => \A j \in DOMAIN L : ~Stale(L[j])
  <1> USE LimitsAssumption, TimesAssumption
  <1> DEFINE k == key[r]
             B == WithBucket(k)
  <1>1. k \in Keys /\ NewBucket \in Bucket /\ ~Stale(NewBucket)
    BY DEF LimiterInv, TypeOK, NewBucket, Bucket, Oldest, Stale
  <1>2. /\ DOMAIN B = DOMAIN requests \cup {k} /\ IsFiniteSet(DOMAIN B)
        /\ \A j \in DOMAIN B : B[j] = IF j \in DOMAIN requests THEN requests[j] ELSE NewBucket
    BY FS_AddElement DEF LimiterInv, WithBucket
  <1>3. /\ DOMAIN L = {i \in DOMAIN B : SweepDue(B) => ~Stale(B[i])}
        /\ \A j \in DOMAIN L : L[j] = B[j]
    BY DEF Left, Swept
  <1>4. IsFiniteSet(DOMAIN L) /\ Cardinality(DOMAIN L) <= Cardinality(DOMAIN B)
        /\ Cardinality(DOMAIN L) \in Nat /\ Cardinality(DOMAIN B) \in Nat
    <2>1. DOMAIN L \subseteq DOMAIN B
      BY <1>3
    <2> HIDE DEF B
    <2>2. QED
      BY <1>2, <2>1, FS_Subset, FS_CardinalityType
  <1> HIDE DEF B
  <1>5. DOMAIN L \subseteq Keys /\ \A j \in DOMAIN L : L[j] \in Bucket
    BY <1>1, <1>2, <1>3 DEF LimiterInv, TypeOK
  <1>6. Cardinality(DOMAIN L) > MaxBuckets => \A j \in DOMAIN L : ~Stale(L[j])
    <2>1. Cardinality(DOMAIN L) > MaxBuckets => SweepDue(B)
      BY <1>4 DEF SweepDue
    <2>2. QED
      BY <1>3, <2>1
  <1>7. ASSUME NEW j \in Keys PROVE Honest(L, served[j], j)
    <2>1. Honest(requests, served[j], j) /\ served[j] \in [Window -> Nat] /\ 0 \in Window
      BY DEF LimiterInv, TypeOK, Window
    <2>2. CASE j \in DOMAIN L /\ j \in DOMAIN requests
      <3>1. L[j] = requests[j]
        BY <1>2, <1>3, <2>2
      <3>2. QED
        BY <2>1, <2>2, <3>1 DEF Honest
    <2>3. CASE j \in DOMAIN L /\ j \notin DOMAIN requests
      <3> DEFINE p == served[j]
      <3>1. L[j] = NewBucket /\ p[0] = 0 /\ Sum(p, Window) <= Limit
        BY <1>2, <1>3, <2>1, <2>3 DEF Honest
      <3>2. p \in [Window -> Nat]
        BY <2>1
      <3> HIDE DEF p
      <3>3. Counts(NewBucket, p)
        BY <3>1, <3>2, MadeAnew
      <3>4. QED
        BY <2>3, <3>1, <3>3 DEF Honest, p, NewBucket
    <2>4. CASE j \notin DOMAIN L
      <3>1. CASE j \notin DOMAIN requests
        BY <2>1, <2>4, <3>1 DEF Honest
      <3>2. CASE j \in DOMAIN requests
        <4>1. Stale(requests[j]) /\ requests[j] \in Bucket
          BY <1>2, <1>3, <2>4, <3>2 DEF LimiterInv, TypeOK
        <4>2. ~(requests[j].age <= RefillAfter)
          BY <4>1 DEF Stale, Bucket, Oldest
        <4>3. QED
          BY <2>1, <2>4, <4>2 DEF Honest
      <3>3. QED
        BY <3>1, <3>2
    <2>5. QED
      BY <2>2, <2>3, <2>4
  <1>8. QED
    BY <1>1, <1>4, <1>5, <1>6, <1>7

\* What a due bucket is refilled to is as honest.
LEMMA RefilledHonest ==
  ASSUME NEW b \in Bucket, NEW p \in [Window -> Nat],
         IF b.age <= RefillAfter THEN Counts(b, p) ELSE p[0] = 0 /\ Sum(p, Window) <= Limit
  PROVE  /\ Refilled(b) \in Bucket /\ Counts(Refilled(b), p) /\ Refilled(b).age \in Window
         /\ ~TokenLeft(Refilled(b)) => Refilled(b) = b /\ b.tokens = 0 /\ b.age <= RefillAfter
         /\ ~Stale(Refilled(b))
  <1> USE LimitsAssumption, TimesAssumption
  <1>1. b.age \in 0..Oldest /\ b.tokens \in 0..Limit /\ Oldest \in Nat
    BY DEF Bucket, Oldest
  <1>2. CASE b.age <= RefillAfter
    <2>1. Refilled(b) = b
      BY <1>1, <1>2 DEF Refilled
    <2>2. QED
      BY <1>1, <1>2, <2>1 DEF Window, TokenLeft, Stale
  <1>3. CASE ~(b.age <= RefillAfter)
    <2>1. Refilled(b) = NewBucket /\ NewBucket.age = 0 /\ NewBucket.tokens = Limit
      BY <1>1, <1>3 DEF Refilled, NewBucket
    <2>2. NewBucket \in Bucket /\ 0 \in Window
      BY <1>1 DEF NewBucket, Bucket, Window
    <2>3. Counts(NewBucket, p)
      BY <1>3, <2>2, MadeAnew
    <2>4. QED
      BY <2>1, <2>2, <2>3 DEF TokenLeft, Stale
  <1>4. QED
    BY <1>2, <1>3

\* A request that finds its bucket: what it leaves there is honest when the
\* request is refused, and when it is served.
LEMMA HandleHonest ==
  ASSUME LimiterInv, NEW r \in Requests, key[r] \in DOMAIN Left(r), NEW b, b = Refilled(Left(r)[key[r]])
  PROVE  /\ b \in Bucket /\ b.age \in Window /\ ~Stale(b)
         /\ Counts(b, served[key[r]])
         /\ ~TokenLeft(b) => LastMinute(key[r]) >= Limit
  <1> DEFINE k == key[r]
             L == Left(r)
             p == served[k]
  <1>1. /\ k \in Keys /\ L[k] \in Bucket /\ Honest(L, p, k)
    <2> HIDE DEF L
    <2>1. L = Left(r) /\ k \in DOMAIN L
      BY DEF L
    <2>2. QED
      BY <2>1, LeftHonest
  <1>2. p \in [Window -> Nat]
    BY <1>1 DEF LimiterInv, TypeOK
  <1>3. IF L[k].age <= RefillAfter THEN Counts(L[k], p) ELSE p[0] = 0 /\ Sum(p, Window) <= Limit
    BY <1>1 DEF Honest
  <1> HIDE DEF L, p
  <1>4. /\ b = Refilled(L[k])
        /\ b \in Bucket /\ Counts(b, p) /\ b.age \in Window
        /\ ~TokenLeft(b) => b = L[k] /\ L[k].tokens = 0 /\ L[k].age <= RefillAfter
        /\ ~Stale(b)
    <2>1. b = Refilled(L[k])
      BY DEF L
    <2>2. QED
      BY <1>1, <1>2, <1>3, <2>1, RefilledHonest
  <1>5. ~TokenLeft(b) => LastMinute(k) >= Limit
    <2>1. ASSUME ~TokenLeft(b) PROVE LastMinute(k) >= Limit
      <3>1. b.tokens = 0 /\ Counts(b, p)
        BY <1>4, <2>1
      <3>2. Sum(p, 0..b.age) + 0 = Limit
        BY <3>1 DEF Counts
      <3>3. Sum(p, Window) = Sum(p, 0..b.age) + Sum(p, (b.age + 1)..RefillAfter)
            /\ Sum(p, 0..b.age) \in Nat /\ Sum(p, (b.age + 1)..RefillAfter) \in Nat
        BY <1>2, <1>4, SumSplit
      <3>4. Sum(p, Window) >= Limit
        BY <3>2, <3>3, LimitsAssumption
      <3>5. QED
        BY <3>4, LastMinuteIsSum DEF p
    <2>2. QED
      BY <2>1
  <1>6. QED
    BY <1>4, <1>5 DEF p

\* What a request leaves: its endpoint's bucket and history, and the others'.
LEMMA PutBack ==
  ASSUME LimiterInv, NEW r \in Requests, NEW k, k = key[r], k \in DOMAIN Left(r),
         NEW b \in Bucket, b.age \in Window, NEW p \in [Window -> Nat], Counts(b, p),
         requests' = [Left(r) EXCEPT ![k] = b], served' = [served EXCEPT ![k] = p]
  PROVE  /\ DOMAIN requests' \subseteq Keys /\ IsFiniteSet(DOMAIN requests')
         /\ \A j \in DOMAIN requests' : requests'[j] \in Bucket
         /\ served' \in [Keys -> [Window -> Nat]]
         /\ \A j \in Keys : Honest(requests', served'[j], j)
  <1> DEFINE L == Left(r)
  <1>1. /\ DOMAIN L \subseteq Keys /\ IsFiniteSet(DOMAIN L) /\ k \in Keys
        /\ \A j \in DOMAIN L : L[j] \in Bucket
        /\ \A j \in Keys : Honest(L, served[j], j)
    <2> HIDE DEF L
    <2>1. L = Left(r)
      BY DEF L
    <2>2. QED
      BY <2>1, LeftHonest
  <1>2. requests' = [L EXCEPT ![k] = b] /\ k \in DOMAIN L
    OBVIOUS
  <1> HIDE DEF L
  <1>3. DOMAIN requests' = DOMAIN L /\ requests'[k] = b /\ \A j \in DOMAIN L \ {k} : requests'[j] = L[j]
    <2>1. ASSUME NEW F, F = [L EXCEPT ![k] = b]
          PROVE  DOMAIN F = DOMAIN L /\ F[k] = b /\ \A j \in DOMAIN L \ {k} : F[j] = L[j]
      BY <1>2, <2>1
    <2>2. QED
      BY <1>2, <2>1
  <1>4. served' \in [Keys -> [Window -> Nat]] /\ served'[k] = p /\ \A j \in Keys \ {k} : served'[j] = served[j]
    BY <1>1 DEF LimiterInv, TypeOK
  <1>5. Honest(requests', served'[k], k)
    <2>1. b.age <= RefillAfter
      BY TimesAssumption DEF Window
    <2>2. QED
      BY <1>2, <1>3, <1>4, <2>1 DEF Honest
  <1>6. ASSUME NEW j \in Keys \ {k} PROVE Honest(requests', served'[j], j)
    BY <1>1, <1>3, <1>4 DEF Honest
  <1>7. \A j \in DOMAIN requests' : requests'[j] \in Bucket
    BY <1>1, <1>3
  <1>8. QED
    BY <1>1, <1>3, <1>4, <1>5, <1>6, <1>7

LEMMA LimiterStarts == Init => LimiterInv
  <1> USE LimitsAssumption, TimesAssumption
  <1>1. SUFFICES ASSUME Init PROVE LimiterInv
    OBVIOUS
  <1>2. TypeOK /\ IsFiniteSet(DOMAIN requests) /\ DOMAIN requests = {}
    <2>1. DOMAIN requests = {}
      BY <1>1 DEF Init
    <2>2. served \in [Keys -> [Window -> Nat]] /\ sweepAge \in 0..SweepEvery
      BY <1>1 DEF Init
    <2>3. locked \in BOOLEAN /\ pc \in [Requests -> {"idle", "waiting", "served", "rejected", "panicked"}]
          /\ key \in [Requests -> Keys]
      BY <1>1 DEF Init
    <2>4. QED
      BY <2>1, <2>2, <2>3, FS_EmptySet DEF TypeOK
  <1>3. ASSUME NEW k \in Keys PROVE served[k][0] = 0 /\ Sum(served[k], Window) <= Limit
    <2>1. 0 \in Int /\ RefillAfter \in Int /\ 0 \in Window /\ \A i \in Window : served[k][i] = 0
      BY <1>1, <1>3 DEF Init, Window
    <2>2. IsFiniteSet(Window)
      BY <2>1, Intervals DEF Window
    <2>3. Sum(served[k], Window) = 0
      BY <2>1, <2>2, SumZero
    <2>4. QED
      BY <2>1, <2>3
  <1>4. QED
    BY <1>2, <1>3 DEF LimiterInv, Honest

LEMMA TickHonest ==
  ASSUME LimiterInv, Tick
  PROVE  LimiterInv'
  <1> USE LimitsAssumption, TimesAssumption
  <1>1. /\ DOMAIN requests' = DOMAIN requests
        /\ \A k \in DOMAIN requests : /\ requests'[k].age = Older(requests[k].age, Oldest)
                                      /\ requests'[k].tokens = requests[k].tokens
                                      /\ requests'[k] \in Bucket
    <2>1. requests' = [k \in DOMAIN requests |-> [requests[k] EXCEPT !.age = Older(requests[k].age, Oldest)]]
      BY DEF Tick
    <2>2. ASSUME NEW k \in DOMAIN requests
          PROVE  /\ requests[k] \in Bucket /\ Older(requests[k].age, Oldest) \in 0..Oldest
      BY DEF LimiterInv, TypeOK, Bucket, Older, Oldest
    <2>3. QED
      BY <2>1, <2>2 DEF Bucket
  <1>2. \A k \in Keys : served'[k] = Aged(served[k]) /\ served[k] \in [Window -> Nat]
    BY DEF Tick, Aged, LimiterInv, TypeOK
  <1>3. served' \in [Keys -> [Window -> Nat]]
    <2>1. \A k \in Keys : served'[k] \in [Window -> Nat]
      <3>1. 0 \in Window
        BY DEF Window
      <3>2. QED
        BY <1>2, <3>1, AgedFacts
    <2>2. DOMAIN served' = Keys /\ served' = [k \in Keys |-> served'[k]]
      BY DEF Tick
    <2>3. QED
      BY <2>1, <2>2
  <1>4. TypeOK'
    <2>1. sweepAge' \in 0..SweepEvery
      BY DEF LimiterInv, TypeOK, Tick, Older
    <2>2. \A k \in DOMAIN requests' : requests'[k] \in Bucket
      BY <1>1
    <2>3. QED
      BY <1>1, <1>3, <2>1, <2>2 DEF LimiterInv, TypeOK, Tick
  <1>5. ASSUME NEW k \in Keys PROVE Honest(requests', served'[k], k)
    <2> DEFINE p == served[k]
               q == Aged(p)
               a == requests[k].age
    <2>1. p \in [Window -> Nat] /\ served'[k] = q /\ Honest(requests, p, k) /\ 0 \in Window
      BY <1>2 DEF LimiterInv, Window
    <2> HIDE DEF p, q
    <2>2. q[0] = 0 /\ Sum(q, Window) <= Sum(p, Window) /\ Sum(q, Window) \in Nat /\ Sum(p, Window) \in Nat
      <3>1. q \in [Window -> Nat] /\ q[0] = 0 /\ Sum(q, Window) <= Sum(p, Window)
        BY <2>1, AgedFacts DEF q
      <3>2. Sum(q, Window) \in Nat /\ Sum(p, Window) \in Nat
        BY <2>1, <3>1, SumSplit
      <3>3. QED
        BY <3>1, <3>2
    <2>3. k \in DOMAIN requests => a \in 0..Oldest /\ requests'[k].age = (IF a < Oldest THEN a + 1 ELSE a)
                                   /\ requests'[k].tokens = requests[k].tokens /\ requests[k].tokens \in 0..Limit
      BY <1>1 DEF LimiterInv, TypeOK, Bucket, Older
    <2>4. Oldest \in Nat /\ RefillAfter < Oldest
      BY DEF Oldest
    <2>5. CASE k \in DOMAIN requests /\ a < RefillAfter
      <3>1. a \in Window /\ a + 1 <= RefillAfter /\ requests'[k].age = a + 1 /\ (a + 1) + 1 = a + 2
        BY <2>3, <2>4, <2>5 DEF Window
      <3>2. Counts(requests[k], p)
        BY <2>1, <2>3, <2>5 DEF Honest
      <3>3. /\ Sum(q, 0..(a + 1)) = Sum(p, 0..a)
            /\ Sum(q, (a + 2)..RefillAfter) <= Sum(p, (a + 1)..RefillAfter)
        <4> HIDE DEF a
        <4>1. QED
          BY <2>1, <2>5, <3>1, AgedFacts DEF q
      <3>4. Sum(p, (a + 1)..RefillAfter) \in Nat
        BY <2>1, <3>1, SumSplit
      <3>5. a + 1 \in Window
        BY <2>3, <3>1 DEF Window
      <3>6. q \in [Window -> Nat]
        BY <2>1, AgedFacts DEF q
      <3>7. Sum(q, ((a + 1) + 1)..RefillAfter) \in Nat
        BY <3>5, <3>6, SumSplit
      <3>8. Sum(q, ((a + 1) + 1)..RefillAfter) <= Sum(p, (a + 1)..RefillAfter)
        BY <3>1, <3>3
      <3>9. Counts(requests'[k], q)
        <4>1. Sum(p, 0..a) + requests[k].tokens = Limit /\ Sum(p, (a + 1)..RefillAfter) <= Limit
          BY <3>2 DEF Counts
        <4>2. Sum(q, 0..(a + 1)) + requests'[k].tokens = Limit
          BY <2>3, <2>5, <3>3, <4>1
        <4>3. Sum(q, ((a + 1) + 1)..RefillAfter) <= Limit
          BY <3>4, <3>7, <3>8, <4>1
        <4>4. QED
          BY <3>1, <4>2, <4>3 DEF Counts
      <3>10. QED
        BY <1>1, <2>1, <2>5, <3>1, <3>9 DEF Honest
    <2>6. CASE ~(k \in DOMAIN requests /\ a < RefillAfter)
      <3>1. Sum(p, Window) <= Limit \/ (Sum(p, 0..RefillAfter) <= Limit /\ a = RefillAfter)
        <4>1. CASE k \in DOMAIN requests /\ a <= RefillAfter
          <5>1. a = RefillAfter /\ Counts(requests[k], p)
            BY <2>1, <2>3, <2>6, <4>1 DEF Honest
          <5>2. Sum(p, 0..a) + requests[k].tokens = Limit
            BY <5>1 DEF Counts
          <5>3. Sum(p, 0..a) \in Nat
            <6>1. a \in Window
              BY <5>1 DEF Window
            <6>2. QED
              BY <2>1, <6>1, SumSplit
          <5>4. QED
            BY <2>3, <4>1, <5>1, <5>2, <5>3
        <4>2. CASE ~(k \in DOMAIN requests /\ a <= RefillAfter)
          BY <2>1, <4>2 DEF Honest
        <4>3. QED
          BY <4>1, <4>2
      <3>2. Sum(q, Window) <= Limit
        BY <2>2, <3>1 DEF Window
      <3>3. ~(k \in DOMAIN requests' /\ requests'[k].age <= RefillAfter)
        BY <1>1, <2>3, <2>4, <2>6
      <3>4. QED
        BY <2>1, <2>2, <3>2, <3>3 DEF Honest
    <2>7. QED
      BY <2>5, <2>6
  <1>6. IsFiniteSet(DOMAIN requests')
    BY <1>1 DEF LimiterInv
  <1>7. QED
    BY <1>4, <1>5, <1>6 DEF LimiterInv

\* What a request leaves when it puts a fresh bucket back.
LEMMA OverflowLeft ==
  ASSUME LimiterInv, NEW r \in Requests, NEW k, NEW b, ~Stale(b), NEW F, F = [Left(r) EXCEPT ![k] = b],
         Cardinality(DOMAIN F) > MaxBuckets
  PROVE  \A j \in DOMAIN F : ~Stale(F[j])
  <1> DEFINE L == Left(r)
  <1>1. Cardinality(DOMAIN L) > MaxBuckets => \A j \in DOMAIN L : ~Stale(L[j])
    <2> HIDE DEF L
    <2>1. L = Left(r)
      BY DEF L
    <2>2. QED
      BY <2>1, LeftHonest
  <1>2. F = [L EXCEPT ![k] = b]
    OBVIOUS
  <1> HIDE DEF L
  <1>3. DOMAIN F = DOMAIN L
    BY <1>2
  <1>4. \A j \in DOMAIN L : ~Stale(L[j])
    BY <1>1, <1>3
  <1>5. TAKE j \in DOMAIN F
  <1>6. F[j] = b \/ F[j] = L[j]
    BY <1>2, <1>3
  <1>7. QED
    BY <1>3, <1>4, <1>6

\* A request served, with the bucket it leaves.
LEMMA ServeHonest ==
  ASSUME LimiterInv, NEW r \in Requests, Serve(r)
  PROVE  /\ LimiterInv' /\ pc'[r] = "served"
         /\ Cardinality(DOMAIN requests') > MaxBuckets => \A k \in DOMAIN requests' : ~Stale(requests'[k])
  <1> USE LimitsAssumption, TimesAssumption
  <1> DEFINE k == key[r]
             b == Refilled(Left(r)[k])
             c == [b EXCEPT !.tokens = @ - 1]
             p == [served[k] EXCEPT ![0] = @ + 1]
  <1>1. /\ Enter(r) /\ k \in DOMAIN Left(r) /\ TokenLeft(b)
        /\ requests' = [Left(r) EXCEPT ![k] = c]
        /\ pc' = [pc EXCEPT ![r] = "served"] /\ locked' = locked
    BY DEF Serve
  <1>2. k \in Keys /\ served[k] \in [Window -> Nat] /\ served' = [served EXCEPT ![k] = p]
    BY DEF Serve, LimiterInv, TypeOK
  <1>3. b \in Bucket /\ b.age \in Window /\ ~Stale(b) /\ Counts(b, served[k])
    <2> HIDE DEF b
    <2>1. b = Refilled(Left(r)[k])
      BY DEF b
    <2>2. QED
      BY <1>1, <2>1, HandleHonest
  <1>4. c \in Bucket /\ c.age = b.age /\ c.tokens = b.tokens - 1 /\ ~Stale(c) /\ c.age \in Window
    <2>1. b \in Bucket /\ TokenLeft(b) /\ ~Stale(b) /\ b.age \in Window
      BY <1>1, <1>3
    <2> HIDE DEF b
    <2>2. QED
      BY <2>1 DEF Bucket, TokenLeft, Stale
  <1>5. p \in [Window -> Nat] /\ Counts(c, p)
    <2> DEFINE a == b.age
               s == served[k]
    <2>1. a \in Window /\ s \in [Window -> Nat] /\ b.tokens \in Nat
      BY <1>2, <1>3 DEF Bucket
    <2>2. Sum(s, 0..a) + b.tokens = Limit /\ Sum(s, (a + 1)..RefillAfter) <= Limit
      BY <1>3 DEF Counts
    <2> HIDE DEF a, s, b
    <2>3. /\ [s EXCEPT ![0] = @ + 1] \in [Window -> Nat]
          /\ Sum([s EXCEPT ![0] = @ + 1], 0..a) = Sum(s, 0..a) + 1
          /\ Sum([s EXCEPT ![0] = @ + 1], (a + 1)..RefillAfter) = Sum(s, (a + 1)..RefillAfter)
      BY <2>1, SumServe
    <2>4. p = [s EXCEPT ![0] = @ + 1]
      BY DEF s
    <2> HIDE DEF p
    <2>5. Sum(s, 0..a) \in Nat
      BY <2>1, SumSplit
    <2>6. Sum(p, 0..a) + (b.tokens - 1) = Limit /\ Sum(p, (a + 1)..RefillAfter) <= Limit
      BY <2>1, <2>2, <2>3, <2>4, <2>5
    <2>7. c.age = a /\ c.tokens = b.tokens - 1
      BY <1>4 DEF a
    <2>8. QED
      BY <2>3, <2>4, <2>6, <2>7 DEF Counts
  <1>6. /\ DOMAIN requests' \subseteq Keys /\ IsFiniteSet(DOMAIN requests')
        /\ \A j \in DOMAIN requests' : requests'[j] \in Bucket
        /\ served' \in [Keys -> [Window -> Nat]]
        /\ \A j \in Keys : Honest(requests', served'[j], j)
    <2> HIDE DEF c, p, b, k
    <2>1. k = key[r]
      BY DEF k
    <2>2. QED
      BY <1>1, <1>2, <1>4, <1>5, <2>1, PutBack
  <1>7. LimiterInv'
    <2>1. sweepAge' \in 0..SweepEvery /\ key' = key /\ pc' \in [Requests -> {"idle", "waiting", "served", "rejected", "panicked"}]
      BY <1>1 DEF Enter, LimiterInv, TypeOK
    <2>2. QED
      BY <1>1, <1>6, <2>1 DEF LimiterInv, TypeOK
  <1>8. Cardinality(DOMAIN requests') > MaxBuckets => \A j \in DOMAIN requests' : ~Stale(requests'[j])
    <2> HIDE DEF c, b, k
    <2>1. requests' = [Left(r) EXCEPT ![k] = c] /\ ~Stale(c)
      BY <1>1, <1>4
    <2>2. QED
      BY <2>1, OverflowLeft
  <1>9. pc'[r] = "served"
    BY <1>1 DEF LimiterInv, TypeOK
  <1>10. QED
    BY <1>7, <1>8, <1>9

\* A request refused.
LEMMA RejectHonest ==
  ASSUME LimiterInv, NEW r \in Requests, Reject(r)
  PROVE  /\ LimiterInv' /\ LastMinute(key[r]) >= Limit
         /\ Cardinality(DOMAIN requests') > MaxBuckets => \A k \in DOMAIN requests' : ~Stale(requests'[k])
  <1> USE LimitsAssumption, TimesAssumption
  <1> DEFINE k == key[r]
             b == Refilled(Left(r)[k])
  <1>1. /\ Enter(r) /\ k \in DOMAIN Left(r) /\ ~TokenLeft(b)
        /\ requests' = [Left(r) EXCEPT ![k] = b]
        /\ pc' = [pc EXCEPT ![r] = "rejected"] /\ locked' = locked /\ served' = served
    BY DEF Reject
  <1>2. k \in Keys /\ served[k] \in [Window -> Nat] /\ served' = [served EXCEPT ![k] = served[k]]
    BY <1>1 DEF LimiterInv, TypeOK
  <1>3. b \in Bucket /\ b.age \in Window /\ ~Stale(b) /\ Counts(b, served[k]) /\ LastMinute(k) >= Limit
    <2> HIDE DEF b
    <2>1. b = Refilled(Left(r)[k])
      BY DEF b
    <2>2. QED
      BY <1>1, <2>1, HandleHonest
  <1>4. /\ DOMAIN requests' \subseteq Keys /\ IsFiniteSet(DOMAIN requests')
        /\ \A j \in DOMAIN requests' : requests'[j] \in Bucket
        /\ served' \in [Keys -> [Window -> Nat]]
        /\ \A j \in Keys : Honest(requests', served'[j], j)
    <2> HIDE DEF b, k
    <2>1. k = key[r]
      BY DEF k
    <2>2. QED
      BY <1>1, <1>2, <1>3, <2>1, PutBack
  <1>5. LimiterInv'
    <2>1. sweepAge' \in 0..SweepEvery /\ key' = key /\ pc' \in [Requests -> {"idle", "waiting", "served", "rejected", "panicked"}]
      BY <1>1 DEF Enter, LimiterInv, TypeOK
    <2>2. QED
      BY <1>1, <1>4, <2>1 DEF LimiterInv, TypeOK
  <1>6. Cardinality(DOMAIN requests') > MaxBuckets => \A j \in DOMAIN requests' : ~Stale(requests'[j])
    <2> HIDE DEF b, k
    <2>1. requests' = [Left(r) EXCEPT ![k] = b] /\ ~Stale(b)
      BY <1>1, <1>3
    <2>2. QED
      BY <2>1, OverflowLeft
  <1>7. QED
    BY <1>3, <1>5, <1>6

\* A request that panics leaves the buckets as the sweep left them.
LEMMA PanicHonest ==
  ASSUME LimiterInv, NEW r \in Requests, Panic(r)
  PROVE  /\ LimiterInv' /\ pc'[r] = "panicked"
         /\ Cardinality(DOMAIN requests') > MaxBuckets => \A k \in DOMAIN requests' : ~Stale(requests'[k])
  <1>1. Enter(r) /\ requests' = Left(r) /\ locked' = TRUE /\ pc' = [pc EXCEPT ![r] = "panicked"] /\ served' = served
    BY DEF Panic
  <1>2. /\ DOMAIN requests' \subseteq Keys /\ IsFiniteSet(DOMAIN requests')
        /\ \A j \in DOMAIN requests' : requests'[j] \in Bucket
        /\ \A k \in Keys : Honest(requests', served[k], k)
        /\ Cardinality(DOMAIN requests') > MaxBuckets => \A j \in DOMAIN requests' : ~Stale(requests'[j])
    BY <1>1, LeftHonest
  <1>3. sweepAge' \in 0..SweepEvery /\ key' = key /\ pc' \in [Requests -> {"idle", "waiting", "served", "rejected", "panicked"}]
        /\ pc'[r] = "panicked"
    BY <1>1, TimesAssumption DEF Enter, LimiterInv, TypeOK
  <1>4. QED
    BY <1>1, <1>2, <1>3 DEF LimiterInv, TypeOK

\* A step of a request at its bucket, or another one.
HandleStep ==
  \E r \in Requests :
    /\ pc[r] = "waiting"
    /\ \A s \in Requests \ {r} : pc'[s] = pc[s]
    /\ pc'[r] = "rejected" => LastMinute(key[r]) >= Limit
    /\ Cardinality(DOMAIN requests') > MaxBuckets => \A k \in DOMAIN requests' : ~Stale(requests'[k])

OtherStep == \A r \in Requests : pc[r] = "waiting" => pc'[r] = "waiting"

LEMMA LimiterNext ==
  ASSUME LimiterInv, [Next]_vars
  PROVE  LimiterInv' /\ (HandleStep \/ OtherStep)
  <1>1. ASSUME NEW r \in Requests, NEW k \in Keys, Arrive(r, k)
        PROVE  LimiterInv' /\ OtherStep
    <2>1. /\ requests' = requests /\ served' = served /\ locked' = locked /\ sweepAge' = sweepAge
          /\ pc' \in [Requests -> {"idle", "waiting", "served", "rejected", "panicked"}]
          /\ key' \in [Requests -> Keys]
      BY <1>1 DEF Arrive, LimiterInv, TypeOK
    <2>2. OtherStep
      BY <1>1 DEF Arrive, OtherStep, LimiterInv, TypeOK
    <2>3. QED
      BY <2>1, <2>2 DEF LimiterInv, TypeOK
  <1>2. ASSUME NEW r \in Requests, Handle(r)
        PROVE  LimiterInv' /\ HandleStep
    <2>1. /\ LimiterInv'
          /\ pc'[r] = "rejected" => LastMinute(key[r]) >= Limit
          /\ Cardinality(DOMAIN requests') > MaxBuckets => \A k \in DOMAIN requests' : ~Stale(requests'[k])
      <3>1. CASE Serve(r)
        BY <3>1, ServeHonest
      <3>2. CASE Reject(r)
        BY <3>2, RejectHonest
      <3>3. CASE Panic(r)
        BY <3>3, PanicHonest
      <3>4. QED
        BY <1>2, <3>1, <3>2, <3>3 DEF Handle
    <2>2. pc[r] = "waiting" /\ \A s \in Requests \ {r} : pc'[s] = pc[s]
      BY <1>2 DEF Handle, Serve, Reject, Panic, Enter, LimiterInv, TypeOK
    <2>3. QED
      BY <2>1, <2>2 DEF HandleStep
  <1>3. ASSUME NEW r \in Requests, Answered(r)
        PROVE  LimiterInv' /\ OtherStep
    <2>1. /\ requests' = requests /\ served' = served /\ locked' = locked /\ sweepAge' = sweepAge /\ key' = key
          /\ pc' \in [Requests -> {"idle", "waiting", "served", "rejected", "panicked"}]
      BY <1>3 DEF Answered, LimiterInv, TypeOK
    <2>2. OtherStep
      BY <1>3 DEF Answered, OtherStep, LimiterInv, TypeOK
    <2>3. QED
      BY <2>1, <2>2 DEF LimiterInv, TypeOK
  <1>4. ASSUME Tick PROVE LimiterInv' /\ OtherStep
    <2>1. LimiterInv'
      BY <1>4, TickHonest
    <2>2. OtherStep
      BY <1>4 DEF Tick, OtherStep
    <2>3. QED
      BY <2>1, <2>2
  <1>5. ASSUME UNCHANGED vars PROVE LimiterInv' /\ OtherStep
    BY <1>5 DEF vars, LimiterInv, TypeOK, OtherStep
  <1>6. QED
    BY <1>1, <1>2, <1>3, <1>4, <1>5 DEF Next

\* However buckets are refilled, swept and made anew, an endpoint lets no more
\* than twice its limit through in any minute, and refuses a request only if it
\* has let its limit through (RateLimit, sweepLocked), whatever the limits.
THEOREM SpecBudgetIsKept == Spec => BudgetIsKept
  <1> DEFINE refusal == \A r \in Requests : pc[r] = "waiting" /\ pc'[r] = "rejected" => LastMinute(key[r]) >= Limit
  <1>1. Init => LimiterInv
    BY LimiterStarts
  <1>2. LimiterInv /\ [Next]_vars => LimiterInv'
    BY LimiterNext
  <1>3. LimiterInv => TypeOK /\ WindowBudget
    BY HonestFacts DEF WindowBudget, LimiterInv
  <1>4. LimiterInv /\ [Next]_vars => [refusal]_vars
    BY LimiterNext DEF HandleStep, OtherStep
  <1>5. QED
    BY <1>1, <1>2, <1>3, <1>4, PTL DEF Spec, BudgetIsKept, RefusedOnlyWhenSpent

\* The map of buckets is larger than its bound only while every bucket in it
\* is in use: the request that makes it so has swept what is stale.
THEOREM SpecOverflowIsFresh == Spec => OverflowIsFresh
  <1> DEFINE fresh ==
        requests' # requests /\ Cardinality(DOMAIN requests') > MaxBuckets
          /\ (\E r \in Requests : pc[r] = "waiting" /\ pc'[r] # "waiting") =>
        \A k \in DOMAIN requests' : ~(requests'[k].age > StaleAfter)
  <1>1. Init => LimiterInv
    BY LimiterStarts
  <1>2. LimiterInv /\ [Next]_vars => LimiterInv'
    BY LimiterNext
  <1>3. LimiterInv /\ [Next]_vars => [fresh]_vars
    BY LimiterNext DEF HandleStep, OtherStep, Stale
  <1>4. QED
    BY <1>1, <1>2, <1>3, PTL DEF Spec, OverflowIsFresh

-----------------------------------------------------------------------------
(* The audit of the VPN client: the score is a sum of penalties, and a     *)
(* report stays the one of the settings and the route it was made of.      *)

RouteKept ==
  auditRoute # Nil =>
    /\ auditSettings # Nil
    /\ ~changed => /\ auditRoute.blocks = auditSettings.blockPrivateDestinations
                   /\ auditSettings.allowInsecureTransport \/ ~U!Weak(auditRoute.out)

AuditInv ==
  /\ auditSettings # Nil => auditSettings \in U!AllSettings
  /\ RouteKept
  /\ auditShown # Nil => auditSettings # Nil /\ auditShown = U!Report(auditSettings)

\* What the prover sees of a route made of an accepted server.
LEMMA AcceptedRoute ==
  ASSUME auditSettings \in U!AllSettings, NEW c \in U!Configs, U!Accepted(c)
  PROVE  /\ U!buildSingBoxConfig(c).blocks = auditSettings.blockPrivateDestinations
         /\ auditSettings.allowInsecureTransport \/ ~U!Weak(U!buildSingBoxConfig(c).out)
  BY DEF U!AllSettings, U!Configs, U!Accepted, U!buildSingBoxConfig, U!buildSingBoxOutbound, U!Weak, U!Tls

\* What the settings and the route do not change, no step changes.
LEMMA ReportStays ==
  ASSUME auditSettings' = auditSettings, auditRoute' = auditRoute
  PROVE  U!Report(auditSettings)' = U!Report(auditSettings)
  <1>1. U!Findings(auditSettings)' = U!Findings(auditSettings)
    BY DEF U!Findings, U!Finding
  <1>2. U!Score(auditSettings)' = U!Score(auditSettings)
    BY <1>1 DEF U!Score, U!MapThenSumSet, U!MapThenFoldSet, U!Max
  <1>3. QED
    BY <1>1, <1>2 DEF U!Report, U!Level

LEMMA AuditNext ==
  ASSUME Nil \notin U!AllSettings
  PROVE  AuditInv /\ [U!Next]_(U!vars) => AuditInv'
  <1>1. SUFFICES ASSUME AuditInv, [U!Next]_(U!vars) PROVE AuditInv'
    OBVIOUS
  <1>2. CASE U!Save
    BY <1>1, <1>2 DEF AuditInv, RouteKept, U!Save
  <1>3. CASE U!SaveAgain
    <2>1. auditSettings' \in U!AllSettings
      BY <1>1, <1>3 DEF AuditInv, U!SaveAgain, U!AllSettings
    <2>2. auditRoute' = auditRoute /\ changed' = TRUE /\ auditShown' = auditShown /\ auditShown = Nil
      BY <1>3 DEF U!SaveAgain
    <2>3. auditSettings' # Nil
      BY <1>1, <1>3, <2>1 DEF AuditInv, U!SaveAgain, U!AllSettings
    <2>4. QED
      BY <2>1, <2>2, <2>3 DEF AuditInv, RouteKept
  <1>4. CASE U!Connect
    <2>1. PICK c \in U!Configs : U!Accepted(c) /\ auditRoute' = U!buildSingBoxConfig(c)
      BY <1>4 DEF U!Connect
    <2>2. auditSettings' = auditSettings /\ changed' = changed /\ auditShown' = auditShown /\ auditSettings # Nil /\ auditShown = Nil
      BY <1>4 DEF U!Connect
    <2>3. auditSettings \in U!AllSettings
      BY <1>1, <2>2 DEF AuditInv
    <2>4. /\ auditRoute'.blocks = auditSettings.blockPrivateDestinations
          /\ auditSettings.allowInsecureTransport \/ ~U!Weak(auditRoute'.out)
      BY <2>1, <2>3, AcceptedRoute
    <2>5. RouteKept'
      BY <2>2, <2>4 DEF RouteKept, U!Weak
    <2>6. QED
      BY <1>1, <2>2, <2>5 DEF AuditInv
  <1>5. CASE U!Refresh
    <2>1. /\ auditSettings # Nil /\ auditShown' = U!Report(auditSettings)
          /\ auditSettings' = auditSettings /\ auditRoute' = auditRoute /\ changed' = changed
      BY <1>5 DEF U!Refresh
    <2>2. U!Report(auditSettings)' = U!Report(auditSettings)
      BY <2>1, ReportStays
    <2>3. RouteKept'
      BY <1>1, <2>1 DEF AuditInv, RouteKept, U!Weak
    <2>4. QED
      BY <1>1, <2>1, <2>2, <2>3 DEF AuditInv
  <1>6. CASE UNCHANGED U!vars
    <2>1. /\ auditSettings' = auditSettings /\ auditRoute' = auditRoute /\ changed' = changed
          /\ auditShown' = auditShown
      BY <1>6 DEF U!vars
    <2>2. U!Report(auditSettings)' = U!Report(auditSettings)
      BY <2>1, ReportStays
    <2>3. RouteKept'
      BY <1>1, <2>1 DEF AuditInv, RouteKept, U!Weak
    <2>4. QED
      BY <1>1, <2>1, <2>2, <2>3 DEF AuditInv
  <1>7. QED
    BY <1>1, <1>2, <1>3, <1>4, <1>5, <1>6 DEF U!Next

\* The penalties add up: what MapThenSumSet computes of the findings.
Penalty == [f \in U!Findings(auditSettings) |-> f.penalty]

LEMMA FindingsFinite ==
  /\ IsFiniteSet(U!Findings(auditSettings))
  /\ \A f \in U!Findings(auditSettings) :
       f.penalty \in Nat /\ (f.severity = "high" => f.penalty >= 20)
  <1>1. \A when, of, severity, penalty : IsFiniteSet(U!Finding(when, of, severity, penalty))
    BY FS_EmptySet, FS_Singleton DEF U!Finding
  <1>2. IsFiniteSet(U!Findings(auditSettings))
    <2> DEFINE s == auditSettings
               A1 == U!Finding(s.killSwitchMode = "off", "kill switch", "high", 25)
               A2 == U!Finding(s.killSwitchMode = "app", "kill switch", "medium", 12)
               A3 == U!Finding(s.allowLan, "lan", "high", 20)
               A4 == U!Finding(s.allowInsecureTransport, "transport", "high", 25)
               A5 == U!Finding(~s.blockPrivateDestinations, "private", "medium", 12)
               A6 == U!Finding(~s.dnsProtection, "dns", "medium", 12)
               A7 == U!Finding(s.ipv6Mode = "unchanged", "ipv6", "low", 6)
               A8 == U!Finding(s.saveSecrets /\ ~s.keyring, "secrets", "high", 25)
               A9 == U!Finding(s.saveSecrets /\ s.keyring, "secrets", "low", 5)
               A10 == U!Finding(auditRoute # Nil /\ auditRoute.out.type = "http", "upstream", "high", 20)
    <2>1. U!Findings(s) = UNION {A1, A2, A3, A4, A5, A6, A7, A8, A9, A10}
      BY DEF U!Findings
    <2>2. /\ IsFiniteSet(A1) /\ IsFiniteSet(A2) /\ IsFiniteSet(A3) /\ IsFiniteSet(A4) /\ IsFiniteSet(A5)
          /\ IsFiniteSet(A6) /\ IsFiniteSet(A7) /\ IsFiniteSet(A8) /\ IsFiniteSet(A9) /\ IsFiniteSet(A10)
      BY <1>1
    <2> HIDE DEF A1, A2, A3, A4, A5, A6, A7, A8, A9, A10
    <2>3. IsFiniteSet(A1 \cup A2) /\ IsFiniteSet(A3 \cup A4) /\ IsFiniteSet(A5 \cup A6)
          /\ IsFiniteSet(A7 \cup A8) /\ IsFiniteSet(A9 \cup A10)
      BY <2>2, FS_Union
    <2>4. IsFiniteSet((A1 \cup A2) \cup (A3 \cup A4)) /\ IsFiniteSet((A5 \cup A6) \cup (A7 \cup A8))
      BY <2>3, FS_Union
    <2>5. IsFiniteSet(((A1 \cup A2) \cup (A3 \cup A4)) \cup ((A5 \cup A6) \cup (A7 \cup A8)))
      BY <2>4, FS_Union
    <2>6. IsFiniteSet((((A1 \cup A2) \cup (A3 \cup A4)) \cup ((A5 \cup A6) \cup (A7 \cup A8))) \cup (A9 \cup A10))
      BY <2>3, <2>5, FS_Union
    <2>7. UNION {A1, A2, A3, A4, A5, A6, A7, A8, A9, A10}
            = (((A1 \cup A2) \cup (A3 \cup A4)) \cup ((A5 \cup A6) \cup (A7 \cup A8))) \cup (A9 \cup A10)
      OBVIOUS
    <2>8. QED
      BY <2>1, <2>6, <2>7
  <1>3. \A f \in U!Findings(auditSettings) : f.penalty \in Nat /\ (f.severity = "high" => f.penalty >= 20)
    <2> DEFINE s == auditSettings
               A1 == U!Finding(s.killSwitchMode = "off", "kill switch", "high", 25)
               A2 == U!Finding(s.killSwitchMode = "app", "kill switch", "medium", 12)
               A3 == U!Finding(s.allowLan, "lan", "high", 20)
               A4 == U!Finding(s.allowInsecureTransport, "transport", "high", 25)
               A5 == U!Finding(~s.blockPrivateDestinations, "private", "medium", 12)
               A6 == U!Finding(~s.dnsProtection, "dns", "medium", 12)
               A7 == U!Finding(s.ipv6Mode = "unchanged", "ipv6", "low", 6)
               A8 == U!Finding(s.saveSecrets /\ ~s.keyring, "secrets", "high", 25)
               A9 == U!Finding(s.saveSecrets /\ s.keyring, "secrets", "low", 5)
               A10 == U!Finding(auditRoute # Nil /\ auditRoute.out.type = "http", "upstream", "high", 20)
               Fair(A) == \A f \in A : f.penalty \in Nat /\ (f.severity = "high" => f.penalty >= 20)
    <2>1. Fair(A1)
      <3>1. ASSUME NEW f \in A1 PROVE f = [of |-> "kill switch", severity |-> "high", penalty |-> 25]
        BY DEF U!Finding
      <3>2. ASSUME NEW f, f = [of |-> "kill switch", severity |-> "high", penalty |-> 25]
            PROVE  f.severity = "high" /\ f.penalty = 25
        BY <3>2
      <3> HIDE DEF A1
      <3>3. ASSUME NEW f \in A1 PROVE f.penalty \in Nat /\ (f.severity = "high" => f.penalty >= 20)
        <4>1. f.penalty = 25
          BY <3>1, <3>2
        <4>2. QED
          BY <4>1
      <3>4. QED
        BY <3>3
    <2>2. Fair(A2)
      <3>1. ASSUME NEW f \in A2 PROVE f = [of |-> "kill switch", severity |-> "medium", penalty |-> 12]
        BY DEF U!Finding
      <3>2. ASSUME NEW f, f = [of |-> "kill switch", severity |-> "medium", penalty |-> 12]
            PROVE  f.severity = "medium" /\ f.penalty = 12
        BY <3>2
      <3> HIDE DEF A2
      <3>3. ASSUME NEW f \in A2 PROVE f.penalty \in Nat /\ (f.severity = "high" => f.penalty >= 20)
        <4>1. f.penalty = 12 /\ f.severity # "high"
          BY <3>1, <3>2
        <4>2. QED
          BY <4>1
      <3>4. QED
        BY <3>3
    <2>3. Fair(A3)
      BY DEF U!Finding
    <2>4. Fair(A4)
      BY DEF U!Finding
    <2>5. Fair(A5)
      BY DEF U!Finding
    <2>6. Fair(A6)
      BY DEF U!Finding
    <2>7. Fair(A7)
      BY DEF U!Finding
    <2>8. Fair(A8)
      BY DEF U!Finding
    <2>9. Fair(A9)
      BY DEF U!Finding
    <2>10. Fair(A10)
      BY DEF U!Finding
    <2>11. U!Findings(s) = UNION {A1, A2, A3, A4, A5, A6, A7, A8, A9, A10}
      BY DEF U!Findings
    <2> HIDE DEF A1, A2, A3, A4, A5, A6, A7, A8, A9, A10
    <2>12. QED
      BY <2>1, <2>2, <2>3, <2>4, <2>5, <2>6, <2>7, <2>8, <2>9, <2>10, <2>11
  <1>4. QED
    BY <1>2, <1>3

LEMMA ScoreIsSum ==
  U!Score(auditSettings) = U!Max({0, 100 - Sum(Penalty, U!Findings(auditSettings))})
  <1> DEFINE F == U!Findings(auditSettings)
             p == Penalty
             Iter(g) == g = [s \in SUBSET F |-> IF s = {} THEN 0 ELSE SomeOf(s).penalty + g[s \ {SomeOf(s)}]]
             i == CHOOSE g : Iter(g)
             k == CHOOSE g : Adds(g, p, F)
  <1>1. \A f \in F : p[f] = f.penalty /\ p[f] \in Nat
    BY FindingsFinite DEF Penalty
  <1>2. IsFiniteSet(F)
    BY FindingsFinite
  <1>3. U!MapThenSumSet(LAMBDA f : f.penalty, F) = i[F]
    BY DEF U!MapThenSumSet, U!MapThenFoldSet, SomeOf
  <1>4. Sum(p, F) = k[F]
    BY DEF Sum
  <1> HIDE DEF F, p, k
  <1>5. \A g : Iter(g) <=> Adds(g, p, F)
    <2>1. TAKE g
    <2> DEFINE G(s) == IF s = {} THEN 0 ELSE SomeOf(s).penalty + g[s \ {SomeOf(s)}]
               H(s) == IF s = {} THEN 0 ELSE p[SomeOf(s)] + g[s \ {SomeOf(s)}]
    <2>2. \A s \in SUBSET F : G(s) = H(s)
      BY <1>1 DEF SomeOf
    <2>3. Iter(g) <=> g = [s \in SUBSET F |-> G(s)]
      OBVIOUS
    <2>4. Adds(g, p, F) <=> g = [s \in SUBSET F |-> H(s)]
      BY DEF Adds
    <2> HIDE DEF G, H, Iter
    <2>5. [s \in SUBSET F |-> G(s)] = [s \in SUBSET F |-> H(s)]
      BY <2>2
    <2>6. QED
      BY <2>3, <2>4, <2>5
  <1> HIDE DEF Iter
  <1>6. (\E g : Adds(g, p, F)) /\ \E g : Iter(g)
    BY <1>1, <1>2, <1>5, AddsExists
  <1>7. Adds(i, p, F) /\ Adds(k, p, F)
    BY <1>5, <1>6 DEF k
  <1> HIDE DEF i
  <1>8. i[F] = k[F]
    BY <1>2, <1>7, AddsAgree
  <1>9. U!MapThenSumSet(LAMBDA f : f.penalty, F) = Sum(p, F)
    BY <1>3, <1>4, <1>8
  <1>10. QED
    BY <1>9 DEF U!Score, F, p

LEMMA ScoreFacts ==
  LET F == U!Findings(auditSettings)
      n == U!Score(auditSettings)
  IN  /\ n \in Nat /\ n <= 100
      /\ F = {} => n = 100
      /\ \A f \in F : f.severity = "high" => n <= 80
      /\ \A f, g \in F : f.severity = "high" /\ g.severity = "high" /\ f # g => n <= 60
  <1> DEFINE F == U!Findings(auditSettings)
             n == U!Score(auditSettings)
             p == Penalty
             t == Sum(p, F)
  <1>1. /\ IsFiniteSet(F)
        /\ \A f \in F : p[f] \in Nat /\ (f.severity = "high" => p[f] >= 20)
    BY FindingsFinite DEF Penalty
  <1>2. n = U!Max({0, 100 - t})
    BY ScoreIsSum
  <1> HIDE DEF F, n, p
  <1>3. /\ Sum(p, {}) = 0
        /\ \A T \in SUBSET F : Sum(p, T) \in Nat
        /\ \A T \in SUBSET F : \A x \in T : Sum(p, T) = p[x] + Sum(p, T \ {x})
    BY <1>1, SumFacts
  <1>4. t \in Nat
    BY <1>3
  <1>5. n = IF t <= 100 THEN 100 - t ELSE 0
    <2> HIDE DEF t
    <2>1. n \in {0, 100 - t} /\ n >= 0 /\ n >= 100 - t
      <3>1. \E x \in {0, 100 - t} : \A y \in {0, 100 - t} : x >= y
        BY <1>4
      <3>2. QED
        BY <1>2, <3>1 DEF U!Max
    <2>2. QED
      BY <1>4, <2>1
  <1>6. F = {} => t = 0
    BY <1>3
  <1>7. ASSUME NEW f \in F, f.severity = "high" PROVE t >= 20
    <2>1. t = p[f] + Sum(p, F \ {f}) /\ Sum(p, F \ {f}) \in Nat /\ p[f] \in Nat /\ p[f] >= 20
      BY <1>1, <1>3, <1>7
    <2>2. QED
      BY <2>1
  <1>8. ASSUME NEW f \in F, NEW g \in F, f.severity = "high", g.severity = "high", f # g PROVE t >= 40
    <2> DEFINE T == F \ {f}
    <2>1. T \in SUBSET F /\ T \ {g} \in SUBSET F /\ g \in T
      BY <1>8
    <2>2. t = p[f] + Sum(p, T)
      BY <1>3
    <2>3. Sum(p, T) = p[g] + Sum(p, T \ {g}) /\ Sum(p, T \ {g}) \in Nat
      BY <1>3, <2>1
    <2>4. p[f] \in Nat /\ p[f] >= 20 /\ p[g] \in Nat /\ p[g] >= 20
      BY <1>1, <1>8
    <2> HIDE DEF t, T
    <2>5. QED
      BY <2>2, <2>3, <2>4
  <1> HIDE DEF t
  <1>9. \A f \in F : f.severity = "high" => n <= 80
    BY <1>4, <1>5, <1>7
  <1>10. \A f, g \in F : f.severity = "high" /\ g.severity = "high" /\ f # g => n <= 60
    <2>1. TAKE f, g \in F
    <2>2. HAVE f.severity = "high" /\ g.severity = "high" /\ f # g
    <2>3. t >= 40
      BY <1>8, <2>2
    <2>4. QED
      BY <1>4, <1>5, <2>3
  <1>11. n \in Nat /\ n <= 100 /\ (F = {} => n = 100)
    BY <1>4, <1>5, <1>6
  <1>12. QED
    BY <1>9, <1>10, <1>11 DEF F, n

LEMMA AuditShows == AuditInv => U!AuditIsSound
  <1>1. SUFFICES ASSUME AuditInv, auditShown # Nil PROVE U!AuditIsHonest /\ U!ClearRouteIsGuarded
    BY DEF U!AuditIsSound, U!AuditIsHonest, U!ClearRouteIsGuarded
  <1> DEFINE F == U!Findings(auditSettings)
             n == U!Score(auditSettings)
             high == {f \in F : f.severity = "high"}
  <1>2. /\ auditSettings \in U!AllSettings /\ RouteKept
        /\ auditShown.level = U!Level(n) /\ auditShown.clear = (F = {}) /\ auditShown.findings = F
    BY <1>1 DEF AuditInv, U!Report
  <1>3. /\ n \in Nat /\ n <= 100
        /\ F = {} => n = 100
        /\ \A f \in F : f.severity = "high" => n <= 80
        /\ \A f, g \in F : f.severity = "high" /\ g.severity = "high" /\ f # g => n <= 60
    BY ScoreFacts
  <1>4. U!ClearRouteIsGuarded
    <2>1. SUFFICES ASSUME F = {}, auditRoute # Nil
                   PROVE  /\ auditRoute.out.type # "http"
                          /\ ~changed => auditRoute.blocks /\ ~U!Weak(auditRoute.out)
      BY <1>2 DEF U!ClearRouteIsGuarded
    <2>2. auditRoute.out.type # "http"
      BY <2>1 DEF U!Findings, U!Finding
    <2>3. ~auditSettings.allowInsecureTransport /\ auditSettings.blockPrivateDestinations
      BY <2>1 DEF U!Findings, U!Finding
    <2>4. QED
      BY <1>2, <2>1, <2>2, <2>3 DEF RouteKept
  <1> HIDE DEF F, n
  <1>5. /\ U!Level(n) = "strong" => n >= 85
        /\ U!Level(n) = "good" => n >= 65
        /\ n >= 85 => U!Level(n) = "strong"
    <2>1. CASE n >= 85
      BY <1>3, <2>1 DEF U!Level
    <2>2. CASE n < 85 /\ n >= 65
      BY <1>3, <2>2 DEF U!Level
    <2>3. CASE n < 65
      <3>1. U!Level(n) \in {"caution", "risky"}
        BY <1>3, <2>3 DEF U!Level
      <3>2. QED
        BY <1>3, <2>3, <3>1
    <2>4. QED
      BY <1>3, <2>1, <2>2, <2>3
  <1>6. U!AuditIsHonest
    <2>1. auditShown.level = "strong" => high = {}
      BY <1>2, <1>3, <1>5
    <2>2. auditShown.level = "good" => \A f, g \in high : f = g
      BY <1>2, <1>3, <1>5
    <2>3. auditShown.clear => auditShown.level = "strong"
      <3>1. auditShown.clear => n = 100
        BY <1>2, <1>3
      <3>2. n = 100 => auditShown.level = "strong"
        BY <1>2, <1>5
      <3>3. QED
        BY <3>1, <3>2
    <2>4. QED
      BY <1>2, <2>1, <2>2, <2>3 DEF U!AuditIsHonest
  <1>7. QED
    BY <1>4, <1>6

\* Whatever is set and whatever route is up: the level of the report on show
\* fits its findings, and a report that is all clear speaks for the route
\* (getSafetyReport, renderSafetyReport).
THEOREM SpecAuditIsSound ==
  ASSUME Nil \notin U!AllSettings PROVE U!Spec => []AuditIsSound
  <1>1. U!Init => AuditInv
    BY DEF U!Init, AuditInv, RouteKept
  <1>2. AuditInv /\ [U!Next]_(U!vars) => AuditInv'
    BY AuditNext
  <1>3. AuditInv => AuditIsSound
    BY AuditShows DEF AuditIsSound
  <1>4. QED
    BY <1>1, <1>2, <1>3, PTL DEF U!Spec

-----------------------------------------------------------------------------
(* The players: the listener for the end is as new as the track, the element *)
(* is as loud as the slider, and the timers that still run will not hide the *)
(* controls of a video that stands.                                          *)

PlayerSound ==
  /\ volume \in Nat /\ isMuted \in BOOLEAN
  /\ isMuted => sound = 0
  /\ ~isMuted => volume > 0 /\ sound = volume

PlayerControls ==
  /\ timers \in Seq(BOOLEAN) /\ showControls \in BOOLEAN /\ pausedSince \in BOOLEAN
  /\ page # "video" => showControls /\ timers = <<>>
  /\ ~isPlaying /\ ~pausedSince => showControls /\ \A i \in 1..Len(timers) : ~timers[i]

PlayerInv ==
  /\ isPlaying \in BOOLEAN /\ element \in BOOLEAN
  /\ ended = P!Ears(isRepeat, currentTrack)
  /\ P!PausedStands
  /\ PlayerSound
  /\ PlayerControls

LEMMA PlayerSoundStep ==
  ASSUME PlayerSound, P!Next
  PROVE  PlayerSound'
<1> USE DEF PlayerSound
<1>1. ASSUME NEW level \in 0..Levels, P!ChangeVolume(level)
      PROVE  PlayerSound'
  <2>1. level \in Nat
    BY PlayerAssumption
  <2>2. volume' = level /\ sound' = level /\ isMuted' = (level = 0)
    BY <1>1 DEF P!ChangeVolume, P!MutedBy
  <2>4. CASE level = 0
    <3>1. isMuted' = TRUE
      BY <2>2, <2>4, Zenon
    <3>2. volume' = 0 /\ sound' = 0
      BY <2>2, <2>4
    <3> QED  BY <3>1, <3>2
  <2>5. CASE level # 0
    <3>1. isMuted' = FALSE
      BY <2>2, <2>5, Zenon
    <3>2. volume' = level /\ sound' = level /\ level > 0
      BY <2>1, <2>2, <2>5
    <3> QED  BY <3>1, <3>2, <2>1
  <2> QED  BY <2>4, <2>5
<1>2. CASE P!ToggleMute
  <2>1. P!Unmuted \in Nat /\ P!Unmuted > 0
    BY DEF P!Unmuted, P!Half
  <2>2. CASE isMuted
    <3>1. isMuted' = FALSE /\ sound' = P!Unmuted /\ volume' = P!Unmuted
      BY <1>2, <2>2 DEF P!ToggleMute
    <3> QED  BY <3>1, <2>1
  <2>3. CASE ~isMuted
    <3>1. isMuted' = TRUE /\ sound' = 0 /\ volume' = volume
      BY <1>2, <2>3 DEF P!ToggleMute
    <3> QED  BY <3>1
  <2> QED  BY <2>2, <2>3
<1>3. CASE UNCHANGED P!soundVars
  BY <1>3 DEF P!soundVars
<1> QED
  BY <1>1, <1>2, <1>3
  DEF P!Next, P!Open, P!ChooseTrack, P!DeleteEntry, P!UpdateEntry, P!Export,
      P!TogglePlayPause, P!ToggleRepeat, P!Ended, P!VideoEnds, P!MouseMoves,
      P!TimerFires, P!MouseLeaves, P!AddEntry, P!Upload

LEMMA PlayerControlsStep ==
  ASSUME PlayerControls, isPlaying \in BOOLEAN, P!Next
  PROVE  PlayerControls'
<1> USE DEF PlayerControls
<1>1. ASSUME NEW p \in {"audio", "video", "editor"}, P!Open(p)
      PROVE  PlayerControls'
  BY <1>1 DEF P!Open, P!controlVars, P!playVars
<1>2. CASE P!TogglePlayPause
  BY <1>2 DEF P!TogglePlayPause
<1>3. CASE P!Ended
  BY <1>3 DEF P!Ended, P!controlVars
<1>4. CASE P!MouseMoves
  <2>1. /\ page = "video" /\ page' = page /\ isPlaying' = isPlaying
        /\ showControls' = TRUE /\ pausedSince' = FALSE
    BY <1>4 DEF P!MouseMoves, P!playVars
  <2>2. timers' = Append(<<>>, isPlaying)
    BY <1>4 DEF P!MouseMoves, P!StillUnderWay
  <2>3. /\ timers' \in Seq(BOOLEAN) /\ Len(timers') = 1 /\ timers'[1] = isPlaying
    BY <2>2, EmptySeq, AppendProperties
  <2>4. ASSUME ~isPlaying  PROVE \A i \in 1..Len(timers') : ~timers'[i]
    <3> SUFFICES ASSUME NEW i \in 1..Len(timers')  PROVE ~timers'[i]
      OBVIOUS
    <3>1. i = 1
      BY <2>3
    <3> QED  BY <3>1, <2>3, <2>4
  <2> QED  BY <2>1, <2>3, <2>4
<1>5. CASE P!TimerFires
  <2>1. /\ timers # <<>> /\ timers' = Tail(timers)
        /\ showControls' = (showControls /\ ~Head(timers))
        /\ page' = page /\ isPlaying' = isPlaying /\ pausedSince' = pausedSince
    BY <1>5 DEF P!TimerFires, P!playVars
  <2>2. /\ timers' \in Seq(BOOLEAN) /\ Head(timers) = timers[1]
        /\ Len(timers') = Len(timers) - 1 /\ Len(timers) \in Nat \ {0}
        /\ \A i \in 1..Len(timers') : timers'[i] = timers[i + 1]
    <3>1. timers \in Seq(BOOLEAN) /\ timers # <<>> /\ timers' = Tail(timers)
      BY <2>1
    <3>2. Len(timers) \in Nat \ {0} /\ Head(timers) = timers[1]
      BY <3>1, EmptySeq
    <3>3. /\ Tail(timers) \in Seq(BOOLEAN) /\ Len(Tail(timers)) = Len(timers) - 1
          /\ \A i \in 1..Len(Tail(timers)) : Tail(timers)[i] = timers[i + 1]
      BY <3>1, HeadTailProperties
    <3> QED  BY <3>1, <3>2, <3>3
  <2>3. page = "video"
    BY <2>1
  <2>4. ASSUME ~isPlaying, ~pausedSince
        PROVE  showControls' /\ \A i \in 1..Len(timers') : ~timers'[i]
    <3>1. ~timers[1] /\ showControls /\ \A i \in 1..Len(timers) : ~timers[i]
      BY <2>2, <2>4
    <3>2. \A i \in 1..Len(timers') : i + 1 \in 1..Len(timers)
      BY <2>2
    <3> QED  BY <3>1, <3>2, <2>1, <2>2
  <2> QED  BY <2>1, <2>2, <2>3, <2>4
<1>6. CASE P!MouseLeaves
  BY <1>6 DEF P!MouseLeaves, P!playVars
<1>7. CASE UNCHANGED <<page, isPlaying, showControls, timers, pausedSince>>
  BY <1>7
<1> QED
  BY <1>1, <1>2, <1>3, <1>4, <1>5, <1>6, <1>7
  DEF P!Next, P!ChooseTrack, P!ChangeVolume, P!ToggleMute, P!DeleteEntry,
      P!UpdateEntry, P!Export, P!ToggleRepeat, P!VideoEnds, P!AddEntry, P!Upload,
      P!controlVars, P!playVars

LEMMA PlayerRestStep ==
  ASSUME PlayerInv, P!Next
  PROVE  /\ isPlaying' \in BOOLEAN /\ element' \in BOOLEAN
         /\ ended' = P!Ears(isRepeat', currentTrack')
         /\ P!PausedStands'
<1> USE DEF PlayerInv, P!PausedStands
<1>1. CASE P!TogglePlayPause
  BY <1>1 DEF P!TogglePlayPause, P!trackVars
<1>2. CASE P!ToggleRepeat
  BY <1>2 DEF P!ToggleRepeat, P!playVars
<1>3. ASSUME NEW k \in 1..Tracks, P!ChooseTrack(k)
      PROVE  /\ isPlaying' \in BOOLEAN /\ element' \in BOOLEAN
             /\ ended' = P!Ears(isRepeat', currentTrack')
             /\ P!PausedStands'
  BY <1>3 DEF P!ChooseTrack, P!NewSource
<1>4. CASE P!Ended
  BY <1>4 DEF P!Ended, P!NewSource
<1>5. CASE P!VideoEnds
  BY <1>5 DEF P!VideoEnds, P!trackVars
<1>6. CASE UNCHANGED <<isPlaying, element, currentTrack, isRepeat, ended>>
  BY <1>6
<1> QED
  BY <1>1, <1>2, <1>3, <1>4, <1>5, <1>6
  DEF P!Next, P!Open, P!ChangeVolume, P!ToggleMute, P!DeleteEntry, P!UpdateEntry,
      P!Export, P!MouseMoves, P!TimerFires, P!MouseLeaves, P!AddEntry, P!Upload,
      P!playVars, P!trackVars

LEMMA PlayerInvInvariant == MCSpec => []PlayerInv
<1>1. MCInit => PlayerInv
  <2> SUFFICES ASSUME P!Init  PROVE PlayerInv
    BY DEF MCInit
  <2>1. PlayerSound
    <3>1. volume = Levels /\ sound = Levels /\ ~isMuted /\ isMuted \in BOOLEAN
      BY DEF P!Init
    <3>2. Levels \in Nat /\ Levels > 0
      BY PlayerAssumption
    <3> QED  BY <3>1, <3>2 DEF PlayerSound
  <2>2. PlayerControls
    <3>1. timers = <<>> /\ showControls = TRUE /\ pausedSince = FALSE
      BY DEF P!Init
    <3>2. timers \in Seq(BOOLEAN) /\ 1..Len(timers) = {}
      BY <3>1, EmptySeq
    <3> QED  BY <3>1, <3>2 DEF PlayerControls
  <2>3. ended = P!Ears(isRepeat, currentTrack)
    BY DEF P!Init, P!Ears
  <2> QED  BY <2>1, <2>2, <2>3 DEF P!Init, PlayerInv, P!PausedStands
<1>2. PlayerInv /\ UNCHANGED playerVars => PlayerInv'
  BY DEF PlayerInv, playerVars, PlayerSound, PlayerControls, P!PausedStands, P!Ears
<1>3. PlayerInv /\ P!Next => PlayerInv'
  BY PlayerSoundStep, PlayerControlsStep, PlayerRestStep DEF PlayerInv
<1>4. PlayerInv /\ [MCNext]_<<mode, vars, viewerVars, riskVars, playerVars, savedVars, auditVars>>
        => PlayerInv'
  BY <1>2, <1>3 DEF MCNext
<1> QED  BY <1>1, <1>4, PTL DEF MCSpec

\* What looks paused is silent, the slider shows how loud it is, a video that
\* stands has its controls, and the last track is the last unless it is to be
\* repeated (app/player/audio/page.tsx, app/player/video/page.tsx).
THEOREM SpecPlayerIsHonest == MCSpec => PlayerIsHonest
<1>1. PlayerInv => P!PausedStands /\ P!SoundIsHonest /\ P!ControlsAreShown
  <2> SUFFICES ASSUME PlayerInv
               PROVE  P!PausedStands /\ P!SoundIsHonest /\ P!ControlsAreShown
    OBVIOUS
  <2>1. P!SoundIsHonest
    BY DEF PlayerInv, PlayerSound, P!SoundIsHonest, P!Slider
  <2>2. P!ControlsAreShown
    BY DEF PlayerInv, PlayerControls, P!ControlsAreShown
  <2> QED  BY <2>1, <2>2 DEF PlayerInv
<1>2. MCSpec => P!TheEndIsTheEnd
  <2>1. PlayerInv
          => (P!Ended /\ ~isRepeat /\ currentTrack = Tracks => ~isPlaying')
    BY PlayerAssumption DEF PlayerInv, P!Ended, P!Ears
  <2>2. PlayerInv /\ [MCNext]_<<mode, vars, viewerVars, riskVars, playerVars, savedVars, auditVars>>
          => [P!Ended /\ ~isRepeat /\ currentTrack = Tracks => ~isPlaying']_(P!vars)
    BY <2>1
  <2> QED  BY <2>2, PlayerInvInvariant, PTL DEF MCSpec, P!TheEndIsTheEnd
<1> QED  BY <1>1, <1>2, PlayerInvInvariant, PTL DEF PlayerIsHonest, P!PlayerIsHonest

-----------------------------------------------------------------------------
\* Induction, over a set instead of a property.
LEMMA SetInduction ==
  ASSUME NEW good, 0 \in good, \A n \in Nat : n \in good => n + 1 \in good
  PROVE  Nat \subseteq good
  <1> DEFINE bad  == Nat \ good
             down == {1..n : n \in bad}
             less == StrictSubsetOrdering(Nat)
             all  == FiniteSubsetsOf(Nat)
  <1> SUFFICES ASSUME bad # {} PROVE FALSE
    OBVIOUS
  <1>1. down \subseteq all /\ down # {}
    <2>1. ASSUME NEW n \in bad PROVE 1..n \in all
      <3>1. n \in Int /\ 1..n \subseteq Nat
        OBVIOUS
      <3>2. IsFiniteSet(1..n)
        BY <3>1, FS_Interval
      <3>3. QED
        BY <3>1, <3>2 DEF FiniteSubsetsOf
    <2>2. QED
      BY <2>1
  <1>2. IsWellFoundedOn(less, all)
    BY FS_StrictSubsetOrderingWellFounded
  <1>3. \E x \in down : \A y \in down : <<y, x>> \notin less
    <2> HIDE DEF down, less, all
    <2>1. QED
      BY <1>1, <1>2, WFMin
  <1>4. PICK n \in bad : \A y \in down : <<y, 1..n>> \notin less
    BY <1>3
  <1>5. n # 0 /\ n - 1 \in bad
    <2>1. n # 0
      OBVIOUS
    <2>2. n - 1 \in Nat /\ (n - 1) + 1 = n
      BY <2>1
    <2>3. QED
      BY <2>1, <2>2
  <1>6. 1..(n - 1) \in down
    BY <1>5
  <1>7. <<1..(n - 1), 1..n>> \in less
    <2>1. n \in 1..n /\ n \notin 1..(n - 1) /\ 1..(n - 1) \subseteq 1..n /\ 1..n \subseteq Nat
      BY <1>5
    <2>2. QED
      BY <2>1 DEF StrictSubsetOrdering
  <1>8. QED
    BY <1>4, <1>6, <1>7

-----------------------------------------------------------------------------
(* The editor of subtitles.  What is written is read back line by line: the *)
(* invariant of the reading says where in an entry the line is, and what    *)
(* the blocks so far are, or that the upload will fail.                     *)

Letters == {P!Word, P!Blank}
Lines   == {P!Number(k) : k \in Nat} \cup {P!Time} \cup Letters

LEMMA LinesDiffer ==
  /\ P!Time # P!Word /\ P!Time # P!Blank /\ P!Word # P!Blank
  /\ \A k \in Nat : P!Number(k) \notin {P!Time, P!Word, P!Blank} /\ P!Number(k)[2] = k
  /\ P!Blank[2] = 0 /\ P!Time[2] = 0 /\ P!Word[2] = 0
  BY DEF P!Number, P!Time, P!Word, P!Blank

\* Of finitely many numbers one is the last.
LEMMA LastOf ==
  ASSUME NEW n \in Nat, NEW set \in SUBSET (1..n), set # {}
  PROVE  \E i \in set : \A j \in set : j <= i
  <1> DEFINE good == {m \in Nat : \A s \in SUBSET (1..m) : s # {} => \E i \in s : \A j \in s : j <= i}
  <1>1. 0 \in good
    <2>1. 1..0 = {}
      OBVIOUS
    <2>2. \A s \in SUBSET (1..0) : s = {}
      BY <2>1
    <2>3. QED
      BY <2>2
  <1>2. ASSUME NEW m \in Nat, m \in good PROVE m + 1 \in good
    <2> SUFFICES ASSUME NEW s \in SUBSET (1..(m + 1)), s # {} PROVE \E i \in s : \A j \in s : j <= i
      OBVIOUS
    <2>1. CASE m + 1 \in s
      <3>1. \A j \in s : j <= m + 1
        OBVIOUS
      <3>2. QED
        BY <2>1, <3>1
    <2>2. CASE m + 1 \notin s
      <3>1. s \in SUBSET (1..m)
        BY <2>2
      <3>2. QED
        BY <1>2, <3>1
    <2>3. QED
      BY <2>1, <2>2
  <1> HIDE DEF good
  <1>3. Nat \subseteq good
    BY <1>1, <1>2, SetInduction
  <1>4. QED
    BY <1>3 DEF good

\* What Trim leaves of lines that do not begin with an empty one.
LEMMA Trimmed ==
  ASSUME NEW Elems, NEW lines \in Seq(Elems), lines # <<>>, lines[1] # P!Blank
  PROVE  \E m \in 1..Len(lines) :
           /\ lines[m] # P!Blank /\ \A p \in (m + 1)..Len(lines) : lines[p] = P!Blank
           /\ P!Trim(lines) \in Seq(Elems) /\ Len(P!Trim(lines)) = m
           /\ \A p \in 1..m : P!Trim(lines)[p] = lines[p]
  <1> DEFINE full  == {i \in DOMAIN lines : lines[i] # P!Blank}
             head  == CHOOSE i \in full : \A j \in full : i <= j
             final == CHOOSE i \in full : \A j \in full : j <= i
  <1>1. Len(lines) \in Nat \ {0} /\ DOMAIN lines = 1..Len(lines)
    BY EmptySeq, LenProperties
  <1>2. full \subseteq 1..Len(lines) /\ 1 \in full
    BY <1>1
  <1>3. \E i \in full : \A j \in full : j <= i
    <2> HIDE DEF full
    <2>1. full # {} /\ full \in SUBSET (1..Len(lines)) /\ Len(lines) \in Nat
      BY <1>1, <1>2
    <2>2. QED
      BY <2>1, LastOf
  <1>4. final \in full /\ \A j \in full : j <= final
    <2> HIDE DEF full
    <2>1. QED
      BY <1>3
  <1>5. head = 1
    <2> HIDE DEF full
    <2>1. \A j \in full : 1 <= j
      BY <1>2
    <2>2. head \in full /\ \A j \in full : head <= j
      BY <1>2, <2>1
    <2> HIDE DEF head
    <2>3. head <= 1 /\ 1 <= head /\ head \in Nat
      BY <1>1, <1>2, <2>1, <2>2
    <2>4. QED
      BY <2>3
  <1>6. P!Trim(lines) = SubSeq(lines, head, final)
    BY <1>2 DEF P!Trim
  <1>7. final \in 1..Len(lines) /\ lines[final] # P!Blank
        /\ \A p \in (final + 1)..Len(lines) : lines[p] = P!Blank
    <2>1. final \in 1..Len(lines) /\ lines[final] # P!Blank
      <3> HIDE DEF final
      <3>1. QED
        BY <1>1, <1>4
    <2>2. ASSUME NEW p \in (final + 1)..Len(lines) PROVE lines[p] = P!Blank
      <3> HIDE DEF final
      <3>1. p \in 1..Len(lines) /\ ~(p <= final)
        BY <1>1, <2>1
      <3>2. p \notin full
        BY <1>4, <3>1
      <3>3. QED
        BY <1>1, <3>1, <3>2
    <2>3. QED
      BY <2>1, <2>2
  <1> HIDE DEF final, head, full
  <1>8. \A i \in 1..final : lines[i] \in Elems
    <2>1. \A i \in 1..final : i \in 1..Len(lines)
      BY <1>1, <1>7
    <2>2. QED
      BY <2>1, ElementOfSeq
  <1>9. /\ SubSeq(lines, 1, final) \in Seq(Elems)
        /\ Len(SubSeq(lines, 1, final)) = final
        /\ \A i \in 1..final : SubSeq(lines, 1, final)[i] = lines[i]
    <2>1. final \in Int /\ 1 \in Int /\ 1 <= final
      BY <1>1, <1>7
    <2> DEFINE u == SubSeq(lines, 1, final)
    <2>2. /\ u \in Seq(Elems) /\ Len(u) = (IF 1 <= final THEN final - 1 + 1 ELSE 0)
          /\ \A i \in 1..(final - 1 + 1) : u[i] = lines[1 + i - 1]
      BY <1>8, <2>1, SubSeqProperties
    <2> HIDE DEF u
    <2>3. u \in Seq(Elems) /\ Len(u) = final /\ \A i \in 1..final : u[i] = lines[i]
      <3>1. \A i \in 1..final : i \in 1..(final - 1 + 1) /\ 1 + i - 1 = i
        BY <2>1
      <3>2. QED
        BY <2>1, <2>2, <3>1
    <2>4. QED
      BY <2>3 DEF u
  <1>10. QED
    BY <1>5, <1>6, <1>7, <1>9

\* The reading takes the lines one by one, as its recursive definition says.
LEMMA ReadOneByOne ==
  ASSUME NEW u, Len(u) \in Nat
  PROVE  /\ P!Reading(u)[0] = [blocks |-> <<>>, block |-> <<>>]
         /\ \A q \in 1..Len(u) : P!Reading(u)[q] = P!Taken(P!Reading(u)[q - 1], u[q])
  <1> DEFINE start == [blocks |-> <<>>, block |-> <<>>]
             Reads(f, m) == f = [n \in 0..m |-> IF n = 0 THEN start ELSE P!Taken(f[n - 1], u[n])]
             good == {m \in Nat : \E f : Reads(f, m)}
  <1>1. 0 \in good
    <2>1. Reads([n \in 0..0 |-> start], 0)
      OBVIOUS
    <2>2. QED
      BY <2>1
  <1>2. ASSUME NEW m \in Nat, m \in good PROVE m + 1 \in good
    <2>1. PICK f : Reads(f, m)
      BY <1>2
    <2> DEFINE g == [n \in 0..(m + 1) |-> IF n = m + 1 THEN P!Taken(f[m], u[n]) ELSE f[n]]
    <2>2. ASSUME NEW n \in 0..(m + 1)
          PROVE  g[n] = IF n = 0 THEN start ELSE P!Taken(g[n - 1], u[n])
      <3>1. CASE n = m + 1
        <4>1. g[n] = P!Taken(f[m], u[n]) /\ n # 0 /\ n - 1 = m /\ g[m] = f[m]
          BY <3>1
        <4>2. QED
          BY <4>1
      <3>2. CASE n # m + 1
        <4>1. n \in 0..m /\ g[n] = f[n]
          BY <3>2
        <4>2. f[n] = IF n = 0 THEN start ELSE P!Taken(f[n - 1], u[n])
          BY <2>1, <4>1
        <4>3. n # 0 => n - 1 \in 0..m /\ g[n - 1] = f[n - 1]
          BY <4>1
        <4> HIDE DEF g, start
        <4>4. QED
          BY <4>1, <4>2, <4>3
      <3>3. QED
        BY <3>1, <3>2
    <2>3. g = [n \in 0..(m + 1) |-> g[n]]
      OBVIOUS
    <2> HIDE DEF g, start
    <2>4. Reads(g, m + 1)
      BY <2>2, <2>3
    <2>5. QED
      BY <2>4
  <1>3. Len(u) \in good
    <2> HIDE DEF good
    <2>1. QED
      BY <1>1, <1>2, SetInduction
  <1>4. P!Reading(u) = CHOOSE f : Reads(f, Len(u))
    BY DEF P!Reading
  <1>5. Reads(P!Reading(u), Len(u))
    BY <1>3, <1>4
  <1>6. \A q \in 1..Len(u) : q \in 0..Len(u) /\ q # 0
    OBVIOUS
  <1>7. 0 \in 0..Len(u)
    OBVIOUS
  <1> HIDE DEF start
  <1>8. QED
    BY <1>5, <1>6, <1>7 DEF start

\* Where the lines of an entry are among those of all.
Follows(flat, c, at, n) ==
  /\ at \in [0..n -> Nat] /\ at[0] = 0 /\ at[n] = Len(flat)
  /\ \A k \in 1..n : at[k] = at[k - 1] + Len(c[k])
  /\ \A k \in 1..n : \A j \in 1..Len(c[k]) : flat[at[k - 1] + j] = c[k][j]
  /\ \A q \in 1..Len(flat) : \E k \in 1..n : \E j \in 1..Len(c[k]) : q = at[k - 1] + j

LEMMA FollowsOn ==
  ASSUME NEW Elems, NEW n \in Nat, NEW c, NEW flat \in Seq(Elems), NEW at, Follows(flat, c, at, n),
         NEW m, m = n + 1, \A k \in 1..m : c[k] \in Seq(Elems)
  PROVE  \E b : Follows(flat \o c[m], c, b, m)
  <1> DEFINE more == flat \o c[m]
             b == [k \in 0..m |-> IF k = m THEN Len(more) ELSE at[k]]
  <1>1. c[m] \in Seq(Elems) /\ Len(flat) \in Nat /\ \A k \in 1..m : Len(c[k]) \in Nat
    BY LenProperties
  <1>2. /\ Len(more) = Len(flat) + Len(c[m]) /\ Len(more) \in Nat
        /\ \A i \in 1..Len(flat) : more[i] = flat[i]
        /\ \A j \in 1..Len(c[m]) : more[Len(flat) + j] = c[m][j]
    <2>1. /\ Len(more) = Len(flat) + Len(c[m])
          /\ \A i \in 1..(Len(flat) + Len(c[m])) :
               more[i] = IF i <= Len(flat) THEN flat[i] ELSE c[m][i - Len(flat)]
      BY <1>1, ConcatProperties
    <2> HIDE DEF more
    <2>2. ASSUME NEW j \in 1..Len(c[m]) PROVE more[Len(flat) + j] = c[m][j]
      <3>1. /\ Len(flat) + j \in 1..(Len(flat) + Len(c[m])) /\ ~(Len(flat) + j <= Len(flat))
            /\ (Len(flat) + j) - Len(flat) = j
        BY <1>1
      <3>2. QED
        BY <2>1, <3>1
    <2>3. ASSUME NEW i \in 1..Len(flat) PROVE more[i] = flat[i]
      BY <1>1, <2>1
    <2>4. QED
      BY <1>1, <2>1, <2>2, <2>3
  <1> HIDE DEF more
  <1>3. /\ b \in [0..m -> Nat] /\ b[m] = Len(more) /\ m \in 1..m /\ m - 1 = n /\ b[n] = Len(flat)
        /\ \A k \in 0..n : b[k] = at[k]
    BY <1>2 DEF Follows
  <1> HIDE DEF b
  <1>4. b[0] = 0 /\ b[m] = Len(more)
    BY <1>3 DEF Follows
  <1>5. ASSUME NEW k \in 1..m
        PROVE  /\ b[k] = b[k - 1] + Len(c[k])
               /\ \A j \in 1..Len(c[k]) : more[b[k - 1] + j] = c[k][j]
    <2>1. CASE k = m
      BY <1>2, <1>3, <2>1
    <2>2. CASE k # m
      <3>1. k \in 1..n /\ k - 1 \in 0..n /\ k \in 0..n
        BY <2>2
      <3>2. b[k] = at[k] /\ b[k - 1] = at[k - 1] /\ at[k] = at[k - 1] + Len(c[k])
        BY <1>3, <3>1 DEF Follows
      <3>3. ASSUME NEW j \in 1..Len(c[k]) PROVE at[k - 1] + j \in 1..Len(flat)
        <4> DEFINE good == {d \in Nat : d \in 0..n => at[n - d] <= Len(flat)}
        <4>1. 0 \in good
          BY <1>1 DEF Follows
        <4>2. ASSUME NEW d \in Nat, d \in good PROVE d + 1 \in good
          <5> SUFFICES ASSUME d + 1 \in 0..n PROVE at[n - (d + 1)] <= Len(flat)
            OBVIOUS
          <5>1. d \in 0..n /\ n - d \in 1..m /\ n - d \in 1..n /\ (n - d) - 1 = n - (d + 1)
            OBVIOUS
          <5>2. at[n - d] = at[n - (d + 1)] + Len(c[n - d]) /\ Len(c[n - d]) \in Nat
            BY <1>1, <5>1 DEF Follows
          <5>3. at[n - (d + 1)] \in Nat /\ at[n - d] \in Nat /\ at[n - d] <= Len(flat)
            BY <4>2, <5>1 DEF Follows
          <5>4. QED
            BY <1>1, <5>2, <5>3
        <4> HIDE DEF good
        <4>3. Nat \subseteq good
          BY <4>1, <4>2, SetInduction
        <4>4. n - k \in 0..n /\ n - (n - k) = k
          BY <3>1
        <4>5. at[k] <= Len(flat)
          <5>1. n - k \in Nat /\ n - k \in good
            BY <4>3, <4>4
          <5>2. at[n - (n - k)] <= Len(flat)
            BY <5>1, <4>4 DEF good
          <5>3. QED
            BY <5>2, <4>4
        <4>6. at[k - 1] \in Nat /\ Len(c[k]) \in Nat
          BY <1>1, <3>1 DEF Follows
        <4>7. QED
          BY <1>1, <3>2, <4>5, <4>6
      <3>4. \A j \in 1..Len(c[k]) : flat[at[k - 1] + j] = c[k][j]
        BY <3>1 DEF Follows
      <3>5. QED
        BY <1>2, <3>2, <3>3, <3>4
    <2>3. QED
      BY <2>1, <2>2
  <1>6. ASSUME NEW q \in 1..Len(more)
        PROVE  \E k \in 1..m : \E j \in 1..Len(c[k]) : q = b[k - 1] + j
    <2>1. CASE q <= Len(flat)
      <3>1. PICK k \in 1..n : \E j \in 1..Len(c[k]) : q = at[k - 1] + j
        BY <1>1, <2>1 DEF Follows
      <3>2. k \in 1..m /\ b[k - 1] = at[k - 1]
        BY <1>3
      <3>3. QED
        BY <3>1, <3>2
    <2>2. CASE ~(q <= Len(flat))
      <3> DEFINE j == q - Len(flat)
      <3>1. j \in 1..Len(c[m]) /\ q = b[m - 1] + j
        <4>1. b[m - 1] = Len(flat) /\ m \in 1..m /\ Len(c[m]) \in Nat
          BY <1>1, <1>3
        <4>2. j \in 1..Len(c[m]) /\ q = Len(flat) + j
          BY <1>1, <1>2, <2>2, <4>1
        <4>3. QED
          BY <4>1, <4>2
      <3> HIDE DEF j
      <3>2. QED
        BY <1>3, <3>1
    <2>3. QED
      BY <2>1, <2>2
  <1>7. Follows(more, c, b, m)
    BY <1>3, <1>4, <1>5, <1>6 DEF Follows
  <1>8. QED
    BY <1>7 DEF more

\* Sequences that are put one after the other.
LEMMA Flattened ==
  ASSUME NEW Elems, NEW n \in Nat \ {0}, NEW c \in [1..n -> Seq(Elems)]
  PROVE  /\ P!FlattenSeq(c) \in Seq(Elems)
         /\ \E at : Follows(P!FlattenSeq(c), c, at, n)
  <1> DEFINE Glues(f, m) == f = [i \in 1..m |-> IF i = 1 THEN c[i] ELSE f[i - 1] \o c[i]]
             Fits(f, m) == \A i \in 1..m : f[i] \in Seq(Elems) /\ \E at : Follows(f[i], c, at, i)
             good == {m \in Nat : m \in 1..n => \E f : Glues(f, m)}
  <1>1. c \in Seq(Seq(Elems)) /\ Len(c) = n /\ \A i \in 1..n : c[i] \in Seq(Elems) /\ Len(c[i]) \in Nat
    <2>1. c \in Seq(Seq(Elems)) /\ \A i \in 1..n : c[i] \in Seq(Elems)
      BY SeqDef
    <2>2. Len(c) = n
      OBVIOUS
    <2>3. QED
      BY <2>1, <2>2, LenProperties
  <1>2. 0 \in good
    OBVIOUS
  <1>3. ASSUME NEW m \in Nat, m \in good PROVE m + 1 \in good
    <2> HIDE DEF Glues
    <2> SUFFICES ASSUME m + 1 \in 1..n PROVE \E f : Glues(f, m + 1)
      OBVIOUS
    <2>1. CASE m = 0
      <3>1. Glues([i \in 1..1 |-> c[1]], 1)
        BY DEF Glues
      <3>2. m + 1 = 1
        BY <2>1
      <3>3. QED
        BY <3>1, <3>2
    <2>2. CASE m # 0
      <3>1. m \in 1..n
        BY <2>2
      <3>2. PICK f : Glues(f, m)
        BY <1>3, <3>1
      <3> USE DEF Glues
      <3> DEFINE g == [i \in 1..(m + 1) |-> IF i = m + 1 THEN f[m] \o c[i] ELSE f[i]]
      <3>3. ASSUME NEW i \in 1..(m + 1) PROVE g[i] = IF i = 1 THEN c[i] ELSE g[i - 1] \o c[i]
        <4>1. CASE i = m + 1
          <5>1. i # 1 /\ i - 1 = m /\ m \in 1..(m + 1) /\ m # m + 1
            BY <2>2, <3>1, <4>1
          <5>2. g[m] = f[m]
            BY <5>1
          <5>3. g[i] = f[m] \o c[i]
            BY <4>1
          <5> HIDE DEF g
          <5>4. QED
            BY <5>1, <5>2, <5>3
        <4>2. CASE i # m + 1
          <5>1. i \in 1..m /\ g[i] = f[i]
            BY <4>2
          <5>2. f[i] = IF i = 1 THEN c[i] ELSE f[i - 1] \o c[i]
            BY <3>2, <5>1
          <5>3. i # 1 => i - 1 \in 1..m /\ g[i - 1] = f[i - 1]
            BY <5>1
          <5> HIDE DEF g
          <5>4. QED
            BY <5>1, <5>2, <5>3
        <4>3. QED
          BY <4>1, <4>2
      <3>4. g = [i \in 1..(m + 1) |-> g[i]]
        OBVIOUS
      <3> HIDE DEF g
      <3>5. Glues(g, m + 1)
        BY <3>3, <3>4
      <3>6. QED
        BY <3>5
    <2>3. QED
      BY <2>1, <2>2
  <1>4. \E f : Glues(f, n)
    <2> HIDE DEF good
    <2>1. Nat \subseteq good
      BY <1>2, <1>3, SetInduction
    <2>2. n \in 1..n
      OBVIOUS
    <2>3. QED
      BY <2>1, <2>2 DEF good
  <1> DEFINE f == CHOOSE f : Glues(f, n)
  <1>5. P!FlattenSeq(c) = f[n]
    BY <1>1 DEF P!FlattenSeq
  <1>6. Glues(f, n)
    BY <1>4
  <1> HIDE DEF f
  <1>7. \A i \in 1..n : f[i] = IF i = 1 THEN c[i] ELSE f[i - 1] \o c[i]
    BY <1>6
  <1> DEFINE fit == {m \in Nat : m \in 1..n => f[m] \in Seq(Elems) /\ \E at : Follows(f[m], c, at, m)}
  <1>8. 0 \in fit
    OBVIOUS
  <1>9. ASSUME NEW m \in Nat, m \in fit PROVE m + 1 \in fit
    <2> SUFFICES ASSUME m + 1 \in 1..n
                 PROVE  f[m + 1] \in Seq(Elems) /\ \E at : Follows(f[m + 1], c, at, m + 1)
      OBVIOUS
    <2>1. CASE m = 0
      <3> DEFINE at == [i \in 0..1 |-> IF i = 0 THEN 0 ELSE Len(c[1])]
      <3>1. 1 \in 1..n /\ f[1] = c[1] /\ c[1] \in Seq(Elems) /\ Len(c[1]) \in Nat
        BY <1>1, <1>7
      <3>2. at \in [0..1 -> Nat] /\ at[0] = 0 /\ at[1] = Len(c[1])
        BY <3>1
      <3> HIDE DEF at
      <3>3. \A k \in 1..1 : k = 1 /\ k - 1 = 0
        OBVIOUS
      <3>4. \A j \in 1..Len(c[1]) : 0 + j = j
        BY <3>1
      <3>5. Follows(c[1], c, at, 1)
        BY <3>1, <3>2, <3>3, <3>4 DEF Follows
      <3>6. QED
        BY <2>1, <3>1, <3>5
    <2>2. CASE m # 0
      <3>1. m \in 1..n /\ m + 1 # 1 /\ (m + 1) - 1 = m
        BY <2>2
      <3>2. f[m + 1] = f[m] \o c[m + 1] /\ f[m] \in Seq(Elems) /\ c[m + 1] \in Seq(Elems)
        BY <1>1, <1>7, <1>9, <3>1
      <3>3. PICK at : Follows(f[m], c, at, m)
        BY <1>9, <3>1
      <3>4. \A k \in 1..(m + 1) : c[k] \in Seq(Elems)
        BY <1>1
      <3>5. \E b : Follows(f[m] \o c[m + 1], c, b, m + 1)
        BY <3>2, <3>3, <3>4, FollowsOn
      <3>6. QED
        BY <3>2, <3>5, ConcatProperties
    <2>3. QED
      BY <2>1, <2>2
  <1> HIDE DEF fit
  <1>10. Nat \subseteq fit
    BY <1>8, <1>9, SetInduction
  <1>11. n \in 1..n
    OBVIOUS
  <1>12. QED
    BY <1>5, <1>10, <1>11 DEF fit

-----------------------------------------------------------------------------
(* The steps of the reading.                                                *)

\* Texts of entries: not empty, and blank or beginning with a word.
TextSet  == {t \in Seq(Letters) : t # <<>> /\ (t = <<P!Blank>> \/ t[1] = P!Word)}
EntrySet == [id : Nat, text : TextSet]
Blocks   == Seq(Seq(Lines))
Reads    == [blocks : Blocks, block : Seq(Lines)]

\* No text has an empty line.
Wordy(es) == \A k \in 1..Len(es) : \A p \in 1..Len(es[k].text) : es[k].text[p] = P!Word

\* The block of entry k, or what a text with an empty line left of it.
Whole(es, k, b) ==
  /\ b \in Seq(Lines) /\ Len(b) >= 3
  /\ b[1] = P!Number(k) /\ b[2] = P!Time
  /\ \A p \in 3..Len(b) : b[p] = P!Word
  /\ Wordy(es) => Len(b) = Len(es[k].text) + 2

GoodBlocks(es, blocks, c) ==
  blocks \in Blocks /\ Len(blocks) = c /\ \A k \in 1..c : Whole(es, k, blocks[k])

BadBlock(b) == b \in Seq(Lines) /\ Len(b) >= 3 /\ b[2] # P!Time

\* The upload will fail.
Doomed(es, read) ==
  /\ ~Wordy(es) /\ read \in Reads
  /\ BadBlock(read.block) \/ \E j \in 1..Len(read.blocks) : BadBlock(read.blocks[j])

\* Between two entries.
Between(es, k, read) ==
  \/ read \in Reads /\ GoodBlocks(es, read.blocks, k) /\ read.block = <<>>
  \/ read \in Reads /\ ~Wordy(es) /\ read.block = <<P!Blank>>
  \/ Doomed(es, read)

\* In the text of entry k, after i lines: no line was empty,
InText(es, k, i, read) ==
  /\ read \in Reads /\ GoodBlocks(es, read.blocks, k - 1)
  /\ Len(read.block) = i + 2 /\ read.block[1] = P!Number(k) /\ read.block[2] = P!Time
  /\ \A p \in 3..(i + 2) : read.block[p] = P!Word

\* or the text was broken off by one,
BrokenOff(es, k, read) ==
  /\ read \in Reads /\ ~Wordy(es)
  /\ GoodBlocks(es, read.blocks, k) /\ read.block \in Seq(Letters)

\* or there is no text.
NoText(es, k, i, read) ==
  /\ read \in Reads /\ ~Wordy(es)
  /\ i = 1 /\ es[k].text = <<P!Blank>>
  /\ GoodBlocks(es, read.blocks, k - 1) /\ read.block = <<>>

Within(es, k, i, read) ==
  InText(es, k, i, read) \/ BrokenOff(es, k, read) \/ NoText(es, k, i, read) \/ Doomed(es, read)

\* What a line does.
LEMMA TakenLine ==
  ASSUME NEW read \in Reads, NEW line \in Lines
  PROVE  /\ P!Taken(read, line) \in Reads
         /\ line = P!Blank /\ read.block # <<>> =>
              /\ P!Taken(read, line).block = <<>>
              /\ Len(read.block) < 3 => P!Taken(read, line).blocks = read.blocks
              /\ Len(read.block) >= 3 =>
                   P!Taken(read, line).blocks = Append(read.blocks, read.block)
         /\ line # P!Blank \/ read.block = <<>> =>
              /\ P!Taken(read, line).block = Append(read.block, line)
              /\ P!Taken(read, line).blocks = read.blocks
  <1>1. read.blocks \in Blocks /\ read.block \in Seq(Lines) /\ Len(read.block) \in Nat
    BY LenProperties DEF Reads
  <1>2. P!Keep(read.blocks, read.block) \in Blocks
    BY <1>1, AppendProperties DEF P!Keep, Blocks
  <1>3. Append(read.block, line) \in Seq(Lines) /\ <<>> \in Seq(Lines)
    BY <1>1, AppendProperties, EmptySeq
  <1>4. CASE line = P!Blank /\ read.block # <<>>
    <2>1. P!Taken(read, line) = [blocks |-> P!Keep(read.blocks, read.block), block |-> <<>>]
      BY <1>4 DEF P!Taken
    <2>2. QED
      BY <1>1, <1>2, <1>3, <1>4, <2>1 DEF Reads, P!Keep, P!Enough
  <1>5. CASE ~(line = P!Blank /\ read.block # <<>>)
    <2>1. P!Taken(read, line) = [blocks |-> read.blocks, block |-> Append(read.block, line)]
      BY <1>5 DEF P!Taken
    <2>2. QED
      BY <1>1, <1>3, <1>5, <2>1 DEF Reads
  <1>6. QED
    BY <1>4, <1>5

\* One more block.
LEMMA OneMore ==
  ASSUME NEW es, NEW blocks \in Blocks, NEW b \in Seq(Lines)
  PROVE  /\ \A k \in Nat \ {0} : GoodBlocks(es, blocks, k - 1) /\ Whole(es, k, b) => GoodBlocks(es, Append(blocks, b), k)
         /\ BadBlock(b) => \E j \in 1..Len(Append(blocks, b)) : BadBlock(Append(blocks, b)[j])
         /\ (\E j \in 1..Len(blocks) : BadBlock(blocks[j])) =>
              \E j \in 1..Len(Append(blocks, b)) : BadBlock(Append(blocks, b)[j])
  <1> DEFINE more == Append(blocks, b)
  <1>1. /\ more \in Blocks /\ Len(more) = Len(blocks) + 1 /\ more[Len(blocks) + 1] = b
        /\ \A j \in 1..Len(blocks) : more[j] = blocks[j]
        /\ Len(blocks) \in Nat
    BY AppendProperties, LenProperties DEF Blocks
  <1> HIDE DEF more
  <1>2. ASSUME NEW k \in Nat \ {0}, GoodBlocks(es, blocks, k - 1), Whole(es, k, b) PROVE GoodBlocks(es, more, k)
    <2>1. Len(blocks) = k - 1 /\ Len(more) = k
      BY <1>1, <1>2 DEF GoodBlocks
    <2>2. ASSUME NEW j \in 1..k PROVE Whole(es, j, more[j])
      <3>1. CASE j = k
        BY <1>1, <1>2, <2>1, <3>1
      <3>2. CASE j # k
        <4>1. j \in 1..(k - 1)
          BY <3>2
        <4>2. more[j] = blocks[j] /\ Whole(es, j, blocks[j])
          BY <1>1, <1>2, <2>1, <4>1 DEF GoodBlocks
        <4>3. QED
          BY <4>2
      <3>3. QED
        BY <3>1, <3>2
    <2>3. QED
      BY <1>1, <2>1, <2>2 DEF GoodBlocks
  <1>3. BadBlock(b) => \E j \in 1..Len(more) : BadBlock(more[j])
    <2>1. Len(more) \in 1..Len(more) /\ more[Len(more)] = b
      BY <1>1
    <2>2. QED
      BY <2>1
  <1>4. ASSUME NEW j \in 1..Len(blocks), BadBlock(blocks[j])
        PROVE  \E i \in 1..Len(more) : BadBlock(more[i])
    <2>1. j \in 1..Len(more) /\ more[j] = blocks[j]
      BY <1>1
    <2>2. QED
      BY <1>4, <2>1
  <1>5. QED
    BY <1>2, <1>3, <1>4 DEF more

LEMMA DoomedStays ==
  ASSUME NEW es, NEW read, NEW line \in Lines, Doomed(es, read)
  PROVE  Doomed(es, P!Taken(read, line))
  <1> DEFINE next == P!Taken(read, line)
  <1>1. /\ read \in Reads /\ next \in Reads /\ ~Wordy(es)
        /\ read.blocks \in Blocks /\ read.block \in Seq(Lines) /\ Len(read.block) \in Nat
    BY TakenLine, LenProperties DEF Doomed, Reads
  <1>2. CASE line = P!Blank /\ read.block # <<>> /\ Len(read.block) >= 3
    <2>1. next.blocks = Append(read.blocks, read.block)
      BY <1>1, <1>2, TakenLine
    <2> HIDE DEF next
    <2>2. \E j \in 1..Len(next.blocks) : BadBlock(next.blocks[j])
      BY <1>1, <2>1, OneMore DEF Doomed
    <2>3. QED
      BY <1>1, <2>2 DEF Doomed, next
  <1>3. CASE line = P!Blank /\ read.block # <<>> /\ Len(read.block) < 3
    <2>1. next.blocks = read.blocks
      BY <1>1, <1>3, TakenLine
    <2>2. ~BadBlock(read.block)
      BY <1>1, <1>3 DEF BadBlock
    <2> HIDE DEF next
    <2>3. QED
      BY <1>1, <2>1, <2>2 DEF Doomed, next
  <1>4. CASE line # P!Blank \/ read.block = <<>>
    <2>1. next.blocks = read.blocks /\ next.block = Append(read.block, line)
      BY <1>1, <1>4, TakenLine
    <2> HIDE DEF next
    <2>2. BadBlock(read.block) => BadBlock(next.block)
      <3> SUFFICES ASSUME BadBlock(read.block) PROVE BadBlock(next.block)
        OBVIOUS
      <3>1. /\ next.block \in Seq(Lines) /\ Len(next.block) = Len(read.block) + 1
            /\ \A i \in 1..Len(read.block) : next.block[i] = read.block[i]
        BY <1>1, <2>1, AppendProperties
      <3>2. Len(read.block) >= 3 /\ 2 \in 1..Len(read.block) /\ read.block[2] # P!Time
        BY <1>1 DEF BadBlock
      <3>3. QED
        BY <1>1, <3>1, <3>2 DEF BadBlock
    <2>3. QED
      BY <1>1, <2>1, <2>2 DEF Doomed, next
  <1>5. QED
    BY <1>1, <1>2, <1>3, <1>4

\* A line that is not empty is added; so is an empty one at the beginning.
LEMMA LineAdded ==
  ASSUME NEW read \in Reads, NEW line \in Lines, line # P!Blank \/ read.block = <<>>
  PROVE  LET next == P!Taken(read, line) IN
         /\ next \in Reads /\ next.blocks = read.blocks
         /\ next.block = Append(read.block, line)
         /\ Len(next.block) = Len(read.block) + 1 /\ Len(read.block) \in Nat
         /\ \A i \in 1..Len(read.block) : next.block[i] = read.block[i]
         /\ next.block[Len(read.block) + 1] = line
         /\ next.block \in Seq(Lines) /\ read.block \in Seq(Lines)
  <1> DEFINE next == P!Taken(read, line)
  <1>1. next \in Reads /\ next.block = Append(read.block, line) /\ next.blocks = read.blocks
    BY TakenLine
  <1>2. read.block \in Seq(Lines) /\ Len(read.block) \in Nat
    BY LenProperties DEF Reads
  <1> HIDE DEF next
  <1>3. QED
    BY <1>1, <1>2, AppendProperties DEF next

LEMMA LinesAre ==
  /\ P!Time \in Lines /\ P!Word \in Lines /\ P!Blank \in Lines /\ Letters \subseteq Lines
  /\ \A k \in Nat : P!Number(k) \in Lines
  BY DEF Lines, Letters

\* Number and times.
LEMMA HeadTaken ==
  ASSUME NEW es, NEW k \in Nat \ {0}, NEW read, Between(es, k - 1, read)
  PROVE  Within(es, k, 0, P!Taken(P!Taken(read, P!Number(k)), P!Time))
  <1> DEFINE one == P!Taken(read, P!Number(k))
             two == P!Taken(one, P!Time)
  <1>1. P!Number(k) \in Lines /\ P!Time \in Lines /\ P!Number(k) # P!Blank /\ P!Time # P!Blank
    BY LinesAre, LinesDiffer
  <1>2. CASE Doomed(es, read)
    <2>1. Doomed(es, one)
      BY <1>1, <1>2, DoomedStays
    <2>2. Doomed(es, two)
      <3> HIDE DEF one
      <3>1. QED
        BY <1>1, <2>1, DoomedStays
    <2>3. QED
      BY <2>2 DEF Within
  <1>3. ASSUME read \in Reads
        PROVE  /\ two \in Reads /\ two.blocks = read.blocks
               /\ Len(two.block) = Len(read.block) + 2 /\ Len(read.block) \in Nat
               /\ \A i \in 1..Len(read.block) : two.block[i] = read.block[i]
               /\ two.block[Len(read.block) + 1] = P!Number(k)
               /\ two.block[Len(read.block) + 2] = P!Time
               /\ two.block \in Seq(Lines)
    <2>1. /\ one \in Reads /\ one.blocks = read.blocks
          /\ Len(one.block) = Len(read.block) + 1 /\ Len(read.block) \in Nat
          /\ \A i \in 1..Len(read.block) : one.block[i] = read.block[i]
          /\ one.block[Len(read.block) + 1] = P!Number(k)
      BY <1>1, <1>3, LineAdded
    <2> HIDE DEF one
    <2>2. /\ two \in Reads /\ two.blocks = one.blocks
          /\ Len(two.block) = Len(one.block) + 1
          /\ \A i \in 1..Len(one.block) : two.block[i] = one.block[i]
          /\ two.block[Len(one.block) + 1] = P!Time /\ two.block \in Seq(Lines)
      BY <1>1, <2>1, LineAdded
    <2> HIDE DEF two
    <2>3. QED
      BY <2>1, <2>2
  <1> HIDE DEF two
  <1>4. CASE read \in Reads /\ GoodBlocks(es, read.blocks, k - 1) /\ read.block = <<>>
    <2>1. Len(read.block) = 0
      BY <1>4
    <2>2. InText(es, k, 0, two)
      BY <1>3, <1>4, <2>1 DEF InText
    <2>3. QED
      BY <2>2 DEF Within, two
  <1>5. CASE read \in Reads /\ ~Wordy(es) /\ read.block = <<P!Blank>>
    <2>1. Len(read.block) = 1
      BY <1>5
    <2>2. Len(two.block) = 3 /\ two.block[2] = P!Number(k)
      BY <1>3, <1>5, <2>1
    <2>3. BadBlock(two.block)
      BY <1>3, <1>5, <2>2, LinesDiffer DEF BadBlock
    <2>4. QED
      BY <1>3, <1>5, <2>3 DEF Within, Doomed, two
  <1>6. QED
    BY <1>2, <1>4, <1>5 DEF Between, two

\* A text that is broken off stays so, or dooms the upload.
LEMMA BrokenOffStays ==
  ASSUME NEW es, NEW k, NEW read, NEW line \in Letters, BrokenOff(es, k, read)
  PROVE  BrokenOff(es, k, P!Taken(read, line)) \/ Doomed(es, P!Taken(read, line))
  <1> DEFINE next == P!Taken(read, line)
  <1>1. /\ read \in Reads /\ next \in Reads /\ line \in Lines /\ ~Wordy(es)
        /\ GoodBlocks(es, read.blocks, k) /\ read.block \in Seq(Letters)
        /\ read.block \in Seq(Lines) /\ read.blocks \in Blocks /\ Len(read.block) \in Nat
    BY TakenLine, LinesAre, LenProperties DEF BrokenOff, Reads
  <1>2. CASE line = P!Blank /\ read.block # <<>> /\ Len(read.block) >= 3
    <2>1. next.blocks = Append(read.blocks, read.block)
      BY <1>1, <1>2, TakenLine
    <2>2. BadBlock(read.block)
      <3>1. 2 \in 1..Len(read.block)
        BY <1>1, <1>2
      <3>2. read.block[2] \in Letters
        BY <1>1, <3>1, ElementOfSeq
      <3>3. QED
        BY <1>1, <1>2, <3>2, LinesDiffer DEF BadBlock, Letters
    <2> HIDE DEF next
    <2>3. \E j \in 1..Len(next.blocks) : BadBlock(next.blocks[j])
      BY <1>1, <2>1, <2>2, OneMore
    <2>4. QED
      BY <1>1, <2>3 DEF Doomed, next
  <1>3. CASE line = P!Blank /\ read.block # <<>> /\ Len(read.block) < 3
    <2>1. next.blocks = read.blocks /\ next.block = <<>>
      BY <1>1, <1>3, TakenLine
    <2> HIDE DEF next
    <2>2. next.block \in Seq(Letters)
      BY <2>1, EmptySeq
    <2>3. QED
      BY <1>1, <2>1, <2>2 DEF BrokenOff, next
  <1>4. CASE line # P!Blank \/ read.block = <<>>
    <2>1. next.blocks = read.blocks /\ next.block = Append(read.block, line)
      BY <1>1, <1>4, TakenLine
    <2> HIDE DEF next
    <2>2. next.block \in Seq(Letters)
      BY <1>1, <2>1, AppendProperties
    <2>3. QED
      BY <1>1, <2>1, <2>2 DEF BrokenOff, next
  <1>5. QED
    BY <1>1, <1>2, <1>3, <1>4

\* Where the text has an empty line, not every text is of words.
LEMMA NotWordy ==
  ASSUME NEW es, NEW k \in 1..Len(es), NEW p \in 1..Len(es[k].text), es[k].text[p] = P!Blank
  PROVE  ~Wordy(es)
  BY LinesDiffer DEF Wordy

\* The block of an entry whose text goes on is whole when it is closed.
LEMMA InTextCloses ==
  ASSUME NEW es, NEW k \in Nat \ {0}, NEW i \in Nat \ {0}, NEW read, InText(es, k, i, read),
         Wordy(es) => i = Len(es[k].text)
  PROVE  /\ Whole(es, k, read.block)
         /\ P!Taken(read, P!Blank) \in Reads
         /\ P!Taken(read, P!Blank).block = <<>>
         /\ GoodBlocks(es, P!Taken(read, P!Blank).blocks, k)
         /\ P!Keep(read.blocks, read.block) = Append(read.blocks, read.block)
         /\ GoodBlocks(es, P!Keep(read.blocks, read.block), k)
  <1>1. /\ read \in Reads /\ read.blocks \in Blocks /\ read.block \in Seq(Lines)
        /\ GoodBlocks(es, read.blocks, k - 1) /\ Len(read.block) = i + 2
    BY DEF InText, Reads
  <1>2. Whole(es, k, read.block)
    BY <1>1 DEF InText, Whole
  <1>3. GoodBlocks(es, Append(read.blocks, read.block), k)
    BY <1>1, <1>2, OneMore
  <1>4. Len(read.block) >= 3 /\ read.block # <<>>
    BY <1>1
  <1>5. P!Keep(read.blocks, read.block) = Append(read.blocks, read.block)
    BY <1>4 DEF P!Keep, P!Enough
  <1>6. /\ P!Taken(read, P!Blank) \in Reads /\ P!Taken(read, P!Blank).block = <<>>
        /\ P!Taken(read, P!Blank).blocks = Append(read.blocks, read.block)
    BY <1>1, <1>4, TakenLine, LinesAre
  <1>7. QED
    BY <1>2, <1>3, <1>5, <1>6

\* A line of the text.
LEMMA TextTaken ==
  ASSUME NEW es \in Seq(EntrySet), NEW k \in 1..Len(es), NEW i \in Nat, i < Len(es[k].text),
         NEW read, Within(es, k, i, read)
  PROVE  Within(es, k, i + 1, P!Taken(read, es[k].text[i + 1]))
  <1> DEFINE text == es[k].text
             line == text[i + 1]
             next == P!Taken(read, line)
  <1>1. /\ text \in Seq(Letters) /\ text # <<>> /\ (text = <<P!Blank>> \/ text[1] = P!Word)
        /\ k \in Nat \ {0}
    <2>1. es[k] \in EntrySet /\ Len(es) \in Nat
      BY ElementOfSeq, LenProperties
    <2>2. QED
      BY <2>1 DEF EntrySet, TextSet
  <1>2. Len(text) \in Nat /\ i + 1 \in 1..Len(text)
    BY <1>1, LenProperties
  <1>3. line \in Letters /\ line \in Lines
    BY <1>1, <1>2, ElementOfSeq, LinesAre
  <1>4. CASE Doomed(es, read)
    <2>1. Doomed(es, next)
      BY <1>3, <1>4, DoomedStays
    <2>2. QED
      BY <2>1 DEF Within
  <1>5. CASE BrokenOff(es, k, read)
    BY <1>3, <1>5, BrokenOffStays DEF Within
  <1>6. CASE NoText(es, k, i, read)
    BY <1>2, <1>6 DEF NoText
  <1>7. CASE InText(es, k, i, read) /\ line # P!Blank
    <2>1. line = P!Word /\ read \in Reads
      BY <1>3, <1>7 DEF Letters, InText
    <2>2. /\ next \in Reads /\ next.blocks = read.blocks
          /\ Len(next.block) = Len(read.block) + 1
          /\ \A p \in 1..Len(read.block) : next.block[p] = read.block[p]
          /\ next.block[Len(read.block) + 1] = line
      BY <1>3, <1>7, <2>1, LineAdded
    <2> HIDE DEF next, line
    <2>3. Len(read.block) = i + 2 /\ 1 \in 1..(i + 2) /\ 2 \in 1..(i + 2)
      BY <1>7 DEF InText
    <2>4. ASSUME NEW p \in 3..((i + 1) + 2) PROVE next.block[p] = P!Word
      <3>1. CASE p = i + 3
        BY <2>1, <2>2, <2>3, <3>1
      <3>2. CASE p # i + 3
        <4>1. p \in 3..(i + 2) /\ p \in 1..(i + 2)
          BY <3>2
        <4>2. QED
          BY <1>7, <2>2, <2>3, <4>1 DEF InText
      <3>3. QED
        BY <3>1, <3>2
    <2>5. InText(es, k, i + 1, next)
      BY <1>7, <2>2, <2>3, <2>4 DEF InText
    <2>6. QED
      BY <2>5 DEF Within, next, line
  <1>8. CASE InText(es, k, i, read) /\ line = P!Blank
    <2>1. ~Wordy(es)
      BY <1>2, <1>8, NotWordy
    <2>2. CASE i = 0
      <3>1. text = <<P!Blank>>
        BY <1>1, <1>8, <2>2, LinesDiffer
      <3>2. read \in Reads /\ Len(read.block) = 2 /\ read.block # <<>>
        BY <1>8, <2>2 DEF InText
      <3> HIDE DEF line
      <3>3. next \in Reads /\ next.block = <<>> /\ next.blocks = read.blocks
        <4>1. line = P!Blank /\ line \in Lines /\ Len(read.block) < 3
          BY <1>3, <1>8, <3>2
        <4>2. QED
          BY <3>2, <4>1, TakenLine
      <3> HIDE DEF next
      <3>4. NoText(es, k, i + 1, next)
        BY <1>8, <2>1, <2>2, <3>1, <3>3 DEF NoText, InText
      <3>5. QED
        BY <3>4 DEF Within, next, line
    <2>3. CASE i # 0
      <3>1. next \in Reads /\ next.block = <<>> /\ GoodBlocks(es, next.blocks, k)
        BY <1>1, <1>8, <2>1, <2>3, InTextCloses
      <3>2. <<>> \in Seq(Letters)
        BY EmptySeq
      <3>3. BrokenOff(es, k, next)
        BY <2>1, <3>1, <3>2 DEF BrokenOff
      <3>4. QED
        BY <3>3 DEF Within
    <2>4. QED
      BY <2>2, <2>3
  <1>9. QED
    BY <1>4, <1>5, <1>6, <1>7, <1>8 DEF Within

\* The empty line after the text.
LEMMA EndTaken ==
  ASSUME NEW es \in Seq(EntrySet), NEW k \in 1..Len(es), NEW i, i = Len(es[k].text),
         NEW read, Within(es, k, i, read)
  PROVE  Between(es, k, P!Taken(read, P!Blank))
  <1> DEFINE next == P!Taken(read, P!Blank)
  <1>1. P!Blank \in Letters /\ P!Blank \in Lines
    BY LinesAre DEF Letters
  <1>2. i \in Nat \ {0} /\ k \in Nat \ {0}
    <2>1. es[k] \in EntrySet /\ Len(es) \in Nat
      BY ElementOfSeq, LenProperties
    <2>2. es[k].text \in Seq(Letters) /\ es[k].text # <<>>
      BY <2>1 DEF EntrySet, TextSet
    <2>3. QED
      BY <2>1, <2>2, EmptySeq
  <1>3. CASE Doomed(es, read)
    BY <1>1, <1>3, DoomedStays DEF Between
  <1>4. CASE InText(es, k, i, read)
    <2>1. next \in Reads /\ next.block = <<>> /\ GoodBlocks(es, next.blocks, k)
      BY <1>2, <1>4, InTextCloses
    <2>2. QED
      BY <2>1 DEF Between
  <1>5. CASE NoText(es, k, i, read)
    <2>1. read \in Reads /\ read.block = <<>> /\ ~Wordy(es)
      BY <1>5 DEF NoText
    <2>2. next \in Reads /\ next.block = Append(<<>>, P!Blank)
      BY <1>1, <2>1, TakenLine
    <2>3. Append(<<>>, P!Blank) = <<P!Blank>>
      OBVIOUS
    <2>4. QED
      BY <2>1, <2>2, <2>3 DEF Between
  <1>6. CASE BrokenOff(es, k, read)
    <2>1. read \in Reads /\ ~Wordy(es) /\ GoodBlocks(es, read.blocks, k)
      BY <1>6 DEF BrokenOff
    <2>2. CASE read.block = <<>>
      <3>1. next \in Reads /\ next.block = Append(<<>>, P!Blank)
        BY <1>1, <2>1, <2>2, TakenLine
      <3>2. Append(<<>>, P!Blank) = <<P!Blank>>
        OBVIOUS
      <3>3. QED
        BY <2>1, <3>1, <3>2 DEF Between
    <2>3. CASE read.block # <<>>
      <3>1. next.block = <<>> /\ next \in Reads
        BY <1>1, <2>1, <2>3, TakenLine
      <3>2. BrokenOff(es, k, next) \/ Doomed(es, next)
        BY <1>1, <1>6, BrokenOffStays
      <3> HIDE DEF next
      <3>3. QED
        BY <3>1, <3>2 DEF Between, BrokenOff, next
    <2>4. QED
      BY <2>2, <2>3
  <1>7. QED
    BY <1>3, <1>4, <1>5, <1>6 DEF Within

-----------------------------------------------------------------------------
(* All of a file of subtitles.                                              *)

\* What the export writes for an entry, and for all.
Chunk(es, k) == <<P!Number(k), P!Time>> \o es[k].text \o <<P!Blank>>
SrtOf(es)    == P!FlattenSeq([k \in DOMAIN es |-> Chunk(es, k)])

LEMMA TextFacts ==
  ASSUME NEW es \in Seq(EntrySet), NEW k \in 1..Len(es)
  PROVE  /\ es[k].text \in Seq(Letters) /\ es[k].text # <<>> /\ Len(es[k].text) \in Nat \ {0}
         /\ es[k] \in EntrySet /\ Len(es) \in Nat /\ k \in Nat \ {0}
  <1>1. es[k] \in EntrySet /\ Len(es) \in Nat /\ k \in Nat \ {0}
    BY ElementOfSeq, LenProperties
  <1>2. es[k].text \in Seq(Letters) /\ es[k].text # <<>>
    BY <1>1 DEF EntrySet, TextSet
  <1>3. QED
    BY <1>1, <1>2, EmptySeq

LEMMA ChunkFacts ==
  ASSUME NEW es \in Seq(EntrySet), NEW k \in 1..Len(es)
  PROVE  /\ Chunk(es, k) \in Seq(Lines) /\ Len(Chunk(es, k)) = Len(es[k].text) + 3
         /\ Chunk(es, k)[1] = P!Number(k) /\ Chunk(es, k)[2] = P!Time
         /\ \A i \in 1..Len(es[k].text) : Chunk(es, k)[i + 2] = es[k].text[i]
         /\ Chunk(es, k)[Len(es[k].text) + 3] = P!Blank
  <1> DEFINE text == es[k].text
             head == <<P!Number(k), P!Time>>
             body == head \o text
             all  == body \o <<P!Blank>>
  <1>1. text \in Seq(Lines) /\ Len(text) \in Nat /\ k \in Nat
    <2>1. text \in Seq(Letters) /\ Len(text) \in Nat /\ k \in Nat
      BY TextFacts
    <2>2. QED
      BY <2>1, LinesAre, SeqMonotonic
  <1>2. /\ head \in Seq(Lines) /\ Len(head) = 2 /\ head[1] = P!Number(k) /\ head[2] = P!Time
        /\ <<P!Blank>> \in Seq(Lines) /\ Len(<<P!Blank>>) = 1 /\ <<P!Blank>>[1] = P!Blank
    BY <1>1, LinesAre
  <1> HIDE DEF head, text
  <1>3. /\ body \in Seq(Lines) /\ Len(body) = 2 + Len(text)
        /\ \A i \in 1..(2 + Len(text)) : body[i] = IF i <= 2 THEN head[i] ELSE text[i - 2]
    <2>1. /\ body \in Seq(Lines) /\ Len(body) = Len(head) + Len(text)
          /\ \A i \in 1..(Len(head) + Len(text)) :
               body[i] = IF i <= Len(head) THEN head[i] ELSE text[i - Len(head)]
      BY <1>1, <1>2, ConcatProperties
    <2> HIDE DEF body
    <2>2. QED
      BY <1>1, <1>2, <2>1
  <1> HIDE DEF body
  <1>4. /\ all \in Seq(Lines) /\ Len(all) = Len(body) + 1
        /\ \A i \in 1..(Len(body) + 1) :
             all[i] = IF i <= Len(body) THEN body[i] ELSE <<P!Blank>>[i - Len(body)]
    BY <1>2, <1>3, ConcatProperties
  <1> HIDE DEF all
  <1>5. \A i \in 1..(2 + Len(text)) : all[i] = body[i]
    BY <1>1, <1>3, <1>4
  <1>6. 1 \in 1..(2 + Len(text)) /\ 2 \in 1..(2 + Len(text))
    BY <1>1
  <1>7. all[1] = P!Number(k) /\ all[2] = P!Time
    BY <1>2, <1>3, <1>5, <1>6
  <1>8. ASSUME NEW i \in 1..Len(text) PROVE all[i + 2] = text[i]
    <2>1. i + 2 \in 1..(2 + Len(text)) /\ ~(i + 2 <= 2) /\ (i + 2) - 2 = i
      BY <1>1
    <2>2. QED
      BY <1>3, <1>5, <2>1
  <1>9. all[Len(text) + 3] = P!Blank
    <2>1. /\ Len(text) + 3 \in 1..(Len(body) + 1) /\ ~(Len(text) + 3 <= Len(body))
          /\ (Len(text) + 3) - Len(body) = 1
      BY <1>1, <1>3
    <2>2. QED
      BY <1>2, <1>4, <2>1
  <1>10. all = Chunk(es, k) /\ text = es[k].text
    BY DEF all, body, head, text, Chunk
  <1>11. Len(all) = Len(text) + 3
    BY <1>1, <1>3, <1>4
  <1>12. QED
    BY <1>4, <1>7, <1>8, <1>9, <1>10, <1>11

\* The lines of entry k stand after place a, as far as there are lines.
Carries(es, k, u, a) ==
  \A j \in 1..(Len(es[k].text) + 3) : a + j <= Len(u) => u[a + j] = Chunk(es, k)[j]

\* The lines of an entry, or those of them that are left, are read.
LEMMA ChunkTaken ==
  ASSUME NEW es \in Seq(EntrySet), NEW k \in 1..Len(es), NEW u, Len(u) \in Nat,
         NEW a \in Nat, a + 2 <= Len(u), Between(es, k - 1, P!Reading(u)[a]), Carries(es, k, u, a)
  PROVE  /\ \A i \in 0..Len(es[k].text) :
              a + 2 + i <= Len(u) => Within(es, k, i, P!Reading(u)[a + 2 + i])
         /\ a + Len(es[k].text) + 3 <= Len(u) =>
              Between(es, k, P!Reading(u)[a + Len(es[k].text) + 3])
  <1> DEFINE t == Len(es[k].text)
             After(q) == P!Reading(u)[q]
  <1>1. t \in Nat \ {0} /\ k \in Nat \ {0}
    BY TextFacts
  <1>2. \A q \in 1..Len(u) : After(q) = P!Taken(After(q - 1), u[q])
    BY ReadOneByOne
  <1>3. Within(es, k, 0, After(a + 2))
    <2>1. a + 1 \in 1..Len(u) /\ a + 2 \in 1..Len(u) /\ (a + 1) - 1 = a /\ (a + 2) - 1 = a + 1
      OBVIOUS
    <2>2. u[a + 1] = P!Number(k) /\ u[a + 2] = P!Time
      <3>1. 1 \in 1..(t + 3) /\ 2 \in 1..(t + 3) /\ a + 1 <= Len(u)
        BY <1>1
      <3>2. u[a + 1] = Chunk(es, k)[1] /\ u[a + 2] = Chunk(es, k)[2]
        BY <3>1 DEF Carries
      <3>3. QED
        BY <3>2, ChunkFacts
    <2>3. After(a + 2) = P!Taken(P!Taken(After(a), P!Number(k)), P!Time)
      BY <1>2, <2>1, <2>2
    <2>4. QED
      BY <1>1, <2>3, HeadTaken
  <1>10. \A j \in 1..(t + 3) : a + j <= Len(u) => u[a + j] = Chunk(es, k)[j]
    BY DEF Carries
  <1>11. \A j \in 1..t : Chunk(es, k)[j + 2] = es[k].text[j]
    BY ChunkFacts
  <1>12. Chunk(es, k)[t + 3] = P!Blank
    BY ChunkFacts
  <1>13. t = Len(es[k].text)
    OBVIOUS
  <1> HIDE DEF t, After
  <1> DEFINE good == {i \in Nat : i \in 0..t /\ a + 2 + i <= Len(u) => Within(es, k, i, After(a + 2 + i))}
  <1>4. 0 \in good
    BY <1>3
  <1>5. ASSUME NEW i \in Nat, i \in good PROVE i + 1 \in good
    <2> SUFFICES ASSUME i + 1 \in 0..t, a + 2 + (i + 1) <= Len(u)
                 PROVE  Within(es, k, i + 1, After(a + 2 + (i + 1)))
      OBVIOUS
    <2>1. Within(es, k, i, After(a + 2 + i)) /\ i < t
      BY <1>1, <1>5
    <2>2. a + 2 + (i + 1) \in 1..Len(u) /\ (a + 2 + (i + 1)) - 1 = a + 2 + i
      OBVIOUS
    <2>3. u[a + 2 + (i + 1)] = es[k].text[i + 1]
      <3>1. /\ (i + 1) + 2 \in 1..(t + 3) /\ i + 1 \in 1..t
            /\ a + ((i + 1) + 2) = a + 2 + (i + 1)
        BY <1>1
      <3>2. u[a + ((i + 1) + 2)] = Chunk(es, k)[(i + 1) + 2]
        BY <1>10, <3>1
      <3>3. QED
        BY <1>11, <3>1, <3>2
    <2>4. After(a + 2 + (i + 1)) = P!Taken(After(a + 2 + i), es[k].text[i + 1])
      BY <1>2, <2>2, <2>3
    <2>5. i < Len(es[k].text) /\ i \in Nat
      BY <1>13, <2>1
    <2> DEFINE before == After(a + 2 + i)
    <2>6. Within(es, k, i, before)
      BY <2>1
    <2> HIDE DEF before
    <2>7. Within(es, k, i + 1, P!Taken(before, es[k].text[i + 1]))
      BY <2>5, <2>6, TextTaken
    <2>8. QED
      BY <2>4, <2>7 DEF before
  <1> HIDE DEF good
  <1>6. Nat \subseteq good
    BY <1>4, <1>5, SetInduction
  <1>7. \A i \in 0..t : a + 2 + i <= Len(u) => Within(es, k, i, After(a + 2 + i))
    BY <1>6 DEF good
  <1>8. ASSUME a + t + 3 <= Len(u) PROVE Between(es, k, After(a + t + 3))
    <2>1. Within(es, k, t, After(a + 2 + t))
      BY <1>1, <1>7, <1>8
    <2>2. a + t + 3 \in 1..Len(u) /\ (a + t + 3) - 1 = a + 2 + t
      BY <1>1, <1>8
    <2>3. u[a + t + 3] = P!Blank
      <3>1. t + 3 \in 1..(t + 3) /\ a + (t + 3) = a + t + 3
        BY <1>1
      <3>2. u[a + (t + 3)] = Chunk(es, k)[t + 3]
        BY <1>8, <1>10, <3>1
      <3>3. u[a + t + 3] = u[a + (t + 3)]
        BY <3>1
      <3>4. QED
        BY <1>12, <3>2, <3>3
    <2>4. After(a + t + 3) = P!Taken(After(a + 2 + t), P!Blank)
      BY <1>2, <2>2, <2>3
    <2> DEFINE before == After(a + 2 + t)
    <2>5. Within(es, k, t, before)
      BY <2>1
    <2> HIDE DEF before
    <2>6. Between(es, k, P!Taken(before, P!Blank))
      BY <1>13, <2>5, EndTaken
    <2>7. QED
      BY <2>4, <2>6 DEF before
  <1>9. QED
    BY <1>7, <1>8 DEF t, After

\* Entries come one after the other.
LEMMA AtGrows ==
  ASSUME NEW n \in Nat, NEW at \in [0..n -> Nat], \A k \in 1..n : at[k - 1] <= at[k],
         NEW m \in 0..n
  PROVE  \A k \in 0..m : at[k] <= at[m]
  <1> DEFINE good == {d \in Nat : d \in 0..m => at[m - d] <= at[m]}
  <1>1. 0 \in good
    OBVIOUS
  <1>2. ASSUME NEW d \in Nat, d \in good PROVE d + 1 \in good
    <2> SUFFICES ASSUME d + 1 \in 0..m PROVE at[m - (d + 1)] <= at[m]
      OBVIOUS
    <2>1. d \in 0..m /\ m - d \in 1..n /\ (m - d) - 1 = m - (d + 1)
      OBVIOUS
    <2>2. at[m - (d + 1)] <= at[m - d] /\ at[m - d] <= at[m]
      BY <1>2, <2>1
    <2>3. at[m - (d + 1)] \in Nat /\ at[m - d] \in Nat /\ at[m] \in Nat
      BY <2>1
    <2>4. QED
      BY <2>2, <2>3
  <1> HIDE DEF good
  <1>3. Nat \subseteq good
    BY <1>1, <1>2, SetInduction
  <1>4. ASSUME NEW k \in 0..m PROVE at[k] <= at[m]
    <2>1. m - k \in 0..m /\ m - k \in good /\ m - (m - k) = k
      BY <1>3
    <2>2. at[m - (m - k)] <= at[m]
      BY <2>1 DEF good
    <2>3. QED
      BY <2>1, <2>2
  <1>5. QED
    BY <1>4

\* What was exported is read as it was, but for texts with empty lines, with
\* which it is read up to some entry or not at all.
ReadAgain(es, blocks) ==
  /\ blocks \in Blocks
  /\ \/ ~Wordy(es) /\ \E j \in 1..Len(blocks) : BadBlock(blocks[j])
     \/ \E c \in Nat : GoodBlocks(es, blocks, c) /\ (Wordy(es) => c = Len(es))

LEMMA LastBlock ==
  ASSUME NEW es \in Seq(EntrySet), es # <<>>, NEW i \in 0..Len(es[Len(es)].text),
         NEW read, Within(es, Len(es), i, read), ~NoText(es, Len(es), i, read),
         Wordy(es) => i = Len(es[Len(es)].text)
  PROVE  ReadAgain(es, P!Keep(read.blocks, read.block))
  <1> DEFINE n == Len(es)
             kept == P!Keep(read.blocks, read.block)
  <1>1. n \in Nat \ {0} /\ n \in 1..n /\ Len(es[n].text) \in Nat \ {0}
    <2>1. n \in Nat \ {0}
      BY EmptySeq
    <2>2. n \in 1..n
      BY <2>1
    <2>3. QED
      BY <2>1, <2>2, TextFacts
  <1>2. /\ read \in Reads /\ read.blocks \in Blocks /\ read.block \in Seq(Lines)
        /\ Len(read.block) \in Nat
    BY LenProperties DEF Within, InText, BrokenOff, Doomed, Reads
  <1>3. /\ Len(read.block) >= 3 => kept = Append(read.blocks, read.block)
        /\ Len(read.block) < 3 => kept = read.blocks
    BY <1>2 DEF P!Keep, P!Enough
  <1> HIDE DEF kept, n
  <1>4. kept \in Blocks
    <2>1. Append(read.blocks, read.block) \in Blocks
      BY <1>2, AppendProperties DEF Blocks
    <2>2. CASE Len(read.block) >= 3
      BY <1>3, <2>1, <2>2
    <2>3. CASE Len(read.block) < 3
      BY <1>2, <1>3, <2>3
    <2>4. QED
      BY <1>2, <2>2, <2>3
  <1>5. CASE InText(es, n, i, read) /\ i # 0
    <2>1. GoodBlocks(es, kept, n)
      BY <1>1, <1>5, InTextCloses DEF kept, n
    <2>2. QED
      BY <1>1, <1>4, <2>1 DEF ReadAgain, kept, n
  <1>6. CASE InText(es, n, i, read) /\ i = 0
    <2>1. Len(read.block) < 3 /\ ~Wordy(es) /\ GoodBlocks(es, read.blocks, n - 1) /\ n - 1 \in Nat
      BY <1>1, <1>6 DEF InText, n
    <2>2. GoodBlocks(es, kept, n - 1)
      BY <1>3, <2>1
    <2>3. QED
      BY <1>4, <2>1, <2>2 DEF ReadAgain, kept
  <1>7. CASE BrokenOff(es, n, read)
    <2>1. ~Wordy(es) /\ GoodBlocks(es, read.blocks, n) /\ read.block \in Seq(Letters)
      BY <1>7 DEF BrokenOff
    <2>2. CASE Len(read.block) < 3
      BY <1>1, <1>3, <1>4, <2>1, <2>2 DEF ReadAgain, kept
    <2>3. CASE Len(read.block) >= 3
      <3>1. 2 \in 1..Len(read.block)
        BY <1>2, <2>3
      <3>2. read.block[2] \in Letters
        BY <2>1, <3>1, ElementOfSeq
      <3>3. BadBlock(read.block)
        BY <1>2, <2>3, <3>2, LinesDiffer DEF BadBlock, Letters
      <3>4. \E j \in 1..Len(kept) : BadBlock(kept[j])
        BY <1>2, <1>3, <2>3, <3>3, OneMore
      <3>5. QED
        BY <1>4, <2>1, <3>4 DEF ReadAgain, kept
    <2>4. QED
      BY <1>2, <2>2, <2>3
  <1>8. CASE Doomed(es, read)
    <2>1. CASE Len(read.block) < 3
      <3>1. \E j \in 1..Len(kept) : BadBlock(kept[j])
        BY <1>2, <1>3, <1>8, <2>1 DEF Doomed, BadBlock
      <3>2. QED
        BY <1>4, <1>8, <3>1 DEF ReadAgain, Doomed, kept
    <2>2. CASE Len(read.block) >= 3
      <3>1. \E j \in 1..Len(kept) : BadBlock(kept[j])
        BY <1>2, <1>3, <1>8, <2>2, OneMore DEF Doomed
      <3>2. QED
        BY <1>4, <1>8, <3>1 DEF ReadAgain, Doomed, kept
    <2>3. QED
      BY <1>2, <2>1, <2>2
  <1>9. QED
    BY <1>5, <1>6, <1>7, <1>8 DEF Within, n

LEMMA SrtIsRead ==
  ASSUME NEW es \in Seq(EntrySet), es # <<>>
  PROVE  ReadAgain(es, P!Blocks(P!Trim(SrtOf(es))))
  <1> DEFINE n    == Len(es)
             c    == [k \in DOMAIN es |-> Chunk(es, k)]
             flat == SrtOf(es)
             u    == P!Trim(flat)
             After(q) == P!Reading(u)[q]
             t(k) == Len(es[k].text)
  <1>1. n \in Nat \ {0} /\ DOMAIN es = 1..n
    BY EmptySeq, LenProperties
  <1>2. \A k \in 1..n : c[k] = Chunk(es, k) /\ t(k) \in Nat \ {0} /\ Len(c[k]) = t(k) + 3
    BY <1>1, ChunkFacts, TextFacts
  <1>3. flat \in Seq(Lines) /\ \E at : Follows(flat, c, at, n)
    <2>1. c \in [1..n -> Seq(Lines)]
      BY <1>1, ChunkFacts
    <2>2. flat = P!FlattenSeq(c)
      BY DEF SrtOf
    <2> HIDE DEF c, n, flat
    <2>3. QED
      BY <1>1, <2>1, <2>2, Flattened
  <1>4. PICK at : Follows(flat, c, at, n)
    BY <1>3
  <1> HIDE DEF flat, u, After
  <1>5. /\ at \in [0..n -> Nat] /\ at[0] = 0 /\ at[n] = Len(flat)
        /\ \A k \in 1..n : at[k] = at[k - 1] + (t(k) + 3)
        /\ \A k \in 1..n : \A j \in 1..(t(k) + 3) : flat[at[k - 1] + j] = Chunk(es, k)[j]
    <2> HIDE DEF c, t, n
    <2>1. /\ at \in [0..n -> Nat] /\ at[0] = 0 /\ at[n] = Len(flat)
          /\ \A k \in 1..n : at[k] = at[k - 1] + Len(c[k])
          /\ \A k \in 1..n : \A j \in 1..Len(c[k]) : flat[at[k - 1] + j] = c[k][j]
      BY <1>4 DEF Follows
    <2>2. QED
      BY <1>2, <2>1
  <1> HIDE DEF c
  <1>6. n \in 1..n /\ n - 1 \in 0..n /\ 1 \in 1..n /\ at[n - 1] \in Nat /\ Len(flat) \in Nat
    <2>1. Len(flat) \in Nat
      BY <1>3, LenProperties
    <2> HIDE DEF n, t
    <2>2. n \in 1..n /\ n - 1 \in 0..n /\ 1 \in 1..n
      BY <1>1
    <2>3. QED
      BY <1>5, <2>1, <2>2
  <1>7. flat # <<>> /\ flat[1] # P!Blank
    <2>1. flat[at[1 - 1] + 1] = Chunk(es, 1)[1] /\ at[1 - 1] + 1 = 1
      BY <1>2, <1>5, <1>6
    <2>2. Chunk(es, 1)[1] = P!Number(1) /\ P!Number(1) # P!Blank
      BY <1>6, ChunkFacts, LinesDiffer
    <2>3. Len(flat) # 0
      BY <1>2, <1>5, <1>6
    <2>4. QED
      BY <2>1, <2>2, <2>3
  <1>8. PICK m \in 1..Len(flat) :
          /\ flat[m] # P!Blank /\ \A p \in (m + 1)..Len(flat) : flat[p] = P!Blank
          /\ u \in Seq(Lines) /\ Len(u) = m
          /\ \A p \in 1..m : u[p] = flat[p]
    BY <1>3, <1>7, Trimmed DEF u
  <1> DEFINE a == at[n - 1]
  <1>9. a + 2 <= m
    <2>1. flat[a + 2] = P!Time
      <3>1. 2 \in 1..(t(n) + 3)
        BY <1>2, <1>6
      <3>2. flat[a + 2] = Chunk(es, n)[2]
        BY <1>5, <1>6, <3>1
      <3>3. QED
        BY <1>6, <3>2, ChunkFacts
    <2>2. a + 2 <= Len(flat)
      <3> HIDE DEF n, t
      <3>1. at[n] = at[n - 1] + (t(n) + 3) /\ t(n) \in Nat
        BY <1>2, <1>5, <1>6
      <3>2. QED
        BY <1>5, <1>6, <3>1
    <2>3. QED
      BY <1>6, <1>8, <2>1, <2>2, LinesDiffer
  <1>10. m <= a + 2 + t(n)
    <2>1. flat[a + (t(n) + 3)] = P!Blank
      <3>1. t(n) + 3 \in 1..(t(n) + 3)
        BY <1>2, <1>6
      <3>2. flat[a + (t(n) + 3)] = Chunk(es, n)[t(n) + 3]
        BY <1>5, <1>6, <3>1
      <3>3. QED
        BY <1>6, <3>2, ChunkFacts
    <2>2. Len(flat) = a + (t(n) + 3)
      BY <1>5, <1>6
    <2>3. m # Len(flat)
      BY <1>8, <2>1, <2>2
    <2>4. t(n) \in Nat
      BY <1>2, <1>6
    <2>5. QED
      BY <1>6, <1>8, <2>2, <2>3, <2>4
  <1> DEFINE i == m - (a + 2)
  <1>11. i \in 0..t(n) /\ m = a + 2 + i
    <2>1. t(n) \in Nat
      BY <1>2, <1>6
    <2>2. QED
      BY <1>6, <1>8, <1>9, <1>10, <2>1
  <1>12. ASSUME NEW k \in 1..n PROVE Carries(es, k, u, at[k - 1])
    <2> SUFFICES ASSUME NEW j \in 1..(t(k) + 3), at[k - 1] + j <= Len(u)
                 PROVE  u[at[k - 1] + j] = Chunk(es, k)[j]
      BY DEF Carries
    <2>1. at[k - 1] \in Nat /\ at[k - 1] + j \in 1..m
      <3> HIDE DEF n
      <3>1. k - 1 \in 0..n
        BY <1>1
      <3>2. at[k - 1] \in Nat
        BY <1>5, <3>1
      <3>3. t(k) \in Nat
        BY <1>2
      <3> HIDE DEF t
      <3>4. at[k - 1] + j <= m /\ m \in Nat /\ j \in Nat \ {0}
        BY <1>6, <1>8, <3>3
      <3>5. QED
        BY <3>2, <3>4
    <2>2. QED
      BY <1>5, <1>8, <2>1
  <1>13. \A k \in 0..(n - 1) : at[k] <= a
    <2>1. \A k \in 1..n : at[k - 1] <= at[k]
      <3> SUFFICES ASSUME NEW k \in 1..n PROVE at[k - 1] <= at[k]
        OBVIOUS
      <3>1. t(k) \in Nat
        BY <1>2
      <3> HIDE DEF n, t
      <3>2. k - 1 \in 0..n
        BY <1>1
      <3>3. at[k - 1] \in Nat
        BY <1>5, <3>2
      <3>4. at[k] = at[k - 1] + (t(k) + 3)
        BY <1>5
      <3>5. QED
        BY <3>1, <3>3, <3>4
    <2>2. QED
      BY <1>1, <1>5, <1>6, <2>1, AtGrows
  <1> HIDE DEF a, i, n, t
  <1> DEFINE good == {k \in Nat : k \in 0..(n - 1) => Between(es, k, After(at[k]))}
  <1>14. 0 \in good
    <2> DEFINE start == [blocks |-> <<>>, block |-> <<>>]
    <2>1. After(at[0]) = start
      BY <1>5, <1>8, ReadOneByOne DEF After
    <2>2. <<>> \in Blocks /\ Len(<<>>) = 0 /\ <<>> \in Seq(Lines)
      BY EmptySeq DEF Blocks
    <2>3. start \in Reads /\ GoodBlocks(es, start.blocks, 0) /\ start.block = <<>>
      BY <2>2 DEF Reads, GoodBlocks
    <2> HIDE DEF start
    <2>4. QED
      BY <2>1, <2>3 DEF Between
  <1>15. ASSUME NEW k \in Nat, k \in good PROVE k + 1 \in good
    <2> SUFFICES ASSUME k + 1 \in 0..(n - 1) PROVE Between(es, k + 1, After(at[k + 1]))
      OBVIOUS
    <2>1. k \in 0..(n - 1) /\ k + 1 \in 1..n /\ (k + 1) - 1 = k
      BY <1>1
    <2>2. at[k] \in Nat /\ at[k + 1] = at[k] + (t(k + 1) + 3) /\ at[k + 1] <= a /\ t(k + 1) \in Nat
      BY <1>1, <1>2, <1>5, <1>13, <2>1
    <2>3. at[k] + 2 <= Len(u) /\ at[k] + t(k + 1) + 3 <= Len(u) /\ Len(u) \in Nat
      <3>1. a \in Nat
        BY <1>6 DEF a
      <3>2. a + 2 <= m /\ Len(u) = m /\ m \in Nat
        BY <1>6, <1>8, <1>9
      <3>3. QED
        BY <2>2, <3>1, <3>2
    <2>4. Between(es, (k + 1) - 1, P!Reading(u)[at[k]])
      BY <1>15, <2>1 DEF After
    <2>5. Carries(es, k + 1, u, at[k])
      BY <1>12, <2>1
    <2>6. Between(es, k + 1, P!Reading(u)[at[k] + Len(es[k + 1].text) + 3])
      BY <2>1, <2>2, <2>3, <2>4, <2>5, ChunkTaken DEF t, n
    <2>7. at[k + 1] = at[k] + Len(es[k + 1].text) + 3
      BY <2>2 DEF t
    <2>8. QED
      BY <2>6, <2>7 DEF After
  <1> HIDE DEF good
  <1>16. Nat \subseteq good
    BY <1>14, <1>15, SetInduction
  <1>17. Within(es, n, i, After(m))
    <2>1. Between(es, n - 1, P!Reading(u)[a])
      <3>1. n - 1 \in good /\ n - 1 \in 0..(n - 1)
        BY <1>1, <1>16
      <3>2. QED
        BY <3>1 DEF good, After, a
    <2>2. Carries(es, n, u, a)
      BY <1>6, <1>12 DEF a
    <2>3. a \in Nat /\ a + 2 <= Len(u) /\ Len(u) \in Nat
      BY <1>6, <1>8, <1>9 DEF a
    <2>4. \A d \in 0..Len(es[n].text) : a + 2 + d <= Len(u) => Within(es, n, d, P!Reading(u)[a + 2 + d])
      BY <1>6, <2>1, <2>2, <2>3, ChunkTaken DEF n
    <2>5. QED
      BY <1>8, <1>11, <2>4 DEF After, t
  <1>18. ASSUME Wordy(es) PROVE i = t(n)
    <2>1. t(n) \in 1..t(n) /\ t(n) \in Nat /\ t(n) + 2 \in 1..(t(n) + 3)
      BY <1>2, <1>6
    <2>2. flat[a + (t(n) + 2)] = P!Word
      <3>1. flat[a + (t(n) + 2)] = Chunk(es, n)[t(n) + 2]
        BY <1>5, <1>6, <2>1 DEF a
      <3>2. Chunk(es, n)[t(n) + 2] = es[n].text[t(n)]
        BY <1>6, <2>1, ChunkFacts DEF t, n
      <3>3. es[n].text[t(n)] = P!Word
        BY <1>6, <1>18, <2>1 DEF Wordy, t, n
      <3>4. QED
        BY <3>1, <3>2, <3>3
    <2>3. CASE i < t(n)
      <3>1. a + (t(n) + 2) \in (m + 1)..Len(flat)
        BY <1>5, <1>6, <1>11, <2>1, <2>3 DEF a
      <3>2. QED
        BY <1>8, <2>2, <3>1, LinesDiffer
    <2>4. QED
      BY <1>11, <2>1, <2>3
  <1>19. ~NoText(es, n, i, After(m))
    <2> SUFFICES ASSUME i = 1, es[n].text = <<P!Blank>> PROVE FALSE
      BY DEF NoText
    <2>1. t(n) = 1
      BY DEF t
    <2>2. flat[a + 3] = Chunk(es, n)[3]
      <3>1. 3 \in 1..(t(n) + 3)
        BY <2>1
      <3>2. QED
        BY <1>5, <1>6, <3>1 DEF a
    <2>3. Chunk(es, n)[1 + 2] = es[n].text[1]
      <3>1. n \in 1..Len(es) /\ 1 \in 1..Len(es[n].text)
        BY <1>6, <2>1 DEF t, n
      <3>2. QED
        BY <3>1, ChunkFacts
    <2>4. flat[a + 3] = P!Blank
      BY <2>2, <2>3
    <2>5. m = a + 3
      BY <1>6, <1>11 DEF a
    <2>6. QED
      BY <1>8, <2>4, <2>5
  <1>20. P!Blocks(u) = P!Keep(After(m).blocks, After(m).block)
    BY <1>8 DEF P!Blocks, After
  <1>21. QED
    BY <1>11, <1>17, <1>18, <1>19, <1>20, LastBlock DEF u, n, t, flat

\* A block that becomes an entry with words only.
Fine(b) == b \in Seq(Lines) /\ Len(b) >= 3 /\ \A p \in 3..Len(b) : b[p] = P!Word

\* The other formats have no numbers, and an empty line before every time but one
\* at the start.
Marks == {P!Time} \cup Letters

TimesAreFar(lines) ==
  /\ lines \in Seq(Marks) /\ lines # <<>> /\ lines[1] # P!Blank
  /\ \A q \in 2..Len(lines) : lines[q] = P!Time => lines[q - 1] = P!Blank

\* What is read of such lines: only the first line of a block may be empty, only
\* the first two may be times.
AllFine(blocks) == blocks \in Blocks /\ \A j \in 1..Len(blocks) : Fine(blocks[j])
Clear(b) ==
  /\ b \in Seq(Lines)
  /\ \A p \in 2..Len(b) : b[p] # P!Blank
  /\ \A p \in 3..Len(b) : b[p] = P!Word

FarRead(read, line) ==
  /\ read \in Reads /\ AllFine(read.blocks) /\ Clear(read.block)
  /\ read.block # <<>> => read.block[Len(read.block)] = line

LEMMA KeptAreFine ==
  ASSUME NEW blocks, AllFine(blocks), NEW b, Clear(b)
  PROVE  AllFine(P!Keep(blocks, b))
  <1>1. blocks \in Blocks /\ Len(blocks) \in Nat /\ Len(b) \in Nat
    BY LenProperties DEF AllFine, Blocks, Clear
  <1>2. CASE Len(b) < 3
    BY <1>1, <1>2 DEF P!Keep, P!Enough
  <1>3. CASE Len(b) >= 3
    <2>1. P!Keep(blocks, b) = Append(blocks, b)
      BY <1>3 DEF P!Keep, P!Enough
    <2>2. Fine(b) /\ b \in Seq(Lines)
      BY <1>3 DEF Clear, Fine
    <2>3. /\ Append(blocks, b) \in Blocks /\ Len(Append(blocks, b)) = Len(blocks) + 1
          /\ \A j \in 1..Len(blocks) : Append(blocks, b)[j] = blocks[j]
          /\ Append(blocks, b)[Len(blocks) + 1] = b
      BY <1>1, <2>2, AppendProperties DEF Blocks
    <2> HIDE DEF Fine
    <2>4. ASSUME NEW j \in 1..Len(Append(blocks, b)) PROVE Fine(Append(blocks, b)[j])
      <3>1. j \in 1..Len(blocks) \/ j = Len(blocks) + 1
        BY <1>1, <2>3
      <3>2. QED
        BY <2>2, <2>3, <3>1 DEF AllFine
    <2>5. QED
      BY <2>1, <2>3, <2>4 DEF AllFine
  <1>4. QED
    BY <1>1, <1>2, <1>3

LEMMA FarTaken ==
  ASSUME NEW read, NEW final, FarRead(read, final), NEW line \in Marks,
         line = P!Time /\ read.block # <<>> => final = P!Blank
  PROVE  FarRead(P!Taken(read, line), line)
  <1> DEFINE b   == read.block
             now == P!Taken(read, line)
  <1>1. /\ read \in Reads /\ AllFine(read.blocks) /\ Clear(b)
        /\ b \in Seq(Lines) /\ Len(b) \in Nat /\ line \in Lines
    BY LenProperties DEF FarRead, Clear, Marks, Lines
  <1>2. now \in Reads
    BY <1>1, TakenLine
  <1>3. CASE line = P!Blank /\ b # <<>>
    <2>1. now = [blocks |-> P!Keep(read.blocks, b), block |-> <<>>]
      BY <1>3 DEF P!Taken
    <2>2. AllFine(now.blocks) /\ now.block = <<>>
      BY <1>1, <2>1, KeptAreFine
    <2>3. Clear(<<>>)
      BY EmptySeq DEF Clear
    <2>4. Clear(now.block)
      BY <2>2, <2>3
    <2> HIDE DEF now
    <2>5. FarRead(now, line)
      BY <1>2, <2>2, <2>4 DEF FarRead
    <2>6. QED
      BY <2>5 DEF now
  <1>4. CASE ~(line = P!Blank /\ b # <<>>)
    <2> DEFINE more == Append(b, line)
    <2>1. now = [blocks |-> read.blocks, block |-> more]
      BY <1>4 DEF P!Taken
    <2>2. /\ more \in Seq(Lines) /\ Len(more) = Len(b) + 1
          /\ \A p \in 1..Len(b) : more[p] = b[p]
          /\ more[Len(b) + 1] = line
      BY <1>1, AppendProperties
    <2>3. now.blocks = read.blocks /\ now.block = more
      BY <2>1
    <2> HIDE DEF now, more
    <2>4. ASSUME NEW p \in 2..Len(more) PROVE more[p] # P!Blank
      <3>1. CASE p \in 2..Len(b)
        BY <1>1, <2>2, <3>1 DEF Clear
      <3>2. CASE p = Len(b) + 1
        <4>1. b # <<>>
          BY <3>2
        <4>2. QED
          BY <1>4, <2>2, <3>2, <4>1
      <3>3. QED
        BY <1>1, <2>2, <3>1, <3>2
    <2>5. ASSUME NEW p \in 3..Len(more) PROVE more[p] = P!Word
      <3>1. CASE p \in 3..Len(b)
        BY <1>1, <2>2, <3>1 DEF Clear
      <3>2. CASE p = Len(b) + 1
        <4>1. b # <<>> /\ Len(b) \in 2..Len(b)
          BY <1>1, <3>2
        <4>2. b[Len(b)] = final /\ final # P!Blank
          BY <1>1, <4>1 DEF FarRead, Clear
        <4>3. line # P!Blank /\ line # P!Time
          BY <1>4, <4>1, <4>2
        <4>4. QED
          BY <2>2, <3>2, <4>3 DEF Marks, Letters
      <3>3. QED
        BY <1>1, <2>2, <3>1, <3>2
    <2>6. Clear(more) /\ more[Len(more)] = line
      BY <2>2, <2>4, <2>5 DEF Clear
    <2>7. FarRead(now, line)
      BY <1>1, <1>2, <2>3, <2>6 DEF FarRead
    <2>8. QED
      BY <2>7 DEF now
  <1>5. QED
    BY <1>3, <1>4

LEMMA FarIsRead ==
  ASSUME NEW lines, TimesAreFar(lines)
  PROVE  AllFine(P!Blocks(P!Trim(lines)))
  <1> DEFINE u    == P!Trim(lines)
             After(q) == P!Reading(u)[q]
  <1>1. PICK m \in 1..Len(lines) :
          /\ u \in Seq(Marks) /\ Len(u) = m /\ \A p \in 1..m : u[p] = lines[p]
    BY Trimmed DEF TimesAreFar
  <1>2. Len(lines) \in Nat /\ m \in Nat \ {0}
    BY LenProperties DEF TimesAreFar
  <1>3. \A q \in 1..m : u[q] \in Marks
    BY <1>1, ElementOfSeq
  <1>4. \A q \in 2..m : u[q] = P!Time => u[q - 1] = P!Blank
    <2> SUFFICES ASSUME NEW q \in 2..m, u[q] = P!Time PROVE u[q - 1] = P!Blank
      OBVIOUS
    <2>1. q \in 2..Len(lines) /\ q \in 1..m /\ q - 1 \in 1..m
      BY <1>2
    <2> HIDE DEF u
    <2>2. QED
      BY <1>1, <2>1 DEF TimesAreFar
  <1> HIDE DEF u
  <1>5. After(0) = [blocks |-> <<>>, block |-> <<>>] /\ \A q \in 1..m : After(q) = P!Taken(After(q - 1), u[q])
    BY <1>1, <1>2, ReadOneByOne
  <1> HIDE DEF After
  <1> DEFINE good == {q \in Nat : q + 1 \in 1..m => FarRead(After(q + 1), u[q + 1])}
  <1>6. FarRead(After(0), P!Blank) /\ After(0).block = <<>>
    <2> DEFINE start == [blocks |-> <<>>, block |-> <<>>]
    <2>1. <<>> \in Blocks /\ Len(<<>>) = 0 /\ <<>> \in Seq(Lines)
      BY EmptySeq DEF Blocks
    <2>2. start \in Reads /\ AllFine(start.blocks) /\ Clear(start.block) /\ start.block = <<>>
      BY <2>1 DEF Reads, AllFine, Clear
    <2>3. After(0) = start
      BY <1>5
    <2> HIDE DEF start
    <2>4. QED
      BY <2>2, <2>3 DEF FarRead
  <1>7. 0 \in good
    <2>1. 1 \in 1..m /\ After(1) = P!Taken(After(0), u[1]) /\ u[1] \in Marks
      BY <1>2, <1>3, <1>5
    <2>2. FarRead(After(1), u[1])
      BY <1>6, <2>1, FarTaken
    <2>3. QED
      BY <2>2
  <1>8. ASSUME NEW q \in Nat, q \in good PROVE q + 1 \in good
    <2> SUFFICES ASSUME (q + 1) + 1 \in 1..m PROVE FarRead(After((q + 1) + 1), u[(q + 1) + 1])
      OBVIOUS
    <2> DEFINE r == (q + 1) + 1
    <2>1. q + 1 \in 1..m /\ r \in 2..m /\ r - 1 = q + 1 /\ r \in 1..m
      BY <1>2
    <2>2. FarRead(After(q + 1), u[q + 1])
      BY <1>8, <2>1
    <2>3. After(r) = P!Taken(After(r - 1), u[r]) /\ u[r] \in Marks
      BY <1>3, <1>5, <2>1
    <2>4. u[r] = P!Time => u[r - 1] = P!Blank
      BY <1>4, <2>1
    <2> HIDE DEF r
    <2>5. FarRead(After(r), u[r])
      BY <2>1, <2>2, <2>3, <2>4, FarTaken
    <2>6. QED
      BY <2>5 DEF r
  <1> HIDE DEF good
  <1>9. Nat \subseteq good
    BY <1>7, <1>8, SetInduction
  <1>10. FarRead(After(m), u[m])
    <2>1. m - 1 \in good /\ (m - 1) + 1 = m /\ m \in 1..m
      BY <1>2, <1>9
    <2>2. QED
      BY <2>1 DEF good
  <1>11. P!Blocks(u) = P!Keep(After(m).blocks, After(m).block)
    BY <1>1 DEF P!Blocks, After
  <1>12. AllFine(P!Keep(After(m).blocks, After(m).block))
    BY <1>10, KeptAreFine DEF FarRead
  <1>13. QED
    BY <1>11, <1>12 DEF u

VttChunk(es, k) == <<P!Time>> \o es[k].text \o <<P!Blank>>
VttOf(es)       == <<P!Word, P!Blank>> \o P!FlattenSeq([k \in DOMAIN es |-> VttChunk(es, k)])
LrcChunk(es, k) == IF es[k].text = <<P!Blank>> THEN <<P!Word>> ELSE es[k].text
LrcOf(es)       == P!FlattenSeq([k \in DOMAIN es |-> LrcChunk(es, k)])

LEMMA VttChunkFacts ==
  ASSUME NEW es \in Seq(EntrySet), NEW k \in 1..Len(es)
  PROVE  /\ VttChunk(es, k) \in Seq(Marks) /\ Len(VttChunk(es, k)) \in Nat \ {0, 1}
         /\ \A j \in 2..Len(VttChunk(es, k)) : VttChunk(es, k)[j] # P!Time
         /\ VttChunk(es, k)[Len(VttChunk(es, k))] = P!Blank
  <1> DEFINE text == es[k].text
             head == <<P!Time>>
             body == head \o text
             all  == body \o <<P!Blank>>
  <1>1. /\ text \in Seq(Letters) /\ Len(text) \in Nat \ {0}
        /\ text \in Seq(Marks) /\ \A j \in 1..Len(text) : text[j] # P!Time
    <2>1. text \in Seq(Letters) /\ Len(text) \in Nat \ {0}
      BY TextFacts
    <2>2. text \in Seq(Marks)
      BY <2>1, SeqMonotonic DEF Marks
    <2>3. \A j \in 1..Len(text) : text[j] \in Letters
      BY <2>1, ElementOfSeq
    <2>4. P!Time \notin Letters
      BY LinesDiffer DEF Letters
    <2>5. QED
      BY <2>1, <2>2, <2>3, <2>4
  <1>2. /\ head \in Seq(Marks) /\ Len(head) = 1
        /\ <<P!Blank>> \in Seq(Marks) /\ Len(<<P!Blank>>) = 1 /\ <<P!Blank>>[1] = P!Blank
    BY DEF Marks, Letters
  <1> HIDE DEF head, text
  <1>3. /\ body \in Seq(Marks) /\ Len(body) = 1 + Len(text)
        /\ \A i \in 1..(1 + Len(text)) : body[i] = IF i <= 1 THEN head[i] ELSE text[i - 1]
    <2>1. /\ body \in Seq(Marks) /\ Len(body) = Len(head) + Len(text)
          /\ \A i \in 1..(Len(head) + Len(text)) :
               body[i] = IF i <= Len(head) THEN head[i] ELSE text[i - Len(head)]
      BY <1>1, <1>2, ConcatProperties
    <2> HIDE DEF body
    <2>2. QED
      BY <1>1, <1>2, <2>1
  <1> HIDE DEF body
  <1>4. /\ all \in Seq(Marks) /\ Len(all) = Len(body) + 1
        /\ \A i \in 1..(Len(body) + 1) :
             all[i] = IF i <= Len(body) THEN body[i] ELSE <<P!Blank>>[i - Len(body)]
    BY <1>2, <1>3, ConcatProperties
  <1> HIDE DEF all
  <1>5. ASSUME NEW j \in 2..(1 + Len(text)) PROVE all[j] # P!Time
    <2>1. j \in 1..(1 + Len(text)) /\ ~(j <= 1) /\ j - 1 \in 1..Len(text) /\ j <= Len(body)
      BY <1>1, <1>3
    <2>2. all[j] = text[j - 1]
      BY <1>1, <1>3, <1>4, <2>1
    <2>3. QED
      BY <1>1, <2>1, <2>2
  <1>6. all[Len(text) + 2] = P!Blank /\ Len(all) = Len(text) + 2
    <2>1. /\ Len(text) + 2 \in 1..(Len(body) + 1) /\ ~(Len(text) + 2 <= Len(body))
          /\ (Len(text) + 2) - Len(body) = 1
      BY <1>1, <1>3
    <2>2. QED
      BY <1>1, <1>2, <1>3, <1>4, <2>1
  <1>7. \A j \in 2..Len(all) : all[j] # P!Time
    <2>1. \A j \in 2..Len(all) : j \in 2..(1 + Len(text)) \/ j = Len(text) + 2
      BY <1>1, <1>6
    <2>2. P!Blank # P!Time
      BY LinesDiffer
    <2>3. QED
      BY <1>5, <1>6, <2>1, <2>2
  <1>8. all = VttChunk(es, k)
    BY DEF all, body, head, text, VttChunk
  <1>9. Len(all) \in Nat \ {0, 1}
    BY <1>1, <1>6
  <1>10. QED
    BY <1>4, <1>6, <1>7, <1>8, <1>9

LEMMA VttIsFar ==
  ASSUME NEW es \in Seq(EntrySet), es # <<>>
  PROVE  TimesAreFar(VttOf(es))
  <1> DEFINE n    == Len(es)
             c    == [k \in DOMAIN es |-> VttChunk(es, k)]
             flat == P!FlattenSeq(c)
             head == <<P!Word, P!Blank>>
             all  == head \o flat
  <1>1. n \in Nat \ {0} /\ DOMAIN es = 1..n
    BY EmptySeq, LenProperties
  <1>2. /\ \A k \in 1..n : c[k] = VttChunk(es, k)
        /\ \A k \in 1..n : /\ c[k] \in Seq(Marks) /\ Len(c[k]) \in Nat \ {0, 1}
                           /\ \A j \in 2..Len(c[k]) : c[k][j] # P!Time
                           /\ c[k][Len(c[k])] = P!Blank
    BY <1>1, VttChunkFacts
  <1>3. c \in [1..n -> Seq(Marks)]
    BY <1>1, <1>2
  <1> HIDE DEF c, n
  <1>4. flat \in Seq(Marks) /\ \E at : Follows(flat, c, at, n)
    BY <1>1, <1>3, Flattened
  <1> HIDE DEF flat
  <1>5. PICK at : Follows(flat, c, at, n)
    BY <1>4
  <1>6. Len(flat) \in Nat
    BY <1>4, LenProperties
  <1>7. /\ at \in [0..n -> Nat] /\ at[0] = 0
        /\ \A k \in 1..n : at[k] = at[k - 1] + Len(c[k])
        /\ \A k \in 1..n : \A j \in 1..Len(c[k]) : flat[at[k - 1] + j] = c[k][j]
        /\ \A q \in 1..Len(flat) : \E k \in 1..n : \E j \in 1..Len(c[k]) : q = at[k - 1] + j
    BY <1>5 DEF Follows
  <1>8. ASSUME NEW q \in 2..Len(flat), flat[q] = P!Time PROVE flat[q - 1] = P!Blank
    <2>1. PICK k \in 1..n : \E j \in 1..Len(c[k]) : q = at[k - 1] + j
      <3>1. q \in 1..Len(flat)
        BY <1>6
      <3>2. QED
        BY <1>7, <3>1
    <2>2. PICK j \in 1..Len(c[k]) : q = at[k - 1] + j
      BY <2>1
    <2>3. j \notin 2..Len(c[k])
      BY <1>2, <1>7, <1>8, <2>2
    <2>4. j = 1
      BY <1>2, <2>3
    <2>5. k # 1
      BY <1>7, <2>2, <2>4
    <2>6. k - 1 \in 1..n /\ k - 1 \in 0..n /\ (k - 1) - 1 \in 0..n
      BY <1>1, <2>5
    <2>7. at[k - 1] = at[(k - 1) - 1] + Len(c[k - 1])
      BY <1>7, <2>6
    <2>8. Len(c[k - 1]) \in 1..Len(c[k - 1])
      BY <1>2, <2>6
    <2>9. flat[at[(k - 1) - 1] + Len(c[k - 1])] = P!Blank
      BY <1>2, <1>7, <2>6, <2>8
    <2>10. at[k - 1] \in Nat
      BY <1>7, <2>6
    <2>11. q - 1 = at[k - 1]
      BY <2>2, <2>4, <2>10
    <2>12. QED
      BY <2>7, <2>9, <2>11
  <1>9. /\ head \in Seq(Marks) /\ Len(head) = 2 /\ head[1] = P!Word /\ head[2] = P!Blank
    BY DEF Marks, Letters
  <1> HIDE DEF head
  <1>10. /\ all \in Seq(Marks) /\ Len(all) = 2 + Len(flat)
         /\ \A i \in 1..(2 + Len(flat)) : all[i] = IF i <= 2 THEN head[i] ELSE flat[i - 2]
    <2>1. /\ all \in Seq(Marks) /\ Len(all) = Len(head) + Len(flat)
          /\ \A i \in 1..(Len(head) + Len(flat)) :
               all[i] = IF i <= Len(head) THEN head[i] ELSE flat[i - Len(head)]
      BY <1>4, <1>9, ConcatProperties
    <2> HIDE DEF all
    <2>2. QED
      BY <1>9, <2>1
  <1> HIDE DEF all
  <1>11. all # <<>> /\ all[1] # P!Blank
    <2>1. 1 \in 1..(2 + Len(flat)) /\ Len(all) # 0
      BY <1>6, <1>10
    <2>2. all[1] = P!Word
      BY <1>9, <1>10, <2>1
    <2>3. QED
      BY <2>1, <2>2, LinesDiffer
  <1>12. ASSUME NEW q \in 2..Len(all), all[q] = P!Time PROVE all[q - 1] = P!Blank
    <2>1. CASE q = 2
      <3>1. all[2] = P!Blank
        BY <1>6, <1>9, <1>10
      <3>2. QED
        BY <1>12, <2>1, <3>1, LinesDiffer
    <2>2. CASE q = 3
      <3>1. all[2] = P!Blank
        BY <1>6, <1>9, <1>10
      <3>2. QED
        BY <2>2, <3>1
    <2>3. CASE q > 3
      <3>1. /\ q \in 1..(2 + Len(flat)) /\ ~(q <= 2) /\ q - 2 \in 2..Len(flat)
            /\ q - 1 \in 1..(2 + Len(flat)) /\ ~(q - 1 <= 2) /\ (q - 1) - 2 = (q - 2) - 1
        BY <1>6, <1>10, <2>3
      <3>2. all[q] = flat[q - 2] /\ all[q - 1] = flat[(q - 2) - 1]
        BY <1>10, <3>1
      <3>3. QED
        BY <1>8, <1>12, <3>1, <3>2
    <2>4. QED
      BY <1>6, <1>10, <2>1, <2>2, <2>3
  <1>13. all = VttOf(es)
    BY DEF all, head, flat, c, VttOf
  <1>14. QED
    BY <1>10, <1>11, <1>12, <1>13 DEF TimesAreFar

LEMMA LrcIsFar ==
  ASSUME NEW es \in Seq(EntrySet), es # <<>>
  PROVE  TimesAreFar(LrcOf(es))
  <1> DEFINE n    == Len(es)
             c    == [k \in DOMAIN es |-> LrcChunk(es, k)]
             flat == P!FlattenSeq(c)
  <1>1. n \in Nat \ {0} /\ DOMAIN es = 1..n
    BY EmptySeq, LenProperties
  <1>2. ASSUME NEW k \in 1..n
        PROVE  LrcChunk(es, k) \in Seq(Letters) /\ Len(LrcChunk(es, k)) \in Nat \ {0}
               /\ LrcChunk(es, k)[1] = P!Word
    <2>1. /\ es[k].text \in Seq(Letters) /\ Len(es[k].text) \in Nat \ {0} /\ es[k].text \in TextSet
      BY TextFacts DEF EntrySet
    <2>2. CASE es[k].text = <<P!Blank>>
      <3>1. LrcChunk(es, k) = <<P!Word>>
        BY <2>2 DEF LrcChunk
      <3>2. <<P!Word>> \in Seq(Letters) /\ Len(<<P!Word>>) = 1 /\ <<P!Word>>[1] = P!Word
        BY DEF Letters
      <3>3. QED
        BY <3>1, <3>2
    <2>3. CASE es[k].text # <<P!Blank>>
      BY <2>1, <2>3 DEF LrcChunk, TextSet
    <2>4. QED
      BY <2>2, <2>3
  <1>3. c \in [1..n -> Seq(Letters)] /\ c[1] = LrcChunk(es, 1) /\ 1 \in 1..n
    BY <1>1, <1>2
  <1> HIDE DEF c, n
  <1>4. flat \in Seq(Letters) /\ \E at : Follows(flat, c, at, n)
    BY <1>1, <1>3, Flattened
  <1> HIDE DEF flat
  <1>5. PICK at : Follows(flat, c, at, n)
    BY <1>4
  <1>6. flat[1] = P!Word /\ flat # <<>>
    <2>1. /\ at[0] = 0 /\ at \in [0..n -> Nat] /\ at[n] = Len(flat)
          /\ \A k \in 1..n : at[k] = at[k - 1] + Len(c[k])
          /\ \A k \in 1..n : \A j \in 1..Len(c[k]) : flat[at[k - 1] + j] = c[k][j]
      BY <1>5 DEF Follows
    <2>2. 1 \in 1..Len(c[1]) /\ 1 - 1 = 0 /\ 0 + 1 = 1
      BY <1>2, <1>3
    <2>3. flat[at[1 - 1] + 1] = c[1][1]
      BY <1>3, <2>1, <2>2
    <2>4. flat[1] = P!Word
      BY <1>2, <1>3, <2>1, <2>2, <2>3
    <2>5. n \in 1..n /\ n - 1 \in 0..n
      BY <1>1
    <2>6. flat # <<>>
      <3>1. c[n] = LrcChunk(es, n) /\ Len(c[n]) \in Nat \ {0}
        BY <1>1, <1>2, <2>5 DEF c
      <3>2. at[n] = at[n - 1] + Len(c[n]) /\ at[n - 1] \in Nat
        BY <2>1, <2>5
      <3>3. Len(flat) # 0
        BY <2>1, <3>1, <3>2
      <3>4. QED
        BY <3>3
    <2>7. QED
      BY <2>4, <2>6
  <1>7. flat \in Seq(Marks)
    BY <1>4, SeqMonotonic DEF Marks
  <1>8. \A q \in 1..Len(flat) : flat[q] \in Letters
    BY <1>4, ElementOfSeq
  <1>9. P!Time \notin Letters /\ P!Word # P!Blank
    BY LinesDiffer DEF Letters
  <1>10. \A q \in 2..Len(flat) : q \in 1..Len(flat)
    OBVIOUS
  <1>11. flat = LrcOf(es)
    BY DEF flat, c, LrcOf
  <1>12. QED
    BY <1>6, <1>7, <1>8, <1>9, <1>10, <1>11 DEF TimesAreFar

-----------------------------------------------------------------------------
(* The entries that are loaded                                              *)

Numbered(es) == \A i \in 1..Len(es) : es[i].id = i

\* Of a block of words an entry is made that has them all.
LEMMA EntryFacts ==
  ASSUME NEW b, Fine(b)
  PROVE  /\ P!Entry(b) \in EntrySet /\ P!Entry(b).id = b[1][2]
         /\ Len(P!Entry(b).text) = Len(b) - 2
         /\ \A p \in 1..Len(P!Entry(b).text) : P!Entry(b).text[p] = P!Word
  <1> DEFINE n     == Len(b)
             tail  == SubSeq(b, 3, n)
             words == P!Trim(tail)
  <1>1. b \in Seq(Lines) /\ n \in Nat /\ n >= 3 /\ \A p \in 3..n : b[p] = P!Word
    BY LenProperties DEF Fine
  <1>2. \A p \in 3..n : b[p] \in Letters
    BY <1>1 DEF Letters
  <1> HIDE DEF n
  <1>3. /\ tail \in Seq(Letters) /\ Len(tail) = n - 2
        /\ \A p \in 1..(n - 2) : tail[p] = P!Word
    <2>1. /\ tail \in Seq(Letters) /\ Len(tail) = (IF 3 <= n THEN n - 3 + 1 ELSE 0)
          /\ \A p \in 1..(n - 3 + 1) : tail[p] = b[3 + p - 1]
      BY <1>1, <1>2, SubSeqProperties
    <2> HIDE DEF tail
    <2>2. \A p \in 1..(n - 2) : p \in 1..(n - 3 + 1) /\ 3 + p - 1 \in 3..n
      BY <1>1
    <2>3. Len(tail) = n - 2
      BY <1>1, <2>1
    <2>4. QED
      BY <1>1, <2>1, <2>2, <2>3
  <1> HIDE DEF tail
  <1>4. Len(tail) \in Nat \ {0} /\ tail # <<>> /\ tail[1] # P!Blank
    <2>1. Len(tail) \in Nat \ {0} /\ 1 \in 1..(n - 2)
      BY <1>1, <1>3
    <2>2. tail[1] = P!Word
      BY <1>3, <2>1
    <2>3. QED
      BY <2>1, <2>2, LinesDiffer
  <1>5. PICK m \in 1..Len(tail) :
          /\ tail[m] # P!Blank /\ \A p \in (m + 1)..Len(tail) : tail[p] = P!Blank
          /\ words \in Seq(Letters) /\ Len(words) = m
          /\ \A p \in 1..m : words[p] = tail[p]
    BY <1>3, <1>4, Trimmed
  <1> HIDE DEF words
  <1>6. m = n - 2
    <2>1. CASE m < Len(tail)
      <3>1. Len(tail) \in (m + 1)..Len(tail) /\ Len(tail) \in 1..(n - 2)
        BY <1>3, <1>4, <2>1
      <3>2. tail[Len(tail)] = P!Blank /\ tail[Len(tail)] = P!Word
        BY <1>3, <1>5, <3>1
      <3>3. QED
        BY <3>2, LinesDiffer
    <2>2. QED
      BY <1>3, <1>4, <2>1
  <1>7. Len(words) = n - 2 /\ \A p \in 1..Len(words) : words[p] = P!Word
    BY <1>3, <1>5, <1>6
  <1>8. words \in TextSet
    <2>1. 1 \in 1..Len(words) /\ words # <<>>
      BY <1>1, <1>7
    <2>2. QED
      BY <1>5, <1>7, <2>1 DEF TextSet
  <1>9. b[1][2] \in Nat
    <2>1. b[1] \in Lines
      BY <1>1, ElementOfSeq DEF n
    <2>2. QED
      BY <2>1, LinesDiffer DEF Lines, Letters
  <1>10. P!Entry(b) = [id |-> b[1][2], text |-> words]
    BY DEF P!Entry, words, tail, n
  <1>11. QED
    BY <1>7, <1>8, <1>9, <1>10 DEF EntrySet, n

LEMMA LoadedFacts ==
  ASSUME NEW blocks, AllFine(blocks)
  PROVE  /\ [k \in DOMAIN blocks |-> P!Entry(blocks[k])] \in Seq(EntrySet)
         /\ Len([k \in DOMAIN blocks |-> P!Entry(blocks[k])]) = Len(blocks)
  <1> DEFINE es == [k \in DOMAIN blocks |-> P!Entry(blocks[k])]
  <1>1. DOMAIN blocks = 1..Len(blocks) /\ Len(blocks) \in Nat
    BY LenProperties DEF AllFine, Blocks
  <1>2. \A k \in 1..Len(blocks) : P!Entry(blocks[k]) \in EntrySet
    BY EntryFacts DEF AllFine
  <1>3. es \in [1..Len(blocks) -> EntrySet]
    BY <1>1, <1>2
  <1> HIDE DEF es
  <1>4. es \in Seq(EntrySet) /\ Len(es) = Len(blocks)
    <2>1. es \in Seq(EntrySet)
      BY <1>1, <1>3, SeqDef
    <2>2. DOMAIN es = 1..Len(blocks) /\ DOMAIN es = 1..Len(es) /\ Len(es) \in Nat
      BY <1>3, <2>1, LenProperties
    <2>3. QED
      BY <1>1, <2>1, <2>2
  <1>5. QED
    BY <1>4 DEF es

\* What is read of numbered entries without a failure has all that the entries had.
LEMMA ReadFacts ==
  ASSUME NEW es \in Seq(EntrySet), NEW blocks, ReadAgain(es, blocks),
         ~ \E k \in DOMAIN blocks : blocks[k][2] # P!Time
  PROVE  /\ AllFine(blocks)
         /\ \A k \in 1..Len(blocks) : P!Entry(blocks[k]).id = k
         /\ Wordy(es) =>
              /\ Len(blocks) = Len(es)
              /\ \A k \in 1..Len(blocks) : P!Entry(blocks[k]).text = es[k].text
  <1>1. blocks \in Blocks /\ DOMAIN blocks = 1..Len(blocks) /\ Len(blocks) \in Nat
    BY LenProperties DEF ReadAgain, Blocks
  <1>2. PICK c \in Nat : GoodBlocks(es, blocks, c) /\ (Wordy(es) => c = Len(es))
    BY <1>1 DEF ReadAgain, BadBlock
  <1>3. Len(blocks) = c /\ \A k \in 1..c : Whole(es, k, blocks[k])
    BY <1>2 DEF GoodBlocks
  <1>4. \A k \in 1..c : Fine(blocks[k])
    BY <1>3 DEF Whole, Fine
  <1>5. AllFine(blocks)
    BY <1>1, <1>3, <1>4 DEF AllFine
  <1>6. ASSUME NEW k \in 1..c PROVE P!Entry(blocks[k]).id = k
    <2>1. P!Entry(blocks[k]).id = blocks[k][1][2]
      BY <1>4, EntryFacts
    <2>2. blocks[k][1] = P!Number(k) /\ k \in Nat
      BY <1>3 DEF Whole
    <2>3. QED
      BY <2>1, <2>2, LinesDiffer
  <1>7. ASSUME Wordy(es), NEW k \in 1..c PROVE P!Entry(blocks[k]).text = es[k].text
    <2> DEFINE s == P!Entry(blocks[k]).text
               t == es[k].text
    <2>1. /\ P!Entry(blocks[k]) \in EntrySet /\ Len(s) = Len(blocks[k]) - 2
          /\ \A p \in 1..Len(s) : s[p] = P!Word
      BY <1>4, EntryFacts
    <2>2. s \in Seq(Letters)
      BY <2>1 DEF EntrySet, TextSet
    <2>3. k \in 1..Len(es)
      BY <1>2, <1>7
    <2>4. t \in Seq(Letters) /\ Len(t) \in Nat
      BY <2>3, TextFacts
    <2>5. \A p \in 1..Len(t) : t[p] = P!Word
      BY <1>7, <2>3 DEF Wordy
    <2>6. Len(blocks[k]) = Len(t) + 2
      BY <1>3, <1>7 DEF Whole
    <2> HIDE DEF s, t
    <2>7. Len(s) = Len(t)
      BY <2>1, <2>4, <2>6
    <2>8. s = t
      BY <2>1, <2>2, <2>4, <2>5, <2>7, SeqEqual
    <2>9. QED
      BY <2>8 DEF s, t
  <1>8. QED
    BY <1>2, <1>3, <1>5, <1>6, <1>7

-----------------------------------------------------------------------------
(* The entries that are deleted                                             *)

LEMMA WithoutOneByOne ==
  ASSUME NEW list, Len(list) \in Nat, NEW id
  PROVE  \E kept : /\ kept[0] = <<>> /\ P!Without(list, id) = kept[Len(list)]
                   /\ \A n \in 1..Len(list) :
                        kept[n] = IF list[n].id = id THEN kept[n - 1]
                                                     ELSE Append(kept[n - 1], list[n])
  <1> DEFINE Step(n, so) == IF list[n].id = id THEN so ELSE Append(so, list[n])
             Keeps(f, m) == f = [n \in 0..m |-> IF n = 0 THEN <<>> ELSE Step(n, f[n - 1])]
             good == {m \in Nat : \E f : Keeps(f, m)}
  <1> HIDE DEF Step
  <1>1. 0 \in good
    <2>1. Keeps([n \in 0..0 |-> <<>>], 0)
      OBVIOUS
    <2>2. QED
      BY <2>1
  <1>2. ASSUME NEW m \in Nat, m \in good PROVE m + 1 \in good
    <2>1. PICK f : Keeps(f, m)
      BY <1>2
    <2> DEFINE g == [n \in 0..(m + 1) |-> IF n = m + 1 THEN Step(n, f[m]) ELSE f[n]]
    <2>2. ASSUME NEW n \in 0..(m + 1)
          PROVE  g[n] = IF n = 0 THEN <<>> ELSE Step(n, g[n - 1])
      <3>1. CASE n = m + 1
        <4>1. g[n] = Step(n, f[m]) /\ n # 0 /\ n - 1 = m /\ g[m] = f[m]
          BY <3>1
        <4>2. QED
          BY <4>1
      <3>2. CASE n # m + 1
        <4>1. n \in 0..m /\ g[n] = f[n]
          BY <3>2
        <4>2. f[n] = IF n = 0 THEN <<>> ELSE Step(n, f[n - 1])
          BY <2>1, <4>1
        <4>3. n # 0 => n - 1 \in 0..m /\ g[n - 1] = f[n - 1]
          BY <4>1
        <4> HIDE DEF g
        <4>4. QED
          BY <4>1, <4>2, <4>3
      <3>3. QED
        BY <3>1, <3>2
    <2>3. g = [n \in 0..(m + 1) |-> g[n]]
      OBVIOUS
    <2> HIDE DEF g
    <2>4. Keeps(g, m + 1)
      BY <2>2, <2>3
    <2>5. QED
      BY <2>4
  <1>3. Len(list) \in good
    <2> HIDE DEF good
    <2>1. QED
      BY <1>1, <1>2, SetInduction
  <1> DEFINE kept == CHOOSE f : Keeps(f, Len(list))
  <1>4. Keeps(kept, Len(list))
    BY <1>3
  <1>5. P!Without(list, id) = kept[Len(list)]
    BY DEF P!Without, Step
  <1> HIDE DEF kept
  <1>6. \A n \in 1..Len(list) : n \in 0..Len(list) /\ n # 0
    OBVIOUS
  <1>7. kept[0] = <<>>
    <2>1. 0 \in 0..Len(list)
      OBVIOUS
    <2>2. QED
      BY <1>4, <2>1
  <1>8. \A n \in 1..Len(list) : kept[n] = Step(n, kept[n - 1])
    BY <1>4, <1>6
  <1>9. QED
    BY <1>5, <1>7, <1>8 DEF Step

LEMMA WithoutFacts ==
  ASSUME NEW list \in Seq(EntrySet), NEW k \in 1..Len(list)
  PROVE  /\ P!Without(list, list[k].id) \in Seq(EntrySet)
         /\ Numbered(list) => Len(P!Without(list, list[k].id)) = Len(list) - 1
  <1> DEFINE id   == list[k].id
             many == Len(list)
  <1>1. many \in Nat /\ \A n \in 1..many : list[n] \in EntrySet
    BY LenProperties, ElementOfSeq
  <1> HIDE DEF id
  <1>2. PICK kept : /\ kept[0] = <<>> /\ P!Without(list, id) = kept[many]
                    /\ \A n \in 1..many :
                         kept[n] = IF list[n].id = id THEN kept[n - 1]
                                                      ELSE Append(kept[n - 1], list[n])
    BY <1>1, WithoutOneByOne
  <1>3. Numbered(list) => \A n \in 1..many : list[n].id = id <=> n = k
    BY DEF Numbered, id
  <1> HIDE DEF many
  <1> DEFINE Kept(n) == /\ kept[n] \in Seq(EntrySet)
                        /\ Numbered(list) => Len(kept[n]) = IF n < k THEN n ELSE n - 1
             good == {n \in Nat : n \in 0..many => Kept(n)}
  <1>4. 0 \in good
    <2>1. <<>> \in Seq(EntrySet) /\ Len(<<>>) = 0 /\ 0 < k
      BY EmptySeq
    <2>2. kept[0] \in Seq(EntrySet) /\ Len(kept[0]) = 0
      BY <1>2, <2>1
    <2>3. Kept(0)
      BY <2>1, <2>2
    <2> HIDE DEF Kept
    <2>4. QED
      BY <2>3
  <1>5. ASSUME NEW n \in Nat, n \in good PROVE n + 1 \in good
    <2> SUFFICES ASSUME n + 1 \in 1..many PROVE Kept(n + 1)
      OBVIOUS
    <2> DEFINE m == n + 1
    <2>1. n \in 0..many /\ m - 1 = n /\ m \in 1..many
      BY <1>1
    <2>2. kept[n] \in Seq(EntrySet) /\ (Numbered(list) => Len(kept[n]) = IF n < k THEN n ELSE n - 1)
      BY <1>5, <2>1
    <2>3. kept[m] = IF list[m].id = id THEN kept[n] ELSE Append(kept[n], list[m])
      BY <1>2, <2>1
    <2>4. /\ Append(kept[n], list[m]) \in Seq(EntrySet)
          /\ Len(Append(kept[n], list[m])) = Len(kept[n]) + 1
      BY <1>1, <2>1, <2>2, AppendProperties
    <2>5. kept[m] \in Seq(EntrySet)
      BY <2>2, <2>3, <2>4
    <2>6. ASSUME Numbered(list) PROVE Len(kept[m]) = IF m < k THEN m ELSE m - 1
      <3>1. list[m].id = id <=> m = k
        BY <1>3, <2>1, <2>6
      <3>2. CASE m = k
        <4>1. n < k /\ kept[m] = kept[n] /\ ~(m < k)
          BY <2>3, <3>1, <3>2
        <4>2. QED
          BY <2>1, <2>2, <2>6, <4>1
      <3>3. CASE m # k
        <4>1. Len(kept[m]) = Len(kept[n]) + 1 /\ (n < k <=> m < k)
          BY <2>3, <2>4, <3>1, <3>3
        <4>2. QED
          BY <2>1, <2>2, <2>6, <4>1
      <3>4. QED
        BY <3>2, <3>3
    <2>7. QED
      BY <2>5, <2>6
  <1>6. many \in good /\ many \in 0..many
    <2> HIDE DEF good
    <2>1. Nat \subseteq good
      BY <1>4, <1>5, SetInduction
    <2>2. QED
      BY <1>1, <2>1
  <1>7. Kept(many) /\ ~(many < k)
    BY <1>1, <1>6 DEF many
  <1>8. QED
    BY <1>2, <1>7 DEF id, many

-----------------------------------------------------------------------------
(* The editor: what is edited, and what was written last                    *)

Written(f) ==
  /\ f.entries \in Seq(EntrySet) /\ f.entries # <<>>
  /\ IF f.format = "srt" THEN f.lines = SrtOf(f.entries) ELSE TimesAreFar(f.lines)

EditorInv ==
  /\ entries \in Seq(EntrySet)
  /\ ~doubtful => Numbered(entries)
  /\ playerFile # Nil => Written(playerFile)

LEMMA TextsAre ==
  /\ P!Texts \subseteq TextSet
  /\ \A t \in P!Plain : \A p \in 1..Len(t) : t[p] = P!Word
  <1>1. /\ <<P!Word>> \in TextSet /\ <<P!Word, P!Word>> \in TextSet
        /\ <<P!Blank>> \in TextSet /\ <<P!Word, P!Blank, P!Word>> \in TextSet
    BY DEF TextSet, Letters
  <1>2. \A t \in P!Plain : \A p \in 1..Len(t) : t[p] = P!Word
    BY DEF P!Plain
  <1>3. QED
    BY <1>1, <1>2 DEF P!Texts, P!Plain

LEMMA EntryAdded ==
  ASSUME EditorInv, P!AddEntry PROVE EditorInv'
  <1> DEFINE new  == [id |-> Len(entries) + 1, text |-> <<P!Blank>>]
             more == Append(entries, new)
  <1>1. entries \in Seq(EntrySet) /\ Len(entries) \in Nat
    BY LenProperties DEF EditorInv
  <1>2. new \in EntrySet /\ new.id = Len(entries) + 1
    <2>1. <<P!Blank>> \in TextSet
      BY DEF TextSet, Letters
    <2>2. QED
      BY <1>1, <2>1 DEF EntrySet
  <1> HIDE DEF new
  <1>3. /\ more \in Seq(EntrySet) /\ Len(more) = Len(entries) + 1
        /\ \A i \in 1..Len(entries) : more[i] = entries[i]
        /\ more[Len(entries) + 1] = new
    BY <1>1, <1>2, AppendProperties
  <1>4. entries' = more /\ UNCHANGED <<playerFile, doubtful>>
    BY DEF P!AddEntry, new
  <1> HIDE DEF more
  <1>5. ~doubtful => Numbered(more)
    BY <1>1, <1>2, <1>3 DEF EditorInv, Numbered
  <1>6. QED
    BY <1>3, <1>4, <1>5 DEF EditorInv

LEMMA EntryUpdated ==
  ASSUME EditorInv, NEW k, NEW text \in P!Texts, P!UpdateEntry(k, text) PROVE EditorInv'
  <1> DEFINE next == [i \in DOMAIN entries |->
                        IF entries[i].id = entries[k].id THEN [entries[i] EXCEPT !.text = text]
                        ELSE entries[i]]
             many == Len(entries)
  <1>1. entries \in Seq(EntrySet) /\ many \in Nat /\ DOMAIN entries = 1..many
        /\ \A i \in 1..many : entries[i] \in EntrySet
    BY LenProperties, ElementOfSeq DEF EditorInv
  <1>2. entries' = next /\ UNCHANGED <<playerFile, doubtful>>
    BY DEF P!UpdateEntry
  <1> HIDE DEF many
  <1>3. \A i \in 1..many : next[i] \in EntrySet /\ next[i].id = entries[i].id
    BY <1>1, TextsAre DEF EntrySet
  <1>4. next \in Seq(EntrySet) /\ Len(next) = many
    <2>1. next \in [1..many -> EntrySet]
      BY <1>1, <1>3
    <2> HIDE DEF next
    <2>2. next \in Seq(EntrySet)
      BY <1>1, <2>1, SeqDef
    <2>3. DOMAIN next = 1..many /\ DOMAIN next = 1..Len(next) /\ Len(next) \in Nat
      BY <2>1, <2>2, LenProperties
    <2>4. QED
      BY <1>1, <2>2, <2>3
  <1> HIDE DEF next
  <1>5. ~doubtful => Numbered(next)
    BY <1>1, <1>3, <1>4 DEF EditorInv, Numbered, many
  <1>6. QED
    BY <1>2, <1>4, <1>5 DEF EditorInv

LEMMA EntryDeleted ==
  ASSUME EditorInv, NEW k, P!DeleteEntry(k)
  PROVE  EditorInv' /\ (~doubtful => Len(entries') = Len(entries) - 1)
  <1>1. entries \in Seq(EntrySet) /\ k \in 1..Len(entries)
    BY LenProperties DEF EditorInv, P!DeleteEntry
  <1>2. entries' = P!Without(entries, entries[k].id) /\ doubtful' /\ UNCHANGED playerFile
    BY DEF P!DeleteEntry
  <1>3. entries' \in Seq(EntrySet) /\ (Numbered(entries) => Len(entries') = Len(entries) - 1)
    BY <1>1, <1>2, WithoutFacts
  <1>4. QED
    BY <1>2, <1>3 DEF EditorInv

LEMMA FileWritten ==
  ASSUME EditorInv, NEW format, P!Export(format) PROVE EditorInv'
  <1>1. entries \in Seq(EntrySet) /\ entries # <<>> /\ UNCHANGED <<entries, doubtful>>
    BY DEF EditorInv, P!Export
  <1>2. P!Srt = SrtOf(entries)
    BY DEF P!Srt, P!Numbering, SrtOf, Chunk
  <1>3. P!Vtt = VttOf(entries)
    BY DEF P!Vtt, VttOf, VttChunk
  <1>4. P!Lrc = LrcOf(entries)
    BY DEF P!Lrc, LrcOf, LrcChunk
  <1>5. TimesAreFar(P!Vtt) /\ TimesAreFar(P!Lrc)
    BY <1>1, <1>3, <1>4, VttIsFar, LrcIsFar
  <1>6. /\ playerFile'.format = format /\ playerFile'.entries = entries
        /\ format = "srt" => playerFile'.lines = P!Srt
        /\ format # "srt" => playerFile'.lines \in {P!Vtt, P!Lrc}
    BY DEF P!Export
  <1>7. Written(playerFile')
    BY <1>1, <1>2, <1>5, <1>6 DEF Written
  <1>8. QED
    BY <1>1, <1>7 DEF EditorInv, Written

\* What is read of a file of subtitles that was written.
LEMMA FileRead ==
  ASSUME EditorInv, P!Upload
  PROVE  /\ EditorInv'
         /\ playerFile.format = "srt"
            /\ (\A k \in DOMAIN playerFile.entries : playerFile.entries[k].text \in P!Plain)
              => /\ Len(entries') = Len(playerFile.entries)
                 /\ \A n \in DOMAIN entries' : entries'[n].text = playerFile.entries[n].text
  <1> DEFINE blocks == P!Blocks(P!Trim(playerFile.lines))
             next   == [k \in DOMAIN blocks |-> P!Entry(blocks[k])]
             es     == playerFile.entries
             bad    == \E k \in DOMAIN blocks : blocks[k][2] # P!Time
             plain  == \A k \in DOMAIN es : es[k].text \in P!Plain
  <1>1. /\ Written(playerFile) /\ UNCHANGED playerFile
        /\ bad => UNCHANGED <<entries, doubtful>>
        /\ ~bad => entries' = next /\ doubtful' = (playerFile.format # "srt")
    BY DEF P!Upload, EditorInv
  <1>2. es \in Seq(EntrySet) /\ es # <<>> /\ DOMAIN es = 1..Len(es)
    BY <1>1, LenProperties DEF Written
  <1> HIDE DEF blocks
  <1>3. CASE playerFile.format = "srt"
    <2>1. ReadAgain(es, blocks)
      BY <1>1, <1>2, <1>3, SrtIsRead DEF Written, blocks
    <2>2. plain => Wordy(es)
      BY <1>2, TextsAre DEF Wordy
    <2> HIDE DEF es, next
    <2>3. CASE bad
      <3>1. ~Wordy(es)
        <4>1. ASSUME Wordy(es) PROVE FALSE
          <5>1. PICK c \in Nat : GoodBlocks(es, blocks, c)
            BY <2>1, <4>1 DEF ReadAgain
          <5>2. /\ \A k \in 1..c : Whole(es, k, blocks[k])
                /\ DOMAIN blocks = 1..c
            BY <5>1, LenProperties DEF GoodBlocks, Blocks
          <5>3. QED
            BY <2>3, <5>2 DEF Whole
        <4>2. QED
          BY <4>1
      <3>2. EditorInv'
        BY <1>1, <2>3 DEF EditorInv, Written
      <3>3. QED
        BY <2>2, <3>1, <3>2 DEF es
    <2>4. CASE ~bad
      <3>1. /\ AllFine(blocks) /\ \A k \in 1..Len(blocks) : P!Entry(blocks[k]).id = k
            /\ Wordy(es) =>
                 /\ Len(blocks) = Len(es)
                 /\ \A k \in 1..Len(blocks) : P!Entry(blocks[k]).text = es[k].text
        BY <1>2, <2>1, <2>4, ReadFacts
      <3>2. /\ next \in Seq(EntrySet) /\ Len(next) = Len(blocks)
            /\ \A k \in 1..Len(blocks) : next[k] = P!Entry(blocks[k])
        <4>1. next \in Seq(EntrySet) /\ Len(next) = Len(blocks)
          BY <3>1, LoadedFacts DEF next
        <4>2. DOMAIN blocks = 1..Len(blocks)
          BY <3>1, LenProperties DEF AllFine, Blocks
        <4>3. QED
          BY <4>1, <4>2 DEF next
      <3>3. entries' = next /\ UNCHANGED playerFile
        BY <1>1, <2>4
      <3>4. EditorInv'
        BY <1>1, <3>1, <3>2, <3>3 DEF EditorInv, Numbered, Written
      <3>5. ASSUME Wordy(es)
            PROVE  Len(next) = Len(es) /\ \A n \in DOMAIN next : next[n].text = es[n].text
        <4>1. DOMAIN next = 1..Len(blocks)
          BY <3>2, LenProperties
        <4>2. QED
          BY <3>1, <3>2, <3>5, <4>1
      <3>6. QED
        BY <2>2, <3>3, <3>4, <3>5 DEF es
    <2>5. QED
      BY <2>3, <2>4
  <1>4. CASE playerFile.format # "srt"
    <2>1. AllFine(blocks)
      BY <1>1, <1>4, FarIsRead DEF Written, blocks
    <2>2. next \in Seq(EntrySet)
      BY <2>1, LoadedFacts
    <2> HIDE DEF next, es, bad
    <2>3. CASE bad
      BY <1>1, <1>4, <2>3 DEF EditorInv, Written
    <2>4. CASE ~bad
      <3>1. entries' = next /\ doubtful' /\ UNCHANGED playerFile
        BY <1>1, <1>4, <2>4
      <3>2. QED
        BY <1>1, <1>4, <2>2, <3>1 DEF EditorInv, Written
    <2>5. QED
      BY <1>4, <2>3, <2>4
  <1>5. QED
    BY <1>3, <1>4

LEMMA EditorInvInvariant == MCSpec => []EditorInv
  <1>1. MCInit => EditorInv
    <2>1. <<>> \in Seq(EntrySet) /\ Len(<<>>) = 0
      BY EmptySeq
    <2>2. QED
      BY <2>1 DEF MCInit, P!Init, EditorInv, Numbered
  <1>2. EditorInv /\ UNCHANGED <<entries, doubtful, playerFile>> => EditorInv'
    BY DEF EditorInv, Written
  <1>3. EditorInv /\ P!Next => EditorInv'
    <2> SUFFICES ASSUME EditorInv, P!Next PROVE EditorInv'
      OBVIOUS
    <2>1. ASSUME NEW k \in 1..MaxEntries, P!DeleteEntry(k) PROVE EditorInv'
      BY <2>1, EntryDeleted
    <2>2. ASSUME NEW k \in 1..MaxEntries, NEW text \in P!Texts, P!UpdateEntry(k, text)
          PROVE  EditorInv'
      BY <2>2, EntryUpdated
    <2>3. ASSUME NEW f, P!Export(f) PROVE EditorInv'
      BY <2>3, FileWritten
    <2>4. CASE P!AddEntry
      BY <2>4, EntryAdded
    <2>5. CASE P!Upload
      BY <2>5, FileRead
    <2>6. ASSUME \/ \E p \in {"audio", "video", "editor"} : P!Open(p)
                 \/ \E k \in 1..Tracks : P!ChooseTrack(k)
                 \/ \E level \in 0..Levels : P!ChangeVolume(level)
                 \/ P!TogglePlayPause \/ P!ToggleRepeat \/ P!Ended \/ P!VideoEnds \/ P!ToggleMute
                 \/ P!MouseMoves \/ P!TimerFires \/ P!MouseLeaves
          PROVE  EditorInv'
      <3>1. UNCHANGED <<entries, doubtful, playerFile>>
        BY <2>6 DEF P!Open, P!ChooseTrack, P!ChangeVolume, P!TogglePlayPause, P!ToggleRepeat,
             P!Ended, P!VideoEnds, P!ToggleMute, P!MouseMoves, P!TimerFires, P!MouseLeaves,
             P!editorVars
      <3>2. QED
        BY <1>2, <3>1
    <2>7. QED
      BY <2>1, <2>2, <2>3, <2>4, <2>5, <2>6 DEF P!Next
  <1>4. EditorInv /\ [MCNext]_<<mode, vars, viewerVars, riskVars, playerVars, savedVars, auditVars>>
          => EditorInv'
    BY <1>2, <1>3 DEF MCNext, playerVars
  <1>5. QED
    BY <1>1, <1>4, PTL DEF MCSpec

\* Subtitles go only when they are deleted, one at a time while their ids are
\* counted, and a file of subtitles with words in every line of every text is
\* read back as it was written (app/player/video/page.tsx), however many there are.
THEOREM SpecSubtitlesAreKept == MCSpec => SubtitlesAreKept
  <1>1. EditorInv
          => \A k \in 1..MaxEntries :
               P!DeleteEntry(k) /\ ~doubtful => Len(entries') = Len(entries) - 1
    BY EntryDeleted
  <1>2. EditorInv
          => (P!Upload /\ playerFile.format = "srt"
              /\ (\A k \in DOMAIN playerFile.entries : playerFile.entries[k].text \in P!Plain)
                => /\ Len(entries') = Len(playerFile.entries)
                   /\ \A n \in DOMAIN entries' : entries'[n].text = playerFile.entries[n].text)
    BY FileRead
  <1>3. MCSpec => P!DeletesOne
    BY <1>1, EditorInvInvariant, PTL DEF P!DeletesOne, MCSpec
  <1>4. MCSpec => P!SrtIsReadBack
    BY <1>2, EditorInvInvariant, PTL DEF P!SrtIsReadBack, MCSpec
  <1>5. QED
    BY <1>3, <1>4 DEF SubtitlesAreKept, P!SubtitlesAreKept

-----------------------------------------------------------------------------
(* The file viewer: a file is opened and dropped at once only if it is        *)
(* overtaken, so that what is analysed of any other stays known.              *)

ViewerKinds == {"open", "forget", "delete"}

ViewerCalls ==
  [kind : {"none"} \cup ViewerKinds,
   pc : {"idle", "sent", "reading", "gone", "ok", "failed"},
   todo : Seq(Paths), results : Seq(V!EntryType), heard : BOOLEAN]

ViewerTypeOK ==
  /\ disk \subseteq Paths /\ clicks \in 0..MaxClicks
  /\ known \subseteq Paths /\ overtaken \subseteq Paths
  /\ tokenOf \in [Paths -> Tokens \cup {Nil}]
  /\ fileOf \in [Tokens -> Paths \cup {Nil}]
  /\ files \subseteq V!EntryType
  /\ selected \in Paths \cup {Nil} /\ typedFor \in Paths \cup {Nil}
  /\ confirm \in V!Names \cup {V!Blank} /\ armed \in BOOLEAN
  /\ call \in [Calls -> ViewerCalls]

\* A call is about the same files from its start to its end, each once.
DropShape(k) ==
  /\ k.results = <<>> /\ Len(k.todo) = 1
  /\ k.pc \in {"sent", "gone", "ok", "failed"}

OpenShape(k) ==
  /\ k.pc \in {"sent", "reading"}
  /\ k.pc = "reading" => k.todo # <<>>
  /\ k.todo = <<>> => k.results # <<>>
  /\ \A i, j \in 1..Len(k.todo) : k.todo[i] = k.todo[j] => i = j
  /\ \A i, j \in 1..Len(k.results) : k.results[i].path = k.results[j].path => i = j
  /\ \A i \in 1..Len(k.todo), j \in 1..Len(k.results) : k.todo[i] # k.results[j].path

ViewerShape ==
  \A c \in Calls :
    /\ call[c].kind = "none" => call[c] = V!Idle
    /\ call[c].kind \in {"forget", "delete"} => DropShape(call[c])
    /\ call[c].kind = "open" => OpenShape(call[c])

OncePerPath == \A e, f \in files : e.path = f.path => e = f

\* What an entry promises.
Good(e) == e.ok => e.path \in known /\ e.token \in Tokens /\ fileOf[e.token] = e.path

TokensLead == \A p \in Paths : tokenOf[p] # Nil => fileOf[tokenOf[p]] = p

OpenedOrDropped == \A p \in Paths : V!Opening(p) /\ V!Dropping(p) => p \in overtaken

FilesGood ==
  \A e \in files : e.path \notin overtaken /\ ~V!Leaving(e.path) => Good(e)

ResultsGood ==
  \A c \in Calls : call[c].kind = "open" =>
    \A e \in V!ToSet(call[c].results) : e.path \notin overtaken => Good(e)

ReadingKnown ==
  \A c \in Calls : call[c].pc = "reading" =>
    call[c].todo[1] \in known \cup overtaken

\* A call that nobody hears is about files that the window does not list.
UnheardIsOvertaken ==
  \A c \in Calls : ~call[c].heard =>
    /\ call[c].kind = "open" => V!Subjects(c) \subseteq overtaken
    /\ call[c].kind \in {"forget", "delete"} =>
         call[c].todo[1] \in overtaken \/ call[c].todo[1] \notin V!Listed

DroppedIsUnknown ==
  \A c \in Calls : call[c].pc = "ok" =>
    call[c].todo[1] \notin known \/ call[c].todo[1] \in overtaken

ViewerInv ==
  /\ ViewerTypeOK /\ ViewerShape /\ OncePerPath
  /\ TokensLead /\ OpenedOrDropped
  /\ FilesGood /\ ResultsGood /\ ReadingKnown
  /\ UnheardIsOvertaken /\ DroppedIsUnknown
  /\ V!KnownIsListed /\ V!ConfirmedForSelected

\* The paths a call is about, by their places.
LEMMA SubjectsAre ==
  ASSUME NEW c \in Calls, call[c] \in ViewerCalls
  PROVE  V!Subjects(c) = {call[c].todo[i] : i \in 1..Len(call[c].todo)}
                           \cup {call[c].results[j].path : j \in 1..Len(call[c].results)}
<1>1. call[c].todo \in Seq(Paths) /\ call[c].results \in Seq(V!EntryType)
  BY DEF ViewerCalls
<1>2. V!ToSet(call[c].todo) = {call[c].todo[i] : i \in 1..Len(call[c].todo)}
  BY <1>1 DEF V!ToSet
<1>3. V!ToSet(call[c].results) = {call[c].results[j] : j \in 1..Len(call[c].results)}
  BY <1>1 DEF V!ToSet
<1> QED  BY <1>2, <1>3 DEF V!Subjects

LEMMA DropSubject ==
  ASSUME NEW c \in Calls, call[c] \in ViewerCalls, DropShape(call[c])
  PROVE  /\ V!Subjects(c) = {call[c].todo[1]} /\ call[c].todo[1] \in Paths
         /\ Head(call[c].todo) = call[c].todo[1]
<1>1. call[c].todo \in Seq(Paths) /\ Len(call[c].todo) = 1 /\ call[c].results = <<>>
  BY DEF ViewerCalls, DropShape
<1>2. 1..Len(call[c].todo) = {1} /\ 1..Len(call[c].results) = {}
  BY <1>1
<1> QED  BY <1>1, <1>2, SubjectsAre

\* Calls that stay about the same files leave opening and dropping as they are.
LEMMA SameSubjects ==
  ASSUME \A c \in Calls : call'[c].kind = call[c].kind /\ V!Subjects(c)' = V!Subjects(c)
  PROVE  \A p : (V!Opening(p)' <=> V!Opening(p)) /\ (V!Dropping(p)' <=> V!Dropping(p))
BY DEF V!Opening, V!Dropping

LEMMA ViewerRest ==
  ASSUME ViewerInv, UNCHANGED <<known, tokenOf, fileOf, files, call, overtaken>>,
         ViewerTypeOK', V!ConfirmedForSelected'
  PROVE  ViewerInv'
<1>1. \A c \in Calls : V!Subjects(c)' = V!Subjects(c)
  BY DEF V!Subjects
<1>2. \A p : /\ V!Opening(p)' <=> V!Opening(p)
             /\ V!Dropping(p)' <=> V!Dropping(p)
             /\ V!Leaving(p)' <=> V!Leaving(p)
  BY <1>1 DEF V!Opening, V!Dropping, V!Leaving
<1>3. V!Listed' = V!Listed /\ \A e : Good(e)' <=> Good(e)
  BY DEF V!Listed, Good
<1>4. ViewerShape' /\ OncePerPath' /\ TokensLead'
  BY DEF ViewerInv, ViewerShape, OncePerPath, TokensLead, V!Idle
<1>5. OpenedOrDropped' /\ FilesGood' /\ ResultsGood' /\ ReadingKnown'
  BY <1>2, <1>3 DEF ViewerInv, OpenedOrDropped, FilesGood, ResultsGood, ReadingKnown
<1>6. UnheardIsOvertaken' /\ DroppedIsUnknown'
  BY <1>1, <1>3 DEF ViewerInv, UnheardIsOvertaken, DroppedIsUnknown
<1>7. V!KnownIsListed'
  BY <1>2, <1>3 DEF ViewerInv, V!KnownIsListed
<1> QED  BY <1>4, <1>5, <1>6, <1>7 DEF ViewerInv

\* A click on a file, the field, and a file that vanishes.
LEMMA SelectStep ==
  ASSUME ViewerInv, NEW p \in Paths, V!Select(p)
  PROVE  ViewerInv'
<1>1. /\ UNCHANGED <<disk, known, tokenOf, fileOf, files, call, overtaken, clicks>>
      /\ selected' = p /\ confirm' = V!Blank /\ typedFor' = Nil /\ armed' \in BOOLEAN
  BY DEF V!Select, V!SelectFile, V!UpdateDeleteState, V!main
<1>2. ViewerTypeOK'
  BY <1>1 DEF ViewerInv, ViewerTypeOK, ViewerCalls, V!EntryType, V!Names
<1> QED  BY <1>1, <1>2, ViewerRest DEF V!ConfirmedForSelected

LEMMA TypeConfirmationStep ==
  ASSUME ViewerInv, NEW text \in V!Names \cup {V!Blank}, V!TypeConfirmation(text)
  PROVE  ViewerInv'
<1>1. /\ UNCHANGED <<disk, known, tokenOf, fileOf, files, call, overtaken, clicks, selected>>
      /\ confirm' = text /\ armed' \in BOOLEAN
      /\ typedFor' = IF text = V!Blank THEN Nil ELSE selected
  BY DEF V!TypeConfirmation, V!UpdateDeleteState, V!main
<1>2. ViewerTypeOK'
  BY <1>1 DEF ViewerInv, ViewerTypeOK, ViewerCalls, V!EntryType, V!Names
<1> QED  BY <1>1, <1>2, ViewerRest DEF V!ConfirmedForSelected

LEMMA FileVanishesStep ==
  ASSUME ViewerInv, NEW p \in Paths, V!FileVanishes(p)
  PROVE  ViewerInv'
<1>1. /\ disk' = disk \ {p}
      /\ UNCHANGED <<known, tokenOf, fileOf, files, call, overtaken, clicks, selected,
                     confirm, armed, typedFor>>
  BY DEF V!FileVanishes, V!main, V!window, V!history
<1>2. ViewerTypeOK'
  BY <1>1 DEF ViewerInv, ViewerTypeOK, ViewerCalls, V!EntryType, V!Names
<1> QED  BY <1>1, <1>2, ViewerRest DEF ViewerInv, V!ConfirmedForSelected

\* What the invariant says of one call.
LEMMA CallIs ==
  ASSUME ViewerInv, NEW c \in Calls
  PROVE  /\ call[c] \in ViewerCalls
         /\ call[c].pc \in {"gone", "ok", "failed"} => call[c].kind \in {"forget", "delete"}
         /\ call[c].pc = "reading" => call[c].kind = "open"
         /\ call[c].kind \in {"forget", "delete"} =>
              /\ V!Subjects(c) = {call[c].todo[1]} /\ call[c].todo[1] \in Paths
              /\ Head(call[c].todo) = call[c].todo[1]
              /\ V!Dropping(call[c].todo[1])
              /\ call[c].pc = "ok" => V!Leaving(call[c].todo[1])
         /\ call[c].kind = "open" =>
              /\ \A i \in 1..Len(call[c].todo) : call[c].todo[i] \in Paths /\ V!Opening(call[c].todo[i])
              /\ \A e \in V!ToSet(call[c].results) :
                   e \in V!EntryType /\ e.path \in Paths /\ V!Opening(e.path)
              /\ \A p \in V!Subjects(c) : V!Opening(p)
              /\ call[c].pc = "reading" =>
                   /\ 1 \in 1..Len(call[c].todo)
                   /\ Head(call[c].todo) = call[c].todo[1]
<1>1. call[c] \in ViewerCalls
  BY DEF ViewerInv, ViewerTypeOK
<1>2. /\ call[c].kind = "none" => call[c] = V!Idle
      /\ call[c].kind \in {"forget", "delete"} => DropShape(call[c])
      /\ call[c].kind = "open" => OpenShape(call[c])
      /\ call[c].kind \in {"none", "open", "forget", "delete"}
  BY <1>1 DEF ViewerInv, ViewerShape, ViewerCalls, ViewerKinds
<1>3. /\ call[c].pc \in {"gone", "ok", "failed"} => call[c].kind \in {"forget", "delete"}
      /\ call[c].pc = "reading" => call[c].kind = "open"
  BY <1>2 DEF V!Idle, OpenShape, DropShape
<1>4. CASE call[c].kind \in {"forget", "delete"}
  <2>1. V!Subjects(c) = {call[c].todo[1]} /\ call[c].todo[1] \in Paths
        /\ Head(call[c].todo) = call[c].todo[1]
    BY <1>1, <1>2, <1>4, DropSubject
  <2>2. V!Dropping(call[c].todo[1])
    BY <2>1, <1>4 DEF V!Dropping
  <2>3. call[c].pc = "ok" => V!Leaving(call[c].todo[1])
    BY <2>1 DEF V!Leaving
  <2> QED  BY <1>1, <1>3, <1>4, <2>1, <2>2, <2>3
<1>5. CASE call[c].kind = "open"
  <2>1. \A p \in V!Subjects(c) : V!Opening(p)
    BY <1>5 DEF V!Opening
  <2>2. call[c].todo \in Seq(Paths) /\ call[c].results \in Seq(V!EntryType)
    BY <1>1 DEF ViewerCalls
  <2>3. call[c].pc = "reading" => call[c].todo # <<>>
    BY <1>2, <1>5 DEF OpenShape
  <2>4. call[c].pc = "reading" => 1 \in 1..Len(call[c].todo) /\ Head(call[c].todo) = call[c].todo[1]
    BY <2>2, <2>3
  <2>5. \A e \in V!ToSet(call[c].results) : e \in V!EntryType /\ e.path \in Paths
    <3>1. V!ToSet(call[c].results) \subseteq V!EntryType
      BY <2>2 DEF V!ToSet
    <3>2. \A e \in V!EntryType : e.path \in Paths
      BY DEF V!EntryType
    <3> QED  BY <3>1, <3>2
  <2>6. \A e \in V!ToSet(call[c].results) : V!Opening(e.path)
    BY <2>1 DEF V!Subjects
  <2>7. \A i \in 1..Len(call[c].todo) : call[c].todo[i] \in Paths /\ V!Opening(call[c].todo[i])
    BY <1>1, <2>1, <2>2, SubjectsAre
  <2> QED  BY <1>1, <1>3, <1>5, <2>1, <2>4, <2>5, <2>6, <2>7
<1> QED  BY <1>1, <1>2, <1>3, <1>4, <1>5

\* A new call: what it opens or drops is added.
LEMMA NewCall ==
  ASSUME ViewerInv, NEW c \in Calls, call[c] = V!Idle, NEW kind \in ViewerKinds, NEW paths \in Seq(Paths),
         call' = [call EXCEPT ![c] = V!Sent(kind, paths)]
  PROVE  /\ call'[c] = [kind |-> kind, pc |-> "sent", todo |-> paths, results |-> <<>>, heard |-> TRUE]
         /\ \A d \in Calls \ {c} : call'[d] = call[d] /\ V!Subjects(d)' = V!Subjects(d)
         /\ call' \in [Calls -> ViewerCalls]
         /\ V!Subjects(c)' = V!ToSet(paths)
         /\ \A p : V!Opening(p)' <=> V!Opening(p) \/ (kind = "open" /\ p \in V!ToSet(paths))
         /\ \A p : V!Dropping(p)' <=> V!Dropping(p) \/ (kind # "open" /\ p \in V!ToSet(paths))
         /\ \A p : V!Leaving(p)' <=> V!Leaving(p)
<1>1. call'[c] = [kind |-> kind, pc |-> "sent", todo |-> paths, results |-> <<>>, heard |-> TRUE]
  BY DEF ViewerInv, ViewerTypeOK, V!Sent, V!Idle
<1>2. \A d \in Calls \ {c} : call'[d] = call[d]
  BY DEF ViewerInv, ViewerTypeOK
<1>3. call' \in [Calls -> ViewerCalls]
  <2>1. call'[c] \in ViewerCalls
    <3>1. <<>> \in Seq(V!EntryType)
      BY EmptySeq
    <3>2. kind \in {"none"} \cup ViewerKinds
      OBVIOUS
    <3> DEFINE none == <<>>
               pcs  == {"idle", "sent", "reading", "gone", "ok", "failed"}
    <3>3. "sent" \in pcs /\ TRUE \in BOOLEAN /\ none \in Seq(V!EntryType)
      BY <3>1
    <3> HIDE DEF none, pcs
    <3>4. [kind |-> kind, pc |-> "sent", todo |-> paths, results |-> none, heard |-> TRUE]
            \in [kind : {"none"} \cup ViewerKinds, pc : pcs, todo : Seq(Paths),
                 results : Seq(V!EntryType), heard : BOOLEAN]
      BY <3>2, <3>3
    <3> QED  BY <1>1, <3>4 DEF ViewerCalls, none, pcs
  <2> QED  BY <2>1 DEF ViewerInv, ViewerTypeOK
<1>4. \A d \in Calls \ {c} : V!Subjects(d)' = V!Subjects(d)
  BY <1>2 DEF V!Subjects
<1>5. V!Subjects(c)' = V!ToSet(paths)
  <2>1. V!ToSet(<<>>) = {}
    BY DEF V!ToSet
  <2>2. V!Subjects(c)' = V!ToSet(call'[c].todo) \cup {e.path : e \in V!ToSet(call'[c].results)}
    BY DEF V!Subjects
  <2>3. call'[c].todo = paths /\ call'[c].results = <<>>
    BY <1>1
  <2> HIDE DEF V!ToSet
  <2>4. V!Subjects(c)' = V!ToSet(paths) \cup {e.path : e \in {}}
    BY <2>1, <2>2, <2>3
  <2> QED  BY <2>4
<1>6. call[c].kind = "none" /\ call[c].pc = "idle"
  BY DEF V!Idle
<1>7. call'[c].kind = kind /\ call'[c].pc = "sent"
  BY <1>1
<1>8. \A p : V!Opening(p)' <=> V!Opening(p) \/ (kind = "open" /\ p \in V!ToSet(paths))
  BY <1>2, <1>4, <1>5, <1>6, <1>7 DEF V!Opening, ViewerKinds
<1>9. \A p : V!Dropping(p)' <=> V!Dropping(p) \/ (kind # "open" /\ p \in V!ToSet(paths))
  BY <1>2, <1>4, <1>5, <1>6, <1>7 DEF V!Dropping, ViewerKinds
<1>10. \A p : V!Leaving(p)' <=> V!Leaving(p)
  BY <1>2, <1>4, <1>6, <1>7 DEF V!Leaving
<1> QED  BY <1>1, <1>2, <1>3, <1>4, <1>5, <1>8, <1>9, <1>10

LEMMA OpenStep ==
  ASSUME ViewerInv, NEW c \in Calls, NEW paths \in Seq(Paths), paths # <<>>,
         \A i, j \in 1..Len(paths) : paths[i] = paths[j] => i = j, V!Open(c, paths)
  PROVE  ViewerInv'
<1> DEFINE left == {p \in V!ToSet(paths) : p \notin V!Listed /\ ~V!Opening(p)}
           late == {p \in V!ToSet(paths) : V!Dropping(p)}
<1>1. /\ call[c] = V!Idle /\ call' = [call EXCEPT ![c] = V!Sent("open", paths)]
      /\ clicks < MaxClicks /\ clicks' = clicks + 1
      /\ overtaken' = (overtaken \ left) \cup late
      /\ UNCHANGED <<disk, known, tokenOf, fileOf, files, selected, confirm, armed, typedFor>>
  BY DEF V!Open, V!main, V!window
<1>2. /\ call'[c] = [kind |-> "open", pc |-> "sent", todo |-> paths, results |-> <<>>, heard |-> TRUE]
      /\ \A d \in Calls \ {c} : call'[d] = call[d] /\ V!Subjects(d)' = V!Subjects(d)
      /\ call' \in [Calls -> ViewerCalls]
      /\ \A p : V!Opening(p)' <=> V!Opening(p) \/ p \in V!ToSet(paths)
      /\ \A p : V!Dropping(p)' <=> V!Dropping(p)
      /\ \A p : V!Leaving(p)' <=> V!Leaving(p)
  BY <1>1, NewCall DEF ViewerKinds
<1>3. /\ V!Listed' = V!Listed /\ \A e : Good(e)' <=> Good(e)
  BY <1>1 DEF V!Listed, Good
<1>4. \A p : p \in overtaken /\ (p \in V!Listed \/ V!Opening(p) \/ V!Dropping(p)) => p \in overtaken'
  BY <1>1
<1>5. ViewerTypeOK'
  <2>1. V!ToSet(paths) \subseteq Paths
    BY DEF V!ToSet
  <2>2. clicks' \in 0..MaxClicks
    BY <1>1, ViewerAssumption DEF ViewerInv, ViewerTypeOK
  <2> QED  BY <1>1, <1>2, <2>1, <2>2 DEF ViewerInv, ViewerTypeOK, V!EntryType, V!Names, ViewerCalls
<1>6. ViewerShape'
  <2>1. OpenShape(call'[c])
    BY <1>2 DEF OpenShape
  <2>2. \A d \in Calls \ {c} :
          /\ call'[d].kind = "none" => call'[d] = V!Idle
          /\ call'[d].kind \in {"forget", "delete"} => DropShape(call'[d])
          /\ call'[d].kind = "open" => OpenShape(call'[d])
    BY <1>2 DEF ViewerInv, ViewerShape
  <2>3. call'[c].kind = "open"
    BY <1>2
  <2>4. V!Idle' = V!Idle
    BY DEF V!Idle
  <2> QED  BY <2>1, <2>2, <2>3, <2>4 DEF ViewerShape
<1>7. OncePerPath' /\ TokensLead' /\ V!ConfirmedForSelected'
  BY <1>1 DEF ViewerInv, OncePerPath, TokensLead, V!ConfirmedForSelected
<1>8. OpenedOrDropped'
  <2> SUFFICES ASSUME NEW p \in Paths, V!Opening(p)', V!Dropping(p)'  PROVE p \in overtaken'
    BY DEF OpenedOrDropped
  <2> HIDE DEF late, left
  <2>1. CASE p \in V!ToSet(paths)
    BY <2>1, <1>1, <1>2 DEF late
  <2>2. CASE p \notin V!ToSet(paths)
    BY <2>2, <1>2, <1>4 DEF ViewerInv, OpenedOrDropped
  <2> QED  BY <2>1, <2>2
<1>9. FilesGood'
  <2> SUFFICES ASSUME NEW e \in files, e.path \notin overtaken', ~V!Leaving(e.path)'  PROVE Good(e)
    BY <1>1, <1>3 DEF FilesGood
  <2>1. e.path \in V!Listed
    BY DEF V!Listed
  <2> QED  BY <2>1, <1>2, <1>4 DEF ViewerInv, FilesGood
<1>10. ResultsGood'
  <2> SUFFICES ASSUME NEW d \in Calls, call'[d].kind = "open", NEW e \in V!ToSet(call'[d].results),
                      e.path \notin overtaken'
               PROVE  Good(e)
    BY <1>3 DEF ResultsGood
  <2>1. d # c
    BY <1>2 DEF V!ToSet
  <2>2. call'[d] = call[d]
    BY <2>1, <1>2
  <2>3. V!Opening(e.path)
    BY <2>2, CallIs
  <2> QED  BY <2>2, <2>3, <1>4 DEF ViewerInv, ResultsGood
<1>11. ReadingKnown'
  <2> SUFFICES ASSUME NEW d \in Calls, call'[d].pc = "reading"
               PROVE  call'[d].todo[1] \in known \cup overtaken'
    BY <1>1 DEF ReadingKnown
  <2>1. call'[d] = call[d]
    BY <1>2
  <2>2. call[d].todo[1] \in known \cup overtaken /\ V!Opening(call[d].todo[1])
    BY <2>1, CallIs DEF ViewerInv, ReadingKnown
  <2> QED  BY <2>1, <2>2, <1>4
<1>12. UnheardIsOvertaken'
  <2> SUFFICES ASSUME NEW d \in Calls, ~call'[d].heard
               PROVE  /\ call'[d].kind = "open" => V!Subjects(d)' \subseteq overtaken'
                      /\ call'[d].kind \in {"forget", "delete"} =>
                           call'[d].todo[1] \in overtaken' \/ call'[d].todo[1] \notin V!Listed
    BY <1>3 DEF UnheardIsOvertaken
  <2>1. call'[d] = call[d] /\ V!Subjects(d)' = V!Subjects(d)
    BY <1>2
  <2>2. CASE call[d].kind = "open"
    BY <2>1, <2>2, <1>4, CallIs DEF ViewerInv, UnheardIsOvertaken
  <2>3. CASE call[d].kind \in {"forget", "delete"}
    BY <2>1, <2>3, <1>4, CallIs DEF ViewerInv, UnheardIsOvertaken
  <2> QED  BY <2>1, <2>2, <2>3
<1>13. DroppedIsUnknown'
  <2> SUFFICES ASSUME NEW d \in Calls, call'[d].pc = "ok"
               PROVE  call'[d].todo[1] \notin known \/ call'[d].todo[1] \in overtaken'
    BY <1>1 DEF DroppedIsUnknown
  <2>1. call'[d] = call[d]
    BY <1>2
  <2> QED  BY <2>1, <1>4, CallIs DEF ViewerInv, DroppedIsUnknown
<1>14. V!KnownIsListed'
  <2> SUFFICES ASSUME NEW p \in known, p \notin overtaken', ~V!Opening(p)'  PROVE p \in V!Listed
    BY <1>1, <1>3 DEF V!KnownIsListed
  <2> HIDE DEF late
  <2>1. p \notin V!ToSet(paths) /\ ~V!Opening(p)
    BY <1>2
  <2>2. p \notin overtaken
    BY <2>1, <1>1
  <2> QED  BY <2>1, <2>2 DEF ViewerInv, V!KnownIsListed
<1> QED
  BY <1>5, <1>6, <1>7, <1>8, <1>9, <1>10, <1>11, <1>12, <1>13, <1>14 DEF ViewerInv

\* The buttons send the selected file, which is overtaken if it is being opened.
LEMMA SendStep ==
  ASSUME ViewerInv, NEW c \in Calls, NEW kind \in {"forget", "delete"}, V!Send(c, kind),
         armed' \in BOOLEAN
  PROVE  ViewerInv'
<1>1. /\ call[c] = V!Idle /\ call' = [call EXCEPT ![c] = V!Sent(kind, <<selected>>)]
      /\ clicks < MaxClicks /\ clicks' = clicks + 1 /\ selected \in V!Listed
      /\ overtaken' = IF V!Opening(selected) THEN overtaken \cup {selected} ELSE overtaken
      /\ UNCHANGED <<disk, known, tokenOf, fileOf, files, selected, confirm, typedFor>>
  BY DEF V!Send, V!main
<1>2. selected \in Paths
  BY <1>1 DEF ViewerInv, ViewerTypeOK, V!Listed, V!EntryType
<1>3. <<selected>> \in Seq(Paths) /\ V!ToSet(<<selected>>) = {selected}
  BY <1>2 DEF V!ToSet
<1>4. /\ call'[c] = [kind |-> kind, pc |-> "sent", todo |-> <<selected>>, results |-> <<>>, heard |-> TRUE]
      /\ \A d \in Calls \ {c} : call'[d] = call[d] /\ V!Subjects(d)' = V!Subjects(d)
      /\ call' \in [Calls -> ViewerCalls]
      /\ \A p : V!Opening(p)' <=> V!Opening(p)
      /\ \A p : V!Dropping(p)' <=> V!Dropping(p) \/ p = selected
      /\ \A p : V!Leaving(p)' <=> V!Leaving(p)
  <2>1. kind \in ViewerKinds /\ kind # "open"
    BY DEF ViewerKinds
  <2> DEFINE paths == <<selected>>
  <2>2. /\ paths \in Seq(Paths) /\ call[c] = V!Idle
        /\ call' = [call EXCEPT ![c] = V!Sent(kind, paths)]
        /\ \A p : p \in V!ToSet(paths) <=> p = selected
    BY <1>1, <1>3
  <2> HIDE DEF paths
  <2>3. /\ call'[c] = [kind |-> kind, pc |-> "sent", todo |-> paths, results |-> <<>>, heard |-> TRUE]
        /\ \A d \in Calls \ {c} : call'[d] = call[d] /\ V!Subjects(d)' = V!Subjects(d)
        /\ call' \in [Calls -> ViewerCalls]
        /\ \A p : V!Opening(p)' <=> V!Opening(p) \/ (kind = "open" /\ p \in V!ToSet(paths))
        /\ \A p : V!Dropping(p)' <=> V!Dropping(p) \/ (kind # "open" /\ p \in V!ToSet(paths))
        /\ \A p : V!Leaving(p)' <=> V!Leaving(p)
    BY <2>1, <2>2, NewCall
  <2> QED  BY <2>1, <2>2, <2>3 DEF paths
<1>5. /\ V!Listed' = V!Listed /\ \A e : Good(e)' <=> Good(e)
  BY <1>1 DEF V!Listed, Good
<1>6. overtaken \subseteq overtaken' /\ overtaken' \subseteq Paths
  BY <1>1, <1>2 DEF ViewerInv, ViewerTypeOK
<1>7. ViewerTypeOK'
  <2>1. clicks' \in 0..MaxClicks
    BY <1>1, ViewerAssumption DEF ViewerInv, ViewerTypeOK
  <2> QED  BY <1>1, <1>4, <1>6, <2>1 DEF ViewerInv, ViewerTypeOK, V!EntryType, V!Names, ViewerCalls
<1>8. ViewerShape'
  <2>1. DropShape(call'[c]) /\ call'[c].kind = kind
    BY <1>4 DEF DropShape
  <2>2. \A d \in Calls \ {c} :
          /\ call'[d].kind = "none" => call'[d] = V!Idle
          /\ call'[d].kind \in {"forget", "delete"} => DropShape(call'[d])
          /\ call'[d].kind = "open" => OpenShape(call'[d])
    BY <1>4 DEF ViewerInv, ViewerShape
  <2>3. V!Idle' = V!Idle
    BY DEF V!Idle
  <2> QED  BY <2>1, <2>2, <2>3 DEF ViewerShape
<1>9. OncePerPath' /\ TokensLead' /\ V!ConfirmedForSelected'
  BY <1>1 DEF ViewerInv, OncePerPath, TokensLead, V!ConfirmedForSelected
<1>10. OpenedOrDropped'
  <2> SUFFICES ASSUME NEW p \in Paths, V!Opening(p), V!Dropping(p) \/ p = selected
               PROVE  p \in overtaken'
    BY <1>4 DEF OpenedOrDropped
  <2> QED  BY <1>1, <1>6 DEF ViewerInv, OpenedOrDropped
<1>11. FilesGood'
  BY <1>1, <1>4, <1>5, <1>6 DEF ViewerInv, FilesGood
<1>12. ResultsGood'
  <2> SUFFICES ASSUME NEW d \in Calls, call'[d].kind = "open", NEW e \in V!ToSet(call'[d].results),
                      e.path \notin overtaken'
               PROVE  Good(e)
    BY <1>5 DEF ResultsGood
  <2>1. call'[d] = call[d]
    BY <1>4
  <2> QED  BY <2>1, <1>6 DEF ViewerInv, ResultsGood
<1>13. ReadingKnown'
  <2> SUFFICES ASSUME NEW d \in Calls, call'[d].pc = "reading"
               PROVE  call'[d].todo[1] \in known \cup overtaken'
    BY <1>1 DEF ReadingKnown
  <2>1. call'[d] = call[d]
    BY <1>4
  <2> QED  BY <2>1, <1>6 DEF ViewerInv, ReadingKnown
<1>14. UnheardIsOvertaken'
  <2> SUFFICES ASSUME NEW d \in Calls, ~call'[d].heard
               PROVE  /\ call'[d].kind = "open" => V!Subjects(d)' \subseteq overtaken'
                      /\ call'[d].kind \in {"forget", "delete"} =>
                           call'[d].todo[1] \in overtaken' \/ call'[d].todo[1] \notin V!Listed
    BY <1>5 DEF UnheardIsOvertaken
  <2>1. call'[d] = call[d] /\ V!Subjects(d)' = V!Subjects(d)
    BY <1>4
  <2> QED  BY <2>1, <1>6 DEF ViewerInv, UnheardIsOvertaken
<1>15. DroppedIsUnknown'
  <2> SUFFICES ASSUME NEW d \in Calls, call'[d].pc = "ok"
               PROVE  call'[d].todo[1] \notin known \/ call'[d].todo[1] \in overtaken'
    BY <1>1 DEF DroppedIsUnknown
  <2>1. call'[d] = call[d]
    BY <1>4
  <2> QED  BY <2>1, <1>6 DEF ViewerInv, DroppedIsUnknown
<1>16. V!KnownIsListed'
  BY <1>1, <1>4, <1>5, <1>6 DEF ViewerInv, V!KnownIsListed
<1> QED
  BY <1>7, <1>8, <1>9, <1>10, <1>11, <1>12, <1>13, <1>14, <1>15, <1>16 DEF ViewerInv

\* A call goes on with another pc, and what it is about stays.
LEMMA SameCall ==
  ASSUME ViewerInv, NEW c \in Calls, NEW at \in {"sent", "reading", "gone", "ok", "failed"},
         call' = [call EXCEPT ![c].pc = at]
  PROVE  /\ call' \in [Calls -> ViewerCalls]
         /\ \A d \in Calls :
              /\ call'[d].kind = call[d].kind /\ call'[d].todo = call[d].todo
              /\ call'[d].results = call[d].results /\ call'[d].heard = call[d].heard
              /\ d # c => call'[d] = call[d]
              /\ V!Subjects(d)' = V!Subjects(d)
         /\ call'[c].pc = at
         /\ \A p : (V!Opening(p)' <=> V!Opening(p)) /\ (V!Dropping(p)' <=> V!Dropping(p))
<1>1. call \in [Calls -> ViewerCalls]
  BY DEF ViewerInv, ViewerTypeOK
<1>2. /\ call'[c] = [call[c] EXCEPT !.pc = at]
      /\ \A d \in Calls \ {c} : call'[d] = call[d]
  BY <1>1
<1>3. /\ call'[c].kind = call[c].kind /\ call'[c].todo = call[c].todo
      /\ call'[c].results = call[c].results /\ call'[c].heard = call[c].heard
      /\ call'[c].pc = at /\ call'[c] \in ViewerCalls
  BY <1>1, <1>2 DEF ViewerCalls
<1>4. call' \in [Calls -> ViewerCalls]
  BY <1>1, <1>3
<1>5. \A d \in Calls : V!Subjects(d)' = V!Subjects(d)
  BY <1>2, <1>3 DEF V!Subjects
<1> QED  BY <1>2, <1>3, <1>4, <1>5, SameSubjects

\* resolveKnownFile fails, or deleting ends, well or not.
LEMMA DropGoesOn ==
  ASSUME ViewerInv, NEW c \in Calls, call[c].kind \in {"forget", "delete"}, call[c].pc = "sent",
         NEW at \in {"failed", "gone"}, call' = [call EXCEPT ![c].pc = at], disk' \subseteq Paths,
         UNCHANGED <<known, tokenOf, fileOf, files, selected, confirm, armed, overtaken,
                     typedFor, clicks>>
  PROVE  ViewerInv'
<1>1. /\ call' \in [Calls -> ViewerCalls] /\ call'[c].pc = at
      /\ \A d \in Calls :
           /\ call'[d].kind = call[d].kind /\ call'[d].todo = call[d].todo
           /\ call'[d].results = call[d].results /\ call'[d].heard = call[d].heard
           /\ d # c => call'[d] = call[d]
           /\ V!Subjects(d)' = V!Subjects(d)
      /\ \A p : (V!Opening(p)' <=> V!Opening(p)) /\ (V!Dropping(p)' <=> V!Dropping(p))
  BY SameCall
<1>2. \A p : V!Leaving(p)' <=> V!Leaving(p)
  BY <1>1 DEF V!Leaving
<1>3. /\ V!Listed' = V!Listed /\ \A e : Good(e)' <=> Good(e)
  BY DEF V!Listed, Good
<1>4. ViewerTypeOK'
  BY <1>1 DEF ViewerInv, ViewerTypeOK, V!EntryType, V!Names, ViewerCalls
<1>5. ViewerShape'
  <2>1. DropShape(call'[c]) /\ call'[c].kind \in {"forget", "delete"}
    BY <1>1 DEF DropShape, ViewerInv, ViewerShape
  <2>2. \A d \in Calls \ {c} :
          /\ call'[d].kind = "none" => call'[d] = V!Idle
          /\ call'[d].kind \in {"forget", "delete"} => DropShape(call'[d])
          /\ call'[d].kind = "open" => OpenShape(call'[d])
    BY <1>1 DEF ViewerInv, ViewerShape
  <2>3. V!Idle' = V!Idle
    BY DEF V!Idle
  <2> QED  BY <2>1, <2>2, <2>3 DEF ViewerShape
<1>6. OncePerPath' /\ TokensLead' /\ V!ConfirmedForSelected'
  BY DEF ViewerInv, OncePerPath, TokensLead, V!ConfirmedForSelected
<1>7. OpenedOrDropped' /\ FilesGood' /\ ResultsGood'
  BY <1>1, <1>2, <1>3 DEF ViewerInv, OpenedOrDropped, FilesGood, ResultsGood
<1>8. ReadingKnown' /\ DroppedIsUnknown'
  BY <1>1 DEF ViewerInv, ReadingKnown, DroppedIsUnknown
<1>9. UnheardIsOvertaken'
  BY <1>1, <1>3 DEF ViewerInv, UnheardIsOvertaken
<1>10. V!KnownIsListed'
  BY <1>1, <1>3 DEF ViewerInv, V!KnownIsListed
<1> QED  BY <1>4, <1>5, <1>6, <1>7, <1>8, <1>9, <1>10 DEF ViewerInv

\* The main process forgets a file: no other that it knows loses its token.
LEMMA DropDone ==
  ASSUME ViewerInv, NEW c \in Calls, call[c].kind \in {"forget", "delete"},
         call[c].pc \in {"sent", "gone"},
         V!ForgetKnownFile(Head(call[c].todo)), V!Answer(c, "ok"),
         UNCHANGED <<disk, files, selected, confirm, armed, overtaken, typedFor, clicks>>
  PROVE  ViewerInv'
<1> DEFINE p == call[c].todo[1]
<1>1. p \in Paths /\ Head(call[c].todo) = p /\ V!Subjects(c) = {p} /\ V!Dropping(p)
  BY CallIs
<1>2. /\ known' = known \ {p}
      /\ tokenOf' = [tokenOf EXCEPT ![p] = Nil]
      /\ fileOf' = [t \in Tokens |-> IF t = tokenOf[p] THEN Nil ELSE fileOf[t]]
  BY <1>1 DEF V!ForgetKnownFile
<1>3. /\ call' \in [Calls -> ViewerCalls] /\ call'[c].pc = "ok"
      /\ \A d \in Calls :
           /\ call'[d].kind = call[d].kind /\ call'[d].todo = call[d].todo
           /\ call'[d].results = call[d].results /\ call'[d].heard = call[d].heard
           /\ d # c => call'[d] = call[d]
           /\ V!Subjects(d)' = V!Subjects(d)
      /\ \A q : (V!Opening(q)' <=> V!Opening(q)) /\ (V!Dropping(q)' <=> V!Dropping(q))
  BY SameCall DEF V!Answer
<1>4. \A q : V!Leaving(q)' <=> V!Leaving(q) \/ q = p
  BY <1>1, <1>3 DEF V!Leaving
<1> HIDE DEF p
<1>5. V!Listed' = V!Listed
  BY DEF V!Listed
<1>6. /\ tokenOf \in [Paths -> Tokens \cup {Nil}] /\ fileOf \in [Tokens -> Paths \cup {Nil}]
      /\ tokenOf[p] # Nil => fileOf[tokenOf[p]] = p
  BY <1>1 DEF ViewerInv, ViewerTypeOK, TokensLead
<1>7. ASSUME NEW e, e.path # p, Good(e)  PROVE Good(e)'
  BY <1>2, <1>6, <1>7, ViewerAssumption DEF Good
<1>8. ViewerTypeOK'
  <2>1. tokenOf' \in [Paths -> Tokens \cup {Nil}] /\ fileOf' \in [Tokens -> Paths \cup {Nil}]
    BY <1>2, <1>6
  <2> QED  BY <1>2, <1>3, <2>1 DEF ViewerInv, ViewerTypeOK, V!EntryType, V!Names, ViewerCalls
<1>9. ViewerShape'
  <2>1. DropShape(call'[c]) /\ call'[c].kind \in {"forget", "delete"}
    BY <1>3 DEF DropShape, ViewerInv, ViewerShape
  <2>2. \A d \in Calls \ {c} :
          /\ call'[d].kind = "none" => call'[d] = V!Idle
          /\ call'[d].kind \in {"forget", "delete"} => DropShape(call'[d])
          /\ call'[d].kind = "open" => OpenShape(call'[d])
    BY <1>3 DEF ViewerInv, ViewerShape
  <2>3. V!Idle' = V!Idle
    BY DEF V!Idle
  <2> QED  BY <2>1, <2>2, <2>3 DEF ViewerShape
<1>10. OncePerPath' /\ V!ConfirmedForSelected'
  BY DEF ViewerInv, OncePerPath, V!ConfirmedForSelected
<1>11. TokensLead'
  <2> SUFFICES ASSUME NEW q \in Paths, tokenOf'[q] # Nil  PROVE fileOf'[tokenOf'[q]] = q
    BY DEF TokensLead
  <2>1. q # p /\ tokenOf'[q] = tokenOf[q]
    BY <1>2, <1>6
  <2>2. tokenOf[q] \in Tokens /\ fileOf[tokenOf[q]] = q
    BY <2>1, <1>6 DEF ViewerInv, TokensLead
  <2> QED  BY <2>1, <2>2, <1>2, <1>6
<1>12. OpenedOrDropped'
  BY <1>3 DEF ViewerInv, OpenedOrDropped
<1>13. FilesGood'
  BY <1>4, <1>7 DEF ViewerInv, FilesGood
<1>14. \A q \in Paths : V!Opening(q) /\ q \notin overtaken => q # p
  BY <1>1 DEF ViewerInv, OpenedOrDropped
<1>15. ResultsGood'
  <2> SUFFICES ASSUME NEW d \in Calls, call'[d].kind = "open", NEW e \in V!ToSet(call'[d].results),
                      e.path \notin overtaken
               PROVE  Good(e)'
    BY DEF ResultsGood
  <2>1. call[d].kind = "open" /\ e \in V!ToSet(call[d].results)
    BY <1>3
  <2>2. V!Opening(e.path) /\ e.path \in Paths
    BY <2>1, CallIs
  <2>3. Good(e) /\ e.path # p
    BY <2>1, <2>2, <1>14 DEF ViewerInv, ResultsGood
  <2> QED  BY <2>3, <1>7
<1>16. ReadingKnown'
  <2> SUFFICES ASSUME NEW d \in Calls, call'[d].pc = "reading", call'[d].todo[1] \notin overtaken
               PROVE  call'[d].todo[1] \in known'
    BY DEF ReadingKnown
  <2>1. call'[d] = call[d]
    BY <1>3
  <2>2. call[d].todo[1] \in known /\ V!Opening(call[d].todo[1]) /\ call[d].todo[1] \in Paths
    BY <2>1, CallIs DEF ViewerInv, ReadingKnown
  <2> QED  BY <2>1, <2>2, <1>2, <1>14
<1>17. UnheardIsOvertaken'
  BY <1>3, <1>5 DEF ViewerInv, UnheardIsOvertaken
<1>18. DroppedIsUnknown'
  BY <1>2, <1>3 DEF ViewerInv, DroppedIsUnknown, p
<1>19. V!KnownIsListed'
  BY <1>2, <1>3, <1>5 DEF ViewerInv, V!KnownIsListed
<1> QED
  BY <1>8, <1>9, <1>10, <1>11, <1>12, <1>13, <1>15, <1>16, <1>17, <1>18, <1>19 DEF ViewerInv

\* realpath and stat succeed: the file is known from now on.
LEMMA AnalysisStartsStep ==
  ASSUME ViewerInv, NEW c \in Calls, V!AnalysisStarts(c)
  PROVE  ViewerInv'
<1> DEFINE p == call[c].todo[1]
<1>1. /\ call[c].kind = "open" /\ call[c].pc = "sent" /\ call[c].todo # <<>>
      /\ Head(call[c].todo) \in disk
      /\ known' = known \cup {Head(call[c].todo)}
      /\ call' = [call EXCEPT ![c].pc = "reading"]
      /\ UNCHANGED <<disk, tokenOf, fileOf, files, selected, confirm, armed, overtaken,
                     typedFor, clicks>>
  BY DEF V!AnalysisStarts, V!window, V!history
<1>2. call[c].todo \in Seq(Paths)
  BY CallIs DEF ViewerCalls
<1>3. p \in Paths /\ Head(call[c].todo) = p /\ V!Opening(p)
  BY <1>1, <1>2, CallIs
<1>4. known' = known \cup {p}
  BY <1>1, <1>3
<1>5. /\ call' \in [Calls -> ViewerCalls] /\ call'[c].pc = "reading"
      /\ \A d \in Calls :
           /\ call'[d].kind = call[d].kind /\ call'[d].todo = call[d].todo
           /\ call'[d].results = call[d].results /\ call'[d].heard = call[d].heard
           /\ d # c => call'[d] = call[d]
           /\ V!Subjects(d)' = V!Subjects(d)
      /\ \A q : (V!Opening(q)' <=> V!Opening(q)) /\ (V!Dropping(q)' <=> V!Dropping(q))
  BY <1>1, SameCall
<1>6. \A q : V!Leaving(q)' <=> V!Leaving(q)
  BY <1>1, <1>5 DEF V!Leaving
<1>7. V!Listed' = V!Listed /\ \A e : Good(e) => Good(e)'
  BY <1>1, <1>4 DEF V!Listed, Good
<1>8. ViewerTypeOK'
  BY <1>1, <1>3, <1>4, <1>5 DEF ViewerInv, ViewerTypeOK, V!EntryType, V!Names, ViewerCalls
<1>9. ViewerShape'
  <2>1. OpenShape(call'[c]) /\ call'[c].kind = "open"
    BY <1>1, <1>5 DEF OpenShape, ViewerInv, ViewerShape
  <2>2. \A d \in Calls \ {c} :
          /\ call'[d].kind = "none" => call'[d] = V!Idle
          /\ call'[d].kind \in {"forget", "delete"} => DropShape(call'[d])
          /\ call'[d].kind = "open" => OpenShape(call'[d])
    BY <1>5 DEF ViewerInv, ViewerShape
  <2>3. V!Idle' = V!Idle
    BY DEF V!Idle
  <2> QED  BY <2>1, <2>2, <2>3 DEF ViewerShape
<1>10. OncePerPath' /\ TokensLead' /\ V!ConfirmedForSelected'
  BY <1>1 DEF ViewerInv, OncePerPath, TokensLead, V!ConfirmedForSelected
<1> HIDE DEF p
<1>11. OpenedOrDropped' /\ FilesGood'
  BY <1>1, <1>5, <1>6, <1>7 DEF ViewerInv, OpenedOrDropped, FilesGood
<1>12. ResultsGood'
  <2> SUFFICES ASSUME NEW d \in Calls, call'[d].kind = "open", NEW e \in V!ToSet(call'[d].results),
                      e.path \notin overtaken
               PROVE  Good(e)'
    BY <1>1 DEF ResultsGood
  <2>1. call[d].kind = "open" /\ e \in V!ToSet(call[d].results)
    BY <1>5
  <2>2. Good(e)
    BY <2>1 DEF ViewerInv, ResultsGood
  <2> QED  BY <2>2, <1>7
<1>13. ReadingKnown'
  <2> SUFFICES ASSUME NEW d \in Calls, call'[d].pc = "reading"
               PROVE  call'[d].todo[1] \in known' \cup overtaken
    BY <1>1 DEF ReadingKnown
  <2>1. CASE d = c
    BY <2>1, <1>4, <1>5 DEF p
  <2>2. CASE d # c
    BY <2>2, <1>4, <1>5 DEF ViewerInv, ReadingKnown
  <2> QED  BY <2>1, <2>2
<1>14. UnheardIsOvertaken'
  BY <1>1, <1>5, <1>7 DEF ViewerInv, UnheardIsOvertaken
<1>15. DroppedIsUnknown'
  <2> SUFFICES ASSUME NEW d \in Calls, call'[d].pc = "ok", call'[d].todo[1] \in known'
               PROVE  call'[d].todo[1] \in overtaken
    BY <1>1 DEF DroppedIsUnknown
  <2>1. d # c /\ call'[d] = call[d]
    BY <1>5
  <2>2. V!Dropping(call[d].todo[1]) /\ call[d].todo[1] \in Paths
    BY <2>1, CallIs
  <2>3. CASE call[d].todo[1] = p
    BY <2>1, <2>2, <2>3, <1>3 DEF ViewerInv, OpenedOrDropped
  <2>4. CASE call[d].todo[1] # p
    BY <2>1, <2>4, <1>4 DEF ViewerInv, DroppedIsUnknown
  <2> QED  BY <2>3, <2>4
<1>16. V!KnownIsListed'
  BY <1>1, <1>3, <1>4, <1>5, <1>7 DEF ViewerInv, V!KnownIsListed
<1> QED
  BY <1>8, <1>9, <1>10, <1>11, <1>12, <1>13, <1>14, <1>15, <1>16 DEF ViewerInv

\* A file of a request is through: it moves from what is to do to the results.
LEMMA AnalysedMoves ==
  ASSUME ViewerInv, NEW c \in Calls, call[c].kind = "open", call[c].todo # <<>>,
         NEW e \in V!EntryType, e.path = Head(call[c].todo), V!Analysed(c, e)
  PROVE  /\ call' \in [Calls -> ViewerCalls] /\ ViewerShape'
         /\ \A d \in Calls :
              /\ call'[d].kind = call[d].kind /\ call'[d].heard = call[d].heard
              /\ d # c => call'[d] = call[d]
              /\ V!Subjects(d)' = V!Subjects(d)
         /\ call'[c].pc = "sent"
         /\ V!ToSet(call'[c].results) = V!ToSet(call[c].results) \cup {e}
         /\ \A q : (V!Opening(q)' <=> V!Opening(q)) /\ (V!Dropping(q)' <=> V!Dropping(q))
         /\ \A q : V!Leaving(q)' <=> V!Leaving(q)
<1> DEFINE todo == call[c].todo
           done == call[c].results
<1>1. call \in [Calls -> ViewerCalls] /\ call[c] \in ViewerCalls
  BY DEF ViewerInv, ViewerTypeOK
<1>2. todo \in Seq(Paths) /\ done \in Seq(V!EntryType) /\ todo # <<>>
  BY <1>1 DEF ViewerCalls
<1>3. /\ call'[c] = [call[c] EXCEPT !.pc = "sent", !.todo = Tail(todo), !.results = Append(done, e)]
      /\ \A d \in Calls \ {c} : call'[d] = call[d]
  BY <1>1 DEF V!Analysed
<1>4. /\ call'[c].kind = "open" /\ call'[c].pc = "sent" /\ call'[c].todo = Tail(todo)
      /\ call'[c].results = Append(done, e) /\ call'[c].heard = call[c].heard
  BY <1>1, <1>3 DEF ViewerCalls
<1>5. OpenShape(call[c])
  BY DEF ViewerInv, ViewerShape
<1> HIDE DEF todo, done
<1>6. /\ Tail(todo) \in Seq(Paths) /\ Append(done, e) \in Seq(V!EntryType)
      /\ Len(Tail(todo)) = Len(todo) - 1 /\ Len(todo) \in Nat /\ Len(todo) > 0
      /\ \A i \in 1..Len(Tail(todo)) : Tail(todo)[i] = todo[i + 1]
      /\ Head(todo) = todo[1]
  BY <1>2, HeadTailProperties, AppendProperties, EmptySeq
<1>7. /\ Len(Append(done, e)) = Len(done) + 1 /\ Len(done) \in Nat
      /\ \A i \in 1..Len(done) : Append(done, e)[i] = done[i]
      /\ Append(done, e)[Len(done) + 1] = e
  BY <1>2
<1>8. call' \in [Calls -> ViewerCalls]
  <2>1. call'[c] \in ViewerCalls
    <3>1. call'[c] = [kind |-> "open", pc |-> "sent", todo |-> Tail(todo),
                      results |-> Append(done, e), heard |-> call[c].heard]
      BY <1>1, <1>3 DEF ViewerCalls, todo, done
    <3>2. call[c].heard \in BOOLEAN
      BY <1>1 DEF ViewerCalls
    <3> QED  BY <3>1, <3>2, <1>6 DEF ViewerCalls, ViewerKinds
  <2> QED  BY <1>1, <1>3, <2>1 DEF V!Analysed
<1>9. /\ \A i, j \in 1..Len(todo) : todo[i] = todo[j] => i = j
      /\ \A i, j \in 1..Len(done) : done[i].path = done[j].path => i = j
      /\ \A i \in 1..Len(todo), j \in 1..Len(done) : todo[i] # done[j].path
  BY <1>5 DEF OpenShape, todo, done
<1>10. OpenShape(call'[c])
  <2>1. ASSUME NEW i \in 1..Len(Tail(todo)), NEW j \in 1..Len(Tail(todo)), Tail(todo)[i] = Tail(todo)[j]
        PROVE  i = j
    BY <2>1, <1>6, <1>9
  <2>2. ASSUME NEW i \in 1..Len(done) + 1, NEW j \in 1..Len(done) + 1,
               Append(done, e)[i].path = Append(done, e)[j].path
        PROVE  i = j
    <3>1. e.path = todo[1] /\ 1 \in 1..Len(todo)
      BY <1>6 DEF todo
    <3>2. \A k \in 1..Len(done) : Append(done, e)[k].path # e.path
      BY <3>1, <1>7, <1>9
    <3>3. CASE i = Len(done) + 1 \/ j = Len(done) + 1
      BY <3>2, <3>3, <2>2, <1>7
    <3>4. CASE i # Len(done) + 1 /\ j # Len(done) + 1
      BY <3>4, <2>2, <1>7, <1>9
    <3> QED  BY <3>3, <3>4
  <2>3. ASSUME NEW i \in 1..Len(Tail(todo)), NEW j \in 1..Len(done) + 1
        PROVE  Tail(todo)[i] # Append(done, e)[j].path
    <3>1. i + 1 \in 1..Len(todo) /\ Tail(todo)[i] = todo[i + 1] /\ 1 \in 1..Len(todo)
      BY <1>6
    <3>2. CASE j = Len(done) + 1
      <4>1. Append(done, e)[j].path = todo[1]
        BY <3>2, <1>6, <1>7 DEF todo
      <4> QED  BY <3>1, <4>1, <1>9
    <3>3. CASE j # Len(done) + 1
      BY <3>1, <3>3, <1>7, <1>9
    <3> QED  BY <3>2, <3>3
  <2>4. call'[c].results # <<>>
    BY <1>4, <1>6, <1>7
  <2> QED  BY <1>4, <1>7, <2>1, <2>2, <2>3, <2>4 DEF OpenShape, todo, done
<1>11. ViewerShape'
  <2>1. \A d \in Calls \ {c} :
          /\ call'[d].kind = "none" => call'[d] = V!Idle
          /\ call'[d].kind \in {"forget", "delete"} => DropShape(call'[d])
          /\ call'[d].kind = "open" => OpenShape(call'[d])
    BY <1>3 DEF ViewerInv, ViewerShape
  <2>2. V!Idle' = V!Idle
    BY DEF V!Idle
  <2> QED  BY <1>4, <1>10, <2>1, <2>2 DEF ViewerShape
<1>12. V!ToSet(Append(done, e)) = V!ToSet(done) \cup {e}
  <2>1. /\ V!ToSet(Append(done, e)) = {Append(done, e)[i] : i \in 1..Len(done) + 1}
        /\ V!ToSet(done) = {done[i] : i \in 1..Len(done)}
    BY <1>2, <1>6, <1>7 DEF V!ToSet
  <2>2. 1..Len(done) + 1 = (1..Len(done)) \cup {Len(done) + 1}
    BY <1>7
  <2> HIDE DEF V!ToSet
  <2>3. \A x \in V!ToSet(Append(done, e)) : x \in V!ToSet(done) \cup {e}
    BY <2>1, <2>2, <1>7
  <2>4. \A x \in V!ToSet(done) \cup {e} : x \in V!ToSet(Append(done, e))
    BY <2>1, <2>2, <1>7
  <2> QED  BY <2>3, <2>4
<1>13. V!ToSet(todo) = V!ToSet(Tail(todo)) \cup {e.path}
  <2>1. /\ V!ToSet(todo) = {todo[i] : i \in 1..Len(todo)}
        /\ V!ToSet(Tail(todo)) = {Tail(todo)[i] : i \in 1..Len(Tail(todo))}
    <3>1. \A s \in Seq(Paths) : V!ToSet(s) = {s[i] : i \in 1..Len(s)}
      BY DEF V!ToSet
    <3> QED  BY <1>2, <1>6, <3>1
  <2> HIDE DEF V!ToSet
  <2>2. e.path = todo[1]
    BY <1>6 DEF todo
  <2>3. ASSUME NEW i \in 1..Len(todo)  PROVE todo[i] \in V!ToSet(Tail(todo)) \cup {e.path}
    <3>1. CASE i = 1
      BY <3>1, <2>2
    <3>2. CASE i # 1
      <4>1. i - 1 \in 1..Len(Tail(todo)) /\ Tail(todo)[i - 1] = todo[(i - 1) + 1] /\ (i - 1) + 1 = i
        BY <3>2, <1>6
      <4> QED  BY <4>1, <2>1
    <3> QED  BY <3>1, <3>2
  <2>4. ASSUME NEW i \in 1..Len(Tail(todo))  PROVE Tail(todo)[i] \in V!ToSet(todo)
    BY <2>1, <1>6
  <2>5. e.path \in V!ToSet(todo)
    BY <2>1, <2>2, <1>6
  <2> QED  BY <2>1, <2>3, <2>4, <2>5
<1>14. V!Subjects(c)' = V!Subjects(c)
  <2> DEFINE S1 == V!ToSet(Tail(todo))
             S2 == V!ToSet(done)
  <2>1. V!Subjects(c)' = V!ToSet(Tail(todo)) \cup {f.path : f \in V!ToSet(Append(done, e))}
    BY <1>4 DEF V!Subjects
  <2>2. V!Subjects(c) = V!ToSet(todo) \cup {f.path : f \in V!ToSet(done)}
    BY DEF V!Subjects, todo, done
  <2>3. V!Subjects(c)' = S1 \cup {f.path : f \in S2 \cup {e}}
    BY <2>1, <1>12
  <2>4. V!Subjects(c) = S1 \cup {e.path} \cup {f.path : f \in S2}
    BY <2>2, <1>13
  <2> HIDE DEF S1, S2
  <2>5. {f.path : f \in S2 \cup {e}} = {e.path} \cup {f.path : f \in S2}
    OBVIOUS
  <2> QED  BY <2>3, <2>4, <2>5
<1>15. \A d \in Calls : V!Subjects(d)' = V!Subjects(d)
  <2>1. ASSUME NEW d \in Calls, d # c  PROVE V!Subjects(d)' = V!Subjects(d)
    BY <2>1, <1>3 DEF V!Subjects
  <2> QED  BY <2>1, <1>14
<1>16. \A d \in Calls :
         /\ call'[d].kind = call[d].kind /\ call'[d].heard = call[d].heard
         /\ d # c => call'[d] = call[d]
  BY <1>3, <1>4
<1>17. \A q : (V!Opening(q)' <=> V!Opening(q)) /\ (V!Dropping(q)' <=> V!Dropping(q))
  BY <1>15, <1>16, SameSubjects
<1>18. \A q : V!Leaving(q)' <=> V!Leaving(q)
  <2>1. call[c].pc # "ok" /\ call'[c].pc # "ok"
    BY <1>4, <1>5 DEF OpenShape
  <2> QED  BY <2>1, <1>15, <1>16 DEF V!Leaving
<1> QED  BY <1>4, <1>8, <1>11, <1>12, <1>15, <1>16, <1>17, <1>18 DEF done

\* What a file that is through needs: its entry promises what it may, and no
\* other promise is broken.
LEMMA AnalysedStep ==
  ASSUME ViewerInv, NEW c \in Calls, call[c].kind = "open", call[c].todo # <<>>,
         NEW e \in V!EntryType, e.path = Head(call[c].todo), V!Analysed(c, e),
         e.path \notin overtaken => Good(e)',
         \A f : Good(f) => Good(f)',
         tokenOf' \in [Paths -> Tokens \cup {Nil}], fileOf' \in [Tokens -> Paths \cup {Nil}],
         TokensLead',
         UNCHANGED <<disk, known, files, selected, confirm, armed, overtaken, typedFor, clicks>>
  PROVE  ViewerInv'
<1>1. /\ call' \in [Calls -> ViewerCalls] /\ ViewerShape'
      /\ \A d \in Calls :
           /\ call'[d].kind = call[d].kind /\ call'[d].heard = call[d].heard
           /\ d # c => call'[d] = call[d]
           /\ V!Subjects(d)' = V!Subjects(d)
      /\ call'[c].pc = "sent"
      /\ V!ToSet(call'[c].results) = V!ToSet(call[c].results) \cup {e}
      /\ \A q : (V!Opening(q)' <=> V!Opening(q)) /\ (V!Dropping(q)' <=> V!Dropping(q))
      /\ \A q : V!Leaving(q)' <=> V!Leaving(q)
  BY AnalysedMoves
<1>2. V!Listed' = V!Listed
  BY DEF V!Listed
<1>3. ViewerTypeOK'
  BY <1>1 DEF ViewerInv, ViewerTypeOK, V!EntryType, V!Names, ViewerCalls
<1>4. OncePerPath' /\ V!ConfirmedForSelected' /\ OpenedOrDropped'
  BY <1>1 DEF ViewerInv, OncePerPath, V!ConfirmedForSelected, OpenedOrDropped
<1>5. FilesGood'
  BY <1>1 DEF ViewerInv, FilesGood
<1>6. ResultsGood'
  <2> SUFFICES ASSUME NEW d \in Calls, call'[d].kind = "open", NEW f \in V!ToSet(call'[d].results),
                      f.path \notin overtaken
               PROVE  Good(f)'
    BY DEF ResultsGood
  <2>1. CASE f \in V!ToSet(call[d].results)
    BY <2>1, <1>1 DEF ViewerInv, ResultsGood
  <2>2. CASE f \notin V!ToSet(call[d].results)
    <3>1. f = e
      BY <2>2, <1>1
    <3> QED  BY <3>1
  <2> QED  BY <2>1, <2>2
<1>7. ReadingKnown' /\ DroppedIsUnknown'
  BY <1>1 DEF ViewerInv, ReadingKnown, DroppedIsUnknown
<1>8. UnheardIsOvertaken'
  <2> SUFFICES ASSUME NEW d \in Calls, ~call'[d].heard
               PROVE  /\ call'[d].kind = "open" => V!Subjects(d)' \subseteq overtaken
                      /\ call'[d].kind \in {"forget", "delete"} =>
                           call'[d].todo[1] \in overtaken \/ call'[d].todo[1] \notin V!Listed
    BY <1>2 DEF UnheardIsOvertaken
  <2>1. CASE d = c
    BY <2>1, <1>1 DEF ViewerInv, UnheardIsOvertaken
  <2>2. CASE d # c
    BY <2>2, <1>1 DEF ViewerInv, UnheardIsOvertaken
  <2> QED  BY <2>1, <2>2
<1>9. V!KnownIsListed'
  BY <1>1, <1>2 DEF ViewerInv, V!KnownIsListed
<1> QED  BY <1>1, <1>3, <1>4, <1>5, <1>6, <1>7, <1>8, <1>9 DEF ViewerInv

LEMMA HeadOfTodo ==
  ASSUME ViewerInv, NEW c \in Calls, call[c].todo # <<>>
  PROVE  Head(call[c].todo) \in Paths /\ Head(call[c].todo) = call[c].todo[1]
BY CallIs DEF ViewerCalls

LEMMA AnalysisFailsStep ==
  ASSUME ViewerInv, NEW c \in Calls, V!AnalysisFails(c)
  PROVE  ViewerInv'
<1> DEFINE e == V!Entry(Head(call[c].todo), FALSE, Nil)
<1>1. /\ call[c].kind = "open" /\ call[c].todo # <<>> /\ V!Analysed(c, e)
      /\ UNCHANGED <<disk, known, tokenOf, fileOf, files, selected, confirm, armed, overtaken,
                     typedFor, clicks>>
  BY DEF V!AnalysisFails, V!main, V!window, V!history
<1>2. e \in V!EntryType /\ e.path = Head(call[c].todo) /\ ~e.ok
  BY <1>1, HeadOfTodo DEF V!Entry, V!EntryType
<1>3. \A f : Good(f) => Good(f)'
  BY <1>1 DEF Good
<1>4. TokensLead'
  BY <1>1 DEF ViewerInv, TokensLead
<1>5. /\ tokenOf' \in [Paths -> Tokens \cup {Nil}] /\ fileOf' \in [Tokens -> Paths \cup {Nil}]
  BY <1>1 DEF ViewerInv, ViewerTypeOK
<1>6. \A f : ~f.ok => Good(f)'
  BY DEF Good
<1> HIDE DEF e
<1>7. \A f \in V!EntryType : f = e => ViewerInv'
  BY <1>1, <1>2, <1>3, <1>4, <1>5, <1>6, AnalysedStep
<1> QED  BY <1>2, <1>7

\* A preview URL is one that leads to the file.
LEMMA PreviewUrlLeads ==
  ASSUME ViewerInv, NEW p \in Paths, NEW t \in Tokens, V!PreviewUrl(p, t)
  PROVE  /\ tokenOf' \in [Paths -> Tokens \cup {Nil}] /\ fileOf' \in [Tokens -> Paths \cup {Nil}]
         /\ fileOf'[t] = p /\ TokensLead'
         /\ \A u \in Tokens : fileOf[u] # Nil => fileOf'[u] = fileOf[u]
<1>1. tokenOf \in [Paths -> Tokens \cup {Nil}] /\ fileOf \in [Tokens -> Paths \cup {Nil}] /\ TokensLead
  BY DEF ViewerInv, ViewerTypeOK
<1>2. CASE tokenOf[p] # Nil
  BY <1>1, <1>2 DEF V!PreviewUrl, TokensLead
<1>3. CASE tokenOf[p] = Nil
  <2>1. /\ tokenOf' = [tokenOf EXCEPT ![p] = t] /\ fileOf' = [fileOf EXCEPT ![t] = p]
        /\ fileOf[t] = Nil
    BY <1>3 DEF V!PreviewUrl, V!FreshToken, V!NewToken
  <2>2. ASSUME NEW q \in Paths, tokenOf'[q] # Nil  PROVE fileOf'[tokenOf'[q]] = q
    <3>1. CASE q = p
      BY <3>1, <2>1, <1>1
    <3>2. CASE q # p
      <4>1. tokenOf'[q] = tokenOf[q] /\ tokenOf[q] \in Tokens /\ fileOf[tokenOf[q]] = q
        BY <2>1, <2>2, <3>2, <1>1 DEF TokensLead
      <4>2. tokenOf[q] # t
        BY <4>1, <2>1, ViewerAssumption
      <4> QED  BY <4>1, <4>2, <2>1, <1>1
    <3> QED  BY <3>1, <3>2
  <2> QED  BY <2>1, <2>2, <1>1 DEF TokensLead
<1> QED  BY <1>2, <1>3

LEMMA AnalysisDoneStep ==
  ASSUME ViewerInv, NEW c \in Calls, V!AnalysisDone(c)
  PROVE  ViewerInv'
<1> DEFINE p == Head(call[c].todo)
<1>1. PICK t \in Tokens : V!PreviewUrl(p, t) /\ V!Analysed(c, V!Entry(p, TRUE, t))
  BY DEF V!AnalysisDone
<1> DEFINE e == V!Entry(p, TRUE, t)
<1>2. /\ call[c].pc = "reading" /\ call[c].kind = "open"
      /\ UNCHANGED <<disk, known, files, selected, confirm, armed, overtaken, typedFor, clicks>>
  BY CallIs DEF V!AnalysisDone, V!window, V!history
<1>3. call[c].todo # <<>>
  BY <1>2 DEF ViewerInv, ViewerShape, OpenShape
<1>4. p \in Paths /\ p = call[c].todo[1]
  BY <1>3, HeadOfTodo
<1>5. p \in known \cup overtaken
  BY <1>2, <1>4 DEF ViewerInv, ReadingKnown
<1> HIDE DEF p
<1>6. e \in V!EntryType /\ e.path = p /\ e.ok = TRUE /\ e.token = t
  BY <1>4 DEF V!Entry, V!EntryType
<1> HIDE DEF e
<1>7. /\ tokenOf' \in [Paths -> Tokens \cup {Nil}] /\ fileOf' \in [Tokens -> Paths \cup {Nil}]
      /\ fileOf'[t] = p /\ TokensLead'
      /\ \A u \in Tokens : fileOf[u] # Nil => fileOf'[u] = fileOf[u]
  BY <1>1, <1>4, PreviewUrlLeads
<1>8. \A f : f.path \in known /\ f.token \in Tokens /\ fileOf'[f.token] = f.path => Good(f)'
  BY <1>2 DEF Good
<1>9. ASSUME NEW f, Good(f)  PROVE Good(f)'
  <2>1. CASE f.ok
    <3>1. f.path \in known /\ f.token \in Tokens /\ fileOf[f.token] = f.path /\ f.path # Nil
      BY <2>1, <1>9, ViewerAssumption DEF Good, ViewerInv, ViewerTypeOK
    <3> QED  BY <3>1, <1>7, <1>8
  <2>2. CASE ~f.ok
    BY <2>2 DEF Good
  <2> QED  BY <2>1, <2>2
<1>10. ASSUME NEW f \in V!EntryType, f = e  PROVE ViewerInv'
  <2>1. f.path = p /\ f.token = t
    BY <1>6, <1>10
  <2>2. f.path \notin overtaken => Good(f)'
    BY <2>1, <1>5, <1>7, <1>8
  <2>3. f.path = Head(call[c].todo) /\ V!Analysed(c, f)
    BY <2>1, <1>1, <1>10 DEF p, e
  <2> QED  BY <2>2, <2>3, <1>2, <1>3, <1>7, <1>9, AnalysedStep
<1> QED  BY <1>6, <1>10

\* A call comes back: what it opened or dropped is no longer under way.
LEMMA CallEnds ==
  ASSUME ViewerInv, NEW c \in Calls, call' = [call EXCEPT ![c] = V!Idle]
  PROVE  /\ call' \in [Calls -> ViewerCalls] /\ ViewerShape'
         /\ call'[c] = V!Idle /\ V!Idle.kind = "none" /\ V!Idle.pc = "idle"
         /\ \A d \in Calls \ {c} : call'[d] = call[d] /\ V!Subjects(d)' = V!Subjects(d)
         /\ \A q : /\ V!Opening(q)' => V!Opening(q)
                   /\ V!Opening(q) => V!Opening(q)' \/ (call[c].kind = "open" /\ q \in V!Subjects(c))
                   /\ V!Dropping(q)' => V!Dropping(q)
                   /\ V!Leaving(q) => V!Leaving(q)' \/ (call[c].pc = "ok" /\ q \in V!Subjects(c))
<1>1. /\ call'[c] = V!Idle /\ V!Idle.kind = "none" /\ V!Idle.pc = "idle"
      /\ \A d \in Calls \ {c} : call'[d] = call[d]
  BY DEF ViewerInv, ViewerTypeOK, V!Idle
<1>2. \A d \in Calls \ {c} : V!Subjects(d)' = V!Subjects(d)
  BY <1>1 DEF V!Subjects
<1>3. V!Idle \in ViewerCalls
  <2>1. \A T : <<>> \in Seq(T)
    BY EmptySeq
  <2> DEFINE none == <<>>
             pcs  == {"idle", "sent", "reading", "gone", "ok", "failed"}
  <2>2. "idle" \in pcs /\ FALSE \in BOOLEAN /\ none \in Seq(V!EntryType) /\ none \in Seq(Paths)
    BY <2>1
  <2> HIDE DEF none, pcs
  <2>3. [kind |-> "none", pc |-> "idle", todo |-> none, results |-> none, heard |-> FALSE]
          \in [kind : {"none"} \cup ViewerKinds, pc : pcs, todo : Seq(Paths),
               results : Seq(V!EntryType), heard : BOOLEAN]
    BY <2>2
  <2> QED  BY <2>3 DEF V!Idle, ViewerCalls, none, pcs
<1>4. call' \in [Calls -> ViewerCalls]
  BY <1>3 DEF ViewerInv, ViewerTypeOK
<1>5. ViewerShape'
  <2>1. \A d \in Calls \ {c} :
          /\ call'[d].kind = "none" => call'[d] = V!Idle
          /\ call'[d].kind \in {"forget", "delete"} => DropShape(call'[d])
          /\ call'[d].kind = "open" => OpenShape(call'[d])
    BY <1>1 DEF ViewerInv, ViewerShape
  <2>2. V!Idle' = V!Idle
    BY DEF V!Idle
  <2> QED  BY <1>1, <2>1, <2>2 DEF ViewerShape
<1>6. \A q : V!Opening(q)' => V!Opening(q)
  BY <1>1, <1>2 DEF V!Opening
<1>7. \A q : V!Opening(q) => V!Opening(q)' \/ (call[c].kind = "open" /\ q \in V!Subjects(c))
  BY <1>1, <1>2 DEF V!Opening
<1>8. \A q : V!Dropping(q)' => V!Dropping(q)
  BY <1>1, <1>2 DEF V!Dropping
<1>9. \A q : V!Leaving(q) => V!Leaving(q)' \/ (call[c].pc = "ok" /\ q \in V!Subjects(c))
  BY <1>1, <1>2 DEF V!Leaving
<1> QED  BY <1>1, <1>2, <1>4, <1>5, <1>6, <1>7, <1>8, <1>9

\* What a call that ends leaves of the invariant, whatever happens to the list.
LEMMA RestAfterCall ==
  ASSUME ViewerInv, NEW c \in Calls, call' = [call EXCEPT ![c] = V!Idle],
         UNCHANGED <<disk, known, tokenOf, fileOf, overtaken, clicks>>
  PROVE  /\ \A e : Good(e)' <=> Good(e)
         /\ TokensLead' /\ OpenedOrDropped' /\ ResultsGood' /\ ReadingKnown' /\ DroppedIsUnknown'
<1>1. /\ call'[c] = V!Idle /\ V!Idle.kind = "none" /\ V!Idle.pc = "idle"
      /\ \A d \in Calls \ {c} : call'[d] = call[d]
      /\ \A q : (V!Opening(q)' => V!Opening(q)) /\ (V!Dropping(q)' => V!Dropping(q))
  BY CallEnds
<1>2. \A e : Good(e)' <=> Good(e)
  BY DEF Good
<1>3. TokensLead' /\ OpenedOrDropped'
  BY <1>1 DEF ViewerInv, TokensLead, OpenedOrDropped
<1>4. ReadingKnown' /\ DroppedIsUnknown'
  BY <1>1 DEF ViewerInv, ReadingKnown, DroppedIsUnknown
<1>5. ResultsGood'
  <2> SUFFICES ASSUME NEW d \in Calls, call'[d].kind = "open", NEW f \in V!ToSet(call'[d].results),
                      f.path \notin overtaken
               PROVE  Good(f)
    BY <1>2 DEF ResultsGood
  <2>1. call'[d] = call[d]
    BY <1>1
  <2> QED  BY <2>1 DEF ViewerInv, ResultsGood
<1> QED  BY <1>2, <1>3, <1>4, <1>5

LEMMA OpenReturnsStep ==
  ASSUME ViewerInv, NEW c \in Calls, V!OpenReturns(c)
  PROVE  ViewerInv'
<1> DEFINE new == V!ToSet(call[c].results)
<1>1. /\ call[c].kind = "open" /\ call[c].todo = <<>>
      /\ call' = [call EXCEPT ![c] = V!Idle]
      /\ UNCHANGED <<disk, known, tokenOf, fileOf, overtaken, clicks>>
  BY DEF V!OpenReturns, V!main
<1>2. /\ call' \in [Calls -> ViewerCalls] /\ ViewerShape'
      /\ call'[c] = V!Idle /\ V!Idle.kind = "none" /\ V!Idle.pc = "idle"
      /\ \A d \in Calls \ {c} : call'[d] = call[d] /\ V!Subjects(d)' = V!Subjects(d)
      /\ \A q : /\ V!Opening(q)' => V!Opening(q)
                /\ V!Opening(q) => V!Opening(q)' \/ (call[c].kind = "open" /\ q \in V!Subjects(c))
                /\ V!Dropping(q)' => V!Dropping(q)
                /\ V!Leaving(q) => V!Leaving(q)' \/ (call[c].pc = "ok" /\ q \in V!Subjects(c))
  BY <1>1, CallEnds
<1>3. /\ \A e : Good(e)' <=> Good(e)
      /\ TokensLead' /\ OpenedOrDropped' /\ ResultsGood' /\ ReadingKnown' /\ DroppedIsUnknown'
  BY <1>1, RestAfterCall
<1>4. call[c].pc # "ok" /\ OpenShape(call[c])
  BY <1>1 DEF ViewerInv, ViewerShape, OpenShape
<1>5. /\ call[c].results \in Seq(V!EntryType) /\ call[c].results # <<>>
      /\ V!Subjects(c) = {e.path : e \in new}
  <2>1. call[c].results \in Seq(V!EntryType) /\ call[c].results # <<>>
    BY <1>1, <1>4, CallIs DEF ViewerCalls, OpenShape
  <2>2. V!ToSet(<<>>) = {}
    BY DEF V!ToSet
  <2> HIDE DEF V!ToSet
  <2>3. V!Subjects(c) = V!ToSet(<<>>) \cup {e.path : e \in new}
    BY <1>1 DEF V!Subjects
  <2> QED  BY <2>1, <2>2, <2>3
<1>6. /\ new \subseteq V!EntryType /\ \A e \in new : e.path \in Paths /\ V!Opening(e.path)
      /\ \A e, f \in new : e.path = f.path => e = f
      /\ Head(call[c].results) \in new
  <2>1. \A e \in new : e \in V!EntryType /\ e.path \in Paths /\ V!Opening(e.path)
    BY <1>1, CallIs
  <2>2. \A e, f \in new : e.path = f.path => e = f
    BY <1>4, <1>5 DEF OpenShape, V!ToSet
  <2>3. Head(call[c].results) \in new
    BY <1>5 DEF V!ToSet
  <2> QED  BY <2>1, <2>2, <2>3
<1>7. CASE call[c].heard
  <2>1. /\ files' = {e \in files : \A f \in new : f.path # e.path} \cup new
        /\ selected' = Head(call[c].results).path /\ confirm' = V!Blank /\ typedFor' = Nil
        /\ armed' \in BOOLEAN
    BY <1>7 DEF V!OpenReturns, V!MergeFiles, V!SelectFile, V!UpdateDeleteState
  <2> HIDE DEF new
  <2>2. /\ files' \subseteq V!EntryType /\ OncePerPath'
    BY <2>1, <1>6 DEF ViewerInv, ViewerTypeOK, OncePerPath
  <2>3. selected' \in Paths
    BY <2>1, <1>6
  <2>4. ViewerTypeOK'
    BY <1>1, <1>2, <2>1, <2>2, <2>3 DEF ViewerInv, ViewerTypeOK, V!EntryType, V!Names, ViewerCalls
  <2>5. V!ConfirmedForSelected'
    BY <2>1 DEF V!ConfirmedForSelected
  <2>6. FilesGood'
    <3> SUFFICES ASSUME NEW e \in files', e.path \notin overtaken, ~V!Leaving(e.path)'  PROVE Good(e)
      BY <1>1, <1>3 DEF FilesGood
    <3>1. CASE e \in new
      BY <3>1, <1>1 DEF ViewerInv, ResultsGood, new
    <3>2. CASE e \notin new
      BY <3>2, <2>1, <1>2, <1>4 DEF ViewerInv, FilesGood
    <3> QED  BY <3>1, <3>2
  <2>7. V!Listed' = V!Listed \cup {e.path : e \in new}
    BY <2>1 DEF V!Listed
  <2>8. UnheardIsOvertaken'
    <3> SUFFICES ASSUME NEW d \in Calls, d # c, ~call[d].heard
                 PROVE  /\ call[d].kind = "open" => V!Subjects(d) \subseteq overtaken
                        /\ call[d].kind \in {"forget", "delete"} =>
                             call[d].todo[1] \in overtaken \/ call[d].todo[1] \notin V!Listed'
      BY <1>1, <1>2 DEF UnheardIsOvertaken
    <3>1. ASSUME call[d].kind \in {"forget", "delete"}, call[d].todo[1] \notin overtaken
          PROVE  call[d].todo[1] \notin V!Listed'
      <4>1. call[d].todo[1] \notin V!Listed
        BY <3>1 DEF ViewerInv, UnheardIsOvertaken
      <4>2. ~V!Opening(call[d].todo[1])
        BY <3>1, CallIs DEF ViewerInv, OpenedOrDropped
      <4> QED  BY <4>1, <4>2, <2>7, <1>6
    <3> QED  BY <3>1 DEF ViewerInv, UnheardIsOvertaken
  <2>9. V!KnownIsListed'
    BY <1>1, <1>2, <1>5, <2>7 DEF ViewerInv, V!KnownIsListed
  <2> QED  BY <1>2, <1>3, <2>2, <2>4, <2>5, <2>6, <2>8, <2>9 DEF ViewerInv
<1>8. CASE ~call[c].heard
  <2>1. UNCHANGED <<files, selected, confirm, armed, typedFor>>
    BY <1>8 DEF V!OpenReturns, V!window
  <2>2. V!Subjects(c) \subseteq overtaken
    BY <1>1, <1>8 DEF ViewerInv, UnheardIsOvertaken
  <2>3. ViewerTypeOK'
    BY <1>1, <1>2, <2>1 DEF ViewerInv, ViewerTypeOK, V!EntryType, V!Names, ViewerCalls
  <2>4. OncePerPath' /\ V!ConfirmedForSelected' /\ V!Listed' = V!Listed
    BY <2>1 DEF ViewerInv, OncePerPath, V!ConfirmedForSelected, V!Listed
  <2>5. FilesGood'
    BY <1>1, <1>2, <1>3, <1>4, <2>1 DEF ViewerInv, FilesGood
  <2>6. UnheardIsOvertaken'
    <3> SUFFICES ASSUME NEW d \in Calls, d # c, ~call[d].heard
                 PROVE  /\ call[d].kind = "open" => V!Subjects(d) \subseteq overtaken
                        /\ call[d].kind \in {"forget", "delete"} =>
                             call[d].todo[1] \in overtaken \/ call[d].todo[1] \notin V!Listed
      BY <1>1, <1>2, <2>4 DEF UnheardIsOvertaken
    <3> QED  BY DEF ViewerInv, UnheardIsOvertaken
  <2>7. V!KnownIsListed'
    BY <1>1, <1>2, <2>2, <2>4 DEF ViewerInv, V!KnownIsListed
  <2> QED  BY <1>2, <1>3, <2>3, <2>4, <2>5, <2>6, <2>7 DEF ViewerInv
<1> QED  BY <1>7, <1>8

LEMMA CallReturnsStep ==
  ASSUME ViewerInv, NEW c \in Calls, V!CallReturns(c)
  PROVE  ViewerInv'
<1> DEFINE p == call[c].todo[1]
           drops == call[c].heard /\ call[c].pc = "ok"
<1>1. /\ call[c].kind \in {"forget", "delete"} /\ call[c].pc \in {"ok", "failed"}
      /\ call' = [call EXCEPT ![c] = V!Idle]
      /\ UNCHANGED <<disk, known, tokenOf, fileOf, overtaken, clicks>>
  BY DEF V!CallReturns, V!main
<1>2. /\ call' \in [Calls -> ViewerCalls] /\ ViewerShape'
      /\ call'[c] = V!Idle /\ V!Idle.kind = "none" /\ V!Idle.pc = "idle"
      /\ \A d \in Calls \ {c} : call'[d] = call[d] /\ V!Subjects(d)' = V!Subjects(d)
      /\ \A q : /\ V!Opening(q)' => V!Opening(q)
                /\ V!Opening(q) => V!Opening(q)' \/ (call[c].kind = "open" /\ q \in V!Subjects(c))
                /\ V!Dropping(q)' => V!Dropping(q)
                /\ V!Leaving(q) => V!Leaving(q)' \/ (call[c].pc = "ok" /\ q \in V!Subjects(c))
  BY <1>1, CallEnds
<1>3. /\ \A e : Good(e)' <=> Good(e)
      /\ TokensLead' /\ OpenedOrDropped' /\ ResultsGood' /\ ReadingKnown' /\ DroppedIsUnknown'
  BY <1>1, RestAfterCall
<1>4. V!Subjects(c) = {p} /\ Head(call[c].todo) = p /\ p \in Paths
  BY <1>1, CallIs
<1>5. CASE drops
  <2>1. /\ files' = {e \in files : e.path # p}
        /\ selected' \in IF files' = {} THEN {Nil} ELSE {e.path : e \in files'}
        /\ confirm' = IF call[c].kind = "delete" THEN V!Blank ELSE confirm
        /\ typedFor' = IF call[c].kind = "delete" \/ selected' # selected THEN Nil ELSE typedFor
        /\ armed' \in BOOLEAN
    BY <1>1, <1>4, <1>5 DEF V!CallReturns, V!DropFromList, V!UpdateDeleteState
  <2> HIDE DEF p
  <2>2. files' \subseteq V!EntryType /\ OncePerPath' /\ files' \subseteq files
    BY <2>1 DEF ViewerInv, ViewerTypeOK, OncePerPath
  <2>3. selected' \in Paths \cup {Nil}
    BY <2>1, <2>2 DEF V!EntryType
  <2>4. confirm' \in V!Names \cup {V!Blank} /\ typedFor' \in Paths \cup {Nil} /\ V!ConfirmedForSelected'
    BY <2>1 DEF ViewerInv, ViewerTypeOK, V!ConfirmedForSelected
  <2>5. ViewerTypeOK'
    BY <1>1, <1>2, <2>1, <2>2, <2>3, <2>4 DEF ViewerInv, ViewerTypeOK, V!EntryType, V!Names, ViewerCalls
  <2>6. FilesGood'
    <3> SUFFICES ASSUME NEW e \in files', e.path \notin overtaken, ~V!Leaving(e.path)'  PROVE Good(e)
      BY <1>1, <1>3 DEF FilesGood
    <3>1. e \in files /\ e.path # p
      BY <2>1
    <3> QED  BY <3>1, <1>2, <1>4 DEF ViewerInv, FilesGood
  <2>7. V!Listed' = V!Listed \ {p}
    BY <2>1 DEF V!Listed
  <2>8. UnheardIsOvertaken'
    <3> SUFFICES ASSUME NEW d \in Calls, d # c, ~call[d].heard
                 PROVE  /\ call[d].kind = "open" => V!Subjects(d) \subseteq overtaken
                        /\ call[d].kind \in {"forget", "delete"} =>
                             call[d].todo[1] \in overtaken \/ call[d].todo[1] \notin V!Listed'
      BY <1>1, <1>2 DEF UnheardIsOvertaken
    <3> QED  BY <2>7 DEF ViewerInv, UnheardIsOvertaken
  <2>9. V!KnownIsListed'
    <3>1. p \notin known \/ p \in overtaken
      BY <1>5 DEF ViewerInv, DroppedIsUnknown, p
    <3>2. \A q : V!Opening(q) => V!Opening(q)'
      BY <1>1, <1>2
    <3> QED  BY <1>1, <2>7, <3>1, <3>2 DEF ViewerInv, V!KnownIsListed
  <2> QED  BY <1>2, <1>3, <2>2, <2>4, <2>5, <2>6, <2>8, <2>9 DEF ViewerInv
<1>6. CASE ~drops
  <2>1. UNCHANGED <<files, selected, confirm, typedFor>> /\ armed' \in BOOLEAN
    BY <1>1, <1>6 DEF V!CallReturns, V!window, V!UpdateDeleteState, ViewerInv, ViewerTypeOK
  <2>2. ViewerTypeOK'
    BY <1>1, <1>2, <2>1 DEF ViewerInv, ViewerTypeOK, V!EntryType, V!Names, ViewerCalls
  <2>3. OncePerPath' /\ V!ConfirmedForSelected' /\ V!Listed' = V!Listed
    BY <2>1 DEF ViewerInv, OncePerPath, V!ConfirmedForSelected, V!Listed
  <2> HIDE DEF p
  <2>4. FilesGood'
    <3> SUFFICES ASSUME NEW e \in files, e.path \notin overtaken, ~V!Leaving(e.path)'  PROVE Good(e)
      BY <1>1, <1>3, <2>1 DEF FilesGood
    <3>1. e.path \in V!Listed
      BY DEF V!Listed
    <3>2. CASE V!Leaving(e.path)
      <4>1. call[c].pc = "ok" /\ e.path = p /\ ~call[c].heard
        BY <3>2, <1>2, <1>4, <1>6
      <4> QED  BY <4>1, <3>1, <1>1 DEF ViewerInv, UnheardIsOvertaken, p
    <3>3. CASE ~V!Leaving(e.path)
      BY <3>3 DEF ViewerInv, FilesGood
    <3> QED  BY <3>2, <3>3
  <2>5. UnheardIsOvertaken'
    <3> SUFFICES ASSUME NEW d \in Calls, d # c, ~call[d].heard
                 PROVE  /\ call[d].kind = "open" => V!Subjects(d) \subseteq overtaken
                        /\ call[d].kind \in {"forget", "delete"} =>
                             call[d].todo[1] \in overtaken \/ call[d].todo[1] \notin V!Listed
      BY <1>1, <1>2, <2>3 DEF UnheardIsOvertaken
    <3> QED  BY DEF ViewerInv, UnheardIsOvertaken
  <2>6. V!KnownIsListed'
    BY <1>1, <1>2, <2>3 DEF ViewerInv, V!KnownIsListed
  <2> QED  BY <1>2, <1>3, <2>2, <2>3, <2>4, <2>5, <2>6 DEF ViewerInv
<1> QED  BY <1>5, <1>6

\* A new window lists nothing and hears nothing of what is under way.
LEMMA ReopenWindowStep ==
  ASSUME ViewerInv, V!ReopenWindow
  PROVE  ViewerInv'
<1> DEFINE opened == UNION {V!Subjects(c) : c \in {d \in Calls : call[d].kind = "open"}}
<1>1. /\ files' = {} /\ selected' = Nil /\ confirm' = V!Blank /\ armed' = FALSE
      /\ call' = [c \in Calls |-> [call[c] EXCEPT !.heard = FALSE]]
      /\ overtaken' = overtaken \cup known \cup opened
      /\ typedFor' = Nil
      /\ UNCHANGED <<disk, known, tokenOf, fileOf, clicks>>
  BY DEF V!ReopenWindow, V!main
<1>2. /\ call' \in [Calls -> ViewerCalls]
      /\ \A c \in Calls : /\ call'[c].kind = call[c].kind /\ call'[c].pc = call[c].pc
                          /\ call'[c].todo = call[c].todo /\ call'[c].results = call[c].results
                          /\ ~call'[c].heard
  <2> SUFFICES ASSUME NEW c \in Calls
               PROVE  /\ call'[c] \in ViewerCalls
                      /\ call'[c].kind = call[c].kind /\ call'[c].pc = call[c].pc
                      /\ call'[c].todo = call[c].todo /\ call'[c].results = call[c].results
                      /\ ~call'[c].heard
    BY <1>1
  <2>1. call[c] \in ViewerCalls /\ call'[c] = [call[c] EXCEPT !.heard = FALSE]
    BY <1>1, CallIs
  <2> QED  BY <2>1 DEF ViewerCalls
<1>3. \A c \in Calls : V!Subjects(c)' = V!Subjects(c)
  BY <1>2 DEF V!Subjects
<1>4. \A p : /\ V!Opening(p)' <=> V!Opening(p)
             /\ V!Dropping(p)' <=> V!Dropping(p)
  BY <1>2, <1>3, SameSubjects
<1>5. \A p \in Paths : V!Opening(p) => p \in Paths
  OBVIOUS
<1>6. \A c \in Calls : call[c].kind = "open" => V!Subjects(c) \subseteq opened
  OBVIOUS
<1>7. opened \subseteq Paths
  <2> SUFFICES ASSUME NEW c \in Calls, call[c].kind = "open"
               PROVE  V!Subjects(c) \subseteq Paths
    OBVIOUS
  <2>1. call[c] \in ViewerCalls
    BY CallIs
  <2>2. call[c].todo \in Seq(Paths) /\ call[c].results \in Seq(V!EntryType)
    BY <2>1 DEF ViewerCalls
  <2>3. \A e \in V!EntryType : e.path \in Paths
    BY DEF V!EntryType
  <2> QED  BY <2>1, <2>2, <2>3, SubjectsAre
<1> HIDE DEF opened
<1>8. ViewerTypeOK'
  BY <1>1, <1>2, <1>7 DEF ViewerInv, ViewerTypeOK, V!EntryType, V!Names, ViewerCalls
<1>9. ViewerShape'
  <2> SUFFICES ASSUME NEW c \in Calls
               PROVE  /\ call'[c].kind = "none" => call'[c] = V!Idle
                      /\ call'[c].kind \in {"forget", "delete"} => DropShape(call'[c])
                      /\ call'[c].kind = "open" => OpenShape(call'[c])
    BY DEF ViewerShape, V!Idle
  <2>1. call'[c].kind = "none" => call'[c] = V!Idle
    <3> SUFFICES ASSUME call[c].kind = "none"  PROVE call'[c] = V!Idle
      BY <1>2
    <3>1. call[c] = V!Idle
      BY DEF ViewerInv, ViewerShape
    <3>2. call'[c] = [V!Idle EXCEPT !.heard = FALSE]
      BY <1>1, <3>1
    <3> QED  BY <3>2 DEF V!Idle
  <2>2. call'[c].kind \in {"forget", "delete"} => DropShape(call'[c])
    BY <1>2 DEF ViewerInv, ViewerShape, DropShape
  <2>3. call'[c].kind = "open" => OpenShape(call'[c])
    BY <1>2 DEF ViewerInv, ViewerShape, OpenShape
  <2> QED  BY <2>1, <2>2, <2>3
<1>10. OncePerPath' /\ FilesGood' /\ V!ConfirmedForSelected' /\ V!Listed' = {}
  BY <1>1 DEF OncePerPath, FilesGood, V!ConfirmedForSelected, V!Listed
<1>11. TokensLead' /\ \A e : Good(e)' <=> Good(e)
  BY <1>1 DEF ViewerInv, TokensLead, Good
<1>12. OpenedOrDropped' /\ ReadingKnown' /\ DroppedIsUnknown'
  BY <1>1, <1>2, <1>4 DEF ViewerInv, OpenedOrDropped, ReadingKnown, DroppedIsUnknown
<1>13. ResultsGood'
  BY <1>1, <1>2, <1>11 DEF ViewerInv, ResultsGood
<1>14. UnheardIsOvertaken' /\ V!KnownIsListed'
  BY <1>1, <1>2, <1>3, <1>6, <1>10 DEF UnheardIsOvertaken, V!KnownIsListed
<1> QED  BY <1>8, <1>9, <1>10, <1>11, <1>12, <1>13, <1>14 DEF ViewerInv

LEMMA CallFailsStep ==
  ASSUME ViewerInv, NEW c \in Calls, V!CallFails(c)
  PROVE  ViewerInv'
BY DropGoesOn DEF V!CallFails, V!Answer, V!main, V!window, V!history, ViewerInv, ViewerTypeOK

LEMMA DeleteRunsStep ==
  ASSUME ViewerInv, NEW c \in Calls, V!DeleteRuns(c)
  PROVE  ViewerInv'
<1>1. /\ call[c].kind \in {"forget", "delete"} /\ call[c].pc = "sent"
      /\ UNCHANGED <<known, tokenOf, fileOf, files, selected, confirm, armed, overtaken,
                     typedFor, clicks>>
  BY DEF V!DeleteRuns, V!main, V!window, V!history
<1>2. PICK at \in {"failed", "gone"} : call' = [call EXCEPT ![c].pc = at]
  BY DEF V!DeleteRuns, V!OverwriteAndUnlink, V!Answer
<1>3. disk' \subseteq Paths
  BY DEF V!DeleteRuns, V!OverwriteAndUnlink, ViewerInv, ViewerTypeOK
<1> QED  BY <1>1, <1>2, <1>3, DropGoesOn

LEMMA ForgetRunsStep ==
  ASSUME ViewerInv, NEW c \in Calls, V!ForgetRuns(c)
  PROVE  ViewerInv'
BY DropDone DEF V!ForgetRuns, V!window, V!history

LEMMA DeleteForgetsStep ==
  ASSUME ViewerInv, NEW c \in Calls, V!DeleteForgets(c)
  PROVE  ViewerInv'
<1>1. call[c].kind \in {"forget", "delete"}
  BY CallIs DEF V!DeleteForgets
<1> QED  BY <1>1, DropDone DEF V!DeleteForgets, V!window, V!history

\* A click on forget or on delete, and the two of them.
LEMMA ClickStep ==
  ASSUME ViewerInv, NEW c \in Calls, V!ForgetClick(c) \/ V!DeleteClick(c)
  PROVE  ViewerInv'
<1>1. CASE V!ForgetClick(c)
  BY <1>1, SendStep DEF V!ForgetClick, ViewerInv, ViewerTypeOK
<1>2. CASE V!DeleteClick(c)
  BY <1>2, SendStep DEF V!DeleteClick
<1> QED  BY <1>1, <1>2

LEMMA ViewerInvInvariant == MCSpec => []ViewerInv
<1>1. MCInit => ViewerInv
  <2> SUFFICES ASSUME V!Init  PROVE ViewerInv
    BY DEF MCInit
  <2>1. /\ call = [c \in Calls |-> V!Idle]
        /\ files = {} /\ known = {} /\ overtaken = {} /\ confirm = V!Blank /\ typedFor = Nil
        /\ disk = Paths /\ selected = Nil /\ armed = FALSE /\ clicks = 0
        /\ tokenOf = [p \in Paths |-> Nil] /\ fileOf = [t \in Tokens |-> Nil]
    BY DEF V!Init
  <2>2. /\ V!Idle.kind = "none" /\ V!Idle.pc = "idle" /\ V!Idle.todo = <<>>
        /\ V!Idle.results = <<>> /\ V!Idle.heard = FALSE
    BY DEF V!Idle
  <2>3. \A c \in Calls : call[c] = V!Idle
    BY <2>1
  <2>4. V!Idle \in ViewerCalls
    <3>1. \A T : <<>> \in Seq(T)
      BY EmptySeq
    <3> DEFINE none == <<>>
               pcs  == {"idle", "sent", "reading", "gone", "ok", "failed"}
    <3>2. "idle" \in pcs /\ FALSE \in BOOLEAN /\ none \in Seq(V!EntryType) /\ none \in Seq(Paths)
      BY <3>1
    <3> HIDE DEF none, pcs
    <3>3. [kind |-> "none", pc |-> "idle", todo |-> none, results |-> none, heard |-> FALSE]
            \in [kind : {"none"} \cup ViewerKinds, pc : pcs, todo : Seq(Paths),
                 results : Seq(V!EntryType), heard : BOOLEAN]
      BY <3>2
    <3> QED  BY <3>3 DEF V!Idle, ViewerCalls, none, pcs
  <2>5. ViewerTypeOK
    <3>1. call \in [Calls -> ViewerCalls]
      BY <2>1, <2>4
    <3>2. tokenOf \in [Paths -> Tokens \cup {Nil}] /\ fileOf \in [Tokens -> Paths \cup {Nil}]
      BY <2>1
    <3>3. clicks \in 0..MaxClicks
      BY <2>1, ViewerAssumption
    <3>4. disk \subseteq Paths /\ known \subseteq Paths /\ overtaken \subseteq Paths
      BY <2>1
    <3>5. files \subseteq V!EntryType
      BY <2>1
    <3>6. /\ selected \in Paths \cup {Nil} /\ typedFor \in Paths \cup {Nil}
          /\ confirm \in V!Names \cup {V!Blank} /\ armed \in BOOLEAN
      BY <2>1
    <3> QED  BY <3>1, <3>2, <3>3, <3>4, <3>5, <3>6 DEF ViewerTypeOK
  <2>6. ViewerShape
    BY <2>2, <2>3 DEF ViewerShape
  <2>7. OncePerPath /\ FilesGood /\ V!KnownIsListed /\ V!ConfirmedForSelected
    BY <2>1 DEF OncePerPath, FilesGood, V!KnownIsListed, V!ConfirmedForSelected
  <2>8. OpenedOrDropped /\ TokensLead
    BY <2>1, <2>2, <2>3 DEF OpenedOrDropped, V!Opening, TokensLead
  <2>9. ResultsGood /\ ReadingKnown /\ UnheardIsOvertaken /\ DroppedIsUnknown
    BY <2>2, <2>3 DEF ResultsGood, ReadingKnown, UnheardIsOvertaken, DroppedIsUnknown
  <2> QED  BY <2>5, <2>6, <2>7, <2>8, <2>9 DEF ViewerInv
<1>2. ASSUME ViewerInv, UNCHANGED viewerVars  PROVE ViewerInv'
  <2>1. ViewerTypeOK' /\ V!ConfirmedForSelected'
    BY <1>2 DEF viewerVars, ViewerInv, ViewerTypeOK, V!ConfirmedForSelected, V!EntryType, V!Names,
                ViewerCalls
  <2> QED  BY <1>2, <2>1, ViewerRest DEF viewerVars
<1>3. ASSUME ViewerInv, V!Next  PROVE ViewerInv'
  <2> DEFINE calls ==
               \E c \in Calls :
                 \/ \E n \in 1..V!Cardinality(Paths) :
                      \E paths \in [1..n -> Paths] : V!IsInjective(paths) /\ V!Open(c, paths)
                 \/ V!AnalysisStarts(c) \/ V!AnalysisFails(c) \/ V!AnalysisDone(c) \/ V!OpenReturns(c)
                 \/ V!ForgetClick(c) \/ V!DeleteClick(c) \/ V!CallFails(c) \/ V!ForgetRuns(c)
                 \/ V!DeleteRuns(c) \/ V!DeleteForgets(c) \/ V!CallReturns(c)
             clicked == \E p \in Paths : V!Select(p) \/ V!FileVanishes(p)
             typed == \E text \in V!Names \cup {V!Blank} : V!TypeConfirmation(text)
  <2>1. CASE clicked
    BY <1>3, <2>1, SelectStep, FileVanishesStep
  <2>2. CASE typed
    BY <1>3, <2>2, TypeConfirmationStep
  <2>3. ASSUME NEW c \in Calls, NEW n \in 1..V!Cardinality(Paths), NEW paths \in [1..n -> Paths],
               V!IsInjective(paths), V!Open(c, paths)
        PROVE  ViewerInv'
    <3>1. V!Cardinality(Paths) \in Nat
      BY ViewerAssumption, FS_CardinalityType DEF V!Cardinality, Cardinality
    <3>2. n \in Nat /\ n > 0
      BY <3>1
    <3>3. paths \in Seq(Paths) /\ Len(paths) = n
      BY <3>2
    <3>4. paths # <<>>
      BY <3>2, <3>3
    <3>5. \A i, j \in 1..Len(paths) : paths[i] = paths[j] => i = j
      BY <2>3, <3>3 DEF V!IsInjective
    <3> QED  BY <1>3, <2>3, <3>3, <3>4, <3>5, OpenStep
  <2>4. ASSUME NEW c \in Calls,
               \/ V!AnalysisStarts(c) \/ V!AnalysisFails(c) \/ V!AnalysisDone(c) \/ V!OpenReturns(c)
        PROVE  ViewerInv'
    BY <1>3, <2>4, AnalysisStartsStep, AnalysisFailsStep, AnalysisDoneStep, OpenReturnsStep
  <2>5. ASSUME NEW c \in Calls,
               \/ V!ForgetClick(c) \/ V!DeleteClick(c) \/ V!CallFails(c) \/ V!ForgetRuns(c)
               \/ V!DeleteRuns(c) \/ V!DeleteForgets(c) \/ V!CallReturns(c)
        PROVE  ViewerInv'
    BY <1>3, <2>5, ClickStep, CallFailsStep, ForgetRunsStep, DeleteRunsStep, DeleteForgetsStep,
       CallReturnsStep
  <2>6. CASE V!ReopenWindow
    BY <1>3, <2>6, ReopenWindowStep
  <2>7. CASE calls
    BY <2>3, <2>4, <2>5, <2>7
  <2>8. clicked \/ typed \/ calls \/ V!ReopenWindow
    BY ONLY <1>3 DEF V!Next
  <2> QED  BY ONLY <2>1, <2>2, <2>6, <2>7, <2>8
<1>4. ViewerInv /\ [MCNext]_<<mode, vars, viewerVars, riskVars, playerVars, savedVars, auditVars>>
        => ViewerInv'
  BY <1>2, <1>3 DEF MCNext
<1> QED  BY <1>1, <1>4, PTL DEF MCSpec

\* What the window lists as analysed is known to the main process and its preview
\* URL leads to it; what the main process knows is listed, or about to be; and the
\* text that confirms a deletion was typed for the file it deletes
\* (file-viewer/main.js: analyzeFile, forgetKnownFile, files:delete;
\* file-viewer/renderer.js: mergeFiles and the handlers of forget and delete).
THEOREM SpecViewerIsSound == MCSpec => []ViewerIsSound
<1>1. ViewerInv => ViewerIsSound
  <2> SUFFICES ASSUME ViewerInv  PROVE V!ViewerIsSound
    BY DEF ViewerIsSound
  <2>1. V!TypeOK
    <3>1. \A c \in Calls :
            /\ call[c].kind \in {"none", "open", "forget", "delete"}
            /\ call[c].pc \in {"idle", "sent", "reading", "gone", "ok", "failed"}
            /\ call[c].todo \in Seq(Paths) /\ call[c].results \in Seq(V!EntryType)
      BY CallIs DEF ViewerCalls, ViewerKinds
    <3> QED  BY <3>1 DEF ViewerInv, ViewerTypeOK, OncePerPath, V!TypeOK
  <2>2. V!ListedIsServed
    <3> SUFFICES ASSUME NEW e \in files, e.ok, e.path \notin overtaken, ~V!Leaving(e.path)
                 PROVE  e.path \in known /\ V!Served(e.token) = e.path
      BY DEF V!ListedIsServed
    <3>1. Good(e)
      BY DEF ViewerInv, FilesGood
    <3>2. e.path \in known /\ fileOf[e.token] = e.path /\ e.path # Nil
      BY <3>1, ViewerAssumption DEF Good, ViewerInv, ViewerTypeOK
    <3> QED  BY <3>2 DEF V!Served
  <2> QED  BY <2>1, <2>2 DEF ViewerInv, V!ViewerIsSound
<1> QED  BY <1>1, ViewerInvInvariant, PTL

===============================================================================
