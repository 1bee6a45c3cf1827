---------------------------- MODULE FrontendProofs ----------------------------
(***************************************************************************)
(* Theorems about the components of the front end as MCFrontend            *)
(* instantiates them, for all values of their constants: the identity, the *)
(* settings service (C), the pages with handlers (P), the settings dialog  *)
(* (S) and the list of torrents (T).                                       *)
(***************************************************************************)
EXTENDS MCFrontend, FiniteSetTheorems, SequenceTheorems, TLAPS

-----------------------------------------------------------------------------
(* The identity.  A deletion says "deleted" when nothing is left that was  *)
(* there when it began.                                                    *)

\* A deletion under way knows whose it is and how far it has come.
DeletionShaped == deletion # Nil => {"user", "at"} \subseteq DOMAIN deletion

\* Once a listing has found nothing, what is stored came late.
EmptyBeforeUser ==
  At("user") => \A o \in objects : o[1] = deletion.user => o \in late

\* The answer "deleted" is given after the deletion.
DeletedIsGone == At("deleted") => deletion.user \in gone

IdentityInv == DeletionShaped /\ EmptyBeforeUser /\ DeletedIsGone /\ GoneMeansEmpty /\ ClearedMeansGone

\* In the beginning nothing is stored, deleted or forgotten.
LEMMA IdentityInit == Init => IdentityInv
  BY DEF Init, IdentityInv, DeletionShaped, EmptyBeforeUser, DeletedIsGone, At, GoneMeansEmpty, ClearedMeansGone

\* What takes files away, or changes nothing but the pages, disturbs nothing.
LEMMA FewerKeep ==
  ASSUME IdentityInv, objects' \subseteq objects, UNCHANGED <<gone, deletion, cleared, late>>
  PROVE  IdentityInv'
  BY DEF IdentityInv, DeletionShaped, EmptyBeforeUser, DeletedIsGone, At, GoneMeansEmpty, ClearedMeansGone

\* A file that arrives for an identity that is gone, or going, arrives late.
LEMMA UploadedKeeps ==
  ASSUME IdentityInv, NEW r, Uploaded(r) PROVE IdentityInv'
  <1>1. CASE UNCHANGED <<objects, late>>
    BY <1>1, FewerKeep DEF Uploaded, Unchanged
  <1>2. CASE /\ objects' = objects \cup {<<r.user, r.file>>}
             /\ late' = IF r.user \in gone \cup BeingDeleted
                        THEN late \cup {<<r.user, r.file>>} ELSE late
    <2>1. UNCHANGED <<gone, deletion, cleared>>
      BY DEF Uploaded, Unchanged
    <2>2. \A o \in objects' : o \in objects \/ (o[1] = r.user /\ o = <<r.user, r.file>>)
      BY <1>2
    <2>3. GoneMeansEmpty'
      BY <1>2, <2>1, <2>2 DEF IdentityInv, GoneMeansEmpty
    <2>4. EmptyBeforeUser'
      BY <1>2, <2>1, <2>2 DEF IdentityInv, EmptyBeforeUser, At, BeingDeleted
    <2>5. QED
      BY <2>1, <2>3, <2>4 DEF IdentityInv, DeletionShaped, DeletedIsGone, At, ClearedMeansGone
  <1>3. QED
    BY <1>1, <1>2 DEF Uploaded

\* A deletion that begins forgets what came late in an earlier attempt, for
\* there is no claim yet that its identity is empty.
LEMMA DeleteKeeps == ASSUME IdentityInv, Delete PROVE IdentityInv'
  <1>1. deletion'.at \in {"failed", "list"} /\ {"user", "at"} \subseteq DOMAIN deletion'
    BY DEF Delete
  <1>2. GoneMeansEmpty'
    BY DEF Delete, IdentityInv, GoneMeansEmpty
  <1>3. QED
    BY <1>1, <1>2 DEF Delete, IdentityInv, DeletionShaped, EmptyBeforeUser, DeletedIsGone, At, ClearedMeansGone

\* The deletion comes to its last step with nothing left that was there.
LEMMA ListBatchKeeps == ASSUME IdentityInv, ListBatch PROVE IdentityInv'
  <1>1. UNCHANGED <<gone, objects, cleared, late>> /\ deletion # Nil
    BY DEF ListBatch, At
  <1>2. CASE Owned = {}
    <2>1. deletion' = [deletion EXCEPT !.at = "user"]
      BY <1>2 DEF ListBatch
    <2>2. DeletionShaped' /\ deletion'.at = "user" /\ deletion'.user = deletion.user
      BY <1>1, <2>1 DEF IdentityInv, DeletionShaped
    <2>3. QED
      BY <1>1, <1>2, <2>2
         DEF IdentityInv, EmptyBeforeUser, DeletedIsGone, At, Owned, GoneMeansEmpty, ClearedMeansGone
  <1>3. CASE Owned # {}
    <2>1. PICK paths : deletion' = [deletion EXCEPT !.at = "remove", !.paths = paths]
      BY <1>3 DEF ListBatch
    <2>2. DeletionShaped' /\ deletion'.at = "remove"
      BY <1>1, <2>1 DEF IdentityInv, DeletionShaped
    <2>3. QED
      BY <1>1, <2>2 DEF IdentityInv, EmptyBeforeUser, DeletedIsGone, At, GoneMeansEmpty, ClearedMeansGone
  <1>4. QED
    BY <1>2, <1>3

\* A batch that is removed, or a failure, makes no claim.
LEMMA OtherStepsKeep ==
  ASSUME IdentityInv, RemoveBatch \/ DeletionFails PROVE IdentityInv'
  <1>1. deletion # Nil /\ objects' \subseteq objects /\ UNCHANGED <<gone, cleared, late>>
    BY DEF RemoveBatch, DeletionFails, At
  <1>2. DeletionShaped' /\ deletion'.at \in {"failed", "list"}
    BY <1>1 DEF RemoveBatch, DeletionFails, IdentityInv, DeletionShaped
  <1>3. QED
    BY <1>1, <1>2 DEF IdentityInv, EmptyBeforeUser, DeletedIsGone, At, GoneMeansEmpty, ClearedMeansGone

\* The identity goes when it is empty.
LEMMA DeleteUserKeeps == ASSUME IdentityInv, DeleteUser PROVE IdentityInv'
  <1>1. deletion # Nil /\ UNCHANGED <<objects, cleared, late>>
    BY DEF DeleteUser, At
  <1>2. DeletionShaped' /\ deletion'.at = "deleted" /\ deletion'.user = deletion.user
    BY <1>1 DEF DeleteUser, IdentityInv, DeletionShaped
  <1>3. QED
    BY <1>1, <1>2 DEF DeleteUser, IdentityInv, EmptyBeforeUser, DeletedIsGone, At, GoneMeansEmpty, ClearedMeansGone

\* The page looks at the answer before it forgets the session.
LEMMA AnswerKeeps == ASSUME IdentityInv, Replied \/ ReplyLost \/ Reload PROVE IdentityInv'
  BY DEF Replied, ReplyLost, Reload, IdentityInv, DeletionShaped, EmptyBeforeUser, DeletedIsGone, At,
         GoneMeansEmpty, ClearedMeansGone

\* Every step keeps all of it.
LEMMA IdentityInductive == Spec => []IdentityInv
  <1>1. IdentityInv /\ [Next]_vars => IdentityInv'
    <2> SUFFICES ASSUME IdentityInv, [Next]_vars PROVE IdentityInv'
      OBVIOUS
    <2>1. CASE signInAnonymously \/ signOut \/ Visit \/ Leave \/ refresh
      BY <2>1, FewerKeep DEF signInAnonymously, signOut, Visit, Leave, refresh, Unchanged
    <2>2. ASSUME NEW f \in Files, upload(f) \/ remove(f) PROVE IdentityInv'
      BY <2>2, FewerKeep DEF upload, remove, Unchanged
    <2>3. ASSUME NEW r \in pending, Refreshed(r) \/ Removed(r) PROVE IdentityInv'
      BY <2>3, FewerKeep DEF Refreshed, Removed, Unchanged
    <2>4. CASE UNCHANGED vars
      BY <2>4, FewerKeep DEF vars
    <2>5. QED
      BY <2>1, <2>2, <2>3, <2>4, UploadedKeeps, DeleteKeeps, ListBatchKeeps, OtherStepsKeep,
         DeleteUserKeeps, AnswerKeeps DEF Next
  <1>2. QED
    BY IdentityInit, <1>1, PTL DEF Spec

\* A deleted identity leaves nothing behind that was stored before its deletion.
THEOREM SpecGoneMeansEmpty == Spec => []GoneMeansEmpty
  <1>1. IdentityInv => GoneMeansEmpty
    BY DEF IdentityInv
  <1>2. QED
    BY IdentityInductive, <1>1, PTL

\* The browser forgets an identity only after the server has deleted it.
THEOREM SpecClearedMeansGone == Spec => []ClearedMeansGone
  <1>1. IdentityInv => ClearedMeansGone
    BY DEF IdentityInv
  <1>2. QED
    BY IdentityInductive, <1>1, PTL

\* Together: at the server first, all of it, and only then in the browser.
THEOREM SpecDeletionIsHonest == Spec => []DeletionIsHonest
<1>1. GoneMeansEmpty /\ ClearedMeansGone => DeletionIsHonest
  BY DEF DeletionIsHonest
<1> QED BY <1>1, SpecGoneMeansEmpty, SpecClearedMeansGone, PTL

-----------------------------------------------------------------------------
(* The settings service.  What the cache and the requests hold was in the  *)
(* repository when they took it, and nothing else gets in.                 *)

\* Every variable has its type: an entry is one of the values.
CacheTypeOK ==
  /\ repo \in C!Values /\ cache \in SUBSET C!Values
  /\ pc \in [Calls -> {"idle", "missed", "found", "stored"}]
  /\ held \in [Calls -> C!Values] /\ answer \in [Calls -> C!Values \cup {Failed}]

\* The service starts with its variables typed.
LEMMA CacheInit == C!Init => CacheTypeOK
  BY DEF C!Init, CacheTypeOK, C!Values

\* Every step keeps the types.
LEMMA CacheStep == CacheTypeOK /\ [C!Next]_(C!vars) => CacheTypeOK'
  <1> SUFFICES ASSUME CacheTypeOK, [C!Next]_(C!vars) PROVE CacheTypeOK'
    OBVIOUS
  <1> USE DEF CacheTypeOK, C!Goto, C!Return
  <1>1. ASSUME NEW c \in Calls, C!Hit(c) PROVE CacheTypeOK'
    BY <1>1 DEF C!Hit
  <1>2. ASSUME NEW c \in Calls, C!Miss(c) PROVE CacheTypeOK'
    BY <1>2 DEF C!Miss
  <1>3. ASSUME NEW c \in Calls, C!Find(c) PROVE CacheTypeOK'
    BY <1>3 DEF C!Find
  <1>4. ASSUME NEW c \in Calls, C!Fill(c) PROVE CacheTypeOK'
    BY <1>4 DEF C!Fill
  <1>5. ASSUME NEW c \in Calls, NEW v \in C!Values, C!Set(c, v) PROVE CacheTypeOK'
    BY <1>5 DEF C!Set
  <1>6. ASSUME NEW c \in Calls, C!SetCache(c) PROVE CacheTypeOK'
    BY <1>6 DEF C!SetCache
  <1>7. CASE C!ClearUser
    BY <1>7 DEF C!ClearUser, C!Values
  <1>8. CASE C!Expire
    BY <1>8 DEF C!Expire
  <1>9. CASE UNCHANGED C!vars
    BY <1>9 DEF C!vars
  <1>10. QED
    BY <1>1, <1>2, <1>3, <1>4, <1>5, <1>6, <1>7, <1>8, <1>9 DEF C!Next, C!Proceed

\* An empty cache and no request under way: nothing can be read late.
LEMMA InitMaps == C!Init => C!Register!Init
  BY DEF C!Init, C!Register!Init, C!Late, C!Values

\* What a step of one request adds to what can be read late is what it holds
\* after the step.
LEMMA LateGrows ==
  ASSUME CacheTypeOK, CacheTypeOK', NEW c \in Calls, NEW Own,
         \A d \in Calls \ {c} : pc'[d] = pc[d] /\ held'[d] = held[d],
         pc'[c] \in {"found", "stored"} => held'[c] \in Own,
         cache' \cap Strings \subseteq C!Late \cup Own
  PROVE  C!Late' \subseteq C!Late \cup Own
  BY DEF C!Late, CacheTypeOK

\* A hit answers what is in the cache.
LEMMA HitMaps == ASSUME CacheTypeOK, CacheTypeOK', NEW c \in Calls, C!Hit(c) PROVE C!Register!Next
  <1>1. C!Late' \subseteq C!Late \cup {repo, repo'}
    BY LateGrows DEF C!Hit, C!Return, C!Goto, C!Late, CacheTypeOK
  <1>2. PICK v \in cache \cap Strings : C!Return(c, v)
    BY DEF C!Hit
  <1>3. v \in C!Late
    BY <1>2 DEF C!Late
  <1>4. C!Register!Answer
    BY <1>2, <1>3 DEF C!Register!Answer, C!Return, C!Hit
  <1>5. QED
    BY <1>1, <1>4 DEF C!Register!Next

\* A miss changes nothing that can be seen.
LEMMA MissMaps == ASSUME CacheTypeOK, CacheTypeOK', NEW c \in Calls, C!Miss(c) PROVE C!Register!Next
  <1>1. C!Late' \subseteq C!Late \cup {repo, repo'}
    BY LateGrows DEF C!Miss, C!Goto, C!Late, CacheTypeOK
  <1>2. QED
    BY <1>1 DEF C!Register!Next, C!Register!Age, C!Miss

\* A read of the repository takes what is stored, or fails.
LEMMA FindMaps == ASSUME CacheTypeOK, CacheTypeOK', NEW c \in Calls, C!Find(c) PROVE C!Register!Next
  <1>1. C!Late' \subseteq C!Late \cup {repo, repo'}
    BY LateGrows DEF C!Find, C!Return, C!Goto, C!Late, CacheTypeOK
  <1>2. CASE C!Goto(c, "found") /\ held' = [held EXCEPT ![c] = repo] /\ UNCHANGED answer
    BY <1>1, <1>2 DEF C!Register!Next, C!Register!Age, C!Find
  <1>3. CASE C!Return(c, Failed) /\ UNCHANGED held
    BY <1>1, <1>3 DEF C!Register!Next, C!Register!Answer, C!Find, C!Return
  <1>4. QED
    BY <1>2, <1>3 DEF C!Find

\* What is cached and answered was found before, however long ago.
LEMMA FillMaps == ASSUME CacheTypeOK, CacheTypeOK', NEW c \in Calls, C!Fill(c) PROVE C!Register!Next
  <1>1. held[c] \in C!Late
    BY DEF C!Fill, C!Late
  <1>2. C!Late' \subseteq C!Late \cup {repo, repo'}
    <2>1. cache' \cap Strings \subseteq C!Late
      BY <1>1 DEF C!Fill, C!Late
    <2>2. /\ \A d \in Calls \ {c} : pc'[d] = pc[d] /\ held'[d] = held[d]
          /\ pc'[c] = "idle"
      BY DEF C!Fill, C!Return, C!Goto, CacheTypeOK
    <2>3. QED
      BY <2>1, <2>2, LateGrows
  <1>3. C!Register!Answer
    BY <1>1 DEF C!Register!Answer, C!Fill, C!Return
  <1>4. QED
    BY <1>2, <1>3 DEF C!Register!Next

\* A value is stored before it can be read, or it is refused.
LEMMA SetMaps ==
  ASSUME CacheTypeOK, CacheTypeOK', NEW c \in Calls, NEW v \in C!Values, C!Set(c, v) PROVE C!Register!Next
  <1>1. C!Late' \subseteq C!Late \cup {repo, repo'}
    BY LateGrows DEF C!Set, C!Return, C!Goto, C!Late, CacheTypeOK
  <1>2. CASE repo' = v /\ C!Goto(c, "stored") /\ held' = [held EXCEPT ![c] = v] /\ UNCHANGED answer
    BY <1>1, <1>2 DEF C!Register!Next, C!Register!Store, C!Set
  <1>3. CASE UNCHANGED <<repo, held>> /\ C!Return(c, Failed)
    BY <1>1, <1>3 DEF C!Register!Next, C!Register!Answer, C!Set, C!Return
  <1>4. QED
    BY <1>2, <1>3 DEF C!Set

\* What is put into the cache was stored before, however long ago.
LEMMA SetCacheMaps == ASSUME CacheTypeOK, CacheTypeOK', NEW c \in Calls, C!SetCache(c) PROVE C!Register!Next
  <1>1. held[c] \in C!Late
    BY DEF C!SetCache, C!Late
  <1>2. C!Late' \subseteq C!Late \cup {repo, repo'}
    BY <1>1, LateGrows DEF C!SetCache, C!Goto, C!Late, CacheTypeOK
  <1>3. QED
    BY <1>2 DEF C!Register!Next, C!Register!Age, C!SetCache

\* Every step of the service is one of the register, or none.
LEMMA NextMaps == CacheTypeOK /\ CacheTypeOK' /\ [C!Next]_(C!vars) => [C!Register!Next]_(C!Register!vars)
  <1> SUFFICES ASSUME CacheTypeOK, CacheTypeOK', [C!Next]_(C!vars) PROVE [C!Register!Next]_(C!Register!vars)
    OBVIOUS
  <1>1. CASE C!ClearUser
    <2>1. C!Late' = C!Late
      BY <1>1 DEF C!ClearUser, C!Late
    <2>2. C!Register!Store
      BY <1>1 DEF C!Register!Store, C!ClearUser, C!Values
    <2>3. QED
      BY <2>1, <2>2 DEF C!Register!Next
  <1>2. CASE C!Expire
    <2>1. C!Late' \subseteq C!Late
      BY <1>2 DEF C!Expire, C!Late
    <2>2. QED
      BY <1>2, <2>1 DEF C!Register!Next, C!Register!Age, C!Expire
  <1>3. CASE UNCHANGED C!vars
    BY <1>3 DEF C!vars, C!Register!vars, C!Late
  <1>4. QED
    BY <1>1, <1>2, <1>3, HitMaps, MissMaps, FindMaps, FillMaps, SetMaps, SetCacheMaps
       DEF C!Next, C!Proceed

\* The variables keep their types.
THEOREM CacheIsTyped == C!Spec => []CacheTypeOK
  BY CacheInit, CacheStep, PTL DEF C!Spec

\* The service implements the register.
THEOREM CacheServesRegister == C!Spec => ServesRegister
  BY InitMaps, NextMaps, CacheIsTyped, PTL DEF C!Spec, ServesRegister, C!IsRegister, C!Register!Spec

-----------------------------------------------------------------------------
(* The list of torrents.  Of the stars: unless they were refused or mixed, *)
(* requests under way for one torrent ask for the same star, and one that  *)
(* is on show is kept, or a request will take it off.                      *)

ListEntries == [status : T!Statuses, favorite : {FALSE}]
TorrentLists == {Nil} \cup UNION {[ts -> ListEntries] : ts \in SUBSET Torrents}
StarCalls ==
  [op : {"favorite"}, t : Torrents, value : BOOLEAN, at : {"sent", "done", "refused"}, card : BOOLEAN]
OtherCalls ==
  [op : {"add", "pause", "resume", "delete", "limits", "schedule"}, t : Torrents, value : {0, 1},
   at : {"sent", "done", "refused"}, card : BOOLEAN]
CallRecords == StarCalls \cup OtherCalls

ListType ==
  /\ known \in SUBSET Torrents /\ status \in [Torrents -> T!Statuses]
  /\ limits \in [Torrents -> {0, 1}]
  /\ list \in TorrentLists /\ star \in [Torrents -> BOOLEAN]
  /\ poll.list \in TorrentLists
  /\ calls \in [Calls -> CallRecords \cup {Nil}]

\* What the backend answers is a list.
LEMMA GetTorrentsType == ASSUME ListType PROVE T!GetTorrents \in TorrentLists
  <1>1. ASSUME known # {} PROVE [t \in known |-> T!Info(t)] \in [known -> ListEntries]
    BY DEF ListType, T!Info, ListEntries
  <1>2. QED
    BY <1>1 DEF T!GetTorrents, TorrentLists, ListType

\* A card that appears has no star.
LEMMA NewCards ==
  ASSUME NEW l \in TorrentLists, NEW f, NEW t \in T!Shown(l, f)
  PROVE  t \in Torrents /\ l # Nil /\ t \in DOMAIN l /\ l[t].favorite = FALSE
  BY DEF TorrentLists, T!Shown, ListEntries

\* What a rendering makes of the cards.
LEMMA Rendered ==
  ASSUME ListType, NEW l \in TorrentLists, NEW f, T!Render(l, f)
  PROVE  /\ list' \in TorrentLists /\ star' \in [Torrents -> BOOLEAN]
         /\ calls' \in [Calls -> CallRecords \cup {Nil}]
         /\ T!cards' = T!Shown(l, f)
         /\ \A t \in Torrents : star'[t] => star[t] /\ t \in T!cards /\ t \in T!cards'
  <1>1. list' = l /\ T!cards' = T!Shown(l, f)
    BY DEF T!Render, T!cards
  <1>2. ASSUME NEW t \in Torrents
        PROVE  star'[t] \in BOOLEAN /\ (star'[t] => star[t] /\ t \in T!cards /\ t \in T!cards')
    BY <1>1, NewCards DEF T!Render, ListType
  <1>3. calls' \in [Calls -> CallRecords \cup {Nil}]
    <2>1. ASSUME NEW r \in CallRecords PROVE [r EXCEPT !.card = FALSE] \in CallRecords
      <3>1. r \in StarCalls => [r EXCEPT !.card = FALSE] \in StarCalls
        BY DEF StarCalls
      <3>2. r \in OtherCalls => [r EXCEPT !.card = FALSE] \in OtherCalls
        BY DEF OtherCalls
      <3>3. QED
        BY <3>1, <3>2 DEF CallRecords
    <2>2. ASSUME NEW c \in Calls PROVE calls[c] \in CallRecords \/ calls[c] = Nil
      BY DEF ListType
    <2>3. QED
      BY <2>1, <2>2 DEF T!Render
  <1>4. star' = [t \in Torrents |-> star'[t]]
    BY DEF T!Render
  <1>5. QED
    BY <1>1, <1>2, <1>3, <1>4

LEMMA ListTypeStep == ListType /\ [T!Next]_(T!vars) => ListType'
  <1> SUFFICES ASSUME ListType, [T!Next]_(T!vars) PROVE ListType'
    OBVIOUS
  <1> USE DEF T!server, T!client, T!window, T!history
  <1>1. ASSUME NEW t \in Torrents, T!Progress(t) PROVE ListType'
    BY <1>1 DEF T!Progress, ListType, T!Statuses
  <1>2. ASSUME NEW t \in Torrents, NEW c \in Calls,
               T!AddTorrent(c, t) \/ T!Click(c, t) \/ T!Toggle(c, t) \/ T!SaveLimits(c, t) \/ T!SaveSchedule(c, t)
        PROVE  ListType'
    <2>1. UNCHANGED <<known, status, limits, list, star, poll>>
      BY <1>2 DEF T!AddTorrent, T!Click, T!Toggle, T!SaveLimits, T!SaveSchedule
    <2>2. calls' \in [Calls -> CallRecords \cup {Nil}]
      <3>1. ASSUME NEW op \in {"add", "pause", "resume", "delete", "limits", "schedule"},
                   NEW value \in {0, 1}, T!Send(c, op, t, value)
            PROVE  calls' \in [Calls -> CallRecords \cup {Nil}]
        BY <3>1 DEF T!Send, ListType, CallRecords, OtherCalls
      <3>2. ASSUME NEW value \in BOOLEAN, T!Send(c, "favorite", t, value)
            PROVE  calls' \in [Calls -> CallRecords \cup {Nil}]
        BY <3>2 DEF T!Send, ListType, CallRecords, StarCalls
      <3>3. (~star[t]) \in BOOLEAN
        BY DEF ListType
      <3>4. QED
        BY <1>2, <3>1, <3>2, <3>3 DEF T!AddTorrent, T!Click, T!Offers, T!Toggle, T!SaveLimits, T!SaveSchedule
    <2>3. QED
      BY <2>1, <2>2 DEF ListType
  <1>3. ASSUME NEW c \in Calls, T!Serve(c) PROVE ListType'
    <2>1. calls[c] \in CallRecords /\ UNCHANGED <<list, star, poll>>
      BY <1>3 DEF T!Serve, ListType
    <2>2. calls' \in [Calls -> CallRecords \cup {Nil}]
      BY <1>3, <2>1 DEF T!Serve, ListType, CallRecords, StarCalls, OtherCalls
    <2>3. known' \in SUBSET Torrents
      BY <1>3, <2>1 DEF T!Serve, T!Done, ListType, CallRecords, StarCalls, OtherCalls
    <2>4. status' \in [Torrents -> T!Statuses]
      BY <1>3, <2>1 DEF T!Serve, T!Done, ListType, CallRecords, StarCalls, OtherCalls, T!Statuses
    <2>5. limits' \in [Torrents -> {0, 1}]
      BY <1>3, <2>1 DEF T!Serve, T!LimitsAfter, ListType, CallRecords, StarCalls, OtherCalls
    <2>6. QED
      BY <2>1, <2>2, <2>3, <2>4, <2>5 DEF ListType
  <1>4. ASSUME NEW c \in Calls, T!Answered(c) PROVE ListType'
    <2>1. star' \in [Torrents -> BOOLEAN]
      BY <1>4 DEF T!Answered, T!NewStar, ListType, CallRecords, StarCalls, OtherCalls
    <2>2. poll'.list \in TorrentLists
      BY <1>4 DEF T!Answered, T!Updated, T!Asked, ListType, TorrentLists
    <2>3. QED
      BY <1>4, <2>1, <2>2 DEF T!Answered, ListType
  <1>5. ASSUME NEW c \in Calls, T!Lost(c) PROVE ListType'
    BY <1>5 DEF T!Lost, ListType
  <1>6. ASSUME NEW f \in T!Filters, T!ChooseFilter(f) PROVE ListType'
    BY <1>6, Rendered DEF T!ChooseFilter, ListType
  <1>7. CASE T!PollArrives
    BY <1>7, Rendered DEF T!PollArrives, ListType, T!Idle, TorrentLists
  <1>8. CASE T!PollAsked \/ T!PollServed \/ T!PollFails
    BY <1>8, GetTorrentsType DEF T!PollAsked, T!PollServed, T!PollFails, T!AfterFailure, T!Asked, T!Idle, ListType, TorrentLists
  <1>9. CASE T!EventsAsked \/ T!EventsAnswered \/ UNCHANGED T!vars
    BY <1>9 DEF T!EventsAsked, T!EventsAnswered, T!vars, ListType
  <1>10. QED
    BY <1>1, <1>2, <1>3, <1>4, <1>5, <1>6, <1>7, <1>8, <1>9 DEF T!Next

\* What the page was told is gone is not there, nor in a list that comes; and
\* what is not there has no limits.
GoneIsUnknown ==
  /\ goneTorrents \cap known = {}
  /\ poll.at = "served" => \A t \in goneTorrents : poll.list = Nil \/ t \notin DOMAIN poll.list

GhostsInv == ListType /\ GoneIsUnknown /\ T!LimitsEndWithTorrents

LEMMA GhostsStep == GhostsInv /\ [T!Next]_(T!vars) => GhostsInv'
  <1> SUFFICES ASSUME GhostsInv, [T!Next]_(T!vars) PROVE GhostsInv'
    OBVIOUS
  <1> USE DEF GhostsInv, GoneIsUnknown, T!LimitsEndWithTorrents, T!server, T!client, T!window, T!history
  <1>0. ListType'
    BY ListTypeStep
  <1>1. ASSUME NEW t \in Torrents, T!Progress(t) PROVE GhostsInv'
    BY <1>0, <1>1 DEF T!Progress
  <1>2. ASSUME NEW t \in Torrents, NEW c \in Calls,
               T!AddTorrent(c, t) \/ T!Click(c, t) \/ T!Toggle(c, t) \/ T!SaveLimits(c, t) \/ T!SaveSchedule(c, t)
        PROVE  GhostsInv'
    BY <1>0, <1>2 DEF T!AddTorrent, T!Click, T!Toggle, T!SaveLimits, T!SaveSchedule
  <1>3. ASSUME NEW c \in Calls, T!Serve(c) PROVE GhostsInv'
    <2>1. UNCHANGED poll
      BY <1>3 DEF T!Serve
    <2>2. calls[c] \in CallRecords
      BY <1>3 DEF T!Serve, ListType
    <2>3. CASE UNCHANGED <<known, limits, goneTorrents>>
      BY <1>0, <2>1, <2>3
    <2>4. CASE /\ T!Done(calls[c].op, calls[c].t)
               /\ limits' = T!LimitsAfter(calls[c].op, calls[c].t, calls[c].value)
               /\ goneTorrents' = IF calls[c].op = "add" THEN goneTorrents \ {calls[c].t} ELSE goneTorrents
      <3>1. goneTorrents' \cap known' = {} /\ goneTorrents' \subseteq goneTorrents
        BY <2>4 DEF T!Done
      <3>2. ASSUME NEW t \in Torrents, limits'[t] # 0 PROVE t \in known'
        BY <2>2, <2>4, <3>2 DEF T!Done, T!LimitsAfter, ListType, CallRecords, StarCalls, OtherCalls
      <3>3. QED
        BY <1>0, <2>1, <3>1, <3>2
    <2>5. QED
      BY <1>3, <2>3, <2>4 DEF T!Serve
  <1>4. ASSUME NEW c \in Calls, T!Answered(c) PROVE GhostsInv'
    <2>1. UNCHANGED <<known, limits>>
      BY <1>4 DEF T!Answered
    <2>2. CASE calls[c].op = "delete"
      BY <1>0, <1>4, <2>1, <2>2 DEF T!Answered, T!Updated, T!Asked
    <2>3. CASE calls[c].op # "delete"
      BY <1>0, <1>4, <2>1, <2>3 DEF T!Answered, T!Updated, T!Asked
    <2>4. QED
      BY <2>2, <2>3
  <1>5. ASSUME NEW c \in Calls, T!Lost(c) PROVE GhostsInv'
    BY <1>0, <1>5 DEF T!Lost
  <1>6. ASSUME NEW f \in T!Filters, T!ChooseFilter(f) PROVE GhostsInv'
    BY <1>0, <1>6 DEF T!ChooseFilter
  <1>7. CASE T!PollAsked \/ T!PollFails \/ T!PollArrives
    BY <1>0, <1>7 DEF T!PollAsked, T!PollFails, T!PollArrives, T!AfterFailure, T!Asked, T!Idle
  <1>8. CASE T!PollServed
    BY <1>0, <1>8 DEF T!PollServed, T!GetTorrents
  <1>9. CASE T!EventsAsked \/ T!EventsAnswered \/ UNCHANGED T!vars
    BY <1>0, <1>9 DEF T!EventsAsked, T!EventsAnswered, T!vars
  <1>10. QED
    BY <1>1, <1>2, <1>3, <1>4, <1>5, <1>6, <1>7, <1>8, <1>9 DEF T!Next

\* The calls for the star of t.
AsksStar(c, t) == calls[c] # Nil /\ calls[c].op = "favorite" /\ calls[c].t = t
Trusted == Torrents \ (refused \cup mixed)

SameStar ==
  \A t \in Trusted : \A c, d \in Calls :
    AsksStar(c, t) /\ AsksStar(d, t) => calls[c].value = calls[d].value

DoneIsKept ==
  \A t \in Trusted : \A c \in Calls :
    AsksStar(c, t) /\ calls[c].at # "sent" => (calls[c].value <=> t \in favorites)

StarIsKept ==
  \A t \in Trusted :
    star[t] =>
      /\ t \in T!cards
      /\ t \in favorites \/ \E c \in Calls : AsksStar(c, t) /\ ~calls[c].value
      /\ \A c \in Calls : AsksStar(c, t) /\ ~calls[c].value => calls[c].card

\* That there is no call, is not a call.
NilIsNoCall == Nil \notin CallRecords

StarsInv == ListType /\ SameStar /\ DoneIsKept /\ StarIsKept

\* What neither the stars nor their requests see, changes nothing.
LEMMA StarsStay ==
  ASSUME StarsInv, ListType', Trusted' \subseteq Trusted, favorites' = favorites,
         \A t \in Trusted', c \in Calls :
            AsksStar(c, t)' =>
              AsksStar(c, t) /\ calls'[c].value = calls[c].value /\ calls'[c].at = calls[c].at
              /\ (star'[t] => (calls'[c].card <=> calls[c].card)),
         \A t \in Trusted', c \in Calls : AsksStar(c, t) => AsksStar(c, t)' /\ calls'[c].value = calls[c].value,
         \A t \in Trusted' : star'[t] => star[t] /\ t \in T!cards'
  PROVE  StarsInv'
  <1> USE DEF StarsInv
  <1>1. SameStar'
    BY DEF SameStar
  <1>2. DoneIsKept'
    BY DEF DoneIsKept
  <1>3. StarIsKept'
    BY DEF StarIsKept
  <1>4. QED
    BY <1>1, <1>2, <1>3

LEMMA StarsStep == NilIsNoCall /\ StarsInv /\ [T!Next]_(T!vars) => StarsInv'
  <1> SUFFICES ASSUME NilIsNoCall, StarsInv, [T!Next]_(T!vars) PROVE StarsInv'
    OBVIOUS
  <1> USE DEF T!server, T!client, T!window, T!history
  <1>0. ListType /\ ListType'
    BY ListTypeStep DEF StarsInv
  <1>1. ASSUME UNCHANGED <<favorites, refused, mixed, star, list, filter, calls>> PROVE StarsInv'
    BY <1>0, <1>1, StarsStay DEF AsksStar, Trusted, T!cards, StarsInv, StarIsKept
  <1>2. ASSUME NEW t \in Torrents, NEW c \in Calls, NEW op, NEW value, op # "favorite",
               T!Send(c, op, t, value), UNCHANGED <<favorites, refused, mixed, star, list, filter>>
        PROVE  StarsInv'
    <2>1. \A u \in Torrents, d \in Calls : (AsksStar(d, u)' <=> AsksStar(d, u)) /\ (AsksStar(d, u) => calls'[d] = calls[d])
      BY <1>0, <1>2 DEF T!Send, AsksStar, ListType
    <2>2. Trusted' = Trusted /\ T!cards' = T!cards
      BY <1>2 DEF Trusted, T!cards
    <2>3. \A u \in Trusted : star[u] => u \in T!cards
      BY DEF StarsInv, StarIsKept
    <2>4. QED
      BY <1>0, <1>2, <2>1, <2>2, <2>3, StarsStay DEF Trusted
  <1>3. ASSUME NEW t \in Torrents, NEW c \in Calls, T!Toggle(c, t) PROVE StarsInv'
    <2>1. /\ UNCHANGED <<favorites, refused, star, list, filter>> /\ t \in T!cards
          /\ Trusted' \subseteq Trusted /\ T!cards' = T!cards
      BY <1>3 DEF T!Toggle, Trusted, T!cards
    <2>2. calls' = [calls EXCEPT ![c] = [op |-> "favorite", t |-> t, value |-> ~star[t], at |-> "sent", card |-> TRUE]]
          /\ calls[c] = Nil
      BY <1>3, <2>1 DEF T!Toggle, T!Send
    <2>3. star[t] \in BOOLEAN /\ calls'[c].value = ~star[t] /\ calls'[c].card = TRUE /\ calls'[c].at = "sent"
      BY <1>0, <2>2 DEF ListType
    <2>4. \A d \in Calls \ {c} : calls'[d] = calls[d]
      BY <1>0, <2>2 DEF ListType
    <2>5. \A u \in Torrents : AsksStar(c, u)' => u = t
      <3>1. calls'[c].t = t
        BY <1>0, <2>2 DEF ListType
      <3>2. QED
        BY <3>1 DEF AsksStar
    <2>6. t \in Trusted' => \A d \in Calls \ {c} : AsksStar(d, t) => calls[d].value # star[t] /\ calls[d].value \in BOOLEAN
      BY <1>0, <1>3 DEF T!Toggle, Trusted, AsksStar, ListType, CallRecords, StarCalls, OtherCalls
    <2>7. SameStar'
      <3> SUFFICES ASSUME NEW u \in Trusted', NEW d \in Calls, NEW e \in Calls, AsksStar(d, u)', AsksStar(e, u)'
                   PROVE  calls'[d].value = calls'[e].value
        BY DEF SameStar
      <3>1. CASE d # c /\ e # c
        BY <2>1, <2>4, <3>1 DEF SameStar, StarsInv, AsksStar
      <3>2. CASE d = c \/ e = c
        <4>1. u = t
          BY <2>5, <3>2 DEF Trusted
        <4>2. \A x \in Calls : AsksStar(x, t)' => calls'[x].value = ~star[t]
          BY <2>3, <2>4, <2>6, <4>1 DEF AsksStar
        <4>3. QED
          BY <4>1, <4>2
      <3>3. QED
        BY <3>1, <3>2
    <2>8. DoneIsKept'
      BY <2>1, <2>3, <2>4 DEF DoneIsKept, StarsInv, AsksStar
    <2>9. StarIsKept'
      <3> SUFFICES ASSUME NEW u \in Trusted', star'[u]
                   PROVE  /\ u \in T!cards'
                          /\ u \in favorites' \/ \E d \in Calls : AsksStar(d, u)' /\ ~calls'[d].value
                          /\ \A d \in Calls : AsksStar(d, u)' /\ ~calls'[d].value => calls'[d].card
        BY DEF StarIsKept
      <3>1. /\ u \in T!cards /\ u \in Trusted
            /\ u \in favorites \/ \E d \in Calls : AsksStar(d, u) /\ ~calls[d].value
            /\ \A d \in Calls : AsksStar(d, u) /\ ~calls[d].value => calls[d].card
        BY <2>1 DEF StarsInv, StarIsKept
      <3>2. \A d \in Calls : AsksStar(d, u) => d # c /\ AsksStar(d, u)'
        BY <2>2, <2>4 DEF AsksStar
      <3>3. QED
        BY <2>1, <2>3, <2>4, <3>1, <3>2 DEF AsksStar
    <2>10. QED
      BY <1>0, <2>7, <2>8, <2>9 DEF StarsInv
  <1>4. ASSUME NEW c \in Calls, T!Serve(c) PROVE StarsInv'
    <2>1. calls[c] \in CallRecords /\ UNCHANGED <<list, filter, star, mixed>> /\ T!cards' = T!cards /\ calls[c] # Nil
      BY <1>4 DEF T!Serve, ListType, StarsInv, T!cards
    <2>2. PICK at \in {"done", "refused"} : calls' = [calls EXCEPT ![c].at = at] /\ (at = "done" => ~T!Refuses(calls[c].op, calls[c].t))
      BY <1>4 DEF T!Serve
    <2>3. /\ \A d \in Calls \ {c} : calls'[d] = calls[d]
          /\ calls'[c] = [calls[c] EXCEPT !.at = at] /\ calls'[c] # Nil
      <3>1. [calls[c] EXCEPT !.at = at] \in CallRecords
        BY <2>1, <2>2 DEF CallRecords, StarCalls, OtherCalls
      <3>2. QED
        BY <1>0, <2>2, <3>1 DEF ListType, NilIsNoCall
    <2>4. /\ calls'[c].op = calls[c].op /\ calls'[c].t = calls[c].t /\ calls'[c].value = calls[c].value
          /\ calls'[c].card = calls[c].card /\ calls'[c].at = at
      BY <2>1, <2>3 DEF CallRecords, StarCalls, OtherCalls
    <2>5. \A u \in Torrents, d \in Calls :
             /\ AsksStar(d, u)' <=> AsksStar(d, u)
             /\ AsksStar(d, u) => calls'[d].value = calls[d].value /\ calls'[d].card = calls[d].card
      BY <2>1, <2>3, <2>4 DEF AsksStar
    <2>6. CASE calls[c].op # "favorite"
      <3>1. UNCHANGED <<favorites, refused>>
        BY <1>4, <2>6 DEF T!Serve
      <3>2. \A u \in Torrents, d \in Calls : AsksStar(d, u) => calls'[d] = calls[d]
        BY <2>3, <2>6 DEF AsksStar
      <3>3. QED
        BY <1>0, <2>1, <2>5, <3>1, <3>2, StarsStay DEF Trusted, StarsInv, StarIsKept
    <2>7. CASE calls[c].op = "favorite"
      <3> DEFINE t == calls[c].t
      <3>1. t \in Torrents /\ calls[c].value \in BOOLEAN /\ AsksStar(c, t)
        BY <2>1, <2>7 DEF CallRecords, StarCalls, OtherCalls, AsksStar
      <3>2. /\ Trusted' \subseteq Trusted
            /\ t \in Trusted' => favorites' = IF calls[c].value THEN favorites \cup {t} ELSE favorites \ {t}
            /\ \A u \in Torrents \ {t} : u \in favorites' <=> u \in favorites
        BY <1>4, <2>7, <3>1 DEF T!Serve, Trusted
      <3>3. SameStar'
        BY <2>5, <3>2 DEF SameStar, StarsInv, Trusted
      <3>4. t \in Trusted' => \A d \in Calls : AsksStar(d, t) => calls[d].value = calls[c].value
        BY <3>1, <3>2 DEF SameStar, StarsInv
      <3>5. t \in Trusted' => (t \in favorites' <=> calls[c].value)
        BY <3>1, <3>2
      <3>6. DoneIsKept'
        <4> SUFFICES ASSUME NEW u \in Trusted', NEW d \in Calls, AsksStar(d, u)', calls'[d].at # "sent"
                     PROVE  calls'[d].value <=> u \in favorites'
          BY DEF DoneIsKept
        <4>0. u \in Torrents /\ AsksStar(d, u) /\ calls'[d].value = calls[d].value
          BY <2>5 DEF Trusted
        <4>1. CASE u = t
          BY <3>4, <3>5, <4>0, <4>1
        <4>2. CASE u # t
          <5>1. d # c
            BY <4>0, <4>2 DEF AsksStar
          <5>2. calls[d].value <=> u \in favorites
            BY <2>3, <3>2, <4>0, <5>1 DEF DoneIsKept, StarsInv
          <5>3. QED
            BY <3>2, <4>0, <4>2, <5>2
        <4>3. QED
          BY <4>1, <4>2
      <3>7. StarIsKept'
        <4> SUFFICES ASSUME NEW u \in Trusted', star'[u]
                     PROVE  /\ u \in T!cards'
                            /\ u \in favorites' \/ \E d \in Calls : AsksStar(d, u)' /\ ~calls'[d].value
                            /\ \A d \in Calls : AsksStar(d, u)' /\ ~calls'[d].value => calls'[d].card
          BY DEF StarIsKept
        <4>0. /\ u \in Trusted /\ u \in T!cards /\ u \in Torrents
              /\ u \in favorites \/ \E d \in Calls : AsksStar(d, u) /\ ~calls[d].value
              /\ \A d \in Calls : AsksStar(d, u) /\ ~calls[d].value => calls[d].card
          BY <2>1, <3>2 DEF StarsInv, StarIsKept, Trusted
        <4>1. \A d \in Calls : AsksStar(d, u)' /\ ~calls'[d].value => calls'[d].card
          BY <2>5, <4>0
        <4>2. u \in favorites' \/ \E d \in Calls : AsksStar(d, u)' /\ ~calls'[d].value
          <5>1. CASE u = t
            BY <2>5, <3>1, <3>5, <5>1
          <5>2. CASE u # t
            BY <2>5, <3>2, <4>0, <5>2
          <5>3. QED
            BY <5>1, <5>2
        <4>3. QED
          BY <2>1, <4>0, <4>1, <4>2
      <3>8. QED
        BY <1>0, <3>3, <3>6, <3>7 DEF StarsInv
    <2>8. QED
      BY <2>6, <2>7
  <1>5. ASSUME NEW c \in Calls, T!Answered(c) PROVE StarsInv'
    <2>1. /\ calls[c] \in CallRecords /\ calls[c] # Nil /\ calls[c].at # "sent"
          /\ UNCHANGED <<list, filter, favorites, refused, mixed>>
          /\ Trusted' = Trusted /\ T!cards' = T!cards
      BY <1>5 DEF T!Answered, ListType, StarsInv, T!cards, Trusted
    <2>2. calls'[c] = Nil /\ \A d \in Calls \ {c} : calls'[d] = calls[d]
      BY <1>0, <1>5 DEF T!Answered, ListType
    <2>3. \A u \in Torrents, d \in Calls :
             /\ AsksStar(d, u)' <=> AsksStar(d, u) /\ d # c
             /\ AsksStar(d, u)' => calls'[d] = calls[d]
      BY <2>2 DEF AsksStar
    <2>4. SameStar' /\ DoneIsKept'
      BY <2>1, <2>3 DEF SameStar, DoneIsKept, StarsInv, Trusted
    <2>5. StarIsKept'
      <3> SUFFICES ASSUME NEW u \in Trusted, star'[u]
                   PROVE  /\ u \in T!cards
                          /\ u \in favorites \/ \E d \in Calls : AsksStar(d, u) /\ d # c /\ ~calls[d].value
                          /\ \A d \in Calls : AsksStar(d, u) /\ d # c /\ ~calls[d].value => calls[d].card
        BY <2>1, <2>3 DEF StarIsKept, Trusted
      <3>1. CASE ~AsksStar(c, u)
        <4>1. star'[u] = star[u]
          BY <1>0, <1>5, <2>1, <3>1 DEF T!Answered, AsksStar, ListType, Trusted
        <4>2. QED
          BY <3>1, <4>1 DEF StarsInv, StarIsKept
      <3>2. CASE AsksStar(c, u)
        <4>1. calls[c].value \in BOOLEAN /\ calls[c].card \in BOOLEAN
          BY <2>1, <3>2 DEF AsksStar, CallRecords, StarCalls, OtherCalls
        <4>2. calls[c].value <=> u \in favorites
          BY <2>1, <3>2 DEF DoneIsKept, StarsInv
        <4>3. \A d \in Calls : AsksStar(d, u) => calls[d].value = calls[c].value
          BY <3>2 DEF SameStar, StarsInv
        <4>4. CASE calls[c].card /\ u \in T!cards
          <5>1. star'[u] = calls[c].value
            BY <1>0, <1>5, <3>2, <4>4 DEF T!Answered, T!NewStar, AsksStar, ListType, Trusted
          <5>2. QED
            BY <4>2, <4>3, <4>4, <5>1
        <4>5. CASE ~(calls[c].card /\ u \in T!cards)
          <5>1. star'[u] = star[u]
            BY <1>0, <1>5, <3>2, <4>5 DEF T!Answered, AsksStar, ListType, Trusted
          <5>2. u \in T!cards /\ (~calls[c].value => calls[c].card)
            BY <3>2, <5>1 DEF StarsInv, StarIsKept
          <5>3. QED
            BY <4>1, <4>2, <4>3, <4>5, <5>2
        <4>6. QED
          BY <4>4, <4>5
      <3>3. QED
        BY <3>1, <3>2
    <2>6. QED
      BY <1>0, <2>4, <2>5 DEF StarsInv
  <1>6. ASSUME NEW c \in Calls, T!Lost(c) PROVE StarsInv'
    <2>1. /\ UNCHANGED <<list, filter, star, favorites, mixed>> /\ T!cards' = T!cards /\ Trusted' \subseteq Trusted
          /\ calls[c] # Nil /\ calls[c] \in CallRecords
      BY <1>6 DEF T!Lost, T!cards, Trusted, StarsInv, ListType
    <2>2. calls'[c] = Nil /\ \A d \in Calls \ {c} : calls'[d] = calls[d]
      BY <1>0, <1>6 DEF T!Lost, ListType
    <2>3. \A u \in Trusted' : ~AsksStar(c, u)
      BY <1>6 DEF T!Lost, AsksStar, Trusted
    <2>4. \A u \in Trusted', d \in Calls : (AsksStar(d, u)' <=> AsksStar(d, u)) /\ (AsksStar(d, u) => calls'[d] = calls[d])
      BY <2>2, <2>3 DEF AsksStar
    <2>5. QED
      BY <1>0, <2>1, <2>4, StarsStay DEF StarsInv, StarIsKept
  <1>7. ASSUME NEW l \in TorrentLists, NEW f, T!Render(l, f), UNCHANGED <<favorites, refused, mixed>>
        PROVE  StarsInv'
    <2>1. \A t \in Torrents : star'[t] => star[t] /\ t \in T!cards /\ t \in T!cards'
      BY <1>0, <1>7, Rendered
    <2>2. T!cards' = T!Shown(l, f) /\ Trusted' = Trusted
      BY <1>0, <1>7, Rendered DEF Trusted
    <2>3. ASSUME NEW t \in Trusted, NEW c \in Calls
          PROVE  /\ AsksStar(c, t)' <=> AsksStar(c, t)
                 /\ AsksStar(c, t) => calls'[c].value = calls[c].value /\ calls'[c].at = calls[c].at
                                      /\ (star'[t] => calls'[c].card = calls[c].card)
      <3>1. calls'[c] = IF calls[c] # Nil /\ calls[c].t \notin T!Shown(l, f) THEN [calls[c] EXCEPT !.card = FALSE] ELSE calls[c]
        BY <1>7 DEF T!Render
      <3>2. CASE calls[c] = Nil \/ calls[c].t \in T!Shown(l, f)
        BY <3>1, <3>2 DEF AsksStar
      <3>3. CASE calls[c] # Nil /\ calls[c].t \notin T!Shown(l, f)
        <4>1. calls[c] \in CallRecords
          BY <1>0, <3>3 DEF ListType
        <4>2. /\ calls'[c].op = calls[c].op /\ calls'[c].t = calls[c].t /\ calls'[c].value = calls[c].value
              /\ calls'[c].at = calls[c].at
          BY <3>1, <3>3, <4>1 DEF CallRecords, StarCalls, OtherCalls
        <4>3. calls'[c] # Nil
          <5>1. [calls[c] EXCEPT !.card = FALSE] \in CallRecords
            BY <4>1 DEF CallRecords, StarCalls, OtherCalls
          <5>2. QED
            BY <3>1, <3>3, <5>1 DEF NilIsNoCall
        <4>4. AsksStar(c, t) => ~star'[t]
          BY <2>1, <2>2, <3>3 DEF AsksStar, Trusted
        <4>5. QED
          BY <3>3, <4>2, <4>3, <4>4 DEF AsksStar
      <3>4. QED
        BY <3>2, <3>3
    <2>4. QED
      BY <1>0, <1>7, <2>1, <2>2, <2>3, StarsStay DEF Trusted
  <1>8. ASSUME NEW t \in Torrents, T!Progress(t) PROVE StarsInv'
    BY <1>1, <1>8 DEF T!Progress
  <1>9. ASSUME NEW t \in Torrents, NEW c \in Calls,
               T!AddTorrent(c, t) \/ T!Click(c, t) \/ T!SaveLimits(c, t) \/ T!SaveSchedule(c, t)
        PROVE  StarsInv'
    BY <1>2, <1>9 DEF T!AddTorrent, T!Click, T!Offers, T!SaveLimits, T!SaveSchedule
  <1>10. ASSUME NEW f \in T!Filters, T!ChooseFilter(f) PROVE StarsInv'
    BY <1>0, <1>7, <1>10 DEF T!ChooseFilter, ListType
  <1>11. CASE T!PollArrives
    BY <1>0, <1>7, <1>11 DEF T!PollArrives, ListType
  <1>12. CASE T!PollAsked \/ T!PollServed \/ T!PollFails \/ T!EventsAsked \/ T!EventsAnswered
    BY <1>1, <1>12 DEF T!PollAsked, T!PollServed, T!PollFails, T!EventsAsked, T!EventsAnswered
  <1>13. CASE UNCHANGED T!vars
    BY <1>1, <1>13 DEF T!vars
  <1>14. QED
    BY <1>3, <1>4, <1>5, <1>6, <1>8, <1>9, <1>10, <1>11, <1>12, <1>13 DEF T!Next

\* At first there is neither a star nor a torrent.
LEMMA TorrentsInit == Nil \notin CallRecords /\ T!Init => GhostsInv /\ StarsInv
  <1> SUFFICES ASSUME T!Init PROVE GhostsInv /\ StarsInv
    OBVIOUS
  <1>1. ListType
    BY DEF T!Init, ListType, T!Statuses, T!Idle, TorrentLists
  <1>2. GoneIsUnknown /\ T!LimitsEndWithTorrents
    BY DEF T!Init, GoneIsUnknown, T!LimitsEndWithTorrents, T!Idle
  <1>3. SameStar /\ DoneIsKept /\ StarIsKept
    BY DEF T!Init, SameStar, DoneIsKept, StarIsKept, AsksStar, Trusted
  <1>4. QED
    BY <1>1, <1>2, <1>3 DEF GhostsInv, StarsInv

\* A star on show while no request is under way is kept.
LEMMA StarsAreHonest == StarsInv => T!StarIsHonest
  BY DEF StarsInv, StarIsKept, Trusted, AsksStar, T!StarIsHonest, T!cards, T!Shown, ListType, TorrentLists

\* A list that arrives does not bring a deleted torrent back.
LEMMA ArrivesWithoutGhosts ==
  ASSUME GhostsInv, T!PollArrives, NEW t \in goneTorrents \ known
  PROVE  list' = Nil \/ t \notin DOMAIN list'
  BY DEF GhostsInv, GoneIsUnknown, T!PollArrives, T!Render

(***************************************************************************)
(* A star on show is one that the backend keeps, limits end with their     *)
(* torrent, and no list brings back a torrent whose deletion was confirmed *)
(* (app/torrents/page.tsx, torrent-card.tsx; api/handlers.go).             *)
(***************************************************************************)
THEOREM SpecListIsHonest == Nil \notin CallRecords => (T!Spec => ListIsHonest)
  <1> SUFFICES ASSUME Nil \notin CallRecords PROVE T!Spec => ListIsHonest
    OBVIOUS
  <1>1. T!Init => GhostsInv /\ StarsInv
    BY TorrentsInit
  <1>2. GhostsInv /\ [T!Next]_(T!vars) => GhostsInv'
    BY GhostsStep
  <1>3. StarsInv /\ [T!Next]_(T!vars) => StarsInv'
    BY StarsStep DEF NilIsNoCall
  <1>4. GhostsInv => T!LimitsEndWithTorrents
    BY DEF GhostsInv
  <1>5. StarsInv => T!StarIsHonest
    BY StarsAreHonest
  <1>6. GhostsInv => [T!PollArrives => \A t \in goneTorrents \ known : list' = Nil \/ t \notin DOMAIN list']_(T!vars)
    BY ArrivesWithoutGhosts
  <1>7. QED
    BY <1>1, <1>2, <1>3, <1>4, <1>5, <1>6, PTL DEF T!Spec, ListIsHonest, T!ListIsHonest, T!NoGhosts

-----------------------------------------------------------------------------
(* The settings.  The general form has, in the fields that nobody edited,  *)
(* what it was loaded with, and so does the copy that a save sends.        *)

Forms == [limit : S!Limits, path : S!Places \cup {S!Blank}, advanced : S!Advanced]
Contents == [limit : S!Limits, path : S!Places \cup {S!Blank}]
Fields == {"limit", "path", "advanced"}
DialogCalls ==
  [kind : {"general"}, req : Forms, base : Contents \cup {Nil}, touched : SUBSET Fields]
    \cup [kind : {"security"}, req : S!Security, base : Contents \cup {Nil}, touched : SUBSET Fields]
    \cup [kind : {"kill", "delete"}, req : {Nil}, base : Contents \cup {Nil}, touched : SUBSET Fields]
Wizards ==
  [open : BOOLEAN, step : 1..4, config : S!Configs,
   posts : SUBSET ({"asked", "accepted", "refused"} \X S!Configs), completed : BOOLEAN,
   stored : S!Configs \cup {Nil}, accepted : SUBSET S!Configs]

\* The form in the fields that were not touched, of what it was loaded with.
Follows(form, content, fields) ==
  content # Nil => \A f \in S!General \ fields : form[f] = S!LoadedForm(content)[f]

FormFollows == Follows(settings, base, touched)
CallFollows == call # Nil /\ call.kind = "general" => Follows(call.req, call.base, call.touched)

DialogType ==
  /\ settings \in Forms /\ securitySettings \in S!Security
  /\ loads \in SUBSET (({"general"} \X Contents) \cup ({"security"} \X S!Security))
  /\ call \in DialogCalls \cup {Nil} /\ settingsIsLoading = (call # Nil)
  /\ base \in Contents \cup {Nil} /\ touched \in SUBSET Fields

Tables ==
  [limit : S!Limits, path : S!Places \cup {S!Blank}, noLogs : BOOLEAN,
   sharingDisabled : BOOLEAN, vpn : {"none", "tor"}]
BackendType ==
  /\ db \in Tables
  /\ live \in [noLogs : BOOLEAN, sharingDisabled : BOOLEAN]

WizardInv ==
  /\ wizard \in Wizards
  /\ \A c \in S!Configs : <<"accepted", c>> \in wizard.posts => c \in wizard.accepted

SettingsInv ==
  /\ DialogType /\ BackendType /\ WizardInv
  /\ FormFollows /\ CallFollows
  /\ S!NoLogsHolds /\ S!SetupWasAccepted

\* What the backend answers fits the forms.
LEMMA AnswersFit ==
  ASSUME BackendType, TorEnabled \in BOOLEAN
  PROVE  S!GetSettings \in Contents /\ S!GetSecurityConfig \in S!Security
  BY DEF BackendType, Tables, S!GetSettings, S!GetSecurityConfig, Contents, S!Security

\* A form that is loaded follows what it is loaded with.
LEMMA LoadedFollows ==
  ASSUME NEW loaded \in Contents
  PROVE  S!LoadedForm(loaded) \in Forms /\ Follows(S!LoadedForm(loaded), loaded, {})
  BY DEF S!LoadedForm, Contents, Forms, Follows, S!Advanced, S!Places

\* What the handlers store fits the table, and no-logs mode holds.
LEMMA GeneralStored ==
  ASSUME BackendType, NEW req \in Forms, S!UpdateSettings(req)
  PROVE  BackendType' /\ live' = live
  BY DEF BackendType, Tables, S!UpdateSettings, Forms

LEMMA SecurityStored ==
  ASSUME BackendType, NEW req \in S!Security, S!UpdateSecuritySettings(req)
  PROVE  BackendType' /\ S!NoLogsHolds'
  <1> DEFINE c == S!Forced(req)
  <1>1. c \in S!Security /\ (c.noLogs => c.sharingDisabled) /\ c.vpn = req.vpn
    BY DEF S!Forced, S!Security
  <1>2. db' = [db EXCEPT !.noLogs = c.noLogs, !.sharingDisabled = c.sharingDisabled, !.vpn = c.vpn]
        /\ live' = [noLogs |-> c.noLogs, sharingDisabled |-> c.sharingDisabled] /\ req.vpn # "vless"
    BY DEF S!UpdateSecuritySettings
  <1>3. QED
    BY <1>1, <1>2 DEF BackendType, Tables, S!Security, S!NoLogsHolds

LEMMA SetupStored ==
  ASSUME BackendType, S!NoLogsHolds, NEW req \in S!Configs, S!ApplyInitialConfig(req)
  PROVE  BackendType' /\ S!NoLogsHolds'
  BY DEF BackendType, Tables, S!ApplyInitialConfig, S!Configs, S!NoLogsHolds

LEMMA FirstTables == S!EmptyDb \in Tables /\ S!StoredDb \in Tables
  <1>1. S!EmptyDb \in Tables
    BY DEF Tables, S!EmptyDb, S!Limits
  <1>2. "/data" \in S!Places
    BY DEF S!Places
  <1>3. QED
    BY <1>1, <1>2 DEF Tables, S!StoredDb

LEMMA CleanupStored == ASSUME BackendType, S!CleanupData PROVE BackendType' /\ live' = live
  BY FirstTables DEF BackendType, S!CleanupData

\* What the wizard does, leaves the dialog as it is.
LEMMA DialogRests ==
  ASSUME SettingsInv, UNCHANGED <<S!dialog, loads, S!history>>
  PROVE  DialogType' /\ FormFollows' /\ CallFollows'
  BY DEF SettingsInv, DialogType, FormFollows, CallFollows, S!dialog, S!history

LEMMA SettingsInitOK == Nil \notin DialogCalls /\ S!Init => SettingsInv
  <1> SUFFICES ASSUME S!Init PROVE SettingsInv
    OBVIOUS
  <1> USE DEF S!Init
  <1>1. DialogType
    BY DEF DialogType, S!InitialForm, S!InitialSecurity, Forms, S!Limits, S!Places, S!Advanced, S!Security
  <1>2. BackendType
    BY FirstTables DEF BackendType
  <1>3. WizardInv
    BY DEF WizardInv, Wizards, S!InitialConfig, S!Configs
  <1>4. QED
    BY <1>1, <1>2, <1>3 DEF SettingsInv, FormFollows, CallFollows, Follows, S!NoLogsHolds, S!SetupWasAccepted

LEMMA SettingsStep ==
  Nil \notin DialogCalls /\ TorEnabled \in BOOLEAN /\ SettingsInv /\ [S!Next]_(S!vars) => SettingsInv'
  <1> SUFFICES ASSUME Nil \notin DialogCalls, TorEnabled \in BOOLEAN, SettingsInv, [S!Next]_(S!vars)
               PROVE  SettingsInv'
    OBVIOUS
  <1> USE DEF SettingsInv
  \* The dialog: the backend and the wizard rest.
  <1>1. ASSUME UNCHANGED <<db, live, wizard>>, DialogType', FormFollows', CallFollows'
        PROVE  SettingsInv'
    BY <1>1 DEF BackendType, WizardInv, S!NoLogsHolds, S!SetupWasAccepted
  <1>2. ASSUME UNCHANGED <<settings, securitySettings, call, settingsIsLoading, db, live, wizard, base, touched>>,
               loads' \in SUBSET (({"general"} \X Contents) \cup ({"security"} \X S!Security))
        PROVE  SettingsInv'
    BY <1>1, <1>2 DEF DialogType, FormFollows, CallFollows
  <1>3. CASE S!Open \/ S!Close \/ S!Reset(S!fetchSettings) \/ S!Reset(S!fetchSecuritySettings)
             \/ \E shown1 \in BOOLEAN : S!ShowDeleteConfirm(shown1)
    <2>1. UNCHANGED <<settings, securitySettings, call, settingsIsLoading, db, live, wizard, base, touched>>
      BY <1>3 DEF S!Open, S!Close, S!Reset, S!ShowDeleteConfirm, S!dialog, S!history
    <2>2. loads' \subseteq loads \cup {S!fetchSettings, S!fetchSecuritySettings}
      BY <1>3 DEF S!Open, S!Close, S!Reset, S!ShowDeleteConfirm
    <2>3. S!fetchSettings \in {"general"} \X Contents /\ S!fetchSecuritySettings \in {"security"} \X S!Security
      BY AnswersFit DEF S!fetchSettings, S!fetchSecuritySettings
    <2>4. QED
      BY <1>2, <2>1, <2>2, <2>3 DEF DialogType
  <1>4. ASSUME NEW load \in loads, S!Loaded(load) PROVE SettingsInv'
    <2>1. UNCHANGED <<call, settingsIsLoading, db, live, wizard>> /\ loads' \subseteq loads
      BY <1>4 DEF S!Loaded
    <2>2. CASE load[1] = "general"
      <3>1. load[2] \in Contents
        BY <2>2 DEF DialogType
      <3>2. settings' = S!LoadedForm(load[2]) /\ base' = load[2] /\ touched' = {} /\ UNCHANGED securitySettings
        BY <1>4, <2>2 DEF S!Loaded
      <3>3. QED
        BY <1>1, <2>1, <3>1, <3>2, LoadedFollows DEF DialogType, FormFollows, CallFollows
    <2>3. CASE load[1] # "general"
      <3>1. load[2] \in S!Security
        BY <2>3 DEF DialogType
      <3>2. securitySettings' = load[2] /\ UNCHANGED <<settings, base, touched>>
        BY <1>4, <2>3 DEF S!Loaded, S!history
      <3>3. QED
        BY <1>1, <2>1, <3>1, <3>2 DEF DialogType, FormFollows, CallFollows
    <2>4. QED
      BY <2>2, <2>3
  <1>5. ASSUME NEW load \in loads, S!LoadFails(load) PROVE SettingsInv'
    BY <1>2, <1>5 DEF S!LoadFails, S!dialog, S!history, DialogType
  <1>6. ASSUME NEW f \in Fields, NEW v, S!Edit(f, v),
               f = "limit" => v \in S!Limits, f = "path" => v \in S!Places \cup {S!Blank},
               f = "advanced" => v \in S!Advanced
        PROVE  SettingsInv'
    <2>1. settings' = [settings EXCEPT ![f] = v] /\ touched' = touched \cup {f}
          /\ UNCHANGED <<securitySettings, call, settingsIsLoading, loads, db, live, wizard, base>>
      BY <1>6 DEF S!Edit
    <2>2. settings' \in Forms
      BY <1>6, <2>1 DEF Forms, Fields, DialogType
    <2>3. \A g \in S!General : g # f => settings'[g] = settings[g]
      BY <2>1 DEF DialogType, Forms, S!General
    <2>4. FormFollows'
      BY <2>1, <2>3 DEF FormFollows, Follows
    <2>5. QED
      BY <1>1, <2>1, <2>2, <2>4 DEF DialogType, CallFollows
  <1>7. ASSUME NEW f \in {"noLogs", "sharingDisabled", "vpn"}, NEW v, S!setSecurityToggle(f, v),
               f # "vpn" => v \in BOOLEAN, f = "vpn" => v \in {"none", "tor", "vless"}
        PROVE  SettingsInv'
    <2>1. securitySettings' \in S!Security
      BY <1>7 DEF S!setSecurityToggle, DialogType, S!Security
    <2>2. QED
      BY <1>1, <1>7, <2>1 DEF S!setSecurityToggle, S!history, DialogType, FormFollows, CallFollows
  <1>8. ASSUME NEW kind \in {"general", "security", "kill", "delete"}, NEW req,
               S!Ask([kind |-> kind, req |-> req, base |-> base, touched |-> touched]),
               UNCHANGED <<settings, securitySettings, loads, db, live, wizard, base, touched>>,
               \/ kind = "general" /\ req = settings
               \/ kind = "security" /\ req = securitySettings
               \/ kind \in {"kill", "delete"} /\ req = Nil
        PROVE  SettingsInv'
    <2> DEFINE c == [kind |-> kind, req |-> req, base |-> base, touched |-> touched]
    <2>1. c \in DialogCalls
      BY <1>8 DEF DialogType, DialogCalls
    <2>2. call' = c /\ settingsIsLoading' = TRUE
      BY <1>8 DEF S!Ask
    <2>3. DialogType'
      BY <1>8, <2>1, <2>2 DEF DialogType
    <2>4. CallFollows'
      BY <1>8, <2>2 DEF CallFollows, FormFollows
    <2>5. FormFollows'
      BY <1>8 DEF FormFollows
    <2>6. QED
      BY <1>1, <1>8, <2>3, <2>4, <2>5
  <1>9. CASE S!handleSave \/ S!handleSaveSecurity \/ S!handleKillSwitch \/ S!handleDeleteAllData
    BY <1>8, <1>9 DEF S!handleSave, S!handleSaveSecurity, S!handleKillSwitch, S!handleDeleteAllData, S!Save, S!history
  \* The answers.
  <1>10. ASSUME call # Nil, S!Finally, UNCHANGED <<settings, loads, wizard, base, touched>>,
                BackendType', S!NoLogsHolds', securitySettings' \in S!Security
         PROVE  SettingsInv'
    <2>1. DialogType' /\ FormFollows' /\ CallFollows'
      BY <1>10 DEF S!Finally, DialogType, FormFollows, CallFollows
    <2>2. QED
      BY <1>10, <2>1 DEF WizardInv, S!SetupWasAccepted
  <1>11. CASE S!SettingsSaved
    <2>1. call.req \in Forms
      BY <1>11 DEF S!SettingsSaved, DialogType, DialogCalls
    <2>2. BackendType' /\ S!NoLogsHolds'
      BY <1>11, <2>1, GeneralStored DEF S!SettingsSaved, S!NoLogsHolds
    <2>3. QED
      BY <1>10, <1>11, <2>2 DEF S!SettingsSaved, S!history, DialogType
  <1>12. CASE S!SecuritySaved
    <2>1. call.req \in S!Security
      BY <1>12 DEF S!SecuritySaved, DialogType, DialogCalls
    <2>2. BackendType' /\ S!NoLogsHolds'
      BY <1>12, <2>1, SecurityStored DEF S!SecuritySaved
    <2>3. S!GetSecurityConfig' \in S!Security
      BY <2>2 DEF BackendType, Tables, S!GetSecurityConfig, S!Security
    <2>4. QED
      BY <1>10, <1>12, <2>2, <2>3 DEF S!SecuritySaved, S!history, DialogType
  <1>13. CASE S!Killed
    BY <1>10, <1>13 DEF S!Killed, S!history, DialogType, BackendType, S!NoLogsHolds
  <1>14. CASE S!Deleted
    BY <1>10, <1>14, CleanupStored DEF S!Deleted, S!history, DialogType, S!NoLogsHolds
  <1>15. CASE S!CallFails
    BY <1>10, <1>15, CleanupStored DEF S!CallFails, S!history, DialogType, BackendType, S!NoLogsHolds
  \* The wizard.
  <1>16. ASSUME UNCHANGED <<S!dialog, loads, S!history>>, BackendType', S!NoLogsHolds', WizardInv', S!SetupWasAccepted'
         PROVE  SettingsInv'
    BY <1>16, DialogRests
  <1>17. ASSUME UNCHANGED <<S!dialog, loads, S!history, db, live>>, wizard' \in Wizards,
                wizard'.posts \cap ({"accepted"} \X S!Configs) \subseteq wizard.posts,
                UNCHANGED <<wizard.completed, wizard.stored, wizard.accepted>>
         PROVE  SettingsInv'
    BY <1>16, <1>17 DEF BackendType, S!NoLogsHolds, WizardInv, S!SetupWasAccepted
  <1>18. CASE S!WizardLoads \/ S!nextStep \/ S!prevStep \/ S!Dismiss
    <2>1. wizard' \in Wizards /\ UNCHANGED <<wizard.posts, wizard.completed, wizard.stored, wizard.accepted>>
      <3>1. CASE S!WizardLoads
        <4>1. [wizard.config EXCEPT !.tor = TorEnabled] \in S!Configs
          BY DEF WizardInv, Wizards, S!Configs
        <4>2. QED
          BY <3>1, <4>1 DEF S!WizardLoads, WizardInv, Wizards
      <3>2. CASE S!nextStep
        BY <3>2 DEF S!nextStep, WizardInv, Wizards
      <3>3. CASE S!prevStep
        BY <3>3 DEF S!prevStep, WizardInv, Wizards
      <3>4. CASE S!Dismiss
        BY <3>4 DEF S!Dismiss, WizardInv, Wizards
      <3>5. QED
        BY <1>18, <3>1, <3>2, <3>3, <3>4
    <2>2. QED
      BY <1>17, <1>18, <2>1 DEF S!WizardLoads, S!nextStep, S!prevStep, S!Dismiss, S!Elsewhere
  <1>19. ASSUME NEW f \in {"noLogs", "path"}, NEW v, S!EditConfig(f, v),
                f = "noLogs" => v \in BOOLEAN, f = "path" => v \in S!Places \cup {S!Blank}
         PROVE  SettingsInv'
    <2>1. [wizard.config EXCEPT ![f] = v] \in S!Configs
      BY <1>19 DEF WizardInv, Wizards, S!Configs
    <2>2. wizard' \in Wizards /\ UNCHANGED <<wizard.posts, wizard.completed, wizard.stored, wizard.accepted>>
      BY <1>19, <2>1 DEF S!EditConfig, WizardInv, Wizards
    <2>3. QED
      BY <1>17, <1>19, <2>2 DEF S!EditConfig, S!Elsewhere
  <1>20. CASE S!completeSetup
    <2>1. wizard' \in Wizards /\ wizard'.posts = wizard.posts \cup {<<"asked", wizard.config>>}
          /\ UNCHANGED <<wizard.completed, wizard.stored, wizard.accepted>>
      BY <1>20 DEF S!completeSetup, WizardInv, Wizards
    <2>2. QED
      BY <1>17, <1>20, <2>1 DEF S!completeSetup, S!Elsewhere
  <1>21. ASSUME NEW post \in wizard.posts, S!SetupReaches(post[2]) PROVE SettingsInv'
    <2> DEFINE c == post[2]
    <2>1. c \in S!Configs
      BY DEF WizardInv, Wizards
    <2>2. CASE /\ S!ApplyInitialConfig(c)
               /\ wizard' = [wizard EXCEPT !.posts = (@ \ {<<"asked", c>>}) \cup {<<"accepted", c>>},
                                           !.accepted = @ \cup {c}]
      <3>1. BackendType' /\ S!NoLogsHolds'
        BY <2>1, <2>2, SetupStored
      <3>2. /\ wizard' \in Wizards /\ wizard'.accepted = wizard.accepted \cup {c}
            /\ wizard'.posts = (wizard.posts \ {<<"asked", c>>}) \cup {<<"accepted", c>>}
            /\ wizard'.completed = wizard.completed /\ wizard'.stored = wizard.stored
        <4> DEFINE ps == (wizard.posts \ {<<"asked", c>>}) \cup {<<"accepted", c>>}
                   as == wizard.accepted \cup {c}
        <4>1. /\ ps \in SUBSET ({"asked", "accepted", "refused"} \X S!Configs)
              /\ as \in SUBSET S!Configs
          BY <2>1 DEF WizardInv, Wizards
        <4>2. wizard' = [wizard EXCEPT !.posts = ps, !.accepted = as]
          BY <2>2 DEF WizardInv, Wizards
        <4> HIDE DEF ps, as
        <4>3. /\ wizard' \in Wizards /\ wizard'.accepted = as /\ wizard'.posts = ps
              /\ wizard'.completed = wizard.completed /\ wizard'.stored = wizard.stored
          BY <4>1, <4>2 DEF WizardInv, Wizards
        <4>4. QED
          BY <4>3 DEF ps, as
      <3>3. WizardInv' /\ S!SetupWasAccepted'
        BY <3>2 DEF WizardInv, S!SetupWasAccepted
      <3>4. QED
        BY <1>16, <1>21, <3>1, <3>3 DEF S!SetupReaches, S!Elsewhere
    <2>3. CASE /\ wizard' = [wizard EXCEPT !.posts = (@ \ {<<"asked", c>>}) \cup {<<"refused", c>>}]
               /\ UNCHANGED <<db, live>>
      <3>1. wizard' \in Wizards /\ wizard'.posts = (wizard.posts \ {<<"asked", c>>}) \cup {<<"refused", c>>}
            /\ UNCHANGED <<wizard.completed, wizard.stored, wizard.accepted>>
        BY <2>1, <2>3 DEF WizardInv, Wizards
      <3>2. QED
        BY <1>17, <1>21, <2>3, <3>1 DEF S!SetupReaches, S!Elsewhere
    <2>4. QED
      BY <1>21, <2>2, <2>3 DEF S!SetupReaches
  <1>22. ASSUME NEW post \in wizard.posts, S!SetupEnds(post[1], post[2]) PROVE SettingsInv'
    <2> DEFINE c == post[2]
    <2>1. c \in S!Configs /\ post = <<post[1], c>> /\ UNCHANGED <<S!dialog, loads, S!history, db, live>>
      BY <1>22 DEF WizardInv, Wizards, S!SetupEnds, S!Elsewhere
    <2>2. CASE post[1] = "accepted"
      <3>1. /\ wizard' \in Wizards /\ wizard'.posts = wizard.posts \ {post}
            /\ wizard'.accepted = wizard.accepted /\ wizard'.stored = c
        BY <1>22, <2>1, <2>2 DEF S!SetupEnds, WizardInv, Wizards
      <3>2. c \in wizard.accepted
        BY <2>1, <2>2 DEF WizardInv
      <3>3. WizardInv' /\ S!SetupWasAccepted'
        BY <3>1, <3>2 DEF WizardInv, S!SetupWasAccepted
      <3>4. QED
        BY <1>16, <2>1, <3>3 DEF BackendType, S!NoLogsHolds
    <2>3. CASE post[1] # "accepted"
      <3>1. wizard' \in Wizards /\ wizard'.posts = wizard.posts \ {post}
            /\ UNCHANGED <<wizard.completed, wizard.stored, wizard.accepted>>
        BY <1>22, <2>1, <2>3 DEF S!SetupEnds, WizardInv, Wizards
      <3>2. QED
        BY <1>17, <2>1, <3>1
    <2>4. QED
      BY <2>2, <2>3
  <1>23. CASE UNCHANGED S!vars
    BY <1>2, <1>23 DEF S!vars, S!dialog, S!history, DialogType
  <1>24. CASE S!GeneralTab \/ S!AdvancedTab \/ S!SecurityTab \/ S!ConnectionType
    <2>1. CASE S!GeneralTab \/ S!AdvancedTab
      BY <1>6, <2>1 DEF S!GeneralTab, S!AdvancedTab, Fields
    <2>2. CASE S!SecurityTab \/ S!ConnectionType
      BY <1>7, <2>2 DEF S!SecurityTab, S!ConnectionType
    <2>3. QED
      BY <1>24, <2>1, <2>2
  <1>25. CASE (\E v \in S!Places \cup {S!Blank} : S!EditConfig("path", v)) \/ (\E v \in BOOLEAN : S!EditConfig("noLogs", v))
    BY <1>19, <1>25
  <1>26. QED
    BY <1>3, <1>4, <1>5, <1>9, <1>11, <1>12, <1>13, <1>14, <1>15, <1>18, <1>20, <1>21, <1>22, <1>23, <1>24, <1>25
    DEF S!Next, S!Answer

\* A save of the general form changes no field that its user left alone.
LEMMA SavesKeepUntouched ==
  ASSUME SettingsInv, S!SettingsSaved, call.base # Nil, NEW f \in S!General, f \notin call.touched,
         call.base[f] = db[f]
  PROVE  S!Effective(f, db'[f]) = S!Effective(f, db[f])
  <1>1. call.req \in Forms /\ call.base \in Contents
    BY DEF SettingsInv, DialogType, DialogCalls, S!SettingsSaved
  <1>2. call.req[f] = S!LoadedForm(call.base)[f]
    BY DEF SettingsInv, CallFollows, Follows, S!SettingsSaved
  <1>3. db' = [db EXCEPT !.limit = IF call.req.limit = S!Blank THEN @ ELSE call.req.limit,
                         !.path = IF call.req.path = S!Blank THEN @ ELSE call.req.path]
    BY DEF S!SettingsSaved, S!UpdateSettings
  <1>4. CASE f = "limit"
    BY <1>1, <1>2, <1>3, <1>4 DEF S!LoadedForm, SettingsInv, BackendType, Tables, S!Effective
  <1>5. CASE f = "path"
    BY <1>1, <1>2, <1>3, <1>5 DEF S!LoadedForm, SettingsInv, BackendType, Tables, S!Effective
  <1>6. QED
    BY <1>4, <1>5 DEF S!General

(***************************************************************************)
(* Settings keep to their fields, no-logs mode shares nothing, a save      *)
(* keeps what its user left alone, and a setup that is over was accepted   *)
(* (components/settings-dialog.tsx, first-run-wizard.tsx; api/handlers.go, *)
(* api/initial_config.go).                                                 *)
(***************************************************************************)
THEOREM SpecSettingsAreKept ==
  Nil \notin DialogCalls /\ TorEnabled \in BOOLEAN => (S!Spec => SettingsAreKept)
  <1> SUFFICES ASSUME Nil \notin DialogCalls, TorEnabled \in BOOLEAN PROVE S!Spec => SettingsAreKept
    OBVIOUS
  <1>1. S!Init => SettingsInv
    BY SettingsInitOK
  <1>2. SettingsInv /\ [S!Next]_(S!vars) => SettingsInv'
    BY SettingsStep
  <1>3. SettingsInv => S!TypeOK
    BY DEF SettingsInv, DialogType, BackendType, Tables, WizardInv, Wizards, Forms, S!TypeOK
  <1>4. SettingsInv => S!NoLogsHolds /\ S!SetupWasAccepted
    BY DEF SettingsInv
  <1>5. SettingsInv =>
          [\A f \in S!General :
             S!SettingsSaved /\ call.base # Nil /\ f \notin call.touched /\ call.base[f] = db[f]
               => S!Effective(f, db'[f]) = S!Effective(f, db[f])]_(S!vars)
    BY SavesKeepUntouched
  <1>6. QED
    BY <1>1, <1>2, <1>3, <1>4, <1>5, PTL DEF S!Spec, SettingsAreKept, S!SettingsAreKept, S!UntouchedIsKept

-----------------------------------------------------------------------------
(* The pages that wait.  What the proofs need of the table: on the pages   *)
(* whose runs exclude each other, a handler that has the flag starts by a  *)
(* button that the flag disables, or by the page, which then has one such  *)
(* handler; another one starts with the page only.                         *)

Works(p, h) == Sites[p][h][1]
Starts(p, h) == Sites[p][h][2].starts
Disabled(p, h) == Sites[p][h][2].disabled
HasFlag(p, h) == Works(p, h).lowers # "never"

SiteIsSound(p, h) ==
  /\ Works(p, h).reads \in {"choice", "backend"} /\ Works(p, h).raises \in BOOLEAN
  /\ Works(p, h).raises => HasFlag(p, h)
  /\ "mount" \in Starts(p, h) \/ "timer" \in Starts(p, h) => Works(p, h).reads = "backend"
  /\ Works(p, h).reads = "choice" /\ "click" \in Starts(p, h) => "nothing" \in Disabled(p, h)
  /\ Works(p, h).fails /\ Works(p, h).lowers = "success" => p \in P!Uncaught
  /\ HasFlag(p, h) /\ Works(p, h).lowers # "success" => Works(p, h).lowers = "always"
  /\ p \in P!Exclusive =>
       IF HasFlag(p, h)
       THEN Works(p, h).raises /\ Starts(p, h) \subseteq {"mount", "click"} /\ "busy" \in Disabled(p, h)
       ELSE Starts(p, h) = {"mount"}

MountIsSound(p) ==
  /\ p \in P!LoadsFirst => \E h \in DOMAIN Sites[p] : "mount" \in Starts(p, h) /\ HasFlag(p, h)
  /\ p \in P!Exclusive => \A g, h \in DOMAIN Sites[p] :
       "mount" \in Starts(p, g) \cap Starts(p, h) /\ HasFlag(p, g) /\ HasFlag(p, h)
         => g = h /\ p \in P!LoadsFirst

\* The records of the table in short.
Does(w, reads, raises, lowers, fails) ==
  w.reads = reads /\ w.raises = raises /\ w.lowers = lowers /\ w.fails = fails
Lets(c, starts, disabled) == c.starts = starts /\ c.disabled = disabled

LEMMA WorkRecords ==
  /\ Does(handleEncrypt, "choice", TRUE, "always", TRUE)
  /\ Does(handleDecrypt, "choice", TRUE, "always", TRUE)
  /\ Does(handleCompress, "choice", TRUE, "always", TRUE)
  /\ Does(handleDecompress, "choice", TRUE, "always", TRUE)
  /\ Does(handleScan, "choice", TRUE, "always", TRUE)
  /\ Does(handleTextHash, "choice", TRUE, "success", TRUE)
  /\ Does(handleFileHash, "choice", TRUE, "success", TRUE)
  /\ Does(calculateHashes, "choice", TRUE, "success", TRUE)
  /\ Does(handleFileSelect, "choice", TRUE, "always", FALSE)
  /\ Does(handleFileUpload, "choice", FALSE, "never", TRUE)
  /\ Does(encodeFile, "choice", FALSE, "never", TRUE)
  /\ Does(handleAnalyze, "choice", TRUE, "success", FALSE)
  /\ Does(performLeakTest, "backend", TRUE, "always", TRUE)
  /\ Does(loadLocalTorrents, "backend", TRUE, "always", TRUE)
  /\ Does(refreshNetwork, "backend", TRUE, "always", TRUE)
  /\ Does(fetchIPData, "backend", TRUE, "always", TRUE)
  /\ Does(fetchLocalTorrents, "backend", FALSE, "never", TRUE)
  /\ Does(fetchNetworkInfo, "backend", FALSE, "never", TRUE)
  /\ Does(fetchStatus, "backend", FALSE, "never", TRUE)
  /\ Does(fetchTorrentCount, "backend", FALSE, "never", TRUE)
  /\ Does(fetchMetrics, "backend", FALSE, "never", TRUE)
  /\ Does(checkSecurity, "backend", FALSE, "always", TRUE)
  BY DEF Does, OnFile, OnServer, Unflagged,
     handleEncrypt, handleDecrypt, handleCompress, handleDecompress, handleScan,
     handleTextHash, handleFileHash, calculateHashes, handleFileSelect, handleFileUpload,
     encodeFile, handleAnalyze, performLeakTest, loadLocalTorrents, refreshNetwork,
     fetchIPData, fetchLocalTorrents, fetchNetworkInfo, fetchStatus, fetchTorrentCount,
     fetchMetrics, checkSecurity

LEMMA ControlRecords ==
  /\ Lets(encryptTab, {"click"}, {"busy", "nothing"})
  /\ Lets(decryptTab, {"click"}, {"busy", "nothing"})
  /\ Lets(compressTab, {"click"}, {"busy", "nothing"})
  /\ Lets(decompressTab, {"click"}, {"busy", "nothing"})
  /\ Lets(scanCard, {"click"}, {"busy", "nothing"})
  /\ Lets(textTab, {"click"}, {"busy", "nothing"})
  /\ Lets(fileTab, {"click"}, {"busy", "nothing"})
  /\ Lets(hasherCard, {"choose"}, {})
  /\ Lets(metadataCard, {"choose"}, {})
  /\ Lets(binaryCard, {"choose"}, {})
  /\ Lets(base64Card, {"click"}, {"nothing"})
  /\ Lets(analyzerCard, {"click"}, {"busy", "nothing"})
  /\ Lets(leakCards, {"click", "timer"}, {"busy"})
  /\ Lets(searchHeader, {"mount", "click"}, {"busy"})
  /\ Lets(networkHeader, {"mount", "click"}, {"busy"})
  /\ Lets(ipHeader, {"mount", "click"}, {"busy"})
  /\ Lets(ipMount, {"mount"}, {})
  /\ Lets(tickerMount, {"mount"}, {})
  /\ Lets(tickerTimers, {"mount", "timer"}, {})
  /\ Lets(dashboardTimer, {"mount", "timer"}, {})
  /\ Lets(monitorTimer, {"mount", "timer"}, {})
  BY DEF Lets, Button, Loader, Poller, Picker,
     encryptTab, decryptTab, compressTab, decompressTab, scanCard, textTab,
     fileTab, hasherCard, metadataCard, binaryCard, base64Card, analyzerCard,
     leakCards, searchHeader, networkHeader, ipHeader, ipMount, tickerMount,
     tickerTimers, dashboardTimer, monitorTimer

LEMMA Table ==
  ASSUME NEW p \in DOMAIN Sites
  PROVE  MountIsSound(p) /\ \A h \in DOMAIN Sites[p] : SiteIsSound(p, h)
  <1>1. CASE p = "encryption"
    <2>1. /\ DOMAIN Sites[p] = {"encrypt", "decrypt"}
          /\ Sites[p]["encrypt"] = <<handleEncrypt, encryptTab>>
          /\ Sites[p]["decrypt"] = <<handleDecrypt, decryptTab>>
      BY <1>1 DEF Sites
    <2>2. Works(p, "encrypt") = handleEncrypt /\ Starts(p, "encrypt") = {"click"} /\ Disabled(p, "encrypt") = {"busy", "nothing"}
      BY <2>1, ControlRecords DEF Works, Starts, Disabled, Lets
    <2>3. SiteIsSound(p, "encrypt")
      BY <1>1, <2>2, WorkRecords DEF SiteIsSound, HasFlag, Does, P!Exclusive, P!Uncaught
    <2>4. Works(p, "decrypt") = handleDecrypt /\ Starts(p, "decrypt") = {"click"} /\ Disabled(p, "decrypt") = {"busy", "nothing"}
      BY <2>1, ControlRecords DEF Works, Starts, Disabled, Lets
    <2>5. SiteIsSound(p, "decrypt")
      BY <1>1, <2>4, WorkRecords DEF SiteIsSound, HasFlag, Does, P!Exclusive, P!Uncaught
    <2>6. QED
      BY <1>1, <2>1, <2>2, <2>3, <2>4, <2>5, WorkRecords DEF MountIsSound, HasFlag, Does, P!Exclusive, P!LoadsFirst
  <1>2. CASE p = "compression"
    <2>1. /\ DOMAIN Sites[p] = {"compress", "decompress"}
          /\ Sites[p]["compress"] = <<handleCompress, compressTab>>
          /\ Sites[p]["decompress"] = <<handleDecompress, decompressTab>>
      BY <1>2 DEF Sites
    <2>2. Works(p, "compress") = handleCompress /\ Starts(p, "compress") = {"click"} /\ Disabled(p, "compress") = {"busy", "nothing"}
      BY <2>1, ControlRecords DEF Works, Starts, Disabled, Lets
    <2>3. SiteIsSound(p, "compress")
      BY <1>2, <2>2, WorkRecords DEF SiteIsSound, HasFlag, Does, P!Exclusive, P!Uncaught
    <2>4. Works(p, "decompress") = handleDecompress /\ Starts(p, "decompress") = {"click"} /\ Disabled(p, "decompress") = {"busy", "nothing"}
      BY <2>1, ControlRecords DEF Works, Starts, Disabled, Lets
    <2>5. SiteIsSound(p, "decompress")
      BY <1>2, <2>4, WorkRecords DEF SiteIsSound, HasFlag, Does, P!Exclusive, P!Uncaught
    <2>6. QED
      BY <1>2, <2>1, <2>2, <2>3, <2>4, <2>5, WorkRecords DEF MountIsSound, HasFlag, Does, P!Exclusive, P!LoadsFirst
  <1>3. CASE p = "virusChecker"
    <2>1. /\ DOMAIN Sites[p] = {"scan"}
          /\ Sites[p]["scan"] = <<handleScan, scanCard>>
      BY <1>3 DEF Sites
    <2>2. Works(p, "scan") = handleScan /\ Starts(p, "scan") = {"click"} /\ Disabled(p, "scan") = {"busy", "nothing"}
      BY <2>1, ControlRecords DEF Works, Starts, Disabled, Lets
    <2>3. SiteIsSound(p, "scan")
      BY <1>3, <2>2, WorkRecords DEF SiteIsSound, HasFlag, Does, P!Exclusive, P!Uncaught
    <2>4. QED
      BY <1>3, <2>1, <2>2, <2>3, WorkRecords DEF MountIsSound, HasFlag, Does, P!Exclusive, P!LoadsFirst
  <1>4. CASE p = "hashGenerator"
    <2>1. /\ DOMAIN Sites[p] = {"text", "file"}
          /\ Sites[p]["text"] = <<handleTextHash, textTab>>
          /\ Sites[p]["file"] = <<handleFileHash, fileTab>>
      BY <1>4 DEF Sites
    <2>2. Works(p, "text") = handleTextHash /\ Starts(p, "text") = {"click"} /\ Disabled(p, "text") = {"busy", "nothing"}
      BY <2>1, ControlRecords DEF Works, Starts, Disabled, Lets
    <2>3. SiteIsSound(p, "text")
      BY <1>4, <2>2, WorkRecords DEF SiteIsSound, HasFlag, Does, P!Exclusive, P!Uncaught
    <2>4. Works(p, "file") = handleFileHash /\ Starts(p, "file") = {"click"} /\ Disabled(p, "file") = {"busy", "nothing"}
      BY <2>1, ControlRecords DEF Works, Starts, Disabled, Lets
    <2>5. SiteIsSound(p, "file")
      BY <1>4, <2>4, WorkRecords DEF SiteIsSound, HasFlag, Does, P!Exclusive, P!Uncaught
    <2>6. QED
      BY <1>4, <2>1, <2>2, <2>3, <2>4, <2>5, WorkRecords DEF MountIsSound, HasFlag, Does, P!Exclusive, P!LoadsFirst
  <1>5. CASE p = "fileHasher"
    <2>1. /\ DOMAIN Sites[p] = {"hashes"}
          /\ Sites[p]["hashes"] = <<calculateHashes, hasherCard>>
      BY <1>5 DEF Sites
    <2>2. Works(p, "hashes") = calculateHashes /\ Starts(p, "hashes") = {"choose"} /\ Disabled(p, "hashes") = {}
      BY <2>1, ControlRecords DEF Works, Starts, Disabled, Lets
    <2>3. SiteIsSound(p, "hashes")
      BY <1>5, <2>2, WorkRecords DEF SiteIsSound, HasFlag, Does, P!Exclusive, P!Uncaught
    <2>4. QED
      BY <1>5, <2>1, <2>2, <2>3, WorkRecords DEF MountIsSound, HasFlag, Does, P!Exclusive, P!LoadsFirst
  <1>6. CASE p = "metadataEditor"
    <2>1. /\ DOMAIN Sites[p] = {"metadata"}
          /\ Sites[p]["metadata"] = <<handleFileSelect, metadataCard>>
      BY <1>6 DEF Sites
    <2>2. Works(p, "metadata") = handleFileSelect /\ Starts(p, "metadata") = {"choose"} /\ Disabled(p, "metadata") = {}
      BY <2>1, ControlRecords DEF Works, Starts, Disabled, Lets
    <2>3. SiteIsSound(p, "metadata")
      BY <1>6, <2>2, WorkRecords DEF SiteIsSound, HasFlag, Does, P!Exclusive, P!Uncaught
    <2>4. QED
      BY <1>6, <2>1, <2>2, <2>3, WorkRecords DEF MountIsSound, HasFlag, Does, P!Exclusive, P!LoadsFirst
  <1>7. CASE p = "binaryViewer"
    <2>1. /\ DOMAIN Sites[p] = {"bytes"}
          /\ Sites[p]["bytes"] = <<handleFileUpload, binaryCard>>
      BY <1>7 DEF Sites
    <2>2. Works(p, "bytes") = handleFileUpload /\ Starts(p, "bytes") = {"choose"} /\ Disabled(p, "bytes") = {}
      BY <2>1, ControlRecords DEF Works, Starts, Disabled, Lets
    <2>3. SiteIsSound(p, "bytes")
      BY <1>7, <2>2, WorkRecords DEF SiteIsSound, HasFlag, Does, P!Exclusive, P!Uncaught
    <2>4. QED
      BY <1>7, <2>1, <2>2, <2>3, WorkRecords DEF MountIsSound, HasFlag, Does, P!Exclusive, P!LoadsFirst
  <1>8. CASE p = "base64"
    <2>1. /\ DOMAIN Sites[p] = {"encode"}
          /\ Sites[p]["encode"] = <<encodeFile, base64Card>>
      BY <1>8 DEF Sites
    <2>2. Works(p, "encode") = encodeFile /\ Starts(p, "encode") = {"click"} /\ Disabled(p, "encode") = {"nothing"}
      BY <2>1, ControlRecords DEF Works, Starts, Disabled, Lets
    <2>3. SiteIsSound(p, "encode")
      BY <1>8, <2>2, WorkRecords DEF SiteIsSound, HasFlag, Does, P!Exclusive, P!Uncaught
    <2>4. QED
      BY <1>8, <2>1, <2>2, <2>3, WorkRecords DEF MountIsSound, HasFlag, Does, P!Exclusive, P!LoadsFirst
  <1>9. CASE p = "networkAnalyzer"
    <2>1. /\ DOMAIN Sites[p] = {"probe"}
          /\ Sites[p]["probe"] = <<handleAnalyze, analyzerCard>>
      BY <1>9 DEF Sites
    <2>2. Works(p, "probe") = handleAnalyze /\ Starts(p, "probe") = {"click"} /\ Disabled(p, "probe") = {"busy", "nothing"}
      BY <2>1, ControlRecords DEF Works, Starts, Disabled, Lets
    <2>3. SiteIsSound(p, "probe")
      BY <1>9, <2>2, WorkRecords DEF SiteIsSound, HasFlag, Does, P!Exclusive, P!Uncaught
    <2>4. QED
      BY <1>9, <2>1, <2>2, <2>3, WorkRecords DEF MountIsSound, HasFlag, Does, P!Exclusive, P!LoadsFirst
  <1>10. CASE p = "leakChecker"
    <2>1. /\ DOMAIN Sites[p] = {"leak"}
          /\ Sites[p]["leak"] = <<performLeakTest, leakCards>>
      BY <1>10 DEF Sites
    <2>2. Works(p, "leak") = performLeakTest /\ Starts(p, "leak") = {"click", "timer"} /\ Disabled(p, "leak") = {"busy"}
      BY <2>1, ControlRecords DEF Works, Starts, Disabled, Lets
    <2>3. SiteIsSound(p, "leak")
      BY <1>10, <2>2, WorkRecords DEF SiteIsSound, HasFlag, Does, P!Exclusive, P!Uncaught
    <2>4. QED
      BY <1>10, <2>1, <2>2, <2>3, WorkRecords DEF MountIsSound, HasFlag, Does, P!Exclusive, P!LoadsFirst
  <1>11. CASE p = "search"
    <2>1. /\ DOMAIN Sites[p] = {"torrents"}
          /\ Sites[p]["torrents"] = <<loadLocalTorrents, searchHeader>>
      BY <1>11 DEF Sites
    <2>2. Works(p, "torrents") = loadLocalTorrents /\ Starts(p, "torrents") = {"mount", "click"} /\ Disabled(p, "torrents") = {"busy"}
      BY <2>1, ControlRecords DEF Works, Starts, Disabled, Lets
    <2>3. SiteIsSound(p, "torrents")
      BY <1>11, <2>2, WorkRecords DEF SiteIsSound, HasFlag, Does, P!Exclusive, P!Uncaught
    <2>4. QED
      BY <1>11, <2>1, <2>2, <2>3, WorkRecords DEF MountIsSound, HasFlag, Does, P!Exclusive, P!LoadsFirst
  <1>12. CASE p = "network"
    <2>1. /\ DOMAIN Sites[p] = {"status"}
          /\ Sites[p]["status"] = <<refreshNetwork, networkHeader>>
      BY <1>12 DEF Sites
    <2>2. Works(p, "status") = refreshNetwork /\ Starts(p, "status") = {"mount", "click"} /\ Disabled(p, "status") = {"busy"}
      BY <2>1, ControlRecords DEF Works, Starts, Disabled, Lets
    <2>3. SiteIsSound(p, "status")
      BY <1>12, <2>2, WorkRecords DEF SiteIsSound, HasFlag, Does, P!Exclusive, P!Uncaught
    <2>4. QED
      BY <1>12, <2>1, <2>2, <2>3, WorkRecords DEF MountIsSound, HasFlag, Does, P!Exclusive, P!LoadsFirst
  <1>13. CASE p = "ipDashboard"
    <2>1. /\ DOMAIN Sites[p] = {"ip", "torrents"}
          /\ Sites[p]["ip"] = <<fetchIPData, ipHeader>>
          /\ Sites[p]["torrents"] = <<fetchLocalTorrents, ipMount>>
      BY <1>13 DEF Sites
    <2>2. Works(p, "ip") = fetchIPData /\ Starts(p, "ip") = {"mount", "click"} /\ Disabled(p, "ip") = {"busy"}
      BY <2>1, ControlRecords DEF Works, Starts, Disabled, Lets
    <2>3. SiteIsSound(p, "ip")
      BY <1>13, <2>2, WorkRecords DEF SiteIsSound, HasFlag, Does, P!Exclusive, P!Uncaught
    <2>4. Works(p, "torrents") = fetchLocalTorrents /\ Starts(p, "torrents") = {"mount"} /\ Disabled(p, "torrents") = {}
      BY <2>1, ControlRecords DEF Works, Starts, Disabled, Lets
    <2>5. SiteIsSound(p, "torrents")
      BY <1>13, <2>4, WorkRecords DEF SiteIsSound, HasFlag, Does, P!Exclusive, P!Uncaught
    <2>6. QED
      BY <1>13, <2>1, <2>2, <2>3, <2>4, <2>5, WorkRecords DEF MountIsSound, HasFlag, Does, P!Exclusive, P!LoadsFirst
  <1>14. CASE p = "ticker"
    <2>1. /\ DOMAIN Sites[p] = {"network", "status", "count"}
          /\ Sites[p]["network"] = <<fetchNetworkInfo, tickerMount>>
          /\ Sites[p]["status"] = <<fetchStatus, tickerTimers>>
          /\ Sites[p]["count"] = <<fetchTorrentCount, tickerTimers>>
      BY <1>14 DEF Sites
    <2>2. Works(p, "network") = fetchNetworkInfo /\ Starts(p, "network") = {"mount"} /\ Disabled(p, "network") = {}
      BY <2>1, ControlRecords DEF Works, Starts, Disabled, Lets
    <2>3. SiteIsSound(p, "network")
      BY <1>14, <2>2, WorkRecords DEF SiteIsSound, HasFlag, Does, P!Exclusive, P!Uncaught
    <2>4. Works(p, "status") = fetchStatus /\ Starts(p, "status") = {"mount", "timer"} /\ Disabled(p, "status") = {}
      BY <2>1, ControlRecords DEF Works, Starts, Disabled, Lets
    <2>5. SiteIsSound(p, "status")
      BY <1>14, <2>4, WorkRecords DEF SiteIsSound, HasFlag, Does, P!Exclusive, P!Uncaught
    <2>6. Works(p, "count") = fetchTorrentCount /\ Starts(p, "count") = {"mount", "timer"} /\ Disabled(p, "count") = {}
      BY <2>1, ControlRecords DEF Works, Starts, Disabled, Lets
    <2>7. SiteIsSound(p, "count")
      BY <1>14, <2>6, WorkRecords DEF SiteIsSound, HasFlag, Does, P!Exclusive, P!Uncaught
    <2>8. QED
      BY <1>14, <2>1, <2>2, <2>3, <2>4, <2>5, <2>6, <2>7, WorkRecords DEF MountIsSound, HasFlag, Does, P!Exclusive, P!LoadsFirst
  <1>15. CASE p = "dashboard"
    <2>1. /\ DOMAIN Sites[p] = {"metrics"}
          /\ Sites[p]["metrics"] = <<fetchMetrics, dashboardTimer>>
      BY <1>15 DEF Sites
    <2>2. Works(p, "metrics") = fetchMetrics /\ Starts(p, "metrics") = {"mount", "timer"} /\ Disabled(p, "metrics") = {}
      BY <2>1, ControlRecords DEF Works, Starts, Disabled, Lets
    <2>3. SiteIsSound(p, "metrics")
      BY <1>15, <2>2, WorkRecords DEF SiteIsSound, HasFlag, Does, P!Exclusive, P!Uncaught
    <2>4. QED
      BY <1>15, <2>1, <2>2, <2>3, WorkRecords DEF MountIsSound, HasFlag, Does, P!Exclusive, P!LoadsFirst
  <1>16. CASE p = "monitor"
    <2>1. /\ DOMAIN Sites[p] = {"status"}
          /\ Sites[p]["status"] = <<checkSecurity, monitorTimer>>
      BY <1>16 DEF Sites
    <2>2. Works(p, "status") = checkSecurity /\ Starts(p, "status") = {"mount", "timer"} /\ Disabled(p, "status") = {}
      BY <2>1, ControlRecords DEF Works, Starts, Disabled, Lets
    <2>3. SiteIsSound(p, "status")
      BY <1>16, <2>2, WorkRecords DEF SiteIsSound, HasFlag, Does, P!Exclusive, P!Uncaught
    <2>4. QED
      BY <1>16, <2>1, <2>2, <2>3, WorkRecords DEF MountIsSound, HasFlag, Does, P!Exclusive, P!LoadsFirst
  <1>17. p \in {"encryption", "compression", "virusChecker", "hashGenerator", "fileHasher", "metadataEditor",
               "binaryViewer", "base64", "networkAnalyzer", "leakChecker", "search", "network",
               "ipDashboard", "ticker", "dashboard", "monitor"}
    BY DEF Sites
  <1>18. QED
    BY <1>1, <1>2, <1>3, <1>4, <1>5, <1>6, <1>7, <1>8, <1>9, <1>10, <1>11, <1>12, <1>13, <1>14, <1>15, <1>16, <1>17

\* The handlers with the flag that have a run under way.
Going == {h \in P!Handlers : HasFlag(page, h) /\ runs[h] # <<>>}

\* What holds of one handler h of page p, with its data d, its runs r and the
\* version s on show.
HandlerInv(p, h, d, r, s) ==
  /\ d \in 0..MaxVersion /\ r \in Seq(1..d) /\ s \in -1..d
  /\ Works(p, h).reads = "backend" => d >= 1
  /\ p \in P!Exclusive => Len(r) <= 1 /\ \A i \in DOMAIN r : s <= r[i]

PageType ==
  /\ page \in DOMAIN Sites \cup {P!NoPage} /\ busy \in BOOLEAN /\ armed \in BOOLEAN
  /\ IF page = P!NoPage THEN shown = <<>> /\ ~busy
     ELSE \E hs : hs = DOMAIN Sites[page] /\ DOMAIN shown = hs /\ DOMAIN data = hs /\ DOMAIN runs = hs

PagesInv ==
  /\ PageType
  /\ \A h \in P!Handlers : HandlerInv(page, h, data[h], runs[h], shown[h])
  /\ busy /\ page \notin P!Uncaught => Going # {}
  /\ page \in P!Exclusive => (Going # {} => busy) /\ \A g, h \in Going : g = h

\* The page is none of the others'.
LEMMA NoPageIsNoSite == P!NoPage \notin DOMAIN Sites
  BY DEF P!NoPage, Sites

LEMMA OpenPage ==
  ASSUME PagesInv, NEW h \in P!Handlers
  PROVE  /\ page \in DOMAIN Sites /\ page # P!NoPage /\ SiteIsSound(page, h)
         /\ P!Handlers = DOMAIN Sites[page] /\ DOMAIN data = P!Handlers /\ DOMAIN runs = P!Handlers
         /\ HandlerInv(page, h, data[h], runs[h], shown[h])
         /\ P!Work(h) = Works(page, h) /\ P!Control(h).starts = Starts(page, h)
         /\ P!Control(h).disabled = Disabled(page, h)
  BY Table DEF PagesInv, PageType, P!Handlers, P!Work, P!Control, Works, Starts, Disabled

\* A run is taken away from the others.
LEMMA RunRemoved ==
  ASSUME NEW Run, NEW s \in Seq(Run), NEW i \in DOMAIN s
  PROVE  /\ (SubSeq(s, 1, i - 1) \o SubSeq(s, i + 1, Len(s))) \in Seq(Run)
         /\ Len(SubSeq(s, 1, i - 1) \o SubSeq(s, i + 1, Len(s))) = Len(s) - 1
  <1>1. i \in 1..Len(s)
    OBVIOUS
  <1>2. SubSeq(s, 1, i - 1) \in Seq(Run) /\ Len(SubSeq(s, 1, i - 1)) = i - 1
    BY <1>1, SubSeqProperties
  <1>3. SubSeq(s, i + 1, Len(s)) \in Seq(Run) /\ Len(SubSeq(s, i + 1, Len(s))) = Len(s) - i
    BY <1>1, SubSeqProperties
  <1> DEFINE front == SubSeq(s, 1, i - 1)
             back == SubSeq(s, i + 1, Len(s))
  <1> HIDE DEF front, back
  <1>4. front \o back \in Seq(Run) /\ Len(front \o back) = Len(front) + Len(back)
    BY <1>2, <1>3, ConcatProperties DEF front, back
  <1>5. Len(front) = i - 1 /\ Len(back) = Len(s) - i
    BY <1>2, <1>3 DEF front, back
  <1>6. Len(s) \in Nat /\ i \in Int /\ (i - 1) + (Len(s) - i) = Len(s) - 1
    BY <1>1, LenProperties
  <1>7. Len(front \o back) = Len(s) - 1
    BY <1>4, <1>5, <1>6
  <1>8. QED
    BY <1>4, <1>7 DEF front, back

\* Results of a version are results of the next.
LEMMA MoreData == ASSUME NEW d \in Nat, NEW r \in Seq(1..d) PROVE r \in Seq(1..(d + 1))
  <1>1. 1..d \subseteq 1..(d + 1)
    OBVIOUS
  <1>2. QED
    BY <1>1, SeqMonotonic

\* One handler starts: by the user if it has the flag and runs exclude each
\* other.
LEMMA StartKeeps ==
  ASSUME MaxVersion \in Nat, PagesInv, NEW h \in P!Handlers, NEW d, P!Start(h, d), page' = page, armed' \in BOOLEAN,
         data' = d, DOMAIN d = DOMAIN data, \A g \in P!Handlers : g # h => d[g] = data[g],
         d[h] \in 1..MaxVersion, d[h] >= data[h],
         page \in P!Exclusive => ~busy /\ HasFlag(page, h) /\ d[h] = data[h]
  PROVE  PagesInv'
  <1>1. /\ page \in DOMAIN Sites /\ SiteIsSound(page, h) /\ page # P!NoPage
        /\ P!Handlers = DOMAIN Sites[page] /\ DOMAIN data = P!Handlers /\ DOMAIN runs = P!Handlers
        /\ HandlerInv(page, h, data[h], runs[h], shown[h]) /\ P!Work(h) = Works(page, h)
    BY OpenPage
  <1>2. /\ runs' = [runs EXCEPT ![h] = Append(@, d[h])]
        /\ busy' = (busy \/ Works(page, h).raises)
        /\ shown' = IF Works(page, h).clears THEN [shown EXCEPT ![h] = P!None] ELSE shown
    BY <1>1 DEF P!Start
  <1>3. P!Handlers' = P!Handlers /\ DOMAIN runs' = P!Handlers /\ page' = page
    BY <1>1, <1>2 DEF P!Handlers
  <1>4. /\ runs'[h] = Append(runs[h], d[h]) /\ shown'[h] \in {shown[h], P!None}
        /\ \A g \in P!Handlers : g # h => runs'[g] = runs[g] /\ shown'[g] = shown[g] /\ data'[g] = data[g]
    BY <1>1, <1>2 DEF P!Handlers
  <1>5. (busy \/ Works(page, h).raises) \in BOOLEAN
    BY <1>1 DEF PagesInv, PageType, SiteIsSound
  <1>6. PageType'
    BY <1>1, <1>2, <1>3, <1>5 DEF PagesInv, PageType, P!Handlers
  <1>7. /\ data[h] \in Nat /\ d[h] \in Nat /\ runs[h] \in Seq(1..d[h]) /\ shown'[h] \in -1..d[h]
    <2>1. data[h] \in Nat /\ runs[h] \in Seq(1..data[h]) /\ shown[h] \in -1..data[h]
      BY <1>1 DEF HandlerInv
    <2>2. 1..data[h] \subseteq 1..d[h] /\ d[h] \in Nat
      BY <2>1
    <2>3. runs[h] \in Seq(1..d[h])
      BY <2>1, <2>2, SeqMonotonic
    <2>4. shown'[h] = shown[h] \/ shown'[h] = 0
      <3>1. shown'[h] \in {shown[h], P!None}
        BY <1>4
      <3>2. P!None = 0
        BY DEF P!None
      <3>3. QED
        BY <3>1, <3>2
    <2>5. data[h] <= d[h] /\ data[h] \in Nat /\ d[h] \in Nat
      BY <2>1, <2>2
    <2>6. \A x \in -1..data[h] : x \in -1..d[h]
      BY <2>5
    <2>7. shown'[h] \in -1..d[h]
      BY <2>1, <2>4, <2>5, <2>6
    <2>8. QED
      BY <2>1, <2>2, <2>3, <2>7
  <1>8. runs'[h] \in Seq(1..d[h]) /\ Len(runs'[h]) = Len(runs[h]) + 1 /\ runs'[h] # <<>>
    <2>1. d[h] \in 1..d[h] /\ runs[h] \in Seq(1..d[h])
      BY <1>7
    <2>2. /\ Append(runs[h], d[h]) \in Seq(1..d[h])
          /\ Len(Append(runs[h], d[h])) = Len(runs[h]) + 1
          /\ Append(runs[h], d[h]) # <<>>
      BY <2>1, AppendProperties
    <2>3. QED
      BY <1>4, <2>2
  <1>9. page \in P!Exclusive => Going = {}
    BY DEF PagesInv
  <1>10. page \in P!Exclusive => runs[h] = <<>>
    BY <1>9 DEF Going
  <1>11. HandlerInv(page, h, data'[h], runs'[h], shown'[h])
    <2>1. page \in P!Exclusive => Len(runs'[h]) = 1 /\ runs'[h][1] = d[h] /\ DOMAIN runs'[h] = {1}
      BY <1>4, <1>7, <1>10
    <2>2. page \in P!Exclusive => Len(runs'[h]) <= 1 /\ \A i \in DOMAIN runs'[h] : shown'[h] <= runs'[h][i]
      <3> SUFFICES ASSUME page \in P!Exclusive
                   PROVE  Len(runs'[h]) <= 1 /\ \A i \in DOMAIN runs'[h] : shown'[h] <= runs'[h][i]
        OBVIOUS
      <3>1. shown'[h] <= d[h]
        BY <1>7
      <3>2. \A i \in DOMAIN runs'[h] : runs'[h][i] = d[h]
        BY <2>1
      <3>3. \A n : n = 1 => n <= 1
        OBVIOUS
      <3>4. Len(runs'[h]) <= 1
        BY <2>1, <3>3
      <3>5. QED
        BY <3>1, <3>2, <3>4
    <2>3. QED
      BY <1>7, <1>8, <2>2 DEF HandlerInv
  <1>12. \A g \in P!Handlers : HandlerInv(page, g, data'[g], runs'[g], shown'[g])
    BY <1>4, <1>11 DEF PagesInv
  <1>13. \A g \in P!Handlers : g # h => (g \in Going' <=> g \in Going)
    BY <1>3, <1>4 DEF Going
  <1>14. HasFlag(page, h) => h \in Going'
    BY <1>3, <1>8 DEF Going
  <1>15. ~HasFlag(page, h) => h \notin Going /\ h \notin Going'
    BY <1>3 DEF Going
  <1>16. busy' /\ page \notin P!Uncaught => Going' # {}
    <2>1. CASE HasFlag(page, h)
      BY <1>14, <2>1
    <2>2. CASE ~HasFlag(page, h)
      <3>1. busy' = busy
        BY <1>1, <1>2, <2>2 DEF SiteIsSound, PagesInv, PageType
      <3>2. Going' = Going
        BY <1>3, <1>13, <1>15, <2>2 DEF Going
      <3>3. QED
        BY <3>1, <3>2 DEF PagesInv
    <2>3. QED
      BY <2>1, <2>2
  <1>17. page \in P!Exclusive => busy' /\ \A g, k \in Going' : g = k
    <2>1. page \in P!Exclusive => Works(page, h).raises
      BY <1>1 DEF SiteIsSound
    <2>2. page \in P!Exclusive => \A g \in Going' : g = h
      BY <1>3, <1>9, <1>13 DEF Going
    <2>3. QED
      BY <1>2, <2>1, <2>2
  <1>18. QED
    BY <1>3, <1>6, <1>12, <1>16, <1>17 DEF PagesInv

\* A run ends, whatever becomes of what is on show.
LEMMA EndKeeps ==
  ASSUME PagesInv, NEW h \in P!Handlers, NEW i \in DOMAIN runs[h], NEW lowered \in BOOLEAN, P!Ends(h, i, lowered),
         NEW v \in -1..data[h], shown' \in {shown, [shown EXCEPT ![h] = v]},
         lowered => HasFlag(page, h),
         HasFlag(page, h) => lowered \/ page \in P!Uncaught
  PROVE  PagesInv'
  <1>1. /\ page \in DOMAIN Sites /\ page # P!NoPage
        /\ P!Handlers = DOMAIN Sites[page] /\ DOMAIN data = P!Handlers /\ DOMAIN runs = P!Handlers
        /\ HandlerInv(page, h, data[h], runs[h], shown[h])
    BY OpenPage
  <1>2. /\ runs' = [runs EXCEPT ![h] = P!RemoveAt(@, i)] /\ busy' = (busy /\ ~lowered)
        /\ UNCHANGED <<page, data, armed>>
    BY DEF P!Ends
  <1>3. P!Handlers' = P!Handlers /\ DOMAIN runs' = P!Handlers /\ page' = page
    BY <1>1, <1>2 DEF P!Handlers
  <1>4. /\ runs'[h] = P!RemoveAt(runs[h], i) /\ shown'[h] \in -1..data[h]
        /\ \A g \in P!Handlers : g # h => runs'[g] = runs[g] /\ shown'[g] = shown[g]
    BY <1>1, <1>2 DEF P!Handlers, HandlerInv
  <1>5. PageType'
    <2>1. (busy /\ ~lowered) \in BOOLEAN
      OBVIOUS
    <2>2. QED
      BY <1>1, <1>2, <1>3, <2>1 DEF PagesInv, PageType, P!Handlers
  <1>6. runs'[h] \in Seq(1..data[h]) /\ Len(runs'[h]) = Len(runs[h]) - 1
    <2>1. runs[h] \in Seq(1..data[h])
      BY <1>1 DEF HandlerInv
    <2>2. runs'[h] = SubSeq(runs[h], 1, i - 1) \o SubSeq(runs[h], i + 1, Len(runs[h]))
      BY <1>4 DEF P!RemoveAt
    <2>3. \A r \in Seq(1..data[h]) : \A j \in DOMAIN r :
             /\ (SubSeq(r, 1, j - 1) \o SubSeq(r, j + 1, Len(r))) \in Seq(1..data[h])
             /\ Len(SubSeq(r, 1, j - 1) \o SubSeq(r, j + 1, Len(r))) = Len(r) - 1
      BY RunRemoved
    <2>4. QED
      BY <2>1, <2>2, <2>3, Zenon
  <1>7. page \in P!Exclusive => runs'[h] = <<>>
    <2> SUFFICES ASSUME page \in P!Exclusive PROVE runs'[h] = <<>>
      OBVIOUS
    <2>1. Len(runs[h]) <= 1
      BY <1>1 DEF HandlerInv
    <2>2. runs[h] \in Seq(1..data[h])
      BY <1>1 DEF HandlerInv
    <2>3. Len(runs[h]) \in Nat /\ Len(runs'[h]) \in Nat
      BY <1>6, <2>2, LenProperties
    <2>4. ASSUME NEW m \in Nat, NEW n \in Nat, m <= 1, n = m - 1 PROVE n = 0
      BY <2>4
    <2>5. Len(runs'[h]) = 0
      BY <1>6, <2>1, <2>3, <2>4
    <2>6. QED
      BY <1>6, <2>5, EmptySeq
  <1>8. HandlerInv(page, h, data[h], runs'[h], shown'[h])
    BY <1>1, <1>4, <1>6, <1>7 DEF HandlerInv
  <1>9. \A g \in P!Handlers : HandlerInv(page, g, data[g], runs'[g], shown'[g])
    BY <1>4, <1>8 DEF PagesInv
  <1>10. \A g \in P!Handlers : g # h => (g \in Going' <=> g \in Going)
    BY <1>3, <1>4 DEF Going
  <1>11. runs[h] # <<>>
    OBVIOUS
  <1>12. ~HasFlag(page, h) => Going' = Going
    BY <1>3, <1>10 DEF Going
  <1>13. busy' /\ page \notin P!Uncaught => Going' # {}
    BY <1>2, <1>12 DEF PagesInv
  <1>14. page \in P!Exclusive => Going' = IF HasFlag(page, h) THEN {} ELSE Going
    <2>1. page \in P!Exclusive /\ HasFlag(page, h) => \A g \in Going : g = h
      BY <1>11 DEF PagesInv, Going
    <2>2. page \in P!Exclusive => h \notin Going'
      BY <1>7 DEF Going
    <2>3. QED
      BY <1>3, <1>10, <1>12, <2>1, <2>2 DEF Going
  <1>15. page \in P!Exclusive => (Going' # {} => busy') /\ \A g, k \in Going' : g = k
    BY <1>2, <1>14 DEF PagesInv
  <1>16. QED
    BY <1>2, <1>3, <1>5, <1>9, <1>13, <1>15 DEF PagesInv

\* A page that opens starts its first runs.
LEMMA VisitKeeps ==
  ASSUME MaxVersion \in Nat \ {0}, PagesInv, NEW p \in DOMAIN Sites, P!Visit(p)
  PROVE  PagesInv'
  <1> DEFINE hs == DOMAIN Sites[p]
  <1>1. /\ page' = p /\ DOMAIN data' = hs /\ DOMAIN shown' = hs /\ DOMAIN runs' = hs
        /\ busy' = (p \in P!LoadsFirst) /\ armed' = (p # "leakChecker") /\ P!Handlers' = hs
    BY DEF P!Visit, P!Handlers
  <1>2. \A h \in hs : /\ data'[h] = IF Works(p, h).reads = "backend" THEN 1 ELSE P!None
                      /\ shown'[h] = P!None
                      /\ runs'[h] = IF "mount" \in Starts(p, h) THEN <<1>> ELSE <<>>
    BY DEF P!Visit, Works, Starts
  <1>3. MountIsSound(p) /\ \A h \in hs : SiteIsSound(p, h)
    BY Table
  <1>4. PageType'
    <2>1. (p \in P!LoadsFirst) \in BOOLEAN /\ (p # "leakChecker") \in BOOLEAN
      OBVIOUS
    <2>2. p # P!NoPage
      BY NoPageIsNoSite
    <2>3. QED
      BY <1>1, <2>1, <2>2 DEF PageType
  <1>5. ASSUME NEW h \in hs PROVE HandlerInv(p, h, data'[h], runs'[h], shown'[h])
    <2>1. CASE "mount" \in Starts(p, h)
      <3>1. data'[h] = 1 /\ runs'[h] = <<1>> /\ shown'[h] = 0
        BY <1>2, <1>3, <2>1 DEF SiteIsSound, P!None
      <3>2. <<1>> \in Seq(1..1) /\ Len(<<1>>) = 1 /\ \A i \in DOMAIN <<1>> : <<1>>[i] = 1
        OBVIOUS
      <3>3. QED
        BY <3>1, <3>2 DEF HandlerInv
    <2>2. CASE "mount" \notin Starts(p, h)
      <3>1. data'[h] \in 0..1 /\ runs'[h] = <<>> /\ shown'[h] = 0
            /\ (Works(p, h).reads = "backend" => data'[h] = 1)
        BY <1>2, <2>2 DEF P!None
      <3>2. <<>> \in Seq(1..data'[h]) /\ Len(<<>>) = 0 /\ DOMAIN <<>> = {}
        BY EmptySeq
      <3>3. QED
        BY <3>1, <3>2 DEF HandlerInv
    <2>3. QED
      BY <2>1, <2>2
  <1>6. Going' = {h \in hs : HasFlag(p, h) /\ "mount" \in Starts(p, h)}
    <2>1. \A h \in hs : runs'[h] # <<>> <=> "mount" \in Starts(p, h)
      BY <1>2
    <2>2. QED
      BY <1>1, <2>1 DEF Going
  <1>7. QED
    BY <1>1, <1>3, <1>4, <1>5, <1>6 DEF PagesInv, MountIsSound

\* Something that the user or the backend holds is replaced.
LEMMA ChangeKeeps ==
  ASSUME MaxVersion \in Nat, PagesInv, NEW h \in P!Handlers, data[h] < MaxVersion,
         data' = [data EXCEPT ![h] = @ + 1], UNCHANGED <<page, runs, busy, armed, shown>>
  PROVE  PagesInv'
  <1>1. /\ DOMAIN data = P!Handlers /\ HandlerInv(page, h, data[h], runs[h], shown[h])
    BY OpenPage
  <1>2. /\ data'[h] = data[h] + 1 /\ DOMAIN data' = DOMAIN data
        /\ \A g \in P!Handlers : g # h => data'[g] = data[g]
    BY <1>1
  <1>3. HandlerInv(page, h, data'[h], runs[h], shown[h])
    <2>1. data[h] \in Nat /\ data'[h] \in 0..MaxVersion /\ data'[h] >= 1
      BY <1>1, <1>2 DEF HandlerInv
    <2>2. runs[h] \in Seq(1..data'[h]) /\ shown[h] \in -1..data'[h]
      BY <1>1, <1>2, <2>1, MoreData DEF HandlerInv
    <2>3. QED
      BY <1>1, <2>1, <2>2 DEF HandlerInv
  <1>4. PageType' /\ P!Handlers' = P!Handlers /\ Going' = Going
    BY <1>2 DEF PagesInv, PageType, P!Handlers, Going
  <1>5. QED
    BY <1>2, <1>3, <1>4 DEF PagesInv

\* What a run may have seen is at least as new as what it started from.
LEMMA SeenIsNew ==
  ASSUME PagesInv, NEW h \in P!Handlers, NEW i \in DOMAIN runs[h], NEW v \in P!Seen(h, i)
  PROVE  v \in 1..data[h] /\ v >= runs[h][i]
  <1>1. HandlerInv(page, h, data[h], runs[h], shown[h])
    BY OpenPage
  <1>2. runs[h][i] \in 1..data[h] /\ data[h] \in Nat
    BY <1>1 DEF HandlerInv
  <1>3. CASE P!Work(h).reads = "choice"
    BY <1>2, <1>3 DEF P!Seen
  <1>4. CASE P!Work(h).reads # "choice"
    BY <1>2, <1>4 DEF P!Seen
  <1>5. QED
    BY <1>3, <1>4

LEMMA PagesStep == MaxVersion \in Nat \ {0} /\ PagesInv /\ [P!Next]_(P!vars) => PagesInv'
  <1> SUFFICES ASSUME MaxVersion \in Nat \ {0}, PagesInv, [P!Next]_(P!vars) PROVE PagesInv'
    OBVIOUS
  <1>1. ASSUME NEW p \in DOMAIN Sites, P!Visit(p) PROVE PagesInv'
    BY <1>1, VisitKeeps
  <1>2. ASSUME NEW h \in P!Handlers, P!Choose(h) PROVE PagesInv'
    <2>1. /\ data' = [data EXCEPT ![h] = @ + 1] /\ data[h] < MaxVersion /\ UNCHANGED <<page, armed>>
      BY <1>2 DEF P!Choose
    <2>2. CASE "choose" \notin P!Control(h).starts
      BY <1>2, <2>1, <2>2, ChangeKeeps DEF P!Choose
    <2>3. CASE "choose" \in P!Control(h).starts
      <3>1. P!Start(h, data')
        BY <1>2, <2>3 DEF P!Choose
      <3>2. page \notin P!Exclusive
        BY <2>3, OpenPage DEF SiteIsSound
      <3>3. DOMAIN data' = DOMAIN data /\ data'[h] = data[h] + 1 /\ \A g \in P!Handlers : g # h => data'[g] = data[g]
        BY <2>1, OpenPage
      <3>4. data'[h] \in 1..MaxVersion /\ data'[h] >= data[h]
        BY <2>1, <3>3, OpenPage DEF HandlerInv
      <3>5. armed' \in BOOLEAN
        BY <2>1 DEF PagesInv, PageType
      <3>6. QED
        BY <2>1, <3>1, <3>2, <3>3, <3>4, <3>5, StartKeeps
    <2>4. QED
      BY <2>2, <2>3
  <1>3. ASSUME NEW h \in P!Handlers, P!Start(h, data), UNCHANGED <<page, data, armed>>, data[h] # 0,
               page \in P!Exclusive => ~busy /\ HasFlag(page, h)
        PROVE  PagesInv'
    <2>1. data[h] \in 1..MaxVersion /\ data[h] >= data[h]
      BY <1>3, OpenPage DEF HandlerInv
    <2>2. armed' \in BOOLEAN
      BY <1>3 DEF PagesInv, PageType
    <2>3. QED
      BY <1>3, <2>1, <2>2, StartKeeps
  <1>4. ASSUME NEW h \in P!Handlers, P!Click(h) PROVE PagesInv'
    <2>1. "click" \in Starts(page, h) /\ P!Enabled(h) /\ P!Start(h, data) /\ UNCHANGED <<page, data, armed>>
      BY <1>4, OpenPage DEF P!Click
    <2>2. data[h] # 0
      BY <2>1, OpenPage DEF P!Enabled, P!None, SiteIsSound, HandlerInv
    <2>3. page \in P!Exclusive => ~busy /\ HasFlag(page, h)
      BY <2>1, OpenPage DEF P!Enabled, SiteIsSound
    <2>4. QED
      BY <1>3, <2>1, <2>2, <2>3
  <1>5. ASSUME NEW h \in P!Handlers, P!Tick(h) PROVE PagesInv'
    <2>1. "timer" \in Starts(page, h) /\ P!Start(h, data) /\ UNCHANGED <<page, data, armed>>
      BY <1>5, OpenPage DEF P!Tick
    <2>2. data[h] # 0
      BY <2>1, OpenPage DEF SiteIsSound, HandlerInv
    <2>3. page \notin P!Exclusive
      BY <2>1, OpenPage DEF SiteIsSound
    <2>4. QED
      BY <1>3, <2>1, <2>2, <2>3
  <1>6. ASSUME NEW h \in P!Handlers, P!BackendChanges(h) PROVE PagesInv'
    BY <1>6, ChangeKeeps DEF P!BackendChanges
  <1>7. CASE P!Toggle
    <2>1. CASE page = "dashboard" /\ armed'
      <3>1. P!Start("metrics", data) /\ UNCHANGED <<page, data>>
        BY <1>7, <2>1 DEF P!Toggle
      <3>2. page \in DOMAIN Sites
        BY <2>1, NoPageIsNoSite DEF PagesInv, PageType, P!NoPage
      <3>3. "metrics" \in P!Handlers
        BY <2>1, <3>2 DEF PagesInv, PageType, P!Handlers, P!NoPage, Sites
      <3>4. Works(page, "metrics").reads = "backend"
        BY <2>1, WorkRecords DEF Works, Sites, Does
      <3>5. data["metrics"] # 0 /\ data["metrics"] \in 1..MaxVersion /\ data["metrics"] >= data["metrics"]
        BY <3>3, <3>4, OpenPage DEF HandlerInv
      <3>6. page \notin P!Exclusive
        BY <2>1 DEF P!Exclusive
      <3>7. armed' \in BOOLEAN
        BY <2>1, <1>7 DEF P!Toggle
      <3>8. QED
        BY <3>1, <3>3, <3>5, <3>6, <3>7, StartKeeps
    <2>2. CASE ~(page = "dashboard" /\ armed')
      <3>1. UNCHANGED <<page, data, runs, busy, shown>> /\ armed' = ~armed
        BY <1>7, <2>2 DEF P!Toggle
      <3>2. (~armed) \in BOOLEAN
        BY DEF PagesInv, PageType
      <3>3. QED
        BY <3>1, <3>2 DEF PagesInv, PageType, P!Handlers, Going
    <2>3. QED
      BY <2>1, <2>2
  <1>8. ASSUME NEW h \in P!Handlers, NEW i \in DOMAIN runs[h], P!Progresses(h, i) PROVE PagesInv'
    <2>1. shown' = [shown EXCEPT ![h] = runs[h][i]] /\ UNCHANGED <<page, data, runs, busy, armed>>
      BY <1>8 DEF P!Progresses
    <2>2. HandlerInv(page, h, data[h], runs[h], shown[h])
      BY OpenPage
    <2>3. shown'[h] = runs[h][i] /\ DOMAIN shown' = DOMAIN shown
          /\ \A g \in P!Handlers : g # h => shown'[g] = shown[g]
      BY <2>1 DEF P!Handlers
    <2>4. runs[h][i] \in 1..data[h] /\ data[h] \in Nat
      BY <2>2 DEF HandlerInv
    <2>5. HandlerInv(page, h, data[h], runs[h], shown'[h])
      <3>1. shown'[h] \in -1..data[h]
        BY <2>3, <2>4
      <3>2. page \in P!Exclusive => \A j \in DOMAIN runs[h] : shown'[h] <= runs[h][j]
        <4> SUFFICES ASSUME page \in P!Exclusive, NEW j \in DOMAIN runs[h] PROVE shown'[h] <= runs[h][j]
          OBVIOUS
        <4>1. Len(runs[h]) <= 1 /\ runs[h] \in Seq(1..data[h])
          BY <2>2 DEF HandlerInv
        <4>2. DOMAIN runs[h] = 1..Len(runs[h]) /\ Len(runs[h]) \in Nat
          BY <4>1, LenProperties
        <4>3. i = 1 /\ j = 1
          BY <4>1, <4>2
        <4>4. QED
          BY <2>3, <2>4, <4>3
      <3>3. QED
        BY <2>2, <3>1, <3>2 DEF HandlerInv
    <2>6. PageType' /\ P!Handlers' = P!Handlers /\ Going' = Going
      <3>1. page # P!NoPage
        BY OpenPage
      <3>2. QED
        BY <2>1, <2>3, <3>1 DEF PagesInv, PageType, P!Handlers, Going
    <2>7. QED
      BY <2>1, <2>3, <2>5, <2>6 DEF PagesInv
  <1>9. ASSUME NEW h \in P!Handlers, NEW i \in DOMAIN runs[h], P!Settle(h, i) PROVE PagesInv'
    <2>1. SiteIsSound(page, h) /\ P!Work(h) = Works(page, h) /\ data[h] \in Nat
      BY OpenPage DEF HandlerInv
    <2>2. (Works(page, h).lowers # "never") \in BOOLEAN /\ (Works(page, h).lowers = "always") \in BOOLEAN
      OBVIOUS
    <2>3. CASE P!Succeeds(h, i)
      <3>1. PICK v \in P!Seen(h, i) : shown' = [shown EXCEPT ![h] = v]
        BY <2>3 DEF P!Succeeds
      <3>2. v \in -1..data[h]
        BY <2>1, SeenIsNew
      <3>3. QED
        BY <2>1, <2>2, <2>3, <3>1, <3>2, EndKeeps DEF P!Succeeds, HasFlag
    <2>4. CASE P!Fails(h, i)
      <3>1. shown' \in {shown, [shown EXCEPT ![h] = P!None]} /\ P!None \in -1..data[h]
        BY <2>1, <2>4 DEF P!Fails, P!None
      <3>2. QED
        BY <2>1, <2>2, <2>4, <3>1, EndKeeps DEF P!Fails, HasFlag, SiteIsSound
    <2>5. CASE P!TakesError(h, i)
      <3>1. shown' = [shown EXCEPT ![h] = P!ErrorBody] /\ P!ErrorBody \in -1..data[h]
        BY <2>1, <2>5 DEF P!TakesError, P!ErrorBody
      <3>2. QED
        BY <2>1, <2>2, <2>5, <3>1, EndKeeps DEF P!TakesError, HasFlag
    <2>6. QED
      BY <1>9, <2>3, <2>4, <2>5 DEF P!Settle
  <1>10. CASE UNCHANGED P!vars
    BY <1>10 DEF P!vars, PagesInv, PageType, P!Handlers, Going
  <1>11. QED
    BY <1>1, <1>2, <1>4, <1>5, <1>6, <1>7, <1>8, <1>9, <1>10 DEF P!Next

LEMMA PagesInitOK == P!Init => PagesInv
  <1> SUFFICES ASSUME P!Init PROVE PagesInv
    OBVIOUS
  <1>1. P!Handlers = {} /\ shown = <<>> /\ page = P!NoPage /\ busy = FALSE /\ armed = FALSE
    BY DEF P!Init, P!Handlers
  <1>2. PageType
    BY <1>1 DEF PageType
  <1>3. Going = {} /\ page \notin P!Exclusive
    BY <1>1 DEF Going, P!NoPage, P!Exclusive
  <1>4. QED
    BY <1>1, <1>2, <1>3 DEF PagesInv

\* The flags of the runs, by their handlers.
LEMMA OneGoing ==
  ASSUME PagesInv
  PROVE  /\ P!Flagged # {} <=> Going # {}
         /\ P!OneRunAtATime
  <1>1. \A x : x \in P!Flagged <=>
           \E h \in P!Handlers : \E i \in DOMAIN runs[h] : P!Work(h).lowers # "never" /\ x = <<h, i>>
    BY DEF P!Flagged
  <1>2. ASSUME NEW h \in P!Handlers
        PROVE  /\ P!Work(h) = Works(page, h) /\ runs[h] \in Seq(1..data[h])
               /\ runs[h] # <<>> <=> DOMAIN runs[h] # {}
               /\ page \in P!Exclusive => \A i \in DOMAIN runs[h] : i = 1
    <2>1. P!Work(h) = Works(page, h) /\ HandlerInv(page, h, data[h], runs[h], shown[h])
      BY OpenPage
    <2>2. runs[h] \in Seq(1..data[h]) /\ (page \in P!Exclusive => Len(runs[h]) <= 1)
      BY <2>1 DEF HandlerInv
    <2>3. DOMAIN runs[h] = 1..Len(runs[h]) /\ Len(runs[h]) \in Nat
      BY <2>2, LenProperties
    <2>4. runs[h] # <<>> <=> DOMAIN runs[h] # {}
      <3>1. runs[h] # <<>> => 1 \in DOMAIN runs[h]
        BY <2>2, <2>3, EmptySeq
      <3>2. QED
        BY <3>1
    <2>5. ASSUME page \in P!Exclusive, NEW i \in DOMAIN runs[h] PROVE i = 1
      BY <2>2, <2>3, <2>5
    <2>6. QED
      BY <2>1, <2>2, <2>4, <2>5
  <1>3. P!Flagged # {} <=> Going # {}
    BY <1>1, <1>2 DEF Going, HasFlag
  <1>4. ASSUME page \in P!Exclusive PROVE P!Cardinality(P!Flagged) <= 1
    <2>1. \A x, y \in P!Flagged : x = y
      BY <1>1, <1>2, <1>4 DEF PagesInv, Going, HasFlag
    <2>2. CASE P!Flagged = {}
      BY <2>2, FS_EmptySet DEF P!Cardinality, Cardinality
    <2>3. CASE P!Flagged # {}
      <3>1. PICK x : x \in P!Flagged
        BY <2>3
      <3>2. P!Flagged = {x}
        BY <2>1, <3>1
      <3>3. Cardinality({x}) = 1
        BY FS_Singleton
      <3>4. P!Cardinality({x}) = Cardinality({x})
        BY DEF P!Cardinality, Cardinality
      <3>5. QED
        BY <3>2, <3>3, <3>4
    <2>4. QED
      BY <2>2, <2>3
  <1>5. QED
    BY <1>3, <1>4 DEF P!OneRunAtATime

\* Where runs exclude each other, what is on show is as old as what replaces it.
LEMMA OlderNeverComes ==
  ASSUME MaxVersion \in Nat \ {0}, PagesInv, P!Next, NEW h \in P!Handlers, page \in P!Exclusive,
         shown'[h] > P!None
  PROVE  shown'[h] >= shown[h]
  <1>1. /\ page # P!NoPage /\ HandlerInv(page, h, data[h], runs[h], shown[h])
        /\ shown[h] \in Int
    BY OpenPage DEF HandlerInv
  <1>2. \A v : \A g \in P!Handlers : shown' = [shown EXCEPT ![g] = v] =>
           (g = h => shown'[h] = v) /\ (g # h => shown'[h] = shown[h])
    BY DEF P!Handlers
  <1>3. CASE shown'[h] = shown[h]
    BY <1>1, <1>3
  <1>4. ASSUME NEW g \in P!Handlers, shown' = [shown EXCEPT ![g] = P!None] PROVE shown'[h] >= shown[h]
    <2>1. g # h
      <3>1. g = h => shown'[h] = P!None
        BY <1>2, <1>4
      <3>2. ~(P!None > P!None)
        BY DEF P!None
      <3>3. QED
        BY <3>1, <3>2
    <2>2. QED
      BY <1>2, <1>3, <1>4, <2>1
  <1>5. ASSUME NEW g \in P!Handlers, NEW d, P!Start(g, d) PROVE shown'[h] >= shown[h]
    BY <1>3, <1>4, <1>5 DEF P!Start
  <1>6. ASSUME NEW g \in P!Handlers, P!Choose(g) \/ P!Click(g) \/ P!Tick(g) \/ P!BackendChanges(g)
        PROVE  shown'[h] >= shown[h]
    BY <1>3, <1>5, <1>6 DEF P!Choose, P!Click, P!Tick, P!BackendChanges
  <1>7. ASSUME NEW g \in P!Handlers, NEW i \in DOMAIN runs[g], P!Progresses(g, i) PROVE shown'[h] >= shown[h]
    <2>1. CASE g = h
      <3>1. shown[h] <= runs[h][i]
        BY <1>1, <2>1 DEF HandlerInv
      <3>2. runs[h][i] \in Int
        BY <1>1, <2>1 DEF HandlerInv
      <3>3. shown'[h] = runs[h][i]
        BY <1>2, <1>7, <2>1 DEF P!Progresses
      <3>4. QED
        BY <1>1, <3>1, <3>2, <3>3
    <2>2. CASE g # h
      BY <1>2, <1>3, <1>7, <2>2 DEF P!Progresses
    <2>3. QED
      BY <2>1, <2>2
  <1>8. ASSUME NEW g \in P!Handlers, NEW i \in DOMAIN runs[g], P!Settle(g, i) PROVE shown'[h] >= shown[h]
    <2>1. CASE P!Succeeds(g, i)
      <3>1. PICK v \in P!Seen(g, i) : shown' = [shown EXCEPT ![g] = v]
        BY <2>1 DEF P!Succeeds
      <3>2. CASE g = h
        <4>1. v \in 1..data[h] /\ v >= runs[h][i]
          BY <3>2, SeenIsNew
        <4>2. shown[h] <= runs[h][i] /\ runs[h][i] \in Int
          BY <1>1, <3>2 DEF HandlerInv
        <4>3. shown'[h] = v
          BY <1>2, <3>1, <3>2
        <4>4. data[h] \in Nat
          BY <1>1 DEF HandlerInv
        <4>5. QED
          BY <1>1, <4>1, <4>2, <4>3, <4>4
      <3>3. CASE g # h
        BY <1>2, <1>3, <3>1, <3>3
      <3>4. QED
        BY <3>2, <3>3
    <2>2. CASE P!Fails(g, i)
      BY <1>3, <1>4, <2>2 DEF P!Fails
    <2>3. CASE P!TakesError(g, i)
      <3>1. shown' = [shown EXCEPT ![g] = P!ErrorBody]
        BY <2>3 DEF P!TakesError
      <3>2. g # h
        <4>1. g = h => shown'[h] = P!ErrorBody
          BY <1>2, <3>1
        <4>2. ~(P!ErrorBody > P!None)
          BY DEF P!None, P!ErrorBody
        <4>3. QED
          BY <4>1, <4>2
      <3>3. QED
        BY <1>2, <1>3, <3>1, <3>2
    <2>4. QED
      BY <1>8, <2>1, <2>2, <2>3 DEF P!Settle
  <1>9. CASE P!Toggle
    <2>1. ~(page = "dashboard")
      BY DEF P!Exclusive
    <2>2. QED
      BY <1>3, <1>9, <2>1 DEF P!Toggle
  <1>10. ~\E p \in DOMAIN Sites : P!Visit(p)
    BY <1>1 DEF P!Visit
  <1>11. QED
    BY <1>6, <1>7, <1>8, <1>9, <1>10 DEF P!Next

(***************************************************************************)
(* On the pages whose buttons their flag disables, one run goes on at a    *)
(* time, the flag says so, and no result is replaced by an older one       *)
(* (the handlers of the pages that PageSites lists).                      *)
(***************************************************************************)
THEOREM SpecRunsAreSound == MaxVersion \in Nat \ {0} => (P!Spec => RunsAreSound)
  <1> SUFFICES ASSUME MaxVersion \in Nat \ {0} PROVE P!Spec => RunsAreSound
    OBVIOUS
  <1>1. P!Init => PagesInv
    BY PagesInitOK
  <1>2. PagesInv /\ [P!Next]_(P!vars) => PagesInv'
    BY PagesStep
  <1>3. PagesInv => P!TypeOK
    <2> SUFFICES ASSUME PagesInv PROVE P!TypeOK
      OBVIOUS
    <2>1. page # P!NoPage => P!Handlers = DOMAIN Sites[page] /\ DOMAIN data = P!Handlers
      BY DEF PagesInv, PageType, P!Handlers
    <2>2. ASSUME NEW h \in P!Handlers
          PROVE  data[h] \in 0..MaxVersion /\ shown[h] \in -1..data[h] /\ runs[h] \in Seq(1..MaxVersion)
      <3>1. data[h] \in 0..MaxVersion /\ shown[h] \in -1..data[h] /\ runs[h] \in Seq(1..data[h])
        BY OpenPage DEF HandlerInv
      <3>2. 1..data[h] \subseteq 1..MaxVersion
        BY <3>1
      <3>3. QED
        BY <3>1, <3>2
    <2>3. QED
      BY <2>1, <2>2 DEF PagesInv, PageType, P!TypeOK
  <1>4. PagesInv => P!OneRunAtATime /\ P!FlagIsHonest
    BY OneGoing DEF PagesInv, P!FlagIsHonest
  <1>5. PagesInv /\ [P!Next]_(P!vars) =>
          [\A h \in P!Handlers : page \in P!Exclusive /\ shown'[h] > P!None => shown'[h] >= shown[h]]_(P!vars)
    BY OlderNeverComes
  <1>6. QED
    BY <1>1, <1>2, <1>3, <1>4, <1>5, PTL DEF P!Spec, RunsAreSound, P!RunsAreSound, P!NeverOlder

===============================================================================
