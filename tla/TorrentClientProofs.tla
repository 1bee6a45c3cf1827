------------------------ MODULE TorrentClientProofs ------------------------
(***************************************************************************)
(* What holds of TorrentClient for every set of hashes and requests.       *)
(***************************************************************************)
EXTENDS TorrentClient, TLAPS

-----------------------------------------------------------------------------
(* Types                                                                   *)

\* The idle records have the types of the records in use.
LEMMA IdleTyped ==
  /\ NoAdd \in AddType /\ NoWork \in WorkType /\ NoTorrent \in TorrentType
  /\ \A h \in Hashes : NewTorrent(h) \in TorrentType
BY DEF NoAdd, NoWork, NoTorrent, NewTorrent, AddType, WorkType, TorrentType

\* Dropping a torrent keeps the library's tables well-formed.
LEMMA DropTyped ==
  ASSUME TypeOK, NEW g \in Handles, Drop(g)
  PROVE  torrent' \in [Handles -> TorrentType] /\ library' \in [Hashes -> Handles \cup {None}]
BY DEF TypeOK, Drop, TorrentType

\* Whatever is registered is a Torrent object of the library.
LEMMA RegisteredTyped ==
  ASSUME TypeOK
  PROVE  RegisteredSet \subseteq Handles /\ Registered \subseteq Hashes
         /\ \A h \in Registered : torrents[h] \in Handles
BY DEF TypeOK, Registered, RegisteredSet

\* RemoveTorrent keeps the four tables it touches well-formed.
LEMMA RemoveTyped ==
  ASSUME TypeOK, NEW h \in Hashes, RemoveTorrent(h)
  PROVE  /\ torrent' \in [Handles -> TorrentType]
         /\ library' \in [Hashes -> Handles \cup {None}]
         /\ torrents' \in [Hashes -> Handles \cup {None}]
         /\ limits' \subseteq Hashes
<1>1. CASE h \in Registered
  BY <1>1, DropTyped, RegisteredTyped DEF RemoveTorrent, TypeOK
<1>2. CASE h \notin Registered
  BY <1>2 DEF RemoveTorrent, TypeOK
<1> QED BY <1>1, <1>2

\* SetNoLogsMode changes the settings and, at most, starts a goroutine.
LEMMA NoLogsTyped ==
  ASSUME TypeOK, NEW b \in BOOLEAN, NEW others \in [Runners -> WorkType],
         SetNoLogsMode(b, others)
  PROVE  /\ config' \in [noLogs : BOOLEAN, disableSharing : BOOLEAN]
         /\ work' \in [Runners -> WorkType]
<1>1. CASE b
  <2>1. [NoWork EXCEPT !.pc = "readPolicy", !.disabled = TRUE] \in WorkType
    BY DEF NoWork, WorkType
  <2>2. PICK j \in Jobs :
          work' = [others EXCEPT ![j] = [NoWork EXCEPT !.pc = "readPolicy", !.disabled = TRUE]]
    BY <1>1 DEF SetNoLogsMode
  <2>3. work' \in [Runners -> WorkType]
    BY <2>1, <2>2
  <2>4. config' = [noLogs |-> TRUE, disableSharing |-> TRUE]
    BY <1>1 DEF SetNoLogsMode
  <2> QED BY <2>3, <2>4
<1>2. CASE ~b
  BY <1>2 DEF SetNoLogsMode, TypeOK
<1> QED BY <1>1, <1>2

\* Every step keeps every variable in its type.
LEMMA TypeStep ==
  ASSUME TypeOK, [Next]_vars PROVE TypeOK'
<1>0. env' = env
  BY DEF Next, vars
<1> USE <1>0
<1>1. ASSUME NEW a \in Adders, NEW h \in Hashes, AddStart(a, h) PROVE TypeOK'
  <2> PICK g \in Handles :
       /\ IF library[h] = None
          THEN /\ torrent[g] = NoTorrent
               /\ torrent' = [torrent EXCEPT ![g] = NewTorrent(h)]
               /\ library' = [library EXCEPT ![h] = g]
          ELSE g = library[h] /\ UNCHANGED <<library, torrent>>
       /\ adds' = [adds EXCEPT ![a] = [NoAdd EXCEPT !.pc = "waiting", !.handle = g]]
    BY <1>1 DEF AddStart
  <2>1. [NoAdd EXCEPT !.pc = "waiting", !.handle = g] \in AddType
    BY DEF NoAdd, AddType
  <2>2. adds' \in [Adders -> AddType]
    BY <2>1 DEF TypeOK
  <2>3. torrent' \in [Handles -> TorrentType] /\ library' \in [Hashes -> Handles \cup {None}]
    BY IdleTyped DEF TypeOK
  <2> QED BY <1>1, <2>2, <2>3 DEF AddStart, TypeOK
<1>2. ASSUME NEW g \in Handles, MetadataArrives(g) PROVE TypeOK'
  BY <1>2 DEF MetadataArrives, TypeOK, TorrentType
<1>3. ASSUME NEW a \in Adders, AddTimesOut(a) PROVE TypeOK'
  <2>1. torrent' \in [Handles -> TorrentType] /\ library' \in [Hashes -> Handles \cup {None}]
    BY <1>3 DEF AddTimesOut, Drop, TypeOK, TorrentType
  <2>2. adds' \in [Adders -> AddType]
    BY <1>3, IdleTyped DEF AddTimesOut, TypeOK
  <2> QED BY <1>3, <2>1, <2>2 DEF AddTimesOut, TypeOK
<1>4. ASSUME NEW a \in Adders, AddRegisters(a) PROVE TypeOK'
  <2>1. torrents' \in [Hashes -> Handles \cup {None}]
    BY <1>4 DEF AddRegisters, TypeOK, AddType
  <2>2. adds' \in [Adders -> AddType]
    BY <1>4 DEF AddRegisters, TypeOK, AddType
  <2> QED BY <1>4, <2>1, <2>2 DEF AddRegisters, TypeOK
<1>5. ASSUME NEW a \in Adders, AddFinishes(a) PROVE TypeOK'
  <2>1. torrent' \in [Handles -> TorrentType]
    <3> DEFINE g == adds[a].handle
               up == torrent[g].upload /\ ~adds[a].disableSharing
    <3>1. torrent' = [torrent EXCEPT ![g].upload = up]
      BY <1>5 DEF AddFinishes
    <3>2. up \in BOOLEAN
      OBVIOUS
    <3> HIDE DEF up
    <3> QED BY <3>1, <3>2 DEF TypeOK, TorrentType
  <2>2. adds' \in [Adders -> AddType]
    BY <1>5, IdleTyped DEF AddFinishes, TypeOK
  <2> QED BY <1>5, <2>1, <2>2 DEF AddFinishes, TypeOK
<1>6. ASSUME NEW h \in Hashes, DeleteTorrent(h) PROVE TypeOK'
  BY <1>6, RemoveTyped DEF DeleteTorrent, TypeOK
<1>7. ASSUME NEW h \in Hashes, SetLimits(h) PROVE TypeOK'
  BY <1>7 DEF SetLimits, TypeOK
<1>8. ASSUME NEW w \in Workers, NEW b \in BOOLEAN, ApplyInitialConfig(w, b) PROVE TypeOK'
  <2>1. work \in [Runners -> WorkType]
    BY DEF TypeOK
  <2> QED BY <1>8, <2>1, NoLogsTyped DEF ApplyInitialConfig, TypeOK
<1>9. ASSUME NEW w \in Workers, NEW b \in BOOLEAN, NEW s \in BOOLEAN,
             UpdateSecuritySettings(w, b, s)
      PROVE  TypeOK'
  <2> DEFINE others == [work EXCEPT ![w] = [NoWork EXCEPT !.pc = "setSharing", !.disabled = s \/ b]]
  <2>1. [NoWork EXCEPT !.pc = "setSharing", !.disabled = s \/ b] \in WorkType
    BY DEF NoWork, WorkType
  <2>2. others \in [Runners -> WorkType]
    BY <2>1 DEF TypeOK
  <2>3. SetNoLogsMode(b, others)
    BY <1>9 DEF UpdateSecuritySettings
  <2> HIDE DEF others
  <2> QED BY <1>9, <2>2, <2>3, NoLogsTyped DEF UpdateSecuritySettings, TypeOK
<1>10. ASSUME NEW w \in Workers, SetSharingDisabled(w) PROVE TypeOK'
  <2>1. work[w].disabled \in BOOLEAN
    BY DEF TypeOK, WorkType, Runners
  <2> QED BY <1>10, <2>1 DEF SetSharingDisabled, TypeOK, WorkType
<1>11. ASSUME NEW r \in Runners, ReadPolicy(r) PROVE TypeOK'
  <2>1. RegisteredSet \in SUBSET Handles
    BY RegisteredTyped
  <2>2. [work[r] EXCEPT !.pc = "applyPolicy", !.todo = RegisteredSet] \in WorkType
    BY <2>1 DEF TypeOK, WorkType
  <2>3. work' \in [Runners -> WorkType]
    BY <1>11, <2>1, <2>2 DEF ReadPolicy, TypeOK, WorkType
  <2> QED BY <1>11, <2>3 DEF ReadPolicy, TypeOK
<1>12. ASSUME NEW r \in Runners, PolicyApplied(r) PROVE TypeOK'
  BY <1>12, IdleTyped DEF PolicyApplied, TypeOK
<1>13. ASSUME NEW r \in Runners, NEW g \in Handles, ApplyPolicy(r, g) PROVE TypeOK'
  <2>1. torrent' \in [Handles -> TorrentType]
    <3> DEFINE up == ~work[r].disabled
    <3>1. torrent' = [torrent EXCEPT ![g].upload = up]
      BY <1>13 DEF ApplyPolicy
    <3>2. up \in BOOLEAN
      OBVIOUS
    <3> HIDE DEF up
    <3> QED BY <3>1, <3>2 DEF TypeOK, TorrentType
  <2>2. work' \in [Runners -> WorkType]
    BY <1>13 DEF ApplyPolicy, TypeOK, WorkType
  <2> QED BY <1>13, <2>1, <2>2 DEF ApplyPolicy, TypeOK
<1>14. ASSUME NEW w \in Workers, KillStart(w) PROVE TypeOK'
  <2>1. [NoWork EXCEPT !.pc = "removing", !.doomed = Registered, !.snapshot = RegisteredSet]
          \in WorkType
    BY RegisteredTyped DEF NoWork, WorkType
  <2> QED BY <1>14, <2>1 DEF KillStart, MayStart, TypeOK
<1>15. ASSUME NEW w \in Workers, KillDone(w) PROVE TypeOK'
  BY <1>15, IdleTyped DEF KillDone, TypeOK
<1>16. ASSUME NEW w \in Workers, NEW h \in Hashes, KillRemoves(w, h) PROVE TypeOK'
  <2>1. work' \in [Runners -> WorkType]
    BY <1>16 DEF KillRemoves, TypeOK, WorkType
  <2> QED BY <1>16, <2>1, RemoveTyped DEF KillRemoves, TypeOK
<1>17. CASE UNCHANGED vars
  BY <1>17 DEF vars, TypeOK
<1> QED
  BY <1>1, <1>2, <1>3, <1>4, <1>5, <1>6, <1>7, <1>8, <1>9, <1>10, <1>11, <1>12,
     <1>13, <1>14, <1>15, <1>16, <1>17 DEF Next, Step

\* The initial states are well-typed.
LEMMA TypeInit ==
  ASSUME Init PROVE TypeOK
BY IdleTyped DEF Init, TypeOK, Runners

\* No interleaving of requests, time-outs and goroutines breaks a type.
THEOREM TypeCorrect == Spec => []TypeOK
BY TypeInit, TypeStep, PTL DEF Spec

-----------------------------------------------------------------------------
(* Registered torrents have their metadata, and limits have torrents       *)

(***************************************************************************)
(* The inductive invariant adds that the library keeps each torrent under  *)
(* its own hash, and that an AddMagnet call holds a torrent of the library *)
(* that has been given a hash.                                             *)
(***************************************************************************)
Known ==
  /\ TypeOK
  /\ RegisteredHasInfo
  /\ LimitsRegistered
  /\ \A h \in Hashes : library[h] # None => torrent[library[h]].hash = h
  /\ \A a \in Adders : adds[a].pc # "idle" =>
       adds[a].handle \in Handles /\ torrent[adds[a].handle].hash \in Hashes

\* What a torrent has of hash and metadata, it keeps.
TorrentsKept ==
  \A g \in Handles : torrent[g].hash # None =>
    /\ torrent'[g].hash = torrent[g].hash
    /\ torrent[g].info => torrent'[g].info

\* A torrent that is registered or held has a hash, so it is not a fresh one.
LEMMA KnownHaveHash ==
  ASSUME Known
  PROVE  /\ \A h \in Registered : torrents[h] \in Handles /\ torrent[torrents[h]].hash # None
         /\ \A h \in Hashes : library[h] # None =>
              library[h] \in Handles /\ torrent[library[h]].hash # None
BY NoneAssumption DEF Known, TypeOK, RegisteredHasInfo, Registered

\* The parts of Known that speak of torrents survive a step that keeps the
\* torrents, registers nothing, and leaves the library and the calls alone
\* or makes entries None or idle.
LEMMA KnownFrame ==
  ASSUME Known, TypeOK', TorrentsKept,
         \A h \in Hashes : torrents'[h] \in {torrents[h], None},
         limits' \subseteq Registered',
         \A h \in Hashes : library'[h] \in {library[h], None},
         \A a \in Adders : adds'[a] \in {adds[a], NoAdd}
  PROVE  Known'
<1>1. RegisteredHasInfo'
  BY KnownHaveHash DEF Known, RegisteredHasInfo, Registered, TorrentsKept
<1>2. \A h \in Hashes : library'[h] # None => torrent'[library'[h]].hash = h
  BY KnownHaveHash DEF Known, TorrentsKept
<1>3. \A a \in Adders : adds'[a].pc # "idle" =>
        adds'[a].handle \in Handles /\ torrent'[adds'[a].handle].hash \in Hashes
  BY NoneAssumption DEF Known, TorrentsKept, NoAdd
<1> QED BY <1>1, <1>2, <1>3 DEF Known, LimitsRegistered

\* Drop changes nothing of a torrent but its flag.
LEMMA DropKeeps ==
  ASSUME TypeOK, NEW g, Drop(g)
  PROVE  TorrentsKept /\ \A h \in Hashes : library'[h] \in {library[h], None}
BY DEF TypeOK, Drop, TorrentsKept, TorrentType

\* RemoveTorrent forgets one torrent and its limits.
LEMMA RemoveKeeps ==
  ASSUME Known, NEW h \in Hashes, RemoveTorrent(h)
  PROVE  /\ TorrentsKept
         /\ \A k \in Hashes : library'[k] \in {library[k], None}
         /\ \A k \in Hashes : torrents'[k] \in {torrents[k], None}
         /\ limits' \subseteq Registered'
<1> USE DEF Known, LimitsRegistered
<1>1. CASE h \in Registered
  BY <1>1, DropKeeps DEF RemoveTorrent, TypeOK, Registered
<1>2. CASE h \notin Registered
  BY <1>2 DEF RemoveTorrent, TorrentsKept, Registered
<1> QED BY <1>1, <1>2

\* Settings and policy steps touch no table of Known but the upload flags.
LEMMA KnownStep ==
  ASSUME Known, [Next]_vars PROVE Known'
<1>0. TypeOK /\ TypeOK' /\ limits \subseteq Registered
  BY TypeStep DEF Known, LimitsRegistered
<1>1. ASSUME NEW a \in Adders, NEW h \in Hashes, AddStart(a, h) PROVE Known'
  <2> PICK g \in Handles :
       /\ IF library[h] = None
          THEN /\ torrent[g] = NoTorrent
               /\ torrent' = [torrent EXCEPT ![g] = NewTorrent(h)]
               /\ library' = [library EXCEPT ![h] = g]
          ELSE g = library[h] /\ UNCHANGED <<library, torrent>>
       /\ adds' = [adds EXCEPT ![a] = [NoAdd EXCEPT !.pc = "waiting", !.handle = g]]
    BY <1>1 DEF AddStart
  <2>1. UNCHANGED <<torrents, limits>>
    BY <1>1 DEF AddStart
  <2>2. TorrentsKept /\ torrent'[g].hash = h
    BY <1>0 DEF TorrentsKept, NoTorrent, NewTorrent, TypeOK, Known
  <2>3. RegisteredHasInfo' /\ LimitsRegistered'
    BY <1>0, <2>1, <2>2, KnownHaveHash
       DEF Known, RegisteredHasInfo, LimitsRegistered, Registered, TorrentsKept
  <2>4. \A k \in Hashes : library'[k] # None => torrent'[library'[k]].hash = k
    BY <1>0, <2>2, KnownHaveHash DEF Known, TorrentsKept, TypeOK
  <2>5. \A b \in Adders : adds'[b].pc # "idle" =>
          adds'[b].handle \in Handles /\ torrent'[adds'[b].handle].hash \in Hashes
    <3> SUFFICES ASSUME NEW b \in Adders, adds'[b].pc # "idle"
                 PROVE  adds'[b].handle \in Handles /\ torrent'[adds'[b].handle].hash \in Hashes
      OBVIOUS
    <3>1. CASE b = a
      <4>1. adds'[b].handle = g
        BY <3>1, <1>0 DEF TypeOK, NoAdd
      <4> QED BY <4>1, <2>2
    <3>2. CASE b # a
      BY <3>2, <1>0, <2>2, NoneAssumption DEF Known, TorrentsKept, TypeOK
    <3> QED BY <3>1, <3>2
  <2> QED BY <1>0, <2>3, <2>4, <2>5 DEF Known
<1>2. ASSUME NEW g \in Handles, MetadataArrives(g) PROVE Known'
  <2>1. TorrentsKept
    BY <1>2, <1>0 DEF MetadataArrives, TorrentsKept, TypeOK, TorrentType
  <2> QED BY <1>2, <1>0, <2>1, KnownFrame DEF MetadataArrives, Registered
<1>3. ASSUME NEW a \in Adders, AddTimesOut(a) PROVE Known'
  <2>1. \A b \in Adders : adds'[b] \in {adds[b], NoAdd}
    BY <1>3, <1>0 DEF AddTimesOut, TypeOK
  <2>2. TorrentsKept /\ \A h \in Hashes : library'[h] \in {library[h], None}
    BY <1>3, <1>0, DropKeeps DEF AddTimesOut
  <2> QED BY <1>3, <1>0, <2>1, <2>2, KnownFrame DEF AddTimesOut, Registered
<1>4. ASSUME NEW a \in Adders, AddRegisters(a) PROVE Known'
  <2> DEFINE g == adds[a].handle
             k == torrent[g].hash
  <2>1. g \in Handles /\ k \in Hashes /\ torrent[g].info
    BY <1>4 DEF AddRegisters, Known
  <2>2. torrents' = [torrents EXCEPT ![k] = g] /\ UNCHANGED <<library, torrent, limits>>
    BY <1>4 DEF AddRegisters
  <2>3. Registered' = Registered \cup {k}
    BY <1>0, <2>1, <2>2, NoneAssumption DEF Registered, TypeOK
  <2>4. RegisteredHasInfo' /\ LimitsRegistered'
    BY <1>0, <2>1, <2>2, <2>3 DEF Known, RegisteredHasInfo, LimitsRegistered, Registered, TypeOK
  <2>5. \A b \in Adders : adds'[b].pc # "idle" =>
          adds'[b].handle \in Handles /\ torrent'[adds'[b].handle].hash \in Hashes
    BY <1>4, <1>0, <2>1, <2>2 DEF AddRegisters, Known, TypeOK, AddType
  <2> QED BY <1>0, <2>2, <2>4, <2>5 DEF Known
<1>5. ASSUME NEW a \in Adders, AddFinishes(a) PROVE Known'
  <2>1. \A b \in Adders : adds'[b] \in {adds[b], NoAdd}
    BY <1>5, <1>0 DEF AddFinishes, TypeOK
  <2>2. TorrentsKept
    BY <1>5, <1>0 DEF AddFinishes, TorrentsKept, TypeOK, TorrentType
  <2> QED BY <1>5, <1>0, <2>1, <2>2, KnownFrame DEF AddFinishes, Registered
<1>6. ASSUME NEW h \in Hashes, RemoveTorrent(h), UNCHANGED adds PROVE Known'
  BY <1>6, <1>0, RemoveKeeps, KnownFrame
<1>7. ASSUME NEW h \in Hashes, SetLimits(h) PROVE Known'
  BY <1>7, <1>0, KnownFrame DEF SetLimits, Registered, TorrentsKept
<1>8. ASSUME NEW r \in Runners, NEW g \in Handles, ApplyPolicy(r, g) PROVE Known'
  <2>1. TorrentsKept
    BY <1>8, <1>0 DEF ApplyPolicy, TorrentsKept, TypeOK, TorrentType
  <2> QED BY <1>8, <1>0, <2>1, KnownFrame DEF ApplyPolicy, Registered
<1>9. ASSUME UNCHANGED <<library, torrent, torrents, limits, adds>> PROVE Known'
  BY <1>9, <1>0, KnownFrame DEF Registered, TorrentsKept
<1> QED
  BY <1>1, <1>2, <1>3, <1>4, <1>5, <1>6, <1>7, <1>8, <1>9
     DEF Next, Step, vars, DeleteTorrent, KillRemoves, ApplyInitialConfig, UpdateSecuritySettings,
         SetSharingDisabled, ReadPolicy, PolicyApplied, KillStart, KillDone

\* Nothing is known at first.
LEMMA KnownInit ==
  ASSUME Init PROVE Known
BY TypeInit DEF Init, Known, RegisteredHasInfo, LimitsRegistered, Registered, NoAdd

\* Known holds throughout.
THEOREM AlwaysKnown == Spec => []Known
BY KnownInit, KnownStep, PTL DEF Spec

\* torrentInfo may ask any registered torrent for its name and length.
THEOREM MetadataKnown == Spec => []RegisteredHasInfo
<1>1. Known => RegisteredHasInfo
  BY DEF Known
<1> QED BY <1>1, AlwaysKnown, PTL

\* A removed torrent leaves no limits behind.
THEOREM LimitsHaveTorrent == Spec => []LimitsRegistered
<1>1. Known => LimitsRegistered
  BY DEF Known
<1> QED BY <1>1, AlwaysKnown, PTL

-----------------------------------------------------------------------------
(* Sharing follows the setting when settings requests do not overlap       *)

\* Is there a step to come that will stop uploads of torrent g?
WillDisallow(g) ==
  \/ \E a \in Adders : /\ adds[a].pc = "registered"
                       /\ adds[a].handle = g
                       /\ adds[a].disableSharing
  \/ \E r \in Runners : /\ work[r].disabled
                        /\ \/ work[r].pc = "readPolicy"
                           \/ work[r].pc = "applyPolicy" /\ g \in work[r].todo

\* One settings request at a time.
OneWriter == \A v, w \in Workers : WritesSettings(v) /\ WritesSettings(w) => v = w

\* The request at work applies the policy that is set, and does not undo the
\* no-logs mode; goroutines only ever disallow uploads.
WritersAgree ==
  /\ \A w \in Workers :
       /\ work[w].pc = "setSharing" /\ config.noLogs => work[w].disabled
       /\ work[w].pc \in {"readPolicy", "applyPolicy"} => work[w].disabled = config.disableSharing
  /\ \A j \in Jobs : /\ work[j].pc \in {"idle", "readPolicy", "applyPolicy"}
                     /\ work[j].pc # "idle" => work[j].disabled

\* While sharing is off, a registered torrent that may still upload has a
\* step to come that stops it.
UploadsEnd ==
  config.disableSharing =>
    \A h \in Registered : torrent[torrents[h]].upload => WillDisallow(torrents[h])

Policy == Known /\ SharingOff /\ OneWriter /\ WritersAgree /\ UploadsEnd

\* A step that registers nothing, allows no upload and cancels no step to
\* come keeps UploadsEnd.
LEMMA UploadsFrame ==
  ASSUME Known, UploadsEnd,
         config'.disableSharing => config.disableSharing,
         \A h \in Hashes : torrents'[h] \in {torrents[h], None},
         \A h \in Registered : torrent'[torrents[h]].upload => torrent[torrents[h]].upload,
         \A h \in Registered' : WillDisallow(torrents[h]) => WillDisallow(torrents[h])'
  PROVE  UploadsEnd'
BY DEF UploadsEnd, Registered, WillDisallow

\* A step to come is not cancelled by what calls that have not registered do.
LEMMA CoverKept ==
  ASSUME \A b \in Adders : adds[b].pc = "registered" => adds'[b] = adds[b],
         UNCHANGED work
  PROVE  \A x : WillDisallow(x) => WillDisallow(x)'
BY DEF WillDisallow

\* What does not touch settings and goroutines keeps their invariants.
LEMMA WritersFrame ==
  ASSUME SharingOff, OneWriter, WritersAgree, UNCHANGED config,
         \A r \in Runners : work'[r].pc = work[r].pc /\ work'[r].disabled = work[r].disabled
  PROVE  SharingOff' /\ OneWriter' /\ WritersAgree'
BY DEF SharingOff, OneWriter, WritersAgree, WritesSettings, Runners

\* Steps of AddMagnet and of the methods that hold the mutex.
LEMMA PolicyTorrentStep ==
  ASSUME Policy, Known', UNCHANGED <<config, work>>,
         \/ \E a \in Adders, h \in Hashes : AddStart(a, h)
         \/ \E g \in Handles : MetadataArrives(g)
         \/ \E a \in Adders : AddTimesOut(a) \/ AddRegisters(a) \/ AddFinishes(a)
         \/ \E h \in Hashes : DeleteTorrent(h) \/ SetLimits(h)
  PROVE  Policy'
<1>0. TypeOK /\ Known /\ UploadsEnd
  BY DEF Policy, Known
<1>1. SharingOff' /\ OneWriter' /\ WritersAgree'
  BY WritersFrame DEF Policy
<1>2. ASSUME NEW a \in Adders, NEW h \in Hashes, AddStart(a, h) PROVE UploadsEnd'
  <2>1. \A k \in Registered : torrent'[torrents[k]] = torrent[torrents[k]]
    <3> PICK g \in Handles :
          \/ torrent[g] = NoTorrent /\ torrent' = [torrent EXCEPT ![g] = NewTorrent(h)]
          \/ UNCHANGED torrent
      BY <1>2 DEF AddStart
    <3> SUFFICES ASSUME NEW k \in Registered
                 PROVE  torrent'[torrents[k]] = torrent[torrents[k]]
      OBVIOUS
    <3>1. torrents[k] \in Handles /\ torrent[torrents[k]].hash # None
      BY <1>0, KnownHaveHash
    <3>2. torrent[g] = NoTorrent => torrents[k] # g
      BY <3>1 DEF NoTorrent
    <3> QED BY <1>0, <3>1, <3>2 DEF TypeOK
  <2>2. \A b \in Adders : adds[b].pc = "registered" => adds'[b] = adds[b]
    <3>1. \A b \in Adders : b # a => adds'[b] = adds[b]
      BY <1>0, <1>2 DEF AddStart, TypeOK
    <3>2. adds[a] = NoAdd
      BY <1>2 DEF AddStart
    <3>3. adds[a].pc # "registered"
      BY <3>2 DEF NoAdd
    <3> QED BY <3>1, <3>3
  <2>3. UNCHANGED torrents
    BY <1>2 DEF AddStart
  <2> QED BY <1>0, <2>1, <2>2, <2>3, UploadsFrame, CoverKept
<1>3. ASSUME NEW g \in Handles, MetadataArrives(g) PROVE UploadsEnd'
  <2>1. \A k \in Handles : torrent'[k].upload = torrent[k].upload
    BY <1>0, <1>3 DEF MetadataArrives, TypeOK, TorrentType
  <2> QED BY <1>0, <1>3, <2>1, UploadsFrame, RegisteredTyped DEF MetadataArrives, WillDisallow
<1>4. ASSUME NEW a \in Adders, AddTimesOut(a) PROVE UploadsEnd'
  <2>1. \A k \in Handles : torrent'[k].upload = torrent[k].upload
    BY <1>0, <1>4 DEF AddTimesOut, Drop, TypeOK, TorrentType
  <2>2. \A b \in Adders : adds[b].pc = "registered" => adds'[b] = adds[b]
    BY <1>0, <1>4 DEF AddTimesOut, TypeOK
  <2> QED BY <1>0, <1>4, <2>1, <2>2, UploadsFrame, RegisteredTyped DEF AddTimesOut, WillDisallow
<1>5. ASSUME NEW a \in Adders, AddRegisters(a) PROVE UploadsEnd'
  <2> DEFINE g == adds[a].handle
             k == torrent[g].hash
  <2>1. g \in Handles /\ k \in Hashes
    BY <1>5 DEF AddRegisters, Policy, Known
  <2>2. /\ torrents' = [torrents EXCEPT ![k] = g]
        /\ UNCHANGED torrent
        /\ adds' = [adds EXCEPT ![a] = [@ EXCEPT !.pc = "registered",
                                          !.disableSharing = config.disableSharing]]
    BY <1>5 DEF AddRegisters
  <2>3. adds'[a].pc = "registered" /\ adds'[a].handle = g
        /\ adds'[a].disableSharing = config.disableSharing
    BY <1>0, <2>2 DEF TypeOK, AddType
  <2>4. \A b \in Adders : adds[b].pc = "registered" => adds'[b] = adds[b]
    <3>1. adds[a].pc # "registered"
      BY <1>5 DEF AddRegisters
    <3>2. \A b \in Adders : b # a => adds'[b] = adds[b]
      BY <1>0, <2>2 DEF TypeOK
    <3> QED BY <3>1, <3>2
  <2> SUFFICES ASSUME config.disableSharing, NEW h \in Registered', torrent'[torrents'[h]].upload
               PROVE  WillDisallow(torrents[h])'
    BY DEF UploadsEnd
  <2>6. CASE h = k
    <3>1. torrents'[h] = g
      BY <1>0, <2>1, <2>2, <2>6 DEF TypeOK
    <3> QED BY <2>3, <3>1 DEF WillDisallow
  <2>7. CASE h # k
    <3>1. torrents'[h] = torrents[h] /\ h \in Registered
      BY <1>0, <2>1, <2>2, <2>7 DEF TypeOK, Registered
    <3>2. WillDisallow(torrents[h])
      BY <1>0, <2>2, <3>1 DEF UploadsEnd
    <3> QED BY <2>4, <3>1, <3>2 DEF WillDisallow
  <2> QED BY <2>6, <2>7
<1>6. ASSUME NEW a \in Adders, AddFinishes(a) PROVE UploadsEnd'
  <2> DEFINE g == adds[a].handle
             up == torrent[g].upload /\ ~adds[a].disableSharing
  <2>1. torrent' = [torrent EXCEPT ![g].upload = up] /\ UNCHANGED torrents
    BY <1>6 DEF AddFinishes
  <2>2. \A b \in Adders : b # a => adds'[b] = adds[b]
    BY <1>0, <1>6 DEF AddFinishes, TypeOK
  <2>3. g \in Handles /\ torrent'[g].upload = up
    BY <1>0, <1>6, <2>1 DEF AddFinishes, Policy, Known, TypeOK, TorrentType
  <2>4. \A x \in Handles : x # g => torrent'[x] = torrent[x]
    BY <1>0, <2>1 DEF TypeOK
  <2> HIDE DEF up
  <2> SUFFICES ASSUME config.disableSharing, NEW h \in Registered, torrent'[torrents[h]].upload
               PROVE  WillDisallow(torrents[h])'
    BY <2>1 DEF UploadsEnd, Registered
  <2>5. torrents[h] \in Handles
    BY <1>0, RegisteredTyped
  <2>6. torrent[torrents[h]].upload /\ (torrents[h] = g => ~adds[a].disableSharing)
    BY <2>3, <2>4, <2>5 DEF up
  <2>7. WillDisallow(torrents[h])
    BY <1>0, <2>6 DEF UploadsEnd
  <2> QED BY <2>1, <2>2, <2>6, <2>7 DEF WillDisallow
<1>7. ASSUME NEW h \in Hashes, DeleteTorrent(h) PROVE UploadsEnd'
  <2>1. \A k \in Handles : torrent'[k].upload = torrent[k].upload
    BY <1>0, <1>7 DEF DeleteTorrent, RemoveTorrent, Drop, TypeOK, TorrentType
  <2>2. \A k \in Hashes : torrents'[k] \in {torrents[k], None}
    BY <1>0, <1>7 DEF DeleteTorrent, RemoveTorrent, TypeOK
  <2>3. UNCHANGED adds
    BY <1>7 DEF DeleteTorrent
  <2>4. \A k \in Registered' : torrents'[k] = torrents[k]
    BY <2>2 DEF Registered
  <2>5. \A k \in Registered' : WillDisallow(torrents[k]) => WillDisallow(torrents[k])'
    BY <2>3, <2>4 DEF WillDisallow
  <2>6. \A k \in Registered : torrent'[torrents[k]].upload => torrent[torrents[k]].upload
    BY <1>0, <2>1, RegisteredTyped
  <2> QED BY <1>0, <2>2, <2>5, <2>6, UploadsFrame
<1>8. ASSUME NEW h \in Hashes, SetLimits(h) PROVE UploadsEnd'
  BY <1>0, <1>8, UploadsFrame DEF SetLimits, WillDisallow
<1> QED BY <1>1, <1>2, <1>3, <1>4, <1>5, <1>6, <1>7, <1>8 DEF Policy

\* SetNoLogsMode, called by a request when no other is at work.
LEMMA NoLogsPolicy ==
  ASSUME Policy, NEW b \in BOOLEAN, NEW others,
         SetNoLogsMode(b, others), Known', UNCHANGED <<torrent, torrents, adds>>,
         \A v \in Workers : ~WritesSettings(v),
         NEW w \in Workers, others \in [Runners -> WorkType],
         \A r \in Runners : r # w => others[r] = work[r],
         \/ others[w] = work[w]
         \/ others[w].pc = "setSharing" /\ (b => others[w].disabled)
  PROVE  Policy'
<1>0. Known /\ TypeOK /\ UploadsEnd /\ WritersAgree
  BY DEF Policy, Known
<1>w. ~WritesSettings(w) /\ w \in Runners /\ w \notin Jobs
  BY WorkersAssumption DEF Runners
<1>1. CASE b
  <2>1. PICK j \in Jobs :
          /\ work[j] = NoWork
          /\ work' = [others EXCEPT ![j] = [NoWork EXCEPT !.pc = "readPolicy", !.disabled = TRUE]]
    BY <1>1 DEF SetNoLogsMode
  <2>2. config' = [noLogs |-> TRUE, disableSharing |-> TRUE]
    BY <1>1 DEF SetNoLogsMode
  <2>3. j \in Runners /\ j # w /\ work'[j].pc = "readPolicy" /\ work'[j].disabled
    BY <1>w, <2>1 DEF Runners, NoWork
  <2>4. work'[w] = others[w] /\ \A r \in Runners : r # w /\ r # j => work'[r] = work[r]
    BY <1>w, <2>1, <2>3
  <2>5. \A v \in Workers : v # w => work'[v] = work[v] /\ ~WritesSettings(v)
    BY <2>1, <2>4, WorkersAssumption DEF Runners
  <2>6. UploadsEnd'
    BY <2>3 DEF UploadsEnd, WillDisallow
  <2>7. OneWriter'
    BY <2>5 DEF OneWriter, WritesSettings
  <2>8. WritersAgree'
    <3>1. \A v \in Workers :
            /\ work'[v].pc = "setSharing" => work'[v].disabled
            /\ work'[v].pc \notin {"readPolicy", "applyPolicy"}
      BY <1>1, <1>w, <2>4, <2>5 DEF WritesSettings
    <3>2. \A k \in Jobs : k # j => work'[k] = work[k]
      BY <1>w, <2>4 DEF Runners
    <3> QED BY <1>0, <2>3, <3>1, <3>2 DEF WritersAgree
  <2> QED BY <2>2, <2>6, <2>7, <2>8 DEF Policy, SharingOff
<1>2. CASE ~b
  <2>1. config' = [config EXCEPT !.noLogs = FALSE] /\ work' = others
    BY <1>2 DEF SetNoLogsMode
  <2>2. ~config'.noLogs /\ config'.disableSharing = config.disableSharing
    BY <1>0, <2>1 DEF TypeOK
  <2>3. \A v \in Workers : v # w => work'[v] = work[v] /\ ~WritesSettings(v)
    BY <2>1 DEF Runners
  <2>4. OneWriter'
    BY <2>3 DEF OneWriter, WritesSettings
  <2>5. WritersAgree'
    BY <1>0, <1>w, <2>1, <2>2, <2>3 DEF WritersAgree, WritesSettings, Runners
  <2>6. UploadsEnd'
    <3>1. \A x \in Registered' : WillDisallow(torrents[x]) => WillDisallow(torrents[x])'
      BY <1>w, <2>1 DEF WillDisallow, WritesSettings
    <3> QED BY <1>0, <2>2, <3>1, UploadsFrame
  <2> QED BY <2>2, <2>4, <2>5, <2>6 DEF Policy, SharingOff
<1> QED BY <1>1, <1>2

\* Steps of the settings requests and of the policy they apply.
LEMMA PolicySettingsStep ==
  ASSUME Policy, Known', Serial,
         \/ \E w \in Workers, b \in BOOLEAN : ApplyInitialConfig(w, b)
         \/ \E w \in Workers, b, s \in BOOLEAN : UpdateSecuritySettings(w, b, s)
         \/ \E w \in Workers : SetSharingDisabled(w)
         \/ \E r \in Runners : ReadPolicy(r) \/ PolicyApplied(r)
         \/ \E r \in Runners, g \in Handles : ApplyPolicy(r, g)
  PROVE  Policy'
<1>0. Known /\ TypeOK /\ UploadsEnd /\ WritersAgree /\ OneWriter /\ SharingOff
  BY DEF Policy, Known
<1>1. ASSUME NEW w \in Workers, NEW b \in BOOLEAN, ApplyInitialConfig(w, b) PROVE Policy'
  <2>1. work \in [Runners -> WorkType] /\ w \in Runners
    BY <1>0 DEF TypeOK, Runners
  <2>2. SetNoLogsMode(b, work) /\ UNCHANGED <<torrent, torrents, adds>>
    BY <1>1 DEF ApplyInitialConfig
  <2>3. \A v \in Workers : ~WritesSettings(v)
    BY <1>1 DEF ApplyInitialConfig, MayWriteSettings, MayStart, Serial
  <2> QED BY <2>1, <2>2, <2>3, NoLogsPolicy
<1>2. ASSUME NEW w \in Workers, NEW b \in BOOLEAN, NEW s \in BOOLEAN,
             UpdateSecuritySettings(w, b, s)
      PROVE  Policy'
  <2> DEFINE mine == [NoWork EXCEPT !.pc = "setSharing", !.disabled = s \/ b]
             others == [work EXCEPT ![w] = mine]
  <2>1. mine \in WorkType /\ mine.pc = "setSharing" /\ (b => mine.disabled)
    BY DEF NoWork, WorkType
  <2>2. SetNoLogsMode(b, others) /\ UNCHANGED <<torrent, torrents, adds>>
    BY <1>2 DEF UpdateSecuritySettings
  <2>3. \A v \in Workers : ~WritesSettings(v)
    BY <1>2 DEF UpdateSecuritySettings, MayWriteSettings, MayStart, Serial
  <2> HIDE DEF mine
  <2>4. others \in [Runners -> WorkType] /\ others[w] = mine
        /\ \A r \in Runners : r # w => others[r] = work[r]
    BY <1>0, <2>1 DEF TypeOK, Runners
  <2> HIDE DEF others
  <2> QED BY <2>1, <2>2, <2>3, <2>4, NoLogsPolicy
<1>3. ASSUME NEW w \in Workers, SetSharingDisabled(w) PROVE Policy'
  <2> DEFINE d == work[w].disabled
  <2>1. w \in Runners /\ d \in BOOLEAN /\ (config.noLogs => d) /\ w \notin Jobs
    BY <1>0, <1>3, WorkersAssumption DEF SetSharingDisabled, WritersAgree, TypeOK, WorkType, Runners
  <2>2. config' = [config EXCEPT !.disableSharing = d]
        /\ work' = [work EXCEPT ![w].pc = "readPolicy"] /\ UNCHANGED <<torrent, torrents, adds>>
    BY <1>3 DEF SetSharingDisabled
  <2>3. config'.disableSharing = d /\ config'.noLogs = config.noLogs
    BY <1>0, <2>2 DEF TypeOK
  <2>4. work'[w].pc = "readPolicy" /\ work'[w].disabled = d
        /\ \A r \in Runners : r # w => work'[r] = work[r]
    BY <1>0, <2>1, <2>2 DEF TypeOK, WorkType
  <2>5. WritesSettings(w)
    BY <1>3 DEF SetSharingDisabled, WritesSettings
  <2>6. \A v \in Workers : v # w => ~WritesSettings(v) /\ work'[v] = work[v]
    BY <1>0, <2>4, <2>5 DEF OneWriter, Runners
  <2>7. SharingOff'
    BY <2>1, <2>3 DEF SharingOff
  <2>8. OneWriter'
    BY <2>6 DEF OneWriter, WritesSettings
  <2>9. WritersAgree'
    BY <1>0, <2>1, <2>3, <2>4, <2>6 DEF WritersAgree, WritesSettings, Runners
  <2>10. UploadsEnd'
    BY <2>1, <2>3, <2>4 DEF UploadsEnd, WillDisallow
  <2> QED BY <2>7, <2>8, <2>9, <2>10 DEF Policy
<1>4. ASSUME NEW r \in Runners, ReadPolicy(r) PROVE Policy'
  <2>1. UNCHANGED <<config, torrent, torrents, adds>>
    BY <1>4 DEF ReadPolicy
  <2>2. /\ work'[r].pc = "applyPolicy" /\ work'[r].todo = RegisteredSet
        /\ work'[r].disabled = work[r].disabled /\ work[r].pc = "readPolicy"
        /\ \A q \in Runners : q # r => work'[q] = work[q]
    BY <1>0, <1>4 DEF ReadPolicy, TypeOK, WorkType
  <2>3. \A v \in Workers : WritesSettings(v)' <=> WritesSettings(v)
    BY <2>2 DEF WritesSettings, Runners
  <2>4. OneWriter'
    BY <1>0, <2>3 DEF OneWriter
  <2>5. WritersAgree'
    BY <1>0, <2>1, <2>2 DEF WritersAgree, Runners
  <2>6. UploadsEnd'
    <3> SUFFICES ASSUME config.disableSharing, NEW h \in Registered, torrent[torrents[h]].upload
                 PROVE  WillDisallow(torrents[h])'
      BY <2>1 DEF UploadsEnd, Registered
    <3>1. WillDisallow(torrents[h]) /\ torrents[h] \in RegisteredSet
      BY <1>0 DEF UploadsEnd, RegisteredSet
    <3> QED BY <2>1, <2>2, <3>1 DEF WillDisallow
  <2> QED BY <1>0, <2>1, <2>4, <2>5, <2>6 DEF Policy, SharingOff
<1>5. ASSUME NEW r \in Runners, PolicyApplied(r) PROVE Policy'
  <2>1. UNCHANGED <<config, torrent, torrents, adds>> /\ work[r].pc = "applyPolicy"
        /\ work[r].todo = {}
    BY <1>5 DEF PolicyApplied
  <2>2. work'[r].pc = "idle" /\ \A q \in Runners : q # r => work'[q] = work[q]
    BY <1>0, <1>5 DEF PolicyApplied, TypeOK, NoWork
  <2>3. OneWriter'
    BY <1>0, <2>2 DEF OneWriter, WritesSettings, Runners
  <2>4. WritersAgree'
    BY <1>0, <2>1, <2>2 DEF WritersAgree, Runners
  <2>5. UploadsEnd'
    <3> SUFFICES ASSUME config.disableSharing, NEW h \in Registered, torrent[torrents[h]].upload
                 PROVE  WillDisallow(torrents[h])'
      BY <2>1 DEF UploadsEnd, Registered
    <3>1. WillDisallow(torrents[h])
      BY <1>0 DEF UploadsEnd
    <3> QED BY <2>1, <2>2, <3>1 DEF WillDisallow
  <2> QED BY <1>0, <2>1, <2>3, <2>4, <2>5 DEF Policy, SharingOff
<1>6. ASSUME NEW r \in Runners, NEW g \in Handles, ApplyPolicy(r, g) PROVE Policy'
  <2> DEFINE up == ~work[r].disabled
  <2>1. UNCHANGED <<config, torrents, adds>> /\ work[r].pc = "applyPolicy"
        /\ torrent' = [torrent EXCEPT ![g].upload = up]
    BY <1>6 DEF ApplyPolicy
  <2>2. /\ work'[r].pc = "applyPolicy" /\ work'[r].todo = work[r].todo \ {g}
        /\ work'[r].disabled = work[r].disabled
        /\ \A q \in Runners : q # r => work'[q] = work[q]
    BY <1>0, <1>6 DEF ApplyPolicy, TypeOK, WorkType
  <2>3. OneWriter'
    BY <1>0, <2>1, <2>2 DEF OneWriter, WritesSettings, Runners
  <2>4. WritersAgree'
    BY <1>0, <2>1, <2>2 DEF WritersAgree, Runners
  <2>5. torrent'[g].upload = up /\ \A x \in Handles : x # g => torrent'[x] = torrent[x]
    BY <1>0, <2>1 DEF TypeOK, TorrentType
  <2>6. config.disableSharing => work[r].disabled
    BY <1>0, <2>1 DEF WritersAgree, Runners
  <2>7. UploadsEnd'
    <3> SUFFICES ASSUME config.disableSharing, NEW h \in Registered, torrent'[torrents[h]].upload
                 PROVE  WillDisallow(torrents[h])'
      BY <2>1 DEF UploadsEnd, Registered
    <3>1. torrents[h] # g /\ torrent[torrents[h]].upload
      BY <1>0, <2>5, <2>6, RegisteredTyped
    <3>2. WillDisallow(torrents[h])
      BY <1>0, <3>1 DEF UploadsEnd
    <3> QED BY <2>1, <2>2, <3>1, <3>2 DEF WillDisallow
  <2> QED BY <1>0, <2>1, <2>3, <2>4, <2>7 DEF Policy, SharingOff
<1> QED BY <1>1, <1>2, <1>3, <1>4, <1>5, <1>6

\* Kill switches and cleanups only remove.
LEMMA PolicyKillStep ==
  ASSUME Policy, Known',
         \/ \E w \in Workers : KillStart(w) \/ KillDone(w)
         \/ \E w \in Workers, h \in Hashes : KillRemoves(w, h)
  PROVE  Policy'
<1>0. Known /\ TypeOK /\ UploadsEnd /\ WritersAgree /\ OneWriter /\ SharingOff
  BY DEF Policy, Known
<1>1. ASSUME NEW w \in Workers, KillStart(w) \/ KillDone(w) PROVE Policy'
  <2>1. UNCHANGED <<config, torrent, torrents, adds>> /\ w \in Runners /\ w \notin Jobs
    BY <1>1, WorkersAssumption DEF KillStart, MayStart, KillDone, Runners
  <2>2. /\ work[w].pc \in {"idle", "removing"} /\ work'[w].pc \in {"idle", "removing"}
        /\ \A q \in Runners : q # w => work'[q] = work[q]
    <3>1. CASE KillStart(w)
      BY <1>0, <2>1, <3>1 DEF KillStart, MayStart, TypeOK, NoWork
    <3>2. CASE KillDone(w)
      BY <1>0, <2>1, <3>2 DEF KillDone, KillEnded, TypeOK, NoWork
    <3> QED BY <1>1, <3>1, <3>2
  <2>3. OneWriter'
    BY <1>0, <2>2 DEF OneWriter, WritesSettings, Runners
  <2>4. WritersAgree'
    BY <1>0, <2>1, <2>2 DEF WritersAgree, Runners
  <2>5. UploadsEnd'
    <3> SUFFICES ASSUME config.disableSharing, NEW h \in Registered, torrent[torrents[h]].upload
                 PROVE  WillDisallow(torrents[h])'
      BY <2>1 DEF UploadsEnd, Registered
    <3>1. WillDisallow(torrents[h])
      BY <1>0 DEF UploadsEnd
    <3> QED BY <2>1, <2>2, <3>1 DEF WillDisallow
  <2> QED BY <1>0, <2>1, <2>3, <2>4, <2>5 DEF Policy, SharingOff
<1>2. ASSUME NEW w \in Workers, NEW h \in Hashes, KillRemoves(w, h) PROVE Policy'
  <2>1. UNCHANGED <<config, adds>> /\ RemoveTorrent(h)
    BY <1>2 DEF KillRemoves
  <2>2. \A q \in Runners : /\ work'[q].pc = work[q].pc
                           /\ work'[q].disabled = work[q].disabled
                           /\ work'[q].todo = work[q].todo
    BY <1>0, <1>2 DEF KillRemoves, TypeOK, WorkType
  <2>3. SharingOff' /\ OneWriter' /\ WritersAgree'
    BY <1>0, <2>1, <2>2, WritersFrame
  <2>4. \A k \in Handles : torrent'[k].upload = torrent[k].upload
    BY <1>0, <2>1 DEF RemoveTorrent, Drop, TypeOK, TorrentType
  <2>5. \A k \in Hashes : torrents'[k] \in {torrents[k], None}
    BY <1>0, <2>1 DEF RemoveTorrent, TypeOK
  <2>6. \A k \in Registered' : torrents'[k] = torrents[k]
    BY <2>5 DEF Registered
  <2>7. \A k \in Registered' : WillDisallow(torrents[k]) => WillDisallow(torrents[k])'
    BY <2>1, <2>2, <2>6 DEF WillDisallow
  <2>8. \A k \in Registered : torrent'[torrents[k]].upload => torrent[torrents[k]].upload
    BY <1>0, <2>4, RegisteredTyped
  <2>9. UploadsEnd'
    BY <1>0, <2>1, <2>5, <2>7, <2>8, UploadsFrame
  <2> QED BY <2>3, <2>9 DEF Policy
<1> QED BY <1>1, <1>2

\* A stuttering step keeps the policy.
LEMMA PolicyStutter ==
  ASSUME Policy, UNCHANGED vars PROVE Policy'
<1>1. Known'
  BY KnownStep DEF Policy
<1>2. SharingOff' /\ OneWriter' /\ WritersAgree'
  BY WritersFrame DEF Policy, vars
<1>3. UploadsEnd'
  <2>1. \A k \in Registered' : WillDisallow(torrents[k]) => WillDisallow(torrents[k])'
    BY DEF vars, WillDisallow
  <2> QED BY <2>1, UploadsFrame DEF Policy, vars
<1> QED BY <1>1, <1>2, <1>3 DEF Policy

\* While settings requests do not overlap, every step keeps Policy.
LEMMA PolicyStep ==
  ASSUME Policy, Serial, [Next]_vars PROVE Policy'
<1>1. Known'
  BY KnownStep DEF Policy
<1>2. ASSUME NEW a \in Adders, AddTimesOut(a) \/ AddRegisters(a) \/ AddFinishes(a) PROVE Policy'
  BY <1>1, <1>2, PolicyTorrentStep DEF AddTimesOut, AddRegisters, AddFinishes
<1>3. ASSUME NEW h \in Hashes, DeleteTorrent(h) \/ SetLimits(h) PROVE Policy'
  BY <1>1, <1>3, PolicyTorrentStep DEF DeleteTorrent, SetLimits
<1>4. ASSUME NEW a \in Adders, NEW h \in Hashes, AddStart(a, h) PROVE Policy'
  BY <1>1, <1>4, PolicyTorrentStep DEF AddStart
<1>5. ASSUME NEW g \in Handles, MetadataArrives(g) PROVE Policy'
  BY <1>1, <1>5, PolicyTorrentStep DEF MetadataArrives
<1> QED
  BY <1>1, <1>2, <1>3, <1>4, <1>5, PolicySettingsStep, PolicyKillStep, PolicyStutter DEF Next, Step

\* Nothing is registered and nobody is at work at first.
LEMMA PolicyInit ==
  ASSUME Init PROVE Policy
<1>1. Known
  BY KnownInit
<1>2. \A r \in Runners : work[r].pc = "idle"
  BY DEF Init, NoWork
<1>3. SharingOff
  <2>1. PICK n \in BOOLEAN, s \in BOOLEAN : config = [noLogs |-> n, disableSharing |-> s \/ n]
    BY DEF Init
  <2>2. config.noLogs = n /\ config.disableSharing = (s \/ n)
    BY <2>1
  <2> QED BY <2>2 DEF SharingOff
<1>4. OneWriter /\ WritersAgree
  BY <1>2 DEF OneWriter, WritersAgree, WritesSettings, Runners
<1>5. UploadsEnd
  BY DEF Init, UploadsEnd, Registered
<1> QED BY <1>1, <1>3, <1>4, <1>5 DEF Policy

\* When settings requests do not overlap: once no request and no goroutine is
\* at work on the policy, no registered torrent uploads against the setting.
THEOREM SharingFollowsSetting == Spec => []SharingHonoured
<1>1. Init => (Serial => Policy)
  BY PolicyInit
<1>2. (Serial => Policy) /\ [Next]_vars => (Serial => Policy)'
  BY PolicyStep DEF Next, vars, Serial
<1>3. (Serial => Policy) => SharingHonoured
  <2> SUFFICES ASSUME Policy, config.disableSharing, \A r \in Runners : ~WritesSettings(r),
                      NEW h \in Registered, torrent[torrents[h]].upload
               PROVE  \E a \in Adders : /\ adds[a].pc = "registered"
                                        /\ adds[a].handle = torrents[h]
                                        /\ adds[a].disableSharing
    BY DEF SharingHonoured
  <2>1. WillDisallow(torrents[h])
    BY DEF Policy, UploadsEnd
  <2> QED BY <2>1 DEF WillDisallow, WritesSettings
<1> QED BY <1>1, <1>2, <1>3, PTL DEF Spec

\* Nor is sharing on at any moment in no-logs mode.
THEOREM NoLogsKeepsSharingOff == Spec => []NoLogsIsPrivate
<1>1. Init => (Serial => Policy)
  BY PolicyInit
<1>2. (Serial => Policy) /\ [Next]_vars => (Serial => Policy)'
  BY PolicyStep DEF Next, vars, Serial
<1>3. (Serial => Policy) => NoLogsIsPrivate
  BY DEF Policy, NoLogsIsPrivate
<1> QED BY <1>1, <1>2, <1>3, PTL DEF Spec

-----------------------------------------------------------------------------
(* The list, the library and the kill switch agree when no magnet link is  *)
(* added while its hash is known                                           *)

\* A call that waits for metadata waits for the torrent the library has, which
\* is not listed yet, and waits alone.
WaitingOwnsHash ==
  /\ \A a \in Adders : adds[a].pc = "waiting" =>
       LET g == adds[a].handle IN
         library[torrent[g].hash] = g /\ torrent[g].hash \notin Registered
  /\ \A a, b \in Adders :
       adds[a].pc = "waiting" /\ adds[b].pc = "waiting" /\ adds[a].handle = adds[b].handle
         => a = b

\* What a kill switch has copied is dropped, or still on its list.
DoomedOrDropped ==
  \A w \in Workers : work[w].pc = "removing" =>
    \A g \in work[w].snapshot :
      torrent[g].dropped \/ \E h \in work[w].doomed : torrents[h] = g

Listing == Known /\ ListAgrees /\ WaitingOwnsHash /\ DoomedOrDropped

\* A torrent the library has is the torrent of one hash.
LEMMA LibraryInjective ==
  ASSUME Known, NEW h \in Hashes, NEW k \in Hashes, library[h] # None, library[h] = library[k]
  PROVE  h = k
BY DEF Known

\* RemoveTorrent takes one hash out of the list and out of the library.
LEMMA RemoveListed ==
  ASSUME Listing, NEW h \in Registered, RemoveTorrent(h)
  PROVE  /\ torrents' = [torrents EXCEPT ![h] = None]
         /\ library' = [library EXCEPT ![h] = None]
         /\ torrent' = [torrent EXCEPT ![torrents[h]].dropped = TRUE]
<1>1. Known /\ TypeOK /\ h \in Hashes /\ library[h] = torrents[h] /\ torrents[h] # None
  BY DEF Listing, Known, ListAgrees, Registered
<1>2. \A k \in Hashes : library[k] = torrents[h] => k = h
  BY <1>1, LibraryInjective
<1>3. torrents' = [torrents EXCEPT ![h] = None]
      /\ torrent' = [torrent EXCEPT ![torrents[h]].dropped = TRUE]
      /\ library' = [k \in Hashes |-> IF library[k] = torrents[h] THEN None ELSE library[k]]
  BY DEF RemoveTorrent, Drop
<1>4. [k \in Hashes |-> IF library[k] = torrents[h] THEN None ELSE library[k]]
        = [library EXCEPT ![h] = None]
  BY <1>1, <1>2 DEF TypeOK
<1> QED BY <1>3, <1>4

\* A removal keeps the list and the library in agreement.
LEMMA RemoveKeepsListing ==
  ASSUME Listing, NEW h \in Registered, RemoveTorrent(h), UNCHANGED adds, Known'
  PROVE  ListAgrees' /\ WaitingOwnsHash'
<1>1. Known /\ TypeOK /\ h \in Hashes /\ ListAgrees /\ WaitingOwnsHash
  BY DEF Listing, Known, Registered
<1>2. /\ torrents' = [torrents EXCEPT ![h] = None]
      /\ library' = [library EXCEPT ![h] = None]
      /\ torrent' = [torrent EXCEPT ![torrents[h]].dropped = TRUE]
  BY RemoveListed
<1>3. Registered' = Registered \ {h}
  BY <1>1, <1>2 DEF Registered, TypeOK
<1>4. \A g \in Handles : torrent'[g].hash = torrent[g].hash
  BY <1>1, <1>2 DEF TypeOK, TorrentType
<1>5. ListAgrees'
  BY <1>1, <1>2, <1>3 DEF ListAgrees, TypeOK
<1>6. WaitingOwnsHash'
  BY <1>1, <1>2, <1>3, <1>4 DEF WaitingOwnsHash, Known, TypeOK
<1> QED BY <1>5, <1>6

\* The kill switches' lists survive a step that revives no torrent, leaves
\* the kill switches alone and removes from the list only what it drops.
LEMMA DoomedFrame ==
  ASSUME DoomedOrDropped, TypeOK,
         \A w \in Workers : work'[w].pc = "removing" =>
            work'[w] = work[w],
         \A g \in Handles : torrent[g].dropped => torrent'[g].dropped,
         \A h \in Hashes : torrents[h] \in Handles =>
            torrents'[h] = torrents[h] \/ torrent'[torrents[h]].dropped
  PROVE  DoomedOrDropped'
<1> SUFFICES ASSUME NEW w \in Workers, work'[w].pc = "removing", NEW g \in work'[w].snapshot,
                    ~torrent'[g].dropped
             PROVE  \E h \in work'[w].doomed : torrents'[h] = g
  BY DEF DoomedOrDropped
<1>1. work'[w] = work[w] /\ g \in Handles /\ work[w].doomed \subseteq Hashes
  BY DEF TypeOK, WorkType, Runners
<1>2. PICK h \in work[w].doomed : torrents[h] = g
  BY <1>1 DEF DoomedOrDropped
<1> QED BY <1>1, <1>2

\* What becomes of the kill switches' lists in a removal.
LEMMA RemoveKeepsDoomed ==
  ASSUME Listing, NEW h \in Registered, RemoveTorrent(h), UNCHANGED work
  PROVE  DoomedOrDropped'
<1>1. TypeOK /\ DoomedOrDropped
  BY DEF Listing, Known
<1>2. /\ torrents' = [torrents EXCEPT ![h] = None]
      /\ torrent' = [torrent EXCEPT ![torrents[h]].dropped = TRUE]
  BY RemoveListed
<1>3. \A g \in Handles : torrent[g].dropped => torrent'[g].dropped
  BY <1>1, <1>2 DEF TypeOK, TorrentType
<1>4. \A k \in Hashes : torrents[k] \in Handles =>
        torrents'[k] = torrents[k] \/ torrent'[torrents[k]].dropped
  BY <1>1, <1>2 DEF TypeOK, TorrentType
<1> QED BY <1>1, <1>3, <1>4, DoomedFrame

\* Every step of the calls that add torrents keeps the agreement.
LEMMA ListingAddStep ==
  ASSUME Listing, Known', Fresh,
         \/ \E a \in Adders, h \in Hashes : AddStart(a, h)
         \/ \E g \in Handles : MetadataArrives(g)
         \/ \E a \in Adders : AddTimesOut(a) \/ AddRegisters(a) \/ AddFinishes(a)
  PROVE  Listing'
<1>0. Known /\ TypeOK /\ ListAgrees /\ WaitingOwnsHash /\ DoomedOrDropped
  BY DEF Listing, Known
<1>1. ASSUME NEW a \in Adders, NEW h \in Hashes, AddStart(a, h) PROVE Listing'
  <2>1. library[h] = None /\ h \notin Registered
    BY <1>0, <1>1 DEF AddStart, ListAgrees, Registered, Fresh
  <2>2. UNCHANGED <<torrents, work>> /\ adds[a] = NoAdd
    BY <1>1 DEF AddStart
  <2>3. PICK g \in Handles :
          /\ torrent[g] = NoTorrent
          /\ torrent' = [torrent EXCEPT ![g] = NewTorrent(h)]
          /\ library' = [library EXCEPT ![h] = g]
          /\ adds' = [adds EXCEPT ![a] = [NoAdd EXCEPT !.pc = "waiting", !.handle = g]]
    BY <1>1, <2>1 DEF AddStart
  <2>4. torrent'[g].hash = h /\ ~torrent[g].dropped /\ torrent[g].hash = None
    BY <1>0, <2>3 DEF TypeOK, NewTorrent, NoTorrent
  <2>5. \A x \in Handles : x # g => torrent'[x] = torrent[x]
    BY <1>0, <2>3 DEF TypeOK
  <2>6. adds'[a].pc = "waiting" /\ adds'[a].handle = g
    BY <1>0, <2>3 DEF TypeOK, NoAdd
  <2>7. \A b \in Adders : b # a => adds'[b] = adds[b]
    BY <1>0, <2>3 DEF TypeOK
  <2>8. \A b \in Adders : adds[b].pc # "idle" => b # a /\ adds[b].handle # g
    BY <1>0, <2>2, <2>4, NoneAssumption DEF Known, NoAdd
  <2>9. library'[h] = g /\ \A k \in Hashes : k # h => library'[k] = library[k]
    BY <1>0, <2>3 DEF TypeOK
  <2>10. ListAgrees'
    <3>1. \A k \in Hashes : k \in Registered' => library'[k] = torrents'[k]
      BY <1>0, <2>1, <2>2, <2>9 DEF ListAgrees, Registered
    <3>2. \A k \in Hashes : library'[k] # None /\ k \notin Registered' =>
            \E b \in Adders : adds'[b].pc = "waiting" /\ adds'[b].handle = library'[k]
      BY <1>0, <2>2, <2>6, <2>7, <2>8, <2>9 DEF ListAgrees, Registered
    <3> QED BY <3>1, <3>2 DEF ListAgrees
  <2>11. WaitingOwnsHash'
    <3>1. \A b \in Adders : adds'[b].pc = "waiting" =>
            /\ library'[torrent'[adds'[b].handle].hash] = adds'[b].handle
            /\ torrent'[adds'[b].handle].hash \notin Registered'
      <4> SUFFICES ASSUME NEW b \in Adders, adds'[b].pc = "waiting"
                   PROVE  /\ library'[torrent'[adds'[b].handle].hash] = adds'[b].handle
                          /\ torrent'[adds'[b].handle].hash \notin Registered'
        OBVIOUS
      <4>1. CASE b = a
        BY <2>1, <2>2, <2>4, <2>6, <2>9, <4>1 DEF Registered
      <4>2. CASE b # a
        <5>1. adds'[b] = adds[b] /\ adds[b].pc = "waiting" /\ adds[b].handle # g
          BY <2>7, <2>8, <4>2
        <5>2. /\ adds[b].handle \in Handles /\ torrent[adds[b].handle].hash \in Hashes
              /\ library[torrent[adds[b].handle].hash] = adds[b].handle
              /\ torrent[adds[b].handle].hash \notin Registered
          BY <1>0, <5>1 DEF Known, WaitingOwnsHash
        <5>3. torrent[adds[b].handle].hash # h
          BY <2>1, <5>2, NoneAssumption
        <5> QED BY <2>2, <2>5, <2>9, <5>1, <5>2, <5>3 DEF Registered
      <4> QED BY <4>1, <4>2
    <3>2. \A b, c \in Adders :
            adds'[b].pc = "waiting" /\ adds'[c].pc = "waiting" /\ adds'[b].handle = adds'[c].handle
              => b = c
      BY <1>0, <2>6, <2>7, <2>8 DEF WaitingOwnsHash
    <3> QED BY <3>1, <3>2 DEF WaitingOwnsHash
  <2>12. DoomedOrDropped'
    BY <1>0, <2>2, <2>4, <2>5, DoomedFrame
  <2> QED BY <2>10, <2>11, <2>12 DEF Listing
<1>2. ASSUME NEW g \in Handles, MetadataArrives(g) PROVE Listing'
  <2>1. \A x \in Handles : torrent'[x].hash = torrent[x].hash
                           /\ torrent'[x].dropped = torrent[x].dropped
    BY <1>0, <1>2 DEF MetadataArrives, TypeOK, TorrentType
  <2>2. UNCHANGED <<library, torrents, adds, work>>
    BY <1>2 DEF MetadataArrives
  <2>3. ListAgrees'
    BY <1>0, <2>2 DEF ListAgrees, Registered
  <2>4. WaitingOwnsHash'
    BY <1>0, <2>1, <2>2 DEF WaitingOwnsHash, Registered, Known
  <2>5. DoomedOrDropped'
    BY <1>0, <2>1, <2>2, DoomedFrame
  <2> QED BY <2>3, <2>4, <2>5 DEF Listing
<1>3. ASSUME NEW a \in Adders, AddTimesOut(a) PROVE Listing'
  <2> DEFINE g == adds[a].handle
             k == torrent[g].hash
  <2>1. adds[a].pc = "waiting" /\ g \in Handles /\ k \in Hashes
        /\ library[k] = g /\ k \notin Registered
    BY <1>0, <1>3 DEF AddTimesOut, Known, WaitingOwnsHash
  <2>2. /\ UNCHANGED <<torrents, work>>
        /\ torrent' = [torrent EXCEPT ![g].dropped = TRUE]
        /\ library' = [h \in Hashes |-> IF library[h] = g THEN None ELSE library[h]]
        /\ adds' = [adds EXCEPT ![a] = NoAdd]
    BY <1>3 DEF AddTimesOut, Drop
  <2>3. \A h \in Hashes : library[h] = g => h = k
    BY <1>0, <2>1, LibraryInjective, NoneAssumption
  <2>4. library'[k] = None /\ \A h \in Hashes : h # k => library'[h] = library[h]
    BY <2>1, <2>2, <2>3
  <2>5. adds'[a].pc = "idle" /\ \A b \in Adders : b # a => adds'[b] = adds[b]
    BY <1>0, <2>2 DEF TypeOK, NoAdd
  <2>6. \A x \in Handles : torrent'[x].hash = torrent[x].hash
                           /\ (torrent[x].dropped => torrent'[x].dropped)
    BY <1>0, <2>2 DEF TypeOK, TorrentType
  <2>7. ListAgrees'
    <3>1. \A h \in Hashes : h \in Registered' => library'[h] = torrents'[h]
      BY <1>0, <2>1, <2>2, <2>4 DEF ListAgrees, Registered
    <3>2. \A h \in Hashes : library'[h] # None /\ h \notin Registered' =>
            \E b \in Adders : adds'[b].pc = "waiting" /\ adds'[b].handle = library'[h]
      BY <1>0, <2>2, <2>3, <2>4, <2>5 DEF ListAgrees, Registered
    <3> QED BY <3>1, <3>2 DEF ListAgrees
  <2>8. \A b \in Adders : adds'[b].pc = "waiting" =>
          /\ b # a /\ adds'[b] = adds[b] /\ adds[b].handle # g
          /\ adds[b].handle \in Handles /\ torrent[adds[b].handle].hash \in Hashes
          /\ library[torrent[adds[b].handle].hash] = adds[b].handle
          /\ torrent[adds[b].handle].hash \notin Registered
    BY <1>0, <2>1, <2>5 DEF WaitingOwnsHash, Known
  <2>9. WaitingOwnsHash'
    <3>1. \A b \in Adders : adds'[b].pc = "waiting" =>
            /\ library'[torrent'[adds'[b].handle].hash] = adds'[b].handle
            /\ torrent'[adds'[b].handle].hash \notin Registered'
      <4> SUFFICES ASSUME NEW b \in Adders, adds'[b].pc = "waiting"
                   PROVE  /\ library'[torrent'[adds'[b].handle].hash] = adds'[b].handle
                          /\ torrent'[adds'[b].handle].hash \notin Registered'
        OBVIOUS
      <4>1. torrent[adds[b].handle].hash # k
        BY <2>1, <2>8
      <4> QED BY <2>2, <2>4, <2>6, <2>8, <4>1 DEF Registered
    <3>2. \A b, c \in Adders :
            adds'[b].pc = "waiting" /\ adds'[c].pc = "waiting" /\ adds'[b].handle = adds'[c].handle
              => b = c
      BY <1>0, <2>8 DEF WaitingOwnsHash
    <3> QED BY <3>1, <3>2 DEF WaitingOwnsHash
  <2>10. DoomedOrDropped'
    BY <1>0, <2>2, <2>6, DoomedFrame
  <2> QED BY <2>7, <2>9, <2>10 DEF Listing
<1>4. ASSUME NEW a \in Adders, AddRegisters(a) PROVE Listing'
  <2> DEFINE g == adds[a].handle
             k == torrent[g].hash
  <2>1. adds[a].pc = "waiting" /\ g \in Handles /\ k \in Hashes
        /\ library[k] = g /\ k \notin Registered
    BY <1>0, <1>4 DEF AddRegisters, Known, WaitingOwnsHash
  <2>2. /\ UNCHANGED <<library, torrent, work>>
        /\ torrents' = [torrents EXCEPT ![k] = g]
        /\ adds' = [adds EXCEPT ![a] = [@ EXCEPT !.pc = "registered",
                                          !.disableSharing = config.disableSharing]]
    BY <1>4 DEF AddRegisters
  <2>3. adds'[a].pc = "registered" /\ \A b \in Adders : b # a => adds'[b] = adds[b]
    BY <1>0, <2>2 DEF TypeOK, AddType
  <2>4. torrents'[k] = g /\ \A h \in Hashes : h # k => torrents'[h] = torrents[h]
    BY <1>0, <2>1, <2>2 DEF TypeOK
  <2>5. Registered' = Registered \cup {k}
    BY <2>1, <2>4, NoneAssumption DEF Registered
  <2>6. ListAgrees'
    <3>1. \A h \in Hashes : h \in Registered' => library'[h] = torrents'[h]
      BY <1>0, <2>1, <2>2, <2>4, <2>5 DEF ListAgrees
    <3>2. \A h \in Hashes : library'[h] # None /\ h \notin Registered' =>
            \E b \in Adders : adds'[b].pc = "waiting" /\ adds'[b].handle = library'[h]
      <4> SUFFICES ASSUME NEW h \in Hashes, library[h] # None, h \notin Registered, h # k
                   PROVE  \E b \in Adders : adds'[b].pc = "waiting" /\ adds'[b].handle = library[h]
        BY <2>2, <2>5
      <4>1. PICK b \in Adders : adds[b].pc = "waiting" /\ adds[b].handle = library[h]
        BY <1>0 DEF ListAgrees
      <4>2. b # a
        BY <1>0, <2>1, <4>1 DEF Known
      <4> QED BY <2>3, <4>1, <4>2
    <3> QED BY <3>1, <3>2 DEF ListAgrees
  <2>7. \A b \in Adders : adds'[b].pc = "waiting" =>
          /\ b # a /\ adds'[b] = adds[b] /\ adds[b].handle # g
          /\ library[torrent[adds[b].handle].hash] = adds[b].handle
          /\ torrent[adds[b].handle].hash \notin Registered
    BY <1>0, <2>1, <2>3 DEF WaitingOwnsHash
  <2>8. WaitingOwnsHash'
    <3>1. \A b \in Adders : adds'[b].pc = "waiting" =>
            /\ library'[torrent'[adds'[b].handle].hash] = adds'[b].handle
            /\ torrent'[adds'[b].handle].hash \notin Registered'
      <4> SUFFICES ASSUME NEW b \in Adders, adds'[b].pc = "waiting"
                   PROVE  /\ library'[torrent'[adds'[b].handle].hash] = adds'[b].handle
                          /\ torrent'[adds'[b].handle].hash \notin Registered'
        OBVIOUS
      <4>1. torrent[adds[b].handle].hash # k
        BY <2>1, <2>7
      <4> QED BY <2>2, <2>5, <2>7, <4>1
    <3>2. \A b, c \in Adders :
            adds'[b].pc = "waiting" /\ adds'[c].pc = "waiting" /\ adds'[b].handle = adds'[c].handle
              => b = c
      BY <1>0, <2>7 DEF WaitingOwnsHash
    <3> QED BY <3>1, <3>2 DEF WaitingOwnsHash
  <2>9. DoomedOrDropped'
    <3>1. \A h \in Hashes : torrents[h] \in Handles => torrents'[h] = torrents[h]
      BY <2>1, <2>4, NoneAssumption DEF Registered
    <3> QED BY <1>0, <2>2, <3>1, DoomedFrame
  <2> QED BY <2>6, <2>8, <2>9 DEF Listing
<1>5. ASSUME NEW a \in Adders, AddFinishes(a) PROVE Listing'
  <2>1. \A x \in Handles : torrent'[x].hash = torrent[x].hash
                           /\ torrent'[x].dropped = torrent[x].dropped
    BY <1>0, <1>5 DEF AddFinishes, TypeOK, TorrentType
  <2>2. UNCHANGED <<library, torrents, work>> /\ adds[a].pc = "registered"
    BY <1>5 DEF AddFinishes
  <2>3. adds'[a].pc = "idle" /\ \A b \in Adders : b # a => adds'[b] = adds[b]
    BY <1>0, <1>5 DEF AddFinishes, TypeOK, NoAdd
  <2>4. ListAgrees'
    BY <1>0, <2>2, <2>3 DEF ListAgrees, Registered
  <2>5. WaitingOwnsHash'
    BY <1>0, <2>1, <2>2, <2>3 DEF WaitingOwnsHash, Registered, Known
  <2>6. DoomedOrDropped'
    BY <1>0, <2>1, <2>2, DoomedFrame
  <2> QED BY <2>4, <2>5, <2>6 DEF Listing
<1> QED BY <1>1, <1>2, <1>3, <1>4, <1>5

\* The other steps leave calls and lists alone, or remove.
LEMMA ListingOtherStep ==
  ASSUME Listing, Known',
         \/ \E h \in Hashes : DeleteTorrent(h) \/ SetLimits(h)
         \/ \E w \in Workers, b \in BOOLEAN : ApplyInitialConfig(w, b)
         \/ \E w \in Workers, b, s \in BOOLEAN : UpdateSecuritySettings(w, b, s)
         \/ \E w \in Workers : SetSharingDisabled(w)
         \/ \E r \in Runners : ReadPolicy(r) \/ PolicyApplied(r)
         \/ \E r \in Runners, g \in Handles : ApplyPolicy(r, g)
         \/ \E w \in Workers : KillStart(w) \/ KillDone(w)
         \/ \E w \in Workers, h \in Hashes : KillRemoves(w, h)
         \/ UNCHANGED vars
  PROVE  Listing'
<1>0. Known /\ TypeOK /\ ListAgrees /\ WaitingOwnsHash /\ DoomedOrDropped
  BY DEF Listing, Known
<1>1. ASSUME NEW h \in Hashes, DeleteTorrent(h) PROVE Listing'
  <2>1. h \in Registered /\ RemoveTorrent(h) /\ UNCHANGED <<adds, work>>
    BY <1>1 DEF DeleteTorrent
  <2> QED BY <2>1, RemoveKeepsListing, RemoveKeepsDoomed DEF Listing
<1>2. ASSUME UNCHANGED <<library, torrents, adds>>,
             \A g \in Handles : torrent'[g].hash = torrent[g].hash
                                /\ torrent'[g].dropped = torrent[g].dropped,
             \A w \in Workers : work'[w].pc = "removing" => work'[w] = work[w]
      PROVE  Listing'
  <2>1. ListAgrees'
    BY <1>0, <1>2 DEF ListAgrees, Registered
  <2>2. WaitingOwnsHash'
    BY <1>0, <1>2 DEF WaitingOwnsHash, Registered, Known
  <2>3. DoomedOrDropped'
    BY <1>0, <1>2, DoomedFrame
  <2> QED BY <2>1, <2>2, <2>3 DEF Listing
<1>3. ASSUME NEW h \in Hashes, SetLimits(h) PROVE Listing'
  BY <1>2, <1>3 DEF SetLimits
<1>4. ASSUME NEW w \in Workers, NEW b \in BOOLEAN, ApplyInitialConfig(w, b) PROVE Listing'
  <2>1. SetNoLogsMode(b, work) /\ UNCHANGED <<library, torrent, torrents, adds>>
    BY <1>4 DEF ApplyInitialConfig
  <2>2. \A v \in Workers : work'[v] = work[v]
    BY <1>0, <2>1, WorkersAssumption DEF SetNoLogsMode, TypeOK, Runners
  <2> QED BY <1>2, <2>1, <2>2
<1>5. ASSUME NEW w \in Workers, NEW b \in BOOLEAN, NEW s \in BOOLEAN,
             UpdateSecuritySettings(w, b, s)
      PROVE  Listing'
  <2> DEFINE mine == [NoWork EXCEPT !.pc = "setSharing", !.disabled = s \/ b]
             others == [work EXCEPT ![w] = mine]
  <2>1. SetNoLogsMode(b, others) /\ UNCHANGED <<library, torrent, torrents, adds>>
    BY <1>5 DEF UpdateSecuritySettings
  <2>2. mine.pc # "removing" /\ mine \in WorkType
    BY DEF NoWork, WorkType
  <2> HIDE DEF mine
  <2>3. others \in [Runners -> WorkType]
        /\ \A v \in Workers : others[v] = IF v = w THEN mine ELSE work[v]
    BY <1>0, <2>2 DEF TypeOK, Runners
  <2> HIDE DEF others
  <2>4. \A v \in Workers : work'[v] = others[v]
    BY <2>1, <2>3, WorkersAssumption DEF SetNoLogsMode, Runners
  <2> QED BY <1>2, <2>1, <2>2, <2>3, <2>4
<1>6. ASSUME NEW w \in Workers, SetSharingDisabled(w) PROVE Listing'
  <2>1. \A v \in Workers : work'[v].pc = "removing" => work'[v] = work[v]
    BY <1>0, <1>6 DEF SetSharingDisabled, TypeOK, WorkType, Runners
  <2> QED BY <1>2, <1>6, <2>1 DEF SetSharingDisabled
<1>7. ASSUME NEW r \in Runners, ReadPolicy(r) PROVE Listing'
  <2>1. work'[r].pc = "applyPolicy" /\ \A q \in Runners : q # r => work'[q] = work[q]
    BY <1>0, <1>7 DEF ReadPolicy, TypeOK, WorkType
  <2> QED BY <1>2, <1>7, <2>1 DEF ReadPolicy, Runners
<1>8. ASSUME NEW r \in Runners, PolicyApplied(r) PROVE Listing'
  <2>1. \A q \in Runners : work'[q].pc = "removing" => work'[q] = work[q]
    BY <1>0, <1>8 DEF PolicyApplied, TypeOK, NoWork
  <2> QED BY <1>2, <1>8, <2>1 DEF PolicyApplied, Runners
<1>9. ASSUME NEW r \in Runners, NEW g \in Handles, ApplyPolicy(r, g) PROVE Listing'
  <2>1. work'[r].pc = "applyPolicy" /\ \A q \in Runners : q # r => work'[q] = work[q]
    BY <1>0, <1>9 DEF ApplyPolicy, TypeOK, WorkType
  <2>2. \A x \in Handles : torrent'[x].hash = torrent[x].hash
                           /\ torrent'[x].dropped = torrent[x].dropped
    BY <1>0, <1>9 DEF ApplyPolicy, TypeOK, TorrentType
  <2> QED BY <1>2, <1>9, <2>1, <2>2 DEF ApplyPolicy, Runners
<1>10. ASSUME NEW w \in Workers, KillDone(w) PROVE Listing'
  <2>1. \A q \in Runners : work'[q].pc = "removing" => work'[q] = work[q]
    BY <1>0, <1>10 DEF KillDone, TypeOK, NoWork
  <2> QED BY <1>2, <1>10, <2>1 DEF KillDone, Runners
<1>11. ASSUME UNCHANGED vars PROVE Listing'
  BY <1>2, <1>11 DEF vars
<1>12. ASSUME NEW w \in Workers, KillStart(w) PROVE Listing'
  <2>1. UNCHANGED <<library, torrent, torrents, adds>>
    BY <1>12 DEF KillStart, MayStart
  <2>2. /\ work'[w].doomed = Registered /\ work'[w].snapshot = RegisteredSet
        /\ \A q \in Runners : q # w => work'[q] = work[q]
    BY <1>0, <1>12 DEF KillStart, MayStart, TypeOK, NoWork, Runners
  <2>3. ListAgrees' /\ WaitingOwnsHash'
    BY <1>0, <2>1 DEF ListAgrees, WaitingOwnsHash, Registered
  <2>4. DoomedOrDropped'
    BY <1>0, <2>1, <2>2 DEF DoomedOrDropped, RegisteredSet, Runners
  <2> QED BY <2>3, <2>4 DEF Listing
<1>13. ASSUME NEW w \in Workers, NEW h \in Hashes, KillRemoves(w, h) PROVE Listing'
  <2>1. /\ work[w].pc = "removing" /\ UNCHANGED adds /\ RemoveTorrent(h)
        /\ work' = [work EXCEPT ![w].doomed = @ \ {h}]
    BY <1>13 DEF KillRemoves
  <2>2. /\ work'[w].doomed = work[w].doomed \ {h} /\ work'[w].snapshot = work[w].snapshot
        /\ \A q \in Workers : q # w => work'[q] = work[q]
        /\ \A q \in Workers : work'[q].pc = work[q].pc
    BY <1>0, <2>1 DEF TypeOK, WorkType, Runners
  <2>3. CASE h \in Registered
    <3>1. ListAgrees' /\ WaitingOwnsHash'
      BY <2>1, <2>3, RemoveKeepsListing
    <3>2. /\ torrents' = [torrents EXCEPT ![h] = None]
          /\ torrent' = [torrent EXCEPT ![torrents[h]].dropped = TRUE]
      BY <2>1, <2>3, RemoveListed
    <3>3. /\ \A g \in Handles : torrent[g].dropped => torrent'[g].dropped
          /\ torrents[h] \in Handles => torrent'[torrents[h]].dropped
          /\ \A k \in Hashes : k # h => torrents'[k] = torrents[k]
      BY <1>0, <3>2 DEF TypeOK, TorrentType
    <3>4. DoomedOrDropped'
      <4> SUFFICES ASSUME NEW q \in Workers, work[q].pc = "removing", NEW g \in work[q].snapshot,
                          ~torrent'[g].dropped
                   PROVE  \E k \in work'[q].doomed : torrents'[k] = g
        BY <2>2 DEF DoomedOrDropped
      <4>1. g \in Handles /\ work[q].doomed \subseteq Hashes
        BY <1>0 DEF TypeOK, WorkType, Runners
      <4>2. PICK k \in work[q].doomed : torrents[k] = g
        BY <1>0, <3>3, <4>1 DEF DoomedOrDropped
      <4>3. k # h /\ k \in Hashes
        BY <3>3, <4>1, <4>2
      <4>4. k \in work'[q].doomed
        BY <2>2, <4>2, <4>3
      <4> QED BY <3>3, <4>2, <4>3, <4>4
    <3> QED BY <3>1, <3>4 DEF Listing
  <2>4. CASE h \notin Registered
    <3>1. UNCHANGED <<library, torrent, torrents>> /\ torrents[h] = None
      BY <2>1, <2>4 DEF RemoveTorrent, Registered
    <3>2. ListAgrees' /\ WaitingOwnsHash'
      BY <1>0, <2>1, <3>1 DEF ListAgrees, WaitingOwnsHash, Registered
    <3>3. DoomedOrDropped'
      <4> SUFFICES ASSUME NEW q \in Workers, work[q].pc = "removing", NEW g \in work[q].snapshot,
                          ~torrent[g].dropped
                   PROVE  \E k \in work'[q].doomed : torrents[k] = g
        BY <2>2, <3>1 DEF DoomedOrDropped
      <4>1. PICK k \in work[q].doomed : torrents[k] = g
        BY <1>0 DEF DoomedOrDropped
      <4>2. k # h
        BY <1>0, <3>1, <4>1, NoneAssumption DEF TypeOK, WorkType, Runners
      <4> QED BY <2>2, <4>1, <4>2
    <3> QED BY <3>2, <3>3 DEF Listing
  <2> QED BY <2>3, <2>4
<1> QED
  BY <1>1, <1>3, <1>4, <1>5, <1>6, <1>7, <1>8, <1>9, <1>10, <1>11, <1>12, <1>13

\* While no known hash is added again, every step keeps Listing.
LEMMA ListingStep ==
  ASSUME Listing, Fresh, [Next]_vars PROVE Listing'
<1>1. Known'
  BY KnownStep DEF Listing
<1> QED BY <1>1, ListingAddStep, ListingOtherStep DEF Next, Step

\* Nothing is listed, held or doomed at first.
LEMMA ListingInit ==
  ASSUME Init PROVE Listing
<1>1. Known
  BY KnownInit
<1>2. ListAgrees /\ WaitingOwnsHash
  BY DEF Init, ListAgrees, WaitingOwnsHash, Registered, NoAdd
<1>3. DoomedOrDropped
  BY DEF Init, DoomedOrDropped, NoWork, Runners
<1> QED BY <1>1, <1>2, <1>3 DEF Listing

\* When no magnet link is added while its hash is known, what the API lists
\* runs, and what runs is listed or awaited.
THEOREM ListMatchesLibrary == Spec => []ListedIsRunning
<1>1. Init => (Fresh => Listing)
  BY ListingInit
<1>2. (Fresh => Listing) /\ [Next]_vars => (Fresh => Listing)'
  BY ListingStep DEF Next, vars, Fresh
<1>3. (Fresh => Listing) => ListedIsRunning
  BY DEF Listing, ListedIsRunning
<1> QED BY <1>1, <1>2, <1>3, PTL DEF Spec

\* Then too, a kill switch that is through has dropped all it had listed.
THEOREM KillSwitchCompletes == Spec => []KillSwitchDropsSnapshot
<1>1. Init => (Fresh => Listing)
  BY ListingInit
<1>2. (Fresh => Listing) /\ [Next]_vars => (Fresh => Listing)'
  BY ListingStep DEF Next, vars, Fresh
<1>3. (Fresh => Listing) => KillSwitchDropsSnapshot
  BY DEF Listing, DoomedOrDropped, KillSwitchDropsSnapshot, KillEnded
<1> QED BY <1>1, <1>2, <1>3, PTL DEF Spec

\* Together: metadata and limits.
THEOREM RegistrationIsSound == Spec => []RegisteredIsSound
<1>1. RegisteredHasInfo /\ LimitsRegistered => RegisteredIsSound
  BY DEF RegisteredIsSound
<1> QED BY <1>1, MetadataKnown, LimitsHaveTorrent, PTL

\* Together: no-logs mode and what the library is told of it.
THEOREM SharingIsPrivate == Spec => []PrivacyHolds
<1>1. NoLogsIsPrivate /\ SharingHonoured => PrivacyHolds
  BY DEF PrivacyHolds
<1> QED BY <1>1, NoLogsKeepsSharingOff, SharingFollowsSetting, PTL

\* Together: the list, the library and the kill switch.
THEOREM ListAndKillSwitch == Spec => []ListIsComplete
<1>1. ListedIsRunning /\ KillSwitchDropsSnapshot => ListIsComplete
  BY DEF ListIsComplete
<1> QED BY <1>1, ListMatchesLibrary, KillSwitchCompletes, PTL
=============================================================================
