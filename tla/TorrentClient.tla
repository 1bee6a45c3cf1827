--------------------------- MODULE TorrentClient ---------------------------
(***************************************************************************)
(* The torrent client of the backend (backend/internal/torrent/client.go)  *)
(* and the REST handlers that drive it.                                    *)
(*                                                                         *)
(* Every HTTP request runs in a goroutine of its own.  A method that holds *)
(* c.mu from its first to its last access is one step; AddMagnet, the      *)
(* sharing policy, the settings handlers, the kill switch and the cleanup  *)
(* release the mutex in between, and are several.  The torrent library is  *)
(* external: AddMagnet on a hash it knows returns the torrent it has, Drop *)
(* removes a torrent from it, and a dropped torrent stays dropped.         *)
(***************************************************************************)
EXTENDS Naturals, FiniteSets

CONSTANTS
  Hashes,     \* info hashes
  Handles,    \* identities of the library's Torrent objects; bounds how many
  Adders,     \* AddTorrent requests
  Workers,    \* requests that change settings, kill switches and cleanups
  Jobs,       \* goroutines that SetNoLogsMode(true) starts
  None,       \* nil
  Envs        \* the environments considered, each a set of EnvFeatures

(***************************************************************************)
(* sameHash - a magnet link may be added while the library has its hash    *)
(* parallel - two settings, kill switch or cleanup requests may be handled *)
(*            at the same time ...                                         *)
(* overlap  - ... and both may be settings requests                        *)
(***************************************************************************)
EnvFeatures == {"sameHash", "parallel", "overlap"}

ASSUME NoneAssumption    == None \notin Handles /\ None \notin Hashes
ASSUME WorkersAssumption == Workers \cap Jobs = {}
ASSUME EnvAssumption     == Envs \subseteq SUBSET EnvFeatures

VARIABLES
  library,    \* the torrent the library has for each hash
  torrent,    \* the library's Torrent objects
  torrents,   \* c.torrents
  limits,     \* the keys of c.torrentLimits
  config,     \* c.config, as far as sharing depends on it
  adds,       \* the state of each AddTorrent request
  work,       \* the state of each worker and job
  env         \* what clients may do, chosen before the first step

vars == <<library, torrent, torrents, limits, config, adds, work, env>>

Runners == Workers \cup Jobs

NoTorrent == [hash |-> None, dropped |-> FALSE, info |-> FALSE, upload |-> FALSE]
NewTorrent(h) == [hash |-> h, dropped |-> FALSE, info |-> FALSE, upload |-> TRUE]

NoAdd  == [pc |-> "idle", handle |-> None, disableSharing |-> FALSE]
NoWork == [pc |-> "idle", disabled |-> FALSE, todo |-> {}, doomed |-> {}, snapshot |-> {}]

Registered == {h \in Hashes : torrents[h] # None}

RegisteredSet == {torrents[h] : h \in Registered}

\* Does a settings request run at this moment?
WritesSettings(w) == work[w].pc \in {"setSharing", "readPolicy", "applyPolicy"}

Init ==
  /\ library = [h \in Hashes |-> None]
  /\ torrent = [g \in Handles |-> NoTorrent]
  /\ torrents = [h \in Hashes |-> None]
  /\ limits = {}
  /\ \E noLogs, sharing \in BOOLEAN :
       config = [noLogs |-> noLogs, disableSharing |-> sharing \/ noLogs]
  /\ adds = [a \in Adders |-> NoAdd]
  /\ work = [w \in Runners |-> NoWork]
  /\ env \in Envs

-----------------------------------------------------------------------------
(* AddMagnet                                                               *)

\* The library's AddMagnet: a new torrent, unless it has one for the hash.
AddStart(a, h) ==
  /\ adds[a] = NoAdd
  /\ library[h] = None \/ "sameHash" \in env
  /\ \E g \in Handles :
       /\ IF library[h] = None
          THEN /\ torrent[g] = NoTorrent
               /\ torrent' = [torrent EXCEPT ![g] = NewTorrent(h)]
               /\ library' = [library EXCEPT ![h] = g]
          ELSE g = library[h] /\ UNCHANGED <<library, torrent>>
       /\ adds' = [adds EXCEPT ![a] = [NoAdd EXCEPT !.pc = "waiting", !.handle = g]]
  /\ UNCHANGED <<torrents, limits, config, work>>

\* A peer sends the metadata; GotInfo is closed, for good.
MetadataArrives(g) ==
  /\ torrent[g].hash # None /\ ~torrent[g].dropped /\ ~torrent[g].info
  /\ torrent' = [torrent EXCEPT ![g].info = TRUE]
  /\ UNCHANGED <<library, torrents, limits, config, adds, work>>

\* Drop: the library forgets the torrent.
Drop(g) ==
  /\ torrent' = [torrent EXCEPT ![g].dropped = TRUE]
  /\ library' = [h \in Hashes |-> IF library[h] = g THEN None ELSE library[h]]

\* The 60 s timer wins the select, even if the metadata has just arrived.
AddTimesOut(a) ==
  /\ adds[a].pc = "waiting"
  /\ Drop(adds[a].handle)
  /\ adds' = [adds EXCEPT ![a] = NoAdd]
  /\ UNCHANGED <<torrents, limits, config, work>>

\* Mutant of AddRegisters: the metadata is not waited for.
AddRegistersEarly(a) ==
  LET g == adds[a].handle IN
    /\ adds[a].pc = "waiting"
    /\ torrents' = [torrents EXCEPT ![torrent[g].hash] = g]
    /\ adds' = [adds EXCEPT ![a] = [@ EXCEPT !.pc = "registered",
                                            !.disableSharing = config.disableSharing]]
    /\ UNCHANGED <<library, torrent, limits, config, work>>

\* GotInfo wins: under the mutex, register the torrent and read the policy.
AddRegisters(a) ==
  LET g == adds[a].handle IN
    /\ adds[a].pc = "waiting"
    /\ torrent[g].info
    /\ torrents' = [torrents EXCEPT ![torrent[g].hash] = g]
    /\ adds' = [adds EXCEPT ![a] = [@ EXCEPT !.pc = "registered",
                                            !.disableSharing = config.disableSharing]]
    /\ UNCHANGED <<library, torrent, limits, config, work>>

\* Mutant of AddFinishes: the policy read under the mutex is not applied.
AddFinishesSharing(a) ==
  /\ adds[a].pc = "registered"
  /\ adds' = [adds EXCEPT ![a] = NoAdd]
  /\ UNCHANGED <<library, torrent, torrents, limits, config, work>>

\* Then, without the mutex, apply the policy and start the download.
AddFinishes(a) ==
  /\ adds[a].pc = "registered"
  /\ torrent' = [torrent EXCEPT ![adds[a].handle].upload = @ /\ ~adds[a].disableSharing]
  /\ adds' = [adds EXCEPT ![a] = NoAdd]
  /\ UNCHANGED <<library, torrents, limits, config, work>>

-----------------------------------------------------------------------------
(* Methods that hold the mutex throughout                                  *)

\* Mutant of RemoveTorrent: the torrent is not dropped.
RemoveTorrentKeepsRunning(h) ==
  IF h \in Registered
  THEN /\ torrents' = [torrents EXCEPT ![h] = None]
       /\ limits' = limits \ {h}
       /\ UNCHANGED <<library, torrent>>
  ELSE UNCHANGED <<library, torrent, torrents, limits>>

\* RemoveTorrent, which fails on a hash that is not registered.
RemoveTorrent(h) ==
  IF h \in Registered
  THEN /\ Drop(torrents[h])
       /\ torrents' = [torrents EXCEPT ![h] = None]
       /\ limits' = limits \ {h}
  ELSE UNCHANGED <<library, torrent, torrents, limits>>

DeleteTorrent(h) ==
  /\ h \in Registered
  /\ RemoveTorrent(h)
  /\ UNCHANGED <<config, adds, work>>

SetLimits(h) ==
  /\ h \in Registered
  /\ limits' = limits \cup {h}
  /\ UNCHANGED <<library, torrent, torrents, config, adds, work>>

-----------------------------------------------------------------------------
(* Settings                                                                *)

\* SetNoLogsMode, which leaves the sharing policy to a goroutine.
SetNoLogsMode(noLogs, others) ==
  IF noLogs
  THEN /\ config' = [noLogs |-> TRUE, disableSharing |-> TRUE]
       /\ \E j \in Jobs :
            /\ work[j] = NoWork
            /\ work' = [others EXCEPT ![j] =
                          [NoWork EXCEPT !.pc = "readPolicy", !.disabled = TRUE]]
  ELSE /\ config' = [config EXCEPT !.noLogs = FALSE]
       /\ work' = others

\* May worker w take a request on?
MayStart(w) ==
  /\ work[w] = NoWork
  /\ "parallel" \in env \/ \A v \in Workers : work[v] = NoWork

MayWriteSettings(w) ==
  /\ MayStart(w)
  /\ "overlap" \in env \/ \A v \in Workers : ~WritesSettings(v)

\* ApplyInitialConfig sets the no-logs mode and nothing else of this.
ApplyInitialConfig(w, noLogs) ==
  /\ MayWriteSettings(w)
  /\ SetNoLogsMode(noLogs, work)
  /\ UNCHANGED <<library, torrent, torrents, limits, adds>>

\* UpdateSecuritySettings, up to SetNoLogsMode: the no-logs mode forces
\* sharing off.
UpdateSecuritySettings(w, noLogs, sharing) ==
  /\ MayWriteSettings(w)
  /\ SetNoLogsMode(noLogs,
       [work EXCEPT ![w] = [NoWork EXCEPT !.pc = "setSharing",
                                          !.disabled = sharing \/ noLogs]])
  /\ UNCHANGED <<library, torrent, torrents, limits, adds>>

\* SetSharingDisabled, up to its Unlock.
SetSharingDisabled(w) ==
  /\ work[w].pc = "setSharing"
  /\ config' = [config EXCEPT !.disableSharing = work[w].disabled]
  /\ work' = [work EXCEPT ![w].pc = "readPolicy"]
  /\ UNCHANGED <<library, torrent, torrents, limits, adds>>

\* applySharingPolicy: copy the registered torrents under the read lock ...
ReadPolicy(r) ==
  /\ work[r].pc = "readPolicy"
  /\ work' = [work EXCEPT ![r] = [@ EXCEPT !.pc = "applyPolicy", !.todo = RegisteredSet]]
  /\ UNCHANGED <<library, torrent, torrents, limits, config, adds>>

\* ... and set each without it, in the map's order, which is any.
ApplyPolicy(r, g) ==
  /\ work[r].pc = "applyPolicy"
  /\ g \in work[r].todo
  /\ torrent' = [torrent EXCEPT ![g].upload = ~work[r].disabled]
  /\ work' = [work EXCEPT ![r].todo = @ \ {g}]
  /\ UNCHANGED <<library, torrents, limits, config, adds>>

PolicyApplied(r) ==
  /\ work[r].pc = "applyPolicy"
  /\ work[r].todo = {}
  /\ work' = [work EXCEPT ![r] = NoWork]
  /\ UNCHANGED <<library, torrent, torrents, limits, config, adds>>

-----------------------------------------------------------------------------
(* TriggerKillSwitch, and the first part of CleanupData                    *)

\* GetAllTorrents copies what is registered under the read lock.
KillStart(w) ==
  /\ MayStart(w)
  /\ work' = [work EXCEPT ![w] = [NoWork EXCEPT !.pc = "removing", !.doomed = Registered,
                                               !.snapshot = RegisteredSet]]
  /\ UNCHANGED <<library, torrent, torrents, limits, config, adds>>

KillRemoves(w, h) ==
  /\ work[w].pc = "removing"
  /\ h \in work[w].doomed
  /\ RemoveTorrent(h)
  /\ work' = [work EXCEPT ![w].doomed = @ \ {h}]
  /\ UNCHANGED <<config, adds>>

\* Has the kill switch nothing left to remove?
KillEnded(w) == work[w].pc = "removing" /\ work[w].doomed = {}

KillDone(w) ==
  /\ KillEnded(w)
  /\ work' = [work EXCEPT ![w] = NoWork]
  /\ UNCHANGED <<library, torrent, torrents, limits, config, adds>>

-----------------------------------------------------------------------------

Step ==
  \/ \E a \in Adders, h \in Hashes : AddStart(a, h)
  \/ \E g \in Handles : MetadataArrives(g)
  \/ \E a \in Adders : AddTimesOut(a) \/ AddRegisters(a) \/ AddFinishes(a)
  \/ \E h \in Hashes : DeleteTorrent(h) \/ SetLimits(h)
  \/ \E w \in Workers, noLogs \in BOOLEAN : ApplyInitialConfig(w, noLogs)
  \/ \E w \in Workers, noLogs, sharing \in BOOLEAN :
       UpdateSecuritySettings(w, noLogs, sharing)
  \/ \E w \in Workers : SetSharingDisabled(w)
  \/ \E r \in Runners : ReadPolicy(r) \/ PolicyApplied(r)
  \/ \E r \in Runners, g \in Handles : ApplyPolicy(r, g)
  \/ \E w \in Workers : KillStart(w) \/ KillDone(w)
  \/ \E w \in Workers, h \in Hashes : KillRemoves(w, h)

Next == Step /\ UNCHANGED env

Spec == Init /\ [][Next]_vars

-----------------------------------------------------------------------------
(* Properties                                                              *)

TorrentType ==
  [hash : Hashes \cup {None}, dropped : BOOLEAN, info : BOOLEAN, upload : BOOLEAN]

AddType ==
  [pc : {"idle", "waiting", "registered"}, handle : Handles \cup {None},
   disableSharing : BOOLEAN]

WorkType ==
  [pc : {"idle", "setSharing", "readPolicy", "applyPolicy", "removing"},
   disabled : BOOLEAN, todo : SUBSET Handles, doomed : SUBSET Hashes,
   snapshot : SUBSET Handles]

\* Settings requests do not overlap; no magnet link is added while its hash
\* is known.
Serial == "overlap" \notin env
Fresh  == "sameHash" \notin env

SharingOff == config.noLogs => config.disableSharing

\* What the API lists is what the library runs, or an AddMagnet call awaits.
ListAgrees ==
  \A h \in Hashes :
    /\ h \in Registered => library[h] = torrents[h]
    /\ library[h] # None /\ h \notin Registered =>
         \E a \in Adders : adds[a].pc = "waiting" /\ adds[a].handle = library[h]

\* Every variable keeps the shape the code gives it.
TypeOK ==
  /\ library \in [Hashes -> Handles \cup {None}]
  /\ torrent \in [Handles -> TorrentType]
  /\ torrents \in [Hashes -> Handles \cup {None}]
  /\ limits \subseteq Hashes
  /\ config \in [noLogs : BOOLEAN, disableSharing : BOOLEAN]
  /\ adds \in [Adders -> AddType]
  /\ work \in [Runners -> WorkType]
  /\ env \in Envs

\* torrentInfo calls Name and Length on whatever is registered, and both need
\* the metadata: no interleaving of adds, time-outs and removals registers a
\* torrent without it, or under the hash of another.
RegisteredHasInfo ==
  \A h \in Registered : torrent[torrents[h]].info /\ torrent[torrents[h]].hash = h

\* Limits are kept for registered torrents only: a removal leaves none behind
\* for a later torrent with the same hash.
LimitsRegistered == limits \subseteq Registered

\* Together: what is registered has its metadata, and what has limits is registered.
RegisteredIsSound == RegisteredHasInfo /\ LimitsRegistered

\* In no-logs mode sharing stays off, in the middle of a settings request too,
\* as long as such requests do not overlap.
NoLogsIsPrivate == Serial => SharingOff

\* As long as settings requests do not overlap, what the library is told
\* about uploads catches up with the setting: once
\* no settings request and no policy goroutine is running, a registered
\* torrent uploads only where sharing is allowed, or until the AddMagnet call
\* that has read the policy applies it.
SharingHonoured ==
  Serial /\ config.disableSharing /\ (\A r \in Runners : ~WritesSettings(r)) =>
    \A h \in Registered :
      \/ ~torrent[torrents[h]].upload
      \/ \E a \in Adders : /\ adds[a].pc = "registered"
                           /\ adds[a].handle = torrents[h]
                           /\ adds[a].disableSharing

\* Together: no-logs mode turns sharing off, and the library follows.
PrivacyHolds == NoLogsIsPrivate /\ SharingHonoured

\* As long as no magnet link is added while its hash is known, c.torrents and
\* the library agree: a torrent that is listed runs, and one that runs is
\* listed or has an AddMagnet call waiting for it.
ListedIsRunning == Fresh => ListAgrees

\* Under the same condition, when the kill switch (or a cleanup) has gone through its list, every
\* torrent that was registered when it started has been dropped, whatever was
\* removed or added meanwhile.
KillSwitchDropsSnapshot ==
  Fresh => \A w \in Workers : KillEnded(w) => \A g \in work[w].snapshot : torrent[g].dropped

\* Together: what runs is listed, and what was listed the kill switch stops.
ListIsComplete == ListedIsRunning /\ KillSwitchDropsSnapshot

-----------------------------------------------------------------------------
(* What the code says of itself and does not do                            *)

\* security_handlers.go:369 and 378: "Stop all torrents", "all connections
\* terminated": the list the kill switch works through has every torrent the
\* library runs at that moment, the ones still waiting for metadata included.
KillSwitchSeesAll ==
  [][ \A w \in Workers : work[w].pc = "idle" /\ work'[w].pc = "removing" =>
        \A h \in Hashes : library[h] # None => library[h] \in work'[w].snapshot ]_vars
=============================================================================
