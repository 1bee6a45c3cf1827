----------------------------- MODULE MCFrontend -------------------------------
(* Small instances for TLC of the pages of the front end that ask the        *)
(* backend. A run is one of the pages with their handlers, of the list of    *)
(* torrents, of the settings or the service that keeps them, or of the       *)
(* identity and its vault.                                                   *)
EXTENDS Identity, PageSites

CONSTANTS
  Torrents, Calls, AutoStop, TorrentActs,    \* Torrents
  TorEnabled, SettingsActs,                  \* Settings
  MaxVersion, MaxRuns,                       \* Pages
  Strings, Failed,                           \* SettingsCache
  First, Second                              \* the calls

VARIABLES
  mode,   \* the component that runs; the others rest
  page, data, runs, busy, armed, shown,   \* Pages
  known, wanted, status, favorites, stopped, limits, list, filter, star, poll,
  events, isLoading, calls, refused, mixed, goneTorrents, acts,   \* Torrents
  open, showDeleteConfirm, settings, securitySettings, settingsIsLoading,
  call, loads, db, live, wizard, settingsActs, base, touched,   \* Settings
  repo, cache, pc, held, answer   \* SettingsCache

torrentsVars ==
  <<known, wanted, status, favorites, stopped, limits, list, filter, star,
    poll, events, isLoading, calls, refused, mixed, goneTorrents, acts>>
settingsVars ==
  <<open, showDeleteConfirm, settings, securitySettings, settingsIsLoading,
    call, loads, db, live, wizard, settingsActs, base, touched>>
pagesVars == <<page, data, runs, busy, armed, shown>>
cacheVars == <<repo, cache, pc, held, answer>>

P == INSTANCE Pages
T == INSTANCE Torrents WITH
       MaxActs <- TorrentActs, gone <- goneTorrents
S == INSTANCE Settings WITH
       MaxActs <- SettingsActs, isLoading <- settingsIsLoading,
       acts <- settingsActs
C == INSTANCE SettingsCache

MCInit ==
  /\ mode \in {"pages", "torrents", "settings", "identity", "cache"}
  /\ Init /\ P!Init /\ T!Init /\ S!Init /\ C!Init
  /\ mode # "cache" => repo = ""
  /\ mode # "settings" => db = S!EmptyDb

Rest ==
  /\ UNCHANGED mode
  /\ mode # "pages"    => UNCHANGED pagesVars
  /\ mode # "torrents" => UNCHANGED torrentsVars
  /\ mode # "settings" => UNCHANGED settingsVars
  /\ mode # "identity" => UNCHANGED vars
  /\ mode # "cache"    => UNCHANGED cacheVars

MCNext ==
  /\ \/ mode = "pages"    /\ P!Next
     \/ mode = "torrents" /\ T!Next
     \/ mode = "settings" /\ S!Next
     \/ mode = "identity" /\ Next
     \/ mode = "cache"    /\ C!Next
  /\ Rest

allVars ==
  <<mode, vars, pagesVars, torrentsVars, settingsVars, cacheVars>>

\* The fairness of each component. No two of them run together, so that one
\* condition stands for one of each.
MCFairness ==
  /\ WF_allVars(/\ \/ mode = "pages"    /\ P!SomeSettles
                   \/ mode = "torrents" /\ T!Polling
                   \/ mode = "settings" /\ S!Answer
                   \/ mode = "identity" /\ (Replied \/ ReplyLost)
                   \/ mode = "cache"    /\ C!Expire
                /\ Rest)
  /\ WF_allVars(/\ \/ mode = "pages"    /\ P!SomeTicks(P!Statuses)
                   \/ mode = "torrents" /\ (T!Serve(First) \/ T!Answered(First))
                   \/ mode = "identity" /\ Reload
                   \/ mode = "cache"    /\ C!Proceed(First)
                /\ Rest)
  /\ WF_allVars(/\ \/ mode = "pages"    /\ P!SomeTicks(P!Counts)
                   \/ mode = "torrents" /\ (T!Serve(Second) \/ T!Answered(Second))
                   \/ mode = "identity" /\ Delete
                   \/ mode = "cache"    /\ C!Proceed(Second)
                /\ Rest)
  /\ SF_allVars(/\ \/ mode = "pages"    /\ P!SomeSucceeds(P!Statuses)
                   \/ mode = "identity" /\ ListBatch
                /\ Rest)
  /\ SF_allVars(/\ \/ mode = "pages"    /\ P!SomeSucceeds(P!Counts)
                   \/ mode = "identity" /\ (RemoveBatch \/ DeleteUser)
                /\ Rest)

MCSpec == MCInit /\ [][MCNext]_allVars /\ MCFairness

RunsAreSound    == P!RunsAreSound
ListIsHonest    == T!ListIsHonest
SettingsAreKept == S!SettingsAreKept
ServesRegister  == C!IsRegister

\* What rests does not converge: the list is current in a run of the list.
FrontEndRecovers ==
  /\ P!PagesRecover /\ S!DialogComesBack /\ C!CacheSettles
  /\ <>[](mode = "torrents" => T!ListIsCurrent)
===============================================================================
