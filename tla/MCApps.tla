------------------------------- MODULE MCApps ---------------------------------
(* Small instances for TLC of the rate limiter and of parts of the           *)
(* applications. A run is one of the rate limiter, of the file viewer, of    *)
(* its analysis of a file, of the players, of the servers that the VPN       *)
(* client keeps, or of their audit.                                          *)
EXTENDS RateLimiter, TLC

CONSTANTS
  Paths, Tokens, Calls, MaxClicks,                      \* FileViewer
  Tracks, Levels, MaxTimers, MaxEntries, PlayerActs,    \* Player
  Servers, Services, ServerActs,                        \* VpnServers
  Nil

\* The bounds of the player: at least one track, and a level that is heard.
ASSUME PlayerAssumption == Tracks \in Nat \ {0} /\ Levels \in Nat \ {0}

ASSUME ViewerAssumption ==
  /\ Nil \notin Paths /\ Nil \notin Tokens
  /\ IsFiniteSet(Paths) /\ MaxClicks \in Nat

VARIABLES
  mode,   \* the component that runs; the others rest
  disk, known, tokenOf, fileOf, files, selected, confirm, armed, call,
  typedFor, overtaken, clicks,   \* FileViewer
  file, report,   \* FileRisk
  page, isPlaying, element, currentTrack, isRepeat, ended, volume, isMuted,
  sound, showControls, timers, entries, playerFile, pausedSince, doubtful,
  acts,   \* Player
  settings, form, servers, last, route, proxied, keyring, shown, toMain,
  toWindow, saved, moved, savedActs,   \* VpnServers
  auditSettings, auditRoute, changed, auditShown   \* VpnAudit

viewerVars ==
  <<disk, known, tokenOf, fileOf, files, selected, confirm, armed, call,
    typedFor, overtaken, clicks>>
riskVars == <<file, report>>
playerVars ==
  <<page, isPlaying, element, currentTrack, isRepeat, ended, volume, isMuted,
    sound, showControls, timers, entries, playerFile, pausedSince, doubtful,
    acts>>
savedVars ==
  <<settings, form, servers, last, route, proxied, keyring, shown, toMain,
    toWindow, saved, moved, savedActs>>
auditVars == <<auditSettings, auditRoute, changed, auditShown>>

\* Two files of one name, in different directories.
SameName(p) == "report.pdf"

V == INSTANCE FileViewer WITH Name <- SameName
R == INSTANCE FileRisk
P == INSTANCE Player WITH MaxActs <- PlayerActs, file <- playerFile
S == INSTANCE VpnServers WITH MaxActs <- ServerActs, acts <- savedActs
U == INSTANCE VpnAudit WITH
       settings <- auditSettings, route <- auditRoute, shown <- auditShown

MCInit ==
  /\ mode \in {"limiter", "viewer", "risk", "player", "saved", "audit"}
  /\ Init /\ V!Init /\ R!Init /\ P!Init /\ S!Init /\ U!Init
  /\ mode # "limiter" => key = [r \in Requests |-> CHOOSE k \in Keys : TRUE]
  /\ mode # "risk" => file = CHOOSE f \in R!Files : TRUE

MCNext ==
  /\ UNCHANGED mode
  /\ \/ mode = "limiter" /\ Next
     \/ mode = "viewer"  /\ V!Next
     \/ mode = "risk"    /\ R!Next
     \/ mode = "player"  /\ P!Next
     \/ mode = "saved"   /\ S!Next
     \/ mode = "audit"   /\ U!Next
     \/ /\ mode # "limiter"
        /\ UNCHANGED
             <<viewerVars, riskVars, playerVars, savedVars, auditVars>>   \* or its bound is reached
  /\ mode # "limiter" => UNCHANGED vars
  /\ mode # "viewer"  => UNCHANGED viewerVars
  /\ mode # "risk"    => UNCHANGED riskVars
  /\ mode # "player"  => UNCHANGED playerVars
  /\ mode # "saved"   => UNCHANGED savedVars
  /\ mode # "audit"   => UNCHANGED auditVars

MCSpec ==
  /\ MCInit
  /\ [][MCNext]_<<mode, vars, viewerVars, riskVars, playerVars, savedVars,
                   auditVars>>

ViewerIsSound    == V!ViewerIsSound
RatingIsSound    == R!RatingIsSound
PlayerIsHonest   == P!PlayerIsHonest
SubtitlesAreKept == P!SubtitlesAreKept
RouteIsSound     == S!RouteIsSound
StoreIsSound     == S!StoreIsSound
AuditIsSound     == U!AuditIsSound

\* No path and no call is told from another of its kind.
AppsSymmetry == Permutations(Paths) \cup Permutations(Calls)
===============================================================================
