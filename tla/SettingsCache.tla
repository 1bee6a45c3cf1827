---------------------------- MODULE SettingsCache ----------------------------
(***************************************************************************)
(* The settings service of the backend: a repository, and in front of it a *)
(* cache that forgets (internal/service/settings_service.go,               *)
(* internal/repository/settings_repository.go, pkg/cache/redis.go).  Of    *)
(* the settings this is one of the user's: no call names two.  Requests    *)
(* overlap between their calls of the repository and of the cache, each of *)
(* which may fail.                                                         *)
(***************************************************************************)
CONSTANTS
  Strings,   \* what a setting may be set to, "" aside
  Calls,     \* requests that may be under way at a time
  Failed     \* the answer of a request that failed

Values == Strings \cup {""}

VARIABLES
  repo,      \* the row; "" also when there is none
  cache,     \* the entry: {} or {v}
  pc,        \* of each request: "idle", "missed", "found" (of Get), "stored" (of Set)
  held,      \* what it has read, or is to set
  answer     \* the last answer of each request

vars == <<repo, cache, pc, held, answer>>

Init ==
  /\ repo \in Values /\ cache = {}
  /\ pc = [c \in Calls |-> "idle"]
  /\ held = [c \in Calls |-> ""] /\ answer = [c \in Calls |-> ""]

Goto(c, at) == pc' = [pc EXCEPT ![c] = at]
Return(c, v) == Goto(c, "idle") /\ answer' = [answer EXCEPT ![c] = v]

\* An entry that is "" does not count as one; a cache that cannot be reached
\* has none.
Hit(c) ==
  /\ pc[c] = "idle"
  /\ \E v \in cache \cap Strings : Return(c, v)
  /\ UNCHANGED <<repo, cache, held>>

Miss(c) ==
  /\ pc[c] = "idle"
  /\ Goto(c, "missed")
  /\ UNCHANGED <<repo, cache, held, answer>>

Find(c) ==
  /\ pc[c] = "missed"
  /\ \/ Goto(c, "found") /\ held' = [held EXCEPT ![c] = repo] /\ UNCHANGED answer
     \/ Return(c, Failed) /\ UNCHANGED held
  /\ UNCHANGED <<repo, cache>>

\* What was found is cached, unless that fails, and is the answer.
Fill(c) ==
  /\ pc[c] = "found"
  /\ \/ held[c] # "" /\ cache' = {held[c]}
     \/ UNCHANGED cache
  /\ Return(c, held[c])
  /\ UNCHANGED <<repo, held>>

\* Mutant of Set: the cache is set first, and the row may be refused after it.
SetCacheFirst(c, v) ==
  /\ pc[c] = "idle"
  /\ cache' = {v}
  /\ \/ repo' = v /\ Goto(c, "stored") /\ held' = [held EXCEPT ![c] = v] /\ UNCHANGED answer
     \/ UNCHANGED <<repo, held>> /\ Return(c, Failed)

Set(c, v) ==
  /\ pc[c] = "idle"
  /\ \/ repo' = v /\ Goto(c, "stored") /\ held' = [held EXCEPT ![c] = v] /\ UNCHANGED answer
     \/ UNCHANGED <<repo, held>> /\ Return(c, Failed)
  /\ UNCHANGED cache

\* An entry that cannot be replaced stays.
SetCache(c) ==
  /\ pc[c] = "stored"
  /\ cache' \in {{held[c]}, cache}
  /\ Goto(c, "idle")
  /\ UNCHANGED <<repo, held, answer>>

\* The settings of the user are deleted; their entries are left to expire.
ClearUser ==
  /\ repo' = ""
  /\ UNCHANGED <<cache, pc, held, answer>>

\* Five minutes after it was stored an entry is gone.
Expire ==
  /\ cache # {}
  /\ cache' = {}
  /\ UNCHANGED <<repo, pc, held, answer>>

Proceed(c) == Find(c) \/ Fill(c) \/ SetCache(c)

Next ==
  \/ \E c \in Calls : Hit(c) \/ Miss(c) \/ Proceed(c) \/ \E v \in Values : Set(c, v)
  \/ ClearUser
  \/ Expire

\* The repository and the cache answer, or their calls fail, and entries expire.
Fairness == WF_vars(Expire) /\ \A c \in Calls : WF_vars(Proceed(c))

Spec == Init /\ [][Next]_vars /\ Fairness

-----------------------------------------------------------------------------
(* Properties                                                              *)

\* What may be read instead of the row: the entry, and what requests that are
\* under way have read, or are about to make the entry.
Late == (cache \cap Strings) \cup {held[c] : c \in {d \in Calls : pc[d] \in {"found", "stored"}}}

Register == INSTANCE SettingsRegister WITH value <- repo, late <- Late

\* The service implements the register: whatever fails and however requests
\* overlap, a setting reads only as what was stored, and not as what it was
\* once that has gone from the cache.
IsRegister == Register!Spec

\* The value that a slow read or a slow write puts into the cache after it was
\* replaced does not stay there.
CacheSettles == Register!Settles
===============================================================================
