---------------------------- MODULE SecureDelete ----------------------------
(***************************************************************************)
(* Secure deletion in the backend (backend/internal/api/                   *)
(* security_handlers.go: SecureDeleteFile and secureDeleteFile): requests  *)
(* that overwrite one file several times and remove it, each in an HTTP    *)
(* goroutine of its own, with no lock between them.                        *)
(*                                                                         *)
(* The model follows one path and the file it names, a row of blocks.  For *)
(* each block it keeps how many overwrites have reached the disk since it  *)
(* last held content, and what waits for it in the page cache.  A file     *)
(* that has been replaced under its name is of no interest any more, even  *)
(* to requests that still have it open.                                    *)
(***************************************************************************)
EXTENDS Integers

CONSTANTS
  Requests,    \* deletions in progress, each of the path modelled
  MaxSize,     \* blocks of the longest file
  Chunk,       \* blocks of the 4 KB buffer
  MinPasses,   \* 3
  MaxPasses,   \* 35
  Asked        \* the numbers of passes that clients ask for

ASSUME SizesAssumption == MaxSize \in Nat /\ Chunk \in Nat \ {0}
ASSUME PassesAssumption ==
  /\ MinPasses \in Nat \ {0} /\ MaxPasses \in Nat /\ MinPasses <= MaxPasses
  /\ Asked \subseteq Int

VARIABLES
  named,      \* does the path name the file?
  entry,      \* does it so in the directory on disk?
  size,       \* the size of the file, in blocks
  disk,       \* overwrites of each block that reached the disk
  cache,      \* "clean", or what the page cache has for the block
  pc, job,    \* each request: where it is, and its local variables
  disturbed,  \* history: requests whose file others wrote to or replaced
  reported    \* history: has the file been reported as deleted, directory synced?

fileVars == <<named, entry, size>>
blockVars == <<disk, cache>>
history == <<disturbed, reported>>
vars == <<named, entry, size, disk, cache, pc, job, disturbed, reported>>

Blocks == 1..MaxSize

\* The local variables of secureDeleteFile; "mine" says whether the file that
\* is open is the one modelled.
NoJob == [mine |-> FALSE, length |-> 0, passes |-> MinPasses, pass |-> 1, written |-> 0]

\* Request r has opened the file and not yet removed it.
Held(r) == pc[r] \in {"overwriting", "closed"}

Init ==
  /\ named = TRUE /\ entry = TRUE
  /\ size \in 0..MaxSize
  /\ disk = [b \in Blocks |-> 0]
  /\ cache = [b \in Blocks |-> "content"]   \* just downloaded
  /\ pc = [r \in Requests |-> "idle"]
  /\ job = [r \in Requests |-> NoJob]
  /\ disturbed = {}
  /\ reported = FALSE

Goto(r, s) == pc' = [pc EXCEPT ![r] = s]

-----------------------------------------------------------------------------
(* A request                                                               *)

\* Too few passes, or too many, become the least allowed.
Passes(n) == IF n < MinPasses \/ n > MaxPasses THEN MinPasses ELSE n

\* SecureDeleteFile: the path is checked by Stat.
Ask(r, n) ==
  /\ pc[r] = "idle"
  /\ Goto(r, IF named THEN "checked" ELSE "failed")
  /\ job' = [job EXCEPT ![r].passes = Passes(n)]
  /\ UNCHANGED <<fileVars, blockVars, history>>

\* secureDeleteFile: the file is opened and its size taken, once for all passes.
Open(r) ==
  /\ pc[r] = "checked"
  /\ named
  /\ Goto(r, "overwriting")
  /\ job' = [job EXCEPT ![r] = [mine |-> TRUE, length |-> size, passes |-> @.passes,
                                pass |-> 1, written |-> 0]]
  /\ disturbed' = disturbed \ {r}
  /\ UNCHANGED <<fileVars, blockVars, reported>>

ToWrite(j) == IF j.length - j.written < Chunk THEN j.length - j.written ELSE Chunk

\* Mutant of Advanced: a short write is taken for a full one.
AdvancedByChunk(j, n) == [j EXCEPT !.written = @ + ToWrite(j)]

Advanced(j, n) == [j EXCEPT !.written = @ + n]

\* One call of Write, of which n blocks are taken; none is an error.
Write(r, n) ==
  LET j == job[r]
  IN
    /\ pc[r] = "overwriting"
    /\ j.written < j.length
    /\ n <= ToWrite(j)
    /\ cache' = [b \in Blocks |->
         IF j.mine /\ b > j.written /\ b <= j.written + n THEN "random" ELSE cache[b]]
    /\ job' = [job EXCEPT ![r] = Advanced(j, n)]
    /\ UNCHANGED <<fileVars, disk, pc, history>>

\* What the disk has of a block once the cache is written back.  Overwrites
\* beyond MaxPasses are not counted.
Landed(b) ==
  CASE cache[b] = "clean"   -> disk[b]
    [] cache[b] = "random"  -> IF disk[b] < MaxPasses THEN disk[b] + 1 ELSE MaxPasses
    [] cache[b] = "content" -> 0

Synced ==
  /\ disk' = [b \in Blocks |-> Landed(b)]
  /\ cache' = [b \in Blocks |-> "clean"]

\* A pass is over: sync, then the next one from the start, or close.
PassDone(r) ==
  LET j == job[r]
  IN
    /\ pc[r] = "overwriting"
    /\ j.written >= j.length
    /\ IF j.mine THEN Synced ELSE UNCHANGED blockVars
    /\ \/ /\ j.pass < j.passes
          /\ job' = [job EXCEPT ![r] = [j EXCEPT !.pass = @ + 1, !.written = 0]]
          /\ UNCHANGED pc
       \/ /\ j.pass >= j.passes
          /\ Goto(r, "closed")
          /\ UNCHANGED job
    /\ UNCHANGED <<fileVars, history>>

\* os.Remove, by path.
Remove(r) ==
  /\ pc[r] = "closed"
  /\ named
  /\ named' = FALSE
  /\ Goto(r, "unlinked")
  /\ UNCHANGED <<entry, size, blockVars, job, history>>

\* Mutant of SyncParentDir: the directory is left to the kernel.
SyncParentDirNot == UNCHANGED entry

SyncParentDir == entry' = named

\* syncParentDir, whose error is only logged; the file is reported as deleted.
Report(r) ==
  /\ pc[r] = "unlinked"
  /\ \/ SyncParentDir /\ reported' = (reported \/ job[r].mine)
     \/ UNCHANGED <<entry, reported>>
  /\ Goto(r, "deleted")
  /\ UNCHANGED <<named, size, blockVars, job, disturbed>>

\* A call fails: the request stops, with the file as it is.
Fail(r) ==
  /\ pc[r] \in {"checked", "overwriting", "closed"}
  /\ Goto(r, "failed")
  /\ UNCHANGED <<fileVars, blockVars, job, history>>

\* The client has its answer and may ask again.
Answered(r) ==
  /\ pc[r] \in {"deleted", "failed"}
  /\ Goto(r, "idle")
  /\ job' = [job EXCEPT ![r] = NoJob]
  /\ UNCHANGED <<fileVars, blockVars, history>>

-----------------------------------------------------------------------------
(* The machine and the other programs                                      *)

\* The kernel writes one block back.
FlushBlock(b) ==
  /\ cache[b] # "clean"
  /\ disk' = [disk EXCEPT ![b] = Landed(b)]
  /\ cache' = [cache EXCEPT ![b] = "clean"]
  /\ UNCHANGED <<fileVars, pc, job, history>>

\* The kernel writes the directory back.
FlushDir ==
  /\ entry # named
  /\ entry' = named
  /\ UNCHANGED <<named, size, blockVars, pc, job, history>>

\* The server stops: its requests are gone.
Stop ==
  /\ pc' = [r \in Requests |-> "idle"]
  /\ job' = [r \in Requests |-> NoJob]
  /\ UNCHANGED <<fileVars, blockVars, history>>

\* The machine stops: what was only in memory is gone too.
Crash ==
  /\ named' = entry
  /\ cache' = [b \in Blocks |-> "clean"]
  /\ pc' = [r \in Requests |-> "idle"]
  /\ job' = [r \in Requests |-> NoJob]
  /\ UNCHANGED <<entry, size, disk, history>>

Disturb == disturbed' = disturbed \cup {r \in Requests : Held(r)}

\* A torrent writes a piece to the file, perhaps beyond its end.
Download(b) ==
  /\ named
  /\ size' = IF b > size THEN b ELSE size
  /\ cache' = [cache EXCEPT ![b] = "content"]
  /\ Disturb
  /\ UNCHANGED <<named, entry, disk, pc, job, reported>>

\* A torrent makes the missing file anew, or another program puts its own in
\* the place of the file: the path names a file that no request has open.
Recreate(n) ==
  /\ named' = TRUE
  /\ entry' = TRUE
  /\ size' = n
  /\ disk' = [b \in Blocks |-> 0]
  /\ cache' = [b \in Blocks |-> "content"]
  /\ job' = [r \in Requests |-> [job[r] EXCEPT !.mine = FALSE]]
  /\ Disturb
  /\ reported' = FALSE
  /\ UNCHANGED pc

Step(r) ==
  \/ Open(r) \/ (\E n \in 1..Chunk : Write(r, n)) \/ PassDone(r)
  \/ Remove(r) \/ Report(r) \/ Fail(r)

Next ==
  \/ \E r \in Requests : (\E n \in Asked : Ask(r, n)) \/ Step(r) \/ Answered(r)
  \/ \E b \in Blocks : FlushBlock(b)
  \/ FlushDir \/ Stop \/ Crash
  \/ \E b \in Blocks : Download(b)
  \/ \E n \in 0..MaxSize : Recreate(n)

Spec == Init /\ [][Next]_vars

-----------------------------------------------------------------------------
(* Properties                                                              *)

Job == [mine : BOOLEAN, length : 0..MaxSize, passes : MinPasses..MaxPasses,
        pass : 1..MaxPasses, written : 0..MaxSize]

Places == {"idle", "checked", "overwriting", "closed", "unlinked", "deleted", "failed"}

\* Every variable keeps the shape the code gives it; no pass writes past the
\* size taken when the file was opened.
TypeOK ==
  /\ named \in BOOLEAN /\ entry \in BOOLEAN
  /\ size \in 0..MaxSize
  /\ disk \in [Blocks -> 0..MaxPasses]
  /\ cache \in [Blocks -> {"clean", "random", "content"}]
  /\ pc \in [Requests -> Places]
  /\ job \in [Requests -> Job]
  /\ \A r \in Requests : job[r].written <= job[r].length
  /\ disturbed \subseteq Requests
  /\ reported \in BOOLEAN

\* security_handlers.go:528, "Securely deleted %d file(s) with %d overwrites",
\* and docs/SECURITY.md:111, "File writes are synced before deletion": when a
\* request removes the file, every block of it has been overwritten on the
\* disk as many times as the request answers, whatever other requests, failures
\* and crashes did to it; unless the file was written to or replaced since the
\* request opened it.
RemovedIsOverwritten ==
  [][ \A r \in Requests \ disturbed : pc[r] = "closed" /\ pc'[r] = "unlinked" =>
        \A b \in 1..size : disk[b] >= job[r].passes ]_vars

\* A file that was reported as deleted does not come back with a crash, if its
\* directory could be synced.
DeletedStaysGone == reported => ~named

=============================================================================
