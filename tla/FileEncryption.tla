--------------------------- MODULE FileEncryption ---------------------------
(***************************************************************************)
(* The encryption and decryption of a file on the server                   *)
(* (internal/api/encryption_handlers.go,                                   *)
(* internal/security/encryption_manager.go): requests for one file may     *)
(* overlap, writes fail half of the way, and the server may die.  Of the   *)
(* contents counts whether they are there in part or as a whole.           *)
(***************************************************************************)
EXTENDS Naturals

CONSTANTS
  Calls,        \* requests that may be under way at a time
  MaxCrashes    \* bound

VARIABLES
  plain,        \* the file: "none", "part" or "whole"
  sealed,       \* the file.b2encrypted, which may also hold a part, sealed: "mangled"
  inUploads,    \* whether the file is in UPLOAD_DIR
  pc, kind,     \* of each request: where it is, and "encrypt" or "decrypt"
  input,        \* of each request: what it has read
  crashes       \* history

files == <<plain, sealed>>
vars == <<files, inUploads, pc, kind, input, crashes>>

Init ==
  /\ plain \in {"none", "whole"} /\ sealed \in {"none", "whole"}
  /\ plain = "whole" \/ sealed = "whole"
  /\ inUploads \in BOOLEAN
  /\ pc = [c \in Calls |-> "idle"]
  /\ kind = [c \in Calls |-> "encrypt"] /\ input = [c \in Calls |-> "none"]
  /\ crashes = 0

SourceOf(what) == IF what = "encrypt" THEN plain ELSE sealed
TargetOf(what) == IF what = "encrypt" THEN sealed ELSE plain
Source(c) == SourceOf(kind[c])
Target(c) == TargetOf(kind[c])
SetTarget(c, content) ==
  IF kind[c] = "encrypt" THEN sealed' = content /\ UNCHANGED plain
  ELSE plain' = content /\ UNCHANGED sealed

Goto(c, at) == pc' = [pc EXCEPT ![c] = at]

\* A request is refused unless there is an input and no output.
Ask(c, what) ==
  /\ pc[c] \in {"idle", "succeeded", "failed"}
  /\ kind' = [kind EXCEPT ![c] = what]
  /\ Goto(c, IF SourceOf(what) # "none" /\ TargetOf(what) = "none" THEN "checked" ELSE "failed")
  /\ UNCHANGED <<files, inUploads, input, crashes>>

\* What can be decrypted is only what was sealed as a whole, with the password.
Opens(c) == kind[c] = "encrypt" \/ Source(c) \in {"whole", "mangled"}

\* The whole input is read, and sealed or opened.
Read(c) ==
  /\ pc[c] = "checked"
  /\ input' = [input EXCEPT ![c] = Source(c)]
  /\ \/ Source(c) # "none" /\ Opens(c) /\ Goto(c, "read")
     \/ Goto(c, "failed")
  /\ UNCHANGED <<files, inUploads, kind, crashes>>

\* Mutant of MayCreate: an output that exists is truncated.
MayTruncate(c) == TRUE

\* The output is opened exclusively.
MayCreate(c) == Target(c) = "none"

Create(c) ==
  /\ pc[c] = "read"
  /\ IF MayCreate(c) THEN SetTarget(c, "part") /\ Goto(c, "created")
     ELSE UNCHANGED files /\ Goto(c, "failed")
  /\ UNCHANGED <<inUploads, kind, input, crashes>>

\* What is written of an input: a seal of a part opens as that part.
Output(c) ==
  CASE kind[c] = "encrypt" /\ input[c] = "part" -> "mangled"
    [] kind[c] = "decrypt" /\ input[c] = "mangled" -> "part"
    [] OTHER -> input[c]

Write(c) ==
  /\ pc[c] = "created"
  /\ SetTarget(c, Output(c))
  /\ Goto(c, "written")
  /\ UNCHANGED <<inUploads, kind, input, crashes>>

\* The file that a failed write leaves is removed.
Discarded(c) == "none"

WriteFails(c) ==
  /\ pc[c] = "created"
  /\ SetTarget(c, Discarded(c))
  /\ Goto(c, "failed")
  /\ UNCHANGED <<inUploads, kind, input, crashes>>

\* An upload that is encrypted is removed.
Finish(c) ==
  /\ pc[c] = "written"
  /\ plain' = IF kind[c] = "encrypt" /\ inUploads THEN "none" ELSE plain
  /\ Goto(c, "succeeded")
  /\ UNCHANGED <<sealed, inUploads, kind, input, crashes>>

\* The server dies, and starts anew.
Crash ==
  /\ crashes < MaxCrashes
  /\ crashes' = crashes + 1
  /\ pc' = [c \in Calls |-> "idle"]
  /\ UNCHANGED <<files, inUploads, kind, input>>

Next ==
  \/ \E c \in Calls, what \in {"encrypt", "decrypt"} : Ask(c, what)
  \/ \E c \in Calls : Read(c) \/ Create(c) \/ Write(c) \/ WriteFails(c) \/ Finish(c)
  \/ Crash

Spec == Init /\ [][Next]_vars

-----------------------------------------------------------------------------
(* Properties                                                              *)

TypeOK ==
  /\ plain \in {"none", "part", "whole"} /\ sealed \in {"none", "part", "whole", "mangled"}
  /\ inUploads \in BOOLEAN /\ crashes \in Nat
  /\ pc \in [Calls -> {"idle", "checked", "read", "created", "written", "succeeded", "failed"}]
  /\ kind \in [Calls -> {"encrypt", "decrypt"}]
  /\ input \in [Calls -> {"none", "part", "whole", "mangled"}]

\* The content is never lost: the file or its encrypted copy holds all of it,
\* although originals are removed, requests overlap and the server dies.
ContentSurvives == plain = "whole" \/ sealed = "whole"

\* A file that is incomplete is being written, or the server has died: a write
\* that fails leaves nothing that would block the next attempt.
PartsAreWritten ==
  /\ sealed = "part" => crashes > 0 \/ \E c \in Calls : pc[c] = "created" /\ kind[c] = "encrypt"
  /\ plain = "part" => crashes > 0 \/ \E c \in Calls : pc[c] = "created" /\ kind[c] = "decrypt"

\* Together: a file survives, and nothing half-done stands in its way.
FilesSurvive == ContentSurvives /\ PartsAreWritten

=============================================================================
