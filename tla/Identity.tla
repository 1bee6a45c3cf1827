------------------------------ MODULE Identity ------------------------------
(***************************************************************************)
(* The anonymous identity of the web front end and what belongs to it: the *)
(* page that creates and forgets it, the vault that stores files under it, *)
(* and the deletion of the identity, which runs in the server of the front *)
(* end and first removes the stored files batch by batch.  The pages may   *)
(* be open in several windows.                                             *)
(***************************************************************************)
EXTENDS Integers, FiniteSets, FiniteSetsExt

CONSTANTS
  Files,        \* the names that uploaded files get: each is new
  MaxUsers,     \* bound: identities created
  BatchSize,    \* the most names that one listing returns (1000 in the code)
  MaxBatches,   \* listings that one deletion makes at most (100 in the code)
  Nil

VARIABLES
  session,    \* the identity whose session the browser holds, or Nil
  users,      \* number of identities created so far
  gone,       \* identities deleted
  objects,    \* stored files: <<identity, name>>
  vault,      \* the vault page: user, files, loading, busy; Nil if not open
  pending,    \* requests of the vault page under way
  deletion,   \* the request that deletes an identity, or Nil
  deleting,   \* the flag of the deletion page
  cleared,    \* history: identities for which the browser's storage was wiped
  late        \* history: files stored since the deletion of their owner began

vars == <<session, users, gone, objects, vault, pending, deletion, deleting, cleared, late>>

Init ==
  /\ session = Nil /\ users = 0 /\ gone = {} /\ objects = {}
  /\ vault = Nil /\ pending = {} /\ deletion = Nil /\ deleting = FALSE
  /\ cleared = {} /\ late = {}

-----------------------------------------------------------------------------
(* The identity                                                            *)

signInAnonymously ==
  /\ session = Nil /\ users < MaxUsers
  /\ users' = users + 1 /\ session' = users'
  /\ UNCHANGED <<gone, objects, vault, pending, deletion, deleting, cleared, late>>

signOut ==
  /\ session # Nil
  /\ session' = Nil
  /\ UNCHANGED <<users, gone, objects, vault, pending, deletion, deleting, cleared, late>>

-----------------------------------------------------------------------------
(* The vault                                                               *)

Unchanged == UNCHANGED <<session, users, gone, deletion, deleting, cleared>>

\* A row policy shows an identity only its own files.
Stored(u) == IF u = session THEN {o[2] : o \in {x \in objects : x[1] = u}} ELSE {}

ListFor(u) == [op |-> "list", user |-> u, file |-> Nil]

Visit ==
  /\ vault = Nil
  /\ vault' = [user |-> session, files |-> {}, loading |-> session # Nil, busy |-> FALSE]
  /\ pending' = IF session = Nil THEN {} ELSE {ListFor(session)}
  /\ UNCHANGED <<objects, late>> /\ Unchanged

Leave ==
  /\ vault # Nil
  /\ vault' = Nil
  /\ pending' = {r \in pending : r.op = "upload"}
  /\ UNCHANGED <<objects, late>> /\ Unchanged

Request(r) == pending' = pending \cup {r}

refresh ==
  /\ vault # Nil /\ vault.user # Nil /\ ~vault.loading
  /\ vault' = [vault EXCEPT !.loading = TRUE]
  /\ Request(ListFor(vault.user))
  /\ UNCHANGED <<objects, late>> /\ Unchanged

Refreshed(r) ==
  /\ vault # Nil /\ r.op = "list"
  /\ pending' = pending \ {r}
  /\ \E files \in {vault.files, Stored(r.user)} :
       vault' = [vault EXCEPT !.loading = FALSE, !.files = files]
  /\ UNCHANGED <<objects, late>> /\ Unchanged

upload(f) ==
  /\ vault # Nil /\ vault.user # Nil /\ ~vault.busy
  /\ \A o \in objects : o[2] # f
  /\ \A r \in pending : r.file # f
  /\ vault' = [vault EXCEPT !.busy = TRUE]
  /\ Request([op |-> "upload", user |-> vault.user, file |-> f])
  /\ UNCHANGED <<objects, late>> /\ Unchanged

BeingDeleted == IF deletion = Nil THEN {} ELSE {deletion.user}

\* Storage takes the file of a session that is still good, and the page, if
\* it is still open, lists the files again; or the upload fails.
Uploaded(r) ==
  /\ r.op = "upload"
  /\ \/ /\ objects' = objects \cup {<<r.user, r.file>>}
        /\ late' = IF r.user \in gone \cup BeingDeleted
                   THEN late \cup {<<r.user, r.file>>} ELSE late
        /\ IF vault # Nil /\ vault.user = r.user
           THEN /\ vault' = [vault EXCEPT !.busy = FALSE, !.loading = TRUE]
                /\ pending' = (pending \ {r}) \cup {ListFor(r.user)}
           ELSE pending' = pending \ {r} /\ UNCHANGED vault
     \/ /\ pending' = pending \ {r}
        /\ vault' = IF vault = Nil THEN Nil ELSE [vault EXCEPT !.busy = FALSE]
        /\ UNCHANGED <<objects, late>>
  /\ Unchanged

remove(f) ==
  /\ vault # Nil /\ f \in vault.files
  /\ Request([op |-> "remove", user |-> vault.user, file |-> f])
  /\ UNCHANGED <<vault, objects, late>> /\ Unchanged

Removed(r) ==
  /\ vault # Nil /\ r.op = "remove"
  /\ pending' = pending \ {r}
  /\ \/ /\ objects' = IF r.user = session THEN objects \ {<<r.user, r.file>>} ELSE objects
        /\ vault' = [vault EXCEPT !.files = @ \ {r.file}]
     \/ UNCHANGED <<objects, vault>>
  /\ UNCHANGED late /\ Unchanged

-----------------------------------------------------------------------------
(* The deletion of the identity                                            *)

InVault == UNCHANGED <<users, vault, pending>>

\* The user is looked up first: an identity that is gone is refused.
Delete ==
  /\ ~deleting /\ session # Nil /\ deletion = Nil
  /\ deleting' = TRUE
  /\ deletion' = [user |-> session, at |-> IF session \in gone THEN "failed" ELSE "list", batch |-> 0, paths |-> {}]
  /\ late' = {o \in late : o[1] # session \/ session \in gone}
  /\ UNCHANGED <<session, gone, objects, cleared>> /\ InVault

At(point) == deletion # Nil /\ deletion.at = point

Owned == {o \in objects : o[1] = deletion.user}

ListBatch ==
  /\ At("list") /\ deletion.batch < MaxBatches
  /\ IF Owned = {} THEN deletion' = [deletion EXCEPT !.at = "user"]
     ELSE \E paths \in kSubset(Min({BatchSize, Cardinality(Owned)}), Owned) :
            deletion' = [deletion EXCEPT !.at = "remove", !.paths = paths]
  /\ UNCHANGED <<session, gone, objects, deleting, cleared, late>> /\ InVault

RemoveBatchOnce ==
  /\ At("remove")
  /\ objects' = objects \ deletion.paths
  /\ deletion' = [deletion EXCEPT !.at = "user"]
  /\ UNCHANGED <<session, gone, deleting, cleared, late>> /\ InVault

RemoveNothing ==
  /\ At("remove")
  /\ deletion' = [deletion EXCEPT !.at = "failed", !.paths = {}]
  /\ UNCHANGED <<session, gone, objects, deleting, cleared, late>> /\ InVault

\* The last batch that is allowed is never followed by the deletion.
RemoveBatch ==
  /\ At("remove")
  /\ objects' = objects \ deletion.paths
  /\ deletion' = IF deletion.batch = MaxBatches - 1
                 THEN [deletion EXCEPT !.at = "failed", !.paths = {}]
                 ELSE [deletion EXCEPT !.at = "list", !.batch = @ + 1, !.paths = {}]
  /\ UNCHANGED <<session, gone, deleting, cleared, late>> /\ InVault

DeleteUser ==
  /\ At("user")
  /\ gone' = gone \cup {deletion.user}
  /\ deletion' = [deletion EXCEPT !.at = "deleted"]
  /\ UNCHANGED <<session, objects, deleting, cleared, late>> /\ InVault

\* Storage or the user database fails, or the session is over.
DeletionFails ==
  /\ deletion # Nil /\ deletion.at \in {"list", "remove", "user"}
  /\ deletion' = [deletion EXCEPT !.at = "failed", !.paths = {}]
  /\ UNCHANGED <<session, gone, objects, deleting, cleared, late>> /\ InVault

\* The page forgets the session and wipes the browser's storage, and is left;
\* after a failure it can be used again.
Replied ==
  /\ deletion # Nil /\ deletion.at \in {"deleted", "failed"}
  /\ IF deletion.at = "deleted"
     THEN session' = Nil /\ cleared' = cleared \cup {deletion.user}
     ELSE UNCHANGED <<session, cleared>>
  /\ deletion' = Nil /\ deleting' = FALSE
  /\ UNCHANGED <<gone, objects, late>> /\ InVault

\* A lost reply is caught by nobody: the flag stays up until the page is
\* loaded again.
ReplyLost ==
  /\ deletion # Nil /\ deletion.at \in {"deleted", "failed"}
  /\ deletion' = Nil
  /\ UNCHANGED <<session, gone, objects, deleting, cleared, late>> /\ InVault

Reload ==
  /\ deleting /\ deletion = Nil
  /\ deleting' = FALSE
  /\ UNCHANGED <<session, gone, objects, deletion, cleared, late>> /\ InVault

Deletion == ListBatch \/ RemoveBatch \/ DeleteUser \/ Replied

Next ==
  \/ signInAnonymously \/ signOut
  \/ Visit \/ Leave \/ refresh
  \/ \E f \in Files : upload(f) \/ remove(f)
  \/ \E r \in pending : Refreshed(r) \/ Uploaded(r) \/ Removed(r)
  \/ Delete \/ ListBatch \/ RemoveBatch \/ DeleteUser \/ DeletionFails
  \/ Replied \/ ReplyLost \/ Reload

\* Each round of the deletion gets further some time, if it is tried again and
\* again; an attempt ends somehow, and a user who wants to be deleted tries again.
Fairness ==
  /\ SF_vars(ListBatch) /\ SF_vars(RemoveBatch \/ DeleteUser)
  /\ WF_vars(Replied \/ ReplyLost) /\ WF_vars(Reload) /\ WF_vars(Delete)

Spec == Init /\ [][Next]_vars /\ Fairness

-----------------------------------------------------------------------------
(* Properties                                                              *)

\* An identity that is deleted leaves no stored file behind, unless the file
\* arrived after the deletion had begun: however many batches it
\* takes, and whatever attempts failed half-way before.
GoneMeansEmpty == \A o \in objects : o[1] \in gone => o \in late

\* The browser forgets the identity only if the server deleted it: a failure
\* half-way leaves the session that is needed to try again.
ClearedMeansGone == cleared \subseteq gone

\* Together: what is deleted is deleted, at the server before the browser.
DeletionIsHonest == GoneMeansEmpty /\ ClearedMeansGone

\* A deletion that is tried again and again succeeds although every attempt
\* may fail half-way and handles a limited number of files: each takes off
\* where the last one stopped, once uploads end and the session is kept.
RetriesFinish ==
  <>[](session # Nil /\ \A r \in pending : r.op # "upload") => []<>(session \in gone)

=============================================================================
