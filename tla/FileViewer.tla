----------------------------- MODULE FileViewer -----------------------------
(***************************************************************************)
(* The standalone file viewer: its main process (file-viewer/main.js),     *)
(* which knows the files of the session and serves their previews, and its *)
(* window (file-viewer/renderer.js), which lists them.                     *)
(*                                                                         *)
(* The two talk by asynchronous calls.  A call is sent by a click, handled *)
(* by the main process, which awaits the file system, and answered; then   *)
(* the window acts on the answer, whatever has happened in between.        *)
(***************************************************************************)
EXTENDS Naturals, FiniteSets, SequencesExt

CONSTANTS
  Paths,     \* real paths of files the user may choose
  Name(_),   \* basename of a path
  Tokens,    \* preview tokens; stand for fresh random identifiers
  Calls,     \* calls of the window to the main process in flight
  MaxClicks, \* bound of the number of calls
  Nil        \* null

VARIABLES
  disk,       \* the files that exist
  known,      \* the keys of knownFiles
  tokenOf,    \* previewTokensByPath
  fileOf,     \* previewFilesByToken
  files,      \* state.files of the window; its order is left out
  selected,   \* state.selectedPath
  confirm,    \* the text in the deletion's confirmation field
  armed,      \* is the delete button enabled?
  call,       \* the calls in flight
  typedFor,   \* history: the file for which `confirm` was typed, or Nil: a forget has
              \* moved the selection since
  overtaken,  \* history: files opened and dropped at once, or left by a window
  clicks      \* history: calls made so far

main    == <<known, tokenOf, fileOf>>
window  == <<files, selected, confirm, armed>>
history == <<clicks, typedFor, overtaken>>
vars    == <<disk, main, window, call, history>>

Names == {Name(p) : p \in Paths}
Blank == ""

\* A listed file: how its analysis ended, and its preview URL.
Entry(p, ok, token) == [path |-> p, ok |-> ok, token |-> token]

Idle == [kind |-> "none", pc |-> "idle", todo |-> <<>>, results |-> <<>>, heard |-> FALSE]
Sent(kind, paths) == [Idle EXCEPT !.kind = kind, !.pc = "sent", !.todo = paths, !.heard = TRUE]

Listed == {e.path : e \in files}

\* The paths a call is about.
Subjects(c) == ToSet(call[c].todo) \cup {e.path : e \in ToSet(call[c].results)}

Opening(p)  == \E c \in Calls : call[c].kind = "open" /\ p \in Subjects(c)
Dropping(p) == \E c \in Calls : call[c].kind \in {"forget", "delete"} /\ p \in Subjects(c)

\* A token no table and no entry has: a new random identifier.
NewToken(t) ==
  /\ fileOf[t] = Nil
  /\ \A e \in files : e.token # t
  /\ \A c \in Calls : \A e \in ToSet(call[c].results) : e.token # t

\* Identifiers are told apart by equality only: which new one is taken is of no
\* account.
FreshToken(t) == NewToken(t) /\ t = CHOOSE u \in Tokens : NewToken(u)

Init ==
  /\ disk = Paths
  /\ known = {}
  /\ tokenOf = [p \in Paths |-> Nil]
  /\ fileOf = [t \in Tokens |-> Nil]
  /\ files = {} /\ selected = Nil /\ confirm = Blank /\ armed = FALSE
  /\ call = [c \in Calls |-> Idle]
  /\ typedFor = Nil
  /\ overtaken = {}
  /\ clicks = 0

-----------------------------------------------------------------------------
(* The window: selection, confirmation field, delete button                *)

\* updateDeleteState, once the list, the selection and the field are set.
UpdateDeleteState ==
  armed' = (selected' \in {e.path : e \in files'} /\ confirm' = Name(selected'))

\* selectFile
SelectFile(p) ==
  /\ selected' = p
  /\ confirm' = Blank
  /\ typedFor' = Nil
  /\ UpdateDeleteState

\* A click on a file of the list.
Select(p) ==
  /\ p \in Listed
  /\ UNCHANGED <<disk, main, files, call, overtaken, clicks>>
  /\ SelectFile(p)

\* The user types a name, or something that is none, into the field.
TypeConfirmation(text) ==
  /\ selected # Nil
  /\ confirm' = text
  /\ typedFor' = IF text = Blank THEN Nil ELSE selected
  /\ UNCHANGED <<disk, main, files, selected, call, overtaken, clicks>>
  /\ UpdateDeleteState

\* What forget and delete do to the list: the file goes, and the first is
\* selected, which may be any.
DropFromList(p) ==
  /\ files' = {e \in files : e.path # p}
  /\ selected' \in IF files' = {} THEN {Nil} ELSE {e.path : e \in files'}

-----------------------------------------------------------------------------
(* Opening: the dialog, the analysis of each file in turn, the list        *)

Open(c, paths) ==
  /\ call[c] = Idle /\ clicks < MaxClicks /\ clicks' = clicks + 1
  /\ call' = [call EXCEPT ![c] = Sent("open", paths)]
  /\ overtaken' = (overtaken \ {p \in ToSet(paths) : p \notin Listed /\ ~Opening(p)})
                     \cup {p \in ToSet(paths) : Dropping(p)}
  /\ UNCHANGED <<disk, main, window, typedFor>>

\* analyzeFile: the file exists and is regular, and from now on it is known.
AnalysisStarts(c) ==
  /\ call[c].kind = "open" /\ call[c].pc = "sent" /\ call[c].todo # <<>>
  /\ Head(call[c].todo) \in disk
  /\ known' = known \cup {Head(call[c].todo)}
  /\ call' = [call EXCEPT ![c].pc = "reading"]
  /\ UNCHANGED <<disk, tokenOf, fileOf, window, history>>

\* One file of the request is through, with this entry as its result.
Analysed(c, e) ==
  call' = [call EXCEPT ![c].pc = "sent", ![c].todo = Tail(@), ![c].results = Append(@, e)]

\* realpath or stat fails, or, once the file is known, one of the reads does.
\* analyzeFiles catches it and goes on to the next file.
AnalysisFails(c) ==
  /\ call[c].kind = "open" /\ call[c].todo # <<>>
  /\ Analysed(c, Entry(Head(call[c].todo), FALSE, Nil))
  /\ UNCHANGED <<disk, main, window, history>>

\* previewUrlForPath returns the token t.
PreviewUrl(p, t) ==
  IF tokenOf[p] # Nil
  THEN t = tokenOf[p] /\ UNCHANGED <<tokenOf, fileOf>>
  ELSE /\ FreshToken(t)
       /\ tokenOf' = [tokenOf EXCEPT ![p] = t]
       /\ fileOf' = [fileOf EXCEPT ![t] = p]

\* Sample, signature, hash and warnings are in; nothing re-checks `known`.
AnalysisDone(c) ==
  /\ call[c].pc = "reading"
  /\ \E t \in Tokens :
       /\ PreviewUrl(Head(call[c].todo), t)
       /\ Analysed(c, Entry(Head(call[c].todo), TRUE, t))
  /\ UNCHANGED <<disk, known, window, history>>

\* mergeFiles: new entries replace old ones of their path.
MergeFiles(list, new) == {e \in list : \A f \in new : f.path # e.path} \cup new

\* The answer reaches the window, or a window that is gone.
OpenReturns(c) ==
  /\ call[c].kind = "open" /\ call[c].todo = <<>>
  /\ IF call[c].heard
     THEN files' = MergeFiles(files, ToSet(call[c].results)) /\ SelectFile(Head(call[c].results).path)
     ELSE UNCHANGED <<window, typedFor>>
  /\ call' = [call EXCEPT ![c] = Idle]
  /\ UNCHANGED <<disk, main, overtaken, clicks>>

-----------------------------------------------------------------------------
(* Forgetting and deleting                                                 *)

\* resolveKnownFile: the path resolves, to a file of this session.
Resolved(p) == p \in disk /\ p \in known

\* The preview protocol: the file it answers a token with, if any.
Served(t) == IF fileOf[t] # Nil /\ fileOf[t] \in known THEN fileOf[t] ELSE Nil

ForgetKnownFile(p) ==
  /\ known' = known \ {p}
  /\ tokenOf' = [tokenOf EXCEPT ![p] = Nil]
  /\ fileOf' = [t \in Tokens |-> IF t = tokenOf[p] THEN Nil ELSE fileOf[t]]

\* Call c about the selected file leaves the window.
Send(c, kind) ==
  /\ call[c] = Idle /\ clicks < MaxClicks /\ clicks' = clicks + 1
  /\ selected \in Listed
  /\ call' = [call EXCEPT ![c] = Sent(kind, <<selected>>)]
  /\ overtaken' = IF Opening(selected) THEN overtaken \cup {selected} ELSE overtaken
  /\ UNCHANGED <<disk, main, files, selected, confirm, typedFor>>

ForgetClick(c) == Send(c, "forget") /\ UNCHANGED armed

\* The delete button sends the confirmation along and is disabled meanwhile.
DeleteClick(c) == armed /\ Send(c, "delete") /\ armed' = FALSE

Answer(c, pc) == call' = [call EXCEPT ![c].pc = pc]

CallFails(c) ==
  /\ call[c].kind \in {"forget", "delete"} /\ call[c].pc = "sent"
  /\ ~Resolved(Head(call[c].todo))
  /\ Answer(c, "failed")
  /\ UNCHANGED <<disk, main, window, history>>

ForgetRuns(c) ==
  /\ call[c].kind = "forget" /\ call[c].pc = "sent"
  /\ Resolved(Head(call[c].todo))
  /\ ForgetKnownFile(Head(call[c].todo))
  /\ Answer(c, "ok")
  /\ UNCHANGED <<disk, window, history>>

\* trashItem or overwriteAndUnlink ends: it fails with the file still there, it
\* is gone, or it is gone and the sync of its directory fails, which is an
\* error like any other.
OverwriteAndUnlink(c) ==
  \/ Answer(c, "failed") /\ UNCHANGED disk
  \/ Answer(c, "gone")   /\ disk' = disk \ {Head(call[c].todo)}
  \/ Answer(c, "failed") /\ disk' = disk \ {Head(call[c].todo)}

\* files:delete.  The confirmation equals the name: see Send and DeleteClick.
DeleteRuns(c) ==
  /\ call[c].kind = "delete" /\ call[c].pc = "sent"
  /\ Resolved(Head(call[c].todo))
  /\ OverwriteAndUnlink(c)
  /\ UNCHANGED <<main, window, history>>

\* Mutant of DeleteForgets: the deleted file is not forgotten.
DeleteForgetsNot(c) ==
  /\ call[c].pc = "gone"
  /\ Answer(c, "ok")
  /\ UNCHANGED <<disk, main, window, history>>

DeleteForgets(c) ==
  /\ call[c].pc = "gone"
  /\ ForgetKnownFile(Head(call[c].todo))
  /\ Answer(c, "ok")
  /\ UNCHANGED <<disk, window, history>>

\* The answer reaches the window.  A forget keeps the confirmation field.
CallReturns(c) ==
  /\ call[c].kind \in {"forget", "delete"} /\ call[c].pc \in {"ok", "failed"}
  /\ IF call[c].heard
     THEN /\ IF call[c].pc = "ok"
             THEN /\ DropFromList(Head(call[c].todo))
                  /\ confirm' = IF call[c].kind = "delete" THEN Blank ELSE confirm
                  /\ typedFor' = IF call[c].kind = "delete" \/ selected' # selected THEN Nil
                                 ELSE typedFor
             ELSE UNCHANGED <<files, selected, confirm, typedFor>>
          /\ IF call[c].kind = "forget" /\ call[c].pc = "failed"
             THEN UNCHANGED armed
             ELSE UpdateDeleteState
     ELSE UNCHANGED <<window, typedFor>>
  /\ call' = [call EXCEPT ![c] = Idle]
  /\ UNCHANGED <<disk, main, overtaken, clicks>>

-----------------------------------------------------------------------------
(* Around the application                                                  *)

\* Another program removes a file.
FileVanishes(p) ==
  /\ p \in disk
  /\ disk' = disk \ {p}
  /\ UNCHANGED <<main, window, call, history>>

\* macOS: the window closes and a new one opens; the process goes on, and the
\* answers of the calls in flight are heard by nobody.
ReopenWindow ==
  /\ files' = {} /\ selected' = Nil /\ confirm' = Blank /\ armed' = FALSE
  /\ call' = [c \in Calls |-> [call[c] EXCEPT !.heard = FALSE]]
  /\ overtaken' = overtaken \cup known
                    \cup UNION {Subjects(c) : c \in {d \in Calls : call[d].kind = "open"}}
  /\ typedFor' = Nil
  /\ UNCHANGED <<disk, main, clicks>>

Next ==
  \/ \E p \in Paths : Select(p) \/ FileVanishes(p)
  \/ \E text \in Names \cup {Blank} : TypeConfirmation(text)
  \/ \E c \in Calls :
       \/ \E n \in 1..Cardinality(Paths) :
            \E paths \in [1..n -> Paths] : IsInjective(paths) /\ Open(c, paths)
       \/ AnalysisStarts(c) \/ AnalysisFails(c) \/ AnalysisDone(c) \/ OpenReturns(c)
       \/ ForgetClick(c) \/ DeleteClick(c) \/ CallFails(c) \/ ForgetRuns(c)
       \/ DeleteRuns(c) \/ DeleteForgets(c) \/ CallReturns(c)
  \/ ReopenWindow

Spec == Init /\ [][Next]_vars

-----------------------------------------------------------------------------
(* Properties                                                              *)

EntryType == [path : Paths, ok : BOOLEAN, token : Tokens \cup {Nil}]

\* Every variable keeps the shape the code gives it; the list has one entry
\* for each path.
TypeOK ==
  /\ disk \subseteq Paths /\ clicks \in 0..MaxClicks /\ known \subseteq Paths /\ overtaken \subseteq Paths
  /\ tokenOf \in [Paths -> Tokens \cup {Nil}]
  /\ fileOf \in [Tokens -> Paths \cup {Nil}]
  /\ files \subseteq EntryType
  /\ \A e, f \in files : e.path = f.path => e = f
  /\ selected \in Paths \cup {Nil} /\ typedFor \in Paths \cup {Nil}
  /\ confirm \in Names \cup {Blank} /\ armed \in BOOLEAN
  /\ \A c \in Calls :
       /\ call[c].kind \in {"none", "open", "forget", "delete"}
       /\ call[c].pc \in {"idle", "sent", "reading", "gone", "ok", "failed"}
       /\ call[c].todo \in Seq(Paths) /\ call[c].results \in Seq(EntryType)

\* The file a deletion removed, or a forget dropped, before the window hears.
Leaving(p) == \E c \in Calls : call[c].pc = "ok" /\ p \in Subjects(c)

\* What the window lists as analysed can be operated on and previewed: the
\* main process knows the file, and its preview URL leads to it.  Except for
\* files that were opened and dropped at the same time.
ListedIsServed ==
  \A e \in files :
    e.ok /\ e.path \notin overtaken /\ ~Leaving(e.path) =>
      e.path \in known /\ Served(e.token) = e.path

\* What the main process knows, and so serves and deletes, is in the window's
\* list, where the user may forget it, or about to be; with the same exception
\* and that of a window that was closed.
KnownIsListed ==
  \A p \in known : p \in Listed \/ p \in overtaken \/ Opening(p)

\* The confirmation is typed for the file it deletes: no selection, opening or
\* deletion in between lets it stand for another file of the same name.  The
\* exception is a forget, which keeps the text while the selection moves on, be
\* it from the file that is forgotten or from one that was selected meanwhile.
ConfirmedForSelected == confirm # Blank => typedFor \in {selected, Nil}

\* Together: the window and the main process agree on the files, and on the one
\* to delete.
ViewerIsSound == TypeOK /\ ListedIsServed /\ KnownIsListed /\ ConfirmedForSelected

=============================================================================
