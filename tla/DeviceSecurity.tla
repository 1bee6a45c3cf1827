--------------------------- MODULE DeviceSecurity ---------------------------
(***************************************************************************)
(* Secure erasure from the web front end (frontend/app/device-security):   *)
(* the user types paths, has the backend validate them (a dry run), types  *)
(* SECURE_DELETE and has them erased.  The text field stays editable while *)
(* a request is under way, and files come and go.                          *)
(***************************************************************************)
EXTENDS FiniteSets

CONSTANTS
  Paths,   \* app-owned paths that the user may type
  Nil

VARIABLES
  files,      \* the regular files there are
  input,      \* the paths in the text field
  selected,   \* the files listed as validated
  errors,     \* the paths listed as rejected
  confirm,    \* is the text SECURE_DELETE typed in the confirmation field?
  isWiping,   \* the flag that disables both buttons
  call,       \* the request under way: what it asks for, or Nil
  typedFor,   \* history: what page the confirmation was typed on
  erased      \* history: per erased path, what was true when it was asked for

page == <<input, selected, errors, confirm, isWiping>>
history == <<typedFor, erased>>
vars == <<files, input, selected, errors, confirm, isWiping, call, history>>

Init ==
  /\ files = {} /\ input = {} /\ selected = {} /\ errors = {}
  /\ confirm = FALSE /\ isWiping = FALSE /\ call = Nil
  /\ typedFor = Nil /\ erased = {}

\* Downloads create files and other requests remove them.
FilesChange(p) ==
  /\ files' = IF p \in files THEN files \ {p} ELSE files \cup {p}
  /\ UNCHANGED <<page, call, history>>

Ask(c) == call = Nil /\ call' = c /\ isWiping' = TRUE

-----------------------------------------------------------------------------
(* The page                                                                *)

EditPaths(ps) ==
  /\ input' = ps /\ selected' = {} /\ confirm' = FALSE
  /\ UNCHANGED <<files, errors, isWiping, call, history>>

TypeConfirmation(typed) ==
  /\ confirm' = typed
  /\ typedFor' = [input |-> input, selected |-> selected]
  /\ UNCHANGED <<files, input, selected, errors, isWiping, call, erased>>

handleValidateSecureDelete ==
  /\ ~isWiping /\ input # {}
  /\ Ask([dryRun |-> TRUE, paths |-> input])
  /\ errors' = {}
  /\ UNCHANGED <<files, input, selected, confirm, history>>

handleSecureDelete ==
  /\ ~isWiping /\ input # {} /\ selected # {} /\ confirm
  /\ Ask([dryRun |-> FALSE, paths |-> input])
  /\ erased' = erased \cup
       {[path |-> p, confirmed |-> typedFor = [input |-> input, selected |-> selected]] : p \in input}
  /\ UNCHANGED <<files, input, selected, errors, confirm, typedFor>>

-----------------------------------------------------------------------------
(* The backend answers                                                     *)

Answered == call' = Nil /\ isWiping' = FALSE

\* Mutant of Validated: a confirmation that was typed before the answer stands.
ValidatedKeepsConfirmation ==
  /\ call # Nil /\ call.dryRun
  /\ Answered
  /\ selected' = call.paths \cap files /\ errors' = call.paths \ files
  /\ UNCHANGED <<files, input, confirm, typedFor, erased>>

\* Every path is reported on; the page lists the answer whatever the text
\* field holds by now.
Validated ==
  /\ call # Nil /\ call.dryRun
  /\ Answered
  /\ selected' = call.paths \cap files /\ errors' = call.paths \ files
  /\ confirm' = FALSE
  /\ UNCHANGED <<files, input, typedFor, erased>>

ValidationFails ==
  /\ call # Nil /\ call.dryRun
  /\ Answered
  /\ selected' = {}
  /\ UNCHANGED <<files, input, errors, confirm, history>>

\* The files that are there are overwritten and unlinked, or some cannot be;
\* the reply is a success in any case, and the page is cleared.
Erased(failed) ==
  /\ call # Nil /\ ~call.dryRun
  /\ Answered
  /\ files' = files \ (call.paths \ failed)
  /\ errors' = {p \in call.paths : p \notin files \/ p \in failed}
  /\ selected' = {} /\ confirm' = FALSE /\ input' = {}
  /\ UNCHANGED history

\* The request is refused or its reply lost, before or after the files went.
EraseFails(gone) ==
  /\ call # Nil /\ ~call.dryRun
  /\ Answered
  /\ files' = files \ gone
  /\ UNCHANGED <<input, selected, errors, confirm, history>>

Next ==
  \/ \E p \in Paths : FilesChange(p)
  \/ \E ps \in SUBSET Paths : EditPaths(ps)
  \/ \E typed \in BOOLEAN : TypeConfirmation(typed)
  \/ handleValidateSecureDelete \/ handleSecureDelete
  \/ Validated \/ ValidationFails
  \/ call # Nil /\ \E ps \in SUBSET call.paths : Erased(ps) \/ EraseFails(ps)

Spec == Init /\ [][Next]_vars

-----------------------------------------------------------------------------
(* Properties                                                              *)

\* Every erasure was confirmed with the page as it was when the user typed
\* the confirmation: neither the paths nor the list of validated files had
\* changed since, by hand or by an answer that came late.
ErasureWasConfirmed == \A e \in erased : e.confirmed

=============================================================================
