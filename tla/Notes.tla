-------------------------------- MODULE Notes ---------------------------------
(***************************************************************************)
(* The encrypted notes of the front end (app/tools/secure-notes): a list   *)
(* in the memory of the page and in the storage of the browser.  A saving  *)
(* that encrypts goes on, after its await, with the list and the note of   *)
(* the time it was clicked, on a page that may be another by then.         *)
(***************************************************************************)
EXTENDS Integers, FiniteSets, Functions

CONSTANTS
  Ids,       \* what the clock gives as identifiers of notes
  Texts,     \* contents
  Saves,     \* savings that may be encrypting at once
  Nil,
  MaxActs    \* bound: what the user does

VARIABLES
  stored,                          \* localStorage: identifiers to notes
  notes, current,                  \* the page: its list, the note that is open
  content, locked, password,       \* the form; Nil if it is empty
  saving,                          \* savings that encrypt: what they go on with
  visit, stray, acts               \* history: visits of the page; has a saving
                                   \* outlived its visit; acts so far

form == <<current, content, locked, password>>
vars == <<stored, notes, form, saving, visit, stray, acts>>

EmptyForm == current' = Nil /\ content' = Nil /\ locked' = FALSE /\ password' = FALSE

Init ==
  /\ stored = <<>> /\ notes = <<>>
  /\ current = Nil /\ content = Nil /\ locked = FALSE /\ password = FALSE
  /\ saving = [s \in Saves |-> Nil]
  /\ visit = 0 /\ stray = FALSE /\ acts = 0

Act == acts < MaxActs /\ acts' = acts + 1

Changed(s) == IF s = Nil THEN Nil ELSE [s EXCEPT !.stale = TRUE]

\* saveNotes: the list of the page, if it is still there, and the storage.  The
\* savings under way do not know of it.
saveNotes(list, of) ==
  /\ notes' = IF of = visit THEN list ELSE notes
  /\ stored' = list
  /\ stray' = (stray \/ of # visit)

\* The page is left and visited again; the savings go on.
Visit ==
  /\ Act
  /\ notes' = stored /\ visit' = visit + 1 /\ EmptyForm
  /\ stray' = FALSE
  /\ UNCHANGED <<stored, saving>>

\* What is typed is in the clear; each saving with a password seals it once more.
Typed == [text : Texts, seals : {0}]

encryptContent(c) == [c EXCEPT !.seals = @ + 1]

\* The field of the password is there with the lock only, and keeps its text.
Type ==
  /\ content' \in {content} \cup Typed
  /\ locked' \in BOOLEAN
  /\ password' \in IF locked' THEN BOOLEAN ELSE {password}
  /\ UNCHANGED <<stored, notes, current, saving, visit, stray, acts>>

\* A card is clicked: the form holds what is stored, encrypted or not.
OpenNote(i) ==
  /\ Act /\ i \in DOMAIN notes
  /\ current' = i /\ content' = notes[i].content /\ locked' = notes[i].locked
  /\ UNCHANGED <<stored, notes, password, saving, visit, stray>>

resetForm ==
  /\ EmptyForm
  /\ UNCHANGED <<stored, notes, saving, visit, stray, acts>>

Note(c) == [content |-> c, locked |-> locked]

\* The identifier of a new note is taken from the clock.
Free == Ids \ (DOMAIN notes \cup DOMAIN stored)
IdsOf(open) == IF open = Nil THEN Free ELSE {open}

With(list, i, note) == [j \in DOMAIN list \cup {i} |-> IF j = i THEN note ELSE list[j]]

\* Mutant of Merged: a note that was open replaces the list.
MergedAlone(list, open, i, note) == IF open = Nil THEN With(list, i, note) ELSE [j \in {i} |-> note]

\* A new note is added; one that was open takes the place of its earlier self,
\* and is lost if the list does not have it any more.
Merged(list, open, i, note) ==
  IF open # Nil /\ i \notin DOMAIN list THEN list ELSE With(list, i, note)

\* handleSave without a password: at once.
SaveNow ==
  /\ Act /\ content # Nil /\ ~(locked /\ password)
  /\ \E i \in IdsOf(current) : saveNotes(Merged(notes, current, i, Note(content)), visit)
  /\ EmptyForm
  /\ saving' = [s \in Saves |-> Changed(saving[s])]
  /\ UNCHANGED visit

\* handleSave up to its await: the list and the note of this moment.
SaveBegins(s) ==
  /\ Act /\ content # Nil /\ locked /\ password /\ saving[s] = Nil
  /\ saving' = [saving EXCEPT ![s] =
       [id |-> current, list |-> notes, note |-> Note(encryptContent(content)),
        of |-> visit, stale |-> FALSE]]
  /\ UNCHANGED <<stored, notes, form, visit, stray>>

\* Encrypted: handleSave goes on.
SaveEnds(s) ==
  /\ saving[s] # Nil
  /\ LET r == saving[s]
     IN /\ \E i \in IdsOf(r.id) : saveNotes(Merged(r.list, r.id, i, r.note), r.of)
        /\ IF r.of = visit THEN EmptyForm ELSE UNCHANGED form
  /\ saving' = [t \in Saves |-> IF t = s THEN Nil ELSE Changed(saving[t])]
  /\ UNCHANGED <<visit, acts>>

handleDelete(i) ==
  /\ Act /\ i \in DOMAIN notes
  /\ saveNotes(Restrict(notes, DOMAIN notes \ {i}), visit)
  /\ saving' = [s \in Saves |-> Changed(saving[s])]
  /\ UNCHANGED <<form, visit>>

Next ==
  \/ Visit \/ Type \/ resetForm \/ SaveNow
  \/ \E i \in Ids : OpenNote(i) \/ handleDelete(i)
  \/ \E s \in Saves : SaveBegins(s) \/ SaveEnds(s)

Spec == Init /\ [][Next]_vars

-----------------------------------------------------------------------------
(* Properties                                                              *)

\* The page shows what is stored, unless a saving that began on an earlier
\* visit has ended since.
ShownIsStored == ~stray => notes = stored

\* While the page shows what is stored, only a deletion takes away a note, and
\* a saving touches no other than its own, unless the list has changed while it
\* was encrypting.
OnlyOverlapLoses ==
  [][ \A i \in DOMAIN stored :
        \/ stray'
        \/ i \in DOMAIN stored' /\ stored'[i] = stored[i]
        \/ handleDelete(i)
        \/ SaveNow /\ i = current
        \/ \E s \in Saves : SaveEnds(s) /\ (saving[s].id = i \/ saving[s].stale) ]_vars

\* Together: what is written is kept, and what is kept is shown.
NotesAreKept == []ShownIsStored /\ OnlyOverlapLoses

=============================================================================
