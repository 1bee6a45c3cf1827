----------------------------- MODULE FilesProofs ------------------------------
(***************************************************************************)
(* Theorems about the encryption of files (E), the erasure page (D), the   *)
(* notes (N), the file splitter (S) and the secure deletion of files, as   *)
(* MCFiles instantiates and extends them, for all values of constants.     *)
(***************************************************************************)
EXTENDS MCFiles, FiniteSetTheorems, SequenceTheorems, WellFoundedInduction, TLAPS

-----------------------------------------------------------------------------
(* Encryption.  One invariant: whoever writes has exclusively created the  *)
(* file, and what an encryption has read is whole, or else there is a      *)
(* sealed copy already that makes it fail.                                 *)


Encrypts(c, at) == kind[c] = "encrypt" /\ encryptionPc[c] = at
Decrypts(c, at) == kind[c] = "decrypt" /\ encryptionPc[c] = at

NeverMangled == sealed # "mangled"

\* An encryption that has read a part will find that it may not create.
ReadIsWhole == \A c \in Calls : Encrypts(c, "read") => encryptionInput[c] = "whole" \/ sealed = "whole"

EncryptionOwns ==
  \A c \in Calls : Encrypts(c, "created") => sealed = "part" /\ encryptionInput[c] = "whole"

OneEncryption == \A c, d \in Calls : Encrypts(c, "created") /\ Encrypts(d, "created") => c = d

\* An original is removed only when its copy is complete.
WrittenIsSealed == \A c \in Calls : Encrypts(c, "written") => sealed = "whole"

OpenedIsWhole ==
  \A c \in Calls : Decrypts(c, "read") \/ Decrypts(c, "created") => encryptionInput[c] = "whole" /\ sealed = "whole"

EncryptionInv ==
  /\ E!TypeOK /\ E!ContentSurvives /\ E!PartsAreWritten
  /\ NeverMangled /\ ReadIsWhole /\ EncryptionOwns /\ OneEncryption
  /\ WrittenIsSealed /\ OpenedIsWhole

\* Before the first request nothing is written, and something is whole.
LEMMA EncryptionInit == E!Init => EncryptionInv
  BY DEF E!Init, EncryptionInv, E!TypeOK, E!ContentSurvives, E!PartsAreWritten, NeverMangled, ReadIsWhole,
         EncryptionOwns, OneEncryption, WrittenIsSealed, OpenedIsWhole, Encrypts, Decrypts

USE DEF EncryptionInv, E!ContentSurvives, E!PartsAreWritten, NeverMangled, ReadIsWhole, EncryptionOwns,
        OneEncryption, WrittenIsSealed, OpenedIsWhole, Encrypts, Decrypts

\* Every step keeps the types.
LEMMA EncryptionTypeStep == E!TypeOK /\ [E!Next]_(E!vars) => E!TypeOK'
  BY DEF E!TypeOK, E!Next, E!vars, E!files, E!Ask, E!Read, E!Create, E!Write, E!WriteFails, E!Finish, E!Crash, E!Goto,
         E!SetTarget, E!Output, E!Discarded, E!Source, E!SourceOf, E!Target, E!TargetOf

\* A request that passes its checks has written nothing yet.
LEMMA AskStep == ASSUME EncryptionInv, NEW c \in Calls, NEW what \in {"encrypt", "decrypt"}, E!Ask(c, what)
                 PROVE  EncryptionInv'
  <1>1. E!TypeOK'
    BY EncryptionTypeStep DEF E!Next
  <1>2. QED
    BY <1>1 DEF E!TypeOK, E!Ask, E!Goto, E!files

\* An encryption that reads a part has a whole copy to thank for it.
LEMMA ReadStep == ASSUME EncryptionInv, NEW c \in Calls, E!Read(c) PROVE EncryptionInv'
  <1>1. E!TypeOK'
    BY EncryptionTypeStep DEF E!Next
  <1>2. QED
    BY <1>1 DEF E!TypeOK, E!Read, E!Opens, E!Goto, E!files, E!Source, E!SourceOf

\* Who creates the output is alone with it.
LEMMA CreateStep == ASSUME EncryptionInv, NEW c \in Calls, E!Create(c) PROVE EncryptionInv'
  <1>1. E!TypeOK'
    BY EncryptionTypeStep DEF E!Next
  <1>2. QED
    BY <1>1 DEF E!TypeOK, E!Create, E!MayCreate, E!Target, E!TargetOf, E!SetTarget, E!Goto, E!files

\* A copy is complete when it is written: what was read was.
LEMMA WriteStep == ASSUME EncryptionInv, NEW c \in Calls, E!Write(c) PROVE EncryptionInv'
  <1>1. E!TypeOK'
    BY EncryptionTypeStep DEF E!Next
  <1>2. QED
    BY <1>1 DEF E!TypeOK, E!Write, E!Output, E!SetTarget, E!Goto

\* What a failed write takes away was a part.
LEMMA WriteFailsStep == ASSUME EncryptionInv, NEW c \in Calls, E!WriteFails(c) PROVE EncryptionInv'
  <1>1. E!TypeOK'
    BY EncryptionTypeStep DEF E!Next
  <1>2. QED
    BY <1>1 DEF E!TypeOK, E!WriteFails, E!Discarded, E!SetTarget, E!Goto

\* The original goes when its copy is whole.
LEMMA FinishStep == ASSUME EncryptionInv, NEW c \in Calls, E!Finish(c) PROVE EncryptionInv'
  <1>1. E!TypeOK'
    BY EncryptionTypeStep DEF E!Next
  <1>2. QED
    BY <1>1 DEF E!TypeOK, E!Finish, E!Goto

\* A crash leaves the files as they are, and forgets the requests.
LEMMA CrashStep == ASSUME EncryptionInv, E!Crash PROVE EncryptionInv'
  <1>1. E!TypeOK'
    BY EncryptionTypeStep DEF E!Next
  <1>2. QED
    BY <1>1 DEF E!TypeOK, E!Crash, E!files

\* Every step keeps the invariant.
LEMMA EncryptionStep == EncryptionInv /\ [E!Next]_(E!vars) => EncryptionInv'
  <1> SUFFICES ASSUME EncryptionInv, [E!Next]_(E!vars) PROVE EncryptionInv'
    OBVIOUS
  <1>1. CASE E!Next
    BY <1>1, AskStep, ReadStep, CreateStep, WriteStep, WriteFailsStep, FinishStep, CrashStep
       DEF E!Next
  <1>2. CASE UNCHANGED E!vars
    BY <1>2 DEF E!vars, E!files, E!TypeOK
  <1>3. QED
    BY <1>1, <1>2

\* The invariant holds in every behaviour.
LEMMA EncryptionInductive == E!Spec => []EncryptionInv
  BY EncryptionInit, EncryptionStep, PTL DEF E!Spec

\* The content is never lost, whatever overlaps, fails or dies, and parts of
\* files are being written, or left by a crash.
THEOREM EncryptionKeepsFiles == E!Spec => []FilesSurvive
  <1>1. EncryptionInv => FilesSurvive
    BY DEF FilesSurvive, E!FilesSurvive
  <1>2. QED
    BY EncryptionInductive, <1>1, PTL

-----------------------------------------------------------------------------
(* The erasure page.  A confirmation is in force only as long as the page  *)
(* is the one it was typed on: whatever fills the list takes it back.      *)

ConfirmedAsShown ==
  confirm /\ selected # {} => typedFor = [input |-> input, selected |-> selected]

PageInv == ErasureWasConfirmed /\ ConfirmedAsShown

\* Edits, answers and failures keep the invariant.
LEMMA PageStep == PageInv /\ [D!Next]_(D!vars) => PageInv'
  <1> SUFFICES ASSUME PageInv, [D!Next]_(D!vars) PROVE PageInv'
    OBVIOUS
  <1> USE DEF PageInv, ErasureWasConfirmed, D!ErasureWasConfirmed, ConfirmedAsShown
  <1>1. ASSUME NEW p \in Paths, D!FilesChange(p) PROVE PageInv'
    BY <1>1 DEF D!FilesChange, D!page, D!history
  <1>2. ASSUME NEW ps \in SUBSET Paths, D!EditPaths(ps) PROVE PageInv'
    BY <1>2 DEF D!EditPaths, D!history
  <1>3. ASSUME NEW typed \in BOOLEAN, D!TypeConfirmation(typed) PROVE PageInv'
    BY <1>3 DEF D!TypeConfirmation
  <1>4. CASE D!handleValidateSecureDelete
    BY <1>4 DEF D!handleValidateSecureDelete, D!history
  <1>5. CASE D!handleSecureDelete
    <2>1. typedFor = [input |-> input, selected |-> selected]
      BY <1>5 DEF D!handleSecureDelete
    <2>2. ASSUME NEW e \in erased' PROVE e.confirmed
      <3>1. CASE e \in erased
        BY <3>1
      <3>2. ASSUME NEW p \in input, e = [path |-> p, confirmed |-> typedFor = [input |-> input, selected |-> selected]]
            PROVE  e.confirmed
        BY <2>1, <3>2
      <3>3. QED
        BY <1>5, <3>1, <3>2 DEF D!handleSecureDelete
    <2>3. ConfirmedAsShown'
      BY <1>5 DEF D!handleSecureDelete
    <2>4. QED
      BY <2>2, <2>3
  <1>6. CASE D!Validated \/ D!ValidationFails
    BY <1>6 DEF D!Validated, D!ValidationFails, D!history
  <1>7. ASSUME NEW ps, D!Erased(ps) \/ D!EraseFails(ps) PROVE PageInv'
    BY <1>7 DEF D!Erased, D!EraseFails, D!history
  <1>8. CASE UNCHANGED D!vars
    BY <1>8 DEF D!vars, D!history
  <1>9. QED
    BY <1>1, <1>2, <1>3, <1>4, <1>5, <1>6, <1>7, <1>8 DEF D!Next

\* Nothing is erased that was not confirmed for the page as it then was, however
\* answers and edits overlap.
THEOREM ErasureIsConfirmed == D!Spec => []ErasureWasConfirmed
  <1>1. D!Init => PageInv
    BY DEF D!Init, PageInv, ErasureWasConfirmed, D!ErasureWasConfirmed, ConfirmedAsShown
  <1>2. PageInv => ErasureWasConfirmed
    BY DEF PageInv
  <1>3. QED
    BY <1>1, <1>2, PageStep, PTL DEF D!Spec

-----------------------------------------------------------------------------
(* The notes.  A saving that encrypts holds the list of the time it began. *)
(* Unless it knows better, that list is what is stored.                    *)

Contents == [text : Texts, seals : Nat]
NoteRecords == [content : Contents, locked : BOOLEAN]
Lists == UNION {[ids -> NoteRecords] : ids \in SUBSET Ids}
Savings == [id : Ids \cup {Nil}, list : Lists, note : NoteRecords, of : Nat, stale : BOOLEAN]

NotesType ==
  /\ stored \in Lists /\ notes \in Lists
  /\ current \in Ids \cup {Nil} /\ content \in Contents \cup {Nil}
  /\ locked \in BOOLEAN /\ password \in BOOLEAN
  /\ saving \in [Saves -> Savings \cup {Nil}]
  /\ visit \in Nat /\ stray \in BOOLEAN

\* A saving of this visit that no change has overtaken holds what is stored.
FreshHoldsStored ==
  \A s \in Saves :
    saving[s] # Nil =>
      /\ saving[s].of <= visit
      /\ ~stray /\ saving[s].of = visit /\ ~saving[s].stale => saving[s].list = stored

NotesInv == NotesType /\ N!ShownIsStored /\ FreshHoldsStored

\* A list is a function from identifiers to notes.
LEMMA ListIsFunction ==
  ASSUME NEW f, f = [i \in DOMAIN f |-> f[i]], DOMAIN f \subseteq Ids, \A i \in DOMAIN f : f[i] \in NoteRecords
  PROVE  f \in Lists
  <1>1. f \in [DOMAIN f -> NoteRecords]
    OBVIOUS
  <1>2. QED
    BY <1>1 DEF Lists

\* And the other way round.
LEMMA FunctionOfList ==
  ASSUME NEW f \in Lists
  PROVE  /\ f = [i \in DOMAIN f |-> f[i]] /\ DOMAIN f \subseteq Ids
         /\ \A i \in DOMAIN f : f[i] \in NoteRecords
  BY DEF Lists

\* Saving a note leaves a list.
LEMMA MergedType ==
  ASSUME NEW list \in Lists, NEW open, NEW i \in Ids, NEW note \in NoteRecords
  PROVE  N!Merged(list, open, i, note) \in Lists
  <1>1. N!With(list, i, note) \in Lists
    <2> DEFINE with == N!With(list, i, note)
    <2>1. with = [j \in DOMAIN with |-> with[j]] /\ DOMAIN with \subseteq Ids
      BY FunctionOfList DEF N!With
    <2>2. \A j \in DOMAIN with : with[j] \in NoteRecords
      BY FunctionOfList DEF N!With
    <2>3. QED
      BY <2>1, <2>2, ListIsFunction
  <1>2. QED
    BY <1>1 DEF N!Merged

\* Saving a note loses no other.
LEMMA MergedKeeps ==
  ASSUME NEW list, NEW open, NEW i, NEW note, NEW j \in DOMAIN list, i # j
  PROVE  /\ j \in DOMAIN N!Merged(list, open, i, note)
         /\ N!Merged(list, open, i, note)[j] = list[j]
  BY DEF N!Merged, N!With

\* A deletion leaves a list, and takes away one note only.
LEMMA DeletionKeeps ==
  ASSUME NEW list \in Lists, NEW i
  PROVE  /\ N!Restrict(list, DOMAIN list \ {i}) \in Lists
         /\ \A j \in DOMAIN list \ {i} :
              /\ j \in DOMAIN N!Restrict(list, DOMAIN list \ {i})
              /\ N!Restrict(list, DOMAIN list \ {i})[j] = list[j]
  <1> DEFINE rest == N!Restrict(list, DOMAIN list \ {i})
  <1>1. rest = [j \in DOMAIN list \ {i} |-> list[j]]
    BY DEF N!Restrict
  <1>2. rest \in Lists
    BY <1>1, FunctionOfList, ListIsFunction
  <1>3. QED
    BY <1>1, <1>2

\* What knows of a change is stale; nothing else about it changes.
LEMMA ChangedIsStale ==
  ASSUME NEW s \in Savings \cup {Nil}
  PROVE  /\ N!Changed(s) \in Savings \cup {Nil}
         /\ N!Changed(s) # Nil => s # Nil /\ N!Changed(s).of = s.of /\ N!Changed(s).stale
  BY DEF N!Changed, Savings

LEMMA NotesInit == N!Init => NotesInv
  <1> SUFFICES ASSUME N!Init PROVE NotesInv
    OBVIOUS
  <1>1. <<>> \in [{} -> NoteRecords]
    OBVIOUS
  <1>2. <<>> \in Lists
    BY <1>1 DEF Lists
  <1>3. QED
    BY <1>2 DEF N!Init, NotesInv, NotesType, N!ShownIsStored, FreshHoldsStored

\* A visit shows what is stored, and no saving that is under way belongs to it.
LEMMA VisitStep == ASSUME NotesInv, N!Visit PROVE NotesInv'
  <1>1. NotesType'
    <2>1. stored' \in Lists /\ notes' \in Lists
      BY DEF NotesInv, NotesType, N!Visit
    <2>2. visit' \in Nat
      BY DEF NotesInv, NotesType, N!Visit
    <2>3. stray' \in BOOLEAN
      BY DEF N!Visit
    <2>4. saving' \in [Saves -> Savings \cup {Nil}]
      BY DEF NotesInv, NotesType, N!Visit
    <2>5. QED
      BY <2>1, <2>2, <2>3, <2>4 DEF NotesType, N!Visit, N!EmptyForm
  <1>2. \A s \in Saves : saving[s] # Nil => saving[s].of \in Nat /\ saving[s].of <= visit
    BY DEF NotesInv, NotesType, FreshHoldsStored, Savings
  <1>3. FreshHoldsStored'
    BY <1>2 DEF NotesInv, NotesType, FreshHoldsStored, N!Visit
  <1>4. QED
    BY <1>1, <1>3 DEF NotesInv, N!ShownIsStored, N!Visit

\* The form is not the list.
LEMMA FormStep ==
  ASSUME NotesInv, N!Type \/ N!resetForm \/ (\E i \in Ids : N!OpenNote(i)) PROVE NotesInv'
  <1> USE DEF NotesInv, N!ShownIsStored, FreshHoldsStored
  <1>1. CASE N!Type
    BY <1>1 DEF NotesType, N!Type, N!Typed, Contents
  <1>2. CASE N!resetForm
    BY <1>2 DEF NotesType, N!resetForm, N!EmptyForm
  <1>3. ASSUME NEW i \in Ids, N!OpenNote(i) PROVE NotesInv'
    <2>1. notes[i] \in NoteRecords
      BY <1>3, FunctionOfList DEF NotesType, N!OpenNote
    <2>2. QED
      BY <1>3, <2>1 DEF NotesType, N!OpenNote, N!Act, NoteRecords
  <1>4. QED
    BY <1>1, <1>2, <1>3

\* A saving that begins takes the list that is shown.
LEMMA SaveBeginsStep == ASSUME NotesInv, NEW s \in Saves, N!SaveBegins(s) PROVE NotesInv'
  <1> USE DEF NotesInv
  <1> DEFINE new == [id |-> current, list |-> notes, note |-> N!Note(N!encryptContent(content)),
                     of |-> visit, stale |-> FALSE]
  <1>1. new \in Savings
    BY DEF NotesType, N!SaveBegins, N!Note, N!encryptContent, Contents, NoteRecords, Savings
  <1>2. saving' = [saving EXCEPT ![s] = new] /\ UNCHANGED <<stored, notes, N!form, visit, stray>>
    BY DEF N!SaveBegins
  <1>3. NotesType'
    BY <1>1, <1>2 DEF NotesType, N!form
  <1>4. FreshHoldsStored'
    BY <1>2 DEF NotesType, FreshHoldsStored, N!ShownIsStored
  <1>5. QED
    BY <1>2, <1>3, <1>4 DEF N!ShownIsStored

\* What the page stores, it shows, and the savings under way are stale.
LEMMA StoredStep ==
  ASSUME NotesInv, NEW list \in Lists, N!saveNotes(list, visit),
         saving' = [s \in Saves |-> N!Changed(saving[s])], UNCHANGED visit
  PROVE  /\ notes' \in Lists /\ stored' \in Lists /\ stray' \in BOOLEAN /\ visit' \in Nat
         /\ saving' \in [Saves -> Savings \cup {Nil}]
         /\ N!ShownIsStored' /\ FreshHoldsStored'
  <1>1. saving' \in [Saves -> Savings \cup {Nil}]
    BY ChangedIsStale DEF NotesInv, NotesType
  <1>2. FreshHoldsStored'
    BY ChangedIsStale DEF NotesInv, NotesType, FreshHoldsStored
  <1>3. QED
    BY <1>1, <1>2 DEF NotesInv, NotesType, N!ShownIsStored, N!saveNotes

LEMMA SaveNowStep == ASSUME NotesInv, N!SaveNow PROVE NotesInv'
  <1>1. PICK i \in N!IdsOf(current) : N!saveNotes(N!Merged(notes, current, i, N!Note(content)), visit)
    BY DEF N!SaveNow
  <1>2. i \in Ids
    BY DEF N!IdsOf, N!Free, NotesInv, NotesType
  <1>3. N!Note(content) \in NoteRecords
    BY DEF N!SaveNow, N!Note, NoteRecords, NotesInv, NotesType
  <1>4. N!Merged(notes, current, i, N!Note(content)) \in Lists
    BY <1>2, <1>3, MergedType DEF NotesInv, NotesType
  <1>5. QED
    BY <1>1, <1>4, StoredStep DEF N!SaveNow, N!EmptyForm, NotesInv, NotesType

LEMMA DeleteStep == ASSUME NotesInv, NEW i \in Ids, N!handleDelete(i) PROVE NotesInv'
  <1>1. N!Restrict(notes, DOMAIN notes \ {i}) \in Lists
    BY DeletionKeeps DEF NotesInv, NotesType
  <1>2. QED
    BY <1>1, StoredStep DEF N!handleDelete, N!form, NotesInv, NotesType

\* A saving that ends in its visit stores as the page would; one that outlived
\* its visit makes a stray.
LEMMA SaveEndsStep == ASSUME NotesInv, NEW s \in Saves, N!SaveEnds(s) PROVE NotesInv'
  <1> DEFINE r == saving[s]
  <1>1. r \in Savings
    BY DEF N!SaveEnds, NotesInv, NotesType
  <1>2. PICK i \in N!IdsOf(r.id) : N!saveNotes(N!Merged(r.list, r.id, i, r.note), r.of)
    BY DEF N!SaveEnds
  <1>3. i \in Ids
    BY <1>1 DEF N!IdsOf, N!Free, Savings
  <1>4. N!Merged(r.list, r.id, i, r.note) \in Lists
    BY <1>1, <1>3, MergedType DEF Savings
  <1>5. saving' \in [Saves -> Savings \cup {Nil}]
    BY ChangedIsStale DEF N!SaveEnds, NotesInv, NotesType
  <1>6. NotesType'
    BY <1>2, <1>4, <1>5 DEF N!SaveEnds, N!saveNotes, N!EmptyForm, N!form, NotesInv, NotesType
  <1>7. N!ShownIsStored'
    BY <1>2 DEF N!SaveEnds, N!saveNotes, N!ShownIsStored, NotesInv, NotesType
  <1>8. ASSUME NEW t \in Saves, saving'[t] # Nil
        PROVE  saving[t] # Nil /\ saving'[t].of = saving[t].of /\ saving'[t].stale
    BY <1>8, ChangedIsStale DEF N!SaveEnds, NotesInv, NotesType
  <1>9. FreshHoldsStored'
    BY <1>8 DEF N!SaveEnds, FreshHoldsStored, NotesInv
  <1>10. QED
    BY <1>6, <1>7, <1>9 DEF NotesInv

\* Every step keeps the invariant.
LEMMA NotesStep == NotesInv /\ [N!Next]_(N!vars) => NotesInv'
  <1> SUFFICES ASSUME NotesInv, [N!Next]_(N!vars) PROVE NotesInv'
    OBVIOUS
  <1>1. CASE UNCHANGED N!vars
    BY <1>1 DEF N!vars, N!form, NotesInv, NotesType, N!ShownIsStored, FreshHoldsStored
  <1>2. QED
    BY <1>1, VisitStep, FormStep, SaveNowStep, DeleteStep, SaveBeginsStep, SaveEndsStep DEF N!Next

\* A note other than the one that is saved stays as it is.
LEMMA OthersStay ==
  ASSUME NEW list, NEW open, NEW i \in N!IdsOf(open), NEW note, list = stored,
         NEW j \in DOMAIN stored, j # open, stored' = N!Merged(list, open, i, note)
  PROVE  j \in DOMAIN stored' /\ stored'[j] = stored[j]
  <1>1. i # j
    BY DEF N!IdsOf, N!Free
  <1>2. QED
    BY <1>1, MergedKeeps

\* No step takes more than it should.
LEMMA OverlapStep ==
  ASSUME NotesInv, [N!Next]_(N!vars), NEW i \in DOMAIN stored
  PROVE  \/ stray'
         \/ i \in DOMAIN stored' /\ stored'[i] = stored[i]
         \/ N!handleDelete(i)
         \/ N!SaveNow /\ i = current
         \/ \E s \in Saves : N!SaveEnds(s) /\ (saving[s].id = i \/ saving[s].stale)
  <1>1. CASE N!SaveNow /\ i # current /\ ~stray'
    <2>1. PICK j \in N!IdsOf(current) : N!saveNotes(N!Merged(notes, current, j, N!Note(content)), visit)
      BY <1>1 DEF N!SaveNow
    <2>2. notes = stored
      BY <1>1, <2>1 DEF N!saveNotes, NotesInv, N!ShownIsStored
    <2>3. QED
      BY <2>1, <2>2, <1>1, OthersStay DEF N!saveNotes
  <1>2. ASSUME NEW s \in Saves, N!SaveEnds(s), saving[s].id # i, ~saving[s].stale, ~stray'
        PROVE  i \in DOMAIN stored' /\ stored'[i] = stored[i]
    <2> DEFINE r == saving[s]
    <2>1. PICK j \in N!IdsOf(r.id) : N!saveNotes(N!Merged(r.list, r.id, j, r.note), r.of)
      BY <1>2 DEF N!SaveEnds
    <2>2. ~stray /\ r.of = visit
      BY <1>2, <2>1 DEF N!saveNotes
    <2>3. r.list = stored
      BY <1>2, <2>2 DEF N!SaveEnds, NotesInv, FreshHoldsStored
    <2>4. QED
      BY <2>1, <2>3, <1>2, OthersStay DEF N!saveNotes
  <1>3. ASSUME NEW j \in Ids, N!handleDelete(j), i # j, ~stray'
        PROVE  i \in DOMAIN stored' /\ stored'[i] = stored[i]
    <2>1. notes = stored
      BY <1>3 DEF N!handleDelete, N!saveNotes, NotesInv, N!ShownIsStored
    <2>2. stored' = N!Restrict(notes, DOMAIN notes \ {j}) /\ notes \in Lists
      BY <1>3 DEF N!handleDelete, N!saveNotes, NotesInv, NotesType
    <2>3. i \in DOMAIN notes \ {j}
      BY <1>3, <2>1
    <2>4. /\ i \in DOMAIN N!Restrict(notes, DOMAIN notes \ {j})
          /\ N!Restrict(notes, DOMAIN notes \ {j})[i] = notes[i]
      BY <2>2, <2>3, DeletionKeeps
    <2>5. QED
      BY <2>1, <2>2, <2>4
  <1>4. CASE N!Visit \/ N!Type \/ N!resetForm \/ UNCHANGED N!vars
    BY <1>4 DEF N!Visit, N!Type, N!resetForm, N!vars
  <1>5. ASSUME NEW j \in Ids, N!OpenNote(j) PROVE stored' = stored
    BY <1>5 DEF N!OpenNote
  <1>6. ASSUME NEW s \in Saves, N!SaveBegins(s) PROVE stored' = stored
    BY <1>6 DEF N!SaveBegins
  <1>7. QED
    BY <1>1, <1>2, <1>3, <1>4, <1>5, <1>6 DEF N!Next

\* While the page shows what is stored, notes are lost to deletions only and to
\* savings that knew them no longer, for any number of notes, texts and
\* savings that overlap.
THEOREM NotesStay == N!Spec => NotesAreKept
  <1>1. N!Spec => []NotesInv
    BY NotesInit, NotesStep, PTL DEF N!Spec
  <1>2. NotesInv => N!ShownIsStored
    BY DEF NotesInv
  <1>3. NotesInv /\ [N!Next]_(N!vars) => [\A i \in DOMAIN stored :
        \/ stray'
        \/ i \in DOMAIN stored' /\ stored'[i] = stored[i]
        \/ N!handleDelete(i)
        \/ N!SaveNow /\ i = current
        \/ \E s \in Saves : N!SaveEnds(s) /\ (saving[s].id = i \/ saving[s].stale)]_(N!vars)
    BY OverlapStep
  <1>4. QED
    BY <1>1, <1>2, <1>3, PTL DEF N!Spec, NotesAreKept, N!NotesAreKept, N!OnlyOverlapLoses

-----------------------------------------------------------------------------
(* The splitter.  The parts on show are always one cut of the chosen file. *)

\* Induction, over a set instead of a property.
LEMMA SetInduction ==
  ASSUME NEW good, 0 \in good, \A n \in Nat : n \in good => n + 1 \in good
  PROVE  Nat \subseteq good
  <1> DEFINE bad  == Nat \ good
             down == {1..n : n \in bad}
             less == StrictSubsetOrdering(Nat)
             all  == FiniteSubsetsOf(Nat)
  <1> SUFFICES ASSUME bad # {} PROVE FALSE
    OBVIOUS
  <1>1. down \subseteq all /\ down # {}
    <2>1. ASSUME NEW n \in bad PROVE 1..n \in all
      <3>1. n \in Int /\ 1..n \subseteq Nat
        OBVIOUS
      <3>2. IsFiniteSet(1..n)
        BY <3>1, FS_Interval
      <3>3. QED
        BY <3>1, <3>2 DEF FiniteSubsetsOf
    <2>2. QED
      BY <2>1
  <1>2. IsWellFoundedOn(less, all)
    BY FS_StrictSubsetOrderingWellFounded
  <1>3. \E x \in down : \A y \in down : <<y, x>> \notin less
    <2> HIDE DEF down, less, all
    <2>1. QED
      BY <1>1, <1>2, WFMin
  <1>4. PICK n \in bad : \A y \in down : <<y, 1..n>> \notin less
    BY <1>3
  <1>5. n # 0 /\ n - 1 \in bad
    <2>1. n # 0
      OBVIOUS
    <2>2. n - 1 \in Nat /\ (n - 1) + 1 = n
      BY <2>1
    <2>3. QED
      BY <2>1, <2>2
  <1>6. 1..(n - 1) \in down
    BY <1>5
  <1>7. <<1..(n - 1), 1..n>> \in less
    <2>1. n \in 1..n /\ n \notin 1..(n - 1) /\ 1..(n - 1) \subseteq 1..n /\ 1..n \subseteq Nat
      BY <1>5
    <2>2. QED
      BY <2>1 DEF StrictSubsetOrdering
  <1>8. QED
    BY <1>4, <1>6, <1>7

\* Part i of a file of size n that is cut into parts of size c, and the cut.
End(n, c, i) == IF i * c < n THEN i * c ELSE n
Part(n, c, i) == SubSeq(S!Bytes(n), (i - 1) * c + 1, End(n, c, i))
Cut(n, c) == [i \in 1..((n + c - 1) \div c) |-> Part(n, c, i)]

\* The parts are as many as are needed, and the last is not empty.
LEMMA CutEnds ==
  ASSUME NEW n \in Nat, NEW c \in Nat \ {0}, NEW t, t = (n + c - 1) \div c
  PROVE  t \in Nat /\ t * c >= n /\ (t # 0 => (t - 1) * c < n) /\ (t = 0 => n = 0)
  <1>1. n + c - 1 \in Nat
    OBVIOUS
  <1>2. t \in Int /\ c * t <= n + c - 1 /\ n + c - 1 < c * t + c
    BY <1>1
  <1>3. t * c = c * t /\ (t - 1) * c = c * t - c
    BY <1>2
  <1>4. t \in Nat
    BY <1>2
  <1>5. t = 0 => c * t = 0
    OBVIOUS
  <1>6. QED
    BY <1>2, <1>3, <1>4, <1>5

\* The bytes of a file as a sequence.
Alphabet == Nat \X Nat

LEMMA BytesType ==
  ASSUME NEW n \in Nat
  PROVE  /\ S!Bytes(n) \in Seq(Alphabet) /\ Len(S!Bytes(n)) = n
         /\ \A b \in 1..n : S!Bytes(n)[b] = <<n, b>>
  <1>1. S!Bytes(n) \in [1..n -> Alphabet]
    BY DEF S!Bytes, Alphabet
  <1>2. QED
    BY <1>1, SeqDef, LenProperties DEF S!Bytes

\* A part holds bytes of its file only.
LEMMA PartOfFile ==
  ASSUME NEW n \in Nat, NEW c \in Nat \ {0}, NEW i \in 1..((n + c - 1) \div c)
  PROVE  \A b \in DOMAIN Part(n, c, i) : Part(n, c, i)[b][1] = n
  <1> DEFINE from == (i - 1) * c + 1
             to   == End(n, c, i)
  <1>1. from \in Nat \ {0} /\ to \in Nat /\ to <= n
    <2>1. i \in Nat \ {0} /\ i - 1 \in Nat
      BY CutEnds
    <2>2. i * c \in Nat /\ (i - 1) * c \in Nat
      BY <2>1
    <2>3. QED
      BY <2>2 DEF End
  <1> HIDE DEF from, to
  <1>2. \A j \in from..to : S!Bytes(n)[j] = <<n, j>> /\ S!Bytes(n)[j] \in Alphabet
    <2>1. ASSUME NEW j \in from..to PROVE j \in 1..n /\ <<n, j>> \in Alphabet
      BY <1>1 DEF Alphabet
    <2>2. \A j \in 1..n : S!Bytes(n)[j] = <<n, j>>
      BY BytesType
    <2>3. QED
      BY <2>1, <2>2
  <1>3. /\ SubSeq(S!Bytes(n), from, to) \in Seq(Alphabet)
        /\ Len(SubSeq(S!Bytes(n), from, to)) = IF from <= to THEN to - from + 1 ELSE 0
        /\ \A b \in 1..(to - from + 1) : SubSeq(S!Bytes(n), from, to)[b] = S!Bytes(n)[from + b - 1]
    BY <1>1, <1>2, SubSeqProperties
  <1>4. DOMAIN SubSeq(S!Bytes(n), from, to) = 1..Len(SubSeq(S!Bytes(n), from, to))
    BY <1>3, LenProperties
  <1>5. ASSUME NEW b \in DOMAIN SubSeq(S!Bytes(n), from, to)
        PROVE  SubSeq(S!Bytes(n), from, to)[b][1] = n
    <2>1. b \in 1..(to - from + 1) /\ from + b - 1 \in from..to
      BY <1>1, <1>3, <1>4
    <2>2. QED
      BY <2>1, <1>2, <1>3
  <1>6. QED
    BY <1>5 DEF Part, from, to

LEMMA SplitIsCut ==
  ASSUME NEW n \in Nat, NEW c \in Nat \ {0}
  PROVE  S!Split(n, c) = Cut(n, c)
  <1>1. ASSUME NEW i \in 1..((n + c - 1) \div c)
        PROVE  S!Piece(n, c, i) = Part(n, c, i)
    <2>1. i \in Nat /\ (i - 1) * c + c = i * c
      BY CutEnds
    <2>2. QED
      BY <2>1 DEF S!Piece, Part, End
  <1>2. QED
    BY <1>1 DEF S!Split, S!totalChunks, Cut

\* Two parts that follow each other continue each other.
LEMMA PartsContinue ==
  ASSUME NEW n \in Nat, NEW c \in Nat \ {0}, NEW i \in 2..((n + c - 1) \div c)
  PROVE  SubSeq(S!Bytes(n), 1, End(n, c, i - 1)) \o Part(n, c, i) = SubSeq(S!Bytes(n), 1, End(n, c, i))
  <1> DEFINE t == (n + c - 1) \div c
  <1>1. t \in Nat /\ t # 0 /\ (t - 1) * c < n
    BY CutEnds
  <1>2. i \in Nat /\ 1 < i /\ i <= t
    BY <1>1
  <1>3. (i - 1) * c <= (t - 1) * c /\ (i - 1) * c \in Nat /\ i * c = (i - 1) * c + c
    BY <1>1, <1>2
  <1>4. End(n, c, i - 1) = (i - 1) * c /\ End(n, c, i - 1) <= End(n, c, i) /\ End(n, c, i) <= n
        /\ End(n, c, i) \in Nat /\ End(n, c, i - 1) \in Nat
    BY <1>1, <1>3 DEF End
  <1>5. SubSeq(S!Bytes(n), 1, End(n, c, i - 1)) \o SubSeq(S!Bytes(n), End(n, c, i - 1) + 1, End(n, c, i))
          = SubSeq(S!Bytes(n), 1, End(n, c, i))
    <2>1. S!Bytes(n) \in Seq(Alphabet) /\ Len(S!Bytes(n)) = n
      BY BytesType
    <2>2. /\ 1 \in 1..(Len(S!Bytes(n)) + 1) /\ End(n, c, i - 1) \in (1 - 1)..Len(S!Bytes(n))
          /\ End(n, c, i) \in End(n, c, i - 1)..Len(S!Bytes(n))
      BY <1>4, <2>1
    <2> DEFINE k == End(n, c, i - 1)
               l == End(n, c, i)
               bytes == S!Bytes(n)
    <2> HIDE DEF k, l, bytes
    <2>3. SubSeq(bytes, 1, k) \o SubSeq(bytes, k + 1, l) = SubSeq(bytes, 1, l)
      <3>1. bytes \in Seq(Alphabet) /\ 1 \in 1..(Len(bytes) + 1) /\ k \in (1 - 1)..Len(bytes) /\ l \in k..Len(bytes)
        BY <2>1, <2>2 DEF k, l, bytes
      <3>2. QED
        BY <3>1, ConcatAdjacentSubSeq, SMTT(30)
    <2>4. QED
      BY <2>3 DEF k, l, bytes
  <1>6. QED
    BY <1>4, <1>5 DEF Part

\* The parts of a cut, one after the other, are the file.
LEMMA CutRestores ==
  ASSUME NEW n \in Nat, NEW c \in Nat \ {0}, Cut(n, c) # <<>>
  PROVE  S!FlattenSeq(Cut(n, c)) = S!Bytes(n)
  <1> DEFINE t == (n + c - 1) \div c
             joined == [i \in 1..t |-> SubSeq(S!Bytes(n), 1, End(n, c, i))]
             Adds(f) == f = [i \in 1..t |-> IF i = 1 THEN Cut(n, c)[i] ELSE f[i - 1] \o Cut(n, c)[i]]
  <1>1. t \in Nat /\ t * c >= n
    BY CutEnds
  <1>2. t # 0
    BY <1>1 DEF Cut
  <1>3. Len(Cut(n, c)) = t
    BY <1>1 DEF Cut
  <1>4. \A i \in 1..t : Cut(n, c)[i] = Part(n, c, i)
    BY DEF Cut
  <1>5. t \in 1..t /\ End(n, c, t) = n
    BY <1>1, <1>2 DEF End
  <1> HIDE DEF t
  <1>6. Adds(joined)
    <2>1. SubSeq(S!Bytes(n), 1, End(n, c, 1)) = Part(n, c, 1)
      <3>1. (1 - 1) * c + 1 = 1
        OBVIOUS
      <3>2. QED
        BY <3>1 DEF Part
    <2>2. ASSUME NEW i \in 1..t, i # 1 PROVE joined[i] = joined[i - 1] \o Cut(n, c)[i]
      <3>1. i \in 2..t /\ i - 1 \in 1..t
        BY <1>1, <2>2
      <3>2. QED
        BY <3>1, <1>4, PartsContinue DEF t
    <2>3. QED
      BY <2>1, <2>2, <1>4
  <1>7. ASSUME NEW f, Adds(f) PROVE f[t] = joined[t]
    <2> DEFINE good == {k \in Nat : k \in 1..t => f[k] = joined[k]}
    <2>1. 0 \in good
      BY <1>1
    <2>2. ASSUME NEW k \in Nat, k \in good PROVE k + 1 \in good
      <3> SUFFICES ASSUME k + 1 \in 1..t PROVE f[k + 1] = joined[k + 1]
        OBVIOUS
      <3> HIDE DEF joined
      <3>1. CASE k = 0
        BY <1>6, <1>7, <3>1
      <3>2. CASE k # 0
        <4>1. k \in 1..t /\ k + 1 # 1 /\ (k + 1) - 1 = k
          BY <1>1, <3>2
        <4>2. f[k] = joined[k]
          BY <2>2, <4>1
        <4>3. f[k + 1] = f[k] \o Cut(n, c)[k + 1] /\ joined[k + 1] = joined[k] \o Cut(n, c)[k + 1]
          BY <1>6, <1>7, <4>1
        <4>4. QED
          BY <4>2, <4>3
      <3>3. QED
        BY <3>1, <3>2
    <2> HIDE DEF good
    <2>3. Nat \subseteq good
      BY <2>1, <2>2, SetInduction
    <2>4. QED
      BY <2>3, <1>1, <1>5 DEF good
  <1>8. S!FlattenSeq(Cut(n, c)) = (CHOOSE f : Adds(f))[t]
    BY <1>2, <1>3 DEF S!FlattenSeq
  <1>9. S!FlattenSeq(Cut(n, c)) = joined[t]
    <2> HIDE DEF Adds, joined
    <2>1. Adds(CHOOSE f : Adds(f))
      BY <1>6
    <2>2. QED
      BY <2>1, <1>7, <1>8
  <1>10. QED
    BY <1>5, <1>9, BytesType, SubSeqFull

\* Files have sizes, parts have a positive size, of which one is the largest.
SplitterConstants ==
  /\ Sizes \subseteq Nat /\ Nil \notin Sizes
  /\ ChunkSizes \subseteq Nat \ {0} /\ \E c \in ChunkSizes : \A d \in ChunkSizes : d <= c

SplitterInv ==
  /\ file \in Sizes \cup {Nil} /\ chunkSize \in ChunkSizes
  /\ chunks # <<>> => file \in Sizes /\ \E c \in ChunkSizes : chunks = Cut(file, c)
  /\ S!PartsAreOfTheirFile

LEMMA SplitterStep ==
  ASSUME SplitterConstants, SplitterInv, [S!Next]_(S!vars) PROVE SplitterInv'
  <1> USE DEF SplitterInv
  <1>1. CASE S!ChooseFile
    BY <1>1 DEF S!ChooseFile, S!KeptParts, S!PartsAreOfTheirFile
  <1>2. CASE S!TypeSize
    BY <1>2 DEF S!TypeSize, S!PartsAreOfTheirFile
  <1>3. CASE S!handleSplit
    <2>1. file \in Sizes /\ UNCHANGED <<file, chunkSize, splitterDisk>>
      BY <1>3 DEF S!handleSplit
    <2>2. chunks' = Cut(file, chunkSize)
      BY <1>3, <2>1, SplitIsCut DEF S!handleSplit, SplitterConstants
    <2>3. QED
      BY <2>1, <2>2 DEF S!PartsAreOfTheirFile
  <1>4. ASSUME NEW i \in DOMAIN chunks, S!downloadChunk(i) PROVE SplitterInv'
    <2>1. chunks # <<>>
      BY <1>4
    <2>2. PICK c \in ChunkSizes : chunks = Cut(file, c)
      BY <2>1
    <2>3. i \in 1..((file + c - 1) \div c) /\ chunks[i] = Part(file, c, i)
      BY <1>4, <2>2 DEF Cut
    <2>4. \A b \in DOMAIN chunks[i] : chunks[i][b][1] = file
      BY <2>1, <2>3, PartOfFile DEF SplitterConstants
    <2>5. S!PartsAreOfTheirFile'
      BY <1>4, <2>4 DEF S!downloadChunk, S!Download, S!PartsAreOfTheirFile
    <2>6. QED
      BY <1>4, <2>5 DEF S!downloadChunk
  <1>5. CASE UNCHANGED S!vars
    BY <1>5 DEF S!vars, S!PartsAreOfTheirFile
  <1>6. QED
    BY <1>1, <1>2, <1>3, <1>4, <1>5 DEF S!Next

LEMMA SplitterInductive == ASSUME SplitterConstants PROVE S!Spec => []SplitterInv
  <1>1. S!Init => SplitterInv
    BY DEF S!Init, SplitterInv, SplitterConstants, S!PartsAreOfTheirFile
  <1>2. SplitterInv /\ [S!Next]_(S!vars) => SplitterInv'
    BY SplitterStep
  <1>3. QED
    BY <1>1, <1>2, PTL DEF S!Spec

\* A download holds bytes of the file that it is named for, whatever was
\* chosen, typed or cut before.
THEOREM DownloadsKeepTheirFile ==
  ASSUME SplitterConstants PROVE S!Spec => []S!PartsAreOfTheirFile
  <1>1. SplitterInv => S!PartsAreOfTheirFile
    BY DEF SplitterInv
  <1>2. QED
    BY SplitterInductive, <1>1, PTL

\* The parts on show, put together, are the file that was cut, byte by byte, for
\* every size of a file and of a part.
THEOREM PartsMakeTheFile ==
  ASSUME SplitterConstants PROVE S!Spec => []S!PartsAreWhole
  <1>1. SplitterInv => S!PartsAreWhole
    BY CutRestores DEF SplitterInv, S!PartsAreWhole, SplitterConstants
  <1>2. QED
    BY SplitterInductive, <1>1, PTL

\* A numbering that grows is the one that counts.
LEMMA GrowingCounts ==
  ASSUME NEW t \in Nat, NEW k \in [1..t -> 1..t], \A i, j \in 1..t : i < j => k[i] < k[j]
  PROVE  \A i \in 1..t : k[i] = i
  <1> DEFINE low  == {i \in Nat : i \in 1..t => k[i] >= i}
             high == {d \in Nat : t - d \in 1..t => k[t - d] <= t - d}
  <1>1. Nat \subseteq low
    <2>1. 0 \in low
      OBVIOUS
    <2>2. ASSUME NEW i \in Nat, i \in low PROVE i + 1 \in low
      <3> SUFFICES ASSUME i + 1 \in 1..t PROVE k[i + 1] >= i + 1
        OBVIOUS
      <3>1. CASE i = 0
        BY <3>1
      <3>2. CASE i # 0
        <4>1. i \in 1..t /\ k[i] >= i /\ k[i] < k[i + 1]
          BY <2>2, <3>2
        <4>2. QED
          BY <4>1
      <3>3. QED
        BY <3>1, <3>2
    <2> HIDE DEF low
    <2>3. QED
      BY <2>1, <2>2, SetInduction
  <1>2. Nat \subseteq high
    <2>1. 0 \in high
      OBVIOUS
    <2>2. ASSUME NEW d \in Nat, d \in high PROVE d + 1 \in high
      <3> SUFFICES ASSUME t - (d + 1) \in 1..t PROVE k[t - (d + 1)] <= t - (d + 1)
        OBVIOUS
      <3>1. t - d \in 1..t /\ k[t - d] <= t - d /\ k[t - (d + 1)] < k[t - d]
        BY <2>2
      <3>2. QED
        BY <3>1
    <2> HIDE DEF high
    <2>3. QED
      BY <2>1, <2>2, SetInduction
  <1>3. ASSUME NEW i \in 1..t PROVE k[i] = i
    <2>1. i \in low /\ t - i \in high /\ t - (t - i) = i
      BY <1>1, <1>2
    <2>2. QED
      BY <2>1
  <1>4. QED
    BY <1>3

\* The first t parts of a cut of file n, once they are downloaded, in order.
Downloaded(n, cut, t) == [i \in 1..t |-> S!Download(n, i, cut[i])]
Downloads(n, cut, t)  == {Downloaded(n, cut, t)[i] : i \in 1..t}

\* There are as many parts as numbers.
LEMMA PartsCount ==
  ASSUME NEW n, NEW cut, NEW t \in Nat
  PROVE  S!Cardinality(Downloads(n, cut, t)) = t
  <1> DEFINE all == Downloads(n, cut, t)
             d == Downloaded(n, cut, t)
  <1>1. \A i \in 1..t : d[i].part = i
    BY DEF Downloaded, S!Download
  <1>2. DOMAIN d = 1..t /\ d = [i \in 1..t |-> d[i]] /\ all = {d[i] : i \in 1..t}
    BY DEF Downloaded, Downloads
  <1> HIDE DEF all, d
  <1>3. d \in Bijection(1..t, all)
    BY <1>1, <1>2 DEF Bijection, Injection, Surjection, IsInjective
  <1>4. ExistsBijection(1..t, all)
    BY <1>3 DEF ExistsBijection
  <1>5. Cardinality(all) = t
    BY <1>4, FS_CountingElements
  <1>6. S!Cardinality(all) = t
    BY <1>5 DEF S!Cardinality, Cardinality
  <1>7. QED
    BY <1>6 DEF all

\* Up to nine parts of one cut are sorted by their numbers.
LEMMA CutIsSorted ==
  ASSUME NEW n \in Nat, NEW cut, NEW t \in 1..9
  PROVE  S!Sorted(Downloads(n, cut, t)) = Downloaded(n, cut, t)
  <1> DEFINE d == Downloaded(n, cut, t)
             chosen == Downloads(n, cut, t)
             Grows(s) == \A i, j \in DOMAIN s : i < j => S!Before(s[i], s[j])
  <1>1. \A i, j \in 1..t : /\ d[i].part = i
                           /\ S!Before(d[i], d[j]) <=> i < j
    BY DEF Downloaded, S!Download, S!Before, S!Lead
  <1>2. DOMAIN d = 1..t /\ d = [i \in 1..t |-> d[i]] /\ chosen = {d[i] : i \in 1..t}
    BY DEF Downloaded, Downloads
  <1>3. S!Cardinality(chosen) = t
    BY PartsCount
  <1> HIDE DEF d, chosen
  <1>4. d \in [1..t -> chosen] /\ Grows(d)
    BY <1>1, <1>2
  <1>5. ASSUME NEW s \in [1..t -> chosen], Grows(s) PROVE s = d
    <2> DEFINE k == [i \in 1..t |-> s[i].part]
    <2>1. \A i \in 1..t : s[i].part \in 1..t /\ s[i] = d[s[i].part]
      <3> SUFFICES ASSUME NEW i \in 1..t PROVE s[i].part \in 1..t /\ s[i] = d[s[i].part]
        OBVIOUS
      <3>1. PICK j \in 1..t : s[i] = d[j]
        BY <1>2
      <3>2. QED
        BY <1>1, <3>1
    <2>2. \A i, j \in 1..t : i < j => s[i].part < s[j].part
      <3> SUFFICES ASSUME NEW i \in 1..t, NEW j \in 1..t, i < j PROVE s[i].part < s[j].part
        OBVIOUS
      <3>1. S!Before(d[s[i].part], d[s[j].part])
        BY <1>5, <2>1
      <3>2. QED
        BY <1>1, <2>1, <3>1
    <2>3. k \in [1..t -> 1..t] /\ \A i, j \in 1..t : i < j => k[i] < k[j]
      BY <2>1, <2>2
    <2>4. \A i \in 1..t : k[i] = s[i].part
      OBVIOUS
    <2> HIDE DEF k
    <2>5. \A i \in 1..t : k[i] = i
      <3>1. t \in Nat
        OBVIOUS
      <3>2. QED
        BY <2>3, <3>1, GrowingCounts
    <2>6. \A i \in 1..t : s[i] = d[i]
      BY <2>1, <2>4, <2>5
    <2>7. QED
      BY <1>2, <2>6
  <1> HIDE DEF Grows
  <1>6. S!Sorted(chosen) = CHOOSE s \in [1..t -> chosen] : Grows(s)
    BY <1>3 DEF S!Sorted, Grows
  <1>7. S!Sorted(chosen) = d
    BY <1>4, <1>5, <1>6
  <1>8. QED
    BY <1>7 DEF d, chosen

\* What was split, downloaded and joined is the file again.
LEMMA JoinedRestores ==
  ASSUME SplitterConstants PROVE S!JoinRestores
  <1> SUFFICES ASSUME NEW n \in Sizes, NEW c \in ChunkSizes, NEW chosen,
                      chosen = {S!Download(n, i, S!Split(n, c)[i]) : i \in DOMAIN S!Split(n, c)},
                      chosen # {}, S!Cardinality(chosen) < 10
               PROVE  S!Joined(chosen) = S!Bytes(n)
    BY DEF S!JoinRestores
  <1> DEFINE cut == Cut(n, c)
             t == (n + c - 1) \div c
  <1>1. n \in Nat /\ c \in Nat \ {0}
    BY DEF SplitterConstants
  <1>2. S!Split(n, c) = cut /\ DOMAIN cut = 1..t /\ t \in Nat /\ cut = [i \in 1..t |-> cut[i]]
    BY <1>1, SplitIsCut, CutEnds DEF Cut
  <1> HIDE DEF cut, t
  <1>3. chosen = Downloads(n, cut, t)
    BY <1>2 DEF Downloads, Downloaded
  <1>4. t # 0 /\ cut # <<>>
    <2>1. t # 0
      BY <1>3 DEF Downloads
    <2>2. 1 \in DOMAIN cut
      BY <1>2, <2>1
    <2>3. QED
      BY <2>1, <2>2
  <1>5. t < 10
    BY <1>2, <1>3, PartsCount
  <1>6. S!Sorted(chosen) = Downloaded(n, cut, t)
    <2>1. t \in 1..9
      BY <1>2, <1>4, <1>5
    <2>2. QED
      BY <1>1, <1>3, <2>1, CutIsSorted
  <1>7. [i \in DOMAIN S!Sorted(chosen) |-> S!Sorted(chosen)[i].data] = cut
    <2>1. DOMAIN S!Sorted(chosen) = 1..t /\ \A i \in 1..t : S!Sorted(chosen)[i].data = cut[i]
      <3>1. DOMAIN Downloaded(n, cut, t) = 1..t /\ \A i \in 1..t : Downloaded(n, cut, t)[i].data = cut[i]
        BY DEF Downloaded, S!Download
      <3>2. QED
        BY <1>6, <3>1
    <2>2. QED
      BY <1>2, <2>1
  <1>8. S!Joined(chosen) = S!FlattenSeq(cut)
    BY <1>7 DEF S!Joined
  <1>9. QED
    BY <1>1, <1>4, <1>8, CutRestores DEF cut

\* A file that was split can be had back: a download holds bytes of the file it is
\* named for, the parts on show are the whole of it, and up to nine parts of one
\* cut are joined to it (app/tools/file-splitter/page.tsx: handleSplit,
\* downloadChunk, handleJoin).
THEOREM SpecPartsRestore ==
  ASSUME SplitterConstants PROVE S!Spec => []PartsRestore
  <1>1. SplitterInv => S!PartsAreOfTheirFile /\ S!PartsAreWhole
    BY CutRestores DEF SplitterInv, S!PartsAreWhole, SplitterConstants
  <1>2. SplitterInv => PartsRestore
    BY <1>1, JoinedRestores DEF PartsRestore, S!PartsRestore
  <1>3. QED
    BY SplitterInductive, <1>2, PTL

-----------------------------------------------------------------------------
(* Secure deletion: type correctness                                       *)

\* The number of passes of a request lies between the bounds, whatever the
\* client asks for.
LEMMA PassesInRange == \A n \in Asked : Passes(n) \in MinPasses..MaxPasses
BY PassesAssumption DEF Passes

\* The job of a request that is not at work has the shape of any other.
LEMMA NoJobShape == NoJob \in Job /\ NoJob.written <= NoJob.length
BY PassesAssumption, SizesAssumption DEF NoJob, Job

\* A block that is written back has a count of overwrites in range.
LEMMA LandedInRange ==
  ASSUME TypeOK, NEW b \in Blocks
  PROVE  Landed(b) \in 0..MaxPasses
BY PassesAssumption DEF TypeOK, Landed

\* The shape of the jobs stays when one of them becomes another job of that shape.
LEMMA JobsKept ==
  ASSUME TypeOK, NEW r \in Requests, NEW j \in Job, j.written <= j.length,
         job' = [job EXCEPT ![r] = j]
  PROVE  job' \in [Requests -> Job] /\ \A q \in Requests : job'[q].written <= job'[q].length
<1>1. job \in [Requests -> Job] /\ \A q \in Requests : job[q].written <= job[q].length
  BY DEF TypeOK
<1> QED
  BY <1>1

\* The next pass of a job starts from the beginning.
LEMMA NextPass ==
  ASSUME NEW j \in Job, j.pass < j.passes
  PROVE  LET k == [j EXCEPT !.pass = @ + 1, !.written = 0]
         IN  k \in Job /\ k.written <= k.length
<1> DEFINE p == [j EXCEPT !.pass = @ + 1]
           k == [j EXCEPT !.pass = @ + 1, !.written = 0]
<1>1. p \in Job
  BY PassesAssumption DEF Job
<1>2. k = [p EXCEPT !.written = 0]
  OBVIOUS
<1> HIDE DEF p, k
<1>3. k \in Job /\ k.written <= k.length
  BY <1>1, <1>2, SizesAssumption DEF Job
<1> QED
  BY <1>3 DEF k

\* Every step keeps TypeOK.
LEMMA TypeKept == TypeOK /\ [Next]_vars => TypeOK'
<1> SUFFICES ASSUME TypeOK, [Next]_vars
             PROVE  TypeOK'
  OBVIOUS
<1> USE SizesAssumption, PassesAssumption DEF Blocks, Places, Goto, fileVars, blockVars, history
<1>0. /\ job \in [Requests -> Job]
      /\ \A r \in Requests : job[r].written <= job[r].length
  BY DEF TypeOK
<1>1. ASSUME NEW r \in Requests, NEW n \in Asked, Ask(r, n)
      PROVE  TypeOK'
  <2> DEFINE j == [job[r] EXCEPT !.passes = Passes(n)]
  <2>1. Passes(n) \in MinPasses..MaxPasses /\ job[r] \in Job
    BY <1>0, PassesInRange
  <2> HIDE DEF Passes
  <2>2. j \in Job /\ j.written <= j.length
    BY <1>0, <2>1 DEF Job
  <2>3. job' = [job EXCEPT ![r] = j]
    BY <1>1 DEF Ask
  <2> HIDE DEF j
  <2> QED
    BY <1>1, <2>2, <2>3, JobsKept DEF Ask, TypeOK
<1>2. ASSUME NEW r \in Requests, Open(r)
      PROVE  TypeOK'
  <2> DEFINE j == [mine |-> TRUE, length |-> size, passes |-> job[r].passes,
                   pass |-> 1, written |-> 0]
  <2>1. job[r] \in Job /\ size \in 0..MaxSize
    BY <1>0 DEF TypeOK
  <2>2. j \in Job /\ j.written <= j.length
    BY <2>1 DEF Job
  <2>3. job' = [job EXCEPT ![r] = j]
    BY <1>2 DEF Open
  <2> HIDE DEF j
  <2> QED
    BY <1>2, <2>2, <2>3, JobsKept DEF Open, TypeOK
<1>3. ASSUME NEW r \in Requests, NEW n \in 1..Chunk, Write(r, n)
      PROVE  TypeOK'
  <2> DEFINE j == [job[r] EXCEPT !.written = @ + n]
  <2>1. job[r] \in Job /\ n \in Nat /\ job[r].written + n <= job[r].length
    BY <1>0, <1>3 DEF Write, ToWrite, Job
  <2>2. j \in Job /\ j.written <= j.length
    BY <2>1 DEF Job
  <2>3. job' = [job EXCEPT ![r] = j]
    BY <1>3 DEF Write, Advanced
  <2>4. cache' \in [Blocks -> {"clean", "random", "content"}]
    BY <1>3 DEF Write, TypeOK
  <2> HIDE DEF j
  <2> QED
    BY <1>3, <2>2, <2>3, <2>4, JobsKept DEF Write, TypeOK
<1>4. ASSUME NEW r \in Requests, PassDone(r)
      PROVE  TypeOK'
  <2>1. /\ disk' \in [Blocks -> 0..MaxPasses]
        /\ cache' \in [Blocks -> {"clean", "random", "content"}]
    BY <1>4, LandedInRange DEF PassDone, Synced, TypeOK
  <2> DEFINE j == [job[r] EXCEPT !.pass = @ + 1, !.written = 0]
  <2>2. job' = job \/ (job[r].pass < job[r].passes /\ job' = [job EXCEPT ![r] = j])
    BY <1>4 DEF PassDone
  <2>3. job[r].pass < job[r].passes => j \in Job /\ j.written <= j.length
    BY <1>0, NextPass
  <2> HIDE DEF j
  <2>4. job' \in [Requests -> Job] /\ \A q \in Requests : job'[q].written <= job'[q].length
    BY <1>0, <2>2, <2>3, JobsKept
  <2> QED
    BY <1>4, <2>1, <2>4 DEF PassDone, TypeOK
<1>5. ASSUME NEW r \in Requests, Remove(r) \/ Fail(r)
      PROVE  TypeOK'
  BY <1>5 DEF Remove, Fail, TypeOK
<1>6. ASSUME NEW r \in Requests, Report(r)
      PROVE  TypeOK'
  <2>1. job[r].mine \in BOOLEAN
    BY <1>0 DEF Job
  <2>2. entry' \in BOOLEAN /\ reported' \in BOOLEAN
    BY <1>6, <2>1 DEF Report, SyncParentDir, TypeOK
  <2> QED
    BY <1>6, <2>2 DEF Report, TypeOK
<1>7. ASSUME NEW r \in Requests, Answered(r)
      PROVE  TypeOK'
  BY <1>7, NoJobShape, JobsKept DEF Answered, TypeOK
<1>8. ASSUME NEW b \in Blocks, FlushBlock(b)
      PROVE  TypeOK'
  <2>1. Landed(b) \in 0..MaxPasses
    BY LandedInRange
  <2> HIDE DEF Landed
  <2> QED
    BY <1>8, <2>1 DEF FlushBlock, TypeOK
<1>9. CASE FlushDir
  BY <1>9 DEF FlushDir, TypeOK
<1>10. CASE Stop \/ Crash
  BY <1>10, NoJobShape DEF Stop, Crash, TypeOK
<1>11. ASSUME NEW b \in Blocks, Download(b)
       PROVE  TypeOK'
  BY <1>11 DEF Download, Disturb, TypeOK
<1>12. ASSUME NEW n \in 0..MaxSize, Recreate(n)
       PROVE  TypeOK'
  <2>1. \A r \in Requests : /\ [job[r] EXCEPT !.mine = FALSE] \in Job
                            /\ job'[r] = [job[r] EXCEPT !.mine = FALSE]
    BY <1>0, <1>12 DEF Recreate, Job
  <2>2. job' \in [Requests -> Job]
    BY <1>12, <2>1 DEF Recreate
  <2>3. \A r \in Requests : job'[r].written <= job'[r].length
    BY <1>0, <2>1 DEF Job
  <2>4. /\ disk' \in [Blocks -> 0..MaxPasses]
        /\ cache' \in [Blocks -> {"clean", "random", "content"}]
    BY <1>12 DEF Recreate
  <2>5. named' \in BOOLEAN /\ entry' \in BOOLEAN /\ reported' \in BOOLEAN /\ size' \in 0..MaxSize
    BY <1>12 DEF Recreate
  <2>6. disturbed' \subseteq Requests /\ pc' \in [Requests -> Places]
    BY <1>12 DEF Recreate, Disturb, TypeOK
  <2> QED
    BY <2>2, <2>3, <2>4, <2>5, <2>6 DEF TypeOK
<1>13. CASE UNCHANGED vars
  BY <1>13 DEF vars, TypeOK
<1> QED
  BY <1>1, <1>2, <1>3, <1>4, <1>5, <1>6, <1>7, <1>8, <1>9, <1>10, <1>11, <1>12, <1>13
     DEF Next, Step

\* Whatever happens, every variable keeps its shape and no pass writes past
\* the size that the file had when it was opened.
THEOREM TypeCorrect == Spec => []TypeOK
<1>1. Init => TypeOK
  <2> SUFFICES ASSUME Init
               PROVE  TypeOK
    OBVIOUS
  <2>1. disk \in [Blocks -> 0..MaxPasses] /\ cache \in [Blocks -> {"clean", "random", "content"}]
    BY PassesAssumption DEF Init
  <2>2. job \in [Requests -> Job] /\ \A r \in Requests : job[r].written <= job[r].length
    BY NoJobShape DEF Init
  <2>3. /\ named \in BOOLEAN /\ entry \in BOOLEAN /\ size \in 0..MaxSize
        /\ pc \in [Requests -> Places] /\ disturbed \subseteq Requests /\ reported \in BOOLEAN
    BY DEF Init, Places
  <2> QED
    BY <2>1, <2>2, <2>3 DEF TypeOK
<1> QED
  BY <1>1, TypeKept, PTL DEF Spec

-----------------------------------------------------------------------------
(* What is removed has been overwritten                                    *)

\* The passes that request r has completed.
Floor(r) == IF pc[r] = "closed" THEN job[r].passes ELSE job[r].pass - 1

\* Block b has had every completed pass of request r on the disk, and the pass
\* under way on its way there if it has come so far; content is still to be
\* seen in the cache during the first pass alone.
BlockCovered(r, b) ==
  /\ disk[b] >= Floor(r)
  /\ cache[b] = "content" => pc[r] = "overwriting" /\ job[r].pass = 1
  /\ pc[r] = "overwriting" /\ b <= job[r].written => Landed(b) >= job[r].pass

\* The file that request r has open is the one modelled, it has its size
\* still, and all its blocks are covered.
CoveredBy(r) ==
  /\ job[r].mine
  /\ job[r].length = size
  /\ \A b \in 1..job[r].length : BlockCovered(r, b)

Covered == \A r \in Requests \ disturbed : Held(r) => CoveredBy(r)

\* What a step may do to a block that another request counts on: nothing,
\* write it back, or put random data in the cache.
CellStep(b) ==
  \/ disk'[b] = disk[b] /\ cache'[b] = cache[b]
  \/ disk'[b] = Landed(b) /\ cache'[b] = "clean"
  \/ disk'[b] = disk[b] /\ cache'[b] = "random"

\* The shape of what a request looks at.
LEMMA JobShape ==
  ASSUME TypeOK, NEW r \in Requests
  PROVE  /\ job[r].length \in 0..MaxSize /\ job[r].mine \in BOOLEAN
         /\ job[r].passes \in MinPasses..MaxPasses /\ job[r].pass \in 1..MaxPasses
         /\ job[r].written \in 0..MaxSize /\ Floor(r) \in 0..MaxPasses
         /\ 1..job[r].length \subseteq Blocks
  <1>1. job[r] \in Job
    BY DEF TypeOK
  <1> QED
    BY <1>1, SizesAssumption, PassesAssumption DEF Job, Floor, Blocks

\* Writing a covered block back loses no completed pass.
LEMMA LandedKeepsFloor ==
  ASSUME TypeOK, NEW r \in Requests, NEW b \in Blocks, BlockCovered(r, b)
  PROVE  Landed(b) >= Floor(r)
  <1>1. /\ Floor(r) \in 0..MaxPasses /\ disk[b] \in 0..MaxPasses
        /\ cache[b] \in {"clean", "random", "content"}
    BY JobShape DEF TypeOK
  <1>2. /\ disk[b] >= Floor(r)
        /\ cache[b] = "content" => Floor(r) = 0
    BY DEF BlockCovered, Floor
  <1> HIDE DEF Floor
  <1> QED
    BY <1>1, <1>2, PassesAssumption DEF Landed

\* No step that a request may meet in a block takes an overwrite from it.
LEMMA CellKept ==
  ASSUME TypeOK, NEW b \in Blocks, CellStep(b)
  PROVE  /\ disk'[b] >= disk[b] \/ disk'[b] = Landed(b)
         /\ cache'[b] = "content" => cache[b] = "content"
         /\ Landed(b)' >= Landed(b)
         /\ disk'[b] \in 0..MaxPasses
  <1>1. disk[b] \in 0..MaxPasses /\ cache[b] \in {"clean", "random", "content"}
    BY DEF TypeOK
  <1>2. CASE disk'[b] = disk[b] /\ cache'[b] = cache[b]
    BY <1>1, <1>2, PassesAssumption DEF Landed
  <1>3. CASE disk'[b] = Landed(b) /\ cache'[b] = "clean"
    BY <1>1, <1>3, PassesAssumption DEF Landed
  <1>4. CASE disk'[b] = disk[b] /\ cache'[b] = "random"
    BY <1>1, <1>4, PassesAssumption DEF Landed
  <1> QED
    BY <1>2, <1>3, <1>4 DEF CellStep

\* What the machine and other requests do to a covered block leaves it covered.
LEMMA BlockKept ==
  ASSUME TypeOK, TypeOK', NEW r \in Requests, NEW b \in Blocks,
         BlockCovered(r, b), pc'[r] = pc[r], job'[r] = job[r], CellStep(b)
  PROVE  BlockCovered(r, b)'
  <1> PICK f \in 0..MaxPasses : f = Floor(r)
    BY JobShape
  <1>1. /\ disk'[b] >= disk[b] \/ disk'[b] = Landed(b)
        /\ cache'[b] = "content" => cache[b] = "content"
        /\ Landed(b)' >= Landed(b)
        /\ disk'[b] \in 0..MaxPasses
    BY CellKept
  <1>2. Landed(b) >= f
    BY LandedKeepsFloor
  <1>3. /\ disk[b] >= f
        /\ cache[b] = "content" => pc[r] = "overwriting" /\ job[r].pass = 1
        /\ pc[r] = "overwriting" /\ b <= job[r].written => Landed(b) >= job[r].pass
    BY DEF BlockCovered
  <1>4. /\ disk[b] \in 0..MaxPasses /\ job[r].pass \in 1..MaxPasses
        /\ Landed(b) \in 0..MaxPasses /\ Landed(b)' \in 0..MaxPasses
    <2>1. Landed(b)' \in 0..MaxPasses
      BY PassesAssumption DEF Landed, TypeOK
    <2> QED
      BY <2>1, LandedInRange, JobShape DEF TypeOK
  <1>5. Floor(r)' = f
    BY DEF Floor
  <1>6. /\ disk'[b] >= f
        /\ Landed(b) >= job[r].pass => Landed(b)' >= job[r].pass
    BY <1>1, <1>2, <1>3, <1>4, PassesAssumption
  <1> HIDE DEF Landed, Floor
  <1> QED
    BY <1>1, <1>3, <1>5, <1>6 DEF BlockCovered

\* A request that takes no step itself stays covered by what goes on.
LEMMA OthersKept ==
  ASSUME TypeOK, TypeOK', NEW q \in Requests, CoveredBy(q),
         pc'[q] = pc[q], job'[q] = job[q], size' = size,
         \A b \in Blocks : CellStep(b)
  PROVE  CoveredBy(q)'
  <1>1. 1..job[q].length \subseteq Blocks
    BY JobShape
  <1>2. \A b \in 1..job[q].length : BlockCovered(q, b)'
    BY <1>1, BlockKept DEF CoveredBy
  <1> QED
    BY <1>2 DEF CoveredBy

\* The file that is opened is covered: nothing is promised of it yet.
LEMMA OpenCovers ==
  ASSUME TypeOK, NEW r \in Requests, Open(r)
  PROVE  CoveredBy(r)'
  <1>1. /\ job'[r].mine /\ job'[r].length = size /\ job'[r].pass = 1 /\ job'[r].written = 0
        /\ pc'[r] = "overwriting" /\ UNCHANGED <<size, disk, cache>>
    BY DEF Open, Goto, TypeOK, fileVars, blockVars
  <1>2. size \in 0..MaxSize /\ 1..size \subseteq Blocks
    BY SizesAssumption DEF TypeOK, Blocks
  <1>3. ASSUME NEW b \in 1..size
        PROVE  BlockCovered(r, b)'
    <2>1. disk[b] >= 0
      BY <1>2 DEF TypeOK
    <2>2. Floor(r)' = 0
      BY <1>1 DEF Floor
    <2> HIDE DEF Floor, Landed
    <2> QED
      BY <1>1, <1>2, <2>1, <2>2 DEF BlockCovered
  <1> QED
    BY <1>1, <1>3 DEF CoveredBy

\* A write is a step of the cache alone.
LEMMA WriteCells ==
  ASSUME TypeOK, NEW r \in Requests, NEW n \in 1..Chunk, Write(r, n), NEW b \in Blocks
  PROVE  CellStep(b)
  BY DEF Write, TypeOK, CellStep

\* What a request writes is on its way to the disk.
LEMMA WriteCovers ==
  ASSUME TypeOK, TypeOK', NEW r \in Requests, NEW n \in 1..Chunk, Write(r, n), CoveredBy(r)
  PROVE  CoveredBy(r)'
  <1> PICK j \in Job : j = job[r]
    BY DEF TypeOK
  <1>1. /\ pc[r] = "overwriting" /\ pc' = pc /\ disk' = disk /\ size' = size /\ CoveredBy(r)
        /\ job'[r] = [j EXCEPT !.written = @ + n]
        /\ \A b \in Blocks : cache'[b] =
             IF b > j.written /\ b <= j.written + n THEN "random" ELSE cache[b]
    BY DEF Write, Advanced, CoveredBy, fileVars, TypeOK
  <1>2. /\ j.mine /\ j.written \in 0..MaxSize /\ j.pass \in 1..MaxPasses /\ n \in Nat
        /\ j.length = size /\ j.length \in 0..MaxSize /\ 1..j.length \subseteq Blocks
    BY JobShape DEF CoveredBy
  <1>3. /\ job'[r].mine /\ job'[r].pass = j.pass /\ job'[r].length = j.length
        /\ job'[r].written = j.written + n
    BY <1>1, <1>2 DEF Job
  <1>4. ASSUME NEW b \in 1..j.length
        PROVE  BlockCovered(r, b)'
    <2>1. b \in Blocks /\ BlockCovered(r, b) /\ b \in Nat
      BY <1>2 DEF CoveredBy, Blocks
    <2>2. Floor(r) = j.pass - 1 /\ Floor(r)' = j.pass - 1
      BY <1>1, <1>3 DEF Floor
    <2>3. /\ disk[b] \in 0..MaxPasses /\ disk[b] >= j.pass - 1
          /\ cache[b] = "content" => j.pass = 1
          /\ b <= j.written => Landed(b) >= j.pass
      BY <1>1, <2>1, <2>2 DEF BlockCovered, TypeOK
    <2>4. CASE b > j.written /\ b <= j.written + n
      <3>1. cache'[b] = "random" /\ disk'[b] = disk[b]
        BY <1>1, <2>1, <2>4
      <3>2. Landed(b)' >= j.pass
        BY <1>2, <2>3, <3>1, PassesAssumption DEF Landed
      <3> HIDE DEF Landed, Floor
      <3> QED
        BY <1>1, <1>3, <2>2, <2>3, <3>1, <3>2 DEF BlockCovered
    <2>5. CASE ~(b > j.written /\ b <= j.written + n)
      <3>1. cache'[b] = cache[b] /\ disk'[b] = disk[b]
        BY <1>1, <2>1, <2>5
      <3>2. Landed(b)' = Landed(b)
        BY <3>1 DEF Landed
      <3>3. b <= j.written + n => b <= j.written
        BY <1>2, <2>1, <2>5
      <3> HIDE DEF Landed, Floor
      <3> QED
        BY <1>1, <1>3, <2>2, <2>3, <3>1, <3>2, <3>3 DEF BlockCovered
    <2> QED
      BY <2>4, <2>5
  <1> QED
    BY <1>1, <1>3, <1>4 DEF CoveredBy

\* A sync writes every block back.
LEMMA SyncCells ==
  ASSUME TypeOK, Synced, NEW b \in Blocks
  PROVE  CellStep(b)
  BY DEF Synced, TypeOK, CellStep

\* A pass that is over has reached the disk.
LEMMA PassCovers ==
  ASSUME TypeOK, TypeOK', NEW r \in Requests, PassDone(r), CoveredBy(r)
  PROVE  CoveredBy(r)'
  <1> PICK j \in Job : j = job[r]
    BY DEF TypeOK
  <1>1. /\ j.mine /\ j.written \in 0..MaxSize /\ j.pass \in 1..MaxPasses
        /\ j.length = size /\ j.length \in 0..MaxSize /\ 1..j.length \subseteq Blocks
        /\ j.passes \in MinPasses..MaxPasses
    BY JobShape DEF CoveredBy
  <1>2. /\ pc[r] = "overwriting" /\ size' = size
        /\ j.written >= j.length
        /\ \A b \in Blocks : disk'[b] = Landed(b) /\ cache'[b] = "clean"
    BY <1>1 DEF PassDone, Synced, fileVars
  <1>3. /\ job'[r].mine /\ job'[r].length = j.length
        /\ Floor(r)' <= j.pass /\ Floor(r)' \in Nat
        /\ pc'[r] = "overwriting" => job'[r].written = 0 /\ job'[r].pass = j.pass + 1
    <2>1. CASE j.pass < j.passes /\ pc' = pc
               /\ job' = [job EXCEPT ![r] = [j EXCEPT !.pass = @ + 1, !.written = 0]]
      <3>1. job'[r] = [j EXCEPT !.pass = @ + 1, !.written = 0]
        BY <2>1 DEF TypeOK
      <3>2. /\ job'[r].mine /\ job'[r].length = j.length
            /\ job'[r].pass = j.pass + 1 /\ job'[r].written = 0
        BY <1>1, <3>1 DEF Job
      <3> QED
        BY <1>1, <1>2, <2>1, <3>2 DEF Floor
    <2>2. CASE j.pass >= j.passes /\ pc'[r] = "closed" /\ job' = job
      BY <1>1, <2>2, PassesAssumption DEF Floor
    <2> QED
      BY <2>1, <2>2 DEF PassDone, Goto, TypeOK
  <1>4. ASSUME NEW b \in 1..j.length
        PROVE  BlockCovered(r, b)'
    <2>1. b \in Blocks /\ BlockCovered(r, b) /\ b \in Nat /\ b <= j.written
      BY <1>1, <1>2 DEF CoveredBy, Blocks
    <2>2. Landed(b) >= j.pass /\ Landed(b) \in 0..MaxPasses
      BY <1>2, <2>1, LandedInRange DEF BlockCovered
    <2>3. disk'[b] >= Floor(r)' /\ cache'[b] = "clean"
      BY <1>1, <1>2, <1>3, <2>1, <2>2
    <2>4. pc'[r] = "overwriting" => ~(b <= job'[r].written)
      BY <1>3, <2>1
    <2> HIDE DEF Landed, Floor
    <2> QED
      BY <1>3, <2>3, <2>4 DEF BlockCovered
  <1> QED
    BY <1>2, <1>3, <1>4 DEF CoveredBy

\* Every step keeps every file covered that a request has open, and that no
\* others have written to or replaced.
LEMMA CoveredKept ==
  ASSUME TypeOK, TypeOK', Covered, [Next]_vars
  PROVE  Covered'
<1> SUFFICES ASSUME NEW q \in Requests, q \notin disturbed', Held(q)'
             PROVE  CoveredBy(q)'
  BY DEF Covered
<1>1. q \notin disturbed /\ Held(q) => CoveredBy(q)
  BY DEF Covered
<1>2. ASSUME NEW r \in Requests, NEW n \in Asked, Ask(r, n)
      PROVE  CoveredBy(q)'
  <2>1. q # r /\ pc'[q] = pc[q] /\ job'[q] = job[q]
    BY <1>2 DEF Ask, Goto, Held, TypeOK
  <2> QED
    BY <1>1, <1>2, <2>1, OthersKept DEF Ask, fileVars, blockVars, history, CellStep, Held
<1>3. ASSUME NEW r \in Requests, Open(r)
      PROVE  CoveredBy(q)'
  <2>1. CASE q = r
    BY <1>3, <2>1, OpenCovers
  <2>2. CASE q # r
    <3>1. pc'[q] = pc[q] /\ job'[q] = job[q]
      BY <1>3, <2>2 DEF Open, Goto, TypeOK
    <3> QED
      BY <1>1, <1>3, <3>1, OthersKept DEF Open, fileVars, blockVars, CellStep, Held
  <2> QED
    BY <2>1, <2>2
<1>4. ASSUME NEW r \in Requests, NEW n \in 1..Chunk, Write(r, n)
      PROVE  CoveredBy(q)'
  <2>1. CASE q = r
    BY <1>1, <1>4, <2>1, WriteCovers DEF Held, Write, history
  <2>2. CASE q # r
    <3>1. pc'[q] = pc[q] /\ job'[q] = job[q]
      BY <1>4, <2>2 DEF Write, TypeOK
    <3> QED
      BY <1>1, <1>4, <3>1, WriteCells, OthersKept DEF Write, fileVars, history, Held
  <2> QED
    BY <2>1, <2>2
<1>5. ASSUME NEW r \in Requests, PassDone(r)
      PROVE  CoveredBy(q)'
  <2>1. CASE q = r
    BY <1>1, <1>5, <2>1, PassCovers DEF Held, PassDone, history
  <2>2. CASE q # r
    <3>1. pc'[q] = pc[q] /\ job'[q] = job[q]
      BY <1>5, <2>2 DEF PassDone, Goto, TypeOK
    <3>2. \A b \in Blocks : CellStep(b)
      BY <1>5, SyncCells DEF PassDone, blockVars, CellStep
    <3> QED
      BY <1>1, <1>5, <3>1, <3>2, OthersKept DEF PassDone, fileVars, history, Held
  <2> QED
    BY <2>1, <2>2
<1>6. ASSUME NEW r \in Requests, Remove(r) \/ Report(r) \/ Fail(r) \/ Answered(r)
      PROVE  CoveredBy(q)'
  <2>1. q # r /\ pc'[q] = pc[q] /\ job'[q] = job[q]
    BY <1>6 DEF Remove, Report, Fail, Answered, Goto, Held, TypeOK
  <2>2. size' = size /\ disk' = disk /\ cache' = cache /\ disturbed' = disturbed
    BY <1>6 DEF Remove, Report, Fail, Answered, fileVars, blockVars, history
  <2> QED
    BY <1>1, <2>1, <2>2, OthersKept DEF CellStep, Held
<1>7. ASSUME NEW c \in Blocks, FlushBlock(c)
      PROVE  CoveredBy(q)'
  <2>1. \A b \in Blocks : CellStep(b)
    BY <1>7 DEF FlushBlock, CellStep, TypeOK
  <2> QED
    BY <1>1, <1>7, <2>1, OthersKept DEF FlushBlock, fileVars, history, Held
<1>8. CASE FlushDir \/ UNCHANGED vars
  <2>1. /\ size' = size /\ disk' = disk /\ cache' = cache /\ pc' = pc /\ job' = job
        /\ disturbed' = disturbed
    BY <1>8 DEF FlushDir, blockVars, history, vars
  <2> QED
    BY <1>1, <2>1, OthersKept DEF CellStep, Held
<1>9. CASE Stop \/ Crash
  BY <1>9 DEF Stop, Crash, Held
<1>10. CASE (\E b \in Blocks : Download(b)) \/ (\E n \in 0..MaxSize : Recreate(n))
  <2>1. pc' = pc /\ disturbed' = disturbed \cup {r \in Requests : Held(r)}
    BY <1>10 DEF Download, Recreate, Disturb
  <2> QED
    BY <2>1 DEF Held
<1> QED
  BY <1>2, <1>3, <1>4, <1>5, <1>6, <1>7, <1>8, <1>9, <1>10 DEF Next, Step

\* A request removes a covered file, all of whose blocks have had every pass.
LEMMA RemovalOverwritten ==
  ASSUME TypeOK, Covered
  PROVE  \A r \in Requests \ disturbed : pc[r] = "closed" /\ pc'[r] = "unlinked" =>
           \A b \in 1..size : disk[b] >= job[r].passes
<1> SUFFICES ASSUME NEW r \in Requests \ disturbed, pc[r] = "closed"
             PROVE  \A b \in 1..size : disk[b] >= job[r].passes
  OBVIOUS
<1>1. CoveredBy(r)
  BY DEF Covered, Held
<1> QED
  BY <1>1 DEF CoveredBy, BlockCovered, Floor

\* Whatever is removed has had every pass on the disk, unless others wrote to
\* the file or replaced it since the request opened it.
THEOREM DeletionOverwrites == Spec => RemovedIsOverwritten
<1>1. Init => Covered
  BY DEF Init, Covered, Held
<1>2. TypeOK /\ TypeOK' /\ Covered /\ [Next]_vars => Covered'
  BY CoveredKept
<1>3. TypeOK /\ Covered =>
        \A r \in Requests \ disturbed : pc[r] = "closed" /\ pc'[r] = "unlinked" =>
          \A b \in 1..size : disk[b] >= job[r].passes
  BY RemovalOverwritten
<1> QED
  BY <1>1, <1>2, <1>3, TypeCorrect, PTL DEF Spec, RemovedIsOverwritten

-----------------------------------------------------------------------------
(* What is reported stays deleted                                          *)

\* A request that has removed the file modelled has left nothing under its
\* name, and once that has been reported nothing is left of it on the disk.
Gone ==
  /\ \A r \in Requests : pc[r] = "unlinked" /\ job[r].mine => ~named
  /\ reported => ~named /\ ~entry

\* Every step keeps the directory so.
LEMMA GoneKept ==
  ASSUME TypeOK, Gone, [Next]_vars
  PROVE  Gone'
<1>1. ASSUME NEW r \in Requests, Remove(r)
      PROVE  Gone'
  BY <1>1 DEF Remove, history, Gone
<1>2. ASSUME NEW r \in Requests, Report(r)
      PROVE  Gone'
  <2>1. /\ named' = named /\ job' = job
        /\ \A q \in Requests : pc'[q] = "unlinked" => pc[q] = "unlinked"
    BY <1>2 DEF Report, Goto, TypeOK
  <2>2. CASE SyncParentDir /\ reported' = (reported \/ job[r].mine)
    <3>1. reported' => ~named
      BY <1>2, <2>2 DEF Report, Gone
    <3> QED
      BY <2>1, <2>2, <3>1 DEF SyncParentDir, Gone
  <2>3. CASE UNCHANGED <<entry, reported>>
    BY <2>1, <2>3 DEF Gone
  <2> QED
    BY <1>2, <2>2, <2>3 DEF Report
<1>3. ASSUME NEW r \in Requests,
             \/ \E n \in Asked : Ask(r, n)
             \/ Open(r) \/ (\E n \in 1..Chunk : Write(r, n)) \/ PassDone(r)
             \/ Fail(r) \/ Answered(r)
      PROVE  Gone'
  <2>1. named' = named /\ entry' = entry /\ reported' = reported
    BY <1>3 DEF Ask, Open, Write, PassDone, Fail, Answered, fileVars, history
  <2>2. /\ pc' \in [Requests -> Places] /\ pc'[r] # "unlinked"
        /\ \A q \in Requests \ {r} : pc'[q] = pc[q] /\ job'[q] = job[q]
    BY <1>3 DEF Ask, Open, Write, PassDone, Fail, Answered, Goto, TypeOK, Places
  <2> QED
    BY <2>1, <2>2 DEF Gone
<1>4. CASE (\E b \in Blocks : FlushBlock(b)) \/ (\E b \in Blocks : Download(b))
           \/ UNCHANGED vars
  <2>1. named' = named /\ entry' = entry /\ reported' = reported /\ pc' = pc /\ job' = job
    BY <1>4 DEF FlushBlock, Download, fileVars, history, vars
  <2> QED
    BY <2>1 DEF Gone
<1>5. CASE FlushDir
  BY <1>5 DEF FlushDir, history, Gone
<1>6. CASE Stop \/ Crash
  BY <1>6 DEF Stop, Crash, Gone, fileVars, history
<1>7. ASSUME NEW n \in 0..MaxSize, Recreate(n)
      PROVE  Gone'
  <2>1. \A r \in Requests : ~job'[r].mine
    <3>1. \A r \in Requests : job[r] \in Job
      BY DEF TypeOK
    <3> QED
      BY <1>7, <3>1 DEF Recreate, Job
  <2> QED
    BY <1>7, <2>1 DEF Recreate, Gone
<1> QED
  BY <1>1, <1>2, <1>3, <1>4, <1>5, <1>6, <1>7 DEF Next, Step

\* A file that was reported as deleted, its directory synced, does not come
\* back with a crash.
THEOREM DeletionLasts == Spec => []DeletedStaysGone
<1>1. Init => Gone
  BY DEF Init, Gone
<1>2. TypeOK /\ Gone /\ [Next]_vars => Gone'
  BY GoneKept
<1>3. Gone => DeletedStaysGone
  BY DEF Gone, DeletedStaysGone
<1> QED
  BY <1>1, <1>2, <1>3, TypeCorrect, PTL DEF Spec
===============================================================================
