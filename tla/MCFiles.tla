------------------------------- MODULE MCFiles --------------------------------
(* Small instances for TLC of the secure deletion of files, of the page      *)
(* that asks for it, of the pages that keep notes and split files, and of    *)
(* the encryption of files on the server. A run is one of the five.          *)
EXTENDS SecureDelete, TLC

CONSTANTS
  Paths,                         \* DeviceSecurity
  Ids, Texts, Saves, NoteActs,   \* Notes
  Sizes, ChunkSizes,             \* Splitter
  Calls, MaxCrashes,             \* FileEncryption
  Nil

VARIABLES
  mode,   \* the component that runs; the others rest
  files, input, selected, errors, confirm, isWiping, call, typedFor, erased,   \* DeviceSecurity
  stored, notes, current, content, locked, password, saving, visit, stray,
  acts,   \* Notes
  file, chunkSize, chunks, splitterDisk,   \* Splitter
  plain, sealed, inUploads, encryptionPc, kind, encryptionInput,
  crashes   \* FileEncryption

pageVars ==
  <<files, input, selected, errors, confirm, isWiping, call, typedFor,
    erased>>
secureNotesVars ==
  <<stored, notes, current, content, locked, password, saving, visit, stray,
    acts>>
splitterVars == <<file, chunkSize, chunks, splitterDisk>>
encryptionVars ==
  <<plain, sealed, inUploads, encryptionPc, kind, encryptionInput, crashes>>

\* Clients ask for too few passes and for a number that is allowed.
AskedBoth == {0, 2}

D == INSTANCE DeviceSecurity
N == INSTANCE Notes WITH MaxActs <- NoteActs
S == INSTANCE Splitter WITH disk <- splitterDisk
E == INSTANCE FileEncryption WITH pc <- encryptionPc, input <- encryptionInput

MCInit ==
  /\ mode \in {"deletion", "page", "secureNotes", "splitter",
               "encryption"}
  /\ Init /\ D!Init /\ N!Init /\ S!Init /\ E!Init
  /\ mode # "deletion" => size = 0
  /\ mode # "encryption" => plain = "whole" /\ sealed = "none" /\ inUploads

MCNext ==
  /\ UNCHANGED mode
  /\ \/ mode = "deletion"    /\ Next
     \/ mode = "page"        /\ D!Next
     \/ mode = "secureNotes" /\ N!Next
     \/ mode = "splitter"    /\ S!Next
     \/ mode = "encryption"  /\ E!Next
     \/ /\ mode # "deletion"
        /\ UNCHANGED
             <<pageVars, secureNotesVars, splitterVars,
               encryptionVars>>   \* or its bound is reached
  /\ mode # "deletion"    => UNCHANGED vars
  /\ mode # "page"        => UNCHANGED pageVars
  /\ mode # "secureNotes" => UNCHANGED secureNotesVars
  /\ mode # "splitter"    => UNCHANGED splitterVars
  /\ mode # "encryption"  => UNCHANGED encryptionVars

MCSpec ==
  /\ MCInit
  /\ [][MCNext]_<<mode, vars, pageVars, secureNotesVars, splitterVars,
                   encryptionVars>>

ErasureWasConfirmed == D!ErasureWasConfirmed
NotesAreKept == N!NotesAreKept
PartsRestore == S!PartsRestore
FilesSurvive == E!FilesSurvive

Symmetry == Permutations(Requests)
===============================================================================
