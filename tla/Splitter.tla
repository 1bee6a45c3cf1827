------------------------------- MODULE Splitter -------------------------------
(***************************************************************************)
(* The file splitter of the front end (app/tools/file-splitter): a file is *)
(* cut into parts, the parts are downloaded under numbered names, and      *)
(* files that are chosen are joined in the order of their names.           *)
(***************************************************************************)
EXTENDS Integers, Sequences, SequencesExt, FiniteSets

CONSTANTS
  Sizes,       \* the sizes of the files to be split, which stand for them
  ChunkSizes,  \* what is typed for the size of a part
  Nil

VARIABLES
  file, chunkSize, chunks,  \* the page: the chosen file, the field, the parts
  disk                      \* what was downloaded: parts under their names

vars == <<file, chunkSize, chunks, disk>>

\* A file of size n is its bytes <<n, 1>> to <<n, n>>.
Bytes(n) == [b \in 1..n |-> <<n, b>>]

Init ==
  /\ file = Nil /\ chunkSize = CHOOSE c \in ChunkSizes : \A d \in ChunkSizes : d <= c
  /\ chunks = <<>>
  /\ disk = {}

\* Another file takes away the parts of the one before.
KeptParts == <<>>

ChooseFile ==
  /\ file' \in Sizes
  /\ chunks' = KeptParts
  /\ UNCHANGED <<chunkSize, disk>>

\* The parts stay as they were cut.
TypeSize ==
  /\ chunkSize' \in ChunkSizes
  /\ UNCHANGED <<file, chunks, disk>>

\* A file of size n cut into parts of c bytes, of which the last may have fewer.
totalChunks(n, c) == (n + c - 1) \div c

Piece(n, c, i) ==
  LET start == (i - 1) * c
      end   == IF start + c < n THEN start + c ELSE n
  IN SubSeq(Bytes(n), start + 1, end)

Split(n, c) == [i \in 1..totalChunks(n, c) |-> Piece(n, c, i)]

\* The loop has no await: nothing happens in between.
handleSplit ==
  /\ file # Nil
  /\ chunks' = Split(file, chunkSize)
  /\ UNCHANGED <<file, chunkSize, disk>>

Download(n, i, data) == [of |-> n, part |-> i, data |-> data]

\* The part is named for the file that is chosen; a name that exists is replaced.
downloadChunk(i) ==
  /\ i \in DOMAIN chunks
  /\ disk' = {p \in disk : p.of # file \/ p.part # i}
                \cup {Download(file, i, chunks[i])}
  /\ UNCHANGED <<file, chunkSize, chunks>>

\* localeCompare of two numbers up to 99, as text: "10" before "2".
Lead(i) == IF i < 10 THEN i ELSE i \div 10

\* Mutant of Before: the later part first.
BeforeNot(p, q) == p.of > q.of \/ (p.of = q.of /\ p.part > q.part)

Before(p, q) ==
  \/ p.of < q.of
  \/ p.of = q.of /\ (Lead(p.part) < Lead(q.part) \/ (Lead(p.part) = Lead(q.part) /\ p.part < q.part))

\* The order in which the files that are chosen are joined.
Sorted(files) ==
  CHOOSE s \in [1..Cardinality(files) -> files] :
    \A i, j \in DOMAIN s : i < j => Before(s[i], s[j])

\* handleJoin: what comes out.
Joined(files) ==
  LET sortedFiles == Sorted(files)
  IN FlattenSeq([i \in DOMAIN sortedFiles |-> sortedFiles[i].data])

Next ==
  \/ ChooseFile \/ TypeSize \/ handleSplit
  \/ \E i \in DOMAIN chunks : downloadChunk(i)

Spec == Init /\ [][Next]_vars

-----------------------------------------------------------------------------
(* Properties                                                              *)

\* A downloaded part holds bytes of the file that it is named for, whatever was
\* chosen, typed or cut before.
PartsAreOfTheirFile == \A p \in disk : \A b \in DOMAIN p.data : p.data[b][1] = p.of

\* Downloaded parts, at most nine of them, that come from one cut and are all of
\* it are joined to the file, whatever else was cut and downloaded in between.
\* (The name order puts part 10 before part 2. Parts of different cuts may hold
\* every byte once, each as long as the others, and not be in order.)
JoinRestores ==
  \A n \in Sizes, c \in ChunkSizes :
    LET files == {Download(n, i, Split(n, c)[i]) : i \in DOMAIN Split(n, c)}
    IN  files # {} /\ files \subseteq disk /\ Cardinality(files) < 10
          => Joined(files) = Bytes(n)

\* The parts that are on show are the whole of the file they were cut from.
PartsAreWhole == chunks # <<>> => FlattenSeq(chunks) = Bytes(file)

\* Together: a file that was split can be had back.
PartsRestore == PartsAreOfTheirFile /\ PartsAreWhole /\ JoinRestores

=============================================================================
