SPECIFICATION MCSpec
CONSTANTS
  Requests = {r1, r2}
  MaxSize = 2
  Chunk = 2
  MinPasses = 1
  MaxPasses = 2
  Asked <- AskedBoth
  Paths = {p1, p2}
  Ids = {1, 2}
  Texts = {x}
  Saves = {e1, e2}
  NoteActs = 5
  Sizes = {3, 4}
  ChunkSizes = {1, 2}
  Calls = {c1, c2}
  MaxCrashes = 1
  Nil = Nil
SYMMETRY Symmetry
INVARIANTS
  DeletedStaysGone
  ErasureWasConfirmed
  PartsRestore
  FilesSurvive
PROPERTIES
  RemovedIsOverwritten
  
