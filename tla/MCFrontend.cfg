SPECIFICATION MCSpec
CONSTANTS
  MaxVersion = 3
  MaxRuns = 2
  Torrents = {t1}
  First = c1
  Second = c2
  Calls = {c1, c2}
  AutoStop = TRUE
  TorrentActs = 4
  TorEnabled = TRUE
  SettingsActs = 3
  Files = {f1, f2}
  MaxUsers = 1
  BatchSize = 1
  MaxBatches = 2
  Strings = {s1, s2}
  Failed = Failed
  Nil = Nil
INVARIANTS
  DeletionIsHonest
PROPERTIES
  RunsAreSound
  FrontEndRecovers
  ListIsHonest
  
  RetriesFinish
  ServesRegister
CHECK_DEADLOCK FALSE
