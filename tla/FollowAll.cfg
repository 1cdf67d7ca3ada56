\* Every small file system, one thread, no edits: the refinement and the end of loads.
CONSTANTS
  f1 = f1
  f2 = f2
  f3 = f3
  f4 = f4
  k1 = k1
  Threads = {t1}
  t1 = t1
  t2 = t2
  NoFile = NoFile
  Absent = Absent
  Corrupt = Corrupt
  Files <- AllFiles
  Keys <- MCKeys
  Kind <- MixedKind
  Docs <- ShortDocs
  Override = FALSE
  Disks <- AllDisks
  MaxEdits = 0
SPECIFICATION FairSpec
INVARIANTS
  TypeOK
  ChainOfFollows
PROPERTIES
  ImplementsLoad
  EveryLoadEnds
