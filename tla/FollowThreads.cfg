\* Two threads on shared files, one edit at any time: the thread-local stack.
CONSTANTS
  f1 = f1
  f2 = f2
  f3 = f3
  f4 = f4
  k1 = k1
  Threads <- MCThreads
  t1 = t1
  t2 = t2
  NoFile = NoFile
  Absent = Absent
  Corrupt = Corrupt
  Files <- MCFiles
  Keys <- MCKeys
  Kind <- YamlKind
  Docs <- SomeDocs
  Override = TRUE
  Disks <- SomeDisks
  MaxEdits = 1
SPECIFICATION Spec
INVARIANTS
  GuardsMatchFrames
  NoFileTwice
PROPERTY CycleIsReal
SYMMETRY ThreadSymmetry
