\* A default of a derived type.
CONSTANTS
  IndexKey <- Digits
  g1 = g1
  g2 = g2
  good = good
  corrupt = corrupt
  absent = absent
  unflattenable = unflattenable
  NoPath = NoPath
  Ints <- MCInts
  Bools <- MCBools
  Reread <- MCReread
  Folders <- MCFolders
  Files <- MCFiles
  Schemas <- MCSchemas
  Lists <- MCLists
  Libraries <- DerivedDefault
  Contents <- MCContents
  Nodes <- FewNodes
  MaxCalls = 3
SPECIFICATION Spec
INVARIANT CompleteAtOnce
