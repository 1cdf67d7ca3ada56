\* Schemas of all forms on input nodes of all shapes.
CONSTANTS
  IndexKey <- Digits
  g1 = g1
  g2 = g2
  good = good
  corrupt = corrupt
  absent = absent
  unflattenable = unflattenable
  NoPath = NoPath
  Ints <- MCInts
  Bools <- MCBools
  Reread <- MCReread
  Folders <- MCFolders
  Files <- MCFiles
  Schemas <- MCSchemas
  Lists <- MCLists
  Libraries <- MCLibraries
  Contents <- MCContents
  Nodes <- MCNodes
  MaxCalls = 3
SPECIFICATION Spec
INVARIANTS
  TypeOK
  VerdictIsConformity
  CompleteAtOnce
  ExpressionsEvaluate
  PathNamesInput
  TemplateFits
PROPERTIES
  OnlyAdds
  DerivedSpecifiesBase
