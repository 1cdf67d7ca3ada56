\* Libraries of three schemas, with and without cycles.
CONSTANTS
  a = a
  b = b
  c = c
  Trivial = Trivial
  Malformed = Malformed
  Missing = Missing
  None = None
  Names <- MCNames
  Listing <- MCListing
  Nodes <- MCNodes
  Libraries <- MCLibraries
  Inputs <- MCInputs
  MaxDepth = 7
SPECIFICATION FairSpec
INVARIANTS
  TypeOK
  CrashIsCyclic
  AcceptedIsAcyclic
  LoadsCatch
  ApplyThrowsForInput
PROPERTIES
  EveryCallEnds
  ImplementsRequests
