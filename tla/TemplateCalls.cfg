\* Three processes, folders with and without gaps in the numbering.
CONSTANTS
  p1 = p1
  p2 = p2
  p3 = p3
  User = User
  Processes <- MCProcesses
  Existing <- MCExisting
  MaxSuffix = 6
  MaxCalls = 4
SPECIFICATION Spec
INVARIANTS
  TypeOK
  OldFilesSafe
  NoEmptyFile
SYMMETRY ProcessSymmetry
