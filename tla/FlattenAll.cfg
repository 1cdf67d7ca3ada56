\* All small file systems; later definitions win or are errors.
CONSTANTS
  IndexKey <- Digits
  Height = 20
  DocHeight = 3
  Depth = 20
  Folder <- MCFolder
  Dotted <- MCDotted
  SchemaFolders <- MCSchemaFolders
  SchemaNames <- MCSchemaNames
  Disks <- MCDisks
SPECIFICATION Spec
INVARIANTS
  TypeOK
  PathsOfOwner
  CopyPaste
