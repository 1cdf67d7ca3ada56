\* A schema that follows a schema that follows an input file in its own folder.
CONSTANTS
  IndexKey <- Digits
  Height = 20
  DocHeight = 3
  Depth = 20
  Folder <- MCFolder
  Dotted <- MCDotted
  SchemaFolders <- MCSchemaFolders
  SchemaNames <- MCSchemaNames
  Disks <- OwnFolderDisks
SPECIFICATION Spec
INVARIANT FoundFromOwnFolder
