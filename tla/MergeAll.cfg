\* Input files and schemas, repeated keys are errors or are replaced.
CONSTANTS
  IndexKey <- Digits
  Height = 4
  Keys <- MCKeys
  YamlValues <- MCYamlValues
  SchemaValues <- MCSchemaValues
  MaxAdds = 3
SPECIFICATION Spec
INVARIANTS
  TypeOK
  OrderFree
  LastOneWins
PROPERTIES
  NothingOverwritten
