\* A specification is added to a map of specifications.
CONSTANTS
  IndexKey <- Digits
  Height = 4
  Keys <- MCKeys
  YamlValues <- MCYamlValues
  SchemaValues <- MCSchemaValues
  MaxAdds = 2
SPECIFICATION Spec
PROPERTY NoSpecificationLost
