SPECIFICATION Spec
CONSTANTS
  Names <- SomeNames
  body = body
  Authorization = Authorization
  Templates <- SomeTemplates
  Levels <- TwoOfALevel
  Configs <- NoConfig
  id = id
  tenant = tenant
INVARIANTS
  OperationParametersWin
CHECK_DEADLOCK FALSE
