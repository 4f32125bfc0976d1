SPECIFICATION Spec
CONSTANTS
  Names <- SomeNames
  body = body
  Authorization = Authorization
  Templates <- SomeTemplates
  Levels <- SomeLevels
  Configs <- SomeConfigs
  id = id
  tenant = tenant
INVARIANTS
  RequiredIsEnough
  ArgumentsReachTheirPlace
  ConfiguredHeadersAreSent
CHECK_DEADLOCK FALSE
