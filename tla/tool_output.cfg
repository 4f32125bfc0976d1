SPECIFICATION OutputSpec
CONSTANTS
  Specs <- SomeSpecs
  SchemaNames <- SomeNames
  Schemas <- SomeSchemas
  Values <- SomeValues
  Depth <- SomeDepths
  MaxDepth = 2
  MediaTypes <- SomeMediaTypes
  MaxRefHops = 1
  None = None
INVARIANTS
  StructuredContentFits
  InlinedSchemasAskNoMore
CHECK_DEADLOCK FALSE
