SPECIFICATION Spec
CONSTANTS
  Operations <- SomeOperations
  Words <- SomeWords
  Documents <- SomeDocuments
  OperationName <- SomeNames
  OperationTags <- SomeTags
  Filters <- SomeFilters
  Rules <- SomeRules
  Digest <- SomeDigest
  WordLength <- SomeLengths
  MaxLen = 7
  get = get
  get_too = get_too
  get_two = get_two
  get_three = get_three
  get_two_two = get_two_two
  long = long
  dropped = dropped
  list = list
  list_everything = list_everything
  list_1f = list_1f
  drop = drop
INVARIANTS
  UniqueNames
  SuffixOnlyOnCollision
CHECK_DEADLOCK FALSE
