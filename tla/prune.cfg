SPECIFICATION FairPruneSpec
CONSTANTS
  Operations <- SomeOperations
  Components <- SomeComponents
  Schemes <- SomeSchemes
  Top = Top
  Documents <- SomeDocuments
  shown = shown
  hidden = hidden
  a = a
  b = b
  s = s
  t = t
INVARIANTS
  WalkedFindsWhatItNeeds
  KeepsNothingHidden
PROPERTIES
  Terminates
CHECK_DEADLOCK FALSE
