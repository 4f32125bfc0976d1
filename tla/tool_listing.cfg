SPECIFICATION Spec
CONSTANTS
  Walkers <- OneWalker
  Snapshots <- SomeDocuments
  Roles <- TwoRoles
  Visible <- WhatTheySee
  PageSizes <- SomeSizes
  NoPaging = NoPaging
  NoCursor = NoCursor
  MaxReloads = 2
  w1 = w1
  admin = admin
  guest = guest
  list = list
  create = create
  delete = delete
  audit = audit
  plain = plain
  changed = changed
INVARIANTS
  IssuedCursorsAreWellFormed
PROPERTIES
  WalksMissNothing
  StaleMeansChanged
