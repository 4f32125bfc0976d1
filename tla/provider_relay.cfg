SPECIFICATION FairSpec
CONSTANTS
  Calls <- TwoCalls
  Sessions <- OneNotWhole
  c1 = c1
  c2 = c2
  acme = acme
  globex = globex
  alice = alice
  Nobody = Nobody
  NoIssuer = NoIssuer
  NoSubject = NoSubject
  Grant = "relay"
  Margin = 1
  DefaultTtl = 2
  Ttls <- SomeTtls
  NoTtl = NoTtl
  NoExpiry = NoExpiry
  NoEntry = NoEntry
  MaxCached = 1
  Leeway = 1
  MaxInstant = 20
  MaxTime = 2
INVARIANTS
  TypeOK
  CacheBounded
  OwnIdentityOnly
  NobodyIsRefused
PROPERTIES
  HitsAreValid
  HitsWithinSession
  ImplementsService
  NobodyWaitsForAnother
