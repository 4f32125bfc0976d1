SPECIFICATION Spec
CONSTANTS
  Headers <- SomeHeaders
  Authorization = Authorization
  Hosts = {"mcp"}
  AnyHost = "*"
  Roles = {admin}
  PublicRole = PublicRole
  Issuers = {realm, other}
  Audiences = {us, them}
  Malformed = Malformed
  Jwks <- SomeKeys
  Subjects <- SomeSubjects
  NotAString = NotAString
  Absent = Absent
  CommandLines <- SomeCommandLines
  Documents <- SomeDocuments
  Tokens <- SomeTokens
  Times <- SomeTimes
  RequestHosts = {"mcp", "localhost", "elsewhere"}
  tenant = tenant
  admin = admin
  realm = realm
  other = other
  us = us
  them = them
  alice = alice
  k_rsa = k_rsa
  k_oct = k_oct
  k_unknown = k_unknown
INVARIANTS
  DelegationHasCallers
  OneCredential
  FlagsTakeEffect
  AcceptedTokensAreOurs
PROPERTIES
  ReloadingGoesOn
CHECK_DEADLOCK FALSE
