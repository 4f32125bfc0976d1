SPECIFICATION FairSpec
CONSTANTS
  Calls <- TwoCalls
  Names <- TwoNames
  Operations <- TwoOperations
  Documents <- TwoDocuments
  Jwts <- SomeJwts
  NoJwt = NoJwt
  Anonymous = Anonymous
  Unrestricted = Unrestricted
  Identified <- SomeJwts
  Endless = {forever}
  RolesOf <- TheRoles
  Rules <- OneRule
  PublicOperations <- PublicOne
  Deployments <- SomeDeployments
  Client = Client
  Nobody = Nobody
  NoBearer = NoBearer
  NoDocument = NoDocument
  k1 = k1
  k2 = k2
  read = read
  write = write
  getPet = getPet
  delPet = delPet
  urlA = urlA
  urlB = urlB
  admin = admin
  guest = guest
  forever = forever
  reader = reader
INVARIANTS
  ApiRequestsAreAllowed
  ApiRequestsSpeakForTheCaller
  RecordsTellTheTruth
  
PROPERTIES
  NothingAfterCancel
  CancelledCallsEnd
