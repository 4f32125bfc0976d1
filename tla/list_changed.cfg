SPECIFICATION FairSpec
CONSTANTS
  Sessions <- OneSession
  Subscribers <- OneSubscriber
  Readers <- OneSubscriber
  Documents <- ThreeDocuments
  Listing <- TheListing
  NoListing = NoListing
  NoDocument = NoDocument
  MaxChanges = 2
  s1 = s1
  l1 = l1
  docA = docA
  docB = docB
  docC = docC
  petsV1 = petsV1
  petsV2 = petsV2
  pets = pets
INVARIANTS
  NeverSilentlyStale
  OpenSessionsAreRegistered
PROPERTIES
  ReloadNeverWaits
  ClientsCatchUp
