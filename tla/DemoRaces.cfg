CONSTANTS
  ana = ana  bia = bia
  k0 = k0  k1 = k1  k2 = k2
  Owners = {ana, bia}
  Commands = {1, 2, 3}
  OwnersOf <- AnaFirst
  Seeds <- Bytes
  TakenCnpjs <- Taken
  Invalid = Invalid
  Keys = {k0, k1, k2}
  ProcessedKeys = {k0}
  Identities <- Colliding
  MaxIdentityAttempts = 2
  None = None
SPECIFICATION FairSpec
INVARIANTS DemoInv RestartIdempotent UnavailableMeansCollisions
PROPERTIES ActiveStays CommandsEnd
