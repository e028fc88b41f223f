SPECIFICATION Spec
CONSTANTS
  v1 = v1
  v2 = v2
  shared = shared
  own1 = own1
  own2 = own2
  Validator = {v1, v2}
  Ip = {shared, own1, own2}
  AddressesOf <- Homes
  Capacity = 2
  ChallengeTtl = 2
  SweepInterval = 2
  AccessTtl = 3
  RefreshTtl = 5
INVARIANTS ChallengesBounded ChallengeHonoured
PROPERTIES ImplementsDesk
