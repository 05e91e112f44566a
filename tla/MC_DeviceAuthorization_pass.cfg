SPECIFICATION FairSpec
CONSTANTS
  Device = {d}
  NumAuth = 2
  MaxGen = 1
INVARIANTS
  TypeOK
  OneActiveToken
  HandedOutBundleIsLive
  OnlyOldTokensReplay
PROPERTIES
  AuthorizationEnds
  ImplementsSessions
