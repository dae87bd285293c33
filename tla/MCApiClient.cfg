\* One call at a time of the SDK, up to two retries on either side.
CONSTANTS
  c1 = c1
  Call = {c1}
  Used <- MCUsed
  MaxRetries = 2
  ProviderRetries = 2
  Configs <- MCConfigs
SPECIFICATION FairSpec
INVARIANTS
  WorkIsBounded
  ResultIsTruthful
PROPERTIES
  EveryCallReturns
CHECK_DEADLOCK FALSE
