SPECIFICATION FairSpec
CONSTANTS
  None = None
  N = 2
  Estimate <- SmallEstimate
  UnknownModel = {}
  Options <- SmallOptions
  RpsWindow = 1
  TpmWindow = 2
  RateLimitAttempts = 2
  TransientAttempts = 2
  BackoffCap = 2
INVARIANTS AttemptsAreProviderCalls
CHECK_DEADLOCK FALSE
