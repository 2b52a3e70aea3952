SPECIFICATION FairSpec
CONSTANTS
  Call = {"c1", "c2"}
  Key <- TwoTools
  Args = {"x", "y"}
  Schema = {"strict", "loose"}
  Accepts <- SmallAccepts
  Wants <- SmallWants
  Listings <- SmallListings
  MaxAttempts = 2
  MaxChanges = 1
INVARIANTS RunsAccountedFor VerdictFromOwnSchema
PROPERTIES ImplementsRemoteCall EveryCallReturns
CHECK_DEADLOCK FALSE
