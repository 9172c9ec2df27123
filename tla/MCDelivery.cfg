SPECIFICATION FairSpec
CONSTANTS
  Job = {j1, j2}
  Request = {r1}
  None = None
  RetryLimit <- Retries
  MaxCrashes <- Deaths
INVARIANTS
  NothingDropped
  OnceUnlessUnheard
  ClosedInOrder
PROPERTIES
  Settled
