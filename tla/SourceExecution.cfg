SPECIFICATION FairSpec
CONSTANTS
  MaxRequests = 2
  MaxAttempts = 3
  TotalSeconds = 5
  MaxDelaySeconds = 2
  BackoffSeconds = 0
  MaxTime = 6
PROPERTIES RetryAfterHonoured NothingAfterTheBudget Terminates
