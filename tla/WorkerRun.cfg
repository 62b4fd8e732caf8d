SPECIFICATION Spec
CONSTANTS
  MaxClaims = 2
  MaxAttempts = 2
  MaxEpoch = 3
  MaxRuns = 3
  MaxAuthority = 2
  MaxUnread = 3
INVARIANTS NeverRecomputed NothingForgotten AcceptedAsWritten
PROPERTIES PermittedAnew
