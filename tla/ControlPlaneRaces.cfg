SPECIFICATION Spec
CONSTANTS
  MaxMissions = 1
  MaxWorkers = 2
  Capabilities <- OneCapability
  Capability <- AllDemo
  LeaseSeconds <- OneSecond
  AttemptSeconds = 2
  SlotCount = 2
  VersionLimit = 2
  MaxAttempts = 2
  MaxEpoch = 2
  MaxClock = 1
  ClockStepsBack = TRUE
INVARIANTS LockStep ActiveIsCurrent NoLostUpdate CompletedHasDocument
PROPERTIES EndedAttemptsStand ImplementsContract
