SPECIFICATION ConsoleSpec
CONSTANTS
  MaxMissions = 2
  MaxWorkers = 2
  Capabilities <- TwoCapabilities
  Capability <- DemoThenCpu
  LeaseSeconds <- OneSecond
  AttemptSeconds = 2
  SlotCount = 1
  VersionLimit = 1
  MaxAttempts = 1
  MaxEpoch = 1
  MaxClock = 1
  ClockStepsBack = TRUE
INVARIANTS OneAttemptPerWorker
PROPERTIES LeaseEnds
