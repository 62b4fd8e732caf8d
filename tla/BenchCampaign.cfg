SPECIFICATION Spec
CONSTANTS
  Attempts = {a1, a2}
  Engines <- MCEngines
  Stages = 2
  MaxTries = 1
  MaxSignals = 1
  MaxKills = 1
  MaxChanges = 1
INVARIANTS RunningIsRecorded FinishedIsStopped VerifiedIsWhole
SYMMETRY Alike
CHECK_DEADLOCK FALSE
