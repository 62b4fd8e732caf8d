SPECIFICATION Spec
CONSTANTS
  Attempts = {a1}
  Engines <- MCEngines
  Stages = 1
  MaxTries = 1
  MaxSignals = 0
  MaxKills = 0
  MaxChanges = 0
INVARIANTS StoppedInFinally
CHECK_DEADLOCK FALSE
