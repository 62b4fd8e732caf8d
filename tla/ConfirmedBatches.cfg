SPECIFICATION Spec
CONSTANTS
  Payloads = {1, 2}
  MaxBatches = 3
  MaxRuns = 3
INVARIANTS AlwaysResumable VerifiedIsComplete JournalHolds
PROPERTIES LoadsOnePlanInOrder
CHECK_DEADLOCK FALSE
