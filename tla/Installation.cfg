CONSTANTS
  Contents = {a}
  Workers = {}
  Legacy = fake
  Starts = {"nothing", "first release"}
  MaxEpoch = 2
  MaxOutages = 1
  a = a
  fake = fake
SPECIFICATION Spec
CHECK_DEADLOCK FALSE
INVARIANTS TypeOK MarkerComesLast RestoredNeedsNewKeys ReportedStands ActiveKeyLasts VersionsHaveObjects
