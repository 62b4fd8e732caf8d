SPECIFICATION Spec
CONSTANTS
  Keys = {k1, k2, k3}
  Payloads = {p1, p2}
  Scopes = {s1, s2}
  Kinds = {"controlled"}
  Instants = {3, 5, 6}
  Microsecond = 3
  MaxSnapshots = 2
  SurrealRecords = 2
  Sessions = {c1, c2}
  NoRow = NoRow
  None = None
INVARIANTS CheckedIsCurrent PlansAreAdmitted
PROPERTIES TakesWholeSnapshots
CHECK_DEADLOCK FALSE
SYMMETRY Alike
