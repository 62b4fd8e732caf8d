SPECIFICATION CacheSpec
CONSTANTS
  Contexts = {x1, x2}
  Versions = {v1, v2, v3}
  Revision <- MCRevision
  Tagged = {v1, v2}
  Issuers = {i1}
  Polls = {p1, p2}
  Nothing = Nothing
  v1 = v1
  v2 = v2
  v3 = v3
INVARIANTS ReusedIsCurrent
PROPERTIES HandedOutIsTrusted
SYMMETRY Alike
CHECK_DEADLOCK FALSE
