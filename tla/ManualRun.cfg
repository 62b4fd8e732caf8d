CONSTANTS
  Sources = {s, t}
  Contexts = {c, d}
  Runs = {p, q}
  MaxClock = 1
  MaxOutages = 1
  s = s
  t = t
  c = c
  d = d
  p = p
  q = q
SYMMETRY Symmetry
SPECIFICATION RunSpec
CHECK_DEADLOCK FALSE
INVARIANTS VisibleIsWhole ReportedLoads EventsInScope
