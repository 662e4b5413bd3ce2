SPECIFICATION Safety
CONSTANTS
  Ifaces = {i1}
  Callers = {c1, c2}
  Thresholds = {1, 2}
  MissCap = 2
INVARIANT OfflineHasMisses
