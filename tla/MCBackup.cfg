SPECIFICATION Spec
CONSTANTS
  Keep = 2
  Interval = 2
  Retry = 1
  MaxTime = 4
  MaxEvents = 2
INVARIANTS
  BackupsAreWhole
  ShownIsKept
PROPERTIES
  KeepIsKept
  BackupsGoOn
