SPECIFICATION Spec
CONSTANTS
  Ifaces = {i1}
  Callers = {c1, c2, c3}
  Thresholds = {1, 2}
  MissCap = 2
INVARIANTS
  TypeOK
  NoOrphanStatus
PROPERTIES
  ImplementsContract
  MissNeverForgives
  SilentGoesOffline
  AnsweringComesOnline
