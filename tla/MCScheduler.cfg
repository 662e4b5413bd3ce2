SPECIFICATION EditedSpec
CONSTANTS
  Subnets = {s1, s2}
  Goroutines = {g1, g2}
  MaxParallel = 1
  QueueCap = 2
INVARIANTS
  TypeOK
  RunningIsScanning
  QueuedIsWaiting
  ScanAllFits
  AcceptedTriggerKept
  NoWriteAfterClose
PROPERTIES
  TriggerServed
  PeriodicSweeps
  ShutdownCompletes
CHECK_DEADLOCK FALSE
