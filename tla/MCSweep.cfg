SPECIFICATION Spec
CONSTANTS
  Ifaces = {i1, i2, i3}
  Macs = {a, b}
  NoMac = NoMac
  LastIP = 2
  MaxAddrs = 2
  CopyCap = 2
  Budget = 2
INVARIANTS
  TypeOK
  MissIsDeserved
  SilentIsMissed
  TrackerIsAnnounced
PROPERTIES
  StaticSurvivesSweeps
  Converges
