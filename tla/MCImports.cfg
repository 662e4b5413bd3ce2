SPECIFICATION Spec
CONSTANTS
  Guests = {g1, g2}
  None = None
  MaxDevices = 5
  MaxEvents = 3
INVARIANTS
  TypeOK
PROPERTIES
  MissingWasAbsent
  ReviewedIsLeftAlone
  Settles
