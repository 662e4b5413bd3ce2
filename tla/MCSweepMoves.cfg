SPECIFICATION Safety
CONSTANTS
  Ifaces = {i1, i2, i3}
  Macs = {a, b}
  NoMac = NoMac
  LastIP = 2
  MaxAddrs = 1
  CopyCap = 2
  Budget = 2
INVARIANT MovedToNewAddress
