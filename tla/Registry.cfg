SPECIFICATION FairSpec
CONSTANTS
  d1 = d1
  d2 = d2
  d3 = d3
  i1 = i1
  i2 = i2
  Devices = {d1, d2, d3}
  Infos = {i1, i2}
  InfoOf <- Replugged
  Listed = {i1}
  AllowList = TRUE
  Unreadable = {}
  MaxHeld = 2
  MaxHandles = 1
INVARIANTS
  TypeInv
  HeldDevicesLive
  ReleasedDevicesFreed
  OnlyAllowedDevices
  ViewConverges
PROPERTY ArrivalReported
