SPECIFICATION FairSpec
CONSTANTS
  d1 = d1
  d2 = d2
  d3 = d3
  i1 = i1
  i2 = i2
  Devices = {d1, d2, d3}
  Infos = {i1, i2}
  InfoOf <- Replugged
  Listed = {}
  AllowList = FALSE
  Unreadable = {d3}
  MaxHeld = 2
  MaxHandles = 1
PROPERTY ArrivalReported
