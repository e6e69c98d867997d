SPECIFICATION Spec
CONSTANTS
  d1 = d1
  d2 = d2
  d3 = d3
  i1 = i1
  i2 = i2
  Devices = {d1, d2}
  Infos = {i1, i2}
  InfoOf <- OneEach
  Listed = {i1}
  AllowList = TRUE
  Unreadable = {}
  MaxHeld = 3
  MaxHandles = 2
INVARIANT CloseReleases
