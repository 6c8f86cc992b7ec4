CONSTANTS
  d1 = d1
  d2 = d2
  t1 = t1
  t2 = t2
  Device = {d1, d2}
  Tab = {t1, t2}
  Web = Web
  NoRow = NoRow
  DeviceOf <- TwoDevices
  Note = {n1}
  Position = {p1}
  Skew <- SameClock
  BatchSize = 2
  PageSize = 2
  MayEdit <- EachDeviceOnce
  MaxDiscards = 0
  MaxFaults = 0
SPECIFICATION Spec
INVARIANTS CursorMissesNothing DevicesConverge ServerConvergesUnlessRaced
PROPERTY ImplementsFeed
CHECK_DEADLOCK FALSE
