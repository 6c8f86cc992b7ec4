CONSTANTS
  d1 = d1
  d2 = d2
  t1 = t1
  t2 = t2
  Device = {d1}
  Tab = {t1, t2}
  Web = Web
  NoRow = NoRow
  DeviceOf <- OneDevice
  Note = {n1}
  Position = {}
  Skew <- SameClock
  BatchSize = 1
  PageSize = 1
  MayEdit <- EachDeviceOnce
  MaxDiscards = 0
  MaxFaults = 1
SPECIFICATION FairSpec
INVARIANT TypeOK
PROPERTIES FlushEnds QueueSettles
CHECK_DEADLOCK FALSE
