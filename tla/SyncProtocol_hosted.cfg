CONSTANTS
  d1 = d1
  d2 = d2
  t1 = t1
  t2 = t2
  Device = {d1}
  Tab = {t1}
  Web = Web
  NoRow = NoRow
  DeviceOf <- OneDevice
  Note = {n1}
  Position = {p1}
  Skew <- FastWeb
  BatchSize = 1
  PageSize = 1
  MayEdit <- ThreeEdits
  MaxDiscards = 1
  MaxFaults = 0
SPECIFICATION Spec
INVARIANTS SentIsNotLost StaleNeverLoggedUnlessRaced
CHECK_DEADLOCK FALSE
