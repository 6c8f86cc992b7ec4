CONSTANTS
  d1 = d1
  d2 = d2
  t1 = t1
  t2 = t2
  t3 = t3
  Device = {d1, d2}
  Tab = {t1, t2}
  NoRow = NoRow
  DeviceOf <- TabPerDevice
  Note = {n1}
  Position = {}
  Skew <- FastDevice
  MaxAttempts = 2
  MaxEdits <- OnceEach
  MaxFaults = 1
SPECIFICATION Spec
INVARIANTS SyncedShowsVault UnsyncedIsNoticed
PROPERTIES VaultNeverForgets ApplyKeepsEditsUnlessLate
CHECK_DEADLOCK FALSE
