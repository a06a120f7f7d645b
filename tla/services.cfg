CONSTANTS
  Device = {d1, d2}
  MaxStarts = 2
  None = None
SPECIFICATION ServicesSpec
SYMMETRY DeviceSymmetry
INVARIANTS
  ServicesTypeOK
  ConnectedIsLive
  NothingLeaks
  OneStream
  StoppedAll
CHECK_DEADLOCK FALSE
