SPECIFICATION Spec
CONSTANTS
  DefaultTypes = {"wayland"}
  Autologin = "off"
  MaxDisplays = 3
  MaxSwitches = 1
  MaxTries = 3
  TtyLimit = 1
INVARIANTS
  SeatKeepsADisplay
  OneDisplayPerRequest
CHECK_DEADLOCK FALSE
