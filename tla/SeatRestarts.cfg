SPECIFICATION FairSpec
CONSTANTS
  DefaultTypes = {"x11", "wayland"}
  Autologin = "first"
  MaxDisplays = 2
  MaxSwitches = 0
  MaxTries = 3
  TtyLimit = 5
INVARIANTS
  GreeterStopIsSafe
PROPERTIES
  HelperEndRemovesDisplay
  SeatComesBack
CHECK_DEADLOCK FALSE
