SPECIFICATION Spec
CONSTANTS
  Seats = {"seat0", "seat1"}
  Services = {"activatable"}
  MaxChanges <- MCMaxChanges
  MaxSwitches = 1
INVARIANTS
  RunsGraphicalSeats
  OneSeatPerName
  NoStalePath
CHECK_DEADLOCK FALSE
