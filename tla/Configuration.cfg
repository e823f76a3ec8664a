CONSTANTS
  WaylandDirs <- MCWayland
  X11Dirs <- MCX11
  Names <- MCNames
  Threshold = 1
  MainEdits <- MCMainEdits
  StateFiles <- MCStateFiles
  SessionEdits <- MCSessionEdits
  Accounts <- MCAccounts
  FirstSessions <- MCFirstSessions
  AutologinUser = 2
  MaxEdits = 2
  MaxChanges = 1
SPECIFICATION Spec
INVARIANTS
  SaveAndLoadAgree
  UnknownLinesSurvive
  MainFollowsFiles
  PreselectsTheLastLogin
