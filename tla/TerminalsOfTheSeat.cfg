SPECIFICATION Spec
SYMMETRY Symmetry
CONSTANTS
  Terminals = {1, 2, 3}
  InitialVt = 1
  Types = {"x11", "wayland"}
  Autologin = {TRUE, FALSE}
  Others = {2}
  Numbers = {d1, d2}
  d1 = d1
  d2 = d2
  MaxLogins = 2
  MaxOrphans = 1
INVARIANTS
  ViewsAgree
PROPERTIES
  TakenIsNotGivenAgain
  JumpLands
CHECK_DEADLOCK FALSE
