SPECIFICATION Spec
CONSTANTS
  Platforms = {"xcb", "wayland"}
  Layouts <- MCLayouts
  Numlock = {"on"}
  PowerActions = {"PowerOff"}
  Registered <- MCRegistered
  Screens = {s1, s2}
  None = None
  MaxEvents = 3
INVARIANTS
  KeyboardAgrees
  ViewOnEveryScreen
  OnePressOneAction
PROPERTY EndsWithTheDaemon
CHECK_DEADLOCK FALSE
