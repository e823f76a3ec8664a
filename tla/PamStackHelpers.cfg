SPECIFICATION Spec
CONSTANTS
  Services = {"sddm", "kde"}
  Original <- MCOriginal
  Methods = {"face", "totp"}
  Procs = {p1, p2}
  Stamps = {1}
SYMMETRY Symmetry
INVARIANTS
  FallbackKept
  OriginalKept
  StackOrder
PROPERTIES
  WritesWhatIsAsked
