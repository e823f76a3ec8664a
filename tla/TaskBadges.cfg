SPECIFICATION Spec
CONSTANTS
  Services = {s1, s2}
  StorageOf <- MCStorageOf
  Items = {i1, i2}
  MenuIdOf <- MCMenuIdOf
  Rules <- MCRules
  Updates <- MCUpdates
  Blacklists <- MCBlacklists
  NaN = NaN
  IntMax = 2
  MaxSends = 2
SYMMETRY Symmetry
INVARIANTS
  ItemsAgree
  NoBadgeOfTheGone
CHECK_DEADLOCK FALSE
