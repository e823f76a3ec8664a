SPECIFICATION Spec
CONSTANTS
  Texts <- MCTexts
  Words <- MCWords
  PamMessages <- PasswordChange
  Theme = "hash-sddm-theme"
  Autologin = "always"
  ReuseSession = TRUE
  GreeterCrashes = FALSE
  MaxLogins = 3
  MaxDisplays = 2
  MaxMessages = 2
  MaxTyped = 1
INVARIANTS
  AutologinIsNotInherited
CHECK_DEADLOCK FALSE
