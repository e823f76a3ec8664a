SPECIFICATION Spec
CONSTANTS
  Texts <- MCTexts
  Words <- MCWords
  PamMessages <- TwoFactor
  Theme = "hash-sddm-theme"
  Autologin = "off"
  ReuseSession = FALSE
  GreeterCrashes = FALSE
  MaxLogins = 2
  MaxDisplays = 1
  MaxMessages = 2
  MaxTyped = 2
INVARIANT
  NoLoginUnanswered
CHECK_DEADLOCK FALSE
