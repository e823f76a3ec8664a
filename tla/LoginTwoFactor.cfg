SPECIFICATION FairSpec
CONSTANTS
  Texts <- MCTexts
  Words <- MCWords
  PamMessages <- TwoFactorWithErrors
  Theme = "hash-theme"
  Autologin = "off"
  ReuseSession = FALSE
  GreeterCrashes = TRUE
  MaxLogins = 2
  MaxDisplays = 2
  MaxMessages = 2
  MaxTyped = 2
INVARIANTS
  TypeOK
  LockStep
  PendingIsAwaited
  OneIdentity
  AnswersFitQuestions
PROPERTIES
  ImplementsLoginService
  AuthenticationEnds
CHECK_DEADLOCK FALSE
