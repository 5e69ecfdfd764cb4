SPECIFICATION Spec
CONSTANTS
  f1 = f1
  f2 = f2
  env = env
  Swept <- MCFiles
  Unswept = {}
  Modes <- AllModes
  DefaultMode = "app-key"
  MaxSwitches = 3
  WriteErrors = TRUE
  KeystoreOutages = FALSE
INVARIANT NoSecretLost
