SPECIFICATION FaultSpec
CONSTANTS
  f1 = f1
  f2 = f2
  env = env
  Swept <- MCFiles
  Unswept = {}
  Modes <- AllModes
  DefaultMode = "app-key"
  MaxSwitches = 4
  PromptlessSwitches = 3
  WriteErrors = FALSE
  KeystoreOutages = FALSE
INVARIANTS
  TypeOK
  NoSecretLost
  SecretsStayReadable
  SealedUnderTheMode
  FaultsLoseNoSecret
PROPERTY SwitchesAreFinished
