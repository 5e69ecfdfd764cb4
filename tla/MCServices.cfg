SPECIFICATION ServicesSpec
CONSTANTS
  Origins = {"home", "other"}
  Home = "home"
  Methods = {"GET", "PUT", "POST"}
  Auths = {"none", "user", "custom", "signed", "digest", "ntlm"}
  MaxRedirects = 2
  MaxAttempts = 2
  RetryUnsafe = FALSE
  Panels = {"p", "q"}
  MaxTokens = 4
  MaxJobs = 4
  Lifetime = 3
  Horizon = 6
CHECK_DEADLOCK FALSE
INVARIANTS
  ServicesTypeOK
  CredentialsStayHome
  LostPostIsNotRepeated
  ExchangesTakeTurns
PROPERTIES
  StopMeansStop
  KeepsThePromise
  WhatBeginsEnds
