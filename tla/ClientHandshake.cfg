\* Three attempts on one connection; the clock passes the default validity.
SPECIFICATION LiveSpec
CONSTANTS
  MaxUint64 = 15
  Skew = 1
  DefaultValidity = 1
  Envs <- SomeEnvs
  Server = "server"
  TrustStores <- SomeStores
  None = None
  FirstNow = 4
  LastNow = 6
  MaxAttempts = 3
  MaxChanges = 2
  MaxStray = 1
CHECK_DEADLOCK FALSE
INVARIANTS
  SessionsAgree
  AcceptedWithinValidity
  TrustComplete
PROPERTIES
  Connects
