\* Punctual heartbeats and RPCs that answer; processes may still die.
CONSTANTS
  Tokens = {t1, t2, t3}
  NoOwner = NoOwner
  LeaseTime = 3
  Refresh = 1
  MaxDelay = 1
  RpcFails = FALSE
  Crashes = TRUE
SPECIFICATION Spec
INVARIANTS HealthyWorkerOwns SingleWriter
