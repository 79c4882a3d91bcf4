\* Heartbeats up to a whole lease late, RPCs that fail, processes that die.
CONSTANTS
  Tokens = {t1, t2}
  NoOwner = NoOwner
  LeaseTime = 3
  Refresh = 1
  MaxDelay = 3
  RpcFails = TRUE
  Crashes = TRUE
SPECIFICATION FairSpec
INVARIANTS TypeOK DisplacedWorkerStops
PROPERTIES ImplementsExclusiveLease Reclaimable
