\* One process that may die once, leases that may expire under a live worker,
\* calls that fail.
CONSTANTS
  Procs = {p1}
  Reqs = {r1, r2}
  r1 = r1
  r2 = r2
  Kind <- ResumeAndDelete
  Workers = {w1, w2}
  First = w1
  NoOwner = NoOwner
  Tracks = {t1}
  InitStatus = "processing"
  MaxCrashes = 1
  Faults = TRUE
  LateBeats = TRUE
  GiveUp = TRUE
SPECIFICATION Spec
CHECK_DEADLOCK FALSE
INVARIANTS TypeOK WritersAreRegistered RegistryReleased
