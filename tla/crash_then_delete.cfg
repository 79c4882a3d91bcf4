\* One process dies, restarts, and the import is deleted.
CONSTANTS
  Procs = {p1}
  Reqs = {r1, r2}
  r1 = r1
  r2 = r2
  Kind <- ResumeAndDelete
  Workers = {w1, w2}
  First = w1
  NoOwner = NoOwner
  Tracks = {t1}
  InitStatus = "processing"
  MaxCrashes = 1
  Faults = FALSE
  LateBeats = FALSE
  GiveUp = FALSE
SPECIFICATION Spec
CHECK_DEADLOCK FALSE
INVARIANT DeleteLeavesNothing
