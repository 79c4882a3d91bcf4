\* A worker, a second start of the analysis and a delete, spread over two processes;
\* no call fails and no process dies.
CONSTANTS
  Procs = {p1, p2}
  Reqs = {r1, r2}
  r1 = r1
  r2 = r2
  Kind <- CompleteAndDelete
  Workers = {w1, w2}
  First = w1
  NoOwner = NoOwner
  Tracks = {t1, t2}
  InitStatus = "processing"
  MaxCrashes = 0
  Faults = FALSE
  LateBeats = FALSE
  GiveUp = FALSE
SPECIFICATION FairSpec
CHECK_DEADLOCK FALSE
INVARIANTS NoCleanupUnderWriter DeleteLeavesNothing
PROPERTIES DeleteIntentKept DeletionSettles
