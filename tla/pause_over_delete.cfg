\* The smallest race of a pause and a delete: one process, one worker.
CONSTANTS
  Procs = {p1}
  Reqs = {r1, r2}
  r1 = r1
  r2 = r2
  Kind <- PauseAndDelete
  Workers = {w1}
  First = w1
  NoOwner = NoOwner
  Tracks = {t1}
  InitStatus = "processing"
  MaxCrashes = 0
  Faults = FALSE
  LateBeats = FALSE
  GiveUp = FALSE
SPECIFICATION Spec
CHECK_DEADLOCK FALSE
PROPERTY DeleteIntentKept
