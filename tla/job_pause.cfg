\* A pause and a delete over two processes; calls fail and the delete finalizer
\* may give up.
CONSTANTS
  Procs = {p1, p2}
  Reqs = {r1, r2}
  r1 = r1
  r2 = r2
  Kind <- PauseAndDelete
  Workers = {w1, w2}
  First = w1
  NoOwner = NoOwner
  Tracks = {t1}
  InitStatus = "processing"
  MaxCrashes = 0
  Faults = TRUE
  LateBeats = FALSE
  GiveUp = TRUE
SPECIFICATION Spec
CHECK_DEADLOCK FALSE
INVARIANTS PausedIsQuiet NotStranded CompletedIsTruthful
