\* A completed library snapshot whose analysis is paused and resumed.
CONSTANTS
  Procs = {p1}
  Reqs = {r1, r2}
  r1 = r1
  r2 = r2
  Kind <- PauseAndResume
  Workers = {w1, w2}
  First = w1
  NoOwner = NoOwner
  Tracks = {t1}
  InitStatus = "completed"
  MaxCrashes = 0
  Faults = FALSE
  LateBeats = FALSE
  GiveUp = FALSE
SPECIFICATION Spec
CHECK_DEADLOCK FALSE
PROPERTY ResumeHonoured
