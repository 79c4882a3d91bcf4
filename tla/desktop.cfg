\* One drive, two overlapping connection calls and a request; two transfers
\* of a folder of two files; two stem jobs, one a preview; three bridge requests and two processes; two starts;
\* two batches, one at a time, with one retry each and two file retries; two lists
\* of three rows read one by one with three reads under way; two waveform requests
\* for one track of two imports and another of the first.
CONSTANTS
  Roots = {u1}
  Requests = {r1}
  Calls = {c1, c2}
  NoRoot = NoRoot
  NoCall = NoCall
  Transfers = {t1, t2}
  d1 = d1
  f1 = f1
  f2 = f2
  Folders = {d1}
  FilesOf <- MCFilesOf
  StemJobs = {s1, s2}
  StemPreviews = {s1}
  MaxRuns = 2
  BridgeRequests = {q1, q2, q3}
  BridgeProcs = {k1, k2}
  NoProc = NoProc
  Starts = {a1, a2}
  NoId = NoId
  g1 = g1
  g2 = g2
  UploadWindows <- MCWindows
  BatchLimit = 1
  MaxConcurrent = 1
  MaxAttempts = 2
  FileRetries = 2
  Lists = {l1, l2}
  NoList = NoList
  RowsOf = 3
  PageSize = 1
  MaxAsks = 3
  b2 = b2
  b1 = b1
  m2 = m2
  WaveTracks = {b1, b2}
  SharedStates <- MCSharedStates
  WaveImports = {m1, m2}
  NoWave = NoWave
  WaveAsks = {v1, v2}
SPECIFICATION DesktopSpec
CHECK_DEADLOCK FALSE
INVARIANTS DesktopTypeOK ReleasedIsQuiet AdmittedKeepsRoot CreatedOnce
           OneSeparation ShownIsOwn ConfirmedIsStored
PROPERTIES NothingSentAfterStop DesktopGivenUpIsShown EveryCallReturns
