\* Two imports, with four operations of the dialog and one of them at a time
\* waiting for its session; two rows of the imports list with one activation
\* or deletion; one track with two cue sets, two revisions and two Rekordbox
\* edits or writes; a grid of eight beats with three phrases and two edits of
\* the cues; two tracks with two genres, two revisions, one write or edit,
\* two operations of the bridge and two runs of the page or of another
\* session that overlap; two tracks to play with three calls under way; two
\* flips of two pairs, stems of one and two beats and two drags; two loading
\* passes of the Drop Lab preview for two pairs with one source, and two
\* cached buffers; three runs of the Resume Analysis dialog for two imports;
\* two syncs of three tracks by two workers with one slot, one original
\* edited; pools of six tracks with one partner each and three pairs; two
\* applies and one change made by Rekordbox.
CONSTANTS
  Flows = {w1, w2}
  NoFlow = NoFlow
  MaxOperations = 4
  MaxPending = 1
  MaxLibraries = 2
  MaxLibraryActs = 1
  DeleteRetries = 1
  CueSets = {v0, v1}
  Imported = v0
  NoCues = NoCues
  MaxRevision = 2
  MaxGeneration = 2
  MaxLoads = 2
  MaxSaves = 1
  GenreTracks = {n1, n2}
  Genres = {x0, x1}
  CanonicalGenre = x0
  GenreRuns = {q1, q2}
  NoGenreRun = NoGenreRun
  MaxGenreRevision = 2
  MaxLocalGen = 1
  MaxGenreOps = 2
  MaxEdits = 1
  GridBeats = 8
  Upbeats = 1
  BarBeats = 2
  LoopBars = 1
  LeadBars = 2
  NearBars = 1
  PhraseBeats = {3, 4, 6}
  Places = {0, 3, 7}
  SlotsTried = {1, 3}
  MaxCueEdits = 2
  MaxAdded = 1
  PlayerTracks = {p1, p2}
  NoTrack = NoTrack
  MaxPlayCalls = 3
  FlipRuns = {h1, h2}
  NoFlip = NoFlip
  FlipPairs = {j1, j2}
  NoPair = NoPair
  VocalSpan = 1
  InstrSpan = 2
  VocalDownbeat = 1
  InstrDownbeat = 0
  MaxMoves = 2
  z0 = z0
  z1 = z1
  z2 = z2
  PreviewPairs <- MCPreviewPairs
  NoPreview = NoPreview
  Cached = Cached
  MaxCached = 2
  MaxPreviewRuns = 2
  ResumeRuns = {e1, e2, e3}
  NoResume = NoResume
  ResumeImports = {m1, m2}
  Encodes = {k1, k2, k3}
  EncodeLimit = 1
  SyncWorkers = 2
  SyncTries = 2
  EditedOriginals = {k1}
  MaxSyncs = 2
  Tracks <- MCTracks
  BpmTolerance = 5
  MaxPairs = 3
  MaxPartners = 1
  Applies = {o1, o2}
  BoxEdits = {b1}
SPECIFICATION WebSpec
CHECK_DEADLOCK FALSE
INVARIANTS WebTypeOK AnnouncedIsTrue AppliedWasWritten AcknowledgedSaveStays
           ReceiptsComeFirst CloudFollowsRekordbox LatestIsCurrent
           ComputedIsRight EditsSurvive ReplacedIsRecoverable
PROPERTIES  LocalEditsSurvive EditsKeepTheRest OutcomeIsTrue
