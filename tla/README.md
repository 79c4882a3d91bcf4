# DropDex: models, checks and proofs

DropDex copies a Rekordbox library from a USB drive to the cloud, analyses the
tracks, lets the user edit cues and genres, and writes them back to the local
Rekordbox database.  This directory holds TLA+ models of the parts whose
behaviour depends on interleavings, failures and restarts, the TLC
configurations that check them, and proofs for TLAPS.

## 1. The system

| part | state it keeps | operations |
|---|---|---|
| Import job lifecycle, `backend/app/import_jobs.py` and the transition trigger | row of `rekordbox_imports`: status, analysis status, worker status, worker acknowledgement, delete strategy | transition, pause, finalize pause, delete, delete finalizer, cleanup, complete, startup recovery |
| Worker lease, `analysis_worker_lease.py`, SQL claim/renew/release | row of `rekordbox_import_worker_leases`: owner token, expiry; per worker a stop flag, a next refresh time, a heartbeat thread | claim, heartbeat, checkpoint, read stop intent, release |
| Worker registry, `import_worker_registry.py` | per process and import: active, pause and delete requested, acknowledged | register, request stop, checkpoint, acknowledge, clear |
| Analysis service and fast pipeline | `_BACKGROUND_WORKERS`; the worker thread's progress; storage objects and the rows that name them | start, worker loop and its exception handlers, complete, resume, startup requeue |
| Hard delete, retained dependencies | edges between imports, active-import pointer | begin, delete, repair active library |
| Raw archival, staging, library import, discovery jobs | archival status, staged files, tracks and playlists, job rows | archive, stage, parse and insert, scrape |
| USB streams, `electron/usbStreamRegistry.cjs`, `main.cjs` | gate, pending requests, open streams, running sweeps, connection, saved connection, media tokens | admit, open, close, release, disconnect, select, reconnect |
| USB transfer, `usbTransfer.cjs` | per transfer its plan, progress and cancel flag; the destination's files | plan, copy, cancel, finish |
| Stem separation, `stemSeparationBridge.cjs` | queue, the running worker, published directories, subscribers | prepare, run, time out, publish, cancel, clear |
| Preview encodes, `main.cjs` | slot counter, queue of waiters | encode, wait, release |
| Bridge process, `cueApplyBridge.cjs` | child, pending map with timers, output buffer | request, answer, time out, exit, close |
| Installation identity, `installationIdentity.cjs` | the identity file | read, create, publish by link |
| Rekordbox apply, `bridge/rekordbox_bridge/` | tokens, staged copy and backup of `master.db`, the live file | preflight, apply, verify, roll back |
| Analysis upload, `targetedAnalysisTransfer.ts`, `cancellableUploadQueue.ts`, `analysisUploadResults.ts` | windows, batches, file results, stop signal | read, send, retry, settle, abort |
| Import dialog, `ImportLibraryModal.tsx` | phase, operation number, import row and files, questions, pending run | choose, read, create, upload, parse, pause, delete, background, reopen |
| Imports list, `useImportList.ts`, `useLatestRekordboxImport.ts`, `App.tsx` | rows shown, poll, active import, pending deletions | poll, activate, delete, announce |
| Cue page, `CuePointsView.tsx` and the draft RPCs | draft, baseline, preflight, apply state, recovery record | load, edit, save, preflight, apply, mark, rebase |
| Cue editor, `cueEditorState.ts`, `autoCueStrategy.ts` | working cues, their pairs | move, recolour as point or loop, delete, Auto Cue |
| Genre drafts and their Apply, `CuePointsView.tsx`, `metadataApplyOrchestration.ts` | drafts, receipts, operations, local locks | save, discard, preflight, apply, record, finalize, recover |
| Player, `AudioPlayerContext.tsx` | play request, source, phase, media element | play, resolve, poll, disconnect, toggle |
| Flip Lab, `useFlipLab.ts`, `flipLabEngine.ts` | pair, phase, generation, buffers, transport | flip, clear, shift key, play, pause, seek, move stem |
| Resume Analysis dialog, `ResumeAnalysisModal.tsx` | selection, status, assets found, upload result | choose, read status, discover, upload, resume, release |
| Track lists and preview waveforms, `useRekordboxTracks.ts`, `useTrackPreviewWaveforms.ts` | rows, request ids, pages; cached waveforms, pending and running requests | search, load more, refresh; request, answer, retry, invalidate |
| Cloud previews, `previewSync.ts`, `previewStorage.ts`, encoder slots of `main.cjs` | jobs, workers, stored files and rows, encoder slots and waiters | list, encode, upload, record, cancel |
| Roulette and Drop Lab matching, `features/roulette` | index by key and tempo | probe, rank, bound, report truncation |
| Drop Lab preview, `useDropLabPreview.ts`, `decodedAudioCache.ts` | pair, request id, buffers, nodes; cached buffers and loads that may be joined | load, join, cancel, time out, play, stop |
| Setlists, discovery pages | loads with their generations | load, scrape |
| Backend accounts, remaining views, offline importer | — | sequential or presentational |

How they interact.  A request starts an analysis worker in its own API process:
the *database lease* decides which process may run it, the *registry* of the
process is how a request of the same process tells the worker to stop, and the
*row* is how a request of another process does.  Pause and delete write their
intent to the row, signal the registry, wait a bounded time until the registry
and the lease are both inactive, and then finalize; a delete that times out
leaves a finalizer thread.  Every database access is a separate call, so each of
these threads acts on rows that others may have changed.  A process that dies
loses its registry and its threads and leaves its lease and the rows behind; a
starting process recovers them.

In the desktop application one main process owns the drive: windows ask it to
connect and release, its media protocol opens streams, and three bridges run
child processes (Rekordbox apply, stem separation, preview encoding).  The pages
of the renderer are callbacks between awaits: a page asks a backend, the main
process or a bridge, and goes on with whatever its state has become when the
answer arrives.  Each guards itself with a generation or operation number, a
fingerprint or a revision; the properties ask whether those suffice.

What is hard: stale reads before unconditional updates; two owners when a
heartbeat is late; the order of "acknowledge", "release the lease" and "publish
the state"; failures between storage and rows; restarts before a lease expires;
answers that arrive after a cancel, a new request or an unplugged drive; answers
that never arrive although the work was done; a file that another program
replaces between a check and its use.  `PROJECT.json` lists each hazard at its
line.

What makes the parts correct:

* lease: at most one owner; a displaced worker stops soon; a dead owner's lease
  becomes claimable; a healthy worker keeps it;
* registry: a worker that may write can be reached, and an entry never outlives
  its worker;
* lifecycle: destructive cleanup never overlaps a writer; an accepted delete is
  never taken back, leaves nothing and ends; paused means quiet; nothing ends in a
  state from which the user cannot go on; completed is true of the tracks;
* desktop: released means that nothing reads the drive; limits hold; nothing is
  overwritten or published twice; a success was carried out for that very request;
  every call is answered;
* pages: what is announced has happened; a superseded run is silent; the latest
  request decides; local work and other sessions' work are never overwritten
  unseen; what is recorded as applied was written;
* apply service: Rekordbox's changes survive, what was replaced can be restored,
  and the reported outcome is the file's.

## 2. Modules

| module | models | reading guide |
|---|---|---|
| `ExclusiveLease` | what the lease promises: `owner`, `valid`, `spent`; claim, renew, release, expire, delete | abstract specification |
| `WorkerLease` | `analysis_worker_lease.py` and the three SQL functions | one action per call, its answer and its loss; the worker, its heartbeat thread and `release()` are separate threads |
| `ImportJob` | one import: row with trigger, registries, lease (an instance of `ExclusiveLease`), worker threads, requests, finalizer, startup | one action per database access; an actor's program counter `pc` says where its handler stands |
| `WorkerLease_proofs`, `ImportJob_proofs`, `ImportJobDelete_proofs`, `ImportJobPause_proofs`, `Desktop_proofs`, `Apply_proofs`, `Music_proofs`, `Web_proofs` | theorems | section 5 |
| `UsbStreams` | the main process's access to the drive | requests, sweeps and connection calls interleave; a sweep that a reconnect forgot goes on |
| `UsbView` | extends `UsbStreams` with a window's polled picture of the connection | the main process inspects the drive before it answers a poll |
| `UsbTransfer` | copying the drive | destination files as a set; partial files, cancel, two transfers |
| `StemSeparation` | the job queue of the separator | a job is its code between two awaits; a timed-out worker goes on exiting |
| `RekordboxBridge` | the child process of the apply bridge | late answers, torn buffers, exit events of replaced children |
| `InstallationId` | the identity file | one action per file call |
| `AnalysisUpload` | windows, batches, retries, the stop signal and the counts | a batch is an asynchronous function |
| `LibraryImport` | the import dialog | a *flow* is one run of `startUsbFolderImport`; the operation number decides whether it may go on |
| `ImportList` | list, poll, active library, deletions and announcements | rows are changed by the backend at any time |
| `CueDrafts` | one track's cue draft on the page, in the cloud and in Rekordbox | `cdLocal`, `cdServer`, `cdBook`; answers may be late or lost |
| `Ordering` | `Array.sort` and `Array.filter` | the places of a list in order, without recursion, so that proofs can use it |
| `CueEditor` | the working cues, their Memory pairs and Auto Cue | pure edits on a small beat grid |
| `GenreDrafts` | genre drafts, receipts, operations, finalization and recovery | a *run* is one call of a handler; runs of the page overlap, and other sessions save, discard, apply and recover beside them |
| `AudioPlayer` | play requests from drive, file and preview | the media element reports late |
| `ApplyService` | the Python apply service on `master.db` | a generation of the file is the set of changes in it |
| `FlipLab` | two tracks, their separation, the engine's transport and key shifts | a separation is known by its pair and generation; the audio clock moves in steps of a beat |
| `DropLabPreview` | passes of the load effect, the loads of a track, the cache of buffers | a load is known by the pass that began it and its track; the cache's generation is left out, since a clear also takes the loads under way out of `pending` |
| `ResumeAnalysis` | the dialog that resumes an interrupted analysis | a run of the dialog is one selection of a folder; an older run may wake after a newer one has begun |
| `LibraryPages` | paged track lists | rows are numbered; answers carry the request that asked |
| `TrackWaveforms` | preview waveforms of visible rows | cache with error, unavailable and ready entries; progress events of other rows |
| `PreviewEncodes`, `PreviewSync` | the encoder slots, and the synchronisation that uses them | `PreviewSync` extends `PreviewEncodes`: an encode is a step of a job |
| `RoulettePairs` | the matching of vocals and instrumentals | pure: the pruned search against its definition, for every pool of tracks |
| `MCImportJob`, `MCDesktop`, `MCWeb` | compositions and instances for TLC | below |

`ImportJob` uses `ExclusiveLease` for the lease instead of `WorkerLease`: the
refinement proved in `WorkerLease_proofs` is what makes that sound.  The
composition is `Lease == INSTANCE ExclusiveLease WITH Tokens <- Workers, ...`.

`MCDesktop` and `MCWeb` check several components in one run each.  The components
of one of them share no state that the models tell apart, so a behaviour picks one,
its *scene*, and the others keep their initial values: the state space is the sum
of the parts and not their product.  Where components do interact the
interaction is inside a module: `UsbView` reads `UsbStreams`, `CueDrafts` and
`GenreDrafts` contain the page, the server and Rekordbox, `ImportList` the backend.

Correspondence of `ImportJob` with the code.  `row` holds the five columns the
control depends on (`status`, `analysis` = `analysis_status`, `worker` =
`analysis_worker_status`, `ack` = `analysis_worker_stopped_acknowledged`,
`strategy` = `delete_active_strategy`).  `Save` is `_update_import_row`: an
update by primary key that the trigger may reject, in which case the handler
raises.  `reg[p]` is the registry of process `p`; `events[p]` the local
cancellation event.  `seen[a]` is the row as thread `a` last read it: whatever an
action decides from `seen` may be stale.  Labels `w_*` are the worker, `p_*`
pause, `r_*` resume, `k_*` complete, `d_*` and `f_*` delete and its finalizer,
`c_*` cleanup, `b_*` startup.  `intent` is a history variable: the strategy of the
first accepted delete.  `_BACKGROUND_WORKERS` is `Background`, derived from `pc`.
A track has one waveform object, one row that names it and one final status
(`objects`, `waves`, `done`).  The legacy status `partial` of a single track counts
as done.  Two updates of the worker's publish that follow each other without a
read in between are one step.  The outcome of the dependency gate is
nondeterministic and allowed only with `Faults`.  The row is created, uploaded and
queued before the initial state, in which a first worker has been started.

Correspondence of the JavaScript modules.  One action is the code between two
awaits, because nothing else of the same process runs there; variables are named
after the page's state and refs, with the module's prefix (`us`, `cd`, `ge`, ...).
`GenreDrafts` keeps one record per run of `handleMetadataPreflightAll`, `...ApplyAll`
or `...Recovery`.  The page's busy flag and generation are one variable, the run that is
busy: the effect on the review key (`CuePointsView.tsx:2335-2339`) and the end of the run
free both together, so a second run may start while the first goes on.  A run belongs to
the page, to another session, which may use the Rekordbox of another computer, or to a
window that was closed after it had sent its requests.  An RPC commits and is answered,
commits and its answer is lost, or fails; one that failed at the page does not commit
later, except in a closed window.  `gdVerified` and `gdReceipts` are history: what the
bridge reported as written and verified, and which receipts were recorded.
React's batched state is read where the code reads it: a value captured by a
closure is a field of the run that captured it, a ref is the shared variable.
History variables (marked in the modules) record what was really written, sent or
shown, and occur in properties only.

## 3. Runs

| run | shows | bounds | why they are enough |
|---|---|---|---|
| `lease_late` | `DisplacedWorkerStops`, `Reclaimable`, `ImplementsExclusiveLease`, `TypeOK` with late heartbeats, failing RPCs, deaths | 2 tokens, lease 3, refresh 1, delay up to 3 | delay = lease time is the smallest at which a live worker is displaced; two tokens give every displacement; more come from the proofs |
| `lease_punctual` | `HealthyWorkerOwns`, `SingleWriter` with punctual heartbeats | 3 tokens, lease 3, refresh 1, delay 1 | refresh + delay < lease, the condition of the code's settings; a third token waits while two change places |
| `job_delete` | `NoCleanupUnderWriter`, `DeleteLeavesNothing`, `DeleteIntentKept`, `DeletionSettles` | 2 processes, a running worker, one complete and one delete request, 2 tracks, no failure | delete may reach the process of the worker or the other one; a second start claims the lease at any point of the delete; two tracks give a checkpoint between writes |
| `job_pause` | `PausedIsQuiet`, `NotStranded`, `CompletedIsTruthful` | 2 processes, one pause and one delete, 1 track, failing calls, finalizer gives up | both orders, both processes, wait ended or timed out |
| `job_faults` | `WritersAreRegistered`, `RegistryReleased`, `TypeOK` | 1 process, one death, late leases, failing calls, one resume and one delete | every exception handler of the worker and every startup path, with a second worker after the first |
| `desktop` | the desktop scenes, table below | one drive, one request and two connection calls; two transfers of one folder of two files; two stem jobs, one a preview, two runs; three bridge requests, two processes; two starts; two upload files in batches of one, two attempts, two retry passes; two lists of three rows in pages of one, three reads; waveforms of two tracks in two imports, two requests | two overlapping calls are what makes a sweep be forgotten; a third bridge request meets the second process while an answer of the first is late; three reads are a first page, a next one and a refresh or another list between them; two waveform requests are an old and a new answer |
| `web` | the web scenes, table below | see the constants in `web.cfg` | two of everything that races (flows, libraries, revisions, tracks, applies, flips), three selections of the resume dialog and three encodes (one holds a slot, one waits, one arrives as it is handed over), one repetition of what is retried; the editor's grid of 8 beats holds a phrase at each end and one between |
| `pause_over_delete` | violates `DeleteIntentKept` | 1 process, 1 worker, no failure | finding 1 |
| `restart_within_lease` | violates `NotStranded` | 1 process, one death | finding 2 |
| `crash_then_delete` | violates `DeleteLeavesNothing` | 1 process, one death | finding 3 |
| `resume_completed` | violates `ResumeHonoured` | 1 process, `completed` snapshot | finding 4 |
| `pause_deletes` | violates `PauseNeverDeletes` | one import | finding 5 |

Scenes of `desktop`:

| scene | properties |
|---|---|
| usb (`UsbStreams`, `UsbView`) | `ReleasedIsQuiet`, `AdmittedKeepsRoot`, `DesktopGivenUpIsShown` (liveness), release part of `EveryCallReturns` (liveness) |
| transfer | no file of the destination is replaced (part of `CreatedOnce`) |
| identity | every start returns the identifier on disk (part of `CreatedOnce`) |
| stems | one separation at a time (`OneSeparation`), every prepare settles (part of `EveryCallReturns`, liveness) |
| bridge | a success is the answer of that request (part of `ShownIsOwn`) |
| pages | the rows shown are of the list asked for, whole and each once, and what is loading has a request (part of `ShownIsOwn`) |
| waves | a waveform shown is of the import and from the latest request, and loading rows have a request (part of `ShownIsOwn`) |
| upload | `ConfirmedIsStored`, `NothingSentAfterStop` (action property), uploads return (part of `EveryCallReturns`, liveness) |

Scenes of `web`:

| scene | properties |
|---|---|
| import | after "USB access released" no run is before or in its transfer, no batch is being sent, and only aborted lookups may still be answered (part of `AnnouncedIsTrue`), `SupersededIsSilent` (action property) |
| list | a book called deleted is gone (part of `AnnouncedIsTrue`), the library shown is the one of the settings (part of `LatestIsCurrent`) |
| cues | `LocalEditsSurvive` (action property), `AppliedWasWritten`, `AcknowledgedSaveStays` |
| genres | `ReceiptsComeFirst`, `CloudFollowsRekordbox` |
| editor | edits stay saveable (part of `EditsKeepTheRest`, action property), generated cues fit (part of `ComputedIsRight`) |
| player | the track heard is the one shown (part of `LatestIsCurrent`) |
| apply | `EditsSurvive`, `ReplacedIsRecoverable`, `OutcomeIsTrue` (action property) |
| flip | the pair heard is the pair shown (part of `LatestIsCurrent`), a drag leaves the other stem where it was (part of `EditsKeepTheRest`) |
| preview | what is ready or heard is the pair shown (part of `LatestIsCurrent`), a preview being prepared is being loaded (part of `AnnouncedIsTrue`) |
| resume | a dialog at work has work under way, and the result it shows is of its import (part of `AnnouncedIsTrue`) |
| sync | previews counted as synced are stored and listed, counts add up, slots in use are encoders at work (part of `AnnouncedIsTrue`) |
| pairs | the index finds the pairs of the full ranking or reports that it stopped early (part of `ComputedIsRight`) |

Bounds are constants: in the backend models `MaxCrashes` (deaths), `MaxDelay` (how
late a thread wakes), `Faults`, `LateBeats`, `GiveUp` (which failures may happen);
in the pages `MaxOperations`, `MaxLoads`, `MaxRevision` and the like count what the
user or another session may still start.  A request is made once; a worker is a
thread, hence never reused.  Four operations of the dialog are the choice of a drive, an import, its reset
and a second import, beside which the parse loop of the first may still delete (section 4);
`MaxPending = 1` leaves out the double press of Import, after which the properties claim
nothing (`imMixed`); the theorems hold for any number of operations and presses.  `MaxLocalGen = 1` allows one write or one edit in
Rekordbox per track; `CuesBounded` lets cue saves and changes by Rekordbox together
happen three times.  `GenresBounded` lets genre drafts be saved and the bridge be asked
three times in all; two runs overlap on one track, and one run covers two tracks: that is
what an outcome marked late by another run and a partly failed set of receipts take.  Two passes of the Drop Lab's effect are one that is
superseded and one that joins its loads; `pairs` ranks all 4,096 pools of six tracks.  `web` checks no
liveness.  Behaviours of these models end when everything was asked and answered, so
deadlock is not checked there; it is for `WorkerLease`.

Fairness.  `FairSpec` of `WorkerLease`: time passes, heartbeat threads run and a
`release()` that has begun goes on; nothing is assumed of the worker, whose unit of
work may take any time.  `FairSpec` of `ImportJob`: the steps of threads that
have begun, of startup, and expiry of a lease nobody renews.  `DesktopFairness`:
polling timers and deadlines fire, a file call that has begun ends, the window
polls, a stem worker is ended by its time limit at the latest, and an upload whose
requests have time limits goes on.  That is what the operating system, the event
loop and the clock give; nobody is obliged to make a request, to crash, to fail, to
answer the bridge or to close a stream.  Liveness is checked without symmetry.

## 4. Findings and known divergences

The five violation runs are real disagreements between the code and its
documents; each quotes the document in `PROJECT.json`.

1. *A pause takes back a delete* (`pause_over_delete`): `finalize_paused_import`
   treats `stopping` as its own although delete writes it too.
2. *Restart within the lease time strands the job* (`restart_within_lease`):
   recovery skips it and never comes back.
3. *A death leaves a waveform object no delete finds* (`crash_then_delete`).
4. *A completed snapshot cannot be resumed* (`resume_completed`): the endpoint
   accepts it, the trigger refuses it.
5. *Confirming a pause deletes a finished import* (`pause_deletes`): the dialog
   decides by the phase at the moment of the answer and falls through to deletion.

The rest of this section lists divergences seen while modelling that have no run of
their own.  Where a property would fail because of one of them, the property says
what it exempts.

Backend:

* a restart reads `stopping` with worker status `stopping` as a pause, so the
  intent of a delete that had timed out is lost (`import_jobs.py:1553-1564`);
* the failure handlers of the worker and its starter write `interrupted` over a
  pending delete (`analysis_import_service.py:2971-2993`, `3312-3331`);
* two deletes that both read before either writes keep the later strategy, although
  the comment at `import_jobs.py:1266` gives the intent to the first;
* cleanup that finds an owner again writes `stopping` and leaves no finalizer
  (`import_jobs.py:1024-1035`): the delete stays recorded and needs a retry;
* pausing through another process than the worker's is finalized only by the
  worker (`docs/rekordbox-usb-import-safety.md:82`);
* `analysis_worker_stopped_acknowledged` of a delete comes from the local registry
  and may be true while a worker of another process writes;
* recovery checks the lease and then writes; a claim in between is overwritten
  (`import_jobs.py:1539-1602`);
* with heartbeats later than a lease, cleanup, pause and delete can overlap the
  writes of a displaced worker until its next checkpoint; `lease_late` bounds how
  long, and the runs on cleanup assume `LateBeats = FALSE`;
* `lease_row_is_active` compares the database's expiry with the API host's clock;
  the models have one clock.

Desktop:

* previews (`main.cjs:741-753`), transfers (`main.cjs:686`) and stem workers read the
  drive without registering with `usbStreams`: a release reports it free meanwhile;
* a transfer passes over folders it cannot read and reports `completed`
  (`usbTransfer.cjs`, `walkFiles`); the check at `main.cjs:667` and the assignment at
  `683` let two transfers start (`UsbTransfer` allows it);
* a timed-out stem worker is replaced before it has exited; a prepare joins a job
  that was cancelled and has not settled; a job may publish although cancelled;
* the exit event of an old bridge process clears the new child
  (`cueApplyBridge.cjs:295-298`), and the two share one output buffer;
* a poll reads `usbConnection.volumeName` after a release (`main.cjs:284-318`) and
  fails; a release that timed out leaves the gate closed while "connected"; a
  focus check of the browser build reconnects the screen after a release.

Import dialog and list:

* the refs of the dialog are one object for all runs.  The parse loop of a superseded
  run, aborted, deletes the import of a newer one when the user has asked that one for a
  deletion (`ImportLibraryModal.tsx:1454-1456`); a hard delete acts on the phase of the render that opened its question
  (802-825);
* the same lines reset and close the dialog of a newer run that is still creating its
  import, when that run's user has confirmed "cancel and close" and the aborted request of
  an older one answers only then (it was waiting for a new access token).  If a third
  import is started now, the answer of the second cleans up what belongs to the third, and
  "USB access released" is shown while its database is still read from the drive; and the
  second, superseded, still writes on the screen.  A double press of Import mixes two runs
  up in the same way.  The history variable `imMixed` records both, and `ReleaseIsReal` and
  `SupersededIsSilent` speak of a dialog where neither has happened.  Without it TLC
  refutes the first with three `Flows` and five operations, the second with two and four;
* `usbTargetedDiscovery.ts:145-207`: one failing lookup rejects while other workers
  still read the drive;
* a cancel while the row is being created leaves
  it without an owner; Continue in Background leaves a stale parsing screen;
* a poll answer that was sent before a deletion overwrites its row
  (`useImportList.ts:74-115`): the page then reports that the import "disappeared
  unexpectedly" and the deletion stays pending; a paused import is announced as
  failed (`App.tsx:631-637`); a late automatic activation after a deletion can
  re-activate a library.

Cue and genre pages:

* Save, Cancel (`CuePointsView.tsx:4274`) or a change of import during Apply drops
  the verified result before its recovery record is made (3658-3660) and leaves the
  page busy (3714); Cancel during the request does not stop the write (3609-3629);
* a late answer of the mark call overwrites a later save (3330-3341); the recovery
  record is React state only; a rebase that another session's save has overtaken can
  never succeed; enrolling a baseline may use another track's fingerprint (3523);
* a recovery finalizes an operation whose other receipts were not recorded; a save
  in flight during Apply makes the write unrecordable; `recovery-unverified` can
  never be cleared; the effect on the review key ends the busy state during an Apply
  (2335-2339), so that a second Apply may overlap it, and a recovery that is ended so
  stays "recovering" until the import changes;
* "Persist every verified local-success receipt before finalizing any track.  This
  ordering ensures a cloud finalizer failure is reload-recoverable" (2604-2606) holds for
  one operation.  `mark_track_metadata_apply_outcome_v1` (`stage6a.sql:249-263`) replaces
  the receipt of another operation on the same revision and fingerprint, whatever its
  state: a late or foreign outcome, also a rejected one, takes a pending receipt away, and
  the track can then be recovered only as the other operation, if at all.
  `ReceiptsComeFirst` calls such a receipt "over" and claims it no longer;
* Auto Cue, then hot cue B or H turned into a point and moved: the Memory loop's
  start passes its end and Save fails (`cueEditorState.ts:468-478`), which
  `EditsStaySaveable` exempts as `StartMovedAlone`; Auto Cue twice with a slot change
  in between gives two cues with one `editorId` (`autoCueStrategy.ts:473`).

Apply service:

* the application takes no single-instance lock, so two bridges may run on one
  `master.db`.  Every guard compares the live file with the token, none compares the
  backup with it: a backup copied between another instance's handoff and its
  rollback passes, the rejected plan is applied with it, and the rollback would
  restore the wrong generation.  `ReplacedIsRecoverable` and `OutcomeIsTrue`
  therefore speak of one instance; `EditsSurvive` holds for two;
* what Rekordbox writes between the last look at the file and `os.replace`, or
  between handoff and rollback, is overwritten (`asExposed`); a rollback requires
  neither that Rekordbox is closed nor that the file is the one it staged.

Player: a release or an unplugged drive during `resolveTrackSource` is followed by
playback from the file (`AudioPlayerContext.tsx:569-577`); a failed play of kind
`abort` leaves "resolving" (526); a drive that returns while the preview is looked
up fails the player.

Flip Lab (`FlipLab` exempts what `flLate` and its comments name):

* the lookup of the import (`flipLabSeparation.ts:64`) or a call to the main process
  may throw outside any `try` of `flip()`: the page stays "separating" under a
  full-screen overlay (`useFlipLab.ts:231`); `clear()` during the vocal's lookup
  cancels nothing and the separation starts anyway;
* play pressed twice while the audio context is suspended schedules the nodes twice;
  a play that waited for the context and began during a key shift leaves the engine
  playing while the page shows it paused; `docs/flip-lab-architecture.md:24,30,40`
  describes files that do not exist.

Resume Analysis (`rsLost` exempts the first three):

* a rejected session lookup of a superseded selection runs the cleanup of the new one
  (`ResumeAnalysisModal.tsx:470-472`), a superseded run that wakes from the release
  overwrites the new controller (466-467), and a discovery error of a superseded
  selection is shown (517-520); the dialog can end in a phase that cannot be closed (264);
* Retry in the error view only sets the phase and never asks again (787-796).

Lists, waveforms and previews:

* a refresh begun with fewer rows that answers during a `loadMore` leaves a gap
  (`pgRaced`); `useRekordboxPlaylistTracks.ts:37-62` never resets `loadingMore` when the
  playlist changes, so "load more" is dead for the next one (`pgStuck`);
  `useRecentTracks` has no stale guard, and `useSimilarTracks` does not advance its
  request when no track is selected;
* a progress event's invalidation is undone by an older answer; retry does nothing
  once an error's 15 s or an absence's 30 s of cache are over
  (`useTrackPreviewWaveforms.ts:337-341`); an absence taken from the cache arms no
  recheck, against lines 6-7;
* the preview's size and time are read before it waits for a slot, so the row may
  describe an older file than the one encoded; a cancel after the last job was taken is
  reported as cancelled although everything was processed;
* the Drop Lab's best pair (`useDropLabFlipPicks.ts:57,86`) is the best of the first
  vocals once 512 pairs are reached: `rankRoulettePairsBounded` drops `isTruncated`.

Seen in `DropLabPreview`: choosing another candidate while the source still loads joins
the aborted load and its error is swallowed (`useDropLabPreview.ts:186`): "Preparing
Audio…" stays until the pair changes again.  `PreviewEnds` names this case and allows
it; without that conjunct TLC finds it.

Not modelled, seen while reading: `useSetlistTracks` scrapes again after every renewal of the access token; an e-mail
edited while its code is being sent is verified with the new address.

## 5. Proofs

`WorkerLease_proofs.tla`, for every set of tokens and every lease time, refresh
interval and delay allowed by the assumptions of `WorkerLease`:

| theorem | states |
|---|---|
| `TypeCorrect` | `Spec => []TypeOK` |
| `DisplacedStops` | `Spec => []DisplacedWorkerStops` |
| `HealthyOwns` | `Punctual` implies `Spec => []HealthyWorkerOwns` |
| `OneWriter` | `Punctual` implies `Spec => []SingleWriter` |
| `Refinement` | `Spec => ImplementsExclusiveLease` |

`Punctual` is `Refresh + MaxDelay < LeaseTime /\ RpcFails = FALSE`.  The settings
validated in `config.py` (refresh at most a third of the lease) leave two thirds of a
lease for the delay.

Arguments.  *DisplacedStops* says that a worker whose row was taken begins at most
one more unit of work.  It is not inductive: it says nothing of the workers that
still own their row.  `DisplacementInv` adds that the row's owner has claimed
(`OwnerActive`), that the row of a worker inside a unit outlives the time until
that worker's next checkpoint is due (`OwnerFresh`: so when the row can be taken,
the checkpoint is due), that a displaced worker neither owns the row nor claims
again (`DisplacedGone`), that its checkpoint is due and stays due (`DisplacedDue`),
and what has been counted so far (`StaleCounted`).  *HealthyOwns*: `HealthyInv` says
that a worker at work has a running heartbeat and a row whose remaining time and
time since the last beat make up a lease (`WorkersKept`), so that with `Punctual`
the row cannot run out before the next beat; that an idle token has no beat
(`IdleFresh`); and that one worker is at work (`OneWorker`).
*OneWriter* follows from `HealthyInv`.  *Refinement* needs only that the owner is an
active token and no expired row is renewed (`RefinementInv`); every action maps to
an action of `ExclusiveLease` or to a stutter.

`ImportJob_proofs.tla`, for every set of
processes, requests, workers and tracks, every number of crashes, and with or
without storage faults and late heartbeats (only the assumptions of `ImportJob`
on its constants):

| theorem | states |
|---|---|
| `TypeCorrect` | `Spec => []TypeOK` |
| `WritersRegistered` | `Spec => []WritersAreRegistered` |
| `EntriesReleased` | `Spec => []RegistryReleased` |

*TypeCorrect* needs `TypeInv`: `TypeOK` and what the threads carry from one step to a
later one.  A worker publishes a final state it computed some steps before
(`WhyFinal`), startup recovery writes back a row it has read (`SeenListed`), and the
track a worker takes exists only while some are left (`TrackLeft`).

*WritersRegistered* and *EntriesReleased* are two readings of `RegistryInv`: an
entry is active exactly while one of its process's threads is between `register()`
and its acknowledgement (`ActiveIffRegistered`).  That is inductive only with one
worker thread in a process (`OneThread`, the check under the lock of
`_BACKGROUND_WORKERS`: the acknowledgement of one worker would otherwise clear the
entry of another), with no thread running in a process that has crashed or is
starting (`BootQuiet`: startup begins from an empty registry), and with startup
threads bound to their process (`OwnHome`).  The proofs follow the code: most steps
leave the entries alone, and a lemma for each kind of step (`WorkerOnlyKeeps`,
`RequestOnlyKeeps`, ...) carries the invariant; registering, acknowledging,
crashing and starting have proofs of their own.

`ImportJobDelete_proofs.tla`, under `Undisturbed` (no process dies, no call fails, no
lease expires under a live worker, nobody pauses), for every set of processes,
workers, tracks, resumes, completions and deletes:

| theorem | states |
|---|---|
| `CleanupAlone` | `Undisturbed` implies `Spec => []NoCleanupUnderWriter` |
| `NothingLeft` | `Undisturbed` implies `Spec => []DeleteLeavesNothing` |
| `IntentStays` | `Undisturbed` implies `Spec => DeleteIntentKept` |

The run `job_delete` is an instance of `Undisturbed`.  Parts of the assumption cannot
be dropped: with a pause `pause_over_delete` violates `DeleteIntentKept`, with a
crash `crash_then_delete` violates `DeleteLeavesNothing`.  `DeletionInv` has four
layers.  `Calm`: what a pause, a fault or a crash would introduce is unreachable.
`IntentInv`: an accepted intent shows in the row's status and a thread that carries
it out, or read it, still finds it there; this is what the trigger's table has to
give.  `WriterInv`: a worker of an existing import owns the unexpired lease until it
releases it (so a cleanup that found the lease free found no worker), a worker
reaches the generic failure handler only when the row is gone, and no writer exists
once a request has passed its first owner check (a worker that starts later stops at
its first checkpoint).  `DataInv`: an object is named by a row or its worker is about
to write that row, so deleting what the rows name deletes every object; and each
cleanup step finds the work of the one before it done.  `CleanupAlone` needs
`IntentInv` and `WriterInv`, `NothingLeft` needs all four.  Steps that touch neither
objects nor the lease satisfy `WorkerMove` or `RequestMove`, two lemmas show that such
moves keep the invariant, and an update of the row is shown `Gentle` first.

`ImportJobPause_proofs.tla`, under `Unresumed` (nobody resumes or retries a
completion, no process dies, no heartbeat is late), for every set of processes,
workers, tracks, pauses and deletes, with storage faults and with finalizers that
give up:

| theorem | states |
|---|---|
| `PausedQuiet` | `Unresumed` implies `Spec => []PausedIsQuiet` |
| `ComesToRest` | `Unresumed` implies `Spec => []NotStranded` |
| `CompletedTrue` | `Unresumed` implies `Spec => []CompletedIsTruthful` |

The run `job_pause` is an instance of `Unresumed`.  Its parts cannot simply be dropped:
with one pause and one resume TLC still finds the three invariants true on small
instances, but `PausedIsQuiet` is violated by two pauses and a resume (the finalizer of
the first pause writes `paused` after the resume has started a worker), by a pause, a
resume and a delete, by a crash followed by a resume, and by late heartbeats.
`PauseInv` says: one worker
thread exists and all state of a run is its own (`Alone`); it owns the lease until it
releases it (`Owned`); how far each handler has come is visible in the row
(`Entered`), and a handler that has read a row that is gone stops (`FoundGone`); until
a request arrives nobody else has changed the row (`Untouched`); a stop or a pause
that the row promises has a thread that is still to carry it out (`StopIsPending`,
`PauseIsPending`); and what a finished analysis says of the tracks is so
(`Truthful`).

`Desktop_proofs.tla`, for every set of drives, connection calls, transfers, starts,
jobs, bridge processes and lists and every finite set of requests and files:

| theorem | states |
|---|---|
| `UsbTypeCorrect` | `UsbSpec => []UsbTypeOK` |
| `ReleasedQuiet` | `UsbSpec => []ReleasedIsQuiet` |
| `AdmittedConnected` | `UsbSpec => []AdmittedKeepsRoot` |
| `ConfirmedFilesAreStored` | `UploadSpec => []ConfirmedIsStored` |
| `NothingMoreIsSent` | `UploadSpec => NothingSentAfterStop` |
| `DesktopReleasesDrive` | `DesktopSpec => [](ReleasedIsQuiet /\ AdmittedKeepsRoot)` |
| `DesktopCreatesOnce` | `DesktopSpec => []CreatedOnce` |
| `SeparationsRunAlone` | `DesktopSpec => []OneSeparation` |
| `DesktopShowsItsOwn` | `DesktopSpec => []ShownIsOwn` |
| `DesktopUploadsHonestly` | `DesktopSpec => []ConfirmedIsStored /\ NothingSentAfterStop` |
| `DesktopTypeCorrect` | `DesktopSpec => []DesktopTypeOK` |

*Streams.*  The registry decides that it is quiet by counting, so the argument is that
the count is exact (`PendingExact`: the pending requests are those that have been
admitted and are not over, whatever sweep has forgotten), and that a request between
its admission and its answer has the connection it was admitted for
(`ConnectsDrive`, `ReadsDrive`).  A sweep that a reconnect overtook changes neither.
*Files.*  `NeverOverwrites` is inductive with the drive's type; `OneIdentity` needs what
each start has found out so far (`IdInv`).  *Queue.*  The queue of separations is a
sequence without repetitions of exactly the waiting jobs (`StemInv`).  The pump starts
the first job in the queue that may run; that such a job exists when one is waiting is
an induction over the length of the queue, done here as the existence of a least
counterexample (`LeastNatural`), since the library's induction theorem takes an
operator.  *Bridge, lists, waveforms.*  A request is answered once; the rows shown and
every request under way agree with the list that was asked for last (`PagesInv`); a
cached waveform is an answer for its import, and an entry shown as loading has a slot
whose token is the current one (`WavesInv`).  *Upload.*  The count of confirmed files
is the cardinality of the set of files recorded as stored.  A response adds what it
answers, so the proof is about not counting a file twice: in the first pass a file is
with one window or one batch only, and nothing is known of it yet (`FirstPass`); in a
file retry only files that are not stored are counted.  `buildBatches` is shown to
partition a window (`BatchesPartition`), and until the user stops no file is forgotten
(`NoneForgotten`), so a transfer that returns has decided every file.  *Composition.*
Every step of `DesktopNext` is, for each component, a step of its own or a stutter.
*Types.*  Most of `DesktopTypeOK` follows from the invariants above.  The bound on the
rows of a list does not: `PagesBounded` counts the fresh requests for more (at most one)
and says that a refresh and a load of more that overlap leave at most one page too many.

`UploadAssumption` says that no file is requested twice:
`buildManifestAnalysisRequests` drops duplicates.  Without it the count would be
wrong in the first pass.

`Apply_proofs.tla`, for every set of operations and edits of Rekordbox, any
number of failures and deaths, with one instance of the application or several:

| theorem | states |
|---|---|
| `ApplyTypeCorrect` | `ApplySpec => []ApplyTypeOK` |
| `NoChangeIsLost` | `ApplySpec => []EditsSurvive` |
| `ReplacedKeepsBackup` | `ApplySpec => []ReplacedIsRecoverable` |
| `OutcomesAreTrue` | `ApplySpec => OutcomeIsTrue` |
| `ReceiptsPrecedeFinalization` | `GenreSpec => []ReceiptsComeFirst` |
| `CloudGenresWereWritten` | `GenreSpec => []CloudFollowsRekordbox` |

A change survives because the file an operation puts in place contains everything
its token names, and the token was compared with the live file last (`OpInv`: what
each of an operation's copies contains, by the step it has reached; `FilesAgree`).  What the
comparison cannot see is the change that is made after it and before the
replacement: `asExposed` collects exactly those, and the theorem excepts them.  That a
backup is of the generation of the token needs that no other operation replaces the
file in between, which holds with one instance of the application (`OneInstance`).

The genre drafts are written with the same service, for every number of tracks, genres,
revisions, runs and operations.  `GenreInv` says of every run what its operation has
done (`GenreRunKept`): before it writes it holds nothing but tracks to write; while it has
receipts to record or to use, its operation was verified with the genre of each of its
drafts; and a track that is no longer to be done, and did not fail, had its receipt
recorded.  A row names an operation that was verified with its baseline or its value
(`GenreRowKept`), so does each row on the page from which a recovery may start
(`RowHasReceipt`), and a receipt that stands is in its row (`ReceiptStands`).  All of it is
about one run and history that only grows, which is why any number of runs of the page, of
other sessions and of closed windows may overlap.

`Music_proofs.tla`, for every beat grid, loop and lead length, number of edits, and for
every finite set of tracks, tolerance and bound of the Roulette.  It also holds the lemmas
about the Flip Lab and the Drop Lab preview, whose theorems are stated of the composed
application in `Web_proofs`:

| theorem | states |
|---|---|
| `EditorInvariant` | `EditorSpec => []EditorInv` |
| `EditorTypeCorrect` | `EditorSpec => []EditorTypeOK` |
| `GeneratedCuesSafe` | `EditorSpec => []GeneratedCuesFit` |
| `EditsSaveable` | `EditorSpec => EditsStaySaveable` |
| `RouletteInvariant` | `RouletteSpec => []OfferInv` |
| `RoulettePairsExact` | `RouletteSpec => [](RouletteTypeOK /\ PairsAreExact)` |

*Lists.*  Every edit ends in `sortWorkingCues`, and some filter first.  `Ordering`
defines both without recursion: a member's place is the number of members that are not
after it.  `ListedInOrder` shows that for a total order each place is taken once, so
`Sorted` is a permutation whose neighbours are in order (`SortedMoves`) and `Filtered`
keeps exactly the members it is told to keep, in their order (`FilteredKeeps`); what an
edit says of "some cue" and "every cue" survives both.  *Edits.*  `EditorInv` says that
each cue is well formed, that the cues are sorted, and that while identities are unique
a Memory Cue names the slot of an existing Hot Cue and is the only one that does.
`EditsStaySaveable` is not a consequence of the invariant but of the single edit: slots
stay unique because an edit takes a free slot or keeps its own, and a loop stays a range
because its end moves with it; the one exception, where the start of a paired Memory
loop follows its Hot Cue and the end does not, is named `StartMovedAlone`.  *Auto Cue.*
The proposals are in order for every set of phrases, since each is looked for after the
one before it and whatever loops was tested with `ByBarOffset`.
*Roulette.*  The pruned search looks up a bucket of compatible tracks, sorted by tempo,
finds the range of tolerance by two binary searches (`BoundsAre`), and walks outwards
from the target (`Probed`): `NearestAre` shows that what it has taken lies between its
two ends and that no tempo left out is nearer.  The order of partners is strict
(`OutranksOrders`), so the best `n` are `n` (`BestAre`), and the pool of pairs keeps
`PoolHolds` from vocal to vocal.  Both recursions are functions over numbers, and the
inductions use the least counterexample (`LeastNatural`).

`Web_proofs.tla`, for every number of tracks, cue revisions, loads, operations and
sessions, libraries, flips, previews, encodes, import and resume runs:

| theorem | states |
|---|---|
| `AppliedCuesWereWritten` | `CueSpec => []AppliedWasWritten` |
| `AcknowledgedSavesStay` | `CueSpec => []AcknowledgedSaveStays` |
| `RekordboxEditsSurvive` | `CueSpec => LocalEditsSurvive` |
| `WebKeepsDrafts` | the invariants of the drafts and `LocalEditsSurvive` under `WebSpec` |
| `WebKeepsMasterDb` | `EditsSurvive`, `ReplacedIsRecoverable` and `OutcomeIsTrue` under `WebSpec` |
| `WebShowsTheLatest` | `WebSpec => []LatestIsCurrent` |
| `WebAnnouncesTruth` | `WebSpec => []AnnouncedIsTrue` |
| `SupersededRunsAreSilent` | `WebSpec => SupersededIsSilent` |
| `DragKeepsPlayhead` | `WebSpec => PlayheadStays`, a part of `EditsKeepTheRest` |
| `WebEditsKeepTheRest` | `WebSpec => EditsKeepTheRest` |
| `WebComputesRight` | `WebSpec => []ComputedIsRight` |
| `WebTypeCorrect` | `WebSpec => []WebTypeOK` |

`CueInv` relates the draft on the page, the row in the cloud and what is in Rekordbox
by revision: an answer under way carries a revision the server has had, the baseline
of an apply was observed, and what is recorded as applied has been written with that
revision and those cues.

The players are all about answers that come late.  `PlayerInv`: one call at most
counts, and while it waits nothing is attached and nothing pending, so whatever it
attaches is for the track shown.  `FlipInv`: the current run is for the pair the page
shows, in the phase of its step, with no deck loaded until it ends (`RunFits`), and a key
shift under way belongs to a run that has ended (`KeyFits`).  `PreviewInv`: the run the
page waits for is of its pair and was not aborted (`RunServes`), and what may be joined is
being loaded (`LoadsServe`); these two are in `Music_proofs`.  `ListInv`: what the page's request has found so far is what
the settings name, unless a change of them is on its way (`ShownFits`), and a row that an
answer under way will take off the screen is gone for good (`FetchFits`, `PollFits`).
`SyncInv` counts: a waiting encode is in line once and has no slot, a
slot is taken exactly while its encoder works (`EncodeInv`), and each job's versions are
in order (`JobFits`: the row is never ahead of the stored file or of the source, and what
is written was encoded after it was seen), so that "synced" means that the row is of the version seen.  `ResumeInv` says
whose run the phase of the dialog speaks of: while the dialog is busy and nothing was
lost (`rsLost`), the run of the current generation is under way and was not aborted
(`CurrentFits`, `PhaseWaits`), and a dialog that is closing has a run that will end it.
`ImportInv` is about the refs that all runs of the import dialog share.  Operations are
never reused and belong to one run each (`OpsFit`); a run between its start and its
verified release is the dialog's own, is shown as such and has no cloud call or parse loop
beside it, a parse loop that still speaks holds the dialog's controller, and once the refs
say released no run is before or in its transfer (`RunsFit`); only a transfer sends (`SendsFit`); and
the question a hard delete answers was asked during the upload (`QuestionFits`), so the
stale phase it acts on can only stop reads, never start a cloud call.  `OpsFit` and
`RunsFit` are what `imMixed` ends.  They imply both properties: two runs at the drive
would have one operation, and a superseded run has another than the dialog's.  For the
lookups `ImportHeld` is needed as well: the run at the drive is the one whose controller
the refs hold, unless it was aborted (`OwnerFits`), so that the cleanup which precedes
every release aborts it, and whoever still looks paths up is in its transfer or aborted
(`LookupsFit`).

*Types.*  `WebTypeOK` bounds what the components keep, and that takes more than their
invariants; each has a `...Rest` of its own for what only the types need.  The position
of an audition lies within the deck that is loaded (`FlipRest`).  The preview's cache holds
at most `MaxCached` buffers: reading one takes it out and appends it, which keeps the
length, and storing one drops the oldest (`CacheHolds`).  The workers of a sync are free
or have a job, and are never more than there are (`WorkersFit`).  The import dialog's
operations and requests are counted (`Counted`).  A Resume dialog that is closed has no
import and no run, so no late answer opens it (`ResumeRest`), and a poll of the imports
list is read only while it is under way (`ListRest`).

Assumptions on constants are named in the modules that declare them
(`ActorAssumption`, `UsbAssumption`, `IdAssumption`, `PagesAssumption`,
`WaveAssumption`, `UploadAssumption`, `ApplyAssumption`, `ResumeAssumption`, ...) and evaluated by TLC in
the runs.  They say that sets are disjoint, finite or not empty and that bounds are
positive.  `SyncAssumption` also says that the encodes are finitely many, since slots in
use are counted, and `ResumeAssumption` that the mark for "none" is neither a run nor an
import.

Only model-checked: liveness (`Reclaimable`, `DeletionSettles`, `EveryCallReturns`,
`DesktopGivenUpIsShown`), which is out of reach of TLAPS; pause and completion with
resumes, and deletion in the presence of faults.  Every invariant and action property of
the passing runs is stated by a theorem, some of them under the hypotheses above.

## 6. Not modelled, and plan

Not modelled:

* raw archival, bundle staging, library import and rescan, discovery jobs,
  backend accounts and authentication, the offline importer: sequential, or a second
  use of mechanisms that are modelled (lease, staging flag); the dependency graph of
  hard deletes between imports needs several imports in `ImportJob`;
* of the import dialog the `database_only` and `zip_bundle` modes, of the imports list
  Delete All, of the cue page a change of import while something is in flight, of
  `UsbConnectionContext` the directory handles of a browser;
* of the genre drafts the ids and fingerprints of rows: a draft that is deleted and made
  again with the same revision and value counts as the same draft;
* of the apply service the wording of token errors and a Rekordbox that holds the
  database open while it is replaced (it goes on writing to the old file; the service
  refuses to start while Rekordbox runs);
* the remaining views: presentation and queries.

Known limits.  What is left to prove: `PausedIsQuiet` with resumes under the hypotheses
under which TLC finds it true, and deletion with storage faults, in `ImportJob`.
