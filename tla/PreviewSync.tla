----------------------------- MODULE PreviewSync -----------------------------
(***************************************************************************)
(* The sync of cloud previews: runPreviewSync and previewSyncStore of      *)
(* src/lib/preview/previewSync.ts with trackPreviews.ts, over the encoding *)
(* slots of the main process (PreviewEncodes).                             *)
(*                                                                         *)
(* The original of a track has a version, its size and time; the stored    *)
(* preview and its row in the database remember one.  A write whose answer *)
(* is lost counts as failed and has been made.                             *)
(***************************************************************************)
EXTENDS PreviewEncodes

CONSTANTS
  SyncWorkers,      \* concurrency
  SyncTries,        \* attempts of withRetry
  EditedOriginals,  \* bound: the tracks whose original changes, once
  MaxSyncs          \* bound: syncs that are started

ASSUME SyncAssumption ==
  /\ SyncWorkers \in Nat \ {0} /\ SyncTries \in Nat \ {0} /\ MaxSyncs \in Nat
  /\ IsFiniteSet(Encodes)

VARIABLES
  psPhase,       \* state.phase
  psStop,        \* cancelRequested
  psCancelled,   \* cancelled, of the run and its summary
  psFree,        \* workers between two jobs
  psJob,         \* the jobs: "waiting", "encode", "upload", "save" or how they ended
  psTry,         \* the attempt of an upload or a save
  psProcessed,   \* progress.processed
  psExisting,    \* existing: the rows as they were read
  psSeen,        \* the version that stat saw
  psBytes,       \* the version that was encoded
  psSource,      \* the version of the original on the drive
  psFile, psRow, \* the version of the stored preview and of its row; 0 is none
  psSyncs        \* syncs started so far

runVars == <<psPhase, psStop, psCancelled, psFree, psProcessed, psExisting, psSyncs>>
syncVars == <<encodeVars, runVars, psJob, psTry, psSeen, psBytes, psSource, psFile, psRow>>

JobEnds == {"synced", "skipped", "failed"}
JobsAt(step) == {e \in Encodes : psJob[e] = step}
Underway == {e \in Encodes : psJob[e] \in {"encode", "upload", "save"}}

-----------------------------------------------------------------------------
\* start: a sync that prepares or runs is not started again.
SyncStarts ==
  /\ psPhase \notin {"preparing", "running"} /\ psSyncs < MaxSyncs
  /\ psPhase' = "preparing" /\ psStop' = FALSE /\ psCancelled' = FALSE /\ psProcessed' = 0
  /\ psSyncs' = psSyncs + 1 /\ psJob' = [e \in Encodes |-> "waiting"]
  /\ psSeen' = [e \in Encodes |-> 0] /\ psBytes' = psSeen' /\ psExisting' = psSeen'
  /\ UNCHANGED <<encodeVars, psFree, psTry, psSource, psFile, psRow>>

\* The session or the rows cannot be read.
SyncFails ==
  /\ psPhase = "preparing" /\ psPhase' = "error"
  /\ UNCHANGED <<encodeVars, psStop, psCancelled, psFree, psProcessed, psExisting, psSyncs,
                 psJob, psTry, psSeen, psBytes, psSource, psFile, psRow>>

\* The rows are read and the workers begin.
SyncRuns ==
  /\ psPhase = "preparing" /\ psPhase' = "running" /\ psExisting' = psRow /\ psFree' = SyncWorkers
  /\ UNCHANGED <<encodeVars, psStop, psCancelled, psProcessed, psSyncs,
                 psJob, psTry, psSeen, psBytes, psSource, psFile, psRow>>

\* cancel.
SyncStop ==
  /\ psPhase \in {"preparing", "running"} /\ ~psStop /\ psStop' = TRUE
  /\ UNCHANGED <<encodeVars, psPhase, psCancelled, psFree, psProcessed, psExisting, psSyncs,
                 psJob, psTry, psSeen, psBytes, psSource, psFile, psRow>>

\* The loop of a worker that is free: it stops, or takes a job and asks the main
\* process for its preview.
WorkerTakes(e) ==
  /\ psPhase = "running" /\ psFree > 0 /\ ~psCancelled /\ ~psStop /\ psJob[e] = "waiting"
  /\ psJob' = [psJob EXCEPT ![e] = "encode"] /\ psFree' = psFree - 1
  /\ EncodeBegin(e)
  /\ UNCHANGED <<psPhase, psStop, psCancelled, psProcessed, psExisting, psSyncs,
                 psTry, psSeen, psBytes, psSource, psFile, psRow>>

WorkerLeaves ==
  /\ psPhase = "running" /\ psFree > 0
  /\ psCancelled \/ psStop \/ JobsAt("waiting") = {}
  /\ psCancelled' = (psCancelled \/ psStop) /\ psFree' = psFree - 1
  /\ psPhase' = IF psFree = 1 /\ Underway = {} THEN "done" ELSE "running"
  /\ UNCHANGED <<encodeVars, psStop, psProcessed, psExisting, psSyncs,
                 psJob, psTry, psSeen, psBytes, psSource, psFile, psRow>>

\* A job ends; its worker is free again.
JobEnded(e, how) ==
  /\ psJob' = [psJob EXCEPT ![e] = how] /\ psProcessed' = psProcessed + 1 /\ psFree' = psFree + 1
  /\ psTry' = [psTry EXCEPT ![e] = 1]
  /\ UNCHANGED <<psPhase, psStop, psCancelled, psExisting, psSyncs>>

\* The track has no path, its file cannot be read, or it is unchanged.
NotEncoded(e) ==
  /\ psJob[e] = "encode" /\ EncodeSkipped(e)
  /\ \/ JobEnded(e, "failed") /\ UNCHANGED psSeen
     \/ /\ psExisting[e] = psSource[e] /\ JobEnded(e, "skipped")
        /\ psSeen' = [psSeen EXCEPT ![e] = psSource[e]]
  /\ UNCHANGED <<psBytes, psSource, psFile, psRow>>

\* The file is inspected before a slot is waited for.
Inspected(e) ==
  /\ psJob[e] = "encode" /\ psExisting[e] # psSource[e] /\ TakeSlot(e)
  /\ psSeen' = [psSeen EXCEPT ![e] = psSource[e]]
  /\ UNCHANGED <<runVars, psJob, psTry, psBytes, psSource, psFile, psRow>>

\* A mutant: the row is written before the preview.
SavedFirst == <<"save", "upload">>

\* The order of the two writes.
WriteOrder == <<"upload", "save">>

\* The preview is encoded, of what the file was meanwhile, or the encoder fails.
Encoded(e) ==
  /\ psJob[e] = "encode" /\ EncodeEnds(e)
  /\ \/ JobEnded(e, "failed") /\ UNCHANGED psBytes
     \/ /\ psJob' = [psJob EXCEPT ![e] = WriteOrder[1]] /\ psTry' = [psTry EXCEPT ![e] = 1]
        /\ \E v \in psSeen[e]..psSource[e] : psBytes' = [psBytes EXCEPT ![e] = v]
        /\ UNCHANGED runVars
  /\ UNCHANGED <<psSeen, psSource, psFile, psRow>>

\* withRetry: a write that failed is made again, or the job fails.
WriteFailed(e) ==
  \/ psTry[e] < SyncTries /\ psTry' = [psTry EXCEPT ![e] = @ + 1] /\ UNCHANGED <<runVars, psJob>>
  \/ psTry[e] = SyncTries /\ JobEnded(e, "failed")

\* What follows a write that succeeded.
WriteDone(e) ==
  \/ /\ psJob[e] = WriteOrder[1] /\ psJob' = [psJob EXCEPT ![e] = WriteOrder[2]]
     /\ psTry' = [psTry EXCEPT ![e] = 1] /\ UNCHANGED runVars
  \/ psJob[e] = WriteOrder[2] /\ JobEnded(e, "synced")

\* uploadPreviewFile and savePreviewRow, both upserts.
Uploaded(e) ==
  /\ psJob[e] = "upload" /\ psFile' = [psFile EXCEPT ![e] = psBytes[e]]
  /\ WriteDone(e) \/ WriteFailed(e)
  /\ UNCHANGED <<encodeVars, psSeen, psBytes, psSource, psRow>>

RowSaved(e) ==
  /\ psJob[e] = "save" /\ psRow' = [psRow EXCEPT ![e] = psSeen[e]]
  /\ WriteDone(e) \/ WriteFailed(e)
  /\ UNCHANGED <<encodeVars, psSeen, psBytes, psSource, psFile>>

NotWritten(e) ==
  /\ psJob[e] \in {"upload", "save"} /\ WriteFailed(e)
  /\ UNCHANGED <<encodeVars, psSeen, psBytes, psSource, psFile, psRow>>

\* The user replaces an original on the drive.
OriginalChanges(e) ==
  /\ e \in EditedOriginals /\ psSource[e] = 1 /\ psSource' = [psSource EXCEPT ![e] = 2]
  /\ UNCHANGED <<encodeVars, runVars, psJob, psTry, psSeen, psBytes, psFile, psRow>>

\* The application quits; what it has stored remains.
AppQuits ==
  /\ psPhase = "running" /\ psPhase' = "idle" /\ psStop' = FALSE /\ psCancelled' = FALSE /\ psFree' = 0
  /\ psProcessed' = 0 /\ psJob' = [e \in Encodes |-> "waiting"] /\ psTry' = [e \in Encodes |-> 1]
  /\ psSeen' = [e \in Encodes |-> 0] /\ psBytes' = psSeen' /\ psExisting' = psSeen'
  /\ encCall' = [e \in Encodes |-> "idle"] /\ encActive' = 0 /\ encWaiters' = << >>
  /\ UNCHANGED <<psSyncs, psSource, psFile, psRow>>

-----------------------------------------------------------------------------
\* A track to be edited may have a preview from before.
SyncInit ==
  /\ EncodeInit
  /\ psPhase = "idle" /\ psStop = FALSE /\ psCancelled = FALSE /\ psFree = 0 /\ psProcessed = 0
  /\ psJob = [e \in Encodes |-> "waiting"] /\ psTry = [e \in Encodes |-> 1]
  /\ psSeen = [e \in Encodes |-> 0] /\ psBytes = [e \in Encodes |-> 0]
  /\ psSource = [e \in Encodes |-> 1] /\ psSyncs = 0 /\ psExisting = [e \in Encodes |-> 0]
  /\ psRow = [e \in Encodes |-> IF e \in EditedOriginals THEN 1 ELSE 0] /\ psFile = psRow

SyncNext ==
  \/ SyncStarts \/ SyncFails \/ SyncRuns \/ SyncStop \/ WorkerLeaves \/ AppQuits
  \/ \E e \in Encodes :
       \/ WorkerTakes(e) \/ NotEncoded(e) \/ Inspected(e) \/ Encoded(e)
       \/ Uploaded(e) \/ RowSaved(e) \/ NotWritten(e) \/ OriginalChanges(e)

SyncSpec == SyncInit /\ [][SyncNext]_syncVars

SyncTypeOK ==
  /\ EncodeTypeOK
  /\ psPhase \in {"idle", "preparing", "running", "done", "error"}
  /\ psStop \in BOOLEAN /\ psCancelled \in BOOLEAN /\ psFree \in 0..SyncWorkers
  /\ psJob \in [Encodes -> {"waiting", "encode", "upload", "save"} \cup JobEnds]
  /\ psTry \in [Encodes -> 1..SyncTries] /\ psProcessed \in 0..Cardinality(Encodes)
  /\ psSyncs \in 0..MaxSyncs /\ psSource \in [Encodes -> 1..2]
  /\ {psExisting, psSeen, psBytes, psFile, psRow} \subseteq [Encodes -> 0..2]

-----------------------------------------------------------------------------
\* A track reported as synced or skipped has a stored preview that is as new as
\* what the sync saw of its original, and no row ever claims a preview newer than
\* the one stored, however writes fail, are repeated or cut short: a later sync
\* skips by the row alone.
PreviewsAreStored ==
  /\ \A e \in Encodes : psFile[e] >= psRow[e]
  /\ \A e \in Encodes : psJob[e] \in {"synced", "skipped"} => psFile[e] >= psSeen[e] /\ psRow[e] = psSeen[e]

\* A sync that is done has left nothing at work, has counted every job it took,
\* and has taken every job unless it was cancelled.
SyncAccounts ==
  psPhase = "done" =>
    /\ Underway = {} /\ psFree = 0 /\ encActive = 0
    /\ psProcessed = Cardinality({e \in Encodes : psJob[e] \in JobEnds})
    /\ psCancelled \/ JobsAt("waiting") = {}
=============================================================================
