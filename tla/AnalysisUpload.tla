---------------------------- MODULE AnalysisUpload ----------------------------
(***************************************************************************)
(* The upload of analysis files by the importing page:                     *)
(* src/lib/rekordbox/targetedAnalysisTransfer.ts (windows of resolved      *)
(* files), cancellableUploadQueue.ts (the bounded queue of a window),      *)
(* uploadBatch.ts with abortableRetry.ts (a batch and its retries) and     *)
(* analysisUploadResults.ts (what became of each file).                    *)
(*                                                                         *)
(* The backend is what the page sees of it: it may store a batch and its   *)
(* answer be lost.  An answer that stored nothing of a file is an error    *)
(* of the backend ("error"), a refusal worth a retry ("refused"), or a     *)
(* final rejection ("rejected").                                           *)
(***************************************************************************)
EXTENDS Naturals, FiniteSets, Sequences, SequencesExt

CONSTANTS UploadWindows,  \* the requests, cut into windows: a sequence of sets
          BatchLimit,     \* maxFilesPerBatch
          MaxConcurrent, MaxAttempts,
          FileRetries     \* retryDelays.length

ASSUME UploadAssumption == /\ UploadWindows \in Seq(SUBSET UNION {UploadWindows[i] : i \in 1 .. Len(UploadWindows)})
                           /\ IsFiniteSet(UNION {UploadWindows[i] : i \in 1 .. Len(UploadWindows)})
                           \* no file is requested twice: buildManifestAnalysisRequests
                           /\ \A i, j \in 1 .. Len(UploadWindows) :
                                i # j => UploadWindows[i] \cap UploadWindows[j] = {}
                           /\ {BatchLimit, MaxConcurrent, MaxAttempts} \subseteq Nat \ {0}
                           /\ FileRetries \in Nat

UploadFiles == UNION {UploadWindows[i] : i \in 1 .. Len(UploadWindows)}

VARIABLES upPhase,    \* where runTargetedAnalysisTransfer is
          upWork,     \* the windows still to resolve
          upRound,    \* 0 for the first pass, then the file retry
          upQueue,    \* the batches of the window: files, state, step, attempt
          upStopped,  \* the caller cancelled: signal.aborted and its local flag
          upKnown,    \* _knownFiles: the status of each file, or "none"
          upCounts,   \* the accumulator's counters
          upStored    \* the backend: the files it has

uploadVars == <<upPhase, upWork, upRound, upQueue, upStopped, upKnown, upCounts, upStored>>

Stored == {"received", "already_received"}
Failed == {"error", "refused", "rejected", "request_failed"}
BatchStates == {"queued", "active", "completed", "failed",
                "cancelled-before-start", "cancelled-active"}

UploadTypeOK ==
  /\ upPhase \in {"resolving", "uploading", "waiting", "done", "aborted"}
  /\ upWork \in Seq(SUBSET UploadFiles)
  /\ upRound \in 0 .. FileRetries
  /\ \A i \in DOMAIN upQueue :
       upQueue[i] \in [files : SUBSET UploadFiles, state : BatchStates,
                       step : {"none", "session", "sending", "backoff"},
                       attempt : 0 .. MaxAttempts]
  /\ upStopped \in BOOLEAN
  /\ upKnown \in [UploadFiles -> {"none", "missing"} \cup Stored \cup Failed]
  /\ upCounts \in [received : Nat, already : Nat, error : Nat, rejected : Nat]
  /\ upStored \subseteq UploadFiles

UploadInit ==
  /\ upPhase = "resolving"
  /\ upWork = UploadWindows
  /\ upRound = 0
  /\ upQueue = <<>>
  /\ upStopped = FALSE
  /\ upKnown = [f \in UploadFiles |-> "none"]
  /\ upCounts = [received |-> 0, already |-> 0, error |-> 0, rejected |-> 0]
  /\ upStored \in {{}, UploadFiles}

-----------------------------------------------------------------------------
(* The bounded queue.                                                      *)

\* Consecutive runs of at most BatchLimit files.
BuildBatches(files) ==
  LET seq == SetToSeq(files)
      count == (Len(seq) + BatchLimit - 1) \div BatchLimit
      upTo(k) == IF k < Len(seq) THEN k ELSE Len(seq)
  IN [b \in 1 .. count |-> ToSet(SubSeq(seq, (b - 1) * BatchLimit + 1, upTo(b * BatchLimit)))]

InState(queue, state) == {i \in DOMAIN queue : queue[i].state = state}

\* abortScheduling: what has not started never will.
AbortScheduling(queue) ==
  [i \in DOMAIN queue |-> IF queue[i].state = "queued"
                          THEN [queue[i] EXCEPT !.state = "cancelled-before-start"]
                          ELSE queue[i]]

\* schedule: the first queued batches, as many as there are free places.
Scheduled(queue, stopped) ==
  LET free == MaxConcurrent - Cardinality(InState(queue, "active"))
      earlier(i) == {j \in InState(queue, "queued") : j < i}
  IN IF stopped THEN AbortScheduling(queue)
     ELSE [i \in DOMAIN queue |->
             IF queue[i].state = "queued" /\ Cardinality(earlier(i)) < free
             THEN [queue[i] EXCEPT !.state = "active", !.step = "session", !.attempt = 1]
             ELSE queue[i]]

SettledOnly(queue, i, state) ==
  [queue EXCEPT ![i].state = state, ![i].step = "none"]

Settled(queue, i, state) ==
  Scheduled([queue EXCEPT ![i].state = state, ![i].step = "none"], upStopped)

\* recordFailedBatch: every file that is not stored becomes worth a retry.
RecordFailedBatchForgets(files) == UNCHANGED upKnown

RecordFailedBatch(files) ==
  upKnown' = [f \in UploadFiles |-> IF f \in files /\ upKnown[f] \notin Stored
                                    THEN "request_failed" ELSE upKnown[f]]

\* addBatchResponse: the counters of the answer, and the status of each file.
AddBatchResponse(answer) ==
  LET tally(s) == Cardinality({f \in DOMAIN answer : answer[f] \in s})
  IN /\ upCounts' = [received |-> upCounts.received + tally({"received"}),
                     already |-> upCounts.already + tally({"already_received"}),
                     error |-> upCounts.error + tally({"error"}),
                     rejected |-> upCounts.rejected + tally({"refused", "rejected"})]
     /\ upKnown' = [f \in UploadFiles |-> IF f \in DOMAIN answer /\ upKnown[f] = "none"
                                          THEN answer[f] ELSE upKnown[f]]

\* What correctFileRetrySuccess adds: nothing for a file that had succeeded.
CorrectedFiles(answer, status) ==
  {f \in DOMAIN answer : answer[f] = status /\ upKnown[f] \notin Stored}

MinusUnclamped(n, files, statuses) ==
  n - Cardinality({f \in files : upKnown[f] \in statuses})

Minus(n, files, statuses) ==
  LET k == Cardinality({f \in files : upKnown[f] \in statuses}) IN IF k > n THEN 0 ELSE n - k

\* correctFileRetrySuccess and updateFileRetryFailure: a success undoes the
\* counter of the status the file has now, a failure only replaces the status.
CorrectRetry(answer) ==
  LET new == CorrectedFiles(answer, "received")
      old == CorrectedFiles(answer, "already_received")
  IN /\ upCounts' = [received |-> upCounts.received + Cardinality(new),
                     already |-> upCounts.already + Cardinality(old),
                     error |-> Minus(upCounts.error, new \cup old, {"error"}),
                     rejected |-> Minus(upCounts.rejected, new \cup old, {"refused", "rejected"})]
     /\ upKnown' = [f \in UploadFiles |-> IF f \in DOMAIN answer /\ upKnown[f] \notin Stored
                                          THEN answer[f] ELSE upKnown[f]]

-----------------------------------------------------------------------------
(* One batch: uploadBatchWithRetry.                                        *)

UploadAttemptFrame == UNCHANGED <<upPhase, upWork, upRound, upStopped>>

AttemptSendUnchecked(i) ==
  /\ upQueue[i].state = "active" /\ upQueue[i].step = "session"
  /\ upQueue' = [upQueue EXCEPT ![i].step = "sending"]
  /\ UNCHANGED <<upKnown, upCounts, upStored>> /\ UploadAttemptFrame

AttemptSend(i) ==
  /\ upQueue[i].state = "active" /\ upQueue[i].step = "session"
  /\ ~upStopped
  /\ upQueue' = [upQueue EXCEPT ![i].step = "sending"]
  /\ UNCHANGED <<upKnown, upCounts, upStored>> /\ UploadAttemptFrame

\* The answer arrives, a cancelled one too if it was already on its way.
AttemptAnswered(i) ==
  /\ upQueue[i].state = "active" /\ upQueue[i].step = "sending"
  /\ \E kept \in SUBSET upQueue[i].files :
     \E why \in [upQueue[i].files \ kept -> {"error", "refused", "rejected"}] :
       LET answer == [f \in upQueue[i].files |->
                        IF f \notin kept THEN why[f]
                        ELSE IF f \in upStored THEN "already_received" ELSE "received"]
       IN /\ upStored' = upStored \cup kept
          /\ IF upRound = 0 THEN AddBatchResponse(answer) ELSE CorrectRetry(answer)
  /\ upQueue' = Settled(upQueue, i, "completed")
  /\ UploadAttemptFrame

\* No answer: the batch may be stored.  It waits to try again, or is given up
\* after its last attempt (one in a file retry) or an error that is final.
AttemptFails(i) ==
  /\ upQueue[i].state = "active" /\ upQueue[i].step = "sending" /\ ~upStopped
  /\ upStored' \in {upStored, upStored \cup upQueue[i].files}
  /\ \/ /\ upRound = 0 /\ upQueue[i].attempt < MaxAttempts
        /\ upQueue' = [upQueue EXCEPT ![i].step = "backoff"]
        /\ UNCHANGED upKnown
     \/ /\ upQueue' = Settled(upQueue, i, "failed")
        /\ IF upRound = 0 THEN RecordFailedBatch(upQueue[i].files) ELSE UNCHANGED upKnown
  /\ UNCHANGED upCounts /\ UploadAttemptFrame

AttemptAgain(i) ==
  /\ upQueue[i].state = "active" /\ upQueue[i].step = "backoff"
  /\ ~upStopped
  /\ upQueue' = [upQueue EXCEPT ![i].step = "session", ![i].attempt = @ + 1]
  /\ UNCHANGED <<upKnown, upCounts, upStored>> /\ UploadAttemptFrame

\* The abort reaches a batch wherever it waits.
AttemptAborted(i) ==
  /\ upQueue[i].state = "active" /\ upStopped
  /\ upStored' \in IF upQueue[i].step = "sending" THEN {upStored, upStored \cup upQueue[i].files}
                                                  ELSE {upStored}
  /\ upQueue' = Settled(upQueue, i, "cancelled-active")
  /\ UNCHANGED <<upKnown, upCounts>> /\ UploadAttemptFrame

-----------------------------------------------------------------------------
(* The transfer.                                                           *)

\* The window's files are looked up by their exact paths; a file found becomes
\* part of a batch, one that is not is missing.
WindowResolve ==
  /\ upPhase = "resolving" /\ ~upStopped /\ upWork # <<>>
  /\ \E found \in SUBSET Head(upWork) :
       LET batches == BuildBatches(found)
           queue == [b \in DOMAIN batches |-> [files |-> batches[b], state |-> "queued",
                                               step |-> "none", attempt |-> 0]]
       IN /\ upQueue' = Scheduled(queue, FALSE)
          /\ upPhase' = IF found = {} THEN "resolving" ELSE "uploading"
          /\ upKnown' = [f \in UploadFiles |->
                           IF f \in Head(upWork) \ found /\ upKnown[f] = "none"
                           THEN "missing" ELSE upKnown[f]]
  /\ upWork' = Tail(upWork)
  /\ UNCHANGED <<upRound, upStopped, upCounts, upStored>>

\* A lookup that is denied or breaks rejects the whole transfer.
WindowFails ==
  /\ upPhase = "resolving" /\ upWork # <<>>
  /\ upPhase' = "aborted"
  /\ UNCHANGED <<upWork, upRound, upQueue, upStopped, upKnown, upCounts, upStored>>

QueueFinished == \A i \in DOMAIN upQueue : upQueue[i].state \notin {"queued", "active"}

\* finishIfReady resolves the queue; a cancelled one throws.
WindowDone ==
  /\ upPhase = "uploading" /\ QueueFinished
  /\ upPhase' = IF upStopped THEN "aborted" ELSE "resolving"
  /\ upQueue' = <<>>
  /\ UNCHANGED <<upWork, upRound, upStopped, upKnown, upCounts, upStored>>

RetryableFiles == {f \in UploadFiles : upKnown[f] \in {"error", "refused", "request_failed"}}

\* After the last window: wait and retry the files worth it, or return.
PassDone ==
  /\ upPhase = "resolving" /\ upWork = <<>> /\ ~upStopped
  /\ upPhase' = IF RetryableFiles # {} /\ upRound < FileRetries THEN "waiting" ELSE "done"
  /\ UNCHANGED <<upWork, upRound, upQueue, upStopped, upKnown, upCounts, upStored>>

RetryDelayOver ==
  /\ upPhase = "waiting" /\ ~upStopped
  /\ upPhase' = "resolving"
  /\ upRound' = upRound + 1
  /\ upWork' = <<RetryableFiles>>
  /\ UNCHANGED <<upQueue, upStopped, upKnown, upCounts, upStored>>

TransferAborted ==
  /\ upPhase \in {"resolving", "waiting"} /\ upStopped
  /\ upPhase' = "aborted"
  /\ UNCHANGED <<upWork, upRound, upQueue, upStopped, upKnown, upCounts, upStored>>

\* requestLocalUsbStop: the flag, the queue, the timers and the controller.
UploadCancel ==
  /\ ~upStopped /\ upPhase \notin {"done", "aborted"}
  /\ upStopped' = TRUE
  /\ upQueue' = AbortScheduling(upQueue)
  /\ UNCHANGED <<upPhase, upWork, upRound, upKnown, upCounts, upStored>>

UploadProgress ==
  \/ \E i \in DOMAIN upQueue : \/ AttemptSend(i) \/ AttemptAnswered(i) \/ AttemptFails(i)
                               \/ AttemptAgain(i) \/ AttemptAborted(i)
  \/ WindowResolve \/ WindowFails \/ WindowDone \/ PassDone \/ RetryDelayOver \/ TransferAborted

UploadNext == UploadProgress \/ UploadCancel

\* Requests time out, lookups return and timers fire.
UploadFairness == WF_uploadVars(UploadProgress)

UploadSpec == UploadInit /\ [][UploadNext]_uploadVars /\ UploadFairness

-----------------------------------------------------------------------------
\* After a stop nothing more is read from the drive for a request: not by a
\* batch that waits for its session, one in its back-off, or one still queued.
NothingSentAfterStop ==
  [][upStopped => \A i \in DOMAIN upQueue' :
       upQueue'[i].step = "sending" => i \in DOMAIN upQueue /\ upQueue[i].step = "sending"]_uploadVars

\* The number of confirmed files the user sees is the number of files recorded
\* as stored, and each of those is on the backend, through lost answers,
\* repeated requests and file retries; a transfer that returns has decided
\* every file.
ConfirmedIsStored ==
  /\ \A f \in UploadFiles : upKnown[f] \in Stored => f \in upStored
  /\ upCounts.received + upCounts.already = Cardinality({f \in UploadFiles : upKnown[f] \in Stored})
  /\ upPhase = "done" => \A f \in UploadFiles : upKnown[f] # "none"

\* The transfer ends, finished or cancelled, whatever fails.
UploadReturns == <>(upPhase \in {"done", "aborted"})
=============================================================================
