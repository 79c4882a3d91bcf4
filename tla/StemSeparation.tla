--------------------------- MODULE StemSeparation ----------------------------
(***************************************************************************)
(* The queue of stem separation jobs of electron/stemSeparationBridge.cjs: *)
(* a full separation or a preview is requested, runs alone, is published   *)
(* by renaming a directory, may be cancelled, cleared or timed out.        *)
(* A job slot stands for one identity (track, source, algorithm).  The     *)
(* state of a job is the code between two awaits of _runJob.               *)
(***************************************************************************)
EXTENDS Naturals, Sequences, FiniteSets

CONSTANTS StemJobs,     \* identities a prepare can ask for
          StemPreviews, \* those that are previews
          MaxRuns       \* bound: workers started for one identity

ASSUME StemAssumption == StemPreviews \subseteq StemJobs /\ MaxRuns \in Nat

VARIABLES stemJob,       \* the unsettled job of each identity
          stemQueue,     \* separationQueue
          stemActive,    \* separationActive, as a set of at most one job
          stemProcs,     \* worker processes alive, counted by identity
          stemRuns,      \* workers started, for the bound
          stemCache,     \* the published pair: "absent", "backup", "moved" or "whole"
          stemAnswers,   \* last answer given for each identity
          stemClearing,  \* clearCache is removing the storage root
          stemHealth     \* what healthPromise resolved to

stemVars == <<stemJob, stemQueue, stemActive, stemProcs, stemRuns, stemCache,
              stemAnswers, stemClearing, stemHealth>>

StemPhases == {"none", "queued", "loading", "checked", "working", "validating",
               "publishing", "renaming", "rewriting", "cleaning"}

StemTypeOK ==
  /\ stemJob \in [StemJobs -> [phase : StemPhases, cancelled : BOOLEAN,
                               result : {"none", "ok", "cancelled", "failed"}]]
  /\ stemQueue \in Seq(StemJobs)
  /\ stemActive \subseteq StemJobs
  /\ stemProcs \in [StemJobs -> Nat]
  /\ stemRuns \in [StemJobs -> Nat]
  /\ stemCache \in [StemJobs -> {"absent", "backup", "moved", "whole"}]
  /\ stemAnswers \in [StemJobs -> {"none", "ok", "cancelled", "failed"}]
  /\ stemClearing \in BOOLEAN
  /\ stemHealth \in {"unknown", "available", "unavailable"}

NoJob == [phase |-> "none", cancelled |-> FALSE, result |-> "none"]

StemInit ==
  /\ stemJob = [j \in StemJobs |-> NoJob]
  /\ stemQueue = << >>
  /\ stemActive = {}
  /\ stemProcs = [j \in StemJobs |-> 0]
  /\ stemRuns = [j \in StemJobs |-> 0]
  /\ stemCache = [j \in StemJobs |-> "absent"]
  /\ stemAnswers = [j \in StemJobs |-> "none"]
  /\ stemClearing = FALSE
  /\ stemHealth = "unknown"

\* health: the first answer is kept, good or bad, until a refresh is asked for.
CheckHealth(refresh) ==
  /\ refresh \/ stemHealth = "unknown"
  /\ stemHealth' \in {"available", "unavailable"}
  /\ UNCHANGED <<stemJob, stemQueue, stemActive, stemProcs, stemRuns, stemCache,
                 stemAnswers, stemClearing>>

\* _pumpSeparationQueue: with no active job the head of the queue starts.
\* cancel and close settle waiting jobs, so the head is neither settled nor
\* cancelled.
StemPumpEager(jobs, queue, active) ==
  IF queue # << >>
  THEN /\ stemQueue' = Tail(queue)
       /\ stemActive' = active \cup {Head(queue)}
       /\ stemJob' = [jobs EXCEPT ![Head(queue)].phase = "loading"]
  ELSE /\ stemQueue' = queue /\ stemActive' = active /\ stemJob' = jobs

StemPump(jobs, queue, active) ==
  IF active = {} /\ queue # << >>
  THEN /\ stemQueue' = Tail(queue)
       /\ stemActive' = {Head(queue)}
       /\ stemJob' = [jobs EXCEPT ![Head(queue)].phase = "loading"]
  ELSE /\ stemQueue' = queue /\ stemActive' = active /\ stemJob' = jobs

\* prepare and preparePreview: an unsettled job of the same identity, even a
\* cancelled one, is shared; otherwise a new job is queued.
Prepare(j) ==
  /\ stemHealth = "available"
  /\ stemRuns[j] < MaxRuns
  /\ stemJob[j].phase = "none"
  /\ StemPump([stemJob EXCEPT ![j] = [NoJob EXCEPT !.phase = "queued"]],
              Append(stemQueue, j), stemActive)
  /\ stemRuns' = [stemRuns EXCEPT ![j] = @ + 1]
  /\ stemAnswers' = [stemAnswers EXCEPT ![j] = "none"]
  /\ UNCHANGED <<stemProcs, stemCache, stemClearing, stemHealth>>

StemStep(j, from, to) ==
  /\ stemJob[j].phase = from
  /\ stemJob' = [stemJob EXCEPT ![j].phase = to]
  /\ UNCHANGED <<stemQueue, stemActive, stemRuns, stemAnswers, stemClearing, stemHealth>>

StemResult(j, from, result) ==
  /\ stemJob[j].phase = from
  /\ stemJob' = [stemJob EXCEPT ![j].phase = "cleaning", ![j].result = result]
  /\ UNCHANGED <<stemQueue, stemActive, stemRuns, stemAnswers, stemClearing, stemHealth>>

\* _loadCachedHq, _loadCachedPreview: a manifest that matches its two files is
\* answered at once; one that does not, or cannot be read, is as good as none.
\* Then the source is inspected and the staging root made, or the run throws.
LoadCached(j) ==
  /\ \/ stemCache[j] \in {"moved", "whole"} /\ StemResult(j, "loading", "ok")
     \/ StemStep(j, "loading", "checked")
     \/ StemResult(j, "loading", "failed")
  /\ UNCHANGED <<stemProcs, stemCache>>

\* resolveLaunch and _spawnWorker, unless the job was cancelled while it loaded:
\* without a runtime, or with one that does not start, the job fails.
SpawnWorker(j) ==
  \/ /\ StemResult(j, "checked", IF stemJob[j].cancelled THEN "cancelled" ELSE "failed")
     /\ UNCHANGED <<stemProcs, stemCache>>
  \/ /\ ~stemJob[j].cancelled /\ StemStep(j, "checked", "working")
     /\ stemProcs' = [stemProcs EXCEPT ![j] = @ + 1]
     /\ UNCHANGED stemCache

\* The worker of the running job exits.
WorkerExits(j) ==
  /\ stemProcs[j] > 0
  /\ stemProcs' = [stemProcs EXCEPT ![j] = @ - 1]
  /\ \/ StemResult(j, "working", IF stemJob[j].cancelled THEN "cancelled" ELSE "failed")
     \/ ~stemJob[j].cancelled /\ StemStep(j, "working", "validating")
  /\ UNCHANGED stemCache

\* A worker told to stop by the time limit exits after its job was answered.
LateExit(j) ==
  /\ stemJob[j].phase # "working" /\ stemProcs[j] > 0
  /\ stemProcs' = [stemProcs EXCEPT ![j] = @ - 1]
  /\ UNCHANGED <<stemJob, stemQueue, stemActive, stemRuns, stemCache, stemAnswers, stemClearing, stemHealth>>

\* JOB_TIMEOUT_MS: SIGTERM is sent and the job is answered without waiting.
WorkerTimesOut(j) ==
  /\ stemJob[j].phase = "working"
  /\ stemJob' = [stemJob EXCEPT ![j].phase = "cleaning", ![j].result = "failed",
                                ![j].cancelled = TRUE]
  /\ UNCHANGED <<stemQueue, stemActive, stemProcs, stemRuns, stemCache, stemAnswers, stemClearing, stemHealth>>

\* Identity, durations and the manifest were checked; only a preview asks
\* again whether it was cancelled.
ValidateOutput(j) ==
  /\ \/ StemResult(j, "validating", "failed")
     \/ j \in StemPreviews /\ stemJob[j].cancelled /\ StemResult(j, "validating", "cancelled")
     \/ ~(j \in StemPreviews /\ stemJob[j].cancelled) /\ StemStep(j, "validating", "publishing")
  /\ UNCHANGED <<stemProcs, stemCache>>

\* atomicPublishDirectory: the previous pair is renamed away ...
PublishAside(j) ==
  /\ StemStep(j, "publishing", "renaming")
  /\ stemCache' = [stemCache EXCEPT ![j] = IF @ \in {"moved", "whole"} THEN "backup" ELSE @]
  /\ UNCHANGED stemProcs

\* ... the new one takes its place, or the previous one is put back.
PublishRename(j) ==
  /\ \/ /\ StemStep(j, "renaming", "rewriting")
        /\ stemCache' = [stemCache EXCEPT ![j] = "moved"]
     \/ /\ StemResult(j, "renaming", IF stemJob[j].cancelled THEN "cancelled" ELSE "failed")
        /\ stemCache' = [stemCache EXCEPT ![j] = IF @ = "backup" THEN "whole" ELSE @]
  /\ UNCHANGED stemProcs

\* The published files are inspected and the manifest is written again.
RewriteManifest(j) ==
  /\ \/ /\ stemCache[j] = "moved"
        /\ StemResult(j, "rewriting", "ok")
        /\ stemCache' = [stemCache EXCEPT ![j] = "whole"]
     \/ /\ StemResult(j, "rewriting", IF stemJob[j].cancelled THEN "cancelled" ELSE "failed")
        /\ UNCHANGED stemCache
  /\ UNCHANGED stemProcs

\* finally: staging is removed, the job settles and the queue is pumped.
SettleUnpumped(j) ==
  /\ stemJob[j].phase = "cleaning"
  /\ stemAnswers' = [stemAnswers EXCEPT ![j] = stemJob[j].result]
  /\ stemJob' = [stemJob EXCEPT ![j] = NoJob] /\ stemActive' = stemActive \ {j}
  /\ UNCHANGED <<stemQueue, stemProcs, stemRuns, stemCache, stemClearing, stemHealth>>

Settle(j) ==
  /\ stemJob[j].phase = "cleaning"
  /\ stemAnswers' = [stemAnswers EXCEPT ![j] = stemJob[j].result]
  /\ StemPump([stemJob EXCEPT ![j] = NoJob], stemQueue, stemActive \ {j})
  /\ UNCHANGED <<stemProcs, stemRuns, stemCache, stemClearing, stemHealth>>

\* separationQueue.filter: the jobs not in gone, in their order.
Without(queue, gone) ==
  LET kept[i \in 0..Len(queue)] ==
        IF i = 0 THEN << >>
        ELSE IF queue[i] \in gone THEN kept[i - 1] ELSE Append(kept[i - 1], queue[i])
  IN kept[Len(queue)]

\* cancel and close mark every job concerned, and settle those not started.
CancelAll(js) ==
  LET waiting == {j \in js : stemJob[j].phase = "queued"}
      running == {j \in js : stemJob[j].phase \notin {"none", "queued"}}
  IN /\ stemJob' = [j \in StemJobs |->
                      IF j \in waiting THEN NoJob
                      ELSE IF j \in running THEN [stemJob[j] EXCEPT !.cancelled = TRUE]
                      ELSE stemJob[j]]
     /\ stemAnswers' = [j \in StemJobs |-> IF j \in waiting THEN "cancelled" ELSE stemAnswers[j]]
     /\ stemQueue' = Without(stemQueue, waiting)

CancelJob(j) ==
  /\ stemJob[j].phase # "none"
  /\ CancelAll({j})
  /\ UNCHANGED <<stemActive, stemProcs, stemRuns, stemCache, stemClearing, stemHealth>>

\* clearCache closes, then removes the whole storage root.  The running job is
\* not waited for: what it writes while the root is being removed may survive.
ClearBegin ==
  /\ ~stemClearing
  /\ stemClearing' = TRUE
  /\ CancelAll(StemJobs)
  /\ UNCHANGED <<stemActive, stemProcs, stemRuns, stemCache, stemHealth>>

ClearEnd ==
  /\ stemClearing
  /\ stemClearing' = FALSE
  /\ stemCache' = [j \in StemJobs |-> "absent"]
  /\ UNCHANGED <<stemJob, stemQueue, stemActive, stemProcs, stemRuns, stemAnswers, stemHealth>>

StemJobStep(j) ==
  \/ LoadCached(j) \/ SpawnWorker(j) \/ WorkerExits(j) \/ WorkerTimesOut(j)
  \/ ValidateOutput(j) \/ PublishAside(j) \/ PublishRename(j) \/ RewriteManifest(j)
  \/ Settle(j)

StemNext ==
  \/ \E j \in StemJobs : Prepare(j) \/ StemJobStep(j) \/ LateExit(j) \/ CancelJob(j)
  \/ ClearBegin \/ ClearEnd
  \/ \E refresh \in BOOLEAN : CheckHealth(refresh)

\* File calls return; a worker exits or meets its time limit.
StemFairness == \A j \in StemJobs : WF_stemVars(StemJobStep(j))

StemSpec == StemInit /\ [][StemNext]_stemVars /\ StemFairness

-----------------------------------------------------------------------------
\* The queue runs one job at a time, from start to settlement, across
\* cancellations, timeouts and clears.
OneSeparation ==
  /\ Cardinality({j \in StemJobs : stemJob[j].phase \notin {"none", "queued"}}) <= 1
  /\ \A j \in StemJobs : stemJob[j].phase = "queued" <=> \E i \in 1..Len(stemQueue) : stemQueue[i] = j

\* A promise handed out by prepare is settled, also when it is shared by
\* several callers, cancelled while it waits or overtaken by a clear.
EveryPrepareSettles ==
  \A j \in StemJobs : stemJob[j].phase # "none" ~> stemAnswers[j] # "none"
=============================================================================
