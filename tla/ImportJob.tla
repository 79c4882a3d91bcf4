------------------------------ MODULE ImportJob ------------------------------
(***************************************************************************)
(* One Rekordbox import from the start of its analysis to its hard delete: *)
(* the row of rekordbox_imports with its transition trigger, the in-process*)
(* worker registries, the durable analysis lease (ExclusiveLease), the     *)
(* analysis worker, the pause, delete, resume and complete requests, the   *)
(* delete finalizer and the startup recovery of an API process.            *)
(*                                                                         *)
(* An actor is a thread: a request, a worker or the startup of a process.  *)
(* Every read or write of the database is a step of its own; what a thread *)
(* read is in `seen` and may be stale when the thread acts on it.          *)
(***************************************************************************)
EXTENDS Naturals, FiniteSets

CONSTANTS
  Procs,        \* API processes
  Reqs,         \* HTTP requests, each made once
  Kind,         \* what each request asks for
  Workers,      \* worker threads; a worker is its lease's owner token
  First,        \* the worker that the initial state has started
  NoOwner,
  Tracks,
  InitStatus,   \* "processing", or "completed" for a visible library snapshot
  MaxCrashes,   \* bound: process deaths
  Faults,       \* TRUE: storage, RPC and parser calls may raise
  LateBeats,    \* TRUE: a lease may expire under a live worker
  GiveUp        \* TRUE: a delete finalizer may reach its 300 s limit

Kinds == {"pause", "resume", "complete", "delete_next", "delete_over"}

ASSUME ConfigAssumption ==
  /\ Kind \in [Reqs -> Kinds]
  /\ First \in Workers
  /\ InitStatus \in {"processing", "completed"}
  /\ MaxCrashes \in Nat
  /\ Faults \in BOOLEAN /\ LateBeats \in BOOLEAN /\ GiveUp \in BOOLEAN
ASSUME ActorAssumption ==
  /\ NoOwner \notin Workers
  /\ Procs \cap Reqs = {} /\ Procs \cap Workers = {} /\ Reqs \cap Workers = {}

VARIABLES
  row,      \* the rekordbox_imports row
  objects,  \* tracks whose detail waveform is in storage
  waves,    \* tracks whose rekordbox_track_waveforms row names that object
  done,     \* tracks with a final analysis status
  staged,   \* the staging directory of the import exists
  owner,    \* lease row of the worker kind "analysis"
  valid,    \* ... and whether it is unexpired
  reg,      \* worker_registry of each process
  events,   \* _events: a local cancellation was signalled in the process
  pc, home, seen, left, why,
  crashes,
  intent    \* history: strategy of the first accepted delete, or "none"

vars == <<row, objects, waves, done, staged, owner, valid, reg, events,
          pc, home, seen, left, why, crashes, intent>>
data == <<objects, waves, done, staged>>
lease == <<owner, valid>>
local == <<reg, events>>
worker == <<left, why>>

Actors == Reqs \cup Workers \cup Procs

Lease == INSTANCE ExclusiveLease WITH
           Tokens <- Workers, spent <- {w \in Workers : pc[w] # "unused"}

-----------------------------------------------------------------------------
(* States and the transition trigger                                       *)

Statuses == {"created", "uploading", "queued", "processing", "running",
             "pause_requested", "paused", "cancel_requested", "stopping",
             "deleting", "cancelled", "completed", "failed", "interrupted"}
AnalysisStates == {"queued", "parsing", "pause_requested", "paused", "stopping",
                   "completed", "partial", "failed", "interrupted"}
WorkerStates == {"queued", "running", "pause_requested", "paused",
                 "cancel_requested", "stopping", "deleting", "stopped",
                 "completed", "failed", "interrupted"}
Strategies == {"none", "activate_next", "start_over"}

\* enforce_rekordbox_import_state_transition and ALLOWED_TRANSITIONS
Successors ==
  [created |-> {"uploading", "pause_requested", "cancel_requested", "cancelled",
                "failed", "interrupted"},
   uploading |-> {"queued", "pause_requested", "cancel_requested", "cancelled",
                  "failed", "interrupted"},
   queued |-> {"processing", "running", "pause_requested", "cancel_requested",
               "cancelled", "failed", "interrupted"},
   processing |-> {"running", "pause_requested", "cancel_requested", "stopping",
                   "completed", "failed", "interrupted"},
   running |-> {"pause_requested", "cancel_requested", "stopping", "completed",
                "failed", "interrupted"},
   pause_requested |-> {"paused", "stopping", "cancel_requested", "failed", "interrupted"},
   paused |-> {"queued", "processing", "running", "cancel_requested", "deleting",
               "failed", "interrupted"},
   cancel_requested |-> {"stopping", "deleting", "cancelled", "interrupted"},
   stopping |-> {"paused", "deleting", "cancelled", "interrupted"},
   deleting |-> {"cancelled", "interrupted"},
   cancelled |-> {},
   completed |-> {"pause_requested", "paused", "cancel_requested", "deleting",
                  "interrupted"},
   failed |-> {"cancel_requested", "deleting"},
   interrupted |-> {"queued", "processing", "running", "paused", "cancel_requested",
                    "deleting", "failed"}]

Allowed(s) == row.exists /\ (s = row.status \/ s \in Successors[row.status])

DeletePending == {"cancel_requested", "stopping", "deleting"}
Cancellation == DeletePending \cup {"cancelled"}     \* CANCELLATION_STATES
WriteBarrier == {"deleting", "cancelled", "failed"}  \* reject_terminal_rekordbox_import_write

\* _stop_reason(): what the durable row asks a worker to do.
StopReason ==
  IF \/ row.status \in Cancellation
     \/ row.analysis = "stopping"
     \/ row.worker \in {"cancel_requested", "stopping", "deleting"}
  THEN "delete"
  ELSE IF \/ row.status \in {"pause_requested", "paused"}
          \/ row.analysis \in {"pause_requested", "paused"}
          \/ row.worker \in {"pause_requested", "paused"}
       THEN "pause" ELSE "none"

FinalAnalysisUnset == "none"
FinalAnalysisAssumed == "completed"
FinalAnalysis == IF done = Tracks THEN "completed"
                 ELSE IF done = {} THEN "failed" ELSE "partial"

-----------------------------------------------------------------------------
(* Threads                                                                 *)

Nothing == [status |-> "none", analysis |-> "none", worker |-> "none",
            ack |-> FALSE, strategy |-> "none"]

\* What a thread remembers of the row.
Snapshot == [status |-> row.status, analysis |-> row.analysis, worker |-> row.worker,
             ack |-> row.ack, strategy |-> row.strategy]

Goto(a, l) == pc' = [pc EXCEPT ![a] = l]
Remember(a, s) == seen' = [seen EXCEPT ![a] = s]

\* A thread that ends keeps nothing.
Leave(a, l) == Goto(a, l) /\ Remember(a, Nothing)

\* Update of the row through the trigger; a rejected update raises.
Set(s, an, wk, k) == row' = [row EXCEPT !.status = s, !.analysis = an,
                                        !.worker = wk, !.ack = k]
Save(a, s, an, wk, k, next, raised) ==
  \/ Allowed(s) /\ Set(s, an, wk, k) /\ Goto(a, next)
  \/ ~Allowed(s) /\ Goto(a, raised) /\ UNCHANGED row

\* _BACKGROUND_WORKERS holds a live thread (popped before the lease is released).
AtWork == {"w_register", "w_load", "w_publish", "w_check", "w_upload", "w_write",
           "w_final", "w_assert", "w_state", "w_complete", "w_published",
           "w_stop", "w_cancelled", "w_early1", "w_early2", "w_lost", "w_fail"}
Background(p) == \E w \in Workers : home[w] = p /\ pc[w] \in AtWork

Alive(w) == pc[w] \notin {"unused", "done", "dead"}

\* worker_registry.request_stop
RequestStopAcks(p, delete) ==
  reg' = [reg EXCEPT ![p].pause = TRUE, ![p].delete = @ \/ delete,
                     ![p].acked = TRUE, ![p].active = FALSE]
RequestStop(p, delete) ==
  reg' = [reg EXCEPT ![p].pause = TRUE, ![p].delete = @ \/ delete,
                     ![p].acked = @ \/ ~reg[p].active]

\* worker_registry.acknowledge_stopped
AcknowledgeKeepsActive(p) == reg' = [reg EXCEPT ![p].acked = TRUE]
Acknowledge(p) == reg' = [reg EXCEPT ![p].active = FALSE, ![p].acked = TRUE]

LocalReason(p) == IF reg[p].delete THEN "delete"
                  ELSE IF reg[p].pause THEN "pause" ELSE "none"

\* _wait_for_worker_kinds_inactive: this process's registry and the lease row.
InactiveHere(p) == ~reg[p].active
Inactive(p) == ~reg[p].active /\ ~Lease!LeaseActive

InitReg == [active |-> FALSE, pause |-> FALSE, delete |-> FALSE, acked |-> FALSE]

Init == /\ row = [exists |-> TRUE, status |-> InitStatus, analysis |-> "queued",
                  worker |-> "queued", ack |-> FALSE, strategy |-> "none"]
        /\ objects = {} /\ waves = {} /\ done = {} /\ staged = TRUE
        /\ owner = First /\ valid = TRUE
        /\ reg = [p \in Procs |-> InitReg]
        /\ events = [p \in Procs |-> FALSE]
        /\ pc = [a \in Actors |-> IF a = First THEN "w_register"
                                  ELSE IF a \in Workers THEN "unused"
                                  ELSE IF a \in Reqs THEN "idle" ELSE "up"]
        /\ \E p \in Procs : home = [a \in Actors |-> IF a \in Procs THEN a ELSE p]
        /\ seen = [a \in Actors |-> Nothing]
        /\ left = [w \in Workers |-> {}]
        /\ why = [a \in Workers \cup Reqs |-> "none"]
        /\ crashes = 0
        /\ intent = "none"

-----------------------------------------------------------------------------
(* finalize_paused_import, called by the pause request and twice by the    *)
(* worker: it reads the row and both owners, then writes what it decided.  *)

FinalizeRead(a, at, write, exit) ==
  /\ pc[a] = at
  /\ IF /\ row.exists
        /\ Inactive(home[a])
        /\ row.status \in {"completed", "pause_requested", "stopping", "paused"}
     THEN Goto(a, write) /\ Remember(a, Snapshot)
     ELSE Leave(a, exit)
  /\ UNCHANGED <<row, data, lease, local, home, worker, crashes, intent>>

FinalizeWrite(a, at, exit, raised) ==
  /\ pc[a] = at
  /\ Save(a, IF seen[a].status = "completed" THEN "completed" ELSE "paused",
          "paused", "paused", TRUE, exit, raised)
  /\ Remember(a, Nothing)
  /\ UNCHANGED <<data, lease, local, home, worker, crashes, intent>>

-----------------------------------------------------------------------------
(* complete_import_job, called by the worker and by the complete request:  *)
(* a cancellation check, a read of the state, a compare-and-set.           *)

Cancelled(a) == events[home[a]] \/ (row.exists /\ row.status \in Cancellation)

SignalCancellation(a) == events' = [events EXCEPT ![home[a]] = TRUE]

CompleteAssert(a, at, next, conflict, cancelled) ==
  /\ pc[a] = at
  /\ \/ Cancelled(a) /\ Goto(a, cancelled) /\ SignalCancellation(a)
     \/ ~Cancelled(a) /\ Goto(a, IF row.exists THEN next ELSE conflict) /\ UNCHANGED events
  /\ UNCHANGED <<row, data, lease, reg, home, seen, worker, crashes, intent>>

CompleteState(a, at, next, conflict) ==
  /\ pc[a] = at
  /\ IF row.exists /\ row.status = "processing"
     THEN Goto(a, next) /\ Remember(a, Snapshot)
     ELSE Leave(a, conflict)
  /\ UNCHANGED <<row, data, lease, local, home, worker, crashes, intent>>

\* _terminal_consistency_updates, from the analysis status that was read.
CompletedAnalysis(read) ==
  IF read \in {"parsing", "pause_requested", "stopping"} THEN FinalAnalysis ELSE row.analysis

StillIn(s) == row.exists /\ row.status = s

CompleteWrite(a, at, next, conflict, cancelled) ==
  /\ pc[a] = at
  /\ \/ /\ StillIn("processing")
        /\ Set("completed", CompletedAnalysis(seen[a].analysis), row.worker, row.ack)
        /\ Goto(a, next)
        /\ UNCHANGED events
     \/ /\ ~StillIn("processing")
        /\ row.exists /\ row.status \in Cancellation
        /\ SignalCancellation(a)
        /\ Goto(a, cancelled)
        /\ UNCHANGED row
     \/ /\ ~StillIn("processing")
        /\ ~row.exists \/ row.status \notin Cancellation
        /\ Goto(a, conflict)
        /\ UNCHANGED <<row, events>>
  /\ Remember(a, Nothing)
  /\ UNCHANGED <<data, lease, reg, home, worker, crashes, intent>>

-----------------------------------------------------------------------------
(* _start_background_analysis: one thread per process, then the claim.     *)

StartWorker(a, exit) ==
  /\ ~Background(home[a])
  /\ \E w \in Workers :
       /\ pc[w] = "unused"
       /\ pc' = [pc EXCEPT ![w] = "w_register", ![a] = exit]
       /\ home' = [home EXCEPT ![w] = home[a]]
       /\ row.exists
       /\ Lease!Claim(w)

\* A live local thread, or WorkerLeaseConflict.
StartRefused(a, exit) == /\ Background(home[a]) \/ Lease!LeaseActive \/ ~row.exists
                         /\ Goto(a, exit)
                         /\ UNCHANGED <<lease, home>>

-----------------------------------------------------------------------------
(* The analysis worker: _run_fast_analysis_import_sync under               *)
(* _background_analysis_entry.                                             *)

\* worker_registry.register refuses a second active worker of the process.
WRegister(w) ==
  /\ pc[w] = "w_register"
  /\ IF reg[home[w]].active
     THEN Goto(w, "w_release") /\ UNCHANGED reg
     ELSE /\ reg' = [reg EXCEPT ![home[w]].active = TRUE, ![home[w]].acked = FALSE]
          /\ Goto(w, "w_load")
  /\ UNCHANGED <<row, data, lease, events, home, seen, worker, crashes, intent>>

\* The import row and the tracks that have no final status yet.
WLoad(w) ==
  /\ pc[w] = "w_load"
  /\ IF row.exists
     THEN Goto(w, "w_publish") /\ left' = [left EXCEPT ![w] = Tracks \ done]
     ELSE Goto(w, "w_fail") /\ UNCHANGED left
  /\ UNCHANGED <<row, data, lease, local, home, seen, why, crashes, intent>>

\* publish_worker_state("running", analysis_status="parsing"): not conditional.
WPublish(w) ==
  /\ pc[w] = "w_publish"
  /\ Save(w, row.status, "parsing", "running", FALSE, "w_check", "w_fail")
  /\ UNCHANGED <<data, lease, local, home, seen, worker, crashes, intent>>

\* A forced checkpoint: the local registry, the renewal, the durable row.
LeaseHeld(w) == owner = w /\ valid

WCheck(w) ==
  /\ pc[w] = "w_check"
  /\ \/ /\ LocalReason(home[w]) # "none"
        /\ why' = [why EXCEPT ![w] = LocalReason(home[w])]
        /\ Goto(w, "w_stop")
     \/ /\ LocalReason(home[w]) = "none"
        /\ ~LeaseHeld(w) \/ ~row.exists
        /\ Goto(w, "w_lost")
        /\ UNCHANGED why
     \/ /\ LocalReason(home[w]) = "none"
        /\ LeaseHeld(w) /\ row.exists
        /\ IF StopReason # "none"
           THEN Goto(w, "w_stop") /\ why' = [why EXCEPT ![w] = StopReason]
           ELSE /\ Goto(w, IF left[w] = {} THEN "w_final" ELSE "w_upload")
                /\ UNCHANGED why
  /\ UNCHANGED <<row, data, lease, local, home, seen, left, crashes, intent>>

\* A parser, a query or the pipeline raises.
WRaise(w) ==
  /\ Faults
  /\ pc[w] \in {"w_load", "w_upload", "w_write"}
  /\ Goto(w, "w_fail")
  /\ UNCHANGED <<row, data, lease, local, home, seen, worker, crashes, intent>>

NextTrack(w) == CHOOSE t \in left[w] : TRUE

\* Between checkpoints the hot path asks the local registry only; then the
\* detail waveform of the track goes to storage.
WUpload(w) ==
  /\ pc[w] = "w_upload"
  /\ IF LocalReason(home[w]) # "none"
     THEN /\ Goto(w, "w_stop")
          /\ why' = [why EXCEPT ![w] = LocalReason(home[w])]
          /\ UNCHANGED objects
     ELSE /\ objects' = objects \cup {NextTrack(w)}
          /\ Goto(w, "w_write")
          /\ UNCHANGED why
  /\ UNCHANGED <<row, waves, done, staged, lease, local, home, seen, left, crashes, intent>>

\* The feature rows and, last, the final track status.  A row-specific failure
\* leaves the track failed; a refused write of that status ends the worker.
WWrite(w) ==
  /\ pc[w] = "w_write"
  /\ IF row.exists /\ row.status \notin WriteBarrier
     THEN /\ left' = [left EXCEPT ![w] = @ \ {NextTrack(w)}]
          /\ \/ waves' = waves \cup {NextTrack(w)} /\ done' = done \cup {NextTrack(w)}
             \/ Faults /\ UNCHANGED <<waves, done>>
          /\ Goto(w, "w_check")
     ELSE Goto(w, "w_fail") /\ UNCHANGED <<left, waves, done>>
  /\ UNCHANGED <<row, objects, staged, lease, local, home, seen, why, crashes, intent>>

\* The final update of the row; it matches nothing when the row is gone.
WFinal(w) ==
  /\ pc[w] = "w_final"
  /\ IF row.exists THEN Set(row.status, FinalAnalysis, "completed", TRUE) ELSE UNCHANGED row
  /\ why' = [why EXCEPT ![w] = FinalAnalysis]
  /\ Goto(w, "w_assert")
  /\ UNCHANGED <<data, lease, local, home, seen, left, crashes, intent>>

\* An HTTPException of complete_import_job is swallowed, ImportCancelledError
\* joins the stop path.
WComplete(w) == \/ CompleteAssert(w, "w_assert", "w_state", "w_published", "w_cancelled")
                \/ CompleteState(w, "w_state", "w_complete", "w_published")
                \/ CompleteWrite(w, "w_complete", "w_published", "w_published", "w_cancelled")

\* publish_worker_state("completed") with the status computed before the final
\* update, and the local acknowledgement; a row that is gone raises.
WPublished(w) ==
  /\ pc[w] = "w_published"
  /\ Save(w, row.status, why[w], "completed", TRUE, "w_release", "w_fail")
  /\ reg' = IF row.exists
            THEN [reg EXCEPT ![home[w]].active = FALSE, ![home[w]].acked = TRUE]
            ELSE reg
  /\ UNCHANGED <<data, lease, events, home, seen, worker, crashes, intent>>

\* WorkerStopRequested or ImportCancelledError: the registry's reason first.
StopsFor(w) == IF LocalReason(home[w]) # "none" THEN LocalReason(home[w])
               ELSE IF pc[w] = "w_cancelled" THEN "delete" ELSE why[w]

WStop(w) ==
  /\ pc[w] \in {"w_stop", "w_cancelled"}
  /\ LET pause == StopsFor(w) = "pause"
     IN Save(w, row.status, IF pause THEN "paused" ELSE "stopping",
             IF pause THEN "paused" ELSE "stopped", TRUE,
             IF pause THEN "w_early1" ELSE "w_release", "w_drop")
  /\ Acknowledge(home[w])
  /\ UNCHANGED <<data, lease, events, home, seen, worker, crashes, intent>>

\* WorkerLeaseLost publishes nothing.
WLost(w) ==
  /\ pc[w] = "w_lost"
  /\ Acknowledge(home[w])
  /\ Goto(w, "w_release")
  /\ UNCHANGED <<row, data, lease, events, home, seen, worker, crashes, intent>>

\* The generic handler writes "interrupted" over whatever the row says.
FailStatus == "interrupted"
WFail(w) ==
  /\ pc[w] = "w_fail"
  /\ Save(w, FailStatus, "interrupted", "failed", TRUE, "w_release", "w_release")
  /\ Acknowledge(home[w])
  /\ UNCHANGED <<data, lease, events, home, seen, worker, crashes, intent>>

\* worker_lease.release() deletes by token; afterwards a pause is finalized,
\* unless its handler raised (w_drop).
WRelease(w) ==
  /\ pc[w] \in {"w_release", "w_drop"}
  /\ Goto(w, IF why[w] = "pause" /\ pc[w] = "w_release" THEN "w_late1" ELSE "done")
  /\ \/ Lease!Release(w)
     \/ owner # w /\ UNCHANGED lease
     \/ Faults /\ UNCHANGED lease
  /\ left' = [left EXCEPT ![w] = {}]
  /\ UNCHANGED <<row, data, local, home, seen, why, crashes, intent>>

WFinalize(w) == \/ FinalizeRead(w, "w_early1", "w_early2", "w_release")
                \/ FinalizeWrite(w, "w_early2", "w_release", "w_drop")
                \/ FinalizeRead(w, "w_late1", "w_late2", "done")
                \/ FinalizeWrite(w, "w_late2", "done", "done")

-----------------------------------------------------------------------------
(* Requests                                                                *)

\* A request reaches any process that is up.
Begin(r, first) == /\ pc[r] = "idle"
                   /\ \E p \in Procs : pc[p] = "up" /\ home' = [home EXCEPT ![r] = p]
                   /\ Goto(r, first)
                   /\ UNCHANGED <<row, data, lease, local, seen, worker, crashes, intent>>

Arrive(r) == Begin(r, CASE Kind[r] = "pause" -> "p_read"
                        [] Kind[r] = "resume" -> "r_read"
                        [] Kind[r] = "complete" -> "k_read"
                        [] OTHER -> "d_read")

\* The bounded wait for both owners ends, or runs out while one is active.
WaitEnds(r, at, stopped, timedOut) ==
  /\ pc[r] = at
  /\ Goto(r, IF Inactive(home[r]) THEN stopped ELSE timedOut)
  /\ UNCHANGED <<row, data, lease, local, home, seen, worker, crashes, intent>>

-----------------------------------------------------------------------------
(* POST /pause: pause_import_analysis                                      *)

PauseIgnored(p) ==
  \/ ~row.exists
  \/ row.analysis \in {"paused", "interrupted"}
  \/ row.analysis \in {"completed", "partial", "failed"} /\ ~reg[p].active
  \/ row.status \in {"cancelled", "failed", "deleting", "cancel_requested"}
  \/ /\ row.status = "stopping"
     /\ reg[p].delete \/ row.worker \in {"cancel_requested", "deleting"}

PauseRead(r) ==
  /\ pc[r] = "p_read"
  /\ IF PauseIgnored(home[r])
     THEN Leave(r, "done") /\ UNCHANGED reg
     ELSE /\ RequestStop(home[r], FALSE)
          /\ Goto(r, "p_update") /\ Remember(r, Snapshot)
  /\ UNCHANGED <<row, data, lease, events, home, worker, crashes, intent>>

PauseStatusKept(s) == s
PauseStatus(s) == IF s \in {"completed", "pause_requested", "stopping"} THEN s
                  ELSE "pause_requested"

PauseUpdate(r) ==
  /\ pc[r] = "p_update"
  /\ Save(r, PauseStatus(seen[r].status), "pause_requested", "pause_requested", FALSE,
          "p_wait", "done")
  /\ UNCHANGED <<data, lease, local, home, seen, worker, crashes, intent>>

\* Stopped in time: publish paused, then finalize.
PausePaused(r) ==
  /\ pc[r] = "p_paused"
  /\ Save(r, row.status, "paused", "paused", TRUE, "p_fin1", "done")
  /\ UNCHANGED <<data, lease, local, home, seen, worker, crashes, intent>>

\* Timed out: publish stopping, then move the job to stopping.
PauseStopping(r) ==
  /\ pc[r] = "p_stopping"
  /\ Save(r, row.status, "stopping", "stopping", FALSE, "p_status", "done")
  /\ UNCHANGED <<data, lease, local, home, seen, worker, crashes, intent>>

PauseTimedOut(r) ==
  /\ pc[r] = "p_status"
  /\ Save(r, IF seen[r].status = "completed" THEN "completed" ELSE "stopping",
          row.analysis, row.worker, row.ack, "done", "done")
  /\ Remember(r, Nothing)
  /\ UNCHANGED <<data, lease, local, home, worker, crashes, intent>>

Pause(r) == \/ PauseRead(r) \/ PauseUpdate(r) \/ WaitEnds(r, "p_wait", "p_paused", "p_stopping")
            \/ PausePaused(r) \/ PauseStopping(r) \/ PauseTimedOut(r)
            \/ FinalizeRead(r, "p_fin1", "p_fin2", "done")
            \/ FinalizeWrite(r, "p_fin2", "done", "done")

-----------------------------------------------------------------------------
(* POST /complete (background): complete_analysis_import                   *)

CompleteRead(r) ==
  /\ pc[r] = "k_read"
  /\ IF ~row.exists THEN Leave(r, "done")
     ELSE /\ Goto(r, IF done = Tracks THEN "k_final" ELSE "k_queue")
          /\ Remember(r, Snapshot)
  /\ UNCHANGED <<row, data, lease, local, home, worker, crashes, intent>>

\* Zero pending tracks: the endpoint finalizes the row itself.
CompleteFinal(r) ==
  /\ pc[r] = "k_final"
  /\ IF row.exists THEN Set(row.status, FinalAnalysis, "completed", TRUE) ELSE UNCHANGED row
  /\ Leave(r, IF seen[r].status = "processing" THEN "k_assert" ELSE "done")
  /\ UNCHANGED <<data, lease, local, home, worker, crashes, intent>>

CompleteQueue(r) ==
  /\ pc[r] = "k_queue"
  /\ IF row.exists THEN Set(row.status, "queued", "queued", FALSE) ELSE UNCHANGED row
  /\ Leave(r, "k_start")
  /\ UNCHANGED <<data, lease, local, home, worker, crashes, intent>>

CompleteStart(r) ==
  /\ pc[r] = "k_start"
  /\ \/ StartWorker(r, "done")
     \/ StartRefused(r, "done")
     \/ Faults /\ Goto(r, "k_failed") /\ UNCHANGED <<lease, home>>
  /\ UNCHANGED <<row, data, local, seen, worker, crashes, intent>>

\* The claim raised: "interrupted" is written over whatever the row says.
CompleteFailed(r) ==
  /\ pc[r] = "k_failed"
  /\ Save(r, "interrupted", "interrupted", "failed", TRUE, "done", "done")
  /\ UNCHANGED <<data, lease, local, home, seen, worker, crashes, intent>>

Complete(r) == \/ CompleteRead(r) \/ CompleteFinal(r)
               \/ CompleteAssert(r, "k_assert", "k_state", "done", "done")
               \/ CompleteState(r, "k_state", "k_complete", "done")
               \/ CompleteWrite(r, "k_complete", "done", "done", "done")
               \/ CompleteQueue(r) \/ CompleteStart(r) \/ CompleteFailed(r)

-----------------------------------------------------------------------------
(* POST /resume: resume_analysis_import                                    *)

StrandedWorker == /\ row.status = "processing"
                  /\ row.worker \in {"failed", "interrupted", "stopped"}
                  /\ row.ack
                  /\ row.analysis \in {"queued", "parsing", "partial", "failed", "interrupted"}

Resumable(p) ==
  /\ row.exists
  /\ ~reg[p].active
  /\ row.status \notin {"pause_requested", "stopping", "cancel_requested"}
  /\ row.analysis \notin {"pause_requested", "stopping"}
  /\ row.status \in {"paused", "interrupted", "completed"} \/ StrandedWorker

ResumeRead(r) == /\ pc[r] = "r_read"
                 /\ Goto(r, IF Resumable(home[r]) THEN "r_lease" ELSE "done")
                 /\ UNCHANGED <<row, data, lease, local, home, seen, worker, crashes, intent>>

\* No durable owner: clear the local stop requests, which raises while active.
ResumeLease(r) ==
  /\ pc[r] = "r_lease"
  /\ IF Inactive(home[r])
     THEN /\ reg' = [reg EXCEPT ![home[r]].pause = FALSE, ![home[r]].delete = FALSE]
          /\ Goto(r, "r_update")
     ELSE Goto(r, "done") /\ UNCHANGED reg
  /\ UNCHANGED <<row, data, lease, events, home, seen, worker, crashes, intent>>

ResumeUpdate(r) ==
  /\ pc[r] = "r_update"
  /\ \/ Allowed("processing") /\ Set("processing", "queued", "queued", FALSE) /\ Goto(r, "k_read")
     \/ ~Allowed("processing") /\ UNCHANGED row /\ Goto(r, "done")
  /\ UNCHANGED <<data, lease, local, home, seen, worker, crashes, intent>>

Resume(r) == ResumeRead(r) \/ ResumeLease(r) \/ ResumeUpdate(r) \/ Complete(r)

-----------------------------------------------------------------------------
(* DELETE: delete_import_job and the finalizer it leaves behind            *)

OwnStrategy(r) == IF Kind[r] = "delete_over" THEN "start_over" ELSE "activate_next"

\* The first confirmed request owns a pending intent.
EffectiveStrategy(r) == IF row.status \in DeletePending /\ row.strategy # "none"
                        THEN row.strategy ELSE OwnStrategy(r)

DeleteRead(r) ==
  /\ pc[r] = "d_read"
  /\ IF ~row.exists \/ row.status = "cancelled"
     THEN Leave(r, "done") /\ UNCHANGED local
     ELSE /\ events' = [events EXCEPT ![home[r]] = TRUE]
          /\ RequestStop(home[r], TRUE)
          /\ Remember(r, [Snapshot EXCEPT !.strategy = EffectiveStrategy(r),
                                          !.ack = reg'[home[r]].acked])
          /\ Goto(r, "d_update")
  /\ UNCHANGED <<row, data, lease, home, worker, crashes, intent>>

\* The delete is accepted: intent and strategy become durable.
AcceptStatusKept(r) == row.status
AcceptStatus(r) == IF seen[r].status \in DeletePending THEN row.status ELSE "cancel_requested"

DeleteUpdate(r) ==
  /\ pc[r] = "d_update"
  /\ \/ /\ Allowed(AcceptStatus(r))
        /\ row' = [row EXCEPT !.status = AcceptStatus(r), !.analysis = "stopping",
                              !.worker = "cancel_requested", !.ack = seen[r].ack,
                              !.strategy = seen[r].strategy]
        /\ intent' = IF intent = "none" THEN seen[r].strategy ELSE intent
        /\ Goto(r, "d_wait")
     \/ /\ ~Allowed(AcceptStatus(r))
        /\ Goto(r, "done")
        /\ UNCHANGED <<row, intent>>
  /\ UNCHANGED <<data, lease, local, home, seen, worker, crashes>>

CleanupSteps == {"c_check", "c_back", "c_begin", "c_mark", "c_recheck", "c_storage",
                 "c_children", "c_staging", "c_hard", "c_fail"}
FinalizerRuns(p) == \E r \in Reqs : /\ home[r] = p /\ why[r] = "finalizer"
                                   /\ pc[r] \in {"f_wait", "f_read"} \cup CleanupSteps

\* The wait ran out: publish stopping and leave a finalizer thread, one per process.
DeleteTimedOut(r) ==
  /\ pc[r] = "d_timeout"
  /\ Save(r, IF seen[r].status \in DeletePending \ {"cancel_requested"}
             THEN row.status ELSE "stopping",
          "stopping", "stopping", FALSE,
          IF FinalizerRuns(home[r]) THEN "done" ELSE "f_wait", "done")
  /\ why' = [why EXCEPT ![r] = "finalizer"]
  /\ UNCHANGED <<data, lease, local, home, seen, left, crashes, intent>>

FinalizerWait(r) ==
  /\ pc[r] = "f_wait"
  /\ \/ Inactive(home[r]) /\ Goto(r, "f_read")
     \/ ~Inactive(home[r]) /\ GiveUp /\ Goto(r, "done")
  /\ UNCHANGED <<row, data, lease, local, home, seen, worker, crashes, intent>>

FinalizerRead(r) ==
  /\ pc[r] = "f_read"
  /\ IF row.exists /\ row.status \in DeletePending
     THEN /\ Goto(r, "c_check")
          /\ seen' = [seen EXCEPT ![r].strategy =
                        IF row.strategy # "none" THEN row.strategy ELSE @]
     ELSE Leave(r, "done")
  /\ UNCHANGED <<row, data, lease, local, home, worker, crashes, intent>>

Delete(r) == \/ DeleteRead(r) \/ DeleteUpdate(r) \/ WaitEnds(r, "d_wait", "c_check", "d_timeout")
             \/ DeleteTimedOut(r) \/ FinalizerWait(r) \/ FinalizerRead(r)

-----------------------------------------------------------------------------
(* _cleanup_after_worker_ack and cleanup_partial_import                    *)

CleanupCheck(r) ==
  /\ pc[r] = "c_check"
  /\ Goto(r, IF ~row.exists THEN "done" ELSE IF Inactive(home[r]) THEN "c_begin" ELSE "c_back")
  /\ UNCHANGED <<row, data, lease, local, home, seen, worker, crashes, intent>>

\* Somebody owns the import again: back to stopping.
CleanupBack(r) ==
  /\ pc[r] = "c_back"
  /\ Save(r, "stopping", "stopping", "stopping", FALSE, "done", "done")
  /\ UNCHANGED <<data, lease, local, home, seen, worker, crashes, intent>>

\* begin_rekordbox_import_hard_delete; another import that still depends on the
\* retained analysis keeps the gate open.
CleanupBegin(r) ==
  /\ pc[r] = "c_begin"
  /\ \/ Save(r, "deleting", row.analysis, row.worker, row.ack, "c_mark", "done")
     \/ Faults /\ Save(r, row.status, row.analysis, "stopped", TRUE, "done", "done")
  /\ UNCHANGED <<data, lease, local, home, seen, worker, crashes, intent>>

CleanupMark(r) ==
  /\ pc[r] = "c_mark"
  /\ Save(r, row.status, "stopping", "deleting", row.ack, "c_recheck", "done")
  /\ UNCHANGED <<data, lease, local, home, seen, worker, crashes, intent>>

\* require_worker_ack: both owners are looked at again.
CleanupRecheck(r) ==
  /\ pc[r] = "c_recheck"
  /\ Goto(r, IF ~row.exists THEN "done" ELSE IF Inactive(home[r]) THEN "c_storage" ELSE "c_fail")
  /\ UNCHANGED <<row, data, lease, local, home, seen, worker, crashes, intent>>

\* Objects first: the rows that name them are needed for a retry.
CleanupStorage(r) ==
  /\ pc[r] = "c_storage"
  /\ \/ objects' = objects \ waves /\ Goto(r, "c_children")
     \/ /\ Faults
        /\ \E some \in SUBSET (objects \cap waves) : objects' = objects \ some
        /\ Goto(r, "c_fail")
  /\ UNCHANGED <<row, waves, done, staged, lease, local, home, seen, worker, crashes, intent>>

CleanupChildren(r) ==
  /\ pc[r] = "c_children"
  /\ \/ waves' = {} /\ done' = {} /\ Goto(r, "c_staging")
     \/ Faults /\ Goto(r, "c_fail") /\ UNCHANGED <<waves, done>>
  /\ UNCHANGED <<row, objects, staged, lease, local, home, seen, worker, crashes, intent>>

CleanupStaging(r) ==
  /\ pc[r] = "c_staging"
  /\ \/ staged' = FALSE /\ Goto(r, "c_hard")
     \/ Faults /\ Goto(r, "c_fail") /\ UNCHANGED staged
  /\ UNCHANGED <<row, objects, waves, done, lease, local, home, seen, worker, crashes, intent>>

\* hard_delete_rekordbox_import; the lease row and the child rows cascade.
HardDelete(r) ==
  /\ pc[r] = "c_hard"
  /\ \/ /\ row.exists
        /\ row' = [row EXCEPT !.exists = FALSE]
        /\ owner' = NoOwner /\ valid' = FALSE
        /\ waves' = {} /\ done' = {}
        /\ Leave(r, "done")
     \/ /\ ~row.exists \/ Faults
        /\ Goto(r, "c_fail")
        /\ UNCHANGED <<row, waves, done, lease, seen>>
  /\ UNCHANGED <<objects, staged, local, home, worker, crashes, intent>>

CleanupFailed(r) ==
  /\ pc[r] = "c_fail"
  /\ Save(r, "deleting", "stopping", "deleting", row.ack, "done", "done")
  /\ UNCHANGED <<data, lease, local, home, seen, worker, crashes, intent>>

Cleanup(r) == \/ CleanupCheck(r) \/ CleanupBack(r) \/ CleanupBegin(r) \/ CleanupMark(r)
              \/ CleanupRecheck(r) \/ CleanupStorage(r) \/ CleanupChildren(r)
              \/ CleanupStaging(r) \/ HardDelete(r) \/ CleanupFailed(r)

-----------------------------------------------------------------------------
(* Startup of a process: recover_interrupted_import_jobs, then             *)
(* resume_recoverable_analysis_imports, before any request is served.      *)

Recoverable ==
  /\ row.exists
  /\ \/ row.status \in {"created", "uploading", "queued", "processing", "running",
                        "pause_requested", "stopping", "cancel_requested", "deleting"}
     \/ row.status = "completed" /\ row.analysis \in {"parsing", "pause_requested", "stopping"}

\* Both selects; one that raises ends the startup hook and the process serves.
BootSelect(p, at, wanted, next, otherwise) ==
  /\ pc[p] = at
  /\ \/ wanted /\ Goto(p, next) /\ Remember(p, Snapshot)
     \/ ~wanted /\ Leave(p, otherwise)
     \/ Faults /\ Leave(p, "up")
  /\ UNCHANGED <<row, data, lease, local, home, worker, crashes, intent>>

\* Another process that still owns the import keeps it.
BootLease(p, at, next, otherwise) ==
  /\ pc[p] = at
  /\ \/ ~Lease!LeaseActive /\ Goto(p, next) /\ UNCHANGED seen
     \/ Lease!LeaseActive /\ Leave(p, otherwise)
  /\ UNCHANGED <<row, data, lease, local, home, worker, crashes, intent>>

\* Everything is decided from the row as it was listed.
DeleteIntent(s) == \/ s.status \in {"cancel_requested", "deleting"}
                   \/ /\ s.status = "stopping"
                      /\ s.worker \in {"cancel_requested", "deleting"}

RecoveredStatus(s) ==
  IF DeleteIntent(s) THEN (IF s.status = "deleting" THEN "deleting" ELSE "stopping")
  ELSE IF s.status = "completed" THEN "completed"
  ELSE IF s.status = "pause_requested" THEN "paused" ELSE "interrupted"

RecoveredAnalysis(s) ==
  IF DeleteIntent(s) THEN "stopping"
  ELSE IF s.analysis \notin {"parsing", "pause_requested", "stopping"} THEN s.analysis
  ELSE IF s.status = "pause_requested" THEN "paused" ELSE "interrupted"

BootRecover(p) ==
  /\ pc[p] = "b_recover"
  /\ LET s == seen[p]
     IN /\ Save(p, RecoveredStatus(s), RecoveredAnalysis(s),
                IF DeleteIntent(s) THEN "stopped" ELSE "interrupted", TRUE,
                "b_again", "b_again")
        /\ reg' = IF Allowed(RecoveredStatus(s))
                  THEN [reg EXCEPT ![p].active = FALSE, ![p].acked = TRUE] ELSE reg
  /\ Remember(p, Nothing)
  /\ UNCHANGED <<data, lease, events, home, worker, crashes, intent>>

\* Interrupted rows, and processing rows whose worker is known to have ended.
Restartable == /\ row.exists
               /\ row.status = "interrupted" \/ StrandedWorker
               /\ row.analysis \in {"queued", "parsing", "partial", "failed", "interrupted"}

BootRequeue(p) ==
  /\ pc[p] = "b_requeue"
  /\ \/ Allowed("processing") /\ Set("processing", "queued", "queued", FALSE) /\ Goto(p, "b_start")
     \/ ~Allowed("processing") /\ UNCHANGED row /\ Goto(p, "up")
  /\ Remember(p, Nothing)
  /\ UNCHANGED <<data, lease, local, home, worker, crashes, intent>>

BootStart(p) ==
  /\ pc[p] = "b_start"
  /\ \/ StartWorker(p, "up")
     \/ StartRefused(p, "up")
     \/ Faults /\ Goto(p, "b_failed") /\ UNCHANGED <<lease, home>>
  /\ UNCHANGED <<row, data, local, seen, worker, crashes, intent>>

BootFailed(p) ==
  /\ pc[p] = "b_failed"
  /\ Save(p, "interrupted", "interrupted", "failed", TRUE, "up", "up")
  /\ UNCHANGED <<data, lease, local, home, seen, worker, crashes, intent>>

Boot(p) == \/ BootSelect(p, "down", Recoverable, "b_lease", "b_again")
           \/ BootLease(p, "b_lease", "b_recover", "b_again")
           \/ BootRecover(p)
           \/ BootSelect(p, "b_again", Restartable, "b_owner", "up")
           \/ BootLease(p, "b_owner", "b_requeue", "up")
           \/ BootRequeue(p) \/ BootStart(p) \/ BootFailed(p)

-----------------------------------------------------------------------------
(* The environment                                                         *)

\* The threads of a process that have begun and have not ended.
Threads(p) == {a \in Reqs \cup Workers :
                 home[a] = p /\ pc[a] \notin {"idle", "unused", "done", "dead"}}

\* A process dies with its threads, registry and event; leases and rows stay.
Crash(p) ==
  /\ crashes < MaxCrashes
  /\ crashes' = crashes + 1
  /\ pc' = [a \in Actors |-> IF a = p THEN "down"
                             ELSE IF a \in Threads(p) THEN "dead" ELSE pc[a]]
  /\ seen' = [a \in Actors |-> IF a = p \/ a \in Threads(p) THEN Nothing ELSE seen[a]]
  /\ left' = [w \in Workers |-> IF w \in Threads(p) THEN {} ELSE left[w]]
  /\ reg' = [reg EXCEPT ![p] = InitReg]
  /\ events' = [events EXCEPT ![p] = FALSE]
  /\ UNCHANGED <<row, data, lease, home, why, intent>>

\* The lease of a dead worker runs out; so may that of a worker whose
\* heartbeats are late (WorkerLease).
Expire == /\ Lease!LeaseActive
          /\ LateBeats \/ ~Alive(owner)
          /\ UNCHANGED <<row, data, local, pc, home, seen, worker, crashes, intent>>
          /\ Lease!Expire

Worker(w) == \/ WRegister(w) \/ WLoad(w) \/ WPublish(w) \/ WCheck(w) \/ WRaise(w)
             \/ WUpload(w) \/ WWrite(w) \/ WFinal(w) \/ WComplete(w)
             \/ WPublished(w) \/ WStop(w) \/ WLost(w) \/ WFail(w) \/ WRelease(w)
             \/ WFinalize(w)

Request(r) == Pause(r) \/ Resume(r) \/ Delete(r) \/ Cleanup(r)

Next == \/ \E r \in Reqs : Arrive(r) \/ Request(r)
        \/ \E w \in Workers : Worker(w)
        \/ \E p \in Procs : Boot(p) \/ Crash(p)
        \/ Expire

Spec == Init /\ [][Next]_vars

\* Threads run, the wait for a dead owner ends; nobody has to make a request.
FairSpec == /\ Spec
            /\ \A r \in Reqs : WF_vars(Request(r))
            /\ \A w \in Workers : WF_vars(Worker(w))
            /\ \A p \in Procs : WF_vars(Boot(p))
            /\ WF_vars(Expire)

-----------------------------------------------------------------------------
(* Properties                                                              *)

Labels == {"idle", "unused", "up", "down", "done", "dead",
           "b_lease", "b_recover", "b_again", "b_owner", "b_requeue", "b_start",
           "b_failed", "d_read", "d_update", "d_wait", "d_timeout", "f_wait", "f_read",
           "k_read", "k_final", "k_assert", "k_state", "k_complete", "k_queue",
           "k_start", "k_failed", "p_read", "p_update", "p_wait", "p_paused",
           "p_stopping", "p_status", "p_fin1", "p_fin2", "r_read", "r_lease",
           "r_update", "w_release", "w_drop", "w_late1", "w_late2"}
          \cup AtWork \cup CleanupSteps

Rows == [exists : BOOLEAN, status : Statuses, analysis : AnalysisStates,
         worker : WorkerStates, ack : BOOLEAN, strategy : Strategies]

Snapshots == [status : Statuses \cup {"none"}, analysis : AnalysisStates \cup {"none"},
              worker : WorkerStates \cup {"none"}, ack : BOOLEAN, strategy : Strategies]

Registers == [active : BOOLEAN, pause : BOOLEAN, delete : BOOLEAN, acked : BOOLEAN]

Reasons == {"none", "pause", "delete", "finalizer", "completed", "partial", "failed"}

TypeOK == /\ row \in Rows
          /\ objects \subseteq Tracks /\ waves \subseteq Tracks /\ done \subseteq Tracks
          /\ staged \in BOOLEAN
          /\ owner \in Workers \cup {NoOwner} /\ valid \in BOOLEAN
          /\ reg \in [Procs -> Registers]
          /\ events \in [Procs -> BOOLEAN]
          /\ pc \in [Actors -> Labels]
          /\ home \in [Actors -> Procs]
          /\ seen \in [Actors -> Snapshots]
          /\ left \in [Workers -> SUBSET Tracks]
          /\ why \in [Workers \cup Reqs -> Reasons]
          /\ crashes \in 0..MaxCrashes
          /\ intent \in Strategies

Writing(w) == pc[w] \in {"w_upload", "w_write"}
Cleaning(r) == pc[r] \in {"c_storage", "c_children", "c_staging", "c_hard"}

\* Nothing runs and no lease is held: what the row says now, it says until
\* somebody makes a request or a process restarts.
Quiet == /\ \A r \in Reqs : pc[r] \in {"idle", "done", "dead"}
         /\ \A w \in Workers : ~Alive(w)
         /\ \A p \in Procs : pc[p] = "up"
         /\ ~Lease!LeaseActive

\* Destructive cleanup never overlaps a worker that is between its checkpoint
\* and its writes, in whichever process the worker runs.
NoCleanupUnderWriter == \A r \in Reqs, w \in Workers : ~(Cleaning(r) /\ Writing(w))

\* A hard delete leaves no waveform object, no child row and no staged file, and
\* no worker adds one afterwards.
DeleteLeavesNothing == ~row.exists => objects = {} /\ waves = {} /\ ~staged

\* An accepted delete stays accepted until the import is gone: no worker,
\* pause, resume, completion or startup recovery takes the intent back.
DeleteIntentKept == [][intent # "none" /\ row.exists =>
                         ~row'.exists \/ row'.status \in DeletePending]_vars

\* An accepted delete comes to an end: the import is gone, or the request is
\* still recorded and every worker has stopped, so that a retry can finish it.
DeletionSettles ==
  intent # "none" ~>
    [](~row.exists \/ (row.status \in DeletePending /\ \A w \in Workers : ~Alive(w)))

\* While the job reads paused, no worker is parsing or writing.
PausedIsQuiet == row.exists /\ row.status = "paused" => \A w \in Workers : ~Writing(w)

\* Every worker that may write can be stopped through the registry of its process ...
WritersAreRegistered == \A w \in Workers : Writing(w) => reg[home[w]].active

\* ... and a registry entry never outlives its worker: pause, delete and resume
\* would wait for it until the process restarts.
RegistryReleased == \A p \in Procs : reg[p].active =>
                      \E w \in Workers : home[w] = p /\ pc[w] \in AtWork

\* When everything has come to rest the job can be taken further: it is
\* finished, it can be resumed, or its delete can be retried.
NotStranded == Quiet /\ row.exists =>
                 \/ row.status \in {"paused", "interrupted", "completed", "failed"}
                 \/ row.status \in DeletePending
                 \/ StrandedWorker

\* The analysis is never left reading completed while a track has no final
\* status, unless the import is being deleted.
CompletedIsTruthful ==
  Quiet /\ row.exists /\ row.analysis = "completed" /\ row.status \notin DeletePending
    => done = Tracks

\* A resume that passed all its checks starts the job again, unless a delete
\* came in between.
ResumeHonoured ==
  [][\A r \in Reqs : pc[r] = "r_update" /\ pc'[r] = "done" =>
       ~row.exists \/ row.status \in Cancellation]_vars
=============================================================================
