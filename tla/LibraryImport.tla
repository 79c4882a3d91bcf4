---------------------------- MODULE LibraryImport ----------------------------
(***************************************************************************)
(* One import of a Rekordbox library as its dialog drives it:              *)
(* src/components/ImportLibraryModal.tsx with                              *)
(* src/lib/rekordbox/localUsbLifecycle.ts and the calls of                 *)
(* src/lib/api/rekordboxImport.ts.                                         *)
(*                                                                         *)
(* A flow is one run of handleImport, between two awaits at each step; the *)
(* React refs are shared by every flow, the dialogs and the cloud calls.   *)
(* The upload is a number of requests and of exact-path lookups in flight  *)
(* (AnalysisUpload has its detail).  A flow's job is the import it created *)
(* on the backend, external but for what the answers say of it.            *)
(***************************************************************************)
EXTENDS Naturals, FiniteSets

CONSTANTS Flows, NoFlow, MaxOperations,
          MaxPending   \* runs that wait for the session together

ASSUME ImportAssumption == NoFlow \notin Flows /\ {MaxOperations, MaxPending} \subseteq Nat

VARIABLES imPhase,   \* phase
          imOpen,    \* isOpen
          imDialog,  \* the confirmation on screen and the phase its code saw
          imRef,     \* the refs
          imFlow,    \* each run of handleImport
          imCall,    \* cancelBackendPromise or pauseBackendPromise
          imJob,     \* backend: each flow's import
          imMixed    \* history: two runs have shared the refs of one

importVars == <<imPhase, imOpen, imDialog, imRef, imFlow, imCall, imJob, imMixed>>

Phases == {"idle", "scanning_usb", "database_selected", "uploading_usb_data", "stopping_usb_reads",
           "usb_released", "parsing_cloud_data", "pausing_cloud_work", "paused",
           "interrupted", "deleting_import", "cancelled", "completed", "failed"}

\* op: operationRef; stop: localAbortRequested; clean: the cleanup has run;
\* files: File references held; owner, cloud: whose controllers the refs hold;
\* job: importIdRef; tracked: activeLocalRequests; picking: a selection of this
\* operation is awaited (an older one is ignored).
RefSet == [op : 0 .. MaxOperations, picking : BOOLEAN, stop : BOOLEAN, cancel : BOOLEAN,
           close : BOOLEAN, bg : BOOLEAN, localBg : BOOLEAN, released : BOOLEAN, clean : BOOLEAN,
           files : BOOLEAN, owner : Flows \cup {NoFlow}, cloud : Flows \cup {NoFlow},
           job : Flows \cup {NoFlow}, tracked : 0 .. 2]

FlowSet == [pc : {"none", "session", "creating", "starting", "transfer", "releasing",
                  "queuing", "polling", "totals"},
            why : {"ok", "cancelled", "error"}, op : 0 .. MaxOperations,
            aborted : BOOLEAN, cut : BOOLEAN, sends : 0 .. 1, lookups : 0 .. 2]

ImportTypeOK ==
  /\ imPhase \in Phases /\ imOpen \in BOOLEAN
  /\ imDialog \in [kind : {"none", "abort", "delete"}, intent : {"pause", "delete", "close"},
                   seen : Phases]
  /\ imRef \in RefSet
  /\ imFlow \in [Flows -> FlowSet]
  /\ imCall \in [kind : {"none", "delete", "pause"}, step : {"none", "sent", "polling", "settled"}]
  /\ imJob \in [Flows -> {"none", "created", "running", "paused", "interrupted",
                          "finished", "deleted"}]
  /\ imMixed \in BOOLEAN

NoDialog == [kind |-> "none", intent |-> "delete", seen |-> "idle"]
NoCloudCall == [kind |-> "none", step |-> "none"]
NoRun == [pc |-> "none", why |-> "ok", op |-> 0, aborted |-> FALSE, cut |-> FALSE,
          sends |-> 0, lookups |-> 0]
FreshRef == [op |-> 0, picking |-> FALSE, stop |-> FALSE, cancel |-> FALSE, close |-> FALSE,
             bg |-> FALSE, localBg |-> FALSE, released |-> FALSE, clean |-> FALSE, files |-> FALSE,
             owner |-> NoFlow, cloud |-> NoFlow, job |-> NoFlow, tracked |-> 0]

ImportInit ==
  /\ imPhase = "idle" /\ imOpen = TRUE /\ imDialog = NoDialog
  /\ imRef = FreshRef
  /\ imFlow = [w \in Flows |-> NoRun]
  /\ imCall = NoCloudCall
  /\ imJob = [w \in Flows |-> "none"] /\ imMixed = FALSE

LocalUsbAccess(phase) == phase \in {"uploading_usb_data", "stopping_usb_reads"}
InCloud(phase) == phase \in {"parsing_cloud_data", "usb_released"}

\* The end of a run, whose lookups may go on.
FlowEnded(flow) == [NoRun EXCEPT !.lookups = flow.lookups, !.aborted = flow.aborted]

Aborting(flows, w) == IF w = NoFlow THEN flows ELSE [flows EXCEPT ![w].aborted = TRUE]
Cutting(flows, w) == IF w = NoFlow THEN flows ELSE [flows EXCEPT ![w].cut = TRUE]
Decremented(n) == IF n = 0 THEN 0 ELSE n - 1

-----------------------------------------------------------------------------
(* Cleanup, reset, and the two cloud calls.                                *)

\* performLocalUsbCleanup, once per lifecycle: it stops the scheduler and the
\* timers, aborts the controller and drops every File reference.
CleanedRef(ref) ==
  IF ref.clean THEN ref
  ELSE [ref EXCEPT !.clean = TRUE, !.stop = TRUE, !.owner = NoFlow, !.files = FALSE]
CleanedFlows(ref, flows) == IF ref.clean THEN flows ELSE Aborting(flows, ref.owner)

\* reset and onClose: every ref back, the operation one further; a question the
\* app asks stays on screen.
ResetAndClose(ref, flows, dialog) ==
  /\ ref.op < MaxOperations
  /\ imPhase' = "idle" /\ imOpen' = FALSE /\ imCall' = NoCloudCall
  /\ imDialog' = IF dialog.kind = "delete" THEN dialog ELSE NoDialog
  /\ imRef' = [FreshRef EXCEPT !.op = ref.op + 1]
  /\ imFlow' = Cutting(CleanedFlows(ref, flows), ref.cloud)

\* deleteCloudWork up to its request, with the refs it is called under: a call
\* made before stands for this one too, and without an import it is over.
DeleteCloudWork(ref, flows, phase, dialog) ==
  \/ /\ imCall.kind = "delete"
     /\ imPhase' = phase /\ imRef' = ref /\ imFlow' = flows /\ imDialog' = dialog
     /\ UNCHANGED <<imCall, imOpen>>
  \/ /\ imCall.kind # "delete" /\ ref.job = NoFlow /\ ref.close
     /\ ResetAndClose(ref, flows, dialog)
  \/ /\ imCall.kind # "delete" /\ ~(ref.job = NoFlow /\ ref.close)
     /\ imFlow' = Cutting(flows, ref.cloud)
     /\ imRef' = [ref EXCEPT !.cloud = NoFlow]
     /\ imCall' = [kind |-> "delete", step |-> IF ref.job = NoFlow THEN "settled" ELSE "sent"]
     /\ imPhase' = IF ref.job = NoFlow THEN "cancelled" ELSE "deleting_import"
     /\ imDialog' = dialog /\ UNCHANGED imOpen

\* pauseCloudWork likewise.
PauseCloudWork(ref) ==
  IF imCall.kind = "pause"
  THEN imRef' = ref /\ UNCHANGED <<imPhase, imFlow, imCall>>
  ELSE /\ imFlow' = Cutting(imFlow, ref.cloud)
       /\ imRef' = [ref EXCEPT !.cloud = NoFlow]
       /\ imCall' = [kind |-> "pause", step |-> IF ref.job = NoFlow THEN "settled" ELSE "sent"]
       /\ imPhase' = IF ref.job = NoFlow THEN "paused" ELSE "pausing_cloud_work"

\* The last lines of both calls, with closeAfterCancellationIfRequested.
CloudCallEnds(phase, call) ==
  \/ imRef.close /\ ResetAndClose(imRef, imFlow, imDialog)
  \/ /\ ~imRef.close /\ imPhase' = phase /\ imCall' = call
     /\ UNCHANGED <<imOpen, imDialog, imRef, imFlow>>

\* The DELETE reaches the backend, or not; its answer is known, pending or lost.
DeleteAnswered ==
  /\ imCall = [kind |-> "delete", step |-> "sent"]
  /\ \/ /\ imJob' = [imJob EXCEPT ![imRef.job] = "deleted"]
        /\ imCall' = [imCall EXCEPT !.step = "polling"]
        /\ UNCHANGED imPhase
        /\ UNCHANGED <<imOpen, imDialog, imRef, imFlow>>
     \/ /\ imJob' \in {imJob, [imJob EXCEPT ![imRef.job] = "deleted"]}
        /\ CloudCallEnds("failed", [imCall EXCEPT !.step = "settled"])

\* The row is gone, or the polls run out.
DeletePolled ==
  /\ imCall = [kind |-> "delete", step |-> "polling"]
  /\ \E phase \in {"cancelled", "failed"} : CloudCallEnds(phase, [imCall EXCEPT !.step = "settled"])
  /\ UNCHANGED imJob

\* The pause is requested and the worker's state polled until it has stopped.
PauseAnswered ==
  /\ imCall = [kind |-> "pause", step |-> "sent"]
  /\ LET job == imRef.job
         stopped == IF imJob[job] = "running" THEN "paused" ELSE imJob[job]
     IN \/ /\ imJob' = [imJob EXCEPT ![job] = stopped]
           /\ CloudCallEnds(IF stopped = "finished" THEN "completed" ELSE "paused", NoCloudCall)
        \/ /\ imJob' \in {imJob, [imJob EXCEPT ![job] = stopped]}
           /\ CloudCallEnds("failed", NoCloudCall)

-----------------------------------------------------------------------------
(* handleImport.                                                           *)

\* handleUsbSourceSelect, up to the answer of the picker.
UsbSourceAsked ==
  /\ imOpen /\ imDialog.kind = "none" /\ imPhase \in {"idle", "database_selected"}
  /\ imRef.op < MaxOperations
  /\ imPhase' = "scanning_usb"
  /\ imRef' = [imRef EXCEPT !.op = @ + 1, !.picking = TRUE]
  /\ UNCHANGED <<imOpen, imDialog, imFlow, imCall, imJob>>

\* A drive, no choice, or an error; a browser without directory handles shows its
\* folder input instead.
UsbSourceSelected ==
  /\ imRef.picking
  /\ \/ /\ imPhase' = "database_selected"
        /\ imRef' = [imRef EXCEPT !.picking = FALSE, !.files = TRUE]
     \/ /\ imPhase' \in {"idle", "failed", "scanning_usb"}
        /\ imRef' = [imRef EXCEPT !.picking = FALSE]
  /\ UNCHANGED <<imOpen, imDialog, imFlow, imCall, imJob>>

\* handleFolderChange and handleFileChange.
FolderChosen ==
  /\ imOpen /\ imDialog.kind = "none" /\ ~imRef.picking
  /\ imPhase \in {"idle", "scanning_usb", "database_selected"}
  /\ \/ imPhase' = "database_selected" /\ imRef' = [imRef EXCEPT !.files = TRUE]
     \/ imPhase' = "idle" /\ UNCHANGED imRef
  /\ UNCHANGED <<imOpen, imDialog, imFlow, imCall, imJob>>

\* A run between its start and the verified release of the drive.
AtDrive(flow) == flow.pc \in {"creating", "starting", "transfer", "releasing"}

\* The Import button; the session is read before anything else.
ImportPressed(w) ==
  /\ imOpen /\ imDialog.kind = "none" /\ imPhase = "database_selected"
  /\ imFlow[w].pc = "none" /\ imFlow[w].lookups = 0 /\ imJob[w] = "none"
  /\ Cardinality({v \in Flows : imFlow[v].pc = "session"}) < MaxPending
  /\ imFlow' = [imFlow EXCEPT ![w] = [NoRun EXCEPT !.pc = "session"]]
  /\ UNCHANGED <<imPhase, imOpen, imDialog, imRef, imCall, imJob>>

\* prepareLocalUsbLifecycle, a new controller and operation, and the request
\* that creates the import.
ImportBegins(w) ==
  /\ imFlow[w].pc = "session"
  /\ \/ /\ imRef.files /\ imRef.op < MaxOperations
        /\ imRef' = [imRef EXCEPT !.clean = FALSE, !.stop = FALSE, !.cancel = FALSE,
                       !.close = FALSE, !.released = FALSE, !.owner = w, !.op = @ + 1,
                       !.picking = FALSE, !.tracked = 1]
        /\ imFlow' = [imFlow EXCEPT ![w] = [NoRun EXCEPT !.pc = "creating", !.op = imRef.op + 1]]
        /\ imCall' = NoCloudCall
        /\ imPhase' = "uploading_usb_data"
        /\ imMixed' = (imMixed \/ \E v \in Flows : AtDrive(imFlow[v]))
     \/ /\ ~imRef.files
        /\ imFlow' = [imFlow EXCEPT ![w] = NoRun]
        /\ UNCHANGED <<imRef, imCall, imPhase, imMixed>>
  /\ UNCHANGED <<imOpen, imDialog, imJob>>

\* Into the catch, or after the upload: verifyAndPublishUsbRelease cleans up.
Releasing(w, why, flow, ref) ==
  /\ imRef' = CleanedRef(ref)
  /\ imFlow' = CleanedFlows(ref, [imFlow EXCEPT ![w] = [flow EXCEPT !.pc = "releasing",
                                                                    !.why = why]])

Stopped(w) == imRef.stop \/ imFlow[w].aborted

\* The import exists (or its answer was lost); then the database is uploaded.
ImportCreated(w) ==
  /\ imFlow[w].pc = "creating"
  /\ LET ref == [imRef EXCEPT !.tracked = Decremented(@)]
     IN \/ /\ imJob' = [imJob EXCEPT ![w] = "created"]
           /\ \/ /\ Stopped(w) /\ Releasing(w, "cancelled", imFlow[w], ref)
              \/ /\ ~Stopped(w)
                 /\ IF imFlow[w].op # imRef.op
                    THEN imFlow' = [imFlow EXCEPT ![w] = NoRun] /\ imRef' = ref
                    ELSE /\ imRef' = [ref EXCEPT !.job = w, !.tracked = @ + 1]
                         /\ imFlow' = [imFlow EXCEPT ![w].pc = "starting"]
        \/ /\ imJob' \in {imJob, [imJob EXCEPT ![w] = "created"]}
           /\ Releasing(w, IF Stopped(w) THEN "cancelled" ELSE "error", imFlow[w], ref)
  /\ UNCHANGED <<imPhase, imOpen, imDialog, imCall>>

\* startRekordboxImport answered: the manifest is looked up on the drive.
ImportStarted(w) ==
  /\ imFlow[w].pc = "starting"
  /\ LET ref == [imRef EXCEPT !.tracked = Decremented(@)]
         stale == imFlow[w].op # imRef.op
     IN \/ /\ Stopped(w) \/ stale
           /\ Releasing(w, "cancelled", imFlow[w], ref)
        \/ /\ ~Stopped(w) /\ ~stale
           /\ imRef' = [ref EXCEPT !.job = w]
           /\ imFlow' = [imFlow EXCEPT ![w].pc = "transfer"]
        \/ /\ ~Stopped(w) /\ ~stale /\ Releasing(w, "error", imFlow[w], ref)
  /\ UNCHANGED <<imPhase, imOpen, imDialog, imCall, imJob>>

\* A batch is read and sent, or exact paths are looked up, and either ends.
TransferReads(w) ==
  /\ imFlow[w].pc = "transfer"
  /\ \/ /\ ~Stopped(w) /\ imFlow[w].lookups = 0 /\ imFlow[w].sends = 0
        /\ \/ imFlow' = [imFlow EXCEPT ![w].sends = 1]
           \/ imFlow' = [imFlow EXCEPT ![w].lookups = 2]
     \/ /\ imFlow[w].sends = 1
        /\ imFlow' = [imFlow EXCEPT ![w].sends = 0]
  /\ UNCHANGED <<imPhase, imOpen, imDialog, imRef, imCall, imJob>>

\* A worker of resolveRequestedAnalysisFilesWithResolver has its answer; it goes on to
\* its next path unless the run is aborted.
LookupEnds(w) ==
  /\ imFlow[w].lookups > 0
  /\ imFlow' = [imFlow EXCEPT ![w].lookups = @ - 1]
  /\ UNCHANGED <<imPhase, imOpen, imDialog, imRef, imCall, imJob>>

\* The upload returns when nothing is in flight; it throws once its queue has
\* settled, but without waiting for the lookups that other workers make.
UploadEndsEarly(w) ==
  /\ imFlow[w].pc = "transfer" /\ ~Stopped(w)
  /\ Releasing(w, "ok", imFlow[w], imRef)
  /\ UNCHANGED <<imPhase, imOpen, imDialog, imCall, imJob>>

UploadEnds(w) ==
  /\ imFlow[w].pc = "transfer" /\ imFlow[w].sends = 0
  /\ \/ /\ ~Stopped(w) /\ imFlow[w].lookups = 0 /\ Releasing(w, "ok", imFlow[w], imRef)
     \/ /\ ~Stopped(w) /\ Releasing(w, "error", imFlow[w], imRef)
     \/ /\ Stopped(w) /\ Releasing(w, "cancelled", imFlow[w], imRef)
  /\ UNCHANGED <<imPhase, imOpen, imDialog, imCall, imJob>>

\* What is on the drive's side of verifyUsbReleased, and what the refs know.
VerifyUsbReleased == imRef.tracked = 0 /\ imRef.owner = NoFlow /\ ~imRef.files

\* usb.release() answered: the release is verified.  The flow goes on to the
\* cloud, to the delete the user asked for meanwhile, or ends.
UsbReleased(w) ==
  /\ imFlow[w].pc = "releasing" /\ VerifyUsbReleased
  /\ LET flow == imFlow[w]
         ref == [imRef EXCEPT !.released = TRUE]
         current == flow.op = imRef.op
         ended == [imFlow EXCEPT ![w] = FlowEnded(flow)]
     IN \/ /\ flow.why # "error" /\ imRef.cancel
           /\ DeleteCloudWork(ref, ended, "usb_released", imDialog)
        \/ /\ flow.why = "ok" /\ ~imRef.cancel /\ current
           /\ imRef' = [ref EXCEPT !.cloud = w]
           /\ imFlow' = [imFlow EXCEPT ![w].pc = "queuing"]
           /\ imPhase' = "parsing_cloud_data"
           /\ UNCHANGED <<imCall, imOpen, imDialog>>
        \/ /\ IF flow.why = "error" THEN TRUE ELSE ~imRef.cancel /\ ~(flow.why = "ok" /\ current)
           /\ imPhase' = IF flow.why = "error" /\ current THEN "failed" ELSE "usb_released"
           /\ imRef' = ref /\ imFlow' = ended
           /\ UNCHANGED <<imCall, imOpen, imDialog>>
  /\ UNCHANGED imJob

\* Something is left, or the release timed out: after a finished upload the
\* catch tries once more, and takes the flow for cancelled because the cleanup
\* has set the flag; a second time it reports the failure.
ReleaseFails(w) ==
  /\ imFlow[w].pc = "releasing"
  /\ \/ /\ imFlow[w].why = "ok"
        /\ imFlow' = [imFlow EXCEPT ![w].why = "cancelled"]
        /\ UNCHANGED imPhase
     \/ /\ imFlow[w].why # "ok"
        /\ imFlow' = [imFlow EXCEPT ![w] = FlowEnded(imFlow[w])]
        /\ imPhase' = "failed"
  /\ UNCHANGED <<imOpen, imDialog, imRef, imCall, imJob>>

-----------------------------------------------------------------------------
(* runCloudParsing.                                                        *)

\* An aborted request: a delete the user asked for, or the end of the flow.
ParsingCutFails(w) ==
  /\ imFlow[w].pc \in {"queuing", "polling", "totals"} /\ imFlow[w].cut
  /\ imFlow' = [imFlow EXCEPT ![w] = NoRun] /\ imPhase' = "failed"
  /\ UNCHANGED <<imOpen, imDialog, imRef, imCall, imJob, imMixed>>

\* The user has asked the run at the drive to delete its import, and the aborted parse
\* loop of an older run takes that for its own.
DeletesForAnother(w) ==
  imRef.cancel /\ imFlow[w].op # imRef.op /\ \E v \in Flows : AtDrive(imFlow[v])

ParsingCut(w) ==
  /\ imFlow[w].pc \in {"queuing", "polling", "totals"} /\ imFlow[w].cut
  /\ LET ended == [imFlow EXCEPT ![w] = FlowEnded(imFlow[w])]
     IN \/ /\ imRef.cancel /\ DeleteCloudWork(imRef, ended, imPhase, imDialog)
        \/ /\ ~imRef.cancel /\ imFlow' = ended
           /\ UNCHANGED <<imPhase, imOpen, imDialog, imRef, imCall>>
  /\ imMixed' = (imMixed \/ DeletesForAnother(w))
  /\ UNCHANGED imJob

ParsingEnds(w, phase) ==
  /\ imPhase' = phase
  /\ imFlow' = [imFlow EXCEPT ![w] = NoRun]
  /\ imRef' = [imRef EXCEPT !.cloud = IF @ = w THEN NoFlow ELSE @]

\* An error is only shown by the flow the dialog still belongs to.
FailedUnlessLeft(w) == IF imRef.bg \/ imFlow[w].op # imRef.op THEN imPhase ELSE "failed"

\* /complete queued the worker; if the user minimised during the upload the
\* background panel polls from here on.
ParsingQueued(w) ==
  /\ imFlow[w].pc = "queuing" /\ ~imFlow[w].cut
  /\ \/ /\ imJob' = [imJob EXCEPT ![w] = IF @ = "created" THEN "running" ELSE @]
        /\ \/ /\ imRef.localBg
              /\ imFlow' = [imFlow EXCEPT ![w] = NoRun]
              /\ imRef' = [imRef EXCEPT !.bg = TRUE, !.cloud = NoFlow]
           \/ /\ ~imRef.localBg
              /\ imFlow' = [imFlow EXCEPT ![w].pc = "polling"]
              /\ UNCHANGED imRef
        /\ UNCHANGED imPhase
     \/ /\ imJob' = [imJob EXCEPT ![w] = IF @ = "created" THEN "finished" ELSE @]
        /\ ParsingEnds(w, "completed")
     \/ /\ UNCHANGED imJob
        /\ ParsingEnds(w, FailedUnlessLeft(w))
  /\ UNCHANGED <<imOpen, imDialog, imCall>>

\* One poll: its answer is ignored once backgrounded or superseded, a finished
\* analysis is read once more for its totals, others end the loop at once.
ParsingPolled(w) ==
  /\ imFlow[w].pc = "polling" /\ ~imFlow[w].cut
  /\ \/ /\ imRef.bg \/ imFlow[w].op # imRef.op
        /\ ParsingEnds(w, imPhase)
     \/ /\ ~imRef.bg /\ imFlow[w].op = imRef.op
        /\ \/ /\ imJob[w] = "finished"
              /\ imFlow' = [imFlow EXCEPT ![w].pc = "totals"] /\ UNCHANGED <<imPhase, imRef>>
           \/ /\ imJob[w] \in {"paused", "interrupted"} /\ ParsingEnds(w, imJob[w])
           \/ ParsingEnds(w, "failed")
  /\ UNCHANGED <<imOpen, imDialog, imCall, imJob>>

ParsingTotals(w) ==
  /\ imFlow[w].pc = "totals" /\ ~imFlow[w].cut
  /\ \/ ParsingEnds(w, "completed")
     \/ ParsingEnds(w, FailedUnlessLeft(w))
  /\ UNCHANGED <<imOpen, imDialog, imCall, imJob>>

-----------------------------------------------------------------------------
(* The user.                                                               *)

\* Cancel import, the close button during the upload, or Pause.  With an
\* import to delete the question is asked by the app, with an executor that
\* remembers this render's phase.
OpenAbortDialog(intent) ==
  /\ imOpen /\ imDialog.kind = "none"
  /\ IF intent = "pause" THEN imPhase = "parsing_cloud_data" ELSE LocalUsbAccess(imPhase)
  /\ imDialog' = [kind |-> IF intent # "pause" /\ imRef.job # NoFlow THEN "delete" ELSE "abort",
                  intent |-> intent, seen |-> imPhase]
  /\ UNCHANGED <<imPhase, imOpen, imRef, imFlow, imCall, imJob>>

KeepGoing ==
  /\ imDialog.kind # "none" /\ imDialog' = NoDialog
  /\ UNCHANGED <<imPhase, imOpen, imRef, imFlow, imCall, imJob>>

\* The phases it compares with: executeConfirmedHardDelete sees the phase of
\* the render that asked, confirmAbort the one on screen.
Confirmed(phase, ref, pause) ==
  /\ \/ /\ InCloud(phase) /\ pause
        /\ PauseCloudWork([ref EXCEPT !.released = TRUE])
        /\ imDialog' = NoDialog /\ UNCHANGED imOpen
     \/ /\ InCloud(phase) /\ ~pause
        /\ DeleteCloudWork([ref EXCEPT !.released = TRUE], imFlow, imPhase, NoDialog)
     \/ /\ LocalUsbAccess(phase)
        /\ imPhase' = "stopping_usb_reads"
        /\ imRef' = CleanedRef([ref EXCEPT !.stop = TRUE])
        /\ imFlow' = CleanedFlows(ref, imFlow)
        /\ imDialog' = NoDialog /\ UNCHANGED <<imCall, imOpen>>
     \/ /\ ~InCloud(phase) /\ ~LocalUsbAccess(phase)
        /\ DeleteCloudWork(ref, imFlow, imPhase, NoDialog)
  /\ UNCHANGED imJob

ExecuteConfirmedHardDelete ==
  /\ imDialog.kind = "delete"
  /\ Confirmed(imDialog.seen,
               [imRef EXCEPT !.cancel = TRUE, !.close = (imDialog.intent = "close")], FALSE)

ConfirmAbort ==
  /\ imDialog.kind = "abort"
  /\ Confirmed(imPhase,
               [imRef EXCEPT !.cancel = (imDialog.intent # "pause"),
                             !.close = (imDialog.intent = "close")],
               imDialog.intent # "delete")

ContinueInBackground ==
  /\ imOpen /\ imDialog.kind = "none" /\ imRef.job # NoFlow
  /\ \/ /\ imPhase = "uploading_usb_data"
        /\ \E w \in Flows : imFlow[w].pc \in {"transfer", "releasing"}
        /\ imRef' = [imRef EXCEPT !.localBg = TRUE]
     \/ /\ InCloud(imPhase)
        /\ imRef' = [imRef EXCEPT !.bg = TRUE]
  /\ imOpen' = FALSE
  /\ UNCHANGED <<imPhase, imDialog, imFlow, imCall, imJob>>

\* handleClose and handleDone in the phases that reset.
CloseAndReset ==
  /\ imOpen /\ imDialog.kind = "none"
  /\ imPhase \in {"idle", "scanning_usb", "database_selected", "paused", "interrupted",
                  "cancelled", "completed", "failed"}
  /\ ResetAndClose(imRef, imFlow, imDialog)
  /\ UNCHANGED imJob

\* The user starts to leave the page during the upload, and stays.
BeforeUnload ==
  /\ LocalUsbAccess(imPhase) /\ ~imRef.stop
  /\ imRef' = CleanedRef([imRef EXCEPT !.stop = TRUE])
  /\ imFlow' = CleanedFlows(imRef, imFlow)
  /\ UNCHANGED <<imPhase, imOpen, imDialog, imCall, imJob>>

Reopen == /\ ~imOpen /\ imOpen' = TRUE
          /\ UNCHANGED <<imPhase, imDialog, imRef, imFlow, imCall, imJob>>

\* The backend's worker, in its own time.
WorkerMoves ==
  /\ \E w \in Flows : /\ imJob[w] = "running"
                      /\ \E s \in {"finished", "interrupted", "paused"} :
                           imJob' = [imJob EXCEPT ![w] = s]
  /\ UNCHANGED <<imPhase, imOpen, imDialog, imRef, imFlow, imCall>>

ImportFlowStep ==
  \E w \in Flows : \/ ImportCreated(w) \/ ImportStarted(w)
                   \/ TransferReads(w) \/ LookupEnds(w) \/ UploadEnds(w)
                   \/ UsbReleased(w) \/ ReleaseFails(w)
                   \/ ParsingQueued(w) \/ ParsingPolled(w) \/ ParsingTotals(w)

ImportStep ==
  \/ ImportFlowStep \/ DeleteAnswered \/ DeletePolled \/ PauseAnswered
  \/ \E w \in Flows : ImportPressed(w)
  \/ UsbSourceAsked \/ UsbSourceSelected \/ FolderChosen \/ KeepGoing
  \/ ExecuteConfirmedHardDelete \/ ConfirmAbort
  \/ \E intent \in {"pause", "delete", "close"} : OpenAbortDialog(intent)
  \/ ContinueInBackground \/ CloseAndReset \/ BeforeUnload \/ Reopen \/ WorkerMoves

ImportNext ==
  \/ \E w \in Flows : ImportBegins(w) \/ ParsingCut(w)
  \/ ImportStep /\ UNCHANGED imMixed

ImportSpec == ImportInit /\ [][ImportNext]_importVars

-----------------------------------------------------------------------------
\* "USB access released": however the import was stopped, no run of it is before or in
\* its transfer, where it reads the database, looks paths up and reads batches, and no
\* batch is being sent.  Lookups that began before the release may still be answered
\* after it; they are those of aborted runs, whose workers look up no further path.
\*
\* The refs of the dialog belong to the run that began last.  A double press of
\* Import, or an old parse loop that carries out what was asked of a newer run,
\* has two runs use them at a time: imMixed, from which on nothing is said here.
ReleaseIsReal ==
  ~imMixed /\ imRef.released =>
    \A w \in Flows : /\ imFlow[w].pc \notin {"creating", "starting", "transfer"} /\ imFlow[w].sends = 0
                     /\ imFlow[w].lookups > 0 => imFlow[w].aborted

\* A run that was superseded (closed, reset, or another import started) says
\* nothing more on the screen, whatever its requests answer, as long as the
\* user has not asked for a deletion: an aborted parse loop of an old run does
\* not compare operations before it deletes.
SupersededIsSilent ==
  [][\A w \in Flows :
       /\ imFlow[w].pc # "none" /\ imFlow[w].op # imRef.op
       /\ imFlow'[w].pc # imFlow[w].pc /\ imRef'.op = imRef.op /\ ~imRef.cancel /\ ~imMixed
       => imPhase' = imPhase]_importVars

\* "Pause is the default action during cloud parsing.  It ... preserves
\* uploaded assets, completed tracks, and progress"
\* (docs/rekordbox-usb-import-safety.md): an import is only deleted after the
\* user confirmed a deletion.
PauseNeverDeletes == imCall.kind = "delete" => imRef.cancel

=============================================================================
