--------------------------- MODULE ResumeAnalysis ---------------------------
(***************************************************************************)
(* The Resume Analysis dialog, ResumeAnalysisModal.tsx: it looks up what   *)
(* is missing, takes the missing files from the drive, releases the drive  *)
(* and has the analysis resumed.                                           *)
(*                                                                         *)
(* A run is the opening of the dialog for an import or a selection of the  *)
(* user; the run whose request generation is current is rsCurrent.  Its    *)
(* AbortController may be aborted apart from that, and the cleanup of the  *)
(* drive's files runs once per selection, whoever asks for it.             *)
(***************************************************************************)
EXTENDS Naturals, FiniteSets

CONSTANTS
  ResumeRuns, NoResume,     \* the runs
  ResumeImports             \* the imports; NoResume when the dialog is closed

ASSUME ResumeAssumption == NoResume \notin ResumeRuns \cup ResumeImports

VARIABLES
  rsOpen,       \* the import of the dialog
  rsPhase,
  rsRun,        \* the runs: step, imp, and whether its controller is aborted
  rsCurrent,    \* the run of the current generation
  rsControl,    \* the run whose controller the dialog holds
  rsClean,      \* IdempotentUsbCleanup has run
  rsClosing,    \* closeAfterUsbStop
  rsResult,     \* the import whose result is shown
  rsLost        \* history: the dialog waits for nothing, see ResumeWorks

resumeVars == <<rsOpen, rsPhase, rsRun, rsCurrent, rsControl, rsClean, rsClosing, rsResult, rsLost>>

NewResume == [step |-> "new", kind |-> "open", imp |-> NoResume, aborted |-> FALSE]
UnderWay(r) == rsRun[r].step \notin {"new", "ended"}

\* isCurrentOperation.
IsCurrentResume(r) == ~rsRun[r].aborted /\ r = rsCurrent /\ rsRun[r].imp = rsOpen

\* A mutant: the answer of a superseded run is taken for the dialog's.
AnyResponse(r) == TRUE

\* isFreshImportResponse.
IsFresh(r) == IsCurrentResume(r)

AbortOf(r) == IF r = NoResume THEN rsRun ELSE [rsRun EXCEPT ![r].aborted = TRUE]
CleanedRuns == IF rsClean THEN rsRun ELSE AbortOf(rsControl)
CleanedControl == IF rsClean THEN rsControl ELSE NoResume

-----------------------------------------------------------------------------
(* Opening and closing.                                                    *)

\* The effect of an open dialog or another import: the run before is aborted and
\* superseded, and the analysis status is requested.
OpenResume(r, i) ==
  /\ rsRun[r].step = "new" /\ rsOpen # i /\ rsOpen' = i /\ rsCurrent' = r /\ rsControl' = r
  /\ rsRun' = [AbortOf(rsControl) EXCEPT ![r] = [NewResume EXCEPT !.step = "fetching", !.imp = i]]
  /\ rsPhase' = "fetching_status" /\ rsClean' = TRUE /\ rsClosing' = FALSE
  /\ rsResult' = NoResume /\ rsLost' = FALSE

\* The dialog is unmounted; its runs find another generation and say nothing.
Unmounted ==
  /\ rsOpen' = NoResume /\ rsPhase' = "closed" /\ rsCurrent' = NoResume /\ rsControl' = NoResume
  /\ rsRun' = [r \in ResumeRuns |-> IF UnderWay(r) THEN [rsRun[r] EXCEPT !.step = "ended"] ELSE rsRun[r]]
  /\ rsClean' = TRUE /\ rsClosing' = FALSE /\ rsResult' = NoResume /\ rsLost' = FALSE

CloseResume == rsPhase \notin {"closed", "stopping_usb_reads", "uploading"} /\ Unmounted

\* While files are uploaded the dialog closes once the reads have settled.
CloseUploading ==
  /\ rsPhase = "uploading"
  /\ rsClosing' = TRUE /\ rsCurrent' = NoResume /\ rsPhase' = "stopping_usb_reads"
  /\ rsRun' = CleanedRuns /\ rsControl' = CleanedControl /\ rsClean' = TRUE
  /\ UNCHANGED <<rsOpen, rsResult, rsLost>>

\* Retry of the error view changes the phase and requests nothing.
RetryResume ==
  /\ rsPhase = "error" /\ rsPhase' = "fetching_status" /\ rsLost' = TRUE
  /\ UNCHANGED <<rsOpen, rsRun, rsCurrent, rsControl, rsClean, rsClosing, rsResult>>

-----------------------------------------------------------------------------
(* How a run goes on or ends.                                              *)

Keep == UNCHANGED <<rsOpen, rsCurrent, rsControl, rsClean, rsClosing, rsResult, rsLost>>
Goes(r, step) == rsRun' = [rsRun EXCEPT ![r].step = step]

\* The dialog stays open (as a mutant: the finally block forgets that it was asked
\* to close).
EndsOpen(r, cleans, phase) ==
  /\ rsRun' = [(IF cleans THEN CleanedRuns ELSE rsRun) EXCEPT ![r].step = "ended"]
  /\ rsControl' = (IF cleans THEN CleanedControl ELSE rsControl) /\ rsClean' = (rsClean \/ cleans)
  /\ rsLost' = (rsLost \/ (cleans /\ ~rsClean /\ rsControl \notin {r, NoResume}))
  /\ rsPhase' = phase /\ UNCHANGED <<rsOpen, rsCurrent, rsClosing, rsResult>>

\* The finally block of a selection closes the dialog that was asked to close.
\* A run that cleans up cleans up the current selection, be it another's.
Ends(r, cleans, phase) ==
  \/ rsClosing /\ rsRun[r].kind = "pick" /\ Unmounted
  \/ ~(rsClosing /\ rsRun[r].kind = "pick") /\ EndsOpen(r, cleans, phase)

IfCurrent(r, phase) == IF IsCurrentResume(r) THEN phase ELSE rsPhase

-----------------------------------------------------------------------------
(* The awaits of a run.                                                    *)

\* The status is there: the drive is needed for required files only.
StatusAnswers(r) ==
  /\ rsRun[r].step = "fetching"
  /\ \/ Ends(r, FALSE, IF IsFresh(r) THEN "scan_prompt" ELSE rsPhase)
     \/ IsFresh(r) /\ Goes(r, "releasing") /\ rsPhase' = "stopping_usb_reads" /\ Keep

StatusFails(r) == rsRun[r].step = "fetching" /\ Ends(r, FALSE, IfCurrent(r, "error"))

\* The user picks a directory: the run before is superseded and aborted.
PickDirectory(r) ==
  /\ rsPhase = "scan_prompt" /\ rsRun[r].step = "new" /\ rsCurrent' = r /\ rsControl' = r
  /\ rsRun' = [AbortOf(rsControl) EXCEPT
                 ![r] = [step |-> "finding", kind |-> "pick", imp |-> rsOpen, aborted |-> FALSE]]
  /\ UNCHANGED <<rsOpen, rsPhase, rsClean, rsClosing, rsResult, rsLost>>

\* processResumeSelection makes a cleanup of its own; without a match the dialog
\* waits for another directory.
FilesFound(r) ==
  /\ rsRun[r].step = "finding"
  /\ \/ ~IsCurrentResume(r) /\ Goes(r, "ended") /\ UNCHANGED <<rsControl, rsClean>>
     \/ IsCurrentResume(r) /\ Goes(r, "session") /\ rsControl' = r /\ rsClean' = FALSE
     \/ IsCurrentResume(r) /\ Goes(r, "ended") /\ rsControl' = NoResume /\ rsClean' = TRUE
  /\ UNCHANGED <<rsOpen, rsPhase, rsCurrent, rsClosing, rsResult, rsLost>>

\* The error of a superseded discovery is shown as well, unless it is an abort.
DiscoveryFails(r) ==
  /\ rsRun[r].step = "finding" /\ Goes(r, "ended") /\ rsPhase' \in {"error", rsPhase} /\ Keep

SessionAnswers(r) ==
  /\ rsRun[r].step = "session"
  /\ \/ IsCurrentResume(r) /\ Goes(r, "uploading") /\ rsPhase' = "uploading" /\ Keep
     \/ ~IsCurrentResume(r) /\ Ends(r, FALSE, rsPhase)

\* The queue and the retries of its files have settled.
UploadSettles(r) ==
  /\ rsRun[r].step = "uploading"
  /\ \/ /\ IsCurrentResume(r) /\ rsRun' = [CleanedRuns EXCEPT ![r].step = "releasing"]
        /\ rsControl' = CleanedControl /\ rsClean' = TRUE
        /\ UNCHANGED <<rsOpen, rsPhase, rsCurrent, rsClosing, rsResult, rsLost>>
     \/ ~IsCurrentResume(r) /\ Ends(r, TRUE, rsPhase)

SelectionFails(r) ==
  /\ rsRun[r].step \in {"session", "uploading"} /\ Ends(r, TRUE, IfCurrent(r, "error"))

\* releaseUsb: then the cloud's copies are parsed, for a selection under a new
\* controller, which a superseded run leaves in the dialog as well.
MayParse(r) == IF rsRun[r].kind = "pick" THEN r = rsCurrent /\ rsRun[r].imp = rsOpen ELSE IsCurrentResume(r)

DriveReleased(r) ==
  /\ rsRun[r].step = "releasing"
  /\ LET control == IF rsRun[r].kind = "pick" THEN r ELSE rsControl
     IN \/ /\ MayParse(r) /\ rsPhase' = "parsing" /\ rsControl' = control
           /\ rsRun' = [rsRun EXCEPT ![r].step = "parsing", ![r].aborted = FALSE]
           /\ UNCHANGED <<rsOpen, rsCurrent, rsClean, rsClosing, rsResult, rsLost>>
        \/ /\ ~MayParse(r)
           /\ IF rsClosing THEN Ends(r, FALSE, rsPhase)
              ELSE /\ Goes(r, "ended") /\ rsControl' = control
                   /\ UNCHANGED <<rsOpen, rsPhase, rsCurrent, rsClean, rsClosing, rsResult, rsLost>>

\* A selection shows that the drive is still in use whoever is current.
StillInUse(r) ==
  /\ rsRun[r].step = "releasing"
  /\ Ends(r, rsRun[r].kind = "pick", IF rsRun[r].kind = "pick" THEN "error" ELSE IfCurrent(r, "error"))

AnalysisResumed(r) ==
  /\ rsRun[r].step = "parsing" /\ IsFresh(r) /\ Goes(r, "ended")
  /\ rsPhase' \in {"done", "done_partial"} /\ rsResult' = rsRun[r].imp
  /\ UNCHANGED <<rsOpen, rsCurrent, rsControl, rsClean, rsClosing, rsLost>>

AnalysisNotResumed(r) ==
  /\ rsRun[r].step = "parsing" /\ Ends(r, FALSE, IfCurrent(r, "error"))

-----------------------------------------------------------------------------
ResumeInit ==
  /\ rsOpen = NoResume /\ rsPhase = "closed" /\ rsRun = [r \in ResumeRuns |-> NewResume]
  /\ rsCurrent = NoResume /\ rsControl = NoResume /\ rsClean = FALSE /\ rsClosing = FALSE
  /\ rsResult = NoResume /\ rsLost = FALSE

ResumeNext ==
  \/ \E r \in ResumeRuns : \/ \E i \in ResumeImports : OpenResume(r, i)
                           \/ StatusAnswers(r) \/ StatusFails(r)
                           \/ PickDirectory(r) \/ FilesFound(r) \/ DiscoveryFails(r)
                           \/ SessionAnswers(r) \/ UploadSettles(r) \/ SelectionFails(r)
                           \/ DriveReleased(r) \/ StillInUse(r)
                           \/ AnalysisResumed(r) \/ AnalysisNotResumed(r)
  \/ CloseResume \/ CloseUploading \/ RetryResume

ResumeSpec == ResumeInit /\ [][ResumeNext]_resumeVars

ResumePhases == {"closed", "fetching_status", "scan_prompt", "uploading", "stopping_usb_reads",
                 "parsing", "done", "done_partial", "error"}
ResumeSteps == {"new", "fetching", "finding", "session", "uploading", "releasing", "parsing", "ended"}

ResumeTypeOK ==
  /\ rsOpen \in ResumeImports \cup {NoResume} /\ rsPhase \in ResumePhases
  /\ rsRun \in [ResumeRuns -> [step : ResumeSteps, kind : {"open", "pick"},
                               imp : ResumeImports \cup {NoResume}, aborted : BOOLEAN]]
  /\ {rsCurrent, rsControl} \subseteq ResumeRuns \cup {NoResume}
  /\ rsClean \in BOOLEAN /\ rsClosing \in BOOLEAN /\ rsLost \in BOOLEAN
  /\ rsResult \in ResumeImports \cup {NoResume} /\ (rsOpen = NoResume) = (rsPhase = "closed")

-----------------------------------------------------------------------------
\* The result that is shown is that of the import whose dialog it is, and a page
\* that says it works, and cannot be closed meanwhile, has a run that will end
\* it.  Exempt is rsLost: after a Retry, and after a superseded run cleaned up
\* the files of the current one (see README).
ResumeWorks ==
  /\ rsPhase \in {"done", "done_partial"} => rsResult = rsOpen
  /\ rsPhase \in {"fetching_status", "uploading", "stopping_usb_reads", "parsing"} =>
       \/ rsLost
       \/ \E r \in ResumeRuns : UnderWay(r) /\ (rsClosing \/ IsCurrentResume(r) \/ MayParse(r))
=============================================================================
