---------------------------- MODULE ApplyService ----------------------------
(***************************************************************************)
(* The verified replacement of Rekordbox's master.db by the bridge: token, *)
(* revalidation, backup, staging copy, the guarded atomic handoff, final   *)
(* verification and rollback (bridge/rekordbox_bridge/apply_service.py and *)
(* metadata_apply.py, which is built the same way, security.py).           *)
(*                                                                         *)
(* An operation is one preflight with the apply that uses its token.  A    *)
(* bridge process serves one request at a time; the desktop application    *)
(* takes no single-instance lock, so there may be two of them.             *)
(* Rekordbox may be started and may write at any moment, and a process may *)
(* die between any two steps.                                              *)
(*                                                                         *)
(* A generation of the database is the set of the changes it contains;     *)
(* equal generations have equal identities.                                *)
(***************************************************************************)
CONSTANTS
  Applies,      \* the operations; also the change each one plans
  BoxEdits      \* the changes Rekordbox makes

ASSUME ApplyAssumption == Applies \cap BoxEdits = {}

VARIABLES
  asApart,      \* each operation runs in an instance of the application of its own
  asLive,       \* master.db
  asBox,        \* Rekordbox is running
  asSidecar,    \* a journal or write-ahead log lies beside master.db
  asDone,       \* the changes Rekordbox has made
  asOp,         \* the operations
  asTouched,    \* history: operations that have replaced master.db
  asExposed     \* history: changes made while another operation had its last
                \* look at the file behind it

applyVars == <<asApart, asLive, asBox, asSidecar, asDone, asOp, asTouched, asExposed>>

Generations == SUBSET (Applies \cup BoxEdits)
NoFile == [is |-> FALSE, gen |-> {}]
FileOf(g) == [is |-> TRUE, gen |-> g]
Files == [is : BOOLEAN, gen : Generations]

Results == {"rejected", "applied", "rolled-back", "recovery-unverified"}
ApplySteps == {"idle", "observing", "issued", "claimed", "revalidated", "copying", "backed", "staged",
               "mutated", "prepared", "guarded", "checked", "replaced", "handed",
               "failed", "rolling", "rechecked", "restored", "dead"} \cup Results

\* token: source_identity of the token's record.  source: the identity read when
\* the backup begins, later the identity a rollback expects to replace.
NewApply == [step |-> "idle", token |-> {}, source |-> {},
             backup |-> NoFile, staging |-> NoFile, rollback |-> NoFile]

Now(o, step) == asOp' = [asOp EXCEPT ![o].step = step]
LiveFrame == UNCHANGED <<asApart, asLive, asBox, asSidecar, asDone, asTouched, asExposed>>

\* The finally block removes the staging file and the rollback candidate.
ApplyEnded(o, result) == [asOp[o] EXCEPT !.step = result, !.staging = NoFile, !.rollback = NoFile]
Returns(o, result) == asOp' = [asOp EXCEPT ![o] = ApplyEnded(o, result)]

\* The current process of o goes on from here if the check holds, and with the
\* structured outcome otherwise.  Any step may also fail for its own reasons.
Checked(o, from, check, to, otherwise) ==
  /\ asOp[o].step = from
  /\ \/ check /\ Now(o, to)
     \/ Returns(o, otherwise)
  /\ LiveFrame

-----------------------------------------------------------------------------
(* Rekordbox.                                                              *)

\* From the last look at master.db before a handoff to the end of verification
\* or rollback, whatever is at its path is replaced unseen.
InHandoff(o) == asOp[o].step \in {"checked", "replaced", "handed", "failed", "rolling", "rechecked"}
Exposed(change) == IF \E o \in Applies \ {change} : InHandoff(o) THEN asExposed \cup {change} ELSE asExposed

BoxStarts ==
  /\ ~asBox /\ asBox' = TRUE
  /\ UNCHANGED <<asApart, asLive, asSidecar, asDone, asOp, asTouched, asExposed>>

BoxWrites(e) ==
  /\ asBox /\ e \notin asDone
  /\ asLive' = asLive \cup {e} /\ asDone' = asDone \cup {e} /\ asExposed' = Exposed(e)
  /\ asSidecar' \in BOOLEAN
  /\ UNCHANGED <<asApart, asBox, asOp, asTouched>>

\* Rekordbox ends and takes its journal along, or crashes and leaves it.
BoxEnds ==
  /\ asBox /\ asBox' = FALSE /\ asSidecar' \in {asSidecar, FALSE}
  /\ UNCHANGED <<asApart, asLive, asDone, asOp, asTouched, asExposed>>

-----------------------------------------------------------------------------
(* Preflight.                                                              *)

\* Requests of one process are served one after the other.
AtWork(o) == asOp[o].step \notin {"idle", "issued", "dead"} \cup Results
MayRun(o) == asApart \/ \A p \in Applies \ {o} : ~AtWork(p)

Quiet == ~asBox /\ ~asSidecar

PreflightBegins(o) ==
  /\ asOp[o].step = "idle" /\ MayRun(o) /\ Quiet
  /\ asOp' = [asOp EXCEPT ![o].step = "observing", ![o].token = asLive]
  /\ LiveFrame

\* The token is bound to the generation that was observed.
PreflightIssues(o) ==
  /\ asOp[o].step = "observing"
  /\ IF asLive = asOp[o].token /\ ~asSidecar THEN Now(o, "issued")
     ELSE asOp' = [asOp EXCEPT ![o] = NewApply]
  /\ LiveFrame

-----------------------------------------------------------------------------
(* Apply.                                                                  *)

\* A mutant: the guards compare with the generation that was backed up.
SameGenerationAsBackup(o) == asOp[o].backup.is => asLive = asOp[o].backup.gen

\* The live file is still the generation of the token.
SameGeneration(o) == asLive = asOp[o].token

\* The token is consumed; it may have expired, or the drafts have changed.
Claim(o) == MayRun(o) /\ Checked(o, "issued", TRUE, "claimed", "rejected")

Revalidate(o) == Checked(o, "claimed", Quiet /\ SameGeneration(o), "revalidated", "rejected")

\* create_backup_and_staging: the backup is what the live file was before and
\* after it was copied, and the staging file is copied from the backup.
BackupBegins(o) ==
  /\ asOp[o].step = "revalidated"
  /\ asOp' = [asOp EXCEPT ![o].step = "copying", ![o].source = asLive]
  /\ LiveFrame

SourceUnchanged(o) == asLive = asOp[o].source

BackupCopied(o) ==
  /\ asOp[o].step = "copying"
  /\ \/ /\ SourceUnchanged(o)
        /\ asOp' = [asOp EXCEPT ![o].step = "backed", ![o].backup = FileOf(asOp[o].source)]
     \/ Returns(o, "rejected")
  /\ LiveFrame

StagingCopied(o) ==
  /\ asOp[o].step = "backed"
  /\ \/ /\ SourceUnchanged(o)
        /\ asOp' = [asOp EXCEPT ![o].step = "staged", ![o].staging = asOp[o].backup]
     \/ asOp' = [asOp EXCEPT ![o] = [ApplyEnded(o, "rejected") EXCEPT !.backup = NoFile]]
     \/ Returns(o, "rejected")
  /\ LiveFrame

Mutate(o) ==
  /\ asOp[o].step = "staged"
  /\ \/ /\ SourceUnchanged(o)
        /\ asOp' = [asOp EXCEPT ![o].step = "mutated", ![o].staging = FileOf(@.gen \cup {o})]
     \/ Returns(o, "rejected")
  /\ LiveFrame

\* The staging database is verified and the rollback candidate copied.
PrepareRollback(o) ==
  /\ asOp[o].step = "mutated"
  /\ \/ asOp' = [asOp EXCEPT ![o].step = "prepared", ![o].rollback = asOp[o].backup]
     \/ Returns(o, "rejected")
  /\ LiveFrame

\* A mutant: a handoff that failed before the replacement is rolled back as well.
HandoffFailsAlways(o) == Now(o, "failed")

\* While the staging file exists the live file has not been replaced, and there
\* is nothing to roll back.
HandoffFails(o) == IF asOp[o].staging.is THEN Returns(o, "rejected") ELSE Now(o, "failed")

\* The deepest guard, and the guard of _atomic_replace_generation.
HandsOn(o, from, check, to) ==
  /\ asOp[o].step = from
  /\ \/ check /\ Now(o, to)
     \/ HandoffFails(o)
  /\ LiveFrame

Guard(o) == HandsOn(o, "prepared", Quiet /\ SameGeneration(o), "guarded")
CheckTarget(o) == HandsOn(o, "guarded", ~asSidecar /\ SameGeneration(o), "checked")

\* os.replace moves the candidate over the live file, or fails and leaves it.
Replaced(o, gen) ==
  /\ asLive' = gen /\ asTouched' = asTouched \cup {o} /\ asExposed' = Exposed(o)
  /\ UNCHANGED <<asApart, asBox, asSidecar, asDone>>

Replace(o) ==
  /\ asOp[o].step = "checked"
  /\ \/ /\ Replaced(o, asOp[o].staging.gen)
        /\ asOp' = [asOp EXCEPT ![o].step = "replaced", ![o].staging = NoFile]
     \/ HandoffFails(o) /\ LiveFrame

\* A mutant: the planned cues are compared, the identity of the file is not.
IsPlanned(o) == o \in asLive

IsStaged(o) == asLive = asOp[o].backup.gen \cup {o}

ReadBack(o) == HandsOn(o, "replaced", ~asSidecar /\ IsStaged(o), "handed")

VerifyLive(o) ==
  /\ asOp[o].step = "handed"
  /\ \/ ~asSidecar /\ IsStaged(o) /\ Returns(o, "applied")
     \/ HandoffFails(o)
  /\ LiveFrame

\* The rollback replaces whatever is there now.
RollbackBegins(o) ==
  /\ asOp[o].step = "failed"
  /\ \/ /\ asOp[o].rollback.is /\ ~asSidecar
        /\ asOp' = [asOp EXCEPT ![o].step = "rolling", ![o].source = asLive]
     \/ Returns(o, "recovery-unverified")
  /\ LiveFrame

RollbackChecked(o) ==
  Checked(o, "rolling", ~asSidecar /\ SourceUnchanged(o), "rechecked", "recovery-unverified")

RollbackReplaces(o) ==
  /\ asOp[o].step = "rechecked"
  /\ \/ /\ Replaced(o, asOp[o].rollback.gen)
        /\ asOp' = [asOp EXCEPT ![o].step = "restored", ![o].rollback = NoFile]
     \/ Returns(o, "recovery-unverified") /\ LiveFrame

\* The restored file is read and observed again.
RollbackVerified(o) ==
  /\ asOp[o].step = "restored"
  /\ \/ ~asSidecar /\ SameGeneration(o) /\ Returns(o, "rolled-back")
     \/ Returns(o, "recovery-unverified")
  /\ LiveFrame

\* A bridge process dies: its files stay, its tokens are gone.
Dies(o) ==
  /\ AtWork(o)
  /\ asOp' = [p \in Applies |-> IF p = o \/ (~asApart /\ asOp[p].step = "issued")
                                THEN [asOp[p] EXCEPT !.step = "dead"] ELSE asOp[p]]
  /\ LiveFrame

-----------------------------------------------------------------------------
ApplyInit ==
  /\ asApart \in BOOLEAN
  /\ asLive = {} /\ asBox = FALSE /\ asSidecar = FALSE /\ asDone = {}
  /\ asOp = [o \in Applies |-> NewApply] /\ asTouched = {} /\ asExposed = {}

ApplyNext ==
  \/ BoxStarts \/ BoxEnds \/ \E e \in BoxEdits : BoxWrites(e)
  \/ \E o \in Applies :
       \/ PreflightBegins(o) \/ PreflightIssues(o)
       \/ Claim(o) \/ Revalidate(o) \/ BackupBegins(o) \/ BackupCopied(o) \/ StagingCopied(o)
       \/ Mutate(o) \/ PrepareRollback(o) \/ Guard(o) \/ CheckTarget(o) \/ Replace(o)
       \/ ReadBack(o) \/ VerifyLive(o)
       \/ RollbackBegins(o) \/ RollbackChecked(o) \/ RollbackReplaces(o) \/ RollbackVerified(o)
       \/ Dies(o)

ApplySpec == ApplyInit /\ [][ApplyNext]_applyVars

ApplyTypeOK ==
  /\ asApart \in BOOLEAN /\ asLive \in Generations /\ asBox \in BOOLEAN /\ asSidecar \in BOOLEAN
  /\ asDone \subseteq BoxEdits /\ asTouched \subseteq Applies /\ asExposed \subseteq Applies \cup BoxEdits
  /\ asOp \in [Applies -> [step : ApplySteps, token : Generations, source : Generations,
                           backup : Files, staging : Files, rollback : Files]]

-----------------------------------------------------------------------------
\* No change is lost: what Rekordbox has written, and every plan reported as
\* applied, is in master.db, unless it was made while another operation had its
\* last look at the file behind it.  "The existing generation/per-track token
\* check still protects the interval from successful preflight through the
\* final live handoff" (bridge/README.md).
EditsSurvive ==
  \A e \in asDone \cup {o \in Applies : asOp[o].step = "applied"} : e \in asLive \cup asExposed

\* A rejected operation has not touched the live file; one that has, keeps the
\* backup of the generation its token names, also when its process has died.
\* With two instances of the application neither this nor the next property
\* holds: a backup copied between the other one's handoff and its rollback
\* passes every check, which all compare the live file with the token.
ReplacedIsRecoverable ==
  \A o \in Applies :
    /\ asOp[o].step = "rejected" => o \notin asTouched
    /\ o \in asTouched /\ ~asApart => asOp[o].backup = FileOf(asOp[o].token)

\* What an operation reports is what it has last seen: its plan on top of the
\* generation of the preflight, or that generation restored.
OutcomeIsTrue ==
  [][\A o \in Applies :
       asOp'[o].step # asOp[o].step /\ ~asApart =>
         /\ asOp'[o].step = "applied" => asLive = asOp[o].token \cup {o}
         /\ asOp'[o].step = "rolled-back" => asLive = asOp[o].token]_applyVars
=============================================================================
