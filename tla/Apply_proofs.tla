---------------------------- MODULE Apply_proofs ----------------------------
(***************************************************************************)
(* What the verified replacement of master.db promises, for every set of   *)
(* operations and of changes by Rekordbox, with one instance of the        *)
(* application or several.                                                 *)
(*                                                                         *)
(* A change counts as kept from the moment it is made: an edit when        *)
(* Rekordbox writes it, a plan when it is handed over, before its result   *)
(* is reported.  A kept change that no handoff was blind to is in every    *)
(* generation that can still be put in the place of master.db, because     *)
(* that generation was copied after the token was taken and passed the     *)
(* comparison with the token since.                                        *)
(*                                                                         *)
(* And what the genre drafts promise that are written with it: a draft is  *)
(* finalized by the operation that wrote it, with its receipts first.      *)
(***************************************************************************)
EXTENDS ApplyService, GenreDrafts, TLAPS

-----------------------------------------------------------------------------
(* The database (apply_service.py).                                        *)

OpRecords == [step : ApplySteps, token : Generations, source : Generations,
              backup : Files, staging : Files, rollback : Files]

NotReplaced == {"idle", "observing", "issued", "claimed", "revalidated", "copying", "backed",
           "staged", "mutated", "prepared", "guarded", "checked", "rejected"}
Handoff == {"checked", "replaced", "handed", "failed", "rolling", "rechecked"}
Replacing == {"replaced", "handed", "failed", "rolling", "rechecked", "restored", "applied", "rolled-back"}
Keeping == {"replaced", "handed", "applied"}
Resting == {"idle", "issued", "dead"} \cup Results

Kept == asDone \cup {o \in Applies : asOp[o].step \in Keeping}

\* Which files an operation has at which step, and what they were copied from.
FilesAgree(o, r) ==
  /\ r.step \in {"idle", "observing", "issued", "claimed", "revalidated", "copying"} => ~r.backup.is
  /\ r.step \in {"backed", "staged", "mutated", "prepared", "guarded", "checked"} => r.backup.is
  /\ r.step = "staged" => r.staging = r.backup
  /\ r.step \in {"mutated", "prepared", "guarded", "checked"} =>
       r.staging = FileOf(r.backup.gen \cup {o})
  /\ r.step \in {"staged", "mutated", "prepared", "guarded", "checked"} => r.staging.is
  /\ r.step \in {"replaced", "handed"} => ~r.staging.is
  /\ r.rollback.is => r.rollback = r.backup
  /\ r.step \in {"rolling", "rechecked"} => r.rollback.is

\* With one instance nobody else replaces master.db: it only grows from the token's
\* generation to the copied one and on, so the last comparison finds all three equal.
OneInstance(o, r) ==
  /\ r.step = "revalidated" => r.token \subseteq asLive
  /\ r.step = "copying" => r.token \subseteq r.source /\ r.source \subseteq asLive
  /\ r.step \in {"backed", "staged", "mutated", "prepared", "guarded"} =>
       r.token \subseteq r.backup.gen /\ r.backup.gen \subseteq asLive
  /\ r.step = "checked" \/ o \in asTouched => r.backup = FileOf(r.token)

\* What holds of the record r of operation o, when the changes in kept are kept.
OpInv(o, r, kept) ==
  /\ r \in OpRecords
  /\ FilesAgree(o, r)
  /\ r.token \cup r.source \cup r.backup.gen \subseteq asDone \cup asTouched
  /\ r.step \in NotReplaced => o \notin asTouched
  /\ r.step \in Replacing => o \in asTouched
  /\ r.step \in Handoff => kept \ {o} \subseteq r.token \cup asExposed
  /\ r.step = "copying" => r.token \cap kept \subseteq r.source \cup asExposed
  /\ r.backup.is => r.token \cap kept \subseteq r.backup.gen \cup asExposed
  /\ ~asApart => OneInstance(o, r)

ApplyInv ==
  /\ ApplyTypeOK
  /\ asLive \subseteq asDone \cup asTouched
  /\ Kept \subseteq asLive \cup asExposed
  /\ \A o \in Applies : OpInv(o, asOp[o], Kept)
  /\ ~asApart => \A o, p \in Applies : AtWork(o) /\ AtWork(p) => o = p

LEMMA ApplyInitInv == ApplyInit => ApplyInv
  <1> SUFFICES ASSUME ApplyInit PROVE ApplyInv
    OBVIOUS
  <1>1. NewApply \in OpRecords
    BY DEF NewApply, OpRecords, NoFile, Files, Generations, ApplySteps, Results
  <1>2. \A o \in Applies : asOp[o] = NewApply
    BY DEF ApplyInit
  <1>3. Kept = {} /\ \A o \in Applies : ~AtWork(o)
    BY <1>2 DEF ApplyInit, Kept, Keeping, NewApply, AtWork
  <1>4. ApplyTypeOK
    BY <1>1 DEF ApplyInit, ApplyTypeOK, OpRecords, Generations
  <1>5. \A o \in Applies : OpInv(o, NewApply, {})
    BY <1>1 DEF ApplyInit, OpInv, FilesAgree, OneInstance, NewApply, NoFile, NotReplaced, Replacing, Handoff
  <1> QED BY <1>2, <1>3, <1>4, <1>5 DEF ApplyInv, ApplyInit

\* A step of one operation that leaves master.db and its history alone.
LEMMA LocalStep ==
  ASSUME ApplyInv, NEW o \in Applies, NEW r,
         asOp' = [asOp EXCEPT ![o] = r], LiveFrame,
         OpInv(o, r, Kept),
         r.step \in Keeping => asOp[o].step \in Keeping,
         r.step \in Resting \/ AtWork(o) \/ MayRun(o)
  PROVE  ApplyInv'
  <1>1. /\ \A p \in Applies : asOp'[p] = IF p = o THEN r ELSE asOp[p]
        /\ r \in OpRecords /\ asOp' \in [Applies -> OpRecords]
        /\ UNCHANGED <<asApart, asLive, asBox, asSidecar, asDone, asTouched, asExposed>>
    BY DEF ApplyInv, ApplyTypeOK, OpRecords, OpInv, LiveFrame
  <1>2. ApplyTypeOK'
    BY <1>1 DEF ApplyInv, ApplyTypeOK, OpRecords
  <1>3. Kept' \subseteq Kept
    BY <1>1 DEF Kept
  <1>4. OpInv(o, r, Kept) => OpInv(o, asOp[o], Kept)'
    BY <1>1, <1>3 DEF OpInv, OneInstance
  <1>5. ASSUME NEW p \in Applies PROVE OpInv(p, asOp[p], Kept)'
    <2>1. CASE p = o
      BY <1>4, <2>1
    <2>2. CASE p # o
      BY <1>1, <1>3, <2>2 DEF ApplyInv, OpInv, OneInstance
    <2> QED BY <2>1, <2>2
  <1>6. ~asApart' => \A p, q \in Applies : AtWork(p)' /\ AtWork(q)' => p = q
    <2>1. \A p \in Applies : AtWork(p)' => AtWork(p) \/ p = o
      BY <1>1 DEF AtWork
    <2>2. AtWork(o)' => AtWork(o) \/ MayRun(o)
      BY <1>1 DEF AtWork, Resting
    <2> QED BY <1>1, <2>1, <2>2 DEF ApplyInv, MayRun
  <1> QED BY <1>1, <1>2, <1>3, <1>5, <1>6 DEF ApplyInv

\* The operation ends, its staging file and its rollback candidate removed.
LEMMA EndsInv ==
  ASSUME ApplyInv, NEW o \in Applies, NEW result \in Results, Returns(o, result), LiveFrame,
         result = "rejected" => o \notin asTouched,
         result \in {"applied", "rolled-back"} => o \in asTouched,
         result = "applied" => asOp[o].step \in Keeping
  PROVE  ApplyInv'
  <1> DEFINE r == ApplyEnded(o, result)
  <1>1. /\ r \in OpRecords /\ r.step = result /\ r.token = asOp[o].token /\ r.source = asOp[o].source
        /\ r.backup = asOp[o].backup /\ ~r.staging.is /\ ~r.rollback.is
    <2>1. asOp[o] \in OpRecords /\ result \in ApplySteps
      BY DEF ApplyInv, OpInv, ApplySteps
    <2>2. NoFile \in Files /\ ~NoFile.is
      BY DEF NoFile, Files, Generations
    <2> QED BY <2>1, <2>2 DEF ApplyEnded, OpRecords
  <1>2. asOp' = [asOp EXCEPT ![o] = r]
    BY DEF Returns
  <1> HIDE DEF r
  <1>3. OpInv(o, asOp[o], Kept) /\ result \notin {"copying", "revalidated"}
    BY DEF ApplyInv, Results
  <1>4. FilesAgree(o, r)
    BY <1>1 DEF FilesAgree, Results
  <1>5. OpInv(o, r, Kept)
    BY <1>1, <1>3, <1>4 DEF OpInv, OneInstance, NotReplaced, Replacing, Handoff, Results
  <1>6. r.step \in Resting /\ (r.step \in Keeping => asOp[o].step \in Keeping)
    BY <1>1 DEF Resting, Keeping, Results
  <1> QED BY <1>2, <1>5, <1>6, LocalStep

\* The operation goes on, its files as they are.
LEMMA GoesOnInv ==
  ASSUME ApplyInv, NEW o \in Applies, NEW to \in ApplySteps, Now(o, to), LiveFrame,
         OpInv(o, [asOp[o] EXCEPT !.step = to], Kept),
         to \in Keeping => asOp[o].step \in Keeping,
         to \in Resting \/ AtWork(o) \/ MayRun(o)
  PROVE  ApplyInv'
  <1> DEFINE r == [asOp[o] EXCEPT !.step = to]
  <1>1. r.step = to
    BY DEF ApplyInv, OpInv, OpRecords
  <1>2. asOp' = [asOp EXCEPT ![o] = r]
    BY DEF Now
  <1> HIDE DEF r
  <1>3. OpInv(o, r, Kept)
    BY DEF r
  <1> QED BY <1>1, <1>2, <1>3, LocalStep

\* An operation that has not begun knows nothing.
LEMMA NewApplyInv ==
  ASSUME NEW o \in Applies, o \notin asTouched
  PROVE  OpInv(o, NewApply, Kept)
  <1>1. NewApply \in OpRecords
    BY DEF NewApply, OpRecords, NoFile, Files, Generations, ApplySteps, Results
  <1> QED BY <1>1 DEF OpInv, FilesAgree, OneInstance, NewApply, NoFile, NotReplaced, Replacing, Handoff

LEMMA PreflightInv ==
  ASSUME ApplyInv, NEW o \in Applies, PreflightBegins(o) \/ PreflightIssues(o)
  PROVE  ApplyInv'
  <1>1. /\ OpInv(o, asOp[o], Kept) /\ asOp[o] \in OpRecords /\ asLive \in Generations
        /\ asLive \subseteq asDone \cup asTouched
    BY DEF ApplyInv, ApplyTypeOK, OpInv
  <1>2. CASE PreflightBegins(o)
    <2> DEFINE r == [asOp[o] EXCEPT !.step = "observing", !.token = asLive]
    <2>1. asOp' = [asOp EXCEPT ![o] = r] /\ asOp[o].step = "idle" /\ MayRun(o) /\ LiveFrame
      BY <1>1, <1>2 DEF PreflightBegins, OpRecords, ApplyInv, ApplyTypeOK
    <2>2. /\ r \in OpRecords /\ r.step = "observing" /\ r.token = asLive /\ r.source = asOp[o].source
          /\ r.backup = asOp[o].backup /\ r.staging = asOp[o].staging /\ r.rollback = asOp[o].rollback
      BY <1>1 DEF OpRecords, ApplySteps
    <2> HIDE DEF r
    <2>3. OpInv(o, r, Kept)
      BY <1>1, <2>1, <2>2 DEF OpInv, FilesAgree, OneInstance, NotReplaced, Replacing, Handoff
    <2> QED BY <2>1, <2>2, <2>3, LocalStep DEF Keeping
  <1>3. CASE PreflightIssues(o)
    <2>1. asOp[o].step = "observing" /\ LiveFrame /\ AtWork(o)
      BY <1>3 DEF PreflightIssues, AtWork, Results
    <2>2. CASE Now(o, "issued")
      <3> DEFINE r == [asOp[o] EXCEPT !.step = "issued"]
      <3>1. /\ r \in OpRecords /\ r.step = "issued" /\ r.token = asOp[o].token /\ r.source = asOp[o].source
            /\ r.backup = asOp[o].backup /\ r.staging = asOp[o].staging /\ r.rollback = asOp[o].rollback
        BY <1>1 DEF OpRecords, ApplySteps
      <3> HIDE DEF r
      <3>2. OpInv(o, r, Kept)
        BY <1>1, <2>1, <3>1 DEF OpInv, FilesAgree, OneInstance, NotReplaced, Replacing, Handoff
      <3>3. "issued" \in ApplySteps /\ "issued" \notin Keeping
        BY DEF ApplySteps, Keeping
      <3> QED BY <2>1, <2>2, <3>2, <3>3, GoesOnInv DEF r
    <2>3. CASE asOp' = [asOp EXCEPT ![o] = NewApply]
      <3>1. o \notin asTouched
        BY <1>1, <2>1 DEF OpInv, NotReplaced
      <3>2. OpInv(o, NewApply, Kept)
        BY <3>1, NewApplyInv
      <3>3. NewApply.step = "idle"
        BY DEF NewApply
      <3> QED BY <2>1, <2>3, <3>2, <3>3, LocalStep DEF Keeping
    <2> QED BY <1>3, <2>2, <2>3 DEF PreflightIssues
  <1> QED BY <1>2, <1>3

\* The steps of an apply before it touches master.db: a comparison that holds, or an end.
LEMMA RejectedInv ==
  ASSUME ApplyInv, NEW o \in Applies, asOp[o].step \in NotReplaced, Returns(o, "rejected"), LiveFrame
  PROVE  ApplyInv'
  <1>1. o \notin asTouched
    BY DEF ApplyInv, OpInv
  <1> QED BY <1>1, EndsInv DEF Results

LEMMA ClaimInv ==
  ASSUME ApplyInv, NEW o \in Applies, Claim(o) \/ Revalidate(o) PROVE ApplyInv'
  <1>1. ASSUME NEW from \in {"issued", "claimed"}, NEW to \in {"claimed", "revalidated"},
               asOp[o].step = from, Now(o, to), LiveFrame,
               to = "revalidated" => asLive = asOp[o].token,
               AtWork(o) \/ MayRun(o)
        PROVE  ApplyInv'
    <2> DEFINE r == [asOp[o] EXCEPT !.step = to]
    <2>1. OpInv(o, asOp[o], Kept)
      BY DEF ApplyInv
    <2>2. /\ r \in OpRecords /\ r.step = to /\ r.token = asOp[o].token /\ r.source = asOp[o].source
          /\ r.backup = asOp[o].backup /\ r.staging = asOp[o].staging /\ r.rollback = asOp[o].rollback
      BY <2>1 DEF OpInv, OpRecords, ApplySteps
    <2> HIDE DEF r
    <2>3. OpInv(o, r, Kept)
      BY <1>1, <2>1, <2>2 DEF OpInv, FilesAgree, OneInstance, NotReplaced, Replacing, Handoff
    <2>4. to \in ApplySteps /\ to \notin Keeping
      BY DEF ApplySteps, Keeping
    <2> QED BY <1>1, <2>3, <2>4, GoesOnInv DEF r
  <1>2. CASE Claim(o)
    BY <1>1, <1>2, RejectedInv DEF Claim, Checked, NotReplaced
  <1>3. CASE Revalidate(o)
    <2>1. asOp[o].step = "claimed" /\ AtWork(o)
      BY <1>3 DEF Revalidate, Checked, AtWork, Results
    <2> QED BY <1>1, <1>3, <2>1, RejectedInv DEF Revalidate, Checked, NotReplaced, SameGeneration
  <1> QED BY <1>2, <1>3

\* The backup and the staging file.
LEMMA CopiesInv ==
  ASSUME ApplyInv, NEW o \in Applies,
         BackupBegins(o) \/ BackupCopied(o) \/ StagingCopied(o) \/ Mutate(o) \/ PrepareRollback(o)
  PROVE  ApplyInv'
  <1>1. /\ OpInv(o, asOp[o], Kept) /\ asOp[o] \in OpRecords /\ asLive \in Generations
        /\ asLive \subseteq asDone \cup asTouched /\ Kept \subseteq asLive \cup asExposed
    BY DEF ApplyInv, ApplyTypeOK, OpInv
  <1>2. LiveFrame
    BY DEF BackupBegins, BackupCopied, StagingCopied, Mutate, PrepareRollback
  <1>3. asOp[o].step \in {"revalidated", "copying", "backed", "staged", "mutated"}
    BY DEF BackupBegins, BackupCopied, StagingCopied, Mutate, PrepareRollback
  <1>4. AtWork(o) /\ asOp[o].step \in NotReplaced
    BY <1>3 DEF AtWork, Results, NotReplaced
  <1>5. ASSUME NEW r, asOp' = [asOp EXCEPT ![o] = r], OpInv(o, r, Kept), r.step \notin Keeping
        PROVE  ApplyInv'
    BY <1>2, <1>4, <1>5, LocalStep
  <1>6. CASE Returns(o, "rejected")
    BY <1>2, <1>4, <1>6, RejectedInv
  <1>7. CASE BackupBegins(o)
    <2> DEFINE r == [asOp[o] EXCEPT !.step = "copying", !.source = asLive]
    <2>1. asOp' = [asOp EXCEPT ![o] = r] /\ asOp[o].step = "revalidated"
      BY <1>1, <1>7 DEF BackupBegins, OpRecords, ApplyInv, ApplyTypeOK
    <2>2. /\ r \in OpRecords /\ r.step = "copying" /\ r.token = asOp[o].token /\ r.source = asLive
          /\ r.backup = asOp[o].backup /\ r.staging = asOp[o].staging /\ r.rollback = asOp[o].rollback
      BY <1>1 DEF OpRecords, ApplySteps
    <2> HIDE DEF r
    <2>3. OpInv(o, r, Kept)
      BY <1>1, <2>1, <2>2 DEF OpInv, FilesAgree, OneInstance, NotReplaced, Replacing, Handoff
    <2> QED BY <1>5, <2>1, <2>2, <2>3 DEF Keeping
  <1>8. CASE BackupCopied(o) /\ ~Returns(o, "rejected")
    <2> DEFINE r == [asOp[o] EXCEPT !.step = "backed", !.backup = FileOf(asOp[o].source)]
    <2>1. asOp' = [asOp EXCEPT ![o] = r] /\ asOp[o].step = "copying" /\ asLive = asOp[o].source
      BY <1>1, <1>8 DEF BackupCopied, SourceUnchanged, OpRecords, ApplyInv, ApplyTypeOK
    <2>2. FileOf(asOp[o].source) \in Files /\ FileOf(asOp[o].source).is /\ FileOf(asOp[o].source).gen = asOp[o].source
      BY <1>1 DEF FileOf, Files, OpRecords
    <2>3. /\ r \in OpRecords /\ r.step = "backed" /\ r.token = asOp[o].token /\ r.source = asOp[o].source
          /\ r.backup = FileOf(asOp[o].source) /\ r.staging = asOp[o].staging /\ r.rollback = asOp[o].rollback
      BY <1>1, <2>2 DEF OpRecords, ApplySteps
    <2> HIDE DEF r
    <2>4. ~r.rollback.is
      BY <1>1, <2>1, <2>3 DEF OpInv, FilesAgree, OpRecords
    <2>5. OpInv(o, r, Kept)
      BY <1>1, <2>1, <2>2, <2>3, <2>4 DEF OpInv, FilesAgree, OneInstance, NotReplaced, Replacing, Handoff
    <2> QED BY <1>5, <2>1, <2>3, <2>5 DEF Keeping
  <1>9. CASE asOp' = [asOp EXCEPT ![o] = [ApplyEnded(o, "rejected") EXCEPT !.backup = NoFile]]
    <2> DEFINE r == [ApplyEnded(o, "rejected") EXCEPT !.backup = NoFile]
    <2>1. NoFile \in Files /\ ~NoFile.is /\ NoFile.gen = {}
      BY DEF NoFile, Files, Generations
    <2>2. /\ r \in OpRecords /\ r.step = "rejected" /\ r.token = asOp[o].token /\ r.source = asOp[o].source
          /\ r.backup = NoFile /\ ~r.staging.is /\ ~r.rollback.is
      BY <1>1, <2>1 DEF OpRecords, ApplyEnded, ApplySteps, Results
    <2> HIDE DEF r
    <2>3. OpInv(o, r, Kept)
      BY <1>1, <1>4, <2>1, <2>2 DEF OpInv, FilesAgree, OneInstance, NotReplaced, Replacing, Handoff
    <2> QED BY <1>5, <1>9, <2>2, <2>3 DEF Keeping, r
  <1>10. CASE StagingCopied(o) /\ asOp' = [asOp EXCEPT ![o].step = "staged", ![o].staging = asOp[o].backup]
    <2> DEFINE r == [asOp[o] EXCEPT !.step = "staged", !.staging = asOp[o].backup]
    <2>1. asOp' = [asOp EXCEPT ![o] = r] /\ asOp[o].step = "backed"
      BY <1>1, <1>10 DEF StagingCopied, OpRecords, ApplyInv, ApplyTypeOK
    <2>2. /\ r \in OpRecords /\ r.step = "staged" /\ r.token = asOp[o].token /\ r.source = asOp[o].source
          /\ r.backup = asOp[o].backup /\ r.staging = asOp[o].backup /\ r.rollback = asOp[o].rollback
      BY <1>1 DEF OpRecords, ApplySteps
    <2> HIDE DEF r
    <2>3. OpInv(o, r, Kept)
      BY <1>1, <2>1, <2>2 DEF OpInv, FilesAgree, OneInstance, NotReplaced, Replacing, Handoff
    <2> QED BY <1>5, <2>1, <2>2, <2>3 DEF Keeping
  <1>11. CASE Mutate(o) /\ ~Returns(o, "rejected")
    <2> DEFINE new == FileOf(asOp[o].staging.gen \cup {o})
               r == [asOp[o] EXCEPT !.step = "mutated", !.staging = new]
    <2>1. asOp' = [asOp EXCEPT ![o] = r] /\ asOp[o].step = "staged"
      BY <1>1, <1>11 DEF Mutate, OpRecords, ApplyInv, ApplyTypeOK
    <2>2. new = FileOf(asOp[o].backup.gen \cup {o}) /\ asOp[o].backup.is
      BY <1>1, <2>1 DEF OpInv, FilesAgree
    <2>3. new \in Files /\ new.is
      BY <1>1 DEF FileOf, Files, OpRecords, Generations
    <2> HIDE DEF new
    <2>4. /\ r \in OpRecords /\ r.step = "mutated" /\ r.token = asOp[o].token /\ r.source = asOp[o].source
          /\ r.backup = asOp[o].backup /\ r.staging = new /\ r.rollback = asOp[o].rollback
      BY <1>1, <2>3 DEF OpRecords, ApplySteps
    <2> HIDE DEF r
    <2>5. OpInv(o, r, Kept)
      BY <1>1, <2>1, <2>2, <2>3, <2>4 DEF OpInv, FilesAgree, OneInstance, NotReplaced, Replacing, Handoff
    <2> QED BY <1>5, <2>1, <2>4, <2>5 DEF Keeping
  <1>12. CASE PrepareRollback(o) /\ ~Returns(o, "rejected")
    <2> DEFINE r == [asOp[o] EXCEPT !.step = "prepared", !.rollback = asOp[o].backup]
    <2>1. asOp' = [asOp EXCEPT ![o] = r] /\ asOp[o].step = "mutated"
      BY <1>1, <1>12 DEF PrepareRollback, OpRecords, ApplyInv, ApplyTypeOK
    <2>2. /\ r \in OpRecords /\ r.step = "prepared" /\ r.token = asOp[o].token /\ r.source = asOp[o].source
          /\ r.backup = asOp[o].backup /\ r.staging = asOp[o].staging /\ r.rollback = asOp[o].backup
      BY <1>1 DEF OpRecords, ApplySteps
    <2> HIDE DEF r
    <2>3. OpInv(o, r, Kept)
      BY <1>1, <2>1, <2>2 DEF OpInv, FilesAgree, OneInstance, NotReplaced, Replacing, Handoff
    <2> QED BY <1>5, <2>1, <2>2, <2>3 DEF Keeping
  <1> QED BY <1>6, <1>7, <1>8, <1>9, <1>10, <1>11, <1>12 DEF BackupCopied, StagingCopied, Mutate, PrepareRollback

\* The guards of the handoff: one that fails rejects while the staging file exists,
\* and otherwise sends the operation to its rollback.
LEMMA HandoffFailsInv ==
  ASSUME ApplyInv, NEW o \in Applies, HandoffFails(o), LiveFrame,
         asOp[o].step \in {"prepared", "guarded", "checked", "replaced", "handed"}
  PROVE  ApplyInv'
  <1>1. OpInv(o, asOp[o], Kept) /\ AtWork(o)
    BY DEF ApplyInv, AtWork, Results
  <1>2. CASE asOp[o].staging.is
    <2>1. asOp[o].step \in NotReplaced /\ Returns(o, "rejected")
      BY <1>1, <1>2 DEF OpInv, FilesAgree, NotReplaced, HandoffFails
    <2> QED BY <2>1, RejectedInv
  <1>3. CASE ~asOp[o].staging.is
    <2>1. asOp[o].step \in {"replaced", "handed"} /\ Now(o, "failed")
      BY <1>1, <1>3 DEF OpInv, FilesAgree, HandoffFails
    <2> DEFINE r == [asOp[o] EXCEPT !.step = "failed"]
    <2>2. /\ r \in OpRecords /\ r.step = "failed" /\ r.token = asOp[o].token /\ r.source = asOp[o].source
          /\ r.backup = asOp[o].backup /\ r.staging = asOp[o].staging /\ r.rollback = asOp[o].rollback
      BY <1>1 DEF OpInv, OpRecords, ApplySteps
    <2> HIDE DEF r
    <2>3. OpInv(o, r, Kept)
      BY <1>1, <2>1, <2>2 DEF OpInv, FilesAgree, OneInstance, NotReplaced, Replacing, Handoff
    <2>4. "failed" \in ApplySteps /\ "failed" \notin Keeping
      BY DEF ApplySteps, Keeping
    <2> QED BY <1>1, <2>1, <2>3, <2>4, GoesOnInv DEF r
  <1> QED BY <1>2, <1>3

LEMMA GuardsInv ==
  ASSUME ApplyInv, NEW o \in Applies, Guard(o) \/ CheckTarget(o) \/ ReadBack(o) PROVE ApplyInv'
  <1> DEFINE At(to) == [asOp[o] EXCEPT !.step = to]
  <1>1. OpInv(o, asOp[o], Kept) /\ Kept \subseteq asLive \cup asExposed
    BY DEF ApplyInv
  <1>2. \A to \in ApplySteps : LET r == At(to) IN
          /\ r \in OpRecords /\ r.step = to /\ r.token = asOp[o].token /\ r.source = asOp[o].source
          /\ r.backup = asOp[o].backup /\ r.staging = asOp[o].staging /\ r.rollback = asOp[o].rollback
    BY <1>1 DEF OpInv, OpRecords
  <1> HIDE DEF At
  <1>3. CASE HandoffFails(o)
    BY <1>3, HandoffFailsInv DEF Guard, CheckTarget, ReadBack, HandsOn
  <1>4. CASE Guard(o) /\ Now(o, "guarded")
    <2>1. asOp[o].step = "prepared" /\ LiveFrame /\ AtWork(o)
      BY <1>4 DEF Guard, HandsOn, AtWork, Results
    <2>2. "guarded" \in ApplySteps /\ "guarded" \notin Keeping
      BY DEF ApplySteps, Keeping
    <2>3. OpInv(o, At("guarded"), Kept)
      BY <1>1, <1>2, <2>1, <2>2 DEF OpInv, FilesAgree, OneInstance, NotReplaced, Replacing, Handoff
    <2> QED BY <1>4, <2>1, <2>2, <2>3, GoesOnInv DEF At
  <1>5. CASE CheckTarget(o) /\ SameGeneration(o) /\ Now(o, "checked")
    <2>1. asOp[o].step = "guarded" /\ LiveFrame /\ AtWork(o) /\ asLive = asOp[o].token
      BY <1>5 DEF CheckTarget, HandsOn, AtWork, Results, SameGeneration
    <2>2. "checked" \in ApplySteps /\ "checked" \notin Keeping
      BY DEF ApplySteps, Keeping
    <2>3. ~asApart => asOp[o].backup = FileOf(asOp[o].token)
      <3>1. asOp[o].backup \in Files /\ asOp[o].backup.is
        BY <1>1, <2>1 DEF OpInv, OpRecords, FilesAgree
      <3>2. ~asApart => asOp[o].backup.gen = asOp[o].token
        BY <1>1, <2>1 DEF OpInv, OneInstance
      <3> QED BY <3>1, <3>2 DEF Files, FileOf
    <2>4. OpInv(o, At("checked"), Kept)
      BY <1>1, <1>2, <2>1, <2>2, <2>3 DEF OpInv, FilesAgree, OneInstance, NotReplaced, Replacing, Handoff
    <2> QED BY <1>5, <2>1, <2>2, <2>4, GoesOnInv DEF At
  <1>6. CASE ReadBack(o) /\ Now(o, "handed")
    <2>1. asOp[o].step = "replaced" /\ LiveFrame /\ AtWork(o)
      BY <1>6 DEF ReadBack, HandsOn, AtWork, Results
    <2>2. "handed" \in ApplySteps /\ asOp[o].step \in Keeping
      BY <2>1 DEF ApplySteps, Keeping
    <2>3. OpInv(o, At("handed"), Kept)
      BY <1>1, <1>2, <2>1, <2>2 DEF OpInv, FilesAgree, OneInstance, NotReplaced, Replacing, Handoff
    <2> QED BY <1>6, <2>1, <2>2, <2>3, GoesOnInv DEF At
  <1> QED BY <1>3, <1>4, <1>5, <1>6 DEF Guard, CheckTarget, ReadBack, HandsOn

\* The rest of the rollback, and the last verification.
LEMMA VerifyInv == ASSUME ApplyInv, NEW o \in Applies, VerifyLive(o) PROVE ApplyInv'
  <1>1. asOp[o].step = "handed" /\ LiveFrame /\ OpInv(o, asOp[o], Kept)
    BY DEF VerifyLive, ApplyInv
  <1>2. o \in asTouched
    BY <1>1 DEF OpInv, Replacing
  <1>3. CASE Returns(o, "applied")
    BY <1>1, <1>2, <1>3, EndsInv DEF Results, Keeping
  <1>4. CASE HandoffFails(o)
    BY <1>1, <1>4, HandoffFailsInv
  <1> QED BY <1>3, <1>4 DEF VerifyLive

\* An end that says the outcome is not known is always true.
LEMMA UnverifiedInv ==
  ASSUME ApplyInv, NEW o \in Applies, Returns(o, "recovery-unverified"), LiveFrame PROVE ApplyInv'
  BY EndsInv DEF Results

LEMMA RollbackInv ==
  ASSUME ApplyInv, NEW o \in Applies, RollbackBegins(o) \/ RollbackChecked(o) \/ RollbackVerified(o)
  PROVE  ApplyInv'
  <1>1. /\ OpInv(o, asOp[o], Kept) /\ asOp[o] \in OpRecords /\ asLive \in Generations
        /\ asLive \subseteq asDone \cup asTouched
    BY DEF ApplyInv, ApplyTypeOK, OpInv
  <1>2. LiveFrame
    BY DEF RollbackBegins, RollbackChecked, RollbackVerified, Checked
  <1>3. asOp[o].step \in {"failed", "rolling", "restored"} /\ AtWork(o) /\ o \in asTouched
    BY <1>1 DEF RollbackBegins, RollbackChecked, RollbackVerified, Checked, AtWork, Results, OpInv, Replacing
  <1>4. CASE Returns(o, "recovery-unverified")
    BY <1>2, <1>4, UnverifiedInv
  <1>5. CASE RollbackBegins(o) /\ ~Returns(o, "recovery-unverified")
    <2> DEFINE r == [asOp[o] EXCEPT !.step = "rolling", !.source = asLive]
    <2>1. asOp' = [asOp EXCEPT ![o] = r] /\ asOp[o].step = "failed" /\ asOp[o].rollback.is
      BY <1>1, <1>5 DEF RollbackBegins, OpRecords, ApplyInv, ApplyTypeOK
    <2>2. /\ r \in OpRecords /\ r.step = "rolling" /\ r.token = asOp[o].token /\ r.source = asLive
          /\ r.backup = asOp[o].backup /\ r.staging = asOp[o].staging /\ r.rollback = asOp[o].rollback
      BY <1>1 DEF OpRecords, ApplySteps
    <2> HIDE DEF r
    <2>3. OpInv(o, r, Kept)
      BY <1>1, <1>3, <2>1, <2>2 DEF OpInv, FilesAgree, OneInstance, NotReplaced, Replacing, Handoff
    <2> QED BY <1>2, <1>3, <2>1, <2>2, <2>3, LocalStep DEF Keeping
  <1>6. CASE RollbackChecked(o) /\ Now(o, "rechecked")
    <2> DEFINE r == [asOp[o] EXCEPT !.step = "rechecked"]
    <2>1. asOp[o].step = "rolling"
      BY <1>6 DEF RollbackChecked, Checked
    <2>2. /\ r \in OpRecords /\ r.step = "rechecked" /\ r.token = asOp[o].token /\ r.source = asOp[o].source
          /\ r.backup = asOp[o].backup /\ r.staging = asOp[o].staging /\ r.rollback = asOp[o].rollback
      BY <1>1 DEF OpRecords, ApplySteps
    <2> HIDE DEF r
    <2>3. OpInv(o, r, Kept)
      BY <1>1, <1>3, <2>1, <2>2 DEF OpInv, FilesAgree, OneInstance, NotReplaced, Replacing, Handoff
    <2>4. "rechecked" \in ApplySteps /\ "rechecked" \notin Keeping
      BY DEF ApplySteps, Keeping
    <2> QED BY <1>2, <1>3, <1>6, <2>3, <2>4, GoesOnInv DEF r
  <1>7. CASE Returns(o, "rolled-back")
    BY <1>2, <1>3, <1>7, EndsInv DEF Results
  <1> QED BY <1>4, <1>5, <1>6, <1>7 DEF RollbackBegins, RollbackChecked, RollbackVerified, Checked

\* os.replace: gen takes the place of master.db.  Nothing that is kept is lost when gen
\* holds all that the operation's backup holds of it; what gets lost is exposed.
LEMMA ReplacedInv ==
  ASSUME ApplyInv, NEW o \in Applies, NEW r, NEW gen \in Generations,
         asOp[o].step \in Handoff, asOp[o].backup.is,
         asOp' = [asOp EXCEPT ![o] = r], Replaced(o, gen),
         r \in OpRecords, FilesAgree(o, r), r.step \in Replacing \ {"applied", "rolled-back", "handed"},
         r.token = asOp[o].token, r.source = asOp[o].source, r.backup = asOp[o].backup,
         gen \subseteq asOp[o].backup.gen \cup {o}, asOp[o].backup.gen \subseteq gen,
         r.step \in Keeping => o \in gen /\ asOp[o].step = "checked",
         asOp[o].step \notin Keeping
  PROVE  ApplyInv'
  <1> DEFINE kept == Kept \ {o}
  <1>1. /\ OpInv(o, asOp[o], Kept) /\ asOp[o] \in OpRecords
        /\ \A p \in Applies : asOp'[p] = IF p = o THEN r ELSE asOp[p]
        /\ asOp' \in [Applies -> OpRecords]
    BY DEF ApplyInv, ApplyTypeOK, OpInv, OpRecords
  <1>2. /\ asLive' = gen /\ asTouched' = asTouched \cup {o} /\ asExposed' = Exposed(o)
        /\ UNCHANGED <<asApart, asBox, asSidecar, asDone>>
    BY DEF Replaced
  <1>3. asExposed \subseteq asExposed' /\ asExposed' \subseteq asExposed \cup {o}
    BY <1>2 DEF Exposed
  <1>4. \A p \in Applies \ {o} : asOp[p].step \in Handoff => o \in asExposed'
    BY <1>2 DEF Exposed, InHandoff, Handoff
  <1>5. ApplyTypeOK'
    BY <1>1, <1>2, <1>3 DEF ApplyInv, ApplyTypeOK, OpRecords
  <1>6. asLive' \subseteq asDone' \cup asTouched'
    BY <1>1, <1>2 DEF OpInv
  <1>7. Kept' \subseteq kept \cup {o} /\ (o \in Kept' => r.step \in Keeping \/ o \in asDone)
    BY <1>1, <1>2 DEF Kept
  <1>8. asDone \cap Applies = {} /\ o \notin Kept
    BY ApplyAssumption DEF ApplyInv, ApplyTypeOK, Kept
  <1>9. kept \subseteq asLive' \cup asExposed'
    <2>1. kept \subseteq asOp[o].token \cup asExposed
      BY <1>1 DEF OpInv
    <2>2. asOp[o].token \cap kept \subseteq asOp[o].backup.gen \cup asExposed
      BY <1>1 DEF OpInv
    <2> QED BY <1>2, <1>3, <2>1, <2>2
  <1>10. Kept' \subseteq asLive' \cup asExposed'
    BY <1>2, <1>7, <1>8, <1>9
  <1>11. o \in Kept' => /\ o \notin asTouched
                        /\ \A p \in Applies : o \notin asOp[p].token
    <2> SUFFICES ASSUME o \in Kept' PROVE o \notin asTouched /\ \A p \in Applies : o \notin asOp[p].token
      OBVIOUS
    <2>1. asOp[o].step = "checked"
      BY <1>7, <1>8
    <2>2. o \notin asTouched
      BY <1>1, <2>1 DEF OpInv, NotReplaced
    <2>3. \A p \in Applies : asOp[p].token \subseteq asDone \cup asTouched
      BY DEF ApplyInv, OpInv
    <2> QED BY <1>8, <2>2, <2>3
  <1>12. ASSUME NEW p \in Applies \ {o} PROVE OpInv(p, asOp[p], Kept)'
    <2>1. OpInv(p, asOp[p], Kept) /\ asOp'[p] = asOp[p] /\ FilesAgree(p, asOp[p])'
      BY <1>1 DEF ApplyInv, OpInv, FilesAgree
    <2>2. asOp[p].step \in Handoff => Kept' \ {p} \subseteq asOp[p].token \cup asExposed'
      BY <1>3, <1>4, <1>7, <2>1 DEF OpInv
    <2>3. asOp[p].token \cap Kept' \subseteq Kept
      BY <1>7, <1>11
    <2>4. ~asApart => OneInstance(p, asOp[p])'
      <3> SUFFICES ASSUME ~asApart PROVE OneInstance(p, asOp[p])'
        OBVIOUS
      <3>1. ~AtWork(p)
        <4>1. AtWork(o)
          BY DEF AtWork, Handoff, Results
        <4> QED BY <4>1 DEF ApplyInv
      <3>2. asOp[p].step \notin {"revalidated", "copying", "backed", "staged", "mutated", "prepared",
                                 "guarded", "checked"}
        BY <3>1 DEF AtWork, Results
      <3>3. p \in asTouched' => p \in asTouched
        BY <1>2
      <3> QED BY <2>1, <3>2, <3>3 DEF OpInv, OneInstance
    <2> QED BY <1>2, <1>3, <2>1, <2>2, <2>3, <2>4 DEF OpInv
  <1>13. OpInv(o, asOp[o], Kept)'
    <2>1. asOp'[o] = r /\ FilesAgree(o, asOp[o])'
      BY <1>1 DEF FilesAgree
    <2>2. Kept' \ {o} \subseteq r.token \cup asExposed' /\ r.token \cap Kept' \subseteq r.backup.gen \cup asExposed'
      BY <1>1, <1>3, <1>7, <1>11 DEF OpInv
    <2>3. ~asApart => asOp[o].backup = FileOf(asOp[o].token)
      BY <1>1 DEF OpInv, OneInstance, Handoff, Replacing
    <2>4. r.step \notin NotReplaced \cup {"revalidated", "copying", "backed", "staged", "mutated", "prepared", "guarded"}
      BY DEF Replacing, NotReplaced
    <2> QED BY <1>1, <1>2, <2>1, <2>2, <2>3, <2>4 DEF OpInv, OneInstance, NotReplaced
  <1>14. ~asApart' => \A p, q \in Applies : AtWork(p)' /\ AtWork(q)' => p = q
    <2>1. \A p \in Applies : AtWork(p)' => AtWork(p)
      BY <1>1 DEF AtWork, Handoff, Results
    <2> QED BY <1>2, <2>1 DEF ApplyInv
  <1> QED BY <1>5, <1>6, <1>10, <1>12, <1>13, <1>14 DEF ApplyInv

LEMMA HandoffInv == ASSUME ApplyInv, NEW o \in Applies, Replace(o) \/ RollbackReplaces(o) PROVE ApplyInv'
  <1>1. OpInv(o, asOp[o], Kept) /\ asOp[o] \in OpRecords /\ NoFile \in Files /\ ~NoFile.is
    BY DEF ApplyInv, OpInv, NoFile, Files, Generations
  <1>2. CASE Replace(o) /\ HandoffFails(o) /\ LiveFrame
    BY <1>2, HandoffFailsInv DEF Replace
  <1>3. CASE Returns(o, "recovery-unverified") /\ LiveFrame
    BY <1>3, UnverifiedInv
  <1>4. CASE /\ Replace(o) /\ Replaced(o, asOp[o].staging.gen)
             /\ asOp' = [asOp EXCEPT ![o].step = "replaced", ![o].staging = NoFile]
    <2> DEFINE r == [asOp[o] EXCEPT !.step = "replaced", !.staging = NoFile]
               gen == asOp[o].staging.gen
    <2>1. asOp' = [asOp EXCEPT ![o] = r] /\ asOp[o].step = "checked"
      BY <1>1, <1>4 DEF Replace, OpRecords, ApplyInv, ApplyTypeOK
    <2>2. /\ asOp[o].backup.is /\ gen = asOp[o].backup.gen \cup {o} /\ gen \in Generations
      BY <1>1, <2>1 DEF OpInv, FilesAgree, FileOf, OpRecords, Files
    <2>3. /\ r \in OpRecords /\ r.step = "replaced" /\ r.token = asOp[o].token /\ r.source = asOp[o].source
          /\ r.backup = asOp[o].backup /\ r.staging = NoFile /\ r.rollback = asOp[o].rollback
      BY <1>1 DEF OpRecords, ApplySteps
    <2> HIDE DEF r, gen
    <2>4. FilesAgree(o, r)
      BY <1>1, <2>3 DEF OpInv, FilesAgree
    <2>5. /\ Replaced(o, gen) /\ asOp[o].step \in Handoff /\ asOp[o].step \notin Keeping
          /\ r.step \in Replacing \ {"applied", "rolled-back", "handed"}
      BY <1>4, <2>1, <2>3 DEF Handoff, Keeping, Replacing, gen
    <2> QED BY <2>1, <2>2, <2>3, <2>4, <2>5, ReplacedInv
  <1>5. CASE /\ RollbackReplaces(o) /\ Replaced(o, asOp[o].rollback.gen)
             /\ asOp' = [asOp EXCEPT ![o].step = "restored", ![o].rollback = NoFile]
    <2> DEFINE r == [asOp[o] EXCEPT !.step = "restored", !.rollback = NoFile]
               gen == asOp[o].rollback.gen
    <2>1. asOp' = [asOp EXCEPT ![o] = r] /\ asOp[o].step = "rechecked"
      BY <1>1, <1>5 DEF RollbackReplaces, OpRecords, ApplyInv, ApplyTypeOK
    <2>2. /\ asOp[o].backup.is /\ gen = asOp[o].backup.gen /\ gen \in Generations
      BY <1>1, <2>1 DEF OpInv, FilesAgree, OpRecords, Files
    <2>3. /\ r \in OpRecords /\ r.step = "restored" /\ r.token = asOp[o].token /\ r.source = asOp[o].source
          /\ r.backup = asOp[o].backup /\ r.staging = asOp[o].staging /\ r.rollback = NoFile
      BY <1>1 DEF OpRecords, ApplySteps
    <2> HIDE DEF r, gen
    <2>4. FilesAgree(o, r)
      BY <1>1, <2>3 DEF OpInv, FilesAgree
    <2>5. /\ Replaced(o, gen) /\ asOp[o].step \in Handoff /\ asOp[o].step \notin Keeping
          /\ r.step \in Replacing \ {"applied", "rolled-back", "handed"} /\ r.step \notin Keeping
      BY <1>5, <2>1, <2>3 DEF Handoff, Keeping, Replacing, gen
    <2> QED BY <2>1, <2>2, <2>3, <2>4, <2>5, ReplacedInv
  <1> QED BY <1>2, <1>3, <1>4, <1>5 DEF Replace, RollbackReplaces

\* A process dies: its operation stops where it is, the others lose their tokens.
LEMMA DiesInv == ASSUME ApplyInv, NEW o \in Applies, Dies(o) PROVE ApplyInv'
  <1>1. /\ asOp' \in [Applies -> OpRecords] /\ LiveFrame
        /\ \A p \in Applies : \/ asOp'[p] = asOp[p]
                               \/ asOp'[p] = [asOp[p] EXCEPT !.step = "dead"]
    BY DEF Dies, ApplyInv, ApplyTypeOK, OpRecords, ApplySteps
  <1>2. Kept' \subseteq Kept
    BY <1>1 DEF Kept, Keeping, LiveFrame, ApplyInv, ApplyTypeOK
  <1>3. ASSUME NEW p \in Applies PROVE OpInv(p, asOp[p], Kept)'
    <2>1. OpInv(p, asOp[p], Kept)
      BY DEF ApplyInv
    <2>2. CASE asOp'[p] = asOp[p]
      BY <1>1, <1>2, <2>1, <2>2 DEF LiveFrame, OpInv, FilesAgree, OneInstance
    <2>3. CASE asOp'[p] = [asOp[p] EXCEPT !.step = "dead"]
      <3> DEFINE r == asOp'[p]
      <3>1. /\ r \in OpRecords /\ r.step = "dead" /\ r.token = asOp[p].token /\ r.source = asOp[p].source
            /\ r.backup = asOp[p].backup /\ r.staging = asOp[p].staging /\ r.rollback = asOp[p].rollback
        BY <2>1, <2>3 DEF OpInv, OpRecords, ApplySteps
      <3> HIDE DEF r
      <3>2. OpInv(p, r, Kept)
        BY <2>1, <3>1 DEF OpInv, FilesAgree, OneInstance, NotReplaced, Replacing, Handoff
      <3> QED BY <1>1, <1>2, <3>2 DEF LiveFrame, OpInv, FilesAgree, OneInstance, r
    <2> QED BY <1>1, <2>2, <2>3
  <1>4. ~asApart' => \A p, q \in Applies : AtWork(p)' /\ AtWork(q)' => p = q
    <2>1. \A p \in Applies : AtWork(p)' => AtWork(p)
      BY <1>1 DEF AtWork, ApplyInv, ApplyTypeOK
    <2> QED BY <1>1, <2>1 DEF ApplyInv, LiveFrame
  <1> QED BY <1>1, <1>2, <1>3, <1>4 DEF ApplyInv, ApplyTypeOK, LiveFrame, OpRecords

\* Rekordbox writes a change; whoever has had its last look does not see it.
LEMMA BoxWritesInv == ASSUME ApplyInv, NEW e \in BoxEdits, BoxWrites(e) PROVE ApplyInv'
  <1>1. /\ asLive' = asLive \cup {e} /\ asDone' = asDone \cup {e} /\ asExposed' = Exposed(e)
        /\ asSidecar' \in BOOLEAN /\ e \notin asDone
        /\ UNCHANGED <<asApart, asBox, asOp, asTouched>>
    BY DEF BoxWrites
  <1>2. /\ asExposed \subseteq asExposed' /\ asExposed' \subseteq asExposed \cup {e}
        /\ \A o \in Applies : asOp[o].step \in Handoff => e \in asExposed'
    BY <1>1, ApplyAssumption DEF Exposed, InHandoff, Handoff
  <1>3. Kept' = Kept \cup {e} /\ e \notin Applies
    BY <1>1, ApplyAssumption DEF Kept
  <1>4. ApplyTypeOK'
    BY <1>1, <1>2 DEF ApplyInv, ApplyTypeOK, Generations
  <1>5. ASSUME NEW o \in Applies PROVE OpInv(o, asOp[o], Kept)'
    <2>1. OpInv(o, asOp[o], Kept)
      BY DEF ApplyInv
    <2>2. e \notin asOp[o].token
      BY <1>1, <1>3, <2>1 DEF OpInv, ApplyInv, ApplyTypeOK
    <2>3. FilesAgree(o, asOp[o])' /\ (~asApart' => OneInstance(o, asOp[o])')
      BY <1>1, <2>1 DEF OpInv, FilesAgree, OneInstance
    <2> QED BY <1>1, <1>2, <1>3, <2>1, <2>2, <2>3 DEF OpInv
  <1> QED BY <1>1, <1>2, <1>3, <1>4, <1>5 DEF ApplyInv, AtWork

LEMMA ApplyStepInv == ApplyInv /\ [ApplyNext]_applyVars => ApplyInv'
  <1> SUFFICES ASSUME ApplyInv, [ApplyNext]_applyVars PROVE ApplyInv'
    OBVIOUS
  <1>1. CASE BoxStarts \/ BoxEnds \/ UNCHANGED applyVars
    <2>1. /\ asBox' \in BOOLEAN /\ asSidecar' \in BOOLEAN
          /\ UNCHANGED <<asApart, asLive, asDone, asOp, asTouched, asExposed>>
      BY <1>1 DEF BoxStarts, BoxEnds, applyVars, ApplyInv, ApplyTypeOK
    <2>2. ApplyTypeOK'
      BY <2>1 DEF ApplyInv, ApplyTypeOK
    <2>3. Kept' = Kept
      BY <2>1 DEF Kept
    <2>4. ASSUME NEW o \in Applies PROVE OpInv(o, asOp[o], Kept)'
      <3>1. OpInv(o, asOp[o], Kept)
        BY DEF ApplyInv
      <3> QED BY <2>1, <2>3, <3>1 DEF OpInv, FilesAgree, OneInstance
    <2> QED BY <2>1, <2>2, <2>3, <2>4 DEF ApplyInv, AtWork
  <1>2. ASSUME NEW o \in Applies, Dies(o) PROVE ApplyInv'
    BY <1>2, DiesInv
  <1>3. ASSUME NEW o \in Applies, Replace(o) \/ RollbackReplaces(o) PROVE ApplyInv'
    BY <1>3, HandoffInv
  <1>4. ASSUME NEW o \in Applies, VerifyLive(o) PROVE ApplyInv'
    BY <1>4, VerifyInv
  <1> QED BY <1>1, <1>2, <1>3, <1>4, BoxWritesInv, PreflightInv, ClaimInv, CopiesInv, GuardsInv, RollbackInv
          DEF ApplyNext

\* The state and the records of the operations stay in their types.
THEOREM ApplyTypeCorrect == ApplySpec => []ApplyTypeOK
  <1>1. ApplyInv => ApplyTypeOK
    BY DEF ApplyInv
  <1> QED BY <1>1, ApplyInitInv, ApplyStepInv, PTL DEF ApplySpec

\* No edit of Rekordbox and no plan reported as applied is lost, but in the moments
\* the atomic replacement cannot see (apply_service.py, metadata_apply.py).
THEOREM NoChangeIsLost == ApplySpec => []EditsSurvive
  <1>1. ApplyInv => EditsSurvive
    BY DEF ApplyInv, EditsSurvive, Kept, Keeping
  <1> QED BY <1>1, ApplyInitInv, ApplyStepInv, PTL DEF ApplySpec

\* A rejected operation has left master.db alone; with one instance of the application,
\* one that has not keeps the backup of the very generation its token names.
THEOREM ReplacedKeepsBackup == ApplySpec => []ReplacedIsRecoverable
  <1>1. ApplyInv => ReplacedIsRecoverable
    BY DEF ApplyInv, OpInv, OneInstance, NotReplaced, ReplacedIsRecoverable
  <1> QED BY <1>1, ApplyInitInv, ApplyStepInv, PTL DEF ApplySpec

\* Nothing is reported as applied or rolled back in this step.
NothingReported ==
  \A o \in Applies : asOp'[o].step # asOp[o].step => asOp'[o].step \notin {"applied", "rolled-back"}

OutcomeStep ==
  \A o \in Applies :
    asOp'[o].step # asOp[o].step /\ ~asApart =>
      /\ asOp'[o].step = "applied" => asLive = asOp[o].token \cup {o}
      /\ asOp'[o].step = "rolled-back" => asLive = asOp[o].token

LEMMA OutcomesHold == ApplyInv /\ [ApplyNext]_applyVars => OutcomeStep
  <1> SUFFICES ASSUME ApplyInv, [ApplyNext]_applyVars PROVE OutcomeStep
    OBVIOUS
  <1>1. asOp \in [Applies -> OpRecords]
    BY DEF ApplyInv, ApplyTypeOK, OpRecords
  <1>2. NothingReported => OutcomeStep
    BY DEF NothingReported, OutcomeStep
  <1>3. ASSUME NEW o \in Applies, NEW result, Returns(o, result)
        PROVE  asOp'[o].step = result /\ \A p \in Applies \ {o} : asOp'[p] = asOp[p]
    BY <1>1, <1>3 DEF Returns, ApplyEnded, OpRecords
  <1>4. ASSUME NEW o \in Applies, NEW result, result \notin {"applied", "rolled-back"}, Returns(o, result)
        PROVE  NothingReported
    BY <1>3, <1>4 DEF NothingReported
  <1>5. ASSUME NEW o \in Applies, NEW to, to \notin {"applied", "rolled-back"}, Now(o, to)
        PROVE  NothingReported
    BY <1>1, <1>5 DEF Now, NothingReported, OpRecords
  <1>6. ASSUME NEW o \in Applies, HandoffFails(o) PROVE NothingReported
    BY <1>4, <1>5, <1>6 DEF HandoffFails
  <1>7. CASE UNCHANGED asOp
    BY <1>7 DEF OutcomeStep
  <1>8. ASSUME NEW o \in Applies, PreflightBegins(o) \/ PreflightIssues(o) PROVE NothingReported
    BY <1>1, <1>5, <1>8 DEF PreflightBegins, PreflightIssues, NothingReported, OpRecords, NewApply
  <1>9. ASSUME NEW o \in Applies, Claim(o) \/ Revalidate(o) \/ RollbackChecked(o) PROVE NothingReported
    BY <1>4, <1>5, <1>9 DEF Claim, Revalidate, RollbackChecked, Checked
  <1>10. ASSUME NEW o \in Applies,
                BackupBegins(o) \/ BackupCopied(o) \/ StagingCopied(o) \/ Mutate(o) \/ PrepareRollback(o)
         PROVE  NothingReported
    <2>1. CASE Returns(o, "rejected")
      BY <1>4, <2>1
    <2>2. CASE asOp' = [asOp EXCEPT ![o] = [ApplyEnded(o, "rejected") EXCEPT !.backup = NoFile]]
      BY <1>1, <2>2 DEF ApplyEnded, NothingReported, OpRecords
    <2>3. CASE /\ ~Returns(o, "rejected")
               /\ ~(asOp' = [asOp EXCEPT ![o] = [ApplyEnded(o, "rejected") EXCEPT !.backup = NoFile]])
      BY <1>1, <1>10, <2>3 DEF BackupBegins, BackupCopied, StagingCopied, Mutate, PrepareRollback,
                               NothingReported, OpRecords
    <2> QED BY <2>1, <2>2, <2>3
  <1>11. ASSUME NEW o \in Applies, Guard(o) \/ CheckTarget(o) \/ ReadBack(o) PROVE NothingReported
    BY <1>5, <1>6, <1>11 DEF Guard, CheckTarget, ReadBack, HandsOn
  <1>12. ASSUME NEW o \in Applies, Replace(o) \/ RollbackBegins(o) \/ RollbackReplaces(o)
         PROVE  NothingReported
    <2>1. CASE HandoffFails(o) \/ Returns(o, "recovery-unverified")
      BY <1>4, <1>6, <2>1
    <2>2. CASE ~(HandoffFails(o) \/ Returns(o, "recovery-unverified"))
      BY <1>1, <1>12, <2>2 DEF Replace, RollbackBegins, RollbackReplaces, NothingReported, OpRecords
    <2> QED BY <2>1, <2>2
  <1>13. ASSUME NEW o \in Applies, Dies(o) PROVE NothingReported
    BY <1>1, <1>13 DEF Dies, NothingReported, OpRecords
  <1>14. ASSUME NEW o \in Applies, VerifyLive(o) PROVE OutcomeStep
    <2>1. CASE HandoffFails(o)
      BY <1>2, <1>6, <2>1
    <2>2. CASE IsStaged(o) /\ Returns(o, "applied")
      <3>1. ~asApart => asOp[o].backup = FileOf(asOp[o].token)
        BY <1>14 DEF VerifyLive, ApplyInv, OpInv, OneInstance, Replacing
      <3>2. ~asApart => asLive = asOp[o].token \cup {o}
        BY <2>2, <3>1 DEF IsStaged, FileOf
      <3> QED BY <1>3, <2>2, <3>2 DEF OutcomeStep
    <2> QED BY <1>14, <2>1, <2>2 DEF VerifyLive
  <1>15. ASSUME NEW o \in Applies, RollbackVerified(o) PROVE OutcomeStep
    <2>1. CASE Returns(o, "recovery-unverified")
      BY <1>2, <1>4, <2>1
    <2>2. CASE SameGeneration(o) /\ Returns(o, "rolled-back")
      BY <1>3, <2>2 DEF SameGeneration, OutcomeStep
    <2> QED BY <1>15, <2>1, <2>2 DEF RollbackVerified
  <1>16. CASE BoxStarts \/ BoxEnds \/ (\E e \in BoxEdits : BoxWrites(e)) \/ UNCHANGED applyVars
    BY <1>7, <1>16 DEF BoxStarts, BoxEnds, BoxWrites, applyVars
  <1> QED BY <1>2, <1>8, <1>9, <1>10, <1>11, <1>12, <1>13, <1>14, <1>15, <1>16 DEF ApplyNext

\* An outcome that is reported is what was last seen of master.db: with one instance,
\* the plan on top of the preflight's generation, or that generation restored.
THEOREM OutcomesAreTrue == ApplySpec => OutcomeIsTrue
  <1>1. ApplyInv /\ [ApplyNext]_applyVars => [OutcomeStep]_applyVars
    BY OutcomesHold
  <1> QED BY <1>1, ApplyInitInv, ApplyStepInv, PTL DEF ApplySpec, OutcomeIsTrue, OutcomeStep
-----------------------------------------------------------------------------
(* The genres of the tracks (CuePointsView.tsx, trackMetadataDrafts.ts).   *)

\* The sets of GenreTypeOK, by name.
GenreLocals == [genre : [GenreTracks -> Genres], gen : 0 .. MaxLocalGen]
GenrePages ==
  [status : {"loading", "loaded"}, rows : [GenreTracks -> DraftRows], blocked : BOOLEAN,
   busy : GenreRuns \cup {NoGenreRun}, ready : BOOLEAN, token : 0 .. MaxLocalGen, recovering : BOOLEAN]
GenreRunRecords ==
  [kind : {"none", "preflight", "apply", "recovery"}, at : {"page", "other", "closed"},
   pc : {"idle", "asking", "checking", "fetching", "writing", "outcomes", "receipts",
         "finalizing", "refailing", "verifying", "refreshing"},
   drafts : [GenreTracks -> Drafts], token : 0 .. MaxLocalGen, op : 0 .. MaxGenreOps,
   mark : {"none", "rejected"} \cup Locks, todo : SUBSET GenreTracks, failed : SUBSET GenreTracks]
OpTracks == (1 .. MaxGenreOps) \X GenreTracks
VerifiedSets == SUBSET ((1 .. MaxGenreOps) \X GenreTracks \X Genres)
ReceiptStates == [OpTracks -> {"none", "kept", "over"}]

GenreTyped ==
  /\ gdRow \in [GenreTracks -> DraftRows] /\ gdCloud \in [GenreTracks -> Genres]
  /\ gdLocal \in GenreLocals /\ gdPage \in GenrePages /\ gdSaves \in [GenreTracks -> Edits]
  /\ gdRun \in [GenreRuns -> GenreRunRecords] /\ gdAsked \in 0 .. MaxGenreOps
  /\ gdVerified \in VerifiedSets /\ gdReceipts \in ReceiptStates

\* A row that waits for its finalization names an operation that wrote its value to
\* Rekordbox, and whose receipt for the track was recorded.
RowHasReceipt(t, row, verified, receipts) ==
  row.state \in {"pending", "failed"} =>
    /\ row.op \in 1 .. MaxGenreOps /\ <<row.op, t, row.value>> \in verified
    /\ receipts[<<row.op, t>>] # "none"

GenreRowKept(t, row, cloud, verified, receipts) ==
  /\ row.rev = 0 => row = NoRow
  /\ row.rev > 0 => row.base = cloud
  /\ row.state = "applied" => <<row.op, t, row.base>> \in verified
  /\ RowHasReceipt(t, row, verified, receipts)

InRun(run) == {t \in GenreTracks : run.drafts[t].rev > 0}

\* Before it writes, a run will write every draft it holds.  With receipts to record or
\* to use, its operation wrote each of them; of those that are answered without a
\* failure, and when it finalizes of all, there is a receipt.
GenreRunKept(run, verified, receipts) ==
  /\ run.pc \in {"asking", "checking", "fetching", "writing"} => InRun(run) \subseteq run.todo /\ run.failed = {}
  /\ run.pc \in {"outcomes", "receipts", "finalizing", "refailing", "verifying"} => run.op \in 1 .. MaxGenreOps
  /\ run.pc = "outcomes" => run.mark \in {"rejected", "unverified"}
  /\ run.pc = "receipts" => run.mark = "pending"
  /\ run.pc = "refailing" => run.mark = "failed"
  /\ run.pc \in {"receipts", "finalizing", "refailing", "verifying"} =>
       \A t \in run.todo \cup run.failed \cup InRun(run) : <<run.op, t, run.drafts[t].value>> \in verified
  /\ run.pc = "receipts" => \A t \in InRun(run) \ (run.todo \cup run.failed) : receipts[<<run.op, t>>] # "none"
  /\ run.pc \in {"finalizing", "verifying"} => \A t \in InRun(run) : receipts[<<run.op, t>>] # "none"

ReceiptStands(t, row, receipts) ==
  \A o \in 1 .. MaxGenreOps :
    receipts[<<o, t>>] = "kept" => row.op = o /\ row.state \in {"pending", "failed"}

CloudVerified(t, cloud, verified) ==
  cloud = CanonicalGenre \/ \E o \in 1 .. MaxGenreOps : <<o, t, cloud>> \in verified

GenreTrackKept(t) ==
  /\ GenreRowKept(t, gdRow[t], gdCloud[t], gdVerified, gdReceipts)
  /\ ReceiptStands(t, gdRow[t], gdReceipts)
  /\ CloudVerified(t, gdCloud[t], gdVerified)
  /\ RowHasReceipt(t, gdPage.rows[t], gdVerified, gdReceipts)

GenreInv ==
  /\ GenreTyped
  /\ \A t \in GenreTracks : GenreTrackKept(t)
  /\ \A f \in GenreRuns : GenreRunKept(gdRun[f], gdVerified, gdReceipts)

LEMMA GenreBounds ==
  /\ CanonicalGenre \in Genres /\ NoGenreRun \notin GenreRuns
  /\ MaxGenreRevision \in Nat /\ MaxLocalGen \in Nat /\ MaxGenreOps \in Nat
  BY GenreAssumption

LEMMA GenreTypesAreNamed == GenreTyped <=> GenreTypeOK
  BY DEF GenreTyped, GenreTypeOK, GenreLocals, GenrePages, GenreRunRecords, VerifiedSets, ReceiptStates, OpTracks

LEMMA GenreConstants ==
  /\ NoRow \in DraftRows /\ NoRow.rev = 0 /\ NoRow.op = 0 /\ NoRow.state = "none"
  /\ NoRows \in [GenreTracks -> DraftRows] /\ \A t \in GenreTracks : NoRows[t] = NoRow
  /\ NoEdit \in Edits /\ NoGenreDraft \in Drafts /\ NoGenreDraft.rev = 0
  /\ EmptyList \in GenrePages /\ EmptyList.rows = NoRows
  <1>1. NoRow \in DraftRows /\ NoRow.rev = 0 /\ NoRow.op = 0 /\ NoRow.state = "none"
    BY GenreBounds DEF NoRow, DraftRows
  <1>2. NoRows \in [GenreTracks -> DraftRows] /\ \A t \in GenreTracks : NoRows[t] = NoRow
    BY <1>1 DEF NoRows
  <1>3. NoEdit \in Edits /\ NoGenreDraft \in Drafts /\ NoGenreDraft.rev = 0
    BY GenreBounds DEF NoEdit, Edits, NoGenreDraft, Drafts
  <1>4. EmptyList \in GenrePages /\ EmptyList.rows = NoRows
    BY <1>2, GenreBounds DEF EmptyList, GenrePages
  <1> QED BY <1>1, <1>2, <1>3, <1>4

LEMMA IdleRunFields ==
  /\ IdleRun \in GenreRunRecords /\ IdleRun.pc = "idle" /\ IdleRun.failed = {} /\ IdleRun.todo = {}
  /\ \A t \in GenreTracks : IdleRun.drafts[t] = NoGenreDraft
  BY GenreBounds, GenreConstants DEF IdleRun, GenreRunRecords

\* A run that is over promises nothing.
LEMMA IdleRunKept ==
  ASSUME NEW run, NEW verified, NEW receipts, run.pc \in {"idle", "refreshing"}
  PROVE  GenreRunKept(run, verified, receipts)
  BY DEF GenreRunKept

\* The history only grows, and what it says of a run or a row stays.
LEMMA RunKeptLater ==
  ASSUME NEW run \in GenreRunRecords, NEW verified, NEW receipts, NEW verified2, NEW receipts2,
         GenreRunKept(run, verified, receipts), verified \subseteq verified2,
         \A r \in OpTracks : receipts[r] # "none" => receipts2[r] # "none"
  PROVE  GenreRunKept(run, verified2, receipts2)
  <1>1. \A t \in GenreTracks : run.op \in 1 .. MaxGenreOps => <<run.op, t>> \in OpTracks
    BY DEF OpTracks
  <1>2. \A t \in InRun(run) : t \in GenreTracks
    BY DEF InRun
  <1>3. run.pc = "receipts" => \A t \in InRun(run) \ (run.todo \cup run.failed) : receipts2[<<run.op, t>>] # "none"
    BY <1>1, <1>2 DEF GenreRunKept
  <1>4. run.pc \in {"finalizing", "verifying"} => \A t \in InRun(run) : receipts2[<<run.op, t>>] # "none"
    BY <1>1, <1>2 DEF GenreRunKept
  <1>5. run.pc \in {"receipts", "finalizing", "refailing", "verifying"} =>
          \A t \in run.todo \cup run.failed \cup InRun(run) : <<run.op, t, run.drafts[t].value>> \in verified2
    BY DEF GenreRunKept
  <1> QED BY <1>3, <1>4, <1>5 DEF GenreRunKept

LEMMA RowReceiptLater ==
  ASSUME NEW t \in GenreTracks, NEW row, NEW verified, NEW receipts, NEW verified2, NEW receipts2,
         RowHasReceipt(t, row, verified, receipts), verified \subseteq verified2,
         \A r \in OpTracks : receipts[r] # "none" => receipts2[r] # "none"
  PROVE  RowHasReceipt(t, row, verified2, receipts2)
  BY DEF RowHasReceipt, OpTracks

\* Rows of which as much is known as of the draft rows themselves.
RowsKnown(rows) ==
  /\ rows \in [GenreTracks -> DraftRows]
  /\ \A t \in GenreTracks : RowHasReceipt(t, rows[t], gdVerified, gdReceipts)

PageKnown(page) == page \in GenrePages /\ RowsKnown(page.rows)

RunsKnown(runs) ==
  /\ runs \in [GenreRuns -> GenreRunRecords]
  /\ \A f \in GenreRuns : GenreRunKept(runs[f], gdVerified, gdReceipts)

LEMMA KnownNow == GenreInv => RowsKnown(gdRow) /\ PageKnown(gdPage) /\ RowsKnown(gdPage.rows) /\ RunsKnown(gdRun)
  BY DEF GenreInv, GenreTyped, GenrePages, GenreTrackKept, GenreRowKept, RowsKnown, PageKnown, RunsKnown

\* A step that leaves the drafts, the cloud and the history alone.
LEMMA QuietStep ==
  ASSUME GenreInv, UNCHANGED <<gdRow, gdCloud, gdVerified, gdReceipts>>, PageKnown(gdPage'), RunsKnown(gdRun'),
         gdLocal' \in GenreLocals, gdSaves' \in [GenreTracks -> Edits], gdAsked' \in 0 .. MaxGenreOps
  PROVE  GenreInv'
  <1>1. GenreTyped'
    BY DEF GenreInv, GenreTyped, PageKnown, RunsKnown
  <1>2. \A t \in GenreTracks : GenreTrackKept(t)'
    BY DEF GenreInv, GenreTrackKept, PageKnown, RowsKnown
  <1>3. \A f \in GenreRuns : GenreRunKept(gdRun'[f], gdVerified', gdReceipts')
    BY DEF RunsKnown
  <1> QED BY <1>1, <1>2, <1>3 DEF GenreInv

LEMMA FrameStep ==
  ASSUME GenreInv, RunFrame, PageKnown(gdPage'), RunsKnown(gdRun')
  PROVE  GenreInv'
  BY QuietStep DEF RunFrame, GenreInv, GenreTyped

\* One row changes that is not locked before and after.
LEMMA RowStep ==
  ASSUME GenreInv, NEW t \in GenreTracks, NEW row \in DraftRows, gdRow[t].state \notin Locks, row.state \notin Locks,
         GenreRowKept(t, row, gdCloud[t], gdVerified, gdReceipts), gdRow' = [gdRow EXCEPT ![t] = row],
         UNCHANGED <<gdCloud, gdLocal, gdRun, gdAsked, gdVerified, gdReceipts>>, PageKnown(gdPage'),
         gdSaves' \in [GenreTracks -> Edits]
  PROVE  GenreInv'
  <1>1. GenreTyped'
    BY DEF GenreInv, GenreTyped, PageKnown
  <1>2. \A o \in 1 .. MaxGenreOps : gdReceipts[<<o, t>>] # "kept"
    BY DEF GenreInv, GenreTrackKept, ReceiptStands, Locks
  <1>3. gdRow'[t] = row /\ \A u \in GenreTracks : u # t => gdRow'[u] = gdRow[u]
    BY DEF GenreInv, GenreTyped
  <1>4. ASSUME NEW u \in GenreTracks PROVE GenreTrackKept(u)'
    <2>1. RowHasReceipt(u, gdPage'.rows[u], gdVerified, gdReceipts)
      BY DEF PageKnown, RowsKnown
    <2>2. CASE u = t
      BY <1>2, <1>3, <2>1, <2>2 DEF GenreInv, GenreTrackKept, ReceiptStands
    <2>3. CASE u # t
      BY <1>3, <2>1, <2>3 DEF GenreInv, GenreTrackKept
    <2> QED BY <2>2, <2>3
  <1>5. \A f \in GenreRuns : GenreRunKept(gdRun'[f], gdVerified', gdReceipts')
    BY DEF GenreInv
  <1> QED BY <1>1, <1>4, <1>5 DEF GenreInv

\* One run takes a step, or starts or ends.
LEMMA GenreRunStep ==
  ASSUME GenreInv, NEW f \in GenreRuns, NEW run \in GenreRunRecords, GenreRunKept(run, gdVerified, gdReceipts),
         RunGoes(f, run)
  PROVE  RunsKnown(gdRun')
  BY KnownNow DEF RunsKnown, RunGoes

LEMMA IdleStep == ASSUME GenreInv, NEW f \in GenreRuns, RunGoes(f, IdleRun) PROVE RunsKnown(gdRun')
  BY GenreRunStep, IdleRunFields, IdleRunKept

LEMMA ShownPage ==
  ASSUME NEW page \in GenrePages, NEW rows \in [GenreTracks -> DraftRows]
  PROVE  PageShows(page, rows) \in GenrePages /\ PageShows(page, rows).rows = rows
  <1>1. 0 \in 0 .. MaxLocalGen
    BY GenreBounds
  <1>2. [page EXCEPT !.rows = rows] \in GenrePages /\ [page EXCEPT !.rows = rows].rows = rows
    BY DEF GenrePages
  <1>3. /\ [page EXCEPT !.rows = rows, !.busy = NoGenreRun, !.ready = FALSE, !.token = 0] \in GenrePages
        /\ [page EXCEPT !.rows = rows, !.busy = NoGenreRun, !.ready = FALSE, !.token = 0].rows = rows
    BY <1>1 DEF GenrePages
  <1> QED BY <1>2, <1>3 DEF PageShows

LEMMA RunEndsKeeps ==
  ASSUME GenreInv, NEW f \in GenreRuns, NEW page \in GenrePages, NEW rows, RowsKnown(rows), RunEnds(f, page, rows)
  PROVE  PageKnown(gdPage') /\ RunsKnown(gdRun')
  <1>1. RunsKnown(gdRun')
    BY IdleStep DEF RunEnds
  <1>2. rows \in [GenreTracks -> DraftRows]
    BY DEF RowsKnown
  <1>3. [page EXCEPT !.busy = NoGenreRun, !.recovering = page.recovering /\ gdRun[f].kind # "recovery"] \in GenrePages
    BY DEF GenrePages
  <1>4. \/ gdPage' = gdPage
        \/ \E p \in GenrePages : gdPage' = PageShows(p, rows)
    BY <1>3 DEF RunEnds
  <1> QED BY <1>1, <1>2, <1>4, KnownNow, ShownPage DEF PageKnown

LEMMA PageFields ==
  ASSUME NEW page \in GenrePages, NEW f \in GenreRuns \cup {NoGenreRun}, NEW b \in BOOLEAN
  PROVE  /\ Withdrawn(page) \in GenrePages /\ Withdrawn(page).rows = page.rows
         /\ [page EXCEPT !.busy = f] \in GenrePages /\ [page EXCEPT !.busy = f].rows = page.rows
         /\ [page EXCEPT !.blocked = b] \in GenrePages /\ [page EXCEPT !.blocked = b].rows = page.rows
  <1>1. 0 \in 0 .. MaxLocalGen
    BY GenreBounds
  <1>2. Withdrawn(page) \in GenrePages /\ Withdrawn(page).rows = page.rows
    BY <1>1 DEF GenrePages, Withdrawn
  <1>3. [page EXCEPT !.busy = f] \in GenrePages /\ [page EXCEPT !.busy = f].rows = page.rows
    BY DEF GenrePages
  <1>4. [page EXCEPT !.blocked = b] \in GenrePages /\ [page EXCEPT !.blocked = b].rows = page.rows
    BY DEF GenrePages
  <1> QED BY <1>2, <1>3, <1>4

LEMMA RunForKept ==
  ASSUME NEW rows \in [GenreTracks -> DraftRows], NEW kind \in {"preflight", "apply"}, NEW at \in {"page", "other"},
         NEW pc \in {"asking", "fetching", "writing"}, NEW token \in 0 .. MaxLocalGen, NEW verified, NEW receipts
  PROVE  RunFor(rows, kind, at, pc, token) \in GenreRunRecords
         /\ GenreRunKept(RunFor(rows, kind, at, pc, token), verified, receipts)
  <1> DEFINE run == RunFor(rows, kind, at, pc, token)
  <1>1. ApplyKey(rows) \in [GenreTracks -> Drafts]
    BY GenreConstants DEF ApplyKey, DraftOf, Drafts, DraftRows
  <1>2. ToApply(rows) \subseteq GenreTracks
    BY DEF ToApply
  <1>3. /\ run \in GenreRunRecords /\ run.pc = pc /\ run.todo = ToApply(rows) /\ run.failed = {}
        /\ run.drafts = ApplyKey(rows)
    BY <1>1, <1>2, IdleRunFields DEF RunFor, GenreRunRecords
  <1>4. InRun(run) \subseteq ToApply(rows)
    <2> SUFFICES ASSUME NEW t \in GenreTracks, run.drafts[t].rev > 0 PROVE t \in ToApply(rows)
      BY DEF InRun
    <2>1. run.drafts[t] # NoGenreDraft
      BY GenreConstants
    <2> QED BY <1>3, <2>1 DEF ApplyKey, ToApply
  <1> HIDE DEF run
  <1>5. GenreRunKept(run, verified, receipts)
    BY <1>3, <1>4 DEF GenreRunKept
  <1> QED BY <1>3, <1>5 DEF run

LEMMA RecoveryRunKept ==
  ASSUME NEW t \in GenreTracks, NEW row \in DraftRows, RowHasReceipt(t, row, gdVerified, gdReceipts),
         row.state \in {"pending", "failed"}, NEW at \in {"page", "other"}
  PROVE  Recovery(row, t, at) \in GenreRunRecords /\ GenreRunKept(Recovery(row, t, at), gdVerified, gdReceipts)
  <1> DEFINE run == Recovery(row, t, at)
             drafts == [IdleRun.drafts EXCEPT ![t] = DraftOf(row)]
  <1>1. DraftOf(row) \in Drafts /\ DraftOf(row).value = row.value
    BY DEF DraftOf, Drafts, DraftRows
  <1>2. drafts \in [GenreTracks -> Drafts] /\ drafts[t] = DraftOf(row) /\ \A u \in GenreTracks \ {t} : drafts[u] = NoGenreDraft
    BY <1>1, IdleRunFields DEF GenreRunRecords
  <1> HIDE DEF drafts
  <1>3. run = [IdleRun EXCEPT !.kind = "recovery", !.at = at, !.pc = "verifying", !.op = row.op, !.mark = "failed",
                              !.todo = {t}, !.drafts = drafts]
    BY DEF Recovery, drafts
  <1> HIDE DEF run
  <1>4. row.op \in 0 .. MaxGenreOps
    BY DEF DraftRows
  <1>5. /\ run \in GenreRunRecords /\ run.pc = "verifying" /\ run.op = row.op /\ run.todo = {t} /\ run.failed = {}
        /\ run.drafts = drafts
    BY <1>2, <1>3, <1>4, IdleRunFields DEF GenreRunRecords, Locks
  <1>6. InRun(run) \subseteq {t}
    BY <1>2, <1>5, GenreConstants DEF InRun
  <1>7. GenreRunKept(run, gdVerified, gdReceipts)
    BY <1>1, <1>2, <1>5, <1>6 DEF GenreRunKept, RowHasReceipt
  <1> QED BY <1>5, <1>7 DEF run

\* What the draft's RPCs make of a row that is not locked.
LEMMA EditedRowKept ==
  ASSUME GenreInv, NEW t \in GenreTracks, NEW rev, MayWrite(t, rev), NEW row,
         row = Discarded(t) \/ \E value \in Genres : row = Saved(t, value)
  PROVE  /\ row \in DraftRows /\ GenreRowKept(t, row, gdCloud[t], gdVerified, gdReceipts)
         /\ gdRow[t].state \notin Locks /\ row.state \notin Locks
  <1> DEFINE old == gdRow[t]
             RowStands(new) == /\ new \in DraftRows /\ GenreRowKept(t, new, gdCloud[t], gdVerified, gdReceipts)
                          /\ old.state \notin Locks /\ new.state \notin Locks
  <1>1. /\ old \in DraftRows /\ GenreRowKept(t, old, gdCloud[t], gdVerified, gdReceipts) /\ gdCloud[t] \in Genres
        /\ old.rev < MaxGenreRevision /\ old.state \notin Locks
    BY DEF GenreInv, GenreTyped, GenreTrackKept, MayWrite, Locked
  <1>2. RowStands(NoRow)
    BY <1>1, GenreConstants DEF GenreRowKept, RowHasReceipt, Locks
  <1>3. ASSUME NEW value \in Genres
        PROVE  RowStands([NoRow EXCEPT !.rev = 1, !.value = value, !.base = gdCloud[t]])
    <2> DEFINE new == [NoRow EXCEPT !.rev = 1, !.value = value, !.base = gdCloud[t]]
    <2>1. 1 \in 0 .. MaxGenreRevision
      BY <1>1, GenreBounds DEF DraftRows
    <2>2. new \in DraftRows /\ new.rev = 1 /\ new.base = gdCloud[t] /\ new.state = "none"
      BY <1>1, <2>1, GenreConstants DEF DraftRows
    <2> HIDE DEF new
    <2>3. RowStands(new)
      BY <1>1, <2>2 DEF GenreRowKept, RowHasReceipt, Locks
    <2> QED BY <2>3 DEF new
  <1>4. ASSUME NEW value \in Genres, old.rev > 0
        PROVE  RowStands([old EXCEPT !.rev = old.rev + 1, !.value = value])
    <2> DEFINE new == [old EXCEPT !.rev = old.rev + 1, !.value = value]
    <2>1. old.rev + 1 \in 0 .. MaxGenreRevision /\ old.rev + 1 > 0
      BY <1>1, GenreBounds DEF DraftRows
    <2> HIDE DEF old
    <2>2. /\ new \in DraftRows /\ new.rev = old.rev + 1 /\ new.base = old.base /\ new.state = old.state
          /\ new.op = old.op
      BY <1>1, <2>1 DEF DraftRows
    <2> HIDE DEF new
    <2>3. RowStands(new)
      BY <1>1, <1>4, <2>1, <2>2 DEF GenreRowKept, RowHasReceipt, Locks
    <2> QED BY <2>3 DEF new
  <1>5. old.rev > 0 \/ old.rev = 0
    BY <1>1 DEF DraftRows
  <1>6. old.base \in Genres
    BY <1>1 DEF DraftRows
  <1>7. RowStands(Discarded(t))
    BY <1>2, <1>4, <1>5, <1>6 DEF Discarded
  <1>8. ASSUME NEW value \in Genres PROVE RowStands(Saved(t, value))
    BY <1>2, <1>3, <1>4, <1>5 DEF Saved
  <1> QED BY <1>7, <1>8

LEMMA DraftsLoadedKeeps == ASSUME GenreInv, DraftsLoaded PROVE GenreInv'
  <1>1. PageKnown(gdPage')
    <2>1. [gdPage EXCEPT !.status = "loaded"] \in GenrePages
      BY DEF GenreInv, GenreTyped, GenrePages
    <2> QED BY <2>1, KnownNow, ShownPage DEF DraftsLoaded, PageKnown, RowsKnown
  <1> QED BY <1>1, KnownNow, QuietStep DEF DraftsLoaded, GenreInv, GenreTyped

LEMMA EditAskedKeeps == ASSUME GenreInv, NEW t \in GenreTracks, EditAsked(t) PROVE GenreInv'
  <1>1. gdSaves' \in [GenreTracks -> Edits]
    <2>1. gdPage.rows[t].rev \in 0 .. MaxGenreRevision
      BY DEF GenreInv, GenreTyped, GenrePages, DraftRows
    <2>2. \A value \in Genres : [kind |-> "save", rev |-> gdPage.rows[t].rev, value |-> value] \in Edits
      BY <2>1 DEF Edits
    <2>3. [NoEdit EXCEPT !.kind = "discard", !.rev = gdPage.rows[t].rev] \in Edits
      BY <2>1, GenreConstants DEF Edits
    <2> QED BY <2>2, <2>3 DEF GenreInv, GenreTyped, EditAsked
  <1> QED BY <1>1, KnownNow, QuietStep DEF EditAsked, GenreInv, GenreTyped

LEMMA EditAnsweredKeeps == ASSUME GenreInv, NEW t \in GenreTracks, EditAnswered(t) PROVE GenreInv'
  <1> DEFINE edit == gdSaves[t]
             row == IF edit.kind = "save" THEN Saved(t, edit.value) ELSE Discarded(t)
             shown == [gdPage.rows EXCEPT ![t] = IF edit.kind = "save" THEN row
                                                 ELSE IF gdPage.rows[t].rev = edit.rev THEN NoRow
                                                 ELSE gdPage.rows[t]]
  <1>1. \/ UNCHANGED <<gdRow, gdPage>>
        \/ /\ MayWrite(t, edit.rev) /\ gdRow' = [gdRow EXCEPT ![t] = row]
           /\ gdPage' \in {gdPage, PageShows(gdPage, shown)}
    BY DEF EditAnswered
  <1>2. edit.value \in Genres
    BY DEF GenreInv, GenreTyped, Edits
  <1>3. MayWrite(t, edit.rev) =>
          /\ row \in DraftRows /\ GenreRowKept(t, row, gdCloud[t], gdVerified, gdReceipts)
          /\ gdRow[t].state \notin Locks /\ row.state \notin Locks
    BY <1>2, EditedRowKept
  <1>4. UNCHANGED <<gdCloud, gdLocal, gdRun, gdAsked, gdVerified, gdReceipts>>
        /\ gdSaves' = [gdSaves EXCEPT ![t] = NoEdit]
    BY DEF EditAnswered
  <1> HIDE DEF edit, row
  <1>5. MayWrite(t, edit.rev) => RowsKnown(shown)
    <2>1. RowHasReceipt(t, NoRow, gdVerified, gdReceipts)
      BY GenreConstants DEF RowHasReceipt
    <2> QED BY <1>3, <2>1, KnownNow, GenreConstants DEF RowsKnown, GenreRowKept
  <1> HIDE DEF shown
  <1>6. PageKnown(gdPage')
    BY <1>1, <1>5, KnownNow, ShownPage DEF PageKnown, RowsKnown
  <1>7. gdSaves' \in [GenreTracks -> Edits]
    BY <1>4, GenreConstants DEF GenreInv, GenreTyped
  <1>8. CASE UNCHANGED <<gdRow, gdPage>>
    BY <1>4, <1>6, <1>7, <1>8, KnownNow, QuietStep DEF GenreInv, GenreTyped
  <1>9. CASE MayWrite(t, edit.rev) /\ gdRow' = [gdRow EXCEPT ![t] = row]
    BY <1>3, <1>4, <1>6, <1>7, <1>9, RowStep
  <1> QED BY <1>1, <1>8, <1>9

LEMMA PreflightAllKeeps == ASSUME GenreInv, NEW f \in GenreRuns, PreflightAll(f) PROVE GenreInv'
  <1>1. RunsKnown(gdRun')
    <2>1. 0 \in 0 .. MaxLocalGen
      BY GenreBounds
    <2> QED BY <2>1, KnownNow, RunForKept, GenreRunStep DEF PreflightAll, RowsKnown
  <1>2. PageKnown(gdPage')
    BY KnownNow, PageFields DEF PreflightAll, PageKnown
  <1> QED BY <1>1, <1>2, FrameStep DEF PreflightAll

\* A run goes on with another program counter.
LEMMA RunFields ==
  ASSUME NEW run \in GenreRunRecords,
         NEW pc \in {"checking", "writing", "finalizing", "refreshing"}
  PROVE  /\ [run EXCEPT !.pc = pc] \in GenreRunRecords /\ [run EXCEPT !.pc = pc].pc = pc
         /\ [run EXCEPT !.pc = pc].drafts = run.drafts /\ [run EXCEPT !.pc = pc].op = run.op
         /\ [run EXCEPT !.pc = pc].todo = run.todo /\ [run EXCEPT !.pc = pc].failed = run.failed
         /\ InRun([run EXCEPT !.pc = pc]) = InRun(run)
  BY DEF GenreRunRecords, InRun

LEMMA DraftsReadKeeps == ASSUME GenreInv, NEW f \in GenreRuns, DraftsRead(f) PROVE GenreInv'
  <1>1. CASE RunEnds(f, gdPage, gdPage.rows) \/ RunEnds(f, gdPage, gdRow)
    BY <1>1, KnownNow, RunEndsKeeps, FrameStep DEF DraftsRead, PageKnown
  <1>2. CASE RunGoes(f, [gdRun[f] EXCEPT !.pc = "checking"]) /\ UNCHANGED gdPage
    <2>1. gdRun[f] \in GenreRunRecords /\ gdRun[f].pc = "asking" /\ GenreRunKept(gdRun[f], gdVerified, gdReceipts)
      BY KnownNow DEF RunsKnown, DraftsRead
    <2>2. GenreRunKept([gdRun[f] EXCEPT !.pc = "checking"], gdVerified, gdReceipts)
      BY <2>1, RunFields DEF GenreRunKept
    <2>3. RunsKnown(gdRun')
      BY <1>2, <2>1, <2>2, RunFields, GenreRunStep
    <2> QED BY <1>2, <2>3, KnownNow, FrameStep DEF DraftsRead
  <1> QED BY <1>1, <1>2 DEF DraftsRead

LEMMA PreflightAnsweredKeeps == ASSUME GenreInv, NEW f \in GenreRuns, PreflightAnswered(f) PROVE GenreInv'
  <1>1. gdLocal.gen \in 0 .. MaxLocalGen
    BY DEF GenreInv, GenreTyped, GenreLocals
  <1>2. [gdPage EXCEPT !.ready = TRUE, !.token = gdLocal.gen] \in GenrePages
    BY <1>1, KnownNow DEF PageKnown, GenrePages
  <1>3. PageKnown(gdPage') /\ RunsKnown(gdRun')
    BY <1>2, KnownNow, RunEndsKeeps DEF PreflightAnswered, PageKnown
  <1> QED BY <1>3, FrameStep DEF PreflightAnswered

LEMMA ApplyAllKeeps == ASSUME GenreInv, NEW f \in GenreRuns, ApplyAll(f) PROVE GenreInv'
  <1>1. RunsKnown(gdRun')
    <2>1. gdPage.token \in 0 .. MaxLocalGen
      BY KnownNow DEF PageKnown, GenrePages
    <2> QED BY <2>1, KnownNow, RunForKept, GenreRunStep DEF ApplyAll, RowsKnown
  <1>2. PageKnown(gdPage')
    BY KnownNow, PageFields DEF ApplyAll, PageKnown
  <1> QED BY <1>1, <1>2, FrameStep DEF ApplyAll

LEMMA ApplyReadKeeps == ASSUME GenreInv, NEW f \in GenreRuns, ApplyRead(f) PROVE GenreInv'
  <1>1. /\ gdPage \in GenrePages /\ Withdrawn(gdPage) \in GenrePages
        /\ [Withdrawn(gdPage) EXCEPT !.blocked = TRUE] \in GenrePages
    BY KnownNow, PageFields DEF PageKnown
  <1>2. CASE \E page \in GenrePages, rows \in {gdPage.rows, gdRow} : RunEnds(f, page, rows)
    BY <1>2, KnownNow, RunEndsKeeps, FrameStep DEF ApplyRead
  <1>3. CASE RunGoes(f, [gdRun[f] EXCEPT !.pc = "writing"]) /\ UNCHANGED gdPage
    <2>1. gdRun[f] \in GenreRunRecords /\ gdRun[f].pc = "fetching" /\ GenreRunKept(gdRun[f], gdVerified, gdReceipts)
      BY KnownNow DEF RunsKnown, ApplyRead
    <2>2. GenreRunKept([gdRun[f] EXCEPT !.pc = "writing"], gdVerified, gdReceipts)
      BY <2>1, RunFields DEF GenreRunKept
    <2>3. RunsKnown(gdRun')
      BY <1>3, <2>1, <2>2, RunFields, GenreRunStep
    <2> QED BY <1>3, <2>3, KnownNow, FrameStep DEF ApplyRead
  <1> QED BY <1>1, <1>2, <1>3 DEF ApplyRead

\* A step that adds to the history: each run keeps what it had, and the one that goes
\* on has what it needs.
LEMMA LaterRuns ==
  ASSUME GenreInv, NEW f \in GenreRuns, NEW run \in GenreRunRecords, GenreRunKept(run, gdVerified', gdReceipts'),
         RunGoes(f, run), gdVerified \subseteq gdVerified',
         \A r \in OpTracks : gdReceipts[r] # "none" => gdReceipts'[r] # "none"
  PROVE  /\ gdRun' \in [GenreRuns -> GenreRunRecords]
         /\ \A g \in GenreRuns : GenreRunKept(gdRun'[g], gdVerified', gdReceipts')
  <1>1. \A g \in GenreRuns : gdRun[g] \in GenreRunRecords /\ GenreRunKept(gdRun[g], gdVerified, gdReceipts)
    BY KnownNow DEF RunsKnown
  <1>2. \A g \in GenreRuns : GenreRunKept(gdRun[g], gdVerified', gdReceipts')
    BY <1>1, RunKeptLater
  <1> QED BY <1>1, <1>2, KnownNow DEF RunGoes, RunsKnown

LEMMA BridgeLocal == ASSUME GenreInv, NEW f \in GenreRuns, BridgeWritesAll(f) PROVE gdLocal' \in GenreLocals
  <1>1. \A t \in GenreTracks : gdRun[f].drafts[t].value \in Genres /\ gdLocal.genre[t] \in Genres
    BY DEF GenreInv, GenreTyped, GenreLocals, GenreRunRecords, Drafts
  <1>2. gdLocal.gen + 1 \in 0 .. MaxLocalGen
    BY GenreBounds DEF GenreInv, GenreTyped, GenreLocals, BridgeWritesAll
  <1> QED BY <1>1, <1>2 DEF BridgeWritesAll, GenreLocals

LEMMA GenreWrittenKeeps == ASSUME GenreInv, NEW f \in GenreRuns, GenreWritten(f) PROVE GenreInv'
  <1> DEFINE old == gdRun[f]
             op == gdAsked + 1
  <1>1. /\ old \in GenreRunRecords /\ old.pc = "writing" /\ GenreRunKept(old, gdVerified, gdReceipts)
        /\ InRun(old) \subseteq old.todo /\ old.failed = {} /\ old.todo \subseteq GenreTracks
        /\ \A t \in GenreTracks : old.drafts[t].value \in Genres
    BY KnownNow DEF RunsKnown, GenreWritten, GenreRunKept, GenreRunRecords, Drafts
  <1>2. op \in 1 .. MaxGenreOps /\ op \in 0 .. MaxGenreOps /\ gdAsked' = op
    BY GenreBounds DEF GenreInv, GenreTyped, GenreWritten
  <1>3. gdLocal' \in GenreLocals /\ UNCHANGED <<gdRow, gdCloud, gdSaves, gdReceipts>>
    BY BridgeLocal DEF GenreWritten, GenreInv, GenreTyped
  <1>4. /\ Withdrawn(gdPage) \in GenrePages /\ [Withdrawn(gdPage) EXCEPT !.blocked = TRUE] \in GenrePages
        /\ Withdrawn(gdPage).rows = gdPage.rows
    BY KnownNow, PageFields DEF PageKnown
  <1>5. CASE RunEnds(f, [Withdrawn(gdPage) EXCEPT !.blocked = TRUE], gdPage.rows) /\ UNCHANGED gdVerified
    <2>1. PageKnown(gdPage') /\ RunsKnown(gdRun')
      BY <1>4, <1>5, KnownNow, RunEndsKeeps
    <2> QED BY <1>2, <1>3, <1>5, <2>1, QuietStep DEF GenreInv, GenreTyped
  <1>6. ASSUME NEW answer \in {"verified", "rejected", "unverified"},
               gdVerified' = gdVerified \cup
                 {<<op, t, old.drafts[t].value>> : t \in IF answer = "verified" THEN old.todo ELSE {}},
               RunGoes(f, [old EXCEPT !.op = op, !.token = 0,
                             !.pc = IF HasReceipts(answer) THEN "receipts" ELSE "outcomes",
                             !.mark = IF HasReceipts(answer) THEN "pending" ELSE answer]),
               gdPage' = IF old.at = "page" THEN Withdrawn(gdPage) ELSE gdPage
        PROVE  GenreInv'
    <2> DEFINE run == [old EXCEPT !.op = op, !.token = 0,
                             !.pc = IF HasReceipts(answer) THEN "receipts" ELSE "outcomes",
                             !.mark = IF HasReceipts(answer) THEN "pending" ELSE answer]
    <2>1. 0 \in 0 .. MaxLocalGen
      BY GenreBounds
    <2> HIDE DEF op
    <2>2. /\ run \in GenreRunRecords /\ run.op = op /\ run.todo = old.todo /\ run.failed = {} /\ run.drafts = old.drafts
          /\ \/ answer = "verified" /\ run.pc = "receipts" /\ run.mark = "pending"
             \/ run.pc = "outcomes" /\ run.mark \in {"rejected", "unverified"}
      BY <1>1, <1>2, <2>1 DEF GenreRunRecords, Locks, HasReceipts
    <2> HIDE DEF run, old
    <2>3. InRun(run) \subseteq run.todo
      BY <1>1, <2>2 DEF InRun
    <2>4. GenreRunKept(run, gdVerified', gdReceipts')
      <3>1. CASE answer = "verified" /\ run.pc = "receipts" /\ run.mark = "pending"
        <4>1. \A t \in run.todo \cup run.failed \cup InRun(run) : <<run.op, t, run.drafts[t].value>> \in gdVerified'
          BY <1>6, <2>2, <2>3, <3>1
        <4> QED BY <1>2, <2>2, <2>3, <3>1, <4>1 DEF GenreRunKept
      <3>2. CASE run.pc = "outcomes" /\ run.mark \in {"rejected", "unverified"}
        BY <1>2, <2>2, <3>2 DEF GenreRunKept
      <3> QED BY <2>2, <3>1, <3>2
    <2>5. RunGoes(f, run)
      BY <1>6 DEF run
    <2>6. /\ gdRun' \in [GenreRuns -> GenreRunRecords]
          /\ \A g \in GenreRuns : GenreRunKept(gdRun'[g], gdVerified', gdReceipts')
      BY <1>3, <1>6, <2>2, <2>4, <2>5, LaterRuns
    <2>7. gdVerified' \in VerifiedSets
      BY <1>1, <1>2, <1>6 DEF VerifiedSets, GenreInv, GenreTyped
    <2>8. PageKnown(gdPage')
      BY <1>4, <1>6, KnownNow DEF PageKnown
    <2>9. GenreTyped'
      BY <1>2, <1>3, <2>6, <2>7, <2>8 DEF GenreInv, GenreTyped, PageKnown
    <2>10. ASSUME NEW t \in GenreTracks PROVE GenreTrackKept(t)'
      <3>1. GenreTrackKept(t) /\ gdVerified \subseteq gdVerified'
        BY <1>6 DEF GenreInv
      <3>2. RowHasReceipt(t, gdRow[t], gdVerified', gdReceipts) /\ RowHasReceipt(t, gdPage'.rows[t], gdVerified', gdReceipts)
        BY <2>8, <3>1, RowReceiptLater DEF GenreTrackKept, GenreRowKept, PageKnown, RowsKnown
      <3>3. CloudVerified(t, gdCloud[t], gdVerified')
        BY <3>1 DEF GenreTrackKept, CloudVerified
      <3> QED BY <1>3, <3>1, <3>2, <3>3 DEF GenreTrackKept, GenreRowKept
    <2> QED BY <2>6, <2>9, <2>10 DEF GenreInv
  <1>7. \/ RunEnds(f, [Withdrawn(gdPage) EXCEPT !.blocked = TRUE], gdPage.rows) /\ UNCHANGED gdVerified
        \/ \E answer \in {"verified", "rejected", "unverified"} :
             /\ gdVerified' = gdVerified \cup
                  {<<op, t, old.drafts[t].value>> : t \in IF answer = "verified" THEN old.todo ELSE {}}
             /\ RunGoes(f, [old EXCEPT !.op = op, !.token = 0,
                              !.pc = IF HasReceipts(answer) THEN "receipts" ELSE "outcomes",
                              !.mark = IF HasReceipts(answer) THEN "pending" ELSE answer])
             /\ gdPage' = IF old.at = "page" THEN Withdrawn(gdPage) ELSE gdPage
    BY DEF GenreWritten
  <1> QED BY <1>5, <1>6, <1>7

\* The answer of one RPC arrives, or the track counts as failed.
LEMMA AnsweredKept ==
  ASSUME NEW old \in GenreRunRecords, NEW t \in old.todo, NEW verified, NEW receipts, GenreRunKept(old, verified, receipts),
         old.pc \in {"outcomes", "receipts", "refailing", "finalizing"},
         old.pc = "receipts" => receipts[<<old.op, t>>] # "none"
  PROVE  /\ [old EXCEPT !.todo = old.todo \ {t}] \in GenreRunRecords
         /\ GenreRunKept([old EXCEPT !.todo = old.todo \ {t}], verified, receipts)
  <1> DEFINE run == [old EXCEPT !.todo = old.todo \ {t}]
  <1>1. /\ run \in GenreRunRecords /\ run.pc = old.pc /\ run.op = old.op /\ run.mark = old.mark
        /\ run.drafts = old.drafts /\ run.todo = old.todo \ {t} /\ run.failed = old.failed
    BY DEF GenreRunRecords
  <1> HIDE DEF run
  <1>2. InRun(run) = InRun(old)
    BY <1>1 DEF InRun
  <1>3. run.pc \in {"receipts", "finalizing", "refailing", "verifying"} =>
          \A u \in run.todo \cup run.failed \cup InRun(run) : <<run.op, u, run.drafts[u].value>> \in verified
    BY <1>1, <1>2 DEF GenreRunKept
  <1>4. run.pc = "receipts" => \A u \in InRun(run) \ (run.todo \cup run.failed) : receipts[<<run.op, u>>] # "none"
    <2> SUFFICES ASSUME old.pc = "receipts", NEW u \in InRun(old) \ ((old.todo \ {t}) \cup old.failed)
                 PROVE  receipts[<<old.op, u>>] # "none"
      BY <1>1, <1>2
    <2>1. CASE u = t
      BY <2>1
    <2>2. CASE u # t
      BY <2>2 DEF GenreRunKept
    <2> QED BY <2>1, <2>2
  <1>5. GenreRunKept(run, verified, receipts)
    BY <1>1, <1>2, <1>3, <1>4 DEF GenreRunKept
  <1> QED BY <1>1, <1>5 DEF run

LEMMA FailedKept ==
  ASSUME NEW old \in GenreRunRecords, NEW t \in old.todo, NEW verified, NEW receipts, GenreRunKept(old, verified, receipts),
         old.pc \in {"outcomes", "receipts", "refailing", "finalizing"}
  PROVE  /\ [old EXCEPT !.todo = old.todo \ {t}, !.failed = old.failed \cup {t}] \in GenreRunRecords
         /\ GenreRunKept([old EXCEPT !.todo = old.todo \ {t}, !.failed = old.failed \cup {t}], verified, receipts)
  <1> DEFINE run == [old EXCEPT !.todo = old.todo \ {t}, !.failed = old.failed \cup {t}]
  <1>1. /\ run \in GenreRunRecords /\ run.pc = old.pc /\ run.op = old.op /\ run.mark = old.mark
        /\ run.drafts = old.drafts /\ run.todo = old.todo \ {t} /\ run.failed = old.failed \cup {t}
    BY DEF GenreRunRecords
  <1> HIDE DEF run
  <1>2. InRun(run) = InRun(old) /\ run.todo \cup run.failed = old.todo \cup old.failed
    BY <1>1 DEF InRun
  <1>3. GenreRunKept(run, verified, receipts)
    BY <1>1, <1>2 DEF GenreRunKept
  <1> QED BY <1>1, <1>3 DEF run

\* A step that changes nothing but one run's account of an RPC.
LEMMA LostAnswerKeeps ==
  ASSUME GenreInv, NEW f \in GenreRuns, NEW t \in gdRun[f].todo, Failed(f, t),
         gdRun[f].pc \in {"outcomes", "receipts", "refailing", "finalizing"},
         UNCHANGED <<gdRow, gdCloud, gdLocal, gdPage, gdSaves, gdAsked, gdVerified, gdReceipts>>
  PROVE  GenreInv'
  <1>1. gdRun[f] \in GenreRunRecords /\ GenreRunKept(gdRun[f], gdVerified, gdReceipts)
    BY KnownNow DEF RunsKnown
  <1>2. RunsKnown(gdRun')
    BY <1>1, FailedKept, GenreRunStep DEF Failed
  <1> QED BY <1>2, KnownNow, FrameStep DEF RunFrame

\* A step of one run that changes a track's row, its cloud genre and its receipts.
LEMMA HistoryStep ==
  ASSUME GenreInv, NEW f \in GenreRuns, NEW run \in GenreRunRecords, GenreRunKept(run, gdVerified, gdReceipts'),
         RunGoes(f, run), NEW t \in GenreTracks, NEW row \in DraftRows, NEW cloud \in Genres,
         gdRow' = [gdRow EXCEPT ![t] = row], gdCloud' = [gdCloud EXCEPT ![t] = cloud],
         gdReceipts' \in ReceiptStates, \A r \in OpTracks : gdReceipts[r] # "none" => gdReceipts'[r] # "none",
         \A r \in OpTracks : r[2] # t => gdReceipts'[r] = gdReceipts[r],
         GenreRowKept(t, row, cloud, gdVerified, gdReceipts'), ReceiptStands(t, row, gdReceipts'),
         CloudVerified(t, cloud, gdVerified), UNCHANGED <<gdLocal, gdPage, gdSaves, gdAsked, gdVerified>>
  PROVE  GenreInv'
  <1>1. /\ gdRun' \in [GenreRuns -> GenreRunRecords]
        /\ \A g \in GenreRuns : GenreRunKept(gdRun'[g], gdVerified', gdReceipts')
    BY LaterRuns
  <1>2. GenreTyped'
    BY <1>1 DEF GenreInv, GenreTyped
  <1>3. /\ gdRow'[t] = row /\ \A u \in GenreTracks : u # t => gdRow'[u] = gdRow[u]
        /\ gdCloud'[t] = cloud /\ \A u \in GenreTracks : u # t => gdCloud'[u] = gdCloud[u]
    BY DEF GenreInv, GenreTyped
  <1>4. ASSUME NEW u \in GenreTracks PROVE GenreTrackKept(u)'
    <2>1. GenreTrackKept(u)
      BY DEF GenreInv
    <2>2. RowHasReceipt(u, gdPage'.rows[u], gdVerified', gdReceipts')
      BY <2>1, RowReceiptLater DEF GenreTrackKept
    <2>3. CASE u = t
      BY <1>3, <2>2, <2>3 DEF GenreTrackKept
    <2>4. CASE u # t
      <3>1. RowHasReceipt(u, gdRow[u], gdVerified', gdReceipts')
        BY <2>1, RowReceiptLater DEF GenreTrackKept, GenreRowKept
      <3>2. \A o \in 1 .. MaxGenreOps : gdReceipts'[<<o, u>>] = gdReceipts[<<o, u>>]
        BY <2>4 DEF OpTracks
      <3>3. ReceiptStands(u, gdRow[u], gdReceipts')
        BY <2>1, <3>2 DEF GenreTrackKept, ReceiptStands
      <3> QED BY <1>3, <2>1, <2>2, <2>4, <3>1, <3>3 DEF GenreTrackKept, GenreRowKept
    <2> QED BY <2>3, <2>4
  <1> QED BY <1>1, <1>2, <1>4 DEF GenreInv

LEMMA OutcomeMarkedKeeps == ASSUME GenreInv, NEW f \in GenreRuns, NEW t \in GenreTracks, OutcomeMarked(f, t) PROVE GenreInv'
  <1> DEFINE old == gdRun[f]
             row == [gdRow[t] EXCEPT !.state = old.mark, !.op = old.op]
  <1>1. /\ old \in GenreRunRecords /\ GenreRunKept(old, gdVerified, gdReceipts) /\ t \in old.todo
        /\ old.pc \in {"outcomes", "receipts", "refailing"} /\ old.op \in 1 .. MaxGenreOps
        /\ UNCHANGED <<gdCloud, gdLocal, gdPage, gdSaves, gdAsked, gdVerified>>
        /\ gdRow \in [GenreTracks -> DraftRows] /\ gdCloud \in [GenreTracks -> Genres] /\ gdReceipts \in ReceiptStates
        /\ GenreTrackKept(t)
    BY KnownNow DEF RunsKnown, OutcomeMarked, GenreRunKept, GenreInv, GenreTyped
  <1>2. CASE Failed(f, t) /\ UNCHANGED <<gdRow, gdReceipts>>
    BY <1>1, <1>2, LostAnswerKeeps
  <1>3. ASSUME MayMark(t, old.drafts[t], old.op, old.mark), Mark(t, old.op, old.mark), Answered(f, t) \/ Failed(f, t)
        PROVE  GenreInv'
    <2>1. /\ \/ old.pc = "outcomes" /\ old.mark \in {"rejected", "unverified"}
             \/ old.pc \in {"receipts", "refailing"} /\ old.mark \in {"pending", "failed"}
                /\ <<old.op, t, old.drafts[t].value>> \in gdVerified
          /\ old.pc = "receipts" => old.mark = "pending"
      BY <1>1 DEF GenreRunKept
    <2>2. old.drafts[t].value = gdRow[t].value /\ gdRow[t].rev > 0
      BY <1>3 DEF MayMark, DraftOf
    <2> HIDE DEF old
    <2>3. /\ row \in DraftRows /\ row.state = old.mark /\ row.op = old.op /\ row.rev = gdRow[t].rev
          /\ row.value = gdRow[t].value /\ row.base = gdRow[t].base
      <3>1. gdRow[t] \in DraftRows /\ old.op \in 0 .. MaxGenreOps
        BY <1>1, GenreBounds
      <3>2. old.mark \in {"none", "rejected", "applied"} \cup Locks
        BY <2>1 DEF Locks
      <3> QED BY <3>1, <3>2 DEF DraftRows, row
    <2>4. gdRow' = [gdRow EXCEPT ![t] = row] /\ gdCloud' = [gdCloud EXCEPT ![t] = gdCloud[t]]
      BY <1>1, <1>3 DEF Mark, old, row
    <2> HIDE DEF row
    <2>5. \A r \in OpTracks : gdReceipts'[r] =
            IF r = <<old.op, t>> /\ old.mark \in {"pending", "failed"} THEN "kept"
            ELSE IF r[2] = t /\ r[1] # old.op /\ gdReceipts[r] = "kept" THEN "over"
            ELSE gdReceipts[r]
      BY <1>1, <1>3 DEF Mark, ReceiptStates
    <2>6. gdReceipts' \in ReceiptStates
      <3>1. gdReceipts' = [r \in OpTracks |-> gdReceipts'[r]]
        BY <1>1, <1>3 DEF Mark, ReceiptStates
      <3>2. \A r \in OpTracks : gdReceipts'[r] \in {"none", "kept", "over"}
        BY <1>1, <2>5 DEF ReceiptStates
      <3> QED BY <3>1, <3>2 DEF ReceiptStates
    <2>7. \A r \in OpTracks : gdReceipts[r] # "none" => gdReceipts'[r] # "none"
      BY <2>5
    <2>8. \A r \in OpTracks : r[2] # t => gdReceipts'[r] = gdReceipts[r]
      BY <2>5
    <2>9. old.mark \in {"pending", "failed"} => gdReceipts'[<<old.op, t>>] # "none"
      BY <1>1, <2>5 DEF OpTracks
    <2>10. GenreRowKept(t, row, gdCloud[t], gdVerified, gdReceipts')
      BY <1>1, <2>1, <2>2, <2>3, <2>9 DEF GenreRowKept, RowHasReceipt, GenreTrackKept
    <2>11. ReceiptStands(t, row, gdReceipts')
      <3> SUFFICES ASSUME NEW o \in 1 .. MaxGenreOps, gdReceipts'[<<o, t>>] = "kept"
                   PROVE  row.op = o /\ row.state \in {"pending", "failed"}
        BY DEF ReceiptStands
      <3>1. <<o, t>> \in OpTracks /\ <<o, t>>[1] = o /\ <<o, t>>[2] = t
        BY DEF OpTracks
      <3>2. o = old.op
        BY <2>5, <3>1
      <3>3. CASE old.mark \in {"pending", "failed"}
        BY <2>3, <3>2, <3>3
      <3>4. CASE old.mark \in {"rejected", "unverified"}
        <4>1. gdReceipts[<<o, t>>] = "kept"
          BY <2>5, <3>1, <3>2, <3>4
        <4>2. gdRow[t].op = old.op /\ gdRow[t].state \in {"pending", "failed"}
          BY <1>1, <3>2, <4>1 DEF GenreTrackKept, ReceiptStands
        <4> QED BY <1>3, <3>4, <4>2 DEF MayMark
      <3> QED BY <2>1, <3>3, <3>4
    <2>12. GenreRunKept(old, gdVerified, gdReceipts')
      BY <1>1, <2>7, RunKeptLater
    <2>13. PICK run \in GenreRunRecords : RunGoes(f, run) /\ GenreRunKept(run, gdVerified, gdReceipts')
      <3>1. old.pc = "receipts" => gdReceipts'[<<old.op, t>>] # "none"
        BY <2>1, <2>9
      <3>2. CASE Answered(f, t)
        <4>1. RunGoes(f, [old EXCEPT !.todo = old.todo \ {t}])
          BY <3>2 DEF Answered, old
        <4> QED BY <1>1, <2>12, <3>1, <4>1, AnsweredKept
      <3>3. CASE Failed(f, t)
        <4>1. RunGoes(f, [old EXCEPT !.todo = old.todo \ {t}, !.failed = old.failed \cup {t}])
          BY <3>3 DEF Failed, old
        <4> QED BY <1>1, <2>12, <4>1, FailedKept
      <3> QED BY <1>3, <3>2, <3>3
    <2>14. CloudVerified(t, gdCloud[t], gdVerified) /\ gdCloud[t] \in Genres
      BY <1>1 DEF GenreTrackKept
    <2> QED BY <1>1, <2>3, <2>4, <2>6, <2>7, <2>8, <2>10, <2>11, <2>13, <2>14, HistoryStep
  <1> QED BY <1>2, <1>3 DEF OutcomeMarked

LEMMA TrackFinalizedKeeps == ASSUME GenreInv, NEW f \in GenreRuns, NEW t \in GenreTracks, TrackFinalized(f, t) PROVE GenreInv'
  <1> DEFINE old == gdRun[f]
             row == [gdRow[t] EXCEPT !.base = old.drafts[t].value, !.state = "applied"]
  <1>1. /\ old \in GenreRunRecords /\ GenreRunKept(old, gdVerified, gdReceipts) /\ t \in old.todo
        /\ old.pc = "finalizing" /\ old.op \in 1 .. MaxGenreOps
        /\ UNCHANGED <<gdLocal, gdPage, gdSaves, gdAsked, gdVerified>>
        /\ gdRow \in [GenreTracks -> DraftRows] /\ gdCloud \in [GenreTracks -> Genres] /\ gdReceipts \in ReceiptStates
        /\ GenreTrackKept(t)
    BY KnownNow DEF RunsKnown, TrackFinalized, GenreRunKept, GenreInv, GenreTyped
  <1>2. CASE Failed(f, t) /\ UNCHANGED <<gdRow, gdCloud, gdReceipts>>
    BY <1>1, <1>2, LostAnswerKeeps
  <1>3. CASE Answered(f, t) /\ UNCHANGED <<gdRow, gdCloud, gdReceipts>>
    <2>1. RunsKnown(gdRun')
      BY <1>1, <1>3, AnsweredKept, GenreRunStep DEF Answered
    <2> QED BY <1>1, <1>3, <2>1, KnownNow, FrameStep DEF RunFrame
  <1>4. ASSUME MayFinalize(t, old.drafts[t], old.op), Finalize(t, old.drafts[t], old.op), Answered(f, t) \/ Failed(f, t)
        PROVE  GenreInv'
    <2>1. /\ old.drafts[t].value = gdRow[t].value /\ gdRow[t].op = old.op /\ gdRow[t].rev = old.drafts[t].rev
          /\ gdRow[t].value \in Genres /\ gdRow[t] \in DraftRows /\ gdRow[t].state \in {"pending", "failed"}
      BY <1>1, <1>4 DEF MayFinalize, DraftOf, DraftRows
    <2>2. <<old.op, t, gdRow[t].value>> \in gdVerified
      BY <1>1, <2>1 DEF GenreRunKept
    <2>3. /\ row \in DraftRows /\ row.state = "applied" /\ row.op = old.op /\ row.rev = gdRow[t].rev
          /\ row.base = gdRow[t].value
      BY <2>1 DEF DraftRows
    <2>4. gdRow' = [gdRow EXCEPT ![t] = row] /\ gdCloud' = [gdCloud EXCEPT ![t] = gdRow[t].value]
      BY <1>1, <1>4, <2>1 DEF Finalize
    <2> HIDE DEF row
    <2>5. <<old.op, t>> \in OpTracks /\ gdReceipts' = [gdReceipts EXCEPT ![<<old.op, t>>] = "over"]
      BY <1>1, <1>4 DEF OpTracks, Finalize
    <2>6. /\ gdReceipts' \in ReceiptStates
          /\ \A r \in OpTracks : gdReceipts'[r] = IF r = <<old.op, t>> THEN "over" ELSE gdReceipts[r]
      BY <1>1, <2>5 DEF ReceiptStates
    <2>7. \A r \in OpTracks : gdReceipts[r] # "none" => gdReceipts'[r] # "none"
      BY <2>6
    <2>8. \A r \in OpTracks : r[2] # t => gdReceipts'[r] = gdReceipts[r]
      BY <2>6
    <2>9. gdRow[t].rev # 0
      <3>1. gdRow[t].rev = 0 => gdRow[t] = NoRow
        BY <1>1 DEF GenreTrackKept, GenreRowKept
      <3> QED BY <2>1, <3>1, GenreConstants
    <2>10. GenreRowKept(t, row, gdRow[t].value, gdVerified, gdReceipts')
      BY <2>2, <2>3, <2>9 DEF GenreRowKept, RowHasReceipt
    <2>11. ReceiptStands(t, row, gdReceipts')
      <3> SUFFICES ASSUME NEW o \in 1 .. MaxGenreOps, gdReceipts'[<<o, t>>] = "kept" PROVE FALSE
        BY DEF ReceiptStands
      <3>1. <<o, t>> \in OpTracks
        BY DEF OpTracks
      <3>2. o # old.op /\ gdReceipts[<<o, t>>] = "kept"
        BY <2>6, <3>1
      <3> QED BY <1>1, <2>1, <3>2 DEF GenreTrackKept, ReceiptStands
    <2>12. GenreRunKept(old, gdVerified, gdReceipts')
      BY <1>1, <2>7, RunKeptLater
    <2>13. PICK run \in GenreRunRecords : RunGoes(f, run) /\ GenreRunKept(run, gdVerified, gdReceipts')
      <3> HIDE DEF old
      <3>1. CASE Answered(f, t)
        <4>1. RunGoes(f, [old EXCEPT !.todo = old.todo \ {t}])
          BY <3>1 DEF Answered, old
        <4> QED BY <1>1, <2>12, <4>1, AnsweredKept
      <3>2. CASE Failed(f, t)
        <4>1. RunGoes(f, [old EXCEPT !.todo = old.todo \ {t}, !.failed = old.failed \cup {t}])
          BY <3>2 DEF Failed, old
        <4> QED BY <1>1, <2>12, <4>1, FailedKept
      <3> QED BY <1>4, <3>1, <3>2
    <2>14. CloudVerified(t, gdRow[t].value, gdVerified)
      BY <1>1, <2>2 DEF CloudVerified
    <2> QED BY <1>1, <2>1, <2>3, <2>4, <2>6, <2>7, <2>8, <2>10, <2>11, <2>13, <2>14, HistoryStep
  <1> QED BY <1>2, <1>3, <1>4 DEF TrackFinalized

LEMMA RefreshesKept ==
  ASSUME GenreInv, NEW f \in GenreRuns
  PROVE  Refreshes(f) \in GenreRunRecords /\ GenreRunKept(Refreshes(f), gdVerified, gdReceipts)
  <1>1. gdRun[f] \in GenreRunRecords
    BY KnownNow DEF RunsKnown
  <1>2. [gdRun[f] EXCEPT !.pc = "refreshing"] \in GenreRunRecords /\ [gdRun[f] EXCEPT !.pc = "refreshing"].pc = "refreshing"
    BY <1>1 DEF GenreRunRecords
  <1>3. Refreshes(f) \in GenreRunRecords /\ Refreshes(f).pc \in {"idle", "refreshing"}
    BY <1>2, IdleRunFields DEF Refreshes
  <1> QED BY <1>3, IdleRunKept

LEMMA OutcomesRecordedKeeps == ASSUME GenreInv, NEW f \in GenreRuns, OutcomesRecorded(f) PROVE GenreInv'
  <1> DEFINE old == gdRun[f]
             run == [old EXCEPT !.pc = "finalizing", !.todo = Covered(f)]
  <1>1. /\ old \in GenreRunRecords /\ GenreRunKept(old, gdVerified, gdReceipts) /\ RunFrame
        /\ old.pc \in {"outcomes", "receipts", "refailing"} /\ old.todo = {}
    BY KnownNow DEF RunsKnown, OutcomesRecorded
  <1>2. PageKnown(gdPage')
    <2>1. \A b \in BOOLEAN : [gdPage EXCEPT !.blocked = b] \in GenrePages /\ [gdPage EXCEPT !.blocked = b].rows = gdPage.rows
      BY KnownNow, PageFields DEF PageKnown
    <2>2. \E b \in BOOLEAN : gdPage' = [gdPage EXCEPT !.blocked = b] \/ gdPage' = gdPage
      BY KnownNow DEF OutcomesRecorded, PageKnown, GenrePages
    <2> QED BY <2>1, <2>2, KnownNow DEF PageKnown
  <1>3. CASE RunGoes(f, Refreshes(f))
    <2>1. RunsKnown(gdRun')
      BY <1>3, RefreshesKept, GenreRunStep
    <2> QED BY <1>1, <1>2, <2>1, FrameStep
  <1>4. CASE old.pc = "receipts" /\ AllReceiptsKept(f) /\ RunGoes(f, run)
    <2>1. old.failed = {} /\ Covered(f) = InRun(old)
      BY <1>4 DEF AllReceiptsKept, Covered, InRun
    <2> HIDE DEF old
    <2>2. /\ run \in GenreRunRecords /\ run.pc = "finalizing" /\ run.todo = InRun(old) /\ run.failed = {}
          /\ run.op = old.op /\ run.drafts = old.drafts
      BY <1>1, <2>1 DEF GenreRunRecords, InRun
    <2> HIDE DEF run
    <2>3. InRun(run) = InRun(old)
      BY <2>2 DEF InRun
    <2>4. GenreRunKept(run, gdVerified, gdReceipts)
      BY <1>1, <1>4, <2>1, <2>2, <2>3 DEF GenreRunKept
    <2>5. RunsKnown(gdRun')
      BY <1>4, <2>2, <2>4, GenreRunStep
    <2> QED BY <1>1, <1>2, <2>5, FrameStep
  <1>5. \/ RunGoes(f, Refreshes(f))
        \/ old.pc = "receipts" /\ AllReceiptsKept(f) /\ RunGoes(f, run)
    BY DEF OutcomesRecorded
  <1> QED BY <1>3, <1>4, <1>5

LEMMA FinalizationOverKeeps == ASSUME GenreInv, NEW f \in GenreRuns, FinalizationOver(f) PROVE GenreInv'
  <1> DEFINE old == gdRun[f]
             run == [old EXCEPT !.pc = "refailing", !.mark = "failed", !.todo = old.failed]
  <1>1. /\ old \in GenreRunRecords /\ GenreRunKept(old, gdVerified, gdReceipts) /\ RunFrame /\ UNCHANGED gdPage
        /\ old.pc = "finalizing"
    BY KnownNow DEF RunsKnown, FinalizationOver
  <1>2. CASE RunGoes(f, Refreshes(f))
    <2>1. RunsKnown(gdRun')
      BY <1>2, RefreshesKept, GenreRunStep
    <2> QED BY <1>1, <2>1, KnownNow, FrameStep
  <1>3. CASE RunGoes(f, run)
    <2> HIDE DEF old
    <2>1. /\ run \in GenreRunRecords /\ run.pc = "refailing" /\ run.mark = "failed" /\ run.todo = old.failed
          /\ run.failed = old.failed /\ run.op = old.op /\ run.drafts = old.drafts
      BY <1>1 DEF GenreRunRecords, Locks
    <2> HIDE DEF run
    <2>2. InRun(run) = InRun(old)
      BY <2>1 DEF InRun
    <2>3. GenreRunKept(run, gdVerified, gdReceipts)
      BY <1>1, <2>1, <2>2 DEF GenreRunKept
    <2>4. RunsKnown(gdRun')
      BY <1>3, <2>1, <2>3, GenreRunStep
    <2> QED BY <1>1, <2>4, KnownNow, FrameStep
  <1> QED BY <1>2, <1>3 DEF FinalizationOver

LEMMA RecoveryAskedKeeps == ASSUME GenreInv, NEW f \in GenreRuns, NEW t \in GenreTracks, RecoveryAsked(f, t) PROVE GenreInv'
  <1>1. RunsKnown(gdRun')
    <2>1. /\ gdPage.rows[t] \in DraftRows /\ RowHasReceipt(t, gdPage.rows[t], gdVerified, gdReceipts)
          /\ gdPage.rows[t].state \in {"pending", "failed"}
      BY KnownNow DEF RowsKnown, RecoveryAsked
    <2> QED BY <2>1, RecoveryRunKept, GenreRunStep DEF RecoveryAsked
  <1>2. PageKnown(gdPage')
    <2> DEFINE page == Withdrawn(gdPage)
    <2>1. page \in GenrePages /\ page.rows = gdPage.rows
      BY KnownNow, PageFields DEF PageKnown
    <2>2. gdPage' = [page EXCEPT !.busy = f, !.recovering = TRUE, !.blocked = FALSE]
      BY DEF RecoveryAsked
    <2> HIDE DEF page
    <2>3. gdPage' \in GenrePages /\ gdPage'.rows = gdPage.rows
      BY <2>1, <2>2 DEF GenrePages
    <2> QED BY <2>3, KnownNow DEF PageKnown
  <1> QED BY <1>1, <1>2, FrameStep DEF RecoveryAsked

LEMMA RecoveryVerifiedKeeps == ASSUME GenreInv, NEW f \in GenreRuns, RecoveryVerified(f) PROVE GenreInv'
  <1>1. CASE RunEnds(f, [gdPage EXCEPT !.blocked = TRUE], gdPage.rows)
    <2>1. [gdPage EXCEPT !.blocked = TRUE] \in GenrePages
      BY KnownNow, PageFields DEF PageKnown
    <2> QED BY <1>1, <2>1, KnownNow, RunEndsKeeps, FrameStep DEF RecoveryVerified
  <1>2. CASE RunGoes(f, [gdRun[f] EXCEPT !.pc = "finalizing"]) /\ UNCHANGED gdPage
    <2>1. gdRun[f] \in GenreRunRecords /\ gdRun[f].pc = "verifying" /\ GenreRunKept(gdRun[f], gdVerified, gdReceipts)
      BY KnownNow DEF RunsKnown, RecoveryVerified
    <2> DEFINE run == [gdRun[f] EXCEPT !.pc = "finalizing"]
    <2>2. /\ run.pc = "finalizing" /\ run.op = gdRun[f].op /\ run.todo = gdRun[f].todo /\ run.failed = gdRun[f].failed
          /\ run.drafts = gdRun[f].drafts /\ InRun(run) = InRun(gdRun[f])
      BY <2>1, RunFields
    <2> HIDE DEF run
    <2>3. GenreRunKept(run, gdVerified, gdReceipts)
      BY <2>1, <2>2 DEF GenreRunKept
    <2>4. GenreRunKept([gdRun[f] EXCEPT !.pc = "finalizing"], gdVerified, gdReceipts)
      BY <2>3 DEF run
    <2>5. RunsKnown(gdRun')
      BY <1>2, <2>1, <2>4, RunFields, GenreRunStep
    <2> QED BY <1>2, <2>5, KnownNow, FrameStep DEF RecoveryVerified
  <1> QED BY <1>1, <1>2 DEF RecoveryVerified

LEMMA GenresRefreshedKeeps == ASSUME GenreInv, NEW f \in GenreRuns, Refreshed(f) PROVE GenreInv'
  <1>1. \A b \in BOOLEAN : [gdPage EXCEPT !.blocked = b] \in GenrePages
    BY KnownNow, PageFields DEF PageKnown
  <1>2. gdPage.blocked \in BOOLEAN
    BY KnownNow DEF PageKnown, GenrePages
  <1>3. \E page \in GenrePages, rows \in {gdPage.rows, gdRow} : RunEnds(f, page, rows)
    BY <1>1, <1>2 DEF Refreshed
  <1>4. PageKnown(gdPage') /\ RunsKnown(gdRun')
    BY <1>3, KnownNow, RunEndsKeeps
  <1> QED BY <1>4, FrameStep DEF Refreshed

LEMMA OtherEditKeeps == ASSUME GenreInv, NEW t \in GenreTracks, OtherSessionEdits(t) PROVE GenreInv'
  <1>1. PICK row : /\ row = Discarded(t) \/ \E value \in Genres : row = Saved(t, value)
                   /\ gdRow' = [gdRow EXCEPT ![t] = row]
    BY DEF OtherSessionEdits
  <1>2. /\ row \in DraftRows /\ GenreRowKept(t, row, gdCloud[t], gdVerified, gdReceipts)
        /\ gdRow[t].state \notin Locks /\ row.state \notin Locks
    BY <1>1, EditedRowKept DEF OtherSessionEdits
  <1> QED BY <1>1, <1>2, KnownNow, RowStep DEF OtherSessionEdits, GenreInv, GenreTyped

LEMMA OtherAppliesKeeps == ASSUME GenreInv, NEW f \in GenreRuns, OtherSessionApplies(f) PROVE GenreInv'
  <1>1. gdLocal.gen \in 0 .. MaxLocalGen /\ gdRow \in [GenreTracks -> DraftRows]
    BY DEF GenreInv, GenreTyped, GenreLocals
  <1>2. RunsKnown(gdRun')
    BY <1>1, RunForKept, GenreRunStep DEF OtherSessionApplies
  <1> QED BY <1>2, KnownNow, FrameStep DEF OtherSessionApplies

LEMMA OtherRecoversKeeps ==
  ASSUME GenreInv, NEW f \in GenreRuns, NEW t \in GenreTracks, OtherSessionRecovers(f, t)
  PROVE  GenreInv'
  <1>1. /\ gdRow[t] \in DraftRows /\ RowHasReceipt(t, gdRow[t], gdVerified, gdReceipts)
        /\ gdRow[t].state \in {"pending", "failed"}
    BY KnownNow DEF RowsKnown, OtherSessionRecovers
  <1>2. RunsKnown(gdRun')
    BY <1>1, RecoveryRunKept, GenreRunStep DEF OtherSessionRecovers
  <1> QED BY <1>2, KnownNow, FrameStep DEF OtherSessionRecovers

LEMMA GenreChangeKeeps == ASSUME GenreInv, NEW t \in GenreTracks, RekordboxChanges(t) PROVE GenreInv'
  <1>1. gdLocal' \in GenreLocals
    <2>1. gdLocal.genre \in [GenreTracks -> Genres] /\ gdLocal.gen + 1 \in 0 .. MaxLocalGen
      BY GenreBounds DEF GenreInv, GenreTyped, GenreLocals, RekordboxChanges
    <2> QED BY <2>1 DEF GenreLocals, RekordboxChanges
  <1> QED BY <1>1, KnownNow, QuietStep DEF RekordboxChanges, GenreInv, GenreTyped

LEMMA WindowKeeps == ASSUME GenreInv, WindowReloaded PROVE GenreInv'
  <1>1. PageKnown(gdPage')
    BY GenreConstants DEF WindowReloaded, PageKnown, RowsKnown, RowHasReceipt
  <1>2. gdSaves' \in [GenreTracks -> Edits]
    BY GenreConstants DEF WindowReloaded
  <1>3. ASSUME NEW run \in GenreRunRecords, GenreRunKept(run, gdVerified, gdReceipts)
        PROVE  /\ [run EXCEPT !.at = "closed"] \in GenreRunRecords
               /\ GenreRunKept([run EXCEPT !.at = "closed"], gdVerified, gdReceipts)
    <2> DEFINE closed == [run EXCEPT !.at = "closed"]
    <2>1. /\ closed \in GenreRunRecords /\ closed.pc = run.pc /\ closed.op = run.op /\ closed.mark = run.mark
          /\ closed.drafts = run.drafts /\ closed.todo = run.todo /\ closed.failed = run.failed
      BY DEF GenreRunRecords
    <2> HIDE DEF closed
    <2>2. InRun(closed) = InRun(run)
      BY <2>1 DEF InRun
    <2>3. GenreRunKept(closed, gdVerified, gdReceipts)
      BY <1>3, <2>1, <2>2 DEF GenreRunKept
    <2> QED BY <2>1, <2>3 DEF closed
  <1>4. RunsKnown(gdRun')
    <2>1. \A f \in GenreRuns : gdRun'[f] \in {gdRun[f], [gdRun[f] EXCEPT !.at = "closed"], IdleRun}
      BY DEF WindowReloaded
    <2>2. \A f \in GenreRuns : gdRun'[f] \in GenreRunRecords /\ GenreRunKept(gdRun'[f], gdVerified, gdReceipts)
      BY <1>3, <2>1, KnownNow, IdleRunFields, IdleRunKept DEF RunsKnown
    <2>3. gdRun' = [f \in GenreRuns |-> gdRun'[f]]
      BY DEF WindowReloaded
    <2> QED BY <2>2, <2>3 DEF RunsKnown
  <1> QED BY <1>1, <1>2, <1>4, QuietStep DEF WindowReloaded, GenreInv, GenreTyped

LEMMA RunLeftKeeps == ASSUME GenreInv, NEW f \in GenreRuns, RunLeft(f) PROVE GenreInv'
  BY KnownNow, IdleStep, FrameStep DEF RunLeft

LEMMA GenreInitInv == GenreInit => GenreInv
  <1> SUFFICES ASSUME GenreInit PROVE GenreInv
    OBVIOUS
  <1>1. gdRow = NoRows /\ gdRow \in [GenreTracks -> DraftRows] /\ \A t \in GenreTracks : gdRow[t] = NoRow
    BY GenreConstants DEF GenreInit
  <1>2. gdCloud \in [GenreTracks -> Genres] /\ \A t \in GenreTracks : gdCloud[t] = CanonicalGenre
    BY GenreBounds DEF GenreInit
  <1>3. gdLocal \in GenreLocals /\ gdAsked \in 0 .. MaxGenreOps /\ gdVerified \in VerifiedSets
    BY <1>2, GenreBounds DEF GenreInit, GenreLocals, VerifiedSets
  <1>4. gdPage \in GenrePages /\ gdPage.rows = NoRows /\ gdSaves \in [GenreTracks -> Edits]
    BY GenreConstants DEF GenreInit
  <1>5. gdRun \in [GenreRuns -> GenreRunRecords] /\ \A f \in GenreRuns : gdRun[f] = IdleRun
    BY IdleRunFields DEF GenreInit
  <1>6. gdReceipts \in ReceiptStates /\ \A r \in OpTracks : gdReceipts[r] = "none"
    BY DEF GenreInit, ReceiptStates, OpTracks
  <1>7. GenreTyped
    BY <1>1, <1>2, <1>3, <1>4, <1>5, <1>6 DEF GenreTyped
  <1>8. ASSUME NEW t \in GenreTracks PROVE GenreTrackKept(t)
    <2>1. GenreRowKept(t, gdRow[t], gdCloud[t], gdVerified, gdReceipts)
          /\ RowHasReceipt(t, gdPage.rows[t], gdVerified, gdReceipts)
      BY <1>1, <1>4, GenreConstants DEF GenreRowKept, RowHasReceipt
    <2>2. ReceiptStands(t, gdRow[t], gdReceipts)
      BY <1>6 DEF ReceiptStands, OpTracks
    <2> QED BY <1>2, <2>1, <2>2 DEF GenreTrackKept, CloudVerified
  <1>9. \A f \in GenreRuns : GenreRunKept(gdRun[f], gdVerified, gdReceipts)
    BY <1>5, IdleRunFields, IdleRunKept
  <1> QED BY <1>7, <1>8, <1>9 DEF GenreInv

LEMMA GenreStepInv == GenreInv /\ [GenreNext]_genreVars => GenreInv'
  <1> SUFFICES ASSUME GenreInv, [GenreNext]_genreVars PROVE GenreInv'
    OBVIOUS
  <1>1. CASE UNCHANGED genreVars
    BY <1>1, KnownNow, FrameStep DEF genreVars, RunFrame
  <1>2. CASE DraftsLoaded \/ WindowReloaded
    BY <1>2, DraftsLoadedKeeps, WindowKeeps
  <1>3. ASSUME NEW f \in GenreRuns,
               \/ PreflightAll(f) \/ DraftsRead(f) \/ PreflightAnswered(f) \/ ApplyAll(f) \/ ApplyRead(f)
               \/ GenreWritten(f) \/ OutcomesRecorded(f) \/ FinalizationOver(f) \/ RecoveryVerified(f)
               \/ Refreshed(f) \/ OtherSessionApplies(f) \/ RunLeft(f)
        PROVE  GenreInv'
    BY <1>3, PreflightAllKeeps, DraftsReadKeeps, PreflightAnsweredKeeps, ApplyAllKeeps, ApplyReadKeeps,
       GenreWrittenKeeps, OutcomesRecordedKeeps, FinalizationOverKeeps, RecoveryVerifiedKeeps,
       GenresRefreshedKeeps, OtherAppliesKeeps, RunLeftKeeps
  <1>4. ASSUME NEW f \in GenreRuns, NEW t \in GenreTracks,
               OutcomeMarked(f, t) \/ TrackFinalized(f, t) \/ RecoveryAsked(f, t) \/ OtherSessionRecovers(f, t)
        PROVE  GenreInv'
    BY <1>4, OutcomeMarkedKeeps, TrackFinalizedKeeps, RecoveryAskedKeeps, OtherRecoversKeeps
  <1>5. ASSUME NEW t \in GenreTracks,
               EditAsked(t) \/ EditAnswered(t) \/ OtherSessionEdits(t) \/ RekordboxChanges(t)
        PROVE  GenreInv'
    BY <1>5, EditAskedKeeps, EditAnsweredKeeps, OtherEditKeeps, GenreChangeKeeps
  <1> QED BY <1>1, <1>2, <1>3, <1>4, <1>5 DEF GenreNext

LEMMA GenreInvMeans == GenreInv => GenreTypeOK /\ ReceiptsComeFirst /\ CloudFollowsRekordbox
  <1> SUFFICES ASSUME GenreInv PROVE GenreTypeOK /\ ReceiptsComeFirst /\ CloudFollowsRekordbox
    OBVIOUS
  <1>1. GenreTypeOK
    BY GenreTypesAreNamed DEF GenreInv
  <1>2. ReceiptsComeFirst
    <2>1. \A f \in GenreRuns : gdRun[f].pc = "finalizing" => \A t \in Covered(f) : gdReceipts[<<gdRun[f].op, t>>] # "none"
      BY DEF GenreInv, GenreRunKept, Covered, InRun
    <2> QED BY <2>1 DEF ReceiptsComeFirst, GenreInv, GenreTrackKept, ReceiptStands
  <1>3. CloudFollowsRekordbox
    BY DEF CloudFollowsRekordbox, GenreInv, GenreTrackKept, GenreRowKept, CloudVerified
  <1> QED BY <1>1, <1>2, <1>3

\* While a run of the page, or of another session, finalizes, every track that it covers has
\* had its receipt recorded, and a recorded receipt stays until the track is finalized or
\* another operation is marked for the same draft: for any number of tracks, of runs that
\* overlap and of operations, whatever answers are lost and windows closed.
THEOREM ReceiptsPrecedeFinalization == GenreSpec => []ReceiptsComeFirst
  BY GenreInitInv, GenreStepInv, GenreInvMeans, PTL DEF GenreSpec

\* The cloud only has genres that the bridge reported as written and verified for the track,
\* an applied draft names the operation that wrote it, and the baseline of a draft is the
\* cloud's genre, although rejected, unverified and lost operations are marked too.
THEOREM CloudGenresWereWritten == GenreSpec => []CloudFollowsRekordbox
  BY GenreInitInv, GenreStepInv, GenreInvMeans, PTL DEF GenreSpec

===============================================================================
