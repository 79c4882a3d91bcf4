------------------------------ MODULE CueDrafts ------------------------------
(***************************************************************************)
(* The cue points of one track, from the editor to the saved draft to the  *)
(* local Rekordbox database: src/components/cues/CuePointsView.tsx with    *)
(* src/lib/cues/cueBaselineLoader.ts and src/lib/queries/cueDrafts.ts.     *)
(*                                                                         *)
(* The draft row (its RPCs check the revision), the Rekordbox database and *)
(* the bridge that applies a draft to it are what the page sees of them.   *)
(* Another session of the user saves drafts, and Rekordbox edits cues.     *)
(* A cue set stands for its document and for both of its fingerprints.     *)
(***************************************************************************)
EXTENDS Naturals, FiniteSets

CONSTANTS CueSets, Imported, NoCues,
          MaxRevision, MaxGeneration,
          MaxLoads, MaxSaves   \* under way together

ASSUME CueAssumption == /\ Imported \in CueSets /\ NoCues \notin CueSets
                        /\ {MaxRevision, MaxGeneration, MaxLoads, MaxSaves} \subseteq Nat

VARIABLES cdRow,       \* cue_drafts: the draft of the track, revision 0 for none
          cdLocal,     \* Rekordbox: its cues, its generation, and the imported proof
          cdPage,      \* the editor's refs and state
          cdLoads,     \* loadCueEditorBaseline calls under way
          cdSaves,     \* saveCueDraft calls under way
          cdApply,     \* the Apply flow; current: its generation is the ref's
          cdRecovery,  \* applyRebaseRecovery
          cdWritten,   \* history: what Apply has written to Rekordbox
          cdAcked      \* history: the latest revision the page was told of

cueVars == <<cdRow, cdLocal, cdPage, cdLoads, cdSaves, cdApply, cdRecovery, cdWritten, cdAcked>>

Cues == CueSets \cup {NoCues}
Rows == [rev : 0 .. MaxRevision, desired : Cues, base : Cues, local : Cues,
         applied : 0 .. MaxRevision]

CueTypeOK ==
  /\ cdRow \in Rows
  /\ cdLocal \in [cues : CueSets, gen : 0 .. MaxGeneration, proof : Cues]
  /\ cdPage \in [sel : BOOLEAN, status : {"idle", "loading", "loaded", "failed"},
                 rev : 0 .. MaxRevision, saved : Cues, working : Cues,
                 proven : BOOLEAN, saving : BOOLEAN]
  /\ cdLoads \subseteq [current : BOOLEAN, step : {"asked", "read", "failed"}, row : Rows]
  /\ cdSaves \subseteq [current : BOOLEAN, step : {"asked", "saved", "refused"}, rev : 0 .. MaxRevision,
                        cues : CueSets, row : Rows]
  /\ cdApply \in [pc : {"idle", "observing", "enrolling", "refreshing", "checking", "ready",
                        "fetching", "applying", "marking", "marked"},
                  scope : {"track", "all"}, current : BOOLEAN, busy : BOOLEAN, rev : 0 .. MaxRevision,
                  seen : Cues, snap : Rows, token : 0 .. MaxGeneration + 1]
  /\ cdRecovery \in [rev : 0 .. MaxRevision, cues : Cues]
  /\ cdWritten \subseteq [rev : 1 .. MaxRevision, cues : CueSets]
  /\ cdAcked \in 0 .. MaxRevision

NoDraft == [rev |-> 0, desired |-> NoCues, base |-> NoCues, local |-> NoCues, applied |-> 0]
NoToken == MaxGeneration + 1
NoApply == [pc |-> "idle", scope |-> "track", current |-> TRUE, busy |-> FALSE, rev |-> 0,
            seen |-> NoCues, snap |-> NoDraft, token |-> NoToken]
NoRecovery == [rev |-> 0, cues |-> NoCues]
EmptyPage == [sel |-> FALSE, status |-> "idle", rev |-> 0, saved |-> NoCues, working |-> NoCues,
              proven |-> FALSE, saving |-> FALSE]

\* The imported cues are proven by the local database, or came from the ANLZ
\* files alone.
CueInit ==
  /\ cdRow = NoDraft
  /\ cdLocal \in {[cues |-> Imported, gen |-> 0, proof |-> p] : p \in {Imported, NoCues}}
  /\ cdPage = EmptyPage
  /\ cdLoads = {} /\ cdSaves = {}
  /\ cdApply = NoApply /\ cdRecovery = NoRecovery
  /\ cdWritten = {} /\ cdAcked = 0

-----------------------------------------------------------------------------
(* The draft row.                                                          *)

\* save_cue_draft: a proven baseline is kept, a missing one taken from the import.
SavedRow(row, cues) ==
  [row EXCEPT !.rev = @ + 1, !.desired = cues,
              !.base = IF row.local = NoCues THEN Imported ELSE @,
              !.local = IF row.local = NoCues THEN cdLocal.proof ELSE @]

\* cueDraftHasPendingChanges.
Pending(row) == row.rev > 0 /\ row.desired # row.base

-----------------------------------------------------------------------------
(* The editor.                                                             *)

\* The load effect: whatever is under way is no longer this selection's, and
\* what it brings does not matter any more; a save may still be committed.
DisownedLoads == {[l EXCEPT !.current = FALSE, !.step = "read", !.row = NoDraft] : l \in cdLoads}
DisownedSaves == {[s EXCEPT !.current = FALSE] : s \in {c \in cdSaves : c.step = "asked"}}
NewLoad == [current |-> TRUE, step |-> "asked", row |-> NoDraft]

TrackSelected(sel) ==
  /\ sel # cdPage.sel \/ cdPage.status = "failed"
  /\ sel => Cardinality(cdLoads) < MaxLoads
  /\ cdPage' = [EmptyPage EXCEPT !.sel = sel, !.status = IF sel THEN "loading" ELSE "idle"]
  /\ cdLoads' = DisownedLoads \cup (IF sel THEN {NewLoad} ELSE {})
  /\ cdSaves' = DisownedSaves
  /\ UNCHANGED <<cdRow, cdLocal, cdApply, cdRecovery, cdWritten, cdAcked>>

LoadRead(l) ==
  /\ l.step = "asked"
  /\ \E read \in {[l EXCEPT !.step = "read", !.row = cdRow], [l EXCEPT !.step = "failed"]} :
       cdLoads' = (cdLoads \ {l}) \cup {read}
  /\ UNCHANGED <<cdRow, cdLocal, cdPage, cdSaves, cdApply, cdRecovery, cdWritten, cdAcked>>

ResponseIsAnyones(l) == TRUE
ResponseIsCurrent(l) == l.current

\* loadCueEditorBaseline's answer, used if responseIsCurrent.
LoadAnswered(l) ==
  /\ l.step # "asked"
  /\ cdLoads' = cdLoads \ {l}
  /\ LET saved == IF l.row.rev = 0 THEN NoCues ELSE l.row.desired
     IN cdPage' =
          IF ~ResponseIsCurrent(l) THEN cdPage
          ELSE IF l.step = "failed" THEN [cdPage EXCEPT !.status = "failed"]
          ELSE [cdPage EXCEPT !.status = "loaded", !.rev = l.row.rev, !.saved = saved,
                  !.working = IF saved = NoCues THEN Imported ELSE saved,
                  !.proven = l.row.local # NoCues]
  /\ UNCHANGED <<cdRow, cdLocal, cdSaves, cdApply, cdRecovery, cdWritten, cdAcked>>

Editable == cdPage.sel /\ cdPage.status = "loaded" /\ cdRecovery = NoRecovery
DiscardBaseline == IF cdPage.saved = NoCues THEN Imported ELSE cdPage.saved

\* Add, move, edit, delete and Auto Cue, or Discard.
CuesEdited ==
  /\ cdPage.status = "loaded"
  /\ \E cues \in IF Editable THEN CueSets ELSE {DiscardBaseline} :
       /\ cues # cdPage.working
       /\ cdPage' = [cdPage EXCEPT !.working = cues]
  /\ UNCHANGED <<cdRow, cdLocal, cdLoads, cdSaves, cdApply, cdRecovery, cdWritten, cdAcked>>

\* handleSave, with the revision the page knows.
SaveAsked ==
  /\ Editable /\ ~cdPage.saving /\ Cardinality(cdSaves) < MaxSaves
  /\ cdPage.working # DiscardBaseline \/ (cdPage.rev > 0 /\ ~cdPage.proven)
  /\ cdPage' = [cdPage EXCEPT !.saving = TRUE]
  /\ cdSaves' = cdSaves \cup {[current |-> TRUE, step |-> "asked", rev |-> cdPage.rev,
                               cues |-> cdPage.working, row |-> NoDraft]}
  /\ UNCHANGED <<cdRow, cdLocal, cdLoads, cdApply, cdRecovery, cdWritten, cdAcked>>

\* The RPC commits over the revision it expects, refuses another, or fails.
SaveReached(s) ==
  /\ s.step = "asked"
  /\ LET with(step, row) ==
           cdSaves' = (cdSaves \ {s}) \cup
                      IF s.current THEN {[s EXCEPT !.step = step, !.row = row]} ELSE {}
     IN \/ /\ s.rev = cdRow.rev /\ cdRow.rev < MaxRevision
           /\ cdRow' = SavedRow(cdRow, s.cues)
           /\ \/ with("saved", SavedRow(cdRow, s.cues))
              \/ with("refused", NoDraft)
        \/ UNCHANGED cdRow /\ with("refused", NoDraft)
  /\ UNCHANGED <<cdLocal, cdPage, cdLoads, cdApply, cdRecovery, cdWritten, cdAcked>>

\* A new generation of the Apply flow: a preflight on screen is withdrawn, a
\* flow under way goes on without a reader.
Superseded(apply) ==
  IF apply.busy THEN [apply EXCEPT !.current = FALSE] ELSE NoApply

SaveAnswered(s) ==
  /\ s.step # "asked"
  /\ cdSaves' = cdSaves \ {s}
  /\ \/ /\ s.step = "saved"
        /\ cdPage' = [cdPage EXCEPT !.saving = FALSE, !.rev = s.row.rev, !.saved = s.row.desired,
                        !.proven = s.row.local # NoCues]
        /\ cdApply' = Superseded(cdApply)
        /\ cdAcked' = IF s.row.rev > cdAcked THEN s.row.rev ELSE cdAcked
     \/ /\ s.step = "refused"
        /\ cdPage' = [cdPage EXCEPT !.saving = FALSE]
        /\ UNCHANGED <<cdApply, cdAcked>>
  /\ UNCHANGED <<cdRow, cdLocal, cdLoads, cdRecovery, cdWritten>>

-----------------------------------------------------------------------------
(* Apply: preflight.                                                       *)

ApplyFrame == UNCHANGED <<cdLoads, cdSaves, cdAcked>>

\* The flow ends; the finally clause only clears busy for the current one.
Ended(apply) == IF apply.current THEN NoApply ELSE [NoApply EXCEPT !.busy = TRUE, !.current = FALSE]

\* handleApplyPreflight: a saved draft without local proof is observed first.
PreflightAsked(scope) ==
  /\ ~cdApply.busy /\ cdApply.pc \in {"idle", "ready"} /\ cdRecovery = NoRecovery
  /\ scope = "track" => Editable
  /\ cdApply' = IF scope = "track" /\ cdPage.rev > 0 /\ ~cdPage.proven
                THEN [NoApply EXCEPT !.busy = TRUE, !.pc = "observing", !.rev = cdPage.rev]
                ELSE [NoApply EXCEPT !.busy = TRUE, !.pc = "refreshing", !.scope = scope]
  /\ UNCHANGED <<cdRow, cdLocal, cdPage, cdRecovery, cdWritten>> /\ ApplyFrame

\* cueBaselineVerify reads the live database.
BaselineObserved ==
  /\ cdApply.pc = "observing"
  /\ cdApply' \in {Ended(cdApply),
                   IF cdApply.current THEN [cdApply EXCEPT !.pc = "enrolling", !.seen = cdLocal.cues]
                                      ELSE Ended(cdApply)}
  /\ UNCHANGED <<cdRow, cdLocal, cdPage, cdRecovery, cdWritten>> /\ ApplyFrame

\* update_cue_baseline_fingerprint, for the revision that was read.
BaselineEnrolled ==
  /\ cdApply.pc = "enrolling"
  /\ \/ /\ cdRow.rev = cdApply.rev
        /\ cdRow' = [cdRow EXCEPT !.local = cdApply.seen]
        /\ IF cdApply.current
           THEN /\ cdApply' = [cdApply EXCEPT !.pc = "refreshing", !.rev = 0, !.seen = NoCues]
                /\ cdPage' = IF cdApply.scope = "track" /\ cdPage.sel
                             THEN [cdPage EXCEPT !.proven = TRUE] ELSE cdPage
           ELSE cdApply' = Ended(cdApply) /\ UNCHANGED cdPage
     \/ cdApply' = Ended(cdApply) /\ UNCHANGED <<cdRow, cdPage>>
  /\ UNCHANGED <<cdLocal, cdRecovery, cdWritten>> /\ ApplyFrame

\* refreshApplyDrafts and resolveCueApplySelection; Apply All enrolls the
\* drafts without proof and reads again.
DraftsRefreshed ==
  /\ cdApply.pc = "refreshing"
  /\ cdApply' \in
       {Ended(cdApply),
        IF ~cdApply.current \/ ~Pending(cdRow) THEN Ended(cdApply)
        ELSE IF cdApply.scope = "all" /\ cdRow.local = NoCues
             THEN [cdApply EXCEPT !.pc = "observing", !.rev = cdRow.rev]
             ELSE [cdApply EXCEPT !.pc = "checking", !.rev = 0, !.snap = cdRow]}
  /\ UNCHANGED <<cdRow, cdLocal, cdPage, cdRecovery, cdWritten>> /\ ApplyFrame

\* The bridge's preflight issues a token when Rekordbox still holds the
\* draft's baseline; otherwise its blockers are shown and nothing can follow.
PreflightChecked ==
  /\ cdApply.pc = "checking"
  /\ cdApply' \in
       {Ended(cdApply),
        IF cdApply.current /\ (cdApply.scope = "track" => cdPage.sel)
        THEN IF cdLocal.cues = cdApply.snap.local
             THEN [cdApply EXCEPT !.pc = "ready", !.busy = FALSE, !.token = cdLocal.gen]
             ELSE [NoApply EXCEPT !.pc = "ready", !.scope = cdApply.scope]
        ELSE Ended(cdApply)}
  /\ UNCHANGED <<cdRow, cdLocal, cdPage, cdRecovery, cdWritten>> /\ ApplyFrame

\* Cancel, which a flow under way does not stop.
ApplyCancelled ==
  /\ cdApply.pc \in {"ready", "fetching", "applying"}
  /\ cdApply' = Superseded(cdApply)
  /\ UNCHANGED <<cdRow, cdLocal, cdPage, cdRecovery, cdWritten>> /\ ApplyFrame

-----------------------------------------------------------------------------
(* Apply: confirmation, the bridge, and the verified rebase.               *)

\* handleConfirmApply.
ApplyConfirmed ==
  /\ cdApply.pc = "ready" /\ cdApply.token # NoToken
  /\ cdApply' = IF cdApply.scope = "track" /\ ~Editable THEN NoApply
                ELSE [cdApply EXCEPT !.pc = "fetching", !.busy = TRUE, !.current = TRUE]
  /\ UNCHANGED <<cdRow, cdLocal, cdPage, cdRecovery, cdWritten>> /\ ApplyFrame

\* The drafts are read again: the snapshot must be what is saved.
SnapshotCompared ==
  /\ cdApply.pc = "fetching"
  /\ cdApply' \in
       {Ended(cdApply),
        IF Pending(cdRow) /\ cdRow.rev = cdApply.snap.rev /\ cdRow.desired = cdApply.snap.desired
        THEN [cdApply EXCEPT !.pc = "applying"] ELSE Ended(cdApply)}
  /\ UNCHANGED <<cdRow, cdLocal, cdPage, cdRecovery, cdWritten>> /\ ApplyFrame

\* The bridge replaces the generation the token names, and verifies it; it
\* rejects another, rolls a failed one back, or cannot tell what it left.
BridgeWritesAnyGeneration ==
  /\ cdLocal.gen < MaxGeneration
  /\ cdLocal' = [cdLocal EXCEPT !.cues = cdApply.snap.desired, !.gen = @ + 1]
  /\ cdWritten' = cdWritten \cup {[rev |-> cdApply.snap.rev, cues |-> cdApply.snap.desired]}

BridgeWrites ==
  /\ cdApply.token = cdLocal.gen /\ cdLocal.gen < MaxGeneration
  /\ cdLocal' = [cdLocal EXCEPT !.cues = cdApply.snap.desired, !.gen = @ + 1]
  /\ cdWritten' = cdWritten \cup {[rev |-> cdApply.snap.rev, cues |-> cdApply.snap.desired]}

\* The outcomes that the page takes for a verified Apply.
VerifiedOrRejected == BridgeWrites \/ UNCHANGED <<cdLocal, cdWritten>>
Verified == BridgeWrites

\* Verified and read by the current flow: the recovery record is kept first.
\* A flow that is not current, and one whose answer is lost, only ends.
BridgeApplied ==
  /\ cdApply.pc = "applying"
  /\ \/ /\ Verified /\ cdApply.current
        /\ cdRecovery' = [rev |-> cdApply.snap.rev, cues |-> cdApply.snap.desired]
        /\ cdApply' = [NoApply EXCEPT !.pc = "marking", !.busy = TRUE]
     \/ /\ BridgeWrites
        /\ cdApply' = Ended(cdApply) /\ UNCHANGED cdRecovery
     \/ /\ cdApply' = Ended(cdApply)
        /\ UNCHANGED <<cdLocal, cdWritten, cdRecovery>>
  /\ UNCHANGED <<cdRow, cdPage>> /\ ApplyFrame

\* mark_cue_draft_applied_v3 for exactly the revision and cues that were applied.
ApplyMarked ==
  /\ cdApply.pc = "marking"
  /\ \/ /\ cdRow.rev = cdRecovery.rev /\ cdRow.desired = cdRecovery.cues
        /\ cdRow' = [cdRow EXCEPT !.applied = cdRecovery.rev, !.base = cdRecovery.cues,
                                  !.local = cdRecovery.cues]
        /\ \/ cdApply' = [cdApply EXCEPT !.pc = "marked"]
           \/ cdApply' = Ended(cdApply)
     \/ /\ cdApply' = Ended(cdApply) /\ UNCHANGED cdRow
  /\ UNCHANGED <<cdLocal, cdPage, cdRecovery, cdWritten>> /\ ApplyFrame

\* persistVerifiedApplyRebase reads the answer into the selected track.
MarkAnswered ==
  /\ cdApply.pc = "marked"
  /\ cdPage' = IF cdPage.sel
               THEN [cdPage EXCEPT !.proven = TRUE] ELSE cdPage
  /\ cdRecovery' = NoRecovery
  /\ cdApply' = Ended(cdApply)
  /\ UNCHANGED <<cdRow, cdLocal, cdWritten>> /\ ApplyFrame

\* handleRetryApplyRebase.
RebaseRetried ==
  /\ cdRecovery # NoRecovery /\ ~cdApply.busy
  /\ cdApply' = [NoApply EXCEPT !.pc = "marking", !.busy = TRUE]
  /\ UNCHANGED <<cdRow, cdLocal, cdPage, cdRecovery, cdWritten>> /\ ApplyFrame

-----------------------------------------------------------------------------
(* The rest of the world.                                                  *)

\* Another session of the same user saves the track's draft.
OtherSessionSaves ==
  /\ cdRow.rev < MaxRevision
  /\ \E cues \in CueSets : cdRow' = SavedRow(cdRow, cues)
  /\ UNCHANGED <<cdLocal, cdPage, cdLoads, cdSaves, cdApply, cdRecovery, cdWritten, cdAcked>>

RekordboxEdits ==
  /\ cdLocal.gen < MaxGeneration
  /\ \E cues \in CueSets \ {cdLocal.cues} :
       cdLocal' = [cdLocal EXCEPT !.cues = cues, !.gen = @ + 1]
  /\ UNCHANGED <<cdRow, cdPage, cdLoads, cdSaves, cdApply, cdRecovery, cdWritten, cdAcked>>

\* The page is closed and opened again: all it held is gone, and so is the
\* recovery record.
PageReloaded ==
  /\ cdPage' = EmptyPage /\ cdApply' = NoApply /\ cdRecovery' = NoRecovery
  /\ cdLoads' = {} /\ cdSaves' = {}
  /\ UNCHANGED <<cdRow, cdLocal, cdWritten, cdAcked>>

CueNext ==
  \/ \E sel \in BOOLEAN : TrackSelected(sel)
  \/ \E l \in cdLoads : LoadRead(l) \/ LoadAnswered(l)
  \/ CuesEdited \/ SaveAsked \/ \E s \in cdSaves : SaveReached(s) \/ SaveAnswered(s)
  \/ \E scope \in {"track", "all"} : PreflightAsked(scope)
  \/ BaselineObserved \/ BaselineEnrolled \/ DraftsRefreshed \/ PreflightChecked
  \/ ApplyCancelled \/ ApplyConfirmed \/ SnapshotCompared \/ BridgeApplied
  \/ ApplyMarked \/ MarkAnswered \/ RebaseRetried
  \/ OtherSessionSaves \/ RekordboxEdits \/ PageReloaded

CueSpec == CueInit /\ [][CueNext]_cueVars

-----------------------------------------------------------------------------
\* Apply "replaces the complete Rekordbox cue set for this track", but only
\* the one the draft was made against: cues edited in Rekordbox meanwhile, a
\* draft saved in another session and a preflight of an earlier draft never
\* lead to an overwrite of cues the user has not seen.
LocalEditsSurvive ==
  [][cdApply.pc = "applying" /\ cdLocal' # cdLocal /\ cdApply'.pc # "applying"
     => cdLocal.cues = cdApply.snap.local /\ cdLocal'.cues = cdApply.snap.desired]_cueVars

\* A draft is only recorded as applied if that revision, with those cues, was
\* written to Rekordbox, and its baseline is what was written.
AppliedWasWritten ==
  cdRow.applied > 0 => [rev |-> cdRow.applied, cues |-> cdRow.base] \in cdWritten

\* The editor never goes back behind a save the user was told of, whatever
\* loads are still under way.
AcknowledgedSaveStays ==
  cdPage.sel /\ cdPage.status = "loaded" => cdPage.rev >= cdAcked
=============================================================================
