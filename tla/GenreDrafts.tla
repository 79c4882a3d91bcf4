----------------------------- MODULE GenreDrafts -----------------------------
(***************************************************************************)
(* Genre edits, from the list of tracks to the saved drafts, to Rekordbox, *)
(* and back into the cloud: src/components/cues/CuePointsView.tsx with     *)
(* src/lib/queries/trackMetadataDrafts.ts and                              *)
(* src/lib/metadata/metadataApplyOrchestration.ts.                         *)
(*                                                                         *)
(* A run is one call of a handler: a preflight, an Apply or a recovery.    *)
(* Runs of the page overlap, because an effect frees the page's busy flag  *)
(* when what is to be reviewed changes; runs of other sessions go on       *)
(* beside them, and what a closed window had sent still arrives.  An RPC   *)
(* commits and its answer arrives or is lost.  A draft's fingerprint       *)
(* stands for its value and baseline, and the bridge's answers match       *)
(* their requests.                                                         *)
(***************************************************************************)
EXTENDS Naturals, FiniteSets

CONSTANTS GenreTracks, Genres, CanonicalGenre, GenreRuns, NoGenreRun,
          MaxGenreRevision, MaxLocalGen, MaxGenreOps,
          MaxEdits   \* saves and discards that are under way together

ASSUME GenreAssumption == /\ CanonicalGenre \in Genres /\ NoGenreRun \notin GenreRuns
                          /\ {MaxGenreRevision, MaxLocalGen, MaxGenreOps, MaxEdits} \subseteq Nat

VARIABLES gdRow,      \* track_metadata_drafts; revision 0: no row
          gdCloud,    \* rekordbox_tracks.genre
          gdLocal,    \* Rekordbox: the genres and the generation of the database
          gdPage,     \* the page: its copy of the rows, what blocks it, the run that
                      \* is busy, the preflight to apply, a recovery that is shown
          gdSaves,    \* saves and discards under way, one for a track
          gdRun,      \* handleMetadataPreflightAll, ...ApplyAll or ...Recovery
          gdAsked,    \* operations that the bridge was asked for
          gdVerified, \* history: the operations, tracks and genres that the bridge
                      \* reported as written and verified
          gdReceipts  \* history: the receipt of an operation for a track

genreVars == <<gdRow, gdCloud, gdLocal, gdPage, gdSaves, gdRun, gdAsked, gdVerified, gdReceipts>>

Locks == {"pending", "failed", "unverified"}
DraftRows == [rev : 0 .. MaxGenreRevision, value : Genres, base : Genres,
              state : {"none", "rejected", "applied"} \cup Locks, op : 0 .. MaxGenreOps]
Drafts == [rev : 0 .. MaxGenreRevision, value : Genres, base : Genres]
Edits == [kind : {"none", "save", "discard"}, rev : 0 .. MaxGenreRevision, value : Genres]

GenreTypeOK ==
  /\ gdRow \in [GenreTracks -> DraftRows]
  /\ gdCloud \in [GenreTracks -> Genres]
  /\ gdLocal \in [genre : [GenreTracks -> Genres], gen : 0 .. MaxLocalGen]
  /\ gdPage \in [status : {"loading", "loaded"}, rows : [GenreTracks -> DraftRows], blocked : BOOLEAN,
                 busy : GenreRuns \cup {NoGenreRun}, ready : BOOLEAN, token : 0 .. MaxLocalGen,
                 recovering : BOOLEAN]
  /\ gdSaves \in [GenreTracks -> Edits]
  /\ gdRun \in [GenreRuns ->
       [kind : {"none", "preflight", "apply", "recovery"}, at : {"page", "other", "closed"},
        pc : {"idle", "asking", "checking", "fetching", "writing", "outcomes", "receipts",
              "finalizing", "refailing", "verifying", "refreshing"},
        drafts : [GenreTracks -> Drafts], token : 0 .. MaxLocalGen, op : 0 .. MaxGenreOps,
        mark : {"none", "rejected"} \cup Locks, todo : SUBSET GenreTracks, failed : SUBSET GenreTracks]]
  /\ gdAsked \in 0 .. MaxGenreOps
  /\ gdVerified \subseteq (1 .. MaxGenreOps) \X GenreTracks \X Genres
  /\ gdReceipts \in [(1 .. MaxGenreOps) \X GenreTracks -> {"none", "kept", "over"}]

NoRow == [rev |-> 0, value |-> CanonicalGenre, base |-> CanonicalGenre, state |-> "none", op |-> 0]
NoEdit == [kind |-> "none", rev |-> 0, value |-> CanonicalGenre]
NoGenreDraft == [rev |-> 0, value |-> CanonicalGenre, base |-> CanonicalGenre]
NoRows == [t \in GenreTracks |-> NoRow]
IdleRun == [kind |-> "none", at |-> "page", pc |-> "idle", drafts |-> [t \in GenreTracks |-> NoGenreDraft],
            token |-> 0, op |-> 0, mark |-> "none", todo |-> {}, failed |-> {}]
EmptyList == [status |-> "loading", rows |-> NoRows, blocked |-> FALSE, busy |-> NoGenreRun,
              ready |-> FALSE, token |-> 0, recovering |-> FALSE]

GenreInit ==
  /\ gdRow = NoRows
  /\ gdCloud = [t \in GenreTracks |-> CanonicalGenre]
  /\ gdLocal = [genre |-> gdCloud, gen |-> 0]
  /\ gdPage = EmptyList
  /\ gdSaves = [t \in GenreTracks |-> NoEdit]
  /\ gdRun = [f \in GenreRuns |-> IdleRun]
  /\ gdAsked = 0 /\ gdVerified = {}
  /\ gdReceipts = [r \in (1 .. MaxGenreOps) \X GenreTracks |-> "none"]

Locked(row) == row.state \in Locks
NeedsApply(row) == ~Locked(row) /\ row.value # row.base
NeedsReview(row) == NeedsApply(row) \/ Locked(row)
ToApply(rows) == {t \in GenreTracks : NeedsApply(rows[t])}
DraftOf(row) == [rev |-> row.rev, value |-> row.value, base |-> row.base]

\* pendingMetadataDraftIdentityKey: the drafts to apply, and nothing else.
ApplyKey(rows) == [t \in GenreTracks |-> IF NeedsApply(rows[t]) THEN DraftOf(rows[t]) ELSE NoGenreDraft]
ReviewKey(rows) == [t \in {u \in GenreTracks : NeedsReview(rows[u])} |-> rows[t]]

-----------------------------------------------------------------------------
(* The draft rows, by their RPCs.                                          *)

\* save_track_metadata_draft_v1: a value that is the baseline again leaves no
\* draft, unless an operation is recorded in it.
Saved(t, value) ==
  LET row == gdRow[t]
  IN IF row.rev = 0
     THEN IF value = gdCloud[t] THEN NoRow
          ELSE [NoRow EXCEPT !.rev = 1, !.value = value, !.base = gdCloud[t]]
     ELSE IF value = row.base /\ row.op = 0 THEN NoRow
     ELSE [row EXCEPT !.rev = @ + 1, !.value = value]

\* discard_track_metadata_draft_v1.
Discarded(t) ==
  IF gdRow[t].rev = 0 \/ gdRow[t].op = 0 THEN NoRow
  ELSE [gdRow[t] EXCEPT !.rev = @ + 1, !.value = gdRow[t].base]

\* A mutant: the revision is not compared.
MayWriteAnyRevision(t, rev) == ~Locked(gdRow[t]) /\ rev < MaxGenreRevision

MayWrite(t, rev) == gdRow[t].rev = rev /\ ~Locked(gdRow[t]) /\ rev < MaxGenreRevision

\* mark_track_metadata_apply_outcome_v1 for the revision and fingerprint that
\* was submitted: a recorded operation only moves between its two cloud states,
\* and any other operation is replaced, whatever its state.
MayMark(t, draft, op, state) ==
  /\ DraftOf(gdRow[t]) = draft /\ draft.rev > 0
  /\ gdRow[t].op = op => gdRow[t].state = state \/ {gdRow[t].state, state} \subseteq {"pending", "failed"}

Mark(t, op, state) ==
  /\ gdRow' = [gdRow EXCEPT ![t].state = state, ![t].op = op]
  /\ gdReceipts' = [r \in DOMAIN gdReceipts |->
                      IF r = <<op, t>> /\ state \in {"pending", "failed"} THEN "kept"
                      ELSE IF r[2] = t /\ r[1] # op /\ gdReceipts[r] = "kept" THEN "over"
                      ELSE gdReceipts[r]]

\* finalize_track_metadata_apply_v1: the genre and the baseline together, or
\* what the same operation finalized before.
MayFinalize(t, draft, op) ==
  /\ DraftOf(gdRow[t]) = draft /\ gdCloud[t] = draft.base
  /\ gdRow[t].op = op /\ gdRow[t].state \in {"pending", "failed"}

IsFinalized(t, draft, op) ==
  gdRow[t].op = op /\ gdRow[t].state = "applied" /\ gdRow[t].base = draft.value /\ gdCloud[t] = draft.value

Finalize(t, draft, op) ==
  /\ gdCloud' = [gdCloud EXCEPT ![t] = draft.value]
  /\ gdRow' = [gdRow EXCEPT ![t].base = draft.value, ![t].state = "applied"]
  /\ gdReceipts' = [gdReceipts EXCEPT ![<<op, t>>] = "over"]

-----------------------------------------------------------------------------
(* The page.                                                               *)

Usable == gdPage.status = "loaded" /\ ~gdPage.blocked
NoDiscard == \A t \in GenreTracks : gdSaves[t].kind # "discard"

\* A new copy of the rows.  The effect on metadataReviewStateKey withdraws the
\* preflight and the generation of the run under way, which is not busy then.
PageShows(page, rows) ==
  IF ReviewKey(rows) = ReviewKey(page.rows) THEN [page EXCEPT !.rows = rows]
  ELSE [page EXCEPT !.rows = rows, !.busy = NoGenreRun, !.ready = FALSE, !.token = 0]

Withdrawn(page) == [page EXCEPT !.ready = FALSE, !.token = 0]

\* The load effect: all rows, or the retry button and another try.
DraftsLoaded ==
  /\ gdPage.status = "loading"
  /\ gdPage' = PageShows([gdPage EXCEPT !.status = "loaded"], gdRow)
  /\ UNCHANGED <<gdRow, gdCloud, gdLocal, gdSaves, gdRun, gdAsked, gdVerified, gdReceipts>>

\* saveInlineGenreDraft, and discardPendingGenreDraft.
EditAsked(t) ==
  /\ Usable /\ gdSaves[t] = NoEdit /\ ~Locked(gdPage.rows[t])
  /\ Cardinality({u \in GenreTracks : gdSaves[u] # NoEdit}) < MaxEdits
  /\ \/ \E value \in Genres \ {gdPage.rows[t].value} :
          gdSaves' = [gdSaves EXCEPT ![t] = [kind |-> "save", rev |-> gdPage.rows[t].rev, value |-> value]]
     \/ /\ NeedsApply(gdPage.rows[t])
        /\ gdSaves' = [gdSaves EXCEPT ![t] = [NoEdit EXCEPT !.kind = "discard", !.rev = gdPage.rows[t].rev]]
  /\ UNCHANGED <<gdRow, gdCloud, gdLocal, gdPage, gdRun, gdAsked, gdVerified, gdReceipts>>

\* The RPC commits, or refuses or is never reached.  A saved row is shown; a
\* discarded one is dropped, also when the server keeps it as provenance.
EditAnswered(t) ==
  /\ gdSaves[t] # NoEdit
  /\ LET edit == gdSaves[t]
         row == IF edit.kind = "save" THEN Saved(t, edit.value) ELSE Discarded(t)
         shown == [gdPage.rows EXCEPT ![t] =
                     IF edit.kind = "save" THEN row ELSE IF @.rev = edit.rev THEN NoRow ELSE @]
     IN \/ /\ MayWrite(t, edit.rev)
           /\ gdRow' = [gdRow EXCEPT ![t] = row]
           /\ gdPage' \in {gdPage, PageShows(gdPage, shown)}
        \/ UNCHANGED <<gdRow, gdPage>>
  /\ gdSaves' = [gdSaves EXCEPT ![t] = NoEdit]
  /\ UNCHANGED <<gdCloud, gdLocal, gdRun, gdAsked, gdVerified, gdReceipts>>

-----------------------------------------------------------------------------
(* Preflight, and Apply up to the bridge.                                  *)

RunFrame == UNCHANGED <<gdRow, gdCloud, gdLocal, gdSaves, gdAsked, gdVerified, gdReceipts>>

RunGoes(f, run) == gdRun' = [gdRun EXCEPT ![f] = run]

\* The generation is still that of the run.
Current(f) == gdPage.busy = f

\* A run is over: it gives up what it holds on the page, if its generation still
\* counts, before the rows it leaves there take effect.
RunEnds(f, page, rows) ==
  /\ gdPage' = IF gdRun[f].at # "page" THEN gdPage
               ELSE IF gdPage.busy # f THEN PageShows(page, rows)
               ELSE PageShows([page EXCEPT !.busy = NoGenreRun, !.recovering = @ /\ gdRun[f].kind # "recovery"], rows)
  /\ RunGoes(f, IdleRun)

\* A run for the drafts to apply.
RunFor(rows, kind, at, pc, token) ==
  [IdleRun EXCEPT !.kind = kind, !.at = at, !.pc = pc, !.drafts = ApplyKey(rows), !.token = token,
                  !.todo = ToApply(rows)]

PreflightAll(f) ==
  /\ gdRun[f] = IdleRun /\ Usable /\ NoDiscard /\ gdPage.busy = NoGenreRun /\ ToApply(gdPage.rows) # {}
  /\ RunGoes(f, RunFor(gdPage.rows, "preflight", "page", "asking", 0))
  /\ gdPage' = [Withdrawn(gdPage) EXCEPT !.busy = f]
  /\ RunFrame

\* What the rows read now allow: nothing while a recovery is open, or if the
\* set to apply is not the one that was on the page.
Unchanged(f) == /\ \A t \in GenreTracks : ~Locked(gdRow[t])
                /\ ApplyKey(gdRow) = gdRun[f].drafts

DraftsRead(f) ==
  /\ gdRun[f].pc = "asking"
  /\ \/ RunEnds(f, gdPage, gdPage.rows)
     \/ Current(f) /\ ~Unchanged(f) /\ RunEnds(f, gdPage, gdRow)
     \/ Current(f) /\ Unchanged(f) /\ RunGoes(f, [gdRun[f] EXCEPT !.pc = "checking"]) /\ UNCHANGED gdPage
  /\ RunFrame

\* The bridge issues a token when every genre is still its draft's baseline;
\* otherwise there is nothing to apply.
PreflightAnswered(f) ==
  /\ gdRun[f].pc = "checking"
  /\ \/ RunEnds(f, gdPage, gdPage.rows)
     \/ /\ Current(f) /\ \A t \in gdRun[f].todo : gdLocal.genre[t] = gdRun[f].drafts[t].base
        /\ RunEnds(f, [gdPage EXCEPT !.ready = TRUE, !.token = gdLocal.gen], gdPage.rows)
  /\ RunFrame

ApplyAll(f) ==
  /\ gdRun[f] = IdleRun /\ Usable /\ NoDiscard /\ gdPage.busy = NoGenreRun /\ gdPage.ready
  /\ RunGoes(f, RunFor(gdPage.rows, "apply", "page", "fetching", gdPage.token))
  /\ gdPage' = [gdPage EXCEPT !.busy = f]
  /\ RunFrame

\* The rows are read again.  A read that fails counts as a lost Apply.
ApplyRead(f) ==
  /\ gdRun[f].pc = "fetching"
  /\ \/ RunEnds(f, [Withdrawn(gdPage) EXCEPT !.blocked = TRUE], gdPage.rows)
     \/ ~Current(f) /\ RunEnds(f, gdPage, gdPage.rows)
     \/ Current(f) /\ ~Unchanged(f) /\ RunEnds(f, Withdrawn(gdPage), gdRow)
     \/ Current(f) /\ Unchanged(f) /\ RunGoes(f, [gdRun[f] EXCEPT !.pc = "writing"]) /\ UNCHANGED gdPage
  /\ RunFrame

-----------------------------------------------------------------------------
(* The bridge, and what is recorded of its answer.                         *)

\* The whole plan replaces the generation the token names.
BridgeWritesAll(f) ==
  /\ gdRun[f].token = gdLocal.gen /\ gdLocal.gen < MaxLocalGen
  /\ gdLocal' = [genre |-> [t \in GenreTracks |-> IF t \in gdRun[f].todo THEN gdRun[f].drafts[t].value
                                                  ELSE gdLocal.genre[t]],
                 gen |-> gdLocal.gen + 1]

\* validateVerifiedMetadataApplyResult: only a verified answer has receipts (the
\* first, a mutant, takes the answer without its proof).
ReceiptsUnproved(answer) == answer # "rejected"

HasReceipts(answer) == answer = "verified"

\* metadataApply: verified; rejected or rolled back; a rollback that could not
\* be verified, or a proof that does not match; or no usable answer at all.  The
\* Rekordbox of another session may be on another computer.
GenreWritten(f) ==
  /\ gdRun[f].pc = "writing" /\ gdAsked < MaxGenreOps
  /\ gdAsked' = gdAsked + 1
  /\ \/ /\ gdRun[f].at # "closed"
        /\ \E answer \in {"verified", "rejected", "unverified"} :
             /\ \/ answer # "rejected" /\ BridgeWritesAll(f)
                \/ (answer = "verified" => gdRun[f].at = "other") /\ UNCHANGED gdLocal
             /\ gdVerified' = gdVerified \cup
                  {<<gdAsked + 1, t, gdRun[f].drafts[t].value>> :
                     t \in IF answer = "verified" THEN gdRun[f].todo ELSE {}}
             /\ RunGoes(f, [gdRun[f] EXCEPT !.op = gdAsked + 1, !.token = 0,
                           !.pc = IF HasReceipts(answer) THEN "receipts" ELSE "outcomes",
                           !.mark = IF HasReceipts(answer) THEN "pending" ELSE answer])
        /\ gdPage' = IF gdRun[f].at = "page" THEN Withdrawn(gdPage) ELSE gdPage
     \/ /\ UNCHANGED gdLocal \/ BridgeWritesAll(f)
        /\ RunEnds(f, [Withdrawn(gdPage) EXCEPT !.blocked = TRUE], gdPage.rows)
        /\ UNCHANGED gdVerified
  /\ UNCHANGED <<gdRow, gdCloud, gdSaves, gdReceipts>>

\* The answer of an RPC for a track: it arrives, or the track counts as failed.
Answered(f, t) == RunGoes(f, [gdRun[f] EXCEPT !.todo = @ \ {t}])
Failed(f, t) == RunGoes(f, [gdRun[f] EXCEPT !.todo = @ \ {t}, !.failed = @ \cup {t}])

\* One of the marks that are sent together; it commits and is answered,
\* commits and is lost, or fails.
OutcomeMarked(f, t) ==
  /\ gdRun[f].pc \in {"outcomes", "receipts", "refailing"} /\ t \in gdRun[f].todo
  /\ \/ /\ MayMark(t, gdRun[f].drafts[t], gdRun[f].op, gdRun[f].mark)
        /\ Mark(t, gdRun[f].op, gdRun[f].mark)
        /\ Answered(f, t) \/ Failed(f, t)
     \/ Failed(f, t) /\ UNCHANGED <<gdRow, gdReceipts>>
  /\ UNCHANGED <<gdCloud, gdLocal, gdPage, gdSaves, gdAsked, gdVerified>>

Covered(f) == {t \in GenreTracks : gdRun[f].drafts[t].rev > 0}

\* A run of the page refreshes it; another session's own page is not modelled.
Refreshes(f) == IF gdRun[f].at = "page" THEN [gdRun[f] EXCEPT !.pc = "refreshing"] ELSE IdleRun

\* pendingFailures: every submitted track has its receipt (the first, a mutant, is
\* content with one).
SomeReceiptKept(f) == gdRun[f].failed # Covered(f)

AllReceiptsKept(f) == gdRun[f].failed = {}

\* All marks are answered.  Every receipt must be kept before any track is
\* finalized; what could not be recorded, or has no valid proof, blocks the page.
OutcomesRecorded(f) ==
  /\ gdRun[f].pc \in {"outcomes", "receipts", "refailing"} /\ gdRun[f].todo = {} /\ gdRun[f].at # "closed"
  /\ LET lost == gdRun[f].pc # "refailing" /\ ~AllReceiptsKept(f)
     IN /\ RunGoes(f, IF gdRun[f].pc = "receipts" /\ ~lost
                   THEN [gdRun[f] EXCEPT !.pc = "finalizing", !.todo = Covered(f)]
                   ELSE Refreshes(f))
        /\ \E unproved \in {FALSE, gdRun[f].mark = "unverified"} :
             gdPage' = IF gdRun[f].at = "page" THEN [gdPage EXCEPT !.blocked = @ \/ lost \/ unproved] ELSE gdPage
  /\ RunFrame

-----------------------------------------------------------------------------
(* Finalization, recovery and the refresh.                                 *)

TrackFinalized(f, t) ==
  /\ gdRun[f].pc = "finalizing" /\ t \in gdRun[f].todo
  /\ \/ /\ MayFinalize(t, gdRun[f].drafts[t], gdRun[f].op)
        /\ Finalize(t, gdRun[f].drafts[t], gdRun[f].op)
        /\ Answered(f, t) \/ Failed(f, t)
     \/ /\ IsFinalized(t, gdRun[f].drafts[t], gdRun[f].op)
        /\ Answered(f, t) /\ UNCHANGED <<gdRow, gdCloud, gdReceipts>>
     \/ Failed(f, t) /\ UNCHANGED <<gdRow, gdCloud, gdReceipts>>
  /\ UNCHANGED <<gdLocal, gdPage, gdSaves, gdAsked, gdVerified>>

\* What failed is marked again, for a later recovery.
FinalizationOver(f) ==
  /\ gdRun[f].pc = "finalizing" /\ gdRun[f].todo = {} /\ gdRun[f].at # "closed"
  /\ RunGoes(f, IF gdRun[f].failed = {} THEN Refreshes(f)
             ELSE [gdRun[f] EXCEPT !.pc = "refailing", !.mark = "failed", !.todo = gdRun[f].failed])
  /\ UNCHANGED gdPage /\ RunFrame

\* handleMetadataRecovery: a receipt without its finalization, if Rekordbox
\* still has the genre that was applied.
Recovery(row, t, at) ==
  [IdleRun EXCEPT !.kind = "recovery", !.at = at, !.pc = "verifying", !.op = row.op, !.mark = "failed",
                  !.todo = {t}, !.drafts[t] = DraftOf(row)]

RecoveryAsked(f, t) ==
  /\ gdRun[f] = IdleRun /\ gdPage.status = "loaded"
  /\ gdPage.busy = NoGenreRun /\ ~gdPage.recovering /\ gdPage.rows[t].state \in {"pending", "failed"}
  /\ RunGoes(f, Recovery(gdPage.rows[t], t, "page"))
  /\ gdPage' = [Withdrawn(gdPage) EXCEPT !.busy = f, !.recovering = TRUE, !.blocked = FALSE]
  /\ RunFrame

RecoveryVerified(f) ==
  /\ gdRun[f].pc = "verifying"
  /\ \/ RunEnds(f, [gdPage EXCEPT !.blocked = TRUE], gdPage.rows)
     \/ /\ gdRun[f].at = "page" => \A t \in gdRun[f].todo : gdLocal.genre[t] = gdRun[f].drafts[t].value
        /\ RunGoes(f, [gdRun[f] EXCEPT !.pc = "finalizing"]) /\ UNCHANGED gdPage
  /\ RunFrame

\* refreshMetadataCanonicalState: a finalization that was not answered counts
\* if the rows prove it.  What blocked the page is settled if every track is
\* finalized.
Refreshed(f) ==
  /\ gdRun[f].pc = "refreshing"
  /\ LET finalizing == gdRun[f].mark = "failed" \/ (gdRun[f].mark = "pending" /\ gdRun[f].failed = {})
         unresolved == gdRun[f].failed # {}
         proven == \A t \in Covered(f) : gdRow[t].state = "applied" /\ gdRow[t].op = gdRun[f].op
     IN \/ RunEnds(f, [gdPage EXCEPT !.blocked = IF finalizing THEN unresolved /\ ~proven ELSE @], gdRow)
        \/ RunEnds(f, [gdPage EXCEPT !.blocked = IF finalizing THEN unresolved ELSE @], gdPage.rows)
  /\ RunFrame

-----------------------------------------------------------------------------
(* The rest of the world.                                                  *)

OtherSessionEdits(t) ==
  /\ MayWrite(t, gdRow[t].rev)
  /\ \E row \in {Saved(t, value) : value \in Genres} \cup {Discarded(t)} :
       row # gdRow[t] /\ gdRow' = [gdRow EXCEPT ![t] = row]
  /\ UNCHANGED <<gdCloud, gdLocal, gdPage, gdSaves, gdRun, gdAsked, gdVerified, gdReceipts>>

\* Another session has a preflight and has read its rows again, or has asked for
\* a recovery; from here on its run is like one of the page.
OtherSessionApplies(f) ==
  /\ gdRun[f] = IdleRun /\ ToApply(gdRow) # {} /\ \A t \in GenreTracks : ~Locked(gdRow[t])
  /\ RunGoes(f, RunFor(gdRow, "apply", "other", "writing", gdLocal.gen))
  /\ UNCHANGED gdPage /\ RunFrame

OtherSessionRecovers(f, t) ==
  /\ gdRun[f] = IdleRun /\ gdRow[t].state \in {"pending", "failed"}
  /\ RunGoes(f, Recovery(gdRow[t], t, "other"))
  /\ UNCHANGED gdPage /\ RunFrame

RekordboxChanges(t) ==
  /\ gdLocal.gen < MaxLocalGen
  /\ \E value \in Genres \ {gdLocal.genre[t]} :
       gdLocal' = [genre |-> [gdLocal.genre EXCEPT ![t] = value], gen |-> gdLocal.gen + 1]
  /\ UNCHANGED <<gdRow, gdCloud, gdPage, gdSaves, gdRun, gdAsked, gdVerified, gdReceipts>>

\* The window is closed and opened again.  Of a run that has sent requests, those
\* that are not answered may still arrive.
WindowReloaded ==
  /\ gdPage' = EmptyList
  /\ gdRun' = [f \in GenreRuns |->
                 IF gdRun[f].at # "page" THEN gdRun[f]
                 ELSE IF gdRun[f].pc \in {"writing", "outcomes", "receipts", "finalizing", "refailing"}
                 THEN [gdRun[f] EXCEPT !.at = "closed"] ELSE IdleRun]
  /\ gdSaves' = [t \in GenreTracks |-> NoEdit]
  /\ UNCHANGED <<gdRow, gdCloud, gdLocal, gdAsked, gdVerified, gdReceipts>>

\* Another session ends, or nothing more arrives of a closed window.
RunLeft(f) ==
  /\ gdRun[f].at # "page" /\ RunGoes(f, IdleRun)
  /\ UNCHANGED gdPage /\ RunFrame

GenreNext ==
  \/ DraftsLoaded \/ WindowReloaded
  \/ \E f \in GenreRuns :
       \/ PreflightAll(f) \/ DraftsRead(f) \/ PreflightAnswered(f) \/ ApplyAll(f) \/ ApplyRead(f)
       \/ GenreWritten(f) \/ OutcomesRecorded(f) \/ FinalizationOver(f) \/ RecoveryVerified(f)
       \/ Refreshed(f) \/ OtherSessionApplies(f) \/ RunLeft(f)
       \/ \E t \in GenreTracks : \/ OutcomeMarked(f, t) \/ TrackFinalized(f, t)
                                 \/ RecoveryAsked(f, t) \/ OtherSessionRecovers(f, t)
  \/ \E t \in GenreTracks : \/ EditAsked(t) \/ EditAnswered(t)
                            \/ OtherSessionEdits(t) \/ RekordboxChanges(t)

GenreSpec == GenreInit /\ [][GenreNext]_genreVars

-----------------------------------------------------------------------------
\* "Persist every verified local-success receipt before finalizing any track"
\* (CuePointsView.tsx): when a run finalizes, every track that it covers has had
\* its receipt recorded.  And a recorded receipt stays in its draft, through saves
\* and discards, other runs, other sessions and reloads, until the track is
\* finalized or another operation's outcome is marked for the same draft
\* (mark_track_metadata_apply_outcome_v1).
ReceiptsComeFirst ==
  /\ \A f \in GenreRuns :
       gdRun[f].pc = "finalizing" => \A t \in Covered(f) : gdReceipts[<<gdRun[f].op, t>>] # "none"
  /\ \A o \in 1 .. MaxGenreOps, t \in GenreTracks :
       gdReceipts[<<o, t>>] = "kept" => gdRow[t].op = o /\ gdRow[t].state \in {"pending", "failed"}

\* The cloud only takes a genre that an operation wrote to Rekordbox and verified,
\* a draft that is applied names that operation, and a draft's baseline is the
\* cloud's genre, through rejected, unverified and lost operations, overlapping
\* runs, edits of other sessions, recoveries and reloads.
CloudFollowsRekordbox ==
  \A t \in GenreTracks :
    /\ gdRow[t].rev > 0 => gdRow[t].base = gdCloud[t]
    /\ gdRow[t].state = "applied" => <<gdRow[t].op, t, gdRow[t].base>> \in gdVerified
    /\ gdCloud[t] = CanonicalGenre \/ \E o \in 1 .. MaxGenreOps : <<o, t, gdCloud[t]>> \in gdVerified
=============================================================================
