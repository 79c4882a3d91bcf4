------------------------------- MODULE Web_proofs -------------------------------
(***************************************************************************)
(* What the pages of the web application promise, proved for every number  *)
(* of tracks, cue sets, genres, revisions, operations and calls: each page *)
(* by an inductive invariant of its own, and then for the behaviours of    *)
(* WebSpec, of which each is a behaviour of every page.                    *)
(***************************************************************************)
EXTENDS MCWeb, Apply_proofs, Music_proofs

-----------------------------------------------------------------------------
(* The cue points of a track (CuePointsView.tsx).                          *)

\* The sets of CueTypeOK, by name.
CueLocals == [cues : CueSets, gen : 0 .. MaxGeneration, proof : Cues]
CuePages == [sel : BOOLEAN, status : {"idle", "loading", "loaded", "failed"},
             rev : 0 .. MaxRevision, saved : Cues, working : Cues,
             proven : BOOLEAN, saving : BOOLEAN]
CueLoads == [current : BOOLEAN, step : {"asked", "read", "failed"}, row : Rows]
CueSaves == [current : BOOLEAN, step : {"asked", "saved", "refused"}, rev : 0 .. MaxRevision,
             cues : CueSets, row : Rows]
CueFlows == [pc : {"idle", "observing", "enrolling", "refreshing", "checking", "ready",
                   "fetching", "applying", "marking", "marked"},
             scope : {"track", "all"}, current : BOOLEAN, busy : BOOLEAN, rev : 0 .. MaxRevision,
             seen : Cues, snap : Rows, token : 0 .. MaxGeneration + 1]
CueRecoveries == [rev : 0 .. MaxRevision, cues : Cues]

CueTyped ==
  /\ cdRow \in Rows /\ cdLocal \in CueLocals /\ cdPage \in CuePages
  /\ cdLoads \subseteq CueLoads /\ cdSaves \subseteq CueSaves
  /\ cdApply \in CueFlows /\ cdRecovery \in CueRecoveries
  /\ cdWritten \subseteq [rev : 1 .. MaxRevision, cues : CueSets] /\ cdAcked \in 0 .. MaxRevision

\* A draft row has cues from its first revision on, and local proof since it was
\* first marked as applied.
RowKept(row) ==
  /\ row.rev > 0 => row.desired \in CueSets
  /\ row.applied > 0 => row.local # NoCues

\* An Apply flow past its selection holds a saved draft; its token names the
\* generation that had the draft's baseline, so that a change of Rekordbox's cues
\* makes the token useless.
FlowKept(apply, local, recovery) ==
  /\ apply.pc = "enrolling" => apply.seen \in CueSets
  /\ apply.pc \in {"observing", "enrolling", "refreshing", "checking"} => apply.token = NoToken
  /\ apply.pc \in {"checking", "fetching", "applying"} \/ apply.token # NoToken
     => apply.snap.rev > 0 /\ apply.snap.desired \in CueSets
  /\ apply.token # NoToken => apply.token <= local.gen
  /\ apply.token = local.gen => local.cues = apply.snap.local
  /\ apply.pc = "marking" => recovery # NoRecovery

\* A load that still counts is the only one, for a track that is being loaded, while
\* no save counts; and what it read is at least what the user was told of.
LoadsKept ==
  \A l \in cdLoads :
    l.current => /\ cdPage.sel /\ cdPage.status = "loading"
                 /\ \A m \in cdLoads : m.current => m = l
                 /\ l.step = "read" => l.row.rev >= cdAcked

\* The cues in the editor can be saved.
PageKept ==
  /\ cdPage.status = "loaded" => cdPage.working \in CueSets
  /\ \A l \in cdLoads : RowKept(l.row)

\* A save that still counts is the only one, and the page waits for it.
SavesKept ==
  \A s \in cdSaves :
    /\ s.step # "asked" => s.current
    /\ s.current => /\ cdPage.saving /\ cdPage.status = "loaded"
                    /\ \A o \in cdSaves : o.current => o = s
    /\ s.step = "saved" => s.row.rev >= cdAcked /\ s.row.rev <= cdRow.rev

RecoveryKept == cdRecovery # NoRecovery => cdRecovery \in cdWritten
AckedKept == cdAcked <= cdRow.rev

CueInv ==
  /\ CueTyped
  /\ RowKept(cdRow) /\ FlowKept(cdApply, cdLocal, cdRecovery) /\ LoadsKept /\ PageKept /\ SavesKept
  /\ AckedKept /\ RecoveryKept
  /\ AppliedWasWritten /\ AcknowledgedSaveStays

LEMMA CueBounds ==
  /\ Imported \in CueSets /\ NoCues \notin CueSets /\ MaxRevision \in Nat /\ MaxGeneration \in Nat
  BY CueAssumption

LEMMA CueTypesAreNamed == CueTyped <=> CueTypeOK
  BY DEF CueTyped, CueTypeOK, CueLocals, CuePages, CueLoads, CueSaves, CueFlows, CueRecoveries

\* What the operators of the flow return.
LEMMA CueConstants ==
  /\ NoDraft \in Rows /\ NoApply \in CueFlows /\ NoRecovery \in CueRecoveries /\ EmptyPage \in CuePages
  /\ NoApply.pc = "idle" /\ NoApply.token = NoToken /\ NoRecovery.rev = 0 /\ NoToken \notin 0 .. MaxGeneration
  BY CueBounds DEF NoDraft, NoApply, NoRecovery, EmptyPage, NoToken, Rows, Cues, CueFlows,
                       CueRecoveries, CuePages

\* A flow that has ended is idle, without a token.
LEMMA EndedFlow ==
  ASSUME NEW apply \in CueFlows
  PROVE  /\ Ended(apply) \in CueFlows /\ Ended(apply).pc = "idle" /\ Ended(apply).token = NoToken
  BY CueConstants DEF Ended, NoApply, CueFlows

LEMMA IdleFlowKept ==
  ASSUME NEW apply \in CueFlows, NEW local \in CueLocals, NEW recovery,
         apply.pc \in {"idle", "observing", "refreshing"}, apply.token = NoToken
  PROVE  FlowKept(apply, local, recovery)
  BY CueBounds DEF FlowKept, CueFlows, CueLocals, NoToken

\* A flow that is superseded goes on as it was, or is forgotten.
LEMMA SupersededFlow ==
  ASSUME NEW apply \in CueFlows, NEW local \in CueLocals, NEW recovery, FlowKept(apply, local, recovery)
  PROVE  /\ Superseded(apply) \in CueFlows /\ FlowKept(Superseded(apply), local, recovery)
  <1>1. CASE apply.busy
    BY <1>1 DEF Superseded, CueFlows, FlowKept
  <1>2. CASE ~apply.busy
    <2>1. Superseded(apply) = NoApply
      BY <1>2 DEF Superseded
    <2>2. NoApply.pc = "idle" /\ NoApply.token = NoToken
      BY DEF NoApply
    <2> QED BY <2>1, <2>2, CueConstants, IdleFlowKept
  <1> QED BY <1>1, <1>2

\* A saved row is a row, one revision on.
LEMMA SavedRowKept ==
  ASSUME CueTyped, RowKept(cdRow), cdRow.rev < MaxRevision, NEW cues \in CueSets
  PROVE  /\ SavedRow(cdRow, cues) \in Rows /\ RowKept(SavedRow(cdRow, cues))
         /\ SavedRow(cdRow, cues).rev = cdRow.rev + 1
         /\ SavedRow(cdRow, cues).applied = cdRow.applied
         /\ cdRow.local # NoCues => SavedRow(cdRow, cues).base = cdRow.base
  <1> DEFINE base == IF cdRow.local = NoCues THEN Imported ELSE cdRow.base
             own == IF cdRow.local = NoCues THEN cdLocal.proof ELSE cdRow.local
             saved == [cdRow EXCEPT !.rev = cdRow.rev + 1, !.desired = cues, !.base = base, !.local = own]
  <1>1. SavedRow(cdRow, cues) = saved
    BY DEF SavedRow
  <1>2. base \in Cues /\ own \in Cues /\ cdRow.rev \in Nat
    BY CueBounds DEF CueTyped, Rows, Cues, CueLocals
  <1>3. cues \in Cues /\ cdRow \in Rows
    BY DEF Cues, CueTyped
  <1>4. cdRow.local # NoCues => base = cdRow.base /\ own = cdRow.local
    OBVIOUS
  <1> HIDE DEF base, own
  <1>5. cdRow.rev + 1 \in 0 .. MaxRevision
    BY <1>2, CueBounds
  <1>6. saved \in Rows /\ saved.rev = cdRow.rev + 1 /\ saved.desired = cues /\ saved.base = base
        /\ saved.local = own /\ saved.applied = cdRow.applied
    BY <1>2, <1>3, <1>5 DEF Rows
  <1> HIDE DEF saved
  <1> QED BY <1>1, <1>4, <1>6 DEF RowKept
LEMMA SelectKeeps == ASSUME CueInv, NEW sel \in BOOLEAN, TrackSelected(sel) PROVE CueInv'
  <1>1. ASSUME NEW l \in cdLoads
        PROVE  [l EXCEPT !.current = FALSE, !.step = "read", !.row = NoDraft] \in CueLoads
    BY CueConstants DEF CueInv, CueTyped, CueLoads
  <1>2. \A l \in DisownedLoads : ~l.current /\ l \in CueLoads /\ l.row = NoDraft
    BY <1>1 DEF DisownedLoads, CueInv, CueTyped, CueLoads
  <1>3. \A s \in DisownedSaves : ~s.current /\ s.step = "asked"
    BY DEF DisownedSaves, CueInv, CueTyped, CueSaves
  <1>4. NewLoad \in CueLoads /\ NewLoad.step = "asked" /\ NewLoad.row = NoDraft
    BY CueConstants DEF NewLoad, CueLoads
  <1>5. cdPage' \in CuePages
    BY CueBounds, CueConstants DEF CueInv, CueTyped, TrackSelected, CuePages
  <1>6. cdLoads' \subseteq CueLoads
    BY <1>2, <1>4 DEF TrackSelected
  <1>7. cdSaves' \subseteq CueSaves
    BY CueBounds, ZenonT(60) DEF CueInv, CueTyped, TrackSelected, DisownedSaves, CueSaves
  <1>8. CueTyped'
    BY <1>5, <1>6, <1>7 DEF CueInv, CueTyped, TrackSelected, DisownedLoads, DisownedSaves, NewLoad, EmptyPage, NoDraft
  <1>9. LoadsKept'
    BY <1>2, <1>4 DEF LoadsKept, TrackSelected, EmptyPage
  <1>10. SavesKept'
    BY <1>3 DEF SavesKept, TrackSelected
  <1>11. AcknowledgedSaveStays'
    BY CueBounds DEF CueInv, AcknowledgedSaveStays, LoadsKept, SavesKept, AckedKept, CueTyped, CuePages, CueLoads, CueSaves, Rows, TrackSelected, DisownedLoads, DisownedSaves, NewLoad, EmptyPage, NoDraft
  <1>12. PageKept'
    BY <1>2, <1>4 DEF PageKept, RowKept, TrackSelected, EmptyPage, NoDraft
  <1>13. UNCHANGED <<cdRow, cdLocal, cdApply, cdRecovery, cdWritten, cdAcked>>
    BY DEF TrackSelected, DisownedLoads, DisownedSaves, NewLoad, EmptyPage, NoDraft
  <1> QED BY <1>8, <1>9, <1>10, <1>11, <1>12, <1>13 DEF CueInv, AckedKept, RecoveryKept, AppliedWasWritten

LEMMA LoadReadKeeps == ASSUME CueInv, NEW l \in cdLoads, LoadRead(l) PROVE CueInv'
  <1>1. cdLoads' \subseteq CueLoads
    BY CueBounds DEF CueInv, CueTyped, LoadRead, CueLoads
  <1>2. CueTyped'
    BY <1>1 DEF CueInv, CueTyped, LoadRead
  <1>3. LoadsKept'
    <2>1. PICK read \in {[l EXCEPT !.step = "read", !.row = cdRow], [l EXCEPT !.step = "failed"]} :
            cdLoads' = (cdLoads \ {l}) \cup {read}
      BY DEF LoadRead
    <2>2. l \in CueLoads /\ l.step = "asked"
      BY DEF CueInv, CueTyped, LoadRead
    <2>3. read.current = l.current /\ (read.step = "read" => read.row = cdRow)
      BY <2>1, <2>2 DEF CueLoads
    <2>4. cdRow.rev >= cdAcked
      BY DEF CueInv, AckedKept, CueTyped, Rows
    <2>5. UNCHANGED <<cdPage, cdAcked>>
      BY DEF LoadRead
    <2> QED BY <2>1, <2>3, <2>4, <2>5 DEF CueInv, LoadsKept
  <1>4. PageKept'
    BY CueBounds DEF CueInv, PageKept, RowKept, CueTyped, CuePages, CueLoads, Rows, Cues, LoadRead
  <1>5. UNCHANGED <<cdRow, cdLocal, cdPage, cdSaves, cdApply, cdRecovery, cdWritten, cdAcked>>
    BY DEF LoadRead
  <1> QED BY <1>2, <1>3, <1>4, <1>5 DEF CueInv, SavesKept, AckedKept, RecoveryKept, AppliedWasWritten, AcknowledgedSaveStays

LEMMA LoadAnsweredKeeps == ASSUME CueInv, NEW l \in cdLoads, LoadAnswered(l) PROVE CueInv'
  <1>1. cdPage' \in CuePages
    BY CueBounds, ZenonT(60) DEF CueInv, CueTyped, LoadAnswered, CuePages, CueLoads, Rows, Cues
  <1>2. cdLoads' \subseteq CueLoads
    BY CueBounds DEF CueInv, CueTyped, LoadAnswered
  <1>3. CueTyped'
    BY <1>1, <1>2 DEF CueInv, CueTyped, LoadAnswered, ResponseIsCurrent
  <1>4. LoadsKept'
    BY CueBounds DEF CueInv, LoadsKept, AcknowledgedSaveStays, CueTyped, CueLoads, CuePages, Rows, LoadAnswered, ResponseIsCurrent
  <1>5. SavesKept'
    BY CueBounds DEF CueInv, SavesKept, LoadsKept, CueTyped, CueSaves, CueLoads, CuePages, Rows, LoadAnswered, ResponseIsCurrent
  <1>6. AcknowledgedSaveStays'
    BY CueBounds DEF CueInv, AcknowledgedSaveStays, LoadsKept, SavesKept, AckedKept, CueTyped, CuePages, CueLoads, CueSaves, Rows, LoadAnswered, ResponseIsCurrent
  <1>7. PageKept'
    BY CueBounds DEF CueInv, PageKept, RowKept, CueTyped, CuePages, CueLoads, Rows, Cues, LoadAnswered, ResponseIsCurrent
  <1>8. UNCHANGED <<cdRow, cdLocal, cdApply, cdRecovery, cdWritten, cdAcked>>
    BY DEF LoadAnswered, ResponseIsCurrent
  <1> QED BY <1>3, <1>4, <1>5, <1>6, <1>7, <1>8 DEF CueInv, AckedKept, RecoveryKept, AppliedWasWritten

LEMMA EditKeeps == ASSUME CueInv, CuesEdited PROVE CueInv'
  <1>1. cdPage' \in CuePages
    BY CueBounds DEF CueInv, CueTyped, CuesEdited, CuePages, Cues, DiscardBaseline
  <1>2. CueTyped'
    BY <1>1 DEF CueInv, CueTyped, CuesEdited
  <1>3. LoadsKept'
    BY CueBounds DEF CueInv, LoadsKept, AcknowledgedSaveStays, CueTyped, CueLoads, CuePages, Rows, CuesEdited
  <1>4. SavesKept'
    BY CueBounds DEF CueInv, SavesKept, LoadsKept, CueTyped, CueSaves, CueLoads, CuePages, Rows, CuesEdited
  <1>5. AcknowledgedSaveStays'
    BY CueBounds DEF CueInv, AcknowledgedSaveStays, LoadsKept, SavesKept, AckedKept, CueTyped, CuePages, CueLoads, CueSaves, Rows, CuesEdited
  <1>6. PageKept'
    <2>1. cdPage.status = "loaded" /\ cdPage \in CuePages
      BY DEF CuesEdited, CueInv, CueTyped
    <2>2. PICK cues \in CueSets : cdPage' = [cdPage EXCEPT !.working = cues]
      BY <2>1, CueBounds DEF CuesEdited, DiscardBaseline, CuePages, Cues
    <2> QED BY <2>1, <2>2 DEF CueInv, PageKept, CuePages, CuesEdited
  <1>7. UNCHANGED <<cdRow, cdLocal, cdApply, cdRecovery, cdWritten, cdAcked>>
    BY DEF CuesEdited
  <1> QED BY <1>2, <1>3, <1>4, <1>5, <1>6, <1>7 DEF CueInv, AckedKept, RecoveryKept, AppliedWasWritten

LEMMA SaveAskedKeeps == ASSUME CueInv, SaveAsked PROVE CueInv'
  <1>1. cdPage.working \in CueSets /\ cdPage.rev \in 0 .. MaxRevision /\ ~cdPage.saving /\ cdPage \in CuePages
    BY DEF SaveAsked, Editable, CueInv, PageKept, CueTyped, CuePages
  <1>2. cdPage' \in CuePages
    BY CueBounds DEF CueInv, CueTyped, SaveAsked, CuePages
  <1>3. cdSaves' \subseteq CueSaves
    <2>1. [current |-> TRUE, step |-> "asked", rev |-> cdPage.rev, cues |-> cdPage.working, row |-> NoDraft]
          \in CueSaves
      BY <1>1, CueConstants DEF CueSaves
    <2> QED BY <2>1 DEF CueInv, CueTyped, SaveAsked
  <1>4. CueTyped'
    BY <1>2, <1>3 DEF CueInv, CueTyped, SaveAsked, NoDraft, Editable
  <1>5. LoadsKept'
    BY CueBounds DEF CueInv, LoadsKept, AcknowledgedSaveStays, CueTyped, CueLoads, CuePages, Rows, SaveAsked, NoDraft, Editable
  <1>6. SavesKept'
    <2> DEFINE new == [current |-> TRUE, step |-> "asked", rev |-> cdPage.rev, cues |-> cdPage.working,
                       row |-> NoDraft]
    <2>1. cdSaves' = cdSaves \cup {new} /\ new.current /\ new.step = "asked"
      BY DEF SaveAsked
    <2> HIDE DEF new
    <2>2. \A s \in cdSaves : ~s.current
      BY <1>1 DEF CueInv, SavesKept
    <2>3. cdPage'.saving /\ cdPage'.status = "loaded"
      BY <1>1 DEF SaveAsked, Editable, CuePages
    <2>4. UNCHANGED <<cdAcked, cdRow>>
      BY DEF SaveAsked
    <2> QED BY <2>1, <2>2, <2>3, <2>4 DEF CueInv, SavesKept
  <1>7. AcknowledgedSaveStays'
    BY CueBounds DEF CueInv, AcknowledgedSaveStays, LoadsKept, SavesKept, AckedKept, CueTyped, CuePages, CueLoads, CueSaves, Rows, SaveAsked, NoDraft, Editable
  <1>8. PageKept'
    BY CueBounds DEF CueInv, PageKept, RowKept, CueTyped, CuePages, CueLoads, Rows, Cues, SaveAsked, NoDraft, Editable
  <1>9. UNCHANGED <<cdRow, cdLocal, cdApply, cdRecovery, cdWritten, cdAcked>>
    BY DEF SaveAsked, NoDraft, Editable
  <1> QED BY <1>4, <1>5, <1>6, <1>7, <1>8, <1>9 DEF CueInv, AckedKept, RecoveryKept, AppliedWasWritten

LEMMA SaveReachedKeeps == ASSUME CueInv, NEW s \in cdSaves, SaveReached(s) PROVE CueInv'
  <1>1. s \in CueSaves /\ s.cues \in CueSets /\ cdRow.rev \in Nat /\ cdAcked \in Nat /\ cdAcked <= cdRow.rev
    BY DEF CueInv, CueTyped, CueSaves, Rows, AckedKept
  <1>2. cdRow.rev < MaxRevision =>
        /\ SavedRow(cdRow, s.cues) \in Rows /\ RowKept(SavedRow(cdRow, s.cues))
        /\ SavedRow(cdRow, s.cues).rev = cdRow.rev + 1
        /\ SavedRow(cdRow, s.cues).applied = cdRow.applied
        /\ cdRow.local # NoCues => SavedRow(cdRow, s.cues).base = cdRow.base
    BY <1>1, SavedRowKept DEF CueInv
  <1>3. \/ cdRow' = cdRow
        \/ cdRow.rev < MaxRevision /\ cdRow' = SavedRow(cdRow, s.cues)
    BY DEF SaveReached
  <1>4. [s EXCEPT !.step = "refused", !.row = NoDraft] \in CueSaves
    BY <1>1, CueConstants DEF CueSaves
  <1>5. cdRow.rev < MaxRevision => [s EXCEPT !.step = "saved", !.row = SavedRow(cdRow, s.cues)] \in CueSaves
    BY <1>1, <1>2 DEF CueSaves
  <1>6. \/ cdSaves' = cdSaves \ {s}
        \/ s.current /\ cdSaves' = (cdSaves \ {s}) \cup {[s EXCEPT !.step = "refused", !.row = NoDraft]}
        \/ /\ s.current /\ cdRow.rev < MaxRevision /\ cdRow' = SavedRow(cdRow, s.cues)
           /\ cdSaves' = (cdSaves \ {s}) \cup {[s EXCEPT !.step = "saved", !.row = SavedRow(cdRow, s.cues)]}
    BY DEF SaveReached
  <1>7. UNCHANGED <<cdLocal, cdPage, cdLoads, cdApply, cdRecovery, cdWritten, cdAcked>>
    BY DEF SaveReached
  <1>8. cdRow' \in Rows
    BY <1>2, <1>3 DEF CueInv, CueTyped
  <1>9. cdSaves' \subseteq CueSaves
    BY <1>4, <1>5, <1>6 DEF CueInv, CueTyped
  <1>10. CueTyped'
    BY <1>8, <1>9 DEF CueInv, CueTyped, SaveReached
  <1>11. RowKept(cdRow)'
    BY <1>2, <1>3 DEF CueInv
  <1>12. SavesKept'
    <2>1. cdRow'.rev >= cdRow.rev
      BY <1>1, <1>2, <1>3
    <2>2. CASE cdSaves' = cdSaves \ {s}
      BY <1>1, <1>7, <1>8, <1>9, <2>1, <2>2 DEF CueInv, SavesKept, CueTyped, CueSaves, Rows
    <2>3. ASSUME NEW new \in CueSaves, cdSaves' = (cdSaves \ {s}) \cup {new}, s.current,
                 new.current, new.step = "saved" => new.row = cdRow' /\ cdRow'.rev >= cdAcked
          PROVE  SavesKept'
      BY <1>1, <1>7, <1>8, <1>9, <2>1, <2>3 DEF CueInv, SavesKept, CueTyped, CueSaves, Rows
    <2>4. CASE s.current /\ cdSaves' = (cdSaves \ {s}) \cup {[s EXCEPT !.step = "refused", !.row = NoDraft]}
      BY <1>1, <1>4, <2>3, <2>4 DEF CueSaves
    <2>5. CASE /\ s.current /\ cdRow.rev < MaxRevision /\ cdRow' = SavedRow(cdRow, s.cues)
               /\ cdSaves' = (cdSaves \ {s}) \cup {[s EXCEPT !.step = "saved", !.row = SavedRow(cdRow, s.cues)]}
      <3> DEFINE new == [s EXCEPT !.step = "saved", !.row = SavedRow(cdRow, s.cues)]
      <3>1. new \in CueSaves /\ new.current /\ new.row = cdRow'
        BY <1>1, <1>5, <2>5 DEF CueSaves
      <3>2. cdRow'.rev >= cdAcked
        BY <1>1, <2>1, <2>5, <1>2
      <3>3. cdSaves' = (cdSaves \ {s}) \cup {new}
        BY <2>5
      <3> HIDE DEF new
      <3> QED BY <2>3, <2>5, <3>1, <3>2, <3>3
    <2> QED BY <1>6, <2>2, <2>4, <2>5
  <1>13. AckedKept'
    BY <1>1, <1>2, <1>3, <1>7 DEF AckedKept
  <1>14. AppliedWasWritten'
    BY <1>2, <1>3, <1>7 DEF CueInv, AppliedWasWritten, RowKept
  <1>15. UNCHANGED <<cdLocal, cdPage, cdLoads, cdApply, cdRecovery, cdWritten, cdAcked>>
    BY DEF SaveReached
  <1> QED BY <1>10, <1>11, <1>12, <1>13, <1>14, <1>15 DEF CueInv, LoadsKept, RecoveryKept, AcknowledgedSaveStays, PageKept

LEMMA SaveAnsweredKeeps == ASSUME CueInv, NEW s \in cdSaves, SaveAnswered(s) PROVE CueInv'
  <1>1. s.current /\ cdPage.status = "loaded" /\ s \in CueSaves
    BY DEF SaveAnswered, CueInv, SavesKept, CueTyped
  <1>2. \A l \in cdLoads : ~l.current
    BY <1>1 DEF CueInv, LoadsKept
  <1>3. cdPage' \in CuePages
    BY CueBounds, ZenonT(60) DEF CueInv, CueTyped, SaveAnswered, CuePages, CueSaves, Rows
  <1>4. cdSaves' \subseteq CueSaves
    BY CueBounds DEF CueInv, CueTyped, SaveAnswered
  <1>5. cdApply' \in CueFlows
    BY CueBounds, SupersededFlow DEF CueInv, CueTyped, SaveAnswered, CueInv
  <1>6. cdAcked' \in 0 .. MaxRevision
    BY CueBounds DEF CueInv, CueTyped, SaveAnswered, CueSaves, Rows
  <1>7. CueTyped'
    BY <1>3, <1>4, <1>5, <1>6 DEF CueInv, CueTyped, SaveAnswered
  <1>8. FlowKept(cdApply, cdLocal, cdRecovery)'
    BY SupersededFlow DEF SaveAnswered, CueInv, CueTyped
  <1>9. LoadsKept'
    BY <1>2 DEF LoadsKept, SaveAnswered
  <1>10. SavesKept'
    BY CueBounds DEF CueInv, SavesKept, LoadsKept, CueTyped, CueSaves, CueLoads, CuePages, Rows, SaveAnswered
  <1>11. AckedKept'
    BY CueBounds DEF CueInv, AckedKept, SavesKept, CueTyped, CueSaves, Rows, SaveAnswered
  <1>12. AcknowledgedSaveStays'
    <2>1. CASE s.step = "saved"
      <3>1. s.row.rev \in Nat /\ cdAcked \in Nat /\ s.row.rev >= cdAcked /\ cdPage \in CuePages
        BY <1>1, <2>1 DEF CueInv, CueTyped, SavesKept, CueSaves, Rows
      <3>2. cdAcked' = IF s.row.rev > cdAcked THEN s.row.rev ELSE cdAcked
        BY <2>1 DEF SaveAnswered
      <3>3. cdAcked' = s.row.rev
        BY <3>1, <3>2
      <3>4. cdPage' = [cdPage EXCEPT !.saving = FALSE, !.rev = s.row.rev, !.saved = s.row.desired,
                         !.proven = s.row.local # NoCues]
        BY <2>1 DEF SaveAnswered
      <3>5. cdPage'.rev = s.row.rev
        BY <3>1, <3>4 DEF CuePages
      <3> QED BY <3>1, <3>3, <3>5 DEF AcknowledgedSaveStays
    <2>2. CASE s.step = "refused"
      BY <1>1, <2>2 DEF SaveAnswered, CueInv, CueTyped, AcknowledgedSaveStays, CuePages
    <2> QED BY <2>1, <2>2 DEF SaveAnswered
  <1>13. PageKept'
    BY CueBounds DEF CueInv, PageKept, RowKept, CueTyped, CuePages, CueLoads, Rows, Cues, SaveAnswered
  <1>14. UNCHANGED <<cdRow, cdRecovery, cdWritten>>
    BY DEF SaveAnswered
  <1> QED BY <1>7, <1>8, <1>9, <1>10, <1>11, <1>12, <1>13, <1>14 DEF CueInv, RecoveryKept, AppliedWasWritten

LEMMA PreflightAskedKeeps == ASSUME CueInv, NEW scope \in {"track", "all"}, PreflightAsked(scope) PROVE CueInv'
  <1>1. cdApply' \in CueFlows
    BY CueBounds, CueConstants DEF CueInv, CueTyped, PreflightAsked, CueFlows, CuePages
  <1>2. CueTyped'
    BY <1>1 DEF CueInv, CueTyped, PreflightAsked, ApplyFrame
  <1>3. FlowKept(cdApply, cdLocal, cdRecovery)'
    BY CueBounds, CueConstants, IdleFlowKept DEF CueInv, CueTyped, FlowKept, CueFlows, CueLocals, NoToken, PreflightAsked, ApplyFrame
  <1>4. UNCHANGED <<cdRow, cdPage, cdLoads, cdSaves, cdRecovery, cdWritten, cdAcked>>
    BY DEF PreflightAsked, ApplyFrame
  <1> QED BY <1>2, <1>3, <1>4 DEF CueInv, LoadsKept, SavesKept, AckedKept, RecoveryKept, AppliedWasWritten, AcknowledgedSaveStays, PageKept

LEMMA ObservedKeeps == ASSUME CueInv, BaselineObserved PROVE CueInv'
  <1>1. cdApply' \in CueFlows
    BY CueBounds, EndedFlow, ZenonT(60) DEF CueInv, CueTyped, BaselineObserved, CueFlows, CueLocals, Cues
  <1>2. CueTyped'
    BY <1>1 DEF CueInv, CueTyped, BaselineObserved, ApplyFrame
  <1>3. FlowKept(cdApply, cdLocal, cdRecovery)'
    <2>1. CASE cdApply' = Ended(cdApply)
      BY <2>1, EndedFlow, CueBounds DEF CueInv, CueTyped, FlowKept, CueLocals, NoToken, BaselineObserved
    <2>2. CASE cdApply.pc = "observing" /\ cdApply' = [cdApply EXCEPT !.pc = "enrolling", !.seen = cdLocal.cues]
      BY <2>2, CueBounds DEF CueInv, CueTyped, FlowKept, CueFlows, CueLocals, NoToken, BaselineObserved
    <2> QED BY <2>1, <2>2 DEF BaselineObserved
  <1>4. UNCHANGED <<cdRow, cdPage, cdLoads, cdSaves, cdRecovery, cdWritten, cdAcked>>
    BY DEF BaselineObserved, ApplyFrame
  <1> QED BY <1>2, <1>3, <1>4 DEF CueInv, LoadsKept, SavesKept, AckedKept, RecoveryKept, AppliedWasWritten, AcknowledgedSaveStays, PageKept

LEMMA EnrolledKeeps == ASSUME CueInv, BaselineEnrolled PROVE CueInv'
  <1>1. \/ cdApply' = Ended(cdApply)
        \/ cdApply' = [cdApply EXCEPT !.pc = "refreshing", !.rev = 0, !.seen = NoCues]
    BY DEF BaselineEnrolled
  <1>2. cdApply.pc = "enrolling" /\ cdApply.token = NoToken /\ cdApply.seen \in CueSets
    BY DEF CueInv, FlowKept, BaselineEnrolled
  <1>3. \/ cdRow' = cdRow
        \/ cdRow' = [cdRow EXCEPT !.local = cdApply.seen]
    BY DEF BaselineEnrolled
  <1>4. cdApply' \in CueFlows
    <2>1. 0 \in 0 .. MaxRevision /\ NoCues \in Cues /\ cdApply \in CueFlows
      BY CueBounds DEF CueInv, CueTyped, Cues
    <2>2. [cdApply EXCEPT !.pc = "refreshing", !.rev = 0, !.seen = NoCues] \in CueFlows
      BY <2>1 DEF CueFlows
    <2> QED BY <1>1, <2>2, EndedFlow DEF CueInv, CueTyped
  <1>5. cdRow' \in Rows
    BY <1>2, <1>3 DEF CueInv, CueTyped, Rows, Cues
  <1>6. cdPage' \in CuePages
    BY CueBounds DEF CueInv, CueTyped, BaselineEnrolled, CuePages
  <1>7. CueTyped'
    BY <1>4, <1>5, <1>6 DEF CueInv, CueTyped, BaselineEnrolled, ApplyFrame
  <1>8. RowKept(cdRow)'
    BY <1>2, <1>3, CueBounds DEF CueInv, CueTyped, RowKept, Rows
  <1>9. FlowKept(cdApply, cdLocal, cdRecovery)'
    <2>1. CASE cdApply' = Ended(cdApply)
      BY <2>1, EndedFlow, CueBounds DEF CueInv, CueTyped, FlowKept, CueLocals, NoToken, BaselineEnrolled, ApplyFrame
    <2>2. CASE cdApply' = [cdApply EXCEPT !.pc = "refreshing", !.rev = 0, !.seen = NoCues]
      BY <1>2, <2>2, CueBounds DEF CueInv, CueTyped, FlowKept, CueFlows, CueLocals, NoToken, BaselineEnrolled,
                                   ApplyFrame
    <2> QED BY <1>1, <2>1, <2>2
  <1>10. LoadsKept'
    BY CueBounds DEF CueInv, LoadsKept, AcknowledgedSaveStays, CueTyped, CueLoads, CuePages, Rows, BaselineEnrolled, ApplyFrame
  <1>11. SavesKept'
    BY CueBounds DEF CueInv, SavesKept, LoadsKept, CueTyped, CueSaves, CueLoads, CuePages, Rows, BaselineEnrolled, ApplyFrame
  <1>12. AckedKept'
    BY CueBounds DEF CueInv, AckedKept, SavesKept, CueTyped, CueSaves, Rows, BaselineEnrolled, ApplyFrame
  <1>13. AppliedWasWritten'
    BY <1>3 DEF CueInv, CueTyped, AppliedWasWritten, Rows, BaselineEnrolled
  <1>14. AcknowledgedSaveStays'
    BY CueBounds DEF CueInv, AcknowledgedSaveStays, LoadsKept, SavesKept, AckedKept, CueTyped, CuePages, CueLoads, CueSaves, Rows, BaselineEnrolled, ApplyFrame
  <1>15. PageKept'
    BY CueBounds DEF CueInv, PageKept, RowKept, CueTyped, CuePages, CueLoads, Rows, Cues, BaselineEnrolled, ApplyFrame
  <1>16. UNCHANGED <<cdRecovery, cdWritten>>
    BY DEF BaselineEnrolled, ApplyFrame
  <1> QED BY <1>7, <1>8, <1>9, <1>10, <1>11, <1>12, <1>13, <1>14, <1>15, <1>16 DEF CueInv, RecoveryKept

LEMMA RefreshedKeeps == ASSUME CueInv, DraftsRefreshed PROVE CueInv'
  <1>1. \/ cdApply' = Ended(cdApply)
        \/ cdApply' = [cdApply EXCEPT !.pc = "observing", !.rev = cdRow.rev]
        \/ Pending(cdRow) /\ cdApply' = [cdApply EXCEPT !.pc = "checking", !.rev = 0, !.snap = cdRow]
    BY DEF DraftsRefreshed
  <1>2. cdApply.token = NoToken /\ cdApply \in CueFlows /\ cdRow \in Rows
    BY DEF CueInv, CueTyped, FlowKept, DraftsRefreshed
  <1>3. cdApply' \in CueFlows
    <2>1. [cdApply EXCEPT !.pc = "observing", !.rev = cdRow.rev] \in CueFlows
      BY <1>2 DEF CueFlows, Rows
    <2>2. [cdApply EXCEPT !.pc = "checking", !.rev = 0, !.snap = cdRow] \in CueFlows
      <3>1. 0 \in 0 .. MaxRevision
        BY CueBounds
      <3> QED BY <1>2, <3>1 DEF CueFlows
    <2> QED BY <1>1, <1>2, <2>1, <2>2, EndedFlow
  <1>4. CueTyped'
    BY <1>3 DEF CueInv, CueTyped, DraftsRefreshed, ApplyFrame
  <1>5. FlowKept(cdApply, cdLocal, cdRecovery)'
    <2>1. CASE cdApply' = Ended(cdApply)
      BY <2>1, EndedFlow, CueBounds DEF CueInv, CueTyped, FlowKept, CueLocals, NoToken, DraftsRefreshed, ApplyFrame
    <2>2. CASE cdApply' = [cdApply EXCEPT !.pc = "observing", !.rev = cdRow.rev]
      BY <1>2, <2>2, CueBounds DEF CueInv, CueTyped, FlowKept, CueFlows, CueLocals, NoToken, DraftsRefreshed
    <2>3. CASE Pending(cdRow) /\ cdApply' = [cdApply EXCEPT !.pc = "checking", !.rev = 0, !.snap = cdRow]
      BY <1>2, <2>3, CueBounds DEF CueInv, CueTyped, FlowKept, RowKept, Pending, CueFlows, CueLocals, NoToken,
                                   DraftsRefreshed
    <2> QED BY <1>1, <2>1, <2>2, <2>3
  <1>6. UNCHANGED <<cdRow, cdPage, cdLoads, cdSaves, cdRecovery, cdWritten, cdAcked>>
    BY DEF DraftsRefreshed, ApplyFrame
  <1> QED BY <1>4, <1>5, <1>6 DEF CueInv, LoadsKept, SavesKept, AckedKept, RecoveryKept, AppliedWasWritten, AcknowledgedSaveStays, PageKept

LEMMA CheckedKeeps == ASSUME CueInv, PreflightChecked PROVE CueInv'
  <1>1. \/ cdApply' = Ended(cdApply)
        \/ cdApply' = [NoApply EXCEPT !.pc = "ready", !.scope = cdApply.scope]
        \/ /\ cdLocal.cues = cdApply.snap.local
           /\ cdApply' = [cdApply EXCEPT !.pc = "ready", !.busy = FALSE, !.token = cdLocal.gen]
    BY DEF PreflightChecked
  <1>2. cdApply.pc = "checking" /\ cdApply \in CueFlows /\ cdLocal \in CueLocals
    BY DEF CueInv, CueTyped, PreflightChecked
  <1>3. cdApply' \in CueFlows
    <2>1. [NoApply EXCEPT !.pc = "ready", !.scope = cdApply.scope] \in CueFlows
      BY <1>2, CueConstants DEF CueFlows
    <2>2. [cdApply EXCEPT !.pc = "ready", !.busy = FALSE, !.token = cdLocal.gen] \in CueFlows
      <3>1. cdLocal.gen \in 0 .. MaxGeneration + 1
        BY <1>2, CueBounds DEF CueLocals
      <3> QED BY <1>2, <3>1 DEF CueFlows
    <2> QED BY <1>1, <1>2, <2>1, <2>2, EndedFlow
  <1>4. CueTyped'
    BY <1>3 DEF CueInv, CueTyped, PreflightChecked, ApplyFrame
  <1>5. FlowKept(cdApply, cdLocal, cdRecovery)'
    <2>1. CASE cdApply' = Ended(cdApply)
      BY <2>1, EndedFlow, CueBounds DEF CueInv, CueTyped, FlowKept, CueLocals, NoToken, PreflightChecked, ApplyFrame
    <2>2. CASE cdApply' = [NoApply EXCEPT !.pc = "ready", !.scope = cdApply.scope]
      <3>1. cdApply'.pc = "ready" /\ cdApply'.token = NoToken
        BY <2>2, CueConstants DEF CueFlows
      <3> QED BY <3>1, CueBounds DEF CueInv, CueTyped, FlowKept, CueLocals, NoToken, PreflightChecked
    <2>3. CASE /\ cdLocal.cues = cdApply.snap.local
               /\ cdApply' = [cdApply EXCEPT !.pc = "ready", !.busy = FALSE, !.token = cdLocal.gen]
      BY <1>2, <2>3, CueBounds DEF CueInv, CueTyped, FlowKept, CueFlows, CueLocals, NoToken, PreflightChecked
    <2> QED BY <1>1, <2>1, <2>2, <2>3
  <1>6. UNCHANGED <<cdRow, cdPage, cdLoads, cdSaves, cdRecovery, cdWritten, cdAcked>>
    BY DEF PreflightChecked, ApplyFrame
  <1> QED BY <1>4, <1>5, <1>6 DEF CueInv, LoadsKept, SavesKept, AckedKept, RecoveryKept, AppliedWasWritten, AcknowledgedSaveStays, PageKept

LEMMA CancelKeeps == ASSUME CueInv, ApplyCancelled PROVE CueInv'
  <1>1. cdApply' \in CueFlows
    BY CueBounds, SupersededFlow DEF CueInv, CueTyped, ApplyCancelled, CueInv
  <1>2. CueTyped'
    BY <1>1 DEF CueInv, CueTyped, ApplyCancelled, ApplyFrame
  <1>3. FlowKept(cdApply, cdLocal, cdRecovery)'
    BY CueBounds, SupersededFlow, IdleFlowKept DEF CueInv, CueTyped, FlowKept, CueFlows, CueLocals, NoToken, ApplyCancelled, ApplyFrame
  <1>4. UNCHANGED <<cdRow, cdPage, cdLoads, cdSaves, cdRecovery, cdWritten, cdAcked>>
    BY DEF ApplyCancelled, ApplyFrame
  <1> QED BY <1>2, <1>3, <1>4 DEF CueInv, LoadsKept, SavesKept, AckedKept, RecoveryKept, AppliedWasWritten, AcknowledgedSaveStays, PageKept

LEMMA ConfirmKeeps == ASSUME CueInv, ApplyConfirmed PROVE CueInv'
  <1>1. cdApply' \in CueFlows
    BY CueBounds, CueConstants DEF CueInv, CueTyped, ApplyConfirmed, CueFlows
  <1>2. CueTyped'
    BY <1>1 DEF CueInv, CueTyped, ApplyConfirmed, ApplyFrame
  <1>3. FlowKept(cdApply, cdLocal, cdRecovery)'
    BY CueBounds, CueConstants, IdleFlowKept DEF CueInv, CueTyped, FlowKept, CueFlows, CueLocals, NoToken, ApplyConfirmed, ApplyFrame
  <1>4. UNCHANGED <<cdRow, cdPage, cdLoads, cdSaves, cdRecovery, cdWritten, cdAcked>>
    BY DEF ApplyConfirmed, ApplyFrame
  <1> QED BY <1>2, <1>3, <1>4 DEF CueInv, LoadsKept, SavesKept, AckedKept, RecoveryKept, AppliedWasWritten, AcknowledgedSaveStays, PageKept

LEMMA ComparedKeeps == ASSUME CueInv, SnapshotCompared PROVE CueInv'
  <1>1. cdApply' \in CueFlows
    BY CueBounds, EndedFlow DEF CueInv, CueTyped, SnapshotCompared, CueFlows
  <1>2. CueTyped'
    BY <1>1 DEF CueInv, CueTyped, SnapshotCompared, ApplyFrame
  <1>3. FlowKept(cdApply, cdLocal, cdRecovery)'
    BY CueBounds, EndedFlow, IdleFlowKept DEF CueInv, CueTyped, FlowKept, CueFlows, CueLocals, NoToken, SnapshotCompared, ApplyFrame
  <1>4. UNCHANGED <<cdRow, cdPage, cdLoads, cdSaves, cdRecovery, cdWritten, cdAcked>>
    BY DEF SnapshotCompared, ApplyFrame
  <1> QED BY <1>2, <1>3, <1>4 DEF CueInv, LoadsKept, SavesKept, AckedKept, RecoveryKept, AppliedWasWritten, AcknowledgedSaveStays, PageKept

LEMMA BridgeKeeps == ASSUME CueInv, BridgeApplied PROVE CueInv'
  <1>1. cdApply.snap.rev > 0 /\ cdApply.snap.desired \in CueSets /\ cdApply.snap \in Rows /\ cdLocal \in CueLocals
    BY DEF CueInv, CueTyped, CueFlows, FlowKept, BridgeApplied
  <1>2. \/ cdApply' = Ended(cdApply) /\ UNCHANGED cdRecovery
        \/ /\ cdApply' = [NoApply EXCEPT !.pc = "marking", !.busy = TRUE]
           /\ cdRecovery' = [rev |-> cdApply.snap.rev, cues |-> cdApply.snap.desired]
    BY DEF BridgeApplied
  <1>3. \/ UNCHANGED cdLocal
        \/ /\ cdLocal.gen < MaxGeneration
           /\ cdLocal' = [cdLocal EXCEPT !.cues = cdApply.snap.desired, !.gen = cdLocal.gen + 1]
    BY DEF BridgeApplied, Verified, BridgeWrites
  <1>4. cdApply' \in CueFlows
    <2>1. [NoApply EXCEPT !.pc = "marking", !.busy = TRUE] \in CueFlows
      BY CueConstants DEF CueFlows
    <2> QED BY <1>2, <2>1, EndedFlow DEF CueInv, CueTyped
  <1>5. cdLocal' \in CueLocals
    <2>1. cdLocal.gen < MaxGeneration => cdLocal.gen + 1 \in 0 .. MaxGeneration
      BY <1>1, CueBounds DEF CueLocals
    <2> QED BY <1>1, <1>3, <2>1 DEF CueLocals
  <1>6. cdRecovery' \in CueRecoveries
    BY CueBounds DEF CueInv, CueTyped, BridgeApplied, CueFlows, CueRecoveries, Rows
  <1>7. cdWritten' \subseteq [rev : 1 .. MaxRevision, cues : CueSets]
    BY CueBounds DEF CueInv, CueTyped, BridgeApplied, BridgeWrites, Verified, CueFlows, CueInv, FlowKept, Rows
  <1>8. CueTyped'
    BY <1>4, <1>5, <1>6, <1>7 DEF CueInv, CueTyped, BridgeApplied, BridgeWrites, Verified, ApplyFrame
  <1>9. FlowKept(cdApply, cdLocal, cdRecovery)'
    <2>1. cdApply'.token = NoToken /\ cdApply'.pc \in {"idle", "marking"}
      BY <1>2, EndedFlow, CueConstants DEF CueInv, CueTyped, CueFlows
    <2>2. cdApply'.pc = "marking" => cdRecovery' # NoRecovery
      BY <1>1, <1>2, EndedFlow, CueConstants DEF CueInv, CueTyped
    <2> QED BY <1>5, <2>1, <2>2, CueBounds DEF FlowKept, CueLocals, NoToken
  <1>10. RecoveryKept'
    BY CueBounds DEF CueInv, RecoveryKept, NoRecovery, CueTyped, CueFlows, BridgeApplied, BridgeWrites, Verified, ApplyFrame
  <1>11. AppliedWasWritten'
    BY CueBounds DEF CueInv, AppliedWasWritten, RowKept, RecoveryKept, CueTyped, Rows, NoRecovery, CueRecoveries, BridgeApplied, BridgeWrites, Verified, ApplyFrame
  <1>12. UNCHANGED <<cdRow, cdPage, cdLoads, cdSaves, cdAcked>>
    BY DEF BridgeApplied, BridgeWrites, Verified, ApplyFrame
  <1> QED BY <1>8, <1>9, <1>10, <1>11, <1>12 DEF CueInv, LoadsKept, SavesKept, AckedKept, AcknowledgedSaveStays, PageKept

LEMMA MarkKeeps == ASSUME CueInv, ApplyMarked PROVE CueInv'
  <1>1. cdApply' \in CueFlows
    BY CueBounds, EndedFlow DEF CueInv, CueTyped, ApplyMarked, CueFlows
  <1>2. cdRow' \in Rows
    BY CueBounds DEF CueInv, CueTyped, ApplyMarked, Rows, CueRecoveries
  <1>3. CueTyped'
    BY <1>1, <1>2 DEF CueInv, CueTyped, ApplyMarked, ApplyFrame
  <1>4. RowKept(cdRow)'
    BY CueBounds DEF CueInv, CueTyped, RowKept, Rows, ApplyMarked, ApplyFrame
  <1>5. FlowKept(cdApply, cdLocal, cdRecovery)'
    BY CueBounds, EndedFlow, IdleFlowKept DEF CueInv, CueTyped, FlowKept, CueFlows, CueLocals, NoToken, ApplyMarked, ApplyFrame
  <1>6. SavesKept'
    BY CueBounds DEF CueInv, SavesKept, LoadsKept, CueTyped, CueSaves, CueLoads, CuePages, Rows, ApplyMarked, ApplyFrame
  <1>7. AckedKept'
    BY CueBounds DEF CueInv, AckedKept, SavesKept, CueTyped, CueSaves, Rows, ApplyMarked, ApplyFrame
  <1>8. AppliedWasWritten'
    <2>1. cdApply.pc = "marking" /\ cdRecovery # NoRecovery
      BY DEF CueInv, FlowKept, ApplyMarked
    <2>2. [rev |-> cdRecovery.rev, cues |-> cdRecovery.cues] \in cdWritten
      BY <2>1 DEF CueInv, CueTyped, RecoveryKept, CueRecoveries
    <2>3. CASE cdRow' = cdRow
      BY <2>3 DEF CueInv, AppliedWasWritten, ApplyMarked
    <2>4. CASE cdRow' = [cdRow EXCEPT !.applied = cdRecovery.rev, !.base = cdRecovery.cues, !.local = cdRecovery.cues]
      BY <2>2, <2>4 DEF CueInv, CueTyped, Rows, AppliedWasWritten, ApplyMarked
    <2> QED BY <2>3, <2>4 DEF ApplyMarked
  <1>9. UNCHANGED <<cdPage, cdLoads, cdRecovery, cdWritten, cdAcked>>
    BY DEF ApplyMarked, ApplyFrame
  <1> QED BY <1>3, <1>4, <1>5, <1>6, <1>7, <1>8, <1>9 DEF CueInv, LoadsKept, RecoveryKept, AcknowledgedSaveStays, PageKept

LEMMA MarkAnsweredKeeps == ASSUME CueInv, MarkAnswered PROVE CueInv'
  <1>1. cdApply' \in CueFlows
    BY CueBounds, EndedFlow DEF CueInv, CueTyped, MarkAnswered
  <1>2. cdPage' \in CuePages
    BY CueBounds DEF CueInv, CueTyped, MarkAnswered, CuePages
  <1>3. cdRecovery' \in CueRecoveries
    BY CueBounds, CueConstants DEF CueInv, CueTyped, MarkAnswered
  <1>4. CueTyped'
    BY <1>1, <1>2, <1>3 DEF CueInv, CueTyped, MarkAnswered, ApplyFrame
  <1>5. FlowKept(cdApply, cdLocal, cdRecovery)'
    BY CueBounds, EndedFlow, IdleFlowKept DEF CueInv, CueTyped, FlowKept, CueFlows, CueLocals, NoToken, MarkAnswered, ApplyFrame
  <1>6. LoadsKept'
    BY CueBounds DEF CueInv, LoadsKept, AcknowledgedSaveStays, CueTyped, CueLoads, CuePages, Rows, MarkAnswered, ApplyFrame
  <1>7. SavesKept'
    BY CueBounds DEF CueInv, SavesKept, LoadsKept, CueTyped, CueSaves, CueLoads, CuePages, Rows, MarkAnswered, ApplyFrame
  <1>8. RecoveryKept'
    BY CueBounds DEF CueInv, RecoveryKept, NoRecovery, CueTyped, CueFlows, MarkAnswered, ApplyFrame
  <1>9. AcknowledgedSaveStays'
    BY CueBounds DEF CueInv, AcknowledgedSaveStays, LoadsKept, SavesKept, AckedKept, CueTyped, CuePages, CueLoads, CueSaves, Rows, MarkAnswered, ApplyFrame
  <1>10. PageKept'
    BY CueBounds DEF CueInv, PageKept, RowKept, CueTyped, CuePages, CueLoads, Rows, Cues, MarkAnswered, ApplyFrame
  <1>11. UNCHANGED <<cdRow, cdWritten, cdAcked>>
    BY DEF MarkAnswered, ApplyFrame
  <1> QED BY <1>4, <1>5, <1>6, <1>7, <1>8, <1>9, <1>10, <1>11 DEF CueInv, AckedKept, AppliedWasWritten

LEMMA RetryKeeps == ASSUME CueInv, RebaseRetried PROVE CueInv'
  <1>1. cdApply' \in CueFlows
    BY CueBounds, CueConstants DEF CueInv, CueTyped, RebaseRetried, CueFlows
  <1>2. CueTyped'
    BY <1>1 DEF CueInv, CueTyped, RebaseRetried, ApplyFrame
  <1>3. FlowKept(cdApply, cdLocal, cdRecovery)'
    BY CueBounds, CueConstants, IdleFlowKept DEF CueInv, CueTyped, FlowKept, CueFlows, CueLocals, NoToken, RebaseRetried, ApplyFrame
  <1>4. UNCHANGED <<cdRow, cdPage, cdLoads, cdSaves, cdRecovery, cdWritten, cdAcked>>
    BY DEF RebaseRetried, ApplyFrame
  <1> QED BY <1>2, <1>3, <1>4 DEF CueInv, LoadsKept, SavesKept, AckedKept, RecoveryKept, AppliedWasWritten, AcknowledgedSaveStays, PageKept

LEMMA OtherSaveKeeps == ASSUME CueInv, OtherSessionSaves PROVE CueInv'
  <1>1. PICK cues \in CueSets : cdRow.rev < MaxRevision /\ cdRow' = SavedRow(cdRow, cues)
    BY DEF OtherSessionSaves
  <1>2. /\ cdRow' \in Rows /\ RowKept(cdRow') /\ cdRow'.rev = cdRow.rev + 1 /\ cdRow'.applied = cdRow.applied
        /\ cdRow.local # NoCues => cdRow'.base = cdRow.base
    BY <1>1, SavedRowKept DEF CueInv
  <1>3. cdRow.rev \in Nat /\ cdAcked \in Nat
    BY DEF CueInv, CueTyped, Rows
  <1>4. cdRow' \in Rows
    BY <1>2
  <1>5. CueTyped'
    BY <1>4 DEF CueInv, CueTyped, OtherSessionSaves
  <1>6. RowKept(cdRow)'
    BY <1>2
  <1>7. SavesKept'
    BY <1>2, <1>3 DEF CueInv, CueTyped, CueSaves, Rows, SavesKept, OtherSessionSaves
  <1>8. AckedKept'
    BY <1>2, <1>3 DEF CueInv, AckedKept, OtherSessionSaves
  <1>9. AppliedWasWritten'
    BY <1>2 DEF CueInv, AppliedWasWritten, RowKept, OtherSessionSaves
  <1>10. UNCHANGED <<cdLocal, cdPage, cdLoads, cdApply, cdRecovery, cdWritten, cdAcked>>
    BY DEF OtherSessionSaves
  <1> QED BY <1>5, <1>6, <1>7, <1>8, <1>9, <1>10 DEF CueInv, LoadsKept, RecoveryKept, AcknowledgedSaveStays, PageKept

LEMMA RekordboxKeeps == ASSUME CueInv, RekordboxEdits PROVE CueInv'
  <1>1. cdLocal' \in CueLocals
    <2>1. cdLocal.gen + 1 \in 0 .. MaxGeneration
      BY CueBounds DEF CueInv, CueTyped, RekordboxEdits, CueLocals
    <2>2. PICK cues \in CueSets : cdLocal' = [cdLocal EXCEPT !.cues = cues, !.gen = cdLocal.gen + 1]
      BY DEF RekordboxEdits
    <2> QED BY <2>1, <2>2 DEF CueInv, CueTyped, CueLocals
  <1>2. CueTyped'
    BY <1>1 DEF CueInv, CueTyped, RekordboxEdits
  <1>3. FlowKept(cdApply, cdLocal, cdRecovery)'
    BY CueBounds, IdleFlowKept DEF CueInv, CueTyped, FlowKept, CueFlows, CueLocals, NoToken, RekordboxEdits
  <1>4. UNCHANGED <<cdRow, cdPage, cdLoads, cdSaves, cdRecovery, cdWritten, cdAcked>>
    BY DEF RekordboxEdits
  <1> QED BY <1>2, <1>3, <1>4 DEF CueInv, LoadsKept, SavesKept, AckedKept, RecoveryKept, AppliedWasWritten, AcknowledgedSaveStays, PageKept

LEMMA ReloadKeeps == ASSUME CueInv, PageReloaded PROVE CueInv'
  <1>1. cdPage' \in CuePages
    BY CueBounds, CueConstants DEF CueInv, CueTyped, PageReloaded
  <1>2. cdApply' \in CueFlows
    BY CueBounds, CueConstants DEF CueInv, CueTyped, PageReloaded
  <1>3. cdRecovery' \in CueRecoveries
    BY CueBounds, CueConstants DEF CueInv, CueTyped, PageReloaded
  <1>4. cdLoads' \subseteq CueLoads
    BY CueBounds DEF CueInv, CueTyped, PageReloaded
  <1>5. cdSaves' \subseteq CueSaves
    BY CueBounds DEF CueInv, CueTyped, PageReloaded
  <1>6. CueTyped'
    BY <1>1, <1>2, <1>3, <1>4, <1>5 DEF CueInv, CueTyped, PageReloaded
  <1>7. FlowKept(cdApply, cdLocal, cdRecovery)'
    BY CueBounds, CueConstants, IdleFlowKept DEF CueInv, CueTyped, FlowKept, CueFlows, CueLocals, NoToken, PageReloaded
  <1>8. LoadsKept'
    BY CueBounds DEF CueInv, LoadsKept, AcknowledgedSaveStays, CueTyped, CueLoads, CuePages, Rows, PageReloaded
  <1>9. SavesKept'
    BY CueBounds DEF CueInv, SavesKept, LoadsKept, CueTyped, CueSaves, CueLoads, CuePages, Rows, PageReloaded
  <1>10. RecoveryKept'
    BY CueBounds DEF CueInv, RecoveryKept, NoRecovery, CueTyped, CueFlows, PageReloaded
  <1>11. AcknowledgedSaveStays'
    BY DEF AcknowledgedSaveStays, PageReloaded, EmptyPage
  <1>12. PageKept'
    BY DEF PageKept, PageReloaded, EmptyPage
  <1>13. UNCHANGED <<cdRow, cdWritten, cdAcked>>
    BY DEF PageReloaded
  <1> QED BY <1>6, <1>7, <1>8, <1>9, <1>10, <1>11, <1>12, <1>13 DEF CueInv, AckedKept, AppliedWasWritten

\* The invariant holds at first, and every step of the page, of another session, of
\* Rekordbox and of the bridge preserves it.
LEMMA CueInitInv == CueInit => CueInv
  <1> SUFFICES ASSUME CueInit PROVE CueInv
    OBVIOUS
  <1>1. CueTyped /\ RowKept(cdRow)
    <2>1. cdLocal \in CueLocals
      BY CueBounds DEF CueInit, CueLocals, Cues
    <2>2. 0 \in 0 .. MaxRevision
      BY CueBounds
    <2>3. RowKept(NoDraft)
      BY DEF RowKept, NoDraft
    <2> QED BY <2>1, <2>2, <2>3, CueConstants DEF CueInit, CueTyped
  <1>2. FlowKept(cdApply, cdLocal, cdRecovery)
    BY <1>1, IdleFlowKept, CueConstants DEF CueInit, CueTyped
  <1> QED BY <1>1, <1>2, CueBounds DEF CueInit, CueInv, LoadsKept, PageKept, SavesKept, AckedKept, RecoveryKept,
             AppliedWasWritten, AcknowledgedSaveStays, EmptyPage, NoDraft, NoRecovery

LEMMA CueStepInv == CueInv /\ [CueNext]_cueVars => CueInv'
  <1> SUFFICES ASSUME CueInv, [CueNext]_cueVars PROVE CueInv'
    OBVIOUS
  <1>1. CASE UNCHANGED cueVars
    BY <1>1 DEF cueVars, CueInv, CueTyped, LoadsKept, PageKept, SavesKept, AckedKept, RecoveryKept,
                AppliedWasWritten, AcknowledgedSaveStays
  <1>2. CASE \E sel \in BOOLEAN : TrackSelected(sel)
    BY <1>2, SelectKeeps
  <1>3. CASE \E l \in cdLoads : LoadRead(l) \/ LoadAnswered(l)
    BY <1>3, LoadReadKeeps, LoadAnsweredKeeps
  <1>4. CASE CuesEdited \/ SaveAsked \/ \E s \in cdSaves : SaveReached(s) \/ SaveAnswered(s)
    BY <1>4, EditKeeps, SaveAskedKeeps, SaveReachedKeeps, SaveAnsweredKeeps
  <1>5. CASE \E scope \in {"track", "all"} : PreflightAsked(scope)
    BY <1>5, PreflightAskedKeeps
  <1>6. CASE BaselineObserved \/ BaselineEnrolled \/ DraftsRefreshed \/ PreflightChecked
    BY <1>6, ObservedKeeps, EnrolledKeeps, RefreshedKeeps, CheckedKeeps
  <1>7. CASE ApplyCancelled \/ ApplyConfirmed \/ SnapshotCompared \/ BridgeApplied
    BY <1>7, CancelKeeps, ConfirmKeeps, ComparedKeeps, BridgeKeeps
  <1>8. CASE ApplyMarked \/ MarkAnswered \/ RebaseRetried
    BY <1>8, MarkKeeps, MarkAnsweredKeeps, RetryKeeps
  <1>9. CASE OtherSessionSaves \/ RekordboxEdits \/ PageReloaded
    BY <1>9, OtherSaveKeeps, RekordboxKeeps, ReloadKeeps
  <1> QED BY <1>1, <1>2, <1>3, <1>4, <1>5, <1>6, <1>7, <1>8, <1>9 DEF CueNext

\* A draft is recorded as applied only for cues that were written to Rekordbox,
\* however many sessions, saves and applies there are.
THEOREM AppliedCuesWereWritten == CueSpec => []AppliedWasWritten
  <1>1. CueInv => AppliedWasWritten
    BY DEF CueInv
  <1> QED BY <1>1, CueInitInv, CueStepInv, PTL DEF CueSpec

\* The editor never goes back behind a save that the user was told of.
THEOREM AcknowledgedSavesStay == CueSpec => []AcknowledgedSaveStays
  <1>1. CueInv => AcknowledgedSaveStays
    BY SMTT(30) DEF CueInv
  <1> QED BY <1>1, CueInitInv, CueStepInv, PTL DEF CueSpec

\* The step in which Apply changes Rekordbox's cues finds there the cues that the
\* draft was made against, and leaves the draft's.
CuesReplaced ==
  cdApply.pc = "applying" /\ cdLocal' # cdLocal /\ cdApply'.pc # "applying"
  => cdLocal.cues = cdApply.snap.local /\ cdLocal'.cues = cdApply.snap.desired

LEMMA CuesReplacedHolds == CueInv /\ [CueNext]_cueVars => CuesReplaced
  <1> SUFFICES ASSUME CueInv, [CueNext]_cueVars, cdApply.pc = "applying", cdLocal' # cdLocal,
                      cdApply' # cdApply
               PROVE  cdLocal.cues = cdApply.snap.local /\ cdLocal'.cues = cdApply.snap.desired
    BY DEF CuesReplaced
  <1>1. CASE BridgeApplied
    <2>1. BridgeWrites
      BY <1>1 DEF BridgeApplied, Verified
    <2> QED BY <2>1 DEF BridgeWrites, CueInv, CueTyped, CueLocals, FlowKept
  <1>2. CASE ApplyMarked \/ RekordboxEdits
    BY <1>2 DEF ApplyMarked, RekordboxEdits
  <1>3. CASE UNCHANGED cdLocal
    BY <1>3
  <1> QED BY <1>1, <1>2, <1>3 DEF CueNext, cueVars, TrackSelected, LoadRead, LoadAnswered, CuesEdited, SaveAsked,
             SaveReached, SaveAnswered, PreflightAsked, BaselineObserved, BaselineEnrolled, DraftsRefreshed,
             PreflightChecked, ApplyCancelled, ApplyConfirmed, SnapshotCompared, MarkAnswered, RebaseRetried,
             OtherSessionSaves, PageReloaded

\* Cues that were edited in Rekordbox after the draft's baseline was taken are never
\* overwritten, whatever else is saved, applied or cancelled meanwhile.
THEOREM RekordboxEditsSurvive == CueSpec => LocalEditsSurvive
  <1>1. CueInv /\ [CueNext]_cueVars => [CuesReplaced]_cueVars
    BY CuesReplacedHolds
  <1> QED BY <1>1, CueInitInv, CueStepInv, PTL DEF CueSpec, LocalEditsSurvive, CuesReplaced

-----------------------------------------------------------------------------
(* The player (AudioPlayerContext.tsx).                                    *)

\* The sets of PlayerTypeOK, by name.
PlayerCalls == [track : PlayerTracks, current : BOOLEAN, queued : BOOLEAN,
                step : {"preview", "permission", "file"}]
PlayerViews == [track : PlayerTracks \cup {NoTrack}, intent : BOOLEAN,
                source : {"none", "usb", "cloud"},
                status : {"idle", "resolving", "loading", "ready", "playing", "buffering",
                          "seeking", "paused", "ended", "error"}]
PlayerTyped ==
  /\ apUsb \in UsbStatuses /\ apCalls \subseteq PlayerCalls
  /\ apPending \in PlayerTracks \cup {NoTrack} /\ apSource \in Attached \cup {NoSource}
  /\ apUrls \in SUBSET PlayerTracks /\ apView \in PlayerViews

\* The statuses without a transport.
Silent == {"idle", "resolving", "error"}

\* At most one call counts, and nothing is pending or attached while it waits; nor is
\* anything attached while a track is pending.
OneCurrent(calls) == \A c, d \in calls : c.current /\ d.current => c = d
CurrentWaits == \A c \in apCalls : c.current => apSource = NoSource /\ apPending = NoTrack
PendingWaits == apPending # NoTrack => apSource = NoSource

PlayerInv == PlayerTyped /\ HeardIsShown /\ OneCurrent(apCalls) /\ CurrentWaits /\ PendingWaits

LEMMA PlayerConstants ==
  /\ NoTrack \notin PlayerTracks /\ NoSource \notin Attached /\ NoSource.kind = "none" /\ NoSource.track = NoTrack
  /\ Idle \in PlayerViews /\ Idle.status = "idle"
  BY PlayerAssumption DEF NoSource, Attached, Idle, PlayerViews

LEMMA ViewsAreTyped ==
  ASSUME NEW track \in PlayerTracks \cup {NoTrack}
  PROVE  /\ Resolving(track) \in PlayerViews /\ Resolving(track).status = "resolving"
         /\ Failing(track) \in PlayerViews /\ Failing(track).status = "error"
  BY DEF Resolving, Failing, PlayerViews

\* A new request leaves no call current but its own.
LEMMA SupersededCalls ==
  ASSUME NEW calls \in SUBSET PlayerCalls
  PROVE  Superseding(calls) \subseteq PlayerCalls /\ \A c \in Superseding(calls) : ~c.current
  <1>1. \A c \in PlayerCalls : [c EXCEPT !.current = FALSE] \in PlayerCalls /\ [c EXCEPT !.current = FALSE].current = FALSE
    BY DEF PlayerCalls
  <1> QED BY <1>1 DEF Superseding

LEMMA NewCallTyped ==
  ASSUME NEW track \in PlayerTracks, NEW step \in {"preview", "permission", "file"}
  PROVE  NewCall(track, step) \in PlayerCalls
  BY DEF NewCall, PlayerCalls

\* A step that releases the source and shows no transport.
LEMMA ReleasedKeeps ==
  ASSUME PlayerInv, ReleaseCurrentSource, apUsb' \in UsbStatuses, apCalls' \subseteq PlayerCalls,
         apPending' \in PlayerTracks \cup {NoTrack}, apView' \in PlayerViews, apView'.status \in Silent,
         OneCurrent(apCalls'), \A c \in apCalls' : c.current => apPending' = NoTrack
  PROVE  PlayerInv'
  <1>1. ReleasedUrls = {} /\ apSource' = NoSource
    BY PlayerConstants DEF PlayerInv, PlayerTyped, HeardIsShown, ReleasedUrls, ReleaseCurrentSource
  <1>2. PlayerTyped'
    BY <1>1 DEF PlayerTyped, ReleaseCurrentSource
  <1>3. HeardIsShown'
    BY <1>1, PlayerConstants DEF HeardIsShown, ReleaseCurrentSource, Silent
  <1> QED BY <1>1, <1>2, <1>3 DEF PlayerInv, CurrentWaits, PendingWaits

\* A step that drops calls and changes nothing else.
LEMMA DroppedKeeps ==
  ASSUME PlayerInv, apCalls' \subseteq apCalls, UNCHANGED <<apUsb, apPending, apSource, apUrls, apView>>
  PROVE  PlayerInv'
  BY DEF PlayerInv, PlayerTyped, HeardIsShown, OneCurrent, CurrentWaits, PendingWaits

LEMMA FailsKeeps ==
  ASSUME PlayerInv, NEW track \in PlayerTracks \cup {NoTrack}, NEW others \in SUBSET PlayerCalls,
         apUsb' \in UsbStatuses, OneCurrent(others), Fails(track, others)
  PROVE  PlayerInv'
  BY ViewsAreTyped, ReleasedKeeps DEF Fails, Silent

LEMMA FromDriveKeeps ==
  ASSUME PlayerInv, NEW track \in PlayerTracks, NEW others \in SUBSET PlayerCalls,
         \A c \in others : ~c.current, UNCHANGED apUsb, FromDrive(track, others)
  PROVE  PlayerInv'
  <1>1. apUsb' \in UsbStatuses /\ OneCurrent(others)
    BY DEF PlayerInv, PlayerTyped, OneCurrent
  <1>2. CASE apPending' = track /\ apCalls' = others /\ ReleaseCurrentSource /\ apView' = Resolving(track)
    BY <1>1, <1>2, ViewsAreTyped, ReleasedKeeps DEF Silent
  <1>3. ASSUME NEW step \in {"preview", "permission", "file"},
               apCalls' = others \cup {NewCall(track, step)}, apPending' = NoTrack, ReleaseCurrentSource,
               apView' = Resolving(track)
        PROVE  PlayerInv'
    <2>1. apCalls' \subseteq PlayerCalls /\ OneCurrent(apCalls')
      BY <1>3, NewCallTyped DEF OneCurrent
    <2> QED BY <1>1, <1>3, <2>1, ViewsAreTyped, ReleasedKeeps DEF Silent
  <1>4. CASE Fails(track, others)
    BY <1>1, <1>4, FailsKeeps
  <1> QED BY <1>2, <1>3, <1>4 DEF FromDrive

LEMMA PlayKeeps == ASSUME PlayerInv, NEW track \in PlayerTracks, PlayTrack(track) PROVE PlayerInv'
  <1> DEFINE others == Superseding(apCalls)
  <1>1. others \subseteq PlayerCalls /\ \A c \in others : ~c.current
    BY SupersededCalls DEF PlayerInv, PlayerTyped
  <1>2. UNCHANGED apUsb
    BY DEF PlayTrack
  <1>3. CASE FromDrive(track, others)
    BY <1>1, <1>2, <1>3, FromDriveKeeps
  <1>4. CASE apCalls' = others \cup {NewCall(track, "preview")} /\ apPending' = NoTrack
             /\ ReleaseCurrentSource /\ apView' = Resolving(track)
    <2> HIDE DEF others
    <2>1. apCalls' \subseteq PlayerCalls /\ OneCurrent(apCalls')
      BY <1>1, <1>4, NewCallTyped DEF OneCurrent
    <2> QED BY <1>2, <1>4, <2>1, ViewsAreTyped, ReleasedKeeps DEF Silent, PlayerInv, PlayerTyped
  <1> QED BY <1>3, <1>4 DEF PlayTrack

\* The answer of the call that counts attaches its track.
LEMMA AttachedKeeps ==
  ASSUME PlayerInv, NEW c \in apCalls, IsCurrent(c), apCalls' = apCalls \ {c}, UNCHANGED <<apUsb, apPending>>,
         NEW kind \in SourceKinds, StartAudio(c.track, kind)
  PROVE  PlayerInv'
  <1>1. c.track \in PlayerTracks /\ apSource = NoSource /\ apUrls = {} /\ apPending = NoTrack
    BY PlayerConstants DEF PlayerInv, PlayerTyped, PlayerCalls, CurrentWaits, HeardIsShown, IsCurrent
  <1>2. \A d \in apCalls' : ~d.current
    BY DEF PlayerInv, OneCurrent, IsCurrent
  <1>3. apSource' \in Attached /\ apSource'.track = c.track /\ apSource'.kind = kind
    BY <1>1 DEF StartAudio, Attached
  <1>4. apView' \in PlayerViews /\ apView'.track = c.track /\ apView'.status = "loading"
        /\ (apView'.source = "cloud" <=> kind = "cloud")
    BY <1>1 DEF StartAudio, PlayerViews
  <1>5. apUrls' = IF kind = "file" THEN {c.track} ELSE {}
    BY <1>1 DEF StartAudio
  <1>6. PlayerTyped'
    BY <1>1, <1>3, <1>4, <1>5 DEF PlayerInv, PlayerTyped
  <1>7. HeardIsShown'
    BY <1>3, <1>4, <1>5, PlayerConstants DEF HeardIsShown
  <1> QED BY <1>1, <1>2, <1>6, <1>7 DEF PlayerInv, OneCurrent, CurrentWaits, PendingWaits

\* The calls beside the one that counts do not count.
LEMMA OthersAreLate ==
  ASSUME PlayerInv, NEW c \in apCalls
  PROVE  /\ c \in PlayerCalls /\ c.track \in PlayerTracks /\ apCalls \ {c} \subseteq PlayerCalls
         /\ OneCurrent(apCalls \ {c}) /\ apUsb \in UsbStatuses
         /\ IsCurrent(c) => \A d \in apCalls \ {c} : ~d.current
  BY DEF PlayerInv, PlayerTyped, PlayerCalls, OneCurrent, IsCurrent

LEMMA PreviewAnswerKeeps == ASSUME PlayerInv, NEW c \in apCalls, PreviewAnswered(c) PROVE PlayerInv'
  <1>1. UNCHANGED apUsb
    BY DEF PreviewAnswered
  <1>2. CASE apCalls' = apCalls \ {c} /\ UNCHANGED <<apPending, apSource, apUrls, apView>>
    BY <1>1, <1>2, DroppedKeeps
  <1>3. CASE IsCurrent(c) /\ apCalls' = apCalls \ {c} /\ UNCHANGED apPending /\ StartAudio(c.track, "cloud")
    BY <1>1, <1>3, AttachedKeeps DEF SourceKinds
  <1>4. CASE IsCurrent(c) /\ Fails(c.track, Superseding(apCalls \ {c}))
    <2>1. OneCurrent(Superseding(apCalls \ {c})) /\ Superseding(apCalls \ {c}) \subseteq PlayerCalls
      BY OthersAreLate, SupersededCalls DEF OneCurrent
    <2> QED BY <1>1, <1>4, <2>1, OthersAreLate, FailsKeeps
  <1>5. CASE IsCurrent(c) /\ FromDrive(c.track, apCalls \ {c})
    BY <1>1, <1>5, OthersAreLate, FromDriveKeeps
  <1> QED BY <1>2, <1>3, <1>4, <1>5 DEF PreviewAnswered

LEMMA PermissionAnswerKeeps == ASSUME PlayerInv, NEW c \in apCalls, PermissionAnswered(c) PROVE PlayerInv'
  <1>1. UNCHANGED apUsb
    BY DEF PermissionAnswered
  <1>2. CASE apCalls' = apCalls \ {c} /\ UNCHANGED <<apPending, apSource, apUrls, apView>>
    BY <1>1, <1>2, DroppedKeeps
  <1>3. CASE /\ IsCurrent(c) /\ apCalls' = (apCalls \ {c}) \cup {[c EXCEPT !.step = "file"]}
             /\ UNCHANGED <<apPending, apSource, apUrls, apView>>
    <2>1. [c EXCEPT !.step = "file"] \in PlayerCalls
      BY OthersAreLate DEF PlayerCalls
    <2>2. apCalls' \subseteq PlayerCalls /\ OneCurrent(apCalls')
      BY <1>3, <2>1, OthersAreLate DEF OneCurrent
    <2>3. apSource = NoSource /\ apPending = NoTrack
      BY <1>3 DEF PlayerInv, CurrentWaits, IsCurrent
    <2> QED BY <1>1, <1>3, <2>2, <2>3 DEF PlayerInv, PlayerTyped, HeardIsShown, CurrentWaits, PendingWaits
  <1>4. CASE Fails(c.track, apCalls \ {c})
    BY <1>1, <1>4, OthersAreLate, FailsKeeps
  <1> QED BY <1>2, <1>3, <1>4 DEF PermissionAnswered

LEMMA FileAnswerKeeps == ASSUME PlayerInv, NEW c \in apCalls, FileAnswered(c) PROVE PlayerInv'
  <1>1. UNCHANGED apUsb
    BY DEF FileAnswered
  <1>2. CASE apCalls' = apCalls \ {c} /\ UNCHANGED <<apPending, apSource, apUrls, apView>>
    BY <1>1, <1>2, DroppedKeeps
  <1>3. CASE /\ IsCurrent(c) /\ apCalls' = apCalls \ {c} /\ UNCHANGED apPending
             /\ \E kind \in {"file", "token"} : StartAudio(c.track, kind)
    BY <1>1, <1>3, AttachedKeeps DEF SourceKinds
  <1>4. CASE Fails(c.track, apCalls \ {c})
    BY <1>1, <1>4, OthersAreLate, FailsKeeps
  <1> QED BY <1>2, <1>3, <1>4 DEF FileAnswered

LEMMA UsbChangeKeeps == ASSUME PlayerInv, NEW status \in UsbStatuses, UsbStatusChanges(status) PROVE PlayerInv'
  <1>1. apUsb' \in UsbStatuses
    BY DEF UsbStatusChanges
  <1>2. Superseding(apCalls) \subseteq PlayerCalls /\ \A c \in Superseding(apCalls) : ~c.current
    BY SupersededCalls DEF PlayerInv, PlayerTyped
  <1>3. CASE /\ apPending # NoTrack /\ apCalls' = Superseding(apCalls) \cup {NewCall(apPending, "file")}
             /\ apPending' = NoTrack /\ ReleaseCurrentSource /\ apView' = Resolving(apPending)
    <2>1. apPending \in PlayerTracks
      BY <1>3 DEF PlayerInv, PlayerTyped
    <2>2. apCalls' \subseteq PlayerCalls /\ OneCurrent(apCalls')
      BY <1>2, <1>3, <2>1, NewCallTyped DEF OneCurrent
    <2> QED BY <1>1, <1>3, <2>1, <2>2, ViewsAreTyped, ReleasedKeeps DEF Silent
  <1>4. CASE /\ apView' = IF apView.status = "error" THEN Idle ELSE apView
             /\ UNCHANGED <<apCalls, apPending, apSource, apUrls>>
    <2>1. PlayerTyped'
      BY <1>1, <1>4, PlayerConstants DEF PlayerInv, PlayerTyped
    <2>2. HeardIsShown'
      BY <1>4, PlayerConstants DEF PlayerInv, HeardIsShown
    <2> QED BY <1>4, <2>1, <2>2 DEF PlayerInv, CurrentWaits, PendingWaits
  <1>5. CASE UNCHANGED <<apCalls, apPending, apSource, apUrls, apView>>
    BY <1>1, <1>5 DEF PlayerInv, PlayerTyped, HeardIsShown, CurrentWaits, PendingWaits
  <1>6. CASE /\ apPending # NoTrack
             /\ apCalls' = apCalls \cup {[NewCall(apPending, "preview") EXCEPT !.queued = TRUE]}
             /\ apPending' = NoTrack /\ UNCHANGED <<apSource, apUrls, apView>>
    <2>1. apPending \in PlayerTracks
      BY <1>6 DEF PlayerInv, PlayerTyped
    <2>2. [NewCall(apPending, "preview") EXCEPT !.queued = TRUE] \in PlayerCalls
      BY <2>1 DEF NewCall, PlayerCalls
    <2>3. apSource = NoSource /\ \A c \in apCalls : ~c.current
      BY <1>6 DEF PlayerInv, PendingWaits, CurrentWaits
    <2>4. apCalls' \subseteq PlayerCalls /\ OneCurrent(apCalls')
      BY <1>6, <2>2, <2>3 DEF OneCurrent, PlayerInv, PlayerTyped
    <2> QED BY <1>1, <1>6, <2>3, <2>4 DEF PlayerInv, PlayerTyped, HeardIsShown, CurrentWaits, PendingWaits
  <1>7. CASE Fails(apView.track, Superseding(apCalls))
    <2>1. apView.track \in PlayerTracks \cup {NoTrack} /\ OneCurrent(Superseding(apCalls))
      BY <1>2 DEF PlayerInv, PlayerTyped, PlayerViews, OneCurrent
    <2> QED BY <1>1, <1>2, <1>7, <2>1, FailsKeeps
  <1> QED BY <1>3, <1>4, <1>5, <1>6, <1>7 DEF UsbStatusChanges

LEMMA StopKeeps == ASSUME PlayerInv, Stop PROVE PlayerInv'
  <1>1. Superseding(apCalls) \subseteq PlayerCalls /\ OneCurrent(Superseding(apCalls))
    BY SupersededCalls DEF PlayerInv, PlayerTyped, OneCurrent
  <1> QED BY <1>1, PlayerConstants, ReleasedKeeps DEF Stop, Silent, PlayerInv, PlayerTyped

LEMMA MediaFailKeeps == ASSUME PlayerInv, MediaFails PROVE PlayerInv'
  <1>1. apCalls' \subseteq PlayerCalls /\ OneCurrent(apCalls')
    BY SupersededCalls DEF MediaFails, PlayerInv, PlayerTyped, OneCurrent
  <1>2. apView.track \in PlayerTracks \cup {NoTrack}
    BY DEF PlayerInv, PlayerTyped, PlayerViews
  <1> QED BY <1>1, <1>2, ViewsAreTyped, ReleasedKeeps DEF MediaFails, Silent, PlayerInv, PlayerTyped

\* The events of an attached source leave it in place, and a transport on the screen.
LEMMA TransportKeeps ==
  ASSUME PlayerInv, apSource # NoSource, UNCHANGED <<apUsb, apCalls, apPending, apSource, apUrls>>,
         apView' \in PlayerViews, apView'.status \notin Silent, apView'.track = apView.track,
         apView'.source = apView.source
  PROVE  PlayerInv'
  <1>1. HeardIsShown'
    BY DEF PlayerInv, HeardIsShown, Silent
  <1> QED BY <1>1 DEF PlayerInv, PlayerTyped, CurrentWaits, PendingWaits

LEMMA MediaEventKeeps == ASSUME PlayerInv, MediaEvent PROVE PlayerInv'
  <1>1. PICK status \in {"ready", "playing", "buffering", "seeking", "paused", "ended"} :
           apView' = [apView EXCEPT !.status = status,
                        !.intent = CASE status \in {"playing", "buffering"} -> TRUE
                                     [] status \in {"paused", "ended"} -> FALSE
                                     [] OTHER -> @]
    BY DEF MediaEvent
  <1> DEFINE intent == CASE status \in {"playing", "buffering"} -> TRUE
                         [] status \in {"paused", "ended"} -> FALSE
                         [] OTHER -> apView.intent
  <1>2. apView' = [apView EXCEPT !.status = status, !.intent = intent]
    BY <1>1
  <1>3. apView \in PlayerViews /\ apView.intent \in BOOLEAN
    BY DEF PlayerInv, PlayerTyped, PlayerViews
  <1>4. intent \in BOOLEAN
    BY <1>3
  <1> HIDE DEF intent
  <1>5. apView' \in PlayerViews /\ apView'.status = status /\ apView'.track = apView.track /\ apView'.source = apView.source
    BY <1>2, <1>3, <1>4 DEF PlayerViews
  <1> QED BY <1>5, TransportKeeps DEF MediaEvent, Silent

LEMMA PlayRequestKeeps == ASSUME PlayerInv, PlayRequested PROVE PlayerInv'
  <1>1. apView' \in PlayerViews /\ apView'.status = apView.status /\ apView'.track = apView.track
        /\ apView'.source = apView.source
    BY DEF PlayRequested, PlayerInv, PlayerTyped, PlayerViews
  <1>2. apView.status \notin Silent
    BY DEF PlayRequested, PlayerInv, HeardIsShown, Silent
  <1> QED BY <1>1, <1>2, TransportKeeps DEF PlayRequested

LEMMA PlayerInitInv == PlayerInit => PlayerInv
  BY PlayerConstants
  DEF PlayerInit, PlayerInv, PlayerTyped, HeardIsShown, OneCurrent, CurrentWaits, PendingWaits

LEMMA PlayerStepInv == PlayerInv /\ [PlayerNext]_playerVars => PlayerInv'
  <1> SUFFICES ASSUME PlayerInv, [PlayerNext]_playerVars PROVE PlayerInv'
    OBVIOUS
  <1>1. CASE UNCHANGED playerVars
    BY <1>1 DEF playerVars, PlayerInv, PlayerTyped, HeardIsShown, CurrentWaits, PendingWaits
  <1>2. CASE \E track \in PlayerTracks : PlayTrack(track)
    BY <1>2, PlayKeeps
  <1>3. CASE \E c \in apCalls : PreviewAnswered(c) \/ PermissionAnswered(c) \/ FileAnswered(c)
    BY <1>3, PreviewAnswerKeeps, PermissionAnswerKeeps, FileAnswerKeeps
  <1>4. CASE \E status \in UsbStatuses : UsbStatusChanges(status)
    BY <1>4, UsbChangeKeeps
  <1>5. CASE Stop \/ MediaEvent \/ MediaFails \/ PlayRequested
    BY <1>5, StopKeeps, MediaEventKeeps, MediaFailKeeps, PlayRequestKeeps
  <1> QED BY <1>1, <1>2, <1>3, <1>4, <1>5 DEF PlayerNext

LEMMA PlayerInvMeans == PlayerInv => HeardIsShown
  BY DEF PlayerInv

-----------------------------------------------------------------------------
(* The imports list and the active library (App.tsx, useLatestRekordboxImport.ts). *)

\* The types of ListTypeOK, and those of the answers under way.
LibraryReads == [on : BOOLEAN, read : BOOLEAN, rows : [Libraries -> LibRow]]
ShownReads == [at : {"idle", "failed", "settings", "row", "again", "second", "latest", "answered"},
               id : Libraries \cup {NoLibrary}]
Activations == [id : Libraries, by : {"page", "user"}, at : {"sent", "done", "failed"}]
Deletions == [at : {"idle", "sent", "accepted", "refused"}, id : Libraries \cup {NoLibrary},
              plan : Plans \cup {"none"}, tries : Nat, active : BOOLEAN]

ListTyped ==
  /\ ilRows \in [Libraries -> LibRow] /\ ilList \in [Libraries -> LibRow]
  /\ ilActive \in Libraries \cup {NoLibrary, NoSettings} /\ ilShown \in Libraries \cup {NoLibrary}
  /\ ilListFetch \in LibraryReads /\ ilPoll \in LibraryReads /\ ilShownFetch \in ShownReads
  /\ ilActivate \subseteq Activations /\ ilPending \subseteq Libraries /\ ilAnnounced \subseteq Libraries
  /\ ilChanged \in BOOLEAN /\ ilSeen \subseteq Libraries
  /\ ilDelete \in Deletions /\ (ilDelete.at # "idle" => ilDelete.id \in Libraries)

\* The settings name an import that can be shown, or one that is being deleted.
ActiveFits(active, rows) ==
  active \in Libraries => rows[active].st \in {"completed", "paused", "deleting"}

\* What the page is to show, and what its request for it has found so far: unless a change
\* of the settings is on its way, that is what they name.
Follows(id, active, rows) ==
  /\ active = NoLibrary => id = NoLibrary
  /\ \A i \in Libraries : active = i /\ IsBrowseable(rows[i]) => id = i

ShownFits(shown, fetch, changed, active, rows) ==
  ~changed =>
    /\ fetch.at = "idle" => Follows(shown, active, rows)
    /\ fetch.at = "answered" => Follows(fetch.id, active, rows)
    /\ fetch.at = "row" => active = fetch.id /\ active \in Libraries
    /\ fetch.at = "latest" => active # NoLibrary /\ (active \in Libraries => ~IsUsable(rows[active]))
    /\ fetch.at \notin {"again", "second"}

\* A row on the screen is or was one of the database; one that an answer under way will
\* take off the screen is gone.
ListFits(list, rows) == \A i \in Libraries : list[i].st # "none" => rows[i].st # "none"
FetchFits(fetch, list, rows) ==
  fetch.read => /\ ListFits(fetch.rows, rows)
                /\ \A i \in Libraries : fetch.rows[i].st = "none" /\ list[i].st # "none" => rows[i].st = "gone"
PollFits(poll, list, rows) ==
  poll.read => /\ ListFits(poll.rows, rows)
               /\ \A i \in InFlightIds(list) : ~Exists(poll.rows[i]) => rows[i].st = "gone"
PendingFits(pending, list) == \A i \in pending : list[i].st # "none"

ListInv ==
  /\ ListTyped /\ ActiveFits(ilActive, ilRows)
  /\ ShownFits(ilShown, ilShownFetch, ilChanged, ilActive, ilRows)
  /\ ListFits(ilList, ilRows) /\ FetchFits(ilListFetch, ilList, ilRows) /\ PollFits(ilPoll, ilList, ilRows)
  /\ PendingFits(ilPending, ilList) /\ DeletedIsGone

LEMMA ListConstants ==
  /\ NoLibrary \notin Libraries /\ NoSettings \notin Libraries /\ NoSettings # NoLibrary
  /\ Libraries \subseteq Nat /\ 1 \in Libraries
  /\ NoLibRow \in LibRow /\ NoLibRow.st = "none"
  BY ImportListAssumption DEF Libraries, NoLibrary, NoSettings, NoLibRow, LibRow

LEMMA ReadConstants ==
  /\ NoFetch \in LibraryReads /\ ListAsked \in LibraryReads /\ NoPoll \in LibraryReads
  /\ NoFetch.read = FALSE /\ ListAsked.read = FALSE /\ NoPoll.read = FALSE
  /\ NoShownFetch \in ShownReads /\ ShownAsked \in ShownReads /\ LatestNext \in ShownReads
  /\ NoShownFetch.at = "idle" /\ ShownAsked.at = "settings" /\ LatestNext.at = "latest"
  /\ \A i \in Libraries \cup {NoLibrary} : ShownIs(i) \in ShownReads /\ ShownIs(i).at = "answered" /\ ShownIs(i).id = i
  BY ListConstants
  DEF NoFetch, ListAsked, NoPoll, LibraryReads, NoShownFetch, ShownAsked, LatestNext, ShownIs, ShownReads

\* The newest of some imports is one of them.
LEMMA NewestIsOne ==
  ASSUME NEW S \in SUBSET Libraries
  PROVE  /\ S # {} => Newest(S) \in S
         /\ S = {} => Newest(S) = NoLibrary
  <1>1. CASE S = {}
    BY <1>1 DEF Newest
  <1>2. CASE S # {}
    <2> DEFINE T == {MaxLibraries - i : i \in S}
    <2>1. MaxLibraries \in Nat /\ S \subseteq 1 .. MaxLibraries
      BY ImportListAssumption DEF Libraries
    <2>2. \A i \in S : MaxLibraries - i \in Nat
      BY <2>1
    <2>3. T \subseteq Nat /\ T # {}
      BY <1>2, <2>2
    <2>4. PICK n \in T : \A m \in T : n <= m
      BY <2>3, LeastNatural
    <2>5. PICK i \in S : n = MaxLibraries - i
      OBVIOUS
    <2>6. \A j \in S : j <= i
      <3> TAKE j \in S
      <3>1. MaxLibraries - j \in T
        OBVIOUS
      <3> HIDE DEF T
      <3> QED BY <2>1, <2>4, <2>5, <3>1
    <2> HIDE DEF T
    <2> QED BY <1>2, <2>6 DEF Newest
  <1> QED BY <1>1, <1>2

\* Rows are created once, and what is gone stays gone.
LEMMA RowsOnlyAdvance ==
  ASSUME NEW rows, NEW next, NEW list,
         \A i \in Libraries : (rows[i].st # "none" => next[i].st # "none") /\ (rows[i].st = "gone" => next[i].st = "gone")
  PROVE  /\ ListFits(list, rows) => ListFits(list, next)
         /\ \A fetch : FetchFits(fetch, list, rows) => FetchFits(fetch, list, next)
         /\ \A poll : PollFits(poll, list, rows) => PollFits(poll, list, next)
  BY DEF ListFits, FetchFits, PollFits, InFlightIds

\* A step of the backend.
LEMMA ServerKeeps ==
  ASSUME ListInv, ilRows' \in [Libraries -> LibRow], ilActive' \in Libraries \cup {NoLibrary, NoSettings},
         ilChanged' = (ilChanged \/ ilActive' # ilActive),
         \A i \in Libraries : /\ ilRows[i].st # "none" => ilRows'[i].st # "none"
                              /\ ilRows[i].st = "gone" => ilRows'[i].st = "gone",
         ActiveFits(ilActive', ilRows'),
         ilActive' \in Libraries /\ ilActive' = ilActive
           => (IsUsable(ilRows'[ilActive]) => IsUsable(ilRows[ilActive])),
         ilActivate' \subseteq Activations, ilDelete' \in Deletions,
         ilDelete'.at # "idle" => ilDelete'.id \in Libraries,
         UNCHANGED <<ilList, ilListFetch, ilPoll, ilShown, ilShownFetch, ilSeen, ilPending, ilAnnounced>>
  PROVE  ListInv'
  <1>1. ListTyped'
    BY DEF ListInv, ListTyped
  <1>2. ShownFits(ilShown, ilShownFetch, ilChanged, ilActive, ilRows)'
    <2> SUFFICES ASSUME ~ilChanged' PROVE ShownFits(ilShown, ilShownFetch, ilChanged, ilActive, ilRows)'
      BY DEF ShownFits
    <2>1. ilActive' = ilActive /\ ~ilChanged
      OBVIOUS
    <2>2. \A i \in Libraries : ilActive = i /\ IsBrowseable(ilRows'[i]) => IsBrowseable(ilRows[i])
      BY <2>1 DEF IsBrowseable
    <2> QED BY <2>1, <2>2 DEF ListInv, ShownFits, Follows
  <1>3. ListFits(ilList, ilRows)' /\ FetchFits(ilListFetch, ilList, ilRows)' /\ PollFits(ilPoll, ilList, ilRows)'
    BY RowsOnlyAdvance DEF ListInv
  <1>4. PendingFits(ilPending, ilList)' /\ DeletedIsGone'
    BY DEF ListInv, ListTyped, PendingFits, DeletedIsGone
  <1> QED BY <1>1, <1>2, <1>3, <1>4 DEF ListInv

LEMMA CreatedKeeps == ASSUME ListInv, NEW i \in Libraries, LibraryCreated(i) PROVE ListInv'
  <1> DEFINE row == [ilRows[i] EXCEPT !.st = "processing"]
  <1>1. ilRows' = [ilRows EXCEPT ![i] = row] /\ ilRows[i].st = "none"
    BY DEF LibraryCreated
  <1>2. row \in LibRow /\ row.st = "processing"
    BY DEF ListInv, ListTyped, LibRow
  <1> HIDE DEF row
  <1>3. ilRows' \in [Libraries -> LibRow] /\ ilRows'[i] = row /\ \A j \in Libraries \ {i} : ilRows'[j] = ilRows[j]
    BY <1>1, <1>2 DEF ListInv, ListTyped
  <1>4. ActiveFits(ilActive, ilRows') /\ ilActive # i
    BY <1>1, <1>3 DEF ListInv, ActiveFits
  <1>5. ilActive \in Libraries => ilRows'[ilActive] = ilRows[ilActive]
    BY <1>3, <1>4
  <1> QED BY <1>1, <1>2, <1>3, <1>4, <1>5, ServerKeeps DEF LibraryCreated, ServerFrame, ListInv, ListTyped

LEMMA EndsKeeps == ASSUME ListInv, NEW i \in Libraries, LibraryEnds(i) PROVE ListInv'
  <1>1. PICK st \in {"completed", "paused", "failed"} :
          /\ ilRows' = [ilRows EXCEPT ![i].st = st]
          /\ SettingsBecome(IF st = "completed" THEN i ELSE ilActive)
    BY DEF LibraryEnds
  <1> DEFINE row == [ilRows[i] EXCEPT !.st = st]
  <1>2. ilRows' = [ilRows EXCEPT ![i] = row] /\ ilRows[i].st = "processing"
    BY <1>1 DEF LibraryEnds
  <1>3. row \in LibRow /\ row.st = st
    BY DEF ListInv, ListTyped, LibRow
  <1> HIDE DEF row
  <1>4. ilRows' \in [Libraries -> LibRow] /\ ilRows'[i] = row /\ \A j \in Libraries \ {i} : ilRows'[j] = ilRows[j]
    BY <1>2, <1>3 DEF ListInv, ListTyped
  <1>5. ilActive # i
    BY <1>2 DEF ListInv, ActiveFits
  <1>6. ilActive' = (IF st = "completed" THEN i ELSE ilActive) /\ ilChanged' = (ilChanged \/ ilActive' # ilActive)
    BY <1>1 DEF SettingsBecome
  <1>7. ilActive' \in Libraries \cup {NoLibrary, NoSettings} /\ ActiveFits(ilActive', ilRows')
    BY <1>3, <1>4, <1>5, <1>6 DEF ListInv, ListTyped, ActiveFits
  <1>8. ilActive' \in Libraries /\ ilActive' = ilActive => ilRows'[ilActive] = ilRows[ilActive]
    BY <1>4, <1>5
  <1>9. \A j \in Libraries : (ilRows[j].st # "none" => ilRows'[j].st # "none") /\ (ilRows[j].st = "gone" => ilRows'[j].st = "gone")
    BY <1>2, <1>3, <1>4
  <1> QED BY <1>4, <1>6, <1>7, <1>8, <1>9, ServerKeeps DEF LibraryEnds, ServerFrame, ListInv, ListTyped

\* After the removal of an import the settings name another one that can be shown, none,
\* or the import they named before.
LEMMA ActiveAfterFits ==
  ASSUME ListInv, NEW i \in Libraries
  PROVE  LET active == ActiveAfter(ilRows, i)
         IN  \/ active \in Libraries \ {i} /\ IsUsable(ilRows[active])
             \/ active = NoLibrary
             \/ active = ilActive /\ ilActive # i
  <1> DEFINE usable == {j \in Libraries \ {i} : IsUsable(ilRows[j])}
  <1>1. Newest(usable) \in usable \/ Newest(usable) = NoLibrary
    BY NewestIsOne
  <1> QED BY <1>1 DEF ActiveAfter

LEMMA FinalizedRowKeeps == ASSUME ListInv, NEW i \in Libraries, DeleteFinalized(i) PROVE ListInv'
  <1> DEFINE row == [NoLibRow EXCEPT !.st = "gone"]
             active == ActiveAfter(ilRows, i)
  <1>1. ilRows' = [ilRows EXCEPT ![i] = row] /\ ilActive' = active
        /\ ilChanged' = (ilChanged \/ ilActive' # ilActive) /\ ilRows[i].st = "deleting"
    BY DEF DeleteFinalized, RowGone, SettingsBecome, IsPendingDelete
  <1>2. row \in LibRow /\ row.st = "gone"
    BY DEF NoLibRow, LibRow
  <1> HIDE DEF row
  <1>3. ilRows' \in [Libraries -> LibRow] /\ ilRows'[i] = row /\ \A j \in Libraries \ {i} : ilRows'[j] = ilRows[j]
    BY <1>1, <1>2 DEF ListInv, ListTyped
  <1>4. \/ active \in Libraries \ {i} /\ IsUsable(ilRows[active])
        \/ active = NoLibrary
        \/ active = ilActive /\ ilActive # i
    BY ActiveAfterFits
  <1> HIDE DEF active
  <1>5. ilActive' \in Libraries \cup {NoLibrary, NoSettings} /\ ActiveFits(ilActive', ilRows')
    BY <1>1, <1>3, <1>4, ListConstants DEF ListInv, ListTyped, ActiveFits, IsUsable
  <1>6. ilActive' \in Libraries /\ ilActive' = ilActive => ilRows'[ilActive] = ilRows[ilActive]
    BY <1>1, <1>3, <1>4, ListConstants
  <1>7. \A j \in Libraries : (ilRows[j].st # "none" => ilRows'[j].st # "none") /\ (ilRows[j].st = "gone" => ilRows'[j].st = "gone")
    BY <1>2, <1>3
  <1> QED BY <1>1, <1>3, <1>5, <1>6, <1>7, ServerKeeps DEF DeleteFinalized, ServerFrame, ListInv, ListTyped

LEMMA ActivationReachKeeps == ASSUME ListInv, NEW c \in ilActivate, ActivationReached(c) PROVE ListInv'
  <1>1. PICK at \in {"done", "failed"} :
          /\ \/ IsUsable(ilRows[c.id]) /\ SettingsBecome(c.id)
             \/ at = "failed" /\ UNCHANGED <<ilActive, ilChanged>>
          /\ ilActivate' = (ilActivate \ {c}) \cup {[c EXCEPT !.at = at]}
    BY DEF ActivationReached
  <1>2. c \in Activations /\ c.id \in Libraries
    BY DEF ListInv, ListTyped, Activations
  <1>3. [c EXCEPT !.at = at] \in Activations
    BY <1>2 DEF Activations
  <1>4. ilActivate' \subseteq Activations
    BY <1>1, <1>3 DEF ListInv, ListTyped
  <1>5. /\ ilActive' \in Libraries \cup {NoLibrary, NoSettings} /\ ActiveFits(ilActive', ilRows)
        /\ ilChanged' = (ilChanged \/ ilActive' # ilActive)
    BY <1>1, <1>2 DEF SettingsBecome, ListInv, ListTyped, ActiveFits, IsUsable
  <1> QED BY <1>4, <1>5, ServerKeeps DEF ActivationReached, ListInv, ListTyped

LEMMA DeleteArriveKeeps == ASSUME ListInv, DeleteArrived PROVE ListInv'
  <1> DEFINE i == ilDelete.id
             row == PlanMarked(ilRows[i], ilDelete.plan)
  <1>1. i \in Libraries /\ ilDelete \in Deletions /\ ilDelete.plan \in Plans \cup {"none"} /\ ilDelete.tries \in Nat
    BY DEF DeleteArrived, ListInv, ListTyped, Deletions
  <1>2. ilDelete' \in Deletions /\ ilDelete'.id = i
    <2>1. ilDelete' \in {[ilDelete EXCEPT !.at = "accepted"], [ilDelete EXCEPT !.tries = @ + 1], [ilDelete EXCEPT !.at = "refused"]}
      BY DEF DeleteArrived
    <2> QED BY <1>1, <2>1 DEF Deletions
  <1>3. CASE UNCHANGED ilRows
    BY <1>1, <1>2, <1>3, ServerKeeps DEF DeleteArrived, ListInv, ListTyped
  <1>4. CASE Exists(ilRows[i]) /\ ilRows' = [ilRows EXCEPT ![i] = row]
    <2>1. ilRows[i] \in LibRow
      BY <1>1 DEF ListInv, ListTyped
    <2>2. row \in LibRow /\ row.st \in {ilRows[i].st, "deleting"}
      BY <1>1, <2>1 DEF PlanMarked, LibRow
    <2> HIDE DEF row
    <2>3. ilRows' \in [Libraries -> LibRow] /\ ilRows'[i] = row /\ \A j \in Libraries \ {i} : ilRows'[j] = ilRows[j]
      BY <1>1, <1>4, <2>2 DEF ListInv, ListTyped
    <2>4. \A j \in Libraries : (ilRows[j].st # "none" => ilRows'[j].st # "none") /\ (ilRows[j].st = "gone" => ilRows'[j].st = "gone")
      BY <1>4, <2>2, <2>3 DEF Exists
    <2>5. ActiveFits(ilActive, ilRows')
      BY <2>2, <2>3 DEF ListInv, ActiveFits
    <2>6. ilActive \in Libraries => (IsUsable(ilRows'[ilActive]) => IsUsable(ilRows[ilActive]))
      BY <2>2, <2>3 DEF IsUsable
    <2> HIDE DEF i
    <2> QED BY <1>1, <1>2, <2>3, <2>4, <2>5, <2>6, ServerKeeps DEF DeleteArrived, ListInv, ListTyped
  <1> QED BY <1>3, <1>4 DEF DeleteArrived

\* A step of the page that leaves the screen as it is.
LEMMA PageKeeps ==
  ASSUME ListInv, UNCHANGED <<ilRows, ilActive, ilList, ilShown, ilSeen, ilAnnounced>>, ilChanged' \in BOOLEAN,
         ilListFetch' \in LibraryReads, ilPoll' \in LibraryReads, ilShownFetch' \in ShownReads,
         FetchFits(ilListFetch', ilList, ilRows), PollFits(ilPoll', ilList, ilRows),
         ShownFits(ilShown, ilShownFetch', ilChanged', ilActive, ilRows),
         ilActivate' \subseteq Activations, ilPending' \subseteq Libraries, PendingFits(ilPending', ilList),
         ilDelete' \in Deletions, ilDelete'.at # "idle" => ilDelete'.id \in Libraries
  PROVE  ListInv'
  BY DEF ListInv, ListTyped, DeletedIsGone

\* What was read before still fits, and a request that has only been asked for fits.
LEMMA ReadsFit ==
  ASSUME ListInv
  PROVE  /\ FetchFits(ilListFetch, ilList, ilRows) /\ FetchFits(ListAsked, ilList, ilRows) /\ FetchFits(NoFetch, ilList, ilRows)
         /\ PollFits(ilPoll, ilList, ilRows) /\ PollFits(NoPoll, ilList, ilRows)
         /\ ShownFits(ilShown, ilShownFetch, ilChanged, ilActive, ilRows)
         /\ \A shown, changed : ShownFits(shown, ShownAsked, changed, ilActive, ilRows)
         /\ PendingFits(ilPending, ilList) /\ ListTyped
  BY ReadConstants DEF ListInv, FetchFits, PollFits, ShownFits

LEMMA ListReadKeeps == ASSUME ListInv, ListRead PROVE ListInv'
  <1> DEFINE rows == [i \in Libraries |-> IF Listable(ilRows[i]) THEN ilRows[i] ELSE NoLibRow]
  <1>1. ilListFetch' = [ilListFetch EXCEPT !.read = TRUE, !.rows = rows]
    BY DEF ListRead
  <1>2. rows \in [Libraries -> LibRow]
    BY ListConstants DEF ListInv, ListTyped
  <1>3. \A i \in Libraries : /\ rows[i].st # "none" => ilRows[i].st # "none"
                             /\ rows[i].st = "none" => ilRows[i].st \in {"none", "gone"}
    BY ListConstants DEF Listable, Exists
  <1> HIDE DEF rows
  <1>4. ilListFetch' \in LibraryReads /\ ilListFetch'.rows = rows
    BY <1>1, <1>2 DEF ListInv, ListTyped, LibraryReads
  <1>5. FetchFits(ilListFetch', ilList, ilRows)
    BY <1>3, <1>4 DEF ListInv, FetchFits, ListFits
  <1> QED BY <1>4, <1>5, ReadsFit, PageKeeps DEF ListRead, ListTyped

LEMMA PollReadKeeps == ASSUME ListInv, PollRead PROVE ListInv'
  <1> DEFINE rows == [i \in Libraries |-> IF i \in InFlightIds(ilList) THEN ilRows[i] ELSE NoLibRow]
  <1>1. ilPoll' = [ilPoll EXCEPT !.read = TRUE, !.rows = rows]
    BY DEF PollRead, Unobserved
  <1>2. rows \in [Libraries -> LibRow]
    BY ListConstants DEF ListInv, ListTyped
  <1>3. \A i \in Libraries : /\ rows[i].st # "none" => ilRows[i].st # "none"
                             /\ i \in InFlightIds(ilList) => rows[i] = ilRows[i] /\ ilList[i].st # "none"
    BY ListConstants DEF InFlightIds, IsInFlight
  <1> HIDE DEF rows
  <1>4. ilPoll' \in LibraryReads /\ ilPoll'.rows = rows
    BY <1>1, <1>2 DEF ListInv, ListTyped, LibraryReads
  <1>5. \A i \in InFlightIds(ilList) : i \in Libraries
    BY DEF InFlightIds
  <1>6. PollFits(ilPoll', ilList, ilRows)
    BY <1>3, <1>4, <1>5 DEF ListInv, PollFits, ListFits, Exists
  <1> QED BY <1>4, <1>6, ReadsFit, PageKeeps DEF PollRead, Unobserved, PageFrame, ListTyped

LEMMA PollStartKeeps == ASSUME ListInv, PollStarted PROVE ListInv'
  <1>1. ilPoll' \in LibraryReads /\ ilPoll'.read = FALSE
    BY ReadConstants DEF PollStarted, Unobserved, LibraryReads, NoPoll
  <1>2. PollFits(ilPoll', ilList, ilRows)
    BY <1>1 DEF PollFits
  <1> QED BY <1>1, <1>2, ReadsFit, PageKeeps DEF PollStarted, Unobserved, PageFrame, ListTyped

\* The next thing that the request for the active library finds.
LEMMA ShownNextFits ==
  ASSUME ListInv, ilShownFetch.at \notin {"idle", "failed", "answered"}
  PROVE  ShownNext \in ShownReads /\ ShownFits(ilShown, ShownNext, ilChanged, ilActive, ilRows)
  <1> DEFINE f == ilShownFetch
  <1>1. f \in ShownReads /\ f.at \in {"settings", "row", "again", "second", "latest"}
        /\ f.id \in Libraries \cup {NoLibrary}
    BY DEF ListInv, ListTyped, ShownReads
  <1>2. ilActive \in Libraries \cup {NoLibrary, NoSettings} /\ ActiveFits(ilActive, ilRows)
        /\ ShownFits(ilShown, f, ilChanged, ilActive, ilRows)
    BY DEF ListInv, ListTyped
  <1>3. LatestUsable \in Libraries \cup {NoLibrary}
    BY NewestIsOne DEF LatestUsable
  <1>4. \A i \in Libraries \cup {NoLibrary} : ShownIs(i) \in ShownReads /\ ShownIs(i).at = "answered" /\ ShownIs(i).id = i
    BY ReadConstants
  <1> HIDE DEF f
  <1>5. CASE f.at = "settings" /\ ilActive = NoSettings
    <2>1. ShownNext = LatestNext
      BY <1>5, ListConstants DEF ShownNext, f
    <2> QED BY <1>5, <2>1, ReadConstants, ListConstants DEF ShownFits
  <1>6. CASE f.at = "settings" /\ ilActive = NoLibrary
    <2>1. ShownNext = ShownIs(NoLibrary)
      BY <1>6, ListConstants DEF ShownNext, f
    <2> QED BY <1>4, <1>6, <2>1, ListConstants DEF ShownFits, Follows
  <1>7. CASE f.at = "settings" /\ ilActive \in Libraries
    <2>1. ShownNext = [at |-> "row", id |-> ilActive]
      BY <1>7, ListConstants DEF ShownNext, f
    <2> QED BY <1>7, <2>1 DEF ShownFits, ShownReads
  <1>8. CASE f.at = "row" /\ ~ilChanged
    <2>1. f.id = ilActive /\ ilActive \in Libraries /\ ilRows[ilActive].st \in {"completed", "paused", "deleting"}
      BY <1>2, <1>8 DEF ShownFits, ActiveFits
    <2>2. ShownNext = ShownOf(ilActive, LatestNext)
      BY <1>8, <2>1 DEF ShownNext, Exists, f
    <2>3. CASE IsBrowseable(ilRows[ilActive])
      <3>1. ShownNext = ShownIs(ilActive)
        BY <2>2, <2>3 DEF ShownOf
      <3> QED BY <1>4, <2>1, <3>1, ListConstants DEF ShownFits, Follows
    <2>4. CASE ~IsBrowseable(ilRows[ilActive])
      <3>1. ShownNext \in {ShownIs(NoLibrary), LatestNext}
        BY <2>2, <2>4 DEF ShownOf
      <3> QED BY <1>4, <2>1, <2>4, <3>1, ReadConstants, ListConstants DEF ShownFits, Follows, IsBrowseable
    <2> QED BY <2>3, <2>4
  <1>9. CASE f.at = "latest" /\ ~ilChanged
    <2>1. ShownNext = ShownIs(LatestUsable)
      BY <1>9 DEF ShownNext, f
    <2>2. ilActive # NoLibrary /\ (ilActive \in Libraries => ~IsUsable(ilRows[ilActive]))
      BY <1>2, <1>9 DEF ShownFits
    <2> QED BY <1>3, <1>4, <2>1, <2>2 DEF ShownFits, Follows, IsBrowseable
  <1>10. CASE ilChanged
    <2>1. ShownFits(ilShown, ShownNext, ilChanged, ilActive, ilRows)
      BY <1>10 DEF ShownFits
    <2>2. ShownOf(f.id, LatestNext) \in ShownReads
      BY <1>1, <1>4, ReadConstants, ListConstants DEF ShownOf
    <2>3. [f EXCEPT !.at = "again"] \in ShownReads /\ \A i \in Libraries : [at |-> "row", id |-> i] \in ShownReads /\ [at |-> "second", id |-> i] \in ShownReads
      BY <1>1 DEF ShownReads
    <2>4. ShownNext \in ShownReads
      <3>1. CASE f.at = "settings"
        BY <1>2, <1>4, <2>3, <3>1, ReadConstants, ListConstants DEF ShownNext, f
      <3>2. CASE f.at = "again"
        BY <1>2, <1>4, <2>3, <3>2, ReadConstants, ListConstants DEF ShownNext, f
      <3>3. CASE f.at = "row"
        BY <2>2, <2>3, <3>3 DEF ShownNext, f
      <3>4. CASE f.at = "second"
        BY <2>2, <3>4 DEF ShownNext, f
      <3>5. CASE f.at = "latest"
        BY <1>3, <1>4, <3>5 DEF ShownNext, f
      <3> QED BY <1>1, <3>1, <3>2, <3>3, <3>4, <3>5
    <2> QED BY <2>1, <2>4
  <1>11. ~ilChanged => f.at \notin {"again", "second"}
    BY <1>2 DEF ShownFits
  <1> QED BY <1>1, <1>2, <1>5, <1>6, <1>7, <1>8, <1>9, <1>10, <1>11

LEMMA ShownReadKeeps == ASSUME ListInv, ShownRead PROVE ListInv'
  <1>1. PICK f \in {ShownNext, [at |-> "failed", id |-> NoLibrary]} : Unobserved(ilListFetch, f, ilPoll)
    BY DEF ShownRead
  <1>2. f \in ShownReads /\ ShownFits(ilShown, f, ilChanged, ilActive, ilRows)
    <2>1. CASE f = ShownNext
      BY <2>1, ShownNextFits DEF ShownRead
    <2>2. CASE f = [at |-> "failed", id |-> NoLibrary]
      BY <2>2 DEF ShownFits, ShownReads
    <2> QED BY <2>1, <2>2
  <1> QED BY <1>1, <1>2, ReadsFit, PageKeeps DEF ShownRead, Unobserved, PageFrame, ListTyped

LEMMA SettingsKeeps == ASSUME ListInv, SettingsChanged PROVE ListInv'
  BY ReadsFit, ReadConstants, PageKeeps DEF SettingsChanged, Unobserved, ListTyped

\* The effects that observe a new list or another library on the screen.
LEMMA ScreenObservedKeeps ==
  ASSUME ListInv, PageFrame, NEW list \in [Libraries -> LibRow], NEW shown \in Libraries \cup {NoLibrary},
         NEW listFetch \in LibraryReads, NEW shownFetch \in ShownReads, NEW poll \in LibraryReads,
         Observed(list, shown, listFetch, shownFetch, poll), ListFits(list, ilRows),
         \A i \in Libraries : list[i].st = "none" /\ ilList[i].st # "none" => ilRows[i].st = "gone",
         FetchFits(listFetch, list, ilRows), PollFits(poll, ilList, ilRows),
         ShownFits(shown, shownFetch, ilChanged, ilActive, ilRows)
  PROVE  ListInv'
  <1> DEFINE flying == InFlightIds(list)
             ended == {i \in ilSeen \ flying : list[i].st # "none"}
             completed == {i \in ended : list[i].st = "completed"}
             known == ilPending \cup {i \in Libraries : IsPendingDelete(list[i])}
             left == {i \in known : list[i].st = "none"}
             orphan == shown # NoLibrary /\ list[shown].st = "none"
  <1>1. /\ ilList' = list /\ ilShown' = shown /\ ilPending' = known \ left /\ ilAnnounced' = ilAnnounced \cup left
        /\ ilActivate' = ilActivate \cup {Activation(i, "page") : i \in completed \ ilTried}
        /\ ilListFetch' = (IF completed \cap ilTried # {} THEN ListAsked ELSE listFetch)
        /\ ilShownFetch' = (IF left # {} \/ orphan THEN ShownAsked ELSE shownFetch)
        /\ ilPoll' = (IF flying = InFlightIds(ilList) THEN poll ELSE NoPoll)
        /\ ilSeen' = {i \in ilSeen : list[i].st = "none"} \cup flying
        /\ UNCHANGED <<ilRows, ilActive, ilChanged, ilDelete>>
    BY DEF Observed, PageFrame
  <1>2. ListTyped /\ PendingFits(ilPending, ilList) /\ ActiveFits(ilActive, ilRows) /\ DeletedIsGone
    BY DEF ListInv
  <1>3. known \subseteq Libraries /\ \A i \in left : i \in Libraries /\ ilRows[i].st = "gone"
    BY <1>2 DEF ListTyped, PendingFits, IsPendingDelete
  <1>4. ilSeen \subseteq Libraries /\ flying \subseteq Libraries
    BY <1>2 DEF ListTyped, InFlightIds
  <1>5. completed \subseteq Libraries
    BY <1>4
  <1> HIDE DEF flying, ended, completed, known, left, orphan
  <1>6. ilActivate' \subseteq Activations
    <2>1. \A i \in completed : Activation(i, "page") \in Activations
      BY <1>5 DEF Activation, Activations
    <2> QED BY <1>1, <1>2, <2>1 DEF ListTyped
  <1>7. ilSeen' \subseteq Libraries /\ ilPending' \subseteq Libraries
    BY <1>1, <1>3, <1>4
  <1>8. ilAnnounced' \subseteq Libraries /\ DeletedIsGone'
    BY <1>1, <1>2, <1>3 DEF ListTyped, DeletedIsGone
  <1>9. ilListFetch' \in LibraryReads /\ FetchFits(ilListFetch', list, ilRows)
    BY <1>1, ReadConstants DEF FetchFits
  <1>10. ilShownFetch' \in ShownReads /\ ShownFits(shown, ilShownFetch', ilChanged, ilActive, ilRows)
    BY <1>1, ReadConstants DEF ShownFits
  <1>11. ilPoll' \in LibraryReads /\ PollFits(ilPoll', list, ilRows)
    BY <1>1, ReadConstants DEF PollFits, flying
  <1>12. PendingFits(ilPending', list)
    BY <1>1 DEF PendingFits, left
  <1>13. ListTyped'
    BY <1>1, <1>2, <1>6, <1>7, <1>8, <1>9, <1>10, <1>11 DEF ListTyped
  <1> QED BY <1>1, <1>2, <1>8, <1>9, <1>10, <1>11, <1>12, <1>13 DEF ListInv

LEMMA ListAnswerKeeps == ASSUME ListInv, ListAnswered PROVE ListInv'
  <1>1. ListFits(ilListFetch.rows, ilRows)
        /\ \A i \in Libraries : ilListFetch.rows[i].st = "none" /\ ilList[i].st # "none" => ilRows[i].st = "gone"
    BY DEF ListInv, FetchFits, ListAnswered
  <1>2. ilListFetch.rows \in [Libraries -> LibRow] /\ ilShown \in Libraries \cup {NoLibrary}
        /\ ilShownFetch \in ShownReads /\ ilPoll \in LibraryReads
    BY DEF ListInv, ListTyped, LibraryReads
  <1>3. FetchFits(NoFetch, ilListFetch.rows, ilRows) /\ NoFetch \in LibraryReads
    BY ReadConstants DEF FetchFits
  <1>4. CASE Observed(ilListFetch.rows, ilShown, NoFetch, ilShownFetch, ilPoll)
    BY <1>1, <1>2, <1>3, <1>4, ReadsFit, ScreenObservedKeeps DEF ListAnswered
  <1>5. CASE Unobserved(NoFetch, ilShownFetch, ilPoll)
    BY <1>2, <1>3, <1>5, ReadsFit, PageKeeps DEF ListAnswered, Unobserved, PageFrame, ListTyped
  <1> QED BY <1>4, <1>5 DEF ListAnswered

LEMMA PollAnswerKeeps == ASSUME ListInv, PollAnswered PROVE ListInv'
  <1> DEFINE list == [i \in Libraries |-> Polled(i)]
  <1>1. /\ ilList \in [Libraries -> LibRow] /\ ilShown \in Libraries \cup {NoLibrary}
        /\ ilShownFetch \in ShownReads /\ ilPoll \in LibraryReads /\ ilListFetch \in LibraryReads
        /\ ilPoll.rows \in [Libraries -> LibRow] /\ ListFits(ilList, ilRows)
        /\ ListFits(ilPoll.rows, ilRows) /\ FetchFits(ilListFetch, ilList, ilRows)
    BY DEF ListInv, ListTyped, LibraryReads, PollFits, PollAnswered
  <1>2. \A i \in Libraries : Polled(i) \in {ilList[i], ilPoll.rows[i], NoLibRow}
    BY DEF Polled
  <1>3. \A i \in Libraries : Polled(i).st = "none" /\ ilList[i].st # "none" => ilRows[i].st = "gone"
    BY DEF Polled, ListInv, PollFits, PollAnswered, Exists
  <1>4. \A i \in Libraries : ilList[i].st = "none" => Polled(i).st = "none"
    BY DEF Polled, InFlightIds, IsInFlight
  <1>5. \A i \in Libraries : list[i] = Polled(i)
    OBVIOUS
  <1>6. list \in [Libraries -> LibRow]
    BY <1>1, <1>2, ListConstants
  <1>7. PollAnswered =>
          \/ list = ilList /\ Unobserved(ilListFetch, ilShownFetch, NoPoll)
          \/ Observed(list, ilShown, ilListFetch, ilShownFetch, NoPoll)
    BY DEF PollAnswered
  <1> HIDE DEF list
  <1>8. ListFits(list, ilRows)
        /\ \A i \in Libraries : list[i].st = "none" /\ ilList[i].st # "none" => ilRows[i].st = "gone"
    BY <1>1, <1>2, <1>3, <1>5, ListConstants DEF ListFits
  <1>9. FetchFits(ilListFetch, list, ilRows)
    BY <1>1, <1>4, <1>5 DEF FetchFits
  <1>10. CASE list = ilList /\ Unobserved(ilListFetch, ilShownFetch, NoPoll)
    BY <1>1, <1>10, ReadsFit, ReadConstants, PageKeeps DEF PollAnswered, Unobserved, PageFrame, ListTyped
  <1>11. CASE Observed(list, ilShown, ilListFetch, ilShownFetch, NoPoll)
    BY <1>1, <1>6, <1>8, <1>9, <1>11, ReadsFit, ReadConstants, ScreenObservedKeeps DEF PollAnswered
  <1> QED BY <1>7, <1>10, <1>11

LEMMA ShownAnswerKeeps == ASSUME ListInv, ShownAnswered PROVE ListInv'
  <1>1. /\ ilList \in [Libraries -> LibRow] /\ ilShownFetch.id \in Libraries \cup {NoLibrary}
        /\ ilPoll \in LibraryReads /\ ilListFetch \in LibraryReads /\ ListFits(ilList, ilRows)
    BY DEF ListInv, ListTyped, ShownReads
  <1>2. ShownFits(ilShownFetch.id, NoShownFetch, ilChanged, ilActive, ilRows)
    BY ReadConstants DEF ListInv, ShownFits, ShownAnswered
  <1>3. NoShownFetch \in ShownReads
    BY ReadConstants
  <1> QED BY <1>1, <1>2, <1>3, ReadsFit, ScreenObservedKeeps DEF ShownAnswered

\* What the user asks for, and the answers to it.
LEMMA ActivationAnswerKeeps == ASSUME ListInv, NEW c \in ilActivate, ActivationAnswered(c) PROVE ListInv'
  <1>1. ilListFetch' \in {ListAsked, ilListFetch} /\ ilShownFetch' \in {ShownAsked, ilShownFetch}
    BY DEF ActivationAnswered
  <1> QED BY <1>1, ReadsFit, ReadConstants, PageKeeps DEF ActivationAnswered, PageFrame, ListTyped

LEMMA ChosenKeeps == ASSUME ListInv, NEW i \in Libraries, LibraryChosen(i) PROVE ListInv'
  <1>1. Activation(i, "user") \in Activations
    BY DEF Activation, Activations
  <1> QED BY <1>1, ReadsFit, PageKeeps DEF LibraryChosen, ListTyped

LEMMA ConfirmedKeeps ==
  ASSUME ListInv, NEW i \in Libraries, NEW plan \in Plans, DeleteConfirmed(i, plan) PROVE ListInv'
  <1>1. ilDelete' \in Deletions /\ ilDelete'.id = i
    BY DEF DeleteConfirmed, Deletions
  <1>2. ilPending' \subseteq Libraries /\ PendingFits(ilPending', ilList)
    BY DEF DeleteConfirmed, ListInv, ListTyped, PendingFits
  <1> QED BY <1>1, <1>2, ReadsFit, PageKeeps DEF DeleteConfirmed, ListTyped

LEMMA RespondedKeeps == ASSUME ListInv, DeleteResponded PROVE ListInv'
  <1>1. ilDelete' \in Deletions /\ ilDelete'.at = "idle"
    BY DEF DeleteResponded, NoDeletion, Deletions
  <1>2. /\ ilListFetch' = ListAsked /\ ilShownFetch' \in {ShownAsked, ilShownFetch}
        /\ ilPending' \subseteq ilPending
    BY DEF DeleteResponded
  <1>3. ilPending' \subseteq Libraries /\ PendingFits(ilPending', ilList)
    BY <1>2 DEF ListInv, ListTyped, PendingFits
  <1> QED BY <1>1, <1>2, <1>3, ReadsFit, ReadConstants, PageKeeps DEF DeleteResponded, ListTyped

LEMMA AskedAgainKeeps == ASSUME ListInv, ListAskedAgain PROVE ListInv'
  BY ReadsFit, ReadConstants, PageKeeps DEF ListAskedAgain, ListTyped

LEMMA ListInitInv == ListInit => ListInv
  <1> SUFFICES ASSUME ListInit PROVE ListInv
    OBVIOUS
  <1> DEFINE none == [i \in Libraries |-> NoLibRow]
             first == [NoLibRow EXCEPT !.st = "completed"]
  <1>1. none \in [Libraries -> LibRow] /\ \A i \in Libraries : none[i].st = "none"
    BY ListConstants
  <1>2. first \in LibRow /\ first.st = "completed"
    BY DEF NoLibRow, LibRow
  <1>3. ilRows = [none EXCEPT ![1] = first]
    <2>1. ilRows = [none EXCEPT ![1].st = "completed"]
      BY DEF ListInit
    <2>2. none[1] = NoLibRow
      BY ListConstants
    <2> QED BY <2>1, <2>2
  <1> HIDE DEF first
  <1>4. ilList = none
    BY DEF ListInit
  <1> HIDE DEF none
  <1>5. ilRows \in [Libraries -> LibRow] /\ ilRows[1].st = "completed"
    BY <1>1, <1>2, <1>3, ListConstants
  <1>6. ilDelete \in Deletions /\ ilDelete.at = "idle"
    BY DEF ListInit, NoDeletion, Deletions
  <1>7. ListTyped
    BY <1>1, <1>4, <1>5, <1>6, ReadConstants, ListConstants DEF ListInit, ListTyped
  <1>8. ActiveFits(ilActive, ilRows)
    BY <1>5, ListConstants DEF ListInit, ActiveFits
  <1>9. ShownFits(ilShown, ilShownFetch, ilChanged, ilActive, ilRows)
    BY ReadConstants DEF ListInit, ShownFits
  <1>10. ListFits(ilList, ilRows) /\ FetchFits(ilListFetch, ilList, ilRows) /\ PollFits(ilPoll, ilList, ilRows)
    BY <1>1, <1>4, ReadConstants DEF ListInit, ListFits, FetchFits, PollFits
  <1>11. PendingFits(ilPending, ilList) /\ DeletedIsGone
    BY DEF ListInit, PendingFits, DeletedIsGone
  <1> QED BY <1>7, <1>8, <1>9, <1>10, <1>11 DEF ListInv

LEMMA ListStepInv == ListInv /\ [ListNext]_listVars => ListInv'
  <1> SUFFICES ASSUME ListInv, [ListNext]_listVars PROVE ListInv'
    OBVIOUS
  <1>1. ASSUME NEW i \in Libraries, LibraryCreated(i) \/ LibraryEnds(i) \/ DeleteFinalized(i) PROVE ListInv'
    BY <1>1, CreatedKeeps, EndsKeeps, FinalizedRowKeeps
  <1>2. ASSUME NEW i \in Libraries, LibraryChosen(i) \/ \E plan \in Plans : DeleteConfirmed(i, plan) PROVE ListInv'
    BY <1>2, ChosenKeeps, ConfirmedKeeps
  <1>3. CASE ListRead \/ ListAnswered \/ PollStarted \/ PollRead \/ PollAnswered
    BY <1>3, ListReadKeeps, ListAnswerKeeps, PollStartKeeps, PollReadKeeps, PollAnswerKeeps
  <1>4. CASE ShownRead \/ ShownAnswered \/ SettingsChanged
    BY <1>4, ShownReadKeeps, ShownAnswerKeeps, SettingsKeeps
  <1>5. ASSUME NEW c \in ilActivate, ActivationReached(c) \/ ActivationAnswered(c) PROVE ListInv'
    BY <1>5, ActivationReachKeeps, ActivationAnswerKeeps
  <1>6. CASE DeleteArrived \/ DeleteResponded \/ ListAskedAgain
    BY <1>6, DeleteArriveKeeps, RespondedKeeps, AskedAgainKeeps
  <1>7. CASE UNCHANGED listVars
    BY <1>7 DEF listVars, ListInv, ListTyped, DeletedIsGone
  <1> QED BY <1>1, <1>2, <1>3, <1>4, <1>5, <1>6, <1>7 DEF ListNext

LEMMA ListInvMeans == ListInv => DeletedIsGone /\ ShownFollowsSettings
  BY DEF ListInv, ShownFits, Follows, ShownFollowsSettings

\* What is left of ListTypeOK: a poll is read while it is under way, and a cleanup is
\* retried no more often than that.
ListRest ==
  /\ ilTried \subseteq Libraries /\ ilLeft \in 0 .. MaxLibraryActs
  /\ ilDelete.tries \in 0 .. DeleteRetries /\ (ilPoll.read => ilPoll.on)

LEMMA PollsFit ==
  ASSUME ListInv, ListRest, [ListNext]_listVars
  PROVE  ilPoll'.read => ilPoll'.on
  <1>1. ilPoll \in LibraryReads /\ (ilPoll.read => ilPoll.on) /\ NoPoll \in LibraryReads /\ NoPoll.read = FALSE
    BY ReadConstants DEF ListInv, ListTyped, ListRest
  <1>2. CASE ilPoll' \in {ilPoll, NoPoll}
    BY <1>1, <1>2
  <1>3. CASE PollStarted
    BY <1>1, <1>3 DEF PollStarted, Unobserved, LibraryReads
  <1>4. CASE PollRead
    BY <1>1, <1>4 DEF PollRead, Unobserved, LibraryReads
  <1>5. CASE ListAnswered \/ PollAnswered \/ ShownRead \/ ShownAnswered \/ SettingsChanged
    BY <1>2, <1>5 DEF ListAnswered, PollAnswered, ShownRead, ShownAnswered, SettingsChanged, Observed, Unobserved
  <1>6. ASSUME NEW i \in Libraries,
               \/ LibraryCreated(i) \/ LibraryEnds(i) \/ DeleteFinalized(i) \/ LibraryChosen(i)
               \/ \E plan \in Plans : DeleteConfirmed(i, plan)
        PROVE  ilPoll' = ilPoll
    BY <1>6 DEF LibraryCreated, LibraryEnds, DeleteFinalized, LibraryChosen, DeleteConfirmed, ServerFrame
  <1>7. ASSUME NEW c, ActivationReached(c) \/ ActivationAnswered(c) PROVE ilPoll' = ilPoll
    BY <1>7 DEF ActivationReached, ActivationAnswered
  <1>8. CASE ListRead \/ DeleteArrived \/ DeleteResponded \/ ListAskedAgain \/ UNCHANGED listVars
    BY <1>2, <1>8 DEF ListRead, DeleteArrived, DeleteResponded, ListAskedAgain, listVars
  <1> QED BY <1>2, <1>3, <1>4, <1>5, <1>6, <1>7, <1>8 DEF ListNext

LEMMA ListRestKept ==
  ASSUME ListInv, ListRest, [ListNext]_listVars
  PROVE  ListRest'
  <1>1. MaxLibraryActs \in Nat /\ DeleteRetries \in Nat /\ ilDelete \in Deletions
    BY ImportListAssumption DEF ListInv, ListTyped
  <1>2. CASE UNCHANGED <<ilTried, ilDelete>> /\ (ilLeft' = ilLeft \/ UserActs)
    BY <1>1, <1>2, PollsFit DEF ListRest, UserActs
  <1>3. ASSUME NEW list, NEW shown, NEW listFetch, NEW shownFetch, NEW poll,
               Observed(list, shown, listFetch, shownFetch, poll), PageFrame
        PROVE  ListRest'
    <2>1. ilTried' \subseteq ilTried \cup Libraries
      <3>1. \E completed \in SUBSET (ilSeen \ InFlightIds(list)) : ilTried' = ilTried \cup completed
        BY <1>3 DEF Observed
      <3> QED BY <3>1 DEF ListInv, ListTyped
    <2> QED BY <1>3, <2>1, PollsFit DEF PageFrame, ListRest
  <1>4. ASSUME NEW listFetch, NEW shownFetch, NEW poll, Unobserved(listFetch, shownFetch, poll), UNCHANGED <<ilDelete, ilLeft>>
        PROVE  ListRest'
    BY <1>2, <1>4 DEF Unobserved
  <1>5. CASE ListAnswered \/ PollAnswered \/ ShownAnswered
    BY <1>3, <1>4, <1>5 DEF ListAnswered, PollAnswered, ShownAnswered, PageFrame
  <1>6. CASE PollStarted \/ PollRead \/ ShownRead \/ SettingsChanged
    BY <1>4, <1>6 DEF PollStarted, PollRead, ShownRead, SettingsChanged, PageFrame
  <1>7. ASSUME NEW i \in Libraries,
               LibraryCreated(i) \/ LibraryEnds(i) \/ DeleteFinalized(i) \/ LibraryChosen(i)
        PROVE  ListRest'
    BY <1>2, <1>7 DEF LibraryCreated, LibraryEnds, DeleteFinalized, LibraryChosen, ServerFrame
  <1>8. ASSUME NEW i \in Libraries, NEW plan \in Plans, DeleteConfirmed(i, plan) PROVE ListRest'
    <2>1. ilDelete'.tries = 0 /\ ilTried' = ilTried /\ UserActs
      BY <1>8 DEF DeleteConfirmed
    <2> QED BY <1>1, <2>1, PollsFit DEF ListRest, UserActs
  <1>9. ASSUME NEW c, ActivationReached(c) \/ ActivationAnswered(c) PROVE ListRest'
    BY <1>2, <1>9 DEF ActivationReached, ActivationAnswered, PageFrame
  <1>10. CASE DeleteArrived \/ DeleteResponded
    <2>1. ilTried' = ilTried /\ ilLeft' = ilLeft
      BY <1>10 DEF DeleteArrived, DeleteResponded
    <2>2. ilDelete'.tries \in {0, ilDelete.tries} \/ (ilDelete.tries < DeleteRetries /\ ilDelete'.tries = ilDelete.tries + 1)
      BY <1>1, <1>10 DEF DeleteArrived, DeleteResponded, NoDeletion, Deletions
    <2> QED BY <1>1, <2>1, <2>2, PollsFit DEF ListRest
  <1>11. CASE ListRead \/ ListAskedAgain \/ UNCHANGED listVars
    BY <1>2, <1>11 DEF ListRead, ListAskedAgain, listVars
  <1> QED BY <1>5, <1>6, <1>7, <1>8, <1>9, <1>10, <1>11 DEF ListNext

LEMMA ListTypesAre ==
  /\ ListInit => ListRest
  /\ ListInv /\ ListRest => ListTypeOK
  <1>1. ASSUME ListInit PROVE ListRest
    <2>1. ilTried = {} /\ ilLeft = MaxLibraryActs /\ ilDelete.tries = 0 /\ ilPoll.read = FALSE
      BY <1>1, ReadConstants DEF ListInit, NoDeletion
    <2> QED BY <2>1, ImportListAssumption DEF ListRest
  <1>2. ASSUME ListInv, ListRest PROVE ListTypeOK
    BY <1>2 DEF ListInv, ListTyped, ListRest, ListTypeOK, ShownReads, Deletions, Activations
  <1> QED BY <1>1, <1>2

-----------------------------------------------------------------------------
(* The encoding slots (main.cjs) and the sync of previews over them (previewSync.ts). *)

EncodersAt(call) == {e \in Encodes : call[e] = "encoding"}

\* Who waits for a slot is in line once and has none.
EncodeInv ==
  /\ encCall \in [Encodes -> {"idle", "probing", "queued", "encoding"}]
  /\ encActive \in Nat /\ encWaiters \in Seq(Encodes)
  /\ IsFiniteSet(EncodersAt(encCall)) /\ encActive = Cardinality(EncodersAt(encCall)) /\ encActive <= EncodeLimit
  /\ encWaiters # << >> => encActive = EncodeLimit
  /\ \A i \in 1 .. Len(encWaiters) : encCall[encWaiters[i]] = "queued"
  /\ \A i, j \in 1 .. Len(encWaiters) : encWaiters[i] = encWaiters[j] => i = j

\* The versions of a job: none is ahead of what it came from, and what is written was
\* encoded after it was seen.
JobFits(e) ==
  /\ psRow[e] <= psFile[e] /\ psRow[e] <= psSource[e] /\ psSeen[e] <= psSource[e]
  /\ encCall[e] # "idle" => psJob[e] = "encode"
  /\ psJob[e] = "encode" /\ encCall[e] \in {"queued", "encoding"} => psRow[e] <= psSeen[e]
  /\ psJob[e] \in {"upload", "save"} => psRow[e] <= psSeen[e] /\ psSeen[e] <= psBytes[e]
  /\ psJob[e] = "save" => psSeen[e] <= psFile[e]
  /\ psJob[e] \in {"synced", "skipped"} => psRow[e] = psSeen[e]
  /\ psPhase = "running" /\ psJob[e] \in {"waiting", "encode"} => psExisting[e] = psRow[e]

EndedJobs == {e \in Encodes : psJob[e] \in JobEnds}

\* The run: without it nothing is under way and no worker is free.
SyncRunFits ==
  /\ psPhase # "running" => Underway = {} /\ psFree = 0
  /\ IsFiniteSet(EndedJobs) /\ psProcessed = Cardinality(EndedJobs)
  /\ psPhase = "done" => psCancelled \/ JobsAt("waiting") = {}

SyncTyped ==
  /\ psJob \in [Encodes -> {"waiting", "encode", "upload", "save"} \cup JobEnds]
  /\ psExisting \in [Encodes -> Nat] /\ psSeen \in [Encodes -> Nat] /\ psBytes \in [Encodes -> Nat]
  /\ psSource \in [Encodes -> Nat \ {0}] /\ psFile \in [Encodes -> Nat] /\ psRow \in [Encodes -> Nat]
  /\ psFree \in Nat /\ psProcessed \in Nat

SyncInv == EncodeInv /\ SyncTyped /\ SyncRunFits /\ \A e \in Encodes : JobFits(e)

\* A slot is taken by one more, or given back.
LEMMA OneMoreEncodes ==
  ASSUME NEW call, NEW next, NEW e \in Encodes, IsFiniteSet(EncodersAt(call)),
         call[e] # "encoding", next[e] = "encoding",
         \A x \in Encodes \ {e} : next[x] = "encoding" <=> call[x] = "encoding"
  PROVE  IsFiniteSet(EncodersAt(next)) /\ Cardinality(EncodersAt(next)) = Cardinality(EncodersAt(call)) + 1
  <1> DEFINE at == EncodersAt(call)
  <1>1. EncodersAt(next) = at \cup {e} /\ e \notin at /\ IsFiniteSet(at)
    BY DEF EncodersAt
  <1> HIDE DEF at
  <1>2. IsFiniteSet(EncodersAt(next)) /\ Cardinality(EncodersAt(next)) = Cardinality(at) + 1
    BY <1>1, FS_AddElement
  <1> QED BY <1>2 DEF at

LEMMA SameEncode ==
  ASSUME NEW call, NEW next, \A x \in Encodes : next[x] = "encoding" <=> call[x] = "encoding"
  PROVE  EncodersAt(next) = EncodersAt(call)
  BY DEF EncodersAt

LEMMA BeginKeeps == ASSUME EncodeInv, NEW e \in Encodes, EncodeBegin(e) PROVE EncodeInv'
  <1>1. /\ encCall' \in [Encodes -> {"idle", "probing", "queued", "encoding"}]
        /\ encCall[e] = "idle" /\ encCall'[e] = "probing" /\ \A x \in Encodes \ {e} : encCall'[x] = encCall[x]
        /\ UNCHANGED <<encActive, encWaiters>>
    BY DEF EncodeBegin, EncodeInv
  <1>2. EncodersAt(encCall') = EncodersAt(encCall)
    BY <1>1, SameEncode
  <1>3. \A i \in 1 .. Len(encWaiters) : encWaiters[i] \in Encodes \ {e}
    BY <1>1 DEF EncodeInv
  <1> QED BY <1>1, <1>2, <1>3 DEF EncodeInv

LEMMA SkippedKeeps == ASSUME EncodeInv, NEW e \in Encodes, EncodeSkipped(e) PROVE EncodeInv'
  <1>1. /\ encCall' \in [Encodes -> {"idle", "probing", "queued", "encoding"}]
        /\ encCall[e] = "probing" /\ encCall'[e] = "idle" /\ \A x \in Encodes \ {e} : encCall'[x] = encCall[x]
        /\ UNCHANGED <<encActive, encWaiters>>
    BY DEF EncodeSkipped, EncodeInv
  <1>2. EncodersAt(encCall') = EncodersAt(encCall)
    BY <1>1, SameEncode
  <1>3. \A i \in 1 .. Len(encWaiters) : encWaiters[i] \in Encodes \ {e}
    BY <1>1 DEF EncodeInv
  <1> QED BY <1>1, <1>2, <1>3 DEF EncodeInv

LEMMA TakeKeeps == ASSUME EncodeInv, NEW e \in Encodes, TakeSlot(e) PROVE EncodeInv'
  <1>1. /\ encCall \in [Encodes -> {"idle", "probing", "queued", "encoding"}] /\ encCall[e] = "probing"
        /\ encActive \in Nat /\ encActive <= EncodeLimit /\ EncodeLimit \in Nat /\ encWaiters \in Seq(Encodes)
        /\ IsFiniteSet(EncodersAt(encCall)) /\ encActive = Cardinality(EncodersAt(encCall))
    BY EncodeAssumption DEF TakeSlot, EncodeInv
  <1>2. \A i \in 1 .. Len(encWaiters) : encWaiters[i] \in Encodes \ {e} /\ encCall[encWaiters[i]] = "queued"
    BY <1>1 DEF EncodeInv
  <1>3. CASE encActive >= EncodeLimit
    <2>1. /\ encWaiters' = Append(encWaiters, e) /\ encActive' = encActive
          /\ encCall' = [encCall EXCEPT ![e] = "queued"]
      BY <1>1, <1>3 DEF TakeSlot
    <2>2. /\ encCall' \in [Encodes -> {"idle", "probing", "queued", "encoding"}]
          /\ encCall'[e] = "queued" /\ \A x \in Encodes \ {e} : encCall'[x] = encCall[x]
      BY <1>1, <2>1
    <2>3. EncodersAt(encCall') = EncodersAt(encCall)
      BY <1>1, <2>2, SameEncode
    <2>4. /\ encWaiters' \in Seq(Encodes) /\ Len(encWaiters') = Len(encWaiters) + 1
          /\ \A i \in 1 .. Len(encWaiters) : encWaiters'[i] = encWaiters[i]
          /\ encWaiters'[Len(encWaiters) + 1] = e /\ Len(encWaiters) \in Nat
      BY <1>1, <2>1, AppendProperties
    <2>5. \A i \in 1 .. Len(encWaiters') : i \in 1 .. Len(encWaiters) \/ i = Len(encWaiters) + 1
      BY <2>4
    <2>6. \A i \in 1 .. Len(encWaiters') : encCall'[encWaiters'[i]] = "queued"
      BY <1>2, <2>2, <2>4, <2>5
    <2>7. \A i, j \in 1 .. Len(encWaiters') : encWaiters'[i] = encWaiters'[j] => i = j
      BY <1>2, <2>4, <2>5 DEF EncodeInv
    <2>8. encActive' = EncodeLimit
      BY <1>1, <1>3, <2>1
    <2> QED BY <1>1, <2>1, <2>2, <2>3, <2>4, <2>6, <2>7, <2>8 DEF EncodeInv
  <1>4. CASE encActive < EncodeLimit
    <2>1. encActive' = encActive + 1 /\ encCall' = [encCall EXCEPT ![e] = "encoding"] /\ UNCHANGED encWaiters
      BY <1>1, <1>4 DEF TakeSlot
    <2>2. /\ encCall' \in [Encodes -> {"idle", "probing", "queued", "encoding"}]
          /\ encCall'[e] = "encoding" /\ \A x \in Encodes \ {e} : encCall'[x] = encCall[x]
      BY <1>1, <2>1
    <2>3. IsFiniteSet(EncodersAt(encCall')) /\ Cardinality(EncodersAt(encCall')) = Cardinality(EncodersAt(encCall)) + 1
      BY <1>1, <2>2, OneMoreEncodes
    <2>4. encWaiters = << >>
      BY <1>1, <1>4 DEF EncodeInv
    <2> QED BY <1>1, <1>2, <1>4, <2>1, <2>2, <2>3, <2>4 DEF EncodeInv
  <1> QED BY <1>1, <1>3, <1>4

\* The one who is woken has waited, and has the slot of the one who ends.
LEMMA SlotPassed ==
  ASSUME EncodeInv, NEW e \in Encodes, EncodeEnds(e)
  PROVE  /\ EncodeInv' /\ encCall'[e] = "idle" /\ encCall[e] = "encoding"
         /\ \A x \in Encodes \ {e} : encCall'[x] = encCall[x] \/ (encCall[x] = "queued" /\ encCall'[x] = "encoding")
  <1>1. /\ encCall \in [Encodes -> {"idle", "probing", "queued", "encoding"}] /\ encCall[e] = "encoding"
        /\ encActive \in Nat /\ encActive <= EncodeLimit /\ EncodeLimit \in Nat /\ encWaiters \in Seq(Encodes)
        /\ IsFiniteSet(EncodersAt(encCall)) /\ encActive = Cardinality(EncodersAt(encCall))
    BY EncodeAssumption DEF EncodeEnds, EncodeInv
  <1> DEFINE freed == [encCall EXCEPT ![e] = "idle"]
  <1>2. /\ freed \in [Encodes -> {"idle", "probing", "queued", "encoding"}]
        /\ freed[e] = "idle" /\ \A x \in Encodes \ {e} : freed[x] = encCall[x]
    BY <1>1
  <1>3. EncodersAt(freed) = EncodersAt(encCall) \ {e} /\ e \in EncodersAt(encCall)
    BY <1>1, <1>2 DEF EncodersAt
  <1> HIDE DEF freed
  <1>4. IsFiniteSet(EncodersAt(freed)) /\ Cardinality(EncodersAt(freed)) = encActive - 1
    BY <1>1, <1>3, FS_RemoveElement
  <1>5. encActive # 0 /\ encActive - 1 \in Nat
    BY <1>1, <1>3, FS_EmptySet
  <1>6. CASE encWaiters = << >>
    <2>1. encActive' = encActive - 1 /\ encCall' = freed /\ UNCHANGED encWaiters
      BY <1>6 DEF EncodeEnds, freed
    <2>2. \A i \in 1 .. Len(encWaiters) : FALSE
      BY <1>6
    <2>3. EncodeInv'
      BY <1>1, <1>2, <1>4, <1>5, <1>6, <2>1, <2>2 DEF EncodeInv
    <2> QED BY <1>1, <1>2, <2>1, <2>3
  <1>7. CASE encWaiters # << >>
    <2> DEFINE w == Head(encWaiters)
    <2>1. encActive' = encActive /\ encCall' = [freed EXCEPT ![w] = "encoding"] /\ encWaiters' = Tail(encWaiters)
      BY <1>7 DEF EncodeEnds, SlotsAfterWake, freed
    <2>2. /\ w \in Encodes /\ w = encWaiters[1] /\ Len(encWaiters) \in Nat /\ 1 \in 1 .. Len(encWaiters)
          /\ encWaiters' \in Seq(Encodes) /\ Len(encWaiters') = Len(encWaiters) - 1
          /\ \A i \in 1 .. Len(encWaiters') : encWaiters'[i] = encWaiters[i + 1]
      BY <1>1, <1>7, <2>1, HeadTailProperties
    <2>3. encCall[w] = "queued" /\ w # e
      BY <1>1, <2>2 DEF EncodeInv
    <2> HIDE DEF w
    <2>4. /\ encCall' \in [Encodes -> {"idle", "probing", "queued", "encoding"}]
          /\ encCall'[w] = "encoding" /\ \A x \in Encodes \ {w} : encCall'[x] = freed[x]
      BY <1>2, <2>1, <2>2
    <2>5. IsFiniteSet(EncodersAt(encCall')) /\ Cardinality(EncodersAt(encCall')) = Cardinality(EncodersAt(freed)) + 1
      BY <1>2, <1>4, <2>2, <2>3, <2>4, OneMoreEncodes
    <2>6. \A i \in 1 .. Len(encWaiters') :
            /\ i + 1 \in 1 .. Len(encWaiters) /\ i + 1 # 1 /\ encWaiters'[i] = encWaiters[i + 1]
      BY <2>2
    <2>7. \A i \in 1 .. Len(encWaiters') : encWaiters'[i] \in Encodes \ {w, e} /\ encCall[encWaiters'[i]] = "queued"
      <3> TAKE i \in 1 .. Len(encWaiters')
      <3>1. encCall[encWaiters[i + 1]] = "queued" /\ encWaiters[i + 1] # encWaiters[1] /\ encWaiters[i + 1] \in Encodes
        BY <1>1, <2>2, <2>6 DEF EncodeInv
      <3> QED BY <1>1, <2>2, <2>6, <3>1
    <2>8. \A i, j \in 1 .. Len(encWaiters') : encWaiters'[i] = encWaiters'[j] => i = j
      <3> TAKE i, j \in 1 .. Len(encWaiters')
      <3>1. encWaiters[i + 1] = encWaiters[j + 1] => i + 1 = j + 1
        BY <2>6 DEF EncodeInv
      <3>2. i \in Int /\ j \in Int
        OBVIOUS
      <3> QED BY <2>6, <3>1, <3>2
    <2>9. encActive = EncodeLimit
      BY <1>7 DEF EncodeInv
    <2>10. EncodeInv'
      <3>1. \A i \in 1 .. Len(encWaiters') : encCall'[encWaiters'[i]] = "queued"
        BY <1>2, <2>4, <2>7
      <3>2. encActive' = Cardinality(EncodersAt(encCall'))
        BY <1>1, <1>4, <2>1, <2>5
      <3> QED BY <1>1, <2>1, <2>2, <2>4, <2>5, <2>8, <2>9, <3>1, <3>2 DEF EncodeInv
    <2> QED BY <1>1, <1>2, <2>2, <2>3, <2>4, <2>10
  <1> QED BY <1>6, <1>7

LEMMA WriteOrderIs == WriteOrder[1] = "upload" /\ WriteOrder[2] = "save"
  BY DEF WriteOrder

\* The job of one worker goes on, ends, or stays where it is.
JobGoes(e) ==
  \/ \E how \in JobEnds : JobEnded(e, how)
  \/ UNCHANGED runVars /\ \E step \in {"upload", "save"} : psJob' = [psJob EXCEPT ![e] = step]
  \/ UNCHANGED <<runVars, psJob>>

LEMMA JobsAreCounted ==
  ASSUME SyncInv, NEW e \in Encodes, psJob[e] \in {"encode", "upload", "save"}, JobGoes(e)
  PROVE  /\ SyncRunFits' /\ psFree' \in Nat /\ psProcessed' \in Nat
         /\ psJob' \in [Encodes -> {"waiting", "encode", "upload", "save"} \cup JobEnds]
         /\ \A x \in Encodes \ {e} : psJob'[x] = psJob[x]
         /\ psPhase = "running" /\ psPhase' = "running" /\ UNCHANGED psExisting
  <1>1. /\ psJob \in [Encodes -> {"waiting", "encode", "upload", "save"} \cup JobEnds]
        /\ psFree \in Nat /\ psProcessed \in Nat /\ SyncRunFits
    BY DEF SyncInv, SyncTyped
  <1>2. psPhase = "running" /\ e \notin EndedJobs
    BY <1>1 DEF SyncRunFits, Underway, EndedJobs, JobEnds
  <1>3. IsFiniteSet(EndedJobs) /\ psProcessed = Cardinality(EndedJobs)
    BY <1>1 DEF SyncRunFits
  <1>4. CASE UNCHANGED <<runVars, psJob>>
    BY <1>1, <1>2, <1>4 DEF runVars, SyncRunFits, Underway, EndedJobs, JobsAt
  <1>5. ASSUME NEW step \in {"upload", "save"}, UNCHANGED runVars, psJob' = [psJob EXCEPT ![e] = step]
        PROVE SyncRunFits' /\ psJob' \in [Encodes -> {"waiting", "encode", "upload", "save"} \cup JobEnds]
              /\ \A x \in Encodes \ {e} : psJob'[x] = psJob[x]
    <2>1. /\ psJob' \in [Encodes -> {"waiting", "encode", "upload", "save"} \cup JobEnds]
          /\ psJob'[e] = step /\ \A x \in Encodes \ {e} : psJob'[x] = psJob[x]
      BY <1>1, <1>5
    <2>2. EndedJobs' = EndedJobs
      BY <1>2, <2>1 DEF EndedJobs, JobEnds
    <2> QED BY <1>2, <1>3, <1>5, <2>1, <2>2 DEF SyncRunFits, runVars
  <1>6. ASSUME NEW how \in JobEnds, JobEnded(e, how)
        PROVE SyncRunFits' /\ psFree' \in Nat /\ psProcessed' \in Nat /\ UNCHANGED <<psPhase, psExisting>>
              /\ psJob' \in [Encodes -> {"waiting", "encode", "upload", "save"} \cup JobEnds]
              /\ \A x \in Encodes \ {e} : psJob'[x] = psJob[x]
    <2>1. /\ psJob' \in [Encodes -> {"waiting", "encode", "upload", "save"} \cup JobEnds]
          /\ psJob'[e] = how /\ \A x \in Encodes \ {e} : psJob'[x] = psJob[x]
          /\ psProcessed' = psProcessed + 1 /\ psFree' = psFree + 1 /\ UNCHANGED <<psPhase, psExisting>>
      BY <1>1, <1>6 DEF JobEnded
    <2>2. EndedJobs' = EndedJobs \cup {e}
      BY <2>1 DEF EndedJobs
    <2>3. IsFiniteSet(EndedJobs') /\ Cardinality(EndedJobs') = psProcessed + 1
      BY <1>2, <1>3, <2>2, FS_AddElement
    <2> QED BY <1>1, <1>2, <2>1, <2>3 DEF SyncRunFits
  <1> QED BY <1>1, <1>2, <1>4, <1>5, <1>6 DEF JobGoes, runVars

\* A step leaves another job alone, but for the slot it may be passed.
LEMMA OtherJobFits ==
  ASSUME NEW x \in Encodes, JobFits(x), UNCHANGED <<psRow[x], psFile[x], psSource[x], psSeen[x], psBytes[x], psJob[x]>>,
         psExisting'[x] = psExisting[x], psPhase' = psPhase,
         encCall'[x] = encCall[x] \/ (encCall[x] = "queued" /\ encCall'[x] = "encoding")
  PROVE  JobFits(x)'
  BY DEF JobFits

LEMMA StartsKeeps == ASSUME SyncInv, SyncStarts PROVE SyncInv'
  <1>1. /\ psPhase # "running" /\ psPhase' = "preparing" /\ psProcessed' = 0 /\ UNCHANGED <<encodeVars, psFree>>
        /\ UNCHANGED <<psSource, psFile, psRow>>
    BY DEF SyncStarts
  <1>2. /\ psJob' = [e \in Encodes |-> "waiting"] /\ psSeen' = [e \in Encodes |-> 0]
        /\ psBytes' = psSeen' /\ psExisting' = psSeen'
    BY DEF SyncStarts
  <1>3. Underway = {} /\ psFree = 0
    BY <1>1 DEF SyncInv, SyncRunFits
  <1>4. \A e \in Encodes : encCall[e] = "idle"
    BY <1>3 DEF SyncInv, JobFits, Underway
  <1>5. SyncTyped'
    BY <1>1, <1>2 DEF SyncInv, SyncTyped
  <1>6. EncodeInv'
    BY <1>1 DEF SyncInv, EncodeInv, encodeVars
  <1>7. SyncRunFits'
    <2>1. EndedJobs' = {} /\ Underway' = {}
      BY <1>2 DEF EndedJobs, Underway, JobEnds
    <2> QED BY <1>1, <1>3, <2>1, FS_EmptySet DEF SyncRunFits
  <1>8. \A e \in Encodes : JobFits(e)'
    BY <1>1, <1>2, <1>4 DEF SyncInv, JobFits, encodeVars, SyncTyped
  <1> QED BY <1>5, <1>6, <1>7, <1>8 DEF SyncInv

LEMMA PhaseKeeps ==
  ASSUME SyncInv, SyncFails \/ SyncRuns \/ SyncStop \/ WorkerLeaves PROVE SyncInv'
  <1>1. UNCHANGED <<encodeVars, psProcessed, psJob, psSeen, psBytes, psSource, psFile, psRow>>
    BY DEF SyncFails, SyncRuns, SyncStop, WorkerLeaves
  <1>2. EncodeInv'
    BY <1>1 DEF SyncInv, EncodeInv, encodeVars
  <1>3. psExisting' \in {psExisting, psRow} /\ psFree' \in Nat
    BY SyncAssumption DEF SyncFails, SyncRuns, SyncStop, WorkerLeaves, SyncInv, SyncTyped
  <1>4. SyncTyped'
    BY <1>1, <1>3 DEF SyncInv, SyncTyped
  <1>5. psPhase' = "running" => psExisting' = psRow \/ (psPhase = "running" /\ psExisting' = psExisting)
    BY DEF SyncFails, SyncRuns, SyncStop, WorkerLeaves
  <1>6. \A e \in Encodes : JobFits(e)'
    BY <1>1, <1>5 DEF SyncInv, JobFits, encodeVars
  <1>7. SyncRunFits'
    <2>1. EndedJobs' = EndedJobs /\ Underway' = Underway /\ JobsAt("waiting")' = JobsAt("waiting")
      BY <1>1 DEF EndedJobs, Underway, JobsAt
    <2>2. SyncRunFits /\ psFree \in Nat
      BY DEF SyncInv, SyncTyped
    <2>3. CASE SyncFails \/ SyncRuns \/ SyncStop
      BY <1>1, <2>1, <2>2, <2>3 DEF SyncRunFits, SyncFails, SyncRuns, SyncStop
    <2>4. CASE WorkerLeaves
      <3>1. psCancelled' \/ JobsAt("waiting") = {}
        BY <2>4, Zenon DEF WorkerLeaves
      <3>2. psPhase' # "running" => Underway = {} /\ psFree' = 0
        BY <2>2, <2>4 DEF WorkerLeaves
      <3> QED BY <1>1, <2>1, <2>2, <3>1, <3>2 DEF SyncRunFits
    <2> QED BY <2>3, <2>4
  <1> QED BY <1>2, <1>4, <1>6, <1>7 DEF SyncInv

LEMMA WorkerTakesKeeps == ASSUME SyncInv, NEW e \in Encodes, WorkerTakes(e) PROVE SyncInv'
  <1>1. /\ EncodeBegin(e) /\ psJob[e] = "waiting" /\ psPhase = "running" /\ psPhase' = psPhase /\ psFree > 0
        /\ psJob' = [psJob EXCEPT ![e] = "encode"] /\ psFree' = psFree - 1 /\ UNCHANGED <<psExisting, psProcessed>>
        /\ UNCHANGED <<psSeen, psBytes, psSource, psFile, psRow>>
    BY DEF WorkerTakes
  <1>2. EncodeInv'
    BY <1>1, BeginKeeps DEF SyncInv
  <1>3. encCall'[e] = "probing" /\ \A x \in Encodes \ {e} : encCall'[x] = encCall[x]
    BY <1>1 DEF EncodeBegin, SyncInv, EncodeInv
  <1>4. /\ psJob' \in [Encodes -> {"waiting", "encode", "upload", "save"} \cup JobEnds]
        /\ psJob'[e] = "encode" /\ \A x \in Encodes \ {e} : psJob'[x] = psJob[x]
    BY <1>1 DEF SyncInv, SyncTyped
  <1>5. SyncTyped'
    BY <1>1, <1>4 DEF SyncInv, SyncTyped
  <1>6. \A x \in Encodes : JobFits(x)'
    <2>1. JobFits(e)'
      BY <1>1, <1>3, <1>4 DEF SyncInv, JobFits
    <2>2. \A x \in Encodes \ {e} : JobFits(x)'
      BY <1>1, <1>3, <1>4, OtherJobFits DEF SyncInv
    <2> QED BY <2>1, <2>2
  <1>7. SyncRunFits'
    <2>1. EndedJobs' = EndedJobs
      BY <1>1, <1>4 DEF EndedJobs, JobEnds
    <2> QED BY <1>1, <2>1 DEF SyncInv, SyncRunFits
  <1> QED BY <1>2, <1>5, <1>6, <1>7 DEF SyncInv

\* A step of one job: what is left to show is that this job fits.
LEMMA JobStepKeeps ==
  ASSUME SyncInv, NEW e \in Encodes, psJob[e] \in {"encode", "upload", "save"}, JobGoes(e), EncodeInv',
         \A x \in Encodes \ {e} : encCall'[x] = encCall[x] \/ (encCall[x] = "queued" /\ encCall'[x] = "encoding"),
         NEW seen \in Nat, psSeen' = [psSeen EXCEPT ![e] = seen],
         NEW bytes \in Nat, psBytes' = [psBytes EXCEPT ![e] = bytes],
         NEW file \in Nat, psFile' = [psFile EXCEPT ![e] = file],
         NEW row \in Nat, psRow' = [psRow EXCEPT ![e] = row],
         UNCHANGED psSource, JobFits(e)'
  PROVE  SyncInv'
  <1>1. /\ SyncRunFits' /\ psFree' \in Nat /\ psProcessed' \in Nat
        /\ psJob' \in [Encodes -> {"waiting", "encode", "upload", "save"} \cup JobEnds]
        /\ \A x \in Encodes \ {e} : psJob'[x] = psJob[x]
        /\ psPhase = "running" /\ psPhase' = "running" /\ UNCHANGED psExisting
    BY JobsAreCounted
  <1>2. /\ psSeen \in [Encodes -> Nat] /\ psBytes \in [Encodes -> Nat] /\ psFile \in [Encodes -> Nat]
        /\ psRow \in [Encodes -> Nat]
    BY DEF SyncInv, SyncTyped
  <1>3. /\ psSeen' \in [Encodes -> Nat] /\ psBytes' \in [Encodes -> Nat] /\ psFile' \in [Encodes -> Nat]
        /\ psRow' \in [Encodes -> Nat]
        /\ \A x \in Encodes \ {e} : /\ psSeen'[x] = psSeen[x] /\ psBytes'[x] = psBytes[x]
                                    /\ psFile'[x] = psFile[x] /\ psRow'[x] = psRow[x]
    BY <1>2
  <1>4. SyncTyped'
    BY <1>1, <1>3 DEF SyncInv, SyncTyped
  <1>5. \A x \in Encodes \ {e} : JobFits(x)'
    BY <1>1, <1>3, OtherJobFits DEF SyncInv
  <1> QED BY <1>1, <1>4, <1>5 DEF SyncInv

\* What is known of a job under way.
LEMMA JobFacts ==
  ASSUME SyncInv, NEW e \in Encodes
  PROVE  /\ JobFits(e)
         /\ psRow[e] \in Nat /\ psFile[e] \in Nat /\ psSeen[e] \in Nat /\ psBytes[e] \in Nat
         /\ psSource[e] \in Nat \ {0}
         /\ psSeen = [psSeen EXCEPT ![e] = psSeen[e]] /\ psBytes = [psBytes EXCEPT ![e] = psBytes[e]]
         /\ psFile = [psFile EXCEPT ![e] = psFile[e]] /\ psRow = [psRow EXCEPT ![e] = psRow[e]]
         /\ \A v : /\ [psSeen EXCEPT ![e] = v][e] = v /\ [psBytes EXCEPT ![e] = v][e] = v
                   /\ [psFile EXCEPT ![e] = v][e] = v /\ [psRow EXCEPT ![e] = v][e] = v
                   /\ [psJob EXCEPT ![e] = v][e] = v
  BY DEF SyncInv, SyncTyped

LEMMA NotEncodedKeeps == ASSUME SyncInv, NEW e \in Encodes, NotEncoded(e) PROVE SyncInv'
  <1>1. /\ psJob[e] = "encode" /\ EncodeSkipped(e) /\ UNCHANGED <<psBytes, psSource, psFile, psRow>>
        /\ \/ JobEnded(e, "failed") /\ UNCHANGED psSeen
           \/ /\ psExisting[e] = psSource[e] /\ JobEnded(e, "skipped")
              /\ psSeen' = [psSeen EXCEPT ![e] = psSource[e]]
    BY DEF NotEncoded
  <1>2. EncodeInv' /\ encCall'[e] = "idle" /\ \A x \in Encodes \ {e} : encCall'[x] = encCall[x]
    BY <1>1, SkippedKeeps DEF EncodeSkipped, SyncInv, EncodeInv
  <1>3. JobGoes(e) /\ psPhase = "running"
    BY <1>1 DEF JobGoes, JobEnds, SyncInv, SyncRunFits, Underway
  <1>4. CASE JobEnded(e, "failed") /\ UNCHANGED psSeen
    <2>1. psJob'[e] = "failed"
      BY <1>4, JobFacts DEF JobEnded
    <2>2. JobFits(e)'
      BY <1>1, <1>2, <1>4, <2>1, JobFacts DEF JobFits
    <2> QED BY <1>1, <1>2, <1>3, <1>4, <2>2, JobFacts, JobStepKeeps
  <1>5. CASE psExisting[e] = psSource[e] /\ JobEnded(e, "skipped") /\ psSeen' = [psSeen EXCEPT ![e] = psSource[e]]
    <2>1. psJob'[e] = "skipped" /\ psSeen'[e] = psSource[e]
      BY <1>5, JobFacts DEF JobEnded
    <2>2. psRow[e] = psSource[e]
      BY <1>1, <1>3, <1>5, JobFacts DEF JobFits
    <2>3. JobFits(e)'
      BY <1>1, <1>2, <2>1, <2>2, JobFacts DEF JobFits
    <2> QED BY <1>1, <1>2, <1>3, <1>5, <2>3, JobFacts, JobStepKeeps
  <1> QED BY <1>1, <1>4, <1>5

LEMMA InspectedKeeps == ASSUME SyncInv, NEW e \in Encodes, Inspected(e) PROVE SyncInv'
  <1>1. /\ psJob[e] = "encode" /\ TakeSlot(e) /\ psSeen' = [psSeen EXCEPT ![e] = psSource[e]]
        /\ UNCHANGED <<psBytes, psSource, psFile, psRow>> /\ UNCHANGED <<runVars, psJob>>
    BY DEF Inspected
  <1>2. EncodeInv' /\ encCall'[e] \in {"queued", "encoding"} /\ \A x \in Encodes \ {e} : encCall'[x] = encCall[x]
    BY <1>1, TakeKeeps DEF TakeSlot, SyncInv, EncodeInv
  <1>3. psSeen'[e] = psSource[e] /\ psJob'[e] = "encode"
    BY <1>1, JobFacts
  <1>4. JobFits(e)'
    BY <1>1, <1>2, <1>3, JobFacts DEF JobFits, runVars
  <1> QED BY <1>1, <1>2, <1>4, JobFacts, JobStepKeeps DEF JobGoes

LEMMA EncodedKeeps == ASSUME SyncInv, NEW e \in Encodes, Encoded(e) PROVE SyncInv'
  <1>1. /\ psJob[e] = "encode" /\ EncodeEnds(e) /\ UNCHANGED <<psSeen, psSource, psFile, psRow>>
        /\ \/ JobEnded(e, "failed") /\ UNCHANGED psBytes
           \/ /\ psJob' = [psJob EXCEPT ![e] = "upload"] /\ UNCHANGED runVars
              /\ \E v \in psSeen[e]..psSource[e] : psBytes' = [psBytes EXCEPT ![e] = v]
    BY WriteOrderIs DEF Encoded
  <1>2. /\ EncodeInv' /\ encCall'[e] = "idle" /\ encCall[e] = "encoding"
        /\ \A x \in Encodes \ {e} : encCall'[x] = encCall[x] \/ (encCall[x] = "queued" /\ encCall'[x] = "encoding")
    BY <1>1, SlotPassed DEF SyncInv
  <1>3. CASE JobEnded(e, "failed") /\ UNCHANGED psBytes
    <2>1. psJob'[e] = "failed" /\ JobGoes(e)
      BY <1>3, JobFacts DEF JobEnded, JobGoes, JobEnds
    <2>2. JobFits(e)'
      BY <1>1, <1>2, <1>3, <2>1, JobFacts DEF JobFits
    <2> QED BY <1>1, <1>2, <1>3, <2>1, <2>2, JobFacts, JobStepKeeps
  <1>4. ASSUME NEW v \in psSeen[e]..psSource[e], psBytes' = [psBytes EXCEPT ![e] = v],
               psJob' = [psJob EXCEPT ![e] = "upload"], UNCHANGED runVars
        PROVE SyncInv'
    <2>1. v \in Nat /\ psSeen[e] <= v
      BY JobFacts
    <2>2. psJob'[e] = "upload" /\ psBytes'[e] = v /\ JobGoes(e)
      BY <1>4, JobFacts DEF JobGoes
    <2>3. JobFits(e)'
      BY <1>1, <1>2, <2>1, <2>2, JobFacts DEF JobFits
    <2>4. /\ psSeen' = [psSeen EXCEPT ![e] = psSeen[e]] /\ psSeen[e] \in Nat
          /\ psFile' = [psFile EXCEPT ![e] = psFile[e]] /\ psFile[e] \in Nat
          /\ psRow' = [psRow EXCEPT ![e] = psRow[e]] /\ psRow[e] \in Nat
          /\ psJob[e] = "encode" /\ UNCHANGED psSource
      BY <1>1, <1>2, JobFacts DEF JobFits
    <2> QED BY <1>2, <1>4, <2>1, <2>2, <2>3, <2>4, JobStepKeeps
  <1> QED BY <1>1, <1>3, <1>4

\* A write that failed, or whose answer was lost, is made again or fails its job.
LEMMA WriteGoesOn ==
  ASSUME SyncInv, NEW e \in Encodes, WriteFailed(e)
  PROVE  JobGoes(e) /\ psJob'[e] \in {psJob[e], "failed"}
  <1>1. CASE UNCHANGED <<runVars, psJob>>
    BY <1>1 DEF JobGoes
  <1>2. CASE JobEnded(e, "failed")
    <2>1. psJob' = [psJob EXCEPT ![e] = "failed"] /\ "failed" \in JobEnds
      BY <1>2 DEF JobEnded, JobEnds
    <2> QED BY <1>2, <2>1, JobFacts DEF JobGoes
  <1> QED BY <1>1, <1>2 DEF WriteFailed

LEMMA WriteSucceeds ==
  ASSUME SyncInv, NEW e \in Encodes, WriteDone(e)
  PROVE  JobGoes(e) /\ (psJob[e] = "upload" => psJob'[e] = "save") /\ (psJob[e] = "save" => psJob'[e] = "synced")
  <1>1. CASE psJob[e] = "upload" /\ psJob' = [psJob EXCEPT ![e] = "save"] /\ UNCHANGED runVars
    BY <1>1, JobFacts DEF JobGoes
  <1>2. CASE psJob[e] = "save" /\ JobEnded(e, "synced")
    <2>1. psJob' = [psJob EXCEPT ![e] = "synced"] /\ "synced" \in JobEnds
      BY <1>2 DEF JobEnded, JobEnds
    <2> QED BY <1>2, <2>1, JobFacts DEF JobGoes
  <1> QED BY <1>1, <1>2, WriteOrderIs DEF WriteDone

LEMMA UploadedKeeps == ASSUME SyncInv, NEW e \in Encodes, Uploaded(e) PROVE SyncInv'
  <1>1. /\ psJob[e] = "upload" /\ psFile' = [psFile EXCEPT ![e] = psBytes[e]]
        /\ UNCHANGED <<encodeVars, psSeen, psBytes, psSource, psRow>>
        /\ WriteDone(e) \/ WriteFailed(e)
    BY DEF Uploaded
  <1>2. EncodeInv' /\ UNCHANGED encCall
    BY <1>1 DEF SyncInv, EncodeInv, encodeVars
  <1>3. psFile'[e] = psBytes[e] /\ psJob'[e] \in {"upload", "failed", "save"} /\ JobGoes(e)
    BY <1>1, JobFacts, WriteGoesOn, WriteSucceeds
  <1>4. JobFits(e)'
    BY <1>1, <1>2, <1>3, JobFacts DEF JobFits
  <1> QED BY <1>1, <1>2, <1>3, <1>4, JobFacts, JobStepKeeps

LEMMA RowSavedKeeps == ASSUME SyncInv, NEW e \in Encodes, RowSaved(e) PROVE SyncInv'
  <1>1. /\ psJob[e] = "save" /\ psRow' = [psRow EXCEPT ![e] = psSeen[e]]
        /\ UNCHANGED <<encodeVars, psSeen, psBytes, psSource, psFile>>
        /\ WriteDone(e) \/ WriteFailed(e)
    BY DEF RowSaved
  <1>2. EncodeInv' /\ UNCHANGED encCall
    BY <1>1 DEF SyncInv, EncodeInv, encodeVars
  <1>3. psRow'[e] = psSeen[e] /\ psJob'[e] \in {"save", "failed", "synced"} /\ JobGoes(e)
    BY <1>1, JobFacts, WriteGoesOn, WriteSucceeds
  <1>4. JobFits(e)'
    BY <1>1, <1>2, <1>3, JobFacts DEF JobFits
  <1> QED BY <1>1, <1>2, <1>3, <1>4, JobFacts, JobStepKeeps

LEMMA NotWrittenKeeps == ASSUME SyncInv, NEW e \in Encodes, NotWritten(e) PROVE SyncInv'
  <1>1. /\ psJob[e] \in {"upload", "save"} /\ WriteFailed(e)
        /\ UNCHANGED <<encodeVars, psSeen, psBytes, psSource, psFile, psRow>>
    BY DEF NotWritten
  <1>2. EncodeInv' /\ UNCHANGED encCall
    BY <1>1 DEF SyncInv, EncodeInv, encodeVars
  <1>3. psJob'[e] \in {psJob[e], "failed"} /\ JobGoes(e)
    BY <1>1, WriteGoesOn
  <1>4. JobFits(e)'
    BY <1>1, <1>2, <1>3, JobFacts DEF JobFits
  <1> QED BY <1>1, <1>2, <1>3, <1>4, JobFacts, JobStepKeeps

LEMMA OriginalKeeps == ASSUME SyncInv, NEW e \in Encodes, OriginalChanges(e) PROVE SyncInv'
  <1>1. /\ psSource[e] = 1 /\ psSource' = [psSource EXCEPT ![e] = 2]
        /\ UNCHANGED <<encodeVars, runVars, psJob, psSeen, psBytes, psFile, psRow>>
    BY DEF OriginalChanges
  <1>2. psSource' \in [Encodes -> Nat \ {0}] /\ \A x \in Encodes : psSource'[x] \in Nat /\ psSource[x] <= psSource'[x]
    BY <1>1 DEF SyncInv, SyncTyped
  <1>3. SyncTyped' /\ SyncRunFits' /\ EncodeInv'
    BY <1>1, <1>2 DEF SyncInv, SyncTyped, SyncRunFits, EncodeInv, encodeVars, runVars, Underway, EndedJobs, JobsAt
  <1>4. \A x \in Encodes : JobFits(x)'
    <2> TAKE x \in Encodes
    <2>1. psRow[x] \in Nat /\ psSeen[x] \in Nat /\ psSource[x] \in Nat /\ JobFits(x)
      BY JobFacts
    <2> QED BY <1>1, <1>2, <2>1 DEF JobFits, encodeVars, runVars
  <1> QED BY <1>3, <1>4 DEF SyncInv

\* Without calls of the encoder no slot is taken.
LEMMA NothingEncodes ==
  ASSUME NEW call, call = [e \in Encodes |-> "idle"]
  PROVE  IsFiniteSet(EncodersAt(call)) /\ Cardinality(EncodersAt(call)) = 0
  <1>1. EncodersAt(call) = {}
    BY DEF EncodersAt
  <1> QED BY <1>1, FS_EmptySet

LEMMA NobodyWaits == << >> \in Seq(Encodes) /\ \A i \in 1 .. Len(<< >>) : FALSE
  OBVIOUS

LEMMA QuitKeeps == ASSUME SyncInv, AppQuits PROVE SyncInv'
  <1>1. /\ psPhase' = "idle" /\ psFree' = 0 /\ psProcessed' = 0 /\ UNCHANGED <<psSource, psFile, psRow>>
        /\ psJob' = [e \in Encodes |-> "waiting"] /\ psSeen' = [e \in Encodes |-> 0]
        /\ psBytes' = psSeen' /\ psExisting' = psSeen'
        /\ encCall' = [e \in Encodes |-> "idle"] /\ encActive' = 0 /\ encWaiters' = << >>
    BY DEF AppQuits
  <1>2. EncodeInv'
    BY <1>1, NothingEncodes, NobodyWaits, EncodeAssumption DEF EncodeInv
  <1>3. SyncTyped'
    BY <1>1 DEF SyncInv, SyncTyped
  <1>4. SyncRunFits'
    <2>1. EndedJobs' = {} /\ Underway' = {}
      BY <1>1 DEF EndedJobs, Underway, JobEnds
    <2> QED BY <1>1, <2>1, FS_EmptySet DEF SyncRunFits
  <1>5. \A e \in Encodes : JobFits(e)'
    BY <1>1 DEF SyncInv, JobFits, SyncTyped
  <1> QED BY <1>2, <1>3, <1>4, <1>5 DEF SyncInv

LEMMA SyncInitInv == SyncInit => SyncInv
  <1> SUFFICES ASSUME SyncInit PROVE SyncInv
    OBVIOUS
  <1>1. EncodeInv
    BY NothingEncodes, NobodyWaits, EncodeAssumption DEF SyncInit, EncodeInit, EncodeInv
  <1>2. psRow \in [Encodes -> Nat] /\ psFile = psRow /\ \A e \in Encodes : psRow[e] \in {0, 1}
    BY DEF SyncInit
  <1>3. SyncTyped
    BY <1>2 DEF SyncInit, SyncTyped
  <1>4. SyncRunFits
    <2>1. EndedJobs = {} /\ Underway = {}
      BY DEF SyncInit, EndedJobs, Underway, JobEnds
    <2> QED BY <2>1, FS_EmptySet DEF SyncInit, SyncRunFits
  <1>5. \A e \in Encodes : JobFits(e)
    BY <1>2 DEF SyncInit, EncodeInit, JobFits
  <1> QED BY <1>1, <1>3, <1>4, <1>5 DEF SyncInv

LEMMA SyncStepInv == SyncInv /\ [SyncNext]_syncVars => SyncInv'
  <1> SUFFICES ASSUME SyncInv, [SyncNext]_syncVars PROVE SyncInv'
    OBVIOUS
  <1>1. CASE SyncStarts \/ SyncFails \/ SyncRuns \/ SyncStop \/ WorkerLeaves \/ AppQuits
    BY <1>1, StartsKeeps, PhaseKeeps, QuitKeeps
  <1>2. ASSUME NEW e \in Encodes,
               \/ WorkerTakes(e) \/ NotEncoded(e) \/ Inspected(e) \/ Encoded(e)
               \/ Uploaded(e) \/ RowSaved(e) \/ NotWritten(e) \/ OriginalChanges(e)
        PROVE SyncInv'
    BY <1>2, WorkerTakesKeeps, NotEncodedKeeps, InspectedKeeps, EncodedKeeps, UploadedKeeps, RowSavedKeeps,
       NotWrittenKeeps, OriginalKeeps
  <1>3. CASE UNCHANGED syncVars
    <2>1. EncodeInv' /\ SyncTyped' /\ SyncRunFits'
      BY <1>3 DEF syncVars, encodeVars, runVars, SyncInv, EncodeInv, SyncTyped, SyncRunFits, Underway, EndedJobs, JobsAt
    <2>2. \A e \in Encodes : JobFits(e)'
      BY <1>3 DEF syncVars, encodeVars, runVars, SyncInv, JobFits
    <2> QED BY <2>1, <2>2 DEF SyncInv
  <1> QED BY <1>1, <1>2, <1>3 DEF SyncNext

LEMMA SyncInvMeans == SyncInv => PreviewsAreStored /\ SyncAccounts /\ SlotsBalance
  <1> SUFFICES ASSUME SyncInv PROVE PreviewsAreStored /\ SyncAccounts /\ SlotsBalance
    OBVIOUS
  <1>1. SlotsBalance
    BY DEF SyncInv, EncodeInv, EncodersAt, SlotsBalance
  <1>2. PreviewsAreStored
    BY JobFacts DEF JobFits, PreviewsAreStored
  <1>3. SyncAccounts
    <2> SUFFICES ASSUME psPhase = "done" PROVE SyncAccounts
      BY DEF SyncAccounts
    <2>1. Underway = {} /\ psFree = 0
      BY DEF SyncInv, SyncRunFits
    <2>2. EncodersAt(encCall) = {}
      BY <2>1 DEF EncodersAt, SyncInv, JobFits, Underway
    <2>3. encActive = 0
      BY <2>2, FS_EmptySet DEF SyncInv, EncodeInv
    <2> QED BY <2>1, <2>3 DEF SyncInv, SyncRunFits, EndedJobs, SyncAccounts
  <1> QED BY <1>1, <1>2, <1>3

\* What is left of SyncTypeOK: the workers that are free or have a job are no more than
\* there are, and no version is newer than an original can be.
SyncRest ==
  /\ psPhase \in {"idle", "preparing", "running", "done", "error"}
  /\ psStop \in BOOLEAN /\ psCancelled \in BOOLEAN
  /\ psTry \in [Encodes -> 1 .. SyncTries] /\ psSyncs \in 0 .. MaxSyncs
  /\ psSource \in [Encodes -> 1 .. 2] /\ psExisting \in [Encodes -> 0 .. 2]
  /\ psBytes \in [Encodes -> 0 .. 2] /\ psFile \in [Encodes -> 0 .. 2]
WorkersFit == IsFiniteSet(Underway) /\ psFree + Cardinality(Underway) <= SyncWorkers

\* A worker that ends its job is free again.
LEMMA WorkersStay ==
  ASSUME SyncInv, WorkersFit, NEW e \in Encodes, e \in Underway, JobGoes(e)
  PROVE  WorkersFit'
  <1>1. /\ psJob \in [Encodes -> {"waiting", "encode", "upload", "save"} \cup JobEnds]
        /\ psFree \in Nat /\ IsFiniteSet(Underway) /\ psFree + Cardinality(Underway) <= SyncWorkers
        /\ Cardinality(Underway) \in Nat /\ SyncWorkers \in Nat
    BY FS_CardinalityType, SyncAssumption DEF SyncInv, SyncTyped, WorkersFit
  <1>2. CASE UNCHANGED <<runVars, psJob>>
    BY <1>1, <1>2 DEF runVars, WorkersFit, Underway
  <1>3. ASSUME NEW step \in {"upload", "save"}, UNCHANGED runVars, psJob' = [psJob EXCEPT ![e] = step]
        PROVE  WorkersFit'
    <2>1. Underway' = Underway
      BY <1>1, <1>3 DEF Underway
    <2> QED BY <1>1, <1>3, <2>1 DEF runVars, WorkersFit
  <1>4. ASSUME NEW how \in JobEnds, JobEnded(e, how) PROVE WorkersFit'
    <2>1. Underway' = Underway \ {e} /\ psFree' = psFree + 1
      BY <1>1, <1>4 DEF JobEnded, Underway, JobEnds
    <2>2. IsFiniteSet(Underway \ {e}) /\ Cardinality(Underway \ {e}) = Cardinality(Underway) - 1
      BY <1>1, FS_RemoveElement
    <2> QED BY <1>1, <2>1, <2>2 DEF WorkersFit
  <1> QED BY <1>2, <1>3, <1>4 DEF JobGoes

LEMMA NoWorkers ==
  ASSUME psJob' = [e \in Encodes |-> "waiting"] \/ (UNCHANGED psJob /\ Underway = {}), psFree' \in {0, SyncWorkers}
  PROVE  WorkersFit'
  <1>1. Underway' = {}
    BY DEF Underway
  <1> QED BY <1>1, FS_EmptySet, SyncAssumption DEF WorkersFit

LEMMA WorkersKept ==
  ASSUME SyncInv, WorkersFit, [SyncNext]_syncVars
  PROVE  WorkersFit'
  <1>1. /\ psJob \in [Encodes -> {"waiting", "encode", "upload", "save"} \cup JobEnds]
        /\ psFree \in Nat /\ IsFiniteSet(Underway) /\ psFree + Cardinality(Underway) <= SyncWorkers
        /\ Cardinality(Underway) \in Nat /\ SyncWorkers \in Nat
    BY FS_CardinalityType, SyncAssumption DEF SyncInv, SyncTyped, WorkersFit
  <1>2. CASE SyncFails \/ SyncStop \/ WorkerLeaves \/ UNCHANGED syncVars
    <2>1. Underway' = Underway
      BY <1>2 DEF SyncFails, SyncStop, WorkerLeaves, syncVars, Underway
    <2>2. psFree' = psFree \/ psFree' = psFree - 1
      BY <1>2 DEF SyncFails, SyncStop, WorkerLeaves, syncVars, runVars
    <2> QED BY <1>1, <2>1, <2>2 DEF WorkersFit
  <1>3. CASE SyncStarts \/ SyncRuns \/ AppQuits
    <2>1. psPhase # "running" => Underway = {} /\ psFree = 0
      BY DEF SyncInv, SyncRunFits
    <2> QED BY <1>3, <2>1, NoWorkers DEF SyncStarts, SyncRuns, AppQuits
  <1>4. ASSUME NEW e \in Encodes, WorkerTakes(e) PROVE WorkersFit'
    <2>1. /\ psJob' = [psJob EXCEPT ![e] = "encode"] /\ psFree' = psFree - 1 /\ psFree > 0 /\ psJob[e] = "waiting"
      BY <1>4 DEF WorkerTakes
    <2>2. Underway' = Underway \cup {e} /\ e \notin Underway
      BY <1>1, <2>1 DEF Underway
    <2>3. IsFiniteSet(Underway') /\ Cardinality(Underway') = Cardinality(Underway) + 1
      BY <1>1, <2>2, FS_AddElement
    <2> QED BY <1>1, <2>1, <2>3 DEF WorkersFit
  <1>5. ASSUME NEW e \in Encodes, NotEncoded(e) \/ Inspected(e) \/ Encoded(e) PROVE WorkersFit'
    <2>1. e \in Underway /\ JobGoes(e)
      BY <1>5, WriteOrderIs DEF NotEncoded, Inspected, Encoded, Underway, JobGoes, JobEnds
    <2> QED BY <2>1, WorkersStay
  <1>6. ASSUME NEW e \in Encodes, Uploaded(e) \/ RowSaved(e) \/ NotWritten(e) PROVE WorkersFit'
    <2>1. e \in Underway /\ JobGoes(e)
      BY <1>6, WriteGoesOn, WriteSucceeds DEF Uploaded, RowSaved, NotWritten, Underway
    <2> QED BY <2>1, WorkersStay
  <1>7. ASSUME NEW e \in Encodes, OriginalChanges(e) PROVE WorkersFit'
    BY <1>7 DEF OriginalChanges, runVars, WorkersFit, Underway
  <1> QED BY <1>2, <1>3, <1>4, <1>5, <1>6, <1>7 DEF SyncNext

\* A job that goes on begins its attempts again, or tries once more.
LEMMA TriesFit ==
  ASSUME SyncRest, NEW e \in Encodes,
         \/ UNCHANGED psTry \/ psTry' = [psTry EXCEPT ![e] = 1]
         \/ psTry[e] < SyncTries /\ psTry' = [psTry EXCEPT ![e] = @ + 1]
  PROVE  psTry' \in [Encodes -> 1 .. SyncTries]
  <1>1. psTry \in [Encodes -> 1 .. SyncTries] /\ 1 \in 1 .. SyncTries /\ SyncTries \in Nat
    BY SyncAssumption DEF SyncRest
  <1>2. CASE psTry[e] < SyncTries /\ psTry' = [psTry EXCEPT ![e] = @ + 1]
    <2>1. psTry[e] + 1 \in 1 .. SyncTries
      BY <1>1, <1>2
    <2> QED BY <1>1, <1>2, <2>1
  <1> QED BY <1>1, <1>2

LEMMA SyncConstants ==
  /\ [e \in Encodes |-> 0] \in [Encodes -> 0 .. 2] /\ [e \in Encodes |-> 1] \in [Encodes -> 1 .. 2]
  /\ [e \in Encodes |-> 1] \in [Encodes -> 1 .. SyncTries]
  /\ [e \in Encodes |-> IF e \in EditedOriginals THEN 1 ELSE 0] \in [Encodes -> 0 .. 2]
  BY SyncAssumption

LEMMA SyncRestKept ==
  ASSUME SyncInv, SyncRest, [SyncNext]_syncVars
  PROVE  SyncRest'
  <1>1. /\ psRow \in [Encodes -> 0 .. 2] /\ psSeen \in [Encodes -> 0 .. 2]
    <2>1. \A e \in Encodes : psRow[e] \in 0 .. 2 /\ psSeen[e] \in 0 .. 2
      BY JobFacts DEF SyncRest, JobFits
    <2> QED BY <2>1 DEF SyncInv, SyncTyped
  <1>2. 1 \in 1 .. SyncTries /\ SyncTries \in Nat /\ MaxSyncs \in Nat
    BY SyncAssumption
  <1>3. CASE SyncStarts \/ SyncFails \/ SyncRuns \/ SyncStop \/ WorkerLeaves \/ AppQuits \/ UNCHANGED syncVars
    <2>1. CASE SyncStarts
      <3>1. psSyncs' \in 0 .. MaxSyncs
        BY <1>2, <2>1 DEF SyncStarts, SyncRest
      <3>2. psExisting' \in [Encodes -> 0 .. 2] /\ psBytes' \in [Encodes -> 0 .. 2]
        BY <2>1, SyncConstants DEF SyncStarts
      <3> QED BY <2>1, <3>1, <3>2 DEF SyncStarts, SyncRest
    <2>2. CASE AppQuits
      <3>1. /\ psExisting' \in [Encodes -> 0 .. 2] /\ psBytes' \in [Encodes -> 0 .. 2]
            /\ psTry' \in [Encodes -> 1 .. SyncTries]
        BY <2>2, SyncConstants DEF AppQuits
      <3> QED BY <2>2, <3>1 DEF AppQuits, SyncRest
    <2>3. CASE SyncFails \/ SyncRuns
      BY <1>1, <2>3 DEF SyncFails, SyncRuns, SyncRest
    <2>4. CASE SyncStop \/ WorkerLeaves \/ UNCHANGED syncVars
      BY <2>4 DEF SyncStop, WorkerLeaves, syncVars, runVars, SyncRest
    <2> QED BY <1>3, <2>1, <2>2, <2>3, <2>4
  <1>4. ASSUME NEW e \in Encodes, WorkerTakes(e) \/ NotEncoded(e) \/ Inspected(e) \/ Uploaded(e) \/ RowSaved(e) \/ NotWritten(e)
        PROVE  SyncRest'
    <2>1. /\ UNCHANGED <<psPhase, psStop, psCancelled, psExisting, psSyncs, psBytes, psSource>>
          /\ psFile' = psFile \/ psFile' = [psFile EXCEPT ![e] = psBytes[e]]
      BY <1>4 DEF WorkerTakes, NotEncoded, Inspected, Uploaded, RowSaved, NotWritten, JobEnded, WriteDone, WriteFailed, runVars
    <2>2. \/ UNCHANGED psTry \/ psTry' = [psTry EXCEPT ![e] = 1]
          \/ psTry[e] < SyncTries /\ psTry' = [psTry EXCEPT ![e] = @ + 1]
      BY <1>4 DEF WorkerTakes, NotEncoded, Inspected, Uploaded, RowSaved, NotWritten, JobEnded, WriteDone, WriteFailed
    <2>3. psTry' \in [Encodes -> 1 .. SyncTries]
      BY <2>2, TriesFit
    <2>4. psFile' \in [Encodes -> 0 .. 2]
      BY <2>1 DEF SyncRest
    <2> QED BY <2>1, <2>3, <2>4 DEF SyncRest
  <1>5. ASSUME NEW e \in Encodes, Encoded(e) PROVE SyncRest'
    <2>1. /\ UNCHANGED <<psPhase, psStop, psCancelled, psExisting, psSyncs, psFile, psSource>>
          /\ psBytes' = psBytes \/ \E v \in psSeen[e] .. psSource[e] : psBytes' = [psBytes EXCEPT ![e] = v]
          /\ psTry' = [psTry EXCEPT ![e] = 1]
      BY <1>5 DEF Encoded, JobEnded, runVars
    <2>2. psTry' \in [Encodes -> 1 .. SyncTries]
      BY <2>1, TriesFit
    <2>3. psSeen[e] .. psSource[e] \subseteq 0 .. 2
      BY <1>1 DEF SyncRest
    <2>4. psBytes' \in [Encodes -> 0 .. 2]
      BY <2>1, <2>3 DEF SyncRest
    <2> QED BY <2>1, <2>2, <2>4 DEF SyncRest
  <1>6. ASSUME NEW e \in Encodes, OriginalChanges(e) PROVE SyncRest'
    BY <1>6 DEF OriginalChanges, runVars, SyncRest
  <1> QED BY <1>3, <1>4, <1>5, <1>6 DEF SyncNext

LEMMA SyncTypesAre ==
  /\ SyncInit => SyncRest /\ WorkersFit
  /\ SyncInv /\ SyncRest /\ WorkersFit => SyncTypeOK
  <1>1. ASSUME SyncInit PROVE SyncRest /\ WorkersFit
    <2>1. SyncRest
      <3>1. /\ psTry = [e \in Encodes |-> 1] /\ psSource = [e \in Encodes |-> 1]
            /\ psExisting = [e \in Encodes |-> 0] /\ psBytes = [e \in Encodes |-> 0]
            /\ psFile = [e \in Encodes |-> IF e \in EditedOriginals THEN 1 ELSE 0]
        BY <1>1 DEF SyncInit
      <3>2. /\ psTry \in [Encodes -> 1 .. SyncTries] /\ psSource \in [Encodes -> 1 .. 2] /\ psExisting \in [Encodes -> 0 .. 2]
            /\ psBytes \in [Encodes -> 0 .. 2] /\ psFile \in [Encodes -> 0 .. 2]
        BY <3>1, SyncConstants
      <3>3. psPhase = "idle" /\ psStop = FALSE /\ psCancelled = FALSE /\ psSyncs = 0
        BY <1>1 DEF SyncInit
      <3>4. psSyncs \in 0 .. MaxSyncs
        BY <3>3, SyncAssumption
      <3> QED BY <3>2, <3>3, <3>4 DEF SyncRest
    <2>2. Underway = {} /\ psFree = 0
      BY <1>1 DEF SyncInit, Underway
    <2> QED BY <2>1, <2>2, FS_EmptySet, SyncAssumption DEF WorkersFit
  <1>2. ASSUME SyncInv, SyncRest, WorkersFit PROVE SyncTypeOK
    <2>1. EncodeTypeOK
      BY <1>2 DEF SyncInv, EncodeInv, EncodeTypeOK
    <2>2. psFree \in 0 .. SyncWorkers
      BY <1>2, FS_CardinalityType, SyncAssumption DEF SyncInv, SyncTyped, WorkersFit
    <2>3. psProcessed \in 0 .. Cardinality(Encodes)
      <3>1. psProcessed \in Nat /\ psProcessed = Cardinality(EndedJobs) /\ EndedJobs \subseteq Encodes
        BY <1>2 DEF SyncInv, SyncTyped, SyncRunFits, EndedJobs
      <3>2. Cardinality(EndedJobs) <= Cardinality(Encodes) /\ Cardinality(Encodes) \in Nat
        BY <3>1, FS_Subset, FS_CardinalityType, SyncAssumption
      <3> QED BY <3>1, <3>2
    <2>4. psRow \in [Encodes -> 0 .. 2] /\ psSeen \in [Encodes -> 0 .. 2]
      <3>1. \A e \in Encodes : psRow[e] \in 0 .. 2 /\ psSeen[e] \in 0 .. 2
        BY <1>2, JobFacts DEF SyncRest, JobFits
      <3> QED BY <1>2, <3>1 DEF SyncInv, SyncTyped
    <2>5. psJob \in [Encodes -> {"waiting", "encode", "upload", "save"} \cup JobEnds]
      BY <1>2 DEF SyncInv, SyncTyped
    <2> QED BY <1>2, <2>1, <2>2, <2>3, <2>4, <2>5 DEF SyncRest, SyncTypeOK
  <1> QED BY <1>1, <1>2

-----------------------------------------------------------------------------
(* The Resume Analysis dialog (ResumeAnalysisModal.tsx).                   *)

\* The sets of ResumeTypeOK that the invariant needs, by name.
ResumeRecords == [step : ResumeSteps, kind : {"open", "pick"}, imp : ResumeImports \cup {NoResume}, aborted : BOOLEAN]
BusyPhases == {"fetching_status", "uploading", "stopping_usb_reads", "parsing"}

ResumeTyped ==
  /\ rsRun \in [ResumeRuns -> ResumeRecords] /\ rsOpen \in ResumeImports \cup {NoResume}
  /\ rsCurrent \in ResumeRuns \cup {NoResume} /\ rsControl \in ResumeRuns \cup {NoResume}
  /\ rsClean \in BOOLEAN /\ rsClosing \in BOOLEAN /\ rsLost \in BOOLEAN

\* Only a selection looks for files and sends them.
PicksSend == \A r \in ResumeRuns : rsRun[r].step \in {"finding", "session", "uploading"} => rsRun[r].kind = "pick"

\* The run of the current generation is for the import of the dialog, and is only aborted
\* when nothing was lost by the cleanup of its own files.
CurrentFits ==
  rsCurrent \in ResumeRuns =>
    /\ rsRun[rsCurrent].imp = rsOpen
    /\ ~rsLost /\ UnderWay(rsCurrent) =>
         rsRun[rsCurrent].aborted = FALSE \/ (rsRun[rsCurrent].kind = "pick" /\ rsRun[rsCurrent].step = "releasing")

\* Each phase that waits has the current run at the step that will end it.
PhaseWaits ==
  ~rsLost /\ ~rsClosing /\ rsPhase \in BusyPhases =>
    /\ rsCurrent \in ResumeRuns
    /\ rsPhase = "fetching_status" => rsRun[rsCurrent].step = "fetching"
    /\ rsPhase = "stopping_usb_reads" => rsRun[rsCurrent].step = "releasing"
    /\ rsPhase = "uploading" => rsRun[rsCurrent].step \in {"uploading", "releasing"} /\ rsRun[rsCurrent].kind = "pick"
    /\ rsPhase = "parsing" => rsRun[rsCurrent].step = "parsing"

\* A dialog that was asked to close has a selection that will close it.
ClosingEnds ==
  rsClosing =>
    /\ rsCurrent = NoResume /\ rsPhase # "scan_prompt"
    /\ rsLost \/ \E r \in ResumeRuns : rsRun[r].kind = "pick" /\ rsRun[r].step \in {"uploading", "releasing"}

ResultFits == rsPhase \in {"done", "done_partial"} => rsResult = rsOpen

ResumeInv == ResumeTyped /\ PicksSend /\ CurrentFits /\ PhaseWaits /\ ClosingEnds /\ ResultFits

\* An abort changes nothing else of a run.
LEMMA AbortOnly ==
  ASSUME ResumeTyped, NEW c \in ResumeRuns \cup {NoResume}
  PROVE  /\ AbortOf(c) \in [ResumeRuns -> ResumeRecords]
         /\ \A x \in ResumeRuns : /\ AbortOf(c)[x].step = rsRun[x].step /\ AbortOf(c)[x].kind = rsRun[x].kind
                                  /\ AbortOf(c)[x].imp = rsRun[x].imp
                                  /\ x # c => AbortOf(c)[x].aborted = rsRun[x].aborted
  <1>1. CASE c = NoResume
    BY <1>1 DEF AbortOf, ResumeTyped
  <1>2. CASE c # NoResume
    <2> DEFINE run == [rsRun[c] EXCEPT !.aborted = TRUE]
    <2>1. AbortOf(c) = [rsRun EXCEPT ![c] = run] /\ c \in ResumeRuns
      BY <1>2 DEF AbortOf
    <2>2. rsRun[c] \in ResumeRecords
      BY <2>1 DEF ResumeTyped
    <2>3. run \in ResumeRecords /\ run.step = rsRun[c].step /\ run.kind = rsRun[c].kind /\ run.imp = rsRun[c].imp
      BY <2>2 DEF ResumeRecords
    <2> HIDE DEF run
    <2> QED BY <2>1, <2>3 DEF ResumeTyped
  <1> QED BY <1>1, <1>2

LEMMA CleanedOnly ==
  ASSUME ResumeTyped
  PROVE  /\ CleanedRuns \in [ResumeRuns -> ResumeRecords] /\ CleanedControl \in ResumeRuns \cup {NoResume}
         /\ \A x \in ResumeRuns :
              /\ CleanedRuns[x].step = rsRun[x].step /\ CleanedRuns[x].kind = rsRun[x].kind
              /\ CleanedRuns[x].imp = rsRun[x].imp
              /\ rsClean \/ x # rsControl => CleanedRuns[x].aborted = rsRun[x].aborted
  BY AbortOnly DEF CleanedRuns, CleanedControl, ResumeTyped

\* A run goes to another step.
LEMMA ResumeGoes ==
  ASSUME NEW runs \in [ResumeRuns -> ResumeRecords], NEW r \in ResumeRuns, NEW step \in ResumeSteps
  PROVE  LET next == [runs EXCEPT ![r].step = step]
         IN  /\ next \in [ResumeRuns -> ResumeRecords]
             /\ next[r].step = step
             /\ \A x \in ResumeRuns : /\ x # r => next[x].step = runs[x].step
                                      /\ next[x].kind = runs[x].kind /\ next[x].imp = runs[x].imp
                                      /\ next[x].aborted = runs[x].aborted
  <1> DEFINE run == [runs[r] EXCEPT !.step = step]
  <1>1. [runs EXCEPT ![r].step = step] = [runs EXCEPT ![r] = run]
    OBVIOUS
  <1>2. run \in ResumeRecords /\ run.step = step /\ run.kind = runs[r].kind /\ run.imp = runs[r].imp
        /\ run.aborted = runs[r].aborted
    BY DEF ResumeRecords
  <1> HIDE DEF run
  <1> QED BY <1>1, <1>2

\* The current run may speak for the dialog, unless it cleaned up its own files.
LEMMA CurrentSpeaks ==
  ASSUME ResumeInv, rsCurrent \in ResumeRuns, ~rsLost, UnderWay(rsCurrent)
  PROVE  /\ ~(rsRun[rsCurrent].kind = "pick" /\ rsRun[rsCurrent].step = "releasing") => IsCurrentResume(rsCurrent)
         /\ IsCurrentResume(rsCurrent) \/ MayParse(rsCurrent)
  BY DEF ResumeInv, CurrentFits, IsCurrentResume, MayParse

LEMMA UnmountKeeps == ASSUME ResumeInv, Unmounted PROVE ResumeInv'
  <1>1. rsRun' \in [ResumeRuns -> ResumeRecords] /\ \A r \in ResumeRuns : rsRun'[r].step \in {"new", "ended"}
    <2>1. \A r \in ResumeRuns : [rsRun[r] EXCEPT !.step = "ended"] \in ResumeRecords
                                /\ [rsRun[r] EXCEPT !.step = "ended"].step = "ended" /\ rsRun[r] \in ResumeRecords
      BY DEF ResumeInv, ResumeTyped, ResumeRecords, ResumeSteps
    <2> QED BY <2>1 DEF Unmounted, UnderWay
  <1> QED BY <1>1, ResumeAssumption
      DEF Unmounted, ResumeInv, ResumeTyped, PicksSend, CurrentFits, PhaseWaits, ClosingEnds, ResultFits, BusyPhases

\* The end of a run, whatever it cleans up.
LEMMA RunEndKeeps ==
  ASSUME ResumeInv, NEW r \in ResumeRuns, UnderWay(r), NEW cleans \in BOOLEAN, NEW phase, Ends(r, cleans, phase),
         phase = rsPhase \/ phase = "error" \/ (phase = "scan_prompt" /\ ~rsClosing),
         r = rsCurrent /\ ~rsLost => phase \notin BusyPhases
  PROVE  ResumeInv'
  <1>1. CASE Unmounted
    BY <1>1, UnmountKeeps
  <1>2. CASE ~(rsClosing /\ rsRun[r].kind = "pick") /\ EndsOpen(r, cleans, phase)
    <2> DEFINE runs == IF cleans THEN CleanedRuns ELSE rsRun
    <2>1. /\ rsRun' = [runs EXCEPT ![r].step = "ended"]
          /\ rsControl' = (IF cleans THEN CleanedControl ELSE rsControl) /\ rsClean' = (rsClean \/ cleans)
          /\ rsLost' = (rsLost \/ (cleans /\ ~rsClean /\ rsControl \notin {r, NoResume}))
          /\ rsPhase' = phase /\ UNCHANGED <<rsOpen, rsCurrent, rsClosing, rsResult>>
      BY <1>2 DEF EndsOpen
    <2>2. /\ runs \in [ResumeRuns -> ResumeRecords]
          /\ \A x \in ResumeRuns : /\ runs[x].step = rsRun[x].step /\ runs[x].kind = rsRun[x].kind
                                   /\ runs[x].imp = rsRun[x].imp
                                   /\ ~cleans \/ rsClean \/ x # rsControl => runs[x].aborted = rsRun[x].aborted
      BY CleanedOnly DEF ResumeInv, ResumeTyped
    <2>3. rsControl' \in ResumeRuns \cup {NoResume}
      BY <2>1, CleanedOnly DEF ResumeInv, ResumeTyped
    <2> HIDE DEF runs
    <2>4. /\ rsRun' \in [ResumeRuns -> ResumeRecords] /\ rsRun'[r].step = "ended"
          /\ \A x \in ResumeRuns : /\ x # r => rsRun'[x].step = rsRun[x].step
                                   /\ rsRun'[x].kind = rsRun[x].kind /\ rsRun'[x].imp = rsRun[x].imp
                                   /\ ~cleans \/ rsClean \/ x # rsControl => rsRun'[x].aborted = rsRun[x].aborted
      <3>1. "ended" \in ResumeSteps
        BY DEF ResumeSteps
      <3>2. /\ rsRun' \in [ResumeRuns -> ResumeRecords] /\ rsRun'[r].step = "ended"
            /\ \A x \in ResumeRuns : /\ x # r => rsRun'[x].step = runs[x].step
                                     /\ rsRun'[x].kind = runs[x].kind /\ rsRun'[x].imp = runs[x].imp
                                     /\ rsRun'[x].aborted = runs[x].aborted
        BY <2>1, <2>2, <3>1, ResumeGoes
      <3> QED BY <2>2, <3>2
    <2>5. ResumeTyped /\ PicksSend /\ CurrentFits /\ PhaseWaits /\ ClosingEnds /\ ResultFits
      BY DEF ResumeInv
    <2>6. ResumeTyped' /\ PicksSend' /\ ResultFits'
      BY <2>1, <2>3, <2>4, <2>5 DEF ResumeTyped, PicksSend, ResultFits
    <2>7. ~rsLost' => ~rsLost /\ (~cleans \/ rsClean \/ rsControl \in {r, NoResume})
      BY <2>1
    <2>8. CurrentFits'
      <3>1. CASE rsCurrent = r
        BY <2>1, <2>4, <2>5, <3>1 DEF CurrentFits, UnderWay
      <3>2. CASE rsCurrent # r /\ rsCurrent \in ResumeRuns
        BY <2>1, <2>4, <2>5, <2>7, <3>2, ResumeAssumption DEF CurrentFits, UnderWay
      <3> QED BY <2>1, <3>1, <3>2 DEF CurrentFits
    <2>9. PhaseWaits'
      BY <2>1, <2>4, <2>5, <2>7 DEF PhaseWaits, BusyPhases
    <2>10. ClosingEnds'
      BY <1>2, <2>1, <2>4, <2>5, <2>7 DEF ClosingEnds
    <2> QED BY <2>6, <2>8, <2>9, <2>10 DEF ResumeInv
  <1> QED BY <1>1, <1>2 DEF Ends

\* A run goes on or ends by itself, and cleans up nothing of another one.
LEMMA RunStepKeeps ==
  ASSUME ResumeInv, NEW r \in ResumeRuns, UnderWay(r), NEW step \in ResumeSteps,
         rsRun' \in [ResumeRuns -> ResumeRecords], rsRun'[r].step = step,
         \A x \in ResumeRuns : /\ x # r => rsRun'[x].step = rsRun[x].step
                               /\ rsRun'[x].kind = rsRun[x].kind /\ rsRun'[x].imp = rsRun[x].imp
                               /\ x # r => rsRun'[x].aborted = rsRun[x].aborted \/ x # rsCurrent,
         UNCHANGED <<rsOpen, rsCurrent, rsClosing, rsLost>>,
         rsControl' \in ResumeRuns \cup {NoResume}, rsClean' \in BOOLEAN,
         step \in {"finding", "session", "uploading"} => rsRun[r].kind = "pick",
         rsClosing => rsRun[r].kind = "open" \/ rsRun[r].step \notin {"uploading", "releasing"},
         rsClosing => rsPhase' # "scan_prompt",
         r = rsCurrent /\ ~rsLost => step = "ended" \/ rsRun'[r].aborted = FALSE \/ (rsRun[r].kind = "pick" /\ step = "releasing"),
         r # rsCurrent => rsPhase' \in {rsPhase, "error"},
         r = rsCurrent /\ ~rsLost => PhaseWaits',
         ResultFits'
  PROVE  ResumeInv'
  <1>1. ResumeTyped' /\ PicksSend'
    BY DEF ResumeInv, ResumeTyped, PicksSend
  <1>2. CurrentFits'
    BY DEF ResumeInv, CurrentFits, UnderWay
  <1>3. PhaseWaits'
    <2>1. CASE r = rsCurrent
      BY <2>1 DEF PhaseWaits
    <2>2. CASE r # rsCurrent
      BY <2>2 DEF ResumeInv, PhaseWaits, BusyPhases
    <2> QED BY <2>1, <2>2
  <1>4. ClosingEnds'
    BY DEF ResumeInv, ClosingEnds
  <1> QED BY <1>1, <1>2, <1>3, <1>4 DEF ResumeInv

LEMMA OpenKeeps == ASSUME ResumeInv, NEW r \in ResumeRuns, NEW i \in ResumeImports, OpenResume(r, i) PROVE ResumeInv'
  <1> DEFINE run == [NewResume EXCEPT !.step = "fetching", !.imp = i]
  <1>1. rsRun' = [AbortOf(rsControl) EXCEPT ![r] = run]
    BY DEF OpenResume
  <1>2. run \in ResumeRecords /\ run.step = "fetching" /\ run.imp = i /\ run.aborted = FALSE
    BY DEF NewResume, ResumeRecords, ResumeSteps
  <1> HIDE DEF run
  <1>3. /\ AbortOf(rsControl) \in [ResumeRuns -> ResumeRecords]
        /\ \A x \in ResumeRuns : /\ AbortOf(rsControl)[x].step = rsRun[x].step
                                 /\ AbortOf(rsControl)[x].kind = rsRun[x].kind
    BY AbortOnly DEF ResumeInv, ResumeTyped
  <1>4. /\ rsRun' \in [ResumeRuns -> ResumeRecords] /\ rsRun'[r] = run
        /\ \A x \in ResumeRuns \ {r} : rsRun'[x].step = rsRun[x].step /\ rsRun'[x].kind = rsRun[x].kind
    BY <1>1, <1>2, <1>3
  <1>5. ResumeTyped' /\ PicksSend'
    BY <1>2, <1>4 DEF OpenResume, ResumeInv, ResumeTyped, PicksSend
  <1>6. CurrentFits' /\ PhaseWaits' /\ ClosingEnds' /\ ResultFits'
    BY <1>2, <1>4 DEF OpenResume, CurrentFits, PhaseWaits, ClosingEnds, ResultFits
  <1> QED BY <1>5, <1>6 DEF ResumeInv

LEMMA PickKeeps == ASSUME ResumeInv, NEW r \in ResumeRuns, PickDirectory(r) PROVE ResumeInv'
  <1> DEFINE run == [step |-> "finding", kind |-> "pick", imp |-> rsOpen, aborted |-> FALSE]
  <1>1. rsRun' = [AbortOf(rsControl) EXCEPT ![r] = run]
    BY DEF PickDirectory
  <1>2. run \in ResumeRecords /\ run.step = "finding" /\ run.kind = "pick" /\ run.imp = rsOpen /\ run.aborted = FALSE
    BY DEF ResumeInv, ResumeTyped, ResumeRecords, ResumeSteps
  <1> HIDE DEF run
  <1>3. /\ AbortOf(rsControl) \in [ResumeRuns -> ResumeRecords]
        /\ \A x \in ResumeRuns : /\ AbortOf(rsControl)[x].step = rsRun[x].step
                                 /\ AbortOf(rsControl)[x].kind = rsRun[x].kind
    BY AbortOnly DEF ResumeInv, ResumeTyped
  <1>4. /\ rsRun' \in [ResumeRuns -> ResumeRecords] /\ rsRun'[r] = run
        /\ \A x \in ResumeRuns \ {r} : rsRun'[x].step = rsRun[x].step /\ rsRun'[x].kind = rsRun[x].kind
    BY <1>1, <1>2, <1>3
  <1>5. ResumeTyped' /\ PicksSend'
    BY <1>2, <1>4 DEF PickDirectory, ResumeInv, ResumeTyped, PicksSend
  <1>6. CurrentFits' /\ PhaseWaits' /\ ClosingEnds' /\ ResultFits'
    BY <1>2, <1>4 DEF PickDirectory, CurrentFits, PhaseWaits, ClosingEnds, ResultFits, BusyPhases, ResumeInv
  <1> QED BY <1>5, <1>6 DEF ResumeInv

LEMMA CloseKeeps == ASSUME ResumeInv, CloseResume \/ CloseUploading \/ RetryResume PROVE ResumeInv'
  <1>1. CASE CloseResume
    BY <1>1, UnmountKeeps DEF CloseResume
  <1>2. CASE CloseUploading
    <2>1. /\ rsPhase = "uploading" /\ rsPhase' = "stopping_usb_reads" /\ rsClosing' = TRUE /\ rsCurrent' = NoResume
          /\ rsRun' = CleanedRuns /\ rsControl' = CleanedControl /\ rsClean' = TRUE
          /\ UNCHANGED <<rsOpen, rsResult, rsLost>>
      BY <1>2 DEF CloseUploading
    <2>2. /\ CleanedRuns \in [ResumeRuns -> ResumeRecords] /\ CleanedControl \in ResumeRuns \cup {NoResume}
          /\ \A x \in ResumeRuns : CleanedRuns[x].step = rsRun[x].step /\ CleanedRuns[x].kind = rsRun[x].kind
      BY CleanedOnly DEF ResumeInv
    <2>3. rsLost \/ \E r \in ResumeRuns : rsRun[r].kind = "pick" /\ rsRun[r].step \in {"uploading", "releasing"}
      BY <2>1 DEF ResumeInv, PhaseWaits, ClosingEnds, BusyPhases
    <2>4. ResumeTyped' /\ PicksSend'
      BY <2>1, <2>2 DEF ResumeInv, ResumeTyped, PicksSend
    <2>5. ClosingEnds'
      BY <2>1, <2>2, <2>3 DEF ClosingEnds
    <2>6. CurrentFits' /\ PhaseWaits' /\ ResultFits'
      BY <2>1, ResumeAssumption DEF CurrentFits, PhaseWaits, ResultFits
    <2> QED BY <2>4, <2>5, <2>6 DEF ResumeInv
  <1>3. CASE RetryResume
    BY <1>3 DEF RetryResume, ResumeInv, ResumeTyped, PicksSend, CurrentFits, PhaseWaits, ClosingEnds, ResultFits
  <1> QED BY <1>1, <1>2, <1>3

\* What becomes of a run that goes to another step.
LEMMA GoesSo ==
  ASSUME ResumeInv, NEW r \in ResumeRuns, NEW step \in ResumeSteps, Goes(r, step)
  PROVE  /\ rsRun' \in [ResumeRuns -> ResumeRecords] /\ rsRun'[r].step = step
         /\ \A x \in ResumeRuns : /\ x # r => rsRun'[x].step = rsRun[x].step
                                  /\ rsRun'[x].kind = rsRun[x].kind /\ rsRun'[x].imp = rsRun[x].imp
                                  /\ rsRun'[x].aborted = rsRun[x].aborted
  BY ResumeGoes DEF Goes, ResumeInv, ResumeTyped

LEMMA StatusKeeps == ASSUME ResumeInv, NEW r \in ResumeRuns, StatusAnswers(r) \/ StatusFails(r) PROVE ResumeInv'
  <1>1. rsRun[r].step = "fetching" /\ UnderWay(r)
    BY DEF StatusAnswers, StatusFails, UnderWay
  <1>2. r = rsCurrent /\ ~rsLost => IsCurrentResume(r)
    BY <1>1, CurrentSpeaks
  <1>3. IsCurrentResume(r) => r = rsCurrent /\ ~rsClosing /\ rsRun[r].aborted = FALSE
    BY ResumeAssumption DEF IsCurrentResume, ResumeInv, ClosingEnds, ResumeTyped, ResumeRecords
  <1>4. CASE Ends(r, FALSE, IF IsFresh(r) THEN "scan_prompt" ELSE rsPhase)
    BY <1>1, <1>2, <1>3, <1>4, RunEndKeeps DEF IsFresh, BusyPhases
  <1>5. CASE IsFresh(r) /\ Goes(r, "releasing") /\ rsPhase' = "stopping_usb_reads" /\ Keep
    <2>1. "releasing" \in ResumeSteps
      BY DEF ResumeSteps
    <2>2. /\ rsRun' \in [ResumeRuns -> ResumeRecords] /\ rsRun'[r].step = "releasing"
          /\ \A x \in ResumeRuns : /\ x # r => rsRun'[x].step = rsRun[x].step
                                   /\ rsRun'[x].kind = rsRun[x].kind /\ rsRun'[x].imp = rsRun[x].imp
                                   /\ rsRun'[x].aborted = rsRun[x].aborted
      BY <1>5, <2>1, GoesSo
    <2>3. r = rsCurrent /\ ~rsClosing /\ rsRun[r].aborted = FALSE /\ UNCHANGED <<rsOpen, rsCurrent, rsControl, rsClean, rsClosing, rsResult, rsLost>>
      BY <1>3, <1>5 DEF IsFresh, Keep
    <2>4. PhaseWaits' /\ ResultFits'
      BY <1>5, <2>2, <2>3 DEF PhaseWaits, ResultFits
    <2> QED BY <1>1, <1>5, <2>1, <2>2, <2>3, <2>4, RunStepKeeps DEF ResumeInv, ResumeTyped
  <1>6. CASE Ends(r, FALSE, IfCurrent(r, "error"))
    BY <1>1, <1>2, <1>3, <1>6, RunEndKeeps DEF IfCurrent, BusyPhases
  <1> QED BY <1>4, <1>5, <1>6 DEF StatusAnswers, StatusFails

LEMMA FilesKeep == ASSUME ResumeInv, NEW r \in ResumeRuns, FilesFound(r) \/ DiscoveryFails(r) PROVE ResumeInv'
  <1>1. rsRun[r].step = "finding" /\ UnderWay(r) /\ rsRun[r].kind = "pick"
    BY DEF FilesFound, DiscoveryFails, UnderWay, ResumeInv, PicksSend
  <1>2. r = rsCurrent /\ ~rsLost => IsCurrentResume(r) /\ ~rsClosing /\ rsRun[r].aborted = FALSE /\ rsPhase \notin BusyPhases
    <2>1. r = rsCurrent /\ ~rsLost => IsCurrentResume(r)
      BY <1>1, CurrentSpeaks
    <2>2. r = rsCurrent => ~rsClosing
      BY ResumeAssumption DEF ResumeInv, ClosingEnds
    <2>3. r = rsCurrent /\ ~rsLost => rsRun[r].aborted = FALSE
      BY <1>1 DEF ResumeInv, CurrentFits
    <2>4. r = rsCurrent /\ ~rsLost => rsPhase \notin BusyPhases
      BY <1>1, <2>2 DEF ResumeInv, PhaseWaits, BusyPhases
    <2> QED BY <2>1, <2>2, <2>3, <2>4
  <1>3. PICK step \in {"ended", "session"} :
          /\ Goes(r, step) /\ UNCHANGED <<rsOpen, rsCurrent, rsClosing, rsResult, rsLost>>
          /\ rsPhase' \in {rsPhase, "error"}
          /\ rsControl' \in {rsControl, r, NoResume} /\ rsClean' \in {rsClean, TRUE, FALSE}
    BY DEF FilesFound, DiscoveryFails, Keep
  <1>4. step \in ResumeSteps
    BY DEF ResumeSteps
  <1>5. /\ rsRun' \in [ResumeRuns -> ResumeRecords] /\ rsRun'[r].step = step
        /\ \A x \in ResumeRuns : /\ x # r => rsRun'[x].step = rsRun[x].step
                                 /\ rsRun'[x].kind = rsRun[x].kind /\ rsRun'[x].imp = rsRun[x].imp
                                 /\ rsRun'[x].aborted = rsRun[x].aborted
    BY <1>3, <1>4, GoesSo
  <1>6. r = rsCurrent /\ ~rsLost => PhaseWaits'
    BY <1>2, <1>3 DEF PhaseWaits, BusyPhases
  <1>7. ResultFits' /\ (rsClosing => rsPhase' # "scan_prompt")
    BY <1>3 DEF ResumeInv, ResultFits, ClosingEnds
  <1>8. rsControl' \in ResumeRuns \cup {NoResume} /\ rsClean' \in BOOLEAN
    BY <1>3 DEF ResumeInv, ResumeTyped
  <1> QED BY <1>1, <1>2, <1>3, <1>4, <1>5, <1>6, <1>7, <1>8, RunStepKeeps

LEMMA SessionKeeps == ASSUME ResumeInv, NEW r \in ResumeRuns, SessionAnswers(r) PROVE ResumeInv'
  <1>1. rsRun[r].step = "session" /\ UnderWay(r) /\ rsRun[r].kind = "pick"
    BY DEF SessionAnswers, UnderWay, ResumeInv, PicksSend
  <1>2. r = rsCurrent /\ ~rsLost => IsCurrentResume(r)
    BY <1>1, CurrentSpeaks
  <1>3. CASE IsCurrentResume(r) /\ Goes(r, "uploading") /\ rsPhase' = "uploading" /\ Keep
    <2>1. "uploading" \in ResumeSteps
      BY DEF ResumeSteps
    <2>2. /\ rsRun' \in [ResumeRuns -> ResumeRecords] /\ rsRun'[r].step = "uploading"
          /\ \A x \in ResumeRuns : /\ x # r => rsRun'[x].step = rsRun[x].step
                                   /\ rsRun'[x].kind = rsRun[x].kind /\ rsRun'[x].imp = rsRun[x].imp
                                   /\ rsRun'[x].aborted = rsRun[x].aborted
      BY <1>3, <2>1, GoesSo
    <2>3. /\ r = rsCurrent /\ ~rsClosing /\ rsRun[r].aborted = FALSE
          /\ UNCHANGED <<rsOpen, rsCurrent, rsControl, rsClean, rsClosing, rsResult, rsLost>>
      BY <1>3, ResumeAssumption DEF IsCurrentResume, Keep, ResumeInv, ClosingEnds, ResumeTyped, ResumeRecords
    <2>4. PhaseWaits' /\ ResultFits'
      BY <1>1, <1>3, <2>2, <2>3 DEF PhaseWaits, ResultFits
    <2> QED BY <1>1, <1>3, <2>1, <2>2, <2>3, <2>4, RunStepKeeps DEF ResumeInv, ResumeTyped
  <1>4. CASE ~IsCurrentResume(r) /\ Ends(r, FALSE, rsPhase)
    BY <1>1, <1>2, <1>4, RunEndKeeps
  <1> QED BY <1>3, <1>4 DEF SessionAnswers

LEMMA SettledKeeps == ASSUME ResumeInv, NEW r \in ResumeRuns, UploadSettles(r) \/ SelectionFails(r) PROVE ResumeInv'
  <1>1. rsRun[r].step \in {"session", "uploading"} /\ UnderWay(r) /\ rsRun[r].kind = "pick"
    BY DEF UploadSettles, SelectionFails, UnderWay, ResumeInv, PicksSend
  <1>2. r = rsCurrent /\ ~rsLost => IsCurrentResume(r)
    BY <1>1, CurrentSpeaks
  <1>3. CASE /\ rsRun[r].step = "uploading" /\ IsCurrentResume(r) /\ rsRun' = [CleanedRuns EXCEPT ![r].step = "releasing"]
             /\ rsControl' = CleanedControl /\ rsClean' = TRUE
             /\ UNCHANGED <<rsOpen, rsPhase, rsCurrent, rsClosing, rsResult, rsLost>>
    <2>1. "releasing" \in ResumeSteps
      BY DEF ResumeSteps
    <2>2. /\ CleanedRuns \in [ResumeRuns -> ResumeRecords] /\ CleanedControl \in ResumeRuns \cup {NoResume}
          /\ \A x \in ResumeRuns : CleanedRuns[x].step = rsRun[x].step /\ CleanedRuns[x].kind = rsRun[x].kind
                                   /\ CleanedRuns[x].imp = rsRun[x].imp
      BY CleanedOnly DEF ResumeInv
    <2>3. /\ rsRun' \in [ResumeRuns -> ResumeRecords] /\ rsRun'[r].step = "releasing"
          /\ \A x \in ResumeRuns : /\ x # r => rsRun'[x].step = CleanedRuns[x].step
                                   /\ rsRun'[x].kind = CleanedRuns[x].kind /\ rsRun'[x].imp = CleanedRuns[x].imp
      BY <1>3, <2>1, <2>2, ResumeGoes
    <2>4. r = rsCurrent /\ ~rsClosing
      BY <1>3, ResumeAssumption DEF IsCurrentResume, ResumeInv, ClosingEnds
    <2>5. PhaseWaits' /\ ResultFits'
      BY <1>1, <1>3, <2>2, <2>3, <2>4 DEF PhaseWaits, ResultFits, ResumeInv, BusyPhases
    <2>6. /\ \A x \in ResumeRuns : /\ x # r => rsRun'[x].step = rsRun[x].step
                                   /\ rsRun'[x].kind = rsRun[x].kind /\ rsRun'[x].imp = rsRun[x].imp
          /\ rsControl' \in ResumeRuns \cup {NoResume} /\ rsClean' \in BOOLEAN
      BY <1>3, <2>2, <2>3
    <2> QED BY <1>1, <1>3, <2>1, <2>3, <2>4, <2>5, <2>6, RunStepKeeps
  <1>4. CASE ~IsCurrentResume(r) /\ Ends(r, TRUE, rsPhase)
    BY <1>1, <1>2, <1>4, RunEndKeeps
  <1>5. CASE Ends(r, TRUE, IfCurrent(r, "error"))
    BY <1>1, <1>2, <1>5, RunEndKeeps DEF IfCurrent, BusyPhases
  <1> QED BY <1>3, <1>4, <1>5 DEF UploadSettles, SelectionFails

LEMMA ResumeReleaseKeeps == ASSUME ResumeInv, NEW r \in ResumeRuns, DriveReleased(r) PROVE ResumeInv'
  <1> DEFINE control == IF rsRun[r].kind = "pick" THEN r ELSE rsControl
  <1>1. rsRun[r].step = "releasing" /\ UnderWay(r) /\ control \in ResumeRuns \cup {NoResume}
    BY DEF DriveReleased, UnderWay, ResumeInv, ResumeTyped
  <1>2. r = rsCurrent /\ ~rsLost => MayParse(r)
    BY <1>1 DEF ResumeInv, CurrentFits, MayParse, IsCurrentResume
  <1>3. CASE /\ MayParse(r) /\ rsPhase' = "parsing" /\ rsControl' = control
             /\ rsRun' = [rsRun EXCEPT ![r].step = "parsing", ![r].aborted = FALSE]
             /\ UNCHANGED <<rsOpen, rsCurrent, rsClean, rsClosing, rsResult, rsLost>>
    <2> DEFINE run == [rsRun[r] EXCEPT !.step = "parsing", !.aborted = FALSE]
    <2>1. rsRun' = [rsRun EXCEPT ![r] = run] /\ rsRun \in [ResumeRuns -> ResumeRecords]
      BY <1>3 DEF ResumeInv, ResumeTyped
    <2>2. /\ run \in ResumeRecords /\ run.step = "parsing" /\ run.kind = rsRun[r].kind /\ run.imp = rsRun[r].imp
          /\ run.aborted = FALSE
      BY <2>1 DEF ResumeRecords, ResumeSteps
    <2> HIDE DEF run
    <2>3. rsRun' \in [ResumeRuns -> ResumeRecords] /\ rsRun'[r] = run /\ \A x \in ResumeRuns \ {r} : rsRun'[x] = rsRun[x]
      BY <2>1, <2>2
    <2>4. r = rsCurrent /\ ~rsClosing
      BY <1>3, ResumeAssumption DEF MayParse, IsCurrentResume, ResumeInv, ClosingEnds
    <2>5. PhaseWaits' /\ ResultFits'
      BY <1>3, <2>2, <2>3, <2>4 DEF PhaseWaits, ResultFits
    <2>6. "parsing" \in ResumeSteps /\ rsClean \in BOOLEAN
      BY DEF ResumeSteps, ResumeInv, ResumeTyped
    <2> HIDE DEF control
    <2> QED BY <1>1, <1>3, <2>2, <2>3, <2>4, <2>5, <2>6, RunStepKeeps, ZenonT(60)
  <1>4. CASE ~MayParse(r) /\ Ends(r, FALSE, rsPhase)
    BY <1>1, <1>2, <1>4, RunEndKeeps
  <1>5. CASE /\ ~MayParse(r) /\ ~rsClosing /\ Goes(r, "ended") /\ rsControl' = control
             /\ UNCHANGED <<rsOpen, rsPhase, rsCurrent, rsClean, rsClosing, rsResult, rsLost>>
    <2>1. "ended" \in ResumeSteps /\ rsClean \in BOOLEAN
      BY DEF ResumeSteps, ResumeInv, ResumeTyped
    <2>2. /\ rsRun' \in [ResumeRuns -> ResumeRecords] /\ rsRun'[r].step = "ended"
          /\ \A x \in ResumeRuns : /\ x # r => rsRun'[x].step = rsRun[x].step
                                   /\ rsRun'[x].kind = rsRun[x].kind /\ rsRun'[x].imp = rsRun[x].imp
                                   /\ rsRun'[x].aborted = rsRun[x].aborted
      BY <1>5, <2>1, GoesSo
    <2>3. ResultFits'
      BY <1>5 DEF ResumeInv, ResultFits
    <2> HIDE DEF control
    <2> QED BY <1>1, <1>2, <1>5, <2>1, <2>2, <2>3, RunStepKeeps
  <1> QED BY <1>3, <1>4, <1>5 DEF DriveReleased

LEMMA InUseKeeps == ASSUME ResumeInv, NEW r \in ResumeRuns, StillInUse(r) PROVE ResumeInv'
  <1> DEFINE cleans == rsRun[r].kind = "pick"
  <1>1. rsRun[r].step = "releasing" /\ UnderWay(r) /\ cleans \in BOOLEAN
    BY DEF StillInUse, UnderWay
  <1>2. r = rsCurrent /\ ~rsLost /\ ~cleans => IsCurrentResume(r)
    BY <1>1, CurrentSpeaks
  <1>3. PICK phase \in {"error", rsPhase} : Ends(r, cleans, phase) /\ (cleans \/ IsCurrentResume(r) => phase = "error")
    BY DEF StillInUse, IfCurrent
  <1> HIDE DEF cleans
  <1> QED BY <1>1, <1>2, <1>3, RunEndKeeps DEF BusyPhases

LEMMA ResumedKeeps == ASSUME ResumeInv, NEW r \in ResumeRuns, AnalysisResumed(r) \/ AnalysisNotResumed(r) PROVE ResumeInv'
  <1>1. rsRun[r].step = "parsing" /\ UnderWay(r)
    BY DEF AnalysisResumed, AnalysisNotResumed, UnderWay
  <1>2. r = rsCurrent /\ ~rsLost => IsCurrentResume(r)
    BY <1>1, CurrentSpeaks
  <1>3. CASE AnalysisResumed(r)
    <2>1. "ended" \in ResumeSteps /\ Goes(r, "ended") /\ UNCHANGED <<rsOpen, rsCurrent, rsControl, rsClean, rsClosing, rsLost>>
      BY <1>3 DEF ResumeSteps, AnalysisResumed
    <2>2. /\ rsRun' \in [ResumeRuns -> ResumeRecords] /\ rsRun'[r].step = "ended"
          /\ \A x \in ResumeRuns : /\ x # r => rsRun'[x].step = rsRun[x].step
                                   /\ rsRun'[x].kind = rsRun[x].kind /\ rsRun'[x].imp = rsRun[x].imp
                                   /\ rsRun'[x].aborted = rsRun[x].aborted
      BY <2>1, GoesSo
    <2>3. r = rsCurrent /\ ~rsClosing /\ rsRun[r].imp = rsOpen
      BY <1>3, ResumeAssumption DEF AnalysisResumed, IsFresh, IsCurrentResume, ResumeInv, ClosingEnds
    <2>4. PhaseWaits' /\ ResultFits'
      BY <1>3, <2>1, <2>3 DEF AnalysisResumed, PhaseWaits, ResultFits, BusyPhases
    <2> QED BY <1>1, <2>1, <2>2, <2>3, <2>4, RunStepKeeps DEF ResumeInv, ResumeTyped
  <1>4. CASE AnalysisNotResumed(r)
    BY <1>1, <1>2, <1>4, RunEndKeeps DEF AnalysisNotResumed, IfCurrent, BusyPhases
  <1> QED BY <1>3, <1>4

LEMMA ResumeInitInv == ResumeInit => ResumeInv
  <1> SUFFICES ASSUME ResumeInit PROVE ResumeInv
    OBVIOUS
  <1>1. NewResume \in ResumeRecords /\ NewResume.step = "new"
    BY DEF NewResume, ResumeRecords, ResumeSteps
  <1>2. rsRun \in [ResumeRuns -> ResumeRecords] /\ \A r \in ResumeRuns : rsRun[r].step = "new"
    BY <1>1 DEF ResumeInit
  <1>3. ResumeTyped /\ PicksSend
    BY <1>2 DEF ResumeInit, ResumeTyped, PicksSend
  <1>4. CurrentFits /\ PhaseWaits /\ ClosingEnds /\ ResultFits
    BY ResumeAssumption DEF ResumeInit, CurrentFits, PhaseWaits, ClosingEnds, ResultFits, BusyPhases
  <1> QED BY <1>3, <1>4 DEF ResumeInv

LEMMA ResumeStepInv == ResumeInv /\ [ResumeNext]_resumeVars => ResumeInv'
  <1> SUFFICES ASSUME ResumeInv, [ResumeNext]_resumeVars PROVE ResumeInv'
    OBVIOUS
  <1>1. ASSUME NEW r \in ResumeRuns, NEW i \in ResumeImports, OpenResume(r, i) PROVE ResumeInv'
    BY <1>1, OpenKeeps
  <1>2. ASSUME NEW r \in ResumeRuns,
               \/ StatusAnswers(r) \/ StatusFails(r) \/ PickDirectory(r) \/ FilesFound(r) \/ DiscoveryFails(r)
               \/ SessionAnswers(r) \/ UploadSettles(r) \/ SelectionFails(r) \/ DriveReleased(r) \/ StillInUse(r)
               \/ AnalysisResumed(r) \/ AnalysisNotResumed(r)
        PROVE ResumeInv'
    BY <1>2, StatusKeeps, PickKeeps, FilesKeep, SessionKeeps, SettledKeeps, ResumeReleaseKeeps, InUseKeeps, ResumedKeeps
  <1>3. CASE CloseResume \/ CloseUploading \/ RetryResume
    BY <1>3, CloseKeeps
  <1>4. CASE UNCHANGED resumeVars
    BY <1>4 DEF resumeVars, ResumeInv, ResumeTyped, PicksSend, CurrentFits, PhaseWaits, ClosingEnds, ResultFits, UnderWay
  <1> QED BY <1>1, <1>2, <1>3, <1>4 DEF ResumeNext

LEMMA ResumeInvMeans == ResumeInv => ResumeWorks
  <1> SUFFICES ASSUME ResumeInv PROVE ResumeWorks
    OBVIOUS
  <1>1. rsPhase \in BusyPhases /\ ~rsLost => \E r \in ResumeRuns : UnderWay(r) /\ (rsClosing \/ IsCurrentResume(r) \/ MayParse(r))
    <2>1. rsClosing /\ ~rsLost => \E r \in ResumeRuns : UnderWay(r)
      BY DEF ResumeInv, ClosingEnds, UnderWay
    <2>2. ~rsClosing /\ rsPhase \in BusyPhases /\ ~rsLost => rsCurrent \in ResumeRuns /\ UnderWay(rsCurrent)
      BY DEF ResumeInv, PhaseWaits, BusyPhases, UnderWay
    <2> QED BY <2>1, <2>2, CurrentSpeaks
  <1> QED BY <1>1 DEF ResumeWorks, ResumeInv, ResultFits, BusyPhases

\* What is left of ResumeTypeOK: a closed dialog has no import, and no run that could open it.
ResumeRest ==
  /\ rsPhase \in ResumePhases /\ rsResult \in ResumeImports \cup {NoResume}
  /\ rsPhase = "closed" => rsOpen = NoResume /\ \A r \in ResumeRuns : ~UnderWay(r)
  /\ rsPhase # "closed" => rsOpen # NoResume

\* A step of an open dialog that does not close it.
StaysOpen ==
  /\ rsPhase # "closed" /\ rsPhase' \in ResumePhases \ {"closed"} /\ rsOpen' = rsOpen
  /\ rsResult' \in {rsResult} \cup {rsRun[r].imp : r \in ResumeRuns}

LEMMA EndStaysOpen ==
  ASSUME ResumeRest, NEW r \in ResumeRuns, UnderWay(r), NEW cleans, NEW phase \in ResumePhases \ {"closed"}, Ends(r, cleans, phase)
  PROVE  Unmounted \/ StaysOpen
  BY DEF Ends, EndsOpen, StaysOpen, ResumeRest

LEMMA ResumeStepsAre ==
  ASSUME ResumeInv, ResumeRest, ResumeNext
  PROVE  Unmounted \/ StaysOpen \/ \E r \in ResumeRuns, i \in ResumeImports : OpenResume(r, i)
  <1>1. \A r \in ResumeRuns : UnderWay(r) => rsPhase \in ResumePhases \ {"closed"}
    BY DEF ResumeRest
  <1>2. {"fetching_status", "scan_prompt", "uploading", "stopping_usb_reads", "parsing", "done", "done_partial", "error"}
          \subseteq ResumePhases \ {"closed"}
    BY DEF ResumePhases
  <1>3. CASE CloseResume \/ CloseUploading \/ RetryResume
    BY <1>2, <1>3 DEF CloseResume, CloseUploading, RetryResume, StaysOpen
  <1>4. ASSUME NEW r \in ResumeRuns, StatusAnswers(r) \/ StatusFails(r) \/ SessionAnswers(r) \/ SelectionFails(r) \/ AnalysisNotResumed(r)
        PROVE  Unmounted \/ StaysOpen
    <2>1. UnderWay(r)
      BY <1>4 DEF StatusAnswers, StatusFails, SessionAnswers, SelectionFails, AnalysisNotResumed, UnderWay
    <2>2. \/ \E cleans, phase : Ends(r, cleans, phase) /\ phase \in {rsPhase, "error", "scan_prompt"}
          \/ Keep /\ rsPhase' \in {"stopping_usb_reads", "uploading"}
      BY <1>4 DEF StatusAnswers, StatusFails, SessionAnswers, SelectionFails, AnalysisNotResumed, IfCurrent
    <2>3. CASE Keep /\ rsPhase' \in {"stopping_usb_reads", "uploading"}
      BY <1>1, <1>2, <2>1, <2>3 DEF Keep, StaysOpen
    <2> QED BY <1>1, <1>2, <2>1, <2>2, <2>3, EndStaysOpen
  <1>5. ASSUME NEW r \in ResumeRuns, PickDirectory(r) \/ FilesFound(r) \/ DiscoveryFails(r) PROVE StaysOpen
    <2>1. rsPhase \in ResumePhases \ {"closed"}
      BY <1>1, <1>2, <1>5 DEF PickDirectory, FilesFound, DiscoveryFails, UnderWay
    <2> QED BY <1>2, <1>5, <2>1 DEF PickDirectory, FilesFound, DiscoveryFails, Keep, StaysOpen
  <1>6. ASSUME NEW r \in ResumeRuns, UploadSettles(r) \/ DriveReleased(r) \/ StillInUse(r) PROVE Unmounted \/ StaysOpen
    <2>1. UnderWay(r)
      BY <1>6 DEF UploadSettles, DriveReleased, StillInUse, UnderWay
    <2>2. \/ \E cleans, phase : Ends(r, cleans, phase) /\ phase \in {rsPhase, "error"}
          \/ UNCHANGED <<rsOpen, rsResult>> /\ rsPhase' \in {rsPhase, "parsing"}
      BY <1>6 DEF UploadSettles, DriveReleased, StillInUse, IfCurrent
    <2>3. CASE UNCHANGED <<rsOpen, rsResult>> /\ rsPhase' \in {rsPhase, "parsing"}
      BY <1>1, <1>2, <2>1, <2>3 DEF StaysOpen
    <2> QED BY <1>1, <1>2, <2>1, <2>2, <2>3, EndStaysOpen
  <1>7. ASSUME NEW r \in ResumeRuns, AnalysisResumed(r) PROVE StaysOpen
    <2>1. UnderWay(r)
      BY <1>7 DEF AnalysisResumed, UnderWay
    <2> QED BY <1>1, <1>2, <1>7, <2>1 DEF AnalysisResumed, StaysOpen
  <1> QED BY <1>3, <1>4, <1>5, <1>6, <1>7 DEF ResumeNext

LEMMA ResumeRestKept ==
  ASSUME ResumeInv, ResumeRest, [ResumeNext]_resumeVars
  PROVE  ResumeRest'
  <1>1. CASE UNCHANGED resumeVars
    BY <1>1 DEF resumeVars, ResumeRest, UnderWay
  <1>2. CASE Unmounted
    <2>1. \A r \in ResumeRuns : rsRun'[r].step \in {"new", "ended"}
      <3>1. \A r \in ResumeRuns : [rsRun[r] EXCEPT !.step = "ended"].step = "ended"
        BY DEF ResumeInv, ResumeTyped, ResumeRecords
      <3> QED BY <1>2, <3>1 DEF Unmounted, UnderWay
    <2> QED BY <1>2, <2>1 DEF Unmounted, ResumeRest, ResumePhases, UnderWay
  <1>3. CASE StaysOpen
    <2>1. \A r \in ResumeRuns : rsRun[r].imp \in ResumeImports \cup {NoResume}
      BY DEF ResumeInv, ResumeTyped, ResumeRecords
    <2> QED BY <1>3, <2>1 DEF StaysOpen, ResumeRest
  <1>4. CASE \E r \in ResumeRuns, i \in ResumeImports : OpenResume(r, i)
    BY <1>4, ResumeAssumption DEF OpenResume, ResumeRest, ResumePhases
  <1> QED BY <1>1, <1>2, <1>3, <1>4, ResumeStepsAre

LEMMA ResumeTypesAre ==
  /\ ResumeInit => ResumeRest
  /\ ResumeInv /\ ResumeRest => ResumeTypeOK
  <1>1. ASSUME ResumeInit PROVE ResumeRest
    <2>1. \A r \in ResumeRuns : rsRun[r].step = "new"
      BY <1>1 DEF ResumeInit, NewResume
    <2> QED BY <1>1, <2>1 DEF ResumeInit, ResumeRest, ResumePhases, UnderWay
  <1>2. ASSUME ResumeInv, ResumeRest PROVE ResumeTypeOK
    <2>1. (rsOpen = NoResume) = (rsPhase = "closed")
      BY <1>2 DEF ResumeRest
    <2> QED BY <1>2, <2>1 DEF ResumeInv, ResumeTyped, ResumeRest, ResumeTypeOK, ResumeRecords
  <1> QED BY <1>1, <1>2

-----------------------------------------------------------------------------
(* The import dialog (ImportLibraryModal.tsx).                             *)

\* The sets of ImportTypeOK that the invariant needs, by name.
RefRecords == [op : Nat, picking : BOOLEAN, stop : BOOLEAN, cancel : BOOLEAN, close : BOOLEAN, bg : BOOLEAN, localBg : BOOLEAN,
               released : BOOLEAN, clean : BOOLEAN, files : BOOLEAN, owner : Flows \cup {NoFlow},
               cloud : Flows \cup {NoFlow}, job : Flows \cup {NoFlow}, tracked : Nat]
FlowSteps == {"none", "session", "creating", "starting", "transfer", "releasing", "queuing", "polling", "totals"}
FlowRecords == [pc : FlowSteps, why : {"ok", "cancelled", "error"}, op : Nat, aborted : BOOLEAN, cut : BOOLEAN,
                sends : {0, 1}, lookups : {0, 1, 2}]
FlowsTyped == [Flows -> FlowRecords]

\* A run that has begun; one that reads the drive; one whose parse loop still speaks.
Begun(flow) == flow.pc \notin {"none", "session"}
ReadsDrive(flow) == flow.pc \in {"creating", "starting", "transfer"}
Parses(flow) == flow.pc \in {"queuing", "polling", "totals"} /\ ~flow.cut

DriveFree(flows) == \A w \in Flows : ~AtDrive(flows[w])

\* Only a transfer sends.
SendsFit(flows) == \A w \in Flows : flows[w].sends # 0 => flows[w].pc = "transfer"

\* Every run has an operation of its own, and none is newer than the dialog's.
OpsFit(flows, op) ==
  /\ \A w \in Flows : flows[w].op <= op
  /\ \A v, w \in Flows : Begun(flows[v]) /\ Begun(flows[w]) /\ flows[v].op = flows[w].op => v = w

\* A run at the drive is the dialog's run and shows it; so is one whose parse loop speaks,
\* and its controller is the one the refs hold.
RunsFit(flows, ref, phase, call) ==
  /\ \A w \in Flows : AtDrive(flows[w]) =>
       /\ flows[w].op = ref.op /\ LocalUsbAccess(phase) /\ call = NoCloudCall /\ ref.cloud = NoFlow
       /\ ~ref.picking
  /\ \A w \in Flows : Parses(flows[w]) => flows[w].op = ref.op /\ ref.cloud = w
  /\ phase \in {"idle", "scanning_usb", "database_selected"} \/ ref.files \/ ref.picking => ref.cloud = NoFlow
  /\ ref.released => \A w \in Flows : ~ReadsDrive(flows[w])

\* The question of the app is asked during the upload.
QuestionFits(dialog) == dialog.kind = "delete" => LocalUsbAccess(dialog.seen)

ImportTyped == imRef \in RefRecords /\ imFlow \in FlowsTyped /\ imMixed \in BOOLEAN
ImportInv ==
  /\ ImportTyped /\ QuestionFits(imDialog) /\ SendsFit(imFlow)
  /\ ~imMixed => OpsFit(imFlow, imRef.op) /\ RunsFit(imFlow, imRef, imPhase, imCall)

\* Runs that end, are aborted or are cut off leave nothing to be said of them.
Fewer(next, flows) ==
  \A w \in Flows : /\ next[w].op \in {0, flows[w].op}
                   /\ Begun(next[w]) => Begun(flows[w]) /\ next[w].op = flows[w].op
                   /\ AtDrive(next[w]) => AtDrive(flows[w])
                   /\ ReadsDrive(next[w]) => ReadsDrive(flows[w])
                   /\ Parses(next[w]) => Parses(flows[w])
                   /\ next[w].sends # 0 => next[w].pc = flows[w].pc /\ next[w].sends = flows[w].sends

LEMMA FewerFit ==
  ASSUME NEW flows \in FlowsTyped, NEW next \in FlowsTyped, Fewer(next, flows)
  PROVE  /\ SendsFit(flows) => SendsFit(next)
         /\ \A op, later \in Nat : OpsFit(flows, op) /\ op <= later => OpsFit(next, later)
         /\ \A ref, phase, call : RunsFit(flows, ref, phase, call) => RunsFit(next, ref, phase, call)
  <1>1. SendsFit(flows) => SendsFit(next)
    BY DEF Fewer, SendsFit
  <1>2. \A op, later \in Nat : OpsFit(flows, op) /\ op <= later => OpsFit(next, later)
    BY DEF Fewer, OpsFit, FlowsTyped, FlowRecords
  <1>3. ASSUME NEW ref, NEW phase, NEW call, RunsFit(flows, ref, phase, call)
        PROVE  RunsFit(next, ref, phase, call)
    <2>1. \A w \in Flows : (AtDrive(next[w]) \/ Parses(next[w])) => next[w].op = flows[w].op
      BY DEF Fewer, Begun, AtDrive, Parses
    <2> QED BY <1>3, <2>1 DEF Fewer, RunsFit
  <1> QED BY <1>1, <1>2, <1>3

LEMMA FewerTwice ==
  ASSUME NEW flows, NEW next, NEW last, Fewer(next, flows), Fewer(last, next), \A w \in Flows : flows[w].op \in Nat
  PROVE  Fewer(last, flows)
  BY DEF Fewer

\* One run goes on.
LEMMA FlowGoes ==
  ASSUME NEW flows \in FlowsTyped, NEW w \in Flows, NEW flow \in FlowRecords
  PROVE  /\ [flows EXCEPT ![w] = flow] \in FlowsTyped /\ [flows EXCEPT ![w] = flow][w] = flow
         /\ \A v \in Flows : v # w => [flows EXCEPT ![w] = flow][v] = flows[v]
  BY DEF FlowsTyped

LEMMA AbortedFlows ==
  ASSUME NEW flows \in FlowsTyped, NEW w \in Flows \cup {NoFlow}
  PROVE  /\ Aborting(flows, w) \in FlowsTyped
         /\ \A v \in Flows : /\ Aborting(flows, w)[v].pc = flows[v].pc /\ Aborting(flows, w)[v].op = flows[v].op
                             /\ Aborting(flows, w)[v].cut = flows[v].cut /\ Aborting(flows, w)[v].sends = flows[v].sends
                             /\ Aborting(flows, w)[v].lookups = flows[v].lookups
                             /\ flows[v].aborted \/ v = w => Aborting(flows, w)[v].aborted
  <1> DEFINE flow == [flows[w] EXCEPT !.aborted = TRUE]
  <1>1. CASE w = NoFlow
    BY <1>1, ImportAssumption DEF Aborting
  <1>2. CASE w \in Flows /\ w # NoFlow
    <2>1. /\ flow \in FlowRecords /\ flow.pc = flows[w].pc /\ flow.op = flows[w].op /\ flow.cut = flows[w].cut
          /\ flow.sends = flows[w].sends /\ flow.lookups = flows[w].lookups /\ flow.aborted
      BY <1>2 DEF FlowsTyped, FlowRecords
    <2>2. Aborting(flows, w) = [flows EXCEPT ![w] = flow]
      BY <1>2 DEF Aborting
    <2> HIDE DEF flow
    <2>3. /\ Aborting(flows, w) \in FlowsTyped /\ Aborting(flows, w)[w] = flow
          /\ \A v \in Flows : v # w => Aborting(flows, w)[v] = flows[v]
      BY <1>2, <2>1, <2>2 DEF FlowsTyped
    <2> QED BY <2>1, <2>3
  <1> QED BY <1>1, <1>2

LEMMA CutFlows ==
  ASSUME NEW flows \in FlowsTyped, NEW w \in Flows \cup {NoFlow}
  PROVE  /\ Cutting(flows, w) \in FlowsTyped
         /\ \A v \in Flows : /\ Cutting(flows, w)[v].pc = flows[v].pc /\ Cutting(flows, w)[v].op = flows[v].op
                             /\ Cutting(flows, w)[v].sends = flows[v].sends
                             /\ Cutting(flows, w)[v].lookups = flows[v].lookups
                             /\ Cutting(flows, w)[v].aborted = flows[v].aborted
                             /\ flows[v].cut \/ v = w => Cutting(flows, w)[v].cut
  <1> DEFINE flow == [flows[w] EXCEPT !.cut = TRUE]
  <1>1. CASE w = NoFlow
    BY <1>1, ImportAssumption DEF Cutting
  <1>2. CASE w \in Flows /\ w # NoFlow
    <2>1. /\ flow \in FlowRecords /\ flow.pc = flows[w].pc /\ flow.op = flows[w].op /\ flow.cut = TRUE
          /\ flow.sends = flows[w].sends /\ flow.lookups = flows[w].lookups /\ flow.aborted = flows[w].aborted
      BY <1>2 DEF FlowsTyped, FlowRecords
    <2>2. Cutting(flows, w) = [flows EXCEPT ![w] = flow]
      BY <1>2 DEF Cutting
    <2> HIDE DEF flow
    <2>3. /\ Cutting(flows, w) \in FlowsTyped /\ Cutting(flows, w)[w] = flow
          /\ \A v \in Flows : v # w => Cutting(flows, w)[v] = flows[v]
      BY <1>2, <2>1, <2>2 DEF FlowsTyped
    <2> QED BY <2>1, <2>3
  <1> QED BY <1>1, <1>2

LEMMA FewerAborted ==
  ASSUME NEW flows \in FlowsTyped, NEW w \in Flows \cup {NoFlow}
  PROVE  Fewer(Aborting(flows, w), flows) /\ Fewer(Cutting(flows, w), flows)
  <1>1. Fewer(Aborting(flows, w), flows)
    <2>1. \A v \in Flows :
            /\ Aborting(flows, w)[v].pc = flows[v].pc /\ Aborting(flows, w)[v].op = flows[v].op
            /\ Aborting(flows, w)[v].cut = flows[v].cut /\ Aborting(flows, w)[v].sends = flows[v].sends
      BY AbortedFlows
    <2> QED BY <2>1 DEF Fewer, Begun, AtDrive, ReadsDrive, Parses
  <1>2. Fewer(Cutting(flows, w), flows)
    <2>1. \A v \in Flows :
            /\ Cutting(flows, w)[v].pc = flows[v].pc /\ Cutting(flows, w)[v].op = flows[v].op
            /\ Cutting(flows, w)[v].sends = flows[v].sends /\ (flows[v].cut => Cutting(flows, w)[v].cut)
      BY CutFlows
    <2> QED BY <2>1 DEF Fewer, Begun, AtDrive, ReadsDrive, Parses
  <1> QED BY <1>1, <1>2

\* The cleanup.
LEMMA CleanedRefIs ==
  ASSUME NEW ref \in RefRecords
  PROVE  /\ CleanedRef(ref) \in RefRecords /\ CleanedRef(ref).op = ref.op /\ CleanedRef(ref).cloud = ref.cloud
         /\ CleanedRef(ref).released = ref.released /\ CleanedRef(ref).cancel = ref.cancel
         /\ CleanedRef(ref).picking = ref.picking /\ (CleanedRef(ref).files => ref.files)
  <1>1. CASE ref.clean
    BY <1>1 DEF CleanedRef
  <1>2. CASE ~ref.clean
    <2> DEFINE cleaned == [ref EXCEPT !.clean = TRUE, !.stop = TRUE, !.owner = NoFlow, !.files = FALSE]
    <2>1. cleaned \in RefRecords
      BY DEF RefRecords
    <2>2. /\ cleaned.op = ref.op /\ cleaned.cloud = ref.cloud /\ cleaned.released = ref.released
          /\ cleaned.cancel = ref.cancel /\ cleaned.files = FALSE /\ cleaned.picking = ref.picking
      BY DEF RefRecords
    <2>3. CleanedRef(ref) = cleaned
      BY <1>2 DEF CleanedRef
    <2> HIDE DEF cleaned
    <2> QED BY <2>1, <2>2, <2>3
  <1> QED BY <1>1, <1>2

LEMMA CleanedFlowsAre ==
  ASSUME NEW ref \in RefRecords, NEW flows \in FlowsTyped
  PROVE  /\ CleanedFlows(ref, flows) \in FlowsTyped /\ Fewer(CleanedFlows(ref, flows), flows)
         /\ \A v \in Flows : /\ CleanedFlows(ref, flows)[v].pc = flows[v].pc /\ CleanedFlows(ref, flows)[v].op = flows[v].op
                             /\ CleanedFlows(ref, flows)[v].cut = flows[v].cut
  <1>1. ref.owner \in Flows \cup {NoFlow}
    BY DEF RefRecords
  <1>2. CASE ref.clean
    BY <1>2 DEF CleanedFlows, Fewer
  <1>3. CASE ~ref.clean
    BY <1>1, <1>3, AbortedFlows, FewerAborted DEF CleanedFlows
  <1> QED BY <1>2, <1>3

LEMMA FreshIs ==
  /\ FreshRef \in RefRecords /\ FreshRef.op = 0 /\ FreshRef.cloud = NoFlow /\ FreshRef.released = FALSE
  /\ NoRun \in FlowRecords /\ NoRun.pc = "none" /\ NoRun.op = 0 /\ NoRun.sends = 0 /\ NoRun.lookups = 0
  BY DEF FreshRef, RefRecords, NoRun, FlowRecords, FlowSteps

\* A reset with nobody at the drive.
LEMMA ResetKeeps ==
  ASSUME NEW ref \in RefRecords, NEW flows \in FlowsTyped, NEW dialog, QuestionFits(dialog), SendsFit(flows),
         ResetAndClose(ref, flows, dialog)
  PROVE  /\ imRef' \in RefRecords /\ imFlow' \in FlowsTyped /\ QuestionFits(imDialog') /\ SendsFit(imFlow')
         /\ \A phase, call : OpsFit(flows, ref.op) /\ RunsFit(flows, ref, phase, call) /\ DriveFree(flows)
              => OpsFit(imFlow', imRef'.op) /\ RunsFit(imFlow', imRef', imPhase', imCall')
  <1> DEFINE clean == CleanedFlows(ref, flows)
  <1>1. /\ imRef' = [FreshRef EXCEPT !.op = ref.op + 1] /\ imFlow' = Cutting(clean, ref.cloud) /\ imPhase' = "idle"
        /\ imCall' = NoCloudCall /\ imDialog' = IF dialog.kind = "delete" THEN dialog ELSE NoDialog
    BY DEF ResetAndClose
  <1>2. clean \in FlowsTyped /\ Fewer(clean, flows)
        /\ \A v \in Flows : clean[v].pc = flows[v].pc /\ clean[v].op = flows[v].op /\ clean[v].cut = flows[v].cut
    BY CleanedFlowsAre
  <1> HIDE DEF clean
  <1>3. ref.op \in Nat /\ ref.cloud \in Flows \cup {NoFlow}
    BY DEF RefRecords
  <1>4. /\ imFlow' \in FlowsTyped /\ Fewer(imFlow', clean)
        /\ \A v \in Flows : /\ imFlow'[v].pc = flows[v].pc
                            /\ flows[v].cut \/ v = ref.cloud => imFlow'[v].cut
    BY <1>1, <1>2, <1>3, CutFlows, FewerAborted
  <1>5. Fewer(imFlow', flows)
    BY <1>2, <1>4, FewerTwice DEF FlowsTyped, FlowRecords
  <1>6. /\ imRef' \in RefRecords /\ imRef'.op = ref.op + 1 /\ imRef'.cloud = NoFlow /\ imRef'.released = FALSE
    BY <1>1, <1>3, FreshIs DEF RefRecords
  <1>7. QuestionFits(imDialog')
    BY <1>1 DEF QuestionFits, NoDialog
  <1>8. SendsFit(imFlow')
    BY <1>4, <1>5, FewerFit
  <1>9. ASSUME NEW phase, NEW call, OpsFit(flows, ref.op), RunsFit(flows, ref, phase, call), DriveFree(flows)
        PROVE  OpsFit(imFlow', imRef'.op) /\ RunsFit(imFlow', imRef', imPhase', imCall')
    <2>1. OpsFit(imFlow', imRef'.op)
      BY <1>3, <1>4, <1>5, <1>6, <1>9, FewerFit
    <2>2. \A w \in Flows : ~AtDrive(imFlow'[w])
      BY <1>4, <1>9 DEF AtDrive, DriveFree
    <2>3. \A w \in Flows : ~Parses(imFlow'[w])
      BY <1>4, <1>9 DEF RunsFit, Parses
    <2> QED BY <1>6, <2>1, <2>2, <2>3 DEF RunsFit
  <1> QED BY <1>4, <1>6, <1>7, <1>8, <1>9

\* And a request to delete.
LEMMA DeleteKeeps ==
  ASSUME NEW ref \in RefRecords, NEW flows \in FlowsTyped, NEW phase, NEW dialog, QuestionFits(dialog), SendsFit(flows),
         DeleteCloudWork(ref, flows, phase, dialog)
  PROVE  /\ imRef' \in RefRecords /\ imFlow' \in FlowsTyped /\ QuestionFits(imDialog') /\ SendsFit(imFlow')
         /\ OpsFit(flows, ref.op) /\ RunsFit(flows, ref, phase, imCall) /\ DriveFree(flows)
              => OpsFit(imFlow', imRef'.op) /\ RunsFit(imFlow', imRef', imPhase', imCall')
  <1>1. CASE /\ imPhase' = phase /\ imRef' = ref /\ imFlow' = flows /\ imDialog' = dialog /\ imCall' = imCall
    BY <1>1
  <1>2. CASE ResetAndClose(ref, flows, dialog)
    BY <1>2, ResetKeeps
  <1>3. CASE /\ imFlow' = Cutting(flows, ref.cloud) /\ imRef' = [ref EXCEPT !.cloud = NoFlow] /\ imDialog' = dialog
             /\ imPhase' \in {"cancelled", "deleting_import"}
    <2>1. ref.cloud \in Flows \cup {NoFlow} /\ ref.op \in Nat
      BY DEF RefRecords
    <2>2. /\ imFlow' \in FlowsTyped /\ Fewer(imFlow', flows)
          /\ \A v \in Flows : imFlow'[v].pc = flows[v].pc /\ (v = ref.cloud => imFlow'[v].cut)
      BY <1>3, <2>1, CutFlows, FewerAborted
    <2>3. /\ imRef' \in RefRecords /\ imRef'.cloud = NoFlow /\ imRef'.op = ref.op
          /\ imRef'.released = ref.released
      BY <1>3 DEF RefRecords
    <2>4. SendsFit(imFlow')
      BY <2>2, FewerFit
    <2>5. ASSUME OpsFit(flows, ref.op), RunsFit(flows, ref, phase, imCall), DriveFree(flows)
          PROVE  OpsFit(imFlow', imRef'.op) /\ RunsFit(imFlow', imRef', imPhase', imCall')
      <3>1. OpsFit(imFlow', imRef'.op)
        BY <2>1, <2>2, <2>3, <2>5, FewerFit
      <3>2. \A w \in Flows : ~AtDrive(imFlow'[w]) /\ ~ReadsDrive(imFlow'[w])
        BY <2>2, <2>5 DEF AtDrive, ReadsDrive, DriveFree
      <3>3. \A w \in Flows : ~Parses(imFlow'[w])
        BY <2>2, <2>5 DEF RunsFit, Fewer, Parses
      <3> QED BY <1>3, <2>3, <3>1, <3>2, <3>3 DEF RunsFit
    <2> QED BY <1>3, <2>2, <2>3, <2>4, <2>5
  <1> QED BY <1>1, <1>2, <1>3 DEF DeleteCloudWork

LEMMA ImportInitInv == ImportInit => ImportInv
  <1> SUFFICES ASSUME ImportInit PROVE ImportInv
    OBVIOUS
  <1>1. /\ imPhase = "idle" /\ imDialog = NoDialog /\ imRef = FreshRef /\ imFlow = [w \in Flows |-> NoRun]
        /\ imMixed = FALSE
    BY DEF ImportInit
  <1>2. imFlow \in FlowsTyped /\ \A w \in Flows : imFlow[w] = NoRun
    BY <1>1, FreshIs DEF FlowsTyped
  <1>3. SendsFit(imFlow) /\ OpsFit(imFlow, imRef.op)
    BY <1>1, <1>2, FreshIs DEF SendsFit, OpsFit, Begun
  <1>4. RunsFit(imFlow, imRef, imPhase, imCall)
    BY <1>1, <1>2, FreshIs DEF RunsFit, AtDrive, Parses
  <1>5. QuestionFits(imDialog)
    BY <1>1 DEF NoDialog, QuestionFits
  <1> QED BY <1>1, <1>2, <1>3, <1>4, <1>5, FreshIs DEF ImportInv, ImportTyped

\* The steps of the cloud calls.
LEMMA CallsKeep == ASSUME ImportInv, DeleteAnswered \/ DeletePolled \/ PauseAnswered, UNCHANGED imMixed PROVE ImportInv'
  <1>1. ASSUME ~imMixed PROVE DriveFree(imFlow)
    BY <1>1 DEF DriveFree, ImportInv, RunsFit, NoCloudCall, DeleteAnswered, DeletePolled, PauseAnswered
  <1>2. CASE ResetAndClose(imRef, imFlow, imDialog)
    BY <1>1, <1>2, ResetKeeps DEF ImportInv, ImportTyped
  <1>3. CASE UNCHANGED <<imDialog, imRef, imFlow>> /\ imPhase' \in {imPhase, "failed", "cancelled", "completed", "paused"}
    <2>1. ASSUME ~imMixed PROVE RunsFit(imFlow, imRef, imPhase', imCall')
      BY <1>1, <1>3, <2>1 DEF ImportInv, RunsFit, DriveFree
    <2> QED BY <1>3, <2>1 DEF ImportInv, ImportTyped
  <1> QED BY <1>2, <1>3 DEF DeleteAnswered, DeletePolled, PauseAnswered, CloudCallEnds

\* One run is at the drive.
LEMMA AloneAtDrive ==
  ASSUME ImportInv, ~imMixed
  PROVE  /\ \A v, w \in Flows : AtDrive(imFlow[v]) /\ AtDrive(imFlow[w]) => v = w
         /\ \A w \in Flows : AtDrive(imFlow[w]) =>
              /\ imFlow[w].op = imRef.op /\ imRef.cloud = NoFlow /\ \A v \in Flows : ~Parses(imFlow[v])
         /\ ~LocalUsbAccess(imPhase) \/ imCall # NoCloudCall \/ imRef.cloud # NoFlow => DriveFree(imFlow)
         /\ \A w \in Flows : Parses(imFlow[w]) => imFlow[w].op = imRef.op /\ DriveFree(imFlow)
                                                  /\ \A v \in Flows : Parses(imFlow[v]) => v = w
  <1>1. OpsFit(imFlow, imRef.op) /\ RunsFit(imFlow, imRef, imPhase, imCall)
    BY DEF ImportInv
  <1>2. \A w \in Flows : AtDrive(imFlow[w]) => Begun(imFlow[w]) /\ imFlow[w].op = imRef.op
    BY <1>1 DEF RunsFit, AtDrive, Begun
  <1>3. \A v, w \in Flows : AtDrive(imFlow[v]) /\ AtDrive(imFlow[w]) => v = w
    BY <1>1, <1>2 DEF OpsFit
  <1> QED BY <1>1, <1>3, ImportAssumption DEF RunsFit, DriveFree

\* With nobody at the drive and no parse loop that speaks, everything is possible.
LEMMA FreedFits ==
  ASSUME NEW flows, NEW ref, DriveFree(flows), \A w \in Flows : ~Parses(flows[w]), ref.cloud = NoFlow
  PROVE  \A phase, call : RunsFit(flows, ref, phase, call)
  BY DEF RunsFit, DriveFree, AtDrive, ReadsDrive

\* A step of one run that begins nothing.
LEMMA FewerOne ==
  ASSUME NEW flows \in FlowsTyped, NEW w \in Flows, NEW flow \in FlowRecords, flow.op \in {0, flows[w].op},
         Begun(flow) => Begun(flows[w]) /\ flow.op = flows[w].op, AtDrive(flow) => AtDrive(flows[w]),
         ReadsDrive(flow) => ReadsDrive(flows[w]), Parses(flow) => Parses(flows[w]),
         flow.sends # 0 => flow.pc = flows[w].pc /\ flow.sends = flows[w].sends
  PROVE  [flows EXCEPT ![w] = flow] \in FlowsTyped /\ Fewer([flows EXCEPT ![w] = flow], flows)
  <1> DEFINE next == [flows EXCEPT ![w] = flow]
  <1>1. next \in FlowsTyped /\ next[w] = flow /\ \A v \in Flows : v # w => next[v] = flows[v]
    BY DEF FlowsTyped
  <1> HIDE DEF next
  <1>2. ASSUME NEW v \in Flows
        PROVE  /\ next[v].op \in {0, flows[v].op} /\ (Begun(next[v]) => Begun(flows[v]) /\ next[v].op = flows[v].op)
               /\ (AtDrive(next[v]) => AtDrive(flows[v])) /\ (ReadsDrive(next[v]) => ReadsDrive(flows[v]))
               /\ (Parses(next[v]) => Parses(flows[v]))
               /\ (next[v].sends # 0 => next[v].pc = flows[v].pc /\ next[v].sends = flows[v].sends)
    <2>1. CASE v = w
      BY <1>1, <2>1
    <2>2. CASE v # w
      BY <1>1, <2>2
    <2> QED BY <2>1, <2>2
  <1>3. Fewer(next, flows)
    BY <1>2 DEF Fewer
  <1> QED BY <1>1, <1>3 DEF next

\* The end of a run, whose lookups may go on.
LEMMA RunEnded ==
  ASSUME NEW w \in Flows, imFlow \in FlowsTyped
  PROVE  LET ended == [imFlow EXCEPT ![w] = FlowEnded(imFlow[w])]
         IN  /\ ended \in FlowsTyped /\ Fewer(ended, imFlow) /\ ended[w].pc = "none"
             /\ [imFlow EXCEPT ![w] = NoRun] \in FlowsTyped /\ Fewer([imFlow EXCEPT ![w] = NoRun], imFlow)
             /\ [imFlow EXCEPT ![w] = NoRun][w].pc = "none"
  <1> DEFINE flow == FlowEnded(imFlow[w])
  <1>1. imFlow[w] \in FlowRecords
    BY DEF FlowsTyped
  <1>2. flow \in FlowRecords /\ flow.pc = "none" /\ flow.op = 0 /\ flow.sends = 0
    BY <1>1 DEF FlowEnded, NoRun, FlowRecords, FlowSteps
  <1> HIDE DEF flow
  <1>3. [imFlow EXCEPT ![w] = flow] \in FlowsTyped /\ Fewer([imFlow EXCEPT ![w] = flow], imFlow)
    BY <1>2, FewerOne DEF Begun, AtDrive, ReadsDrive, Parses
  <1>4. [imFlow EXCEPT ![w] = NoRun] \in FlowsTyped /\ Fewer([imFlow EXCEPT ![w] = NoRun], imFlow)
    BY FreshIs, FewerOne DEF Begun, AtDrive, ReadsDrive, Parses
  <1>5. [imFlow EXCEPT ![w] = NoRun][w].pc = "none" /\ [imFlow EXCEPT ![w] = flow][w].pc = "none"
    BY <1>2, FreshIs DEF FlowsTyped
  <1> QED BY <1>3, <1>4, <1>5 DEF flow

\* A step that begins nothing keeps the invariant.
LEMMA QuietImportKeeps ==
  ASSUME ImportInv, imFlow' \in FlowsTyped, Fewer(imFlow', imFlow), imRef' \in RefRecords, imRef'.op = imRef.op,
         QuestionFits(imDialog'), UNCHANGED imMixed,
         ~imMixed =>
           /\ imRef'.cloud = imRef.cloud \/ (imRef'.cloud = NoFlow /\ \A w \in Flows : ~Parses(imFlow'[w]))
           /\ imRef'.released => imRef.released \/ DriveFree(imFlow')
           /\ imRef'.files => imRef.files \/ imRef'.cloud = NoFlow
           /\ imRef'.picking => imRef.picking
           /\ imPhase' \in {"idle", "scanning_usb", "database_selected"}
                => imPhase \in {"idle", "scanning_usb", "database_selected"}
           /\ DriveFree(imFlow') \/ (imCall' = imCall /\ (LocalUsbAccess(imPhase) => LocalUsbAccess(imPhase')))
  PROVE  ImportInv'
  <1>1. SendsFit(imFlow')
    BY FewerFit DEF ImportInv, ImportTyped
  <1>2. ASSUME ~imMixed PROVE OpsFit(imFlow', imRef'.op) /\ RunsFit(imFlow', imRef', imPhase', imCall')
    <2>1. OpsFit(imFlow, imRef.op) /\ RunsFit(imFlow, imRef, imPhase, imCall)
      BY <1>2 DEF ImportInv
    <2>2. OpsFit(imFlow', imRef'.op) /\ RunsFit(imFlow', imRef, imPhase, imCall)
      <3>1. imRef.op \in Nat /\ imFlow \in FlowsTyped
        BY DEF ImportInv, ImportTyped, RefRecords
      <3> QED BY <2>1, <3>1, FewerFit
    <2>3. \A w \in Flows : AtDrive(imFlow'[w]) =>
            /\ imFlow'[w].op = imRef'.op /\ LocalUsbAccess(imPhase') /\ imCall' = NoCloudCall /\ imRef'.cloud = NoFlow
            /\ ~imRef'.picking
      BY <1>2, <2>2 DEF RunsFit, DriveFree
    <2>4. \A w \in Flows : Parses(imFlow'[w]) => imFlow'[w].op = imRef'.op /\ imRef'.cloud = w
      BY <1>2, <2>2 DEF RunsFit
    <2>5. imPhase' \in {"idle", "scanning_usb", "database_selected"} \/ imRef'.files \/ imRef'.picking => imRef'.cloud = NoFlow
      BY <1>2, <2>2 DEF RunsFit
    <2>6. imRef'.released => \A w \in Flows : ~ReadsDrive(imFlow'[w])
      BY <1>2, <2>2 DEF RunsFit, DriveFree, AtDrive, ReadsDrive
    <2> QED BY <2>2, <2>3, <2>4, <2>5, <2>6 DEF RunsFit
  <1> QED BY <1>1, <1>2 DEF ImportInv, ImportTyped

\* The confirmations.
LEMMA ConfirmationKeeps ==
  ASSUME ImportInv, UNCHANGED imMixed, NEW phase, NEW ref \in RefRecords, NEW pause \in BOOLEAN,
         Confirmed(phase, ref, pause), ref.op = imRef.op, ref.cloud = imRef.cloud, ref.released = imRef.released,
         ref.files = imRef.files, ref.picking = imRef.picking, LocalUsbAccess(phase) \/ phase = imPhase
  PROVE  ImportInv'
  <1>1. imRef \in RefRecords /\ imFlow \in FlowsTyped /\ SendsFit(imFlow)
    BY DEF ImportInv, ImportTyped
  <1> DEFINE released == [ref EXCEPT !.released = TRUE]
  <1>2. /\ released \in RefRecords /\ released.op = imRef.op /\ released.cloud = imRef.cloud /\ released.released = TRUE
        /\ released.files = imRef.files /\ released.picking = imRef.picking
    BY DEF RefRecords
  <1> HIDE DEF released
  <1>3. QuestionFits(NoDialog)
    BY DEF QuestionFits, NoDialog
  <1>4. ASSUME ~imMixed, ~LocalUsbAccess(phase) PROVE DriveFree(imFlow)
    BY <1>4, AloneAtDrive
  <1>5. ASSUME NEW r \in RefRecords, r.op = imRef.op, r.cloud = imRef.cloud, r.files = imRef.files,
               r.picking = imRef.picking, ~LocalUsbAccess(phase),
               r.released = imRef.released \/ r.released = TRUE, DeleteCloudWork(r, imFlow, imPhase, NoDialog)
        PROVE  ImportInv'
    <2>1. ASSUME ~imMixed PROVE OpsFit(imFlow, r.op) /\ RunsFit(imFlow, r, imPhase, imCall) /\ DriveFree(imFlow)
      BY <1>4, <1>5, <2>1 DEF ImportInv, RunsFit, DriveFree, AtDrive, ReadsDrive
    <2> QED BY <1>1, <1>3, <1>5, <2>1, DeleteKeeps DEF ImportInv, ImportTyped
  <1>6. CASE InCloud(phase) /\ pause /\ PauseCloudWork(released) /\ imDialog' = NoDialog
    <2>1. ~LocalUsbAccess(phase) /\ released.cloud \in Flows \cup {NoFlow}
      BY <1>6, <1>2 DEF InCloud, LocalUsbAccess, RefRecords
    <2>2. CASE imRef' = released /\ UNCHANGED <<imPhase, imFlow, imCall>>
      <3>1. Fewer(imFlow, imFlow)
        BY DEF Fewer
      <3> QED BY <1>1, <1>2, <1>3, <1>4, <1>6, <2>1, <2>2, <3>1, QuietImportKeeps
    <2>3. CASE /\ imFlow' = Cutting(imFlow, released.cloud) /\ imRef' = [released EXCEPT !.cloud = NoFlow]
               /\ imPhase' \in {"paused", "pausing_cloud_work"}
      <3>1. /\ imFlow' \in FlowsTyped /\ Fewer(imFlow', imFlow)
            /\ \A v \in Flows : imFlow'[v].pc = imFlow[v].pc /\ (v = imRef.cloud => imFlow'[v].cut)
        BY <1>1, <1>2, <2>1, <2>3, CutFlows, FewerAborted
      <3>2. /\ imRef' \in RefRecords /\ imRef'.cloud = NoFlow /\ imRef'.op = imRef.op /\ imRef'.picking = imRef.picking
        BY <1>2, <2>3 DEF RefRecords
      <3>3. ASSUME ~imMixed PROVE DriveFree(imFlow') /\ \A w \in Flows : ~Parses(imFlow'[w])
        <4>1. DriveFree(imFlow) /\ \A w \in Flows : Parses(imFlow[w]) => imRef.cloud = w
          BY <1>4, <2>1, <3>3 DEF ImportInv, RunsFit
        <4> QED BY <3>1, <4>1 DEF Fewer, DriveFree, AtDrive, Parses
      <3> QED BY <1>3, <1>6, <2>3, <3>1, <3>2, <3>3, QuietImportKeeps
    <2> QED BY <1>6, <2>2, <2>3 DEF PauseCloudWork
  <1>7. CASE /\ LocalUsbAccess(phase) /\ imPhase' = "stopping_usb_reads" /\ imRef' = CleanedRef([ref EXCEPT !.stop = TRUE])
             /\ imFlow' = CleanedFlows(ref, imFlow) /\ imDialog' = NoDialog /\ UNCHANGED imCall
    <2> DEFINE stopped == [ref EXCEPT !.stop = TRUE]
    <2>1. /\ stopped \in RefRecords /\ stopped.op = imRef.op /\ stopped.cloud = imRef.cloud
          /\ stopped.released = imRef.released /\ stopped.files = imRef.files /\ stopped.picking = imRef.picking
      BY DEF RefRecords
    <2>2. imRef' = CleanedRef(stopped)
      BY <1>7
    <2> HIDE DEF stopped
    <2>3. /\ imRef' \in RefRecords /\ imRef'.op = imRef.op /\ imRef'.cloud = imRef.cloud
          /\ imRef'.released = imRef.released /\ (imRef'.files => imRef.files) /\ imRef'.picking = imRef.picking
      BY <2>1, <2>2, CleanedRefIs
    <2>4. imFlow' \in FlowsTyped /\ Fewer(imFlow', imFlow)
      BY <1>1, <1>7, CleanedFlowsAre
    <2>5. LocalUsbAccess(imPhase') /\ imPhase' \notin {"idle", "scanning_usb", "database_selected"}
      BY <1>7 DEF LocalUsbAccess
    <2> QED BY <1>3, <1>7, <2>3, <2>4, <2>5, QuietImportKeeps
  <1> QED
    <2>1. CASE InCloud(phase) /\ ~pause /\ DeleteCloudWork(released, imFlow, imPhase, NoDialog)
      BY <1>2, <1>5, <2>1 DEF InCloud, LocalUsbAccess
    <2>2. CASE ~LocalUsbAccess(phase) /\ DeleteCloudWork(ref, imFlow, imPhase, NoDialog)
      BY <1>5, <2>2
    <2> QED BY <1>6, <1>7, <2>1, <2>2 DEF Confirmed, released

LEMMA ConfirmationsKeep ==
  ASSUME ImportInv, ExecuteConfirmedHardDelete \/ ConfirmAbort, UNCHANGED imMixed
  PROVE  ImportInv'
  <1>1. ASSUME NEW stop \in BOOLEAN, NEW close \in BOOLEAN, NEW phase, NEW pause \in BOOLEAN,
               LocalUsbAccess(phase) \/ phase = imPhase,
               Confirmed(phase, [imRef EXCEPT !.cancel = stop, !.close = close], pause)
        PROVE  ImportInv'
    <2> DEFINE ref == [imRef EXCEPT !.cancel = stop, !.close = close]
    <2>1. /\ ref \in RefRecords /\ ref.op = imRef.op /\ ref.cloud = imRef.cloud /\ ref.released = imRef.released
          /\ ref.files = imRef.files /\ ref.picking = imRef.picking
      BY DEF ImportInv, ImportTyped, RefRecords
    <2>2. Confirmed(phase, ref, pause)
      BY <1>1
    <2> HIDE DEF ref
    <2> QED BY <1>1, <2>1, <2>2, ConfirmationKeeps
  <1>2. CASE ExecuteConfirmedHardDelete
    <2> DEFINE close == imDialog.intent = "close"
    <2>1. /\ Confirmed(imDialog.seen, [imRef EXCEPT !.cancel = TRUE, !.close = close], FALSE)
          /\ LocalUsbAccess(imDialog.seen) /\ close \in BOOLEAN
      BY <1>2 DEF ExecuteConfirmedHardDelete, ImportInv, QuestionFits
    <2> HIDE DEF close
    <2> QED BY <1>1, <2>1
  <1>3. CASE ConfirmAbort
    <2> DEFINE stop == imDialog.intent # "pause"
               close == imDialog.intent = "close"
               pause == imDialog.intent # "delete"
    <2>1. /\ Confirmed(imPhase, [imRef EXCEPT !.cancel = stop, !.close = close], pause)
          /\ stop \in BOOLEAN /\ close \in BOOLEAN /\ pause \in BOOLEAN
      BY <1>3 DEF ConfirmAbort
    <2> HIDE DEF stop, close, pause
    <2> QED BY <1>1, <2>1
  <1> QED BY <1>2, <1>3

\* A source is asked for: one operation more, with nobody at the drive or parsing.
LEMMA SelectionKeeps ==
  ASSUME ImportInv, UNCHANGED imMixed, UsbSourceAsked
  PROVE  ImportInv'
  <1>1. imRef \in RefRecords /\ imFlow \in FlowsTyped /\ SendsFit(imFlow) /\ imRef.op \in Nat
    BY DEF ImportInv, ImportTyped, RefRecords
  <1> DEFINE later == imRef.op + 1
  <1>2. imRef' = [imRef EXCEPT !.op = later, !.picking = TRUE] /\ UNCHANGED <<imDialog, imFlow, imCall>>
        /\ imPhase' = "scanning_usb" /\ imPhase \in {"idle", "database_selected"}
    BY DEF UsbSourceAsked
  <1>3. later \in Nat /\ imRef.op <= later
    BY <1>1
  <1> HIDE DEF later
  <1>4. imRef' \in RefRecords /\ imRef'.op = later /\ imRef'.cloud = imRef.cloud /\ imRef'.released = imRef.released
    BY <1>1, <1>2, <1>3 DEF RefRecords
  <1>5. ASSUME ~imMixed PROVE OpsFit(imFlow', imRef'.op) /\ RunsFit(imFlow', imRef', imPhase', imCall')
    <2>1. OpsFit(imFlow, imRef.op) /\ imRef.cloud = NoFlow
      BY <1>2, <1>5 DEF ImportInv, RunsFit
    <2>2. DriveFree(imFlow) /\ \A w \in Flows : ~Parses(imFlow[w])
      BY <1>2, <1>5, <2>1, AloneAtDrive, ImportAssumption DEF LocalUsbAccess, ImportInv, RunsFit
    <2>3. OpsFit(imFlow', imRef'.op)
      <3>1. \A w \in Flows : imFlow[w].op \in Nat
        BY <1>1 DEF FlowsTyped, FlowRecords
      <3> QED BY <1>1, <1>2, <1>3, <1>4, <2>1, <3>1 DEF OpsFit
    <2> QED BY <1>2, <1>4, <2>1, <2>2, <2>3, FreedFits
  <1> QED BY <1>1, <1>2, <1>4, <1>5 DEF ImportInv, ImportTyped

\* What else the user does.
LEMMA UserImportKeeps ==
  ASSUME ImportInv, UNCHANGED imMixed,
         \/ UsbSourceAsked \/ UsbSourceSelected
         \/ FolderChosen \/ KeepGoing \/ ContinueInBackground \/ CloseAndReset \/ BeforeUnload \/ Reopen \/ WorkerMoves
         \/ \E intent \in {"pause", "delete", "close"} : OpenAbortDialog(intent)
         \/ \E w \in Flows : ImportPressed(w)
  PROVE  ImportInv'
  <1>1. imRef \in RefRecords /\ imFlow \in FlowsTyped /\ SendsFit(imFlow) /\ Fewer(imFlow, imFlow)
    BY DEF ImportInv, ImportTyped, Fewer
  <1>2. CASE KeepGoing \/ Reopen \/ WorkerMoves \/ \E intent \in {"pause", "delete", "close"} : OpenAbortDialog(intent)
    <2>1. UNCHANGED <<imPhase, imRef, imFlow, imCall>>
      BY <1>2 DEF KeepGoing, Reopen, WorkerMoves, OpenAbortDialog
    <2>2. QuestionFits(imDialog')
      <3>1. CASE KeepGoing
        BY <3>1 DEF KeepGoing, NoDialog, QuestionFits
      <3>2. CASE Reopen \/ WorkerMoves
        BY <3>2 DEF Reopen, WorkerMoves, ImportInv
      <3>3. ASSUME NEW intent \in {"pause", "delete", "close"}, OpenAbortDialog(intent) PROVE QuestionFits(imDialog')
        BY <3>3 DEF OpenAbortDialog, QuestionFits
      <3> QED BY <1>2, <3>1, <3>2, <3>3
    <2> QED BY <2>1, <2>2 DEF ImportInv, ImportTyped
  <1>3. CASE FolderChosen
    <2>1. /\ imRef' \in RefRecords /\ imRef'.op = imRef.op /\ imRef'.cloud = imRef.cloud
          /\ imRef'.released = imRef.released /\ imPhase \in {"idle", "scanning_usb", "database_selected"}
          /\ imRef'.picking = imRef.picking
      <3>1. CASE imRef' = [imRef EXCEPT !.files = TRUE]
        BY <1>1, <1>3, <3>1 DEF FolderChosen, RefRecords
      <3>2. CASE imRef' = imRef
        BY <1>1, <1>3, <3>2 DEF FolderChosen
      <3> QED BY <1>3, <3>1, <3>2 DEF FolderChosen
    <2>2. ASSUME ~imMixed PROVE imRef.cloud = NoFlow /\ DriveFree(imFlow)
      BY <2>1, <2>2, AloneAtDrive DEF ImportInv, RunsFit, LocalUsbAccess
    <2> QED BY <1>1, <1>3, <2>1, <2>2, QuietImportKeeps DEF FolderChosen, ImportInv
  <1>4. CASE ContinueInBackground
    <2>1. /\ imRef' \in RefRecords /\ imRef'.op = imRef.op /\ imRef'.cloud = imRef.cloud
          /\ imRef'.released = imRef.released /\ imRef'.files = imRef.files /\ imRef'.picking = imRef.picking
      <3>1. CASE imRef' = [imRef EXCEPT !.localBg = TRUE]
        BY <1>1, <3>1 DEF RefRecords
      <3>2. CASE imRef' = [imRef EXCEPT !.bg = TRUE]
        BY <1>1, <3>2 DEF RefRecords
      <3> QED BY <1>4, <3>1, <3>2 DEF ContinueInBackground
    <2> QED BY <1>1, <1>4, <2>1, QuietImportKeeps DEF ContinueInBackground, ImportInv
  <1>5. CASE CloseAndReset
    <2>1. ResetAndClose(imRef, imFlow, imDialog) /\ ~LocalUsbAccess(imPhase)
      BY <1>5 DEF CloseAndReset, LocalUsbAccess
    <2>2. ASSUME ~imMixed PROVE OpsFit(imFlow, imRef.op) /\ RunsFit(imFlow, imRef, imPhase, imCall) /\ DriveFree(imFlow)
      BY <2>1, <2>2, AloneAtDrive DEF ImportInv
    <2> QED BY <1>1, <2>1, <2>2, ResetKeeps DEF ImportInv, ImportTyped
  <1>6. CASE BeforeUnload
    <2> DEFINE stopped == [imRef EXCEPT !.stop = TRUE]
    <2>1. /\ stopped \in RefRecords /\ stopped.op = imRef.op /\ stopped.cloud = imRef.cloud
          /\ stopped.released = imRef.released /\ stopped.files = imRef.files /\ stopped.picking = imRef.picking
      BY <1>1 DEF RefRecords
    <2>2. imRef' = CleanedRef(stopped) /\ imFlow' = CleanedFlows(imRef, imFlow) /\ UNCHANGED <<imPhase, imDialog, imCall>>
      BY <1>6 DEF BeforeUnload
    <2> HIDE DEF stopped
    <2>3. /\ imRef' \in RefRecords /\ imRef'.op = imRef.op /\ imRef'.cloud = imRef.cloud
          /\ imRef'.released = imRef.released /\ (imRef'.files => imRef.files) /\ imRef'.picking = imRef.picking
      BY <2>1, <2>2, CleanedRefIs
    <2>4. imFlow' \in FlowsTyped /\ Fewer(imFlow', imFlow)
      BY <1>1, <2>2, CleanedFlowsAre
    <2> QED BY <2>2, <2>3, <2>4, QuietImportKeeps DEF ImportInv
  <1>7. ASSUME NEW w \in Flows, ImportPressed(w) PROVE ImportInv'
    <2> DEFINE flow == [NoRun EXCEPT !.pc = "session"]
    <2>1. /\ imFlow[w].pc = "none" /\ imFlow' = [imFlow EXCEPT ![w] = flow]
          /\ UNCHANGED <<imPhase, imDialog, imRef, imCall>>
      BY <1>7 DEF ImportPressed
    <2>2. flow \in FlowRecords /\ flow.pc = "session" /\ flow.op = 0 /\ flow.sends = 0
      BY DEF NoRun, FlowRecords, FlowSteps
    <2> HIDE DEF flow
    <2>3. imFlow' \in FlowsTyped /\ Fewer(imFlow', imFlow)
      BY <1>1, <2>1, <2>2, FewerOne DEF Begun, AtDrive, ReadsDrive, Parses
    <2> QED BY <1>1, <2>1, <2>3, QuietImportKeeps DEF ImportInv
  <1>8. CASE UsbSourceAsked
    BY <1>8, SelectionKeeps
  <1>9. CASE UsbSourceSelected
    <2>1. imRef.picking /\ UNCHANGED <<imDialog, imFlow, imCall>>
          /\ imPhase' \in {"database_selected", "idle", "failed", "scanning_usb"}
          /\ imRef' \in {[imRef EXCEPT !.picking = FALSE, !.files = TRUE], [imRef EXCEPT !.picking = FALSE]}
      BY <1>9 DEF UsbSourceSelected
    <2>2. /\ imRef' \in RefRecords /\ imRef'.op = imRef.op /\ imRef'.cloud = imRef.cloud
          /\ imRef'.released = imRef.released /\ imRef'.picking = FALSE
      <3>1. CASE imRef' = [imRef EXCEPT !.picking = FALSE, !.files = TRUE]
        BY <1>1, <3>1 DEF RefRecords
      <3>2. CASE imRef' = [imRef EXCEPT !.picking = FALSE]
        BY <1>1, <3>2 DEF RefRecords
      <3> QED BY <2>1, <3>1, <3>2
    <2>3. OpsFit(imFlow, imRef.op) => OpsFit(imFlow', imRef'.op)
      BY <2>1, <2>2
    <2>4. ASSUME ~imMixed PROVE RunsFit(imFlow', imRef', imPhase', imCall')
      BY <2>1, <2>2, <2>4, AloneAtDrive DEF ImportInv, RunsFit, DriveFree
    <2> QED BY <1>1, <2>1, <2>2, <2>3, <2>4 DEF ImportInv, ImportTyped
  <1> QED BY <1>2, <1>3, <1>4, <1>5, <1>6, <1>7, <1>8, <1>9

\* A run begins, beside no other at the drive.
LEMMA BeginsKeeps == ASSUME ImportInv, NEW w \in Flows, ImportBegins(w) PROVE ImportInv'
  <1>1. imRef \in RefRecords /\ imFlow \in FlowsTyped /\ SendsFit(imFlow) /\ imRef.op \in Nat
    BY DEF ImportInv, ImportTyped, RefRecords
  <1>2. CASE ~imRef.files /\ imFlow' = [imFlow EXCEPT ![w] = NoRun] /\ UNCHANGED <<imRef, imCall, imPhase, imMixed, imDialog>>
    <2>1. imFlow' \in FlowsTyped /\ Fewer(imFlow', imFlow)
      BY <1>1, <1>2, RunEnded
    <2> QED BY <1>1, <1>2, <2>1, QuietImportKeeps DEF ImportInv
  <1> DEFINE ref == [imRef EXCEPT !.clean = FALSE, !.stop = FALSE, !.cancel = FALSE, !.close = FALSE,
                                  !.released = FALSE, !.owner = w, !.op = @ + 1, !.picking = FALSE, !.tracked = 1]
             flow == [NoRun EXCEPT !.pc = "creating", !.op = imRef.op + 1]
  <1>3. CASE /\ imRef.files /\ imRef' = ref /\ imFlow' = [imFlow EXCEPT ![w] = flow] /\ imCall' = NoCloudCall
             /\ imPhase' = "uploading_usb_data" /\ imMixed' = (imMixed \/ \E v \in Flows : AtDrive(imFlow[v]))
             /\ UNCHANGED imDialog
    <2> DEFINE begun == [imRef EXCEPT !.clean = FALSE, !.stop = FALSE, !.cancel = FALSE, !.close = FALSE]
               armed == [begun EXCEPT !.released = FALSE, !.owner = w, !.op = imRef.op + 1, !.picking = FALSE, !.tracked = 1]
    <2>1. begun \in RefRecords /\ begun.op = imRef.op /\ begun.cloud = imRef.cloud
      BY <1>1 DEF RefRecords
    <2>2. ref = armed
      BY <1>1 DEF RefRecords
    <2> HIDE DEF begun
    <2>3. armed \in RefRecords
      <3> DEFINE later == imRef.op + 1
      <3>1. /\ later \in Nat /\ w \in Flows \cup {NoFlow}
            /\ armed = [begun EXCEPT !.released = FALSE, !.owner = w, !.op = later, !.picking = FALSE, !.tracked = 1]
        BY <1>1
      <3> HIDE DEF later
      <3> QED BY <2>1, <3>1 DEF RefRecords
    <2>4. armed.op = imRef.op + 1 /\ armed.cloud = imRef.cloud /\ armed.released = FALSE /\ armed.picking = FALSE
      BY <1>1, <2>1 DEF RefRecords
    <2> HIDE DEF armed
    <2>5. ref \in RefRecords /\ ref.op = imRef.op + 1 /\ ref.cloud = imRef.cloud /\ ref.released = FALSE
          /\ ref.picking = FALSE
      BY <2>2, <2>3, <2>4
    <2>6. flow \in FlowRecords /\ flow.pc = "creating" /\ flow.op = imRef.op + 1 /\ flow.sends = 0
      <3> DEFINE later == imRef.op + 1
      <3>1. later \in Nat
        BY <1>1
      <3> HIDE DEF later
      <3>2. [NoRun EXCEPT !.pc = "creating", !.op = later] \in FlowRecords
        BY <3>1 DEF NoRun, FlowRecords, FlowSteps
      <3>3. flow.pc = "creating" /\ flow.op = imRef.op + 1 /\ flow.sends = 0
        BY DEF NoRun
      <3> QED BY <3>2, <3>3 DEF later
    <2> HIDE DEF ref, flow
    <2>7. imFlow' \in FlowsTyped /\ imFlow'[w] = flow /\ \A v \in Flows : v # w => imFlow'[v] = imFlow[v]
      BY <1>1, <1>3, <2>6 DEF FlowsTyped
    <2>8. SendsFit(imFlow')
      BY <1>1, <2>6, <2>7 DEF SendsFit
    <2>9. imMixed' \in BOOLEAN
      BY <1>3 DEF ImportInv, ImportTyped
    <2>10. ASSUME ~imMixed' PROVE OpsFit(imFlow', imRef'.op) /\ RunsFit(imFlow', imRef', imPhase', imCall')
      <3>1. OpsFit(imFlow, imRef.op) /\ RunsFit(imFlow, imRef, imPhase, imCall) /\ DriveFree(imFlow) /\ imRef.cloud = NoFlow
        BY <1>3, <2>10 DEF ImportInv, RunsFit, DriveFree
      <3>2. OpsFit(imFlow', imRef'.op)
        <4>1. \A v \in Flows : imFlow[v].op \in Nat /\ imFlow[v].op <= imRef.op
          BY <1>1, <3>1 DEF OpsFit, FlowsTyped, FlowRecords
        <4> QED BY <1>1, <1>3, <2>5, <2>6, <2>7, <3>1, <4>1 DEF OpsFit
      <3>3. \A v \in Flows : v # w => ~AtDrive(imFlow'[v]) /\ ~Parses(imFlow'[v])
        BY <2>7, <3>1, ImportAssumption DEF RunsFit, DriveFree
      <3>4. ~Parses(imFlow'[w]) /\ imFlow'[w].op = imRef'.op
        BY <1>3, <2>5, <2>6, <2>7 DEF Parses
      <3>5. LocalUsbAccess(imPhase') /\ imRef'.cloud = NoFlow /\ imRef'.released = FALSE /\ imRef'.picking = FALSE
        BY <1>3, <2>5, <3>1 DEF LocalUsbAccess
      <3> QED BY <1>3, <3>2, <3>3, <3>4, <3>5 DEF RunsFit
    <2> QED BY <1>3, <2>5, <2>7, <2>8, <2>9, <2>10 DEF ImportInv, ImportTyped
  <1> QED BY <1>2, <1>3 DEF ImportBegins

\* A step of the run at the drive that leaves it there.
LEMMA DriveMoves ==
  ASSUME ImportInv, NEW w \in Flows, AtDrive(imFlow[w]), NEW flow \in FlowRecords, AtDrive(flow), flow.op = imFlow[w].op,
         ReadsDrive(flow) => ReadsDrive(imFlow[w]), flow.sends # 0 => flow.pc = "transfer"
  PROVE  LET next == [imFlow EXCEPT ![w] = flow]
         IN  /\ next \in FlowsTyped /\ SendsFit(next)
             /\ ~imMixed => OpsFit(next, imRef.op) /\ RunsFit(next, imRef, imPhase, imCall)
  <1> DEFINE next == [imFlow EXCEPT ![w] = flow]
  <1>1. next \in FlowsTyped /\ next[w] = flow /\ \A v \in Flows : v # w => next[v] = imFlow[v]
    BY DEF ImportInv, ImportTyped, FlowsTyped
  <1> HIDE DEF next
  <1>2. SendsFit(next)
    BY <1>1 DEF SendsFit, ImportInv
  <1>3. ASSUME ~imMixed PROVE OpsFit(next, imRef.op) /\ RunsFit(next, imRef, imPhase, imCall)
    <2>1. OpsFit(imFlow, imRef.op) /\ RunsFit(imFlow, imRef, imPhase, imCall)
      BY <1>3 DEF ImportInv
    <2>2. \A v \in Flows : /\ next[v].op = imFlow[v].op /\ (Begun(next[v]) <=> Begun(imFlow[v]))
                           /\ (AtDrive(next[v]) => AtDrive(imFlow[v])) /\ (ReadsDrive(next[v]) => ReadsDrive(imFlow[v]))
                           /\ (Parses(next[v]) => Parses(imFlow[v]))
      <3>1. Begun(flow) /\ Begun(imFlow[w]) /\ ~Parses(flow)
        BY DEF AtDrive, Begun, Parses
      <3> QED BY <1>1, <3>1
    <2>3. OpsFit(next, imRef.op)
      BY <2>1, <2>2 DEF OpsFit
    <2> QED BY <2>1, <2>2, <2>3 DEF RunsFit
  <1> QED BY <1>1, <1>2, <1>3 DEF next

\* The end of the reads, with the refs as they are then.
LEMMA ReleasingKeeps ==
  ASSUME ImportInv, NEW w \in Flows, AtDrive(imFlow[w]), NEW why \in {"ok", "cancelled", "error"}, NEW ref \in RefRecords,
         ref.op = imRef.op, ref.cloud = imRef.cloud, ref.released = imRef.released, ref.files = imRef.files,
         ref.picking = imRef.picking, Releasing(w, why, imFlow[w], ref), imFlow[w].sends = 0, UNCHANGED <<imPhase, imDialog, imCall, imMixed>>
  PROVE  ImportInv'
  <1> DEFINE flow == [imFlow[w] EXCEPT !.pc = "releasing", !.why = why]
             next == [imFlow EXCEPT ![w] = flow]
  <1>1. flow \in FlowRecords /\ flow.pc = "releasing" /\ flow.op = imFlow[w].op /\ flow.sends = 0
    <2>1. imFlow[w] \in FlowRecords
      BY DEF ImportInv, ImportTyped, FlowsTyped
    <2> QED BY <2>1 DEF FlowRecords, FlowSteps
  <1>2. imRef' = CleanedRef(ref) /\ imFlow' = CleanedFlows(ref, next)
    BY DEF Releasing
  <1> HIDE DEF flow
  <1>3. next \in FlowsTyped /\ SendsFit(next) /\ (~imMixed => OpsFit(next, imRef.op) /\ RunsFit(next, imRef, imPhase, imCall))
    BY <1>1, DriveMoves DEF AtDrive, ReadsDrive
  <1> HIDE DEF next
  <1>4. imFlow' \in FlowsTyped /\ Fewer(imFlow', next)
    BY <1>2, <1>3, CleanedFlowsAre
  <1>5. /\ imRef' \in RefRecords /\ imRef'.op = imRef.op /\ imRef'.cloud = imRef.cloud
        /\ imRef'.released = imRef.released /\ (imRef'.files => imRef.files) /\ imRef'.picking = imRef.picking
        /\ imRef.op \in Nat
    BY <1>2, CleanedRefIs DEF RefRecords
  <1>6. ASSUME ~imMixed PROVE OpsFit(imFlow', imRef'.op) /\ RunsFit(imFlow', imRef, imPhase, imCall)
    BY <1>3, <1>4, <1>5, <1>6, FewerFit
  <1>7. SendsFit(imFlow')
    BY <1>3, <1>4, FewerFit
  <1>8. ASSUME ~imMixed PROVE RunsFit(imFlow', imRef', imPhase', imCall')
    BY <1>5, <1>6, <1>8 DEF RunsFit
  <1> QED BY <1>4, <1>5, <1>6, <1>7, <1>8 DEF ImportInv, ImportTyped

\* A request answered while the drive is in use: the run goes on, or cleans up.
LEMMA AnsweredKeeps ==
  ASSUME ImportInv, NEW w \in Flows, ImportCreated(w) \/ ImportStarted(w), UNCHANGED imMixed
  PROVE  ImportInv'
  <1> DEFINE ref == [imRef EXCEPT !.tracked = Decremented(@)]
  <1>1. imFlow[w] \in FlowRecords /\ AtDrive(imFlow[w]) /\ imFlow[w].sends = 0 /\ ReadsDrive(imFlow[w])
        /\ UNCHANGED <<imPhase, imDialog, imCall>>
    BY DEF ImportInv, ImportTyped, FlowsTyped, SendsFit, ImportCreated, ImportStarted, AtDrive, ReadsDrive, FlowRecords
  <1>2. imRef \in RefRecords /\ Decremented(imRef.tracked) \in Nat
    BY DEF ImportInv, ImportTyped, RefRecords, Decremented
  <1>3. /\ ref \in RefRecords /\ ref.op = imRef.op /\ ref.cloud = imRef.cloud /\ ref.released = imRef.released
        /\ ref.files = imRef.files /\ ref.picking = imRef.picking /\ ref.tracked \in Nat
    BY <1>2 DEF RefRecords
  <1> HIDE DEF ref
  <1>4. CASE \E why \in {"ok", "cancelled", "error"} : Releasing(w, why, imFlow[w], ref)
    BY <1>1, <1>3, <1>4, ReleasingKeeps
  <1>5. CASE imFlow' = [imFlow EXCEPT ![w] = NoRun] /\ imRef' = ref
    <2>1. imFlow' \in FlowsTyped /\ Fewer(imFlow', imFlow)
      BY <1>5, RunEnded DEF ImportInv, ImportTyped
    <2> QED BY <1>1, <1>3, <1>5, <2>1, QuietImportKeeps DEF ImportInv
  <1>6. CASE /\ imRef' \in {[ref EXCEPT !.job = w, !.tracked = @ + 1], [ref EXCEPT !.job = w]}
             /\ \E step \in {"starting", "transfer"} : imFlow' = [imFlow EXCEPT ![w].pc = step]
    <2>1. /\ imRef' \in RefRecords /\ imRef'.op = imRef.op /\ imRef'.cloud = imRef.cloud
          /\ imRef'.released = imRef.released /\ imRef'.files = imRef.files /\ imRef'.picking = imRef.picking
      <3>1. CASE imRef' = [ref EXCEPT !.job = w]
        BY <1>3, <3>1 DEF RefRecords
      <3>2. CASE imRef' = [ref EXCEPT !.job = w, !.tracked = @ + 1]
        <4> DEFINE more == ref.tracked + 1
        <4>1. more \in Nat /\ imRef' = [ref EXCEPT !.job = w, !.tracked = more]
          BY <1>3, <3>2
        <4> HIDE DEF more
        <4> QED BY <1>3, <4>1 DEF RefRecords
      <3> QED BY <1>6, <3>1, <3>2
    <2>2. PICK step \in {"starting", "transfer"} : imFlow' = [imFlow EXCEPT ![w].pc = step]
      BY <1>6
    <2> DEFINE flow == [imFlow[w] EXCEPT !.pc = step]
    <2>3. flow \in FlowRecords /\ flow.pc = step /\ flow.op = imFlow[w].op /\ flow.sends = 0
      BY <1>1 DEF FlowRecords, FlowSteps
    <2>4. imFlow' = [imFlow EXCEPT ![w] = flow]
      BY <2>2
    <2> HIDE DEF flow
    <2>5. /\ imFlow' \in FlowsTyped /\ SendsFit(imFlow')
          /\ ~imMixed => OpsFit(imFlow', imRef.op) /\ RunsFit(imFlow', imRef, imPhase, imCall)
      BY <1>1, <2>3, <2>4, DriveMoves DEF AtDrive, ReadsDrive
    <2>6. ASSUME ~imMixed PROVE OpsFit(imFlow', imRef'.op) /\ RunsFit(imFlow', imRef', imPhase', imCall')
      BY <1>1, <2>1, <2>5, <2>6 DEF RunsFit
    <2> QED BY <1>1, <2>1, <2>5, <2>6 DEF ImportInv, ImportTyped
  <1> QED BY <1>4, <1>5, <1>6 DEF ImportCreated, ImportStarted, ref

\* The transfer.
LEMMA TransferKeeps ==
  ASSUME ImportInv, NEW w \in Flows, TransferReads(w) \/ LookupEnds(w) \/ UploadEnds(w), UNCHANGED imMixed
  PROVE  ImportInv'
  <1>1. /\ imFlow[w] \in FlowRecords /\ imRef \in RefRecords /\ imFlow \in FlowsTyped
        /\ UNCHANGED <<imPhase, imDialog, imCall>>
    BY DEF ImportInv, ImportTyped, FlowsTyped, TransferReads, LookupEnds, UploadEnds
  <1>2. CASE TransferReads(w)
    <2>1. PICK sends \in {0, 1}, lookups \in {0, 1, 2} :
            imFlow' = [imFlow EXCEPT ![w] = [imFlow[w] EXCEPT !.sends = sends, !.lookups = lookups]]
      <3>1. imFlow[w].sends \in {0, 1} /\ imFlow[w].lookups \in {0, 1, 2}
        BY <1>1 DEF FlowRecords
      <3>2. imFlow[w] = [imFlow[w] EXCEPT !.sends = imFlow[w].sends] /\ imFlow[w] = [imFlow[w] EXCEPT !.lookups = imFlow[w].lookups]
        BY <1>1 DEF FlowRecords
      <3>3. CASE imFlow' = [imFlow EXCEPT ![w].sends = 1]
        BY <1>1, <3>1, <3>3 DEF FlowRecords
      <3>4. CASE imFlow' = [imFlow EXCEPT ![w].lookups = 2]
        BY <1>1, <3>1, <3>4 DEF FlowRecords
      <3>5. CASE imFlow' = [imFlow EXCEPT ![w].sends = 0]
        BY <1>1, <3>1, <3>5 DEF FlowRecords
      <3> QED BY <1>2, <3>3, <3>4, <3>5 DEF TransferReads
    <2> DEFINE flow == [imFlow[w] EXCEPT !.sends = sends, !.lookups = lookups]
    <2>2. flow \in FlowRecords /\ flow.pc = imFlow[w].pc /\ flow.op = imFlow[w].op /\ imFlow[w].pc = "transfer"
      BY <1>1, <1>2 DEF FlowRecords, TransferReads, ImportInv, SendsFit
    <2>3. imFlow' = [imFlow EXCEPT ![w] = flow] /\ UNCHANGED imRef
      BY <1>2, <2>1 DEF TransferReads
    <2> HIDE DEF flow
    <2>4. /\ imFlow' \in FlowsTyped /\ SendsFit(imFlow')
          /\ ~imMixed => OpsFit(imFlow', imRef.op) /\ RunsFit(imFlow', imRef, imPhase, imCall)
      BY <2>2, <2>3, DriveMoves DEF AtDrive, ReadsDrive
    <2> QED BY <1>1, <2>3, <2>4 DEF ImportInv, ImportTyped
  <1>3. CASE LookupEnds(w)
    <2> DEFINE flow == [imFlow[w] EXCEPT !.lookups = @ - 1]
    <2>1. /\ flow \in FlowRecords /\ flow.pc = imFlow[w].pc /\ flow.op = imFlow[w].op /\ flow.sends = imFlow[w].sends
          /\ flow.cut = imFlow[w].cut
      BY <1>1, <1>3 DEF FlowRecords, LookupEnds
    <2>2. imFlow' = [imFlow EXCEPT ![w] = flow] /\ UNCHANGED imRef
      BY <1>3 DEF LookupEnds
    <2> HIDE DEF flow
    <2>3. imFlow' \in FlowsTyped /\ Fewer(imFlow', imFlow)
      BY <1>1, <2>1, <2>2, FewerOne DEF Begun, AtDrive, ReadsDrive, Parses
    <2> QED BY <1>1, <2>2, <2>3, QuietImportKeeps DEF ImportInv
  <1>4. CASE UploadEnds(w)
    <2>1. AtDrive(imFlow[w]) /\ imFlow[w].sends = 0
          /\ \E why \in {"ok", "cancelled", "error"} : Releasing(w, why, imFlow[w], imRef)
      BY <1>4 DEF UploadEnds, AtDrive
    <2> QED BY <1>1, <2>1, ReleasingKeeps
  <1> QED BY <1>2, <1>3, <1>4

\* The verified release.
LEMMA ReleaseKeeps ==
  ASSUME ImportInv, NEW w \in Flows, UsbReleased(w), UNCHANGED imMixed
  PROVE  ImportInv'
  <1> DEFINE ended == [imFlow EXCEPT ![w] = FlowEnded(imFlow[w])]
             ref == [imRef EXCEPT !.released = TRUE]
  <1>1. /\ imFlow \in FlowsTyped /\ imRef \in RefRecords /\ imRef.op \in Nat /\ imFlow[w] \in FlowRecords
        /\ QuestionFits(imDialog) /\ SendsFit(imFlow) /\ AtDrive(imFlow[w]) /\ imFlow[w].pc = "releasing" /\ ~imRef.files
    BY DEF ImportInv, ImportTyped, FlowsTyped, RefRecords, UsbReleased, AtDrive, VerifyUsbReleased
  <1>2. ended \in FlowsTyped /\ Fewer(ended, imFlow) /\ ended[w].pc = "none"
    BY <1>1, RunEnded
  <1>3. ref \in RefRecords /\ ref.op = imRef.op /\ ref.cloud = imRef.cloud /\ ref.files = imRef.files /\ ref.released = TRUE
        /\ ref.picking = imRef.picking
    BY <1>1 DEF RefRecords
  <1>4. /\ \/ imRef.cancel /\ DeleteCloudWork(ref, ended, "usb_released", imDialog)
           \/ /\ imRef' = [ref EXCEPT !.cloud = w] /\ imFlow' = [imFlow EXCEPT ![w].pc = "queuing"]
              /\ imPhase' = "parsing_cloud_data" /\ UNCHANGED imDialog
           \/ /\ imPhase' \in {"failed", "usb_released"} /\ imRef' = ref /\ imFlow' = ended
              /\ UNCHANGED <<imCall, imDialog>>
    BY DEF UsbReleased
  <1> HIDE DEF ended, ref
  <1>5. ASSUME ~imMixed
        PROVE  /\ DriveFree(ended) /\ \A v \in Flows : ~Parses(imFlow[v]) /\ ~Parses(ended[v])
               /\ imRef.cloud = NoFlow /\ imFlow[w].op = imRef.op /\ \A v \in Flows : v # w => ~AtDrive(imFlow[v])
               /\ ~imRef.picking
    <2>1. \A v \in Flows : AtDrive(imFlow[v]) => v = w
      BY <1>1, <1>5, AloneAtDrive
    <2>2. /\ imRef.cloud = NoFlow /\ imFlow[w].op = imRef.op /\ \A v \in Flows : ~Parses(imFlow[v])
      BY <1>1, <1>5, AloneAtDrive
    <2>3. ~AtDrive(ended[w])
      BY <1>2 DEF AtDrive
    <2>4. ~imRef.picking
      BY <1>1, <1>5 DEF ImportInv, RunsFit
    <2> QED BY <1>2, <2>1, <2>2, <2>3, <2>4 DEF Fewer, DriveFree
  <1>6. CASE DeleteCloudWork(ref, ended, "usb_released", imDialog)
    <2>1. ASSUME ~imMixed PROVE OpsFit(ended, ref.op) /\ RunsFit(ended, ref, "usb_released", imCall) /\ DriveFree(ended)
      BY <1>1, <1>2, <1>3, <1>5, <2>1, FewerFit, FreedFits DEF ImportInv
    <2>2. SendsFit(ended)
      BY <1>1, <1>2, FewerFit
    <2> QED BY <1>1, <1>2, <1>3, <1>6, <2>1, <2>2, DeleteKeeps DEF ImportInv, ImportTyped
  <1>7. CASE imPhase' \in {"failed", "usb_released"} /\ imRef' = ref /\ imFlow' = ended /\ UNCHANGED <<imCall, imDialog>>
    BY <1>1, <1>2, <1>3, <1>5, <1>7, QuietImportKeeps
  <1>8. CASE /\ imRef' = [ref EXCEPT !.cloud = w] /\ imFlow' = [imFlow EXCEPT ![w].pc = "queuing"]
             /\ imPhase' = "parsing_cloud_data" /\ UNCHANGED imDialog
    <2> DEFINE flow == [imFlow[w] EXCEPT !.pc = "queuing"]
    <2>1. /\ flow \in FlowRecords /\ flow.pc = "queuing" /\ flow.op = imFlow[w].op /\ flow.sends = imFlow[w].sends
          /\ flow.cut = imFlow[w].cut
      BY <1>1 DEF FlowRecords, FlowSteps
    <2>2. imFlow' = [imFlow EXCEPT ![w] = flow]
      BY <1>8
    <2> HIDE DEF flow
    <2>3. imFlow' \in FlowsTyped /\ imFlow'[w] = flow /\ \A v \in Flows : v # w => imFlow'[v] = imFlow[v]
      BY <1>1, <2>1, <2>2 DEF FlowsTyped
    <2>4. imRef' \in RefRecords /\ imRef'.op = imRef.op /\ imRef'.cloud = w /\ ~imRef'.files /\ imRef'.picking = imRef.picking
      BY <1>1, <1>3, <1>8 DEF RefRecords
    <2>5. SendsFit(imFlow')
      BY <1>1, <2>1, <2>3 DEF SendsFit
    <2>6. ASSUME ~imMixed PROVE OpsFit(imFlow', imRef'.op) /\ RunsFit(imFlow', imRef', imPhase', imCall')
      <3>1. \A v \in Flows : imFlow'[v].op = imFlow[v].op /\ (Begun(imFlow'[v]) <=> Begun(imFlow[v]))
        <4>1. Begun(flow) /\ Begun(imFlow[w])
          BY <1>1, <2>1 DEF Begun
        <4> QED BY <2>1, <2>3, <4>1
      <3>2. OpsFit(imFlow', imRef'.op)
        BY <2>4, <2>6, <3>1 DEF OpsFit, ImportInv
      <3>3. \A v \in Flows : ~AtDrive(imFlow'[v]) /\ ~ReadsDrive(imFlow'[v]) /\ (Parses(imFlow'[v]) => v = w)
        BY <1>5, <2>1, <2>3, <2>6 DEF AtDrive, ReadsDrive
      <3>4. imFlow'[w].op = imRef'.op
        BY <1>5, <2>1, <2>3, <2>4, <2>6
      <3> QED BY <1>5, <1>8, <2>4, <2>6, <3>2, <3>3, <3>4 DEF RunsFit
    <2> QED BY <1>1, <1>8, <2>3, <2>4, <2>5, <2>6 DEF ImportInv, ImportTyped
  <1> QED BY <1>4, <1>6, <1>7, <1>8

\* And the one that fails.
LEMMA FailedReleaseKeeps ==
  ASSUME ImportInv, NEW w \in Flows, ReleaseFails(w), UNCHANGED imMixed
  PROVE  ImportInv'
  <1>1. /\ imFlow \in FlowsTyped /\ imRef \in RefRecords /\ imFlow[w] \in FlowRecords /\ AtDrive(imFlow[w])
        /\ UNCHANGED <<imDialog, imRef, imCall>> /\ QuestionFits(imDialog) /\ imFlow[w].sends = 0
    BY DEF ImportInv, ImportTyped, FlowsTyped, FlowRecords, SendsFit, ReleaseFails, AtDrive
  <1>2. CASE imFlow' = [imFlow EXCEPT ![w].why = "cancelled"] /\ UNCHANGED imPhase
    <2> DEFINE flow == [imFlow[w] EXCEPT !.why = "cancelled"]
    <2>1. flow \in FlowRecords /\ flow.pc = imFlow[w].pc /\ flow.op = imFlow[w].op /\ flow.sends = imFlow[w].sends
      BY <1>1 DEF FlowRecords
    <2>2. imFlow' = [imFlow EXCEPT ![w] = flow]
      BY <1>2
    <2> HIDE DEF flow
    <2>3. /\ imFlow' \in FlowsTyped /\ SendsFit(imFlow')
          /\ ~imMixed => OpsFit(imFlow', imRef.op) /\ RunsFit(imFlow', imRef, imPhase, imCall)
      BY <1>1, <2>1, <2>2, DriveMoves DEF AtDrive, ReadsDrive
    <2> QED BY <1>1, <1>2, <2>3 DEF ImportInv, ImportTyped
  <1>3. CASE imFlow' = [imFlow EXCEPT ![w] = FlowEnded(imFlow[w])] /\ imPhase' = "failed"
    <2>1. imFlow' \in FlowsTyped /\ Fewer(imFlow', imFlow) /\ imFlow'[w].pc = "none"
      BY <1>1, <1>3, RunEnded
    <2>2. ASSUME ~imMixed PROVE DriveFree(imFlow')
      <3>1. \A v \in Flows : AtDrive(imFlow[v]) => v = w
        BY <1>1, <2>2, AloneAtDrive
      <3>2. ~AtDrive(imFlow'[w])
        BY <2>1 DEF AtDrive
      <3> QED BY <2>1, <3>1, <3>2 DEF DriveFree, Fewer
    <2> QED BY <1>1, <1>3, <2>1, <2>2, QuietImportKeeps
  <1> QED BY <1>2, <1>3 DEF ReleaseFails

\* An aborted parse loop.
LEMMA CutKeeps == ASSUME ImportInv, NEW w \in Flows, ParsingCut(w) PROVE ImportInv'
  <1> DEFINE ended == [imFlow EXCEPT ![w] = FlowEnded(imFlow[w])]
  <1>1. /\ imFlow \in FlowsTyped /\ imRef \in RefRecords /\ imRef.op \in Nat /\ QuestionFits(imDialog) /\ SendsFit(imFlow)
        /\ imFlow[w].pc \in {"queuing", "polling", "totals"} /\ imMixed \in BOOLEAN
        /\ imMixed' = (imMixed \/ DeletesForAnother(w))
    BY DEF ImportInv, ImportTyped, RefRecords, ParsingCut
  <1>2. ended \in FlowsTyped /\ Fewer(ended, imFlow)
    BY <1>1, RunEnded
  <1>3. \/ imRef.cancel /\ DeleteCloudWork(imRef, ended, imPhase, imDialog)
        \/ ~imRef.cancel /\ imFlow' = ended /\ UNCHANGED <<imPhase, imDialog, imRef, imCall>>
    BY DEF ParsingCut
  <1> HIDE DEF ended
  <1>4. CASE ~imRef.cancel /\ imFlow' = ended /\ UNCHANGED <<imPhase, imDialog, imRef, imCall>>
    <2>1. imMixed' = imMixed
      BY <1>1, <1>4 DEF DeletesForAnother
    <2> QED BY <1>1, <1>2, <1>4, <2>1, QuietImportKeeps
  <1>5. CASE imRef.cancel /\ DeleteCloudWork(imRef, ended, imPhase, imDialog)
    <2>1. ASSUME ~imMixed' PROVE OpsFit(ended, imRef.op) /\ RunsFit(ended, imRef, imPhase, imCall) /\ DriveFree(ended)
      <3>1. ~imMixed /\ ~DeletesForAnother(w)
        BY <1>1, <2>1
      <3>2. OpsFit(imFlow, imRef.op) /\ RunsFit(imFlow, imRef, imPhase, imCall)
        BY <3>1 DEF ImportInv
      <3>3. ASSUME NEW v \in Flows, AtDrive(imFlow[v]) PROVE FALSE
        <4>1. imFlow[w].op = imRef.op /\ imFlow[v].op = imRef.op
          BY <1>5, <3>1, <3>2, <3>3 DEF DeletesForAnother, RunsFit
        <4>2. Begun(imFlow[v]) /\ Begun(imFlow[w])
          BY <1>1, <3>3 DEF Begun, AtDrive
        <4>3. v = w
          BY <3>2, <4>1, <4>2 DEF OpsFit
        <4> QED BY <1>1, <3>3, <4>3 DEF AtDrive
      <3>4. DriveFree(ended)
        BY <1>2, <3>3 DEF DriveFree, Fewer
      <3> QED BY <1>1, <1>2, <3>2, <3>4, FewerFit
    <2>2. SendsFit(ended)
      BY <1>1, <1>2, FewerFit
    <2>3. imMixed' \in BOOLEAN
      BY <1>1
    <2>4. /\ imRef' \in RefRecords /\ imFlow' \in FlowsTyped /\ QuestionFits(imDialog') /\ SendsFit(imFlow')
          /\ OpsFit(ended, imRef.op) /\ RunsFit(ended, imRef, imPhase, imCall) /\ DriveFree(ended)
               => OpsFit(imFlow', imRef'.op) /\ RunsFit(imFlow', imRef', imPhase', imCall')
      BY <1>1, <1>2, <1>5, <2>2, DeleteKeeps
    <2> QED BY <2>1, <2>3, <2>4 DEF ImportInv, ImportTyped
  <1> QED BY <1>3, <1>4, <1>5

\* A parse loop that speaks goes on or ends.
LEMMA ParsingKeeps ==
  ASSUME ImportInv, NEW w \in Flows, ParsingQueued(w) \/ ParsingPolled(w) \/ ParsingTotals(w), UNCHANGED imMixed
  PROVE  ImportInv'
  <1>1. /\ imFlow \in FlowsTyped /\ imRef \in RefRecords /\ imFlow[w] \in FlowRecords /\ Parses(imFlow[w])
        /\ UNCHANGED <<imDialog, imCall>> /\ QuestionFits(imDialog)
    BY DEF ImportInv, ImportTyped, FlowsTyped, Parses, ParsingQueued, ParsingPolled, ParsingTotals
  <1>2. ASSUME ~imMixed
        PROVE  DriveFree(imFlow) /\ imRef.cloud = w /\ \A v \in Flows : Parses(imFlow[v]) => v = w
    BY <1>1, <1>2, AloneAtDrive DEF ImportInv, RunsFit
  <1>3. CASE /\ imFlow' = [imFlow EXCEPT ![w] = NoRun] /\ imPhase' \in {imPhase, "completed", "failed", "paused", "interrupted"}
             /\ imRef' \in {[imRef EXCEPT !.cloud = IF @ = w THEN NoFlow ELSE @], [imRef EXCEPT !.bg = TRUE, !.cloud = NoFlow]}
    <2>1. imFlow' \in FlowsTyped /\ Fewer(imFlow', imFlow) /\ imFlow'[w].pc = "none"
      BY <1>1, <1>3, RunEnded
    <2>2. /\ imRef' \in RefRecords /\ imRef'.op = imRef.op /\ imRef'.released = imRef.released
          /\ imRef'.picking = imRef.picking /\ (imRef.cloud = w => imRef'.cloud = NoFlow)
      <3>1. CASE imRef' = [imRef EXCEPT !.bg = TRUE, !.cloud = NoFlow]
        BY <1>1, <3>1 DEF RefRecords
      <3>2. CASE imRef' = [imRef EXCEPT !.cloud = IF imRef.cloud = w THEN NoFlow ELSE imRef.cloud]
        BY <1>1, <3>2 DEF RefRecords
      <3> QED BY <1>3, <3>1, <3>2
    <2>3. ASSUME ~imMixed PROVE DriveFree(imFlow') /\ imRef'.cloud = NoFlow /\ \A v \in Flows : ~Parses(imFlow'[v])
      <3>1. ~Parses(imFlow'[w])
        BY <2>1 DEF Parses
      <3> QED BY <1>2, <2>1, <2>2, <2>3, <3>1 DEF DriveFree, Fewer
    <2> QED BY <1>1, <1>3, <2>1, <2>2, <2>3, QuietImportKeeps
  <1>4. CASE \E step \in {"polling", "totals"} : imFlow' = [imFlow EXCEPT ![w].pc = step] /\ UNCHANGED <<imPhase, imRef>>
    <2>1. PICK step \in {"polling", "totals"} : imFlow' = [imFlow EXCEPT ![w].pc = step] /\ UNCHANGED <<imPhase, imRef>>
      BY <1>4
    <2> DEFINE flow == [imFlow[w] EXCEPT !.pc = step]
    <2>2. /\ flow \in FlowRecords /\ flow.pc = step /\ flow.op = imFlow[w].op /\ flow.sends = imFlow[w].sends
          /\ flow.cut = imFlow[w].cut
      BY <1>1 DEF FlowRecords, FlowSteps
    <2>3. imFlow' = [imFlow EXCEPT ![w] = flow]
      BY <2>1
    <2> HIDE DEF flow
    <2>4. flow.sends = 0
      BY <1>1, <2>2 DEF SendsFit, ImportInv, Parses
    <2>5. imFlow' \in FlowsTyped /\ Fewer(imFlow', imFlow)
      BY <1>1, <2>2, <2>3, <2>4, FewerOne DEF Begun, AtDrive, ReadsDrive, Parses
    <2> QED BY <1>1, <2>1, <2>5, QuietImportKeeps
  <1> QED
    <2>1. ASSUME ParsingQueued(w) PROVE ImportInv'
      BY <1>3, <1>4, <2>1 DEF ParsingQueued, ParsingEnds, FailedUnlessLeft
    <2>2. ASSUME ParsingPolled(w) PROVE ImportInv'
      BY <1>3, <1>4, <2>2 DEF ParsingPolled, ParsingEnds
    <2>3. ASSUME ParsingTotals(w) PROVE ImportInv'
      BY <1>3, <2>3 DEF ParsingTotals, ParsingEnds, FailedUnlessLeft
    <2> QED BY <2>1, <2>2, <2>3

LEMMA ImportStepInv == ImportInv /\ [ImportNext]_importVars => ImportInv'
  <1> SUFFICES ASSUME ImportInv, [ImportNext]_importVars PROVE ImportInv'
    OBVIOUS
  <1>1. CASE UNCHANGED importVars
    BY <1>1 DEF importVars, ImportInv, ImportTyped
  <1>2. ASSUME NEW w \in Flows, ImportBegins(w) \/ ParsingCut(w) PROVE ImportInv'
    BY <1>2, BeginsKeeps, CutKeeps
  <1>3. CASE ImportStep /\ UNCHANGED imMixed
    <2>1. ASSUME ImportFlowStep PROVE ImportInv'
      BY <1>3, <2>1, AnsweredKeeps, TransferKeeps, ReleaseKeeps, FailedReleaseKeeps, ParsingKeeps DEF ImportFlowStep
    <2>2. ASSUME DeleteAnswered \/ DeletePolled \/ PauseAnswered PROVE ImportInv'
      BY <1>3, <2>2, CallsKeep
    <2>3. ASSUME ExecuteConfirmedHardDelete \/ ConfirmAbort PROVE ImportInv'
      BY <1>3, <2>3, ConfirmationsKeep
    <2>4. CASE \/ UsbSourceAsked \/ UsbSourceSelected
               \/ FolderChosen \/ KeepGoing \/ ContinueInBackground \/ CloseAndReset \/ BeforeUnload \/ Reopen \/ WorkerMoves
               \/ \E intent \in {"pause", "delete", "close"} : OpenAbortDialog(intent)
               \/ \E w \in Flows : ImportPressed(w)
      BY <1>3, <2>4, UserImportKeeps
    <2> QED BY <1>3, <2>1, <2>2, <2>3, <2>4 DEF ImportStep
  <1> QED BY <1>1, <1>2, <1>3 DEF ImportNext

\* The run at the drive is the one whose controller the refs hold, or it is aborted.
OwnerFits(flows, ref) ==
  \A w \in Flows : AtDrive(flows[w]) => flows[w].aborted \/ (~ref.clean /\ ref.owner = w)

\* Who looks paths up is in its transfer or aborted.
LookupsFit(flows) == \A w \in Flows : flows[w].lookups # 0 => flows[w].pc = "transfer" \/ flows[w].aborted

ImportHeld == ~imMixed => OwnerFits(imFlow, imRef) /\ LookupsFit(imFlow)

\* What a run may become without a new lookup or a new run at the drive.
Remains(flow, old) ==
  /\ AtDrive(flow) => AtDrive(old) /\ (old.aborted => flow.aborted)
  /\ flow.lookups # 0 => /\ old.lookups # 0 /\ (old.aborted => flow.aborted)
                         /\ old.pc = "transfer" => flow.pc = "transfer" \/ flow.aborted
AllRemain(next, flows) == \A w \in Flows : Remains(next[w], flows[w])
AllAborted(flows) == \A w \in Flows : AtDrive(flows[w]) => flows[w].aborted

LEMMA RemainingFit ==
  ASSUME NEW flows, NEW next, AllRemain(next, flows)
  PROVE  /\ LookupsFit(flows) => LookupsFit(next)
         /\ \A ref, later : OwnerFits(flows, ref) /\ later.owner = ref.owner /\ later.clean = ref.clean
              => OwnerFits(next, later)
         /\ AllAborted(flows) => AllAborted(next)
  BY DEF AllRemain, Remains, LookupsFit, OwnerFits, AllAborted

\* A step of one run.
LEMMA OneRemains ==
  ASSUME NEW flows \in FlowsTyped, NEW w \in Flows, NEW flow \in FlowRecords, Remains(flow, flows[w])
  PROVE  AllRemain([flows EXCEPT ![w] = flow], flows)
  <1> DEFINE next == [flows EXCEPT ![w] = flow]
  <1>1. next[w] = flow /\ \A v \in Flows : v # w => next[v] = flows[v]
    BY DEF FlowsTyped
  <1> HIDE DEF next
  <1>2. AllRemain(next, flows)
    <2>1. \A v \in Flows : Remains(flows[v], flows[v])
      BY DEF Remains
    <2> QED BY <1>1, <2>1 DEF AllRemain
  <1> QED BY <1>2 DEF next

LEMMA EndedRemains ==
  ASSUME NEW w \in Flows, imFlow \in FlowsTyped
  PROVE  /\ AllRemain([imFlow EXCEPT ![w] = NoRun], imFlow)
         /\ imFlow[w].pc # "transfer" => AllRemain([imFlow EXCEPT ![w] = FlowEnded(imFlow[w])], imFlow)
  <1>1. Remains(NoRun, imFlow[w])
    BY FreshIs DEF Remains, AtDrive
  <1>2. ASSUME imFlow[w].pc # "transfer" PROVE Remains(FlowEnded(imFlow[w]), imFlow[w]) /\ FlowEnded(imFlow[w]) \in FlowRecords
    <2>1. imFlow[w] \in FlowRecords
      BY DEF FlowsTyped
    <2>2. FlowEnded(imFlow[w]).pc = "none" /\ FlowEnded(imFlow[w]).lookups = imFlow[w].lookups
          /\ FlowEnded(imFlow[w]).aborted = imFlow[w].aborted
      BY DEF FlowEnded, NoRun
    <2>3. FlowEnded(imFlow[w]) \in FlowRecords
      BY <2>1 DEF FlowEnded, NoRun, FlowRecords, FlowSteps
    <2> QED BY <1>2, <2>2, <2>3 DEF Remains, AtDrive
  <1> QED BY <1>1, <1>2, FreshIs, OneRemains

\* The cleanup aborts the run that reads the drive.
LEMMA CleanedRemain ==
  ASSUME NEW ref \in RefRecords, NEW flows \in FlowsTyped
  PROVE  /\ AllRemain(CleanedFlows(ref, flows), flows)
         /\ OwnerFits(flows, ref) => AllAborted(CleanedFlows(ref, flows))
  <1>1. ref.owner \in Flows \cup {NoFlow}
    BY DEF RefRecords
  <1>2. CASE ref.clean
    BY <1>2 DEF CleanedFlows, AllRemain, Remains, OwnerFits, AllAborted
  <1>3. CASE ~ref.clean
    <2> DEFINE next == CleanedFlows(ref, flows)
    <2>1. \A v \in Flows : /\ next[v].pc = flows[v].pc /\ next[v].lookups = flows[v].lookups
                           /\ flows[v].aborted \/ v = ref.owner => next[v].aborted
      BY <1>1, <1>3, AbortedFlows DEF CleanedFlows
    <2> HIDE DEF next
    <2>2. AllRemain(next, flows) /\ (OwnerFits(flows, ref) => AllAborted(next))
      BY <2>1 DEF AllRemain, Remains, OwnerFits, AllAborted, AtDrive
    <2> QED BY <2>2 DEF next
  <1> QED BY <1>2, <1>3

LEMMA CutRemain ==
  ASSUME NEW flows \in FlowsTyped, NEW w \in Flows \cup {NoFlow}
  PROVE  AllRemain(Cutting(flows, w), flows)
  <1>1. \A v \in Flows : /\ Cutting(flows, w)[v].pc = flows[v].pc /\ Cutting(flows, w)[v].lookups = flows[v].lookups
                         /\ Cutting(flows, w)[v].aborted = flows[v].aborted
    BY CutFlows
  <1> QED BY <1>1 DEF AllRemain, Remains, AtDrive

LEMMA ResetHolds ==
  ASSUME NEW ref \in RefRecords, NEW flows \in FlowsTyped, NEW dialog, OwnerFits(flows, ref), LookupsFit(flows),
         ResetAndClose(ref, flows, dialog)
  PROVE  OwnerFits(imFlow', imRef') /\ LookupsFit(imFlow')
  <1>1. ref.cloud \in Flows \cup {NoFlow} /\ imFlow' = Cutting(CleanedFlows(ref, flows), ref.cloud)
    BY DEF RefRecords, ResetAndClose
  <1>2. CleanedFlows(ref, flows) \in FlowsTyped
    BY CleanedFlowsAre
  <1>3. LookupsFit(CleanedFlows(ref, flows)) /\ AllAborted(CleanedFlows(ref, flows))
    BY CleanedRemain, RemainingFit
  <1>4. LookupsFit(imFlow') /\ AllAborted(imFlow')
    BY <1>1, <1>2, <1>3, CutRemain, RemainingFit
  <1> QED BY <1>4 DEF AllAborted, OwnerFits

LEMMA DeleteHolds ==
  ASSUME NEW ref \in RefRecords, NEW flows \in FlowsTyped, NEW phase, NEW dialog, OwnerFits(flows, ref), LookupsFit(flows),
         DeleteCloudWork(ref, flows, phase, dialog)
  PROVE  OwnerFits(imFlow', imRef') /\ LookupsFit(imFlow')
  <1>1. CASE imRef' = ref /\ imFlow' = flows
    BY <1>1
  <1>2. CASE ResetAndClose(ref, flows, dialog)
    BY <1>2, ResetHolds
  <1>3. CASE imFlow' = Cutting(flows, ref.cloud) /\ imRef' = [ref EXCEPT !.cloud = NoFlow]
    <2>1. ref.cloud \in Flows \cup {NoFlow} /\ imRef'.owner = ref.owner /\ imRef'.clean = ref.clean
      BY <1>3 DEF RefRecords
    <2> QED BY <1>3, <2>1, CutRemain, RemainingFit
  <1> QED BY <1>1, <1>2, <1>3 DEF DeleteCloudWork

\* A step that begins nothing.
LEMMA RemainingHolds ==
  ASSUME ImportHeld, UNCHANGED imMixed, AllRemain(imFlow', imFlow),
         \/ imRef'.owner = imRef.owner /\ imRef'.clean = imRef.clean
         \/ ~imMixed => AllAborted(imFlow')
  PROVE  ImportHeld'
  BY RemainingFit DEF ImportHeld, AllAborted, OwnerFits

LEMMA ConfirmedHolds ==
  ASSUME ImportInv, ImportHeld, UNCHANGED imMixed, NEW phase, NEW ref \in RefRecords, NEW pause, Confirmed(phase, ref, pause),
         ref.owner = imRef.owner, ref.clean = imRef.clean
  PROVE  ImportHeld'
  <1> DEFINE released == [ref EXCEPT !.released = TRUE]
             stopped == [ref EXCEPT !.stop = TRUE]
  <1>1. imFlow \in FlowsTyped /\ AllRemain(imFlow, imFlow)
    BY DEF ImportInv, ImportTyped, AllRemain, Remains
  <1>2. /\ released \in RefRecords /\ released.owner = imRef.owner /\ released.clean = imRef.clean
        /\ released.cloud \in Flows \cup {NoFlow}
    BY DEF RefRecords
  <1>3. \/ DeleteCloudWork(released, imFlow, imPhase, NoDialog) \/ DeleteCloudWork(ref, imFlow, imPhase, NoDialog)
        \/ PauseCloudWork(released)
        \/ imRef' = CleanedRef(stopped) /\ imFlow' = CleanedFlows(ref, imFlow)
    BY DEF Confirmed
  <1>4. ASSUME ~imMixed PROVE OwnerFits(imFlow, released) /\ OwnerFits(imFlow, ref) /\ LookupsFit(imFlow)
    BY <1>2, <1>4 DEF ImportHeld, OwnerFits
  <1> HIDE DEF released
  <1>5. CASE DeleteCloudWork(released, imFlow, imPhase, NoDialog) \/ DeleteCloudWork(ref, imFlow, imPhase, NoDialog)
    BY <1>1, <1>2, <1>4, <1>5, DeleteHolds DEF ImportHeld
  <1>6. CASE PauseCloudWork(released)
    <2>1. CASE imRef' = released /\ UNCHANGED imFlow
      BY <1>1, <1>2, <2>1, RemainingHolds
    <2>2. CASE imFlow' = Cutting(imFlow, released.cloud) /\ imRef' = [released EXCEPT !.cloud = NoFlow]
      <3>1. imRef'.owner = imRef.owner /\ imRef'.clean = imRef.clean
        BY <1>2, <2>2 DEF RefRecords
      <3> QED BY <1>1, <1>2, <2>2, <3>1, CutRemain, RemainingHolds
    <2> QED BY <1>6, <2>1, <2>2 DEF PauseCloudWork
  <1>7. CASE imRef' = CleanedRef(stopped) /\ imFlow' = CleanedFlows(ref, imFlow)
    <2>1. AllRemain(imFlow', imFlow) /\ (~imMixed => AllAborted(imFlow'))
      BY <1>1, <1>4, <1>7, CleanedRemain
    <2> QED BY <2>1, RemainingHolds
  <1> QED BY <1>3, <1>5, <1>6, <1>7

LEMMA UserHolds ==
  ASSUME ImportInv, ImportHeld, UNCHANGED imMixed,
         \/ DeleteAnswered \/ DeletePolled \/ PauseAnswered
         \/ ExecuteConfirmedHardDelete \/ ConfirmAbort \/ UsbSourceAsked \/ UsbSourceSelected
         \/ FolderChosen \/ KeepGoing \/ ContinueInBackground \/ CloseAndReset \/ BeforeUnload \/ Reopen \/ WorkerMoves
         \/ \E intent \in {"pause", "delete", "close"} : OpenAbortDialog(intent)
         \/ \E w \in Flows : ImportPressed(w)
  PROVE  ImportHeld'
  <1>1. imRef \in RefRecords /\ imFlow \in FlowsTyped /\ AllRemain(imFlow, imFlow)
    BY DEF ImportInv, ImportTyped, AllRemain, Remains
  <1>2. CASE ResetAndClose(imRef, imFlow, imDialog)
    BY <1>1, <1>2, ResetHolds DEF ImportHeld
  <1>3. CASE UNCHANGED <<imRef, imFlow>>
    BY <1>1, <1>3, RemainingHolds
  <1>4. CASE \/ DeleteAnswered \/ DeletePolled \/ PauseAnswered \/ CloseAndReset \/ KeepGoing \/ Reopen \/ WorkerMoves
             \/ \E intent \in {"pause", "delete", "close"} : OpenAbortDialog(intent)
    BY <1>2, <1>3, <1>4 DEF DeleteAnswered, DeletePolled, PauseAnswered, CloudCallEnds, CloseAndReset, KeepGoing, Reopen,
                            WorkerMoves, OpenAbortDialog
  <1>5. CASE UsbSourceAsked \/ UsbSourceSelected \/ FolderChosen \/ ContinueInBackground
    <2>1. imFlow' = imFlow /\ imRef'.owner = imRef.owner /\ imRef'.clean = imRef.clean
      BY <1>1, <1>5 DEF UsbSourceAsked, UsbSourceSelected, FolderChosen, ContinueInBackground, RefRecords
    <2> QED BY <1>1, <2>1, RemainingHolds
  <1>6. CASE BeforeUnload
    <2>1. imFlow' = CleanedFlows(imRef, imFlow)
      BY <1>6 DEF BeforeUnload
    <2>2. AllRemain(imFlow', imFlow) /\ (~imMixed => AllAborted(imFlow'))
      BY <1>1, <2>1, CleanedRemain DEF ImportHeld
    <2> QED BY <2>2, RemainingHolds
  <1>7. ASSUME NEW w \in Flows, ImportPressed(w) PROVE ImportHeld'
    <2> DEFINE flow == [NoRun EXCEPT !.pc = "session"]
    <2>1. imFlow' = [imFlow EXCEPT ![w] = flow] /\ UNCHANGED imRef
      BY <1>7 DEF ImportPressed
    <2>2. flow \in FlowRecords /\ flow.pc = "session" /\ flow.lookups = 0
      BY DEF NoRun, FlowRecords, FlowSteps
    <2> HIDE DEF flow
    <2>3. AllRemain(imFlow', imFlow)
      BY <1>1, <2>1, <2>2, OneRemains DEF Remains, AtDrive
    <2> QED BY <2>1, <2>3, RemainingHolds
  <1>8. ASSUME NEW stop \in BOOLEAN, NEW close \in BOOLEAN, NEW phase, NEW pause,
               Confirmed(phase, [imRef EXCEPT !.cancel = stop, !.close = close], pause)
        PROVE  ImportHeld'
    <2> DEFINE ref == [imRef EXCEPT !.cancel = stop, !.close = close]
    <2>1. ref \in RefRecords /\ ref.owner = imRef.owner /\ ref.clean = imRef.clean
      BY <1>1 DEF RefRecords
    <2>2. Confirmed(phase, ref, pause)
      BY <1>8
    <2> HIDE DEF ref
    <2> QED BY <2>1, <2>2, ConfirmedHolds
  <1>9. CASE ExecuteConfirmedHardDelete \/ ConfirmAbort
    <2>1. {imDialog.intent # "pause", imDialog.intent = "close"} \subseteq BOOLEAN
      OBVIOUS
    <2> QED BY <1>8, <1>9, <2>1 DEF ExecuteConfirmedHardDelete, ConfirmAbort
  <1> QED BY <1>4, <1>5, <1>6, <1>7, <1>9

\* A run begins, and the refs hold its controller.
LEMMA BeginsHolds == ASSUME ImportInv, ImportHeld, NEW w \in Flows, ImportBegins(w) PROVE ImportHeld'
  <1>1. imRef \in RefRecords /\ imFlow \in FlowsTyped
    BY DEF ImportInv, ImportTyped
  <1>2. CASE imFlow' = [imFlow EXCEPT ![w] = NoRun] /\ UNCHANGED <<imRef, imMixed>>
    BY <1>1, <1>2, EndedRemains, RemainingHolds
  <1> DEFINE flow == [NoRun EXCEPT !.pc = "creating", !.op = imRef.op + 1]
  <1>3. CASE /\ imRef' = [imRef EXCEPT !.clean = FALSE, !.stop = FALSE, !.cancel = FALSE, !.close = FALSE,
                                       !.released = FALSE, !.owner = w, !.op = @ + 1, !.picking = FALSE, !.tracked = 1]
             /\ imFlow' = [imFlow EXCEPT ![w] = flow]
             /\ imMixed' = (imMixed \/ \E v \in Flows : AtDrive(imFlow[v]))
    <2>1. imRef'.clean = FALSE /\ imRef'.owner = w
      BY <1>1, <1>3 DEF RefRecords
    <2>2. flow.lookups = 0
      BY DEF NoRun
    <2> HIDE DEF flow
    <2>3. imFlow'[w] = flow /\ \A v \in Flows : v # w => imFlow'[v] = imFlow[v]
      BY <1>1, <1>3 DEF FlowsTyped
    <2>4. ASSUME ~imMixed' PROVE OwnerFits(imFlow', imRef') /\ LookupsFit(imFlow')
      <3>1. ~imMixed /\ \A v \in Flows : ~AtDrive(imFlow[v])
        BY <1>3, <2>4
      <3>2. LookupsFit(imFlow)
        BY <3>1 DEF ImportHeld
      <3> QED BY <2>1, <2>2, <2>3, <3>1, <3>2 DEF OwnerFits, LookupsFit
    <2> QED BY <2>4 DEF ImportHeld
  <1> QED BY <1>2, <1>3 DEF ImportBegins

\* The end of the reads aborts the run, and with it its lookups.
LEMMA ReleasingHolds ==
  ASSUME ImportInv, ImportHeld, UNCHANGED imMixed, NEW w \in Flows, AtDrive(imFlow[w]),
         NEW why \in {"ok", "cancelled", "error"}, NEW ref \in RefRecords, ref.owner = imRef.owner, ref.clean = imRef.clean,
         Releasing(w, why, imFlow[w], ref)
  PROVE  ImportHeld'
  <1> DEFINE flow == [imFlow[w] EXCEPT !.pc = "releasing", !.why = why]
             next == [imFlow EXCEPT ![w] = flow]
  <1>1. imFlow[w] \in FlowRecords /\ imFlow \in FlowsTyped
    BY DEF ImportInv, ImportTyped, FlowsTyped
  <1>2. flow \in FlowRecords /\ flow.pc = "releasing" /\ flow.aborted = imFlow[w].aborted
    BY <1>1 DEF FlowRecords, FlowSteps
  <1>3. imFlow' = CleanedFlows(ref, next)
    BY DEF Releasing
  <1> HIDE DEF flow
  <1>4. next \in FlowsTyped /\ next[w] = flow /\ \A v \in Flows : v # w => next[v] = imFlow[v]
    BY <1>1, <1>2, FlowGoes
  <1> HIDE DEF next
  <1>5. ASSUME ~imMixed PROVE OwnerFits(imFlow', imRef') /\ LookupsFit(imFlow')
    <2>1. OwnerFits(imFlow, imRef) /\ LookupsFit(imFlow)
      BY <1>5 DEF ImportHeld
    <2>2. OwnerFits(next, ref)
      BY <1>2, <1>4, <2>1 DEF OwnerFits
    <2>3. AllAborted(imFlow') /\ AllRemain(imFlow', next) /\ \A v \in Flows : imFlow'[v].pc = next[v].pc
      BY <1>3, <1>4, <2>2, CleanedRemain, CleanedFlowsAre
    <2>4. AtDrive(imFlow'[w])
      BY <1>2, <1>4, <2>3 DEF AtDrive
    <2>5. ASSUME NEW v \in Flows, imFlow'[v].lookups # 0 PROVE imFlow'[v].pc = "transfer" \/ imFlow'[v].aborted
      <3>1. CASE v = w
        BY <2>3, <2>4, <3>1 DEF AllAborted
      <3>2. CASE v # w
        BY <1>4, <2>1, <2>3, <2>5, <3>2 DEF AllRemain, Remains, LookupsFit
      <3> QED BY <3>1, <3>2
    <2> QED BY <2>3, <2>5 DEF AllAborted, OwnerFits, LookupsFit
  <1> QED BY <1>5 DEF ImportHeld

LEMMA DriveHolds ==
  ASSUME ImportInv, ImportHeld, UNCHANGED imMixed, NEW w \in Flows,
         ImportCreated(w) \/ ImportStarted(w) \/ TransferReads(w) \/ LookupEnds(w) \/ UploadEnds(w)
  PROVE  ImportHeld'
  <1> DEFINE ref == [imRef EXCEPT !.tracked = Decremented(@)]
  <1>1. imRef \in RefRecords /\ imFlow \in FlowsTyped /\ imFlow[w] \in FlowRecords
    BY DEF ImportInv, ImportTyped, FlowsTyped
  <1>2. ref \in RefRecords /\ ref.owner = imRef.owner /\ ref.clean = imRef.clean
    <2>1. Decremented(imRef.tracked) \in Nat
      BY <1>1 DEF RefRecords, Decremented
    <2> QED BY <1>1, <2>1 DEF RefRecords
  <1> HIDE DEF ref
  <1>3. CASE /\ AtDrive(imFlow[w])
             /\ \E why \in {"ok", "cancelled", "error"} : Releasing(w, why, imFlow[w], ref) \/ Releasing(w, why, imFlow[w], imRef)
    BY <1>1, <1>2, <1>3, ReleasingHolds
  <1>4. ASSUME NEW flow \in FlowRecords, imFlow' = [imFlow EXCEPT ![w] = flow], imRef'.owner = imRef.owner,
               imRef'.clean = imRef.clean, AtDrive(flow) => AtDrive(imFlow[w]), flow.aborted = imFlow[w].aborted,
               flow.lookups # 0 => flow.pc = "transfer" \/ (imFlow[w].lookups # 0 /\ flow.pc = imFlow[w].pc)
        PROVE  ImportHeld'
    <2>1. imFlow'[w] = flow /\ \A v \in Flows : v # w => imFlow'[v] = imFlow[v]
      BY <1>1, <1>4, FlowGoes
    <2>2. ASSUME ~imMixed PROVE OwnerFits(imFlow', imRef') /\ LookupsFit(imFlow')
      <3>1. OwnerFits(imFlow, imRef) /\ LookupsFit(imFlow)
        BY <2>2 DEF ImportHeld
      <3> QED BY <1>4, <2>1, <3>1 DEF OwnerFits, LookupsFit
    <2> QED BY <2>2 DEF ImportHeld
  <1>5. CASE AtDrive(imFlow[w]) /\ imFlow' = [imFlow EXCEPT ![w] = NoRun] /\ imRef' = ref
    BY <1>1, <1>2, <1>5, EndedRemains, RemainingHolds
  <1>6. CASE ImportCreated(w) \/ ImportStarted(w)
    <2>1. imFlow[w].pc \in {"creating", "starting"} /\ AtDrive(imFlow[w])
      BY <1>6 DEF ImportCreated, ImportStarted, AtDrive
    <2>2. CASE /\ imRef' \in {[ref EXCEPT !.job = w, !.tracked = @ + 1], [ref EXCEPT !.job = w]}
               /\ \E step \in {"starting", "transfer"} : imFlow' = [imFlow EXCEPT ![w].pc = step]
      <3>1. imRef'.owner = imRef.owner /\ imRef'.clean = imRef.clean
        BY <1>2, <2>2 DEF RefRecords
      <3>2. PICK step \in {"starting", "transfer"} : imFlow' = [imFlow EXCEPT ![w].pc = step]
        BY <2>2
      <3> DEFINE flow == [imFlow[w] EXCEPT !.pc = step]
      <3>3. /\ flow \in FlowRecords /\ flow.pc = step /\ flow.aborted = imFlow[w].aborted /\ flow.lookups = imFlow[w].lookups
        BY <1>1 DEF FlowRecords, FlowSteps
      <3>4. imFlow' = [imFlow EXCEPT ![w] = flow]
        BY <3>2
      <3> HIDE DEF flow
      <3>5. AllRemain(imFlow', imFlow)
        BY <1>1, <2>1, <3>3, <3>4, OneRemains DEF Remains
      <3> QED BY <3>1, <3>5, RemainingHolds
    <2> QED BY <1>3, <1>5, <1>6, <2>1, <2>2 DEF ImportCreated, ImportStarted, ref
  <1>7. CASE TransferReads(w)
    <2>1. imFlow[w].pc = "transfer" /\ UNCHANGED imRef
      BY <1>7 DEF TransferReads
    <2>2. CASE \E n \in {0, 1} : imFlow' = [imFlow EXCEPT ![w] = [imFlow[w] EXCEPT !.sends = n]]
      <3>1. PICK n \in {0, 1} : imFlow' = [imFlow EXCEPT ![w] = [imFlow[w] EXCEPT !.sends = n]]
        BY <2>2
      <3> DEFINE flow == [imFlow[w] EXCEPT !.sends = n]
      <3>2. flow \in FlowRecords /\ flow.pc = "transfer" /\ flow.aborted = imFlow[w].aborted
        BY <1>1, <2>1 DEF FlowRecords
      <3> HIDE DEF flow
      <3> QED BY <1>4, <2>1, <3>1, <3>2 DEF flow, AtDrive
    <2>3. CASE imFlow' = [imFlow EXCEPT ![w] = [imFlow[w] EXCEPT !.lookups = 2]]
      <3> DEFINE flow == [imFlow[w] EXCEPT !.lookups = 2]
      <3>1. flow \in FlowRecords /\ flow.pc = "transfer" /\ flow.aborted = imFlow[w].aborted
        BY <1>1, <2>1 DEF FlowRecords
      <3> HIDE DEF flow
      <3> QED BY <1>4, <2>1, <2>3, <3>1 DEF flow, AtDrive
    <2> QED BY <1>7, <2>2, <2>3 DEF TransferReads
  <1>8. CASE LookupEnds(w)
    <2> DEFINE flow == [imFlow[w] EXCEPT !.lookups = @ - 1]
    <2>1. /\ flow \in FlowRecords /\ flow.pc = imFlow[w].pc /\ flow.aborted = imFlow[w].aborted /\ imFlow[w].lookups # 0
      BY <1>1, <1>8 DEF FlowRecords, LookupEnds
    <2>2. imFlow' = [imFlow EXCEPT ![w] = flow] /\ UNCHANGED imRef
      BY <1>8 DEF LookupEnds
    <2> HIDE DEF flow
    <2> QED BY <1>4, <2>1, <2>2 DEF AtDrive
  <1>9. CASE UploadEnds(w)
    BY <1>3, <1>9 DEF UploadEnds, AtDrive
  <1> QED BY <1>6, <1>7, <1>8, <1>9

LEMMA ReleasedHolds ==
  ASSUME ImportInv, ImportHeld, UNCHANGED imMixed, NEW w \in Flows, UsbReleased(w) \/ ReleaseFails(w)
  PROVE  ImportHeld'
  <1> DEFINE ended == [imFlow EXCEPT ![w] = FlowEnded(imFlow[w])]
             ref == [imRef EXCEPT !.released = TRUE]
  <1>1. /\ imRef \in RefRecords /\ imFlow \in FlowsTyped /\ imFlow[w] \in FlowRecords /\ imFlow[w].pc = "releasing"
    BY DEF ImportInv, ImportTyped, FlowsTyped, UsbReleased, ReleaseFails
  <1>2. ended \in FlowsTyped /\ AllRemain(ended, imFlow)
    BY <1>1, RunEnded, EndedRemains
  <1>3. ref \in RefRecords /\ ref.owner = imRef.owner /\ ref.clean = imRef.clean
    BY <1>1 DEF RefRecords
  <1>4. \/ DeleteCloudWork(ref, ended, "usb_released", imDialog)
        \/ imRef' = [ref EXCEPT !.cloud = w] /\ imFlow' = [imFlow EXCEPT ![w].pc = "queuing"]
        \/ imRef' \in {ref, imRef} /\ imFlow' = ended
        \/ UNCHANGED imRef /\ imFlow' = [imFlow EXCEPT ![w].why = "cancelled"]
    BY DEF UsbReleased, ReleaseFails
  <1> HIDE DEF ended, ref
  <1>5. CASE DeleteCloudWork(ref, ended, "usb_released", imDialog)
    <2>1. ASSUME ~imMixed PROVE OwnerFits(ended, ref) /\ LookupsFit(ended)
      BY <1>2, <1>3, <2>1, RemainingFit DEF ImportHeld
    <2> QED BY <1>2, <1>3, <1>5, <2>1, DeleteHolds DEF ImportHeld
  <1>6. CASE imRef' = [ref EXCEPT !.cloud = w] /\ imFlow' = [imFlow EXCEPT ![w].pc = "queuing"]
    <2>1. imRef'.owner = imRef.owner /\ imRef'.clean = imRef.clean
      BY <1>3, <1>6 DEF RefRecords
    <2> DEFINE flow == [imFlow[w] EXCEPT !.pc = "queuing"]
    <2>2. flow \in FlowRecords /\ flow.pc = "queuing" /\ flow.aborted = imFlow[w].aborted /\ flow.lookups = imFlow[w].lookups
      BY <1>1 DEF FlowRecords, FlowSteps
    <2>3. imFlow' = [imFlow EXCEPT ![w] = flow]
      BY <1>6
    <2> HIDE DEF flow
    <2>4. AllRemain(imFlow', imFlow)
      BY <1>1, <2>2, <2>3, OneRemains DEF Remains, AtDrive
    <2> QED BY <2>1, <2>4, RemainingHolds
  <1>7. CASE imRef' \in {ref, imRef} /\ imFlow' = ended
    BY <1>2, <1>3, <1>7, RemainingHolds
  <1>8. CASE UNCHANGED imRef /\ imFlow' = [imFlow EXCEPT ![w].why = "cancelled"]
    <2> DEFINE flow == [imFlow[w] EXCEPT !.why = "cancelled"]
    <2>1. /\ flow \in FlowRecords /\ flow.pc = imFlow[w].pc /\ flow.aborted = imFlow[w].aborted
          /\ flow.lookups = imFlow[w].lookups
      BY <1>1 DEF FlowRecords
    <2>2. imFlow' = [imFlow EXCEPT ![w] = flow]
      BY <1>8
    <2> HIDE DEF flow
    <2>3. AllRemain(imFlow', imFlow)
      BY <1>1, <2>1, <2>2, OneRemains DEF Remains, AtDrive
    <2> QED BY <1>8, <2>3, RemainingHolds
  <1> QED BY <1>4, <1>5, <1>6, <1>7, <1>8

LEMMA ParsingHolds ==
  ASSUME ImportInv, ImportHeld, NEW w \in Flows,
         \/ ParsingCut(w)
         \/ UNCHANGED imMixed /\ (ParsingQueued(w) \/ ParsingPolled(w) \/ ParsingTotals(w))
  PROVE  ImportHeld'
  <1> DEFINE ended == [imFlow EXCEPT ![w] = FlowEnded(imFlow[w])]
  <1>1. /\ imRef \in RefRecords /\ imFlow \in FlowsTyped /\ imFlow[w] \in FlowRecords
        /\ imFlow[w].pc \in {"queuing", "polling", "totals"} /\ imMixed \in BOOLEAN
    BY DEF ImportInv, ImportTyped, FlowsTyped, ParsingCut, ParsingQueued, ParsingPolled, ParsingTotals
  <1>2. CASE ParsingCut(w)
    <2>1. ended \in FlowsTyped /\ AllRemain(ended, imFlow)
      BY <1>1, RunEnded, EndedRemains
    <2>2. /\ DeleteCloudWork(imRef, ended, imPhase, imDialog) \/ (imFlow' = ended /\ UNCHANGED imRef)
          /\ imMixed' = (imMixed \/ DeletesForAnother(w))
      BY <1>2 DEF ParsingCut
    <2> HIDE DEF ended
    <2>3. ASSUME ~imMixed' PROVE OwnerFits(imFlow', imRef') /\ LookupsFit(imFlow')
      <3>1. OwnerFits(ended, imRef) /\ LookupsFit(ended)
        BY <2>1, <2>2, <2>3, RemainingFit DEF ImportHeld
      <3> QED BY <1>1, <2>1, <2>2, <3>1, DeleteHolds
    <2> QED BY <2>3 DEF ImportHeld
  <1>3. CASE UNCHANGED imMixed /\ (ParsingQueued(w) \/ ParsingPolled(w) \/ ParsingTotals(w))
    <2>1. imRef'.owner = imRef.owner /\ imRef'.clean = imRef.clean
      BY <1>1, <1>3 DEF ParsingQueued, ParsingPolled, ParsingTotals, ParsingEnds, RefRecords
    <2>2. \/ imFlow' = [imFlow EXCEPT ![w] = NoRun]
          \/ \E step \in {"polling", "totals"} : imFlow' = [imFlow EXCEPT ![w].pc = step]
      BY <1>3 DEF ParsingQueued, ParsingPolled, ParsingTotals, ParsingEnds
    <2>3. CASE imFlow' = [imFlow EXCEPT ![w] = NoRun]
      BY <1>1, <1>3, <2>1, <2>3, EndedRemains, RemainingHolds
    <2>4. CASE \E step \in {"polling", "totals"} : imFlow' = [imFlow EXCEPT ![w].pc = step]
      <3>1. PICK step \in {"polling", "totals"} : imFlow' = [imFlow EXCEPT ![w].pc = step]
        BY <2>4
      <3> DEFINE flow == [imFlow[w] EXCEPT !.pc = step]
      <3>2. flow \in FlowRecords /\ flow.pc = step /\ flow.aborted = imFlow[w].aborted /\ flow.lookups = imFlow[w].lookups
        BY <1>1 DEF FlowRecords, FlowSteps
      <3>3. imFlow' = [imFlow EXCEPT ![w] = flow]
        BY <3>1
      <3> HIDE DEF flow
      <3>4. AllRemain(imFlow', imFlow)
        BY <1>1, <3>2, <3>3, OneRemains DEF Remains, AtDrive
      <3> QED BY <1>3, <2>1, <3>4, RemainingHolds
    <2> QED BY <2>2, <2>3, <2>4
  <1> QED BY <1>2, <1>3

LEMMA ImportHeldKept ==
  /\ ImportInit => ImportHeld
  /\ ImportInv /\ ImportHeld /\ [ImportNext]_importVars => ImportHeld'
  <1>1. ASSUME ImportInit PROVE ImportHeld
    <2>1. \A w \in Flows : imFlow[w] = NoRun
      BY <1>1 DEF ImportInit
    <2> QED BY <2>1, FreshIs DEF ImportHeld, OwnerFits, LookupsFit, AtDrive
  <1>2. ASSUME ImportInv, ImportHeld, [ImportNext]_importVars PROVE ImportHeld'
    <2>1. CASE UNCHANGED importVars
      BY <1>2, <2>1 DEF importVars, ImportHeld
    <2>2. ASSUME NEW w \in Flows, ImportBegins(w) \/ ParsingCut(w) PROVE ImportHeld'
      BY <1>2, <2>2, BeginsHolds, ParsingHolds
    <2>3. CASE ImportStep /\ UNCHANGED imMixed
      <3>1. ASSUME ImportFlowStep PROVE ImportHeld'
        BY <1>2, <2>3, <3>1, DriveHolds, ReleasedHolds, ParsingHolds DEF ImportFlowStep
      <3> QED BY <1>2, <2>3, <3>1, UserHolds DEF ImportStep
    <2> QED BY <1>2, <2>1, <2>2, <2>3 DEF ImportNext
  <1> QED BY <1>1, <1>2

LEMMA ImportInvMeans == ImportInv /\ ImportHeld => ReleaseIsReal
  <1> SUFFICES ASSUME ImportInv, ImportHeld, ~imMixed, imRef.released, NEW w \in Flows
               PROVE  /\ imFlow[w].pc \notin {"creating", "starting", "transfer"} /\ imFlow[w].sends = 0
                      /\ imFlow[w].lookups > 0 => imFlow[w].aborted
    BY DEF ReleaseIsReal
  <1>1. ~ReadsDrive(imFlow[w]) /\ SendsFit(imFlow) /\ LookupsFit(imFlow)
    BY DEF ImportInv, ImportHeld, RunsFit
  <1>2. imFlow[w].lookups \in {0, 1, 2}
    BY DEF ImportInv, ImportTyped, FlowsTyped, FlowRecords
  <1> QED BY <1>1, <1>2 DEF ReadsDrive, SendsFit, LookupsFit

\* SupersededIsSilent of one step.
SilentRun(w) ==
  /\ imFlow[w].pc # "none" /\ imFlow[w].op # imRef.op
  /\ imFlow'[w].pc # imFlow[w].pc /\ imRef'.op = imRef.op /\ ~imRef.cancel /\ ~imMixed
  => imPhase' = imPhase

\* What resets moves the operation on, and no delete changes where a run stands.
LEMMA DeletesQuietly ==
  ASSUME NEW ref \in RefRecords, NEW flows \in FlowsTyped, NEW phase, NEW dialog, DeleteCloudWork(ref, flows, phase, dialog)
  PROVE  imRef'.op # ref.op \/ \A w \in Flows : imFlow'[w].pc = flows[w].pc
  <1>1. ref.op \in Nat /\ ref.cloud \in Flows \cup {NoFlow}
    BY DEF RefRecords
  <1>2. CASE imFlow' = flows
    BY <1>2
  <1>3. CASE ResetAndClose(ref, flows, dialog)
    <2>1. imRef'.op = ref.op + 1
      BY <1>3 DEF ResetAndClose, FreshRef
    <2> QED BY <1>1, <2>1
  <1>4. CASE imFlow' = Cutting(flows, ref.cloud)
    BY <1>1, <1>4, CutFlows
  <1> QED BY <1>2, <1>3, <1>4 DEF DeleteCloudWork

LEMMA ConfirmedSilent ==
  ASSUME ImportInv, NEW phase, NEW ref \in RefRecords, NEW pause, Confirmed(phase, ref, pause), ref.op = imRef.op
  PROVE  imRef'.op # imRef.op \/ \A w \in Flows : imFlow'[w].pc = imFlow[w].pc
  <1> DEFINE released == [ref EXCEPT !.released = TRUE]
  <1>1. imFlow \in FlowsTyped
    BY DEF ImportInv, ImportTyped
  <1>2. released \in RefRecords /\ released.op = imRef.op /\ released.cloud = ref.cloud /\ ref.cloud \in Flows \cup {NoFlow}
    BY DEF RefRecords
  <1>3. \/ DeleteCloudWork(released, imFlow, imPhase, NoDialog) \/ DeleteCloudWork(ref, imFlow, imPhase, NoDialog)
        \/ PauseCloudWork(released) \/ imFlow' = CleanedFlows(ref, imFlow)
    BY DEF Confirmed
  <1> HIDE DEF released
  <1>4. CASE PauseCloudWork(released)
    BY <1>1, <1>2, <1>4, CutFlows DEF PauseCloudWork
  <1>5. CASE imFlow' = CleanedFlows(ref, imFlow)
    BY <1>1, <1>5, CleanedFlowsAre
  <1>6. CASE DeleteCloudWork(released, imFlow, imPhase, NoDialog) \/ DeleteCloudWork(ref, imFlow, imPhase, NoDialog)
    BY <1>1, <1>2, <1>6, DeletesQuietly
  <1> QED BY <1>3, <1>4, <1>5, <1>6

\* A superseded run is neither at the drive nor in a parse loop that speaks.
LEMMA SupersededRest ==
  ASSUME ImportInv, NEW w \in Flows, imFlow[w].op # imRef.op, ~imMixed
  PROVE  ~AtDrive(imFlow[w]) /\ ~Parses(imFlow[w])
  BY DEF ImportInv, RunsFit

\* The runs that reach the screen.
LEMMA FlowSilent ==
  ASSUME ImportInv, ImportFlowStep, NEW w \in Flows
  PROVE  SilentRun(w)
  <1> SUFFICES ASSUME imFlow[w].op # imRef.op, ~imRef.cancel, ~imMixed, imPhase' # imPhase
               PROVE  imFlow'[w].pc = imFlow[w].pc
    BY DEF SilentRun
  <1>1. imFlow \in FlowsTyped /\ ~AtDrive(imFlow[w]) /\ ~Parses(imFlow[w])
    BY SupersededRest DEF ImportInv, ImportTyped
  <1>2. ASSUME NEW v \in Flows, UsbReleased(v) PROVE imFlow'[w].pc = imFlow[w].pc
    <2>1. v # w
      BY <1>1, <1>2 DEF UsbReleased, AtDrive
    <2> QED BY <1>1, <1>2, <2>1 DEF UsbReleased, FlowsTyped
  <1>3. ASSUME NEW v \in Flows, ReleaseFails(v) PROVE imFlow'[w].pc = imFlow[w].pc
    <2>1. v # w
      BY <1>1, <1>3 DEF ReleaseFails, AtDrive
    <2> QED BY <1>1, <1>3, <2>1 DEF ReleaseFails, FlowsTyped
  <1>4. ASSUME NEW v \in Flows, ParsingQueued(v) \/ ParsingPolled(v) \/ ParsingTotals(v) PROVE imFlow'[w].pc = imFlow[w].pc
    <2>1. v # w
      BY <1>1, <1>4 DEF ParsingQueued, ParsingPolled, ParsingTotals, Parses
    <2>2. \/ imFlow' = [imFlow EXCEPT ![v] = NoRun]
          \/ imFlow' = [imFlow EXCEPT ![v].pc = "polling"] \/ imFlow' = [imFlow EXCEPT ![v].pc = "totals"]
      BY <1>4 DEF ParsingQueued, ParsingPolled, ParsingTotals, ParsingEnds
    <2> QED BY <1>1, <2>1, <2>2 DEF FlowsTyped
  <1>5. PICK v \in Flows : UsbReleased(v) \/ ReleaseFails(v) \/ ParsingQueued(v) \/ ParsingPolled(v) \/ ParsingTotals(v)
    BY DEF ImportFlowStep, ImportCreated, ImportStarted, TransferReads, LookupEnds, UploadEnds
  <1> QED BY <1>2, <1>3, <1>4, <1>5

LEMMA SilentHolds ==
  ASSUME ImportInv, [ImportNext]_importVars
  PROVE  [\A w \in Flows : SilentRun(w)]_importVars
  <1> SUFFICES ASSUME NEW w \in Flows, ImportNext PROVE SilentRun(w)
    BY DEF importVars
  <1>1. imRef.op \in Nat /\ imRef \in RefRecords
    BY DEF ImportInv, ImportTyped, RefRecords
  <1>2. ASSUME NEW v \in Flows, ImportBegins(v) \/ ParsingCut(v) PROVE SilentRun(w)
    <2>1. CASE imPhase' = imPhase \/ imRef.cancel
      BY <2>1 DEF SilentRun
    <2>2. CASE imRef'.op = imRef.op + 1
      BY <1>1, <2>2 DEF SilentRun
    <2> QED BY <1>1, <1>2, <2>1, <2>2 DEF ImportBegins, ParsingCut, RefRecords
  <1>3. ASSUME ExecuteConfirmedHardDelete \/ ConfirmAbort PROVE SilentRun(w)
    <2>1. PICK stop \in BOOLEAN, close \in BOOLEAN, phase \in {imPhase, imDialog.seen}, pause \in BOOLEAN :
            Confirmed(phase, [imRef EXCEPT !.cancel = stop, !.close = close], pause)
      <3>1. CASE ExecuteConfirmedHardDelete
        <4>1. (imDialog.intent = "close") \in BOOLEAN
          OBVIOUS
        <4> QED BY <3>1, <4>1 DEF ExecuteConfirmedHardDelete
      <3>2. CASE ConfirmAbort
        <4>1. {imDialog.intent # "pause", imDialog.intent = "close", imDialog.intent # "delete"} \subseteq BOOLEAN
          OBVIOUS
        <4> QED BY <3>2, <4>1 DEF ConfirmAbort
      <3> QED BY <1>3, <3>1, <3>2
    <2> DEFINE ref == [imRef EXCEPT !.cancel = stop, !.close = close]
    <2>2. ref \in RefRecords /\ ref.op = imRef.op
      BY <1>1 DEF RefRecords
    <2> HIDE DEF ref
    <2>3. imRef'.op # imRef.op \/ imFlow'[w].pc = imFlow[w].pc
      BY <2>1, <2>2, ConfirmedSilent DEF ref
    <2> QED BY <2>3 DEF SilentRun
  <1>4. CASE UNCHANGED imPhase \/ UNCHANGED imFlow \/ imRef'.op = imRef.op + 1
    BY <1>1, <1>4 DEF SilentRun
  <1>5. ASSUME \/ DeleteAnswered \/ DeletePolled \/ PauseAnswered \/ UsbSourceAsked \/ UsbSourceSelected
               \/ FolderChosen \/ KeepGoing \/ ContinueInBackground \/ CloseAndReset \/ BeforeUnload \/ Reopen \/ WorkerMoves
               \/ \E intent \in {"pause", "delete", "close"} : OpenAbortDialog(intent)
               \/ \E v \in Flows : ImportPressed(v)
        PROVE  UNCHANGED imPhase \/ UNCHANGED imFlow \/ imRef'.op = imRef.op + 1
    <2>1. ASSUME ResetAndClose(imRef, imFlow, imDialog) PROVE imRef'.op = imRef.op + 1
      BY <2>1 DEF ResetAndClose, FreshRef
    <2>2. ASSUME UsbSourceAsked PROVE imRef'.op = imRef.op + 1
      <3> DEFINE later == imRef.op + 1
      <3>1. imRef' = [imRef EXCEPT !.op = later, !.picking = TRUE]
        BY <2>2 DEF UsbSourceAsked
      <3> QED BY <1>1, <3>1 DEF RefRecords
    <2> QED BY <1>5, <2>1, <2>2 DEF DeleteAnswered, DeletePolled, PauseAnswered, CloudCallEnds, UsbSourceSelected, FolderChosen, KeepGoing, ContinueInBackground,
                              CloseAndReset, BeforeUnload, Reopen, WorkerMoves, OpenAbortDialog, ImportPressed
  <1> QED BY <1>2, <1>3, <1>4, <1>5, FlowSilent DEF ImportNext, ImportStep

\* The sets of ImportTypeOK that the dialog and the backend need, by name.
Dialogs == [kind : {"none", "abort", "delete"}, intent : {"pause", "delete", "close"}, seen : Phases]
CloudCalls == [kind : {"none", "delete", "pause"}, step : {"none", "sent", "polling", "settled"}]
JobStates == {"none", "created", "running", "paused", "interrupted", "finished", "deleted"}

ScreenTyped == imPhase \in Phases /\ imOpen \in BOOLEAN /\ imDialog \in Dialogs /\ imCall \in CloudCalls
JobsTyped == imJob \in [Flows -> JobStates]

\* Operations are counted up to the bound, and at most two requests are tracked: an answer
\* takes one away before the next one is counted.
Counted(ref, flows) ==
  /\ ref.op <= MaxOperations /\ ref.tracked <= 2 /\ \A w \in Flows : flows[w].op <= MaxOperations

ImportRest == ScreenTyped /\ JobsTyped /\ Counted(imRef, imFlow)

LEMMA ImportConstants ==
  /\ MaxOperations \in Nat /\ NoFlow \notin Flows /\ NoDialog \in Dialogs /\ NoCloudCall \in CloudCalls
  /\ "idle" \in Phases
  BY ImportAssumption DEF NoDialog, Dialogs, NoCloudCall, CloudCalls, Phases

\* Runs whose operation stays, or ends, are counted as before.
LEMMA StillCounted ==
  ASSUME NEW ref, NEW flows, NEW next, NEW later, Counted(ref, flows), later.op = ref.op, later.tracked = ref.tracked,
         \A w \in Flows : next[w].op \in {0, flows[w].op}
  PROVE  Counted(later, next)
  BY ImportConstants DEF Counted

LEMMA ResetTyped ==
  ASSUME NEW ref \in RefRecords, NEW flows \in FlowsTyped, NEW dialog \in Dialogs, Counted(ref, flows),
         ResetAndClose(ref, flows, dialog)
  PROVE  ScreenTyped' /\ Counted(imRef', imFlow')
  <1> DEFINE clean == CleanedFlows(ref, flows)
  <1>1. /\ imRef' = [FreshRef EXCEPT !.op = ref.op + 1] /\ imFlow' = Cutting(clean, ref.cloud) /\ imPhase' = "idle"
        /\ imCall' = NoCloudCall /\ imDialog' \in {dialog, NoDialog} /\ imOpen' = FALSE /\ ref.op < MaxOperations
    BY DEF ResetAndClose
  <1>2. clean \in FlowsTyped /\ \A v \in Flows : clean[v].op = flows[v].op
    BY CleanedFlowsAre
  <1> HIDE DEF clean
  <1>3. \A v \in Flows : imFlow'[v].op = flows[v].op
    <2>1. ref.cloud \in Flows \cup {NoFlow}
      BY DEF RefRecords
    <2> QED BY <1>1, <1>2, <2>1, CutFlows
  <1>4. imRef'.op = ref.op + 1 /\ imRef'.tracked = 0 /\ ref.op \in Nat
    BY <1>1 DEF FreshRef, RefRecords
  <1>5. Counted(imRef', imFlow')
    BY <1>1, <1>3, <1>4, ImportConstants DEF Counted
  <1> QED BY <1>1, <1>5, ImportConstants DEF ScreenTyped

LEMMA DeleteTyped ==
  ASSUME NEW ref \in RefRecords, NEW flows \in FlowsTyped, NEW phase \in Phases, NEW dialog \in Dialogs, ScreenTyped,
         Counted(ref, flows), DeleteCloudWork(ref, flows, phase, dialog)
  PROVE  ScreenTyped' /\ Counted(imRef', imFlow')
  <1>1. CASE imPhase' = phase /\ imRef' = ref /\ imFlow' = flows /\ imDialog' = dialog /\ UNCHANGED <<imCall, imOpen>>
    BY <1>1 DEF ScreenTyped
  <1>2. CASE ResetAndClose(ref, flows, dialog)
    BY <1>2, ResetTyped
  <1>3. CASE /\ imFlow' = Cutting(flows, ref.cloud) /\ imRef' = [ref EXCEPT !.cloud = NoFlow] /\ imDialog' = dialog
             /\ imCall' = [kind |-> "delete", step |-> IF ref.job = NoFlow THEN "settled" ELSE "sent"]
             /\ imPhase' \in {"cancelled", "deleting_import"} /\ UNCHANGED imOpen
    <2>1. ref.cloud \in Flows \cup {NoFlow} /\ imRef'.op = ref.op /\ imRef'.tracked = ref.tracked
      BY <1>3 DEF RefRecords
    <2>2. Counted(imRef', imFlow')
      <3>1. \A v \in Flows : imFlow'[v].op = flows[v].op
        BY <1>3, <2>1, CutFlows
      <3> QED BY <2>1, <3>1, StillCounted
    <2>3. imCall' \in CloudCalls /\ imPhase' \in Phases
      BY <1>3 DEF CloudCalls, Phases
    <2> QED BY <1>3, <2>2, <2>3 DEF ScreenTyped
  <1> QED BY <1>1, <1>2, <1>3 DEF DeleteCloudWork

LEMMA CallsTyped ==
  ASSUME ImportInv, ImportRest, DeleteAnswered \/ DeletePolled \/ PauseAnswered
  PROVE  ImportRest'
  <1>1. imRef \in RefRecords /\ imFlow \in FlowsTyped /\ ScreenTyped /\ JobsTyped /\ Counted(imRef, imFlow)
    BY DEF ImportInv, ImportTyped, ImportRest
  <1>2. ASSUME NEW phase \in Phases, NEW call \in CloudCalls, CloudCallEnds(phase, call)
        PROVE  ScreenTyped' /\ Counted(imRef', imFlow')
    <2>1. CASE ResetAndClose(imRef, imFlow, imDialog)
      BY <1>1, <2>1, ResetTyped DEF ScreenTyped
    <2>2. CASE imPhase' = phase /\ imCall' = call /\ UNCHANGED <<imOpen, imDialog, imRef, imFlow>>
      BY <1>1, <2>2 DEF ScreenTyped
    <2> QED BY <1>2, <2>1, <2>2 DEF CloudCallEnds
  <1>3. {"cancelled", "failed", "completed", "paused"} \subseteq Phases
    BY DEF Phases
  <1>4. CASE DeleteAnswered \/ DeletePolled
    <2>1. [imCall EXCEPT !.step = "polling"] \in CloudCalls /\ [imCall EXCEPT !.step = "settled"] \in CloudCalls
      BY <1>1 DEF ScreenTyped, CloudCalls
    <2>2. \/ /\ UNCHANGED <<imPhase, imOpen, imDialog, imRef, imFlow>> /\ imCall' = [imCall EXCEPT !.step = "polling"]
          \/ \E phase \in {"cancelled", "failed"} : CloudCallEnds(phase, [imCall EXCEPT !.step = "settled"])
      BY <1>4 DEF DeleteAnswered, DeletePolled
    <2>3. JobsTyped'
      <3>1. imJob' \in {imJob, [imJob EXCEPT ![imRef.job] = "deleted"]}
        BY <1>4 DEF DeleteAnswered, DeletePolled
      <3> QED BY <1>1, <3>1 DEF JobsTyped, JobStates
    <2>4. ScreenTyped' /\ Counted(imRef', imFlow')
      <3>1. CASE UNCHANGED <<imPhase, imOpen, imDialog, imRef, imFlow>> /\ imCall' = [imCall EXCEPT !.step = "polling"]
        BY <1>1, <2>1, <3>1 DEF ScreenTyped
      <3>2. CASE \E phase \in {"cancelled", "failed"} : CloudCallEnds(phase, [imCall EXCEPT !.step = "settled"])
        BY <1>2, <1>3, <2>1, <3>2
      <3> QED BY <2>2, <3>1, <3>2
    <2> QED BY <2>3, <2>4 DEF ImportRest
  <1>5. CASE PauseAnswered
    <2> DEFINE job == imRef.job
               stopped == IF imJob[job] = "running" THEN "paused" ELSE imJob[job]
    <2>1. /\ imJob' \in {imJob, [imJob EXCEPT ![job] = stopped]}
          /\ \E phase \in {"completed", "paused", "failed"} : CloudCallEnds(phase, NoCloudCall)
      BY <1>5 DEF PauseAnswered
    <2>2. job \in Flows => stopped \in JobStates
      BY <1>1 DEF JobsTyped, JobStates
    <2> HIDE DEF stopped, job
    <2>3. [imJob EXCEPT ![job] = stopped] \in [Flows -> JobStates]
      BY <1>1, <2>2 DEF JobsTyped
    <2> QED BY <1>1, <1>2, <1>3, <2>1, <2>3, ImportConstants DEF ImportRest, JobsTyped
  <1> QED BY <1>4, <1>5

LEMMA ConfirmedTyped ==
  ASSUME ImportInv, ImportRest, NEW phase, NEW stop \in BOOLEAN, NEW close \in BOOLEAN, NEW pause,
         Confirmed(phase, [imRef EXCEPT !.cancel = stop, !.close = close], pause)
  PROVE  ImportRest'
  <1> DEFINE ref == [imRef EXCEPT !.cancel = stop, !.close = close]
             released == [ref EXCEPT !.released = TRUE]
             stopped == [ref EXCEPT !.stop = TRUE]
  <1>1. imFlow \in FlowsTyped /\ ScreenTyped /\ JobsTyped /\ Counted(imRef, imFlow) /\ NoDialog \in Dialogs
    BY ImportConstants DEF ImportInv, ImportTyped, ImportRest
  <1>2. ref \in RefRecords /\ ref.op = imRef.op /\ ref.tracked = imRef.tracked
    BY DEF ImportInv, ImportTyped, RefRecords
  <1>3. Confirmed(phase, ref, pause)
    OBVIOUS
  <1> HIDE DEF ref
  <1>4. /\ released \in RefRecords /\ released.op = imRef.op /\ released.tracked = imRef.tracked
        /\ released.cloud \in Flows \cup {NoFlow}
    BY <1>2 DEF RefRecords
  <1>5. /\ stopped \in RefRecords /\ stopped.op = imRef.op /\ stopped.tracked = imRef.tracked
    BY <1>2 DEF RefRecords
  <1>6. \/ PauseCloudWork(released) /\ imDialog' = NoDialog /\ UNCHANGED imOpen
        \/ DeleteCloudWork(released, imFlow, imPhase, NoDialog) \/ DeleteCloudWork(ref, imFlow, imPhase, NoDialog)
        \/ /\ imPhase' = "stopping_usb_reads" /\ imRef' = CleanedRef(stopped) /\ imFlow' = CleanedFlows(ref, imFlow)
           /\ imDialog' = NoDialog /\ UNCHANGED <<imCall, imOpen>>
    BY <1>3 DEF Confirmed
  <1>7. imJob' = imJob
    BY <1>3 DEF Confirmed
  <1> HIDE DEF released, stopped
  <1>8. Counted(ref, imFlow) /\ Counted(released, imFlow) /\ Counted(stopped, imFlow)
    BY <1>1, <1>2, <1>4, <1>5, StillCounted
  <1>9. CASE PauseCloudWork(released) /\ imDialog' = NoDialog /\ UNCHANGED imOpen
    <2>1. CASE imRef' = released /\ UNCHANGED <<imPhase, imFlow, imCall>>
      BY <1>1, <1>7, <1>8, <1>9, <2>1 DEF ImportRest, ScreenTyped, JobsTyped
    <2>2. CASE /\ imFlow' = Cutting(imFlow, released.cloud) /\ imRef' = [released EXCEPT !.cloud = NoFlow]
               /\ imCall' = [kind |-> "pause", step |-> IF released.job = NoFlow THEN "settled" ELSE "sent"]
               /\ imPhase' \in {"paused", "pausing_cloud_work"}
      <3>1. imRef'.op = released.op /\ imRef'.tracked = released.tracked
        BY <1>4, <2>2 DEF RefRecords
      <3>2. Counted(imRef', imFlow')
        <4>1. \A v \in Flows : imFlow'[v].op = imFlow[v].op
          BY <1>1, <1>4, <2>2, CutFlows
        <4> QED BY <1>8, <3>1, <4>1, StillCounted
      <3>3. imCall' \in CloudCalls /\ imPhase' \in Phases
        BY <2>2 DEF CloudCalls, Phases
      <3> QED BY <1>1, <1>7, <1>9, <3>2, <3>3 DEF ImportRest, ScreenTyped, JobsTyped
    <2> QED BY <1>9, <2>1, <2>2 DEF PauseCloudWork
  <1>10. ASSUME NEW r \in {ref, released}, DeleteCloudWork(r, imFlow, imPhase, NoDialog) PROVE ImportRest'
    <2>1. r \in RefRecords /\ Counted(r, imFlow) /\ imPhase \in Phases
      BY <1>1, <1>2, <1>4, <1>8 DEF ScreenTyped
    <2> QED BY <1>1, <1>7, <1>10, <2>1, DeleteTyped DEF ImportRest, JobsTyped
  <1>11. CASE /\ imPhase' = "stopping_usb_reads" /\ imRef' = CleanedRef(stopped) /\ imFlow' = CleanedFlows(ref, imFlow)
              /\ imDialog' = NoDialog /\ UNCHANGED <<imCall, imOpen>>
    <2>1. imRef'.op = stopped.op /\ imRef'.tracked = stopped.tracked
      BY <1>5, <1>11 DEF CleanedRef, RefRecords
    <2>2. Counted(imRef', imFlow')
      BY <1>1, <1>2, <1>8, <1>11, <2>1, CleanedFlowsAre, StillCounted
    <2>3. imPhase' \in Phases
      BY <1>11 DEF Phases
    <2> QED BY <1>1, <1>7, <1>11, <2>2, <2>3 DEF ImportRest, ScreenTyped, JobsTyped
  <1> QED BY <1>6, <1>9, <1>10, <1>11

LEMMA UserImportTyped ==
  ASSUME ImportInv, ImportRest,
         \/ ExecuteConfirmedHardDelete \/ ConfirmAbort \/ UsbSourceAsked \/ UsbSourceSelected
         \/ FolderChosen \/ KeepGoing \/ ContinueInBackground \/ CloseAndReset \/ BeforeUnload \/ Reopen \/ WorkerMoves
         \/ \E intent \in {"pause", "delete", "close"} : OpenAbortDialog(intent)
         \/ \E w \in Flows : ImportPressed(w)
  PROVE  ImportRest'
  <1>1. imRef \in RefRecords /\ imFlow \in FlowsTyped /\ ScreenTyped /\ JobsTyped /\ Counted(imRef, imFlow)
    BY DEF ImportInv, ImportTyped, ImportRest
  <1>2. CASE ExecuteConfirmedHardDelete \/ ConfirmAbort
    <2>1. {imDialog.intent # "pause", imDialog.intent = "close"} \subseteq BOOLEAN
      OBVIOUS
    <2> QED BY <1>2, <2>1, ConfirmedTyped DEF ExecuteConfirmedHardDelete, ConfirmAbort
  <1>3. CASE FolderChosen \/ ContinueInBackground
    <2>1. imRef'.op = imRef.op /\ imRef'.tracked = imRef.tracked /\ UNCHANGED <<imDialog, imFlow, imCall, imJob>>
          /\ imPhase' \in {imPhase, "database_selected", "idle"} /\ imOpen' \in {imOpen, FALSE}
      BY <1>1, <1>3 DEF FolderChosen, ContinueInBackground, RefRecords
    <2>2. Counted(imRef', imFlow')
      BY <1>1, <2>1, StillCounted
    <2> QED BY <1>1, <2>1, <2>2 DEF ImportRest, ScreenTyped, JobsTyped, Phases
  <1>4. CASE KeepGoing \/ Reopen
    BY <1>1, <1>4, ImportConstants DEF KeepGoing, Reopen, ImportRest, ScreenTyped, JobsTyped
  <1>5. CASE WorkerMoves
    <2>1. imJob' \in [Flows -> JobStates] /\ UNCHANGED <<imPhase, imOpen, imDialog, imRef, imFlow, imCall>>
      BY <1>1, <1>5 DEF WorkerMoves, JobsTyped, JobStates
    <2> QED BY <1>1, <2>1 DEF ImportRest, ScreenTyped, JobsTyped
  <1>6. CASE CloseAndReset
    BY <1>1, <1>6, ResetTyped DEF CloseAndReset, ScreenTyped, ImportRest, JobsTyped
  <1>7. CASE BeforeUnload
    <2> DEFINE stopped == [imRef EXCEPT !.stop = TRUE]
    <2>1. stopped \in RefRecords /\ stopped.op = imRef.op /\ stopped.tracked = imRef.tracked
      BY <1>1 DEF RefRecords
    <2>2. /\ imRef' = CleanedRef(stopped) /\ imFlow' = CleanedFlows(imRef, imFlow)
          /\ UNCHANGED <<imPhase, imOpen, imDialog, imCall, imJob>>
      BY <1>7 DEF BeforeUnload
    <2> HIDE DEF stopped
    <2>3. imRef'.op = imRef.op /\ imRef'.tracked = imRef.tracked
      BY <2>1, <2>2 DEF CleanedRef, RefRecords
    <2>4. Counted(imRef', imFlow')
      BY <1>1, <2>2, <2>3, CleanedFlowsAre, StillCounted
    <2> QED BY <1>1, <2>2, <2>4 DEF ImportRest, ScreenTyped, JobsTyped
  <1>8. ASSUME NEW intent \in {"pause", "delete", "close"}, OpenAbortDialog(intent) PROVE ImportRest'
    <2>1. imDialog' \in Dialogs
      BY <1>1, <1>8 DEF OpenAbortDialog, Dialogs, ScreenTyped
    <2> QED BY <1>1, <1>8, <2>1 DEF OpenAbortDialog, ImportRest, ScreenTyped, JobsTyped
  <1>9. ASSUME NEW w \in Flows, ImportPressed(w) PROVE ImportRest'
    <2>1. \A v \in Flows : imFlow'[v].op \in {0, imFlow[v].op}
      BY <1>1, <1>9 DEF ImportPressed, FlowsTyped, NoRun
    <2>2. Counted(imRef', imFlow')
      <3>1. imRef' = imRef
        BY <1>9 DEF ImportPressed
      <3> QED BY <1>1, <2>1, <3>1, StillCounted
    <2> QED BY <1>1, <1>9, <2>2 DEF ImportPressed, ImportRest, ScreenTyped, JobsTyped
  <1>10. CASE UsbSourceAsked
    <2> DEFINE later == imRef.op + 1
    <2>1. imRef' = [imRef EXCEPT !.op = later, !.picking = TRUE] /\ UNCHANGED <<imOpen, imDialog, imFlow, imCall, imJob>>
          /\ imPhase' = "scanning_usb" /\ imRef.op < MaxOperations
      BY <1>10 DEF UsbSourceAsked
    <2>2. imRef.op \in Nat
      BY <1>1 DEF RefRecords
    <2>3. imRef'.op = later /\ imRef'.tracked = imRef.tracked
      BY <1>1, <2>1 DEF RefRecords
    <2>4. Counted(imRef', imFlow')
      BY <1>1, <2>1, <2>2, <2>3, ImportConstants DEF Counted
    <2> QED BY <1>1, <2>1, <2>4 DEF ImportRest, ScreenTyped, JobsTyped, Phases
  <1>11. CASE UsbSourceSelected
    <2>1. imRef'.op = imRef.op /\ imRef'.tracked = imRef.tracked /\ UNCHANGED <<imOpen, imDialog, imFlow, imCall, imJob>>
          /\ imPhase' \in {"database_selected", "idle", "failed", "scanning_usb"}
      BY <1>1, <1>11 DEF UsbSourceSelected, RefRecords
    <2>2. Counted(imRef', imFlow')
      BY <1>1, <2>1, StillCounted
    <2> QED BY <1>1, <2>1, <2>2 DEF ImportRest, ScreenTyped, JobsTyped, Phases
  <1> QED BY <1>2, <1>3, <1>4, <1>5, <1>6, <1>7, <1>8, <1>9, <1>10, <1>11

LEMMA BeginsTyped ==
  ASSUME ImportInv, ImportRest, NEW w \in Flows, ImportBegins(w) PROVE ImportRest'
  <1>1. imRef \in RefRecords /\ imFlow \in FlowsTyped /\ ScreenTyped /\ JobsTyped /\ Counted(imRef, imFlow)
        /\ UNCHANGED <<imOpen, imDialog, imJob>>
    BY DEF ImportInv, ImportTyped, ImportRest, ImportBegins
  <1>2. CASE imFlow' = [imFlow EXCEPT ![w] = NoRun] /\ UNCHANGED <<imRef, imCall, imPhase>>
    <2>1. \A v \in Flows : imFlow'[v].op \in {0, imFlow[v].op}
      BY <1>1, <1>2, FreshIs DEF FlowsTyped
    <2>2. Counted(imRef', imFlow')
      BY <1>1, <1>2, <2>1, StillCounted
    <2> QED BY <1>1, <1>2, <2>2 DEF ImportRest, ScreenTyped, JobsTyped
  <1> DEFINE begun == [NoRun EXCEPT !.pc = "creating", !.op = imRef.op + 1]
  <1>3. CASE /\ imRef.op < MaxOperations
             /\ imRef' = [imRef EXCEPT !.clean = FALSE, !.stop = FALSE, !.cancel = FALSE, !.close = FALSE,
                                       !.released = FALSE, !.owner = w, !.op = @ + 1, !.picking = FALSE,
                                       !.tracked = 1]
             /\ imFlow' = [imFlow EXCEPT ![w] = begun]
             /\ imCall' = NoCloudCall /\ imPhase' = "uploading_usb_data"
    <2>1. imRef'.op = imRef.op + 1 /\ imRef'.tracked = 1 /\ imRef.op \in Nat
      BY <1>1, <1>3 DEF RefRecords
    <2>2. begun.op = imRef.op + 1
      BY DEF NoRun
    <2> HIDE DEF begun
    <2>3. imFlow'[w].op = imRef.op + 1 /\ \A v \in Flows : v # w => imFlow'[v] = imFlow[v]
      BY <1>1, <1>3, <2>2 DEF FlowsTyped
    <2>4. Counted(imRef', imFlow')
      BY <1>1, <1>3, <2>1, <2>3, ImportConstants DEF Counted
    <2>5. imPhase' \in Phases
      BY <1>3 DEF Phases
    <2> QED BY <1>1, <1>3, <2>4, <2>5, ImportConstants DEF ImportRest, ScreenTyped, JobsTyped
  <1> QED BY <1>2, <1>3 DEF ImportBegins

\* A run leaves the drive: the refs are cleaned, and operations stay.
LEMMA ReleasingTyped ==
  ASSUME ImportInv, ImportRest, NEW w \in Flows, NEW why \in {"ok", "cancelled", "error"}, NEW ref \in RefRecords,
         Counted(ref, imFlow), Releasing(w, why, imFlow[w], ref)
  PROVE  Counted(imRef', imFlow')
  <1> DEFINE flow == [imFlow[w] EXCEPT !.pc = "releasing", !.why = why]
             next == [imFlow EXCEPT ![w] = flow]
  <1>1. imFlow \in FlowsTyped /\ imFlow[w] \in FlowRecords
    BY DEF ImportInv, ImportTyped, FlowsTyped
  <1>2. flow \in FlowRecords /\ flow.op = imFlow[w].op
    BY <1>1 DEF FlowRecords, FlowSteps
  <1>3. imRef' = CleanedRef(ref) /\ imFlow' = CleanedFlows(ref, next)
    BY DEF Releasing
  <1> HIDE DEF flow
  <1>4. next \in FlowsTyped /\ \A v \in Flows : next[v].op = imFlow[v].op
    BY <1>1, <1>2 DEF FlowsTyped
  <1> HIDE DEF next
  <1>5. imRef'.op = ref.op /\ imRef'.tracked = ref.tracked
    BY <1>3 DEF CleanedRef, RefRecords
  <1>6. \A v \in Flows : imFlow'[v].op = imFlow[v].op
    BY <1>3, <1>4, CleanedFlowsAre
  <1> QED BY <1>5, <1>6, StillCounted

LEMMA AnsweredTyped ==
  ASSUME ImportInv, ImportRest, NEW w \in Flows, ImportCreated(w) \/ ImportStarted(w)
  PROVE  ImportRest'
  <1> DEFINE ref == [imRef EXCEPT !.tracked = Decremented(@)]
  <1>1. imRef \in RefRecords /\ imFlow \in FlowsTyped /\ ScreenTyped /\ JobsTyped /\ Counted(imRef, imFlow)
        /\ UNCHANGED <<imPhase, imOpen, imDialog, imCall>>
    BY DEF ImportInv, ImportTyped, ImportRest, ImportCreated, ImportStarted
  <1>2. imRef.tracked \in Nat /\ Decremented(imRef.tracked) \in Nat /\ Decremented(imRef.tracked) <= 1
    BY <1>1 DEF RefRecords, Decremented, Counted
  <1>3. ref \in RefRecords /\ ref.op = imRef.op /\ ref.tracked \in Nat /\ ref.tracked <= 1
    BY <1>1, <1>2 DEF RefRecords
  <1>4. JobsTyped'
    <2>1. imJob' \in {imJob, [imJob EXCEPT ![w] = "created"]}
      BY DEF ImportCreated, ImportStarted
    <2> QED BY <1>1, <2>1 DEF JobsTyped, JobStates
  <1> HIDE DEF ref
  <1>5. Counted(ref, imFlow)
    BY <1>1, <1>3 DEF Counted
  <1>6. Counted(imRef', imFlow')
    <2>1. CASE \E why \in {"ok", "cancelled", "error"} : Releasing(w, why, imFlow[w], ref)
      BY <1>3, <1>5, <2>1, ReleasingTyped
    <2>2. CASE imFlow' = [imFlow EXCEPT ![w] = NoRun] /\ imRef' = ref
      <3>1. \A v \in Flows : imFlow'[v].op \in {0, imFlow[v].op}
        BY <1>1, <2>2, FreshIs DEF FlowsTyped
      <3> QED BY <1>5, <2>2, <3>1, StillCounted
    <2>3. CASE /\ imRef' \in {[ref EXCEPT !.job = w, !.tracked = @ + 1], [ref EXCEPT !.job = w]}
               /\ \E step \in {"starting", "transfer"} : imFlow' = [imFlow EXCEPT ![w].pc = step]
      <3>1. imRef'.op = ref.op /\ imRef'.tracked \in {ref.tracked, ref.tracked + 1}
        BY <1>3, <2>3 DEF RefRecords
      <3>2. \A v \in Flows : imFlow'[v].op = imFlow[v].op
        BY <1>1, <2>3 DEF FlowsTyped, FlowRecords
      <3> QED BY <1>3, <1>5, <3>1, <3>2 DEF Counted
    <2> QED BY <2>1, <2>2, <2>3 DEF ImportCreated, ImportStarted, ref
  <1> QED BY <1>1, <1>4, <1>6 DEF ImportRest, ScreenTyped

LEMMA DriveTyped ==
  ASSUME ImportInv, ImportRest, NEW w \in Flows, TransferReads(w) \/ LookupEnds(w) \/ UploadEnds(w) \/ ReleaseFails(w)
  PROVE  ImportRest'
  <1>1. imRef \in RefRecords /\ imFlow \in FlowsTyped /\ ScreenTyped /\ JobsTyped /\ Counted(imRef, imFlow)
        /\ UNCHANGED <<imOpen, imDialog, imCall, imJob>> /\ imPhase' \in {imPhase, "failed"}
    BY DEF ImportInv, ImportTyped, ImportRest, TransferReads, LookupEnds, UploadEnds, ReleaseFails
  <1>2. Counted(imRef', imFlow')
    <2>1. CASE \E why \in {"ok", "cancelled", "error"} : Releasing(w, why, imFlow[w], imRef)
      BY <1>1, <2>1, ReleasingTyped
    <2>2. CASE UNCHANGED imRef /\ \A v \in Flows : imFlow'[v].op \in {0, imFlow[v].op}
      BY <1>1, <2>2, StillCounted
    <2>3. CASE TransferReads(w) \/ LookupEnds(w)
      <3>1. UNCHANGED imRef /\ \A v \in Flows : imFlow'[v].op = imFlow[v].op
        BY <1>1, <2>3 DEF TransferReads, LookupEnds, FlowsTyped, FlowRecords
      <3> QED BY <2>2, <3>1
    <2>4. CASE ReleaseFails(w)
      <3>1. CASE imFlow' = [imFlow EXCEPT ![w].why = "cancelled"]
        BY <1>1, <2>2, <2>4, <3>1 DEF ReleaseFails, FlowsTyped, FlowRecords
      <3>2. CASE imFlow' = [imFlow EXCEPT ![w] = FlowEnded(imFlow[w])]
        BY <1>1, <2>2, <2>4, <3>2 DEF ReleaseFails, FlowsTyped, FlowEnded, NoRun
      <3> QED BY <2>4, <3>1, <3>2 DEF ReleaseFails
    <2> QED BY <2>1, <2>3, <2>4 DEF UploadEnds
  <1> QED BY <1>1, <1>2 DEF ImportRest, ScreenTyped, JobsTyped, Phases

LEMMA ReleaseTyped ==
  ASSUME ImportInv, ImportRest, NEW w \in Flows, UsbReleased(w)
  PROVE  ImportRest'
  <1> DEFINE ended == [imFlow EXCEPT ![w] = FlowEnded(imFlow[w])]
             ref == [imRef EXCEPT !.released = TRUE]
  <1>1. imRef \in RefRecords /\ imFlow \in FlowsTyped /\ ScreenTyped /\ JobsTyped /\ Counted(imRef, imFlow)
        /\ UNCHANGED imJob /\ "usb_released" \in Phases /\ imDialog \in Dialogs
    BY DEF ImportInv, ImportTyped, ImportRest, ScreenTyped, UsbReleased, Phases
  <1>2. ended \in FlowsTyped /\ \A v \in Flows : ended[v].op \in {0, imFlow[v].op}
    BY <1>1, RunEnded DEF Fewer
  <1>3. ref \in RefRecords /\ ref.op = imRef.op /\ ref.tracked = imRef.tracked
    BY <1>1 DEF RefRecords
  <1>4. \/ DeleteCloudWork(ref, ended, "usb_released", imDialog)
        \/ /\ imRef' = [ref EXCEPT !.cloud = w] /\ imFlow' = [imFlow EXCEPT ![w].pc = "queuing"]
           /\ imPhase' = "parsing_cloud_data" /\ UNCHANGED <<imCall, imOpen, imDialog>>
        \/ /\ imPhase' \in {"failed", "usb_released"} /\ imRef' = ref /\ imFlow' = ended
           /\ UNCHANGED <<imCall, imOpen, imDialog>>
    BY DEF UsbReleased
  <1> HIDE DEF ended, ref
  <1>5. Counted(ref, ended) /\ Counted(ref, imFlow)
    BY <1>1, <1>2, <1>3, StillCounted
  <1>6. CASE DeleteCloudWork(ref, ended, "usb_released", imDialog)
    BY <1>1, <1>2, <1>3, <1>5, <1>6, DeleteTyped DEF ImportRest, JobsTyped
  <1>7. CASE /\ imRef' = [ref EXCEPT !.cloud = w] /\ imFlow' = [imFlow EXCEPT ![w].pc = "queuing"]
             /\ imPhase' = "parsing_cloud_data" /\ UNCHANGED <<imCall, imOpen, imDialog>>
    <2>1. imRef'.op = ref.op /\ imRef'.tracked = ref.tracked
      BY <1>3, <1>7 DEF RefRecords
    <2>2. \A v \in Flows : imFlow'[v].op = imFlow[v].op
      BY <1>1, <1>7 DEF FlowsTyped, FlowRecords
    <2>3. Counted(imRef', imFlow')
      BY <1>5, <2>1, <2>2, StillCounted
    <2> QED BY <1>1, <1>7, <2>3 DEF ImportRest, ScreenTyped, JobsTyped, Phases
  <1>8. CASE imPhase' \in {"failed", "usb_released"} /\ imRef' = ref /\ imFlow' = ended /\ UNCHANGED <<imCall, imOpen, imDialog>>
    BY <1>1, <1>5, <1>8 DEF ImportRest, ScreenTyped, JobsTyped, Phases
  <1> QED BY <1>4, <1>6, <1>7, <1>8

LEMMA ParsingTyped ==
  ASSUME ImportInv, ImportRest, NEW w \in Flows,
         ParsingCut(w) \/ ParsingQueued(w) \/ ParsingPolled(w) \/ ParsingTotals(w)
  PROVE  ImportRest'
  <1> DEFINE ended == [imFlow EXCEPT ![w] = FlowEnded(imFlow[w])]
  <1>1. imRef \in RefRecords /\ imFlow \in FlowsTyped /\ ScreenTyped /\ JobsTyped /\ Counted(imRef, imFlow)
        /\ imDialog \in Dialogs /\ imPhase \in Phases
    BY DEF ImportInv, ImportTyped, ImportRest, ScreenTyped
  <1>2. ended \in FlowsTyped /\ \A v \in Flows : ended[v].op \in {0, imFlow[v].op}
    BY <1>1, RunEnded DEF Fewer
  <1>3. imJob' \in [Flows -> JobStates]
    <2>1. \/ imJob' = imJob \/ imJob' = [imJob EXCEPT ![w] = IF @ = "created" THEN "running" ELSE @]
          \/ imJob' = [imJob EXCEPT ![w] = IF @ = "created" THEN "finished" ELSE @]
      BY DEF ParsingCut, ParsingQueued, ParsingPolled, ParsingTotals
    <2> QED BY <1>1, <2>1 DEF JobsTyped, JobStates
  <1>4. CASE ParsingCut(w)
    <2>1. \/ DeleteCloudWork(imRef, ended, imPhase, imDialog)
          \/ imFlow' = ended /\ UNCHANGED <<imPhase, imOpen, imDialog, imRef, imCall>>
      BY <1>4 DEF ParsingCut
    <2> HIDE DEF ended
    <2>2. Counted(imRef, ended)
      BY <1>1, <1>2, StillCounted
    <2> QED BY <1>1, <1>2, <1>3, <2>1, <2>2, DeleteTyped DEF ImportRest, ScreenTyped, JobsTyped
  <1>5. CASE ParsingQueued(w) \/ ParsingPolled(w) \/ ParsingTotals(w)
    <2>1. UNCHANGED <<imOpen, imDialog, imCall>>
      BY <1>5 DEF ParsingQueued, ParsingPolled, ParsingTotals
    <2>2. imPhase' \in {imPhase, "completed", "failed", "paused", "interrupted"}
      BY <1>5 DEF ParsingQueued, ParsingPolled, ParsingTotals, ParsingEnds, FailedUnlessLeft
    <2>3. imRef'.op = imRef.op /\ imRef'.tracked = imRef.tracked
      BY <1>1, <1>5 DEF ParsingQueued, ParsingPolled, ParsingTotals, ParsingEnds, RefRecords
    <2>4. \/ imFlow' = [imFlow EXCEPT ![w] = NoRun]
          \/ \E step \in {"polling", "totals"} : imFlow' = [imFlow EXCEPT ![w].pc = step]
      BY <1>5 DEF ParsingQueued, ParsingPolled, ParsingTotals, ParsingEnds
    <2>5. \A v \in Flows : imFlow'[v].op \in {0, imFlow[v].op}
      <3>1. CASE imFlow' = [imFlow EXCEPT ![w] = NoRun]
        BY <1>1, <3>1, FreshIs DEF FlowsTyped
      <3>2. CASE \E step \in {"polling", "totals"} : imFlow' = [imFlow EXCEPT ![w].pc = step]
        BY <1>1, <3>2 DEF FlowsTyped, FlowRecords
      <3> QED BY <2>4, <3>1, <3>2
    <2>6. Counted(imRef', imFlow')
      BY <1>1, <2>3, <2>5, StillCounted
    <2> QED BY <1>1, <1>3, <2>1, <2>2, <2>6 DEF ImportRest, ScreenTyped, JobsTyped, Phases
  <1> QED BY <1>4, <1>5

LEMMA ImportRestKept ==
  ASSUME ImportInv, ImportRest, [ImportNext]_importVars
  PROVE  ImportRest'
  <1>1. CASE UNCHANGED importVars
    BY <1>1 DEF importVars, ImportRest, ScreenTyped, JobsTyped, Counted
  <1>2. ASSUME NEW w \in Flows, ImportBegins(w) \/ ParsingCut(w) PROVE ImportRest'
    BY <1>2, BeginsTyped, ParsingTyped
  <1>3. CASE ImportStep
    <2>1. ASSUME ImportFlowStep PROVE ImportRest'
      BY <2>1, AnsweredTyped, DriveTyped, ReleaseTyped, ParsingTyped DEF ImportFlowStep
    <2>2. ASSUME DeleteAnswered \/ DeletePolled \/ PauseAnswered PROVE ImportRest'
      BY <2>2, CallsTyped
    <2>3. CASE \/ ExecuteConfirmedHardDelete \/ ConfirmAbort \/ UsbSourceAsked \/ UsbSourceSelected
               \/ FolderChosen \/ KeepGoing \/ ContinueInBackground \/ CloseAndReset \/ BeforeUnload \/ Reopen \/ WorkerMoves
               \/ \E intent \in {"pause", "delete", "close"} : OpenAbortDialog(intent)
               \/ \E w \in Flows : ImportPressed(w)
      BY <2>3, UserImportTyped
    <2> QED BY <1>3, <2>1, <2>2, <2>3 DEF ImportStep
  <1> QED BY <1>1, <1>2, <1>3 DEF ImportNext

LEMMA ImportTypesAre ==
  /\ ImportInit => ImportRest
  /\ ImportInv /\ ImportRest => ImportTypeOK
  <1>1. ASSUME ImportInit PROVE ImportRest
    <2>1. imFlow = [w \in Flows |-> NoRun] /\ imJob = [w \in Flows |-> "none"] /\ imRef = FreshRef
          /\ imPhase = "idle" /\ imOpen = TRUE /\ imDialog = NoDialog /\ imCall = NoCloudCall
      BY <1>1 DEF ImportInit
    <2>2. Counted(imRef, imFlow)
      BY <2>1, ImportConstants, FreshIs DEF Counted, FreshRef
    <2> QED BY <2>1, <2>2, ImportConstants DEF ImportRest, ScreenTyped, JobsTyped, JobStates
  <1>2. ASSUME ImportInv, ImportRest PROVE ImportTypeOK
    <2>1. imRef \in RefSet
      <3>1. imRef \in RefRecords /\ imRef.op <= MaxOperations /\ imRef.tracked <= 2
        BY <1>2 DEF ImportInv, ImportTyped, ImportRest, Counted
      <3>2. imRef.op \in 0 .. MaxOperations /\ imRef.tracked \in 0 .. 2
        BY <3>1, ImportConstants DEF RefRecords
      <3> QED BY <3>1, <3>2 DEF RefRecords, RefSet
    <2>2. imFlow \in [Flows -> FlowSet]
      <3>1. imFlow \in FlowsTyped /\ \A w \in Flows : imFlow[w].op <= MaxOperations
        BY <1>2 DEF ImportInv, ImportTyped, ImportRest, Counted
      <3>2. ASSUME NEW w \in Flows PROVE imFlow[w] \in FlowSet
        <4>1. imFlow[w] \in FlowRecords /\ imFlow[w].op \in 0 .. MaxOperations
          BY <3>1, ImportConstants DEF FlowsTyped, FlowRecords
        <4>2. 0 .. 1 = {0, 1} /\ 0 .. 2 = {0, 1, 2}
          OBVIOUS
        <4> QED BY <4>1, <4>2 DEF FlowRecords, FlowSteps, FlowSet
      <3> QED BY <3>1, <3>2 DEF FlowsTyped
    <2> QED BY <1>2, <2>1, <2>2 DEF ImportInv, ImportTyped, ImportRest, ScreenTyped, JobsTyped, JobStates, Dialogs, CloudCalls,
                                   ImportTypeOK
  <1> QED BY <1>1, <1>2

-----------------------------------------------------------------------------
(* Together.                                                               *)

\* A step of the pages is a step, or a stutter, of each of them.
LEMMA WebStepsAreSteps ==
  [WebNext]_webVars =>
    /\ [CueNext]_cueVars /\ [GenreNext]_genreVars /\ [ApplyNext]_applyVars
    /\ [PlayerNext]_playerVars /\ [FlipNext]_flipVars /\ [PreviewNext]_previewVars /\ [ListNext]_listVars
    /\ [SyncNext]_syncVars /\ [ResumeNext]_resumeVars /\ [ImportNext]_importVars
    /\ [EditorNext]_editorVars /\ [RouletteNext]_rouletteVars
  BY DEF WebNext, Plays, webVars

\* What the user saved, edited in Rekordbox or was told of is kept, in every behaviour
\* of the pages.
THEOREM WebKeepsDrafts ==
  WebSpec => /\ [](AppliedWasWritten /\ AcknowledgedSaveStays /\ ReceiptsComeFirst /\ CloudFollowsRekordbox)
             /\ LocalEditsSurvive
  <1>1. WebInit => CueInit /\ GenreInit
    BY DEF WebInit
  <1>2. CueInv => AppliedWasWritten /\ AcknowledgedSaveStays
    BY DEF CueInv
  <1>3. CueInv /\ [CueNext]_cueVars => [CuesReplaced]_cueVars
    BY CuesReplacedHolds
  <1> QED BY <1>1, <1>2, <1>3, CueInitInv, CueStepInv, GenreInitInv, GenreStepInv, GenreInvMeans, WebStepsAreSteps,
             PTL DEF WebSpec, LocalEditsSurvive, CuesReplaced

\* And so is what the apply service found in master.db.
THEOREM WebKeepsMasterDb ==
  WebSpec => [](EditsSurvive /\ ReplacedIsRecoverable) /\ OutcomeIsTrue
  <1>1. WebInit => ApplyInit
    BY DEF WebInit
  <1>2. ApplyInv => EditsSurvive
    BY DEF ApplyInv, EditsSurvive, Kept, Keeping
  <1>4. ApplyInv => ReplacedIsRecoverable
    BY DEF ApplyInv, OpInv, OneInstance, NotReplaced, ReplacedIsRecoverable
  <1>3. ApplyInv /\ [ApplyNext]_applyVars => [OutcomeStep]_applyVars
    BY OutcomesHold
  <1> QED BY <1>1, <1>2, <1>3, <1>4, ApplyInitInv, ApplyStepInv, WebStepsAreSteps, PTL
          DEF WebSpec, OutcomeIsTrue, OutcomeStep

\* And the latest request decides what is heard, shown and played, whatever answers late.
THEOREM WebShowsTheLatest == WebSpec => []LatestIsCurrent
  <1>1. WebInit => PlayerInit /\ FlipInit /\ PreviewInit /\ ListInit
    BY DEF WebInit
  <1>2. PlayerInv /\ FlipInv /\ PreviewInv /\ ListInv => LatestIsCurrent
    BY PlayerInvMeans, PreviewInvMeans, ListInvMeans DEF FlipInv, LatestIsCurrent
  <1> QED BY <1>1, <1>2, PlayerInitInv, PlayerStepInv, FlipInitInv, FlipStepInv, PreviewInitInv, PreviewStepInv,
             ListInitInv, ListStepInv, WebStepsAreSteps, PTL DEF WebSpec

\* And what the page says of its work is so: when it calls a drive released, no run is before
\* or in its transfer, no batch is being sent, and only the lookups of aborted runs may still
\* be answered; what it calls deleted is gone, a dialog that is busy has somebody at work for it,
\* a preview it prepares is being loaded, and a sync that is done has stored or accounted for
\* every preview and given every slot back.
THEOREM WebAnnouncesTruth == WebSpec => []AnnouncedIsTrue
  <1>1. WebInit => FlipInit /\ ListInit /\ PreviewInit /\ SyncInit /\ ResumeInit /\ ImportInit
    BY DEF WebInit
  <1>2. PreviewInv /\ ListInv => DeletedIsGone /\ PreviewEnds
    BY PreviewInvMeans, ListInvMeans
  <1>3. ImportInv /\ ImportHeld /\ PreviewInv /\ ListInv /\ SyncInv /\ ResumeInv => AnnouncedIsTrue
    BY <1>2, ImportInvMeans, SyncInvMeans, ResumeInvMeans DEF AnnouncedIsTrue
  <1> QED BY <1>1, <1>3, ImportInitInv, ImportStepInv, ImportHeldKept, PreviewInitInv, PreviewStepInv, ListInitInv, ListStepInv,
             SyncInitInv, SyncStepInv, ResumeInitInv, ResumeStepInv, WebStepsAreSteps, PTL DEF WebSpec

\* And an import that was superseded says nothing more on the screen.
THEOREM SupersededRunsAreSilent == WebSpec => SupersededIsSilent
  <1>1. WebInit => ImportInit
    BY DEF WebInit
  <1>2. ImportInv /\ [ImportNext]_importVars => [\A w \in Flows : SilentRun(w)]_importVars
    BY SilentHolds
  <1> QED BY <1>1, <1>2, ImportInitInv, ImportStepInv, WebStepsAreSteps, PTL DEF WebSpec, SupersededIsSilent, SilentRun

\* And a drag of one stem leaves the other under the playhead where it was.
THEOREM DragKeepsPlayhead == WebSpec => PlayheadStays
  <1>1. WebInit => FlipInit
    BY DEF WebInit
  <1>2. FlipInv /\ FlipRest /\ [FlipNext]_flipVars /\ FlipInv' => FlipRest'
    BY FlipRestKept
  <1>3. FlipInv /\ FlipRest => flAt \in Int
    BY PlacesLieWithin DEF FlipInv, FlipTyped, FlipRest
  <1>4. FlipInv /\ FlipRest /\ [FlipNext]_flipVars => [\A s \in FlipStems : PlayheadKept(s)]_flipVars
    BY <1>3, PlayheadHolds
  <1> QED BY <1>1, <1>2, <1>4, FlipTypesAre, FlipInitInv, FlipStepInv, WebStepsAreSteps, PTL
          DEF WebSpec, PlayheadStays, PlayheadKept

\* And no edit of a cue makes cues that the server refuses (but the move of the start of a
\* loop past its end), no drag of a stem moves the other under the playhead.
THEOREM WebEditsKeepTheRest == WebSpec => EditsKeepTheRest
  <1>1. WebInit => EditorInit
    BY DEF WebInit
  <1>2. WebSpec => EditorSpec
    BY <1>1, WebStepsAreSteps, PTL DEF WebSpec, EditorSpec
  <1> QED BY <1>2, EditsSaveable, DragKeepsPlayhead, PTL DEF EditsKeepTheRest

\* And what the page computes is right: the cues that it generates follow the track and
\* fit together, the pairs that it offers are those of the full ranking.
THEOREM WebComputesRight == WebSpec => []ComputedIsRight
  <1>1. WebInit => EditorInit /\ RouletteInit
    BY DEF WebInit
  <1>2. WebSpec => EditorSpec /\ RouletteSpec
    BY <1>1, WebStepsAreSteps, PTL DEF WebSpec, EditorSpec, RouletteSpec
  <1>3. GeneratedCuesFit /\ PairsAreExact => ComputedIsRight
    BY DEF ComputedIsRight
  <1> QED BY <1>2, <1>3, GeneratedCuesSafe, RoulettePairsExact, PTL

\* And every page keeps its types, its counters their bounds: a transport its place within
\* what is loaded, a sync the number of its workers, the preview's cache its limit, the
\* dialog the number of requests it tracks.
THEOREM WebTypeCorrect == WebSpec => []WebTypeOK
  <1>1. WebInit => /\ CueInit /\ GenreInit /\ ApplyInit /\ PlayerInit /\ EditorInit /\ RouletteInit
                   /\ FlipInit /\ PreviewInit /\ ListInit /\ SyncInit /\ ResumeInit /\ ImportInit
    BY DEF WebInit
  <1>2. WebSpec => [](CueTypeOK /\ GenreTypeOK /\ ApplyTypeOK /\ PlayerTypeOK)
    <2>1. CueInv /\ GenreInv /\ ApplyInv /\ PlayerInv => CueTypeOK /\ GenreTypeOK /\ ApplyTypeOK /\ PlayerTypeOK
      <3>1. CueInv /\ GenreInv => CueTypeOK /\ GenreTypeOK
        BY CueTypesAreNamed, GenreInvMeans DEF CueInv
      <3>2. PlayerInv => PlayerTypeOK
        BY DEF PlayerInv, PlayerTyped, PlayerTypeOK, PlayerCalls, PlayerViews
      <3> QED BY <3>1, <3>2 DEF ApplyInv
    <2> QED BY <1>1, <2>1, CueInitInv, CueStepInv, GenreInitInv, GenreStepInv, ApplyInitInv, ApplyStepInv,
               PlayerInitInv, PlayerStepInv, WebStepsAreSteps, PTL DEF WebSpec
  <1>3. WebSpec => [](EditorTypeOK /\ RouletteTypeOK)
    <2>1. WebSpec => EditorSpec /\ RouletteSpec
      BY <1>1, WebStepsAreSteps, PTL DEF WebSpec, EditorSpec, RouletteSpec
    <2> QED BY <2>1, EditorTypeCorrect, RoulettePairsExact, PTL
  <1>4. WebSpec => [](FlipTypeOK /\ PreviewTypeOK)
    <2>1. FlipInv /\ FlipRest /\ [FlipNext]_flipVars /\ FlipInv' => FlipRest'
      BY FlipRestKept
    <2>2. PreviewInv /\ PreviewRest /\ [PreviewNext]_previewVars => PreviewRest'
      BY PreviewRestKept
    <2> QED BY <1>1, <2>1, <2>2, FlipInitInv, FlipStepInv, FlipTypesAre, PreviewInitInv, PreviewStepInv, PreviewTypesAre,
               WebStepsAreSteps, PTL DEF WebSpec
  <1>5. WebSpec => [](ListTypeOK /\ ResumeTypeOK)
    <2>1. ListInv /\ ListRest /\ [ListNext]_listVars => ListRest'
      BY ListRestKept
    <2>2. ResumeInv /\ ResumeRest /\ [ResumeNext]_resumeVars => ResumeRest'
      BY ResumeRestKept
    <2> QED BY <1>1, <2>1, <2>2, ListInitInv, ListStepInv, ListTypesAre, ResumeInitInv, ResumeStepInv, ResumeTypesAre,
               WebStepsAreSteps, PTL DEF WebSpec
  <1>6. WebSpec => [](SyncTypeOK /\ ImportTypeOK)
    <2>1. SyncInv /\ SyncRest /\ WorkersFit /\ [SyncNext]_syncVars => SyncRest' /\ WorkersFit'
      BY SyncRestKept, WorkersKept
    <2>2. ImportInv /\ ImportRest /\ [ImportNext]_importVars => ImportRest'
      BY ImportRestKept
    <2> QED BY <1>1, <2>1, <2>2, SyncInitInv, SyncStepInv, SyncTypesAre, ImportInitInv, ImportStepInv, ImportTypesAre,
               WebStepsAreSteps, PTL DEF WebSpec
  <1>7. (/\ CueTypeOK /\ GenreTypeOK /\ ApplyTypeOK /\ PlayerTypeOK /\ EditorTypeOK /\ RouletteTypeOK
         /\ FlipTypeOK /\ PreviewTypeOK /\ ListTypeOK /\ ResumeTypeOK /\ SyncTypeOK /\ ImportTypeOK) => WebTypeOK
    BY DEF WebTypeOK
  <1> QED BY <1>2, <1>3, <1>4, <1>5, <1>6, <1>7, PTL
=============================================================================
