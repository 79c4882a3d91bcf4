-------------------------------- MODULE MCWeb --------------------------------
(***************************************************************************)
(* The pages of the web application that keep state across several answers *)
(* of a backend, a drive or the bridge, the preview sync, the choice of    *)
(* tracks that go together, and the apply service behind the bridge,       *)
(* checked in one run.  They share no state that these models tell apart,  *)
(* so a behaviour exercises one of them, the scene, and leaves the others  *)
(* in an initial state.                                                    *)
(***************************************************************************)
EXTENDS LibraryImport, ImportList, CueDrafts, GenreDrafts, CueEditor, AudioPlayer,
        FlipLab, DropLabPreview, ResumeAnalysis, PreviewSync, RoulettePairs,
        ApplyService, TLC, FiniteSetsExt

CONSTANTS z0, z1, z2   \* tracks of the Drop Lab

\* One source with two candidates.
MCPreviewPairs == {<<z0, z1>>, <<z0, z2>>}

VARIABLE scene

\* A track of the matcher, with a file and a beat grid.
Tune(number, mode, bpm, stable, bonus) ==
  [number |-> number, mode |-> mode, bpm |-> bpm, grid |-> TRUE, stable |-> stable,
   file |-> TRUE, bonus |-> bonus]

\* 1A at three tempos, one of them unstable, and its neighbours 12A, 1B and 2A, whose
\* tempo is unknown.
MCTracks ==
  << Tune(1, 0, 120, TRUE, 0), Tune(12, 0, 122, TRUE, 16), Tune(1, 0, 123, FALSE, 0),
     Tune(1, 0, 126, TRUE, 0), Tune(1, 1, 121, TRUE, 0), Tune(2, 0, 0, TRUE, 0) >>

\* A bound: the cue draft is saved and Rekordbox's cues change three times in all.
CuesBounded == cdRow'.rev + cdLocal'.gen <= 3

GenreRunsUnderWay == {f \in GenreRuns : gdRun[f] # IdleRun}
GenreEdits == {t \in GenreTracks : gdSaves[t] # NoEdit}
GenreTracksInUse ==
  {t \in GenreTracks :
     \/ gdRow[t] # NoRow \/ gdPage.rows[t] # NoRow \/ gdSaves[t] # NoEdit
     \/ gdCloud[t] # CanonicalGenre \/ gdLocal.genre[t] # CanonicalGenre
     \/ \E f \in GenreRuns : gdRun[f].drafts[t] # NoGenreDraft}

\* Bounds: drafts are saved and the bridge is asked three times in all; two runs
\* overlap on one track, and one run covers two; a run or a saving is under way besides
\* one track in use only; and one run is not always the page's.  Tracks and runs are
\* interchangeable: what one of them does alone, a chosen one does.
GenresBounded ==
  /\ MapThenSumSet(LAMBDA t : gdRow'[t].rev, GenreTracks) + gdAsked' <= 3
  /\ Cardinality(GenreTracksInUse') + Cardinality(GenreRunsUnderWay') + Cardinality(GenreEdits') <= 3
  /\ GenreRunsUnderWay' = GenreRuns => GenreTracksInUse' = {CHOOSE t \in GenreTracks : TRUE}
  /\ \A f \in GenreRuns : gdRun'[f].at # "page" => f = CHOOSE g \in GenreRuns : TRUE

\* The variables of the other scenes keep their initial values.
WebTypeOK ==
  /\ scene = "import" => ImportTypeOK
  /\ scene = "list" => ListTypeOK
  /\ scene = "cues" => CueTypeOK
  /\ scene = "genres" => GenreTypeOK
  /\ scene = "editor" => EditorTypeOK
  /\ scene = "player" => PlayerTypeOK
  /\ scene = "flip" => FlipTypeOK
  /\ scene = "preview" => PreviewTypeOK
  /\ scene = "resume" => ResumeTypeOK
  /\ scene = "sync" => SyncTypeOK
  /\ scene = "pairs" => RouletteTypeOK
  /\ scene = "apply" => ApplyTypeOK

WebInit ==
  /\ scene \in {"import", "list", "cues", "genres", "editor", "player", "flip",
               "preview", "resume", "sync", "pairs", "apply"}
  /\ ImportInit /\ ListInit /\ CueInit /\ GenreInit /\ EditorInit /\ PlayerInit /\ FlipInit
  /\ PreviewInit /\ ResumeInit /\ SyncInit /\ RouletteInit /\ ApplyInit
  /\ scene # "list" => ilActive = 1
  /\ scene # "cues" => cdLocal.proof = Imported
  /\ scene # "editor" => cePhrases = << >> /\ ceVocal = None /\ ceCues = << >>
  /\ scene # "player" => apUsb = "disconnected"
  /\ scene # "apply" => ~asApart

\* A step of one scene leaves the variables of the others alone.
Plays(s) ==
  /\ scene = s /\ UNCHANGED scene
  /\ s # "import" => UNCHANGED importVars
  /\ s # "list" => UNCHANGED listVars
  /\ s # "cues" => UNCHANGED cueVars
  /\ s # "genres" => UNCHANGED genreVars
  /\ s # "editor" => UNCHANGED editorVars
  /\ s # "player" => UNCHANGED playerVars
  /\ s # "flip" => UNCHANGED flipVars
  /\ s # "preview" => UNCHANGED previewVars
  /\ s # "resume" => UNCHANGED resumeVars
  /\ s # "sync" => UNCHANGED syncVars
  /\ s # "pairs" => UNCHANGED rouletteVars
  /\ s # "apply" => UNCHANGED applyVars

WebNext ==
  \/ Plays("import") /\ ImportNext
  \/ Plays("list") /\ ListNext
  \/ Plays("cues") /\ CueNext /\ CuesBounded
  \/ Plays("genres") /\ GenreNext /\ GenresBounded
  \/ Plays("editor") /\ EditorNext
  \/ Plays("player") /\ PlayerNext
  \/ Plays("flip") /\ FlipNext
  \/ Plays("preview") /\ PreviewNext
  \/ Plays("resume") /\ ResumeNext
  \/ Plays("sync") /\ SyncNext
  \/ Plays("pairs") /\ RouletteNext
  \/ Plays("apply") /\ ApplyNext

webVars == <<scene, importVars, listVars, cueVars, genreVars, editorVars, playerVars, flipVars,
            previewVars, resumeVars, syncVars, rouletteVars, applyVars>>

WebSpec == WebInit /\ [][WebNext]_webVars

-----------------------------------------------------------------------------
\* What the page announces has happened: when it says that USB access is released, no
\* run of the import dialog is before or in its transfer and no batch is being sent,
\* and only lookups of runs that were aborted may still be answered
\* (ImportLibraryModal.tsx); the book it calls deleted is gone (App.tsx), the dialog that says it works waits for work that is under way
\* (ResumeAnalysisModal.tsx), the preview it prepares is being loaded
\* (useDropLabPreview.ts), and the previews it counts as synced are stored, with no
\* slot lost on the way (previewSync.ts, main.cjs).
AnnouncedIsTrue ==
  /\ ReleaseIsReal /\ DeletedIsGone /\ ResumeWorks /\ PreviewEnds
  /\ PreviewsAreStored /\ SyncAccounts /\ SlotsBalance

\* What the page computes is right: the cues it generates fit the track and one
\* another (autoCueStrategy.ts), and the pairs it offers are those of the full ranking
\* (rouletteMatching.ts).
ComputedIsRight ==
  /\ scene = "editor" => GeneratedCuesFit
  /\ scene = "pairs" => PairsAreExact

\* The latest request decides what is current, whatever answers late: the track
\* that is heard is the one shown (AudioPlayerContext.tsx), the library shown is
\* the one the settings name (useLatestRekordboxImport.ts), and Flip Lab and
\* the Drop Lab play the pair on their page (useFlipLab.ts, useDropLabPreview.ts).
LatestIsCurrent == HeardIsShown /\ ShownFollowsSettings /\ FlipPlaysShownPair /\ PreviewIsOwn

\* An edit of one thing leaves its neighbours as they must be: a cue edit the
\* other cues (cueEditorState.ts), a drag of one stem the other stem under the
\* playhead (flipLabTimeline.ts).
EditsKeepTheRest == EditsStaySaveable /\ PlayheadStays
=============================================================================
