---------------------------- MODULE DropLabPreview ----------------------------
(***************************************************************************)
(* The preview of a Drop Lab pair: src/hooks/useDropLabPreview.ts with the *)
(* loads of src/lib/audio/audioSourceLoader.ts and the cache of            *)
(* src/lib/audio/decodedAudioCache.ts.                                     *)
(*                                                                         *)
(* A run is one pass of the page's load effect.  It waits for two buffers, *)
(* each of them cached, being loaded by an earlier run, or loaded by this  *)
(* one; the load of run r for track k is <<r, k>>, and stops only for the  *)
(* run that began it.                                                      *)
(***************************************************************************)
EXTENDS Naturals, Sequences, SequencesExt, FiniteSets

CONSTANTS PreviewPairs,      \* the pairs <<source, candidate>> the user may choose
          NoPreview, Cached,
          MaxCached,         \* entries of the cache
          MaxPreviewRuns     \* bound: passes of the effect that load

ASSUME PreviewAssumption ==
  MaxCached \in Nat \ {0} /\ MaxPreviewRuns \in Nat /\ NoPreview \notin PreviewPairs

PreviewTracks == UNION {{p[1], p[2]} : p \in PreviewPairs}
PreviewRuns == 1 .. MaxPreviewRuns
NoPreviewRun == 0

VARIABLES
  dpPage,    \* the hook: its inputs, status, current run, buffers and nodes
  dpRun,     \* per run its pair, where each buffer comes from, and its end
  dpLoad,    \* per run and track how far its load has come
  dpCache    \* the buffers, oldest first, and the loads that may be joined

previewVars == <<dpPage, dpRun, dpLoad, dpCache>>

LoadStages == {"none", "resolving", "reading", "decoding", "ok", "aborted", "failed"}
LiveLoads == {"resolving", "reading", "decoding"}

PreviewTypeOK ==
  /\ dpPage \in [pair : PreviewPairs \cup {NoPreview}, usb : BOOLEAN, 
                 run : {NoPreviewRun} \cup PreviewRuns,
                 status : {"idle", "loading", "ready", "playing", "error"},
                 decoded : PreviewPairs \cup {NoPreview},
                 nodes : PreviewPairs \cup {NoPreview}]
  /\ dpRun \in Seq([pair : PreviewPairs,
                    from : [PreviewTracks -> PreviewRuns \cup {Cached, NoPreviewRun}],
                    aborted : BOOLEAN, settled : BOOLEAN])
  /\ Len(dpRun) <= MaxPreviewRuns
  /\ dpLoad \in [PreviewRuns \X PreviewTracks -> LoadStages]
  /\ dpCache \in [values : Seq(PreviewTracks),
                  pending : [PreviewTracks -> {NoPreviewRun} \cup PreviewRuns]]
  /\ Len(dpCache.values) <= MaxCached

PreviewInit ==
  /\ dpPage = [pair |-> NoPreview, usb |-> TRUE, run |-> NoPreviewRun, status |-> "idle",
               decoded |-> NoPreview, nodes |-> NoPreview]
  /\ dpRun = << >>
  /\ dpLoad = [l \in PreviewRuns \X PreviewTracks |-> "none"]
  /\ dpCache = [values |-> << >>, pending |-> [k \in PreviewTracks |-> NoPreviewRun]]

PairKeys(pair) == {pair[1], pair[2]}

-----------------------------------------------------------------------------
(* DecodedAudioCache.                                                      *)

IsDecoded(k) == k \in Range(dpCache.values)

\* A buffer is in the cache once.
CacheWithout(values, k) ==
  IF k \in Range(values) THEN RemoveAt(values, CHOOSE i \in DOMAIN values : values[i] = k) ELSE values

CacheTouched(values, k) == Append(CacheWithout(values, k), k)

\* get moves what it finds to the end.
CacheGot(values, k) == IF k \in Range(values) THEN CacheTouched(values, k) ELSE values

\* set, and what exceeds the limit goes from the front.
CacheStored(values, k) ==
  LET all == CacheTouched(values, k)
  IN IF Len(all) > MaxCached THEN Tail(all) ELSE all

\* The generation is left out: every clear takes the joinable loads out of `pending`,
\* which alone keeps their results away.
CacheCleared == [values |-> << >>, pending |-> [k \in PreviewTracks |-> NoPreviewRun]]

\* A load ends: nobody can join it any more, and what it decoded is kept if it still
\* could be joined.
LoadEnded(l, stage) ==
  IF dpCache.pending[l[2]] # l[1] THEN dpCache
  ELSE [dpCache EXCEPT !.pending[l[2]] = NoPreviewRun,
                       !.values = IF stage = "ok" THEN CacheStored(@, l[2]) ELSE @]

-----------------------------------------------------------------------------
(* The load effect.                                                        *)

\* The cleanup of the earlier pass: its controller is aborted.
RunsAborted(runs) == IF runs = << >> THEN << >> ELSE [runs EXCEPT ![Len(runs)].aborted = TRUE]

\* stop, of the nodes.
PreviewSilent(page) ==
  [page EXCEPT !.nodes = NoPreview, !.status = IF @ = "playing" THEN "ready" ELSE @]

\* A new pass with the inputs of `page`: what is cached or being loaded is used,
\* whoever loads it.
LoadEffect(page) ==
  LET r == Len(dpRun) + 1
      loads == page.pair # NoPreview /\ page.usb
      keys == PairKeys(page.pair)
      from == [k \in PreviewTracks |-> IF ~(k \in keys) THEN NoPreviewRun
                                       ELSE IF IsDecoded(k) THEN Cached
                                       ELSE IF dpCache.pending[k] # NoPreviewRun THEN dpCache.pending[k]
                                       ELSE r]
      begun == {k \in keys : from[k] = r}
      ready == \A k \in keys : from[k] = Cached
      fresh == [PreviewSilent(page) EXCEPT !.decoded = NoPreview]
  IN IF ~loads
     THEN /\ dpPage' = [fresh EXCEPT !.run = NoPreviewRun, !.status = "idle"]
          /\ dpRun' = RunsAborted(dpRun)
          /\ UNCHANGED <<dpLoad, dpCache>>
     ELSE /\ r <= MaxPreviewRuns
          /\ dpRun' = Append(RunsAborted(dpRun), [pair |-> page.pair, from |-> from,
                                              aborted |-> FALSE, settled |-> ready])
          /\ dpLoad' = [l \in DOMAIN dpLoad |->
                          IF l[1] = r /\ l[2] \in begun THEN "resolving" ELSE dpLoad[l]]
          /\ dpCache' = [dpCache EXCEPT
               !.values = CacheGot(CacheGot(@, page.pair[1]), page.pair[2]),
               !.pending = [k \in PreviewTracks |-> IF k \in begun THEN r ELSE @[k]]]
          /\ dpPage' = IF ready
                       THEN [fresh EXCEPT !.run = r, !.status = "ready", !.decoded = page.pair]
                       ELSE [fresh EXCEPT !.run = r, !.status = "loading"]

\* Another pair, another cue window of the same pair, or none.
PreviewPairChanges(pair) == LoadEffect([dpPage EXCEPT !.pair = pair])

\* The drive becomes ready or not, which the prerequisites follow.
PreviewUsbChanges == LoadEffect([dpPage EXCEPT !.usb = ~@])

\* Retry Audio.
RetryAudio == dpPage.status = "error" /\ LoadEffect(dpPage)

-----------------------------------------------------------------------------
(* A load, and the runs that wait for it.                                  *)

NextStage(stage) ==
  CASE stage = "resolving" -> "reading" [] stage = "reading" -> "decoding" [] OTHER -> "ok"

\* Promise.all of a run: the first rejection decides.
RunOutcome(run, loads) ==
  LET stages == {IF run.from[k] = Cached THEN "ok" ELSE loads[<<run.from[k], k>>] :
                 k \in PairKeys(run.pair)}
  IN IF "aborted" \in stages THEN "aborted"
     ELSE IF "failed" \in stages THEN "failed"
     ELSE IF stages = {"ok"} THEN "ready" ELSE "open"

\* A mutant: an answer is taken by whatever run.
HeedsAlways(r) == dpPage.run # NoPreviewRun

\* requestId is still the current one.
Heeds(r) == r = dpPage.run

\* What the page makes of the end of a run it listens to; an abort says nothing.
PairAnswered(page, run, outcome) ==
  CASE outcome = "ready" -> [page EXCEPT !.status = "ready", !.decoded = run.pair]
    [] outcome = "failed" -> [page EXCEPT !.status = "error", !.decoded = NoPreview]
    [] outcome = "aborted" -> page

\* A load goes on, fails, or, at its next check, finds that its run was aborted; its
\* end is told to every run that waits for it.
PreviewLoadStep(l) ==
  /\ dpLoad[l] \in LiveLoads
  /\ \E stage \in IF dpRun[l[1]].aborted
                  THEN {"aborted"} \cup (IF dpLoad[l] = "resolving" THEN {} ELSE {"failed"})
                  ELSE {NextStage(dpLoad[l]), "failed"} :
       LET loads == [dpLoad EXCEPT ![l] = stage]
           ending == {r \in DOMAIN dpRun :
                        ~dpRun[r].settled /\ RunOutcome(dpRun[r], loads) # "open"}
           heard == {r \in ending : Heeds(r)}
       IN /\ dpLoad' = loads
          /\ dpCache' = IF stage \in LiveLoads THEN dpCache ELSE LoadEnded(l, stage)
          /\ dpRun' = [r \in DOMAIN dpRun |-> [dpRun[r] EXCEPT !.settled = @ \/ r \in ending]]
          /\ dpPage' \in IF heard = {} THEN {dpPage}
                         ELSE {PairAnswered(dpPage, dpRun[r], RunOutcome(dpRun[r], loads)) :
                               r \in heard}

\* A mutant: the deadline aborts the load and says nothing.
PreviewExpiresSilently(page) == page

PreviewExpired(page) == [page EXCEPT !.status = "error", !.decoded = NoPreview]

\* loadWithTimeout: thirty seconds are over.
PreviewTimeout ==
  /\ dpPage.run # NoPreviewRun /\ ~dpRun[dpPage.run].settled
  /\ dpRun' = [dpRun EXCEPT ![dpPage.run].aborted = TRUE, ![dpPage.run].settled = TRUE]
  /\ dpPage' = PreviewExpired(dpPage)
  /\ UNCHANGED <<dpLoad, dpCache>>

-----------------------------------------------------------------------------
(* Playing, and leaving.                                                   *)

\* playOrStop; the cue window may lie outside of what was decoded.
PreviewPlayOrStop ==
  /\ \/ /\ dpPage.status = "playing" /\ dpPage' = PreviewSilent(dpPage)
     \/ /\ dpPage.status = "ready" /\ dpPage.decoded # NoPreview
        /\ dpPage' \in {[dpPage EXCEPT !.nodes = dpPage.decoded, !.status = "playing"],
                        [dpPage EXCEPT !.status = "error"]}
  /\ UNCHANGED <<dpRun, dpLoad, dpCache>>

\* onended of the candidate's node.
PreviewPlayEnds ==
  /\ dpPage.nodes # NoPreview
  /\ dpPage' = [dpPage EXCEPT !.nodes = NoPreview, !.status = "ready"]
  /\ UNCHANGED <<dpRun, dpLoad, dpCache>>

\* A release or disconnect of the drive stops what plays from it; and the page is
\* left, to be opened again without a pair.
PreviewStops(pair) ==
  /\ \/ dpPage.run # NoPreviewRun \/ dpCache.values # << >>
     \/ \E k \in PreviewTracks : dpCache.pending[k] # NoPreviewRun
  /\ dpPage' = [PreviewSilent(dpPage) EXCEPT !.pair = pair, !.run = NoPreviewRun,
                                             !.status = "idle", !.decoded = NoPreview]
  /\ dpRun' = RunsAborted(dpRun)
  /\ dpCache' = CacheCleared
  /\ UNCHANGED dpLoad

PreviewUsbStops == PreviewStops(dpPage.pair)
PreviewLeft == PreviewStops(NoPreview)

PreviewNext ==
  \/ \E pair \in PreviewPairs \cup {NoPreview} : PreviewPairChanges(pair)
  \/ PreviewUsbChanges \/ RetryAudio
  \/ \E l \in DOMAIN dpLoad : PreviewLoadStep(l)
  \/ PreviewTimeout \/ PreviewPlayOrStop \/ PreviewPlayEnds \/ PreviewUsbStops \/ PreviewLeft

PreviewSpec == PreviewInit /\ [][PreviewNext]_previewVars

-----------------------------------------------------------------------------
\* What can be played or is heard is the pair on the page, and the end of an earlier
\* run changes nothing: a page that shows no load has no run under way.
PreviewIsOwn ==
  /\ dpPage.decoded \in {NoPreview, dpPage.pair}
  /\ dpPage.nodes \in {NoPreview, dpPage.pair}
  /\ dpPage.run # NoPreviewRun /\ ~dpRun[dpPage.run].settled => dpPage.status = "loading"

\* A page that prepares audio gets an answer: its run is under way, and what others may
\* join is being loaded.  Exempt is a run that joined the load of an earlier one, whose
\* abort it swallows (useDropLabPreview.ts:186).
PreviewEnds ==
  /\ dpPage.status = "loading" =>
       /\ dpPage.run # NoPreviewRun
       /\ \/ ~dpRun[dpPage.run].settled
          \/ \E k \in PairKeys(dpPage.pair) : dpRun[dpPage.run].from[k] \notin {Cached, dpPage.run}
  /\ \A k \in PreviewTracks : dpCache.pending[k] # NoPreviewRun =>
       dpLoad[<<dpCache.pending[k], k>>] \in LiveLoads
=============================================================================
