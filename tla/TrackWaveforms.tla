--------------------------- MODULE TrackWaveforms ---------------------------
(***************************************************************************)
(* The preview waveforms of a list of tracks, useTrackPreviewWaveforms.ts, *)
(* with the cache that all its instances share (boundedTtlCache.ts).       *)
(*                                                                         *)
(* One instance is modelled, the others by what they leave in the cache.   *)
(* A request asks for several tracks at once and is its own token.  What   *)
(* is known of a track is a waveform (or an invalid one), "unavailable" or *)
(* an "error"; an absence is told when this instance was answered it, and  *)
(* an answer is old when the track was retried after it was asked for.     *)
(***************************************************************************)
EXTENDS Naturals, FiniteSets

CONSTANTS
  WaveTracks,
  SharedStates,           \* bound: what other instances leave in the cache, <<import, track, kind>>
  WaveImports, NoWave,    \* NoWave: no import, no request, nothing known
  WaveAsks                \* the requests

VARIABLES
  wvImport, wvIds,        \* importId and trackIds of the page
  wvShown,                \* states
  wvSlot, wvToken,        \* inFlightRef, requestTokensRef: the request of a track
  wvCache,                \* waveformCache
  wvAsk,                  \* the requests: their import, tracks, and those retried since
  wvTimer                 \* unavailableRecheckTimerRef

waveVars == <<wvImport, wvIds, wvShown, wvSlot, wvToken, wvCache, wvAsk, wvTimer>>

WaveKinds == {"waveform", "unavailable", "error"}
Known(i, kind, told, old) ==
  [imp |-> i, kind |-> kind, told |-> told /\ kind = "unavailable", old |-> old]
WaveLoading(i) == Known(i, "loading", FALSE, FALSE)

NoWaveAsk == [imp |-> NoWave, ids |-> {}, retried |-> {}]
Asked(q) == wvAsk[q].ids # {}
Unknown == [t \in WaveTracks |-> NoWave]
Changed(f, tracks, value) == [t \in WaveTracks |-> IF t \in tracks THEN value ELSE f[t]]

\* A mutant: the answer of any request is accepted.
AcceptsAny(q, t) == TRUE

\* shouldAcceptWaveformResult.
Accepts(q, t) == wvToken[t] = q

\* shouldExposeWaveformResult.
Exposes(q, t) == wvImport = wvAsk[q].imp /\ t \in wvIds

-----------------------------------------------------------------------------
\* The effect that fetches, after the state the arguments give: what is cached for
\* the tracks is shown, and one request asks for those neither cached nor in flight.
FetchEffect(i, ids, shown, slot, token, asks) ==
  LET cached == {t \in ids : wvCache'[i, t] # NoWave}
      missing == {t \in ids \ cached : slot[t] = NoWave}
      hydrated == [t \in WaveTracks |-> IF t \in cached THEN [wvCache'[i, t] EXCEPT !.told = FALSE] ELSE shown[t]]
  IN \/ /\ i = NoWave /\ wvShown' = shown /\ wvSlot' = slot /\ wvToken' = token /\ wvAsk' = asks
     \/ /\ i # NoWave /\ missing = {}
        /\ wvShown' = hydrated /\ wvSlot' = slot /\ wvToken' = token /\ wvAsk' = asks
     \/ /\ i # NoWave /\ missing # {}
        /\ \E q \in WaveAsks :
             /\ ~Asked(q) /\ wvAsk' = [asks EXCEPT ![q] = [imp |-> i, ids |-> missing, retried |-> {}]]
             /\ wvSlot' = Changed(slot, missing, q) /\ wvToken' = Changed(token, missing, q)
        /\ wvShown' = Changed(hydrated, missing, WaveLoading(i))

\* invalidatePreviewWaveformCache, of some tracks of the import.
Invalidated(tracks) ==
  [k \in DOMAIN wvCache |-> IF k[1] = wvImport /\ k[2] \in tracks THEN NoWave ELSE wvCache[k]]

\* Other tracks are on the page.
ShowTracks(ids) ==
  /\ ids # wvIds /\ wvIds' = ids /\ UNCHANGED wvCache
  /\ FetchEffect(wvImport, ids, wvShown, wvSlot, wvToken, wvAsk)
  /\ UNCHANGED <<wvImport, wvTimer>>

\* Another import: no request made before is accepted any more.
ShowImport(i) ==
  /\ i # wvImport /\ wvImport' = i /\ wvTimer' = FALSE /\ UNCHANGED wvCache
  /\ FetchEffect(i, wvIds, Unknown, Unknown, Unknown, wvAsk)
  /\ UNCHANGED wvIds

\* The analysis of the import has progressed: what is cached for the page is dropped.
AnalysisProgressed ==
  /\ wvImport # NoWave /\ wvCache' = Invalidated(wvIds)
  /\ FetchEffect(wvImport, wvIds, wvShown, wvSlot, wvToken, wvAsk)
  /\ UNCHANGED <<wvImport, wvIds, wvTimer>>

\* The answers for the tracks of a request; its failure is an error for each.  Its
\* token is met by no request again, and none stands for it.
WaveformsAnswer(q) ==
  /\ Asked(q) /\ wvAsk' = [wvAsk EXCEPT ![q] = NoWaveAsk]
  /\ \E kind \in [wvAsk[q].ids -> WaveKinds] :
       LET accepted == {t \in wvAsk[q].ids : Accepts(q, t)}
           Answer(t) == Known(wvAsk[q].imp, kind[t], TRUE, t \in wvAsk[q].retried)
       IN /\ wvCache' = [k \in DOMAIN wvCache |->
                           IF k[1] = wvAsk[q].imp /\ k[2] \in accepted THEN Answer(k[2]) ELSE wvCache[k]]
          /\ wvShown' = [t \in WaveTracks |-> IF t \in accepted /\ Exposes(q, t) THEN Answer(t) ELSE wvShown[t]]
          /\ wvTimer' = (wvTimer \/ \E t \in accepted : kind[t] = "unavailable")
  /\ wvSlot' = Changed(wvSlot, {t \in WaveTracks : wvSlot[t] = q}, NoWave)
  /\ wvToken' = Changed(wvToken, {t \in WaveTracks : wvToken[t] = q}, NoWave)
  /\ UNCHANGED <<wvImport, wvIds>>

\* The recheck comes once all that this instance cached as unavailable has expired.
RecheckDue ==
  /\ wvTimer /\ wvTimer' = FALSE
  /\ wvCache' = [k \in DOMAIN wvCache |->
                   IF wvCache[k] # NoWave /\ wvCache[k].kind = "unavailable" /\ wvCache[k].told
                   THEN NoWave ELSE wvCache[k]]
  /\ FetchEffect(wvImport, wvIds, wvShown, wvSlot, wvToken, wvAsk)
  /\ UNCHANGED <<wvImport, wvIds>>

\* A mutant: a retry leaves its tracks in flight.
KeepsSlots(tracks) == wvSlot

\* inFlightRef.current.delete of the retried tracks.
FreedSlots(tracks) == Changed(wvSlot, tracks, NoWave)

\* retry, of the tracks whose failure or absence is still cached.
RetryWaveforms(tracks) ==
  /\ wvImport # NoWave /\ tracks # {} /\ tracks \subseteq wvIds
  /\ \A t \in tracks : wvCache[wvImport, t] # NoWave /\ wvCache[wvImport, t].kind # "waveform"
  /\ wvCache' = Invalidated(tracks)
  /\ FetchEffect(wvImport, wvIds, Changed(wvShown, tracks, WaveLoading(wvImport)), FreedSlots(tracks),
                 Changed(wvToken, tracks, NoWave),
                 [q \in WaveAsks |-> [wvAsk[q] EXCEPT !.retried = @ \cup (tracks \cap wvAsk[q].ids)]])
  /\ UNCHANGED <<wvImport, wvIds, wvTimer>>

\* A lifetime is over, or another instance of the hook caches what it was told.
CacheChanges(i, t) ==
  /\ \/ wvCache[i, t] # NoWave /\ wvCache' = [wvCache EXCEPT ![<<i, t>>] = NoWave]
     \/ \E kind \in WaveKinds : <<i, t, kind>> \in SharedStates /\ wvCache' = [wvCache EXCEPT ![<<i, t>>] = Known(i, kind, FALSE, FALSE)]
  /\ UNCHANGED <<wvImport, wvIds, wvShown, wvSlot, wvToken, wvAsk, wvTimer>>

-----------------------------------------------------------------------------
WavesInit ==
  /\ wvImport = NoWave /\ wvIds = {} /\ wvShown = Unknown /\ wvSlot = Unknown /\ wvToken = Unknown
  /\ wvCache = [k \in WaveImports \X WaveTracks |-> NoWave]
  /\ wvAsk = [q \in WaveAsks |-> NoWaveAsk] /\ wvTimer = FALSE

WavesNext ==
  \/ \E ids \in SUBSET WaveTracks : ShowTracks(ids) \/ RetryWaveforms(ids)
  \/ \E i \in WaveImports \cup {NoWave} : ShowImport(i)
  \/ AnalysisProgressed \/ RecheckDue
  \/ \E q \in WaveAsks : WaveformsAnswer(q)
  \/ \E i \in WaveImports, t \in WaveTracks : CacheChanges(i, t)

WavesSpec == WavesInit /\ [][WavesNext]_waveVars

KnownStates == [imp : WaveImports, kind : WaveKinds \cup {"loading"}, told : BOOLEAN, old : BOOLEAN]

ASSUME WaveAssumption == NoWave \notin WaveImports \cup WaveAsks \cup KnownStates

WavesTypeOK ==
  /\ wvImport \in WaveImports \cup {NoWave} /\ wvIds \subseteq WaveTracks
  /\ wvShown \in [WaveTracks -> KnownStates \cup {NoWave}]
  /\ wvSlot \in [WaveTracks -> WaveAsks \cup {NoWave}] /\ wvToken \in [WaveTracks -> WaveAsks \cup {NoWave}]
  /\ wvCache \in [WaveImports \X WaveTracks -> KnownStates \cup {NoWave}]
  /\ wvAsk \in [WaveAsks -> [imp : WaveImports \cup {NoWave}, ids : SUBSET WaveTracks,
                             retried : SUBSET WaveTracks]]
  /\ wvTimer \in BOOLEAN

-----------------------------------------------------------------------------
\* What is shown of a track, or cached for it, was answered for its import and not
\* by a request made before the track was last retried, although requests, retries
\* and other instances that use the cache overtake one another.
WavesAreCurrent ==
  /\ \A t \in WaveTracks : wvShown[t] # NoWave => wvShown[t].imp = wvImport /\ ~wvShown[t].old
  /\ \A k \in DOMAIN wvCache : wvCache[k] # NoWave => wvCache[k].imp = k[1] /\ ~wvCache[k].old

\* A track that is shown as loading has a request under way whose answer will be
\* shown, every track of the page is loading or known, and an absence this
\* instance was told will be checked again.
WavesLoad ==
  wvImport # NoWave => \A t \in wvIds :
    /\ wvShown[t] # NoWave
    /\ wvShown[t].kind = "loading" =>
         /\ wvToken[t] # NoWave /\ wvSlot[t] = wvToken[t]
         /\ t \in wvAsk[wvToken[t]].ids /\ wvAsk[wvToken[t]].imp = wvImport
    /\ wvShown[t].kind = "unavailable" /\ wvShown[t].told => wvTimer
=============================================================================
