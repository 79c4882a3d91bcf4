---------------------------- MODULE RoulettePairs ----------------------------
(***************************************************************************)
(* The choice of tracks that go together, rouletteMatching.ts with         *)
(* camelot.ts: the ranking of all pairs, and the bounded ranking that      *)
(* looks only at the nearest tempos of every vocal.                        *)
(*                                                                         *)
(* A track has its place on the Camelot wheel (0 is unknown), its tempo    *)
(* (0 is unknown), its beat grid and what its analysis adds to a score;    *)
(* its index in Tracks stands for its id and its title.  A pair is         *)
(* <<vocal, instrumental>>.                                                *)
(***************************************************************************)
EXTENDS Ordering

CONSTANTS
  Tracks,             \* sequence of [number, mode, bpm, grid, stable, file, bonus]
  BpmTolerance,       \* ROULETTE_DIRECT_BPM_TOLERANCE
  MaxPairs,           \* ROULETTE_PAIR_POOL_LIMIT
  MaxPartners         \* ROULETTE_PAIR_PARTNERS_PER_VOCAL

ASSUME RouletteAssumption ==
  /\ BpmTolerance \in Nat \ {0} /\ MaxPairs \in Nat \ {0} /\ MaxPartners \in Nat \ {0}
  /\ Tracks \in Seq([number : 0 .. 12, mode : {0, 1}, bpm : Nat, grid : BOOLEAN,
                     stable : BOOLEAN, file : BOOLEAN, bonus : Int])

VARIABLES
  roVocals, roInstrumentals,    \* the two pools
  roOffer                       \* the bounded ranking of their pairs, and whether it is cut

rouletteVars == <<roVocals, roInstrumentals, roOffer>>

TrackIds == DOMAIN Tracks
Wrap12(n) == ((n - 1 + 12) % 12) + 1
TempoGap(m, n) == IF m < n THEN n - m ELSE m - n

\* classifyCamelotRelationship, of two known keys.
CamelotRelationship(s, c) ==
  LET n == Tracks[s].number  m == Tracks[c].number  same == Tracks[s].mode = Tracks[c].mode
  IN CASE m = n /\ same -> "exact"
       [] m = n /\ ~same -> "relative"
       [] m = Wrap12(n + 1) /\ same -> "adjacent_up"
       [] m = Wrap12(n - 1) /\ same -> "adjacent_down"
       [] m = Wrap12(n + 2) /\ same -> "energy_boost"
       [] OTHER -> "incompatible"

\* rouletteKeyRelationship.
KeyRelationship(s, c) ==
  IF Tracks[s].number = 0 \/ Tracks[c].number = 0 THEN "missing"
  ELSE LET r == CamelotRelationship(s, c)
       IN IF r = "exact" THEN "exact"
          ELSE IF r \in {"relative", "adjacent_up", "adjacent_down"} THEN "branch" ELSE "mismatch"

TempoCompatible(s, c) ==
  Tracks[s].bpm > 0 /\ Tracks[c].bpm > 0 /\ TempoGap(Tracks[s].bpm, Tracks[c].bpm) <= BpmTolerance

\* getRouletteHardFilterReason, the same in both roles.
HardFilterReason(c, r) ==
  CASE c = r -> "same-parent-track"
    [] ~Tracks[c].file \/ ~Tracks[r].file -> "source-unavailable"
    [] KeyRelationship(r, c) = "missing" -> "missing-key"
    [] KeyRelationship(r, c) = "mismatch" -> "key-mismatch"
    [] Tracks[r].bpm = 0 \/ Tracks[c].bpm = 0 -> "missing-bpm"
    [] ~TempoCompatible(r, c) -> "tempo-mismatch"
    [] ~Tracks[r].stable \/ ~Tracks[c].stable -> "variable-tempo"
    [] ~Tracks[r].grid \/ ~Tracks[c].grid -> "missing-beat-grid"
    [] OTHER -> "none"

\* getRoulettePairHardFilterReason.
PairReason(v, i) ==
  IF HardFilterReason(i, v) # "none" THEN HardFilterReason(i, v) ELSE HardFilterReason(v, i)

\* diagnosticReasonForRoulettePair, which counts the pairs for the page.
DiagnosticReason(v, i) ==
  CASE v = i -> "same-parent-conflict"
    [] ~Tracks[v].file \/ ~Tracks[i].file -> "source-unavailable"
    [] ~Tracks[v].stable \/ ~Tracks[i].stable -> "variable-tempo"
    [] ~Tracks[v].grid \/ ~Tracks[i].grid -> "missing-invalid-beat-grid"
    [] KeyRelationship(v, i) \in {"missing", "mismatch"} -> "incompatible-key"
    [] ~TempoCompatible(v, i) -> "bpm-outside-range"
    [] OTHER -> "eligible"

\* scoreRouletteCandidate in both directions, scaled by the tolerance.
Score(p) ==
  2 * BpmTolerance * (IF KeyRelationship(p[1], p[2]) = "exact" THEN 140 ELSE 110)
    + 120 * (BpmTolerance - TempoGap(Tracks[p[1]].bpm, Tracks[p[2]].bpm))
    + BpmTolerance * (Tracks[p[1]].bonus + Tracks[p[2]].bonus)

\* The order of the pairs: score, then tempo, then the names.
Outranks(p, q) ==
  LET dp == TempoGap(Tracks[p[1]].bpm, Tracks[p[2]].bpm)
      dq == TempoGap(Tracks[q[1]].bpm, Tracks[q[2]].bpm)
  IN \/ Score(p) > Score(q)
     \/ Score(p) = Score(q) /\ dp < dq
     \/ Score(p) = Score(q) /\ dp = dq /\ (p[1] < q[1] \/ (p[1] = q[1] /\ p[2] < q[2]))

\* The first n of a set of pairs.
BestOf(pairs, n) == {p \in pairs : Cardinality({q \in pairs : Outranks(q, p)}) < n}

\* rankRoulettePairs takes a pair.
Ranked(p) == PairReason(p[1], p[2]) = "none"

-----------------------------------------------------------------------------
\* The instrumentals of one key in the order of their tempos, the unknown last.
TempoBefore(s, t) ==
  LET fast(x) == Tracks[x].bpm = 0
  IN \/ ~fast(s) /\ fast(t)
     \/ fast(s) = fast(t) /\ (Tracks[s].bpm < Tracks[t].bpm \/ (Tracks[s].bpm = Tracks[t].bpm /\ s < t))
Bucket(instrumentals, number, mode) ==
  LET own == {i \in instrumentals : Tracks[i].number = number /\ Tracks[i].mode = mode}
  IN Listed(own, {p \in own \X own : p[1] = p[2] \/ TempoBefore(p[1], p[2])})

\* compatibleKeyTokens.
CompatibleKeys(v) ==
  LET n == Tracks[v].number  m == Tracks[v].mode
  IN IF n = 0 THEN {} ELSE {<<n, m>>, <<Wrap12(n - 1), m>>, <<Wrap12(n + 1), m>>, <<n, 1 - m>>}

\* lowerBoundBpm and upperBoundBpm, counted from one: the first place whose tempo is
\* not below, or is above, a tempo.
LowerBound(bucket, bpm) ==
  1 + Cardinality({n \in DOMAIN bucket : Tracks[bucket[n]].bpm > 0 /\ Tracks[bucket[n]].bpm < bpm})
UpperBound(bucket, bpm) ==
  1 + Cardinality({n \in DOMAIN bucket : Tracks[bucket[n]].bpm > 0 /\ Tracks[bucket[n]].bpm <= bpm})

InRange(bucket, bpm) == UpperBound(bucket, bpm + BpmTolerance) - LowerBound(bucket, bpm - BpmTolerance)

\* nearestTempoCandidates: one step takes the nearer of the two neighbours, and the
\* slower one of two that are as near.
Probed(bucket, bpm, p) ==
  LET first == LowerBound(bucket, bpm - BpmTolerance)
      end == UpperBound(bucket, bpm + BpmTolerance)
      nearer == bpm - Tracks[bucket[p.left]].bpm <= Tracks[bucket[p.right]].bpm - bpm
  IN CASE p.left < first /\ p.right >= end -> p
       [] p.left >= first /\ (p.right >= end \/ nearer) ->
            [p EXCEPT !.left = @ - 1, !.taken = @ \cup {bucket[p.left]}]
       [] OTHER -> [p EXCEPT !.right = @ + 1, !.taken = @ \cup {bucket[p.right]}]

NearestTempos(bucket, bpm, limit) ==
  LET at == LowerBound(bucket, bpm)
      probe[n \in 0..limit] ==
        IF n = 0 THEN [left |-> at - 1, right |-> at, taken |-> {}]
        ELSE Probed(bucket, bpm, probe[n - 1])
  IN probe[limit].taken

\* A mutant: a probe that was cut short is not told.
ProbeUntold(instrumentals, v) == FALSE

\* probeWasBounded.
ProbeWasBounded(instrumentals, v) ==
  \E k \in CompatibleKeys(v) :
    InRange(Bucket(instrumentals, k[1], k[2]), Tracks[v].bpm) > 2 * MaxPartners

\* The partners of a vocal that pass the hard filters.
PartnersOf(instrumentals, v) ==
  LET possible == UNION {NearestTempos(Bucket(instrumentals, k[1], k[2]), Tracks[v].bpm, 2 * MaxPartners) :
                           k \in CompatibleKeys(v)}
  IN {p \in {v} \X possible : Ranked(p)}

LeastOf(m, n) == IF m < n THEN m ELSE n

NoOffer == [pairs |-> {}, truncated |-> FALSE]

\* rankRoulettePairsBoundedWithMetadata: the vocals one after another, each with its
\* best partners.
Pooled(vocals, instrumentals, v, p) ==
  LET partners == PartnersOf(instrumentals, v)
      selected == LeastOf(LeastOf(MaxPartners, MaxPairs - Cardinality(p.pairs)), Cardinality(partners))
  IN IF v \notin vocals THEN p
     ELSE IF Cardinality(p.pairs) >= MaxPairs THEN [p EXCEPT !.truncated = TRUE]
     ELSE IF Tracks[v].bpm = 0 THEN p
     ELSE [pairs |-> p.pairs \cup BestOf(partners, selected),
           truncated |-> \/ p.truncated \/ ProbeWasBounded(instrumentals, v)
                         \/ Cardinality(partners) > selected
                         \/ /\ Cardinality(p.pairs) + selected >= MaxPairs
                            /\ \E w \in vocals : w > v]

BoundedPairs(vocals, instrumentals) ==
  LET pool[n \in 0..Len(Tracks)] ==
        IF n = 0 THEN NoOffer ELSE Pooled(vocals, instrumentals, n, pool[n - 1])
  IN pool[Len(Tracks)]

-----------------------------------------------------------------------------
RouletteInit == roVocals = {} /\ roInstrumentals = {} /\ roOffer = NoOffer

\* The library gives the two pools, and the page ranks them.
PoolsLoad ==
  /\ roVocals = {} /\ roInstrumentals = {}
  /\ roVocals' \in SUBSET TrackIds /\ roInstrumentals' \in SUBSET TrackIds
  /\ roOffer' = BoundedPairs(roVocals', roInstrumentals')

RouletteNext == PoolsLoad

RouletteSpec == RouletteInit /\ [][RouletteNext]_rouletteVars

RouletteTypeOK ==
  /\ roVocals \subseteq TrackIds /\ roInstrumentals \subseteq TrackIds
  /\ roOffer.pairs \subseteq roVocals \X roInstrumentals /\ roOffer.truncated \in BOOLEAN

-----------------------------------------------------------------------------
\* The bounded ranking offers only pairs of the full ranking, within its bounds, and
\* unless it says that it was truncated it offers all of them; and a pair counts as
\* eligible for the page exactly if the ranking takes it.
PairsAreExact ==
  /\ Cardinality(roOffer.pairs) <= MaxPairs
  /\ \A v \in roVocals : Cardinality({p \in roOffer.pairs : p[1] = v}) <= MaxPartners
  /\ \A p \in roVocals \X roInstrumentals :
       /\ Ranked(p) <=> DiagnosticReason(p[1], p[2]) = "eligible"
       /\ IF Ranked(p) THEN p \in roOffer.pairs \/ roOffer.truncated ELSE p \notin roOffer.pairs
=============================================================================
