---------------------------- MODULE Music_proofs ----------------------------
(***************************************************************************)
(* The theorems of what lib/music computes and of the two labs that play a *)
(* pair of tracks.  For every grid, every list of phrases and every        *)
(* sequence of edits the cue editor keeps cues that fit together           *)
(* (CueEditor), and for every library the bounded ranking of pairs offers  *)
(* what the full one would (RoulettePairs); both rest on what sorting and  *)
(* filtering do to a list (Ordering).  Whatever answers late, the labs     *)
(* play the pair that the page shows (FlipLab, DropLabPreview), by an      *)
(* inductive invariant of each.                                            *)
(***************************************************************************)
EXTENDS CueEditor, RoulettePairs, FlipLab, DropLabPreview, FiniteSetTheorems, FunctionTheorems,
        SequenceTheorems, WellFoundedInduction, TLAPS

-----------------------------------------------------------------------------
(* Array.sort and Array.filter.                                            *)

\* upto is a total order of S.
Orders(upto, S) ==
  /\ \A i \in S : <<i, i>> \in upto
  /\ \A i, j \in S : <<i, j>> \in upto \/ <<j, i>> \in upto
  /\ \A i, j \in S : <<i, j>> \in upto /\ <<j, i>> \in upto => i = j
  /\ \A i, j, k \in S : <<i, j>> \in upto /\ <<j, k>> \in upto => <<i, k>> \in upto

\* Whatever order a finite set has, Listed names each of its members once, in
\* that order.
LEMMA ListedInOrder ==
  ASSUME NEW S, IsFiniteSet(S), NEW upto, Orders(upto, S)
  PROVE  /\ Cardinality(S) \in Nat
         /\ Listed(S, upto) \in Bijection(1..Cardinality(S), S)
         /\ \A k, l \in 1..Cardinality(S) :
              k <= l => <<Listed(S, upto)[k], Listed(S, upto)[l]>> \in upto
         /\ \A i \in S : \E k \in 1..Cardinality(S) : Listed(S, upto)[k] = i
  <1> DEFINE n == Cardinality(S)
             Below(i) == {j \in S : <<j, i>> \in upto}
             r == [i \in S |-> Cardinality(Below(i))]
             L == Listed(S, upto)
  <1>1. n \in Nat /\ IsFiniteSet(1..n) /\ Cardinality(1..n) = n
    BY FS_CardinalityType, FS_Interval
  <1>2. ASSUME NEW i \in S
        PROVE  /\ IsFiniteSet(Below(i)) /\ Cardinality(Below(i)) \in 1..n
               /\ i \in Below(i)
    <2>1. i \in Below(i) /\ Below(i) \in SUBSET S
      BY DEF Orders
    <2>2. IsFiniteSet(Below(i)) /\ Cardinality(Below(i)) <= n
      BY <2>1, FS_Subset
    <2>3. Cardinality(Below(i)) \in Nat /\ Cardinality(Below(i)) # 0
      BY <2>1, <2>2, FS_CardinalityType, FS_EmptySet
    <2> QED BY <1>1, <2>1, <2>2, <2>3
  <1>3. ASSUME NEW i \in S, NEW j \in S, <<i, j>> \in upto
        PROVE  r[i] <= r[j] /\ (r[i] = r[j] => i = j)
    <2>1. Below(i) \in SUBSET Below(j)
      BY <1>3 DEF Orders
    <2>2. Cardinality(Below(i)) <= Cardinality(Below(j))
          /\ (Cardinality(Below(j)) = Cardinality(Below(i)) => Below(j) = Below(i))
      BY <1>2, <2>1, FS_Subset
    <2>3. Below(j) = Below(i) => i = j
      BY <1>2, <1>3 DEF Orders
    <2> QED BY <2>2, <2>3
  <1>4. r \in Injection(S, 1..n)
    <2>1. r \in [S -> 1..n]
      BY <1>2
    <2>2. \A i, j \in S : r[i] = r[j] => i = j
      BY <1>3 DEF Orders
    <2> QED BY <2>1, <2>2, Fun_IsInj
  <1>5. \A k \in 1..n : \E i \in S : r[i] = k
    <2> HIDE DEF r
    <2>1. r \in Surjection(S, 1..n)
      BY <1>1, <1>4, FS_Injection
    <2> QED BY <2>1, Fun_SurjectionProperties
  <1>6. ASSUME NEW k \in 1..n
        PROVE  L[k] \in S /\ r[L[k]] = k
    <2> DEFINE p == CHOOSE p \in Placed(S, upto) : p[1] = k
    <2>1. Placed(S, upto) = {<<r[i], i>> : i \in S}
      BY DEF Placed
    <2>2. PICK i \in S : r[i] = k
      BY <1>5
    <2>3. <<r[i], i>> \in Placed(S, upto) /\ <<r[i], i>>[1] = k
      BY <2>1, <2>2
    <2>4. p \in Placed(S, upto) /\ p[1] = k
      BY <2>3
    <2>5. L[k] = p[2]
      BY DEF Listed
    <2> HIDE DEF p, r, L
    <2>6. PICK j \in S : p = <<r[j], j>>
      BY <2>1, <2>4
    <2> QED BY <2>4, <2>5, <2>6
  <1>7. L \in [1..n -> S]
    <2>1. L = [k \in 1..n |-> L[k]]
      BY DEF Listed
    <2> QED BY <1>6, <2>1
  <1> HIDE DEF L, r
  <1>8. L \in Bijection(1..n, S) /\ \A i \in S : \E k \in 1..n : L[k] = i
    <2>1. \A k, l \in 1..n : L[k] = L[l] => k = l
      BY <1>6
    <2>2. \A i \in S : \E k \in 1..n : L[k] = i
      <3> SUFFICES ASSUME NEW i \in S PROVE \E k \in 1..n : L[k] = i
        OBVIOUS
      <3>1. r \in [S -> 1..n] /\ \A a, b \in S : r[a] = r[b] => a = b
        BY <1>4, Fun_InjectionProperties
      <3>2. L[r[i]] = i
        BY <1>6, <3>1
      <3> QED BY <3>1, <3>2
    <2> QED BY <1>7, <2>1, <2>2, Fun_IsBij
  <1>9. ASSUME NEW k \in 1..n, NEW l \in 1..n, k <= l
        PROVE  <<L[k], L[l]>> \in upto
    <2>1. L[k] \in S /\ L[l] \in S /\ r[L[k]] = k /\ r[L[l]] = l
      BY <1>6
    <2>2. CASE <<L[l], L[k]>> \in upto
      <3>1. l <= k /\ (l = k => L[l] = L[k])
        BY <1>3, <2>1, <2>2
      <3> QED BY <1>1, <1>9, <2>1, <3>1 DEF Orders
    <2> QED BY <2>1, <2>2 DEF Orders
  <1> QED BY <1>1, <1>8, <1>9 DEF L

\* before is an order of S in which some members may be level.
WeakOrder(before, S) ==
  /\ \A i, j \in S : <<i, j>> \in before => <<j, i>> \notin before
  /\ \A i, j, k \in S : <<i, k>> \in before => <<i, j>> \in before \/ <<j, k>> \in before

\* Sorting moves the members of a sequence to other places, and none comes after one
\* that it is before.
LEMMA SortedMoves ==
  ASSUME NEW n \in Nat, NEW s, DOMAIN s = 1..n, NEW before, WeakOrder(before, 1..n)
  PROVE  \E f \in Bijection(1..n, 1..n) :
           /\ Sorted(s, before) = [k \in 1..n |-> s[f[k]]]
           /\ \A k, l \in 1..n : k <= l => <<f[l], f[k]>> \notin before
  <1> DEFINE upto == {p \in (1..n) \X (1..n) :
                        p \in before \/ (<<p[2], p[1]>> \notin before /\ p[1] <= p[2])}
             f == Listed(1..n, upto)
  <1>1. \A i, j \in 1..n : <<i, j>> \in upto <=> <<i, j>> \in before \/ (<<j, i>> \notin before /\ i <= j)
    OBVIOUS
  <1> HIDE DEF upto
  <1>2. Orders(upto, 1..n)
    <2>1. \A i \in 1..n : <<i, i>> \in upto
      BY <1>1 DEF WeakOrder
    <2> DEFINE B(i, j) == <<i, j>> \in before
               U(i, j) == <<i, j>> \in upto
    <2>2. \A i, j \in 1..n : B(i, j) => ~B(j, i)
      BY DEF WeakOrder
    <2>3. \A i, j, k \in 1..n : B(i, k) => B(i, j) \/ B(j, k)
      BY DEF WeakOrder
    <2>4. \A i, j \in 1..n : U(i, j) <=> B(i, j) \/ (~B(j, i) /\ i <= j)
      BY <1>1
    <2> HIDE DEF B, U
    <2>5. \A i, j \in 1..n : U(i, j) \/ U(j, i)
      BY <2>4
    <2>6. \A i, j \in 1..n : U(i, j) /\ U(j, i) => i = j
      BY <2>2, <2>4
    <2>7. ASSUME NEW i \in 1..n, NEW j \in 1..n, NEW k \in 1..n, U(i, j), U(j, k) PROVE U(i, k)
      <3>2. CASE B(i, k)
        BY <3>2, <2>4
      <3>3. CASE ~B(i, k)
        <4>1. ~B(k, i)
          <5> SUFFICES ASSUME B(k, i) PROVE FALSE
            OBVIOUS
          <5>1. B(k, j) \/ B(j, i)
            BY <2>3
          <5> QED BY <5>1, <2>2, <2>4, <2>7
        <4>2. ~B(i, j) \/ B(j, k) \/ B(i, k)
          <5>1. B(i, j) => B(i, k) \/ B(k, j)
            BY <2>3
          <5> QED BY <5>1, <2>2, <2>4, <2>7
        <4>3. ~B(j, k) \/ B(j, i)
          BY <2>3, <3>3
        <4>4. ~B(i, j) /\ ~B(j, k)
          BY <4>2, <4>3, <3>3, <2>2, <2>3, <2>4, <2>7
        <4> QED BY <4>1, <4>4, <2>4, <2>7
      <3> QED BY <3>2, <3>3
    <2> QED BY <2>1, <2>5, <2>6, <2>7 DEF Orders, U
  <1>3. IsFiniteSet(1..n) /\ Cardinality(1..n) = n
    BY FS_Interval
  <1>4. f \in Bijection(1..n, 1..n) /\ \A k, l \in 1..n : k <= l => <<f[k], f[l]>> \in upto
    BY <1>2, <1>3, ListedInOrder
  <1>5. Sorted(s, before) = [k \in 1..n |-> s[f[k]]]
    BY DEF Sorted, upto
  <1>6. \A k, l \in 1..n : k <= l => <<f[l], f[k]>> \notin before
    <2> HIDE DEF f
    <2>1. f \in [1..n -> 1..n]
      BY <1>4, Fun_BijectionProperties
    <2> QED BY <1>1, <1>4, <2>1 DEF WeakOrder
  <1> QED BY <1>4, <1>5, <1>6

\* Filtering keeps the members at the places in keep, in their order.
KeptBy(d, s, keep, f) ==
  /\ f \in [1..Cardinality(keep) -> keep]
  /\ \A i \in keep : \E k \in 1..Cardinality(keep) : f[k] = i
  /\ \A k, l \in 1..Cardinality(keep) : f[k] = f[l] => k = l
  /\ d = [k \in 1..Cardinality(keep) |-> s[f[k]]]
  /\ \A k, l \in 1..Cardinality(keep) : k <= l => f[k] <= f[l]

LEMMA FilteredKeeps ==
  ASSUME NEW n \in Nat, NEW s, NEW keep \in SUBSET (1..n)
  PROVE  /\ Cardinality(keep) \in Nat
         /\ \E f : KeptBy(Filtered(s, keep), s, keep, f)
  <1> DEFINE upto == {p \in keep \X keep : p[1] <= p[2]}
             f == Listed(keep, upto)
  <1>1. Orders(upto, keep)
    BY DEF Orders
  <1>2. IsFiniteSet(keep)
    <2>1. IsFiniteSet(1..n)
      BY FS_Interval
    <2> QED BY <2>1, FS_Subset
  <1>3. Filtered(s, keep) = [k \in 1..Cardinality(keep) |-> s[f[k]]]
    BY DEF Filtered, upto
  <1> HIDE DEF upto
  <1>4. /\ Cardinality(keep) \in Nat /\ f \in Bijection(1..Cardinality(keep), keep)
        /\ \A k, l \in 1..Cardinality(keep) : k <= l => <<f[k], f[l]>> \in upto
        /\ \A i \in keep : \E k \in 1..Cardinality(keep) : f[k] = i
    BY <1>1, <1>2, ListedInOrder
  <1>5. \A k, l \in 1..Cardinality(keep) : k <= l => f[k] <= f[l]
    BY <1>4 DEF upto
  <1> HIDE DEF f
  <1>6. f \in [1..Cardinality(keep) -> keep]
        /\ \A k, l \in 1..Cardinality(keep) : f[k] = f[l] => k = l
    BY <1>4, Fun_BijectionProperties
  <1>7. \A i \in keep : \E k \in 1..Cardinality(keep) : f[k] = i
    BY <1>4
  <1>8. KeptBy(Filtered(s, keep), s, keep, f)
    BY <1>3, <1>5, <1>6, <1>7 DEF KeptBy
  <1> QED BY <1>4, <1>8

\* Induction, in the form the provers can use: a set of naturals that is not
\* empty has a least member.
LEMMA LeastNatural ==
  ASSUME NEW T, T \subseteq Nat, T # {}
  PROVE  \E n \in T : \A m \in T : n <= m
  <1>1. PICK n \in T : \A m \in T : ~(<<m, n>> \in OpToRel(<, Nat))
    BY WFMin, NatLessThanWellFounded
  <1>2. \A m \in T : ~(m < n)
    BY <1>1 DEF OpToRel
  <1> QED BY <1>2

-----------------------------------------------------------------------------
(* Auto Cue: the beats it looks for, and what it proposes.                 *)

\* The least and the greatest of some places, and the nearest of some beats.
LEMMA EarliestIs ==
  ASSUME NEW S \in SUBSET Nat, S # {}
  PROVE  Earliest(S) \in S /\ \A y \in S : Earliest(S) <= y
  <1>1. \E n \in S : \A m \in S : n <= m
    BY LeastNatural
  <1> QED BY <1>1 DEF Earliest

LEMMA LatestIs ==
  ASSUME NEW n \in Nat, NEW S \in SUBSET (0 .. n), S # {}
  PROVE  Latest(S) \in S /\ \A y \in S : y <= Latest(S)
  <1> DEFINE T == {n - x : x \in S}
  <1>1. T \subseteq Nat /\ T # {}
    <2>1. \A x \in S : x \in Nat /\ x <= n
      OBVIOUS
    <2>2. \A x \in S : n - x \in Nat
      BY <2>1
    <2> QED BY <2>2
  <1>2. PICK t \in T : \A m \in T : t <= m
    BY <1>1, LeastNatural
  <1>3. PICK x \in S : t = n - x
    BY <1>2
  <1>4. ASSUME NEW y \in S PROVE x >= y
    <2>1. n - y \in T
      OBVIOUS
    <2>2. t <= n - y
      BY <1>2, <2>1
    <2> QED BY <2>2, <1>3
  <1>5. \E w \in S : \A y \in S : w >= y
    BY <1>4
  <1>6. Latest(S) \in S /\ \A y \in S : Latest(S) >= y
    BY <1>5 DEF Latest
  <1> QED BY <1>6

LEMMA NearestIs ==
  ASSUME NEW bs \in SUBSET Beats, bs # {}, NEW ms \in Nat
  PROVE  /\ Nearest(bs, ms) \in bs
         /\ \A c \in bs : Distance(At(Nearest(bs, ms)), ms) <= Distance(At(c), ms)
  <1> USE CueEditorAssumption
  <1> DEFINE D(b) == Distance(At(b), ms)
             T == {D(b) : b \in bs}
  <1>1. \A b \in bs : b \in Nat /\ D(b) \in Nat
    BY DEF Beats, At, Distance
  <1>2. T \subseteq Nat /\ T # {}
    BY <1>1
  <1> HIDE DEF D
  <1>3. PICK d \in T : \A e \in T : d <= e
    BY <1>2, LeastNatural
  <1> DEFINE N == {b \in bs : D(b) = d}
  <1>4. N \subseteq Nat /\ N # {}
    BY <1>1, <1>3
  <1>5. PICK b \in N : \A c \in N : b <= c
    BY <1>4, LeastNatural
  <1>6. ASSUME NEW c \in bs PROVE D(b) < D(c) \/ (D(b) = D(c) /\ b <= c)
    <2>1. d <= D(c) /\ d \in Nat
      BY <1>2, <1>3
    <2>2. D(c) = d => b <= c
      BY <1>5
    <2> QED BY <1>1, <1>5, <2>1, <2>2
  <1>7. \E x \in bs : \A c \in bs : D(x) < D(c) \/ (D(x) = D(c) /\ x <= c)
    BY <1>5, <1>6
  <1>8. Nearest(bs, ms) = CHOOSE x \in bs : \A c \in bs : D(x) < D(c) \/ (D(x) = D(c) /\ x <= c)
    BY DEF Nearest, D
  <1>9. /\ Nearest(bs, ms) \in bs
        /\ \A c \in bs : D(Nearest(bs, ms)) < D(c) \/ (D(Nearest(bs, ms)) = D(c) /\ Nearest(bs, ms) <= c)
    BY <1>7, <1>8
  <1>10. \A c \in bs : D(Nearest(bs, ms)) <= D(c)
    BY <1>1, <1>9
  <1> QED BY <1>9, <1>10 DEF D

\* Every position has a nearest beat, and that of a beat is itself.
LEMMA NearestBeat ==
  ASSUME NEW ms \in Nat
  PROVE  Nearest(Beats, ms) \in Beats /\ Nearest(Beats, ms) \in Nat
  <1>1. 1 \in Beats
    BY CueEditorAssumption DEF Beats
  <1>2. Nearest(Beats, ms) \in Beats
    BY <1>1, NearestIs
  <1> QED BY <1>2, CueEditorAssumption DEF Beats

LEMMA NearestOfBeat ==
  ASSUME NEW b \in Beats
  PROVE  Nearest(Beats, At(b)) = b
  <1> USE CueEditorAssumption
  <1>1. At(b) \in Nat /\ b \in Nat
    BY DEF At, Beats
  <1>2. /\ Nearest(Beats, At(b)) \in Beats
        /\ Distance(At(Nearest(Beats, At(b))), At(b)) <= Distance(At(b), At(b))
    BY <1>1, NearestIs
  <1> QED BY <1>1, <1>2 DEF Distance, At, Beats

\* Whatever the snap, a position goes to a beat.
LEMMA SnapBeat ==
  ASSUME NEW snap \in Snaps, NEW ms \in Nat, snap # "off"
  PROVE  Nearest(SnapBeats(snap), ms) \in Beats
  <1>1. SnapBeats(snap) \in SUBSET Beats /\ SnapBeats(snap) # {}
    <2>1. Beats # {}
      BY CueEditorAssumption DEF Beats
    <2> QED BY <2>1 DEF SnapBeats, Snaps, Downbeats
  <1> QED BY <1>1, NearestIs

\* A bar has BarBeats beats, so the beat with the same place in another bar is as many
\* times that many beats away.
LEMMA SameInBar ==
  ASSUME NEW b \in Beats, NEW c \in Beats, Bar(b) > 0, NEW bars \in Int,
         Bar(c) = Bar(b) + bars, Bar(c) > 0, InBar(c) = InBar(b)
  PROVE  c = b + bars * BarBeats
  <1> USE CueEditorAssumption
  <1> DEFINE x == b - Upbeats - 1
             y == c - Upbeats - 1
  <1>1. BarBeats \in Nat \ {0} /\ x \in Int /\ y \in Int
    BY DEF Beats
  <1>2. b > Upbeats /\ c > Upbeats
    <2>1. \A a \in Beats : a \in Int /\ Upbeats \in Int /\ (a <= Upbeats => Bar(a) = 0)
      BY DEF Bar, Beats
    <2> QED BY <2>1
  <1>3. Bar(b) = x \div BarBeats + 1 /\ Bar(c) = y \div BarBeats + 1
    BY <1>2 DEF Bar, Beats
  <1>4. x % BarBeats = y % BarBeats
    BY <1>1 DEF InBar
  <1>5. \A z \in Int, n \in Nat \ {0} : z = n * (z \div n) + (z % n) /\ z \div n \in Int /\ z % n \in Int
    BY Z3
  <1> DEFINE p == x \div BarBeats
             q == y \div BarBeats
  <1>6. /\ x = BarBeats * p + (x % BarBeats) /\ y = BarBeats * q + (y % BarBeats)
        /\ p \in Int /\ q \in Int /\ x % BarBeats \in Int
    BY <1>1, <1>5
  <1>7. q = p + bars
    BY <1>3, <1>6
  <1> HIDE DEF p, q
  <1>8. BarBeats * (p + bars) = BarBeats * p + bars * BarBeats
    BY <1>1, <1>6
  <1>9. BarBeats * q = BarBeats * p + bars * BarBeats
    BY <1>7, <1>8
  <1> DEFINE r == x % BarBeats
             u == BarBeats * p
             v == bars * BarBeats
  <1>10. x = u + r /\ y = (u + v) + r /\ r \in Int /\ u \in Int /\ v \in Int
    <2> HIDE DEF x, y
    <2>1. r \in Int /\ u \in Int /\ v \in Int
      BY <1>1, <1>6
    <2>2. x = u + r
      BY <1>6
    <2> DEFINE z == BarBeats * q
    <2>3. y = z + r
      BY <1>6, <1>4
    <2>4. z = u + v
      BY <1>9
    <2> HIDE DEF z
    <2> QED BY <2>1, <2>2, <2>3, <2>4
  <1> HIDE DEF r, u, v
  <1>11. c - Upbeats - 1 = (b - Upbeats - 1) + v
    BY <1>10
  <1>12. c = b + v
    BY <1>10, <1>11 DEF Beats
  <1> QED BY <1>12 DEF v

\* Some bars on from a beat there is the beat with the same place in its bar, or none.
LEMMA BarOffset ==
  ASSUME NEW b \in Beats, NEW bars \in Int
  PROVE  \/ ByBarOffset(b, bars) = None
         \/ ByBarOffset(b, bars) \in Beats /\ ByBarOffset(b, bars) = b + bars * BarBeats
  <1> USE CueEditorAssumption
  <1>1. CASE bars = 0
    BY <1>1 DEF ByBarOffset, Beats
  <1>2. CASE bars # 0
    <2> DEFINE found == IF Bar(b) > 0
               THEN {c \in Beats : /\ Bar(b) + bars > 0
                                   /\ Bar(c) = Bar(b) + bars /\ InBar(c) = InBar(b)}
               ELSE {c \in Beats : bars >= 0 /\ c = b + bars * BarBeats}
    <2>1. ASSUME NEW c \in found PROVE c \in Beats /\ c = b + bars * BarBeats
      BY <2>1, SameInBar
    <2>2. ByBarOffset(b, bars) = IF found = {} THEN None ELSE CHOOSE c \in found : TRUE
      BY <1>2 DEF ByBarOffset
    <2> HIDE DEF found
    <2>3. found # {} => ByBarOffset(b, bars) \in found
      BY <2>2
    <2> QED BY <2>1, <2>2, <2>3
  <1> QED BY <1>1, <1>2

\* What is known of the track: its phrases begin on beats, its vocal is on a position.
TrackKnown ==
  /\ \E bs \in SUBSET PhraseBeats : cePhrases \in [bs -> PhraseKinds]
  /\ ceVocal \in {None} \cup Places

\* Facts about beats and phrases that every rule of Auto Cue rests on.
LEMMA PhrasesOnBeats ==
  ASSUME TrackKnown
  PROVE  DOMAIN cePhrases \subseteq Beats
  BY CueEditorAssumption DEF TrackKnown, Beats

LEMMA BeatsAreNumbers ==
  /\ Beats \subseteq 0 .. GridBeats /\ Beats \subseteq Nat /\ GridBeats \in Nat
  /\ None \notin Beats /\ None = -1 /\ Beats \cup {None} \subseteq Int
  <1>1. None = -1 /\ None \in Int
    BY DEF None
  <1> QED BY <1>1, CueEditorAssumption DEF Beats

LEMMA FirstLast ==
  ASSUME NEW bs \in SUBSET Beats
  PROVE  /\ bs = {} => FirstOf(bs) = None /\ LastOf(bs) = None
         /\ bs # {} => FirstOf(bs) \in bs /\ LastOf(bs) \in bs
         /\ bs # {} => Earliest(bs) \in bs /\ Latest(bs) \in bs
  <1>1. bs \in SUBSET Nat /\ bs \in SUBSET (0 .. GridBeats) /\ GridBeats \in Nat
    BY BeatsAreNumbers
  <1>2. bs # {} => Earliest(bs) \in bs
    BY <1>1, EarliestIs
  <1>3. bs # {} => Latest(bs) \in bs
    BY <1>1, LatestIs
  <1> QED BY <1>2, <1>3 DEF FirstOf, LastOf

\* The beats the rules choose: the drop, and the others in their order around it.
LEMMA DropIs ==
  ASSUME TrackKnown
  PROVE  DropBeat \in Beats \cup {None}
  <1> DEFINE choruses == Begins({"Chorus"})
             late == {b \in choruses : 5 * At(b) >= At(GridBeats)}
             ups == After(Begins({"Up"}), LastOf(choruses))
  <1>1. choruses \in SUBSET Beats /\ late \in SUBSET Beats /\ ups \in SUBSET Beats
    BY PhrasesOnBeats DEF Begins, After
  <1>2. DropBeat = IF late # {} THEN FirstOf(late)
                   ELSE IF choruses = {} THEN None
                   ELSE IF ups # {} THEN FirstOf(ups) ELSE LastOf(choruses)
    BY DEF DropBeat
  <1> HIDE DEF choruses, late, ups
  <1> QED BY <1>1, <1>2, FirstLast

LEMMA VocalIs ==
  ASSUME TrackKnown, DropBeat \in Beats
  PROVE  VocalBeat = None \/ (VocalBeat \in Beats /\ VocalBeat <= DropBeat)
  <1> DEFINE onset == Nearest(Beats, ceVocal)
             bars(b) == IF Bar(onset) > 0 /\ Bar(b) > 0 THEN Distance(Bar(onset), Bar(b)) <= NearBars
                        ELSE Distance(onset, b) <= NearBars * BarBeats
             near == {b \in Upto(DOMAIN cePhrases, DropBeat) : bars(b)}
             downs == {b \in Downbeats : b <= onset}
  <1>1. VocalBeat = IF ceVocal = None \/ ceVocal >= At(DropBeat) THEN None
                    ELSE IF near # {} THEN Nearest(near, ceVocal)
                    ELSE IF downs # {} THEN Latest(downs) ELSE onset
    BY DEF VocalBeat
  <1>2. CASE ceVocal = None \/ ceVocal >= At(DropBeat)
    BY <1>1, <1>2
  <1>3. CASE ceVocal # None /\ ~(ceVocal >= At(DropBeat))
    <2>1. ceVocal \in Nat
      BY <1>3, CueEditorAssumption DEF TrackKnown
    <2>2. onset \in Beats /\ Distance(At(onset), ceVocal) <= Distance(At(DropBeat), ceVocal)
      <3>1. Beats # {}
        OBVIOUS
      <3> QED BY <2>1, <3>1, NearestIs
    <2>3. onset <= DropBeat
      <3> DEFINE drop == DropBeat
      <3> HIDE DEF onset, drop
      <3>1. onset \in Nat /\ drop \in Nat
        BY <2>2, BeatsAreNumbers DEF drop
      <3>2. ceVocal < At(drop) /\ Distance(At(onset), ceVocal) <= Distance(At(drop), ceVocal)
        BY <1>3, <2>1, <2>2, <3>1 DEF drop, At
      <3>3. onset <= drop
        BY <2>1, <3>1, <3>2 DEF Distance, At
      <3> QED BY <3>3 DEF drop
    <2>4. near \in SUBSET Beats /\ \A b \in near : b < DropBeat
      BY PhrasesOnBeats DEF Upto
    <2>5. downs \in SUBSET Beats /\ \A b \in downs : b <= onset
      BY DEF Downbeats
    <2> HIDE DEF near, downs, onset
    <2>6. CASE near # {}
      <3>1. Nearest(near, ceVocal) \in near
        BY <2>1, <2>4, <2>6, NearestIs
      <3>2. VocalBeat = Nearest(near, ceVocal)
        BY <1>1, <1>3, <2>6
      <3>3. VocalBeat \in Beats /\ VocalBeat < DropBeat
        BY <2>4, <3>1, <3>2
      <3> HIDE DEF onset
      <3> QED BY <3>3, BeatsAreNumbers
    <2>7. CASE near = {} /\ downs # {}
      <3>1. Latest(downs) \in downs
        BY <2>5, <2>7, FirstLast
      <3>2. VocalBeat = Latest(downs)
        BY <1>1, <1>3, <2>7
      <3>3. VocalBeat \in Beats /\ VocalBeat <= onset
        BY <2>5, <3>1, <3>2
      <3> QED BY <2>2, <2>3, <3>3, BeatsAreNumbers
    <2>8. CASE near = {} /\ downs = {}
      BY <1>1, <1>3, <2>8, <2>2, <2>3
    <2> QED BY <2>6, <2>7, <2>8
  <1> QED BY <1>2, <1>3

LEMMA BuildupIs ==
  ASSUME TrackKnown, DropBeat \in Beats
  PROVE  BuildupBeat = None \/ (BuildupBeat \in Beats /\ BuildupBeat <= DropBeat)
  <1> DEFINE before == Upto(DOMAIN cePhrases, DropBeat)
             rising == before \cap Begins({"Up", "Verse"})
  <1>1. before \in SUBSET Beats /\ rising \in SUBSET Beats
        /\ \A b \in before : b < DropBeat
    BY PhrasesOnBeats DEF Upto
  <1>2. rising \subseteq before
    OBVIOUS
  <1>3. BuildupBeat = IF rising # {} THEN Latest(rising)
                      ELSE IF before # {} THEN Latest(before) ELSE ByBarOffset(DropBeat, -LeadBars)
    BY DEF BuildupBeat
  <1> HIDE DEF before, rising
  <1>4. CASE rising # {} \/ before # {}
    <2>1. BuildupBeat \in before
      BY <1>1, <1>2, <1>3, <1>4, FirstLast
    <2> QED BY <1>1, <2>1, BeatsAreNumbers
  <1>5. CASE rising = {} /\ before = {}
    <2>1. LeadBars \in Nat /\ BarBeats \in Nat /\ -LeadBars \in Int /\ (-LeadBars) * BarBeats <= 0
      BY CueEditorAssumption
    <2>2. BuildupBeat = ByBarOffset(DropBeat, -LeadBars)
      BY <1>3, <1>5
    <2>3. \/ ByBarOffset(DropBeat, -LeadBars) = None
          \/ ByBarOffset(DropBeat, -LeadBars) \in Beats
             /\ ByBarOffset(DropBeat, -LeadBars) = DropBeat + (-LeadBars) * BarBeats
      BY <2>1, BarOffset
    <2> DEFINE x == (-LeadBars) * BarBeats
    <2>4. x \in Int /\ x <= 0
      BY <2>1
    <2>5. BuildupBeat = None \/ (BuildupBeat \in Beats /\ BuildupBeat = DropBeat + x)
      BY <2>2, <2>3
    <2> HIDE DEF x
    <2> QED BY <2>4, <2>5, BeatsAreNumbers
  <1> QED BY <1>4, <1>5

LEMMA BreakIs ==
  ASSUME TrackKnown
  PROVE  BreakBeat = None \/ (BreakBeat \in Beats /\ BreakBeat > DropBeat)
  <1> DEFINE later == After(Begins({"Down"}), DropBeat)
  <1>1. later \in SUBSET Beats /\ \A b \in later : b > DropBeat
    BY PhrasesOnBeats DEF Begins, After
  <1>2. BreakBeat = FirstOf(later)
    BY DEF BreakBeat
  <1> HIDE DEF later
  <1> QED BY <1>1, <1>2, FirstLast

LEMMA RecoveryIs ==
  ASSUME TrackKnown
  PROVE  \/ RecoveryBeat = None
         \/ /\ RecoveryBeat \in Beats /\ RecoveryBeat > DropBeat
            /\ BreakBeat # None => RecoveryBeat > BreakBeat
  <1> DEFINE base == IF BreakBeat # None THEN BreakBeat ELSE DropBeat
             later == After(Begins({"Chorus"}), base)
  <1>1. later \in SUBSET Beats /\ \A b \in later : b > base
    BY PhrasesOnBeats DEF Begins, After
  <1>2. RecoveryBeat = IF base = None THEN None ELSE FirstOf(later)
    BY DEF RecoveryBeat
  <1>3. BreakBeat # None => base = BreakBeat /\ base \in Beats /\ base > DropBeat
    BY BreakIs
  <1>4. BreakBeat = None => base = DropBeat
    OBVIOUS
  <1> HIDE DEF later, base
  <1>5. CASE RecoveryBeat # None
    <2>1. RecoveryBeat \in Beats /\ RecoveryBeat > base
      BY <1>1, <1>2, <1>5, FirstLast
    <2>2. CASE BreakBeat # None
      <3>1. RecoveryBeat \in Int /\ BreakBeat \in Int /\ DropBeat \in Int
        BY <1>3, <2>1, <2>2, DropIs, BeatsAreNumbers
      <3>2. RecoveryBeat > BreakBeat /\ BreakBeat > DropBeat
        BY <1>3, <2>1, <2>2
      <3>3. RecoveryBeat > DropBeat
        BY <3>1, <3>2
      <3> QED BY <2>1, <3>2, <3>3
    <2>3. CASE BreakBeat = None
      BY <1>4, <2>1, <2>3
    <2> QED BY <2>2, <2>3
  <1> QED BY <1>5

LEMMA OutroIs ==
  ASSUME TrackKnown
  PROVE  OutroBeat \in Beats \cup {None}
  <1>1. Begins({"Outro"}) \in SUBSET Beats /\ DOMAIN cePhrases \in SUBSET Beats
    BY PhrasesOnBeats DEF Begins
  <1> QED BY <1>1, FirstLast DEF OutroBeat

\* A loop is proposed only where all its bars fit on the grid.
LEMMA LoopIs ==
  ASSUME NEW b \in Beats \cup {None}
  PROVE  \/ IfLoop(b) = None
         \/ /\ IfLoop(b) = b /\ b \in Beats
            /\ ByBarOffset(b, LoopBars) \in Beats
            /\ ByBarOffset(b, LoopBars) = b + LoopBars * BarBeats
            /\ ByBarOffset(b, LoopBars) > b
  <1>1. LoopBars \in Int /\ LoopBars * BarBeats > 0 /\ LoopBars * BarBeats \in Int
    BY CueEditorAssumption
  <1>2. CASE IfLoop(b) # None
    <2>1. IfLoop(b) = b /\ b \in Beats /\ ByBarOffset(b, LoopBars) # None
      BY <1>2 DEF IfLoop, CanLoop
    <2>2. ByBarOffset(b, LoopBars) \in Beats /\ ByBarOffset(b, LoopBars) = b + LoopBars * BarBeats
      BY <1>1, <2>1, BarOffset
    <2> DEFINE x == LoopBars * BarBeats
    <2>3. ByBarOffset(b, LoopBars) > b
      <3>1. ByBarOffset(b, LoopBars) = b + x /\ x > 0 /\ x \in Int /\ b \in Int
        BY <1>1, <2>1, <2>2, BeatsAreNumbers
      <3> HIDE DEF x
      <3> QED BY <3>1
    <2> QED BY <2>1, <2>2, <2>3
  <1> QED BY <1>2

\* The Memory Cue that leads to a beat is on an earlier beat, or on the same one.
LEMMA LeadIs ==
  ASSUME NEW b \in Beats, NEW lead \in Nat
  PROVE  /\ LeadBeat(b, lead) \in Beats /\ LeadBeat(b, lead) <= b
         /\ lead = 0 => LeadBeat(b, lead) = b
  <1>1. -lead \in Int /\ (-lead) * BarBeats <= 0 /\ (-lead) * BarBeats \in Int
    BY CueEditorAssumption
  <1> DEFINE x == (-lead) * BarBeats
  <1>2. ByBarOffset(b, -lead) = None \/ (ByBarOffset(b, -lead) \in Beats /\ ByBarOffset(b, -lead) = b + x)
    BY <1>1, BarOffset
  <1>3. x <= 0 /\ x \in Int
    BY <1>1
  <1> HIDE DEF x
  <1>4. 1 \in Beats /\ 1 <= b
    BY CueEditorAssumption DEF Beats
  <1>5. LeadBeat(b, lead) \in Beats /\ LeadBeat(b, lead) <= b
    BY <1>2, <1>3, <1>4, BeatsAreNumbers DEF LeadBeat
  <1>6. lead = 0 => LeadBeat(b, lead) = b
    <2> DEFINE y == -lead
    <2>1. y \in Int /\ y + lead = 0
      OBVIOUS
    <2>2. LeadBeat(b, lead) = IF ByBarOffset(b, y) = None THEN 1 ELSE ByBarOffset(b, y)
      BY DEF LeadBeat
    <2> HIDE DEF y
    <2>3. lead = 0 => y = 0
      <3>1. lead = 0 => y + 0 = 0
        BY <2>1
      <3> QED BY <2>1, <3>1
    <2> QED BY <2>2, <2>3, BeatsAreNumbers DEF ByBarOffset
  <1> QED BY <1>5, <1>6

\* What Auto Cue proposes are beats of the grid.
LEMMA ProposedIs ==
  ASSUME TrackKnown, NEW s \in Slots
  PROVE  /\ Proposed[s] \in Beats \cup {None}
         /\ IsLoopSlot(s) /\ Proposed[s] # None
              => /\ ByBarOffset(Proposed[s], LoopBars) \in Beats
                 /\ ByBarOffset(Proposed[s], LoopBars) = Proposed[s] + LoopBars * BarBeats
                 /\ ByBarOffset(Proposed[s], LoopBars) > Proposed[s]
  <1>1. 1 \in Beats
    BY CueEditorAssumption DEF Beats
  <1>2. CASE s = 1
    <2>1. Proposed[s] = 1
      BY <1>2 DEF Proposed
    <2> QED BY <1>1, <1>2, <2>1 DEF IsLoopSlot
  <1>3. CASE s = 2
    <2>1. Proposed[s] = IfLoop(1)
      BY <1>3 DEF Proposed
    <2> QED BY <1>1, <2>1, LoopIs
  <1>4. CASE s = 3
    <2>1. Proposed[s] = IF DropBeat = None THEN None
                        ELSE IF VocalBeat # None THEN VocalBeat ELSE BuildupBeat
      BY <1>4 DEF Proposed
    <2> QED BY <1>4, <2>1, DropIs, VocalIs, BuildupIs DEF IsLoopSlot
  <1>5. CASE s = 4
    <2>1. Proposed[s] = DropBeat
      BY <1>5 DEF Proposed
    <2> QED BY <1>5, <2>1, DropIs DEF IsLoopSlot
  <1>6. CASE s = 5
    <2>1. Proposed[s] = BreakBeat
      BY <1>6 DEF Proposed
    <2> QED BY <1>6, <2>1, BreakIs DEF IsLoopSlot
  <1>7. CASE s = 6
    <2>1. Proposed[s] = RecoveryBeat
      BY <1>7 DEF Proposed
    <2> QED BY <1>7, <2>1, RecoveryIs DEF IsLoopSlot
  <1>8. CASE s = 7
    <2>1. Proposed[s] = OutroBeat
      BY <1>8 DEF Proposed
    <2> QED BY <1>8, <2>1, OutroIs DEF IsLoopSlot
  <1>9. CASE s = 8
    <2>1. Proposed[s] = IfLoop(OutroBeat)
      BY <1>9 DEF Proposed
    <2> QED BY <2>1, OutroIs, LoopIs
  <1> QED BY <1>2, <1>3, <1>4, <1>5, <1>6, <1>7, <1>8, <1>9 DEF Slots

\* For any grid and any phrases, what Auto Cue proposes follows the track.
LEMMA ProposalsFollowTrack ==
  ASSUME TrackKnown
  PROVE  ProposalsInOrder
  <1>1. /\ Proposed[3] = IF DropBeat = None THEN None
                         ELSE IF VocalBeat # None THEN VocalBeat ELSE BuildupBeat
        /\ Proposed[4] = DropBeat /\ Proposed[5] = BreakBeat /\ Proposed[6] = RecoveryBeat
    BY DEF Proposed, Slots
  <1>2. Proposed[3] # None => Proposed[3] <= Proposed[4]
    BY <1>1, DropIs, VocalIs, BuildupIs
  <1>3. ASSUME NEW s \in {2, 8}, Proposed[s] # None
        PROVE  Proposed[s] + LoopBars * BarBeats <= GridBeats
    <2>1. s \in Slots /\ IsLoopSlot(s)
      BY DEF Slots, IsLoopSlot
    <2>2. Proposed[s] + LoopBars * BarBeats \in Beats
      BY <1>3, <2>1, ProposedIs
    <2> DEFINE x == Proposed[s] + LoopBars * BarBeats
    <2> HIDE DEF x
    <2>3. x \in Beats => x <= GridBeats
      BY CueEditorAssumption DEF Beats
    <2> QED BY <2>2, <2>3 DEF x
  <1>4. (BreakBeat # None /\ DropBeat # None) => DropBeat < BreakBeat
    BY BreakIs, DropIs, BeatsAreNumbers
  <1>5. (RecoveryBeat # None /\ DropBeat # None) => DropBeat < RecoveryBeat
    BY RecoveryIs, DropIs, BeatsAreNumbers
  <1>6. (RecoveryBeat # None /\ BreakBeat # None) => BreakBeat < RecoveryBeat
    BY RecoveryIs, BreakIs, BeatsAreNumbers
  <1> QED BY <1>1, <1>2, <1>3, <1>4, <1>5, <1>6 DEF ProposalsInOrder

-----------------------------------------------------------------------------
(* The edits of the cue editor: each of them leaves cues that the editor   *)
(* may hold.                                                               *)

\* The cues that can exist.
CueRecords ==
  [id : Nat, family : {"hot", "memory"}, slot : 0 .. 8, type : {"cue", "loop"}, start : Nat,
   end : Int, active : BOOLEAN, pair : 0 .. 8, lead : {None, 0, LeadBars}, auto : BOOLEAN]

\* Hot Cues have slots, point cues no end, and the Memory Cues that belong to a Hot
\* Cue were generated.
Plain(c) ==
  /\ c.family = "hot" <=> c.slot # 0
  /\ c.type = "cue" => c.end = None /\ c.active = FALSE
  /\ c.type = "loop" => c.end \in Nat
  /\ c.pair # 0 => c.family = "memory" /\ c.auto = TRUE /\ c.lead # None

\* Cues that the editor may hold.
CuesOK(cues) ==
  /\ cues \in Seq(CueRecords)
  /\ \A i \in DOMAIN cues : Plain(cues[i])
  /\ SlotsOwned(cues)

\* Every loop ends after it starts.
Ranges(cues) == \A i \in DOMAIN cues : cues[i].type = "loop" => cues[i].end > cues[i].start

\* No two cues have one identity.
Unique(cues) == \A i, j \in DOMAIN cues : cues[i].id = cues[j].id => i = j

\* A Memory Cue that was generated for a slot has the Hot Cue of that slot, and no
\* other cue shares it.
Owned(cues) ==
  \A i \in DOMAIN cues : cues[i].pair # 0 =>
    /\ \E j \in DOMAIN cues : cues[j].family = "hot" /\ cues[j].slot = cues[i].pair
    /\ \A k \in DOMAIN cues :
         (cues[k].family = "memory" /\ cues[k].auto = TRUE /\ cues[k].pair = cues[i].pair) => k = i

\* What an edit may make of the cues.
Good(cues, next) ==
  /\ CuesOK(next)
  /\ Ranges(cues) => Ranges(next) \/ StartMovedAlone(cues, next)
  /\ Unique(cues) /\ Owned(cues) => Owned(next)

\* What is known of such cues, and of the place of an identity among them.
LEMMA CuesAre ==
  ASSUME NEW cues, CuesOK(cues)
  PROVE  /\ DOMAIN cues = 1 .. Len(cues) /\ Len(cues) \in Nat
         /\ \A i \in DOMAIN cues : i \in Nat /\ cues[i] \in CueRecords /\ Plain(cues[i])
  BY DEF CuesOK

LEMMA IndexIs ==
  ASSUME NEW cues, CuesOK(cues), NEW id \in Ids(cues)
  PROVE  IndexOf(cues, id) \in DOMAIN cues /\ cues[IndexOf(cues, id)].id = id
  <1> DEFINE S == {i \in DOMAIN cues : cues[i].id = id}
  <1>1. S \in SUBSET Nat /\ S # {}
    BY CuesAre DEF Ids
  <1>2. Earliest(S) \in S
    BY <1>1, EarliestIs
  <1> QED BY <1>2 DEF IndexOf

\* The server takes the cues exactly if each loop is a range.
LEMMA SaveableIs ==
  ASSUME NEW cues, CuesOK(cues)
  PROVE  Saveable(cues) <=> Ranges(cues)
  <1>1. ASSUME NEW i \in DOMAIN cues
        PROVE  CueLegal(cues[i]) <=> (cues[i].type = "loop" => cues[i].end > cues[i].start)
    <2> DEFINE c == cues[i]
    <2>1. c \in CueRecords /\ Plain(c)
      BY CuesAre
    <2> HIDE DEF c
    <2>2. /\ c.start \in Nat /\ c.slot \in 0 .. 8 /\ c.type \in {"cue", "loop"}
          /\ c.end \in Int /\ c.active \in BOOLEAN
      BY <2>1 DEF CueRecords
    <2>3. c.family = "hot" <=> c.slot \in Slots
      BY <2>1, <2>2 DEF Plain, Slots
    <2>4. c.type = "cue" => c.end = None /\ ~c.active
      BY <2>1 DEF Plain
    <2>5. c.type = "loop" => c.end # None
      BY <2>1 DEF Plain, None
    <2>6. c.type = "loop" => (CueLegal(c) <=> c.end > c.start)
      BY <2>2, <2>3, <2>5 DEF CueLegal
    <2>7. c.type = "cue" => CueLegal(c)
      BY <2>2, <2>3, <2>4 DEF CueLegal
    <2>8. CueLegal(c) <=> (c.type = "loop" => c.end > c.start)
      BY <2>2, <2>6, <2>7
    <2> QED BY <2>8 DEF c
  <1> QED BY <1>1 DEF Saveable, Ranges, CuesOK

\* An edit in place: nobody's family, slot or pair changes.
LEMMA InPlace ==
  ASSUME NEW cues, CuesOK(cues), NEW next, next \in Seq(CueRecords),
         DOMAIN next = DOMAIN cues,
         \A j \in DOMAIN cues :
           /\ Plain(next[j])
           /\ next[j].family = cues[j].family /\ next[j].slot = cues[j].slot
           /\ next[j].pair = cues[j].pair /\ next[j].auto = cues[j].auto
  PROVE  CuesOK(next) /\ (Owned(cues) => Owned(next))
  <1>1. CuesOK(next)
    BY DEF CuesOK, SlotsOwned
  <1>2. Owned(cues) => Owned(next)
    BY DEF Owned
  <1> QED BY <1>1, <1>2

\* One cue is replaced.
LEMMA ReplaceOne ==
  ASSUME NEW cues, CuesOK(cues), NEW i \in DOMAIN cues, NEW h \in CueRecords
  PROVE  /\ [cues EXCEPT ![i] = h] \in Seq(CueRecords)
         /\ DOMAIN [cues EXCEPT ![i] = h] = DOMAIN cues
         /\ \A j \in DOMAIN cues : [cues EXCEPT ![i] = h][j] = IF j = i THEN h ELSE cues[j]
  <1> DEFINE r == [cues EXCEPT ![i] = h]
  <1>1. DOMAIN cues = 1 .. Len(cues) /\ Len(cues) \in Nat
    BY CuesAre
  <1>2. \A j \in DOMAIN cues : r[j] = IF j = i THEN h ELSE cues[j]
    OBVIOUS
  <1>3. r \in [1 .. Len(cues) -> CueRecords]
    <2>1. r = [j \in 1 .. Len(cues) |-> r[j]]
      BY <1>1
    <2>2. \A j \in 1 .. Len(cues) : r[j] \in CueRecords
      BY <1>1, <1>2, CuesAre
    <2> QED BY <2>1, <2>2
  <1>4. r \in Seq(CueRecords)
    <2> HIDE DEF r
    <2>1. \E n \in Nat : r \in [1 .. n -> CueRecords]
      BY <1>1, <1>3
    <2> QED BY <2>1, SeqDef
  <1> QED BY <1>1, <1>2, <1>4

\* One cue is edited in place and stays a range if it is one.
LEMMA EditOne ==
  ASSUME NEW cues, CuesOK(cues), NEW i \in DOMAIN cues, NEW h \in CueRecords, Plain(h),
         h.family = cues[i].family, h.slot = cues[i].slot,
         h.pair = cues[i].pair, h.auto = cues[i].auto,
         Ranges(cues) => (h.type = "loop" => h.end > h.start)
  PROVE  Good(cues, [cues EXCEPT ![i] = h])
  <1> DEFINE r == [cues EXCEPT ![i] = h]
  <1>1. /\ r \in Seq(CueRecords) /\ DOMAIN r = DOMAIN cues
        /\ \A j \in DOMAIN cues : r[j] = IF j = i THEN h ELSE cues[j]
    BY ReplaceOne
  <1> HIDE DEF r
  <1>2. \A j \in DOMAIN cues :
           /\ Plain(r[j])
           /\ r[j].family = cues[j].family /\ r[j].slot = cues[j].slot
           /\ r[j].pair = cues[j].pair /\ r[j].auto = cues[j].auto
    BY <1>1, CuesAre
  <1>3. CuesOK(r) /\ (Owned(cues) => Owned(r))
    BY <1>1, <1>2, InPlace
  <1>4. Ranges(cues) => Ranges(r)
    BY <1>1 DEF Ranges
  <1>5. Good(cues, r)
    BY <1>3, <1>4 DEF Good
  <1> QED BY <1>5 DEF r

\* The cues stand in the order of their positions.
InOrder(cues) == \A i, j \in DOMAIN cues : i <= j => cues[i].start <= cues[j].start

\* Some of the cues, each at most once.
Picks(d, cues, m, f) ==
  /\ m \in Nat /\ f \in [1 .. m -> 1 .. Len(cues)]
  /\ \A k, l \in 1 .. m : f[k] = f[l] => k = l
  /\ d = [k \in 1 .. m |-> cues[f[k]]]

\* What was chosen from cues has the properties that no pair of cues is needed for.
LEMMA Picked ==
  ASSUME NEW cues, CuesOK(cues), NEW d, NEW m, NEW f, Picks(d, cues, m, f)
  PROVE  /\ CuesOK(d) /\ DOMAIN d = 1 .. m /\ Len(d) = m
         /\ Ranges(cues) => Ranges(d)
         /\ Unique(cues) => Unique(d)
  <1>1. DOMAIN d = 1 .. m /\ \A k \in 1 .. m : f[k] \in DOMAIN cues /\ d[k] = cues[f[k]]
    BY CuesAre DEF Picks
  <1>2. d \in [1 .. m -> CueRecords] /\ m \in Nat
    BY <1>1, CuesAre DEF Picks
  <1>3. d \in Seq(CueRecords) /\ Len(d) = m
    BY <1>2, SeqDef, LenProperties
  <1>4. \A k \in 1 .. m : Plain(d[k])
    BY <1>1, CuesAre
  <1>5. SlotsOwned(d)
    BY <1>1 DEF CuesOK, SlotsOwned, Picks
  <1>6. Ranges(cues) => Ranges(d)
    BY <1>1 DEF Ranges
  <1>7. Unique(cues) => Unique(d)
    BY <1>1 DEF Unique, Picks
  <1>8. CuesOK(d)
    BY <1>1, <1>3, <1>4, <1>5 DEF CuesOK
  <1> QED BY <1>1, <1>3, <1>6, <1>7, <1>8

\* All of the cues in another order.
LEMMA Shuffled ==
  ASSUME NEW cues, CuesOK(cues),
         NEW f \in Bijection(1 .. Len(cues), 1 .. Len(cues))
  PROVE  LET d == [k \in 1 .. Len(cues) |-> cues[f[k]]]
         IN  /\ CuesOK(d) /\ DOMAIN d = DOMAIN cues /\ Len(d) = Len(cues)
             /\ Ranges(cues) => Ranges(d)
             /\ Unique(cues) => Unique(d)
             /\ Owned(cues) => Owned(d)
             /\ \A i \in DOMAIN cues : \E k \in DOMAIN d : d[k] = cues[i]
  <1> DEFINE n == Len(cues)
             d == [k \in 1 .. n |-> cues[f[k]]]
  <1>1. DOMAIN cues = 1 .. n /\ n \in Nat
    BY CuesAre
  <1>2. /\ f \in [1 .. n -> 1 .. n] /\ \A k, l \in 1 .. n : f[k] = f[l] => k = l
    BY Fun_BijectionProperties
  <1>3. \A i \in 1 .. n : \E k \in 1 .. n : f[k] = i
    BY Fun_BijectionProperties
  <1>4. /\ CuesOK(d) /\ DOMAIN d = 1 .. n /\ Len(d) = n
        /\ (Ranges(cues) => Ranges(d)) /\ (Unique(cues) => Unique(d))
    <2>1. Picks(d, cues, n, f)
      BY <1>1, <1>2 DEF Picks
    <2> HIDE DEF d, n
    <2> QED BY <2>1, Picked
  <1>5. \A k \in 1 .. n : d[k] = cues[f[k]]
    OBVIOUS
  <1> HIDE DEF d, n
  <1>6. \A i \in 1 .. n : \E k \in 1 .. n : d[k] = cues[i]
    BY <1>3, <1>5
  <1>7. Owned(cues) => Owned(d)
    <2> DEFINE Has(k) == \E j \in 1 .. n : d[j].family = "hot" /\ d[j].slot = d[k].pair
               Sole(k) == \A l \in 1 .. n :
                            (d[l].family = "memory" /\ d[l].auto = TRUE /\ d[l].pair = d[k].pair) => l = k
    <2>0. Owned(d) <=> \A k \in 1 .. n : d[k].pair # 0 => Has(k) /\ Sole(k)
      BY <1>4 DEF Owned
    <2> SUFFICES ASSUME Owned(cues), NEW k \in 1 .. n, d[k].pair # 0 PROVE Has(k) /\ Sole(k)
      BY <2>0
    <2>1. f[k] \in 1 .. n /\ d[k] = cues[f[k]]
      BY <1>2, <1>5
    <2>2. \E j \in 1 .. n : d[j].family = "hot" /\ d[j].slot = d[k].pair
      <3>1. PICK i \in 1 .. n : cues[i].family = "hot" /\ cues[i].slot = cues[f[k]].pair
        BY <1>1, <2>1 DEF Owned
      <3>2. PICK j \in 1 .. n : d[j] = cues[i]
        BY <1>6
      <3> QED BY <2>1, <3>1, <3>2
    <2>3. ASSUME NEW l \in 1 .. n, d[l].family = "memory", d[l].auto = TRUE, d[l].pair = d[k].pair
          PROVE  l = k
      <3>1. f[l] \in 1 .. n /\ d[l] = cues[f[l]]
        BY <1>2, <1>5
      <3>2. f[l] = f[k]
        BY <1>1, <2>1, <2>3, <3>1 DEF Owned
      <3> QED BY <1>2, <3>2
    <2> QED BY <2>2, <2>3
  <1> QED BY <1>1, <1>4, <1>6, <1>7 DEF d, n

\* The order of the cues: by position, then by identity.
LEMMA CuesSorted ==
  ASSUME NEW cues, CuesOK(cues)
  PROVE  /\ CuesOK(SortCues(cues)) /\ InOrder(SortCues(cues))
         /\ DOMAIN SortCues(cues) = DOMAIN cues /\ Len(SortCues(cues)) = Len(cues)
         /\ Ranges(cues) => Ranges(SortCues(cues))
         /\ Unique(cues) => Unique(SortCues(cues))
         /\ Owned(cues) => Owned(SortCues(cues))
         /\ \A i \in DOMAIN cues : \E k \in DOMAIN SortCues(cues) : SortCues(cues)[k] = cues[i]
  <1> DEFINE n == Len(cues)
             before == {p \in (DOMAIN cues) \X (DOMAIN cues) : Before(cues[p[1]], cues[p[2]])}
             d == SortCues(cues)
  <1>1. /\ DOMAIN cues = 1 .. n /\ n \in Nat
        /\ \A i \in 1 .. n : cues[i].start \in Nat /\ cues[i].id \in Nat
    BY CuesAre DEF CueRecords
  <1>2. \A i, j \in 1 .. n : <<i, j>> \in before <=>
          (cues[i].start < cues[j].start \/ (cues[i].start = cues[j].start /\ cues[i].id < cues[j].id))
    BY <1>1 DEF Before
  <1>3. d = Sorted(cues, before)
    BY DEF SortCues
  <1> HIDE DEF before, d, n
  <1>4. WeakOrder(before, 1 .. n)
    <2>1. \A i, j \in 1 .. n : <<i, j>> \in before => <<j, i>> \notin before
      BY <1>1, <1>2
    <2>2. \A i, j, k \in 1 .. n : <<i, k>> \in before => <<i, j>> \in before \/ <<j, k>> \in before
      <3> SUFFICES ASSUME NEW i \in 1 .. n, NEW j \in 1 .. n, NEW k \in 1 .. n, <<i, k>> \in before
                   PROVE  <<i, j>> \in before \/ <<j, k>> \in before
        OBVIOUS
      <3> DEFINE st(x) == cues[x].start
                 nm(x) == cues[x].id
      <3>1. \A x \in 1 .. n : st(x) \in Nat /\ nm(x) \in Nat
        BY <1>1
      <3>2. \A x, y \in 1 .. n : <<x, y>> \in before <=>
                                 (st(x) < st(y) \/ (st(x) = st(y) /\ nm(x) < nm(y)))
        BY <1>2
      <3> HIDE DEF st, nm
      <3>3. st(i) < st(k) \/ (st(i) = st(k) /\ nm(i) < nm(k))
        BY <3>2
      <3>4. \/ st(i) < st(j) \/ (st(i) = st(j) /\ nm(i) < nm(j))
            \/ st(j) < st(k) \/ (st(j) = st(k) /\ nm(j) < nm(k))
        BY <3>1, <3>3
      <3> QED BY <3>2, <3>4
    <2> QED BY <2>1, <2>2 DEF WeakOrder
  <1>5. PICK f \in Bijection(1 .. n, 1 .. n) :
          /\ d = [k \in 1 .. n |-> cues[f[k]]]
          /\ \A k, l \in 1 .. n : k <= l => <<f[l], f[k]>> \notin before
    BY <1>1, <1>3, <1>4, SortedMoves
  <1>6. f \in Bijection(1 .. Len(cues), 1 .. Len(cues))
    BY <1>5 DEF n
  <1>7. /\ CuesOK(d) /\ DOMAIN d = DOMAIN cues /\ Len(d) = Len(cues)
        /\ (Ranges(cues) => Ranges(d)) /\ (Unique(cues) => Unique(d))
        /\ (Owned(cues) => Owned(d))
        /\ \A i \in DOMAIN cues : \E k \in DOMAIN d : d[k] = cues[i]
    BY <1>5, <1>6, Shuffled DEF n
  <1>8. InOrder(d)
    <2> SUFFICES ASSUME NEW i \in 1 .. n, NEW j \in 1 .. n, i <= j
                 PROVE  d[i].start <= d[j].start
      BY <1>1, <1>7 DEF InOrder
    <2>1. f \in [1 .. n -> 1 .. n]
      BY Fun_BijectionProperties
    <2>2. <<f[j], f[i]>> \notin before /\ d[i] = cues[f[i]] /\ d[j] = cues[f[j]]
      BY <1>5
    <2> DEFINE u == f[i]
               v == f[j]
    <2>3. u \in 1 .. n /\ v \in 1 .. n /\ <<v, u>> \notin before
      BY <2>1, <2>2
    <2>4. d[i].start = cues[u].start /\ d[j].start = cues[v].start
      BY <2>2
    <2> HIDE DEF u, v
    <2>5. cues[u].start \in Nat /\ cues[v].start \in Nat /\ ~(cues[v].start < cues[u].start)
      BY <1>1, <1>2, <2>3
    <2> QED BY <2>4, <2>5
  <1> QED BY <1>7, <1>8 DEF d

\* Sorting the result of an edit is no edit of its own.
LEMMA SortKeepsGood ==
  ASSUME NEW cues, NEW next, Good(cues, next)
  PROVE  Good(cues, SortCues(next))
  <1> DEFINE d == SortCues(next)
  <1>1. CuesOK(next)
    BY DEF Good
  <1>2. /\ CuesOK(d) /\ (Ranges(next) => Ranges(d)) /\ (Owned(next) => Owned(d))
        /\ \A i \in DOMAIN next : \E k \in DOMAIN d : d[k] = next[i]
    BY <1>1, CuesSorted
  <1> HIDE DEF d
  <1>3. StartMovedAlone(cues, next) => StartMovedAlone(cues, d)
    BY <1>2 DEF StartMovedAlone
  <1>4. Good(cues, d)
    BY <1>2, <1>3 DEF Good
  <1> QED BY <1>4 DEF d

\* The position of what has none.
LEMMA NoneIs == None = -1 /\ None \in Int /\ None \notin Nat
  BY DEF None

\* What the fields of a cue are.
LEMMA CueIs ==
  ASSUME NEW c \in CueRecords
  PROVE  /\ c.id \in Nat /\ c.family \in {"hot", "memory"} /\ c.slot \in 0 .. 8
         /\ c.type \in {"cue", "loop"} /\ c.start \in Nat /\ c.end \in Int
         /\ c.active \in BOOLEAN /\ c.pair \in 0 .. 8 /\ c.lead \in {None, 0, LeadBars}
         /\ c.auto \in BOOLEAN
  BY DEF CueRecords

\* A loop becomes a point cue.
LEMMA GoodToCue ==
  ASSUME NEW cues, CuesOK(cues), NEW id \in Ids(cues)
  PROVE  Good(cues, ToCue(cues, id))
  <1> DEFINE i == IndexOf(cues, id)
             c == cues[i]
             h == [c EXCEPT !.type = "cue", !.end = None, !.active = FALSE]
  <1>1. i \in DOMAIN cues
    BY IndexIs
  <1>2. c \in CueRecords /\ Plain(c)
    BY <1>1, CuesAre
  <1>3. ToCue(cues, id) = [cues EXCEPT ![i] = h]
    BY DEF ToCue
  <1> HIDE DEF c
  <1>4. h \in CueRecords
    BY <1>2, NoneIs DEF CueRecords
  <1>5. /\ h.type = "cue" /\ h.end = None /\ h.active = FALSE /\ h.family = c.family
        /\ h.slot = c.slot /\ h.pair = c.pair /\ h.auto = c.auto /\ h.lead = c.lead
    BY <1>2 DEF CueRecords
  <1> HIDE DEF h, i
  <1>6. Plain(h)
    BY <1>2, <1>5 DEF Plain
  <1>7. Good(cues, [cues EXCEPT ![i] = h])
    BY <1>1, <1>4, <1>5, <1>6, EditOne DEF c
  <1> QED BY <1>3, <1>7

\* A loop is switched on or off.
LEMMA GoodToggle ==
  ASSUME NEW cues, CuesOK(cues), NEW id \in Ids(cues),
         cues[IndexOf(cues, id)].type = "loop"
  PROVE  Good(cues, [cues EXCEPT ![IndexOf(cues, id)].active = ~@])
  <1> DEFINE i == IndexOf(cues, id)
             c == cues[i]
             h == [c EXCEPT !.active = ~c.active]
  <1>1. i \in DOMAIN cues
    BY IndexIs
  <1>2. c \in CueRecords /\ Plain(c) /\ c.type = "loop"
    BY <1>1, CuesAre
  <1>3. [cues EXCEPT ![i].active = ~@] = [cues EXCEPT ![i] = h]
    OBVIOUS
  <1>8. Ranges(cues) => c.end > c.start
    BY <1>1, <1>2 DEF Ranges
  <1> HIDE DEF c
  <1>4. h \in CueRecords
    BY <1>2 DEF CueRecords
  <1>5. /\ h.type = c.type /\ h.end = c.end /\ h.start = c.start /\ h.family = c.family
        /\ h.slot = c.slot /\ h.pair = c.pair /\ h.auto = c.auto /\ h.lead = c.lead
    BY <1>2 DEF CueRecords
  <1> HIDE DEF h
  <1>6. Plain(h)
    BY <1>2, <1>5 DEF Plain
  <1> HIDE DEF i
  <1>7. Good(cues, [cues EXCEPT ![i] = h])
    BY <1>1, <1>4, <1>5, <1>6, <1>8, EditOne DEF c
  <1> QED BY <1>3, <1>7 DEF i

\* A cue becomes a loop of some bars.
LEMMA GoodToLoop ==
  ASSUME NEW cues, CuesOK(cues), NEW id \in Ids(cues)
  PROVE  ToLoop(cues, id) = << >> \/ Good(cues, ToLoop(cues, id))
  <1> DEFINE i == IndexOf(cues, id)
             c == cues[i]
             b == Nearest(Beats, c.start)
             e == b + LoopBars * BarBeats
             end == c.start + At(e) - At(b)
             h == [c EXCEPT !.type = "loop", !.active = FALSE, !.end = end]
  <1>1. i \in DOMAIN cues
    BY IndexIs
  <1>2. c \in CueRecords /\ Plain(c)
    BY <1>1, CuesAre
  <1>3. ToLoop(cues, id) = IF e > GridBeats THEN << >> ELSE [cues EXCEPT ![i] = h]
    BY DEF ToLoop
  <1>4. c.start \in Nat
    BY <1>2, CueIs
  <1> HIDE DEF c
  <1>5. b \in Nat
    BY <1>4, NearestBeat
  <1>6. end \in Nat /\ end > c.start
    <2> DEFINE x == LoopBars * BarBeats
    <2>1. x \in Nat /\ x > 0
      BY CueEditorAssumption
    <2>2. e = b + x
      OBVIOUS
    <2> HIDE DEF x, b, e
    <2> QED BY <1>4, <1>5, <2>1, <2>2 DEF At
  <1> HIDE DEF end, e, b
  <1>7. h \in CueRecords
    <2>1. end \in Int
      BY <1>6
    <2>2. [c EXCEPT !.type = "loop", !.active = FALSE] \in CueRecords
      BY <1>2 DEF CueRecords
    <2> DEFINE g == [c EXCEPT !.type = "loop", !.active = FALSE]
    <2>3. h = [g EXCEPT !.end = end]
      BY <1>2 DEF CueRecords
    <2> HIDE DEF h, g
    <2>4. g \in CueRecords
      BY <2>2 DEF g
    <2> QED BY <2>1, <2>3, <2>4 DEF CueRecords
  <1>8. /\ h.type = "loop" /\ h.end = end /\ h.start = c.start /\ h.family = c.family
        /\ h.slot = c.slot /\ h.pair = c.pair /\ h.auto = c.auto /\ h.lead = c.lead
    BY <1>2 DEF CueRecords
  <1> HIDE DEF h, i
  <1>9. Plain(h)
    BY <1>2, <1>6, <1>8 DEF Plain
  <1>10. Good(cues, [cues EXCEPT ![i] = h])
    BY <1>1, <1>6, <1>7, <1>8, <1>9, EditOne DEF c
  <1> QED BY <1>3, <1>10

\* The end of a loop is set.
LEMMA GoodToEnd ==
  ASSUME NEW cues, CuesOK(cues), NEW id \in Ids(cues), NEW ms \in Places, NEW snap \in Snaps,
         cues[IndexOf(cues, id)].type = "loop"
  PROVE  ToEnd(cues, id, ms, snap) = << >> \/ Good(cues, ToEnd(cues, id, ms, snap))
  <1> DEFINE i == IndexOf(cues, id)
             c == cues[i]
             end == IF snap = "off" THEN ms ELSE At(Nearest(SnapBeats(snap), ms))
             h == [c EXCEPT !.end = end]
  <1>1. i \in DOMAIN cues
    BY IndexIs
  <1>2. c \in CueRecords /\ Plain(c) /\ c.type = "loop"
    BY <1>1, CuesAre
  <1>3. ToEnd(cues, id, ms, snap) =
          IF ms <= c.start \/ end <= c.start THEN << >> ELSE [cues EXCEPT ![i] = h]
    BY DEF ToEnd
  <1>4. c.start \in Nat /\ ms \in Nat
    BY <1>2, CueIs, CueEditorAssumption
  <1> HIDE DEF c
  <1>5. end \in Nat
    <2>1. snap # "off" => Nearest(SnapBeats(snap), ms) \in Beats
      BY <1>4, SnapBeat
    <2>2. \A b \in Beats : At(b) \in Nat
      BY CueEditorAssumption DEF Beats, At
    <2> QED BY <1>4, <2>1, <2>2
  <1> HIDE DEF end
  <1>6. CASE ms <= c.start \/ end <= c.start
    BY <1>3, <1>6
  <1>7. CASE end > c.start
    <2>1. h \in CueRecords
      BY <1>2, <1>5 DEF CueRecords
    <2>2. /\ h.type = "loop" /\ h.end = end /\ h.start = c.start /\ h.family = c.family
          /\ h.slot = c.slot /\ h.pair = c.pair /\ h.auto = c.auto /\ h.lead = c.lead
      BY <1>2 DEF CueRecords
    <2> HIDE DEF h, i
    <2>3. Plain(h)
      BY <1>2, <1>5, <2>2 DEF Plain
    <2>4. Good(cues, [cues EXCEPT ![i] = h])
      BY <1>1, <1>7, <2>1, <2>2, <2>3, EditOne DEF c
    <2> QED BY <1>3, <2>4
  <1> QED BY <1>4, <1>5, <1>6, <1>7

\* A cue is added, a Hot Cue in a free slot.
LEMMA GoodAdded ==
  ASSUME NEW cues, CuesOK(cues), NEW id \in Nat, NEW family \in {"hot", "memory"},
         NEW ms \in Places, NEW snap \in Snaps
  PROVE  Added(cues, id, family, ms, snap) = << >> \/ Good(cues, Added(cues, id, family, ms, snap))
  <1> DEFINE start == IF snap = "off" THEN ms ELSE At(Nearest(SnapBeats(snap), ms))
             slot == IF family = "hot" THEN Earliest(FreeSlots(cues)) ELSE 0
             c == Cue(id, family, slot, "cue", start, None)
             d == Append(cues, c)
             n == Len(cues)
  <1>1. Added(cues, id, family, ms, snap) = IF family = "hot" /\ FreeSlots(cues) = {} THEN << >> ELSE d
    BY DEF Added
  <1>2. SUFFICES ASSUME ~(family = "hot" /\ FreeSlots(cues) = {})
                 PROVE  Good(cues, d)
    BY <1>1
  <1>3. start \in Nat
    <2>1. ms \in Nat
      BY CueEditorAssumption
    <2>2. snap # "off" => Nearest(SnapBeats(snap), ms) \in Beats
      BY <2>1, SnapBeat
    <2>3. \A b \in Beats : At(b) \in Nat
      BY CueEditorAssumption DEF Beats, At
    <2> QED BY <2>1, <2>2, <2>3
  <1>4. /\ slot \in 0 .. 8 /\ (family = "hot" <=> slot # 0)
        /\ family = "hot" => slot \notin HotSlots(cues)
    <2>1. FreeSlots(cues) \in SUBSET Nat /\ FreeSlots(cues) \subseteq 1 .. 8
      BY DEF FreeSlots, Slots
    <2>2. family = "hot" => Earliest(FreeSlots(cues)) \in FreeSlots(cues)
      BY <1>2, <2>1, EarliestIs
    <2>3. FreeSlots(cues) \cap HotSlots(cues) = {}
      BY DEF FreeSlots
    <2> QED BY <2>1, <2>2, <2>3
  <1> HIDE DEF start, slot
  <1>5. c \in CueRecords
    BY <1>3, <1>4, NoneIs DEF Cue, CueRecords
  <1>6. /\ c.family = family /\ c.slot = slot /\ c.type = "cue" /\ c.end = None
        /\ c.active = FALSE /\ c.pair = 0
    BY DEF Cue
  <1>7. Plain(c)
    BY <1>4, <1>6 DEF Plain
  <1> HIDE DEF c
  <1>8. cues \in Seq(CueRecords) /\ DOMAIN cues = 1 .. n /\ n \in Nat
    BY CuesAre DEF CuesOK
  <1>9. /\ d \in Seq(CueRecords) /\ DOMAIN d = 1 .. n + 1
        /\ \A j \in 1 .. n : d[j] = cues[j]
        /\ d[n + 1] = c
    BY <1>5, <1>8, AppendProperties, LenProperties
  <1> HIDE DEF d, n
  <1>10. \A j \in 1 .. n + 1 : j \in 1 .. n \/ j = n + 1
    BY <1>8
  <1>11. 1 .. n \subseteq 1 .. n + 1 /\ n + 1 \in 1 .. n + 1
    BY <1>8
  <1>12. SlotsOwned(d)
    <2>1. \A j \in 1 .. n : cues[j].family = "hot" => cues[j].slot \in HotSlots(cues)
      BY <1>8 DEF HotSlots
    <2>2. SlotsOwned(cues)
      BY DEF CuesOK
    <2> SUFFICES ASSUME NEW j \in 1 .. n + 1, NEW k \in 1 .. n + 1, j # k,
                        d[j].family = "hot", d[k].family = "hot"
                 PROVE  d[j].slot # d[k].slot
      BY <1>9 DEF SlotsOwned
    <2>3. CASE j \in 1 .. n /\ k \in 1 .. n
      BY <1>8, <1>9, <2>2, <2>3 DEF SlotsOwned
    <2>4. CASE j = n + 1 \/ k = n + 1
      BY <1>4, <1>6, <1>9, <1>10, <2>1, <2>4
    <2> QED BY <1>10, <2>3, <2>4
  <1>13. CuesOK(d)
    BY <1>7, <1>8, <1>9, <1>10, <1>12, CuesAre DEF CuesOK
  <1>14. Ranges(cues) => Ranges(d)
    BY <1>6, <1>8, <1>9, <1>10 DEF Ranges
  <1>15. Owned(cues) => Owned(d)
    <2> SUFFICES ASSUME Owned(cues), NEW j \in 1 .. n + 1, d[j].pair # 0
                 PROVE  /\ \E k \in 1 .. n + 1 : d[k].family = "hot" /\ d[k].slot = d[j].pair
                        /\ \A k \in 1 .. n + 1 :
                             (d[k].family = "memory" /\ d[k].auto = TRUE /\ d[k].pair = d[j].pair) => k = j
      BY <1>9 DEF Owned
    <2>1. j \in 1 .. n /\ d[j] = cues[j]
      BY <1>6, <1>9, <1>10
    <2>2. \E k \in 1 .. n : cues[k].family = "hot" /\ cues[k].slot = cues[j].pair
      BY <1>8, <2>1 DEF Owned
    <2>3. \A k \in 1 .. n :
            (cues[k].family = "memory" /\ cues[k].auto = TRUE /\ cues[k].pair = cues[j].pair) => k = j
      BY <1>8, <2>1 DEF Owned
    <2> QED BY <1>6, <1>9, <1>10, <1>11, <2>1, <2>2, <2>3
  <1> QED BY <1>13, <1>14, <1>15 DEF Good

\* A Memory Cue becomes a Hot Cue of a free slot.
LEMMA GoodToHot ==
  ASSUME NEW cues, CuesOK(cues), NEW id \in Ids(cues), NEW slot \in SlotsTried \ HotSlots(cues),
         cues[IndexOf(cues, id)].family = "memory"
  PROVE  Good(cues, ToHot(cues, id, slot))
  <1> DEFINE i == IndexOf(cues, id)
             c == cues[i]
             h == [c EXCEPT !.family = "hot", !.slot = slot, !.pair = 0]
             d == [cues EXCEPT ![i] = h]
  <1>1. i \in DOMAIN cues
    BY IndexIs
  <1>2. c \in CueRecords /\ Plain(c)
    BY <1>1, CuesAre
  <1>3. ToHot(cues, id, slot) = d
    BY DEF ToHot
  <1>4. slot \in 1 .. 8 /\ slot \in 0 .. 8 /\ slot # 0 /\ slot \notin HotSlots(cues)
    BY CueEditorAssumption
  <1> HIDE DEF c
  <1>5. h \in CueRecords
    <2> DEFINE g == [c EXCEPT !.family = "hot", !.slot = slot]
    <2>1. g \in CueRecords
      BY <1>2, <1>4 DEF CueRecords
    <2>2. h = [g EXCEPT !.pair = 0]
      BY <1>2 DEF CueRecords
    <2> HIDE DEF g, h
    <2> QED BY <2>1, <2>2 DEF CueRecords
  <1>6. /\ h.family = "hot" /\ h.slot = slot /\ h.pair = 0 /\ h.type = c.type
        /\ h.end = c.end /\ h.start = c.start /\ h.active = c.active
    BY <1>2 DEF CueRecords
  <1> HIDE DEF h
  <1>7. Plain(h)
    BY <1>2, <1>4, <1>6 DEF Plain
  <1>8. /\ d \in Seq(CueRecords) /\ DOMAIN d = DOMAIN cues
        /\ \A j \in DOMAIN cues : d[j] = IF j = i THEN h ELSE cues[j]
    BY <1>1, <1>5, ReplaceOne
  <1> HIDE DEF d, i
  <1>9. SlotsOwned(d)
    <2>1. \A j \in DOMAIN cues : cues[j].family = "hot" => cues[j].slot \in HotSlots(cues)
      BY DEF HotSlots
    <2>2. SlotsOwned(cues)
      BY DEF CuesOK
    <2> QED BY <1>4, <1>6, <1>8, <2>1, <2>2 DEF SlotsOwned
  <1>10. CuesOK(d)
    BY <1>7, <1>8, <1>9, CuesAre DEF CuesOK
  <1>11. Ranges(cues) => Ranges(d)
    BY <1>1, <1>6, <1>8 DEF Ranges, c
  <1>12. Owned(cues) => Owned(d)
    <2>1. c.family = "memory"
      BY DEF c, i
    <2> SUFFICES ASSUME Owned(cues), NEW j \in DOMAIN cues, d[j].pair # 0
                 PROVE  /\ \E k \in DOMAIN cues : d[k].family = "hot" /\ d[k].slot = d[j].pair
                        /\ \A k \in DOMAIN cues :
                             (d[k].family = "memory" /\ d[k].auto = TRUE /\ d[k].pair = d[j].pair) => k = j
      BY <1>8 DEF Owned
    <2>2. j # i /\ d[j] = cues[j]
      BY <1>6, <1>8
    <2>3. PICK k \in DOMAIN cues : cues[k].family = "hot" /\ cues[k].slot = cues[j].pair
      BY <2>2 DEF Owned
    <2>4. k # i
      BY <2>1, <2>3 DEF c
    <2>5. \A l \in DOMAIN cues :
            (cues[l].family = "memory" /\ cues[l].auto = TRUE /\ cues[l].pair = cues[j].pair) => l = j
      BY <2>2 DEF Owned
    <2> QED BY <1>6, <1>8, <2>2, <2>3, <2>4, <2>5
  <1>13. Good(cues, d)
    BY <1>10, <1>11, <1>12 DEF Good
  <1> QED BY <1>3, <1>13

\* What is left of the cues when some of them are filtered out.
OwnedIn(cues, keep) ==
  \A i \in keep : cues[i].pair # 0 =>
    /\ \E j \in keep : cues[j].family = "hot" /\ cues[j].slot = cues[i].pair
    /\ \A k \in keep :
         (cues[k].family = "memory" /\ cues[k].auto = TRUE /\ cues[k].pair = cues[i].pair) => k = i

LEMMA CuesKept ==
  ASSUME NEW cues, CuesOK(cues), NEW keep \in SUBSET (DOMAIN cues)
  PROVE  /\ CuesOK(Filtered(cues, keep))
         /\ Ranges(cues) => Ranges(Filtered(cues, keep))
         /\ Unique(cues) => Unique(Filtered(cues, keep))
         /\ InOrder(cues) => InOrder(Filtered(cues, keep))
         /\ OwnedIn(cues, keep) => Owned(Filtered(cues, keep))
         /\ \A k \in DOMAIN Filtered(cues, keep) : \E i \in keep : Filtered(cues, keep)[k] = cues[i]
         /\ \A i \in keep : \E k \in DOMAIN Filtered(cues, keep) : Filtered(cues, keep)[k] = cues[i]
  <1> DEFINE n == Len(cues)
             m == Cardinality(keep)
             d == Filtered(cues, keep)
  <1>1. DOMAIN cues = 1 .. n /\ n \in Nat
    BY CuesAre
  <1>2. m \in Nat
    BY <1>1, FilteredKeeps
  <1>3. PICK f : KeptBy(d, cues, keep, f)
    BY <1>1, FilteredKeeps
  <1>4. /\ f \in [1 .. m -> keep] /\ d = [k \in 1 .. m |-> cues[f[k]]]
        /\ \A k, l \in 1 .. m : f[k] = f[l] => k = l
        /\ \A k, l \in 1 .. m : k <= l => f[k] <= f[l]
    BY <1>3 DEF KeptBy
  <1>5. \A i \in keep : \E k \in 1 .. m : f[k] = i
    BY <1>3 DEF KeptBy
  <1> HIDE DEF d, m, n
  <1>6. Picks(d, cues, m, f)
    <2>1. f \in [1 .. m -> 1 .. Len(cues)]
      BY <1>1, <1>4 DEF n
    <2> QED BY <1>2, <1>4, <1>4, <2>1 DEF Picks
  <1>7. /\ CuesOK(d) /\ DOMAIN d = 1 .. m
        /\ (Ranges(cues) => Ranges(d)) /\ (Unique(cues) => Unique(d))
    BY <1>6, Picked
  <1>8. \A k \in 1 .. m : d[k] = cues[f[k]] /\ f[k] \in keep
    BY <1>4, <1>4
  <1>9. InOrder(cues) => InOrder(d)
    BY <1>4, <1>7, <1>8 DEF InOrder
  <1>10. OwnedIn(cues, keep) => Owned(d)
    <2> SUFFICES ASSUME OwnedIn(cues, keep), NEW k \in 1 .. m, d[k].pair # 0
                 PROVE  /\ \E j \in 1 .. m : d[j].family = "hot" /\ d[j].slot = d[k].pair
                        /\ \A l \in 1 .. m :
                             (d[l].family = "memory" /\ d[l].auto = TRUE /\ d[l].pair = d[k].pair) => l = k
      BY <1>7 DEF Owned
    <2>1. PICK i \in keep : cues[i].family = "hot" /\ cues[i].slot = d[k].pair
      BY <1>8 DEF OwnedIn
    <2>2. PICK j \in 1 .. m : f[j] = i
      BY <1>5
    <2>3. ASSUME NEW l \in 1 .. m, d[l].family = "memory", d[l].auto = TRUE, d[l].pair = d[k].pair
          PROVE  l = k
      <3>1. f[l] = f[k]
        BY <1>8, <2>3 DEF OwnedIn
      <3> QED BY <1>4, <3>1
    <2> QED BY <1>8, <2>1, <2>2, <2>3
  <1>11. /\ \A k \in DOMAIN d : \E i \in keep : d[k] = cues[i]
         /\ \A i \in keep : \E k \in DOMAIN d : d[k] = cues[i]
    BY <1>5, <1>7, <1>8
  <1> QED BY <1>7, <1>9, <1>10, <1>11 DEF d

\* A Hot Cue becomes a Memory Cue; the one that was generated with it goes.
LEMMA GoodToMemory ==
  ASSUME NEW cues, CuesOK(cues), NEW id \in Ids(cues),
         cues[IndexOf(cues, id)].family = "hot"
  PROVE  Good(cues, ToMemory(cues, id))
  <1> DEFINE i == IndexOf(cues, id)
             c == cues[i]
             s == c.slot
             h == [c EXCEPT !.family = "memory", !.slot = 0, !.pair = 0]
             mid == [cues EXCEPT ![i] = h]
             keep == {j \in DOMAIN mid : ~(mid[j].id # id /\ j \in PairOf(mid, s))}
             d == Filtered(mid, keep)
  <1>1. i \in DOMAIN cues /\ c.id = id
    BY IndexIs
  <1>2. c \in CueRecords /\ Plain(c) /\ c.family = "hot"
    BY <1>1, CuesAre
  <1>3. ToMemory(cues, id) = d
    BY DEF ToMemory, Unpaired
  <1> HIDE DEF c
  <1>4. h \in CueRecords
    <2> DEFINE g == [c EXCEPT !.family = "memory", !.slot = 0]
    <2>0. 0 \in 0 .. 8
      OBVIOUS
    <2>1. g \in CueRecords
      BY <1>2, <2>0 DEF CueRecords
    <2>2. h = [g EXCEPT !.pair = 0]
      BY <1>2 DEF CueRecords
    <2> HIDE DEF g, h
    <2> QED BY <2>1, <2>2 DEF CueRecords
  <1>5. /\ h.family = "memory" /\ h.slot = 0 /\ h.pair = 0 /\ h.type = c.type
        /\ h.end = c.end /\ h.start = c.start /\ h.active = c.active /\ h.id = c.id
    BY <1>2 DEF CueRecords
  <1>6. Plain(h)
    BY <1>2, <1>5 DEF Plain
  <1> HIDE DEF h
  <1>7. /\ mid \in Seq(CueRecords) /\ DOMAIN mid = DOMAIN cues
        /\ \A j \in DOMAIN cues : mid[j] = IF j = i THEN h ELSE cues[j]
    BY <1>1, <1>4, ReplaceOne
  <1>8. s # 0
    BY <1>2 DEF Plain
  <1> HIDE DEF mid, i
  <1>9. CuesOK(mid)
    <2>1. SlotsOwned(mid)
      BY <1>5, <1>7 DEF SlotsOwned, CuesOK
    <2> QED BY <1>6, <1>7, <2>1, CuesAre DEF CuesOK
  <1>10. Ranges(cues) => Ranges(mid)
    BY <1>1, <1>5, <1>7 DEF Ranges, c
  <1>11. keep \in SUBSET (DOMAIN mid)
    OBVIOUS
  <1>12. Unique(cues) /\ Owned(cues) => OwnedIn(mid, keep)
    <2> SUFFICES ASSUME Unique(cues), Owned(cues), NEW j \in keep, mid[j].pair # 0
                 PROVE  /\ \E k \in keep : mid[k].family = "hot" /\ mid[k].slot = mid[j].pair
                        /\ \A k \in keep :
                             (mid[k].family = "memory" /\ mid[k].auto = TRUE /\ mid[k].pair = mid[j].pair) => k = j
      BY DEF OwnedIn
    <2>1. j \in DOMAIN cues /\ j # i /\ mid[j] = cues[j]
      BY <1>5, <1>7
    <2>2. cues[j].id # id
      BY <1>1, <2>1 DEF Unique, c
    <2>3. cues[j].pair # s
      BY <1>8, <2>1, <2>2, CuesAre DEF PairOf, Plain
    <2>4. PICK k \in DOMAIN cues : cues[k].family = "hot" /\ cues[k].slot = cues[j].pair
      BY <2>1 DEF Owned
    <2>5. k # i /\ mid[k] = cues[k]
      BY <1>7, <2>3, <2>4 DEF c
    <2>6. k \in keep
      BY <1>7, <2>4, <2>5 DEF PairOf
    <2>7. \A l \in DOMAIN cues :
            (cues[l].family = "memory" /\ cues[l].auto = TRUE /\ cues[l].pair = cues[j].pair) => l = j
      BY <2>1 DEF Owned
    <2> QED BY <1>5, <1>7, <2>1, <2>4, <2>5, <2>6, <2>7
  <1> HIDE DEF keep, d
  <1>13. CuesOK(d) /\ (Ranges(mid) => Ranges(d)) /\ (OwnedIn(mid, keep) => Owned(d))
    BY <1>9, <1>11, CuesKept DEF d
  <1>14. Good(cues, d)
    BY <1>10, <1>12, <1>13 DEF Good
  <1> QED BY <1>3, <1>14

\* A Hot Cue takes another slot and its Memory Cue goes with it.
LEMMA GoodToSlot ==
  ASSUME NEW cues, CuesOK(cues), NEW id \in Ids(cues), NEW slot \in SlotsTried \ HotSlots(cues),
         cues[IndexOf(cues, id)].family = "hot"
  PROVE  Good(cues, ToSlot(cues, id, slot))
  <1> DEFINE i == IndexOf(cues, id)
             s == cues[i].slot
             pair == PairOf(cues, s)
             d == [j \in DOMAIN cues |->
                     IF j = i THEN [cues[j] EXCEPT !.slot = slot]
                     ELSE IF j \in pair THEN [cues[j] EXCEPT !.pair = slot] ELSE cues[j]]
  <1>1. i \in DOMAIN cues /\ DOMAIN cues = 1 .. Len(cues) /\ Len(cues) \in Nat
    BY IndexIs, CuesAre
  <1>2. ToSlot(cues, id, slot) = d
    BY DEF ToSlot
  <1>3. slot \in 0 .. 8 /\ slot # 0 /\ slot \notin HotSlots(cues)
    BY CueEditorAssumption
  <1>4. /\ cues[i].family = "hot" /\ s # 0 /\ i \notin pair
        /\ \A j \in DOMAIN cues : j \in pair <=>
             cues[j].family = "memory" /\ cues[j].auto = TRUE /\ cues[j].pair = s
    BY <1>1, CuesAre DEF Plain, PairOf, CueRecords
  <1>5. ASSUME NEW j \in DOMAIN cues
        PROVE  /\ d[j] \in CueRecords /\ Plain(d[j])
               /\ d[j].family = cues[j].family /\ d[j].auto = cues[j].auto
               /\ d[j].type = cues[j].type /\ d[j].end = cues[j].end /\ d[j].start = cues[j].start
               /\ d[j].slot = (IF j = i THEN slot ELSE cues[j].slot)
               /\ d[j].pair = (IF j \in pair THEN slot ELSE cues[j].pair)
    <2> DEFINE c == cues[j]
               x == [c EXCEPT !.slot = slot]
               y == [c EXCEPT !.pair = slot]
    <2>1. c \in CueRecords /\ Plain(c)
      BY CuesAre
    <2>2. d[j] = IF j = i THEN x ELSE IF j \in pair THEN y ELSE c
      OBVIOUS
    <2>3. (j = i => c.family = "hot") /\ (j \in pair => c.family = "memory" /\ c.auto = TRUE /\ c.pair # 0)
      BY <1>4
    <2> HIDE DEF c, d
    <2>4. x \in CueRecords /\ y \in CueRecords
      BY <1>3, <2>1 DEF CueRecords
    <2>5. /\ x.family = c.family /\ x.auto = c.auto /\ x.type = c.type /\ x.end = c.end
          /\ x.start = c.start /\ x.slot = slot /\ x.pair = c.pair /\ x.active = c.active /\ x.lead = c.lead
      BY <2>1 DEF CueRecords
    <2>6. /\ y.family = c.family /\ y.auto = c.auto /\ y.type = c.type /\ y.end = c.end
          /\ y.start = c.start /\ y.slot = c.slot /\ y.pair = slot /\ y.active = c.active /\ y.lead = c.lead
      BY <2>1 DEF CueRecords
    <2> HIDE DEF x, y
    <2>7. (j = i => Plain(x)) /\ (j \in pair => Plain(y))
      BY <1>3, <2>1, <2>3, <2>5, <2>6 DEF Plain
    <2>8. d[j].family = c.family /\ d[j].auto = c.auto /\ d[j].type = c.type
          /\ d[j].end = c.end /\ d[j].start = c.start
      BY <2>2, <2>5, <2>6
    <2>9. d[j] \in CueRecords /\ Plain(d[j])
      BY <2>1, <2>2, <2>4, <2>7
    <2>10. d[j].slot = (IF j = i THEN slot ELSE c.slot) /\ d[j].pair = (IF j \in pair THEN slot ELSE c.pair)
      BY <1>4, <2>2, <2>5, <2>6
    <2> QED BY <2>8, <2>9, <2>10 DEF c
  <1>6. DOMAIN d = DOMAIN cues
    OBVIOUS
  <1>7. d \in Seq(CueRecords)
    <2>1. d = [j \in DOMAIN cues |-> d[j]]
      OBVIOUS
    <2> HIDE DEF d
    <2>2. d \in [1 .. Len(cues) -> CueRecords]
      BY <1>1, <1>5, <2>1
    <2> QED BY <1>1, <2>2, SeqDef
  <1> HIDE DEF d, pair, i
  <1>8. SlotsOwned(d)
    <2>1. \A j \in DOMAIN cues : cues[j].family = "hot" => cues[j].slot \in HotSlots(cues)
      BY DEF HotSlots
    <2> QED BY <1>3, <1>5, <1>6, <2>1 DEF SlotsOwned, CuesOK
  <1>9. CuesOK(d)
    BY <1>5, <1>6, <1>7, <1>8 DEF CuesOK
  <1>10. Ranges(cues) => Ranges(d)
    BY <1>5, <1>6 DEF Ranges
  <1>11. Owned(cues) => Owned(d)
    <2> SUFFICES ASSUME Owned(cues), NEW k \in DOMAIN cues, d[k].pair # 0
                 PROVE  /\ \E j \in DOMAIN cues : d[j].family = "hot" /\ d[j].slot = d[k].pair
                        /\ \A l \in DOMAIN cues :
                             (d[l].family = "memory" /\ d[l].auto = TRUE /\ d[l].pair = d[k].pair) => l = k
      BY <1>6 DEF Owned
    <2>1. ASSUME NEW l \in DOMAIN cues, cues[l].pair # 0 PROVE cues[l].pair # slot
      <3>1. \E j \in DOMAIN cues : cues[j].family = "hot" /\ cues[j].slot = cues[l].pair
        BY <2>1 DEF Owned
      <3> QED BY <1>3, <3>1 DEF HotSlots
    <2>2. \A l \in DOMAIN cues : cues[l].pair # 0 =>
            \A j \in DOMAIN cues :
              (cues[j].family = "memory" /\ cues[j].auto = TRUE /\ cues[j].pair = cues[l].pair) => j = l
      BY DEF Owned
    <2>3. k \in pair =>
            /\ \E j \in DOMAIN cues : d[j].family = "hot" /\ d[j].slot = d[k].pair
            /\ \A l \in DOMAIN cues :
                 (d[l].family = "memory" /\ d[l].auto = TRUE /\ d[l].pair = d[k].pair) => l = k
      <3> SUFFICES ASSUME k \in pair
                   PROVE  /\ \E j \in DOMAIN cues : d[j].family = "hot" /\ d[j].slot = d[k].pair
                          /\ \A l \in DOMAIN cues :
                               (d[l].family = "memory" /\ d[l].auto = TRUE /\ d[l].pair = d[k].pair) => l = k
        OBVIOUS
      <3>1. d[i].family = "hot" /\ d[i].slot = slot /\ d[k].pair = slot
        BY <1>1, <1>4, <1>5
      <3>2. \A l \in DOMAIN cues : d[l].pair = slot => l \in pair
        BY <1>3, <1>5, <2>1
      <3>3. \A l \in pair : l \in DOMAIN cues => l = k
        BY <1>4, <2>2
      <3> QED BY <1>1, <3>1, <3>2, <3>3
    <2>4. k \notin pair =>
            /\ \E j \in DOMAIN cues : d[j].family = "hot" /\ d[j].slot = d[k].pair
            /\ \A l \in DOMAIN cues :
                 (d[l].family = "memory" /\ d[l].auto = TRUE /\ d[l].pair = d[k].pair) => l = k
      <3> SUFFICES ASSUME k \notin pair
                   PROVE  /\ \E j \in DOMAIN cues : d[j].family = "hot" /\ d[j].slot = d[k].pair
                          /\ \A l \in DOMAIN cues :
                               (d[l].family = "memory" /\ d[l].auto = TRUE /\ d[l].pair = d[k].pair) => l = k
        OBVIOUS
      <3>1. d[k].pair = cues[k].pair /\ cues[k].pair # 0 /\ cues[k].pair # slot
        BY <1>5, <2>1
      <3>2. cues[k].pair # s
        BY <1>4, <3>1, CuesAre DEF Plain
      <3>3. PICK j \in DOMAIN cues : cues[j].family = "hot" /\ cues[j].slot = cues[k].pair
        BY <3>1 DEF Owned
      <3>4. d[j].family = "hot" /\ d[j].slot = d[k].pair
        BY <1>5, <3>1, <3>2, <3>3
      <3>5. \A l \in DOMAIN cues : d[l].pair = d[k].pair => cues[l].pair = cues[k].pair
        BY <1>5, <3>1
      <3> QED BY <1>5, <2>2, <3>1, <3>4, <3>5
    <2> QED BY <2>3, <2>4
  <1>12. Good(cues, d)
    BY <1>9, <1>10, <1>11 DEF Good
  <1> QED BY <1>2, <1>12

\* A deleted cue takes the Memory Cue generated with it along.
LEMMA GoodDeleted ==
  ASSUME NEW cues, CuesOK(cues), NEW id \in Ids(cues)
  PROVE  /\ Good(cues, Deleted(cues, id))
         /\ Unique(cues) => Unique(Deleted(cues, id))
         /\ InOrder(cues) => InOrder(Deleted(cues, id))
  <1> DEFINE i == IndexOf(cues, id)
             c == cues[i]
             s == IF c.family = "hot" THEN c.slot ELSE 0
             keep == {j \in DOMAIN cues : ~(cues[j].id # id /\ j \in PairOf(cues, s))}
             alone == Filtered(cues, keep)
             rest == {j \in DOMAIN alone : alone[j].id # id}
             d == Filtered(alone, rest)
  <1>1. i \in DOMAIN cues /\ c.id = id
    BY IndexIs
  <1>2. c \in CueRecords /\ Plain(c)
    BY <1>1, CuesAre
  <1>3. Deleted(cues, id) = d
    BY DEF Deleted, Unpaired
  <1>4. c.family = "hot" => s = c.slot /\ s # 0
    BY <1>2 DEF Plain
  <1>5. c.family # "hot" => s = 0
    OBVIOUS
  <1>6. keep \in SUBSET (DOMAIN cues) /\ rest \in SUBSET (DOMAIN alone)
    OBVIOUS
  <1>7. /\ \A j \in keep : cues[j].id # id => j \notin PairOf(cues, s)
        /\ \A j \in DOMAIN cues : cues[j].family = "hot" => j \in keep
        /\ \A j \in DOMAIN alone : j \in rest <=> alone[j].id # id
    BY DEF PairOf
  <1> HIDE DEF d, rest, alone, keep, s, i
  <1>8. /\ CuesOK(alone) /\ (Ranges(cues) => Ranges(alone)) /\ (Unique(cues) => Unique(alone))
        /\ (InOrder(cues) => InOrder(alone)) /\ (OwnedIn(cues, keep) => Owned(alone))
        /\ \A k \in DOMAIN alone : \E j \in keep : alone[k] = cues[j]
    BY <1>6, CuesKept DEF alone
  <1>9. /\ CuesOK(d) /\ (Ranges(alone) => Ranges(d)) /\ (Unique(alone) => Unique(d))
        /\ (InOrder(alone) => InOrder(d)) /\ (OwnedIn(alone, rest) => Owned(d))
    BY <1>6, <1>8, CuesKept DEF d
  <1>10. Unique(cues) /\ Owned(cues) => Owned(d)
    <2> SUFFICES ASSUME Unique(cues), Owned(cues) PROVE Owned(d)
      OBVIOUS
    <2>1. ASSUME NEW j \in keep, cues[j].pair # 0
          PROVE  cues[j].family = "memory" /\ cues[j].auto = TRUE
                 /\ (c.family = "hot" => cues[j].pair # s)
      <3>1. cues[j].family = "memory" /\ cues[j].auto = TRUE
        BY <1>6, <2>1, CuesAre DEF Plain
      <3>2. c.family = "hot" => cues[j].id # id
        BY <1>1, <1>6, <3>1 DEF Unique
      <3> QED BY <1>4, <1>6, <1>7, <3>1, <3>2 DEF PairOf
    <2>2. OwnedIn(cues, keep)
      <3> SUFFICES ASSUME NEW j \in keep, cues[j].pair # 0
                   PROVE  /\ \E k \in keep : cues[k].family = "hot" /\ cues[k].slot = cues[j].pair
                          /\ \A k \in keep :
                               (cues[k].family = "memory" /\ cues[k].auto = TRUE /\ cues[k].pair = cues[j].pair) => k = j
        BY DEF OwnedIn
      <3> QED BY <1>6, <1>7 DEF Owned
    <2>3. Owned(alone) /\ Unique(alone)
      BY <1>8, <2>2
    <2>4. OwnedIn(alone, rest)
      <3> SUFFICES ASSUME NEW k \in rest, alone[k].pair # 0
                   PROVE  /\ \E j \in rest : alone[j].family = "hot" /\ alone[j].slot = alone[k].pair
                          /\ \A j \in rest :
                               (alone[j].family = "memory" /\ alone[j].auto = TRUE /\ alone[j].pair = alone[k].pair) => j = k
        BY DEF OwnedIn
      <3>1. PICK o \in DOMAIN alone : alone[o].family = "hot" /\ alone[o].slot = alone[k].pair
        BY <1>6, <2>3 DEF Owned
      <3>2. PICK x \in keep : alone[k] = cues[x]
        BY <1>6, <1>8
      <3>3. PICK y \in keep : alone[o] = cues[y]
        BY <1>8
      <3>4. alone[o].id # id
        <4> SUFFICES ASSUME alone[o].id = id PROVE FALSE
          OBVIOUS
        <4>1. y = i
          BY <1>1, <1>6, <3>3 DEF Unique
        <4>2. c.family = "hot" /\ s = c.slot /\ c.slot = alone[k].pair
          BY <1>4, <3>1, <3>3, <4>1
        <4> QED BY <2>1, <3>2, <4>2
      <3>5. o \in rest
        BY <1>7, <3>4
      <3> QED BY <1>6, <2>3, <3>1, <3>5 DEF Owned
    <2> QED BY <1>9, <2>4
  <1>11. Good(cues, d)
    BY <1>8, <1>9, <1>10 DEF Good
  <1> QED BY <1>3, <1>8, <1>9, <1>11

\* A moved cue stays what it is; a moved loop stays a range.  On the grid it starts on
\* a beat.
LEMMA RepositionedIs ==
  ASSUME NEW c \in CueRecords, Plain(c), NEW ms \in Places, NEW snap \in Snaps,
         Movable(c, ms, snap)
  PROVE  LET h == Repositioned(c, ms, snap)
         IN  /\ h \in CueRecords /\ Plain(h)
             /\ h.id = c.id /\ h.family = c.family /\ h.slot = c.slot /\ h.type = c.type
             /\ h.pair = c.pair /\ h.auto = c.auto
             /\ h.type = "loop" => h.end > h.start
             /\ snap # "off" => \E b \in Beats : h.start = At(b)
  <1> DEFINE target == Nearest(SnapBeats(snap), ms)
             beats == Nearest(Beats, c.end) - Nearest(Beats, c.start)
             start == IF snap = "off" THEN ms ELSE At(target)
             end == IF c.type = "loop"
                    THEN IF snap = "off" THEN ms + (c.end - c.start) ELSE At(target + beats)
                    ELSE c.end
             h == Repositioned(c, ms, snap)
  <1>1. /\ c.start \in Nat /\ c.end \in Int /\ ms \in Nat /\ c.type \in {"cue", "loop"}
        /\ GridBeats \in Nat
    BY CueIs, CueEditorAssumption
  <1>2. h = [c EXCEPT !.start = start, !.end = end]
    BY DEF Repositioned
  <1>3. snap # "off" => target \in Beats /\ target \in Nat
    BY <1>1, SnapBeat DEF Beats
  <1>4. start \in Nat /\ (snap # "off" => \E b \in Beats : start = At(b))
    <2>1. \A b \in Beats : At(b) \in Nat
      BY CueEditorAssumption DEF Beats, At
    <2> HIDE DEF target
    <2> QED BY <1>1, <1>3, <2>1
  <1>5. c.type = "loop" => end \in Nat /\ end > start
    <2> SUFFICES ASSUME c.type = "loop" PROVE end \in Nat /\ end > start
      OBVIOUS
    <2>1. c.end \in Nat /\ c.end > c.start
      BY DEF Plain, Movable
    <2>2. CASE snap = "off"
      <3>1. start = ms /\ end = ms + (c.end - c.start)
        BY <2>2
      <3> QED BY <1>1, <2>1, <3>1
    <2>3. CASE snap # "off"
      <3>1. start = At(target) /\ end = At(target + beats)
        BY <2>3
      <3>2. beats > 0
        BY <2>3 DEF Movable
      <3>3. Nearest(Beats, c.end) \in Nat /\ Nearest(Beats, c.start) \in Nat
        BY <1>1, <2>1, NearestBeat
      <3>4. beats \in Int
        BY <3>3
      <3>5. target \in Nat /\ target >= 1
        BY <1>3, <2>3 DEF Beats
      <3> HIDE DEF target, beats, start, end
      <3> QED BY <3>1, <3>2, <3>4, <3>5 DEF At
    <2> QED BY <2>2, <2>3
  <1>6. end \in Int /\ (c.type # "loop" => end = c.end)
    <2> HIDE DEF start
    <2>1. c.type = "loop" => end \in Int
      BY <1>5
    <2> QED BY <1>1, <2>1
  <1> HIDE DEF start, end
  <1>7. h \in CueRecords
    <2> DEFINE g == [c EXCEPT !.start = start]
    <2>1. g \in CueRecords
      BY <1>4 DEF CueRecords
    <2>2. [c EXCEPT !.start = start, !.end = end] = [g EXCEPT !.end = end]
      BY DEF CueRecords
    <2> HIDE DEF g, h
    <2> QED BY <1>2, <1>6, <2>1, <2>2 DEF CueRecords
  <1>8. /\ h.id = c.id /\ h.family = c.family /\ h.slot = c.slot /\ h.type = c.type
        /\ h.pair = c.pair /\ h.auto = c.auto /\ h.lead = c.lead /\ h.active = c.active
        /\ h.start = start /\ h.end = end
    <2> DEFINE r == [c EXCEPT !.start = start, !.end = end]
    <2>1. /\ r.id = c.id /\ r.family = c.family /\ r.slot = c.slot /\ r.type = c.type
          /\ r.pair = c.pair /\ r.auto = c.auto /\ r.lead = c.lead /\ r.active = c.active
          /\ r.start = start /\ r.end = end
      BY DEF CueRecords
    <2> HIDE DEF r
    <2>2. h = r
      BY <1>2 DEF r
    <2> HIDE DEF h
    <2> QED BY <2>1, <2>2
  <1> HIDE DEF h
  <1>9. Plain(h)
    BY <1>1, <1>5, <1>6, <1>8 DEF Plain
  <1>10. /\ h \in CueRecords /\ Plain(h)
         /\ h.id = c.id /\ h.family = c.family /\ h.slot = c.slot /\ h.type = c.type
         /\ h.pair = c.pair /\ h.auto = c.auto
         /\ h.type = "loop" => h.end > h.start
         /\ snap # "off" => \E b \in Beats : h.start = At(b)
    BY <1>4, <1>5, <1>7, <1>8, <1>9
  <1> QED BY <1>10 DEF h

\* The Memory Cue that was generated with a moved Hot Cue follows it, and so does
\* whatever has its identity.
LEMMA GoodWithPair ==
  ASSUME NEW cues, CuesOK(cues), NEW i \in DOMAIN cues, NEW h \in CueRecords, Plain(h),
         NEW snap,
         h.family = cues[i].family, h.slot = cues[i].slot, h.type = cues[i].type,
         h.pair = cues[i].pair, h.auto = cues[i].auto, h.id = cues[i].id,
         h.type = "loop" => h.end > h.start,
         snap # "off" => \E b \in Beats : h.start = At(b)
  PROVE  WithPair(cues, i, h, snap) = << >> \/ Good(cues, WithPair(cues, i, h, snap))
  <1> DEFINE moved == [cues EXCEPT ![i] = h]
             pair == IF h.family = "hot" THEN PairOf(cues, h.slot) ELSE {}
             mi == Earliest(pair)
             m == cues[mi]
             anchor == Nearest(Beats, h.start)
             phase == IF snap = "off" THEN h.start - At(anchor) ELSE 0
             start == At(LeadBeat(anchor, m.lead)) + phase
             loops(c) == m.lead = 0 /\ c.type = "loop" /\ h.type = "loop"
             follow(c) == IF loops(c) THEN [c EXCEPT !.start = start, !.end = h.end]
                          ELSE [c EXCEPT !.start = start]
             d == [j \in DOMAIN moved |-> IF cues[j].id = m.id THEN follow(moved[j]) ELSE moved[j]]
  <1>1. WithPair(cues, i, h, snap) =
          IF pair = {} THEN moved
          ELSE IF Cardinality(pair) # 1 \/ m.lead = None \/ start < 0 THEN << >> ELSE d
    BY DEF WithPair
  <1>2. Good(cues, moved)
    BY EditOne
  <1>3. /\ moved \in Seq(CueRecords) /\ DOMAIN moved = DOMAIN cues
        /\ \A j \in DOMAIN cues : moved[j] = IF j = i THEN h ELSE cues[j]
    BY ReplaceOne
  <1>4. SUFFICES ASSUME pair # {}, m.lead # None, ~(start < 0)
                 PROVE  Good(cues, d)
    BY <1>1, <1>2
  <1>5. DOMAIN cues = 1 .. Len(cues) /\ Len(cues) \in Nat
    BY CuesAre
  <1>6. mi \in DOMAIN cues /\ m.pair # 0
    <2>1. pair \in SUBSET Nat /\ pair \in SUBSET (DOMAIN cues) /\ \A j \in pair : cues[j].pair # 0
      BY <1>5 DEF PairOf
    <2> HIDE DEF pair
    <2>2. mi \in pair
      BY <1>4, <2>1, EarliestIs
    <2> QED BY <2>1, <2>2
  <1> DEFINE lead == m.lead
  <1>7. lead \in Nat
    <2>1. m \in CueRecords
      BY <1>6, CuesAre
    <2>2. lead \in {None, 0, LeadBars}
      BY <2>1, CueIs
    <2> QED BY <1>4, <2>2, CueEditorAssumption
  <1>8. h.start \in Nat /\ h.end \in Int /\ h.type \in {"cue", "loop"}
    BY CueIs
  <1>9. start \in Nat /\ start <= h.start /\ (lead = 0 => start = h.start)
    <2>1. anchor \in Beats
      BY <1>8, NearestBeat
    <2>2. snap # "off" => At(anchor) = h.start
      BY NearestOfBeat
    <2> DEFINE b == LeadBeat(anchor, lead)
    <2>3. start = At(b) + phase /\ (snap = "off" => phase = h.start - At(anchor))
          /\ (snap # "off" => phase = 0)
      OBVIOUS
    <2>4. ~(start < 0)
      BY <1>4
    <2> HIDE DEF anchor, phase, start, lead
    <2>5. b \in Beats /\ b <= anchor /\ (lead = 0 => b = anchor)
      BY <1>7, <2>1, LeadIs
    <2>6. b \in Nat /\ anchor \in Nat
      BY <2>1, <2>5, BeatsAreNumbers
    <2> HIDE DEF b
    <2>7. At(b) \in Int /\ At(anchor) \in Int /\ At(b) <= At(anchor)
          /\ (b = anchor => At(b) = At(anchor))
      BY <2>5, <2>6 DEF At
    <2> QED BY <1>8, <2>2, <2>3, <2>4, <2>5, <2>7
  <1>10. /\ DOMAIN d = DOMAIN cues
         /\ \A j \in DOMAIN cues :
              d[j] = IF cues[j].id = m.id THEN follow(moved[j]) ELSE moved[j]
    BY <1>3
  <1> HIDE DEF d, moved, start, anchor, phase, pair, mi
  <1>11. ASSUME NEW c \in CueRecords, Plain(c)
         PROVE  /\ follow(c) \in CueRecords /\ Plain(follow(c))
                /\ follow(c).family = c.family /\ follow(c).slot = c.slot /\ follow(c).id = c.id
                /\ follow(c).pair = c.pair /\ follow(c).auto = c.auto /\ follow(c).type = c.type
                /\ follow(c).start = start
                /\ follow(c).end = (IF loops(c) THEN h.end ELSE c.end)
    <2> DEFINE g == [c EXCEPT !.start = start]
               x == [c EXCEPT !.start = start, !.end = h.end]
    <2>1. follow(c) = IF loops(c) THEN x ELSE g
      OBVIOUS
    <2>2. g \in CueRecords
      BY <1>9 DEF CueRecords
    <2>3. x \in CueRecords
      <3>1. x = [g EXCEPT !.end = h.end]
        BY DEF CueRecords
      <3> HIDE DEF g, x
      <3> QED BY <1>8, <2>2, <3>1 DEF CueRecords
    <2>4. /\ g.family = c.family /\ g.slot = c.slot /\ g.id = c.id /\ g.pair = c.pair
          /\ g.auto = c.auto /\ g.type = c.type /\ g.start = start /\ g.end = c.end
          /\ g.active = c.active /\ g.lead = c.lead
      BY DEF CueRecords
    <2>5. /\ x.family = c.family /\ x.slot = c.slot /\ x.id = c.id /\ x.pair = c.pair
          /\ x.auto = c.auto /\ x.type = c.type /\ x.start = start /\ x.end = h.end
          /\ x.active = c.active /\ x.lead = c.lead
      BY DEF CueRecords
    <2> HIDE DEF g, x
    <2>6. Plain(g)
      BY <1>11, <2>4 DEF Plain
    <2>7. loops(c) => Plain(x)
      BY <1>11, <2>5 DEF Plain
    <2> HIDE DEF loops
    <2>8. CASE loops(c)
      <3>1. follow(c) = x
        BY <2>1, <2>8
      <3> HIDE DEF follow
      <3> QED BY <2>3, <2>5, <2>7, <2>8, <3>1
    <2>9. CASE ~loops(c)
      <3>1. follow(c) = g
        BY <2>1, <2>9
      <3> HIDE DEF follow
      <3> QED BY <2>2, <2>4, <2>6, <2>9, <3>1
    <2> QED BY <2>8, <2>9
  <1>12. ASSUME NEW j \in DOMAIN cues
         PROVE  /\ moved[j] \in CueRecords /\ Plain(moved[j])
                /\ moved[j].family = cues[j].family /\ moved[j].slot = cues[j].slot
                /\ moved[j].pair = cues[j].pair /\ moved[j].auto = cues[j].auto
                /\ moved[j].id = cues[j].id /\ moved[j].type = cues[j].type
    BY <1>3, CuesAre
  <1> HIDE DEF follow
  <1>13. ASSUME NEW j \in DOMAIN cues
         PROVE  /\ d[j] \in CueRecords /\ Plain(d[j])
                /\ d[j].family = cues[j].family /\ d[j].slot = cues[j].slot
                /\ d[j].pair = cues[j].pair /\ d[j].auto = cues[j].auto
                /\ d[j].id = cues[j].id /\ d[j].type = cues[j].type
    <2> DEFINE c == moved[j]
    <2>1. /\ c \in CueRecords /\ Plain(c) /\ c.family = cues[j].family /\ c.slot = cues[j].slot
          /\ c.pair = cues[j].pair /\ c.auto = cues[j].auto /\ c.id = cues[j].id /\ c.type = cues[j].type
      BY <1>12
    <2>2. d[j] = follow(c) \/ d[j] = c
      BY <1>10
    <2> HIDE DEF c
    <2> QED BY <1>11, <2>1, <2>2
  <1>14. d \in Seq(CueRecords)
    <2>1. d = [j \in DOMAIN cues |-> d[j]]
      BY <1>3 DEF d
    <2>2. d \in [1 .. Len(cues) -> CueRecords]
      BY <1>5, <1>13, <2>1
    <2> QED BY <1>5, <2>2, SeqDef
  <1>15. CuesOK(d) /\ (Owned(cues) => Owned(d))
    BY <1>10, <1>13, <1>14, InPlace
  <1>16. Ranges(cues) => Ranges(d) \/ StartMovedAlone(cues, d)
    <2> SUFFICES ASSUME Ranges(cues), NEW j \in DOMAIN cues, d[j].type = "loop",
                        ~(d[j].end > d[j].start)
                 PROVE  StartMovedAlone(cues, d)
      BY <1>10 DEF Ranges
    <2>1. cues[j].type = "loop" /\ cues[j].end > cues[j].start
      BY <1>13 DEF Ranges
    <2>2. moved[j].type = "loop" /\ moved[j].end > moved[j].start
      BY <1>3, <1>13, <2>1
    <2>3. cues[j].id = m.id /\ d[j] = follow(moved[j])
      BY <1>10, <2>2
    <2>4. /\ d[j].start = start /\ d[j].id = cues[j].id
          /\ d[j].end = (IF loops(moved[j]) THEN h.end ELSE moved[j].end)
      BY <1>11, <1>12, <1>13, <2>3
    <2>5. ~loops(moved[j])
      BY <1>9, <2>4
    <2>6. d[j].end = moved[j].end
      BY <2>4, <2>5
    <2>7. j # i
      <3> SUFFICES ASSUME j = i PROVE FALSE
        OBVIOUS
      <3>1. moved[j] = h
        BY <1>3
      <3>2. h.end > h.start /\ d[j].end = h.end /\ d[j].start = start
        BY <2>2, <2>4, <2>6, <3>1
      <3> QED BY <1>8, <1>9, <3>2
    <2>8. moved[j] = cues[j]
      BY <1>3, <2>7
    <2>9. d[j].end = cues[j].end /\ d[j].start # cues[j].start
      BY <2>1, <2>4, <2>6, <2>8
    <2>10. j \in DOMAIN d
      BY <1>10
    <2> QED BY <1>6, <2>1, <2>3, <2>4, <2>9, <2>10 DEF StartMovedAlone
  <1> QED BY <1>15, <1>16 DEF Good

\* A cue is moved, with the Memory Cue that belongs to it.
LEMMA GoodMoved ==
  ASSUME NEW cues, CuesOK(cues), NEW id \in Ids(cues), NEW ms \in Places, NEW snap \in Snaps
  PROVE  Moved(cues, id, ms, snap) = << >> \/ Good(cues, Moved(cues, id, ms, snap))
  <1> DEFINE i == IndexOf(cues, id)
             h == Repositioned(cues[i], ms, snap)
  <1>1. i \in DOMAIN cues /\ cues[i] \in CueRecords /\ Plain(cues[i])
    BY IndexIs, CuesAre
  <1>2. Moved(cues, id, ms, snap) =
          IF ~Movable(cues[i], ms, snap) THEN << >> ELSE WithPair(cues, i, h, snap)
    BY DEF Moved
  <1>3. Movable(cues[i], ms, snap) =>
          /\ h \in CueRecords /\ Plain(h)
          /\ h.id = cues[i].id /\ h.family = cues[i].family /\ h.slot = cues[i].slot
          /\ h.type = cues[i].type /\ h.pair = cues[i].pair /\ h.auto = cues[i].auto
          /\ h.type = "loop" => h.end > h.start
          /\ snap # "off" => \E b \in Beats : h.start = At(b)
    BY <1>1, RepositionedIs
  <1> HIDE DEF h, i
  <1>4. Movable(cues[i], ms, snap) =>
          WithPair(cues, i, h, snap) = << >> \/ Good(cues, WithPair(cues, i, h, snap))
    BY <1>1, <1>3, GoodWithPair
  <1> QED BY <1>2, <1>4

\* Reopening a saved draft: the cues in the order of the document, under identities of
\* their own.
LEMMA HydratedIs ==
  ASSUME NEW cues, CuesOK(cues)
  PROVE  LET d == Hydrated(cues)
         IN  /\ CuesOK(d) /\ InOrder(d) /\ Unique(d)
             /\ Ranges(cues) => Ranges(d)
             /\ Owned(cues) => Owned(d)
  <1> DEFINE n == Len(cues)
             before == {p \in (DOMAIN cues) \X (DOMAIN cues) : DraftBefore(cues[p[1]], cues[p[2]])}
             doc == Sorted(cues, before)
             d == Hydrated(cues)
             rank(i) == IF cues[i].family = "hot" THEN cues[i].slot ELSE 99
  <1>1. /\ DOMAIN cues = 1 .. n /\ n \in Nat
        /\ \A i \in 1 .. n : cues[i].start \in Nat /\ rank(i) \in Nat
    BY CuesAre DEF CueRecords
  <1>2. \A i, j \in 1 .. n : <<i, j>> \in before <=>
          (cues[i].start < cues[j].start \/ (cues[i].start = cues[j].start /\ rank(i) < rank(j)))
    BY <1>1 DEF DraftBefore
  <1>3. d = [i \in DOMAIN doc |-> [doc[i] EXCEPT !.id = DraftId(i)]]
    BY DEF Hydrated
  <1> HIDE DEF before, d, n, rank
  <1>4. WeakOrder(before, 1 .. n)
    <2>1. \A i, j \in 1 .. n : <<i, j>> \in before => <<j, i>> \notin before
      BY <1>1, <1>2
    <2>2. \A i, j, k \in 1 .. n : <<i, k>> \in before => <<i, j>> \in before \/ <<j, k>> \in before
      <3> SUFFICES ASSUME NEW i \in 1 .. n, NEW j \in 1 .. n, NEW k \in 1 .. n, <<i, k>> \in before
                   PROVE  <<i, j>> \in before \/ <<j, k>> \in before
        OBVIOUS
      <3> DEFINE st(x) == cues[x].start
      <3>1. \A x \in 1 .. n : st(x) \in Nat /\ rank(x) \in Nat
        BY <1>1
      <3>2. \A x, y \in 1 .. n : <<x, y>> \in before <=>
                                 (st(x) < st(y) \/ (st(x) = st(y) /\ rank(x) < rank(y)))
        BY <1>2
      <3> HIDE DEF st
      <3>3. st(i) < st(k) \/ (st(i) = st(k) /\ rank(i) < rank(k))
        BY <3>2
      <3>4. \/ st(i) < st(j) \/ (st(i) = st(j) /\ rank(i) < rank(j))
            \/ st(j) < st(k) \/ (st(j) = st(k) /\ rank(j) < rank(k))
        BY <3>1, <3>3
      <3> QED BY <3>2, <3>4
    <2> QED BY <2>1, <2>2 DEF WeakOrder
  <1>5. PICK f \in Bijection(1 .. n, 1 .. n) :
          /\ doc = [k \in 1 .. n |-> cues[f[k]]]
          /\ \A k, l \in 1 .. n : k <= l => <<f[l], f[k]>> \notin before
    BY <1>1, <1>4, SortedMoves
  <1>6. f \in Bijection(1 .. Len(cues), 1 .. Len(cues))
    BY <1>5 DEF n
  <1> HIDE DEF doc
  <1>7. /\ CuesOK(doc) /\ DOMAIN doc = DOMAIN cues /\ Len(doc) = Len(cues)
        /\ (Ranges(cues) => Ranges(doc)) /\ (Owned(cues) => Owned(doc))
    BY <1>5, <1>6, Shuffled DEF n
  <1>8. InOrder(doc)
    <2> SUFFICES ASSUME NEW i \in 1 .. n, NEW j \in 1 .. n, i <= j
                 PROVE  doc[i].start <= doc[j].start
      BY <1>1, <1>7 DEF InOrder
    <2>1. f \in [1 .. n -> 1 .. n]
      BY Fun_BijectionProperties
    <2>2. <<f[j], f[i]>> \notin before /\ doc[i] = cues[f[i]] /\ doc[j] = cues[f[j]]
      BY <1>5
    <2> DEFINE u == f[i]
               v == f[j]
    <2>3. u \in 1 .. n /\ v \in 1 .. n /\ <<v, u>> \notin before
      BY <2>1, <2>2
    <2>4. doc[i].start = cues[u].start /\ doc[j].start = cues[v].start
      BY <2>2
    <2> HIDE DEF u, v
    <2>5. cues[u].start \in Nat /\ cues[v].start \in Nat /\ ~(cues[v].start < cues[u].start)
      BY <1>1, <1>2, <2>3
    <2> QED BY <2>4, <2>5
  <1>9. ASSUME NEW i \in DOMAIN doc
        PROVE  /\ d[i] \in CueRecords /\ Plain(d[i]) /\ d[i].id = DraftId(i)
               /\ d[i].family = doc[i].family /\ d[i].slot = doc[i].slot /\ d[i].type = doc[i].type
               /\ d[i].pair = doc[i].pair /\ d[i].auto = doc[i].auto
               /\ d[i].start = doc[i].start /\ d[i].end = doc[i].end
    <2> DEFINE c == doc[i]
               g == [c EXCEPT !.id = DraftId(i)]
    <2>1. c \in CueRecords /\ Plain(c) /\ i \in Nat
      BY <1>7, CuesAre
    <2>2. d[i] = g
      BY <1>3
    <2> HIDE DEF c
    <2>3. g \in CueRecords
      BY <2>1 DEF CueRecords, DraftId
    <2>4. /\ g.id = DraftId(i) /\ g.family = c.family /\ g.slot = c.slot /\ g.type = c.type
          /\ g.pair = c.pair /\ g.auto = c.auto /\ g.start = c.start /\ g.end = c.end
          /\ g.active = c.active /\ g.lead = c.lead
      BY <2>1 DEF CueRecords
    <2> HIDE DEF g
    <2>5. Plain(g)
      BY <2>1, <2>4 DEF Plain
    <2> QED BY <2>2, <2>3, <2>4, <2>5 DEF c
  <1>10. DOMAIN d = DOMAIN doc
    BY <1>3
  <1>11. d \in Seq(CueRecords)
    <2>1. d = [i \in DOMAIN doc |-> d[i]]
      BY <1>3
    <2>2. DOMAIN doc = 1 .. Len(doc) /\ Len(doc) \in Nat
      BY <1>7, CuesAre
    <2>3. d \in [1 .. Len(doc) -> CueRecords]
      BY <1>9, <2>1, <2>2
    <2> QED BY <2>2, <2>3, SeqDef
  <1>12. CuesOK(d) /\ (Owned(doc) => Owned(d))
    BY <1>7, <1>9, <1>10, <1>11, InPlace
  <1>13. InOrder(d) /\ (Ranges(doc) => Ranges(d))
    BY <1>8, <1>9, <1>10 DEF InOrder, Ranges
  <1>14. Unique(d)
    <2>1. DOMAIN doc \subseteq Nat
      BY <1>1, <1>7
    <2> QED BY <1>9, <1>10, <2>1 DEF Unique, DraftId
  <1> QED BY <1>7, <1>12, <1>13, <1>14 DEF d

\* Cues joined to cues that have other slots and other pairs.
LEMMA CuesJoined ==
  ASSUME NEW cues, CuesOK(cues), NEW add, CuesOK(add), HotSlots(cues) \cap HotSlots(add) = {}
  PROVE  LET d == cues \o add
         IN  /\ CuesOK(d)
             /\ Ranges(cues) /\ Ranges(add) => Ranges(d)
             /\ (/\ Owned(cues) /\ Owned(add)
                 /\ \A i \in DOMAIN cues, j \in DOMAIN add : cues[i].pair = add[j].pair => cues[i].pair = 0)
                => Owned(d)
             /\ HotSlots(d) = HotSlots(cues) \cup HotSlots(add)
             /\ \A k \in DOMAIN d : \/ \E i \in DOMAIN cues : d[k] = cues[i]
                                    \/ \E j \in DOMAIN add : d[k] = add[j]
  <1> DEFINE n == Len(cues)
             m == Len(add)
             d == cues \o add
  <1>1. DOMAIN cues = 1 .. n /\ n \in Nat /\ DOMAIN add = 1 .. m /\ m \in Nat
    BY CuesAre
  <1>2. /\ d \in Seq(CueRecords) /\ Len(d) = n + m
        /\ \A k \in 1 .. n + m : d[k] = IF k <= n THEN cues[k] ELSE add[k - n]
    <2>1. cues \in Seq(CueRecords) /\ add \in Seq(CueRecords)
      BY DEF CuesOK
    <2> QED BY <2>1, ConcatProperties
  <1>3. DOMAIN d = 1 .. n + m
    BY <1>2, LenProperties
  <1> HIDE DEF d, n, m
  <1>4. \A k \in 1 .. n + m : (k <= n => k \in 1 .. n) /\ (~(k <= n) => k - n \in 1 .. m)
    BY <1>1
  <1>5. \A i \in 1 .. n : i \in 1 .. n + m /\ d[i] = cues[i]
    BY <1>1, <1>2
  <1>6. \A j \in 1 .. m : n + j \in 1 .. n + m /\ d[n + j] = add[j]
    <2> SUFFICES ASSUME NEW j \in 1 .. m PROVE n + j \in 1 .. n + m /\ d[n + j] = add[j]
      OBVIOUS
    <2>1. n + j \in 1 .. n + m /\ ~(n + j <= n) /\ (n + j) - n = j
      BY <1>1
    <2> QED BY <1>2, <2>1
  <1>7. \A k \in 1 .. n + m : (k <= n => d[k] = cues[k]) /\ (~(k <= n) => d[k] = add[k - n])
    BY <1>2
  <1>8. \A k \in DOMAIN d : \/ \E i \in DOMAIN cues : d[k] = cues[i]
                            \/ \E j \in DOMAIN add : d[k] = add[j]
    BY <1>1, <1>3, <1>4, <1>7
  <1>9. SlotsOwned(d)
    <2> SUFFICES ASSUME NEW k \in 1 .. n + m, NEW l \in 1 .. n + m, k # l,
                        d[k].family = "hot", d[l].family = "hot", d[k].slot = d[l].slot
                 PROVE  FALSE
      BY <1>3 DEF SlotsOwned
    <2>1. /\ \A i \in 1 .. n : cues[i].family = "hot" => cues[i].slot \in HotSlots(cues)
          /\ \A j \in 1 .. m : add[j].family = "hot" => add[j].slot \in HotSlots(add)
      BY <1>1 DEF HotSlots
    <2>2. k <= n /\ l <= n => FALSE
      <3>1. SlotsOwned(cues)
        BY DEF CuesOK
      <3> QED BY <1>1, <1>4, <1>7, <3>1 DEF SlotsOwned
    <2>3. ~(k <= n) /\ ~(l <= n) => FALSE
      <3>1. SlotsOwned(add)
        BY DEF CuesOK
      <3> DEFINE p == k - n
                 q == l - n
      <3>2. p # q
        BY <1>1
      <3>3. ~(k <= n) /\ ~(l <= n) => p \in DOMAIN add /\ q \in DOMAIN add /\ d[k] = add[p] /\ d[l] = add[q]
        BY <1>1, <1>4, <1>7
      <3> HIDE DEF p, q
      <3> QED BY <3>1, <3>2, <3>3 DEF SlotsOwned
    <2>4. k <= n /\ ~(l <= n) => FALSE
      BY <1>4, <1>7, <2>1
    <2>5. ~(k <= n) /\ l <= n => FALSE
      BY <1>4, <1>7, <2>1
    <2> QED BY <2>2, <2>3, <2>4, <2>5
  <1>10. CuesOK(d)
    <2>1. \A k \in DOMAIN d : Plain(d[k])
      BY <1>8, CuesAre
    <2> QED BY <1>2, <1>9, <2>1 DEF CuesOK
  <1>11. Ranges(cues) /\ Ranges(add) => Ranges(d)
    BY <1>8 DEF Ranges
  <1>12. HotSlots(d) = HotSlots(cues) \cup HotSlots(add)
    <2>1. HotSlots(d) \subseteq HotSlots(cues) \cup HotSlots(add)
      BY <1>8 DEF HotSlots
    <2>2. HotSlots(cues) \subseteq HotSlots(d)
      BY <1>1, <1>3, <1>5 DEF HotSlots
    <2>3. HotSlots(add) \subseteq HotSlots(d)
      BY <1>1, <1>3, <1>6 DEF HotSlots
    <2> QED BY <2>1, <2>2, <2>3
  <1>13. ASSUME Owned(cues), Owned(add),
                \A i \in DOMAIN cues, j \in DOMAIN add : cues[i].pair = add[j].pair => cues[i].pair = 0
         PROVE  Owned(d)
    <2> SUFFICES ASSUME NEW k \in 1 .. n + m, d[k].pair # 0
                 PROVE  /\ \E j \in 1 .. n + m : d[j].family = "hot" /\ d[j].slot = d[k].pair
                        /\ \A l \in 1 .. n + m :
                             (d[l].family = "memory" /\ d[l].auto = TRUE /\ d[l].pair = d[k].pair) => l = k
      BY <1>3 DEF Owned
    <2>1. k <= n =>
            /\ \E j \in 1 .. n + m : d[j].family = "hot" /\ d[j].slot = d[k].pair
            /\ \A l \in 1 .. n + m :
                 (d[l].family = "memory" /\ d[l].auto = TRUE /\ d[l].pair = d[k].pair) => l = k
      <3> SUFFICES ASSUME k <= n
                   PROVE  /\ \E j \in 1 .. n + m : d[j].family = "hot" /\ d[j].slot = d[k].pair
                          /\ \A l \in 1 .. n + m :
                               (d[l].family = "memory" /\ d[l].auto = TRUE /\ d[l].pair = d[k].pair) => l = k
        OBVIOUS
      <3>1. k \in 1 .. n /\ d[k] = cues[k]
        BY <1>4, <1>7
      <3>2. PICK i \in 1 .. n : cues[i].family = "hot" /\ cues[i].slot = cues[k].pair
        BY <1>1, <1>13, <3>1 DEF Owned
      <3>3. \A l \in 1 .. n :
              (cues[l].family = "memory" /\ cues[l].auto = TRUE /\ cues[l].pair = cues[k].pair) => l = k
        BY <1>1, <1>13, <3>1 DEF Owned
      <3>4. \A l \in 1 .. n + m : d[l].pair = d[k].pair => l <= n
        BY <1>1, <1>4, <1>7, <1>13, <3>1
      <3> QED BY <1>4, <1>5, <1>7, <3>1, <3>2, <3>3, <3>4
    <2>2. ~(k <= n) =>
            /\ \E j \in 1 .. n + m : d[j].family = "hot" /\ d[j].slot = d[k].pair
            /\ \A l \in 1 .. n + m :
                 (d[l].family = "memory" /\ d[l].auto = TRUE /\ d[l].pair = d[k].pair) => l = k
      <3> SUFFICES ASSUME ~(k <= n)
                   PROVE  /\ \E j \in 1 .. n + m : d[j].family = "hot" /\ d[j].slot = d[k].pair
                          /\ \A l \in 1 .. n + m :
                               (d[l].family = "memory" /\ d[l].auto = TRUE /\ d[l].pair = d[k].pair) => l = k
        OBVIOUS
      <3> DEFINE x == k - n
      <3>1. x \in 1 .. m /\ d[k] = add[x]
        BY <1>4, <1>7
      <3>2. k = n + x
        BY <1>1
      <3> HIDE DEF x
      <3>3. PICK i \in 1 .. m : add[i].family = "hot" /\ add[i].slot = add[x].pair
        BY <1>1, <1>13, <3>1 DEF Owned
      <3>4. \A l \in 1 .. m :
              (add[l].family = "memory" /\ add[l].auto = TRUE /\ add[l].pair = add[x].pair) => l = x
        BY <1>1, <1>13, <3>1 DEF Owned
      <3>5. \A l \in 1 .. n + m : d[l].pair = d[k].pair => ~(l <= n)
        BY <1>1, <1>4, <1>7, <1>13, <3>1
      <3>6. ASSUME NEW l \in 1 .. n + m, d[l].family = "memory", d[l].auto = TRUE, d[l].pair = d[k].pair
            PROVE  l = k
        <4>1. l - n \in 1 .. m /\ d[l] = add[l - n]
          BY <1>4, <1>7, <3>5, <3>6
        <4>2. l - n = x
          BY <3>1, <3>4, <3>6, <4>1
        <4> QED BY <1>1, <3>2, <4>2
      <3>7. d[n + i] = add[i] /\ n + i \in 1 .. n + m
        BY <1>6
      <3> QED BY <3>1, <3>3, <3>6, <3>7
    <2> QED BY <2>1, <2>2
  <1> QED BY <1>8, <1>10, <1>11, <1>12, <1>13 DEF d

\* What Auto Cue generates for a slot.
LEMMA GeneratedIs ==
  ASSUME TrackKnown, NEW s \in Slots, Proposed[s] # None
  PROVE  /\ AutoHot(s) \in CueRecords /\ Plain(AutoHot(s))
         /\ AutoHot(s).family = "hot" /\ AutoHot(s).slot = s /\ AutoHot(s).pair = 0
         /\ AutoHot(s).type = "loop" => AutoHot(s).end > AutoHot(s).start
         /\ AutoMemory(s) \in CueRecords /\ Plain(AutoMemory(s))
         /\ AutoMemory(s).family = "memory" /\ AutoMemory(s).pair = s
         /\ AutoMemory(s).type = "loop" => AutoMemory(s).end > AutoMemory(s).start
  <1> DEFINE b == Proposed[s]
             type == IF IsLoopSlot(s) THEN "loop" ELSE "cue"
             end == IF IsLoopSlot(s) THEN At(ByBarOffset(b, LoopBars)) ELSE None
             lead == Lead(s)
             first == LeadBeat(b, lead)
             g == Cue(AutoHotId(s), "hot", s, type, At(b), end)
             h == AutoHot(s)
             m == AutoMemory(s)
  <1>1. b \in Beats /\ b \in Nat /\ s \in 1 .. 8 /\ s # 0
    <2>1. b \in Beats
      BY ProposedIs
    <2>2. s \in 1 .. 8 /\ s # 0
      BY DEF Slots
    <2> HIDE DEF b
    <2> QED BY <2>1, <2>2, BeatsAreNumbers
  <1>2. At(b) \in Nat
    BY CueEditorAssumption, <1>1 DEF Beats, At
  <1>3. lead \in {0, LeadBars} /\ lead \in Nat /\ lead # None /\ (IsLoopSlot(s) => lead = 0)
    BY CueEditorAssumption, NoneIs DEF Lead, IsLoopSlot
  <1>4. IsLoopSlot(s) => end \in Nat /\ end > At(b)
    <2> DEFINE e == ByBarOffset(b, LoopBars)
    <2>1. IsLoopSlot(s) => e \in Beats /\ e > b
      BY ProposedIs
    <2>2. IsLoopSlot(s) => end = At(e)
      OBVIOUS
    <2> HIDE DEF e, end, b
    <2>3. e \in Beats => e \in Nat
      BY BeatsAreNumbers
    <2> QED BY <1>1, <2>1, <2>2, <2>3 DEF At, Beats
  <1>5. end \in Int /\ (~IsLoopSlot(s) => end = None)
    <2>1. ~IsLoopSlot(s) => end = None
      OBVIOUS
    <2> HIDE DEF end
    <2> QED BY <1>4, <2>1, NoneIs
  <1>6. type \in {"cue", "loop"} /\ (type = "loop" <=> IsLoopSlot(s))
    OBVIOUS
  <1>7. h = [g EXCEPT !.auto = TRUE]
    BY DEF AutoHot
  <1>8. first \in Beats /\ (lead = 0 => first = b)
    <2> HIDE DEF b, lead
    <2> QED BY <1>1, <1>3, LeadIs
  <1>9. At(first) \in Nat
    BY CueEditorAssumption, <1>8 DEF Beats, At
  <1>10. m = [h EXCEPT !.id = AutoMemoryId(s), !.family = "memory", !.slot = 0,
                      !.start = At(first), !.pair = s, !.lead = lead]
    BY DEF AutoMemory
  <1> DEFINE p == At(b)
             q == At(first)
  <1>11. p \in Nat /\ q \in Nat /\ (IsLoopSlot(s) => q = p)
    <2> HIDE DEF b, first
    <2>1. p \in Nat /\ q \in Nat
      BY <1>2, <1>9
    <2>2. IsLoopSlot(s) => q = p
      BY <1>3, <1>8
    <2> QED BY <2>1, <2>2
  <1>12. IsLoopSlot(s) => end \in Nat /\ end > p
    BY <1>4
  <1>13. g = [id |-> AutoHotId(s), family |-> "hot", slot |-> s, type |-> type, start |-> p,
             end |-> end, active |-> FALSE, pair |-> 0, lead |-> None, auto |-> FALSE]
    BY DEF Cue
  <1> HIDE DEF type, end, p, q, b, first, g, h, m, lead
  <1>14. h = [id |-> s, family |-> "hot", slot |-> s, type |-> type, start |-> p,
             end |-> end, active |-> FALSE, pair |-> 0, lead |-> None, auto |-> TRUE]
    BY <1>7, <1>13 DEF AutoHotId
  <1>15. m = [id |-> 10 + s, family |-> "memory", slot |-> 0, type |-> type, start |-> q,
             end |-> end, active |-> FALSE, pair |-> s, lead |-> lead, auto |-> TRUE]
    BY <1>10, <1>14 DEF AutoMemoryId, q
  <1>16. h \in CueRecords /\ m \in CueRecords
    <2>1. s \in Nat /\ s \in 0 .. 8 /\ 0 \in 0 .. 8 /\ 10 + s \in Nat
      BY <1>1
    <2>2. lead \in {None, 0, LeadBars} /\ None \in {None, 0, LeadBars}
      BY <1>3
    <2>3. h \in CueRecords
      BY <1>5, <1>6, <1>11, <1>14, <2>1, <2>2 DEF CueRecords
    <2>4. m \in CueRecords
      BY <1>5, <1>6, <1>11, <1>15, <2>1, <2>2 DEF CueRecords
    <2> QED BY <2>3, <2>4
  <1>17. /\ h.family = "hot" /\ h.slot = s /\ h.pair = 0 /\ h.type = type /\ h.start = p
         /\ h.end = end /\ h.active = FALSE
    BY <1>14
  <1>18. /\ m.family = "memory" /\ m.slot = 0 /\ m.pair = s /\ m.type = type /\ m.start = q
         /\ m.end = end /\ m.active = FALSE /\ m.auto = TRUE /\ m.lead = lead
    BY <1>15
  <1>19. Plain(h) /\ (h.type = "loop" => h.end > h.start)
    BY <1>1, <1>5, <1>6, <1>12, <1>17 DEF Plain
  <1>20. Plain(m) /\ (m.type = "loop" => m.end > m.start)
    BY <1>1, <1>3, <1>5, <1>6, <1>11, <1>12, <1>18 DEF Plain
  <1>21. /\ h \in CueRecords /\ Plain(h) /\ h.family = "hot" /\ h.slot = s /\ h.pair = 0
         /\ h.type = "loop" => h.end > h.start
         /\ m \in CueRecords /\ Plain(m) /\ m.family = "memory" /\ m.pair = s
         /\ m.type = "loop" => m.end > m.start
    BY <1>16, <1>17, <1>18, <1>19, <1>20
  <1> QED BY <1>21 DEF h, m

\* What Auto Cue adds for a slot, as in AutoMerged.
AddedFor(cues, s) ==
  LET free == {t \in Slots : Proposed[t] # None /\ t \notin HotSlots(cues)}
      paired == {cues[i].pair : i \in {j \in DOMAIN cues : cues[j].family = "memory"}}
  IN  IF s \notin free THEN << >>
      ELSE IF s \in paired THEN <<AutoHot(s)>> ELSE <<AutoHot(s), AutoMemory(s)>>

LEMMA AddedForIs ==
  ASSUME TrackKnown, NEW cues, CuesOK(cues), NEW s \in Slots
  PROVE  LET add == AddedFor(cues, s)
         IN  /\ CuesOK(add) /\ Ranges(add) /\ Owned(add)
             /\ HotSlots(add) \subseteq {s} \ HotSlots(cues)
             /\ \A j \in DOMAIN add : add[j].pair = 0 \/
                  (add[j].pair = s /\ \A i \in DOMAIN cues : cues[i].pair # s)
  <1> DEFINE free == {t \in Slots : Proposed[t] # None /\ t \notin HotSlots(cues)}
             paired == {cues[i].pair : i \in {j \in DOMAIN cues : cues[j].family = "memory"}}
             h == AutoHot(s)
             m == AutoMemory(s)
             add == AddedFor(cues, s)
  <1>1. add = IF s \notin free THEN << >> ELSE IF s \in paired THEN <<h>> ELSE <<h, m>>
    BY DEF AddedFor
  <1>2. s \in free => Proposed[s] # None /\ s \notin HotSlots(cues)
    OBVIOUS
  <1>3. s \notin paired => \A i \in DOMAIN cues : cues[i].pair # s
    <2>1. s # 0
      BY DEF Slots
    <2>2. \A i \in DOMAIN cues : cues[i].pair # 0 => cues[i].family = "memory"
      BY CuesAre DEF Plain
    <2> QED BY <2>1, <2>2
  <1>4. s \in free =>
          /\ h \in CueRecords /\ Plain(h) /\ h.family = "hot" /\ h.slot = s /\ h.pair = 0
          /\ h.type = "loop" => h.end > h.start
          /\ m \in CueRecords /\ Plain(m) /\ m.family = "memory" /\ m.pair = s
          /\ m.type = "loop" => m.end > m.start
    BY <1>2, GeneratedIs
  <1>5. s # 0
    BY DEF Slots
  <1> HIDE DEF free, paired, h, m, add
  <1> DEFINE Claim == /\ CuesOK(add) /\ Ranges(add) /\ Owned(add)
                      /\ HotSlots(add) \subseteq {s} \ HotSlots(cues)
                      /\ \A j \in DOMAIN add : add[j].pair = 0 \/
                           (add[j].pair = s /\ \A i \in DOMAIN cues : cues[i].pair # s)
  <1>6. CASE s \notin free
    <2>1. add = << >> /\ DOMAIN add = {} /\ add \in Seq(CueRecords)
      BY <1>1, <1>6
    <2> HIDE DEF add
    <2>2. CuesOK(add) /\ Ranges(add) /\ Owned(add) /\ HotSlots(add) = {}
      BY <2>1 DEF CuesOK, Ranges, Owned, HotSlots, SlotsOwned
    <2>3. Claim
      BY <2>1, <2>2
    <2> QED BY <2>3 DEF add
  <1>7. CASE s \in free /\ s \in paired
    <2>1. add = <<h>> /\ h \in CueRecords
      BY <1>1, <1>4, <1>7
    <2>2. DOMAIN add = {1} /\ add[1] = h /\ add \in Seq(CueRecords)
      BY <2>1
    <2>3. CuesOK(add) /\ Ranges(add) /\ Owned(add) /\ HotSlots(add) \subseteq {s}
      BY <1>4, <1>7, <2>2 DEF CuesOK, Ranges, Owned, HotSlots, SlotsOwned
    <2>4. Claim
      BY <1>2, <1>4, <1>7, <2>2, <2>3
    <2> QED BY <2>4 DEF add
  <1>8. CASE s \in free /\ s \notin paired
    <2>1. add = <<h, m>> /\ h \in CueRecords /\ m \in CueRecords
      BY <1>1, <1>4, <1>8
    <2>2. DOMAIN add = {1, 2} /\ add[1] = h /\ add[2] = m /\ add \in Seq(CueRecords)
      BY <2>1
    <2>3. CuesOK(add) /\ Ranges(add) /\ HotSlots(add) \subseteq {s}
      BY <1>4, <1>8, <2>2 DEF CuesOK, Ranges, HotSlots, SlotsOwned
    <2>4. Owned(add)
      BY <1>4, <1>5, <1>8, <2>2 DEF Owned
    <2>5. Claim
      BY <1>2, <1>3, <1>4, <1>8, <2>2, <2>3, <2>4
    <2> QED BY <2>5 DEF add
  <1> QED BY <1>6, <1>7, <1>8 DEF add

\* The cues once the slots up to s are done.
Merging(cues, cur, s) ==
  /\ CuesOK(cur)
  /\ Ranges(cues) => Ranges(cur)
  /\ Owned(cues) => Owned(cur)
  /\ HotSlots(cur) \subseteq HotSlots(cues) \cup 1 .. s
  /\ \A k \in DOMAIN cur : cur[k].pair \in 0 .. s \/ \E i \in DOMAIN cues : cur[k].pair = cues[i].pair

\* Auto Cue is done with one more slot.
LEMMA MergeOne ==
  ASSUME TrackKnown, NEW cues, CuesOK(cues), NEW s \in Slots, NEW cur, Merging(cues, cur, s - 1)
  PROVE  Merging(cues, cur \o AddedFor(cues, s), s)
  <1> DEFINE add == AddedFor(cues, s)
             d == cur \o add
  <1>1. /\ CuesOK(add) /\ Ranges(add) /\ Owned(add)
        /\ HotSlots(add) \subseteq {s} \ HotSlots(cues)
        /\ \A j \in DOMAIN add : add[j].pair = 0 \/
             (add[j].pair = s /\ \A i \in DOMAIN cues : cues[i].pair # s)
    BY AddedForIs
  <1> HIDE DEF add
  <1>2. /\ CuesOK(cur) /\ (Ranges(cues) => Ranges(cur)) /\ (Owned(cues) => Owned(cur))
        /\ HotSlots(cur) \subseteq HotSlots(cues) \cup 1 .. s - 1
        /\ \A k \in DOMAIN cur : cur[k].pair \in 0 .. s - 1 \/ \E i \in DOMAIN cues : cur[k].pair = cues[i].pair
    BY DEF Merging
  <1>3. s \in Nat /\ s \notin 0 .. s - 1 /\ 0 .. s - 1 \subseteq 0 .. s /\ 1 .. s - 1 \subseteq 1 .. s
        /\ s \notin 1 .. s - 1 /\ s \in 1 .. s /\ s \in 0 .. s /\ 0 \in 0 .. s
    BY DEF Slots
  <1>4. HotSlots(cur) \cap HotSlots(add) = {}
    BY <1>1, <1>2, <1>3
  <1>5. /\ CuesOK(d)
        /\ (Ranges(cur) /\ Ranges(add) => Ranges(d))
        /\ ((/\ Owned(cur) /\ Owned(add)
             /\ \A i \in DOMAIN cur, j \in DOMAIN add : cur[i].pair = add[j].pair => cur[i].pair = 0)
            => Owned(d))
        /\ HotSlots(d) = HotSlots(cur) \cup HotSlots(add)
        /\ \A k \in DOMAIN d : \/ \E i \in DOMAIN cur : d[k] = cur[i]
                               \/ \E j \in DOMAIN add : d[k] = add[j]
    BY <1>1, <1>2, <1>4, CuesJoined
  <1> HIDE DEF d
  <1>6. \A i \in DOMAIN cur, j \in DOMAIN add : cur[i].pair = add[j].pair => cur[i].pair = 0
    BY <1>1, <1>2, <1>3
  <1>7. HotSlots(d) \subseteq HotSlots(cues) \cup 1 .. s
    BY <1>1, <1>2, <1>3, <1>5
  <1>8. \A k \in DOMAIN d : d[k].pair \in 0 .. s \/ \E i \in DOMAIN cues : d[k].pair = cues[i].pair
    BY <1>1, <1>2, <1>3, <1>5
  <1>9. Merging(cues, d, s)
    BY <1>1, <1>2, <1>5, <1>6, <1>7, <1>8 DEF Merging
  <1> QED BY <1>9 DEF d, add

\* Auto Cue fills free slots and gives a Memory Cue only to a slot that has none.
LEMMA GoodMerged ==
  ASSUME TrackKnown, NEW cues, CuesOK(cues)
  PROVE  Good(cues, AutoMerged(cues))
  <1> DEFINE c1 == cues \o AddedFor(cues, 1)
             c2 == c1 \o AddedFor(cues, 2)
             c3 == c2 \o AddedFor(cues, 3)
             c4 == c3 \o AddedFor(cues, 4)
             c5 == c4 \o AddedFor(cues, 5)
             c6 == c5 \o AddedFor(cues, 6)
             c7 == c6 \o AddedFor(cues, 7)
             c8 == c7 \o AddedFor(cues, 8)
  <1>1. AutoMerged(cues) = SortCues(c8)
    BY DEF AutoMerged, AddedFor
  <1>2. Merging(cues, cues, 0)
    BY DEF Merging
  <1>3. 1 - 1 = 0 /\ 2 - 1 = 1 /\ 3 - 1 = 2 /\ 4 - 1 = 3 /\ 5 - 1 = 4 /\ 6 - 1 = 5 /\ 7 - 1 = 6 /\ 8 - 1 = 7
        /\ {1, 2, 3, 4, 5, 6, 7, 8} \subseteq Slots
    BY DEF Slots
  <1> HIDE DEF c8
  <1>4. c8 = c7 \o AddedFor(cues, 8)
    BY DEF c8
  <1> HIDE DEF c1, c2, c3, c4, c5, c6, c7
  <1>5. Merging(cues, c1, 1)
    BY <1>2, <1>3, MergeOne DEF c1
  <1>6. Merging(cues, c2, 2)
    BY <1>3, <1>5, MergeOne DEF c2
  <1>7. Merging(cues, c3, 3)
    BY <1>3, <1>6, MergeOne DEF c3
  <1>8. Merging(cues, c4, 4)
    BY <1>3, <1>7, MergeOne DEF c4
  <1>9. Merging(cues, c5, 5)
    BY <1>3, <1>8, MergeOne DEF c5
  <1>10. Merging(cues, c6, 6)
    BY <1>3, <1>9, MergeOne DEF c6
  <1>11. Merging(cues, c7, 7)
    BY <1>3, <1>10, MergeOne DEF c7
  <1>12. Merging(cues, c8, 8)
    BY <1>3, <1>4, <1>11, MergeOne
  <1>13. Good(cues, c8)
    BY <1>12 DEF Merging, Good
  <1> QED BY <1>1, <1>13, SortKeepsGood

-----------------------------------------------------------------------------
(* The steps of the editor and its theorems.                               *)

\* The inductive invariant: while identities are unique, every generated Memory Cue has
\* its Hot Cue.
EditorInv ==
  /\ CuesOK(ceCues) /\ InOrder(ceCues) /\ TrackKnown
  /\ ceAdded \in 0 .. MaxAdded /\ ceLeft \in 0 .. MaxCueEdits /\ ceTwins \in BOOLEAN
  /\ ~ceTwins => Unique(ceCues) /\ Owned(ceCues)

\* What a step does to the cues.
StepKeeps ==
  /\ CuesOK(ceCues') /\ InOrder(ceCues')
  /\ ceTwins' \in BOOLEAN
  /\ ~ceTwins' => Unique(ceCues') /\ Owned(ceCues')
  /\ Ranges(ceCues) => Ranges(ceCues') \/ StartMovedAlone(ceCues, ceCues')

\* With as many identities as cues no two cues share one.
LEMMA AsManyIds ==
  ASSUME NEW cues, CuesOK(cues), Cardinality(Ids(cues)) = Len(cues)
  PROVE  Unique(cues)
  <1> DEFINE n == Len(cues)
             f == [i \in 1 .. n |-> cues[i].id]
             S == 1 .. n
             T == Ids(cues)
  <1>1. DOMAIN cues = S /\ n \in Nat
    BY CuesAre
  <1>2. IsFiniteSet(S) /\ Cardinality(S) = n
    <2>1. n \in Nat
      BY <1>1
    <2> HIDE DEF n
    <2> QED BY <2>1, FS_Interval
  <1>3. f \in [S -> T] /\ \A t \in T : \E i \in S : f[i] = t
    BY <1>1 DEF Ids
  <1>4. \A i \in S : f[i] = cues[i].id
    OBVIOUS
  <1> HIDE DEF f, T
  <1>5. f \in Surjection(S, T)
    BY <1>3, Fun_IsSurj
  <1>6. IsFiniteSet(T) /\ Cardinality(T) = Cardinality(S)
    <2>1. IsFiniteSet(T)
      BY <1>2, <1>5, FS_Surjection
    <2> QED BY <1>2, <2>1 DEF T
  <1>7. f \in Injection(S, T)
    BY <1>2, <1>5, <1>6, FS_SurjSameCardinalityImpliesInj
  <1>8. \A i, j \in S : f[i] = f[j] => i = j
    BY <1>7, Fun_InjectionProperties
  <1> QED BY <1>1, <1>4, <1>8 DEF Unique

\* The result of an edit is kept.
LEMMA ResultKeeps ==
  ASSUME EditorInv, NEW cues, cues = << >> \/ Good(ceCues, cues), Result(cues)
  PROVE  StepKeeps /\ TrackKnown'
  <1>1. TrackKnown'
    BY DEF Result, TrackKnown, EditorInv
  <1>2. CASE cues = << >>
    <2>1. ceCues' = ceCues /\ ceTwins' = (ceTwins \/ Cardinality(Ids(ceCues')) # Len(ceCues'))
      BY <1>2 DEF Result
    <2>2. ceTwins' \in BOOLEAN /\ (~ceTwins' => ~ceTwins)
      BY <2>1 DEF EditorInv
    <2> QED BY <1>1, <2>1, <2>2 DEF EditorInv, StepKeeps
  <1>3. CASE cues # << >>
    <2> DEFINE d == SortCues(cues)
    <2>1. ceCues' = d /\ ceTwins' = (ceTwins \/ Cardinality(Ids(ceCues')) # Len(ceCues'))
      BY <1>3 DEF Result
    <2>2. Good(ceCues, cues)
      BY <1>3
    <2>3. Good(ceCues, d) /\ InOrder(d)
      BY <2>2, SortKeepsGood, CuesSorted DEF Good
    <2> HIDE DEF d
    <2>4. CuesOK(ceCues') /\ (Ranges(ceCues) => Ranges(ceCues') \/ StartMovedAlone(ceCues, ceCues'))
          /\ (Unique(ceCues) /\ Owned(ceCues) => Owned(ceCues'))
      BY <2>1, <2>3 DEF Good
    <2>5. ceTwins' \in BOOLEAN /\ (~ceTwins' => ~ceTwins /\ Cardinality(Ids(ceCues')) = Len(ceCues'))
      BY <2>1 DEF EditorInv
    <2>6. ~ceTwins' => Unique(ceCues') /\ Owned(ceCues')
      BY <2>4, <2>5, AsManyIds DEF EditorInv
    <2>7. InOrder(ceCues')
      BY <2>1, <2>3
    <2> QED BY <1>1, <2>4, <2>5, <2>6, <2>7 DEF StepKeeps
  <1> QED BY <1>2, <1>3

LEMMA EditorStart == EditorInit => EditorInv
  <1> SUFFICES ASSUME EditorInit PROVE EditorInv
    OBVIOUS
  <1>1. TrackKnown
    BY DEF EditorInit, TrackKnown
  <1>2. ceAdded \in 0 .. MaxAdded /\ ceLeft \in 0 .. MaxCueEdits /\ ceTwins \in BOOLEAN
    <2>1. MaxAdded \in Nat /\ MaxCueEdits \in Nat
      BY CueEditorAssumption
    <2>2. ceAdded = 0 /\ ceTwins \in BOOLEAN
      BY DEF EditorInit
    <2>3. ceLeft = MaxCueEdits \/ ceLeft = 0
      BY DEF EditorInit
    <2>4. ceAdded \in 0 .. MaxAdded
      BY <2>1, <2>2
    <2>5. ceLeft \in 0 .. MaxCueEdits
      BY <2>1, <2>3
    <2> QED BY <2>2, <2>4, <2>5
  <1>3. CuesOK(ceCues) /\ InOrder(ceCues) /\ Unique(ceCues) /\ Owned(ceCues)
    <2> DEFINE a == Cue(ImportedId(1), "hot", 3, "loop", 0, 4)
               b == Cue(ImportedId(1), "memory", 0, "cue", 2, None)
               c == Cue(ImportedId(2), "hot", 2, "cue", 3, None)
    <2>1. ceCues = << >> \/ ceCues = <<a>> \/ ceCues = <<b, c>>
      BY DEF EditorInit, Baselines
    <2>2. a \in CueRecords /\ b \in CueRecords /\ c \in CueRecords
      BY NoneIs DEF Cue, ImportedId, CueRecords
    <2>3. Plain(a) /\ Plain(b) /\ Plain(c)
      BY DEF Cue, Plain
    <2>4. /\ a.pair = 0 /\ b.pair = 0 /\ c.pair = 0 /\ b.family = "memory"
          /\ b.id = 51 /\ c.id = 52 /\ b.start = 2 /\ c.start = 3 /\ a.start = 0
      BY DEF Cue, ImportedId
    <2> HIDE DEF a, b, c
    <2>5. CASE ceCues = << >>
      <3>1. DOMAIN ceCues = {} /\ ceCues \in Seq(CueRecords)
        BY <2>5
      <3> QED BY <3>1 DEF CuesOK, InOrder, Unique, Owned, SlotsOwned
    <2>6. CASE ceCues = <<a>>
      <3>1. DOMAIN ceCues = {1} /\ ceCues[1] = a /\ ceCues \in Seq(CueRecords)
        BY <2>2, <2>6
      <3> QED BY <2>3, <2>4, <3>1 DEF CuesOK, InOrder, Unique, Owned, SlotsOwned
    <2>7. CASE ceCues = <<b, c>>
      <3>1. DOMAIN ceCues = {1, 2} /\ ceCues[1] = b /\ ceCues[2] = c /\ ceCues \in Seq(CueRecords)
        BY <2>2, <2>7
      <3> QED BY <2>3, <2>4, <3>1 DEF CuesOK, InOrder, Unique, Owned, SlotsOwned
    <2> QED BY <2>1, <2>5, <2>6, <2>7
  <1> QED BY <1>1, <1>2, <1>3 DEF EditorInv

\* The steps of the editor.
LEMMA EditStepKeeps ==
  ASSUME EditorInv, NEW cues, cues = << >> \/ Good(ceCues, cues), Edit(cues)
  PROVE  StepKeeps /\ TrackKnown' /\ ceLeft' \in 0 .. MaxCueEdits
  <1>1. ceLeft > 0 /\ ceLeft' = ceLeft - 1 /\ Result(cues)
    BY DEF Edit
  <1>2. ceLeft' \in 0 .. MaxCueEdits
    BY <1>1, CueEditorAssumption DEF EditorInv
  <1> QED BY <1>1, <1>2, ResultKeeps

LEMMA EditCueKeeps ==
  ASSUME EditorInv, NEW id \in Ids(ceCues), EditCue(id)
  PROVE  StepKeeps /\ TrackKnown' /\ ceLeft' \in 0 .. MaxCueEdits /\ ceAdded' = ceAdded
  <1> DEFINE i == IndexOf(ceCues, id)
             c == ceCues[i]
  <1>1. CuesOK(ceCues)
    BY DEF EditorInv
  <1>2. ceAdded' = ceAdded
    BY DEF EditCue
  <1>3. \/ c.family = "hot" /\ Edit(ToMemory(ceCues, id))
        \/ c.family = "memory" /\ \E s \in SlotsTried \ HotSlots(ceCues) : Edit(ToHot(ceCues, id, s))
        \/ c.family = "hot" /\ \E s \in SlotsTried \ HotSlots(ceCues) : Edit(ToSlot(ceCues, id, s))
        \/ c.type = "loop" /\ Edit(ToCue(ceCues, id))
        \/ c.type = "cue" /\ Edit(ToLoop(ceCues, id))
        \/ c.type = "loop" /\ \E ms \in Places, snap \in Snaps : Edit(ToEnd(ceCues, id, ms, snap))
        \/ c.type = "loop" /\ Edit([ceCues EXCEPT ![i].active = ~@])
    BY DEF EditCue
  <1> DEFINE Kept == StepKeeps /\ TrackKnown' /\ ceLeft' \in 0 .. MaxCueEdits
  <1>4. ASSUME c.family = "hot", Edit(ToMemory(ceCues, id)) PROVE Kept
    <2>1. Good(ceCues, ToMemory(ceCues, id))
      BY <1>1, <1>4, GoodToMemory
    <2> QED BY <1>4, <2>1, EditStepKeeps
  <1>5. ASSUME c.family = "memory", NEW s \in SlotsTried \ HotSlots(ceCues), Edit(ToHot(ceCues, id, s))
        PROVE  Kept
    <2>1. Good(ceCues, ToHot(ceCues, id, s))
      BY <1>1, <1>5, GoodToHot
    <2> QED BY <1>5, <2>1, EditStepKeeps
  <1>6. ASSUME c.family = "hot", NEW s \in SlotsTried \ HotSlots(ceCues), Edit(ToSlot(ceCues, id, s))
        PROVE  Kept
    <2>1. Good(ceCues, ToSlot(ceCues, id, s))
      BY <1>1, <1>6, GoodToSlot
    <2> QED BY <1>6, <2>1, EditStepKeeps
  <1>7. ASSUME Edit(ToCue(ceCues, id)) PROVE Kept
    <2>1. Good(ceCues, ToCue(ceCues, id))
      BY <1>1, GoodToCue
    <2> QED BY <1>7, <2>1, EditStepKeeps
  <1>8. ASSUME Edit(ToLoop(ceCues, id)) PROVE Kept
    <2>1. ToLoop(ceCues, id) = << >> \/ Good(ceCues, ToLoop(ceCues, id))
      BY <1>1, GoodToLoop
    <2> QED BY <1>8, <2>1, EditStepKeeps
  <1>9. ASSUME c.type = "loop", NEW ms \in Places, NEW snap \in Snaps, Edit(ToEnd(ceCues, id, ms, snap))
        PROVE  Kept
    <2>1. ToEnd(ceCues, id, ms, snap) = << >> \/ Good(ceCues, ToEnd(ceCues, id, ms, snap))
      BY <1>1, <1>9, GoodToEnd
    <2> QED BY <1>9, <2>1, EditStepKeeps
  <1>10. ASSUME c.type = "loop", Edit([ceCues EXCEPT ![i].active = ~@]) PROVE Kept
    <2>1. Good(ceCues, [ceCues EXCEPT ![i].active = ~@])
      BY <1>1, <1>10, GoodToggle
    <2> QED BY <1>10, <2>1, EditStepKeeps
  <1> HIDE DEF Kept, c, i
  <1>11. Kept
    BY <1>3, <1>4, <1>5, <1>6, <1>7, <1>8, <1>9, <1>10
  <1> QED BY <1>2, <1>11 DEF Kept

LEMMA EditorSteps ==
  ASSUME EditorInv, [EditorNext]_editorVars
  PROVE  EditorInv' /\ (Ranges(ceCues) => Ranges(ceCues') \/ StartMovedAlone(ceCues, ceCues'))
  <1>1. CuesOK(ceCues)
    BY DEF EditorInv
  <1> DEFINE Kept == /\ StepKeeps /\ TrackKnown'
                     /\ ceLeft' \in 0 .. MaxCueEdits /\ ceAdded' \in 0 .. MaxAdded
  <1>2. Kept => EditorInv' /\ (Ranges(ceCues) => Ranges(ceCues') \/ StartMovedAlone(ceCues, ceCues'))
    BY DEF StepKeeps, EditorInv
  <1>3. ASSUME NEW family \in {"hot", "memory"}, NEW ms \in Places, NEW snap \in Snaps,
               AddCue(family, ms, snap)
        PROVE  Kept
    <2> DEFINE id == ManualId(ceAdded')
    <2>1. ceAdded' \in 0 .. MaxAdded /\ id \in Nat
      BY <1>3, CueEditorAssumption DEF AddCue, EditorInv, ManualId
    <2>2. Edit(Added(ceCues, id, family, ms, snap))
      BY <1>3 DEF AddCue
    <2> HIDE DEF id
    <2>3. Added(ceCues, id, family, ms, snap) = << >> \/ Good(ceCues, Added(ceCues, id, family, ms, snap))
      BY <1>1, <2>1, GoodAdded
    <2> QED BY <2>1, <2>2, <2>3, EditStepKeeps
  <1>4. ASSUME NEW id \in Ids(ceCues), NEW ms \in Places, NEW snap \in Snaps, MoveCue(id, ms, snap)
        PROVE  Kept
    <2>1. Edit(Moved(ceCues, id, ms, snap)) /\ ceAdded' = ceAdded
      BY <1>4 DEF MoveCue
    <2>2. Moved(ceCues, id, ms, snap) = << >> \/ Good(ceCues, Moved(ceCues, id, ms, snap))
      BY <1>1, GoodMoved
    <2>3. StepKeeps /\ TrackKnown' /\ ceLeft' \in 0 .. MaxCueEdits
      BY <2>1, <2>2, EditStepKeeps
    <2> QED BY <2>1, <2>3 DEF EditorInv
  <1>5. ASSUME NEW id \in Ids(ceCues), EditCue(id) PROVE Kept
    <2>1. StepKeeps /\ TrackKnown' /\ ceLeft' \in 0 .. MaxCueEdits /\ ceAdded' = ceAdded
      BY <1>5, EditCueKeeps
    <2> QED BY <2>1 DEF EditorInv
  <1>6. ASSUME NEW id \in Ids(ceCues), DeleteCue(id) PROVE Kept
    <2>1. /\ ceLeft' \in 0 .. MaxCueEdits /\ ceAdded' \in 0 .. MaxAdded
          /\ ceCues' = Deleted(ceCues, id) /\ ceTwins' = ceTwins /\ TrackKnown'
      BY <1>6, CueEditorAssumption DEF DeleteCue, EditorInv, TrackKnown
    <2>2. /\ Good(ceCues, ceCues') /\ (Unique(ceCues) => Unique(ceCues'))
          /\ (InOrder(ceCues) => InOrder(ceCues'))
      BY <1>1, <2>1, GoodDeleted
    <2> QED BY <2>1, <2>2 DEF EditorInv, StepKeeps, Good
  <1>7. ASSUME AutoCue PROVE Kept
    <2>1. Result(AutoMerged(ceCues)) /\ ceAdded' = ceAdded /\ ceLeft' = ceLeft
      BY <1>7 DEF AutoCue
    <2>2. Good(ceCues, AutoMerged(ceCues))
      BY <1>1, GoodMerged DEF EditorInv
    <2>3. StepKeeps /\ TrackKnown'
      BY <2>1, <2>2, ResultKeeps
    <2> QED BY <2>1, <2>3 DEF EditorInv
  <1>8. ASSUME SaveAndReopen PROVE Kept
    <2>1. /\ ceCues' = Hydrated(ceCues) /\ ceTwins' = ceTwins /\ ceAdded' = ceAdded
          /\ ceLeft' = ceLeft /\ TrackKnown'
      BY <1>8 DEF SaveAndReopen, EditorInv, TrackKnown
    <2>2. /\ CuesOK(ceCues') /\ InOrder(ceCues') /\ Unique(ceCues')
          /\ (Ranges(ceCues) => Ranges(ceCues')) /\ (Owned(ceCues) => Owned(ceCues'))
      BY <1>1, <2>1, HydratedIs
    <2> QED BY <2>1, <2>2 DEF EditorInv, StepKeeps
  <1>9. CASE UNCHANGED editorVars
    BY <1>9 DEF editorVars, EditorInv, TrackKnown
  <1>10. EditorNext => Kept
    <2> HIDE DEF Kept
    <2> QED BY <1>3, <1>4, <1>5, <1>6, <1>7, <1>8 DEF EditorNext
  <1> QED BY <1>2, <1>9, <1>10

\* What follows from the invariant.
LEMMA TypesFromInv == EditorInv => EditorTypeOK
  <1> SUFFICES ASSUME EditorInv PROVE EditorTypeOK
    OBVIOUS
  <1>1. CuesOK(ceCues) /\ DOMAIN ceCues \subseteq Nat
    BY CuesAre DEF EditorInv
  <1>2. ASSUME NEW i \in DOMAIN ceCues
        PROVE  LET c == ceCues[i]
               IN  /\ c.family \in {"hot", "memory"} /\ c.type \in {"cue", "loop"}
                   /\ c.slot \in 0 .. 8 /\ c.pair \in 0 .. 8 /\ c.lead \in {None, 0, LeadBars}
                   /\ c.active \in BOOLEAN /\ c.auto \in BOOLEAN
    BY <1>1, CuesAre, CueIs
  <1>3. \A i, j \in DOMAIN ceCues : i < j => ceCues[i].start <= ceCues[j].start
    BY <1>1 DEF EditorInv, InOrder
  <1> QED BY <1>2, <1>3 DEF EditorTypeOK, EditorInv

LEMMA FitFromInv == EditorInv => GeneratedCuesFit
  <1> SUFFICES ASSUME EditorInv PROVE GeneratedCuesFit
    OBVIOUS
  <1>1. ProposalsInOrder
    BY ProposalsFollowTrack DEF EditorInv
  <1>2. PairsHaveOwner
    <2> SUFFICES ASSUME ~ceTwins, NEW i \in DOMAIN ceCues, ceCues[i].pair # 0
                 PROVE  ceCues[i].pair \in HotSlots(ceCues) /\ PairOf(ceCues, ceCues[i].pair) = {i}
      BY DEF PairsHaveOwner
    <2>1. Owned(ceCues) /\ CuesOK(ceCues)
      BY DEF EditorInv
    <2>2. Plain(ceCues[i])
      BY <2>1, CuesAre
    <2>3. ceCues[i].pair \in HotSlots(ceCues)
      BY <2>1 DEF Owned, HotSlots
    <2>4. i \in PairOf(ceCues, ceCues[i].pair)
      BY <2>2 DEF PairOf, Plain
    <2>5. \A k \in PairOf(ceCues, ceCues[i].pair) : k = i
      BY <2>1 DEF PairOf, Owned
    <2> QED BY <2>3, <2>4, <2>5
  <1> QED BY <1>1, <1>2 DEF GeneratedCuesFit

\* CuePointsView.tsx with cueEditorState.ts: whatever the grid, the phrases and the edits,
\* the cues stay in order, one Hot Cue to a slot, loops with an end, and until two cues
\* share an identity every generated Memory Cue has its Hot Cue.
THEOREM EditorInvariant == EditorSpec => []EditorInv
  <1>1. EditorInit => EditorInv
    BY EditorStart
  <1>2. EditorInv /\ [EditorNext]_editorVars => EditorInv'
    BY EditorSteps
  <1> QED BY <1>1, <1>2, PTL DEF EditorSpec

\* Every state of the editor is a state it declares, with its cues in order.
THEOREM EditorTypeCorrect == EditorSpec => []EditorTypeOK
  <1>1. EditorInv => EditorTypeOK
    BY TypesFromInv
  <1> QED BY <1>1, EditorInvariant, PTL

\* generateAutoCues: whatever the track, what Auto Cue proposes follows the arrangement,
\* and no edit leaves a generated Memory Cue without its Hot Cue, or two for one.
THEOREM GeneratedCuesSafe == EditorSpec => []GeneratedCuesFit
  <1>1. EditorInv => GeneratedCuesFit
    BY FitFromInv
  <1> QED BY <1>1, EditorInvariant, PTL

\* An edit never makes cues that can be saved into cues that the server refuses, except
\* the move of the start of a loop past its end without the end.
THEOREM EditsSaveable == EditorSpec => EditsStaySaveable
  <1>1. EditorInv /\ EditorInv' /\ [EditorNext]_editorVars =>
          [Saveable(ceCues) => Saveable(ceCues') \/ StartMovedAlone(ceCues, ceCues')]_editorVars
    <2> SUFFICES ASSUME EditorInv, EditorInv', [EditorNext]_editorVars, Saveable(ceCues)
                 PROVE  Saveable(ceCues') \/ StartMovedAlone(ceCues, ceCues')
      OBVIOUS
    <2>1. CuesOK(ceCues) /\ CuesOK(ceCues')
      BY DEF EditorInv
    <2>2. Ranges(ceCues)
      BY <2>1, SaveableIs
    <2>3. Ranges(ceCues') \/ StartMovedAlone(ceCues, ceCues')
      BY <2>2, EditorSteps
    <2> QED BY <2>1, <2>3, SaveableIs
  <1> QED BY <1>1, EditorInvariant, PTL DEF EditorSpec, EditsStaySaveable

-----------------------------------------------------------------------------
(* Roulette: the hard filters. The ranking asks for the reasons of a pair  *)
(* in both roles and the page asks once; the reasons come in other orders. *)

\* What is known of a track.
LEMMA TrackIs ==
  /\ TrackIds = 1 .. Len(Tracks) /\ Len(Tracks) \in Nat
  /\ \A t \in TrackIds :
       /\ t \in Nat /\ Tracks[t].number \in 0 .. 12 /\ Tracks[t].mode \in {0, 1}
       /\ Tracks[t].bpm \in Nat /\ Tracks[t].grid \in BOOLEAN /\ Tracks[t].stable \in BOOLEAN
       /\ Tracks[t].file \in BOOLEAN /\ Tracks[t].bonus \in Int
  <1> DEFINE R == [number : 0 .. 12, mode : {0, 1}, bpm : Nat, grid : BOOLEAN,
                   stable : BOOLEAN, file : BOOLEAN, bonus : Int]
  <1>1. Tracks \in Seq(R)
    BY RouletteAssumption
  <1> HIDE DEF R
  <1>2. TrackIds = 1 .. Len(Tracks) /\ Len(Tracks) \in Nat /\ \A t \in TrackIds : Tracks[t] \in R
    BY <1>1 DEF TrackIds
  <1> QED BY <1>2 DEF R

LEMMA TracksFinite == IsFiniteSet(TrackIds)
  <1>1. \A n \in Nat : IsFiniteSet(1 .. n)
    BY FS_Interval
  <1>2. TrackIds = 1 .. Len(Tracks) /\ Len(Tracks) \in Nat
    BY TrackIs
  <1> QED BY <1>1, <1>2

\* How far two tempos are apart, and the wheel of keys without its arithmetic.
LEMMA GapIs ==
  ASSUME NEW m \in Nat, NEW n \in Nat
  PROVE  TempoGap(m, n) \in Nat /\ TempoGap(m, n) = TempoGap(n, m)
  BY DEF TempoGap

LEMMA WheelIs ==
  ASSUME NEW n \in 1 .. 12
  PROVE  /\ Wrap12(n + 1) = (IF n = 12 THEN 1 ELSE n + 1)
         /\ Wrap12(n - 1) = (IF n = 1 THEN 12 ELSE n - 1)
         /\ Wrap12(n + 2) = (IF n = 12 THEN 2 ELSE IF n = 11 THEN 1 ELSE n + 2)
  BY DEF Wrap12

\* Two keys go together if they are known, and neighbours on the wheel of one mode or
\* relatives.
KeysGo(s, c) ==
  LET n == Tracks[s].number  m == Tracks[c].number
  IN  /\ n # 0 /\ m # 0
      /\ \/ m = n
         \/ /\ Tracks[s].mode = Tracks[c].mode
            /\ \/ m = (IF n = 12 THEN 1 ELSE n + 1)
               \/ m = (IF n = 1 THEN 12 ELSE n - 1)

\* The keys go together either way round, and the code says so exactly then.
LEMMA KeysEitherWay ==
  ASSUME NEW s \in TrackIds, NEW c \in TrackIds
  PROVE  KeysGo(s, c) <=> KeysGo(c, s)
  <1> DEFINE n == Tracks[s].number
             m == Tracks[c].number
             same == Tracks[s].mode = Tracks[c].mode
  <1>1. n \in 0 .. 12 /\ m \in 0 .. 12
    BY TrackIs
  <1>2. KeysGo(s, c) <=> /\ n # 0 /\ m # 0
                         /\ \/ m = n
                            \/ /\ same
                               /\ m = (IF n = 12 THEN 1 ELSE n + 1) \/ m = (IF n = 1 THEN 12 ELSE n - 1)
    BY DEF KeysGo
  <1>3. KeysGo(c, s) <=> /\ n # 0 /\ m # 0
                         /\ \/ n = m
                            \/ /\ same
                               /\ n = (IF m = 12 THEN 1 ELSE m + 1) \/ n = (IF m = 1 THEN 12 ELSE m - 1)
    BY DEF KeysGo
  <1> HIDE DEF n, m, same
  <1> QED BY <1>1, <1>2, <1>3

LEMMA KeysAre ==
  ASSUME NEW s \in TrackIds, NEW c \in TrackIds
  PROVE  KeyRelationship(s, c) \notin {"missing", "mismatch"} <=> KeysGo(s, c)
  <1> DEFINE n == Tracks[s].number
             m == Tracks[c].number
             same == Tracks[s].mode = Tracks[c].mode
             r == CamelotRelationship(s, c)
             k == KeyRelationship(s, c)
  <1>1. n \in 0 .. 12 /\ m \in 0 .. 12
    BY TrackIs
  <1>2. r = CASE m = n /\ same -> "exact"
       [] m = n /\ ~same -> "relative"
       [] m = Wrap12(n + 1) /\ same -> "adjacent_up"
       [] m = Wrap12(n - 1) /\ same -> "adjacent_down"
       [] m = Wrap12(n + 2) /\ same -> "energy_boost"
       [] OTHER -> "incompatible"
    BY DEF CamelotRelationship
  <1>3. k = IF n = 0 \/ m = 0 THEN "missing"
            ELSE IF r = "exact" THEN "exact"
            ELSE IF r \in {"relative", "adjacent_up", "adjacent_down"} THEN "branch" ELSE "mismatch"
    BY DEF KeyRelationship
  <1> DEFINE u == Wrap12(n + 1)
             w == Wrap12(n - 1)
             x == Wrap12(n + 2)
  <1>4. n # 0 => /\ u = (IF n = 12 THEN 1 ELSE n + 1)
                 /\ w = (IF n = 1 THEN 12 ELSE n - 1)
                 /\ x = (IF n = 12 THEN 2 ELSE IF n = 11 THEN 1 ELSE n + 2)
    BY <1>1, WheelIs
  <1>5. KeysGo(s, c) <=> /\ n # 0 /\ m # 0
                         /\ \/ m = n
                            \/ /\ same
                               /\ m = (IF n = 12 THEN 1 ELSE n + 1) \/ m = (IF n = 1 THEN 12 ELSE n - 1)
    BY DEF KeysGo
  <1> HIDE DEF k, r, n, m, same, u, w, x
  <1>6. n # 0 /\ m # 0 =>
          (r \in {"exact", "relative", "adjacent_up", "adjacent_down"} <=>
             (m = n \/ (same /\ (m = u \/ m = w))))
    <2> SUFFICES ASSUME n # 0, m # 0
                 PROVE  r \in {"exact", "relative", "adjacent_up", "adjacent_down"} <=>
                          (m = n \/ (same /\ (m = u \/ m = w)))
      OBVIOUS
    <2>1. r = CASE m = n /\ same -> "exact"
       [] m = n /\ ~same -> "relative"
       [] m = u /\ same -> "adjacent_up"
       [] m = w /\ same -> "adjacent_down"
       [] m = x /\ same -> "energy_boost"
       [] OTHER -> "incompatible"
      BY <1>2 DEF u, w, x
    <2>2. u # n /\ w # n /\ x # n /\ u # w /\ u # x /\ w # x
      BY <1>1, <1>4
    <2> QED BY <2>1, <2>2
  <1>7. k \notin {"missing", "mismatch"} <=>
          n # 0 /\ m # 0 /\ r \in {"exact", "relative", "adjacent_up", "adjacent_down"}
    BY <1>3
  <1>8. k \notin {"missing", "mismatch"} <=> KeysGo(s, c)
    BY <1>4, <1>5, <1>6, <1>7
  <1> QED BY <1>8 DEF k

\* Two tracks pass the hard filters, whichever of them is asked about the other.
GoesWith(v, i) ==
  /\ v # i /\ Tracks[v].file /\ Tracks[i].file /\ Tracks[v].stable /\ Tracks[i].stable
  /\ Tracks[v].grid /\ Tracks[i].grid /\ KeysGo(v, i) /\ TempoCompatible(v, i)

\* So do the tempos, and the filters as a whole.
LEMMA TempoEitherWay ==
  ASSUME NEW s \in TrackIds, NEW c \in TrackIds
  PROVE  /\ TempoCompatible(s, c) <=> TempoCompatible(c, s)
         /\ TempoCompatible(s, c) => Tracks[s].bpm # 0 /\ Tracks[c].bpm # 0
  <1> DEFINE a == Tracks[s].bpm
             b == Tracks[c].bpm
  <1>1. a \in Nat /\ b \in Nat
    BY TrackIs
  <1>2. TempoCompatible(s, c) <=> a > 0 /\ b > 0 /\ TempoGap(a, b) <= BpmTolerance
    BY DEF TempoCompatible
  <1>3. TempoCompatible(c, s) <=> b > 0 /\ a > 0 /\ TempoGap(b, a) <= BpmTolerance
    BY DEF TempoCompatible
  <1>4. a # 0 <=> a > 0
    BY <1>1
  <1>5. b # 0 <=> b > 0
    BY <1>1
  <1> HIDE DEF a, b
  <1>6. TempoGap(a, b) = TempoGap(b, a)
    BY <1>1, GapIs
  <1>7. TempoCompatible(s, c) => a # 0 /\ b # 0
    BY <1>2, <1>4, <1>5
  <1> QED BY <1>2, <1>3, <1>6, <1>7 DEF a, b

LEMMA FilterIs ==
  ASSUME NEW c \in TrackIds, NEW r \in TrackIds
  PROVE  HardFilterReason(c, r) = "none" <=> GoesWith(r, c)
  <1> DEFINE k == KeyRelationship(r, c)
             t == TempoCompatible(r, c)
  <1>1. k \notin {"missing", "mismatch"} <=> KeysGo(r, c)
    BY KeysAre
  <1>2. t => Tracks[r].bpm # 0 /\ Tracks[c].bpm # 0
    BY TempoEitherWay
  <1>3. HardFilterReason(c, r) =
          CASE c = r -> "same-parent-track"
            [] ~Tracks[c].file \/ ~Tracks[r].file -> "source-unavailable"
            [] k = "missing" -> "missing-key"
            [] k = "mismatch" -> "key-mismatch"
            [] Tracks[r].bpm = 0 \/ Tracks[c].bpm = 0 -> "missing-bpm"
            [] ~t -> "tempo-mismatch"
            [] ~Tracks[r].stable \/ ~Tracks[c].stable -> "variable-tempo"
            [] ~Tracks[r].grid \/ ~Tracks[c].grid -> "missing-beat-grid"
            [] OTHER -> "none"
    BY DEF HardFilterReason
  <1>4. GoesWith(r, c) <=> /\ c # r /\ Tracks[c].file /\ Tracks[r].file /\ KeysGo(r, c) /\ t
                       /\ Tracks[r].stable /\ Tracks[c].stable /\ Tracks[r].grid /\ Tracks[c].grid
    BY DEF GoesWith
  <1> HIDE DEF k, t
  <1> QED BY <1>1, <1>2, <1>3, <1>4

LEMMA GoesEitherWay ==
  ASSUME NEW v \in TrackIds, NEW i \in TrackIds
  PROVE  GoesWith(v, i) <=> GoesWith(i, v)
  BY KeysEitherWay, TempoEitherWay DEF GoesWith

\* The page counts a pair as eligible exactly if the ranking takes it.
LEMMA ReasonsAgree ==
  ASSUME NEW v \in TrackIds, NEW i \in TrackIds
  PROVE  /\ Ranked(<<v, i>>) <=> GoesWith(v, i)
         /\ Ranked(<<v, i>>) <=> DiagnosticReason(v, i) = "eligible"
  <1>1. Ranked(<<v, i>>) <=> GoesWith(v, i)
    <2>1. HardFilterReason(i, v) = "none" <=> GoesWith(v, i)
      BY FilterIs
    <2>2. HardFilterReason(v, i) = "none" <=> GoesWith(v, i)
      BY FilterIs, GoesEitherWay
    <2> QED BY <2>1, <2>2 DEF Ranked, PairReason
  <1>2. DiagnosticReason(v, i) = "eligible" <=> GoesWith(v, i)
    <2> DEFINE k == KeyRelationship(v, i)
               t == TempoCompatible(v, i)
    <2>1. k \notin {"missing", "mismatch"} <=> KeysGo(v, i)
      BY KeysAre
    <2>2. DiagnosticReason(v, i) =
            CASE v = i -> "same-parent-conflict"
              [] ~Tracks[v].file \/ ~Tracks[i].file -> "source-unavailable"
              [] ~Tracks[v].stable \/ ~Tracks[i].stable -> "variable-tempo"
              [] ~Tracks[v].grid \/ ~Tracks[i].grid -> "missing-invalid-beat-grid"
              [] k \in {"missing", "mismatch"} -> "incompatible-key"
              [] ~t -> "bpm-outside-range"
              [] OTHER -> "eligible"
      BY DEF DiagnosticReason
    <2>3. GoesWith(v, i) <=>
            /\ v # i /\ Tracks[v].file /\ Tracks[i].file /\ Tracks[v].stable /\ Tracks[i].stable
            /\ Tracks[v].grid /\ Tracks[i].grid /\ KeysGo(v, i) /\ t
      BY DEF GoesWith
    <2> HIDE DEF k, t
    <2> QED BY <2>1, <2>2, <2>3
  <1> QED BY <1>1, <1>2

-----------------------------------------------------------------------------
(* The nearest tempos of one key.                                          *)

\* What sorting the tracks of one key makes of them: each of them once, the unknown
\* tempos last and the others from slow to fast.
BucketOf(b, own) ==
  /\ own \subseteq TrackIds
  /\ \E n \in Nat : DOMAIN b = 1 .. n
  /\ \A k \in DOMAIN b : b[k] \in own
  /\ \A i \in own : \E k \in DOMAIN b : b[k] = i
  /\ \A k, l \in DOMAIN b : k <= l /\ Tracks[b[l]].bpm > 0 =>
       Tracks[b[k]].bpm > 0 /\ Tracks[b[k]].bpm <= Tracks[b[l]].bpm

LEMMA BucketIs ==
  ASSUME NEW instrumentals, instrumentals \subseteq TrackIds, NEW number, NEW mode
  PROVE  BucketOf(Bucket(instrumentals, number, mode),
                  {i \in instrumentals : Tracks[i].number = number /\ Tracks[i].mode = mode})
  <1> DEFINE own == {i \in instrumentals : Tracks[i].number = number /\ Tracks[i].mode = mode}
             upto == {p \in own \X own : p[1] = p[2] \/ TempoBefore(p[1], p[2])}
             b == Bucket(instrumentals, number, mode)
             m == Cardinality(own)
             bpm(i) == Tracks[i].bpm
  <1>1. own \subseteq TrackIds
    OBVIOUS
  <1>2. b = Listed(own, upto)
    BY DEF Bucket
  <1>3. \A i \in own : i \in Nat /\ bpm(i) \in Nat
    BY <1>1, TrackIs
  <1>4. \A i, j \in own : <<i, j>> \in upto <=>
          \/ i = j
          \/ bpm(i) # 0 /\ bpm(j) = 0
          \/ (bpm(i) = 0 <=> bpm(j) = 0) /\ (bpm(i) < bpm(j) \/ (bpm(i) = bpm(j) /\ i < j))
    BY DEF TempoBefore
  <1>5. IsFiniteSet(own)
    <2>1. IsFiniteSet(TrackIds)
      BY TracksFinite
    <2> QED BY <1>1, <2>1, FS_Subset
  <1> HIDE DEF own, upto, b, bpm
  <1>6. Orders(upto, own)
    <2>1. \A i \in own : <<i, i>> \in upto
      BY <1>4
    <2>2. ASSUME NEW i \in own, NEW j \in own PROVE <<i, j>> \in upto \/ <<j, i>> \in upto
      <3>1. i \in Nat /\ j \in Nat /\ bpm(i) \in Nat /\ bpm(j) \in Nat
        BY <1>3
      <3>2. CASE bpm(i) = 0 <=> bpm(j) = 0
        BY <1>4, <3>1, <3>2
      <3>3. CASE ~(bpm(i) = 0 <=> bpm(j) = 0)
        BY <1>4, <3>3
      <3> QED BY <3>2, <3>3
    <2>3. \A i, j \in own : <<i, j>> \in upto /\ <<j, i>> \in upto => i = j
      BY <1>3, <1>4
    <2>4. ASSUME NEW i \in own, NEW j \in own, NEW k \in own, <<i, j>> \in upto, <<j, k>> \in upto
          PROVE  <<i, k>> \in upto
      BY <1>3, <1>4, <2>4
    <2> QED BY <2>1, <2>2, <2>3, <2>4 DEF Orders
  <1>7. /\ m \in Nat /\ b \in Bijection(1 .. m, own)
        /\ \A k, l \in 1 .. m : k <= l => <<b[k], b[l]>> \in upto
        /\ \A i \in own : \E k \in 1 .. m : b[k] = i
    BY <1>2, <1>5, <1>6, ListedInOrder
  <1>8. b \in [1 .. m -> own]
    BY <1>7, Fun_BijectionProperties
  <1> HIDE DEF m
  <1>9. \A k \in 1 .. m : b[k] \in own
    BY <1>8
  <1>10. DOMAIN b = 1 .. m
    BY <1>8
  <1>11. ASSUME NEW k \in 1 .. m, NEW l \in 1 .. m, k <= l, bpm(b[l]) > 0
         PROVE  bpm(b[k]) > 0 /\ bpm(b[k]) <= bpm(b[l])
    <2> DEFINE x == b[k]
               y == b[l]
    <2>1. x \in own /\ y \in own /\ <<x, y>> \in upto /\ bpm(y) > 0
      BY <1>7, <1>9, <1>11
    <2> HIDE DEF x, y
    <2>2. bpm(x) > 0 /\ bpm(x) <= bpm(y)
      BY <1>3, <1>4, <2>1
    <2> QED BY <2>2 DEF x, y
  <1>12. BucketOf(b, own)
    <2>1. \A k, l \in DOMAIN b : k <= l /\ Tracks[b[l]].bpm > 0 =>
            Tracks[b[k]].bpm > 0 /\ Tracks[b[k]].bpm <= Tracks[b[l]].bpm
      BY <1>10, <1>11 DEF bpm
    <2> QED BY <1>1, <1>7, <1>9, <1>10, <2>1 DEF BucketOf
  <1> QED BY <1>12 DEF b, own

\* The bounds of a tempo range enclose the tracks whose tempo is in it.
LEMMA BoundsAre ==
  ASSUME NEW b, NEW own, BucketOf(b, own), NEW x \in Int, NEW y \in Int, x <= y
  PROVE  /\ LowerBound(b, x) \in Nat /\ LowerBound(b, x) >= 1
         /\ LowerBound(b, x) <= LowerBound(b, y)
         /\ LowerBound(b, x) <= UpperBound(b, y)
         /\ UpperBound(b, y) \in Nat
         /\ \A k \in Nat : k >= 1 /\ k < UpperBound(b, y) => k \in DOMAIN b
         /\ \A k \in DOMAIN b :
              (Tracks[b[k]].bpm > 0 /\ x <= Tracks[b[k]].bpm /\ Tracks[b[k]].bpm <= y) =>
                LowerBound(b, x) <= k /\ k < UpperBound(b, y)
  <1> DEFINE bpm(k) == Tracks[b[k]].bpm
             Lower(z) == {k \in DOMAIN b : bpm(k) > 0 /\ bpm(k) < z}
             Upper == {k \in DOMAIN b : bpm(k) > 0 /\ bpm(k) <= y}
  <1>1. PICK n \in Nat : DOMAIN b = 1 .. n
    BY DEF BucketOf
  <1>2. \A k \in 1 .. n : bpm(k) \in Nat
    BY <1>1, TrackIs DEF BucketOf
  <1>3. IsFiniteSet(1 .. n) /\ Cardinality(1 .. n) = n
    BY FS_Interval
  <1>4. /\ Lower(x) \in SUBSET Lower(y) /\ Lower(x) \in SUBSET Upper
        /\ Upper \in SUBSET (1 .. n) /\ Lower(y) \in SUBSET (1 .. n)
    BY <1>1, <1>2
  <1>5. LowerBound(b, x) = 1 + Cardinality(Lower(x)) /\ LowerBound(b, y) = 1 + Cardinality(Lower(y))
        /\ UpperBound(b, y) = 1 + Cardinality(Upper)
    BY DEF LowerBound, UpperBound
  <1>6. \A k, l \in 1 .. n : k <= l /\ bpm(l) > 0 => bpm(k) > 0 /\ bpm(k) <= bpm(l)
    BY <1>1 DEF BucketOf
  <1>7. \A k \in 1 .. n : /\ k \in Lower(x) <=> bpm(k) > 0 /\ bpm(k) < x
                          /\ k \in Upper <=> bpm(k) > 0 /\ bpm(k) <= y
    BY <1>1
  <1> HIDE DEF bpm, Lower, Upper
  <1>8. IsFiniteSet(Upper) /\ IsFiniteSet(Lower(y)) /\ Cardinality(Upper) <= n
    BY <1>3, <1>4, FS_Subset
  <1>9. IsFiniteSet(Lower(x)) /\ Cardinality(Lower(x)) <= Cardinality(Lower(y))
        /\ Cardinality(Lower(x)) <= Cardinality(Upper)
    BY <1>4, <1>8, FS_Subset
  <1>10. Cardinality(Upper) \in Nat /\ Cardinality(Lower(y)) \in Nat /\ Cardinality(Lower(x)) \in Nat
    BY <1>8, <1>9, FS_CardinalityType
  <1>11. ASSUME NEW k \in 1 .. n, bpm(k) > 0, x <= bpm(k), bpm(k) <= y
         PROVE  1 + Cardinality(Lower(x)) <= k /\ k < 1 + Cardinality(Upper)
    <2>1. Lower(x) \in SUBSET (1 .. k - 1)
      <3> SUFFICES ASSUME NEW l \in Lower(x) PROVE l \in 1 .. k - 1
        OBVIOUS
      <3>1. l \in 1 .. n /\ bpm(l) > 0 /\ bpm(l) < x
        BY <1>4, <1>7
      <3>2. bpm(k) \in Nat /\ bpm(l) \in Nat /\ (k <= l => bpm(k) <= bpm(l))
        BY <1>2, <1>6, <1>11, <3>1
      <3>3. ~(k <= l)
        BY <1>11, <3>1, <3>2
      <3> QED BY <3>1, <3>3
    <2>2. 1 .. k \in SUBSET Upper
      <3> SUFFICES ASSUME NEW l \in 1 .. k PROVE l \in Upper
        OBVIOUS
      <3>1. l \in 1 .. n /\ l <= k
        OBVIOUS
      <3>2. bpm(l) > 0 /\ bpm(l) <= bpm(k)
        BY <1>6, <1>11, <3>1
      <3> QED BY <1>2, <1>7, <1>11, <3>1, <3>2
    <2>3. IsFiniteSet(1 .. k - 1) /\ Cardinality(1 .. k - 1) = k - 1 /\ Cardinality(1 .. k) = k
      <3>1. k - 1 \in Nat /\ k \in Nat /\ k - 1 = k - 1
        OBVIOUS
      <3>2. \A z \in Nat : IsFiniteSet(1 .. z) /\ Cardinality(1 .. z) = z
        BY FS_Interval
      <3> QED BY <3>1, <3>2
    <2>4. Cardinality(Lower(x)) <= k - 1
      BY <2>1, <2>3, FS_Subset
    <2>5. k <= Cardinality(Upper)
      BY <1>8, <2>2, <2>3, FS_Subset
    <2> QED BY <1>10, <2>4, <2>5
  <1>12. \A k \in Nat : k >= 1 /\ k < 1 + Cardinality(Upper) => k \in 1 .. n
    BY <1>8, <1>10
  <1>13. \A k \in DOMAIN b : (Tracks[b[k]].bpm > 0 /\ x <= Tracks[b[k]].bpm /\ Tracks[b[k]].bpm <= y) =>
           1 + Cardinality(Lower(x)) <= k /\ k < 1 + Cardinality(Upper)
    BY <1>1, <1>11 DEF bpm
  <1> QED BY <1>1, <1>5, <1>9, <1>10, <1>12, <1>13

\* g is the function probe of NearestTempos on 0..n.
ProbesTo(g, n, b, bpm) ==
  g = [i \in 0..n |->
         IF i = 0 THEN [left |-> LowerBound(b, bpm) - 1, right |-> LowerBound(b, bpm), taken |-> {}]
         ELSE Probed(b, bpm, g[i - 1])]

\* Its recursive definition has a solution, whatever the limit.
LEMMA ProbeExists ==
  ASSUME NEW b, NEW bpm, NEW limit \in Nat
  PROVE  \E g : ProbesTo(g, limit, b, bpm)
  <1> DEFINE start == [left |-> LowerBound(b, bpm) - 1, right |-> LowerBound(b, bpm), taken |-> {}]
             next(p) == Probed(b, bpm, p)
             Has(n) == \E g : ProbesTo(g, n, b, bpm)
             T == {n \in Nat : ~Has(n)}
  <1>0. \A g, n : ProbesTo(g, n, b, bpm) <=> g = [i \in 0..n |-> IF i = 0 THEN start ELSE next(g[i - 1])]
    BY DEF ProbesTo
  <1> HIDE DEF start, next
  <1>1. Has(0)
    <2> DEFINE g == [i \in 0..0 |-> start]
    <2>1. g = [i \in 0..0 |-> IF i = 0 THEN start ELSE next(g[i - 1])]
      OBVIOUS
    <2> QED BY <1>0, <2>1
  <1>2. ASSUME NEW n \in Nat, Has(n) PROVE Has(n + 1)
    <2>1. PICK g : ProbesTo(g, n, b, bpm)
      BY <1>2
    <2> DEFINE h == [i \in 0..(n + 1) |-> IF i \in 0..n THEN g[i] ELSE next(g[n])]
               e == [i \in 0..(n + 1) |-> IF i = 0 THEN start ELSE next(h[i - 1])]
    <2>2. \A i \in 0..n : g[i] = IF i = 0 THEN start ELSE next(g[i - 1])
      BY <1>0, <2>1
    <2>3. ASSUME NEW i \in 0..(n + 1) PROVE h[i] = e[i]
      <3>1. CASE i \in 0..n
        <4>1. h[i] = g[i] /\ (i # 0 => h[i - 1] = g[i - 1])
          BY <3>1
        <4> QED BY <2>2, <3>1, <4>1
      <3>2. CASE i = n + 1
        <4>1. i # 0 /\ i \notin 0..n /\ i - 1 = n /\ h[n] = g[n]
          BY <3>2
        <4> QED BY <3>2, <4>1
      <3> QED BY <3>1, <3>2
    <2>4. h = e
      BY <2>3
    <2>5. ProbesTo(h, n + 1, b, bpm)
      BY <1>0, <2>4
    <2> QED BY <2>5
  <1> HIDE DEF Has
  <1>3. T = {}
    <2> SUFFICES ASSUME T # {} PROVE FALSE
      OBVIOUS
    <2>1. PICK n \in T : \A m \in T : n <= m
      BY LeastNatural
    <2>2. n # 0
      BY <1>1
    <2>3. n - 1 \in Nat /\ n - 1 \notin T /\ n = (n - 1) + 1
      BY <2>1, <2>2
    <2>4. Has(n - 1)
      BY <2>3
    <2>5. Has(n)
      BY <1>2, <2>3, <2>4
    <2> QED BY <2>5
  <1> QED BY <1>3 DEF Has

\* Where a probe of i steps stands that looks for the places from first to end - 1: what it
\* has taken is what lies between its ends.
Stands(p, i, b, own, first, end) ==
  /\ p \in [left : Int, right : Int, taken : SUBSET own]
  /\ first - 1 <= p.left /\ p.left < p.right /\ p.right <= end
  /\ \A k \in Int : p.left < k /\ k < p.right => b[k] \in p.taken
  /\ (p.left < first /\ p.right >= end) \/ p.right - p.left - 1 = i

\* A step of a probe.
LEMMA ProbeStands ==
  ASSUME NEW b, NEW own, BucketOf(b, own), NEW bpm \in Nat, NEW i \in Nat, NEW p,
         Stands(p, i, b, own, LowerBound(b, bpm - BpmTolerance), UpperBound(b, bpm + BpmTolerance))
  PROVE  Stands(Probed(b, bpm, p), i + 1, b, own,
                LowerBound(b, bpm - BpmTolerance), UpperBound(b, bpm + BpmTolerance))
  <1> DEFINE first == LowerBound(b, bpm - BpmTolerance)
             end == UpperBound(b, bpm + BpmTolerance)
             nearer == bpm - Tracks[b[p.left]].bpm <= Tracks[b[p.right]].bpm - bpm
             q == Probed(b, bpm, p)
             Ends(x, j) == /\ x \in [left : Int, right : Int, taken : SUBSET own]
                           /\ first - 1 <= x.left /\ x.left < x.right /\ x.right <= end
                           /\ \A k \in Int : x.left < k /\ k < x.right => b[k] \in x.taken
                           /\ (x.left < first /\ x.right >= end) \/ x.right - x.left - 1 = j
  <1>1. \A x, j : Stands(x, j, b, own, first, end) <=> Ends(x, j)
    BY DEF Stands
  <1>2. q = CASE p.left < first /\ p.right >= end -> p
              [] p.left >= first /\ (p.right >= end \/ nearer) ->
                   [p EXCEPT !.left = @ - 1, !.taken = @ \cup {b[p.left]}]
              [] OTHER -> [p EXCEPT !.right = @ + 1, !.taken = @ \cup {b[p.right]}]
    BY DEF Probed
  <1>3. /\ bpm - BpmTolerance \in Int /\ bpm + BpmTolerance \in Int
        /\ bpm - BpmTolerance <= bpm + BpmTolerance
    BY RouletteAssumption
  <1>4. /\ first \in Nat /\ first >= 1 /\ end \in Nat
        /\ \A k \in Nat : k >= 1 /\ k < end => k \in DOMAIN b
    BY <1>3, BoundsAre
  <1>5. \A k \in DOMAIN b : b[k] \in own
    BY DEF BucketOf
  <1>6. Ends(p, i)
    BY <1>1
  <1> HIDE DEF first, end, nearer, q
  <1>7. PICK l \in Int, r \in Int, t \in SUBSET own : p = [left |-> l, right |-> r, taken |-> t]
    BY <1>6
  <1>8. p.left = l /\ p.right = r /\ p.taken = t
    BY <1>7
  <1>9. /\ first - 1 <= l /\ l < r /\ r <= end
        /\ \A k \in Int : l < k /\ k < r => b[k] \in t
        /\ (l < first /\ r >= end) \/ r - l - 1 = i
    BY <1>6, <1>8
  <1> HIDE DEF Ends
  <1>10. ASSUME l < first, r >= end PROVE Ends(q, i + 1)
    <2>1. p.left < first /\ p.right >= end /\ ~(p.left >= first)
      BY <1>4, <1>8, <1>10
    <2>2. q = p
      BY <1>2, <2>1
    <2> QED BY <1>6, <2>1, <2>2 DEF Ends
  <1>11. ASSUME NEW x \in Int, NEW y \in Int, NEW k \in Int,
                q = [left |-> x, right |-> y, taken |-> t \cup {b[k]}], b[k] \in own,
                first - 1 <= x, y <= end, y - x - 1 = i + 1, x < y,
                \A j \in Int : x < j /\ j < y => j = k \/ (l < j /\ j < r)
         PROVE  Ends(q, i + 1)
    <2> DEFINE u == t \cup {b[k]}
    <2>1. u \in SUBSET own /\ q = [left |-> x, right |-> y, taken |-> u]
      BY <1>11
    <2>2. \A j \in Int : x < j /\ j < y => b[j] \in u
      BY <1>9, <1>11
    <2> HIDE DEF u
    <2>3. /\ q \in [left : Int, right : Int, taken : SUBSET own]
          /\ q.left = x /\ q.right = y /\ q.taken = u
      BY <2>1
    <2> QED BY <1>11, <2>2, <2>3 DEF Ends
  <1>12. ASSUME l >= first, r >= end \/ nearer PROVE Ends(q, i + 1)
    <2>1. q = [p EXCEPT !.left = @ - 1, !.taken = @ \cup {b[p.left]}]
      BY <1>2, <1>4, <1>8, <1>12
    <2>2. q = [left |-> l - 1, right |-> r, taken |-> t \cup {b[l]}]
      BY <1>7, <2>1
    <2>3. l \in Nat /\ l >= 1 /\ l < end /\ l - 1 \in Int /\ l - 1 < r /\ first - 1 <= l - 1
          /\ r - (l - 1) - 1 = i + 1
      BY <1>4, <1>9, <1>12
    <2>4. b[l] \in own
      BY <1>4, <1>5, <2>3
    <2>5. \A j \in Int : l - 1 < j /\ j < r => j = l \/ (l < j /\ j < r)
      OBVIOUS
    <2> QED BY <1>9, <1>11, <2>2, <2>3, <2>4, <2>5
  <1>13. ASSUME ~(l < first /\ r >= end), ~(l >= first /\ (r >= end \/ nearer)) PROVE Ends(q, i + 1)
    <2>1. q = [p EXCEPT !.right = @ + 1, !.taken = @ \cup {b[p.right]}]
      BY <1>2, <1>8, <1>13
    <2>2. q = [left |-> l, right |-> r + 1, taken |-> t \cup {b[r]}]
      BY <1>7, <2>1
    <2>3. r < end
      BY <1>4, <1>13
    <2>4. r \in Nat /\ r >= 1 /\ r + 1 \in Int /\ r + 1 <= end /\ l < r + 1 /\ (r + 1) - l - 1 = i + 1
      BY <1>4, <1>9, <1>13, <2>3
    <2>5. b[r] \in own
      BY <1>4, <1>5, <2>3, <2>4
    <2>6. \A j \in Int : l < j /\ j < r + 1 => j = r \/ (l < j /\ j < r)
      OBVIOUS
    <2> QED BY <1>9, <1>11, <2>2, <2>4, <2>5, <2>6
  <1>14. Ends(q, i + 1)
    BY <1>4, <1>10, <1>12, <1>13
  <1>15. Stands(q, i + 1, b, own, first, end)
    BY <1>1, <1>14
  <1> QED BY <1>15 DEF q, first, end

\* A probe takes tracks of its key, and if the range holds no more than the limit it takes
\* all that are in the range.
LEMMA NearestAre ==
  ASSUME NEW b, NEW own, BucketOf(b, own), NEW bpm \in Nat, NEW limit \in Nat
  PROVE  /\ NearestTempos(b, bpm, limit) \subseteq own
         /\ InRange(b, bpm) <= limit =>
              \A k \in DOMAIN b :
                (Tracks[b[k]].bpm > 0 /\ TempoGap(bpm, Tracks[b[k]].bpm) <= BpmTolerance) =>
                  b[k] \in NearestTempos(b, bpm, limit)
  <1> DEFINE g == CHOOSE g : ProbesTo(g, limit, b, bpm)
             at == LowerBound(b, bpm)
             lo == bpm - BpmTolerance
             hi == bpm + BpmTolerance
             first == LowerBound(b, lo)
             end == UpperBound(b, hi)
             At0(i) == Stands(g[i], i, b, own, first, end)
             T == {i \in 0 .. limit : ~At0(i)}
             res == NearestTempos(b, bpm, limit)
  <1>1. res = g[limit].taken
    BY DEF NearestTempos, ProbesTo
  <1>2. ProbesTo(g, limit, b, bpm)
    BY ProbeExists
  <1> HIDE DEF g, res
  <1>3. \A i \in 0 .. limit : g[i] = IF i = 0 THEN [left |-> at - 1, right |-> at, taken |-> {}]
                                     ELSE Probed(b, bpm, g[i - 1])
    BY <1>2 DEF ProbesTo
  <1>4. lo \in Int /\ hi \in Int /\ bpm \in Int /\ lo <= bpm /\ bpm <= hi /\ lo <= hi
    BY RouletteAssumption
  <1> HIDE DEF at, first, end
  <1>5. /\ first \in Nat /\ first >= 1 /\ end \in Nat /\ at \in Nat /\ first <= at /\ at <= end
        /\ first <= end
    <2>1. LowerBound(b, lo) \in Nat /\ LowerBound(b, lo) >= 1 /\ LowerBound(b, lo) <= LowerBound(b, bpm)
      BY <1>4, BoundsAre
    <2>2. LowerBound(b, bpm) \in Nat /\ LowerBound(b, bpm) <= UpperBound(b, hi) /\ UpperBound(b, hi) \in Nat
      BY <1>4, BoundsAre
    <2>3. LowerBound(b, lo) <= UpperBound(b, hi)
      BY <1>4, BoundsAre
    <2> QED BY <2>1, <2>2, <2>3 DEF at, first, end
  <1>6. At0(0)
    <2>1. g[0] = [left |-> at - 1, right |-> at, taken |-> {}]
      BY <1>3
    <2>2. /\ g[0] \in [left : Int, right : Int, taken : SUBSET own]
          /\ g[0].left = at - 1 /\ g[0].right = at
      BY <1>5, <2>1
    <2>3. \A k \in Int : ~(at - 1 < k /\ k < at)
      BY <1>5
    <2>4. first - 1 <= at - 1 /\ at - 1 < at /\ at <= end /\ at - (at - 1) - 1 = 0
      BY <1>5
    <2> QED BY <2>2, <2>3, <2>4 DEF Stands
  <1>7. ASSUME NEW i \in 1 .. limit, At0(i - 1) PROVE At0(i)
    <2>1. i - 1 \in Nat /\ (i - 1) + 1 = i /\ i \in 0 .. limit /\ i # 0
      OBVIOUS
    <2>2. g[i] = Probed(b, bpm, g[i - 1])
      BY <1>3, <2>1
    <2> DEFINE p == g[i - 1]
               j == i - 1
    <2>3. Stands(p, j, b, own, LowerBound(b, bpm - BpmTolerance), UpperBound(b, bpm + BpmTolerance))
      BY <1>7 DEF first, end
    <2>4. j \in Nat /\ j + 1 = i
      BY <2>1
    <2> HIDE DEF p, j
    <2>5. Stands(Probed(b, bpm, p), j + 1, b, own,
                 LowerBound(b, bpm - BpmTolerance), UpperBound(b, bpm + BpmTolerance))
      BY <2>3, <2>4, ProbeStands
    <2> QED BY <2>2, <2>4, <2>5 DEF first, end, p
  <1> HIDE DEF At0
  <1>8. T = {}
    <2> SUFFICES ASSUME T # {} PROVE FALSE
      OBVIOUS
    <2>1. PICK i \in T : \A m \in T : i <= m
      <3>1. T \subseteq Nat
        OBVIOUS
      <3> QED BY <3>1, LeastNatural
    <2>2. i # 0
      BY <1>6
    <2>3. i \in 1 .. limit /\ i - 1 \in 0 .. limit /\ i - 1 \notin T
      BY <2>1, <2>2
    <2>4. At0(i - 1)
      BY <2>3
    <2>5. At0(i)
      BY <1>7, <2>3, <2>4
    <2> QED BY <2>5
  <1>9. At0(limit)
    BY <1>8
  <1> DEFINE p == g[limit]
  <1>10. /\ p \in [left : Int, right : Int, taken : SUBSET own]
         /\ first - 1 <= p.left /\ p.left < p.right /\ p.right <= end
         /\ \A k \in Int : p.left < k /\ k < p.right => b[k] \in p.taken
         /\ (p.left < first /\ p.right >= end) \/ p.right - p.left - 1 = limit
    BY <1>9 DEF At0, Stands
  <1> HIDE DEF p
  <1>11. res = p.taken /\ p.taken \subseteq own /\ p.left \in Int /\ p.right \in Int
    BY <1>1, <1>10 DEF p
  <1>12. InRange(b, bpm) = end - first
    BY DEF InRange, first, end
  <1>13. end - first <= limit => p.left < first /\ p.right >= end
    BY <1>5, <1>10, <1>11
  <1>14. ASSUME end - first <= limit, NEW k \in DOMAIN b, Tracks[b[k]].bpm > 0,
                TempoGap(bpm, Tracks[b[k]].bpm) <= BpmTolerance
         PROVE  b[k] \in res
    <2> DEFINE y == Tracks[b[k]].bpm
    <2>1. y \in Nat /\ k \in Int
      <3>1. b[k] \in TrackIds /\ k \in Nat
        BY DEF BucketOf
      <3> QED BY <3>1, TrackIs
    <2>2. lo <= y /\ y <= hi
      <3>1. TempoGap(bpm, y) <= BpmTolerance
        BY <1>14
      <3> HIDE DEF y
      <3> QED BY <2>1, <3>1, RouletteAssumption DEF TempoGap
    <2>3. first <= k /\ k < end
      BY <1>4, <1>14, <2>2, BoundsAre DEF first, end
    <2>4. p.left < k /\ k < p.right
      BY <1>5, <1>11, <1>13, <1>14, <2>1, <2>3
    <2> QED BY <1>10, <1>11, <2>1, <2>4
  <1>15. InRange(b, bpm) <= limit =>
           \A k \in DOMAIN b :
             (Tracks[b[k]].bpm > 0 /\ TempoGap(bpm, Tracks[b[k]].bpm) <= BpmTolerance) => b[k] \in res
    BY <1>12, <1>14
  <1> QED BY <1>11, <1>15 DEF res

-----------------------------------------------------------------------------
(* The best pairs, the partners of one vocal, and the pool of all vocals.  *)

\* The order of the pairs is a strict total order.
LEMMA OutranksOrders ==
  ASSUME NEW p \in TrackIds \X TrackIds, NEW q \in TrackIds \X TrackIds
  PROVE  /\ ~Outranks(p, p)
         /\ p # q => Outranks(p, q) \/ Outranks(q, p)
         /\ \A o \in TrackIds \X TrackIds : Outranks(o, p) /\ Outranks(p, q) => Outranks(o, q)
  <1> DEFINE gap(x) == TempoGap(Tracks[x[1]].bpm, Tracks[x[2]].bpm)
             score(x) == Score(x)
             All == TrackIds \X TrackIds
  <1>1. ASSUME NEW x \in All
        PROVE  gap(x) \in Nat /\ score(x) \in Int /\ x[1] \in Nat /\ x[2] \in Nat
    <2>1. x[1] \in TrackIds /\ x[2] \in TrackIds
      OBVIOUS
    <2>2. x[1] \in Nat /\ x[2] \in Nat /\ Tracks[x[1]].bpm \in Nat /\ Tracks[x[2]].bpm \in Nat
          /\ Tracks[x[1]].bonus \in Int /\ Tracks[x[2]].bonus \in Int
      BY <2>1, TrackIs
    <2>3. gap(x) \in Nat
      BY <2>2, GapIs
    <2> DEFINE key == IF KeyRelationship(x[1], x[2]) = "exact" THEN 140 ELSE 110
               bonus == Tracks[x[1]].bonus + Tracks[x[2]].bonus
    <2>4. score(x) = 2 * BpmTolerance * key + 120 * (BpmTolerance - gap(x)) + BpmTolerance * bonus
      BY DEF Score
    <2>5. key \in Int /\ bonus \in Int /\ BpmTolerance \in Int
      <3>1. bonus \in Int
        BY <2>2
      <3>2. BpmTolerance \in Int
        BY RouletteAssumption
      <3> QED BY <3>1, <3>2
    <2> HIDE DEF key, bonus, gap, score
    <2> DEFINE h == BpmTolerance * bonus
               j == 2 * BpmTolerance * key
    <2>6. j \in Int
      BY <2>5
    <2>7. h \in Int
      BY <2>5
    <2>8. score(x) = j + 120 * (BpmTolerance - gap(x)) + h
      BY <2>4
    <2> HIDE DEF h, j
    <2>9. score(x) \in Int
      BY <2>3, <2>5, <2>6, <2>7, <2>8
    <2> QED BY <2>2, <2>3, <2>9
  <1>2. \A x, y : Outranks(x, y) <=>
          \/ score(x) > score(y)
          \/ score(x) = score(y) /\ gap(x) < gap(y)
          \/ score(x) = score(y) /\ gap(x) = gap(y) /\ (x[1] < y[1] \/ (x[1] = y[1] /\ x[2] < y[2]))
    BY DEF Outranks
  <1>3. p # q => p[1] # q[1] \/ p[2] # q[2]
    OBVIOUS
  <1> HIDE DEF gap, score, All
  <1>4. p \in All /\ q \in All
    BY DEF All
  <1>5. ~Outranks(p, p)
    BY <1>1, <1>2, <1>4
  <1>6. p # q => Outranks(p, q) \/ Outranks(q, p)
    BY <1>1, <1>2, <1>3, <1>4
  <1>7. ASSUME NEW o \in All, Outranks(o, p), Outranks(p, q) PROVE Outranks(o, q)
    BY <1>1, <1>2, <1>4, <1>7
  <1> QED BY <1>5, <1>6, <1>7 DEF All

\* The first n of a set of pairs are n of them, or all if there are no more.
LEMMA BestAre ==
  ASSUME NEW pairs, IsFiniteSet(pairs), pairs \subseteq TrackIds \X TrackIds, NEW n \in Nat
  PROVE  /\ BestOf(pairs, n) \subseteq pairs /\ IsFiniteSet(BestOf(pairs, n))
         /\ Cardinality(BestOf(pairs, n)) <= n
         /\ Cardinality(pairs) <= n => BestOf(pairs, n) = pairs
  <1> DEFINE over(p) == {q \in pairs : Outranks(q, p)}
             best == BestOf(pairs, n)
             place == [p \in best |-> Cardinality(over(p))]
  <1>1. best = {p \in pairs : Cardinality(over(p)) < n}
    BY DEF BestOf
  <1>2. \A p \in pairs : over(p) \subseteq pairs /\ p \notin over(p)
    BY OutranksOrders
  <1>3. ASSUME NEW p \in pairs, NEW q \in pairs, Outranks(p, q)
        PROVE  over(p) \subseteq over(q) /\ p \in over(q)
    <2>1. \A o \in pairs : Outranks(o, p) => Outranks(o, q)
      BY <1>3, OutranksOrders
    <2> QED BY <1>3, <2>1
  <1> HIDE DEF over, best
  <1>4. \A p \in pairs : IsFiniteSet(over(p)) /\ Cardinality(over(p)) \in Nat
    BY <1>2, FS_Subset, FS_CardinalityType
  <1>5. best \subseteq pairs /\ IsFiniteSet(best)
    BY <1>1, FS_Subset
  <1>6. ASSUME NEW p \in pairs, NEW q \in pairs, Outranks(p, q)
        PROVE  Cardinality(over(p)) < Cardinality(over(q))
    <2>1. over(p) # over(q)
      BY <1>2, <1>3, <1>6
    <2>2. over(p) \in SUBSET over(q)
      BY <1>3, <1>6
    <2>3. Cardinality(over(p)) <= Cardinality(over(q)) /\ Cardinality(over(p)) # Cardinality(over(q))
      BY <1>4, <2>1, <2>2, FS_Subset
    <2> QED BY <1>4, <2>3
  <1>7. place \in Injection(best, 0 .. n - 1)
    <2>1. \A p \in best : place[p] = Cardinality(over(p)) /\ place[p] \in 0 .. n - 1
      BY <1>1, <1>4
    <2>2. place \in [best -> 0 .. n - 1]
      BY <2>1
    <2>3. ASSUME NEW p \in best, NEW q \in best, place[p] = place[q] PROVE p = q
      <3>1. p \in pairs /\ q \in pairs /\ Cardinality(over(p)) = Cardinality(over(q))
        BY <1>5, <2>1, <2>3
      <3>2. ~Outranks(p, q) /\ ~Outranks(q, p)
        BY <1>4, <1>6, <3>1
      <3> QED BY <3>1, <3>2, OutranksOrders
    <2> QED BY <2>2, <2>3 DEF Injection, IsInjective
  <1>8. Cardinality(best) <= n
    <2>1. n - 1 \in Int /\ 0 \in Int
      OBVIOUS
    <2>2. IsFiniteSet(0 .. n - 1) /\ Cardinality(0 .. n - 1) = IF 0 > n - 1 THEN 0 ELSE n - 1 - 0 + 1
      BY <2>1, FS_Interval
    <2>3. Cardinality(best) <= Cardinality(0 .. n - 1)
      BY <1>7, <2>2, FS_Injection
    <2>4. Cardinality(0 .. n - 1) = n
      BY <2>2
    <2> QED BY <2>3, <2>4
  <1>9. ASSUME Cardinality(pairs) <= n PROVE best = pairs
    <2> SUFFICES ASSUME NEW p \in pairs PROVE Cardinality(over(p)) < n
      BY <1>1
    <2>1. over(p) \in SUBSET pairs /\ over(p) # pairs
      BY <1>2
    <2>2. Cardinality(over(p)) <= Cardinality(pairs) /\ Cardinality(over(p)) # Cardinality(pairs)
      BY <2>1, FS_Subset
    <2>3. Cardinality(pairs) \in Nat
      BY FS_CardinalityType
    <2> QED BY <1>4, <1>9, <2>2, <2>3
  <1> QED BY <1>5, <1>8, <1>9 DEF best

\* The partners of a vocal go with it, and unless its probe was cut short they are all
\* that do.
LEMMA PartnersAre ==
  ASSUME NEW instrumentals \in SUBSET TrackIds, NEW v \in TrackIds
  PROVE  /\ IsFiniteSet(PartnersOf(instrumentals, v))
         /\ PartnersOf(instrumentals, v) \subseteq {v} \X instrumentals
         /\ \A p \in PartnersOf(instrumentals, v) : Ranked(p)
         /\ ~ProbeWasBounded(instrumentals, v) =>
              \A i \in instrumentals : Ranked(<<v, i>>) => <<v, i>> \in PartnersOf(instrumentals, v)
  <1> DEFINE near(k) == NearestTempos(Bucket(instrumentals, k[1], k[2]), Tracks[v].bpm, 2 * MaxPartners)
             possible == UNION {near(k) : k \in CompatibleKeys(v)}
             own(k) == {i \in instrumentals : Tracks[i].number = k[1] /\ Tracks[i].mode = k[2]}
             range(k) == InRange(Bucket(instrumentals, k[1], k[2]), Tracks[v].bpm)
  <1>1. PartnersOf(instrumentals, v) = {p \in {v} \X possible : Ranked(p)}
    BY DEF PartnersOf
  <1>2. Tracks[v].bpm \in Nat /\ 2 * MaxPartners \in Nat
    BY TrackIs, RouletteAssumption
  <1>3. \A k : BucketOf(Bucket(instrumentals, k[1], k[2]), own(k))
    BY BucketIs
  <1> HIDE DEF own
  <1>4. \A k : near(k) \subseteq own(k)
    BY <1>2, <1>3, NearestAre
  <1>5. \A k : range(k) <= 2 * MaxPartners =>
          \A n \in DOMAIN Bucket(instrumentals, k[1], k[2]) :
            LET i == Bucket(instrumentals, k[1], k[2])[n]
            IN  (Tracks[i].bpm > 0 /\ TempoGap(Tracks[v].bpm, Tracks[i].bpm) <= BpmTolerance) => i \in near(k)
    BY <1>2, <1>3, NearestAre
  <1>6. \A k : range(k) \in Int
    <2> TAKE k
    <2> DEFINE b == Bucket(instrumentals, k[1], k[2])
               bpm == Tracks[v].bpm
    <2>1. BucketOf(b, own(k)) /\ bpm \in Nat
      BY <1>2, <1>3
    <2> HIDE DEF b, bpm
    <2>2. bpm - BpmTolerance \in Int /\ bpm + BpmTolerance \in Int /\ bpm - BpmTolerance <= bpm + BpmTolerance
      BY <2>1, RouletteAssumption
    <2>3. LowerBound(b, bpm - BpmTolerance) \in Nat /\ UpperBound(b, bpm + BpmTolerance) \in Nat
      BY <2>1, <2>2, BoundsAre
    <2>4. InRange(b, bpm) \in Int
      BY <2>3 DEF InRange
    <2> QED BY <2>4 DEF b, bpm
  <1>7. ~ProbeWasBounded(instrumentals, v) <=> \A k \in CompatibleKeys(v) : ~(range(k) > 2 * MaxPartners)
    BY DEF ProbeWasBounded
  <1> HIDE DEF near, range
  <1>8. possible \subseteq instrumentals
    BY <1>4 DEF own
  <1>9. IsFiniteSet({v} \X possible)
    <2>1. IsFiniteSet(possible)
      <3>1. IsFiniteSet(TrackIds)
        BY TracksFinite
      <3> QED BY <1>8, <3>1, FS_Subset
    <2>2. IsFiniteSet({v})
      BY FS_Singleton
    <2> QED BY <2>1, <2>2, FS_Product
  <1>10. IsFiniteSet(PartnersOf(instrumentals, v))
    <2>1. PartnersOf(instrumentals, v) \in SUBSET ({v} \X possible)
      BY <1>1
    <2> QED BY <1>9, <2>1, FS_Subset
  <1>11. ASSUME ~ProbeWasBounded(instrumentals, v), NEW i \in instrumentals, Ranked(<<v, i>>)
         PROVE  <<v, i>> \in PartnersOf(instrumentals, v)
    <2> DEFINE k == <<Tracks[i].number, Tracks[i].mode>>
               b == Bucket(instrumentals, k[1], k[2])
    <2>1. GoesWith(v, i) /\ i \in TrackIds
      BY <1>11, ReasonsAgree
    <2>2. KeysGo(v, i) /\ TempoCompatible(v, i)
      BY <2>1 DEF GoesWith
    <2>3. k \in CompatibleKeys(v)
      <3> DEFINE n == Tracks[v].number
                 m == Tracks[v].mode
                 x == Tracks[i].number
                 y == Tracks[i].mode
      <3>1. n \in 0 .. 12 /\ m \in {0, 1} /\ y \in {0, 1}
        BY <2>1, TrackIs
      <3>2. /\ n # 0
            /\ x = n \/ (m = y /\ (x = (IF n = 12 THEN 1 ELSE n + 1) \/ x = (IF n = 1 THEN 12 ELSE n - 1)))
        BY <2>2 DEF KeysGo
      <3>3. CompatibleKeys(v) =
              IF n = 0 THEN {} ELSE {<<n, m>>, <<Wrap12(n - 1), m>>, <<Wrap12(n + 1), m>>, <<n, 1 - m>>}
        BY DEF CompatibleKeys
      <3> HIDE DEF n, m, x, y
      <3>4. Wrap12(n + 1) = (IF n = 12 THEN 1 ELSE n + 1) /\ Wrap12(n - 1) = (IF n = 1 THEN 12 ELSE n - 1)
        BY <3>1, <3>2, WheelIs
      <3>5. (x = n /\ (y = m \/ y = 1 - m)) \/ (y = m /\ (x = Wrap12(n - 1) \/ x = Wrap12(n + 1)))
        BY <3>1, <3>2, <3>4
      <3>6. <<x, y>> \in CompatibleKeys(v)
        BY <3>2, <3>3, <3>5
      <3> QED BY <3>6 DEF x, y
    <2>4. i \in own(k)
      BY DEF own
    <2>5. PICK n \in DOMAIN b : b[n] = i
      BY <1>3, <2>4 DEF BucketOf
    <2>6. Tracks[i].bpm > 0 /\ TempoGap(Tracks[v].bpm, Tracks[i].bpm) <= BpmTolerance
      BY <2>2 DEF TempoCompatible
    <2>7. range(k) <= 2 * MaxPartners
      <3>1. ~(range(k) > 2 * MaxPartners)
        BY <1>7, <1>11, <2>3
      <3> HIDE DEF k
      <3>2. range(k) \in Int
        BY <1>6
      <3> QED BY <1>2, <3>1, <3>2
    <2>8. i \in near(k)
      BY <1>5, <2>5, <2>6, <2>7
    <2>9. i \in possible
      BY <2>3, <2>8
    <2> QED BY <1>1, <1>11, <2>9
  <1>12. PartnersOf(instrumentals, v) \subseteq {v} \X instrumentals
    BY <1>1, <1>8
  <1> QED BY <1>1, <1>10, <1>11, <1>12

\* g is the function pool of BoundedPairs on 0..n.
PoolsTo(g, n, vocals, instrumentals) ==
  g = [i \in 0..n |-> IF i = 0 THEN NoOffer ELSE Pooled(vocals, instrumentals, i, g[i - 1])]

\* Its recursive definition has a solution, however many the tracks.
LEMMA PoolExists ==
  ASSUME NEW vocals, NEW instrumentals, NEW limit \in Nat
  PROVE  \E g : PoolsTo(g, limit, vocals, instrumentals)
  <1> DEFINE next(i, p) == Pooled(vocals, instrumentals, i, p)
             Has(n) == \E g : PoolsTo(g, n, vocals, instrumentals)
             T == {n \in Nat : ~Has(n)}
  <1>0. \A g, n : PoolsTo(g, n, vocals, instrumentals) <=>
                    g = [i \in 0..n |-> IF i = 0 THEN NoOffer ELSE next(i, g[i - 1])]
    BY DEF PoolsTo
  <1> HIDE DEF next
  <1>1. Has(0)
    <2> DEFINE g == [i \in 0..0 |-> NoOffer]
    <2>1. g = [i \in 0..0 |-> IF i = 0 THEN NoOffer ELSE next(i, g[i - 1])]
      OBVIOUS
    <2> QED BY <1>0, <2>1
  <1>2. ASSUME NEW n \in Nat, Has(n) PROVE Has(n + 1)
    <2>1. PICK g : PoolsTo(g, n, vocals, instrumentals)
      BY <1>2
    <2> DEFINE h == [i \in 0..(n + 1) |-> IF i \in 0..n THEN g[i] ELSE next(n + 1, g[n])]
               e == [i \in 0..(n + 1) |-> IF i = 0 THEN NoOffer ELSE next(i, h[i - 1])]
    <2>2. \A i \in 0..n : g[i] = IF i = 0 THEN NoOffer ELSE next(i, g[i - 1])
      BY <1>0, <2>1
    <2>3. ASSUME NEW i \in 0..(n + 1) PROVE h[i] = e[i]
      <3>1. CASE i \in 0..n
        <4>1. h[i] = g[i] /\ (i # 0 => h[i - 1] = g[i - 1])
          BY <3>1
        <4> QED BY <2>2, <3>1, <4>1
      <3>2. CASE i = n + 1
        <4>1. i # 0 /\ i \notin 0..n /\ i - 1 = n /\ h[n] = g[n]
          BY <3>2
        <4> QED BY <3>2, <4>1
      <3> QED BY <3>1, <3>2
    <2>4. h = e
      BY <2>3
    <2>5. PoolsTo(h, n + 1, vocals, instrumentals)
      BY <1>0, <2>4
    <2> QED BY <2>5
  <1> HIDE DEF Has
  <1>3. T = {}
    <2> SUFFICES ASSUME T # {} PROVE FALSE
      OBVIOUS
    <2>1. PICK n \in T : \A m \in T : n <= m
      BY LeastNatural
    <2>2. n # 0
      BY <1>1
    <2>3. n - 1 \in Nat /\ n - 1 \notin T /\ n = (n - 1) + 1
      BY <2>1, <2>2
    <2>4. Has(n - 1)
      BY <2>3
    <2>5. Has(n)
      BY <1>2, <2>3, <2>4
    <2> QED BY <2>5
  <1> QED BY <1>3 DEF Has

\* The pairs of one vocal.
PairsOf(pairs, v) == {p \in pairs : p[1] = v}

\* What the pool holds when the vocals up to n are done.
Holds(p, n, vocals, instrumentals) ==
  /\ p = [pairs |-> p.pairs, truncated |-> p.truncated] /\ p.truncated \in BOOLEAN
  /\ IsFiniteSet(p.pairs) /\ Cardinality(p.pairs) <= MaxPairs
  /\ p.pairs \subseteq vocals \X instrumentals
  /\ \A x \in p.pairs : x[1] <= n /\ Ranked(x)
  /\ \A v \in vocals : Cardinality(PairsOf(p.pairs, v)) <= MaxPartners
  /\ ~p.truncated =>
       \A v \in vocals, i \in instrumentals : v <= n /\ Ranked(<<v, i>>) => <<v, i>> \in p.pairs

\* The pairs of one more vocal.
LEMMA PoolHolds ==
  ASSUME NEW vocals \in SUBSET TrackIds, NEW instrumentals \in SUBSET TrackIds,
         NEW v \in TrackIds, NEW p, Holds(p, v - 1, vocals, instrumentals)
  PROVE  Holds(Pooled(vocals, instrumentals, v, p), v, vocals, instrumentals)
  <1> DEFINE partners == PartnersOf(instrumentals, v)
             selected == LeastOf(LeastOf(MaxPartners, MaxPairs - Cardinality(p.pairs)), Cardinality(partners))
             best == BestOf(partners, selected)
             cut == \/ p.truncated \/ ProbeWasBounded(instrumentals, v)
                    \/ Cardinality(partners) > selected
                    \/ /\ Cardinality(p.pairs) + selected >= MaxPairs
                       /\ \E w \in vocals : w > v
             q == Pooled(vocals, instrumentals, v, p)
             P == p.pairs
             Enough(x, c) == \A w \in vocals, i \in instrumentals :
                               w <= v /\ Ranked(<<w, i>>) => <<w, i>> \in x \/ c
  <1>1. /\ p = [pairs |-> P, truncated |-> p.truncated] /\ p.truncated \in BOOLEAN
        /\ IsFiniteSet(P) /\ Cardinality(P) <= MaxPairs
        /\ P \subseteq vocals \X instrumentals
        /\ \A x \in P : x[1] <= v - 1 /\ Ranked(x)
        /\ \A w \in vocals : Cardinality(PairsOf(P, w)) <= MaxPartners
        /\ ~p.truncated =>
             \A w \in vocals, i \in instrumentals : w <= v - 1 /\ Ranked(<<w, i>>) => <<w, i>> \in P
    BY DEF Holds
  <1>2. q = IF v \notin vocals THEN p
            ELSE IF Cardinality(P) >= MaxPairs THEN [p EXCEPT !.truncated = TRUE]
            ELSE IF Tracks[v].bpm = 0 THEN p
            ELSE [pairs |-> P \cup best, truncated |-> cut]
    BY DEF Pooled
  <1>3. v \in Nat /\ \A w \in vocals : w \in Nat
    BY TrackIs
  <1>4. MaxPairs \in Nat /\ MaxPartners \in Nat
    BY RouletteAssumption
  <1>5. \A w \in vocals : w <= v <=> w = v \/ w <= v - 1
    BY <1>3
  <1>6. \A x \in P : x[1] \in vocals /\ x[1] <= v
    BY <1>1, <1>5
  <1>7. /\ IsFiniteSet(partners) /\ partners \subseteq {v} \X instrumentals
        /\ \A x \in partners : Ranked(x)
        /\ ~ProbeWasBounded(instrumentals, v) =>
             \A i \in instrumentals : Ranked(<<v, i>>) => <<v, i>> \in partners
    BY PartnersAre
  <1> HIDE DEF partners, q, cut, P
  <1>8. Cardinality(P) \in Nat /\ Cardinality(partners) \in Nat
    BY <1>1, <1>7, FS_CardinalityType
  <1>9. ASSUME v \notin vocals PROVE Holds(q, v, vocals, instrumentals)
    <2>1. q = p
      BY <1>2, <1>9
    <2>2. \A w \in vocals : w <= v <=> w <= v - 1
      BY <1>5, <1>9
    <2> QED BY <1>1, <1>6, <2>1, <2>2 DEF Holds, P
  <1>10. ASSUME v \in vocals, Cardinality(P) >= MaxPairs PROVE Holds(q, v, vocals, instrumentals)
    <2>1. q = [p EXCEPT !.truncated = TRUE]
      BY <1>2, <1>10
    <2>2. PICK c \in BOOLEAN : p = [pairs |-> P, truncated |-> c]
      BY <1>1
    <2>3. [p EXCEPT !.truncated = TRUE] = [pairs |-> P, truncated |-> TRUE]
      <3>1. p \in [pairs : {P}, truncated : BOOLEAN]
        BY <2>2
      <3> DEFINE r == [p EXCEPT !.truncated = TRUE]
      <3>2. r \in [pairs : {P}, truncated : BOOLEAN] /\ r.truncated = TRUE
        BY <3>1
      <3> HIDE DEF r
      <3>3. r = [pairs |-> P, truncated |-> TRUE]
        BY <3>2
      <3> QED BY <3>3 DEF r
    <2>4. q = [pairs |-> q.pairs, truncated |-> q.truncated] /\ q.pairs = P /\ q.truncated = TRUE
      BY <2>1, <2>3
    <2> QED BY <1>1, <1>6, <2>4 DEF Holds
  <1>11. ASSUME v \in vocals, Cardinality(P) < MaxPairs, Tracks[v].bpm = 0
         PROVE  Holds(q, v, vocals, instrumentals)
    <2>1. q = p
      BY <1>2, <1>4, <1>8, <1>11
    <2>2. \A i \in instrumentals : ~Ranked(<<v, i>>)
      <3> TAKE i \in instrumentals
      <3>1. i \in TrackIds /\ ~TempoCompatible(v, i)
        BY <1>11, TempoEitherWay
      <3> QED BY <3>1, ReasonsAgree DEF GoesWith
    <2>3. \A w \in vocals, i \in instrumentals : w <= v /\ Ranked(<<w, i>>) => w <= v - 1
      BY <1>5, <2>2
    <2> QED BY <1>1, <1>6, <2>1, <2>3 DEF Holds, P
  <1>12. ASSUME v \in vocals, Cardinality(P) < MaxPairs, Tracks[v].bpm # 0
         PROVE  Holds(q, v, vocals, instrumentals)
    <2>1. q = [pairs |-> P \cup best, truncated |-> cut]
      BY <1>2, <1>4, <1>8, <1>12
    <2>2. q.pairs = P \cup best /\ q.truncated = cut /\ q = [pairs |-> q.pairs, truncated |-> q.truncated]
      BY <2>1
    <2>3. cut \in BOOLEAN /\ (~cut => ~p.truncated /\ ~ProbeWasBounded(instrumentals, v)
                                      /\ ~(Cardinality(partners) > selected))
      BY DEF cut, P
    <2>4. /\ selected \in Nat /\ selected <= MaxPartners /\ Cardinality(P) + selected <= MaxPairs
          /\ ~(Cardinality(partners) > selected) => Cardinality(partners) <= selected
      BY <1>4, <1>8, <1>12 DEF LeastOf, P
    <2> HIDE DEF selected
    <2>5. /\ best \subseteq partners /\ IsFiniteSet(best) /\ Cardinality(best) <= selected
          /\ Cardinality(partners) <= selected => best = partners
      <3>1. partners \subseteq TrackIds \X TrackIds
        BY <1>7
      <3> QED BY <1>7, <2>4, <3>1, BestAre
    <2> HIDE DEF best
    <2>6. best \subseteq {v} \X instrumentals /\ \A x \in best : x[1] = v /\ Ranked(x)
      BY <1>7, <2>5
    <2>7. P \cap best = {}
      <3>1. \A x \in P : x[1] # v
        BY <1>1, <1>3
      <3> QED BY <2>6, <3>1
    <2>8. Cardinality(best) \in Nat
      BY <2>5, FS_CardinalityType
    <2>9. IsFiniteSet(P \cup best) /\ Cardinality(P \cup best) <= MaxPairs
      <3>1. /\ IsFiniteSet(P \cup best) /\ IsFiniteSet(P \cap best)
            /\ Cardinality(P \cup best) = Cardinality(P) + Cardinality(best) - Cardinality(P \cap best)
        BY <1>1, <2>5, FS_Union, FS_Intersection
      <3>2. Cardinality(P \cap best) = 0
        BY <2>7, FS_EmptySet
      <3> QED BY <1>4, <1>8, <2>4, <2>5, <2>8, <3>1, <3>2
    <2>10. P \cup best \subseteq vocals \X instrumentals
      BY <1>1, <1>12, <2>6
    <2>11. \A x \in P \cup best : x[1] <= v /\ Ranked(x)
      BY <1>1, <1>3, <1>6, <2>6
    <2>12. ASSUME NEW w \in vocals PROVE Cardinality(PairsOf(P \cup best, w)) <= MaxPartners
      <3>1. CASE w = v
        <4>1. PairsOf(P \cup best, w) = best
          BY <1>1, <1>3, <2>6, <3>1 DEF PairsOf
        <4> QED BY <1>4, <2>4, <2>5, <2>8, <4>1
      <3>2. CASE w # v
        <4>1. PairsOf(P \cup best, w) = PairsOf(P, w)
          BY <2>6, <3>2 DEF PairsOf
        <4> QED BY <1>1, <4>1
      <3> QED BY <3>1, <3>2
    <2>13. ASSUME ~cut, NEW w \in vocals, NEW i \in instrumentals, w <= v, Ranked(<<w, i>>)
           PROVE  <<w, i>> \in P \cup best
      <3>1. CASE w = v
        BY <1>7, <2>3, <2>4, <2>5, <2>13, <3>1
      <3>2. CASE w # v
        <4>1. w <= v - 1 /\ ~p.truncated
          BY <1>5, <2>3, <2>13, <3>2
        <4> QED BY <1>1, <2>13, <4>1
      <3> QED BY <3>1, <3>2
    <2> QED BY <2>2, <2>3, <2>9, <2>10, <2>11, <2>12, <2>13 DEF Holds
  <1>13. Cardinality(P) >= MaxPairs \/ Cardinality(P) < MaxPairs
    BY <1>4, <1>8
  <1>14. Holds(q, v, vocals, instrumentals)
    BY <1>9, <1>10, <1>11, <1>12, <1>13
  <1> QED BY <1>14 DEF q

\* The bounded ranking of any two pools.
LEMMA BoundedAre ==
  ASSUME NEW vocals \in SUBSET TrackIds, NEW instrumentals \in SUBSET TrackIds
  PROVE  Holds(BoundedPairs(vocals, instrumentals), Len(Tracks), vocals, instrumentals)
  <1> DEFINE g == CHOOSE g : PoolsTo(g, Len(Tracks), vocals, instrumentals)
             limit == Len(Tracks)
             Reached(i) == Holds(g[i], i, vocals, instrumentals)
             T == {i \in 0 .. limit : ~Reached(i)}
             res == BoundedPairs(vocals, instrumentals)
  <1>1. res = g[limit]
    BY DEF BoundedPairs, PoolsTo
  <1>2. TrackIds = 1 .. limit /\ limit \in Nat
    BY TrackIs
  <1>3. PoolsTo(g, limit, vocals, instrumentals)
    BY <1>2, PoolExists
  <1> HIDE DEF g, res, limit
  <1>4. \A i \in 0 .. limit : g[i] = IF i = 0 THEN NoOffer ELSE Pooled(vocals, instrumentals, i, g[i - 1])
    BY <1>3 DEF PoolsTo
  <1>5. Reached(0)
    <2>1. g[0] = NoOffer
      BY <1>2, <1>4
    <2> DEFINE p == NoOffer
    <2>2. p = [pairs |-> {}, truncated |-> FALSE] /\ p.pairs = {} /\ p.truncated = FALSE
      BY DEF NoOffer
    <2>3. MaxPairs \in Nat /\ MaxPartners \in Nat
      BY RouletteAssumption
    <2>4. IsFiniteSet({}) /\ Cardinality({}) = 0 /\ \A v : PairsOf({}, v) = {}
      BY FS_EmptySet DEF PairsOf
    <2>5. ASSUME NEW v \in vocals, NEW i \in instrumentals PROVE ~(v <= 0)
      BY <1>2
    <2> HIDE DEF p
    <2>6. Holds(p, 0, vocals, instrumentals)
      BY <2>2, <2>3, <2>4, <2>5 DEF Holds
    <2> QED BY <2>1, <2>6 DEF p
  <1>6. ASSUME NEW i \in TrackIds, Reached(i - 1) PROVE Reached(i)
    <2>1. g[i] = Pooled(vocals, instrumentals, i, g[i - 1])
      BY <1>2, <1>4
    <2> QED BY <1>6, <2>1, PoolHolds
  <1> HIDE DEF Reached
  <1>7. T = {}
    <2> SUFFICES ASSUME T # {} PROVE FALSE
      OBVIOUS
    <2>1. PICK i \in T : \A m \in T : i <= m
      <3>1. T \subseteq Nat
        BY <1>2
      <3> QED BY <3>1, LeastNatural
    <2>2. i # 0
      BY <1>5
    <2>3. i \in TrackIds /\ i - 1 \in 0 .. limit /\ i - 1 \notin T
      BY <1>2, <2>1, <2>2
    <2> QED BY <1>6, <2>3
  <1>8. Reached(limit)
    BY <1>2, <1>7
  <1> QED BY <1>1, <1>8 DEF Reached, res, limit

-----------------------------------------------------------------------------
(* The offer of the page.                                                  *)

\* What has been offered was ranked from the pools as they are.
OfferInv ==
  /\ roVocals \in SUBSET TrackIds /\ roInstrumentals \in SUBSET TrackIds
  /\ Holds(roOffer, Len(Tracks), roVocals, roInstrumentals)

\* rouletteMatching.ts: whatever the tracks and the pools, each state of the page has the
\* offer of its pools.
THEOREM RouletteInvariant == RouletteSpec => []OfferInv
  <1>1. RouletteInit => OfferInv
    <2> SUFFICES ASSUME RouletteInit PROVE OfferInv
      OBVIOUS
    <2>1. roVocals = {} /\ roInstrumentals = {} /\ roOffer = NoOffer
      BY DEF RouletteInit
    <2> DEFINE p == NoOffer
    <2>2. p = [pairs |-> {}, truncated |-> FALSE] /\ p.pairs = {} /\ p.truncated = FALSE
      BY DEF NoOffer
    <2>3. MaxPairs \in Nat
      BY RouletteAssumption
    <2>4. IsFiniteSet({}) /\ Cardinality({}) = 0
      BY FS_EmptySet
    <2> HIDE DEF p
    <2>5. Holds(p, Len(Tracks), {}, {})
      BY <2>2, <2>3, <2>4 DEF Holds
    <2> QED BY <2>1, <2>5 DEF OfferInv, p
  <1>2. OfferInv /\ [RouletteNext]_rouletteVars => OfferInv'
    <2> SUFFICES ASSUME OfferInv, [RouletteNext]_rouletteVars PROVE OfferInv'
      OBVIOUS
    <2>1. CASE PoolsLoad
      BY <2>1, BoundedAre DEF PoolsLoad, OfferInv
    <2>2. CASE UNCHANGED rouletteVars
      BY <2>2 DEF rouletteVars, OfferInv
    <2> QED BY <2>1, <2>2 DEF RouletteNext
  <1> QED BY <1>1, <1>2, PTL DEF RouletteSpec

\* What follows of an offer.
LEMMA OfferIsExact == OfferInv => RouletteTypeOK /\ PairsAreExact
  <1> SUFFICES ASSUME OfferInv PROVE RouletteTypeOK /\ PairsAreExact
    OBVIOUS
  <1> DEFINE pairs == roOffer.pairs
             cut == roOffer.truncated
  <1>1. /\ cut \in BOOLEAN /\ Cardinality(pairs) <= MaxPairs
        /\ pairs \subseteq roVocals \X roInstrumentals
        /\ \A x \in pairs : Ranked(x)
        /\ \A v \in roVocals : Cardinality(PairsOf(pairs, v)) <= MaxPartners
        /\ ~cut => \A v \in roVocals, i \in roInstrumentals :
                     v <= Len(Tracks) /\ Ranked(<<v, i>>) => <<v, i>> \in pairs
    BY DEF OfferInv, Holds
  <1>2. roVocals \subseteq TrackIds /\ roInstrumentals \subseteq TrackIds
    BY DEF OfferInv
  <1>3. RouletteTypeOK
    BY <1>1, <1>2 DEF RouletteTypeOK
  <1>4. ASSUME NEW p \in roVocals \X roInstrumentals
        PROVE  /\ Ranked(p) <=> DiagnosticReason(p[1], p[2]) = "eligible"
               /\ IF Ranked(p) THEN p \in pairs \/ cut ELSE p \notin pairs
    <2>1. PICK v \in roVocals, i \in roInstrumentals : p = <<v, i>>
      OBVIOUS
    <2>2. v \in TrackIds /\ i \in TrackIds /\ v <= Len(Tracks) /\ p[1] = v /\ p[2] = i
      BY <1>2, <2>1, TrackIs
    <2>3. Ranked(<<v, i>>) <=> DiagnosticReason(v, i) = "eligible"
      BY <2>2, ReasonsAgree
    <2> HIDE DEF pairs, cut
    <2> QED BY <1>1, <2>1, <2>2, <2>3
  <1>5. \A v \in roVocals : {p \in pairs : p[1] = v} = PairsOf(pairs, v)
    BY DEF PairsOf
  <1>6. PairsAreExact
    BY <1>1, <1>4, <1>5 DEF PairsAreExact
  <1> QED BY <1>3, <1>6

\* The page counts a pair as eligible exactly if the ranking takes it; the bounded ranking
\* offers only such pairs, within the limits of the pool and of a vocal, and all of them
\* unless it says that it was cut.
THEOREM RoulettePairsExact == RouletteSpec => [](RouletteTypeOK /\ PairsAreExact)
  BY RouletteInvariant, OfferIsExact, PTL

-----------------------------------------------------------------------------
(* Flip Lab (useFlipLab.ts).                                               *)

\* The sets of FlipTypeOK that the invariant needs, by name.
FlipPhases == {"idle", "separating", "preparing", "ready", "error"}
FlipPages == [phase : FlipPhases, pair : FlipPairs \cup {NoPair}, playing : BOOLEAN, shift : BOOLEAN,
              off : [FlipStems -> Int]]
FlipRecords == [step : {"new", "vocal", "instrumental", "decoding", "stretching", "ended"},
                pair : FlipPairs \cup {NoPair}, shift : BOOLEAN]
FlipTyped ==
  /\ flPage \in FlipPages /\ flRun \in [FlipRuns -> FlipRecords] /\ flCurrent \in FlipRuns \cup {NoFlip}
  /\ flKey \in [run : FlipRuns \cup {NoFlip}, was : BOOLEAN] /\ flDeck \in FlipDecks
  /\ flOn \in BOOLEAN /\ flLate \in BOOLEAN

\* The deck that plays what a page shows.
Shown(page) == [pair |-> page.pair, shift |-> page.shift, off |-> page.off]

\* A run under way has loaded nothing yet; while it is the current one the page shows its
\* pair, in the phase of its step, and the key shift it stretches for.
RunFits(run, page, deck, on) ==
  /\ run.step # "new"
  /\ run.step \in {"vocal", "instrumental"} => page.phase = "separating"
  /\ run.step \in {"decoding", "stretching"} => page.phase = "preparing"
  /\ run.step # "ended" => run.pair = page.pair /\ page.off = Aligned /\ deck = NoDeck /\ ~on
  /\ run.step = "stretching" => run.shift = page.shift

\* A key shift under way belongs to a run that has ended; if that run is current the page
\* waits for it.
KeyFits(key, run, current, page) ==
  key # NoKey => /\ key.run \in FlipRuns /\ run[key.run].step = "ended"
                 /\ key.run = current => page.phase = "preparing"

FlipKept ==
  /\ KeyFits(flKey, flRun, flCurrent, flPage)
  /\ flCurrent \in FlipRuns => RunFits(flRun[flCurrent], flPage, flDeck, flOn)
  /\ flPage.phase = "ready" => flCurrent \in FlipRuns /\ flRun[flCurrent].step = "ended"

FlipInv == FlipTyped /\ FlipKept /\ FlipPlaysShownPair

LEMMA FlipConstants ==
  /\ NoFlip \notin FlipRuns /\ IdlePage \in FlipPages /\ IdlePage.phase = "idle" /\ IdlePage.playing = FALSE
  /\ IdlePage.off = Aligned /\ Aligned \in [FlipStems -> Int] /\ NoDeck \in FlipDecks /\ NoKey.run = NoFlip
  /\ NoKey \in [run : FlipRuns \cup {NoFlip}, was : BOOLEAN] /\ NewRun \in FlipRecords /\ NewRun.step = "new"
  BY FlipAssumption DEF IdlePage, FlipPages, FlipPhases, Aligned, FlipStems, NoDeck, FlipDecks, NoKey, NewRun, FlipRecords

\* Changing the phase of a page, or whether it plays, changes nothing else.
LEMMA PagePhase ==
  ASSUME NEW page \in FlipPages, NEW phase \in FlipPhases
  PROVE  LET q == [page EXCEPT !.phase = phase]
         IN  /\ q \in FlipPages /\ q.phase = phase /\ q.pair = page.pair /\ q.shift = page.shift
             /\ q.off = page.off /\ q.playing = page.playing /\ Shown(q) = Shown(page)
  BY DEF FlipPages, Shown

LEMMA PagePlaying ==
  ASSUME NEW page \in FlipPages, NEW playing \in BOOLEAN
  PROVE  LET q == [page EXCEPT !.playing = playing]
         IN  /\ q \in FlipPages /\ q.phase = page.phase /\ q.pair = page.pair /\ q.shift = page.shift
             /\ q.off = page.off /\ q.playing = playing /\ Shown(q) = Shown(page)
  BY DEF FlipPages, Shown

LEMMA RunStep ==
  ASSUME FlipTyped, NEW r \in FlipRuns,
         NEW step \in {"vocal", "instrumental", "decoding", "stretching", "ended"}, Step(r, step)
  PROVE  /\ flRun' \in [FlipRuns -> FlipRecords] /\ flRun'[r].step = step
         /\ flRun'[r].pair = flRun[r].pair /\ flRun'[r].shift = flRun[r].shift
         /\ \A q \in FlipRuns : q # r => flRun'[q] = flRun[q]
  BY DEF FlipTyped, FlipRecords, Step

LEMMA DecksAreTyped ==
  ASSUME NEW page \in FlipPages
  PROVE  /\ Shown(page) \in FlipDecks
         /\ Shown(page) = [pair |-> page.pair, shift |-> page.shift, off |-> page.off]
  BY DEF FlipPages, FlipDecks, Shown

\* A run that has not ended takes one more step, and the page its phase.
LEMMA AdvancedKeeps ==
  ASSUME FlipInv, NEW r \in FlipRuns, flRun[r].step \notin {"new", "ended"},
         NEW step \in {"vocal", "instrumental", "decoding", "stretching", "ended"}, Step(r, step),
         NEW phase \in FlipPhases \ {"ready"},
         flPage' = IF flCurrent = r THEN [flPage EXCEPT !.phase = phase] ELSE flPage,
         step \in {"vocal", "instrumental"} => phase = "separating",
         step = "decoding" => phase = "preparing", step # "stretching",
         UNCHANGED <<flCurrent, flKey, flEngineVars, flContextVars>>
  PROVE  FlipInv'
  <1> USE DEF flEngineVars, flContextVars
  <1>1. flRun' \in [FlipRuns -> FlipRecords] /\ flRun'[r].step = step /\ flRun'[r].pair = flRun[r].pair
        /\ \A q \in FlipRuns : q # r => flRun'[q] = flRun[q]
    BY RunStep DEF FlipInv
  <1>2. flPage' \in FlipPages /\ flPage'.pair = flPage.pair /\ flPage'.shift = flPage.shift
        /\ flPage'.off = flPage.off /\ flPage'.playing = flPage.playing
        /\ flPage'.phase = IF flCurrent = r THEN phase ELSE flPage.phase
    BY PagePhase DEF FlipInv, FlipTyped
  <1>3. FlipTyped'
    BY <1>1, <1>2 DEF FlipInv, FlipTyped
  <1>4. KeyFits(flKey, flRun, flCurrent, flPage)'
    BY <1>1, <1>2 DEF FlipInv, FlipKept, KeyFits
  <1>5. flCurrent \in FlipRuns => RunFits(flRun[flCurrent], flPage, flDeck, flOn)'
    BY <1>1, <1>2 DEF FlipInv, FlipKept, RunFits
  <1>6. flPage'.phase = "ready" => flCurrent \in FlipRuns /\ flRun'[flCurrent].step = "ended"
    BY <1>1, <1>2 DEF FlipInv, FlipKept
  <1>7. FlipPlaysShownPair'
    BY <1>2 DEF FlipInv, FlipPlaysShownPair
  <1> QED BY <1>3, <1>4, <1>5, <1>6, <1>7 DEF FlipInv, FlipKept

LEMMA FlipKeeps == ASSUME FlipInv, NEW r \in FlipRuns, NEW p \in FlipPairs, Flip(r, p) PROVE FlipInv'
  <1>1. flPage.shift \in BOOLEAN
    BY DEF FlipInv, FlipTyped, FlipPages
  <1>2. flPage' \in FlipPages /\ flPage'.phase = "separating" /\ flPage'.pair = p /\ flPage'.off = Aligned /\ flPage'.playing = FALSE
    <2>1. flPage' = [IdlePage EXCEPT !.phase = "separating", !.pair = p, !.shift = flPage.shift]
      BY DEF Flip
    <2>2. "separating" \in FlipPhases /\ p \in FlipPairs \cup {NoPair}
      BY DEF FlipPhases
    <2> QED BY <1>1, <2>1, <2>2, FlipConstants DEF IdlePage, FlipPages
  <1>3. flRun' \in [FlipRuns -> FlipRecords] /\ flRun'[r].step = "vocal" /\ flRun'[r].pair = p
        /\ \A q \in FlipRuns : q # r => flRun'[q] = flRun[q]
    BY DEF Flip, FlipInv, FlipTyped, FlipRecords
  <1>4. flCurrent' = r /\ flDeck' = NoDeck /\ flNodes' = {} /\ flOn' = FALSE /\ flKey' = flKey /\ flLate' = flLate
        /\ flRun[r].step = "new"
    BY DEF Flip, UnloadDeck, LoadDeck
  <1>5. FlipTyped'
    BY <1>2, <1>3, <1>4, FlipConstants DEF FlipInv, FlipTyped
  <1>6. FlipKept'
    BY <1>2, <1>3, <1>4 DEF FlipInv, FlipKept, KeyFits, RunFits
  <1>7. FlipPlaysShownPair'
    BY <1>2, <1>4 DEF FlipPlaysShownPair
  <1> QED BY <1>5, <1>6, <1>7 DEF FlipInv

LEMMA VocalKeeps == ASSUME FlipInv, NEW r \in FlipRuns, VocalMade(r) PROVE FlipInv'
  <1>1. CASE flCurrent = r
    <2>1. flPage.phase = "separating" /\ flPage \in FlipPages
      BY <1>1 DEF FlipInv, FlipKept, FlipTyped, RunFits, VocalMade
    <2>2. flPage = [flPage EXCEPT !.phase = "separating"]
      BY <2>1 DEF FlipPages
    <2> QED BY <1>1, <2>2, AdvancedKeeps DEF VocalMade, FlipFrame, FlipPhases
  <1>2. CASE flCurrent # r
    BY <1>2, AdvancedKeeps DEF VocalMade, FlipFrame, FlipPhases
  <1> QED BY <1>1, <1>2

LEMMA InstrumentalKeeps == ASSUME FlipInv, NEW r \in FlipRuns, InstrumentalMade(r) PROVE FlipInv'
  BY AdvancedKeeps DEF InstrumentalMade, IsCurrentRun, FlipFrame, FlipPhases

LEMMA RunFailKeeps == ASSUME FlipInv, NEW r \in FlipRuns, RunFails(r) PROVE FlipInv'
  BY AdvancedKeeps DEF RunFails, IsCurrentRun, FlipFrame, FlipPhases

LEMMA LookupKeeps == ASSUME FlipInv, NEW r \in FlipRuns, LookupThrows(r) PROVE FlipInv'
  <1>1. CASE flCurrent = r
    <2>1. flPage.phase = "separating" /\ flPage \in FlipPages
      BY <1>1 DEF FlipInv, FlipKept, FlipTyped, RunFits, LookupThrows
    <2>2. flPage = [flPage EXCEPT !.phase = "separating"]
      BY <2>1 DEF FlipPages
    <2> QED BY <1>1, <2>2, AdvancedKeeps DEF LookupThrows, FlipFrame, FlipPhases
  <1>2. CASE flCurrent # r
    BY <1>2, AdvancedKeeps DEF LookupThrows, FlipFrame, FlipPhases
  <1> QED BY <1>1, <1>2

LEMMA StemsKeeps == ASSUME FlipInv, NEW r \in FlipRuns, StemsDecoded(r) PROVE FlipInv'
  <1>1. CASE flCurrent # r
    BY <1>1, AdvancedKeeps DEF StemsDecoded, IsCurrentRun, FlipFrame, FlipPhases
  <1>2. CASE flCurrent = r
    <2>1. flPage.shift \in BOOLEAN /\ flRun[r] \in FlipRecords
      BY DEF FlipInv, FlipTyped, FlipPages
    <2>2. flRun' = [flRun EXCEPT ![r].step = "stretching", ![r].shift = flPage.shift]
      BY <1>2 DEF StemsDecoded, IsCurrentRun
    <2>3. flRun' \in [FlipRuns -> FlipRecords] /\ flRun'[r].step = "stretching" /\ flRun'[r].shift = flPage.shift
          /\ flRun'[r].pair = flRun[r].pair /\ \A q \in FlipRuns : q # r => flRun'[q] = flRun[q]
      BY <2>1, <2>2 DEF FlipInv, FlipTyped, FlipRecords
    <2>4. UNCHANGED <<flPage, flCurrent, flKey, flDeck, flNodes, flOn, flLate>> /\ flRun[r].step = "decoding"
      BY DEF StemsDecoded, FlipFrame, flEngineVars, flContextVars
    <2>5. FlipTyped'
      BY <2>3, <2>4 DEF FlipInv, FlipTyped
    <2>6. FlipKept'
      BY <1>2, <2>3, <2>4 DEF FlipInv, FlipKept, KeyFits, RunFits
    <2> QED BY <2>4, <2>5, <2>6 DEF FlipInv, FlipPlaysShownPair
  <1> QED BY <1>1, <1>2

LEMMA StretchedKeeps == ASSUME FlipInv, NEW r \in FlipRuns, VocalStretched(r) PROVE FlipInv'
  <1>1. CASE flCurrent # r
    BY <1>1, AdvancedKeeps DEF VocalStretched, IsCurrentRun, FlipFrame, FlipPhases
  <1>2. CASE flCurrent = r
    <2>1. flPage' \in FlipPages /\ flPage'.phase = "ready" /\ flPage'.playing = flPage.playing
          /\ flPage'.pair = flPage.pair /\ flPage'.off = flPage.off /\ flPage'.shift = flPage.shift
      <3>1. flPage' = [flPage EXCEPT !.phase = "ready"]
        BY <1>2 DEF VocalStretched, IsCurrentRun
      <3> QED BY <3>1, PagePhase DEF FlipInv, FlipTyped, FlipPhases
    <2>2. /\ flRun[r].pair = flPage.pair /\ flPage.off = Aligned /\ flRun[r].shift = flPage.shift /\ flOn = FALSE
          /\ flRun[r].step = "stretching"
      BY <1>2 DEF FlipInv, FlipTyped, FlipKept, RunFits, VocalStretched
    <2>3. flDeck' = Shown(flPage') /\ flNodes' = {} /\ flOn' = FALSE
      BY <1>2, <2>1, <2>2 DEF VocalStretched, IsCurrentRun, LoadDeck, Shown
    <2>4. UNCHANGED <<flCurrent, flKey, flLate>>
      BY DEF VocalStretched, FlipFrame, flContextVars
    <2>5. flRun' \in [FlipRuns -> FlipRecords] /\ flRun'[r].step = "ended" /\ \A q \in FlipRuns : q # r => flRun'[q] = flRun[q]
      BY RunStep DEF VocalStretched, FlipInv
    <2>6. FlipTyped'
      BY <2>1, <2>3, <2>4, <2>5, DecksAreTyped DEF FlipInv, FlipTyped
    <2>7. FlipKept'
      BY <1>2, <2>1, <2>2, <2>4, <2>5 DEF FlipInv, FlipKept, KeyFits, RunFits
    <2>8. FlipPlaysShownPair'
      BY <2>1, <2>2, <2>3, <2>4 DEF FlipInv, FlipPlaysShownPair, Shown
    <2> QED BY <2>6, <2>7, <2>8 DEF FlipInv
  <1> QED BY <1>1, <1>2

LEMMA ClearedKeeps == ASSUME FlipInv, ClearPair PROVE FlipInv'
  <1>1. flPage.shift \in BOOLEAN
    BY DEF FlipInv, FlipTyped, FlipPages
  <1>2. flPage' \in FlipPages /\ flPage'.phase = "idle" /\ flPage'.playing = FALSE
    BY <1>1, FlipConstants DEF ClearPair, IdlePage, FlipPages
  <1>3. flCurrent' = NoFlip /\ flDeck' = NoDeck /\ flNodes' = {} /\ flOn' = FALSE /\ flLate' = FALSE
        /\ UNCHANGED <<flRun, flKey>>
    BY DEF ClearPair, UnloadDeck, LoadDeck
  <1>4. FlipTyped'
    BY <1>2, <1>3, FlipConstants DEF FlipInv, FlipTyped
  <1>5. FlipKept'
    BY <1>2, <1>3, FlipConstants DEF FlipInv, FlipKept, KeyFits
  <1> QED BY <1>2, <1>3, <1>4, <1>5 DEF FlipInv, FlipPlaysShownPair

LEMMA LeftKeeps == ASSUME FlipInv, LeaveFlipLab PROVE FlipInv'
  <1>1. flRun' \in [FlipRuns -> FlipRecords]
    BY FlipConstants DEF LeaveFlipLab, FlipInv, FlipTyped, FlipRecords
  <1>2. flCurrent' = NoFlip /\ flDeck' = NoDeck /\ flNodes' = {} /\ flOn' = FALSE /\ flLate' = FALSE
        /\ flKey' = NoKey /\ flPage' = IdlePage
    BY DEF LeaveFlipLab, UnloadDeck, LoadDeck
  <1>3. FlipTyped'
    BY <1>1, <1>2, FlipConstants DEF FlipTyped
  <1>4. FlipKept'
    BY <1>2, FlipConstants DEF FlipKept, KeyFits
  <1> QED BY <1>2, <1>3, <1>4, FlipConstants DEF FlipInv, FlipPlaysShownPair

\* What is heard follows the deck, and the page shows it, unless a waiting play() was late.
LEMMA HeardKeeps ==
  ASSUME FlipInv, flPage' \in FlipPages, flDeck' \in FlipDecks, flOn' \in BOOLEAN, flLate' \in BOOLEAN,
         flNodes' = IF flOn' THEN {flDeck'} ELSE {}, flPage'.phase = "ready" => flDeck' = Shown(flPage'),
         ~flLate' => flPage'.playing = flOn', UNCHANGED <<flRun, flCurrent>>,
         flKey' \in [run : FlipRuns \cup {NoFlip}, was : BOOLEAN], FlipKept'
  PROVE  FlipInv'
  BY DEF FlipInv, FlipTyped, FlipPlaysShownPair, Shown

LEMMA RememberedKeeps == ASSUME FlipInv, KeyRemembered PROVE FlipInv'
  <1>1. flPage' \in FlipPages /\ flPage'.phase = "error" /\ flPage'.playing = flPage.playing
    BY DEF KeyRemembered, FlipInv, FlipTyped, FlipPages
  <1>2. UNCHANGED <<flRun, flCurrent, flKey, flDeck, flNodes, flOn, flLate>> /\ flPage.phase = "error"
    BY DEF KeyRemembered, FlipFrame, flEngineVars, flContextVars
  <1>3. FlipKept'
    BY <1>1, <1>2 DEF FlipInv, FlipKept, FlipTyped, FlipRecords, KeyFits, RunFits
  <1> QED BY <1>1, <1>2, <1>3, HeardKeeps DEF FlipInv, FlipTyped, FlipPlaysShownPair

LEMMA ToggledKeeps == ASSUME FlipInv, KeyToggled PROVE FlipInv'
  <1>1. flPage' \in FlipPages /\ flPage'.phase = "preparing" /\ flPage'.playing = FALSE
    BY DEF KeyToggled, FlipInv, FlipTyped, FlipPages, FlipPhases
  <1>2. flNodes' = {} /\ flOn' = FALSE /\ flLate' = FALSE /\ UNCHANGED <<flRun, flCurrent, flDeck>>
        /\ flPage.phase = "ready" /\ flKey' = [run |-> flCurrent, was |-> flOn]
    BY DEF KeyToggled, PauseDeck
  <1>3. flKey' \in [run : FlipRuns \cup {NoFlip}, was : BOOLEAN] /\ flKey'.run = flCurrent
    BY <1>2 DEF FlipInv, FlipTyped
  <1>4. FlipKept'
    BY <1>1, <1>2, <1>3 DEF FlipInv, FlipKept, KeyFits, RunFits
  <1> QED BY <1>1, <1>2, <1>3, <1>4, HeardKeeps DEF FlipInv, FlipTyped

LEMMA KeyFailKeeps == ASSUME FlipInv, KeyFails PROVE FlipInv'
  <1>1. UNCHANGED <<flRun, flCurrent, flDeck, flNodes, flOn, flLate>> /\ flKey # NoKey /\ flKey' = NoKey
    BY DEF KeyFails, flEngineVars, flContextVars
  <1>2. CASE flCurrent # flKey.run
    <2>1. flPage' = flPage
      BY <1>2 DEF KeyFails, IsCurrentRun
    <2>2. FlipKept'
      BY <1>1, <2>1 DEF FlipInv, FlipKept, KeyFits
    <2> QED BY <1>1, <2>1, <2>2, FlipConstants, HeardKeeps DEF FlipInv, FlipTyped, FlipPlaysShownPair, Shown
  <1>3. CASE flCurrent = flKey.run
    <2>1. flPage' \in FlipPages /\ flPage'.phase = "error" /\ flPage'.playing = flPage.playing
      BY <1>3, PagePhase DEF KeyFails, IsCurrentRun, FlipInv, FlipTyped, FlipPhases
    <2>2. flRun[flCurrent].step = "ended"
      BY <1>1, <1>3 DEF FlipInv, FlipKept, KeyFits
    <2>3. FlipKept'
      BY <1>1, <2>1, <2>2 DEF FlipKept, KeyFits, RunFits
    <2> QED BY <1>1, <2>1, <2>3, FlipConstants, HeardKeeps DEF FlipInv, FlipTyped, FlipPlaysShownPair
  <1> QED BY <1>2, <1>3

LEMMA StretchedAgainKeeps == ASSUME FlipInv, KeyStretched PROVE FlipInv'
  <1>1. UNCHANGED <<flRun, flCurrent>> /\ flKey # NoKey /\ flKey' = NoKey
    BY DEF KeyStretched
  <1>2. CASE flCurrent # flKey.run
    <2>1. UNCHANGED <<flPage, flDeck, flNodes, flOn, flLate>>
      BY <1>2 DEF KeyStretched, IsCurrentRun, flEngineVars
    <2>2. FlipKept'
      BY <1>1, <2>1 DEF FlipInv, FlipKept, KeyFits
    <2> QED BY <1>1, <2>1, <2>2, FlipConstants, HeardKeeps DEF FlipInv, FlipTyped, FlipPlaysShownPair, Shown
  <1>3. CASE flCurrent = flKey.run
    <2> DEFINE deck == Shown(flPage)
    <2>1. flRun[flCurrent].step = "ended" /\ flCurrent \in FlipRuns /\ flKey.was \in BOOLEAN /\ flOn \in BOOLEAN
      BY <1>1, <1>3 DEF FlipInv, FlipKept, KeyFits, FlipTyped
    <2>2. /\ flPage' = [flPage EXCEPT !.phase = "ready", !.playing = flKey.was]
          /\ flLate' = (flOn /\ ~flKey.was)
          /\ flDeck' = deck /\ flOn' = (flKey.was \/ flOn) /\ flNodes' = IF flKey.was \/ flOn THEN {deck} ELSE {}
      BY <1>3 DEF KeyStretched, IsCurrentRun, PlaysOn, LoadDeck, Shown
    <2>3. flPage' \in FlipPages /\ flPage'.phase = "ready" /\ flPage'.playing = flKey.was /\ Shown(flPage') = deck
      BY <2>1, <2>2 DEF FlipInv, FlipTyped, FlipPages, FlipPhases, Shown
    <2>4. deck \in FlipDecks
      BY DecksAreTyped DEF FlipInv, FlipTyped
    <2>5. FlipKept'
      BY <1>1, <2>1, <2>3 DEF FlipKept, KeyFits, RunFits
    <2> HIDE DEF deck
    <2> QED BY <1>1, <2>1, <2>2, <2>3, <2>4, <2>5, FlipConstants, HeardKeeps
  <1> QED BY <1>2, <1>3

\* The transport plays, stops or moves what is loaded; the page stays in its phase.
LEMMA FlipTransportKeeps ==
  ASSUME FlipInv, UNCHANGED <<flRun, flCurrent, flKey, flDeck>>, flOn' \in BOOLEAN, flLate' \in BOOLEAN,
         flNodes' = IF flOn' THEN {flDeck} ELSE {}, NEW playing \in BOOLEAN,
         flPage' = [flPage EXCEPT !.playing = playing], ~flLate' => playing = flOn',
         flOn' => flOn \/ flDeck # NoDeck
  PROVE  FlipInv'
  <1>1. /\ flPage' \in FlipPages /\ flPage'.phase = flPage.phase /\ flPage'.pair = flPage.pair
        /\ flPage'.shift = flPage.shift /\ flPage'.off = flPage.off /\ flPage'.playing = playing
        /\ Shown(flPage') = Shown(flPage)
    BY PagePlaying DEF FlipInv, FlipTyped
  <1>2. FlipKept'
    BY <1>1 DEF FlipInv, FlipKept, KeyFits, RunFits
  <1>3. flPage.phase = "ready" => flDeck = Shown(flPage)
    BY DEF FlipInv, FlipPlaysShownPair, Shown
  <1> QED BY <1>1, <1>2, <1>3, HeardKeeps DEF FlipInv, FlipTyped

LEMMA SamePage == ASSUME FlipInv PROVE flPage.playing \in BOOLEAN /\ flPage = [flPage EXCEPT !.playing = flPage.playing]
  BY DEF FlipInv, FlipTyped, FlipPages

LEMMA TogglePauseKeeps == ASSUME FlipInv, TogglePause PROVE FlipInv'
  BY FlipTransportKeeps DEF TogglePause, PauseDeck

LEMMA PreviewPauseKeeps == ASSUME FlipInv, PreviewPauses PROVE FlipInv'
  BY FlipTransportKeeps DEF PreviewPauses, PauseDeck

LEMMA TransportEndKeeps == ASSUME FlipInv, TransportEnds PROVE FlipInv'
  BY FlipTransportKeeps DEF TransportEnds

\* A page that is ready has a deck: its pair is one that was flipped.
LEMMA ReadyHasDeck == ASSUME FlipInv, flPage.phase = "ready" PROVE flCurrent \in FlipRuns /\ flRun[flCurrent].step = "ended"
  BY DEF FlipInv, FlipKept

LEMMA TogglePlayKeeps == ASSUME FlipInv, TogglePlay PROVE FlipInv'
  <1>1. CASE flAsleep
    BY <1>1, SamePage, FlipTransportKeeps DEF TogglePlay, flEngineVars, FlipInv, FlipTyped, FlipPlaysShownPair
  <1>2. CASE ~flAsleep
    <2>1. /\ flDeck' = flDeck /\ flNodes' = {flDeck} /\ flOn' = TRUE /\ flPage' = [flPage EXCEPT !.playing = TRUE]
          /\ UNCHANGED <<flRun, flCurrent, flKey, flLate>>
      BY <1>2 DEF TogglePlay, PlaysOn
    <2>2. flPage' \in FlipPages /\ flPage'.phase = flPage.phase /\ flPage'.playing /\ Shown(flPage') = Shown(flPage)
      BY <2>1, PagePlaying DEF FlipInv, FlipTyped
    <2>3. flPage.phase = "ready" /\ flRun[flCurrent].step = "ended"
      BY ReadyHasDeck DEF TogglePlay
    <2>4. FlipKept'
      BY <2>1, <2>2, <2>3 DEF FlipInv, FlipKept, KeyFits, RunFits
    <2> QED BY <2>1, <2>2, <2>3, <2>4, HeardKeeps DEF FlipInv, FlipTyped, FlipPlaysShownPair, Shown
  <1> QED BY <1>1, <1>2

LEMMA ContextKeeps == ASSUME FlipInv, ContextRuns PROVE FlipInv'
  <1>1. CASE flWaiting /\ flDeck # NoDeck
    BY <1>1, FlipTransportKeeps DEF ContextRuns, PlaysOn, FlipInv, FlipTyped
  <1>2. CASE ~(flWaiting /\ flDeck # NoDeck)
    BY <1>2, SamePage, FlipTransportKeeps DEF ContextRuns, flEngineVars, FlipInv, FlipTyped, FlipPlaysShownPair
  <1> QED BY <1>1, <1>2

LEMMA SeekKeeps == ASSUME FlipInv, NEW at, Seek(at) PROVE FlipInv'
  BY SamePage, FlipTransportKeeps DEF Seek, FlipFrame, flContextVars, FlipInv, FlipTyped, FlipPlaysShownPair

LEMMA RunsOnKeeps == ASSUME FlipInv, TransportRuns PROVE FlipInv'
  BY SamePage, FlipTransportKeeps DEF TransportRuns, FlipFrame, flContextVars, FlipInv, FlipTyped, FlipPlaysShownPair

LEMMA MovedKeeps == ASSUME FlipInv, NEW s \in FlipStems, NEW by \in {-2, 1}, MoveStem(s, by) PROVE FlipInv'
  <1> DEFINE off == [flPage.off EXCEPT ![s] = flPage.off[s] + by]
  <1>1. flPage.off \in [FlipStems -> Int] /\ flPage \in FlipPages /\ flPage.phase = "ready" /\ ~flOn
    BY DEF MoveStem, FlipInv, FlipTyped, FlipPages
  <1>2. off \in [FlipStems -> Int]
    BY <1>1
  <1>3. /\ flDeck' = [flDeck EXCEPT !.off = off] /\ flPage' = [flPage EXCEPT !.off = off] /\ flNodes' = {} /\ flOn' = FALSE
        /\ UNCHANGED <<flRun, flCurrent, flKey, flLate>>
    BY DEF MoveStem, LoadDeck
  <1> HIDE DEF off
  <1>4. flPage' \in FlipPages /\ flPage'.phase = "ready" /\ flPage'.playing = flPage.playing
        /\ flPage'.pair = flPage.pair /\ flPage'.shift = flPage.shift /\ flPage'.off = off
    BY <1>1, <1>2, <1>3 DEF FlipPages
  <1>5. flDeck' = Shown(flPage')
    <2>1. flDeck = [pair |-> flPage.pair, shift |-> flPage.shift, off |-> flPage.off]
      BY <1>1 DEF FlipInv, FlipPlaysShownPair
    <2> QED BY <1>3, <1>4, <2>1 DEF Shown
  <1>6. flDeck' \in FlipDecks
    BY <1>4, <1>5, DecksAreTyped
  <1>7. FlipKept'
    BY <1>1, <1>3, <1>4 DEF FlipInv, FlipKept, KeyFits, RunFits
  <1> QED BY <1>1, <1>3, <1>4, <1>5, <1>6, <1>7, HeardKeeps DEF FlipInv, FlipTyped, FlipPlaysShownPair

LEMMA FlipInitInv == FlipInit => FlipInv
  <1> SUFFICES ASSUME FlipInit PROVE FlipInv
    OBVIOUS
  <1>1. FlipTyped
    BY FlipConstants DEF FlipInit, FlipTyped
  <1>2. FlipKept
    BY FlipConstants DEF FlipInit, FlipKept, KeyFits
  <1> QED BY <1>1, <1>2, FlipConstants DEF FlipInit, FlipInv, FlipPlaysShownPair

LEMMA FlipStepInv == FlipInv /\ [FlipNext]_flipVars => FlipInv'
  <1> SUFFICES ASSUME FlipInv, [FlipNext]_flipVars PROVE FlipInv'
    OBVIOUS
  <1>1. CASE UNCHANGED flipVars
    BY <1>1 DEF flipVars, FlipInv, FlipTyped, FlipKept, KeyFits, RunFits, FlipPlaysShownPair
  <1>2. CASE \E r \in FlipRuns : \E p \in FlipPairs : Flip(r, p)
    BY <1>2, FlipKeeps
  <1>3. CASE \E r \in FlipRuns : VocalMade(r) \/ InstrumentalMade(r) \/ StemsDecoded(r)
    BY <1>3, VocalKeeps, InstrumentalKeeps, StemsKeeps
  <1>4. CASE \E r \in FlipRuns : VocalStretched(r) \/ RunFails(r) \/ LookupThrows(r)
    BY <1>4, StretchedKeeps, RunFailKeeps, LookupKeeps
  <1>5. CASE ClearPair \/ LeaveFlipLab \/ KeyRemembered \/ KeyToggled \/ KeyStretched \/ KeyFails
    BY <1>5, ClearedKeeps, LeftKeeps, RememberedKeeps, ToggledKeeps, StretchedAgainKeeps, KeyFailKeeps
  <1>6. CASE TogglePause \/ TogglePlay \/ ContextRuns \/ PreviewPauses \/ TransportRuns \/ TransportEnds
    BY <1>6, TogglePauseKeeps, TogglePlayKeeps, ContextKeeps, PreviewPauseKeeps, RunsOnKeeps, TransportEndKeeps
  <1>7. CASE \E at \in 0 .. Length(flDeck) : Seek(at)
    BY <1>7, SeekKeeps
  <1>8. CASE \E s \in FlipStems, by \in {-2, 1} : MoveStem(s, by)
    BY <1>8, MovedKeeps
  <1> QED BY <1>1, <1>2, <1>3, <1>4, <1>5, <1>6, <1>7, <1>8 DEF FlipNext

\* PlayheadStays of one step.
PlayheadKept(s) ==
  /\ flPage.phase = "ready" /\ flPage'.phase = "ready"
  /\ flPage'.pair = flPage.pair /\ flPage'.off # flPage.off /\ flPage'.off[s] = flPage.off[s]
  => LET at == flAt - StartOf(flPage.off, s) + StartOf(flPage'.off, s)
     IN flAt' = Within(at, flDeck') /\ StartOf(flPage'.off, s) >= 0

LEMMA ShiftsAre ==
  ASSUME NEW off \in [FlipStems -> Int]
  PROVE  /\ ShiftOf(off) \in Int /\ AutoStart \in [FlipStems -> Int] /\ TotalOf(off) \in Int
         /\ \A s \in FlipStems : AutoStart[s] + off[s] + ShiftOf(off) >= 0
  <1>1. Downbeat \in Int /\ AutoStart \in [FlipStems -> Int]
    BY FlipAssumption DEF Downbeat, Later, AutoStart, FlipStems
  <1>2. /\ AutoStart["vocal"] \in Int /\ AutoStart["instrumental"] \in Int
        /\ off["vocal"] \in Int /\ off["instrumental"] \in Int
    BY <1>1 DEF FlipStems
  <1>3. ShiftOf(off) \in Int /\ \A s \in FlipStems : AutoStart[s] + off[s] + ShiftOf(off) >= 0
    BY <1>2 DEF ShiftOf, Later, FlipStems
  <1>4. SpanOf["vocal"] \in Int /\ SpanOf["instrumental"] \in Int
    BY FlipAssumption DEF SpanOf, FlipStems
  <1>5. TotalOf(off) \in Int
    BY <1>2, <1>3, <1>4 DEF TotalOf, StartOf, Later
  <1> QED BY <1>1, <1>3, <1>5

\* What is left of FlipTypeOK: the position lies within what is loaded.
FlipRest ==
  /\ flAt \in 0 .. Length(flDeck) /\ flAsleep \in BOOLEAN /\ flWaiting \in BOOLEAN /\ flMoves \in 0 .. MaxMoves

LEMMA PlacesLieWithin ==
  ASSUME NEW deck \in FlipDecks, NEW at \in Int
  PROVE  Length(deck) \in Nat /\ Within(at, deck) \in 0 .. Length(deck)
  <1>1. deck.off \in [FlipStems -> Int]
    BY DEF FlipDecks
  <1> DEFINE off == deck.off
  <1>2. TotalOf(off) \in Nat
    <2>1. /\ "vocal" \in FlipStems /\ "instrumental" \in FlipStems
          /\ VocalSpan \in Nat /\ InstrSpan \in Nat
      BY FlipAssumption DEF FlipStems
    <2>2. /\ StartOf(off, "vocal") \in Int /\ StartOf(off, "vocal") >= 0
          /\ StartOf(off, "instrumental") \in Int /\ StartOf(off, "instrumental") >= 0
      BY <1>1, <2>1, ShiftsAre DEF StartOf
    <2>3. SpanOf["vocal"] = VocalSpan /\ SpanOf["instrumental"] = InstrSpan
      BY <2>1 DEF SpanOf
    <2> QED BY <2>1, <2>2, <2>3 DEF TotalOf, Later
  <1>3. Length(deck) \in Nat
    BY <1>2 DEF Length
  <1> QED BY <1>3 DEF Within

LEMMA FlipRestKept ==
  ASSUME FlipInv, FlipRest, [FlipNext]_flipVars, FlipInv'
  PROVE  FlipRest'
  <1>1. flDeck \in FlipDecks /\ flDeck' \in FlipDecks /\ flAt \in Int /\ flAt \in 0 .. Length(flDeck) /\ MaxMoves \in Nat
    BY PlacesLieWithin, FlipAssumption DEF FlipInv, FlipTyped, FlipRest
  <1>2. /\ Length(flDeck) \in Nat /\ Length(flDeck') \in Nat /\ 0 \in 0 .. Length(flDeck')
        /\ \A at \in Int : Within(at, flDeck') \in 0 .. Length(flDeck')
    BY <1>1, PlacesLieWithin
  <1>3. ASSUME NEW deck, NEW at \in Int, LoadDeck(deck, at) PROVE flAt' \in 0 .. Length(flDeck')
    BY <1>2, <1>3 DEF LoadDeck
  <1>4. ASSUME NEW deck, NEW at \in 0 .. Length(deck), PlaysOn(deck, at) PROVE flAt' \in 0 .. Length(flDeck')
    BY <1>2, <1>4 DEF PlaysOn
  <1>5. ASSUME UNCHANGED <<flDeck, flAt>> \/ UnloadDeck \/ TransportRuns \/ TransportEnds
        PROVE  flAt' \in 0 .. Length(flDeck')
    BY <1>1, <1>2, <1>3, <1>5 DEF UnloadDeck, TransportRuns, TransportEnds
  <1>6. flAt' \in 0 .. Length(flDeck')
    <2>1. ASSUME NEW r \in FlipRuns,
                 \/ \E p \in FlipPairs : Flip(r, p)
                 \/ VocalMade(r) \/ InstrumentalMade(r) \/ StemsDecoded(r)
                 \/ VocalStretched(r) \/ RunFails(r) \/ LookupThrows(r)
          PROVE  flAt' \in 0 .. Length(flDeck')
      <3>1. CASE VocalStretched(r)
        <4>1. \/ UNCHANGED <<flDeck, flAt>>
              \/ LoadDeck([pair |-> flRun[r].pair, shift |-> flRun[r].shift, off |-> Aligned], 0)
          BY <3>1 DEF VocalStretched, flEngineVars
        <4> QED BY <1>3, <1>5, <4>1
      <3>2. CASE \E p \in FlipPairs : Flip(r, p)
        BY <1>5, <3>2 DEF Flip
      <3>3. CASE VocalMade(r) \/ InstrumentalMade(r) \/ StemsDecoded(r) \/ RunFails(r) \/ LookupThrows(r)
        BY <1>5, <3>3 DEF VocalMade, InstrumentalMade, StemsDecoded, RunFails, LookupThrows, flEngineVars
      <3> QED BY <2>1, <3>1, <3>2, <3>3
    <2>2. CASE ClearPair \/ LeaveFlipLab \/ KeyRemembered \/ KeyToggled \/ KeyFails \/ TogglePause \/ PreviewPauses
      BY <1>5, <2>2 DEF ClearPair, LeaveFlipLab, KeyRemembered, KeyToggled, KeyFails, TogglePause, PreviewPauses,
                        PauseDeck, flEngineVars
    <2>3. CASE KeyStretched
      <3> DEFINE deck == [pair |-> flPage.pair, shift |-> flPage.shift, off |-> flPage.off]
      <3>1. PlaysOn(deck, Within(flAt, deck)) \/ LoadDeck(deck, flAt) \/ UNCHANGED <<flDeck, flAt>>
        BY <2>3 DEF KeyStretched, flEngineVars
      <3>2. deck \in FlipDecks
        BY DEF FlipInv, FlipTyped, FlipPages, FlipDecks
      <3> HIDE DEF deck
      <3>3. Within(flAt, deck) \in 0 .. Length(deck)
        BY <1>1, <3>2, PlacesLieWithin
      <3> QED BY <1>1, <1>3, <1>4, <1>5, <3>1, <3>3
    <2>4. CASE TogglePlay \/ ContextRuns
      <3>1. UNCHANGED <<flDeck, flAt>> \/ PlaysOn(flDeck, flAt)
        BY <2>4 DEF TogglePlay, ContextRuns, flEngineVars
      <3> QED BY <1>1, <1>4, <1>5, <3>1
    <2>5. ASSUME NEW at \in 0 .. Length(flDeck), Seek(at) PROVE flAt' \in 0 .. Length(flDeck')
      <3>1. at \in Int /\ flDeck' = flDeck /\ flAt' = Within(at, flDeck)
        BY <1>2, <2>5 DEF Seek
      <3> QED BY <1>2, <3>1
    <2>6. ASSUME NEW s \in FlipStems, NEW by \in {-2, 1}, MoveStem(s, by) PROVE flAt' \in 0 .. Length(flDeck')
      <3> DEFINE off == [flPage.off EXCEPT ![s] = @ + by]
      <3>1. flPage.off \in [FlipStems -> Int]
        BY DEF FlipInv, FlipTyped, FlipPages
      <3>2. off \in [FlipStems -> Int]
        BY <3>1
      <3>3. LoadDeck([flDeck EXCEPT !.off = off], flAt + ShiftOf(off) - ShiftOf(flPage.off))
        BY <2>6 DEF MoveStem
      <3> HIDE DEF off
      <3>4. flAt + ShiftOf(off) - ShiftOf(flPage.off) \in Int
        BY <1>1, <3>1, <3>2, ShiftsAre
      <3> QED BY <1>3, <3>3, <3>4
    <2>7. CASE TransportRuns \/ TransportEnds \/ UNCHANGED flipVars
      BY <1>5, <2>7 DEF flipVars
    <2> QED BY <2>1, <2>2, <2>3, <2>4, <2>5, <2>6, <2>7 DEF FlipNext
  <1>7. flAsleep' \in BOOLEAN /\ flWaiting' \in BOOLEAN /\ flMoves' \in 0 .. MaxMoves
    <2>1. flMoves' \in {0, flMoves} \/ (flMoves < MaxMoves /\ flMoves' = flMoves + 1)
      BY DEF FlipNext, flipVars, flContextVars, FlipFrame, Flip, VocalMade, InstrumentalMade, StemsDecoded, VocalStretched,
             RunFails, LookupThrows, ClearPair, LeaveFlipLab, KeyRemembered, KeyToggled, KeyStretched, KeyFails,
             TogglePause, TogglePlay, ContextRuns, PreviewPauses, Seek, TransportRuns, TransportEnds, MoveStem
    <2>2. flAsleep' \in {flAsleep, TRUE, FALSE} /\ flWaiting' \in {flWaiting, TRUE, FALSE}
      BY DEF FlipNext, flipVars, flContextVars, FlipFrame, Flip, VocalMade, InstrumentalMade, StemsDecoded, VocalStretched,
             RunFails, LookupThrows, ClearPair, LeaveFlipLab, KeyRemembered, KeyToggled, KeyStretched, KeyFails,
             TogglePause, TogglePlay, ContextRuns, PreviewPauses, Seek, TransportRuns, TransportEnds, MoveStem
    <2>3. flAsleep \in BOOLEAN /\ flWaiting \in BOOLEAN /\ flMoves \in 0 .. MaxMoves
      BY DEF FlipRest
    <2>4. flMoves' \in 0 .. MaxMoves
      BY <1>1, <2>1, <2>3
    <2> QED BY <2>2, <2>3, <2>4
  <1> QED BY <1>6, <1>7 DEF FlipRest

LEMMA FlipTypesAre ==
  /\ FlipInit => FlipRest
  /\ FlipInv /\ FlipRest => FlipTypeOK
  <1>1. ASSUME FlipInit PROVE FlipRest
    <2>1. flDeck = NoDeck /\ flAt = 0 /\ flMoves = 0 /\ flAsleep \in BOOLEAN /\ flWaiting \in BOOLEAN /\ MaxMoves \in Nat
      BY <1>1, FlipAssumption DEF FlipInit
    <2>2. Length(flDeck) = 0
      BY <2>1 DEF Length
    <2> QED BY <2>1, <2>2 DEF FlipRest
  <1>2. ASSUME FlipInv, FlipRest PROVE FlipTypeOK
    <2>1. flNodes \in SUBSET {flDeck}
      BY <1>2 DEF FlipInv, FlipPlaysShownPair
    <2> QED BY <1>2, <2>1 DEF FlipInv, FlipTyped, FlipRest, FlipTypeOK, FlipPages, FlipPhases, FlipRecords
  <1> QED BY <1>1, <1>2

\* Only a drag places stems while the pair stays on the page.
LEMMA PlayheadHolds ==
  ASSUME FlipInv, flAt \in Int, [FlipNext]_flipVars
  PROVE  [\A s \in FlipStems : PlayheadKept(s)]_flipVars
  <1> SUFFICES ASSUME NEW s \in FlipStems, FlipNext, flPage.phase = "ready", flPage'.phase = "ready",
                      flPage'.off # flPage.off, flPage'.off[s] = flPage.off[s]
               PROVE  LET at == flAt - StartOf(flPage.off, s) + StartOf(flPage'.off, s)
                      IN flAt' = Within(at, flDeck') /\ StartOf(flPage'.off, s) >= 0
    BY DEF PlayheadKept
  <1>1. flPage \in FlipPages /\ flPage.off \in [FlipStems -> Int]
    BY DEF FlipInv, FlipTyped, FlipPages
  <1>2. PICK stem \in FlipStems, by \in {-2, 1} : MoveStem(stem, by)
    <2>1. ASSUME NEW r \in FlipRuns,
                 \/ \E p \in FlipPairs : Flip(r, p)
                 \/ VocalMade(r) \/ InstrumentalMade(r) \/ StemsDecoded(r)
                 \/ VocalStretched(r) \/ RunFails(r) \/ LookupThrows(r)
          PROVE  FALSE
      BY <1>1, <2>1, PagePhase DEF Flip, VocalMade, InstrumentalMade, StemsDecoded, VocalStretched, RunFails, LookupThrows,
                         IdlePage, FlipPages
    <2>2. CASE ClearPair \/ LeaveFlipLab
      BY <2>2 DEF ClearPair, LeaveFlipLab, IdlePage
    <2>3. CASE KeyRemembered \/ KeyToggled \/ KeyStretched \/ KeyFails
      BY <1>1, <2>3 DEF KeyRemembered, KeyToggled, KeyStretched, KeyFails, FlipPages
    <2>4. CASE TogglePause \/ TogglePlay \/ ContextRuns \/ PreviewPauses \/ TransportRuns \/ TransportEnds
      BY <1>1, <2>4 DEF TogglePause, TogglePlay, ContextRuns, PreviewPauses, TransportRuns, TransportEnds, FlipPages
    <2>5. ASSUME NEW at \in 0 .. Length(flDeck), Seek(at) PROVE FALSE
      BY <2>5 DEF Seek
    <2> QED BY <2>1, <2>2, <2>3, <2>4, <2>5 DEF FlipNext
  <1> DEFINE off == [flPage.off EXCEPT ![stem] = @ + by]
  <1>3. off \in [FlipStems -> Int]
    BY <1>1
  <1>4. flPage'.off = off /\ flAt' = Within(flAt + ShiftOf(off) - ShiftOf(flPage.off), flDeck')
    BY <1>1, <1>2 DEF MoveStem, LoadDeck, FlipPages
  <1> HIDE DEF off
  <1>5. off[s] = flPage.off[s] /\ off[s] \in Int /\ ShiftOf(off) \in Int /\ ShiftOf(flPage.off) \in Int
        /\ AutoStart[s] \in Int /\ AutoStart[s] + off[s] + ShiftOf(off) >= 0
    BY <1>1, <1>3, <1>4, ShiftsAre
  <1>6. flAt - (AutoStart[s] + flPage.off[s] + ShiftOf(flPage.off)) + (AutoStart[s] + off[s] + ShiftOf(off))
          = flAt + ShiftOf(off) - ShiftOf(flPage.off)
    BY <1>5
  <1> QED BY <1>4, <1>5, <1>6 DEF StartOf

-----------------------------------------------------------------------------
(* The Drop Lab preview (useDropLabPreview.ts).                            *)

\* The sets of PreviewTypeOK, by name; of the cache only the joinable loads matter here.
PreviewStatuses == {"idle", "loading", "ready", "playing", "error"}
PreviewPages == [pair : PreviewPairs \cup {NoPreview}, usb : BOOLEAN, run : {NoPreviewRun} \cup PreviewRuns,
                 status : PreviewStatuses, decoded : PreviewPairs \cup {NoPreview},
                 nodes : PreviewPairs \cup {NoPreview}]
RunRecords == [pair : PreviewPairs, from : [PreviewTracks -> PreviewRuns \cup {Cached, NoPreviewRun}],
               aborted : BOOLEAN, settled : BOOLEAN]
Joinable == [PreviewTracks -> {NoPreviewRun} \cup PreviewRuns]
LoadsTyped == [PreviewRuns \X PreviewTracks -> LoadStages]

PreviewTyped ==
  /\ dpPage \in PreviewPages /\ dpRun \in Seq(RunRecords) /\ Len(dpRun) <= MaxPreviewRuns
  /\ dpLoad \in LoadsTyped
  /\ dpCache = [values |-> dpCache.values, pending |-> dpCache.pending] /\ dpCache.pending \in Joinable

\* What is decoded and played is the page's pair.
PlaysOwn(page) ==
  /\ page.decoded \in {NoPreview, page.pair} /\ page.nodes \in {NoPreview, page.pair}
  /\ page.nodes # NoPreview => page.status = "playing"

Joined(run, r) == \E k \in PairKeys(run.pair) : run.from[k] \notin {Cached, r}

\* The run that the page waits for is of its pair and was not aborted, and a page that
\* shows a load has one, or one that joined an earlier load.
RunServes(page, runs) ==
  /\ page.run \in 0 .. Len(runs)
  /\ page.run # NoPreviewRun =>
       /\ runs[page.run].pair = page.pair
       /\ ~runs[page.run].settled => page.status = "loading" /\ ~runs[page.run].aborted
  /\ page.status = "loading" =>
       page.run # NoPreviewRun /\ (~runs[page.run].settled \/ Joined(runs[page.run], page.run))

\* Loads belong to runs, only an aborted run's load ends aborted, and what may be joined
\* is being loaded.
LoadsServe(runs, loads, pending) ==
  /\ \A l \in PreviewRuns \X PreviewTracks :
       /\ loads[l] # "none" => l[1] \in 1 .. Len(runs)
       /\ loads[l] = "aborted" => runs[l[1]].aborted
  /\ \A k \in PreviewTracks : pending[k] # NoPreviewRun => loads[<<pending[k], k>>] \in LiveLoads

PreviewInv ==
  /\ PreviewTyped
  /\ PlaysOwn(dpPage) /\ RunServes(dpPage, dpRun) /\ LoadsServe(dpRun, dpLoad, dpCache.pending)

LEMMA PreviewConstants ==
  /\ MaxPreviewRuns \in Nat /\ NoPreview \notin PreviewPairs
  /\ \A pair \in PreviewPairs : PairKeys(pair) \subseteq PreviewTracks
  BY PreviewAssumption DEF PairKeys, PreviewTracks

\* Aborting the last run leaves its pair, its loads and its answer alone.
LEMMA AbortedRuns ==
  ASSUME NEW runs \in Seq(RunRecords)
  PROVE  /\ RunsAborted(runs) \in Seq(RunRecords) /\ Len(RunsAborted(runs)) = Len(runs)
         /\ \A r \in 1 .. Len(runs) :
              /\ RunsAborted(runs)[r].pair = runs[r].pair /\ RunsAborted(runs)[r].from = runs[r].from
              /\ RunsAborted(runs)[r].settled = runs[r].settled
              /\ runs[r].aborted => RunsAborted(runs)[r].aborted
  <1>1. CASE runs = << >>
    BY <1>1 DEF RunsAborted
  <1>2. CASE runs # << >>
    <2> DEFINE n == Len(runs)
               last == [runs[n] EXCEPT !.aborted = TRUE]
    <2>1. n \in 1 .. Len(runs) /\ Len(runs) \in Nat
      BY <1>2, EmptySeq, LenProperties
    <2>2. runs[n] \in RunRecords
      BY <2>1, ElementOfSeq
    <2>3. last \in RunRecords /\ last.pair = runs[n].pair /\ last.from = runs[n].from
          /\ last.settled = runs[n].settled /\ last.aborted
      BY <2>2 DEF RunRecords
    <2>4. RunsAborted(runs) = [runs EXCEPT ![n] = last]
      BY <1>2 DEF RunsAborted
    <2> HIDE DEF n, last
    <2> QED BY <2>1, <2>3, <2>4, ExceptSeq
  <1> QED BY <1>1, <1>2

\* Silencing a page changes neither its pair nor its run.
LEMMA SilentPage ==
  ASSUME NEW page \in PreviewPages
  PROVE  LET q == PreviewSilent(page)
         IN  /\ q \in PreviewPages /\ q.nodes = NoPreview /\ q.pair = page.pair /\ q.run = page.run
             /\ q.decoded = page.decoded /\ q.usb = page.usb
             /\ q.status = IF page.status = "playing" THEN "ready" ELSE page.status
  BY DEF PreviewPages, PreviewStatuses, PreviewSilent

\* The page that a pass of the effect leaves.
LEMMA FreshPage ==
  ASSUME NEW page \in PreviewPages, NEW run \in {NoPreviewRun} \cup PreviewRuns,
         NEW status \in PreviewStatuses, NEW decoded \in {NoPreview, page.pair}
  PROVE  LET q == [PreviewSilent(page) EXCEPT !.run = run, !.status = status, !.decoded = decoded]
         IN  /\ q \in PreviewPages /\ q.nodes = NoPreview /\ q.pair = page.pair /\ q.run = run
             /\ q.decoded = decoded /\ q.status = status
  BY SilentPage DEF PreviewPages

LEMMA EffectEnds ==
  ASSUME PreviewInv, NEW page \in PreviewPages, ~(page.pair # NoPreview /\ page.usb), LoadEffect(page)
  PROVE  PreviewInv'
  <1> DEFINE fresh == [PreviewSilent(page) EXCEPT !.decoded = NoPreview]
  <1>1. /\ dpPage' = [fresh EXCEPT !.run = NoPreviewRun, !.status = "idle"]
        /\ dpRun' = RunsAborted(dpRun) /\ UNCHANGED <<dpLoad, dpCache>>
    BY DEF LoadEffect
  <1>2. fresh \in PreviewPages /\ fresh.nodes = NoPreview /\ fresh.decoded = NoPreview
    BY SilentPage DEF PreviewPages
  <1> HIDE DEF fresh
  <1>3. dpPage' \in PreviewPages /\ dpPage'.nodes = NoPreview /\ dpPage'.decoded = NoPreview
        /\ dpPage'.run = NoPreviewRun /\ dpPage'.status = "idle"
    BY <1>1, <1>2 DEF PreviewPages, PreviewStatuses
  <1>4. dpRun' \in Seq(RunRecords) /\ Len(dpRun') = Len(dpRun) /\ Len(dpRun) \in Nat
        /\ \A r \in 1 .. Len(dpRun) : dpRun[r].aborted => dpRun'[r].aborted
    BY <1>1, AbortedRuns, LenProperties DEF PreviewInv, PreviewTyped
  <1>5. PreviewTyped'
    BY <1>1, <1>3, <1>4 DEF PreviewInv, PreviewTyped
  <1>6. PlaysOwn(dpPage') /\ RunServes(dpPage', dpRun')
    BY <1>3, <1>4 DEF PlaysOwn, RunServes, NoPreviewRun
  <1>7. LoadsServe(dpRun, dpLoad, dpCache.pending)'
    BY <1>1, <1>4 DEF PreviewInv, LoadsServe
  <1> QED BY <1>5, <1>6, <1>7 DEF PreviewInv

LEMMA EffectLoads ==
  ASSUME PreviewInv, NEW page \in PreviewPages, page.pair # NoPreview /\ page.usb, LoadEffect(page)
  PROVE  PreviewInv'
  <1> DEFINE r == Len(dpRun) + 1
             keys == PairKeys(page.pair)
             from == [k \in PreviewTracks |-> IF ~(k \in keys) THEN NoPreviewRun
                                              ELSE IF IsDecoded(k) THEN Cached
                                              ELSE IF dpCache.pending[k] # NoPreviewRun THEN dpCache.pending[k]
                                              ELSE r]
             begun == {k \in keys : from[k] = r}
             ready == \A k \in keys : from[k] = Cached
             fresh == [PreviewSilent(page) EXCEPT !.decoded = NoPreview]
             new == [pair |-> page.pair, from |-> from, aborted |-> FALSE, settled |-> ready]
  <1>1. /\ r <= MaxPreviewRuns /\ dpRun' = Append(RunsAborted(dpRun), new)
        /\ dpLoad' = [l \in DOMAIN dpLoad |-> IF l[1] = r /\ l[2] \in begun THEN "resolving" ELSE dpLoad[l]]
        /\ dpCache'.pending = [k \in PreviewTracks |-> IF k \in begun THEN r ELSE dpCache.pending[k]]
        /\ dpCache' = [values |-> dpCache'.values, pending |-> dpCache'.pending]
        /\ dpPage' = IF ready THEN [fresh EXCEPT !.run = r, !.status = "ready", !.decoded = page.pair]
                     ELSE [fresh EXCEPT !.run = r, !.status = "loading"]
    <2> DEFINE values == CacheGot(CacheGot(dpCache.values, page.pair[1]), page.pair[2])
               pending == [k \in PreviewTracks |-> IF k \in begun THEN r ELSE dpCache.pending[k]]
    <2>1. dpCache' = [dpCache EXCEPT !.values = values, !.pending = pending]
      BY DEF LoadEffect
    <2> HIDE DEF values
    <2>2. dpCache = [values |-> dpCache.values, pending |-> dpCache.pending]
      BY DEF PreviewInv, PreviewTyped
    <2>3. dpCache'.pending = pending /\ dpCache' = [values |-> dpCache'.values, pending |-> dpCache'.pending]
      <3> HIDE DEF pending
      <3> QED BY <2>1, <2>2
    <2> QED BY <2>3 DEF LoadEffect
  <1>2. Len(dpRun) \in Nat /\ r \in Nat \ {0} /\ r \in PreviewRuns
    BY <1>1, PreviewConstants, LenProperties DEF PreviewInv, PreviewTyped, PreviewRuns
  <1>3. page.pair \in PreviewPairs /\ keys \subseteq PreviewTracks
    BY PreviewConstants DEF PreviewPages
  <1>4. from \in [PreviewTracks -> PreviewRuns \cup {Cached, NoPreviewRun}]
    BY <1>2 DEF PreviewInv, PreviewTyped, Joinable
  <1>5. new \in RunRecords /\ new.pair = page.pair /\ ~new.aborted /\ new.settled = ready
    BY <1>3, <1>4 DEF RunRecords
  <1>6. fresh \in PreviewPages /\ fresh.nodes = NoPreview /\ fresh.pair = page.pair /\ fresh.decoded = NoPreview
    BY SilentPage DEF PreviewPages
  <1> HIDE DEF fresh, new, ready, from, keys
  <1>7. /\ dpPage' \in PreviewPages /\ dpPage'.nodes = NoPreview /\ dpPage'.pair = page.pair /\ dpPage'.run = r
        /\ dpPage'.decoded \in {NoPreview, page.pair}
        /\ dpPage'.status = IF ready THEN "ready" ELSE "loading"
    BY <1>1, <1>2, <1>3, <1>6 DEF PreviewPages, PreviewStatuses
  <1> HIDE DEF r
  <1>8. /\ RunsAborted(dpRun) \in Seq(RunRecords) /\ Len(RunsAborted(dpRun)) = Len(dpRun)
        /\ \A q \in 1 .. Len(dpRun) : dpRun[q].aborted => RunsAborted(dpRun)[q].aborted
    BY AbortedRuns DEF PreviewInv, PreviewTyped
  <1>9. /\ dpRun' \in Seq(RunRecords) /\ Len(dpRun') = r /\ dpRun'[r] = new
        /\ \A q \in 1 .. Len(dpRun) : dpRun[q].aborted => dpRun'[q].aborted
    <2> HIDE DEF PreviewInv
    <2> QED BY <1>1, <1>2, <1>5, <1>8 DEF r
  <1>10. dpLoad' \in LoadsTyped /\ dpCache'.pending \in Joinable
    BY <1>1, <1>2 DEF PreviewInv, PreviewTyped, LoadsTyped, Joinable, LoadStages
  <1>11. PreviewTyped'
    BY <1>1, <1>7, <1>9, <1>10 DEF PreviewTyped
  <1>12. PlaysOwn(dpPage') /\ RunServes(dpPage', dpRun')
    BY <1>2, <1>5, <1>7, <1>9 DEF PlaysOwn, RunServes, NoPreviewRun
  <1>13. LoadsServe(dpRun', dpLoad', dpCache'.pending)
    <2>1. DOMAIN dpLoad = PreviewRuns \X PreviewTracks /\ LoadsServe(dpRun, dpLoad, dpCache.pending)
      BY DEF PreviewInv, PreviewTyped, LoadsTyped
    <2>2. ASSUME NEW l \in PreviewRuns \X PreviewTracks
          PROVE  /\ dpLoad'[l] # "none" => l[1] \in 1 .. Len(dpRun')
                 /\ dpLoad'[l] = "aborted" => dpRun'[l[1]].aborted
      <3>1. CASE l[1] = r /\ l[2] \in begun
        BY <1>1, <1>2, <1>9, <2>1, <3>1
      <3>2. CASE dpLoad'[l] = dpLoad[l]
        BY <1>2, <1>9, <2>1, <3>2 DEF LoadsServe, r
      <3> QED BY <1>1, <2>1, <3>1, <3>2
    <2>3. ASSUME NEW k \in PreviewTracks, dpCache'.pending[k] # NoPreviewRun
          PROVE  dpLoad'[<<dpCache'.pending[k], k>>] \in LiveLoads
      <3>1. CASE k \in begun
        <4>1. dpCache'.pending[k] = r /\ <<r, k>> \in DOMAIN dpLoad
          BY <1>1, <1>2, <2>1, <3>1
        <4> QED BY <1>1, <3>1, <4>1 DEF LiveLoads
      <3>2. CASE k \notin begun
        <4>1. dpCache'.pending[k] = dpCache.pending[k] /\ dpCache.pending[k] \in PreviewRuns
          BY <1>1, <2>3, <3>2 DEF PreviewInv, PreviewTyped, Joinable
        <4>2. <<dpCache.pending[k], k>> \in DOMAIN dpLoad /\ dpLoad[<<dpCache.pending[k], k>>] \in LiveLoads
          BY <2>1, <2>3, <4>1 DEF LoadsServe
        <4>3. dpLoad'[<<dpCache.pending[k], k>>] = dpLoad[<<dpCache.pending[k], k>>]
          BY <1>1, <3>2, <4>2
        <4> QED BY <4>1, <4>2, <4>3
      <3> QED BY <3>1, <3>2
    <2> QED BY <2>2, <2>3 DEF LoadsServe
  <1> QED BY <1>11, <1>12, <1>13 DEF PreviewInv

LEMMA EffectKeeps == ASSUME PreviewInv, NEW page \in PreviewPages, LoadEffect(page) PROVE PreviewInv'
  BY EffectEnds, EffectLoads

LEMMA PairChangeKeeps ==
  ASSUME PreviewInv, NEW pair \in PreviewPairs \cup {NoPreview}, PreviewPairChanges(pair) PROVE PreviewInv'
  <1>1. [dpPage EXCEPT !.pair = pair] \in PreviewPages
    BY DEF PreviewInv, PreviewTyped, PreviewPages
  <1> QED BY <1>1, EffectKeeps DEF PreviewPairChanges

LEMMA PreviewUsbKeeps == ASSUME PreviewInv, PreviewUsbChanges PROVE PreviewInv'
  <1>1. [dpPage EXCEPT !.usb = ~dpPage.usb] \in PreviewPages
    BY DEF PreviewInv, PreviewTyped, PreviewPages
  <1> QED BY <1>1, EffectKeeps DEF PreviewUsbChanges

LEMMA RetryAudioKeeps == ASSUME PreviewInv, RetryAudio PROVE PreviewInv'
  BY EffectKeeps DEF PreviewInv, PreviewTyped, RetryAudio

\* A run whose own loads are not aborted ends aborted only through a load it has joined.
LEMMA OnlyJoinedAbort ==
  ASSUME NEW run \in RunRecords, NEW r, NEW loads, RunOutcome(run, loads) = "aborted",
         \A k \in PairKeys(run.pair) : run.from[k] = r => loads[<<r, k>>] # "aborted"
  PROVE  Joined(run, r)
  <1>1. PICK k \in PairKeys(run.pair) :
           (IF run.from[k] = Cached THEN "ok" ELSE loads[<<run.from[k], k>>]) = "aborted"
    BY DEF RunOutcome
  <1>2. run.from[k] # Cached /\ loads[<<run.from[k], k>>] = "aborted"
    BY <1>1
  <1> QED BY <1>2 DEF Joined

LEMMA LoadStepKeeps ==
  ASSUME PreviewInv, NEW l \in DOMAIN dpLoad, PreviewLoadStep(l) PROVE PreviewInv'
  <1>1. PICK stage \in IF dpRun[l[1]].aborted
                       THEN {"aborted"} \cup (IF dpLoad[l] = "resolving" THEN {} ELSE {"failed"})
                       ELSE {NextStage(dpLoad[l]), "failed"} :
           LET loads == [dpLoad EXCEPT ![l] = stage]
               ending == {r \in DOMAIN dpRun : ~dpRun[r].settled /\ RunOutcome(dpRun[r], loads) # "open"}
               heard == {r \in ending : Heeds(r)}
           IN /\ dpLoad' = loads
              /\ dpCache' = IF stage \in LiveLoads THEN dpCache ELSE LoadEnded(l, stage)
              /\ dpRun' = [r \in DOMAIN dpRun |-> [dpRun[r] EXCEPT !.settled = @ \/ r \in ending]]
              /\ dpPage' \in IF heard = {} THEN {dpPage}
                             ELSE {PairAnswered(dpPage, dpRun[r], RunOutcome(dpRun[r], loads)) : r \in heard}
    BY DEF PreviewLoadStep
  <1> DEFINE loads == [dpLoad EXCEPT ![l] = stage]
             ending == {r \in DOMAIN dpRun : ~dpRun[r].settled /\ RunOutcome(dpRun[r], loads) # "open"}
             heard == {r \in ending : Heeds(r)}
             answered(r) == [dpRun[r] EXCEPT !.settled = @ \/ r \in ending]
  <1>2. /\ dpLoad \in LoadsTyped /\ dpPage \in PreviewPages /\ dpRun \in Seq(RunRecords)
        /\ dpCache.pending \in Joinable /\ LoadsServe(dpRun, dpLoad, dpCache.pending)
        /\ PlaysOwn(dpPage) /\ RunServes(dpPage, dpRun) /\ Len(dpRun) \in Nat /\ DOMAIN dpRun = 1 .. Len(dpRun)
    BY LenProperties DEF PreviewInv, PreviewTyped
  <1>3. l \in PreviewRuns \X PreviewTracks /\ dpLoad[l] \in LiveLoads /\ l[1] \in 1 .. Len(dpRun)
    BY <1>2 DEF PreviewLoadStep, LoadsTyped, LiveLoads, LoadsServe
  <1>4. stage \in LoadStages \ {"none"} /\ (stage = "aborted" => dpRun[l[1]].aborted)
    BY <1>1, <1>3 DEF NextStage, LoadStages, LiveLoads
  <1>5. loads \in LoadsTyped /\ loads[l] = stage /\ \A m \in PreviewRuns \X PreviewTracks : m # l => loads[m] = dpLoad[m]
    BY <1>2, <1>3, <1>4 DEF LoadsTyped
  <1>6. \A r \in 1 .. Len(dpRun) :
          /\ dpRun[r] \in RunRecords /\ answered(r) \in RunRecords /\ answered(r).pair = dpRun[r].pair
          /\ answered(r).from = dpRun[r].from /\ answered(r).aborted = dpRun[r].aborted
          /\ (answered(r).settled <=> dpRun[r].settled \/ r \in ending)
    <2> TAKE r \in 1 .. Len(dpRun)
    <2>1. dpRun[r] \in RunRecords
      BY <1>2, ElementOfSeq
    <2> HIDE DEF ending
    <2> QED BY <2>1 DEF RunRecords
  <1>7. dpLoad' = loads /\ (dpCache' = IF stage \in LiveLoads THEN dpCache ELSE LoadEnded(l, stage))
    BY <1>1
  <1>8. dpRun' = [r \in 1 .. Len(dpRun) |-> answered(r)]
    <2>1. dpRun' = [r \in DOMAIN dpRun |-> answered(r)]
      BY <1>1
    <2> QED BY <1>2, <2>1
  <1>9. dpPage' \in IF heard = {} THEN {dpPage}
                    ELSE {PairAnswered(dpPage, dpRun[r], RunOutcome(dpRun[r], loads)) : r \in heard}
    BY <1>1
  <1>10. \A r \in ending : r \in 1 .. Len(dpRun) /\ ~dpRun[r].settled /\ RunOutcome(dpRun[r], loads) # "open"
    BY <1>2
  <1>11. \A r \in heard : r \in ending /\ r = dpPage.run
    BY DEF Heeds
  <1>12. dpPage.run \in ending => dpPage.run \in heard
    BY DEF Heeds
  <1> HIDE DEF loads, heard, ending
  <1>13. dpRun' \in Seq(RunRecords) /\ Len(dpRun') = Len(dpRun)
    <2>1. [r \in 1 .. Len(dpRun) |-> answered(r)] \in Seq(RunRecords)
      <3> HIDE DEF answered
      <3> QED BY <1>2, <1>6, IsASeq
    <2> QED BY <1>2, <1>8, <2>1, LenProperties
  <1>14. \A r \in 1 .. Len(dpRun) :
           /\ dpRun'[r].pair = dpRun[r].pair /\ dpRun'[r].from = dpRun[r].from /\ dpRun'[r].aborted = dpRun[r].aborted
           /\ (dpRun'[r].settled <=> dpRun[r].settled \/ r \in ending)
    <2> HIDE DEF answered
    <2> QED BY <1>6, <1>8
  <1>15. /\ dpCache'.pending \in Joinable /\ dpCache' = [values |-> dpCache'.values, pending |-> dpCache'.pending]
         /\ \A k \in PreviewTracks : dpCache'.pending[k] # NoPreviewRun =>
              dpCache'.pending[k] = dpCache.pending[k] /\ (<<dpCache.pending[k], k>> = l => stage \in LiveLoads)
    <2>1. dpCache = [values |-> dpCache.values, pending |-> dpCache.pending]
      BY DEF PreviewInv, PreviewTyped
    <2>2. CASE stage \in LiveLoads
      BY <1>2, <1>7, <2>1, <2>2
    <2>3. CASE stage \notin LiveLoads /\ dpCache.pending[l[2]] # l[1]
      <3>1. dpCache' = dpCache
        BY <1>7, <2>3 DEF LoadEnded
      <3>2. \A k \in PreviewTracks : <<dpCache.pending[k], k>> # l
        BY <1>3, <2>3
      <3> QED BY <1>2, <2>1, <3>1, <3>2
    <2>4. CASE stage \notin LiveLoads /\ dpCache.pending[l[2]] = l[1]
      <3> DEFINE pending == [dpCache.pending EXCEPT ![l[2]] = NoPreviewRun]
                 values == IF stage = "ok" THEN CacheStored(dpCache.values, l[2]) ELSE dpCache.values
      <3>1. dpCache' = [dpCache EXCEPT !.pending = pending, !.values = values]
        BY <1>7, <2>4 DEF LoadEnded
      <3>2. pending \in Joinable /\ pending[l[2]] = NoPreviewRun /\ \A k \in PreviewTracks : k # l[2] => pending[k] = dpCache.pending[k]
        BY <1>2, <1>3 DEF Joinable
      <3> HIDE DEF pending, values
      <3>3. dpCache'.pending = pending /\ dpCache' = [values |-> dpCache'.values, pending |-> dpCache'.pending]
        BY <2>1, <3>1
      <3>4. \A k \in PreviewTracks : k # l[2] => <<dpCache.pending[k], k>> # l
        BY <1>3
      <3> QED BY <3>2, <3>3, <3>4
    <2> QED BY <2>2, <2>3, <2>4
  <1>16. LoadsServe(dpRun', dpLoad', dpCache'.pending)
    <2>1. ASSUME NEW m \in PreviewRuns \X PreviewTracks
          PROVE  /\ loads[m] # "none" => m[1] \in 1 .. Len(dpRun')
                 /\ loads[m] = "aborted" => dpRun'[m[1]].aborted
      <3>1. CASE m = l
        BY <1>3, <1>4, <1>5, <1>13, <1>14, <3>1
      <3>2. CASE m # l
        <4>1. loads[m] = dpLoad[m]
          BY <1>5, <3>2
        <4>2. dpLoad[m] = "aborted" => dpLoad[m] # "none"
          OBVIOUS
        <4> QED BY <1>2, <1>13, <1>14, <4>1, <4>2 DEF LoadsServe
      <3> QED BY <3>1, <3>2
    <2>2. ASSUME NEW k \in PreviewTracks, dpCache'.pending[k] # NoPreviewRun
          PROVE  loads[<<dpCache'.pending[k], k>>] \in LiveLoads
      <3>1. dpCache'.pending[k] = dpCache.pending[k] /\ dpCache.pending[k] \in PreviewRuns
        BY <1>2, <1>15, <2>2 DEF Joinable
      <3>2. <<dpCache.pending[k], k>> \in PreviewRuns \X PreviewTracks
        BY <3>1
      <3> QED BY <1>2, <1>5, <1>15, <2>2, <3>1, <3>2 DEF LoadsServe
    <2> QED BY <1>7, <2>1, <2>2 DEF LoadsServe
  <1>17. CASE dpPage' = dpPage /\ dpPage.run \notin ending
    <2>1. dpPage.run # NoPreviewRun =>
            /\ dpPage.run \in 1 .. Len(dpRun) /\ dpRun'[dpPage.run].pair = dpRun[dpPage.run].pair
            /\ dpRun'[dpPage.run].from = dpRun[dpPage.run].from
            /\ dpRun'[dpPage.run].aborted = dpRun[dpPage.run].aborted
            /\ dpRun'[dpPage.run].settled <=> dpRun[dpPage.run].settled
      BY <1>2, <1>14, <1>17 DEF RunServes, NoPreviewRun
    <2>2. RunServes(dpPage', dpRun')
      BY <1>2, <1>13, <1>17, <2>1 DEF RunServes, Joined
    <2>3. PreviewTyped'
      BY <1>2, <1>5, <1>7, <1>13, <1>15, <1>17 DEF PreviewInv, PreviewTyped
    <2> QED BY <1>2, <1>16, <1>17, <2>2, <2>3 DEF PreviewInv
  <1>18. CASE dpPage.run \in heard /\ dpPage' = PairAnswered(dpPage, dpRun[dpPage.run], RunOutcome(dpRun[dpPage.run], loads))
    <2> DEFINE r == dpPage.run
               outcome == RunOutcome(dpRun[r], loads)
    <2>1. r \in ending /\ r \in 1 .. Len(dpRun) /\ ~dpRun[r].settled /\ outcome # "open"
      BY <1>10, <1>11, <1>18
    <2>2. outcome \in {"ready", "failed", "aborted"}
      BY <2>1 DEF RunOutcome
    <2>3. dpRun[r].pair = dpPage.pair /\ dpPage.status = "loading" /\ ~dpRun[r].aborted /\ dpPage.nodes = NoPreview
      BY <1>2, <2>1 DEF RunServes, PlaysOwn, NoPreviewRun
    <2>4. dpRun[r] \in RunRecords
      BY <1>6, <2>1
    <2>5. dpPage' = PairAnswered(dpPage, dpRun[r], outcome)
      BY <1>18
    <2>6. outcome = "aborted" => Joined(dpRun[r], r)
      <3>1. \A k \in PreviewTracks : loads[<<r, k>>] # "aborted"
        <4> TAKE k \in PreviewTracks
        <4>1. <<r, k>> \in PreviewRuns \X PreviewTracks
          BY <2>1, PreviewConstants DEF PreviewInv, PreviewTyped, PreviewRuns
        <4> QED BY <1>7, <1>14, <1>16, <2>1, <2>3, <4>1 DEF LoadsServe
      <3>2. PairKeys(dpRun[r].pair) \subseteq PreviewTracks
        BY <2>4, PreviewConstants DEF RunRecords
      <3> QED BY <2>4, <3>1, <3>2, OnlyJoinedAbort
    <2> HIDE DEF outcome, r
    <2>7. /\ dpPage' \in PreviewPages /\ dpPage'.pair = dpPage.pair /\ dpPage'.run = dpPage.run
          /\ dpPage'.nodes = NoPreview /\ dpPage'.decoded \in {NoPreview, dpPage.pair}
          /\ dpPage'.status = "loading" => outcome = "aborted"
      <3>1. CASE outcome = "ready"
        <4>1. dpPage' = [dpPage EXCEPT !.status = "ready", !.decoded = dpRun[r].pair]
          BY <2>5, <3>1 DEF PairAnswered
        <4> QED BY <1>2, <2>3, <2>4, <4>1 DEF PreviewPages, PreviewStatuses, RunRecords
      <3>2. CASE outcome = "failed"
        <4>1. dpPage' = [dpPage EXCEPT !.status = "error", !.decoded = NoPreview]
          BY <2>5, <3>2 DEF PairAnswered
        <4> QED BY <1>2, <2>3, <4>1 DEF PreviewPages, PreviewStatuses
      <3>3. CASE outcome = "aborted"
        <4>1. dpPage' = dpPage
          BY <2>5, <3>3 DEF PairAnswered
        <4> QED BY <1>2, <2>3, <3>3, <4>1 DEF PlaysOwn
      <3> QED BY <2>2, <3>1, <3>2, <3>3
    <2>8. dpRun'[r].settled /\ dpRun'[r].pair = dpPage.pair /\ dpRun'[r].from = dpRun[r].from
      BY <1>14, <2>1, <2>3
    <2>9. RunServes(dpPage', dpRun')
      BY <1>13, <2>1, <2>3, <2>6, <2>7, <2>8 DEF RunServes, Joined, NoPreviewRun, r
    <2>10. PreviewTyped'
      BY <1>2, <1>5, <1>7, <1>13, <1>15, <2>7 DEF PreviewInv, PreviewTyped
    <2>11. PlaysOwn(dpPage')
      BY <2>7 DEF PlaysOwn
    <2> QED BY <1>16, <2>9, <2>10, <2>11 DEF PreviewInv
  <1>19. CASE heard = {}
    BY <1>12, <1>17, <1>19, <1>9
  <1>20. CASE heard # {}
    <2>1. PICK r \in heard : dpPage' = PairAnswered(dpPage, dpRun[r], RunOutcome(dpRun[r], loads))
      BY <1>20, <1>9
    <2> QED BY <1>11, <1>18, <2>1
  <1> QED BY <1>19, <1>20

LEMMA TimeoutKeeps == ASSUME PreviewInv, PreviewTimeout PROVE PreviewInv'
  <1> DEFINE r == dpPage.run
             over == [dpRun[r] EXCEPT !.aborted = TRUE, !.settled = TRUE]
  <1>1. r \in 1 .. Len(dpRun) /\ Len(dpRun) \in Nat /\ dpRun[r] \in RunRecords
    BY LenProperties, ElementOfSeq DEF PreviewTimeout, PreviewInv, PreviewTyped, RunServes, NoPreviewRun
  <1>2. over \in RunRecords /\ over.pair = dpRun[r].pair /\ over.settled /\ over.aborted
    BY <1>1 DEF RunRecords
  <1>3. dpRun' = [dpRun EXCEPT ![r] = over]
    BY DEF PreviewTimeout
  <1>4. dpPage \in PreviewPages /\ dpRun[r].pair = dpPage.pair /\ dpPage.nodes = NoPreview
    BY <1>1 DEF PreviewTimeout, PreviewInv, PreviewTyped, RunServes, PlaysOwn, NoPreviewRun
  <1>5. dpPage' \in PreviewPages /\ dpPage'.pair = dpPage.pair /\ dpPage'.run = r /\ dpPage'.nodes = NoPreview
        /\ dpPage'.decoded = NoPreview /\ dpPage'.status = "error"
    BY <1>4 DEF PreviewTimeout, PreviewExpired, PreviewPages, PreviewStatuses
  <1> HIDE DEF over, r
  <1>6. dpRun' \in Seq(RunRecords) /\ Len(dpRun') = Len(dpRun) /\ dpRun'[r] = over
        /\ \A q \in 1 .. Len(dpRun) : dpRun[q].aborted => dpRun'[q].aborted
    BY <1>1, <1>2, <1>3, ExceptSeq DEF PreviewInv, PreviewTyped
  <1>7. PreviewTyped'
    BY <1>5, <1>6 DEF PreviewTimeout, PreviewInv, PreviewTyped
  <1>8. PlaysOwn(dpPage') /\ RunServes(dpPage', dpRun')
    BY <1>1, <1>2, <1>4, <1>5, <1>6 DEF PlaysOwn, RunServes, NoPreviewRun
  <1>9. LoadsServe(dpRun, dpLoad, dpCache.pending)'
    BY <1>6 DEF PreviewTimeout, PreviewInv, LoadsServe
  <1> QED BY <1>7, <1>8, <1>9 DEF PreviewInv

\* Steps that concern the page alone, once no run is under way for it.
LEMMA OnPageKeeps ==
  ASSUME PreviewInv, UNCHANGED <<dpRun, dpLoad, dpCache>>, dpPage.status # "loading", dpPage' \in PreviewPages,
         dpPage'.pair = dpPage.pair, dpPage'.run = dpPage.run, dpPage'.decoded = dpPage.decoded,
         dpPage'.nodes \in {NoPreview, dpPage.pair}, dpPage'.nodes # NoPreview => dpPage'.status = "playing",
         dpPage'.status # "loading"
  PROVE  PreviewInv'
  <1>1. PlaysOwn(dpPage')
    BY DEF PreviewInv, PlaysOwn
  <1>2. RunServes(dpPage', dpRun')
    BY DEF PreviewInv, RunServes
  <1>3. LoadsServe(dpRun, dpLoad, dpCache.pending)'
    BY DEF PreviewInv, LoadsServe
  <1> QED BY <1>1, <1>2, <1>3 DEF PreviewInv, PreviewTyped

LEMMA PlayOrStopKeeps == ASSUME PreviewInv, PreviewPlayOrStop PROVE PreviewInv'
  <1>1. dpPage \in PreviewPages /\ dpPage.decoded \in {NoPreview, dpPage.pair}
        /\ (dpPage.nodes # NoPreview => dpPage.status = "playing")
    BY DEF PreviewInv, PreviewTyped, PlaysOwn
  <1>2. CASE dpPage.status = "playing" /\ dpPage' = PreviewSilent(dpPage)
    BY <1>1, <1>2, SilentPage, OnPageKeeps DEF PreviewPlayOrStop
  <1>3. CASE dpPage.status = "ready" /\ dpPage.decoded # NoPreview
             /\ dpPage' = [dpPage EXCEPT !.nodes = dpPage.decoded, !.status = "playing"]
    <2>1. dpPage' \in PreviewPages /\ dpPage'.pair = dpPage.pair /\ dpPage'.run = dpPage.run
          /\ dpPage'.decoded = dpPage.decoded /\ dpPage'.nodes = dpPage.pair /\ dpPage'.status = "playing"
      BY <1>1, <1>3 DEF PreviewPages, PreviewStatuses
    <2> QED BY <1>3, <2>1, OnPageKeeps DEF PreviewPlayOrStop
  <1>4. CASE dpPage.status = "ready" /\ dpPage' = [dpPage EXCEPT !.status = "error"]
    <2>1. dpPage' \in PreviewPages /\ dpPage'.pair = dpPage.pair /\ dpPage'.run = dpPage.run
          /\ dpPage'.decoded = dpPage.decoded /\ dpPage'.nodes = NoPreview /\ dpPage'.status = "error"
      BY <1>1, <1>4 DEF PreviewPages, PreviewStatuses
    <2> QED BY <1>4, <2>1, OnPageKeeps DEF PreviewPlayOrStop
  <1> QED BY <1>2, <1>3, <1>4 DEF PreviewPlayOrStop

LEMMA PlayEndKeeps == ASSUME PreviewInv, PreviewPlayEnds PROVE PreviewInv'
  <1>1. dpPage \in PreviewPages /\ dpPage.status = "playing"
    BY DEF PreviewInv, PreviewTyped, PlaysOwn, PreviewPlayEnds
  <1>2. dpPage' \in PreviewPages /\ dpPage'.pair = dpPage.pair /\ dpPage'.run = dpPage.run
        /\ dpPage'.decoded = dpPage.decoded /\ dpPage'.nodes = NoPreview /\ dpPage'.status = "ready"
    BY <1>1 DEF PreviewPlayEnds, PreviewPages, PreviewStatuses
  <1> QED BY <1>1, <1>2, OnPageKeeps DEF PreviewPlayEnds

LEMMA PreviewStopKeeps ==
  ASSUME PreviewInv, NEW pair \in PreviewPairs \cup {NoPreview}, PreviewStops(pair) PROVE PreviewInv'
  <1>1. /\ dpPage' = [PreviewSilent(dpPage) EXCEPT !.pair = pair, !.run = NoPreviewRun, !.status = "idle",
                                                   !.decoded = NoPreview]
        /\ dpRun' = RunsAborted(dpRun) /\ dpCache' = CacheCleared /\ UNCHANGED dpLoad
    BY DEF PreviewStops
  <1>2. PreviewSilent(dpPage) \in PreviewPages /\ PreviewSilent(dpPage).nodes = NoPreview
    BY SilentPage DEF PreviewInv, PreviewTyped
  <1>3. dpPage' \in PreviewPages /\ dpPage'.nodes = NoPreview /\ dpPage'.decoded = NoPreview
        /\ dpPage'.run = NoPreviewRun /\ dpPage'.status = "idle"
    BY <1>1, <1>2 DEF PreviewPages, PreviewStatuses
  <1>4. dpRun' \in Seq(RunRecords) /\ Len(dpRun') = Len(dpRun) /\ Len(dpRun) \in Nat
        /\ \A r \in 1 .. Len(dpRun) : dpRun[r].aborted => dpRun'[r].aborted
    BY <1>1, AbortedRuns, LenProperties DEF PreviewInv, PreviewTyped
  <1>5. dpCache' = [values |-> dpCache'.values, pending |-> dpCache'.pending] /\ dpCache'.pending \in Joinable
        /\ \A k \in PreviewTracks : dpCache'.pending[k] = NoPreviewRun
    BY <1>1 DEF CacheCleared, Joinable
  <1>6. PreviewTyped'
    BY <1>1, <1>3, <1>4, <1>5 DEF PreviewInv, PreviewTyped
  <1>7. PlaysOwn(dpPage') /\ RunServes(dpPage', dpRun')
    BY <1>3, <1>4 DEF PlaysOwn, RunServes, NoPreviewRun
  <1>8. LoadsServe(dpRun', dpLoad', dpCache'.pending)
    BY <1>1, <1>4, <1>5 DEF PreviewInv, LoadsServe
  <1> QED BY <1>6, <1>7, <1>8 DEF PreviewInv

LEMMA PreviewInitInv == PreviewInit => PreviewInv
  <1> SUFFICES ASSUME PreviewInit PROVE PreviewInv
    OBVIOUS
  <1>1. dpPage \in PreviewPages /\ dpPage.run = NoPreviewRun /\ dpPage.status = "idle" /\ dpPage.decoded = NoPreview
        /\ dpPage.nodes = NoPreview
    BY DEF PreviewInit, PreviewPages, PreviewStatuses
  <1>2. dpRun = << >> /\ dpRun \in Seq(RunRecords) /\ Len(dpRun) = 0
    BY EmptySeq DEF PreviewInit
  <1>3. dpLoad \in LoadsTyped /\ \A l \in PreviewRuns \X PreviewTracks : dpLoad[l] = "none"
    BY DEF PreviewInit, LoadsTyped, LoadStages
  <1>4. dpCache = [values |-> dpCache.values, pending |-> dpCache.pending] /\ dpCache.pending \in Joinable
        /\ \A k \in PreviewTracks : dpCache.pending[k] = NoPreviewRun
    BY DEF PreviewInit, Joinable
  <1>5. PreviewTyped
    BY <1>1, <1>2, <1>3, <1>4, PreviewConstants DEF PreviewTyped
  <1>6. PlaysOwn(dpPage) /\ RunServes(dpPage, dpRun)
    BY <1>1, <1>2 DEF PlaysOwn, RunServes, NoPreviewRun
  <1>7. LoadsServe(dpRun, dpLoad, dpCache.pending)
    BY <1>3, <1>4 DEF LoadsServe
  <1> QED BY <1>5, <1>6, <1>7 DEF PreviewInv

LEMMA PreviewStepInv == PreviewInv /\ [PreviewNext]_previewVars => PreviewInv'
  <1> SUFFICES ASSUME PreviewInv, [PreviewNext]_previewVars PROVE PreviewInv'
    OBVIOUS
  <1>1. CASE UNCHANGED previewVars
    BY <1>1 DEF previewVars, PreviewInv, PreviewTyped, PlaysOwn, RunServes, LoadsServe
  <1>2. CASE \E pair \in PreviewPairs \cup {NoPreview} : PreviewPairChanges(pair)
    BY <1>2, PairChangeKeeps
  <1>3. CASE PreviewUsbChanges \/ RetryAudio \/ PreviewTimeout \/ PreviewPlayOrStop \/ PreviewPlayEnds
    BY <1>3, PreviewUsbKeeps, RetryAudioKeeps, TimeoutKeeps, PlayOrStopKeeps, PlayEndKeeps
  <1>4. CASE \E l \in DOMAIN dpLoad : PreviewLoadStep(l)
    BY <1>4, LoadStepKeeps
  <1>5. CASE PreviewUsbStops \/ PreviewLeft
    <2>1. dpPage.pair \in PreviewPairs \cup {NoPreview}
      BY DEF PreviewInv, PreviewTyped, PreviewPages
    <2> QED BY <1>5, <2>1, PreviewStopKeeps DEF PreviewUsbStops, PreviewLeft
  <1> QED BY <1>1, <1>2, <1>3, <1>4, <1>5 DEF PreviewNext

LEMMA PreviewInvMeans == PreviewInv => PreviewIsOwn /\ PreviewEnds
  <1> SUFFICES ASSUME PreviewInv PROVE PreviewIsOwn /\ PreviewEnds
    OBVIOUS
  <1>1. PreviewIsOwn
    BY DEF PreviewInv, PlaysOwn, RunServes, PreviewIsOwn
  <1>2. dpPage.status = "loading" =>
          dpPage.run # NoPreviewRun /\ (~dpRun[dpPage.run].settled \/ Joined(dpRun[dpPage.run], dpPage.run))
            /\ dpRun[dpPage.run].pair = dpPage.pair
    BY DEF PreviewInv, RunServes
  <1>3. PreviewEnds
    BY <1>2 DEF PreviewInv, LoadsServe, PreviewEnds, Joined
  <1> QED BY <1>1, <1>3

\* The cache holds tracks, and at most as many as it may.
CacheHolds(values) == values \in Seq(PreviewTracks) /\ Len(values) <= MaxCached

PreviewRest == CacheHolds(dpCache.values)

\* Taking a buffer out that is there shortens the sequence by one.
LEMMA WithoutIsShorter ==
  ASSUME NEW values \in Seq(PreviewTracks), NEW k \in Range(values)
  PROVE  CacheWithout(values, k) \in Seq(PreviewTracks) /\ Len(CacheWithout(values, k)) = Len(values) - 1
  <1> DEFINE n == Len(values)
             at == CHOOSE i \in DOMAIN values : values[i] = k
             before == SubSeq(values, 1, at - 1)
             after == SubSeq(values, at + 1, n)
  <1>1. n \in Nat /\ DOMAIN values = 1 .. n /\ \A i \in 1 .. n : values[i] \in PreviewTracks
    BY LenProperties, ElementOfSeq
  <1>2. \E i \in DOMAIN values : values[i] = k
    BY DEF Range
  <1>3. at \in 1 .. n
    BY <1>1, <1>2
  <1>4. CacheWithout(values, k) = before \o after
    BY DEF CacheWithout, RemoveAt
  <1> HIDE DEF n, at
  <1>5. before \in Seq(PreviewTracks) /\ Len(before) = at - 1
    <2>1. 1 \in Int /\ at - 1 \in Int /\ \A i \in 1 .. at - 1 : values[i] \in PreviewTracks
      BY <1>1, <1>3
    <2>2. /\ before \in Seq(PreviewTracks)
          /\ Len(before) = IF 1 <= at - 1 THEN at - 1 - 1 + 1 ELSE 0
      BY <2>1, SubSeqProperties
    <2> QED BY <1>3, <1>1, <2>2
  <1>6. after \in Seq(PreviewTracks) /\ Len(after) = n - at
    <2>1. at + 1 \in Int /\ n \in Int /\ \A i \in at + 1 .. n : values[i] \in PreviewTracks
      BY <1>1, <1>3
    <2>2. /\ after \in Seq(PreviewTracks)
          /\ Len(after) = IF at + 1 <= n THEN n - (at + 1) + 1 ELSE 0
      BY <2>1, SubSeqProperties
    <2> QED BY <1>3, <1>1, <2>2
  <1> HIDE DEF before, after
  <1>7. before \o after \in Seq(PreviewTracks) /\ Len(before \o after) = n - 1
    <2>1. before \o after \in Seq(PreviewTracks) /\ Len(before \o after) = Len(before) + Len(after)
      BY <1>5, <1>6, ConcatProperties
    <2> QED BY <1>1, <1>3, <1>5, <1>6, <2>1
  <1> QED BY <1>4, <1>7 DEF n

\* What is found moves to the end, and what is new makes the sequence longer by one.
LEMMA TouchedLength ==
  ASSUME NEW values \in Seq(PreviewTracks), NEW k \in PreviewTracks
  PROVE  /\ CacheTouched(values, k) \in Seq(PreviewTracks) /\ CacheTouched(values, k) # << >>
         /\ Len(CacheTouched(values, k)) = IF k \in Range(values) THEN Len(values) ELSE Len(values) + 1
  <1> DEFINE rest == CacheWithout(values, k)
  <1>1. Len(values) \in Nat
    BY LenProperties
  <1>2. rest \in Seq(PreviewTracks) /\ Len(rest) = IF k \in Range(values) THEN Len(values) - 1 ELSE Len(values)
    <2>1. CASE k \in Range(values)
      BY <2>1, WithoutIsShorter
    <2>2. CASE k \notin Range(values)
      BY <2>2 DEF CacheWithout
    <2> QED BY <2>1, <2>2
  <1>3. CacheTouched(values, k) = Append(rest, k)
    BY DEF CacheTouched
  <1> HIDE DEF rest
  <1> QED BY <1>1, <1>2, <1>3, AppendProperties

\* A look into the cache keeps what it holds, and so does a buffer stored: the oldest
\* goes when there is no room.
LEMMA GotHolds ==
  ASSUME NEW values, CacheHolds(values), NEW k \in PreviewTracks
  PROVE  CacheHolds(CacheGot(values, k))
  BY TouchedLength DEF CacheHolds, CacheGot

LEMMA StoredHolds ==
  ASSUME NEW values, CacheHolds(values), NEW k \in PreviewTracks
  PROVE  CacheHolds(CacheStored(values, k))
  <1> DEFINE all == CacheTouched(values, k)
  <1>1. MaxCached \in Nat /\ Len(values) \in Nat /\ Len(values) <= MaxCached
    BY PreviewAssumption, LenProperties DEF CacheHolds
  <1>2. all \in Seq(PreviewTracks) /\ all # << >> /\ (Len(all) = Len(values) \/ Len(all) = Len(values) + 1)
    BY TouchedLength DEF CacheHolds
  <1>3. CacheStored(values, k) = IF Len(all) > MaxCached THEN Tail(all) ELSE all
    BY DEF CacheStored
  <1> HIDE DEF all
  <1>4. CASE Len(all) > MaxCached
    <2>1. Tail(all) \in Seq(PreviewTracks) /\ Len(Tail(all)) = Len(all) - 1
      BY <1>2, HeadTailProperties
    <2>2. Len(Tail(all)) <= MaxCached
      <3> DEFINE n == Len(all)
                 m == Len(Tail(all))
                 old == Len(values)
      <3>1. MaxCached \in Nat /\ old \in Nat /\ old <= MaxCached /\ (n = old \/ n = old + 1) /\ m = n - 1
        BY <1>1, <1>2, <2>1
      <3> HIDE DEF n, m, old
      <3>2. m <= MaxCached
        BY <3>1
      <3> QED BY <3>2 DEF m
    <2> QED BY <1>3, <1>4, <2>1, <2>2 DEF CacheHolds
  <1>5. CASE ~(Len(all) > MaxCached)
    <2>1. Len(all) <= MaxCached
      BY <1>1, <1>2, <1>5
    <2> QED BY <1>2, <1>3, <1>5, <2>1 DEF CacheHolds
  <1> QED BY <1>4, <1>5

\* The effect looks up the two tracks of the pair.
LEMMA EffectHolds ==
  ASSUME PreviewInv, PreviewRest, NEW page, page.pair \in PreviewPairs \cup {NoPreview}, LoadEffect(page)
  PROVE  PreviewRest'
  <1>1. CASE UNCHANGED dpCache
    BY <1>1 DEF PreviewRest
  <1>2. CASE page.pair \in PreviewPairs
    <2> DEFINE values == CacheGot(CacheGot(dpCache.values, page.pair[1]), page.pair[2])
    <2>1. CASE ~page.usb
      BY <1>1, <1>2, <2>1, PreviewConstants DEF LoadEffect
    <2>2. CASE page.usb
      <3>1. page.pair # NoPreview
        BY <1>2, PreviewConstants
      <3>2. PICK pending : dpCache' = [dpCache EXCEPT !.values = values, !.pending = pending]
        BY <2>2, <3>1 DEF LoadEffect
      <3>3. dpCache = [values |-> dpCache.values, pending |-> dpCache.pending]
        BY DEF PreviewInv, PreviewTyped
      <3> HIDE DEF values
      <3>4. dpCache'.values = values
        BY <3>2, <3>3
      <3>5. page.pair[1] \in PreviewTracks /\ page.pair[2] \in PreviewTracks
        BY <1>2, PreviewConstants DEF PairKeys
      <3>6. CacheHolds(values)
        BY <3>5, GotHolds DEF values, PreviewRest
      <3> QED BY <3>4, <3>6 DEF PreviewRest
    <2> QED BY <2>1, <2>2
  <1>3. CASE page.pair = NoPreview
    BY <1>1, <1>3 DEF LoadEffect
  <1> QED BY <1>2, <1>3

LEMMA PreviewRestKept ==
  ASSUME PreviewInv, PreviewRest, [PreviewNext]_previewVars
  PROVE  PreviewRest'
  <1>1. dpPage \in PreviewPages /\ dpCache = [values |-> dpCache.values, pending |-> dpCache.pending]
    BY DEF PreviewInv, PreviewTyped
  <1>2. CASE UNCHANGED dpCache
    BY <1>2 DEF PreviewRest
  <1>3. CASE \E pair \in PreviewPairs \cup {NoPreview} : PreviewPairChanges(pair)
    <2>1. PICK pair \in PreviewPairs \cup {NoPreview} : LoadEffect([dpPage EXCEPT !.pair = pair])
      BY <1>3 DEF PreviewPairChanges
    <2> DEFINE page == [dpPage EXCEPT !.pair = pair]
    <2>2. page.pair = pair /\ LoadEffect(page)
      BY <1>1, <2>1 DEF PreviewPages
    <2> HIDE DEF page
    <2> QED BY <2>2, EffectHolds
  <1>4. CASE PreviewUsbChanges
    <2> DEFINE page == [dpPage EXCEPT !.usb = ~@]
    <2>1. page.pair \in PreviewPairs \cup {NoPreview} /\ LoadEffect(page)
      BY <1>1, <1>4 DEF PreviewPages, PreviewUsbChanges
    <2> HIDE DEF page
    <2> QED BY <2>1, EffectHolds
  <1>5. CASE RetryAudio
    BY <1>1, <1>5, EffectHolds DEF PreviewPages, RetryAudio
  <1>6. CASE \E l \in DOMAIN dpLoad : PreviewLoadStep(l)
    <2>1. PICK l \in PreviewRuns \X PreviewTracks : PreviewLoadStep(l)
      BY <1>6 DEF PreviewInv, PreviewTyped, LoadsTyped
    <2>2. PICK stage : dpCache' = IF stage \in LiveLoads THEN dpCache ELSE LoadEnded(l, stage)
      BY <2>1 DEF PreviewLoadStep
    <2>3. CASE dpCache' = dpCache
      BY <2>3 DEF PreviewRest
    <2>4. CASE dpCache' = LoadEnded(l, stage) /\ dpCache.pending[l[2]] = l[1]
      <3> DEFINE pending == [dpCache.pending EXCEPT ![l[2]] = NoPreviewRun]
                 values == IF stage = "ok" THEN CacheStored(dpCache.values, l[2]) ELSE dpCache.values
      <3>1. dpCache' = [dpCache EXCEPT !.pending = pending, !.values = values]
        BY <2>4 DEF LoadEnded
      <3>2. CacheHolds(values)
        BY <2>1, StoredHolds DEF PreviewRest
      <3> HIDE DEF pending, values
      <3> QED BY <1>1, <3>1, <3>2 DEF PreviewRest
    <2> QED BY <2>2, <2>3, <2>4 DEF LoadEnded
  <1>7. CASE PreviewUsbStops \/ PreviewLeft
    <2>1. dpCache' = CacheCleared
      BY <1>7 DEF PreviewUsbStops, PreviewLeft, PreviewStops
    <2>2. dpCache'.values = << >>
      BY <2>1 DEF CacheCleared
    <2> QED BY <2>2, EmptySeq, PreviewAssumption DEF PreviewRest, CacheHolds
  <1>8. CASE PreviewTimeout \/ PreviewPlayOrStop \/ PreviewPlayEnds \/ UNCHANGED previewVars
    BY <1>2, <1>8 DEF PreviewTimeout, PreviewPlayOrStop, PreviewPlayEnds, previewVars
  <1> QED BY <1>3, <1>4, <1>5, <1>6, <1>7, <1>8 DEF PreviewNext

LEMMA PreviewTypesAre ==
  /\ PreviewInit => PreviewRest
  /\ PreviewInv /\ PreviewRest => PreviewTypeOK
  <1>1. ASSUME PreviewInit PROVE PreviewRest
    BY <1>1, EmptySeq, PreviewAssumption DEF PreviewInit, PreviewRest, CacheHolds
  <1>2. ASSUME PreviewInv, PreviewRest PROVE PreviewTypeOK
    <2>1. dpCache \in [values : Seq(PreviewTracks), pending : Joinable] /\ Len(dpCache.values) <= MaxCached
      BY <1>2 DEF PreviewInv, PreviewTyped, PreviewRest, CacheHolds
    <2> QED BY <1>2, <2>1 DEF PreviewInv, PreviewTyped, PreviewTypeOK, PreviewPages, PreviewStatuses, RunRecords,
                             Joinable, LoadsTyped
  <1> QED BY <1>1, <1>2
=============================================================================
