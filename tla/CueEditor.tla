------------------------------ MODULE CueEditor ------------------------------
(***************************************************************************)
(* The working cues of the selected track: what Auto Cue proposes from the *)
(* beat grid, the phrases and the vocals, what each edit does to a cue and *)
(* to the Memory Cue generated with it, and what the draft document of the *)
(* result has to satisfy before it can be saved.                           *)
(*                                                                         *)
(* Positions are multiples of half a beat.  Colours, comments, beat-loop   *)
(* metadata and where a cue was read from are left out.                    *)
(***************************************************************************)
EXTENDS Ordering

CONSTANTS
  GridBeats,    \* beats of the grid
  Upbeats,      \* how many of them precede the first downbeat (bar 0)
  BarBeats,     \* beats of a bar (4 in the code)
  LoopBars,     \* bars of a generated or a new loop
  LeadBars,     \* bars by which a generated Memory Cue precedes slots C to G
  NearBars,     \* bars within which a vocal onset takes a phrase boundary
  PhraseBeats,  \* beats at which a phrase may begin
  Places,       \* positions the user may ask for
  SlotsTried,   \* Hot Cue slots the user may ask for
  MaxCueEdits,  \* edits after which the user leaves the track alone
  MaxAdded      \* cues the user adds

ASSUME CueEditorAssumption ==
  /\ GridBeats \in Nat \ {0} /\ BarBeats \in Nat \ {0}
  /\ Upbeats \in 0 .. BarBeats - 1
  /\ LoopBars \in Nat \ {0} /\ {LeadBars, NearBars, MaxCueEdits, MaxAdded} \subseteq Nat
  /\ PhraseBeats \subseteq 1 .. GridBeats
  /\ Places \subseteq Nat /\ SlotsTried \subseteq 1 .. 8

VARIABLES
  ceCues,      \* workingCues, in their order
  cePhrases,   \* phrase kind at each beat where a phrase begins
  ceVocal,     \* position of the first strong vocal onset, or None
  ceAdded,     \* manualCueSequenceRef
  ceLeft,      \* edits left
  ceTwins      \* TRUE once two cues had one editorId

editorVars == <<ceCues, cePhrases, ceVocal, ceAdded, ceLeft, ceTwins>>

None == -1
Slots == 1 .. 8
PhraseKinds == {"Up", "Verse", "Down", "Chorus", "Outro"}

(***************************************************************************)
(* The grid.                                                               *)
(***************************************************************************)

Beats == 1 .. GridBeats
At(b) == 2 * (b - 1)
Bar(b) == IF b <= Upbeats THEN 0 ELSE (b - Upbeats - 1) \div BarBeats + 1
InBar(b) == ((b - Upbeats - 1) % BarBeats) + 1
Downbeats == {b \in Beats : b > Upbeats /\ InBar(b) = 1}

Distance(p, q) == IF p < q THEN q - p ELSE p - q

\* nearestBeat: ties go to the earlier beat.
Nearest(bs, ms) ==
  CHOOSE b \in bs : \A c \in bs : \/ Distance(At(b), ms) < Distance(At(c), ms)
                                  \/ (Distance(At(b), ms) = Distance(At(c), ms) /\ b <= c)

\* beatByBarOffset; a missing target is None.
ByBarOffset(b, bars) ==
  LET found == IF Bar(b) > 0
               THEN {c \in Beats : /\ Bar(b) + bars > 0
                                   /\ Bar(c) = Bar(b) + bars /\ InBar(c) = InBar(b)}
               ELSE {c \in Beats : bars >= 0 /\ c = b + bars * BarBeats}
  IN  IF bars = 0 THEN b ELSE IF found = {} THEN None ELSE CHOOSE c \in found : TRUE

SnapBeats(snap) == IF snap = "bar" THEN Downbeats ELSE Beats

\* cueSnapBeat answers with an error where the grid has no beat to snap to.
Snaps == {"off", "beat"} \cup (IF Downbeats = {} THEN {} ELSE {"bar"})

(***************************************************************************)
(* Cues.  Slot and pair are 0 and an end is None where the code has null.  *)
(* Identities are ordered as the strings of the code are.                  *)
(***************************************************************************)

Earliest(S) == CHOOSE x \in S : \A y \in S : x <= y
Latest(S) == CHOOSE x \in S : \A y \in S : x >= y

AutoHotId(s) == s
AutoMemoryId(s) == 10 + s
DraftId(k) == 20 + k
ImportedId(k) == 50 + k
ManualId(k) == 60 + k

Before(c, d) == c.start < d.start \/ (c.start = d.start /\ c.id < d.id)
SortCues(cues) == Sorted(cues, {p \in (DOMAIN cues) \X (DOMAIN cues) : Before(cues[p[1]], cues[p[2]])})

Cue(id, family, slot, type, start, end) ==
  [id |-> id, family |-> family, slot |-> slot, type |-> type, start |-> start,
   end |-> end, active |-> FALSE, pair |-> 0, lead |-> None, auto |-> FALSE]

HotSlots(cues) == {cues[i].slot : i \in {j \in DOMAIN cues : cues[j].family = "hot"}}
Ids(cues) == {cues[i].id : i \in DOMAIN cues}

\* findIndex of an editorId: the first of the cues that carry it.
IndexOf(cues, id) == Earliest({i \in DOMAIN cues : cues[i].id = id})

\* pairedGeneratedMemoryCues.
PairOf(cues, slot) ==
  {i \in DOMAIN cues : /\ cues[i].family = "memory" /\ cues[i].auto
                       /\ slot # 0 /\ cues[i].pair = slot}

(***************************************************************************)
(* Auto Cue: the beat proposed for each slot, None where the code skips it.*)
(***************************************************************************)

Begins(kinds) == {b \in DOMAIN cePhrases : cePhrases[b] \in kinds}
FirstOf(bs) == IF bs = {} THEN None ELSE Earliest(bs)
LastOf(bs) == IF bs = {} THEN None ELSE Latest(bs)
After(bs, b) == {c \in bs : c > b}
Upto(bs, b) == {c \in bs : c < b}

CanLoop(b) == b # None /\ ByBarOffset(b, LoopBars) # None
IfLoop(b) == IF CanLoop(b) THEN b ELSE None

\* The first Chorus after a fifth of the track, or what replaces an early one.
DropBeat ==
  LET choruses == Begins({"Chorus"})
      late == {b \in choruses : 5 * At(b) >= At(GridBeats)}
      ups == After(Begins({"Up"}), LastOf(choruses))
  IN  IF late # {} THEN FirstOf(late)
      ELSE IF choruses = {} THEN None
      ELSE IF ups # {} THEN FirstOf(ups) ELSE LastOf(choruses)

\* pvdiC: the vocal onset, moved to a phrase boundary within NearBars or to its
\* downbeat.
VocalBeat ==
  LET onset == Nearest(Beats, ceVocal)
      bars(b) == IF Bar(onset) > 0 /\ Bar(b) > 0 THEN Distance(Bar(onset), Bar(b)) <= NearBars
                 ELSE Distance(onset, b) <= NearBars * BarBeats
      near == {b \in Upto(DOMAIN cePhrases, DropBeat) : bars(b)}
      downs == {b \in Downbeats : b <= onset}
  IN  IF ceVocal = None \/ ceVocal >= At(DropBeat) THEN None
      ELSE IF near # {} THEN Nearest(near, ceVocal)
      ELSE IF downs # {} THEN Latest(downs) ELSE onset

\* phraseFallbackC.
BuildupBeat ==
  LET before == Upto(DOMAIN cePhrases, DropBeat)
      rising == before \cap Begins({"Up", "Verse"})
  IN  IF rising # {} THEN Latest(rising)
      ELSE IF before # {} THEN Latest(before)
      ELSE ByBarOffset(DropBeat, -LeadBars)

BreakBeat == FirstOf(After(Begins({"Down"}), DropBeat))
RecoveryBeat ==
  LET base == IF BreakBeat # None THEN BreakBeat ELSE DropBeat
  IN  IF base = None THEN None ELSE FirstOf(After(Begins({"Chorus"}), base))
OutroBeat == IF Begins({"Outro"}) # {} THEN FirstOf(Begins({"Outro"})) ELSE LastOf(DOMAIN cePhrases)

\* generateAutoCueProposals.
Proposed ==
  [s \in Slots |->
     CASE s = 1 -> 1
       [] s = 2 -> IfLoop(1)
       [] s = 3 -> IF DropBeat = None THEN None
                   ELSE IF VocalBeat # None THEN VocalBeat ELSE BuildupBeat
       [] s = 4 -> DropBeat
       [] s = 5 -> BreakBeat
       [] s = 6 -> RecoveryBeat
       [] s = 7 -> OutroBeat
       [] s = 8 -> IfLoop(OutroBeat)]

IsLoopSlot(s) == s \in {2, 8}
Lead(s) == IF s \in 3 .. 7 THEN LeadBars ELSE 0

LeadBeat(b, lead) == IF ByBarOffset(b, -lead) = None THEN 1 ELSE ByBarOffset(b, -lead)

AutoHot(s) ==
  LET b == Proposed[s]
      type == IF IsLoopSlot(s) THEN "loop" ELSE "cue"
      end == IF IsLoopSlot(s) THEN At(ByBarOffset(b, LoopBars)) ELSE None
  IN  [Cue(AutoHotId(s), "hot", s, type, At(b), end) EXCEPT !.auto = TRUE]

AutoMemory(s) ==
  [AutoHot(s) EXCEPT !.id = AutoMemoryId(s), !.family = "memory", !.slot = 0,
                     !.start = At(LeadBeat(Proposed[s], Lead(s))),
                     !.pair = s, !.lead = Lead(s)]

\* mergeAutoCueProposals: only free slots, and a Memory Cue only where no
\* paired one is left.
AutoMerged(cues) ==
  LET free == {s \in Slots : Proposed[s] # None /\ s \notin HotSlots(cues)}
      paired == {cues[i].pair : i \in {j \in DOMAIN cues : cues[j].family = "memory"}}
      added(s) == IF s \notin free THEN << >>
                  ELSE IF s \in paired THEN <<AutoHot(s)>> ELSE <<AutoHot(s), AutoMemory(s)>>
  IN  SortCues(cues \o added(1) \o added(2) \o added(3) \o added(4)
                    \o added(5) \o added(6) \o added(7) \o added(8))

(***************************************************************************)
(* Edits.  An edit that the code answers with an error changes nothing.    *)
(***************************************************************************)

\* syncPairedMemoryAfterHotMove: what becomes of the cues when cue i has been
\* moved to h; << >> stands for an error.
WithPair(cues, i, h, snap) ==
  LET moved == [cues EXCEPT ![i] = h]
      pair == IF h.family = "hot" THEN PairOf(cues, h.slot) ELSE {}
      m == cues[Earliest(pair)]
      anchor == Nearest(Beats, h.start)
      phase == IF snap = "off" THEN h.start - At(anchor) ELSE 0
      start == At(LeadBeat(anchor, m.lead)) + phase
      follow(c) == IF m.lead = 0 /\ c.type = "loop" /\ h.type = "loop"
                   THEN [c EXCEPT !.start = start, !.end = h.end]
                   ELSE [c EXCEPT !.start = start]
  IN  IF pair = {} THEN moved
      ELSE IF Cardinality(pair) # 1 \/ m.lead = None \/ start < 0 THEN << >>
      ELSE [j \in DOMAIN moved |-> IF cues[j].id = m.id THEN follow(moved[j]) ELSE moved[j]]

\* nextAvailableHotCueSlot and addWorkingCue: a point cue on the grid or where
\* the user asked; a Hot Cue takes the first free slot.
FreeSlots(cues) == Slots \ HotSlots(cues)

Added(cues, id, family, ms, snap) ==
  LET start == IF snap = "off" THEN ms ELSE At(Nearest(SnapBeats(snap), ms))
      slot == IF family = "hot" THEN Earliest(FreeSlots(cues)) ELSE 0
  IN  IF family = "hot" /\ FreeSlots(cues) = {} THEN << >>
      ELSE Append(cues, Cue(id, family, slot, "cue", start, None))

\* moveWorkingCue.  Off the grid a loop keeps its length, on the grid its
\* number of beats.
RepositionedStartOnly(c, ms, snap) ==
  [c EXCEPT !.start = IF snap = "off" THEN ms ELSE At(Nearest(SnapBeats(snap), ms))]

Repositioned(c, ms, snap) ==
  LET target == Nearest(SnapBeats(snap), ms)
      beats == Nearest(Beats, c.end) - Nearest(Beats, c.start)
  IN  IF snap = "off"
      THEN [c EXCEPT !.start = ms, !.end = IF c.type = "loop" THEN ms + (c.end - c.start) ELSE c.end]
      ELSE [c EXCEPT !.start = At(target),
                     !.end = IF c.type = "loop" THEN At(target + beats) ELSE c.end]

Movable(c, ms, snap) ==
  c.type = "loop" =>
    /\ c.end > c.start
    /\ snap # "off" =>
         LET beats == Nearest(Beats, c.end) - Nearest(Beats, c.start)
         IN  beats > 0 /\ Nearest(SnapBeats(snap), ms) + beats <= GridBeats

Moved(cues, id, ms, snap) ==
  LET i == IndexOf(cues, id)
  IN  IF ~Movable(cues[i], ms, snap) THEN << >>
      ELSE WithPair(cues, i, Repositioned(cues[i], ms, snap), snap)

\* editWorkingCue: a Hot Cue that becomes a Memory Cue takes its generated
\* Memory Cue with it; a Memory Cue that becomes hot needs a free slot.
UnpairedNone(cues, id, slot) == cues

Unpaired(cues, id, slot) ==
  Filtered(cues, {i \in DOMAIN cues : ~(cues[i].id # id /\ i \in PairOf(cues, slot))})

ToMemory(cues, id) ==
  LET i == IndexOf(cues, id)
  IN  Unpaired([cues EXCEPT ![i] = [@ EXCEPT !.family = "memory", !.slot = 0, !.pair = 0]],
               id, cues[i].slot)

ToHot(cues, id, slot) ==
  [cues EXCEPT ![IndexOf(cues, id)] = [@ EXCEPT !.family = "hot", !.slot = slot, !.pair = 0]]

\* updatePairedMemorySlot: the generated Memory Cue follows its slot.
ToSlot(cues, id, slot) ==
  LET i == IndexOf(cues, id)
      pair == PairOf(cues, cues[i].slot)
  IN  [j \in DOMAIN cues |->
         IF j = i THEN [cues[j] EXCEPT !.slot = slot]
         ELSE IF j \in pair THEN [cues[j] EXCEPT !.pair = slot] ELSE cues[j]]

ToCue(cues, id) ==
  [cues EXCEPT ![IndexOf(cues, id)] = [@ EXCEPT !.type = "cue", !.end = None, !.active = FALSE]]

\* A new loop is as long as LoopBars are at the beat nearest to its start.
ToLoop(cues, id) ==
  LET i == IndexOf(cues, id)
      b == Nearest(Beats, cues[i].start)
      e == b + LoopBars * BarBeats
  IN  IF e > GridBeats THEN << >>
      ELSE [cues EXCEPT ![i] = [@ EXCEPT !.type = "loop", !.active = FALSE,
                                         !.end = cues[i].start + At(e) - At(b)]]

\* end-ms, and loop-length-ms, which asks for the end it comes to.
ToEnd(cues, id, ms, snap) ==
  LET i == IndexOf(cues, id)
      end == IF snap = "off" THEN ms ELSE At(Nearest(SnapBeats(snap), ms))
  IN  IF ms <= cues[i].start \/ end <= cues[i].start THEN << >>
      ELSE [cues EXCEPT ![i] = [@ EXCEPT !.end = end]]

\* deleteWorkingCue: every cue with that identity, and the generated Memory
\* Cue of the first of them.
Deleted(cues, id) ==
  LET c == cues[IndexOf(cues, id)]
      alone == Unpaired(cues, id, IF c.family = "hot" THEN c.slot ELSE 0)
  IN  Filtered(alone, {i \in DOMAIN alone : alone[i].id # id})

(***************************************************************************)
(* The draft document.                                                     *)
(***************************************************************************)

\* canonicalCue throws for any other cue.
CueLegal(c) ==
  /\ c.start >= 0
  /\ c.family = "hot" <=> c.slot \in Slots
  /\ IF c.type = "loop" THEN c.end # None /\ c.end > c.start
     ELSE (c.end # None => c.end >= c.start) /\ ~c.active

\* createCueDraftDocument: legal cues that share no slot.
SlotsOwned(cues) ==
  \A i, j \in DOMAIN cues :
    (i # j /\ cues[i].family = "hot" /\ cues[j].family = "hot") => cues[i].slot # cues[j].slot

Saveable(cues) == SlotsOwned(cues) /\ \A i \in DOMAIN cues : CueLegal(cues[i])

\* cueSortKey: a Hot Cue before a Memory Cue at the same position.
DraftBefore(c, d) ==
  LET rank(x) == IF x.family = "hot" THEN x.slot ELSE 99
  IN  c.start < d.start \/ (c.start = d.start /\ rank(c) < rank(d))

\* hydrateCueDraftDocument: the saved cues under identities of their own.
Hydrated(cues) ==
  LET doc == Sorted(cues, {p \in (DOMAIN cues) \X (DOMAIN cues) : DraftBefore(cues[p[1]], cues[p[2]])})
  IN  [i \in DOMAIN doc |-> [doc[i] EXCEPT !.id = DraftId(i)]]

(***************************************************************************)
(* The page.                                                               *)
(***************************************************************************)

\* Baselines that the page opens for editing: valid, unsaved, from an import.
Baselines ==
  {<< >>,
   <<Cue(ImportedId(1), "hot", 3, "loop", 0, 4)>>,
   <<Cue(ImportedId(1), "memory", 0, "cue", 2, None), Cue(ImportedId(2), "hot", 2, "cue", 3, None)>>}

\* Tracks that are edited have one phrase at most; the others are there for
\* what Auto Cue makes of their phrases.
EditorInit ==
  /\ \E bs \in SUBSET PhraseBeats : cePhrases \in [bs -> PhraseKinds]
  /\ ceVocal \in {None} \cup Places
  /\ ceCues \in Baselines
  /\ ceAdded = 0 /\ ceTwins = FALSE
  /\ ceLeft \in IF cePhrases = << >> /\ ceVocal = None THEN {MaxCueEdits} ELSE {0}

Result(cues) ==
  /\ cues # << >> => ceCues' = SortCues(cues)
  /\ cues = << >> => ceCues' = ceCues
  /\ ceTwins' = (ceTwins \/ Cardinality(Ids(ceCues')) # Len(ceCues'))
  /\ UNCHANGED <<cePhrases, ceVocal>>

Edit(cues) == ceLeft > 0 /\ ceLeft' = ceLeft - 1 /\ Result(cues)

\* handleAddCue.
AddCue(family, ms, snap) ==
  /\ ceAdded < MaxAdded
  /\ ceAdded' = ceAdded + 1
  /\ Edit(Added(ceCues, ManualId(ceAdded'), family, ms, snap))

MoveCue(id, ms, snap) == Edit(Moved(ceCues, id, ms, snap)) /\ UNCHANGED ceAdded

EditCue(id) ==
  LET c == ceCues[IndexOf(ceCues, id)]
  IN  /\ UNCHANGED ceAdded
      /\ \/ c.family = "hot" /\ Edit(ToMemory(ceCues, id))
         \/ /\ c.family = "memory"
            /\ \E s \in SlotsTried \ HotSlots(ceCues) : Edit(ToHot(ceCues, id, s))
         \/ /\ c.family = "hot"
            /\ \E s \in SlotsTried \ HotSlots(ceCues) : Edit(ToSlot(ceCues, id, s))
         \/ c.type = "loop" /\ Edit(ToCue(ceCues, id))
         \/ c.type = "cue" /\ Edit(ToLoop(ceCues, id))
         \/ /\ c.type = "loop"
            /\ \E ms \in Places, snap \in Snaps : Edit(ToEnd(ceCues, id, ms, snap))
         \/ /\ c.type = "loop"
            /\ Edit([ceCues EXCEPT ![IndexOf(ceCues, id)].active = ~@])

DeleteCue(id) ==
  /\ ceLeft > 0 /\ ceLeft' = ceLeft - 1
  /\ ceCues' = Deleted(ceCues, id)
  /\ UNCHANGED <<cePhrases, ceVocal, ceAdded, ceTwins>>

\* handleAutoCue; pressing it is not counted as an edit.
AutoCue == Result(AutoMerged(ceCues)) /\ UNCHANGED <<ceAdded, ceLeft>>

\* The draft is saved and the track selected again.
SaveAndReopen ==
  /\ Saveable(ceCues) /\ ceCues # << >>
  /\ ceCues' = Hydrated(ceCues)
  /\ UNCHANGED <<cePhrases, ceVocal, ceAdded, ceLeft, ceTwins>>

EditorNext ==
  \/ \E family \in {"hot", "memory"}, ms \in Places, snap \in Snaps : AddCue(family, ms, snap)
  \/ \E id \in Ids(ceCues) :
       \/ \E ms \in Places, snap \in Snaps : MoveCue(id, ms, snap)
       \/ EditCue(id)
       \/ DeleteCue(id)
  \/ AutoCue
  \/ SaveAndReopen

EditorSpec == EditorInit /\ [][EditorNext]_editorVars

EditorTypeOK ==
  /\ \A i \in DOMAIN ceCues :
       LET c == ceCues[i]
       IN  /\ c.family \in {"hot", "memory"} /\ c.type \in {"cue", "loop"}
           /\ c.slot \in 0 .. 8 /\ c.pair \in 0 .. 8 /\ c.lead \in {None, 0, LeadBars}
           /\ c.active \in BOOLEAN /\ c.auto \in BOOLEAN
  /\ \A i, j \in DOMAIN ceCues : i < j => ceCues[i].start <= ceCues[j].start
  /\ ceAdded \in 0 .. MaxAdded /\ ceLeft \in 0 .. MaxCueEdits /\ ceTwins \in BOOLEAN

(***************************************************************************)
(* Properties.                                                             *)
(***************************************************************************)

\* The start of a generated Memory loop, or of a loop that has its identity, moves
\* and the end stays: what the code does when its Hot Cue is moved and they are not
\* loops at one place.
StartMovedAlone(cues, next) ==
  \E i, k \in DOMAIN cues, j \in DOMAIN next :
    LET c == cues[i]
        d == next[j]
    IN  /\ c.type = "loop" /\ c.id = cues[k].id /\ cues[k].pair # 0
        /\ d.id = c.id /\ d.start # c.start /\ d.end = c.end

\* Every edit the editor accepts leaves a set of cues of which the page can
\* build the draft document: slots stay unique and loops stay ranges.  Exempt
\* is StartMovedAlone, which can leave a loop that ends before it starts and
\* makes Save fail (see README).
EditsStaySaveable ==
  [][Saveable(ceCues) => Saveable(ceCues') \/ StartMovedAlone(ceCues, ceCues')]_editorVars

\* As long as no two cues have one identity, a generated Memory Cue belongs to
\* a Hot Cue that exists and is the only one that does: moves, slot changes
\* and deletes find the pair by the slot alone.
PairsHaveOwner ==
  ~ceTwins => \A i \in DOMAIN ceCues :
    LET s == ceCues[i].pair
    IN  s # 0 => s \in HotSlots(ceCues) /\ PairOf(ceCues, s) = {i}

\* What Auto Cue proposes follows the track: no build-up after the drop, the break after
\* it, the recovery after the break, and whatever loops fits the grid.
ProposalsInOrder ==
  LET before(s, t) == (Proposed[s] # None /\ Proposed[t] # None) => Proposed[s] < Proposed[t]
  IN  /\ Proposed[3] # None => Proposed[3] <= Proposed[4]
      /\ before(4, 5) /\ before(4, 6) /\ before(5, 6)
      /\ \A s \in {2, 8} : Proposed[s] # None => Proposed[s] + LoopBars * BarBeats <= GridBeats

\* Auto Cue and the cues it has generated fit the track and one another.
GeneratedCuesFit == PairsHaveOwner /\ ProposalsInOrder
=============================================================================
