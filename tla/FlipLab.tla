------------------------------ MODULE FlipLab ------------------------------
(***************************************************************************)
(* Flip Lab: the vocal of one track over the instrumental of another.      *)
(* useFlipLab.ts separates, decodes and stretches the stems of a pair and  *)
(* hands them to the transport of flipLabEngine.ts; flipLabTimeline.ts     *)
(* places them.  A run of flip() is valid as long as its generation is the *)
(* current one, so flCurrent names the run and clear() leaves none.        *)
(* Seconds are whole, lengths and downbeats of the stretched vocal are     *)
(* constants.                                                              *)
(***************************************************************************)
EXTENDS Integers, FiniteSets

CONSTANTS
  FlipRuns, NoFlip,          \* the runs of flip()
  FlipPairs, NoPair,        \* a vocal with an instrumental
  VocalSpan, InstrSpan, VocalDownbeat, InstrDownbeat,
  MaxMoves                  \* how often the stems of a pair are dragged

ASSUME FlipAssumption ==
  /\ NoFlip \notin FlipRuns /\ NoPair \notin FlipPairs
  /\ {VocalSpan, InstrSpan} \subseteq Nat \ {0}
  /\ {VocalDownbeat, InstrDownbeat, MaxMoves} \subseteq Nat

VARIABLES
  flPage,       \* what the page shows: phase, pair, playing, shift, off
  flRun,        \* the runs: step, pair, and the key shift they stretch for
  flCurrent,    \* the run whose generation is current
  flKey,        \* a key shift under way: its run, and whether it interrupted
  flDeck,       \* loaded: what the engine would play
  flNodes,      \* what its source nodes play
  flOn,         \* playing
  flAt,         \* the position of the transport
  flAsleep,     \* the audio context is suspended
  flWaiting,    \* play() awaits context.resume()
  flMoves, flLate   \* flLate, history: a waiting play() began during a key shift

flipVars == <<flPage, flRun, flCurrent, flKey, flDeck, flNodes, flOn, flAt, flAsleep, flWaiting,
              flMoves, flLate>>
flEngineVars == <<flDeck, flNodes, flOn, flAt>>
flContextVars == <<flAsleep, flWaiting, flMoves, flLate>>

-----------------------------------------------------------------------------
(* The shared timeline.                                                    *)

Later(a, b) == IF a > b THEN a ELSE b
FlipStems == {"vocal", "instrumental"}
Aligned == [s \in FlipStems |-> 0]
Downbeat == Later(VocalDownbeat, InstrDownbeat)
AutoStart == [s \in FlipStems |-> Downbeat - (IF s = "vocal" THEN VocalDownbeat ELSE InstrDownbeat)]
SpanOf == [s \in FlipStems |-> IF s = "vocal" THEN VocalSpan ELSE InstrSpan]

\* A mutant: a stem dragged before the start does not shift the other one.
NeverShifts(off) == 0

\* No stem can start before 0: the whole timeline shifts right instead.
ShiftOf(off) == Later(0, Later(-(AutoStart["vocal"] + off["vocal"]),
                               -(AutoStart["instrumental"] + off["instrumental"])))
StartOf(off, s) == AutoStart[s] + off[s] + ShiftOf(off)
TotalOf(off) == Later(StartOf(off, "vocal") + SpanOf["vocal"],
                      StartOf(off, "instrumental") + SpanOf["instrumental"])

-----------------------------------------------------------------------------
(* The engine.                                                             *)

NoDeck == [pair |-> NoPair, shift |-> FALSE, off |-> Aligned]
Length(deck) == IF deck = NoDeck THEN 0 ELSE TotalOf(deck.off)
Within(at, deck) == IF at < 0 THEN 0 ELSE IF at > Length(deck) THEN Length(deck) ELSE at

\* load() stops the nodes of the deck before.
LoadDeck(deck, at) == /\ flDeck' = deck /\ flNodes' = {} /\ flOn' = FALSE /\ flAt' = Within(at, deck)
UnloadDeck == LoadDeck(NoDeck, 0)

\* play(), once the context runs: from the start if the end was reached.
PlaysOn(deck, at) ==
  /\ flDeck' = deck /\ flNodes' = {deck} /\ flOn' = TRUE
  /\ flAt' = IF at >= Length(deck) THEN 0 ELSE at

\* pause() of an engine that does not play does nothing.
PauseDeck == flNodes' = {} /\ flOn' = FALSE /\ UNCHANGED <<flDeck, flAt>>

-----------------------------------------------------------------------------
(* flip().                                                                 *)

IdlePage == [phase |-> "idle", pair |-> NoPair, playing |-> FALSE, shift |-> FALSE, off |-> Aligned]
NoKey == [run |-> NoFlip, was |-> FALSE]
NewRun == [step |-> "new", pair |-> NoPair, shift |-> FALSE]

Flip(r, p) ==
  /\ flRun[r].step = "new"
  /\ flPage.phase = "idle" \/ (flPage.phase = "error" /\ p = flPage.pair)
  /\ flCurrent' = r
  /\ flRun' = [flRun EXCEPT ![r] = [step |-> "vocal", pair |-> p, shift |-> FALSE]]
  /\ flPage' = [IdlePage EXCEPT !.phase = "separating", !.pair = p, !.shift = flPage.shift]
  /\ UnloadDeck /\ flMoves' = 0 /\ UNCHANGED <<flKey, flAsleep, flWaiting, flLate>>

Step(r, step) == flRun' = [flRun EXCEPT ![r].step = step]
FlipFrame == UNCHANGED <<flCurrent, flKey, flContextVars>>

\* A mutant: an answer is taken for the current run's.
AnyRun(r) == TRUE

IsCurrentRun(r) == flCurrent = r

\* separateFlipLabPair: the vocal, then the instrumental, whoever still waits.
VocalMade(r) ==
  /\ flRun[r].step = "vocal" /\ Step(r, "instrumental")
  /\ UNCHANGED <<flPage, flEngineVars>> /\ FlipFrame

InstrumentalMade(r) ==
  /\ flRun[r].step = "instrumental"
  /\ IF IsCurrentRun(r) THEN Step(r, "decoding") /\ flPage' = [flPage EXCEPT !.phase = "preparing"]
                     ELSE Step(r, "ended") /\ UNCHANGED flPage
  /\ UNCHANGED flEngineVars /\ FlipFrame

\* buildVocal reads the key shift once both stems are decoded.
StemsDecoded(r) ==
  /\ flRun[r].step = "decoding"
  /\ IF IsCurrentRun(r) THEN flRun' = [flRun EXCEPT ![r].step = "stretching", ![r].shift = flPage.shift]
                     ELSE Step(r, "ended")
  /\ UNCHANGED <<flPage, flEngineVars>> /\ FlipFrame

VocalStretched(r) ==
  /\ flRun[r].step = "stretching" /\ Step(r, "ended")
  /\ IF IsCurrentRun(r)
     THEN /\ LoadDeck([pair |-> flRun[r].pair, shift |-> flRun[r].shift, off |-> Aligned], 0)
          /\ flPage' = [flPage EXCEPT !.phase = "ready"]
     ELSE UNCHANGED <<flPage, flEngineVars>>
  /\ FlipFrame

\* A separation, a download, a decoder or the stretching worker fails, or was
\* cancelled by a clear().
RunFails(r) ==
  /\ flRun[r].step \in {"vocal", "instrumental", "decoding", "stretching"} /\ Step(r, "ended")
  /\ flPage' = IF IsCurrentRun(r) THEN [flPage EXCEPT !.phase = "error"] ELSE flPage
  /\ UNCHANGED flEngineVars /\ FlipFrame

\* The lookup of the import throws, outside of every try: the page goes on
\* separating until it is cleared.
LookupThrows(r) ==
  /\ flRun[r].step \in {"vocal", "instrumental"} /\ Step(r, "ended")
  /\ UNCHANGED <<flPage, flEngineVars>> /\ FlipFrame

\* Clear pair, another selection, or another import.
ClearPair ==
  /\ flCurrent' = NoFlip /\ flPage' = [IdlePage EXCEPT !.shift = flPage.shift] /\ UnloadDeck
  /\ flMoves' = 0 /\ flLate' = FALSE /\ UNCHANGED <<flRun, flKey, flAsleep, flWaiting>>

\* The page is left: its engine is disposed of, its runs find a new generation.
LeaveFlipLab ==
  /\ flCurrent' = NoFlip /\ flPage' = IdlePage /\ UnloadDeck
  /\ flRun' = [r \in FlipRuns |-> IF flRun[r].step = "new" THEN NewRun ELSE [flRun[r] EXCEPT !.step = "ended"]]
  /\ flKey' = NoKey /\ flAsleep' = TRUE /\ flWaiting' = FALSE
  /\ flMoves' = 0 /\ flLate' = FALSE

-----------------------------------------------------------------------------
(* Key shift.                                                              *)

\* Without stems to stretch it is only remembered for the next flip.
KeyRemembered ==
  /\ flPage.phase = "error"
  /\ flPage' = [flPage EXCEPT !.shift = ~@]
  /\ UNCHANGED <<flRun, flEngineVars>> /\ FlipFrame

KeyToggled ==
  /\ flPage.phase = "ready"
  /\ flPage' = [flPage EXCEPT !.shift = ~@, !.phase = "preparing", !.playing = FALSE]
  /\ flKey' = [run |-> flCurrent, was |-> flOn] /\ PauseDeck /\ flLate' = FALSE
  /\ UNCHANGED <<flRun, flCurrent, flAsleep, flWaiting, flMoves>>

\* load() keeps the position and goes on if a waiting play() has begun since.
KeyStretched ==
  /\ flKey # NoKey /\ flKey' = NoKey
  /\ IF IsCurrentRun(flKey.run)
     THEN LET deck == [pair |-> flPage.pair, shift |-> flPage.shift, off |-> flPage.off]
          IN /\ IF flKey.was \/ flOn THEN PlaysOn(deck, Within(flAt, deck)) ELSE LoadDeck(deck, flAt)
             /\ flPage' = [flPage EXCEPT !.phase = "ready", !.playing = flKey.was]
             /\ flLate' = (flOn /\ ~flKey.was)
     ELSE UNCHANGED <<flPage, flEngineVars, flLate>>
  /\ UNCHANGED <<flRun, flCurrent, flAsleep, flWaiting, flMoves>>

KeyFails ==
  /\ flKey # NoKey /\ flKey' = NoKey
  /\ flPage' = IF IsCurrentRun(flKey.run) THEN [flPage EXCEPT !.phase = "error"] ELSE flPage
  /\ UNCHANGED <<flRun, flCurrent, flEngineVars, flContextVars>>

-----------------------------------------------------------------------------
(* The transport.                                                          *)

TogglePause ==
  /\ flPage.phase = "ready" /\ flOn
  /\ PauseDeck /\ flPage' = [flPage EXCEPT !.playing = FALSE] /\ flLate' = FALSE
  /\ UNCHANGED <<flRun, flCurrent, flKey, flAsleep, flWaiting, flMoves>>

TogglePlay ==
  /\ flPage.phase = "ready" /\ ~flOn
  /\ IF flAsleep THEN flWaiting' = TRUE /\ UNCHANGED <<flPage, flEngineVars>>
     ELSE PlaysOn(flDeck, flAt) /\ flPage' = [flPage EXCEPT !.playing = TRUE] /\ UNCHANGED flWaiting
  /\ UNCHANGED <<flRun, flCurrent, flKey, flAsleep, flMoves, flLate>>

\* The context runs: what waited for it plays what is loaded now, and throws
\* when nothing is.
ContextRuns ==
  /\ flAsleep /\ flAsleep' = FALSE /\ flWaiting' = FALSE
  /\ IF flWaiting /\ flDeck # NoDeck
     THEN PlaysOn(flDeck, flAt) /\ flPage' = [flPage EXCEPT !.playing = TRUE]
     ELSE UNCHANGED <<flPage, flEngineVars>>
  /\ UNCHANGED <<flRun, flCurrent, flKey, flMoves, flLate>>

PreviewPauses ==
  /\ flOn /\ PauseDeck /\ flPage' = [flPage EXCEPT !.playing = FALSE] /\ flLate' = FALSE
  /\ UNCHANGED <<flRun, flCurrent, flKey, flAsleep, flWaiting, flMoves>>

Seek(at) ==
  /\ flDeck # NoDeck /\ flAt' = Within(at, flDeck)
  /\ flNodes' = IF flOn THEN {flDeck} ELSE flNodes
  /\ UNCHANGED <<flPage, flRun, flDeck, flOn>> /\ FlipFrame

TransportRuns ==
  /\ flOn /\ flAt < Length(flDeck) /\ flAt' = flAt + 1
  /\ UNCHANGED <<flPage, flRun, flDeck, flNodes, flOn>> /\ FlipFrame

\* The end timer of the latest schedule().
TransportEnds ==
  /\ flOn /\ flAt = Length(flDeck)
  /\ flNodes' = {} /\ flOn' = FALSE /\ flAt' = 0 /\ flPage' = [flPage EXCEPT !.playing = FALSE]
  /\ flLate' = FALSE
  /\ UNCHANGED <<flRun, flCurrent, flKey, flDeck, flAsleep, flWaiting, flMoves>>

\* A drag: the stems are placed again, and the position moves with the shift.
MoveStem(s, by) ==
  /\ flPage.phase = "ready" /\ ~flOn /\ flMoves < MaxMoves
  /\ LET off == [flPage.off EXCEPT ![s] = @ + by]
     IN /\ LoadDeck([flDeck EXCEPT !.off = off], flAt + ShiftOf(off) - ShiftOf(flPage.off))
        /\ flPage' = [flPage EXCEPT !.off = off]
  /\ flMoves' = flMoves + 1
  /\ UNCHANGED <<flRun, flCurrent, flKey, flAsleep, flWaiting, flLate>>

-----------------------------------------------------------------------------
FlipInit ==
  /\ flPage = IdlePage /\ flRun = [r \in FlipRuns |-> NewRun] /\ flCurrent = NoFlip /\ flKey = NoKey
  /\ flDeck = NoDeck /\ flNodes = {} /\ flOn = FALSE /\ flAt = 0
  /\ flAsleep = TRUE /\ flWaiting = FALSE /\ flMoves = 0 /\ flLate = FALSE

FlipNext ==
  \/ \E r \in FlipRuns : \/ \E p \in FlipPairs : Flip(r, p)
                         \/ VocalMade(r) \/ InstrumentalMade(r) \/ StemsDecoded(r)
                         \/ VocalStretched(r) \/ RunFails(r) \/ LookupThrows(r)
  \/ ClearPair \/ LeaveFlipLab
  \/ KeyRemembered \/ KeyToggled \/ KeyStretched \/ KeyFails
  \/ TogglePause \/ TogglePlay \/ ContextRuns \/ PreviewPauses
  \/ \E at \in 0 .. Length(flDeck) : Seek(at)
  \/ TransportRuns \/ TransportEnds
  \/ \E s \in FlipStems, by \in {-2, 1} : MoveStem(s, by)

FlipSpec == FlipInit /\ [][FlipNext]_flipVars

FlipDecks == [pair : FlipPairs \cup {NoPair}, shift : BOOLEAN, off : [FlipStems -> Int]]

FlipTypeOK ==
  /\ flPage \in [phase : {"idle", "separating", "preparing", "ready", "error"},
                 pair : FlipPairs \cup {NoPair}, playing : BOOLEAN, shift : BOOLEAN, off : [FlipStems -> Int]]
  /\ flRun \in [FlipRuns -> [step : {"new", "vocal", "instrumental", "decoding", "stretching", "ended"},
                             pair : FlipPairs \cup {NoPair}, shift : BOOLEAN]]
  /\ flCurrent \in FlipRuns \cup {NoFlip} /\ flKey \in [run : FlipRuns \cup {NoFlip}, was : BOOLEAN]
  /\ flDeck \in FlipDecks /\ flNodes \in SUBSET {flDeck} /\ flOn \in BOOLEAN /\ flAt \in 0 .. Length(flDeck)
  /\ flAsleep \in BOOLEAN /\ flWaiting \in BOOLEAN /\ flMoves \in 0 .. MaxMoves /\ flLate \in BOOLEAN

-----------------------------------------------------------------------------
\* What is heard is the pair, the key and the placement that the page shows,
\* and the page can stop it, whatever runs, key shifts and resumed contexts
\* finish late.  Exempt is flLate (see README).
FlipPlaysShownPair ==
  /\ flPage.phase = "ready" => flDeck = [pair |-> flPage.pair, shift |-> flPage.shift, off |-> flPage.off]
  /\ flNodes = IF flOn THEN {flDeck} ELSE {}
  /\ ~flLate => flPage.playing = flOn

\* A drag moves one stem.  The other keeps the sample under the playhead,
\* unless the playhead would leave the timeline.
PlayheadStays ==
  [][\A s \in FlipStems :
       /\ flPage.phase = "ready" /\ flPage'.phase = "ready"
       /\ flPage'.pair = flPage.pair /\ flPage'.off # flPage.off /\ flPage'.off[s] = flPage.off[s]
       => LET at == flAt - StartOf(flPage.off, s) + StartOf(flPage'.off, s)
          IN flAt' = Within(at, flDeck') /\ StartOf(flPage'.off, s) >= 0]_flipVars
=============================================================================
