---------------------------- MODULE PreviewEncodes ----------------------------
(***************************************************************************)
(* The encoding slots of cloud previews: withPreviewSlot and               *)
(* encodeTrackPreview of electron/main.cjs, with encodePreview of          *)
(* electron/previewEncoder.cjs as the work a slot is held for.             *)
(***************************************************************************)
EXTENDS Naturals, Sequences, FiniteSets

CONSTANTS Encodes,        \* calls of encodeTrackPreview
          EncodeLimit     \* PREVIEW_ENCODE_CONCURRENCY

ASSUME EncodeAssumption == EncodeLimit \in Nat \ {0}

VARIABLES encCall,     \* each call: "idle", "probing", "queued", "encoding"
          encActive,   \* activePreviewEncodes
          encWaiters   \* previewEncodeWaiters

encodeVars == <<encCall, encActive, encWaiters>>

EncodeTypeOK ==
  /\ encCall \in [Encodes -> {"idle", "probing", "queued", "encoding"}]
  /\ encActive \in Nat
  /\ encWaiters \in Seq(Encodes)

EncodeInit ==
  /\ encCall = [e \in Encodes |-> "idle"]
  /\ encActive = 0 /\ encWaiters = << >>

\* The path is resolved and the file inspected before a slot is asked for.
EncodeBegin(e) ==
  /\ encCall[e] = "idle"
  /\ encCall' = [encCall EXCEPT ![e] = "probing"]
  /\ UNCHANGED <<encActive, encWaiters>>

\* The file is gone, or has not changed since the last preview.
EncodeSkipped(e) ==
  /\ encCall[e] = "probing"
  /\ encCall' = [encCall EXCEPT ![e] = "idle"]
  /\ UNCHANGED <<encActive, encWaiters>>

\* withPreviewSlot: wait in line, or take a slot and start ffmpeg.
TakeSlot(e) ==
  /\ encCall[e] = "probing"
  /\ \/ /\ encActive >= EncodeLimit
        /\ encWaiters' = Append(encWaiters, e)
        /\ encCall' = [encCall EXCEPT ![e] = "queued"]
        /\ UNCHANGED encActive
     \/ /\ encActive < EncodeLimit
        /\ encActive' = encActive + 1
        /\ encCall' = [encCall EXCEPT ![e] = "encoding"]
        /\ UNCHANGED encWaiters

\* The counter when a slot passes to a waiter: the waiter counts itself again.
SlotsAfterWakeLost == encActive - 1
SlotsAfterWake == encActive

\* finally: the slot is given back and the first
\* waiter resumes with it in the same turn of the event loop.
EncodeEnds(e) ==
  /\ encCall[e] = "encoding"
  /\ IF encWaiters = << >>
     THEN /\ encActive' = encActive - 1
          /\ encCall' = [encCall EXCEPT ![e] = "idle"]
          /\ UNCHANGED encWaiters
     ELSE /\ encActive' = SlotsAfterWake
          /\ encCall' = [encCall EXCEPT ![e] = "idle", ![Head(encWaiters)] = "encoding"]
          /\ encWaiters' = Tail(encWaiters)

-----------------------------------------------------------------------------
\* The counter is the number of encoders running, never above the limit, and
\* nobody waits while a slot is free: a slot is neither lost nor used twice
\* when encoders fail, wait and are woken in any order.
SlotsBalance ==
  /\ encActive = Cardinality({e \in Encodes : encCall[e] = "encoding"})
  /\ encActive <= EncodeLimit
  /\ encWaiters # << >> => encActive = EncodeLimit
=============================================================================
