--------------------------- MODULE RekordboxBridge ---------------------------
(***************************************************************************)
(* The desktop end of the Rekordbox apply bridge, CueApplyBridge in        *)
(* electron/cueApplyBridge.cjs: one Python process at a time reads request *)
(* lines and prints result lines; requests wait in a map until a result, a *)
(* time limit, a write error or the death of the process.                  *)
(***************************************************************************)
EXTENDS Naturals, FiniteSets

CONSTANTS BridgeRequests,  \* calls of request
          BridgeProcs,     \* processes that may be spawned
          NoProc

ASSUME BridgeAssumption == NoProc \notin BridgeProcs

VARIABLES brChild,    \* this.child
          brProc,     \* each process: "unborn", "running", "broken", "dead" or "reaped"
          brReq,      \* each request: "new", "waiting", "ok" or "error"
          brAt,       \* the process a request was written to
          brDone,     \* requests a process has carried out
          brWire,     \* result lines printed and not yet consumed
          brTorn      \* the buffer holds the torn last line of a dead process

bridgeVars == <<brChild, brProc, brReq, brAt, brDone, brWire, brTorn>>

BridgeTypeOK ==
  /\ brChild \in BridgeProcs \cup {NoProc}
  /\ brProc \in [BridgeProcs -> {"unborn", "running", "broken", "dead", "reaped"}]
  /\ brReq \in [BridgeRequests -> {"new", "waiting", "ok", "error"}]
  /\ brAt \in [BridgeRequests -> BridgeProcs \cup {NoProc}]
  /\ brDone \subseteq BridgeRequests
  /\ brWire \subseteq BridgeRequests
  /\ brTorn \in BOOLEAN

BridgeInit ==
  /\ brChild = NoProc
  /\ brProc = [k \in BridgeProcs |-> "unborn"]
  /\ brReq = [r \in BridgeRequests |-> "new"]
  /\ brAt = [r \in BridgeRequests |-> NoProc]
  /\ brDone = {} /\ brWire = {} /\ brTorn = FALSE

\* _failAll rejects and forgets every waiting request.
FailAll(req) == [r \in BridgeRequests |-> IF req[r] = "waiting" THEN "error" ELSE req[r]]

\* request: _start spawns a process when there is none; the buffer is kept.
RequestSent(r) ==
  /\ brReq[r] = "new"
  /\ \/ brChild # NoProc /\ brProc[brChild] # "broken" /\ UNCHANGED <<brChild, brProc>>
     \/ /\ brChild = NoProc
        /\ \E k \in BridgeProcs : /\ brProc[k] = "unborn"
                                  /\ brChild' = k
                                  /\ brProc' = [brProc EXCEPT ![k] = "running"]
  /\ brReq' = [brReq EXCEPT ![r] = "waiting"]
  /\ brAt' = [brAt EXCEPT ![r] = brChild']
  /\ UNCHANGED <<brDone, brWire, brTorn>>

\* A process that failed to start stays this.child; its stdin is not writable.
RequestRefused(r) ==
  /\ brReq[r] = "new"
  /\ brChild # NoProc /\ brProc[brChild] = "broken"
  /\ brReq' = [brReq EXCEPT ![r] = "error"]
  /\ UNCHANGED <<brChild, brProc, brAt, brDone, brWire, brTorn>>

\* The error event: the executable is missing or cannot be run.
SpawnFails(k) ==
  /\ brProc[k] = "running"
  /\ \A r \in brDone : brAt[r] # k
  /\ brProc' = [brProc EXCEPT ![k] = "broken"]
  /\ brReq' = FailAll(brReq)
  /\ UNCHANGED <<brChild, brAt, brDone, brWire, brTorn>>

\* The process carries a request out and prints its result, perhaps long
\* after the request timed out.
CarryOut(r) ==
  /\ brAt[r] # NoProc /\ brProc[brAt[r]] = "running" /\ r \notin brDone
  /\ brDone' = brDone \cup {r}
  /\ brWire' = brWire \cup {r}
  /\ UNCHANGED <<brChild, brProc, brReq, brAt, brTorn>>

\* _consume: a result, or the error it reports, goes to the request whose id it
\* carries, if it still waits.  A line glued to torn output does not start with
\* the prefix.
DeliverInOrder(r) ==
  brReq' = IF r \in brWire /\ ~brTorn /\ \E q \in BridgeRequests : brReq[q] = "waiting"
           THEN [brReq EXCEPT ![CHOOSE q \in BridgeRequests : brReq[q] = "waiting"] = "ok"]
           ELSE brReq

Deliver(r) ==
  \E answer \in {"ok", "error"} :
    brReq' = IF r \in brWire /\ brReq[r] = "waiting" /\ ~brTorn
             THEN [brReq EXCEPT ![r] = answer] ELSE brReq

Consume(r) ==
  /\ r \in brWire
  /\ brWire' = brWire \ {r}
  /\ brTorn' = FALSE
  /\ Deliver(r)
  /\ UNCHANGED <<brChild, brProc, brAt, brDone>>

\* REQUEST_TIMEOUT_MS, or an error writing the line.
RequestTimesOut(r) ==
  /\ brReq[r] = "waiting"
  /\ brReq' = [brReq EXCEPT ![r] = "error"]
  /\ UNCHANGED <<brChild, brProc, brAt, brDone, brWire, brTorn>>

\* The process dies, perhaps in the middle of a line.
ProcDies(k) ==
  /\ brProc[k] = "running"
  /\ brProc' = [brProc EXCEPT ![k] = "dead"]
  /\ brTorn' \in {brTorn, TRUE}
  /\ UNCHANGED <<brChild, brReq, brAt, brDone, brWire>>

\* The exit event: it clears this.child and fails every request, whichever
\* process exited.
ExitEvent(k) ==
  /\ brProc[k] = "dead"
  /\ brProc' = [brProc EXCEPT ![k] = "reaped"]
  /\ brChild' = NoProc
  /\ brReq' = FailAll(brReq)
  /\ UNCHANGED <<brAt, brDone, brWire, brTorn>>

\* close, at before-quit: the quit may still wait for the USB release.
CloseBridge ==
  /\ brChild # NoProc
  /\ brProc' = [brProc EXCEPT ![brChild] = IF @ = "running" THEN "dead" ELSE @]
  /\ brChild' = NoProc
  /\ brReq' = FailAll(brReq)
  /\ UNCHANGED <<brAt, brDone, brWire, brTorn>>

BridgeNext ==
  \/ \E r \in BridgeRequests : \/ RequestSent(r) \/ RequestRefused(r) \/ CarryOut(r)
                               \/ Consume(r) \/ RequestTimesOut(r)
  \/ \E k \in BridgeProcs : SpawnFails(k) \/ ProcDies(k) \/ ExitEvent(k)
  \/ CloseBridge

BridgeSpec == BridgeInit /\ [][BridgeNext]_bridgeVars

-----------------------------------------------------------------------------
\* A success shown for a preflight or an apply was carried out for that very
\* request, although answers of timed-out requests still arrive, processes
\* are replaced and their output shares one buffer.
SuccessIsReal == \A r \in BridgeRequests : brReq[r] = "ok" => r \in brDone
=============================================================================
