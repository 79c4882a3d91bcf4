---------------------------- MODULE Desktop_proofs ----------------------------
(***************************************************************************)
(* Theorems about the desktop process and its window: the streams of the   *)
(* drive, the files that racing writers create, the queue of stem          *)
(* separations, the answers of the apply bridge, lists and waveforms, the  *)
(* upload of analysis files, and, from these, what DesktopSpec promises.   *)
(* They hold for every set of drives, connection calls, transfers, starts, *)
(* jobs, processes and lists and every finite set of requests and files.   *)
(***************************************************************************)
EXTENDS MCDesktop, FiniteSetTheorems, WellFoundedInduction, TLAPS

-----------------------------------------------------------------------------
(* The pending count.  The gate is not enough for either property: what is *)
(* quiet is decided by a counter, so the counter must be exact.            *)

\* The requests inside beginRequest ... finish.
Pending(req) == {r \in Requests : req[r].phase \in {"resolving", "stat"}}

PendingExact == usbPending = Cardinality(Pending(usbReq))

\* Whoever is about to connect has a drive to connect.
ConnectsDrive ==
  \A c \in Calls :
    /\ usbCall[c].phase \in {"picking", "inspecting"} => usbCall[c].root \in Roots
    /\ usbCall[c].phase \in {"waiting", "erasing"} /\ usbCall[c].kind = "select" =>
         usbCall[c].root \in Roots
    /\ usbCall[c].phase = "erasing" => usbCall[c].kind \in {"disconnect", "select"}
    /\ usbCall[c].phase = "waiting" => usbCall[c].kind # "reconnect"

\* Whoever reads knows the drive it reads.
ReadsDrive == \A r \in Requests : usbReq[r].phase # "idle" => usbReq[r].root \in Roots

UsbInv == /\ UsbTypeOK /\ PendingExact /\ ConnectsDrive /\ ReadsDrive
          /\ ReleasedIsQuiet /\ AdmittedKeepsRoot

LEMMA PendingFinite == \A req : IsFiniteSet(Pending(req)) /\ Cardinality(Pending(req)) \in Nat
  BY UsbAssumption, FS_Subset, FS_CardinalityType DEF Pending

\* beginRequest counts one more.
LEMMA PendingGrows ==
  ASSUME NEW req, NEW req2, NEW r \in Requests,
         req[r].phase \notin {"resolving", "stat"}, req2[r].phase \in {"resolving", "stat"},
         \A q \in Requests \ {r} : req2[q] = req[q]
  PROVE  Cardinality(Pending(req2)) = Cardinality(Pending(req)) + 1
  <1>1. Pending(req2) = Pending(req) \cup {r} /\ r \notin Pending(req)
    BY DEF Pending
  <1> QED BY <1>1, PendingFinite, FS_AddElement

\* finish counts one less.
LEMMA PendingShrinks ==
  ASSUME NEW req, NEW req2, NEW r \in Requests,
         req[r].phase \in {"resolving", "stat"}, req2[r].phase \notin {"resolving", "stat"},
         \A q \in Requests \ {r} : req2[q] = req[q]
  PROVE  /\ Cardinality(Pending(req)) > 0
         /\ Cardinality(Pending(req2)) = Cardinality(Pending(req)) - 1
         /\ Cardinality(Pending(req)) \in Nat
  <1>1. Pending(req) = Pending(req2) \cup {r} /\ r \notin Pending(req2)
    BY DEF Pending
  <1>2. Cardinality(Pending(req)) = Cardinality(Pending(req2)) + 1
    BY <1>1, PendingFinite, FS_AddElement
  <1> QED BY <1>2, PendingFinite

\* What is counted as quiet is quiet.
LEMMA QuietMeansIdle ==
  ASSUME UsbTypeOK, PendingExact, UsbQuiet
  PROVE  \A r \in Requests : usbReq[r].phase = "idle"
  <1>1. Pending(usbReq) = {}
    BY PendingFinite, FS_EmptySet DEF PendingExact, UsbQuiet
  <1> QED BY <1>1 DEF Pending, UsbQuiet, ActiveStreams, UsbTypeOK, UsbReqSet

LEMMA UsbInitInv == UsbInit => UsbInv
  <1> SUFFICES ASSUME UsbInit PROVE UsbInv
    OBVIOUS
  <1>1. UsbTypeOK
    BY UsbAssumption DEF UsbInit, UsbTypeOK, UsbReqSet, UsbCallSet, IdleReq, IdleCall, OpenGate
  <1>2. Pending(usbReq) = {}
    BY DEF UsbInit, Pending, IdleReq
  <1>3. PendingExact
    BY <1>2, FS_EmptySet DEF PendingExact, UsbInit
  <1> QED BY <1>1, <1>3
      DEF UsbInit, UsbInv, ConnectsDrive, ReadsDrive, ReleasedIsQuiet, AdmittedKeepsRoot, IdleReq,
          IdleCall, OpenGate

-----------------------------------------------------------------------------
(* Requests.                                                               *)

\* What a request step leaves alone is all that ConnectsDrive and the gate see.
LEMMA RequestKeeps ==
  ASSUME UsbInv, UsbRequestFrame, UsbTypeOK', PendingExact', ReadsDrive',
         ReleasedIsQuiet', AdmittedKeepsRoot'
  PROVE  UsbInv'
  BY DEF UsbInv, UsbRequestFrame, ConnectsDrive

LEMMA ResolveBeginInv == ASSUME UsbInv, NEW r \in Requests, ResolveBegin(r) PROVE UsbInv'
  <1> USE DEF UsbInv, ResolveBegin
  <1>1. UsbTypeOK'
    BY DEF UsbTypeOK, UsbReqSet, UsbRequestFrame
  <1>2. PendingExact'
    BY PendingGrows DEF PendingExact, UsbTypeOK
  <1>3. ReadsDrive' /\ ReleasedIsQuiet' /\ AdmittedKeepsRoot'
    BY DEF ReadsDrive, ReleasedIsQuiet, AdmittedKeepsRoot, Admits, UsbTypeOK, UsbRequestFrame
  <1> QED BY <1>1, <1>2, <1>3, RequestKeeps

LEMMA ResolveMintInv == ASSUME UsbInv, NEW r \in Requests, ResolveMint(r) PROVE UsbInv'
  <1> USE DEF UsbInv, ResolveMint, IdleReq
  <1>1. UsbTypeOK'
    BY DEF UsbTypeOK, UsbReqSet, UsbTokenSet, UsbRequestFrame, FinishRequest, ReadsDrive
  <1>2. PendingExact'
    <2>1. /\ Cardinality(Pending(usbReq)) > 0
          /\ Cardinality(Pending(usbReq')) = Cardinality(Pending(usbReq)) - 1
      <3>1. /\ usbReq[r].phase \in {"resolving", "stat"}
            /\ usbReq'[r].phase \notin {"resolving", "stat"}
            /\ \A q \in Requests \ {r} : usbReq'[q] = usbReq[q]
        BY DEF UsbTypeOK
      <3> HIDE DEF UsbInv, ResolveMint
      <3> QED BY <3>1, PendingShrinks
    <2> QED BY <2>1 DEF PendingExact, FinishRequest
  <1>3. ReadsDrive' /\ ReleasedIsQuiet' /\ AdmittedKeepsRoot'
    BY DEF ReadsDrive, ReleasedIsQuiet, AdmittedKeepsRoot, UsbTypeOK, UsbRequestFrame
  <1> QED BY <1>1, <1>2, <1>3, RequestKeeps

LEMMA MediaBeginInv ==
  ASSUME UsbInv, NEW r \in Requests, NEW t \in UsbTokenSet, MediaBegin(r, t)
  PROVE  UsbInv'
  <1> USE DEF UsbInv, MediaBegin
  <1>1. UsbTypeOK'
    BY DEF UsbTypeOK, UsbReqSet, UsbTokenSet, UsbRequestFrame
  <1>2. PendingExact'
    BY PendingGrows DEF PendingExact, UsbTypeOK
  <1>3. ReadsDrive' /\ ReleasedIsQuiet' /\ AdmittedKeepsRoot'
    BY UsbAssumption
    DEF ReadsDrive, ReleasedIsQuiet, AdmittedKeepsRoot, Admits, UsbTypeOK, UsbTokenSet, UsbRequestFrame
  <1> QED BY <1>1, <1>2, <1>3, RequestKeeps

LEMMA MediaOpenInv == ASSUME UsbInv, NEW r \in Requests, MediaOpen(r) PROVE UsbInv'
  <1> USE DEF UsbInv, MediaOpen, IdleReq
  <1>1. UsbTypeOK'
    BY DEF UsbTypeOK, UsbReqSet, UsbRequestFrame, FinishRequest
  <1>2. PendingExact'
    <2>1. /\ Cardinality(Pending(usbReq)) > 0
          /\ Cardinality(Pending(usbReq')) = Cardinality(Pending(usbReq)) - 1
      <3>1. /\ usbReq[r].phase \in {"resolving", "stat"}
            /\ usbReq'[r].phase \notin {"resolving", "stat"}
            /\ \A q \in Requests \ {r} : usbReq'[q] = usbReq[q]
        BY DEF UsbTypeOK
      <3> HIDE DEF UsbInv, MediaOpen
      <3> QED BY <3>1, PendingShrinks
    <2> QED BY <2>1 DEF PendingExact, FinishRequest
  <1>3. ReadsDrive' /\ ReleasedIsQuiet' /\ AdmittedKeepsRoot'
    BY DEF ReadsDrive, ReleasedIsQuiet, AdmittedKeepsRoot, Admits, UsbTypeOK, UsbReqSet, UsbRequestFrame
  <1> QED BY <1>1, <1>2, <1>3, RequestKeeps

LEMMA RequestEndInv == ASSUME UsbInv, NEW r \in Requests, RequestEnd(r) PROVE UsbInv'
  <1> USE DEF UsbInv, RequestEnd, IdleReq
  <1>1. UsbTypeOK'
    BY DEF UsbTypeOK, UsbReqSet, UsbRequestFrame, FinishRequest
  <1>2. PendingExact'
    <2>1. /\ Cardinality(Pending(usbReq)) > 0
          /\ Cardinality(Pending(usbReq')) = Cardinality(Pending(usbReq)) - 1
      <3>1. /\ usbReq[r].phase \in {"resolving", "stat"}
            /\ usbReq'[r].phase \notin {"resolving", "stat"}
            /\ \A q \in Requests \ {r} : usbReq'[q] = usbReq[q]
        BY DEF UsbTypeOK
      <3> HIDE DEF UsbInv, RequestEnd
      <3> QED BY <3>1, PendingShrinks
    <2> QED BY <2>1 DEF PendingExact, FinishRequest
  <1>3. ReadsDrive' /\ ReleasedIsQuiet' /\ AdmittedKeepsRoot'
    BY DEF ReadsDrive, ReleasedIsQuiet, AdmittedKeepsRoot, UsbTypeOK, UsbRequestFrame
  <1> QED BY <1>1, <1>2, <1>3, RequestKeeps

LEMMA StreamClosedInv == ASSUME UsbInv, NEW r \in Requests, StreamClosed(r) PROVE UsbInv'
  <1> USE DEF UsbInv, StreamClosed, IdleReq
  <1>1. UsbTypeOK'
    BY DEF UsbTypeOK, UsbReqSet, UsbRequestFrame
  <1>2. Pending(usbReq') = Pending(usbReq)
    BY DEF Pending, ActiveStreams, UsbTypeOK
  <1>3. PendingExact'
    BY <1>2 DEF PendingExact
  <1>4. ReadsDrive' /\ ReleasedIsQuiet' /\ AdmittedKeepsRoot'
    BY DEF ReadsDrive, ReleasedIsQuiet, AdmittedKeepsRoot, UsbTypeOK, UsbRequestFrame
  <1> QED BY <1>1, <1>3, <1>4, RequestKeeps

LEMMA RequestStepInv == ASSUME UsbInv, UsbRequestStep PROVE UsbInv'
  BY ResolveBeginInv, ResolveMintInv, MediaBeginInv, MediaOpenInv, RequestEndInv, StreamClosedInv
  DEF UsbRequestStep

-----------------------------------------------------------------------------
(* Sweeps.                                                                 *)

\* Telling streams to close ends no request and opens none.
SameRequests(req) ==
  /\ req \in [Requests -> UsbReqSet]
  /\ \A r \in Requests :
       /\ req[r].root = usbReq[r].root
       /\ (req[r].phase = "idle") = (usbReq[r].phase = "idle")
       /\ (req[r].phase \in {"resolving", "stat"}) = (usbReq[r].phase \in {"resolving", "stat"})
  /\ Pending(req) = Pending(usbReq)

LEMMA DestroyedKeeps ==
  ASSUME UsbTypeOK
  PROVE  SameRequests(usbReq) /\ SameRequests(Destroyed(usbReq))
  BY DEF SameRequests, Destroyed, UsbTypeOK, UsbReqSet, Pending

\* A caller that goes on when a sweep ends is well typed and keeps its drive.
LEMMA ContinuedTyped ==
  ASSUME NEW call \in UsbCallSet, call.phase = "waiting", call.kind # "reconnect",
         call.kind = "select" => call.root \in Roots,
         NEW allClosed \in BOOLEAN
  PROVE  /\ Continued(call, allClosed) \in UsbCallSet
         /\ Continued(call, allClosed).phase \in {"answered", "erasing"}
         /\ Continued(call, allClosed).phase = "erasing" =>
              /\ Continued(call, allClosed).kind \in {"disconnect", "select"}
              /\ Continued(call, allClosed).kind = "select" =>
                   Continued(call, allClosed).root \in Roots
  BY UsbAssumption DEF Continued, UsbCallSet, AnsweredCall, IdleCall

\* #releaseAll returns, for callers `calls` that include one that just joined.  The
\* connection is forgotten and the gate says released only when nothing is left.
LEMMA SweepResultInv ==
  ASSUME UsbInv, NEW s \in Calls, NEW calls \in [Calls -> UsbCallSet], NEW allClosed \in BOOLEAN,
         SweepResult(s, calls, allClosed),
         \A c \in Calls :
           /\ calls[c].phase \in {"picking", "inspecting"} => calls[c].root \in Roots
           /\ calls[c].phase \in {"waiting", "erasing"} /\ calls[c].kind = "select" =>
                calls[c].root \in Roots
           /\ calls[c].phase = "erasing" => calls[c].kind \in {"disconnect", "select"}
           /\ calls[c].phase = "waiting" => calls[c].kind # "reconnect",
         allClosed => UsbQuiet,
         usbReq' = usbReq \/ usbReq' = Destroyed(usbReq), usbTokens' \subseteq UsbTokenSet,
         UNCHANGED <<usbSaved, usbPending>>
  PROVE  UsbInv'
  <1> USE DEF UsbInv
  <1>1. usbCall' \in [Calls -> UsbCallSet] /\ ConnectsDrive'
    BY ContinuedTyped DEF SweepResult, ConnectsDrive, Awaits
  <1>2. SameRequests(usbReq')
    BY DestroyedKeeps
  <1>3. UsbTypeOK'
    BY <1>1, <1>2 DEF SameRequests, UsbTypeOK, SweepResult, ConnectionAfter
  <1>4. PendingExact'
    BY <1>2 DEF SameRequests, PendingExact
  <1>5. ReleasedIsQuiet'
    BY <1>2, QuietMeansIdle DEF SameRequests, ReleasedIsQuiet, SweepResult
  <1>6. AdmittedKeepsRoot'
    BY <1>2, QuietMeansIdle DEF SameRequests, AdmittedKeepsRoot, SweepResult, ConnectionAfter
  <1>7. ReadsDrive'
    BY <1>2 DEF SameRequests, ReadsDrive
  <1> QED BY <1>1, <1>3, <1>4, <1>5, <1>6, <1>7

LEMMA SweepStepInv == ASSUME UsbInv, UsbSweepStep PROVE UsbInv'
  <1> PICK s \in Calls : SweepDone(s) \/ SweepAgain(s) \/ SweepTimesOut(s)
    BY DEF UsbSweepStep
  <1> USE DEF UsbInv
  <1>1. CASE SweepDone(s)
    BY <1>1, SweepResultInv DEF SweepDone, UsbTypeOK, ConnectsDrive
  <1>2. CASE SweepAgain(s)
    <2>1. SameRequests(usbReq')
      BY <1>2, DestroyedKeeps DEF SweepAgain
    <2>2. UsbTypeOK'
      BY <1>2, <2>1 DEF SameRequests, SweepAgain, UsbTypeOK
    <2> QED BY <1>2, <2>1, <2>2
      DEF SameRequests, SweepAgain, PendingExact, ReadsDrive, ReleasedIsQuiet, AdmittedKeepsRoot, ConnectsDrive
  <1>3. CASE SweepTimesOut(s)
    BY <1>3, SweepResultInv DEF SweepTimesOut, UsbTypeOK, ConnectsDrive
  <1> QED BY <1>1, <1>2, <1>3

-----------------------------------------------------------------------------
(* Connection calls.                                                       *)

\* The gate closes and the call joins a sweep, starts one, or is done at once.
LEMMA ReleaseFromInv ==
  ASSUME UsbInv, NEW c \in Calls, NEW call \in UsbCallSet, call.kind # "reconnect",
         call.kind = "select" => call.root \in Roots, ReleaseFrom(c, call)
  PROVE  UsbInv'
  <1> DEFINE s == IF usbPromise = NoCall THEN c ELSE usbPromise
             calls == [usbCall EXCEPT ![c] = [call EXCEPT !.phase = "waiting", !.sweep = s]]
  <1>1. s \in Calls /\ calls \in [Calls -> UsbCallSet]
    BY DEF UsbInv, UsbTypeOK, UsbCallSet
  <1>2. \A d \in Calls :
          /\ calls[d].phase \in {"picking", "inspecting"} => calls[d].root \in Roots
          /\ calls[d].phase \in {"waiting", "erasing"} /\ calls[d].kind = "select" =>
               calls[d].root \in Roots
          /\ calls[d].phase = "erasing" => calls[d].kind \in {"disconnect", "select"}
          /\ calls[d].phase = "waiting" => calls[d].kind # "reconnect"
    BY DEF UsbInv, UsbTypeOK, UsbCallSet, ConnectsDrive
  <1>3. usbTokens' = {} /\ UNCHANGED <<usbSaved, usbPending>>
    BY DEF ReleaseFrom
  <1>4. \/ UsbQuiet /\ SweepResult(s, calls, TRUE) /\ UNCHANGED usbReq
        \/ /\ usbGate' = ClosedGate /\ usbCall' = calls /\ usbPromise' = s
           /\ usbSweeps' = usbSweeps \cup (IF s = c THEN {c} ELSE {})
           /\ usbReq' = IF s = c THEN Destroyed(usbReq) ELSE usbReq
           /\ UNCHANGED usbConn
    BY DEF ReleaseFrom
  <1>5. CASE UsbQuiet /\ SweepResult(s, calls, TRUE) /\ UNCHANGED usbReq
    <2> HIDE DEF s, calls
    <2> QED BY <1>1, <1>2, <1>3, <1>5, SweepResultInv
  <1>6. CASE /\ usbGate' = ClosedGate /\ usbCall' = calls /\ usbPromise' = s
             /\ usbSweeps' = usbSweeps \cup (IF s = c THEN {c} ELSE {})
             /\ usbReq' = IF s = c THEN Destroyed(usbReq) ELSE usbReq
             /\ UNCHANGED usbConn
    <2> HIDE DEF s, calls
    <2>1. SameRequests(usbReq')
      BY <1>6, DestroyedKeeps DEF UsbInv
    <2>2. UsbTypeOK'
      BY <1>1, <1>3, <1>6, <2>1 DEF UsbInv, UsbTypeOK, SameRequests, ClosedGate
    <2>3. ConnectsDrive'
      BY <1>2, <1>6 DEF ConnectsDrive
    <2> QED BY <1>3, <1>6, <2>1, <2>2, <2>3
        DEF UsbInv, SameRequests, PendingExact, ReadsDrive, ReleasedIsQuiet, AdmittedKeepsRoot,
            ClosedGate
  <1> QED BY <1>4, <1>5, <1>6

LEMMA CallStepInv == ASSUME UsbInv, UsbCallStep PROVE UsbInv'
  <1> PICK c \in Calls : \/ \E kind \in {"release", "disconnect"} : Release(c, kind)
                         \/ EraseSaved(c)
                         \/ \E root \in Roots : SelectBegin(c, root)
                         \/ SelectSet(c) \/ SelectSaved(c)
                         \/ ReconnectBegin(c) \/ ReconnectSet(c) \/ ConnectFails(c)
    BY DEF UsbCallStep
  <1> USE UsbAssumption
      DEF UsbInv, UsbTypeOK, UsbCallSet, ConnectsDrive, IdleCall, AnsweredCall
  <1>1. ASSUME NEW kind \in {"release", "disconnect"}, Release(c, kind) PROVE UsbInv'
    <2>1. [IdleCall EXCEPT !.kind = kind] \in UsbCallSet
      OBVIOUS
    <2>2. [IdleCall EXCEPT !.kind = kind].kind = kind
      OBVIOUS
    <2> HIDE DEF UsbInv, UsbCallSet, IdleCall
    <2> QED BY <1>1, <2>1, <2>2, ReleaseFromInv DEF Release
  <1>2. CASE EraseSaved(c)
    <2> DEFINE next == IF usbCall[c].kind = "select" THEN [usbCall[c] EXCEPT !.phase = "picking"]
                       ELSE AnsweredCall("disconnect", "away")
    <2>1. /\ next \in UsbCallSet /\ next.phase \in {"picking", "answered"}
          /\ next.phase = "picking" => next.root \in Roots
      BY <1>2, ZenonT(60) DEF EraseSaved
    <2>2. usbCall' = [usbCall EXCEPT ![c] = next]
      BY <1>2 DEF EraseSaved
    <2> HIDE DEF next
    <2> QED BY <1>2, <2>1, <2>2
        DEF EraseSaved, PendingExact, ReadsDrive, ReleasedIsQuiet, AdmittedKeepsRoot
  <1>3. ASSUME NEW root \in Roots, SelectBegin(c, root) PROVE UsbInv'
    <2> DEFINE call == [IdleCall EXCEPT !.kind = "select", !.root = root]
    <2>1. call \in UsbCallSet /\ call.kind = "select" /\ call.root = root
      OBVIOUS
    <2>2. CASE ReleaseFrom(c, call)
      <3> HIDE DEF UsbInv, UsbCallSet, call
      <3> QED BY <2>1, <2>2, ReleaseFromInv
    <2>3. CASE /\ usbCall' = [usbCall EXCEPT ![c] = [call EXCEPT !.phase = "picking"]]
               /\ UNCHANGED <<usbConn, usbSaved, usbTokens, usbGate, usbPending, usbReq,
                              usbPromise, usbSweeps>>
      BY <2>3 DEF PendingExact, ReadsDrive, ReleasedIsQuiet, AdmittedKeepsRoot
    <2> QED BY <1>3, <2>2, <2>3 DEF SelectBegin
  <1>4. CASE SelectSet(c)
    BY <1>4 DEF SelectSet, PendingExact, ReadsDrive, ReleasedIsQuiet, AdmittedKeepsRoot
  <1>5. CASE SelectSaved(c)
    BY <1>5 DEF SelectSaved, ResetForConnection, OpenGate, PendingExact, ReadsDrive,
                ReleasedIsQuiet, AdmittedKeepsRoot
  <1>6. CASE ReconnectBegin(c)
    BY <1>6 DEF ReconnectBegin, PendingExact, ReadsDrive, ReleasedIsQuiet, AdmittedKeepsRoot
  <1>7. CASE ReconnectSet(c)
    BY <1>7 DEF ReconnectSet, ResetForConnection, OpenGate, PendingExact, ReadsDrive,
                ReleasedIsQuiet, AdmittedKeepsRoot
  <1>8. CASE ConnectFails(c)
    BY <1>8 DEF ConnectFails, PendingExact, ReadsDrive, ReleasedIsQuiet, AdmittedKeepsRoot
  <1> QED BY <1>1, <1>2, <1>3, <1>4, <1>5, <1>6, <1>7, <1>8

LEMMA CallAnsweredInv == ASSUME UsbInv, NEW c \in Calls, CallAnswered(c) PROVE UsbInv'
  BY UsbAssumption
  DEF CallAnswered, UsbInv, UsbTypeOK, UsbCallSet, ConnectsDrive, IdleCall, PendingExact,
      ReadsDrive, ReleasedIsQuiet, AdmittedKeepsRoot

LEMMA AppStartInv == ASSUME UsbInv, AppStart PROVE UsbInv'
  <1>1. Pending(usbReq') = {}
    BY DEF AppStart, Pending, IdleReq
  <1>2. PendingExact'
    BY <1>1, FS_EmptySet DEF PendingExact, AppStart
  <1>3. UsbTypeOK'
    BY UsbAssumption
    DEF UsbInv, AppStart, UsbTypeOK, UsbReqSet, UsbCallSet, IdleReq, IdleCall, OpenGate
  <1> QED BY <1>2, <1>3
      DEF AppStart, UsbInv, ConnectsDrive, ReadsDrive, ReleasedIsQuiet, AdmittedKeepsRoot,
          IdleReq, IdleCall, OpenGate

LEMMA UsbStepInv == UsbInv /\ [UsbNext]_usbVars => UsbInv'
  <1> SUFFICES ASSUME UsbInv, [UsbNext]_usbVars PROVE UsbInv'
    OBVIOUS
  <1>1. CASE UsbNext
    BY <1>1, RequestStepInv, SweepStepInv, CallStepInv, CallAnsweredInv, AppStartInv DEF UsbNext
  <1>2. CASE UNCHANGED usbVars
    BY <1>2 DEF usbVars, UsbInv, UsbTypeOK, ConnectsDrive, PendingExact, ReadsDrive,
                ReleasedIsQuiet, AdmittedKeepsRoot
  <1> QED BY <1>1, <1>2

-----------------------------------------------------------------------------
\* Every state of the registry and the connection is well typed.
THEOREM UsbTypeCorrect == UsbSpec => []UsbTypeOK
  <1>1. UsbInv => UsbTypeOK
    BY DEF UsbInv
  <1> QED BY <1>1, UsbInitInv, UsbStepInv, PTL DEF UsbSpec

\* Once the registry reports a release, no stream is open and no request is on its way
\* to opening one, for any number of requests, calls and drives.
THEOREM ReleasedQuiet == UsbSpec => []ReleasedIsQuiet
  <1>1. UsbInv => ReleasedIsQuiet
    BY DEF UsbInv
  <1> QED BY <1>1, UsbInitInv, UsbStepInv, PTL DEF UsbSpec

\* No request that was admitted loses its connection before it has opened its file.
THEOREM AdmittedConnected == UsbSpec => []AdmittedKeepsRoot
  <1>1. UsbInv => AdmittedKeepsRoot
    BY DEF UsbInv
  <1> QED BY <1>1, UsbInitInv, UsbStepInv, PTL DEF UsbSpec

-----------------------------------------------------------------------------
(* The identity file.                                                      *)

\* Flag wx lets one start create the file: while it is written it is empty, nobody
\* else writes and nobody has an identifier yet.
OneIdWriter ==
  \A s \in Starts : idCall[s] = "writing" =>
    /\ idFile = {}
    /\ \A t \in Starts : idCall[t] = "writing" => t = s

IdInv ==
  /\ idFile \in {NoId} \cup SUBSET Starts
  /\ idCall \in [Starts -> {"new", "missing", "writing", "raced", "done", "failed"}]
  /\ idGot \in [Starts -> Starts \cup {NoId}]
  /\ OneIdWriter
  /\ OneIdentity
  /\ idFile # NoId => \A s, t \in idFile : s = t

LEMMA IdInitInv == IdInit => IdInv
  BY IdAssumption DEF IdInit, IdInv, OneIdWriter, OneIdentity

LEMMA IdStepInv == IdInv /\ [IdNext]_idVars => IdInv'
  <1> SUFFICES ASSUME IdInv, [IdNext]_idVars PROVE IdInv'
    OBVIOUS
  <1> USE IdAssumption DEF IdInv, OneIdWriter, OneIdentity, Moved
  <1>1. ASSUME NEW s \in Starts, NEW from \in {"new", "raced"}, NEW missing \in {"missing", "failed"},
               ReadId(s, from, missing)
        PROVE  IdInv'
    <2>1. CASE idFile = NoId
      BY <1>1, <2>1 DEF ReadId
    <2>2. CASE idFile = {}
      BY <1>1, <2>2 DEF ReadId
    <2>3. CASE idFile \notin {NoId, {}}
      BY <1>1, <2>3 DEF ReadId
    <2> QED BY <2>1, <2>2, <2>3
  <1>2. ASSUME NEW s \in Starts, CreateFile(s) PROVE IdInv'
    BY <1>2 DEF CreateFile
  <1>3. ASSUME NEW s \in Starts, WriteId(s) PROVE IdInv'
    BY <1>3 DEF WriteId
  <1>4. CASE UNCHANGED idVars
    BY <1>4 DEF idVars
  <1> QED BY <1>1, <1>2, <1>3, <1>4 DEF IdNext

-----------------------------------------------------------------------------
(* The destination of a transfer.                                          *)

DriveTyped == trGuest \subseteq TrFiles /\ trDrive \in [TrFiles -> {"absent", "theirs", "ours"}]

LEMMA TransferInitInv == TransferInit => DriveTyped /\ NeverOverwrites
  BY DEF TransferInit, DriveTyped, NeverOverwrites

LEMMA TransferStepInv ==
  DriveTyped /\ NeverOverwrites /\ [TransferNext]_transferVars => (DriveTyped /\ NeverOverwrites)'
  <1> SUFFICES ASSUME DriveTyped, NeverOverwrites, [TransferNext]_transferVars
               PROVE  (DriveTyped /\ NeverOverwrites)'
    OBVIOUS
  <1> USE DEF DriveTyped, NeverOverwrites
  <1>1. ASSUME NEW t \in Transfers, CopyFile(t) PROVE (DriveTyped /\ NeverOverwrites)'
    BY <1>1 DEF CopyFile, PutFile
  <1>2. CASE UNCHANGED <<trDrive, trGuest>>
    BY <1>2
  <1>3. (\E t \in Transfers : CopyFile(t)) \/ UNCHANGED <<trDrive, trGuest>>
    BY DEF TransferNext, transferVars, ChooseDestination, ClearDestination, CancelTransfer,
           TransferBegin, TransferCopies, TransferRefused, SourceOpened, ListFolder, TransferEnds,
           FileFails
  <1> QED BY <1>1, <1>2, <1>3
-----------------------------------------------------------------------------
(* The apply bridge.                                                       *)

\* A result line is printed for a request that was carried out, so whatever the
\* wire still holds when its request has timed out is true of that request.
BridgeInv ==
  /\ brReq \in [BridgeRequests -> {"new", "waiting", "ok", "error"}]
  /\ brWire \subseteq brDone
  /\ SuccessIsReal

LEMMA BridgeInitInv == BridgeInit => BridgeInv
  BY DEF BridgeInit, BridgeInv, SuccessIsReal

LEMMA BridgeStepInv == BridgeInv /\ [BridgeNext]_bridgeVars => BridgeInv'
  <1> SUFFICES ASSUME BridgeInv, [BridgeNext]_bridgeVars PROVE BridgeInv'
    OBVIOUS
  <1> USE DEF BridgeInv, SuccessIsReal
  <1>1. ASSUME NEW r \in BridgeRequests, brReq[r] \in {"new", "waiting"},
               \/ brReq' = [brReq EXCEPT ![r] = "waiting"]
               \/ brReq' = [brReq EXCEPT ![r] = "error"],
               UNCHANGED <<brDone, brWire>>
        PROVE  BridgeInv'
    BY <1>1
  <1>2. ASSUME brReq' = FailAll(brReq), UNCHANGED <<brDone, brWire>> PROVE BridgeInv'
    BY <1>2 DEF FailAll
  <1>3. ASSUME NEW r \in BridgeRequests, CarryOut(r) PROVE BridgeInv'
    BY <1>3 DEF CarryOut
  <1>4. ASSUME NEW r \in BridgeRequests, Consume(r) PROVE BridgeInv'
    BY <1>4 DEF Consume, Deliver
  <1>5. CASE UNCHANGED <<brReq, brDone, brWire>>
    BY <1>5
  <1>6. ASSUME NEW r \in BridgeRequests, RequestSent(r) \/ RequestRefused(r) \/ RequestTimesOut(r)
        PROVE  BridgeInv'
    BY <1>1, <1>6 DEF RequestSent, RequestRefused, RequestTimesOut
  <1>7. ASSUME NEW k \in BridgeProcs, SpawnFails(k) \/ ProcDies(k) \/ ExitEvent(k)
        PROVE  BridgeInv'
    BY <1>2, <1>5, <1>7 DEF SpawnFails, ProcDies, ExitEvent
  <1>8. CASE CloseBridge
    BY <1>2, <1>8 DEF CloseBridge
  <1>9. CASE UNCHANGED bridgeVars
    BY <1>5, <1>9 DEF bridgeVars
  <1> QED BY <1>3, <1>4, <1>6, <1>7, <1>8, <1>9 DEF BridgeNext

-----------------------------------------------------------------------------
(* The queue of stem separations.                                          *)

\* Induction, in the form the provers can use: a set of naturals that is not
\* empty has a least member.
LEMMA LeastNatural ==
  ASSUME NEW T, T \subseteq Nat, T # {}
  PROVE  \E n \in T : \A m \in T : n <= m
  <1>1. PICK n \in T : \A m \in T : ~(<<m, n>> \in OpToRel(<, Nat))
    BY WFMin, NatLessThanWellFounded
  <1>2. \A m \in T : ~(m < n)
    BY <1>1 DEF OpToRel
  <1> QED BY <1>2

\* g is the function kept of Without on 0..n.
FiltersTo(g, n, queue, gone) ==
  g = [i \in 0..n |-> IF i = 0 THEN << >>
                      ELSE IF queue[i] \in gone THEN g[i - 1]
                      ELSE Append(g[i - 1], queue[i])]

\* The recursive definition of Without has a solution, for a queue of any length.
LEMMA FilterExists ==
  ASSUME NEW queue, NEW gone, NEW len \in Nat
  PROVE  \E g : FiltersTo(g, len, queue, gone)
  <1> DEFINE Has(n) == \E g : FiltersTo(g, n, queue, gone)
             T == {n \in Nat : ~Has(n)}
  <1>1. Has(0)
    <2> DEFINE g == [i \in 0..0 |-> << >>]
    <2>1. FiltersTo(g, 0, queue, gone)
      BY DEF FiltersTo
    <2> QED BY <2>1
  <1>2. ASSUME NEW n \in Nat, Has(n) PROVE Has(n + 1)
    <2>1. PICK g : FiltersTo(g, n, queue, gone)
      BY <1>2
    <2> DEFINE h == [i \in 0..(n + 1) |->
                       IF i \in 0..n THEN g[i]
                       ELSE IF queue[n + 1] \in gone THEN g[n] ELSE Append(g[n], queue[n + 1])]
               e == [i \in 0..(n + 1) |-> IF i = 0 THEN << >>
                      ELSE IF queue[i] \in gone THEN h[i - 1]
                      ELSE Append(h[i - 1], queue[i])]
    <2>2. \A i \in 0..n : g[i] = IF i = 0 THEN << >>
                      ELSE IF queue[i] \in gone THEN g[i - 1]
                      ELSE Append(g[i - 1], queue[i])
      BY <2>1 DEF FiltersTo
    <2>3. ASSUME NEW i \in 0..(n + 1) PROVE h[i] = e[i]
      <3>1. CASE i \in 0..n
        <4>1. h[i] = g[i] /\ (i # 0 => h[i - 1] = g[i - 1])
          BY <3>1
        <4> QED BY <2>2, <3>1, <4>1
      <3>2. CASE i = n + 1
        <4>1. i # 0 /\ i \notin 0..n /\ i - 1 = n /\ h[n] = g[n]
          BY <3>2
        <4> QED BY <3>2, <4>1
      <3> QED BY <3>1, <3>2
    <2>4. h = e
      BY <2>3
    <2>5. FiltersTo(h, n + 1, queue, gone)
      BY <2>4 DEF FiltersTo
    <2> QED BY <2>5
  <1> HIDE DEF Has
  <1>3. T = {}
    <2> SUFFICES ASSUME T # {} PROVE FALSE
      OBVIOUS
    <2>1. PICK n \in T : \A m \in T : n <= m
      BY LeastNatural
    <2>2. n # 0
      BY <1>1
    <2>3. n - 1 \in Nat /\ n - 1 \notin T /\ n = (n - 1) + 1
      BY <2>1, <2>2
    <2>4. Has(n - 1)
      BY <2>3
    <2>5. Has(n)
      BY <1>2, <2>3, <2>4
    <2> QED BY <2>5
  <1> QED BY <1>3 DEF Has

\* The entries of a queue; none of them is there twice.
Listed(s) == {s[i] : i \in 1..Len(s)}
Unrepeated(s) == \A i, k \in 1..Len(s) : s[i] = s[k] => i = k

\* Without keeps the jobs that are not gone, and repeats none.
LEMMA WithoutListed ==
  ASSUME NEW S, NEW queue \in Seq(S), NEW gone
  PROVE  /\ Without(queue, gone) \in Seq(S)
         /\ Listed(Without(queue, gone)) = Listed(queue) \ gone
         /\ Unrepeated(queue) => Unrepeated(Without(queue, gone))
  <1> DEFINE n == Len(queue)
             kept == CHOOSE g : FiltersTo(g, n, queue, gone)
             Good(i) == /\ kept[i] \in Seq(S)
                        /\ Listed(kept[i]) = {queue[k] : k \in 1..i} \ gone
                        /\ Unrepeated(queue) => Unrepeated(kept[i])
             T == {i \in 0..n : ~Good(i)}
  <1>1. Without(queue, gone) = kept[n]
    BY DEF Without, FiltersTo
  <1>2. FiltersTo(kept, n, queue, gone)
    BY FilterExists
  <1> HIDE DEF kept
  <1>3. \A i \in 0..n : kept[i] = IF i = 0 THEN << >>
                                  ELSE IF queue[i] \in gone THEN kept[i - 1]
                                  ELSE Append(kept[i - 1], queue[i])
    BY <1>2 DEF FiltersTo
  <1>4. Good(0)
    <2>1. kept[0] = << >> /\ 1..Len(<< >>) = {}
      BY <1>3
    <2>2. {queue[k] : k \in 1..0} = {}
      OBVIOUS
    <2> QED BY <2>1, <2>2 DEF Listed, Unrepeated
  <1>5. ASSUME NEW i \in 1..n, Good(i - 1) PROVE Good(i)
    <2>1. queue[i] \in S
      OBVIOUS
    <2>2. CASE queue[i] \in gone
      <3>1. kept[i] = kept[i - 1]
        BY <1>3, <2>2
      <3>2. {queue[k] : k \in 1..i} \ gone = {queue[k] : k \in 1..(i - 1)} \ gone
        BY <2>2
      <3> QED BY <1>5, <3>1, <3>2
    <2>3. CASE queue[i] \notin gone
      <3>1. kept[i] = Append(kept[i - 1], queue[i])
        <4>1. i \in 0..n /\ i # 0
          OBVIOUS
        <4> QED BY <1>3, <2>3, <4>1, Zenon
      <3> DEFINE old == kept[i - 1]
                 new == Append(old, queue[i])
      <3>2. /\ new \in Seq(S) /\ Len(new) = Len(old) + 1 /\ new[Len(new)] = queue[i]
            /\ \A k \in 1..Len(old) : new[k] = old[k]
        BY <1>5, <2>1
      <3>3. Listed(new) = Listed(old) \cup {queue[i]}
        BY <1>5, <3>2 DEF Listed
      <3>4. {queue[k] : k \in 1..i} \ gone = ({queue[k] : k \in 1..(i - 1)} \ gone) \cup {queue[i]}
        BY <2>3
      <3>5. Unrepeated(queue) => queue[i] \notin {queue[k] : k \in 1..(i - 1)}
        BY DEF Unrepeated
      <3>6. Unrepeated(queue) => queue[i] \notin Listed(old)
        BY <1>5, <3>5
      <3>7. Unrepeated(queue) => Unrepeated(new)
        BY <1>5, <3>2, <3>6 DEF Unrepeated, Listed
      <3> QED BY <1>5, <3>1, <3>2, <3>3, <3>4, <3>7
    <2> QED BY <2>2, <2>3
  <1> HIDE DEF Good
  <1>6. T = {}
    <2> SUFFICES ASSUME T # {} PROVE FALSE
      OBVIOUS
    <2>1. PICK i \in T : \A m \in T : i <= m
      <3>1. T \subseteq Nat
        OBVIOUS
      <3> QED BY <3>1, LeastNatural
    <2>2. i # 0
      BY <1>4
    <2>3. i \in 1..n /\ i - 1 \in 0..n /\ i - 1 \notin T
      BY <2>1, <2>2
    <2>4. Good(i - 1)
      BY <2>3
    <2>5. Good(i)
      BY <1>5, <2>3, <2>4
    <2> QED BY <2>5
  <1>7. Good(n)
    BY <1>6
  <1> QED BY <1>1, <1>7 DEF Good, Listed

AtRest == {"none", "queued"}
Separating == {j \in StemJobs : stemJob[j].phase \notin AtRest}

\* What runs is what separationActive holds; it holds one job at most; the queue
\* holds the waiting jobs, each once.
StemInv ==
  /\ stemJob \in [StemJobs -> [phase : StemPhases, cancelled : BOOLEAN,
                               result : {"none", "ok", "cancelled", "failed"}]]
  /\ stemQueue \in Seq(StemJobs)
  /\ Unrepeated(stemQueue)
  /\ Listed(stemQueue) = {j \in StemJobs : stemJob[j].phase = "queued"}
  /\ stemActive = Separating
  /\ \A i, j \in stemActive : i = j

LEMMA StemInitInv == StemInit => StemInv
  <1> SUFFICES ASSUME StemInit PROVE StemInv
    OBVIOUS
  <1> USE DEF StemInit, StemInv, NoJob
  <1>1. stemQueue = << >> /\ stemQueue \in Seq(StemJobs) /\ Len(stemQueue) = 0 /\ 1..0 = {}
    OBVIOUS
  <1>2. Listed(stemQueue) = {} /\ Unrepeated(stemQueue)
    BY <1>1 DEF Listed, Unrepeated
  <1>3. stemJob \in [StemJobs -> [phase : StemPhases, cancelled : BOOLEAN,
                                  result : {"none", "ok", "cancelled", "failed"}]]
    BY DEF StemPhases
  <1>4. \A j \in StemJobs : stemJob[j].phase = "none"
    OBVIOUS
  <1>5. Separating = {} /\ {j \in StemJobs : stemJob[j].phase = "queued"} = {}
    BY <1>4 DEF Separating, AtRest
  <1> QED BY <1>1, <1>2, <1>3, <1>5

\* One job among those that run takes a step: the queue does not see it.
LEMMA StemRunsOn ==
  ASSUME StemInv, NEW j \in StemJobs, stemJob[j].phase \notin AtRest,
         stemJob' \in [StemJobs -> [phase : StemPhases, cancelled : BOOLEAN,
                                    result : {"none", "ok", "cancelled", "failed"}]],
         stemJob'[j].phase \notin AtRest,
         \A k \in StemJobs \ {j} : stemJob'[k] = stemJob[k],
         UNCHANGED <<stemQueue, stemActive>>
  PROVE  StemInv'
  <1>1. \A k \in StemJobs : /\ (stemJob'[k].phase = "queued") = (stemJob[k].phase = "queued")
                            /\ (stemJob'[k].phase \in AtRest) = (stemJob[k].phase \in AtRest)
    BY DEF AtRest
  <1>2. {k \in StemJobs : stemJob'[k].phase = "queued"} = {k \in StemJobs : stemJob[k].phase = "queued"}
    BY <1>1
  <1>3. Separating' = Separating
    BY <1>1 DEF Separating
  <1> QED BY <1>2, <1>3 DEF StemInv, Unrepeated, Listed

\* An appended job is the last one listed.
LEMMA AppendListed ==
  ASSUME NEW S, NEW q \in Seq(S), NEW j \in S
  PROVE  /\ Append(q, j) \in Seq(S) /\ Append(q, j) # << >>
         /\ Listed(Append(q, j)) = Listed(q) \cup {j}
         /\ Unrepeated(q) /\ j \notin Listed(q) => Unrepeated(Append(q, j))
  <1> DEFINE a == Append(q, j)
  <1>1. /\ a \in Seq(S) /\ Len(a) = Len(q) + 1 /\ a[Len(q) + 1] = j
        /\ \A i \in 1..Len(q) : a[i] = q[i]
    OBVIOUS
  <1>2. a # << >>
    BY <1>1
  <1>3. Listed(a) = Listed(q) \cup {j}
    BY <1>1 DEF Listed
  <1>4. Unrepeated(q) /\ j \notin Listed(q) => Unrepeated(a)
    BY <1>1 DEF Unrepeated, Listed
  <1> QED BY <1>1, <1>2, <1>3, <1>4

\* The head is listed once; the tail lists the others.
LEMMA TailListed ==
  ASSUME NEW S, NEW q \in Seq(S), q # << >>, Unrepeated(q)
  PROVE  /\ Tail(q) \in Seq(S) /\ Head(q) \in Listed(q)
         /\ Listed(Tail(q)) = Listed(q) \ {Head(q)}
         /\ Unrepeated(Tail(q))
  <1> DEFINE t == Tail(q)
  <1>1. /\ t \in Seq(S) /\ Len(q) \in Nat \ {0} /\ Len(t) = Len(q) - 1 /\ Head(q) = q[1]
        /\ \A i \in 1..Len(t) : t[i] = q[i + 1]
    OBVIOUS
  <1>2. Head(q) \in Listed(q)
    BY <1>1 DEF Listed
  <1>3. Unrepeated(t)
    BY <1>1 DEF Unrepeated
  <1>4. ASSUME NEW x \in Listed(t) PROVE x \in Listed(q) \ {Head(q)}
    <2>1. PICK i \in 1..Len(t) : x = q[i + 1]
      BY <1>1 DEF Listed
    <2>2. i + 1 \in 1..Len(q) /\ i + 1 # 1
      BY <1>1
    <2> QED BY <1>1, <2>1, <2>2 DEF Listed, Unrepeated
  <1>5. ASSUME NEW x \in Listed(q) \ {Head(q)} PROVE x \in Listed(t)
    <2>1. PICK i \in 1..Len(q) : x = q[i]
      BY DEF Listed
    <2>2. i # 1
      BY <1>1, <2>1
    <2>3. i - 1 \in 1..Len(t) /\ t[i - 1] = q[i]
      BY <1>1, <2>2
    <2> QED BY <2>1, <2>3 DEF Listed
  <1> QED BY <1>1, <1>2, <1>3, <1>4, <1>5

\* _pumpSeparationQueue: jobs, queue and active are what its caller leaves behind.
LEMMA PumpInv ==
  ASSUME NEW jobs \in [StemJobs -> [phase : StemPhases, cancelled : BOOLEAN,
                                    result : {"none", "ok", "cancelled", "failed"}]],
         NEW queue \in Seq(StemJobs), NEW active,
         Unrepeated(queue),
         Listed(queue) = {j \in StemJobs : jobs[j].phase = "queued"},
         active = {j \in StemJobs : jobs[j].phase \notin AtRest},
         \A i, j \in active : i = j,
         StemPump(jobs, queue, active)
  PROVE  StemInv'
  <1>1. CASE active = {} /\ queue # << >>
    <2> DEFINE h == Head(queue)
    <2>1. /\ Tail(queue) \in Seq(StemJobs) /\ h \in Listed(queue)
          /\ Listed(Tail(queue)) = Listed(queue) \ {h} /\ Unrepeated(Tail(queue))
      BY <1>1, TailListed
    <2>2. h \in StemJobs /\ jobs[h].phase = "queued"
      BY <2>1
    <2>3. /\ stemQueue' = Tail(queue) /\ stemActive' = {h}
          /\ stemJob' = [jobs EXCEPT ![h].phase = "loading"]
      BY <1>1 DEF StemPump
    <2> HIDE DEF h
    <2>4. stemJob' \in [StemJobs -> [phase : StemPhases, cancelled : BOOLEAN,
                                     result : {"none", "ok", "cancelled", "failed"}]]
      BY <2>2, <2>3 DEF StemPhases
    <2>5. stemJob'[h].phase = "loading" /\ \A j \in StemJobs \ {h} : stemJob'[j] = jobs[j]
      BY <2>2, <2>3
    <2>6. Listed(stemQueue') = {j \in StemJobs : stemJob'[j].phase = "queued"}
      BY <2>1, <2>2, <2>3, <2>5
    <2>7. stemActive' = Separating'
      BY <1>1, <2>2, <2>3, <2>5 DEF Separating, AtRest
    <2> QED BY <2>1, <2>3, <2>4, <2>6, <2>7 DEF StemInv, Unrepeated, Listed
  <1>2. CASE ~(active = {} /\ queue # << >>)
    <2>1. stemQueue' = queue /\ stemActive' = active /\ stemJob' = jobs
      BY <1>2 DEF StemPump
    <2> QED BY <2>1 DEF StemInv, Separating, Unrepeated, Listed
  <1> QED BY <1>1, <1>2

\* cancel and close: the waiting jobs concerned leave the queue as they settle.
LEMMA CancelInv ==
  ASSUME StemInv, NEW js \in SUBSET StemJobs, CancelAll(js), UNCHANGED stemActive
  PROVE  StemInv'
  <1> DEFINE waiting == {j \in js : stemJob[j].phase = "queued"}
             running == {j \in js : stemJob[j].phase \notin {"none", "queued"}}
  <1>1. /\ stemJob' = [j \in StemJobs |->
                         IF j \in waiting THEN NoJob
                         ELSE IF j \in running THEN [stemJob[j] EXCEPT !.cancelled = TRUE]
                         ELSE stemJob[j]]
        /\ stemQueue' = Without(stemQueue, waiting)
    BY DEF CancelAll
  <1>2. /\ stemQueue' \in Seq(StemJobs) /\ Unrepeated(stemQueue')
        /\ Listed(stemQueue') = Listed(stemQueue) \ waiting
    BY <1>1, WithoutListed DEF StemInv
  <1>3. stemJob' \in [StemJobs -> [phase : StemPhases, cancelled : BOOLEAN,
                                   result : {"none", "ok", "cancelled", "failed"}]]
    BY <1>1, ZenonT(60) DEF StemInv, NoJob, StemPhases
  <1>4. \A j \in StemJobs : stemJob'[j].phase = IF j \in waiting THEN "none" ELSE stemJob[j].phase
    BY <1>1 DEF StemInv, NoJob
  <1>5. Listed(stemQueue') = {j \in StemJobs : stemJob'[j].phase = "queued"}
    BY <1>2, <1>4 DEF StemInv
  <1>6. Separating' = Separating
    BY <1>4 DEF Separating, AtRest
  <1> QED BY <1>2, <1>3, <1>5, <1>6 DEF StemInv, Unrepeated, Listed

LEMMA StemStepInv == StemInv /\ [StemNext]_stemVars => StemInv'
  <1> SUFFICES ASSUME StemInv, [StemNext]_stemVars PROVE StemInv'
    OBVIOUS
  <1>1. ASSUME NEW j \in StemJobs, Prepare(j) PROVE StemInv'
    <2> DEFINE jobs == [stemJob EXCEPT ![j] = [NoJob EXCEPT !.phase = "queued"]]
               queue == Append(stemQueue, j)
    <2>1. stemJob[j].phase = "none" /\ StemPump(jobs, queue, stemActive)
      BY <1>1 DEF Prepare
    <2>2. j \notin Listed(stemQueue)
      BY <2>1 DEF StemInv
    <2>3. /\ queue \in Seq(StemJobs) /\ Unrepeated(queue)
          /\ Listed(queue) = Listed(stemQueue) \cup {j}
      BY <2>2, AppendListed DEF StemInv
    <2>4. jobs \in [StemJobs -> [phase : StemPhases, cancelled : BOOLEAN,
                                 result : {"none", "ok", "cancelled", "failed"}]]
      BY DEF StemInv, NoJob, StemPhases
    <2>5. jobs[j].phase = "queued" /\ \A k \in StemJobs \ {j} : jobs[k] = stemJob[k]
      BY DEF StemInv, NoJob
    <2>6. Listed(queue) = {k \in StemJobs : jobs[k].phase = "queued"}
      BY <2>3, <2>5 DEF StemInv
    <2>7. stemActive = {k \in StemJobs : jobs[k].phase \notin AtRest}
      BY <2>1, <2>5 DEF StemInv, Separating, AtRest
    <2>8. \A i, k \in stemActive : i = k
      BY DEF StemInv
    <2> HIDE DEF jobs, queue
    <2> QED BY <2>1, <2>3, <2>4, <2>6, <2>7, <2>8, PumpInv
  <1>2. ASSUME NEW j \in StemJobs, NEW from \in StemPhases \ AtRest, NEW to \in StemPhases \ AtRest,
               StemStep(j, from, to)
        PROVE  StemInv'
    <2>1. /\ stemJob' \in [StemJobs -> [phase : StemPhases, cancelled : BOOLEAN,
                                        result : {"none", "ok", "cancelled", "failed"}]]
          /\ stemJob[j].phase = from /\ stemJob'[j].phase = to
          /\ \A k \in StemJobs \ {j} : stemJob'[k] = stemJob[k]
          /\ UNCHANGED <<stemQueue, stemActive>>
      BY <1>2 DEF StemInv, StemStep
    <2> QED BY <2>1, StemRunsOn
  <1>3. ASSUME NEW j \in StemJobs, NEW from \in StemPhases \ AtRest,
               NEW result \in {"ok", "cancelled", "failed"}, StemResult(j, from, result)
        PROVE  StemInv'
    <2>1. /\ stemJob' \in [StemJobs -> [phase : StemPhases, cancelled : BOOLEAN,
                                        result : {"none", "ok", "cancelled", "failed"}]]
          /\ stemJob[j].phase = from /\ stemJob'[j].phase = "cleaning"
          /\ \A k \in StemJobs \ {j} : stemJob'[k] = stemJob[k]
          /\ UNCHANGED <<stemQueue, stemActive>>
      BY <1>3, ZenonT(60) DEF StemInv, StemResult, StemPhases
    <2> QED BY <2>1, StemRunsOn DEF AtRest
  <1>4. ASSUME NEW j \in StemJobs, WorkerTimesOut(j) PROVE StemInv'
    <2>1. /\ stemJob' \in [StemJobs -> [phase : StemPhases, cancelled : BOOLEAN,
                                        result : {"none", "ok", "cancelled", "failed"}]]
          /\ stemJob[j].phase = "working" /\ stemJob'[j].phase = "cleaning"
          /\ \A k \in StemJobs \ {j} : stemJob'[k] = stemJob[k]
          /\ UNCHANGED <<stemQueue, stemActive>>
      BY <1>4, ZenonT(60) DEF StemInv, WorkerTimesOut, StemPhases
    <2> QED BY <2>1, StemRunsOn DEF AtRest
  <1>5. ASSUME NEW j \in StemJobs, Settle(j) PROVE StemInv'
    <2> DEFINE jobs == [stemJob EXCEPT ![j] = NoJob]
    <2>1. stemJob[j].phase = "cleaning" /\ StemPump(jobs, stemQueue, stemActive \ {j})
      BY <1>5 DEF Settle
    <2>2. jobs \in [StemJobs -> [phase : StemPhases, cancelled : BOOLEAN,
                                 result : {"none", "ok", "cancelled", "failed"}]]
      BY DEF StemInv, NoJob, StemPhases
    <2>3. jobs[j].phase = "none" /\ \A k \in StemJobs \ {j} : jobs[k] = stemJob[k]
      BY DEF StemInv, NoJob
    <2>4. Listed(stemQueue) = {k \in StemJobs : jobs[k].phase = "queued"}
      BY <2>1, <2>3 DEF StemInv
    <2>5. stemActive \ {j} = {k \in StemJobs : jobs[k].phase \notin AtRest}
      BY <2>3 DEF StemInv, Separating, AtRest
    <2>6. /\ stemQueue \in Seq(StemJobs) /\ Unrepeated(stemQueue)
          /\ \A i, k \in stemActive \ {j} : i = k
      BY DEF StemInv
    <2> HIDE DEF jobs
    <2> QED BY <2>1, <2>2, <2>4, <2>5, <2>6, PumpInv
  <1>6. ASSUME NEW j \in StemJobs, StemJobStep(j) PROVE StemInv'
    <2> USE DEF StemPhases, AtRest
    <2>1. CASE LoadCached(j)
      BY <1>2, <1>3, <2>1 DEF LoadCached
    <2>2. CASE SpawnWorker(j)
      BY <1>2, <1>3, <2>2 DEF SpawnWorker
    <2>3. CASE WorkerExits(j)
      BY <1>2, <1>3, <2>3 DEF WorkerExits
    <2>4. CASE ValidateOutput(j)
      BY <1>2, <1>3, <2>4 DEF ValidateOutput
    <2>5. CASE PublishAside(j)
      BY <1>2, <2>5 DEF PublishAside
    <2>6. CASE PublishRename(j)
      BY <1>2, <1>3, <2>6 DEF PublishRename
    <2>7. CASE RewriteManifest(j)
      BY <1>3, <2>7 DEF RewriteManifest
    <2> QED BY <1>4, <1>5, <1>6, <2>1, <2>2, <2>3, <2>4, <2>5, <2>6, <2>7 DEF StemJobStep
  <1>7. ASSUME NEW j \in StemJobs, CancelJob(j) PROVE StemInv'
    BY <1>7, CancelInv DEF CancelJob
  <1>8. CASE ClearBegin
    BY <1>8, CancelInv DEF ClearBegin
  <1>9. CASE UNCHANGED <<stemJob, stemQueue, stemActive>>
    BY <1>9 DEF StemInv, Separating, Unrepeated, Listed
  <1> QED BY <1>1, <1>6, <1>7, <1>8, <1>9
          DEF StemNext, LateExit, ClearEnd, CheckHealth, stemVars

LEMMA StemOneSeparation == StemInv => OneSeparation
  <1> SUFFICES ASSUME StemInv PROVE OneSeparation
    OBVIOUS
  <1>1. Separating = {j \in StemJobs : stemJob[j].phase \notin {"none", "queued"}}
    BY DEF Separating, AtRest
  <1>2. Cardinality(Separating) <= 1
    <2>1. CASE Separating = {}
      BY <2>1, FS_EmptySet
    <2>2. CASE Separating # {}
      <3>1. PICK j \in Separating : Separating = {j}
        BY <2>2 DEF StemInv
      <3> QED BY <3>1, FS_Singleton
    <2> QED BY <2>1, <2>2
  <1>3. ASSUME NEW j \in StemJobs
        PROVE  stemJob[j].phase = "queued" <=> \E i \in 1..Len(stemQueue) : stemQueue[i] = j
    <2>1. stemJob[j].phase = "queued" <=> j \in Listed(stemQueue)
      BY DEF StemInv
    <2>2. j \in Listed(stemQueue) <=> \E i \in 1..Len(stemQueue) : stemQueue[i] = j
      BY DEF Listed
    <2> QED BY <2>1, <2>2
  <1> QED BY <1>1, <1>2, <1>3 DEF OneSeparation

-----------------------------------------------------------------------------
(* The track lists that grow page by page.                                 *)

PageAsks == [kind : {"due", "first", "refresh", "more"}, list : Lists, from : 0..RowsOf,
             count : Nat, fresh : BOOLEAN]
StartsAs(a) == a.kind \in {"due", "first"}

\* A fresh ask is for the list that is shown; one for more goes on where the rows
\* end, and there is none while the first page is awaited, which is asked for once.
AsksAgree ==
  /\ pgAsks \subseteq PageAsks
  /\ \A a \in pgAsks : /\ a.kind # "more" => a.from = 0
                       /\ a.fresh => a.list = pgList
                       /\ a.fresh /\ a.kind = "more" => pgRaced \/ a.from = Len(pgRows)
                       /\ a.fresh /\ StartsAs(a) => pgLoading
  /\ \A a, b \in pgAsks :
       a.fresh /\ b.fresh /\ StartsAs(a) => b.kind # "more" /\ (StartsAs(b) => b = a)

PagesInv ==
  /\ pgList \in Lists \cup {NoList}
  /\ pgRows \in Seq(Lists \X (1..RowsOf)) /\ pgTotal \in {0, RowsOf}
  /\ pgLoading \in BOOLEAN /\ pgMore \in BOOLEAN /\ pgRaced \in BOOLEAN /\ pgStuck \in BOOLEAN
  /\ AsksAgree
  /\ RowsAreWhole /\ (pgRaced \/ Len(pgRows) <= RowsOf)
  /\ PagesLoad

\* What the database answers: the rows after from, at most count of them.
LEMMA PageRows ==
  ASSUME NEW l \in Lists, NEW from \in 0..RowsOf, NEW count \in Nat
  PROVE  /\ Page(l, from, count) \in Seq(Lists \X (1..RowsOf))
         /\ from + Len(Page(l, from, count)) <= RowsOf
         /\ Page(l, from, count) = [n \in 1..Len(Page(l, from, count)) |-> <<l, from + n>>]
         /\ Len(Page(l, from, count)) \in Nat
  <1> USE PagesAssumption
  <1> DEFINE len == IF from + count <= RowsOf THEN count ELSE RowsOf - from
             page == [n \in 1..len |-> <<l, from + n>>]
  <1>1. len \in Nat /\ from + len <= RowsOf
    OBVIOUS
  <1>2. Page(l, from, count) = page
    BY DEF Page
  <1>3. \A n \in 1..len : from + n \in 1..RowsOf
    BY <1>1
  <1> HIDE DEF len
  <1>4. \A n \in 1..len : <<l, from + n>> \in Lists \X (1..RowsOf)
    BY <1>3
  <1>5. page \in Seq(Lists \X (1..RowsOf)) /\ Len(page) = len
    BY <1>1, <1>4
  <1> QED BY <1>1, <1>2, <1>5

\* No rows are the first rows of any list.
LEMMA NoRows == \A l : Page(l, 0, 0) = << >>
  BY PagesAssumption DEF Page

\* The rows of a list, continued where they end, are its first rows again.
LEMMA RowsContinue ==
  ASSUME NEW l \in Lists, NEW rows \in Seq(Lists \X (1..RowsOf)), Len(rows) <= RowsOf,
         rows = Page(l, 0, Len(rows)), NEW count \in Nat
  PROVE  LET more == rows \o Page(l, Len(rows), count)
         IN  more = Page(l, 0, Len(more)) /\ Len(more) <= RowsOf
  <1> USE PagesAssumption
  <1> DEFINE n == Len(rows)
             page == Page(l, n, count)
             more == rows \o page
  <1>1. n \in 0..RowsOf
    OBVIOUS
  <1>2. /\ page \in Seq(Lists \X (1..RowsOf)) /\ n + Len(page) <= RowsOf /\ Len(page) \in Nat
        /\ page = [k \in 1..Len(page) |-> <<l, n + k>>]
    BY <1>1, PageRows
  <1>3. rows = [k \in 1..n |-> <<l, 0 + k>>]
    BY <1>1 DEF Page
  <1> HIDE DEF page
  <1>4. /\ more \in Seq(Lists \X (1..RowsOf)) /\ Len(more) = n + Len(page)
        /\ \A k \in 1..Len(more) : more[k] = IF k <= n THEN rows[k] ELSE page[k - n]
    BY <1>2
  <1>5. \A k \in 1..Len(more) : more[k] = <<l, 0 + k>>
    <2> TAKE k \in 1..Len(more)
    <2>1. CASE k <= n
      BY <1>1, <1>3, <1>4, <2>1
    <2>2. CASE ~(k <= n)
      <3>1. k - n \in 1..Len(page) /\ n + (k - n) = k
        BY <1>1, <1>2, <1>4, <2>2
      <3> QED BY <1>2, <1>4, <2>2, <3>1
    <2> QED BY <2>1, <2>2
  <1>6. Page(l, 0, Len(more)) = [k \in 1..Len(more) |-> <<l, 0 + k>>]
    BY <1>2, <1>4 DEF Page
  <1>7. more = [k \in 1..Len(more) |-> <<l, 0 + k>>]
    <2>1. more \in Seq(Lists \X (1..RowsOf))
      BY <1>4
    <2> HIDE DEF more
    <2>2. more = [k \in 1..Len(more) |-> more[k]]
      BY <2>1
    <2> QED BY <1>5, <2>2
  <1>8. more = Page(l, 0, Len(more)) /\ Len(more) <= RowsOf
    BY <1>2, <1>4, <1>6, <1>7
  <1> QED BY <1>8 DEF page

LEMMA PagesInitInv == PagesInit => PagesInv
  <1> SUFFICES ASSUME PagesInit PROVE PagesInv
    OBVIOUS
  <1>1. RowsAreWhole
    BY NoRows DEF PagesInit, RowsAreWhole
  <1>2. pgRows \in Seq(Lists \X (1..RowsOf)) /\ Len(pgRows) <= RowsOf
    BY PagesAssumption DEF PagesInit
  <1> QED BY <1>1, <1>2 DEF PagesInit, PagesInv, AsksAgree, PagesLoad, AsksFor

\* The effect of another list: everything asked before is superseded.
LEMMA ShowListInv ==
  ASSUME PagesInv, NEW l \in Lists \cup {NoList}, ShowList(l) PROVE PagesInv'
  <1> USE PagesAssumption
  <1> DEFINE stale == {[a EXCEPT !.fresh = FALSE] : a \in {b \in pgAsks : b.kind # "due"}}
             kind == IF pgHook = "library" THEN "due" ELSE "first"
             new == [kind |-> kind, list |-> l, from |-> 0, count |-> PageSize, fresh |-> TRUE]
  <1>1. /\ pgList' = l /\ pgRows' = << >> /\ pgTotal' = 0 /\ pgLoading' = (l # NoList)
        /\ pgMore' = (pgMore /\ pgHook = "playlist" /\ l # NoList)
        /\ pgStuck' = pgMore' /\ pgRaced' = FALSE
        /\ pgAsks' = stale \cup (IF l = NoList THEN {} ELSE {new})
    BY DEF ShowList
  <1>2. \A a \in stale : a \in PageAsks /\ ~a.fresh /\ (a.kind # "more" => a.from = 0)
    BY DEF PagesInv, AsksAgree, PageAsks
  <1>3. l # NoList => new \in PageAsks
    BY DEF PageAsks
  <1>4. new.fresh /\ StartsAs(new) /\ new.kind # "more" /\ new.list = l /\ new.from = 0
    BY DEF StartsAs
  <1> HIDE DEF stale, new
  <1>5. pgAsks' \subseteq PageAsks
    BY <1>1, <1>2, <1>3
  <1>6. \A a \in pgAsks' : a.fresh => a = new /\ l # NoList
    BY <1>1, <1>2
  <1>7. AsksAgree'
    BY <1>1, <1>2, <1>4, <1>5, <1>6 DEF AsksAgree, StartsAs
  <1>8. RowsAreWhole' /\ pgRows' \in Seq(Lists \X (1..RowsOf)) /\ Len(pgRows') <= RowsOf
    BY <1>1, NoRows DEF RowsAreWhole
  <1>9. PagesLoad'
    <2>1. l # NoList => new \in AsksFor("due")' \cup AsksFor("first")'
      BY <1>1, <1>4 DEF AsksFor, StartsAs
    <2> QED BY <1>1, <2>1 DEF PagesLoad
  <1> QED BY <1>1, <1>7, <1>8, <1>9 DEF PagesInv

\* Asks that are added for the list as it is shown.
LEMMA AskAddedInv ==
  ASSUME PagesInv, ProgressAnnounced \/ LoadMore PROVE PagesInv'
  <1> USE PagesAssumption
  <1>1. ASSUME NEW new, new \in PageAsks, new.fresh, new.list = pgList, ~StartsAs(new),
               new.kind # "more" => new.from = 0,
               new.kind = "more" => new.from = Len(pgRows) /\ ~pgLoading,
               pgMore' = (pgMore \/ new.kind = "more"),
               pgAsks' = pgAsks \cup {new},
               UNCHANGED <<pgList, pgRows, pgTotal, pgLoading, pgRaced, pgStuck>>
        PROVE  PagesInv'
    <2>1. AsksAgree'
      BY <1>1 DEF PagesInv, AsksAgree, StartsAs
    <2>2. PagesLoad'
      <3>1. \A k : AsksFor(k) \subseteq AsksFor(k)'
        BY <1>1 DEF AsksFor
      <3>2. new.kind = "more" => new \in AsksFor("more")'
        BY <1>1 DEF AsksFor
      <3> QED BY <1>1, <3>1, <3>2 DEF PagesInv, PagesLoad
    <2> QED BY <1>1, <2>1, <2>2 DEF PagesInv, RowsAreWhole
  <1>2. CASE ProgressAnnounced
    <2> DEFINE new == Ask("refresh", 0, IF Len(pgRows) > PageSize THEN Len(pgRows) ELSE PageSize)
    <2>1. pgList \in Lists /\ Len(pgRows) \in Nat
      BY <1>2 DEF ProgressAnnounced, PagesInv
    <2>2. /\ new \in PageAsks /\ new.fresh /\ new.list = pgList /\ new.kind = "refresh" /\ new.from = 0
      BY <2>1 DEF Ask, PageAsks
    <2> HIDE DEF new
    <2>3. pgAsks' = pgAsks \cup {new} /\ UNCHANGED <<pgList, pgRows, pgTotal, pgLoading, pgMore, pgRaced, pgStuck>>
      BY <1>2 DEF ProgressAnnounced, new
    <2>4. pgMore' = (pgMore \/ new.kind = "more")
      BY <2>2, <2>3 DEF PagesInv
    <2> QED BY <1>1, <2>2, <2>3, <2>4 DEF StartsAs
  <1>3. CASE LoadMore
    <2> DEFINE new == Ask("more", Len(pgRows), PageSize)
    <2>1. pgList \in Lists /\ Len(pgRows) \in 0..RowsOf
      BY <1>3 DEF LoadMore, PagesInv
    <2>2. new \in PageAsks /\ new.fresh /\ new.list = pgList /\ new.kind = "more" /\ new.from = Len(pgRows)
      BY <2>1 DEF Ask, PageAsks
    <2> HIDE DEF new
    <2>3. /\ pgAsks' = pgAsks \cup {new} /\ UNCHANGED <<pgList, pgRows, pgTotal, pgLoading, pgRaced, pgStuck>>
          /\ pgMore' = TRUE /\ ~pgLoading
      BY <1>3 DEF LoadMore, new
    <2>4. pgMore' = (pgMore \/ new.kind = "more")
      BY <2>2, <2>3
    <2> QED BY <1>1, <2>2, <2>3, <2>4 DEF StartsAs
  <1> QED BY <1>2, <1>3

\* The search has waited long enough: the one due ask becomes the first.
LEMMA FirstPageDueInv == ASSUME PagesInv, FirstPageDue PROVE PagesInv'
  <1>1. PICK a \in pgAsks : a.kind = "due" /\ pgAsks' = (pgAsks \ {a}) \cup {[a EXCEPT !.kind = "first"]}
    BY DEF FirstPageDue
  <1> DEFINE new == [a EXCEPT !.kind = "first"]
  <1>2. /\ new \in PageAsks /\ new.kind = "first" /\ new.fresh = a.fresh /\ new.list = a.list
        /\ new.from = a.from
    BY <1>1 DEF PagesInv, AsksAgree, PageAsks
  <1> HIDE DEF new
  <1>3. pgAsks' = (pgAsks \ {a}) \cup {new}
    BY <1>1 DEF new
  <1>4. UNCHANGED <<pgHook, pgList, pgRows, pgTotal, pgLoading, pgMore, pgRaced, pgStuck>>
    BY DEF FirstPageDue
  <1>5. AsksAgree'
    BY <1>1, <1>2, <1>3, <1>4 DEF PagesInv, AsksAgree, StartsAs
  <1>6. PagesLoad'
    <2>1. pgLoading' => AsksFor("due")' \cup AsksFor("first")' # {}
      BY <1>1, <1>2, <1>3, <1>4 DEF PagesInv, PagesLoad, AsksFor
    <2>2. AsksFor("more") \subseteq AsksFor("more")'
      BY <1>1, <1>3 DEF AsksFor
    <2> QED BY <1>4, <2>1, <2>2 DEF PagesInv, PagesLoad
  <1> QED BY <1>4, <1>5, <1>6 DEF PagesInv, RowsAreWhole

\* An answer, or a failure, ends what its ask was for and nothing else.
LEMMA SettledInv ==
  ASSUME PagesInv, NEW a \in pgAsks, a.kind # "due", AskSettled(a),
         pgRows' \in Seq(Lists \X (1..RowsOf)), pgTotal' \in {0, RowsOf}, pgRaced' \in BOOLEAN,
         RowsAreWhole', pgRaced' \/ Len(pgRows') <= RowsOf,
         \A m \in AsksFor("more") \ {a} : pgRaced' \/ m.from = Len(pgRows')
  PROVE  PagesInv'
  <1>1. /\ pgAsks' = pgAsks \ {a}
        /\ pgLoading' = (pgLoading /\ ~(a.kind = "first" /\ a.fresh))
        /\ pgMore' = (pgMore /\ ~(a.kind = "more" /\ a.fresh))
        /\ UNCHANGED <<pgHook, pgList, pgStuck>>
    BY DEF AskSettled, IsFreshAsk
  <1>2. AsksAgree'
    <2>1. \A m \in pgAsks' : m.fresh /\ m.kind = "more" => pgRaced' \/ m.from = Len(pgRows')
      BY <1>1 DEF AsksFor
    <2>2. \A m \in pgAsks' : m.fresh /\ StartsAs(m) => pgLoading'
      BY <1>1 DEF PagesInv, AsksAgree, StartsAs
    <2> QED BY <1>1, <2>1, <2>2 DEF PagesInv, AsksAgree
  <1>3. PagesLoad'
    <2>1. pgLoading' => AsksFor("due")' \cup AsksFor("first")' # {}
      BY <1>1 DEF PagesInv, PagesLoad, AsksFor
    <2>2. pgMore' /\ ~pgStuck' => AsksFor("more")' # {}
      BY <1>1 DEF PagesInv, PagesLoad, AsksFor
    <2> QED BY <2>1, <2>2 DEF PagesLoad
  <1> QED BY <1>1, <1>2, <1>3 DEF PagesInv

LEMMA PagesStepInv == PagesInv /\ [PagesNext]_pageVars => PagesInv'
  <1> SUFFICES ASSUME PagesInv, [PagesNext]_pageVars PROVE PagesInv'
    OBVIOUS
  <1> USE PagesAssumption
  <1>1. ASSUME NEW a \in pgAsks, PageAnswers(a) PROVE PagesInv'
    <2>1. a.kind # "due" /\ AskSettled(a)
      BY <1>1 DEF PageAnswers
    <2>2. CASE ~a.fresh
      <3>1. UNCHANGED <<pgRows, pgTotal, pgRaced>> /\ pgList' = pgList
        BY <1>1, <2>2 DEF PageAnswers, IsFreshAsk, AskSettled
      <3>2. \A m \in AsksFor("more") : pgRaced \/ m.from = Len(pgRows)
        BY DEF PagesInv, AsksAgree, AsksFor
      <3>3. RowsAreWhole'
        BY <3>1 DEF PagesInv, RowsAreWhole
      <3>4. /\ pgRows' \in Seq(Lists \X (1..RowsOf)) /\ pgTotal' \in {0, RowsOf}
            /\ pgRaced' \in BOOLEAN /\ (pgRaced' \/ Len(pgRows') <= RowsOf)
        BY <3>1 DEF PagesInv
      <3> QED BY <2>1, <3>1, <3>2, <3>3, <3>4, SettledInv
    <2>3. CASE a.fresh
      <3> DEFINE page == Page(a.list, a.from, a.count)
                 before == IF a.kind = "more" THEN pgRows ELSE << >>
                 rows == before \o page
      <3>1. /\ pgRows' = rows /\ pgTotal' = RowsOf /\ pgList' = pgList
            /\ pgRaced' = (pgRaced \/ \E m \in AsksFor("more") \ {a} : m.from # Len(rows))
        BY <1>1, <2>3 DEF PageAnswers, IsFreshAsk, AskSettled
      <3>2. /\ a.list = pgList /\ pgList \in Lists /\ a.from \in 0..RowsOf /\ a.count \in Nat
            /\ (a.kind # "more" => a.from = 0)
            /\ (a.kind = "more" => pgRaced \/ a.from = Len(pgRows))
        BY <2>3 DEF PagesInv, AsksAgree, PageAsks
      <3>3. page \in Seq(Lists \X (1..RowsOf))
        BY <3>2, PageRows
      <3>4. before \in Seq(Lists \X (1..RowsOf))
        BY DEF PagesInv
      <3>5. rows \in Seq(Lists \X (1..RowsOf))
        BY <3>3, <3>4
      <3>6. pgRaced \/ (rows = Page(pgList, 0, Len(rows)) /\ Len(rows) <= RowsOf)
        <4>1. CASE pgRaced
          BY <4>1
        <4>2. CASE ~pgRaced /\ a.kind = "more"
          <5>1. a.from = Len(pgRows) /\ pgRows = Page(pgList, 0, Len(pgRows)) /\ Len(pgRows) <= RowsOf
            BY <3>2, <4>2 DEF PagesInv, RowsAreWhole
          <5>2. pgRows \in Seq(Lists \X (1..RowsOf))
            BY DEF PagesInv
          <5>3. rows = pgRows \o Page(pgList, Len(pgRows), a.count)
            BY <3>2, <4>2, <5>1
          <5> HIDE DEF rows
          <5> QED BY <3>2, <5>1, <5>2, <5>3, RowsContinue
        <4>3. CASE a.kind # "more"
          <5> DEFINE none == << >>
          <5>1. none \in Seq(Lists \X (1..RowsOf)) /\ Len(none) = 0 /\ 0 <= RowsOf
            OBVIOUS
          <5>2. none = Page(pgList, 0, Len(none))
            BY <5>1, NoRows
          <5>3. rows = none \o Page(pgList, Len(none), a.count)
            BY <3>2, <4>3, <5>1
          <5> HIDE DEF rows, none
          <5> QED BY <3>2, <5>1, <5>2, <5>3, RowsContinue
        <4> QED BY <4>1, <4>2, <4>3
      <3> HIDE DEF rows
      <3>7. RowsAreWhole' /\ (pgRaced' \/ Len(pgRows') <= RowsOf)
        BY <3>1, <3>6 DEF RowsAreWhole
      <3>8. pgRaced' \in BOOLEAN /\ \A m \in AsksFor("more") \ {a} : pgRaced' \/ m.from = Len(pgRows')
        BY <3>1 DEF PagesInv
      <3> QED BY <2>1, <3>1, <3>5, <3>7, <3>8, SettledInv
    <2> QED BY <2>2, <2>3
  <1>2. ASSUME NEW a \in pgAsks, PageFails(a) PROVE PagesInv'
    <2>1. a.kind # "due" /\ AskSettled(a) /\ pgRaced' = pgRaced /\ pgList' = pgList
      BY <1>2 DEF PageFails, AskSettled
    <2>2. \A m \in AsksFor("more") : pgRaced \/ m.from = Len(pgRows)
      BY DEF PagesInv, AsksAgree, AsksFor
    <2>3. CASE a.fresh /\ a.kind = "first" /\ pgHook = "library"
      <3>1. pgRows' = << >> /\ pgTotal' = 0
        BY <1>2, <2>3 DEF PageFails, IsFreshAsk
      <3>2. AsksFor("more") = {}
        BY <2>3 DEF PagesInv, AsksAgree, AsksFor, StartsAs
      <3>3. RowsAreWhole' /\ pgRows' \in Seq(Lists \X (1..RowsOf)) /\ Len(pgRows') <= RowsOf
        BY <3>1, NoRows DEF RowsAreWhole
      <3>4. pgRaced' \in BOOLEAN
        BY <2>1 DEF PagesInv
      <3> QED BY <2>1, <3>1, <3>2, <3>3, <3>4, SettledInv
    <2>4. CASE ~(a.fresh /\ a.kind = "first" /\ pgHook = "library")
      <3>1. UNCHANGED <<pgRows, pgTotal>>
        BY <1>2, <2>4 DEF PageFails, IsFreshAsk
      <3>2. /\ RowsAreWhole' /\ pgRows' \in Seq(Lists \X (1..RowsOf)) /\ pgTotal' \in {0, RowsOf}
            /\ pgRaced' \in BOOLEAN /\ (pgRaced' \/ Len(pgRows') <= RowsOf)
        BY <2>1, <3>1 DEF PagesInv, RowsAreWhole
      <3> QED BY <2>1, <2>2, <3>1, <3>2, SettledInv
    <2> QED BY <2>3, <2>4
  <1>3. CASE UNCHANGED pageVars
    BY <1>3 DEF pageVars, PagesInv, AsksAgree, RowsAreWhole, PagesLoad, AsksFor
  <1> QED BY <1>1, <1>2, <1>3, ShowListInv, AskAddedInv, FirstPageDueInv DEF PagesNext

-----------------------------------------------------------------------------
(* The preview waveforms.                                                  *)

WaveAskRecords == [imp : WaveImports \cup {NoWave}, ids : SUBSET WaveTracks, retried : SUBSET WaveTracks]

\* What is known of a track is an answer for the import i, not overtaken by a retry;
\* only an absence may be one this instance was told.
KnownFor(known, i) ==
  known # NoWave => /\ known \in KnownStates /\ known.imp = i /\ ~known.old
                    /\ known.told => known.kind = "unavailable"

\* The cache knows only what was answered, for the import it is filed under.
CacheKnown(cache) ==
  \A i \in WaveImports, t \in WaveTracks : /\ KnownFor(cache[i, t], i)
                                           /\ cache[i, t] # NoWave => cache[i, t].kind # "loading"

\* A track in flight is awaited by the request its slot and its token name, made for
\* the import i and not before the track was last retried; it shows no absence
\* that the timer would have to recheck.
InFlight(i, shown, slot, token, asks) ==
  \A t \in WaveTracks :
    /\ slot[t] = token[t]
    /\ token[t] # NoWave =>
         /\ i # NoWave /\ token[t] \in WaveAsks /\ shown[t] # NoWave /\ ~shown[t].told
         /\ t \in asks[token[t]].ids \ asks[token[t]].retried /\ asks[token[t]].imp = i

WavesInv ==
  /\ wvImport \in WaveImports \cup {NoWave} /\ wvIds \subseteq WaveTracks /\ wvTimer \in BOOLEAN
  /\ wvCache \in [WaveImports \X WaveTracks -> KnownStates \cup {NoWave}]
  /\ wvShown \in [WaveTracks -> KnownStates \cup {NoWave}]
  /\ wvSlot \in [WaveTracks -> WaveAsks \cup {NoWave}]
  /\ wvToken \in [WaveTracks -> WaveAsks \cup {NoWave}]
  /\ wvAsk \in [WaveAsks -> WaveAskRecords]
  /\ CacheKnown(wvCache)
  /\ \A t \in WaveTracks : KnownFor(wvShown[t], wvImport)
  /\ InFlight(wvImport, wvShown, wvSlot, wvToken, wvAsk)
  /\ WavesLoad

LEMMA WavesInitInv == WavesInit => WavesInv
  <1> SUFFICES ASSUME WavesInit PROVE WavesInv
    OBVIOUS
  <1>1. /\ wvCache \in [WaveImports \X WaveTracks -> KnownStates \cup {NoWave}]
        /\ \A i \in WaveImports, t \in WaveTracks : wvCache[i, t] = NoWave
    BY DEF WavesInit
  <1>2. /\ \A t \in WaveTracks : wvShown[t] = NoWave /\ wvSlot[t] = NoWave /\ wvToken[t] = NoWave
        /\ wvShown \in [WaveTracks -> KnownStates \cup {NoWave}]
        /\ wvSlot \in [WaveTracks -> WaveAsks \cup {NoWave}]
        /\ wvToken \in [WaveTracks -> WaveAsks \cup {NoWave}]
    BY DEF WavesInit, Unknown
  <1>3. wvAsk \in [WaveAsks -> WaveAskRecords]
    BY DEF WavesInit, NoWaveAsk, WaveAskRecords
  <1>4. wvImport = NoWave /\ wvIds = {} /\ wvTimer = FALSE
    BY DEF WavesInit
  <1> QED BY <1>1, <1>2, <1>3, <1>4 DEF WavesInv, CacheKnown, KnownFor, InFlight, WavesLoad

LEMMA WavesCurrent == WavesInv => WavesAreCurrent
  <1> SUFFICES ASSUME WavesInv PROVE WavesAreCurrent
    OBVIOUS
  <1>1. \A t \in WaveTracks : wvShown[t] # NoWave => wvShown[t].imp = wvImport /\ ~wvShown[t].old
    BY DEF WavesInv, KnownFor
  <1>2. DOMAIN wvCache = WaveImports \X WaveTracks
    BY DEF WavesInv
  <1>3. ASSUME NEW k \in DOMAIN wvCache, wvCache[k] # NoWave PROVE wvCache[k].imp = k[1] /\ ~wvCache[k].old
    <2>1. PICK i \in WaveImports, t \in WaveTracks : k = <<i, t>>
      BY <1>2
    <2> QED BY <1>3, <2>1 DEF WavesInv, CacheKnown, KnownFor
  <1> QED BY <1>1, <1>3 DEF WavesAreCurrent

\* The effect that fetches keeps what holds of the state its caller prepared.
LEMMA FetchInv ==
  ASSUME WavesInv,
         NEW i \in WaveImports \cup {NoWave}, NEW ids \in SUBSET WaveTracks,
         NEW shown \in [WaveTracks -> KnownStates \cup {NoWave}],
         NEW slot \in [WaveTracks -> WaveAsks \cup {NoWave}],
         NEW token \in [WaveTracks -> WaveAsks \cup {NoWave}],
         NEW asks \in [WaveAsks -> WaveAskRecords],
         \A q \in WaveAsks : asks[q].ids = wvAsk[q].ids,
         \A t \in WaveTracks : KnownFor(shown[t], i),
         InFlight(i, shown, slot, token, asks),
         wvImport' = i, wvIds' = ids, wvTimer' \in BOOLEAN,
         wvCache' \in [WaveImports \X WaveTracks -> KnownStates \cup {NoWave}], CacheKnown(wvCache'),
         FetchEffect(i, ids, shown, slot, token, asks)
  PROVE  WavesInv'
  <1> USE WaveAssumption
  <1> DEFINE cached == {t \in ids : wvCache'[i, t] # NoWave}
             missing == {t \in ids \ cached : slot[t] = NoWave}
             hydrated == [t \in WaveTracks |-> IF t \in cached THEN [wvCache'[i, t] EXCEPT !.told = FALSE] ELSE shown[t]]
  <1>1. CASE i = NoWave /\ wvShown' = shown /\ wvSlot' = slot /\ wvToken' = token /\ wvAsk' = asks
    BY <1>1 DEF WavesInv, WavesLoad
  <1>2. CASE i # NoWave
    <2>1. i \in WaveImports
      BY <1>2
    <2>2. \A t \in cached : /\ hydrated[t] \in KnownStates /\ hydrated[t].imp = i /\ ~hydrated[t].old
                            /\ ~hydrated[t].told /\ hydrated[t].kind # "loading"
      <3> SUFFICES ASSUME NEW t \in cached
                   PROVE  /\ hydrated[t] \in KnownStates /\ hydrated[t].imp = i /\ ~hydrated[t].old
                          /\ ~hydrated[t].told /\ hydrated[t].kind # "loading"
        OBVIOUS
      <3> DEFINE known == wvCache'[i, t]
      <3>1. hydrated[t] = [known EXCEPT !.told = FALSE]
        OBVIOUS
      <3>2. known \in KnownStates /\ known.imp = i /\ ~known.old /\ known.kind # "loading"
        BY <2>1 DEF CacheKnown, KnownFor
      <3> HIDE DEF known, hydrated
      <3> QED BY <3>1, <3>2 DEF KnownStates
    <2>3. \A t \in WaveTracks \ cached : hydrated[t] = shown[t]
      OBVIOUS
    <2>4. hydrated \in [WaveTracks -> KnownStates \cup {NoWave}] /\ \A t \in WaveTracks : KnownFor(hydrated[t], i)
      BY <2>2, <2>3 DEF KnownFor
    <2>5. InFlight(i, hydrated, slot, token, asks)
      BY <2>2, <2>3 DEF InFlight
    <2>6. \A t \in ids \ (cached \cup missing) : slot[t] # NoWave
      OBVIOUS
    <2>7. \A t \in cached : hydrated[t] # NoWave
      BY <2>2
    <2> HIDE DEF hydrated, cached
    <2>8. CASE missing = {} /\ wvShown' = hydrated /\ wvSlot' = slot /\ wvToken' = token /\ wvAsk' = asks
      <3>1. \A t \in ids : /\ hydrated[t] # NoWave
                           /\ hydrated[t].kind = "loading" => token[t] # NoWave
                           /\ ~hydrated[t].told
        <4> SUFFICES ASSUME NEW t \in ids
                     PROVE  /\ hydrated[t] # NoWave
                            /\ hydrated[t].kind = "loading" => token[t] # NoWave
                            /\ ~hydrated[t].told
          OBVIOUS
        <4>1. CASE t \in cached
          BY <2>2, <2>7, <4>1
        <4>2. CASE t \notin cached
          <5>1. slot[t] # NoWave
            BY <2>6, <2>8, <4>2
          <5> QED BY <2>5, <5>1 DEF InFlight
        <4> QED BY <4>1, <4>2
      <3>2. WavesLoad'
        BY <2>5, <2>8, <3>1 DEF WavesLoad, InFlight
      <3> QED BY <2>4, <2>5, <2>8, <3>2 DEF WavesInv
    <2>9. ASSUME NEW q \in WaveAsks, ~Asked(q),
                 wvAsk' = [asks EXCEPT ![q] = [imp |-> i, ids |-> missing, retried |-> {}]],
                 wvSlot' = Changed(slot, missing, q), wvToken' = Changed(token, missing, q),
                 wvShown' = Changed(hydrated, missing, WaveLoading(i))
          PROVE  WavesInv'
      <3>1. /\ WaveLoading(i) \in KnownStates /\ WaveLoading(i).imp = i /\ ~WaveLoading(i).old
            /\ ~WaveLoading(i).told
        BY <2>1 DEF WaveLoading, Known, KnownStates
      <3>2. asks[q].ids = {}
        BY <2>9 DEF Asked
      <3>3. \A t \in WaveTracks : token[t] # q
        BY <3>2 DEF InFlight
      <3>4. /\ \A p \in WaveAsks \ {q} : wvAsk'[p] = asks[p]
            /\ wvAsk'[q].imp = i /\ wvAsk'[q].ids = missing /\ wvAsk'[q].retried = {}
            /\ wvAsk' \in [WaveAsks -> WaveAskRecords]
        BY <2>9 DEF WaveAskRecords
      <3> HIDE DEF missing
      <3>5. /\ \A t \in missing : wvSlot'[t] = q /\ wvToken'[t] = q /\ wvShown'[t] = WaveLoading(i)
            /\ \A t \in WaveTracks \ missing : /\ wvSlot'[t] = slot[t] /\ wvToken'[t] = token[t]
                                               /\ wvShown'[t] = hydrated[t]
            /\ missing \subseteq WaveTracks
        BY <2>9 DEF Changed, missing
      <3>6. /\ wvShown' \in [WaveTracks -> KnownStates \cup {NoWave}]
            /\ wvSlot' \in [WaveTracks -> WaveAsks \cup {NoWave}]
            /\ wvToken' \in [WaveTracks -> WaveAsks \cup {NoWave}]
        BY <2>4, <2>9, <3>1 DEF Changed
      <3>7. \A t \in WaveTracks : KnownFor(wvShown'[t], i)
        BY <2>4, <3>1, <3>5 DEF KnownFor
      <3>8. InFlight(i, wvShown', wvSlot', wvToken', wvAsk')
        <4> SUFFICES ASSUME NEW t \in WaveTracks
                     PROVE  /\ wvSlot'[t] = wvToken'[t]
                            /\ wvToken'[t] # NoWave =>
                                 /\ i # NoWave /\ wvToken'[t] \in WaveAsks /\ wvShown'[t] # NoWave /\ ~wvShown'[t].told
                                 /\ t \in wvAsk'[wvToken'[t]].ids \ wvAsk'[wvToken'[t]].retried
                                 /\ wvAsk'[wvToken'[t]].imp = i
          BY DEF InFlight
        <4>1. CASE t \in missing
          BY <1>2, <3>1, <3>4, <3>5, <4>1
        <4>2. CASE t \notin missing
          BY <2>5, <3>3, <3>4, <3>5, <4>2 DEF InFlight
        <4> QED BY <4>1, <4>2
      <3>9. \A t \in ids : /\ wvShown'[t] # NoWave
                           /\ wvShown'[t].kind = "loading" => wvToken'[t] # NoWave
                           /\ ~wvShown'[t].told
        <4> SUFFICES ASSUME NEW t \in ids
                     PROVE  /\ wvShown'[t] # NoWave
                            /\ wvShown'[t].kind = "loading" => wvToken'[t] # NoWave
                            /\ ~wvShown'[t].told
          OBVIOUS
        <4>1. CASE t \in missing
          BY <3>1, <3>5, <4>1
        <4>2. CASE t \in cached /\ t \notin missing
          BY <2>2, <2>7, <3>5, <4>2
        <4>3. CASE t \notin cached \cup missing
          <5>1. slot[t] # NoWave
            BY <2>6, <4>3
          <5> QED BY <2>5, <3>5, <4>3, <5>1 DEF InFlight
        <4> QED BY <4>1, <4>2, <4>3
      <3>10. WavesLoad'
        BY <3>8, <3>9 DEF WavesLoad, InFlight
      <3> QED BY <3>4, <3>6, <3>7, <3>8, <3>10 DEF WavesInv
    <2>10. \/ missing = {} /\ wvShown' = hydrated /\ wvSlot' = slot /\ wvToken' = token /\ wvAsk' = asks
           \/ /\ \E q \in WaveAsks :
                   /\ ~Asked(q) /\ wvAsk' = [asks EXCEPT ![q] = [imp |-> i, ids |-> missing, retried |-> {}]]
                   /\ wvSlot' = Changed(slot, missing, q) /\ wvToken' = Changed(token, missing, q)
              /\ wvShown' = Changed(hydrated, missing, WaveLoading(i))
      BY <1>2 DEF FetchEffect, hydrated, cached
    <2> QED BY <2>8, <2>9, <2>10
  <1> QED BY <1>1, <1>2 DEF FetchEffect

LEMMA KnownIs ==
  ASSUME NEW i \in WaveImports, NEW kind \in WaveKinds, NEW told \in BOOLEAN
  PROVE  LET known == Known(i, kind, told, FALSE)
         IN  /\ known \in KnownStates /\ known # NoWave /\ KnownFor(known, i)
             /\ known.kind = kind /\ known.kind # "loading"
  <1> DEFINE b == told /\ kind = "unavailable"
             known == [imp |-> i, kind |-> kind, told |-> b, old |-> FALSE]
  <1>1. b \in BOOLEAN /\ (b => kind = "unavailable")
    OBVIOUS
  <1> HIDE DEF b
  <1>2. /\ known \in KnownStates /\ known.imp = i /\ known.kind = kind /\ ~known.old
        /\ known.told = b /\ kind # "loading"
    BY <1>1 DEF KnownStates, WaveKinds
  <1>3. known # NoWave /\ KnownFor(known, i)
    BY <1>1, <1>2, WaveAssumption DEF KnownFor
  <1> QED BY <1>2, <1>3 DEF Known, b

\* The step forgets some of the cache, or learns what another instance cached.
LEMMA InvalidatedKnown ==
  ASSUME WavesInv, NEW tracks \in SUBSET WaveTracks
  PROVE  /\ Invalidated(tracks) \in [WaveImports \X WaveTracks -> KnownStates \cup {NoWave}]
         /\ CacheKnown(Invalidated(tracks))
  BY ZenonT(60) DEF WavesInv, Invalidated, CacheKnown, KnownFor

\* Other tracks, another import, progress and the recheck fetch again from the
\* state as it is, or from an empty one.
LEMMA ShowTracksInv ==
  ASSUME WavesInv, NEW ids \in SUBSET WaveTracks, ShowTracks(ids) PROVE WavesInv'
  <1>1. /\ wvImport' = wvImport /\ wvIds' = ids /\ wvTimer' = wvTimer /\ wvCache' = wvCache
        /\ FetchEffect(wvImport, ids, wvShown, wvSlot, wvToken, wvAsk)
    BY DEF ShowTracks
  <1>2. wvTimer' \in BOOLEAN /\ CacheKnown(wvCache')
        /\ wvCache' \in [WaveImports \X WaveTracks -> KnownStates \cup {NoWave}]
    BY <1>1 DEF WavesInv, CacheKnown
  <1> QED BY <1>1, <1>2, FetchInv DEF WavesInv

LEMMA ShowImportInv ==
  ASSUME WavesInv, NEW i \in WaveImports \cup {NoWave}, ShowImport(i) PROVE WavesInv'
  <1>1. /\ wvImport' = i /\ wvIds' = wvIds /\ wvTimer' = FALSE /\ wvCache' = wvCache
        /\ FetchEffect(i, wvIds, Unknown, Unknown, Unknown, wvAsk)
    BY DEF ShowImport
  <1>2. CacheKnown(wvCache') /\ wvCache' \in [WaveImports \X WaveTracks -> KnownStates \cup {NoWave}]
    BY <1>1 DEF WavesInv, CacheKnown
  <1>3. /\ Unknown \in [WaveTracks -> KnownStates \cup {NoWave}]
        /\ Unknown \in [WaveTracks -> WaveAsks \cup {NoWave}]
        /\ \A t \in WaveTracks : KnownFor(Unknown[t], i)
        /\ InFlight(i, Unknown, Unknown, Unknown, wvAsk)
    BY DEF Unknown, KnownFor, InFlight
  <1>4. wvAsk \in [WaveAsks -> WaveAskRecords] /\ wvIds \in SUBSET WaveTracks
    BY DEF WavesInv
  <1> QED BY <1>1, <1>2, <1>3, <1>4, FetchInv

LEMMA ProgressedInv ==
  ASSUME WavesInv, AnalysisProgressed \/ RecheckDue PROVE WavesInv'
  <1>1. /\ wvImport' = wvImport /\ wvIds' = wvIds /\ wvTimer' \in BOOLEAN
        /\ FetchEffect(wvImport, wvIds, wvShown, wvSlot, wvToken, wvAsk)
    BY DEF AnalysisProgressed, RecheckDue, WavesInv
  <1>2. CASE AnalysisProgressed
    <2>1. wvCache' = Invalidated(wvIds) /\ wvIds \in SUBSET WaveTracks
      BY <1>2 DEF AnalysisProgressed, WavesInv
    <2>2. CacheKnown(wvCache') /\ wvCache' \in [WaveImports \X WaveTracks -> KnownStates \cup {NoWave}]
      BY <2>1, InvalidatedKnown
    <2> QED BY <1>1, <2>2, FetchInv DEF WavesInv
  <1>3. CASE RecheckDue
    <2>1. wvCache' = [k \in DOMAIN wvCache |->
                        IF wvCache[k] # NoWave /\ wvCache[k].kind = "unavailable" /\ wvCache[k].told
                        THEN NoWave ELSE wvCache[k]]
      BY <1>3 DEF RecheckDue
    <2>2. wvCache' \in [WaveImports \X WaveTracks -> KnownStates \cup {NoWave}]
      BY <2>1 DEF WavesInv
    <2>3. \A i \in WaveImports, t \in WaveTracks : wvCache'[i, t] \in {NoWave, wvCache[i, t]}
      BY <2>1 DEF WavesInv
    <2>4. CacheKnown(wvCache')
      <3> SUFFICES ASSUME NEW i \in WaveImports, NEW t \in WaveTracks
                   PROVE  /\ KnownFor(wvCache'[i, t], i)
                          /\ wvCache'[i, t] # NoWave => wvCache'[i, t].kind # "loading"
        BY DEF CacheKnown
      <3>1. CASE wvCache'[i, t] = NoWave
        BY <3>1 DEF KnownFor
      <3>2. CASE wvCache'[i, t] = wvCache[i, t]
        BY <3>2 DEF WavesInv, CacheKnown
      <3> QED BY <2>3, <3>1, <3>2
    <2> QED BY <1>1, <2>2, <2>4, FetchInv DEF WavesInv
  <1> QED BY <1>2, <1>3

\* A retry drops the tracks from the requests under way, which may still answer.
LEMMA RetryInv ==
  ASSUME WavesInv, NEW tracks \in SUBSET WaveTracks, RetryWaveforms(tracks) PROVE WavesInv'
  <1> USE WaveAssumption
  <1> DEFINE shown == Changed(wvShown, tracks, WaveLoading(wvImport))
             slot == FreedSlots(tracks)
             token == Changed(wvToken, tracks, NoWave)
             asks == [q \in WaveAsks |-> [wvAsk[q] EXCEPT !.retried = @ \cup (tracks \cap wvAsk[q].ids)]]
  <1>1. /\ wvImport \in WaveImports /\ wvImport' = wvImport /\ wvIds' = wvIds /\ wvTimer' = wvTimer
        /\ wvCache' = Invalidated(tracks) /\ wvIds \in SUBSET WaveTracks
        /\ FetchEffect(wvImport, wvIds, shown, slot, token, asks)
    BY DEF RetryWaveforms, WavesInv
  <1>2. CacheKnown(wvCache') /\ wvCache' \in [WaveImports \X WaveTracks -> KnownStates \cup {NoWave}]
    BY <1>1, InvalidatedKnown
  <1>3. /\ WaveLoading(wvImport) \in KnownStates
        /\ KnownFor(WaveLoading(wvImport), wvImport)
    BY <1>1 DEF WaveLoading, Known, KnownStates, KnownFor
  <1>4. /\ \A t \in tracks : shown[t] = WaveLoading(wvImport) /\ slot[t] = NoWave /\ token[t] = NoWave
        /\ \A t \in WaveTracks \ tracks : shown[t] = wvShown[t] /\ slot[t] = wvSlot[t] /\ token[t] = wvToken[t]
    BY DEF Changed, FreedSlots
  <1>5. /\ asks \in [WaveAsks -> WaveAskRecords]
        /\ \A q \in WaveAsks : /\ asks[q].ids = wvAsk[q].ids /\ asks[q].imp = wvAsk[q].imp
                               /\ asks[q].retried = wvAsk[q].retried \cup (tracks \cap wvAsk[q].ids)
    BY DEF WavesInv, WaveAskRecords
  <1>6. /\ shown \in [WaveTracks -> KnownStates \cup {NoWave}]
        /\ slot \in [WaveTracks -> WaveAsks \cup {NoWave}]
        /\ token \in [WaveTracks -> WaveAsks \cup {NoWave}]
    BY <1>3 DEF WavesInv, Changed, FreedSlots
  <1> HIDE DEF shown, slot, token, asks
  <1>7. \A t \in WaveTracks : KnownFor(shown[t], wvImport)
    BY <1>3, <1>4 DEF WavesInv
  <1>8. InFlight(wvImport, shown, slot, token, asks)
    BY <1>4, <1>5 DEF WavesInv, InFlight
  <1>9. wvTimer' \in BOOLEAN
    BY <1>1 DEF WavesInv
  <1> QED BY <1>1, <1>2, <1>5, <1>6, <1>7, <1>8, <1>9, FetchInv

\* An answer is taken for the tracks that still wait for this very request.
LEMMA AnswerInv ==
  ASSUME WavesInv, NEW q \in WaveAsks, WaveformsAnswer(q) PROVE WavesInv'
  <1> USE WaveAssumption
  <1> DEFINE i == wvAsk[q].imp
             accepted == {t \in wvAsk[q].ids : Accepts(q, t)}
  <1>1. PICK kind \in [wvAsk[q].ids -> WaveKinds] :
          /\ wvCache' = [k \in DOMAIN wvCache |->
                           IF k[1] = i /\ k[2] \in accepted
                           THEN Known(i, kind[k[2]], TRUE, k[2] \in wvAsk[q].retried) ELSE wvCache[k]]
          /\ wvShown' = [t \in WaveTracks |->
                           IF t \in accepted /\ Exposes(q, t)
                           THEN Known(i, kind[t], TRUE, t \in wvAsk[q].retried) ELSE wvShown[t]]
          /\ wvTimer' = (wvTimer \/ \E t \in accepted : kind[t] = "unavailable")
    BY DEF WaveformsAnswer
  <1> DEFINE Answer(t) == Known(i, kind[t], TRUE, t \in wvAsk[q].retried)
  <1>2. /\ wvAsk' = [wvAsk EXCEPT ![q] = NoWaveAsk]
        /\ wvSlot' = Changed(wvSlot, {t \in WaveTracks : wvSlot[t] = q}, NoWave)
        /\ wvToken' = Changed(wvToken, {t \in WaveTracks : wvToken[t] = q}, NoWave)
        /\ wvImport' = wvImport /\ wvIds' = wvIds
    BY DEF WaveformsAnswer
  <1>3. wvAsk[q].ids \subseteq WaveTracks /\ i \in WaveImports \cup {NoWave}
    BY DEF WavesInv, WaveAskRecords
  <1>4. \A t \in accepted : /\ t \in WaveTracks /\ wvToken[t] = q /\ i = wvImport /\ i \in WaveImports
                            /\ t \notin wvAsk[q].retried
    BY <1>3 DEF Accepts, WavesInv, InFlight
  <1>5. \A t \in accepted : /\ Answer(t) \in KnownStates /\ KnownFor(Answer(t), i)
                            /\ Answer(t).kind = kind[t] /\ kind[t] \in WaveKinds
                            /\ Answer(t).told => kind[t] = "unavailable"
    <2> SUFFICES ASSUME NEW t \in accepted
                 PROVE  /\ Answer(t) \in KnownStates /\ KnownFor(Answer(t), i)
                        /\ Answer(t).kind = kind[t] /\ kind[t] \in WaveKinds
                        /\ Answer(t).told => kind[t] = "unavailable"
      OBVIOUS
    <2>1. kind[t] \in WaveKinds /\ i \in WaveImports
      BY <1>4
    <2>2. (t \in wvAsk[q].retried) = FALSE
      BY <1>4
    <2>3. Answer(t) = Known(i, kind[t], TRUE, FALSE)
      BY <2>2, Zenon
    <2> HIDE DEF Answer
    <2>4. /\ Answer(t) \in KnownStates /\ Answer(t) # NoWave /\ KnownFor(Answer(t), i)
          /\ Answer(t).kind = kind[t]
      BY <2>1, <2>3, KnownIs, ZenonT(60)
    <2> QED BY <2>1, <2>4 DEF KnownFor
  <1> HIDE DEF accepted, i
  <1>6. /\ wvCache' \in [WaveImports \X WaveTracks -> KnownStates \cup {NoWave}]
        /\ \A j \in WaveImports, t \in WaveTracks :
             wvCache'[j, t] = IF j = i /\ t \in accepted THEN Answer(t) ELSE wvCache[j, t]
    <2>1. DOMAIN wvCache = WaveImports \X WaveTracks
      BY DEF WavesInv
    <2> HIDE DEF Answer
    <2>2. \A j \in WaveImports, t \in WaveTracks :
            wvCache'[j, t] = IF j = i /\ t \in accepted THEN Answer(t) ELSE wvCache[j, t]
      BY <1>1, <2>1 DEF Answer
    <2>3. ASSUME NEW k \in WaveImports \X WaveTracks PROVE wvCache'[k] \in KnownStates \cup {NoWave}
      <3>1. PICK j \in WaveImports, t \in WaveTracks : k = <<j, t>>
        OBVIOUS
      <3>2. CASE j = i /\ t \in accepted
        BY <1>5, <2>2, <3>1, <3>2
      <3>3. CASE ~(j = i /\ t \in accepted)
        <4>1. wvCache'[k] = wvCache[k]
          BY <2>2, <3>1, <3>3
        <4> QED BY <4>1 DEF WavesInv
      <3> QED BY <3>2, <3>3
    <2>4. wvCache' = [k \in WaveImports \X WaveTracks |-> wvCache'[k]]
      BY <1>1, <2>1
    <2> QED BY <2>2, <2>3, <2>4
  <1>7. CacheKnown(wvCache')
    <2> SUFFICES ASSUME NEW j \in WaveImports, NEW t \in WaveTracks
                 PROVE  /\ KnownFor(wvCache'[j, t], j)
                        /\ wvCache'[j, t] # NoWave => wvCache'[j, t].kind # "loading"
      BY DEF CacheKnown
    <2> HIDE DEF Answer
    <2>1. CASE j = i /\ t \in accepted
      BY <1>5, <1>6, <2>1 DEF WaveKinds
    <2>2. CASE ~(j = i /\ t \in accepted)
      BY <1>6, <2>2 DEF WavesInv, CacheKnown
    <2> QED BY <2>1, <2>2
  <1>8. /\ \A t \in WaveTracks : wvShown'[t] = IF t \in accepted /\ t \in wvIds THEN Answer(t) ELSE wvShown[t]
        /\ wvShown' \in [WaveTracks -> KnownStates \cup {NoWave}]
    <2> HIDE DEF Answer
    <2>1. wvShown' = [t \in WaveTracks |-> IF t \in accepted /\ Exposes(q, t) THEN Answer(t) ELSE wvShown[t]]
      BY <1>1 DEF Answer
    <2>2. \A t \in accepted : Exposes(q, t) <=> t \in wvIds
      BY <1>4 DEF Exposes, i
    <2> QED BY <1>5, <2>1, <2>2 DEF WavesInv
  <1>9. \A t \in WaveTracks : wvToken[t] = q <=> t \in accepted
    BY <1>4 DEF accepted, Accepts, WavesInv, InFlight
  <1>10. /\ \A t \in accepted : wvToken'[t] = NoWave /\ wvSlot'[t] = NoWave
         /\ \A t \in WaveTracks \ accepted : wvToken'[t] = wvToken[t] /\ wvSlot'[t] = wvSlot[t]
         /\ wvSlot' \in [WaveTracks -> WaveAsks \cup {NoWave}]
         /\ wvToken' \in [WaveTracks -> WaveAsks \cup {NoWave}]
    BY <1>2, <1>4, <1>9 DEF Changed, WavesInv, InFlight
  <1>11. /\ wvAsk' \in [WaveAsks -> WaveAskRecords]
         /\ \A p \in WaveAsks \ {q} : wvAsk'[p] = wvAsk[p]
    BY <1>2 DEF WavesInv, WaveAskRecords, NoWaveAsk
  <1> HIDE DEF Answer
  <1>12. \A t \in WaveTracks : KnownFor(wvShown'[t], wvImport)
    BY <1>4, <1>5, <1>8 DEF WavesInv
  <1>13. InFlight(wvImport, wvShown', wvSlot', wvToken', wvAsk')
    BY <1>8, <1>9, <1>10, <1>11 DEF WavesInv, InFlight
  <1>14. WavesLoad'
    <2> SUFFICES ASSUME wvImport # NoWave, NEW t \in wvIds
                 PROVE  /\ wvShown'[t] # NoWave
                        /\ wvShown'[t].kind = "loading" => wvToken'[t] # NoWave
                        /\ wvShown'[t].kind = "unavailable" /\ wvShown'[t].told => wvTimer'
      BY <1>2, <1>13 DEF WavesLoad, InFlight, WavesInv
    <2>1. t \in WaveTracks
      BY DEF WavesInv
    <2>2. CASE t \in accepted
      BY <1>1, <1>5, <1>8, <2>1, <2>2 DEF WaveKinds
    <2>3. CASE t \notin accepted
      BY <1>1, <1>8, <1>10, <2>1, <2>3 DEF WavesInv, WavesLoad
    <2> QED BY <2>2, <2>3
  <1>15. wvTimer' \in BOOLEAN
    BY <1>1 DEF WavesInv
  <1> QED BY <1>2, <1>6, <1>7, <1>8, <1>10, <1>11, <1>12, <1>13, <1>14, <1>15 DEF WavesInv

LEMMA CacheChangesInv ==
  ASSUME WavesInv, NEW i \in WaveImports, NEW t \in WaveTracks, CacheChanges(i, t) PROVE WavesInv'
  <1> USE WaveAssumption
  <1>1. PICK known : /\ known = NoWave \/ \E kind \in WaveKinds : known = Known(i, kind, FALSE, FALSE)
                     /\ wvCache' = [wvCache EXCEPT ![<<i, t>>] = known]
    BY DEF CacheChanges
  <1>2. known \in KnownStates \cup {NoWave} /\ KnownFor(known, i) /\ (known # NoWave => known.kind # "loading")
    <2>1. CASE known = NoWave
      BY <2>1 DEF KnownFor
    <2>2. ASSUME NEW kind \in WaveKinds, known = Known(i, kind, FALSE, FALSE)
          PROVE  known \in KnownStates /\ KnownFor(known, i) /\ known.kind # "loading"
      BY <2>2, KnownIs
    <2> QED BY <1>1, <2>1, <2>2
  <1>3. /\ wvCache' \in [WaveImports \X WaveTracks -> KnownStates \cup {NoWave}]
        /\ \A j \in WaveImports, u \in WaveTracks :
             wvCache'[j, u] = IF j = i /\ u = t THEN known ELSE wvCache[j, u]
    BY <1>1, <1>2 DEF WavesInv
  <1>4. CacheKnown(wvCache')
    BY <1>2, <1>3 DEF WavesInv, CacheKnown
  <1>5. UNCHANGED <<wvImport, wvIds, wvShown, wvSlot, wvToken, wvAsk, wvTimer>>
    BY DEF CacheChanges
  <1> QED BY <1>3, <1>4, <1>5 DEF WavesInv, WavesLoad, InFlight

LEMMA WavesStepInv == WavesInv /\ [WavesNext]_waveVars => WavesInv'
  <1> SUFFICES ASSUME WavesInv, [WavesNext]_waveVars PROVE WavesInv'
    OBVIOUS
  <1>1. CASE UNCHANGED waveVars
    BY <1>1 DEF waveVars, WavesInv, WavesLoad, InFlight, CacheKnown
  <1>2. CASE WavesNext
    BY <1>2, ShowTracksInv, ShowImportInv, ProgressedInv, RetryInv, AnswerInv, CacheChangesInv DEF WavesNext
  <1> QED BY <1>1, <1>2

-----------------------------------------------------------------------------
(* The upload of analysis files.                                           *)

Batches == [files : SUBSET UploadFiles, state : BatchStates,
            step : {"none", "session", "sending", "backoff"}, attempt : 0 .. MaxAttempts]
Live == {"queued", "active"}

\* The files that are still to be looked up, and those that a batch has to send.
ToResolve == UNION {upWork[k] : k \in DOMAIN upWork}
ToSend == UNION {upQueue[i].files : i \in {j \in DOMAIN upQueue : upQueue[j].state \in Live}}

\* A file is with one window or one batch at a time, and nothing is known of it yet.
FirstPass ==
  upRound = 0 =>
    /\ \A k \in DOMAIN upWork : upWork[k] \cap ToSend = {}
    /\ \A j, k \in DOMAIN upWork : j # k => upWork[j] \cap upWork[k] = {}
    /\ \A i, j \in DOMAIN upQueue :
         i # j /\ upQueue[i].state \in Live /\ upQueue[j].state \in Live
         => upQueue[i].files \cap upQueue[j].files = {}
    /\ \A f \in ToResolve \cup ToSend : upKnown[f] = "none"

\* Until the user stops the transfer no file is forgotten.
NoneForgotten ==
  /\ ~upStopped => \A f \in UploadFiles : upKnown[f] = "none" => f \in ToResolve \cup ToSend
  /\ upPhase \in {"waiting", "done"} \/ upRound > 0 => \A f \in UploadFiles : upKnown[f] # "none"

\* What the phases and steps say of the queue, the retries and the rounds.
Paced ==
  /\ upPhase \in {"resolving", "waiting"} => DOMAIN upQueue = {}
  /\ upPhase = "waiting" => upRound < FileRetries
  /\ \A i \in DOMAIN upQueue : upQueue[i].step = "backoff" => upQueue[i].attempt < MaxAttempts

UploadInv == UploadTypeOK /\ FirstPass /\ NoneForgotten /\ Paced /\ ConfirmedIsStored

-----------------------------------------------------------------------------
(* Cutting files into batches.                                             *)

\* A finite set as a sequence has every element once.
LEMMA ListedOnce ==
  ASSUME NEW files, IsFiniteSet(files)
  PROVE  /\ Cardinality(files) \in Nat
         /\ SetToSeq(files) \in [1 .. Cardinality(files) -> files]
         /\ \A a, b \in 1 .. Cardinality(files) :
              SetToSeq(files)[a] = SetToSeq(files)[b] => a = b
         /\ \A f \in files : \E a \in 1 .. Cardinality(files) : SetToSeq(files)[a] = f
  <1> DEFINE n == Cardinality(files)
  <1>1. n \in Nat /\ ExistsBijection(1 .. n, files)
    BY FS_CardinalityType
  <1>2. PICK g \in [1 .. n -> files] : IsInjective(g)
    BY <1>1 DEF ExistsBijection, Bijection, Injection
  <1>3. SetToSeq(files) \in [1 .. n -> files] /\ IsInjective(SetToSeq(files))
    BY <1>2 DEF SetToSeq
  <1>4. \A a, b \in 1 .. n : SetToSeq(files)[a] = SetToSeq(files)[b] => a = b
    BY <1>3 DEF IsInjective
  <1>5. IsFiniteSet(1 .. n) /\ Cardinality(1 .. n) = Cardinality(files)
    BY <1>1, FS_Interval
  <1>6. SetToSeq(files) \in Injection(1 .. n, files)
    BY <1>3 DEF Injection
  <1>7. SetToSeq(files) \in Surjection(1 .. n, files)
    BY <1>5, <1>6, FS_Injection
  <1> QED BY <1>1, <1>3, <1>4, <1>7 DEF Surjection

\* The quotient, and the place of an item in runs of `size` items.
LEMMA Quotient ==
  ASSUME NEW n \in Nat, NEW size \in Nat \ {0}
  PROVE  /\ n \div size \in Nat
         /\ (n \div size) * size <= n /\ n < (n \div size) * size + size
  BY SMT

LEMMA RunOf ==
  ASSUME NEW n \in Nat, NEW size \in Nat \ {0}, NEW k \in 1 .. n
  PROVE  \E b \in 1 .. ((n + size - 1) \div size) : (b - 1) * size + 1 <= k /\ k <= b * size
  <1> DEFINE q == (k - 1) \div size
             m == (n + size - 1) \div size
  <1>1. q \in Nat /\ q * size <= k - 1 /\ k - 1 < q * size + size
    BY Quotient
  <1>2. m \in Nat /\ n + size - 1 < m * size + size
    BY Quotient
  <1> HIDE DEF q, m
  <1>3. q * size < m * size
    BY <1>1, <1>2
  <1>4. q < m
    BY <1>1, <1>2, <1>3, SMT
  <1>5. (q + 1) - 1 = q /\ (q + 1) * size = q * size + size
    BY <1>1, SMT
  <1>6. q + 1 \in 1 .. m /\ ((q + 1) - 1) * size + 1 <= k /\ k <= (q + 1) * size
    BY <1>1, <1>2, <1>4, <1>5
  <1> QED BY <1>6 DEF m

LEMMA RunsApart ==
  ASSUME NEW size \in Nat \ {0}, NEW a \in Nat, NEW b \in Nat, a < b
  PROVE  a * size <= (b - 1) * size
  <1>1. a <= b - 1 /\ b - 1 \in Nat
    OBVIOUS
  <1> QED BY <1>1, SMT

\* buildBatches: the files, in batches that share none.
LEMMA BatchesPartition ==
  ASSUME NEW files, IsFiniteSet(files)
  PROVE  /\ \E m \in Nat : DOMAIN BuildBatches(files) = 1 .. m
         /\ \A b \in DOMAIN BuildBatches(files) : BuildBatches(files)[b] \subseteq files
         /\ \A f \in files : \E b \in DOMAIN BuildBatches(files) : f \in BuildBatches(files)[b]
         /\ \A a, b \in DOMAIN BuildBatches(files) :
              a # b => BuildBatches(files)[a] \cap BuildBatches(files)[b] = {}
         /\ files = {} => DOMAIN BuildBatches(files) = {}
  <1> DEFINE seq == SetToSeq(files)
             n == Cardinality(files)
             m == (n + BatchLimit - 1) \div BatchLimit
             end(b) == IF b * BatchLimit < n THEN b * BatchLimit ELSE n
             batch(b) == ToSet(SubSeq(seq, (b - 1) * BatchLimit + 1, end(b)))
  <1>1. /\ n \in Nat /\ seq \in [1 .. n -> files]
        /\ \A a, b \in 1 .. n : seq[a] = seq[b] => a = b
        /\ \A f \in files : \E a \in 1 .. n : seq[a] = f
    BY ListedOnce
  <1>2. BatchLimit \in Nat \ {0}
    BY UploadAssumption
  <1>3. Len(seq) = n
    BY <1>1
  <1>4. BuildBatches(files) = [b \in 1 .. m |-> batch(b)]
    BY <1>3 DEF BuildBatches
  <1>5. m \in Nat
    BY <1>1, <1>2, Quotient
  <1>11. files = {} => 1 .. m = {}
    <2> SUFFICES ASSUME files = {} PROVE m = 0
      BY <1>5
    <2>1. n = 0
      BY FS_EmptySet
    <2>2. m * BatchLimit < BatchLimit
      BY <1>2, <2>1, Quotient
    <2> HIDE DEF m
    <2> QED BY <1>2, <1>5, <2>2, RunsApart, SMT
  <1> HIDE DEF seq, n, m
  <1>6. ASSUME NEW b \in 1 .. m
        PROVE  /\ (b - 1) * BatchLimit + 1 \in Nat \ {0} /\ end(b) \in 0 .. n
               /\ batch(b) = {seq[k] : k \in ((b - 1) * BatchLimit + 1) .. end(b)}
    <2>1. (b - 1) * BatchLimit \in Nat /\ b * BatchLimit \in Nat
      BY <1>2, <1>5, SMT
    <2> DEFINE lo == (b - 1) * BatchLimit + 1
               hi == end(b)
    <2>2. lo \in Nat \ {0} /\ hi \in 0 .. n
      BY <1>1, <2>1
    <2> HIDE DEF lo, hi
    <2>3. ToSet(SubSeq(seq, lo, hi)) = {seq[k] : k \in lo .. hi}
      <3>1. /\ DOMAIN SubSeq(seq, lo, hi) = 1 .. (1 + hi - lo)
            /\ \A i \in 1 .. (1 + hi - lo) : SubSeq(seq, lo, hi)[i] = seq[i + lo - 1]
        BY <1>1, <1>3, <2>2
      <3>2. ToSet(SubSeq(seq, lo, hi)) = {seq[i + lo - 1] : i \in 1 .. (1 + hi - lo)}
        BY <3>1 DEF ToSet
      <3>3. \A i \in 1 .. (1 + hi - lo) : i + lo - 1 \in lo .. hi
        BY <2>2
      <3>4. \A k \in lo .. hi : k + 1 - lo \in 1 .. (1 + hi - lo) /\ (k + 1 - lo) + lo - 1 = k
        BY <2>2
      <3> QED BY <3>2, <3>3, <3>4
    <2> QED BY <2>2, <2>3 DEF lo, hi
  <1> HIDE DEF batch, end
  <1>7. ASSUME NEW b \in 1 .. m
        PROVE  batch(b) \subseteq files
    BY <1>1, <1>6
  <1>8. ASSUME NEW f \in files
        PROVE  \E b \in 1 .. m : f \in batch(b)
    <2>1. PICK k \in 1 .. n : seq[k] = f
      BY <1>1
    <2>2. PICK b \in 1 .. m : (b - 1) * BatchLimit + 1 <= k /\ k <= b * BatchLimit
      BY <1>1, <1>2, RunOf DEF m
    <2>3. k \in ((b - 1) * BatchLimit + 1) .. end(b)
      BY <1>1, <1>2, <1>6, <2>1, <2>2 DEF end
    <2> QED BY <1>6, <2>1, <2>3
  <1>9. ASSUME NEW a \in 1 .. m, NEW b \in 1 .. m, a < b
        PROVE  batch(a) \cap batch(b) = {}
    <2> SUFFICES ASSUME NEW f \in batch(a), f \in batch(b) PROVE FALSE
      OBVIOUS
    <2>1. PICK j \in ((a - 1) * BatchLimit + 1) .. end(a) : seq[j] = f
      BY <1>6
    <2>2. PICK k \in ((b - 1) * BatchLimit + 1) .. end(b) : seq[k] = f
      BY <1>6
    <2>3. a * BatchLimit <= (b - 1) * BatchLimit
      BY <1>2, <1>5, <1>9, RunsApart
    <2>4. j \in Int /\ k \in Int /\ j <= a * BatchLimit /\ k >= (b - 1) * BatchLimit + 1 /\ j <= n /\ k <= n
      BY <1>1, <1>2, <1>6, <2>1, <2>2 DEF end
    <2>5. j \in 1 .. n /\ k \in 1 .. n
      BY <1>1, <1>6, <2>1, <2>2
    <2>6. j < k
      <3>1. a * BatchLimit \in Int /\ (b - 1) * BatchLimit \in Int
        BY <1>2, <1>5
      <3> QED BY <2>3, <2>4, <3>1
    <2> QED BY <1>1, <2>1, <2>2, <2>5, <2>6
  <1>10. \A a, b \in 1 .. m : a # b => batch(a) \cap batch(b) = {}
    <2> SUFFICES ASSUME NEW a \in 1 .. m, NEW b \in 1 .. m, a # b
                 PROVE  batch(a) \cap batch(b) = {}
      OBVIOUS
    <2>1. a < b \/ b < a
      BY <1>5
    <2> QED BY <1>9, <2>1
  <1> QED BY <1>4, <1>5, <1>7, <1>8, <1>10, <1>11

-----------------------------------------------------------------------------
(* The queue.                                                              *)

\* What scheduling changes: queued batches start, or never will.
LEMMA ScheduledMeans ==
  ASSUME NEW queue, NEW stopped \in BOOLEAN, \A i \in DOMAIN queue : queue[i] \in Batches
  PROVE  /\ DOMAIN Scheduled(queue, stopped) = DOMAIN queue
         /\ \A i \in DOMAIN queue :
              /\ Scheduled(queue, stopped)[i] \in Batches
              /\ Scheduled(queue, stopped)[i].files = queue[i].files
              /\ Scheduled(queue, stopped)[i].state \in Live => queue[i].state \in Live
              /\ ~stopped /\ queue[i].state \in Live => Scheduled(queue, stopped)[i].state \in Live
              /\ Scheduled(queue, stopped)[i].step \in {"sending", "backoff"} =>
                   /\ Scheduled(queue, stopped)[i].step = queue[i].step
                   /\ Scheduled(queue, stopped)[i].attempt = queue[i].attempt
  <1>1. ASSUME NEW x \in Batches
        PROVE  /\ [x EXCEPT !.state = "cancelled-before-start"] \in Batches
               /\ [x EXCEPT !.state = "cancelled-before-start"].files = x.files
               /\ [x EXCEPT !.state = "cancelled-before-start"].state = "cancelled-before-start"
               /\ [x EXCEPT !.state = "cancelled-before-start"].step = x.step
               /\ [x EXCEPT !.state = "cancelled-before-start"].attempt = x.attempt
    BY DEF Batches, BatchStates
  <1> DEFINE start(x) == [x EXCEPT !.state = "active", !.step = "session", !.attempt = 1]
  <1>2. ASSUME NEW x \in Batches
        PROVE  /\ start(x) \in Batches /\ start(x).files = x.files
               /\ start(x).state = "active" /\ start(x).step = "session"
    <2>1. 1 \in 0 .. MaxAttempts
      BY UploadAssumption
    <2> QED BY <2>1 DEF Batches, BatchStates
  <1>3. CASE stopped
    <2>1. Scheduled(queue, stopped) = [i \in DOMAIN queue |->
             IF queue[i].state = "queued" THEN [queue[i] EXCEPT !.state = "cancelled-before-start"]
                                          ELSE queue[i]]
      BY <1>3 DEF Scheduled, AbortScheduling
    <2> QED BY <1>1, <1>3, <2>1 DEF Live
  <1>4. CASE ~stopped
    <2> DEFINE starts(i) == /\ queue[i].state = "queued"
                            /\ Cardinality({j \in InState(queue, "queued") : j < i})
                                 < MaxConcurrent - Cardinality(InState(queue, "active"))
    <2>1. Scheduled(queue, stopped) = [i \in DOMAIN queue |->
             IF starts(i) THEN start(queue[i]) ELSE queue[i]]
      BY <1>4 DEF Scheduled
    <2>2. \A i \in DOMAIN queue : starts(i) => queue[i].state = "queued"
      OBVIOUS
    <2> HIDE DEF starts, start
    <2> QED BY <1>2, <1>4, <2>1, <2>2 DEF Live
  <1> QED BY <1>3, <1>4

\* A batch settles: it alone stops being live, unless the user has stopped.
LEMMA SettledMeans ==
  ASSUME UploadTypeOK, NEW i \in DOMAIN upQueue, NEW s \in BatchStates \ Live
  PROVE  /\ DOMAIN Settled(upQueue, i, s) = DOMAIN upQueue
         /\ \A j \in DOMAIN upQueue :
              /\ Settled(upQueue, i, s)[j] \in Batches
              /\ Settled(upQueue, i, s)[j].files = upQueue[j].files
              /\ Settled(upQueue, i, s)[j].state \in Live => j # i /\ upQueue[j].state \in Live
              /\ ~upStopped /\ j # i /\ upQueue[j].state \in Live
                   => Settled(upQueue, i, s)[j].state \in Live
              /\ Settled(upQueue, i, s)[j].step \in {"sending", "backoff"} =>
                   /\ Settled(upQueue, i, s)[j].step = upQueue[j].step
                   /\ Settled(upQueue, i, s)[j].attempt = upQueue[j].attempt
  <1> DEFINE queue == [upQueue EXCEPT ![i].state = s, ![i].step = "none"]
             settle(x) == [x EXCEPT !.state = s, !.step = "none"]
  <1>1. \A j \in DOMAIN upQueue : upQueue[j] \in Batches
    BY DEF UploadTypeOK, Batches
  <1>2. ASSUME NEW x \in Batches
        PROVE  /\ settle(x) \in Batches /\ settle(x).files = x.files
               /\ settle(x).state = s /\ settle(x).step = "none"
    BY DEF Batches
  <1>3. /\ DOMAIN queue = DOMAIN upQueue
        /\ queue[i] = settle(upQueue[i])
        /\ \A j \in DOMAIN upQueue \ {i} : queue[j] = upQueue[j]
    BY Zenon
  <1>4. Settled(upQueue, i, s) = Scheduled(queue, upStopped)
    BY Zenon DEF Settled
  <1> HIDE DEF queue, settle
  <1>5. \A j \in DOMAIN queue : queue[j] \in Batches
    BY <1>1, <1>2, <1>3
  <1>6. upStopped \in BOOLEAN
    BY DEF UploadTypeOK
  <1> QED BY <1>1, <1>2, <1>3, <1>4, <1>5, <1>6, ScheduledMeans

Apart(a, b) == a \cap b = {}

\* Cardinalities of the files that a step has newly confirmed.
LEMMA Counted ==
  ASSUME NEW all, IsFiniteSet(all), NEW old \in SUBSET all, NEW new \in SUBSET all,
         NEW again \in SUBSET all, Apart(old, new), Apart(old, again), Apart(new, again)
  PROVE  /\ Cardinality(old \cup new \cup again)
              = Cardinality(old) + Cardinality(new) + Cardinality(again)
         /\ Cardinality(old) \in Nat /\ Cardinality(new) \in Nat /\ Cardinality(again) \in Nat
  <1>1. IsFiniteSet(old) /\ IsFiniteSet(new) /\ IsFiniteSet(again) /\ IsFiniteSet(old \cup new)
    <2>1. IsFiniteSet(old) /\ IsFiniteSet(new) /\ IsFiniteSet(again)
      BY FS_Subset
    <2>2. old \cup new \in SUBSET all
      OBVIOUS
    <2> QED BY <2>1, <2>2, FS_Subset
  <1> DEFINE both == old \cup new
  <1>2. Cardinality(old) \in Nat /\ Cardinality(new) \in Nat /\ Cardinality(again) \in Nat
        /\ Cardinality(old \cup new) \in Nat
    BY <1>1, FS_CardinalityType
  <1>3. Cardinality(old \cap new) = 0 /\ Cardinality((old \cup new) \cap again) = 0
    <2>1. old \cap new = {} /\ (old \cup new) \cap again = {}
      BY DEF Apart
    <2> QED BY <2>1, FS_EmptySet
  <1>4. Cardinality(old \cup new) = Cardinality(old) + Cardinality(new)
    <2>1. IsFiniteSet(old) /\ IsFiniteSet(new) /\ Cardinality(old \cap new) = 0
      BY <1>1, <1>3
    <2>2. Cardinality(old \cup new) = Cardinality(old) + Cardinality(new) - Cardinality(old \cap new)
      BY <2>1, FS_Union, Zenon
    <2> QED BY <1>2, <2>1, <2>2
  <1>5. Cardinality(both \cup again) = Cardinality(both) + Cardinality(again)
    <2>1. IsFiniteSet(both) /\ Cardinality(both) \in Nat /\ Cardinality(both \cap again) = 0
      BY <1>1, <1>2, <1>3
    <2> HIDE DEF both
    <2>2. Cardinality(both \cup again)
            = Cardinality(both) + Cardinality(again) - Cardinality(both \cap again)
      BY <1>1, <2>1, FS_Union, Zenon
    <2> QED BY <1>2, <2>1, <2>2
  <1> QED BY <1>2, <1>4, <1>5

-----------------------------------------------------------------------------
(* The steps of a batch.                                                   *)

LEMMA UploadTypes ==
  ASSUME UploadTypeOK
  PROVE  /\ \A i \in DOMAIN upQueue : /\ upQueue[i] \in Batches /\ upQueue[i].files \subseteq UploadFiles
                                      /\ upQueue[i].attempt \in 0 .. MaxAttempts
         /\ upKnown \in [UploadFiles -> {"none", "missing"} \cup Stored \cup Failed]
         /\ upStopped \in BOOLEAN /\ upRound \in 0 .. FileRetries
         /\ upWork \in Seq(SUBSET UploadFiles) /\ upStored \subseteq UploadFiles
         /\ IsFiniteSet(UploadFiles) /\ "none" \notin Stored \cup Failed
         /\ BatchLimit \in Nat \ {0} /\ MaxAttempts \in Nat \ {0} /\ FileRetries \in Nat
  <1>1. IsFiniteSet(UploadFiles) /\ BatchLimit \in Nat \ {0} /\ MaxAttempts \in Nat \ {0} /\ FileRetries \in Nat
    BY UploadAssumption DEF UploadFiles
  <1>2. \A i \in DOMAIN upQueue : upQueue[i] \in Batches
    BY DEF UploadTypeOK, Batches
  <1>3. ASSUME NEW x \in Batches PROVE x.files \subseteq UploadFiles /\ x.attempt \in 0 .. MaxAttempts
    BY DEF Batches
  <1> QED BY <1>1, <1>2, <1>3 DEF UploadTypeOK, Stored, Failed

\* A step of batch i keeps the queue's invariants if no other batch is touched and
\* its files, when it settles, are decided.
LEMMA BatchStep ==
  ASSUME UploadInv, NEW i \in DOMAIN upQueue, upQueue[i].state \in Live,
         UNCHANGED <<upPhase, upWork, upRound, upStopped>>,
         DOMAIN upQueue' = DOMAIN upQueue,
         \A j \in DOMAIN upQueue : /\ upQueue'[j].files = upQueue[j].files
                                   /\ upQueue'[j].state \in Live => upQueue[j].state \in Live
                                   /\ upQueue'[j].step = "backoff" => upQueue'[j].attempt < MaxAttempts,
         ~upStopped => \A j \in DOMAIN upQueue : j # i /\ upQueue[j].state \in Live
                                                  => upQueue'[j].state \in Live,
         \A f \in UploadFiles : \/ upKnown'[f] = upKnown[f]
                                \/ /\ upKnown'[f] # "none" /\ f \in upQueue[i].files
                                   /\ upQueue'[i].state \notin Live,
         upQueue'[i].state \notin Live => upStopped \/ \A f \in upQueue[i].files : upKnown'[f] # "none"
  PROVE  FirstPass' /\ NoneForgotten' /\ Paced'
  <1> USE DEF UploadInv
  <1>1. Paced'
    BY DEF Paced
  <1>2. ToResolve' = ToResolve /\ ToSend' \subseteq ToSend
    BY DEF ToResolve, ToSend
  <1>3. NoneForgotten'
    <2>1. ASSUME ~upStopped, NEW f \in UploadFiles, upKnown'[f] = "none"
          PROVE  f \in ToResolve' \cup ToSend'
      <3>1. upKnown[f] = "none"
        BY <2>1
      <3>2. f \in ToResolve \/ \E j \in DOMAIN upQueue : upQueue[j].state \in Live /\ f \in upQueue[j].files
        BY <2>1, <3>1 DEF NoneForgotten, ToSend
      <3>3. ASSUME NEW j \in DOMAIN upQueue, upQueue[j].state \in Live, f \in upQueue[j].files
            PROVE  upQueue'[j].state \in Live /\ f \in upQueue'[j].files
        BY <2>1, <3>3
      <3> QED BY <1>2, <3>2, <3>3 DEF ToSend
    <2> QED BY <2>1 DEF NoneForgotten
  <1>4. FirstPass'
    <2> SUFFICES ASSUME upRound = 0 PROVE FirstPass'
      BY DEF FirstPass
    <2>1. \A f \in ToResolve \cup ToSend' : upKnown'[f] = "none"
      <3> SUFFICES ASSUME NEW f \in ToResolve \cup ToSend' PROVE upKnown'[f] = upKnown[f]
        BY <1>2 DEF FirstPass
      <3>1. f \in UploadFiles
        BY <1>2, UploadTypes DEF ToResolve, ToSend
      <3>2. CASE f \in ToResolve
        BY <3>1, <3>2 DEF FirstPass, ToResolve, ToSend
      <3>3. CASE f \in ToSend'
        <4>1. PICK j \in DOMAIN upQueue : upQueue'[j].state \in Live /\ f \in upQueue[j].files
          BY <3>3 DEF ToSend
        <4> QED BY <3>1, <4>1 DEF FirstPass
      <3> QED BY <3>2, <3>3
    <2> QED BY <1>2, <2>1 DEF FirstPass
  <1> QED BY <1>1, <1>3, <1>4

\* A step that changes only the step or the attempt of a live batch.
LEMMA WaitingStep ==
  ASSUME UploadInv, NEW i \in DOMAIN upQueue, upQueue[i].state = "active",
         DOMAIN upQueue' = DOMAIN upQueue,
         \A j \in DOMAIN upQueue \ {i} : upQueue'[j] = upQueue[j],
         upQueue'[i] \in Batches, upQueue'[i].files = upQueue[i].files,
         upQueue'[i].state = upQueue[i].state,
         upQueue'[i].step = "backoff" => upQueue'[i].attempt < MaxAttempts,
         upStored \subseteq upStored', upStored' \subseteq UploadFiles,
         UNCHANGED <<upPhase, upWork, upRound, upStopped, upKnown, upCounts>>
  PROVE  UploadInv'
  <1>1. \A j \in DOMAIN upQueue :
          /\ upQueue'[j] \in Batches /\ upQueue'[j].files = upQueue[j].files
          /\ upQueue'[j].state = upQueue[j].state
          /\ upQueue'[j].step = "backoff" => upQueue'[j].attempt < MaxAttempts
    BY UploadTypes DEF UploadInv, Paced
  <1>2. FirstPass' /\ NoneForgotten' /\ Paced'
    BY <1>1, BatchStep DEF Live
  <1>3. UploadTypeOK'
    BY <1>1 DEF UploadInv, UploadTypeOK, Batches
  <1>4. ConfirmedIsStored'
    BY DEF UploadInv, ConfirmedIsStored
  <1> QED BY <1>2, <1>3, <1>4 DEF UploadInv

\* A batch settles with the files decided that it must decide.
LEMMA SettledStep ==
  ASSUME UploadInv, NEW i \in DOMAIN upQueue, upQueue[i].state = "active",
         NEW s \in BatchStates \ Live, upQueue' = Settled(upQueue, i, s),
         UNCHANGED <<upPhase, upWork, upRound, upStopped>>,
         \A f \in UploadFiles : \/ upKnown'[f] = upKnown[f]
                                \/ upKnown'[f] # "none" /\ f \in upQueue[i].files,
         upStopped \/ \A f \in upQueue[i].files : upKnown'[f] # "none"
  PROVE  /\ FirstPass' /\ NoneForgotten' /\ Paced'
         /\ \A j \in DOMAIN upQueue' : upQueue'[j] \in Batches
  <1>1. /\ DOMAIN upQueue' = DOMAIN upQueue
        /\ \A j \in DOMAIN upQueue :
             /\ upQueue'[j] \in Batches /\ upQueue'[j].files = upQueue[j].files
             /\ upQueue'[j].state \in Live => j # i /\ upQueue[j].state \in Live
             /\ ~upStopped /\ j # i /\ upQueue[j].state \in Live => upQueue'[j].state \in Live
             /\ upQueue'[j].step \in {"sending", "backoff"} =>
                  upQueue'[j].step = upQueue[j].step /\ upQueue'[j].attempt = upQueue[j].attempt
    BY SettledMeans DEF UploadInv
  <1>2. \A j \in DOMAIN upQueue : upQueue'[j].step = "backoff" => upQueue'[j].attempt < MaxAttempts
    BY <1>1 DEF UploadInv, Paced
  <1>3. upQueue[i].state \in Live /\ upQueue'[i].state \notin Live
    BY <1>1 DEF Live
  <1> QED BY <1>1, <1>2, <1>3, BatchStep

LEMMA AttemptWaitsInv ==
  ASSUME UploadInv, NEW i \in DOMAIN upQueue, AttemptSend(i) \/ AttemptAgain(i)
  PROVE  UploadInv'
  <1> DEFINE send(x) == [x EXCEPT !.step = "sending"]
             again(x) == [x EXCEPT !.step = "session", !.attempt = @ + 1]
  <1>1. ASSUME NEW x \in Batches
        PROVE  /\ send(x) \in Batches /\ send(x).files = x.files /\ send(x).state = x.state
               /\ send(x).step = "sending"
    BY DEF Batches
  <1>2. ASSUME NEW x \in Batches, x.attempt < MaxAttempts
        PROVE  /\ again(x) \in Batches /\ again(x).files = x.files /\ again(x).state = x.state
               /\ again(x).step = "session"
    <2>1. x.attempt + 1 \in 0 .. MaxAttempts
      BY <1>2, UploadAssumption DEF Batches
    <2> QED BY <2>1 DEF Batches
  <1>3. /\ upQueue[i].state = "active" /\ upQueue[i] \in Batches /\ DOMAIN upQueue' = DOMAIN upQueue
        /\ \A j \in DOMAIN upQueue \ {i} : upQueue'[j] = upQueue[j]
        /\ UNCHANGED <<upPhase, upWork, upRound, upStopped, upKnown, upCounts, upStored>>
    BY UploadTypes DEF UploadInv, AttemptSend, AttemptAgain, UploadAttemptFrame
  <1>4. \/ upQueue'[i] = send(upQueue[i])
        \/ upQueue'[i] = again(upQueue[i]) /\ upQueue[i].attempt < MaxAttempts
    BY DEF AttemptSend, AttemptAgain, UploadInv, Paced
  <1>5. upStored \subseteq UploadFiles
    BY DEF UploadInv, UploadTypeOK
  <1> HIDE DEF send, again
  <1>6. upQueue'[i] \in Batches /\ upQueue'[i].files = upQueue[i].files
        /\ upQueue'[i].state = upQueue[i].state /\ upQueue'[i].step # "backoff"
    BY <1>1, <1>2, <1>3, <1>4
  <1> QED BY <1>3, <1>5, <1>6, WaitingStep

LEMMA AttemptFailsInv ==
  ASSUME UploadInv, NEW i \in DOMAIN upQueue, AttemptFails(i)
  PROVE  UploadInv'
  <1> DEFINE backoff(x) == [x EXCEPT !.step = "backoff"]
  <1>1. /\ upQueue[i].state = "active" /\ ~upStopped /\ upQueue[i].files \subseteq UploadFiles
        /\ upStored \subseteq upStored' /\ upStored' \subseteq UploadFiles
        /\ UNCHANGED <<upPhase, upWork, upRound, upStopped, upCounts>>
    BY UploadTypes DEF UploadInv, AttemptFails, UploadAttemptFrame
  <1>2. CASE /\ upQueue[i].attempt < MaxAttempts
             /\ upQueue' = [upQueue EXCEPT ![i].step = "backoff"]
             /\ UNCHANGED upKnown
    <2>1. ASSUME NEW x \in Batches
          PROVE  /\ backoff(x) \in Batches /\ backoff(x).files = x.files /\ backoff(x).state = x.state
                 /\ backoff(x).attempt = x.attempt
      BY DEF Batches
    <2>2. /\ upQueue'[i] = backoff(upQueue[i]) /\ DOMAIN upQueue' = DOMAIN upQueue
          /\ \A j \in DOMAIN upQueue \ {i} : upQueue'[j] = upQueue[j]
      BY <1>2
    <2> HIDE DEF backoff
    <2>3. /\ upQueue'[i] \in Batches /\ upQueue'[i].files = upQueue[i].files
          /\ upQueue'[i].state = upQueue[i].state /\ upQueue'[i].attempt < MaxAttempts
      BY <1>2, <2>1, <2>2, UploadTypes DEF UploadInv
    <2> QED BY <1>1, <1>2, <2>2, <2>3, WaitingStep
  <1>3. CASE /\ upQueue' = Settled(upQueue, i, "failed")
             /\ IF upRound = 0 THEN RecordFailedBatch(upQueue[i].files) ELSE UNCHANGED upKnown
    <2>1. /\ upKnown' \in [UploadFiles -> {"none", "missing"} \cup Stored \cup Failed]
          /\ \A f \in UploadFiles : /\ upKnown'[f] \in Stored <=> upKnown[f] \in Stored
                                    /\ \/ upKnown'[f] = upKnown[f]
                                       \/ upKnown'[f] # "none" /\ f \in upQueue[i].files
          /\ \A f \in upQueue[i].files : upKnown'[f] # "none"
      BY <1>1, <1>3, UploadTypes DEF UploadInv, RecordFailedBatch, NoneForgotten, Stored, Failed
    <2>2. "failed" \in BatchStates \ Live
      BY DEF BatchStates, Live
    <2>3. /\ FirstPass' /\ NoneForgotten' /\ Paced'
          /\ \A j \in DOMAIN upQueue' : upQueue'[j] \in Batches
      BY <1>1, <1>3, <2>1, <2>2, SettledStep
    <2>4. {f \in UploadFiles : upKnown'[f] \in Stored} = {f \in UploadFiles : upKnown[f] \in Stored}
      BY <2>1
    <2>5. ConfirmedIsStored'
      BY <1>1, <2>1, <2>4 DEF UploadInv, ConfirmedIsStored
    <2>6. UploadTypeOK'
      BY <1>1, <2>1, <2>3 DEF UploadInv, UploadTypeOK, Batches
    <2> QED BY <2>3, <2>5, <2>6 DEF UploadInv
  <1> QED BY <1>2, <1>3 DEF AttemptFails

LEMMA AttemptAbortedInv ==
  ASSUME UploadInv, NEW i \in DOMAIN upQueue, AttemptAborted(i)
  PROVE  UploadInv'
  <1>1. /\ upQueue[i].state = "active" /\ upStopped
        /\ upStored \subseteq upStored' /\ upStored' \subseteq UploadFiles
        /\ upQueue' = Settled(upQueue, i, "cancelled-active")
        /\ UNCHANGED <<upPhase, upWork, upRound, upStopped, upCounts, upKnown>>
    BY UploadTypes DEF UploadInv, AttemptAborted, UploadAttemptFrame
  <1>2. "cancelled-active" \in BatchStates \ Live
    BY DEF BatchStates, Live
  <1>3. /\ FirstPass' /\ NoneForgotten' /\ Paced'
        /\ \A j \in DOMAIN upQueue' : upQueue'[j] \in Batches
    BY <1>1, <1>2, SettledStep
  <1>4. ConfirmedIsStored'
    BY <1>1 DEF UploadInv, ConfirmedIsStored
  <1>5. UploadTypeOK'
    BY <1>1, <1>3 DEF UploadInv, UploadTypeOK, Batches
  <1> QED BY <1>3, <1>4, <1>5 DEF UploadInv

\* An answer confirms what the backend keeps, and counts each file once: in the first
\* pass nothing was known of the files of a live batch, afterwards only what was not
\* stored is counted.
LEMMA AttemptAnsweredInv ==
  ASSUME UploadInv, NEW i \in DOMAIN upQueue, AttemptAnswered(i)
  PROVE  UploadInv'
  <1> DEFINE files == upQueue[i].files
  <1>1. PICK kept \in SUBSET files, answer \in [files -> Stored \cup {"error", "refused", "rejected"}] :
          /\ upQueue[i].state = "active" /\ upQueue' = Settled(upQueue, i, "completed")
          /\ UNCHANGED <<upPhase, upWork, upRound, upStopped>>
          /\ upStored' = upStored \cup kept
          /\ \A f \in files : answer[f] \in Stored => f \in kept
          /\ IF upRound = 0 THEN AddBatchResponse(answer) ELSE CorrectRetry(answer)
    <2>1. /\ upQueue[i].state = "active" /\ upQueue' = Settled(upQueue, i, "completed")
          /\ UNCHANGED <<upPhase, upWork, upRound, upStopped>>
      BY DEF AttemptAnswered, UploadAttemptFrame
    <2> DEFINE reply(kept, why) ==
                 [f \in files |-> IF f \notin kept THEN why[f]
                                 ELSE IF f \in upStored THEN "already_received" ELSE "received"]
    <2>2. PICK kept \in SUBSET files : \E why \in [files \ kept -> {"error", "refused", "rejected"}] :
            /\ upStored' = upStored \cup kept
            /\ IF upRound = 0 THEN AddBatchResponse(reply(kept, why)) ELSE CorrectRetry(reply(kept, why))
      BY DEF AttemptAnswered
    <2>3. PICK why \in [files \ kept -> {"error", "refused", "rejected"}] :
            /\ upStored' = upStored \cup kept
            /\ IF upRound = 0 THEN AddBatchResponse(reply(kept, why)) ELSE CorrectRetry(reply(kept, why))
      BY <2>2
    <2>4. /\ reply(kept, why) \in [files -> Stored \cup {"error", "refused", "rejected"}]
          /\ \A f \in files : reply(kept, why)[f] \in Stored => f \in kept
      BY DEF Stored
    <2> HIDE DEF reply
    <2> QED BY <2>1, <2>3, <2>4
  <1>2. files \subseteq UploadFiles /\ DOMAIN answer = files /\ IsFiniteSet(files)
    BY <1>1, UploadTypes, FS_Subset DEF UploadInv
  <1> DEFINE old == {f \in UploadFiles : upKnown[f] \in Stored}
             asked == {f \in files : upKnown[f] \notin Stored}
             new == {f \in asked : answer[f] = "received"}
             again == {f \in asked : answer[f] = "already_received"}
  <1>3. upRound = 0 => \A f \in files : upKnown[f] = "none"
    BY <1>1 DEF UploadInv, FirstPass, ToSend, Live
  <1>4. \A f \in UploadFiles : upKnown'[f] = IF f \in asked /\ (upRound = 0 => upKnown[f] = "none")
                                             THEN answer[f] ELSE upKnown[f]
    BY <1>1, <1>2, <1>3, UploadTypes DEF UploadInv, AddBatchResponse, CorrectRetry
  <1>5. upKnown' \in [UploadFiles -> {"none", "missing"} \cup Stored \cup Failed]
    BY <1>1, <1>2, UploadTypes DEF UploadInv, AddBatchResponse, CorrectRetry, Failed
  <1>6. /\ {f \in UploadFiles : upKnown'[f] \in Stored} = old \cup new \cup again
        /\ old \cap new = {} /\ old \cap again = {} /\ new \cap again = {}
        /\ old \in SUBSET UploadFiles /\ new \in SUBSET UploadFiles /\ again \in SUBSET UploadFiles
    BY <1>1, <1>2, <1>3, <1>4 DEF Stored
  <1>7. upCounts.received \in Nat /\ upCounts.already \in Nat /\ upCounts.error \in Nat /\ upCounts.rejected \in Nat
    BY DEF UploadInv, UploadTypeOK
  <1>8. /\ upCounts'.received = upCounts.received + Cardinality(new)
        /\ upCounts'.already = upCounts.already + Cardinality(again)
        /\ upCounts' \in [received : Nat, already : Nat, error : Nat, rejected : Nat]
    <2>1. \A S \in SUBSET UploadFiles : Cardinality(S) \in Nat
      BY UploadTypes, FS_Subset, FS_CardinalityType DEF UploadInv
    <2>2. CASE upRound = 0
      <3>1. AddBatchResponse(answer)
        BY <1>1, <2>2
      <3>2. /\ {f \in files : answer[f] \in {"received"}} = new
            /\ {f \in files : answer[f] \in {"already_received"}} = again
        BY <1>2, <1>3, <2>2, UploadTypes DEF UploadInv, Stored
      <3>3. /\ {f \in files : answer[f] \in {"error"}} \in SUBSET UploadFiles
            /\ {f \in files : answer[f] \in {"refused", "rejected"}} \in SUBSET UploadFiles
        BY <1>2
      <3> DEFINE err == {f \in files : answer[f] \in {"error"}}
                 rej == {f \in files : answer[f] \in {"refused", "rejected"}}
      <3>4. upCounts' = [received |-> upCounts.received + Cardinality(new),
                         already |-> upCounts.already + Cardinality(again),
                         error |-> upCounts.error + Cardinality(err),
                         rejected |-> upCounts.rejected + Cardinality(rej)]
        BY <1>2, <3>1, <3>2 DEF AddBatchResponse
      <3>5. Cardinality(new) \in Nat /\ Cardinality(again) \in Nat /\ Cardinality(err) \in Nat /\ Cardinality(rej) \in Nat
        BY <1>6, <2>1, <3>3
      <3> HIDE DEF new, again, err, rej
      <3> QED BY <1>7, <3>4, <3>5
    <2>3. CASE upRound # 0
      <3>1. CorrectRetry(answer)
        BY <1>1, <2>3
      <3>2. CorrectedFiles(answer, "received") = new /\ CorrectedFiles(answer, "already_received") = again
        BY <1>2 DEF CorrectedFiles
      <3> DEFINE err == Minus(upCounts.error, new \cup again, {"error"})
                 rej == Minus(upCounts.rejected, new \cup again, {"refused", "rejected"})
      <3>3. upCounts' = [received |-> upCounts.received + Cardinality(new),
                         already |-> upCounts.already + Cardinality(again),
                         error |-> err, rejected |-> rej]
        BY <3>1, <3>2 DEF CorrectRetry
      <3>4. ASSUME NEW n \in Nat, NEW S \in SUBSET UploadFiles, NEW T
            PROVE  Minus(n, S, T) \in Nat
        <4>1. Cardinality({f \in S : upKnown[f] \in T}) \in Nat
          BY <2>1
        <4> QED BY <4>1 DEF Minus
      <3>5. err \in Nat /\ rej \in Nat
        BY <1>6, <1>7, <3>4
      <3>6. Cardinality(new) \in Nat /\ Cardinality(again) \in Nat
        BY <1>6, <2>1
      <3> HIDE DEF new, again, err, rej
      <3> QED BY <1>7, <3>3, <3>5, <3>6
    <2> QED BY <2>2, <2>3
  <1>9. Cardinality(old \cup new \cup again)
           = Cardinality(old) + Cardinality(new) + Cardinality(again)
        /\ Cardinality(old) \in Nat /\ Cardinality(new) \in Nat /\ Cardinality(again) \in Nat
    <2>1. IsFiniteSet(UploadFiles)
      BY UploadTypes DEF UploadInv
    <2> HIDE DEF old, new, again
    <2>2. /\ old \in SUBSET UploadFiles /\ new \in SUBSET UploadFiles /\ again \in SUBSET UploadFiles
          /\ Apart(old, new) /\ Apart(old, again) /\ Apart(new, again)
      BY <1>6 DEF Apart
    <2> DEFINE all == UploadFiles
    <2>3. IsFiniteSet(all) /\ old \in SUBSET all /\ new \in SUBSET all /\ again \in SUBSET all
      BY <2>1, <2>2
    <2> HIDE DEF all
    <2>4. Cardinality(old) \in Nat
      BY <2>2, <2>3, Counted
    <2>5. Cardinality(old \cup new \cup again) = Cardinality(old) + Cardinality(new) + Cardinality(again)
      BY <2>2, <2>3, Counted
    <2> QED BY <2>2, <2>3, <2>4, <2>5, Counted
  <1>10. \A f \in UploadFiles : upKnown'[f] \in Stored => f \in upStored'
    BY <1>1, <1>4 DEF UploadInv, ConfirmedIsStored
  <1>11. upCounts'.received + upCounts'.already
           = Cardinality({f \in UploadFiles : upKnown'[f] \in Stored})
    <2>1. upCounts.received + upCounts.already = Cardinality(old)
      BY DEF UploadInv, ConfirmedIsStored
    <2>2. Cardinality({f \in UploadFiles : upKnown'[f] \in Stored}) = Cardinality(old \cup new \cup again)
      BY <1>6
    <2> DEFINE all == Cardinality({f \in UploadFiles : upKnown'[f] \in Stored})
               both == Cardinality(old \cup new \cup again)
    <2>3. all = both /\ both = Cardinality(old) + Cardinality(new) + Cardinality(again)
      BY <1>9, <2>2
    <2> HIDE DEF old, new, again, all, both
    <2>4. upCounts'.received + upCounts'.already = all
      BY <1>7, <1>8, <1>9, <2>1, <2>3
    <2> QED BY <2>4 DEF all
  <1>12. \A f \in UploadFiles : upKnown[f] # "none" => upKnown'[f] # "none"
    BY <1>1, <1>4 DEF Stored
  <1>13. ConfirmedIsStored'
    BY <1>1, <1>10, <1>11, <1>12 DEF UploadInv, ConfirmedIsStored
  <1>14. /\ \A f \in UploadFiles : \/ upKnown'[f] = upKnown[f]
                                   \/ upKnown'[f] # "none" /\ f \in files
         /\ \A f \in files : upKnown'[f] # "none"
    BY <1>1, <1>2, <1>3, <1>4, UploadTypes DEF UploadInv, Stored, NoneForgotten
  <1>15. "completed" \in BatchStates \ Live
    BY DEF BatchStates, Live
  <1>16. /\ FirstPass' /\ NoneForgotten' /\ Paced'
         /\ \A j \in DOMAIN upQueue' : upQueue'[j] \in Batches
    BY <1>1, <1>14, <1>15, SettledStep
  <1>17. UploadTypeOK'
    BY <1>1, <1>2, <1>5, <1>8, <1>16 DEF UploadInv, UploadTypeOK, Batches
  <1> QED BY <1>13, <1>16, <1>17 DEF UploadInv

-----------------------------------------------------------------------------
(* The steps of the transfer.                                              *)

\* A window is cut into batches that share no file, all of them live.
LEMMA WindowResolveInv == ASSUME UploadInv, WindowResolve PROVE UploadInv'
  <1> DEFINE head == Head(upWork)
  <1>1. PICK found \in SUBSET head :
          /\ upQueue' = Scheduled([b \in DOMAIN BuildBatches(found) |->
                                     [files |-> BuildBatches(found)[b], state |-> "queued",
                                      step |-> "none", attempt |-> 0]], FALSE)
          /\ upPhase' = IF found = {} THEN "resolving" ELSE "uploading"
          /\ upKnown' = [f \in UploadFiles |-> IF f \in head \ found /\ upKnown[f] = "none"
                                               THEN "missing" ELSE upKnown[f]]
    BY DEF WindowResolve
  <1>2. /\ upPhase = "resolving" /\ ~upStopped /\ upWork' = Tail(upWork) /\ upWork # <<>>
        /\ UNCHANGED <<upRound, upStopped, upCounts, upStored>>
    BY DEF WindowResolve
  <1>3. /\ upWork \in Seq(SUBSET UploadFiles) /\ IsFiniteSet(UploadFiles)
        /\ upKnown \in [UploadFiles -> {"none", "missing"} \cup Stored \cup Failed]
        /\ "none" \notin Stored \cup Failed /\ MaxAttempts \in Nat
    BY UploadTypes DEF UploadInv
  <1>4. /\ head \subseteq UploadFiles /\ upWork' \in Seq(SUBSET UploadFiles)
        /\ 1 \in DOMAIN upWork /\ upWork[1] = head
        /\ \A k \in DOMAIN upWork' : k + 1 \in DOMAIN upWork /\ upWork'[k] = upWork[k + 1] /\ k + 1 # 1
        /\ \A k \in DOMAIN upWork : k # 1 => k - 1 \in DOMAIN upWork' /\ upWork'[k - 1] = upWork[k]
    BY <1>2, <1>3
  <1> HIDE DEF head
  <1>5. /\ \A b \in DOMAIN BuildBatches(found) : BuildBatches(found)[b] \subseteq found
        /\ \A f \in found : \E b \in DOMAIN BuildBatches(found) : f \in BuildBatches(found)[b]
        /\ \A a, b \in DOMAIN BuildBatches(found) :
             a # b => BuildBatches(found)[a] \cap BuildBatches(found)[b] = {}
        /\ found = {} => DOMAIN BuildBatches(found) = {}
    <2>1. IsFiniteSet(found)
      BY <1>3, <1>4, FS_Subset
    <2> QED BY <2>1, BatchesPartition
  <1> DEFINE queue == [b \in DOMAIN BuildBatches(found) |->
                         [files |-> BuildBatches(found)[b], state |-> "queued",
                          step |-> "none", attempt |-> 0]]
  <1>6. \A b \in DOMAIN queue : /\ queue[b] \in Batches /\ queue[b].files = BuildBatches(found)[b]
                                /\ queue[b].state = "queued" /\ queue[b].step = "none"
    BY <1>3, <1>4, <1>5 DEF Batches, BatchStates
  <1>7. DOMAIN queue = DOMAIN BuildBatches(found) /\ upQueue' = Scheduled(queue, FALSE)
    BY <1>1
  <1> HIDE DEF queue
  <1>8. /\ DOMAIN upQueue' = DOMAIN BuildBatches(found)
        /\ \A b \in DOMAIN upQueue' : /\ upQueue'[b] \in Batches
                                      /\ upQueue'[b].files = BuildBatches(found)[b]
                                      /\ upQueue'[b].state \in Live
                                      /\ upQueue'[b].step \notin {"sending", "backoff"}
    <2>1. \A b \in DOMAIN queue : queue[b] \in Batches
      BY <1>6
    <2>2. /\ DOMAIN Scheduled(queue, FALSE) = DOMAIN queue
          /\ \A b \in DOMAIN queue :
               /\ Scheduled(queue, FALSE)[b] \in Batches
               /\ Scheduled(queue, FALSE)[b].files = queue[b].files
               /\ queue[b].state \in Live => Scheduled(queue, FALSE)[b].state \in Live
               /\ Scheduled(queue, FALSE)[b].step \in {"sending", "backoff"} =>
                    Scheduled(queue, FALSE)[b].step = queue[b].step
      BY <2>1, ScheduledMeans
    <2>3. "queued" \in Live
      BY DEF Live
    <2> QED BY <1>6, <1>7, <2>2, <2>3
  <1>9. ToSend' = found
    BY <1>5, <1>8 DEF ToSend
  <1>10. ToSend = {}
    BY <1>2 DEF UploadInv, Paced, ToSend
  <1>11. ToResolve' \subseteq ToResolve /\ ToResolve \subseteq ToResolve' \cup head
    BY <1>4 DEF ToResolve
  <1>12. \A f \in UploadFiles : upKnown'[f] = IF f \in head \ found /\ upKnown[f] = "none"
                                              THEN "missing" ELSE upKnown[f]
    BY <1>1
  <1>13. {f \in UploadFiles : upKnown'[f] \in Stored} = {f \in UploadFiles : upKnown[f] \in Stored}
    BY <1>3, <1>12 DEF Stored
  <1>14. ConfirmedIsStored'
    BY <1>1, <1>2, <1>12, <1>13 DEF UploadInv, ConfirmedIsStored, Stored
  <1>15. UploadTypeOK'
    BY <1>1, <1>2, <1>3, <1>4, <1>8 DEF UploadInv, UploadTypeOK, Batches
  <1>16. NoneForgotten'
    <2>1. \A f \in UploadFiles : upKnown'[f] = "none" => f \in ToResolve' \cup ToSend'
      BY <1>2, <1>9, <1>10, <1>11, <1>12 DEF UploadInv, NoneForgotten
    <2>2. upPhase' \notin {"waiting", "done"}
      BY <1>1
    <2> QED BY <1>2, <1>12, <2>1, <2>2 DEF UploadInv, NoneForgotten
  <1>17. Paced'
    BY <1>1, <1>5, <1>8 DEF Paced
  <1>18. FirstPass'
    <2> SUFFICES ASSUME upRound = 0 PROVE FirstPass'
      BY <1>2 DEF FirstPass
    <2>1. \A j \in DOMAIN upWork' : upWork'[j] \cap found = {} /\ upWork'[j] \cap head = {}
      BY <1>4 DEF UploadInv, FirstPass
    <2>2. \A j, k \in DOMAIN upWork' : j # k => upWork'[j] \cap upWork'[k] = {}
      <3> SUFFICES ASSUME NEW j \in DOMAIN upWork', NEW k \in DOMAIN upWork', j # k
                   PROVE  upWork'[j] \cap upWork'[k] = {}
        OBVIOUS
      <3>1. j + 1 # k + 1
        BY <1>4
      <3> QED BY <1>4, <3>1 DEF UploadInv, FirstPass
    <2>3. \A i, j \in DOMAIN upQueue' : i # j => upQueue'[i].files \cap upQueue'[j].files = {}
      BY <1>5, <1>8
    <2>4. \A f \in ToResolve' \cup ToSend' : upKnown'[f] = "none"
      <3> SUFFICES ASSUME NEW f \in ToResolve' \cup ToSend' PROVE upKnown'[f] = "none"
        OBVIOUS
      <3>1. f \in ToResolve /\ f \in UploadFiles
        BY <1>3, <1>4, <1>9, <1>11 DEF ToResolve
      <3>2. f \notin head \ found
        BY <1>9, <2>1 DEF ToResolve
      <3> QED BY <1>12, <3>1, <3>2 DEF UploadInv, FirstPass
    <2> QED BY <1>2, <1>9, <2>1, <2>2, <2>3, <2>4 DEF FirstPass
  <1> QED BY <1>14, <1>15, <1>16, <1>17, <1>18 DEF UploadInv

\* The steps between the windows.
LEMMA BetweenWindowsInv ==
  ASSUME UploadInv, WindowFails \/ WindowDone \/ PassDone \/ RetryDelayOver \/ TransferAborted
  PROVE  UploadInv'
  <1>1. UNCHANGED <<upStopped, upKnown, upCounts, upStored>>
    BY DEF WindowFails, WindowDone, PassDone, RetryDelayOver, TransferAborted
  <1>2. CASE WindowFails \/ TransferAborted
    <2>1. upPhase' = "aborted" /\ UNCHANGED <<upWork, upRound, upQueue>>
      BY <1>2 DEF WindowFails, TransferAborted
    <2> QED BY <1>1, <2>1 DEF UploadInv, UploadTypeOK, FirstPass, NoneForgotten, Paced,
                              ConfirmedIsStored, ToResolve, ToSend
  <1>3. CASE WindowDone
    <2>1. /\ upPhase' \in {"aborted", "resolving"} /\ DOMAIN upQueue' = {}
          /\ UNCHANGED <<upWork, upRound>>
      BY <1>3 DEF WindowDone
    <2>2. ToSend = {} /\ ToSend' = {} /\ ToResolve' = ToResolve
      BY <1>3, <2>1 DEF WindowDone, QueueFinished, ToSend, ToResolve, Live
    <2>3. FirstPass' /\ NoneForgotten'
      BY <1>1, <2>1, <2>2 DEF UploadInv, FirstPass, NoneForgotten
    <2>4. UploadTypeOK' /\ Paced' /\ ConfirmedIsStored'
      BY <1>1, <2>1 DEF UploadInv, UploadTypeOK, Paced, ConfirmedIsStored
    <2> QED BY <2>3, <2>4 DEF UploadInv
  <1>4. CASE PassDone
    <2>1. /\ upPhase = "resolving" /\ DOMAIN upWork = {} /\ ~upStopped
          /\ upPhase' \in {"waiting", "done"} /\ (upPhase' = "waiting" => upRound < FileRetries)
          /\ UNCHANGED <<upWork, upRound, upQueue>>
      BY <1>4 DEF PassDone
    <2>2. \A f \in UploadFiles : upKnown[f] # "none"
      BY <2>1 DEF UploadInv, NoneForgotten, Paced, ToResolve, ToSend
    <2>3. FirstPass' /\ NoneForgotten' /\ Paced' /\ ConfirmedIsStored'
      BY <1>1, <2>1, <2>2 DEF UploadInv, FirstPass, NoneForgotten, Paced, ConfirmedIsStored, ToResolve, ToSend
    <2>4. UploadTypeOK'
      BY <1>1, <2>1 DEF UploadInv, UploadTypeOK
    <2> QED BY <2>3, <2>4 DEF UploadInv
  <1>5. CASE RetryDelayOver
    <2>1. /\ upPhase = "waiting" /\ upPhase' = "resolving" /\ upRound' = upRound + 1
          /\ upWork' = <<RetryableFiles>> /\ UNCHANGED upQueue
      BY <1>5 DEF RetryDelayOver
    <2>2. upRound \in 0 .. FileRetries /\ upRound < FileRetries /\ FileRetries \in Nat /\ DOMAIN upQueue = {}
      BY <2>1, UploadTypes DEF UploadInv, Paced
    <2>3. \A f \in UploadFiles : upKnown[f] # "none"
      BY <2>1 DEF UploadInv, NoneForgotten
    <2>4. upWork' \in Seq(SUBSET UploadFiles)
      BY <2>1 DEF RetryableFiles
    <2>5. upRound' \in 0 .. FileRetries /\ upRound' # 0
      BY <2>1, <2>2
    <2>6. UploadTypeOK' /\ ConfirmedIsStored'
      BY <1>1, <2>1, <2>4, <2>5 DEF UploadInv, UploadTypeOK, ConfirmedIsStored
    <2>7. FirstPass' /\ NoneForgotten' /\ Paced'
      BY <1>1, <2>1, <2>2, <2>3, <2>5 DEF FirstPass, NoneForgotten, Paced
    <2> QED BY <2>6, <2>7 DEF UploadInv
  <1> QED BY <1>2, <1>3, <1>4, <1>5

LEMMA UploadCancelInv == ASSUME UploadInv, UploadCancel PROVE UploadInv'
  <1>1. /\ upStopped' /\ upStopped' \in BOOLEAN /\ upQueue' = Scheduled(upQueue, TRUE)
        /\ UNCHANGED <<upPhase, upWork, upRound, upKnown, upCounts, upStored>>
    BY DEF UploadCancel, Scheduled
  <1>2. \A i \in DOMAIN upQueue : upQueue[i] \in Batches
    BY UploadTypes DEF UploadInv
  <1>3. /\ DOMAIN upQueue' = DOMAIN upQueue
        /\ \A i \in DOMAIN upQueue :
             /\ upQueue'[i] \in Batches /\ upQueue'[i].files = upQueue[i].files
             /\ upQueue'[i].state \in Live => upQueue[i].state \in Live
             /\ upQueue'[i].step \in {"sending", "backoff"} =>
                  upQueue'[i].step = upQueue[i].step /\ upQueue'[i].attempt = upQueue[i].attempt
    BY <1>1, <1>2, ScheduledMeans
  <1>4. ToSend' \subseteq ToSend /\ ToResolve' = ToResolve
    BY <1>1, <1>3 DEF ToSend, ToResolve
  <1>5. UploadTypeOK' /\ ConfirmedIsStored'
    BY <1>1, <1>3 DEF UploadInv, UploadTypeOK, ConfirmedIsStored, Batches
  <1>6. Paced' /\ NoneForgotten'
    BY <1>1, <1>3 DEF UploadInv, Paced, NoneForgotten
  <1>7. FirstPass'
    BY <1>1, <1>3, <1>4 DEF UploadInv, FirstPass
  <1> QED BY <1>5, <1>6, <1>7 DEF UploadInv

LEMMA UploadInitInv == UploadInit => UploadInv
  <1> SUFFICES ASSUME UploadInit PROVE UploadInv
    OBVIOUS
  <1>1. /\ upWork \in Seq(SUBSET UploadFiles) /\ ToResolve = UploadFiles /\ ToSend = {}
        /\ \A j, k \in DOMAIN upWork : j # k => upWork[j] \cap upWork[k] = {}
    BY UploadAssumption DEF UploadInit, UploadFiles, ToResolve, ToSend
  <1>2. /\ \A f \in UploadFiles : upKnown[f] = "none"
        /\ {f \in UploadFiles : upKnown[f] \in Stored} = {}
    BY DEF UploadInit, Stored
  <1>3. UploadTypeOK
    <2>1. upPhase \in {"resolving", "uploading", "waiting", "done", "aborted"} /\ upStopped \in BOOLEAN
          /\ upStored \subseteq UploadFiles
      BY DEF UploadInit
    <2>5. DOMAIN upQueue = {}
      BY DEF UploadInit
    <2>2. upKnown \in [UploadFiles -> {"none", "missing"} \cup Stored \cup Failed]
      BY DEF UploadInit
    <2>3. upCounts \in [received : Nat, already : Nat, error : Nat, rejected : Nat]
      BY DEF UploadInit
    <2>4. upRound \in 0 .. FileRetries
      BY UploadAssumption DEF UploadInit
    <2> QED BY <1>1, <2>1, <2>2, <2>3, <2>4, <2>5 DEF UploadTypeOK
  <1>4. ConfirmedIsStored
    <2>1. Cardinality({f \in UploadFiles : upKnown[f] \in Stored}) = 0
      BY <1>2, FS_EmptySet
    <2>2. upCounts.received + upCounts.already = 0 /\ upPhase = "resolving"
      BY DEF UploadInit
    <2>3. \A f \in UploadFiles : upKnown[f] \notin Stored
      BY <1>2 DEF Stored
    <2> QED BY <2>1, <2>2, <2>3 DEF ConfirmedIsStored
  <1> QED BY <1>1, <1>2, <1>3, <1>4 DEF UploadInit, UploadInv, FirstPass, NoneForgotten, Paced

LEMMA UploadStepInv == UploadInv /\ [UploadNext]_uploadVars => UploadInv'
  <1> SUFFICES ASSUME UploadInv, [UploadNext]_uploadVars PROVE UploadInv'
    OBVIOUS
  <1>1. CASE UNCHANGED uploadVars
    BY <1>1 DEF uploadVars, UploadInv, UploadTypeOK, FirstPass, NoneForgotten, Paced,
                ConfirmedIsStored, ToResolve, ToSend
  <1> QED BY <1>1, AttemptWaitsInv, AttemptFailsInv, AttemptAbortedInv, AttemptAnsweredInv,
             WindowResolveInv, BetweenWindowsInv, UploadCancelInv
          DEF UploadNext, UploadProgress

SendsNothingNew ==
  upStopped => \A i \in DOMAIN upQueue' :
    upQueue'[i].step = "sending" => i \in DOMAIN upQueue /\ upQueue[i].step = "sending"

LEMMA UploadQuiet == UploadInv /\ [UploadNext]_uploadVars => SendsNothingNew
  <1> SUFFICES ASSUME UploadInv, [UploadNext]_uploadVars, upStopped PROVE SendsNothingNew
    BY DEF SendsNothingNew
  <1>1. CASE UNCHANGED upQueue
    BY <1>1 DEF SendsNothingNew
  <1>2. CASE WindowDone
    BY <1>2 DEF WindowDone, SendsNothingNew
  <1>3. ASSUME NEW i \in DOMAIN upQueue, NEW s \in BatchStates \ Live, upQueue' = Settled(upQueue, i, s)
        PROVE  SendsNothingNew
    BY <1>3, SettledMeans DEF UploadInv, SendsNothingNew
  <1>4. {"completed", "failed", "cancelled-active"} \subseteq BatchStates \ Live
    BY DEF BatchStates, Live
  <1>5. ASSUME NEW i \in DOMAIN upQueue, AttemptAnswered(i) \/ AttemptFails(i) \/ AttemptAborted(i)
        PROVE  SendsNothingNew
    BY <1>3, <1>4, <1>5 DEF AttemptAnswered, AttemptFails, AttemptAborted
  <1> QED BY <1>1, <1>2, <1>5 DEF UploadNext, UploadProgress, uploadVars, AttemptSend, AttemptAgain,
               WindowResolve, WindowFails, PassDone, RetryDelayOver, TransferAborted, UploadCancel

\* The number of confirmed files is the number of files recorded as stored, each of
\* them is on the backend, and a transfer that returns has decided every file
\* (analysisUploadResults.ts, targetedAnalysisTransfer.ts).
THEOREM ConfirmedFilesAreStored == UploadSpec => []ConfirmedIsStored
  <1>1. UploadInv => ConfirmedIsStored
    BY DEF UploadInv
  <1> QED BY <1>1, UploadInitInv, UploadStepInv, PTL DEF UploadSpec

\* After a stop nothing more is read from the drive for a request
\* (cancellableUploadQueue.ts, uploadBatch.ts).
THEOREM NothingMoreIsSent == UploadSpec => NothingSentAfterStop
  <1>1. SendsNothingNew => [upStopped => \A i \in DOMAIN upQueue' :
            upQueue'[i].step = "sending" => i \in DOMAIN upQueue /\ upQueue[i].step = "sending"]_uploadVars
    BY DEF SendsNothingNew
  <1> QED BY <1>1, UploadInitInv, UploadStepInv, UploadQuiet, PTL DEF UploadSpec, NothingSentAfterStop

-----------------------------------------------------------------------------
(* The desktop process and its window.                                     *)

DesktopInv ==
  /\ UsbInv /\ IdInv /\ DriveTyped /\ NeverOverwrites
  /\ StemInv /\ BridgeInv /\ PagesInv /\ WavesInv /\ UploadInv

LEMMA DesktopInitInv == DesktopInit => DesktopInv
  BY UsbInitInv, IdInitInv, TransferInitInv, StemInitInv, BridgeInitInv, PagesInitInv, WavesInitInv,
     UploadInitInv
     DEF DesktopInit, ViewInit, DesktopInv

\* What the window does is no step of the main process, except to start it, to call
\* it and to take its answers.
LEMMA ViewIsUsb == ViewNext \/ UNCHANGED usbViewVars => [UsbNext]_usbVars
  <1>1. ViewWorks => UsbNext
    BY DEF ViewWorks, UsbNext
  <1>2. ViewAnswered => UsbNext
    BY DEF ViewAnswered, UsbNext
  <1>3. ViewRestart => UsbNext
    BY DEF ViewRestart, UsbNext
  <1>4. PollCached \/ PollStat \/ PollReaddir \/ PollEnds \/ UNCHANGED usbViewVars => UNCHANGED usbVars
    BY DEF PollCached, PollStat, PollReaddir, PollEnds, usbViewVars
  <1> QED BY <1>1, <1>2, <1>3, <1>4 DEF ViewNext

\* Every step of the application is, for each component, a step of its own or none.
LEMMA DesktopStepsAreSteps ==
  [DesktopNext]_desktopVars =>
    /\ [UsbNext]_usbVars /\ [TransferNext]_transferVars /\ [StemNext]_stemVars /\ [BridgeNext]_bridgeVars
    /\ [IdNext]_idVars /\ [PagesNext]_pageVars /\ [WavesNext]_waveVars /\ [UploadNext]_uploadVars
  <1> SUFFICES ASSUME [DesktopNext]_desktopVars
               PROVE  /\ ViewNext \/ UNCHANGED usbViewVars
                      /\ [TransferNext]_transferVars /\ [StemNext]_stemVars /\ [BridgeNext]_bridgeVars
                      /\ [IdNext]_idVars /\ [PagesNext]_pageVars /\ [WavesNext]_waveVars /\ [UploadNext]_uploadVars
    BY ViewIsUsb
  <1>1. CASE UNCHANGED desktopVars
    BY <1>1 DEF desktopVars
  <1>2. CASE Plays("usb") /\ ViewNext
    BY <1>2 DEF Plays
  <1>3. CASE Plays("transfer") /\ TransferNext
    BY <1>3 DEF Plays
  <1>4. CASE Plays("stems") /\ StemNext
    BY <1>4 DEF Plays
  <1>5. CASE Plays("bridge") /\ BridgeNext
    BY <1>5 DEF Plays
  <1>6. CASE Plays("identity") /\ IdNext
    BY <1>6 DEF Plays
  <1>7. CASE Plays("upload") /\ UploadNext
    BY <1>7 DEF Plays
  <1>8. CASE Plays("pages") /\ PagesNext
    BY <1>8 DEF Plays
  <1>9. CASE Plays("waves") /\ WavesNext
    BY <1>9 DEF Plays
  <1> QED BY <1>1, <1>2, <1>3, <1>4, <1>5, <1>6, <1>7, <1>8, <1>9 DEF DesktopNext

LEMMA DesktopStepInv == DesktopInv /\ [DesktopNext]_desktopVars => DesktopInv'
  BY DesktopStepsAreSteps, UsbStepInv, IdStepInv, TransferStepInv, StemStepInv, BridgeStepInv,
     PagesStepInv, WavesStepInv, UploadStepInv
     DEF DesktopInv

LEMMA DesktopKeepsInv == DesktopSpec => []DesktopInv
  BY DesktopInitInv, DesktopStepInv, PTL DEF DesktopSpec

\* A transfer overwrites no file of the destination, whatever appears on it while it
\* runs (usbTransfer.cjs), and every start that returns an identifier returns the one
\* on disk (installationIdentity.cjs).
THEOREM DesktopCreatesOnce == DesktopSpec => []CreatedOnce
  <1>1. DesktopInv => CreatedOnce
    BY DEF DesktopInv, IdInv, CreatedOnce
  <1> QED BY <1>1, DesktopKeepsInv, PTL

\* Separations run one at a time, and what waits is what the queue holds, through
\* cancellations, timeouts and clears (stemSeparationBridge.cjs).
THEOREM SeparationsRunAlone == DesktopSpec => []OneSeparation
  <1>1. DesktopInv => OneSeparation
    BY StemOneSeparation DEF DesktopInv
  <1> QED BY <1>1, DesktopKeepsInv, PTL

\* A success is the bridge's answer to that request (cueApplyBridge.cjs); the rows
\* that are shown are those of the list that is shown (useRekordboxTracks.ts); a
\* waveform is the latest answer for its import (useTrackPreviewWaveforms.ts); and
\* what is shown as loading has a request under way that will end it.
THEOREM DesktopShowsItsOwn == DesktopSpec => []ShownIsOwn
  <1>1. DesktopInv => ShownIsOwn
    BY WavesCurrent DEF DesktopInv, BridgeInv, PagesInv, WavesInv, ShownIsOwn
  <1> QED BY <1>1, DesktopKeepsInv, PTL

\* With its window and everything beside it running, the main process still reads
\* nothing from a drive it has released, and serves what it admitted from the drive
\* it was admitted for (usbStreamRegistry.cjs).
THEOREM DesktopReleasesDrive == DesktopSpec => [](ReleasedIsQuiet /\ AdmittedKeepsRoot)
  <1>1. DesktopInv => ReleasedIsQuiet /\ AdmittedKeepsRoot
    BY DEF DesktopInv, UsbInv
  <1> QED BY <1>1, DesktopKeepsInv, PTL

\* The upload keeps its count and its silence beside everything else.
THEOREM DesktopUploadsHonestly == DesktopSpec => []ConfirmedIsStored /\ NothingSentAfterStop
  <1>1. DesktopInv => ConfirmedIsStored
    BY DEF DesktopInv, UploadInv
  <1>2. DesktopInv /\ [DesktopNext]_desktopVars => SendsNothingNew
    BY DesktopStepsAreSteps, UploadQuiet DEF DesktopInv
  <1>3. SendsNothingNew => [upStopped => \A i \in DOMAIN upQueue' :
            upQueue'[i].step = "sending" => i \in DOMAIN upQueue /\ upQueue[i].step = "sending"]_uploadVars
    BY DEF SendsNothingNew
  <1>4. DesktopSpec => [][DesktopNext]_desktopVars
    BY PTL DEF DesktopSpec
  <1> QED BY <1>1, <1>2, <1>3, <1>4, DesktopKeepsInv, PTL DEF NothingSentAfterStop

-----------------------------------------------------------------------------
(* The types that the invariants above leave open.                         *)

LEMMA ViewTypes == ViewTypeOK /\ (ViewNext \/ UNCHANGED usbViewVars) => ViewTypeOK'
  <1> SUFFICES ASSUME ViewTypeOK, ViewNext \/ UNCHANGED usbViewVars PROVE ViewTypeOK'
    OBVIOUS
  <1> USE DEF ViewTypeOK
  <1>1. CASE ViewWorks
    BY <1>1 DEF ViewWorks
  <1>2. CASE ViewAnswered
    <2>1. PICK c \in Calls :
            usbShown' \in CASE usbCall[c].answer = "away" -> {"away"}
                            [] usbCall[c].answer = "error" -> {"error", "away"}
                            [] OTHER -> {"connected", "unavailable"}
      BY <1>2 DEF ViewAnswered
    <2>2. usbShown' \in {"connected", "unavailable", "away", "error"}
      BY <2>1
    <2> QED BY <1>2, <2>2 DEF ViewAnswered
  <1>3. CASE ViewRestart
    BY <1>3 DEF ViewRestart
  <1>4. CASE PollCached \/ PollStat \/ PollReaddir \/ PollEnds
    BY <1>4 DEF PollCached, PollStat, PollReaddir, PollEnds
  <1>5. CASE UNCHANGED usbViewVars
    BY <1>5 DEF usbViewVars
  <1> QED BY <1>1, <1>2, <1>3, <1>4, <1>5 DEF ViewNext

\* The folders that are chosen have their files among those of the drive.
LEMMA FolderFiles == \A d \in Folders : FilesOf[d] \subseteq TrFiles
  BY DEF TrFiles

LEMMA TransferTypes == TransferTypeOK /\ [TransferNext]_transferVars => TransferTypeOK'
  <1> SUFFICES ASSUME TransferTypeOK, [TransferNext]_transferVars PROVE TransferTypeOK'
    OBVIOUS
  <1>1. /\ trRun \in [Transfers -> RunSet] /\ trActive \subseteq Transfers /\ trHasDest \in BOOLEAN
        /\ trDrive \in [TrFiles -> {"absent", "theirs", "ours"}] /\ trGuest \subseteq TrFiles
    BY DEF TransferTypeOK
  <1>2. ASSUME NEW t \in Transfers, NEW run \in RunSet, trRun' = [trRun EXCEPT ![t] = run],
               trActive' \in {trActive, {}, {t}}, UNCHANGED <<trHasDest, trDrive, trGuest>>
        PROVE  TransferTypeOK'
    BY <1>1, <1>2 DEF TransferTypeOK
  <1>3. ASSUME NEW t \in Transfers, TransferBegin(t) PROVE TransferTypeOK'
    <2> DEFINE run == [trRun[t] EXCEPT !.phase = "scanning"]
    <2>1. run \in RunSet
      BY <1>1 DEF RunSet
    <2>2. trRun' = [trRun EXCEPT ![t] = run] /\ trActive' = trActive /\ UNCHANGED <<trHasDest, trDrive, trGuest>>
      BY <1>3 DEF TransferBegin
    <2> HIDE DEF run
    <2> QED BY <1>2, <2>1, <2>2
  <1>4. ASSUME NEW t \in Transfers, TransferCopies(t) PROVE TransferTypeOK'
    <2> DEFINE run == [trRun[t] EXCEPT !.phase = "opening"]
    <2>1. run \in RunSet
      BY <1>1 DEF RunSet
    <2>2. trRun' = [trRun EXCEPT ![t] = run] /\ trActive' = {t} /\ UNCHANGED <<trHasDest, trDrive, trGuest>>
      BY <1>4 DEF TransferCopies
    <2> HIDE DEF run
    <2> QED BY <1>2, <2>1, <2>2
  <1>5. ASSUME NEW t \in Transfers, TransferRefused(t) PROVE TransferTypeOK'
    <2>1. NewRun \in RunSet
      BY DEF NewRun, RunSet
    <2> QED BY <1>2, <1>5, <2>1 DEF TransferRefused
  <1>6. ASSUME NEW t \in Transfers, ListFolder(t) PROVE TransferTypeOK'
    <2>0. PICK d \in trRun[t].folders : \E seen \in {FilesOf[d], {}} :
            trRun' = [trRun EXCEPT ![t].folders = @ \ {d}, ![t].todo = seen, ![t].listed = @ \cup seen]
      BY <1>6 DEF ListFolder
    <2>1. PICK seen \in {FilesOf[d], {}} :
            trRun' = [trRun EXCEPT ![t].folders = @ \ {d}, ![t].todo = seen, ![t].listed = @ \cup seen]
      BY <2>0
    <2> DEFINE run == [trRun[t] EXCEPT !.folders = @ \ {d}, !.todo = seen, !.listed = @ \cup seen]
    <2>2. trRun[t] \in RunSet
      BY <1>1
    <2>3. d \in Folders
      BY <2>2 DEF RunSet
    <2>4. seen \subseteq TrFiles
      BY <2>3, FolderFiles
    <2>5. run \in RunSet
      BY <2>2, <2>4 DEF RunSet
    <2>6. trRun' = [trRun EXCEPT ![t] = run]
      BY <1>1, <2>1
    <2>7. trActive' = trActive /\ UNCHANGED <<trHasDest, trDrive, trGuest>>
      BY <1>6 DEF ListFolder
    <2> HIDE DEF run
    <2> QED BY <1>2, <2>5, <2>6, <2>7
  <1>7. ASSUME NEW t \in Transfers, CopyFile(t) PROVE TransferTypeOK'
    <2>1. PICK f \in trRun[t].todo :
            /\ PutFile(f)
            /\ trRun' = [trRun EXCEPT ![t].todo = @ \ {f},
                           ![t].copied = IF trDrive[f] = "absent" THEN @ \cup {f} ELSE @]
      BY <1>7 DEF CopyFile
    <2> DEFINE run == [trRun[t] EXCEPT !.todo = @ \ {f},
                                       !.copied = IF trDrive[f] = "absent" THEN @ \cup {f} ELSE @]
    <2>2. trRun[t] \in RunSet
      BY <1>1
    <2>3. f \in TrFiles
      BY <2>2 DEF RunSet
    <2>4. run \in RunSet
      BY <2>2, <2>3 DEF RunSet
    <2>5. trRun' = [trRun EXCEPT ![t] = run]
      BY <1>1, <2>1
    <2>6. trActive' = trActive /\ UNCHANGED <<trHasDest, trGuest>>
      BY <1>7 DEF CopyFile
    <2>7. trDrive' \in [TrFiles -> {"absent", "theirs", "ours"}]
      BY <1>1, <2>1, <2>3 DEF PutFile
    <2> HIDE DEF run
    <2> QED BY <1>1, <2>4, <2>5, <2>6, <2>7 DEF TransferTypeOK
  <1>8. ASSUME NEW t \in Transfers, NEW fatal \in BOOLEAN, FileFails(t, fatal) PROVE TransferTypeOK'
    <2>1. PICK f \in trRun[t].todo :
            trRun' = [trRun EXCEPT ![t].todo = @ \ {f}, ![t].failed = @ \cup {f},
                                   ![t].status = IF fatal THEN "failed" ELSE @]
      BY <1>8 DEF FileFails
    <2> DEFINE run == [trRun[t] EXCEPT !.todo = @ \ {f}, !.failed = @ \cup {f},
                                       !.status = IF fatal THEN "failed" ELSE @]
    <2>2. trRun[t] \in RunSet
      BY <1>1
    <2>3. f \in TrFiles
      BY <2>2 DEF RunSet
    <2>4. run \in RunSet
      BY <2>2, <2>3 DEF RunSet
    <2>5. trRun' = [trRun EXCEPT ![t] = run]
      BY <1>1, <2>1
    <2>6. trActive' = trActive /\ UNCHANGED <<trHasDest, trDrive, trGuest>>
      BY <1>8 DEF FileFails
    <2> HIDE DEF run
    <2> QED BY <1>2, <2>4, <2>5, <2>6
  <1>9. CASE CancelTransfer
    <2>1. PICK t \in trActive : trRun' = [trRun EXCEPT ![t].cancelled = TRUE]
      BY <1>9 DEF CancelTransfer
    <2> DEFINE run == [trRun[t] EXCEPT !.cancelled = TRUE]
    <2>2. t \in Transfers /\ run \in RunSet
      BY <1>1 DEF RunSet
    <2>3. trRun' = [trRun EXCEPT ![t] = run] /\ trActive' = trActive /\ UNCHANGED <<trHasDest, trDrive, trGuest>>
      BY <1>9, <2>1 DEF CancelTransfer
    <2> HIDE DEF run
    <2> QED BY <1>2, <2>2, <2>3
  <1>10. ASSUME NEW t \in Transfers, TransferEnds(t) PROVE TransferTypeOK'
    <2> DEFINE status == FinalStatus(trRun[t])
               run == [trRun[t] EXCEPT !.phase = "done", !.status = status]
    <2>1. status \in {"completed", "partial", "failed", "cancelled"}
      BY DEF FinalStatus
    <2>2. trRun' = [trRun EXCEPT ![t] = run] /\ trActive' = {} /\ UNCHANGED <<trHasDest, trDrive, trGuest>>
      BY <1>1, <1>10 DEF TransferEnds
    <2> HIDE DEF status
    <2>3. run \in RunSet
      BY <1>1, <2>1 DEF RunSet
    <2> HIDE DEF run
    <2> QED BY <1>2, <2>2, <2>3
  <1>11. ASSUME NEW t \in Transfers, SourceOpened(t) PROVE TransferTypeOK'
    <2>1. ASSUME NEW chosen \in SUBSET Folders, UNCHANGED <<trActive, trHasDest, trDrive, trGuest>>,
                 trRun' = [trRun EXCEPT ![t].phase = "copying", ![t].folders = chosen]
          PROVE  TransferTypeOK'
      <3> DEFINE run == [trRun[t] EXCEPT !.phase = "copying", !.folders = chosen]
      <3>1. run \in RunSet
        BY <1>1 DEF RunSet
      <3>2. trRun' = [trRun EXCEPT ![t] = run]
        BY <1>1, <2>1
      <3> HIDE DEF run
      <3> QED BY <1>2, <2>1, <3>1, <3>2
    <2>2. ASSUME trRun' = [trRun EXCEPT ![t].phase = "done", ![t].status = "failed"],
                 trActive' = {}, UNCHANGED <<trHasDest, trDrive, trGuest>>
          PROVE  TransferTypeOK'
      <3> DEFINE run == [trRun[t] EXCEPT !.phase = "done", !.status = "failed"]
      <3>1. run \in RunSet
        BY <1>1 DEF RunSet
      <3>2. trRun' = [trRun EXCEPT ![t] = run]
        BY <1>1, <2>2
      <3> HIDE DEF run
      <3> QED BY <1>2, <2>2, <3>1, <3>2
    <2> QED BY <1>11, <2>1, <2>2 DEF SourceOpened
  <1>12. CASE ChooseDestination \/ ClearDestination \/ UNCHANGED transferVars
    BY <1>1, <1>12 DEF TransferTypeOK, ChooseDestination, ClearDestination, transferVars
  <1> QED BY <1>3, <1>4, <1>5, <1>6, <1>7, <1>8, <1>9, <1>10, <1>11, <1>12 DEF TransferNext

StemValues ==
  /\ stemProcs \in [StemJobs -> Nat] /\ stemRuns \in [StemJobs -> Nat]
  /\ stemCache \in [StemJobs -> {"absent", "backup", "moved", "whole"}]
  /\ stemAnswers \in [StemJobs -> {"none", "ok", "cancelled", "failed"}]
  /\ stemClearing \in BOOLEAN /\ stemHealth \in {"unknown", "available", "unavailable"}

LEMMA StemTypes == StemInv /\ StemValues /\ [StemNext]_stemVars => StemValues'
  <1> SUFFICES ASSUME StemInv, StemValues, [StemNext]_stemVars PROVE StemValues'
    OBVIOUS
  <1> USE DEF StemValues
  <1>1. ASSUME NEW j \in StemJobs, Prepare(j) PROVE StemValues'
    BY <1>1 DEF Prepare
  <1>2. ASSUME NEW j \in StemJobs, LoadCached(j) \/ WorkerTimesOut(j) \/ ValidateOutput(j) PROVE StemValues'
    BY <1>2 DEF LoadCached, WorkerTimesOut, ValidateOutput, StemStep, StemResult
  <1>3. ASSUME NEW j \in StemJobs, SpawnWorker(j) PROVE StemValues'
    BY <1>3 DEF SpawnWorker, StemStep, StemResult
  <1>4. ASSUME NEW j \in StemJobs, WorkerExits(j) \/ LateExit(j) PROVE StemValues'
    <2>1. stemProcs' = [stemProcs EXCEPT ![j] = @ - 1] /\ stemProcs[j] - 1 \in Nat
      BY <1>4 DEF WorkerExits, LateExit
    <2>2. UNCHANGED <<stemRuns, stemCache, stemAnswers, stemClearing, stemHealth>>
      BY <1>4 DEF WorkerExits, LateExit, StemStep, StemResult
    <2> QED BY <2>1, <2>2
  <1>5. ASSUME NEW j \in StemJobs, PublishAside(j) \/ PublishRename(j) \/ RewriteManifest(j) PROVE StemValues'
    <2>1. UNCHANGED <<stemProcs, stemRuns, stemAnswers, stemClearing, stemHealth>>
      BY <1>5 DEF PublishAside, PublishRename, RewriteManifest, StemStep, StemResult
    <2>2. \/ stemCache' = [stemCache EXCEPT ![j] = IF @ \in {"moved", "whole"} THEN "backup" ELSE @]
          \/ stemCache' = [stemCache EXCEPT ![j] = "moved"]
          \/ stemCache' = [stemCache EXCEPT ![j] = IF @ = "backup" THEN "whole" ELSE @]
          \/ stemCache' = [stemCache EXCEPT ![j] = "whole"]
          \/ stemCache' = stemCache
      BY <1>5 DEF PublishAside, PublishRename, RewriteManifest
    <2> QED BY <2>1, <2>2
  <1>6. ASSUME NEW j \in StemJobs, Settle(j) PROVE StemValues'
    <2>1. stemJob[j].result \in {"none", "ok", "cancelled", "failed"}
      BY DEF StemInv
    <2> QED BY <1>6, <2>1 DEF Settle
  <1>7. ASSUME NEW js \in SUBSET StemJobs, CancelAll(js) PROVE
          stemAnswers' \in [StemJobs -> {"none", "ok", "cancelled", "failed"}]
    BY <1>7 DEF CancelAll
  <1>8. ASSUME NEW j \in StemJobs, CancelJob(j) PROVE StemValues'
    BY <1>7, <1>8 DEF CancelJob
  <1>9. CASE ClearBegin
    BY <1>7, <1>9 DEF ClearBegin
  <1>10. CASE ClearEnd
    BY <1>10 DEF ClearEnd
  <1>11. ASSUME NEW refresh \in BOOLEAN, CheckHealth(refresh) PROVE StemValues'
    BY <1>11 DEF CheckHealth
  <1>12. CASE UNCHANGED stemVars
    BY <1>12 DEF stemVars
  <1> QED BY <1>1, <1>2, <1>3, <1>4, <1>5, <1>6, <1>8, <1>9, <1>10, <1>11, <1>12 DEF StemNext, StemJobStep

LEMMA BridgeTypes == BridgeTypeOK /\ [BridgeNext]_bridgeVars => BridgeTypeOK'
  <1> SUFFICES ASSUME BridgeTypeOK, [BridgeNext]_bridgeVars PROVE BridgeTypeOK'
    OBVIOUS
  <1> USE DEF BridgeTypeOK
  <1>1. ASSUME NEW r \in BridgeRequests, RequestSent(r) PROVE BridgeTypeOK'
    <2>1. brChild' \in BridgeProcs \cup {NoProc} /\ brProc' \in [BridgeProcs -> {"unborn", "running", "broken", "dead", "reaped"}]
      BY <1>1 DEF RequestSent
    <2> QED BY <1>1, <2>1 DEF RequestSent
  <1>2. ASSUME NEW r \in BridgeRequests, RequestRefused(r) \/ CarryOut(r) \/ RequestTimesOut(r) PROVE BridgeTypeOK'
    BY <1>2 DEF RequestRefused, CarryOut, RequestTimesOut
  <1>3. ASSUME NEW r \in BridgeRequests, Consume(r) PROVE BridgeTypeOK'
    BY <1>3 DEF Consume, Deliver
  <1>4. FailAll(brReq) \in [BridgeRequests -> {"new", "waiting", "ok", "error"}]
    BY DEF FailAll
  <1>5. ASSUME NEW k \in BridgeProcs, SpawnFails(k) \/ ProcDies(k) \/ ExitEvent(k) PROVE BridgeTypeOK'
    BY <1>4, <1>5 DEF SpawnFails, ProcDies, ExitEvent
  <1>6. CASE CloseBridge
    BY <1>4, <1>6 DEF CloseBridge
  <1>7. CASE UNCHANGED bridgeVars
    BY <1>7 DEF bridgeVars
  <1> QED BY <1>1, <1>2, <1>3, <1>5, <1>6, <1>7 DEF BridgeNext

\* What the database answers to a refresh and to a request for more can overlap, and
\* then there are more rows than the list has: at most a page more, since a list that
\* is that long asks for no more, and one request for more is under way at a time.
PagesBounded ==
  /\ pgHook \in {"library", "playlist"}
  /\ Len(pgRows) <= RowsOf + PageSize
  /\ \A a \in pgAsks : a.count <= RowsOf + PageSize
  /\ \A a \in AsksFor("more") : pgMore /\ Len(pgRows) <= RowsOf /\ a.count = PageSize
  /\ \A a, b \in AsksFor("more") : a = b

LEMMA PagesTypes == PagesInv /\ PagesBounded /\ [PagesNext]_pageVars => PagesBounded'
  <1> SUFFICES ASSUME PagesInv, PagesBounded, [PagesNext]_pageVars PROVE PagesBounded'
    OBVIOUS
  <1>1. /\ RowsOf \in Nat /\ PageSize \in Nat
        /\ pgRows \in Seq(Lists \X (1..RowsOf)) /\ pgRows' \in Seq(Lists \X (1..RowsOf))
        /\ Len(pgRows) \in Nat /\ Len(pgRows') \in Nat /\ pgAsks \subseteq PageAsks
    BY PagesAssumption, PagesStepInv DEF PagesInv, AsksAgree
  <1>2. \A a \in pgAsks : a.count \in Nat /\ a.from \in 0..RowsOf
    BY <1>1 DEF PageAsks
  <1>3. ASSUME NEW l \in Lists \cup {NoList}, ShowList(l) PROVE PagesBounded'
    <2>1. pgRows' = << >> /\ pgHook' = pgHook
      BY <1>3 DEF ShowList
    <2>2. AsksFor("more")' = {}
      <3>1. \A a \in pgAsks' : \/ \E b \in pgAsks : a = [b EXCEPT !.fresh = FALSE]
                               \/ a.kind \in {"due", "first"}
        BY <1>3 DEF ShowList
      <3>2. \A b \in pgAsks : ~[b EXCEPT !.fresh = FALSE].fresh
        BY <1>1 DEF PageAsks
      <3> QED BY <3>1, <3>2 DEF AsksFor
    <2>3. ASSUME NEW a \in pgAsks' PROVE a.count <= RowsOf + PageSize
      <3>1. \/ \E b \in pgAsks : a = [b EXCEPT !.fresh = FALSE]
            \/ a.count = PageSize
        BY <1>3 DEF ShowList
      <3>2. \A b \in pgAsks : [b EXCEPT !.fresh = FALSE].count = b.count
        BY <1>1 DEF PageAsks
      <3>3. CASE a.count = PageSize
        BY <1>1, <3>3
      <3>4. CASE \E b \in pgAsks : a = [b EXCEPT !.fresh = FALSE]
        <4>1. PICK b \in pgAsks : a.count = b.count
          BY <3>2, <3>4
        <4> QED BY <4>1 DEF PagesBounded
      <3> QED BY <3>1, <3>3, <3>4
    <2> QED BY <1>1, <2>1, <2>2, <2>3 DEF PagesBounded
  <1>4. CASE FirstPageDue
    <2>1. PICK a \in pgAsks : a.kind = "due" /\ pgAsks' = (pgAsks \ {a}) \cup {[a EXCEPT !.kind = "first"]}
      BY <1>4 DEF FirstPageDue
    <2>2. UNCHANGED <<pgHook, pgRows, pgMore>>
      BY <1>4 DEF FirstPageDue
    <2>3. [a EXCEPT !.kind = "first"].count = a.count /\ [a EXCEPT !.kind = "first"].kind = "first"
      BY <1>1 DEF PageAsks
    <2>4. AsksFor("more")' \subseteq AsksFor("more")
      BY <2>1, <2>3 DEF AsksFor
    <2>5. \A b \in pgAsks' : b.count <= RowsOf + PageSize
      BY <2>1, <2>3 DEF PagesBounded
    <2> QED BY <2>2, <2>4, <2>5 DEF PagesBounded
  <1>5. CASE ProgressAnnounced
    <2> DEFINE n == IF Len(pgRows) > PageSize THEN Len(pgRows) ELSE PageSize
               ask == Ask("refresh", 0, n)
    <2>1. pgAsks' = pgAsks \cup {ask} /\ UNCHANGED <<pgHook, pgRows, pgMore>>
      BY <1>5 DEF ProgressAnnounced
    <2>2. ask.kind = "refresh" /\ ask.count = n /\ n <= RowsOf + PageSize
      BY <1>1 DEF Ask, PagesBounded
    <2> HIDE DEF ask, n
    <2>3. AsksFor("more")' = AsksFor("more")
      BY <2>1, <2>2 DEF AsksFor
    <2> QED BY <2>1, <2>2, <2>3 DEF PagesBounded
  <1>6. CASE LoadMore
    <2> DEFINE ask == Ask("more", Len(pgRows), PageSize)
    <2>1. /\ ~pgMore /\ Len(pgRows) < pgTotal /\ pgMore' = TRUE /\ pgAsks' = pgAsks \cup {ask}
          /\ UNCHANGED <<pgHook, pgRows>>
      BY <1>6 DEF LoadMore
    <2>2. ask.count = PageSize
      BY DEF Ask
    <2> HIDE DEF ask
    <2>3. AsksFor("more") = {}
      BY <2>1 DEF PagesBounded
    <2>4. AsksFor("more")' \subseteq {ask}
      BY <2>1, <2>3 DEF AsksFor
    <2>5. Len(pgRows) <= RowsOf
      BY <1>1, <2>1 DEF PagesInv
    <2> QED BY <1>1, <2>1, <2>2, <2>4, <2>5 DEF PagesBounded
  <1>7. ASSUME NEW a \in pgAsks, PageAnswers(a) \/ PageFails(a) PROVE PagesBounded'
    <2>1. a.kind # "due" /\ AskSettled(a)
      BY <1>7 DEF PageAnswers, PageFails
    <2>2. pgAsks' = pgAsks \ {a} /\ UNCHANGED pgHook /\ pgMore' = (pgMore /\ ~(a.kind = "more" /\ a.fresh))
      BY <2>1 DEF AskSettled, IsFreshAsk
    <2>3. AsksFor("more")' = AsksFor("more") \ {a}
      BY <2>2 DEF AsksFor
    <2>4. \A b \in AsksFor("more") \ {a} : pgMore' /\ b.count = PageSize
      <3> SUFFICES ASSUME NEW b \in AsksFor("more"), b # a PROVE pgMore' /\ b.count = PageSize
        OBVIOUS
      <3>1. ~(a.kind = "more" /\ a.fresh)
        BY DEF PagesBounded, AsksFor
      <3> QED BY <2>2, <3>1 DEF PagesBounded
    <2>5. Len(pgRows') <= RowsOf \/ (AsksFor("more") \ {a} = {} /\ Len(pgRows') <= RowsOf + PageSize)
          \/ pgRows' = pgRows
      <3>1. CASE PageFails(a)
        BY <1>1, <3>1 DEF PageFails
      <3>2. CASE PageAnswers(a) /\ ~a.fresh
        BY <3>2 DEF PageAnswers, IsFreshAsk
      <3> DEFINE page == Page(a.list, a.from, a.count)
      <3>3. page \in Seq(Lists \X (1..RowsOf)) /\ a.from + Len(page) <= RowsOf /\ Len(page) \in Nat
        BY <1>1, <1>2, PageRows DEF PageAsks
      <3>4. CASE PageAnswers(a) /\ a.fresh /\ a.kind # "more"
        <4>1. pgRows' = << >> \o page
          BY <3>4 DEF PageAnswers, IsFreshAsk
        <4> HIDE DEF page
        <4>2. pgRows' = page
          BY <3>3, <4>1
        <4> QED BY <1>1, <1>2, <3>3, <4>2
      <3>5. CASE PageAnswers(a) /\ a.fresh /\ a.kind = "more"
        <4>1. pgRows' = pgRows \o page
          BY <3>5 DEF PageAnswers, IsFreshAsk
        <4>2. a \in AsksFor("more")
          BY <3>5 DEF AsksFor
        <4>3. AsksFor("more") \ {a} = {} /\ Len(pgRows) <= RowsOf /\ a.count = PageSize
          BY <4>2 DEF PagesBounded
        <4>4. Len(page) <= PageSize
          BY <1>1, <1>2, <4>3 DEF Page
        <4> HIDE DEF page
        <4>5. Len(pgRows') = Len(pgRows) + Len(page)
          BY <1>1, <3>3, <4>1
        <4> QED BY <1>1, <3>3, <4>3, <4>4, <4>5
      <3> QED BY <1>7, <3>1, <3>2, <3>4, <3>5
    <2>6. \A b \in pgAsks' : b.count <= RowsOf + PageSize
      BY <2>2 DEF PagesBounded
    <2>7. \A b, c \in AsksFor("more") \ {a} : b = c
      BY DEF PagesBounded
    <2>8. pgHook' \in {"library", "playlist"}
      BY <2>2 DEF PagesBounded
    <2>9. /\ Len(pgRows') <= RowsOf + PageSize
          /\ \A b \in AsksFor("more") \ {a} : Len(pgRows') <= RowsOf
      BY <1>1, <2>5 DEF PagesBounded
    <2> QED BY <2>3, <2>4, <2>6, <2>7, <2>8, <2>9 DEF PagesBounded
  <1>8. CASE UNCHANGED pageVars
    BY <1>8 DEF pageVars, PagesBounded, AsksFor
  <1> QED BY <1>3, <1>4, <1>5, <1>6, <1>7, <1>8 DEF PagesNext

\* The types of the whole desktop.
DesktopTypesKept ==
  /\ ViewTypeOK /\ TransferTypeOK /\ StemValues /\ BridgeTypeOK /\ PagesBounded

LEMMA TypesAreKept ==
  DesktopInv /\ DesktopTypesKept => DesktopTypeOK
  <1> SUFFICES ASSUME DesktopInv, DesktopTypesKept PROVE DesktopTypeOK
    OBVIOUS
  <1>1. UsbTypeOK
    BY DEF DesktopInv, UsbInv
  <1>2. StemTypeOK
    BY DEF DesktopInv, DesktopTypesKept, StemInv, StemValues, StemTypeOK, Separating
  <1>3. IdTypeOK
    <2>1. idFile = NoId \/ (idFile \in SUBSET Starts /\ Cardinality(idFile) <= 1)
      <3>1. CASE idFile = {}
        BY <3>1, FS_EmptySet
      <3>2. CASE idFile # NoId /\ idFile # {}
        <4>1. idFile \in SUBSET Starts /\ \A s, t \in idFile : s = t
          BY <3>2 DEF DesktopInv, IdInv
        <4>2. PICK s \in idFile : idFile = {s}
          BY <3>2, <4>1
        <4> QED BY <4>1, <4>2, FS_Singleton
      <3> QED BY <3>1, <3>2
    <2>2. /\ idCall \in [Starts -> {"new", "missing", "writing", "raced", "done", "failed"}]
          /\ idGot \in [Starts -> Starts \cup {NoId}]
      BY DEF DesktopInv, IdInv
    <2>3. idFile \in {NoId} \cup {S \in SUBSET Starts : Cardinality(S) <= 1}
      BY <2>1
    <2> QED BY <2>2, <2>3 DEF IdTypeOK
  <1>4. UploadTypeOK
    BY DEF DesktopInv, UploadInv
  <1>5. PagesTypeOK
    <2>1. ASSUME NEW a \in pgAsks
          PROVE  a \in [kind : {"due", "first", "refresh", "more"}, list : Lists, from : 0..RowsOf,
                        count : 0..(RowsOf + PageSize), fresh : BOOLEAN]
      <3>1. a \in PageAsks /\ a.count <= RowsOf + PageSize
        BY DEF DesktopInv, DesktopTypesKept, PagesInv, AsksAgree, PagesBounded
      <3>2. a.count \in 0..(RowsOf + PageSize)
        BY <3>1, PagesAssumption DEF PageAsks
      <3> QED BY <3>1, <3>2 DEF PageAsks
    <2> QED BY <2>1 DEF DesktopInv, DesktopTypesKept, PagesInv, PagesBounded, PagesTypeOK
  <1>6. WavesTypeOK
    BY DEF DesktopInv, WavesInv, WavesTypeOK, WaveAskRecords
  <1> QED BY <1>1, <1>2, <1>3, <1>4, <1>5, <1>6 DEF DesktopTypesKept, DesktopTypeOK

LEMMA TypesBegin == DesktopInit => DesktopTypesKept
  <1> SUFFICES ASSUME DesktopInit PROVE DesktopTypesKept
    OBVIOUS
  <1>1. ViewTypeOK
    BY DEF DesktopInit, ViewInit, ViewTypeOK
  <1>2. TransferTypeOK
    <2>1. NewRun \in RunSet
      BY DEF NewRun, RunSet
    <2> QED BY <2>1 DEF DesktopInit, TransferInit, TransferTypeOK
  <1>3. StemValues
    BY DEF DesktopInit, StemInit, StemValues
  <1>4. BridgeTypeOK
    BY DEF DesktopInit, BridgeInit, BridgeTypeOK
  <1>5. PagesBounded
    <2>1. /\ pgHook \in {"library", "playlist"} /\ pgRows = << >> /\ pgAsks = {}
      BY DEF DesktopInit, PagesInit
    <2>2. Len(pgRows) = 0 /\ AsksFor("more") = {}
      BY <2>1 DEF AsksFor
    <2> QED BY PagesAssumption, <2>1, <2>2 DEF PagesBounded
  <1> QED BY <1>1, <1>2, <1>3, <1>4, <1>5 DEF DesktopTypesKept

LEMMA TypesGoOn == DesktopInv /\ DesktopTypesKept /\ [DesktopNext]_desktopVars => DesktopTypesKept'
  <1> SUFFICES ASSUME DesktopInv, DesktopTypesKept, [DesktopNext]_desktopVars PROVE DesktopTypesKept'
    OBVIOUS
  <1>1. ViewNext \/ UNCHANGED usbViewVars
    BY DEF DesktopNext, desktopVars, Plays
  <1> QED BY <1>1, DesktopStepsAreSteps, ViewTypes, TransferTypes, StemTypes, BridgeTypes, PagesTypes
          DEF DesktopInv, DesktopTypesKept

\* The state of the whole desktop process and its window keeps its types, for any
\* requests, files, transfers, jobs, processes, lists and answers, in any order: the
\* rows of a list are at most a page too many (useRekordboxTracks.ts).
THEOREM DesktopTypeCorrect == DesktopSpec => []DesktopTypeOK
  <1> QED BY DesktopKeepsInv, TypesBegin, TypesGoOn, TypesAreKept, PTL DEF DesktopSpec
===============================================================================
