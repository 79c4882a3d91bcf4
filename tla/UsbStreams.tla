------------------------------ MODULE UsbStreams ------------------------------
(***************************************************************************)
(* The Electron main process's access to a Rekordbox USB drive:            *)
(* electron/usbStreamRegistry.cjs and the connection, media-token and      *)
(* release code of electron/main.cjs.                                      *)
(*                                                                         *)
(* JavaScript runs one callback at a time, so an action is the code        *)
(* between two awaits.  A drive is its root folder.  A media token keeps   *)
(* the drive its file was found on and the root it was minted with.        *)
(***************************************************************************)
EXTENDS Naturals, FiniteSets

CONSTANTS Roots,      \* drives the user may pick
          Requests,   \* slots for media and resolve requests
          Calls,      \* slots for release, disconnect, select and reconnect
          NoRoot, NoCall

ASSUME UsbAssumption == /\ NoRoot \notin Roots /\ NoCall \notin Calls
                        /\ IsFiniteSet(Requests) /\ Requests # {}

VARIABLES usbConn,     \* usbConnection.rootPath, or NoRoot
          usbSaved,    \* the root in the connection file
          usbTokens,   \* mediaTokens of kind "usb"
          usbGate,     \* acceptingRequests, releasing, released
          usbPending,  \* pendingRequestCount
          usbReq,      \* each request's position, and its stream's once it has one
          usbCall,     \* each connection call's position
          usbPromise,  \* releasePromise: the call whose sweep it stands for
          usbSweeps    \* the calls whose #releaseAll is still running

usbVars == <<usbConn, usbSaved, usbTokens, usbGate, usbPending, usbReq,
             usbCall, usbPromise, usbSweeps>>

UsbTokenSet == [file : Roots, root : Roots]

UsbReqSet == [phase : {"idle", "resolving", "stat", "open", "destroyed"},
              root : Roots \cup {NoRoot}]

UsbCallSet == [phase : {"idle", "waiting", "erasing", "picking", "writing",
                        "inspecting", "answered"},
               answer : {"none", "away", "cached", "inspected", "error"},
               kind : {"release", "disconnect", "select", "reconnect"},
               root : Roots \cup {NoRoot}, sweep : Calls \cup {NoCall}]

UsbTypeOK ==
  /\ usbConn \in Roots \cup {NoRoot}
  /\ usbSaved \in Roots \cup {NoRoot}
  /\ usbTokens \subseteq UsbTokenSet
  /\ usbGate \in [accepting : BOOLEAN, releasing : BOOLEAN, released : BOOLEAN]
  /\ usbPending \in Nat
  /\ usbReq \in [Requests -> UsbReqSet]
  /\ usbCall \in [Calls -> UsbCallSet]
  /\ usbPromise \in Calls \cup {NoCall}
  /\ usbSweeps \subseteq Calls

IdleReq == [phase |-> "idle", root |-> NoRoot]
IdleCall == [phase |-> "idle", answer |-> "none", kind |-> "release",
             root |-> NoRoot, sweep |-> NoCall]
AnsweredCall(kind, answer) == [IdleCall EXCEPT !.phase = "answered", !.kind = kind,
                                               !.answer = answer]
OpenGate == [accepting |-> TRUE, releasing |-> FALSE, released |-> FALSE]
ClosedGate == [accepting |-> FALSE, releasing |-> TRUE, released |-> FALSE]

\* assertAcceptingRequests does not throw.
Admits == usbGate.accepting /\ ~usbGate.releasing /\ ~usbGate.released

\* Streams the registry holds: opened, or told to close and not yet closed.
ActiveStreams == {r \in Requests : usbReq[r].phase \in {"open", "destroyed"}}

\* What #releaseAll waits for.
UsbQuietStreamsOnly == ActiveStreams = {}
UsbQuiet == ActiveStreams = {} /\ usbPending = 0

UsbInit ==
  /\ usbConn \in Roots \cup {NoRoot}
  /\ usbSaved = usbConn
  /\ usbTokens = {}
  /\ usbGate = OpenGate
  /\ usbPending = 0
  /\ usbReq = [r \in Requests |-> IdleReq]
  /\ usbCall = [c \in Calls |-> IdleCall]
  /\ usbPromise = NoCall
  /\ usbSweeps = {}

-----------------------------------------------------------------------------
(* Requests: resolve-track-source mints a token, the media protocol reads. *)

\* The finish closure of beginRequest.
FinishRequest == usbPending' = IF usbPending = 0 THEN 0 ELSE usbPending - 1

UsbRequestFrame == UNCHANGED <<usbConn, usbSaved, usbGate, usbCall, usbPromise, usbSweeps>>

\* beginRequest and resolveUsbTrackPath up to its first await.
ResolveBegin(r) ==
  /\ usbReq[r].phase = "idle"
  /\ Admits
  /\ usbConn # NoRoot
  /\ usbPending' = usbPending + 1
  /\ usbReq' = [usbReq EXCEPT ![r] = [phase |-> "resolving", root |-> usbConn]]
  /\ UNCHANGED usbTokens
  /\ UsbRequestFrame

\* The file was found: admission is asserted again, and the token takes the
\* root of the connection there is now.
ResolveMint(r) ==
  /\ usbReq[r].phase = "resolving"
  /\ usbTokens' = IF Admits /\ usbConn # NoRoot
                  THEN usbTokens \cup {[file |-> usbReq[r].root, root |-> usbConn]}
                  ELSE usbTokens
  /\ usbReq' = [usbReq EXCEPT ![r] = IdleReq]
  /\ FinishRequest
  /\ UsbRequestFrame

\* handleMediaRequest up to its first await; a token whose root is not the
\* connected one, or whose file lies outside its root, is refused.
MediaBegin(r, t) ==
  /\ usbReq[r].phase = "idle"
  /\ t \in usbTokens
  /\ Admits
  /\ t.root = usbConn
  /\ t.file = t.root
  /\ usbPending' = usbPending + 1
  /\ usbReq' = [usbReq EXCEPT ![r] = [phase |-> "stat", root |-> t.root]]
  /\ UNCHANGED usbTokens
  /\ UsbRequestFrame

\* The file was checked: the stream opens if the gate still admits, else 409.
MediaOpen(r) ==
  /\ usbReq[r].phase = "stat"
  /\ usbReq' = [usbReq EXCEPT ![r] = IF Admits THEN [@ EXCEPT !.phase = "open"]
                                               ELSE IdleReq]
  /\ FinishRequest
  /\ UNCHANGED usbTokens
  /\ UsbRequestFrame

\* A failed lookup, HEAD, OPTIONS or a bad range: the request ends early.
RequestEnd(r) ==
  /\ usbReq[r].phase \in {"resolving", "stat"}
  /\ usbReq' = [usbReq EXCEPT ![r] = IdleReq]
  /\ FinishRequest
  /\ UNCHANGED usbTokens
  /\ UsbRequestFrame

\* The operating system reports end, error or close; a destroyed stream may
\* never report it.
StreamClosed(r) ==
  /\ r \in ActiveStreams
  /\ usbReq' = [usbReq EXCEPT ![r] = IdleReq]
  /\ UNCHANGED <<usbPending, usbTokens>>
  /\ UsbRequestFrame

-----------------------------------------------------------------------------
(* Release.                                                                *)

Destroyed(req) == [r \in Requests |-> IF req[r].phase = "open"
                                      THEN [req[r] EXCEPT !.phase = "destroyed"]
                                      ELSE req[r]]

\* What a call does when the sweep it awaited ends: a disconnect erases the
\* connection file, a select goes on to the new root, or gives up.
Continued(call, allClosed) ==
  CASE allClosed /\ call.kind = "release" -> AnsweredCall("release", "away")
    [] allClosed /\ call.kind # "release" -> [call EXCEPT !.phase = "erasing", !.sweep = NoCall]
    [] ~allClosed /\ call.kind = "release" -> AnsweredCall("release", "cached")
    [] ~allClosed /\ call.kind = "disconnect" -> AnsweredCall("disconnect", "away")
    [] OTHER -> AnsweredCall(call.kind, "error")

\* Every caller that awaited this sweep.
AwaitsFirst(c, call, s) == call.phase = "waiting" /\ c = s
Awaits(c, call, s) == call.phase = "waiting" /\ call.sweep = s

\* #releaseAll returns: the gate, the callers, and the connection if all is
\* closed.
ConnectionForgotten(allClosed) == NoRoot
ConnectionAfter(allClosed) == IF allClosed THEN NoRoot ELSE usbConn

SweepResult(s, calls, allClosed) ==
  /\ usbGate' = [accepting |-> FALSE, releasing |-> ~allClosed, released |-> allClosed]
  /\ usbPromise' = NoCall
  /\ usbSweeps' = usbSweeps \ {s}
  /\ usbCall' = [c \in Calls |-> IF Awaits(c, calls[c], s)
                                 THEN Continued(calls[c], allClosed) ELSE calls[c]]
  /\ usbConn' = ConnectionAfter(allClosed)

\* releaseUsbAccess up to its first await: the gate closes, the tokens go, and
\* the call joins the sweep in progress or starts one, which destroys at once.
ReleaseFrom(c, call) ==
  /\ usbTokens' = {}
  /\ LET s == IF usbPromise = NoCall THEN c ELSE usbPromise
         calls == [usbCall EXCEPT ![c] = [call EXCEPT !.phase = "waiting", !.sweep = s]]
     IN \/ /\ usbPromise = NoCall /\ UsbQuiet
           /\ SweepResult(s, calls, TRUE)
           /\ UNCHANGED usbReq
        \/ /\ ~(usbPromise = NoCall /\ UsbQuiet)
           /\ usbGate' = ClosedGate
           /\ usbCall' = calls
           /\ usbPromise' = s
           /\ usbSweeps' = usbSweeps \cup (IF s = c THEN {c} ELSE {})
           /\ usbReq' = IF s = c THEN Destroyed(usbReq) ELSE usbReq
           /\ UNCHANGED usbConn
  /\ UNCHANGED <<usbSaved, usbPending>>

Release(c, kind) ==
  /\ usbCall[c].phase = "idle" /\ c \notin usbSweeps
  /\ ReleaseFrom(c, [IdleCall EXCEPT !.kind = kind])

\* One turn of the polling loop finds every stream closed and no request left.
SweepDone(s) ==
  /\ s \in usbSweeps
  /\ UsbQuiet
  /\ SweepResult(s, usbCall, TRUE)
  /\ UNCHANGED <<usbSaved, usbTokens, usbPending, usbReq>>

\* A turn that finds streams opened since destroys them too.
SweepAgain(s) ==
  /\ s \in usbSweeps
  /\ Destroyed(usbReq) # usbReq
  /\ usbReq' = Destroyed(usbReq)
  /\ UNCHANGED <<usbConn, usbSaved, usbTokens, usbGate, usbPending, usbCall,
                 usbPromise, usbSweeps>>

\* The deadline passes first.
SweepTimesOut(s) ==
  /\ s \in usbSweeps
  /\ ~UsbQuiet
  /\ SweepResult(s, usbCall, FALSE)
  /\ usbReq' = Destroyed(usbReq)
  /\ UNCHANGED <<usbSaved, usbTokens, usbPending>>

\* persistUsbConnection with no connection: the file is removed.
EraseSaved(c) ==
  /\ usbCall[c].phase = "erasing"
  /\ usbSaved' = NoRoot
  /\ usbCall' = [usbCall EXCEPT ![c] = IF @.kind = "select" THEN [@ EXCEPT !.phase = "picking"]
                                     ELSE AnsweredCall("disconnect", "away")]
  /\ UNCHANGED <<usbConn, usbTokens, usbGate, usbPending, usbReq, usbPromise, usbSweeps>>

-----------------------------------------------------------------------------
(* Connecting.                                                             *)

\* selectUsbRoot after the dialog: an existing connection is released first.
SelectBegin(c, root) ==
  /\ usbCall[c].phase = "idle" /\ c \notin usbSweeps
  /\ LET call == [IdleCall EXCEPT !.kind = "select", !.root = root]
     IN \/ /\ usbConn # NoRoot \/ ActiveStreams # {}
           /\ ReleaseFrom(c, call)
        \/ /\ usbConn = NoRoot /\ ActiveStreams = {}
           /\ usbCall' = [usbCall EXCEPT ![c] = [call EXCEPT !.phase = "picking"]]
           /\ UNCHANGED <<usbConn, usbSaved, usbTokens, usbGate, usbPending, usbReq,
                          usbPromise, usbSweeps>>

\* The chosen folder was resolved and becomes the connection.
SelectSet(c) ==
  /\ usbCall[c].phase = "picking"
  /\ usbConn' = usbCall[c].root
  /\ usbCall' = [usbCall EXCEPT ![c].phase = "writing"]
  /\ UNCHANGED <<usbSaved, usbTokens, usbGate, usbPending, usbReq, usbPromise, usbSweeps>>

\* resetForConnection: it forgets a running sweep but does not stop it.
ResetForConnection ==
  /\ usbTokens' = {}
  /\ usbGate' = OpenGate
  /\ usbPromise' = NoCall

SelectSaved(c) ==
  /\ usbCall[c].phase = "writing"
  /\ usbSaved' = usbConn
  /\ usbCall' = [usbCall EXCEPT ![c] = AnsweredCall("select", "inspected")]
  /\ ResetForConnection
  /\ UNCHANGED <<usbConn, usbPending, usbReq, usbSweeps>>

\* reconnectPersistedUsb reads the file, then inspects the drive.
ReconnectBegin(c) ==
  /\ usbCall[c].phase = "idle" /\ c \notin usbSweeps
  /\ usbSaved # NoRoot
  /\ usbCall' = [usbCall EXCEPT ![c] = [IdleCall EXCEPT !.phase = "inspecting",
                                          !.kind = "reconnect", !.root = usbSaved]]
  /\ UNCHANGED <<usbConn, usbSaved, usbTokens, usbGate, usbPending, usbReq,
                 usbPromise, usbSweeps>>

ReconnectSet(c) ==
  /\ usbCall[c].phase = "inspecting"
  /\ usbConn' = usbCall[c].root
  /\ usbCall' = [usbCall EXCEPT ![c] = AnsweredCall("reconnect", "inspected")]
  /\ ResetForConnection
  /\ UNCHANGED <<usbSaved, usbPending, usbReq, usbSweeps>>

\* The dialog's folder, the saved drive or the file is gone.
ConnectFails(c) ==
  /\ usbCall[c].phase \in {"inspecting", "picking"}
  /\ usbCall' = [usbCall EXCEPT ![c] = AnsweredCall(@.kind, "error")]
  /\ UNCHANGED <<usbConn, usbSaved, usbTokens, usbGate, usbPending, usbReq,
                 usbPromise, usbSweeps>>

\* The reply reaches the renderer.
CallAnswered(c) ==
  /\ usbCall[c].phase = "answered"
  /\ usbCall' = [usbCall EXCEPT ![c] = IdleCall]
  /\ UNCHANGED <<usbConn, usbSaved, usbTokens, usbGate, usbPending, usbReq,
                 usbPromise, usbSweeps>>

\* The program ended, by quitting or not, and starts again: loadUsbConnection.
AppStart ==
  /\ usbConn' \in {usbSaved, NoRoot}
  /\ usbTokens' = {}
  /\ usbGate' = OpenGate
  /\ usbPending' = 0
  /\ usbReq' = [r \in Requests |-> IdleReq]
  /\ usbCall' = [c \in Calls |-> IdleCall]
  /\ usbPromise' = NoCall
  /\ usbSweeps' = {}
  /\ UNCHANGED usbSaved

-----------------------------------------------------------------------------
UsbRequestStep ==
  \E r \in Requests : \/ ResolveBegin(r) \/ ResolveMint(r)
                      \/ \E t \in UsbTokenSet : MediaBegin(r, t)
                      \/ MediaOpen(r) \/ RequestEnd(r) \/ StreamClosed(r)

UsbSweepStep ==
  \E s \in Calls : SweepDone(s) \/ SweepAgain(s) \/ SweepTimesOut(s)

UsbCallStep ==
  \E c \in Calls : \/ \E kind \in {"release", "disconnect"} : Release(c, kind)
                   \/ EraseSaved(c)
                   \/ \E root \in Roots : SelectBegin(c, root)
                   \/ SelectSet(c) \/ SelectSaved(c)
                   \/ ReconnectBegin(c) \/ ReconnectSet(c) \/ ConnectFails(c)

UsbNext == \/ UsbRequestStep \/ UsbSweepStep \/ UsbCallStep
           \/ \E c \in Calls : CallAnswered(c)
           \/ AppStart

\* The polling loop is driven by timers and ends at its deadline.
UsbFairness == \A s \in Calls : WF_usbVars(SweepDone(s) \/ SweepTimesOut(s))

UsbSpec == UsbInit /\ [][UsbNext]_usbVars /\ UsbFairness

-----------------------------------------------------------------------------
\* Once the registry says released, no stream is open and no request is on its
\* way to opening one, whatever connections and sweeps overlapped: the drive
\* can be pulled or handed to Rekordbox (usbStreamRegistry.cjs release).
ReleasedIsQuiet == usbGate.released => \A r \in Requests : usbReq[r].phase = "idle"

\* A request that was admitted still finds a connection when its awaits are
\* over: a release does not forget the root under it, even when a reconnect
\* reopened the gate in the middle of the sweep.
AdmittedKeepsRoot ==
  \A r \in Requests : usbReq[r].phase \in {"resolving", "stat"} => usbConn # NoRoot

\* Every release and disconnect is answered although a stream never closes.
ReleaseReturns ==
  \A c \in Calls : usbCall[c].phase = "waiting" ~> usbCall[c].phase # "waiting"
=============================================================================
