------------------------------- MODULE UsbView -------------------------------
(***************************************************************************)
(* The renderer's picture of the USB connection, composed with the main    *)
(* process of UsbStreams: desktopConnectionState of electron/main.cjs and  *)
(* UsbConnectionProvider of src/contexts/UsbConnectionContext.tsx.         *)
(*                                                                         *)
(* The renderer asks every five seconds and on focus; the main process     *)
(* inspects the drive (stat, then readdir) before it answers, and a        *)
(* release may finish in between.                                          *)
(***************************************************************************)
EXTENDS UsbStreams

VARIABLES usbShown,  \* state.status; "away" is released or disconnected
          usbPoll    \* refreshDesktopState: "none", or the drive call it waits for

usbViewVars == <<usbVars, usbShown, usbPoll>>

ViewTypeOK ==
  /\ usbShown \in {"connecting", "connected", "unavailable", "away", "error"}
  /\ usbPoll \in {"none", "stat", "readdir"}

ViewInit == UsbInit /\ usbShown = "connecting" /\ usbPoll = "none"

Begins == {c \in Calls : usbCall[c].phase = "idle" /\ usbCall'[c].phase # "idle"
                         /\ usbCall'[c].kind \in {"select", "reconnect"}}

\* SET_CONNECTING when a select or a reconnect begins.
ViewWorks ==
  /\ UsbRequestStep \/ UsbSweepStep \/ UsbCallStep
  /\ usbShown' = IF Begins # {} THEN "connecting" ELSE usbShown
  /\ UNCHANGED usbPoll

\* SET_DESKTOP_STATE with the state the answer carries, or SET_ERROR.
ViewAnswered ==
  /\ \E c \in Calls :
       /\ CallAnswered(c)
       /\ usbShown' \in CASE usbCall[c].answer = "away" -> {"away"}
                          [] usbCall[c].answer = "error" -> {"error", "away"}
                          [] OTHER -> {"connected", "unavailable"}
  /\ UNCHANGED usbPoll

ViewRestart == AppStart /\ usbShown' = "connecting" /\ usbPoll' = "none"

\* Without a connection the answer is cached and touches no drive.
PollCachedUnlessError ==
  /\ usbPoll = "none" /\ usbConn = NoRoot /\ usbShown # "error"
  /\ usbShown' = "away"
  /\ UNCHANGED <<usbVars, usbPoll>>

PollCached ==
  /\ usbPoll = "none" /\ usbConn = NoRoot
  /\ usbShown' = "away"
  /\ UNCHANGED <<usbVars, usbPoll>>

\* inspectUsbRoot calls stat, then readdir, without looking again.
PollStat ==
  /\ usbPoll = "none" /\ usbConn # NoRoot /\ ~usbGate.released
  /\ usbPoll' = "stat"
  /\ UNCHANGED <<usbVars, usbShown>>

PollReaddir ==
  /\ usbPoll = "stat"
  /\ usbPoll' = "readdir"
  /\ UNCHANGED <<usbVars, usbShown>>

\* The answer is built from usbConnection; if a release made it null
\* meanwhile, reading its volume name throws and the renderer shows an error.
PollEnds ==
  /\ usbPoll # "none"
  /\ usbPoll' = "none"
  /\ IF usbConn = NoRoot THEN usbShown' = "error"
     ELSE usbShown' \in {"connected", "unavailable"}
  /\ UNCHANGED usbVars

ViewNext == \/ ViewWorks \/ ViewAnswered \/ ViewRestart
            \/ PollCached \/ PollStat \/ PollReaddir \/ PollEnds

\* The five-second timer keeps asking and file calls return.
ViewFairness ==
  /\ UsbFairness
  /\ WF_usbViewVars(PollCached) /\ WF_usbViewVars(PollEnds)

ViewSpec == ViewInit /\ [][ViewNext]_usbViewVars /\ ViewFairness

-----------------------------------------------------------------------------
\* Once the drive is given up for good, the screen stops offering it: an
\* inspection that straddles the release, a late reply and a timed-out
\* release are all overtaken by a later answer.
GivenUpIsShown ==
  <>[](usbConn = NoRoot /\ \A c \in Calls : usbCall[c].phase = "idle") => []<>(usbShown = "away")
=============================================================================
