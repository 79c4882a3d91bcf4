----------------------------- MODULE AudioPlayer -----------------------------
(***************************************************************************)
(* The player: src/contexts/AudioPlayerContext.tsx with                    *)
(* src/lib/usb/usbPlaybackCoordinator.ts.                                  *)
(*                                                                         *)
(* A call is one run of playTrack, or of the effect that plays a queued    *)
(* track, waiting for an answer.  It is current while its request id is    *)
(* playRequestIdRef's; the old ids are all alike.  The drive's context and *)
(* the preview lookup are external: any status, any answer, at any time.   *)
(* Loading an element discards its queued events and rejects its play()    *)
(* with an AbortError, so only the attached source raises events.          *)
(***************************************************************************)
EXTENDS Naturals, FiniteSets

CONSTANTS PlayerTracks, NoTrack,
          MaxPlayCalls   \* calls that are under way together

ASSUME PlayerAssumption == NoTrack \notin PlayerTracks /\ MaxPlayCalls \in Nat

VARIABLES apUsb,      \* the status of the drive's context
          apCalls,    \* calls under way
          apPending,  \* pendingPlayRef
          apSource,   \* what the audio element has: ownedUrlRef and its flags
          apUrls,     \* object URLs created and not revoked
          apView      \* the reducer's state

playerVars == <<apUsb, apCalls, apPending, apSource, apUrls, apView>>

UsbStatuses == {"connected", "connecting", "disconnected", "released",
                "permission-required", "unusable"}
SourceKinds == {"file", "token", "cloud"}
Attached == [track : PlayerTracks, kind : SourceKinds]
NoSource == [track |-> NoTrack, kind |-> "none"]

PlayerTypeOK ==
  /\ apUsb \in UsbStatuses
  /\ apCalls \subseteq [track : PlayerTracks, current : BOOLEAN, queued : BOOLEAN,
                        step : {"preview", "permission", "file"}]
  /\ apPending \in PlayerTracks \cup {NoTrack}
  /\ apSource \in Attached \cup {NoSource}
  /\ apUrls \in SUBSET PlayerTracks
  /\ apView \in [track : PlayerTracks \cup {NoTrack}, intent : BOOLEAN,
                 source : {"none", "usb", "cloud"},
                 status : {"idle", "resolving", "loading", "ready", "playing", "buffering",
                           "seeking", "paused", "ended", "error"}]

Idle == [track |-> NoTrack, intent |-> FALSE, source |-> "none", status |-> "idle"]

PlayerInit ==
  /\ apUsb \in UsbStatuses
  /\ apCalls = {} /\ apPending = NoTrack
  /\ apSource = NoSource /\ apUrls = {}
  /\ apView = Idle

UsbSource == apSource.kind \in {"file", "token"}
ShouldTryCloudPreview(usb) == usb \notin {"connected", "connecting"}

\* releaseCurrentSource: an object URL is revoked.
ReleasedUrls == IF apSource.kind = "file" THEN apUrls \ {apSource.track} ELSE apUrls
ReleaseCurrentSource == apSource' = NoSource /\ apUrls' = ReleasedUrls

Superseding(calls) == {[c EXCEPT !.current = FALSE] : c \in calls}
NewCall(track, step) == [track |-> track, current |-> TRUE, queued |-> FALSE, step |-> step]

\* The reducer's RESOLVING and ERROR.
Resolving(track) == [track |-> track, intent |-> TRUE, source |-> "none", status |-> "resolving"]
Failing(track) == [track |-> track, intent |-> FALSE, source |-> "none", status |-> "error"]

-----------------------------------------------------------------------------
(* playTrack.                                                              *)

\* isCurrent: the request id is still playRequestIdRef's.
IsAlwaysCurrent(c) == TRUE
IsCurrent(c) == c.current

\* failCurrent and failPlayback: the source goes, the error is shown.
Fails(track, others) ==
  /\ apCalls' = others /\ apPending' = NoTrack
  /\ ReleaseCurrentSource
  /\ apView' = Failing(track)

\* From the drive's status on: wait for the drive, ask for its permission,
\* look the file up, or fail (also when the track's path does not resolve).
FromDrive(track, others) ==
  \/ /\ apUsb \in {"connecting", "disconnected", "released"}
     /\ apPending' = track /\ apCalls' = others
     /\ ReleaseCurrentSource /\ apView' = Resolving(track)
  \/ /\ apUsb \in {"permission-required", "connected"}
     /\ apCalls' = others \cup {NewCall(track, IF apUsb = "connected" THEN "file" ELSE "permission")}
     /\ apPending' = NoTrack
     /\ ReleaseCurrentSource /\ apView' = Resolving(track)
  \/ Fails(track, others)

\* Stop first: a new request, nothing pending, and the source goes.
PlayTrack(track) ==
  /\ Cardinality(apCalls) < MaxPlayCalls
  /\ IF ShouldTryCloudPreview(apUsb)
     THEN /\ apCalls' = Superseding(apCalls) \cup {NewCall(track, "preview")}
          /\ apPending' = NoTrack
          /\ ReleaseCurrentSource /\ apView' = Resolving(track)
     ELSE FromDrive(track, Superseding(apCalls))
  /\ UNCHANGED apUsb

\* startAudio: the URL is attached and shown; play() is under way.
StartAudio(track, kind) ==
  /\ apSource' = [track |-> track, kind |-> kind]
  /\ apUrls' = IF kind = "file" THEN apUrls \cup {track} ELSE apUrls
  /\ apView' = [track |-> track, intent |-> TRUE, status |-> "loading",
                source |-> IF kind = "cloud" THEN "cloud" ELSE "usb"]

\* fetchPreviewPlayback answered.  Without a preview, or with the drive back,
\* the track is played from the drive, or a queued one fails.
PreviewAnswered(c) ==
  /\ c.step = "preview"
  /\ \/ /\ ~IsCurrent(c)
        /\ apCalls' = apCalls \ {c} /\ UNCHANGED <<apPending, apSource, apUrls, apView>>
     \/ /\ IsCurrent(c) /\ ShouldTryCloudPreview(apUsb)
        /\ apCalls' = apCalls \ {c} /\ UNCHANGED apPending
        /\ StartAudio(c.track, "cloud")
     \/ /\ IsCurrent(c)
        /\ IF c.queued THEN Fails(c.track, Superseding(apCalls \ {c}))
                       ELSE FromDrive(c.track, apCalls \ {c})
  /\ UNCHANGED apUsb

PermissionAnswered(c) ==
  /\ c.step = "permission"
  /\ \/ /\ ~IsCurrent(c)
        /\ apCalls' = apCalls \ {c} /\ UNCHANGED <<apPending, apSource, apUrls, apView>>
     \/ /\ IsCurrent(c)
        /\ apCalls' = (apCalls \ {c}) \cup {[c EXCEPT !.step = "file"]}
        /\ UNCHANGED <<apPending, apSource, apUrls, apView>>
     \/ /\ IsCurrent(c) /\ Fails(c.track, apCalls \ {c})
  /\ UNCHANGED apUsb

\* resolveTrackSource answered: a browser's File, a desktop token, an abort,
\* which shows nothing, or an error.
FileAnswered(c) ==
  /\ c.step = "file"
  /\ \/ /\ apCalls' = apCalls \ {c} /\ UNCHANGED <<apPending, apSource, apUrls, apView>>
     \/ /\ IsCurrent(c)
        /\ apCalls' = apCalls \ {c} /\ UNCHANGED apPending
        /\ \E kind \in {"file", "token"} : StartAudio(c.track, kind)
     \/ /\ IsCurrent(c) /\ Fails(c.track, apCalls \ {c})
  /\ UNCHANGED apUsb

-----------------------------------------------------------------------------
(* The drive, the element, and the transport.                              *)

\* The effect on the drive's status: play the queued track, clear an error, or
\* stop a source that the drive no longer backs.
UsbStatusChanges(status) ==
  /\ status # apUsb
  /\ apUsb' = status
  /\ \/ /\ status = "connected" /\ apPending # NoTrack
        /\ apCalls' = Superseding(apCalls) \cup {NewCall(apPending, "file")}
        /\ apPending' = NoTrack
        /\ ReleaseCurrentSource /\ apView' = Resolving(apPending)
     \/ /\ status = "connected" /\ apPending = NoTrack
        /\ apView' = IF apView.status = "error" THEN Idle ELSE apView
        /\ UNCHANGED <<apCalls, apPending, apSource, apUrls>>
     \/ /\ status = "connecting"
        /\ UNCHANGED <<apCalls, apPending, apSource, apUrls, apView>>
     \/ /\ ShouldTryCloudPreview(status) /\ apPending # NoTrack
        /\ apCalls' = apCalls \cup {[NewCall(apPending, "preview") EXCEPT !.queued = TRUE]}
        /\ apPending' = NoTrack
        /\ UNCHANGED <<apSource, apUrls, apView>>
     \/ /\ ShouldTryCloudPreview(status) /\ apPending = NoTrack
        /\ UsbSource /\ apView.status \notin {"idle", "error"}
        /\ Fails(apView.track, Superseding(apCalls))
     \/ /\ ShouldTryCloudPreview(status) /\ apPending = NoTrack
        /\ ~(UsbSource /\ apView.status \notin {"idle", "error"})
        /\ UNCHANGED <<apCalls, apPending, apSource, apUrls, apView>>

\* stop, clearError and, when the drive backs the source, the handler that a
\* release of the drive calls.
Stop ==
  /\ apCalls' = Superseding(apCalls) /\ apPending' = NoTrack
  /\ ReleaseCurrentSource
  /\ apView' = Idle
  /\ UNCHANGED apUsb

\* The events of the attached source; toggleTrack, pause, resume and seek reach
\* the view through them.
MediaEvent ==
  /\ apSource # NoSource
  /\ \E status \in {"ready", "playing", "buffering", "seeking", "paused", "ended"} :
       apView' = [apView EXCEPT !.status = status,
                    !.intent = CASE status \in {"playing", "buffering"} -> TRUE
                                 [] status \in {"paused", "ended"} -> FALSE
                                 [] OTHER -> @]
  /\ UNCHANGED <<apUsb, apCalls, apPending, apSource, apUrls>>

\* The element's error, or play() rejected other than by an abort.
MediaFails ==
  /\ apSource # NoSource
  /\ apCalls' \in {apCalls, Superseding(apCalls)}
  /\ apPending' = NoTrack
  /\ ReleaseCurrentSource
  /\ apView' = Failing(apView.track)
  /\ UNCHANGED apUsb

\* toggleTrack or resume on what is attached: play() again.
PlayRequested ==
  /\ apSource # NoSource
  /\ apView' = [apView EXCEPT !.intent = TRUE]
  /\ UNCHANGED <<apUsb, apCalls, apPending, apSource, apUrls>>

PlayerNext ==
  \/ \E track \in PlayerTracks : PlayTrack(track)
  \/ \E c \in apCalls : PreviewAnswered(c) \/ PermissionAnswered(c) \/ FileAnswered(c)
  \/ \E status \in UsbStatuses : UsbStatusChanges(status)
  \/ Stop \/ MediaEvent \/ MediaFails \/ PlayRequested

PlayerSpec == PlayerInit /\ [][PlayerNext]_playerVars

-----------------------------------------------------------------------------
\* What is heard is what is shown, and belongs to the latest request: a source
\* is attached exactly while the screen offers a transport for it, it is of
\* the track that is shown, and no object URL outlives its source, in whatever
\* order lookups, permissions, previews and the drive's changes arrive.
HeardIsShown ==
  /\ apSource = NoSource <=> apView.status \in {"idle", "resolving", "error"}
  /\ apSource # NoSource => /\ apSource.track = apView.track
                            /\ (apSource.kind = "cloud") = (apView.source = "cloud")
  /\ apUrls = IF apSource.kind = "file" THEN {apSource.track} ELSE {}
=============================================================================
