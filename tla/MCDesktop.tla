------------------------------ MODULE MCDesktop ------------------------------
(***************************************************************************)
(* The desktop application: the components of the Electron main process,   *)
(* the upload that reads the drive, and the lists and waveforms of its     *)
(* window, checked in one run.  They share no state, so a behaviour        *)
(* exercises one of them, the scene, and leaves the others in an initial   *)
(* state.                                                                  *)
(***************************************************************************)
EXTENDS UsbView, UsbTransfer, StemSeparation, RekordboxBridge,
        InstallationId, AnalysisUpload, LibraryPages, TrackWaveforms, TLC

CONSTANTS d1, f1, f2, g1, g2, b1, b2, m2

VARIABLE scene

\* One folder of two files.
MCFilesOf == d1 :> {f1, f2}

\* One window of two analysis files, each a batch of its own.
MCWindows == << {g1, g2} >>

\* Another instance of the waveform hook finds an error for b1 in m2.
MCSharedStates == {<<m2, b1, "error">>}

\* A bound: nothing is shown or cached of the track b2 in the import m2.
WavesBounded == (wvImport' = m2 => b2 \notin wvIds') /\ wvCache'[m2, b2] = NoWave

DesktopTypeOK ==
  /\ UsbTypeOK /\ ViewTypeOK /\ TransferTypeOK /\ StemTypeOK
  /\ BridgeTypeOK /\ IdTypeOK /\ UploadTypeOK /\ PagesTypeOK /\ WavesTypeOK

DesktopInit ==
  /\ scene \in {"usb", "transfer", "stems", "bridge", "identity", "upload",
               "pages", "waves"}
  /\ ViewInit /\ TransferInit /\ StemInit /\ BridgeInit /\ IdInit
  /\ UploadInit /\ PagesInit /\ WavesInit
  /\ scene # "usb" => usbConn = NoRoot
  /\ scene # "transfer" => trGuest = {}
  /\ scene # "upload" => upStored = {}
  /\ scene # "pages" => pgHook = "library"

\* A step of one scene leaves the variables of the others alone.
Plays(s) ==
  /\ scene = s /\ UNCHANGED scene
  /\ s # "usb" => UNCHANGED usbViewVars
  /\ s # "transfer" => UNCHANGED transferVars
  /\ s # "stems" => UNCHANGED stemVars
  /\ s # "bridge" => UNCHANGED bridgeVars
  /\ s # "identity" => UNCHANGED idVars
  /\ s # "upload" => UNCHANGED uploadVars
  /\ s # "pages" => UNCHANGED pageVars
  /\ s # "waves" => UNCHANGED waveVars

DesktopNext ==
  \/ Plays("usb") /\ ViewNext
  \/ Plays("transfer") /\ TransferNext
  \/ Plays("stems") /\ StemNext
  \/ Plays("bridge") /\ BridgeNext
  \/ Plays("identity") /\ IdNext
  \/ Plays("upload") /\ UploadNext
  \/ Plays("pages") /\ PagesNext
  \/ Plays("waves") /\ WavesNext /\ WavesBounded

desktopVars == <<scene, usbViewVars, transferVars, stemVars, bridgeVars, idVars,
                uploadVars, pageVars, waveVars>>

\* Each component's own fairness; the poll and the upload only in their scene.
DesktopFairness ==
  /\ UsbFairness /\ StemFairness
  /\ WF_usbViewVars(scene = "usb" /\ PollCached) /\ WF_usbViewVars(PollEnds)
  /\ WF_uploadVars(scene = "upload" /\ UploadProgress)

DesktopSpec == DesktopInit /\ [][DesktopNext]_desktopVars /\ DesktopFairness

-----------------------------------------------------------------------------
\* What racing writers create is created once and stays: a transfer replaces
\* no file of the destination (usbTransfer.cjs), and every start that returns
\* an identifier returns the one on disk (installationIdentity.cjs).
CreatedOnce == NeverOverwrites /\ OneIdentity

\* GivenUpIsShown, of the scene that polls: once the drive is given up for
\* good the screen stops offering it, however late the answers arrive.
DesktopGivenUpIsShown == scene = "usb" => GivenUpIsShown

\* What is shown or reported belongs to the request it is shown for: a success of
\* the bridge to the bridge's answer (cueApplyBridge.cjs), the rows to the list
\* (useRekordboxTracks.ts), a waveform to the import and the latest request
\* (useTrackPreviewWaveforms.ts); and what is shown as loading has a request.
ShownIsOwn == SuccessIsReal /\ RowsAreWhole /\ PagesLoad /\ WavesAreCurrent /\ WavesLoad

\* Every asynchronous call of these components is answered, whatever hangs,
\* fails or is cancelled: a release although a stream never closes
\* (usbStreamRegistry.cjs), a prepare that is shared, cancelled or cleared
\* (stemSeparationBridge.cjs), and an upload (targetedAnalysisTransfer.ts).
EveryCallReturns ==
  ReleaseReturns /\ EveryPrepareSettles /\ (scene = "upload" => UploadReturns)
=============================================================================
