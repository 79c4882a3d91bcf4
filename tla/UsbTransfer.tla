----------------------------- MODULE UsbTransfer -----------------------------
(***************************************************************************)
(* Copying a Rekordbox USB to another drive: startTransfer of              *)
(* electron/main.cjs and runTransfer of electron/usbTransfer.cjs.          *)
(*                                                                         *)
(* The source is a set of folders of files.  A folder that cannot be read  *)
(* is silently passed over by walkFiles, so a transfer only knows the      *)
(* files it listed.                                                        *)
(***************************************************************************)
EXTENDS Naturals, FiniteSets

CONSTANTS Transfers,     \* calls of startTransfer
          Folders,       \* folders of the source
          FilesOf        \* FilesOf[d]: the files of folder d

TrFiles == UNION {FilesOf[d] : d \in Folders}

VARIABLES trRun,      \* each transfer's position and result
          trActive,   \* the transfers whose control is activeTransfer
          trHasDest,  \* transferDestination is set
          trDrive,    \* what the destination drive holds
          trGuest     \* the files that were on it before

transferVars == <<trRun, trActive, trHasDest, trDrive, trGuest>>

RunSet == [phase : {"idle", "scanning", "opening", "copying", "done"},
           folders : SUBSET Folders, listed : SUBSET TrFiles, todo : SUBSET TrFiles,
           cancelled : BOOLEAN, copied : SUBSET TrFiles, failed : SUBSET TrFiles,
           status : {"none", "completed", "partial", "failed", "cancelled"}]

TransferTypeOK ==
  /\ trRun \in [Transfers -> RunSet]
  /\ trActive \subseteq Transfers
  /\ trHasDest \in BOOLEAN
  /\ trDrive \in [TrFiles -> {"absent", "theirs", "ours"}]
  /\ trGuest \subseteq TrFiles

NewRun == [phase |-> "idle", folders |-> {}, listed |-> {}, todo |-> {},
           cancelled |-> FALSE, copied |-> {}, failed |-> {}, status |-> "none"]

TransferInit ==
  /\ trRun = [t \in Transfers |-> NewRun]
  /\ trActive = {}
  /\ trHasDest = FALSE
  /\ trGuest \in SUBSET TrFiles
  /\ trDrive = [f \in TrFiles |-> IF f \in trGuest THEN "theirs" ELSE "absent"]

\* selectTransferDestination and clear-transfer-destination.
ChooseDestination ==
  /\ ~trHasDest
  /\ trHasDest' = TRUE
  /\ UNCHANGED <<trRun, trActive, trDrive, trGuest>>

ClearDestination ==
  /\ trHasDest /\ trActive = {}
  /\ trHasDest' = FALSE
  /\ UNCHANGED <<trRun, trActive, trDrive, trGuest>>

\* startTransfer up to its scan: only activeTransfer keeps a second one out.
TransferBegin(t) ==
  /\ trRun[t].phase = "idle"
  /\ trActive = {} /\ trHasDest
  /\ trRun' = [trRun EXCEPT ![t].phase = "scanning"]
  /\ UNCHANGED <<trActive, trHasDest, trDrive, trGuest>>

\* The scan is over: activeTransfer becomes this transfer, whatever it was.
TransferCopies(t) ==
  /\ trRun[t].phase = "scanning"
  /\ trHasDest
  /\ trActive' = {t}
  /\ trRun' = [trRun EXCEPT ![t].phase = "opening"]
  /\ UNCHANGED <<trHasDest, trDrive, trGuest>>

\* listTransferFiles reads the top of the source for the chosen folders.  If it
\* cannot, or nothing was chosen, runTransfer throws and the transfer is over.
SourceOpened(t) ==
  /\ trRun[t].phase = "opening"
  /\ \/ /\ \E chosen \in SUBSET Folders \ {{}} :
               trRun' = [trRun EXCEPT ![t].phase = "copying", ![t].folders = chosen]
        /\ UNCHANGED trActive
     \/ /\ trRun' = [trRun EXCEPT ![t].phase = "done", ![t].status = "failed"]
        /\ trActive' = {}
  /\ UNCHANGED <<trHasDest, trDrive, trGuest>>

\* The destination is gone, or too small.
TransferRefused(t) ==
  /\ trRun[t].phase = "scanning"
  /\ trRun' = [trRun EXCEPT ![t] = NewRun]
  /\ UNCHANGED <<trActive, trHasDest, trDrive, trGuest>>

\* walkFiles lists the next folder, or fails to and goes on.
ListFolder(t) ==
  /\ trRun[t].phase = "copying" /\ trRun[t].todo = {}
  /\ \E d \in trRun[t].folders : \E seen \in {FilesOf[d], {}} :
       trRun' = [trRun EXCEPT ![t].folders = @ \ {d}, ![t].todo = seen,
                              ![t].listed = @ \cup seen]
  /\ UNCHANGED <<trActive, trHasDest, trDrive, trGuest>>

\* copyFile with COPYFILE_EXCL: what is there already is skipped.
PutFileOver(f) == trDrive' = [trDrive EXCEPT ![f] = "ours"]
PutFile(f) == trDrive' = [trDrive EXCEPT ![f] = IF @ = "absent" THEN "ours" ELSE @]

CopyFile(t) ==
  /\ trRun[t].phase = "copying" /\ ~trRun[t].cancelled
  /\ \E f \in trRun[t].todo :
       /\ PutFile(f)
       /\ trRun' = [trRun EXCEPT ![t].todo = @ \ {f},
                      ![t].copied = IF trDrive[f] = "absent" THEN @ \cup {f} ELSE @]
  /\ UNCHANGED <<trActive, trHasDest, trGuest>>

\* A file that cannot be read or written is counted; no space or a read-only
\* drive ends the transfer.
FileFails(t, fatal) ==
  /\ trRun[t].phase = "copying" /\ ~trRun[t].cancelled
  /\ \E f \in trRun[t].todo :
       trRun' = [trRun EXCEPT ![t].todo = @ \ {f}, ![t].failed = @ \cup {f},
                              ![t].status = IF fatal THEN "failed" ELSE @]
  /\ trRun'[t] # trRun[t]
  /\ UNCHANGED <<trActive, trHasDest, trDrive, trGuest>>

\* cancel-transfer reaches the transfer that is activeTransfer.
CancelTransfer ==
  /\ \E t \in trActive : /\ trRun[t].phase \in {"opening", "copying"} /\ ~trRun[t].cancelled
                         /\ trRun' = [trRun EXCEPT ![t].cancelled = TRUE]
  /\ UNCHANGED <<trActive, trHasDest, trDrive, trGuest>>

FinalStatus(run) ==
  CASE run.status = "failed" -> "failed"
    [] run.cancelled /\ run.todo # {} -> "cancelled"
    [] run.failed = {} -> "completed"
    [] run.copied # {} -> "partial"
    [] OTHER -> "failed"

\* runTransfer returns, and finally activeTransfer is reset, whoever it was.
TransferEnds(t) ==
  /\ trRun[t].phase = "copying"
  /\ \/ trRun[t].status = "failed"
     \/ trRun[t].cancelled /\ trRun[t].todo # {}
     \/ trRun[t].todo = {} /\ trRun[t].folders = {}
  /\ trRun' = [trRun EXCEPT ![t].phase = "done", ![t].status = FinalStatus(trRun[t])]
  /\ trActive' = {}
  /\ UNCHANGED <<trHasDest, trDrive, trGuest>>

TransferNext ==
  \/ ChooseDestination \/ ClearDestination \/ CancelTransfer
  \/ \E t \in Transfers : \/ TransferBegin(t) \/ TransferCopies(t) \/ TransferRefused(t)
                          \/ SourceOpened(t) \/ ListFolder(t) \/ CopyFile(t) \/ TransferEnds(t)
                          \/ \E fatal \in BOOLEAN : FileFails(t, fatal)

TransferSpec == TransferInit /\ [][TransferNext]_transferVars

-----------------------------------------------------------------------------
\* "It only ever adds files to the destination: it never deletes or overwrites
\* anything" (usbTransfer.cjs): also with two transfers on one drive.
NeverOverwrites == \A f \in trGuest : trDrive[f] = "theirs"
=============================================================================
