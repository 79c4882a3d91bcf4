---------------------------- MODULE InstallationId ----------------------------
(***************************************************************************)
(* The identity of an installation: getOrCreateInstallationId of           *)
(* electron/installationIdentity.cjs, called by several starts of the      *)
(* program at once.  A caller's own new identifier is the caller itself.   *)
(***************************************************************************)
EXTENDS Naturals, FiniteSets

CONSTANTS Starts,   \* calls of getOrCreateInstallationId
          NoId

ASSUME IdAssumption == NoId \notin Starts /\ \A S \in SUBSET Starts : S # NoId

VARIABLES idFile,   \* the file: NoId when absent, {} while empty, else {identifier}
          idCall,   \* each call: "new", "missing", "writing", "raced", "done", "failed"
          idGot     \* the identifier a call returned

idVars == <<idFile, idCall, idGot>>

IdTypeOK ==
  /\ idFile \in {NoId} \cup {S \in SUBSET Starts : Cardinality(S) <= 1}
  /\ idCall \in [Starts -> {"new", "missing", "writing", "raced", "done", "failed"}]
  /\ idGot \in [Starts -> Starts \cup {NoId}]

IdInit ==
  /\ idFile = NoId
  /\ idCall = [s \in Starts |-> "new"]
  /\ idGot = [s \in Starts |-> NoId]

Moved(s, to) == idCall' = [idCall EXCEPT ![s] = to]

\* readInstallationId: absent, half written (JSON.parse throws) or whole.
ReadId(s, from, missing) ==
  /\ idCall[s] = from
  /\ UNCHANGED idFile
  /\ CASE idFile = NoId -> Moved(s, missing) /\ UNCHANGED idGot
       [] idFile = {} -> Moved(s, "failed") /\ UNCHANGED idGot
       [] OTHER -> /\ Moved(s, "done")
                   /\ \E id \in idFile : idGot' = [idGot EXCEPT ![s] = id]

\* writeFile with flag wx creates the file, or finds it created.
CreateFileOver(s) ==
  /\ idCall[s] = "missing"
  /\ idFile' = {} /\ Moved(s, "writing")
  /\ UNCHANGED idGot

CreateFile(s) ==
  /\ idCall[s] = "missing"
  /\ IF idFile = NoId THEN idFile' = {} /\ Moved(s, "writing")
                      ELSE Moved(s, "raced") /\ UNCHANGED idFile
  /\ UNCHANGED idGot

\* ... and then writes it.
WriteId(s) ==
  /\ idCall[s] = "writing"
  /\ idFile' = {s}
  /\ Moved(s, "done")
  /\ idGot' = [idGot EXCEPT ![s] = s]

IdNext == \E s \in Starts : \/ ReadId(s, "new", "missing") \/ ReadId(s, "raced", "failed")
                            \/ CreateFile(s) \/ WriteId(s)

IdSpec == IdInit /\ [][IdNext]_idVars

-----------------------------------------------------------------------------
\* However many starts race, every one that returns an identifier returns the
\* one the file keeps.
OneIdentity == \A s \in Starts : idGot[s] # NoId => idFile = {idGot[s]}
=============================================================================
