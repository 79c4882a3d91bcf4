----------------------------- MODULE MCImportJob -----------------------------
(***************************************************************************)
(* Instances of ImportJob for TLC: which two requests race each other.     *)
(***************************************************************************)
EXTENDS ImportJob

CONSTANTS r1, r2

Races(first, second) == [r \in Reqs |-> IF r = r1 THEN first ELSE second]

PauseAndDelete == Races("pause", "delete_next")
PauseAndResume == Races("pause", "resume")
ResumeAndDelete == Races("resume", "delete_next")
CompleteAndDelete == Races("complete", "delete_over")
=============================================================================
