----------------------- MODULE ImportJobDelete_proofs -----------------------
(***************************************************************************)
(* An accepted delete against the workers of every process, when no call   *)
(* fails, no process dies, no lease expires under a live worker and nobody *)
(* pauses: for any number of processes, workers, completions, resumes and  *)
(* deletes the intent is kept, the cleanup never overlaps a writer, and    *)
(* nothing of the import is left.                                          *)
(***************************************************************************)
EXTENDS ImportJob_proofs

Undisturbed == /\ MaxCrashes = 0
               /\ Faults = FALSE /\ LateBeats = FALSE
               /\ \A r \in Reqs : Kind[r] # "pause"

-----------------------------------------------------------------------------
(* The inductive invariant, in four layers, each inductive relative to the *)
(* ones before it.                                                         *)

\* 1. What cannot be reached when nothing disturbs the job.
CalmRow == row.exists =>
             /\ row.status \in {"processing", "completed"} \cup DeletePending
             /\ row.analysis \notin {"pause_requested", "paused"}
             /\ row.worker \notin {"pause_requested", "paused"}
CalmThreads ==
  /\ \A w \in Workers : /\ pc[w] \notin {"w_early1", "w_early2", "w_late1", "w_late2"}
                        /\ why[w] # "pause"
  /\ \A r \in Reqs : pc[r] \notin {"p_read", "p_update", "p_wait", "p_paused", "p_stopping",
                                   "p_status", "p_fin1", "p_fin2", "k_failed"}
  /\ \A p \in Procs : pc[p] = "up" /\ (reg[p].pause => reg[p].delete)
Calm == CalmRow /\ CalmThreads

\* 2. An accepted intent shows in the row, and a request that carries one out,
\* or read one, still finds it there.
Accepted == {"d_wait", "d_timeout", "f_wait", "f_read"} \cup CleanupSteps
IntentShown == row.exists /\ intent # "none" => row.status \in DeletePending
IntentRead ==
  \A r \in Reqs :
    /\ pc[r] \in Accepted => intent # "none"
    /\ pc[r] = "d_update" =>
         /\ seen[r].strategy # "none"
         /\ seen[r].status \in DeletePending /\ row.exists => row.status \in DeletePending
IntentInv == IntentShown /\ IntentRead

\* 3. A worker of an existing import holds the lease until it releases it, so a
\* cleanup that found the lease free found no worker; and one that starts later
\* stops at its first checkpoint.
Committed == CleanupSteps \ {"c_check", "c_back"}
LeaseOfWorker == \A w \in Workers :
                   row.exists /\ pc[w] \in AtWork \cup {"w_release", "w_drop"} => owner = w /\ valid
FailsWithoutRow == \A w \in Workers : pc[w] = "w_fail" => ~row.exists
WriterAlone == \A w \in Workers :
                 Writing(w) => /\ row.exists /\ row.status # "deleting"
                               /\ \A r \in Reqs : pc[r] \notin Committed
WriterInv == LeaseOfWorker /\ FailsWithoutRow /\ WriterAlone

\* 4. An object is named by a row of its track, or its worker is about to write
\* that row; so the cleanup, which deletes what the rows name, deletes them all.
ObjectsNamed == \A t \in objects :
                  t \in waves \/ \E w \in Workers : pc[w] = "w_write" /\ t = NextTrack(w)
CleanupProgress ==
  \A r \in Reqs : /\ pc[r] \in {"c_children", "c_staging", "c_hard"} => objects = {}
                  /\ pc[r] \in {"c_staging", "c_hard"} => waves = {}
                  /\ pc[r] = "c_hard" => ~staged
DataInv == ObjectsNamed /\ CleanupProgress /\ DeleteLeavesNothing

-----------------------------------------------------------------------------
(* Updates of the row that keep CalmRow and never take a delete back.      *)

Deleting == row.status = "deleting" \/ \E r \in Reqs : pc[r] \in Committed

Gentle(s, an, wk) == /\ s \in {"processing", "completed"} \cup DeletePending
                     /\ row.status \in DeletePending => s \in DeletePending
                     /\ s = "deleting" => Deleting
                     /\ an \notin {"pause_requested", "paused"}
                     /\ wk \notin {"pause_requested", "paused"}

RowStep == /\ row'.exists = row.exists
           /\ CalmRow'
           /\ row.exists /\ row.status \in DeletePending => row'.status \in DeletePending
           /\ row.exists /\ row'.status = "deleting" => Deleting

LEMMA RowStays ==
  ASSUME CalmRow, row' = row
  PROVE  RowStep
  BY DEF RowStep, CalmRow, Deleting

LEMMA SetFields ==
  ASSUME row \in Rows, NEW s, NEW an, NEW wk, NEW k, Set(s, an, wk, k)
  PROVE  /\ row'.exists = row.exists /\ row'.status = s
         /\ row'.analysis = an /\ row'.worker = wk
  BY Zenon DEF Rows, Set

LEMMA SetStep ==
  ASSUME row \in Rows, CalmRow, NEW s, NEW an, NEW wk, NEW k,
         Gentle(s, an, wk), Set(s, an, wk, k)
  PROVE  RowStep
  <1>1. /\ row'.exists = row.exists /\ row'.status = s
        /\ row'.analysis = an /\ row'.worker = wk
    BY SetFields
  <1> QED BY <1>1 DEF RowStep, CalmRow, Gentle

LEMMA SaveStep ==
  ASSUME row \in Rows, CalmRow, NEW a, NEW s, NEW an, NEW wk, NEW k, NEW next, NEW raised,
         Allowed(s) => Gentle(s, an, wk), Save(a, s, an, wk, k, next, raised)
  PROVE  RowStep
  BY SetStep, RowStays DEF Save

LEMMA StopsTogether ==
  ASSUME reg \in [Procs -> Registers], NEW p \in Procs,
         \A q \in Procs : reg[q].pause => reg[q].delete,
         \/ reg' = reg
         \/ reg' = [reg EXCEPT ![p].active = TRUE, ![p].acked = FALSE]
         \/ reg' = [reg EXCEPT ![p].active = FALSE, ![p].acked = TRUE]
         \/ reg' = [reg EXCEPT ![p].pause = FALSE, ![p].delete = FALSE]
         \/ RequestStop(p, TRUE)
  PROVE  \A q \in Procs : reg'[q].pause => reg'[q].delete
  <1>1. \A q \in Procs : reg[q] \in Registers
    OBVIOUS
  <1>2. ASSUME NEW x \in Registers, NEW b \in BOOLEAN, NEW c \in BOOLEAN
        PROVE  /\ [x EXCEPT !.active = TRUE, !.acked = FALSE].pause = x.pause
               /\ [x EXCEPT !.active = TRUE, !.acked = FALSE].delete = x.delete
               /\ [x EXCEPT !.active = FALSE, !.acked = TRUE].pause = x.pause
               /\ [x EXCEPT !.active = FALSE, !.acked = TRUE].delete = x.delete
               /\ ~[x EXCEPT !.pause = FALSE, !.delete = FALSE].pause
               /\ [x EXCEPT !.pause = TRUE, !.delete = b, !.acked = c].delete = b
    BY Zenon DEF Registers
  <1>3. CASE reg' = reg
    BY <1>3
  <1>4. CASE reg' = [reg EXCEPT ![p].active = TRUE, ![p].acked = FALSE]
    <2>1. /\ reg'[p] = [reg[p] EXCEPT !.active = TRUE, !.acked = FALSE]
          /\ \A q \in Procs \ {p} : reg'[q] = reg[q]
      BY <1>4, Zenon
    <2>2. /\ [reg[p] EXCEPT !.active = TRUE, !.acked = FALSE].pause = reg[p].pause
          /\ [reg[p] EXCEPT !.active = TRUE, !.acked = FALSE].delete = reg[p].delete
      BY <1>1, <1>2
    <2> QED BY <2>1, <2>2
  <1>5. CASE reg' = [reg EXCEPT ![p].active = FALSE, ![p].acked = TRUE]
    <2>1. /\ reg'[p] = [reg[p] EXCEPT !.active = FALSE, !.acked = TRUE]
          /\ \A q \in Procs \ {p} : reg'[q] = reg[q]
      BY <1>5, Zenon
    <2>2. /\ [reg[p] EXCEPT !.active = FALSE, !.acked = TRUE].pause = reg[p].pause
          /\ [reg[p] EXCEPT !.active = FALSE, !.acked = TRUE].delete = reg[p].delete
      BY <1>1, <1>2
    <2> QED BY <2>1, <2>2
  <1>6. CASE reg' = [reg EXCEPT ![p].pause = FALSE, ![p].delete = FALSE]
    <2>1. /\ reg'[p] = [reg[p] EXCEPT !.pause = FALSE, !.delete = FALSE]
          /\ \A q \in Procs \ {p} : reg'[q] = reg[q]
      BY <1>6, Zenon
    <2>2. ~[reg[p] EXCEPT !.pause = FALSE, !.delete = FALSE].pause
      BY <1>1, <1>2
    <2> QED BY <2>1, <2>2
  <1>7. CASE RequestStop(p, TRUE)
    <2> DEFINE acked == reg[p].acked \/ ~reg[p].active
               delete == reg[p].delete \/ TRUE
    <2>1. acked \in BOOLEAN /\ delete \in BOOLEAN /\ delete
      OBVIOUS
    <2>2. /\ reg'[p] = [reg[p] EXCEPT !.pause = TRUE, !.delete = delete, !.acked = acked]
          /\ \A q \in Procs \ {p} : reg'[q] = reg[q]
      BY <1>7, Zenon DEF RequestStop
    <2> HIDE DEF acked, delete
    <2>3. [reg[p] EXCEPT !.pause = TRUE, !.delete = delete, !.acked = acked].delete = delete
      BY <1>1, <1>2, <2>1
    <2> QED BY <2>1, <2>2, <2>3
  <1> QED BY <1>3, <1>4, <1>5, <1>6, <1>7

-----------------------------------------------------------------------------
(* Steps that neither write objects or rows of tracks nor change the lease.*)

DeletionInv == Calm /\ IntentInv /\ WriterInv /\ DataInv

CalmRegisters == \A q \in Procs : reg'[q].pause => reg'[q].delete
Quietly == /\ RowStep /\ CalmRegisters
           /\ objects' = objects /\ waves' = waves /\ staged' = staged

PauseSteps == {"p_read", "p_update", "p_wait", "p_paused", "p_stopping", "p_status",
               "p_fin1", "p_fin2", "k_failed"}
EarlySteps == {"w_early1", "w_early2", "w_late1", "w_late2"}
Holding == AtWork \cup {"w_release", "w_drop"}

\* A worker's step from its registration to its end, outside a unit of work.
WorkerMove(w) ==
  /\ Quietly
  /\ \A b \in Actors \ {w} : pc'[b] = pc[b]
  /\ \A r \in Reqs : seen'[r] = seen[r]
  /\ \A v \in Workers \ {w} : left'[v] = left[v] /\ why'[v] = why[v]
  /\ why'[w] # "pause"
  /\ owner' = owner /\ valid' = valid /\ intent' = intent
  /\ ~Writing(w)
  /\ pc'[w] \notin EarlySteps
  /\ pc'[w] \in Holding => pc[w] \in Holding
  /\ pc'[w] = "w_fail" => ~row.exists
  /\ pc'[w] \in {"w_upload", "w_write"} =>
       pc'[w] = "w_upload" /\ row.exists /\ row.status \notin DeletePending

\* A request's step that leaves the lease alone and begins no cleanup.
RequestMove(r) ==
  /\ Quietly
  /\ \A b \in Actors \ {r} : pc'[b] = pc[b]
  /\ \A q \in Reqs \ {r} : seen'[q] = seen[q]
  /\ \A v \in Workers : left'[v] = left[v] /\ why'[v] = why[v]
  /\ owner' = owner /\ valid' = valid
  /\ intent # "none" => intent' = intent
  /\ intent' # intent => row'.status \in DeletePending
  /\ pc'[r] \notin PauseSteps
  /\ pc'[r] \in Accepted => intent' # "none"
  /\ pc'[r] = "d_update" => /\ seen'[r].strategy # "none"
                            /\ seen'[r].status \in DeletePending /\ row.exists
                                 => row.status \in DeletePending
  /\ pc'[r] \in Committed => pc[r] \in Committed
  /\ pc'[r] \notin {"c_children", "c_staging", "c_hard"}

LEMMA SameNext ==
  ASSUME NEW w \in Workers, left'[w] = left[w]
  PROVE  NextTrack(w)' = NextTrack(w)
  BY Zenon DEF NextTrack

LEMMA CommittedFacts ==
  ASSUME IntentInv, NEW r \in Reqs, pc[r] \in Committed
  PROVE  row.exists => row.status \in DeletePending
  BY DEF IntentInv, IntentRead, IntentShown, Committed, Accepted

LEMMA WorkerMoveKeeps ==
  ASSUME TypeOK, DeletionInv, NEW w \in Workers, WorkerMove(w)
  PROVE  DeletionInv'
  <1> USE ActorAssumption DEF DeletionInv, WorkerMove, Quietly, Actors
  <1>1. Calm'
    BY DEF Calm, CalmThreads, RowStep, CalmRegisters, EarlySteps
  <1>2. \A r \in Reqs : pc'[r] = pc[r] /\ seen'[r] = seen[r]
    OBVIOUS
  <1>3. IntentInv'
    BY <1>2 DEF IntentInv, IntentShown, IntentRead, RowStep
  <1>4. LeaseOfWorker' /\ FailsWithoutRow'
    BY DEF WriterInv, LeaseOfWorker, FailsWithoutRow, RowStep, Holding
  <1>5. WriterAlone'
    <2> SUFFICES ASSUME NEW v \in Workers, Writing(v)'
                 PROVE  /\ row'.exists /\ row'.status # "deleting"
                        /\ \A r \in Reqs : pc'[r] \notin Committed
      BY DEF WriterAlone
    <2>1. CASE v = w
      <3>1. row.exists /\ row.status \notin DeletePending
        BY <2>1 DEF Writing
      <3>2. \A r \in Reqs : pc[r] \notin Committed
        BY <3>1, CommittedFacts
      <3> QED BY <1>2, <3>1, <3>2 DEF RowStep, Deleting, DeletePending
    <2>2. CASE v # w
      <3>1. Writing(v)
        BY <2>2 DEF Writing
      <3> QED BY <1>2, <3>1 DEF WriterInv, WriterAlone, RowStep, Deleting
    <2> QED BY <2>1, <2>2
  <1>6. ObjectsNamed'
    <2>1. \A v \in Workers : pc[v] = "w_write" => pc'[v] = pc[v] /\ NextTrack(v)' = NextTrack(v)
      BY SameNext DEF Writing
    <2> QED BY <2>1 DEF DataInv, ObjectsNamed
  <1>7. CleanupProgress' /\ DeleteLeavesNothing'
    BY <1>2 DEF DataInv, CleanupProgress, DeleteLeavesNothing, RowStep
  <1> QED BY <1>1, <1>3, <1>4, <1>5, <1>6, <1>7 DEF WriterInv, DataInv

LEMMA RequestMoveKeeps ==
  ASSUME TypeOK, DeletionInv, NEW r \in Reqs, RequestMove(r)
  PROVE  DeletionInv'
  <1> USE ActorAssumption DEF DeletionInv, RequestMove, Quietly, Actors
  <1>1. Calm'
    BY DEF Calm, CalmThreads, RowStep, CalmRegisters, PauseSteps
  <1>2. \A w \in Workers : pc'[w] = pc[w]
    OBVIOUS
  <1>3. IntentInv'
    BY DEF IntentInv, IntentShown, IntentRead, RowStep
  <1>4. LeaseOfWorker' /\ FailsWithoutRow'
    BY DEF WriterInv, LeaseOfWorker, FailsWithoutRow, RowStep
  <1>5. WriterAlone'
    BY <1>2 DEF WriterInv, WriterAlone, Writing, RowStep, Deleting
  <1>6. ObjectsNamed'
    <2>1. \A v \in Workers : pc'[v] = pc[v] /\ NextTrack(v)' = NextTrack(v)
      BY <1>2, SameNext
    <2> QED BY <2>1 DEF DataInv, ObjectsNamed
  <1>7. CleanupProgress' /\ DeleteLeavesNothing'
    BY DEF DataInv, CleanupProgress, DeleteLeavesNothing, RowStep
  <1> QED BY <1>1, <1>3, <1>4, <1>5, <1>6, <1>7 DEF WriterInv, DataInv

-----------------------------------------------------------------------------
(* The workers' steps.                                                     *)

LEMMA ReasonsCalm ==
  ASSUME TypeInv, DeletionInv
  PROVE  /\ \A p \in Procs : LocalReason(p) # "pause"
         /\ row.exists => StopReason # "pause" /\ (StopReason = "none" => row.status \notin Cancellation)
         /\ FinalAnalysis \notin {"pause_requested", "paused"}
  <1> USE DEF DeletionInv, Calm
  <1>1. \A p \in Procs : LocalReason(p) # "pause"
    BY DEF CalmThreads, LocalReason
  <1>2. row.exists => StopReason # "pause" /\ (StopReason = "none" => row.status \notin Cancellation)
    BY DEF CalmRow, StopReason, DeletePending, Cancellation
  <1>3. FinalAnalysis \notin {"pause_requested", "paused"}
    BY DEF FinalAnalysis
  <1> QED BY <1>1, <1>2, <1>3

LEMMA RowKept ==
  ASSUME DeletionInv, row' = row
  PROVE  RowStep
  BY RowStays DEF DeletionInv, Calm

LEMMA RegistersKept ==
  ASSUME DeletionInv, reg' = reg
  PROVE  CalmRegisters
  BY DEF DeletionInv, Calm, CalmThreads, CalmRegisters

\* What a worker's step finds besides what its guard says.
LEMMA WorkerFacts ==
  ASSUME TypeInv, DeletionInv, NEW w \in Workers
  PROVE  /\ w \in Actors /\ w \notin Reqs
         /\ pc \in [Actors -> Labels] /\ seen \in [Actors -> Snapshots]
         /\ left \in [Workers -> SUBSET Tracks] /\ why \in [Workers \cup Reqs -> Reasons]
         /\ home \in [Actors -> Procs] /\ reg \in [Procs -> Registers]
         /\ why[w] # "pause" /\ row \in Rows
  BY ActorAssumption DEF TypeInv, TypeOK, DeletionInv, Calm, CalmThreads, Actors

LEMMA WRegisterMoves ==
  ASSUME Undisturbed, TypeInv, DeletionInv, NEW w \in Workers, WRegister(w)
  PROVE  WorkerMove(w)
  <1>1. CalmRegisters
    <2>1. \/ reg' = reg
          \/ reg' = [reg EXCEPT ![home[w]].active = TRUE, ![home[w]].acked = FALSE]
      BY Zenon DEF WRegister
    <2>2. home[w] \in Procs
      BY WorkerFacts
    <2> QED BY <2>1, <2>2, WorkerFacts, StopsTogether DEF CalmRegisters, DeletionInv, Calm, CalmThreads
  <1>2. /\ pc[w] = "w_register"
        /\ pc' = [pc EXCEPT ![w] = "w_release"] \/ pc' = [pc EXCEPT ![w] = "w_load"]
        /\ UNCHANGED <<row, data, lease, home, seen, worker, intent>>
    BY Zenon DEF WRegister, Goto
  <1> QED BY <1>1, <1>2, WorkerFacts, RowKept
          DEF WorkerMove, Quietly, Writing, EarlySteps, Holding, AtWork, data, lease, worker, Actors

LEMMA WLoadMoves ==
  ASSUME Undisturbed, TypeInv, DeletionInv, NEW w \in Workers, WLoad(w)
  PROVE  WorkerMove(w)
  BY WorkerFacts, RowKept, RegistersKept
     DEF WLoad, Goto, WorkerMove, Quietly, Writing, EarlySteps, Holding, AtWork, data, lease,
         local, worker, Actors

LEMMA WPublishMoves ==
  ASSUME Undisturbed, TypeInv, DeletionInv, NEW w \in Workers, WPublish(w)
  PROVE  WorkerMove(w)
  <1>1. Save(w, row.status, "parsing", "running", FALSE, "w_check", "w_fail")
    BY DEF WPublish
  <1>2. Allowed(row.status) => Gentle(row.status, "parsing", "running")
    BY DEF Allowed, Gentle, Deleting, DeletionInv, Calm, CalmRow
  <1>3. RowStep
    BY <1>1, <1>2, WorkerFacts, SaveStep DEF DeletionInv, Calm
  <1>4. \/ pc' = [pc EXCEPT ![w] = "w_check"]
        \/ ~row.exists /\ pc' = [pc EXCEPT ![w] = "w_fail"]
    BY <1>1, Zenon DEF Save, Goto, Allowed
  <1>5. /\ pc[w] = "w_publish"
        /\ UNCHANGED <<data, lease, local, home, seen, worker, intent>>
    BY DEF WPublish
  <1> QED BY <1>3, <1>4, <1>5, WorkerFacts, RegistersKept
          DEF WorkerMove, Quietly, Writing, EarlySteps, Holding, AtWork, data, lease, local, worker, Actors

LEMMA WCheckMoves ==
  ASSUME Undisturbed, TypeInv, DeletionInv, NEW w \in Workers, WCheck(w)
  PROVE  WorkerMove(w)
  <1>1. /\ pc[w] = "w_check"
        /\ UNCHANGED <<row, data, lease, local, home, seen, left, intent>>
    BY DEF WCheck
  <1>2. \/ /\ why' = [why EXCEPT ![w] = LocalReason(home[w])]
           /\ pc' = [pc EXCEPT ![w] = "w_stop"]
        \/ why' = why /\ pc' = [pc EXCEPT ![w] = "w_lost"]
        \/ /\ row.exists /\ why' = [why EXCEPT ![w] = StopReason]
           /\ pc' = [pc EXCEPT ![w] = "w_stop"]
        \/ /\ row.exists /\ StopReason = "none" /\ why' = why
           /\ pc' = [pc EXCEPT ![w] = "w_final"] \/ pc' = [pc EXCEPT ![w] = "w_upload"]
    BY Zenon DEF WCheck, Goto
  <1>3. why'[w] # "pause" /\ \A v \in Workers \ {w} : why'[v] = why[v]
    BY <1>2, WorkerFacts, ReasonsCalm
  <1>4. pc'[w] = "w_upload" => row.exists /\ row.status \notin DeletePending
    BY <1>1, <1>2, WorkerFacts, ReasonsCalm DEF Cancellation
  <1> QED BY <1>1, <1>2, <1>3, <1>4, WorkerFacts, RowKept, RegistersKept
          DEF WorkerMove, Quietly, Writing, EarlySteps, Holding, AtWork, data, lease, local, Actors

LEMMA WFinalMoves ==
  ASSUME Undisturbed, TypeInv, DeletionInv, NEW w \in Workers, WFinal(w)
  PROVE  WorkerMove(w)
  <1>1. /\ pc[w] = "w_final" /\ pc' = [pc EXCEPT ![w] = "w_assert"]
        /\ why' = [why EXCEPT ![w] = FinalAnalysis]
        /\ UNCHANGED <<data, lease, local, home, seen, left, intent>>
    BY Zenon DEF WFinal, Goto
  <1>2. (row.exists /\ Set(row.status, FinalAnalysis, "completed", TRUE)) \/ row' = row
    BY Zenon DEF WFinal
  <1>3. row.exists => Gentle(row.status, FinalAnalysis, "completed")
    BY ReasonsCalm DEF Gentle, Deleting, DeletionInv, Calm, CalmRow
  <1>4. RowStep
    BY <1>2, <1>3, WorkerFacts, SetStep, RowKept DEF DeletionInv, Calm
  <1>5. why'[w] # "pause" /\ \A v \in Workers \ {w} : why'[v] = why[v]
    BY <1>1, WorkerFacts DEF FinalAnalysis
  <1> QED BY <1>1, <1>4, <1>5, WorkerFacts, RegistersKept
          DEF WorkerMove, Quietly, Writing, EarlySteps, Holding, AtWork, data, lease, local, Actors

LEMMA WStopMoves ==
  ASSUME Undisturbed, TypeInv, DeletionInv, NEW w \in Workers, WStop(w)
  PROVE  WorkerMove(w)
  <1>1. StopsFor(w) # "pause"
    BY WorkerFacts, ReasonsCalm DEF StopsFor
  <1>2. Save(w, row.status, "stopping", "stopped", TRUE, "w_release", "w_drop")
    BY <1>1, Zenon DEF WStop
  <1>3. Allowed(row.status) => Gentle(row.status, "stopping", "stopped")
    BY DEF Allowed, Gentle, Deleting, DeletionInv, Calm, CalmRow
  <1>4. RowStep
    BY <1>2, <1>3, WorkerFacts, SaveStep DEF DeletionInv, Calm
  <1>5. pc' = [pc EXCEPT ![w] = "w_release"] \/ pc' = [pc EXCEPT ![w] = "w_drop"]
    BY <1>2, Zenon DEF Save, Goto
  <1>6. /\ pc[w] \in {"w_stop", "w_cancelled"}
        /\ UNCHANGED <<data, lease, home, seen, worker, intent>>
    BY DEF WStop
  <1>7. CalmRegisters
    <2>1. reg' = [reg EXCEPT ![home[w]].active = FALSE, ![home[w]].acked = TRUE]
      BY Zenon DEF WStop, Acknowledge
    <2> QED BY <2>1, WorkerFacts, StopsTogether DEF CalmRegisters, DeletionInv, Calm, CalmThreads
  <1> QED BY <1>4, <1>5, <1>6, <1>7, WorkerFacts
          DEF WorkerMove, Quietly, Writing, EarlySteps, Holding, AtWork, data, lease, worker, Actors

LEMMA WLostMoves ==
  ASSUME Undisturbed, TypeInv, DeletionInv, NEW w \in Workers, WLost(w)
  PROVE  WorkerMove(w)
  <1>1. /\ pc[w] = "w_lost" /\ pc' = [pc EXCEPT ![w] = "w_release"]
        /\ UNCHANGED <<row, data, lease, home, seen, worker, intent>>
    BY DEF WLost, Goto
  <1>2. CalmRegisters
    <2>1. reg' = [reg EXCEPT ![home[w]].active = FALSE, ![home[w]].acked = TRUE]
      BY Zenon DEF WLost, Acknowledge
    <2> QED BY <2>1, WorkerFacts, StopsTogether DEF CalmRegisters, DeletionInv, Calm, CalmThreads
  <1> QED BY <1>1, <1>2, WorkerFacts, RowKept
          DEF WorkerMove, Quietly, Writing, EarlySteps, Holding, AtWork, data, lease, worker, Actors

LEMMA WFailMoves ==
  ASSUME Undisturbed, TypeInv, DeletionInv, NEW w \in Workers, WFail(w)
  PROVE  WorkerMove(w)
  <1>1. pc[w] = "w_fail" /\ UNCHANGED <<data, lease, home, seen, worker, intent>>
    BY DEF WFail
  <1>2. ~Allowed(FailStatus)
    BY <1>1 DEF Allowed, DeletionInv, WriterInv, FailsWithoutRow
  <1>3. Save(w, FailStatus, "interrupted", "failed", TRUE, "w_release", "w_release")
    BY DEF WFail
  <1>4. row' = row /\ pc' = [pc EXCEPT ![w] = "w_release"]
    BY <1>2, <1>3, Zenon DEF Save, Goto
  <1>5. CalmRegisters
    <2>1. reg' = [reg EXCEPT ![home[w]].active = FALSE, ![home[w]].acked = TRUE]
      BY Zenon DEF WFail, Acknowledge
    <2> QED BY <2>1, WorkerFacts, StopsTogether DEF CalmRegisters, DeletionInv, Calm, CalmThreads
  <1> QED BY <1>1, <1>4, <1>5, WorkerFacts, RowKept
          DEF WorkerMove, Quietly, Writing, EarlySteps, Holding, AtWork, data, lease, worker, Actors

LEMMA WPublishedMoves ==
  ASSUME Undisturbed, TypeInv, DeletionInv, NEW w \in Workers, WPublished(w)
  PROVE  WorkerMove(w)
  <1>1. /\ pc[w] = "w_published"
        /\ UNCHANGED <<data, lease, home, seen, worker, intent>>
    BY DEF WPublished
  <1>2. Save(w, row.status, why[w], "completed", TRUE, "w_release", "w_fail")
    BY DEF WPublished
  <1>3. why[w] \in {"completed", "partial", "failed"}
    BY <1>1 DEF TypeInv, WhyFinal, Finishing
  <1>4. Allowed(row.status) => Gentle(row.status, why[w], "completed")
    BY <1>3 DEF Allowed, Gentle, Deleting, DeletionInv, Calm, CalmRow
  <1>5. RowStep
    BY <1>2, <1>4, WorkerFacts, SaveStep DEF DeletionInv, Calm
  <1>6. \/ pc' = [pc EXCEPT ![w] = "w_release"]
        \/ ~row.exists /\ pc' = [pc EXCEPT ![w] = "w_fail"]
    BY <1>2, Zenon DEF Save, Goto, Allowed
  <1>7. CalmRegisters
    <2>1. \/ reg' = reg
          \/ reg' = [reg EXCEPT ![home[w]].active = FALSE, ![home[w]].acked = TRUE]
      BY Zenon DEF WPublished
    <2> QED BY <2>1, WorkerFacts, StopsTogether DEF CalmRegisters, DeletionInv, Calm, CalmThreads
  <1> QED BY <1>1, <1>5, <1>6, <1>7, WorkerFacts
          DEF WorkerMove, Quietly, Writing, EarlySteps, Holding, AtWork, data, lease, worker, Actors

\* complete_import_job moves a processing import to completed and nothing else.
LEMMA CompleteWrites ==
  ASSUME TypeInv, DeletionInv, NEW a \in Workers \cup Reqs, NEW at, NEW next, NEW conflict,
         NEW cancelled, CompleteWrite(a, at, next, conflict, cancelled)
  PROVE  /\ RowStep
         /\ \/ pc' = [pc EXCEPT ![a] = next] \/ pc' = [pc EXCEPT ![a] = conflict]
            \/ pc' = [pc EXCEPT ![a] = cancelled]
         /\ seen' = [seen EXCEPT ![a] = Nothing]
         /\ UNCHANGED <<data, lease, reg, home, worker, intent>>
  <1>1. \/ /\ StillIn("processing")
           /\ Set("completed", CompletedAnalysis(seen[a].analysis), row.worker, row.ack)
        \/ row' = row
    BY Zenon DEF CompleteWrite
  <1>2. StillIn("processing") =>
          Gentle("completed", CompletedAnalysis(seen[a].analysis), row.worker)
    BY ReasonsCalm DEF StillIn, Gentle, CompletedAnalysis, DeletePending, DeletionInv, Calm, CalmRow
  <1>3. row \in Rows /\ CalmRow
    BY DEF TypeInv, TypeOK, DeletionInv, Calm
  <1>4. RowStep
    BY <1>1, <1>2, <1>3, SetStep, RowKept
  <1>5. \/ pc' = [pc EXCEPT ![a] = next] \/ pc' = [pc EXCEPT ![a] = conflict]
        \/ pc' = [pc EXCEPT ![a] = cancelled]
    BY Zenon DEF CompleteWrite, Goto
  <1>6. seen' = [seen EXCEPT ![a] = Nothing] /\ UNCHANGED <<data, lease, reg, home, worker, intent>>
    BY Zenon DEF CompleteWrite, Remember
  <1> QED BY <1>4, <1>5, <1>6

LEMMA WCompleteMoves ==
  ASSUME Undisturbed, TypeInv, DeletionInv, NEW w \in Workers, WComplete(w)
  PROVE  WorkerMove(w)
  <1> USE DEF WorkerMove, Quietly, Writing, EarlySteps, Holding, AtWork, data, lease, local, worker, Actors
  <1>1. CASE CompleteAssert(w, "w_assert", "w_state", "w_published", "w_cancelled")
    BY <1>1, WorkerFacts, RowKept, RegistersKept DEF CompleteAssert, Goto
  <1>2. CASE CompleteState(w, "w_state", "w_complete", "w_published")
    BY <1>2, WorkerFacts, RowKept, RegistersKept DEF CompleteState, Goto, Leave, Remember
  <1>3. CASE CompleteWrite(w, "w_complete", "w_published", "w_published", "w_cancelled")
    <2>1. pc[w] = "w_complete"
      BY <1>3 DEF CompleteWrite
    <2>2. /\ RowStep
          /\ pc' = [pc EXCEPT ![w] = "w_published"] \/ pc' = [pc EXCEPT ![w] = "w_cancelled"]
          /\ seen' = [seen EXCEPT ![w] = Nothing]
          /\ UNCHANGED <<data, lease, reg, home, worker, intent>>
      BY <1>3, CompleteWrites
    <2> QED BY <2>1, <2>2, WorkerFacts, RegistersKept
  <1> QED BY <1>1, <1>2, <1>3 DEF WComplete

\* The one step that adds an object: its worker will name it.
LEMMA WUploadKeeps ==
  ASSUME Undisturbed, TypeInv, DeletionInv, NEW w \in Workers, WUpload(w)
  PROVE  DeletionInv'
  <1>1. CASE LocalReason(home[w]) # "none"
    <2>1. /\ pc[w] = "w_upload" /\ pc' = [pc EXCEPT ![w] = "w_stop"]
          /\ why' = [why EXCEPT ![w] = LocalReason(home[w])]
          /\ UNCHANGED <<row, data, lease, local, seen, left, intent>>
      BY <1>1, Zenon DEF WUpload, Goto, data
    <2>2. why'[w] # "pause" /\ \A v \in Workers \ {w} : why'[v] = why[v]
      BY <2>1, WorkerFacts, ReasonsCalm
    <2> USE ActorAssumption DEF Actors, data, lease, local
    <2>3. pc'[w] = "w_stop" /\ \A b \in Actors \ {w} : pc'[b] = pc[b]
      BY <2>1, WorkerFacts
    <2>4. Calm'
      BY <2>1, <2>2, <2>3, WorkerFacts DEF DeletionInv, Calm, CalmThreads, CalmRow
    <2>5. IntentInv'
      BY <2>1, <2>3, WorkerFacts DEF DeletionInv, IntentInv, IntentShown, IntentRead
    <2>6. WriterInv'
      BY <2>1, <2>3, WorkerFacts
         DEF DeletionInv, WriterInv, LeaseOfWorker, FailsWithoutRow, WriterAlone, Writing, AtWork
    <2>7. ObjectsNamed'
      <3>1. \A v \in Workers : pc[v] = "w_write" => pc'[v] = pc[v] /\ NextTrack(v)' = NextTrack(v)
        BY <2>1, <2>3, SameNext
      <3> QED BY <2>1, <3>1 DEF DeletionInv, DataInv, ObjectsNamed
    <2>8. CleanupProgress' /\ DeleteLeavesNothing'
      BY <2>1, <2>3, WorkerFacts DEF DeletionInv, DataInv, CleanupProgress, DeleteLeavesNothing
    <2> QED BY <2>4, <2>5, <2>6, <2>7, <2>8 DEF DeletionInv, DataInv
  <1>2. CASE LocalReason(home[w]) = "none"
    <2>1. /\ pc[w] = "w_upload" /\ pc' = [pc EXCEPT ![w] = "w_write"]
          /\ objects' = objects \cup {NextTrack(w)}
          /\ UNCHANGED <<row, waves, staged, lease, local, seen, left, why, intent>>
      BY <1>2, Zenon DEF WUpload, Goto
    <2> USE ActorAssumption DEF Actors, lease, local
    <2>2. pc'[w] = "w_write" /\ \A b \in Actors \ {w} : pc'[b] = pc[b]
      BY <2>1, WorkerFacts
    <2>3. row.exists /\ row.status # "deleting" /\ \A r \in Reqs : pc[r] \notin Committed
      BY <2>1 DEF Writing, DeletionInv, WriterInv, WriterAlone
    <2>4. Calm'
      BY <2>1, <2>2, WorkerFacts DEF DeletionInv, Calm, CalmThreads, CalmRow
    <2>5. IntentInv'
      BY <2>1, <2>2, WorkerFacts DEF DeletionInv, IntentInv, IntentShown, IntentRead
    <2>6. WriterInv'
      BY <2>1, <2>2, WorkerFacts
         DEF DeletionInv, WriterInv, LeaseOfWorker, FailsWithoutRow, WriterAlone, Writing, AtWork
    <2>7. ObjectsNamed'
      <3>1. \A v \in Workers : NextTrack(v)' = NextTrack(v)
        BY <2>1, SameNext
      <3> QED BY <2>1, <2>2, <3>1 DEF DeletionInv, DataInv, ObjectsNamed
    <2>8. CleanupProgress' /\ DeleteLeavesNothing'
      BY <2>1, <2>2, <2>3, WorkerFacts
         DEF DeletionInv, DataInv, CleanupProgress, DeleteLeavesNothing, Committed, CleanupSteps
    <2> QED BY <2>4, <2>5, <2>6, <2>7, <2>8 DEF DeletionInv, DataInv
  <1> QED BY <1>1, <1>2

\* The row that names the object; no write is refused, since nothing is deleted.
LEMMA WWriteKeeps ==
  ASSUME Undisturbed, TypeInv, DeletionInv, NEW w \in Workers, WWrite(w)
  PROVE  DeletionInv'
  <1>1. pc[w] = "w_write"
    BY DEF WWrite
  <1>2. row.exists /\ row.status # "deleting" /\ \A r \in Reqs : pc[r] \notin Committed
    BY <1>1 DEF Writing, DeletionInv, WriterInv, WriterAlone
  <1>3. row.status \notin WriteBarrier
    BY <1>2 DEF WriteBarrier, DeletionInv, Calm, CalmRow, DeletePending
  <1>4. /\ pc' = [pc EXCEPT ![w] = "w_check"]
        /\ waves' = waves \cup {NextTrack(w)}
        /\ left' = [left EXCEPT ![w] = @ \ {NextTrack(w)}]
        /\ UNCHANGED <<row, objects, staged, lease, local, seen, why, intent>>
    BY <1>2, <1>3, Zenon DEF WWrite, Goto, Undisturbed
  <1> USE ActorAssumption DEF Actors, lease, local
  <1>5. /\ pc'[w] = "w_check" /\ \A b \in Actors \ {w} : pc'[b] = pc[b]
        /\ \A v \in Workers \ {w} : left'[v] = left[v]
    BY <1>4, WorkerFacts
  <1>6. Calm'
    BY <1>4, <1>5, WorkerFacts DEF DeletionInv, Calm, CalmThreads, CalmRow
  <1>7. IntentInv'
    BY <1>4, <1>5, WorkerFacts DEF DeletionInv, IntentInv, IntentShown, IntentRead
  <1>8. WriterInv'
    BY <1>1, <1>4, <1>5, WorkerFacts
       DEF DeletionInv, WriterInv, LeaseOfWorker, FailsWithoutRow, WriterAlone, Writing, AtWork
  <1>9. ObjectsNamed'
    <2>1. \A v \in Workers \ {w} : NextTrack(v)' = NextTrack(v)
      BY <1>5, SameNext
    <2> QED BY <1>4, <1>5, <2>1 DEF DeletionInv, DataInv, ObjectsNamed
  <1>10. CleanupProgress' /\ DeleteLeavesNothing'
    BY <1>2, <1>4, <1>5, WorkerFacts
       DEF DeletionInv, DataInv, CleanupProgress, DeleteLeavesNothing, Committed, CleanupSteps
  <1> QED BY <1>6, <1>7, <1>8, <1>9, <1>10 DEF DeletionInv, DataInv

\* A worker gives up its lease only when it has stopped writing.
LEMMA WReleaseKeeps ==
  ASSUME Undisturbed, TypeInv, DeletionInv, NEW w \in Workers, WRelease(w)
  PROVE  DeletionInv'
  <1>1. why[w] # "pause"
    BY WorkerFacts
  <1>2. /\ pc[w] \in {"w_release", "w_drop"}
        /\ pc' = [pc EXCEPT ![w] = "done"]
        /\ left' = [left EXCEPT ![w] = {}]
        /\ UNCHANGED <<row, data, local, seen, why, intent>>
    BY <1>1, Zenon DEF WRelease, Goto
  <1>3. \/ owner = w
        \/ owner # w /\ owner' = owner /\ valid' = valid
    BY Zenon DEF WRelease, Lease!Release, lease, Undisturbed
  <1> USE ActorAssumption DEF Actors, data, local
  <1>4. /\ pc'[w] = "done" /\ \A b \in Actors \ {w} : pc'[b] = pc[b]
        /\ \A v \in Workers \ {w} : left'[v] = left[v]
    BY <1>2, WorkerFacts
  <1>5. Calm'
    BY <1>2, <1>4, WorkerFacts DEF DeletionInv, Calm, CalmThreads, CalmRow
  <1>6. IntentInv'
    BY <1>2, <1>4, WorkerFacts DEF DeletionInv, IntentInv, IntentShown, IntentRead
  <1>7. WriterInv'
    BY <1>2, <1>3, <1>4, WorkerFacts
       DEF DeletionInv, WriterInv, LeaseOfWorker, FailsWithoutRow, WriterAlone, Writing, AtWork
  <1>8. ObjectsNamed'
    <2>1. \A v \in Workers \ {w} : NextTrack(v)' = NextTrack(v)
      BY <1>4, SameNext
    <2> QED BY <1>2, <1>4, <2>1 DEF DeletionInv, DataInv, ObjectsNamed
  <1>9. CleanupProgress' /\ DeleteLeavesNothing'
    BY <1>2, <1>4, WorkerFacts DEF DeletionInv, DataInv, CleanupProgress, DeleteLeavesNothing
  <1> QED BY <1>5, <1>6, <1>7, <1>8, <1>9 DEF DeletionInv, DataInv

LEMMA WorkerKeeps ==
  ASSUME Undisturbed, TypeInv, DeletionInv, NEW w \in Workers, Worker(w)
  PROVE  DeletionInv'
  <1>1. ~WRaise(w)
    BY DEF WRaise, Undisturbed
  <1>2. ~WFinalize(w)
    BY DEF WFinalize, FinalizeRead, FinalizeWrite, DeletionInv, Calm, CalmThreads
  <1>3. CASE WUpload(w)
    BY <1>3, WUploadKeeps
  <1>4. CASE WWrite(w)
    BY <1>4, WWriteKeeps
  <1>5. CASE WRelease(w)
    BY <1>5, WReleaseKeeps
  <1>6. CASE \/ WRegister(w) \/ WLoad(w) \/ WPublish(w) \/ WCheck(w) \/ WFinal(w)
             \/ WComplete(w) \/ WPublished(w) \/ WStop(w) \/ WLost(w) \/ WFail(w)
    <2>1. WorkerMove(w)
      BY <1>6, WRegisterMoves, WLoadMoves, WPublishMoves, WCheckMoves, WFinalMoves,
         WCompleteMoves, WPublishedMoves, WStopMoves, WLostMoves, WFailMoves
    <2> QED BY <2>1, WorkerMoveKeeps DEF TypeInv
  <1> QED BY <1>1, <1>2, <1>3, <1>4, <1>5, <1>6 DEF Worker

-----------------------------------------------------------------------------
(* The requests' steps.                                                    *)

\* What a request's step finds besides what its guard says.
LEMMA RequestFacts ==
  ASSUME TypeInv, DeletionInv, NEW r \in Reqs
  PROVE  /\ r \in Actors /\ r \notin Workers
         /\ pc \in [Actors -> Labels] /\ seen \in [Actors -> Snapshots]
         /\ left \in [Workers -> SUBSET Tracks] /\ why \in [Workers \cup Reqs -> Reasons]
         /\ home \in [Actors -> Procs] /\ reg \in [Procs -> Registers]
         /\ row \in Rows /\ CalmRow
         /\ pc[r] \in Accepted => intent # "none"
  BY ActorAssumption DEF TypeInv, TypeOK, DeletionInv, Calm, IntentInv, IntentRead, Actors

LEMMA ArriveMoves ==
  ASSUME Undisturbed, TypeInv, DeletionInv, NEW r \in Reqs, Arrive(r)
  PROVE  RequestMove(r)
  <1>1. PICK first \in {"r_read", "k_read", "d_read"} : pc' = [pc EXCEPT ![r] = first]
    BY DEF Arrive, Begin, Goto, Undisturbed
  <1>2. UNCHANGED <<row, data, lease, local, seen, worker, intent>>
    BY DEF Arrive, Begin
  <1> QED BY <1>1, <1>2, RequestFacts, RowKept, RegistersKept
          DEF RequestMove, Quietly, PauseSteps, Accepted, Committed, CleanupSteps,
              data, lease, local, worker, Actors

LEMMA ResumeReadMoves ==
  ASSUME Undisturbed, TypeInv, DeletionInv, NEW r \in Reqs, ResumeRead(r)
  PROVE  RequestMove(r)
  BY RequestFacts, RowKept, RegistersKept
     DEF ResumeRead, Goto, RequestMove, Quietly, PauseSteps, Accepted, Committed, CleanupSteps,
         data, lease, local, worker, Actors

LEMMA ResumeLeaseMoves ==
  ASSUME Undisturbed, TypeInv, DeletionInv, NEW r \in Reqs, ResumeLease(r)
  PROVE  RequestMove(r)
  <1>1. CalmRegisters
    <2>1. \/ reg' = reg
          \/ reg' = [reg EXCEPT ![home[r]].pause = FALSE, ![home[r]].delete = FALSE]
      BY Zenon DEF ResumeLease
    <2> QED BY <2>1, RequestFacts, StopsTogether DEF CalmRegisters, DeletionInv, Calm, CalmThreads
  <1>2. /\ pc' = [pc EXCEPT ![r] = "r_update"] \/ pc' = [pc EXCEPT ![r] = "done"]
        /\ UNCHANGED <<row, data, lease, seen, worker, intent>>
    BY Zenon DEF ResumeLease, Goto
  <1> QED BY <1>1, <1>2, RequestFacts, RowKept
          DEF RequestMove, Quietly, PauseSteps, Accepted, Committed, CleanupSteps,
              data, lease, worker, Actors

\* Only a job that is not being deleted goes back to processing.
LEMMA ResumeUpdateMoves ==
  ASSUME Undisturbed, TypeInv, DeletionInv, NEW r \in Reqs, ResumeUpdate(r)
  PROVE  RequestMove(r)
  <1>1. /\ pc' = [pc EXCEPT ![r] = "k_read"] \/ pc' = [pc EXCEPT ![r] = "done"]
        /\ UNCHANGED <<data, lease, local, seen, worker, intent>>
    BY Zenon DEF ResumeUpdate, Goto
  <1>2. \/ Allowed("processing") /\ Set("processing", "queued", "queued", FALSE)
        \/ row' = row
    BY Zenon DEF ResumeUpdate
  <1>3. Allowed("processing") => Gentle("processing", "queued", "queued")
    BY RequestFacts DEF Allowed, Successors, Gentle, CalmRow, DeletePending
  <1>4. RowStep
    BY <1>2, <1>3, RequestFacts, SetStep, RowKept
  <1> QED BY <1>1, <1>4, RequestFacts, RegistersKept
          DEF RequestMove, Quietly, PauseSteps, Accepted, Committed, CleanupSteps,
              data, lease, local, worker, Actors

LEMMA CompleteReadMoves ==
  ASSUME Undisturbed, TypeInv, DeletionInv, NEW r \in Reqs, CompleteRead(r)
  PROVE  RequestMove(r)
  <1>1. PICK next \in {"done", "k_final", "k_queue"} : pc' = [pc EXCEPT ![r] = next]
    BY DEF CompleteRead, Goto, Leave
  <1>2. \A q \in Reqs \ {r} : seen'[q] = seen[q]
    BY RequestFacts DEF CompleteRead, Leave, Remember, Actors
  <1>3. UNCHANGED <<row, data, lease, local, worker, intent>>
    BY DEF CompleteRead
  <1> QED BY <1>1, <1>2, <1>3, RequestFacts, RowKept, RegistersKept
          DEF RequestMove, Quietly, PauseSteps, Accepted, Committed, CleanupSteps,
              data, lease, local, worker, Actors

LEMMA CompleteFinalMoves ==
  ASSUME Undisturbed, TypeInv, DeletionInv, NEW r \in Reqs, CompleteFinal(r)
  PROVE  RequestMove(r)
  <1>1. /\ pc' = [pc EXCEPT ![r] = "k_assert"] \/ pc' = [pc EXCEPT ![r] = "done"]
        /\ seen' = [seen EXCEPT ![r] = Nothing]
        /\ UNCHANGED <<data, lease, local, worker, intent>>
    BY Zenon DEF CompleteFinal, Goto, Leave, Remember
  <1>2. (row.exists /\ Set(row.status, FinalAnalysis, "completed", TRUE)) \/ row' = row
    BY Zenon DEF CompleteFinal
  <1>3. row.exists => Gentle(row.status, FinalAnalysis, "completed")
    BY RequestFacts, ReasonsCalm DEF Gentle, Deleting, CalmRow
  <1>4. RowStep
    BY <1>2, <1>3, RequestFacts, SetStep, RowKept
  <1> QED BY <1>1, <1>4, RequestFacts, RegistersKept
          DEF RequestMove, Quietly, PauseSteps, Accepted, Committed, CleanupSteps,
              data, lease, local, worker, Actors

LEMMA CompleteQueueMoves ==
  ASSUME Undisturbed, TypeInv, DeletionInv, NEW r \in Reqs, CompleteQueue(r)
  PROVE  RequestMove(r)
  <1>1. /\ pc' = [pc EXCEPT ![r] = "k_start"]
        /\ seen' = [seen EXCEPT ![r] = Nothing]
        /\ UNCHANGED <<data, lease, local, worker, intent>>
    BY Zenon DEF CompleteQueue, Goto, Leave, Remember
  <1>2. (row.exists /\ Set(row.status, "queued", "queued", FALSE)) \/ row' = row
    BY Zenon DEF CompleteQueue
  <1>3. row.exists => Gentle(row.status, "queued", "queued")
    BY RequestFacts DEF Gentle, Deleting, CalmRow
  <1>4. RowStep
    BY <1>2, <1>3, RequestFacts, SetStep, RowKept
  <1> QED BY <1>1, <1>4, RequestFacts, RegistersKept
          DEF RequestMove, Quietly, PauseSteps, Accepted, Committed, CleanupSteps,
              data, lease, local, worker, Actors

LEMMA CompleteJobMoves ==
  ASSUME Undisturbed, TypeInv, DeletionInv, NEW r \in Reqs,
         \/ CompleteAssert(r, "k_assert", "k_state", "done", "done")
         \/ CompleteState(r, "k_state", "k_complete", "done")
         \/ CompleteWrite(r, "k_complete", "done", "done", "done")
  PROVE  RequestMove(r)
  <1> USE DEF RequestMove, Quietly, PauseSteps, Accepted, Committed, CleanupSteps,
              data, lease, local, worker, Actors
  <1>1. CASE CompleteAssert(r, "k_assert", "k_state", "done", "done")
    BY <1>1, RequestFacts, RowKept, RegistersKept DEF CompleteAssert, Goto
  <1>2. CASE CompleteState(r, "k_state", "k_complete", "done")
    BY <1>2, RequestFacts, RowKept, RegistersKept DEF CompleteState, Goto, Leave, Remember
  <1>3. CASE CompleteWrite(r, "k_complete", "done", "done", "done")
    <2>1. /\ RowStep /\ pc' = [pc EXCEPT ![r] = "done"]
          /\ seen' = [seen EXCEPT ![r] = Nothing]
          /\ UNCHANGED <<data, lease, reg, home, worker, intent>>
      BY <1>3, CompleteWrites
    <2> QED BY <2>1, RequestFacts, RegistersKept
  <1> QED BY <1>1, <1>2, <1>3

\* A claim finds no unexpired lease, so no worker of the import is at work.
LEMMA CompleteStartKeeps ==
  ASSUME Undisturbed, TypeInv, DeletionInv, NEW r \in Reqs, CompleteStart(r)
  PROVE  DeletionInv'
  <1>1. UNCHANGED <<row, data, local, seen, worker, intent>>
    BY DEF CompleteStart
  <1>2. CASE StartWorker(r, "done")
    <2>1. PICK w \in Workers :
            /\ pc[w] = "unused"
            /\ pc' = [pc EXCEPT ![w] = "w_register", ![r] = "done"]
            /\ Lease!Claim(w) /\ row.exists
      BY <1>2 DEF StartWorker
    <2>2. ~Lease!LeaseActive /\ owner' = w /\ valid' = TRUE
      BY <2>1 DEF Lease!Claim
    <2> USE ActorAssumption DEF Actors, data, local, worker
    <2>3. pc'[w] = "w_register" /\ pc'[r] = "done" /\ \A b \in Actors \ {w, r} : pc'[b] = pc[b]
      BY <2>1, RequestFacts
    <2>4. \A v \in Workers : pc[v] \notin AtWork \cup {"w_release", "w_drop"}
      BY <2>1, <2>2 DEF Lease!LeaseActive, DeletionInv, WriterInv, LeaseOfWorker
    <2>5. Calm'
      BY <1>1, <2>3, RequestFacts DEF DeletionInv, Calm, CalmThreads, CalmRow
    <2>6. IntentInv'
      BY <1>1, <2>3, RequestFacts DEF DeletionInv, IntentInv, IntentShown, IntentRead, Accepted, CleanupSteps
    <2>7. WriterInv'
      BY <1>1, <2>2, <2>3, <2>4, RequestFacts
         DEF DeletionInv, WriterInv, LeaseOfWorker, FailsWithoutRow, WriterAlone, Writing, AtWork
    <2>8. ObjectsNamed'
      <3>1. \A v \in Workers : NextTrack(v)' = NextTrack(v)
        BY <1>1, SameNext
      <3> QED BY <1>1, <2>3, <2>4, <3>1 DEF DeletionInv, DataInv, ObjectsNamed, AtWork
    <2>9. CleanupProgress' /\ DeleteLeavesNothing'
      BY <1>1, <2>3, RequestFacts DEF DeletionInv, DataInv, CleanupProgress, DeleteLeavesNothing
    <2> QED BY <2>5, <2>6, <2>7, <2>8, <2>9 DEF DeletionInv, DataInv
  <1>3. CASE StartRefused(r, "done")
    <2>1. RequestMove(r)
      BY <1>1, <1>3, RequestFacts, RowKept, RegistersKept
         DEF StartRefused, Goto, RequestMove, Quietly, PauseSteps, Accepted, Committed,
             CleanupSteps, data, lease, local, worker, Actors
    <2> QED BY <2>1, RequestMoveKeeps DEF TypeInv
  <1>4. ~Faults
    BY DEF Undisturbed
  <1> QED BY <1>2, <1>3, <1>4 DEF CompleteStart

LEMMA ReadFields ==
  ASSUME NEW x \in Snapshots, NEW s, NEW k
  PROVE  /\ [x EXCEPT !.strategy = s, !.ack = k].strategy = s
         /\ [x EXCEPT !.strategy = s, !.ack = k].status = x.status
  BY Zenon DEF Snapshots

LEMMA DeleteReadMoves ==
  ASSUME Undisturbed, TypeInv, DeletionInv, NEW r \in Reqs, DeleteRead(r)
  PROVE  RequestMove(r)
  <1>1. UNCHANGED <<row, data, lease, worker, intent>>
    BY DEF DeleteRead
  <1>2. CASE Leave(r, "done") /\ UNCHANGED local
    BY <1>1, <1>2, RequestFacts, RowKept, RegistersKept
       DEF Leave, Goto, Remember, RequestMove, Quietly, PauseSteps, Accepted, Committed,
           CleanupSteps, data, lease, local, worker, Actors
  <1>3. CASE /\ row.exists /\ RequestStop(home[r], TRUE)
             /\ Remember(r, [Snapshot EXCEPT !.strategy = EffectiveStrategy(r),
                                             !.ack = reg'[home[r]].acked])
             /\ Goto(r, "d_update")
    <2>1. CalmRegisters
      BY <1>3, RequestFacts, StopsTogether DEF CalmRegisters, DeletionInv, Calm, CalmThreads
    <2>2. pc' = [pc EXCEPT ![r] = "d_update"]
      BY <1>3 DEF Goto
    <2>3. EffectiveStrategy(r) # "none"
      BY DEF EffectiveStrategy, OwnStrategy
    <2>4. Snapshot \in Snapshots /\ Snapshot.status = row.status
      BY SnapshotTyped DEF Snapshot, TypeInv, TypeOK
    <2>5. seen' = [seen EXCEPT ![r] = [Snapshot EXCEPT !.strategy = EffectiveStrategy(r),
                                                       !.ack = reg'[home[r]].acked]]
      BY <1>3, Zenon DEF Remember
    <2>6. /\ seen'[r].strategy = EffectiveStrategy(r) /\ seen'[r].status = row.status
          /\ \A q \in Reqs \ {r} : seen'[q] = seen[q]
      BY <2>4, <2>5, RequestFacts, ReadFields DEF Actors
    <2> QED BY <1>1, <2>1, <2>2, <2>3, <2>6, RequestFacts, RowKept
            DEF RequestMove, Quietly, PauseSteps, Accepted, Committed, CleanupSteps,
                data, lease, worker, Actors
  <1> QED BY <1>2, <1>3, Zenon DEF DeleteRead

\* The delete is accepted: the row and the intent change together.
LEMMA DeleteUpdateMoves ==
  ASSUME Undisturbed, TypeInv, DeletionInv, NEW r \in Reqs, DeleteUpdate(r)
  PROVE  RequestMove(r)
  <1>1. pc[r] = "d_update" /\ UNCHANGED <<data, lease, local, home, seen, worker>>
    BY DEF DeleteUpdate
  <1>2. CASE row' = row /\ intent' = intent /\ pc' = [pc EXCEPT ![r] = "done"]
    BY <1>1, <1>2, RequestFacts, RowKept, RegistersKept
       DEF RequestMove, Quietly, PauseSteps, Accepted, Committed, CleanupSteps,
           data, lease, local, worker, Actors
  <1>3. CASE /\ Allowed(AcceptStatus(r))
             /\ row' = [row EXCEPT !.status = AcceptStatus(r), !.analysis = "stopping",
                                   !.worker = "cancel_requested", !.ack = seen[r].ack,
                                   !.strategy = seen[r].strategy]
             /\ intent' = IF intent = "none" THEN seen[r].strategy ELSE intent
             /\ pc' = [pc EXCEPT ![r] = "d_wait"]
    <2>1. /\ row'.exists = row.exists /\ row'.status = AcceptStatus(r)
          /\ row'.analysis = "stopping" /\ row'.worker = "cancel_requested"
      BY <1>3, RequestFacts, Zenon DEF Rows
    <2>2. row.exists
      BY <1>3 DEF Allowed
    <2>3. seen[r].strategy # "none" /\ (seen[r].status \in DeletePending => row.status \in DeletePending)
      BY <1>1, <2>2 DEF DeletionInv, IntentInv, IntentRead
    <2>4. AcceptStatus(r) \in DeletePending /\ (AcceptStatus(r) = "deleting" => row.status = "deleting")
      BY <2>3 DEF AcceptStatus, DeletePending
    <2>5. RowStep
      BY <2>1, <2>4 DEF RowStep, CalmRow, Deleting, DeletePending
    <2>6. intent' # "none"
      BY <1>3, <2>3
    <2> QED BY <1>1, <1>3, <2>1, <2>4, <2>5, <2>6, RequestFacts, RegistersKept
            DEF RequestMove, Quietly, PauseSteps, Accepted, Committed, CleanupSteps,
                data, lease, local, worker, Actors
  <1> QED BY <1>2, <1>3, Zenon DEF DeleteUpdate, Goto

LEMMA DeleteTimedOutMoves ==
  ASSUME Undisturbed, TypeInv, DeletionInv, NEW r \in Reqs, DeleteTimedOut(r)
  PROVE  RequestMove(r)
  <1> DEFINE s == IF seen[r].status \in DeletePending \ {"cancel_requested"}
                  THEN row.status ELSE "stopping"
             next == IF FinalizerRuns(home[r]) THEN "done" ELSE "f_wait"
  <1>1. /\ pc[r] = "d_timeout" /\ why' = [why EXCEPT ![r] = "finalizer"]
        /\ UNCHANGED <<data, lease, local, home, seen, left, intent>>
    BY DEF DeleteTimedOut
  <1>2. Save(r, s, "stopping", "stopping", FALSE, next, "done")
    BY DEF DeleteTimedOut
  <1>3. Allowed(s) => Gentle(s, "stopping", "stopping")
    BY RequestFacts DEF Allowed, Gentle, Deleting, CalmRow, DeletePending
  <1>4. next \in {"done", "f_wait"}
    OBVIOUS
  <1> HIDE DEF s, next
  <1>5. RowStep
    BY <1>2, <1>3, RequestFacts, SaveStep
  <1>6. pc' = [pc EXCEPT ![r] = next] \/ pc' = [pc EXCEPT ![r] = "done"]
    BY <1>2, Zenon DEF Save, Goto
  <1>7. intent # "none"
    BY <1>1, RequestFacts DEF Accepted
  <1> QED BY <1>1, <1>4, <1>5, <1>6, <1>7, RequestFacts, RegistersKept
          DEF RequestMove, Quietly, PauseSteps, Accepted, Committed, CleanupSteps,
              data, lease, local, Actors

LEMMA FinalizerMoves ==
  ASSUME Undisturbed, TypeInv, DeletionInv, NEW r \in Reqs,
         \/ WaitEnds(r, "d_wait", "c_check", "d_timeout")
         \/ FinalizerWait(r) \/ FinalizerRead(r)
  PROVE  RequestMove(r)
  <1> USE DEF RequestMove, Quietly, PauseSteps, Accepted, Committed, CleanupSteps,
              data, lease, local, worker, Actors
  <1>1. CASE WaitEnds(r, "d_wait", "c_check", "d_timeout")
    <2>1. /\ pc[r] = "d_wait"
          /\ pc' = [pc EXCEPT ![r] = "c_check"] \/ pc' = [pc EXCEPT ![r] = "d_timeout"]
          /\ UNCHANGED <<row, data, lease, local, seen, worker, intent>>
      BY <1>1, Zenon DEF WaitEnds, Goto
    <2> QED BY <2>1, RequestFacts, RowKept, RegistersKept
  <1>2. CASE FinalizerWait(r)
    <2>1. /\ pc[r] = "f_wait"
          /\ pc' = [pc EXCEPT ![r] = "f_read"] \/ pc' = [pc EXCEPT ![r] = "done"]
          /\ UNCHANGED <<row, data, lease, local, seen, worker, intent>>
      BY <1>2, Zenon DEF FinalizerWait, Goto
    <2> QED BY <2>1, RequestFacts, RowKept, RegistersKept
  <1>3. CASE FinalizerRead(r)
    <2>1. /\ pc[r] = "f_read"
          /\ pc' = [pc EXCEPT ![r] = "c_check"] \/ pc' = [pc EXCEPT ![r] = "done"]
          /\ UNCHANGED <<row, data, lease, local, worker, intent>>
      BY <1>3, Zenon DEF FinalizerRead, Goto, Leave
    <2>2. \A q \in Reqs \ {r} : seen'[q] = seen[q]
      BY <1>3, RequestFacts DEF FinalizerRead, Leave, Remember
    <2> QED BY <2>1, <2>2, RequestFacts, RowKept, RegistersKept
  <1> QED BY <1>1, <1>2, <1>3

LEMMA RequestKeeps ==
  ASSUME Undisturbed, TypeInv, DeletionInv, NEW r \in Reqs, Arrive(r) \/ Resume(r) \/ Delete(r)
  PROVE  DeletionInv'
  <1>1. ~CompleteFailed(r)
    BY DEF CompleteFailed, DeletionInv, Calm, CalmThreads
  <1>2. CASE CompleteStart(r)
    BY <1>2, CompleteStartKeeps
  <1>3. CASE ~CompleteStart(r)
    <2>1. RequestMove(r)
      BY <1>1, <1>3, ArriveMoves, ResumeReadMoves, ResumeLeaseMoves, ResumeUpdateMoves,
         CompleteReadMoves, CompleteFinalMoves, CompleteQueueMoves, CompleteJobMoves,
         DeleteReadMoves, DeleteUpdateMoves, DeleteTimedOutMoves, FinalizerMoves
         DEF Resume, Complete, Delete
    <2> QED BY <2>1, RequestMoveKeeps DEF TypeInv
  <1> QED BY <1>2, <1>3

-----------------------------------------------------------------------------
(* The cleanup.                                                            *)

LEMMA CleanupMarksMove ==
  ASSUME Undisturbed, TypeInv, DeletionInv, NEW r \in Reqs,
         CleanupBack(r) \/ CleanupBegin(r) \/ CleanupMark(r) \/ CleanupFailed(r)
  PROVE  RequestMove(r)
  <1>1. UNCHANGED <<data, lease, local, seen, worker, intent>> /\ pc[r] \in Accepted
    BY DEF CleanupBack, CleanupBegin, CleanupMark, CleanupFailed, Accepted, CleanupSteps
  <1>2. intent # "none"
    BY <1>1, RequestFacts
  <1>3. /\ RowStep
        /\ \/ pc' = [pc EXCEPT ![r] = "done"]
           \/ pc[r] = "c_begin" /\ pc' = [pc EXCEPT ![r] = "c_mark"]
           \/ pc[r] = "c_mark" /\ pc' = [pc EXCEPT ![r] = "c_recheck"]
    <2>1. CASE CleanupBack(r)
      <3>1. Save(r, "stopping", "stopping", "stopping", FALSE, "done", "done")
        BY <2>1 DEF CleanupBack
      <3>2. Allowed("stopping") => Gentle("stopping", "stopping", "stopping")
        BY DEF Gentle, DeletePending
      <3>3. RowStep
        BY <3>1, <3>2, RequestFacts, SaveStep
      <3> QED BY <3>1, <3>3, Zenon DEF Save, Goto
    <2>2. CASE CleanupBegin(r)
      <3>1. /\ pc[r] = "c_begin"
            /\ Save(r, "deleting", row.analysis, row.worker, row.ack, "c_mark", "done")
        BY <2>2 DEF CleanupBegin, Undisturbed
      <3>2. Allowed("deleting") => Gentle("deleting", row.analysis, row.worker)
        BY <3>1, RequestFacts
           DEF Gentle, DeletePending, Deleting, Committed, CleanupSteps, Allowed, CalmRow
      <3>3. RowStep
        BY <3>1, <3>2, RequestFacts, SaveStep
      <3> QED BY <3>1, <3>3, Zenon DEF Save, Goto
    <2>3. CASE CleanupMark(r)
      <3>1. /\ pc[r] = "c_mark"
            /\ Save(r, row.status, "stopping", "deleting", row.ack, "c_recheck", "done")
        BY <2>3 DEF CleanupMark
      <3>2. Allowed(row.status) => Gentle(row.status, "stopping", "deleting")
        BY RequestFacts DEF Gentle, Deleting, Allowed, CalmRow
      <3>3. RowStep
        BY <3>1, <3>2, RequestFacts, SaveStep
      <3> QED BY <3>1, <3>3, Zenon DEF Save, Goto
    <2>4. CASE CleanupFailed(r)
      <3>1. /\ pc[r] = "c_fail"
            /\ Save(r, "deleting", "stopping", "deleting", row.ack, "done", "done")
        BY <2>4 DEF CleanupFailed
      <3>2. Allowed("deleting") => Gentle("deleting", "stopping", "deleting")
        BY <3>1 DEF Gentle, DeletePending, Deleting, Committed, CleanupSteps
      <3>3. RowStep
        BY <3>1, <3>2, RequestFacts, SaveStep
      <3> QED BY <3>1, <3>3, Zenon DEF Save, Goto
    <2> QED BY <2>1, <2>2, <2>3, <2>4
  <1> QED BY <1>1, <1>2, <1>3, RequestFacts, RegistersKept
          DEF RequestMove, Quietly, PauseSteps, Accepted, Committed, CleanupSteps,
              data, lease, local, worker, Actors

LEMMA CleanupRecheckMoves ==
  ASSUME Undisturbed, TypeInv, DeletionInv, NEW r \in Reqs, CleanupRecheck(r)
  PROVE  RequestMove(r)
  <1>1. /\ pc[r] = "c_recheck"
        /\ \/ pc' = [pc EXCEPT ![r] = "done"] \/ pc' = [pc EXCEPT ![r] = "c_storage"]
           \/ pc' = [pc EXCEPT ![r] = "c_fail"]
        /\ UNCHANGED <<row, data, lease, local, seen, worker, intent>>
    BY Zenon DEF CleanupRecheck, Goto
  <1> QED BY <1>1, RequestFacts, RowKept, RegistersKept
          DEF RequestMove, Quietly, PauseSteps, Accepted, Committed, CleanupSteps,
              data, lease, local, worker, Actors

\* A cleanup begins when the lease is free, which it is only without a worker.
LEMMA CleanupCheckKeeps ==
  ASSUME Undisturbed, TypeInv, DeletionInv, NEW r \in Reqs, CleanupCheck(r)
  PROVE  DeletionInv'
  <1>1. pc[r] = "c_check" /\ UNCHANGED <<row, data, lease, local, seen, worker, intent>>
    BY DEF CleanupCheck
  <1>2. \/ pc' = [pc EXCEPT ![r] = "done"] \/ pc' = [pc EXCEPT ![r] = "c_back"]
        \/ /\ pc' = [pc EXCEPT ![r] = "c_begin"]
           /\ row.exists /\ ~Lease!LeaseActive
    BY Zenon DEF CleanupCheck, Goto, Inactive
  <1> USE ActorAssumption DEF Actors, data, lease, local, worker
  <1>3. /\ pc'[r] \in {"done", "c_back", "c_begin"} /\ \A b \in Actors \ {r} : pc'[b] = pc[b]
        /\ pc'[r] = "c_begin" => row.exists /\ ~Lease!LeaseActive
    BY <1>2, RequestFacts
  <1>4. pc'[r] = "c_begin" => \A w \in Workers : ~Writing(w)
    BY <1>3 DEF Lease!LeaseActive, DeletionInv, WriterInv, LeaseOfWorker, Writing, AtWork
  <1>5. Calm'
    BY <1>1, <1>3, RequestFacts DEF DeletionInv, Calm, CalmThreads, CalmRow
  <1>6. IntentInv'
    BY <1>1, <1>3, RequestFacts DEF DeletionInv, IntentInv, IntentShown, IntentRead, Accepted, CleanupSteps
  <1>7. WriterInv'
    BY <1>1, <1>3, <1>4, RequestFacts
       DEF DeletionInv, WriterInv, LeaseOfWorker, FailsWithoutRow, WriterAlone, Writing, AtWork,
           Committed, CleanupSteps
  <1>8. ObjectsNamed'
    <2>1. \A v \in Workers : NextTrack(v)' = NextTrack(v)
      BY <1>1, SameNext
    <2> QED BY <1>1, <1>3, <2>1 DEF DeletionInv, DataInv, ObjectsNamed
  <1>9. CleanupProgress' /\ DeleteLeavesNothing'
    BY <1>1, <1>3, RequestFacts DEF DeletionInv, DataInv, CleanupProgress, DeleteLeavesNothing
  <1> QED BY <1>5, <1>6, <1>7, <1>8, <1>9 DEF DeletionInv, DataInv

\* Every object is named by a row, so all of them go; then the rows, then the files.
LEMMA CleanupDataKeeps ==
  ASSUME Undisturbed, TypeInv, DeletionInv, NEW r \in Reqs,
         CleanupStorage(r) \/ CleanupChildren(r) \/ CleanupStaging(r)
  PROVE  DeletionInv'
  <1>1. /\ pc[r] \in Committed
        /\ UNCHANGED <<row, lease, local, seen, worker, intent>>
        /\ \/ /\ pc[r] = "c_storage" /\ pc' = [pc EXCEPT ![r] = "c_children"]
              /\ objects' = objects \ waves /\ waves' = waves /\ staged' = staged
           \/ /\ pc[r] = "c_children" /\ pc' = [pc EXCEPT ![r] = "c_staging"]
              /\ objects' = objects /\ waves' = {} /\ staged' = staged
           \/ /\ pc[r] = "c_staging" /\ pc' = [pc EXCEPT ![r] = "c_hard"]
              /\ objects' = objects /\ waves' = waves /\ staged' = FALSE
    <2>1. CASE CleanupStorage(r)
      BY <2>1 DEF CleanupStorage, Goto, Undisturbed, Committed, CleanupSteps
    <2>2. CASE CleanupChildren(r)
      BY <2>2 DEF CleanupChildren, Goto, Undisturbed, Committed, CleanupSteps
    <2>3. CASE CleanupStaging(r)
      BY <2>3 DEF CleanupStaging, Goto, Undisturbed, Committed, CleanupSteps
    <2> QED BY <2>1, <2>2, <2>3
  <1> USE ActorAssumption DEF Actors, lease, local, worker
  <1>2. /\ pc'[r] \in {"c_children", "c_staging", "c_hard"}
        /\ \A b \in Actors \ {r} : pc'[b] = pc[b]
    BY <1>1, RequestFacts
  <1>3. \A w \in Workers : ~Writing(w)
    BY <1>1 DEF DeletionInv, WriterInv, WriterAlone
  <1>4. Calm'
    BY <1>1, <1>2, RequestFacts DEF DeletionInv, Calm, CalmThreads, CalmRow
  <1>5. IntentInv'
    BY <1>1, <1>2, RequestFacts
       DEF DeletionInv, IntentInv, IntentShown, IntentRead, Accepted, CleanupSteps, Committed
  <1>6. WriterInv'
    BY <1>1, <1>2, <1>3, RequestFacts
       DEF DeletionInv, WriterInv, LeaseOfWorker, FailsWithoutRow, WriterAlone, Writing, AtWork
  <1>7. objects \subseteq waves
    BY <1>3 DEF DeletionInv, DataInv, ObjectsNamed, Writing
  <1>8. pc[r] \in {"c_children", "c_staging"} => objects = {}
    BY DEF DeletionInv, DataInv, CleanupProgress
  <1>9. objects' = {}
    BY <1>1, <1>7, <1>8
  <1>10. ObjectsNamed'
    BY <1>9 DEF ObjectsNamed
  <1>11. CleanupProgress'
    BY <1>1, <1>2, <1>9, RequestFacts DEF DeletionInv, DataInv, CleanupProgress
  <1>12. DeleteLeavesNothing'
    BY <1>1, <1>9 DEF DeletionInv, DataInv, DeleteLeavesNothing
  <1> QED BY <1>4, <1>5, <1>6, <1>10, <1>11, <1>12 DEF DeletionInv, DataInv

\* The row goes last, when nothing else is left.
LEMMA HardDeleteKeeps ==
  ASSUME Undisturbed, TypeInv, DeletionInv, NEW r \in Reqs, HardDelete(r)
  PROVE  DeletionInv'
  <1>1. CASE /\ row.exists
             /\ row' = [row EXCEPT !.exists = FALSE]
             /\ owner' = NoOwner /\ valid' = FALSE
             /\ waves' = {} /\ done' = {}
             /\ Leave(r, "done")
    <2>1. pc[r] = "c_hard" /\ UNCHANGED <<objects, staged, local, worker, intent>>
      BY DEF HardDelete
    <2>2. ~row'.exists
      BY <1>1, RequestFacts, Zenon DEF Rows
    <2>3. /\ pc' = [pc EXCEPT ![r] = "done"]
          /\ seen' = [seen EXCEPT ![r] = Nothing]
      BY <1>1 DEF Leave, Goto, Remember
    <2>4. objects = {} /\ ~staged
      BY <2>1 DEF DeletionInv, DataInv, CleanupProgress
    <2>5. \A w \in Workers : ~Writing(w)
      BY <2>1 DEF DeletionInv, WriterInv, WriterAlone, Committed, CleanupSteps
    <2>6. waves' = {}
      BY <1>1
    <2> HIDE <1>1
    <2> USE ActorAssumption DEF Actors, local, worker
    <2>7. /\ pc'[r] = "done" /\ \A b \in Actors \ {r} : pc'[b] = pc[b] /\ seen'[b] = seen[b]
      BY <2>3, RequestFacts
    <2>8. Calm'
      BY <2>1, <2>2, <2>7, RequestFacts DEF DeletionInv, Calm, CalmThreads, CalmRow
    <2>9. IntentInv'
      BY <2>1, <2>2, <2>7, RequestFacts
         DEF DeletionInv, IntentInv, IntentShown, IntentRead, Accepted, CleanupSteps
    <2>10. WriterInv'
      BY <2>2, <2>5, <2>7, RequestFacts
         DEF WriterInv, LeaseOfWorker, FailsWithoutRow, WriterAlone, Writing
    <2>11. DataInv'
      BY <2>1, <2>4, <2>6, <2>7, RequestFacts
         DEF DeletionInv, DataInv, ObjectsNamed, CleanupProgress, DeleteLeavesNothing
    <2> QED BY <2>8, <2>9, <2>10, <2>11 DEF DeletionInv
  <1>2. CASE /\ pc' = [pc EXCEPT ![r] = "c_fail"]
             /\ UNCHANGED <<row, waves, done, lease, seen>>
    <2>1. pc[r] = "c_hard" /\ UNCHANGED <<objects, staged, local, worker, intent>>
      BY DEF HardDelete
    <2>2. RequestMove(r)
      BY <1>2, <2>1, RequestFacts, RowKept, RegistersKept
         DEF RequestMove, Quietly, PauseSteps, Accepted, Committed, CleanupSteps,
             lease, local, worker, Actors
    <2> QED BY <2>2, RequestMoveKeeps DEF TypeInv
  <1> QED BY <1>1, <1>2, Zenon DEF HardDelete, Goto

LEMMA CleanupKeeps ==
  ASSUME Undisturbed, TypeInv, DeletionInv, NEW r \in Reqs, Cleanup(r)
  PROVE  DeletionInv'
  <1>1. CASE CleanupBack(r) \/ CleanupBegin(r) \/ CleanupMark(r) \/ CleanupFailed(r) \/ CleanupRecheck(r)
    BY <1>1, CleanupMarksMove, CleanupRecheckMoves, RequestMoveKeeps DEF TypeInv
  <1>2. CASE CleanupCheck(r)
    BY <1>2, CleanupCheckKeeps
  <1>3. CASE CleanupStorage(r) \/ CleanupChildren(r) \/ CleanupStaging(r)
    BY <1>3, CleanupDataKeeps
  <1>4. CASE HardDelete(r)
    BY <1>4, HardDeleteKeeps
  <1> QED BY <1>1, <1>2, <1>3, <1>4 DEF Cleanup

-----------------------------------------------------------------------------
(* The environment, and the invariant.                                     *)

\* Only the lease of a dead worker runs out.
LEMMA ExpireKeeps ==
  ASSUME Undisturbed, TypeInv, DeletionInv, Expire
  PROVE  DeletionInv'
  <1>1. /\ UNCHANGED <<row, data, local, pc, seen, worker, intent>>
        /\ ~Alive(owner)
    BY DEF Expire, Undisturbed
  <1>2. \A w \in Workers : row.exists => pc[w] \notin AtWork \cup {"w_release", "w_drop"}
    BY <1>1 DEF Alive, AtWork, DeletionInv, WriterInv, LeaseOfWorker
  <1> USE DEF data, local, worker
  <1>3. Calm' /\ IntentInv'
    BY <1>1 DEF DeletionInv, Calm, CalmRow, CalmThreads, IntentInv, IntentShown, IntentRead
  <1>4. WriterInv'
    BY <1>1, <1>2
       DEF DeletionInv, WriterInv, LeaseOfWorker, FailsWithoutRow, WriterAlone, Writing
  <1>5. ObjectsNamed'
    <2>1. \A v \in Workers : NextTrack(v)' = NextTrack(v)
      BY <1>1, SameNext
    <2> QED BY <1>1, <2>1 DEF DeletionInv, DataInv, ObjectsNamed
  <1>6. CleanupProgress' /\ DeleteLeavesNothing'
    BY <1>1 DEF DeletionInv, DataInv, CleanupProgress, DeleteLeavesNothing
  <1> QED BY <1>3, <1>4, <1>5, <1>6 DEF DeletionInv, DataInv

LEMMA StutterKeeps ==
  ASSUME DeletionInv, UNCHANGED vars
  PROVE  DeletionInv'
  <1> USE DEF vars, data, lease, local, worker
  <1>1. Calm' /\ IntentInv' /\ WriterInv'
    BY DEF DeletionInv, Calm, CalmRow, CalmThreads, IntentInv, IntentShown, IntentRead,
           WriterInv, LeaseOfWorker, FailsWithoutRow, WriterAlone, Writing
  <1>2. ObjectsNamed'
    <2>1. \A v \in Workers : NextTrack(v)' = NextTrack(v)
      BY SameNext
    <2> QED BY <2>1 DEF DeletionInv, DataInv, ObjectsNamed
  <1>3. CleanupProgress' /\ DeleteLeavesNothing'
    BY DEF DeletionInv, DataInv, CleanupProgress, DeleteLeavesNothing
  <1> QED BY <1>1, <1>2, <1>3 DEF DeletionInv, DataInv

LEMMA DeletionInit ==
  ASSUME Undisturbed, Init
  PROVE  DeletionInv
  <1> USE ConfigAssumption, ActorAssumption DEF Actors
  <1>1. /\ row.exists /\ row.status \in {"processing", "completed"}
        /\ row.analysis = "queued" /\ row.worker = "queued"
    BY DEF Init
  <1>2. /\ \A w \in Workers : pc[w] \in {"w_register", "unused"} /\ why[w] = "none"
        /\ \A w \in Workers : pc[w] = "w_register" => owner = w /\ valid
        /\ \A r \in Reqs : pc[r] = "idle"
        /\ \A p \in Procs : pc[p] = "up"
    BY DEF Init
  <1>3. \A p \in Procs : ~reg[p].pause
    BY DEF Init, InitReg
  <1>4. objects = {} /\ intent = "none"
    BY DEF Init
  <1>5. Calm
    BY <1>1, <1>2, <1>3 DEF Calm, CalmRow, CalmThreads
  <1>6. IntentInv
    BY <1>2, <1>4 DEF IntentInv, IntentShown, IntentRead, Accepted, CleanupSteps
  <1>7. WriterInv
    BY <1>1, <1>2 DEF WriterInv, LeaseOfWorker, FailsWithoutRow, WriterAlone, Writing, AtWork
  <1>8. DataInv
    BY <1>1, <1>2, <1>4 DEF DataInv, ObjectsNamed, CleanupProgress, DeleteLeavesNothing
  <1> QED BY <1>5, <1>6, <1>7, <1>8 DEF DeletionInv

LEMMA DeletionStep ==
  ASSUME Undisturbed, TypeInv, DeletionInv, [Next]_vars
  PROVE  DeletionInv'
  <1>1. ASSUME NEW r \in Reqs, Arrive(r) \/ Request(r) PROVE DeletionInv'
    <2>1. ~Pause(r)
      BY DEF Pause, PauseRead, PauseUpdate, WaitEnds, PausePaused, PauseStopping,
             PauseTimedOut, FinalizeRead, FinalizeWrite, DeletionInv, Calm, CalmThreads
    <2> QED BY <1>1, <2>1, RequestKeeps, CleanupKeeps DEF Request
  <1>2. ASSUME NEW w \in Workers, Worker(w) PROVE DeletionInv'
    BY <1>2, WorkerKeeps
  <1>3. ASSUME NEW p \in Procs, Boot(p) \/ Crash(p) PROVE FALSE
    <2>1. ~Boot(p)
      BY DEF Boot, BootSelect, BootLease, BootRecover, BootRequeue, BootStart, BootFailed,
             DeletionInv, Calm, CalmThreads
    <2>2. ~Crash(p)
      BY DEF Crash, Undisturbed, TypeInv, TypeOK
    <2> QED BY <1>3, <2>1, <2>2
  <1> QED BY <1>1, <1>2, <1>3, ExpireKeeps, StutterKeeps DEF Next

\* The invariant holds throughout, whatever the number of processes, workers and
\* requests that complete, resume or delete the import at once.
LEMMA DeletionInvariant ==
  ASSUME Undisturbed
  PROVE  Spec => [](TypeInv /\ DeletionInv)
  <1>1. Init => DeletionInv
    BY DeletionInit
  <1>2. TypeInv /\ DeletionInv /\ [Next]_vars => DeletionInv'
    BY DeletionStep
  <1> QED BY TypeInvariant, <1>1, <1>2, PTL DEF Spec

\* While nothing crashes, fails, pauses or is late, cleanup deletes storage, rows
\* and files only when no worker in any process is between its checkpoint and its
\* writes.
THEOREM CleanupAlone ==
  ASSUME Undisturbed
  PROVE  Spec => []NoCleanupUnderWriter
  <1>1. DeletionInv => NoCleanupUnderWriter
    BY DEF DeletionInv, WriterInv, WriterAlone, NoCleanupUnderWriter, Cleaning, Committed,
           CleanupSteps
  <1> QED BY DeletionInvariant, <1>1, PTL

\* Then a hard delete also leaves no object, no child row and no staged file, and
\* nothing appears after it.
THEOREM NothingLeft ==
  ASSUME Undisturbed
  PROVE  Spec => []DeleteLeavesNothing
  <1>1. DeletionInv => DeleteLeavesNothing
    BY DEF DeletionInv, DataInv
  <1> QED BY DeletionInvariant, <1>1, PTL

\* What was accepted is never forgotten.
LEMMA IntentStep ==
  ASSUME [Next]_vars, intent # "none"
  PROVE  intent' = intent
  <1>1. ASSUME NEW r \in Reqs, Arrive(r) PROVE intent' = intent
    BY <1>1, Zenon DEF Arrive, Begin
  <1>2. ASSUME NEW r \in Reqs, Pause(r) PROVE intent' = intent
    BY <1>2, Zenon DEF Pause, PauseRead, PauseUpdate, WaitEnds, PausePaused,
       PauseStopping, PauseTimedOut, FinalizeRead, FinalizeWrite
  <1>3. ASSUME NEW r \in Reqs, Resume(r) PROVE intent' = intent
    BY <1>3, Zenon DEF Resume, ResumeRead, ResumeLease, ResumeUpdate, Complete,
       CompleteRead, CompleteFinal, CompleteAssert, CompleteState, CompleteWrite,
       CompleteQueue, CompleteStart, CompleteFailed
  <1>4. ASSUME NEW r \in Reqs, Delete(r) PROVE intent' = intent
    BY <1>4, Zenon DEF Delete, DeleteRead, DeleteUpdate, WaitEnds, DeleteTimedOut,
       FinalizerWait, FinalizerRead
  <1>5. ASSUME NEW r \in Reqs, Cleanup(r) PROVE intent' = intent
    BY <1>5, Zenon DEF Cleanup, CleanupCheck, CleanupBack, CleanupBegin, CleanupMark,
       CleanupRecheck, CleanupStorage, CleanupChildren, CleanupStaging, HardDelete,
       CleanupFailed
  <1>6. ASSUME NEW w \in Workers, Worker(w) PROVE intent' = intent
    BY <1>6, Zenon DEF Worker, WRegister, WLoad, WPublish, WCheck, WRaise, WUpload,
       WWrite, WFinal, WComplete, CompleteAssert, CompleteState, CompleteWrite,
       WPublished, WStop, WLost, WFail, WRelease, WFinalize, FinalizeRead, FinalizeWrite
  <1>7. ASSUME NEW p \in Procs, Boot(p) \/ Crash(p) PROVE intent' = intent
    BY <1>7, Zenon DEF Boot, BootSelect, BootLease, BootRecover, BootRequeue, BootStart,
       BootFailed, Crash
  <1> QED BY <1>1, <1>2, <1>3, <1>4, <1>5, <1>6, <1>7 DEF Next, Request, Expire, vars

\* And no worker, resume or completion takes back a delete that was accepted.
THEOREM IntentStays ==
  ASSUME Undisturbed
  PROVE  Spec => DeleteIntentKept
  <1>1. [Next]_vars => (intent # "none" => intent' # "none")
    BY IntentStep
  <1>2. DeletionInv' => (row'.exists /\ intent' # "none" => row'.status \in DeletePending)
    BY DEF DeletionInv, IntentInv, IntentShown
  <1>3. DeletionInv' /\ [Next]_vars =>
          [intent # "none" /\ row.exists => ~row'.exists \/ row'.status \in DeletePending]_vars
    BY <1>1, <1>2
  <1> QED BY DeletionInvariant, <1>3, PTL DEF Spec, DeleteIntentKept
=============================================================================
