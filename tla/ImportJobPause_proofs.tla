------------------------ MODULE ImportJobPause_proofs ------------------------
(***************************************************************************)
(* Pauses and deletes racing one worker, with storage and RPC faults and a *)
(* delete finalizer that may give up, for any number of processes, tracks, *)
(* pauses and deletes: a job that reads paused is quiet, one that has come *)
(* to rest is not stranded, and completed is never claimed for less than   *)
(* all tracks.  Nobody resumes or completes the import again and no        *)
(* process restarts.                                                       *)
(***************************************************************************)
EXTENDS ImportJob_proofs

Unresumed == /\ MaxCrashes = 0 /\ LateBeats = FALSE
             /\ \A r \in Reqs : Kind[r] \notin {"resume", "complete"}

-----------------------------------------------------------------------------
(* The inductive invariant.                                                *)

\* 1. Without resumes and restarts the first worker is the only one, and it lets go
\* of the import once: it owns the unexpired lease until then.
PauseLabels == {"p_read", "p_update", "p_wait", "p_paused", "p_stopping", "p_status",
                "p_fin1", "p_fin2"}
DeleteLabels == {"d_read", "d_update", "d_wait", "d_timeout", "f_wait", "f_read"} \cup CleanupSteps
Holding == AtWork \cup {"w_release", "w_drop"}
LetGo == pc[First] \notin Holding

Alone == /\ \A w \in Workers \ {First} : pc[w] = "unused"
         /\ pc[First] \in (Holding \ {"w_early2"}) \cup {"w_late1", "w_late2", "done"}
         /\ \A p \in Procs : pc[p] = "up"
         /\ \A r \in Reqs : pc[r] \in {"idle", "done"} \cup PauseLabels \cup DeleteLabels

Owned == row.exists /\ ~LetGo => owner = First /\ valid

Registered == AtWork \ {"w_register", "w_early1", "w_early2"}
Entered == \A p \in Procs : reg[p].active => p = home[First] /\ pc[First] \in Registered

\* 2. Whoever has found both owners gone may publish paused or begin to delete.
Finalizing == {"p_paused", "p_fin1", "p_fin2"}
Committed == CleanupSteps \ {"c_check", "c_back"}
FoundGone ==
  row.exists => /\ \A r \in Reqs : pc[r] \in Finalizing \cup Committed => LetGo /\ ~Lease!LeaseActive
                /\ row.status \in {"paused", "deleting"} => LetGo

\* 3. An import that still reads processing was never changed by a request: the
\* worker completes it, or stops for a request that is about to change it.
Reached == {"processing", "completed", "pause_requested", "paused", "interrupted"} \cup DeletePending
Reading == {"p_update", "d_update"}
PastUpdate == (PauseLabels \cup DeleteLabels) \ {"p_read", "p_update", "d_read", "d_update"}
Untouched ==
  row.exists =>
    /\ row.status \in Reached
    /\ row.status = "processing" =>
         /\ \A r \in Reqs : /\ pc[r] \in Reading => seen[r].status = "processing"
                            /\ pc[r] \notin PastUpdate
         /\ pc[First] \notin {"w_published", "w_lost", "w_late2"}

AboutToStop == \E r \in Reqs : pc[r] \in Reading
Signalled == \E p \in Procs : reg[p].pause \/ reg[p].delete \/ events[p]
Stopped == {"w_stop", "w_cancelled", "w_early1", "w_release", "w_drop", "w_late1", "done"}
StopIsPending ==
  row.exists /\ row.status = "processing" =>
    /\ Signalled \/ pc[First] \in Stopped => AboutToStop
    /\ pc[First] \notin Stopped => StopReason = "none"

\* 4. An import that reads pause_requested has a request that will finalize it or
\* move it to stopping.
WillSettle(r) == \/ pc[r] \in {"p_wait", "p_stopping", "p_status", "p_fin2"} /\ seen[r].status # "completed"
                 \/ pc[r] \in {"p_paused", "p_fin1"}
PauseIsPending == row.exists /\ row.status = "pause_requested" => \E r \in Reqs : WillSettle(r)

\* 5. What was done is undone only by a cleanup, and no row returns from deleting.
Begun == Committed \ {"c_begin"}
Truthful ==
  row.exists =>
    /\ \A r \in Reqs : pc[r] \in Begun => row.status = "deleting"
    /\ row.status # "deleting" =>
         /\ row.analysis = "completed" => done = Tracks
         /\ pc[First] \in Finishing /\ why[First] = "completed" => done = Tracks


PauseInv == /\ Alone /\ Owned /\ Entered /\ FoundGone
            /\ Untouched /\ StopIsPending /\ PauseIsPending /\ Truthful

-----------------------------------------------------------------------------
(* What the trigger allows, and updates of the row and of the registry.    *)

\* Where an accepted update can come from.
LEMMA AllowedMeans ==
  ASSUME row \in Rows, NEW s, Allowed(s)
  PROVE  /\ row.exists
         /\ s = "completed" => row.status \in {"processing", "running", "completed"}
         /\ row.status = "deleting" => s \notin {"pause_requested", "paused", "completed",
                                                 "cancel_requested", "stopping"}
  BY RowTyped, SMTT(30) DEF Allowed, Successors, Statuses, Reached, DeletePending

\* Updates that are never refused.
LEMMA AlwaysAllowed ==
  ASSUME row \in Rows, row.exists
  PROVE  /\ Allowed(row.status)
         /\ row.status = "pause_requested" => Allowed("stopping") /\ Allowed("paused")
         /\ row.status = "processing" => /\ Allowed("pause_requested")
                                         /\ Allowed("cancel_requested")
                                         /\ Allowed("interrupted")
  BY RowTyped, SMTT(30) DEF Allowed, Successors

\* The fields of the row after an update.
LEMMA SetMeans ==
  ASSUME row \in Rows, NEW s, NEW an, NEW wk, NEW k, Set(s, an, wk, k)
  PROVE  /\ row'.exists = row.exists /\ row'.status = s
         /\ row'.analysis = an /\ row'.worker = wk
  BY Zenon DEF Rows, Set

\* An update through the trigger: done, or refused.
LEMMA SaveMeans ==
  ASSUME row \in Rows, NEW a, NEW s, NEW an, NEW wk, NEW k, NEW next, NEW raised,
         Save(a, s, an, wk, k, next, raised)
  PROVE  \/ /\ Allowed(s) /\ pc' = [pc EXCEPT ![a] = next]
            /\ row'.exists = row.exists /\ row'.status = s
            /\ row'.analysis = an /\ row'.worker = wk
         \/ ~Allowed(s) /\ row' = row /\ pc' = [pc EXCEPT ![a] = raised]
  BY SetMeans DEF Save, Goto

\* An entry is set active or inactive; the stop requests stay.
LEMMA ActiveSet ==
  ASSUME reg \in [Procs -> Registers], NEW p \in Procs, NEW b \in BOOLEAN, NEW c \in BOOLEAN,
         reg' = [reg EXCEPT ![p].active = b, ![p].acked = c]
  PROVE  \A q \in Procs : /\ reg'[q].active = (IF q = p THEN b ELSE reg[q].active)
                          /\ reg'[q].pause = reg[q].pause /\ reg'[q].delete = reg[q].delete
  <1>1. ASSUME NEW x \in Registers
        PROVE  /\ [x EXCEPT !.active = b, !.acked = c].active = b
               /\ [x EXCEPT !.active = b, !.acked = c].pause = x.pause
               /\ [x EXCEPT !.active = b, !.acked = c].delete = x.delete
    BY Zenon DEF Registers
  <1>2. /\ reg'[p] = [reg[p] EXCEPT !.active = b, !.acked = c]
        /\ \A q \in Procs \ {p} : reg'[q] = reg[q]
    BY Zenon
  <1>3. reg[p] \in Registers
    OBVIOUS
  <1> QED BY <1>1, <1>2, <1>3

\* A stop request leaves every entry as active as it was.
LEMMA StopRequested ==
  ASSUME reg \in [Procs -> Registers], NEW p \in Procs, NEW d \in BOOLEAN, RequestStop(p, d)
  PROVE  \A q \in Procs : reg'[q].active = reg[q].active
  <1> DEFINE delete == reg[p].delete \/ d
             acked == reg[p].acked \/ ~reg[p].active
  <1>1. reg[p] \in Registers /\ delete \in BOOLEAN /\ acked \in BOOLEAN
    OBVIOUS
  <1>2. /\ reg'[p] = [reg[p] EXCEPT !.pause = TRUE, !.delete = delete, !.acked = acked]
        /\ \A q \in Procs \ {p} : reg'[q] = reg[q]
    BY Zenon DEF RequestStop
  <1> HIDE DEF delete, acked
  <1>3. ASSUME NEW x \in Registers
        PROVE  [x EXCEPT !.pause = TRUE, !.delete = delete, !.acked = acked].active = x.active
    BY Zenon DEF Registers
  <1> QED BY <1>1, <1>2, <1>3

\* Types of what the steps below read.
LEMMA PauseTypes ==
  ASSUME TypeInv
  PROVE  /\ row \in Rows /\ reg \in [Procs -> Registers] /\ pc \in [Actors -> Labels]
         /\ seen \in [Actors -> Snapshots] /\ home \in [Actors -> Procs]
         /\ events \in [Procs -> BOOLEAN]
         /\ why \in [Workers \cup Reqs -> Reasons] /\ left \in [Workers -> SUBSET Tracks]
         /\ First \in Actors /\ First \in Workers /\ First \notin Reqs
         /\ Reqs \subseteq Actors /\ home[First] \in Procs
         /\ row.status # "none"
         /\ done \subseteq Tracks
  <1>1. row.status # "none"
    BY RowTyped DEF TypeInv, TypeOK, Statuses
  <1> QED BY <1>1, ConfigAssumption, ActorAssumption DEF TypeInv, TypeOK, Actors

-----------------------------------------------------------------------------
(* The worker's steps.  A step that takes it to x keeps the invariant if   *)
(* it has these effects.                                                   *)

SameStops == /\ \A p \in Procs : reg'[p].pause = reg[p].pause /\ reg'[p].delete = reg[p].delete
             /\ row.exists /\ row.status = "processing" => \A p \in Procs : events'[p] => Signalled

WorkerRow(x) ==
  /\ row'.exists = row.exists
  /\ row.exists =>
       /\ row'.status \in Reached
       /\ row'.status \in {"processing", "pause_requested"} => row'.status = row.status
       /\ row'.status \in {"paused", "deleting"} => x \notin Holding
       /\ row.status = "deleting" => row'.status = "deleting"
       /\ row'.status = "processing" =>
            /\ x \notin {"w_published", "w_lost", "w_late2"}
            /\ x \in Stopped => pc[First] \in Stopped \/ Signalled
            /\ x \notin Stopped => StopReason' = "none"
       /\ row'.status # "deleting" =>
            /\ row'.analysis = "completed" => done' = Tracks
            /\ x \in Finishing /\ why'[First] = "completed" => done' = Tracks

WorkerStep(x) ==
  /\ pc' = [pc EXCEPT ![First] = x]
  /\ \A r \in Reqs : seen'[r] = seen[r]
  /\ Entered' /\ SameStops
  /\ x \in Holding => ~LetGo /\ owner' = owner /\ valid' = valid
  /\ owner' # NoOwner /\ valid' => Lease!LeaseActive
  /\ WorkerRow(x)

LEMMA WorkerKeeps ==
  ASSUME TypeInv, PauseInv, NEW x \in (Holding \ {"w_early2"}) \cup {"w_late1", "w_late2", "done"},
         WorkerStep(x)
  PROVE  PauseInv'
  <1> USE DEF PauseInv, WorkerStep
  <1>1. /\ pc'[First] = x /\ \A a \in Actors \ {First} : pc'[a] = pc[a]
        /\ \A r \in Reqs : pc'[r] = pc[r]
    BY PauseTypes
  <1>2. Alone'
    <2>1. /\ \A w \in Workers \ {First} : pc'[w] = pc[w]
          /\ \A p \in Procs : pc'[p] = pc[p]
      BY <1>1, PauseTypes, ConfigAssumption, ActorAssumption DEF Actors
    <2> QED BY <1>1, <2>1 DEF Alone
  <1>3. row'.exists = row.exists
    BY DEF WorkerRow
  <1>4. Owned'
    BY <1>1, <1>3 DEF Owned, LetGo
  <1>5. FoundGone'
    BY <1>1, <1>3 DEF FoundGone, LetGo, WorkerRow, Lease!LeaseActive
  <1>6. Untouched'
    BY <1>1, <1>3 DEF Untouched, WorkerRow
  <1>7. row.exists /\ row.status = "processing" => (Signalled' => Signalled)
    BY DEF SameStops, Signalled
  <1>8. AboutToStop' <=> AboutToStop
    BY <1>1 DEF AboutToStop
  <1>9. StopIsPending'
    BY <1>1, <1>3, <1>7, <1>8 DEF StopIsPending, WorkerRow
  <1>10. PauseIsPending'
    BY <1>1, <1>3 DEF PauseIsPending, WillSettle, WorkerRow
  <1>11. Truthful'
    BY <1>1, <1>3 DEF Truthful, WorkerRow
  <1> QED BY <1>2, <1>4, <1>5, <1>6, <1>9, <1>10, <1>11

-----------------------------------------------------------------------------
(* The steps of requests, in the same way.                                 *)

RequestRow(r, x) ==
  /\ row'.exists = row.exists
  /\ row.exists =>
       /\ x \in Finalizing \cup Committed => LetGo /\ ~Lease!LeaseActive
       /\ row'.status \in Reached
       /\ row'.status = "processing" =>
            /\ row' = row /\ x \notin PastUpdate
            /\ x \in Reading => seen'[r].status = "processing"
            /\ x \in Reading \/ (pc[r] \notin Reading /\ (Signalled' => Signalled))
       /\ row'.status = "pause_requested" =>
            WillSettle(r)' \/ (row.status = "pause_requested" /\ ~WillSettle(r))
       /\ row'.status \in {"paused", "deleting"} => LetGo
       /\ row.status = "deleting" \/ x \in Begun => row'.status = "deleting"
       /\ row'.status # "deleting" =>
            /\ row'.analysis = "completed" => row.analysis = "completed"
            /\ done' = done

RequestStep(r, x) ==
  /\ pc' = [pc EXCEPT ![r] = x]
  /\ \A q \in Reqs \ {r} : seen'[q] = seen[q]
  /\ \A p \in Procs : reg'[p].active = reg[p].active
  /\ home'[First] = home[First] /\ why'[First] = why[First]
  /\ owner' = owner /\ valid' = valid
  /\ RequestRow(r, x)

LEMMA RequestKeeps ==
  ASSUME TypeInv, PauseInv, NEW r \in Reqs,
         NEW x \in {"done"} \cup PauseLabels \cup DeleteLabels, RequestStep(r, x)
  PROVE  PauseInv'
  <1> USE DEF PauseInv, RequestStep
  <1>1. /\ pc'[r] = x /\ \A a \in Actors \ {r} : pc'[a] = pc[a]
        /\ \A q \in Reqs \ {r} : pc'[q] = pc[q]
        /\ pc'[First] = pc[First]
    BY PauseTypes
  <1>2. Alone'
    <2>1. /\ \A w \in Workers : pc'[w] = pc[w]
          /\ \A p \in Procs : pc'[p] = pc[p]
      BY <1>1, PauseTypes, ActorAssumption DEF Actors
    <2> QED BY <1>1, <2>1 DEF Alone
  <1>3. row'.exists = row.exists
    BY DEF RequestRow
  <1>4. Owned' /\ Entered'
    BY <1>1, <1>3 DEF Owned, LetGo, Entered
  <1>5. FoundGone'
    BY <1>1, <1>3 DEF FoundGone, LetGo, RequestRow, Lease!LeaseActive
  <1>6. Untouched'
    BY <1>1, <1>3 DEF Untouched, RequestRow
  <1>7. StopIsPending'
    <2> SUFFICES ASSUME row'.exists, row'.status = "processing"
                 PROVE  /\ Signalled' \/ pc'[First] \in Stopped => AboutToStop'
                        /\ pc'[First] \notin Stopped => StopReason' = "none"
      BY DEF StopIsPending
    <2>1. row' = row
      BY <1>3 DEF RequestRow
    <2>2. StopReason' = StopReason
      BY <2>1 DEF StopReason
    <2>3. CASE x \in Reading
      BY <1>1, <2>1, <2>2, <2>3 DEF StopIsPending, AboutToStop
    <2>4. CASE x \notin Reading
      <3>1. pc[r] \notin Reading /\ (Signalled' => Signalled)
        BY <1>3, <2>4 DEF RequestRow
      <3>2. AboutToStop => AboutToStop'
        BY <1>1, <3>1 DEF AboutToStop
      <3> QED BY <1>1, <2>1, <2>2, <3>1, <3>2 DEF StopIsPending
    <2> QED BY <2>3, <2>4
  <1>8. PauseIsPending'
    <2> SUFFICES ASSUME row'.exists, row'.status = "pause_requested", ~WillSettle(r)'
                 PROVE  \E q \in Reqs : WillSettle(q)'
      BY DEF PauseIsPending
    <2>1. row.exists /\ row.status = "pause_requested" /\ ~WillSettle(r)
      BY <1>3 DEF RequestRow
    <2>2. PICK q \in Reqs \ {r} : WillSettle(q)
      BY <2>1 DEF PauseIsPending
    <2> QED BY <1>1, <2>2 DEF WillSettle
  <1>9. Truthful'
    BY <1>1, <1>3 DEF Truthful, RequestRow
  <1> QED BY <1>2, <1>4, <1>5, <1>6, <1>7, <1>8, <1>9

\* Once the row is gone only the threads and the registry are left to keep.
LEMMA GoneKeeps ==
  ASSUME TypeInv, PauseInv, NEW r \in Reqs, pc' = [pc EXCEPT ![r] = "done"],
         ~row'.exists, reg' = reg, home' = home
  PROVE  PauseInv'
  <1>1. /\ pc'[r] = "done" /\ \A a \in Actors \ {r} : pc'[a] = pc[a]
        /\ \A q \in Reqs \ {r} : pc'[q] = pc[q]
        /\ pc'[First] = pc[First]
    BY PauseTypes
  <1>2. /\ \A w \in Workers : pc'[w] = pc[w]
        /\ \A p \in Procs : pc'[p] = pc[p]
    BY <1>1, PauseTypes, ActorAssumption DEF Actors
  <1>3. Alone' /\ Entered'
    BY <1>1, <1>2 DEF PauseInv, Alone, Entered
  <1> QED BY <1>3 DEF PauseInv, Owned, FoundGone, Untouched, StopIsPending, PauseIsPending, Truthful

\* A request arrives.
LEMMA ArriveKeeps ==
  ASSUME Unresumed, TypeInv, PauseInv, NEW r \in Reqs, Arrive(r)
  PROVE  PauseInv'
  <1> DEFINE x == IF Kind[r] = "pause" THEN "p_read" ELSE "d_read"
  <1>1. Kind[r] # "resume" /\ Kind[r] # "complete"
    BY DEF Unresumed
  <1>2. /\ pc[r] = "idle" /\ pc' = [pc EXCEPT ![r] = x]
        /\ \E p \in Procs : home' = [home EXCEPT ![r] = p]
        /\ UNCHANGED <<row, data, lease, local, seen, worker, crashes, intent>>
    BY <1>1 DEF Arrive, Begin, Goto
  <1>3. x \in {"p_read", "d_read"}
    OBVIOUS
  <1> HIDE DEF x
  <1>4. home'[First] = home[First]
    BY <1>2, PauseTypes
  <1>5. RequestRow(r, x)
    <2>1. UNCHANGED <<row, reg, events, done>> /\ (Signalled' <=> Signalled)
      BY <1>2 DEF Signalled, local, data
    <2>2. ~WillSettle(r)
      BY <1>2 DEF WillSettle
    <2> QED BY <1>2, <1>3, <2>1, <2>2 DEF RequestRow, Finalizing, Committed, Begun, PastUpdate,
              PauseLabels, DeleteLabels, CleanupSteps, Reading, PauseInv, Untouched, FoundGone, Truthful
  <1>6. RequestStep(r, x)
    BY <1>2, <1>4, <1>5 DEF RequestStep, local, worker, lease
  <1> QED BY <1>3, <1>6, RequestKeeps DEF PauseLabels, DeleteLabels

\* A lease runs out only when its worker has ended.
LEMMA ExpireKeeps ==
  ASSUME Unresumed, TypeInv, PauseInv, Expire
  PROVE  PauseInv'
  <1>1. /\ ~Alive(owner) /\ valid' = FALSE
        /\ UNCHANGED <<row, data, local, pc, home, seen, worker, crashes, intent>>
    BY DEF Expire, Unresumed, Lease!Expire
  <1>2. row.exists => LetGo
    BY <1>1 DEF PauseInv, Owned, Alive, LetGo, Holding, AtWork
  <1>3. Owned' /\ FoundGone'
    BY <1>1, <1>2 DEF PauseInv, Owned, FoundGone, LetGo, Lease!LeaseActive
  <1>4. Alone' /\ Entered'
    BY <1>1 DEF PauseInv, Alone, Entered, local
  <1>5. Untouched' /\ Truthful' /\ PauseIsPending'
    BY <1>1 DEF PauseInv, Untouched, Truthful, PauseIsPending, WillSettle, data, worker
  <1>6. StopIsPending'
    BY <1>1 DEF PauseInv, StopIsPending, AboutToStop, Signalled, StopReason, local
  <1> QED BY <1>3, <1>4, <1>5, <1>6 DEF PauseInv

LEMMA StutterKeeps ==
  ASSUME PauseInv, UNCHANGED vars
  PROVE  PauseInv'
  BY DEF PauseInv, Alone, Owned, Entered, FoundGone, Untouched, StopIsPending, PauseIsPending,
     Truthful, LetGo, WillSettle, AboutToStop, Signalled, StopReason, Lease!LeaseActive,
     vars, data, lease, local, worker

-----------------------------------------------------------------------------
(* Each step of the worker.                                                *)

\* What a step of the worker finds besides its guard.
LEMMA WorkerFinds ==
  ASSUME TypeInv, PauseInv
  PROVE  /\ ~LetGo /\ row.exists => LeaseHeld(First) /\ row.status \notin {"paused", "deleting"}
         /\ \A p \in Procs : LocalReason(p) # "none" => Signalled
         /\ row.exists => row.status \in Reached
         /\ done = Tracks <=> FinalAnalysis = "completed"
  BY DEF PauseInv, Owned, LeaseHeld, FoundGone, LocalReason, Signalled, Untouched, FinalAnalysis

\* A step that leaves row, registry and lease alone.
LEMMA PlainMove ==
  ASSUME TypeInv, PauseInv, NEW x \in (Holding \ {"w_early2"}) \cup {"w_late1", "w_late2", "done"},
         pc' = [pc EXCEPT ![First] = x], \A r \in Reqs : seen'[r] = seen[r],
         UNCHANGED <<row, lease, reg, events, home>>,
         pc[First] \in Registered => x \in Registered,
         x \in Holding => ~LetGo,
         done = Tracks => done' = Tracks,
         row.exists /\ row.status = "processing" =>
            /\ x \notin {"w_published", "w_lost", "w_late2"}
            /\ x \in Stopped => pc[First] \in Stopped \/ Signalled
            /\ x \notin Stopped => pc[First] \notin Stopped,
         x \in Finishing => pc[First] \in Finishing /\ why'[First] = why[First]
  PROVE  PauseInv'
  <1>1. Entered'
    BY PauseTypes DEF PauseInv, Entered
  <1>2. SameStops
    BY DEF SameStops, Signalled
  <1>3. StopReason' = StopReason
    BY DEF StopReason
  <1>4. row.exists /\ row.status \in {"paused", "deleting"} => x \notin Holding
    BY WorkerFinds
  <1>5. row.exists => row.status \in Reached
    BY WorkerFinds
  <1>6. WorkerRow(x)
    BY <1>3, <1>4, <1>5 DEF WorkerRow, PauseInv, StopIsPending, Truthful
  <1>7. WorkerStep(x)
    BY <1>1, <1>2, <1>6 DEF WorkerStep, lease, Lease!LeaseActive
  <1> QED BY <1>7, WorkerKeeps

\* The labels, as sets of strings.
LEMMA LabelFacts ==
  /\ {"w_register", "w_load", "w_publish", "w_check", "w_upload", "w_write", "w_final", "w_assert",
      "w_state", "w_complete", "w_published", "w_stop", "w_cancelled", "w_lost", "w_fail"}
       \subseteq Holding \ {"w_early2"}
  /\ {"w_load", "w_publish", "w_check", "w_upload", "w_write", "w_final", "w_assert",
      "w_state", "w_complete", "w_published", "w_stop", "w_cancelled", "w_lost", "w_fail"}
       \subseteq Registered
  /\ {"w_early1", "w_release", "w_drop"} \subseteq Holding \ {"w_early2"}
  /\ {"w_early1", "w_release", "w_drop", "w_register", "w_late1", "w_late2", "done"} \cap Registered = {}
  /\ {"w_late1", "w_late2", "done"} \cap Holding = {}
  /\ Registered \subseteq Holding
  BY DEF Holding, Registered, AtWork

LEMMA WRegisterKeeps == ASSUME TypeInv, PauseInv, WRegister(First) PROVE PauseInv'
  <1> USE LabelFacts
  <1>1. pc[First] = "w_register" /\ ~reg[home[First]].active
    BY PauseTypes DEF WRegister, PauseInv, Entered
  <1>2. /\ reg' = [reg EXCEPT ![home[First]].active = TRUE, ![home[First]].acked = FALSE]
        /\ pc' = [pc EXCEPT ![First] = "w_load"]
        /\ UNCHANGED <<row, data, lease, events, home, seen, worker, crashes, intent>>
    BY <1>1 DEF WRegister, Goto
  <1>3. \A q \in Procs : /\ reg'[q].active => q = home[First] \/ reg[q].active
                         /\ reg'[q].pause = reg[q].pause /\ reg'[q].delete = reg[q].delete
    BY <1>2, ActiveSet, PauseTypes
  <1>4. Entered' /\ SameStops
    BY <1>2, <1>3, PauseTypes DEF PauseInv, Entered, SameStops, Signalled
  <1>5. StopReason' = StopReason
    BY <1>2 DEF StopReason
  <1>6. WorkerRow("w_load")
    BY <1>1, <1>2, <1>5, WorkerFinds DEF WorkerRow, PauseInv, StopIsPending, Truthful, Stopped, Finishing, LetGo, data, worker
  <1>7. WorkerStep("w_load")
    BY <1>1, <1>2, <1>4, <1>6 DEF WorkerStep, LetGo, lease, Lease!LeaseActive
  <1> QED BY <1>7, WorkerKeeps

LEMMA WLoadKeeps == ASSUME TypeInv, PauseInv, WLoad(First) PROVE PauseInv'
  <1> USE LabelFacts
  <1>1. PICK x \in {"w_publish", "w_fail"} : pc' = [pc EXCEPT ![First] = x]
    BY DEF WLoad, Goto
  <1> QED BY <1>1, PlainMove DEF WLoad, LetGo, Stopped, Finishing, data, local

LEMMA WPublishKeeps == ASSUME TypeInv, PauseInv, WPublish(First) PROVE PauseInv'
  <1> USE LabelFacts
  <1>1. /\ pc[First] = "w_publish"
        /\ UNCHANGED <<data, lease, local, home, seen, worker, crashes, intent>>
    BY DEF WPublish
  <1>2. \/ /\ pc' = [pc EXCEPT ![First] = "w_check"] /\ row'.exists = row.exists
           /\ row'.status = row.status /\ row'.analysis = "parsing" /\ row'.worker = "running"
        \/ ~row.exists /\ row' = row /\ pc' = [pc EXCEPT ![First] = "w_fail"]
    BY SaveMeans, AlwaysAllowed, PauseTypes DEF WPublish
  <1>3. PICK x \in {"w_check", "w_fail"} : pc' = [pc EXCEPT ![First] = x]
    BY <1>2
  <1>4. row'.exists /\ row'.status = "processing" => StopReason' = "none"
    BY <1>2 DEF StopReason, Cancellation, DeletePending
  <1>5. WorkerRow(x)
    BY <1>1, <1>2, <1>3, <1>4, WorkerFinds DEF WorkerRow, PauseInv, Untouched, Stopped, Finishing, LetGo
  <1>6. Entered' /\ SameStops
    BY <1>1, <1>3, PauseTypes DEF PauseInv, Entered, SameStops, Signalled, local
  <1>7. WorkerStep(x)
    BY <1>1, <1>3, <1>5, <1>6 DEF WorkerStep, LetGo, lease, Lease!LeaseActive
  <1> QED BY <1>7, WorkerKeeps

LEMMA WCheckKeeps == ASSUME TypeInv, PauseInv, WCheck(First) PROVE PauseInv'
  <1> USE LabelFacts
  <1>1. /\ pc[First] = "w_check"
        /\ UNCHANGED <<row, data, lease, local, home, seen, left, crashes, intent>>
    BY DEF WCheck
  <1>2. LocalReason(home[First]) # "none" => Signalled
    BY WorkerFinds, PauseTypes
  <1>3. row.exists => LeaseHeld(First)
    BY <1>1, WorkerFinds DEF LetGo
  <1>4. row.exists /\ row.status = "processing" => StopReason = "none"
    BY <1>1 DEF PauseInv, StopIsPending, Stopped
  <1>5. PICK x \in {"w_stop", "w_lost", "w_final", "w_upload"} :
             /\ pc' = [pc EXCEPT ![First] = x]
             /\ x = "w_lost" => ~row.exists
             /\ x = "w_stop" /\ row.exists /\ row.status = "processing" => Signalled
    BY <1>2, <1>3, <1>4 DEF WCheck, Goto
  <1> QED BY <1>1, <1>5, PlainMove DEF LetGo, Stopped, Finishing, data, local

LEMMA WRaiseKeeps == ASSUME TypeInv, PauseInv, WRaise(First) PROVE PauseInv'
  BY LabelFacts, PlainMove DEF WRaise, Goto, LetGo, Stopped, Finishing, data, local

LEMMA WUploadKeeps == ASSUME TypeInv, PauseInv, WUpload(First) PROVE PauseInv'
  <1> USE LabelFacts
  <1>1. LocalReason(home[First]) # "none" => Signalled
    BY WorkerFinds, PauseTypes
  <1>2. PICK x \in {"w_stop", "w_write"} :
             /\ pc' = [pc EXCEPT ![First] = x]
             /\ x = "w_stop" => Signalled
    BY <1>1 DEF WUpload, Goto
  <1> QED BY <1>2, PlainMove DEF WUpload, LetGo, Stopped, Finishing, data, local

LEMMA WWriteKeeps == ASSUME TypeInv, PauseInv, WWrite(First) PROVE PauseInv'
  <1> USE LabelFacts
  <1>1. NextTrack(First) \in Tracks
    BY PauseTypes DEF WWrite, NextTrack, TypeInv, TrackLeft
  <1>2. done = Tracks => done' = Tracks
    BY <1>1 DEF WWrite
  <1>3. PICK x \in {"w_check", "w_fail"} : pc' = [pc EXCEPT ![First] = x]
    BY DEF WWrite, Goto
  <1> QED BY <1>2, <1>3, PlainMove DEF WWrite, LetGo, Stopped, Finishing, local

LEMMA WFinalKeeps == ASSUME TypeInv, PauseInv, WFinal(First) PROVE PauseInv'
  <1> USE LabelFacts
  <1>1. /\ pc[First] = "w_final" /\ pc' = [pc EXCEPT ![First] = "w_assert"]
        /\ UNCHANGED <<data, lease, local, home, seen, left, crashes, intent>>
        /\ why'[First] = FinalAnalysis
    BY PauseTypes DEF WFinal, Goto
  <1>2. \/ /\ row'.exists = row.exists
           /\ row'.status = row.status /\ row'.analysis = FinalAnalysis /\ row'.worker = "completed"
        \/ ~row.exists /\ row' = row
    BY SetMeans, PauseTypes DEF WFinal
  <1>3. row'.exists /\ row'.status = "processing" => StopReason' = "none"
    BY <1>2 DEF StopReason, Cancellation, DeletePending, FinalAnalysis
  <1>4. WorkerRow("w_assert")
    BY <1>1, <1>2, <1>3, WorkerFinds DEF WorkerRow, Stopped, Finishing, LetGo, data
  <1>5. Entered' /\ SameStops
    BY <1>1, PauseTypes DEF PauseInv, Entered, SameStops, Signalled, local
  <1>6. WorkerStep("w_assert")
    BY <1>1, <1>4, <1>5 DEF WorkerStep, LetGo, lease, Lease!LeaseActive
  <1> QED BY <1>6, WorkerKeeps

\* The completion: the cancellation check, the read of the state, the update.
LEMMA WAssertKeeps ==
  ASSUME TypeInv, PauseInv, CompleteAssert(First, "w_assert", "w_state", "w_published", "w_cancelled")
  PROVE  PauseInv'
  <1> USE LabelFacts
  <1>1. /\ pc[First] = "w_assert"
        /\ UNCHANGED <<row, data, lease, reg, home, seen, worker, crashes, intent>>
    BY DEF CompleteAssert
  <1>2. PICK x \in {"w_cancelled", "w_state", "w_published"} :
             /\ pc' = [pc EXCEPT ![First] = x]
             /\ x = "w_published" => ~row.exists
             /\ x = "w_cancelled" => Cancelled(First)
             /\ events' = events \/ (Cancelled(First) /\ SignalCancellation(First))
    BY DEF CompleteAssert, Goto
  <1>3. row.exists /\ row.status = "processing" /\ Cancelled(First) => Signalled
    BY PauseTypes DEF Cancelled, Signalled, Cancellation, DeletePending
  <1>4. SameStops
    BY <1>1, <1>2, <1>3, PauseTypes DEF SameStops, SignalCancellation, Signalled
  <1>5. Entered'
    BY <1>1, <1>2, PauseTypes DEF PauseInv, Entered
  <1>6. StopReason' = StopReason
    BY <1>1 DEF StopReason
  <1>7. WorkerRow(x)
    BY <1>1, <1>2, <1>3, <1>6, WorkerFinds DEF WorkerRow, PauseInv, StopIsPending, Truthful, Stopped,
       Finishing, LetGo, data, worker
  <1>8. WorkerStep(x)
    BY <1>1, <1>2, <1>4, <1>5, <1>7 DEF WorkerStep, LetGo, lease, Lease!LeaseActive
  <1> QED BY <1>8, WorkerKeeps

LEMMA WStateKeeps ==
  ASSUME TypeInv, PauseInv, CompleteState(First, "w_state", "w_complete", "w_published")
  PROVE  PauseInv'
  <1> USE LabelFacts
  <1>1. PICK x \in {"w_complete", "w_published"} :
             /\ pc' = [pc EXCEPT ![First] = x]
             /\ x = "w_published" => ~row.exists \/ row.status # "processing"
    BY DEF CompleteState, Goto, Leave
  <1>2. \A r \in Reqs : seen'[r] = seen[r]
    BY PauseTypes DEF CompleteState, Leave, Remember
  <1>3. /\ pc[First] = "w_state"
        /\ UNCHANGED <<row, data, lease, local, home, worker, crashes, intent>>
    BY DEF CompleteState
  <1> QED BY <1>1, <1>2, <1>3, PlainMove DEF LetGo, Stopped, Finishing, data, local, worker

LEMMA WCompleteKeeps ==
  ASSUME TypeInv, PauseInv,
         CompleteWrite(First, "w_complete", "w_published", "w_published", "w_cancelled")
  PROVE  PauseInv'
  <1> USE LabelFacts
  <1>1. /\ pc[First] = "w_complete"
        /\ UNCHANGED <<data, lease, reg, home, worker, crashes, intent>>
        /\ \A r \in Reqs : seen'[r] = seen[r]
    BY PauseTypes DEF CompleteWrite, Remember
  <1>2. PICK x \in {"w_cancelled", "w_published"} : pc' = [pc EXCEPT ![First] = x]
    BY DEF CompleteWrite, Goto
  <1>3. Entered'
    BY <1>1, <1>2, PauseTypes DEF PauseInv, Entered
  <1>4. CASE row.exists /\ row.status = "processing"
    <2>1. /\ Set("completed", CompletedAnalysis(seen[First].analysis), row.worker, row.ack)
          /\ UNCHANGED events
      BY <1>4 DEF CompleteWrite, StillIn
    <2>2. /\ row'.exists = row.exists /\ row'.status = "completed"
          /\ row'.analysis = CompletedAnalysis(seen[First].analysis)
      BY <2>1, SetMeans, PauseTypes
    <2>3. CompletedAnalysis(seen[First].analysis) = "completed" => done = Tracks
      BY <1>4, WorkerFinds DEF CompletedAnalysis, PauseInv, Truthful
    <2>4. WorkerRow(x)
      BY <1>1, <1>4, <2>2, <2>3 DEF WorkerRow, Reached, PauseInv, Truthful, Finishing, data, worker
    <2>5. SameStops
      BY <1>1, <2>1 DEF SameStops, Signalled
    <2>6. WorkerStep(x)
      BY <1>1, <1>2, <1>3, <2>4, <2>5 DEF WorkerStep, LetGo, lease, Lease!LeaseActive
    <2> QED BY <2>6, WorkerKeeps
  <1>5. CASE ~(row.exists /\ row.status = "processing")
    <2>1. UNCHANGED row
      BY <1>5 DEF CompleteWrite, StillIn
    <2>2. WorkerRow(x)
      BY <1>1, <1>5, <2>1, WorkerFinds DEF WorkerRow, PauseInv, Truthful, Finishing, LetGo, data, worker
    <2>3. SameStops
      BY <1>1, <1>5 DEF SameStops
    <2>4. WorkerStep(x)
      BY <1>1, <1>2, <1>3, <2>2, <2>3 DEF WorkerStep, LetGo, lease, Lease!LeaseActive
    <2> QED BY <2>4, WorkerKeeps
  <1> QED BY <1>4, <1>5

LEMMA WPublishedKeeps == ASSUME TypeInv, PauseInv, WPublished(First) PROVE PauseInv'
  <1> USE LabelFacts
  <1>1. /\ pc[First] = "w_published"
        /\ UNCHANGED <<data, lease, events, home, seen, worker, crashes, intent>>
    BY DEF WPublished
  <1>2. CASE row.exists
    <2>1. /\ pc' = [pc EXCEPT ![First] = "w_release"] /\ row'.exists = row.exists
          /\ row'.status = row.status /\ row'.analysis = why[First]
      BY <1>2, SaveMeans, AlwaysAllowed, PauseTypes DEF WPublished
    <2>2. reg' = [reg EXCEPT ![home[First]].active = FALSE, ![home[First]].acked = TRUE]
      BY <1>2 DEF WPublished
    <2>3. \A q \in Procs : /\ reg'[q].active = (IF q = home[First] THEN FALSE ELSE reg[q].active)
                           /\ reg'[q].pause = reg[q].pause /\ reg'[q].delete = reg[q].delete
      BY <2>2, ActiveSet, PauseTypes
    <2>4. Entered' /\ SameStops
      BY <1>1, <2>1, <2>3, PauseTypes DEF PauseInv, Entered, SameStops, Signalled
    <2>5. row.status # "processing" /\ (row.status # "deleting" /\ why[First] = "completed" => done = Tracks)
      BY <1>1, <1>2 DEF PauseInv, Untouched, Truthful, Finishing
    <2>6. WorkerRow("w_release")
      BY <1>1, <1>2, <2>1, <2>5, WorkerFinds DEF WorkerRow, Finishing, LetGo, data
    <2>7. WorkerStep("w_release")
      BY <1>1, <2>1, <2>4, <2>6 DEF WorkerStep, LetGo, lease, Lease!LeaseActive
    <2> QED BY <2>7, WorkerKeeps
  <1>3. CASE ~row.exists
    <2>1. pc' = [pc EXCEPT ![First] = "w_fail"] /\ row' = row /\ reg' = reg
      BY <1>3 DEF WPublished, Save, Allowed, Goto
    <2> QED BY <1>1, <1>3, <2>1, PlainMove DEF LetGo, Finishing, data, local
  <1> QED BY <1>2, <1>3

\* An acknowledgement ends the registration.
LEMMA Acknowledged ==
  ASSUME TypeInv, PauseInv, Acknowledge(home[First]), UNCHANGED <<home, events>>
  PROVE  Entered' /\ SameStops
  <1>1. \A q \in Procs : /\ reg'[q].active = (IF q = home[First] THEN FALSE ELSE reg[q].active)
                         /\ reg'[q].pause = reg[q].pause /\ reg'[q].delete = reg[q].delete
    BY ActiveSet, PauseTypes DEF Acknowledge
  <1> QED BY <1>1, PauseTypes DEF PauseInv, Entered, SameStops, Signalled

LEMMA WStopKeeps == ASSUME TypeInv, PauseInv, WStop(First) PROVE PauseInv'
  <1> USE LabelFacts
  <1>1. /\ pc[First] \in {"w_stop", "w_cancelled"}
        /\ Acknowledge(home[First])
        /\ UNCHANGED <<data, lease, events, home, seen, worker, crashes, intent>>
    BY DEF WStop
  <1>2. PICK an \in {"paused", "stopping"}, wk \in {"paused", "stopped"}, next \in {"w_early1", "w_release"} :
             Save(First, row.status, an, wk, TRUE, next, "w_drop")
    BY DEF WStop
  <1>3. \/ /\ pc' = [pc EXCEPT ![First] = next] /\ row'.exists = row.exists
           /\ row'.status = row.status /\ row'.analysis = an
        \/ ~row.exists /\ row' = row /\ pc' = [pc EXCEPT ![First] = "w_drop"]
    <2>1. row \in Rows /\ (row.exists => Allowed(row.status))
      BY AlwaysAllowed, PauseTypes
    <2>2. \/ /\ pc' = [pc EXCEPT ![First] = next] /\ row'.exists = row.exists
             /\ row'.status = row.status /\ row'.analysis = an
          \/ /\ ~Allowed(row.status) /\ row' = row
             /\ pc' = [pc EXCEPT ![First] = "w_drop"]
      BY <1>2, <2>1, SaveMeans
    <2> QED BY <2>1, <2>2
  <1>4. PICK x \in {"w_early1", "w_release", "w_drop"} : pc' = [pc EXCEPT ![First] = x]
    BY <1>3
  <1>5. Entered' /\ SameStops
    BY <1>1, Acknowledged
  <1>6. WorkerRow(x)
    BY <1>1, <1>3, WorkerFinds DEF WorkerRow, Stopped, Finishing, LetGo
  <1>7. WorkerStep(x)
    BY <1>1, <1>4, <1>5, <1>6 DEF WorkerStep, LetGo, lease, Lease!LeaseActive
  <1> QED BY <1>7, WorkerKeeps

LEMMA WLostKeeps == ASSUME TypeInv, PauseInv, WLost(First) PROVE PauseInv'
  <1> USE LabelFacts
  <1>1. /\ pc[First] = "w_lost" /\ pc' = [pc EXCEPT ![First] = "w_release"]
        /\ Acknowledge(home[First])
        /\ UNCHANGED <<row, data, lease, events, home, seen, worker, crashes, intent>>
    BY DEF WLost, Goto
  <1>2. Entered' /\ SameStops
    BY <1>1, Acknowledged
  <1>3. row.exists => row.status # "processing"
    BY <1>1 DEF PauseInv, Untouched
  <1>4. WorkerRow("w_release")
    BY <1>1, <1>3, WorkerFinds DEF WorkerRow, PauseInv, Truthful, Finishing, LetGo, data
  <1>5. WorkerStep("w_release")
    BY <1>1, <1>2, <1>4 DEF WorkerStep, LetGo, lease, Lease!LeaseActive
  <1> QED BY <1>5, WorkerKeeps

LEMMA WFailKeeps == ASSUME TypeInv, PauseInv, WFail(First) PROVE PauseInv'
  <1> USE LabelFacts
  <1>1. /\ pc[First] = "w_fail" /\ pc' = [pc EXCEPT ![First] = "w_release"]
        /\ Acknowledge(home[First])
        /\ UNCHANGED <<data, lease, events, home, seen, worker, crashes, intent>>
    BY DEF WFail, Save, Goto
  <1>2. Entered' /\ SameStops
    BY <1>1, Acknowledged
  <1>3. \/ /\ row'.exists = row.exists /\ row'.status = "interrupted" /\ row'.analysis = "interrupted"
        \/ /\ row' = row /\ (row.exists => row.status # "processing")
    BY SaveMeans, AlwaysAllowed, PauseTypes DEF WFail, FailStatus
  <1>4. row.exists => row.status \notin {"paused", "deleting"}
    BY <1>1, WorkerFinds DEF LetGo
  <1>5. WorkerRow("w_release")
    BY <1>1, <1>3, <1>4, WorkerFinds DEF WorkerRow, Reached, PauseInv, Truthful, Finishing, data
  <1>6. WorkerStep("w_release")
    BY <1>1, <1>2, <1>5 DEF WorkerStep, LetGo, lease, Lease!LeaseActive
  <1> QED BY <1>6, WorkerKeeps

LEMMA WReleaseKeeps == ASSUME TypeInv, PauseInv, WRelease(First) PROVE PauseInv'
  <1> USE LabelFacts
  <1>1. /\ pc[First] \in {"w_release", "w_drop"}
        /\ UNCHANGED <<row, data, local, home, seen, why, crashes, intent>>
        /\ owner' # NoOwner /\ valid' => Lease!LeaseActive
    BY DEF WRelease, Lease!Release, Lease!LeaseActive, lease
  <1>2. PICK x \in {"w_late1", "done"} : pc' = [pc EXCEPT ![First] = x]
    BY DEF WRelease, Goto
  <1>3. Entered' /\ SameStops /\ StopReason' = StopReason
    BY <1>1, <1>2, PauseTypes DEF PauseInv, Entered, SameStops, Signalled, StopReason, local
  <1>4. WorkerRow(x)
    BY <1>1, <1>3, WorkerFinds DEF WorkerRow, PauseInv, Truthful, Stopped, Finishing, data
  <1>5. WorkerStep(x)
    BY <1>1, <1>2, <1>3, <1>4 DEF WorkerStep
  <1> QED BY <1>5, WorkerKeeps

\* Before its release the worker never finds itself gone.
LEMMA WEarlyKeeps ==
  ASSUME TypeInv, PauseInv, FinalizeRead(First, "w_early1", "w_early2", "w_release")
  PROVE  PauseInv'
  <1> USE LabelFacts
  <1>1. /\ pc[First] = "w_early1"
        /\ UNCHANGED <<row, data, lease, local, home, worker, crashes, intent>>
    BY DEF FinalizeRead
  <1>2. row.exists => ~Inactive(home[First])
    BY <1>1, WorkerFinds, ConfigAssumption, ActorAssumption DEF Inactive, LetGo, LeaseHeld, Lease!LeaseActive
  <1>3. Leave(First, "w_release")
    BY <1>2 DEF FinalizeRead
  <1>4. pc' = [pc EXCEPT ![First] = "w_release"] /\ \A r \in Reqs : seen'[r] = seen[r]
    BY <1>3, PauseTypes DEF Leave, Goto, Remember
  <1> QED BY <1>1, <1>4, PlainMove DEF LetGo, Stopped, Finishing, data, local

LEMMA WLateKeeps ==
  ASSUME TypeInv, PauseInv, FinalizeRead(First, "w_late1", "w_late2", "done")
  PROVE  PauseInv'
  <1> USE LabelFacts
  <1>1. /\ pc[First] = "w_late1"
        /\ UNCHANGED <<row, data, lease, local, home, worker, crashes, intent>>
    BY DEF FinalizeRead
  <1>2. PICK x \in {"w_late2", "done"} : /\ pc' = [pc EXCEPT ![First] = x]
                                         /\ x = "w_late2" => row.status # "processing"
    BY DEF FinalizeRead, Leave, Goto
  <1>3. \A r \in Reqs : seen'[r] = seen[r]
    BY PauseTypes DEF FinalizeRead, Leave, Remember
  <1> QED BY <1>1, <1>2, <1>3, PlainMove DEF LetGo, Stopped, Finishing, data, local

LEMMA WPausedKeeps ==
  ASSUME TypeInv, PauseInv, FinalizeWrite(First, "w_late2", "done", "done")
  PROVE  PauseInv'
  <1> USE LabelFacts
  <1>1. /\ pc[First] = "w_late2" /\ pc' = [pc EXCEPT ![First] = "done"]
        /\ UNCHANGED <<data, lease, local, home, worker, crashes, intent>>
        /\ \A r \in Reqs : seen'[r] = seen[r]
    BY PauseTypes DEF FinalizeWrite, Save, Goto, Remember
  <1>2. PICK s \in {"completed", "paused"} : Save(First, s, "paused", "paused", TRUE, "done", "done")
    BY DEF FinalizeWrite
  <1>3. \/ /\ row.status # "deleting" /\ row'.exists = row.exists /\ row'.status = s
           /\ row'.analysis = "paused"
        \/ row' = row
    BY <1>2, SaveMeans, AllowedMeans, PauseTypes
  <1>4. row.exists => row.status # "processing" /\ row.status \in Reached
    BY <1>1, WorkerFinds DEF PauseInv, Untouched
  <1>5. WorkerRow("done")
    BY <1>1, <1>3, <1>4 DEF WorkerRow, Reached, PauseInv, Truthful, Finishing, data
  <1>6. Entered' /\ SameStops
    BY <1>1, PauseTypes DEF PauseInv, Entered, SameStops, Signalled, local
  <1>7. WorkerStep("done")
    BY <1>1, <1>5, <1>6 DEF WorkerStep, lease, Lease!LeaseActive
  <1> QED BY <1>7, WorkerKeeps

-----------------------------------------------------------------------------
(* Each step of a request.                                                 *)

RequestLabels == {"done"} \cup PauseLabels \cup DeleteLabels

\* What a step of a request finds besides its guard.
LEMMA RequestFinds ==
  ASSUME TypeInv, PauseInv, NEW r \in Reqs
  PROVE  /\ row.exists /\ Inactive(home[r]) => LetGo /\ ~Lease!LeaseActive
         /\ row.exists /\ pc[r] \in Finalizing \cup Committed =>
              LetGo /\ ~Lease!LeaseActive /\ Inactive(home[r])
         /\ row.exists /\ row.status \in {"paused", "deleting"} => LetGo
         /\ row.exists => row.status \in Reached
         /\ row.exists /\ row.status = "processing" =>
              pc[r] \notin PastUpdate /\ (pc[r] \in Reading => seen[r].status = "processing")
         /\ row.exists /\ pc[r] \in Begun => row.status = "deleting"
  <1>1. row.exists /\ Inactive(home[r]) => LetGo /\ ~Lease!LeaseActive
    BY ConfigAssumption, ActorAssumption DEF PauseInv, Owned, Inactive, Lease!LeaseActive
  <1>2. LetGo => ~reg[home[r]].active
    BY PauseTypes, LabelFacts DEF PauseInv, Entered, LetGo
  <1>3. row.exists /\ pc[r] \in Finalizing \cup Committed =>
              LetGo /\ ~Lease!LeaseActive /\ Inactive(home[r])
    BY <1>2 DEF PauseInv, FoundGone, Inactive
  <1> QED BY <1>1, <1>3 DEF PauseInv, FoundGone, Untouched, Truthful

\* A step that leaves the row and the registry alone.
LEMMA PlainRequest ==
  ASSUME TypeInv, PauseInv, NEW r \in Reqs, NEW x \in RequestLabels,
         pc' = [pc EXCEPT ![r] = x], \A q \in Reqs \ {r} : seen'[q] = seen[q],
         UNCHANGED <<row, done, lease, reg, events, home>>, why'[First] = why[First],
         row.exists =>
           /\ x \in Finalizing \cup Committed => LetGo /\ ~Lease!LeaseActive
           /\ row.status = "processing" => pc[r] \notin Reading /\ x \notin Reading \cup PastUpdate
           /\ row.status = "pause_requested" => WillSettle(r)' \/ ~WillSettle(r)
           /\ x \in Begun => row.status = "deleting"
  PROVE  PauseInv'
  <1>1. Signalled' <=> Signalled
    BY DEF Signalled
  <1>2. RequestRow(r, x)
    BY <1>1, RequestFinds DEF RequestRow
  <1>3. RequestStep(r, x)
    BY <1>2 DEF RequestStep, lease
  <1> QED BY <1>3, RequestKeeps DEF RequestLabels

\* An update of the row by a request that has been past its update of the status.
LEMMA SaveRequest ==
  ASSUME TypeInv, PauseInv, NEW r \in Reqs, NEW next \in RequestLabels,
         pc[r] \in PastUpdate, NEW s, NEW an, NEW wk, NEW k, Save(r, s, an, wk, k, next, "done"),
         \A q \in Reqs \ {r} : seen'[q] = seen[q],
         UNCHANGED <<data, lease, local, home>>, why'[First] = why[First],
         s \in {row.status, "stopping", "paused", "deleting", "completed"},
         row.exists /\ s \in {"paused", "deleting"} => row.status = s \/ LetGo,
         an = "completed" => row.analysis = "completed",
         next \in Finalizing \cup Committed => pc[r] \in Finalizing \cup Committed,
         next \in Begun => s = "deleting" \/ pc[r] \in Begun,
         row.exists /\ row.status = "pause_requested" =>
           \/ ~WillSettle(r)
           \/ s \in {"stopping", "paused"}
           \/ /\ s = row.status /\ seen'[r] = seen[r]
              /\ next = "p_fin1" \/ (next = "p_status" /\ pc[r] = "p_stopping")
  PROVE  PauseInv'
  <1>1. PICK x \in {next, "done"} :
          /\ pc' = [pc EXCEPT ![r] = x] /\ pc'[r] = x
          /\ \/ /\ x = next /\ Allowed(s) /\ row'.exists = row.exists /\ row'.status = s
                /\ row'.analysis = an
             \/ x = "done" /\ ~Allowed(s) /\ row' = row
    BY SaveMeans, PauseTypes
  <1>2. Signalled' <=> Signalled
    BY DEF Signalled, local
  <1>3. "done" \notin Finalizing \cup Committed /\ "done" \notin Begun
    BY DEF Finalizing, Committed, Begun, CleanupSteps
  <1>4. CASE row.exists
    <2>1. /\ row.status # "processing" /\ row.status \in Reached
          /\ row.status \in {"paused", "deleting"} => LetGo
          /\ x \in Finalizing \cup Committed => LetGo /\ ~Lease!LeaseActive
      BY <1>1, <1>3, <1>4, RequestFinds
    <2>2. row'.status \in Reached /\ row'.status # "processing"
      BY <1>1, <2>1 DEF Reached, DeletePending
    <2>3. row'.status \in {"paused", "deleting"} => LetGo
      BY <1>1, <1>4, <2>1
    <2>4. row.status = "deleting" \/ x \in Begun => row'.status = "deleting"
      <3>1. row.status = "deleting" /\ Allowed(s) => s = "deleting"
        BY PauseTypes, AllowedMeans
      <3>2. pc[r] \in Begun => row.status = "deleting"
        BY <1>4, RequestFinds
      <3> QED BY <1>1, <1>3, <3>1, <3>2
    <2>5. row'.status = "pause_requested" =>
            WillSettle(r)' \/ (row.status = "pause_requested" /\ ~WillSettle(r))
      <3> SUFFICES ASSUME row'.status = "pause_requested", WillSettle(r)
                   PROVE  WillSettle(r)'
        BY <1>1, <2>1
      <3>1. row.status = "pause_requested"
        BY <1>1
      <3>2. Allowed("stopping") /\ Allowed("paused") /\ Allowed(row.status)
        BY <1>4, <3>1, AlwaysAllowed, PauseTypes
      <3>3. s \in {"stopping", "paused"} \/ s = row.status
        BY <1>4, <3>1
      <3>4. Allowed(s) /\ s = "pause_requested"
        BY <1>1, <3>2, <3>3
      <3>5. /\ x = next /\ seen'[r] = seen[r]
            /\ next = "p_fin1" \/ (next = "p_status" /\ pc[r] = "p_stopping")
        BY <1>1, <1>4, <3>1, <3>4
      <3> QED BY <1>1, <3>5 DEF WillSettle
    <2> QED BY <1>1, <1>2, <2>1, <2>2, <2>3, <2>4, <2>5, RequestKeeps
            DEF RequestStep, RequestRow, RequestLabels, local, lease, data
  <1>5. CASE ~row.exists
    <2>1. row' = row /\ x = "done"
      BY <1>1, <1>5 DEF Allowed
    <2> QED BY <1>1, <1>5, <2>1, GoneKeeps DEF local
  <1> QED BY <1>4, <1>5

\* The classes that the labels of requests belong to.
LEMMA RequestFacts ==
  /\ {"p_read", "p_update", "p_wait", "p_paused", "p_stopping", "p_status", "p_fin1", "p_fin2",
      "d_read", "d_update", "d_wait", "d_timeout", "f_wait", "f_read"} \cup CleanupSteps
       \subseteq RequestLabels
  /\ "done" \in RequestLabels
  /\ {"p_wait", "p_paused", "p_stopping", "p_status", "p_fin1", "p_fin2",
      "d_wait", "d_timeout", "f_wait", "f_read"} \cup CleanupSteps \subseteq PastUpdate
  /\ {"done", "p_read", "p_wait", "p_stopping", "p_status", "p_update", "d_read", "d_update",
      "d_wait", "d_timeout", "f_wait", "f_read", "c_check", "c_back"}
       \cap (Finalizing \cup Committed) = {}
  /\ {"done", "p_read", "p_wait", "p_stopping", "p_status", "p_update", "d_read", "d_update",
      "d_wait", "d_timeout", "f_wait", "f_read", "c_check", "c_back", "c_begin",
      "p_paused", "p_fin1", "p_fin2"} \cap Begun = {}
  /\ {"c_mark", "c_recheck", "c_storage", "c_children", "c_staging", "c_hard", "c_fail"}
       \subseteq Begun /\ Begun \subseteq Committed /\ "c_begin" \in Committed
  /\ Reading \cap PastUpdate = {} /\ "done" \notin Reading \cup PastUpdate
  BY DEF RequestLabels, PauseLabels, DeleteLabels, CleanupSteps, PastUpdate, Finalizing, Committed,
         Begun, Reading

LEMMA PauseReadKeeps ==
  ASSUME TypeInv, PauseInv, NEW r \in Reqs, PauseRead(r)
  PROVE  PauseInv'
  <1> USE RequestFacts
  <1>1. /\ pc[r] = "p_read" /\ UNCHANGED <<row, data, lease, events, home, worker, crashes, intent>>
        /\ \A q \in Reqs \ {r} : seen'[q] = seen[q]
    BY PauseTypes DEF PauseRead, Leave, Remember
  <1>2. \A p \in Procs : reg'[p].active = reg[p].active
    BY PauseTypes, StopRequested DEF PauseRead
  <1>3. ~WillSettle(r)
    BY <1>1 DEF WillSettle
  <1>4. CASE PauseIgnored(home[r])
    <2>1. pc' = [pc EXCEPT ![r] = "done"] /\ reg' = reg
      BY <1>4 DEF PauseRead, Leave, Goto
    <2> QED BY <1>1, <1>3, <2>1, PlainRequest DEF data, lease, worker, Reading
  <1>5. CASE ~PauseIgnored(home[r])
    <2>1. pc' = [pc EXCEPT ![r] = "p_update"] /\ seen'[r].status = row.status
      BY <1>5, PauseTypes DEF PauseRead, Goto, Remember, Snapshot
    <2>2. RequestRow(r, "p_update")
      BY <1>1, <1>3, <2>1, RequestFinds DEF RequestRow, Reading, data
    <2>3. RequestStep(r, "p_update")
      BY <1>1, <1>2, <2>1, <2>2 DEF RequestStep, lease, worker
    <2> QED BY <2>3, RequestKeeps DEF RequestLabels
  <1> QED BY <1>4, <1>5

LEMMA PauseUpdateKeeps ==
  ASSUME TypeInv, PauseInv, NEW r \in Reqs, PauseUpdate(r)
  PROVE  PauseInv'
  <1> USE RequestFacts
  <1> DEFINE s == PauseStatus(seen[r].status)
  <1>1. /\ pc[r] = "p_update" /\ Save(r, s, "pause_requested", "pause_requested", FALSE, "p_wait", "done")
        /\ UNCHANGED <<data, lease, local, home, seen, worker, crashes, intent>>
    BY DEF PauseUpdate
  <1>2. /\ s \in {"completed", "pause_requested", "stopping"}
        /\ s = "pause_requested" => seen[r].status # "completed"
        /\ seen[r].status = "processing" => s = "pause_requested"
    BY DEF PauseStatus
  <1> HIDE DEF s
  <1>3. PICK x \in {"p_wait", "done"} :
          /\ pc' = [pc EXCEPT ![r] = x] /\ pc'[r] = x
          /\ \/ /\ x = "p_wait" /\ Allowed(s) /\ row'.exists = row.exists /\ row'.status = s
                /\ row'.analysis = "pause_requested"
             \/ x = "done" /\ ~Allowed(s) /\ row' = row
    <2>1. \/ /\ Allowed(s) /\ pc' = [pc EXCEPT ![r] = "p_wait"]
             /\ row'.exists = row.exists /\ row'.status = s /\ row'.analysis = "pause_requested"
          \/ ~Allowed(s) /\ row' = row /\ pc' = [pc EXCEPT ![r] = "done"]
      BY <1>1, SaveMeans, PauseTypes
    <2> QED BY <2>1, PauseTypes
  <1>4. ~WillSettle(r) /\ (x = "p_wait" /\ s = "pause_requested" => WillSettle(r)')
    BY <1>1, <1>2, <1>3 DEF WillSettle
  <1>5. row.exists /\ row.status = "processing" => Allowed(s)
    BY <1>1, <1>2, RequestFinds, AlwaysAllowed, PauseTypes DEF Reading
  <1>6. row.status = "deleting" => ~Allowed(s)
    BY <1>2, AllowedMeans, PauseTypes
  <1>7. RequestRow(r, x)
    BY <1>1, <1>2, <1>3, <1>4, <1>5, <1>6, RequestFinds DEF RequestRow, Reached, DeletePending, data
  <1>8. RequestStep(r, x)
    BY <1>1, <1>3, <1>7 DEF RequestStep, lease, local, worker
  <1> QED BY <1>8, RequestKeeps DEF RequestLabels

LEMMA DeleteReadKeeps ==
  ASSUME TypeInv, PauseInv, NEW r \in Reqs, DeleteRead(r)
  PROVE  PauseInv'
  <1> USE RequestFacts
  <1>1. /\ pc[r] = "d_read" /\ UNCHANGED <<row, data, lease, home, worker, crashes, intent>>
        /\ \A q \in Reqs \ {r} : seen'[q] = seen[q]
    BY PauseTypes DEF DeleteRead, Leave, Remember
  <1>2. \A p \in Procs : reg'[p].active = reg[p].active
    BY PauseTypes, StopRequested DEF DeleteRead, local
  <1>3. ~WillSettle(r)
    BY <1>1 DEF WillSettle
  <1>4. CASE ~row.exists \/ row.status = "cancelled"
    <2>1. pc' = [pc EXCEPT ![r] = "done"] /\ UNCHANGED local
      BY <1>4 DEF DeleteRead, Leave, Goto
    <2> QED BY <1>1, <1>3, <2>1, PlainRequest DEF data, lease, local, worker, Reading
  <1>5. CASE ~(~row.exists \/ row.status = "cancelled")
    <2>1. pc' = [pc EXCEPT ![r] = "d_update"] /\ seen'[r].status = row.status
      <3>1. ASSUME NEW c, NEW d
            PROVE  [Snapshot EXCEPT !.strategy = c, !.ack = d].status = row.status
        BY Zenon DEF Snapshot
      <3>2. /\ pc' = [pc EXCEPT ![r] = "d_update"]
            /\ seen'[r] = [Snapshot EXCEPT !.strategy = EffectiveStrategy(r),
                                           !.ack = reg'[home[r]].acked]
        BY <1>5, PauseTypes DEF DeleteRead, Goto, Remember
      <3> QED BY <3>1, <3>2
    <2>2. RequestRow(r, "d_update")
      BY <1>1, <1>3, <2>1, RequestFinds DEF RequestRow, Reading, data
    <2>3. RequestStep(r, "d_update")
      BY <1>1, <1>2, <2>1, <2>2 DEF RequestStep, lease, worker
    <2> QED BY <2>3, RequestKeeps DEF RequestLabels
  <1> QED BY <1>4, <1>5

LEMMA DeleteUpdateKeeps ==
  ASSUME TypeInv, PauseInv, NEW r \in Reqs, DeleteUpdate(r)
  PROVE  PauseInv'
  <1> USE RequestFacts
  <1> DEFINE s == AcceptStatus(r)
  <1>1. /\ pc[r] = "d_update" /\ UNCHANGED <<data, lease, local, home, seen, worker, crashes>>
    BY DEF DeleteUpdate
  <1>2. /\ s \in {row.status, "cancel_requested"}
        /\ seen[r].status = "processing" => s = "cancel_requested"
    BY DEF AcceptStatus, DeletePending
  <1>3. \/ /\ Allowed(s) /\ pc' = [pc EXCEPT ![r] = "d_wait"]
           /\ row' = [row EXCEPT !.status = s, !.analysis = "stopping", !.worker = "cancel_requested",
                                 !.ack = seen[r].ack, !.strategy = seen[r].strategy]
        \/ ~Allowed(s) /\ pc' = [pc EXCEPT ![r] = "done"] /\ row' = row
    BY DEF DeleteUpdate, Goto
  <1> HIDE DEF s
  <1>4. PICK x \in {"d_wait", "done"} :
          /\ pc' = [pc EXCEPT ![r] = x] /\ pc'[r] = x
          /\ \/ /\ x = "d_wait" /\ Allowed(s) /\ row'.exists = row.exists /\ row'.status = s
                /\ row'.analysis = "stopping"
             \/ x = "done" /\ ~Allowed(s) /\ row' = row
    <2>1. ASSUME NEW c, NEW d,
                 row' = [row EXCEPT !.status = s, !.analysis = "stopping", !.worker = "cancel_requested",
                                    !.ack = c, !.strategy = d]
          PROVE  row'.exists = row.exists /\ row'.status = s /\ row'.analysis = "stopping"
      BY <2>1, PauseTypes, Zenon DEF Rows
    <2> QED BY <1>3, <2>1, PauseTypes
  <1>5. ~WillSettle(r)
    BY <1>1 DEF WillSettle
  <1>6. row.exists /\ row.status = "processing" => Allowed(s) /\ s = "cancel_requested"
    BY <1>1, <1>2, RequestFinds, AlwaysAllowed, PauseTypes DEF Reading
  <1>7. row.status = "deleting" /\ Allowed(s) => s = "deleting"
    BY <1>2, AllowedMeans, PauseTypes
  <1>8. RequestRow(r, x)
    BY <1>1, <1>2, <1>4, <1>5, <1>6, <1>7, RequestFinds DEF RequestRow, Reached, DeletePending, data
  <1>9. RequestStep(r, x)
    BY <1>1, <1>4, <1>8 DEF RequestStep, lease, local, worker
  <1> QED BY <1>9, RequestKeeps DEF RequestLabels

LEMMA PauseWaitKeeps ==
  ASSUME TypeInv, PauseInv, NEW r \in Reqs,
         \/ WaitEnds(r, "p_wait", "p_paused", "p_stopping")
         \/ WaitEnds(r, "d_wait", "c_check", "d_timeout")
  PROVE  PauseInv'
  <1> USE RequestFacts
  <1>1. PICK x \in {"p_paused", "p_stopping", "c_check", "d_timeout"} :
          /\ pc' = [pc EXCEPT ![r] = x]
          /\ x \in {"p_paused", "p_stopping"} => pc[r] = "p_wait"
          /\ x \in {"c_check", "d_timeout"} => pc[r] = "d_wait"
          /\ x = "p_paused" => Inactive(home[r])
    BY DEF WaitEnds, Goto
  <1>2. UNCHANGED <<row, data, lease, local, home, seen, worker, crashes, intent>>
    BY DEF WaitEnds
  <1>3. WillSettle(r) => WillSettle(r)'
    BY <1>1, <1>2, PauseTypes DEF WillSettle
  <1>4. x \in Finalizing \cup Committed => x = "p_paused"
    BY <1>1
  <1>5. x \notin Begun /\ x \in PastUpdate /\ pc[r] \in PastUpdate /\ x \in RequestLabels
    BY <1>1 DEF CleanupSteps
  <1> QED BY <1>1, <1>2, <1>3, <1>4, <1>5, RequestFinds, PlainRequest
          DEF data, lease, local, worker, CleanupSteps

LEMMA PausePublishKeeps ==
  ASSUME TypeInv, PauseInv, NEW r \in Reqs, PausePaused(r) \/ PauseStopping(r)
  PROVE  PauseInv'
  <1> USE RequestFacts
  <1> DEFINE s == row.status
  <1>1. /\ s = row.status
        /\ s \in {row.status, "stopping", "paused", "deleting", "completed"}
        /\ row.exists /\ s \in {"paused", "deleting"} => row.status = s \/ LetGo
    OBVIOUS
  <1>2. /\ \A q \in Reqs : seen'[q] = seen[q]
        /\ UNCHANGED <<data, lease, local, home>> /\ why'[First] = why[First]
    BY DEF PausePaused, PauseStopping, worker
  <1>3. CASE PausePaused(r)
    <2>1. /\ pc[r] = "p_paused" /\ pc[r] \in Finalizing \cup Committed
          /\ Save(r, s, "paused", "paused", TRUE, "p_fin1", "done")
      BY <1>3 DEF PausePaused, Finalizing
    <2> HIDE DEF s
    <2>2. "p_fin1" \in RequestLabels /\ "p_fin1" \notin Begun /\ pc[r] \in PastUpdate
      BY <2>1
    <2> QED BY <1>1, <1>2, <2>1, <2>2, SaveRequest, ZenonT(60)
  <1>4. CASE PauseStopping(r)
    <2>1. /\ pc[r] = "p_stopping"
          /\ Save(r, s, "stopping", "stopping", FALSE, "p_status", "done")
      BY <1>4 DEF PauseStopping
    <2> HIDE DEF s
    <2>2. "p_status" \in RequestLabels /\ "p_status" \notin Begun /\ pc[r] \in PastUpdate
      BY <2>1
    <2> QED BY <1>1, <1>2, <2>1, <2>2, SaveRequest, ZenonT(60)
  <1> QED BY <1>3, <1>4

LEMMA PauseTimedOutKeeps ==
  ASSUME TypeInv, PauseInv, NEW r \in Reqs, PauseTimedOut(r)
  PROVE  PauseInv'
  <1> USE RequestFacts
  <1> DEFINE s == IF seen[r].status = "completed" THEN "completed" ELSE "stopping"
  <1>1. /\ pc[r] = "p_status" /\ Save(r, s, row.analysis, row.worker, row.ack, "done", "done")
        /\ UNCHANGED <<data, lease, local, home, worker, crashes, intent>>
        /\ \A q \in Reqs \ {r} : seen'[q] = seen[q]
    BY PauseTypes DEF PauseTimedOut, Remember
  <1>2. s \in {"completed", "stopping"} /\ (WillSettle(r) => s = "stopping")
    BY <1>1 DEF WillSettle
  <1> HIDE DEF s
  <1> QED BY <1>1, <1>2, SaveRequest DEF worker

LEMMA FinalizeReadKeeps ==
  ASSUME TypeInv, PauseInv, NEW r \in Reqs, FinalizeRead(r, "p_fin1", "p_fin2", "done")
  PROVE  PauseInv'
  <1> USE RequestFacts
  <1>1. /\ pc[r] = "p_fin1"
        /\ UNCHANGED <<row, data, lease, local, home, worker, crashes, intent>>
        /\ \A q \in Reqs \ {r} : seen'[q] = seen[q]
    BY PauseTypes DEF FinalizeRead, Leave, Remember
  <1>2. PICK x \in {"p_fin2", "done"} :
          /\ pc' = [pc EXCEPT ![r] = x]
          /\ x = "p_fin2" => seen'[r].status = row.status
          /\ row.exists /\ Inactive(home[r]) /\ row.status = "pause_requested" => x = "p_fin2"
    BY PauseTypes DEF FinalizeRead, Leave, Goto, Remember, Snapshot
  <1>3. row.exists => LetGo /\ ~Lease!LeaseActive /\ Inactive(home[r])
    BY <1>1, RequestFinds DEF Finalizing
  <1>4. row.exists /\ row.status = "pause_requested" => WillSettle(r)'
    BY <1>2, <1>3, PauseTypes DEF WillSettle
  <1>5. x \notin Begun /\ pc[r] \in PastUpdate /\ x \in RequestLabels
    BY <1>1, <1>2
  <1> QED BY <1>1, <1>2, <1>3, <1>4, <1>5, RequestFinds, PlainRequest DEF data, lease, local, worker

LEMMA FinalizeWriteKeeps ==
  ASSUME TypeInv, PauseInv, NEW r \in Reqs, FinalizeWrite(r, "p_fin2", "done", "done")
  PROVE  PauseInv'
  <1> USE RequestFacts
  <1> DEFINE s == IF seen[r].status = "completed" THEN "completed" ELSE "paused"
  <1>1. /\ pc[r] = "p_fin2" /\ Save(r, s, "paused", "paused", TRUE, "done", "done")
        /\ UNCHANGED <<data, lease, local, home, worker, crashes, intent>>
        /\ \A q \in Reqs \ {r} : seen'[q] = seen[q]
    BY PauseTypes DEF FinalizeWrite, Remember
  <1>2. s \in {"completed", "paused"} /\ (WillSettle(r) => s = "paused")
    BY <1>1 DEF WillSettle
  <1>3. row.exists => LetGo
    BY <1>1, RequestFinds DEF Finalizing
  <1> HIDE DEF s
  <1> QED BY <1>1, <1>2, <1>3, SaveRequest DEF worker

LEMMA DeleteTimedOutKeeps ==
  ASSUME TypeInv, PauseInv, NEW r \in Reqs, DeleteTimedOut(r)
  PROVE  PauseInv'
  <1> USE RequestFacts
  <1> DEFINE s == IF seen[r].status \in DeletePending \ {"cancel_requested"}
                  THEN row.status ELSE "stopping"
             next == IF FinalizerRuns(home[r]) THEN "done" ELSE "f_wait"
  <1>1. /\ pc[r] = "d_timeout" /\ Save(r, s, "stopping", "stopping", FALSE, next, "done")
        /\ UNCHANGED <<data, lease, local, home, seen, left, crashes, intent>>
        /\ why'[First] = why[First]
    BY PauseTypes DEF DeleteTimedOut
  <1>2. s \in {row.status, "stopping"} /\ next \in {"done", "f_wait"} /\ ~WillSettle(r)
    BY <1>1 DEF WillSettle
  <1> HIDE DEF s, next
  <1> QED BY <1>1, <1>2, SaveRequest

LEMMA FinalizerKeeps ==
  ASSUME TypeInv, PauseInv, NEW r \in Reqs, FinalizerWait(r) \/ FinalizerRead(r)
  PROVE  PauseInv'
  <1> USE RequestFacts
  <1>1. /\ UNCHANGED <<row, data, lease, local, home, worker, crashes, intent>>
        /\ \A q \in Reqs \ {r} : seen'[q] = seen[q]
    BY PauseTypes DEF FinalizerWait, FinalizerRead, Leave, Remember
  <1>2. PICK x \in {"f_read", "c_check", "done"} : pc' = [pc EXCEPT ![r] = x]
    BY DEF FinalizerWait, FinalizerRead, Leave, Goto
  <1>3. pc[r] \in {"f_wait", "f_read"}
    BY DEF FinalizerWait, FinalizerRead
  <1>4. /\ ~WillSettle(r) /\ pc[r] \in PastUpdate /\ x \in RequestLabels
        /\ x \notin Finalizing \cup Committed /\ x \notin Begun
    BY <1>3 DEF WillSettle, CleanupSteps
  <1> QED BY <1>1, <1>2, <1>4, RequestFinds, PlainRequest DEF data, lease, local, worker

\* Steps of a cleanup that leave the row alone.
LEMMA CleanupPlainKeeps ==
  ASSUME TypeInv, PauseInv, NEW r \in Reqs,
         \/ CleanupCheck(r) \/ CleanupRecheck(r) \/ CleanupStorage(r) \/ CleanupStaging(r)
  PROVE  PauseInv'
  <1> USE RequestFacts
  <1>1. /\ UNCHANGED <<row, done, lease, local, home, seen, worker, crashes, intent>>
        /\ pc[r] \in {"c_check", "c_recheck", "c_storage", "c_staging"}
    BY DEF CleanupCheck, CleanupRecheck, CleanupStorage, CleanupStaging, data
  <1>2. PICK x \in {"done", "c_back", "c_begin", "c_storage", "c_children", "c_hard", "c_fail"} :
          /\ pc' = [pc EXCEPT ![r] = x]
          /\ x = "c_begin" => Inactive(home[r])
          /\ x \in {"c_storage", "c_children", "c_hard", "c_fail"} => pc[r] \in Begun
    BY DEF CleanupCheck, CleanupRecheck, CleanupStorage, CleanupStaging, Goto
  <1>3. pc[r] \in PastUpdate /\ x \in RequestLabels /\ ~WillSettle(r)
    BY <1>1, <1>2 DEF CleanupSteps, WillSettle
  <1>4. row.exists /\ x \in Finalizing \cup Committed => LetGo /\ ~Lease!LeaseActive
    BY <1>1, <1>2, RequestFinds
  <1>5. row.exists /\ x \in Begun => row.status = "deleting"
    BY <1>2, RequestFinds
  <1> QED BY <1>1, <1>2, <1>3, <1>4, <1>5, RequestFinds, PlainRequest DEF local, lease, worker

LEMMA CleanupBackKeeps ==
  ASSUME TypeInv, PauseInv, NEW r \in Reqs, CleanupBack(r)
  PROVE  PauseInv'
  <1> USE RequestFacts
  <1>1. /\ pc[r] = "c_back" /\ Save(r, "stopping", "stopping", "stopping", FALSE, "done", "done")
        /\ UNCHANGED <<data, lease, local, home>> /\ why'[First] = why[First]
        /\ \A q \in Reqs : seen'[q] = seen[q]
    BY DEF CleanupBack, worker
  <1>2. pc[r] \in PastUpdate /\ ~WillSettle(r)
    BY <1>1 DEF CleanupSteps, WillSettle
  <1> QED BY <1>1, <1>2, SaveRequest

\* Steps of a cleanup that write the row.
LEMMA CleanupSaveKeeps ==
  ASSUME TypeInv, PauseInv, NEW r \in Reqs, CleanupBegin(r) \/ CleanupMark(r) \/ CleanupFailed(r)
  PROVE  PauseInv'
  <1> USE RequestFacts
  <1>1. /\ UNCHANGED <<data, lease, local, home>> /\ why'[First] = why[First]
        /\ \A q \in Reqs : seen'[q] = seen[q]
    BY DEF CleanupBegin, CleanupMark, CleanupFailed, worker
  <1>2. pc[r] \in {"c_begin", "c_mark", "c_fail"}
    BY DEF CleanupBegin, CleanupMark, CleanupFailed
  <1>3. pc[r] \in PastUpdate /\ pc[r] \in Finalizing \cup Committed /\ ~WillSettle(r)
    BY <1>2 DEF CleanupSteps, WillSettle
  <1>4. /\ row.exists => LetGo
        /\ row.exists /\ pc[r] \in Begun => row.status = "deleting"
    BY <1>3, RequestFinds
  <1> DEFINE s == row.status
             an == row.analysis
             wk == row.worker
             k == row.ack
  <1>5. /\ s = row.status /\ s \in {row.status, "stopping", "paused", "deleting", "completed"}
        /\ an = "completed" => row.analysis = "completed"
    OBVIOUS
  <1>6. \/ Save(r, "deleting", an, wk, k, "c_mark", "done")
        \/ Save(r, s, an, "stopped", TRUE, "done", "done")
        \/ pc[r] \in Begun /\ Save(r, s, "stopping", "deleting", k, "c_recheck", "done")
        \/ pc[r] \in Begun /\ Save(r, "deleting", "stopping", "deleting", k, "done", "done")
    BY DEF CleanupBegin, CleanupMark, CleanupFailed
  <1> HIDE DEF s, an, wk, k
  <1>7. CASE Save(r, "deleting", an, wk, k, "c_mark", "done")
    <2>1. "c_mark" \in RequestLabels
      BY DEF CleanupSteps
    <2> QED BY <1>1, <1>3, <1>4, <1>5, <1>7, <2>1, SaveRequest
  <1>8. CASE Save(r, s, an, "stopped", TRUE, "done", "done")
    BY <1>1, <1>3, <1>4, <1>5, <1>8, SaveRequest
  <1>9. CASE pc[r] \in Begun /\ Save(r, s, "stopping", "deleting", k, "c_recheck", "done")
    <2>1. "c_recheck" \in RequestLabels
      BY DEF CleanupSteps
    <2> QED BY <1>1, <1>3, <1>4, <1>5, <1>9, <2>1, SaveRequest
  <1>10. CASE pc[r] \in Begun /\ Save(r, "deleting", "stopping", "deleting", k, "done", "done")
    BY <1>1, <1>3, <1>4, <1>10, SaveRequest
  <1> QED BY <1>6, <1>7, <1>8, <1>9, <1>10

\* The child rows go only while the import reads deleting.
LEMMA CleanupChildrenKeeps ==
  ASSUME TypeInv, PauseInv, NEW r \in Reqs, CleanupChildren(r)
  PROVE  PauseInv'
  <1> USE RequestFacts
  <1>1. /\ pc[r] = "c_children"
        /\ UNCHANGED <<row, objects, staged, lease, local, home, seen, worker, crashes, intent>>
    BY DEF CleanupChildren
  <1>2. PICK x \in {"c_staging", "c_fail"} : pc' = [pc EXCEPT ![r] = x]
    BY DEF CleanupChildren, Goto
  <1>3. /\ x \in Begun /\ x \in RequestLabels /\ pc[r] \in Begun /\ ~WillSettle(r)
    BY <1>1, <1>2 DEF CleanupSteps, WillSettle
  <1>4. row.exists => row.status = "deleting" /\ LetGo /\ ~Lease!LeaseActive
    BY <1>3, RequestFinds
  <1>5. RequestRow(r, x)
    BY <1>1, <1>3, <1>4, RequestFinds DEF RequestRow
  <1>6. RequestStep(r, x)
    BY <1>1, <1>2, <1>5 DEF RequestStep, lease, local, worker
  <1> QED BY <1>3, <1>6, RequestKeeps DEF RequestLabels

LEMMA HardDeleteKeeps ==
  ASSUME TypeInv, PauseInv, NEW r \in Reqs, HardDelete(r)
  PROVE  PauseInv'
  <1> USE RequestFacts
  <1>1. /\ pc[r] = "c_hard" /\ UNCHANGED <<objects, staged, local, home, worker, crashes, intent>>
    BY DEF HardDelete
  <1>2. CASE row.exists /\ row' = [row EXCEPT !.exists = FALSE] /\ Leave(r, "done")
    <2>1. ~row'.exists /\ pc' = [pc EXCEPT ![r] = "done"]
      BY <1>2, PauseTypes, Zenon DEF Rows, Leave, Goto
    <2> QED BY <1>1, <2>1, GoneKeeps DEF local
  <1>3. CASE Goto(r, "c_fail") /\ UNCHANGED <<row, waves, done, lease, seen>>
    <2>1. "c_fail" \in RequestLabels /\ "c_fail" \in Begun /\ pc[r] \in Begun /\ pc[r] \in PastUpdate
      BY <1>1 DEF CleanupSteps
    <2>2. ~WillSettle(r) /\ pc' = [pc EXCEPT ![r] = "c_fail"]
      BY <1>1, <1>3 DEF WillSettle, Goto
    <2>3. row.exists => row.status = "deleting" /\ LetGo /\ ~Lease!LeaseActive
      BY <2>1, RequestFinds
    <2> QED BY <1>1, <1>3, <2>1, <2>2, <2>3, PlainRequest DEF local, lease, worker
  <1> QED BY <1>2, <1>3 DEF HardDelete

-----------------------------------------------------------------------------
(* The invariant holds.                                                    *)

LEMMA PauseInvInit == Init => PauseInv
  <1> SUFFICES ASSUME Init PROVE PauseInv
    OBVIOUS
  <1>1. /\ row = [exists |-> TRUE, status |-> InitStatus, analysis |-> "queued",
                  worker |-> "queued", ack |-> FALSE, strategy |-> "none"]
        /\ owner = First /\ valid = TRUE
        /\ reg = [p \in Procs |-> InitReg] /\ events = [p \in Procs |-> FALSE]
    BY DEF Init
  <1>2. /\ row.exists /\ row.status \in {"processing", "completed"}
        /\ row.analysis = "queued" /\ row.worker = "queued"
    BY <1>1, ConfigAssumption
  <1>3. \A p \in Procs : ~reg[p].active /\ ~reg[p].pause /\ ~reg[p].delete /\ ~events[p]
    BY <1>1 DEF InitReg
  <1>4. /\ pc[First] = "w_register" /\ \A w \in Workers \ {First} : pc[w] = "unused"
        /\ \A r \in Reqs : pc[r] = "idle"
        /\ \A p \in Procs : pc[p] = "up"
    BY ConfigAssumption, ActorAssumption DEF Init, Actors
  <1>5. Alone
    BY <1>4 DEF Alone, Holding, AtWork
  <1>6. Owned /\ Entered
    BY <1>1, <1>3 DEF Owned, Entered
  <1>7. FoundGone
    BY <1>2, <1>4 DEF FoundGone, Finalizing, Committed, CleanupSteps
  <1>8. Untouched
    BY <1>2, <1>4 DEF Untouched, Reached, Reading, PastUpdate, PauseLabels, DeleteLabels, CleanupSteps
  <1>9. StopReason = "none"
    BY <1>2 DEF StopReason, Cancellation, DeletePending
  <1>10. StopIsPending
    BY <1>3, <1>4, <1>9 DEF StopIsPending, Signalled, Stopped
  <1>11. PauseIsPending /\ Truthful
    BY <1>2, <1>4 DEF PauseIsPending, Truthful, Begun, Committed, CleanupSteps, Finishing
  <1> QED BY <1>5, <1>6, <1>7, <1>8, <1>10, <1>11 DEF PauseInv

\* Every step of the first worker.
LEMMA FirstKeeps ==
  ASSUME TypeInv, PauseInv, Worker(First)
  PROVE  PauseInv'
  <1>1. ~FinalizeWrite(First, "w_early2", "w_release", "w_drop")
    BY DEF FinalizeWrite, PauseInv, Alone
  <1> QED BY <1>1, WRegisterKeeps, WLoadKeeps, WPublishKeeps, WCheckKeeps, WRaiseKeeps, WUploadKeeps,
             WWriteKeeps, WFinalKeeps, WAssertKeeps, WStateKeeps, WCompleteKeeps, WPublishedKeeps,
             WStopKeeps, WLostKeeps, WFailKeeps, WReleaseKeeps, WEarlyKeeps, WLateKeeps, WPausedKeeps
          DEF Worker, WComplete, WFinalize

\* Nobody else works, and no process is starting.
LEMMA OthersRest ==
  ASSUME Unresumed, TypeInv, PauseInv
  PROVE  /\ \A w \in Workers \ {First} : ~Worker(w)
         /\ \A p \in Procs : ~Boot(p) /\ ~Crash(p)
         /\ \A r \in Reqs : ~Resume(r)
  <1>1. ASSUME NEW w \in Workers \ {First}, Worker(w) PROVE FALSE
    <2>1. pc[w] = "unused"
      BY <1>1 DEF PauseInv, Alone
    <2> QED BY <1>1, <2>1
        DEF Worker, WRegister, WLoad, WPublish, WCheck, WRaise, WUpload, WWrite, WFinal, WComplete,
            CompleteAssert, CompleteState, CompleteWrite, WPublished, WStop, WLost, WFail, WRelease,
            WFinalize, FinalizeRead, FinalizeWrite
  <1>2. ASSUME NEW p \in Procs, Boot(p) PROVE FALSE
    <2>1. pc[p] = "up"
      BY <1>2 DEF PauseInv, Alone
    <2> QED BY <1>2, <2>1 DEF Boot, BootSelect, BootLease, BootRecover, BootRequeue, BootStart, BootFailed
  <1>3. ASSUME NEW p \in Procs, Crash(p) PROVE FALSE
    BY <1>3 DEF Unresumed, Crash, TypeInv, TypeOK
  <1>4. ASSUME NEW r \in Reqs, Resume(r) PROVE FALSE
    <2>1. pc[r] \in {"idle", "done"} \cup PauseLabels \cup DeleteLabels
      BY DEF PauseInv, Alone
    <2>2. pc[r] \notin {"r_read", "r_lease", "r_update", "k_read", "k_final", "k_assert", "k_state",
                        "k_complete", "k_queue", "k_start", "k_failed"}
      BY <2>1 DEF PauseLabels, DeleteLabels, CleanupSteps
    <2> QED BY <1>4, <2>2
        DEF Resume, ResumeRead, ResumeLease, ResumeUpdate, Complete, CompleteRead, CompleteFinal,
            CompleteAssert, CompleteState, CompleteWrite, CompleteQueue, CompleteStart, CompleteFailed
  <1> QED BY <1>1, <1>2, <1>3, <1>4

LEMMA PauseInvStep ==
  ASSUME Unresumed, TypeInv, PauseInv, [Next]_vars
  PROVE  PauseInv'
  <1>1. ASSUME NEW r \in Reqs, Pause(r) PROVE PauseInv'
    BY <1>1, PauseReadKeeps, PauseUpdateKeeps, PauseWaitKeeps, PausePublishKeeps, PauseTimedOutKeeps,
       FinalizeReadKeeps, FinalizeWriteKeeps DEF Pause
  <1>2. ASSUME NEW r \in Reqs, Delete(r) PROVE PauseInv'
    BY <1>2, DeleteReadKeeps, DeleteUpdateKeeps, PauseWaitKeeps, DeleteTimedOutKeeps, FinalizerKeeps
       DEF Delete
  <1>3. ASSUME NEW r \in Reqs, Cleanup(r) PROVE PauseInv'
    BY <1>3, CleanupPlainKeeps, CleanupBackKeeps, CleanupSaveKeeps, CleanupChildrenKeeps,
       HardDeleteKeeps DEF Cleanup
  <1>4. CASE \E r \in Reqs : Arrive(r) \/ Request(r)
    BY <1>1, <1>2, <1>3, <1>4, ArriveKeeps, OthersRest DEF Request
  <1>5. CASE \E w \in Workers : Worker(w)
    BY <1>5, FirstKeeps, OthersRest
  <1>6. CASE \E p \in Procs : Boot(p) \/ Crash(p)
    BY <1>6, OthersRest
  <1>7. CASE Expire
    BY <1>7, ExpireKeeps
  <1>8. CASE UNCHANGED vars
    BY <1>8, StutterKeeps
  <1> QED BY <1>4, <1>5, <1>6, <1>7, <1>8 DEF Next

\* What a quiet import has left running: nothing of the invariant's classes.
LEMMA AtRest ==
  ASSUME PauseInv, Quiet
  PROVE  /\ \A r \in Reqs : /\ ~WillSettle(r)
                            /\ pc[r] \notin Reading
         /\ pc[First] = "done"
  <1>1. \A r \in Reqs : ~WillSettle(r) /\ pc[r] \notin Reading
    BY DEF Quiet, WillSettle, Reading
  <1>2. pc[First] \in {"unused", "done", "dead"}
    BY ConfigAssumption DEF Quiet, Alive
  <1>3. pc[First] # "unused" /\ pc[First] # "dead"
    BY DEF PauseInv, Alone, Holding, AtWork
  <1> QED BY <1>1, <1>2, <1>3

LEMMA PauseInvMeans ==
  ASSUME TypeInv, PauseInv
  PROVE  PausedIsQuiet /\ NotStranded /\ CompletedIsTruthful
  <1>1. PausedIsQuiet
    <2> SUFFICES ASSUME row.exists, row.status = "paused", NEW w \in Workers
                 PROVE  ~Writing(w)
      BY DEF PausedIsQuiet
    <2>1. pc[First] \notin {"w_upload", "w_write"}
      BY DEF PauseInv, FoundGone, LetGo, Holding, AtWork
    <2>2. w # First => pc[w] = "unused"
      BY DEF PauseInv, Alone
    <2> QED BY <2>1, <2>2 DEF Writing
  <1>2. NotStranded
    <2> SUFFICES ASSUME Quiet, row.exists
                 PROVE  row.status \in {"paused", "interrupted", "completed"} \cup DeletePending
      BY DEF NotStranded
    <2>1. row.status # "processing"
      <3>1. pc[First] \in Stopped /\ ~AboutToStop
        BY AtRest DEF Stopped, AboutToStop
      <3> QED BY <3>1 DEF PauseInv, StopIsPending
    <2>2. row.status # "pause_requested"
      BY AtRest DEF PauseInv, PauseIsPending
    <2> QED BY <2>1, <2>2 DEF PauseInv, Untouched, Reached
  <1>3. CompletedIsTruthful
    BY DEF CompletedIsTruthful, DeletePending, PauseInv, Truthful
  <1> QED BY <1>1, <1>2, <1>3

\* While the import reads paused no worker is parsing or writing: nobody publishes
\* paused before both owners are gone, however the updates interleave.
THEOREM PausedQuiet == Unresumed => (Spec => []PausedIsQuiet)
  <1> SUFFICES ASSUME Unresumed PROVE Spec => []PausedIsQuiet
    OBVIOUS
  <1>1. TypeInv /\ PauseInv /\ [Next]_vars => PauseInv'
    BY PauseInvStep
  <1>2. TypeInv /\ PauseInv => PausedIsQuiet
    BY PauseInvMeans
  <1> QED BY <1>1, <1>2, PauseInvInit, TypeInvariant, PTL DEF Spec

\* When every thread has ended the import can be taken further: it is done, it can
\* be resumed, or its delete can be retried.
THEOREM ComesToRest == Unresumed => (Spec => []NotStranded)
  <1> SUFFICES ASSUME Unresumed PROVE Spec => []NotStranded
    OBVIOUS
  <1>1. TypeInv /\ PauseInv /\ [Next]_vars => PauseInv'
    BY PauseInvStep
  <1>2. TypeInv /\ PauseInv => NotStranded
    BY PauseInvMeans
  <1> QED BY <1>1, <1>2, PauseInvInit, TypeInvariant, PTL DEF Spec

\* An analysis that reads completed when every thread has ended has analysed all
\* tracks, unless the import is being deleted.
THEOREM CompletedTrue == Unresumed => (Spec => []CompletedIsTruthful)
  <1> SUFFICES ASSUME Unresumed PROVE Spec => []CompletedIsTruthful
    OBVIOUS
  <1>1. TypeInv /\ PauseInv /\ [Next]_vars => PauseInv'
    BY PauseInvStep
  <1>2. TypeInv /\ PauseInv => CompletedIsTruthful
    BY PauseInvMeans
  <1> QED BY <1>1, <1>2, PauseInvInit, TypeInvariant, PTL DEF Spec
=============================================================================
