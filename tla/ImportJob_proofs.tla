-------------------------- MODULE ImportJob_proofs --------------------------
(***************************************************************************)
(* Theorems about ImportJob, for every set of processes, requests, workers *)
(* and tracks that the ASSUMEs of ImportJob allow.                         *)
(***************************************************************************)
EXTENDS ImportJob, TLAPS

-----------------------------------------------------------------------------
(* Type correctness.  TypeOK is not inductive.  A worker publishes an      *)
(* analysis status it computed some steps earlier (WhyFinal), startup      *)
(* recovery writes back one it has read (SeenListed), and the track a      *)
(* worker takes next exists only while some are left (TrackLeft).          *)

Finishing == {"w_assert", "w_state", "w_complete", "w_published"}

WhyFinal == \A w \in Workers :
              pc[w] \in Finishing => why[w] \in {"completed", "partial", "failed"}
SeenListed == \A p \in Procs :
                pc[p] \in {"b_lease", "b_recover"} => seen[p].analysis # "none"
TrackLeft == \A w \in Workers : pc[w] \in {"w_upload", "w_write"} => left[w] # {}

TypeInv == TypeOK /\ WhyFinal /\ SeenListed /\ TrackLeft

-----------------------------------------------------------------------------
(* Records: the row, what a thread remembers of it, a registry entry.      *)

\* The fields of the row.
LEMMA RowTyped ==
  ASSUME row \in Rows
  PROVE  /\ row.exists \in BOOLEAN /\ row.ack \in BOOLEAN
         /\ row.status \in Statuses /\ row.analysis \in AnalysisStates
         /\ row.worker \in WorkerStates /\ row.strategy \in Strategies
  BY Zenon DEF Rows

\* The fields of a remembered row.
LEMMA SeenTyped ==
  ASSUME NEW s \in Snapshots
  PROVE  /\ s.status \in Statuses \cup {"none"} /\ s.analysis \in AnalysisStates \cup {"none"}
         /\ s.worker \in WorkerStates \cup {"none"} /\ s.ack \in BOOLEAN
         /\ s.strategy \in Strategies
  BY Zenon DEF Snapshots

\* The fields of a registry entry, and updates of it.
LEMMA RegisterTyped ==
  ASSUME NEW x \in Registers, NEW b \in BOOLEAN, NEW c \in BOOLEAN,
         NEW d \in BOOLEAN
  PROVE  /\ x.active \in BOOLEAN /\ x.pause \in BOOLEAN
         /\ x.delete \in BOOLEAN /\ x.acked \in BOOLEAN
         /\ [x EXCEPT !.active = b, !.acked = c] \in Registers
         /\ [x EXCEPT !.pause = b, !.delete = c] \in Registers
         /\ [x EXCEPT !.pause = b, !.delete = c, !.acked = d] \in Registers
  BY Zenon DEF Registers

\* Register, acknowledge and clear keep the registry well-formed.
LEMMA RegTyped ==
  ASSUME reg \in [Procs -> Registers], NEW p \in Procs
  PROVE  /\ [reg EXCEPT ![p].active = TRUE, ![p].acked = FALSE] \in [Procs -> Registers]
         /\ [reg EXCEPT ![p].active = FALSE, ![p].acked = TRUE] \in [Procs -> Registers]
         /\ [reg EXCEPT ![p].pause = FALSE, ![p].delete = FALSE] \in [Procs -> Registers]
  BY RegisterTyped, Zenon

\* So does a stop request.
LEMMA RequestStopTyped ==
  ASSUME reg \in [Procs -> Registers], NEW p \in Procs, NEW d \in BOOLEAN, RequestStop(p, d)
  PROVE  reg' \in [Procs -> Registers] /\ reg'[p].acked \in BOOLEAN
  <1> DEFINE x == reg[p]
  <1>1. x \in Registers
    OBVIOUS
  <1>2. (x.delete \/ d) \in BOOLEAN /\ (x.acked \/ ~x.active) \in BOOLEAN
    OBVIOUS
  <1>3. [x EXCEPT !.pause = TRUE, !.delete = x.delete \/ d, !.acked = x.acked \/ ~x.active]
           \in Registers
    BY <1>1, <1>2, RegisterTyped, Zenon
  <1>4. reg' \in [Procs -> Registers]
    BY <1>1, <1>3, Zenon DEF RequestStop
  <1> QED BY <1>4, RegisterTyped

\* So does an acknowledgement.
LEMMA AcknowledgeTyped ==
  ASSUME reg \in [Procs -> Registers], NEW p \in Procs, Acknowledge(p)
  PROVE  reg' \in [Procs -> Registers]
  BY RegTyped, Zenon DEF Acknowledge

\* The trigger only lets a row move to one of the statuses.
LEMMA AllowedTyped ==
  ASSUME row \in Rows, NEW s, Allowed(s)
  PROVE  s \in Statuses
  BY SMTT(30) DEF Rows, Allowed, Successors, Statuses

\* An update of the row with legal states leaves a legal row.
LEMMA SetTyped ==
  ASSUME row \in Rows, NEW s \in Statuses, NEW an \in AnalysisStates,
         NEW wk \in WorkerStates, NEW k \in BOOLEAN, Set(s, an, wk, k)
  PROVE  row' \in Rows
  BY Zenon DEF Rows, Set

\* An update through the trigger leaves a legal row.
LEMMA SaveTyped ==
  ASSUME row \in Rows, NEW a, NEW s, NEW an \in AnalysisStates,
         NEW wk \in WorkerStates, NEW k \in BOOLEAN, NEW next, NEW raised,
         Save(a, s, an, wk, k, next, raised)
  PROVE  row' \in Rows
  BY SetTyped, AllowedTyped DEF Save

\* The update that accepts a delete leaves a legal row.
LEMMA AcceptTyped ==
  ASSUME row \in Rows, NEW s \in Statuses, NEW an \in AnalysisStates,
         NEW wk \in WorkerStates, NEW k \in BOOLEAN, NEW st \in Strategies
  PROVE  /\ [row EXCEPT !.status = s, !.analysis = an, !.worker = wk, !.ack = k,
                        !.strategy = st] \in Rows
         /\ [row EXCEPT !.exists = k] \in Rows
  BY Zenon DEF Rows

\* A snapshot of the row is one of an existing analysis.
LEMMA SnapshotTyped ==
  ASSUME row \in Rows
  PROVE  Snapshot \in Snapshots /\ Snapshot.analysis # "none"
  BY SMTT(30) DEF Rows, Snapshot, Snapshots, AnalysisStates

\* A thread that has read nothing.
LEMMA NothingTyped == Nothing \in Snapshots
  BY SMTT(30) DEF Nothing, Snapshots, Strategies

\* The final analysis status is a final one.
LEMMA FinalAnalysisTyped == FinalAnalysis \in {"completed", "partial", "failed"}
  BY DEF FinalAnalysis

\* Why a worker stops.
LEMMA ReasonTyped ==
  ASSUME NEW p, NEW w
  PROVE  StopReason \in Reasons /\ LocalReason(p) \in Reasons
  BY DEF StopReason, LocalReason, Reasons

\* Noting a reason.
LEMMA WhyTyped ==
  ASSUME why \in [Workers \cup Reqs -> Reasons], NEW a \in Workers \cup Reqs, NEW x \in Reasons
  PROVE  [why EXCEPT ![a] = x] \in [Workers \cup Reqs -> Reasons]
  OBVIOUS

\* A cancellation event is signalled.
LEMMA EventsTyped ==
  ASSUME events \in [Procs -> BOOLEAN], NEW a, home[a] \in Procs, SignalCancellation(a)
  PROVE  events' \in [Procs -> BOOLEAN]
  BY Zenon DEF SignalCancellation

\* What every step below needs of the invariant.
LEMMA RowAndRegistryTyped ==
  ASSUME TypeInv, NEW a \in Actors
  PROVE  /\ row \in Rows /\ reg \in [Procs -> Registers]
         /\ home[a] \in Procs /\ seen[a] \in Snapshots
  BY DEF TypeInv, TypeOK

-----------------------------------------------------------------------------
(* Steps shared by requests, workers and startup.                          *)

\* The cancellation check before a completion.
LEMMA AssertTyped ==
  ASSUME TypeInv, NEW a \in Workers \cup Reqs, NEW at, NEW next, NEW conflict, NEW cancelled,
         CompleteAssert(a, at, next, conflict, cancelled)
  PROVE  /\ events' \in [Procs -> BOOLEAN] 
         /\ \/ pc' = [pc EXCEPT ![a] = next]
            \/ pc' = [pc EXCEPT ![a] = conflict]
            \/ pc' = [pc EXCEPT ![a] = cancelled]
         /\ pc[a] = at
         /\ UNCHANGED <<row, data, lease, reg, home, seen, worker, crashes, intent>>
  <1>1. events \in [Procs -> BOOLEAN] /\ home[a] \in Procs
    BY DEF TypeInv, TypeOK, Actors
  <1>2. events' = events \/ SignalCancellation(a)
    BY DEF CompleteAssert
  <1>3. events' \in [Procs -> BOOLEAN]
    BY <1>1, <1>2, EventsTyped
  <1> QED BY <1>3 DEF CompleteAssert, Goto

\* The compare-and-set of a completion.
LEMMA WriteTyped ==
  ASSUME TypeInv, NEW a \in Workers \cup Reqs, NEW at, NEW next, NEW conflict, NEW cancelled,
         CompleteWrite(a, at, next, conflict, cancelled)
  PROVE  /\ row' \in Rows /\ events' \in [Procs -> BOOLEAN]
         /\ \/ pc' = [pc EXCEPT ![a] = next]
            \/ pc' = [pc EXCEPT ![a] = conflict]
            \/ pc' = [pc EXCEPT ![a] = cancelled]
         /\ pc[a] = at /\ seen' = [seen EXCEPT ![a] = Nothing]
         /\ UNCHANGED <<data, lease, reg, home, worker, crashes, intent>>
  <1>1. events \in [Procs -> BOOLEAN] /\ home[a] \in Procs /\ row \in Rows
    BY DEF TypeInv, TypeOK, Actors
  <1>2. events' = events \/ SignalCancellation(a)
    BY DEF CompleteWrite
  <1>3. events' \in [Procs -> BOOLEAN]
    BY <1>1, <1>2, EventsTyped
  <1>4. \/ row' = row
        \/ Set("completed", CompletedAnalysis(seen[a].analysis), row.worker, row.ack)
    BY DEF CompleteWrite
  <1>5. CompletedAnalysis(seen[a].analysis) \in AnalysisStates /\ "completed" \in Statuses
    BY <1>1, RowTyped, FinalAnalysisTyped DEF CompletedAnalysis, AnalysisStates,
       Statuses
  <1>6. row' \in Rows
    BY <1>1, <1>4, <1>5, RowTyped, SetTyped
  <1> QED BY <1>3, <1>6 DEF CompleteWrite, Goto, Remember

\* Starting a worker, or being refused.
LEMMA StartTyped ==
  ASSUME TypeInv, NEW a \in Reqs \cup Procs, NEW exit \in Labels \ {"b_lease", "b_recover"},
         StartWorker(a, exit) \/ StartRefused(a, exit),
         UNCHANGED <<row, data, local, seen, worker, crashes, intent>>
  PROVE  TypeInv'
  <1>1. CASE StartWorker(a, exit)
    <2>1. PICK w \in Workers :
               /\ pc[w] = "unused"
               /\ pc' = [pc EXCEPT ![w] = "w_register", ![a] = exit]
               /\ home' = [home EXCEPT ![w] = home[a]]
               /\ owner' = w /\ valid' = TRUE
      BY <1>1 DEF StartWorker, Lease!Claim
    <2> QED BY <2>1, ActorAssumption, SMTT(30) DEF TypeInv, TypeOK, WhyFinal, SeenListed,
               TrackLeft, Actors, data, lease, local, worker, Goto, Leave, Remember,
               Labels, AtWork, CleanupSteps, Finishing
  <1>2. CASE StartRefused(a, exit)
    BY <1>2, ActorAssumption, SMTT(30) DEF StartRefused, TypeInv, TypeOK, WhyFinal,
       SeenListed, TrackLeft, Actors, data, lease, local, worker, Goto, Leave,
       Remember, Labels, AtWork, CleanupSteps, Finishing
  <1> QED BY <1>1, <1>2

-----------------------------------------------------------------------------
(* One lemma for each kind of thread, with one step for each action.       *)

\* Every step of a worker keeps the types.
LEMMA WorkerTyped ==
  ASSUME TypeInv, NEW w \in Workers, Worker(w)
  PROVE  TypeInv'
  <1>0. /\ row \in Rows /\ reg \in [Procs -> Registers] /\ events \in [Procs -> BOOLEAN]
        /\ w \in Actors /\ home[w] \in Procs /\ seen[w] \in Snapshots
    BY RowAndRegistryTyped DEF Actors, TypeInv, TypeOK
  <1>1. CASE WRegister(w)
    <2>1. reg' \in [Procs -> Registers]
      <3>1. \/ reg' = reg
            \/ reg' = [reg EXCEPT ![home[w]].active = TRUE, ![home[w]].acked = FALSE]
        BY <1>1 DEF WRegister
      <3>2. [reg EXCEPT ![home[w]].active = TRUE, ![home[w]].acked = FALSE] \in [Procs -> Registers]
        BY <1>0, RegTyped, Zenon
      <3> QED BY <1>0, <3>1, <3>2, Zenon
    <2> QED BY <1>1, <2>1, ActorAssumption, SMTT(30) DEF WRegister, TypeInv, TypeOK,
               WhyFinal, SeenListed, TrackLeft, Actors, data, lease, local, worker,
               Goto, Leave, Remember, Labels, AtWork, CleanupSteps, Finishing
  <1>2. CASE WLoad(w)
    BY <1>2, ActorAssumption, SnapshotTyped, NothingTyped, SMTT(30) DEF WLoad, TypeInv,
       TypeOK, WhyFinal, SeenListed, TrackLeft, Actors, data, lease, local, worker,
       Goto, Leave, Remember, Labels, AtWork, CleanupSteps, Finishing
  <1>3. CASE WPublish(w)
    <2>1. row' \in Rows
      BY <1>0, <1>3, SaveTyped, RowTyped DEF WPublish, AnalysisStates, WorkerStates
    <2> QED BY <1>3, <2>1, ActorAssumption, SnapshotTyped, NothingTyped, SMTT(30) DEF
               WPublish, Save, Set, Allowed, TypeInv, TypeOK, WhyFinal, SeenListed,
               TrackLeft, Actors, data, lease, local, worker, Goto, Leave, Remember,
               Labels, AtWork, CleanupSteps, Finishing
  <1>4. CASE WCheck(w)
    <2>3. why' \in [Workers \cup Reqs -> Reasons]
      BY <1>0, <1>4, ReasonTyped, WhyTyped DEF WCheck, TypeInv, TypeOK, Reasons,
         worker
    <2> QED BY <1>4, <2>3, ActorAssumption, SnapshotTyped, NothingTyped, SMTT(30) DEF
               WCheck, TypeInv, TypeOK, WhyFinal, SeenListed, TrackLeft, Actors, data,
               lease, local, worker, Goto, Leave, Remember, Labels, AtWork,
               CleanupSteps, Finishing
  <1>5. CASE WRaise(w)
    BY <1>5, ActorAssumption, SnapshotTyped, NothingTyped, SMTT(30) DEF WRaise, TypeInv,
       TypeOK, WhyFinal, SeenListed, TrackLeft, Actors, data, lease, local, worker,
       Goto, Leave, Remember, Labels, AtWork, CleanupSteps, Finishing
  <1>6. CASE WUpload(w)
    <2>1. why' \in [Workers \cup Reqs -> Reasons]
      BY <1>0, <1>6, ReasonTyped, WhyTyped DEF WUpload, TypeInv, TypeOK, Reasons,
         worker
    <2>2. NextTrack(w) \in Tracks
      BY <1>6 DEF WUpload, NextTrack, TypeInv, TypeOK, TrackLeft
    <2> QED BY <1>6, <2>1, <2>2, ActorAssumption, SMTT(30) DEF WUpload, TypeInv, TypeOK,
               WhyFinal, SeenListed, TrackLeft, Actors, data, lease, local, worker,
               Goto, Leave, Remember, Labels, AtWork, CleanupSteps, Finishing
  <1>7. CASE WWrite(w)
    <2>1. NextTrack(w) \in Tracks
      BY <1>7 DEF WWrite, NextTrack, TypeInv, TypeOK, TrackLeft
    <2>2. waves' \subseteq Tracks /\ done' \subseteq Tracks
      BY <1>7, <2>1 DEF WWrite, TypeInv, TypeOK
    <2>3. left' \in [Workers -> SUBSET Tracks]
      BY <1>7 DEF WWrite, TypeInv, TypeOK
    <2>4. \A v \in Workers \ {w} : left'[v] = left[v]
      BY <1>7 DEF WWrite, TypeInv, TypeOK
    <2>5. pc' \in {[pc EXCEPT ![w] = "w_check"], [pc EXCEPT ![w] = "w_fail"]}
      BY <1>7 DEF WWrite, Goto
    <2>6. UNCHANGED <<row, objects, staged, lease, local, home, seen, why, crashes, intent>>
      BY <1>7 DEF WWrite
    <2> QED BY <2>2, <2>3, <2>4, <2>5, <2>6, ActorAssumption, SMTT(30) DEF TypeInv, TypeOK,
               WhyFinal, SeenListed, TrackLeft, Actors, data, lease, local, worker,
               Goto, Leave, Remember, Labels, AtWork, CleanupSteps, Finishing
  <1>8. CASE WFinal(w)
    <2>1. row' \in Rows
      BY <1>0, <1>8, SetTyped, RowTyped, FinalAnalysisTyped DEF WFinal,
         AnalysisStates, WorkerStates
    <2>3. why' \in [Workers \cup Reqs -> Reasons]
      BY <1>0, <1>8, FinalAnalysisTyped, WhyTyped DEF WFinal, TypeInv, TypeOK, Reasons
    <2> QED BY <1>8, <2>1, <2>3, FinalAnalysisTyped, ActorAssumption, SMTT(30) DEF WFinal,
               Set, TypeInv, TypeOK, WhyFinal, SeenListed, TrackLeft, Actors, data,
               lease, local, worker, Goto, Leave, Remember, Labels, AtWork,
               CleanupSteps, Finishing
  <1>9. CASE WComplete(w)
    <2>1. CASE CompleteAssert(w, "w_assert", "w_state", "w_published", "w_cancelled")
      <3>1. /\ pc[w] = "w_assert"
            /\ \/ pc' = [pc EXCEPT ![w] = "w_state"]
               \/ pc' = [pc EXCEPT ![w] = "w_published"]
               \/ pc' = [pc EXCEPT ![w] = "w_cancelled"]
            /\ events' \in [Procs -> BOOLEAN]
            /\ UNCHANGED <<row, data, lease, reg, home, seen, worker, crashes, intent>>
        BY <2>1, AssertTyped
      <3> QED BY <3>1, NothingTyped, ActorAssumption, SMTT(30) DEF TypeInv, TypeOK,
                 WhyFinal, SeenListed, TrackLeft, Actors, data, lease, local, worker,
                 Goto, Leave, Remember, Labels, AtWork, CleanupSteps, Finishing
    <2>2. CASE CompleteState(w, "w_state", "w_complete", "w_published")
      BY <2>2, SnapshotTyped, NothingTyped, ActorAssumption, SMTT(30) DEF CompleteState,
         TypeInv, TypeOK, WhyFinal, SeenListed, TrackLeft, Actors, data, lease, local,
         worker, Goto, Leave, Remember, Labels, AtWork, CleanupSteps, Finishing
    <2>3. CASE CompleteWrite(w, "w_complete", "w_published", "w_published", "w_cancelled")
      <3>1. /\ pc[w] = "w_complete"
            /\ pc' = [pc EXCEPT ![w] = "w_published"] \/ pc' = [pc EXCEPT ![w] = "w_cancelled"]
            /\ events' \in [Procs -> BOOLEAN] /\ row' \in Rows /\ seen' = [seen EXCEPT ![w] = Nothing]
            /\ UNCHANGED <<data, lease, reg, home, worker, crashes, intent>>
        BY <2>3, WriteTyped
      <3> QED BY <3>1, NothingTyped, ActorAssumption, SMTT(30) DEF TypeInv, TypeOK,
                 WhyFinal, SeenListed, TrackLeft, Actors, data, lease, local, worker,
                 Goto, Leave, Remember, Labels, AtWork, CleanupSteps, Finishing
    <2> QED BY <1>9, <2>1, <2>2, <2>3 DEF WComplete
  <1>10. CASE WPublished(w)
    <2>1. row' \in Rows
      <3>1. why[w] \in AnalysisStates
        BY <1>10 DEF WPublished, TypeInv, WhyFinal, Finishing, AnalysisStates
      <3> QED BY <1>0, <1>10, <3>1, SaveTyped, RowTyped, ZenonT(60) DEF WPublished,
                 AnalysisStates, WorkerStates
    <2>2. reg' \in [Procs -> Registers]
      BY <1>0, <1>10, RegTyped DEF WPublished
    <2> QED BY <1>10, <2>1, <2>2, ActorAssumption, SMTT(30) DEF WPublished, Save, Set,
               Allowed, TypeInv, TypeOK, WhyFinal, SeenListed, TrackLeft, Actors,
               data, lease, local, worker, Goto, Leave, Remember, Labels, AtWork,
               CleanupSteps, Finishing
  <1>11. CASE WStop(w)
    <2>1. row' \in Rows
      BY <1>0, <1>11, SaveTyped, RowTyped DEF WStop, AnalysisStates, WorkerStates
    <2>2. reg' \in [Procs -> Registers]
      BY <1>0, <1>11, AcknowledgeTyped DEF WStop
    <2> QED BY <1>11, <2>1, <2>2, ActorAssumption, SnapshotTyped, NothingTyped, SMTT(30)
               DEF WStop, Save, Set, Allowed, RequestStop, Acknowledge, TypeInv,
               TypeOK, WhyFinal, SeenListed, TrackLeft, Actors, data, lease, local,
               worker, Goto, Leave, Remember, Labels, AtWork, CleanupSteps, Finishing
  <1>12. CASE WLost(w)
    <2>2. reg' \in [Procs -> Registers]
      BY <1>0, <1>12, AcknowledgeTyped DEF WLost
    <2> QED BY <1>12, <2>2, ActorAssumption, SnapshotTyped, NothingTyped, SMTT(30) DEF
               WLost, RequestStop, Acknowledge, TypeInv, TypeOK, WhyFinal, SeenListed,
               TrackLeft, Actors, data, lease, local, worker, Goto, Leave, Remember,
               Labels, AtWork, CleanupSteps, Finishing
  <1>13. CASE WFail(w)
    <2>1. row' \in Rows
      BY <1>0, <1>13, SaveTyped, RowTyped DEF WFail, AnalysisStates, WorkerStates
    <2>2. reg' \in [Procs -> Registers]
      BY <1>0, <1>13, AcknowledgeTyped DEF WFail
    <2> QED BY <1>13, <2>1, <2>2, ActorAssumption, SnapshotTyped, NothingTyped, SMTT(30)
               DEF WFail, Save, Set, Allowed, RequestStop, Acknowledge, TypeInv,
               TypeOK, WhyFinal, SeenListed, TrackLeft, Actors, data, lease, local,
               worker, Goto, Leave, Remember, Labels, AtWork, CleanupSteps, Finishing
  <1>14. CASE WRelease(w)
    <2>1. owner' \in Workers \cup {NoOwner} /\ valid' \in BOOLEAN
      BY <1>14 DEF WRelease, TypeInv, TypeOK, Lease!Release, lease
    <2>2. left' = [left EXCEPT ![w] = {}]
      BY <1>14 DEF WRelease
    <2>3. pc' \in {[pc EXCEPT ![w] = "w_late1"], [pc EXCEPT ![w] = "done"]}
      BY <1>14 DEF WRelease, Goto
    <2>4. /\ UNCHANGED <<row, data, local, home, seen, why, crashes, intent>>
          /\ pc[w] \in {"w_release", "w_drop"}
      BY <1>14 DEF WRelease
    <2> QED BY <2>1, <2>2, <2>3, <2>4, ActorAssumption, SMTT(30) DEF TypeInv, TypeOK,
               WhyFinal, SeenListed, TrackLeft, Actors, data, lease, local, worker,
               Goto, Leave, Remember, Labels, AtWork, CleanupSteps, Finishing
  <1>15. CASE FinalizeRead(w, "w_early1", "w_early2", "w_release")
    BY <1>15, ActorAssumption, SnapshotTyped, NothingTyped, SMTT(30) DEF FinalizeRead,
       TypeInv, TypeOK, WhyFinal, SeenListed, TrackLeft, Actors, data, lease, local,
       worker, Goto, Leave, Remember, Labels, AtWork, CleanupSteps, Finishing
  <1>16. CASE FinalizeWrite(w, "w_early2", "w_release", "w_drop")
    <2>1. row' \in Rows
      BY <1>0, <1>16, SaveTyped, RowTyped DEF FinalizeWrite, AnalysisStates,
         WorkerStates
    <2> QED BY <1>16, <2>1, ActorAssumption, SnapshotTyped, NothingTyped, SMTT(30) DEF
               FinalizeWrite, Save, Set, Allowed, TypeInv, TypeOK, WhyFinal,
               SeenListed, TrackLeft, Actors, data, lease, local, worker, Goto, Leave,
               Remember, Labels, AtWork, CleanupSteps, Finishing
  <1>17. CASE FinalizeRead(w, "w_late1", "w_late2", "done")
    BY <1>17, ActorAssumption, SnapshotTyped, NothingTyped, SMTT(30) DEF FinalizeRead,
       TypeInv, TypeOK, WhyFinal, SeenListed, TrackLeft, Actors, data, lease, local,
       worker, Goto, Leave, Remember, Labels, AtWork, CleanupSteps, Finishing
  <1>18. CASE FinalizeWrite(w, "w_late2", "done", "done")
    <2>1. row' \in Rows
      BY <1>0, <1>18, SaveTyped, RowTyped DEF FinalizeWrite, AnalysisStates,
         WorkerStates
    <2> QED BY <1>18, <2>1, ActorAssumption, SnapshotTyped, NothingTyped, SMTT(30) DEF
               FinalizeWrite, Save, Set, Allowed, TypeInv, TypeOK, WhyFinal,
               SeenListed, TrackLeft, Actors, data, lease, local, worker, Goto, Leave,
               Remember, Labels, AtWork, CleanupSteps, Finishing
  <1> QED BY <1>1, <1>2, <1>3, <1>4, <1>5, <1>6, <1>7, <1>8, <1>9, <1>10, <1>11,
             <1>12, <1>13, <1>14, <1>15, <1>16, <1>17, <1>18 DEF Worker, WFinalize

\* A complete request, or the last part of a resume.
LEMMA CompleteTyped ==
  ASSUME TypeInv, NEW r \in Reqs, Complete(r)
  PROVE  TypeInv'
  <1>0. /\ row \in Rows /\ reg \in [Procs -> Registers] /\ events \in [Procs -> BOOLEAN]
        /\ r \in Actors /\ home[r] \in Procs /\ seen[r] \in Snapshots
    BY RowAndRegistryTyped DEF Actors, TypeInv, TypeOK
  <1>1. CASE CompleteRead(r)
    BY <1>1, ActorAssumption, SnapshotTyped, NothingTyped, SMTT(30) DEF CompleteRead,
       TypeInv, TypeOK, WhyFinal, SeenListed, TrackLeft, Actors, data, lease, local,
       worker, Goto, Leave, Remember, Labels, AtWork, CleanupSteps, Finishing
  <1>2. CASE CompleteFinal(r)
    <2>1. row' \in Rows
      BY <1>0, <1>2, SetTyped, RowTyped, FinalAnalysisTyped DEF CompleteFinal,
         AnalysisStates, WorkerStates
    <2> QED BY <1>2, <2>1, ActorAssumption, SnapshotTyped, NothingTyped, SMTT(30) DEF
               CompleteFinal, Save, Set, Allowed, TypeInv, TypeOK, WhyFinal,
               SeenListed, TrackLeft, Actors, data, lease, local, worker, Goto, Leave,
               Remember, Labels, AtWork, CleanupSteps, Finishing
  <1>3. CASE CompleteAssert(r, "k_assert", "k_state", "done", "done")
    <2>1. /\ pc[r] = "k_assert"
          /\ pc' = [pc EXCEPT ![r] = "k_state"] \/ pc' = [pc EXCEPT ![r] = "done"]
          /\ events' \in [Procs -> BOOLEAN]
          /\ UNCHANGED <<row, data, lease, reg, home, seen, worker, crashes, intent>>
      BY <1>3, AssertTyped
    <2> QED BY <2>1, NothingTyped, ActorAssumption, SMTT(30) DEF TypeInv, TypeOK, WhyFinal,
               SeenListed, TrackLeft, Actors, data, lease, local, worker, Goto, Leave,
               Remember, Labels, AtWork, CleanupSteps, Finishing
  <1>4. CASE CompleteState(r, "k_state", "k_complete", "done")
    BY <1>4, ActorAssumption, SnapshotTyped, NothingTyped, SMTT(30) DEF CompleteState,
       TypeInv, TypeOK, WhyFinal, SeenListed, TrackLeft, Actors, data, lease, local,
       worker, Goto, Leave, Remember, Labels, AtWork, CleanupSteps, Finishing
  <1>5. CASE CompleteWrite(r, "k_complete", "done", "done", "done")
    <2>1. /\ pc[r] = "k_complete"
          /\ pc' = [pc EXCEPT ![r] = "done"]
          /\ events' \in [Procs -> BOOLEAN] /\ row' \in Rows /\ seen' = [seen EXCEPT ![r] = Nothing]
          /\ UNCHANGED <<data, lease, reg, home, worker, crashes, intent>>
      BY <1>5, WriteTyped
    <2> QED BY <2>1, NothingTyped, ActorAssumption, SMTT(30) DEF TypeInv, TypeOK, WhyFinal,
               SeenListed, TrackLeft, Actors, data, lease, local, worker, Goto, Leave,
               Remember, Labels, AtWork, CleanupSteps, Finishing
  <1>6. CASE CompleteQueue(r)
    <2>1. row' \in Rows
      BY <1>0, <1>6, SetTyped, RowTyped DEF CompleteQueue, Allowed, Statuses,
         AnalysisStates, WorkerStates
    <2> QED BY <1>6, <2>1, ActorAssumption, SnapshotTyped, NothingTyped, SMTT(30) DEF
               CompleteQueue, Save, Set, Allowed, TypeInv, TypeOK, WhyFinal,
               SeenListed, TrackLeft, Actors, data, lease, local, worker, Goto, Leave,
               Remember, Labels, AtWork, CleanupSteps, Finishing
  <1>7. CASE CompleteStart(r)
    <2>1. CASE StartWorker(r, "done") \/ StartRefused(r, "done")
      BY <1>7, <2>1, StartTyped DEF CompleteStart, Labels
    <2>2. CASE Faults /\ Goto(r, "k_failed") /\ UNCHANGED <<lease, home>>
      BY <1>7, <2>2, ActorAssumption, SMTT(30) DEF CompleteStart, TypeInv, TypeOK,
         WhyFinal, SeenListed, TrackLeft, Actors, data, lease, local, worker, Goto,
         Leave, Remember, Labels, AtWork, CleanupSteps, Finishing
    <2> QED BY <1>7, <2>1, <2>2 DEF CompleteStart
  <1>8. CASE CompleteFailed(r)
    <2>1. row' \in Rows
      BY <1>0, <1>8, SaveTyped, RowTyped DEF CompleteFailed, AnalysisStates,
         WorkerStates
    <2> QED BY <1>8, <2>1, ActorAssumption, SnapshotTyped, NothingTyped, SMTT(30) DEF
               CompleteFailed, Save, Set, Allowed, TypeInv, TypeOK, WhyFinal,
               SeenListed, TrackLeft, Actors, data, lease, local, worker, Goto, Leave,
               Remember, Labels, AtWork, CleanupSteps, Finishing
  <1> QED BY <1>1, <1>2, <1>3, <1>4, <1>5, <1>6, <1>7, <1>8 DEF Complete

\* A pause request.
LEMMA PauseTyped ==
  ASSUME TypeInv, NEW r \in Reqs, Pause(r)
  PROVE  TypeInv'
  <1>0. /\ row \in Rows /\ reg \in [Procs -> Registers] /\ events \in [Procs -> BOOLEAN]
        /\ r \in Actors /\ home[r] \in Procs /\ seen[r] \in Snapshots
    BY RowAndRegistryTyped DEF Actors, TypeInv, TypeOK
  <1>1. CASE PauseRead(r)
    <2>1. reg' \in [Procs -> Registers]
      BY <1>0, <1>1, RequestStopTyped DEF PauseRead
    <2>2. pc' \in {[pc EXCEPT ![r] = "done"], [pc EXCEPT ![r] = "p_update"]}
      BY <1>1 DEF PauseRead, Goto, Leave
    <2>3. seen' \in [Actors -> Snapshots] /\ \A x \in Procs : seen'[x] = seen[x]
      <3>1. \/ seen' = [seen EXCEPT ![r] = Nothing]
            \/ seen' = [seen EXCEPT ![r] = Snapshot]
        BY <1>1, Zenon DEF PauseRead, Leave, Remember
      <3>2. Snapshot \in Snapshots /\ Nothing \in Snapshots
        BY <1>0, SnapshotTyped, NothingTyped
      <3> QED BY <1>0, <3>1, <3>2, ActorAssumption DEF TypeInv, TypeOK, Actors
    <2>4. UNCHANGED <<row, data, lease, home, worker, crashes, intent>>
      BY <1>1 DEF PauseRead
    <2>5. events' \in [Procs -> BOOLEAN]
      BY <1>0, <1>1 DEF PauseRead
    <2> QED BY <2>1, <2>2, <2>3, <2>4, <2>5, ActorAssumption, SMTT(30) DEF TypeInv, TypeOK,
               WhyFinal, SeenListed, TrackLeft, Actors, data, lease, local, worker,
               Goto, Leave, Remember, Labels, AtWork, CleanupSteps, Finishing
  <1>2. CASE PauseUpdate(r)
    <2>1. row' \in Rows
      BY <1>0, <1>2, SaveTyped, RowTyped DEF PauseUpdate, AnalysisStates, WorkerStates
    <2> QED BY <1>2, <2>1, ActorAssumption, SnapshotTyped, NothingTyped, SMTT(30) DEF
               PauseUpdate, Save, Set, Allowed, TypeInv, TypeOK, WhyFinal, SeenListed,
               TrackLeft, Actors, data, lease, local, worker, Goto, Leave, Remember,
               Labels, AtWork, CleanupSteps, Finishing
  <1>3. CASE WaitEnds(r, "p_wait", "p_paused", "p_stopping")
    BY <1>3, ActorAssumption, SnapshotTyped, NothingTyped, SMTT(30) DEF WaitEnds, TypeInv,
       TypeOK, WhyFinal, SeenListed, TrackLeft, Actors, data, lease, local, worker,
       Goto, Leave, Remember, Labels, AtWork, CleanupSteps, Finishing
  <1>4. CASE PausePaused(r)
    <2>1. row' \in Rows
      BY <1>0, <1>4, SaveTyped, RowTyped DEF PausePaused, AnalysisStates, WorkerStates
    <2> QED BY <1>4, <2>1, ActorAssumption, SnapshotTyped, NothingTyped, SMTT(30) DEF
               PausePaused, Save, Set, Allowed, TypeInv, TypeOK, WhyFinal, SeenListed,
               TrackLeft, Actors, data, lease, local, worker, Goto, Leave, Remember,
               Labels, AtWork, CleanupSteps, Finishing
  <1>5. CASE PauseStopping(r)
    <2>1. row' \in Rows
      BY <1>0, <1>5, SaveTyped, RowTyped DEF PauseStopping, AnalysisStates,
         WorkerStates
    <2> QED BY <1>5, <2>1, ActorAssumption, SnapshotTyped, NothingTyped, SMTT(30) DEF
               PauseStopping, Save, Set, Allowed, TypeInv, TypeOK, WhyFinal,
               SeenListed, TrackLeft, Actors, data, lease, local, worker, Goto, Leave,
               Remember, Labels, AtWork, CleanupSteps, Finishing
  <1>6. CASE PauseTimedOut(r)
    <2>1. row' \in Rows
      BY <1>0, <1>6, SaveTyped, RowTyped DEF PauseTimedOut
    <2> QED BY <1>6, <2>1, ActorAssumption, SnapshotTyped, NothingTyped, SMTT(30) DEF
               PauseTimedOut, Save, Set, Allowed, TypeInv, TypeOK, WhyFinal,
               SeenListed, TrackLeft, Actors, data, lease, local, worker, Goto, Leave,
               Remember, Labels, AtWork, CleanupSteps, Finishing
  <1>7. CASE FinalizeRead(r, "p_fin1", "p_fin2", "done")
    BY <1>7, ActorAssumption, SnapshotTyped, NothingTyped, SMTT(30) DEF FinalizeRead,
       TypeInv, TypeOK, WhyFinal, SeenListed, TrackLeft, Actors, data, lease, local,
       worker, Goto, Leave, Remember, Labels, AtWork, CleanupSteps, Finishing
  <1>8. CASE FinalizeWrite(r, "p_fin2", "done", "done")
    <2>1. row' \in Rows
      BY <1>0, <1>8, SaveTyped, RowTyped DEF FinalizeWrite, AnalysisStates,
         WorkerStates
    <2> QED BY <1>8, <2>1, ActorAssumption, SnapshotTyped, NothingTyped, SMTT(30) DEF
               FinalizeWrite, Save, Set, Allowed, TypeInv, TypeOK, WhyFinal,
               SeenListed, TrackLeft, Actors, data, lease, local, worker, Goto, Leave,
               Remember, Labels, AtWork, CleanupSteps, Finishing
  <1> QED BY <1>1, <1>2, <1>3, <1>4, <1>5, <1>6, <1>7, <1>8 DEF Pause

\* A resume request.
LEMMA ResumeTyped ==
  ASSUME TypeInv, NEW r \in Reqs, Resume(r)
  PROVE  TypeInv'
  <1>0. /\ row \in Rows /\ reg \in [Procs -> Registers] /\ events \in [Procs -> BOOLEAN]
        /\ r \in Actors /\ home[r] \in Procs /\ seen[r] \in Snapshots
    BY RowAndRegistryTyped DEF Actors, TypeInv, TypeOK
  <1>1. CASE ResumeRead(r)
    BY <1>1, ActorAssumption, SnapshotTyped, NothingTyped, SMTT(30) DEF ResumeRead,
       TypeInv, TypeOK, WhyFinal, SeenListed, TrackLeft, Actors, data, lease, local,
       worker, Goto, Leave, Remember, Labels, AtWork, CleanupSteps, Finishing
  <1>2. CASE ResumeLease(r)
    <2>1. reg' \in [Procs -> Registers]
      <3>1. \/ reg' = reg
            \/ reg' = [reg EXCEPT ![home[r]].pause = FALSE, ![home[r]].delete = FALSE]
        BY <1>2 DEF ResumeLease
      <3>2. [reg EXCEPT ![home[r]].pause = FALSE, ![home[r]].delete = FALSE] \in [Procs -> Registers]
        BY <1>0, RegTyped, Zenon
      <3> QED BY <1>0, <3>1, <3>2, Zenon
    <2> QED BY <1>2, <2>1, ActorAssumption, SMTT(30) DEF ResumeLease, TypeInv, TypeOK,
               WhyFinal, SeenListed, TrackLeft, Actors, data, lease, local, worker,
               Goto, Leave, Remember, Labels, AtWork, CleanupSteps, Finishing
  <1>3. CASE ResumeUpdate(r)
    <2>1. row' \in Rows
      BY <1>0, <1>3, SetTyped, RowTyped DEF ResumeUpdate, Allowed, Statuses,
         AnalysisStates, WorkerStates
    <2> QED BY <1>3, <2>1, ActorAssumption, SnapshotTyped, NothingTyped, SMTT(30) DEF
               ResumeUpdate, Save, Set, Allowed, TypeInv, TypeOK, WhyFinal,
               SeenListed, TrackLeft, Actors, data, lease, local, worker, Goto, Leave,
               Remember, Labels, AtWork, CleanupSteps, Finishing
  <1> QED BY <1>1, <1>2, <1>3, CompleteTyped DEF Resume

\* A delete request and its finalizer.
LEMMA DeleteTyped ==
  ASSUME TypeInv, NEW r \in Reqs, Delete(r)
  PROVE  TypeInv'
  <1>0. /\ row \in Rows /\ reg \in [Procs -> Registers] /\ events \in [Procs -> BOOLEAN]
        /\ r \in Actors /\ home[r] \in Procs /\ seen[r] \in Snapshots
    BY RowAndRegistryTyped DEF Actors, TypeInv, TypeOK
  <1>1. CASE DeleteRead(r)
    <2>1. CASE ~row.exists \/ row.status = "cancelled"
      <3>1. pc' = [pc EXCEPT ![r] = "done"] /\ seen' = [seen EXCEPT ![r] = Nothing] /\ UNCHANGED local
        BY <1>1, <2>1 DEF DeleteRead, Leave, Goto, Remember
      <3>2. UNCHANGED <<row, data, lease, home, worker, crashes, intent>>
        BY <1>1 DEF DeleteRead
      <3> QED BY <3>1, <3>2, NothingTyped, ActorAssumption, SMTT(30) DEF TypeInv, TypeOK,
                 WhyFinal, SeenListed, TrackLeft, Actors, data, lease, local, worker,
                 Goto, Leave, Remember, Labels, AtWork, CleanupSteps, Finishing
    <2>2. CASE ~(~row.exists \/ row.status = "cancelled")
      <3>1. RequestStop(home[r], TRUE)
        BY <1>1, <2>2 DEF DeleteRead
      <3>2. reg' \in [Procs -> Registers] /\ reg'[home[r]].acked \in BOOLEAN
        BY <1>0, <3>1, RequestStopTyped
      <3>3. events' \in [Procs -> BOOLEAN]
        BY <1>0, <1>1, <2>2 DEF DeleteRead
      <3> DEFINE s == [Snapshot EXCEPT !.strategy = EffectiveStrategy(r), !.ack = reg'[home[r]].acked]
      <3>4. s \in Snapshots
        <4>1. EffectiveStrategy(r) \in Strategies
          BY <1>0, RowTyped DEF EffectiveStrategy, OwnStrategy, Strategies
        <4> HIDE DEF s
        <4> QED BY <1>0, <3>2, <4>1, SnapshotTyped, Zenon DEF Snapshots, s
      <3>5. pc' = [pc EXCEPT ![r] = "d_update"] /\ seen' = [seen EXCEPT ![r] = s]
        BY <1>1, <2>2 DEF DeleteRead, Goto, Remember
      <3>6. UNCHANGED <<row, data, lease, home, worker, crashes, intent>>
        BY <1>1 DEF DeleteRead
      <3> HIDE DEF s
      <3> QED BY <3>2, <3>3, <3>4, <3>5, <3>6, ActorAssumption, SMTT(30) DEF TypeInv,
                 TypeOK, WhyFinal, SeenListed, TrackLeft, Actors, data, lease, local,
                 worker, Goto, Leave, Remember, Labels, AtWork, CleanupSteps,
                 Finishing
    <2> QED BY <2>1, <2>2
  <1>2. CASE DeleteUpdate(r)
    <2>1. row' \in Rows
      <3>1. AcceptStatus(r) \in Statuses
        BY <1>0, RowTyped DEF AcceptStatus, Statuses
      <3>2. seen[r].ack \in BOOLEAN /\ seen[r].strategy \in Strategies
        BY <1>0, SeenTyped
      <3>3. [row EXCEPT !.status = AcceptStatus(r), !.analysis = "stopping", !.worker = "cancel_requested",
                        !.ack = seen[r].ack, !.strategy = seen[r].strategy] \in Rows
        BY <1>0, <3>1, <3>2, AcceptTyped, ZenonT(60) DEF AnalysisStates, WorkerStates
      <3> QED BY <1>0, <1>2, <3>3, Zenon DEF DeleteUpdate
    <2>2. intent' \in Strategies
      BY <1>0, <1>2, SeenTyped DEF DeleteUpdate, TypeInv, TypeOK
    <2> QED BY <1>2, <2>1, <2>2, ActorAssumption, SMTT(30) DEF DeleteUpdate, Allowed,
               TypeInv, TypeOK, WhyFinal, SeenListed, TrackLeft, Actors, data, lease,
               local, worker, Goto, Leave, Remember, Labels, AtWork, CleanupSteps,
               Finishing
  <1>3. CASE WaitEnds(r, "d_wait", "c_check", "d_timeout")
    BY <1>3, ActorAssumption, SnapshotTyped, NothingTyped, SMTT(30) DEF WaitEnds, TypeInv,
       TypeOK, WhyFinal, SeenListed, TrackLeft, Actors, data, lease, local, worker,
       Goto, Leave, Remember, Labels, AtWork, CleanupSteps, Finishing
  <1>4. CASE DeleteTimedOut(r)
    <2>1. row' \in Rows
      BY <1>0, <1>4, SaveTyped, RowTyped DEF DeleteTimedOut, AnalysisStates,
         WorkerStates
    <2>3. why' \in [Workers \cup Reqs -> Reasons]
      BY <1>0, <1>4, WhyTyped DEF DeleteTimedOut, TypeInv, TypeOK, Reasons, worker
    <2> QED BY <1>4, <2>1, <2>3, ActorAssumption, SnapshotTyped, NothingTyped, SMTT(30) DEF
               DeleteTimedOut, Save, Set, Allowed, TypeInv, TypeOK, WhyFinal,
               SeenListed, TrackLeft, Actors, data, lease, local, worker, Goto, Leave,
               Remember, Labels, AtWork, CleanupSteps, Finishing
  <1>5. CASE FinalizerWait(r)
    BY <1>5, ActorAssumption, SnapshotTyped, NothingTyped, SMTT(30) DEF FinalizerWait,
       TypeInv, TypeOK, WhyFinal, SeenListed, TrackLeft, Actors, data, lease, local,
       worker, Goto, Leave, Remember, Labels, AtWork, CleanupSteps, Finishing
  <1>6. CASE FinalizerRead(r)
    <2>1. seen' \in [Actors -> Snapshots]
      <3>1. ASSUME NEW x \in Strategies PROVE [seen EXCEPT ![r].strategy = x] \in [Actors -> Snapshots]
        <4>1. [seen[r] EXCEPT !.strategy = x] \in Snapshots
          BY <1>0, Zenon DEF Snapshots
        <4> QED BY <1>0, <4>1, Zenon DEF TypeInv, TypeOK
      <3>2. row.strategy \in Strategies /\ seen[r].strategy \in Strategies
        BY <1>0, RowTyped, SeenTyped
      <3> QED BY <1>6, <3>1, <3>2, NothingTyped DEF FinalizerRead, Leave, Remember,
                 TypeInv, TypeOK
    <2>2. \A x \in Procs : seen'[x] = seen[x]
      BY <1>6, ActorAssumption DEF FinalizerRead, Leave, Remember, TypeInv, TypeOK,
         Actors
    <2>3. pc' \in {[pc EXCEPT ![r] = "done"], [pc EXCEPT ![r] = "c_check"]}
      BY <1>6 DEF FinalizerRead, Leave, Goto
    <2>4. UNCHANGED <<row, data, lease, local, home, worker, crashes, intent>>
      BY <1>6 DEF FinalizerRead
    <2> QED BY <2>1, <2>2, <2>3, <2>4, ActorAssumption, SMTT(30) DEF TypeInv, TypeOK,
               WhyFinal, SeenListed, TrackLeft, Actors, data, lease, local, worker,
               Goto, Leave, Remember, Labels, AtWork, CleanupSteps, Finishing
  <1> QED BY <1>1, <1>2, <1>3, <1>4, <1>5, <1>6 DEF Delete

\* The cleanup of an accepted delete.
LEMMA CleanupTyped ==
  ASSUME TypeInv, NEW r \in Reqs, Cleanup(r)
  PROVE  TypeInv'
  <1>0. /\ row \in Rows /\ reg \in [Procs -> Registers] /\ events \in [Procs -> BOOLEAN]
        /\ r \in Actors /\ home[r] \in Procs /\ seen[r] \in Snapshots
    BY RowAndRegistryTyped DEF Actors, TypeInv, TypeOK
  <1>1. CASE CleanupCheck(r)
    BY <1>1, ActorAssumption, SnapshotTyped, NothingTyped, SMTT(30) DEF CleanupCheck,
       TypeInv, TypeOK, WhyFinal, SeenListed, TrackLeft, Actors, data, lease, local,
       worker, Goto, Leave, Remember, Labels, AtWork, CleanupSteps, Finishing
  <1>2. CASE CleanupBack(r)
    <2>1. row' \in Rows
      BY <1>0, <1>2, SaveTyped, RowTyped DEF CleanupBack, AnalysisStates, WorkerStates
    <2> QED BY <1>2, <2>1, ActorAssumption, SnapshotTyped, NothingTyped, SMTT(30) DEF
               CleanupBack, Save, Set, Allowed, TypeInv, TypeOK, WhyFinal, SeenListed,
               TrackLeft, Actors, data, lease, local, worker, Goto, Leave, Remember,
               Labels, AtWork, CleanupSteps, Finishing
  <1>3. CASE CleanupBegin(r)
    <2>1. row' \in Rows
      <3>1. CASE Save(r, "deleting", row.analysis, row.worker, row.ack, "c_mark", "done")
        BY <1>0, <3>1, SaveTyped, RowTyped
      <3>2. CASE Save(r, row.status, row.analysis, "stopped", TRUE, "done", "done")
        BY <1>0, <3>2, SaveTyped, RowTyped DEF WorkerStates
      <3> QED BY <1>3, <3>1, <3>2 DEF CleanupBegin
    <2> QED BY <1>3, <2>1, ActorAssumption, SMTT(30) DEF CleanupBegin, Save, Set, Allowed,
               TypeInv, TypeOK, WhyFinal, SeenListed, TrackLeft, Actors, data, lease,
               local, worker, Goto, Leave, Remember, Labels, AtWork, CleanupSteps,
               Finishing
  <1>4. CASE CleanupMark(r)
    <2>1. row' \in Rows
      <3>1. Save(r, row.status, "stopping", "deleting", row.ack, "c_recheck", "done")
        BY <1>4 DEF CleanupMark
      <3>2. /\ row.ack \in BOOLEAN
            /\ "stopping" \in AnalysisStates /\ "deleting" \in WorkerStates
        BY <1>0, RowTyped DEF AnalysisStates, WorkerStates
      <3> QED BY <1>0, <3>1, <3>2, SaveTyped
    <2> QED BY <1>4, <2>1, ActorAssumption, SMTT(30) DEF CleanupMark, Save, Set, Allowed,
               TypeInv, TypeOK, WhyFinal, SeenListed, TrackLeft, Actors, data, lease,
               local, worker, Goto, Leave, Remember, Labels, AtWork, CleanupSteps,
               Finishing
  <1>5. CASE CleanupRecheck(r)
    BY <1>5, ActorAssumption, SnapshotTyped, NothingTyped, SMTT(30) DEF CleanupRecheck,
       TypeInv, TypeOK, WhyFinal, SeenListed, TrackLeft, Actors, data, lease, local,
       worker, Goto, Leave, Remember, Labels, AtWork, CleanupSteps, Finishing
  <1>6. CASE CleanupStorage(r)
    BY <1>6, ActorAssumption, SnapshotTyped, NothingTyped, SMTT(30) DEF CleanupStorage,
       TypeInv, TypeOK, WhyFinal, SeenListed, TrackLeft, Actors, data, lease, local,
       worker, Goto, Leave, Remember, Labels, AtWork, CleanupSteps, Finishing
  <1>7. CASE CleanupChildren(r)
    BY <1>7, ActorAssumption, SnapshotTyped, NothingTyped, SMTT(30) DEF CleanupChildren,
       TypeInv, TypeOK, WhyFinal, SeenListed, TrackLeft, Actors, data, lease, local,
       worker, Goto, Leave, Remember, Labels, AtWork, CleanupSteps, Finishing
  <1>8. CASE CleanupStaging(r)
    <2>1. staged' \in BOOLEAN
      BY <1>8 DEF CleanupStaging, TypeInv, TypeOK
    <2>2. pc' \in {[pc EXCEPT ![r] = "c_hard"], [pc EXCEPT ![r] = "c_fail"]}
      BY <1>8 DEF CleanupStaging, Goto
    <2>3. UNCHANGED <<row, objects, waves, done, lease, local, home, seen, worker, crashes, intent>>
      BY <1>8 DEF CleanupStaging
    <2> QED BY <2>1, <2>2, <2>3, ActorAssumption, SMTT(30) DEF TypeInv, TypeOK, WhyFinal,
               SeenListed, TrackLeft, Actors, data, lease, local, worker, Goto, Leave,
               Remember, Labels, AtWork, CleanupSteps, Finishing
  <1>9. CASE HardDelete(r)
    <2>1. row' \in Rows
      <3>1. [row EXCEPT !.exists = FALSE] \in Rows
        BY <1>0, Zenon DEF Rows
      <3> QED BY <1>0, <1>9, <3>1 DEF HardDelete
    <2>2. owner' \in Workers \cup {NoOwner} /\ valid' \in BOOLEAN
      BY <1>9 DEF HardDelete, TypeInv, TypeOK, lease
    <2>3. waves' \subseteq Tracks /\ done' \subseteq Tracks
      BY <1>9 DEF HardDelete, TypeInv, TypeOK
    <2>4. pc' \in {[pc EXCEPT ![r] = "done"], [pc EXCEPT ![r] = "c_fail"]}
      BY <1>9 DEF HardDelete, Leave, Goto
    <2>5. seen' \in {seen, [seen EXCEPT ![r] = Nothing]}
      BY <1>9 DEF HardDelete, Leave, Remember
    <2>6. UNCHANGED <<objects, staged, local, home, worker, crashes, intent>>
      BY <1>9 DEF HardDelete
    <2> QED BY <2>1, <2>2, <2>3, <2>4, <2>5, <2>6, NothingTyped, ActorAssumption, SMTT(30)
               DEF TypeInv, TypeOK, WhyFinal, SeenListed, TrackLeft, Actors, data,
               lease, local, worker, Goto, Leave, Remember, Labels, AtWork,
               CleanupSteps, Finishing
  <1>10. CASE CleanupFailed(r)
    <2>1. row' \in Rows
      BY <1>0, <1>10, SaveTyped, RowTyped, ZenonT(60) DEF CleanupFailed, AnalysisStates,
         WorkerStates
    <2> QED BY <1>10, <2>1, ActorAssumption, SnapshotTyped, NothingTyped, SMTT(30) DEF
               CleanupFailed, Save, Set, Allowed, TypeInv, TypeOK, WhyFinal,
               SeenListed, TrackLeft, Actors, data, lease, local, worker, Goto, Leave,
               Remember, Labels, AtWork, CleanupSteps, Finishing
  <1> QED BY <1>1, <1>2, <1>3, <1>4, <1>5, <1>6, <1>7, <1>8, <1>9, <1>10 DEF Cleanup

\* The startup of a process.
LEMMA BootTyped ==
  ASSUME TypeInv, NEW p \in Procs, Boot(p)
  PROVE  TypeInv'
  <1>0. /\ row \in Rows /\ reg \in [Procs -> Registers] /\ events \in [Procs -> BOOLEAN]
        /\ p \in Actors /\ seen[p] \in Snapshots
    BY RowAndRegistryTyped DEF Actors, TypeInv, TypeOK
  <1>1. CASE BootSelect(p, "down", Recoverable, "b_lease", "b_again")
    BY <1>1, ActorAssumption, SnapshotTyped, NothingTyped, SMTT(30) DEF BootSelect,
       TypeInv, TypeOK, WhyFinal, SeenListed, TrackLeft, Actors, data, lease, local,
       worker, Goto, Leave, Remember, Labels, AtWork, CleanupSteps, Finishing
  <1>2. CASE BootLease(p, "b_lease", "b_recover", "b_again")
    BY <1>2, ActorAssumption, SnapshotTyped, NothingTyped, SMTT(30) DEF BootLease, TypeInv,
       TypeOK, WhyFinal, SeenListed, TrackLeft, Actors, data, lease, local, worker,
       Goto, Leave, Remember, Labels, AtWork, CleanupSteps, Finishing
  <1>3. CASE BootRecover(p)
    <2>1. row' \in Rows
      <3>1. seen[p].analysis \in AnalysisStates
        BY <1>0, <1>3, SeenTyped DEF BootRecover, TypeInv, SeenListed
      <3>2. RecoveredAnalysis(seen[p]) \in AnalysisStates
        BY <3>1 DEF RecoveredAnalysis, AnalysisStates
      <3>3. PICK wk \in WorkerStates : Save(p, RecoveredStatus(seen[p]), RecoveredAnalysis(seen[p]), wk, TRUE,
                "b_again", "b_again")
        BY <1>3 DEF BootRecover, WorkerStates
      <3> QED BY <1>0, <3>2, <3>3, SaveTyped
    <2>2. reg' \in [Procs -> Registers]
      <3>1. \/ reg' = reg
            \/ reg' = [reg EXCEPT ![p].active = FALSE, ![p].acked = TRUE]
        BY <1>3 DEF BootRecover
      <3> QED BY <1>0, <3>1, RegTyped
    <2>3. pc' = [pc EXCEPT ![p] = "b_again"] /\ seen' = [seen EXCEPT ![p] = Nothing]
      BY <1>3 DEF BootRecover, Save, Goto, Remember
    <2>4. UNCHANGED <<data, lease, events, home, worker, crashes, intent>>
      BY <1>3 DEF BootRecover
    <2> QED BY <2>1, <2>2, <2>3, <2>4, NothingTyped, ActorAssumption, SMTT(30) DEF TypeInv,
               TypeOK, WhyFinal, SeenListed, TrackLeft, Actors, data, lease, local,
               worker, Goto, Leave, Remember, Labels, AtWork, CleanupSteps, Finishing
  <1>4. CASE BootSelect(p, "b_again", Restartable, "b_owner", "up")
    BY <1>4, ActorAssumption, SnapshotTyped, NothingTyped, SMTT(30) DEF BootSelect,
       TypeInv, TypeOK, WhyFinal, SeenListed, TrackLeft, Actors, data, lease, local,
       worker, Goto, Leave, Remember, Labels, AtWork, CleanupSteps, Finishing
  <1>5. CASE BootLease(p, "b_owner", "b_requeue", "up")
    BY <1>5, ActorAssumption, SnapshotTyped, NothingTyped, SMTT(30) DEF BootLease, TypeInv,
       TypeOK, WhyFinal, SeenListed, TrackLeft, Actors, data, lease, local, worker,
       Goto, Leave, Remember, Labels, AtWork, CleanupSteps, Finishing
  <1>6. CASE BootRequeue(p)
    <2>1. row' \in Rows
      BY <1>0, <1>6, SetTyped, RowTyped DEF BootRequeue, Allowed, Statuses,
         AnalysisStates, WorkerStates
    <2> QED BY <1>6, <2>1, ActorAssumption, SnapshotTyped, NothingTyped, SMTT(30) DEF
               BootRequeue, Save, Set, Allowed, TypeInv, TypeOK, WhyFinal, SeenListed,
               TrackLeft, Actors, data, lease, local, worker, Goto, Leave, Remember,
               Labels, AtWork, CleanupSteps, Finishing
  <1>7. CASE BootStart(p)
    <2>1. CASE StartWorker(p, "up") \/ StartRefused(p, "up")
      BY <1>7, <2>1, StartTyped DEF BootStart, Labels
    <2>2. CASE Faults /\ Goto(p, "b_failed") /\ UNCHANGED <<lease, home>>
      BY <1>7, <2>2, ActorAssumption, SMTT(30) DEF BootStart, TypeInv, TypeOK, WhyFinal,
         SeenListed, TrackLeft, Actors, data, lease, local, worker, Goto, Leave,
         Remember, Labels, AtWork, CleanupSteps, Finishing
    <2> QED BY <1>7, <2>1, <2>2 DEF BootStart
  <1>8. CASE BootFailed(p)
    <2>1. row' \in Rows
      BY <1>0, <1>8, SaveTyped, RowTyped DEF BootFailed, AnalysisStates, WorkerStates
    <2> QED BY <1>8, <2>1, ActorAssumption, SnapshotTyped, NothingTyped, SMTT(30) DEF
               BootFailed, Save, Set, Allowed, TypeInv, TypeOK, WhyFinal, SeenListed,
               TrackLeft, Actors, data, lease, local, worker, Goto, Leave, Remember,
               Labels, AtWork, CleanupSteps, Finishing
  <1> QED BY <1>1, <1>2, <1>3, <1>4, <1>5, <1>6, <1>7, <1>8 DEF Boot

\* A request arrives.
LEMMA ArriveTyped ==
  ASSUME TypeInv, NEW r \in Reqs, Arrive(r)
  PROVE  TypeInv'
  <1>1. PICK l \in Labels \ (Finishing \cup {"w_upload", "w_write", "b_lease", "b_recover"}) : Begin(r, l)
    BY DEF Arrive, Labels, Finishing
  <1> QED BY <1>1, ActorAssumption, SMTT(30) DEF Begin, TypeInv, TypeOK, WhyFinal,
             SeenListed, TrackLeft, Actors, data, lease, local, worker, Goto, Leave,
             Remember, Labels, AtWork, CleanupSteps, Finishing

\* A process dies with its threads.
LEMMA CrashTyped ==
  ASSUME TypeInv, NEW p \in Procs, Crash(p)
  PROVE  TypeInv'
  <1>0. reg \in [Procs -> Registers] /\ events \in [Procs -> BOOLEAN]
    BY DEF TypeInv, TypeOK
  <1>1. /\ pc' \in [Actors -> Labels]
        /\ \A a \in Actors : pc'[a] \in {pc[a], "down", "dead"}
    BY DEF Crash, TypeInv, TypeOK, Labels
  <1>2. /\ seen' \in [Actors -> Snapshots]
        /\ \A q \in Procs : pc'[q] = "down" \/ seen'[q] = seen[q]
    BY NothingTyped, ActorAssumption DEF Crash, TypeInv, TypeOK, Threads, Actors
  <1>3. /\ left' \in [Workers -> SUBSET Tracks]
        /\ \A v \in Workers : pc'[v] = "dead" \/ left'[v] = left[v]
    BY ActorAssumption DEF Crash, TypeInv, TypeOK, Threads, Actors
  <1>4. reg' \in [Procs -> Registers]
    <2>1. InitReg \in Registers
      BY DEF InitReg, Registers
    <2> QED BY <1>0, <2>1 DEF Crash
  <1>5. events' \in [Procs -> BOOLEAN]
    BY <1>0 DEF Crash
  <1>6. crashes' \in 0..MaxCrashes
    BY ConfigAssumption DEF Crash, TypeInv, TypeOK
  <1>7. UNCHANGED <<row, data, lease, home, why, intent>>
    BY DEF Crash
  <1> QED BY <1>1, <1>2, <1>3, <1>4, <1>5, <1>6, <1>7, ActorAssumption, SMTT(30) DEF
             TypeInv, TypeOK, WhyFinal, SeenListed, TrackLeft, Actors, data, lease,
             local, worker, Goto, Leave, Remember, Labels, AtWork, CleanupSteps,
             Finishing

\* A lease runs out.
LEMMA ExpireTyped ==
  ASSUME TypeInv, Expire
  PROVE  TypeInv'
  <1>1. UNCHANGED <<row, data, local, pc, home, seen, worker, crashes, intent>> /\ owner' = owner /\ valid' \in BOOLEAN
    BY DEF Expire, Lease!Expire
  <1> QED BY <1>1, ActorAssumption, SMTT(30) DEF TypeInv, TypeOK, WhyFinal, SeenListed,
             TrackLeft, Actors, data, lease, local, worker, Goto, Leave, Remember,
             Labels, AtWork, CleanupSteps, Finishing

\* Nothing happens.
LEMMA StutterTyped ==
  ASSUME TypeInv, UNCHANGED vars
  PROVE  TypeInv'
  BY DEF vars, TypeInv, TypeOK, WhyFinal, SeenListed, TrackLeft

\* The initial states are typed.
LEMMA InitTyped == Init => TypeInv
  <1> SUFFICES ASSUME Init PROVE TypeInv
    OBVIOUS
  <1>1. row \in Rows
    BY ConfigAssumption DEF Init, Rows, Statuses, AnalysisStates, WorkerStates,
       Strategies
  <1>2. reg \in [Procs -> Registers]
    BY DEF Init, InitReg, Registers
  <1>3. pc \in [Actors -> Labels]
    BY DEF Init, Labels, AtWork
  <1>4. \A w \in Workers : pc[w] \in {"w_register", "unused"}
    BY DEF Init, Actors
  <1>5. \A p \in Procs : pc[p] = "up"
    BY ActorAssumption, ConfigAssumption DEF Init, Actors
  <1>6. seen \in [Actors -> Snapshots] /\ home \in [Actors -> Procs]
    BY NothingTyped DEF Init
  <1>7. /\ objects \subseteq Tracks /\ waves \subseteq Tracks /\ done \subseteq Tracks
        /\ staged \in BOOLEAN /\ owner \in Workers \cup {NoOwner} /\ valid \in BOOLEAN
        /\ events \in [Procs -> BOOLEAN]
        /\ left \in [Workers -> SUBSET Tracks]
        /\ why \in [Workers \cup Reqs -> Reasons]
        /\ intent \in Strategies
    BY ConfigAssumption DEF Init, Reasons, Strategies
  <1>8. crashes \in 0..MaxCrashes
    BY ConfigAssumption DEF Init
  <1> QED BY <1>1, <1>2, <1>3, <1>4, <1>5, <1>6, <1>7, <1>8 DEF TypeInv, TypeOK,
             WhyFinal, SeenListed, TrackLeft, Finishing

\* TypeInv is inductive.
LEMMA TypeInvariant == Spec => []TypeInv
  <1>1. ASSUME TypeInv, [Next]_vars PROVE TypeInv'
    <2>1. ASSUME NEW r \in Reqs, Arrive(r) \/ Request(r) PROVE TypeInv'
      BY <1>1, <2>1, ArriveTyped, PauseTyped, ResumeTyped, DeleteTyped, CleanupTyped
         DEF Request
    <2>2. ASSUME NEW w \in Workers, Worker(w) PROVE TypeInv'
      BY <1>1, <2>2, WorkerTyped
    <2>3. ASSUME NEW p \in Procs, Boot(p) \/ Crash(p) PROVE TypeInv'
      BY <1>1, <2>3, CrashTyped, BootTyped
    <2>4. CASE Expire \/ UNCHANGED vars
      BY <1>1, <2>4, ExpireTyped, StutterTyped
    <2> QED BY <1>1, <2>1, <2>2, <2>3, <2>4 DEF Next
  <1> QED BY InitTyped, <1>1, PTL DEF Spec

\* Every variable of the import keeps its type: the row, the registries, the
\* threads' program counters and what they remember, whichever interleaving of
\* requests, workers, crashes and restarts runs.
THEOREM TypeCorrect == Spec => []TypeOK
  <1>1. TypeInv => TypeOK
    BY DEF TypeInv
  <1> QED BY TypeInvariant, <1>1, PTL

-----------------------------------------------------------------------------
(* The worker registry of a process and the threads it stands for: an      *)
(* entry is active exactly while a registered worker of the process runs.  *)
(* Pause, delete and resume decide from the entry whether they may touch   *)
(* the import, so both directions matter.                                  *)

\* A worker between register() and the call that acknowledges its stop.
RegisteredAt == {"w_load", "w_publish", "w_check", "w_upload", "w_write", "w_final",
                 "w_assert", "w_state", "w_complete", "w_published", "w_stop",
                 "w_cancelled", "w_lost", "w_fail"}
RegisteredIn(p) == \E w \in Workers : home[w] = p /\ pc[w] \in RegisteredAt

ActiveIffRegistered == \A p \in Procs : reg[p].active <=> RegisteredIn(p)

\* _BACKGROUND_WORKERS: one thread in a process.
OneThread == \A v, w \in Workers :
               /\ pc[v] \in AtWork /\ pc[w] \in AtWork
               /\ home[v] = home[w]
               => v = w

\* Nothing runs in a process that has not finished its startup, and startup
\* runs in its own process.
Still == {"idle", "unused", "done", "dead"}
BootQuiet == \A p \in Procs : pc[p] # "up" =>
               \A a \in Reqs \cup Workers : home[a] = p => pc[a] \in Still
OwnHome == \A p \in Procs : home[p] = p

RegistryInv == ActiveIffRegistered /\ OneThread /\ BootQuiet /\ OwnHome

-----------------------------------------------------------------------------
(* Steps that leave the registry entries and the set of registered workers *)
(* as they are.                                                            *)

SameEntries == \A p \in Procs : reg'[p].active = reg[p].active
Only(a) == \A b \in Actors \ {a} : pc'[b] = pc[b]

\* A worker that neither registers nor acknowledges.
WorkerOnly(w) == /\ Only(w) /\ SameEntries /\ home' = home
                 /\ pc[w] \notin Still
                 /\ pc'[w] \in RegisteredAt <=> pc[w] \in RegisteredAt
                 /\ pc'[w] \in AtWork => pc[w] \in AtWork

RequestOnly(r) == Only(r) /\ SameEntries /\ home' = home /\ pc[r] \notin Still
StartupOnly(p) == Only(p) /\ SameEntries /\ home' = home /\ pc[p] # "up"

LEMMA WorkerOnlyKeeps ==
  ASSUME TypeOK, RegistryInv, NEW w \in Workers, WorkerOnly(w)
  PROVE  RegistryInv'
  <1> USE ActorAssumption DEF RegistryInv, WorkerOnly, Only, Actors
  <1>1. ActiveIffRegistered'
    BY DEF ActiveIffRegistered, RegisteredIn, SameEntries
  <1>2. OneThread'
    BY DEF OneThread
  <1>3. BootQuiet'
    BY DEF BootQuiet
  <1>4. OwnHome'
    BY DEF OwnHome
  <1> QED BY <1>1, <1>2, <1>3, <1>4

LEMMA RequestOnlyKeeps ==
  ASSUME TypeOK, RegistryInv, NEW r \in Reqs, RequestOnly(r)
  PROVE  RegistryInv'
  <1> USE ActorAssumption DEF RegistryInv, RequestOnly, Only, Actors
  <1>1. ActiveIffRegistered'
    BY DEF ActiveIffRegistered, RegisteredIn, SameEntries
  <1>2. OneThread'
    BY DEF OneThread
  <1>3. BootQuiet'
    BY DEF BootQuiet
  <1>4. OwnHome'
    BY DEF OwnHome
  <1> QED BY <1>1, <1>2, <1>3, <1>4

LEMMA StartupOnlyKeeps ==
  ASSUME TypeOK, RegistryInv, NEW p \in Procs, StartupOnly(p)
  PROVE  RegistryInv'
  <1> USE ActorAssumption DEF RegistryInv, StartupOnly, Only, Actors
  <1>1. ActiveIffRegistered'
    BY DEF ActiveIffRegistered, RegisteredIn, SameEntries
  <1>2. OneThread'
    BY DEF OneThread
  <1>3. BootQuiet'
    BY DEF BootQuiet
  <1>4. OwnHome'
    BY DEF OwnHome
  <1> QED BY <1>1, <1>2, <1>3, <1>4

\* The worker acknowledges: its entry is released, and no other worker of the
\* process needs it.
LEMMA AcknowledgeKeeps ==
  ASSUME TypeOK, RegistryInv, NEW w \in Workers, Only(w), home' = home,
         pc[w] \in RegisteredAt, pc'[w] \notin RegisteredAt,
         ~reg'[home[w]].active,
         \A p \in Procs \ {home[w]} : reg'[p].active = reg[p].active
  PROVE  RegistryInv'
  <1> USE ActorAssumption DEF RegistryInv, Only, Actors
  <1>1. ActiveIffRegistered'
    <2>1. ~RegisteredIn(home[w])'
      BY DEF RegisteredIn, OneThread, RegisteredAt, AtWork
    <2>2. \A p \in Procs \ {home[w]} : RegisteredIn(p)' <=> RegisteredIn(p)
      BY DEF RegisteredIn
    <2> QED BY <2>1, <2>2 DEF ActiveIffRegistered
  <1>2. OneThread'
    BY DEF OneThread, RegisteredAt, AtWork
  <1>3. BootQuiet'
    BY DEF BootQuiet, RegisteredAt, Still
  <1>4. OwnHome'
    BY DEF OwnHome
  <1> QED BY <1>1, <1>2, <1>3, <1>4

\* register(): the entry was free, so no other worker of the process is registered.
LEMMA RegisterKeeps ==
  ASSUME TypeOK, RegistryInv, NEW w \in Workers, Only(w), home' = home,
         pc[w] = "w_register", pc'[w] = "w_load",
         reg'[home[w]].active,
         \A p \in Procs \ {home[w]} : reg'[p].active = reg[p].active
  PROVE  RegistryInv'
  <1> USE ActorAssumption DEF RegistryInv, Only, Actors
  <1>1. ActiveIffRegistered'
    <2>1. RegisteredIn(home[w])'
      BY DEF RegisteredIn, RegisteredAt
    <2>2. \A p \in Procs \ {home[w]} : RegisteredIn(p)' <=> RegisteredIn(p)
      BY DEF RegisteredIn
    <2> QED BY <2>1, <2>2 DEF ActiveIffRegistered
  <1>2. OneThread'
    BY DEF OneThread, AtWork
  <1>3. BootQuiet'
    BY DEF BootQuiet, Still
  <1>4. OwnHome'
    BY DEF OwnHome
  <1> QED BY <1>1, <1>2, <1>3, <1>4

\* A stop request and the clearing of one leave the entries active or not.
LEMMA EntriesKept ==
  ASSUME reg \in [Procs -> Registers], NEW p \in Procs, NEW d \in BOOLEAN,
         \/ RequestStop(p, d)
         \/ reg' = [reg EXCEPT ![p].pause = FALSE, ![p].delete = FALSE]
  PROVE  SameEntries
  <1>1. \A q \in Procs : reg[q] \in Registers
    OBVIOUS
  <1>2. ASSUME NEW x \in Registers, NEW a \in BOOLEAN, NEW b \in BOOLEAN, NEW c \in BOOLEAN
        PROVE  /\ [x EXCEPT !.pause = a, !.delete = b, !.acked = c].active = x.active
               /\ [x EXCEPT !.pause = a, !.delete = b].active = x.active
    BY Zenon DEF Registers
  <1>3. CASE reg' = [reg EXCEPT ![p].pause = FALSE, ![p].delete = FALSE]
    BY <1>1, <1>2, <1>3, Zenon DEF SameEntries
  <1>4. CASE RequestStop(p, d)
    <2>1. reg[p] \in Registers /\ reg[p].delete \in BOOLEAN /\ reg[p].acked \in BOOLEAN
          /\ reg[p].active \in BOOLEAN
      BY RegisterTyped
    <2>2. (reg[p].delete \/ d) \in BOOLEAN /\ (reg[p].acked \/ ~reg[p].active) \in BOOLEAN
      OBVIOUS
    <2>3. [reg[p] EXCEPT !.pause = TRUE, !.delete = reg[p].delete \/ d,
                         !.acked = reg[p].acked \/ ~reg[p].active].active = reg[p].active
      BY <1>2, <2>1, <2>2, Zenon
    <2> QED BY <1>4, <2>3, Zenon DEF SameEntries, RequestStop
  <1> QED BY <1>3, <1>4

\* Register and acknowledge set the entry of one process.
LEMMA EntrySet ==
  ASSUME reg \in [Procs -> Registers], NEW p \in Procs
  PROVE  /\ reg' = [reg EXCEPT ![p].active = TRUE, ![p].acked = FALSE] =>
              /\ reg'[p].active
              /\ \A q \in Procs \ {p} : reg'[q].active = reg[q].active
         /\ reg' = [reg EXCEPT ![p].active = FALSE, ![p].acked = TRUE] =>
              /\ ~reg'[p].active
              /\ \A q \in Procs \ {p} : reg'[q].active = reg[q].active
  <1>1. ASSUME NEW x \in Registers
        PROVE  /\ [x EXCEPT !.active = TRUE, !.acked = FALSE].active
               /\ ~[x EXCEPT !.active = FALSE, !.acked = TRUE].active
    BY Zenon DEF Registers
  <1>2. reg[p] \in Registers
    OBVIOUS
  <1> QED BY <1>1, <1>2, Zenon

\* A worker is started only in a process that has none.
LEMMA StartKeeps ==
  ASSUME TypeOK, RegistryInv, NEW a \in Reqs \cup Procs, NEW exit,
         StartWorker(a, exit), reg' = reg, pc[a] \notin Still,
         a \in Procs => exit = "up", pc[a] # "up"
  PROVE  RegistryInv'
  <1>1. PICK w \in Workers :
             /\ pc[w] = "unused"
             /\ pc' = [pc EXCEPT ![w] = "w_register", ![a] = exit]
             /\ home' = [home EXCEPT ![w] = home[a]]
    BY DEF StartWorker
  <1>2. /\ a # w /\ a \in Actors /\ w \in Actors
        /\ pc'[w] = "w_register" /\ home'[w] = home[a] /\ home[a] \in Procs
        /\ pc'[a] = exit /\ home'[a] = home[a]
        /\ \A b \in Actors \ {a, w} : pc'[b] = pc[b] /\ home'[b] = home[b]
    BY <1>1, ActorAssumption DEF TypeOK, Actors
  <1>3. ActiveIffRegistered'
    <2>1. \A v \in Workers, q \in Procs :
            (home'[v] = q /\ pc'[v] \in RegisteredAt) <=> (home[v] = q /\ pc[v] \in RegisteredAt)
      BY <1>1, <1>2, ActorAssumption DEF RegisteredAt, Actors
    <2> QED BY <2>1 DEF RegistryInv, ActiveIffRegistered, RegisteredIn
  <1>4. OneThread'
    BY <1>1, <1>2, ActorAssumption DEF RegistryInv, OneThread, StartWorker, Background, Actors
  <1>5. BootQuiet'
    <2>1. CASE a \in Reqs
      <3>1. pc[home[a]] = "up"
        BY <1>2, <2>1 DEF RegistryInv, BootQuiet
      <3> QED BY <1>2, <2>1, <3>1, ActorAssumption DEF RegistryInv, BootQuiet, Still, Actors
    <2>2. CASE a \in Procs
      <3>1. home[a] = a /\ pc'[a] = "up"
        BY <1>2, <2>2 DEF RegistryInv, OwnHome
      <3> QED BY <1>2, <2>2, <3>1, ActorAssumption DEF RegistryInv, BootQuiet, Still, Actors
    <2> QED BY <2>1, <2>2
  <1>6. OwnHome'
    BY <1>1, <1>2, ActorAssumption DEF RegistryInv, OwnHome, Actors
  <1> QED BY <1>3, <1>4, <1>5, <1>6 DEF RegistryInv

-----------------------------------------------------------------------------
(* One lemma for each kind of thread.                                      *)

\* A worker step: register, acknowledge, or neither.
LEMMA WorkerEntries ==
  ASSUME TypeInv, RegistryInv, NEW w \in Workers, Worker(w)
  PROVE  RegistryInv'
  <1>0. /\ TypeOK /\ pc \in [Actors -> Labels] /\ reg \in [Procs -> Registers]
        /\ w \in Actors /\ home[w] \in Procs
    BY DEF TypeInv, TypeOK, Actors
  <1>1. CASE WRegister(w)
    <2>1. CASE reg[home[w]].active
      <3>1. WorkerOnly(w)
        BY <1>0, <1>1, <2>1, ActorAssumption
           DEF WRegister, WorkerOnly, Only, SameEntries, Still, Actors, Goto, RegisteredAt, AtWork
      <3> QED BY <1>0, <3>1, WorkerOnlyKeeps
    <2>2. CASE ~reg[home[w]].active
      <3>1. reg' = [reg EXCEPT ![home[w]].active = TRUE, ![home[w]].acked = FALSE]
        BY <1>1, <2>2 DEF WRegister
      <3>2. /\ reg'[home[w]].active
            /\ \A p \in Procs \ {home[w]} : reg'[p].active = reg[p].active
        BY <1>0, <3>1, EntrySet
      <3>3. /\ Only(w) /\ home' = home
            /\ pc[w] = "w_register" /\ pc'[w] = "w_load"
        BY <1>0, <1>1, <2>2 DEF WRegister, Only, Goto
      <3> QED BY <1>0, <3>2, <3>3, RegisterKeeps
    <2> QED BY <2>1, <2>2
  <1>2. CASE WLoad(w)
    <2>1. WorkerOnly(w)
      BY <1>0, <1>2, ActorAssumption DEF WLoad, WorkerOnly, Only, SameEntries, Still,
         Actors, Goto, Leave, Save, Set, Allowed, local, RegisteredAt, AtWork
    <2> QED BY <1>0, <2>1, WorkerOnlyKeeps
  <1>3. CASE WPublish(w)
    <2>1. WorkerOnly(w)
      BY <1>0, <1>3, ActorAssumption DEF WPublish, WorkerOnly, Only, SameEntries,
         Still, Actors, Goto, Leave, Save, Set, Allowed, local, RegisteredAt, AtWork
    <2> QED BY <1>0, <2>1, WorkerOnlyKeeps
  <1>4. CASE WCheck(w)
    <2>1. WorkerOnly(w)
      BY <1>0, <1>4, ActorAssumption DEF WCheck, WorkerOnly, Only, SameEntries, Still,
         Actors, Goto, Leave, Save, Set, Allowed, local, RegisteredAt, AtWork
    <2> QED BY <1>0, <2>1, WorkerOnlyKeeps
  <1>5. CASE WRaise(w)
    <2>1. WorkerOnly(w)
      BY <1>0, <1>5, ActorAssumption DEF WRaise, WorkerOnly, Only, SameEntries, Still,
         Actors, Goto, Leave, Save, Set, Allowed, local, RegisteredAt, AtWork
    <2> QED BY <1>0, <2>1, WorkerOnlyKeeps
  <1>6. CASE WUpload(w)
    <2>1. WorkerOnly(w)
      BY <1>0, <1>6, ActorAssumption DEF WUpload, WorkerOnly, Only, SameEntries,
         Still, Actors, Goto, Leave, Save, Set, Allowed, local, RegisteredAt, AtWork
    <2> QED BY <1>0, <2>1, WorkerOnlyKeeps
  <1>7. CASE WWrite(w)
    <2>1. WorkerOnly(w)
      BY <1>0, <1>7, ActorAssumption DEF WWrite, WorkerOnly, Only, SameEntries, Still,
         Actors, Goto, Leave, Save, Set, Allowed, local, RegisteredAt, AtWork
    <2> QED BY <1>0, <2>1, WorkerOnlyKeeps
  <1>8. CASE WFinal(w)
    <2>1. WorkerOnly(w)
      BY <1>0, <1>8, ActorAssumption DEF WFinal, WorkerOnly, Only, SameEntries, Still,
         Actors, Goto, Leave, Save, Set, Allowed, local, RegisteredAt, AtWork
    <2> QED BY <1>0, <2>1, WorkerOnlyKeeps
  <1>9. CASE WComplete(w)
    <2>1. ASSUME CompleteAssert(w, "w_assert", "w_state", "w_published", "w_cancelled") PROVE WorkerOnly(w)
      BY <1>0, <2>1, ActorAssumption DEF CompleteAssert, WorkerOnly, Only,
         SameEntries, Still, Actors, Goto, Leave, Save, Set, Allowed, local,
         RegisteredAt, AtWork
    <2>2. ASSUME CompleteState(w, "w_state", "w_complete", "w_published") PROVE WorkerOnly(w)
      BY <1>0, <2>2, ActorAssumption DEF CompleteState, WorkerOnly, Only, SameEntries,
         Still, Actors, Goto, Leave, Save, Set, Allowed, local, RegisteredAt, AtWork
    <2>3. ASSUME CompleteWrite(w, "w_complete", "w_published", "w_published", "w_cancelled") PROVE WorkerOnly(w)
      BY <1>0, <2>3, ActorAssumption DEF CompleteWrite, WorkerOnly, Only, SameEntries,
         Still, Actors, Goto, Leave, Save, Set, Allowed, local, RegisteredAt, AtWork
    <2>4. WorkerOnly(w)
      BY <1>9, <2>1, <2>2, <2>3 DEF WComplete
    <2> QED BY <1>0, <2>4, WorkerOnlyKeeps
  <1>10. CASE WPublished(w)
    <2>1. CASE ~row.exists
      <3>1. WorkerOnly(w)
        BY <1>0, <1>10, <2>1, ActorAssumption
           DEF WPublished, WorkerOnly, Only, SameEntries, Still, Actors, Goto, Save, Set, Allowed,
               RegisteredAt, AtWork
      <3> QED BY <1>0, <3>1, WorkerOnlyKeeps
    <2>2. CASE row.exists
      <3>1. reg' = [reg EXCEPT ![home[w]].active = FALSE, ![home[w]].acked = TRUE]
        BY <1>10, <2>2 DEF WPublished
      <3>2. /\ ~reg'[home[w]].active
            /\ \A p \in Procs \ {home[w]} : reg'[p].active = reg[p].active
        BY <1>0, <3>1, EntrySet
      <3>3. /\ Only(w) /\ home' = home
            /\ pc[w] \in RegisteredAt /\ pc'[w] \notin RegisteredAt
        BY <1>0, <1>10, <2>2 DEF WPublished, Only, Goto, Save, Set, Allowed, RegisteredAt
      <3> QED BY <1>0, <3>2, <3>3, AcknowledgeKeeps
    <2> QED BY <2>1, <2>2
  <1>11. CASE WStop(w)
    <2>1. reg' = [reg EXCEPT ![home[w]].active = FALSE, ![home[w]].acked = TRUE]
      BY <1>11 DEF WStop, Acknowledge
    <2>2. /\ ~reg'[home[w]].active
          /\ \A p \in Procs \ {home[w]} : reg'[p].active = reg[p].active
      BY <1>0, <2>1, EntrySet
    <2>3. /\ Only(w) /\ home' = home
          /\ pc[w] \in RegisteredAt /\ pc'[w] \notin RegisteredAt
      BY <1>0, <1>11 DEF WStop, Only, Goto, Save, Set, Allowed, RegisteredAt
    <2> QED BY <1>0, <2>2, <2>3, AcknowledgeKeeps
  <1>12. CASE WLost(w)
    <2>1. reg' = [reg EXCEPT ![home[w]].active = FALSE, ![home[w]].acked = TRUE]
      BY <1>12 DEF WLost, Acknowledge
    <2>2. /\ ~reg'[home[w]].active
          /\ \A p \in Procs \ {home[w]} : reg'[p].active = reg[p].active
      BY <1>0, <2>1, EntrySet
    <2>3. /\ Only(w) /\ home' = home
          /\ pc[w] \in RegisteredAt /\ pc'[w] \notin RegisteredAt
      BY <1>0, <1>12 DEF WLost, Only, Goto, Save, Set, Allowed, RegisteredAt
    <2> QED BY <1>0, <2>2, <2>3, AcknowledgeKeeps
  <1>13. CASE WFail(w)
    <2>1. reg' = [reg EXCEPT ![home[w]].active = FALSE, ![home[w]].acked = TRUE]
      BY <1>13 DEF WFail, Acknowledge
    <2>2. /\ ~reg'[home[w]].active
          /\ \A p \in Procs \ {home[w]} : reg'[p].active = reg[p].active
      BY <1>0, <2>1, EntrySet
    <2>3. /\ Only(w) /\ home' = home
          /\ pc[w] \in RegisteredAt /\ pc'[w] \notin RegisteredAt
      BY <1>0, <1>13 DEF WFail, Only, Goto, Save, Set, Allowed, RegisteredAt
    <2> QED BY <1>0, <2>2, <2>3, AcknowledgeKeeps
  <1>14. CASE WRelease(w)
    <2>1. WorkerOnly(w)
      BY <1>0, <1>14, ActorAssumption DEF WRelease, WorkerOnly, Only, SameEntries,
         Still, Actors, Goto, Leave, Save, Set, Allowed, local, RegisteredAt, AtWork
    <2> QED BY <1>0, <2>1, WorkerOnlyKeeps
  <1>15. CASE WFinalize(w)
    <2>1. ASSUME FinalizeRead(w, "w_early1", "w_early2", "w_release") PROVE WorkerOnly(w)
      BY <1>0, <2>1, ActorAssumption DEF FinalizeRead, WorkerOnly, Only, SameEntries,
         Still, Actors, Goto, Leave, Save, Set, Allowed, local, RegisteredAt, AtWork
    <2>2. ASSUME FinalizeWrite(w, "w_early2", "w_release", "w_drop") PROVE WorkerOnly(w)
      BY <1>0, <2>2, ActorAssumption DEF FinalizeWrite, WorkerOnly, Only, SameEntries,
         Still, Actors, Goto, Leave, Save, Set, Allowed, local, RegisteredAt, AtWork
    <2>3. ASSUME FinalizeRead(w, "w_late1", "w_late2", "done") PROVE WorkerOnly(w)
      BY <1>0, <2>3, ActorAssumption DEF FinalizeRead, WorkerOnly, Only, SameEntries,
         Still, Actors, Goto, Leave, Save, Set, Allowed, local, RegisteredAt, AtWork
    <2>4. ASSUME FinalizeWrite(w, "w_late2", "done", "done") PROVE WorkerOnly(w)
      BY <1>0, <2>4, ActorAssumption DEF FinalizeWrite, WorkerOnly, Only, SameEntries,
         Still, Actors, Goto, Leave, Save, Set, Allowed, local, RegisteredAt, AtWork
    <2>5. WorkerOnly(w)
      BY <1>15, <2>1, <2>2, <2>3, <2>4 DEF WFinalize
    <2> QED BY <1>0, <2>5, WorkerOnlyKeeps
  <1> QED BY <1>1, <1>2, <1>3, <1>4, <1>5, <1>6, <1>7, <1>8, <1>9, <1>10, <1>11,
             <1>12, <1>13, <1>14, <1>15 DEF Worker

\* A complete request, which may start a worker.
LEMMA CompleteEntries ==
  ASSUME TypeInv, RegistryInv, NEW r \in Reqs, Complete(r)
  PROVE  RegistryInv'
  <1>0. /\ TypeOK /\ pc \in [Actors -> Labels] /\ reg \in [Procs -> Registers]
        /\ r \in Actors /\ home[r] \in Procs
    BY DEF TypeInv, TypeOK, Actors
  <1>1. CASE CompleteRead(r)
    <2>1. RequestOnly(r)
      BY <1>0, <1>1, ActorAssumption DEF CompleteRead, RequestOnly, Only, SameEntries,
         Still, Actors, Goto, Leave, Save, Set, Allowed, local
    <2> QED BY <1>0, <2>1, RequestOnlyKeeps
  <1>2. CASE CompleteFinal(r)
    <2>1. RequestOnly(r)
      BY <1>0, <1>2, ActorAssumption DEF CompleteFinal, RequestOnly, Only,
         SameEntries, Still, Actors, Goto, Leave, Save, Set, Allowed, local
    <2> QED BY <1>0, <2>1, RequestOnlyKeeps
  <1>3. CASE CompleteAssert(r, "k_assert", "k_state", "done", "done")
    <2>1. RequestOnly(r)
      BY <1>0, <1>3, ActorAssumption DEF CompleteAssert, RequestOnly, Only,
         SameEntries, Still, Actors, Goto, Leave, Save, Set, Allowed, local
    <2> QED BY <1>0, <2>1, RequestOnlyKeeps
  <1>4. CASE CompleteState(r, "k_state", "k_complete", "done")
    <2>1. RequestOnly(r)
      BY <1>0, <1>4, ActorAssumption DEF CompleteState, RequestOnly, Only,
         SameEntries, Still, Actors, Goto, Leave, Save, Set, Allowed, local
    <2> QED BY <1>0, <2>1, RequestOnlyKeeps
  <1>5. CASE CompleteWrite(r, "k_complete", "done", "done", "done")
    <2>1. RequestOnly(r)
      BY <1>0, <1>5, ActorAssumption DEF CompleteWrite, RequestOnly, Only,
         SameEntries, Still, Actors, Goto, Leave, Save, Set, Allowed, local
    <2> QED BY <1>0, <2>1, RequestOnlyKeeps
  <1>6. CASE CompleteQueue(r)
    <2>1. RequestOnly(r)
      BY <1>0, <1>6, ActorAssumption DEF CompleteQueue, RequestOnly, Only,
         SameEntries, Still, Actors, Goto, Leave, Save, Set, Allowed, local
    <2> QED BY <1>0, <2>1, RequestOnlyKeeps
  <1>7. CASE CompleteStart(r)
    <2>1. CASE StartWorker(r, "done")
      <3>1. pc[r] = "k_start" /\ reg' = reg
        BY <1>7 DEF CompleteStart, local
      <3>2. r \in Reqs \cup Procs /\ (r \in Procs => "done" = "up")
        BY ActorAssumption
      <3>3. pc[r] \notin Still /\ pc[r] # "up"
        BY <3>1 DEF Still
      <3> QED BY <1>0, <2>1, <3>1, <3>2, <3>3, StartKeeps
    <2>2. CASE ~StartWorker(r, "done")
      <3>1. RequestOnly(r)
        <4>1. pc' \in {[pc EXCEPT ![r] = "done"], [pc EXCEPT ![r] = "k_failed"]} /\ home' = home
          BY <1>7, <2>2 DEF CompleteStart, StartRefused, Goto
        <4>2. pc[r] = "k_start" /\ reg' = reg
          BY <1>7 DEF CompleteStart, local
        <4> QED BY <1>0, <4>1, <4>2 DEF RequestOnly, Only, SameEntries, Still, Actors
      <3> QED BY <1>0, <3>1, RequestOnlyKeeps
    <2> QED BY <2>1, <2>2
  <1>8. CASE CompleteFailed(r)
    <2>1. RequestOnly(r)
      BY <1>0, <1>8, ActorAssumption DEF CompleteFailed, RequestOnly, Only,
         SameEntries, Still, Actors, Goto, Leave, Save, Set, Allowed, local
    <2> QED BY <1>0, <2>1, RequestOnlyKeeps
  <1> QED BY <1>1, <1>2, <1>3, <1>4, <1>5, <1>6, <1>7, <1>8 DEF Complete

\* Pause requests leave the entries alone: asking a worker to stop does not
\* release it.
LEMMA PauseEntries ==
  ASSUME TypeInv, RegistryInv, NEW r \in Reqs, Pause(r)
  PROVE  RegistryInv'
  <1>0. /\ TypeOK /\ pc \in [Actors -> Labels] /\ reg \in [Procs -> Registers]
        /\ r \in Actors /\ home[r] \in Procs
    BY DEF TypeInv, TypeOK, Actors
  <1>1. CASE PauseRead(r)
    <2>1. RequestOnly(r)
      <3>1. SameEntries
        <4>1. reg' = reg \/ RequestStop(home[r], FALSE)
          BY <1>1 DEF PauseRead
        <4> QED BY <1>0, <4>1, EntriesKept DEF SameEntries
      <3>2. pc' \in {[pc EXCEPT ![r] = "done"], [pc EXCEPT ![r] = "p_update"]}
            /\ home' = home /\ pc[r] = "p_read"
        BY <1>1 DEF PauseRead, Goto, Leave
      <3> QED BY <1>0, <3>1, <3>2 DEF RequestOnly, Only, Still, Actors
    <2> QED BY <1>0, <2>1, RequestOnlyKeeps
  <1>2. CASE PauseUpdate(r)
    <2>1. RequestOnly(r)
      BY <1>0, <1>2, ActorAssumption DEF PauseUpdate, RequestOnly, Only, SameEntries,
         Still, Actors, Goto, Leave, Save, Set, Allowed, local
    <2> QED BY <1>0, <2>1, RequestOnlyKeeps
  <1>3. CASE WaitEnds(r, "p_wait", "p_paused", "p_stopping")
    <2>1. RequestOnly(r)
      BY <1>0, <1>3, ActorAssumption DEF WaitEnds, RequestOnly, Only, SameEntries,
         Still, Actors, Goto, Leave, Save, Set, Allowed, local
    <2> QED BY <1>0, <2>1, RequestOnlyKeeps
  <1>4. CASE PausePaused(r)
    <2>1. RequestOnly(r)
      BY <1>0, <1>4, ActorAssumption DEF PausePaused, RequestOnly, Only, SameEntries,
         Still, Actors, Goto, Leave, Save, Set, Allowed, local
    <2> QED BY <1>0, <2>1, RequestOnlyKeeps
  <1>5. CASE PauseStopping(r)
    <2>1. RequestOnly(r)
      BY <1>0, <1>5, ActorAssumption DEF PauseStopping, RequestOnly, Only,
         SameEntries, Still, Actors, Goto, Leave, Save, Set, Allowed, local
    <2> QED BY <1>0, <2>1, RequestOnlyKeeps
  <1>6. CASE PauseTimedOut(r)
    <2>1. RequestOnly(r)
      BY <1>0, <1>6, ActorAssumption DEF PauseTimedOut, RequestOnly, Only,
         SameEntries, Still, Actors, Goto, Leave, Save, Set, Allowed, local
    <2> QED BY <1>0, <2>1, RequestOnlyKeeps
  <1>7. CASE FinalizeRead(r, "p_fin1", "p_fin2", "done")
    <2>1. RequestOnly(r)
      BY <1>0, <1>7, ActorAssumption DEF FinalizeRead, RequestOnly, Only, SameEntries,
         Still, Actors, Goto, Leave, Save, Set, Allowed, local
    <2> QED BY <1>0, <2>1, RequestOnlyKeeps
  <1>8. CASE FinalizeWrite(r, "p_fin2", "done", "done")
    <2>1. RequestOnly(r)
      BY <1>0, <1>8, ActorAssumption DEF FinalizeWrite, RequestOnly, Only,
         SameEntries, Still, Actors, Goto, Leave, Save, Set, Allowed, local
    <2> QED BY <1>0, <2>1, RequestOnlyKeeps
  <1> QED BY <1>1, <1>2, <1>3, <1>4, <1>5, <1>6, <1>7, <1>8 DEF Pause

\* So do resume requests.
LEMMA ResumeEntries ==
  ASSUME TypeInv, RegistryInv, NEW r \in Reqs, Resume(r)
  PROVE  RegistryInv'
  <1>0. /\ TypeOK /\ pc \in [Actors -> Labels] /\ reg \in [Procs -> Registers]
        /\ r \in Actors /\ home[r] \in Procs
    BY DEF TypeInv, TypeOK, Actors
  <1>1. CASE ResumeRead(r)
    <2>1. RequestOnly(r)
      BY <1>0, <1>1, ActorAssumption DEF ResumeRead, RequestOnly, Only, SameEntries,
         Still, Actors, Goto, Leave, Save, Set, Allowed, local
    <2> QED BY <1>0, <2>1, RequestOnlyKeeps
  <1>2. CASE ResumeLease(r)
    <2>1. RequestOnly(r)
      <3>1. SameEntries
        <4>1. \/ reg' = reg
              \/ reg' = [reg EXCEPT ![home[r]].pause = FALSE, ![home[r]].delete = FALSE]
          BY <1>2 DEF ResumeLease
        <4> QED BY <1>0, <4>1, EntriesKept DEF SameEntries
      <3>2. pc' \in {[pc EXCEPT ![r] = "done"], [pc EXCEPT ![r] = "r_update"]}
            /\ home' = home /\ pc[r] = "r_lease"
        BY <1>2 DEF ResumeLease, Goto
      <3> QED BY <1>0, <3>1, <3>2 DEF RequestOnly, Only, Still, Actors
    <2> QED BY <1>0, <2>1, RequestOnlyKeeps
  <1>3. CASE ResumeUpdate(r)
    <2>1. RequestOnly(r)
      BY <1>0, <1>3, ActorAssumption DEF ResumeUpdate, RequestOnly, Only, SameEntries,
         Still, Actors, Goto, Leave, Save, Set, Allowed, local
    <2> QED BY <1>0, <2>1, RequestOnlyKeeps
  <1> QED BY <1>1, <1>2, <1>3, CompleteEntries DEF Resume

\* So do delete requests and finalizers.
LEMMA DeleteEntries ==
  ASSUME TypeInv, RegistryInv, NEW r \in Reqs, Delete(r)
  PROVE  RegistryInv'
  <1>0. /\ TypeOK /\ pc \in [Actors -> Labels] /\ reg \in [Procs -> Registers]
        /\ r \in Actors /\ home[r] \in Procs
    BY DEF TypeInv, TypeOK, Actors
  <1>1. CASE DeleteRead(r)
    <2>1. RequestOnly(r)
      <3>1. SameEntries
        <4>1. reg' = reg \/ RequestStop(home[r], TRUE)
          BY <1>1 DEF DeleteRead, local
        <4> QED BY <1>0, <4>1, EntriesKept DEF SameEntries
      <3>2. pc' \in {[pc EXCEPT ![r] = "done"], [pc EXCEPT ![r] = "d_update"]}
            /\ home' = home /\ pc[r] = "d_read"
        BY <1>1 DEF DeleteRead, Goto, Leave
      <3> QED BY <1>0, <3>1, <3>2 DEF RequestOnly, Only, Still, Actors
    <2> QED BY <1>0, <2>1, RequestOnlyKeeps
  <1>2. CASE DeleteUpdate(r)
    <2>1. RequestOnly(r)
      BY <1>0, <1>2, ActorAssumption DEF DeleteUpdate, RequestOnly, Only, SameEntries,
         Still, Actors, Goto, Leave, Save, Set, Allowed, local
    <2> QED BY <1>0, <2>1, RequestOnlyKeeps
  <1>3. CASE WaitEnds(r, "d_wait", "c_check", "d_timeout")
    <2>1. RequestOnly(r)
      BY <1>0, <1>3, ActorAssumption DEF WaitEnds, RequestOnly, Only, SameEntries,
         Still, Actors, Goto, Leave, Save, Set, Allowed, local
    <2> QED BY <1>0, <2>1, RequestOnlyKeeps
  <1>4. CASE DeleteTimedOut(r)
    <2>1. RequestOnly(r)
      BY <1>0, <1>4, ActorAssumption DEF DeleteTimedOut, RequestOnly, Only,
         SameEntries, Still, Actors, Goto, Leave, Save, Set, Allowed, local
    <2> QED BY <1>0, <2>1, RequestOnlyKeeps
  <1>5. CASE FinalizerWait(r)
    <2>1. RequestOnly(r)
      BY <1>0, <1>5, ActorAssumption DEF FinalizerWait, RequestOnly, Only,
         SameEntries, Still, Actors, Goto, Leave, Save, Set, Allowed, local
    <2> QED BY <1>0, <2>1, RequestOnlyKeeps
  <1>6. CASE FinalizerRead(r)
    <2>1. RequestOnly(r)
      BY <1>0, <1>6, ActorAssumption DEF FinalizerRead, RequestOnly, Only,
         SameEntries, Still, Actors, Goto, Leave, Save, Set, Allowed, local
    <2> QED BY <1>0, <2>1, RequestOnlyKeeps
  <1> QED BY <1>1, <1>2, <1>3, <1>4, <1>5, <1>6 DEF Delete

\* So does the cleanup.
LEMMA CleanupEntries ==
  ASSUME TypeInv, RegistryInv, NEW r \in Reqs, Cleanup(r)
  PROVE  RegistryInv'
  <1>0. /\ TypeOK /\ pc \in [Actors -> Labels] /\ reg \in [Procs -> Registers]
        /\ r \in Actors /\ home[r] \in Procs
    BY DEF TypeInv, TypeOK, Actors
  <1>1. CASE CleanupCheck(r)
    <2>1. RequestOnly(r)
      BY <1>0, <1>1, ActorAssumption DEF CleanupCheck, RequestOnly, Only, SameEntries,
         Still, Actors, Goto, Leave, Save, Set, Allowed, local
    <2> QED BY <1>0, <2>1, RequestOnlyKeeps
  <1>2. CASE CleanupBack(r)
    <2>1. RequestOnly(r)
      BY <1>0, <1>2, ActorAssumption DEF CleanupBack, RequestOnly, Only, SameEntries,
         Still, Actors, Goto, Leave, Save, Set, Allowed, local
    <2> QED BY <1>0, <2>1, RequestOnlyKeeps
  <1>3. CASE CleanupBegin(r)
    <2>1. RequestOnly(r)
      BY <1>0, <1>3, ActorAssumption DEF CleanupBegin, RequestOnly, Only, SameEntries,
         Still, Actors, Goto, Leave, Save, Set, Allowed, local
    <2> QED BY <1>0, <2>1, RequestOnlyKeeps
  <1>4. CASE CleanupMark(r)
    <2>1. RequestOnly(r)
      BY <1>0, <1>4, ActorAssumption DEF CleanupMark, RequestOnly, Only, SameEntries,
         Still, Actors, Goto, Leave, Save, Set, Allowed, local
    <2> QED BY <1>0, <2>1, RequestOnlyKeeps
  <1>5. CASE CleanupRecheck(r)
    <2>1. RequestOnly(r)
      BY <1>0, <1>5, ActorAssumption DEF CleanupRecheck, RequestOnly, Only,
         SameEntries, Still, Actors, Goto, Leave, Save, Set, Allowed, local
    <2> QED BY <1>0, <2>1, RequestOnlyKeeps
  <1>6. CASE CleanupStorage(r)
    <2>1. RequestOnly(r)
      BY <1>0, <1>6, ActorAssumption DEF CleanupStorage, RequestOnly, Only,
         SameEntries, Still, Actors, Goto, Leave, Save, Set, Allowed, local
    <2> QED BY <1>0, <2>1, RequestOnlyKeeps
  <1>7. CASE CleanupChildren(r)
    <2>1. RequestOnly(r)
      BY <1>0, <1>7, ActorAssumption DEF CleanupChildren, RequestOnly, Only,
         SameEntries, Still, Actors, Goto, Leave, Save, Set, Allowed, local
    <2> QED BY <1>0, <2>1, RequestOnlyKeeps
  <1>8. CASE CleanupStaging(r)
    <2>1. RequestOnly(r)
      BY <1>0, <1>8, ActorAssumption DEF CleanupStaging, RequestOnly, Only,
         SameEntries, Still, Actors, Goto, Leave, Save, Set, Allowed, local
    <2> QED BY <1>0, <2>1, RequestOnlyKeeps
  <1>9. CASE HardDelete(r)
    <2>1. RequestOnly(r)
      BY <1>0, <1>9, ActorAssumption DEF HardDelete, RequestOnly, Only, SameEntries,
         Still, Actors, Goto, Leave, Save, Set, Allowed, local
    <2> QED BY <1>0, <2>1, RequestOnlyKeeps
  <1>10. CASE CleanupFailed(r)
    <2>1. RequestOnly(r)
      BY <1>0, <1>10, ActorAssumption DEF CleanupFailed, RequestOnly, Only,
         SameEntries, Still, Actors, Goto, Leave, Save, Set, Allowed, local
    <2> QED BY <1>0, <2>1, RequestOnlyKeeps
  <1> QED BY <1>1, <1>2, <1>3, <1>4, <1>5, <1>6, <1>7, <1>8, <1>9, <1>10 DEF Cleanup

\* Startup: it may start a worker, and it may release the entry of its process.
LEMMA BootEntries ==
  ASSUME TypeInv, RegistryInv, NEW p \in Procs, Boot(p)
  PROVE  RegistryInv'
  <1>0. /\ TypeOK /\ pc \in [Actors -> Labels] /\ reg \in [Procs -> Registers]
        /\ p \in Actors /\ home[p] \in Procs
    BY DEF TypeInv, TypeOK, Actors
  <1>1. CASE BootSelect(p, "down", Recoverable, "b_lease", "b_again")
    <2>1. StartupOnly(p)
      BY <1>0, <1>1, ActorAssumption DEF BootSelect, StartupOnly, Only, SameEntries,
         Still, Actors, Goto, Leave, Save, Set, Allowed, local
    <2> QED BY <1>0, <2>1, StartupOnlyKeeps
  <1>2. CASE BootLease(p, "b_lease", "b_recover", "b_again")
    <2>1. StartupOnly(p)
      BY <1>0, <1>2, ActorAssumption DEF BootLease, StartupOnly, Only, SameEntries,
         Still, Actors, Goto, Leave, Save, Set, Allowed, local
    <2> QED BY <1>0, <2>1, StartupOnlyKeeps
  <1>3. CASE BootRecover(p)
    <2>1. ~reg[p].active
      <3>1. pc[p] # "up"
        BY <1>3 DEF BootRecover
      <3> QED BY <3>1 DEF RegistryInv, BootQuiet, ActiveIffRegistered, RegisteredIn, RegisteredAt, Still
    <2>2. StartupOnly(p)
      <3>1. SameEntries
        <4>1. \/ reg' = reg
              \/ reg' = [reg EXCEPT ![p].active = FALSE, ![p].acked = TRUE]
          BY <1>3 DEF BootRecover
        <4>2. CASE reg' = [reg EXCEPT ![p].active = FALSE, ![p].acked = TRUE]
          <5>1. /\ ~reg'[p].active
                /\ \A q \in Procs \ {p} : reg'[q].active = reg[q].active
            BY <1>0, <4>2, EntrySet
          <5>2. reg'[p].active \in BOOLEAN /\ reg[p].active \in BOOLEAN
            BY <1>0, <4>2, RegTyped, RegisterTyped
          <5> QED BY <2>1, <5>1, <5>2 DEF SameEntries
        <4> QED BY <4>1, <4>2 DEF SameEntries
      <3>2. pc' = [pc EXCEPT ![p] = "b_again"] /\ pc[p] = "b_recover" /\ home' = home
        BY <1>3 DEF BootRecover, Save, Goto
      <3> QED BY <1>0, <3>1, <3>2 DEF StartupOnly, Only
    <2> QED BY <1>0, <2>2, StartupOnlyKeeps
  <1>4. CASE BootSelect(p, "b_again", Restartable, "b_owner", "up")
    <2>1. StartupOnly(p)
      BY <1>0, <1>4, ActorAssumption DEF BootSelect, StartupOnly, Only, SameEntries,
         Still, Actors, Goto, Leave, Save, Set, Allowed, local
    <2> QED BY <1>0, <2>1, StartupOnlyKeeps
  <1>5. CASE BootLease(p, "b_owner", "b_requeue", "up")
    <2>1. StartupOnly(p)
      BY <1>0, <1>5, ActorAssumption DEF BootLease, StartupOnly, Only, SameEntries,
         Still, Actors, Goto, Leave, Save, Set, Allowed, local
    <2> QED BY <1>0, <2>1, StartupOnlyKeeps
  <1>6. CASE BootRequeue(p)
    <2>1. StartupOnly(p)
      BY <1>0, <1>6, ActorAssumption DEF BootRequeue, StartupOnly, Only, SameEntries,
         Still, Actors, Goto, Leave, Save, Set, Allowed, local
    <2> QED BY <1>0, <2>1, StartupOnlyKeeps
  <1>7. CASE BootStart(p)
    <2>1. CASE StartWorker(p, "up")
      <3>1. pc[p] = "b_start" /\ reg' = reg
        BY <1>7 DEF BootStart, local
      <3>2. p \in Reqs \cup Procs /\ (p \in Procs => "up" = "up")
        BY ActorAssumption
      <3>3. pc[p] \notin Still /\ pc[p] # "up"
        BY <3>1 DEF Still
      <3> QED BY <1>0, <2>1, <3>1, <3>2, <3>3, StartKeeps
    <2>2. CASE ~StartWorker(p, "up")
      <3>1. StartupOnly(p)
        <4>1. pc' \in {[pc EXCEPT ![p] = "up"], [pc EXCEPT ![p] = "b_failed"]} /\ home' = home
          BY <1>7, <2>2 DEF BootStart, StartRefused, Goto
        <4>2. pc[p] = "b_start" /\ reg' = reg
          BY <1>7 DEF BootStart, local
        <4> QED BY <1>0, <4>1, <4>2 DEF StartupOnly, Only, SameEntries, Still, Actors
      <3> QED BY <1>0, <3>1, StartupOnlyKeeps
    <2> QED BY <2>1, <2>2
  <1>8. CASE BootFailed(p)
    <2>1. StartupOnly(p)
      BY <1>0, <1>8, ActorAssumption DEF BootFailed, StartupOnly, Only, SameEntries,
         Still, Actors, Goto, Leave, Save, Set, Allowed, local
    <2> QED BY <1>0, <2>1, StartupOnlyKeeps
  <1> QED BY <1>1, <1>2, <1>3, <1>4, <1>5, <1>6, <1>7, <1>8 DEF Boot

\* A request reaches a process that is up.
LEMMA ArriveEntries ==
  ASSUME TypeInv, RegistryInv, NEW r \in Reqs, Arrive(r)
  PROVE  RegistryInv'
  <1>1. PICK l \in Labels : Begin(r, l)
    BY DEF Arrive, Labels
  <1>2. PICK p \in Procs : pc[p] = "up" /\ home' = [home EXCEPT ![r] = p]
    BY <1>1 DEF Begin
  <1>3. /\ pc' = [pc EXCEPT ![r] = l] /\ reg' = reg
        /\ pc \in [Actors -> Labels] /\ home \in [Actors -> Procs]
    BY <1>1 DEF Begin, Goto, local, TypeInv, TypeOK
  <1> USE <1>2, <1>3, ActorAssumption DEF RegistryInv, Actors
  <1>4. ActiveIffRegistered'
    BY DEF ActiveIffRegistered, RegisteredIn
  <1>5. OneThread'
    BY DEF OneThread
  <1>6. BootQuiet'
    BY DEF BootQuiet
  <1>7. OwnHome'
    BY DEF OwnHome
  <1> QED BY <1>4, <1>5, <1>6, <1>7

\* A crash ends every thread of the process and forgets its entry.
LEMMA CrashEntries ==
  ASSUME TypeInv, RegistryInv, NEW p \in Procs, Crash(p)
  PROVE  RegistryInv'
  <1>1. /\ \A a \in Reqs \cup Workers :
             \/ home[a] = p /\ pc[a] \notin Still /\ pc'[a] = "dead"
             \/ (home[a] # p \/ pc[a] \in Still) /\ pc'[a] = pc[a]
        /\ pc'[p] = "down" /\ \A q \in Procs \ {p} : pc'[q] = pc[q]
    BY ActorAssumption DEF Crash, Threads, Still, Actors
  <1>2. home' = home
    BY DEF Crash
  <1>3. /\ ~reg'[p].active
        /\ \A q \in Procs \ {p} : reg'[q] = reg[q]
    BY DEF Crash, InitReg, TypeInv, TypeOK
  <1>4. ActiveIffRegistered'
    <2>1. ~RegisteredIn(p)'
      BY <1>1, <1>2 DEF RegisteredIn, RegisteredAt, Still
    <2>2. ASSUME NEW q \in Procs \ {p} PROVE RegisteredIn(q)' <=> RegisteredIn(q)
      BY <1>1, <1>2 DEF RegisteredIn
    <2> QED BY <1>3, <2>1, <2>2 DEF RegistryInv, ActiveIffRegistered
  <1>5. OneThread'
    BY <1>1, <1>2 DEF RegistryInv, OneThread, AtWork
  <1>6. BootQuiet'
    BY <1>1, <1>2 DEF RegistryInv, BootQuiet, Still
  <1>7. OwnHome'
    BY <1>2 DEF RegistryInv, OwnHome
  <1> QED BY <1>4, <1>5, <1>6, <1>7 DEF RegistryInv

\* A lease that runs out, or nothing.
LEMMA QuietEntries ==
  ASSUME RegistryInv, Expire \/ UNCHANGED vars
  PROVE  RegistryInv'
  <1>1. UNCHANGED <<pc, home, reg>>
    BY DEF Expire, vars, local
  <1> QED BY <1>1 DEF RegistryInv, ActiveIffRegistered, RegisteredIn, OneThread, BootQuiet, OwnHome

LEMMA InitEntries == Init => RegistryInv
  <1> SUFFICES ASSUME Init PROVE RegistryInv
    OBVIOUS
  <1>1. /\ \A w \in Workers : pc[w] = IF w = First THEN "w_register" ELSE "unused"
        /\ \A r \in Reqs : pc[r] = "idle"
        /\ \A p \in Procs : pc[p] = "up" /\ home[p] = p /\ ~reg[p].active
    BY ActorAssumption, ConfigAssumption DEF Init, InitReg, Actors
  <1> QED BY <1>1 DEF RegistryInv, ActiveIffRegistered, RegisteredIn, RegisteredAt, OneThread,
                      AtWork, BootQuiet, Still, OwnHome

\* RegistryInv is inductive relative to the types.
LEMMA RegistryInvariant == Spec => []RegistryInv
  <1>1. ASSUME TypeInv, RegistryInv, [Next]_vars PROVE RegistryInv'
    <2>1. ASSUME NEW r \in Reqs, Arrive(r) \/ Request(r) PROVE RegistryInv'
      BY <1>1, <2>1, ArriveEntries, PauseEntries, ResumeEntries, DeleteEntries, CleanupEntries
         DEF Request
    <2>2. ASSUME NEW w \in Workers, Worker(w) PROVE RegistryInv'
      BY <1>1, <2>2, WorkerEntries
    <2>3. ASSUME NEW p \in Procs, Boot(p) \/ Crash(p) PROVE RegistryInv'
      BY <1>1, <2>3, CrashEntries, BootEntries
    <2>4. CASE Expire \/ UNCHANGED vars
      BY <1>1, <2>4, QuietEntries
    <2> QED BY <1>1, <2>1, <2>2, <2>3, <2>4 DEF Next
  <1> QED BY InitEntries, TypeInvariant, <1>1, PTL DEF Spec

\* In every process, at every moment, a worker that may write is one the
\* registry of the process can stop: no restart, refused registration, second
\* start or early acknowledgement leaves a writer without an active entry.
THEOREM WritersRegistered == Spec => []WritersAreRegistered
  <1>1. TypeInv /\ RegistryInv => WritersAreRegistered
    BY DEF TypeInv, TypeOK, RegistryInv, ActiveIffRegistered, RegisteredIn, RegisteredAt,
           WritersAreRegistered, Writing, Actors
  <1> QED BY TypeInvariant, RegistryInvariant, <1>1, PTL

\* No entry outlives its worker, whatever raises, is refused or dies on the
\* way: pause, delete and resume never wait for a worker that is gone.
THEOREM EntriesReleased == Spec => []RegistryReleased
  <1>1. RegistryInv => RegistryReleased
    BY DEF RegistryInv, ActiveIffRegistered, RegisteredIn, RegisteredAt, AtWork, RegistryReleased
  <1> QED BY RegistryInvariant, <1>1, PTL
=============================================================================
