------------------------- MODULE WorkerLease_proofs -------------------------
(***************************************************************************)
(* Theorems about WorkerLease, for every set of tokens, every lease time,  *)
(* refresh interval and delay that the ASSUMEs of WorkerLease allow.       *)
(***************************************************************************)
EXTENDS WorkerLease, TLAPS

-----------------------------------------------------------------------------
(* Type correctness                                                        *)

LEMMA InitTyped == Init => TypeOK
  BY TimeAssumption, TokenAssumption, SMT
  DEF Init, TypeOK, ObjStates, HbStates, WkStates

LEMMA ClaimTyped ==
  ASSUME TypeOK, NEW t \in Tokens, ClaimStep(t)
  PROVE  TypeOK'
  <1> USE TimeAssumption, TokenAssumption
      DEF TypeOK, ObjStates, HbStates, WkStates, TakeRow
  <1>1. CASE ClaimAcquired(t)
    BY <1>1, SMT DEF ClaimAcquired
  <1>2. CASE ClaimResponseLost(t)
    BY <1>2, SMT DEF ClaimResponseLost
  <1>3. CASE ClaimRefused(t)
    BY <1>3, SMT DEF ClaimRefused
  <1> QED BY <1>1, <1>2, <1>3 DEF ClaimStep

LEMMA HeartbeatTyped ==
  ASSUME TypeOK, NEW t \in Tokens, HeartbeatStep(t)
  PROVE  TypeOK'
  <1> USE TimeAssumption, TokenAssumption
      DEF TypeOK, ObjStates, HbStates, WkStates, RenewedRow, Lost
  <1>1. CASE HeartbeatWake(t)
    BY <1>1, SMT DEF HeartbeatWake
  <1>2. CASE HeartbeatRenewed(t)
    BY <1>2, SMT DEF HeartbeatRenewed
  <1>3. CASE HeartbeatFailed(t)
    BY <1>3, SMT DEF HeartbeatFailed
  <1> QED BY <1>1, <1>2, <1>3 DEF HeartbeatStep

LEMMA WorkerTyped ==
  ASSUME TypeOK, NEW t \in Tokens, WorkerStep(t)
  PROVE  TypeOK'
  <1> USE TimeAssumption, TokenAssumption
      DEF TypeOK, ObjStates, HbStates, WkStates, RenewedRow, Lost, BeginUnit
  <1>1. CASE CheckpointUnusable(t)
    BY <1>1, SMT DEF CheckpointUnusable
  <1>2. CASE CheckpointThrottled(t)
    BY <1>2, SMT DEF CheckpointThrottled
  <1>3. CASE CheckpointDue(t)
    BY <1>3, SMT DEF CheckpointDue
  <1>4. CASE CheckpointRenewed(t)
    BY <1>4, SMT DEF CheckpointRenewed
  <1>5. CASE CheckpointRejected(t)
    BY <1>5, SMT DEF CheckpointRejected
  <1>6. CASE IntentClear(t)
    BY <1>6, SMT DEF IntentClear
  <1>7. CASE IntentStop(t)
    BY <1>7, SMT DEF IntentStop
  <1>8. CASE IntentUnreadable(t)
    BY <1>8, SMT DEF IntentUnreadable
  <1>9. CASE EndUnit(t)
    BY <1>9, SMT DEF EndUnit
  <1> QED BY <1>1, <1>2, <1>3, <1>4, <1>5, <1>6, <1>7, <1>8, <1>9 DEF WorkerStep

LEMMA ReleaseTyped ==
  ASSUME TypeOK, NEW t \in Tokens, ReleaseStep(t)
  PROVE  TypeOK'
  <1> USE TimeAssumption, TokenAssumption
      DEF TypeOK, ObjStates, HbStates, WkStates, ReleasedRow, NoRow
  <1>1. CASE ReleaseBegin(t)
    BY <1>1, SMT DEF ReleaseBegin
  <1>2. CASE ReleaseRow(t)
    BY <1>2, SMT DEF ReleaseRow
  <1> QED BY <1>1, <1>2 DEF ReleaseStep

LEMMA EnvironmentTyped ==
  ASSUME TypeOK, (\E t \in Tokens : Crash(t)) \/ DeleteImport \/ Tick
  PROVE  TypeOK'
  <1> USE TimeAssumption, TokenAssumption DEF TypeOK, ObjStates, HbStates, WkStates
  <1>1. ASSUME NEW t \in Tokens, Crash(t) PROVE TypeOK'
    BY <1>1, SMT DEF Crash, RenewedRow
  <1>2. CASE DeleteImport
    <2>1. NoRow \in [owner : Tokens \cup {NoOwner}, ttl : 0..LeaseTime]
      BY DEF NoRow
    <2> QED BY <1>2, <2>1 DEF DeleteImport
  <1>3. CASE Tick
    BY <1>3, SMT DEF Tick, Beating
  <1> QED BY <1>1, <1>2, <1>3

LEMMA StepTyped == TypeOK /\ [Next]_vars => TypeOK'
  <1> SUFFICES ASSUME TypeOK, [Next]_vars PROVE TypeOK'
    OBVIOUS
  <1>1. CASE Next
    BY <1>1, ClaimTyped, HeartbeatTyped, WorkerTyped, ReleaseTyped, EnvironmentTyped
    DEF Next
  <1>2. CASE UNCHANGED vars
    BY <1>2 DEF TypeOK, vars
  <1> QED BY <1>1, <1>2

\* Every state of the lease protocol is well typed: no clock runs past its
\* bound, and the lease row never names anything but a token.
THEOREM TypeCorrect == Spec => []TypeOK
  BY InitTyped, StepTyped, PTL DEF Spec

-----------------------------------------------------------------------------
(* A displaced worker stops.  DisplacedWorkerStops is not inductive: it    *)
(* holds because a row can only be taken when it has expired, and by then  *)
(* the old owner's last checkpoint is at least Refresh old, so that its    *)
(* next checkpoint has to ask the table and is refused.                    *)

AtUnit(t) == wk[t] \in {"run", "intent", "write"}

OwnerActive == \A t \in Tokens : row.owner = t => wk[t] # "idle"
OwnerFresh == \A t \in Tokens : row.owner = t /\ AtUnit(t) => row.ttl + io[t] >= Refresh
DisplacedGone == \A t \in displaced : row.owner # t /\ wk[t] # "idle"
DisplacedDue == \A t \in displaced : AtUnit(t) => io[t] = Refresh
StaleCounted == \A t \in Tokens : /\ t \notin displaced => staleUnits[t] = 0
                                  /\ wk[t] = "intent" => staleUnits[t] = 0
                                  /\ staleUnits[t] <= 1

DisplacementInv == /\ TypeOK
                   /\ OwnerActive /\ OwnerFresh
                   /\ DisplacedGone /\ DisplacedDue /\ StaleCounted

LEMMA InitDisplacement == Init => DisplacementInv
  BY InitTyped, TokenAssumption, TimeAssumption, SMT
  DEF Init, DisplacementInv, OwnerActive, OwnerFresh, DisplacedGone, DisplacedDue,
      StaleCounted, AtUnit

\* A claim displaces an owner whose lease has expired.
LEMMA ClaimDisplacement ==
  ASSUME DisplacementInv, NEW t \in Tokens, ClaimStep(t)
  PROVE  DisplacementInv'
  <1> USE TimeAssumption, TokenAssumption DEF DisplacementInv
  <1>1. TypeOK'
    BY ClaimTyped
  <1>2. CASE TakeRow(t) /\ wk[t] = "idle" /\ (\E s \in {"run", "done"} : wk' = [wk EXCEPT ![t] = s])
             /\ UNCHANGED <<io, staleUnits>>
    <2>1. OwnerActive' /\ OwnerFresh'
      BY <1>1, <1>2, SMT DEF TypeOK, TakeRow, Claimable, OwnerActive, OwnerFresh, AtUnit
    <2>2. DisplacedGone'
      BY <1>2, SMT DEF TypeOK, TakeRow, Claimable, DisplacedGone, OwnerActive
    <2>3. DisplacedDue'
      BY <1>2, SMT DEF TypeOK, TakeRow, Claimable, DisplacedDue, DisplacedGone,
                       OwnerFresh, OwnerActive, AtUnit
    <2>4. StaleCounted'
      BY <1>2, SMT DEF TypeOK, TakeRow, StaleCounted
    <2> QED BY <1>1, <2>1, <2>2, <2>3, <2>4
  <1>3. CASE ClaimRefused(t)
    BY <1>1, <1>3, SMT DEF ClaimRefused, TypeOK, OwnerActive, OwnerFresh, DisplacedGone,
                           DisplacedDue, StaleCounted, AtUnit
  <1> QED BY <1>2, <1>3, SMT DEF ClaimStep, ClaimAcquired, ClaimResponseLost

\* Nothing else adds a displaced token.
LEMMA HeartbeatDisplacement ==
  ASSUME DisplacementInv, NEW t \in Tokens, HeartbeatStep(t)
  PROVE  DisplacementInv'
  <1>1. TypeOK'
    BY HeartbeatTyped DEF DisplacementInv
  <1>2. /\ row' = row \/ (Renewable(t) /\ row' = RenewedRow(t))
        /\ UNCHANGED <<wk, io, displaced, staleUnits>>
    BY SMT DEF HeartbeatStep, HeartbeatWake, HeartbeatRenewed, HeartbeatFailed
  <1> QED
    BY <1>1, <1>2, TimeAssumption, SMT
    DEF DisplacementInv, TypeOK, OwnerActive, OwnerFresh, DisplacedGone, DisplacedDue,
        StaleCounted, AtUnit, Renewable, RenewedRow

LEMMA WorkerDisplacement ==
  ASSUME DisplacementInv, NEW t \in Tokens, WorkerStep(t)
  PROVE  DisplacementInv'
  <1> USE TimeAssumption
      DEF DisplacementInv, TypeOK, OwnerActive, OwnerFresh, DisplacedGone, DisplacedDue,
          StaleCounted, AtUnit
  <1>0. TypeOK'
    BY WorkerTyped
  <1>1. CASE CheckpointUnusable(t)
    BY <1>0, <1>1, SMT DEF CheckpointUnusable
  <1>2. CASE CheckpointThrottled(t)
    BY <1>0, <1>2, SMT DEF CheckpointThrottled, NotDue, BeginUnit
  <1>3. CASE CheckpointDue(t)
    BY <1>0, <1>3, SMT DEF CheckpointDue
  <1>4. CASE CheckpointRenewed(t)
    BY <1>0, <1>4, SMT DEF CheckpointRenewed, Renewable, RenewedRow
  <1>5. CASE CheckpointRejected(t)
    BY <1>0, <1>5, SMT DEF CheckpointRejected, Renewable, RenewedRow
  <1>6. CASE IntentClear(t)
    BY <1>0, <1>6, SMT DEF IntentClear, BeginUnit
  <1>7. CASE IntentStop(t)
    BY <1>0, <1>7, SMT DEF IntentStop
  <1>8. CASE IntentUnreadable(t)
    BY <1>0, <1>8, SMT DEF IntentUnreadable
  <1>9. CASE EndUnit(t)
    BY <1>0, <1>9, SMT DEF EndUnit
  <1> QED BY <1>1, <1>2, <1>3, <1>4, <1>5, <1>6, <1>7, <1>8, <1>9 DEF WorkerStep

LEMMA ReleaseDisplacement ==
  ASSUME DisplacementInv, NEW t \in Tokens, ReleaseStep(t)
  PROVE  DisplacementInv'
  <1> USE TimeAssumption, TokenAssumption
      DEF DisplacementInv, TypeOK, OwnerActive, OwnerFresh, DisplacedGone, DisplacedDue,
          StaleCounted, AtUnit
  <1>0. TypeOK'
    BY ReleaseTyped
  <1>1. CASE ReleaseBegin(t)
    BY <1>0, <1>1, SMT DEF ReleaseBegin
  <1>2. CASE ReleaseRow(t)
    BY <1>0, <1>2, SMT DEF ReleaseRow, ReleasedRow, NoRow
  <1> QED BY <1>1, <1>2 DEF ReleaseStep

LEMMA EnvironmentDisplacement ==
  ASSUME DisplacementInv, (\E t \in Tokens : Crash(t)) \/ DeleteImport \/ Tick
  PROVE  DisplacementInv'
  <1> USE TimeAssumption, TokenAssumption
      DEF DisplacementInv, TypeOK, OwnerActive, OwnerFresh, DisplacedGone, DisplacedDue,
          StaleCounted, AtUnit
  <1>0. TypeOK'
    BY EnvironmentTyped
  <1>1. ASSUME NEW t \in Tokens, Crash(t) PROVE DisplacementInv'
    BY <1>0, <1>1, SMT DEF Crash, Renewable, RenewedRow
  <1>2. CASE DeleteImport
    BY <1>0, <1>2, SMT DEF DeleteImport, NoRow
  <1>3. CASE Tick
    BY <1>0, <1>3, SMT DEF Tick, Beating
  <1> QED BY <1>1, <1>2, <1>3

LEMMA StepDisplacement == DisplacementInv /\ [Next]_vars => DisplacementInv'
  <1> SUFFICES ASSUME DisplacementInv, [Next]_vars PROVE DisplacementInv'
    OBVIOUS
  <1>1. CASE Next
    BY <1>1, ClaimDisplacement, HeartbeatDisplacement, WorkerDisplacement,
       ReleaseDisplacement, EnvironmentDisplacement
    DEF Next
  <1>2. CASE UNCHANGED vars
    BY <1>2 DEF vars, DisplacementInv, TypeOK, OwnerActive, OwnerFresh, DisplacedGone,
                DisplacedDue, StaleCounted, AtUnit
  <1> QED BY <1>1, <1>2

\* A worker whose lease was taken over begins at most one more unit of work,
\* whatever the delays, the failed RPCs and the crashes.
THEOREM DisplacedStops == Spec => []DisplacedWorkerStops
  <1>1. DisplacementInv => DisplacedWorkerStops
    BY DEF DisplacementInv, StaleCounted, DisplacedWorkerStops
  <1> QED BY <1>1, InitDisplacement, StepDisplacement, PTL DEF Spec

-----------------------------------------------------------------------------
(* Punctual heartbeats keep the lease.  A worker at work started its       *)
(* heartbeat with the claim; every renewal restores the whole lease time   *)
(* and restarts the beat, so time to expiry and time since the last beat   *)
(* add up to at least the lease time, and the beat is the shorter one.     *)

Punctual == Refresh + MaxDelay < LeaseTime /\ RpcFails = FALSE

IdleFresh == \A t \in Tokens : wk[t] = "idle" => hb[t] = "off" /\ beat[t] = 0
Kept(t) == /\ obj[t] = "held" /\ hb[t] # "off"
           /\ row.owner = t /\ row.ttl + beat[t] >= LeaseTime
WorkersKept == \A t \in Tokens : Working(t) /\ importExists => Kept(t)
OneWorker == \A s, t \in Tokens : Working(s) /\ Working(t) => s = t

HealthyInv == TypeOK /\ IdleFresh /\ WorkersKept /\ OneWorker

LEMMA InitHealthy == Init => HealthyInv
  BY InitTyped, SMT DEF Init, HealthyInv, IdleFresh, WorkersKept, OneWorker, Working

\* Time to expiry outlasts the beat, so a kept lease can be renewed.
LEMMA KeptRenewable ==
  ASSUME Punctual, TypeOK, NEW t \in Tokens, Kept(t)
  PROVE  row.ttl > 0 /\ Renewable(t)
  BY TimeAssumption, SMT DEF Punctual, TypeOK, Kept, Renewable

\* A claim finds an expired row: nobody is at work.
LEMMA ClaimHealthy ==
  ASSUME Punctual, HealthyInv, NEW t \in Tokens, ClaimStep(t)
  PROVE  HealthyInv'
  <1> USE TimeAssumption, TokenAssumption DEF HealthyInv
  <1>1. TypeOK'
    BY ClaimTyped
  <1>2. ASSUME TakeRow(t), wk[t] = "idle" PROVE \A s \in Tokens : ~Working(s)
    BY <1>2, KeptRenewable, SMT DEF TakeRow, Claimable, WorkersKept, Kept, TypeOK, Working
  <1>3. CASE ClaimAcquired(t)
    <2>1. \A s \in Tokens : ~Working(s)
      BY <1>2, <1>3 DEF ClaimAcquired
    <2> QED BY <1>1, <1>3, <2>1, SMT
            DEF ClaimAcquired, TakeRow, TypeOK, IdleFresh, WorkersKept, OneWorker, Kept, Working
  <1>4. CASE ClaimResponseLost(t)
    BY <1>4 DEF ClaimResponseLost, Punctual
  <1>5. CASE ClaimRefused(t)
    BY <1>1, <1>5, SMT
    DEF ClaimRefused, TypeOK, IdleFresh, WorkersKept, OneWorker, Kept, Working
  <1> QED BY <1>3, <1>4, <1>5 DEF ClaimStep

\* No renewal of a worker at work is refused, so its heartbeat never stops.
LEMMA HeartbeatHealthy ==
  ASSUME Punctual, HealthyInv, NEW t \in Tokens, HeartbeatStep(t)
  PROVE  HealthyInv'
  <1> USE TimeAssumption
      DEF HealthyInv, TypeOK, IdleFresh, WorkersKept, OneWorker, Kept, Working, Punctual
  <1>0. TypeOK'
    BY HeartbeatTyped
  <1>1. CASE HeartbeatWake(t)
    BY <1>0, <1>1, SMT DEF HeartbeatWake, StopHeard
  <1>2. CASE HeartbeatRenewed(t)
    BY <1>0, <1>2, SMT DEF HeartbeatRenewed, Renewable, RenewedRow
  <1>3. CASE HeartbeatFailed(t)
    BY <1>0, <1>3, KeptRenewable, SMT DEF HeartbeatFailed, Renewable, Lost
  <1> QED BY <1>1, <1>2, <1>3 DEF HeartbeatStep

\* A checkpoint's renewal only lengthens the lease.
LEMMA WorkerHealthy ==
  ASSUME Punctual, HealthyInv, NEW t \in Tokens, WorkerStep(t)
  PROVE  HealthyInv'
  <1> USE TimeAssumption
      DEF HealthyInv, TypeOK, IdleFresh, WorkersKept, OneWorker, Kept, Working, Punctual
  <1>0. TypeOK'
    BY WorkerTyped
  <1>1. CASE CheckpointUnusable(t)
    BY <1>0, <1>1, SMT DEF CheckpointUnusable
  <1>2. CASE CheckpointThrottled(t)
    BY <1>0, <1>2, SMT DEF CheckpointThrottled, BeginUnit
  <1>3. CASE CheckpointDue(t)
    BY <1>0, <1>3, SMT DEF CheckpointDue
  <1>4. CASE CheckpointRenewed(t)
    BY <1>0, <1>4, SMT DEF CheckpointRenewed, Renewable, RenewedRow
  <1>5. CASE CheckpointRejected(t)
    BY <1>0, <1>5, SMT DEF CheckpointRejected, Lost
  <1>6. CASE IntentClear(t)
    BY <1>0, <1>6, SMT DEF IntentClear, BeginUnit
  <1>7. CASE IntentStop(t)
    BY <1>0, <1>7, SMT DEF IntentStop
  <1>8. CASE IntentUnreadable(t)
    BY <1>0, <1>8, SMT DEF IntentUnreadable, Lost
  <1>9. CASE EndUnit(t)
    BY <1>0, <1>9, SMT DEF EndUnit
  <1> QED BY <1>1, <1>2, <1>3, <1>4, <1>5, <1>6, <1>7, <1>8, <1>9 DEF WorkerStep

\* Only the owner's row is released, and a releasing owner is not at work.
LEMMA ReleaseHealthy ==
  ASSUME Punctual, HealthyInv, NEW t \in Tokens, ReleaseStep(t)
  PROVE  HealthyInv'
  <1> USE DEF HealthyInv, TypeOK, IdleFresh, WorkersKept, OneWorker, Kept, Working
  <1>0. TypeOK'
    BY ReleaseTyped
  <1>1. CASE ReleaseBegin(t)
    BY <1>0, <1>1, SMT DEF ReleaseBegin
  <1>2. CASE ReleaseRow(t)
    BY <1>0, <1>2, SMT DEF ReleaseRow, ReleasedRow
  <1> QED BY <1>1, <1>2 DEF ReleaseStep

\* One unit of time moves from the lease to the beat of a worker at work.
LEMMA EnvironmentHealthy ==
  ASSUME Punctual, HealthyInv, (\E t \in Tokens : Crash(t)) \/ DeleteImport \/ Tick
  PROVE  HealthyInv'
  <1> USE TimeAssumption
      DEF HealthyInv, TypeOK, IdleFresh, WorkersKept, OneWorker, Kept, Working, Punctual
  <1>0. TypeOK'
    BY EnvironmentTyped
  <1>1. ASSUME NEW t \in Tokens, Crash(t) PROVE HealthyInv'
    BY <1>0, <1>1, SMT DEF Crash, Renewable, RenewedRow
  <1>2. CASE DeleteImport
    BY <1>0, <1>2, SMT DEF DeleteImport
  <1>3. CASE Tick
    BY <1>0, <1>3, SMT DEF Tick, Beating
  <1> QED BY <1>1, <1>2, <1>3

LEMMA StepHealthy ==
  ASSUME Punctual
  PROVE  HealthyInv /\ [Next]_vars => HealthyInv'
  <1> SUFFICES ASSUME HealthyInv, [Next]_vars PROVE HealthyInv'
    OBVIOUS
  <1>1. CASE Next
    BY <1>1, ClaimHealthy, HeartbeatHealthy, WorkerHealthy, ReleaseHealthy,
       EnvironmentHealthy
    DEF Next
  <1>2. CASE UNCHANGED vars
    BY <1>2 DEF vars, HealthyInv, TypeOK, IdleFresh, WorkersKept, OneWorker, Kept, Working
  <1> QED BY <1>1, <1>2

\* While heartbeats are punctual and RPCs answer, a worker at work owns an
\* unexpired lease row, whatever the crashes and the other claimants do.
THEOREM HealthyOwns ==
  ASSUME Punctual
  PROVE  Spec => []HealthyWorkerOwns
  <1>1. HealthyInv => HealthyWorkerOwns
    BY KeptRenewable DEF HealthyInv, WorkersKept, HealthyWorkerOwns, Kept
  <1>2. HealthyInv /\ [Next]_vars => HealthyInv'
    BY StepHealthy
  <1> QED BY <1>1, <1>2, InitHealthy, PTL DEF Spec

\* ... and no two workers are between checkpoints at once, not even after the
\* deletion of the import took the row away from the last of them.
THEOREM OneWriter ==
  ASSUME Punctual
  PROVE  Spec => []SingleWriter
  <1>1. HealthyInv => SingleWriter
    BY DEF HealthyInv, OneWorker, SingleWriter, Working
  <1>2. HealthyInv /\ [Next]_vars => HealthyInv'
    BY StepHealthy
  <1> QED BY <1>1, <1>2, InitHealthy, PTL DEF Spec

-----------------------------------------------------------------------------
(* WorkerLease implements ExclusiveLease.                                  *)

NoRowExpired == row.owner = NoOwner => row.ttl = 0

RefinementInv == TypeOK /\ OwnerActive /\ NoRowExpired

LEMMA StepNoRow ==
  ASSUME TypeOK, NoRowExpired, [Next]_vars
  PROVE  NoRowExpired'
  <1> USE TokenAssumption DEF NoRowExpired
  <1>1. ASSUME NEW t \in Tokens,
               ClaimStep(t) \/ HeartbeatStep(t) \/ WorkerStep(t) \/ ReleaseStep(t) \/ Crash(t)
        PROVE  NoRowExpired'
    <2>1. \/ row' = row
          \/ row' = [owner |-> t, ttl |-> LeaseTime]
          \/ Renewable(t) /\ row' = RenewedRow(t)
          \/ row' = ReleasedRow(t)
      BY <1>1, SMT
      DEF ClaimStep, ClaimAcquired, ClaimResponseLost, ClaimRefused, TakeRow,
          HeartbeatStep, HeartbeatWake, HeartbeatRenewed, HeartbeatFailed,
          WorkerStep, CheckpointUnusable, CheckpointThrottled, CheckpointDue,
          CheckpointRenewed, CheckpointRejected, IntentClear, IntentStop,
          IntentUnreadable, EndUnit, ReleaseStep, ReleaseBegin, ReleaseRow, Crash
    <2> QED BY <2>1, SMT DEF TypeOK, Renewable, RenewedRow, ReleasedRow, NoRow
  <1>2. CASE DeleteImport
    BY <1>2, SMT DEF DeleteImport, NoRow
  <1>3. CASE Tick
    BY <1>3, SMT DEF Tick, TypeOK
  <1>4. CASE UNCHANGED vars
    BY <1>4 DEF vars
  <1> QED BY <1>1, <1>2, <1>3, <1>4 DEF Next


\* Claims, releases, expiry and the cascade are steps of the abstract lease;
\* renewals and everything else stutter.
LEMMA StepRefines ==
  ASSUME RefinementInv, [Next]_vars
  PROVE  [Abstract!LeaseNext]_(Abstract!leaseVars)
  <1> USE TimeAssumption, TokenAssumption DEF RefinementInv
  <1> DEFINE Spent == {s \in Tokens : wk[s] # "idle"}
             Stutter == UNCHANGED <<row.owner, row.ttl > 0, Spent>>
  <1>0. Stutter => UNCHANGED Abstract!leaseVars
    BY DEF Abstract!leaseVars
  <1>1. ASSUME NEW t \in Tokens, ClaimStep(t) PROVE Abstract!LeaseNext
    <2>1. Spent' = Spent \cup {t} /\ t \notin Spent
      BY <1>1, SMT DEF ClaimStep, ClaimAcquired, ClaimResponseLost, ClaimRefused, TypeOK
    <2>2. CASE TakeRow(t) /\ wk[t] = "idle"
      <3>1. ~(row.owner # NoOwner /\ row.ttl > 0)
        BY <2>2, SMT DEF TakeRow, Claimable, OwnerActive, TypeOK
      <3>2. row'.owner = t /\ (row.ttl > 0)' = TRUE
        BY <2>2, SMT DEF TakeRow
      <3>3. Abstract!Claim(t)
        BY <2>1, <3>1, <3>2 DEF Abstract!Claim, Abstract!LeaseActive
      <3> QED BY <3>3 DEF Abstract!LeaseNext
    <2>3. CASE ClaimRefused(t)
      <3>1. Abstract!ClaimRefused(t)
        BY <2>1, <2>3 DEF Abstract!ClaimRefused, ClaimRefused
      <3> QED BY <3>1 DEF Abstract!LeaseNext
    <2> QED BY <1>1, <2>2, <2>3 DEF ClaimStep, ClaimAcquired, ClaimResponseLost
  <1>2. ASSUME NEW t \in Tokens, HeartbeatStep(t) PROVE Stutter
    <2>1. /\ row' = row \/ (Renewable(t) /\ row' = RenewedRow(t))
          /\ wk' = wk
      BY <1>2, SMT DEF HeartbeatStep, HeartbeatWake, HeartbeatRenewed, HeartbeatFailed
    <2> QED BY <2>1, SMT DEF TypeOK, Renewable, RenewedRow
  <1>3. ASSUME NEW t \in Tokens, WorkerStep(t) \/ Crash(t) PROVE Stutter
    <2>1. row' = row \/ (Renewable(t) /\ row' = RenewedRow(t))
      BY <1>3, SMT
      DEF WorkerStep, CheckpointUnusable, CheckpointThrottled, CheckpointDue,
          CheckpointRenewed, CheckpointRejected, IntentClear, IntentStop,
          IntentUnreadable, EndUnit, Crash
    <2>2. Spent' = Spent
      BY <1>3, SMT
      DEF TypeOK, WorkerStep, CheckpointUnusable, CheckpointThrottled, CheckpointDue,
          CheckpointRenewed, CheckpointRejected, IntentClear, IntentStop,
          IntentUnreadable, EndUnit, Crash, BeginUnit
    <2> QED BY <2>1, <2>2, SMT DEF TypeOK, Renewable, RenewedRow
  <1>4. ASSUME NEW t \in Tokens, ReleaseStep(t) PROVE Stutter \/ Abstract!LeaseNext
    <2>1. Spent' = Spent
      BY <1>4, SMT DEF TypeOK, ReleaseStep, ReleaseBegin, ReleaseRow
    <2>2. CASE row' = row
      BY <2>1, <2>2
    <2>3. CASE row.owner = t /\ row' = NoRow
      <3>1. Abstract!Release(t)
        BY <2>1, <2>3, SMT DEF NoRow, Abstract!Release
      <3> QED BY <3>1 DEF Abstract!LeaseNext
    <2> QED BY <1>4, <2>2, <2>3 DEF ReleaseStep, ReleaseBegin, ReleaseRow, ReleasedRow
  <1>5. ASSUME DeleteImport PROVE Stutter \/ Abstract!LeaseNext
    <2>1. Spent' = Spent /\ row' = NoRow
      BY <1>5 DEF DeleteImport
    <2>2. CASE row.owner = NoOwner
      <3>1. row.ttl = 0
        BY <2>2 DEF NoRowExpired
      <3>2. row'.owner = row.owner /\ ~(row.ttl > 0) /\ ~(row'.ttl > 0)
        BY <2>1, <2>2, <3>1, SMT DEF NoRow
      <3> QED BY <2>1, <3>2
    <2>3. CASE row.owner \in Tokens
      <3>1. Abstract!Release(row.owner)
        BY <2>1, <2>3, SMT DEF NoRow, Abstract!Release
      <3> QED BY <2>3, <3>1 DEF Abstract!LeaseNext
    <2> QED BY <2>2, <2>3 DEF TypeOK
  <1>6. ASSUME Tick PROVE Stutter \/ Abstract!LeaseNext
    <2>1. Spent' = Spent /\ row'.owner = row.owner
      BY <1>6, SMT DEF Tick, TypeOK
    <2>2. row'.ttl > 0 => row.ttl > 0
      BY <1>6, SMT DEF Tick, TypeOK
    <2>3. CASE row.ttl > 0 /\ ~(row'.ttl > 0)
      <3>1. row.owner # NoOwner
        BY <2>3, SMT DEF NoRowExpired, TypeOK
      <3>2. Abstract!Expire
        BY <2>1, <2>3, <3>1 DEF Abstract!Expire, Abstract!LeaseActive
      <3> QED BY <3>2 DEF Abstract!LeaseNext
    <2>4. CASE (row.ttl > 0 /\ row'.ttl > 0) \/ ~(row.ttl > 0)
      BY <2>1, <2>2, <2>4
    <2> QED BY <2>3, <2>4
  <1>7. ASSUME UNCHANGED vars PROVE Stutter
    BY <1>7 DEF vars
  <1>8. Stutter \/ Abstract!LeaseNext
    <2> HIDE DEF Stutter
    <2> QED BY <1>1, <1>2, <1>3, <1>4, <1>5, <1>6, <1>7 DEF Next
  <1> HIDE DEF Stutter
  <1> QED BY <1>0, <1>8

\* The detailed lease implements the abstract one: an expired lease is never
\* revived, a release removes nobody else's row, and only a claim of a free or
\* expired row changes the owner.
THEOREM Refinement == Spec => ImplementsExclusiveLease
  <1>1. Init => Abstract!LeaseInit
    BY SMT DEF Init, Abstract!LeaseInit
  <1>2. Init => DisplacementInv /\ NoRowExpired
    BY InitDisplacement, SMT DEF Init, NoRowExpired
  <1>3. DisplacementInv /\ NoRowExpired /\ [Next]_vars => (DisplacementInv /\ NoRowExpired)'
    BY StepDisplacement, StepNoRow DEF DisplacementInv
  <1>4. DisplacementInv /\ NoRowExpired /\ [Next]_vars
          => [Abstract!LeaseNext]_(Abstract!leaseVars)
    BY StepRefines DEF DisplacementInv, RefinementInv
  <1> QED BY <1>1, <1>2, <1>3, <1>4, PTL
          DEF Spec, ImplementsExclusiveLease, Abstract!LeaseSpec

=============================================================================
