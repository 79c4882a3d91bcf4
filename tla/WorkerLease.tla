----------------------------- MODULE WorkerLease -----------------------------
(***************************************************************************)
(* DurableWorkerLease (backend/app/analysis_worker_lease.py) over the      *)
(* claim/renew/release RPCs of the lease table, for one (import, worker    *)
(* kind) pair.  Every token is one DurableWorkerLease object with its      *)
(* worker thread and its heartbeat thread; the objects live in any number  *)
(* of processes and share only the database.                               *)
(*                                                                         *)
(* Time is counted in whole units by Tick; row.ttl is lease_expires_at     *)
(* minus now(), so that ttl > 0 is "unexpired".  An RPC is in flight from  *)
(* the step that sends it to the step that applies it, and other threads,  *)
(* other processes and Tick run in between.                                *)
(***************************************************************************)
EXTENDS Integers, FiniteSets

CONSTANTS Tokens, NoOwner,
          LeaseTime,   \* analysis_worker_lease_seconds
          Refresh,     \* analysis_worker_lease_refresh_seconds
          MaxDelay,    \* bound: lateness of a heartbeat, its RPC included
          RpcFails,    \* TRUE: an RPC may fail, before or after taking effect
          Crashes      \* TRUE: a process may die

ASSUME TimeAssumption == /\ LeaseTime \in Nat /\ Refresh \in Nat /\ MaxDelay \in Nat
                         /\ Refresh > 0
                         /\ 3 * Refresh <= LeaseTime   \* config.py validates this
ASSUME SwitchAssumption == RpcFails \in BOOLEAN /\ Crashes \in BOOLEAN
ASSUME TokenAssumption == NoOwner \notin Tokens

VARIABLES
  row,          \* the lease row: owner_token and time to expiry
  importExists, \* the rekordbox_imports row the lease row references
  obj,          \* _released / _lost_error of each lease object
  hb,           \* heartbeat thread: off, waiting, renewal RPC in flight
  beat,         \* time since the heartbeat thread last started to wait
  wk,           \* where the worker thread is
  io,           \* time since _last_checkpoint_io, counted up to Refresh
  displaced,    \* history: tokens another claim has replaced
  staleUnits    \* history: units of work begun while displaced

vars == <<row, importExists, obj, hb, beat, wk, io, displaced, staleUnits>>

ObjStates == {"unused", "held", "lost", "released"}
HbStates == {"off", "wait", "rpc"}
WkStates == {"idle", "run", "renew", "intent", "write", "stopped", "releasing",
             "done", "crashed"}

TypeOK == /\ row \in [owner : Tokens \cup {NoOwner}, ttl : 0..LeaseTime]
          /\ importExists \in BOOLEAN
          /\ obj \in [Tokens -> ObjStates]
          /\ hb \in [Tokens -> HbStates]
          /\ beat \in [Tokens -> 0..(Refresh + MaxDelay)]
          /\ wk \in [Tokens -> WkStates]
          /\ io \in [Tokens -> 0..Refresh]
          /\ displaced \subseteq Tokens
          /\ staleUnits \in [Tokens -> 0..2]

Init == /\ row = [owner |-> NoOwner, ttl |-> 0]
        /\ importExists = TRUE
        /\ obj = [t \in Tokens |-> "unused"]
        /\ hb = [t \in Tokens |-> "off"]
        /\ beat = [t \in Tokens |-> 0]
        /\ wk = [t \in Tokens |-> "idle"]
        /\ io = [t \in Tokens |-> Refresh]
        /\ displaced = {}
        /\ staleUnits = [t \in Tokens |-> 0]

-----------------------------------------------------------------------------
(* The lease table.                                                        *)

NoRow == [owner |-> NoOwner, ttl |-> 0]

\* The RPC's where clause: lease_expires_at <= now() or the same token.
ClaimableIgnoringExpiry(t) == importExists
Claimable(t) == importExists /\ (row.ttl = 0 \/ row.owner = t)

RenewableIgnoringExpiry(t) == row.owner = t
Renewable(t) == row.owner = t /\ row.ttl > 0

RenewedRowExtended(t) == [row EXCEPT !.ttl = @ + LeaseTime]
RenewedRow(t) == [row EXCEPT !.ttl = LeaseTime]

ReleasedRow(t) == IF row.owner = t THEN NoRow ELSE row

\* _mark_lost: the first error sticks; a released object stays released.
Lost(t) == IF obj[t] = "held" THEN "lost" ELSE obj[t]

-----------------------------------------------------------------------------
(* claim() and start_heartbeat()                                           *)

\* An acquired claim; the old owner, if any, is displaced.
TakeRow(t) == /\ Claimable(t)
              /\ row' = [owner |-> t, ttl |-> LeaseTime]
              /\ displaced' = displaced \cup ({row.owner} \ {NoOwner, t})

ClaimAcquired(t) == /\ wk[t] = "idle"
                    /\ TakeRow(t)
                    /\ obj' = [obj EXCEPT ![t] = "held"]
                    /\ hb' = [hb EXCEPT ![t] = "wait"]
                    /\ wk' = [wk EXCEPT ![t] = "run"]
                    /\ UNCHANGED <<importExists, beat, io, staleUnits>>

\* The row was taken and the response never arrived: nobody holds the token.
ClaimResponseLost(t) == /\ RpcFails
                        /\ wk[t] = "idle"
                        /\ TakeRow(t)
                        /\ wk' = [wk EXCEPT ![t] = "done"]
                        /\ UNCHANGED <<importExists, obj, hb, beat, io, staleUnits>>

\* WorkerLeaseConflict, or an RPC that failed before it took effect.
ClaimRefused(t) == /\ wk[t] = "idle"
                   /\ ~Claimable(t) \/ RpcFails
                   /\ wk' = [wk EXCEPT ![t] = "done"]
                   /\ UNCHANGED <<row, importExists, obj, hb, beat, io, displaced, staleUnits>>

-----------------------------------------------------------------------------
(* _heartbeat_loop() and _renew()                                          *)

\* The stop event is set by _mark_lost and by release().
StopNotHeard(t) == FALSE
StopHeard(t) == obj[t] # "held"

\* _stop_event.wait() returns after Refresh, or at once when the event is set.
HeartbeatWake(t) == /\ hb[t] = "wait" /\ wk[t] # "crashed"
                    /\ \/ /\ ~StopHeard(t)
                          /\ beat[t] >= Refresh
                          /\ hb' = [hb EXCEPT ![t] = "rpc"]
                       \/ /\ StopHeard(t)
                          /\ hb' = [hb EXCEPT ![t] = "off"]
                    /\ UNCHANGED <<row, importExists, obj, beat, wk, io, displaced, staleUnits>>

\* The renewal RPC reaches the table and its answer reaches the thread.
HeartbeatRenewed(t) == /\ hb[t] = "rpc" /\ wk[t] # "crashed"
                       /\ Renewable(t)
                       /\ row' = RenewedRow(t)
                       /\ hb' = [hb EXCEPT ![t] = "wait"]
                       /\ beat' = [beat EXCEPT ![t] = 0]
                       /\ UNCHANGED <<importExists, obj, wk, io, displaced, staleUnits>>

\* A rejected renewal or any exception marks the lease lost and ends the thread.
HeartbeatFailed(t) == /\ hb[t] = "rpc" /\ wk[t] # "crashed"
                      /\ \/ ~Renewable(t) /\ row' = row
                         \/ RpcFails /\ row' = row
                         \/ RpcFails /\ Renewable(t) /\ row' = RenewedRow(t)
                      /\ obj' = [obj EXCEPT ![t] = Lost(t)]
                      /\ hb' = [hb EXCEPT ![t] = "off"]
                      /\ UNCHANGED <<importExists, beat, wk, io, displaced, staleUnits>>

-----------------------------------------------------------------------------
(* checkpoint() and the work between two checkpoints                       *)

\* Beginning a unit of work; the count stops at 2.
BeginUnit(t) == /\ wk' = [wk EXCEPT ![t] = "write"]
                /\ staleUnits' = [staleUnits EXCEPT ![t] =
                     IF t \in displaced /\ @ < 2 THEN @ + 1 ELSE @]

\* _raise_if_unusable: WorkerLeaseLost unwinds the worker.
CheckpointUnusable(t) == /\ wk[t] = "run" /\ obj[t] # "held"
                         /\ wk' = [wk EXCEPT ![t] = "stopped"]
                         /\ UNCHANGED <<row, importExists, obj, hb, beat, io, displaced, staleUnits>>

\* Not forced and not due: no I/O.
NotDueNever(t) == TRUE
NotDue(t) == io[t] < Refresh

CheckpointThrottled(t) == /\ wk[t] = "run" /\ obj[t] = "held"
                          /\ NotDue(t)
                          /\ BeginUnit(t)
                          /\ UNCHANGED <<row, importExists, obj, hb, beat, io, displaced>>

\* Forced or due: stamp _last_checkpoint_io, then send the renewal.
CheckpointDue(t) == /\ wk[t] = "run" /\ obj[t] = "held"
                    /\ io' = [io EXCEPT ![t] = 0]
                    /\ wk' = [wk EXCEPT ![t] = "renew"]
                    /\ UNCHANGED <<row, importExists, obj, hb, beat, displaced, staleUnits>>

CheckpointRenewed(t) == /\ wk[t] = "renew"
                        /\ Renewable(t)
                        /\ row' = RenewedRow(t)
                        /\ wk' = [wk EXCEPT ![t] = "intent"]
                        /\ UNCHANGED <<importExists, obj, hb, beat, io, displaced, staleUnits>>

CheckpointRejected(t) == /\ wk[t] = "renew"
                         /\ \/ ~Renewable(t) /\ row' = row
                            \/ RpcFails /\ row' = row
                            \/ RpcFails /\ Renewable(t) /\ row' = RenewedRow(t)
                         /\ obj' = [obj EXCEPT ![t] = Lost(t)]
                         /\ wk' = [wk EXCEPT ![t] = "stopped"]
                         /\ UNCHANGED <<importExists, hb, beat, io, displaced, staleUnits>>

\* _read_stop_intent found the import and no stop request.
IntentClear(t) == /\ wk[t] = "intent" /\ importExists
                  /\ BeginUnit(t)
                  /\ UNCHANGED <<row, importExists, obj, hb, beat, io, displaced>>

\* WorkerStopRequested: somebody asked for a pause or a delete.
IntentStop(t) == /\ wk[t] = "intent" /\ importExists
                 /\ wk' = [wk EXCEPT ![t] = "stopped"]
                 /\ UNCHANGED <<row, importExists, obj, hb, beat, io, displaced, staleUnits>>

\* The import disappeared or could not be read: the lease counts as lost.
IntentUnreadable(t) == /\ wk[t] = "intent"
                       /\ ~importExists \/ RpcFails
                       /\ obj' = [obj EXCEPT ![t] = Lost(t)]
                       /\ wk' = [wk EXCEPT ![t] = "stopped"]
                       /\ UNCHANGED <<row, importExists, hb, beat, io, displaced, staleUnits>>

\* The unit of work ends; the next checkpoint follows, or the worker is done.
EndUnit(t) == /\ wk[t] = "write"
              /\ \E next \in {"run", "stopped"} : wk' = [wk EXCEPT ![t] = next]
              /\ UNCHANGED <<row, importExists, obj, hb, beat, io, displaced, staleUnits>>

-----------------------------------------------------------------------------
(* release()                                                               *)

\* _released is set before the heartbeat thread is told to stop and joined.
ReleaseBegin(t) == /\ wk[t] = "stopped"
                   /\ obj' = [obj EXCEPT ![t] = "released"]
                   /\ wk' = [wk EXCEPT ![t] = "releasing"]
                   /\ UNCHANGED <<row, importExists, hb, beat, io, displaced, staleUnits>>

\* join() returns when the thread ended or after its timeout, with a renewal
\* still in flight; then the row is deleted by token, or the RPC fails.
ReleaseRow(t) == /\ wk[t] = "releasing"
                 /\ hb[t] \in {"off", "rpc"}
                 /\ \/ row' = ReleasedRow(t)
                    \/ RpcFails /\ row' = row
                 /\ wk' = [wk EXCEPT ![t] = "done"]
                 /\ UNCHANGED <<importExists, obj, hb, beat, io, displaced, staleUnits>>

-----------------------------------------------------------------------------
(* The environment                                                         *)

\* The process dies with all its threads; an RPC in flight may still apply.
Crash(t) == /\ Crashes
            /\ wk[t] \notin {"idle", "done", "crashed"}
            /\ \/ row' = row
               \/ /\ hb[t] = "rpc" \/ wk[t] = "renew"
                  /\ Renewable(t)
                  /\ row' = RenewedRow(t)
            /\ wk' = [wk EXCEPT ![t] = "crashed"]
            /\ UNCHANGED <<importExists, obj, hb, beat, io, displaced, staleUnits>>

\* The import is hard-deleted; on delete cascade takes the lease row along.
DeleteImport == /\ importExists
                /\ importExists' = FALSE
                /\ row' = NoRow
                /\ UNCHANGED <<obj, hb, beat, wk, io, displaced, staleUnits>>

Beating(t) == hb[t] # "off" /\ wk[t] # "crashed"

Tick == /\ \A t \in Tokens : Beating(t) => beat[t] < Refresh + MaxDelay
        /\ row' = [row EXCEPT !.ttl = IF @ > 0 THEN @ - 1 ELSE 0]
        /\ beat' = [t \in Tokens |-> IF Beating(t) THEN beat[t] + 1 ELSE beat[t]]
        /\ io' = [t \in Tokens |-> IF io[t] < Refresh THEN io[t] + 1 ELSE Refresh]
        /\ UNCHANGED <<importExists, obj, hb, wk, displaced, staleUnits>>

-----------------------------------------------------------------------------
WorkerStep(t) == \/ CheckpointUnusable(t) \/ CheckpointThrottled(t)
                 \/ CheckpointDue(t) \/ CheckpointRenewed(t) \/ CheckpointRejected(t)
                 \/ IntentClear(t) \/ IntentStop(t) \/ IntentUnreadable(t)
                 \/ EndUnit(t)

ReleaseStep(t) == ReleaseBegin(t) \/ ReleaseRow(t)

HeartbeatStep(t) == HeartbeatWake(t) \/ HeartbeatRenewed(t) \/ HeartbeatFailed(t)

ClaimStep(t) == ClaimAcquired(t) \/ ClaimResponseLost(t) \/ ClaimRefused(t)

Next == \/ \E t \in Tokens : \/ ClaimStep(t) \/ HeartbeatStep(t) \/ WorkerStep(t)
                             \/ ReleaseStep(t) \/ Crash(t)
        \/ DeleteImport
        \/ Tick

Spec == Init /\ [][Next]_vars

\* Threads keep running and time passes; nothing forces a claim, a crash or
\* the deletion of the import.
FairSpec == /\ Spec
            /\ WF_vars(Tick)
            /\ \A t \in Tokens : WF_vars(HeartbeatStep(t)) /\ WF_vars(ReleaseStep(t))

-----------------------------------------------------------------------------
(* Properties                                                              *)

\* The detailed lease implements ExclusiveLease: an expired lease is never
\* revived by a late renewal, a release deletes nobody else's row, and only a
\* claim of a free or expired row changes the owner.
Abstract == INSTANCE ExclusiveLease WITH
              owner <- row.owner,
              valid <- row.ttl > 0,
              spent <- {t \in Tokens : wk[t] # "idle"}
ImplementsExclusiveLease == Abstract!LeaseSpec

\* A worker whose lease was taken over begins at most one more unit of work:
\* the one whose stop-intent read was in flight when the takeover happened
\* (checkpoint() renews first and reads the import row afterwards).
DisplacedWorkerStops == \A t \in Tokens : staleUnits[t] <= 1

\* While heartbeats are punctual and RPCs answer, a worker at work owns the
\* unexpired row: "heartbeat renewal prevents a second process from taking
\* ownership during long parser/archive calls" (module docstring).
Working(t) == wk[t] \in {"run", "renew", "intent", "write"}
HealthyWorkerOwns == \A t \in Tokens :
                       Working(t) /\ importExists => row.owner = t /\ row.ttl > 0

\* ... and therefore no two workers are between checkpoints at once.
SingleWriter == \A s, t \in Tokens : wk[s] = "write" /\ wk[t] = "write" => s = t

\* The lease of a dead or finished worker always becomes claimable.
Reclaimable == \A t \in Tokens :
                 row.owner = t /\ wk[t] \in {"crashed", "done"}
                   ~> row.owner # t \/ row.ttl = 0
=============================================================================
