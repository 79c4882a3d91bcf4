--------------------------- MODULE ExclusiveLease ---------------------------
(***************************************************************************)
(* What the table rekordbox_import_worker_leases promises for one          *)
(* (import, worker kind) pair: at most one token owns the pair, the        *)
(* ownership ends by release or by expiry, and a token that was displaced  *)
(* never owns the pair again.                                              *)
(*                                                                         *)
(* WorkerLease implements this specification with clocks, heartbeats and   *)
(* RPCs that fail; ImportJob is built on its operators.                    *)
(***************************************************************************)
CONSTANTS Tokens,    \* owner_token values; claim() draws a fresh uuid each time
          NoOwner    \* no row for the pair; not a token

VARIABLES owner,     \* owner_token of the row, NoOwner when there is no row
          valid,     \* lease_expires_at > now()
          spent      \* tokens a claim has already presented

leaseVars == <<owner, valid, spent>>

LeaseTypeOK == /\ owner \in Tokens \cup {NoOwner}
               /\ valid \in BOOLEAN
               /\ spent \subseteq Tokens

LeaseInit == /\ owner = NoOwner
             /\ valid = FALSE
             /\ spent = {}

\* lease_row_is_active
LeaseActive == owner # NoOwner /\ valid

\* claim_rekordbox_import_worker_lease: insert, or take over an expired row.
Claim(t) == /\ t \notin spent
            /\ ~LeaseActive
            /\ owner' = t
            /\ valid' = TRUE
            /\ spent' = spent \cup {t}

\* A claim that took nothing: another owner's unexpired row, a deleted import,
\* an RPC that failed.  Its token is never presented again.
ClaimRefused(t) == /\ t \notin spent
                   /\ spent' = spent \cup {t}
                   /\ UNCHANGED <<owner, valid>>

\* renew_rekordbox_import_worker_lease matches exactly this row.
Renewable(t) == owner = t /\ valid

\* release_rekordbox_import_worker_lease, and the cascade of a deleted import.
Release(t) == /\ owner = t
              /\ owner' = NoOwner
              /\ valid' = FALSE
              /\ UNCHANGED spent

Expire == /\ LeaseActive
          /\ valid' = FALSE
          /\ UNCHANGED <<owner, spent>>

LeaseNext == \/ \E t \in Tokens : Claim(t) \/ ClaimRefused(t) \/ Release(t)
             \/ Expire

LeaseSpec == LeaseInit /\ [][LeaseNext]_leaseVars
=============================================================================
