------------------------------- MODULE Lease -------------------------------
(***************************************************************************)
(* One agent's lease under the clock, and the lab tick loop that checks it. *)
(*                                                                          *)
(* The process modelled is the goroutine of runLocalAgent (cmd/igord-lab):  *)
(* a select loop whose tick case calls handleTick, i.e. CheckAndRenewLease  *)
(* (ValidateForTick, then NeedsRenewal/Renew), then SafeTick.  A migration  *)
(* is called from the same goroutine between two ticks; it is a black box   *)
(* here (module Migration opens it) with the four outcomes it can leave on  *)
(* the lease.  Time is a counter; it may advance between any two reads of   *)
(* the clock, so that a validation can be stale when Renew runs.            *)
(***************************************************************************)
EXTENDS Authority

CONSTANTS
  Duration,          \* LeaseConfig.Duration
  RenewalThreshold,  \* LeaseConfig.Duration * RenewalWindow, truncated
  GracePeriod,       \* LeaseConfig.GracePeriod
  TickTimeout,       \* agent.DefaultTickTimeout
  MaxStall,          \* longest delay of the goroutine around the lease check
  MaxTime,           \* bound on the clock
  MaxMajor           \* bound on ambiguous migrations (each recovery bumps major)

\* LeaseConfig.Validate, with the threshold computed from a window in (0, 1).
ASSUME LeaseConfigValid ==
  /\ Duration \in Nat \ {0}
  /\ RenewalThreshold \in Nat /\ RenewalThreshold < Duration
  /\ GracePeriod \in Nat

ASSUME BoundsAssumption ==
  /\ TickTimeout \in Nat /\ MaxStall \in Nat
  /\ MaxTime \in Nat /\ MaxMajor \in Nat

\* The relation between the timing constants that makes a tick end under the
\* lease it started under.  The code does not enforce it (a lease duration is
\* any positive flag value); the defaults satisfy it: 15 s + stall <= 30 s.
TickFitsInWindow == MaxStall + TickTimeout <= RenewalThreshold

VARIABLES
  now,       \* the clock
  lease,     \* instance.Lease
  pc,        \* where the goroutine is
  since,     \* when the running handleTick called ValidateForTick
  renewErr   \* Renew returned an error in the running handleTick

vars == <<now, lease, pc, since, renewErr>>

PCs == {"select", "validated", "ticking", "migrating", "halted"}

----------------------------------------------------------------------------
\* The clock reads of *Lease.

WithExpiry(l, e) == [state |-> l.state, major |-> l.major, gen |-> l.gen,
                     expiry |-> e]

IsExpired(l) == now > l.expiry

IsExpiredWithGrace(l) == now > l.expiry + GracePeriod

\* (mutant) renews only once the lease has run out.
NeedsRenewalLate(l) == l.expiry <= now

\* remaining <= threshold, written without subtraction.
NeedsRenewal(l) == l.expiry <= now + RenewalThreshold

\* (mutant) Renew without its expiry check.
CanRenewLapsed(l) == l.state = "ACTIVE_OWNER"

CanRenew(l) == l.state = "ACTIVE_OWNER" /\ ~IsExpiredWithGrace(l)

Renew(l) == IF CanRenew(l)
            THEN [NextGeneration(l) EXCEPT !.expiry = now + Duration]
            ELSE l

\* The lease after ValidateForTick; it returned nil iff TickAllowed.
ValidateForTick(l) ==
  IF CanTick(l.state) /\ IsExpiredWithGrace(l) THEN RequireRecovery(l) ELSE l

\* (mutant) ValidateForTick tests the clock and forgets the state.
TickAllowedAnyState(l) == ~IsExpiredWithGrace(l)

TickAllowed(l) == CanTick(ValidateForTick(l).state)

\* (mutant) recovery resets the generation and keeps the major version.
RecoverSameMajor(l) ==
  [l EXCEPT !.state = "ACTIVE_OWNER", !.gen = 0, !.expiry = now + Duration]

Recover(l) == [RecoverEpoch(l) EXCEPT !.expiry = now + Duration]

----------------------------------------------------------------------------
Init ==
  /\ now = 0
  /\ lease = WithExpiry(NewLease, Duration)
  /\ pc = "select" /\ since = 0 /\ renewErr = FALSE

\* Time passes.  A goroutine that validated the lease reaches Renew within
\* MaxStall, and a tick is cut off by its context timeout.
Pass ==
  /\ now < MaxTime
  /\ pc = "validated" => now < since + MaxStall
  /\ pc = "ticking" => now < since + MaxStall + TickTimeout
  /\ now' = now + 1
  /\ UNCHANGED <<lease, pc, since, renewErr>>

\* handleTick -> CheckAndRenewLease -> ValidateForTick returns nil.
Validate ==
  /\ pc = "select" /\ TickAllowed(lease)
  /\ lease' = ValidateForTick(lease)
  /\ pc' = "validated" /\ since' = now /\ renewErr' = FALSE
  /\ UNCHANGED now

\* ValidateForTick returns an error in RECOVERY_REQUIRED (just entered or
\* already there): handleTick calls AttemptLeaseRecovery and keeps looping.
RecoverLease ==
  /\ pc = "select" /\ ValidateForTick(lease).state = "RECOVERY_REQUIRED"
  /\ lease' = Recover(ValidateForTick(lease))
  /\ UNCHANGED <<now, pc, since, renewErr>>

\* ValidateForTick returns an error in any other state: HandleLeaseExpiry,
\* and the loop returns.
HaltOnLease ==
  /\ pc = "select"
  /\ ValidateForTick(lease).state \in {"HANDOFF_INITIATED", "HANDOFF_PENDING", "RETIRED"}
  /\ pc' = "halted"
  /\ UNCHANGED <<now, lease, since, renewErr>>

\* The rest of CheckAndRenewLease: NeedsRenewal, Renew, whose error is only
\* logged; then SafeTick starts.
RenewAndTick ==
  /\ pc = "validated"
  /\ lease' = IF NeedsRenewal(lease) THEN Renew(lease) ELSE lease
  /\ renewErr' = (NeedsRenewal(lease) /\ ~CanRenew(lease))
  /\ pc' = "ticking"
  /\ UNCHANGED <<now, since>>

\* SafeTick returns nil: back to the select, or out of the loop when the
\* verification that follows stops the agent.
TickDone ==
  /\ pc = "ticking"
  /\ pc' \in {"select", "halted"}
  /\ UNCHANGED <<now, lease, since, renewErr>>

\* A signal, a cancelled context: the loop returns.
Shutdown ==
  /\ pc = "select" /\ pc' = "halted"
  /\ UNCHANGED <<now, lease, since, renewErr>>

----------------------------------------------------------------------------
\* MigrateAgent and MigrateAgentWithRetry begin with TransitionToHandoff, and
\* return at once when it refuses.
BeginMigration ==
  /\ pc = "select" /\ CanHandoff(lease)
  /\ lease' = TransitionToHandoff(lease)
  /\ pc' = "migrating"
  /\ UNCHANGED <<now, since, renewErr>>

\* (mutant) finalizeMigration drops the lease with the instance.
MigrationDropsLease ==
  /\ pc = "migrating"
  /\ lease' = [state |-> "NONE"]
  /\ pc' = "halted"
  /\ UNCHANGED <<now, since, renewErr>>

\* finalizeMigration: retired, the instance closed.
MigrationSucceeds ==
  /\ pc = "migrating"
  /\ lease' = TransitionToRetired(lease)
  /\ pc' = "halted"
  /\ UNCHANGED <<now, since, renewErr>>

\* MigrateAgentWithRetry, transfer sent and no confirmation.
MigrationAmbiguous ==
  /\ pc = "migrating" /\ lease.major < MaxMajor
  /\ lease' = RequireRecovery(lease)
  /\ pc' = "select"
  /\ UNCHANGED <<now, since, renewErr>>

\* MigrateAgentWithRetry, every target exhausted or the context cancelled.
MigrationReverts ==
  /\ pc = "migrating"
  /\ lease' = RevertHandoff(lease)
  /\ pc' = "select"
  /\ UNCHANGED <<now, since, renewErr>>

\* MigrateAgent returns an error: nothing reverts the lease.
MigrationFails ==
  /\ pc = "migrating"
  /\ pc' = "select"
  /\ UNCHANGED <<now, lease, since, renewErr>>

Migrate == \/ BeginMigration \/ MigrationSucceeds \/ MigrationAmbiguous
           \/ MigrationReverts \/ MigrationFails

Next == \/ Pass \/ Validate \/ RecoverLease \/ HaltOnLease \/ RenewAndTick
        \/ TickDone \/ Shutdown \/ Migrate

Spec == Init /\ [][Next]_vars

----------------------------------------------------------------------------
\* The type invariant.
TypeOK ==
  /\ now \in Nat /\ since \in Nat
  /\ lease \in [state : States, major : Nat, gen : Nat, expiry : Nat]
  /\ pc \in PCs
  /\ renewErr \in BOOLEAN

\* A tick that handleTick started runs, to its timeout, under a lease that
\* has not expired - not even into the grace period - unless its renewal
\* failed.  (CheckAndRenewLease in front of SafeTick; LEASE_EPOCH.md: a node
\* with an expired lease must not tick.)
TickCovered ==
  pc = "ticking" /\ ~renewErr => ~IsExpired(lease)

\* From the check of the lease to the end of the tick, the node is the
\* active owner: no handoff, retirement or recovery can slip in between.
TickOnlyAsOwner ==
  pc \in {"validated", "ticking"} => CanTick(lease.state)

\* No step of the process makes the epoch go back, and a step that takes the
\* lease out of RECOVERY_REQUIRED starts a new major version (Recover).
EpochAdvances ==
  [][ /\ EpochEqual(lease', lease) \/ Supersedes(lease', lease)
      /\ lease.state = "RECOVERY_REQUIRED" /\ CanTick(lease'.state)
           => lease'.major > lease.major ]_vars

\* A lease that lapsed beyond its grace period is never extended within its
\* major version: only Recover, never Renew, brings it back.
LapsedNeedsNewMajor ==
  [][ IsExpiredWithGrace(lease) /\ lease'.expiry > lease.expiry
        => lease'.major > lease.major ]_vars
=============================================================================
