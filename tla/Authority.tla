----------------------------- MODULE Authority -----------------------------
(***************************************************************************)
(* The authority values of internal/authority: the states of the authority *)
(* state machine, the authority epoch and its order, and the transitions   *)
(* of a Lease that do not look at the clock.  Everything here is a pure     *)
(* operator on a lease record; the modules Lease and Migration hold leases  *)
(* in their variables and apply these operators in their actions.           *)
(*                                                                          *)
(* A lease record has the fields state, major and gen.  Module Lease adds   *)
(* the field expiry; the operators below leave other fields alone.          *)
(***************************************************************************)
EXTENDS Naturals

States == {"ACTIVE_OWNER", "HANDOFF_INITIATED", "HANDOFF_PENDING",
           "RETIRED", "RECOVERY_REQUIRED"}

\* Epoch.Supersedes: lexicographic on (MajorVersion, LeaseGeneration).
Supersedes(e, other) ==
  IF e.major # other.major THEN e.major > other.major ELSE e.gen > other.gen

\* Epoch.Equal.
EpochEqual(e, other) == e.major = other.major /\ e.gen = other.gen

\* State.CanTick.
CanTick(s) == s = "ACTIVE_OWNER"

----------------------------------------------------------------------------
\* The three constructors.  NewLeaseFromCheckpoint has no caller outside the
\* tests: restarted nodes use NewLease.
NewLease == [state |-> "ACTIVE_OWNER", major |-> 0, gen |-> 0]

NewLeaseFromMigration(sourceMajor) ==
  [state |-> "ACTIVE_OWNER", major |-> sourceMajor + 1, gen |-> 0]

----------------------------------------------------------------------------
\* Each method of *Lease that can fail is a guard (the condition under which
\* it returns nil) and the lease it leaves behind.

\* (mutant) a handoff that leaves the source the active owner.
HandoffForgotten(l) == l

CanHandoff(l) == l.state = "ACTIVE_OWNER"
TransitionToHandoff(l) == [l EXCEPT !.state = "HANDOFF_INITIATED"]

CanRetire(l) == l.state \in {"HANDOFF_INITIATED", "HANDOFF_PENDING"}
TransitionToRetired(l) ==
  IF CanRetire(l) THEN [l EXCEPT !.state = "RETIRED"] ELSE l

CanRevert(l) == l.state = "HANDOFF_INITIATED"
RevertHandoff(l) ==
  IF CanRevert(l) THEN [l EXCEPT !.state = "ACTIVE_OWNER"] ELSE l

\* The renewal and recovery of the epoch; the clock part is in module Lease.
NextGeneration(l) == [l EXCEPT !.gen = l.gen + 1]

RecoverEpoch(l) ==
  [l EXCEPT !.state = "ACTIVE_OWNER", !.major = l.major + 1, !.gen = 0]

\* MigrateAgentWithRetry's direct assignment on an ambiguous transfer, and
\* ValidateForTick's on an expired lease.
RequireRecovery(l) == [l EXCEPT !.state = "RECOVERY_REQUIRED"]
=============================================================================
