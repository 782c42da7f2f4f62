---------------------------- MODULE LeaseProofs ----------------------------
(***************************************************************************)
(* Proofs about module Lease, for every value of its constants.             *)
(***************************************************************************)
EXTENDS Lease, TLAPS

\* What the proofs use of the assumptions.
LEMMA ConstantsNat ==
  /\ Duration \in Nat /\ RenewalThreshold \in Nat /\ GracePeriod \in Nat
  /\ RenewalThreshold < Duration
  /\ TickTimeout \in Nat /\ MaxStall \in Nat
BY LeaseConfigValid, BoundsAssumption

\* The set of lease records, and what the operators of Authority and Lease
\* do to its members.
LeaseRecord == [state : States, major : Nat, gen : Nat, expiry : Nat]

\* Renew and Recover return leases, they end Duration from now, and they
\* move the epoch forward.
LEMMA RenewLemma ==
  ASSUME NEW l \in LeaseRecord, now \in Nat, CanRenew(l)
  PROVE  /\ Renew(l) \in LeaseRecord
         /\ Renew(l).state = l.state
         /\ Renew(l).expiry = now + Duration
         /\ Renew(l).major = l.major
         /\ Renew(l).gen = l.gen + 1
<1>1. /\ NextGeneration(l) \in LeaseRecord
      /\ NextGeneration(l).state = l.state
      /\ NextGeneration(l).major = l.major
      /\ NextGeneration(l).gen = l.gen + 1
  BY DEF LeaseRecord, NextGeneration
<1>2. Renew(l) = [NextGeneration(l) EXCEPT !.expiry = now + Duration]
  BY DEF Renew
<1> QED
  BY <1>1, <1>2, ConstantsNat DEF LeaseRecord

\* Recover returns an active lease of the next major version.
LEMMA RecoverLemma ==
  ASSUME NEW l \in LeaseRecord, now \in Nat
  PROVE  /\ Recover(l) \in LeaseRecord
         /\ Recover(l).state = "ACTIVE_OWNER"
         /\ Recover(l).major = l.major + 1
         /\ Recover(l).gen = 0
<1>0. "ACTIVE_OWNER" \in States
  BY DEF States
<1> DEFINE a == [l EXCEPT !.state = "ACTIVE_OWNER"]
           b == [a EXCEPT !.major = l.major + 1]
           c == [b EXCEPT !.gen = 0]
<1>a. RecoverEpoch(l) \in LeaseRecord
  <2>1. a \in LeaseRecord
    BY <1>0 DEF LeaseRecord
  <2>2. b \in LeaseRecord
    <3>1. l.major + 1 \in Nat
      BY DEF LeaseRecord
    <3> HIDE DEF a
    <3> QED
      BY <2>1, <3>1 DEF LeaseRecord
  <2>3. c \in LeaseRecord
    <3> HIDE DEF b
    <3> QED
      BY <2>2 DEF LeaseRecord
  <2>4. RecoverEpoch(l) = c
    BY DEF RecoverEpoch, LeaseRecord
  <2> QED
    BY <2>3, <2>4
<1>1. /\ RecoverEpoch(l) \in LeaseRecord
      /\ RecoverEpoch(l).state = "ACTIVE_OWNER"
      /\ RecoverEpoch(l).major = l.major + 1
      /\ RecoverEpoch(l).gen = 0
  BY <1>a DEF LeaseRecord, RecoverEpoch
<1>2. Recover(l) = [RecoverEpoch(l) EXCEPT !.expiry = now + Duration]
  BY DEF Recover
<1> QED
  BY <1>1, <1>2, ConstantsNat DEF LeaseRecord

\* ValidateForTick changes nothing but the state.
LEMMA ValidateLemma ==
  ASSUME NEW l \in LeaseRecord
  PROVE  /\ ValidateForTick(l) \in LeaseRecord
         /\ ValidateForTick(l).major = l.major
         /\ ValidateForTick(l).gen = l.gen
         /\ ValidateForTick(l).expiry = l.expiry
         /\ TickAllowed(l) => ValidateForTick(l) = l /\ l.state = "ACTIVE_OWNER"
BY DEF LeaseRecord, ValidateForTick, RequireRecovery, States, TickAllowed, CanTick

\* The transitions a migration makes on the lease change the state only.
LEMMA HandoffLemma ==
  ASSUME NEW l \in LeaseRecord
  PROVE  /\ TransitionToHandoff(l) \in LeaseRecord
         /\ TransitionToRetired(l) \in LeaseRecord
         /\ RevertHandoff(l) \in LeaseRecord
         /\ RequireRecovery(l) \in LeaseRecord
BY DEF LeaseRecord, TransitionToHandoff, TransitionToRetired, CanRetire,
       RevertHandoff, CanRevert, RequireRecovery, States

----------------------------------------------------------------------------
\* The type invariant holds of a new lease.
LEMMA TypeInit == Init => TypeOK
<1> SUFFICES ASSUME Init PROVE TypeOK
  OBVIOUS
<1>1. lease \in [state : States, major : Nat, gen : Nat, expiry : Nat]
  BY ConstantsNat DEF Init, WithExpiry, NewLease, States
<1> QED
  BY <1>1 DEF Init, TypeOK, PCs

\* Every step of the clock, the loop and a migration keeps the types.
LEMMA TypeStep == TypeOK /\ [Next]_vars => TypeOK'
<1> SUFFICES ASSUME TypeOK, [Next]_vars PROVE TypeOK'
  OBVIOUS
<1> USE DEF TypeOK, PCs
<1>0. lease \in LeaseRecord
  BY DEF LeaseRecord
<1>1. CASE Pass
  BY <1>1 DEF Pass
<1>2. CASE Validate
  BY <1>0, <1>2, ValidateLemma DEF Validate, LeaseRecord
<1>3. CASE RecoverLease
  BY <1>0, <1>3, ValidateLemma, RecoverLemma DEF RecoverLease, LeaseRecord
<1>4. CASE HaltOnLease
  BY <1>4 DEF HaltOnLease
<1>5. CASE RenewAndTick
  <2>1. lease' \in LeaseRecord
    BY <1>0, <1>5, RenewLemma DEF RenewAndTick, Renew
  <2>2. renewErr' \in BOOLEAN
    BY <1>5 DEF RenewAndTick
  <2> QED
    BY <1>5, <2>1, <2>2 DEF RenewAndTick, LeaseRecord
<1>6. CASE TickDone
  BY <1>6 DEF TickDone
<1>7. CASE Shutdown
  BY <1>7 DEF Shutdown
<1>8. CASE Migrate
  <2>1. lease' \in LeaseRecord
    BY <1>0, <1>8, HandoffLemma
       DEF Migrate, BeginMigration, MigrationSucceeds, MigrationAmbiguous,
           MigrationReverts, MigrationFails
  <2> QED
    BY <1>8, <2>1
       DEF Migrate, BeginMigration, MigrationSucceeds, MigrationAmbiguous,
           MigrationReverts, MigrationFails, LeaseRecord
<1>9. CASE UNCHANGED vars
  BY <1>9 DEF vars
<1> QED
  BY <1>1, <1>2, <1>3, <1>4, <1>5, <1>6, <1>7, <1>8, <1>9 DEF Next

\* Every variable of the lease and of its loop keeps its type.
THEOREM TypeCorrect == Spec => []TypeOK
<1>1. Init => TypeOK
  BY TypeInit
<1>2. TypeOK /\ [Next]_vars => TypeOK'
  BY TypeStep
<1> QED
  BY <1>1, <1>2, PTL DEF Spec

----------------------------------------------------------------------------
\* The strengthening of TickCovered and TickOnlyAsOwner that is inductive: it
\* dates the running handleTick.  The tick is younger than the stall and the
\* timeout allow, and the lease it runs under was checked to outlive the
\* validation by the renewal threshold.
TickInv ==
  /\ TickOnlyAsOwner
  /\ pc = "validated" => since <= now /\ now <= since + MaxStall
  /\ pc = "ticking" => since <= now /\ now <= since + MaxStall + TickTimeout
  /\ pc = "ticking" /\ ~renewErr => since + RenewalThreshold <= lease.expiry

\* TickInv holds before the first tick.
LEMMA TickInit == Init => TickInv
BY DEF Init, TickInv, TickOnlyAsOwner

\* Every step keeps TickInv, given the types.
LEMMA TickStep == TypeOK /\ TickInv /\ [Next]_vars => TickInv'
<1> SUFFICES ASSUME TypeOK, TickInv, [Next]_vars PROVE TickInv'
  OBVIOUS
<1>0. lease \in LeaseRecord /\ now \in Nat /\ since \in Nat
  BY DEF TypeOK, LeaseRecord
<1>a. /\ RenewalThreshold \in Nat /\ MaxStall \in Nat /\ TickTimeout \in Nat
      /\ Duration \in Nat /\ RenewalThreshold < Duration
  BY ConstantsNat
<1>1. CASE Pass
  BY <1>0, <1>a, <1>1 DEF Pass, TickInv, TickOnlyAsOwner
<1>2. CASE Validate
  <2>1. lease' = lease /\ lease.state = "ACTIVE_OWNER"
    BY <1>0, <1>2, ValidateLemma DEF Validate
  <2> QED
    BY <1>0, <1>a, <1>2, <2>1 DEF Validate, TickInv, TickOnlyAsOwner, CanTick
<1>3. CASE RecoverLease
  BY <1>3 DEF RecoverLease, TickInv, TickOnlyAsOwner
<1>4. CASE HaltOnLease
  BY <1>4 DEF HaltOnLease, TickInv, TickOnlyAsOwner
<1>5. CASE RenewAndTick
  <2>1. /\ pc = "validated" /\ pc' = "ticking"
        /\ now' = now /\ since' = since
        /\ since <= now /\ now <= since + MaxStall
        /\ lease.state = "ACTIVE_OWNER"
    BY <1>5 DEF RenewAndTick, TickInv, TickOnlyAsOwner, CanTick
  <2>2. lease'.state = "ACTIVE_OWNER"
    BY <1>0, <1>5, <2>1, RenewLemma DEF RenewAndTick, Renew
  <2>3. ASSUME ~renewErr' PROVE since + RenewalThreshold <= lease'.expiry
    <3>1. CASE NeedsRenewal(lease)
      <4>1. CanRenew(lease) /\ lease' = Renew(lease)
        BY <1>5, <2>3, <3>1 DEF RenewAndTick
      <4>2. lease'.expiry = now + Duration
        BY <1>0, <4>1, RenewLemma
      <4> QED
        BY <1>0, <1>a, <2>1, <4>2
    <3>2. CASE ~NeedsRenewal(lease)
      <4>1. lease' = lease
        BY <1>5, <3>2 DEF RenewAndTick
      <4>2. lease.expiry \in Nat /\ ~(lease.expiry <= now + RenewalThreshold)
        BY <1>0, <3>2 DEF NeedsRenewal, LeaseRecord
      <4> QED
        BY <1>0, <1>a, <2>1, <4>1, <4>2
    <3> QED
      BY <3>1, <3>2
  <2>4. now <= since + MaxStall + TickTimeout
    BY <1>0, <1>a, <2>1
  <2> QED
    BY <2>1, <2>2, <2>3, <2>4 DEF TickInv, TickOnlyAsOwner, CanTick
<1>6. CASE TickDone
  BY <1>6 DEF TickDone, TickInv, TickOnlyAsOwner
<1>7. CASE Shutdown
  BY <1>7 DEF Shutdown, TickInv, TickOnlyAsOwner
<1>8. CASE Migrate
  BY <1>8 DEF Migrate, BeginMigration, MigrationSucceeds, MigrationAmbiguous,
              MigrationReverts, MigrationFails, TickInv, TickOnlyAsOwner
<1>9. CASE UNCHANGED vars
  BY <1>9 DEF vars, TickInv, TickOnlyAsOwner
<1> QED
  BY <1>1, <1>2, <1>3, <1>4, <1>5, <1>6, <1>7, <1>8, <1>9 DEF Next

\* From validation to the end of the tick the node stays ACTIVE_OWNER.
THEOREM TickAsOwner == Spec => []TickOnlyAsOwner
<1>1. Init => TypeOK /\ TickInv
  BY TypeInit, TickInit
<1>2. TypeOK /\ TickInv /\ [Next]_vars => TypeOK' /\ TickInv'
  BY TypeStep, TickStep
<1>3. TickInv => TickOnlyAsOwner
  BY DEF TickInv
<1> QED
  BY <1>1, <1>2, <1>3, PTL DEF Spec

\* If a stalled check plus the tick timeout fits in the renewal threshold, a
\* tick whose renewal did not fail never outlives its lease.
THEOREM TickIsCovered == ASSUME TickFitsInWindow PROVE Spec => []TickCovered
<1>1. Init => TypeOK /\ TickInv
  BY TypeInit, TickInit
<1>2. TypeOK /\ TickInv /\ [Next]_vars => TypeOK' /\ TickInv'
  BY TypeStep, TickStep
<1>3. TypeOK /\ TickInv => TickCovered
  <2> SUFFICES ASSUME TypeOK, TickInv, pc = "ticking", ~renewErr
               PROVE  ~(now > lease.expiry)
    BY DEF TickCovered, IsExpired
  <2>1. now \in Nat /\ since \in Nat /\ lease.expiry \in Nat
    BY DEF TypeOK
  <2>2. /\ now <= since + MaxStall + TickTimeout
        /\ since + RenewalThreshold <= lease.expiry
    BY DEF TickInv
  <2> QED
    BY <2>1, <2>2, ConstantsNat, TickFitsInWindow DEF TickFitsInWindow
<1> QED
  BY <1>1, <1>2, <1>3, PTL DEF Spec

----------------------------------------------------------------------------
\* The epoch never goes back within a process, and leaving RECOVERY_REQUIRED
\* for ACTIVE_OWNER takes a new major version.
THEOREM EpochOnlyAdvances == Spec => EpochAdvances
<1> DEFINE Step == /\ EpochEqual(lease', lease) \/ Supersedes(lease', lease)
                   /\ lease.state = "RECOVERY_REQUIRED" /\ CanTick(lease'.state)
                        => lease'.major > lease.major
<1>1. TypeOK /\ [Next]_vars => Step
  <2> SUFFICES ASSUME TypeOK, [Next]_vars PROVE Step
    OBVIOUS
  <2>0. lease \in LeaseRecord /\ now \in Nat
    BY DEF TypeOK, LeaseRecord
  <2>1. CASE lease' = lease
    BY <2>1 DEF EpochEqual, CanTick
  <2>2. CASE RecoverLease
    <3>1. lease'.major = lease.major + 1
      BY <2>0, <2>2, ValidateLemma, RecoverLemma DEF RecoverLease
    <3>2. lease.major \in Nat
      BY <2>0 DEF LeaseRecord
    <3> QED
      BY <3>1, <3>2 DEF Supersedes
  <2>3. CASE RenewAndTick
    <3>1. CASE lease' = lease
      BY <2>1, <3>1
    <3>2. CASE lease' # lease
      <4>1. CanRenew(lease) /\ lease' = Renew(lease)
        BY <2>3, <3>2 DEF RenewAndTick, Renew
      <4>2. /\ lease'.major = lease.major /\ lease'.gen = lease.gen + 1
            /\ lease.state = "ACTIVE_OWNER" /\ lease.gen \in Nat
        BY <2>0, <4>1, RenewLemma DEF CanRenew, LeaseRecord
      <4> QED
        BY <4>2 DEF Supersedes
    <3> QED
      BY <3>1, <3>2
  <2>4. CASE Validate
    BY <2>0, <2>1, <2>4, ValidateLemma DEF Validate
  <2>5. CASE Migrate
    BY <2>0, <2>5 DEF Migrate, BeginMigration, MigrationSucceeds,
       MigrationAmbiguous, MigrationReverts, MigrationFails, LeaseRecord,
       EpochEqual, CanTick, CanHandoff, TransitionToHandoff,
       TransitionToRetired, CanRetire, RevertHandoff, CanRevert, RequireRecovery
  <2>6. CASE Pass \/ HaltOnLease \/ TickDone \/ Shutdown \/ UNCHANGED vars
    BY <2>1, <2>6 DEF Pass, HaltOnLease, TickDone, Shutdown, vars
  <2> QED
    BY <2>2, <2>3, <2>4, <2>5, <2>6 DEF Next
<1>2. TypeOK /\ [Next]_vars => [Step]_vars
  BY <1>1
<1>3. Spec => []TypeOK
  BY TypeCorrect
<1> QED
  BY <1>2, <1>3, PTL DEF Spec, EpochAdvances

\* Beyond the grace period, the lease is extended only under a new major
\* version.
THEOREM LapsedLeaseNeedsRecovery == Spec => LapsedNeedsNewMajor
<1> DEFINE Step == IsExpiredWithGrace(lease) /\ lease'.expiry > lease.expiry
                     => lease'.major > lease.major
<1>1. TypeOK /\ [Next]_vars => Step
  <2> SUFFICES ASSUME TypeOK, [Next]_vars PROVE Step
    OBVIOUS
  <2>0. lease \in LeaseRecord /\ now \in Nat
    BY DEF TypeOK, LeaseRecord
  <2>1. CASE lease'.expiry = lease.expiry
    <3>1. lease.expiry \in Nat
      BY <2>0 DEF LeaseRecord
    <3> QED
      BY <2>1, <3>1
  <2>2. CASE RecoverLease
    <3>1. lease'.major = lease.major + 1
      BY <2>0, <2>2, ValidateLemma, RecoverLemma DEF RecoverLease
    <3> QED
      BY <2>0, <3>1 DEF LeaseRecord
  <2>3. CASE RenewAndTick
    <3>1. CASE lease' = lease
      BY <2>1, <3>1
    <3>2. CASE lease' # lease
      <4>1. CanRenew(lease)
        BY <2>3, <3>2 DEF RenewAndTick, Renew
      <4> QED
        BY <4>1 DEF CanRenew
    <3> QED
      BY <3>1, <3>2
  <2>4. CASE Validate
    BY <2>0, <2>1, <2>4, ValidateLemma DEF Validate
  <2>5. CASE Migrate
    <3>1. lease'.expiry = lease.expiry
      BY <2>0, <2>5 DEF Migrate, BeginMigration, MigrationSucceeds,
         MigrationAmbiguous, MigrationReverts, MigrationFails, LeaseRecord,
         TransitionToHandoff, TransitionToRetired, CanRetire, RevertHandoff,
         CanRevert, RequireRecovery
    <3> QED
      BY <2>1, <3>1
  <2>6. CASE Pass \/ HaltOnLease \/ TickDone \/ Shutdown \/ UNCHANGED vars
    BY <2>1, <2>6 DEF Pass, HaltOnLease, TickDone, Shutdown, vars
  <2> QED
    BY <2>2, <2>3, <2>4, <2>5, <2>6 DEF Next
<1>2. TypeOK /\ [Next]_vars => [Step]_vars
  BY <1>1
<1>3. Spec => []TypeOK
  BY TypeCorrect
<1> QED
  BY <1>2, <1>3, PTL DEF Spec, LapsedNeedsNewMajor
=============================================================================
