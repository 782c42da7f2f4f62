----------------------------- MODULE Migration -----------------------------
(***************************************************************************)
(* Migration of one agent between lab nodes: internal/migration/service.go  *)
(* (MigrateAgent, MigrateAgentWithRetry, handleIncomingMigration), the tick *)
(* loop of cmd/igord-lab that owns an instance, and the checkpoint storage  *)
(* of each node.                                                            *)
(*                                                                          *)
(* Per node: the process is up or down, activeAgents holds at most one      *)
(* instance of the agent, storage holds at most one checkpoint, and one     *)
(* outgoing migration may be running.  It runs on the goroutine that ticks  *)
(* the agent (the MigrationTrigger of the tick loop, or a program that      *)
(* migrates between two ticks), so ticks and saves wait for it; handlers of *)
(* incoming streams run beside everything else and take no lock but the one *)
(* on the map.                                                              *)
(*                                                                          *)
(* Data: an agent's state is the number of ticks behind it; a checkpoint is *)
(* that number and the epoch in its header; time is left out, so a lease    *)
(* may lapse between any two ticks (module Lease keeps the clock).          *)
(***************************************************************************)
EXTENDS Authority, Integers, Sequences, FiniteSetsExt

CONSTANTS
  Nodes,
  First,        \* the node the agent is started on
  Faults,       \* which failures can happen, a subset of FaultKinds
  Simple,       \* TRUE if MigrateAgent is called, not only the retrying one
  Overlap,      \* TRUE if an agent may be sent to a node that is itself still
                \* migrating it: nothing in the code prevents it
  MaxAttempts,  \* RetryConfig.MaxAttempts
  MaxTick,      \* bound on ticks
  MaxGen,       \* bound on renewals of one lease
  MaxMajor,     \* bound on recoveries
  MaxCalls      \* bound on migration calls

\* connect: dialling, opening the stream or sending fails.  reject: the target
\* refuses the package.  load: the target cannot start the agent.  stream: the
\* stream breaks after the transfer was sent.  crash: a process is killed.
\* delete: removing the source's checkpoint fails.
FaultKinds == {"connect", "reject", "load", "stream", "crash", "delete"}

ASSUME ConstantsAssumption ==
  /\ IsFiniteSet(Nodes) /\ First \in Nodes
  /\ Faults \subseteq FaultKinds /\ Simple \in BOOLEAN /\ Overlap \in BOOLEAN
  /\ MaxAttempts \in Nat \ {0}
  /\ MaxTick \in Nat /\ MaxGen \in Nat /\ MaxMajor \in Nat /\ MaxCalls \in Nat

VARIABLES
  up,       \* up[n]: the process of node n is running
  inst,     \* inst[n]: activeAgents[agentID] on n, with its lease
  ckpt,     \* ckpt[n]: the checkpoint in n's storage
  out,      \* out[n]: the migration call running on n
  streams,  \* the migration streams, each with the progress of its handler
  calls,    \* number of migration calls made so far
  accepted  \* accepted[c]: history, the nodes on which call c started the agent

vars == <<up, inst, ckpt, out, streams, calls, accepted>>

NoInst == [state |-> "NONE"]
NoCkpt == [tick |-> -1]
NoCall == [phase |-> "NONE"]

CallIds == 1..MaxCalls

\* Target lists: the primary, if there is one, and the candidates.  Only
\* repetitions of the primary are removed, so without one any may occur.
\* Their length is bounded by the number of other nodes.
TargetLists(n) == UNION {[1..k -> Nodes \ {n}] : k \in 1..(Cardinality(Nodes) - 1)}

Hosted(n) == inst[n] # NoInst

\* buildCheckpoint: the header takes the epoch of the live lease.
Snapshot(i) == [major |-> i.major, gen |-> i.gen, tick |-> i.tick]

WithTick(l, t) == [state |-> l.state, major |-> l.major, gen |-> l.gen, tick |-> t]

Answered(s) == s.phase \in {"ok", "fatal", "retriable"}

\* The process goes away: its memory, its outgoing call and the handlers it
\* was running.  An answer already sent to another node stays on its way, and
\* so does a transfer this process sent.
KillProcess(n) ==
  /\ up' = [up EXCEPT ![n] = FALSE]
  /\ inst' = [inst EXCEPT ![n] = NoInst]
  /\ out' = [out EXCEPT ![n] = NoCall]
  /\ streams' = {s \in streams : IF s.dst = n THEN Answered(s) ELSE s.src = n => ~Answered(s)}

----------------------------------------------------------------------------
\* The agent runs on one node (initLocalAgent), checkpointed once or not yet.
Init ==
  /\ up = [n \in Nodes |-> TRUE]
  /\ inst = [n \in Nodes |-> IF n = First THEN WithTick(NewLease, 0) ELSE NoInst]
  /\ \E c \in {NoCkpt, Snapshot(WithTick(NewLease, 0))} :
       ckpt = [n \in Nodes |-> IF n = First THEN c ELSE NoCkpt]
  /\ out = [n \in Nodes |-> NoCall]
  /\ streams = {} /\ calls = 0
  /\ accepted = [c \in CallIds |-> {}]

----------------------------------------------------------------------------
\* The tick loop (runLocalAgent, handleTick).  It is blocked while it migrates.

LoopRuns(n) == up[n] /\ Hosted(n) /\ out[n] = NoCall

\* CheckAndRenewLease passes, with or without a renewal, and the tick runs.
Tick(n) ==
  /\ LoopRuns(n) /\ CanTick(inst[n].state) /\ inst[n].tick < MaxTick
  /\ \E l \in {inst[n]} \cup (IF inst[n].gen < MaxGen THEN {NextGeneration(inst[n])} ELSE {}) :
       inst' = [inst EXCEPT ![n] = [l EXCEPT !.tick = l.tick + 1]]
  /\ UNCHANGED <<up, ckpt, out, streams, calls, accepted>>

\* The lease lapsed, or the state is RECOVERY_REQUIRED already: handleTick
\* calls AttemptLeaseRecovery, which recovers and saves a checkpoint.
RecoverLease(n) ==
  /\ LoopRuns(n) /\ inst[n].state \in {"ACTIVE_OWNER", "RECOVERY_REQUIRED"}
  /\ inst[n].major < MaxMajor
  /\ inst' = [inst EXCEPT ![n] = RecoverEpoch(inst[n])]
  /\ ckpt' = [ckpt EXCEPT ![n] = Snapshot(RecoverEpoch(inst[n]))]
  /\ UNCHANGED <<up, out, streams, calls, accepted>>

\* checkpointTicker: saves whatever the state of the lease.
SaveCheckpoint(n) ==
  /\ LoopRuns(n)
  /\ ckpt' = [ckpt EXCEPT ![n] = Snapshot(inst[n])]
  /\ UNCHANGED <<up, inst, out, streams, calls, accepted>>

\* HandleLeaseExpiry (the state forbids ticking), HandleTickFailure, a paused
\* divergence or a signal: a last checkpoint, and the process ends.
Shutdown(n) ==
  /\ LoopRuns(n)
  /\ ckpt' = [ckpt EXCEPT ![n] = Snapshot(inst[n])]
  /\ KillProcess(n)
  /\ UNCHANGED <<calls, accepted>>

\* A node that hosts nothing and serves no stream is stopped.
StopNode(n) ==
  /\ up[n] /\ ~Hosted(n) /\ out[n] = NoCall /\ \A s \in streams : s.dst = n => Answered(s)
  /\ up' = [up EXCEPT ![n] = FALSE]
  /\ UNCHANGED <<inst, ckpt, out, streams, calls, accepted>>

Crash(n) ==
  /\ "crash" \in Faults /\ up[n]
  /\ KillProcess(n)
  /\ UNCHANGED <<ckpt, calls, accepted>>

\* igord-lab --run-agent where a checkpoint is stored: it is resumed under a
\* NewLease.  (Where there is none, or its load fails, the operator has a new
\* agent instead, in AgentLife and Continuity.)  igord-lab without the flag:
\* a node that only waits for agents, or migrates one out of its storage,
\* --migrate-agent.
RunAgent(n) ==
  /\ ~up[n] /\ ckpt[n] # NoCkpt
  /\ up' = [up EXCEPT ![n] = TRUE]
  /\ inst' = [inst EXCEPT ![n] = WithTick(NewLease, ckpt[n].tick)]
  /\ UNCHANGED <<ckpt, out, streams, calls, accepted>>

StartNode(n) ==
  /\ ~up[n]
  /\ up' = [up EXCEPT ![n] = TRUE]
  /\ UNCHANGED <<inst, ckpt, out, streams, calls, accepted>>

----------------------------------------------------------------------------
\* Outgoing migrations.

\* buildMigrationPackage takes checkpoint and epoch from storage, not from
\* the live instance.
NewCall(n, retry, targets) ==
  [call |-> calls + 1, retry |-> retry, hasAgent |-> Hosted(n), pkg |-> ckpt[n],
   targets |-> targets, attempt |-> 0, phase |-> "dial"]

\* The operator does not send the agent where a migration is still running.
TargetsFree(targets) ==
  Overlap \/ \A i \in DOMAIN targets : out[targets[i]] = NoCall

\* TransitionToHandoff on the local instance, which the call captures.
BeginCall(n, retry, targets) ==
  /\ LoopRuns(n) /\ calls < MaxCalls /\ TargetsFree(targets)
  /\ CanHandoff(inst[n]) /\ ckpt[n] # NoCkpt
  /\ inst' = [inst EXCEPT ![n] = TransitionToHandoff(inst[n])]
  /\ out' = [out EXCEPT ![n] = NewCall(n, retry, targets)]
  /\ calls' = calls + 1
  /\ UNCHANGED <<up, ckpt, streams, accepted>>

MigrateAgent(n, target) == Simple /\ BeginCall(n, FALSE, <<target>>)

MigrateAgentWithRetry(n, targets) == BeginCall(n, TRUE, targets)

\* MigrateAgent without a checkpoint to load: the handoff stays behind.
\* (MigrateAgentWithRetry reverts it, a step that changes nothing.)
MigrateWithoutCheckpoint(n) ==
  /\ Simple /\ LoopRuns(n) /\ CanHandoff(inst[n]) /\ ckpt[n] = NoCkpt
  /\ inst' = [inst EXCEPT ![n] = TransitionToHandoff(inst[n])]
  /\ UNCHANGED <<up, ckpt, out, streams, calls, accepted>>

\* igord-lab --migrate-agent: a process of its own that moves the stored
\* checkpoint of an agent that is not running here, and exits.
MigrateFromStorage(n, target) ==
  /\ Simple /\ ~up[n] /\ ckpt[n] # NoCkpt
  /\ calls < MaxCalls /\ TargetsFree(<<target>>)
  /\ up' = [up EXCEPT ![n] = TRUE]
  /\ out' = [out EXCEPT ![n] = NewCall(n, FALSE, <<target>>)]
  /\ calls' = calls + 1
  /\ UNCHANGED <<inst, ckpt, streams, accepted>>

Target(n) == Head(out[n].targets)

\* The stream this call is waiting on, if it still exists.
Awaited(n) == {s \in streams : out[n].phase = "sent" /\ s.src = n /\ s.call = out[n].call}

\* The call returns to the loop, which goes on with instance i, or the
\* --migrate-agent process exits.  remaining are the streams left.
Return(n, i, remaining) ==
  /\ out' = [out EXCEPT ![n] = NoCall]
  /\ up' = [up EXCEPT ![n] = out[n].hasAgent]
  /\ inst' = [inst EXCEPT ![n] = IF out[n].hasAgent THEN i ELSE NoInst]
  /\ streams' = {s \in remaining : out[n].hasAgent \/ s.dst # n \/ Answered(s)}

\* (mutant) the attempt counter is tested one too far.
AfterFailureOneTooMany(n, retriable, remaining) ==
  /\ out[n].retry /\ retriable /\ out[n].attempt < MaxAttempts
  /\ out' = [out EXCEPT ![n].attempt = @ + 1, ![n].phase = "backoff"]
  /\ streams' = remaining /\ UNCHANGED <<up, inst>>

\* (mutant) the attempt counter is never advanced.
AfterFailureForEver(n, retriable, remaining) ==
  /\ out' = [out EXCEPT ![n].phase = "dial"]
  /\ streams' = remaining /\ UNCHANGED <<up, inst>>

\* migrateToTarget failed unambiguously.  MigrateAgent returns the error;
\* MigrateAgentWithRetry backs off, breaks to the next target, or reverts the
\* handoff and returns.
AfterFailure(n, retriable, remaining) ==
  LET o == out[n]
      again == retriable /\ o.attempt < MaxAttempts - 1
      Resume(next) == /\ out' = [out EXCEPT ![n] = next]
                      /\ streams' = remaining
                      /\ UNCHANGED <<up, inst>>
  IN \/ ~o.retry /\ Return(n, inst[n], remaining)
     \/ o.retry /\ again
          /\ Resume([o EXCEPT !.attempt = o.attempt + 1, !.phase = "backoff"])
     \/ o.retry /\ ~again /\ Len(o.targets) > 1
          /\ Resume([o EXCEPT !.targets = Tail(o.targets), !.attempt = 0, !.phase = "dial"])
     \/ o.retry /\ ~again /\ Len(o.targets) = 1
          /\ Return(n, RevertHandoff(inst[n]), remaining)

\* Connect, NewStream or Encode fails.
SendFails(n) ==
  /\ out[n].phase = "dial"
  /\ "connect" \in Faults \/ ~up[Target(n)]
  /\ AfterFailure(n, TRUE, streams)
  /\ UNCHANGED <<ckpt, calls, accepted>>

\* (mutant) the source cleans up as soon as it has sent the package.
SendTransferAndForget(n) ==
  /\ out[n].phase = "dial" /\ up[Target(n)]
  /\ streams' = streams \cup {[call |-> out[n].call, src |-> n, dst |-> Target(n),
                               pkg |-> out[n].pkg, phase |-> "transfer"]}
  /\ out' = [out EXCEPT ![n].phase = "sent"]
  /\ ckpt' = [ckpt EXCEPT ![n] = NoCkpt]
  /\ UNCHANGED <<up, inst, calls, accepted>>

SendTransfer(n) ==
  /\ out[n].phase = "dial" /\ up[Target(n)]
  /\ streams' = streams \cup {[call |-> out[n].call, src |-> n, dst |-> Target(n),
                               pkg |-> out[n].pkg, phase |-> "transfer"]}
  /\ out' = [out EXCEPT ![n].phase = "sent"]
  /\ UNCHANGED <<up, inst, ckpt, calls, accepted>>

\* The select of the backoff: the delay is over, or the context cancelled.
BackoffOver(n) ==
  /\ out[n].phase = "backoff"
  /\ out' = [out EXCEPT ![n].phase = "dial"]
  /\ UNCHANGED <<up, inst, ckpt, streams, calls, accepted>>

\* (mutant) a cancelled context returns without revertHandoff.
BackoffAbandoned(n) ==
  /\ out[n].phase = "backoff"
  /\ Return(n, inst[n], streams)
  /\ UNCHANGED <<ckpt, calls, accepted>>

BackoffCancelled(n) ==
  /\ out[n].phase = "backoff"
  /\ Return(n, RevertHandoff(inst[n]), streams)
  /\ UNCHANGED <<ckpt, calls, accepted>>

\* AgentStarted{Success: false}.
ConfirmFailure(n) ==
  \E s \in Awaited(n) :
    /\ s.phase \in {"fatal", "retriable"}
    /\ AfterFailure(n, s.phase = "retriable", streams \ {s})
    /\ UNCHANGED <<ckpt, calls, accepted>>

\* AgentStarted{Success: true}: finalizeMigration retires the captured
\* instance, removes it from activeAgents and closes it, and deletes the local
\* checkpoint; an error of the deletion is only logged.  The removal holds the
\* lock and the deletion follows it; a kill in between leaves what a deletion
\* that failed leaves.
ConfirmSuccess(n) ==
  \E s \in Awaited(n) :
    /\ s.phase = "ok"
    /\ Return(n, NoInst, streams \ {s})
    /\ \/ ckpt' = [ckpt EXCEPT ![n] = NoCkpt]
       \/ "delete" \in Faults /\ UNCHANGED ckpt
    /\ UNCHANGED <<calls, accepted>>

\* (mutant) a lost confirmation is taken for a failed transfer.
AmbiguousReverted(n) == RevertHandoff(inst[n])

\* The lease after ErrTransferSent: MigrateAgentWithRetry sets
\* RECOVERY_REQUIRED, MigrateAgent leaves the handoff.
AmbiguousInst(n) == IF out[n].retry THEN RequireRecovery(inst[n]) ELSE inst[n]

\* (mutant) a lost confirmation is retried like any other failure.
ConfirmLostRetried(n) ==
  /\ out[n].phase = "sent"
  /\ "stream" \in Faults \/ Awaited(n) = {}
  /\ AfterFailure(n, FALSE, {s \in streams : s \in Awaited(n) => ~Answered(s)})
  /\ UNCHANGED <<ckpt, calls, accepted>>

\* Decoding the confirmation fails.  The call returns without trying another
\* target; the target's handler may still be running, or may still receive
\* the transfer.
ConfirmLost(n) ==
  /\ out[n].phase = "sent"
  /\ "stream" \in Faults \/ Awaited(n) = {}
  /\ \E inFlight \in {{"saved"}, {"transfer", "saved"}} :
       Return(n, AmbiguousInst(n), {s \in streams : s \in Awaited(n) => s.phase \in inFlight})
  /\ UNCHANGED <<ckpt, calls, accepted>>

----------------------------------------------------------------------------
\* Incoming migrations: handleIncomingMigration on the target of stream s.

\* The handler answers; nobody reads the answer of an abandoned stream.
Answer(s, phase) ==
  streams' = (streams \ {s}) \cup
     (IF s \in Awaited(s.src) THEN {[s EXCEPT !.phase = phase]} ELSE {})

\* A check of the package or the save of its checkpoint fails.
RejectTransfer(s) ==
  /\ "reject" \in Faults /\ s.phase = "transfer" /\ up[s.dst]
  /\ \E phase \in {"fatal", "retriable"} : Answer(s, phase)
  /\ UNCHANGED <<up, inst, ckpt, out, calls, accepted>>

\* The checkpoint replaces whatever the node had stored for the agent.
AcceptTransfer(s) ==
  /\ s.phase = "transfer" /\ up[s.dst]
  /\ ckpt' = [ckpt EXCEPT ![s.dst] = s.pkg]
  /\ streams' = (streams \ {s}) \cup {[s EXCEPT !.phase = "saved"]}
  /\ UNCHANGED <<up, inst, out, calls, accepted>>

\* loadMigratedAgent resumes from storage (a missing checkpoint is a fresh
\* agent), the lease gets the package's major version plus one, and the
\* instance is registered.  The runtime refuses a second module of this name.
StartMigrated(s) ==
  /\ s.phase = "saved" /\ ~Hosted(s.dst)
  /\ inst' = [inst EXCEPT ![s.dst] =
       WithTick(NewLeaseFromMigration(s.pkg.major),
                IF ckpt[s.dst] = NoCkpt THEN 0 ELSE ckpt[s.dst].tick)]
  /\ Answer(s, "ok")
  /\ accepted' = [accepted EXCEPT ![s.call] = @ \cup {s.dst}]
  /\ UNCHANGED <<up, ckpt, out, calls>>

\* loadMigratedAgent fails: deleteOrphanedCheckpoint.  A checkpoint taken with
\* another WASM hash is a fatal error to the source, any other a retriable one.
LoadFails(s) ==
  /\ s.phase = "saved" /\ ("load" \in Faults \/ Hosted(s.dst))
  /\ ckpt' = [ckpt EXCEPT ![s.dst] = NoCkpt]
  /\ \E phase \in {"retriable"} \cup (IF "load" \in Faults THEN {"fatal"} ELSE {}) : Answer(s, phase)
  /\ UNCHANGED <<up, inst, out, calls, accepted>>

\* A transfer on an abandoned stream need not reach the target.
DropTransfer(s) ==
  /\ s.phase = "transfer" /\ s \notin Awaited(s.src)
  /\ streams' = streams \ {s}
  /\ UNCHANGED <<up, inst, ckpt, out, calls, accepted>>

----------------------------------------------------------------------------
Loop(n) == \/ Tick(n) \/ RecoverLease(n) \/ SaveCheckpoint(n) \/ Shutdown(n)
           \/ StopNode(n) \/ Crash(n) \/ RunAgent(n) \/ StartNode(n)

Begin(n) == \/ \E t \in Nodes \ {n} : MigrateAgent(n, t)
            \/ \E ts \in TargetLists(n) : MigrateAgentWithRetry(n, ts)
            \/ \E t \in Nodes \ {n} : MigrateFromStorage(n, t)
            \/ MigrateWithoutCheckpoint(n)

Caller(n) == \/ SendFails(n) \/ SendTransfer(n) \/ BackoffOver(n)
             \/ BackoffCancelled(n) \/ ConfirmFailure(n) \/ ConfirmSuccess(n)
             \/ ConfirmLost(n)

Handler(s) == \/ RejectTransfer(s) \/ AcceptTransfer(s) \/ StartMigrated(s)
              \/ LoadFails(s) \/ DropTransfer(s)

Next == \/ \E n \in Nodes : Loop(n) \/ Begin(n) \/ Caller(n)
        \/ \E s \in streams : Handler(s)

Spec == Init /\ [][Next]_vars

\* A running call keeps going and a handler finishes: both are goroutines that
\* nothing blocks for ever (the handler's context ends after two minutes, the
\* backoff after MaxDelay, and the transport reports a broken stream).  The
\* loop, the operator and the failures owe nothing.
Serve(n) == \E s \in streams : s.dst = n /\ (AcceptTransfer(s) \/ StartMigrated(s) \/ LoadFails(s))

FairSpec == Spec /\ \A n \in Nodes : WF_vars(Caller(n)) /\ WF_vars(Serve(n))

----------------------------------------------------------------------------
Checkpoints == [major : Nat, gen : Nat, tick : Nat]
Instances == [state : States, major : Nat, gen : Nat, tick : Nat]

\* The type invariant.
TypeOK ==
  /\ up \in [Nodes -> BOOLEAN]
  /\ inst \in [Nodes -> Instances \cup {NoInst}]
  /\ ckpt \in [Nodes -> Checkpoints \cup {NoCkpt}]
  /\ \A n \in Nodes : out[n] # NoCall =>
       /\ out[n].call \in 1..calls /\ out[n].pkg \in Checkpoints
       /\ out[n].attempt \in 0..(MaxAttempts - 1)
       /\ Len(out[n].targets) > 0
       /\ out[n].phase \in {"dial", "sent", "backoff"}
  /\ \A s \in streams :
       /\ s.call \in 1..calls /\ s.src # s.dst /\ s.pkg \in Checkpoints
       /\ s.phase \in {"transfer", "saved", "ok", "fatal", "retriable"}
  /\ calls \in 0..MaxCalls
  /\ accepted \in [CallIds -> SUBSET Nodes]

Owners == {n \in Nodes : Hosted(n) /\ CanTick(inst[n].state)}

\* EI-1, the single-instance guarantee of MIGRATION_PROTOCOL.md: at most one
\* node may tick the agent.  It holds as long as no confirmation is lost and
\* no process is killed, through every refusal, retry, fallback, restart and
\* lease recovery.
AtMostOneOwner == Cardinality(Owners) <= 1

\* The newest state that some node has on disk: -1 if there is none.
Newest == Max({ckpt[n].tick : n \in Nodes})

\* What is durable stays durable: no step of a migration, successful or not,
\* loses the newest checkpoint (cleanupLocalAgent and deleteOrphanedCheckpoint
\* delete one only when another node has it).
DurableNeverRegresses == [][ Newest' >= Newest ]_vars

\* FS-2: one call of MigrateAgentWithRetry never starts the agent on two
\* targets, whatever fails; in doubt it stops instead of trying another.
OneTargetPerCall == \A c \in CallIds : Cardinality(accepted[c]) <= 1

\* RevertHandoff is safe, as its comment claims: when the source resumes
\* ticking, no target has started the agent for this call and no handler can
\* still start it.
RevertIsSafe ==
  [][ \A n \in Nodes :
        inst[n].state = "HANDOFF_INITIATED" /\ inst'[n].state = "ACTIVE_OWNER" =>
          /\ accepted[out[n].call] = {}
          /\ \A s \in streams' : s.call = out[n].call => Answered(s) ]_vars

\* MIGRATION_PROTOCOL.md, "on any error, agent stays on source node": no call
\* returns with the local lease still in HANDOFF_INITIATED, a state in which
\* the next handleTick ends the loop.
HandoffIsResolved ==
  \A n \in Nodes : inst[n].state = "HANDOFF_INITIATED" => out[n] # NoCall

\* Every migration call comes to an end: retries and targets run out, and an
\* answer or the loss of the stream ends each wait.
CallReturns == \A n \in Nodes : out[n] # NoCall ~> out[n] = NoCall

\* MIGRATION_PROTOCOL.md, "agent state is never lost": once some node has the
\* agent on disk, some node has it on disk.
AgentSurvives == [][ Newest >= 0 => Newest' >= 0 ]_vars
=============================================================================
