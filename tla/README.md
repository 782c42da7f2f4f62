# Formal model of Igor

TLA+ modules, TLC runs and TLAPS proofs for Igor, a runtime for agents that are
WASM modules with a checkpoint, a budget, an identity and a history, and that
can move between nodes. Paths below are relative to the repository.

    tlc -config MigrationSafe.cfg MCMigration     # a run
    tlapm LeaseProofs.tla                         # a proof module

`PROJECT.json` lists the runs, the code each definition stands for, the mutants
that each property was shown to catch, the findings and the hazards.

## Inventory

| Component | State it keeps | Operations | What makes it correct |
|---|---|---|---|
| authority (`internal/authority`) | epoch (major, generation), expiry, one of five states | renew, validate, hand off, retire, revert, recover | epochs only advance; nobody but the active owner ticks; a lapsed lease comes back only under a new major version |
| lab tick loop (`cmd/igord-lab`, `internal/runner`) | the running instance, the timers | tick, periodic save, recovery, shutdown, command line migration | a tick runs under a live lease, from its check to its end |
| migration service (`internal/migration`) | `activeAgents`, running calls and handlers | `MigrateAgent`, `MigrateAgentWithRetry`, `handleIncomingMigration` | one owner; the agent is never lost; every call ends and leaves the lease in a usable state |
| agent instance (`internal/agent`) | tick number, budget, epoch cost, previous hash, receipts, replay window | tick, pay, save, load, create receipt | budget bounded below; the lineage never forks; receipts are contiguous and never bill twice |
| igord (`cmd/igord`) | the process | run, resume, verify, inspect | a restart continues the agent it stopped, on this machine or another |
| storage (`internal/storage`) | checkpoint, receipts, identity, history directory | save, load, delete, archive | old or new checkpoint after a crash; history agrees with the checkpoint |
| lineage and inspector (`pkg/lineage`, `internal/inspector`) | none | sign, hash, `VerifyChain` | the histories the program writes verify |
| receipts, settlement (`pkg/receipt`, `internal/settlement`) | none | sign, marshal, record | see the instance |
| event log, replay (`internal/eventlog`, `internal/replay`, the window in `internal/agent`) | the log of a tick, sealed logs, snapshots, `lastVerifiedTick` | record, seal, evict, replay a tick or a chain, compare, escalate | a tick is found wrong exactly when it cannot be reproduced; the evidence is there when it is needed |
| hostcalls (`internal/hostcall`) and their SDK wrappers | none of their own | observe, pay, request, repeat with a larger buffer | what is answered is recorded; a payment is deducted once |
| identity (`pkg/identity`) | the key file | load or generate | an agent keeps its key |
| liquidation watcher (`agents/liquidation`) | birth, last slot, extremes, first warning | tick, catch up | it knows what a watcher that never died would know |
| registry (`internal/registry`) | peer scores | record, select candidates | bad peers come last, known ones are never lost |
| effect log (`sdk/igor/effects.go`) | intents in five states | record, begin, confirm, resolve, (un)marshal | an action is not repeated because of a crash |
| manifest, pricing, p2p, config, SDK glue, simulator, timeline, other agents, mock services | little or none | | see the table of what is not modelled |

How they interact. The tick loop calls the instance and the lease on one
goroutine. Migration calls run on a goroutine of the program that hosts the
service, which does not tick the agent meanwhile; they read the checkpoint from
storage, send it over a libp2p stream, and wait for one confirmation message.
The target's handler runs on a goroutine of its own for each stream: it checks
the package, saves its checkpoint, loads the agent from storage, grants a lease
and registers the instance. The only lock is the one around `activeAgents`.

What is hard here: a confirmation that is lost after the transfer was sent; a
handler that works on the storage of a node that is itself migrating the agent;
a save that is three writes; a lease that lapses between check and use; loads
that fail and are taken for first starts; a log that is written by one set of
hostcalls and read by two others; a checkpoint read now and its replay data a
moment later; clocks that disagree between machines. `PROJECT.json` lists each
at its line.

## Modules

| Module | Models | Extends |
|---|---|---|
| `Authority` | epochs, states and the lease transitions that do not look at the clock, as operators | |
| `Lease` | one lease, the clock, and the tick loop around it | `Authority` |
| `Migration` | one agent on several nodes: loops, storage, calls, streams, handlers | `Authority` |
| `AgentLife` | one agent on one node: ticks, payments, the three steps of a save, crash, restart | |
| `EffectLog` | the SDK's log of intents, its methods as operators | |
| `Deployer` | an agent that pays and deploys through its effect log, the provider, the process around it | `EffectLog` |
| `EventLog` | the log of observations, its methods as operators | |
| `Hostcalls` | each hostcall, live, simulated and replayed, as an operator | |
| `Replay` | ticks that record, the replay window, the replay engine, self-verification, a migration's evidence, the simulator's check | `EventLog`, `Hostcalls` |
| `AtomicStore` | what `storage.Provider` promises of one file: the abstract specification | |
| `FSStorage` | the steps of `FSProvider` over a file system that can lose power | instantiates `AtomicStore` |
| `Continuity` | `igord run` and `igord resume` on several machines, the identity loader, the liquidation watcher | |
| `MCMigration`, `MCAgentLife`, `MCReplay`, `MCFSStorage`, `MCContinuity` | symmetry, constraint, view and structured constants for TLC | the module they name |
| `LeaseProofs`, `MigrationProofs`, `AgentLifeProofs`, `DeployerProofs`, `ReplayProofs`, `FSStorageProofs`, `ContinuityProofs` | theorems | the module they name |
| `ProofLemmas` | least and greatest elements of sets of integers, used by the proofs | |

### Lease

`lease` is `instance.Lease`, `pc` the place of the goroutine of `runLocalAgent`.
`handleTick` is three steps, because it reads the clock three times:
`Validate`/`RecoverLease`/`HaltOnLease` (`ValidateForTick` and its three
outcomes), `RenewAndTick` (`NeedsRenewal`, `Renew`, whose error is only logged)
and `TickDone`. `Pass` lets time go on between any two of them; `MaxStall` is
the longest delay between the check and the start of the tick, and a tick is
cut off after `TickTimeout`. `BeginMigration` and the four `Migration...` actions
are what a migration can leave on the lease.

### Migration

Per node `up`, `inst` (the entry of `activeAgents` with its lease), `ckpt` (the
checkpoint file) and `out` (the running call). `streams` holds one record per
migration stream: the phase of its handler (`transfer`, `saved`) or its answer
(`ok`, `fatal`, `retriable`, the two kinds `IsRetriable` tells apart). An agent's
state is the number of ticks behind it.

The handler is two steps, the save of the checkpoint and everything after it,
since the second reads the file the first wrote and another handler may write
it in between. A call is `dial`, `sent`, `backoff`; `AfterFailure` is the end of
the retry loop. `RunAgent` is `--run-agent`, `MigrateFromStorage` is
`--migrate-agent`, `StartNode` a node with neither.

`igord-lab` starts no loop for an agent that arrives; a program that hosts the
service ticks what `GetActiveInstance` returns (as
`agents/research/reconciliation/cmd/demo` does). The model's loop is that one:
it ticks any registered instance.

Three constants say what the environment may do. `Faults` is the set of failures
that can happen. `Simple` enables `MigrateAgent` beside the retrying call.
`Overlap` lets somebody migrate the agent to a node whose own migration of it is
still running.

### AgentLife

`mem` is the `Instance`, `disk` the checkpoint file, `receipts` and `history` the
other two things a save writes. `Save`, `Archive`, `SaveReceipts` are the three
durable steps of `SaveCheckpointToStorage`, with a crash or a failure possible
at each. A content hash is represented by what it commits to: the sequence of
the checkpoint and all its ancestors, so that "the previous hash of x is the
hash of y" reads `Front(x) = y` and an ancestor is a prefix. `Readable` holds the
one parser check that the program's own files can fail, the negative budget; the
others (WASM hash, signature) are the fault `load`.

`Signing` is TRUE for a lab node, which creates receipts, and FALSE for `igord`,
which passes no signing key.

### EffectLog and Deployer

`EffectLog` holds the methods of `sdk/igor/effects.go` as operators on a sequence
of intents; `Resumed` is `Marshal` followed by `Unmarshal`, with the resume rule
(InFlight becomes Unresolved). `Deployer` is its client `agents/deployer`: `mem` is
the agent and its budget, `disk` the checkpoint, `cloud` the deployments of
`cmd/mockcloud`. A tick is one step, except around `wallet_pay` and the deploy
request, where it is begin, action, confirm, so that it can be cut off before
and after the action. The process can be killed at any time (`Crash`, back to the
last `Save`), and a tick can trap (`Trap`), after which `runTickLoop` saves the
agent as it stands: that is the one way an InFlight intent gets into a
checkpoint. A trap is allowed at any point between begin and confirm, which is
more than a given build may show. Money is counted in deployments; the parity of
the key, by which `reconcilePayment` simulates a settlement check, is drawn with
the key. A provider that restarts and forgets its deployments is left out.

### EventLog, Hostcalls and Replay

The agent is an unknown program. A tick takes a state through a sequence of
hostcalls to `Run(state, replies, hidden)`. A state is the sequence of what the
ticks behind it saw, so that two ticks end in the same state only when they
started in the same one and saw the same replies;
`hidden` stands for whatever a tick may use that `agent_checkpoint` does not save.
The runtime sees neither the calls nor the flag: they are ghosts of a snapshot,
there for replay to repeat the calls.

`Hostcalls` has each hostcall live and replayed. The live one yields the reply,
the entry recorded (none on a refusal) and the amount deducted; the replaying one
takes an iterator over the tick log. Which live ones an agent finds depends on its
host (`HostModule`), and an agent that imports another is not instantiated: an
instance has all that its manifest declares; the simulator builds a registry
without wallet, pricing and payment state (`sim`), or registers its own
deterministic hostcalls (`det`), which have neither `http` nor `x402` and whose
`wallet_receipt` records an empty entry and answers -1. The sandbox of the replay engine has no `http`, and
the two copies of the replaying hostcalls in `engine.go` (for one tick and for a
chain) are two sets of operators. The SDK's repetition of a call whose answer did
not fit is part of `WalletPay` and `HTTPRequest`.

`Replay` is the life of an instance: `TickBegin`, hostcalls, `TickDone` (seal,
snapshot, eviction, the counters of `handleTick`) or `TickFails`; `VerifyNextTick`
with `HandleDivergenceAction`; `Restart`. `PackCheckpoint`, `PackReplayData` and
`verifyMigrationReplay` are the three moments of a migration's evidence, and the
loop runs between them. `SimTickDone` is the simulator in either mode, which
replays at once; `ObserveSim` is a call of its deterministic hostcalls.
`cfg` is chosen in `Init`: who hosts the agent, the policy, the interval and the
hostcalls the agent is built with.

### AtomicStore and FSStorage

`FSStorage` is one file of an agent, of a kind chosen in `Init` (checkpoint,
receipts, identity: the three copies of the same code). Directory entries name
inodes; a descriptor follows the inode. A save is call, `Create`, two `Write`s,
`Sync`, `Rename`, and for a checkpoint `Archive` (the `os.Stat`), `OpenHistory` and
two `Fill`s; each may fail, with the deferred removal as a step of its own. Nothing
in the code keeps a second save of the file out. `OneSaver` is the discipline that
callers may or may not keep: a tick loop does, two handlers of transfers of the
same agent do not. `Kill` ends the process between
any two steps. `PowerLoss` also loses unsynced chunks and directory entries that
have not been written back: the code syncs files, never the directory. The file
system is external and modelled by what the code relies on.

`AtomicStore` is the promise: a call takes effect at one moment or not at all and
its answer says which, a load is a read of one moment, a crash leaves `cur` or
goes back to `durable`. Calls of several writers may overlap in it, as the
interface says. `FSStorage` implements it under `OneSaver` only. The mapping reads `cur` off the inode the path names and
`durable` off the one it names on disk; a load takes effect when it opens the file.

### Continuity

Machines have a checkpoint file, an identity file, a process and a clock of their
own (`Skew`). `runStandalone` is a launch that restores the stored checkpoint if it
is readable (`Launch`), or one whose load failed over a readable file (`LaunchFresh`:
a read error, another WASM hash, a trap in `agent_resume`; the fault `load`), which
the code takes for a first start; the ghost `dropped` remembers that file. `igord
resume` is `Stage`, which writes
the operator's file over the stored checkpoint, and then `resumeFromCheckpoint` or
`ResumeFails`. `LoadOrGenerate` takes the key from the directory. A checkpoint
holds the key that signed it and the watcher. The watcher's `Tick` is complete:
first tick, gap, catch-up slot by slot, the current slot, and the wrap of a slot
computed from a clock before the birth. Time is counted in slots; a gap of more
than `MaxGap` slots does not end before the tick timeout, which closes the module
and with it the last attempt to save. Budget and history are `AgentLife`'s.

## Runs

| Run | Bounds | Shows |
|---|---|---|
| `lease` | duration 6, renewal at 3, grace 1, tick 2, stall 1, clock 24 | `TickCovered`, `TickOnlyAsOwner`, `EpochAdvances`, `LapsedNeedsNewMajor`; the clock reaches four leases in a row, so renewal, lapse, recovery and migration meet in every order |
| `migration_safe` | 3 nodes, 2 calls, 2 ticks, 2 attempts, faults connect, reject, load | `AtMostOneOwner` and `DurableNeverRegresses` as long as every answer arrives and no process is killed |
| `migration_faults` | 3 nodes, 2 calls, 2 attempts, every fault, overlapping migrations, fairness | `OneTargetPerCall`, `HandoffIsResolved`, `RevertIsSafe`, and that every call returns (`CallReturns`) |
| `agent_life` | budget 3, costs to 2, payments to 1, 3 ticks, 4 saves, every fault | `BudgetFloor`, `LineageIsMonotone`, `HistoryIsAncestry`, `ReceiptsContiguous`, `NeverOverbilled`, `LineageNeverForks` |
| `deployer` | budget for 3 deployments, 2 failures of any kind, 7 intents, fairness | `OnePlanAtATime`, `LedgerAgrees`, `WasteBounded`, and `EventuallyRunning` |
| `replay` | 5 configurations (3 of the lab, the simulator live and deterministic), 3 ticks, 2 calls a tick, window and log of 2, 1 odd event, 1 restart | `VerdictIsExact`, `AdmissionIsExact`, `WindowIsRecent`, `KeepsUp`, `ChainIsExact`, `ChargedOnce`, `FlaggedAgentStops` |
| `storage` | 1 writer, 1 reader, 2 values of one tick, 3 inodes, one save at a time | `Atomic` (the refinement of `AtomicStore`), `LoadIsWhole`, `HistoryWasSaved`, `HistoryIsWriteOnce` |
| `continuity` | 2 machines, clocks one slot apart, 4 slots, 2 starts, kills, failed saves and loads, torn copies | `NothingMissed`, `KnowledgeGrows`, `DirectoryKeepsIdentity` |
| `migration_ambiguous` | 2 nodes, 1 call, fault stream | `AtMostOneOwner` fails |
| `migration_return` | 2 nodes, 2 overlapping calls, no fault | `AgentSurvives` fails |
| `agent_budget` | budget 3, costs to 2, no fault | `BudgetNeverCreated` fails |
| `resume_identity` | 2 machines, 2 starts, copies of the checkpoint | `SameIdentity` fails |

Why the bounds are enough. Three nodes give a source, a target and a fallback;
two calls give a migration and one that follows or overlaps it; two attempts
give a first and a last one. Two ticks tell a stale checkpoint from a fresh one.
In `agent_life` three ticks and four saves hold a restart in the middle of a
lineage with a receipt before and after it, and the budget of 3 runs out in two
ticks, below zero or exactly at it. In `deployer` two failures are a failure and
another one while the agent recovers from it; a failure costs at most two
intents and one payment, so that 7 intents and a budget of 3 are never what
stops the agent.

In `replay` a window of two and three ticks make an eviction, two calls a tick tell
the entries of a call from those of the next, and one odd event (a refusal, an
answer that does not fit, a hidden input, a trap) is enough to make one tick
irreproducible among good ones. In `storage` two values of the same tick are the
two lives of a tick, three inodes are the current file, the one on disk and the
temp file or the one a reader holds; under `OneSaver` a second writer would add only
its last value and answer, and the proofs cover any number. In `continuity` the curve rises, falls below
the threshold and recovers in three slots, so that a gap can hide the breach; two
starts are a run and a restart, or a run and a resume elsewhere, and a clock one
slot behind is before the birth of an agent that was just born.

`storage` uses the symmetry of inodes and values, and a view that leaves out what
a free inode still holds. `migration_safe` uses the symmetry of the nodes other than the first; it checks
no liveness. `agent_life` has the constraint `FirstLife`: once a start has set a
stored checkpoint aside (`forgotten`), the state is checked and not continued,
because from there on a second agent lives over the files of the first, which
the properties do not speak of.

All runs but `storage` switch deadlock checking off: agents stop, budgets run out,
and the bounds end every behaviour. In `storage` nothing is bounded and some call
is always possible.

Fairness. `FairSpec` assumes weak fairness of the running calls (`Caller`) and of
the handlers (`Serve`), and of nothing else: no tick, no restart, no operator, no
failure has to happen. A call is a goroutine whose waits all end (a dial or a
stream reports its failure, a backoff is at most `MaxDelay`), a handler one whose
context ends after two minutes. `Deployer` assumes weak fairness of `Tick`: the
timer of `runTickLoop` is set again after every tick, and requests and ticks have
timeouts. No restart is assumed: `EventuallyRunning` speaks of the behaviours in
which the process stays up in the end.

### Findings

1. *Two owners after a lost confirmation* (`migration_ambiguous`). The source
   sets RECOVERY_REQUIRED as the migration documents ask, but `handleTick`
   answers that state with `AttemptLeaseRecovery`, and `Recover` consults nobody.
2. *A migration back, overlapping the migration out, loses the agent*
   (`migration_return`). `finalizeMigration` protects the registered instance by
   compare-and-delete, and deletes the checkpoint unconditionally.
3. *An exhausted budget is refilled by a restart* (`agent_budget`).
4. *A resumed agent changes its identity* (`resume_identity`). `igord resume` takes
   the key from the local directory or makes a new one; the key in the
   checkpoint's header is not looked at. `scripts/demo-liquidation.sh` copies the
   identity file as well, and then the agent keeps its key
   (`DirectoryKeepsIdentity`).

Six differences between documents and code are in the models as what the code
does, and the properties of the passing runs are stated around them.

- *What is recorded is not always enough to replay a tick* (CE-3). A refused
  hostcall leaves no entry, a payment that is repeated consumes its entry at the
  size hint, and the sandbox has no `http`. `VerdictIsExact` says which ticks pass.
- *A correct history does not always verify.* Two saves at one tick are chained,
  and the history keeps the first: `HistoryIsAncestry` says exactly which
  directories `VerifyChain` accepts.
- *A crash in the middle of an action is not remembered.* Begin, action and confirm
  are one tick and checkpoints are taken between ticks: the resume rule of the
  effect log applies after a trap, never after a kill. `WasteBounded` says what
  that costs.
- *A failed load costs the stored agent.* `runStandalone` logs "No existing checkpoint,
  starting fresh" for every error of the load (a read error, another WASM hash, a
  trap in `agent_resume`) and starts a new agent; its first save replaces a file in
  good order, against RE-2 ("Agent state survives any shutdown or migration",
  `docs/enforcement/RUNTIME_ENFORCEMENT_INVARIANTS.md:52`). `KnowledgeGrows` says
  that this is the only way: it excepts the one file that the process failed to load
  (`dropped`) and holds again from that save on. Without the exception TLC has a
  counterexample of five steps.
- *Two goroutines may not save one file at once*, against `provider.go:23` ("must be
  safe for concurrent use"). They share the temp path: the second truncates what the
  first has written and the first renames it, so that the path names a part or a
  mixture. The handler of an incoming migration saves on a goroutine of its own for
  each stream (`service.go:642`). With `OneSaver = FALSE` and two writers `Atomic` and
  `LoadIsWhole` fail; they are claimed, checked and proved under `OneSaver`.
- *The deterministic simulator fails a correct agent that asks for a receipt.* Its
  `wallet_receipt` records an empty entry and answers -1; replay answers the entry
  with 0. `VerdictIsExact` counts such a tick among those that cannot be reproduced.

Seen in the models and claimed by no property: the package of a migration carries
the epoch of the stored checkpoint, so the target's epoch need not supersede one
that the source recovered, or was granted afresh at (0,0) by a restart;
`MigrateAgent`, unlike the retrying call, does not revert the handoff when it fails
(`HandoffIsResolved` is checked for the retrying call).

Met while reading and not checked by a run: a failed `Renew` is logged and the
tick runs; a failed deletion of the source's checkpoint is logged although the
comment of `cleanupLocalAgent` calls it fatal; a crash between checkpoint and
receipts leaves ticks that a later receipt covers but whose cost it lacks; after
a failed `CreateReceipt` the previous receipt is settled again; a history file
torn by a crash is skipped by later saves because it exists; `--budget` of
`igord resume` is overwritten by the checkpoint's budget; an interval that was
intensified stays so until the process ends; an HTTP request whose answer did not
fit is sent a second time.

## Proofs

Every invariant and every action property of the passing runs is a theorem, for
all values of the constants the `ASSUME`s admit. `PROJECT.json` lists them. Each
proof module defines an inductive invariant, proves that `Init` implies it and
that each action keeps it (one lemma or step per action), and derives the
properties of the run from it. The invariants were checked with TLC on the run's
instance before they were proved.

| Module | Inductive invariant | Extra hypotheses |
|---|---|---|
| `LeaseProofs` | `TypeOK`, `TickInv` | `TickFitsInWindow` for `TickIsCovered` |
| `MigrationProofs` | `CallInv`; with `Retrying`; `HolderInv` | none; `~Simple`; `Calm` |
| `AgentLifeProofs` | `TypeOK`, `ChainInv`, `LineageInv`, `BillInv`, `HistInv` | none |
| `DeployerProofs` | `TypeOK /\ PlanInv /\ LedgerInv /\ WasteInv` | none |
| `ReplayProofs` | `Inv` | none |
| `FSStorageProofs` | `FSInv` | `OneSaver` |
| `ContinuityProofs` | `ContInv`; `IdentInv` | `"identity" \notin Faults` for `IdentityKept` |

The runs check the same properties under the same hypotheses.

`LeaseProofs` covers every configuration `LeaseConfig.Validate` accepts
(`LeaseConfigValid`) and every bound. `TickAsOwner` and `TickIsCovered` rest on
`TickInv`, the strengthening of `TickCovered`: it says what the check of the lease
leaves behind for the two steps that follow, namely that in `validated` and in
`ticking` the clock is within the allowed delay of `since`, and that a lease that
was not renewed has more than the renewal window left from the time it was looked
at. `TickIsCovered` assumes `TickFitsInWindow`
(`MaxStall + TickTimeout <= RenewalThreshold`): the code does not enforce it, the
defaults satisfy it. `EpochOnlyAdvances` and `LapsedLeaseNeedsRecovery` are action
properties, proved action by action from the lemmas on `Renew` and `Recover`.

`MigrationProofs` has two parts. The first holds whatever fails, for any set of
nodes, any number of calls and with overlapping migrations. `CallInv` says that a
call has at most one stream, on which its caller waits, and that once a call has
started the agent somewhere none of its handlers can start it again (`Settled`):
`OneTarget` and `RevertSafe` follow. `HandoffResolved` assumes `~Simple`, because
`MigrateAgent` alone returns without reverting the handoff (see the findings). The
second part assumes `Calm`: connections, checks and loads may fail, no answer is
lost, no process is killed, no deletion fails, and nobody migrates the agent to a
node that is still migrating it. These are exactly the conditions of the run
`migration_safe`; without them `migration_ambiguous` and `migration_return` are
counterexamples. `HolderInv` then says that at most one node holds the agent, in
memory or on disk for its next start (`OneHolder`), where a node stops holding it
when the target has accepted, before it has read the answer; that no stream is
without its caller (`Paired`, `Waiting`); and that what a node is about to delete
the holder has (`Kept`). `SingleOwner` and `DurableKept` follow.

`AgentLifeProofs` covers all budgets, costs, payments, fault sets and bounds.
`LineageNeverForks` speaks of the disk, and needs to know what the next save will
be chained to: `ChainInv` says that, while the process runs and no checkpoint was
set aside, the stored checkpoint is the previous one in memory or an ancestor of
it. A failed save moves the memory on and not the disk, a crash drops the memory
and a restart takes it from the disk again; all three keep it. `LineageOrdered`
adds that ticks and budgets are ordered along what the memory would write;
`ReceiptsInOrder` and `BillsCovered` relate the receipts in memory and on disk to
the checkpoint they were created for, with the sum over a list of receipts
reasoned about one receipt at a time; `HistoryVerified` compares the verifier,
which looks at neighbours, with the set of all ancestors.

`DeployerProofs` covers any budget, number of intents and number of failures.
`PlanInv` says, for each place a tick can be cut off, which intents exist and what
they were recorded with, in memory and in the checkpoint. `LedgerInv` does the same
for the amounts, counting the payment that is made and not yet confirmed.
`WasteInv` is an account: while the agent, or after a kill its checkpoint, has
still to pay, every receipt so far is due to a failure, and so is every deployment
while it has still to deploy; otherwise there may be one more.

`ReplayProofs` covers any configurations, any number of hostcalls and ticks, any
window size and any bound on the history. `TickInv` holds while a tick runs: every
call so far left its entry in the open log, or the log is short for good.
`WindowInv` says that each snapshot is that of a tick that took place and that the
window, in its order, is part of the history of the agent's present state, which
is kept because `EvictIdx` never names the newest snapshot. The two lemmas at the
centre are about the replay engine: `MatchesExact` (a replayed tick ends in the
recorded state exactly when it is reproducible, `Fine`), by following the iterator
through the calls, and `ChainExact`, the same for a stretch of ticks. `PackageInv`
says that a package's data is of the tick that led to the packed state.
`FlaggedStops` follows from `VerdictInv`, which keeps a flagged loop stopped.

`FSStorageProofs` covers any number of writers, readers, values and inodes, under
`OneSaver`: the callers save one thing of an agent at a time, as the tick loop does.
Nothing is proved of overlapping saves, for which the claims are false.
`SolidInv` is the heart of `FSInv`: every inode that the path, its entry on disk or
an open reader names is whole and synced, which is why neither a late read nor a
power loss can show a part of a value. It is kept because `TempInv` holds (the temp
file is none of those inodes, and only its writer has it open) and because
`WriteInv` says how much of the value the temp file has when it is renamed.
`CallInv` is the callers' discipline, `FillInv` the same argument for the history
file. `OneSaverImplementsStore` is the refinement: a save takes effect at its rename, a
load when it opens the file, an error is answered only before the rename; the
steps between change only inodes the abstract store does not see
(`WritesAreUnseen`), and a crash maps to `Crash` because all it sees is synced.

`ContinuityProofs` covers any machines, price curve, clock skews and number of
starts. `ContInv` says that every watcher, running, stored or in the operator's
hands, knows what one that never died would know (`SoundInv`), and that a running
one is not behind what its machine has stored (`GrowInv`), unless that is the file
it failed to load: after its first save the two agree again. `NoSlotMissed` needs
that the catch-up loop of a tick visits every slot between the last one and the
current one, and that extremes and first breach over a longer stretch are those of
the two parts. It uses that `Word` exceeds all slot numbers by enough that a clock
before the birth wraps to a gap longer than `MaxGap`; with `Word` 2^64 any clock
in seconds leaves that room. `IdentityKept` assumes that the identity file can be
read, as the loader generates a new key over one that cannot.

Facts about data of any size (walks of the replay engine, sums of receipts, the
catch-up loop) are proved with recursive functions and `LeastNat`: if the fact
failed for some length there would be a least one, and the step before it gives
the contradiction.

Only model-checked: `CallReturns` and `EventuallyRunning`, since liveness under
fairness is beyond the prover, and the four violations.

## Not modelled

WASM execution, cryptography and byte formats; the checks of a package other than
its replay data (a refusal is a choice, fatal or retriable); libp2p; configuration, logging,
formatting; the paywall, and the demonstration agents other than the deployer and
the liquidation watcher. A load that fails after tick and budget were restored
(`agent_resume` traps) is not told apart from one that fails before. In `Migration` a lab node is started with the agent only where a
checkpoint is stored, and its load succeeds: without one, or after a failed load,
`initLocalAgent` has a new agent, which is the subject of `AgentLife` and of
`Continuity`. `ConfirmSuccess` takes the removal of the instance and the deletion of
the checkpoint together; a kill between them leaves what a failed deletion leaves,
and what an incoming handler can lose there `migration_return` shows. Lists of
targets repeat nodes, but are no longer than the number of other nodes. The receipts
and the identity that travel with a migration are left out of `Migration`. The
seeded clock of the simulator, and the one module name "igor" that the host
modules of two agents on one engine share, are left out.

## Plan

1. `Registry`: scores and the candidates given to `MigrateAgentWithRetry`; the
   other checks of an incoming package as operators.
2. A load that fails half-way, in `AgentLife`.
3. The part of `Calm` that each ownership theorem really needs: which single
   fault each of them survives.
