------------------------------ MODULE Deployer ------------------------------
(***************************************************************************)
(* An agent that acts on the world through its effect log: agents/deployer, *)
(* which pays a compute provider through wallet_pay and deploys itself with *)
(* the receipt, the provider (cmd/mockcloud), and the process that ticks    *)
(* and checkpoints the agent.                                               *)
(*                                                                          *)
(* A tick is atomic except around the two actions that the agent brackets   *)
(* with Begin and Confirm: there it is three steps, so that it can be cut   *)
(* off before the action, after it, and after its answer.  A killed process *)
(* falls back to the last checkpoint, which is taken between ticks.  A tick *)
(* that traps is saved as it stood, InFlight intents included; one that     *)
(* times out closes the module, cannot be saved, and is a kill.             *)
(*                                                                          *)
(* Data: money is counted in prices of one deployment, and the cost of      *)
(* ticks is left out (module AgentLife has it).  A receipt is its number.   *)
(***************************************************************************)
EXTENDS EffectLog, Naturals

CONSTANTS
  InitialBudget,  \* how many deployments the budget of the agent can pay
  Faults,         \* which failures can happen, a subset of FaultKinds
  MaxFaults,      \* bound on the number of failures
  MaxKeys         \* bound on the number of intents

\* crash: the process is killed, or a tick times out.  trap: agent_tick traps.
\* http: a request fails or its answer is lost.  refuse: wallet_pay refuses
\* the terms of the provider (cap, allowed recipients).
FaultKinds == {"crash", "trap", "http", "refuse"}

ASSUME DeployerAssumption ==
  /\ InitialBudget \in Nat /\ MaxFaults \in Nat /\ MaxKeys \in Nat
  /\ Faults \subseteq FaultKinds

VARIABLES
  pc,       \* "down", "idle" between ticks, or where the running tick is
  mem,      \* the agent, and its budget in the Instance
  disk,     \* the checkpoint: the same, as it was saved
  cloud,    \* cloud[d]: how often the provider was asked about deployment d
  keys,     \* number of intent ids drawn so far: they do not repeat
  issued,   \* number of receipts issued so far
  faults    \* faults[k]: number of failures of kind k so far

vars == <<pc, mem, disk, cloud, keys, issued, faults>>

PCs == {"down", "idle", "paying", "paid", "posting", "posted"}
Phases == {"checkBudget", "payProvider", "deploy", "monitor", "reconciling"}
Statuses == {"none", "pending", "provisioning", "running"}

\* The agent before its first tick.
Fresh == [phase |-> "checkBudget", deployment |-> 0, status |-> "none",
          totalPaid |-> 0, receipt |-> 0, budget |-> InitialBudget, effects |-> << >>]

Init ==
  /\ pc = "down" /\ mem = Fresh /\ disk = Fresh
  /\ cloud = << >> /\ keys = 0 /\ issued = 0
  /\ faults = [k \in FaultKinds |-> 0]

TotalFaults == FoldFunction(+, 0, faults)

\* One more failure of kind k.
Fault(k) ==
  /\ k \in Faults /\ TotalFaults < MaxFaults
  /\ faults' = [faults EXCEPT ![k] = @ + 1]

-----------------------------------------------------------------------------
(* The process *)

\* (mutant) the process keeps the budget of its flags.
RestoredFullBudget == [disk EXCEPT !.effects = Resumed(@), !.budget = InitialBudget]

\* LoadCheckpointFromStorage, agent_resume, Deployer.Unmarshal.
Restored == [disk EXCEPT !.effects = Resumed(@)]

Start ==
  /\ pc = "down"
  /\ pc' = "idle" /\ mem' = Restored
  /\ UNCHANGED <<disk, cloud, keys, issued, faults>>

\* The checkpoint ticker, and the save of an orderly shutdown.
Save ==
  /\ pc = "idle"
  /\ disk' = mem /\ pc' \in {"idle", "down"}
  /\ UNCHANGED <<mem, cloud, keys, issued, faults>>

Crash ==
  /\ pc # "down"
  /\ Fault("crash")
  /\ pc' = "down"
  /\ UNCHANGED <<mem, disk, cloud, keys, issued>>

-----------------------------------------------------------------------------
(* The provider *)

\* The status the provider gives at the n-th query.
StatusAt(n) == IF n <= 1 THEN "pending" ELSE IF n = 2 THEN "provisioning" ELSE "running"

\* A GET for deployment d is counted; past the third it changes nothing.
Queried(d) == [cloud EXCEPT ![d] = IF @ < 3 THEN @ + 1 ELSE @]

-----------------------------------------------------------------------------
(* Ticks that perform no bracketed action *)

\* The tick goes to its phase: nothing is Unresolved and nothing is Recorded.
AtPhase(phase) ==
  /\ pc = "idle" /\ mem.phase = phase
  /\ Unresolved(mem.effects) = << >> /\ InState(mem.effects, "Recorded") = << >>

\* A fresh 16-byte key; reconcilePayment looks at the parity of its first byte.
RecordIntent(data) ==
  /\ keys < MaxKeys
  /\ keys' = keys + 1
  /\ \E even \in BOOLEAN :
       mem' = [mem EXCEPT !.effects = Record(@, [n |-> keys, even |-> even], data)]

CheckBudget ==
  /\ AtPhase("checkBudget")
  /\ mem.deployment # 0 \/ mem.budget >= 1
  /\ mem' = [mem EXCEPT !.phase = IF mem.deployment # 0 THEN "monitor" ELSE "payProvider"]
  /\ UNCHANGED <<pc, disk, cloud, keys, issued, faults>>

\* The probe answers 402 with the terms.  If it fails, the tick does nothing.
PayProvider ==
  /\ AtPhase("payProvider")
  /\ RecordIntent([kind |-> "payment", receipt |-> 0])
  /\ UNCHANGED <<pc, disk, cloud, issued, faults>>

TickDeploy ==
  /\ AtPhase("deploy")
  /\ IF mem.receipt = 0
       THEN mem' = [mem EXCEPT !.phase = "payProvider"] /\ keys' = keys
       ELSE RecordIntent([kind |-> "deploy", receipt |-> mem.receipt])
  /\ UNCHANGED <<pc, disk, cloud, issued, faults>>

\* tickMonitor, one tick in three; the others change nothing.
Monitor ==
  /\ AtPhase("monitor")
  /\ IF mem.deployment = 0
       THEN mem' = [mem EXCEPT !.phase = "checkBudget"] /\ cloud' = cloud
       ELSE /\ cloud' = Queried(mem.deployment)
            /\ mem' = [mem EXCEPT !.status = StatusAt(cloud'[mem.deployment])]
  /\ UNCHANGED <<pc, disk, keys, issued, faults>>

\* The provider counts the query, the answer is lost.
MonitorFails ==
  /\ AtPhase("monitor") /\ mem.deployment # 0
  /\ Fault("http")
  /\ cloud' = Queried(mem.deployment)
  /\ UNCHANGED <<pc, mem, disk, keys, issued>>

\* reconcilePayment and reconcileDeploy of one intent; exists tells whether a
\* GET for the deployment is answered with 200.
Reconcile(m, intent, exists) ==
  CASE intent.data.kind = "payment" /\ intent.id.even ->
         [m EXCEPT !.totalPaid = @ + 1, !.effects = Confirm(@, intent.id)]
    [] intent.data.kind = "deploy" /\ m.deployment # 0 /\ exists ->
         [m EXCEPT !.effects = Confirm(@, intent.id)]
    [] OTHER -> [m EXCEPT !.effects = Compensate(@, intent.id)]

\* (mutant) the phase is not decided after reconciliation.
AfterReconcilingStuck(m) == [m EXCEPT !.phase = "reconciling", !.effects = Prune(@)]

AfterReconciling(m) ==
  [m EXCEPT !.phase = IF m.deployment # 0 THEN "monitor" ELSE "checkBudget",
            !.effects = Prune(@)]

\* The tick that finds Unresolved intents.
Reconciling(exists) ==
  LET open == Unresolved(mem.effects)
      asks == mem.deployment # 0 /\ \E i \in DOMAIN open : open[i].data.kind = "deploy"
  IN /\ pc = "idle" /\ open # << >>
     /\ IF exists THEN faults' = faults ELSE asks /\ Fault("http")
     /\ mem' = AfterReconciling(
                 FoldLeft(LAMBDA m, intent : Reconcile(m, intent, exists), mem, open))
     /\ cloud' = IF asks /\ exists THEN Queried(mem.deployment) ELSE cloud
     /\ UNCHANGED <<pc, disk, keys, issued>>

-----------------------------------------------------------------------------
(* executePayment and executeDeploy *)

\* The intent this tick has begun.
Begun == CHOOSE id \in {mem.effects[i].id : i \in DOMAIN mem.effects} :
           \E i \in DOMAIN mem.effects : mem.effects[i].id = id /\ mem.effects[i].state = "InFlight"

\* Tick with nothing Unresolved: the first Recorded intent is begun.
Begin(kind, at) ==
  LET recorded == InState(mem.effects, "Recorded")
  IN /\ pc = "idle" /\ Unresolved(mem.effects) = << >>
     /\ recorded # << >> /\ Head(recorded).data.kind = kind
     /\ mem' = [mem EXCEPT !.effects = BeginIntent(@, Head(recorded).id)]
     /\ pc' = at
     /\ UNCHANGED <<disk, cloud, keys, issued, faults>>

BeginPayment == Begin("payment", "paying")
BeginDeploy == Begin("deploy", "posting")

\* The action is known to have failed: Compensate and Prune.
Failed ==
  /\ mem' = [mem EXCEPT !.effects = Prune(Compensate(@, Begun))]
  /\ pc' = "idle"
  /\ UNCHANGED <<disk, cloud, keys, issued>>

\* registerPayment: the host deducts the budget and signs a receipt.
WalletPay ==
  /\ pc = "paying" /\ mem.budget >= 1
  /\ mem' = [mem EXCEPT !.budget = @ - 1]
  /\ issued' = issued + 1 /\ pc' = "paid"
  /\ UNCHANGED <<disk, cloud, keys, faults>>

WalletPayFails ==
  /\ pc = "paying"
  /\ IF mem.budget < 1 THEN faults' = faults ELSE Fault("refuse")
  /\ Failed

\* The request creates a deployment, whatever receipt it carries.
Post ==
  /\ pc = "posting"
  /\ cloud' = Append(cloud, 0) /\ pc' = "posted"
  /\ UNCHANGED <<mem, disk, keys, issued, faults>>

\* The request, or its answer, is lost: the agent cannot tell which.
PostFails ==
  /\ pc \in {"posting", "posted"}
  /\ Fault("http")
  /\ Failed

\* What the agent notes of the outcome before it confirms the intent.
NotedPayment == [mem EXCEPT !.totalPaid = @ + 1, !.receipt = issued]
NotedDeploy ==
  [mem EXCEPT !.deployment = Len(cloud), !.status = "pending", !.receipt = 0]

ConfirmPayment ==
  /\ pc = "paid"
  /\ mem' = [NotedPayment EXCEPT !.effects = Prune(Confirm(@, Begun)), !.phase = "deploy"]
  /\ pc' = "idle"
  /\ UNCHANGED <<disk, cloud, keys, issued, faults>>

\* (mutant) the deployment is confirmed and its id is not kept.
ConfirmDeployNoId ==
  /\ pc = "posted"
  /\ mem' = [NotedDeploy EXCEPT !.effects = Prune(Confirm(@, Begun)), !.phase = "monitor",
                                !.deployment = 0]
  /\ pc' = "idle"
  /\ UNCHANGED <<disk, cloud, keys, issued, faults>>

\* (mutant) the id of the next deployment is kept.
ConfirmDeployNextId ==
  /\ pc = "posted"
  /\ mem' = [NotedDeploy EXCEPT !.effects = Prune(Confirm(@, Begun)), !.phase = "monitor",
                                !.deployment = @ + 1]
  /\ pc' = "idle"
  /\ UNCHANGED <<disk, cloud, keys, issued, faults>>

ConfirmDeploy ==
  /\ pc = "posted"
  /\ mem' = [NotedDeploy EXCEPT !.effects = Prune(Confirm(@, Begun)), !.phase = "monitor"]
  /\ pc' = "idle"
  /\ UNCHANGED <<disk, cloud, keys, issued, faults>>

\* The tick traps between Begin and Confirm: the loop saves the agent as it
\* stands, before or after it noted the outcome, and returns.
Trap ==
  /\ pc \in {"paying", "paid", "posting", "posted"}
  /\ Fault("trap")
  /\ \/ disk' = mem
     \/ pc = "paid" /\ disk' = NotedPayment
     \/ pc = "posted" /\ disk' = NotedDeploy
  /\ pc' = "down" /\ mem' = disk'
  /\ UNCHANGED <<cloud, keys, issued>>

-----------------------------------------------------------------------------
Tick ==
  \/ CheckBudget \/ PayProvider \/ TickDeploy \/ Monitor \/ MonitorFails
  \/ \E exists \in BOOLEAN : Reconciling(exists)
  \/ BeginPayment \/ WalletPay \/ WalletPayFails \/ ConfirmPayment
  \/ BeginDeploy \/ Post \/ PostFails \/ ConfirmDeploy

Next == Start \/ Save \/ Crash \/ Trap \/ Tick

\* A process that is up ticks: the timer of runTickLoop fires, and every
\* request and every tick ends.
Spec == Init /\ [][Next]_vars /\ WF_vars(Tick)

-----------------------------------------------------------------------------
(* Properties *)

Ids == [n : 0..(MaxKeys - 1), even : BOOLEAN]
Intents == [id : Ids, state : IntentStates,
            data : [kind : {"payment", "deploy"}, receipt : 0..issued]]
Agents == [phase : Phases, deployment : 0..Len(cloud), status : Statuses,
           totalPaid : Nat, receipt : 0..issued, budget : 0..InitialBudget,
           effects : Seq(Intents)]

\* The state has its type; the agent and its checkpoint name only receipts that
\* were issued and deployments that the provider knows.
TypeOK ==
  /\ pc \in PCs /\ mem \in Agents /\ disk \in Agents
  /\ cloud \in Seq(0..3) /\ keys \in 0..MaxKeys /\ issued \in Nat
  /\ faults \in [FaultKinds -> Nat]

\* Between ticks (tickPayProvider, tickDeploy, executePayment, executeDeploy)
\* the agent holds at most one intent, never one that is InFlight or settled,
\* and a deployment it is about to request still has the receipt it recorded:
\* neither a failed action nor a crash leaves an intent behind.
OnePlanAtATime ==
  pc = "idle" =>
    /\ Len(mem.effects) <= 1
    /\ \A i \in DOMAIN mem.effects :
         LET intent == mem.effects[i]
         IN /\ intent.state \in {"Recorded", "Unresolved"}
            /\ intent.state = "Recorded" /\ intent.data.kind = "deploy" =>
                 intent.data.receipt = mem.receipt /\ mem.deployment = 0

\* Unless a tick trapped between Begin and Confirm, the agent's own account of
\* what it paid (TotalPaid) agrees with what the runtime took from its budget,
\* after any number of crashes: agent state and budget are one checkpoint.
LedgerAgrees ==
  faults["trap"] = 0 =>
    /\ pc \in {"idle", "posting", "posted"} => mem.totalPaid + mem.budget = InitialBudget
    /\ disk.totalPaid + disk.budget = InitialBudget

\* What failures cost: every receipt beyond the first is due to a crash or a
\* trap, every deployment beyond the first to one of those or to a lost answer
\* (executePayment, executeDeploy, reconcilePayment, reconcileDeploy).
WasteBounded ==
  /\ issued <= 1 + faults["crash"] + faults["trap"]
  /\ Len(cloud) <= 1 + faults["crash"] + faults["trap"] + faults["http"]

\* An agent whose process stays up in the end sees its deployment running
\* (tickMonitor), whatever failed before: no crash, trap, lost answer or refusal
\* leaves it in a phase it cannot leave.
EventuallyRunning ==
  <>[](pc # "down") => <>[](mem.status = "running")
=============================================================================
