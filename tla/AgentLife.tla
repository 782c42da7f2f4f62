----------------------------- MODULE AgentLife -----------------------------
(***************************************************************************)
(* The life of one agent on one node: internal/agent/instance.go driven by  *)
(* the tick loop of igord (runTickLoop), with its checkpoint, its receipts  *)
(* and its checkpoint history on disk, through crashes and restarts.        *)
(*                                                                          *)
(* SaveCheckpointToStorage is three durable writes in a row: the rename of  *)
(* the checkpoint, the copy into the history directory, the receipts.  The  *)
(* process can be killed between any two of them.                           *)
(*                                                                          *)
(* Data: the content hash of a checkpoint is collision free, so it is       *)
(* represented by what it commits to, the lineage: the sequence of (tick,   *)
(* budget) pairs of the checkpoint and all its ancestors.  The budget is a  *)
(* small integer; a tick costs anything up to MaxCost, as the elapsed time  *)
(* does in the code, and may pay up to MaxPayment through wallet_pay.       *)
(***************************************************************************)
EXTENDS Integers, Sequences, SequencesExt

CONSTANTS
  InitialBudget,  \* the --budget flag
  MaxCost,        \* what one tick may cost: its timeout times the price
  MaxPayment,     \* what one tick may pay
  Signing,        \* TRUE if the node signs receipts (igord-lab), FALSE in igord
  Faults,         \* which failures can happen, a subset of FaultKinds
  MaxTick,        \* bound on ticks
  MaxSaves        \* bound on the length of a lineage

\* crash: the process is killed.  trap: a tick fails.  save, archive,
\* receipts: the write fails and the error is logged.  load: the stored
\* checkpoint is refused for another reason than its budget (hash of the
\* binary, signature).
FaultKinds == {"crash", "trap", "save", "archive", "receipts", "load"}

ASSUME LifeAssumption ==
  /\ InitialBudget \in Nat
  /\ MaxCost \in Nat /\ MaxPayment \in Nat
  /\ Signing \in BOOLEAN /\ Faults \subseteq FaultKinds
  /\ MaxTick \in Nat /\ MaxSaves \in Nat

VARIABLES
  pc,         \* where the process is
  ending,     \* the running save is the last act of the process
  mem,        \* the Instance
  disk,       \* the stored checkpoint: its lineage, empty if there is none
  receipts,   \* the stored receipts
  history,    \* the history directory: a function from ticks to lineages
  forgotten   \* history: a start has set the stored checkpoint aside

vars == <<pc, ending, mem, disk, receipts, history, forgotten>>

PCs == {"down", "loop", "failing", "saved", "archived"}

\* A lineage is named by its last checkpoint.
TickOf(lineage) == Last(lineage).tick
BudgetOf(lineage) == Last(lineage).budget

\* A checkpoint is there and ParseCheckpointHeader accepts it: it refuses a
\* negative budget.
Readable(lineage) == lineage # << >> /\ BudgetOf(lineage) >= 0

\* loadAgent: the Instance before any checkpoint is loaded.
FreshInstance ==
  [tick |-> 0, budget |-> InitialBudget, epochCost |-> 0, prev |-> << >>,
   receipts |-> << >>, lastReceiptTick |-> 0]

\* (mutant) the last receipt's epoch is not restored.
RestoredForgettingEpoch ==
  [tick |-> TickOf(disk), budget |-> BudgetOf(disk), epochCost |-> 0,
   prev |-> disk, receipts |-> receipts, lastReceiptTick |-> 0]

\* (mutant) the budget of the flag is kept.
RestoredFullBudget ==
  [tick |-> TickOf(disk), budget |-> InitialBudget, epochCost |-> 0,
   prev |-> disk, receipts |-> receipts,
   lastReceiptTick |-> IF receipts = << >> THEN 0 ELSE Last(receipts).end]

\* (mutant) PrevCheckpointHash is not restored: the next save is a genesis.
RestoredUnchained ==
  [tick |-> TickOf(disk), budget |-> BudgetOf(disk), epochCost |-> 0,
   prev |-> << >>, receipts |-> receipts,
   lastReceiptTick |-> IF receipts = << >> THEN 0 ELSE Last(receipts).end]

\* LoadCheckpointFromStorage returns nil: budget, tick and PrevCheckpointHash
\* from the checkpoint, the receipts from their file.
Restored ==
  [tick |-> TickOf(disk), budget |-> BudgetOf(disk), epochCost |-> 0,
   prev |-> disk, receipts |-> receipts,
   lastReceiptTick |-> IF receipts = << >> THEN 0 ELSE Last(receipts).end]

----------------------------------------------------------------------------
Init ==
  /\ pc = "down" /\ ending = FALSE
  /\ mem = FreshInstance
  /\ disk = << >> /\ receipts = << >> /\ history = << >>
  /\ forgotten = FALSE

\* runStandalone with a checkpoint that loads.
StartResumed ==
  /\ pc = "down" /\ Readable(disk)
  /\ mem' = Restored
  /\ pc' = "loop"
  /\ UNCHANGED <<ending, disk, receipts, history, forgotten>>

\* runStandalone without a checkpoint, or with one that does not load: the
\* error is logged and the agent starts afresh, with the budget of the flag.
StartFresh ==
  /\ pc = "down"
  /\ ~Readable(disk) \/ "load" \in Faults
  /\ mem' = FreshInstance
  /\ forgotten' = (forgotten \/ disk # << >>)
  /\ pc' = "loop"
  /\ UNCHANGED <<ending, disk, receipts, history>>

Crash ==
  /\ "crash" \in Faults /\ pc # "down"
  /\ pc' = "down" /\ ending' = FALSE /\ mem' = FreshInstance
  /\ UNCHANGED <<disk, receipts, history, forgotten>>

----------------------------------------------------------------------------
\* (mutant) Tick without the check of the budget.
TickUnchecked(pay, cost) ==
  /\ pc = "loop" /\ mem.tick < MaxTick
  /\ pay <= mem.budget \/ pay = 0
  /\ mem' = [mem EXCEPT !.tick = @ + 1, !.budget = @ - pay - cost,
                        !.epochCost = @ + cost]
  /\ UNCHANGED <<pc, ending, disk, receipts, history, forgotten>>

\* Instance.Tick returns nil.  DeductBudget refuses a payment above the
\* budget; the cost of the tick is deducted afterwards, whatever is left.
Tick(pay, cost) ==
  /\ pc = "loop" /\ mem.budget > 0 /\ mem.tick < MaxTick
  /\ pay <= mem.budget
  /\ mem' = [mem EXCEPT !.tick = @ + 1, !.budget = @ - pay - cost,
                        !.epochCost = @ + cost]
  /\ UNCHANGED <<pc, ending, disk, receipts, history, forgotten>>

\* (mutant) what a failed tick paid is taken off the cost of the epoch.
TickFailsRefunded(pay) ==
  /\ "trap" \in Faults
  /\ pc = "loop" /\ mem.budget > 0 /\ mem.tick < MaxTick
  /\ pay <= mem.budget
  /\ mem' = [mem EXCEPT !.tick = @ + 1, !.budget = @ - pay, !.epochCost = @ - pay]
  /\ pc' = "failing"
  /\ UNCHANGED <<ending, disk, receipts, history, forgotten>>

\* agent_tick traps or times out: the tick is counted and what it paid is
\* gone, but its cost is not charged.  The loop saves and returns.
TickFails(pay) ==
  /\ "trap" \in Faults
  /\ pc = "loop" /\ mem.budget > 0 /\ mem.tick < MaxTick
  /\ pay <= mem.budget
  /\ mem' = [mem EXCEPT !.tick = @ + 1, !.budget = @ - pay]
  /\ pc' = "failing"
  /\ UNCHANGED <<ending, disk, receipts, history, forgotten>>

\* Tick returns "budget exhausted" before it counts the tick; a signal has
\* the same effect: the loop saves and returns.
Stop ==
  /\ pc = "loop"
  /\ pc' = "failing"
  /\ UNCHANGED <<ending, mem, disk, receipts, history, forgotten>>

----------------------------------------------------------------------------
\* SaveCheckpointToStorage, from the periodic ticker or on the way out.

\* buildCheckpoint: the header, signed and chained to PrevCheckpointHash.
Built == Append(mem.prev, [tick |-> mem.tick, budget |-> mem.budget])

Saving == pc \in {"loop", "failing"} /\ Len(mem.prev) < MaxSaves

\* The caller goes on with the Instance i: the loop, or the end of the process.
AfterSave(last, i) ==
  /\ pc' = IF last THEN "down" ELSE "loop"
  /\ mem' = IF last THEN FreshInstance ELSE i
  /\ ending' = FALSE

\* (mutant) the new checkpoint is not chained to the one it replaces.
SaveUnchained ==
  /\ Saving
  /\ disk' = <<[tick |-> mem.tick, budget |-> mem.budget]>>
  /\ mem' = [mem EXCEPT !.prev = disk']
  /\ pc' = "saved" /\ ending' = (pc = "failing")
  /\ UNCHANGED <<receipts, history, forgotten>>

\* FSProvider.SaveCheckpoint up to the rename; PrevCheckpointHash moved on
\* when the checkpoint was built.
Save ==
  /\ Saving
  /\ disk' = Built
  /\ mem' = [mem EXCEPT !.prev = Built]
  /\ pc' = "saved" /\ ending' = (pc = "failing")
  /\ UNCHANGED <<receipts, history, forgotten>>

\* The save fails: in agent_checkpoint, before the checkpoint is built, or in
\* the storage, after it.
SaveFails ==
  /\ "save" \in Faults /\ Saving
  /\ \E i \in {mem, [mem EXCEPT !.prev = Built]} : AfterSave(pc = "failing", i)
  /\ UNCHANGED <<disk, receipts, history, forgotten>>

\* archiveCheckpoint: a file per tick, never overwritten.
Archive ==
  /\ pc = "saved"
  /\ \/ /\ mem.tick \notin DOMAIN history
        /\ history' = [t \in DOMAIN history \cup {mem.tick} |->
                         IF t = mem.tick THEN disk ELSE history[t]]
     \/ /\ mem.tick \in DOMAIN history \/ "archive" \in Faults
        /\ UNCHANGED history
  /\ pc' = "archived"
  /\ UNCHANGED <<ending, mem, disk, receipts, forgotten>>

\* The receipt for the ticks since the last one.
NewReceipt == [start |-> mem.lastReceiptTick + 1, end |-> mem.tick,
               cost |-> mem.epochCost]

\* (mutant) the epoch's cost is carried over into the next receipt.
CreateReceiptKeepingCost ==
  [mem EXCEPT !.receipts = Append(mem.receipts, NewReceipt),
              !.lastReceiptTick = mem.tick]

\* CreateReceipt: the Instance with a receipt for the epoch that ends here.
CreateReceipt ==
  [mem EXCEPT !.receipts = Append(mem.receipts, NewReceipt),
              !.lastReceiptTick = mem.tick,
              !.epochCost = 0]

\* CreateReceipt, then SaveReceipts of the whole list, whose error is logged.
\* Without a signing key there is no new receipt; restored ones are rewritten.
SaveReceipts ==
  /\ pc = "archived"
  /\ LET i == IF Signing THEN CreateReceipt ELSE mem
     IN /\ \/ receipts' = IF i.receipts = << >> THEN receipts ELSE i.receipts
           \/ "receipts" \in Faults /\ UNCHANGED receipts
        /\ AfterSave(ending, i)
  /\ UNCHANGED <<disk, history, forgotten>>

Next ==
  \/ StartResumed \/ StartFresh \/ Crash
  \/ \E pay \in 0..MaxPayment : TickFails(pay) \/ \E cost \in 0..MaxCost : Tick(pay, cost)
  \/ Stop \/ Save \/ SaveFails \/ Archive \/ SaveReceipts

Spec == Init /\ [][Next]_vars

----------------------------------------------------------------------------
Checkpoint == [tick : Nat, budget : Int]
Receipt == [start : Nat, end : Nat, cost : Nat]

\* The type invariant.
TypeOK ==
  /\ pc \in PCs /\ ending \in BOOLEAN /\ forgotten \in BOOLEAN
  /\ mem \in [tick : Nat, budget : Int, epochCost : Nat, prev : Seq(Checkpoint),
              receipts : Seq(Receipt), lastReceiptTick : Nat]
  /\ disk \in Seq(Checkpoint) /\ receipts \in Seq(Receipt)
  /\ DOMAIN history \subseteq Nat
  /\ \A t \in DOMAIN history : history[t] \in Seq(Checkpoint)

\* The budget is checked before a tick and charged after it, so it can end
\* below zero, but by less than one tick: nothing, a payment or a failed tick
\* included, runs on a budget that is used up.
BudgetFloor == mem.budget >= -MaxCost

\* EI-3, checkpoint lineage integrity: each checkpoint that reaches the disk
\* has the one it replaces among its ancestors, through failed saves, crashes
\* and restarts - until a start sets a stored checkpoint aside.
LineageNeverForks == [][ ~forgotten => IsPrefix(disk, disk') ]_vars

\* Along a stored lineage ticks never go back and the budget never grows, so a
\* restart gives the agent neither time nor money (BUDGET_MODEL.md, budget
\* decreases monotonically).
LineageIsMonotone ==
  \A i \in 1..(Len(disk) - 1) :
    disk[i].tick <= disk[i + 1].tick /\ disk[i].budget >= disk[i + 1].budget

\* VerifyChain: every file parses and names the file before it as its
\* predecessor.
VerifyChain ==
  \A t \in DOMAIN history :
    /\ Readable(history[t])
    /\ \A p \in DOMAIN history :
         p < t /\ (\A q \in DOMAIN history : q <= p \/ q >= t)
           => Front(history[t]) = history[p]

\* The history directory holds ancestors of the stored checkpoint and nothing
\* else, at every point of a save and after every crash; and the verifier, which
\* only compares neighbours, accepts it exactly when no checkpoint between the
\* oldest and the newest is missing. Two saves at one tick, a failed archive or
\* a crash before it are enough for one to be.
HistoryIsAncestry ==
  ~forgotten =>
    /\ \A t \in DOMAIN history : TickOf(history[t]) = t /\ IsPrefix(history[t], disk)
    /\ LET lengths == {Len(history[t]) : t \in DOMAIN history}
       IN VerifyChain <=>
            /\ \A t \in DOMAIN history : Readable(history[t])
            /\ \A n, m \in lengths : n .. m \subseteq lengths

\* A receipt starts where the one before it ended, on disk and in memory, and
\* attests no tick beyond the checkpoint it was created for.
Contiguous(rs) ==
  \A i \in DOMAIN rs : rs[i].start = (IF i = 1 THEN 1 ELSE rs[i - 1].end + 1)

ReceiptsContiguous ==
  /\ Contiguous(receipts) /\ Contiguous(mem.receipts)
  /\ ~forgotten /\ receipts # << >> => Last(receipts).end <= TickOf(disk)

\* The running totals of a list of receipts, and what it bills in all.
Totals(rs) ==
  LET sum[i \in 0..Len(rs)] == IF i = 0 THEN 0 ELSE sum[i - 1] + rs[i].cost
  IN sum

Billed(rs) == Totals(rs)[Len(rs)]

\* Receipts never bill more than the stored checkpoint says was spent: a crash
\* that rolls ticks back rolls back no receipt for them.
NeverOverbilled ==
  ~forgotten /\ receipts # << >> => Billed(receipts) <= InitialBudget - BudgetOf(disk)

\* BUDGET_MODEL.md, "Budget survives: process restarts, node crashes": no
\* stored checkpoint has more budget than the one it replaces.
BudgetNeverCreated ==
  [][ disk # << >> => BudgetOf(disk') <= BudgetOf(disk) ]_vars
=============================================================================
