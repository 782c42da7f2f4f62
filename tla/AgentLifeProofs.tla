-------------------------- MODULE AgentLifeProofs --------------------------
(***************************************************************************)
(* Proofs about module AgentLife, for every budget, cost, payment, set of   *)
(* faults and bound.                                                        *)
(***************************************************************************)
EXTENDS AgentLife, ProofLemmas, TLAPS

Instances == [tick : Nat, budget : Int, epochCost : Nat, prev : Seq(Checkpoint),
              receipts : Seq(Receipt), lastReceiptTick : Nat]

----------------------------------------------------------------------------
\* A prefix stays a prefix when the sequence grows by one.
LEMMA PrefixAppend ==
  ASSUME NEW S, NEW s \in Seq(S), NEW t \in Seq(S), NEW e \in S, IsPrefix(s, t)
  PROVE  IsPrefix(s, Append(t, e))
<1>1. Len(s) <= Len(t) /\ Len(Append(t, e)) = Len(t) + 1
  BY DEF IsPrefix
<1>2. \A i \in 1..Len(s) : Append(t, e)[i] = t[i]
  BY <1>1
<1>3. SubSeq(t, 1, Len(s)) = SubSeq(Append(t, e), 1, Len(s))
  BY <1>1, <1>2
<1> QED
  BY <1>1, <1>3 DEF IsPrefix

\* The empty sequence and the sequence itself are prefixes.
LEMMA PrefixTrivial ==
  ASSUME NEW S, NEW t \in Seq(S)
  PROVE  IsPrefix(<< >>, t) /\ IsPrefix(t, t)
BY DEF IsPrefix

----------------------------------------------------------------------------
\* What the operators that build an Instance return.
LEMMA FreshType == FreshInstance \in Instances /\ FreshInstance.budget >= 0
BY LifeAssumption DEF FreshInstance, Instances

\* A readable checkpoint restores to an Instance on its lineage and with its
\* budget, which is not negative.
LEMMA RestoredType ==
  ASSUME TypeOK, Readable(disk)
  PROVE  Restored \in Instances /\ Restored.budget >= 0 /\ Restored.prev = disk
<1>1. Len(disk) \in 1..Len(disk) /\ disk[Len(disk)] \in Checkpoint
  BY DEF TypeOK, Readable
<1>2. /\ TickOf(disk) \in Nat /\ BudgetOf(disk) \in Int /\ BudgetOf(disk) >= 0
  BY <1>1 DEF TickOf, BudgetOf, Last, Checkpoint, Readable
<1>3. (IF receipts = << >> THEN 0 ELSE Last(receipts).end) \in Nat
  <2>1. CASE receipts = << >>
    BY <2>1
  <2>2. CASE receipts # << >>
    <3>1. receipts[Len(receipts)] \in Receipt
      BY <2>2 DEF TypeOK
    <3> QED
      BY <2>2, <3>1 DEF Last, Receipt
  <2> QED
    BY <2>1, <2>2
<1> QED
  BY <1>2, <1>3 DEF Restored, Instances, TypeOK

\* The built checkpoint extends PrevCheckpointHash.
LEMMA BuiltType ==
  ASSUME TypeOK
  PROVE  /\ Built \in Seq(Checkpoint)
         /\ \A s \in Seq(Checkpoint) : IsPrefix(s, mem.prev) => IsPrefix(s, Built)
<1>1. [tick |-> mem.tick, budget |-> mem.budget] \in Checkpoint
  BY DEF TypeOK, Checkpoint
<1>2. mem.prev \in Seq(Checkpoint)
  BY DEF TypeOK
<1> QED
  BY <1>1, <1>2, PrefixAppend DEF Built

\* A new receipt changes neither budget nor lineage.
LEMMA ReceiptType ==
  ASSUME TypeOK
  PROVE  /\ CreateReceipt \in Instances
         /\ CreateReceipt.budget = mem.budget /\ CreateReceipt.prev = mem.prev
<1>1. NewReceipt \in Receipt
  BY DEF TypeOK, Receipt, NewReceipt
<1>2. Append(mem.receipts, NewReceipt) \in Seq(Receipt)
  BY <1>1 DEF TypeOK
<1> DEFINE a == [mem EXCEPT !.receipts = Append(mem.receipts, NewReceipt)]
           b == [a EXCEPT !.lastReceiptTick = mem.tick]
<1>3. a \in Instances /\ a.budget = mem.budget /\ a.prev = mem.prev
  BY <1>2 DEF TypeOK, Instances
<1>4. b \in Instances /\ b.budget = mem.budget /\ b.prev = mem.prev
  <2>1. mem.tick \in Nat
    BY DEF TypeOK
  <2> HIDE DEF a
  <2> QED
    BY <1>3, <2>1 DEF Instances
<1>5. CreateReceipt = [b EXCEPT !.epochCost = 0]
  BY DEF CreateReceipt
<1> HIDE DEF b
<1> QED
  BY <1>4, <1>5 DEF Instances

----------------------------------------------------------------------------
\* The Instance and the lineage a step leaves, whatever the action: the facts
\* of this module in the form the inductions below use.

\* A tick, failed or not, charges at most MaxCost beyond the budget and leaves
\* the lineage alone.
LEMMA TickMem ==
  ASSUME TypeOK, NEW pay \in 0..MaxPayment, NEW cost \in 0..MaxCost,
         Tick(pay, cost) \/ TickFails(pay)
  PROVE  mem' \in Instances /\ mem'.budget >= -MaxCost /\ mem'.prev = mem.prev
<1>0. /\ mem \in Instances /\ mem.tick + 1 \in Nat /\ mem.epochCost + cost \in Nat
      /\ mem.budget - pay - cost \in Int /\ mem.budget - pay \in Int
  <2>1. mem \in Instances
    BY DEF TypeOK, Instances
  <2>2. mem.tick \in Nat /\ mem.epochCost \in Nat /\ mem.budget \in Int
    BY <2>1 DEF Instances
  <2>3. pay \in Int /\ cost \in Nat
    BY LifeAssumption
  <2> QED
    BY <2>1, <2>2, <2>3
<1> DEFINE a == [mem EXCEPT !.tick = mem.tick + 1]
<1>a. a \in Instances /\ a.prev = mem.prev
  BY <1>0 DEF Instances
<1>1. CASE Tick(pay, cost)
  <2> DEFINE b == [a EXCEPT !.budget = mem.budget - pay - cost]
  <2>1. b \in Instances /\ b.prev = mem.prev /\ b.budget = mem.budget - pay - cost
    <3> HIDE DEF a
    <3> QED
      BY <1>0, <1>a DEF Instances
  <2>2. mem' = [b EXCEPT !.epochCost = mem.epochCost + cost]
    BY <1>1 DEF Tick
  <2>3. mem.budget - pay - cost >= -MaxCost
    <3>1. pay <= mem.budget
      BY <1>1 DEF Tick
    <3>2. mem.budget \in Int /\ MaxCost \in Nat /\ MaxPayment \in Nat
      BY <1>0, LifeAssumption DEF Instances
    <3> QED
      BY <3>1, <3>2
  <2> HIDE DEF b
  <2> QED
    BY <1>0, <2>1, <2>2, <2>3 DEF Instances
<1>2. CASE TickFails(pay)
  <2>1. mem' = [a EXCEPT !.budget = mem.budget - pay]
    BY <1>2 DEF TickFails
  <2>2. mem.budget - pay >= -MaxCost
    <3>1. pay <= mem.budget
      BY <1>2 DEF TickFails
    <3>2. mem.budget \in Int /\ MaxCost \in Nat /\ MaxPayment \in Nat
      BY <1>0, LifeAssumption DEF Instances
    <3> QED
      BY <3>1, <3>2
  <2> HIDE DEF a
  <2> QED
    BY <1>0, <1>a, <2>1, <2>2 DEF Instances
<1> QED
  BY <1>1, <1>2

\* A save moves PrevCheckpointHash to the checkpoint it built.
LEMMA ChainMem ==
  ASSUME TypeOK
  PROVE  /\ [mem EXCEPT !.prev = Built] \in Instances
         /\ [mem EXCEPT !.prev = Built].budget = mem.budget
         /\ [mem EXCEPT !.prev = Built].prev = Built
BY BuiltType DEF TypeOK, Instances

----------------------------------------------------------------------------
\* The inductive step of the type invariant.
LEMMA TypeStep == TypeOK /\ [Next]_vars => TypeOK'
<1> SUFFICES ASSUME TypeOK, [Next]_vars PROVE TypeOK'
  OBVIOUS
<1> USE DEF PCs
<1>1. CASE StartResumed
  BY <1>1, RestoredType DEF StartResumed, TypeOK, Instances
<1>2. CASE StartFresh
  BY <1>2, FreshType DEF StartFresh, TypeOK, Instances
<1>3. CASE Crash
  BY <1>3, FreshType DEF Crash, TypeOK, Instances
<1>4. ASSUME NEW pay \in 0..MaxPayment, NEW cost \in 0..MaxCost,
             Tick(pay, cost) \/ TickFails(pay)
      PROVE  TypeOK'
  <2>1. mem' \in Instances
    BY <1>4, TickMem
  <2> QED
    BY <1>4, <2>1 DEF Tick, TickFails, TypeOK, Instances
<1>5. CASE Stop
  BY <1>5 DEF Stop, TypeOK
<1>6. CASE Save
  BY <1>6, BuiltType, ChainMem DEF Save, TypeOK, Instances
<1>7. CASE SaveFails
  <2>1. mem' \in Instances
    BY <1>7, ChainMem, FreshType DEF SaveFails, AfterSave, TypeOK, Instances
  <2> QED
    BY <1>7, <2>1 DEF SaveFails, AfterSave, TypeOK, Instances
<1>8. CASE Archive
  <2>1. DOMAIN history' \subseteq Nat /\ \A t \in DOMAIN history' : history'[t] \in Seq(Checkpoint)
    BY <1>8 DEF Archive, TypeOK
  <2> QED
    BY <1>8, <2>1 DEF Archive, TypeOK
<1>9. CASE SaveReceipts
  <2>1. PICK i \in {mem, CreateReceipt} :
          /\ receipts' \in {receipts, i.receipts}
          /\ AfterSave(ending, i)
    BY <1>9 DEF SaveReceipts
  <2>2. i \in Instances
    BY <2>1, ReceiptType DEF TypeOK, Instances
  <2>3. mem' \in Instances /\ receipts' \in Seq(Receipt)
    BY <2>1, <2>2, FreshType DEF AfterSave, TypeOK, Instances
  <2> QED
    BY <1>9, <2>1, <2>3 DEF SaveReceipts, AfterSave, TypeOK, Instances
<1>10. CASE UNCHANGED vars
  BY <1>10 DEF vars, TypeOK
<1> QED
  BY <1>1, <1>2, <1>3, <1>4, <1>5, <1>6, <1>7, <1>8, <1>9, <1>10, LifeAssumption DEF Next

\* Instance, storage and history keep their types through crashes, failed
\* saves and restarts.
THEOREM TypeCorrect == Spec => []TypeOK
<1>1. ASSUME Init PROVE TypeOK
  <2>1. DOMAIN history \subseteq Nat /\ \A t \in DOMAIN history : history[t] \in Seq(Checkpoint)
    <3>1. DOMAIN history = {}
      BY <1>1 DEF Init
    <3> QED
      BY <3>1
  <2>2. mem \in Instances /\ disk \in Seq(Checkpoint) /\ receipts \in Seq(Receipt)
    BY <1>1, FreshType DEF Init
  <2>3. pc \in PCs /\ ending \in BOOLEAN /\ forgotten \in BOOLEAN
    BY <1>1 DEF Init, PCs
  <2> QED
    BY <2>1, <2>2, <2>3 DEF TypeOK, Instances
<1> QED
  BY <1>1, TypeStep, PTL DEF Spec

----------------------------------------------------------------------------
\* The budget in memory never falls below zero by more than one tick's cost,
\* for any price and any mix of payments, failed ticks, crashes and restarts.
\* The disk needs no such bound: a checkpoint with a negative budget is never
\* loaded.
THEOREM BudgetBounded == Spec => []BudgetFloor
<1>1. Init => BudgetFloor
  BY FreshType, LifeAssumption DEF Init, BudgetFloor, Instances
<1>2. TypeOK /\ BudgetFloor /\ [Next]_vars => BudgetFloor'
  <2> SUFFICES ASSUME TypeOK, BudgetFloor, [Next]_vars PROVE BudgetFloor'
    OBVIOUS
  <2>0. /\ mem.budget \in Int /\ mem.budget >= -MaxCost /\ MaxCost \in Nat
        /\ FreshInstance.budget \in Int /\ FreshInstance.budget >= 0
    BY FreshType, LifeAssumption DEF TypeOK, BudgetFloor, Instances
  <2>1. CASE StartResumed
    <3>1. mem'.budget \in Int /\ mem'.budget >= 0
      BY <2>1, RestoredType DEF StartResumed, Instances
    <3> QED
      BY <2>0, <3>1 DEF BudgetFloor
  <2>2. CASE StartFresh \/ Crash
    BY <2>0, <2>2 DEF StartFresh, Crash, BudgetFloor
  <2>3. ASSUME NEW pay \in 0..MaxPayment, NEW cost \in 0..MaxCost,
               Tick(pay, cost) \/ TickFails(pay)
        PROVE  BudgetFloor'
    BY <2>3, TickMem DEF BudgetFloor
  <2>4. CASE Save
    BY <2>0, <2>4, ChainMem DEF Save, BudgetFloor
  <2>5. CASE SaveFails
    <3>1. mem' \in {FreshInstance, mem, [mem EXCEPT !.prev = Built]}
      BY <2>5 DEF SaveFails, AfterSave
    <3>2. mem'.budget \in {FreshInstance.budget, mem.budget}
      BY <3>1, ChainMem
    <3> QED
      BY <2>0, <3>2 DEF BudgetFloor
  <2>6. CASE SaveReceipts
    BY <2>0, <2>6, ReceiptType DEF SaveReceipts, AfterSave, BudgetFloor
  <2>7. CASE Stop \/ Archive \/ UNCHANGED vars
    BY <2>7 DEF Stop, Archive, vars, BudgetFloor
  <2> QED
    BY <2>1, <2>2, <2>3, <2>4, <2>5, <2>6, <2>7, LifeAssumption DEF Next
<1> QED
  BY <1>1, <1>2, TypeCorrect, PTL DEF Spec

----------------------------------------------------------------------------
\* What makes LineageNeverForks inductive: the stored checkpoint is an
\* ancestor of whatever the running process will chain its next one to.
ChainInv == ~forgotten /\ pc # "down" => IsPrefix(disk, mem.prev)

\* The inductive step of ChainInv.
LEMMA ChainStep == TypeOK /\ ChainInv /\ [Next]_vars => ChainInv'
<1> SUFFICES ASSUME TypeOK, ChainInv, [Next]_vars, ~forgotten', pc' # "down"
             PROVE  IsPrefix(disk, mem.prev)'
  BY DEF ChainInv
<1>0. disk \in Seq(Checkpoint) /\ mem.prev \in Seq(Checkpoint)
  BY DEF TypeOK
<1>1. CASE StartResumed
  BY <1>0, <1>1, RestoredType, PrefixTrivial DEF StartResumed
<1>2. CASE StartFresh
  <2>1. disk = << >> /\ disk' = << >> /\ mem'.prev = << >>
    BY <1>2 DEF StartFresh, FreshInstance
  <2> QED
    BY <1>0, <2>1, PrefixTrivial
<1>3. CASE Crash
  BY <1>3 DEF Crash
<1>4. ASSUME NEW pay \in 0..MaxPayment, NEW cost \in 0..MaxCost,
             Tick(pay, cost) \/ TickFails(pay)
      PROVE  IsPrefix(disk, mem.prev)'
  <2>1. mem'.prev = mem.prev
    BY <1>4, TickMem
  <2>2. disk' = disk /\ ~forgotten /\ pc # "down"
    BY <1>4 DEF Tick, TickFails
  <2> QED
    BY <2>1, <2>2 DEF ChainInv
<1>5. CASE Save
  <2>1. disk' = Built /\ mem'.prev = Built
    BY <1>5, ChainMem DEF Save
  <2> QED
    BY <2>1, BuiltType, PrefixTrivial
<1>6. CASE SaveFails
  <2>1. disk' = disk /\ ~forgotten /\ pc # "down" /\ mem'.prev \in {mem.prev, Built}
    BY <1>6, ChainMem DEF SaveFails, AfterSave, Saving
  <2> QED
    BY <1>0, <2>1, BuiltType DEF ChainInv
<1>7. CASE SaveReceipts
  <2>1. disk' = disk /\ ~forgotten /\ pc # "down" /\ mem'.prev = mem.prev
    BY <1>7, ReceiptType DEF SaveReceipts, AfterSave
  <2> QED
    BY <2>1 DEF ChainInv
<1>8. CASE Stop \/ Archive
  BY <1>8 DEF Stop, Archive, ChainInv
<1>9. CASE UNCHANGED vars
  BY <1>9 DEF vars, ChainInv
<1> QED
  BY <1>1, <1>2, <1>3, <1>4, <1>5, <1>6, <1>7, <1>8, <1>9, LifeAssumption DEF Next

\* EI-3 for every history: until a start sets it aside, the stored checkpoint
\* is only ever replaced by one that descends from it.
THEOREM LineageIntact == Spec => LineageNeverForks
<1>1. Init => ChainInv
  BY DEF Init, ChainInv
<1>2. TypeOK /\ ChainInv /\ [Next]_vars => [~forgotten => IsPrefix(disk, disk')]_vars
  <2> SUFFICES ASSUME TypeOK, ChainInv, Next, ~forgotten PROVE IsPrefix(disk, disk')
    OBVIOUS
  <2>0. disk \in Seq(Checkpoint)
    BY DEF TypeOK
  <2>1. CASE Save
    <3>1. disk' = Built /\ pc # "down"
      BY <2>1 DEF Save, Saving
    <3> QED
      BY <2>0, <3>1, BuiltType DEF ChainInv
  <2>2. CASE disk' = disk
    BY <2>0, <2>2, PrefixTrivial
  <2> QED
    BY <2>1, <2>2 DEF Next, StartResumed, StartFresh, Crash, Tick, TickFails, Stop,
       SaveFails, Archive, SaveReceipts
<1> QED
  BY <1>1, <1>2, ChainStep, TypeCorrect, PTL DEF Spec, LineageNeverForks

----------------------------------------------------------------------------
(* What receipts bill.                                                     *)

\* f holds the running totals of the first n receipts of rs.
IsTotals(f, rs, n) ==
  /\ f \in [0..n -> Nat] /\ f[0] = 0
  /\ \A i \in 1..n : f[i] = f[i - 1] + rs[i].cost

\* There are such totals, by induction on n: a least n without them would have
\* a predecessor whose totals extend to n.
LEMMA TotalsExist ==
  ASSUME NEW rs \in Seq(Receipt), NEW k \in 0..Len(rs)
  PROVE  \E f : IsTotals(f, rs, k)
<1> DEFINE Bad == {n \in 0..Len(rs) : ~\E f : IsTotals(f, rs, n)}
<1> SUFFICES ASSUME Bad # {} PROVE FALSE
  OBVIOUS
<1>1. PICK n \in Bad : \A m \in Bad : n <= m
  <2>1. Bad \in SUBSET Nat
    OBVIOUS
  <2> HIDE DEF Bad
  <2> QED
    BY <2>1, LeastNat
<1>2. IsTotals([i \in 0..0 |-> 0], rs, 0)
  BY DEF IsTotals
<1>3. n \in Nat /\ n \in 1..Len(rs) /\ n - 1 \in 0..Len(rs) /\ n - 1 \notin Bad
  BY <1>1, <1>2
<1>4. PICK f : IsTotals(f, rs, n - 1)
  BY <1>3
<1> DEFINE g == [i \in 0..n |-> IF i = n THEN f[n - 1] + rs[n].cost ELSE f[i]]
<1>5. rs[n].cost \in Nat
  <2>1. rs[n] \in Receipt
    BY <1>3
  <2> QED
    BY <2>1 DEF Receipt
<1>6. g \in [0..n -> Nat] /\ g[0] = 0
  BY SMTT(30), <1>3, <1>4, <1>5 DEF IsTotals
<1>7. ASSUME NEW i \in 1..n PROVE g[i] = g[i - 1] + rs[i].cost
  <2>1. CASE i = n
    BY <1>3, <2>1
  <2>2. CASE i # n
    <3>1. i \in 1..(n - 1) /\ i - 1 \in 0..n /\ i - 1 # n /\ i \in 0..n
      BY <1>3, <2>2
    <3> QED
      BY <1>4, <2>2, <3>1 DEF IsTotals
  <2> QED
    BY <2>1, <2>2
<1>8. IsTotals(g, rs, n)
  BY <1>6, <1>7 DEF IsTotals
<1> QED
  BY <1>1, <1>8

\* They are determined by the receipts.
LEMMA TotalsUnique ==
  ASSUME NEW rs, NEW n \in Nat, NEW f, NEW g, IsTotals(f, rs, n), IsTotals(g, rs, n)
  PROVE  f[n] = g[n]
<1> DEFINE Bad == {i \in 0..n : f[i] # g[i]}
<1> SUFFICES ASSUME Bad # {} PROVE FALSE
  OBVIOUS
<1>1. PICK i \in Bad : \A j \in Bad : i <= j
  <2>1. Bad \in SUBSET Nat
    OBVIOUS
  <2> HIDE DEF Bad
  <2> QED
    BY <2>1, LeastNat
<1>2. i \in 1..n /\ i - 1 \in 0..n /\ i - 1 \notin Bad
  BY <1>1 DEF IsTotals
<1> QED
  BY <1>1, <1>2 DEF IsTotals

LEMMA TotalsCorrect ==
  ASSUME NEW rs \in Seq(Receipt)
  PROVE  IsTotals(Totals(rs), rs, Len(rs))
<1>1. PICK f : IsTotals(f, rs, Len(rs))
  BY TotalsExist
<1> DEFINE Rec(h) == h = [i \in 0..Len(rs) |-> IF i = 0 THEN 0 ELSE h[i - 1] + rs[i].cost]
<1>2. Rec(f)
  BY <1>1 DEF IsTotals
<1>3. Totals(rs) = CHOOSE h : Rec(h)
  BY DEF Totals
<1>4. Rec(Totals(rs))
  BY <1>2, <1>3
<1> DEFINE h == Totals(rs)
           Bad == {i \in 0..Len(rs) : h[i] # f[i]}
<1>5. ASSUME Bad # {} PROVE FALSE
  <2>1. Bad \in SUBSET Nat
    OBVIOUS
  <2>2. PICK i \in Bad : \A j \in Bad : i <= j
    <3> HIDE DEF Bad
    <3> QED
      BY <1>5, <2>1, LeastNat
  <2>3. h[i] = (IF i = 0 THEN 0 ELSE h[i - 1] + rs[i].cost)
    BY <1>4
  <2>4. i \in 1..Len(rs) /\ i - 1 \in 0..Len(rs) /\ i - 1 \notin Bad
    BY <1>1, <2>2, <2>3 DEF IsTotals
  <2> QED
    BY <1>1, <2>2, <2>3, <2>4 DEF IsTotals
<1>6. h = [i \in 0..Len(rs) |-> h[i]] /\ \A i \in 0..Len(rs) : h[i] = f[i]
  BY <1>4, <1>5
<1>7. h \in [0..Len(rs) -> Nat] /\ h[0] = 0
  BY <1>1, <1>6 DEF IsTotals
<1>8. \A i \in 1..Len(rs) : i \in 0..Len(rs) /\ i - 1 \in 0..Len(rs)
  OBVIOUS
<1> QED
  BY <1>1, <1>6, <1>7, <1>8 DEF IsTotals

LEMMA BilledFacts ==
  ASSUME NEW rs \in Seq(Receipt)
  PROVE  /\ Billed(<< >>) = 0 /\ Billed(rs) \in Nat
         /\ \A r \in Receipt : Billed(Append(rs, r)) = Billed(rs) + r.cost
<1>1. IsTotals(Totals(<< >>), << >>, 0)
  <2>1. << >> \in Seq(Receipt) /\ Len(<< >>) = 0
    OBVIOUS
  <2> QED
    BY <2>1, TotalsCorrect
<1>2. IsTotals(Totals(rs), rs, Len(rs))
  BY TotalsCorrect
<1>3. ASSUME NEW r \in Receipt PROVE Billed(Append(rs, r)) = Billed(rs) + r.cost
  <2> DEFINE as == Append(rs, r)
             n == Len(rs)
  <2>1. as \in Seq(Receipt) /\ Len(as) = n + 1 /\ as[n + 1] = r /\ \A i \in 1..n : as[i] = rs[i]
    OBVIOUS
  <2>2. IsTotals(Totals(as), as, n + 1)
    BY <2>1, TotalsCorrect
  <2> DEFINE f == [i \in 0..n |-> Totals(as)[i]]
  <2>3. IsTotals(f, as, n)
    BY <2>1, <2>2 DEF IsTotals
  <2>4. f[n] = Totals(rs)[n]
    <3>1. n \in Nat /\ IsTotals(Totals(rs), as, n)
      BY <1>2, <2>1 DEF IsTotals
    <3> HIDE DEF f, as, n
    <3> QED
      BY <2>3, <3>1, TotalsUnique
  <2>5. Totals(as)[n + 1] = Totals(as)[n] + as[n + 1].cost
    BY <2>2 DEF IsTotals
  <2> QED
    BY <2>1, <2>4, <2>5 DEF Billed
<1> QED
  BY <1>1, <1>2, <1>3 DEF IsTotals, Billed

----------------------------------------------------------------------------
(* The fields of the Instance that each operation leaves behind.           *)

LEMMA MemFields ==
  ASSUME TypeOK
  PROVE  /\ mem \in Instances /\ mem.tick \in Nat /\ mem.budget \in Int /\ mem.epochCost \in Nat
         /\ mem.prev \in Seq(Checkpoint) /\ mem.receipts \in Seq(Receipt)
         /\ mem.lastReceiptTick \in Nat
  BY DEF TypeOK, Instances

\* A tick spends what it adds to the cost of the epoch, and what it pays.
LEMMA TickFields ==
  ASSUME TypeOK, NEW pay \in 0..MaxPayment, NEW cost \in 0..MaxCost,
         Tick(pay, cost) \/ TickFails(pay)
  PROVE  /\ mem'.tick = mem.tick + 1 /\ mem'.prev = mem.prev /\ mem'.receipts = mem.receipts
         /\ mem'.lastReceiptTick = mem.lastReceiptTick
         /\ mem'.budget \in Int /\ mem'.budget <= mem.budget
         /\ mem'.epochCost \in Nat /\ mem'.epochCost + mem'.budget <= mem.epochCost + mem.budget
<1>0. /\ mem \in Instances /\ mem.tick \in Nat /\ mem.epochCost \in Nat /\ mem.budget \in Int
      /\ pay \in Nat /\ cost \in Nat
  BY MemFields, LifeAssumption
<1> DEFINE a == [mem EXCEPT !.tick = mem.tick + 1]
<1>a. /\ a \in Instances /\ a.tick = mem.tick + 1 /\ a.prev = mem.prev /\ a.receipts = mem.receipts
      /\ a.lastReceiptTick = mem.lastReceiptTick /\ a.epochCost = mem.epochCost
  BY SMTT(30), <1>0 DEF Instances
<1>1. CASE Tick(pay, cost)
  <2> DEFINE b == [a EXCEPT !.budget = mem.budget - pay - cost]
             c == [b EXCEPT !.epochCost = mem.epochCost + cost]
  <2>1. mem' = c
    BY <1>1 DEF Tick
  <2> HIDE DEF a
  <2>2. /\ b \in Instances /\ b.tick = a.tick /\ b.prev = a.prev /\ b.receipts = a.receipts
        /\ b.lastReceiptTick = a.lastReceiptTick /\ b.budget = mem.budget - pay - cost
    <3>1. mem.budget - pay - cost \in Int
      BY <1>0
    <3> QED
      BY <1>a, <3>1 DEF Instances
  <2> HIDE DEF b
  <2>3. /\ c.tick = b.tick /\ c.prev = b.prev /\ c.receipts = b.receipts /\ c.budget = b.budget
        /\ c.lastReceiptTick = b.lastReceiptTick /\ c.epochCost = mem.epochCost + cost
    BY <1>0, <2>2 DEF Instances
  <2> HIDE DEF c
  <2> QED
    BY <1>0, <1>a, <2>1, <2>2, <2>3
<1>2. CASE TickFails(pay)
  <2> DEFINE b == [a EXCEPT !.budget = mem.budget - pay]
  <2>1. mem' = b
    BY <1>2 DEF TickFails
  <2> HIDE DEF a
  <2>2. /\ b.tick = a.tick /\ b.prev = a.prev /\ b.receipts = a.receipts
        /\ b.lastReceiptTick = a.lastReceiptTick /\ b.budget = mem.budget - pay
        /\ b.epochCost = a.epochCost
    BY <1>0, <1>a DEF Instances
  <2> HIDE DEF b
  <2> QED
    BY <1>0, <1>a, <2>1, <2>2
<1> QED
  BY <1>1, <1>2

LEMMA ChainFields ==
  ASSUME TypeOK, NEW i, i = [mem EXCEPT !.prev = Built]
  PROVE  /\ i.tick = mem.tick /\ i.budget = mem.budget /\ i.prev = Built
         /\ i.receipts = mem.receipts /\ i.lastReceiptTick = mem.lastReceiptTick
         /\ i.epochCost = mem.epochCost
  BY MemFields DEF Instances

LEMMA ReceiptFields ==
  ASSUME TypeOK
  PROVE  /\ CreateReceipt.tick = mem.tick /\ CreateReceipt.budget = mem.budget
         /\ CreateReceipt.prev = mem.prev /\ CreateReceipt.lastReceiptTick = mem.tick
         /\ CreateReceipt.receipts = Append(mem.receipts, NewReceipt)
         /\ CreateReceipt.epochCost = 0 /\ NewReceipt \in Receipt
<1>1. NewReceipt \in Receipt
  BY DEF TypeOK, Receipt, NewReceipt
<1>2. Append(mem.receipts, NewReceipt) \in Seq(Receipt)
  BY <1>1 DEF TypeOK
<1> DEFINE a == [mem EXCEPT !.receipts = Append(mem.receipts, NewReceipt)]
           b == [a EXCEPT !.lastReceiptTick = mem.tick]
           c == [b EXCEPT !.epochCost = 0]
<1>3. CreateReceipt = c
  BY DEF CreateReceipt
<1>4. /\ a \in Instances /\ a.budget = mem.budget /\ a.prev = mem.prev /\ a.tick = mem.tick
      /\ a.receipts = Append(mem.receipts, NewReceipt) /\ mem.tick \in Nat
  BY <1>2 DEF TypeOK, Instances
<1> HIDE DEF a
<1>5. /\ b \in Instances /\ b.budget = a.budget /\ b.prev = a.prev /\ b.tick = a.tick
      /\ b.receipts = a.receipts /\ b.lastReceiptTick = mem.tick
  BY <1>4 DEF Instances
<1> HIDE DEF b
<1>6. /\ c.budget = b.budget /\ c.prev = b.prev /\ c.tick = b.tick
      /\ c.receipts = b.receipts /\ c.lastReceiptTick = b.lastReceiptTick /\ c.epochCost = 0
  BY <1>5 DEF Instances
<1> HIDE DEF c
<1> QED
  BY <1>1, <1>3, <1>4, <1>5, <1>6

LEMMA FreshFields ==
  /\ FreshInstance.tick = 0 /\ FreshInstance.budget = InitialBudget /\ FreshInstance.prev = << >>
  /\ FreshInstance.receipts = << >> /\ FreshInstance.lastReceiptTick = 0
  /\ FreshInstance.epochCost = 0
  BY DEF FreshInstance

\* The end of the last epoch that has a receipt.
EndOf(rs) == IF rs = << >> THEN 0 ELSE Last(rs).end

LEMMA RestoredFields ==
  /\ Restored.tick = TickOf(disk) /\ Restored.budget = BudgetOf(disk) /\ Restored.prev = disk
  /\ Restored.receipts = receipts /\ Restored.lastReceiptTick = EndOf(receipts)
  /\ Restored.epochCost = 0
  BY DEF Restored, EndOf

\* The newest checkpoint of a lineage.
LEMMA LastFields ==
  ASSUME NEW s \in Seq(Checkpoint), s # << >>
  PROVE  /\ Len(s) \in 1..Len(s) /\ Last(s) = s[Len(s)]
         /\ TickOf(s) = s[Len(s)].tick /\ BudgetOf(s) = s[Len(s)].budget
         /\ TickOf(s) \in Nat /\ BudgetOf(s) \in Int
<1>1. Len(s) \in 1..Len(s) /\ Last(s) = s[Len(s)]
  BY DEF Last
<1>2. s[Len(s)] \in Checkpoint
  BY <1>1
<1> QED
  BY <1>1, <1>2 DEF TickOf, BudgetOf, Checkpoint

LEMMA BuiltFields ==
  ASSUME TypeOK
  PROVE  /\ Built \in Seq(Checkpoint) /\ Built # << >> /\ Len(Built) = Len(mem.prev) + 1
         /\ \A i \in 1..Len(mem.prev) : Built[i] = mem.prev[i]
         /\ Built[Len(Built)].tick = mem.tick /\ Built[Len(Built)].budget = mem.budget
         /\ TickOf(Built) = mem.tick /\ BudgetOf(Built) = mem.budget
<1> DEFINE c == [tick |-> mem.tick, budget |-> mem.budget]
<1>1. c \in Checkpoint /\ mem.prev \in Seq(Checkpoint) /\ c.tick = mem.tick /\ c.budget = mem.budget
  BY MemFields DEF Checkpoint
<1>2. Built = Append(mem.prev, c)
  BY DEF Built
<1> HIDE DEF c
<1>3. /\ Built \in Seq(Checkpoint) /\ Built # << >> /\ Len(Built) = Len(mem.prev) + 1
      /\ \A i \in 1..Len(mem.prev) : Built[i] = mem.prev[i]
      /\ Built[Len(Built)] = c
  BY <1>1, <1>2
<1> QED
  BY <1>1, <1>3, LastFields

----------------------------------------------------------------------------
(* The order of a lineage.                                                 *)

\* Ticks never go back and the budget never grows, between any two of its
\* checkpoints.
Sorted(s) ==
  \A i, j \in 1..Len(s) : i <= j => s[i].tick <= s[j].tick /\ s[i].budget >= s[j].budget

\* What makes LineageIsMonotone inductive: the Instance goes on where the
\* lineage it chains to ends, and during a save it stands where the new
\* checkpoint does.
LineageInv ==
  /\ Sorted(disk) /\ Sorted(mem.prev)
  /\ \A i \in 1..Len(mem.prev) : /\ mem.prev[i].tick <= mem.tick
                                 /\ mem.prev[i].budget >= mem.budget
                                 /\ mem.prev[i].budget <= InitialBudget
  /\ \A i \in 1..Len(disk) : disk[i].budget <= InitialBudget
  /\ mem.budget <= InitialBudget
  /\ pc \in {"saved", "archived"} =>
       /\ disk = mem.prev /\ disk # << >>
       /\ TickOf(disk) = mem.tick /\ BudgetOf(disk) = mem.budget

\* A lineage grown by the checkpoint of an Instance that is not behind it.
LEMMA BuiltSorted ==
  ASSUME TypeOK, LineageInv
  PROVE  /\ Sorted(Built)
         /\ \A i \in 1..Len(Built) : /\ Built[i].tick <= mem.tick /\ Built[i].budget >= mem.budget
                                     /\ Built[i].budget <= InitialBudget
<1>1. mem.tick \in Nat /\ mem.budget \in Int /\ mem.prev \in Seq(Checkpoint)
  BY MemFields
<1>2. /\ Built # << >> /\ Len(Built) = Len(mem.prev) + 1
      /\ \A i \in 1..Len(mem.prev) : Built[i] = mem.prev[i]
      /\ Built[Len(mem.prev) + 1].tick = mem.tick /\ Built[Len(mem.prev) + 1].budget = mem.budget
  BY BuiltFields
<1>3. ASSUME NEW i \in 1..Len(Built)
      PROVE  /\ Built[i].tick <= mem.tick /\ Built[i].budget >= mem.budget
             /\ Built[i].budget <= InitialBudget
  <2>1. CASE i = Len(mem.prev) + 1
    BY <1>1, <1>2, <2>1 DEF LineageInv
  <2>2. CASE i \in 1..Len(mem.prev)
    BY <1>2, <2>2 DEF LineageInv
  <2> QED
    BY <1>1, <1>2, <2>1, <2>2
<1>4. ASSUME NEW i \in 1..Len(Built), NEW j \in 1..Len(Built), i <= j
      PROVE  Built[i].tick <= Built[j].tick /\ Built[i].budget >= Built[j].budget
  <2>1. CASE j = Len(mem.prev) + 1
    BY <1>2, <1>3, <2>1
  <2>2. CASE j \in 1..Len(mem.prev)
    <3>1. i \in 1..Len(mem.prev)
      BY <1>1, <1>4, <2>2
    <3> QED
      BY <1>2, <1>4, <2>2, <3>1 DEF LineageInv, Sorted
  <2> QED
    BY <1>1, <1>2, <2>1, <2>2
<1> QED
  BY <1>3, <1>4 DEF Sorted

LEMMA FreshLineage ==
  ASSUME LineageInv, TypeOK', mem' = FreshInstance, disk' = disk, pc' \notin {"saved", "archived"}
  PROVE  LineageInv'
<1>1. mem'.prev = << >> /\ mem'.budget = InitialBudget
  BY FreshFields
<1>2. Len(<< >>) = 0 /\ Sorted(<< >>)
  BY DEF Sorted
<1> QED
  BY <1>1, <1>2, LifeAssumption DEF LineageInv

LEMMA LineageStep == TypeOK /\ TypeOK' /\ LineageInv /\ [Next]_vars => LineageInv'
<1> SUFFICES ASSUME TypeOK, TypeOK', LineageInv, [Next]_vars PROVE LineageInv'
  OBVIOUS
<1>0. /\ mem.tick \in Nat /\ mem.budget \in Int /\ mem.prev \in Seq(Checkpoint)
      /\ disk \in Seq(Checkpoint) /\ InitialBudget \in Int
      /\ \A i \in 1..Len(mem.prev) : mem.prev[i].tick \in Nat /\ mem.prev[i].budget \in Int
  <2>1. mem.prev \in Seq(Checkpoint)
    BY MemFields
  <2>2. \A i \in 1..Len(mem.prev) : mem.prev[i] \in Checkpoint
    BY <2>1
  <2>3. \A i \in 1..Len(mem.prev) : mem.prev[i].tick \in Nat /\ mem.prev[i].budget \in Int
    BY <2>2 DEF Checkpoint
  <2>4. disk \in Seq(Checkpoint) /\ InitialBudget \in Int
    BY LifeAssumption DEF TypeOK
  <2> QED
    BY <2>1, <2>3, <2>4, MemFields
<1>1. CASE StartResumed
  <2>1. /\ disk # << >> /\ disk' = disk /\ mem'.prev = disk /\ mem'.tick = disk[Len(disk)].tick
        /\ mem'.budget = disk[Len(disk)].budget /\ Len(disk) \in 1..Len(disk)
        /\ pc' = "loop"
    BY <1>0, <1>1, RestoredFields, LastFields DEF StartResumed, Readable
  <2> QED
    <3>1. disk \in Seq(Checkpoint) /\ Len(disk) \in 1..Len(disk)
          /\ TickOf(disk) = disk[Len(disk)].tick /\ BudgetOf(disk) = disk[Len(disk)].budget
      BY <1>0, <2>1, LastFields
    <3>2. \A i \in 1..Len(disk) : /\ disk[i].tick <= TickOf(disk) /\ disk[i].budget >= BudgetOf(disk)
                                  /\ disk[i].budget <= InitialBudget
      BY <3>1 DEF LineageInv, Sorted
    <3>3. BudgetOf(disk) <= InitialBudget
      BY <3>1, <3>2
    <3>4. mem'.prev = disk /\ mem'.tick = TickOf(disk) /\ mem'.budget = BudgetOf(disk)
      BY <2>1, <3>1
    <3>5. Sorted(disk') /\ Sorted(mem'.prev)
      BY <2>1, <3>4 DEF LineageInv
    <3>6. \A i \in 1..Len(mem'.prev) : /\ mem'.prev[i].tick <= mem'.tick
                                       /\ mem'.prev[i].budget >= mem'.budget
                                       /\ mem'.prev[i].budget <= InitialBudget
      BY <3>2, <3>4
    <3>7. (\A i \in 1..Len(disk') : disk'[i].budget <= InitialBudget) /\ mem'.budget <= InitialBudget
      BY <2>1, <3>2, <3>3, <3>4
    <3> QED
      BY <2>1, <3>5, <3>6, <3>7 DEF LineageInv
<1>2. CASE StartFresh \/ Crash
  BY <1>2, FreshLineage DEF StartFresh, Crash
<1>3. ASSUME NEW pay \in 0..MaxPayment, NEW cost \in 0..MaxCost,
             Tick(pay, cost) \/ TickFails(pay)
      PROVE  LineageInv'
  <2>1. /\ mem'.tick = mem.tick + 1 /\ mem'.prev = mem.prev
        /\ mem'.budget \in Int /\ mem'.budget <= mem.budget
    BY <1>3, TickFields
  <2>2. disk' = disk /\ pc' \notin {"saved", "archived"}
    BY <1>3 DEF Tick, TickFails
  <2>3. \A i \in 1..Len(mem.prev) : /\ mem.prev[i].tick <= mem'.tick
                                    /\ mem.prev[i].budget >= mem'.budget
    BY SMTT(30), <1>0, <2>1 DEF LineageInv
  <2>4. mem'.budget <= InitialBudget
    BY <1>0, <2>1 DEF LineageInv
  <2> QED
    BY <2>1, <2>2, <2>3, <2>4 DEF LineageInv
<1>4. CASE Save
  <2>1. /\ disk' = Built /\ mem'.prev = Built /\ mem'.tick = mem.tick /\ mem'.budget = mem.budget
    BY <1>4, ChainFields DEF Save
  <2> QED
    BY <2>1, BuiltSorted, BuiltFields DEF LineageInv
<1>5. CASE SaveFails
  <2>1. mem' \in {FreshInstance, mem, [mem EXCEPT !.prev = Built]} /\ disk' = disk
        /\ pc' \notin {"saved", "archived"}
    BY <1>5 DEF SaveFails, AfterSave
  <2>2. CASE mem' = FreshInstance
    BY <2>1, <2>2, FreshLineage
  <2>3. CASE mem' = mem
    BY <2>1, <2>3 DEF LineageInv
  <2>4. CASE mem' = [mem EXCEPT !.prev = Built]
    <3>1. mem'.prev = Built /\ mem'.tick = mem.tick /\ mem'.budget = mem.budget
      BY <2>4, ChainFields
    <3> QED
      BY <2>1, <3>1, BuiltSorted DEF LineageInv
  <2> QED
    BY <2>1, <2>2, <2>3, <2>4
<1>6. CASE SaveReceipts
  <2>1. mem' \in {FreshInstance, mem, CreateReceipt} /\ disk' = disk
        /\ pc' \notin {"saved", "archived"}
    BY <1>6 DEF SaveReceipts, AfterSave
  <2>2. CASE mem' = FreshInstance
    BY <2>1, <2>2, FreshLineage
  <2>3. CASE mem' = mem
    BY <2>1, <2>3 DEF LineageInv
  <2>4. CASE mem' = CreateReceipt
    <3>1. mem'.prev = mem.prev /\ mem'.tick = mem.tick /\ mem'.budget = mem.budget
      BY <2>4, ReceiptFields
    <3> QED
      BY <2>1, <3>1 DEF LineageInv
  <2> QED
    BY <2>1, <2>2, <2>3, <2>4
<1>7. CASE Stop \/ Archive
  BY <1>7 DEF Stop, Archive, LineageInv
<1>8. CASE UNCHANGED vars
  BY <1>8 DEF vars, LineageInv
<1> QED
  BY <1>1, <1>2, <1>3, <1>4, <1>5, <1>6, <1>7, <1>8, LifeAssumption DEF Next

LEMMA LineageInvariant == Spec => []LineageInv
<1>1. Init => LineageInv
  <2> SUFFICES ASSUME Init PROVE LineageInv
    OBVIOUS
  <2>1. mem.prev = << >> /\ mem.budget = InitialBudget /\ disk = << >> /\ pc = "down"
    BY FreshFields DEF Init
  <2>2. Len(<< >>) = 0 /\ Sorted(<< >>)
    BY DEF Sorted
  <2> QED
    BY <2>1, <2>2, LifeAssumption DEF LineageInv
<1>2. TypeOK /\ TypeOK' /\ LineageInv /\ [Next]_vars => LineageInv'
  BY LineageStep
<1> QED
  BY <1>1, <1>2, TypeCorrect, PTL DEF Spec

\* Along every stored lineage time and money only run one way, whatever
\* crashes, failed saves and restarts lie between two of its checkpoints.
THEOREM LineageOrdered == Spec => []LineageIsMonotone
<1>1. TypeOK /\ LineageInv => LineageIsMonotone
  BY SMTT(30) DEF TypeOK, LineageInv, Sorted, LineageIsMonotone
<1> QED
  BY <1>1, TypeCorrect, LineageInvariant, PTL

----------------------------------------------------------------------------
(* Receipts.                                                               *)

\* What makes ReceiptsContiguous and NeverOverbilled inductive: the Instance
\* knows where its last receipt ended, and its receipts and the cost of the
\* running epoch are covered by what it has spent.
BillInv ==
  /\ Contiguous(receipts) /\ Contiguous(mem.receipts)
  /\ mem.lastReceiptTick = EndOf(mem.receipts)
  /\ ~forgotten =>
       /\ receipts # << >> => /\ disk # << >> /\ Last(receipts).end <= TickOf(disk)
                              /\ Billed(receipts) <= InitialBudget - BudgetOf(disk)
       /\ mem.lastReceiptTick <= mem.tick
       /\ Billed(mem.receipts) + mem.epochCost <= InitialBudget - mem.budget

\* A receipt that starts after the last one keeps the list contiguous.
LEMMA ContiguousAppend ==
  ASSUME NEW rs \in Seq(Receipt), NEW r \in Receipt, Contiguous(rs), r.start = EndOf(rs) + 1
  PROVE  Contiguous(Append(rs, r)) /\ EndOf(Append(rs, r)) = r.end
<1> DEFINE as == Append(rs, r)
<1>1. /\ Len(as) = Len(rs) + 1 /\ as[Len(rs) + 1] = r /\ \A i \in 1..Len(rs) : as[i] = rs[i]
      /\ DOMAIN as = 1..(Len(rs) + 1) /\ DOMAIN rs = 1..Len(rs) /\ as # << >>
  OBVIOUS
<1> HIDE DEF as
<1>2. EndOf(as) = r.end
  BY <1>1 DEF EndOf, Last
<1>3. ASSUME NEW i \in 1..(Len(rs) + 1)
      PROVE  as[i].start = (IF i = 1 THEN 1 ELSE as[i - 1].end + 1)
  <2>1. CASE i \in 1..Len(rs)
    <3>1. i # 1 => i - 1 \in 1..Len(rs)
      BY <2>1
    <3> QED
      BY <1>1, <2>1, <3>1 DEF Contiguous
  <2>2. CASE i = Len(rs) + 1
    <3>1. CASE rs = << >>
      <4>1. Len(rs) = 0
        BY <3>1
      <4>2. EndOf(rs) = 0
        BY <3>1 DEF EndOf
      <4>3. i = 1
        BY <2>2, <4>1
      <4>4. as[i] = r
        BY <1>1, <2>2
      <4> QED
        BY <4>2, <4>3, <4>4
    <3>2. CASE rs # << >>
      <4>1. Len(rs) \in 1..Len(rs) /\ EndOf(rs) = rs[Len(rs)].end /\ i # 1 /\ i - 1 = Len(rs)
        BY <2>2, <3>2 DEF EndOf, Last
      <4> QED
        BY <1>1, <2>2, <4>1
    <3> QED
      BY <3>1, <3>2
  <2>3. Len(rs) \in Nat
    OBVIOUS
  <2>4. i \in 1..Len(rs) \/ i = Len(rs) + 1
    BY <2>3
  <2> QED
    BY <2>1, <2>2, <2>4
<1>4. Contiguous(as)
  BY <1>1, <1>3 DEF Contiguous
<1> QED
  BY <1>2, <1>4 DEF as

\* The oldest stored checkpoint that the Instance descends from is not ahead
\* of it.
LEMMA DiskBehind ==
  ASSUME TypeOK, LineageInv, ChainInv, ~forgotten, pc # "down", disk # << >>
  PROVE  TickOf(disk) <= mem.tick /\ BudgetOf(disk) >= mem.budget
<1>1. disk \in Seq(Checkpoint) /\ mem.prev \in Seq(Checkpoint)
  BY DEF TypeOK
<1>2. Len(disk) \in 1..Len(disk) /\ TickOf(disk) = disk[Len(disk)].tick
      /\ BudgetOf(disk) = disk[Len(disk)].budget
  BY <1>1, LastFields
<1>3. Len(disk) \in 1..Len(mem.prev) /\ disk[Len(disk)] = mem.prev[Len(disk)]
  BY <1>1, <1>2 DEF ChainInv, IsPrefix
<1> QED
  BY <1>2, <1>3 DEF LineageInv

LEMMA FreshBill ==
  ASSUME TypeOK, BillInv, mem' = FreshInstance, UNCHANGED <<receipts, disk>>,
         ~forgotten' => ~forgotten
  PROVE  BillInv'
<1>1. /\ mem'.receipts = << >> /\ mem'.lastReceiptTick = 0 /\ mem'.tick = 0 /\ mem'.epochCost = 0
      /\ mem'.budget = InitialBudget
  BY FreshFields
<1>2. Contiguous(<< >>) /\ EndOf(<< >>) = 0 /\ Billed(<< >>) = 0
  BY BilledFacts DEF Contiguous, EndOf, TypeOK
<1>3. Contiguous(mem'.receipts) /\ mem'.lastReceiptTick = EndOf(mem'.receipts)
      /\ mem'.lastReceiptTick <= mem'.tick
  BY <1>1, <1>2
<1>4. Billed(mem'.receipts) + mem'.epochCost <= InitialBudget - mem'.budget
  BY <1>1, <1>2, LifeAssumption
<1> QED
  BY <1>3, <1>4 DEF BillInv

\* A step that leaves the receipts alone and spends what it accounts for.
LEMMA SpendBill ==
  ASSUME TypeOK, TypeOK', BillInv, UNCHANGED <<receipts, disk, forgotten>>,
         mem'.receipts = mem.receipts, mem'.lastReceiptTick = mem.lastReceiptTick,
         mem.tick <= mem'.tick, mem'.epochCost + mem'.budget <= mem.epochCost + mem.budget
  PROVE  BillInv'
<1>1. /\ mem.tick \in Nat /\ mem'.tick \in Nat /\ mem.lastReceiptTick \in Nat
      /\ mem.budget \in Int /\ mem'.budget \in Int /\ mem.epochCost \in Nat /\ mem'.epochCost \in Nat
      /\ Billed(mem.receipts) \in Nat /\ InitialBudget \in Nat
  BY BilledFacts, LifeAssumption DEF TypeOK
<1>2. ~forgotten => /\ mem.lastReceiptTick <= mem'.tick
                    /\ Billed(mem.receipts) + mem'.epochCost <= InitialBudget - mem'.budget
  <2> SUFFICES ASSUME ~forgotten
               PROVE  /\ mem.lastReceiptTick <= mem'.tick
                      /\ Billed(mem.receipts) + mem'.epochCost <= InitialBudget - mem'.budget
    OBVIOUS
  <2>1. /\ mem.lastReceiptTick <= mem.tick
        /\ Billed(mem.receipts) + mem.epochCost <= InitialBudget - mem.budget
    BY DEF BillInv
  <2> QED
    BY <1>1, <2>1
<1> QED
  BY <1>2 DEF BillInv

LEMMA BillStep ==
  TypeOK /\ TypeOK' /\ LineageInv /\ ChainInv /\ BillInv /\ [Next]_vars => BillInv'
<1> SUFFICES ASSUME TypeOK, TypeOK', LineageInv, ChainInv, BillInv, [Next]_vars PROVE BillInv'
  OBVIOUS
<1>0. /\ mem.tick \in Nat /\ mem.budget \in Int /\ mem.epochCost \in Nat /\ mem.lastReceiptTick \in Nat
      /\ mem.receipts \in Seq(Receipt) /\ disk \in Seq(Checkpoint) /\ receipts \in Seq(Receipt)
      /\ InitialBudget \in Nat
  BY LifeAssumption DEF TypeOK
<1>1. CASE StartResumed
  <2>1. /\ disk # << >> /\ mem'.receipts = receipts /\ mem'.lastReceiptTick = EndOf(receipts)
        /\ mem'.tick = TickOf(disk) /\ mem'.budget = BudgetOf(disk) /\ mem'.epochCost = 0
        /\ UNCHANGED <<disk, receipts, forgotten>>
    BY <1>1, RestoredFields DEF StartResumed, Readable
  <2>2. /\ TickOf(disk) \in Nat /\ BudgetOf(disk) \in Int /\ BudgetOf(disk) <= InitialBudget
    BY <1>0, <2>1, LastFields DEF LineageInv
  <2>3. CASE receipts = << >>
    <3>1. EndOf(receipts) = 0 /\ Billed(receipts) = 0
      BY <1>0, <2>3, BilledFacts DEF EndOf
    <3>2. Billed(receipts) + 0 <= InitialBudget - BudgetOf(disk)
      BY <1>0, <2>2, <3>1
    <3> QED
      BY <2>1, <2>2, <2>3, <3>1, <3>2 DEF BillInv
  <2>4. CASE receipts # << >>
    <3>1. EndOf(receipts) = Last(receipts).end
      BY <2>4 DEF EndOf
    <3>2. Billed(receipts) \in Nat
      BY <1>0, BilledFacts
    <3>3. ~forgotten => Billed(receipts) + 0 <= InitialBudget - BudgetOf(disk)
      BY <2>4, <3>2 DEF BillInv
    <3> QED
      BY <2>1, <2>4, <3>1, <3>3 DEF BillInv
  <2> QED
    BY <2>3, <2>4
<1>2. CASE StartFresh \/ Crash
  <2>1. mem' = FreshInstance /\ UNCHANGED <<receipts, disk>>
    BY <1>2 DEF StartFresh, Crash
  <2>2. ~forgotten' => ~forgotten
    BY <1>2 DEF StartFresh, Crash, TypeOK
  <2> QED
    BY <2>1, <2>2, FreshBill
<1>3. ASSUME NEW pay \in 0..MaxPayment, NEW cost \in 0..MaxCost,
             Tick(pay, cost) \/ TickFails(pay)
      PROVE  BillInv'
  <2>1. /\ mem'.tick = mem.tick + 1 /\ mem'.receipts = mem.receipts
        /\ mem'.lastReceiptTick = mem.lastReceiptTick
        /\ mem'.epochCost + mem'.budget <= mem.epochCost + mem.budget
    BY <1>3, TickFields
  <2>2. UNCHANGED <<receipts, disk, forgotten>>
    BY <1>3 DEF Tick, TickFails
  <2> QED
    BY <1>0, <2>1, <2>2, SpendBill
<1>4. CASE Save
  <2>1. /\ disk' = Built /\ mem'.tick = mem.tick /\ mem'.budget = mem.budget
        /\ mem'.receipts = mem.receipts /\ mem'.lastReceiptTick = mem.lastReceiptTick
        /\ mem'.epochCost = mem.epochCost /\ pc # "down" /\ UNCHANGED <<receipts, forgotten>>
    BY <1>4, ChainFields DEF Save, Saving
  <2>2. Built # << >> /\ TickOf(Built) = mem.tick /\ BudgetOf(Built) = mem.budget
    BY BuiltFields
  <2>3. ASSUME ~forgotten, receipts # << >>
        PROVE  Last(receipts).end <= mem.tick /\ Billed(receipts) <= InitialBudget - mem.budget
    <3>1. /\ disk # << >> /\ Last(receipts).end <= TickOf(disk)
          /\ Billed(receipts) <= InitialBudget - BudgetOf(disk)
      BY <2>3 DEF BillInv
    <3>2. TickOf(disk) <= mem.tick /\ BudgetOf(disk) >= mem.budget
      BY <2>1, <2>3, <3>1, DiskBehind
    <3>3. TickOf(disk) \in Nat /\ BudgetOf(disk) \in Int
      BY <1>0, <3>1, LastFields
    <3>4. Last(receipts).end \in Nat /\ Billed(receipts) \in Nat
      <4>1. Last(receipts) \in Receipt
        BY <1>0, <2>3 DEF Last
      <4> QED
        BY <1>0, <4>1, BilledFacts DEF Receipt
    <3> QED
      BY SMTT(30), <1>0, <3>1, <3>2, <3>3, <3>4
  <2> QED
    BY <2>1, <2>2, <2>3 DEF BillInv
<1>5. CASE SaveFails
  <2>1. mem' \in {FreshInstance, mem, [mem EXCEPT !.prev = Built]}
        /\ UNCHANGED <<disk, receipts, forgotten>>
    BY <1>5 DEF SaveFails, AfterSave
  <2>2. CASE mem' = FreshInstance
    BY <2>1, <2>2, FreshBill
  <2>3. CASE mem' = mem
    BY <2>1, <2>3 DEF BillInv
  <2>4. CASE mem' = [mem EXCEPT !.prev = Built]
    <3>1. /\ mem'.tick = mem.tick /\ mem'.budget = mem.budget /\ mem'.receipts = mem.receipts
          /\ mem'.lastReceiptTick = mem.lastReceiptTick /\ mem'.epochCost = mem.epochCost
      BY <2>4, ChainFields
    <3> QED
      BY <2>1, <3>1 DEF BillInv
  <2> QED
    BY <2>1, <2>2, <2>3, <2>4
<1>6. CASE SaveReceipts
  <2>1. PICK i \in {mem, CreateReceipt} :
          /\ receipts' = receipts \/ (receipts' = i.receipts /\ i.receipts # << >>)
          /\ mem' = FreshInstance \/ mem' = i
          /\ UNCHANGED <<disk, forgotten>>
    BY <1>6 DEF SaveReceipts, AfterSave
  <2>2. /\ disk # << >> /\ TickOf(disk) = mem.tick /\ BudgetOf(disk) = mem.budget
    BY <1>6 DEF SaveReceipts, LineageInv
  \* the instance after CreateReceipt, as BillInv sees it
  <2>3. /\ Contiguous(i.receipts) /\ i.lastReceiptTick = EndOf(i.receipts)
        /\ i.receipts \in Seq(Receipt)
        /\ ~forgotten => /\ i.lastReceiptTick <= i.tick /\ i.tick = mem.tick
                         /\ i.budget = mem.budget /\ i.epochCost \in Nat
                         /\ Billed(i.receipts) + i.epochCost <= InitialBudget - i.budget
    <3>1. CASE i = mem
      BY <1>0, <3>1 DEF BillInv
    <3>2. CASE i = CreateReceipt
      <4>1. /\ i.tick = mem.tick /\ i.budget = mem.budget /\ i.lastReceiptTick = mem.tick
            /\ i.receipts = Append(mem.receipts, NewReceipt) /\ i.epochCost = 0
            /\ NewReceipt \in Receipt
        BY <3>2, ReceiptFields
      <4>2. /\ NewReceipt.start = EndOf(mem.receipts) + 1 /\ NewReceipt.end = mem.tick
            /\ NewReceipt.cost = mem.epochCost
        BY DEF NewReceipt, BillInv
      <4>3. Contiguous(i.receipts) /\ EndOf(i.receipts) = mem.tick
        BY <1>0, <4>1, <4>2, ContiguousAppend DEF BillInv
      <4>4. Billed(i.receipts) = Billed(mem.receipts) + mem.epochCost /\ Billed(mem.receipts) \in Nat
        BY <1>0, <4>1, <4>2, BilledFacts
      <4>5. ~forgotten => Billed(i.receipts) + i.epochCost <= InitialBudget - i.budget
        BY <1>0, <4>1, <4>4 DEF BillInv
      <4>6. i.receipts \in Seq(Receipt)
        BY <1>0, <4>1
      <4> QED
        BY <1>0, <4>1, <4>3, <4>5, <4>6
    <3> QED
      BY <3>1, <3>2
  <2>4. ASSUME receipts' = i.receipts, i.receipts # << >>, ~forgotten
        PROVE  /\ Last(i.receipts).end <= TickOf(disk)
               /\ Billed(i.receipts) <= InitialBudget - BudgetOf(disk)
    <3>1. EndOf(i.receipts) = Last(i.receipts).end
      BY <2>4 DEF EndOf
    <3>2. Billed(i.receipts) \in Nat
      BY <2>3, BilledFacts
    <3> QED
      BY <1>0, <2>2, <2>3, <2>4, <3>1, <3>2
  <2>5. /\ Contiguous(receipts')
        /\ ~forgotten /\ receipts' # << >> =>
             /\ disk # << >> /\ Last(receipts').end <= TickOf(disk)
             /\ Billed(receipts') <= InitialBudget - BudgetOf(disk)
    BY <2>1, <2>2, <2>3, <2>4 DEF BillInv
  <2>6. CASE mem' = i
    BY <2>1, <2>3, <2>5, <2>6 DEF BillInv
  <2>7. CASE mem' = FreshInstance
    <3>1. /\ mem'.receipts = << >> /\ mem'.lastReceiptTick = 0 /\ mem'.tick = 0
          /\ mem'.epochCost = 0 /\ mem'.budget = InitialBudget
      BY <2>7, FreshFields
    <3>2. Contiguous(<< >>) /\ EndOf(<< >>) = 0 /\ Billed(<< >>) = 0
      BY <1>0, BilledFacts DEF Contiguous, EndOf
    <3>3. /\ Contiguous(mem'.receipts) /\ mem'.lastReceiptTick = EndOf(mem'.receipts)
          /\ mem'.lastReceiptTick <= mem'.tick
      BY <3>1, <3>2
    <3>4. Billed(mem'.receipts) + mem'.epochCost <= InitialBudget - mem'.budget
      BY <1>0, <3>1, <3>2
    <3> QED
      BY <2>1, <2>5, <3>3, <3>4 DEF BillInv
  <2> QED
    BY <2>1, <2>6, <2>7
<1>7. CASE Stop \/ Archive
  BY <1>7 DEF Stop, Archive, BillInv
<1>8. CASE UNCHANGED vars
  BY <1>8 DEF vars, BillInv
<1> QED
  BY <1>1, <1>2, <1>3, <1>4, <1>5, <1>6, <1>7, <1>8, LifeAssumption DEF Next

LEMMA BillInvariant == Spec => [](BillInv /\ ChainInv)
<1>1. Init => BillInv /\ ChainInv
  <2> SUFFICES ASSUME Init PROVE BillInv
    BY DEF Init, ChainInv
  <2>1. /\ mem.receipts = << >> /\ mem.lastReceiptTick = 0 /\ mem.tick = 0 /\ mem.epochCost = 0
        /\ mem.budget = InitialBudget /\ receipts = << >>
    BY FreshFields DEF Init
  <2>2. << >> \in Seq(Receipt)
    OBVIOUS
  <2>3. Contiguous(<< >>) /\ EndOf(<< >>) = 0 /\ Billed(<< >>) = 0
    <3>1. Contiguous(<< >>)
      BY DEF Contiguous
    <3>2. EndOf(<< >>) = 0
      BY DEF EndOf
    <3>3. Billed(<< >>) = 0
      BY <2>2, BilledFacts
    <3> QED
      BY <3>1, <3>2, <3>3
  <2>4. Billed(mem.receipts) + mem.epochCost <= InitialBudget - mem.budget
    BY <2>1, <2>3, LifeAssumption
  <2> QED
    BY <2>1, <2>3, <2>4 DEF BillInv
<1>2. TypeOK /\ TypeOK' /\ LineageInv /\ ChainInv /\ BillInv /\ [Next]_vars => BillInv' /\ ChainInv'
  BY BillStep, ChainStep
<1> QED
  BY <1>1, <1>2, TypeCorrect, LineageInvariant, PTL DEF Spec

\* Every receipt starts where the one before it ended, through crashes between
\* the checkpoint and the receipts, lost receipts and restarts.
THEOREM ReceiptsInOrder == Spec => []ReceiptsContiguous
<1>1. BillInv => ReceiptsContiguous
  BY DEF BillInv, ReceiptsContiguous
<1> QED
  BY <1>1, BillInvariant, PTL

\* The receipts on disk never bill more than the stored checkpoint says the
\* agent has spent.
THEOREM BillsCovered == Spec => []NeverOverbilled
<1>1. BillInv => NeverOverbilled
  BY DEF BillInv, NeverOverbilled
<1> QED
  BY <1>1, BillInvariant, PTL

----------------------------------------------------------------------------
(* The history directory.                                                  *)

\* What makes HistoryIsAncestry inductive: every file is an ancestor of the
\* stored checkpoint and is filed under its own tick.
HistInv ==
  ~forgotten => \A t \in DOMAIN history : /\ history[t] # << >> /\ TickOf(history[t]) = t
                                          /\ IsPrefix(history[t], disk)

LEMMA PrefixElems ==
  ASSUME NEW s \in Seq(Checkpoint), NEW t \in Seq(Checkpoint)
  PROVE  IsPrefix(s, t) <=> Len(s) <= Len(t) /\ \A i \in 1..Len(s) : s[i] = t[i]
<1>1. CASE Len(s) <= Len(t)
  <2>1. SubSeq(s, 1, Len(s)) \in Seq(Checkpoint) /\ Len(SubSeq(s, 1, Len(s))) = Len(s)
        /\ \A i \in 1..Len(s) : SubSeq(s, 1, Len(s))[i] = s[i]
    OBVIOUS
  <2>2. SubSeq(t, 1, Len(s)) \in Seq(Checkpoint) /\ Len(SubSeq(t, 1, Len(s))) = Len(s)
        /\ \A i \in 1..Len(s) : SubSeq(t, 1, Len(s))[i] = t[i]
    BY <1>1
  <2>3. SubSeq(s, 1, Len(s)) = SubSeq(t, 1, Len(s)) <=> \A i \in 1..Len(s) : s[i] = t[i]
    BY <2>1, <2>2
  <2> QED
    BY <1>1, <2>3 DEF IsPrefix
<1> QED
  BY <1>1 DEF IsPrefix

LEMMA PrefixTransitive ==
  ASSUME NEW s \in Seq(Checkpoint), NEW t \in Seq(Checkpoint), NEW u \in Seq(Checkpoint),
         IsPrefix(s, t), IsPrefix(t, u)
  PROVE  IsPrefix(s, u)
<1>1. Len(s) <= Len(t) /\ \A i \in 1..Len(s) : s[i] = t[i]
  BY PrefixElems
<1>2. Len(t) <= Len(u) /\ \A i \in 1..Len(t) : t[i] = u[i]
  BY PrefixElems
<1>3. Len(s) \in Nat /\ Len(t) \in Nat /\ Len(u) \in Nat
  OBVIOUS
<1>4. Len(s) <= Len(u) /\ \A i \in 1..Len(s) : s[i] = u[i]
  BY <1>1, <1>2, <1>3
<1> QED
  BY <1>4, PrefixElems

LEMMA HistStep == TypeOK /\ LineageInv /\ ChainInv /\ HistInv /\ [Next]_vars => HistInv'
<1> SUFFICES ASSUME TypeOK, LineageInv, ChainInv, HistInv, [Next]_vars, ~forgotten',
                    NEW t \in DOMAIN history'
             PROVE  history'[t] # << >> /\ TickOf(history'[t]) = t /\ IsPrefix(history'[t], disk')
  BY DEF HistInv
<1>0. disk \in Seq(Checkpoint) /\ \A u \in DOMAIN history : history[u] \in Seq(Checkpoint)
  BY DEF TypeOK
<1>1. CASE Save
  <2>1. disk' = Built /\ history' = history /\ pc # "down" /\ ~forgotten
    BY <1>1 DEF Save, Saving
  <2>2. IsPrefix(disk, Built) /\ Built \in Seq(Checkpoint)
    BY <1>0, <2>1, BuiltType, BuiltFields DEF ChainInv
  <2>3. IsPrefix(history[t], disk) /\ history[t] # << >> /\ TickOf(history[t]) = t
    BY <2>1 DEF HistInv
  <2>4. IsPrefix(history[t], Built)
    BY <1>0, <2>1, <2>2, <2>3, PrefixTransitive
  <2> QED
    BY <2>1, <2>3, <2>4
<1>2. CASE Archive
  <2>1. disk' = disk /\ ~forgotten /\ disk # << >> /\ TickOf(disk) = mem.tick
    BY <1>2 DEF Archive, LineageInv
  <2>2. CASE history' = history
    BY <2>1, <2>2 DEF HistInv
  <2>3. CASE /\ mem.tick \notin DOMAIN history
             /\ history' = [u \in DOMAIN history \cup {mem.tick} |->
                              IF u = mem.tick THEN disk ELSE history[u]]
    <3>1. CASE t = mem.tick
      <4>1. history'[t] = disk
        BY <2>3, <3>1
      <4> QED
        BY <1>0, <2>1, <3>1, <4>1, PrefixTrivial
    <3>2. CASE t # mem.tick
      <4>1. t \in DOMAIN history /\ history'[t] = history[t]
        BY <2>3, <3>2
      <4> QED
        BY <2>1, <4>1 DEF HistInv
    <3> QED
      BY <3>1, <3>2
  <2> QED
    BY <1>2, <2>2, <2>3 DEF Archive
<1>3. CASE disk' = disk /\ history' = history /\ (~forgotten' => ~forgotten)
  BY <1>3 DEF HistInv
<1>4. CASE StartFresh
  BY <1>3, <1>4 DEF StartFresh, TypeOK
<1>5. CASE StartResumed \/ Crash \/ Stop \/ SaveFails \/ SaveReceipts
  BY <1>3, <1>5 DEF StartResumed, Crash, Stop, SaveFails, SaveReceipts
<1>6. ASSUME NEW pay \in 0..MaxPayment, NEW cost \in 0..MaxCost,
             Tick(pay, cost) \/ TickFails(pay)
      PROVE  history'[t] # << >> /\ TickOf(history'[t]) = t /\ IsPrefix(history'[t], disk')
  BY <1>3, <1>6 DEF Tick, TickFails
<1>7. CASE UNCHANGED vars
  BY <1>3, <1>7 DEF vars
<1> QED
  BY <1>1, <1>2, <1>4, <1>5, <1>6, <1>7, LifeAssumption DEF Next

LEMMA HistInvariant == Spec => []HistInv
<1>1. Init => HistInv
  BY DEF Init, HistInv
<1> QED
  BY <1>1, HistStep, TypeCorrect, LineageInvariant, BillInvariant, PTL DEF Spec

\* Two ancestors of one checkpoint: the longer is the later.
LEMMA HistOrder ==
  ASSUME TypeOK, LineageInv, HistInv, ~forgotten,
         NEW t \in DOMAIN history, NEW u \in DOMAIN history
  PROVE  /\ t \in Nat /\ Len(history[t]) \in Nat /\ Len(history[u]) \in Nat
         /\ t < u <=> Len(history[t]) < Len(history[u])
<1>1. t \in Nat /\ u \in Nat /\ history[t] \in Seq(Checkpoint) /\ history[u] \in Seq(Checkpoint)
      /\ disk \in Seq(Checkpoint)
  BY DEF TypeOK
<1>2. /\ history[t] # << >> /\ TickOf(history[t]) = t /\ IsPrefix(history[t], disk)
      /\ history[u] # << >> /\ TickOf(history[u]) = u /\ IsPrefix(history[u], disk)
  BY DEF HistInv
<1>3. /\ Len(history[t]) \in 1..Len(history[t]) /\ history[t][Len(history[t])].tick = t
      /\ Len(history[u]) \in 1..Len(history[u]) /\ history[u][Len(history[u])].tick = u
  BY <1>1, <1>2, LastFields
<1>4. /\ Len(history[t]) <= Len(disk) /\ \A i \in 1..Len(history[t]) : history[t][i] = disk[i]
      /\ Len(history[u]) <= Len(disk) /\ \A i \in 1..Len(history[u]) : history[u][i] = disk[i]
  BY <1>1, <1>2, PrefixElems
<1> DEFINE a == Len(history[t])
           b == Len(history[u])
<1>5. a \in 1..Len(disk) /\ b \in 1..Len(disk) /\ disk[a].tick = t /\ disk[b].tick = u
      /\ Len(disk) \in Nat /\ a \in Nat /\ b \in Nat
  BY <1>1, <1>3, <1>4
<1>6. a = b => t = u
  BY <1>5
<1>7. a <= b => t <= u
  BY <1>5 DEF LineageInv, Sorted
<1>8. b <= a => u <= t
  BY <1>5 DEF LineageInv, Sorted
<1>9. t = u => a = b
  OBVIOUS
<1> HIDE DEF a, b
<1>10. t < u <=> a < b
  BY <1>1, <1>5, <1>6, <1>7, <1>8, <1>9
<1> QED
  BY <1>1, <1>5, <1>10 DEF a, b

\* The comparison VerifyChain makes: a file names the other as its
\* predecessor exactly when it is one checkpoint longer.
LEMMA FrontIsPredecessor ==
  ASSUME TypeOK, HistInv, ~forgotten, NEW t \in DOMAIN history, NEW p \in DOMAIN history
  PROVE  Front(history[t]) = history[p] <=> Len(history[t]) = Len(history[p]) + 1
<1> DEFINE s == history[t]
           r == history[p]
<1>1. s \in Seq(Checkpoint) /\ r \in Seq(Checkpoint) /\ disk \in Seq(Checkpoint)
  BY DEF TypeOK
<1>2. s # << >> /\ IsPrefix(s, disk) /\ IsPrefix(r, disk)
  BY DEF HistInv
<1>3. /\ Len(s) <= Len(disk) /\ \A i \in 1..Len(s) : s[i] = disk[i]
      /\ Len(r) <= Len(disk) /\ \A i \in 1..Len(r) : r[i] = disk[i]
  BY <1>1, <1>2, PrefixElems
<1> HIDE DEF s, r
<1>4. Front(s) \in Seq(Checkpoint) /\ Len(Front(s)) = Len(s) - 1
      /\ \A i \in 1..(Len(s) - 1) : Front(s)[i] = s[i]
  <2>1. Len(s) \in Nat /\ Len(s) # 0 /\ \A i \in 1..Len(s) : s[i] \in Checkpoint
    BY <1>1, <1>2
  <2> DEFINE k == Len(s) - 1
  <2>3. k \in Nat /\ k <= Len(s)
    BY <2>1
  <2>4. Front(s) = SubSeq(s, 1, k)
    BY DEF Front
  <2> HIDE DEF k
  <2>5. SubSeq(s, 1, k) \in Seq(Checkpoint)
    BY <1>1, <2>3
  <2>6. Len(SubSeq(s, 1, k)) = k
    BY <1>1, <2>3
  <2>7. \A i \in 1..k : SubSeq(s, 1, k)[i] = s[i]
    BY <1>1, <2>3
  <2> QED
    BY <2>4, <2>5, <2>6, <2>7 DEF k
<1>5. Len(s) \in Nat /\ Len(r) \in Nat
  BY <1>1
<1>6. Front(s) = r => Len(s) = Len(r) + 1
  BY <1>4, <1>5
<1>7. ASSUME Len(s) = Len(r) + 1 PROVE Front(s) = r
  <2>1. Len(Front(s)) = Len(r) /\ \A i \in 1..Len(r) : Front(s)[i] = r[i]
    BY <1>3, <1>4, <1>5, <1>7
  <2> QED
    BY <1>1, <1>4, <2>1
<1> QED
  BY <1>6, <1>7 DEF s, r

\* Comparing neighbours finds every gap, and nothing else.
LEMMA NeighboursFindGaps ==
  ASSUME TypeOK, LineageInv, HistInv, ~forgotten
  PROVE  LET lengths == {Len(history[t]) : t \in DOMAIN history}
         IN VerifyChain <=> /\ \A t \in DOMAIN history : Readable(history[t])
                            /\ \A n, m \in lengths : n .. m \subseteq lengths
<1> DEFINE L(t) == Len(history[t])
           lengths == {L(t) : t \in DOMAIN history}
<1>1. \A t, u \in DOMAIN history : t \in Nat /\ L(t) \in Nat /\ (t < u <=> L(t) < L(u))
  BY HistOrder
<1>2. \A t, p \in DOMAIN history : Front(history[t]) = history[p] <=> L(t) = L(p) + 1
  BY FrontIsPredecessor
<1>3. \A n \in lengths : \E t \in DOMAIN history : n = L(t)
  OBVIOUS
<1>4. \A t \in DOMAIN history : L(t) \in lengths
  OBVIOUS
<1>5. lengths \in SUBSET Nat
  BY <1>1, <1>3
<1> HIDE DEF L, lengths
<1>6. ASSUME VerifyChain, NEW n \in lengths, NEW m \in lengths, NEW k \in n .. m
      PROVE  k \in lengths
  <2> SUFFICES ASSUME k \notin lengths PROVE FALSE
    OBVIOUS
  <2>0. n \in Nat /\ m \in Nat /\ k \in Nat /\ n < k /\ k < m
    BY <1>5, <1>6
  <2> DEFINE Above == {j \in lengths : j > k}
  <2>1. Above \in SUBSET Nat /\ Above # {}
    BY <1>5, <2>0
  <2>2. PICK j \in Above : \A i \in Above : j <= i
    <3> HIDE DEF Above
    <3> QED
      BY <2>1, LeastNat
  <2>3. PICK t \in DOMAIN history : j = L(t)
    BY <1>3, <2>2
  <2>4. PICK o \in DOMAIN history : n = L(o)
    BY <1>3
  <2> DEFINE Below == {q \in DOMAIN history : q < t}
  <2>5. o \in Below /\ \A q \in Below : q \in Int /\ q <= t
    BY <1>1, <2>0, <2>2, <2>3, <2>4
  <2>6. PICK p \in Below : \A q \in Below : q <= p
    <3>1. Below # {} /\ t \in Int
      BY <1>1, <2>5
    <3> HIDE DEF Below
    <3> QED
      BY <2>5, <3>1, GreatestInt
  <2>7. p \in DOMAIN history /\ p < t /\ \A q \in DOMAIN history : q <= p \/ q >= t
    BY <1>1, <2>6
  <2>8. L(t) = L(p) + 1
    BY <1>2, <1>6, <2>7 DEF VerifyChain
  <2>9. L(p) \in lengths /\ L(p) \in Nat /\ L(t) > k /\ ~ (L(p) \in Above)
    BY <1>1, <1>4, <2>2, <2>3, <2>7, <2>8
  <2>10. L(p) # k /\ ~ (L(p) > k)
    BY <2>9
  <2> QED
    BY <2>0, <2>8, <2>9, <2>10
<1>7. ASSUME \A t \in DOMAIN history : Readable(history[t]),
             \A n, m \in lengths : n .. m \subseteq lengths
      PROVE  VerifyChain
  <2> SUFFICES ASSUME NEW t \in DOMAIN history, NEW p \in DOMAIN history,
                      p < t, \A q \in DOMAIN history : q <= p \/ q >= t
               PROVE  L(t) = L(p) + 1
    BY <1>2, <1>7 DEF VerifyChain
  <2> SUFFICES ASSUME L(t) # L(p) + 1 PROVE FALSE
    OBVIOUS
  <2>1. L(p) \in Nat /\ L(t) \in Nat /\ L(p) < L(t)
    BY <1>1
  <2>2. L(p) + 1 \in L(p) .. L(t) /\ L(p) + 1 < L(t)
    BY <2>1
  <2>3. L(p) \in lengths /\ L(t) \in lengths
    BY <1>4
  <2>4. L(p) + 1 \in lengths
    BY <1>7, <2>2, <2>3
  <2>5. PICK q \in DOMAIN history : L(p) + 1 = L(q)
    BY <1>3, <2>4
  <2>6. L(p) < L(q) /\ L(q) < L(t)
    BY <2>1, <2>2, <2>5
  <2>7. p < q /\ q < t
    BY <1>1, <2>6
  <2> QED
    BY <1>1, <2>7
<1>8. VerifyChain => \A t \in DOMAIN history : Readable(history[t])
  BY DEF VerifyChain
<1>9. VerifyChain => \A n, m \in lengths : n .. m \subseteq lengths
  BY <1>6
<1> QED
  BY <1>7, <1>8, <1>9 DEF lengths, L

\* The history directory holds ancestors of the stored checkpoint and nothing
\* else, and the verifier accepts it exactly when none of them is missing
\* between the oldest and the newest, for any number of saves, crashes and
\* failed archives.
THEOREM HistoryVerified == Spec => []HistoryIsAncestry
<1>1. TypeOK /\ LineageInv /\ HistInv => HistoryIsAncestry
  BY NeighboursFindGaps DEF HistInv, HistoryIsAncestry
<1> QED
  BY <1>1, TypeCorrect, LineageInvariant, HistInvariant, PTL
=============================================================================
