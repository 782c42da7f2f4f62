--------------------------- MODULE DeployerProofs ---------------------------
(***************************************************************************)
(* Proofs about module Deployer, and the facts of module EffectLog they    *)
(* rest on, for any budget, any number of intents and any failures.        *)
(***************************************************************************)
EXTENDS Deployer, TLAPS

-----------------------------------------------------------------------------
(* Logs of at most one intent.                                             *)

LEMMA SelectNone ==
  ASSUME NEW states
  PROVE  Select(<< >>, states) = << >>
<1> DEFINE Rec(h) == h = [i \in 0..0 |->
             IF i = 0 THEN << >>
             ELSE IF << >>[i].state \in states THEN Append(h[i - 1], << >>[i]) ELSE h[i - 1]]
<1>1. Len(<< >>) = 0
  OBVIOUS
<1>2. Select(<< >>, states) = (CHOOSE h : Rec(h))[0]
  BY <1>1 DEF Select
<1>3. Rec([i \in 0..0 |-> << >>])
  OBVIOUS
<1>4. Rec(CHOOSE h : Rec(h))
  BY <1>3
<1> QED
  BY <1>2, <1>4

LEMMA SelectOne ==
  ASSUME NEW e, NEW states
  PROVE  Select(<<e>>, states) = IF e.state \in states THEN <<e>> ELSE << >>
<1> DEFINE log == <<e>>
           Rec(h) == h = [i \in 0..1 |->
             IF i = 0 THEN << >>
             ELSE IF log[i].state \in states THEN Append(h[i - 1], log[i]) ELSE h[i - 1]]
           r == IF e.state \in states THEN <<e>> ELSE << >>
           g == [i \in 0..1 |-> IF i = 0 THEN << >> ELSE r]
           f == CHOOSE h : Rec(h)
<1>1. Len(log) = 1 /\ log[1] = e
  OBVIOUS
<1>2. Select(<<e>>, states) = f[1]
  BY <1>1 DEF Select
<1>3. Append(<< >>, e) = <<e>>
  OBVIOUS
<1> HIDE DEF log
<1>4. ASSUME NEW i \in 0..1
      PROVE  g[i] = IF i = 0 THEN << >>
                    ELSE IF log[i].state \in states THEN Append(g[i - 1], log[i]) ELSE g[i - 1]
  <2>1. CASE i = 0
    BY <2>1
  <2>2. CASE i = 1
    <3>1. g[i] = r /\ g[i - 1] = << >> /\ log[i] = e
      BY <1>1, <2>2
    <3> QED
      BY <1>3, <2>2, <3>1
  <2> QED
    BY <2>1, <2>2
<1>5. Rec(g)
  BY <1>4
<1>6. Rec(f)
  BY <1>5
<1> HIDE DEF f
<1>7. f[0] = << >> /\ f[1] = IF log[1].state \in states THEN Append(f[0], log[1]) ELSE f[0]
  BY <1>6
<1> QED
  BY <1>1, <1>2, <1>3, <1>7

LEMMA TransitionOne ==
  ASSUME NEW e, NEW from, NEW to
  PROVE  Transition(<<e>>, e.id, from, to)
           = <<IF e.state \in from THEN [e EXCEPT !.state = to] ELSE e>>
BY DEF Transition

LEMMA ResumedOne ==
  ASSUME NEW e
  PROVE  /\ Resumed(<< >>) = << >>
         /\ Resumed(<<e>>) = <<IF e.state = "InFlight" THEN [e EXCEPT !.state = "Unresolved"] ELSE e>>
BY DEF Resumed

LEMMA RecordFirst ==
  ASSUME NEW id, NEW data
  PROVE  Record(<< >>, id, data) = <<[id |-> id, state |-> "Recorded", data |-> data]>>
BY DEF Record, Has

\* The fold over the one intent that can be Unresolved.
LEMMA FoldOne ==
  ASSUME NEW m, NEW e, NEW exists
  PROVE  FoldLeft(LAMBDA a, intent : Reconcile(a, intent, exists), m, <<e>>)
           = Reconcile(m, e, exists)
<1> DEFINE open == <<e>>
           Rec(h) == h = [s \in SUBSET DOMAIN open |->
             IF s = {} THEN m ELSE Reconcile(h[s \ {Max(s)}], open[Max(s)], exists)]
           f == CHOOSE h : Rec(h)
           g == [s \in SUBSET DOMAIN open |-> IF s = {} THEN m ELSE Reconcile(m, e, exists)]
<1>1. DOMAIN open = {1} /\ open[1] = e
  OBVIOUS
<1>2. FoldLeft(LAMBDA a, intent : Reconcile(a, intent, exists), m, open) = f[DOMAIN open]
  BY DEF FoldLeft, MapThenFoldSet
<1> HIDE DEF open
<1>3. \A s \in SUBSET DOMAIN open : s = {} \/ s = {1}
  BY <1>1
<1>4. Max({1}) = 1 /\ {1} \ {1} = {} /\ {} \in SUBSET DOMAIN open /\ {1} \in SUBSET DOMAIN open
  BY <1>1 DEF Max
<1>5. ASSUME NEW s \in SUBSET DOMAIN open
      PROVE  g[s] = IF s = {} THEN m ELSE Reconcile(g[s \ {Max(s)}], open[Max(s)], exists)
  <2>1. CASE s = {}
    BY <2>1
  <2>2. CASE s = {1}
    <3>1. g[s] = Reconcile(m, e, exists) /\ g[s \ {Max(s)}] = m /\ open[Max(s)] = e
      BY <1>1, <1>4, <2>2
    <3> QED
      BY <2>2, <3>1
  <2> QED
    BY <1>3, <2>1, <2>2
<1>6. Rec(g)
  BY <1>5
<1>7. Rec(f)
  BY <1>6
<1> HIDE DEF f
<1>8. f[{}] = m /\ f[{1}] = Reconcile(f[{1} \ {Max({1})}], open[Max({1})], exists)
  BY <1>4, <1>7
<1> QED
  BY <1>1, <1>2, <1>4, <1>8 DEF open

-----------------------------------------------------------------------------
(* Agents and their updates.                                               *)

Agent(p, d, s, t, r, b, l) ==
  [phase |-> p, deployment |-> d, status |-> s, totalPaid |-> t, receipt |-> r, budget |-> b,
   effects |-> l]

LEMMA AgentUpdates ==
  ASSUME NEW g \in Agents
  PROVE  /\ \A l : [g EXCEPT !.effects = l] =
                     Agent(g.phase, g.deployment, g.status, g.totalPaid, g.receipt, g.budget, l)
         /\ \A p : [g EXCEPT !.phase = p] =
                     Agent(p, g.deployment, g.status, g.totalPaid, g.receipt, g.budget, g.effects)
         /\ \A s : [g EXCEPT !.status = s] =
                     Agent(g.phase, g.deployment, s, g.totalPaid, g.receipt, g.budget, g.effects)
         /\ \A b : [g EXCEPT !.budget = b] =
                     Agent(g.phase, g.deployment, g.status, g.totalPaid, g.receipt, b, g.effects)
         /\ \A t, l : [g EXCEPT !.totalPaid = t, !.effects = l] =
                     Agent(g.phase, g.deployment, g.status, t, g.receipt, g.budget, l)
         /\ \A p, l : [g EXCEPT !.phase = p, !.effects = l] =
                     Agent(p, g.deployment, g.status, g.totalPaid, g.receipt, g.budget, l)
         /\ \A l, p : [g EXCEPT !.effects = l, !.phase = p] =
                     Agent(p, g.deployment, g.status, g.totalPaid, g.receipt, g.budget, l)
         /\ \A t, r : [g EXCEPT !.totalPaid = t, !.receipt = r] =
                     Agent(g.phase, g.deployment, g.status, t, r, g.budget, g.effects)
         /\ \A d, s, r : [g EXCEPT !.deployment = d, !.status = s, !.receipt = r] =
                     Agent(g.phase, d, s, g.totalPaid, r, g.budget, g.effects)
<1>1. \A l : [g EXCEPT !.effects = l] =
               Agent(g.phase, g.deployment, g.status, g.totalPaid, g.receipt, g.budget, l)
  BY DEF Agents, Agent
<1>2. \A p : [g EXCEPT !.phase = p] =
               Agent(p, g.deployment, g.status, g.totalPaid, g.receipt, g.budget, g.effects)
  BY DEF Agents, Agent
<1>3. \A s : [g EXCEPT !.status = s] =
               Agent(g.phase, g.deployment, s, g.totalPaid, g.receipt, g.budget, g.effects)
  BY DEF Agents, Agent
<1>4. \A b : [g EXCEPT !.budget = b] =
               Agent(g.phase, g.deployment, g.status, g.totalPaid, g.receipt, b, g.effects)
  BY DEF Agents, Agent
<1>5. \A t, l : [g EXCEPT !.totalPaid = t, !.effects = l] =
               Agent(g.phase, g.deployment, g.status, t, g.receipt, g.budget, l)
  <2> TAKE t, l
  <2> DEFINE h1 == [g EXCEPT !.totalPaid = t]
  <2> DEFINE h2 == [h1 EXCEPT !.effects = l]
  <2>1. [g EXCEPT !.totalPaid = t, !.effects = l] = h2
    BY DEF Agents
  <2>2. h1 = Agent(g.phase, g.deployment, g.status, t, g.receipt, g.budget, g.effects)
    BY DEF Agents, Agent
  <2> HIDE DEF h1
  <2>3. h2 = Agent(g.phase, g.deployment, g.status, t, g.receipt, g.budget, l)
    BY <2>2 DEF Agent
  <2> QED
    BY <2>1, <2>3
<1>6. \A p, l : [g EXCEPT !.phase = p, !.effects = l] =
               Agent(p, g.deployment, g.status, g.totalPaid, g.receipt, g.budget, l)
  <2> TAKE p, l
  <2> DEFINE h1 == [g EXCEPT !.phase = p]
  <2> DEFINE h2 == [h1 EXCEPT !.effects = l]
  <2>1. [g EXCEPT !.phase = p, !.effects = l] = h2
    BY DEF Agents
  <2>2. h1 = Agent(p, g.deployment, g.status, g.totalPaid, g.receipt, g.budget, g.effects)
    BY DEF Agents, Agent
  <2> HIDE DEF h1
  <2>3. h2 = Agent(p, g.deployment, g.status, g.totalPaid, g.receipt, g.budget, l)
    BY <2>2 DEF Agent
  <2> QED
    BY <2>1, <2>3
<1>7. \A l, p : [g EXCEPT !.effects = l, !.phase = p] =
               Agent(p, g.deployment, g.status, g.totalPaid, g.receipt, g.budget, l)
  <2> TAKE l, p
  <2> DEFINE h1 == [g EXCEPT !.effects = l]
  <2> DEFINE h2 == [h1 EXCEPT !.phase = p]
  <2>1. [g EXCEPT !.effects = l, !.phase = p] = h2
    BY DEF Agents
  <2>2. h1 = Agent(g.phase, g.deployment, g.status, g.totalPaid, g.receipt, g.budget, l)
    BY DEF Agents, Agent
  <2> HIDE DEF h1
  <2>3. h2 = Agent(p, g.deployment, g.status, g.totalPaid, g.receipt, g.budget, l)
    BY <2>2 DEF Agent
  <2> QED
    BY <2>1, <2>3
<1>8. \A t, r : [g EXCEPT !.totalPaid = t, !.receipt = r] =
               Agent(g.phase, g.deployment, g.status, t, r, g.budget, g.effects)
  <2> TAKE t, r
  <2> DEFINE h1 == [g EXCEPT !.totalPaid = t]
  <2> DEFINE h2 == [h1 EXCEPT !.receipt = r]
  <2>1. [g EXCEPT !.totalPaid = t, !.receipt = r] = h2
    BY DEF Agents
  <2>2. h1 = Agent(g.phase, g.deployment, g.status, t, g.receipt, g.budget, g.effects)
    BY DEF Agents, Agent
  <2> HIDE DEF h1
  <2>3. h2 = Agent(g.phase, g.deployment, g.status, t, r, g.budget, g.effects)
    BY <2>2 DEF Agent
  <2> QED
    BY <2>1, <2>3
<1>9. \A d, s, r : [g EXCEPT !.deployment = d, !.status = s, !.receipt = r] =
               Agent(g.phase, d, s, g.totalPaid, r, g.budget, g.effects)
  <2> TAKE d, s, r
  <2> DEFINE h1 == [g EXCEPT !.deployment = d]
  <2> DEFINE h2 == [h1 EXCEPT !.status = s]
  <2> DEFINE h3 == [h2 EXCEPT !.receipt = r]
  <2>1. [g EXCEPT !.deployment = d, !.status = s, !.receipt = r] = h3
    BY DEF Agents
  <2>2. h1 = Agent(g.phase, d, g.status, g.totalPaid, g.receipt, g.budget, g.effects)
    BY DEF Agents, Agent
  <2> HIDE DEF h1
  <2>3. h2 = Agent(g.phase, d, s, g.totalPaid, g.receipt, g.budget, g.effects)
    BY <2>2 DEF Agent
  <2> HIDE DEF h2
  <2>4. h3 = Agent(g.phase, d, s, g.totalPaid, r, g.budget, g.effects)
    BY <2>3 DEF Agent
  <2> QED
    BY <2>1, <2>4
<1> QED
  BY <1>1, <1>2, <1>3, <1>4, <1>5, <1>6, <1>7, <1>8, <1>9

LEMMA AgentFields ==
  ASSUME NEW p, NEW d, NEW s, NEW t, NEW r, NEW b, NEW l
  PROVE  LET g == Agent(p, d, s, t, r, b, l)
         IN /\ g.phase = p /\ g.deployment = d /\ g.status = s /\ g.totalPaid = t
            /\ g.receipt = r /\ g.budget = b /\ g.effects = l
BY DEF Agent

LEMMA AgentType ==
  ASSUME NEW g \in Agents
  PROVE  /\ g.phase \in Phases /\ g.deployment \in 0..Len(cloud) /\ g.status \in Statuses
         /\ g.totalPaid \in Nat /\ g.receipt \in 0..issued /\ g.budget \in 0..InitialBudget
         /\ g.effects \in Seq(Intents)
BY DEF Agents

\* What was issued or created stays known.
LEMMA AgentsGrow ==
  ASSUME cloud \in Seq(0..3), cloud' \in Seq(0..3), issued \in Nat, issued' \in Nat,
         issued <= issued', Len(cloud) <= Len(cloud'), NEW g \in Agents
  PROVE  g \in Agents'
<1>1. 0..issued \subseteq 0..issued' /\ 0..Len(cloud) \subseteq 0..Len(cloud')
  OBVIOUS
<1>2. Intents \subseteq Intents'
  <2>1. [kind : {"payment", "deploy"}, receipt : 0..issued]
          \subseteq [kind : {"payment", "deploy"}, receipt : 0..issued']
    BY <1>1
  <2> QED
    BY <2>1 DEF Intents
<1>3. Seq(Intents) \subseteq Seq(Intents')
  BY <1>2
<1> QED
  BY <1>1, <1>3 DEF Agents

LEMMA OneElement ==
  ASSUME NEW S, NEW l \in Seq(S), Len(l) = 1
  PROVE  l[1] \in S /\ l = <<l[1]>>
<1>1. l[1] \in S
  OBVIOUS
<1>2. l = <<l[1]>>
  OBVIOUS
<1> QED
  BY <1>1, <1>2

LEMMA LogShape ==
  ASSUME NEW g \in Agents, Len(g.effects) <= 1
  PROVE  g.effects = << >> \/ \E e \in Intents : g.effects = <<e>>
<1> DEFINE l == g.effects
<1>1. l \in Seq(Intents) /\ Len(l) <= 1
  BY DEF Agents
<1> HIDE DEF l
<1>2. CASE Len(l) = 0
  BY <1>1, <1>2 DEF l
<1>3. CASE Len(l) = 1
  <2>1. l[1] \in Intents /\ l = <<l[1]>>
    BY <1>1, <1>3, OneElement
  <2> QED
    BY <2>1 DEF l
<1>4. Len(l) \in Nat
  BY <1>1
<1>5. Len(l) = 0 \/ Len(l) = 1
  <2> DEFINE n == Len(l)
  <2>1. n \in Nat /\ n <= 1
    BY <1>1, <1>4
  <2> HIDE DEF n
  <2>2. n = 0 \/ n = 1
    BY <2>1
  <2> QED
    BY <2>2 DEF n
<1> QED
  BY <1>2, <1>3, <1>5

-----------------------------------------------------------------------------
(* The inductive invariant.                                                *)

\* No action of the agent is cut off: nothing is InFlight or Unresolved.
Clean(g) == \A i \in DOMAIN g.effects : g.effects[i].state = "Recorded"

\* What an agent may hold when no tick runs: at most one intent, in one of the
\* given states. A Recorded one fits the phase, and only an interrupted action
\* leaves an agent with a deployment in a phase before it.
PlanOK(g, states) ==
  /\ Len(g.effects) <= 1
  /\ \A i \in DOMAIN g.effects :
       LET e == g.effects[i]
       IN /\ e.state \in states
          /\ e.state = "Recorded" =>
               /\ e.data.kind = "payment" => g.phase = "payProvider"
               /\ e.data.kind = "deploy" => /\ g.phase = "deploy" /\ g.receipt # 0
                                            /\ e.data.receipt = g.receipt
  /\ Clean(g) /\ g.phase \in {"payProvider", "deploy"} => g.deployment = 0

\* An agent in the middle of an action of the given kind.
Acting(g, kind, phase) ==
  /\ Len(g.effects) = 1 /\ g.effects[1].state = "InFlight" /\ g.effects[1].data.kind = kind
  /\ g.phase = phase /\ g.deployment = 0

PlanInv ==
  /\ PlanOK(disk, {"Recorded", "InFlight", "Unresolved"})
  /\ pc = "idle" => PlanOK(mem, {"Recorded", "Unresolved"})
  /\ pc \in {"paying", "paid"} => Acting(mem, "payment", "payProvider")
  /\ pc \in {"posting", "posted"} => Acting(mem, "deploy", "deploy") /\ mem.receipt # 0
  /\ pc = "paid" => issued >= 1
  /\ pc = "posted" => Len(cloud) >= 1

LedgerInv ==
  faults["trap"] = 0 =>
    /\ Clean(disk) /\ disk.totalPaid + disk.budget = InitialBudget
    /\ pc \in {"idle", "paying", "posting", "posted"} => mem.totalPaid + mem.budget = InitialBudget
    /\ pc = "paid" => mem.totalPaid + mem.budget + 1 = InitialBudget
    /\ pc = "idle" => Clean(mem)

Broken == faults["crash"] + faults["trap"]

\* The agent has a receipt it will use, or a deployment.
PaidFor(g) == Clean(g) /\ (g.deployment # 0 \/ (g.phase = "deploy" /\ g.receipt # 0))
Deployed(g) == Clean(g) /\ g.deployment # 0

WasteInv ==
  /\ issued <= 1 + Broken /\ Len(cloud) <= 1 + Broken + faults["http"]
  /\ (pc = "paying" \/ (pc = "idle" /\ ~PaidFor(mem)) \/ (pc = "down" /\ ~PaidFor(disk)))
       => issued <= Broken
  /\ (\/ pc \in {"paying", "paid", "posting"}
      \/ pc = "idle" /\ ~Deployed(mem)
      \/ pc = "down" /\ ~Deployed(disk))
       => Len(cloud) <= Broken + faults["http"]

Inv == TypeOK /\ PlanInv /\ LedgerInv /\ WasteInv

LEMMA PlanEmpty ==
  ASSUME NEW g, g.effects = << >>, NEW S
  PROVE  Clean(g) /\ (PlanOK(g, S) <=> (g.phase \in {"payProvider", "deploy"} => g.deployment = 0))
<1>1. DOMAIN g.effects = {} /\ Len(g.effects) = 0
  OBVIOUS
<1> QED
  BY <1>1 DEF Clean, PlanOK

LEMMA PlanSingle ==
  ASSUME NEW g, NEW e, g.effects = <<e>>, NEW S
  PROVE  /\ Clean(g) <=> e.state = "Recorded"
         /\ PlanOK(g, S) <=>
              /\ e.state \in S
              /\ e.state = "Recorded" =>
                   /\ e.data.kind = "payment" => g.phase = "payProvider"
                   /\ e.data.kind = "deploy" => /\ g.phase = "deploy" /\ g.receipt # 0
                                                /\ e.data.receipt = g.receipt
                   /\ g.phase \in {"payProvider", "deploy"} => g.deployment = 0
<1>1. DOMAIN g.effects = {1} /\ Len(g.effects) = 1 /\ g.effects[1] = e
  OBVIOUS
<1>2. Clean(g) <=> e.state = "Recorded"
  BY <1>1 DEF Clean
<1> QED
  BY <1>1, <1>2 DEF PlanOK

LEMMA IntentType ==
  ASSUME NEW e \in Intents
  PROVE  /\ e.id \in Ids /\ e.state \in IntentStates /\ e.data.kind \in {"payment", "deploy"}
         /\ \A s \in IntentStates :
              /\ [e EXCEPT !.state = s] \in Intents /\ [e EXCEPT !.state = s].state = s
              /\ [e EXCEPT !.state = s].id = e.id /\ [e EXCEPT !.state = s].data = e.data
BY DEF Intents

LEMMA AgentIn ==
  ASSUME NEW p \in Phases, NEW d \in 0..Len(cloud), NEW s \in Statuses, NEW t \in Nat,
         NEW r \in 0..issued, NEW b \in 0..InitialBudget, NEW l \in Seq(Intents)
  PROVE  Agent(p, d, s, t, r, b, l) \in Agents
BY DEF Agent, Agents

LEMMA TypeStep ==
  ASSUME TypeOK, mem' \in Agents, disk' \in Agents, pc' \in PCs, cloud' \in Seq(0..3),
         Len(cloud) <= Len(cloud'), issued' \in Nat, issued <= issued', keys' \in 0..MaxKeys,
         faults' \in [FaultKinds -> Nat]
  PROVE  TypeOK'
<1>1. cloud \in Seq(0..3) /\ issued \in Nat
  BY DEF TypeOK
<1>2. mem' \in Agents' /\ disk' \in Agents'
  BY <1>1, AgentsGrow
<1> QED
  BY <1>2 DEF TypeOK

LEMMA FaultFields ==
  ASSUME TypeOK, NEW k \in FaultKinds, Fault(k)
  PROVE  /\ faults' \in [FaultKinds -> Nat] /\ faults'[k] = faults[k] + 1
         /\ \A j \in FaultKinds : j # k => faults'[j] = faults[j]
BY DEF TypeOK, Fault

LEMMA FaultTypes ==
  ASSUME TypeOK
  PROVE  /\ faults["crash"] \in Nat /\ faults["trap"] \in Nat /\ faults["http"] \in Nat
         /\ faults["refuse"] \in Nat /\ Broken \in Nat
<1>1. faults \in [FaultKinds -> Nat]
  BY DEF TypeOK
<1>2. /\ faults["crash"] \in Nat /\ faults["trap"] \in Nat /\ faults["http"] \in Nat
      /\ faults["refuse"] \in Nat
  BY <1>1 DEF FaultKinds
<1> QED
  BY <1>2 DEF Broken

\* The agent at a tick that goes to its phase has no intent.
LEMMA AtPhaseEmpty ==
  ASSUME TypeOK, PlanInv, NEW p, AtPhase(p)
  PROVE  /\ pc = "idle" /\ mem.phase = p /\ mem.effects = << >>
         /\ p \in {"payProvider", "deploy"} => mem.deployment = 0
<1>1. pc = "idle" /\ mem.phase = p /\ mem \in Agents /\ PlanOK(mem, {"Recorded", "Unresolved"})
      /\ Len(mem.effects) <= 1
  BY DEF AtPhase, TypeOK, PlanInv, PlanOK
<1>2. mem.effects = << >>
  <2> SUFFICES ASSUME NEW e \in Intents, mem.effects = <<e>> PROVE FALSE
    BY <1>1, LogShape
  <2>1. e.state \in {"Recorded", "Unresolved"}
    BY <1>1, PlanSingle
  <2>2. Select(mem.effects, {"Unresolved"}) = << >> /\ Select(mem.effects, {"Recorded"}) = << >>
    BY DEF AtPhase, Unresolved, InState
  <2>3. <<e>> # << >>
    OBVIOUS
  <2>4. CASE e.state = "Recorded"
    <3>1. Select(<<e>>, {"Recorded"}) = <<e>>
      BY <2>4, SelectOne
    <3> QED
      BY <2>2, <2>3, <3>1
  <2>5. CASE e.state = "Unresolved"
    <3>1. Select(<<e>>, {"Unresolved"}) = <<e>>
      BY <2>5, SelectOne
    <3> QED
      BY <2>2, <2>3, <3>1
  <2> QED
    BY <2>1, <2>4, <2>5
<1> QED
  BY <1>1, <1>2, PlanEmpty

\* The agent in the middle of an action has the one intent it has begun.
LEMMA ActingShape ==
  ASSUME NEW g \in Agents, NEW kind, NEW phase, Acting(g, kind, phase)
  PROVE  \E e \in Intents : /\ g.effects = <<e>> /\ e.state = "InFlight" /\ e.data.kind = kind
                            /\ g.phase = phase /\ g.deployment = 0
<1>1. g.effects \in Seq(Intents) /\ Len(g.effects) = 1
  BY DEF Agents, Acting
<1>2. g.effects[1] \in Intents /\ g.effects = <<g.effects[1]>>
  BY <1>1, OneElement
<1> QED
  BY <1>2 DEF Acting

LEMMA BegunIs ==
  ASSUME NEW e, mem.effects = <<e>>, e.state = "InFlight"
  PROVE  Begun = e.id
<1>1. DOMAIN mem.effects = {1} /\ mem.effects[1] = e
  OBVIOUS
<1>2. {mem.effects[i].id : i \in DOMAIN mem.effects} = {e.id}
  BY <1>1
<1> QED
  BY <1>1, <1>2 DEF Begun

LEMMA Settles ==
  ASSUME NEW e \in Intents, e.state \in {"InFlight", "Unresolved"}
  PROVE  Prune(Confirm(<<e>>, e.id)) = << >> /\ Prune(Compensate(<<e>>, e.id)) = << >>
<1>1. ASSUME NEW s \in {"Confirmed", "Compensated"}
      PROVE  Prune(Transition(<<e>>, e.id, {"InFlight", "Unresolved"}, s)) = << >>
  <2> DEFINE n == [e EXCEPT !.state = s]
  <2>1. n.state = s
    BY <1>1, IntentType DEF IntentStates
  <2>2. Transition(<<e>>, e.id, {"InFlight", "Unresolved"}, s) = <<n>>
    BY TransitionOne
  <2> HIDE DEF n
  <2>3. s \notin IntentStates \ Terminal
    BY DEF IntentStates, Terminal
  <2>4. Select(<<n>>, IntentStates \ Terminal) = << >>
    BY <2>1, <2>3, SelectOne
  <2> QED
    BY <2>2, <2>4 DEF Prune, Pending
<1>2. Prune(Transition(<<e>>, e.id, {"InFlight", "Unresolved"}, "Confirmed")) = << >>
  BY <1>1
<1>3. Prune(Transition(<<e>>, e.id, {"InFlight", "Unresolved"}, "Compensated")) = << >>
  BY <1>1
<1> QED
  BY <1>2, <1>3 DEF Confirm, Compensate

-----------------------------------------------------------------------------
(* The process.                                                            *)

\* Facts every step starts from.
LEMMA Basics ==
  ASSUME Inv
  PROVE  /\ TypeOK /\ PlanInv /\ LedgerInv /\ WasteInv
         /\ mem \in Agents /\ disk \in Agents /\ pc \in PCs /\ cloud \in Seq(0..3)
         /\ keys \in 0..MaxKeys /\ issued \in Nat /\ faults \in [FaultKinds -> Nat]
         /\ Len(cloud) \in Nat /\ InitialBudget \in Nat /\ MaxKeys \in Nat
         /\ << >> \in Seq(Intents)
<1>1. cloud \in Seq(0..3) /\ << >> \in Seq(Intents)
  BY DEF Inv, TypeOK
<1>2. Len(cloud) \in Nat
  BY <1>1
<1> QED
  BY <1>1, <1>2, DeployerAssumption DEF Inv, TypeOK

LEMMA StartStep == Inv /\ Start => Inv'
<1> SUFFICES ASSUME Inv, Start PROVE Inv'
  OBVIOUS
<1>0. /\ TypeOK /\ PlanInv /\ LedgerInv /\ WasteInv /\ disk \in Agents /\ cloud \in Seq(0..3)
      /\ keys \in 0..MaxKeys /\ issued \in Nat /\ faults \in [FaultKinds -> Nat]
      /\ Len(cloud) \in Nat /\ << >> \in Seq(Intents)
  BY Basics
<1>1. /\ pc = "down" /\ pc' = "idle" /\ UNCHANGED <<disk, cloud, keys, issued, faults>>
      /\ mem' = [disk EXCEPT !.effects = Resumed(disk.effects)]
  BY DEF Start, Restored
<1> DEFINE l == Resumed(disk.effects)
<1>2. PlanOK(disk, {"Recorded", "InFlight", "Unresolved"}) /\ Len(disk.effects) <= 1
  BY <1>0 DEF PlanInv, PlanOK
<1>3. /\ mem'.phase = disk.phase /\ mem'.deployment = disk.deployment
      /\ mem'.totalPaid = disk.totalPaid /\ mem'.receipt = disk.receipt
      /\ mem'.budget = disk.budget /\ mem'.effects = l
      /\ mem' = Agent(disk.phase, disk.deployment, disk.status, disk.totalPaid, disk.receipt,
                      disk.budget, l)
  <2>1. mem' = Agent(disk.phase, disk.deployment, disk.status, disk.totalPaid, disk.receipt,
                     disk.budget, l)
    BY <1>0, <1>1, AgentUpdates
  <2> HIDE DEF l
  <2> QED
    BY <2>1, AgentFields
<1>4. /\ l \in Seq(Intents) /\ PlanOK(mem', {"Recorded", "Unresolved"})
      /\ Clean(mem') <=> Clean(disk)
  <2>1. CASE disk.effects = << >>
    <3>1. l = << >>
      BY <2>1, ResumedOne
    <3> HIDE DEF l
    <3> QED
      BY <1>0, <1>2, <1>3, <2>1, <3>1, PlanEmpty
  <2>2. ASSUME NEW e \in Intents, disk.effects = <<e>>
        PROVE  /\ l \in Seq(Intents) /\ PlanOK(mem', {"Recorded", "Unresolved"})
               /\ Clean(mem') <=> Clean(disk)
    <3> DEFINE n == IF e.state = "InFlight" THEN [e EXCEPT !.state = "Unresolved"] ELSE e
    <3>1. l = <<n>>
      BY <2>2, ResumedOne
    <3>2. /\ n \in Intents /\ n.data = e.data
          /\ n.state = IF e.state = "InFlight" THEN "Unresolved" ELSE e.state
      <4>1. CASE e.state = "InFlight"
        <5>1. "Unresolved" \in IntentStates
          BY DEF IntentStates
        <5> DEFINE u == [e EXCEPT !.state = "Unresolved"]
        <5>2. u \in Intents /\ u.state = "Unresolved" /\ u.data = e.data
          BY <5>1, IntentType
        <5>3. n = u
          BY <4>1
        <5> HIDE DEF u, n
        <5> QED
          BY <4>1, <5>2, <5>3
      <4>2. CASE e.state # "InFlight"
        BY <4>2
      <4> QED
        BY <4>1, <4>2
    <3> HIDE DEF n, l
    <3>3. /\ e.state \in {"Recorded", "InFlight", "Unresolved"}
          /\ Clean(disk) <=> e.state = "Recorded"
          /\ e.state = "Recorded" =>
                   /\ e.data.kind = "payment" => disk.phase = "payProvider"
                   /\ e.data.kind = "deploy" => /\ disk.phase = "deploy" /\ disk.receipt # 0
                                                /\ e.data.receipt = disk.receipt
                   /\ disk.phase \in {"payProvider", "deploy"} => disk.deployment = 0
      BY <1>2, <2>2, PlanSingle
    <3>4. mem'.effects = <<n>>
      BY <1>3, <3>1
    <3>5. Clean(mem') <=> n.state = "Recorded"
      BY <3>4, PlanSingle
    <3>6. PlanOK(mem', {"Recorded", "Unresolved"})
      BY <1>3, <3>2, <3>3, <3>4, PlanSingle
    <3>7. l \in Seq(Intents)
      BY <3>1, <3>2
    <3> QED
      BY <3>2, <3>3, <3>5, <3>6, <3>7
  <2> QED
    BY <1>0, <1>2, <2>1, <2>2, LogShape
<1> HIDE DEF l
<1>5. mem' \in Agents
  BY <1>0, <1>3, <1>4, AgentType, AgentIn
<1>6. TypeOK'
  BY <1>0, <1>1, <1>5, TypeStep DEF PCs
<1>7. PlanInv'
  BY <1>0, <1>1, <1>4 DEF PlanInv
<1>8. LedgerInv'
  BY <1>0, <1>1, <1>3, <1>4 DEF LedgerInv
<1>9. (PaidFor(mem') <=> PaidFor(disk)) /\ (Deployed(mem') <=> Deployed(disk))
  BY <1>3, <1>4 DEF PaidFor, Deployed
<1>10. WasteInv'
  BY <1>0, <1>1, <1>9 DEF WasteInv, Broken
<1> QED
  BY <1>6, <1>7, <1>8, <1>10 DEF Inv

\* One more is no less.
LEMMA Slack ==
  ASSUME NEW a \in Nat, NEW b \in Nat, a <= b
  PROVE  a <= 1 + b
OBVIOUS

LEMMA PlanWeaken ==
  ASSUME NEW g, PlanOK(g, {"Recorded", "Unresolved"})
  PROVE  PlanOK(g, {"Recorded", "InFlight", "Unresolved"})
BY DEF PlanOK

LEMMA SaveStep == Inv /\ Save => Inv'
<1> SUFFICES ASSUME Inv, Save PROVE Inv'
  OBVIOUS
<1>0. /\ TypeOK /\ PlanInv /\ LedgerInv /\ WasteInv /\ mem \in Agents /\ cloud \in Seq(0..3)
      /\ keys \in 0..MaxKeys /\ issued \in Nat /\ faults \in [FaultKinds -> Nat]
      /\ Len(cloud) \in Nat
  BY Basics
<1>1. /\ pc = "idle" /\ disk' = mem /\ pc' \in {"idle", "down"}
      /\ UNCHANGED <<mem, cloud, keys, issued, faults>>
  BY DEF Save
<1>2. TypeOK'
  BY <1>0, <1>1, TypeStep DEF PCs
<1>3. PlanOK(mem, {"Recorded", "Unresolved"})
  BY <1>0, <1>1 DEF PlanInv
<1>4. PlanInv'
  BY <1>1, <1>3, PlanWeaken DEF PlanInv
<1>5. LedgerInv'
  BY <1>0, <1>1 DEF LedgerInv
<1>6. Broken' = Broken /\ issued' = issued /\ cloud' = cloud /\ faults' = faults /\ mem' = mem
  BY <1>1 DEF Broken
<1>7. /\ issued <= 1 + Broken /\ Len(cloud) <= 1 + Broken + faults["http"]
      /\ ~PaidFor(mem) => issued <= Broken
      /\ ~Deployed(mem) => Len(cloud) <= Broken + faults["http"]
  <2>1. WasteInv
    BY <1>0
  <2> QED
    BY <1>1, <2>1 DEF WasteInv
<1>8. WasteInv'
  BY <1>1, <1>6, <1>7 DEF WasteInv
<1> QED
  BY <1>2, <1>4, <1>5, <1>8 DEF Inv

LEMMA CrashStep == Inv /\ Crash => Inv'
<1> SUFFICES ASSUME Inv, Crash PROVE Inv'
  OBVIOUS
<1>0. /\ TypeOK /\ PlanInv /\ LedgerInv /\ WasteInv /\ mem \in Agents /\ disk \in Agents
      /\ cloud \in Seq(0..3) /\ keys \in 0..MaxKeys /\ issued \in Nat /\ Len(cloud) \in Nat
  BY Basics
<1>1. pc' = "down" /\ UNCHANGED <<mem, disk, cloud, keys, issued>> /\ Fault("crash")
  BY DEF Crash
<1>2. /\ faults' \in [FaultKinds -> Nat] /\ faults'["crash"] = faults["crash"] + 1
      /\ faults'["trap"] = faults["trap"] /\ faults'["http"] = faults["http"]
  BY <1>0, <1>1, FaultFields DEF FaultKinds
<1>3. faults["crash"] \in Nat /\ faults["trap"] \in Nat /\ faults["http"] \in Nat
  BY <1>0, FaultTypes
<1>4. TypeOK'
  BY <1>0, <1>1, <1>2, TypeStep DEF PCs
<1>5. PlanInv'
  BY <1>0, <1>1 DEF PlanInv
<1>6. LedgerInv'
  BY <1>0, <1>1, <1>2 DEF LedgerInv
<1>7. issued <= Broken' /\ Len(cloud) <= Broken' + faults'["http"]
  BY <1>0, <1>2, <1>3 DEF WasteInv, Broken
<1>8. Broken' \in Nat /\ faults'["http"] \in Nat
  BY <1>2, <1>3 DEF Broken
<1>9. issued' <= 1 + Broken' /\ Len(cloud') <= 1 + Broken' + faults'["http"]
  <2> DEFINE n == Len(cloud)
  <2>1. n \in Nat /\ n <= Broken' + faults'["http"]
    BY <1>0, <1>7
  <2>2. issued' = issued /\ cloud' = cloud
    BY <1>1
  <2> HIDE DEF n
  <2>3. n <= 1 + Broken' + faults'["http"]
    BY <2>1, <1>8
  <2>4. issued <= 1 + Broken'
    <3>1. issued \in Nat /\ issued <= Broken'
      BY <1>0, <1>7
    <3> QED
      BY <1>8, <3>1, Slack
  <2> QED
    BY <2>2, <2>3, <2>4 DEF n
<1>10. WasteInv'
  BY <1>1, <1>7, <1>9 DEF WasteInv
<1> QED
  BY <1>4, <1>5, <1>6, <1>10 DEF Inv

LEMMA NotedFields ==
  ASSUME Inv
  PROVE  /\ NotedPayment = Agent(mem.phase, mem.deployment, mem.status, mem.totalPaid + 1, issued,
                                 mem.budget, mem.effects)
         /\ NotedDeploy = Agent(mem.phase, Len(cloud), "pending", mem.totalPaid, 0, mem.budget,
                                mem.effects)
         /\ NotedPayment \in Agents /\ NotedDeploy \in Agents
<1>0. mem \in Agents /\ issued \in Nat /\ Len(cloud) \in Nat
  BY Basics
<1>1. NotedPayment = [mem EXCEPT !.totalPaid = mem.totalPaid + 1, !.receipt = issued]
      /\ NotedDeploy = [mem EXCEPT !.deployment = Len(cloud), !.status = "pending", !.receipt = 0]
  BY DEF NotedPayment, NotedDeploy
<1>2. /\ NotedPayment = Agent(mem.phase, mem.deployment, mem.status, mem.totalPaid + 1, issued,
                              mem.budget, mem.effects)
      /\ NotedDeploy = Agent(mem.phase, Len(cloud), "pending", mem.totalPaid, 0, mem.budget,
                             mem.effects)
  <2>1. \A t, r : [mem EXCEPT !.totalPaid = t, !.receipt = r] =
                     Agent(mem.phase, mem.deployment, mem.status, t, r, mem.budget, mem.effects)
    BY <1>0, AgentUpdates
  <2>2. \A d, s, r : [mem EXCEPT !.deployment = d, !.status = s, !.receipt = r] =
                     Agent(mem.phase, d, s, mem.totalPaid, r, mem.budget, mem.effects)
    BY <1>0, AgentUpdates
  <2> QED
    BY <1>1, <2>1, <2>2
<1>3. /\ mem.phase \in Phases /\ mem.deployment \in 0..Len(cloud) /\ mem.status \in Statuses
      /\ mem.totalPaid \in Nat /\ mem.receipt \in 0..issued /\ mem.budget \in 0..InitialBudget
      /\ mem.effects \in Seq(Intents)
  BY <1>0, AgentType
<1>4. /\ mem.totalPaid + 1 \in Nat /\ issued \in 0..issued /\ 0 \in 0..issued
      /\ Len(cloud) \in 0..Len(cloud) /\ "pending" \in Statuses
  BY <1>0, <1>3 DEF Statuses
<1> QED
  BY <1>2, <1>3, <1>4, AgentIn

LEMMA TrapStep == Inv /\ Trap => Inv'
<1> SUFFICES ASSUME Inv, Trap PROVE Inv'
  OBVIOUS
<1>0. /\ TypeOK /\ PlanInv /\ LedgerInv /\ WasteInv /\ mem \in Agents /\ disk \in Agents
      /\ cloud \in Seq(0..3) /\ keys \in 0..MaxKeys /\ issued \in Nat /\ Len(cloud) \in Nat
  BY Basics
<1>1. /\ pc \in {"paying", "paid", "posting", "posted"} /\ pc' = "down" /\ mem' = disk'
      /\ disk' \in {mem, NotedPayment, NotedDeploy}
      /\ UNCHANGED <<cloud, keys, issued>> /\ Fault("trap")
  BY DEF Trap
<1>2. /\ faults' \in [FaultKinds -> Nat] /\ faults'["trap"] = faults["trap"] + 1
      /\ faults'["crash"] = faults["crash"] /\ faults'["http"] = faults["http"]
  BY <1>0, <1>1, FaultFields DEF FaultKinds
<1>3. faults["crash"] \in Nat /\ faults["trap"] \in Nat /\ faults["http"] \in Nat
  BY <1>0, FaultTypes
<1>4. disk' \in Agents /\ disk'.effects = mem.effects
  <2>1. NotedPayment \in Agents /\ NotedDeploy \in Agents
    BY NotedFields
  <2>2. NotedPayment.effects = mem.effects /\ NotedDeploy.effects = mem.effects
    BY NotedFields, AgentFields
  <2> QED
    BY <1>0, <1>1, <2>1, <2>2
<1>5. TypeOK'
  BY <1>0, <1>1, <1>2, <1>4, TypeStep DEF PCs
<1>6. PICK e \in Intents : mem.effects = <<e>> /\ e.state = "InFlight"
  <2>1. Acting(mem, "payment", "payProvider") \/ Acting(mem, "deploy", "deploy")
    BY <1>0, <1>1 DEF PlanInv
  <2> QED
    BY <1>0, <2>1, ActingShape
<1>7. PlanOK(disk', {"Recorded", "InFlight", "Unresolved"})
  BY <1>4, <1>6, PlanSingle
<1>8. PlanInv'
  BY <1>1, <1>7 DEF PlanInv
<1>9. LedgerInv'
  BY <1>2, <1>3 DEF LedgerInv
<1>10. issued <= Broken' /\ Len(cloud) <= Broken' + faults'["http"]
  BY <1>0, <1>2, <1>3 DEF WasteInv, Broken
<1>11. Broken' \in Nat /\ faults'["http"] \in Nat
  BY <1>2, <1>3 DEF Broken
<1>12. issued' <= 1 + Broken' /\ Len(cloud') <= 1 + Broken' + faults'["http"]
  <2> DEFINE n == Len(cloud)
  <2>1. n \in Nat /\ n <= Broken' + faults'["http"]
    BY <1>0, <1>10
  <2>2. issued' = issued /\ cloud' = cloud
    BY <1>1
  <2> HIDE DEF n
  <2>3. n <= 1 + Broken' + faults'["http"]
    BY <2>1, <1>11
  <2>4. issued <= 1 + Broken'
    <3>1. issued \in Nat /\ issued <= Broken'
      BY <1>0, <1>10
    <3> QED
      BY <1>11, <3>1, Slack
  <2> QED
    BY <2>2, <2>3, <2>4 DEF n
<1>13. WasteInv'
  BY <1>1, <1>10, <1>12 DEF WasteInv
<1> QED
  BY <1>5, <1>8, <1>9, <1>13 DEF Inv

-----------------------------------------------------------------------------
(* Ticks that perform no bracketed action.                                 *)

LEMMA QueriedFields ==
  ASSUME cloud \in Seq(0..3), NEW d \in 1..Len(cloud)
  PROVE  Queried(d) \in Seq(0..3) /\ Len(Queried(d)) = Len(cloud)
<1>1. cloud[d] \in 0..3
  OBVIOUS
<1>2. (IF cloud[d] < 3 THEN cloud[d] + 1 ELSE cloud[d]) \in 0..3
  BY <1>1
<1> DEFINE v == IF cloud[d] < 3 THEN cloud[d] + 1 ELSE cloud[d]
<1>3. Queried(d) = [cloud EXCEPT ![d] = v]
  BY DEF Queried
<1> HIDE DEF v
<1> QED
  BY <1>2, <1>3 DEF v

\* A step of an agent that is idle and empty before and idle after it, and
\* keeps its account.
LEMMA IdleStep ==
  ASSUME Inv, pc = "idle", pc' = "idle", Clean(mem), disk' = disk, issued' = issued,
         Len(cloud') = Len(cloud), TypeOK', PlanOK(mem', {"Recorded", "Unresolved"}), Clean(mem'),
         mem'.totalPaid = mem.totalPaid, mem'.budget = mem.budget,
         faults'["crash"] = faults["crash"], faults'["trap"] = faults["trap"],
         faults'["http"] \in Nat, faults'["http"] >= faults["http"],
         PaidFor(mem) => PaidFor(mem'), Deployed(mem) => Deployed(mem')
  PROVE  Inv'
<1>0. TypeOK /\ PlanInv /\ LedgerInv /\ WasteInv /\ issued \in Nat /\ Len(cloud) \in Nat
  BY Basics
<1>1. /\ faults["crash"] \in Nat /\ faults["trap"] \in Nat /\ faults["http"] \in Nat
      /\ Broken \in Nat
  BY <1>0, FaultTypes
<1>2. Broken' = Broken
  BY DEF Broken
<1>3. PlanInv'
  BY <1>0 DEF PlanInv
<1>4. LedgerInv'
  BY <1>0 DEF LedgerInv
<1>5. issued' <= 1 + Broken' /\ Len(cloud') <= 1 + Broken' + faults'["http"]
  <2>1. issued <= 1 + Broken /\ Len(cloud) <= 1 + Broken + faults["http"]
    BY <1>0 DEF WasteInv
  <2> QED
    BY <1>0, <1>1, <1>2, <2>1
<1>6. ~PaidFor(mem') => issued' <= Broken'
  BY <1>0, <1>2 DEF WasteInv
<1>7. ~Deployed(mem') => Len(cloud') <= Broken' + faults'["http"]
  <2> SUFFICES ASSUME ~Deployed(mem') PROVE Len(cloud') <= Broken' + faults'["http"]
    OBVIOUS
  <2>1. Len(cloud) <= Broken + faults["http"]
    BY <1>0 DEF WasteInv
  <2> QED
    BY <1>0, <1>1, <1>2, <2>1
<1>8. WasteInv'
  BY <1>5, <1>6, <1>7 DEF WasteInv
<1> QED
  BY <1>3, <1>4, <1>8 DEF Inv

LEMMA RecordShape ==
  ASSUME Inv, mem.effects = << >>, NEW data \in [kind : {"payment", "deploy"}, receipt : 0..issued],
         RecordIntent(data)
  PROVE  /\ keys' \in 0..MaxKeys
         /\ \E e \in Intents : /\ e.state = "Recorded" /\ e.data = data
                               /\ mem' = Agent(mem.phase, mem.deployment, mem.status, mem.totalPaid,
                                               mem.receipt, mem.budget, <<e>>)
<1>0. mem \in Agents /\ keys \in 0..MaxKeys /\ MaxKeys \in Nat
  BY Basics
<1>1. keys < MaxKeys /\ keys' = keys + 1
  BY DEF RecordIntent
<1>2. PICK even \in BOOLEAN :
        mem' = [mem EXCEPT !.effects = Record(mem.effects, [n |-> keys, even |-> even], data)]
  BY DEF RecordIntent
<1> DEFINE id == [n |-> keys, even |-> even]
           e == [id |-> id, state |-> "Recorded", data |-> data]
<1>3. id \in Ids
  BY <1>0, <1>1 DEF Ids
<1>4. Record(<< >>, id, data) = <<e>>
  BY RecordFirst
<1>5. mem' = [mem EXCEPT !.effects = <<e>>]
  BY <1>2, <1>4
<1> HIDE DEF id
<1>6. e \in Intents /\ e.state = "Recorded" /\ e.data = data
  BY <1>3 DEF Intents, IntentStates
<1> HIDE DEF e
<1>7. mem' = Agent(mem.phase, mem.deployment, mem.status, mem.totalPaid, mem.receipt, mem.budget,
                   <<e>>)
  BY <1>0, <1>5, AgentUpdates
<1> QED
  BY <1>0, <1>1, <1>6, <1>7

\* An idle agent without an intent goes to another phase, or takes a status.
LEMMA MoveStep ==
  ASSUME Inv, pc = "idle", mem.effects = << >>, NEW p \in Phases, NEW s \in Statuses,
         mem' = Agent(p, mem.deployment, s, mem.totalPaid, mem.receipt, mem.budget, mem.effects),
         p \in {"payProvider", "deploy"} => mem.deployment = 0,
         mem.deployment # 0 \/ mem.phase # "deploy" \/ mem.receipt = 0,
         pc' = pc, disk' = disk, cloud' \in Seq(0..3), Len(cloud') = Len(cloud), keys' = keys,
         issued' = issued, faults' = faults
  PROVE  Inv'
<1>0. /\ TypeOK /\ mem \in Agents /\ disk \in Agents /\ keys \in 0..MaxKeys /\ issued \in Nat
      /\ faults \in [FaultKinds -> Nat] /\ Len(cloud) \in Nat /\ cloud \in Seq(0..3)
  BY Basics
<1>1. /\ mem'.phase = p /\ mem'.deployment = mem.deployment /\ mem'.totalPaid = mem.totalPaid
      /\ mem'.receipt = mem.receipt /\ mem'.budget = mem.budget /\ mem'.effects = << >>
  BY AgentFields
<1>2. mem' \in Agents
  BY <1>0, AgentType, AgentIn
<1>3. TypeOK'
  BY <1>0, <1>2, TypeStep DEF PCs
<1>4. Clean(mem) /\ Clean(mem') /\ PlanOK(mem', {"Recorded", "Unresolved"})
  BY <1>1, PlanEmpty
<1>5. (PaidFor(mem) => PaidFor(mem')) /\ (Deployed(mem) => Deployed(mem'))
  BY <1>1, <1>4 DEF PaidFor, Deployed
<1>6. faults'["http"] \in Nat /\ faults'["http"] >= faults["http"]
  BY <1>0, FaultTypes
<1> QED
  BY <1>1, <1>3, <1>4, <1>5, <1>6, IdleStep

LEMMA CheckBudgetStep == Inv /\ CheckBudget => Inv'
<1> SUFFICES ASSUME Inv, CheckBudget PROVE Inv'
  OBVIOUS
<1>0. TypeOK /\ PlanInv /\ mem \in Agents /\ cloud \in Seq(0..3)
  BY Basics
<1> DEFINE p == IF mem.deployment # 0 THEN "monitor" ELSE "payProvider"
<1>1. /\ AtPhase("checkBudget") /\ mem' = [mem EXCEPT !.phase = p]
      /\ UNCHANGED <<pc, disk, cloud, keys, issued, faults>>
  BY DEF CheckBudget
<1>2. pc = "idle" /\ mem.phase = "checkBudget" /\ mem.effects = << >>
  BY <1>0, <1>1, AtPhaseEmpty
<1>3. p \in Phases /\ (p \in {"payProvider", "deploy"} => mem.deployment = 0)
  BY DEF Phases
<1> HIDE DEF p
<1>4. /\ mem' = Agent(p, mem.deployment, mem.status, mem.totalPaid, mem.receipt, mem.budget,
                      mem.effects)
      /\ mem.status \in Statuses
  BY <1>0, <1>1, AgentUpdates, AgentType
<1> QED
  BY <1>0, <1>1, <1>2, <1>3, <1>4, MoveStep

\* An idle agent without an intent records one that fits its phase.
LEMMA PlanStep ==
  ASSUME Inv, pc = "idle", mem.effects = << >>, mem.deployment = 0,
         NEW data \in [kind : {"payment", "deploy"}, receipt : 0..issued], RecordIntent(data),
         data.kind = "payment" => mem.phase = "payProvider",
         data.kind = "deploy" => /\ mem.phase = "deploy" /\ mem.receipt # 0
                                 /\ data.receipt = mem.receipt,
         UNCHANGED <<pc, disk, cloud, issued, faults>>
  PROVE  Inv'
<1>0. /\ TypeOK /\ mem \in Agents /\ disk \in Agents /\ keys \in 0..MaxKeys /\ issued \in Nat
      /\ faults \in [FaultKinds -> Nat] /\ Len(cloud) \in Nat /\ cloud \in Seq(0..3)
  BY Basics
<1>1. PICK e \in Intents : /\ e.state = "Recorded" /\ e.data = data
                           /\ mem' = Agent(mem.phase, mem.deployment, mem.status, mem.totalPaid,
                                           mem.receipt, mem.budget, <<e>>)
  BY RecordShape
<1>2. keys' \in 0..MaxKeys
  BY RecordShape
<1>3. /\ mem'.phase = mem.phase /\ mem'.deployment = mem.deployment
      /\ mem'.totalPaid = mem.totalPaid /\ mem'.receipt = mem.receipt
      /\ mem'.budget = mem.budget /\ mem'.effects = <<e>>
  BY <1>1, AgentFields
<1>4. <<e>> \in Seq(Intents)
  OBVIOUS
<1>5. mem' \in Agents
  BY <1>0, <1>1, <1>4, AgentType, AgentIn
<1>6. TypeOK'
  BY <1>0, <1>2, <1>5, TypeStep DEF PCs
<1>7. Clean(mem) /\ Clean(mem') /\ PlanOK(mem', {"Recorded", "Unresolved"})
  BY <1>1, <1>3, PlanEmpty, PlanSingle
<1>8. (PaidFor(mem) => PaidFor(mem')) /\ (Deployed(mem) => Deployed(mem'))
  BY <1>3, <1>7 DEF PaidFor, Deployed
<1>9. faults'["http"] \in Nat /\ faults'["http"] >= faults["http"]
  BY <1>0, FaultTypes
<1> QED
  BY <1>3, <1>6, <1>7, <1>8, <1>9, IdleStep

LEMMA PayProviderStep == Inv /\ PayProvider => Inv'
<1> SUFFICES ASSUME Inv, PayProvider PROVE Inv'
  OBVIOUS
<1> DEFINE data == [kind |-> "payment", receipt |-> 0]
<1>0. TypeOK /\ PlanInv /\ issued \in Nat
  BY Basics
<1>1. /\ AtPhase("payProvider") /\ RecordIntent(data)
      /\ UNCHANGED <<pc, disk, cloud, issued, faults>>
  BY DEF PayProvider
<1>2. pc = "idle" /\ mem.phase = "payProvider" /\ mem.effects = << >> /\ mem.deployment = 0
  BY <1>0, <1>1, AtPhaseEmpty
<1>3. data \in [kind : {"payment", "deploy"}, receipt : 0..issued] /\ data.kind = "payment"
  BY <1>0
<1> HIDE DEF data
<1> QED
  BY <1>1, <1>2, <1>3, PlanStep

LEMMA TickDeployStep == Inv /\ TickDeploy => Inv'
<1> SUFFICES ASSUME Inv, TickDeploy PROVE Inv'
  OBVIOUS
<1> DEFINE data == [kind |-> "deploy", receipt |-> mem.receipt]
<1>0. TypeOK /\ PlanInv /\ issued \in Nat /\ mem \in Agents /\ cloud \in Seq(0..3)
  BY Basics
<1>1. AtPhase("deploy") /\ UNCHANGED <<pc, disk, cloud, issued, faults>>
  BY DEF TickDeploy
<1>2. pc = "idle" /\ mem.phase = "deploy" /\ mem.effects = << >> /\ mem.deployment = 0
  BY <1>0, <1>1, AtPhaseEmpty
<1>3. CASE mem.receipt = 0
  <2>1. mem' = [mem EXCEPT !.phase = "payProvider"] /\ keys' = keys
    BY <1>3 DEF TickDeploy
  <2>2. /\ mem' = Agent("payProvider", mem.deployment, mem.status, mem.totalPaid, mem.receipt,
                        mem.budget, mem.effects)
        /\ mem.status \in Statuses
    BY <1>0, <2>1, AgentUpdates, AgentType
  <2>3. "payProvider" \in Phases
    BY DEF Phases
  <2> QED
    BY <1>0, <1>1, <1>2, <1>3, <2>1, <2>2, <2>3, MoveStep
<1>4. CASE mem.receipt # 0
  <2>1. RecordIntent(data)
    BY <1>4 DEF TickDeploy
  <2>2. mem.receipt \in 0..issued
    BY <1>0, AgentType
  <2>3. /\ data \in [kind : {"payment", "deploy"}, receipt : 0..issued] /\ data.kind = "deploy"
        /\ data.receipt = mem.receipt
    BY <2>2
  <2> HIDE DEF data
  <2> QED
    BY <1>1, <1>2, <1>4, <2>1, <2>3, PlanStep
<1> QED
  BY <1>3, <1>4

LEMMA MonitorStep == Inv /\ Monitor => Inv'
<1> SUFFICES ASSUME Inv, Monitor PROVE Inv'
  OBVIOUS
<1>0. TypeOK /\ PlanInv /\ mem \in Agents /\ cloud \in Seq(0..3) /\ Len(cloud) \in Nat
  BY Basics
<1>1. AtPhase("monitor") /\ UNCHANGED <<pc, disk, keys, issued, faults>>
  BY DEF Monitor
<1>2. pc = "idle" /\ mem.phase = "monitor" /\ mem.effects = << >>
  BY <1>0, <1>1, AtPhaseEmpty
<1>3. CASE mem.deployment = 0
  <2>1. mem' = [mem EXCEPT !.phase = "checkBudget"] /\ cloud' = cloud
    BY <1>3 DEF Monitor
  <2>2. /\ mem' = Agent("checkBudget", mem.deployment, mem.status, mem.totalPaid, mem.receipt,
                        mem.budget, mem.effects)
        /\ mem.status \in Statuses
    BY <1>0, <2>1, AgentUpdates, AgentType
  <2>3. "checkBudget" \in Phases
    BY DEF Phases
  <2> QED
    BY <1>0, <1>1, <1>2, <1>3, <2>1, <2>2, <2>3, MoveStep
<1>4. CASE mem.deployment # 0
  <2> DEFINE s == StatusAt(cloud'[mem.deployment])
  <2>1. cloud' = Queried(mem.deployment) /\ mem' = [mem EXCEPT !.status = s]
    BY <1>4 DEF Monitor
  <2>2. s \in Statuses
    BY DEF StatusAt, Statuses
  <2> HIDE DEF s
  <2>3. mem.deployment \in 1..Len(cloud) /\ mem.phase \in Phases
    BY <1>0, <1>4, AgentType
  <2>4. cloud' \in Seq(0..3) /\ Len(cloud') = Len(cloud)
    BY <1>0, <2>1, <2>3, QueriedFields
  <2>5. mem' = Agent(mem.phase, mem.deployment, s, mem.totalPaid, mem.receipt, mem.budget,
                     mem.effects)
    BY <1>0, <2>1, AgentUpdates
  <2> QED
    BY <1>1, <1>2, <1>4, <2>2, <2>3, <2>4, <2>5, MoveStep
<1> QED
  BY <1>3, <1>4

LEMMA MonitorFailsStep == Inv /\ MonitorFails => Inv'
<1> SUFFICES ASSUME Inv, MonitorFails PROVE Inv'
  OBVIOUS
<1>0. /\ TypeOK /\ PlanInv /\ mem \in Agents /\ disk \in Agents /\ cloud \in Seq(0..3)
      /\ Len(cloud) \in Nat /\ keys \in 0..MaxKeys /\ issued \in Nat
  BY Basics
<1>1. /\ AtPhase("monitor") /\ mem.deployment # 0 /\ cloud' = Queried(mem.deployment)
      /\ Fault("http") /\ UNCHANGED <<pc, mem, disk, keys, issued>>
  BY DEF MonitorFails
<1>2. pc = "idle" /\ mem.phase = "monitor" /\ mem.effects = << >>
  BY <1>0, <1>1, AtPhaseEmpty
<1>3. mem.deployment \in 1..Len(cloud)
  BY <1>0, <1>1, AgentType
<1>4. cloud' \in Seq(0..3) /\ Len(cloud') = Len(cloud)
  BY <1>0, <1>1, <1>3, QueriedFields
<1>5. /\ faults' \in [FaultKinds -> Nat] /\ faults'["http"] = faults["http"] + 1
      /\ faults'["trap"] = faults["trap"] /\ faults'["crash"] = faults["crash"]
  BY <1>0, <1>1, FaultFields DEF FaultKinds
<1>6. faults'["http"] \in Nat /\ faults'["http"] >= faults["http"]
  BY <1>0, <1>5, FaultTypes
<1>7. TypeOK'
  BY <1>0, <1>1, <1>2, <1>4, <1>5, TypeStep DEF PCs
<1>8. Clean(mem) /\ PlanOK(mem, {"Recorded", "Unresolved"})
  BY <1>2, PlanEmpty
<1> QED
  BY <1>1, <1>2, <1>4, <1>5, <1>6, <1>7, <1>8, IdleStep

\* What reconcilePayment and reconcileDeploy make of the one Unresolved intent.
LEMMA ReconcileShape ==
  ASSUME Inv, NEW e \in Intents, mem.effects = <<e>>, e.state = "Unresolved", NEW exists
  PROVE  LET r == Reconcile(mem, e, exists)
         IN /\ r \in Agents /\ Prune(r.effects) = << >>
            /\ r.deployment = mem.deployment /\ r.receipt = mem.receipt
<1>0. mem \in Agents
  BY Basics
<1>1. /\ Prune(Confirm(mem.effects, e.id)) = << >>
      /\ Prune(Compensate(mem.effects, e.id)) = << >>
  BY Settles
<1> DEFINE lc == Confirm(mem.effects, e.id)
           lk == Compensate(mem.effects, e.id)
<1>2. lc \in Seq(Intents) /\ lk \in Seq(Intents)
  <2>1. ASSUME NEW s \in {"Confirmed", "Compensated"}
        PROVE  Transition(<<e>>, e.id, {"InFlight", "Unresolved"}, s) \in Seq(Intents)
    <3> DEFINE n == [e EXCEPT !.state = s]
    <3>1. n \in Intents
      BY <2>1, IntentType DEF IntentStates
    <3>2. Transition(<<e>>, e.id, {"InFlight", "Unresolved"}, s) = <<n>>
      BY TransitionOne
    <3> HIDE DEF n
    <3>3. <<n>> \in Seq(Intents)
      BY <3>1
    <3> QED
      BY <3>2, <3>3
  <2>2. /\ Transition(<<e>>, e.id, {"InFlight", "Unresolved"}, "Confirmed") \in Seq(Intents)
        /\ Transition(<<e>>, e.id, {"InFlight", "Unresolved"}, "Compensated") \in Seq(Intents)
    BY <2>1
  <2> QED
    BY <2>2 DEF Confirm, Compensate
<1> HIDE DEF lc, lk
<1> DEFINE r == Reconcile(mem, e, exists)
<1>3. \/ r = [mem EXCEPT !.totalPaid = mem.totalPaid + 1, !.effects = lc]
      \/ r = [mem EXCEPT !.effects = lc]
      \/ r = [mem EXCEPT !.effects = lk]
  BY DEF Reconcile, lc, lk
<1> HIDE DEF r
<1>4. \E t \in Nat, l \in {lc, lk} :
        r = Agent(mem.phase, mem.deployment, mem.status, t, mem.receipt, mem.budget, l)
  <2>1. mem.totalPaid \in Nat /\ mem.totalPaid + 1 \in Nat
    BY <1>0, AgentType
  <2>2. CASE r = [mem EXCEPT !.totalPaid = mem.totalPaid + 1, !.effects = lc]
    <3>1. \A t, l : [mem EXCEPT !.totalPaid = t, !.effects = l] =
            Agent(mem.phase, mem.deployment, mem.status, t, mem.receipt, mem.budget, l)
      BY <1>0, AgentUpdates
    <3>2. r = Agent(mem.phase, mem.deployment, mem.status, mem.totalPaid + 1, mem.receipt,
                    mem.budget, lc)
      BY <2>2, <3>1
    <3> QED
      BY <2>1, <3>2
  <2>3. ASSUME NEW l \in {lc, lk}, r = [mem EXCEPT !.effects = l]
        PROVE  \E t \in Nat, k \in {lc, lk} :
                 r = Agent(mem.phase, mem.deployment, mem.status, t, mem.receipt, mem.budget, k)
    <3>1. r = Agent(mem.phase, mem.deployment, mem.status, mem.totalPaid, mem.receipt,
                    mem.budget, l)
      BY <1>0, <2>3, AgentUpdates
    <3> QED
      BY <2>1, <3>1
  <2> QED
    BY <1>3, <2>2, <2>3
<1>5. PICK t \in Nat, l \in {lc, lk} :
        r = Agent(mem.phase, mem.deployment, mem.status, t, mem.receipt, mem.budget, l)
  BY <1>4
<1>6. r.effects = l /\ r.deployment = mem.deployment /\ r.receipt = mem.receipt
  BY <1>5, AgentFields
<1>7. r \in Agents
  BY <1>0, <1>2, <1>5, AgentType, AgentIn
<1>8. Prune(l) = << >>
  BY <1>1 DEF lc, lk
<1> QED
  BY <1>6, <1>7, <1>8 DEF r

LEMMA ReconcilingStep ==
  ASSUME Inv, NEW exists \in BOOLEAN, Reconciling(exists)
  PROVE  Inv'
<1>0. /\ TypeOK /\ PlanInv /\ LedgerInv /\ WasteInv /\ mem \in Agents /\ disk \in Agents
      /\ cloud \in Seq(0..3) /\ Len(cloud) \in Nat /\ keys \in 0..MaxKeys /\ issued \in Nat
      /\ faults \in [FaultKinds -> Nat] /\ << >> \in Seq(Intents)
  BY Basics
<1> DEFINE open == Unresolved(mem.effects)
           asks == mem.deployment # 0 /\ \E i \in DOMAIN open : open[i].data.kind = "deploy"
<1>1. /\ pc = "idle" /\ open # << >> /\ UNCHANGED <<pc, disk, keys, issued>>
      /\ faults' = faults \/ Fault("http")
      /\ cloud' = IF asks /\ exists THEN Queried(mem.deployment) ELSE cloud
      /\ mem' = AfterReconciling(
                  FoldLeft(LAMBDA m, intent : Reconcile(m, intent, exists), mem, open))
  BY DEF Reconciling
<1>2. PICK e \in Intents : mem.effects = <<e>> /\ e.state = "Unresolved" /\ open = <<e>>
  <2>1. Len(mem.effects) <= 1
    BY <1>0, <1>1 DEF PlanInv, PlanOK
  <2>2. mem.effects # << >>
    BY <1>1, SelectNone DEF Unresolved, InState
  <2>3. PICK e \in Intents : mem.effects = <<e>>
    BY <1>0, <2>1, <2>2, LogShape
  <2>4. open = IF e.state \in {"Unresolved"} THEN <<e>> ELSE << >>
    BY <2>3, SelectOne DEF Unresolved, InState
  <2>5. e.state = "Unresolved" /\ open = <<e>>
    BY <1>1, <2>4
  <2> QED
    BY <2>3, <2>5
<1> DEFINE r == Reconcile(mem, e, exists)
           p == IF r.deployment # 0 THEN "monitor" ELSE "checkBudget"
<1>3. mem' = [r EXCEPT !.phase = p, !.effects = Prune(r.effects)]
  <2>1. FoldLeft(LAMBDA m, intent : Reconcile(m, intent, exists), mem, <<e>>) = r
    BY FoldOne
  <2>2. mem' = AfterReconciling(r)
    BY <1>1, <1>2, <2>1
  <2> HIDE DEF r
  <2> QED
    BY <2>2 DEF AfterReconciling
<1>4. /\ r \in Agents /\ Prune(r.effects) = << >>
      /\ r.deployment = mem.deployment /\ r.receipt = mem.receipt
  BY <1>2, ReconcileShape
<1> HIDE DEF r
<1>5. p \in {"monitor", "checkBudget"} /\ p \in Phases
  BY DEF Phases
<1> HIDE DEF p
<1>6. mem' = Agent(p, r.deployment, r.status, r.totalPaid, r.receipt, r.budget, << >>)
  <2>1. \A q, l : [r EXCEPT !.phase = q, !.effects = l] =
          Agent(q, r.deployment, r.status, r.totalPaid, r.receipt, r.budget, l)
    BY <1>4, AgentUpdates
  <2> QED
    BY <1>3, <1>4, <2>1
<1>7. mem'.phase = p /\ mem'.effects = << >>
  BY <1>6, AgentFields
<1>8. mem' \in Agents
  BY <1>0, <1>4, <1>5, <1>6, AgentType, AgentIn
<1>9. cloud' \in Seq(0..3) /\ Len(cloud') = Len(cloud)
  <2>1. CASE asks /\ exists
    <3>1. mem.deployment # 0 /\ cloud' = Queried(mem.deployment)
      BY <1>1, <2>1
    <3>2. mem.deployment \in 1..Len(cloud)
      BY <1>0, <3>1, AgentType
    <3> QED
      BY <1>0, <3>1, <3>2, QueriedFields
  <2>2. CASE ~(asks /\ exists)
    BY <1>0, <1>1, <2>2
  <2> QED
    BY <2>1, <2>2
<1> HIDE DEF open, asks
<1>10. /\ faults["crash"] \in Nat /\ faults["trap"] \in Nat /\ faults["http"] \in Nat
       /\ Broken \in Nat
  BY <1>0, FaultTypes
<1>11. /\ faults' \in [FaultKinds -> Nat] /\ faults'["trap"] = faults["trap"]
       /\ faults'["crash"] = faults["crash"]
       /\ faults'["http"] \in Nat /\ faults'["http"] >= faults["http"]
  <2>1. CASE faults' = faults
    BY <1>0, <1>10, <2>1
  <2>2. CASE Fault("http")
    <3>1. /\ faults' \in [FaultKinds -> Nat] /\ faults'["http"] = faults["http"] + 1
          /\ faults'["trap"] = faults["trap"] /\ faults'["crash"] = faults["crash"]
      BY <1>0, <2>2, FaultFields DEF FaultKinds
    <3> QED
      BY <1>10, <3>1
  <2> QED
    BY <1>1, <2>1, <2>2
<1>12. TypeOK'
  <2>1. pc' = "idle" /\ disk' = disk /\ keys' = keys /\ issued' = issued
    BY <1>1
  <2> QED
    BY <1>0, <1>8, <1>9, <1>11, <2>1, TypeStep DEF PCs
<1>13. PlanOK(mem', {"Recorded", "Unresolved"}) /\ ~Clean(mem)
  <2>1. PlanOK(mem', {"Recorded", "Unresolved"})
    BY <1>5, <1>7, PlanEmpty
  <2>2. ~Clean(mem)
    BY <1>2, PlanSingle
  <2> QED
    BY <2>1, <2>2
<1>14. PlanInv'
  BY <1>0, <1>1, <1>13 DEF PlanInv
<1>15. LedgerInv'
  BY <1>0, <1>1, <1>11, <1>13 DEF LedgerInv
<1>16. issued <= Broken /\ Len(cloud) <= Broken + faults["http"]
  BY <1>0, <1>1, <1>13 DEF WasteInv, PaidFor, Deployed
<1>17. Broken' = Broken
  BY <1>11 DEF Broken
<1>18. /\ issued' <= Broken' /\ Len(cloud') <= Broken' + faults'["http"]
       /\ issued' <= 1 + Broken' /\ Len(cloud') <= 1 + Broken' + faults'["http"]
  <2>1. issued' = issued
    BY <1>1
  <2> DEFINE k == issued
             n == Len(cloud)
             b == Broken
  <2>2. /\ k \in Nat /\ n \in Nat /\ b \in Nat /\ faults["http"] \in Nat
        /\ faults'["http"] \in Nat /\ faults'["http"] >= faults["http"]
        /\ k <= b /\ n <= b + faults["http"]
    BY <1>0, <1>10, <1>11, <1>16
  <2> HIDE DEF k, n, b
  <2>3. /\ k <= b /\ n <= b + faults'["http"]
        /\ k <= 1 + b /\ n <= 1 + b + faults'["http"]
    BY <2>2
  <2> QED
    BY <1>9, <1>17, <2>1, <2>3 DEF k, n, b
<1>19. WasteInv'
  BY <1>18 DEF WasteInv
<1> QED
  BY <1>12, <1>14, <1>15, <1>19 DEF Inv

-----------------------------------------------------------------------------
(* Ticks around an action.                                                 *)

LEMMA BeginStep ==
  ASSUME Inv, NEW kind, NEW at, Begin(kind, at),
         \/ kind = "payment" /\ at = "paying"
         \/ kind = "deploy" /\ at = "posting"
  PROVE  Inv'
<1>0. /\ TypeOK /\ PlanInv /\ LedgerInv /\ WasteInv /\ mem \in Agents /\ disk \in Agents
      /\ cloud \in Seq(0..3) /\ Len(cloud) \in Nat /\ keys \in 0..MaxKeys /\ issued \in Nat
      /\ faults \in [FaultKinds -> Nat]
  BY Basics
<1> DEFINE recorded == InState(mem.effects, "Recorded")
<1>1. /\ pc = "idle" /\ recorded # << >> /\ Head(recorded).data.kind = kind /\ pc' = at
      /\ mem' = [mem EXCEPT !.effects = BeginIntent(mem.effects, Head(recorded).id)]
      /\ UNCHANGED <<disk, cloud, keys, issued, faults>>
  BY DEF Begin
<1>2. PlanOK(mem, {"Recorded", "Unresolved"})
  BY <1>0, <1>1 DEF PlanInv
<1>3. PICK e \in Intents : mem.effects = <<e>> /\ e.state = "Recorded" /\ recorded = <<e>>
  <2>1. Len(mem.effects) <= 1
    BY <1>2 DEF PlanOK
  <2>2. mem.effects # << >>
    BY <1>1, SelectNone DEF InState
  <2>3. PICK e \in Intents : mem.effects = <<e>>
    BY <1>0, <2>1, <2>2, LogShape
  <2>4. recorded = IF e.state \in {"Recorded"} THEN <<e>> ELSE << >>
    BY <2>3, SelectOne DEF InState
  <2>5. e.state = "Recorded" /\ recorded = <<e>>
    BY <1>1, <2>4
  <2> QED
    BY <2>3, <2>5
<1> HIDE DEF recorded
<1> DEFINE n == [e EXCEPT !.state = "InFlight"]
<1>4. Head(recorded) = e
  BY <1>3
<1>5. n \in Intents /\ n.state = "InFlight" /\ n.data = e.data
  <2>1. "InFlight" \in IntentStates
    BY DEF IntentStates
  <2> QED
    BY <2>1, IntentType
<1>6. BeginIntent(mem.effects, e.id) = <<n>>
  <2>1. Transition(<<e>>, e.id, {"Recorded"}, "InFlight") = <<n>>
    BY <1>3, TransitionOne
  <2> QED
    BY <1>3, <2>1 DEF BeginIntent
<1> HIDE DEF n
<1>7. mem' = Agent(mem.phase, mem.deployment, mem.status, mem.totalPaid, mem.receipt, mem.budget,
                   <<n>>)
  <2>1. mem' = [mem EXCEPT !.effects = <<n>>]
    BY <1>1, <1>4, <1>6
  <2> QED
    BY <1>0, <2>1, AgentUpdates
<1>8. /\ mem'.phase = mem.phase /\ mem'.deployment = mem.deployment
      /\ mem'.totalPaid = mem.totalPaid /\ mem'.receipt = mem.receipt
      /\ mem'.budget = mem.budget /\ mem'.effects = <<n>>
  BY <1>7, AgentFields
<1>9. <<n>> \in Seq(Intents)
  BY <1>5
<1>10. mem' \in Agents
  BY <1>0, <1>7, <1>9, AgentType, AgentIn
<1>11. TypeOK'
  BY <1>0, <1>1, <1>10, TypeStep DEF PCs
<1>12. /\ Clean(mem) /\ e.data.kind = kind
       /\ kind = "payment" => mem.phase = "payProvider"
       /\ kind = "deploy" => mem.phase = "deploy" /\ mem.receipt # 0
       /\ mem.phase \in {"payProvider", "deploy"} => mem.deployment = 0
  BY <1>1, <1>2, <1>3, <1>4, PlanSingle
<1>13. Acting(mem', kind, mem'.phase) /\ mem'.deployment = 0
  <2>1. Len(<<n>>) = 1 /\ <<n>>[1] = n
    OBVIOUS
  <2>2. mem'.deployment = 0
    BY <1>8, <1>12
  <2> QED
    BY <1>5, <1>8, <1>12, <2>1, <2>2 DEF Acting
<1>14. PlanInv'
  BY <1>0, <1>1, <1>8, <1>12, <1>13 DEF PlanInv
<1>15. LedgerInv'
  BY <1>0, <1>1, <1>8 DEF LedgerInv
<1>16. /\ issued <= 1 + Broken /\ Len(cloud) <= 1 + Broken + faults["http"]
       /\ Len(cloud) <= Broken + faults["http"] /\ (kind = "payment" => issued <= Broken)
  BY <1>0, <1>1, <1>12 DEF WasteInv, PaidFor, Deployed
<1>17. Broken' = Broken
  BY <1>1 DEF Broken
<1>18. WasteInv'
  BY <1>1, <1>16, <1>17 DEF WasteInv
<1> QED
  BY <1>11, <1>14, <1>15, <1>18 DEF Inv

\* An action that failed leaves the agent without an intent, all else as it was.
LEMMA FailedShape ==
  ASSUME Inv, NEW e \in Intents, mem.effects = <<e>>, e.state = "InFlight", Failed
  PROVE  /\ mem' \in Agents /\ mem'.effects = << >> /\ mem'.phase = mem.phase
         /\ mem'.deployment = mem.deployment /\ mem'.totalPaid = mem.totalPaid
         /\ mem'.receipt = mem.receipt /\ mem'.budget = mem.budget
<1>0. mem \in Agents /\ << >> \in Seq(Intents)
  BY Basics
<1>1. Begun = e.id
  BY BegunIs
<1>2. Prune(Compensate(mem.effects, Begun)) = << >>
  BY <1>1, Settles
<1>3. mem' = [mem EXCEPT !.effects = << >>]
  BY <1>2 DEF Failed
<1>4. mem' = Agent(mem.phase, mem.deployment, mem.status, mem.totalPaid, mem.receipt, mem.budget,
                   << >>)
  BY <1>0, <1>3, AgentUpdates
<1>5. mem' \in Agents
  BY <1>0, <1>4, AgentType, AgentIn
<1> QED
  BY <1>4, <1>5, AgentFields

LEMMA WalletPayFailsStep == Inv /\ WalletPayFails => Inv'
<1> SUFFICES ASSUME Inv, WalletPayFails PROVE Inv'
  OBVIOUS
<1>0. /\ TypeOK /\ PlanInv /\ LedgerInv /\ WasteInv /\ mem \in Agents /\ disk \in Agents
      /\ cloud \in Seq(0..3) /\ Len(cloud) \in Nat /\ keys \in 0..MaxKeys /\ issued \in Nat
      /\ faults \in [FaultKinds -> Nat]
  BY Basics
<1>1. /\ pc = "paying" /\ Failed /\ (faults' = faults \/ Fault("refuse"))
  BY DEF WalletPayFails
<1>2. pc' = "idle" /\ UNCHANGED <<disk, cloud, keys, issued>>
  BY <1>1 DEF Failed
<1>3. PICK e \in Intents : /\ mem.effects = <<e>> /\ e.state = "InFlight"
                           /\ mem.phase = "payProvider" /\ mem.deployment = 0
  BY <1>0, <1>1, ActingShape DEF PlanInv
<1>4. /\ mem' \in Agents /\ mem'.effects = << >> /\ mem'.phase = mem.phase
      /\ mem'.deployment = mem.deployment /\ mem'.totalPaid = mem.totalPaid
      /\ mem'.receipt = mem.receipt /\ mem'.budget = mem.budget
  BY <1>1, <1>3, FailedShape
<1>5. /\ faults' \in [FaultKinds -> Nat] /\ faults'["crash"] = faults["crash"]
      /\ faults'["trap"] = faults["trap"] /\ faults'["http"] = faults["http"]
  <2>1. CASE faults' = faults
    BY <1>0, <2>1
  <2>2. CASE Fault("refuse")
    BY <1>0, <2>2, FaultFields DEF FaultKinds
  <2> QED
    BY <1>1, <2>1, <2>2
<1>6. TypeOK'
  BY <1>0, <1>2, <1>4, <1>5, TypeStep DEF PCs
<1>7. PlanOK(mem', {"Recorded", "Unresolved"}) /\ Clean(mem')
  BY <1>3, <1>4, PlanEmpty
<1>8. PlanInv'
  BY <1>0, <1>2, <1>7 DEF PlanInv
<1>9. LedgerInv'
  BY <1>0, <1>1, <1>2, <1>4, <1>5, <1>7 DEF LedgerInv
<1>10. Broken' = Broken
  BY <1>5 DEF Broken
<1>11. /\ issued <= 1 + Broken /\ Len(cloud) <= 1 + Broken + faults["http"]
       /\ issued <= Broken /\ Len(cloud) <= Broken + faults["http"]
  BY <1>0, <1>1 DEF WasteInv
<1>12. WasteInv'
  BY <1>2, <1>5, <1>10, <1>11 DEF WasteInv
<1> QED
  BY <1>6, <1>8, <1>9, <1>12 DEF Inv

LEMMA PostFailsStep == Inv /\ PostFails => Inv'
<1> SUFFICES ASSUME Inv, PostFails PROVE Inv'
  OBVIOUS
<1>0. /\ TypeOK /\ PlanInv /\ LedgerInv /\ WasteInv /\ mem \in Agents /\ disk \in Agents
      /\ cloud \in Seq(0..3) /\ Len(cloud) \in Nat /\ keys \in 0..MaxKeys /\ issued \in Nat
      /\ faults \in [FaultKinds -> Nat]
  BY Basics
<1>1. pc \in {"posting", "posted"} /\ Failed /\ Fault("http")
  BY DEF PostFails
<1>2. pc' = "idle" /\ UNCHANGED <<disk, cloud, keys, issued>>
  BY <1>1 DEF Failed
<1>3. mem.receipt # 0 /\ Acting(mem, "deploy", "deploy")
  BY <1>0, <1>1 DEF PlanInv
<1>4. PICK e \in Intents : /\ mem.effects = <<e>> /\ e.state = "InFlight"
                           /\ mem.phase = "deploy" /\ mem.deployment = 0
  BY <1>0, <1>3, ActingShape
<1>5. /\ mem' \in Agents /\ mem'.effects = << >> /\ mem'.phase = mem.phase
      /\ mem'.deployment = mem.deployment /\ mem'.totalPaid = mem.totalPaid
      /\ mem'.receipt = mem.receipt /\ mem'.budget = mem.budget
  BY <1>1, <1>4, FailedShape
<1>6. /\ faults' \in [FaultKinds -> Nat] /\ faults'["crash"] = faults["crash"]
      /\ faults'["trap"] = faults["trap"] /\ faults'["http"] = faults["http"] + 1
  BY <1>0, <1>1, FaultFields DEF FaultKinds
<1>7. TypeOK'
  BY <1>0, <1>2, <1>5, <1>6, TypeStep DEF PCs
<1>8. PlanOK(mem', {"Recorded", "Unresolved"}) /\ Clean(mem')
  BY <1>4, <1>5, PlanEmpty
<1>9. PlanInv'
  BY <1>0, <1>2, <1>8 DEF PlanInv
<1>10. LedgerInv'
  BY <1>0, <1>1, <1>2, <1>5, <1>6, <1>8 DEF LedgerInv
<1>11. Broken' = Broken
  BY <1>6 DEF Broken
<1>12. issued <= 1 + Broken /\ Len(cloud) <= 1 + Broken + faults["http"]
  BY <1>0 DEF WasteInv
<1>13. Broken \in Nat /\ faults["http"] \in Nat
  BY <1>0, FaultTypes
<1>14. PaidFor(mem')
  BY <1>3, <1>4, <1>5, <1>8 DEF PaidFor
<1>15. /\ Len(cloud) <= Broken + faults'["http"]
       /\ Len(cloud) <= 1 + Broken + faults'["http"]
  <2> DEFINE n == Len(cloud)
             b == Broken
  <2>1. n \in Nat /\ b \in Nat /\ n <= 1 + b + faults["http"]
    BY <1>0, <1>12, <1>13
  <2> HIDE DEF n, b
  <2>2. n <= b + faults'["http"] /\ n <= 1 + b + faults'["http"]
    BY <1>6, <1>13, <2>1
  <2> QED
    BY <2>2 DEF n, b
<1>16. WasteInv'
  BY <1>2, <1>11, <1>12, <1>14, <1>15 DEF WasteInv
<1> QED
  BY <1>7, <1>9, <1>10, <1>16 DEF Inv

LEMMA WalletPayStep == Inv /\ WalletPay => Inv'
<1> SUFFICES ASSUME Inv, WalletPay PROVE Inv'
  OBVIOUS
<1>0. /\ TypeOK /\ PlanInv /\ LedgerInv /\ WasteInv /\ mem \in Agents /\ disk \in Agents
      /\ cloud \in Seq(0..3) /\ Len(cloud) \in Nat /\ keys \in 0..MaxKeys /\ issued \in Nat
      /\ faults \in [FaultKinds -> Nat] /\ InitialBudget \in Nat
  BY Basics
<1>1. /\ pc = "paying" /\ mem.budget >= 1 /\ issued' = issued + 1 /\ pc' = "paid"
      /\ mem' = [mem EXCEPT !.budget = mem.budget - 1] /\ UNCHANGED <<disk, cloud, keys, faults>>
  BY DEF WalletPay
<1>2. mem' = Agent(mem.phase, mem.deployment, mem.status, mem.totalPaid, mem.receipt,
                   mem.budget - 1, mem.effects)
  BY <1>0, <1>1, AgentUpdates
<1>3. /\ mem'.phase = mem.phase /\ mem'.deployment = mem.deployment
      /\ mem'.totalPaid = mem.totalPaid /\ mem'.receipt = mem.receipt
      /\ mem'.budget = mem.budget - 1 /\ mem'.effects = mem.effects
  BY <1>2, AgentFields
<1>4. /\ mem.budget \in 0..InitialBudget /\ mem.totalPaid \in Nat
      /\ mem.budget - 1 \in 0..InitialBudget
  <2>1. mem.budget \in 0..InitialBudget /\ mem.totalPaid \in Nat
    BY <1>0, AgentType
  <2> QED
    BY <1>0, <1>1, <2>1
<1>5. mem' \in Agents
  BY <1>0, <1>2, <1>4, AgentType, AgentIn
<1>6. TypeOK'
  BY <1>0, <1>1, <1>5, TypeStep DEF PCs
<1>7. Acting(mem', "payment", "payProvider")
  BY <1>0, <1>1, <1>3 DEF PlanInv, Acting
<1>8. PlanInv'
  BY <1>0, <1>1, <1>7 DEF PlanInv
<1>9. LedgerInv'
  <2>1. ASSUME faults["trap"] = 0
        PROVE  mem.totalPaid + (mem.budget - 1) + 1 = InitialBudget
    <3>1. mem.totalPaid + mem.budget = InitialBudget
      BY <1>0, <1>1, <2>1 DEF LedgerInv
    <3> QED
      BY <1>0, <1>4, <3>1
  <2> QED
    BY <1>0, <1>1, <1>3, <2>1 DEF LedgerInv
<1>10. /\ issued <= Broken /\ Len(cloud) <= 1 + Broken + faults["http"]
       /\ Len(cloud) <= Broken + faults["http"]
  BY <1>0, <1>1 DEF WasteInv
<1>11. Broken' = Broken /\ Broken \in Nat
  BY <1>0, <1>1, FaultTypes DEF Broken
<1>12. issued' <= 1 + Broken'
  <2> DEFINE k == issued
             b == Broken
  <2>1. k \in Nat /\ b \in Nat /\ k <= b
    BY <1>0, <1>10, <1>11
  <2> HIDE DEF k, b
  <2>2. k + 1 <= 1 + b
    BY <2>1
  <2> QED
    BY <1>1, <1>11, <2>2 DEF k, b
<1>13. WasteInv'
  BY <1>1, <1>10, <1>11, <1>12 DEF WasteInv
<1> QED
  BY <1>6, <1>8, <1>9, <1>13 DEF Inv

LEMMA PostStep == Inv /\ Post => Inv'
<1> SUFFICES ASSUME Inv, Post PROVE Inv'
  OBVIOUS
<1>0. /\ TypeOK /\ PlanInv /\ LedgerInv /\ WasteInv /\ mem \in Agents /\ disk \in Agents
      /\ cloud \in Seq(0..3) /\ Len(cloud) \in Nat /\ keys \in 0..MaxKeys /\ issued \in Nat
      /\ faults \in [FaultKinds -> Nat]
  BY Basics
<1>1. /\ pc = "posting" /\ pc' = "posted" /\ cloud' = Append(cloud, 0)
      /\ UNCHANGED <<mem, disk, keys, issued, faults>>
  BY DEF Post
<1>2. cloud' \in Seq(0..3) /\ Len(cloud') = Len(cloud) + 1 /\ Len(cloud) <= Len(cloud')
      /\ Len(cloud') >= 1
  BY <1>0, <1>1
<1>3. TypeOK'
  BY <1>0, <1>1, <1>2, TypeStep DEF PCs
<1>4. PlanInv'
  BY <1>0, <1>1, <1>2 DEF PlanInv
<1>5. LedgerInv'
  BY <1>0, <1>1 DEF LedgerInv
<1>6. /\ issued <= 1 + Broken /\ Len(cloud) <= Broken + faults["http"]
  BY <1>0, <1>1 DEF WasteInv
<1>7. Broken' = Broken /\ Broken \in Nat /\ faults["http"] \in Nat
  BY <1>0, <1>1, FaultTypes DEF Broken
<1>8. Len(cloud') <= 1 + Broken' + faults'["http"]
  <2> DEFINE n == Len(cloud)
             b == Broken
  <2>1. n \in Nat /\ b \in Nat /\ n <= b + faults["http"]
    BY <1>0, <1>6, <1>7
  <2> HIDE DEF n, b
  <2>2. n + 1 <= 1 + b + faults["http"]
    BY <1>7, <2>1
  <2> QED
    BY <1>1, <1>2, <1>7, <2>2 DEF n, b
<1>9. WasteInv'
  BY <1>1, <1>6, <1>7, <1>8 DEF WasteInv
<1> QED
  BY <1>3, <1>4, <1>5, <1>9 DEF Inv

\* The answer of an action is noted and its intent settled.
LEMMA ConfirmedShape ==
  ASSUME Inv, NEW e \in Intents, mem.effects = <<e>>, e.state = "InFlight",
         NEW g \in Agents, g.effects = mem.effects, NEW p \in Phases,
         mem' = [g EXCEPT !.effects = Prune(Confirm(g.effects, Begun)), !.phase = p]
  PROVE  /\ mem' \in Agents /\ mem'.effects = << >> /\ mem'.phase = p
         /\ mem'.deployment = g.deployment /\ mem'.totalPaid = g.totalPaid
         /\ mem'.receipt = g.receipt /\ mem'.budget = g.budget
<1>0. << >> \in Seq(Intents)
  BY Basics
<1>1. Begun = e.id
  BY BegunIs
<1>2. Prune(Confirm(g.effects, Begun)) = << >>
  BY <1>1, Settles
<1>3. mem' = [g EXCEPT !.effects = << >>, !.phase = p]
  BY <1>2
<1>4. mem' = Agent(p, g.deployment, g.status, g.totalPaid, g.receipt, g.budget, << >>)
  <2>1. \A l, q : [g EXCEPT !.effects = l, !.phase = q] =
          Agent(q, g.deployment, g.status, g.totalPaid, g.receipt, g.budget, l)
    BY AgentUpdates
  <2> QED
    BY <1>3, <2>1
<1> DEFINE a == Agent(p, g.deployment, g.status, g.totalPaid, g.receipt, g.budget, << >>)
<1>5. a \in Agents
  <2>1. /\ g.deployment \in 0..Len(cloud) /\ g.status \in Statuses /\ g.totalPaid \in Nat
        /\ g.receipt \in 0..issued /\ g.budget \in 0..InitialBudget
    BY AgentType
  <2> QED
    BY <1>0, <2>1, AgentIn
<1>6. /\ a.effects = << >> /\ a.phase = p /\ a.deployment = g.deployment
      /\ a.totalPaid = g.totalPaid /\ a.receipt = g.receipt /\ a.budget = g.budget
  BY AgentFields
<1>7. mem' = a
  BY <1>4
<1> HIDE DEF a
<1> QED
  BY <1>5, <1>6, <1>7

LEMMA ConfirmPaymentStep == Inv /\ ConfirmPayment => Inv'
<1> SUFFICES ASSUME Inv, ConfirmPayment PROVE Inv'
  OBVIOUS
<1>0. /\ TypeOK /\ PlanInv /\ LedgerInv /\ WasteInv /\ mem \in Agents /\ disk \in Agents
      /\ cloud \in Seq(0..3) /\ Len(cloud) \in Nat /\ keys \in 0..MaxKeys /\ issued \in Nat
      /\ faults \in [FaultKinds -> Nat] /\ InitialBudget \in Nat
  BY Basics
<1> DEFINE g == NotedPayment
<1>1. /\ pc = "paid" /\ pc' = "idle" /\ UNCHANGED <<disk, cloud, keys, issued, faults>>
      /\ mem' = [g EXCEPT !.effects = Prune(Confirm(g.effects, Begun)), !.phase = "deploy"]
  BY DEF ConfirmPayment
<1>2. /\ g \in Agents /\ g.effects = mem.effects /\ g.deployment = mem.deployment
      /\ g.totalPaid = mem.totalPaid + 1 /\ g.receipt = issued /\ g.budget = mem.budget
  BY NotedFields, AgentFields
<1> HIDE DEF g
<1>3. Acting(mem, "payment", "payProvider") /\ issued >= 1
  BY <1>0, <1>1 DEF PlanInv
<1>4. PICK e \in Intents : mem.effects = <<e>> /\ e.state = "InFlight" /\ mem.deployment = 0
  BY <1>0, <1>3, ActingShape
<1>5. /\ mem' \in Agents /\ mem'.effects = << >> /\ mem'.phase = "deploy"
      /\ mem'.deployment = g.deployment /\ mem'.totalPaid = g.totalPaid
      /\ mem'.receipt = g.receipt /\ mem'.budget = g.budget
  <2>1. "deploy" \in Phases
    BY DEF Phases
  <2> QED
    BY <1>1, <1>2, <1>4, <2>1, ConfirmedShape
<1>6. TypeOK'
  BY <1>0, <1>1, <1>5, TypeStep DEF PCs
<1>7. PlanOK(mem', {"Recorded", "Unresolved"}) /\ Clean(mem')
  BY <1>2, <1>4, <1>5, PlanEmpty
<1>8. PlanInv'
  BY <1>0, <1>1, <1>7 DEF PlanInv
<1>9. LedgerInv'
  <2>1. mem.totalPaid \in Nat /\ mem.budget \in Nat
    BY <1>0, AgentType
  <2>2. ASSUME faults["trap"] = 0
        PROVE  (mem.totalPaid + 1) + mem.budget = InitialBudget
    <3>1. mem.totalPaid + mem.budget + 1 = InitialBudget
      BY <1>0, <1>1, <2>2 DEF LedgerInv
    <3> QED
      BY <1>0, <2>1, <3>1
  <2> QED
    BY <1>0, <1>1, <1>2, <1>5, <1>7, <2>2 DEF LedgerInv
<1>10. PaidFor(mem')
  <2>1. mem'.receipt # 0
    BY <1>0, <1>2, <1>3, <1>5
  <2> QED
    BY <1>5, <1>7, <2>1 DEF PaidFor
<1>11. /\ issued <= 1 + Broken /\ Len(cloud) <= 1 + Broken + faults["http"]
       /\ Len(cloud) <= Broken + faults["http"] /\ Broken' = Broken
  BY <1>0, <1>1 DEF WasteInv, Broken
<1>12. WasteInv'
  BY <1>1, <1>10, <1>11 DEF WasteInv
<1> QED
  BY <1>6, <1>8, <1>9, <1>12 DEF Inv

LEMMA ConfirmDeployStep == Inv /\ ConfirmDeploy => Inv'
<1> SUFFICES ASSUME Inv, ConfirmDeploy PROVE Inv'
  OBVIOUS
<1>0. /\ TypeOK /\ PlanInv /\ LedgerInv /\ WasteInv /\ mem \in Agents /\ disk \in Agents
      /\ cloud \in Seq(0..3) /\ Len(cloud) \in Nat /\ keys \in 0..MaxKeys /\ issued \in Nat
      /\ faults \in [FaultKinds -> Nat]
  BY Basics
<1> DEFINE g == NotedDeploy
<1>1. /\ pc = "posted" /\ pc' = "idle" /\ UNCHANGED <<disk, cloud, keys, issued, faults>>
      /\ mem' = [g EXCEPT !.effects = Prune(Confirm(g.effects, Begun)), !.phase = "monitor"]
  BY DEF ConfirmDeploy
<1>2. /\ g \in Agents /\ g.effects = mem.effects /\ g.deployment = Len(cloud)
      /\ g.totalPaid = mem.totalPaid /\ g.budget = mem.budget
  BY NotedFields, AgentFields
<1> HIDE DEF g
<1>3. Acting(mem, "deploy", "deploy") /\ Len(cloud) >= 1
  BY <1>0, <1>1 DEF PlanInv
<1>4. PICK e \in Intents : mem.effects = <<e>> /\ e.state = "InFlight"
  BY <1>0, <1>3, ActingShape
<1>5. /\ mem' \in Agents /\ mem'.effects = << >> /\ mem'.phase = "monitor"
      /\ mem'.deployment = g.deployment /\ mem'.totalPaid = g.totalPaid
      /\ mem'.budget = g.budget
  <2>1. "monitor" \in Phases
    BY DEF Phases
  <2> QED
    BY <1>1, <1>2, <1>4, <2>1, ConfirmedShape
<1>6. TypeOK'
  BY <1>0, <1>1, <1>5, TypeStep DEF PCs
<1>7. PlanOK(mem', {"Recorded", "Unresolved"}) /\ Clean(mem')
  BY <1>5, PlanEmpty
<1>8. PlanInv'
  BY <1>0, <1>1, <1>7 DEF PlanInv
<1>9. LedgerInv'
  BY <1>0, <1>1, <1>2, <1>5, <1>7 DEF LedgerInv
<1>10. PaidFor(mem') /\ Deployed(mem')
  <2>1. mem'.deployment # 0
    BY <1>0, <1>2, <1>3, <1>5
  <2> QED
    BY <1>7, <2>1 DEF PaidFor, Deployed
<1>11. /\ issued <= 1 + Broken /\ Len(cloud) <= 1 + Broken + faults["http"] /\ Broken' = Broken
  BY <1>0, <1>1 DEF WasteInv, Broken
<1>12. WasteInv'
  BY <1>1, <1>10, <1>11 DEF WasteInv
<1> QED
  BY <1>6, <1>8, <1>9, <1>12 DEF Inv

-----------------------------------------------------------------------------
(* The theorems.                                                           *)

LEMMA InitInv == Init => Inv
<1> SUFFICES ASSUME Init PROVE Inv
  OBVIOUS
<1>1. /\ pc = "down" /\ mem = Fresh /\ disk = Fresh /\ cloud = << >> /\ keys = 0 /\ issued = 0
      /\ faults = [k \in FaultKinds |-> 0]
  BY DEF Init
<1>2. /\ Len(cloud) = 0 /\ cloud \in Seq(0..3) /\ << >> \in Seq(Intents)
      /\ InitialBudget \in Nat /\ MaxKeys \in Nat
  BY <1>1, DeployerAssumption
<1>3. Fresh = Agent("checkBudget", 0, "none", 0, 0, InitialBudget, << >>)
  BY DEF Fresh, Agent
<1>4. /\ Fresh.phase = "checkBudget" /\ Fresh.totalPaid = 0 /\ Fresh.budget = InitialBudget
      /\ Fresh.effects = << >>
  BY <1>3, AgentFields
<1>5. Fresh \in Agents
  <2>1. /\ "checkBudget" \in Phases /\ 0 \in 0..Len(cloud) /\ "none" \in Statuses /\ 0 \in Nat
        /\ 0 \in 0..issued /\ InitialBudget \in 0..InitialBudget
    BY <1>1, <1>2 DEF Phases, Statuses
  <2> QED
    BY <1>2, <1>3, <2>1, AgentIn
<1>6. faults \in [FaultKinds -> Nat] /\ faults["crash"] = 0 /\ faults["trap"] = 0
      /\ faults["http"] = 0
  BY <1>1 DEF FaultKinds
<1>7. TypeOK
  BY <1>1, <1>2, <1>5, <1>6 DEF TypeOK, PCs
<1>8. Clean(Fresh) /\ PlanOK(Fresh, {"Recorded", "InFlight", "Unresolved"})
  BY <1>4, PlanEmpty
<1>9. PlanInv
  BY <1>1, <1>8 DEF PlanInv
<1>10. LedgerInv
  BY <1>1, <1>2, <1>4, <1>8 DEF LedgerInv
<1>11. WasteInv
  BY <1>1, <1>2, <1>6 DEF WasteInv, Broken
<1> QED
  BY <1>7, <1>9, <1>10, <1>11 DEF Inv

LEMMA InvStep == Inv /\ [Next]_vars => Inv'
<1> SUFFICES ASSUME Inv, [Next]_vars PROVE Inv'
  OBVIOUS
<1>1. CASE Start
  BY <1>1, StartStep
<1>2. CASE Save
  BY <1>2, SaveStep
<1>3. CASE Crash
  BY <1>3, CrashStep
<1>4. CASE Trap
  BY <1>4, TrapStep
<1>5. CASE CheckBudget
  BY <1>5, CheckBudgetStep
<1>6. CASE PayProvider
  BY <1>6, PayProviderStep
<1>7. CASE TickDeploy
  BY <1>7, TickDeployStep
<1>8. CASE Monitor
  BY <1>8, MonitorStep
<1>9. CASE MonitorFails
  BY <1>9, MonitorFailsStep
<1>10. ASSUME NEW exists \in BOOLEAN, Reconciling(exists)
       PROVE  Inv'
  BY <1>10, ReconcilingStep
<1>11. CASE BeginPayment
  BY <1>11, BeginStep DEF BeginPayment
<1>12. CASE WalletPay
  BY <1>12, WalletPayStep
<1>13. CASE WalletPayFails
  BY <1>13, WalletPayFailsStep
<1>14. CASE ConfirmPayment
  BY <1>14, ConfirmPaymentStep
<1>15. CASE BeginDeploy
  BY <1>15, BeginStep DEF BeginDeploy
<1>16. CASE Post
  BY <1>16, PostStep
<1>17. CASE PostFails
  BY <1>17, PostFailsStep
<1>18. CASE ConfirmDeploy
  BY <1>18, ConfirmDeployStep
<1>19. CASE UNCHANGED vars
  <2>1. /\ pc' = pc /\ mem' = mem /\ disk' = disk /\ cloud' = cloud /\ keys' = keys
        /\ issued' = issued /\ faults' = faults
    BY <1>19 DEF vars
  <2>2. TypeOK'
    BY <2>1 DEF Inv, TypeOK, Agents, Intents
  <2>3. PlanInv'
    BY <2>1 DEF Inv, PlanInv
  <2>4. LedgerInv'
    BY <2>1 DEF Inv, LedgerInv
  <2>5. WasteInv'
    BY <2>1 DEF Inv, WasteInv, Broken
  <2> QED
    BY <2>2, <2>3, <2>4, <2>5 DEF Inv
<1> QED
  BY <1>1, <1>2, <1>3, <1>4, <1>5, <1>6, <1>7, <1>8, <1>9, <1>10, <1>11, <1>12, <1>13, <1>14,
     <1>15, <1>16, <1>17, <1>18, <1>19 DEF Next, Tick

\* The inductive invariant holds, whatever fails, in whatever order and however
\* often: crashes, trapped ticks, lost answers and refused payments.
THEOREM InvCorrect == Spec => []Inv
BY InitInv, InvStep, PTL DEF Spec

\* The agent and its checkpoint have their type in every state: they name only
\* receipts that were issued (registerPayment) and deployments that the
\* provider knows (executeDeploy).
THEOREM TypeCorrect == Spec => []TypeOK
<1>1. Inv => TypeOK
  BY DEF Inv
<1> QED
  BY <1>1, InvCorrect, PTL

\* Between ticks of agents/deployer the effect log holds at most one intent,
\* Recorded or Unresolved, and a recorded deployment still has its receipt.
THEOREM PlanSafe == Spec => []OnePlanAtATime
<1>1. Inv => OnePlanAtATime
  <2> SUFFICES ASSUME Inv, pc = "idle"
               PROVE  /\ Len(mem.effects) <= 1
                      /\ \A i \in DOMAIN mem.effects :
                           LET intent == mem.effects[i]
                           IN /\ intent.state \in {"Recorded", "Unresolved"}
                              /\ intent.state = "Recorded" /\ intent.data.kind = "deploy" =>
                                   intent.data.receipt = mem.receipt /\ mem.deployment = 0
    BY DEF OnePlanAtATime
  <2>1. mem \in Agents /\ PlanOK(mem, {"Recorded", "Unresolved"}) /\ Len(mem.effects) <= 1
    BY DEF Inv, TypeOK, PlanInv, PlanOK
  <2>2. CASE mem.effects = << >>
    BY <2>1, <2>2
  <2>3. ASSUME NEW e \in Intents, mem.effects = <<e>>
        PROVE  \A i \in DOMAIN mem.effects :
                 LET intent == mem.effects[i]
                 IN /\ intent.state \in {"Recorded", "Unresolved"}
                    /\ intent.state = "Recorded" /\ intent.data.kind = "deploy" =>
                         intent.data.receipt = mem.receipt /\ mem.deployment = 0
    <3>1. DOMAIN mem.effects = {1} /\ mem.effects[1] = e
      BY <2>3
    <3>2. /\ e.state \in {"Recorded", "Unresolved"}
          /\ e.state = "Recorded" /\ e.data.kind = "deploy" =>
               e.data.receipt = mem.receipt /\ mem.deployment = 0
      BY <2>1, <2>3, PlanSingle
    <3> QED
      BY <3>1, <3>2
  <2> QED
    BY <2>1, <2>2, <2>3, LogShape
<1> QED
  BY <1>1, InvCorrect, PTL

\* As long as no tick trapped between Begin and Confirm, what the agent says it
\* paid (TotalPaid) and what the runtime took from its budget agree, in memory
\* and in the checkpoint, after any number of crashes and restarts.
THEOREM LedgerCorrect == Spec => []LedgerAgrees
<1>1. Inv => LedgerAgrees
  BY DEF Inv, LedgerInv, LedgerAgrees
<1> QED
  BY <1>1, InvCorrect, PTL

\* Receipts beyond the first number at most the crashes and traps, deployments
\* beyond the first at most those and the lost answers (executePayment,
\* executeDeploy, reconcilePayment, reconcileDeploy): a retry never pays twice
\* without a failure to show for it.
THEOREM WasteCorrect == Spec => []WasteBounded
<1>1. Inv => WasteBounded
  <2> SUFFICES ASSUME Inv PROVE WasteBounded
    OBVIOUS
  <2>1. TypeOK /\ issued \in Nat /\ Len(cloud) \in Nat
    BY Basics
  <2>2. faults["crash"] \in Nat /\ faults["trap"] \in Nat /\ faults["http"] \in Nat
    BY <2>1, FaultTypes
  <2>3. /\ issued <= 1 + (faults["crash"] + faults["trap"])
        /\ Len(cloud) <= 1 + (faults["crash"] + faults["trap"]) + faults["http"]
    BY DEF Inv, WasteInv, Broken
  <2> QED
    BY <2>1, <2>2, <2>3 DEF WasteBounded
<1> QED
  BY <1>1, InvCorrect, PTL
=============================================================================
