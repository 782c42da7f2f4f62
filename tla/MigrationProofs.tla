--------------------------- MODULE MigrationProofs ---------------------------
(***************************************************************************)
(* Proofs about Migration, for any set of nodes and every bound.           *)
(*                                                                         *)
(* The first part holds whatever fails: what one call of a migration can   *)
(* do.  The second is about the runs in which no confirmation is lost, no  *)
(* process is killed and no deletion fails: there the agent has one        *)
(* holder, and the newest checkpoint is never lost.                        *)
(***************************************************************************)
EXTENDS Migration, ProofLemmas, FiniteSetTheorems, TLAPS

Phases == {"transfer", "saved", "ok", "fatal", "retriable"}

Calls == [call : Nat, retry : BOOLEAN, hasAgent : BOOLEAN, pkg : Checkpoints,
          targets : Seq(Nodes), attempt : 0..(MaxAttempts - 1),
          phase : {"dial", "sent", "backoff"}]

Streams == [call : Nat, src : Nodes, dst : Nodes, pkg : Checkpoints, phase : Phases]

\* TypeOK with whole records for calls and streams.
Types ==
  /\ up \in [Nodes -> BOOLEAN]
  /\ inst \in [Nodes -> Instances \cup {NoInst}]
  /\ ckpt \in [Nodes -> Checkpoints \cup {NoCkpt}]
  /\ out \in [Nodes -> Calls \cup {NoCall}]
  /\ streams \subseteq Streams
  /\ calls \in 0..MaxCalls
  /\ accepted \in [CallIds -> SUBSET Nodes]

\* Calls that were made, with a target left to try; streams between two nodes.
Numbered ==
  /\ \A n \in Nodes : out[n] # NoCall =>
       /\ out[n].call \in 1..calls /\ out[n].targets # << >>
       /\ \A i \in 1..Len(out[n].targets) : out[n].targets[i] # n
  /\ \A s \in streams : s.call \in 1..calls /\ s.src # s.dst

\* Memory is gone with the process, and so are the handlers it was running;
\* an agent whose call is running waits in the handoff.
Alive ==
  /\ \A n \in Nodes : ~up[n] => inst[n] = NoInst /\ out[n] = NoCall
  /\ \A s \in streams : ~Answered(s) => up[s.dst]
  /\ \A n \in Nodes : out[n] # NoCall /\ out[n].hasAgent => inst[n].state = "HANDOFF_INITIATED"

\* A call is made by one node and has at most one stream, on which it waits.
OneStream ==
  /\ \A n, m \in Nodes : out[n] # NoCall /\ out[m] # NoCall /\ out[n].call = out[m].call => n = m
  /\ \A s, t \in streams : s.call = t.call => s = t
  /\ \A n \in Nodes, s \in streams :
       out[n] # NoCall /\ out[n].call = s.call => s.src = n /\ out[n].phase = "sent"

\* Once a call has started the agent somewhere, no handler can start it again
\* and the caller has nothing left to do but to read the answer.
Settled ==
  \A c \in CallIds :
    /\ accepted[c] = {} \/ \E n \in Nodes : accepted[c] = {n}
    /\ accepted[c] # {} =>
         /\ c <= calls
         /\ \A s \in streams : s.call = c => s.phase = "ok"
         /\ \A n \in Nodes : out[n] # NoCall /\ out[n].call = c => out[n].phase = "sent"

CallInv == Types /\ Numbered /\ Alive /\ OneStream /\ Settled

\* Without MigrateAgent every call is one of MigrateAgentWithRetry.
Retrying ==
  \A n \in Nodes : /\ out[n] # NoCall => out[n].retry /\ out[n].hasAgent
                   /\ inst[n].state = "HANDOFF_INITIATED" => out[n] # NoCall

-----------------------------------------------------------------------------
(* What holds while only connections, checks and loads fail.               *)

\* The call on n has succeeded and n has not read the answer yet.
Done(n) == out[n] # NoCall /\ \E s \in streams : s.src = n /\ s.call = out[n].call /\ s.phase = "ok"

\* A handler on n has saved the package and not started the agent yet.
Fetching(n) == \E s \in streams : s.dst = n /\ s.phase = "saved"

\* The node that has the agent: in memory or, for the next start, on disk.
Holds(n) == ~Done(n) /\ (inst[n] # NoInst \/ (ckpt[n] # NoCkpt /\ ~Fetching(n)))

\* No stream is abandoned, no wait is in vain.
Paired ==
  /\ \A s \in streams :
       /\ out[s.src] # NoCall /\ out[s.src].phase = "sent" /\ out[s.src].call = s.call
       /\ s.dst = Head(out[s.src].targets) /\ s.pkg = out[s.src].pkg
  /\ \A n \in Nodes : out[n] # NoCall /\ out[n].phase = "sent" =>
       \E s \in streams : s.src = n /\ s.call = out[n].call

\* The package is what the caller has stored, its instance waits.
Waiting ==
  \A n \in Nodes : out[n] # NoCall =>
    /\ ckpt[n] # NoCkpt /\ out[n].pkg = ckpt[n]
    /\ ~out[n].hasAgent => inst[n] = NoInst
    /\ ~Done(n) => \A i \in 1..Len(out[n].targets) : out[out[n].targets[i]] = NoCall

OneHolder == \A n, m \in Nodes : Holds(n) /\ Holds(m) => n = m

\* The state of the agent is never behind its checkpoint, and what a node is
\* about to delete the holder has.
Kept ==
  /\ \A n \in Nodes : inst[n] # NoInst => ckpt[n].tick <= inst[n].tick /\ inst[n].tick <= MaxTick
  /\ \A n \in Nodes : ckpt[n].tick <= MaxTick
  /\ \A s \in streams : s.phase = "saved" => ckpt[s.dst] = s.pkg
  /\ \A n \in Nodes : Done(n) => \E m \in Nodes : Holds(m) /\ ckpt[m].tick >= ckpt[n].tick

HolderInv == CallInv /\ Paired /\ Waiting /\ OneHolder /\ Kept
-----------------------------------------------------------------------------
(* Values.                                                                 *)

LEMMA Distinct == NoInst \notin Instances /\ NoCkpt \notin Checkpoints /\ NoCall \notin Calls
  BY DEF NoInst, Instances, States, NoCkpt, Checkpoints, NoCall, Calls

\* What the operators of Authority make of an instance.
LEMMA LeaseTypes ==
  ASSUME NEW i \in Instances
  PROVE  /\ NextGeneration(i) \in Instances
         /\ TransitionToHandoff(i) \in Instances /\ TransitionToHandoff(i).tick = i.tick
         /\ TransitionToHandoff(i).state = "HANDOFF_INITIATED"
         /\ RevertHandoff(i) \in Instances /\ RevertHandoff(i).tick = i.tick
         /\ RevertHandoff(i).state # "HANDOFF_INITIATED"
         /\ RequireRecovery(i) \in Instances /\ RequireRecovery(i).tick = i.tick
         /\ RequireRecovery(i).state = "RECOVERY_REQUIRED"
         /\ RecoverEpoch(i) \in Instances /\ RecoverEpoch(i).tick = i.tick
         /\ RecoverEpoch(i).state = "ACTIVE_OWNER"
<1>1. NextGeneration(i) \in Instances
  BY DEF Instances, NextGeneration
<1>2. /\ TransitionToHandoff(i) \in Instances /\ TransitionToHandoff(i).tick = i.tick
      /\ TransitionToHandoff(i).state = "HANDOFF_INITIATED"
  BY DEF Instances, States, TransitionToHandoff
<1>3. /\ RevertHandoff(i) \in Instances /\ RevertHandoff(i).tick = i.tick
      /\ RevertHandoff(i).state # "HANDOFF_INITIATED"
  BY DEF Instances, States, RevertHandoff, CanRevert
<1>4. /\ RequireRecovery(i) \in Instances /\ RequireRecovery(i).tick = i.tick
      /\ RequireRecovery(i).state = "RECOVERY_REQUIRED"
  BY DEF Instances, States, RequireRecovery
<1>5. /\ RecoverEpoch(i) \in Instances /\ RecoverEpoch(i).tick = i.tick
      /\ RecoverEpoch(i).state = "ACTIVE_OWNER"
  <2> DEFINE a == [i EXCEPT !.state = "ACTIVE_OWNER"]
             b == [a EXCEPT !.major = i.major + 1]
             c == [b EXCEPT !.gen = 0]
  <2>1. a \in Instances /\ a.tick = i.tick /\ a.state = "ACTIVE_OWNER" /\ i.major \in Nat
    BY DEF Instances, States
  <2> HIDE DEF a
  <2>2. b \in Instances /\ b.tick = a.tick /\ b.state = a.state
    BY <2>1 DEF Instances
  <2> HIDE DEF b
  <2>3. c \in Instances /\ c.tick = b.tick /\ c.state = b.state
    BY <2>2 DEF Instances
  <2>4. RecoverEpoch(i) = c
    BY DEF RecoverEpoch, a, b
  <2> HIDE DEF c
  <2> QED
    BY <2>1, <2>2, <2>3, <2>4
<1> QED
  BY <1>1, <1>2, <1>3, <1>4, <1>5

LEMMA SnapshotType ==
  ASSUME NEW i \in Instances
  PROVE  Snapshot(i) \in Checkpoints /\ Snapshot(i).tick = i.tick
  BY DEF Instances, Checkpoints, Snapshot

LEMMA StartTypes ==
  ASSUME NEW t \in Nat, NEW m \in Nat
  PROVE  /\ WithTick(NewLease, t) \in Instances /\ WithTick(NewLease, t).tick = t
         /\ WithTick(NewLease, t).state = "ACTIVE_OWNER"
         /\ WithTick(NewLeaseFromMigration(m), t) \in Instances
         /\ WithTick(NewLeaseFromMigration(m), t).tick = t
         /\ WithTick(NewLeaseFromMigration(m), t).state = "ACTIVE_OWNER"
  BY DEF Instances, States, WithTick, NewLease, NewLeaseFromMigration

\* The instance after a tick.
LEMMA TickType ==
  ASSUME NEW n \in Nodes, inst \in [Nodes -> Instances \cup {NoInst}],
         inst[n] \in Instances, Tick(n)
  PROVE  /\ inst' = [inst EXCEPT ![n] = inst'[n]] /\ inst'[n] \in Instances
         /\ inst'[n].state = inst[n].state /\ inst'[n].tick = inst[n].tick + 1
         /\ inst[n].tick < MaxTick
<1>1. PICK l \in {inst[n], NextGeneration(inst[n])} :
         inst' = [inst EXCEPT ![n] = [l EXCEPT !.tick = l.tick + 1]]
  BY DEF Tick
<1>2. l \in Instances /\ l.state = inst[n].state /\ l.tick = inst[n].tick
  BY LeaseTypes DEF NextGeneration, Instances
<1>3. /\ [l EXCEPT !.tick = l.tick + 1] \in Instances
      /\ [l EXCEPT !.tick = l.tick + 1].state = l.state
      /\ [l EXCEPT !.tick = l.tick + 1].tick = l.tick + 1
  BY <1>2 DEF Instances
<1> HIDE DEF Instances
<1>4. inst'[n] = [l EXCEPT !.tick = l.tick + 1]
  BY <1>1, inst \in [Nodes -> Instances \cup {NoInst}]
<1> QED
  BY <1>1, <1>2, <1>3, <1>4 DEF Tick

-----------------------------------------------------------------------------
(* A call.                                                                 *)

\* Calls that end and streams that go away disturb nothing.
LEMMA FewerCalls ==
  ASSUME CallInv, streams' \subseteq streams, UNCHANGED <<calls, accepted>>,
         \A n \in Nodes : out'[n] \in {out[n], NoCall}
  PROVE  Numbered' /\ OneStream' /\ Settled'
<1>1. Numbered'
  BY DEF CallInv, Numbered
<1>2. OneStream'
  BY DEF CallInv, OneStream
<1>3. Settled'
  BY DEF CallInv, Settled
<1> QED
  BY <1>1, <1>2, <1>3

LEMMA InitCallInv == Init => CallInv
<1> SUFFICES ASSUME Init PROVE CallInv
  OBVIOUS
<1>1. Types
  BY StartTypes, SnapshotType, ConstantsAssumption DEF Init, Types
<1>2. Numbered /\ OneStream /\ Settled
  BY DEF Init, Numbered, OneStream, Settled
<1>3. Alive
  BY DEF Init, Alive
<1> QED
  BY <1>1, <1>2, <1>3 DEF CallInv

LEMMA LoopCallInv ==
  ASSUME CallInv, NEW n \in Nodes, Tick(n) \/ RecoverLease(n) \/ SaveCheckpoint(n)
  PROVE  CallInv'
<1>1. inst[n] \in Instances /\ up[n] /\ out[n] = NoCall
  BY DEF CallInv, Types, Tick, RecoverLease, SaveCheckpoint, LoopRuns, Hosted
<1>2. /\ inst' = [inst EXCEPT ![n] = inst'[n]] /\ inst'[n] \in Instances
      /\ ckpt' = [ckpt EXCEPT ![n] = ckpt'[n]] /\ ckpt'[n] \in Checkpoints \cup {NoCkpt}
      /\ UNCHANGED <<up, out, streams, calls, accepted>>
  <2>1. CASE Tick(n)
    BY <1>1, <2>1, TickType DEF CallInv, Types, Tick
  <2>2. CASE RecoverLease(n)
    BY <1>1, <2>2, LeaseTypes, SnapshotType DEF CallInv, Types, RecoverLease
  <2>3. CASE SaveCheckpoint(n)
    BY <1>1, <2>3, SnapshotType DEF CallInv, Types, SaveCheckpoint
  <2> QED
    BY <2>1, <2>2, <2>3
<1>3. Types'
  BY <1>2 DEF CallInv, Types
<1>4. Alive'
  BY <1>1, <1>2 DEF CallInv, Types, Alive
<1>5. Numbered' /\ OneStream' /\ Settled'
  BY <1>2, FewerCalls
<1> QED
  BY <1>3, <1>4, <1>5 DEF CallInv

\* The end of a process, by a signal or by a crash.
LEMMA KillCallInv ==
  ASSUME CallInv, NEW n \in Nodes, KillProcess(n), UNCHANGED <<calls, accepted>>,
         ckpt' \in [Nodes -> Checkpoints \cup {NoCkpt}]
  PROVE  CallInv'
<1>1. Types'
  BY DEF CallInv, Types, KillProcess
<1>2. Alive'
  BY DEF CallInv, Types, Alive, KillProcess, Answered, NoInst, NoCall
<1>3. Numbered' /\ OneStream' /\ Settled'
  BY FewerCalls DEF KillProcess, CallInv, Types
<1> QED
  BY <1>1, <1>2, <1>3 DEF CallInv

LEMMA ProcessCallInv ==
  ASSUME CallInv, NEW n \in Nodes,
         Shutdown(n) \/ StopNode(n) \/ Crash(n) \/ RunAgent(n) \/ StartNode(n)
  PROVE  CallInv'
<1>1. CASE Shutdown(n)
  BY <1>1, KillCallInv, SnapshotType DEF Shutdown, LoopRuns, Hosted, CallInv, Types
<1>2. CASE Crash(n)
  BY <1>2, KillCallInv DEF Crash, CallInv, Types
<1>3. CASE StopNode(n)
  <2>1. Types'
    BY <1>3 DEF StopNode, CallInv, Types
  <2>2. Alive'
    BY <1>3 DEF StopNode, Hosted, Answered, CallInv, Types, Alive
  <2>3. Numbered' /\ OneStream' /\ Settled'
    BY <1>3, FewerCalls DEF StopNode
  <2> QED
    BY <2>1, <2>2, <2>3 DEF CallInv
<1>4. CASE RunAgent(n)
  <2>1. Types'
    BY <1>4, StartTypes DEF RunAgent, CallInv, Types, Checkpoints
  <2>2. Alive'
    BY <1>4 DEF RunAgent, Answered, CallInv, Types, Alive
  <2>3. Numbered' /\ OneStream' /\ Settled'
    BY <1>4, FewerCalls DEF RunAgent
  <2> QED
    BY <2>1, <2>2, <2>3 DEF CallInv
<1>5. CASE StartNode(n)
  <2>1. Types'
    BY <1>5 DEF StartNode, CallInv, Types
  <2>2. Alive'
    BY <1>5 DEF StartNode, Answered, CallInv, Types, Alive
  <2>3. Numbered' /\ OneStream' /\ Settled'
    BY <1>5, FewerCalls DEF StartNode
  <2> QED
    BY <2>1, <2>2, <2>3 DEF CallInv
<1> QED
  BY <1>1, <1>2, <1>3, <1>4, <1>5

\* A new call has a number of its own, so no stream and no other call has it.
LEMMA BeginCallInv ==
  ASSUME CallInv, NEW n \in Nodes, NEW retry \in BOOLEAN, NEW targets \in Seq(Nodes),
         targets # << >>, \A i \in 1..Len(targets) : targets[i] # n,
         calls < MaxCalls, ckpt[n] # NoCkpt, out[n] = NoCall,
         out' = [out EXCEPT ![n] = NewCall(n, retry, targets)], calls' = calls + 1,
         up' = [up EXCEPT ![n] = TRUE], inst' = [inst EXCEPT ![n] = inst'[n]],
         inst'[n] \in Instances \cup {NoInst},
         Hosted(n) => inst'[n].state = "HANDOFF_INITIATED",
         UNCHANGED <<ckpt, streams, accepted>>
  PROVE  CallInv'
<1> DEFINE new == NewCall(n, retry, targets)
           h == Hosted(n)
<1>1. ckpt[n] \in Checkpoints /\ calls + 1 \in Nat /\ 0 \in 0..(MaxAttempts - 1) /\ h \in BOOLEAN
  BY ConstantsAssumption DEF CallInv, Types, Hosted
<1>2. /\ new \in Calls /\ new.call = calls + 1 /\ new.targets = targets
      /\ new.hasAgent = h
  <2> HIDE DEF h
  <2>1. new = [call |-> calls + 1, retry |-> retry, hasAgent |-> h, pkg |-> ckpt[n],
               targets |-> targets, attempt |-> 0, phase |-> "dial"]
    BY DEF NewCall, h
  <2> HIDE DEF new
  <2> QED
    BY <1>1, <2>1 DEF Calls
<1> HIDE DEF new
<1>3. new # NoCall /\ out' = [out EXCEPT ![n] = new]
  BY <1>2, Distinct DEF new
<1>4. Types'
  BY <1>2, <1>3, ConstantsAssumption DEF CallInv, Types
<1>5. Alive'
  BY <1>2, <1>3 DEF CallInv, Types, Alive, Answered
<1>6. Numbered'
  BY <1>2, <1>3 DEF CallInv, Types, Numbered
<1>7. OneStream'
  BY <1>2, <1>3 DEF CallInv, Types, Numbered, OneStream
<1>8. Settled'
  <2>1. \A c \in CallIds : accepted[c] # {} => c # calls + 1 /\ c <= calls + 1
    BY DEF CallInv, Types, Settled, CallIds
  <2> QED
    BY <1>2, <1>3, <2>1 DEF CallInv, Types, Settled
<1> QED
  BY <1>4, <1>5, <1>6, <1>7, <1>8 DEF CallInv

LEMMA TargetListType ==
  ASSUME NEW n \in Nodes, NEW ts \in TargetLists(n)
  PROVE  ts \in Seq(Nodes) /\ ts # << >> /\ \A i \in 1..Len(ts) : ts[i] # n
<1>1. PICK k \in 1..(Cardinality(Nodes) - 1) : ts \in [1..k -> Nodes \ {n}]
  BY DEF TargetLists
<1> QED
  BY <1>1

LEMMA StartCallInv ==
  ASSUME CallInv, NEW n \in Nodes, Begin(n)
  PROVE  CallInv'
<1>1. ASSUME NEW retry \in BOOLEAN, NEW ts \in Seq(Nodes), ts # << >>,
             \A i \in 1..Len(ts) : ts[i] # n, BeginCall(n, retry, ts)
      PROVE  CallInv'
  <2>1. inst[n] \in Instances /\ up' = [up EXCEPT ![n] = TRUE]
    BY <1>1 DEF BeginCall, LoopRuns, Hosted, CallInv, Types
  <2>2. inst'[n] = TransitionToHandoff(inst[n])
    BY <1>1 DEF BeginCall, CallInv, Types
  <2> QED
    BY <1>1, <2>1, <2>2, BeginCallInv, LeaseTypes DEF BeginCall, LoopRuns
<1>2. ASSUME NEW t \in Nodes \ {n}, MigrateAgent(n, t)
      PROVE  CallInv'
  <2>1. <<t>> \in Seq(Nodes) /\ <<t>> # << >> /\ \A i \in 1..Len(<<t>>) : <<t>>[i] # n
    OBVIOUS
  <2> QED
    BY <1>1, <1>2, <2>1 DEF MigrateAgent
<1>3. ASSUME NEW ts \in TargetLists(n), MigrateAgentWithRetry(n, ts)
      PROVE  CallInv'
  BY <1>1, <1>3, TargetListType DEF MigrateAgentWithRetry
<1>4. ASSUME NEW t \in Nodes \ {n}, MigrateFromStorage(n, t)
      PROVE  CallInv'
  <2>1. inst[n] = NoInst /\ out[n] = NoCall
    BY <1>4 DEF MigrateFromStorage, CallInv, Alive
  <2>2. inst' = [inst EXCEPT ![n] = inst'[n]] /\ inst'[n] = NoInst
    BY <1>4, <2>1 DEF MigrateFromStorage, CallInv, Types
  <2>3. <<t>> \in Seq(Nodes) /\ <<t>> # << >> /\ \A i \in 1..Len(<<t>>) : <<t>>[i] # n
    OBVIOUS
  <2> QED
    BY <1>4, <2>1, <2>2, <2>3, BeginCallInv DEF MigrateFromStorage, Hosted
<1>5. CASE MigrateWithoutCheckpoint(n)
  <2>1. inst[n] \in Instances /\ up[n] /\ out[n] = NoCall
    BY <1>5 DEF MigrateWithoutCheckpoint, LoopRuns, Hosted, CallInv, Types
  <2>2. /\ inst' = [inst EXCEPT ![n] = TransitionToHandoff(inst[n])]
        /\ TransitionToHandoff(inst[n]) \in Instances
    BY <1>5, <2>1, LeaseTypes DEF MigrateWithoutCheckpoint
  <2>3. Types'
    BY <1>5, <2>2 DEF MigrateWithoutCheckpoint, CallInv, Types
  <2>4. Alive'
    BY <1>5, <2>1, <2>2 DEF MigrateWithoutCheckpoint, CallInv, Types, Alive
  <2>5. Numbered' /\ OneStream' /\ Settled'
    BY <1>5, FewerCalls DEF MigrateWithoutCheckpoint
  <2> QED
    BY <2>3, <2>4, <2>5 DEF CallInv
<1> QED
  BY <1>2, <1>3, <1>4, <1>5 DEF Begin

\* The call returns, with whatever instance and streams it leaves behind.
LEMMA ReturnCallInv ==
  ASSUME CallInv, NEW n \in Nodes, out[n] # NoCall,
         NEW i, out[n].hasAgent => i \in Instances \cup {NoInst},
         NEW remaining \in SUBSET streams, Return(n, i, remaining),
         ckpt' \in [Nodes -> Checkpoints \cup {NoCkpt}], UNCHANGED <<calls, accepted>>
  PROVE  CallInv'
<1>1. out[n].hasAgent \in BOOLEAN
  BY DEF CallInv, Types, Calls
<1>2. Types'
  BY <1>1 DEF Return, CallInv, Types
<1>3. Alive'
  BY <1>1 DEF Return, CallInv, Types, Alive, Answered
<1>4. Numbered' /\ OneStream' /\ Settled'
  BY FewerCalls DEF Return, CallInv, Types
<1> QED
  BY <1>2, <1>3, <1>4 DEF CallInv

\* The call goes on, with no stream of its own left and nothing started.
LEMMA ResumeCallInv ==
  ASSUME CallInv, NEW n \in Nodes, out[n] # NoCall,
         out' = [out EXCEPT ![n] = out'[n]], out'[n] \in Calls, out'[n].call = out[n].call,
         out'[n].hasAgent = out[n].hasAgent, out'[n].targets # << >>,
         \A i \in 1..Len(out'[n].targets) : out'[n].targets[i] # n,
         streams' \subseteq streams, \A s \in streams' : s.call # out[n].call,
         accepted[out[n].call] = {}, UNCHANGED <<up, inst, ckpt, calls, accepted>>
  PROVE  CallInv'
<1>1. Types'
  BY DEF CallInv, Types
<1>2. Alive'
  BY DEF CallInv, Types, Alive, Answered
<1>3. Numbered'
  BY DEF CallInv, Types, Numbered
<1>4. OneStream'
  BY DEF CallInv, Types, OneStream
<1>5. Settled'
  BY DEF CallInv, Types, Settled
<1> QED
  BY <1>1, <1>2, <1>3, <1>4, <1>5 DEF CallInv

\* The two ways in which a failed attempt goes on.
LEMMA NextAttempt ==
  ASSUME NEW o \in Calls, o.attempt < MaxAttempts - 1
  PROVE  LET next == [o EXCEPT !.attempt = o.attempt + 1, !.phase = "backoff"]
         IN  /\ next \in Calls /\ next.call = o.call /\ next.hasAgent = o.hasAgent
             /\ next.targets = o.targets /\ next.retry = o.retry /\ next.pkg = o.pkg
             /\ next.phase = "backoff"
<1> DEFINE a == [o EXCEPT !.attempt = o.attempt + 1]
           b == [a EXCEPT !.phase = "backoff"]
<1>1. /\ a \in Calls /\ a.call = o.call /\ a.hasAgent = o.hasAgent /\ a.targets = o.targets
      /\ a.retry = o.retry /\ a.pkg = o.pkg
  BY ConstantsAssumption DEF Calls
<1> HIDE DEF a
<1>2. /\ b \in Calls /\ b.call = a.call /\ b.hasAgent = a.hasAgent /\ b.targets = a.targets
      /\ b.retry = a.retry /\ b.pkg = a.pkg /\ b.phase = "backoff"
  BY <1>1 DEF Calls
<1>3. b = [o EXCEPT !.attempt = o.attempt + 1, !.phase = "backoff"]
  BY DEF a
<1> HIDE DEF b
<1> QED
  BY <1>1, <1>2, <1>3

LEMMA NextTarget ==
  ASSUME NEW o \in Calls, Len(o.targets) > 1
  PROVE  LET next == [o EXCEPT !.targets = Tail(o.targets), !.attempt = 0, !.phase = "dial"]
         IN  /\ next \in Calls /\ next.call = o.call /\ next.hasAgent = o.hasAgent
             /\ next.targets = Tail(o.targets) /\ next.retry = o.retry /\ next.pkg = o.pkg
             /\ next.phase = "dial"
<1> DEFINE a == [o EXCEPT !.targets = Tail(o.targets)]
           b == [a EXCEPT !.attempt = 0]
           c == [b EXCEPT !.phase = "dial"]
<1>1. Tail(o.targets) \in Seq(Nodes)
  BY DEF Calls
<1>2. /\ a \in Calls /\ a.call = o.call /\ a.hasAgent = o.hasAgent /\ a.targets = Tail(o.targets)
      /\ a.retry = o.retry /\ a.pkg = o.pkg
  BY <1>1 DEF Calls
<1> HIDE DEF a
<1>3. /\ b \in Calls /\ b.call = a.call /\ b.hasAgent = a.hasAgent /\ b.targets = a.targets
      /\ b.retry = a.retry /\ b.pkg = a.pkg
  <2>1. 0 \in 0..(MaxAttempts - 1)
    BY ConstantsAssumption
  <2> QED
    BY <1>2, <2>1 DEF Calls
<1> HIDE DEF b
<1>4. /\ c \in Calls /\ c.call = b.call /\ c.hasAgent = b.hasAgent /\ c.targets = b.targets
      /\ c.retry = b.retry /\ c.pkg = b.pkg /\ c.phase = "dial"
  BY <1>3 DEF Calls
<1>5. c = [o EXCEPT !.targets = Tail(o.targets), !.attempt = 0, !.phase = "dial"]
  BY DEF a, b
<1> HIDE DEF c
<1> QED
  BY <1>2, <1>3, <1>4, <1>5

LEMMA NewPhase ==
  ASSUME NEW o \in Calls, NEW p \in {"dial", "sent", "backoff"}
  PROVE  LET next == [o EXCEPT !.phase = p]
         IN  /\ next \in Calls /\ next.call = o.call /\ next.hasAgent = o.hasAgent
             /\ next.targets = o.targets /\ next.retry = o.retry /\ next.pkg = o.pkg
             /\ next.phase = p
  BY DEF Calls

\* A call that is not NoCall, and where it stands.
LEMMA CallFacts ==
  ASSUME CallInv, NEW n \in Nodes, out[n].phase \in {"dial", "sent", "backoff"}
  PROVE  /\ out[n] # NoCall /\ out[n] \in Calls /\ out[n].call \in CallIds
         /\ out[n].targets # << >> /\ out[n].targets \in Seq(Nodes)
         /\ \A i \in 1..Len(out[n].targets) : out[n].targets[i] # n
         /\ out[n].hasAgent => inst[n] \in Instances /\ inst[n].state = "HANDOFF_INITIATED"
<1>1. out[n] # NoCall
  BY DEF NoCall
<1>2. out[n] \in Calls /\ calls \in 0..MaxCalls
  BY <1>1 DEF CallInv, Types
<1>3. out[n].call \in CallIds
  BY <1>1, <1>2, ConstantsAssumption DEF CallInv, Numbered, CallIds
<1>4. out[n].hasAgent => inst[n].state = "HANDOFF_INITIATED" /\ inst[n] # NoInst
  BY <1>1 DEF CallInv, Alive, NoInst
<1>5. inst[n] \in Instances \cup {NoInst}
  BY DEF CallInv, Types
<1>6. out[n].targets \in Seq(Nodes)
  BY <1>2 DEF Calls
<1>7. out[n].targets # << >> /\ \A i \in 1..Len(out[n].targets) : out[n].targets[i] # n
  BY <1>1 DEF CallInv, Numbered
<1> QED
  BY <1>1, <1>2, <1>3, <1>4, <1>5, <1>6, <1>7

\* The stream a call waits on is its only one, and a call that waits on no
\* successful one has started nothing.
LEMMA AwaitedFacts ==
  ASSUME CallInv, NEW n \in Nodes, out[n].phase \in {"dial", "sent", "backoff"}
  PROVE  /\ out[n].phase # "sent" =>
              accepted[out[n].call] = {} /\ \A s \in streams : s.call # out[n].call
         /\ \A s \in Awaited(n) :
              /\ s \in streams /\ s.src = n /\ s.call = out[n].call
              /\ \A t \in streams \ {s} : t.call # out[n].call
              /\ s.phase # "ok" => accepted[out[n].call] = {}
  BY CallFacts DEF CallInv, OneStream, Settled, Awaited

LEMMA AfterFailureCallInv ==
  ASSUME CallInv, NEW n \in Nodes, NEW retriable \in BOOLEAN, NEW remaining \in SUBSET streams,
         out[n].phase \in {"dial", "sent", "backoff"}, AfterFailure(n, retriable, remaining),
         accepted[out[n].call] = {}, \A s \in remaining : s.call # out[n].call,
         UNCHANGED <<ckpt, calls, accepted>>
  PROVE  CallInv'
<1> DEFINE o == out[n]
<1>1. /\ o # NoCall /\ o \in Calls /\ o.targets # << >> /\ o.targets \in Seq(Nodes)
      /\ \A i \in 1..Len(o.targets) : o.targets[i] # n
      /\ o.hasAgent => inst[n] \in Instances /\ RevertHandoff(inst[n]) \in Instances
  BY CallFacts, LeaseTypes
<1>2. ckpt' \in [Nodes -> Checkpoints \cup {NoCkpt}]
  BY DEF CallInv, Types
<1>3. CASE Return(n, inst[n], remaining)
  BY <1>1, <1>2, <1>3, ReturnCallInv
<1>4. CASE Return(n, RevertHandoff(inst[n]), remaining)
  BY <1>1, <1>2, <1>4, ReturnCallInv
<1>5. ASSUME o.attempt < MaxAttempts - 1, streams' = remaining, UNCHANGED <<up, inst>>,
             out' = [out EXCEPT ![n] = [o EXCEPT !.attempt = o.attempt + 1, !.phase = "backoff"]]
      PROVE  CallInv'
  <2> DEFINE next == [o EXCEPT !.attempt = o.attempt + 1, !.phase = "backoff"]
  <2>1. /\ next \in Calls /\ next.call = o.call /\ next.hasAgent = o.hasAgent
        /\ next.targets = o.targets
    BY <1>1, <1>5, NextAttempt
  <2> HIDE DEF next
  <2>2. out'[n] = next /\ out' = [out EXCEPT ![n] = out'[n]]
    BY <1>5 DEF next, CallInv, Types
  <2>3. out' = [out EXCEPT ![n] = out'[n]] /\ out'[n] \in Calls /\ out'[n].call = out[n].call
    BY <1>5, <1>1, <2>1, <2>2
  <2>4. /\ out'[n].hasAgent = out[n].hasAgent /\ out'[n].targets # << >>
        /\ \A i \in 1..Len(out'[n].targets) : out'[n].targets[i] # n
    BY <1>5, <1>1, <2>1, <2>2
  <2>5. /\ streams' \subseteq streams /\ \A s \in streams' : s.call # out[n].call
        /\ accepted[out[n].call] = {} /\ UNCHANGED <<up, inst, ckpt, calls, accepted>>
    BY <1>5
  <2> QED
    BY <1>1, <2>3, <2>4, <2>5, ResumeCallInv
<1>6. ASSUME Len(o.targets) > 1, streams' = remaining, UNCHANGED <<up, inst>>,
             out' = [out EXCEPT ![n] = [o EXCEPT !.targets = Tail(o.targets), !.attempt = 0,
                                                 !.phase = "dial"]]
      PROVE  CallInv'
  <2>1. Tail(o.targets) # << >> /\ \A i \in 1..Len(Tail(o.targets)) : Tail(o.targets)[i] # n
    BY <1>1, <1>6
  <2> DEFINE next == [o EXCEPT !.targets = Tail(o.targets), !.attempt = 0, !.phase = "dial"]
  <2>2. /\ next \in Calls /\ next.call = o.call /\ next.hasAgent = o.hasAgent
        /\ next.targets = Tail(o.targets)
    BY <1>1, <1>6, NextTarget
  <2> HIDE DEF next
  <2>3. out'[n] = next /\ out' = [out EXCEPT ![n] = out'[n]]
    BY <1>6 DEF next, CallInv, Types
  <2>4. out' = [out EXCEPT ![n] = out'[n]] /\ out'[n] \in Calls /\ out'[n].call = out[n].call
    BY <1>6, <1>1, <2>1, <2>2, <2>3
  <2>5. /\ out'[n].hasAgent = out[n].hasAgent /\ out'[n].targets # << >>
        /\ \A i \in 1..Len(out'[n].targets) : out'[n].targets[i] # n
    BY <1>6, <1>1, <2>1, <2>2, <2>3
  <2>6. /\ streams' \subseteq streams /\ \A s \in streams' : s.call # out[n].call
        /\ accepted[out[n].call] = {} /\ UNCHANGED <<up, inst, ckpt, calls, accepted>>
    BY <1>6
  <2> QED
    BY <1>1, <2>4, <2>5, <2>6, ResumeCallInv
<1> QED
  BY <1>3, <1>4, <1>5, <1>6 DEF AfterFailure

LEMMA SendTransferCallInv ==
  ASSUME CallInv, NEW n \in Nodes, SendTransfer(n)
  PROVE  CallInv'
<1> DEFINE o == out[n]
           sent == [o EXCEPT !.phase = "sent"]
           s == [call |-> o.call, src |-> n, dst |-> Target(n), pkg |-> o.pkg, phase |-> "transfer"]
<1>1. /\ o # NoCall /\ o \in Calls /\ o.targets # << >> /\ o.targets \in Seq(Nodes)
      /\ \A i \in 1..Len(o.targets) : o.targets[i] # n
      /\ accepted[o.call] = {} /\ \A t \in streams : t.call # o.call
  BY CallFacts, AwaitedFacts DEF SendTransfer
<1>2. Target(n) \in Nodes \ {n} /\ up[Target(n)]
  BY <1>1 DEF Target, SendTransfer
<1>3. /\ s \in Streams /\ s.call = o.call /\ s.src = n /\ s.dst = Target(n) /\ s.phase = "transfer"
  BY <1>1, <1>2 DEF Streams, Calls, Phases
<1>4. /\ sent \in Calls /\ sent # NoCall /\ sent.call = o.call /\ sent.hasAgent = o.hasAgent
      /\ sent.targets = o.targets /\ sent.phase = "sent"
  BY <1>1, NewPhase, Distinct
<1>5. out' = [out EXCEPT ![n] = sent] /\ streams' = streams \cup {s}
      /\ UNCHANGED <<up, inst, ckpt, calls, accepted>>
  BY DEF SendTransfer
<1> HIDE DEF s, sent
<1>6. Types'
  BY <1>3, <1>4, <1>5 DEF CallInv, Types
<1>7. Alive'
  BY <1>1, <1>2, <1>3, <1>4, <1>5 DEF CallInv, Types, Alive, Answered
<1>8. Numbered'
  BY <1>1, <1>2, <1>3, <1>4, <1>5 DEF CallInv, Types, Numbered
<1>9. OneStream'
  BY <1>1, <1>3, <1>4, <1>5 DEF CallInv, Types, OneStream
<1>10. Settled'
  BY <1>1, <1>3, <1>4, <1>5 DEF CallInv, Types, Settled
<1> QED
  BY <1>6, <1>7, <1>8, <1>9, <1>10 DEF CallInv

LEMMA CallerCallInv ==
  ASSUME CallInv, NEW n \in Nodes, Caller(n)
  PROVE  CallInv'
<1>1. CASE SendFails(n)
  <2>1. /\ out[n].phase = "dial" /\ AfterFailure(n, TRUE, streams)
        /\ UNCHANGED <<ckpt, calls, accepted>>
    BY <1>1 DEF SendFails
  <2>2. accepted[out[n].call] = {} /\ \A s \in streams : s.call # out[n].call
    BY <2>1, AwaitedFacts
  <2> QED
    BY <2>1, <2>2, AfterFailureCallInv
<1>2. CASE SendTransfer(n)
  BY <1>2, SendTransferCallInv
<1>3. CASE BackoffOver(n)
  <2>1. /\ out[n] # NoCall /\ out[n] \in Calls /\ out[n].targets # << >>
        /\ \A i \in 1..Len(out[n].targets) : out[n].targets[i] # n
        /\ accepted[out[n].call] = {} /\ \A s \in streams : s.call # out[n].call
    BY <1>3, CallFacts, AwaitedFacts DEF BackoffOver
  <2> DEFINE next == [out[n] EXCEPT !.phase = "dial"]
  <2>2. /\ next \in Calls /\ next.call = out[n].call /\ next.hasAgent = out[n].hasAgent
        /\ next.targets = out[n].targets
    BY <2>1, NewPhase
  <2> HIDE DEF next
  <2>3. out'[n] = next /\ out' = [out EXCEPT ![n] = out'[n]]
    BY <1>3 DEF BackoffOver, next, CallInv, Types
  <2>4. out' = [out EXCEPT ![n] = out'[n]] /\ out'[n] \in Calls /\ out'[n].call = out[n].call
    BY <1>3, <2>1, <2>2, <2>3
  <2>5. /\ out'[n].hasAgent = out[n].hasAgent /\ out'[n].targets # << >>
        /\ \A i \in 1..Len(out'[n].targets) : out'[n].targets[i] # n
    BY <1>3, <2>1, <2>2, <2>3
  <2>6. /\ streams' \subseteq streams /\ \A s \in streams' : s.call # out[n].call
        /\ accepted[out[n].call] = {} /\ UNCHANGED <<up, inst, ckpt, calls, accepted>>
    BY <1>3, <2>1 DEF BackoffOver
  <2> QED
    BY <2>1, <2>4, <2>5, <2>6, ResumeCallInv
<1>4. CASE BackoffCancelled(n)
  <2>1. out[n] # NoCall /\ (out[n].hasAgent => RevertHandoff(inst[n]) \in Instances)
    BY <1>4, CallFacts, LeaseTypes DEF BackoffCancelled
  <2> QED
    BY <1>4, <2>1, ReturnCallInv DEF BackoffCancelled, CallInv, Types
<1>5. CASE ConfirmFailure(n)
  <2>1. PICK s \in Awaited(n) : /\ s.phase \in {"fatal", "retriable"}
                                /\ AfterFailure(n, s.phase = "retriable", streams \ {s})
                                /\ UNCHANGED <<ckpt, calls, accepted>>
    BY <1>5 DEF ConfirmFailure
  <2>2. out[n].phase = "sent" /\ accepted[out[n].call] = {}
        /\ \A t \in streams \ {s} : t.call # out[n].call
    BY <2>1, AwaitedFacts DEF Awaited
  <2> QED
    BY <2>1, <2>2, AfterFailureCallInv
<1>6. CASE ConfirmSuccess(n)
  <2>1. PICK s \in Awaited(n) : Return(n, NoInst, streams \ {s})
    BY <1>6 DEF ConfirmSuccess
  <2>2. out[n] # NoCall
    BY <2>1 DEF Awaited, NoCall
  <2> QED
    BY <1>6, <2>1, <2>2, ReturnCallInv DEF ConfirmSuccess, CallInv, Types
<1>7. CASE ConfirmLost(n)
  <2>1. out[n] # NoCall /\ (out[n].hasAgent => AmbiguousInst(n) \in Instances)
    BY <1>7, CallFacts, LeaseTypes DEF ConfirmLost, AmbiguousInst
  <2>2. PICK inFlight \in {{"saved"}, {"transfer", "saved"}} :
           Return(n, AmbiguousInst(n), {s \in streams : s \in Awaited(n) => s.phase \in inFlight})
    BY <1>7 DEF ConfirmLost
  <2> QED
    BY <1>7, <2>1, <2>2, ReturnCallInv DEF ConfirmLost, CallInv, Types
<1> QED
  BY <1>1, <1>2, <1>3, <1>4, <1>5, <1>6, <1>7 DEF Caller

\* A handler moves its stream on, or ends it.
LEMMA StreamPhase ==
  ASSUME NEW s \in Streams, NEW p \in Phases
  PROVE  LET t == [s EXCEPT !.phase = p]
         IN  /\ t \in Streams /\ t.call = s.call /\ t.src = s.src /\ t.dst = s.dst
             /\ t.pkg = s.pkg /\ t.phase = p
  BY DEF Streams

LEMMA HandleCallInv ==
  ASSUME CallInv, NEW s \in streams, s.phase \in {"transfer", "saved"}, NEW p \in Phases,
         streams' \subseteq (streams \ {s}) \cup {[s EXCEPT !.phase = p]},
         inst' \in [Nodes -> Instances \cup {NoInst}],
         \A n \in Nodes : inst'[n] = inst[n] \/ (n = s.dst /\ inst[n] = NoInst /\ up[n]),
         ckpt' \in [Nodes -> Checkpoints \cup {NoCkpt}],
         \/ accepted' = accepted
         \/ p = "ok" /\ accepted' = [accepted EXCEPT ![s.call] = @ \cup {s.dst}],
         UNCHANGED <<up, out, calls>>
  PROVE  CallInv'
<1> DEFINE t == [s EXCEPT !.phase = p]
<1>1. /\ t \in Streams /\ t.call = s.call /\ t.src = s.src /\ t.dst = s.dst /\ t.phase = p
      /\ s.dst \in Nodes
  BY StreamPhase DEF CallInv, Types, Streams
<1>2. /\ streams' \subseteq (streams \ {s}) \cup {t}
      /\ s.call \in CallIds /\ s.call <= calls /\ accepted[s.call] = {}
  BY ConstantsAssumption DEF CallInv, Types, Numbered, Settled, CallIds
<1> HIDE DEF t
<1>3. Types'
  BY <1>1, <1>2 DEF CallInv, Types
<1>4. Alive'
  <2>1. \A u \in streams' : ~Answered(u) => up[u.dst]
    BY <1>1, <1>2 DEF CallInv, Alive, Answered
  <2> QED
    BY <2>1 DEF CallInv, Types, Alive, NoInst
<1>5. Numbered'
  BY <1>1, <1>2 DEF CallInv, Numbered
<1>6. OneStream'
  BY <1>1, <1>2 DEF CallInv, OneStream
<1>7. Settled'
  <2>1. CASE accepted' = accepted
    BY <1>1, <1>2, <2>1 DEF CallInv, Settled
  <2>2. CASE p = "ok" /\ accepted' = [accepted EXCEPT ![s.call] = @ \cup {s.dst}]
    <3>1. accepted'[s.call] = {s.dst} /\ \A c \in CallIds \ {s.call} : accepted'[c] = accepted[c]
      BY <1>2, <2>2 DEF CallInv, Types
    <3>2. \A u \in streams' : u.call = s.call => u.phase = "ok"
      BY <1>1, <1>2, <2>2 DEF CallInv, OneStream
    <3>3. \A n \in Nodes : out[n] # NoCall /\ out[n].call = s.call => out[n].phase = "sent"
      BY DEF CallInv, OneStream
    <3>4. ASSUME NEW c \in CallIds, c # s.call, accepted[c] # {}
          PROVE  \A u \in streams' : u.call = c => u.phase = "ok"
      BY <1>1, <1>2, <3>4 DEF CallInv, Settled
    <3> QED
      BY <1>1, <1>2, <3>1, <3>2, <3>3, <3>4 DEF CallInv, Settled
  <2> QED
    BY <2>1, <2>2
<1> QED
  BY <1>3, <1>4, <1>5, <1>6, <1>7 DEF CallInv

\* Every answer and every saved package is one such move.
LEMMA HandlerCallInv ==
  ASSUME CallInv, NEW s \in streams, Handler(s)
  PROVE  CallInv'
<1>1. s \in Streams /\ s.dst \in Nodes /\ s.pkg \in Checkpoints /\ s.pkg.major \in Nat
  BY DEF CallInv, Types, Streams, Checkpoints
<1>2. /\ inst \in [Nodes -> Instances \cup {NoInst}]
      /\ ckpt \in [Nodes -> Checkpoints \cup {NoCkpt}]
  BY DEF CallInv, Types
<1>3. CASE RejectTransfer(s)
  BY <1>2, <1>3, HandleCallInv DEF RejectTransfer, Answer, Phases
<1>4. CASE AcceptTransfer(s)
  BY <1>1, <1>2, <1>4, HandleCallInv DEF AcceptTransfer, Phases
<1>5. CASE StartMigrated(s)
  <2> DEFINE tick == IF ckpt[s.dst] = NoCkpt THEN 0 ELSE ckpt[s.dst].tick
             i == WithTick(NewLeaseFromMigration(s.pkg.major), tick)
  <2>1. tick \in Nat
    BY <1>1, <1>2 DEF Checkpoints
  <2> HIDE DEF tick
  <2>2. i \in Instances
    BY <1>1, <2>1, StartTypes
  <2>3. inst' = [inst EXCEPT ![s.dst] = i]
    BY <1>5 DEF StartMigrated, tick
  <2> HIDE DEF i
  <2>4. up[s.dst] /\ inst[s.dst] = NoInst
    BY <1>5 DEF StartMigrated, Hosted, CallInv, Alive, Answered
  <2>5. /\ inst' \in [Nodes -> Instances \cup {NoInst}]
        /\ \A n \in Nodes : inst'[n] = inst[n] \/ (n = s.dst /\ inst[n] = NoInst /\ up[n])
    BY <1>1, <1>2, <2>2, <2>3, <2>4
  <2> QED
    BY <1>2, <1>5, <2>5, HandleCallInv DEF StartMigrated, Answer, Phases
<1>6. CASE LoadFails(s)
  BY <1>1, <1>2, <1>6, HandleCallInv DEF LoadFails, Answer, Phases
<1>7. CASE DropTransfer(s)
  BY <1>2, <1>7, HandleCallInv DEF DropTransfer, Phases
<1> QED
  BY <1>3, <1>4, <1>5, <1>6, <1>7 DEF Handler

LEMMA NextCallInv == CallInv /\ [Next]_vars => CallInv'
<1> SUFFICES ASSUME CallInv, [Next]_vars PROVE CallInv'
  OBVIOUS
<1>1. ASSUME NEW n \in Nodes, Loop(n) PROVE CallInv'
  BY <1>1, LoopCallInv, ProcessCallInv DEF Loop
<1>2. ASSUME NEW n \in Nodes, Begin(n) PROVE CallInv'
  BY <1>2, StartCallInv
<1>3. ASSUME NEW n \in Nodes, Caller(n) PROVE CallInv'
  BY <1>3, CallerCallInv
<1>4. ASSUME NEW s \in streams, Handler(s) PROVE CallInv'
  BY <1>4, HandlerCallInv
<1>5. CASE UNCHANGED vars
  BY <1>5 DEF vars, CallInv, Types, Numbered, Alive, OneStream, Settled, Answered
<1> QED
  BY <1>1, <1>2, <1>3, <1>4, <1>5 DEF Next

-----------------------------------------------------------------------------
(* Theorems about one call, whatever fails.                                *)

\* The inductive invariant of calls and streams, whatever fails: a call has at
\* most one stream, on which its caller waits, and once it has started the
\* agent somewhere no handler can start it again.
THEOREM CallCorrect == Spec => []CallInv
<1>1. Init => CallInv
  BY InitCallInv
<1>2. CallInv /\ [Next]_vars => CallInv'
  BY NextCallInv
<1> QED
  BY <1>1, <1>2, PTL DEF Spec

\* Every state of a migration is well-formed, for any set of nodes.
THEOREM TypeCorrect == Spec => []TypeOK
<1>1. CallInv => TypeOK
  <2> SUFFICES ASSUME CallInv PROVE TypeOK
    OBVIOUS
  <2>1. ASSUME NEW n \in Nodes, out[n] # NoCall
        PROVE  /\ out[n].call \in 1..calls /\ out[n].pkg \in Checkpoints
               /\ out[n].attempt \in 0..(MaxAttempts - 1)
               /\ Len(out[n].targets) > 0
               /\ out[n].phase \in {"dial", "sent", "backoff"}
    <3>1. out[n] \in Calls /\ out[n].call \in 1..calls /\ out[n].targets # << >>
      BY <2>1 DEF CallInv, Types, Numbered
    <3> QED
      BY <3>1 DEF Calls
  <2>2. ASSUME NEW s \in streams
        PROVE  /\ s.call \in 1..calls /\ s.src # s.dst /\ s.pkg \in Checkpoints
               /\ s.phase \in {"transfer", "saved", "ok", "fatal", "retriable"}
    BY DEF CallInv, Types, Numbered, Streams, Phases
  <2> QED
    BY <2>1, <2>2 DEF CallInv, Types, TypeOK
<1> QED
  BY <1>1, CallCorrect, PTL

\* One call of MigrateAgent or MigrateAgentWithRetry starts the agent on at
\* most one target, through every retry, fallback, crash and lost answer.
THEOREM OneTarget == Spec => []OneTargetPerCall
<1>1. CallInv => OneTargetPerCall
  <2>1. ASSUME CallInv, NEW c \in CallIds PROVE Cardinality(accepted[c]) <= 1
    <3>1. CASE accepted[c] = {}
      BY <3>1, FS_EmptySet
    <3>2. ASSUME NEW n \in Nodes, accepted[c] = {n} PROVE Cardinality(accepted[c]) <= 1
      BY <3>2, FS_Singleton
    <3> QED
      BY <2>1, <3>1, <3>2 DEF CallInv, Settled
  <2> QED
    BY <2>1 DEF OneTargetPerCall
<1> QED
  BY <1>1, CallCorrect, PTL

\* When a step takes an instance from the handoff back to ticking, the call
\* has started it nowhere and no handler of the call is left to start it.
LEMMA RevertStep ==
  ASSUME CallInv, Next, NEW n \in Nodes,
         inst[n].state = "HANDOFF_INITIATED", inst'[n].state = "ACTIVE_OWNER"
  PROVE  /\ accepted[out[n].call] = {}
         /\ \A s \in streams' : s.call = out[n].call => Answered(s)
<1>0. inst \in [Nodes -> Instances \cup {NoInst}] /\ inst[n] # NoInst /\ inst[n] # inst'[n]
  BY DEF CallInv, Types, NoInst
<1>1. ASSUME NEW m \in Nodes, Loop(m) PROVE FALSE
  <2>1. CASE Tick(m)
    BY <1>0, <2>1 DEF Tick, CanTick
  <2>2. CASE RecoverLease(m)
    BY <1>0, <2>2 DEF RecoverLease
  <2>3. CASE Shutdown(m) \/ Crash(m)
    BY <1>0, <2>3 DEF Shutdown, Crash, KillProcess, NoInst
  <2>4. CASE RunAgent(m)
    BY <1>0, <2>4 DEF RunAgent, CallInv, Alive
  <2>5. CASE SaveCheckpoint(m) \/ StopNode(m) \/ StartNode(m)
    BY <1>0, <2>5 DEF SaveCheckpoint, StopNode, StartNode
  <2> QED
    BY <1>1, <2>1, <2>2, <2>3, <2>4, <2>5 DEF Loop
<1>2. ASSUME NEW m \in Nodes, Begin(m) PROVE FALSE
  <2>1. inst'[n] = inst[n] \/ (n = m /\ inst[m].state = "ACTIVE_OWNER")
    BY <1>0, <1>2 DEF Begin, MigrateAgent, MigrateAgentWithRetry, BeginCall, MigrateFromStorage,
       MigrateWithoutCheckpoint, CanHandoff
  <2> QED
    BY <1>0, <2>1
<1>3. ASSUME NEW m \in Nodes, Caller(m)
      PROVE  /\ accepted[out[n].call] = {}
             /\ \A s \in streams' : s.call = out[n].call => Answered(s)
  <2>1. ASSUME NEW i, NEW remaining \in SUBSET streams, Return(m, i, remaining)
        PROVE  m = n /\ i.state = "ACTIVE_OWNER" /\ streams' \subseteq remaining
    BY <1>0, <2>1 DEF Return, NoInst
  <2>2. ASSUME NEW retriable \in BOOLEAN, NEW remaining \in SUBSET streams,
               AfterFailure(m, retriable, remaining)
        PROVE  m = n /\ streams' \subseteq remaining
    BY <1>0, <2>1, <2>2 DEF AfterFailure
  <2>3. CASE SendFails(m)
    BY <2>2, <2>3, AwaitedFacts DEF SendFails
  <2>4. CASE BackoffCancelled(m)
    BY <2>1, <2>4, AwaitedFacts DEF BackoffCancelled
  <2>5. CASE ConfirmFailure(m)
    <3>1. PICK s \in Awaited(m) : /\ s.phase \in {"fatal", "retriable"}
                                  /\ AfterFailure(m, s.phase = "retriable", streams \ {s})
      BY <2>5 DEF ConfirmFailure
    <3>2. m = n /\ streams' \subseteq streams \ {s} /\ out[m].phase = "sent"
      BY <2>2, <3>1 DEF Awaited
    <3> QED
      BY <3>1, <3>2, AwaitedFacts
  <2>6. CASE ConfirmSuccess(m)
    BY <2>1, <2>6 DEF ConfirmSuccess, NoInst
  <2>7. CASE ConfirmLost(m)
    <3>1. AmbiguousInst(m).state = "ACTIVE_OWNER" /\ m = n
      BY <2>1, <2>7 DEF ConfirmLost
    <3>2. inst[n] \in Instances
      BY <1>0
    <3> QED
      BY <3>1, <3>2, LeaseTypes DEF AmbiguousInst
  <2>8. CASE SendTransfer(m) \/ BackoffOver(m)
    BY <1>0, <2>8 DEF SendTransfer, BackoffOver
  <2> QED
    BY <1>3, <2>3, <2>4, <2>5, <2>6, <2>7, <2>8 DEF Caller
<1>4. ASSUME NEW s \in streams, Handler(s) PROVE FALSE
  BY <1>0, <1>4 DEF Handler, RejectTransfer, AcceptTransfer, StartMigrated, LoadFails, DropTransfer,
     Hosted
<1> QED
  BY <1>1, <1>2, <1>3, <1>4 DEF Next

\* RevertHandoff is safe, whatever fails and however many nodes there are.
THEOREM RevertSafe == Spec => RevertIsSafe
<1>1. CallInv /\ [Next]_vars => [ \A n \in Nodes :
        inst[n].state = "HANDOFF_INITIATED" /\ inst'[n].state = "ACTIVE_OWNER" =>
          /\ accepted[out[n].call] = {}
          /\ \A s \in streams' : s.call = out[n].call => Answered(s) ]_vars
  BY RevertStep
<1> QED
  BY <1>1, CallCorrect, PTL DEF Spec, RevertIsSafe

-----------------------------------------------------------------------------
(* Handoffs, when only MigrateAgentWithRetry is called.                     *)

\* A call that returns leaves no handoff if the instance it leaves has none.
LEMMA ReturnRetrying ==
  ASSUME CallInv, Retrying, NEW n \in Nodes, NEW i, NEW remaining, Return(n, i, remaining),
         i.state # "HANDOFF_INITIATED"
  PROVE  Retrying'
  BY DEF Return, CallInv, Types, Retrying, NoInst

LEMMA ResumeRetrying ==
  ASSUME CallInv, Retrying, NEW n \in Nodes, out' = [out EXCEPT ![n] = out'[n]],
         out[n] # NoCall, out'[n] \in Calls, out'[n].retry = out[n].retry,
         out'[n].hasAgent = out[n].hasAgent, UNCHANGED inst
  PROVE  Retrying'
  BY Distinct DEF CallInv, Types, Retrying

LEMMA AfterFailureRetrying ==
  ASSUME CallInv, Retrying, NEW n \in Nodes, NEW retriable \in BOOLEAN,
         NEW remaining \in SUBSET streams,
         out[n].phase \in {"dial", "sent", "backoff"}, AfterFailure(n, retriable, remaining)
  PROVE  Retrying'
<1> DEFINE o == out[n]
<1>1. o # NoCall /\ o \in Calls /\ o.retry /\ RevertHandoff(inst[n]).state # "HANDOFF_INITIATED"
  BY CallFacts, LeaseTypes DEF Retrying
<1>2. CASE Return(n, RevertHandoff(inst[n]), remaining)
  BY <1>1, <1>2, ReturnRetrying
<1>3. ASSUME o.attempt < MaxAttempts - 1, UNCHANGED inst,
             out' = [out EXCEPT ![n] = [o EXCEPT !.attempt = o.attempt + 1, !.phase = "backoff"]]
      PROVE  Retrying'
  <2> DEFINE next == [o EXCEPT !.attempt = o.attempt + 1, !.phase = "backoff"]
  <2>1. next \in Calls /\ next.retry = o.retry /\ next.hasAgent = o.hasAgent
    BY <1>1, <1>3, NextAttempt
  <2> HIDE DEF next
  <2>2. out'[n] = next /\ out' = [out EXCEPT ![n] = out'[n]]
    BY <1>3 DEF next, CallInv, Types
  <2>3. out'[n] \in Calls /\ out'[n].retry = o.retry /\ out'[n].hasAgent = o.hasAgent
    BY <2>1, <2>2
  <2> QED
    BY <1>1, <1>3, <2>2, <2>3, ResumeRetrying
<1>4. ASSUME Len(o.targets) > 1, UNCHANGED inst,
             out' = [out EXCEPT ![n] = [o EXCEPT !.targets = Tail(o.targets), !.attempt = 0,
                                                 !.phase = "dial"]]
      PROVE  Retrying'
  <2> DEFINE next == [o EXCEPT !.targets = Tail(o.targets), !.attempt = 0, !.phase = "dial"]
  <2>1. next \in Calls /\ next.retry = o.retry /\ next.hasAgent = o.hasAgent
    BY <1>1, <1>4, NextTarget
  <2> HIDE DEF next
  <2>2. out'[n] = next /\ out' = [out EXCEPT ![n] = out'[n]]
    BY <1>4 DEF next, CallInv, Types
  <2>3. out'[n] \in Calls /\ out'[n].retry = o.retry /\ out'[n].hasAgent = o.hasAgent
    BY <2>1, <2>2
  <2> QED
    BY <1>1, <1>4, <2>2, <2>3, ResumeRetrying
<1> QED
  BY <1>1, <1>2, <1>3, <1>4 DEF AfterFailure

LEMMA CallerRetrying ==
  ASSUME CallInv, Retrying, NEW n \in Nodes, Caller(n)
  PROVE  Retrying'
<1>1. CASE SendFails(n)
  BY <1>1, AfterFailureRetrying DEF SendFails
<1>2. CASE SendTransfer(n) \/ BackoffOver(n)
  <2>1. PICK p \in {"dial", "sent"} : out' = [out EXCEPT ![n] = [out[n] EXCEPT !.phase = p]]
    BY <1>2 DEF SendTransfer, BackoffOver
  <2>2. out[n] # NoCall /\ out[n] \in Calls /\ UNCHANGED inst
    BY <1>2, CallFacts DEF SendTransfer, BackoffOver
  <2> DEFINE next == [out[n] EXCEPT !.phase = p]
  <2>3. next \in Calls /\ next.retry = out[n].retry /\ next.hasAgent = out[n].hasAgent
    BY <2>2 DEF Calls
  <2> HIDE DEF next
  <2>4. out'[n] = next /\ out' = [out EXCEPT ![n] = out'[n]]
    BY <2>1 DEF CallInv, Types, next
  <2> QED
    BY <2>2, <2>3, <2>4, ResumeRetrying
<1>3. CASE BackoffCancelled(n)
  <2>1. RevertHandoff(inst[n]).state # "HANDOFF_INITIATED"
    BY <1>3, CallFacts, LeaseTypes DEF BackoffCancelled, Retrying
  <2> QED
    BY <1>3, <2>1, ReturnRetrying DEF BackoffCancelled
<1>4. CASE ConfirmFailure(n)
  <2>1. PICK s \in Awaited(n) : AfterFailure(n, s.phase = "retriable", streams \ {s})
    BY <1>4 DEF ConfirmFailure
  <2> QED
    BY <2>1, AfterFailureRetrying DEF Awaited
<1>5. CASE ConfirmSuccess(n)
  BY <1>5, ReturnRetrying DEF ConfirmSuccess, NoInst
<1>6. CASE ConfirmLost(n)
  <2>1. AmbiguousInst(n).state # "HANDOFF_INITIATED"
    BY <1>6, CallFacts, LeaseTypes DEF ConfirmLost, AmbiguousInst, Retrying
  <2> QED
    BY <1>6, <2>1, ReturnRetrying DEF ConfirmLost
<1> QED
  BY <1>1, <1>2, <1>3, <1>4, <1>5, <1>6 DEF Caller

LEMMA LoopRetrying ==
  ASSUME CallInv, Retrying, NEW n \in Nodes, Loop(n)
  PROVE  Retrying'
<1>1. CASE Tick(n)
  <2>1. inst[n] \in Instances /\ inst[n].state = "ACTIVE_OWNER"
    BY <1>1 DEF Tick, LoopRuns, Hosted, CanTick, CallInv, Types
  <2>2. inst' = [inst EXCEPT ![n] = inst'[n]] /\ inst'[n].state = "ACTIVE_OWNER" /\ UNCHANGED out
    BY <1>1, <2>1, TickType DEF CallInv, Types, Tick
  <2> QED
    BY <2>2 DEF CallInv, Types, Retrying
<1>2. CASE RecoverLease(n)
  <2>1. RecoverEpoch(inst[n]).state = "ACTIVE_OWNER"
    BY <1>2, LeaseTypes DEF RecoverLease, LoopRuns, Hosted, CallInv, Types
  <2> QED
    BY <1>2, <2>1 DEF RecoverLease, CallInv, Types, Retrying
<1>3. CASE Shutdown(n) \/ Crash(n)
  BY <1>3 DEF Shutdown, Crash, KillProcess, CallInv, Types, Retrying, NoInst
<1>4. CASE RunAgent(n)
  <2>1. WithTick(NewLease, ckpt[n].tick).state = "ACTIVE_OWNER"
    BY DEF WithTick, NewLease
  <2> QED
    BY <1>4, <2>1 DEF RunAgent, CallInv, Types, Retrying
<1>5. CASE SaveCheckpoint(n) \/ StopNode(n) \/ StartNode(n)
  BY <1>5 DEF SaveCheckpoint, StopNode, StartNode, Retrying
<1> QED
  BY <1>1, <1>2, <1>3, <1>4, <1>5 DEF Loop

LEMMA BeginRetrying ==
  ASSUME ~Simple, CallInv, Retrying, NEW n \in Nodes, Begin(n)
  PROVE  Retrying'
<1>1. PICK ts \in TargetLists(n) : BeginCall(n, TRUE, ts)
  BY DEF Begin, MigrateAgent, MigrateAgentWithRetry, MigrateFromStorage, MigrateWithoutCheckpoint
<1> DEFINE new == NewCall(n, TRUE, ts)
<1>2. new.retry = TRUE /\ new.hasAgent = TRUE /\ new.phase = "dial"
  BY <1>1 DEF NewCall, BeginCall, LoopRuns, Hosted
<1> HIDE DEF new
<1>3. new # NoCall
  BY <1>2 DEF NoCall
<1>4. /\ inst' = [inst EXCEPT ![n] = TransitionToHandoff(inst[n])]
      /\ out' = [out EXCEPT ![n] = new]
  BY <1>1 DEF BeginCall, new
<1> QED
  BY <1>2, <1>3, <1>4 DEF CallInv, Types, Retrying

LEMMA HandlerRetrying ==
  ASSUME CallInv, Retrying, NEW s \in streams, Handler(s)
  PROVE  Retrying'
<1>1. CASE StartMigrated(s)
  <2> DEFINE i == WithTick(NewLeaseFromMigration(s.pkg.major),
                           IF ckpt[s.dst] = NoCkpt THEN 0 ELSE ckpt[s.dst].tick)
  <2>1. i.state = "ACTIVE_OWNER"
    BY DEF WithTick, NewLeaseFromMigration
  <2>2. inst' = [inst EXCEPT ![s.dst] = i] /\ UNCHANGED out
    BY <1>1 DEF StartMigrated
  <2> HIDE DEF i
  <2> QED
    BY <2>1, <2>2 DEF CallInv, Types, Retrying
<1> QED
  BY <1>1 DEF Handler, RejectTransfer, AcceptTransfer, LoadFails, DropTransfer, Retrying

\* MigrateAgentWithRetry never returns with the lease still in handoff: the
\* loop that called it can go on, or has been told to recover.
THEOREM HandoffResolved == ASSUME ~Simple PROVE Spec => []HandoffIsResolved
<1>1. Init => CallInv /\ Retrying
  <2>1. Init => Retrying
    <3>1. WithTick(NewLease, 0).state = "ACTIVE_OWNER"
      BY DEF WithTick, NewLease
    <3> QED
      BY <3>1 DEF Init, Retrying, NoInst
  <2> QED
    BY <2>1, InitCallInv
<1>2. CallInv /\ Retrying /\ [Next]_vars => CallInv' /\ Retrying'
  <2>1. CASE UNCHANGED vars
    BY <2>1, NextCallInv DEF vars, Retrying
  <2> QED
    BY <2>1, NextCallInv, LoopRetrying, BeginRetrying, CallerRetrying, HandlerRetrying DEF Next
<1>3. Retrying => HandoffIsResolved
  BY DEF Retrying, HandoffIsResolved
<1> QED
  BY <1>1, <1>2, <1>3, PTL DEF Spec

-----------------------------------------------------------------------------
(* The holder, while only connections, checks and loads fail and no agent  *)
(* is sent to a node that is itself migrating it.                          *)

\* The failures of this part.
Calm == Faults \subseteq {"connect", "reject", "load"} /\ ~Overlap

\* Every checkpoint that is overwritten or deleted is on another node.
NothingLost == \A n \in Nodes : \E m \in Nodes : ckpt[n].tick <= ckpt'[m].tick

LEMMA CkptTick ==
  ASSUME NEW c \in Checkpoints \cup {NoCkpt}
  PROVE  c.tick \in Int /\ (c = NoCkpt <=> c.tick = -1) /\ (c # NoCkpt => c.tick \in Nat)
<1>1. CASE c \in Checkpoints
  BY <1>1, Distinct DEF Checkpoints
<1>2. CASE c = NoCkpt
  BY <1>2 DEF NoCkpt
<1> QED
  BY <1>1, <1>2

LEMMA InstTick ==
  ASSUME CallInv, NEW n \in Nodes, inst[n] # NoInst
  PROVE  inst[n] \in Instances /\ inst[n].tick \in Nat
  BY DEF CallInv, Types, Instances

\* A stream without an answer is the stream of a call that is not done.
LEMMA CallerNotDone ==
  ASSUME CallInv, Paired, NEW s \in streams, s.phase # "ok"
  PROVE  s.src \in Nodes /\ s.dst \in Nodes /\ s.src # s.dst /\ out[s.src] # NoCall /\ ~Done(s.src)
  BY DEF CallInv, Types, Streams, Numbered, OneStream, Paired, Done

\* A target of a call that is not done is not migrating.
LEMMA TargetIdle ==
  ASSUME HolderInv, NEW s \in streams, s.phase # "ok"
  PROVE  out[s.dst] = NoCall
<1>1. out[s.src] # NoCall /\ ~Done(s.src) /\ s.src \in Nodes
  BY CallerNotDone DEF HolderInv
<1>2. out[s.src].targets # << >> /\ out[s.src].targets \in Seq(Nodes)
  BY <1>1 DEF HolderInv, CallInv, Types, Calls, Numbered
<1>3. s.dst = out[s.src].targets[1] /\ 1 \in 1..Len(out[s.src].targets)
  BY <1>2 DEF HolderInv, Paired
<1> QED
  BY <1>1, <1>3 DEF HolderInv, Waiting

\* Whoever migrates the agent has it, until the migration is done.
LEMMA CallerHolds ==
  ASSUME HolderInv, NEW n \in Nodes, out[n] # NoCall, ~Done(n)
  PROVE  Holds(n)
<1>1. ckpt[n] # NoCkpt
  BY DEF HolderInv, Waiting
<1>2. ~Fetching(n)
  BY TargetIdle DEF Fetching
<1> QED
  BY <1>1, <1>2 DEF Holds

\* A stream that is being served leads from the holder to a node that has
\* nothing, and is the only one.
LEMMA Served ==
  ASSUME HolderInv, NEW s \in streams, ~Answered(s)
  PROVE  /\ s.phase # "ok" /\ s.src \in Nodes /\ s.dst \in Nodes /\ s.src # s.dst
         /\ out[s.src] # NoCall /\ ~Done(s.src) /\ Holds(s.src)
         /\ out[s.dst] = NoCall /\ ~Holds(s.dst) /\ inst[s.dst] = NoInst
         /\ \A t \in streams : ~Answered(t) => t = s
         /\ s \in Awaited(s.src)
<1>1. s.phase # "ok"
  BY DEF Answered
<1>2. /\ s.src \in Nodes /\ s.dst \in Nodes /\ s.src # s.dst
      /\ out[s.src] # NoCall /\ ~Done(s.src)
  BY <1>1, CallerNotDone DEF HolderInv
<1>3. Holds(s.src)
  BY <1>2, CallerHolds
<1>4. out[s.dst] = NoCall /\ ~Done(s.dst)
  BY <1>1, TargetIdle DEF Done
<1>5. ~Holds(s.dst)
  BY <1>2, <1>3 DEF HolderInv, OneHolder
<1>6. inst[s.dst] = NoInst
  BY <1>4, <1>5 DEF Holds
<1>7. ASSUME NEW t \in streams, ~Answered(t) PROVE t = s
  <2>1. t.phase # "ok"
    BY <1>7 DEF Answered
  <2>2. t.src \in Nodes /\ out[t.src] # NoCall /\ ~Done(t.src)
    BY <2>1, CallerNotDone DEF HolderInv
  <2>3. Holds(t.src)
    BY <2>2, CallerHolds
  <2>4. t.src = s.src
    BY <1>2, <1>3, <2>2, <2>3 DEF HolderInv, OneHolder
  <2> QED
    BY <2>4 DEF HolderInv, Paired, CallInv, OneStream
<1>8. s \in Awaited(s.src)
  BY DEF HolderInv, Paired, Awaited
<1> QED
  BY <1>1, <1>2, <1>3, <1>4, <1>5, <1>6, <1>7, <1>8

\* Nobody sends the agent to its holder or to a node that is migrating it.
LEMMA HolderIsNoTarget ==
  ASSUME HolderInv, NEW n \in Nodes, Holds(n) \/ out[n] # NoCall
  PROVE  (\A s \in streams : s.dst = n => Answered(s)) /\ ~Fetching(n)
<1>1. \A s \in streams : s.dst = n => Answered(s)
  BY Served
<1> QED
  BY <1>1 DEF Fetching, Answered

LEMMA InitHolder == Init => HolderInv
<1> SUFFICES ASSUME Init PROVE HolderInv
  OBVIOUS
<1>1. Paired /\ Waiting
  BY DEF Init, Paired, Waiting
<1>2. \A n \in Nodes : n # First => inst[n] = NoInst /\ ckpt[n] = NoCkpt
  BY DEF Init
<1>3. OneHolder
  BY <1>2 DEF OneHolder, Holds
<1>4. \A n \in Nodes : ~Done(n)
  BY DEF Init, Done
<1> DEFINE i == WithTick(NewLease, 0)
<1>5. i \in Instances /\ i.tick = 0 /\ Snapshot(i).tick = 0 /\ NoCkpt.tick = -1
  BY StartTypes, SnapshotType DEF NoCkpt
<1>6. inst = [n \in Nodes |-> IF n = First THEN i ELSE NoInst]
      /\ \E c \in {NoCkpt, Snapshot(i)} : ckpt = [n \in Nodes |-> IF n = First THEN c ELSE NoCkpt]
  BY DEF Init
<1> HIDE DEF i
<1>7. Kept
  BY <1>4, <1>5, <1>6, ConstantsAssumption DEF Kept, Init
<1> QED
  BY <1>1, <1>3, <1>7, InitCallInv DEF HolderInv

\* The holder changes what it has, calls and streams stay as they are.
LEMMA LocalHolder ==
  ASSUME HolderInv, CallInv', NEW n \in Nodes, Holds(n), out[n] = NoCall,
         inst' = [inst EXCEPT ![n] = inst'[n]], ckpt' = [ckpt EXCEPT ![n] = ckpt'[n]],
         inst'[n] # NoInst \/ ckpt'[n] # NoCkpt,
         inst'[n] # NoInst => ckpt'[n].tick <= inst'[n].tick /\ inst'[n].tick <= MaxTick,
         ckpt'[n].tick <= MaxTick, ckpt[n].tick <= ckpt'[n].tick,
         UNCHANGED <<out, streams>>
  PROVE  HolderInv' /\ NothingLost
<1>1. \A m \in Nodes : (Done(m)' <=> Done(m)) /\ (Fetching(m)' <=> Fetching(m)) 
  BY DEF Done, Fetching
<1>2. /\ inst \in [Nodes -> Instances \cup {NoInst}]
      /\ ckpt \in [Nodes -> Checkpoints \cup {NoCkpt}]
      /\ \A m \in Nodes \ {n} : inst'[m] = inst[m] /\ ckpt'[m] = ckpt[m]
  BY DEF HolderInv, CallInv, Types
<1>3. ~Fetching(n) /\ ~Done(n) /\ \A m \in Nodes : Holds(m) => m = n
  BY HolderIsNoTarget DEF HolderInv, OneHolder, Holds
<1>4. \A m \in Nodes : Holds(m)' <=> Holds(m)
  BY <1>1, <1>2, <1>3 DEF Holds
<1>5. Paired'
  BY DEF HolderInv, Paired
<1>6. Waiting'
  BY <1>1, <1>2 DEF HolderInv, Waiting
<1>7. OneHolder'
  BY <1>4 DEF HolderInv, OneHolder
<1>8. Kept'
  <2>1. \A s \in streams : s.phase = "saved" => s.dst # n
    BY <1>3 DEF Fetching
  <2>2. \A m \in Nodes : Done(m) => ckpt[m].tick <= ckpt[n].tick /\ m # n
    BY <1>3 DEF HolderInv, Kept
  <2>3. \A m \in Nodes : Done(m)' => Holds(n)' /\ ckpt'[n].tick >= ckpt'[m].tick
    <3>1. ASSUME NEW m \in Nodes, Done(m)' PROVE Holds(n)' /\ ckpt'[n].tick >= ckpt'[m].tick
      <4>1. ckpt'[m].tick = ckpt[m].tick /\ ckpt[m].tick <= ckpt[n].tick
        BY <1>1, <1>2, <2>2, <3>1
      <4>2. ckpt[m].tick \in Int /\ ckpt[n].tick \in Int /\ ckpt'[n].tick \in Int
        BY CkptTick DEF HolderInv, CallInv, Types
      <4> QED
        BY <1>4, <4>1, <4>2
    <3> QED
      BY <3>1
  <2>4. \A s \in streams : s.phase = "saved" => ckpt'[s.dst] = s.pkg
    BY <1>2, <2>1 DEF HolderInv, Kept, CallInv, Types, Streams
  <2>5. \A m \in Nodes :
          /\ inst'[m] # NoInst => ckpt'[m].tick <= inst'[m].tick /\ inst'[m].tick <= MaxTick
          /\ ckpt'[m].tick <= MaxTick
    BY <1>2 DEF HolderInv, Kept
  <2> QED
    BY <2>3, <2>4, <2>5 DEF Kept
<1>9. NothingLost
  <2>1. \A m \in Nodes : ckpt[m].tick <= ckpt[m].tick
    BY CkptTick DEF HolderInv, CallInv, Types
  <2> QED
    BY <1>2, <2>1 DEF NothingLost
<1> QED
  BY <1>5, <1>6, <1>7, <1>8, <1>9 DEF HolderInv

LEMMA LoopHolder ==
  ASSUME Calm, HolderInv, CallInv', NEW n \in Nodes, Loop(n)
  PROVE  HolderInv' /\ NothingLost
<1>0. /\ inst \in [Nodes -> Instances \cup {NoInst}]
      /\ ckpt \in [Nodes -> Checkpoints \cup {NoCkpt}]
      /\ ckpt[n].tick \in Int /\ ckpt[n].tick <= MaxTick
      /\ inst[n] # NoInst => ckpt[n].tick <= inst[n].tick /\ inst[n].tick <= MaxTick
      /\ inst[n] # NoInst => inst[n] \in Instances /\ inst[n].tick \in Nat
  BY CkptTick, InstTick DEF HolderInv, CallInv, Types, Kept
<1>1. LoopRuns(n) => Holds(n) /\ out[n] = NoCall /\ inst[n] # NoInst
  BY DEF LoopRuns, Hosted, Holds, Done
<1>2. CASE Tick(n)
  <2>1. LoopRuns(n) /\ inst[n] \in Instances
    BY <1>0, <1>1, <1>2 DEF Tick
  <2>2. /\ inst' = [inst EXCEPT ![n] = inst'[n]] /\ inst'[n] \in Instances
        /\ inst'[n].tick = inst[n].tick + 1 /\ inst[n].tick < MaxTick
        /\ UNCHANGED <<ckpt, out, streams>>
    BY <1>0, <1>2, <2>1, TickType DEF Tick
  <2>3. inst'[n] # NoInst /\ ckpt' = [ckpt EXCEPT ![n] = ckpt'[n]] /\ ckpt'[n] = ckpt[n]
    BY <1>0, <2>2, Distinct
  <2>4. /\ ckpt'[n].tick <= inst'[n].tick /\ inst'[n].tick <= MaxTick
        /\ ckpt'[n].tick <= MaxTick /\ ckpt[n].tick <= ckpt'[n].tick
    BY <1>0, <1>1, <2>1, <2>2, <2>3, ConstantsAssumption
  <2> QED
    BY <1>1, <2>1, <2>2, <2>3, <2>4, LocalHolder
<1>3. CASE RecoverLease(n)
  <2>1. LoopRuns(n) /\ inst[n] \in Instances
    BY <1>0, <1>1, <1>3 DEF RecoverLease
  <2> DEFINE i == RecoverEpoch(inst[n])
  <2>2. /\ i \in Instances /\ i.tick = inst[n].tick
        /\ Snapshot(i) \in Checkpoints /\ Snapshot(i).tick = i.tick
    BY <2>1, LeaseTypes, SnapshotType
  <2>3. /\ inst' = [inst EXCEPT ![n] = i] /\ ckpt' = [ckpt EXCEPT ![n] = Snapshot(i)]
        /\ UNCHANGED <<out, streams>>
    BY <1>3 DEF RecoverLease
  <2> HIDE DEF i
  <2>4. /\ inst'[n] = i /\ i # NoInst /\ inst' = [inst EXCEPT ![n] = inst'[n]]
        /\ ckpt'[n] = Snapshot(i) /\ ckpt' = [ckpt EXCEPT ![n] = ckpt'[n]]
    BY <1>0, <2>2, <2>3, Distinct
  <2>5. /\ ckpt'[n].tick <= inst'[n].tick /\ inst'[n].tick <= MaxTick
        /\ ckpt'[n].tick <= MaxTick /\ ckpt[n].tick <= ckpt'[n].tick
    BY <1>0, <1>1, <2>1, <2>2, <2>4
  <2> QED
    BY <1>1, <2>1, <2>3, <2>4, <2>5, LocalHolder
<1>4. CASE SaveCheckpoint(n)
  <2>1. LoopRuns(n) /\ inst[n] \in Instances
    BY <1>0, <1>1, <1>4 DEF SaveCheckpoint
  <2>2. Snapshot(inst[n]) \in Checkpoints /\ Snapshot(inst[n]).tick = inst[n].tick
    BY <2>1, SnapshotType
  <2>3. /\ inst' = [inst EXCEPT ![n] = inst'[n]] /\ inst'[n] = inst[n]
        /\ ckpt'[n] = Snapshot(inst[n]) /\ ckpt' = [ckpt EXCEPT ![n] = ckpt'[n]]
        /\ UNCHANGED <<out, streams>>
    BY <1>0, <1>4 DEF SaveCheckpoint
  <2> QED
    BY <1>0, <1>1, <2>1, <2>2, <2>3, LocalHolder
<1>5. CASE Shutdown(n)
  <2>1. LoopRuns(n) /\ inst[n] \in Instances
    BY <1>0, <1>1, <1>5 DEF Shutdown
  <2>2. Snapshot(inst[n]) \in Checkpoints /\ Snapshot(inst[n]).tick = inst[n].tick
    BY <2>1, SnapshotType
  <2>3. \A s \in streams : s.src # n /\ (s.dst = n => Answered(s))
    BY <1>1, <2>1, HolderIsNoTarget DEF HolderInv, Paired
  <2>4. UNCHANGED <<out, streams>>
    BY <1>1, <1>5, <2>1, <2>3 DEF Shutdown, KillProcess, HolderInv, CallInv, Types
  <2>5. /\ inst' = [inst EXCEPT ![n] = inst'[n]] /\ inst'[n] = NoInst
        /\ ckpt'[n] = Snapshot(inst[n]) /\ ckpt' = [ckpt EXCEPT ![n] = ckpt'[n]]
    BY <1>0, <1>5 DEF Shutdown, KillProcess
  <2>6. ckpt'[n] # NoCkpt
    BY <2>2, <2>5, Distinct
  <2> QED
    BY <1>0, <1>1, <2>1, <2>2, <2>4, <2>5, <2>6, LocalHolder
<1>6. CASE Crash(n)
  BY <1>6 DEF Crash, Calm
<1>7. CASE RunAgent(n)
  <2>1. ~up[n] /\ ckpt[n] # NoCkpt /\ out[n] = NoCall /\ ~Fetching(n) /\ ckpt[n].tick \in Nat
    BY <1>0, <1>7, CkptTick DEF RunAgent, HolderInv, CallInv, Alive, Fetching, Answered
  <2>2. Holds(n)
    BY <2>1 DEF Holds, Done
  <2> DEFINE i == WithTick(NewLease, ckpt[n].tick)
  <2>3. i \in Instances /\ i.tick = ckpt[n].tick
    BY <2>1, StartTypes
  <2>4. inst' = [inst EXCEPT ![n] = i] /\ UNCHANGED <<ckpt, out, streams>>
    BY <1>7 DEF RunAgent
  <2> HIDE DEF i
  <2>5. /\ inst'[n] = i /\ i # NoInst /\ inst' = [inst EXCEPT ![n] = inst'[n]]
        /\ ckpt'[n] = ckpt[n] /\ ckpt' = [ckpt EXCEPT ![n] = ckpt'[n]]
    BY <1>0, <2>3, <2>4, Distinct
  <2>6. /\ ckpt'[n].tick <= inst'[n].tick /\ inst'[n].tick <= MaxTick
        /\ ckpt'[n].tick <= MaxTick /\ ckpt[n].tick <= ckpt'[n].tick
    BY <1>0, <2>1, <2>3, <2>5
  <2> QED
    BY <2>1, <2>2, <2>4, <2>5, <2>6, LocalHolder
<1>8. CASE StopNode(n) \/ StartNode(n)
  <2>1. UNCHANGED <<inst, ckpt, out, streams>>
    BY <1>8 DEF StopNode, StartNode
  <2>2. NothingLost
    <3>1. \A m \in Nodes : ckpt[m].tick <= ckpt[m].tick
      BY CkptTick DEF HolderInv, CallInv, Types
    <3> QED
      BY <2>1, <3>1 DEF NothingLost
  <2>3. Paired' /\ Waiting' /\ OneHolder' /\ Kept'
    BY <2>1 DEF HolderInv, Paired, Waiting, OneHolder, Kept, Holds, Done, Fetching
  <2> QED
    BY <2>2, <2>3 DEF HolderInv
<1> QED
  BY <1>2, <1>3, <1>4, <1>5, <1>6, <1>7, <1>8 DEF Loop

\* The holder begins a call.
LEMMA NewCallHolder ==
  ASSUME HolderInv, CallInv', NEW n \in Nodes, Holds(n), out[n] = NoCall, ckpt[n] # NoCkpt,
         out' = [out EXCEPT ![n] = out'[n]], out'[n] # NoCall, out'[n].call = calls + 1,
         out'[n].phase = "dial", out'[n].pkg = ckpt[n],
         \A i \in 1..Len(out'[n].targets) : out'[n].targets[i] \in Nodes \ {n}
                                            /\ out[out'[n].targets[i]] = NoCall,
         ~out'[n].hasAgent => inst'[n] = NoInst,
         inst' = [inst EXCEPT ![n] = inst'[n]], inst'[n] # NoInst <=> inst[n] # NoInst,
         inst[n] # NoInst => inst'[n].tick = inst[n].tick, UNCHANGED <<ckpt, streams>>
  PROVE  HolderInv' /\ NothingLost
<1>1. /\ inst \in [Nodes -> Instances \cup {NoInst}] /\ out \in [Nodes -> Calls \cup {NoCall}]
      /\ \A m \in Nodes \ {n} : inst'[m] = inst[m] /\ out'[m] = out[m]
  BY DEF HolderInv, CallInv, Types
<1>2. \A s \in streams : s.src # n /\ s.call # calls + 1 /\ s.src \in Nodes
  BY DEF HolderInv, Paired, CallInv, Types, Numbered, Streams
<1>3. \A m \in Nodes : (Done(m)' <=> Done(m)) /\ (Fetching(m)' <=> Fetching(m))
  <2>1. ~Done(n) /\ ~Done(n)'
    BY <1>2 DEF Done
  <2>2. \A m \in Nodes \ {n} : Done(m)' <=> Done(m)
    BY <1>1 DEF Done
  <2> QED
    BY <2>1, <2>2 DEF Fetching
<1>4. \A m \in Nodes : Holds(m)' <=> Holds(m)
  BY <1>1, <1>3 DEF Holds
<1>5. Paired'
  BY <1>1, <1>2 DEF HolderInv, Paired
<1>6. Waiting'
  <2>1. ASSUME NEW m \in Nodes \ {n}, out[m] # NoCall
        PROVE  Done(m)'
    BY <1>3, <2>1, CallerHolds DEF HolderInv, OneHolder
  <2> QED
    BY <1>1, <2>1 DEF HolderInv, Waiting
<1>7. OneHolder'
  BY <1>4 DEF HolderInv, OneHolder
<1>8. Kept'
  BY <1>1, <1>3, <1>4 DEF HolderInv, Kept
<1>9. NothingLost
  <2>1. \A m \in Nodes : ckpt[m].tick <= ckpt[m].tick
    BY CkptTick DEF HolderInv, CallInv, Types
  <2> QED
    BY <2>1 DEF NothingLost
<1> QED
  BY <1>5, <1>6, <1>7, <1>8, <1>9 DEF HolderInv

LEMMA NewCallFields ==
  ASSUME CallInv, NEW n \in Nodes, NEW retry \in BOOLEAN, NEW ts \in Seq(Nodes),
         out' = [out EXCEPT ![n] = NewCall(n, retry, ts)]
  PROVE  /\ out' = [out EXCEPT ![n] = out'[n]] /\ out'[n] # NoCall /\ out'[n].call = calls + 1
         /\ out'[n].phase = "dial" /\ out'[n].pkg = ckpt[n] /\ out'[n].targets = ts
         /\ out'[n].hasAgent = (inst[n] # NoInst)
<1>1. out'[n] = NewCall(n, retry, ts) /\ out' = [out EXCEPT ![n] = out'[n]]
  BY DEF CallInv, Types
<1>2. /\ out'[n].call = calls + 1 /\ out'[n].phase = "dial" /\ out'[n].pkg = ckpt[n]
      /\ out'[n].targets = ts /\ out'[n].hasAgent = (inst[n] # NoInst)
  BY <1>1 DEF NewCall, Hosted
<1> QED
  BY <1>1, <1>2 DEF NoCall

LEMMA BeginHolder ==
  ASSUME Calm, HolderInv, CallInv', NEW n \in Nodes, Begin(n)
  PROVE  HolderInv' /\ NothingLost
<1>0. /\ inst \in [Nodes -> Instances \cup {NoInst}]
      /\ ckpt \in [Nodes -> Checkpoints \cup {NoCkpt}]
      /\ CallInv
  BY DEF HolderInv, CallInv, Types
<1>1. LoopRuns(n) => Holds(n) /\ out[n] = NoCall /\ inst[n] # NoInst /\ inst[n] \in Instances
  BY <1>0 DEF LoopRuns, Hosted, Holds, Done
<1>2. ASSUME NEW ts \in Seq(Nodes), \A i \in 1..Len(ts) : ts[i] # n, TargetsFree(ts)
      PROVE  \A i \in 1..Len(ts) : ts[i] \in Nodes \ {n} /\ out[ts[i]] = NoCall
  BY <1>2 DEF TargetsFree, Calm
<1>3. ASSUME NEW retry \in BOOLEAN, NEW ts \in Seq(Nodes), \A i \in 1..Len(ts) : ts[i] # n,
             BeginCall(n, retry, ts)
      PROVE  HolderInv' /\ NothingLost
  <2>1. LoopRuns(n) /\ ckpt[n] # NoCkpt /\ UNCHANGED <<ckpt, streams>>
    BY <1>3 DEF BeginCall
  <2> DEFINE i == TransitionToHandoff(inst[n])
  <2>2. i \in Instances /\ i.tick = inst[n].tick /\ i # NoInst
    BY <1>1, <2>1, LeaseTypes, Distinct
  <2>3. inst' = [inst EXCEPT ![n] = i]
    BY <1>3 DEF BeginCall
  <2> HIDE DEF i
  <2>4. inst' = [inst EXCEPT ![n] = inst'[n]] /\ inst'[n] = i
    BY <1>0, <2>3
  <2>5. /\ out' = [out EXCEPT ![n] = out'[n]] /\ out'[n] # NoCall /\ out'[n].call = calls + 1
        /\ out'[n].phase = "dial" /\ out'[n].pkg = ckpt[n] /\ out'[n].targets = ts
        /\ out'[n].hasAgent = (inst[n] # NoInst)
    BY <1>0, <1>3, NewCallFields DEF BeginCall
  <2>6. \A j \in 1..Len(out'[n].targets) : out'[n].targets[j] \in Nodes \ {n}
                                            /\ out[out'[n].targets[j]] = NoCall
    BY <1>2, <1>3, <2>5 DEF BeginCall
  <2> QED
    BY <1>1, <2>1, <2>2, <2>4, <2>5, <2>6, NewCallHolder
<1>4. ASSUME NEW t \in Nodes \ {n}
      PROVE  <<t>> \in Seq(Nodes) /\ \A i \in 1..Len(<<t>>) : <<t>>[i] # n
  OBVIOUS
<1>5. ASSUME NEW t \in Nodes \ {n}, MigrateAgent(n, t)
      PROVE  HolderInv' /\ NothingLost
  BY <1>3, <1>4, <1>5 DEF MigrateAgent
<1>6. ASSUME NEW ts \in TargetLists(n), MigrateAgentWithRetry(n, ts)
      PROVE  HolderInv' /\ NothingLost
  BY <1>3, <1>6, TargetListType DEF MigrateAgentWithRetry
<1>7. ASSUME NEW t \in Nodes \ {n}, MigrateFromStorage(n, t)
      PROVE  HolderInv' /\ NothingLost
  <2> DEFINE ts == <<t>>
  <2>0. /\ ts \in Seq(Nodes) /\ (\A i \in 1..Len(ts) : ts[i] # n) /\ TargetsFree(ts)
        /\ out' = [out EXCEPT ![n] = NewCall(n, FALSE, ts)]
    BY <1>4, <1>7 DEF MigrateFromStorage
  <2> HIDE DEF ts
  <2>1. /\ ckpt[n] # NoCkpt /\ out[n] = NoCall /\ ~Fetching(n) /\ inst[n] = NoInst
        /\ UNCHANGED <<inst, ckpt, streams>>
    BY <1>7 DEF MigrateFromStorage, HolderInv, CallInv, Alive, Fetching, Answered
  <2>2. Holds(n)
    BY <2>1 DEF Holds, Done
  <2>3. /\ out' = [out EXCEPT ![n] = out'[n]] /\ out'[n] # NoCall /\ out'[n].call = calls + 1
        /\ out'[n].phase = "dial" /\ out'[n].pkg = ckpt[n] /\ out'[n].targets = ts
    BY <1>0, <1>7, <2>0, NewCallFields DEF MigrateFromStorage
  <2>4. \A j \in 1..Len(out'[n].targets) : out'[n].targets[j] \in Nodes \ {n}
                                            /\ out[out'[n].targets[j]] = NoCall
    <3>1. \A i \in 1..Len(ts) : ts[i] \in Nodes \ {n} /\ out[ts[i]] = NoCall
      BY <1>2, <2>0
    <3> QED
      BY <2>3, <3>1
  <2>5. inst' = [inst EXCEPT ![n] = inst'[n]] /\ inst'[n] = NoInst
    BY <1>0, <2>1
  <2> QED
    BY <2>1, <2>2, <2>3, <2>4, <2>5, NewCallHolder
<1>8. CASE MigrateWithoutCheckpoint(n)
  <2>1. LoopRuns(n) /\ UNCHANGED <<ckpt, out, streams>>
    BY <1>8 DEF MigrateWithoutCheckpoint
  <2> DEFINE i == TransitionToHandoff(inst[n])
  <2>2. i \in Instances /\ i.tick = inst[n].tick /\ i # NoInst
    BY <1>1, <2>1, LeaseTypes, Distinct
  <2>3. inst' = [inst EXCEPT ![n] = i]
    BY <1>8 DEF MigrateWithoutCheckpoint
  <2> HIDE DEF i
  <2>4. /\ inst' = [inst EXCEPT ![n] = inst'[n]] /\ inst'[n] = i
        /\ ckpt' = [ckpt EXCEPT ![n] = ckpt'[n]] /\ ckpt'[n] = ckpt[n]
    BY <1>0, <2>1, <2>3
  <2>5. /\ ckpt'[n].tick <= inst'[n].tick /\ inst'[n].tick <= MaxTick
        /\ ckpt'[n].tick <= MaxTick /\ ckpt[n].tick <= ckpt'[n].tick
    BY <1>0, <1>1, <2>1, <2>2, <2>4, CkptTick DEF HolderInv, Kept
  <2> QED
    BY <1>1, <2>1, <2>2, <2>4, <2>5, LocalHolder
<1> QED
  BY <1>5, <1>6, <1>7, <1>8 DEF Begin

\* The failure of a call that is not done takes its stream away and leaves the
\* agent with the caller, which goes on or returns.
LEMMA FailureHolder ==
  ASSUME HolderInv, CallInv', NEW n \in Nodes, out[n] # NoCall, ~Done(n),
         \A s \in streams : s.src = n => Answered(s), streams' = {s \in streams : s.src # n},
         out' = [out EXCEPT ![n] = out'[n]],
         out'[n] # NoCall =>
           /\ out'[n].phase # "sent" /\ out'[n].pkg = out[n].pkg
           /\ out'[n].hasAgent = out[n].hasAgent
           /\ \A i \in 1..Len(out'[n].targets) :
                \E j \in 1..Len(out[n].targets) : out'[n].targets[i] = out[n].targets[j],
         inst' = [inst EXCEPT ![n] = inst'[n]], inst'[n] # NoInst <=> inst[n] # NoInst,
         inst[n] # NoInst => inst'[n].tick = inst[n].tick, UNCHANGED ckpt
  PROVE  HolderInv' /\ NothingLost
<1>1. /\ inst \in [Nodes -> Instances \cup {NoInst}] /\ out \in [Nodes -> Calls \cup {NoCall}]
      /\ \A m \in Nodes \ {n} : inst'[m] = inst[m] /\ out'[m] = out[m]
  BY DEF HolderInv, CallInv, Types
<1>2. Holds(n) /\ \A m \in Nodes : Holds(m) => m = n
  BY CallerHolds DEF HolderInv, OneHolder
<1>3. ASSUME NEW m \in Nodes PROVE Done(m)' <=> Done(m)
  <2>1. CASE m = n
    BY <2>1 DEF Done
  <2>2. CASE m # n
    BY <1>1, <2>2 DEF Done
  <2> QED
    BY <2>1, <2>2
<1>4. ASSUME NEW m \in Nodes PROVE Fetching(m)' <=> Fetching(m)
  BY DEF Fetching, Answered
<1>5. \A m \in Nodes : Holds(m)' <=> Holds(m)
  BY <1>1, <1>3, <1>4 DEF Holds
<1>6. Paired'
  <2>1. \A s \in streams' : s \in streams /\ s.src # n /\ s.src \in Nodes
    BY DEF HolderInv, CallInv, Types, Streams
  <2>2. \A m \in Nodes \ {n}, s \in streams : s.src = m => s \in streams'
    OBVIOUS
  <2> QED
    BY <1>1, <2>1, <2>2 DEF HolderInv, Paired
<1>7. Waiting'
  <2>1. ASSUME NEW m \in Nodes \ {n}, out[m] # NoCall
        PROVE  Done(m)'
    BY <1>2, <1>3, <2>1, CallerHolds
  <2>2. \A j \in 1..Len(out[n].targets) :
          out[n].targets[j] \in Nodes \ {n} /\ out[out[n].targets[j]] = NoCall
    <3>1. out[n] \in Calls
      BY <1>1
    <3>2. out[n].targets \in Seq(Nodes)
      BY <3>1 DEF Calls
    <3> QED
      BY <3>2 DEF HolderInv, Waiting, CallInv, Numbered
  <2>3. out'[n] # NoCall => \A i \in 1..Len(out'[n].targets) : out'[out'[n].targets[i]] = NoCall
    BY <1>1, <2>2
  <2> QED
    BY <1>1, <2>1, <2>3 DEF HolderInv, Waiting
<1>8. OneHolder'
  BY <1>5 DEF HolderInv, OneHolder
<1>9. Kept'
  BY <1>1, <1>3, <1>5 DEF HolderInv, Kept
<1>10. NothingLost
  <2>1. \A m \in Nodes : ckpt[m].tick <= ckpt[m].tick
    BY CkptTick DEF HolderInv, CallInv, Types
  <2> QED
    BY <2>1 DEF NothingLost
<1> QED
  BY <1>6, <1>7, <1>8, <1>9, <1>10 DEF HolderInv

\* Returning drops no stream but those the call waited on.
LEMMA ReturnHolder ==
  ASSUME HolderInv, CallInv', NEW n \in Nodes, out[n] # NoCall, ~Done(n),
         \A s \in streams : s.src = n => Answered(s),
         NEW i, out[n].hasAgent => i # NoInst /\ i.tick = inst[n].tick,
         Return(n, i, {s \in streams : s.src # n}), UNCHANGED ckpt
  PROVE  HolderInv' /\ NothingLost
<1>1. /\ inst \in [Nodes -> Instances \cup {NoInst}] /\ out \in [Nodes -> Calls \cup {NoCall}]
      /\ out[n] \in Calls
  BY DEF HolderInv, CallInv, Types
<1>2. out[n].hasAgent \in BOOLEAN /\ (out[n].hasAgent <=> inst[n] # NoInst)
  BY <1>1 DEF Calls, HolderInv, Waiting, CallInv, Alive, NoInst
<1>3. streams' = {s \in streams : s.src # n}
  BY HolderIsNoTarget DEF Return
<1>4. /\ inst' = [inst EXCEPT ![n] = inst'[n]] /\ out' = [out EXCEPT ![n] = out'[n]]
      /\ out'[n] = NoCall /\ inst'[n] = IF out[n].hasAgent THEN i ELSE NoInst
  BY <1>1 DEF Return
<1>5. /\ inst'[n] # NoInst <=> inst[n] # NoInst
      /\ inst[n] # NoInst => inst'[n].tick = inst[n].tick
  BY <1>2, <1>4
<1> QED
  BY <1>3, <1>4, <1>5, FailureHolder

LEMMA AfterFailureHolder ==
  ASSUME HolderInv, CallInv', NEW n \in Nodes, NEW retriable \in BOOLEAN,
         out[n].phase \in {"dial", "sent", "backoff"}, ~Done(n),
         \A s \in streams : s.src = n => Answered(s),
         AfterFailure(n, retriable, {s \in streams : s.src # n}), UNCHANGED ckpt
  PROVE  HolderInv' /\ NothingLost
<1> DEFINE o == out[n]
           rest == {s \in streams : s.src # n}
<1>1. /\ o # NoCall /\ o \in Calls /\ o.targets # << >> /\ o.targets \in Seq(Nodes)
      /\ o.hasAgent => inst[n] \in Instances
  BY CallFacts DEF HolderInv
<1>2. o.hasAgent => /\ inst[n] # NoInst /\ RevertHandoff(inst[n]) # NoInst
                    /\ RevertHandoff(inst[n]).tick = inst[n].tick
  BY <1>1, LeaseTypes, Distinct
<1>3. CASE Return(n, inst[n], rest)
  BY <1>1, <1>2, <1>3, ReturnHolder
<1>4. CASE Return(n, RevertHandoff(inst[n]), rest)
  BY <1>1, <1>2, <1>4, ReturnHolder
<1>5. ASSUME UNCHANGED inst, streams' = rest, out' = [out EXCEPT ![n] = out'[n]],
             out'[n].phase # "sent", out'[n].pkg = o.pkg, out'[n].hasAgent = o.hasAgent,
             \A i \in 1..Len(out'[n].targets) :
                \E j \in 1..Len(o.targets) : out'[n].targets[i] = o.targets[j]
      PROVE  HolderInv' /\ NothingLost
  <2>1. inst' = [inst EXCEPT ![n] = inst'[n]] /\ inst'[n] = inst[n]
    BY <1>5 DEF HolderInv, CallInv, Types
  <2> QED
    BY <1>1, <1>5, <2>1, FailureHolder
<1>6. ASSUME o.attempt < MaxAttempts - 1, UNCHANGED inst, streams' = rest,
             out' = [out EXCEPT ![n] = [o EXCEPT !.attempt = o.attempt + 1, !.phase = "backoff"]]
      PROVE  HolderInv' /\ NothingLost
  <2> DEFINE next == [o EXCEPT !.attempt = o.attempt + 1, !.phase = "backoff"]
  <2>1. /\ next.phase = "backoff" /\ next.pkg = o.pkg /\ next.hasAgent = o.hasAgent
        /\ next.targets = o.targets
    BY <1>1, <1>6, NextAttempt
  <2> HIDE DEF next
  <2>2. out'[n] = next /\ out' = [out EXCEPT ![n] = out'[n]]
    BY <1>6 DEF next, HolderInv, CallInv, Types
  <2>3. /\ out'[n].phase # "sent" /\ out'[n].pkg = o.pkg /\ out'[n].hasAgent = o.hasAgent
        /\ out'[n].targets = o.targets
    BY <2>1, <2>2
  <2> QED
    BY <1>5, <1>6, <2>2, <2>3
<1>7. ASSUME Len(o.targets) > 1, UNCHANGED inst, streams' = rest,
             out' = [out EXCEPT ![n] = [o EXCEPT !.targets = Tail(o.targets), !.attempt = 0,
                                                 !.phase = "dial"]]
      PROVE  HolderInv' /\ NothingLost
  <2> DEFINE next == [o EXCEPT !.targets = Tail(o.targets), !.attempt = 0, !.phase = "dial"]
  <2>1. /\ next.phase = "dial" /\ next.pkg = o.pkg /\ next.hasAgent = o.hasAgent
        /\ next.targets = Tail(o.targets)
    BY <1>1, <1>7, NextTarget
  <2> HIDE DEF next
  <2>2. out'[n] = next /\ out' = [out EXCEPT ![n] = out'[n]]
    BY <1>7 DEF next, HolderInv, CallInv, Types
  <2>3. /\ out'[n].phase # "sent" /\ out'[n].pkg = o.pkg /\ out'[n].hasAgent = o.hasAgent
        /\ out'[n].targets = Tail(o.targets)
    BY <2>1, <2>2
  <2>4. \A i \in 1..Len(Tail(o.targets)) :
           i + 1 \in 1..Len(o.targets) /\ Tail(o.targets)[i] = o.targets[i + 1]
    BY <1>1, <1>7
  <2> QED
    BY <1>5, <1>7, <2>2, <2>3, <2>4
<1> QED
  BY <1>3, <1>4, <1>6, <1>7 DEF AfterFailure

LEMMA SendHolder ==
  ASSUME HolderInv, CallInv', NEW n \in Nodes, SendTransfer(n)
  PROVE  HolderInv' /\ NothingLost
<1> DEFINE o == out[n]
           sent == [o EXCEPT !.phase = "sent"]
           s == [call |-> o.call, src |-> n, dst |-> Target(n), pkg |-> o.pkg, phase |-> "transfer"]
<1>1. o # NoCall /\ o \in Calls /\ \A t \in streams : t.src # n
  BY CallFacts DEF SendTransfer, HolderInv, Paired
<1>2. /\ s.call = o.call /\ s.src = n /\ s.dst = Head(o.targets) /\ s.pkg = o.pkg
      /\ s.phase = "transfer"
  BY DEF Target
<1>3. /\ sent # NoCall /\ sent.call = o.call /\ sent.hasAgent = o.hasAgent /\ sent.pkg = o.pkg
      /\ sent.targets = o.targets /\ sent.phase = "sent"
  BY <1>1, NewPhase, Distinct
<1>4. out' = [out EXCEPT ![n] = sent] /\ streams' = streams \cup {s} /\ UNCHANGED <<inst, ckpt>>
  BY DEF SendTransfer
<1> HIDE DEF s, sent
<1>5. out'[n] = sent /\ \A m \in Nodes \ {n} : out'[m] = out[m]
  BY <1>4 DEF HolderInv, CallInv, Types
<1>6. \A m \in Nodes : (Done(m)' <=> Done(m)) /\ (Fetching(m)' <=> Fetching(m))
  <2>1. ~Done(n) /\ ~Done(n)'
    BY <1>1, <1>2, <1>4 DEF Done
  <2>2. ASSUME NEW m \in Nodes, m # n PROVE Done(m)' <=> Done(m)
    BY <1>2, <1>4, <1>5, <2>2 DEF Done
  <2>3. ASSUME NEW m \in Nodes PROVE Fetching(m)' <=> Fetching(m)
    BY <1>2, <1>4 DEF Fetching
  <2> QED
    BY <2>1, <2>2, <2>3
<1>7. \A m \in Nodes : Holds(m)' <=> Holds(m)
  BY <1>4, <1>6 DEF Holds
<1>8. Paired'
  <2>1. ASSUME NEW t \in streams' 
        PROVE  /\ out'[t.src] # NoCall /\ out'[t.src].phase = "sent" /\ out'[t.src].call = t.call
               /\ t.dst = Head(out'[t.src].targets) /\ t.pkg = out'[t.src].pkg
    <3>1. CASE t = s
      BY <1>2, <1>3, <1>5, <3>1
    <3>2. CASE t \in streams
      <4>1. t.src \in Nodes \ {n}
        BY <1>1, <3>2 DEF HolderInv, CallInv, Types, Streams
      <4> QED
        BY <1>5, <3>2, <4>1 DEF HolderInv, Paired
    <3> QED
      BY <1>4, <2>1, <3>1, <3>2
  <2>2. ASSUME NEW m \in Nodes, out'[m] # NoCall, out'[m].phase = "sent"
        PROVE  \E t \in streams' : t.src = m /\ t.call = out'[m].call
    BY <1>2, <1>3, <1>4, <1>5, <2>2 DEF HolderInv, Paired
  <2> QED
    BY <2>1, <2>2 DEF Paired
<1>9. Waiting'
  <2>1. \A m \in Nodes : out'[m] = NoCall <=> out[m] = NoCall
    BY <1>1, <1>3, <1>5
  <2>2. \A m \in Nodes : out[m] # NoCall =>
          /\ out'[m].pkg = out[m].pkg /\ out'[m].hasAgent = out[m].hasAgent
          /\ out'[m].targets = out[m].targets
    BY <1>3, <1>5
  <2>3. \A m \in Nodes : out[m] # NoCall =>
          \A i \in 1..Len(out[m].targets) : out[m].targets[i] \in Nodes
    <3>1. ASSUME NEW m \in Nodes, out[m] # NoCall PROVE out[m].targets \in Seq(Nodes)
      BY <3>1 DEF HolderInv, CallInv, Types, Calls
    <3> QED
      BY <3>1
  <2> QED
    BY <1>4, <1>6, <2>1, <2>2, <2>3 DEF HolderInv, Waiting
<1>10. OneHolder'
  BY <1>7 DEF HolderInv, OneHolder
<1>11. Kept'
  BY <1>2, <1>4, <1>6, <1>7 DEF HolderInv, Kept
<1>12. NothingLost
  <2>1. \A m \in Nodes : ckpt[m].tick <= ckpt[m].tick
    BY CkptTick DEF HolderInv, CallInv, Types
  <2> QED
    BY <1>4, <2>1 DEF NothingLost
<1> QED
  BY <1>8, <1>9, <1>10, <1>11, <1>12 DEF HolderInv

\* The source reads the answer and gives up what the holder has.
LEMMA SuccessHolder ==
  ASSUME Calm, HolderInv, CallInv', NEW n \in Nodes, ConfirmSuccess(n)
  PROVE  HolderInv' /\ NothingLost
<1>1. PICK s \in Awaited(n) : s.phase = "ok" /\ Return(n, NoInst, streams \ {s})
  BY DEF ConfirmSuccess
<1>2. ckpt' = [ckpt EXCEPT ![n] = NoCkpt]
  BY DEF ConfirmSuccess, Calm
<1>3. /\ out[n] # NoCall /\ s \in streams /\ s.src = n /\ s.call = out[n].call /\ Done(n)
      /\ \A t \in streams \ {s} : t.src # n
  BY <1>1 DEF Awaited, NoCall, Done, HolderInv, Paired, CallInv, OneStream
<1>4. streams' = streams \ {s}
  BY <1>1, <1>3, HolderIsNoTarget DEF Return
<1>5. /\ inst \in [Nodes -> Instances \cup {NoInst}] /\ out \in [Nodes -> Calls \cup {NoCall}]
      /\ ckpt \in [Nodes -> Checkpoints \cup {NoCkpt}]
      /\ \A t \in streams : t.src \in Nodes /\ t.dst \in Nodes
  BY DEF HolderInv, CallInv, Types, Streams
<1>6. /\ out'[n] = NoCall /\ inst'[n] = NoInst /\ ckpt'[n] = NoCkpt
      /\ \A m \in Nodes \ {n} : inst'[m] = inst[m] /\ out'[m] = out[m] /\ ckpt'[m] = ckpt[m]
  BY <1>1, <1>2, <1>5 DEF Return
<1>7. ~Done(n)' /\ ~Holds(n) /\ ~Holds(n)'
  BY <1>3, <1>6 DEF Done, Holds
<1>8. ASSUME NEW m \in Nodes, m # n
      PROVE  (Done(m)' <=> Done(m)) /\ (Fetching(m)' <=> Fetching(m)) /\ (Holds(m)' <=> Holds(m))
  <2>1. Done(m)' <=> Done(m)
    BY <1>3, <1>4, <1>6, <1>8 DEF Done
  <2>2. Fetching(m)' <=> Fetching(m)
    BY <1>1, <1>4 DEF Fetching
  <2> QED
    BY <1>6, <1>8, <2>1, <2>2 DEF Holds
<1>9. Paired'
  <2>1. \A t \in streams' : t \in streams /\ t.src \in Nodes \ {n}
    BY <1>3, <1>4, <1>5
  <2>2. \A m \in Nodes \ {n}, t \in streams : t.src = m => t \in streams'
    BY <1>3, <1>4
  <2> QED
    BY <1>6, <2>1, <2>2 DEF HolderInv, Paired
<1>10. Waiting'
  <2>1. ASSUME NEW m \in Nodes, out'[m] # NoCall, ~Done(m)'
        PROVE  \A i \in 1..Len(out'[m].targets) : out'[out'[m].targets[i]] = NoCall
    <3>1. m # n /\ out'[m] = out[m] /\ out[m] \in Calls
      BY <1>5, <1>6, <2>1
    <3>2. out[m].targets \in Seq(Nodes) /\ ~Done(m)
      BY <1>8, <2>1, <3>1 DEF Calls
    <3>3. \A i \in 1..Len(out[m].targets) :
            out[m].targets[i] \in Nodes /\ out[out[m].targets[i]] = NoCall
      BY <2>1, <3>1, <3>2 DEF HolderInv, Waiting
    <3> QED
      BY <1>6, <3>1, <3>3
  <2> QED
    BY <1>6, <2>1 DEF HolderInv, Waiting
<1>11. OneHolder'
  BY <1>7, <1>8 DEF HolderInv, OneHolder
<1>12. Kept'
  <2>1. \A t \in streams : t.phase = "saved" => t.dst # n
    BY <1>3, HolderIsNoTarget DEF Answered
  <2>2. \A t \in streams' : t.phase = "saved" => ckpt'[t.dst] = t.pkg
    BY <1>4, <1>5, <1>6, <2>1 DEF HolderInv, Kept
  <2>3. ASSUME NEW m \in Nodes, Done(m)'
        PROVE  \E k \in Nodes : Holds(k)' /\ ckpt'[k].tick >= ckpt'[m].tick
    <3>1. m # n /\ Done(m)
      BY <1>7, <1>8, <2>3
    <3>2. PICK k \in Nodes : Holds(k) /\ ckpt[k].tick >= ckpt[m].tick
      BY <3>1 DEF HolderInv, Kept
    <3> QED
      BY <1>6, <1>7, <1>8, <3>1, <3>2
  <2>4. NoCkpt.tick <= MaxTick
    BY ConstantsAssumption DEF NoCkpt
  <2>5. \A m \in Nodes :
          /\ inst'[m] # NoInst => ckpt'[m].tick <= inst'[m].tick /\ inst'[m].tick <= MaxTick
          /\ ckpt'[m].tick <= MaxTick
    BY <1>6, <2>4 DEF HolderInv, Kept
  <2> QED
    BY <2>2, <2>3, <2>5 DEF Kept
<1>13. NothingLost
  <2>1. PICK k \in Nodes : Holds(k) /\ ckpt[k].tick >= ckpt[n].tick
    BY <1>3 DEF HolderInv, Kept
  <2>2. k # n /\ ckpt'[k] = ckpt[k] /\ ckpt[n].tick <= ckpt'[k].tick
    BY <1>6, <1>7, <2>1, <1>5, CkptTick
  <2>3. \A m \in Nodes \ {n} : ckpt[m].tick <= ckpt'[m].tick
    BY <1>5, <1>6, CkptTick
  <2> QED
    BY <2>2, <2>3 DEF NothingLost
<1> QED
  BY <1>9, <1>10, <1>11, <1>12, <1>13 DEF HolderInv

LEMMA CallerHolder ==
  ASSUME Calm, HolderInv, CallInv', NEW n \in Nodes, Caller(n)
  PROVE  HolderInv' /\ NothingLost
<1>0. CallInv /\ Paired
  BY DEF HolderInv
<1>1. ASSUME out[n].phase \in {"dial", "backoff"}
      PROVE  /\ out[n] # NoCall /\ ~Done(n) /\ streams = {s \in streams : s.src # n}
             /\ \A s \in streams : s.src # n
  BY <1>0, <1>1, CallFacts DEF Paired, Done
<1>2. CASE SendFails(n)
  BY <1>1, <1>2, AfterFailureHolder DEF SendFails
<1>3. CASE SendTransfer(n)
  BY <1>3, SendHolder
<1>4. CASE BackoffOver(n)
  <2>1. /\ out[n].phase \in {"dial", "sent", "backoff"} /\ out[n] # NoCall /\ out[n] \in Calls
        /\ ~Done(n) /\ streams = {s \in streams : s.src # n} /\ \A s \in streams : s.src # n
    BY <1>0, <1>1, <1>4, CallFacts DEF BackoffOver
  <2> DEFINE next == [out[n] EXCEPT !.phase = "dial"]
  <2>2. /\ next.phase = "dial" /\ next.pkg = out[n].pkg /\ next.hasAgent = out[n].hasAgent
        /\ next.targets = out[n].targets
    BY <2>1, NewPhase
  <2> HIDE DEF next
  <2>3. out'[n] = next /\ out' = [out EXCEPT ![n] = out'[n]]
    BY <1>0, <1>4 DEF BackoffOver, next, CallInv, Types
  <2>4. /\ out'[n].phase # "sent" /\ out'[n].pkg = out[n].pkg /\ out'[n].hasAgent = out[n].hasAgent
        /\ out'[n].targets = out[n].targets
    BY <2>2, <2>3
  <2>5. /\ inst' = [inst EXCEPT ![n] = inst'[n]] /\ inst'[n] = inst[n]
        /\ streams' = {s \in streams : s.src # n} /\ UNCHANGED ckpt
    BY <1>0, <1>4, <2>1 DEF BackoffOver, CallInv, Types
  <2> QED
    BY <2>1, <2>3, <2>4, <2>5, FailureHolder
<1>5. CASE BackoffCancelled(n)
  <2>1. out[n].hasAgent => inst[n] \in Instances
    BY <1>0, <1>5, CallFacts DEF BackoffCancelled
  <2>2. out[n].hasAgent => /\ RevertHandoff(inst[n]) # NoInst
                           /\ RevertHandoff(inst[n]).tick = inst[n].tick
    BY <2>1, LeaseTypes, Distinct
  <2> QED
    BY <1>1, <1>5, <2>2, ReturnHolder DEF BackoffCancelled
<1>6. CASE ConfirmFailure(n)
  <2>1. PICK s \in Awaited(n) : /\ s.phase \in {"fatal", "retriable"}
                                /\ AfterFailure(n, s.phase = "retriable", streams \ {s})
                                /\ UNCHANGED ckpt
    BY <1>6 DEF ConfirmFailure
  <2>2. /\ out[n].phase = "sent" /\ out[n] # NoCall /\ s \in streams /\ s.src = n
        /\ \A t \in streams : t.src = n => t = s
    BY <1>0, <2>1 DEF Awaited, NoCall, Paired, CallInv, OneStream
  <2>3. streams \ {s} = {t \in streams : t.src # n} /\ ~Done(n)
    BY <2>1, <2>2 DEF Done
  <2>4. \A t \in streams : t.src = n => Answered(t)
    BY <2>1, <2>2 DEF Answered
  <2> QED
    BY <2>1, <2>2, <2>3, <2>4, AfterFailureHolder
<1>7. CASE ConfirmSuccess(n)
  BY <1>7, SuccessHolder
<1>8. CASE ConfirmLost(n)
  <2>1. out[n] # NoCall /\ out[n].phase = "sent" /\ Awaited(n) = {}
    BY <1>8 DEF ConfirmLost, Calm, NoCall
  <2> QED
    BY <1>0, <2>1 DEF Paired, Awaited
<1> QED
  BY <1>2, <1>3, <1>4, <1>5, <1>6, <1>7, <1>8 DEF Caller

\* What the target of a served stream has stored.
LEMMA ServedCkpt ==
  ASSUME HolderInv, NEW s \in streams, ~Answered(s)
  PROVE  /\ s.phase = "transfer" => ckpt[s.dst] = NoCkpt
         /\ s.phase = "saved" => ckpt[s.dst] = s.pkg
         /\ s.pkg = ckpt[s.src] /\ s.pkg \in Checkpoints
<1>1. /\ s.dst \in Nodes /\ s.src \in Nodes /\ ~Holds(s.dst) /\ out[s.dst] = NoCall
      /\ out[s.src] # NoCall /\ \A t \in streams : ~Answered(t) => t = s
  BY Served
<1>2. s.phase = "transfer" => ~Fetching(s.dst)
  BY <1>1 DEF Fetching, Answered
<1>3. s.phase = "transfer" => ckpt[s.dst] = NoCkpt
  BY <1>1, <1>2 DEF Holds, Done
<1>4. s.pkg = ckpt[s.src] /\ s.pkg \in Checkpoints
  BY <1>1 DEF HolderInv, Paired, Waiting, CallInv, Types, Streams
<1> QED
  BY <1>3, <1>4 DEF HolderInv, Kept

\* The handler saves the package, or answers that it failed and keeps nothing.
LEMMA KeepHolder ==
  ASSUME HolderInv, CallInv', NEW s \in streams, ~Answered(s), NEW p \in Phases, NEW c,
         (p = "saved" /\ c = s.pkg) \/ (p \in {"fatal", "retriable"} /\ c = NoCkpt),
         streams' = (streams \ {s}) \cup {[s EXCEPT !.phase = p]},
         ckpt' = [ckpt EXCEPT ![s.dst] = c], UNCHANGED <<inst, out>>
  PROVE  HolderInv' /\ NothingLost
<1> DEFINE t == [s EXCEPT !.phase = p]
<1>1. s \in Streams /\ ckpt \in [Nodes -> Checkpoints \cup {NoCkpt}]
  BY DEF HolderInv, CallInv, Types
<1>2. /\ t.call = s.call /\ t.src = s.src /\ t.dst = s.dst /\ t.pkg = s.pkg /\ t.phase = p
      /\ streams' = (streams \ {s}) \cup {t}
  BY <1>1, StreamPhase
<1> HIDE DEF t
<1>3. /\ s.phase # "ok" /\ s.src \in Nodes /\ s.dst \in Nodes /\ s.src # s.dst
      /\ out[s.dst] = NoCall /\ ~Holds(s.dst) /\ inst[s.dst] = NoInst
      /\ \A u \in streams : ~Answered(u) => u = s
  BY Served
<1>4. /\ ckpt[s.dst] = NoCkpt \/ ckpt[s.dst] = s.pkg
      /\ s.pkg = ckpt[s.src] /\ s.pkg \in Checkpoints
  BY ServedCkpt DEF Answered, Phases, Streams, HolderInv, CallInv, Types
<1>5. ckpt'[s.dst] = c /\ \A m \in Nodes \ {s.dst} : ckpt'[m] = ckpt[m]
  BY <1>1, <1>3
<1>6. \A m \in Nodes : Done(m)' <=> Done(m)
  BY <1>2, <1>3 DEF Done
<1>7. \A m \in Nodes \ {s.dst} : Fetching(m)' <=> Fetching(m)
  BY <1>2 DEF Fetching
<1>8. ~Holds(s.dst)'
  BY <1>2, <1>3, <1>5 DEF Holds, Fetching
<1>9. \A m \in Nodes : Holds(m)' <=> Holds(m)
  <2>1. ASSUME NEW m \in Nodes, m # s.dst PROVE Holds(m)' <=> Holds(m)
    BY <1>5, <1>6, <1>7, <2>1 DEF Holds
  <2> QED
    BY <1>3, <1>8, <2>1
<1>10. Paired'
  BY <1>2 DEF HolderInv, Paired
<1>11. Waiting'
  BY <1>3, <1>5, <1>6 DEF HolderInv, Waiting
<1>12. OneHolder'
  BY <1>9 DEF HolderInv, OneHolder
<1>13. Kept'
  <2>1. \A u \in streams' : u.phase = "saved" => u = t /\ p = "saved"
    BY <1>2, <1>3 DEF Answered
  <2>2. \A u \in streams' : u.phase = "saved" => ckpt'[u.dst] = u.pkg
    BY <1>2, <1>5, <2>1
  <2>3. c.tick <= MaxTick
    BY <1>3, <1>4, ConstantsAssumption DEF HolderInv, Kept, NoCkpt
  <2>4. \A m \in Nodes :
          /\ inst'[m] # NoInst => ckpt'[m].tick <= inst'[m].tick /\ inst'[m].tick <= MaxTick
          /\ ckpt'[m].tick <= MaxTick
    BY <1>3, <1>5, <2>3 DEF HolderInv, Kept
  <2>5. ASSUME NEW m \in Nodes, Done(m)'
        PROVE  \E k \in Nodes : Holds(k)' /\ ckpt'[k].tick >= ckpt'[m].tick
    <3>1. Done(m) /\ m # s.dst
      BY <1>3, <1>6, <2>5 DEF Done
    <3>2. PICK k \in Nodes : Holds(k) /\ ckpt[k].tick >= ckpt[m].tick
      BY <3>1 DEF HolderInv, Kept
    <3> QED
      BY <1>3, <1>5, <1>9, <3>1, <3>2
  <2> QED
    BY <2>2, <2>4, <2>5 DEF Kept
<1>14. NothingLost
  <2>1. \A m \in Nodes : ckpt[m].tick \in Int
    BY <1>1, CkptTick
  <2>2. ckpt[s.dst].tick <= ckpt'[s.src].tick
    <3>1. ckpt'[s.src] = s.pkg /\ s.pkg.tick \in Nat
      BY <1>3, <1>4, <1>5 DEF Checkpoints
    <3> QED
      BY <1>4, <3>1 DEF NoCkpt
  <2>3. \A m \in Nodes \ {s.dst} : ckpt[m].tick <= ckpt'[m].tick
    BY <1>5, <2>1
  <2> QED
    BY <1>3, <2>2, <2>3 DEF NothingLost
<1> QED
  BY <1>10, <1>11, <1>12, <1>13, <1>14 DEF HolderInv

\* The agent starts on the target, which is the holder from here on.
LEMMA StartHolder ==
  ASSUME HolderInv, CallInv', NEW s \in streams, StartMigrated(s)
  PROVE  HolderInv' /\ NothingLost
<1> DEFINE t == [s EXCEPT !.phase = "ok"]
           i == WithTick(NewLeaseFromMigration(s.pkg.major),
                         IF ckpt[s.dst] = NoCkpt THEN 0 ELSE ckpt[s.dst].tick)
<1>1. /\ ~Answered(s) /\ s.phase = "saved" /\ s \in Streams
      /\ ckpt \in [Nodes -> Checkpoints \cup {NoCkpt}]
      /\ inst \in [Nodes -> Instances \cup {NoInst}]
  BY DEF StartMigrated, Answered, HolderInv, CallInv, Types
<1>2. /\ s.src \in Nodes /\ s.dst \in Nodes /\ s.src # s.dst
      /\ out[s.src] # NoCall /\ ~Done(s.src) /\ Holds(s.src)
      /\ out[s.dst] = NoCall /\ ~Holds(s.dst)
      /\ s \in Awaited(s.src)
      /\ \A u \in streams : ~Answered(u) => u = s
  BY <1>1, Served
<1>3. ckpt[s.dst] = s.pkg /\ s.pkg = ckpt[s.src] /\ s.pkg \in Checkpoints
  BY <1>1, ServedCkpt
<1>4. /\ t.call = s.call /\ t.src = s.src /\ t.dst = s.dst /\ t.pkg = s.pkg /\ t.phase = "ok"
  BY <1>1, StreamPhase DEF Phases
<1>5. streams' = (streams \ {s}) \cup {t} /\ UNCHANGED <<ckpt, out>>
  BY <1>2 DEF StartMigrated, Answer
<1> HIDE DEF t
<1>6. i \in Instances /\ i.tick = s.pkg.tick /\ i # NoInst
  <2>1. s.pkg.major \in Nat /\ s.pkg.tick \in Nat /\ ckpt[s.dst] # NoCkpt
    BY <1>3, Distinct DEF Checkpoints
  <2> QED
    BY <1>3, <2>1, StartTypes, Distinct
<1>7. inst' = [inst EXCEPT ![s.dst] = i]
  BY DEF StartMigrated
<1> HIDE DEF i
<1>8. inst'[s.dst] = i /\ \A m \in Nodes \ {s.dst} : inst'[m] = inst[m]
  BY <1>1, <1>2, <1>7
<1>9. Done(s.src)' /\ \A m \in Nodes \ {s.src} : Done(m)' <=> Done(m)
  <2>1. out[s.src].call = s.call
    BY <1>2 DEF Awaited
  <2>2. Done(s.src)'
    BY <1>2, <1>4, <1>5, <2>1 DEF Done
  <2>3. ASSUME NEW m \in Nodes, m # s.src PROVE Done(m)' <=> Done(m)
    BY <1>1, <1>4, <1>5, <2>3 DEF Done
  <2> QED
    BY <2>2, <2>3
<1>10. \A m \in Nodes \ {s.dst} : Fetching(m)' <=> Fetching(m)
  BY <1>4, <1>5 DEF Fetching
<1>11. Holds(s.dst)' /\ \A m \in Nodes : Holds(m)' => m = s.dst
  <2>1. Holds(s.dst)'
    BY <1>2, <1>5, <1>6, <1>8 DEF Holds, Done
  <2>2. ASSUME NEW m \in Nodes, m # s.dst, Holds(m)' PROVE FALSE
    <3>1. m # s.src
      BY <1>9, <2>2 DEF Holds
    <3>2. Holds(m)
      BY <1>5, <1>8, <1>9, <1>10, <2>2, <3>1 DEF Holds
    <3> QED
      BY <1>2, <3>1, <3>2 DEF HolderInv, OneHolder
  <2> QED
    BY <2>1, <2>2
<1>12. Paired'
  BY <1>4, <1>5 DEF HolderInv, Paired
<1>13. Waiting'
  <2>1. \A m \in Nodes : out'[m] # NoCall =>
          m # s.dst /\ inst'[m] = inst[m] /\ (~Done(m)' => ~Done(m))
    BY <1>2, <1>5, <1>8, <1>9
  <2> QED
    BY <1>5, <2>1 DEF HolderInv, Waiting
<1>14. OneHolder'
  BY <1>11 DEF OneHolder
<1>15. Kept'
  <2>1. \A u \in streams' : u.phase # "saved"
    BY <1>2, <1>4, <1>5 DEF Answered
  <2>2. \A m \in Nodes : ckpt[m].tick \in Int /\ ckpt[m].tick <= MaxTick
    BY <1>1, CkptTick DEF HolderInv, Kept
  <2>3. \A m \in Nodes :
          /\ inst'[m] # NoInst => ckpt'[m].tick <= inst'[m].tick /\ inst'[m].tick <= MaxTick
          /\ ckpt'[m].tick <= MaxTick
    <3>1. ckpt'[s.dst].tick <= inst'[s.dst].tick /\ inst'[s.dst].tick <= MaxTick
      BY <1>2, <1>3, <1>5, <1>6, <1>8, <2>2
    <3> QED
      BY <1>5, <1>8, <2>2, <3>1 DEF HolderInv, Kept
  <2>4. ASSUME NEW m \in Nodes, Done(m)'
        PROVE  ckpt'[s.dst].tick >= ckpt'[m].tick
    <3>1. CASE m = s.src
      BY <1>2, <1>3, <1>5, <2>2, <3>1
    <3>2. CASE m # s.src
      <4>1. PICK k \in Nodes : Holds(k) /\ ckpt[k].tick >= ckpt[m].tick
        BY <1>9, <2>4, <3>2 DEF HolderInv, Kept
      <4>2. k = s.src
        BY <1>2, <4>1 DEF HolderInv, OneHolder
      <4> QED
        BY <1>3, <1>5, <4>1, <4>2
    <3> QED
      BY <3>1, <3>2
  <2> QED
    BY <1>2, <1>11, <2>1, <2>3, <2>4 DEF Kept
<1>16. NothingLost
  <2>1. \A m \in Nodes : ckpt[m].tick <= ckpt[m].tick
    BY <1>1, CkptTick
  <2> QED
    BY <1>5, <2>1 DEF NothingLost
<1> QED
  BY <1>12, <1>13, <1>14, <1>15, <1>16 DEF HolderInv

LEMMA HandlerHolder ==
  ASSUME HolderInv, CallInv', NEW s \in streams, Handler(s)
  PROVE  HolderInv' /\ NothingLost
<1>1. ~Answered(s) /\ s.dst \in Nodes /\ s \in Awaited(s.src)
  <2>1. ~Answered(s)
    BY DEF Handler, RejectTransfer, AcceptTransfer, StartMigrated, LoadFails, DropTransfer, Answered
  <2> QED
    BY <2>1, Served
<1>2. CASE RejectTransfer(s)
  <2>1. PICK p \in {"fatal", "retriable"} : Answer(s, p)
    BY <1>2 DEF RejectTransfer
  <2>2. streams' = (streams \ {s}) \cup {[s EXCEPT !.phase = p]}
    BY <1>1, <2>1 DEF Answer
  <2>3. ckpt' = [ckpt EXCEPT ![s.dst] = NoCkpt]
    BY <1>1, <1>2, ServedCkpt DEF RejectTransfer, HolderInv, CallInv, Types
  <2> QED
    BY <1>1, <1>2, <2>2, <2>3, KeepHolder DEF RejectTransfer, Phases
<1>3. CASE AcceptTransfer(s)
  BY <1>1, <1>3, KeepHolder DEF AcceptTransfer, Phases
<1>4. CASE StartMigrated(s)
  BY <1>4, StartHolder
<1>5. CASE LoadFails(s)
  <2>1. PICK p \in {"fatal", "retriable"} : Answer(s, p)
    BY <1>5 DEF LoadFails
  <2>2. streams' = (streams \ {s}) \cup {[s EXCEPT !.phase = p]}
    BY <1>1, <2>1 DEF Answer
  <2> QED
    BY <1>1, <1>5, <2>2, KeepHolder DEF LoadFails, Phases
<1>6. CASE DropTransfer(s)
  BY <1>1, <1>6 DEF DropTransfer
<1> QED
  BY <1>2, <1>3, <1>4, <1>5, <1>6 DEF Handler

LEMMA NextHolder ==
  ASSUME Calm, HolderInv, [Next]_vars
  PROVE  HolderInv' /\ NothingLost
<1>0. CallInv'
  BY NextCallInv DEF HolderInv
<1>1. CASE UNCHANGED vars
  <2>1. Paired' /\ Waiting' /\ OneHolder' /\ Kept'
    BY <1>1 DEF vars, HolderInv, Paired, Waiting, OneHolder, Kept, Holds, Done, Fetching
  <2>2. \A m \in Nodes : ckpt[m].tick <= ckpt[m].tick
    BY CkptTick DEF HolderInv, CallInv, Types
  <2> QED
    BY <1>0, <1>1, <2>1, <2>2 DEF HolderInv, NothingLost, vars
<1> QED
  BY <1>0, <1>1, LoopHolder, BeginHolder, CallerHolder, HandlerHolder DEF Next

\* The inductive invariant of ownership, while every answer arrives: one node
\* holds the agent or the one stream that carries it, and what the others
\* still keep of it the holder has.
THEOREM HolderCorrect == ASSUME Calm PROVE Spec => []HolderInv
<1>1. Init => HolderInv
  BY InitHolder
<1>2. HolderInv /\ [Next]_vars => HolderInv'
  BY NextHolder
<1> QED
  BY <1>1, <1>2, PTL DEF Spec

\* EI-1: while no confirmation is lost, no process killed, no deletion fails
\* and no agent is sent to a node that is still migrating it, at most one of
\* any number of nodes ticks the agent.
THEOREM SingleOwner == ASSUME Calm PROVE Spec => []AtMostOneOwner
<1>1. HolderInv => AtMostOneOwner
  <2> SUFFICES ASSUME HolderInv PROVE Cardinality(Owners) <= 1
    BY DEF AtMostOneOwner
  <2>1. ASSUME NEW n \in Owners PROVE n \in Nodes /\ Holds(n)
    BY DEF Owners, Hosted, CanTick, Holds, Done, HolderInv, Waiting, CallInv, Alive
  <2>2. CASE Owners = {}
    BY <2>2, FS_EmptySet
  <2>3. ASSUME NEW n \in Owners PROVE Cardinality(Owners) <= 1
    <3>1. Owners = {n}
      BY <2>1 DEF HolderInv, OneHolder
    <3> QED
      BY <3>1, FS_Singleton
  <2> QED
    BY <2>2, <2>3
<1> QED
  BY <1>1, HolderCorrect, PTL

\* No step of a migration loses the newest checkpoint, under the same
\* conditions: what cleanupLocalAgent, deleteOrphanedCheckpoint and the save on
\* the target remove or replace, another node has.
THEOREM DurableKept == ASSUME Calm PROVE Spec => DurableNeverRegresses
<1> DEFINE Ticks == {ckpt[n].tick : n \in Nodes}
<1>1. HolderInv => Newest \in Ticks /\ (Newest \in Int /\ \A n \in Nodes : ckpt[n].tick <= Newest)
  <2> SUFFICES ASSUME HolderInv PROVE Max(Ticks) \in Ticks /\ Max(Ticks) \in Int
                                      /\ \A n \in Nodes : ckpt[n].tick <= Max(Ticks)
    BY DEF Newest
  <2>1. \A x \in Ticks : x \in Int /\ x <= MaxTick
    BY CkptTick DEF HolderInv, CallInv, Types, Kept
  <2>2. MaxTick \in Int /\ ckpt[First].tick \in Ticks
    BY ConstantsAssumption
  <2>3. Max(Ticks) \in Ticks /\ \A x \in Ticks : x <= Max(Ticks)
    <3> HIDE DEF Ticks
    <3> QED
      BY <2>1, <2>2, GreatestInt
  <2> QED
    BY <2>1, <2>3
<1>2. HolderInv' => (Newest \in Int /\ \A n \in Nodes : ckpt[n].tick <= Newest)'
  BY <1>1, PTL
<1>3. HolderInv /\ [Next]_vars => Newest' >= Newest
  <2> SUFFICES ASSUME HolderInv, [Next]_vars PROVE Newest' >= Newest
    OBVIOUS
  <2>1. HolderInv' /\ NothingLost
    BY NextHolder
  <2>2. Newest' \in Int /\ \A m \in Nodes : ckpt'[m].tick <= Newest'
    BY <1>2, <2>1
  <2>3. PICK n \in Nodes : Newest = ckpt[n].tick
    BY <1>1
  <2>4. PICK m \in Nodes : ckpt[n].tick <= ckpt'[m].tick
    BY <2>1 DEF NothingLost
  <2>5. ckpt[n].tick \in Int /\ ckpt'[m].tick \in Int
    BY <2>1, CkptTick DEF HolderInv, CallInv, Types
  <2> QED
    BY <2>2, <2>3, <2>4, <2>5
<1> QED
  BY <1>3, HolderCorrect, PTL DEF Spec, DurableNeverRegresses
=============================================================================
