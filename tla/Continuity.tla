----------------------------- MODULE Continuity -----------------------------
(***************************************************************************)
(* The portable agent: igord run and igord resume (cmd/igord/main.go) with *)
(* the identity loader (pkg/identity/loader.go) on several machines, each  *)
(* with its own checkpoint directory and clock, and an operator who copies *)
(* files between them. The agent is the liquidation watcher                *)
(* (agents/liquidation/main.go), whose point is to have missed nothing.    *)
(*                                                                         *)
(* Time is counted in slots of one second. One save is atomic here; the    *)
(* steps inside it are FSStorage's, budget and lineage are AgentLife's.    *)
(***************************************************************************)
EXTENDS Integers, Sequences, FiniteSetsExt

CONSTANTS
  Machines,
  Skew,       \* machine -> how far its clock is ahead of true time
  Curve,      \* the price curve: control points [slot, price] by slot
  Threshold,  \* liquidationThresholdCents
  Word,       \* 2^64 in the code: where uint64 wraps
  MaxGap,     \* slots a tick can process before DefaultTickTimeout
  Faults,     \* subset of {"kill", "save", "load", "torn", "identity"}
  StartNow,   \* true time at the start: no clock reads 0, the unset birth
  MaxNow,     \* bound: true time
  MaxStarts   \* bound: starts of igord, and so keys generated

ASSUME ContinuityAssumption ==
  /\ Skew \in [Machines -> Int] /\ \A m \in Machines : StartNow + Skew[m] > 0
  /\ Curve \in Seq([slot : Nat, price : Nat \ {0}]) /\ Curve # <<>>
  /\ \A i \in 1 .. Len(Curve) - 1 : Curve[i].slot < Curve[i + 1].slot
  /\ {Threshold, MaxGap, StartNow, MaxNow, MaxStarts} \subseteq Nat
  /\ StartNow <= MaxNow /\ Word \in Nat
  /\ \A m \in Machines : Word > 2 * (MaxNow + Skew[m]) + MaxGap

VARIABLES
  now,      \* true time
  ckpt,     \* machine -> the stored checkpoint, NoFile or BadFile
  ident,    \* machine -> the key in the identity file, NoKey if there is none
  proc,     \* machine -> the igord process
  carried,  \* the checkpoint file the operator has copied
  keys,     \* keys generated so far
  starts    \* bound: starts so far

vars == <<now, ckpt, ident, proc, carried, keys, starts>>

NoKey == 0

-----------------------------------------------------------------------------
(* The liquidation watcher.                                                *)

\* Linear between control points, constant beyond the last.
priceAtSlot(s) ==
  LET last == Curve[Len(Curve)]
  IN IF s <= Curve[1].slot THEN Curve[1].price
     ELSE IF s > last.slot THEN last.price
     ELSE LET i == Min({j \in DOMAIN Curve : s <= Curve[j].slot})
              prev == Curve[i - 1]
              next == Curve[i]
              span == next.slot - prev.slot
              offset == s - prev.slot
          IN IF next.price >= prev.price
             THEN prev.price + ((next.price - prev.price) * offset) \div span
             ELSE prev.price - ((prev.price - next.price) * offset) \div span

\* A new watcher. TickCount only matters up to 2; seen is a ghost, the latest
\* slot in which it has ticked.
NewWatcher == [ticks |-> 0, birth |-> 0, last |-> 0, latest |-> 0, high |-> 0,
               low |-> 0, warn |-> 0, seen |-> 0]

processSlot(a, s) ==
  LET price == priceAtSlot(s)
  IN [a EXCEPT
       !.latest = price,
       !.high = IF @ = 0 \/ price > @ THEN price ELSE @,
       !.low = IF @ = 0 \/ price < @ THEN price ELSE @,
       !.warn = IF @ = 0 /\ price < Threshold THEN s ELSE @]

\* uint64((now - BirthNano) / 1_000_000_000): a clock behind the birth wraps.
CurrentSlot(a, clock) == (clock - a.birth) % Word

\* Mutant: the first slot of the gap is taken for processed.
CatchUpLate(a, slot) ==
  LET upTo[s \in a.last .. slot - 1] ==
        IF s <= a.last + 1 THEN a ELSE processSlot(upTo[s - 1], s)
  IN IF slot > a.last + 1 THEN upTo[slot - 1] ELSE a

\* The slots of a gap are processed in order.
CatchUp(a, slot) ==
  LET upTo[s \in a.last .. slot - 1] ==
        IF s = a.last THEN a ELSE processSlot(upTo[s - 1], s)
  IN IF slot > a.last + 1 THEN upTo[slot - 1] ELSE a

Born(a, clock) ==
  [a EXCEPT !.ticks = IF @ < 2 THEN @ + 1 ELSE @,
            !.birth = IF @ = 0 THEN clock ELSE @]

\* The tick is over before its timeout.
TickFits(a, clock) ==
  LET b == Born(a, clock)
  IN b.ticks = 1 \/ CurrentSlot(b, clock) - b.last <= MaxGap

WatcherTick(a, clock) ==
  LET b == Born(a, clock)
      slot == CurrentSlot(b, clock)
  IN IF b.ticks = 1
     THEN [processSlot(b, 0) EXCEPT !.last = 0]
     ELSE [processSlot(CatchUp(b, slot), slot) EXCEPT
            !.last = slot, !.seen = Max({@, clock - b.birth})]

-----------------------------------------------------------------------------
(* Checkpoint files and igord processes.                                   *)

File(form, key, agent) == [form |-> form, key |-> key, agent |-> agent]
NoFile == File("none", NoKey, NewWatcher)
BadFile == File("bad", NoKey, NewWatcher)

\* Two ghosts: the key of the checkpoint the process started from, and the
\* readable checkpoint that it started without.
Process(pc, key, from, dropped, agent) ==
  [pc |-> pc, key |-> key, from |-> from, dropped |-> dropped, agent |-> agent]
Off == Process("off", NoKey, NoKey, NoFile, NewWatcher)

Clock(m) == now + Skew[m]
Running(m) == proc[m].pc = "running"

Init ==
  /\ now = StartNow
  /\ ckpt = [m \in Machines |-> NoFile]
  /\ ident = [m \in Machines |-> NoKey]
  /\ proc = [m \in Machines |-> Off]
  /\ carried = NoFile
  /\ keys = 0
  /\ starts = 0

Advance ==
  /\ now < MaxNow
  /\ now' = now + 1
  /\ UNCHANGED <<ckpt, ident, proc, carried, keys, starts>>

(* The identity loader.                                                    *)

\* Mutant: a key is generated at every start.
LoadOrGenerateAlways(m) ==
  /\ keys' = keys + 1
  /\ ident' = [ident EXCEPT ![m] = keys + 1]

\* Any failure to read the identity counts as having none: a key is
\* generated and written over whatever is there.
LoadOrGenerate(m) ==
  \/ /\ ident[m] # NoKey
     /\ UNCHANGED <<ident, keys>>
  \/ /\ ident[m] = NoKey \/ "identity" \in Faults
     /\ keys' = keys + 1
     /\ ident' = [ident EXCEPT ![m] = keys + 1]

(* igord run.                                                              *)

\* Mutant: the identity is loaded, the checkpoint is not.
RestoredBlank(file) == NewWatcher

\* LoadCheckpointFromStorage. The signature is checked against the key in
\* the checkpoint's own header; nothing compares it with the identity.
Restored(file) == IF file.form = "ok" THEN file.agent ELSE NewWatcher

Launch(m) ==
  /\ LoadOrGenerate(m)
  /\ proc' = [proc EXCEPT ![m] =
       Process("running", ident'[m], ckpt[m].key, NoFile, Restored(ckpt[m]))]

\* The load of a checkpoint that is in order fails: the read, the comparison
\* with the hash of the WASM file, or agent_resume.
LaunchFresh(m) ==
  /\ "load" \in Faults
  /\ ckpt[m].form = "ok"
  /\ LoadOrGenerate(m)
  /\ proc' = [proc EXCEPT ![m] =
       Process("running", ident'[m], NoKey, ckpt[m], NewWatcher)]

\* Every error of the load is taken for a first start, and the agent goes on
\* as agent_init left it.
runStandalone(m) ==
  /\ proc[m] = Off
  /\ starts < MaxStarts
  /\ starts' = starts + 1
  /\ Launch(m) \/ LaunchFresh(m)
  /\ UNCHANGED <<now, ckpt, carried>>

(* igord resume: the file is staged in the directory before it is parsed. *)

Stage(m) ==
  /\ proc[m] = Off
  /\ carried # NoFile
  /\ starts < MaxStarts
  /\ starts' = starts + 1
  /\ ckpt' = [ckpt EXCEPT ![m] = carried]
  /\ proc' = [proc EXCEPT ![m].pc = "staged"]
  /\ UNCHANGED <<now, ident, carried, keys>>

resumeFromCheckpoint(m) ==
  /\ proc[m].pc = "staged"
  /\ ckpt[m].form = "ok"
  /\ Launch(m)
  /\ UNCHANGED <<now, ckpt, carried, starts>>

\* The header does not parse, or, once the identity is loaded, the signature
\* does not verify or the load fails otherwise. The staged file stays.
ResumeFails(m) ==
  /\ proc[m].pc = "staged"
  /\ ckpt[m].form = "bad" \/ "load" \in Faults
  /\ LoadOrGenerate(m) \/ UNCHANGED <<ident, keys>>
  /\ proc' = [proc EXCEPT ![m] = Off]
  /\ UNCHANGED <<now, ckpt, carried, starts>>

(* runTickLoop.                                                            *)

Tick(m) ==
  /\ Running(m)
  /\ TickFits(proc[m].agent, Clock(m))
  /\ proc' = [proc EXCEPT ![m].agent = WatcherTick(@, Clock(m))]
  /\ UNCHANGED <<now, ckpt, ident, carried, keys, starts>>

\* The timeout closes the module, so the checkpoint that the loop tries to
\* take before it returns fails too.
TickTimesOut(m) ==
  /\ Running(m)
  /\ ~TickFits(proc[m].agent, Clock(m))
  /\ proc' = [proc EXCEPT ![m] = Off]
  /\ UNCHANGED <<now, ckpt, ident, carried, keys, starts>>

Checkpoint(m) == File("ok", proc[m].key, proc[m].agent)

Save(m) ==
  /\ Running(m)
  /\ ckpt' = [ckpt EXCEPT ![m] = Checkpoint(m)]
  /\ UNCHANGED <<now, ident, proc, carried, keys, starts>>

\* A signal: one last save, which may fail.
Shutdown(m) ==
  /\ Running(m)
  /\ ckpt' \in {[ckpt EXCEPT ![m] = Checkpoint(m)]} \cup (IF "save" \in Faults THEN {ckpt} ELSE {})
  /\ proc' = [proc EXCEPT ![m] = Off]
  /\ UNCHANGED <<now, ident, carried, keys, starts>>

Kill(m) ==
  /\ "kill" \in Faults
  /\ proc[m] # Off
  /\ proc' = [proc EXCEPT ![m] = Off]
  /\ UNCHANGED <<now, ckpt, ident, carried, keys, starts>>

(* The operator.                                                           *)

CopyCheckpoint(m) ==
  /\ ckpt[m].form = "ok"
  /\ carried' \in {ckpt[m]} \cup (IF "torn" \in Faults THEN {BadFile} ELSE {})
  /\ UNCHANGED <<now, ckpt, ident, proc, keys, starts>>

\* scripts/demo-liquidation.sh copies the identity file as well.
CopyIdentity(m, n) ==
  /\ m # n
  /\ proc[n] = Off
  /\ ident[m] \notin {NoKey, ident[n]}
  /\ ident' = [ident EXCEPT ![n] = ident[m]]
  /\ UNCHANGED <<now, ckpt, proc, carried, keys, starts>>

-----------------------------------------------------------------------------
Next ==
  \/ Advance
  \/ \E m \in Machines :
       \/ runStandalone(m) \/ Stage(m) \/ resumeFromCheckpoint(m) \/ ResumeFails(m)
       \/ Tick(m) \/ TickTimesOut(m) \/ Save(m) \/ Shutdown(m) \/ Kill(m)
       \/ CopyCheckpoint(m)
       \/ \E n \in Machines : CopyIdentity(m, n)

Spec == Init /\ [][Next]_vars

-----------------------------------------------------------------------------
(* Properties.                                                             *)

Watchers == {proc[m].agent : m \in Machines} \cup {ckpt[m].agent : m \in Machines}
            \cup {carried.agent}

\* What a watcher knows of the prices is what one that never died would know
\* at the time of its latest tick: the extremes and the first breach over
\* every slot since its birth, whatever was lost, copied, resumed or run on a
\* machine whose clock is behind.
NothingMissed ==
  \A a \in Watchers : a.ticks > 0 =>
    LET prices == {priceAtSlot(s) : s \in 0 .. a.seen}
        breaches == {s \in 1 .. a.seen : priceAtSlot(s) < Threshold}
    IN /\ a.last \in 0 .. a.seen
       /\ a.latest = priceAtSlot(a.last)
       /\ a.high = Max(prices)
       /\ a.low = Min(prices)
       /\ a.warn = IF breaches = {} THEN 0 ELSE Min(breaches)

\* The step leaves machine m's stored checkpoint, or replaces it by one of the
\* same life that has seen at least as much.
Continues(m) ==
  ckpt'[m] # ckpt[m] =>
    /\ ckpt'[m].agent.birth = ckpt[m].agent.birth
    /\ ckpt'[m].agent.seen >= ckpt[m].agent.seen

Known(m) == ckpt[m].form = "ok" /\ ckpt[m].agent.ticks > 0

\* igord replaces a readable checkpoint of a machine by one that knows less,
\* or by another life's, only where the operator staged a file, and at the
\* first save of a process that failed to load that very checkpoint: every
\* other save continues what is stored, through kills, failed saves, torn
\* copies and restarts, those after such a loss included.
KnowledgeGrows ==
  [][\A m \in Machines :
       Running(m) /\ Known(m) /\ ckpt[m] # proc[m].dropped => Continues(m)]_vars

\* On one machine an agent keeps its DID through crashes, restarts and
\* resumes: a process signs with the key in the identity file, and only the
\* operator replaces that file.
DirectoryKeepsIdentity ==
  [][\A m \in Machines :
       /\ Running(m) => proc[m].key = ident[m]
       /\ (ident[m] # NoKey /\ ident'[m] # ident[m])
            => \E n \in Machines \ {m} : ident'[m] = ident[n]]_vars

\* igord resume continues the agent with the DID that signed its checkpoint.
SameIdentity ==
  \A m \in Machines : Running(m) /\ proc[m].from # NoKey => proc[m].key = proc[m].from
=============================================================================
