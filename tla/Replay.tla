------------------------------ MODULE Replay ------------------------------
(***************************************************************************)
(* Recording and verifying an agent's ticks: Instance.Tick with its event  *)
(* log and replay window (internal/agent/instance.go), the replay engine   *)
(* (internal/replay/engine.go), periodic self-verification and escalation  *)
(* (internal/runner/research, cmd/igord-lab), the replay data a migration  *)
(* carries and its check on arrival (internal/migration), and the          *)
(* simulator's check of every tick (internal/simulator).                   *)
(*                                                                         *)
(* The agent is an unknown program. A tick starts from a state, makes      *)
(* hostcalls and ends in Run(state, replies, hidden). A state is the       *)
(* sequence of what the ticks that led to it saw, so that two are equal    *)
(* only if they were reached in the same way; hidden says that the tick    *)
(* used something that agent_checkpoint does not save. The calls and the   *)
(* hidden flag are ghosts: the runtime knows neither.                      *)
(***************************************************************************)
EXTENDS EventLog, Hostcalls

CONSTANTS
  Configs,     \* set of [host, policy, configured, used]: igord-lab, the
               \* simulator with live or with deterministic hostcalls,
               \* ReplayOnDivergence, VerifyInterval, and the hostcalls the
               \* agent is built with
  Values,      \* what clock, random numbers, wallets and answers may say
  Oddities,    \* subset of {"hidden", "refused", "small", "trap"}
  MaxOdd,      \* bound: such events in one behaviour
  MaxCalls,    \* bound: hostcalls, or pairs with a retry, in a tick
  MaxTick,     \* bound: ticks
  MaxStarts,   \* bound: starts of the process after the first
  WindowSize   \* ReplayWindowSize

ASSUME ReplayAssumption ==
  /\ Configs \subseteq [host : {"lab", "sim", "det"}, configured : Nat,
                     used : SUBSET Kinds, policy : {"log", "pause", "intensify", "migrate"}]
  /\ Values \subseteq Nat
  /\ {MaxOdd, MaxCalls, MaxTick, MaxStarts} \subseteq Nat
  /\ WindowSize \in Nat \ {0}

VARIABLES
  cfg,       \* the configuration, one of Configs
  pc,        \* "idle", "ticking", "verify", "stopped", "down"
  mem,       \* the agent's state in the live WASM instance
  tick,      \* Instance.TickNumber
  log,       \* Instance.EventLog
  window,    \* Instance.ReplayWindow
  cur,       \* the tick under way: [pre, calls, hidden, charged, receipts]
  interval,  \* cfg.VerifyInterval
  since,     \* ticksSinceVerify
  verified,  \* lastVerifiedTick
  stored,    \* the stored checkpoint: [state, tick]
  verdict,   \* the last verification: <<>> or <<[snap, ok]>>
  missed,    \* ghost: a snapshot with entries was evicted unverified
  pkg,       \* a migration package: [phase, state, data]
  odd,       \* bound: odd events so far
  starts     \* bound: restarts so far

vars == <<cfg, pc, mem, tick, log, window, cur, interval, since, verified,
          stored, verdict, missed, pkg, odd, starts>>

Used == cfg.used

\* The manifest declares what the agent uses.
Caps == {Capability(k) : k \in Used}

\* The hostcalls an agent finds: an instance sets the wallet, pricing and
\* payment state; the simulator sets none, or has its own host module.
HostModule ==
  CASE cfg.host = "lab" -> LiveModule(Caps, {"wallet", "pricing", "x402"})
    [] cfg.host = "sim" -> LiveModule(Caps, {})
    [] OTHER            -> DeterministicModule(Caps)

Run(pre, replies, hidden) ==
  IF replies = <<>> /\ ~hidden THEN pre
  ELSE Append(pre, [replies |-> replies, hidden |-> hidden])

Replies(calls) == [i \in DOMAIN calls |-> calls[i].reply]

NoTick == [pre |-> <<>>, calls |-> <<>>, hidden |-> FALSE,
           charged |-> 0, receipts |-> 0]

NoPackage == [phase |-> "none", state |-> <<>>, data |-> <<>>]

---------------------------------------------------------------------------
(* The replay engine.                                                      *)

\* ReplayTick: instantiation fails when the agent imports a hostcall that
\* the sandbox does not have; a hostcall error and unconsumed entries are
\* errors; otherwise the state after the tick is returned.
ReplayTick(pre, tlog, calls) ==
  LET w == Walk(ReplayHostcall, Iterator(tlog.entries), calls)
  IN [error |-> \/ ~(Used \subseteq ReplayModule(Caps))
                \/ w.it.err
                \/ Remaining(w.it) > 0,
      state |-> Run(pre, w.replies, FALSE)]

\* ReplayChain over consecutive snapshots: one instance, a new iterator for
\* every tick, one comparison at the end. A tick that starts from a state
\* other than the recorded one makes calls nobody knows.
ReplayChain(initial, snaps, expected) ==
  LET step(s, snap) ==
        LET w == Walk(ChainHostcall, Iterator(snap.log.entries), snap.calls)
        IN [error |-> \/ s.error \/ s.state # snap.pre
                      \/ w.it.err \/ Remaining(w.it) > 0,
            state |-> Run(s.state, w.replies, FALSE)]
      run[i \in 0..Len(snaps)] ==
        IF i = 0 THEN [error |-> FALSE, state |-> initial] ELSE step(run[i - 1], snaps[i])
      end == run[Len(snaps)]
  IN /\ Used \subseteq ChainModule(Caps)
     /\ snaps # <<>>
     /\ ~end.error
     /\ end.state = expected

\* The verdict on a snapshot: no error and the recorded hash.
Matches(snap) ==
  LET r == ReplayTick(snap.pre, snap.log, snap.calls)
  IN ~r.error /\ r.state = snap.post

---------------------------------------------------------------------------
(* The replay window.                                                      *)

observationScore(snap) == Len(snap.log.entries)

\* The snapshot to drop: lowest score, the oldest of these, never the last.
EvictIdx(w) ==
  CHOOSE i \in 1 .. Len(w) - 1 :
    /\ \A j \in 1 .. Len(w) - 1 : observationScore(w[i]) <= observationScore(w[j])
    /\ \A j \in 1 .. i - 1 : observationScore(w[i]) < observationScore(w[j])

\* Mutant: the snapshot just added may be dropped too.
WindowAfterAny(w, snap) ==
  LET full == Append(w, snap)
  IN IF Len(full) > WindowSize
     THEN RemoveAt(full, CHOOSE i \in DOMAIN full :
            \A j \in DOMAIN full : observationScore(full[i]) <= observationScore(full[j]))
     ELSE full

WindowAfter(w, snap) ==
  LET full == Append(w, snap)
  IN IF Len(full) > WindowSize THEN RemoveAt(full, EvictIdx(full)) ELSE full

\* Mutant: off by one after the last verified tick.
PendingLate == {i \in DOMAIN window :
                  window[i].tick > verified + 1 /\ window[i].log.entries # <<>>}

\* The snapshots VerifyNextTick does not skip: it takes the first.
Pending == {i \in DOMAIN window :
              window[i].tick > verified /\ window[i].log.entries # <<>>}

---------------------------------------------------------------------------
\* An agent that imports a hostcall its host lacks is not instantiated.
Init ==
  /\ cfg \in Configs
  /\ Used \subseteq HostModule
  /\ pc = "idle"
  /\ mem = <<>>
  /\ tick = 0
  /\ log = NewEventLog
  /\ window = <<>>
  /\ cur = NoTick
  /\ interval = cfg.configured
  /\ since = 0
  /\ verified = 0
  /\ stored = [state |-> <<>>, tick |-> 0]
  /\ verdict = <<>>
  /\ missed = FALSE
  /\ pkg = NoPackage
  /\ odd = 0
  /\ starts = 0

loopVars == <<cfg, interval, since, verified, verdict>>
hostVars == <<stored, pkg, starts>>

\* An event of the environment that is not the ordinary course.
Odd(what) ==
  /\ what \in Oddities
  /\ odd < MaxOdd
  /\ odd' = odd + 1

(* A tick of the instance.                                                 *)

\* captureState, the tick counter and BeginTick.
TickBegin ==
  /\ pc = "idle"
  /\ tick < MaxTick
  /\ pc' = "ticking"
  /\ cur' = [NoTick EXCEPT !.pre = mem]
  /\ tick' = tick + 1
  /\ log' = BeginTick(log, tick + 1)
  /\ UNCHANGED <<mem, window, missed, odd, loopVars, hostVars>>

\* What the hostcalls raws leave in the event log, in their order, and what
\* they cost.
Noted(l, raws) ==
  LET after[i \in 0..Len(raws)] ==
        IF i = 0 THEN [log |-> l, cost |-> 0]
        ELSE LET live == raws[i].live
             IN [log  |-> IF live.entries = <<>> THEN after[i - 1].log
                          ELSE Record(after[i - 1].log, live.entries[1]),
                 cost |-> after[i - 1].cost + live.cost]
  IN after[Len(raws)]

\* The agent makes the hostcalls raws; what each yields is recorded.
Made(raws) ==
  /\ pc = "ticking"
  /\ Len(cur.calls) < MaxCalls
  /\ log' = Noted(log, raws).log
  /\ cur' = [cur EXCEPT
       !.calls = @ \o [i \in DOMAIN raws |-> raws[i].call],
       !.charged = @ + Noted(log, raws).cost,
       !.receipts = @ + IF Last(raws).call.kind = "pay"
                           /\ Last(raws).call.reply.code = "ok" THEN 1 ELSE 0]
  /\ UNCHANGED <<pc, mem, tick, window, missed, loopVars, hostVars>>

\* A call that needs no buffer to be sized and is not refused.
Observe(k) ==
  /\ k \in Used \ {"http", "pay"}
  /\ cfg.host # "det"
  /\ \E v \in Values :
       Made(<<Raw(k, TRUE, CASE k = "clock" -> clock_now(v)
                             [] k = "rand"  -> rand_bytes("ok", v)
                             [] k = "log"   -> log_emit("ok")
                             [] k = "price" -> node_price(v)
                             [] OTHER       -> wallet(k, "ok", v))>>)
  /\ UNCHANGED odd

\* The same call in the deterministic simulator.
ObserveSim(k) ==
  /\ k \in Used \ {"http", "pay"}
  /\ cfg.host = "det"
  /\ \E v \in Values : Made(<<Raw(k, TRUE, deterministicHostcall(k, v))>>)
  /\ UNCHANGED odd

\* A call that the host turns down.
Refused(k) ==
  /\ k \in Used \cap {"rand", "log", "receipt"}
  /\ cfg.host # "det"
  /\ \/ Odd("refused") /\ Made(<<Raw(k, TRUE,
           CASE k = "rand" -> rand_bytes("refused", None)
             [] k = "log"  -> log_emit("refused")
             [] OTHER      -> wallet(k, "refused", None))>>)
     \/ k = "receipt" /\ Odd("small")
        /\ Made(<<Raw(k, FALSE, wallet(k, "small", None))>>)

\* The agent pays through the SDK.
Pay ==
  /\ "pay" \in Used
  /\ \E v \in Values :
       \/ Made(WalletPay(TRUE, TRUE, TRUE, v)) /\ UNCHANGED odd
       \/ Odd("refused") /\ \E permitted \in BOOLEAN :
            Made(WalletPay(permitted, TRUE, ~permitted, v))
       \/ Odd("small") /\ Made(WalletPay(TRUE, FALSE, TRUE, v))

\* The agent makes an HTTP request through the SDK.
Request ==
  /\ "http" \in Used
  /\ \E v \in Values :
       \/ Made(HTTPRequest("ok", "ok", v)) /\ UNCHANGED odd
       \/ Odd("refused") /\ Made(HTTPRequest("refused", "ok", v))
       \/ Odd("small") /\ \E again \in {"ok", "refused"} :
            Made(HTTPRequest("small", again, v))

\* Something outside the saved state takes part in the tick.
UseHidden ==
  /\ pc = "ticking"
  /\ ~cur.hidden
  /\ Odd("hidden")
  /\ cur' = [cur EXCEPT !.hidden = TRUE]
  /\ UNCHANGED <<pc, mem, tick, log, window, missed, loopVars, hostVars>>

\* What Tick stores: pre-state, the hash of the post-state and the log.
Snapshot ==
  [tick |-> tick, pre |-> cur.pre,
   post |-> Run(cur.pre, Replies(cur.calls), cur.hidden),
   log |-> Sealed(log), calls |-> cur.calls, hidden |-> cur.hidden]

\* ghost: adding the snapshot drops one that had entries and was not verified.
Misses(w, snap) ==
  /\ Len(w) = WindowSize
  /\ LET s == Append(w, snap)[EvictIdx(Append(w, snap))]
     IN s.tick > verified /\ s.log.entries # <<>>

\* The tick returned; handleTick goes on to verification when it is due.
TickDone ==
  /\ pc = "ticking"
  /\ cfg.host = "lab"
  /\ mem' = Snapshot.post
  /\ log' = SealTick(log)
  /\ missed' = (missed \/ Misses(window, Snapshot))
  /\ window' = WindowAfter(window, Snapshot)
  /\ since' = since + 1
  /\ pc' = IF interval > 0 /\ since + 1 >= interval THEN "verify" ELSE "idle"
  /\ cur' = NoTick
  /\ UNCHANGED <<cfg, tick, interval, verified, verdict, odd, hostVars>>

\* trySaveCheckpoint: a failure is logged and nothing else.
TrySave(state) == stored' \in {stored, [state |-> state, tick |-> tick]}

\* The tick traps or times out half-way: the log is sealed, there is no
\* snapshot, and the loop ends after an attempt to save.
TickFails ==
  /\ pc = "ticking"
  /\ Odd("trap")
  /\ mem' = Run(cur.pre, Replies(cur.calls), TRUE)
  /\ log' = SealTick(log)
  /\ pc' = "stopped"
  /\ cur' = NoTick
  /\ IF cfg.host = "lab" THEN TrySave(mem') ELSE UNCHANGED stored
  /\ UNCHANGED <<tick, window, missed, pkg, starts, loopVars>>

\* The simulator checks every tick at once, from the states it captured.
SimTickDone ==
  /\ pc = "ticking"
  /\ cfg.host # "lab"
  /\ mem' = Snapshot.post
  /\ log' = SealTick(log)
  /\ verdict' = <<[snap |-> Snapshot, ok |-> Matches(Snapshot)]>>
  /\ pc' = "idle"
  /\ cur' = NoTick
  /\ UNCHANGED <<cfg, tick, window, missed, interval, since, verified, odd, hostVars>>

(* Verification in the tick loop.                                          *)

EscalationForPolicy(policy) ==
  IF policy \in {"pause", "intensify", "migrate"} THEN policy ELSE "log"

\* Mutant: without a migration function the loop goes on.
HandleDivergenceActionLax(action) ==
  IF action = "pause"
  THEN pc' = "stopped" /\ TrySave(mem) /\ UNCHANGED interval
  ELSE /\ pc' = "idle"
       /\ interval' = IF action = "intensify" THEN 1 ELSE interval
       /\ UNCHANGED stored

\* handleTick passes no migration function, so "migrate" pauses too.
HandleDivergenceAction(action) ==
  IF action \in {"pause", "migrate"}
  THEN pc' = "stopped" /\ TrySave(mem) /\ UNCHANGED interval
  ELSE /\ pc' = "idle"
       /\ interval' = IF action = "intensify" THEN 1 ELSE interval
       /\ UNCHANGED stored

VerifyNextTick ==
  /\ pc = "verify"
  /\ since' = 0
  /\ IF Pending = {}
     THEN /\ HandleDivergenceAction("none")
          /\ UNCHANGED <<verified, verdict>>
     ELSE LET snap == window[Min(Pending)]
              ok   == Matches(snap)
          IN /\ verified' = snap.tick
             /\ verdict' = <<[snap |-> snap, ok |-> ok]>>
             /\ HandleDivergenceAction(IF ok THEN "none"
                                       ELSE EscalationForPolicy(cfg.policy))
  /\ UNCHANGED <<cfg, mem, tick, log, window, cur, missed, pkg, odd, starts>>

(* Checkpoints and restarts of the lab node.                               *)

SaveCheckpoint ==
  /\ pc = "idle"
  /\ cfg.host = "lab"
  /\ stored' = [state |-> mem, tick |-> tick]
  /\ UNCHANGED <<pc, mem, tick, log, window, cur, missed, pkg, odd, starts, loopVars>>

\* The process ends, by a crash or because the loop stopped, and another
\* one resumes the agent from the stored checkpoint with an empty window.
Restart ==
  /\ cfg.host = "lab"
  /\ starts < MaxStarts
  /\ starts' = starts + 1
  /\ pc' = "idle"
  /\ mem' = stored.state
  /\ tick' = stored.tick
  /\ log' = NewEventLog
  /\ window' = <<>>
  /\ cur' = NoTick
  /\ interval' = cfg.configured
  /\ since' = 0
  /\ verified' = 0
  /\ verdict' = <<>>
  /\ missed' = FALSE
  /\ pkg' = NoPackage
  /\ UNCHANGED <<cfg, stored, odd>>

(* The evidence a migration carries. The package is put together by the    *)
(* migration service while the tick loop runs.                             *)

\* Mutant: no staleness guard.
replayDataUnguarded(state) == IF window = <<>> THEN <<>> ELSE <<Last(window)>>

\* The newest snapshot, when its hash is that of the checkpoint's state.
replayDataFromInstance(state) ==
  IF window # <<>> /\ Last(window).post = state THEN <<Last(window)>> ELSE <<>>

PackCheckpoint ==
  /\ cfg.host = "lab"
  /\ pkg.phase = "none"
  /\ pkg' = [phase |-> "loaded", state |-> stored.state, data |-> <<>>]
  /\ UNCHANGED <<pc, mem, tick, log, window, cur, missed, stored, odd, starts, loopVars>>

PackReplayData ==
  /\ pkg.phase = "loaded"
  /\ pkg' = [pkg EXCEPT !.phase = "sent", !.data = replayDataFromInstance(pkg.state)]
  /\ UNCHANGED <<pc, mem, tick, log, window, cur, missed, stored, odd, starts, loopVars>>

\* The target replays the last tick and compares with the checkpoint; a
\* package without replay data is taken on trust.
verifyMigrationReplay ==
  /\ pkg.phase = "sent"
  /\ pkg' = [pkg EXCEPT !.phase =
       IF pkg.data = <<>> THEN "trusted"
       ELSE LET d == pkg.data[1]
                r == ReplayTick(d.pre, d.log, d.calls)
            IN IF ~r.error /\ r.state = pkg.state THEN "accepted" ELSE "rejected"]
  /\ UNCHANGED <<pc, mem, tick, log, window, cur, missed, stored, odd, starts, loopVars>>

---------------------------------------------------------------------------
Next ==
  \/ TickBegin
  \/ \E k \in Kinds : Observe(k) \/ ObserveSim(k) \/ Refused(k)
  \/ Pay
  \/ Request
  \/ UseHidden
  \/ TickDone
  \/ TickFails
  \/ SimTickDone
  \/ VerifyNextTick
  \/ SaveCheckpoint
  \/ Restart
  \/ PackCheckpoint
  \/ PackReplayData
  \/ verifyMigrationReplay

Spec == Init /\ [][Next]_vars

---------------------------------------------------------------------------
(* Properties.                                                             *)

\* A tick log and its tick agree, counters stay in their ranges, and the
\* window never holds more than the configured number of snapshots.
TypeOK ==
  /\ pc \in {"idle", "ticking", "verify", "stopped"}
  /\ tick \in 0 .. MaxTick
  /\ (log.current # <<>>) <=> (pc = "ticking")
  /\ MaxTicks > 0 => Len(log.history) <= MaxTicks
  /\ Len(window) <= WindowSize
  /\ \A i \in DOMAIN window : window[i].log.tick = window[i].tick
  /\ interval \in {cfg.configured, 1}
  /\ verified \in 0 .. tick
  /\ pkg.phase \in {"none", "loaded", "sent", "accepted", "rejected", "trusted"}

\* The tick can be reproduced from what was recorded: it used nothing that
\* a checkpoint omits, each of its hostcalls left an entry and succeeded
\* (replay knows no other answer to an entry), and the sandbox has all its
\* hostcalls.
Reproducible(s) ==
  /\ ~s.hidden
  /\ Len(s.log.entries) = Len(s.calls)
  /\ \A i \in DOMAIN s.calls : s.calls[i].reply.code = "ok"
  /\ "http" \notin Used

\* VerifyNextTick, and the simulator in either mode, pass a tick exactly when
\* it can be reproduced: replay consumes the log the way the calls filled it,
\* through retries, refusals, evictions, traps and restarts. A receipt asked
\* of the deterministic simulator is an error with an entry, so such a tick
\* fails.
VerdictIsExact ==
  verdict # <<>> => (verdict[1].ok <=> Reproducible(verdict[1].snap))

\* A target refuses a package exactly when the tick it carries cannot be
\* reproduced; packing while the loop ticks and saves never pairs a
\* checkpoint with the log of another tick.
AdmissionIsExact ==
  /\ pkg.phase = "rejected" => ~Reproducible(pkg.data[1])
  /\ pkg.phase = "accepted" => Reproducible(pkg.data[1])

\* Ticks in the window are in order, and the newest snapshot is that of the
\* tick that led to the agent's present state: eviction never costs a
\* migration its evidence.
WindowIsRecent ==
  /\ \A i, j \in DOMAIN window : i < j => window[i].tick < window[j].tick
  /\ pc \in {"idle", "verify"} /\ window # <<>> =>
       Last(window).tick = tick /\ Last(window).post = mem

\* An agent configured to be verified after every tick is: no tick with
\* observations stays unverified, or leaves the window unverified.
KeepsUp ==
  cfg.configured = 1 =>
    /\ ~missed
    /\ pc = "idle" => \A i \in DOMAIN window :
                         window[i].log.entries # <<>> => window[i].tick <= verified

\* Replaying a stretch of the window in one instance accepts it exactly when
\* every tick of it can be reproduced and none is missing that changed the
\* state; it never contradicts the tick-by-tick verdicts.
ChainIsExact ==
  \A i \in DOMAIN window : \A j \in i .. Len(window) :
    ReplayChain(window[i].pre, SubSeq(window, i, j), window[j].post) <=>
      /\ \A k \in i .. j : Reproducible(window[k])
      /\ \A k \in i .. j - 1 : window[k].post = window[k + 1].pre

\* Through the SDK's retry, a payment is deducted once when the agent gets
\* its receipt and not at all otherwise.
ChargedOnce == cur.charged = cur.receipts

Flagged == verdict # <<>> /\ ~verdict[1].ok

\* With a policy that stops the agent, a tick found wrong is followed by no
\* other tick of this process.
FlaggedAgentStops ==
  [][Flagged /\ cfg.policy \in {"pause", "migrate"} /\ cfg.host = "lab"
       => tick' <= tick]_vars
===========================================================================
