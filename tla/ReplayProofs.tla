---------------------------- MODULE ReplayProofs ----------------------------
(***************************************************************************)
(* Proofs about module Replay and the hostcalls and event logs it is built *)
(* on, for any configurations, any agents, any number of calls and ticks,  *)
(* and any size of the replay window.                                      *)
(***************************************************************************)
EXTENDS Replay, ProofLemmas, TLAPS

-----------------------------------------------------------------------------
(* The inductive invariant.                                                *)

Reps == [code : {"ok", "refused", "small"}, val : Nat]
Calls == [kind : Kinds, fits : BOOLEAN, reply : Reps]
Entries == [kind : Kinds, val : Nat]
States == Seq([replies : Seq(Reps), hidden : BOOLEAN])
TickLogs == [tick : Nat, entries : Seq(Entries)]
Snaps == [tick : Nat, pre : States, post : States, log : TickLogs, calls : Seq(Calls),
          hidden : BOOLEAN]
Ticks == [pre : States, calls : Seq(Calls), hidden : BOOLEAN, charged : Nat, receipts : Nat]

\* The entry is that of the call, and holds what a call that succeeded gave.
Recorded(c, e) ==
  /\ c.kind = e.kind /\ c.fits
  /\ c.reply.code = "ok" => c.reply = Reply("ok", e.val)

\* What replay answers from the entries.
Answers(entries) == [i \in 1..Len(entries) |-> Reply("ok", entries[i].val)]

\* All the calls succeeded.
Succeeded(calls) == \A i \in DOMAIN calls : calls[i].reply.code = "ok"

\* The entries that an agent built with the hostcalls used has left by its
\* calls: one for each of them, or too few.
Faithful(calls, entries, used) ==
  /\ \A i \in DOMAIN calls : calls[i].kind \in used
  /\ \/ Len(entries) < Len(calls)
     \/ Len(entries) = Len(calls) /\ \A i \in DOMAIN calls : Recorded(calls[i], entries[i])

\* A snapshot of a tick that took place.
Good(s, used) ==
  /\ s \in Snaps /\ s.log.tick = s.tick /\ Faithful(s.calls, s.log.entries, used)
  /\ s.post = Run(s.pre, Replies(s.calls), s.hidden)

\* The agent came through state s on its way to state t.
Through(s, t) == Len(s) <= Len(t) /\ \A k \in 1..Len(s) : t[k] = s[k]

\* Reproducible, for an agent built with the hostcalls used.
Fine(s, used) ==
  ~s.hidden /\ Len(s.log.entries) = Len(s.calls) /\ Succeeded(s.calls) /\ "http" \notin used

Checked(s, last) == s.log.entries # << >> => s.tick <= last

TypeInv ==
  /\ cfg \in Configs /\ pc \in {"idle", "ticking", "verify", "stopped"} /\ mem \in States
  /\ tick \in 0..MaxTick /\ log \in [current : Seq(TickLogs), history : Seq(TickLogs)]
  /\ MaxTicks > 0 => Len(log.history) <= MaxTicks
  /\ window \in Seq(Snaps) /\ Len(window) <= WindowSize
  /\ cur \in Ticks /\ interval \in {cfg.configured, 1} /\ since \in Nat /\ verified \in 0..tick
  /\ stored \in [state : States, tick : 0..tick]

TickInv ==
  IF pc = "ticking"
  THEN /\ Len(log.current) = 1 /\ log.current[1].tick = tick /\ tick # 0 /\ cur.pre = mem
       /\ Faithful(cur.calls, log.current[1].entries, cfg.used)
  ELSE log.current = << >> /\ cur = NoTick

WindowInv ==
  /\ \A i \in DOMAIN window : Good(window[i], cfg.used) /\ Through(window[i].post, mem)
  /\ \A i, j \in DOMAIN window :
       i < j => window[i].tick < window[j].tick /\ Through(window[i].post, window[j].pre)
  /\ window # << >> /\ pc # "stopped" =>
       /\ window[Len(window)].tick = (IF pc = "ticking" THEN tick - 1 ELSE tick)
       /\ window[Len(window)].post = mem
  /\ cfg.host # "lab" => window = << >>

VerdictInv ==
  verdict # << >> =>
    /\ verdict[1].ok <=> Fine(verdict[1].snap, cfg.used)
    /\ cfg.host = "lab" /\ cfg.policy \in {"pause", "migrate"} /\ ~verdict[1].ok => pc = "stopped"

PackageInv ==
  /\ pkg \in [phase : {"none", "loaded", "sent", "accepted", "rejected", "trusted"},
              state : States, data : Seq(Snaps)]
  /\ pkg.data # << >> => Good(pkg.data[1], cfg.used) /\ pkg.data[1].post = pkg.state
  /\ pkg.phase \in {"accepted", "rejected"} =>
       (pkg.phase = "accepted" <=> Fine(pkg.data[1], cfg.used))

KeepsUpInv ==
  cfg.configured = 1 =>
    /\ missed = FALSE
    /\ pc \in {"idle", "ticking"} => \A i \in DOMAIN window : Checked(window[i], verified)
    /\ pc = "verify" => \A i \in 1..(Len(window) - 1) : Checked(window[i], verified)

Inv ==
  /\ TypeInv /\ TickInv /\ WindowInv /\ VerdictInv /\ PackageInv /\ KeepsUpInv
  /\ cur.charged = cur.receipts

-----------------------------------------------------------------------------
(* Replaying the calls of a tick.                                          *)

Its(entries) == [entries : {entries}, pos : 0..Len(entries), err : BOOLEAN]

\* The two copies of the replaying hostcalls do the same.
LEMMA SameServe ==
  ASSUME NEW it, NEW c
  PROVE  ChainHostcall(it, c) = ReplayHostcall(it, c)
BY DEF ChainHostcall, ReplayHostcall, ReplayClock, ReplayRand, ReplayLog, ReplayPricing,
       ReplayWallet, ReplayPayment, ChainPricing, ChainWallet, ChainPayment

LEMMA ConsumeFacts ==
  ASSUME NEW entries \in Seq(Entries), NEW it \in Its(entries), NEW k \in Kinds
  PROVE  LET r == Consume(it, k)
         IN /\ r.it \in Its(entries) /\ r.reply \in Reps
            /\ ~r.it.err => ~it.err /\ r.it.pos = it.pos + 1
            /\ Expected(it, k) => /\ r.it = [it EXCEPT !.pos = @ + 1]
                                  /\ r.reply = Reply("ok", entries[it.pos + 1].val)
<1>1. CASE Expected(it, k)
  <2>1. it.entries = entries /\ it.pos \in 0..Len(entries) /\ it.pos + 1 \in 0..Len(entries)
    BY <1>1 DEF Its, Expected
  <2>2. entries[it.pos + 1].val \in Nat
    <3>1. it.pos + 1 \in 1..Len(entries)
      BY <2>1
    <3>2. entries[it.pos + 1] \in Entries
      BY <3>1
    <3> QED
      BY <3>2 DEF Entries
  <2> DEFINE r == Consume(it, k)
  <2>3. r = Advanced(it, Reply("ok", entries[it.pos + 1].val))
    BY <1>1, <2>1 DEF Consume
  <2>4. r.it = [it EXCEPT !.pos = it.pos + 1] /\ r.reply = Reply("ok", entries[it.pos + 1].val)
    BY <2>3 DEF Advanced
  <2>5. r.reply \in Reps
    BY <2>2, <2>4 DEF Reps, Reply
  <2> HIDE DEF r
  <2>6. r.it \in Its(entries) /\ r.it.err = it.err /\ r.it.pos = it.pos + 1
    BY <2>1, <2>4 DEF Its
  <2> QED
    BY <2>4, <2>5, <2>6 DEF r
<1>2. CASE ~Expected(it, k)
  <2> DEFINE r == Consume(it, k)
  <2>1. r.it = [it EXCEPT !.err = TRUE] /\ r.reply = Reply("refused", 0)
    BY <1>2 DEF Consume, Failed, None
  <2>2. r.reply \in Reps
    BY <2>1 DEF Reps, Reply
  <2> HIDE DEF r
  <2>3. r.it \in Its(entries) /\ r.it.err
    BY <2>1 DEF Its
  <2> QED
    BY <1>2, <2>2, <2>3 DEF r
<1> QED
  BY <1>1, <1>2

\* A hostcall of the sandbox consumes one entry or leaves an error; it answers
\* a call that was recorded with what the entry holds.
LEMMA ServeFacts ==
  ASSUME NEW entries \in Seq(Entries), NEW it \in Its(entries), NEW c \in Calls
  PROVE  LET r == ReplayHostcall(it, c)
         IN /\ r.it \in Its(entries) /\ r.reply \in Reps
            /\ ~r.it.err => ~it.err /\ r.it.pos = it.pos + 1
            /\ it.pos < Len(entries) /\ Recorded(c, entries[it.pos + 1]) =>
                 r.it = [it EXCEPT !.pos = @ + 1] /\ r.reply = Reply("ok", entries[it.pos + 1].val)
<1> DEFINE r == ReplayHostcall(it, c)
<1>1. c.kind \in Kinds /\ c.fits \in BOOLEAN
  BY DEF Calls
<1>2. \/ r = Consume(it, c.kind)
      \/ ~c.fits /\ r = [Advanced(it, Reply("small", None)) EXCEPT !.it.err = TRUE]
         /\ Expected(it, c.kind)
      \/ ~c.fits /\ r = Advanced(it, Reply("small", None)) /\ Expected(it, c.kind)
  BY <1>1 DEF ReplayHostcall, ReplayClock, ReplayRand, ReplayLog, ReplayPricing, ReplayWallet,
              ReplayPayment
<1> HIDE DEF r
<1>3. CASE r = Consume(it, c.kind)
  <2>1. /\ r.it \in Its(entries) /\ r.reply \in Reps
        /\ ~r.it.err => ~it.err /\ r.it.pos = it.pos + 1
        /\ Expected(it, c.kind) => /\ r.it = [it EXCEPT !.pos = it.pos + 1]
                                   /\ r.reply = Reply("ok", entries[it.pos + 1].val)
    BY <1>1, <1>3, ConsumeFacts
  <2>2. it.entries = entries
    BY DEF Its
  <2>3. ASSUME it.pos < Len(entries), Recorded(c, entries[it.pos + 1])
        PROVE  /\ r.it = [it EXCEPT !.pos = it.pos + 1]
               /\ r.reply = Reply("ok", entries[it.pos + 1].val)
    BY <2>1, <2>2, <2>3 DEF Expected, Recorded
  <2> QED
    BY <2>1, <2>3 DEF r
<1>4. CASE /\ ~c.fits /\ Expected(it, c.kind)
           /\ \/ r = [Advanced(it, Reply("small", None)) EXCEPT !.it.err = TRUE]
              \/ r = Advanced(it, Reply("small", None))
  <2>1. it.entries = entries /\ it.pos \in 0..Len(entries) /\ it.pos + 1 \in 0..Len(entries)
    BY <1>4 DEF Its, Expected
  <2>2. /\ r.reply = Reply("small", 0)
        /\ r.it = [it EXCEPT !.pos = it.pos + 1] \/ r.it = [it EXCEPT !.pos = it.pos + 1, !.err = TRUE]
    <3>1. CASE r = Advanced(it, Reply("small", None))
      BY <3>1 DEF Advanced, None
    <3>2. CASE r = [Advanced(it, Reply("small", None)) EXCEPT !.it.err = TRUE]
      <4> DEFINE n == [it EXCEPT !.pos = it.pos + 1]
      <4>1. Advanced(it, Reply("small", None)) = [it |-> n, reply |-> Reply("small", None)]
        BY DEF Advanced
      <4>2. [n EXCEPT !.err = TRUE] = [it EXCEPT !.pos = it.pos + 1, !.err = TRUE]
        BY DEF Its
      <4> HIDE DEF n
      <4> DEFINE a == [it |-> n, reply |-> Reply("small", None)]
      <4>3. r = [a EXCEPT !.it = [a.it EXCEPT !.err = TRUE]] /\ a.it = n
        BY <3>2, <4>1
      <4>4. r.it = [n EXCEPT !.err = TRUE] /\ r.reply = Reply("small", None)
        BY <4>3
      <4> QED
        BY <4>2, <4>4 DEF None
    <3> QED
      BY <1>4, <3>1, <3>2
  <2>3. r.reply \in Reps
    BY <2>2 DEF Reps, Reply
  <2>4. r.it \in Its(entries) /\ (~r.it.err => ~it.err /\ r.it.pos = it.pos + 1)
    BY <2>1, <2>2 DEF Its
  <2>5. ~Recorded(c, entries[it.pos + 1])
    BY <1>4 DEF Recorded
  <2> QED
    BY <2>3, <2>4, <2>5 DEF r
<1> QED
  BY <1>2, <1>3, <1>4

\* One call of the walk.
Step(s, c) ==
  LET r == ReplayHostcall(s.it, c) IN [it |-> r.it, replies |-> Append(s.replies, r.reply)]

\* f holds what the walk has reached after each of the first n calls.
IsWalk(f, it, calls, n) ==
  f = [i \in 0..n |-> IF i = 0 THEN [it |-> it, replies |-> << >>] ELSE Step(f[i - 1], calls[i])]

\* There is such a function, by induction on n: one for a least n without it
\* would have a predecessor that extends to n.
LEMMA WalkExists ==
  ASSUME NEW it, NEW calls, NEW k \in Nat
  PROVE  \E f : IsWalk(f, it, calls, k)
<1> DEFINE Bad == {n \in Nat : ~\E f : IsWalk(f, it, calls, n)}
           base == [it |-> it, replies |-> << >>]
<1> SUFFICES ASSUME Bad # {} PROVE FALSE
  OBVIOUS
<1>1. PICK n \in Bad : \A m \in Bad : n <= m
  <2>1. Bad \in SUBSET Nat
    OBVIOUS
  <2> HIDE DEF Bad
  <2> QED
    BY <2>1, LeastNat
<1>2. IsWalk([i \in 0..0 |-> base], it, calls, 0)
  BY DEF IsWalk
<1>3. n \in Nat /\ n # 0 /\ n - 1 \in Nat /\ n - 1 \notin Bad
  <2>1. n \in Nat /\ n # 0
    BY <1>1, <1>2
  <2>2. n - 1 \in Nat /\ ~(n <= n - 1)
    BY <2>1
  <2> QED
    BY <1>1, <2>1, <2>2
<1>4. PICK f : IsWalk(f, it, calls, n - 1)
  BY <1>3
<1> DEFINE g == [i \in 0..n |-> IF i = n THEN Step(f[n - 1], calls[n]) ELSE f[i]]
<1>5. ASSUME NEW i \in 0..n
      PROVE  g[i] = IF i = 0 THEN base ELSE Step(g[i - 1], calls[i])
  <2>1. CASE i = n
    <3>1. i # 0 /\ i - 1 \in 0..n /\ i - 1 # n
      BY <1>3, <2>1
    <3>2. g[i - 1] = f[n - 1] /\ g[i] = Step(f[n - 1], calls[n])
      BY <2>1, <3>1
    <3> HIDE DEF g
    <3> QED
      BY <2>1, <3>1, <3>2
  <2>2. CASE i # n
    <3>1. i \in 0..(n - 1) /\ g[i] = f[i]
      BY <1>3, <2>2
    <3>2. f[i] = IF i = 0 THEN base ELSE Step(f[i - 1], calls[i])
      BY <1>4, <3>1 DEF IsWalk
    <3>3. i # 0 => g[i - 1] = f[i - 1]
      BY <1>3, <3>1
    <3> HIDE DEF g
    <3> QED
      BY <3>1, <3>2, <3>3
  <2> QED
    BY <2>1, <2>2
<1>6. IsWalk(g, it, calls, n)
  BY <1>5 DEF IsWalk
<1> QED
  BY <1>1, <1>6

\* What Walk computes, for both copies of the hostcalls.
LEMMA WalkIs ==
  ASSUME NEW it, NEW calls, Len(calls) \in Nat
  PROVE  /\ \E f : IsWalk(f, it, calls, Len(calls))
                   /\ Walk(ReplayHostcall, it, calls) = f[Len(calls)]
         /\ \E f : IsWalk(f, it, calls, Len(calls))
                   /\ Walk(ChainHostcall, it, calls) = f[Len(calls)]
<1> DEFINE n == Len(calls)
           base == [it |-> it, replies |-> << >>]
           R(h) == h = [i \in 0..n |-> IF i = 0 THEN base
                          ELSE LET r == ReplayHostcall(h[i - 1].it, calls[i])
                               IN [it |-> r.it, replies |-> Append(h[i - 1].replies, r.reply)]]
           C(h) == h = [i \in 0..n |-> IF i = 0 THEN base
                          ELSE LET r == ChainHostcall(h[i - 1].it, calls[i])
                               IN [it |-> r.it, replies |-> Append(h[i - 1].replies, r.reply)]]
<1>1. PICK f : IsWalk(f, it, calls, n)
  BY WalkExists
<1>2. \A h : R(h) <=> IsWalk(h, it, calls, n)
  BY DEF IsWalk, Step
<1>3. \A h : C(h) <=> IsWalk(h, it, calls, n)
  BY SameServe DEF IsWalk, Step
<1>4. Walk(ReplayHostcall, it, calls) = (CHOOSE h : R(h))[n]
  BY DEF Walk
<1>5. Walk(ChainHostcall, it, calls) = (CHOOSE h : C(h))[n]
  BY DEF Walk
<1> HIDE DEF R, C, n
<1>6. R(CHOOSE h : R(h)) /\ C(CHOOSE h : C(h))
  BY <1>1, <1>2, <1>3
<1>7. IsWalk(CHOOSE h : R(h), it, calls, n) /\ IsWalk(CHOOSE h : C(h), it, calls, n)
  BY <1>2, <1>3, <1>6
<1> QED
  BY <1>4, <1>5, <1>7 DEF n

\* What a walk through faithful entries ends in: it consumes them all and
\* answers what they hold, or, where a call was not recorded, in an error.
LEMMA WalkEnds ==
  ASSUME NEW calls \in Seq(Calls), NEW entries \in Seq(Entries), NEW used,
         Faithful(calls, entries, used), NEW f, IsWalk(f, Iterator(entries), calls, Len(calls))
  PROVE  LET w == f[Len(calls)]
         IN /\ w.it \in Its(entries)
            /\ Len(entries) < Len(calls) => w.it.err
            /\ Len(entries) = Len(calls) =>
                 ~w.it.err /\ Remaining(w.it) = 0 /\ w.replies = Answers(entries)
<1> DEFINE n == Len(calls)
           OK(i) == /\ f[i].it \in Its(entries) /\ f[i].replies \in Seq(Reps)
                    /\ ~f[i].it.err => f[i].it.pos = i
                    /\ Len(entries) = n =>
                         /\ ~f[i].it.err /\ Len(f[i].replies) = i
                         /\ \A k \in 1..i : f[i].replies[k] = Reply("ok", entries[k].val)
           Bad == {i \in 0..n : ~OK(i)}
<1>1. n \in Nat /\ Len(entries) \in Nat
  OBVIOUS
<1>2. f[0] = [it |-> Iterator(entries), replies |-> << >>]
  BY <1>1 DEF IsWalk
<1>3. OK(0)
  <2>1. f[0].it = Iterator(entries) /\ f[0].replies = << >>
    BY <1>2
  <2>2. Iterator(entries) \in Its(entries) /\ Iterator(entries).pos = 0 /\ ~Iterator(entries).err
    BY <1>1 DEF Iterator, Its
  <2> QED
    BY <2>1, <2>2
<1>4. ASSUME NEW i \in 1..n, OK(i - 1) PROVE OK(i)
  <2> DEFINE s == f[i - 1]
             r == ReplayHostcall(s.it, calls[i])
  <2>1. f[i] = Step(s, calls[i])
    <3>1. i \in 0..n /\ i # 0
      BY <1>1
    <3> QED
      BY <3>1 DEF IsWalk
  <2>2. f[i].it = r.it /\ f[i].replies = Append(s.replies, r.reply)
    BY <2>1 DEF Step
  <2>3. s.it \in Its(entries) /\ s.replies \in Seq(Reps) /\ calls[i] \in Calls
    BY <1>4
  <2>4. /\ r.it \in Its(entries) /\ r.reply \in Reps
        /\ ~r.it.err => ~s.it.err /\ r.it.pos = s.it.pos + 1
        /\ s.it.pos < Len(entries) /\ Recorded(calls[i], entries[s.it.pos + 1]) =>
             r.it = [s.it EXCEPT !.pos = @ + 1] /\ r.reply = Reply("ok", entries[s.it.pos + 1].val)
    <3> DEFINE it == s.it
               c == calls[i]
    <3>1. it \in Its(entries) /\ c \in Calls
      BY <2>3
    <3> HIDE DEF it, c
    <3>2. LET q == ReplayHostcall(it, c)
          IN /\ q.it \in Its(entries) /\ q.reply \in Reps
             /\ ~q.it.err => ~it.err /\ q.it.pos = it.pos + 1
             /\ it.pos < Len(entries) /\ Recorded(c, entries[it.pos + 1]) =>
                  q.it = [it EXCEPT !.pos = @ + 1] /\ q.reply = Reply("ok", entries[it.pos + 1].val)
      BY <3>1, ServeFacts
    <3> QED
      BY <3>2 DEF it, c
  <2> HIDE DEF r
  <2>5. ~s.it.err => s.it.pos = i - 1
    BY <1>4
  <2>6. f[i].it \in Its(entries) /\ f[i].replies \in Seq(Reps)
    BY <2>2, <2>3, <2>4
  <2>7. ~f[i].it.err => f[i].it.pos = i
    BY <1>1, <2>2, <2>4, <2>5
  <2>8. ASSUME Len(entries) = n
        PROVE  /\ ~f[i].it.err /\ Len(f[i].replies) = i
               /\ \A k \in 1..i : f[i].replies[k] = Reply("ok", entries[k].val)
    <3>1. /\ ~s.it.err /\ Len(s.replies) = i - 1
          /\ \A k \in 1..(i - 1) : s.replies[k] = Reply("ok", entries[k].val)
      BY <1>4, <2>8
    <3>2. s.it.pos = i - 1 /\ s.it.pos < Len(entries) /\ s.it.pos + 1 = i
      BY <1>1, <2>5, <2>8, <3>1
    <3>3. Recorded(calls[i], entries[i])
      BY <1>1, <2>8 DEF Faithful
    <3>4. r.it = [s.it EXCEPT !.pos = i] /\ r.reply = Reply("ok", entries[i].val)
      BY <2>4, <3>2, <3>3
    <3>5. ~r.it.err
      BY <2>3, <3>1, <3>4 DEF Its
    <3> DEFINE q == s.replies
               t == f[i].replies
    <3>6. t = Append(q, Reply("ok", entries[i].val)) /\ q \in Seq(Reps) /\ Len(q) = i - 1 /\ r.reply \in Reps
      BY <2>2, <2>3, <2>4, <3>1, <3>4
    <3>7. \A k \in 1..(i - 1) : q[k] = Reply("ok", entries[k].val)
      BY <3>1
    <3> HIDE DEF q, t
    <3>8. Len(t) = i /\ t[i] = Reply("ok", entries[i].val) /\ \A k \in 1..(i - 1) : t[k] = q[k]
      BY <3>6
    <3>9. \A k \in 1..i : t[k] = Reply("ok", entries[k].val)
      BY <3>7, <3>8
    <3> QED
      BY <2>2, <3>5, <3>8, <3>9 DEF t
  <2> QED
    BY <2>6, <2>7, <2>8
<1> HIDE DEF OK
<1>5. \A i \in 0..n : OK(i)
  <2> SUFFICES ASSUME Bad # {} PROVE FALSE
    OBVIOUS
  <2>1. PICK i \in Bad : \A j \in Bad : i <= j
    <3>1. Bad \in SUBSET Nat
      BY <1>1
    <3> HIDE DEF Bad
    <3> QED
      BY <3>1, LeastNat
  <2>2. i \in 1..n /\ i - 1 \in 0..n /\ i - 1 \notin Bad
    BY <1>1, <1>3, <2>1
  <2> QED
    BY <1>4, <2>1, <2>2
<1>6. OK(n)
  BY <1>1, <1>5
<1> DEFINE w == f[n]
<1>7. /\ w.it \in Its(entries) /\ w.replies \in Seq(Reps) /\ (~w.it.err => w.it.pos = n)
      /\ Len(entries) = n => /\ ~w.it.err /\ Len(w.replies) = n
                             /\ \A k \in 1..n : w.replies[k] = Reply("ok", entries[k].val)
  BY <1>6 DEF OK
<1> HIDE DEF w
<1>8. Len(entries) < n => w.it.err
  <2> SUFFICES ASSUME Len(entries) < n, ~w.it.err PROVE FALSE
    BY <1>7 DEF Its
  <2>1. w.it.pos = n /\ w.it.pos \in 0..Len(entries)
    BY <1>7 DEF Its
  <2> QED
    BY <1>1, <2>1
<1>9. ASSUME Len(entries) = n
      PROVE  ~w.it.err /\ Remaining(w.it) = 0 /\ w.replies = Answers(entries)
  <2>1. w.it.entries = entries /\ w.it.pos = n
    BY <1>7, <1>9 DEF Its
  <2>2. Remaining(w.it) = 0
    BY <1>1, <1>9, <2>1 DEF Remaining
  <2>3. w.replies = Answers(entries)
    <3>1. DOMAIN w.replies = 1..n /\ w.replies = [k \in 1..n |-> w.replies[k]]
      BY <1>7, <1>9
    <3> QED
      BY <1>7, <1>9, <3>1 DEF Answers
  <2> QED
    BY <1>7, <1>9, <2>2, <2>3
<1> QED
  BY <1>7, <1>8, <1>9 DEF w, n

-----------------------------------------------------------------------------
(* Verdicts.                                                               *)

LEMMA ConfigType ==
  ASSUME cfg \in Configs
  PROVE  /\ cfg.used \in SUBSET Kinds /\ cfg.host \in {"lab", "sim", "det"} /\ cfg.configured \in Nat
         /\ cfg.policy \in {"log", "pause", "intensify", "migrate"}
BY ReplayAssumption

\* Both sandboxes have every hostcall of the agent, unless it uses http.
LEMMA Sandboxes ==
  ASSUME cfg \in Configs
  PROVE  /\ Used \subseteq ReplayModule(Caps) <=> "http" \notin cfg.used
         /\ Used \subseteq ChainModule(Caps) <=> "http" \notin cfg.used
<1>1. cfg.used \in SUBSET Kinds
  BY ConfigType
<1>2. \A k \in Kinds : Capability(k) = "http" <=> k = "http"
  BY DEF Kinds, Capability
<1> QED
  BY <1>1, <1>2 DEF ReplayModule, ChainModule, Caps, Used

LEMMA RunFacts ==
  ASSUME NEW pre \in States, NEW replies \in Seq(Reps), NEW hidden \in BOOLEAN
  PROVE  Run(pre, replies, hidden) \in States /\ Through(pre, Run(pre, replies, hidden))
<1> DEFINE a(h) == [replies |-> replies, hidden |-> h]
           El == [replies : Seq(Reps), hidden : BOOLEAN]
<1>1. a(hidden) \in El
  OBVIOUS
<1>2. Run(pre, replies, hidden) \in {pre, Append(pre, a(hidden))}
  BY DEF Run
<1>3. pre \in Seq(El) /\ States = Seq(El)
  BY DEF States
<1> HIDE DEF a, El
<1>4. ASSUME NEW x \in El
      PROVE  /\ Append(pre, x) \in Seq(El) /\ Len(Append(pre, x)) = Len(pre) + 1
             /\ Append(pre, x)[Len(pre) + 1] = x /\ \A k \in 1..Len(pre) : Append(pre, x)[k] = pre[k]
  BY <1>3
<1>5. Len(pre) \in Nat
  BY <1>3
<1>6. Run(pre, replies, hidden) \in States /\ Through(pre, Run(pre, replies, hidden))
  <2>1. CASE Run(pre, replies, hidden) = pre
    BY <1>3, <1>5, <2>1 DEF Through
  <2>2. CASE Run(pre, replies, hidden) = Append(pre, a(hidden))
    <3> DEFINE t == Append(pre, a(hidden))
    <3>1. t \in Seq(El) /\ Len(t) = Len(pre) + 1 /\ \A k \in 1..Len(pre) : t[k] = pre[k]
      BY <1>1, <1>4
    <3> HIDE DEF t
    <3>2. Through(pre, t)
      BY <1>5, <3>1 DEF Through
    <3> QED
      BY <1>3, <2>2, <3>1, <3>2 DEF t
  <2> QED
    BY <1>2, <2>1, <2>2
<1> QED
  BY <1>6

\* A tick whose state is passed through by a replay with as many answers gave
\* the same answers and hid nothing.
LEMMA RunSame ==
  ASSUME NEW pre \in States, NEW q \in Seq(Reps), NEW r \in Seq(Reps), Len(q) = Len(r),
         NEW hidden \in BOOLEAN, Through(Run(pre, q, hidden), Run(pre, r, FALSE))
  PROVE  hidden = FALSE /\ q = r
<1> DEFINE x == [replies |-> q, hidden |-> hidden]
           y == [replies |-> r, hidden |-> FALSE]
           El == [replies : Seq(Reps), hidden : BOOLEAN]
           m == Len(pre)
<1>1. x \in El /\ y \in El /\ pre \in Seq(El) /\ m \in Nat
  BY DEF States
<1>2. x = y => hidden = FALSE /\ q = r
  <2>1. x.replies = q /\ x.hidden = hidden /\ y.replies = r /\ y.hidden = FALSE
    OBVIOUS
  <2> QED
    BY <2>1, Zenon
<1>3. (q = << >> <=> r = << >>) /\ (q = << >> => q = r)
  OBVIOUS
<1>4. /\ Run(pre, q, hidden) = IF q = << >> /\ ~hidden THEN pre ELSE Append(pre, x)
      /\ Run(pre, r, FALSE) = IF r = << >> THEN pre ELSE Append(pre, y)
  BY DEF Run
<1> HIDE DEF x, y, El
<1> DEFINE t == Append(pre, x)
           u == Append(pre, y)
<1>5. Len(t) = m + 1 /\ t[m + 1] = x /\ Len(u) = m + 1 /\ u[m + 1] = y
  BY <1>1
<1> HIDE DEF t, u, m
<1>6. ~Through(t, pre) /\ (Through(t, u) => x = y)
  <2>1. m + 1 \in 1..Len(t) /\ Len(pre) = m /\ m \in Nat
    BY <1>1, <1>5 DEF m
  <2> QED
    BY <1>5, <2>1 DEF Through
<1>7. CASE q = << >> /\ hidden = FALSE
  BY <1>3, <1>7
<1>8. CASE ~(q = << >> /\ hidden = FALSE)
  <2>1. Run(pre, q, hidden) = t
    BY <1>4, <1>8 DEF t
  <2>2. Run(pre, r, FALSE) = pre \/ Run(pre, r, FALSE) = u
    BY <1>4 DEF u
  <2> QED
    BY <1>2, <1>6, <2>1, <2>2
<1> QED
  BY <1>7, <1>8

LEMMA RepliesType ==
  ASSUME NEW calls \in Seq(Calls)
  PROVE  Replies(calls) \in Seq(Reps)
<1>1. ASSUME NEW i \in 1..Len(calls) PROVE calls[i].reply \in Reps
  <2>1. calls[i] \in Calls
    OBVIOUS
  <2> QED
    BY <2>1 DEF Calls
<1> QED
  BY <1>1 DEF Replies

\* Answers to the calls: those of the host exactly when all succeeded.
AnsweredAs(q, calls) ==
  q \in Seq(Reps) /\ Len(q) = Len(Replies(calls)) /\ (q = Replies(calls) <=> Succeeded(calls))

LEMMA AnswersFacts ==
  ASSUME NEW calls \in Seq(Calls), NEW entries \in Seq(Entries), NEW used,
         Faithful(calls, entries, used), Len(entries) = Len(calls)
  PROVE  AnsweredAs(Answers(entries), calls)
<1> DEFINE n == Len(calls)
<1>1. n \in Nat /\ DOMAIN calls = 1..n
  OBVIOUS
<1>2. ASSUME NEW i \in 1..n
      PROVE  /\ Reply("ok", entries[i].val) \in Reps
             /\ calls[i].reply = Reply("ok", entries[i].val) <=> calls[i].reply.code = "ok"
  <2>1. entries[i] \in Entries /\ Recorded(calls[i], entries[i])
    BY <1>1 DEF Faithful
  <2>2. entries[i].val \in Nat
    BY <2>1 DEF Entries
  <2>3. Reply("ok", entries[i].val) \in Reps /\ Reply("ok", entries[i].val).code = "ok"
    BY <2>2 DEF Reps, Reply
  <2> QED
    BY <2>1, <2>3 DEF Recorded
<1>3. Answers(entries) = [i \in 1..n |-> Reply("ok", entries[i].val)]
  BY DEF Answers
<1>4. Replies(calls) = [i \in 1..n |-> calls[i].reply]
  BY DEF Replies
<1>5. Answers(entries) \in Seq(Reps)
  BY <1>1, <1>2, <1>3
<1>6. Len(Answers(entries)) = n /\ Len(Replies(calls)) = n
  BY <1>1, <1>3, <1>4
<1>7. Answers(entries) = Replies(calls) <=> Succeeded(calls)
  <2>1. ASSUME Succeeded(calls) PROVE Answers(entries) = Replies(calls)
    BY <1>1, <1>2, <1>3, <1>4, <2>1 DEF Succeeded
  <2>2. ASSUME Answers(entries) = Replies(calls) PROVE Succeeded(calls)
    <3>1. ASSUME NEW i \in 1..n PROVE calls[i].reply.code = "ok"
      <4>1. Answers(entries)[i] = Reply("ok", entries[i].val) /\ Replies(calls)[i] = calls[i].reply
        BY <1>3, <1>4
      <4> QED
        BY <1>2, <2>2, <4>1
    <3> QED
      BY <1>1, <3>1 DEF Succeeded
  <2> QED
    BY <2>1, <2>2
<1> QED
  BY <1>5, <1>6, <1>7 DEF AnsweredAs

\* The outcome of replaying a snapshot, whatever copy of the hostcalls serves.
LEMMA ReplayOutcome ==
  ASSUME NEW s, NEW used, Good(s, used), NEW w,
         \E f : IsWalk(f, Iterator(s.log.entries), s.calls, Len(s.calls)) /\ w = f[Len(s.calls)]
  PROVE  /\ s.pre \in States /\ Replies(s.calls) \in Seq(Reps)
         /\ Len(s.log.entries) # Len(s.calls) => w.it.err
         /\ Len(s.log.entries) = Len(s.calls) =>
              ~w.it.err /\ Remaining(w.it) = 0 /\ AnsweredAs(w.replies, s.calls)
<1>1. /\ s.calls \in Seq(Calls) /\ s.log.entries \in Seq(Entries) /\ s.pre \in States
      /\ Faithful(s.calls, s.log.entries, used)
  BY DEF Good, Snaps, TickLogs
<1>2. PICK f : IsWalk(f, Iterator(s.log.entries), s.calls, Len(s.calls)) /\ w = f[Len(s.calls)]
  OBVIOUS
<1>3. /\ Len(s.log.entries) < Len(s.calls) => w.it.err
      /\ Len(s.log.entries) = Len(s.calls) =>
           ~w.it.err /\ Remaining(w.it) = 0 /\ w.replies = Answers(s.log.entries)
  BY <1>1, <1>2, WalkEnds
<1>4. Len(s.log.entries) # Len(s.calls) => Len(s.log.entries) < Len(s.calls)
  BY <1>1 DEF Faithful
<1>5. Len(s.log.entries) = Len(s.calls) => AnsweredAs(Answers(s.log.entries), s.calls)
  BY <1>1, AnswersFacts
<1> QED
  BY <1>1, <1>3, <1>4, <1>5, RepliesType

\* VerifyNextTick accepts a snapshot exactly when it can be reproduced.
LEMMA MatchesExact ==
  ASSUME cfg \in Configs, NEW s, Good(s, cfg.used)
  PROVE  LET r == ReplayTick(s.pre, s.log, s.calls)
         IN /\ (~r.error /\ r.state = s.post) <=> Fine(s, cfg.used)
            /\ Matches(s) <=> Fine(s, cfg.used)
<1> DEFINE w == Walk(ReplayHostcall, Iterator(s.log.entries), s.calls)
           r == ReplayTick(s.pre, s.log, s.calls)
<1>1. /\ s.calls \in Seq(Calls) /\ s.hidden \in BOOLEAN
      /\ s.post = Run(s.pre, Replies(s.calls), s.hidden)
  BY DEF Good, Snaps
<1>2. Len(s.calls) \in Nat
  BY <1>1
<1>3. /\ s.pre \in States /\ Replies(s.calls) \in Seq(Reps)
      /\ Len(s.log.entries) # Len(s.calls) => w.it.err
      /\ Len(s.log.entries) = Len(s.calls) =>
           ~w.it.err /\ Remaining(w.it) = 0 /\ AnsweredAs(w.replies, s.calls)
  <2>1. \E f : IsWalk(f, Iterator(s.log.entries), s.calls, Len(s.calls)) /\ w = f[Len(s.calls)]
    BY <1>2, WalkIs
  <2> HIDE DEF w
  <2> QED
    BY <2>1, ReplayOutcome
<1>4. /\ r.error <=> ~("http" \notin cfg.used) \/ w.it.err \/ Remaining(w.it) > 0
      /\ r.state = Run(s.pre, w.replies, FALSE)
  BY Sandboxes DEF ReplayTick
<1> HIDE DEF w, r
<1>5. ASSUME Len(s.log.entries) = Len(s.calls)
      PROVE  r.state = s.post <=> ~s.hidden /\ Succeeded(s.calls)
  <2> DEFINE q == w.replies
             p == Replies(s.calls)
  <2>1. /\ q \in Seq(Reps) /\ p \in Seq(Reps) /\ Len(p) = Len(q) /\ (q = p <=> Succeeded(s.calls))
        /\ r.state = Run(s.pre, q, FALSE) /\ s.post = Run(s.pre, p, s.hidden)
    BY <1>1, <1>3, <1>4, <1>5 DEF AnsweredAs
  <2> HIDE DEF q, p
  <2>2. ASSUME ~s.hidden, Succeeded(s.calls) PROVE r.state = s.post
    <3>1. s.hidden = FALSE
      BY <1>1, <2>2
    <3> QED
      BY <2>1, <2>2, <3>1
  <2>3. ASSUME r.state = s.post PROVE ~s.hidden /\ Succeeded(s.calls)
    <3>1. r.state \in States
      BY <1>3, <2>1, RunFacts
    <3>2. Through(r.state, r.state)
      BY <3>1 DEF Through, States
    <3>3. Through(Run(s.pre, p, s.hidden), Run(s.pre, q, FALSE))
      BY <2>1, <2>3, <3>2
    <3>4. s.hidden = FALSE /\ p = q
      BY <1>1, <1>3, <2>1, <3>3, RunSame
    <3> QED
      BY <2>1, <3>4
  <2> QED
    BY <2>2, <2>3
<1>6. (~r.error /\ r.state = s.post) <=> Fine(s, cfg.used)
  <2>1. CASE Len(s.log.entries) = Len(s.calls)
    <3>1. ~(Remaining(w.it) > 0)
      BY <1>3, <2>1
    <3> QED
      BY <1>3, <1>4, <1>5, <2>1, <3>1 DEF Fine
  <2>2. CASE Len(s.log.entries) # Len(s.calls)
    BY <1>3, <1>4, <2>2 DEF Fine
  <2> QED
    BY <2>1, <2>2
<1> QED
  BY <1>6 DEF r, Matches

-----------------------------------------------------------------------------
(* Replaying a stretch of ticks in one instance.                           *)

\* One tick of the chain.
ChainStep(s, snap) ==
  LET w == Walk(ChainHostcall, Iterator(snap.log.entries), snap.calls)
  IN [error |-> s.error \/ s.state # snap.pre \/ w.it.err \/ Remaining(w.it) > 0,
      state |-> Run(s.state, w.replies, FALSE)]

IsChain(f, initial, snaps, n) ==
  f = [i \in 0..n |-> IF i = 0 THEN [error |-> FALSE, state |-> initial]
                      ELSE ChainStep(f[i - 1], snaps[i])]

LEMMA ChainExists ==
  ASSUME NEW initial, NEW snaps, NEW k \in Nat
  PROVE  \E f : IsChain(f, initial, snaps, k)
<1> DEFINE Bad == {n \in Nat : ~\E f : IsChain(f, initial, snaps, n)}
           base == [error |-> FALSE, state |-> initial]
<1> SUFFICES ASSUME Bad # {} PROVE FALSE
  OBVIOUS
<1>1. PICK n \in Bad : \A m \in Bad : n <= m
  <2>1. Bad \in SUBSET Nat
    OBVIOUS
  <2> HIDE DEF Bad
  <2> QED
    BY <2>1, LeastNat
<1>2. IsChain([i \in 0..0 |-> base], initial, snaps, 0)
  BY DEF IsChain
<1>3. n \in Nat /\ n # 0 /\ n - 1 \in Nat /\ n - 1 \notin Bad
  <2>1. n \in Nat /\ n # 0
    BY <1>1, <1>2
  <2>2. n - 1 \in Nat /\ ~(n <= n - 1)
    BY <2>1
  <2> QED
    BY <1>1, <2>1, <2>2
<1>4. PICK f : IsChain(f, initial, snaps, n - 1)
  BY <1>3
<1> DEFINE g == [i \in 0..n |-> IF i = n THEN ChainStep(f[n - 1], snaps[n]) ELSE f[i]]
<1>5. ASSUME NEW i \in 0..n
      PROVE  g[i] = IF i = 0 THEN base ELSE ChainStep(g[i - 1], snaps[i])
  <2>1. CASE i = n
    <3>1. i # 0 /\ i - 1 \in 0..n /\ i - 1 # n
      BY <1>3, <2>1
    <3>2. g[i - 1] = f[n - 1] /\ g[i] = ChainStep(f[n - 1], snaps[n])
      BY <2>1, <3>1
    <3> HIDE DEF g
    <3> QED
      BY <2>1, <3>1, <3>2
  <2>2. CASE i # n
    <3>1. i \in 0..(n - 1) /\ g[i] = f[i]
      BY <1>3, <2>2
    <3>2. f[i] = IF i = 0 THEN base ELSE ChainStep(f[i - 1], snaps[i])
      BY <1>4, <3>1 DEF IsChain
    <3>3. i # 0 => g[i - 1] = f[i - 1]
      BY <1>3, <3>1
    <3> HIDE DEF g
    <3> QED
      BY <3>1, <3>2, <3>3
  <2> QED
    BY <2>1, <2>2
<1>6. IsChain(g, initial, snaps, n)
  BY <1>5 DEF IsChain
<1> QED
  BY <1>1, <1>6

LEMMA ChainIs ==
  ASSUME NEW initial, NEW snaps, NEW expected, Len(snaps) \in Nat
  PROVE  \E f : /\ IsChain(f, initial, snaps, Len(snaps))
                /\ ReplayChain(initial, snaps, expected) <=>
                     /\ Used \subseteq ChainModule(Caps) /\ snaps # << >>
                     /\ ~f[Len(snaps)].error /\ f[Len(snaps)].state = expected
<1> DEFINE n == Len(snaps)
           Rec(h) == h = [i \in 0..n |->
             IF i = 0 THEN [error |-> FALSE, state |-> initial]
             ELSE LET w == Walk(ChainHostcall, Iterator(snaps[i].log.entries), snaps[i].calls)
                  IN [error |-> \/ h[i - 1].error \/ h[i - 1].state # snaps[i].pre
                                \/ w.it.err \/ Remaining(w.it) > 0,
                      state |-> Run(h[i - 1].state, w.replies, FALSE)]]
           f == CHOOSE h : Rec(h)
<1>1. PICK g : IsChain(g, initial, snaps, n)
  BY ChainExists
<1>2. \A h : Rec(h) <=> IsChain(h, initial, snaps, n)
  BY ZenonT(40) DEF IsChain, ChainStep
<1>3. ReplayChain(initial, snaps, expected) <=>
        /\ Used \subseteq ChainModule(Caps) /\ snaps # << >>
        /\ ~f[n].error /\ f[n].state = expected
  BY DEF ReplayChain
<1> HIDE DEF Rec, n
<1>4. Rec(f)
  BY <1>1, <1>2
<1> HIDE DEF f
<1>5. IsChain(f, initial, snaps, n)
  BY <1>2, <1>4
<1> QED
  BY <1>3, <1>5 DEF n

\* One tick of the chain, from a state of the agent: it goes on without an
\* error exactly from the recorded state through a fully recorded tick, and
\* then to the state that tick would reach without anything hidden.
\* A state that replaying a snapshot ends in.
ReplayedFrom(state, s) ==
  \E q : AnsweredAs(q, s.calls) /\ state = Run(s.pre, q, FALSE)

LEMMA ChainStepFacts ==
  ASSUME NEW s, NEW used, Good(s, used), NEW c
  PROVE  LET d == ChainStep(c, s)
         IN /\ d.error <=> c.error \/ c.state # s.pre \/ Len(s.log.entries) # Len(s.calls)
            /\ ~d.error => ReplayedFrom(d.state, s)
<1> DEFINE w == Walk(ChainHostcall, Iterator(s.log.entries), s.calls)
           d == ChainStep(c, s)
<1>1. s.calls \in Seq(Calls) /\ Len(s.calls) \in Nat
  <2>1. s.calls \in Seq(Calls)
    BY DEF Good, Snaps
  <2> QED
    BY <2>1
<1>2. /\ Len(s.log.entries) # Len(s.calls) => w.it.err
      /\ Len(s.log.entries) = Len(s.calls) =>
           ~w.it.err /\ Remaining(w.it) = 0 /\ AnsweredAs(w.replies, s.calls)
  <2>1. \E f : IsWalk(f, Iterator(s.log.entries), s.calls, Len(s.calls)) /\ w = f[Len(s.calls)]
    BY <1>1, WalkIs
  <2> HIDE DEF w
  <2> QED
    BY <2>1, ReplayOutcome
<1>3. /\ d.error <=> c.error \/ c.state # s.pre \/ w.it.err \/ Remaining(w.it) > 0
      /\ d.state = Run(c.state, w.replies, FALSE)
  BY DEF ChainStep
<1> HIDE DEF w, d
<1>4. Len(s.log.entries) = Len(s.calls) => ~(Remaining(w.it) > 0)
  BY <1>2
<1>5. d.error <=> c.error \/ c.state # s.pre \/ Len(s.log.entries) # Len(s.calls)
  BY <1>2, <1>3, <1>4
<1>6. ~d.error => ReplayedFrom(d.state, s)
  BY <1>2, <1>3, <1>5 DEF ReplayedFrom
<1> QED
  BY <1>5, <1>6 DEF d

LEMMA ChainExact ==
  ASSUME cfg \in Configs, NEW snaps \in Seq(Snaps), NEW n \in Nat, n = Len(snaps), n # 0,
         \A k \in 1..n : Good(snaps[k], cfg.used),
         \A k, l \in 1..n : k < l => Through(snaps[k].post, snaps[l].pre)
  PROVE  ReplayChain(snaps[1].pre, snaps, snaps[n].post) <=>
           /\ \A k \in 1..n : Fine(snaps[k], cfg.used)
           /\ \A k \in 1..(n - 1) : snaps[k].post = snaps[k + 1].pre
<1>1. PICK f : /\ IsChain(f, snaps[1].pre, snaps, n)
               /\ ReplayChain(snaps[1].pre, snaps, snaps[n].post) <=>
                    /\ Used \subseteq ChainModule(Caps) /\ snaps # << >>
                    /\ ~f[n].error /\ f[n].state = snaps[n].post
  <2>1. Len(snaps) \in Nat
    OBVIOUS
  <2> DEFINE a == snaps[1].pre
             b == snaps[n].post
  <2> HIDE DEF a, b
  <2>2. \E f : /\ IsChain(f, a, snaps, Len(snaps))
               /\ ReplayChain(a, snaps, b) <=>
                    /\ Used \subseteq ChainModule(Caps) /\ snaps # << >>
                    /\ ~f[Len(snaps)].error /\ f[Len(snaps)].state = b
    BY <2>1, ChainIs
  <2> QED
    BY <2>2 DEF a, b
<1>2. Used \subseteq ChainModule(Caps) <=> "http" \notin cfg.used
  BY Sandboxes
<1>3. snaps # << >>
  OBVIOUS
<1>4. f[0] = [error |-> FALSE, state |-> snaps[1].pre]
  BY <1>1 DEF IsChain
<1>5. ASSUME NEW i \in 1..n
      PROVE  /\ f[i].error <=> \/ f[i - 1].error \/ f[i - 1].state # snaps[i].pre
                               \/ Len(snaps[i].log.entries) # Len(snaps[i].calls)
             /\ ~f[i].error => ReplayedFrom(f[i].state, snaps[i])
  <2>1. i \in 0..n /\ i # 0
    OBVIOUS
  <2>2. f[i] = ChainStep(f[i - 1], snaps[i])
    BY <1>1, <2>1 DEF IsChain
  <2> DEFINE s == snaps[i]
             c == f[i - 1]
  <2>3. Good(s, cfg.used)
    OBVIOUS
  <2> HIDE DEF s, c
  <2>4. LET d == ChainStep(c, s)
        IN /\ d.error <=> c.error \/ c.state # s.pre \/ Len(s.log.entries) # Len(s.calls)
           /\ ~d.error => ReplayedFrom(d.state, s)
    BY <2>3, ChainStepFacts
  <2> QED
    BY <2>2, <2>4 DEF s, c
<1>6. ASSUME NEW i \in 1..n
      PROVE  /\ snaps[i].pre \in States /\ Replies(snaps[i].calls) \in Seq(Reps)
             /\ snaps[i].hidden \in BOOLEAN
             /\ snaps[i].post = Run(snaps[i].pre, Replies(snaps[i].calls), snaps[i].hidden)
  <2>1. Good(snaps[i], cfg.used)
    OBVIOUS
  <2>2. /\ snaps[i].pre \in States /\ snaps[i].hidden \in BOOLEAN /\ snaps[i].calls \in Seq(Calls)
        /\ snaps[i].post = Run(snaps[i].pre, Replies(snaps[i].calls), snaps[i].hidden)
    BY <2>1 DEF Good, Snaps
  <2> QED
    BY <2>2, RepliesType
<1>7. ASSUME "http" \notin cfg.used, ~f[n].error, f[n].state = snaps[n].post
      PROVE  /\ \A k \in 1..n : Fine(snaps[k], cfg.used)
             /\ \A k \in 1..(n - 1) : snaps[k].post = snaps[k + 1].pre
  <2>1. \A i \in 0..n : ~f[n - i].error
    <3> DEFINE Bad == {i \in 0..n : f[n - i].error}
    <3> SUFFICES ASSUME Bad # {} PROVE FALSE
      OBVIOUS
    <3>1. PICK i \in Bad : \A j \in Bad : i <= j
      <4>1. Bad \in SUBSET Nat
        OBVIOUS
      <4> HIDE DEF Bad
      <4> QED
        BY <4>1, LeastNat
    <3>2. i # 0
      <4>1. n - 0 = n
        OBVIOUS
      <4> QED
        BY <1>7, <3>1, <4>1
    <3>3. i - 1 \in 0..n /\ ~(i <= i - 1)
      BY <3>1, <3>2
    <3>4. ~f[n - (i - 1)].error
      BY <3>1, <3>3
    <3>5. n - (i - 1) \in 1..n /\ (n - (i - 1)) - 1 = n - i
      BY <3>1, <3>2
    <3> QED
      BY <1>5, <3>1, <3>4, <3>5
  <2>2. ASSUME NEW i \in 0..n PROVE ~f[i].error
    <3>1. n - i \in 0..n /\ n - (n - i) = i
      OBVIOUS
    <3> QED
      BY <2>1, <3>1
  <2>3. ASSUME NEW i \in 1..n
        PROVE  /\ ReplayedFrom(f[i].state, snaps[i])
               /\ Len(snaps[i].log.entries) = Len(snaps[i].calls)
               /\ f[i - 1].state = snaps[i].pre
    <3>1. i \in 0..n /\ ~f[i].error
      BY <2>2
    <3> QED
      BY <1>5, <3>1
  <2>4. ASSUME NEW i \in 1..n PROVE Through(snaps[i].post, f[i].state)
    <3>1. CASE i = n
      <4>1. Good(snaps[i], cfg.used)
        OBVIOUS
      <4>2. snaps[i].post \in States
        BY <4>1 DEF Good, Snaps
      <4> QED
        BY <1>7, <3>1, <4>2 DEF Through, States
    <3>2. CASE i # n
      <4>1. i + 1 \in 1..n /\ i < i + 1 /\ (i + 1) - 1 = i
        BY <3>2
      <4>2. f[i].state = snaps[i + 1].pre
        BY <2>3, <4>1
      <4> QED
        BY <4>1, <4>2
    <3> QED
      BY <3>1, <3>2
  <2>5. ASSUME NEW i \in 1..n
        PROVE  /\ snaps[i].hidden = FALSE /\ Succeeded(snaps[i].calls)
               /\ f[i].state = snaps[i].post
    <3> DEFINE pre == snaps[i].pre
               p == Replies(snaps[i].calls)
    <3>1. PICK q : AnsweredAs(q, snaps[i].calls) /\ f[i].state = Run(pre, q, FALSE)
      BY <2>3 DEF ReplayedFrom
    <3>2. /\ snaps[i].post = Run(pre, p, snaps[i].hidden) /\ pre \in States /\ p \in Seq(Reps)
          /\ snaps[i].hidden \in BOOLEAN
      BY <1>6
    <3>3. q \in Seq(Reps) /\ Len(p) = Len(q) /\ (q = p <=> Succeeded(snaps[i].calls))
      BY <3>1 DEF AnsweredAs
    <3>4. Through(Run(pre, p, snaps[i].hidden), Run(pre, q, FALSE))
      BY <2>4, <3>1, <3>2
    <3> HIDE DEF pre, p
    <3>5. snaps[i].hidden = FALSE /\ p = q
      BY <3>2, <3>3, <3>4, RunSame
    <3> QED
      BY <3>1, <3>2, <3>3, <3>5
  <2>6. ASSUME NEW k \in 1..n PROVE Fine(snaps[k], cfg.used)
    BY <1>7, <2>3, <2>5 DEF Fine
  <2>7. ASSUME NEW k \in 1..(n - 1) PROVE snaps[k].post = snaps[k + 1].pre
    <3>1. k \in 1..n /\ k + 1 \in 1..n /\ (k + 1) - 1 = k
      OBVIOUS
    <3>2. f[k].state = snaps[k + 1].pre
      BY <2>3, <3>1
    <3> QED
      BY <2>5, <3>1, <3>2
  <2> QED
    BY <2>6, <2>7
<1>8. ASSUME \A k \in 1..n : Fine(snaps[k], cfg.used),
             \A k \in 1..(n - 1) : snaps[k].post = snaps[k + 1].pre
      PROVE  "http" \notin cfg.used /\ ~f[n].error /\ f[n].state = snaps[n].post
  <2> DEFINE OK(i) == ~f[i].error /\ (i # 0 => f[i].state = snaps[i].post)
             Bad == {i \in 0..n : ~OK(i)}
  <2>1. OK(0)
    BY <1>4
  <2>2. ASSUME NEW i \in 1..n, OK(i - 1) PROVE OK(i)
    <3>1. f[i - 1].state = snaps[i].pre
      <4>1. CASE i = 1
        BY <1>4, <4>1
      <4>2. CASE i # 1
        <5>1. i - 1 \in 1..(n - 1) /\ (i - 1) + 1 = i /\ i - 1 # 0
          BY <4>2
        <5>2. snaps[i - 1].post = snaps[(i - 1) + 1].pre
          BY <1>8, <5>1
        <5> QED
          BY <2>2, <5>1, <5>2
      <4> QED
        BY <4>1, <4>2
    <3>2. /\ Len(snaps[i].log.entries) = Len(snaps[i].calls) /\ ~snaps[i].hidden
          /\ Succeeded(snaps[i].calls)
      BY <1>8 DEF Fine
    <3>3. ~f[i].error
      BY <1>5, <2>2, <3>1, <3>2
    <3>4. f[i].state = snaps[i].post
      <4>1. snaps[i].hidden = FALSE
        BY <1>6, <3>2
      <4>2. snaps[i].post = Run(snaps[i].pre, Replies(snaps[i].calls), FALSE)
        BY <1>6, <4>1
      <4>3. f[i].state = Run(snaps[i].pre, Replies(snaps[i].calls), FALSE)
        BY <1>5, <3>2, <3>3 DEF ReplayedFrom, AnsweredAs
      <4> QED
        BY <4>2, <4>3
    <3> QED
      BY <3>3, <3>4
  <2> HIDE DEF OK
  <2>3. \A i \in 0..n : OK(i)
    <3> SUFFICES ASSUME Bad # {} PROVE FALSE
      OBVIOUS
    <3>1. PICK i \in Bad : \A j \in Bad : i <= j
      <4>1. Bad \in SUBSET Nat
        OBVIOUS
      <4> HIDE DEF Bad
      <4> QED
        BY <4>1, LeastNat
    <3>2. i \in 1..n /\ i - 1 \in 0..n /\ i - 1 \notin Bad
      BY <2>1, <3>1
    <3> QED
      BY <2>2, <3>1, <3>2
  <2>4. OK(n) /\ n \in 1..n
    BY <2>3
  <2> QED
    BY <1>8, <2>4 DEF OK, Fine
<1> QED
  BY <1>1, <1>2, <1>3, <1>7, <1>8

-----------------------------------------------------------------------------
(* The calls of a running tick.                                            *)

Logs == [current : Seq(TickLogs), history : Seq(TickLogs)]

\* The log after one hostcall.
After(l, r) == IF r.live.entries = << >> THEN l ELSE Record(l, r.live.entries[1])

\* A hostcall as the host performs it: recorded as answered, or not at all.
GoodRaw(r, used) ==
  /\ r.call \in Calls /\ r.call.kind \in used /\ r.live.cost \in Nat
  /\ r.live.entries = << >> \/ \E e \in Entries : r.live.entries = <<e>> /\ Recorded(r.call, e)

LEMMA NotedOne ==
  ASSUME NEW l, NEW r, r.live.cost \in Nat
  PROVE  Noted(l, <<r>>).log = After(l, r) /\ Noted(l, <<r>>).cost = r.live.cost
<1> DEFINE raws == <<r>>
           base == [log |-> l, cost |-> 0]
           one == [log |-> After(l, r), cost |-> 0 + r.live.cost]
           Rec(h) == h = [i \in 0..1 |->
             IF i = 0 THEN base
             ELSE [log |-> IF raws[i].live.entries = << >> THEN h[i - 1].log
                           ELSE Record(h[i - 1].log, raws[i].live.entries[1]),
                   cost |-> h[i - 1].cost + raws[i].live.cost]]
           f == CHOOSE h : Rec(h)
           g == [i \in 0..1 |-> IF i = 0 THEN base ELSE one]
<1>1. Len(raws) = 1 /\ raws[1] = r
  OBVIOUS
<1>2. Noted(l, raws) = f[1]
  BY <1>1 DEF Noted
<1> HIDE DEF raws
<1>3. Rec(g)
  <2>1. ASSUME NEW i \in 0..1
        PROVE  g[i] = IF i = 0 THEN base
                      ELSE [log |-> IF raws[i].live.entries = << >> THEN g[i - 1].log
                                    ELSE Record(g[i - 1].log, raws[i].live.entries[1]),
                            cost |-> g[i - 1].cost + raws[i].live.cost]
    <3>1. CASE i = 0
      BY <3>1
    <3>2. CASE i = 1
      <4>1. g[i] = one /\ g[i - 1] = base /\ raws[i] = r
        BY <1>1, <3>2
      <4> HIDE DEF g
      <4> QED
        BY <3>2, <4>1 DEF After
    <3> QED
      BY <3>1, <3>2
  <2> QED
    BY <2>1
<1>4. Rec(f)
  BY <1>3
<1> HIDE DEF f
<1>5. f[0] = base /\ f[1] = [log |-> IF raws[1].live.entries = << >> THEN f[0].log
                                      ELSE Record(f[0].log, raws[1].live.entries[1]),
                             cost |-> f[0].cost + raws[1].live.cost]
  BY <1>4
<1>6. f[1].log = After(l, r) /\ f[1].cost = r.live.cost
  BY <1>1, <1>5 DEF After
<1> QED
  BY <1>2, <1>6 DEF raws

LEMMA NotedTwo ==
  ASSUME NEW l, NEW a, NEW b, a.live.cost \in Nat, b.live.cost \in Nat
  PROVE  /\ Noted(l, <<a, b>>).log = After(After(l, a), b)
         /\ Noted(l, <<a, b>>).cost = a.live.cost + b.live.cost
<1> DEFINE raws == <<a, b>>
           base == [log |-> l, cost |-> 0]
           one == [log |-> After(l, a), cost |-> 0 + a.live.cost]
           two == [log |-> After(After(l, a), b), cost |-> 0 + a.live.cost + b.live.cost]
           Rec(h) == h = [i \in 0..2 |->
             IF i = 0 THEN base
             ELSE [log |-> IF raws[i].live.entries = << >> THEN h[i - 1].log
                           ELSE Record(h[i - 1].log, raws[i].live.entries[1]),
                   cost |-> h[i - 1].cost + raws[i].live.cost]]
           f == CHOOSE h : Rec(h)
           g == [i \in 0..2 |-> IF i = 0 THEN base ELSE IF i = 1 THEN one ELSE two]
<1>1. Len(raws) = 2 /\ raws[1] = a /\ raws[2] = b
  OBVIOUS
<1>2. Noted(l, raws) = f[2]
  BY <1>1 DEF Noted
<1> HIDE DEF raws
<1>3. Rec(g)
  <2>1. ASSUME NEW i \in 0..2
        PROVE  g[i] = IF i = 0 THEN base
                      ELSE [log |-> IF raws[i].live.entries = << >> THEN g[i - 1].log
                                    ELSE Record(g[i - 1].log, raws[i].live.entries[1]),
                            cost |-> g[i - 1].cost + raws[i].live.cost]
    <3>1. CASE i = 0
      BY <3>1
    <3>2. CASE i = 1
      <4>1. g[i] = one /\ g[i - 1] = base /\ raws[i] = a
        BY <1>1, <3>2
      <4> HIDE DEF g
      <4> QED
        BY <3>2, <4>1 DEF After
    <3>3. CASE i = 2
      <4>1. g[i] = two /\ g[i - 1] = one /\ raws[i] = b
        BY <1>1, <3>3
      <4>2. one.log = After(l, a) /\ one.cost = 0 + a.live.cost
        OBVIOUS
      <4>3. two = [log |-> IF b.live.entries = << >> THEN one.log
                           ELSE Record(one.log, b.live.entries[1]),
                   cost |-> one.cost + b.live.cost]
        BY <4>2 DEF After
      <4> HIDE DEF g, one, two
      <4> QED
        BY <3>3, <4>1, <4>3
    <3> QED
      BY <3>1, <3>2, <3>3
  <2> QED
    BY <2>1
<1>4. Rec(f)
  BY <1>3
<1> HIDE DEF f
<1>5. /\ f[0] = base
      /\ f[1] = [log |-> IF raws[1].live.entries = << >> THEN f[0].log
                         ELSE Record(f[0].log, raws[1].live.entries[1]),
                 cost |-> f[0].cost + raws[1].live.cost]
      /\ f[2] = [log |-> IF raws[2].live.entries = << >> THEN f[1].log
                         ELSE Record(f[1].log, raws[2].live.entries[1]),
                 cost |-> f[1].cost + raws[2].live.cost]
  BY <1>4
<1>6. f[1].log = After(l, a) /\ f[1].cost = a.live.cost
  BY <1>1, <1>5 DEF After
<1>7. f[2].log = After(After(l, a), b) /\ f[2].cost = a.live.cost + b.live.cost
  BY <1>1, <1>5, <1>6 DEF After
<1> QED
  BY <1>2, <1>7 DEF raws

\* Calls and entries stay faithful through one more hostcall.
LEMMA CallStep ==
  ASSUME NEW l \in Logs, Len(l.current) = 1, NEW calls \in Seq(Calls), NEW used,
         Faithful(calls, l.current[1].entries, used), NEW r, GoodRaw(r, used)
  PROVE  LET m == After(l, r)
         IN /\ m \in Logs /\ m.history = l.history /\ Len(m.current) = 1
            /\ m.current[1].tick = l.current[1].tick
            /\ Append(calls, r.call) \in Seq(Calls)
            /\ Faithful(Append(calls, r.call), m.current[1].entries, used)
<1> DEFINE c == r.call
           t == l.current[1]
           es == t.entries
           cs == Append(calls, c)
           m == After(l, r)
<1>1. c \in Calls /\ c.kind \in used
  BY DEF GoodRaw
<1>2. l.current = <<t>> /\ t \in TickLogs
  BY DEF Logs
<1>3. es \in Seq(Entries) /\ t.tick \in Nat
  BY <1>2 DEF TickLogs
<1>4. Faithful(calls, es, used)
  OBVIOUS
<1> HIDE DEF c, es
<1>5. /\ cs \in Seq(Calls) /\ Len(cs) = Len(calls) + 1 /\ cs[Len(calls) + 1] = c
      /\ \A i \in 1..Len(calls) : cs[i] = calls[i] /\ Len(calls) \in Nat
  BY <1>1
<1>6. DOMAIN cs = 1..(Len(calls) + 1) /\ DOMAIN calls = 1..Len(calls) /\ Len(calls) \in Nat
      /\ Len(es) \in Nat
  BY <1>1, <1>3
<1> HIDE DEF cs
<1>7. \A i \in DOMAIN cs : cs[i].kind \in used
  <2>1. \A i \in 1..Len(calls) : calls[i].kind \in used
    BY <1>4, <1>6 DEF Faithful
  <2> QED
    BY <1>1, <1>5, <1>6, <2>1
<1>8. Len(es) <= Len(calls)
  BY <1>4, <1>6 DEF Faithful
<1>9. CASE r.live.entries = << >>
  <2>1. m = l
    BY <1>9 DEF After
  <2>2. Faithful(cs, es, used)
    BY <1>5, <1>6, <1>7, <1>8 DEF Faithful
  <2> QED
    BY <1>2, <1>5, <2>1, <2>2 DEF cs, es, c
<1>10. ASSUME NEW e \in Entries, r.live.entries = <<e>>, Recorded(r.call, e)
       PROVE  /\ m \in Logs /\ m.history = l.history /\ Len(m.current) = 1
              /\ m.current[1].tick = t.tick /\ cs \in Seq(Calls)
              /\ Faithful(cs, m.current[1].entries, used)
  <2> DEFINE fs == Append(es, e)
             u == [t EXCEPT !.entries = fs]
  <2>1. m = [l EXCEPT !.current = [l.current EXCEPT ![1] = u]]
    <3>1. r.live.entries # << >> /\ r.live.entries[1] = e
      BY <1>10
    <3>2. m = Record(l, e)
      BY <3>1 DEF After
    <3>3. l.current # << >>
      BY <1>2
    <3> QED
      BY <3>2, <3>3 DEF Record, es
  <2>2. u \in TickLogs /\ u.tick = t.tick /\ u.entries = fs
    <3>1. fs \in Seq(Entries)
      BY <1>3
    <3> HIDE DEF fs
    <3> QED
      BY <1>2, <3>1 DEF TickLogs
  <2>3. /\ fs \in Seq(Entries) /\ Len(fs) = Len(es) + 1 /\ fs[Len(es) + 1] = e
        /\ \A i \in 1..Len(es) : fs[i] = es[i]
    BY <1>3
  <2> HIDE DEF u, fs
  <2>4. [l.current EXCEPT ![1] = u] = <<u>>
    BY <1>2
  <2>5. m = [l EXCEPT !.current = <<u>>]
    BY <2>1, <2>4
  <2>6. m \in Logs /\ m.history = l.history /\ m.current = <<u>>
    <3> DEFINE us == <<u>>
    <3>1. us \in Seq(TickLogs)
      BY <2>2
    <3> HIDE DEF us, m
    <3>2. m = [l EXCEPT !.current = us]
      BY <2>5 DEF us
    <3>3. m \in Logs /\ m.history = l.history /\ m.current = us
      BY <3>1, <3>2 DEF Logs
    <3> QED
      BY <3>3 DEF us
  <2>7. Faithful(cs, fs, used)
    <3>1. CASE Len(es) < Len(calls)
      <4>1. Len(fs) < Len(cs)
        BY <1>5, <1>6, <2>3, <3>1
      <4> QED
        BY <1>7, <4>1 DEF Faithful
    <3>2. CASE Len(es) = Len(calls)
      <4>1. Len(fs) = Len(cs)
        BY <1>5, <2>3, <3>2
      <4>2. \A i \in 1..Len(calls) : Recorded(calls[i], es[i])
        BY <1>4, <1>6, <3>2 DEF Faithful
      <4>3. ASSUME NEW i \in 1..(Len(calls) + 1) PROVE Recorded(cs[i], fs[i])
        <5>1. CASE i = Len(calls) + 1
          BY <1>5, <1>10, <2>3, <3>2, <5>1 DEF c
        <5>2. CASE i # Len(calls) + 1
          <6>1. i \in 1..Len(calls)
            BY <1>6, <5>2
          <6>2. cs[i] = calls[i] /\ fs[i] = es[i]
            BY <1>5, <2>3, <3>2, <6>1
          <6> QED
            BY <4>2, <6>1, <6>2
        <5> QED
          BY <5>1, <5>2
      <4> QED
        BY <1>6, <1>7, <4>1, <4>3 DEF Faithful
    <3> QED
      BY <1>6, <1>8, <3>1, <3>2
  <2>8. Len(m.current) = 1 /\ m.current[1] = u
    BY <2>6
  <2> QED
    BY <1>5, <2>2, <2>6, <2>7, <2>8
<1> QED
  BY <1>9, <1>10 DEF GoodRaw, cs, c

\* The tick after hostcalls.
TickWith(c, k, a, b) == [c EXCEPT !.calls = k, !.charged = a, !.receipts = b]

TickIs(d, c, k, a, b) ==
  d \in Ticks /\ d.pre = c.pre /\ d.calls = k /\ d.charged = a /\ d.receipts = b

\* A hostcall that is answered with v and recorded.
LiveIs(live, k, v, cost) ==
  /\ live.reply = Reply("ok", v) /\ live.entries = <<[kind |-> k, val |-> v]>>
  /\ live.cost = cost /\ cost \in Nat

RawIs(r, used, k, cost) ==
  GoodRaw(r, used) /\ r.live.cost = cost /\ r.call.kind = k /\ r.call.reply.code = "ok"

\* A payment that was made.
PaidLive(v) == [Observed("pay", v) EXCEPT !.cost = 1]

LEMMA TickUpdate ==
  ASSUME NEW c \in Ticks, NEW k \in Seq(Calls), NEW a \in Nat, NEW b \in Nat
  PROVE  TickIs(TickWith(c, k, a, b), c, k, a, b)
<1> DEFINE h1 == [c EXCEPT !.calls = k]
           h2 == [h1 EXCEPT !.charged = a]
           h3 == [h2 EXCEPT !.receipts = b]
<1>1. TickWith(c, k, a, b) = h3
  BY DEF Ticks, TickWith
<1>2. h1 \in Ticks /\ h1.pre = c.pre /\ h1.calls = k
  BY DEF Ticks
<1> HIDE DEF h1
<1>3. h2 \in Ticks /\ h2.pre = c.pre /\ h2.calls = k /\ h2.charged = a
  BY <1>2 DEF Ticks
<1> HIDE DEF h2
<1>4. h3 \in Ticks /\ h3.pre = c.pre /\ h3.calls = k /\ h3.charged = a /\ h3.receipts = b
  BY <1>3 DEF Ticks
<1> HIDE DEF h3
<1> QED
  BY <1>1, <1>4 DEF TickIs

\* The receipt that the last of the hostcalls brought.
Paid(raws) == IF Last(raws).call.kind = "pay" /\ Last(raws).call.reply.code = "ok" THEN 1 ELSE 0

\* Hostcalls that leave l and the calls cs, and cost what they pay.
LEMMA MadeInv ==
  ASSUME Inv, NEW raws, Made(raws), NEW cs \in Seq(Calls), NEW l \in Logs,
         cs = cur.calls \o [i \in DOMAIN raws |-> raws[i].call],
         Noted(log, raws).log = l, Noted(log, raws).cost = Paid(raws),
         l.history = log.history, Len(l.current) = 1, l.current[1].tick = log.current[1].tick,
         Faithful(cs, l.current[1].entries, cfg.used)
  PROVE  Inv'
<1>0. /\ TypeInv /\ TickInv /\ WindowInv /\ VerdictInv /\ PackageInv /\ KeepsUpInv
      /\ cur.charged = cur.receipts
  BY DEF Inv
<1>1. /\ pc = "ticking" /\ log' = l
      /\ UNCHANGED <<pc, mem, tick, window, missed, loopVars, hostVars>>
      /\ cur' = [cur EXCEPT !.calls = cs, !.charged = cur.charged + Paid(raws),
                            !.receipts = cur.receipts + Paid(raws)]
  BY DEF Made, Paid
<1>2. UNCHANGED <<pc, mem, tick, window, missed, cfg, interval, since, verified, verdict, stored,
                  pkg, starts>>
  BY <1>1 DEF loopVars, hostVars
<1>3. cur \in Ticks /\ cur.charged \in Nat /\ cur.receipts \in Nat /\ Paid(raws) \in Nat
  BY <1>0 DEF TypeInv, Ticks, Paid
<1>4. /\ cur' \in Ticks /\ cur'.pre = cur.pre /\ cur'.calls = cs
      /\ cur'.charged = cur.charged + Paid(raws) /\ cur'.receipts = cur.receipts + Paid(raws)
  <2> DEFINE p == Paid(raws)
  <2> HIDE DEF p
  <2>1. cur.charged + p \in Nat /\ cur.receipts + p \in Nat
    BY <1>3 DEF p
  <2> DEFINE a == cur.charged + p
             b == cur.receipts + p
  <2>2. cur' = TickWith(cur, cs, a, b)
    BY <1>1 DEF p, TickWith
  <2>3. a \in Nat /\ b \in Nat
    BY <2>1
  <2> HIDE DEF a, b
  <2>4. TickIs(TickWith(cur, cs, a, b), cur, cs, a, b)
    BY <1>3, <2>3, TickUpdate, Zenon
  <2>5. /\ cur' \in Ticks /\ cur'.pre = cur.pre /\ cur'.calls = cs
        /\ cur'.charged = a /\ cur'.receipts = b
    BY <2>2, <2>4, Zenon DEF TickIs
  <2> QED
    BY <2>5 DEF a, b, p
<1>5. TypeInv'
  BY <1>0, <1>1, <1>2, <1>4 DEF TypeInv, Logs
<1>6. TickInv'
  BY <1>0, <1>1, <1>2, <1>4 DEF TickInv
<1>7. WindowInv'
  BY <1>0, <1>2 DEF WindowInv
<1>8. VerdictInv' /\ PackageInv' /\ KeepsUpInv'
  BY <1>0, <1>2 DEF VerdictInv, PackageInv, KeepsUpInv
<1>9. cur'.charged = cur'.receipts
  BY <1>0, <1>4
<1> QED
  BY <1>5, <1>6, <1>7, <1>8, <1>9 DEF Inv

LEMMA OneCall ==
  ASSUME Inv, NEW r, GoodRaw(r, cfg.used), Made(<<r>>), r.live.cost = Paid(<<r>>)
  PROVE  Inv'
<1> DEFINE raws == <<r>>
           cs == Append(cur.calls, r.call)
           l == After(log, r)
<1>1. /\ log \in Logs /\ Len(log.current) = 1 /\ cur.calls \in Seq(Calls)
      /\ Faithful(cur.calls, log.current[1].entries, cfg.used)
  BY DEF Inv, TypeInv, TickInv, Logs, Ticks, Made
<1>2. /\ l \in Logs /\ l.history = log.history /\ Len(l.current) = 1
      /\ l.current[1].tick = log.current[1].tick /\ cs \in Seq(Calls)
      /\ Faithful(cs, l.current[1].entries, cfg.used)
  BY <1>1, CallStep
<1>3. cs = cur.calls \o [i \in DOMAIN raws |-> raws[i].call]
  <2>1. [i \in DOMAIN raws |-> raws[i].call] = <<r.call>>
    OBVIOUS
  <2>2. r.call \in Calls
    BY DEF GoodRaw
  <2> QED
    BY <1>1, <2>1, <2>2
<1>4. Noted(log, raws).log = l /\ Noted(log, raws).cost = Paid(raws)
  BY NotedOne DEF GoodRaw
<1>5. Made(raws)
  OBVIOUS
<1> HIDE DEF raws, cs, l
<1> QED
  BY <1>2, <1>3, <1>4, <1>5, MadeInv

LEMMA TwoCalls ==
  ASSUME Inv, NEW a, NEW b, GoodRaw(a, cfg.used), GoodRaw(b, cfg.used), Made(<<a, b>>),
         a.live.cost + b.live.cost = Paid(<<a, b>>)
  PROVE  Inv'
<1> DEFINE raws == <<a, b>>
           ds == Append(cur.calls, a.call)
           k == After(log, a)
           cs == Append(ds, b.call)
           l == After(k, b)
<1>1. /\ log \in Logs /\ Len(log.current) = 1 /\ cur.calls \in Seq(Calls)
      /\ Faithful(cur.calls, log.current[1].entries, cfg.used)
  BY DEF Inv, TypeInv, TickInv, Logs, Ticks, Made
<1>2. /\ k \in Logs /\ k.history = log.history /\ Len(k.current) = 1
      /\ k.current[1].tick = log.current[1].tick /\ ds \in Seq(Calls)
      /\ Faithful(ds, k.current[1].entries, cfg.used)
  BY <1>1, CallStep
<1>3. cs = cur.calls \o [i \in DOMAIN raws |-> raws[i].call]
  <2>1. [i \in DOMAIN raws |-> raws[i].call] = <<a.call, b.call>>
    OBVIOUS
  <2>2. a.call \in Calls /\ b.call \in Calls
    BY DEF GoodRaw
  <2> QED
    BY <1>1, <2>1, <2>2
<1> HIDE DEF k, ds
<1>4. /\ l \in Logs /\ l.history = k.history /\ Len(l.current) = 1
      /\ l.current[1].tick = k.current[1].tick /\ cs \in Seq(Calls)
      /\ Faithful(cs, l.current[1].entries, cfg.used)
  BY <1>2, CallStep
<1>5. Noted(log, raws).log = l /\ Noted(log, raws).cost = Paid(raws)
  BY NotedTwo DEF GoodRaw, k
<1>6. Made(raws)
  OBVIOUS
<1> HIDE DEF raws, cs, l
<1> QED
  BY <1>2, <1>3, <1>4, <1>5, <1>6, MadeInv

\* A recorded and an unrecorded hostcall.
LEMMA RecordedRaw ==
  ASSUME NEW used, NEW k \in used, k \in Kinds, NEW v \in Nat, NEW cost, NEW live,
         LiveIs(live, k, v, cost)
  PROVE  RawIs(Raw(k, TRUE, live), used, k, cost)
<1> DEFINE e == [kind |-> k, val |-> v]
           r == Raw(k, TRUE, live)
           rep == Reply("ok", v)
<1>1. live.entries = <<e>> /\ live.reply = rep /\ live.cost = cost /\ cost \in Nat
  BY DEF LiveIs
<1>2. rep \in Reps /\ rep.code = "ok"
  BY DEF Reps, Reply
<1>3. e \in Entries /\ e.kind = k /\ e.val = v
  BY DEF Entries
<1>4. r.call = [kind |-> k, fits |-> TRUE, reply |-> rep] /\ r.live = live
  BY <1>1 DEF Raw
<1>5. rep = Reply("ok", e.val)
  BY <1>3
<1> HIDE DEF e, rep, r
<1>6. /\ r.call \in Calls /\ r.call.kind = k /\ r.call.fits /\ r.call.reply = rep
      /\ r.call.reply.code = "ok"
  BY <1>2, <1>4 DEF Calls
<1>7. Recorded(r.call, e)
  BY <1>3, <1>5, <1>6 DEF Recorded
<1>8. GoodRaw(r, used)
  BY <1>1, <1>3, <1>4, <1>6, <1>7 DEF GoodRaw
<1> QED
  BY <1>1, <1>4, <1>6, <1>8 DEF r, RawIs

LEMMA ObservedRaw ==
  ASSUME NEW used, NEW k \in used, k \in Kinds, NEW v \in Nat
  PROVE  RawIs(Raw(k, TRUE, Observed(k, v)), used, k, 0)
<1>1. LiveIs(Observed(k, v), k, v, 0)
  BY DEF Observed, LiveIs
<1> QED
  BY <1>1, RecordedRaw, Zenon

LEMMA PaymentRaw ==
  ASSUME NEW used, "pay" \in used, NEW v \in Nat
  PROVE  RawIs(Raw("pay", TRUE, PaidLive(v)), used, "pay", 1)
<1>1. LiveIs(PaidLive(v), "pay", v, 1)
  BY DEF Observed, PaidLive, LiveIs
<1>2. "pay" \in Kinds
  BY DEF Kinds
<1> QED
  BY <1>1, <1>2, RecordedRaw, Zenon

LEMMA UnrecordedRaw ==
  ASSUME NEW used, NEW k \in used, k \in Kinds, NEW fits \in BOOLEAN,
         NEW code \in {"ok", "refused", "small"}, NEW r, r = Raw(k, fits, Unrecorded(code))
  PROVE  GoodRaw(r, used) /\ r.live.cost = 0 /\ r.call.kind = k /\ r.call.reply.code = code
<1>1. /\ r.call = [kind |-> k, fits |-> fits, reply |-> Reply(code, 0)]
      /\ r.live.entries = << >> /\ r.live.cost = 0
  BY DEF Raw, Unrecorded, None
<1>2. r.call \in Calls /\ r.call.kind = k /\ r.call.reply.code = code
  BY <1>1 DEF Calls, Reps, Reply
<1>3. GoodRaw(r, used)
  BY <1>1, <1>2 DEF GoodRaw
<1> QED
  BY <1>1, <1>2, <1>3

LEMMA PaidIs ==
  ASSUME NEW a, NEW b
  PROVE  /\ Paid(<<a>>) = IF a.call.kind = "pay" /\ a.call.reply.code = "ok" THEN 1 ELSE 0
         /\ Paid(<<a, b>>) = IF b.call.kind = "pay" /\ b.call.reply.code = "ok" THEN 1 ELSE 0
<1>1. Last(<<a>>) = a /\ Last(<<a, b>>) = b
  BY DEF Last
<1> QED
  BY <1>1 DEF Paid

LEMMA ObserveStep ==
  ASSUME Inv, NEW k \in Kinds, Observe(k)
  PROVE  Inv'
<1>1. k \in cfg.used /\ k # "http" /\ k # "pay"
  BY DEF Observe, Used
<1>2. PICK v \in Values :
        Made(<<Raw(k, TRUE, CASE k = "clock" -> clock_now(v)
                              [] k = "rand"  -> rand_bytes("ok", v)
                              [] k = "log"   -> log_emit("ok")
                              [] k = "price" -> node_price(v)
                              [] OTHER       -> wallet(k, "ok", v))>>)
  BY DEF Observe
<1> DEFINE x == IF k = "log" THEN None ELSE v
           live == Observed(k, x)
           r == Raw(k, TRUE, live)
<1>3. (CASE k = "clock" -> clock_now(v)
         [] k = "rand"  -> rand_bytes("ok", v)
         [] k = "log"   -> log_emit("ok")
         [] k = "price" -> node_price(v)
         [] OTHER       -> wallet(k, "ok", v)) = live
  BY DEF clock_now, rand_bytes, log_emit, node_price, wallet
<1>4. Made(<<r>>)
  BY <1>2, <1>3
<1>5. x \in Nat
  BY ReplayAssumption DEF None
<1> HIDE DEF x
<1>6. GoodRaw(r, cfg.used) /\ r.live.cost = 0 /\ r.call.kind = k
  BY <1>1, <1>5, ObservedRaw, Zenon DEF RawIs
<1> HIDE DEF r
<1>7. Paid(<<r>>) = 0
  BY <1>1, <1>6, PaidIs
<1> QED
  BY <1>4, <1>6, <1>7, OneCall

\* A receipt of the deterministic simulator: an entry, and an error.
LEMMA NoReceiptRaw ==
  ASSUME NEW used, NEW k \in used, k \in Kinds, k = "receipt",
         NEW r, r = Raw(k, TRUE, deterministicWallet(k))
  PROVE  GoodRaw(r, used) /\ r.live.cost = 0 /\ r.call.kind = k
<1> DEFINE e == [kind |-> k, val |-> 0]
           rep == Reply("refused", 0)
           c == r.call
<1>1. /\ c = [kind |-> k, fits |-> TRUE, reply |-> rep]
      /\ r.live.entries = <<e>> /\ r.live.cost = 0
  BY DEF Raw, deterministicWallet, None
<1>2. e \in Entries /\ e.kind = k
  BY DEF Entries
<1>3. rep \in Reps /\ rep.code # "ok"
  BY DEF Reps, Reply
<1> HIDE DEF e, rep, c
<1>4. c \in Calls /\ c.kind = k /\ c.fits /\ c.reply = rep
  BY <1>1, <1>3 DEF Calls
<1>5. Recorded(c, e)
  BY <1>2, <1>3, <1>4 DEF Recorded
<1>6. GoodRaw(r, used)
  <2>1. r.call \in Calls /\ r.call.kind \in used /\ Recorded(r.call, e)
    BY <1>4, <1>5 DEF c
  <2>2. \E x \in Entries : r.live.entries = <<x>> /\ Recorded(r.call, x)
    BY <1>1, <1>2, <2>1, Zenon
  <2>3. r.live.cost \in Nat
    <3>1. 0 \in Nat
      OBVIOUS
    <3> QED
      BY <1>1, <3>1, Zenon
  <2> QED
    BY <2>1, <2>2, <2>3, Zenon DEF GoodRaw
<1> QED
  BY <1>1, <1>4, <1>6 DEF c

LEMMA ObserveSimStep ==
  ASSUME Inv, NEW k \in Kinds, ObserveSim(k)
  PROVE  Inv'
<1>1. k \in cfg.used
  BY DEF ObserveSim, Used
<1>2. PICK v \in Values : Made(<<Raw(k, TRUE, deterministicHostcall(k, v))>>)
  BY DEF ObserveSim
<1>3. CASE k = "receipt"
  <2> DEFINE r == Raw(k, TRUE, deterministicWallet(k))
  <2>1. deterministicHostcall(k, v) = deterministicWallet(k)
    BY <1>3 DEF deterministicHostcall
  <2>2. Made(<<r>>) /\ r = Raw(k, TRUE, deterministicWallet(k))
    BY <1>2, <2>1
  <2> HIDE DEF r
  <2>3. GoodRaw(r, cfg.used) /\ r.live.cost = 0 /\ r.call.kind = k
    BY <1>1, <1>3, <2>2, NoReceiptRaw
  <2>4. Paid(<<r>>) = 0
    BY <1>3, <2>3, PaidIs
  <2> QED
    BY <2>2, <2>3, <2>4, OneCall
<1>4. CASE k # "receipt"
  <2> DEFINE x == IF k \in {"clock", "rand", "price"} THEN v ELSE None
             r == Raw(k, TRUE, Observed(k, x))
  <2>1. deterministicHostcall(k, v) = Observed(k, x)
    BY <1>4 DEF deterministicHostcall, deterministicWallet
  <2>2. Made(<<r>>)
    BY <1>2, <2>1
  <2>3. x \in Nat
    BY ReplayAssumption DEF None
  <2> HIDE DEF x
  <2>4. RawIs(r, cfg.used, k, 0)
    BY <1>1, <2>3, ObservedRaw, Zenon
  <2>5. GoodRaw(r, cfg.used) /\ r.live.cost = 0 /\ r.call.kind = k
    BY <2>4, Zenon DEF RawIs
  <2> HIDE DEF r
  <2>6. k # "pay"
    BY DEF ObserveSim
  <2>7. Paid(<<r>>) = 0
    BY <2>5, <2>6, PaidIs
  <2> QED
    BY <2>2, <2>5, <2>7, OneCall
<1> QED
  BY <1>3, <1>4

LEMMA RefusedStep ==
  ASSUME Inv, NEW k \in Kinds, Refused(k)
  PROVE  Inv'
<1>1. k \in cfg.used /\ k \in {"rand", "log", "receipt"} /\ k # "pay"
  BY DEF Refused, Used
<1>2. ASSUME NEW fits \in BOOLEAN, NEW code \in {"ok", "refused", "small"},
             Made(<<Raw(k, fits, Unrecorded(code))>>)
      PROVE  Inv'
  <2> DEFINE r == Raw(k, fits, Unrecorded(code))
  <2>1. r = Raw(k, fits, Unrecorded(code)) /\ Made(<<r>>)
    BY <1>2
  <2> HIDE DEF r
  <2>2. GoodRaw(r, cfg.used) /\ r.live.cost = 0 /\ r.call.kind = k
    BY <1>1, <2>1, UnrecordedRaw
  <2>3. Paid(<<r>>) = 0
    BY <1>1, <2>2, PaidIs
  <2> QED
    BY <2>1, <2>2, <2>3, OneCall
<1>3. \/ Made(<<Raw(k, TRUE, CASE k = "rand" -> rand_bytes("refused", None)
                               [] k = "log"  -> log_emit("refused")
                               [] OTHER      -> wallet(k, "refused", None))>>)
      \/ k = "receipt" /\ Made(<<Raw(k, FALSE, wallet(k, "small", None))>>)
  BY DEF Refused
<1>4. CASE Made(<<Raw(k, TRUE, CASE k = "rand" -> rand_bytes("refused", None)
                               [] k = "log"  -> log_emit("refused")
                               [] OTHER      -> wallet(k, "refused", None))>>)
  <2> DEFINE code == IF k = "log" THEN "ok" ELSE "refused"
  <2>1. (CASE k = "rand" -> rand_bytes("refused", None)
           [] k = "log"  -> log_emit("refused")
           [] OTHER      -> wallet(k, "refused", None)) = Unrecorded(code)
    BY <1>1 DEF rand_bytes, log_emit, wallet
  <2>2. code \in {"ok", "refused", "small"}
    OBVIOUS
  <2>3. Made(<<Raw(k, TRUE, Unrecorded(code))>>)
    BY <1>4, <2>1
  <2> HIDE DEF code
  <2> QED
    BY <1>2, <2>2, <2>3
<1>5. CASE k = "receipt" /\ Made(<<Raw(k, FALSE, wallet(k, "small", None))>>)
  <2>1. wallet(k, "small", None) = Unrecorded("small")
    BY <1>5 DEF wallet
  <2>2. Made(<<Raw(k, FALSE, Unrecorded("small"))>>)
    BY <1>5, <2>1
  <2> QED
    BY <1>2, <2>2
<1> QED
  BY <1>3, <1>4, <1>5

LEMMA PayStep ==
  ASSUME Inv, Pay
  PROVE  Inv'
<1>1. "pay" \in cfg.used /\ "pay" \in Kinds
  BY DEF Pay, Used, Kinds
<1> DEFINE no == Raw("pay", TRUE, Unrecorded("refused"))
           hint == Raw("pay", FALSE, Unrecorded("small"))
           done(v) == Raw("pay", TRUE, PaidLive(v))
<1>2. PICK v \in Values :
        \/ Made(WalletPay(TRUE, TRUE, TRUE, v)) \/ Made(WalletPay(TRUE, TRUE, FALSE, v))
        \/ Made(WalletPay(FALSE, TRUE, TRUE, v)) \/ Made(WalletPay(TRUE, FALSE, TRUE, v))
  <2>1. PICK v \in Values :
          \/ Made(WalletPay(TRUE, TRUE, TRUE, v))
          \/ \E permitted \in {TRUE, FALSE} : Made(WalletPay(permitted, TRUE, ~permitted, v))
          \/ Made(WalletPay(TRUE, FALSE, TRUE, v))
    BY Zenon DEF Pay
  <2>2. (~TRUE) = FALSE /\ (~FALSE) = TRUE
    OBVIOUS
  <2>3. (\E permitted \in {TRUE, FALSE} : Made(WalletPay(permitted, TRUE, ~permitted, v))) =>
          Made(WalletPay(TRUE, TRUE, FALSE, v)) \/ Made(WalletPay(FALSE, TRUE, TRUE, v))
    BY <2>2, Zenon
  <2> QED
    BY <2>1, <2>3, Zenon
<1> DEFINE d == done(v)
<1>3. /\ WalletPay(TRUE, TRUE, TRUE, v) = <<d>> /\ WalletPay(TRUE, TRUE, FALSE, v) = <<no>>
      /\ WalletPay(FALSE, TRUE, TRUE, v) = <<no>>
      /\ WalletPay(TRUE, FALSE, TRUE, v) = <<hint, d>>
  <2>1. /\ wallet_pay(TRUE, TRUE, TRUE, v) = PaidLive(v)
        /\ wallet_pay(TRUE, TRUE, FALSE, v) = Unrecorded("refused")
        /\ wallet_pay(FALSE, TRUE, TRUE, v) = Unrecorded("refused")
        /\ wallet_pay(TRUE, FALSE, TRUE, v) = Unrecorded("small")
    BY DEF wallet_pay, PaidLive
  <2>2. /\ PaidLive(v).reply.code = "ok" /\ Unrecorded("refused").reply.code = "refused"
        /\ Unrecorded("small").reply.code = "small"
    BY DEF PaidLive, Observed, Unrecorded, Reply
  <2> QED
    BY <2>1, <2>2 DEF WalletPay
<1>4. /\ no = Raw("pay", TRUE, Unrecorded("refused")) /\ hint = Raw("pay", FALSE, Unrecorded("small"))
      /\ Made(<<d>>) \/ Made(<<no>>) \/ Made(<<hint, d>>)
  BY <1>2, <1>3
<1> HIDE DEF no, hint, d
<1>5. /\ GoodRaw(no, cfg.used) /\ no.live.cost = 0 /\ no.call.reply.code = "refused"
      /\ GoodRaw(hint, cfg.used) /\ hint.live.cost = 0
  <2>1. ASSUME NEW b \in BOOLEAN, NEW code \in {"ok", "refused", "small"}, NEW r,
               r = Raw("pay", b, Unrecorded(code))
        PROVE  GoodRaw(r, cfg.used) /\ r.live.cost = 0 /\ r.call.reply.code = code
    BY <1>1, <2>1, UnrecordedRaw
  <2> QED
    BY <1>4, <2>1
<1>6. /\ GoodRaw(d, cfg.used) /\ d.live.cost = 1 /\ d.call.kind = "pay"
      /\ d.call.reply.code = "ok"
  <2>1. v \in Nat
    BY ReplayAssumption
  <2> QED
    BY <1>1, <2>1, PaymentRaw, Zenon DEF d, RawIs
<1>7. Paid(<<d>>) = 1 /\ Paid(<<no>>) = 0 /\ Paid(<<hint, d>>) = 1
  BY <1>5, <1>6, PaidIs
<1>8. CASE Made(<<d>>)
  BY <1>6, <1>7, <1>8, OneCall
<1>9. CASE Made(<<no>>)
  BY <1>5, <1>7, <1>9, OneCall
<1>10. CASE Made(<<hint, d>>)
  <2>1. hint.live.cost + d.live.cost = Paid(<<hint, d>>)
    BY <1>5, <1>6, <1>7
  <2> QED
    BY <1>5, <1>6, <1>10, <2>1, TwoCalls
<1> QED
  BY <1>4, <1>8, <1>9, <1>10

LEMMA RequestStep ==
  ASSUME Inv, Request
  PROVE  Inv'
<1>1. "http" \in cfg.used /\ "http" \in Kinds
  BY DEF Request, Used, Kinds
<1> DEFINE no == Raw("http", TRUE, Unrecorded("refused"))
           hint == Raw("http", FALSE, Unrecorded("small"))
           done(v) == Raw("http", TRUE, Observed("http", v))
<1>2. PICK v \in Values :
        \/ Made(HTTPRequest("ok", "ok", v)) \/ Made(HTTPRequest("refused", "ok", v))
        \/ Made(HTTPRequest("small", "ok", v)) \/ Made(HTTPRequest("small", "refused", v))
  BY DEF Request
<1>3. /\ HTTPRequest("ok", "ok", v) = <<done(v)>> /\ HTTPRequest("refused", "ok", v) = <<no>>
      /\ HTTPRequest("small", "ok", v) = <<hint, done(v)>>
      /\ HTTPRequest("small", "refused", v) = <<hint, no>>
  BY DEF HTTPRequest, http_request
<1> DEFINE d == done(v)
<1>4. /\ no = Raw("http", TRUE, Unrecorded("refused")) /\ d = Raw("http", TRUE, Observed("http", v))
      /\ hint = Raw("http", FALSE, Unrecorded("small"))
      /\ Made(<<d>>) \/ Made(<<no>>) \/ Made(<<hint, d>>) \/ Made(<<hint, no>>)
  BY <1>2, <1>3
<1> HIDE DEF no, hint, d
<1>5. /\ GoodRaw(no, cfg.used) /\ no.live.cost = 0 /\ no.call.kind = "http"
      /\ GoodRaw(hint, cfg.used) /\ hint.live.cost = 0
  <2>1. ASSUME NEW b \in BOOLEAN, NEW code \in {"ok", "refused", "small"}, NEW r,
               r = Raw("http", b, Unrecorded(code))
        PROVE  GoodRaw(r, cfg.used) /\ r.live.cost = 0 /\ r.call.kind = "http"
    BY <1>1, <2>1, UnrecordedRaw
  <2> QED
    BY <1>4, <2>1
<1>6. GoodRaw(d, cfg.used) /\ d.live.cost = 0 /\ d.call.kind = "http"
  <2>1. v \in Nat
    BY ReplayAssumption
  <2> QED
    BY <1>1, <2>1, ObservedRaw, Zenon DEF d, RawIs
<1>7. Paid(<<d>>) = 0 /\ Paid(<<no>>) = 0 /\ Paid(<<hint, d>>) = 0 /\ Paid(<<hint, no>>) = 0
  BY <1>5, <1>6, PaidIs
<1>8. CASE Made(<<d>>)
  BY <1>6, <1>7, <1>8, OneCall
<1>9. CASE Made(<<no>>)
  BY <1>5, <1>7, <1>9, OneCall
<1>10. CASE Made(<<hint, d>>)
  <2>1. hint.live.cost + d.live.cost = Paid(<<hint, d>>)
    BY <1>5, <1>6, <1>7
  <2> QED
    BY <1>5, <1>6, <1>10, <2>1, TwoCalls
<1>11. CASE Made(<<hint, no>>)
  <2>1. hint.live.cost + no.live.cost = Paid(<<hint, no>>)
    BY <1>5, <1>7
  <2> QED
    BY <1>5, <1>11, <2>1, TwoCalls
<1> QED
  BY <1>4, <1>8, <1>9, <1>10, <1>11

-----------------------------------------------------------------------------
(* The replay window and the sealed log.                                   *)

LEMMA LeastIs ==
  ASSUME NEW T \in SUBSET Nat, T # {}
  PROVE  Min(T) \in T /\ \A x \in T : Min(T) <= x
<1>1. \E n \in T : \A m \in T : n <= m
  BY LeastNat
<1> QED
  BY <1>1 DEF Min

LEMMA EvictFacts ==
  ASSUME NEW w \in Seq(Snaps), Len(w) > 1
  PROVE  EvictIdx(w) \in 1..(Len(w) - 1)
<1> DEFINE n == Len(w) - 1
           score(i) == observationScore(w[i])
           S == {score(i) : i \in 1..n}
           low == Min(S)
           I == {i \in 1..n : score(i) = low}
           e == Min(I)
<1>1. n \in Nat /\ n > 0
  OBVIOUS
<1>2. \A i \in 1..n : score(i) \in Nat
  <2>1. \A i \in 1..n : w[i] \in Snaps
    OBVIOUS
  <2>2. ASSUME NEW s \in Snaps PROVE observationScore(s) \in Nat
    BY DEF Snaps, TickLogs, observationScore
  <2> QED
    BY <2>1, <2>2
<1> HIDE DEF n, score
<1>3. S \in SUBSET Nat /\ S # {}
  BY <1>1, <1>2
<1>4. low \in S /\ \A x \in S : low <= x
  <2> HIDE DEF S
  <2> QED
    BY <1>3, LeastIs
<1> HIDE DEF low
<1>5. I \in SUBSET Nat /\ I # {} /\ I \subseteq 1..n
  BY <1>1, <1>4
<1>6. e \in I /\ \A x \in I : e <= x
  <2> HIDE DEF I
  <2> QED
    BY <1>5, LeastIs
<1> HIDE DEF e
<1>7. /\ e \in 1..n
      /\ \A j \in 1..n : score(e) <= score(j)
      /\ \A j \in 1..(e - 1) : score(e) < score(j)
  <2>1. e \in 1..n /\ score(e) = low /\ e \in Nat
    BY <1>1, <1>6
  <2>2. \A j \in 1..n : low <= score(j)
    BY <1>4
  <2>3. ASSUME NEW j \in 1..(e - 1) PROVE low < score(j)
    <3>1. j \in 1..n /\ j < e
      BY <1>1, <2>1
    <3>2. j \notin I
      BY <1>6, <3>1, <2>1
    <3> QED
      BY <1>2, <1>4, <2>1, <2>2, <3>1, <3>2
  <2> QED
    BY <2>1, <2>2, <2>3
<1>8. /\ e \in 1..(Len(w) - 1)
      /\ \A j \in 1..(Len(w) - 1) : observationScore(w[e]) <= observationScore(w[j])
      /\ \A j \in 1..(e - 1) : observationScore(w[e]) < observationScore(w[j])
  BY <1>7 DEF n, score
<1> QED
  BY <1>8 DEF EvictIdx

\* The entry of w that is at i when the one at e is removed.
Shifted(i, e) == IF i < e THEN i ELSE i + 1

LEMMA RemoveFacts ==
  ASSUME NEW S, NEW w \in Seq(S), NEW e \in 1..Len(w)
  PROVE  /\ RemoveAt(w, e) \in Seq(S) /\ Len(RemoveAt(w, e)) = Len(w) - 1
         /\ \A i \in 1..(Len(w) - 1) :
              Shifted(i, e) \in 1..Len(w) /\ RemoveAt(w, e)[i] = w[Shifted(i, e)]
<1> DEFINE a == SubSeq(w, 1, e - 1)
           b == SubSeq(w, e + 1, Len(w))
<1>1. a \in Seq(S) /\ Len(a) = e - 1 /\ \A i \in 1..(e - 1) : a[i] = w[i]
  OBVIOUS
<1>2. b \in Seq(S) /\ Len(b) = Len(w) - e /\ \A i \in 1..(Len(w) - e) : b[i] = w[e + i]
  OBVIOUS
<1>3. RemoveAt(w, e) = a \o b
  BY DEF RemoveAt
<1> HIDE DEF a, b
<1>4. a \o b \in Seq(S) /\ Len(a \o b) = Len(w) - 1
  <2>0. a \in Seq(S) /\ b \in Seq(S)
    BY <1>1, <1>2
  <2>1. a \o b \in Seq(S)
    BY <2>0
  <2>2. Len(a \o b) = Len(a) + Len(b)
    BY <2>0
  <2>3. Len(w) \in Nat /\ e \in Nat
    OBVIOUS
  <2> QED
    BY <1>1, <1>2, <2>1, <2>2, <2>3
<1>5. ASSUME NEW i \in 1..(Len(w) - 1)
      PROVE  Shifted(i, e) \in 1..Len(w) /\ (a \o b)[i] = w[Shifted(i, e)]
  <2>1. CASE i < e
    BY <1>1, <1>2, <2>1 DEF Shifted
  <2>2. CASE ~(i < e)
    <3>1. (a \o b)[i] = b[i - (e - 1)]
      BY <1>1, <1>2, <2>2
    <3>2. i - (e - 1) \in 1..(Len(w) - e) /\ e + (i - (e - 1)) = i + 1
      BY <2>2
    <3> QED
      BY <1>2, <2>2, <3>1, <3>2 DEF Shifted
  <2> QED
    BY <2>1, <2>2
<1> QED
  BY <1>3, <1>4, <1>5

\* The window r is the window w with the snapshot s added, and perhaps an
\* older one dropped.
Grown(r, w, s) ==
  /\ r \in Seq(Snaps) /\ Len(r) \in 1..WindowSize /\ r[Len(r)] = s
  /\ \A i \in 1..(Len(r) - 1) : \E k \in 1..Len(w) : r[i] = w[k]
  /\ \A i, j \in 1..(Len(r) - 1) :
       i < j => \E k, l \in 1..Len(w) : k < l /\ r[i] = w[k] /\ r[j] = w[l]

LEMMA WindowGrows ==
  ASSUME NEW w \in Seq(Snaps), Len(w) <= WindowSize, NEW s \in Snaps
  PROVE  Grown(WindowAfter(w, s), w, s)
<1> DEFINE full == Append(w, s)
           n == Len(w)
<1>1. /\ full \in Seq(Snaps) /\ Len(full) = n + 1 /\ full[n + 1] = s /\ n \in Nat
      /\ \A i \in 1..n : full[i] = w[i]
  OBVIOUS
<1>2. WindowAfter(w, s) = IF n + 1 > WindowSize THEN RemoveAt(full, EvictIdx(full)) ELSE full
  BY <1>1 DEF WindowAfter
<1>3. WindowSize \in Nat /\ WindowSize > 0 /\ n <= WindowSize
  BY ReplayAssumption
<1> HIDE DEF full
<1>4. CASE ~(n + 1 > WindowSize)
  BY <1>1, <1>2, <1>3, <1>4 DEF Grown
<1>5. CASE n + 1 > WindowSize
  <2> DEFINE e == EvictIdx(full)
             r == RemoveAt(full, e)
  <2>1. Len(full) > 1 /\ n = WindowSize /\ n > 0
    BY <1>1, <1>3, <1>5
  <2>2. e \in 1..n
    <3>1. EvictIdx(full) \in 1..(Len(full) - 1)
      BY <1>1, <2>1, EvictFacts
    <3> QED
      BY <1>1, <3>1
  <2> HIDE DEF e
  <2>3. /\ r \in Seq(Snaps) /\ Len(r) = n
        /\ \A i \in 1..n : Shifted(i, e) \in 1..(n + 1) /\ r[i] = full[Shifted(i, e)]
    <3>1. e \in 1..Len(full)
      BY <1>1, <2>2
    <3>2. /\ RemoveAt(full, e) \in Seq(Snaps) /\ Len(RemoveAt(full, e)) = Len(full) - 1
          /\ \A i \in 1..(Len(full) - 1) :
               Shifted(i, e) \in 1..Len(full) /\ RemoveAt(full, e)[i] = full[Shifted(i, e)]
      BY <1>1, <3>1, RemoveFacts
    <3> QED
      BY <1>1, <3>2
  <2> HIDE DEF r
  <2>4. r[n] = s
    <3>1. Shifted(n, e) = n + 1
      BY <1>1, <2>2 DEF Shifted
    <3> QED
      BY <1>1, <2>1, <2>3, <3>1
  <2>5. ASSUME NEW i \in 1..(n - 1) PROVE Shifted(i, e) \in 1..n /\ r[i] = w[Shifted(i, e)]
    <3>1. Shifted(i, e) \in 1..n
      BY <1>1, <2>2 DEF Shifted
    <3> QED
      BY <1>1, <2>3, <3>1
  <2>6. ASSUME NEW i \in 1..(n - 1), NEW j \in 1..(n - 1), i < j
        PROVE  Shifted(i, e) < Shifted(j, e)
    BY <1>1, <2>2, <2>6 DEF Shifted
  <2>7. WindowAfter(w, s) = r
    BY <1>2, <1>5 DEF r, e
  <2>8. Grown(r, w, s)
    <3>1. r \in Seq(Snaps) /\ Len(r) \in 1..WindowSize /\ r[Len(r)] = s
      BY <1>3, <2>1, <2>3, <2>4
    <3>2. \A i \in 1..(n - 1) : \E k \in 1..n : r[i] = w[k]
      BY <2>5
    <3>3. \A i, j \in 1..(n - 1) :
            i < j => \E k, l \in 1..n : k < l /\ r[i] = w[k] /\ r[j] = w[l]
      BY <2>5, <2>6
    <3> QED
      BY <2>3, <3>1, <3>2, <3>3 DEF Grown
  <2> QED
    BY <2>7, <2>8
<1> QED
  BY <1>4, <1>5

\* Sealing closes the log, and keeps no more than the bound of it.
LEMMA SealFacts ==
  ASSUME NEW l \in Logs, Len(l.current) = 1, MaxTicks > 0 => Len(l.history) <= MaxTicks
  PROVE  /\ SealTick(l) \in Logs /\ SealTick(l).current = << >>
         /\ MaxTicks > 0 => Len(SealTick(l).history) <= MaxTicks
         /\ Sealed(l) = l.current[1] /\ Sealed(l) \in TickLogs
<1>1. l.current \in Seq(TickLogs) /\ l.history \in Seq(TickLogs) /\ l.current # << >>
  <2>1. l.current \in Seq(TickLogs) /\ l.history \in Seq(TickLogs)
    BY DEF Logs
  <2> DEFINE c == l.current
  <2>2. c \in Seq(TickLogs) /\ Len(c) = 1
    BY <2>1
  <2> HIDE DEF c
  <2>3. c # << >>
    BY <2>2
  <2> QED
    BY <2>1, <2>3 DEF c
<1>2. l.current[1] \in TickLogs
  BY <1>1
<1> DEFINE h == Append(l.history, l.current[1])
           k == Retained(h)
<1>3. h \in Seq(TickLogs)
  BY <1>1, <1>2
<1> HIDE DEF h
<1>4. k \in Seq(TickLogs) /\ (MaxTicks > 0 => Len(k) <= MaxTicks)
  <2>1. CASE MaxTicks > 0 /\ Len(h) > MaxTicks
    <3>1. k = SubSeq(h, Len(h) - MaxTicks + 1, Len(h))
      BY <2>1 DEF Retained
    <3>2. Len(h) - MaxTicks + 1 \in 1..Len(h)
      BY <1>3, <2>1, MaxTicksAssumption
    <3> QED
      BY <1>3, <2>1, <3>1, <3>2, MaxTicksAssumption
  <2>2. CASE ~(MaxTicks > 0 /\ Len(h) > MaxTicks)
    BY <1>3, <2>2, MaxTicksAssumption DEF Retained
  <2> QED
    BY <2>1, <2>2
<1> HIDE DEF k
<1>5. SealTick(l) = [current |-> << >>, history |-> k]
  BY <1>1 DEF SealTick, h, k
<1>6. << >> \in Seq(TickLogs)
  OBVIOUS
<1> QED
  BY <1>2, <1>4, <1>5, <1>6 DEF Logs, Sealed

LEMMA ThroughAll ==
  ASSUME NEW s \in States, NEW t \in States, NEW u \in States, Through(s, t), Through(t, u)
  PROVE  Through(s, u)
<1>1. Len(s) \in Nat /\ Len(t) \in Nat /\ Len(u) \in Nat
  BY DEF States
<1> QED
  BY <1>1 DEF Through

-----------------------------------------------------------------------------
(* The other steps.                                                        *)

LEMMA TickBeginStep ==
  ASSUME Inv, TickBegin
  PROVE  Inv'
<1>0. /\ TypeInv /\ TickInv /\ WindowInv /\ VerdictInv /\ PackageInv /\ KeepsUpInv
      /\ cur.charged = cur.receipts
  BY DEF Inv
<1>1. /\ pc = "idle" /\ tick < MaxTick /\ pc' = "ticking" /\ tick' = tick + 1
      /\ cur' = [NoTick EXCEPT !.pre = mem] /\ log' = BeginTick(log, tick + 1)
      /\ UNCHANGED <<mem, window, missed, odd, cfg, interval, since, verified, verdict, stored, pkg,
                     starts>>
  BY DEF TickBegin, loopVars, hostVars
<1>2. tick \in Nat /\ MaxTick \in Nat /\ tick + 1 \in 0..MaxTick /\ tick + 1 # 0 /\ log \in Logs
  BY <1>0, <1>1, ReplayAssumption DEF TypeInv, Logs
<1> DEFINE t == [tick |-> tick + 1, entries |-> << >>]
<1>3. t \in TickLogs /\ t.tick = tick + 1 /\ t.entries = << >>
  BY <1>2 DEF TickLogs
<1>4. log' = [log EXCEPT !.current = <<t>>]
  BY <1>1 DEF BeginTick
<1> HIDE DEF t
<1>5. <<t>> \in Seq(TickLogs) /\ Len(<<t>>) = 1 /\ <<t>>[1] = t
  BY <1>3
<1>6. log' \in Logs /\ log'.history = log.history /\ log'.current = <<t>>
  BY <1>2, <1>4, <1>5 DEF Logs
<1>7. /\ cur' \in Ticks /\ cur'.pre = mem /\ cur'.calls = << >>
      /\ cur'.charged = 0 /\ cur'.receipts = 0
  <2>1. mem \in States
    BY <1>0 DEF TypeInv
  <2>2. cur' = [pre |-> mem, calls |-> << >>, hidden |-> FALSE, charged |-> 0, receipts |-> 0]
    BY <1>1 DEF NoTick
  <2>3. << >> \in Seq(Calls)
    OBVIOUS
  <2> QED
    BY <2>1, <2>2, <2>3 DEF Ticks
<1>8. TypeInv'
  <2>1. /\ cfg \in Configs /\ mem \in States /\ window \in Seq(Snaps) /\ Len(window) <= WindowSize
        /\ interval \in {cfg.configured, 1} /\ since \in Nat /\ verified \in 0..tick
        /\ stored \in [state : States, tick : 0..tick]
        /\ MaxTicks > 0 => Len(log.history) <= MaxTicks
    BY <1>0 DEF TypeInv
  <2>2. verified \in 0..(tick + 1) /\ stored \in [state : States, tick : 0..(tick + 1)]
    BY <1>2, <2>1
  <2>3. log' \in [current : Seq(TickLogs), history : Seq(TickLogs)]
    BY <1>6 DEF Logs
  <2> QED
    BY <1>1, <1>2, <1>6, <1>7, <2>1, <2>2, <2>3 DEF TypeInv
<1>9. TickInv'
  <2>1. Faithful(<< >>, << >>, cfg.used)
    BY DEF Faithful
  <2> QED
    BY <1>1, <1>2, <1>3, <1>5, <1>6, <1>7, <2>1 DEF TickInv
<1>10. WindowInv'
  <2>1. tick' - 1 = tick
    BY <1>1, <1>2
  <2> QED
    BY <1>0, <1>1, <2>1 DEF WindowInv
<1>11. VerdictInv' /\ PackageInv' /\ KeepsUpInv'
  BY <1>0, <1>1 DEF VerdictInv, PackageInv, KeepsUpInv
<1> QED
  BY <1>7, <1>8, <1>9, <1>10, <1>11 DEF Inv

LEMMA UseHiddenStep ==
  ASSUME Inv, UseHidden
  PROVE  Inv'
<1>0. /\ TypeInv /\ TickInv /\ WindowInv /\ VerdictInv /\ PackageInv /\ KeepsUpInv
      /\ cur.charged = cur.receipts
  BY DEF Inv
<1>1. /\ cur' = [cur EXCEPT !.hidden = TRUE]
      /\ UNCHANGED <<pc, mem, tick, log, window, missed, cfg, interval, since, verified, verdict,
                     stored, pkg, starts>>
  BY DEF UseHidden, loopVars, hostVars
<1>2. pc = "ticking"
  BY DEF UseHidden
<1>3. /\ cur' \in Ticks /\ cur'.pre = cur.pre /\ cur'.calls = cur.calls
      /\ cur'.charged = cur.charged /\ cur'.receipts = cur.receipts
  BY <1>0, <1>1 DEF TypeInv, Ticks
<1>4. TypeInv'
  BY <1>0, <1>1, <1>3 DEF TypeInv
<1>5. TickInv'
  BY <1>0, <1>1, <1>2, <1>3 DEF TickInv
<1>6. WindowInv' /\ VerdictInv' /\ PackageInv' /\ KeepsUpInv'
  BY <1>0, <1>1 DEF WindowInv, VerdictInv, PackageInv, KeepsUpInv
<1> QED
  BY <1>0, <1>3, <1>4, <1>5, <1>6 DEF Inv

\* What a tick leaves is a snapshot of it.
LEMMA SnapshotFacts ==
  ASSUME TypeInv, TickInv, pc = "ticking"
  PROVE  /\ Snapshot \in Snaps /\ Good(Snapshot, cfg.used) /\ Snapshot.tick = tick
         /\ Snapshot.pre = mem /\ Snapshot.post \in States /\ Through(mem, Snapshot.post)
         /\ Run(cur.pre, Replies(cur.calls), TRUE) \in States
         /\ Through(mem, Run(cur.pre, Replies(cur.calls), TRUE))
         /\ SealTick(log) \in Logs /\ SealTick(log).current = << >>
         /\ MaxTicks > 0 => Len(SealTick(log).history) <= MaxTicks
<1>1. /\ cur.pre = mem /\ mem \in States /\ cur.calls \in Seq(Calls) /\ cur.hidden \in BOOLEAN
      /\ tick \in Nat
  BY ReplayAssumption DEF TypeInv, TickInv, Ticks
<1>2. /\ log \in Logs /\ Len(log.current) = 1 /\ log.current[1].tick = tick
      /\ Faithful(cur.calls, log.current[1].entries, cfg.used)
      /\ MaxTicks > 0 => Len(log.history) <= MaxTicks
  BY DEF TypeInv, TickInv, Logs
<1>3. /\ SealTick(log) \in Logs /\ SealTick(log).current = << >>
      /\ MaxTicks > 0 => Len(SealTick(log).history) <= MaxTicks
      /\ Sealed(log) = log.current[1] /\ Sealed(log) \in TickLogs
  BY <1>2, SealFacts
<1>4. Replies(cur.calls) \in Seq(Reps)
  BY <1>1, RepliesType
<1> DEFINE rs == Replies(cur.calls)
           post == Run(cur.pre, rs, cur.hidden)
           tl == Sealed(log)
<1> HIDE DEF rs
<1>5. post \in States /\ Through(mem, post)
  BY <1>1, <1>4, RunFacts DEF rs
<1>6. Run(cur.pre, rs, TRUE) \in States /\ Through(mem, Run(cur.pre, rs, TRUE))
  BY <1>1, <1>4, RunFacts DEF rs
<1>7. Snapshot = [tick |-> tick, pre |-> cur.pre, post |-> post, log |-> tl,
                  calls |-> cur.calls, hidden |-> cur.hidden]
  BY DEF Snapshot, rs
<1>8. post = Run(cur.pre, Replies(cur.calls), cur.hidden)
  BY DEF rs
<1>9. tl \in TickLogs /\ tl.tick = tick /\ Faithful(cur.calls, tl.entries, cfg.used)
  BY <1>2, <1>3
<1> HIDE DEF post, tl
<1> DEFINE s == Snapshot
<1>10. /\ s \in Snaps /\ s.tick = tick /\ s.pre = cur.pre /\ s.post = post /\ s.log = tl
       /\ s.calls = cur.calls /\ s.hidden = cur.hidden
  BY <1>1, <1>5, <1>7, <1>9 DEF Snaps
<1> HIDE DEF s
<1>11. Good(s, cfg.used)
  BY <1>8, <1>9, <1>10 DEF Good
<1> QED
  BY <1>1, <1>3, <1>5, <1>6, <1>10, <1>11 DEF s, rs

LEMMA NoTickType == NoTick \in Ticks /\ NoTick.charged = NoTick.receipts
<1>1. << >> \in Seq(Calls) /\ << >> \in States
  BY DEF States
<1> QED
  BY <1>1 DEF NoTick, Ticks

\* What the invariant says of the rest of a window that has a snapshot s
\* added to it.
LEMMA GrownInv ==
  ASSUME TypeInv, WindowInv, pc = "ticking", NEW s \in Snaps, Good(s, cfg.used), s.tick = tick,
         s.pre = mem, s.post \in States, Through(mem, s.post), NEW r, Grown(r, window, s)
  PROVE  /\ \A i \in DOMAIN r : Good(r[i], cfg.used) /\ Through(r[i].post, s.post)
         /\ \A i, j \in DOMAIN r :
              i < j => r[i].tick < r[j].tick /\ Through(r[i].post, r[j].pre)
<1>1. /\ r \in Seq(Snaps) /\ Len(r) \in 1..WindowSize /\ r[Len(r)] = s
      /\ \A i \in 1..(Len(r) - 1) : \E k \in 1..Len(window) : r[i] = window[k]
      /\ \A i, j \in 1..(Len(r) - 1) :
           i < j => \E k, l \in 1..Len(window) : k < l /\ r[i] = window[k] /\ r[j] = window[l]
  BY DEF Grown
<1> DEFINE n == Len(r)
<1>2. n \in Nat /\ n > 0 /\ DOMAIN r = 1..n /\ r[n] = s
  BY <1>1, ReplayAssumption
<1>3. ASSUME NEW k \in 1..Len(window)
      PROVE  /\ Good(window[k], cfg.used) /\ Through(window[k].post, mem)
             /\ Through(window[k].post, s.post) /\ window[k].tick < tick
  <2>1. window \in Seq(Snaps) /\ window # << >> /\ Len(window) \in Nat /\ mem \in States
    BY DEF TypeInv
  <2>2. /\ Good(window[k], cfg.used) /\ Through(window[k].post, mem)
        /\ k < Len(window) => window[k].tick < window[Len(window)].tick
        /\ window[Len(window)].tick = tick - 1
    BY <2>1 DEF WindowInv
  <2>3. window[k] \in Snaps /\ window[Len(window)] \in Snaps /\ tick \in Nat
    BY <2>1, ReplayAssumption DEF TypeInv
  <2>4. window[k].tick \in Nat /\ window[k].post \in States
    BY <2>3 DEF Snaps
  <2>5. window[k].tick < tick
    BY <2>1, <2>2, <2>3, <2>4
  <2> QED
    BY <2>1, <2>2, <2>4, <2>5, ThroughAll
<1>4. \A i \in 1..(n - 1) : \E k \in 1..Len(window) : r[i] = window[k]
  BY <1>1
<1>5. ASSUME NEW i \in 1..(n - 1), NEW j \in 1..(n - 1), i < j
      PROVE  r[i].tick < r[j].tick /\ Through(r[i].post, r[j].pre)
  <2>1. PICK k, l \in 1..Len(window) : k < l /\ r[i] = window[k] /\ r[j] = window[l]
    BY <1>1, <1>5
  <2>2. window \in Seq(Snaps)
    BY DEF TypeInv
  <2>3. window[k].tick < window[l].tick /\ Through(window[k].post, window[l].pre)
    BY <2>1, <2>2 DEF WindowInv
  <2> QED
    BY <2>1, <2>3
<1> HIDE DEF n
<1>6. Through(s.post, s.post)
  <2>1. Len(s.post) \in Nat
    BY DEF States
  <2> QED
    BY <2>1 DEF Through
<1>7. ASSUME NEW i \in 1..n PROVE Good(r[i], cfg.used) /\ Through(r[i].post, s.post)
  <2>1. CASE i = n
    BY <1>2, <1>6, <2>1
  <2>2. CASE i # n
    <3>1. i \in 1..(n - 1)
      BY <1>2, <2>2
    <3> QED
      BY <1>3, <1>4, <3>1
  <2> QED
    BY <2>1, <2>2
<1>8. ASSUME NEW i \in 1..n, NEW j \in 1..n, i < j
      PROVE  r[i].tick < r[j].tick /\ Through(r[i].post, r[j].pre)
  <2>1. i \in 1..(n - 1)
    BY <1>2, <1>8
  <2>2. CASE j = n
    <3>1. PICK k \in 1..Len(window) : r[i] = window[k]
      BY <1>4, <2>1
    <3> QED
      BY <1>2, <1>3, <2>2, <3>1
  <2>3. CASE j # n
    <3>1. j \in 1..(n - 1)
      BY <1>2, <2>3
    <3> QED
      BY <1>5, <1>8, <2>1, <3>1
  <2> QED
    BY <2>2, <2>3
<1> QED
  BY <1>2, <1>7, <1>8

LEMMA TickDoneStep ==
  ASSUME Inv, TickDone
  PROVE  Inv'
<1>0. /\ TypeInv /\ TickInv /\ WindowInv /\ VerdictInv /\ PackageInv /\ KeepsUpInv
      /\ cur.charged = cur.receipts
  BY DEF Inv
<1> DEFINE s == Snapshot
           r == WindowAfter(window, s)
<1>1. /\ pc = "ticking" /\ cfg.host = "lab" /\ mem' = s.post /\ log' = SealTick(log)
      /\ missed' = (missed \/ Misses(window, s)) /\ window' = r /\ since' = since + 1
      /\ pc' = (IF interval > 0 /\ since + 1 >= interval THEN "verify" ELSE "idle")
      /\ cur' = NoTick
      /\ UNCHANGED <<cfg, tick, interval, verified, verdict, odd, stored, pkg, starts>>
  BY DEF TickDone, hostVars
<1>2. /\ s \in Snaps /\ Good(s, cfg.used) /\ s.tick = tick
      /\ s.pre = mem /\ s.post \in States /\ Through(mem, s.post)
      /\ SealTick(log) \in Logs /\ SealTick(log).current = << >>
      /\ MaxTicks > 0 => Len(SealTick(log).history) <= MaxTicks
  BY <1>0, <1>1, SnapshotFacts
<1> HIDE DEF s
<1>3. window \in Seq(Snaps) /\ Len(window) <= WindowSize /\ since \in Nat
  BY <1>0 DEF TypeInv
<1>4. Grown(r, window, s)
  BY <1>2, <1>3, WindowGrows
<1> HIDE DEF r
<1>5. /\ \A i \in DOMAIN r : Good(r[i], cfg.used) /\ Through(r[i].post, s.post)
      /\ \A i, j \in DOMAIN r : i < j => r[i].tick < r[j].tick /\ Through(r[i].post, r[j].pre)
  BY <1>0, <1>1, <1>2, <1>4, GrownInv
<1>6. /\ r \in Seq(Snaps) /\ Len(r) \in Nat /\ Len(r) <= WindowSize /\ r[Len(r)] = s
      /\ \A i \in 1..(Len(r) - 1) : \E k \in 1..Len(window) : r[i] = window[k]
  BY <1>4, ReplayAssumption DEF Grown
<1>7. pc' \in {"verify", "idle"}
  BY <1>1
<1>8. TypeInv'
  <2>1. since + 1 \in Nat
    BY <1>3
  <2> QED
    BY <1>0, <1>1, <1>2, <1>6, <1>7, <2>1, NoTickType DEF TypeInv, Logs
<1>9. TickInv'
  BY <1>1, <1>2, <1>7 DEF TickInv
<1>10. WindowInv'
  BY <1>1, <1>2, <1>5, <1>6, <1>7 DEF WindowInv
<1>11. VerdictInv' /\ PackageInv'
  BY <1>0, <1>1 DEF VerdictInv, PackageInv
<1>12. KeepsUpInv'
  <2>1. ASSUME cfg.configured = 1
        PROVE  missed' = FALSE /\ pc' = "verify" /\ \A i \in 1..(Len(r) - 1) : Checked(r[i], verified)
    <3>1. pc' = "verify"
      BY <1>0, <1>1, <1>3, <2>1 DEF TypeInv
    <3>2. missed = FALSE /\ \A k \in 1..Len(window) : Checked(window[k], verified)
      BY <1>0, <1>1, <1>3, <2>1 DEF KeepsUpInv
    <3>3. \A i \in 1..(Len(r) - 1) : Checked(r[i], verified)
      BY <1>6, <3>2
    <3>4. ~Misses(window, s)
      <4>1. SUFFICES ASSUME Len(window) = WindowSize, NEW e, e = EvictIdx(Append(window, s)),
                            Append(window, s)[e].tick > verified,
                            Append(window, s)[e].log.entries # << >>
                     PROVE  FALSE
        BY DEF Misses
      <4>2. /\ Append(window, s) \in Seq(Snaps) /\ Len(Append(window, s)) = Len(window) + 1
            /\ Len(window) + 1 > 1 /\ \A i \in 1..Len(window) : Append(window, s)[i] = window[i]
        BY <1>2, <1>3, <4>1, ReplayAssumption
      <4>3. e \in 1..(Len(Append(window, s)) - 1)
        BY <4>1, <4>2, EvictFacts
      <4>4. e \in 1..Len(window)
        BY <1>3, <4>2, <4>3
      <4>5. window[e].tick > verified /\ window[e].log.entries # << >> /\ Checked(window[e], verified)
        BY <3>2, <4>1, <4>2, <4>4
      <4>6. window[e].tick \in Nat /\ verified \in Nat
        <5>1. window[e] \in Snaps
          BY <1>3, <4>4
        <5>2. tick \in Nat /\ verified \in 0..tick
          BY <1>0, ReplayAssumption DEF TypeInv
        <5> QED
          BY <5>1, <5>2 DEF Snaps
      <4> QED
        BY <4>5, <4>6 DEF Checked
    <3> QED
      BY <1>1, <3>1, <3>2, <3>3, <3>4
  <2> QED
    BY <1>1, <2>1 DEF KeepsUpInv
<1>13. cur'.charged = cur'.receipts
  BY <1>1, NoTickType
<1> QED
  BY <1>8, <1>9, <1>10, <1>11, <1>12, <1>13 DEF Inv

LEMMA TickFailsStep ==
  ASSUME Inv, TickFails
  PROVE  Inv'
<1>0. /\ TypeInv /\ TickInv /\ WindowInv /\ VerdictInv /\ PackageInv /\ KeepsUpInv
      /\ cur.charged = cur.receipts
  BY DEF Inv
<1> DEFINE end == Run(cur.pre, Replies(cur.calls), TRUE)
<1>1. /\ pc = "ticking" /\ mem' = end /\ log' = SealTick(log) /\ pc' = "stopped" /\ cur' = NoTick
      /\ stored' = stored \/ stored' = [state |-> mem', tick |-> tick]
      /\ UNCHANGED <<tick, window, missed, pkg, starts, cfg, interval, since, verified, verdict>>
  BY DEF TickFails, TrySave, loopVars
<1>2. /\ end \in States /\ Through(mem, end)
      /\ SealTick(log) \in Logs /\ SealTick(log).current = << >>
      /\ MaxTicks > 0 => Len(SealTick(log).history) <= MaxTicks
  BY <1>0, <1>1, SnapshotFacts
<1> HIDE DEF end
<1>3. stored' \in [state : States, tick : 0..tick]
  <2>1. tick \in 0..tick
    BY <1>0, ReplayAssumption DEF TypeInv
  <2> QED
    BY <1>0, <1>1, <1>2, <2>1 DEF TypeInv
<1>4. TypeInv'
  BY <1>0, <1>1, <1>2, <1>3, NoTickType DEF TypeInv, Logs
<1>5. TickInv'
  BY <1>1, <1>2 DEF TickInv
<1>6. WindowInv'
  <2>1. ASSUME NEW i \in DOMAIN window PROVE Through(window[i].post, end)
    <3>1. window[i] \in Snaps /\ mem \in States
      BY <1>0 DEF TypeInv
    <3>2. window[i].post \in States
      BY <3>1 DEF Snaps
    <3>3. Through(window[i].post, mem)
      BY <1>0 DEF WindowInv
    <3> QED
      BY <1>2, <3>1, <3>2, <3>3, ThroughAll
  <2> QED
    BY <1>0, <1>1, <2>1 DEF WindowInv
<1>7. VerdictInv' /\ PackageInv' /\ KeepsUpInv'
  BY <1>0, <1>1 DEF VerdictInv, PackageInv, KeepsUpInv
<1>8. cur'.charged = cur'.receipts
  BY <1>1, NoTickType
<1> QED
  BY <1>4, <1>5, <1>6, <1>7, <1>8 DEF Inv

LEMMA SimTickDoneStep ==
  ASSUME Inv, SimTickDone
  PROVE  Inv'
<1>0. /\ TypeInv /\ TickInv /\ WindowInv /\ VerdictInv /\ PackageInv /\ KeepsUpInv
      /\ cur.charged = cur.receipts
  BY DEF Inv
<1> DEFINE s == Snapshot
           ok == Matches(s)
<1>1. /\ pc = "ticking" /\ cfg.host # "lab" /\ mem' = s.post /\ log' = SealTick(log)
      /\ verdict' = <<[snap |-> s, ok |-> ok]>> /\ pc' = "idle" /\ cur' = NoTick
      /\ UNCHANGED <<cfg, tick, window, missed, interval, since, verified, odd, stored, pkg, starts>>
  BY DEF SimTickDone, hostVars
<1>2. /\ s.post \in States /\ Good(s, cfg.used)
      /\ SealTick(log) \in Logs /\ SealTick(log).current = << >>
      /\ MaxTicks > 0 => Len(SealTick(log).history) <= MaxTicks
  BY <1>0, <1>1, SnapshotFacts
<1> HIDE DEF s
<1>3. ok <=> Fine(s, cfg.used)
  BY <1>0, <1>2, MatchesExact DEF TypeInv
<1> HIDE DEF ok
<1>4. TypeInv'
  BY <1>0, <1>1, <1>2, NoTickType DEF TypeInv, Logs
<1>5. TickInv'
  BY <1>1, <1>2 DEF TickInv
<1>6. window = << >> /\ DOMAIN window = {}
  BY <1>0, <1>1 DEF WindowInv
<1>7. WindowInv'
  BY <1>1, <1>6 DEF WindowInv
<1>8. VerdictInv'
  <2>1. verdict'[1].ok = ok /\ verdict'[1].snap = s
    BY <1>1
  <2> QED
    BY <1>1, <1>3, <2>1 DEF VerdictInv
<1>9. PackageInv' /\ KeepsUpInv'
  BY <1>0, <1>1 DEF PackageInv, KeepsUpInv
<1>10. cur'.charged = cur'.receipts
  BY <1>1, NoTickType
<1> QED
  BY <1>4, <1>5, <1>7, <1>8, <1>9, <1>10 DEF Inv

\* What the answer to a verdict may do to the loop.
LEMMA HandleFacts ==
  ASSUME Inv, NEW action, HandleDivergenceAction(action), UNCHANGED <<mem, tick, cfg>>
  PROVE  /\ pc' = (IF action \in {"pause", "migrate"} THEN "stopped" ELSE "idle")
         /\ interval' \in {cfg.configured, 1}
         /\ stored' \in [state : States, tick : 0..tick]
<1>1. /\ interval \in {cfg.configured, 1} /\ stored \in [state : States, tick : 0..tick]
      /\ mem \in States /\ tick \in 0..tick
  BY ReplayAssumption DEF Inv, TypeInv
<1>2. [state |-> mem, tick |-> tick] \in [state : States, tick : 0..tick]
  BY <1>1
<1> QED
  BY <1>1, <1>2 DEF HandleDivergenceAction, TrySave

LEMMA VerifyNextTickStep ==
  ASSUME Inv, VerifyNextTick
  PROVE  Inv'
<1>0. /\ TypeInv /\ TickInv /\ WindowInv /\ VerdictInv /\ PackageInv /\ KeepsUpInv
      /\ cur.charged = cur.receipts
  BY DEF Inv
<1>1. /\ pc = "verify" /\ since' = 0
      /\ UNCHANGED <<cfg, mem, tick, log, window, cur, missed, pkg, odd, starts>>
  BY DEF VerifyNextTick
<1>2. log.current = << >> /\ cur = NoTick
  BY <1>0, <1>1 DEF TickInv
<1>3. window \in Seq(Snaps) /\ Len(window) \in Nat /\ tick \in Nat /\ verified \in 0..tick
  BY <1>0, ReplayAssumption DEF TypeInv
<1>4. ASSUME pc' \in {"idle", "stopped"}, interval' \in {cfg.configured, 1},
             stored' \in [state : States, tick : 0..tick], verified' \in 0..tick
      PROVE  TypeInv' /\ TickInv' /\ WindowInv' /\ PackageInv' /\ cur'.charged = cur'.receipts
  <2>1. TypeInv'
    BY <1>0, <1>1, <1>4 DEF TypeInv
  <2>2. TickInv'
    BY <1>1, <1>2, <1>4 DEF TickInv
  <2>3. WindowInv'
    BY <1>0, <1>1, <1>4 DEF WindowInv
  <2>4. PackageInv'
    BY <1>0, <1>1 DEF PackageInv
  <2> QED
    BY <1>0, <1>1, <2>1, <2>2, <2>3, <2>4
<1>5. ASSUME NEW i \in DOMAIN window
      PROVE  window[i].tick \in Nat /\ (i \in Pending <=> ~Checked(window[i], verified))
  <2>1. window[i] \in Snaps
    BY <1>3
  <2>2. window[i].tick \in Nat
    BY <2>1 DEF Snaps
  <2> QED
    BY <1>3, <2>2 DEF Pending, Checked
<1>6. CASE Pending = {}
  <2>1. HandleDivergenceAction("none") /\ UNCHANGED <<verified, verdict>>
    BY <1>6 DEF VerifyNextTick
  <2>2. /\ pc' = "idle" /\ interval' \in {cfg.configured, 1}
        /\ stored' \in [state : States, tick : 0..tick]
    BY <1>1, <2>1, HandleFacts
  <2>3. \A i \in DOMAIN window : Checked(window[i], verified)
    BY <1>5, <1>6
  <2>4. VerdictInv'
    BY <1>0, <1>1, <2>1 DEF VerdictInv
  <2>5. KeepsUpInv'
    BY <1>0, <1>1, <2>1, <2>2, <2>3 DEF KeepsUpInv
  <2>6. TypeInv' /\ TickInv' /\ WindowInv' /\ PackageInv' /\ cur'.charged = cur'.receipts
    BY <1>3, <1>4, <2>1, <2>2
  <2> QED
    BY <2>4, <2>5, <2>6 DEF Inv
<1>7. CASE Pending # {}
  <2> DEFINE m == Min(Pending)
             snap == window[m]
             ok == Matches(snap)
             action == IF ok THEN "none" ELSE EscalationForPolicy(cfg.policy)
  <2>1. verified' = snap.tick /\ verdict' = <<[snap |-> snap, ok |-> ok]>>
        /\ HandleDivergenceAction(action)
    BY <1>7 DEF VerifyNextTick
  <2>2. Pending \in SUBSET Nat
    BY <1>3 DEF Pending
  <2>3. m \in Pending
    BY <1>7, <2>2, LeastIs
  <2>4. m \in DOMAIN window /\ m \in 1..Len(window) /\ window # << >>
    BY <1>3, <2>3 DEF Pending
  <2> HIDE DEF m
  <2>5. Good(snap, cfg.used) /\ snap.tick \in Nat
    BY <1>0, <1>5, <2>4 DEF WindowInv
  <2>6. window[Len(window)].tick = tick
    BY <1>0, <1>1, <2>4 DEF WindowInv
  <2>7. \A i \in 1..Len(window) : window[i].tick <= tick
    <3>1. ASSUME NEW i \in 1..Len(window) PROVE window[i].tick <= tick
      <4>1. i \in DOMAIN window /\ Len(window) \in DOMAIN window
        BY <1>3, <2>4
      <4>2. i < Len(window) => window[i].tick < window[Len(window)].tick
        BY <1>0, <4>1 DEF WindowInv
      <4> QED
        BY <1>3, <1>5, <2>6, <4>1, <4>2
    <3> QED
      BY <3>1
  <2>8. verified' \in 0..tick
    BY <1>3, <2>1, <2>4, <2>5, <2>7
  <2> HIDE DEF snap
  <2>9. ok <=> Fine(snap, cfg.used)
    BY <1>0, <2>5, MatchesExact DEF TypeInv
  <2> HIDE DEF ok
  <2>10. /\ pc' = (IF action \in {"pause", "migrate"} THEN "stopped" ELSE "idle")
         /\ interval' \in {cfg.configured, 1} /\ stored' \in [state : States, tick : 0..tick]
    <3> HIDE DEF action
    <3> QED
      BY <1>1, <2>1, HandleFacts
  <2>11. VerdictInv'
    <3>1. verdict'[1].ok = ok /\ verdict'[1].snap = snap
      BY <2>1
    <3>2. cfg.policy \in {"pause", "migrate"} /\ ~ok => pc' = "stopped"
      BY <2>10 DEF EscalationForPolicy
    <3> QED
      BY <1>1, <2>9, <3>1, <3>2 DEF VerdictInv
  <2>12. KeepsUpInv'
    <3>1. ASSUME cfg.configured = 1, NEW i \in DOMAIN window PROVE Checked(window[i], verified')
      <4>1. \A k \in 1..(Len(window) - 1) : Checked(window[k], verified)
        BY <1>0, <1>1, <3>1 DEF KeepsUpInv
      <4>2. m = Len(window)
        <5>1. ~Checked(window[m], verified)
          BY <1>5, <2>3, <2>4
        <5> QED
          BY <1>3, <2>4, <4>1, <5>1
      <4>3. verified' = tick
        BY <2>1, <2>6, <4>2 DEF snap
      <4>4. window[i].tick <= tick
        BY <1>3, <2>7
      <4> QED
        BY <4>3, <4>4 DEF Checked
    <3>2. pc' # "verify"
      BY <2>10
    <3> QED
      BY <1>0, <1>1, <3>1, <3>2 DEF KeepsUpInv
  <2>13. TypeInv' /\ TickInv' /\ WindowInv' /\ PackageInv' /\ cur'.charged = cur'.receipts
    <3>1. pc' \in {"idle", "stopped"}
      BY <2>10
    <3> QED
      BY <1>4, <2>8, <2>10, <3>1
  <2> QED
    BY <2>11, <2>12, <2>13 DEF Inv
<1> QED
  BY <1>6, <1>7

LEMMA SaveCheckpointStep ==
  ASSUME Inv, SaveCheckpoint
  PROVE  Inv'
<1>0. /\ TypeInv /\ TickInv /\ WindowInv /\ VerdictInv /\ PackageInv /\ KeepsUpInv
      /\ cur.charged = cur.receipts
  BY DEF Inv
<1>1. /\ stored' = [state |-> mem, tick |-> tick]
      /\ UNCHANGED <<pc, mem, tick, log, window, cur, missed, pkg, odd, starts, cfg, interval, since,
                     verified, verdict>>
  BY DEF SaveCheckpoint, loopVars
<1>2. stored' \in [state : States, tick : 0..tick]
  <2>1. mem \in States /\ tick \in 0..tick
    BY <1>0, ReplayAssumption DEF TypeInv
  <2> QED
    BY <1>1, <2>1
<1>3. TypeInv'
  BY <1>0, <1>1, <1>2 DEF TypeInv
<1>4. TickInv' /\ WindowInv' /\ VerdictInv' /\ PackageInv' /\ KeepsUpInv'
  BY <1>0, <1>1 DEF TickInv, WindowInv, VerdictInv, PackageInv, KeepsUpInv
<1> QED
  BY <1>0, <1>1, <1>3, <1>4 DEF Inv

LEMMA NoPackageType ==
  /\ NoPackage \in [phase : {"none", "loaded", "sent", "accepted", "rejected", "trusted"},
                    state : States, data : Seq(Snaps)]
  /\ NoPackage.data = << >> /\ NoPackage.phase = "none"
<1>1. << >> \in Seq(Snaps) /\ << >> \in States
  BY DEF States
<1> QED
  BY <1>1 DEF NoPackage

LEMMA InitInv ==
  ASSUME Init
  PROVE  Inv
<1>0. /\ cfg \in Configs /\ pc = "idle" /\ mem = << >> /\ tick = 0 /\ log = NewEventLog
      /\ window = << >> /\ cur = NoTick /\ interval = cfg.configured /\ since = 0 /\ verified = 0
      /\ stored = [state |-> << >>, tick |-> 0] /\ verdict = << >> /\ missed = FALSE
      /\ pkg = NoPackage
  BY DEF Init
<1>1. /\ << >> \in Seq(TickLogs) /\ << >> \in Seq(Snaps) /\ Len(<< >>) = 0 /\ DOMAIN << >> = {}
      /\ << >> \in States
  BY DEF States
<1>2. 0 \in 0..MaxTick /\ 0 \in 0..0 /\ WindowSize \in Nat
  BY ReplayAssumption
<1>3. /\ log \in [current : Seq(TickLogs), history : Seq(TickLogs)]
      /\ log.current = << >> /\ log.history = << >>
  BY <1>0, <1>1 DEF NewEventLog
<1>4. MaxTicks > 0 => Len(log.history) <= MaxTicks
  BY <1>1, <1>3, MaxTicksAssumption
<1>5. window \in Seq(Snaps) /\ Len(window) <= WindowSize
  BY <1>0, <1>1, <1>2
<1>6. stored \in [state : States, tick : 0..0]
  BY <1>0, <1>1, <1>2
<1>7. TypeInv
  BY <1>0, <1>1, <1>2, <1>3, <1>4, <1>5, <1>6, NoTickType DEF TypeInv
<1>8. TickInv
  BY <1>0, <1>3 DEF TickInv
<1>9. WindowInv /\ KeepsUpInv
  BY <1>0, <1>1 DEF WindowInv, KeepsUpInv
<1>10. VerdictInv
  BY <1>0 DEF VerdictInv
<1>11. PackageInv
  BY <1>0, NoPackageType DEF PackageInv
<1> QED
  BY <1>0, <1>7, <1>8, <1>9, <1>10, <1>11, NoTickType DEF Inv

LEMMA RestartStep ==
  ASSUME Inv, Restart
  PROVE  Inv'
<1>0. /\ cfg \in Configs /\ stored \in [state : States, tick : 0..tick] /\ tick \in 0..MaxTick
      /\ MaxTick \in Nat /\ WindowSize \in Nat
  BY ReplayAssumption DEF Inv, TypeInv
<1>1. /\ cfg' = cfg /\ pc' = "idle" /\ mem' = stored.state /\ tick' = stored.tick
      /\ log' = NewEventLog /\ window' = << >> /\ cur' = NoTick /\ interval' = cfg.configured
      /\ since' = 0 /\ verified' = 0 /\ stored' = stored /\ verdict' = << >> /\ missed' = FALSE
      /\ pkg' = NoPackage
  BY DEF Restart
<1>2. /\ << >> \in Seq(TickLogs) /\ << >> \in Seq(Snaps) /\ Len(<< >>) = 0 /\ DOMAIN << >> = {}
  OBVIOUS
<1>3. /\ mem' \in States /\ tick' \in 0..MaxTick /\ verified' \in 0..tick'
      /\ stored' \in [state : States, tick : 0..tick']
  <2>1. stored = [state |-> stored.state, tick |-> stored.tick]
    BY <1>0
  <2>2. stored.state \in States /\ stored.tick \in 0..tick
    BY <1>0
  <2>3. stored.tick \in 0..MaxTick /\ stored.tick \in 0..stored.tick /\ 0 \in 0..stored.tick
    BY <1>0, <2>2
  <2>4. stored \in [state : States, tick : 0..stored.tick]
    BY <2>1, <2>2, <2>3
  <2> QED
    BY <1>1, <2>2, <2>3, <2>4
<1>4. /\ log' \in [current : Seq(TickLogs), history : Seq(TickLogs)]
      /\ log'.current = << >> /\ log'.history = << >>
  BY <1>1, <1>2 DEF NewEventLog
<1>5. MaxTicks > 0 => Len(log'.history) <= MaxTicks
  BY <1>2, <1>4, MaxTicksAssumption
<1>6. window' \in Seq(Snaps) /\ Len(window') <= WindowSize
  BY <1>0, <1>1, <1>2
<1>7. TypeInv'
  BY <1>0, <1>1, <1>3, <1>4, <1>5, <1>6, NoTickType DEF TypeInv
<1>8. TickInv'
  BY <1>1, <1>4 DEF TickInv
<1>9. WindowInv' /\ KeepsUpInv'
  BY <1>1, <1>2 DEF WindowInv, KeepsUpInv
<1>10. VerdictInv'
  BY <1>1 DEF VerdictInv
<1>11. PackageInv'
  BY <1>1, NoPackageType DEF PackageInv
<1> QED
  BY <1>1, <1>7, <1>8, <1>9, <1>10, <1>11, NoTickType DEF Inv

\* A step that only changes the package.
LEMMA PackageStep ==
  ASSUME Inv, PackageInv',
         UNCHANGED <<pc, mem, tick, log, window, cur, missed, stored, odd, starts, loopVars>>
  PROVE  Inv'
<1>0. /\ TypeInv /\ TickInv /\ WindowInv /\ VerdictInv /\ KeepsUpInv /\ cur.charged = cur.receipts
  BY DEF Inv
<1>1. UNCHANGED <<pc, mem, tick, log, window, cur, missed, stored, cfg, interval, since, verified,
                  verdict>>
  BY DEF loopVars
<1>2. TypeInv' /\ TickInv' /\ WindowInv' /\ VerdictInv' /\ KeepsUpInv'
  BY <1>0, <1>1 DEF TypeInv, TickInv, WindowInv, VerdictInv, KeepsUpInv
<1> QED
  BY <1>0, <1>1, <1>2 DEF Inv

LEMMA PackCheckpointStep ==
  ASSUME Inv, PackCheckpoint
  PROVE  Inv'
<1>1. stored.state \in States
  BY DEF Inv, TypeInv
<1>2. pkg' = [phase |-> "loaded", state |-> stored.state, data |-> << >>]
  BY DEF PackCheckpoint
<1>3. << >> \in Seq(Snaps)
  OBVIOUS
<1>4. /\ pkg' \in [phase : {"none", "loaded", "sent", "accepted", "rejected", "trusted"},
                   state : States, data : Seq(Snaps)]
      /\ pkg'.data = << >> /\ pkg'.phase = "loaded"
  BY <1>1, <1>2, <1>3
<1>5. PackageInv'
  BY <1>4 DEF PackageInv
<1> QED
  BY <1>5, PackageStep DEF PackCheckpoint

LEMMA PackReplayDataStep ==
  ASSUME Inv, PackReplayData
  PROVE  Inv'
<1>0. PackageInv /\ WindowInv /\ window \in Seq(Snaps) /\ cfg' = cfg
  BY DEF Inv, TypeInv, PackReplayData, loopVars
<1> DEFINE data == replayDataFromInstance(pkg.state)
<1>1. pkg' = [pkg EXCEPT !.phase = "sent", !.data = data]
  BY DEF PackReplayData
<1>2. /\ data \in Seq(Snaps)
      /\ data # << >> => Good(data[1], cfg.used) /\ data[1].post = pkg.state
  <2>1. CASE window # << >> /\ Last(window).post = pkg.state
    <3> DEFINE s == window[Len(window)]
    <3>1. data = <<s>> /\ s.post = pkg.state
      BY <2>1 DEF replayDataFromInstance, Last
    <3>2. Len(window) \in DOMAIN window /\ s \in Snaps
      BY <1>0, <2>1
    <3>3. Good(s, cfg.used)
      BY <1>0, <3>2 DEF WindowInv
    <3> HIDE DEF s, data
    <3>4. <<s>> \in Seq(Snaps) /\ <<s>>[1] = s
      BY <3>2
    <3> QED
      BY <3>1, <3>3, <3>4
  <2>2. CASE ~(window # << >> /\ Last(window).post = pkg.state)
    BY <2>2 DEF replayDataFromInstance
  <2> QED
    BY <2>1, <2>2
<1> HIDE DEF data
<1>3. /\ pkg' \in [phase : {"none", "loaded", "sent", "accepted", "rejected", "trusted"},
                   state : States, data : Seq(Snaps)]
      /\ pkg'.data = data /\ pkg'.phase = "sent" /\ pkg'.state = pkg.state
  <2> DEFINE P == [phase : {"none", "loaded", "sent", "accepted", "rejected", "trusted"},
                   state : States, data : Seq(Snaps)]
             h == [pkg EXCEPT !.phase = "sent"]
  <2>1. pkg \in P
    BY <1>0 DEF PackageInv
  <2>2. h \in P /\ h.phase = "sent" /\ h.state = pkg.state
    BY <2>1
  <2>3. pkg' = [h EXCEPT !.data = data]
    BY <1>1, <2>1
  <2> HIDE DEF h
  <2> QED
    BY <1>2, <2>2, <2>3
<1>4. PackageInv'
  BY <1>0, <1>2, <1>3 DEF PackageInv
<1> QED
  BY <1>4, PackageStep DEF PackReplayData

LEMMA verifyMigrationReplayStep ==
  ASSUME Inv, verifyMigrationReplay
  PROVE  Inv'
<1>0. PackageInv /\ cfg \in Configs /\ cfg' = cfg
  BY DEF Inv, TypeInv, verifyMigrationReplay, loopVars
<1> DEFINE d == pkg.data[1]
           r == ReplayTick(d.pre, d.log, d.calls)
           phase == IF pkg.data = << >> THEN "trusted"
                    ELSE IF ~r.error /\ r.state = pkg.state THEN "accepted" ELSE "rejected"
<1>1. pkg' = [pkg EXCEPT !.phase = phase]
  BY DEF verifyMigrationReplay
<1>2. phase \in {"accepted", "rejected", "trusted"}
  OBVIOUS
<1>3. phase \in {"accepted", "rejected"} => (phase = "accepted" <=> Fine(d, cfg.used))
  <2>1. CASE pkg.data = << >>
    BY <2>1
  <2>2. CASE pkg.data # << >>
    <3>1. Good(d, cfg.used) /\ d.post = pkg.state
      BY <1>0, <2>2 DEF PackageInv
    <3>2. (~r.error /\ r.state = d.post) <=> Fine(d, cfg.used)
      <4> HIDE DEF d
      <4> QED
        BY <1>0, <3>1, MatchesExact
    <3> HIDE DEF r, d
    <3> QED
      BY <2>2, <3>1, <3>2
  <2> QED
    BY <2>1, <2>2
<1> HIDE DEF phase
<1>4. /\ pkg' \in [phase : {"none", "loaded", "sent", "accepted", "rejected", "trusted"},
                   state : States, data : Seq(Snaps)]
      /\ pkg'.data = pkg.data /\ pkg'.phase = phase /\ pkg'.state = pkg.state
  BY <1>0, <1>1, <1>2 DEF PackageInv
<1>5. PackageInv'
  BY <1>0, <1>3, <1>4 DEF PackageInv
<1> QED
  BY <1>5, PackageStep DEF verifyMigrationReplay

LEMMA StutterStep ==
  ASSUME Inv, UNCHANGED vars
  PROVE  Inv'
BY DEF vars, Inv, TypeInv, TickInv, WindowInv, VerdictInv, PackageInv, KeepsUpInv

\* The invariant holds after every step.
LEMMA InvStep == Inv /\ [Next]_vars => Inv'
<1> SUFFICES ASSUME Inv, [Next]_vars PROVE Inv'
  OBVIOUS
<1>1. CASE TickBegin
  BY <1>1, TickBeginStep
<1>2. ASSUME NEW k \in Kinds, Observe(k) \/ ObserveSim(k) \/ Refused(k) PROVE Inv'
  BY <1>2, ObserveStep, ObserveSimStep, RefusedStep
<1>3. CASE Pay
  BY <1>3, PayStep
<1>4. CASE Request
  BY <1>4, RequestStep
<1>5. CASE UseHidden
  BY <1>5, UseHiddenStep
<1>6. CASE TickDone
  BY <1>6, TickDoneStep
<1>7. CASE TickFails
  BY <1>7, TickFailsStep
<1>8. CASE SimTickDone
  BY <1>8, SimTickDoneStep
<1>9. CASE VerifyNextTick
  BY <1>9, VerifyNextTickStep
<1>10. CASE SaveCheckpoint
  BY <1>10, SaveCheckpointStep
<1>11. CASE Restart
  BY <1>11, RestartStep
<1>12. CASE PackCheckpoint
  BY <1>12, PackCheckpointStep
<1>13. CASE PackReplayData
  BY <1>13, PackReplayDataStep
<1>14. CASE verifyMigrationReplay
  BY <1>14, verifyMigrationReplayStep
<1>15. CASE UNCHANGED vars
  BY <1>15, StutterStep
<1> QED
  BY <1>1, <1>2, <1>3, <1>4, <1>5, <1>6, <1>7, <1>8, <1>9, <1>10, <1>11, <1>12, <1>13, <1>14, <1>15
  DEF Next

-----------------------------------------------------------------------------
(* The theorems.                                                           *)

\* The inductive invariant: the open tick log holds one entry for each call
\* or too few, every snapshot is that of a tick that took place, the window
\* is a part of the agent's history in its order, and verdicts and packages
\* agree with what was recorded.
THEOREM InvCorrect == Spec => []Inv
<1>1. Init => Inv
  BY InitInv
<1>2. Inv /\ [Next]_vars => Inv'
  BY InvStep
<1> QED
  BY <1>1, <1>2, PTL DEF Spec

\* Counters stay in their ranges, a tick log is open exactly during a tick,
\* and the window and the history never hold more than their bounds.
THEOREM TypeCorrect == Spec => []TypeOK
<1>1. Inv => TypeOK
  <2> SUFFICES ASSUME Inv PROVE TypeOK
    OBVIOUS
  <2>1. /\ pc \in {"idle", "ticking", "verify", "stopped"} /\ tick \in 0..MaxTick
        /\ MaxTicks > 0 => Len(log.history) <= MaxTicks
        /\ Len(window) <= WindowSize /\ interval \in {cfg.configured, 1} /\ verified \in 0..tick
    BY DEF Inv, TypeInv
  <2>2. log.current # << >> <=> pc = "ticking"
    <3> DEFINE c == log.current
    <3>1. c \in Seq(TickLogs) /\ (pc = "ticking" => Len(c) = 1) /\ (pc # "ticking" => c = << >>)
      BY DEF Inv, TypeInv, TickInv
    <3> HIDE DEF c
    <3>2. c # << >> <=> pc = "ticking"
      BY <3>1
    <3> QED
      BY <3>2 DEF c
  <2>3. \A i \in DOMAIN window : window[i].log.tick = window[i].tick
    BY DEF Inv, WindowInv, Good
  <2>4. pkg.phase \in {"none", "loaded", "sent", "accepted", "rejected", "trusted"}
    BY DEF Inv, PackageInv
  <2> QED
    BY <2>1, <2>2, <2>3, <2>4 DEF TypeOK
<1> QED
  BY <1>1, InvCorrect, PTL

LEMMA FineIs == \A s : Reproducible(s) <=> Fine(s, cfg.used)
BY DEF Reproducible, Fine, Succeeded, Used

\* Self-verification, and the simulator with its live or its deterministic
\* hostcalls, pass a tick exactly when it can be reproduced from what was
\* recorded. A tick with a refused call cannot, and that includes one that asks
\* the deterministic simulator for a receipt.
THEOREM VerdictExact == Spec => []VerdictIsExact
<1>1. Inv => VerdictIsExact
  BY FineIs DEF Inv, VerdictInv, VerdictIsExact
<1> QED
  BY <1>1, InvCorrect, PTL

\* The target of a migration accepts a package with replay data exactly when
\* the tick it carries can be reproduced, whatever the loop did meanwhile.
THEOREM AdmissionExact == Spec => []AdmissionIsExact
<1>1. Inv => AdmissionIsExact
  BY FineIs DEF Inv, PackageInv, AdmissionIsExact
<1> QED
  BY <1>1, InvCorrect, PTL

\* Eviction keeps the window in the order of the ticks and never drops the
\* snapshot of the tick that led to the agent's present state.
THEOREM WindowRecent == Spec => []WindowIsRecent
<1>1. Inv => WindowIsRecent
  BY DEF Inv, WindowInv, WindowIsRecent, Last
<1> QED
  BY <1>1, InvCorrect, PTL

\* Verified after every tick, no tick with observations stays unverified or
\* is evicted unverified.
THEOREM VerifierKeepsUp == Spec => []KeepsUp
<1>1. Inv => KeepsUp
  BY DEF Inv, KeepsUpInv, Checked, KeepsUp
<1> QED
  BY <1>1, InvCorrect, PTL

\* ReplayChain accepts a stretch of the window exactly when each of its ticks
\* can be reproduced and none is missing that changed the state.
THEOREM ChainCorrect == Spec => []ChainIsExact
<1>1. Inv => ChainIsExact
  <2> SUFFICES ASSUME Inv, NEW i \in DOMAIN window, NEW j \in i..Len(window)
               PROVE  ReplayChain(window[i].pre, SubSeq(window, i, j), window[j].post) <=>
                        /\ \A k \in i..j : Reproducible(window[k])
                        /\ \A k \in i..(j - 1) : window[k].post = window[k + 1].pre
    BY DEF ChainIsExact
  <2>1. cfg \in Configs /\ window \in Seq(Snaps) /\ WindowInv /\ Len(window) \in Nat
    BY DEF Inv, TypeInv
  <2>2. i \in 1..Len(window) /\ i \in Nat /\ j \in Nat /\ i <= j /\ j <= Len(window) /\ i > 0
    BY <2>1
  <2> DEFINE snaps == SubSeq(window, i, j)
             n == j - i + 1
  <2>3. /\ snaps \in Seq(Snaps) /\ Len(snaps) = n
        /\ \A k \in 1..n : snaps[k] = window[i + k - 1]
    BY <2>1, <2>2
  <2>4. n \in Nat /\ n # 0 /\ \A k \in 1..n : i + k - 1 \in DOMAIN window
    BY <2>1, <2>2
  <2> HIDE DEF snaps
  <2>5. \A k \in 1..n : Good(snaps[k], cfg.used)
    BY <2>1, <2>3, <2>4 DEF WindowInv
  <2>6. ASSUME NEW k \in 1..n, NEW l \in 1..n, k < l PROVE Through(snaps[k].post, snaps[l].pre)
    <3>1. i + k - 1 < i + l - 1
      BY <2>2, <2>4, <2>6
    <3>2. Through(window[i + k - 1].post, window[i + l - 1].pre)
      BY <2>1, <2>4, <3>1 DEF WindowInv
    <3> QED
      BY <2>3, <3>2
  <2> HIDE DEF n
  <2>7. ReplayChain(snaps[1].pre, snaps, snaps[n].post) <=>
          /\ \A k \in 1..n : Fine(snaps[k], cfg.used)
          /\ \A k \in 1..(n - 1) : snaps[k].post = snaps[k + 1].pre
    BY <2>1, <2>3, <2>4, <2>5, <2>6, ChainExact
  <2>8. snaps[1] = window[i] /\ snaps[n] = window[j]
    BY <2>2, <2>3, <2>4 DEF n
  <2>9. \A k \in i..j : k - i + 1 \in 1..n /\ i + (k - i + 1) - 1 = k
    BY <2>2 DEF n
  <2>10. ASSUME NEW k \in i..j PROVE k - i + 1 \in 1..n /\ snaps[k - i + 1] = window[k]
    BY <2>3, <2>9
  <2>11. (\A k \in 1..n : Fine(snaps[k], cfg.used)) <=> (\A k \in i..j : Fine(window[k], cfg.used))
    <3>1. ASSUME NEW k \in 1..n PROVE i + k - 1 \in i..j
      BY <2>2, <2>4 DEF n
    <3> QED
      BY <2>3, <2>10, <3>1
  <2>12. (\A k \in 1..(n - 1) : snaps[k].post = snaps[k + 1].pre) <=>
           (\A k \in i..(j - 1) : window[k].post = window[k + 1].pre)
    <3>1. ASSUME \A k \in 1..(n - 1) : snaps[k].post = snaps[k + 1].pre, NEW k \in i..(j - 1)
          PROVE  window[k].post = window[k + 1].pre
      <4>1. k \in i..j /\ k + 1 \in i..j /\ (k + 1) - i + 1 = (k - i + 1) + 1
        BY <2>2
      <4>2. k - i + 1 \in 1..(n - 1)
        BY <2>2, <4>1 DEF n
      <4>3. snaps[k - i + 1] = window[k] /\ snaps[(k - i + 1) + 1] = window[k + 1]
        BY <2>10, <4>1
      <4> QED
        BY <3>1, <4>2, <4>3
    <3>2. ASSUME \A k \in i..(j - 1) : window[k].post = window[k + 1].pre, NEW k \in 1..(n - 1)
          PROVE  snaps[k].post = snaps[k + 1].pre
      <4>1. k \in 1..n /\ k + 1 \in 1..n /\ i + (k + 1) - 1 = (i + k - 1) + 1
        BY <2>2, <2>4
      <4>2. i + k - 1 \in i..(j - 1)
        BY <2>2, <2>4 DEF n
      <4>3. snaps[k] = window[i + k - 1] /\ snaps[k + 1] = window[(i + k - 1) + 1]
        BY <2>3, <4>1
      <4> QED
        BY <3>2, <4>2, <4>3
    <3> QED
      BY <3>1, <3>2
  <2> QED
    BY <2>7, <2>8, <2>11, <2>12, FineIs DEF snaps
<1> QED
  BY <1>1, InvCorrect, PTL

\* Through the SDK's retry, the budget is charged once for every receipt.
THEOREM ChargedCorrect == Spec => []ChargedOnce
<1>1. Inv => ChargedOnce
  BY DEF Inv, ChargedOnce
<1> QED
  BY <1>1, InvCorrect, PTL

\* With a policy that stops the agent, a tick found wrong is followed by no
\* other tick of this process.
THEOREM FlaggedStops == Spec => FlaggedAgentStops
<1> DEFINE A == Flagged /\ cfg.policy \in {"pause", "migrate"} /\ cfg.host = "lab" => tick' <= tick
<1>1. Inv /\ [Next]_vars => [A]_vars
  <2> SUFFICES ASSUME Inv, Next, Flagged, cfg.policy \in {"pause", "migrate"}, cfg.host = "lab"
               PROVE  tick' <= tick
    BY DEF vars
  <2>1. tick \in Nat /\ stored.tick \in 0..tick
    BY ReplayAssumption DEF Inv, TypeInv
  <2>2. pc = "stopped"
    BY DEF Inv, VerdictInv, Flagged
  <2>3. CASE Restart
    BY <2>1, <2>3 DEF Restart
  <2>4. ASSUME NEW raws, Made(raws) PROVE FALSE
    BY <2>2, <2>4 DEF Made
  <2>5. ASSUME NEW k \in Kinds, Observe(k) \/ ObserveSim(k) \/ Refused(k) PROVE FALSE
    BY <2>4, <2>5 DEF Observe, ObserveSim, Refused
  <2>6. ~Pay /\ ~Request
    BY <2>4 DEF Pay, Request
  <2>7. CASE SaveCheckpoint \/ PackCheckpoint \/ PackReplayData \/ verifyMigrationReplay
    BY <2>1, <2>7 DEF SaveCheckpoint, PackCheckpoint, PackReplayData, verifyMigrationReplay
  <2>8. /\ ~TickBegin /\ ~UseHidden /\ ~TickDone /\ ~TickFails /\ ~SimTickDone /\ ~VerifyNextTick
    BY <2>2 DEF TickBegin, UseHidden, TickDone, TickFails, SimTickDone, VerifyNextTick
  <2> QED
    BY <2>3, <2>5, <2>6, <2>7, <2>8 DEF Next
<1> QED
  BY <1>1, InvCorrect, PTL DEF Spec, FlaggedAgentStops
=============================================================================
