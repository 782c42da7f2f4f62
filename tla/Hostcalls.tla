----------------------------- MODULE Hostcalls -----------------------------
(***************************************************************************)
(* The hostcalls of the igor module, three times: as a running agent meets *)
(* them (internal/hostcall), as the deterministic mode of the simulator    *)
(* imitates them (internal/simulator/hostcalls.go), and as the replay      *)
(* engine serves them from a tick log (internal/replay/engine.go).         *)
(*                                                                         *)
(* A live hostcall yields                                                  *)
(*   [reply   |-> what the agent sees,                                     *)
(*    entries |-> what is recorded in the event log, at most one entry,    *)
(*    cost    |-> what is deducted from the budget].                       *)
(* The agent is linked with the SDK, so pointers and lengths are valid.    *)
(* Payloads are small numbers: only whether two of them are equal matters. *)
(***************************************************************************)
EXTENDS Naturals, Sequences, SequencesExt

None == 0  \* the value of a reply that carries nothing

Kinds == {"clock", "rand", "log", "balance", "count", "receipt", "price",
          "http", "pay"}

\* The capability a hostcall belongs to.
Capability(k) ==
  CASE k \in {"balance", "count", "receipt"} -> "wallet"
    [] k = "price" -> "pricing"
    [] k = "pay"   -> "x402"
    [] OTHER       -> k

Reply(code, v) == [code |-> code, val |-> v]

---------------------------------------------------------------------------
(* Live hostcalls.                                                         *)

\* RegisterHostModule exports the hostcalls of every declared capability;
\* those that need the state of an instance, only if the host has set it.
LiveModule(caps, set) ==
  {k \in Kinds : Capability(k) \in caps \ ({"wallet", "pricing", "x402"} \ set)}

Observed(k, v) ==
  [reply |-> Reply("ok", v), entries |-> <<[kind |-> k, val |-> v]>>, cost |-> 0]

Unrecorded(code) ==
  [reply |-> Reply(code, None), entries |-> <<>>, cost |-> 0]

clock_now(v) == Observed("clock", v)

\* Over the maximum, or the entropy source failed.
rand_bytes(cond, v) ==
  IF cond = "ok" THEN Observed("rand", v) ELSE Unrecorded("refused")

\* A message over the maximum is dropped; the agent is not told.
log_emit(cond) ==
  IF cond = "ok" THEN Observed("log", None) ELSE Unrecorded("ok")

\* wallet_receipt may be asked for an index that does not exist, or with a
\* buffer that is too small; the other two calls always answer.
wallet(k, cond, v) ==
  IF k = "receipt" /\ cond # "ok" THEN Unrecorded(cond) ELSE Observed(k, v)

node_price(v) == Observed("price", v)

\* A request that is blocked, fails or times out, and an answer that does
\* not fit the buffer, leave no entry. (In the last case the request has
\* been performed.)
http_request(cond, v) ==
  IF cond = "ok" THEN Observed("http", v) ELSE Unrecorded(cond)

\* Mutant: the amount is deducted before the receipt buffer is checked.
wallet_payEager(permitted, fits, funded, v) ==
  CASE ~(permitted /\ funded) -> Unrecorded("refused")
    [] permitted /\ funded /\ ~fits -> [Unrecorded("small") EXCEPT !.cost = 1]
    [] OTHER -> [Observed("pay", v) EXCEPT !.cost = 1]

\* Input, cap and recipient are checked first, then the receipt buffer,
\* then the budget; only then is the amount deducted and recorded.
wallet_pay(permitted, fits, funded, v) ==
  CASE ~permitted -> Unrecorded("refused")
    [] permitted /\ ~fits -> Unrecorded("small")
    [] permitted /\ fits /\ ~funded -> Unrecorded("refused")
    [] OTHER -> [Observed("pay", v) EXCEPT !.cost = 1]

---------------------------------------------------------------------------
(* The deterministic hostcalls of the simulator. They refuse nothing.      *)

DeterministicModule(caps) ==
  {k \in Kinds : Capability(k) \in caps \cap {"clock", "rand", "log", "wallet", "pricing"}}

\* The budget stays 0 and there are no receipts: wallet_receipt records an
\* empty entry and answers with an error.
deterministicWallet(k) ==
  IF k = "receipt"
  THEN [reply |-> Reply("refused", None),
        entries |-> <<[kind |-> k, val |-> None]>>, cost |-> 0]
  ELSE Observed(k, None)

deterministicHostcall(k, v) ==
  CASE k \in {"clock", "rand", "price"} -> Observed(k, v)
    [] k = "log" -> Observed(k, None)
    [] OTHER     -> deterministicWallet(k)

---------------------------------------------------------------------------
(* The SDK wrappers: a call is repeated once, with the buffer the host     *)
(* asked for, when the answer did not fit. Each yields the sequence of     *)
(* hostcalls made, as [call |-> ..., live |-> ...].                        *)

Raw(k, fits, live) ==
  [call |-> [kind |-> k, fits |-> fits, reply |-> live.reply], live |-> live]

WalletPay(permitted, fits, funded, v) ==
  LET first  == wallet_pay(permitted, fits, funded, v)
      second == wallet_pay(permitted, TRUE, funded, v)
  IN IF first.reply.code = "small"
     THEN <<Raw("pay", fits, first), Raw("pay", TRUE, second)>>
     ELSE <<Raw("pay", fits, first)>>

HTTPRequest(cond, cond2, v) ==
  LET first == http_request(cond, v)
  IN IF cond = "small"
     THEN <<Raw("http", FALSE, first), Raw("http", TRUE, http_request(cond2, v))>>
     ELSE <<Raw("http", TRUE, first)>>

---------------------------------------------------------------------------
(* Replaying hostcalls: each takes the iterator over the tick log and the  *)
(* call, and yields the iterator and the reply the sandboxed agent sees.   *)

Iterator(entries) == [entries |-> entries, pos |-> 0, err |-> FALSE]

Remaining(it) == Len(it.entries) - it.pos

\* The entry next() would return has the expected hostcall.
Expected(it, k) ==
  /\ it.pos < Len(it.entries)
  /\ it.entries[it.pos + 1].kind = k

Failed(it, code) ==
  [it |-> [it EXCEPT !.err = TRUE], reply |-> Reply(code, None)]

Advanced(it, reply) == [it |-> [it EXCEPT !.pos = @ + 1], reply |-> reply]

\* next() and the recorded value, or the error kept in repErr.
Consume(it, k) ==
  IF Expected(it, k)
  THEN Advanced(it, Reply("ok", it.entries[it.pos + 1].val))
  ELSE Failed(it, "refused")

\* registerReplayHostModule knows every capability but http.
ReplayModule(caps) == {k \in Kinds : Capability(k) \in caps \ {"http"}}

ReplayClock(it)   == Consume(it, "clock")
ReplayRand(it)    == Consume(it, "rand")
ReplayLog(it)     == Consume(it, "log")
ReplayPricing(it) == Consume(it, "price")

\* A receipt that does not fit is an error of the replay.
ReplayWallet(it, c) ==
  IF c.kind = "receipt" /\ Expected(it, "receipt") /\ ~c.fits
  THEN [Advanced(it, Reply("small", None)) EXCEPT !.it.err = TRUE]
  ELSE Consume(it, c.kind)

\* Mutant: the receipt is read and the iterator stays where it is.
ReplayPaymentStill(it, c) ==
  IF Expected(it, "pay")
  THEN [it |-> it, reply |-> Reply(IF c.fits THEN "ok" ELSE "small",
                                   it.entries[it.pos + 1].val)]
  ELSE Failed(it, "refused")

\* The size hint is given out after the entry was consumed.
ReplayPayment(it, c) ==
  IF Expected(it, "pay") /\ ~c.fits
  THEN Advanced(it, Reply("small", None))
  ELSE Consume(it, "pay")

ReplayHostcall(it, c) ==
  CASE c.kind = "clock" -> ReplayClock(it)
    [] c.kind = "rand"  -> ReplayRand(it)
    [] c.kind = "log"   -> ReplayLog(it)
    [] c.kind = "price" -> ReplayPricing(it)
    [] c.kind = "pay"   -> ReplayPayment(it, c)
    [] OTHER            -> ReplayWallet(it, c)

(* The second copy of the replaying hostcalls, for ReplayChain: the same   *)
(* calls reached through a holder whose iterator changes from tick to tick.*)

ChainModule(caps) == {k \in Kinds : Capability(k) \in caps \ {"http"}}

ChainPricing(it) == Consume(it, "price")

ChainWallet(it, c) ==
  IF c.kind = "receipt" /\ Expected(it, "receipt") /\ ~c.fits
  THEN [Advanced(it, Reply("small", None)) EXCEPT !.it.err = TRUE]
  ELSE Consume(it, c.kind)

ChainPayment(it, c) ==
  IF Expected(it, "pay") /\ ~c.fits
  THEN Advanced(it, Reply("small", None))
  ELSE Consume(it, "pay")

ChainHostcall(it, c) ==
  CASE c.kind \in {"clock", "rand", "log"} -> Consume(it, c.kind)
    [] c.kind = "price" -> ChainPricing(it)
    [] c.kind = "pay"   -> ChainPayment(it, c)
    [] OTHER            -> ChainWallet(it, c)

\* The agent repeats its calls against the iterator, Serve being one of the
\* two operators above. Once a reply differs from the recorded one the calls
\* the agent would make are unknown; a differing reply leaves either an error
\* or a different state behind, whatever comes next.
Walk(Serve(_, _), it, calls) ==
  LET after[i \in 0..Len(calls)] ==
        IF i = 0 THEN [it |-> it, replies |-> <<>>]
        ELSE LET r == Serve(after[i - 1].it, calls[i])
             IN [it |-> r.it, replies |-> Append(after[i - 1].replies, r.reply)]
  IN after[Len(calls)]
===========================================================================
