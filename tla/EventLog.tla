----------------------------- MODULE EventLog -----------------------------
(***************************************************************************)
(* The per-tick observation log of an agent instance                       *)
(* (internal/eventlog/eventlog.go) as operators on a record                *)
(*   [current |-> the open tick log, <<>> for nil,                         *)
(*    history |-> the sealed tick logs, oldest first].                     *)
(* A tick log is [tick, entries]; an entry is [kind, val]. The arena that  *)
(* backs the payloads only saves allocations and is left out.              *)
(***************************************************************************)
EXTENDS Naturals, Sequences

CONSTANT MaxTicks  \* NewEventLog's bound on the history, 0 for none

ASSUME MaxTicksAssumption == MaxTicks \in Nat

NewEventLog == [current |-> <<>>, history |-> <<>>]

\* Mutant: the entries of the tick before are not dropped.
BeginTickKeeping(l, n) ==
  [l EXCEPT !.current = <<[tick |-> n, entries |->
     IF l.history = <<>> THEN <<>> ELSE l.history[Len(l.history)].entries]>>]

BeginTick(l, n) ==
  [l EXCEPT !.current = <<[tick |-> n, entries |-> <<>>]>>]

Record(l, entry) ==
  IF l.current = <<>>
  THEN l
  ELSE [l EXCEPT !.current[1].entries = Append(@, entry)]

\* Mutant: one log more than the bound.
RetainedOneMore(h) ==
  IF MaxTicks > 0 /\ Len(h) > MaxTicks + 1
  THEN SubSeq(h, Len(h) - MaxTicks, Len(h))
  ELSE h

\* What SealTick keeps of the history.
Retained(h) ==
  IF MaxTicks > 0 /\ Len(h) > MaxTicks
  THEN SubSeq(h, Len(h) - MaxTicks + 1, Len(h))
  ELSE h

SealTick(l) ==
  IF l.current = <<>>
  THEN l
  ELSE [current |-> <<>>, history |-> Retained(Append(l.history, l.current[1]))]

\* What SealTick returns.
Sealed(l) == l.current[1]
===========================================================================
