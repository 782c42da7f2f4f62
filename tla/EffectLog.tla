----------------------------- MODULE EffectLog -----------------------------
(***************************************************************************)
(* The effect log of the agent SDK (sdk/igor/effects.go): the intents an    *)
(* agent has to act on the outside world, kept in the agent's own state.    *)
(* Pure operators on a log, a sequence of intents [id, state, data] without *)
(* repeated ids; module Deployer holds one in its state.  A method that can *)
(* refuse leaves the log as it was.                                         *)
(***************************************************************************)
EXTENDS Naturals, Sequences, SequencesExt

IntentStates == {"Recorded", "InFlight", "Confirmed", "Unresolved", "Compensated"}

Terminal == {"Confirmed", "Compensated"}

\* Get, find.
Has(log, id) == \E i \in DOMAIN log : log[i].id = id

\* The move of one intent, if it is in one of the states from.
Transition(log, id, from, to) ==
  [i \in DOMAIN log |->
     IF log[i].id = id /\ log[i].state \in from THEN [log[i] EXCEPT !.state = to] ELSE log[i]]

Record(log, id, data) ==
  IF Has(log, id) THEN log ELSE Append(log, [id |-> id, state |-> "Recorded", data |-> data])

BeginIntent(log, id) == Transition(log, id, {"Recorded"}, "InFlight")

Confirm(log, id) == Transition(log, id, {"InFlight", "Unresolved"}, "Confirmed")

\* (mutant) a failed action is not compensated.
CompensateNothing(log, id) == log

Compensate(log, id) == Transition(log, id, {"InFlight", "Unresolved"}, "Compensated")

\* The loop that Pending, Unresolved and Prune have in common: the intents in
\* one of the given states, in the order of the log.
Select(log, states) ==
  LET out[i \in 0..Len(log)] ==
        IF i = 0 THEN << >>
        ELSE IF log[i].state \in states THEN Append(out[i - 1], log[i]) ELSE out[i - 1]
  IN out[Len(log)]

InState(log, state) == Select(log, {state})

Pending(log) == Select(log, IntentStates \ Terminal)

Unresolved(log) == InState(log, "Unresolved")

\* Prune keeps what Pending returns.
Prune(log) == Pending(log)

\* Marshal, then Unmarshal in another process: the resume rule.
Resumed(log) ==
  [i \in DOMAIN log |->
     IF log[i].state = "InFlight" THEN [log[i] EXCEPT !.state = "Unresolved"] ELSE log[i]]
=============================================================================
