----------------------------- MODULE AtomicStore -----------------------------
(***************************************************************************)
(* What storage.Provider promises of one file of an agent                  *)
(* (internal/storage/provider.go): a save replaces the whole value or      *)
(* leaves it alone, and its answer says which; a load answers a value that *)
(* was current at one moment of the call; a delete is idempotent; a crash  *)
(* never leaves a value nobody saved.                                      *)
(* Calls may overlap: implementations must be safe for concurrent use.     *)
(*                                                                         *)
(* The interface says nothing about power loss after a save has been       *)
(* acknowledged: `durable` is what survives one, and it follows `cur` at   *)
(* its own pace.                                                           *)
(***************************************************************************)
CONSTANTS Writers, Readers, Values, None, Failed

VARIABLES
  cur,      \* the current value, or None
  durable,  \* the value a power loss would bring back
  stage,    \* writer -> "idle", "busy" (called, no effect yet), "done"
  val,      \* writer -> the value of its last call
  ans,      \* writer -> the answer of its last finished call
  got       \* reader -> what its last load answered

vars == <<cur, durable, stage, val, ans, got>>

Init ==
  /\ cur = None
  /\ durable = None
  /\ stage = [w \in Writers |-> "idle"]
  /\ val \in [Writers -> Values]
  /\ ans = [w \in Writers |-> "none"]
  /\ got = [r \in Readers |-> None]

Call(w, v) ==
  /\ stage[w] = "idle"
  /\ stage' = [stage EXCEPT ![w] = "busy"]
  /\ val' = [val EXCEPT ![w] = v]
  /\ ans' = [ans EXCEPT ![w] = "none"]
  /\ UNCHANGED <<cur, durable, got>>

Commit(w) ==
  /\ stage[w] = "busy"
  /\ stage' = [stage EXCEPT ![w] = "done"]
  /\ cur' = val[w]
  /\ UNCHANGED <<durable, val, ans, got>>

\* An error is answered only by a call that changed nothing.
Answer(w) ==
  /\ stage[w] # "idle"
  /\ stage' = [stage EXCEPT ![w] = "idle"]
  /\ ans' = [ans EXCEPT ![w] = IF stage[w] = "done" THEN "ok" ELSE "err"]
  /\ UNCHANGED <<cur, durable, val, got>>

Delete ==
  /\ cur' = None
  /\ UNCHANGED <<durable, stage, val, ans, got>>

Load(r) ==
  /\ got' = [got EXCEPT ![r] = cur]
  /\ UNCHANGED <<cur, durable, stage, val, ans>>

LoadFails(r) ==
  /\ got' = [got EXCEPT ![r] = Failed]
  /\ UNCHANGED <<cur, durable, stage, val, ans>>

Settle ==
  /\ durable' = cur
  /\ UNCHANGED <<cur, stage, val, ans, got>>

\* The callers are gone; calls without effect stay without one.
Crash ==
  /\ \/ UNCHANGED <<cur, durable>>
     \/ cur' \in {cur, durable} /\ durable' = cur'
  /\ stage' = [w \in Writers |-> "idle"]
  /\ ans' = [w \in Writers |-> "none"]
  /\ got' = [r \in Readers |-> None]
  /\ UNCHANGED val

Next ==
  \/ \E w \in Writers, v \in Values : Call(w, v)
  \/ \E w \in Writers : Commit(w) \/ Answer(w)
  \/ \E r \in Readers : Load(r) \/ LoadFails(r)
  \/ Delete
  \/ Settle
  \/ Crash

Spec == Init /\ [][Next]_vars
=============================================================================
