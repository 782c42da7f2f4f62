---------------------------- MODULE MCContinuity ----------------------------
EXTENDS Continuity

\* The second machine's clock is one slot behind.
ClockSkew == [m \in Machines |-> IF m = "B" THEN -1 ELSE 0]

\* A rise, a fall through the threshold and a recovery, in three slots.
PriceCurve == <<[slot |-> 0, price |-> 200], [slot |-> 1, price |-> 205],
                [slot |-> 2, price |-> 151], [slot |-> 3, price |-> 175]>>
=============================================================================
