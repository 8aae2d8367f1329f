-------------------------- MODULE MCFleetSnapshot --------------------------
(* Small instances of FleetSnapshot. *)
EXTENDS FleetSnapshot

CONSTANTS f1, f2, v1, v2

Reads(f, v) == [g \in {f} |-> v]
Both(v, w)  == [f \in {f1, f2} |-> IF f = f1 THEN v ELSE w]

\* What ThingsBoard may hold: a field that changes, a second one present or not.
SomeReadings == {Reads(f1, v1), Both(v2, v1), Empty}

\* Events of a key that ThingsBoard does not always return.
SomeEvents == {Reads(f2, v1), Reads(f2, v2)}
============================================================================
