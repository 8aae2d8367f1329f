-------------------------- MODULE MCEventPipeline --------------------------
(* Small instances of EventPipeline. *)
EXTENDS EventPipeline

CONSTANTS d1, c1, f1, f2, v1, v2, none, m1, m2, k1, k2, any, main, own, w1, w2

OneDevice == {d1}
OneCustomer == {c1}
TwoFields == {f1, f2}
TwoValues == {v1, v2}

Nothing    == [f \in {} |-> none]
Reads(f, v) == [g \in {f} |-> v]

Payload(id, ts, customer, data, top) ==
    [id |-> id, ts |-> ts, device |-> d1, customer |-> customer, data |-> data, top |-> top]

\* An id and no time; no id but a time; no customer's claim.
ById      == Payload(m1, none, c1, Reads(f1, v1), Reads(f2, v1))
ByTime    == Payload(none, 5, c1, Reads(f1, v2), Nothing)
Unclaimed == Payload(m2, 5, none, Reads(f1, none), Nothing)

MixedBodies == {ById, ByTime, Unclaimed}

SharedKeys == [c \in Customers \cup {None} |-> IF c = None THEN k2 ELSE k1]
CatchAllOnly == [q \in Queues |-> any]
WithDedicated == [q \in Queues |-> IF q = main THEN any ELSE k1]
AllOnMain == [w \in Workers |-> main]
Split == [w \in Workers |-> IF w = w1 THEN main ELSE own]
============================================================================
