--------------------------- MODULE MCAccessScope ---------------------------
(* Small instances of AccessScope. *)
EXTENDS AccessScope

CONSTANTS d1, d2, l1, l2, zone, office, boi, sbi, bank, area, anyone, other

Name(kind, rest) == [kind |-> kind, rest |-> rest]
Zone   == Name("ZO", "KOLKATA")
Office == Name("RO", "KOLKATA")

ContainerNames == (zone :> Zone) @@ (office :> Office)

User(customer, title, region, explicit) ==
    [customer |-> customer, title |-> title, region |-> region, explicit |-> explicit]
Everywhere == User(bank, boi, None, FALSE)
InZone     == User(None, boi, Zone, TRUE)
Guessed    == User(None, boi, Zone, FALSE)
Untitled   == User(None, None, None, FALSE)

GuessedAndZone == (other :> Guessed) @@ (area :> InZone)
WideAndNobody  == (anyone :> Everywhere) @@ (other :> Untitled)

At(device, above) == [device |-> device, above |-> above]
Tree(S, f) == [containers |-> S, leaf |-> f]

\* Both branches in the zone; the devices swapped and the zone gone; a branch without
\* a device, and the other one in the office of the same name.
BothInZone  == Tree({zone}, (l1 :> At(d1, {zone})) @@ (l2 :> At(d2, {zone})))
NoZone      == Tree({}, (l1 :> At(d2, {})) @@ (l2 :> At(d1, {})))
OneMoved    == Tree({zone, office}, (l1 :> At(None, {zone})) @@ (l2 :> At(d2, {office})))

TwoTrees   == {BothInZone, NoZone}
ThreeTrees == {BothInZone, NoZone, OneMoved}
SomeGrants == {{d1}, {d1, d2}}
NoGrants   == {}

AnySlot == Permutations(Slots)
=============================================================================
