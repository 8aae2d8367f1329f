-------------------------- MODULE MCHierarchyStore --------------------------
(* Small instances of HierarchyStore. *)
EXTENDS HierarchyStore

CONSTANTS ho, bank, east, zone, b1, b2

At(device, path) == [device |-> device, path |-> path]
Link(n, p) == [node |-> n, parent |-> p]

\* Two branches below areas that swap places from one dump to the next, a path that
\* repeats an area, one that lacks the head office and one without segments; what a
\* path calls its device is out of date.
Straight == At(b1, <<bank, east, zone, b2>>)
Swapped  == At(b2, <<bank, zone, east, b1>>)
Repeated == At(b2, <<bank, east, zone, east, b1>>)
Headless == At(b1, <<zone, b2>>)
Pathless == At(b2, <<>>)

SomeDumps == {<<Straight, Pathless>>, <<Pathless, Straight>>, <<Headless, Repeated>>, <<Swapped>>}
SomeEdits == {Link(east, zone), Link(zone, ho), Link(zone, east)}

\* Edits of different rows.
OneDump   == {<<Straight, Swapped>>}
RaceEdits == {Link(zone, ho), Link(b2, zone)}

ASSUME RootedDumps
=============================================================================
