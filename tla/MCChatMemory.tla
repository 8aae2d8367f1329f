---------------------------- MODULE MCChatMemory ----------------------------
(* Small instances of ChatMemory. *)
EXTENDS ChatWidget, TLC

CONSTANTS d1, d2, alarms, battery, overview, week

TwoDevices   == {d1, d2}
ThreeIntents == {alarms, battery, overview}
OneWindow    == {week}

Q(gate, said, fragment, intent, window, outcome) ==
    [gate |-> gate, said |-> said, fragment |-> fragment, intent |-> intent,
     window |-> window, outcome |-> outcome]

\* "battery voltage of <branch> last week"; "and its alarms?"; "and last week?"
Named    == Q(d1, None, FALSE, battery, week, "answered")
Fragment == Q(None, None, TRUE, overview, None, "answered")

\* The extractor echoes a name, or a device id; a lookup fails.
Echoed == Q(d2, FreeText, FALSE, alarms, None, "error")
ById   == Q(None, d2, FALSE, battery, None, "answered")
Loose  == Q(None, FreeText, FALSE, battery, week, "error")

\* A ranking of areas; a refusal; an expired session.
Ranking == Q(None, None, FALSE, alarms, None, "shared")
Refused == Q(None, None, FALSE, overview, None, "refused")
Expired == Q(d1, None, FALSE, battery, None, "raised")

MemoryQuestions == {Named, Fragment, Echoed, ById, Loose, Ranking, Refused, Expired}

TypedQuestions == {Named, Ranking, Refused}

AnySlot == Permutations(Slots)
=============================================================================
