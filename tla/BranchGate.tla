----------------------------- MODULE BranchGate -----------------------------
(***************************************************************************)
(* The branch a question names: _default_gate of app/query/orchestrate.py  *)
(* with app/query/branch_names.py, and MetricHandler's own test of the     *)
(* device it is handed.  The directory of all the customer's branches is   *)
(* read first, then the caller's scope, which may come from a cache, and   *)
(* again by the handler; the hierarchy may be imported between any two.    *)
(*                                                                         *)
(* A text is a sequence of pieces, in upper case: words or parts of words, *)
(* " ", "-", "_" and the customer's prefix with its hyphen.                *)
(***************************************************************************)
EXTENDS Naturals, Sequences, SequencesExt

CONSTANTS
    Width,       \* piece -> its number of characters
    Prefix,
    Directories,   \* the imports in turn: node -> [id, name, leaf, device]
    Callers,       \* for every caller the devices ThingsBoard lets him see
    Sentences      \* the questions that are asked

(* Every text is made of pieces, none of them empty, and only branches     *)
(* have a device.                                                          *)
ASSUME GateAssumption ==
    /\ " " \in DOMAIN Width /\ \A x \in DOMAIN Width : Width[x] \in Nat \ {0}
    /\ Sentences \subseteq Seq(DOMAIN Width) /\ Len(Directories) \in Nat \ {0}
    /\ \A v \in 1 .. Len(Directories) : \A n \in DOMAIN Directories[v] :
          /\ {Directories[v][n].name, Directories[v][n].id} \subseteq Seq(DOMAIN Width)
          /\ ~ Directories[v][n].leaf => Directories[v][n].device = ""

VARIABLES
    imported,      \* the import that is committed
    gate           \* the question at the gate

gateVars == <<imported, gate>>

(***************************************************************************)
(* Texts.                                                                  *)
(***************************************************************************)
Size(text) ==
    LET size[i \in 0 .. Len(text)] == IF i = 0 THEN 0 ELSE size[i - 1] + Width[text[i]]
    IN  size[Len(text)]
StartsAt(text, part, i) == SubSeq(text, i, i + Len(part) - 1) = part
Within(part, text) == \E i \in 1 .. Len(text) - Len(part) + 1 : StartsAt(text, part, i)
AsWords(part, text) ==
    \E i \in 1 .. Len(text) - Len(part) + 1 :
        /\ StartsAt(text, part, i)
        /\ i = 1 \/ text[i - 1] = " "
        /\ i + Len(part) > Len(text) \/ text[i + Len(part)] = " "
Trim(text) == IF text # <<>> /\ Last(text) = " " THEN Front(text) ELSE text
(* What Step makes of a text, piece by piece: a fold, as a function.       *)
Through(Step(_, _), text) ==
    LET made[i \in 0 .. Len(text)] == IF i = 0 THEN <<>> ELSE Step(made[i - 1], text[i])
    IN  made[Len(text)]
Compact(text) == Through(LAMBDA out, x : IF x = " " THEN out ELSE Append(out, x), text)

(* Without the prefix, with single spaces and no leading BRANCH.           *)
normalize_key(value) ==
    LET Join(text, x) ==
            CASE x = Prefix -> text
              [] x \in {" ", "-", "_"} -> IF text = <<>> \/ Last(text) = " " THEN text ELSE Append(text, " ")
              [] OTHER -> Append(text, x)
        text == Trim(Through(Join, value))
    IN  IF IsPrefix(<<"BRANCH", " ">>, text) THEN SubSeq(text, 3, Len(text)) ELSE text

Shorn(suffix, name) == SubSeq(name, 1, Len(name) - Len(suffix))
alias_variants(alias) ==
    LET name == normalize_key(alias)
        short == {Shorn(s, name) : s \in {s \in {<<" ", "TESTING", " ", "DEVICE">>, <<" ", "DEVICE">>} : IsSuffix(s, name)}}
    IN  UNION {{v, Compact(v)} : v \in ({name} \cup short) \ {<<>>}}

RESERVED_ALIAS_WORDS ==
    {<<w>> : w \in {"ACTIVE", "INACTIVE", "ONLINE", "OFFLINE", "STATUS", "WORKING", "DEVICE", "DEVICES", "BRANCH",
                    "BRANCHES", "BRANCHS", "CAMERA", "CAMERAS", "BATTERY", "ALARM", "ALARMS", "SYSTEM", "HEALTH",
                    "FAULT", "ERROR", "TOTAL", "COUNT", "GATEWAY", "TEST"}}
is_weak_alias(alias) == Size(alias) < 4 \/ alias \in RESERVED_ALIAS_WORDS

(* A short alias must be a word of its own; a long one may also be spelled *)
(* together.                                                               *)
matches_explicit_alias(question, alias) ==
    IF Within(<<" ">>, alias) THEN AsWords(alias, question)
    ELSE \/ Size(alias) >= 4 /\ AsWords(alias, question)
         \/ Size(alias) >= 6 /\ Within(alias, Compact(question))

ZonePrefixes == {"ZO", "NBG", "RO", "RBO", "LHO", "CO", "FGMO"}
is_part_of_zone_phrase(question, name) ==
    \E z \in ZonePrefixes : Within(<<z, " ">> \o name, question)

(***************************************************************************)
(* gate_and_resolve: directory: node -> its row; scoped: the nodes of the  *)
(* scope.                                                                  *)
(***************************************************************************)
Branches(directory) == {n \in DOMAIN directory : directory[n].leaf}
Keys(row) == {normalize_key(row.name), normalize_key(row.id)}

(* What the caller may mention: his branches and every container.          *)
auth_names(directory, scoped) ==
    UNION {Keys(directory[n]) : n \in (DOMAIN directory \ Branches(directory)) \cup (scoped \cap DOMAIN directory)}

Hit(question, row) ==
    LET name == normalize_key(row.name)
        id == normalize_key(row.id)
    IN  /\ \/ Size(name) >= 4 /\ Within(name, question)
           \/ Size(id) >= 5 /\ Within(id, question)
        /\ ~ (name # <<>> /\ is_part_of_zone_phrase(question, name))
Foreign(question, directory, scoped) ==
    {n \in Branches(directory) : /\ Hit(question, directory[n])
                                 /\ Keys(directory[n]) \cap auth_names(directory, scoped) = {}}

(* The scoped branches that the question spells, each with the alias.      *)
Spelled(question, directory, scoped) ==
    {m \in {n \in Branches(directory) \cap scoped : directory[n].device # ""}
            \X UNION {alias_variants(directory[n].name) \cup alias_variants(directory[n].id) : n \in Branches(directory)} :
        /\ m[2] \in alias_variants(directory[m[1]].name) \cup alias_variants(directory[m[1]].id)
        /\ ~ is_weak_alias(m[2]) /\ matches_explicit_alias(question, m[2])}

(* A buggy resolution that takes the aliases as they come.                 *)
MatchedAny(spelled) == {m[1] : m \in spelled}

(* The longest alias; of several the rows come in no order.                *)
Matched(spelled) == {m[1] : m \in {m \in spelled : \A o \in spelled : Size(o[2]) <= Size(m[2])}}

(***************************************************************************)
(* A question.                                                             *)
(***************************************************************************)
GateInit == imported = 1 /\ gate = [phase |-> "idle"]

Approach(q, devices) ==
    /\ gate.phase = "idle"
    /\ gate' = [phase |-> "directory", q |-> q, devices |-> devices, since |-> imported, directory |-> 0,
                scoped |-> {}, branch |-> ""]
    /\ UNCHANGED imported

(* load_directory reads every node of the customer, uncached.              *)
ReadDirectory ==
    /\ gate.phase = "directory"
    /\ gate' = IF Branches(Directories[imported]) = {} THEN [gate EXCEPT !.phase = "unnamed"]
               ELSE [gate EXCEPT !.phase = "scope", !.directory = imported]
    /\ UNCHANGED imported

(* The scope, of this import or, from a cache, of an earlier one.          *)
ScopeAt(v) == {n \in Branches(Directories[v]) : Directories[v][n].device \in gate.devices}

(* With the scope the question is refused, resolved or let through.        *)
ReadCallerScope ==
    /\ gate.phase = "scope"
    /\ \E v \in 1 .. imported :
        LET question == normalize_key(gate.q)
            directory == Directories[gate.directory]
            foreign == Foreign(question, directory, ScopeAt(v))
            spelled == Spelled(question, directory, ScopeAt(v))
        IN  IF foreign # {} THEN gate' = [gate EXCEPT !.phase = "refused"]
            ELSE IF spelled = {} THEN gate' = [gate EXCEPT !.phase = "unnamed"]
            ELSE \E n \in Matched(spelled) :
                    gate' = [gate EXCEPT !.phase = "resolved", !.scoped = ScopeAt(v), !.branch = n]
    /\ UNCHANGED imported

DeviceOfGate == Directories[gate.directory][gate.branch].device

(* A buggy handler that trusts the gate.                                   *)
AdmitsAny(v) == TRUE
Admits(v) == DeviceOfGate \in {Directories[v][n].device : n \in ScopeAt(v)}

(* MetricHandler reads the scope again before it asks ThingsBoard.         *)
CheckDevice ==
    /\ gate.phase = "resolved"
    /\ \E v \in 1 .. imported : gate' = [gate EXCEPT !.phase = IF Admits(v) THEN "answered" ELSE "denied"]
    /\ UNCHANGED imported

ImportAgain ==
    /\ gate.phase \in {"directory", "scope", "resolved"} /\ imported < Len(Directories)
    /\ imported' = imported + 1
    /\ UNCHANGED gate

GateNext ==
    \/ \E q \in Sentences, devices \in Callers : Approach(q, devices)
    \/ ReadDirectory \/ ReadCallerScope \/ CheckDevice \/ ImportAgain

(***************************************************************************)
(* Properties.                                                             *)
(***************************************************************************)
(* A question that names a branch is answered from a device of the caller, *)
(* and from that of a branch it spells, as the hierarchy had the two since *)
(* it was asked: though names and devices come from one read of the        *)
(* hierarchy, the scope from another, and imports in between may give a    *)
(* branch another device.                                                  *)
AnsweredAsNamed ==
    gate.phase = "answered" =>
        /\ DeviceOfGate \in gate.devices
        /\ \E v \in gate.since .. imported : \E n \in Branches(Directories[v]) :
              /\ Directories[v][n].device = DeviceOfGate
              /\ \E a \in alias_variants(Directories[v][n].name) \cup alias_variants(Directories[v][n].id) :
                    Within(Compact(a), Compact(normalize_key(gate.q)))

(* Where the name of one branch is part of another's, the question that    *)
(* spells the longer is never answered for the shorter, whichever of them  *)
(* the caller may see (test_branch_names.py:66): unless it is a container  *)
(* that is spelled, or the longer one has no device to answer from, or the *)
(* question spells an id of the shorter that is longer than its name.      *)
LongestBranchWins ==
    gate.phase \in {"resolved", "answered", "denied"} =>
        LET directory == Directories[gate.directory]
            question == normalize_key(gate.q)
            name(n) == normalize_key(directory[n].name)
            named == name(gate.branch)
            byName == \A a \in alias_variants(directory[gate.branch].id) :
                         matches_explicit_alias(question, a) => Size(a) <= Size(named)
        IN  \A n \in Branches(directory) :
              /\ AsWords(name(n), question) /\ ~ is_weak_alias(name(n)) /\ ~ is_part_of_zone_phrase(question, name(n))
              /\ n \in gate.scoped => directory[n].device # ""
              /\ n \notin gate.scoped => Keys(directory[n]) \cap auth_names(directory, gate.scoped) = {}
              => ~ (byName /\ Within(named, name(n)) /\ named # name(n))
=============================================================================
