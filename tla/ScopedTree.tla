----------------------------- MODULE ScopedTree -----------------------------
(***************************************************************************)
(* The part of the hierarchy a caller may see, and what is said from it:   *)
(* app/query/hierarchy_answers.py, and the sums of per-branch rows over    *)
(* zones and regions in app/query/area_rollup.py.  Pure operators.         *)
(*                                                                         *)
(* A question is the sequence of its words, in lower case.  Lists of names *)
(* are sets: how they are sorted, cut and worded is left out.              *)
(***************************************************************************)
EXTENDS Integers, Sequences, SequencesExt, FiniteSets, FiniteSetsExt, TLC

CONSTANT Words      \* the text of a name -> its words, without punctuation

Says(q, W) == \E i \in DOMAIN q : q[i] \in W
Phrase(q, p) == \E i \in 1 .. Len(q) - Len(p) + 1 : SubSeq(q, i, i + Len(p) - 1) = p
Mentions(q, phrases) == \E p \in phrases : Phrase(q, p)
Without(q, W) == SelectSeq(q, LAMBDA w : w \notin W)

ZoneWords == {"zone", "zones"}
RegionWords == {"region", "regions", "nbg", "fgmo", "circle", "circles"}
BranchWords == {"branch", "branches"}

(***************************************************************************)
(* ScopedTree.  nodes: id -> [parent, level, name, leaf, device]; the      *)
(* closure names every leaf among its own ancestors.                       *)
(***************************************************************************)
(* From the two statements of load_scoped_tree: the ancestors of the       *)
(* caller's leaves, and the rows of all of them.  An area all of whose     *)
(* branches are withheld goes with them.                                   *)
load_scoped_tree(above, rows, devices) ==
    LET wanted == DOMAIN above \cup UNION {above[l] : l \in DOMAIN above}
        leaves == {l \in wanted \cap DOMAIN rows : rows[l].leaf /\ rows[l].device \in devices}
        areas == {n \in wanted \cap DOMAIN rows :
                    ~rows[n].leaf /\ \E l \in leaves \cap DOMAIN above : n \in above[l]}
    IN  [nodes |-> [n \in leaves \cup areas |-> rows[n]],
         ancestors |-> [l \in leaves \cap DOMAIN above |-> above[l]]]

IsEmptyTree(t) == DOMAIN t.nodes = {}
Leaves(t) == {n \in DOMAIN t.nodes : t.nodes[n].leaf}
root(t) ==
    LET tops == {n \in DOMAIN t.nodes : t.nodes[n].parent \notin DOMAIN t.nodes}
    IN  CHOOSE n \in tops : \A m \in tops : t.nodes[n].level <= t.nodes[m].level
Areas(t) == {n \in DOMAIN t.nodes : ~t.nodes[n].leaf /\ n # root(t)}
children_of(t, n) == {m \in DOMAIN t.nodes : t.nodes[m].parent = n}
top_areas(t) == IF IsEmptyTree(t) THEN {} ELSE children_of(t, root(t))
sub_areas(t, n) == children_of(t, n) \ Leaves(t)
ancestors_of(t, l) == IF l \in DOMAIN t.ancestors THEN t.ancestors[l] ELSE {}
descendant_leaves(t, n) == {l \in Leaves(t) : l = n \/ n \in ancestors_of(t, l)}
device_ids_under(t, n) == {t.nodes[l].device : l \in descendant_leaves(t, n)}
NamesOf(t, S) == {t.nodes[n].name : n \in S}

(***************************************************************************)
(* Which node a question names.                                            *)
(***************************************************************************)
LevelWords ==
    {"zo", "zone", "zonal", "nbg", "fgmo", "region", "regional", "ro", "rbo", "lho", "co", "circle",
     "branch", "ho", "head", "office", "the", "of", "under", "all"}
norm(words) == Without(words, LevelWords)
NormName(t, n) == norm(Words[t.nodes[n].name])

(* The customer's token, when every leaf's name starts with the same one.  *)
shared_prefix_token(t) ==
    LET firsts == {NormName(t, l)[1] : l \in {l \in Leaves(t) : NormName(t, l) # <<>>}}
    IN  IF Cardinality(firsts) = 1 THEN firsts ELSE {}

match_names(t, n) ==
    LET name == NormName(t, n)
        prefixed == Len(name) > 1 /\ name[1] \in shared_prefix_token(t)
    IN  {name} \cup (IF prefixed THEN {Tail(name)} ELSE {})

Letters(name) == FoldLeft(LAMBDA n, w : n + Len(w) + 1, 0, name)

(* The longest name wins; which of several is up to the order of the rows. *)
find_area(t, q, pool) ==
    LET hits == {h \in UNION {{n} \X match_names(t, n) : n \in pool} : h[2] # <<>> /\ Phrase(norm(q), h[2])}
    IN  {h[1] : h \in {h \in hits : \A g \in hits : Letters(g[2]) <= Letters(h[2])}}

NamesALevel(q) == Says(q, ZoneWords \cup RegionWords \cup {"zonal", "regional", "ro", "rbo", "lho", "zo"})

(* The area that narrows a fleet answer: not the bank itself.              *)
area_filter(t, q) ==
    IF IsEmptyTree(t) THEN {} ELSE find_area(t, q, DOMAIN t.nodes \ Leaves(t)) \ {root(t)}

(***************************************************************************)
(* format_hierarchy_answer.                                                *)
(***************************************************************************)
Counting(q) == Phrase(q, <<"how", "many">>) \/ Says(q, {"count"})
WantsAreas(q) == ~Says(q, BranchWords) /\ Says(q, ZoneWords \cup RegionWords \cup {"ro", "lho"})
Lists(q) == Says(q, {"all", "list", "name"}) \/ \E w \in {"what", "which"} : Phrase(q, <<w, "are">>)
PerArea(q) == Says(q, {"per", "each", "by", "across"}) /\ Says(q, ZoneWords \cup RegionWords \cup {"area", "areas"})
Belongs(q) ==
    \/ Mentions(q, {<<"belong", "to">>, <<"belongs", "to">>})
    \/ \E i, j, k \in DOMAIN q : i < j /\ j + 1 < k /\ q[i] = "which" /\ q[j] \in {"is", "does"} /\ q[k] \in {"in", "under"}
Exists(q) == Mentions(q, {<<"is", "there">>, <<"do", "you", "have">>, <<"do", "we", "have">>, <<"exist">>, <<"exists">>})

Chain(t, n) ==
    IF t.nodes[n].leaf THEN (ancestors_of(t, n) \cap DOMAIN t.nodes) \ {n}
    ELSE {t.nodes[n].parent} \cap DOMAIN t.nodes

Tell(kind, t, about, S) == [kind |-> kind, about |-> NamesOf(t, about), names |-> NamesOf(t, S), count |-> Cardinality(S)]

(* area: the node named, if any, of those find_area leaves open.           *)
format_hierarchy_answer(t, q, area) ==
    LET below == UNION {descendant_leaves(t, n) : n \in area}
        pool(W) == IF Says(q, W) THEN top_areas(t) ELSE Areas(t)
    IN  IF Exists(q) THEN Tell(IF area = {} THEN "unknown" ELSE "known", t, area, below)
        ELSE IF Belongs(q) /\ area # {} THEN Tell("under", t, area, UNION {Chain(t, n) : n \in area})
        ELSE IF Lists(q) /\ Says(q, ZoneWords \cup RegionWords \cup BranchWords) /\ area = {}
          THEN Tell("list", t, {}, IF Says(q, BranchWords) THEN Leaves(t) ELSE pool(RegionWords))
        ELSE IF PerArea(q) /\ pool(RegionWords \ {"circle", "circles"}) # {}
          THEN [kind |-> "per area",
                counts |-> {<<t.nodes[n].name, Cardinality(descendant_leaves(t, n))>> :
                               n \in pool(RegionWords \ {"circle", "circles"})}]
        ELSE IF area # {} /\ WantsAreas(q) /\ area \cap Leaves(t) = {}
          THEN Tell("areas", t, area, UNION {sub_areas(t, n) : n \in area})
        ELSE IF area # {} /\ Says(q, BranchWords \cup {"under", "list"}) THEN Tell("branches", t, area, below)
        ELSE IF Counting(q) /\ Says(q, BranchWords) THEN Tell("branches", t, {}, Leaves(t))
        ELSE IF Counting(q) /\ WantsAreas(q) THEN Tell("areas", t, {}, Areas(t))
        ELSE IF Mentions(q, {<<"most", "branches">>, <<"most", "branch">>}) /\ top_areas(t) # {}
          THEN LET most == Max({Cardinality(descendant_leaves(t, n)) : n \in top_areas(t)})
               IN  [kind |-> "most", count |-> most,
                    names |-> NamesOf(t, {n \in top_areas(t) : Cardinality(descendant_leaves(t, n)) = most})]
        ELSE [kind |-> "shape", branches |-> Cardinality(Leaves(t)), areas |-> Cardinality(Areas(t)),
              top |-> {<<t.nodes[n].name, Cardinality(sub_areas(t, n)), Cardinality(descendant_leaves(t, n))>> :
                          n \in top_areas(t)}]

(***************************************************************************)
(* area_rollup.py                                                          *)
(***************************************************************************)
unrecorded_metric(q) ==
    Says(q, {"sla"}) \/ \E p \in {<<"service", "level">>, <<"uptime", "target">>, <<"critical", "risk">>,
                                  <<"risk", "grade">>, <<"risk", "score">>} : Phrase(q, p)

(* The name of a branch -> the name of its zone or region.                 *)
area_of_branch(t, q) ==
    LET above(l) == (ancestors_of(t, l) \cap DOMAIN t.nodes) \ {l, root(t)}
        placed == {l \in Leaves(t) : above(l) # {}}
        extreme(l) == LET levels == {t.nodes[n].level : n \in above(l)}
                      IN  IF Says(q, RegionWords) THEN Min(levels) ELSE Max(levels)
    IN  [name \in NamesOf(t, placed) |->
            LET l == CHOOSE l \in placed : t.nodes[l].name = name
            IN  t.nodes[CHOOSE n \in above(l) : t.nodes[n].level = extreme(l)].name]

BranchKey(name) == Without(Words[name], {"branch", "boi", "the"})

(* A buggy join on the name as it is spelled.                              *)
place_as_spelled(branch, area_of) == IF branch \in DOMAIN area_of THEN {area_of[branch]} ELSE {}

(* The area of a row: by the name, else by its distinguishing words.       *)
place(branch, area_of) ==
    IF branch \in DOMAIN area_of THEN {area_of[branch]}
    ELSE LET alike == {name \in DOMAIN area_of : BranchKey(name) = BranchKey(branch)}
         IN  IF alike = {} THEN {} ELSE {area_of[CHOOSE name \in alike : TRUE]}

Permille(part, whole) == (2000 * part + whole) \div (2 * whole)

(* A share is worked out anew where there is something to share.           *)
Rates ==
    {[name |-> "health_pct", part |-> "healthy", whole |-> "total"],
     [name |-> "recording_pct", part |-> "recording", whole |-> "total_channels"]}

(* rows: index -> [branch, counts], counts being the numeric columns.      *)
roll_up(rows, area_of) ==
    LET of(a) == {i \in DOMAIN rows : place(rows[i].branch, area_of) = {a}}
        total(a, c) == MapThenSumSet(LAMBDA i : rows[i].counts[c], of(a))
        columns == UNION {DOMAIN rows[i].counts : i \in DOMAIN rows}
        rated(a) == {r \in Rates : r.whole \in columns /\ total(a, r.whole) > 0}
        figure(a, c) ==
            IF \E r \in rated(a) : r.name = c
            THEN LET r == CHOOSE r \in rated(a) : r.name = c IN Permille(total(a, r.part), total(a, r.whole))
            ELSE IF c = "branches" THEN Cardinality(of(a)) ELSE total(a, c)
    IN  [a \in UNION {place(rows[i].branch, area_of) : i \in DOMAIN rows} |->
            [c \in columns \cup {"branches"} \cup {r.name : r \in rated(a)} |-> figure(a, c)]]

MaxWords == {"most", "highest", "largest", "greatest", "maximum"}
MinWords == {"fewest", "lowest", "least", "smallest", "minimum"}
WorstWords == {"worst", "poorest"}
BestWords == {"best", "healthiest"}

(* Whether a superlative asks for the largest value: it depends on whether *)
(* the column counts something bad.  {} when it does not say.              *)
Descending(q, bad) ==
    IF Says(q, WorstWords) /\ Says(q, BestWords) THEN {}
    ELSE IF Says(q, WorstWords) THEN {bad}
    ELSE IF Says(q, BestWords) THEN {~bad}
    ELSE IF Says(q, MaxWords) THEN {TRUE}
    ELSE IF Says(q, MinWords) THEN {FALSE}
    ELSE {}

(* The rows that lead on a column: rows: key -> [column -> number].        *)
Leaders(rows, column, descending) ==
    {k \in DOMAIN rows : \A j \in DOMAIN rows :
        IF descending THEN rows[j][column] <= rows[k][column] ELSE rows[k][column] <= rows[j][column]}

AreaColumns ==
    <<[says |-> {<<"non-compliant">>, <<"not", "recording">>, <<"without", "footage">>}, column |-> "not_recording", bad |-> TRUE],
      [says |-> {<<"compliance">>}, column |-> "recording_pct", bad |-> FALSE],
      [says |-> {<<"camera">>, <<"cameras">>, <<"channel">>, <<"channels">>}, column |-> "cameras_configured", bad |-> FALSE],
      [says |-> {<<"offline">>, <<"down">>}, column |-> "offline", bad |-> TRUE],
      [says |-> {<<"fault">>, <<"faults">>, <<"faulty">>, <<"problem">>}, column |-> "faulty", bad |-> TRUE],
      [says |-> {<<"branch">>, <<"branches">>}, column |-> "branches", bad |-> FALSE],
      [says |-> {<<"performance">>, <<"health">>, <<"overall">>}, column |-> "health_pct", bad |-> FALSE]>>

rank_areas(rows, q) ==
    LET asked == {i \in DOMAIN AreaColumns :
                     Mentions(q, AreaColumns[i].says) /\ \E a \in DOMAIN rows : AreaColumns[i].column \in DOMAIN rows[a]}
    IN  IF asked = {} THEN {}
        ELSE LET c == AreaColumns[Min(asked)]
                 usable == {a \in DOMAIN rows : c.column \in DOMAIN rows[a]}
                 known == [a \in usable |-> rows[a]]
             IN  {[kind |-> "area ranking", column |-> c.column, rows |-> known,
                   leaders |-> Leaders(known, c.column, d)] : d \in Descending(q, c.bad)}

=============================================================================
