---------------------------- MODULE AlarmAnswers ----------------------------
(***************************************************************************)
(* Questions about alarms: AlarmDetail in app/query/handlers.py, which     *)
(* reads ThingsBoard's listings page by page (PagedFetch) while alarms are *)
(* raised and cleared, and app/query/alarm_answers.py, which makes a       *)
(* record of every row and an answer of the records.                       *)
(*                                                                         *)
(* An alarm is its number in the order of creation, and time is counted in *)
(* alarms raised.  A question is the sequence of its words; which of those *)
(* about the same devices is asked makes no difference before the answer,  *)
(* so it is chosen there.                                                  *)
(***************************************************************************)
EXTENDS PagedFetch, ScopedTree, Normalization

CONSTANTS
    Alarm,          \* item -> [type, severity, device, name, places, dated, stamped]
    NodeName,       \* device -> the name of its alarms that carry none
    Readings,       \* what is read: <<listings, the devices the answer is about>>
    AlarmQuestions,
    MaxStir         \* bound: alarms raised and cleared during a reading

(* The open alarms are read before all alarms, those of a device not.      *)
ASSUME ReadingAssumption == \A r \in Readings : r[1] \in {<<"ANY">>, <<"ACTIVE", "ANY">>}

VARIABLES
    ended,          \* cleared item -> when it was cleared
    allowed,        \* the devices the answer is about
    seen,           \* item -> the record of the first row read of it
    told            \* the answer, [kind |-> "none"] before

alarmVars == <<vars, ended, allowed, seen, told>>

(***************************************************************************)
(* ThingsBoard's row of an alarm.  endTs is the last time it was seen, for *)
(* a cleared alarm the time it ended; some clear without a clearTs.  What  *)
(* is known of its place moves under "prev" when it is cleared.            *)
(***************************************************************************)
DeviceOf(i) == IF Len(listings) = 1 THEN CHOOSE d \in allowed : TRUE ELSE Alarm[i].device
RowOf(i) ==
    LET a == Alarm[i]
        open == i \in active
    IN  [startTs |-> IF a.dated THEN {i} ELSE {}, status |-> IF open THEN "ACTIVE" ELSE "CLEARED",
         endTs |-> IF open THEN {created} ELSE {ended[i]},
         clearTs |-> IF a.stamped /\ ~open THEN {ended[i]} ELSE {},
         type |-> a.type, severity |-> a.severity, name |-> a.name,
         details |-> IF open THEN a.places ELSE <<>>, prev |-> IF open THEN <<>> ELSE a.places]

(***************************************************************************)
(* normalize_alarm.  What a row may lack is a set with at most one member. *)
(***************************************************************************)
(* A buggy reading of the details that forgets the last observation.       *)
details_outer(row) == row.details

details_of(row) == With(row.details, row.prev)
Detail(row, k) == IF k \in DOMAIN details_of(row) THEN {details_of(row)[k]} ELSE {}

(* A buggy reading that waits for the stamp of the clearing.               *)
cleared_when_stamped(row) == row.clearTs # {}

cleared(row) == row.status = "CLEARED"
ended_at_of(row) ==
    IF ~cleared(row) THEN {} ELSE IF row.clearTs # {} THEN row.clearTs ELSE row.endTs

normalize_alarm(row, device) ==
    {[type |-> row.type, severity |-> OrElse(row.severity, "UNKNOWN"),
      branch |-> OrElse(row.name, OrElse(Detail(row, "branch"), NodeName[device])),
      zone |-> Detail(row, "zone"), region |-> Detail(row, "region"), device |-> device,
      created_at |-> t, ended_at |-> ended_at_of(row), active |-> ~cleared(row)] : t \in row.startTs}

(* The first row of an alarm counts, and one of another device not at all. *)
Read(S) ==
    LET records == [i \in {i \in S : DeviceOf(i) \in allowed} |-> normalize_alarm(RowOf(i), DeviceOf(i))]
    IN  [i \in {i \in DOMAIN records : records[i] # {}} |-> OrElse(records[i], <<>>)]

(***************************************************************************)
(* What a question selects.                                                *)
(***************************************************************************)
Hour == 1
Day == 3
Weekdays == <<"Monday", "Tuesday", "Wednesday", "Thursday", "Friday", "Saturday", "Sunday">>

Kind(a, W) == Says(Words[a.type], W)
Activation(a) == Kind(a, {"activate", "activated", "activation"})
NamedParts(q) == SelectSeq(<<"tamper", "disconnect", "hdd">>, LAMBDA w : Says(q, {w}))
matches_type(a, q) ==
    IF Phrase(q, <<"camera", "disconnect">>) THEN Kind(a, {"camera"}) /\ Kind(a, {"disconnect"})
    ELSE IF Phrase(q, <<"camera", "tamper">>) THEN Kind(a, {"camera"}) /\ Kind(a, {"tamper"})
    ELSE IF Mentions(q, {<<"integrated", "alarm">>, <<"ias", "activation">>})
      THEN Kind(a, {"integrated", "ias"}) /\ Activation(a)
    ELSE IF Phrase(q, <<"fire", "alarm">>) THEN Kind(a, {"fire"}) /\ Activation(a)
    ELSE IF Mentions(q, {<<"burglar", "alarm">>, <<"intrusion", "alarm">>})
      THEN Kind(a, {"burglar", "intrusion"}) /\ Activation(a)
    ELSE NamedParts(q) # <<>> => Kind(a, {Head(NamedParts(q))})

asks_for_open(q) ==
    \/ Says(q, {"unresolved"})
    \/ ~Says(q, {"resolved", "cleared"}) /\ Says(q, {"active", "open", "current", "currently", "ongoing"})
    \/ ~Says(q, {"resolved", "cleared"}) /\ Phrase(q, <<"right", "now">>)
asks_for_resolved(q) ==
    ~asks_for_open(q) /\ (Says(q, {"resolved", "cleared"}) \/ Phrase(q, <<"completed", "tat">>))
SeverityWords ==
    "critical" :> "CRITICAL" @@ "major" :> "MAJOR" @@ "minor" :> "MINOR" @@ "warning" :> "WARNING"
    @@ "indeterminate" :> "INDETERMINATE"
NamedSeverities(q) == {SeverityWords[w] : w \in {w \in DOMAIN SeverityWords : Says(q, {w})}}
by_named_severity(a, q) == NamedSeverities(q) = {} \/ a.severity \in NamedSeverities(q)
Matches(a, q) == matches_type(a, q) /\ by_named_severity(a, q)

Open(A) == {i \in DOMAIN A : A[i].active}
ClosedOf(A) == {i \in DOMAIN A : ~A[i].active /\ A[i].ended_at # {}}
Population(A, q, now) ==
    IF Phrase(q, <<"last", "hour">>) THEN {i \in DOMAIN A : A[i].created_at >= now - Hour}
    ELSE IF Phrase(q, <<"last", "24">>) THEN {i \in DOMAIN A : A[i].created_at >= now - Day}
    ELSE IF asks_for_open(q) THEN Open(A)
    ELSE IF asks_for_resolved(q) THEN ClosedOf(A) ELSE DOMAIN A
Selected(A, q, now) == {i \in Population(A, q, now) : Matches(A[i], q)}

(***************************************************************************)
(* The families of questions.                                              *)
(***************************************************************************)
(* How long an alarm was, or has been, open.                               *)
age_of(a, now) == Max({0, OrElse(a.ended_at, now) - a.created_at})
Oldest(A, S, now) == {i \in S : \A j \in S : age_of(A[j], now) <= age_of(A[i], now)}

Asks(q, words, nouns) == \E w \in words, n \in nouns : Phrase(q, <<w, n>>)
DIMENSIONS(q) ==
    (IF Mentions(q, {<<"day", "of", "the", "week">>, <<"day", "of", "week">>, <<"which", "day">>, <<"per", "day">>, <<"by", "day">>})
     THEN <<"weekday">> ELSE <<>>)
    \o (IF Asks(q, {"alarm", "error", "issue", "fault", "per", "by", "which"}, {"type"})
           \/ Asks(q, {"device"}, {"category", "categories"}) THEN <<"type">> ELSE <<>>)
    \o (IF Asks(q, {"per", "by", "each", "which"}, {"branch"}) THEN <<"branch">> ELSE <<>>)
    \o (IF Asks(q, {"per", "by", "each", "which"}, {"zone"}) THEN <<"zone">> ELSE <<>>)
    \o (IF Asks(q, {"per", "by", "which"}, {"region", "fgmo", "nbg"}) THEN <<"region">> ELSE <<>>)
    \o (IF Asks(q, {"per", "by"}, {"severity"}) \/ Asks(q, {"severity"}, {"breakdown", "distribution"})
        THEN <<"severity">> ELSE <<>>)
    \o (IF Phrase(q, <<"type", "breakdown">>) THEN <<"type">> ELSE <<>>)
group_dimension(q) == IF DIMENSIONS(q) = <<>> THEN {} ELSE {Head(DIMENSIONS(q))}
KeyOf(a, dimension) ==
    CASE dimension = "weekday" -> {Weekdays[1 + ((a.created_at \div Day) % 7)]}
      [] dimension \in {"zone", "region"} -> a[dimension]
      [] OTHER -> {a[dimension]}
group_alarms(A, S, dimension) ==
    [k \in UNION {KeyOf(A[i], dimension) : i \in S} |-> {i \in S : k \in KeyOf(A[i], dimension)}]
Sizes(groups) == [k \in DOMAIN groups |-> Cardinality(groups[k])]

Ranks(q) == Says(q, {"most", "least", "fewest", "highest", "lowest", "worst", "top"})
Count(q) == Mentions(q, {<<"how", "many">>, <<"count", "of">>, <<"number", "of">>, <<"total", "number">>, <<"total", "count">>})
Longest(q) == Says(q, {"longest", "oldest", "slowest"}) \/ Mentions(q, {<<"highest", "tat">>, <<"highest", "turnaround">>})
Healthy(q) ==
    \E i, j \in DOMAIN q : /\ i < j /\ q[i] \in {"is", "are"}
                           /\ q[j] \in {"healthy", "health", "ok", "okay", "fine", "working", "operational", "normal"}

Found(kind, S) == [kind |-> kind, of |-> S]
(* Of the groups, the ones with the most or the fewest alarms.             *)
Winners(sizes, q) ==
    LET least == Says(q, {"least", "fewest", "lowest"})
    IN  {k \in DOMAIN sizes : \A j \in DOMAIN sizes : IF least THEN sizes[k] <= sizes[j] ELSE sizes[j] <= sizes[k]}
Grouped(sizes, S, q, truncated) ==
    IF sizes = <<>> THEN Found("no such group", S)
    ELSE IF Ranks(q) THEN With(Found("ranking", S), [sizes |-> sizes, winners |-> Winners(sizes, q), lower_bound |-> truncated])
    ELSE With(Found("groups", S), [sizes |-> sizes])
OldestOf(oldest, groups) ==
    With(Found("longest", oldest), [groups |-> {k \in DOMAIN groups : groups[k] \cap oldest # {}}])
(* The oldest, of those that are in a group where the question groups.     *)
LongestIn(A, S, groups, now) ==
    OldestOf(Oldest(A, IF groups = <<>> THEN S ELSE UNION {groups[k] : k \in DOMAIN groups}, now), groups)

Weight == "CRITICAL" :> 5 @@ "MAJOR" :> 4 @@ "MINOR" :> 3 @@ "WARNING" :> 2
WeightOf(a) == IF a.severity \in DOMAIN Weight THEN Weight[a.severity] ELSE 1
Attention(A, groups) == [b \in DOMAIN groups |-> <<Max({WeightOf(A[i]) : i \in groups[b]}), Cardinality(groups[b])>>]
HighestSeverity(A, S) ==
    FirstFound(4, LAMBDA k : {<<"MAJOR", "MINOR", "WARNING", "INDETERMINATE">>[k]} \cap {A[i].severity : i \in S})

(* The questions with an answer of their own, in the order they are tried. *)
Special(A, open, resolved, q) ==
    LET which(noun) == Asks(q, {"which"}, noun) /\ ~Ranks(q)
        end(i) == OrElse(A[i].ended_at, 0)
    IN  IF Phrase(q, <<"severity", "breakdown">>)
          THEN {With(Found("severity breakdown", open), [sizes |-> Sizes(group_alarms(A, open, "severity"))])}
        ELSE IF which(ZoneWords) /\ Says(q, {"unresolved", "active"})
          THEN {With(Found("zones", open), [zones |-> UNION {{<<z, A[i].region>> : z \in A[i].zone} : i \in open}])}
        ELSE IF Says(q, BranchWords) /\ Says(q, {"attention"})
          THEN {With(Found("attention", open), [branches |-> Attention(A, group_alarms(A, open, "branch"))])}
        ELSE IF Phrase(q, <<"active", "critical">>)
          THEN {With(Found("critical", {i \in open : A[i].severity = "CRITICAL"}), [highest |-> HighestSeverity(A, open)])}
        ELSE IF Mentions(q, {<<"oldest">>, <<"open", "the", "longest">>, <<"longest", "current", "tat">>})
          THEN {Found("oldest", {i \in open : \A j \in open : A[i].created_at <= A[j].created_at})}
        ELSE IF Phrase(q, <<"latest", "resolved">>)
          THEN {Found("latest resolved", {i \in resolved : \A j \in resolved : end(j) <= end(i)})}
        ELSE IF Mentions(q, {<<"longest", "resolved">>, <<"longest", "completed">>})
          THEN {Found("longest resolved", Oldest(A, resolved, 0))}
        ELSE IF Mentions(q, {<<"current", "tat">>, <<"live", "tat">>}) THEN {Found("live durations", open)}
        ELSE IF which({"branches"}) /\ (Says(q, {"unresolved"}) \/ Asks(q, {"active"}, {"alarm", "alarms"}))
          THEN {With(Found("branches", open), [branches |-> {A[i].branch : i \in open}])}
        ELSE {}

(* The others: of what the question selects.                               *)
General(A, S, q, now, truncated) ==
    LET groups == IF group_dimension(q) = {} THEN <<>> ELSE group_alarms(A, S, OrElse(group_dimension(q), ""))
    IN
    IF Mentions(q, {<<"alarm", "types">>, <<"types", "of", "alarms">>})
      THEN With(Found("types", S), [types |-> {A[i].type : i \in S}])
    ELSE IF Longest(q) /\ S # {} THEN LongestIn(A, S, groups, now)
    ELSE IF group_dimension(q) # {} THEN Grouped(Sizes(groups), S, q, truncated)
    ELSE IF Count(q) THEN With(Found("count", S), [count |-> Cardinality(S), lower_bound |-> truncated])
    ELSE IF S = {} THEN Found("nothing", {i \in ClosedOf(A) : matches_type(A[i], q)})
    ELSE IF Healthy(q) THEN Found("not healthy", S) ELSE Found("list", S)

format_alarm_answer(A, q, now, truncated) ==
    OrElse(Special(A, Open(A), ClosedOf(A), q), General(A, Selected(A, q, now), q, now, truncated))

(***************************************************************************)
(* The steps.                                                              *)
(***************************************************************************)
AlarmInit ==
    /\ Init
    /\ ended = [i \in (1 .. created) \ active |-> i]
    /\ allowed \in {r[2] : r \in {r \in Readings : r[1] = listings}}
    /\ seen = <<>>
    /\ told = [kind |-> "none"]

Stirred == (created - first) + Cardinality({i \in DOMAIN ended : ended[i] > first})
RaiseAlarm == Stirred < MaxStir /\ Create /\ UNCHANGED <<ended, allowed, seen, told>>
ClearAlarm(i) ==
    /\ Stirred < MaxStir
    /\ Clear(i)
    /\ ended' = With([j \in {i} |-> created + 1], ended)
    /\ UNCHANGED <<allowed, seen, told>>

ReadPage ==
    /\ FetchPage \/ FetchLastPage \/ HitCap \/ BareList
    /\ seen' = With(seen, Read(Returned))
    /\ UNCHANGED <<ended, allowed, told>>

(* An answer of ThingsBoard that is no page, or an error.                  *)
ReadNothing ==
    /\ OddBody \/ Raise
    /\ UNCHANGED <<ended, allowed, seen, told>>

TellAlarms ==
    /\ Done /\ told.kind = "none"
    /\ \E q \in AlarmQuestions : told' = With([q |-> q], format_alarm_answer(seen, q, created, cut # {}))
    /\ UNCHANGED <<vars, ended, allowed, seen>>

AlarmNext ==
    \/ RaiseAlarm
    \/ \E i \in Items : ClearAlarm(i)
    \/ ReadPage \/ ReadNothing
    \/ TellAlarms

(***************************************************************************)
(* Properties.                                                             *)
(***************************************************************************)
(* An alarm is told as open only without an end and if it was open at some *)
(* time since the first request, and as resolved only when it has been     *)
(* cleared, with the time it was; and wherever it is known what zone an    *)
(* open alarm is in, that is known of the resolved ones.                   *)
OpenSince(i) == i \in active \/ ended[i] > first
ToldAsItWas ==
    \A i \in DOMAIN seen :
        /\ IF seen[i].active THEN seen[i].ended_at = {} /\ OpenSince(i)
           ELSE i \in DOMAIN ended /\ seen[i].ended_at = {ended[i]}
        /\ "zone" \in DOMAIN Alarm[i].places => seen[i].zone = {Alarm[i].places["zone"]}

(* A number of open alarms that is not given as a lower bound counts every *)
(* matching alarm that was open all the while, and never one that was      *)
(* resolved before the question, although each may be read in either       *)
(* listing, or twice, and moves between pages as others come and go.       *)
CountsAreBounds ==
    told.kind = "count" /\ odd = 0 /\ asks_for_open(told.q) /\ ~Mentions(told.q, {<<"last", "hour">>, <<"last", "24">>}) =>
        LET asked == {i \in 1 .. created : /\ Alarm[i].dated /\ DeviceOf(i) \in allowed
                                           /\ Matches([type |-> Alarm[i].type, severity |-> OrElse(Alarm[i].severity, "UNKNOWN")], told.q)}
        IN  /\ told.count <= Cardinality({i \in asked : OpenSince(i)})
            /\ ~told.lower_bound => Cardinality(steady \cap asked) <= told.count

(* The alarm that has been open the longest is that even when the history  *)
(* is longer than what is read of it: nothing older is still open, if the  *)
(* open alarms fit the pages and none of them was cleared meanwhile.       *)
OldestIsOldest ==
    told.kind = "oldest" /\ odd = 0 /\ listings = <<"ACTIVE", "ANY">>
       /\ Cardinality(active) <= PageSize * MaxPages /\ (\A i \in DOMAIN ended : ended[i] <= first) =>
        \A i \in steady : Alarm[i].dated /\ DeviceOf(i) \in allowed => \E j \in told.of : j <= i

=============================================================================
