-------------------------- MODULE Assistant_proofs --------------------------
(***************************************************************************)
(* What an answer may rest on.  First a listing read page by page, for any *)
(* number of items, pages and rows of a page, and any sequence of listings:*)
(* creations push the items of the "ANY" listing to later pages, so that a *)
(* page may return an item again, and never skips one that was there at    *)
(* the first request.  Then the answers about alarms made of such a        *)
(* listing, for any alarms and questions; the answers about a device, for  *)
(* any JSON values that its sources hold; the branches an answer about an  *)
(* area counts, for any imports between its reads, and what it counts of   *)
(* them, for any devices; and the branch that a question names, for any    *)
(* texts.                                                                  *)
(***************************************************************************)
EXTENDS Assistant, DataInduction

TypeOK ==
    /\ created \in Nat /\ first \in 0 .. created
    /\ active \subseteq 1 .. created /\ steady \subseteq 1 .. first
    /\ listings \in Answers
    /\ reading \in Nat \ {0} /\ page \in Nat
    /\ rows \subseteq 1 .. created
    /\ odd \in Nat

LEMMA AnswersAreSequences == listings \in Answers => Len(listings) \in Nat \ {0} /\ DOMAIN listings = 1 .. Len(listings)
  <1>1. listings \in Answers => listings \in Seq({"ACTIVE", "ANY"}) /\ listings # <<>>
    BY PagingAssumption
  <1> QED BY <1>1

\* Nobody leaves the "ANY" listing, so an item's place in it is how many are as new.
LEMMA PlaceInAll ==
    ASSUME TypeOK, listings[reading] = "ANY", NEW i \in 1 .. created
    PROVE  Place(i) = created - i + 1
  <1>1. {j \in Listing : j >= i} = i .. created
    BY DEF Listing, TypeOK
  <1>2. Cardinality(i .. created) = created - i + 1
    BY FS_Interval DEF TypeOK
  <1> QED BY <1>1, <1>2 DEF Place

LEMMA SizeOfAll == ASSUME TypeOK, listings[reading] = "ANY" PROVE Cardinality(Listing) = created
  <1>1. Listing = 1 .. created
    BY DEF Listing
  <1> QED BY <1>1, FS_Interval DEF TypeOK

\* How many rows the pages read so far and the next one may hold.
LEMMA PagesAdd ==
    ASSUME NEW n \in Nat
    PROVE  n * PageSize \in Nat /\ (n + 1) * PageSize = n * PageSize + PageSize /\ 0 * PageSize = 0
  BY PagingAssumption

\* The items of a page of the "ANY" listing.
LEMMA PageOfAll ==
    ASSUME TypeOK, listings[reading] = "ANY"
    PROVE  Returned = {i \in 1 .. created : /\ i <= created - page * PageSize
                                            /\ i > created - (page + 1) * PageSize}
  <1>1. Listing = 1 .. created
    BY DEF Listing
  <1>2. page * PageSize \in Nat /\ (page + 1) * PageSize \in Nat
    BY PagesAdd, PagingAssumption DEF TypeOK
  <1>3. \A i \in 1 .. created : Place(i) = created - i + 1
    BY PlaceInAll
  <1>4. \A i \in 1 .. created : /\ Place(i) > page * PageSize <=> i <= created - page * PageSize
                                /\ Place(i) <= (page + 1) * PageSize <=> i > created - (page + 1) * PageSize
    BY <1>2, <1>3 DEF TypeOK
  <1> QED BY <1>1, <1>4 DEF Returned

LEMMA ReturnedExists == Returned \subseteq Listing
  BY DEF Returned
LEMMA ListingTyped == TypeOK => Listing \subseteq 1 .. created
  BY DEF TypeOK, Listing

LEMMA TypeStep == TypeOK /\ [Next]_vars => TypeOK'
  <1> SUFFICES ASSUME TypeOK, [Next]_vars PROVE TypeOK'
    OBVIOUS
  <1> USE DEF TypeOK
  <1>1. CASE Create
    BY <1>1 DEF Create, client
  <1>2. ASSUME NEW i \in Items, Clear(i) PROVE TypeOK'
    BY <1>2 DEF Clear, client
  <1>3. CASE FetchPage \/ FetchLastPage \/ HitCap \/ BareList
    <2>1. rows' \subseteq 1 .. created
      BY <1>3, ReturnedExists, ListingTyped DEF FetchPage, FetchLastPage, HitCap, BareList, Collect
    <2>2. reading' \in Nat \ {0} /\ page' \in Nat
      BY <1>3 DEF FetchPage, FetchLastPage, HitCap, BareList, NextListing
    <2>3. odd' \in Nat /\ UNCHANGED <<created, active, first, steady, listings>>
      BY <1>3 DEF FetchPage, FetchLastPage, HitCap, BareList, server
    <2> QED BY <2>1, <2>2, <2>3
  <1>4. CASE OddBody
    BY <1>4 DEF OddBody, NextListing, server
  <1>5. CASE Raise \/ UNCHANGED vars
    BY <1>5 DEF Raise, vars, server, client
  <1> QED BY <1>1, <1>2, <1>3, <1>4, <1>5 DEF Next

\* The pages of the "ANY" listing read so far hold all but the oldest of what there was
\* at the first request.
Covered ==
    ~ Done /\ listings[reading] = "ANY" =>
        \A i \in 1 .. first : i > created - page * PageSize => i \in rows

\* A listing that ended neither at the cap nor early has shown it all.
Shown ==
    cut = {} /\ odd = 0 =>
        \A n \in 1 .. reading - 1 : n \in DOMAIN listings /\ listings[n] = "ANY" => steady \subseteq rows

Complete == TypeOK /\ Covered /\ Shown

LEMMA CompleteInit == Init => Complete
  BY PagingAssumption, AnswersAreSequences, PagesAdd DEF Init, Complete, TypeOK, Covered, Shown, Done

LEMMA CoveredStep == TypeOK /\ Covered /\ [Next]_vars => Covered'
  <1> SUFFICES ASSUME TypeOK, Covered, [Next]_vars PROVE Covered'
    OBVIOUS
  <1>0. TypeOK' /\ (created - page * PageSize \in Int)
    BY TypeStep, PagesAdd, PagingAssumption DEF TypeOK
  <1>1. CASE Create
    <2>1. created' - page' * PageSize = created - page * PageSize + 1
      BY <1>0, <1>1, PagesAdd, PagingAssumption DEF Create, client, TypeOK
    <2>2. UNCHANGED <<first, listings, reading, rows>>
      BY <1>1 DEF Create, client
    <2> QED BY <1>0, <2>1, <2>2 DEF Covered, Done, TypeOK
  <1>2. ASSUME NEW i \in Items, Clear(i) PROVE Covered'
    BY <1>2 DEF Clear, client, Covered, Done
  <1>3. CASE FetchPage
    <2> SUFFICES ASSUME listings[reading] = "ANY", NEW i \in 1 .. first, i > created - page' * PageSize
                 PROVE  i \in rows'
      BY <1>3 DEF FetchPage, Covered, Done, server
    <2>1. i \in 1 .. created /\ page' = page + 1
      BY <1>3 DEF FetchPage, TypeOK
    <2>2. CASE i > created - page * PageSize
      BY <1>3, <2>2 DEF FetchPage, Reading, Covered, Collect
    <2>3. CASE ~ i > created - page * PageSize
      BY <1>0, <1>3, <2>1, <2>3, PageOfAll DEF FetchPage, Collect, TypeOK
    <2> QED BY <2>2, <2>3
  <1>4. CASE FetchLastPage \/ HitCap \/ BareList \/ OddBody
    <2>1. page' = 0 /\ UNCHANGED <<created, first>>
      BY <1>4 DEF FetchLastPage, HitCap, BareList, OddBody, NextListing, server
    <2> QED BY <2>1, PagingAssumption DEF Covered, TypeOK
  <1>5. CASE Raise \/ UNCHANGED vars
    BY <1>5 DEF Raise, vars, server, client, Covered, Done
  <1> QED BY <1>1, <1>2, <1>3, <1>4, <1>5 DEF Next

LEMMA ShownStep == Complete /\ [Next]_vars => Shown'
  <1> SUFFICES ASSUME TypeOK, Covered, Shown, [Next]_vars, (cut = {} /\ odd = 0)',
                      NEW n \in 1 .. reading' - 1, n \in DOMAIN listings, listings[n] = "ANY"
               PROVE  steady' \subseteq rows'
    BY DEF Complete, Shown, Next, Create, Clear, FetchPage, FetchLastPage, HitCap, BareList, OddBody, Raise, vars, client, server
  <1>1. CASE n \in 1 .. reading - 1
    <2>1. cut = {} /\ odd = 0
      BY DEF Next, Create, Clear, FetchPage, FetchLastPage, HitCap, BareList, OddBody, Raise, vars, client, TypeOK
    <2>2. steady \subseteq rows
      BY <1>1, <2>1 DEF Shown
    <2>3. steady' \subseteq steady /\ rows \subseteq rows'
      BY DEF Next, Create, Clear, FetchPage, FetchLastPage, HitCap, BareList, OddBody, Raise, Collect, vars, client, server
    <2> QED BY <2>2, <2>3
  <1>2. CASE n \notin 1 .. reading - 1
    <2>1. reading' = reading + 1 /\ n = reading
      BY <1>2 DEF TypeOK, Next, Create, Clear, FetchPage, FetchLastPage, HitCap, BareList, OddBody, Raise, NextListing, vars, client
    <2>2. FetchLastPage
      BY <2>1 DEF TypeOK, Next, Create, Clear, FetchPage, HitCap, BareList, OddBody, Raise, NextListing, vars, client
    <2>3. created <= (page + 1) * PageSize
      BY <2>1, <2>2, SizeOfAll, PagesAdd, PagingAssumption DEF FetchLastPage, HasNext, TypeOK
    <2> SUFFICES ASSUME NEW i \in steady PROVE i \in rows \cup Returned
      BY <2>2 DEF FetchLastPage, Collect, server
    <2>4. i \in 1 .. first /\ i \in 1 .. created
      BY DEF TypeOK
    <2>5. CASE i > created - page * PageSize
      BY <2>1, <2>2, <2>4, <2>5 DEF FetchLastPage, Reading, Covered
    <2>6. CASE ~ i > created - page * PageSize
      <3>1. page * PageSize \in Nat /\ (page + 1) * PageSize \in Nat
        BY PagesAdd, PagingAssumption DEF TypeOK
      <3> QED BY <2>1, <2>3, <2>4, <2>6, <3>1, PageOfAll DEF TypeOK
    <2> QED BY <2>5, <2>6
  <1> QED BY <1>1, <1>2

LEMMA CompleteStep == Complete /\ [Next]_vars => Complete'
  BY TypeStep, CoveredStep, ShownStep DEF Complete

\* An answer that does not say that it is cut, and reads a listing which no item leaves,
\* shows all that was active all the while: fetch_all_pages loses nothing to the creations
\* and clearances between two of its pages.
THEOREM UncutIsComplete == Spec => []NoSilentDrop
  <1>1. Complete => NoSilentDrop
    BY AnswersAreSequences DEF Complete, TypeOK, Shown, NoSilentDrop, ReadsAll, Done
  <1> QED BY <1>1, CompleteInit, CompleteStep, PTL DEF Spec

----------------------------------------------------------------------------
LEMMA NoGapStep == TypeOK /\ Covered /\ NoGap /\ [Next]_vars => NoGap'
  <1> SUFFICES ASSUME TypeOK, Covered, NoGap, [Next]_vars, listings = <<"ANY">>,
                      NEW i \in rows', NEW k \in i .. first, k \notin rows'
               PROVE  FALSE
    BY DEF NoGap, Next, Create, Clear, FetchPage, FetchLastPage, HitCap, BareList, OddBody, Raise, vars, client, server
  <1>1. rows \subseteq rows' /\ rows' \subseteq rows \cup Returned
    BY DEF Next, Create, Clear, FetchPage, FetchLastPage, HitCap, BareList, OddBody, Raise, Collect, vars, client
  <1>2. i \in Returned /\ i \notin rows
    BY <1>1 DEF NoGap
  <1>3. rows' = rows \cup Returned /\ Reading
    BY <1>2 DEF Next, Create, Clear, FetchPage, FetchLastPage, HitCap, BareList, OddBody, Raise, Collect, vars, client
  <1>4. listings[reading] = "ANY" /\ ~ Done
    BY <1>3 DEF Reading, Done, TypeOK
  <1>5. page * PageSize \in Nat /\ (page + 1) * PageSize \in Nat
    BY PagesAdd, PagingAssumption DEF TypeOK
  <1>6. i \in 1 .. created /\ i > created - (page + 1) * PageSize
    BY <1>2, <1>4, PageOfAll
  <1>7. k \in 1 .. first /\ k \in 1 .. created /\ k > created - (page + 1) * PageSize
    BY <1>5, <1>6 DEF TypeOK
  <1>8. CASE k > created - page * PageSize
    BY <1>1, <1>4, <1>7, <1>8 DEF Covered
  <1>9. CASE ~ k > created - page * PageSize
    BY <1>3, <1>4, <1>5, <1>7, <1>9, PageOfAll DEF TypeOK
  <1> QED BY <1>8, <1>9

\* A history of alarms that ends at the cap, or early, is one stretch down from the newest
\* alarm there was at the first request: "cover only the most recent portion".
THEOREM HistoryHasNoGap == Spec => []NoGap
  <1>1. Init => Complete /\ NoGap
    BY CompleteInit DEF Init, NoGap
  <1>2. Complete /\ NoGap /\ [Next]_vars => (Complete /\ NoGap)'
    BY CompleteStep, NoGapStep DEF Complete
  <1> QED BY <1>1, <1>2, PTL DEF Spec

----------------------------------------------------------------------------

(***************************************************************************)
(* Alarms.  What is recorded of a row is what the alarm was when the row   *)
(* was read, and an alarm that was cleared stays so.                       *)
(***************************************************************************)
\* What is recorded of i when it is read.
Faithful(i, x) ==
    /\ x.type = Alarm[i].type /\ x.severity = OrElse(Alarm[i].severity, "UNKNOWN")
    /\ x.created_at = i
    /\ x.active = (i \in active)
    /\ x.ended_at = IF i \in active THEN {} ELSE {ended[i]}
    /\ "zone" \in DOMAIN Alarm[i].places => x.zone = {Alarm[i].places["zone"]}

LEMMA WithFacts ==
    ASSUME NEW f, NEW g
    PROVE  /\ DOMAIN With(f, g) = DOMAIN f \cup DOMAIN g
           /\ \A k \in DOMAIN f : With(f, g)[k] = f[k]
           /\ \A k \in DOMAIN g : k \notin DOMAIN f => With(f, g)[k] = g[k]
  BY DEF With

LEMMA DetailsFacts ==
    ASSUME NEW i
    PROVE  /\ DOMAIN details_of(RowOf(i)) = DOMAIN Alarm[i].places
           /\ \A k \in DOMAIN Alarm[i].places : details_of(RowOf(i))[k] = Alarm[i].places[k]
  <1>1. DOMAIN <<>> = {}
    OBVIOUS
  <1>2. \/ RowOf(i).details = Alarm[i].places /\ RowOf(i).prev = <<>>
        \/ RowOf(i).details = <<>> /\ RowOf(i).prev = Alarm[i].places
    BY DEF RowOf
  <1>3. /\ DOMAIN details_of(RowOf(i)) = DOMAIN RowOf(i).details \cup DOMAIN RowOf(i).prev
        /\ \A k \in DOMAIN RowOf(i).details : details_of(RowOf(i))[k] = RowOf(i).details[k]
        /\ \A k \in DOMAIN RowOf(i).prev : k \notin DOMAIN RowOf(i).details =>
              details_of(RowOf(i))[k] = RowOf(i).prev[k]
    BY WithFacts DEF details_of
  <1> QED BY <1>1, <1>2, <1>3

LEMMA RecordFacts ==
    ASSUME NEW i, NEW d, NEW x \in normalize_alarm(RowOf(i), d)
    PROVE  Faithful(i, x) /\ Alarm[i].dated
  <1> DEFINE r == RowOf(i)
  <1>1. /\ r.status = (IF i \in active THEN "ACTIVE" ELSE "CLEARED")
        /\ r.type = Alarm[i].type /\ r.severity = Alarm[i].severity
        /\ r.startTs = (IF Alarm[i].dated THEN {i} ELSE {})
        /\ i \notin active => r.endTs = {ended[i]} /\ r.clearTs \in {{}, {ended[i]}}
    BY DEF RowOf
  <1>2. /\ "zone" \in DOMAIN details_of(r) <=> "zone" \in DOMAIN Alarm[i].places
        /\ "zone" \in DOMAIN Alarm[i].places => details_of(r)["zone"] = Alarm[i].places["zone"]
    BY DetailsFacts
  <1> HIDE DEF r
  <1>3. /\ x.type = r.type /\ x.severity = OrElse(r.severity, "UNKNOWN") /\ x.created_at \in r.startTs
        /\ x.zone = Detail(r, "zone") /\ x.ended_at = ended_at_of(r) /\ x.active = ~ cleared(r)
    BY DEF normalize_alarm, r
  <1>4. x.active = (i \in active)
    BY <1>1, <1>3 DEF cleared
  <1>5. x.ended_at = IF i \in active THEN {} ELSE {ended[i]}
    BY <1>1, <1>3 DEF cleared, ended_at_of
  <1>6. "zone" \in DOMAIN Alarm[i].places => x.zone = {Alarm[i].places["zone"]}
    BY <1>2, <1>3 DEF Detail
  <1>7. Alarm[i].dated /\ x.created_at = i
    BY <1>1, <1>3
  <1> QED BY <1>1, <1>3, <1>4, <1>5, <1>6, <1>7 DEF Faithful

\* The alarms a page tells of.
Relevant(i) == Alarm[i].dated /\ DeviceOf(i) \in allowed
LEMMA ReadFacts ==
    ASSUME NEW S
    PROVE  /\ DOMAIN Read(S) = {i \in S : Relevant(i)}
           /\ \A i \in DOMAIN Read(S) : Faithful(i, Read(S)[i])
  <1> DEFINE rec == [i \in {i \in S : DeviceOf(i) \in allowed} |-> normalize_alarm(RowOf(i), DeviceOf(i))]
  <1>1. /\ DOMAIN Read(S) = {i \in DOMAIN rec : rec[i] # {}}
        /\ \A i \in DOMAIN Read(S) : Read(S)[i] = OrElse(rec[i], <<>>)
    BY DEF Read
  <1>2. \A i \in DOMAIN rec : rec[i] # {} <=> Alarm[i].dated
    <2>1. \A i \in DOMAIN rec : rec[i] = normalize_alarm(RowOf(i), DeviceOf(i))
      OBVIOUS
    <2>2. \A i, d : normalize_alarm(RowOf(i), d) # {} <=> Alarm[i].dated
      <3>1. \A r, d : normalize_alarm(r, d) # {} <=> r.startTs # {}
        BY DEF normalize_alarm
      <3>2. \A i : RowOf(i).startTs = IF Alarm[i].dated THEN {i} ELSE {}
        BY DEF RowOf
      <3> QED BY <3>1, <3>2
    <2> QED BY <2>1, <2>2
  <1>3. DOMAIN Read(S) = {i \in S : Relevant(i)}
    BY <1>1, <1>2 DEF Relevant
  <1>4. ASSUME NEW i \in DOMAIN Read(S) PROVE Faithful(i, Read(S)[i])
    <2>1. i \in DOMAIN rec /\ rec[i] # {} /\ Read(S)[i] = OrElse(rec[i], <<>>)
      BY <1>1
    <2>2. OrElse(rec[i], <<>>) \in rec[i]
      BY <2>1 DEF OrElse
    <2>3. rec[i] = normalize_alarm(RowOf(i), DeviceOf(i))
      BY <2>1
    <2> HIDE DEF rec
    <2> QED BY <2>1, <2>2, <2>3, RecordFacts
  <1> QED BY <1>3, <1>4

\* The world: whoever was cleared has an end, which came after the first request if it
\* came during the reading.
Ends ==
    /\ DOMAIN ended = (1 .. created) \ active
    /\ \A i \in DOMAIN ended : ended[i] \in 1 .. created + 1
    /\ steady \subseteq active

\* The records: every row read that the question wants, and what is said of it.
Records ==
    /\ DOMAIN seen = {i \in rows : Relevant(i)}
    /\ \A i \in DOMAIN seen : /\ seen[i].type = Alarm[i].type /\ seen[i].severity = OrElse(Alarm[i].severity, "UNKNOWN")
                              /\ seen[i].created_at = i /\ seen[i].active \in BOOLEAN
Written == Complete /\ Ends /\ Records /\ ToldAsItWas

LEMMA WrittenInit == AlarmInit => Written
  <1> SUFFICES ASSUME AlarmInit PROVE Written
    OBVIOUS
  <1>1. Complete
    BY CompleteInit DEF AlarmInit
  <1>2. DOMAIN ended = (1 .. created) \ active /\ \A i \in DOMAIN ended : ended[i] = i
    BY DEF AlarmInit
  <1>3. created \in Nat /\ steady = active /\ rows = {} /\ seen = <<>>
    BY PagingAssumption DEF AlarmInit, Init
  <1>4. DOMAIN seen = {}
    BY <1>3
  <1> QED BY <1>1, <1>2, <1>3, <1>4 DEF Written, Ends, Records, ToldAsItWas

\* An alarm is told as it was, though it is cleared after its row was read.
LEMMA ClearKeeps ==
    ASSUME Written, NEW c \in Items, ClearAlarm(c)
    PROVE  Written'
  <1>1. Clear(c) /\ ended' = With([j \in {c} |-> created + 1], ended) /\ UNCHANGED <<allowed, seen, told>>
    BY DEF ClearAlarm
  <1>2. c \in active /\ active' = active \ {c} /\ steady' = steady \ {c} /\ UNCHANGED <<created, first, client>>
    BY <1>1 DEF Clear
  <1>3. DOMAIN ended' = DOMAIN ended \cup {c}
    BY <1>1, WithFacts, ZenonT(40)
  <1>4. ended'[c] = created + 1 /\ \A i \in DOMAIN ended : i # c => ended'[i] = ended[i]
    BY <1>1 DEF With
  <1>5. created \in Nat /\ first \in 0 .. created /\ active \subseteq 1 .. created
    BY DEF Written, Complete, TypeOK
  <1>6. c \notin DOMAIN ended
    BY <1>2 DEF Written, Ends
  <1>7. Complete'
    BY <1>1, CompleteStep DEF Written, Next
  <1>8. Ends'
    BY <1>2, <1>3, <1>4, <1>5, <1>6 DEF Written, Ends
  <1>9. Records'
    <2>1. \A i : Relevant(i)' = Relevant(i)
      BY <1>1, <1>2 DEF Relevant, DeviceOf, client
    <2> QED BY <1>1, <1>2, <2>1 DEF Written, Records, client
  <1>10. ToldAsItWas'
    <2> SUFFICES ASSUME NEW i \in DOMAIN seen
                 PROVE  /\ IF seen[i].active THEN seen[i].ended_at = {} /\ (i \in active' \/ ended'[i] > first)
                           ELSE i \in DOMAIN ended' /\ seen[i].ended_at = {ended'[i]}
                        /\ "zone" \in DOMAIN Alarm[i].places => seen[i].zone = {Alarm[i].places["zone"]}
      BY <1>1, <1>2 DEF ToldAsItWas, OpenSince
    <2>1. /\ IF seen[i].active THEN seen[i].ended_at = {} /\ (i \in active \/ ended[i] > first)
             ELSE i \in DOMAIN ended /\ seen[i].ended_at = {ended[i]}
          /\ "zone" \in DOMAIN Alarm[i].places => seen[i].zone = {Alarm[i].places["zone"]}
      BY DEF Written, ToldAsItWas, OpenSince
    <2>2. CASE i = c
      BY <1>4, <1>5, <1>6, <2>1, <2>2
    <2>3. CASE i # c
      <3>1. i \in 1 .. created
        BY DEF Written, Records, Complete, TypeOK
      <3>2. i \in active \/ i \in DOMAIN ended
        BY <3>1 DEF Written, Ends
      <3> QED BY <1>2, <1>3, <1>4, <2>1, <2>3, <3>2
    <2> QED BY <2>2, <2>3
  <1> QED BY <1>7, <1>8, <1>9, <1>10 DEF Written

LEMMA RaiseKeeps ==
    ASSUME Written, RaiseAlarm
    PROVE  Written'
  <1>1. /\ Create /\ created' = created + 1 /\ active' = active \cup {created + 1}
        /\ UNCHANGED <<first, steady, client, ended, allowed, seen, told>>
    BY DEF RaiseAlarm, Create
  <1>2. created \in Nat /\ first \in 0 .. created /\ active \subseteq 1 .. created /\ rows \subseteq 1 .. created
    BY DEF Written, Complete, TypeOK
  <1>3. Complete'
    BY <1>1, CompleteStep DEF Written, Next
  <1>4. Ends'
    BY <1>1, <1>2 DEF Written, Ends
  <1>5. Records'
    <2>1. \A i : Relevant(i)' = Relevant(i)
      BY <1>1 DEF Relevant, DeviceOf, client
    <2> QED BY <1>1, <2>1 DEF Written, Records, client
  <1>6. ToldAsItWas'
    BY <1>1 DEF Written, ToldAsItWas, OpenSince
  <1> QED BY <1>3, <1>4, <1>5, <1>6 DEF Written

LEMMA ReadKeeps ==
    ASSUME Written, ReadPage
    PROVE  Written'
  <1>1. /\ FetchPage \/ FetchLastPage \/ HitCap \/ BareList
        /\ seen' = With(seen, Read(Returned)) /\ UNCHANGED <<ended, allowed, told>>
    BY DEF ReadPage
  <1>2. rows' = rows \cup Returned /\ UNCHANGED <<server, listings>>
    BY <1>1 DEF FetchPage, FetchLastPage, HitCap, BareList, Collect
  <1>3. Complete'
    BY <1>1, CompleteStep DEF Written, Next
  <1>4. Ends'
    BY <1>1, <1>2 DEF Written, Ends, server
  <1> DEFINE R == Read(Returned)
  <1>5. /\ DOMAIN R = {i \in Returned : Relevant(i)}
        /\ \A i \in DOMAIN R : Faithful(i, R[i])
    BY ReadFacts
  <1> HIDE DEF R
  <1>6. /\ DOMAIN seen' = DOMAIN seen \cup DOMAIN R
        /\ \A i \in DOMAIN seen : seen'[i] = seen[i]
        /\ \A i \in DOMAIN R : i \notin DOMAIN seen => seen'[i] = R[i]
    <2>1. seen' = With(seen, R)
      BY <1>1 DEF R
    <2> QED BY <2>1 DEF With
  <1>7. \A i \in DOMAIN R : i \in active \/ i \in DOMAIN ended
    <2>1. Returned \subseteq 1 .. created
      BY ReturnedExists, ListingTyped DEF Written, Complete
    <2> QED BY <1>5, <2>1 DEF Written, Ends
  <1>8. Records'
    <2>1. \A i : Relevant(i)' = Relevant(i)
      BY <1>1, <1>2 DEF Relevant, DeviceOf
    <2>2. DOMAIN seen' = {i \in rows' : Relevant(i)'}
      BY <1>2, <1>5, <1>6, <2>1 DEF Written, Records
    <2>3. ASSUME NEW i \in DOMAIN seen'
          PROVE  /\ seen'[i].type = Alarm[i].type /\ seen'[i].severity = OrElse(Alarm[i].severity, "UNKNOWN")
                 /\ seen'[i].created_at = i /\ seen'[i].active \in BOOLEAN
      <3>1. CASE i \in DOMAIN seen
        BY <1>6, <3>1 DEF Written, Records
      <3>2. CASE i \notin DOMAIN seen
        <4>1. Faithful(i, R[i]) /\ seen'[i] = R[i]
          BY <1>5, <1>6, <2>3, <3>2
        <4>2. R[i].active = (i \in active)
          BY <4>1 DEF Faithful
        <4>3. R[i].active \in BOOLEAN
          BY <4>2
        <4> QED BY <4>1, <4>3 DEF Faithful
      <3> QED BY <3>1, <3>2
    <2> QED BY <2>2, <2>3 DEF Records
  <1>9. ToldAsItWas'
    <2> SUFFICES ASSUME NEW i \in DOMAIN seen'
                 PROVE  /\ IF seen'[i].active THEN seen'[i].ended_at = {} /\ OpenSince(i)
                           ELSE i \in DOMAIN ended /\ seen'[i].ended_at = {ended[i]}
                        /\ "zone" \in DOMAIN Alarm[i].places => seen'[i].zone = {Alarm[i].places["zone"]}
      BY <1>1, <1>2 DEF ToldAsItWas, OpenSince, server
    <2>1. CASE i \in DOMAIN seen
      BY <1>6, <2>1 DEF Written, ToldAsItWas
    <2>2. CASE i \notin DOMAIN seen
      <3>1. i \in DOMAIN R /\ seen'[i] = R[i] /\ Faithful(i, R[i])
        BY <1>5, <1>6, <2>2
      <3> QED BY <1>7, <3>1 DEF Faithful, OpenSince
    <2> QED BY <2>1, <2>2
  <1> QED BY <1>3, <1>4, <1>8, <1>9 DEF Written

LEMMA RestKeeps ==
    ASSUME Written, ReadNothing \/ TellAlarms \/ UNCHANGED alarmVars
    PROVE  Written'
  <1>1. UNCHANGED <<server, listings, rows, ended, allowed, seen>>
    BY DEF ReadNothing, OddBody, Raise, TellAlarms, alarmVars, vars, client
  <1>2. Complete'
    BY CompleteStep DEF Written, ReadNothing, TellAlarms, alarmVars, Next
  <1>3. Ends' /\ ToldAsItWas'
    BY <1>1 DEF Written, Ends, ToldAsItWas, OpenSince, server
  <1>4. Records'
    <2>1. \A i : Relevant(i)' = Relevant(i)
      BY <1>1 DEF Relevant, DeviceOf
    <2> QED BY <1>1, <2>1 DEF Written, Records
  <1> QED BY <1>2, <1>3, <1>4 DEF Written

LEMMA AlarmMoves == [AssistantNext]_assistantVars => [AlarmNext]_alarmVars
  BY DEF AssistantNext, MetricStep, FleetStep, AlarmStep, GateStep, assistantVars

LEMMA WrittenStep == Written /\ [AlarmNext]_alarmVars => Written'
  BY ClearKeeps, RaiseKeeps, ReadKeeps, RestKeeps DEF AlarmNext

LEMMA AlarmsWritten == AssistantSpec => []Written
  <1>1. AssistantInit => Written
    BY WrittenInit DEF AssistantInit
  <1>2. Written /\ [AssistantNext]_assistantVars => Written'
    BY AlarmMoves, WrittenStep
  <1> QED BY <1>1, <1>2, PTL DEF AssistantSpec

\* An alarm is told as it was at some time since the first request, with the end it had
\* and the zone that was known of it, whatever is raised and cleared between two pages:
\* normalize_alarm reads both meanings of a last-seen time and both places of the details.
THEOREM AlarmsAreTold == AssistantSpec => []ToldAsItWas
  <1>1. Written => ToldAsItWas
    BY DEF Written
  <1> QED BY <1>1, AlarmsWritten, PTL

----------------------------------------------------------------------------

(***************************************************************************)
(* Counts.  Only one family of answers is a count, and only one the oldest *)
(* alarm.                                                                  *)
(***************************************************************************)
OldestOpen(A) == {i \in Open(A) : \A j \in Open(A) : A[i].created_at <= A[j].created_at}
Tells(a, A, q, now, truncated) ==
    /\ "kind" \in DOMAIN a /\ "of" \in DOMAIN a
    /\ a.kind = "count" => /\ a.count = Cardinality(Selected(A, q, now)) /\ a.lower_bound = truncated
                           /\ "count" \in DOMAIN a /\ "lower_bound" \in DOMAIN a
    /\ a.kind = "oldest" => a.of = OldestOpen(A)

LEMMA OthersTell ==
    ASSUME NEW A, NEW q, NEW now, NEW truncated, NEW k, NEW S, NEW r, k # "count", k # "oldest"
    PROVE  Tells(With(Found(k, S), r), A, q, now, truncated) /\ Tells(Found(k, S), A, q, now, truncated)
  <1>1. DOMAIN Found(k, S) = {"kind", "of"} /\ Found(k, S).kind = k
    BY DEF Found
  <1>2. DOMAIN With(Found(k, S), r) = {"kind", "of"} \cup DOMAIN r /\ With(Found(k, S), r).kind = k
    BY <1>1 DEF With
  <1> QED BY <1>1, <1>2 DEF Tells

LEMMA OldestTells ==
    ASSUME NEW A, NEW q, NEW now, NEW truncated
    PROVE  Tells(Found("oldest", OldestOpen(A)), A, q, now, truncated)
  BY DEF Tells, Found

LEMMA CountTells ==
    ASSUME NEW A, NEW q, NEW now, NEW truncated
    PROVE  Tells(With(Found("count", Selected(A, q, now)),
                      [count |-> Cardinality(Selected(A, q, now)), lower_bound |-> truncated]),
                 A, q, now, truncated)
  <1> DEFINE f == Found("count", Selected(A, q, now))
             g == [count |-> Cardinality(Selected(A, q, now)), lower_bound |-> truncated]
  <1>1. DOMAIN f = {"kind", "of"} /\ f.kind = "count"
    BY DEF Found
  <1>2. DOMAIN g = {"count", "lower_bound"} /\ g.count = Cardinality(Selected(A, q, now)) /\ g.lower_bound = truncated
    OBVIOUS
  <1> HIDE DEF f, g
  <1>3. /\ DOMAIN With(f, g) = DOMAIN f \cup DOMAIN g
        /\ With(f, g).kind = f.kind /\ With(f, g).count = g.count /\ With(f, g).lower_bound = g.lower_bound
    BY <1>1, <1>2 DEF With
  <1>4. Tells(With(f, g), A, q, now, truncated)
    BY <1>1, <1>2, <1>3 DEF Tells
  <1> QED BY <1>4 DEF f, g

LEMMA SpecialTells ==
    ASSUME NEW A, NEW q, NEW now, NEW truncated, NEW x \in Special(A, Open(A), ClosedOf(A), q)
    PROVE  Tells(x, A, q, now, truncated)
  <1>1. \/ \E k \in {"severity breakdown", "zones", "attention", "critical", "branches"} : \E S, r : x = With(Found(k, S), r)
        \/ \E k \in {"latest resolved", "longest resolved", "live durations"} : \E S : x = Found(k, S)
        \/ x = Found("oldest", OldestOpen(A))
    BY ZenonT(60) DEF Special, OldestOpen
  <1>2. CASE \E k \in {"severity breakdown", "zones", "attention", "critical", "branches"} : \E S, r : x = With(Found(k, S), r)
    BY <1>2, OthersTell
  <1>3. CASE \E k \in {"latest resolved", "longest resolved", "live durations"} : \E S : x = Found(k, S)
    BY <1>3, OthersTell
  <1>4. CASE x = Found("oldest", OldestOpen(A))
    BY <1>4, OldestTells
  <1> QED BY <1>1, <1>2, <1>3, <1>4

LEMMA GeneralTells ==
    ASSUME NEW A, NEW q, NEW now, NEW truncated
    PROVE  Tells(General(A, Selected(A, q, now), q, now, truncated), A, q, now, truncated)
  BY OthersTell, CountTells DEF General, Grouped, LongestIn, OldestOf

LEMMA AnswerTells ==
    ASSUME NEW A, NEW q, NEW now, NEW truncated
    PROVE  Tells(format_alarm_answer(A, q, now, truncated), A, q, now, truncated)
  BY SpecialTells, GeneralTells DEF format_alarm_answer, OrElse

\* An answer comes after the last page, and nothing moves after it.
ToldLast == told.kind # "none" => Done

LEMMA NothingAfter ==
    ASSUME ToldLast, told.kind # "none", [AlarmNext]_alarmVars
    PROVE  UNCHANGED alarmVars
  <1>1. Done
    BY DEF ToldLast
  <1> QED BY <1>1 DEF AlarmNext, RaiseAlarm, ClearAlarm, Create, Clear, ReadPage, ReadNothing, FetchPage,
             FetchLastPage, HitCap, BareList, OddBody, Raise, TellAlarms, Reading

LEMMA StillUntold == ASSUME [AlarmNext]_alarmVars, ~ TellAlarms PROVE told' = told
  BY DEF AlarmNext, RaiseAlarm, ClearAlarm, ReadPage, ReadNothing, alarmVars

LEMMA ToldLastStep == ToldLast /\ [AlarmNext]_alarmVars => ToldLast'
  <1> SUFFICES ASSUME ToldLast, [AlarmNext]_alarmVars PROVE ToldLast'
    OBVIOUS
  <1>1. CASE TellAlarms
    BY <1>1 DEF TellAlarms, ToldLast, Done, vars, client
  <1>2. CASE told.kind # "none"
    BY <1>2, NothingAfter DEF ToldLast, Done, alarmVars, vars, client
  <1>3. CASE told.kind = "none" /\ ~ TellAlarms
    BY <1>3, StillUntold DEF ToldLast
  <1> QED BY <1>1, <1>2, <1>3

\* What was told, of the records there are.
LEMMA ToldFacts ==
    ASSUME TellAlarms
    PROVE  \E q \in AlarmQuestions : told'.q = q /\ Tells(told', seen, q, created, cut # {})
  <1>1. PICK q \in AlarmQuestions : told' = With([q |-> q], format_alarm_answer(seen, q, created, cut # {}))
    BY DEF TellAlarms
  <1> DEFINE a == format_alarm_answer(seen, q, created, cut # {})
             h == [q |-> q]
  <1>2. Tells(a, seen, q, created, cut # {})
    BY AnswerTells
  <1>3. DOMAIN h = {"q"} /\ h.q = q /\ told' = With(h, a)
    BY <1>1
  <1> HIDE DEF a, h
  <1>4. /\ DOMAIN told' = DOMAIN h \cup DOMAIN a
        /\ told'.q = q
        /\ \A k \in DOMAIN a \ {"q"} : told'[k] = a[k]
    BY <1>3 DEF With
  <1>5. told'.kind = a.kind /\ told'.of = a.of
    BY <1>2, <1>4 DEF Tells
  <1>6. a.kind = "count" => told'.count = a.count /\ told'.lower_bound = a.lower_bound
    BY <1>2, <1>4 DEF Tells
  <1>7. Tells(told', seen, q, created, cut # {})
    BY <1>2, <1>4, <1>5, <1>6 DEF Tells
  <1> QED BY <1>4, <1>7

\* Whether a question is about an alarm depends on its type and its severity.
LEMMA SameMatch ==
    ASSUME NEW a, NEW b, NEW q, a.type = b.type, a.severity = b.severity
    PROVE  Matches(a, q) <=> Matches(b, q)
  <1>1. \A W : Kind(a, W) = Kind(b, W)
    BY DEF Kind
  <1>2. Activation(a) = Activation(b)
    BY <1>1 DEF Activation
  <1>3. matches_type(a, q) <=> matches_type(b, q)
    BY <1>1, <1>2 DEF matches_type
  <1>4. by_named_severity(a, q) <=> by_named_severity(b, q)
    BY DEF by_named_severity
  <1> QED BY <1>3, <1>4 DEF Matches

\* The listing of all alarms is always read.
LEMMA AllAreRead == AlarmInit => listings \in {<<"ANY">>, <<"ACTIVE", "ANY">>}
  BY ReadingAssumption DEF AlarmInit

Kept == listings \in {<<"ANY">>, <<"ACTIVE", "ANY">>}
LEMMA KeptStep == Kept /\ [AlarmNext]_alarmVars => Kept'
  BY DEF Kept, AlarmNext, RaiseAlarm, ClearAlarm, Create, Clear, ReadPage, ReadNothing, FetchPage,
         FetchLastPage, HitCap, BareList, OddBody, Raise, TellAlarms, alarmVars, vars, client

LEMMA CountIsBound ==
    ASSUME Written, Kept, TellAlarms
    PROVE  CountsAreBounds'
  <1> SUFFICES ASSUME told'.kind = "count", odd = 0, asks_for_open(told'.q),
                      ~ Mentions(told'.q, {<<"last", "hour">>, <<"last", "24">>})
               PROVE  LET asked == {i \in 1 .. created :
                                       /\ Alarm[i].dated /\ DeviceOf(i) \in allowed
                                       /\ Matches([type |-> Alarm[i].type, severity |-> OrElse(Alarm[i].severity, "UNKNOWN")], told'.q)}
                      IN  /\ told'.count <= Cardinality({i \in asked : OpenSince(i)})
                          /\ ~ told'.lower_bound => Cardinality(steady \cap asked) <= told'.count
    BY DEF CountsAreBounds, TellAlarms, vars, server, client, DeviceOf, OpenSince
  <1> DEFINE q == told'.q
             Asked(i) == /\ Alarm[i].dated /\ DeviceOf(i) \in allowed
                         /\ Matches([type |-> Alarm[i].type, severity |-> OrElse(Alarm[i].severity, "UNKNOWN")], q)
             asked == {i \in 1 .. created : Asked(i)}
             S == Selected(seen, q, created)
  <1>1. told'.count = Cardinality(S) /\ told'.lower_bound = (cut # {})
    BY ToldFacts DEF Tells
  <1>2. S = {i \in Open(seen) : Matches(seen[i], q)}
    BY DEF Selected, Population, Mentions
  <1>3. \A i \in DOMAIN seen : i \in 1 .. created /\ Relevant(i) /\ (Matches(seen[i], q) <=> Asked(i))
    <2> TAKE i \in DOMAIN seen
    <2>1. i \in 1 .. created /\ Relevant(i)
      BY DEF Written, Records, Complete, TypeOK
    <2> DEFINE b == [type |-> Alarm[i].type, severity |-> OrElse(Alarm[i].severity, "UNKNOWN")]
    <2>2. b.type = seen[i].type /\ b.severity = seen[i].severity
      BY DEF Written, Records
    <2> HIDE DEF b
    <2>3. Matches(seen[i], q) <=> Matches(b, q)
      BY <2>2, SameMatch
    <2> QED BY <2>1, <2>3 DEF Relevant, b
  <1>4. S \subseteq {i \in asked : OpenSince(i)}
    BY <1>2, <1>3 DEF Open, Written, ToldAsItWas
  <1>5. ASSUME cut = {} PROVE steady \cap asked \subseteq S
    <2>1. steady \subseteq rows
      <3>1. Done /\ reading \in Nat /\ Shown /\ Len(listings) \in 1 .. 2 /\ listings[Len(listings)] = "ANY"
        BY DEF TellAlarms, Written, Complete, TypeOK, Kept
      <3>2. Len(listings) \in 1 .. reading - 1 /\ Len(listings) \in DOMAIN listings
        BY <3>1 DEF Done, Kept
      <3> QED BY <1>5, <3>1, <3>2 DEF Shown
    <2> SUFFICES ASSUME NEW i \in steady, Asked(i) PROVE i \in S
      OBVIOUS
    <2>2. i \in DOMAIN seen
      BY <2>1 DEF Written, Records, Relevant
    <2>3. seen[i].active
      BY <2>2 DEF Written, ToldAsItWas, Ends
    <2> QED BY <1>2, <1>3, <2>2, <2>3 DEF Open
  <1>6. IsFiniteSet({i \in asked : OpenSince(i)}) /\ created \in Nat
    <2>1. created \in Nat
      BY DEF Written, Complete, TypeOK
    <2>2. IsFiniteSet(1 .. created) /\ {i \in asked : OpenSince(i)} \subseteq 1 .. created
      BY <2>1, FS_Interval
    <2> QED BY <2>1, <2>2, FS_Subset
  <1> HIDE DEF asked, S
  <1>7. IsFiniteSet(S) /\ Cardinality(S) <= Cardinality({i \in asked : OpenSince(i)})
    BY <1>4, <1>6, FS_Subset
  <1>8. cut = {} => Cardinality(steady \cap asked) <= Cardinality(S)
    BY <1>5, <1>7, FS_Subset
  <1>9. /\ told'.count <= Cardinality({i \in asked : OpenSince(i)})
        /\ ~ told'.lower_bound => Cardinality(steady \cap asked) <= told'.count
    BY <1>1, <1>7, <1>8
  <1> QED BY <1>9 DEF asked

LEMMA CountsStep == Written /\ Kept /\ ToldLast /\ CountsAreBounds /\ [AlarmNext]_alarmVars => CountsAreBounds'
  <1> SUFFICES ASSUME Written, Kept, ToldLast, CountsAreBounds, [AlarmNext]_alarmVars PROVE CountsAreBounds'
    OBVIOUS
  <1>1. CASE TellAlarms
    BY <1>1, CountIsBound
  <1>2. CASE told.kind # "none"
    <2>1. UNCHANGED alarmVars
      BY <1>2, NothingAfter
    <2> QED BY <2>1 DEF CountsAreBounds, alarmVars, vars, server, client, DeviceOf, OpenSince
  <1>3. CASE told.kind = "none" /\ ~ TellAlarms
    BY <1>3, StillUntold DEF CountsAreBounds
  <1> QED BY <1>1, <1>2, <1>3

\* A number of open alarms counts none that was resolved before the question and, unless
\* it is given as a lower bound, all that were open all the while: whichever listing each
\* was read in, and however often.
THEOREM CountsHold == AssistantSpec => []CountsAreBounds
  <1> DEFINE Sure == Written /\ Kept /\ ToldLast /\ CountsAreBounds
  <1>1. AssistantInit => Sure
    BY WrittenInit, AllAreRead DEF AssistantInit, Kept, ToldLast, CountsAreBounds, AlarmInit
  <1>2. Sure /\ [AssistantNext]_assistantVars => Sure'
    BY AlarmMoves, WrittenStep, KeptStep, ToldLastStep, CountsStep
  <1>3. Sure => CountsAreBounds
    OBVIOUS
  <1> HIDE DEF Sure
  <1> QED BY <1>1, <1>2, <1>3, PTL DEF AssistantSpec

----------------------------------------------------------------------------

(***************************************************************************)
(* The oldest alarm.  While nobody leaves the "ACTIVE" listing, its pages  *)
(* read so far hold all alarms at the places they cover.                   *)
(***************************************************************************)
Uncleared == \A i \in DOMAIN ended : ended[i] <= first
Fits == /\ listings = <<"ACTIVE", "ANY">> /\ odd = 0 /\ Uncleared
        /\ Cardinality(active) <= PageSize * MaxPages
OpenCovered ==
    Fits => /\ reading = 1 => page < MaxPages /\ \A i \in steady : Place(i) <= page * PageSize => i \in rows
            /\ reading # 1 => steady \subseteq rows

\* The place of an open alarm is the number of those as new as it.
LEMMA OpenPlace ==
    ASSUME Written, listings = <<"ACTIVE", "ANY">>, reading = 1
    PROVE  /\ Listing = active /\ IsFiniteSet(active)
           /\ \A i \in active : Place(i) \in Nat \ {0} /\ Place(i) <= Cardinality(active)
  <1>1. Listing = active
    BY DEF Listing
  <1>2. IsFiniteSet(active)
    <2>1. created \in Nat /\ active \subseteq 1 .. created
      BY DEF Written, Complete, TypeOK
    <2>2. IsFiniteSet(1 .. created)
      BY <2>1, FS_Interval
    <2> QED BY <2>1, <2>2, FS_Subset
  <1>3. ASSUME NEW i \in active PROVE Place(i) \in Nat \ {0} /\ Place(i) <= Cardinality(active)
    <2> DEFINE P == {j \in Listing : j >= i}
    <2>1. P \subseteq active /\ i \in P
      BY <1>1 DEF Written, Complete, TypeOK
    <2> HIDE DEF P
    <2>2. IsFiniteSet(P) /\ Cardinality(P) <= Cardinality(active)
      BY <1>2, <2>1, FS_Subset
    <2>3. Cardinality(P) \in Nat /\ Cardinality(P) # 0
      BY <2>1, <2>2, FS_CardinalityType, FS_EmptySet
    <2> QED BY <2>2, <2>3 DEF Place, P
  <1> QED BY <1>1, <1>2, <1>3

LEMMA OpenCoveredInit == AlarmInit => OpenCovered
  <1> SUFFICES ASSUME AlarmInit, Fits PROVE OpenCovered
    BY DEF OpenCovered
  <1>1. Written /\ reading = 1 /\ page = 0 /\ steady = active /\ listings = <<"ACTIVE", "ANY">>
    BY WrittenInit DEF AlarmInit, Init, Fits
  <1>2. page < MaxPages /\ page * PageSize = 0
    BY <1>1, PagesAdd, PagingAssumption
  <1>3. \A i \in active : Place(i) \in Nat \ {0}
    BY <1>1, OpenPlace
  <1>4. \A i \in steady : ~ Place(i) <= page * PageSize
    BY <1>1, <1>2, <1>3
  <1> QED BY <1>1, <1>2, <1>4 DEF OpenCovered

\* Fits only ends: nothing is taken back that keeps it from holding.
LEMMA FitsBefore ==
    ASSUME Written, [AlarmNext]_alarmVars, Fits'
    PROVE  Fits /\ (\A c \in Items : ~ ClearAlarm(c)) /\ ~ BareList /\ ~ OddBody
           /\ UNCHANGED <<listings, odd, first>>
  <1>1. /\ created \in Nat /\ first \in 0 .. created /\ odd \in Nat /\ active \subseteq 1 .. created
        /\ DOMAIN ended = (1 .. created) \ active
    BY DEF Written, Ends, Complete, TypeOK
  <1>2. UNCHANGED <<listings, first>>
    BY DEF AlarmNext, RaiseAlarm, ClearAlarm, Create, Clear, ReadPage, ReadNothing, FetchPage,
           FetchLastPage, HitCap, BareList, OddBody, Raise, TellAlarms, alarmVars, vars, server, client
  <1>3. ASSUME NEW c \in Items, ClearAlarm(c) PROVE FALSE
    <2>1. DOMAIN ended' = {c} \cup DOMAIN ended /\ ended'[c] = created + 1
      BY <1>3 DEF ClearAlarm, With
    <2> QED BY <1>1, <1>2, <2>1 DEF Fits, Uncleared
  <1>4. ~ BareList /\ ~ OddBody
    BY <1>1 DEF BareList, OddBody, Fits
  <1>5. odd' = odd /\ ended' = ended
    BY <1>3, <1>4 DEF AlarmNext, RaiseAlarm, Create, ReadPage, ReadNothing, FetchPage,
           FetchLastPage, HitCap, Raise, TellAlarms, alarmVars, vars, server, client
  <1>6. active \subseteq active' /\ IsFiniteSet(active')
    <2>1. active' = active \/ active' = active \cup {created + 1}
      BY <1>3 DEF AlarmNext, RaiseAlarm, Create, ReadPage, ReadNothing, FetchPage,
             FetchLastPage, HitCap, BareList, OddBody, Raise, TellAlarms, alarmVars, vars, server
    <2>3. 1 .. created \subseteq 1 .. created + 1 /\ created + 1 \in 1 .. created + 1
      BY <1>1
    <2>4. active \subseteq active' /\ active' \subseteq 1 .. created + 1
      <3>1. active \subseteq 1 .. created
        BY <1>1
      <3> QED BY <2>1, <2>3, <3>1, Zenon
    <2>2. IsFiniteSet(1 .. created + 1)
      BY <1>1, FS_Interval
    <2> QED BY <2>2, <2>4, FS_Subset
  <1>7. Cardinality(active) <= Cardinality(active') /\ Cardinality(active) \in Nat /\ Cardinality(active') \in Nat
    BY <1>6, FS_Subset, FS_CardinalityType
  <1>8. PageSize * MaxPages \in Nat
    BY PagingAssumption
  <1> QED BY <1>2, <1>3, <1>4, <1>5, <1>7, <1>8 DEF Fits, Uncleared

LEMMA CreateCovers ==
    ASSUME Written, OpenCovered, Create, Fits, Fits', UNCHANGED ended
    PROVE  OpenCovered'
  <1>1. /\ created' = created + 1 /\ active' = active \cup {created + 1}
        /\ UNCHANGED <<first, steady, reading, page, rows, listings, odd>>
    BY DEF Create, client
  <1>2. CASE reading # 1
    BY <1>1, <1>2 DEF OpenCovered
  <1>3. CASE reading = 1
    <2> SUFFICES ASSUME NEW i \in steady, Place(i)' <= page * PageSize
                 PROVE  i \in rows
      BY <1>1, <1>3 DEF OpenCovered
    <2>1. listings = <<"ACTIVE", "ANY">>
      BY DEF Fits
    <2>2. Listing = active /\ Listing' = active'
      BY <1>1, <1>3, <2>1 DEF Listing
    <2> DEFINE P == {j \in active : j >= i}
               Q == {j \in active' : j >= i}
    <2>3. P \subseteq Q /\ IsFiniteSet(Q)
      <3>1. IsFiniteSet(active)
        BY <1>3, <2>1, OpenPlace
      <3>2. IsFiniteSet(active')
        BY <1>1, <3>1, FS_AddElement
      <3> QED BY <1>1, <3>2, FS_Subset
    <2>4. Cardinality(P) <= Cardinality(Q) /\ Cardinality(P) \in Nat /\ Cardinality(Q) \in Nat
      BY <2>3, FS_Subset, FS_CardinalityType
    <2>5. Place(i) = Cardinality(P) /\ Place(i)' = Cardinality(Q)
      BY <2>2 DEF Place
    <2>6. page * PageSize \in Nat
      BY PagesAdd, PagingAssumption DEF Written, Complete, TypeOK
    <2> QED BY <1>3, <2>4, <2>5, <2>6 DEF OpenCovered
  <1> QED BY <1>2, <1>3

\* A page holds the open alarms at the places it covers, and the last one the rest.
LEMMA PageCovers ==
    ASSUME Written, OpenCovered, ReadPage, ~ BareList, Fits
    PROVE  OpenCovered'
  <1>1. /\ reading \in Nat \ {0} /\ page \in Nat /\ rows' = rows \cup Returned
        /\ UNCHANGED <<active, steady, listings, created>>
    BY DEF Written, Complete, TypeOK, ReadPage, FetchPage, FetchLastPage, HitCap, Collect, server
  <1>2. CASE reading # 1
    <2>1. reading' # 1
      BY <1>1, <1>2 DEF ReadPage, FetchPage, FetchLastPage, HitCap, NextListing
    <2> QED BY <1>1, <1>2, <2>1 DEF OpenCovered
  <1>3. CASE reading = 1
    <2>1. listings = <<"ACTIVE", "ANY">> /\ Cardinality(active) <= PageSize * MaxPages
      BY DEF Fits
    <2>2. /\ Listing = active /\ IsFiniteSet(active) /\ steady \subseteq active
          /\ \A i \in active : Place(i) \in Nat \ {0} /\ Place(i) <= Cardinality(active)
      BY <1>3, <2>1, OpenPlace DEF Written, Ends
    <2>3. Cardinality(active) \in Nat /\ page * PageSize \in Nat /\ (page + 1) * PageSize \in Nat
      <3>1. Cardinality(active) \in Nat
        BY <2>2, FS_CardinalityType
      <3>2. page + 1 \in Nat
        BY <1>1
      <3> QED BY <1>1, <3>1, <3>2, PagesAdd
    <2>4. ASSUME NEW i \in steady, Place(i) <= (page + 1) * PageSize PROVE i \in rows'
      <3>1. i \in active /\ Place(i) \in Nat
        BY <2>2
      <3>2. CASE Place(i) <= page * PageSize
        BY <1>1, <1>3, <3>2 DEF OpenCovered
      <3>3. CASE Place(i) > page * PageSize
        BY <1>1, <2>2, <2>4, <3>1, <3>3 DEF Returned
      <3> QED BY <2>3, <3>1, <3>2, <3>3
    <2>5. CASE FetchPage
      <3>1. reading' = 1 /\ page' = page + 1 /\ page' < MaxPages
        BY <1>1, <1>3, <2>5, PagingAssumption DEF FetchPage
      <3>2. \A i \in steady : Place(i)' = Place(i)
        BY <1>1, <3>1, <1>3 DEF Place, Listing
      <3> QED BY <1>1, <2>4, <3>1, <3>2 DEF OpenCovered
    <2>6. CASE FetchLastPage
      <3>1. reading' # 1 /\ Cardinality(active) <= (page + 1) * PageSize
        BY <1>3, <2>2, <2>3, <2>6 DEF FetchLastPage, NextListing, HasNext
      <3>2. \A i \in steady : Place(i) <= (page + 1) * PageSize
        BY <2>2, <2>3, <3>1
      <3> QED BY <1>1, <2>4, <3>1, <3>2 DEF OpenCovered
    <2>7. CASE HitCap
      <3>1. Cardinality(active) > (page + 1) * PageSize /\ page + 1 = MaxPages
        BY <2>2, <2>7 DEF HitCap, HasNext
      <3>2. (page + 1) * PageSize = PageSize * MaxPages
        BY <3>1, PagingAssumption
      <3> QED BY <2>1, <2>3, <3>1, <3>2
    <2> QED BY <2>5, <2>6, <2>7 DEF ReadPage
  <1> QED BY <1>2, <1>3

LEMMA OpenCoveredStep == Written /\ OpenCovered /\ [AlarmNext]_alarmVars => OpenCovered'
  <1> SUFFICES ASSUME Written, OpenCovered, [AlarmNext]_alarmVars, Fits' PROVE OpenCovered'
    BY DEF OpenCovered
  <1>1. Fits /\ (\A c \in Items : ~ ClearAlarm(c)) /\ ~ BareList /\ ~ OddBody
    BY FitsBefore
  <1>2. CASE RaiseAlarm
    BY <1>1, <1>2, CreateCovers DEF RaiseAlarm
  <1>3. CASE ReadPage
    BY <1>1, <1>3, PageCovers
  <1>4. CASE Raise \/ TellAlarms \/ UNCHANGED alarmVars
    <2>1. UNCHANGED <<created, active, first, steady, listings, reading, page, rows>>
      BY <1>4 DEF Raise, TellAlarms, alarmVars, vars, server, client
    <2> QED BY <1>1, <2>1 DEF OpenCovered, Place, Listing
  <1> QED BY <1>1, <1>2, <1>3, <1>4 DEF AlarmNext, ReadNothing

\* The oldest of the records of open alarms is as old as any alarm that was open throughout.
LEMMA OldestIsTold ==
    ASSUME Written, OpenCovered, TellAlarms
    PROVE  OldestIsOldest'
  <1> SUFFICES ASSUME told'.kind = "oldest", Fits, NEW i \in steady, Alarm[i].dated, DeviceOf(i) \in allowed
               PROVE  \E j \in told'.of : j <= i
    BY DEF OldestIsOldest, Fits, Uncleared, TellAlarms, vars, server, client, DeviceOf
  <1>1. told'.of = OldestOpen(seen)
    BY ToldFacts DEF Tells
  <1>2. reading # 1
    BY DEF TellAlarms, Done, Fits
  <1>3. i \in DOMAIN seen
    BY <1>2 DEF OpenCovered, Written, Records, Relevant
  <1>4. i \in Open(seen)
    BY <1>3 DEF Written, ToldAsItWas, Ends, Open
  <1>5. \A j \in Open(seen) : j \in Nat /\ seen[j].created_at = j
    <2>1. created \in Nat /\ rows \subseteq 1 .. created
      BY DEF Written, Complete, TypeOK
    <2>2. \A j \in DOMAIN seen : j \in rows /\ seen[j].created_at = j
      BY DEF Written, Records
    <2>3. rows \subseteq Nat
      BY <2>1
    <2>4. Open(seen) \subseteq DOMAIN seen
      BY DEF Open
    <2> QED BY <2>2, <2>3, <2>4, Zenon
  <1>6. PICK j \in Open(seen) : \A k \in Open(seen) : j <= k
    BY <1>4, <1>5, LeastOf
  <1> QED BY <1>1, <1>4, <1>5, <1>6 DEF OldestOpen

LEMMA OldestStep == Written /\ OpenCovered /\ ToldLast /\ OldestIsOldest /\ [AlarmNext]_alarmVars => OldestIsOldest'
  <1> SUFFICES ASSUME Written, OpenCovered, ToldLast, OldestIsOldest, [AlarmNext]_alarmVars PROVE OldestIsOldest'
    OBVIOUS
  <1>1. CASE TellAlarms
    BY <1>1, OldestIsTold
  <1>2. CASE told.kind # "none"
    <2>1. UNCHANGED alarmVars
      BY <1>2, NothingAfter
    <2> QED BY <2>1 DEF OldestIsOldest, alarmVars, vars, server, client, DeviceOf
  <1>3. CASE told.kind = "none" /\ ~ TellAlarms
    BY <1>3, StillUntold DEF OldestIsOldest
  <1> QED BY <1>1, <1>2, <1>3

\* What is told as the oldest open alarm is that: unless the open alarms overflow the pages
\* or one of them is resolved meanwhile, none that was open throughout is older, however
\* much of the history behind them the page cap leaves out.
THEOREM OldestHolds == AssistantSpec => []OldestIsOldest
  <1> DEFINE Sure == Written /\ OpenCovered /\ ToldLast /\ OldestIsOldest
  <1>1. AssistantInit => Sure
    BY WrittenInit, OpenCoveredInit DEF AssistantInit, ToldLast, OldestIsOldest, AlarmInit
  <1>2. Sure /\ [AssistantNext]_assistantVars => Sure'
    BY AlarmMoves, WrittenStep, OpenCoveredStep, ToldLastStep, OldestStep
  <1>3. Sure => OldestIsOldest
    OBVIOUS
  <1> HIDE DEF Sure
  <1> QED BY <1>1, <1>2, <1>3, PTL DEF AssistantSpec

----------------------------------------------------------------------------

(***************************************************************************)
(* What is read of a device.                                               *)
(***************************************************************************)
Fields(f) == \A k \in DOMAIN f : f[k] \in Values

LEMMA WithFields == ASSUME NEW f, NEW g, Fields(f), Fields(g) PROVE Fields(With(f, g))
  BY DEF Fields, With

LEMMA InsideFields ==
    ASSUME NEW v \in Values, NEW c \in AsContainer(v)
    PROVE  Fields(c)
  BY ValueAssumption DEF Fields, AsContainer

LEMMA BelowFields == ASSUME NEW f, Fields(f) PROVE Fields(Below(f))
  <1> DEFINE pairs == UNION {UNION {{<<Path(k, j), c[j]>> : j \in DOMAIN c} : c \in AsContainer(f[k])} : k \in DOMAIN f}
  <1>1. ASSUME NEW e \in pairs PROVE e[2] \in Values
    <2>1. PICK k \in DOMAIN f : \E c \in AsContainer(f[k]) : \E j \in DOMAIN c : e = <<Path(k, j), c[j]>>
      OBVIOUS
    <2>2. PICK c \in AsContainer(f[k]) : \E j \in DOMAIN c : e = <<Path(k, j), c[j]>>
      BY <2>1
    <2>3. Fields(c)
      BY <2>1, InsideFields DEF Fields
    <2> QED BY <2>2, <2>3 DEF Fields
  <1>2. Below(f) = [p \in {e[1] : e \in pairs} |-> (CHOOSE e \in pairs : e[1] = p)[2]]
    BY DEF Below, AsFields
  <1> HIDE DEF pairs
  <1>3. ASSUME NEW p \in {e[1] : e \in pairs} PROVE (CHOOSE e \in pairs : e[1] = p) \in pairs
    OBVIOUS
  <1> QED BY <1>1, <1>2, <1>3 DEF Fields

LEMMA ExpandedFields == ASSUME NEW f, Fields(f) PROVE Fields(expand_containers(f))
  <1> DEFINE one == Below(f)
             two == Below(one)
             three == Below(two)
  <1>1. Fields(one) /\ Fields(two) /\ Fields(three)
    BY BelowFields
  <1> HIDE DEF one, two, three
  <1>2. Fields(With(f, With(one, With(two, three))))
    BY <1>1, WithFields
  <1> QED BY <1>2 DEF expand_containers, one, two, three

LEMMA GetField == ASSUME NEW f, Fields(f), NEW k PROVE Get(f, k) \in Values
  BY ValueAssumption DEF Fields, Get

\* What an answer gives is one of the readings, or nothing.
LEMMA FirstIsOne ==
    ASSUME NEW n \in Nat, NEW s, DOMAIN s = 1 .. n, NEW x \in FirstOf(s)
    PROVE  \E i \in 1 .. n : x \in s[i]
  <1> DEFINE found == {i \in DOMAIN s : s[i] # {}}
  <1>1. FirstOf(s) = IF found = {} THEN {} ELSE s[Min(found)]
    BY DEF FirstOf
  <1>4. found # {} /\ FirstOf(s) = s[Min(found)]
    BY <1>1, Zenon
  <1>2. \E m \in found : \A k \in found : m <= k
    <2>1. found \in SUBSET Nat
      OBVIOUS
    <2> HIDE DEF found
    <2> QED BY <1>4, <2>1, LeastOf
  <1>3. Min(found) \in found
    BY <1>2 DEF Min
  <1> QED BY <1>3, <1>4

\* A JSON text or value that is one is an object or a list of such.
LEMMA JsonParts ==
    ASSUME NEW v \in Values, NEW c \in as_json(v)
    PROVE  \/ DOMAIN c = {"obj"} /\ Fields(c.obj)
           \/ DOMAIN c = {"list"} /\ c.list \in Seq(Values)
  <1>1. \/ c = [obj |-> v.obj] /\ v.obj \in AsContainer(v)
        \/ c = [obj |-> v.objText] /\ v.objText \in AsContainer(v)
        \/ c = [list |-> v.list] \/ c = [list |-> v.listText]
    BY DEF as_json, AsContainer
  <1>2. DOMAIN c = {"list"} => c.list \in Seq(Values)
    BY ValueAssumption DEF as_json
  <1>3. \A f \in AsContainer(v) : Fields(f)
    BY InsideFields
  <1>4. \/ DOMAIN c = {"obj"} /\ c.obj \in AsContainer(v)
        \/ DOMAIN c = {"list"}
    BY <1>1
  <1> QED BY <1>2, <1>3, <1>4

\* What is found, wherever it is, is of that kind.
LEMMA ContainerParts ==
    ASSUME NEW raw, Fields(raw), NEW keys, Len(keys) \in Nat, NEW c \in find_container(raw, keys)
    PROVE  \/ DOMAIN c = {"obj"} /\ Fields(c.obj)
           \/ DOMAIN c = {"list"} /\ c.list \in Seq(Values)
  <1> DEFINE N == Len(keys)
             Parent(i) == as_json(Get(raw, JsonParents[i - 1]))
             Here(f) == [i \in 1 .. N |-> as_json(Get(f, keys[i]))]
             There(i) == UNION {FirstOf(Here(p.obj)) : p \in {p \in Parent(i) : "obj" \in DOMAIN p}}
             s == [i \in 1 .. 1 + Len(JsonParents) |-> IF i = 1 THEN FirstOf(Here(raw)) ELSE There(i)]
  <1>1. find_container(raw, keys) = FirstOf(s)
    BY DEF find_container, FirstFound, Keyed
  <1>2. N \in Nat /\ 1 + Len(JsonParents) \in Nat
    BY DEF JsonParents
  <1>3. PICK i \in 1 .. 1 + Len(JsonParents) : c \in s[i]
    <2>1. DOMAIN s = 1 .. 1 + Len(JsonParents)
      OBVIOUS
    <2> HIDE DEF s
    <2> QED BY <1>1, <1>2, <2>1, FirstIsOne
  <1>4. ASSUME NEW f, Fields(f), c \in FirstOf(Here(f)) PROVE \E v \in Values : c \in as_json(v)
    <2>1. DOMAIN Here(f) = 1 .. N
      OBVIOUS
    <2>2. PICK j \in 1 .. N : c \in Here(f)[j]
      <3> DEFINE h == Here(f)
      <3>1. DOMAIN h = 1 .. N /\ c \in FirstOf(h)
        BY <1>4
      <3> HIDE DEF h
      <3>2. \E j \in 1 .. N : c \in h[j]
        BY <1>2, <3>1, FirstIsOne
      <3> QED BY <3>2 DEF h
    <2> QED BY <1>4, <2>2, GetField
  <1>5. \E v \in Values : c \in as_json(v)
    <2>1. CASE i = 1
      BY <1>3, <1>4, <2>1
    <2>2. CASE i # 1
      <3>1. c \in There(i)
        BY <1>3, <2>2
      <3>2. PICK p \in Parent(i) : "obj" \in DOMAIN p /\ c \in FirstOf(Here(p.obj))
        BY <3>1
      <3>3. Fields(p.obj)
        BY <3>2, GetField, JsonParts
      <3> QED BY <1>4, <3>2, <3>3
    <2> QED BY <2>1, <2>2
  <1> QED BY <1>5, JsonParts

(***************************************************************************)
(* The cameras.                                                            *)
(***************************************************************************)
Counted(S) == \A c \in S : 0 <= c.online /\ c.online <= c.total

LEMMA CamerasCount ==
    ASSUME NEW total \in Nat, NEW online \in Nat, online <= total
    PROVE  Counted(Cameras(total, online))
  BY DEF Counted, Cameras

LEMMA ListFound ==
    ASSUME NEW raw, Fields(raw), NEW keys, Len(keys) \in Nat
    PROVE  FoundList(raw, keys) \in Seq(Values)
  <1> DEFINE lists == {c.list : c \in {c \in find_container(raw, keys) : "list" \in DOMAIN c}}
  <1>1. \A l \in lists : l \in Seq(Values)
    BY ContainerParts
  <1>2. FoundList(raw, keys) = OrElse(lists, <<>>)
    BY DEF FoundList
  <1>3. <<>> \in Seq(Values)
    OBVIOUS
  <1> HIDE DEF lists
  <1>4. lists # {} => (CHOOSE x \in lists : TRUE) \in lists
    OBVIOUS
  <1> QED BY <1>1, <1>2, <1>3, <1>4 DEF OrElse

\* Of the rows of a list that are objects, no more have something than there are.
LEMMA RowsCount ==
    ASSUME NEW s \in Seq(Values), NEW T \in SUBSET Objects(s)
    PROVE  /\ Cardinality(T) \in Nat /\ Cardinality(Objects(s)) \in Nat
           /\ Cardinality(T) <= Cardinality(Objects(s)) /\ Cardinality(Objects(s)) <= Len(s)
  <1> DEFINE L == Len(s)
  <1>1. L \in Nat /\ Objects(s) \subseteq 1 .. L
    BY DEF Objects
  <1> HIDE DEF L
  <1>2. IsFiniteSet(1 .. L) /\ Cardinality(1 .. L) = L
    <2>1. Cardinality(1 .. L) = IF 1 > L THEN 0 ELSE L - 1 + 1
      BY <1>1, FS_Interval
    <2> QED BY <1>1, <2>1, FS_Interval
  <1>3. IsFiniteSet(Objects(s)) /\ Cardinality(Objects(s)) <= L
    BY <1>1, <1>2, FS_Subset
  <1>4. IsFiniteSet(T) /\ Cardinality(T) <= Cardinality(Objects(s))
    BY <1>3, FS_Subset
  <1> QED BY <1>3, <1>4, FS_CardinalityType DEF L

LEMMA DetailsCount == ASSUME NEW raw, Fields(raw) PROVE Counted(FromDetails(raw))
  <1> DEFINE keys == <<"rock_CAMERAdETAILS", "CAMERAdETAILS", "CAMERA_DETAILS", "CAMERADETAILS">>
             s == FoundList(raw, keys)
             T == {i \in Objects(s) : camera_online(s[i].obj)}
  <1>1. s \in Seq(Values)
    <2>1. Len(keys) \in Nat
      OBVIOUS
    <2> HIDE DEF keys
    <2> QED BY <2>1, ListFound
  <1>2. FromDetails(raw) = Listed(s)
    BY DEF FromDetails
  <1> HIDE DEF s
  <1>3. T \in SUBSET Objects(s)
    OBVIOUS
  <1>4. Listed(s) = IF Objects(s) = {} THEN {} ELSE Cameras(Cardinality(Objects(s)), Cardinality(T))
    BY DEF Listed, OnlineOf
  <1> HIDE DEF T
  <1>5. Counted(Cameras(Cardinality(Objects(s)), Cardinality(T)))
    BY <1>1, <1>3, RowsCount, CamerasCount
  <1> QED BY <1>2, <1>4, <1>5 DEF Counted

LEMMA RecordingsCount == ASSUME NEW raw, Fields(raw) PROVE Counted(FromRecordings(raw))
  <1> DEFINE keys == <<"rock_VIDEOdETAILS", "VIDEOdETAILS", "rock_SdRecINFO", "SdRecINFO",
                       "Hikvision_NVR_CameraRecInfo", "Dahua_NVR_CameraRecInfo",
                       "CP_Plus_NVR_CameraRecInfo", "CameraRecInfo">>
             s == FoundList(raw, keys)
             T == {i \in Objects(s) : recorded(s[i].obj)}
  <1>1. s \in Seq(Values)
    <2>1. Len(keys) \in Nat
      OBVIOUS
    <2> HIDE DEF keys
    <2> QED BY <2>1, ListFound
  <1>2. FromRecordings(raw) = Recorded(s)
    BY DEF FromRecordings
  <1> HIDE DEF s
  <1>3. T \in SUBSET Objects(s)
    OBVIOUS
  <1>4. Recorded(s) = IF s = <<>> THEN {} ELSE AllIfNone(Cardinality(T), Len(s))
    BY DEF Recorded, OnlineOf
  <1> HIDE DEF T
  <1>5. Cardinality(T) \in Nat /\ Len(s) \in Nat /\ Cardinality(T) <= Len(s)
    BY <1>1, <1>3, RowsCount
  <1>6. Counted(AllIfNone(Cardinality(T), Len(s)))
    <2> DEFINE n == IF Cardinality(T) > 0 THEN Cardinality(T) ELSE Len(s)
    <2>1. n \in Nat /\ n <= Len(s)
      BY <1>5
    <2>2. AllIfNone(Cardinality(T), Len(s)) = Cameras(Len(s), n)
      BY DEF AllIfNone
    <2> HIDE DEF n
    <2> QED BY <1>5, <2>1, <2>2, CamerasCount
  <1> QED BY <1>2, <1>4, <1>6 DEF Counted

LEMMA NamedList ==
    ASSUME NEW f, Fields(f), NEW k, "list" \in DOMAIN Get(f, k)
    PROVE  f[k].list \in Seq(Values)
  <1>1. Get(f, k) = f[k]
    BY DEF Get, None
  <1> QED BY <1>1, GetField, ValueAssumption

LEMMA DexterCount == ASSUME NEW raw, Fields(raw) PROVE Counted(FromDexter(raw))
  <1> DEFINE keys == <<"dexter_config">>
             ips(nvr) == IF "obj" \in DOMAIN nvr /\ "list" \in DOMAIN Get(nvr.obj, "camera_ip")
                         THEN {Len(nvr.obj["camera_ip"].list)} \ {0} ELSE {}
             s(nvrs) == [i \in 1 .. Len(nvrs) |-> ips(nvrs[i])]
             N(c) == IF "obj" \in DOMAIN c /\ "list" \in DOMAIN Get(c.obj, "integration")
                     THEN FirstOf(s(c.obj["integration"].list)) ELSE {}
             S == find_container(raw, keys)
  <1>1. FromDexter(raw) = UNION {Cameras(n, n) : n \in UNION {N(c) : c \in S}}
    BY DEF FromDexter, FirstFound
  <1>2. ASSUME NEW c \in S, NEW n \in N(c) PROVE n \in Nat
    <2>1. "obj" \in DOMAIN c /\ n \in FirstOf(s(c.obj["integration"].list))
      BY <1>2
    <2>2. Fields(c.obj)
      <3>1. Len(keys) \in Nat
        OBVIOUS
      <3> HIDE DEF keys
      <3> QED BY <2>1, <3>1, ContainerParts
    <2>3. c.obj["integration"].list \in Seq(Values)
      BY <1>2, <2>2, NamedList
    <2> DEFINE nvrs == c.obj["integration"].list
    <2>4. PICK i \in 1 .. Len(nvrs) : n \in ips(nvrs[i])
      <3> DEFINE h == s(nvrs)
      <3>1. DOMAIN h = 1 .. Len(nvrs) /\ Len(nvrs) \in Nat /\ n \in FirstOf(h)
        BY <2>1, <2>3, SMTT(30)
      <3>2. \A i \in 1 .. Len(nvrs) : h[i] = ips(nvrs[i])
        OBVIOUS
      <3> HIDE DEF h, ips
      <3>3. \E i \in 1 .. Len(nvrs) : n \in h[i]
        BY <3>1, FirstIsOne
      <3> QED BY <3>2, <3>3
    <2>5. nvrs[i] \in Values
      BY <2>3
    <2>6. n \in {Len(nvrs[i].obj["camera_ip"].list)} /\ Fields(nvrs[i].obj)
      <3>1. n \in {Len(nvrs[i].obj["camera_ip"].list)} /\ "obj" \in DOMAIN nvrs[i]
        BY <2>4
      <3> HIDE DEF nvrs
      <3> QED BY <2>5, <3>1, InsideFields, ValueAssumption DEF Fields
    <2>7. nvrs[i].obj["camera_ip"].list \in Seq(Values)
      <3>1. "list" \in DOMAIN Get(nvrs[i].obj, "camera_ip")
        BY <2>4
      <3> HIDE DEF nvrs
      <3> QED BY <2>6, <3>1, NamedList
    <2> HIDE DEF nvrs
    <2> QED BY <2>6, <2>7, SMTT(30)
  <1> HIDE DEF N, S
  <1>3. \A n \in UNION {N(c) : c \in S} : Counted(Cameras(n, n))
    BY <1>2, CamerasCount
  <1> QED BY <1>1, <1>3 DEF Counted

LEMMA CountCount == ASSUME NEW raw PROVE Counted(FromCount(raw))
  <1> DEFINE v == Text(OrElse(choose(raw, <<"count_camera", "no_of_connected_cctv", "cctv_count",
                        "no_of_cameras", "total_cameras", "Hikvision_NVR_NoOfCameras">>), "null"))
             n == to_int(v, 0)
  <1>1. FromCount(raw) = IF n > 0 THEN Cameras(n, n) ELSE {}
    BY DEF FromCount
  <1> HIDE DEF v
  <1>2. \A t \in DOMAIN Whole : Whole[t] \in Nat
    BY DEF Whole
  <1>3. n \in Nat
    BY <1>2 DEF to_int
  <1> HIDE DEF n
  <1> QED BY <1>1, <1>3, CamerasCount DEF Counted

LEMMA ChannelsCount == ASSUME NEW raw PROVE Counted(FromChannels(raw))
  <1> DEFINE inputs == DOMAIN raw \cap DOMAIN ChannelOf
             channels == {0} \cup {ChannelOf[k] : k \in inputs}
             total == Max(channels)
             off == {k \in inputs : StrOf(raw[k]) \in {"true", "1", "yes"}}
             online == Max({0, total - Cardinality(off)})
  <1>1. FromChannels(raw) = IF total = 0 THEN {} ELSE Cameras(total, online)
    BY DEF FromChannels
  <1>2. \A k \in DOMAIN ChannelOf : ChannelOf[k] \in {1, 2}
    BY DEF ChannelOf, With
  <1>3. channels \in SUBSET {0, 1, 2} /\ 0 \in channels
    BY <1>2
  <1>4. Cardinality(off) \in Nat
    <2>1. DOMAIN ChannelOf = {"CAMERA DISCONNECT CH 1", "cameraStatus.CAMERA DISCONNECT CH 1"}
                             \cup {"CAMERA DISCONNECT CH 2", "cameraStatus.CAMERA DISCONNECT CH 2"}
      BY DEF ChannelOf, With
    <2>2. \A a, b : IsFiniteSet({a, b})
      <3> TAKE a, b
      <3>1. IsFiniteSet({a}) /\ {a, b} = {a} \cup {b}
        BY FS_Singleton
      <3> QED BY <3>1, FS_AddElement
    <2>3. IsFiniteSet(DOMAIN ChannelOf)
      <3> DEFINE C == {"CAMERA DISCONNECT CH 1", "cameraStatus.CAMERA DISCONNECT CH 1"}
                 E == {"CAMERA DISCONNECT CH 2", "cameraStatus.CAMERA DISCONNECT CH 2"}
      <3>1. IsFiniteSet(C) /\ IsFiniteSet(E) /\ DOMAIN ChannelOf = C \cup E
        BY <2>1, <2>2
      <3> HIDE DEF C, E
      <3> QED BY <3>1, FS_Union
    <2>4. off \subseteq DOMAIN ChannelOf
      OBVIOUS
    <2> HIDE DEF off
    <2>5. IsFiniteSet(off)
      BY <2>3, <2>4, FS_Subset
    <2> QED BY <2>5, FS_CardinalityType
  <1> HIDE DEF channels, off
  <1>5. total \in Nat
    <2>1. \E m \in channels : \A j \in channels : m >= j
      <3>1. CASE 2 \in channels
        BY <1>3, <3>1
      <3>2. CASE 2 \notin channels /\ 1 \in channels
        BY <1>3, <3>2
      <3>3. CASE 2 \notin channels /\ 1 \notin channels
        BY <1>3, <3>3
      <3> QED BY <3>1, <3>2, <3>3
    <2>2. total \in channels
      BY <2>1 DEF Max
    <2> HIDE DEF total
    <2>3. total \in {0, 1, 2}
      BY <1>3, <2>2
    <2> QED BY <2>3
  <1> HIDE DEF total
  <1>6. online \in Nat /\ online <= total
    <2> DEFINE rest == total - Cardinality(off)
    <2>1. rest \in Int /\ rest <= total
      BY <1>4, <1>5
    <2> HIDE DEF rest
    <2>2. \E m \in {0, rest} : \A j \in {0, rest} : m >= j
      BY <2>1
    <2>3. Max({0, rest}) \in {0, rest} /\ Max({0, rest}) >= 0
      BY <2>1, <2>2 DEF Max
    <2>4. Max({0, rest}) \in Nat /\ Max({0, rest}) <= total
      BY <1>5, <2>1, <2>3
    <2> QED BY <2>4 DEF rest
  <1> HIDE DEF online
  <1> QED BY <1>1, <1>5, <1>6, CamerasCount DEF Counted

\* Whichever source the cameras are counted from, no more are online than there are.
LEMMA SourcesCount == ASSUME NEW raw, Fields(raw) PROVE Counted(CameraCount(raw))
  <1> DEFINE s == [i \in 1 .. 4 |->
                     CASE i = 1 -> Larger(FromDetails(raw), FromRecordings(raw))
                       [] i = 2 -> FromDexter(raw) [] i = 3 -> FromChannels(raw) [] i = 4 -> FromCount(raw)]
  <1>1. CameraCount(raw) = FirstOf(s)
    BY DEF CameraCount, FirstFound
  <1>2. \A i \in 1 .. 4 : Counted(s[i])
    <2>1. Counted(Larger(FromDetails(raw), FromRecordings(raw)))
      BY DetailsCount, RecordingsCount DEF Larger
    <2>2. Counted(FromDexter(raw)) /\ Counted(FromChannels(raw)) /\ Counted(FromCount(raw))
      BY DexterCount, ChannelsCount, CountCount
    <2> QED BY <2>1, <2>2
  <1>3. DOMAIN s = 1 .. 4 /\ 4 \in Nat
    OBVIOUS
  <1> HIDE DEF s
  <1>4. \A c \in FirstOf(s) : \E i \in 1 .. 4 : c \in s[i]
    BY <1>3, FirstIsOne
  <1> QED BY <1>1, <1>2, <1>4 DEF Counted

----------------------------------------------------------------------------

(***************************************************************************)
(* The question.                                                           *)
(***************************************************************************)
Asked ==
    /\ \A p \in DOMAIN tb : Fields(tb[p])
    /\ DOMAIN tb = Places
    /\ ask.phase \in {"client", "series", "answered"} => Fields(ask.raw)
    /\ ask.phase = "answered" => ask.answer = Answer(ask.intent, ask.raw)

LEMMA OverlayFields ==
    ASSUME NEW f, NEW g, Fields(f), Fields(g)
    PROVE  Fields(Overlay(f, g))
  BY DEF Overlay, Fields, Get

LEMMA AskedStep == Asked /\ [DeviceNext]_deviceVars => Asked'
  <1> SUFFICES ASSUME Asked, [DeviceNext]_deviceVars PROVE Asked'
    OBVIOUS
  <1> USE DEF Asked
  <1>1. ASSUME NEW i \in Intents, AskDevice(i) PROVE Asked'
    BY <1>1 DEF AskDevice, Places
  <1>2. CASE ReadClient
    <2>1. Fields(With(tb["CLIENT_SCOPE"], ask.raw))
      BY <1>2, WithFields DEF ReadClient, Places
    <2> QED BY <1>2, <2>1 DEF ReadClient
  <1>3. CASE ReadSeries
    <2> DEFINE series == Series(Wanted(ask.intent[1]))
               raw == expand_containers(Overlay(series, ask.raw))
    <2>1. Fields(series)
      BY GetField DEF Series, Fields, Places
    <2>2. Fields(raw)
      BY <1>3, <2>1, OverlayFields, ExpandedFields DEF ReadSeries
    <2>3. ask' = [phase |-> "answered", intent |-> ask.intent, raw |-> raw, began |-> ask.began,
                  answer |-> Answer(ask.intent, raw)]
      BY <1>3 DEF ReadSeries
    <2> HIDE DEF raw
    <2> QED BY <1>3, <2>2, <2>3 DEF ReadSeries
  <1>4. CASE CallFails
    BY <1>4 DEF CallFails
  <1>5. ASSUME NEW r \in Reports, ReportField(r) PROVE Asked'
    <2>1. Fields([k \in {r.key} |-> r.value])
      BY ValueAssumption DEF Fields
    <2>2. \A p \in Places : tb'[p] = tb[p] \/ tb'[p] = With([k \in {r.key} |-> r.value], tb[p])
      BY <1>5 DEF ReportField
    <2>3. \A p \in Places : Fields(tb'[p])
      BY <2>1, <2>2, WithFields
    <2> QED BY <1>5, <2>3 DEF ReportField
  <1>6. CASE SyncDevice \/ SnapshotExpires \/ UNCHANGED deviceVars
    BY <1>6 DEF SyncDevice, SnapshotExpires, deviceVars
  <1> QED BY <1>1, <1>2, <1>3, <1>4, <1>5, <1>6 DEF DeviceNext

\* The answer takes the state of the cameras as their status has it, the overview as it is
\* inferred where the status says nothing.
LEMMA StoriesAgree == ASSUME NEW raw PROVE Consistent(cctv_status(build_snapshot(raw)), build_snapshot(raw))
  <1> DEFINE r == expand_containers(raw)
             snap == build_snapshot(raw)
             online == {c.online : c \in snap.cctv.cameras}
  <1>1. snap = Snapshot(r, Gateway(r), Cctv(r))
    BY DEF build_snapshot, SnapshotOf
  <1>2. /\ snap.cctv = Cctv(r) /\ snap.gateway = Gateway(r)
        /\ snap.subsystems["cctv"] = InferCctv(snap.cctv.subsystem, snap.gateway.state, snap.cctv.cameras)
        /\ snap.cctv.state = snap.cctv.subsystem.state
    <2>1. /\ snap.cctv = Cctv(r) /\ snap.gateway = Gateway(r)
          /\ snap.subsystems = [s \in Subsystems |->
                 IF s = "cctv" THEN InferCctv(Cctv(r).subsystem, Gateway(r).state, Cctv(r).cameras) ELSE Subsystem(r, s)]
      BY <1>1 DEF Snapshot
    <2>2. Cctv(r).state = Cctv(r).subsystem.state
      BY DEF Cctv
    <2> HIDE DEF snap
    <2>3. "cctv" \in Subsystems
      BY DEF Subsystems
    <2> QED BY <2>1, <2>2, <2>3
  <1> HIDE DEF r
  <1> SUFFICES Consistent(cctv_status(snap), snap)
    OBVIOUS
  <1> HIDE DEF snap
  <1>3. format_subsystem(snap, "")["cctv"] = snap.subsystems["cctv"].state
    BY DEF format_subsystem, Subsystems
  <1>4. cctv_status(snap).cctv_state = snap.cctv.state
    BY DEF cctv_status
  <1>5. CASE snap.cctv.state # UNKNOWN
    BY <1>2, <1>3, <1>4, <1>5 DEF Consistent, InferCctv
  <1>6. CASE snap.cctv.state = UNKNOWN /\ \E c \in snap.cctv.cameras : c.online > 0
    BY <1>6 DEF Consistent, cctv_status
  <1>7. CASE snap.cctv.state = UNKNOWN /\ ~ \E c \in snap.cctv.cameras : c.online > 0
    BY <1>2, <1>3, <1>4, <1>7 DEF Consistent, InferCctv
  <1> QED BY <1>5, <1>6, <1>7

LEMMA AskedTellsOne == Asked => OneCctvStory
  <1> SUFFICES ASSUME Asked, About("cctv_status")
               PROVE  /\ \A c \in ask.answer.cameras : 0 <= c.online /\ c.online <= c.total
                      /\ Consistent(ask.answer, build_snapshot(ask.raw))
    BY DEF OneCctvStory
  <1>1. Fields(ask.raw) /\ ask.answer = Answer(ask.intent, ask.raw) /\ ask.intent[1] = "cctv_status"
    BY DEF Asked, About, Answered
  <1>2. ask.answer = cctv_status(build_snapshot(ask.raw))
    BY <1>1 DEF Answer, format_metric
  <1>3. ask.answer.cameras = CameraCount(expand_containers(ask.raw))
    <2>1. \A snap : cctv_status(snap).cameras = snap.cctv.cameras
      BY DEF cctv_status
    <2>2. \A r : SnapshotOf(r).cctv.cameras = CameraCount(r)
      BY DEF SnapshotOf, Snapshot, Cctv
    <2> QED BY <1>2, <2>1, <2>2 DEF build_snapshot
  <1>4. Counted(CameraCount(expand_containers(ask.raw)))
    BY <1>1, ExpandedFields, SourcesCount
  <1> QED BY <1>2, <1>3, <1>4, StoriesAgree DEF Counted

THEOREM CamerasTellOne == AssistantSpec => []OneCctvStory
  <1>1. AssistantInit => Asked
    BY DEF AssistantInit, DeviceInit, Asked, Idle, Empty, Fields
  <1>2. Asked /\ [AssistantNext]_assistantVars => Asked'
    BY AskedStep DEF AssistantNext, MetricStep, FleetStep, AlarmStep, GateStep, assistantVars
  <1> QED BY <1>1, <1>2, AskedTellsOne, PTL DEF AssistantSpec

(***************************************************************************)
(* Live and fleet.  The snapshot holds of an object or a list its text,    *)
(* which every reader takes for the same.                                  *)
(***************************************************************************)
Alike(v, w) == v \in Values /\ (w = v \/ (v # None /\ w = encode(v)))

LEMMA KindsApart ==
    /\ DOMAIN None = {"none"}
    /\ \A f : DOMAIN ObjText(f) = {"objText"} /\ ObjText(f).objText = f
    /\ \A s : DOMAIN ListText(s) = {"listText"} /\ ListText(s).listText = s
    /\ \A t : DOMAIN Text(t) = {"text"} /\ Text(t).text = t
  BY DEF None, ObjText, ListText, Text

LEMMA EncodedReads ==
    ASSUME NEW v \in Values, v # None
    PROVE  /\ StrOf(encode(v)) = StrOf(v) /\ AsContainer(encode(v)) = AsContainer(v)
           /\ as_json(encode(v)) = as_json(v) /\ encode(v) # None
           /\ "list" \notin DOMAIN encode(v) /\ "bool" \notin DOMAIN encode(v)
  <1>1. PICK kind \in {"none", "text", "bool", "obj", "objText", "list", "listText"} : DOMAIN v = {kind}
    BY ValueAssumption
  <1>2. CASE kind = "obj"
    <2>1. encode(v) = ObjText(v.obj)
      BY <1>1, <1>2 DEF encode
    <2>2. encode(v) # None /\ {"text", "bool"} \cap (DOMAIN v \cup DOMAIN encode(v)) = {}
      BY <1>1, <1>2, <2>1, KindsApart
    <2>3. StrOf(encode(v)) = StrOf(v)
      <3>1. /\ "text" \notin DOMAIN v /\ "bool" \notin DOMAIN v
            /\ "text" \notin DOMAIN encode(v) /\ "bool" \notin DOMAIN encode(v)
        BY <2>2
      <3> QED BY <2>2, <3>1, Zenon DEF StrOf
    <2> QED BY <1>1, <1>2, <2>1, <2>2, <2>3, KindsApart DEF AsContainer, as_json
  <1>3. CASE kind = "list"
    <2>1. encode(v) = ListText(v.list)
      BY <1>1, <1>3 DEF encode
    <2>2. encode(v) # None /\ {"text", "bool"} \cap (DOMAIN v \cup DOMAIN encode(v)) = {}
      BY <1>1, <1>3, <2>1, KindsApart
    <2>3. StrOf(encode(v)) = StrOf(v)
      <3>1. /\ "text" \notin DOMAIN v /\ "bool" \notin DOMAIN v
            /\ "text" \notin DOMAIN encode(v) /\ "bool" \notin DOMAIN encode(v)
        BY <2>2
      <3> QED BY <2>2, <3>1, Zenon DEF StrOf
    <2> QED BY <1>1, <1>3, <2>1, <2>2, <2>3, KindsApart DEF AsContainer, as_json
  <1>4. CASE kind = "bool"
    <2>1. encode(v) = Text(StrOf(v))
      BY <1>1, <1>4 DEF encode
    <2>2. StrOf(Text(StrOf(v))) = StrOf(v)
      BY KindsApart, Zenon DEF StrOf
    <2> HIDE DEF Text
    <2> QED BY <1>1, <1>4, <2>1, <2>2, KindsApart DEF AsContainer, as_json
  <1>5. CASE kind \notin {"obj", "list", "bool"}
    <2>1. encode(v) = v
      BY <1>1, <1>5 DEF encode
    <2> QED BY <1>1, <1>5, <2>1
  <1> QED BY <1>2, <1>3, <1>4, <1>5

LEMMA AlikeReads ==
    ASSUME NEW v, NEW w, Alike(v, w)
    PROVE  /\ StrOf(w) = StrOf(v) /\ AsContainer(w) = AsContainer(v) /\ as_json(w) = as_json(v)
           /\ (w = None) = (v = None)
           /\ \A kind \in {"list", "bool"} : kind \notin DOMAIN v => kind \notin DOMAIN w
  <1>1. CASE w = v
    BY <1>1
  <1>2. CASE v \in Values /\ v # None /\ w = encode(v)
    BY <1>2, EncodedReads, Zenon
  <1> QED BY <1>1, <1>2 DEF Alike

\* Two readings of a device that every reader takes for the same.
Same(E, F) ==
    /\ \A k : Alike(Get(E, k), Get(F, k))
    /\ DOMAIN E \cap DOMAIN ChannelOf = DOMAIN F \cap DOMAIN ChannelOf

\* What is alike tells a reader the same.
LEMMA SameReads ==
    ASSUME NEW E, NEW F, Same(E, F), NEW k
    PROVE  /\ StrOf(Get(F, k)) = StrOf(Get(E, k)) /\ AsContainer(Get(F, k)) = AsContainer(Get(E, k))
           /\ as_json(Get(F, k)) = as_json(Get(E, k)) /\ (Get(F, k) = None) = (Get(E, k) = None)
  BY AlikeReads DEF Same

LEMMA SameDoubles == ASSUME NEW E, NEW F, Same(E, F), NEW keys PROVE Keyed(E, keys, to_double) = Keyed(F, keys, to_double)
  <1>1. \A k : to_double(Get(E, k)) = to_double(Get(F, k))
    BY SameReads DEF to_double
  <1> QED BY <1>1, Zenon DEF Keyed, FirstFound

LEMMA SameBooleans == ASSUME NEW E, NEW F, Same(E, F), NEW keys PROVE Keyed(E, keys, to_bool) = Keyed(F, keys, to_bool)
  <1>1. \A k : to_bool(Get(E, k)) = to_bool(Get(F, k))
    BY SameReads DEF to_bool
  <1> QED BY <1>1, Zenon DEF Keyed, FirstFound

LEMMA SameTexts == ASSUME NEW E, NEW F, Same(E, F), NEW keys PROVE FirstText(E, keys) = FirstText(F, keys)
  <1>1. \A k : text(Get(E, k)) = text(Get(F, k))
    BY SameReads DEF text
  <1> QED BY <1>1, Zenon DEF FirstText, Keyed, FirstFound

LEMMA SameChoose == ASSUME NEW E, NEW F, Same(E, F), NEW keys PROVE choose(E, keys) = choose(F, keys)
  <1>1. \A k : StrOf(Get(E, k)) = StrOf(Get(F, k)) /\ (Get(E, k) = None) = (Get(F, k) = None)
    BY SameReads
  <1>3. \A k : (IF Get(E, k) # None /\ StrOf(Get(E, k)) \notin {"", "null"} THEN {StrOf(Get(E, k))} ELSE {})
             = (IF Get(F, k) # None /\ StrOf(Get(F, k)) \notin {"", "null"} THEN {StrOf(Get(F, k))} ELSE {})
    BY <1>1, Zenon
  <1> QED BY <1>3, Zenon DEF choose, Keyed, FirstFound

LEMMA SameFlags ==
    ASSUME NEW E, NEW F, Same(E, F)
    PROVE  /\ \A keys : resolve_boolean(E, keys) = resolve_boolean(F, keys)
           /\ \A keys : first_integer(E, keys) = first_integer(F, keys)
           /\ \A keys : first_non_blank(E, keys) = first_non_blank(F, keys)
           /\ \A key : resolve_from_count(E, key) = resolve_from_count(F, key)
  <1>1. \A k : StrOf(Get(E, k)) = StrOf(Get(F, k)) /\ (Get(E, k) = None) = (Get(F, k) = None)
    BY SameReads
  <1>2. ASSUME NEW keys PROVE resolve_boolean(E, keys) = resolve_boolean(F, keys)
    BY <1>1, Zenon DEF resolve_boolean, Keyed, FirstFound
  <1>3. ASSUME NEW keys PROVE first_integer(E, keys) = first_integer(F, keys)
    <2>1. \A k : (IF StrOf(Get(E, k)) \in DOMAIN Whole THEN {Whole[StrOf(Get(E, k))]} ELSE {})
               = (IF StrOf(Get(F, k)) \in DOMAIN Whole THEN {Whole[StrOf(Get(F, k))]} ELSE {})
      BY <1>1
    <2> QED BY <2>1, Zenon DEF first_integer, Keyed, FirstFound
  <1>4. ASSUME NEW keys PROVE first_non_blank(E, keys) = first_non_blank(F, keys)
    BY <1>1, Zenon DEF first_non_blank, Keyed, FirstFound
  <1>5. ASSUME NEW key PROVE resolve_from_count(E, key) = resolve_from_count(F, key)
    <2>1. \A raw : StrOf(Get(raw, key)) \in DOMAIN Whole => raw[key] = Get(raw, key)
      <3>1. StrOf(None) \notin DOMAIN Whole
        BY DEF StrOf, None, Whole
      <3> QED BY <3>1, Zenon DEF Get
    <2>2. StrOf(Get(E, key)) \in DOMAIN Whole => E[key] = Get(E, key)
      BY <2>1
    <2>3. StrOf(Get(F, key)) \in DOMAIN Whole => F[key] = Get(F, key)
      BY <2>1
    <2>4. StrOf(Get(E, key)) = StrOf(Get(F, key))
      BY <1>1
    <2>5. resolve_from_count(E, key) = IF StrOf(Get(E, key)) \in DOMAIN Whole THEN {Whole[StrOf(Get(E, key))] > 0} ELSE {}
      BY <2>2, Zenon DEF resolve_from_count
    <2>6. resolve_from_count(F, key) = IF StrOf(Get(F, key)) \in DOMAIN Whole THEN {Whole[StrOf(Get(F, key))] > 0} ELSE {}
      BY <2>3, Zenon DEF resolve_from_count
    <2> QED BY <2>4, <2>5, <2>6, Zenon
  <1> QED BY <1>2, <1>3, <1>4, <1>5

LEMMA SameLookup ==
    ASSUME NEW E, NEW F, Same(E, F), NEW k
    PROVE  StrOf(Lookup(E, k)) = StrOf(Lookup(F, k))
  <1>1. find_in_nested_json(E, k) = find_in_nested_json(F, k)
    <2>1. \A j : AsContainer(Get(E, j)) = AsContainer(Get(F, j))
      BY SameReads
    <2> QED BY <2>1, Zenon DEF find_in_nested_json, Keyed, FirstFound
  <1>2. StrOf(Get(E, k)) = StrOf(Get(F, k)) /\ (Get(E, k) = None) = (Get(F, k) = None)
    BY SameReads
  <1>3. \A raw : Get(raw, k) # None => raw[k] = Get(raw, k)
    BY DEF Get
  <1> QED BY <1>1, <1>2, <1>3, Zenon DEF Lookup

LEMMA SameStates ==
    ASSUME NEW E, NEW F, Same(E, F)
    PROVE  /\ \A keys : resolve_first_state(E, keys) = resolve_first_state(F, keys)
           /\ Gateway(E) = Gateway(F)
           /\ \A s : Subsystem(E, s) = Subsystem(F, s)
  <1>1. \A k : StrOf(Lookup(E, k)) = StrOf(Lookup(F, k))
    BY SameLookup
  <1>2. \A k : StrOf(Get(E, k)) = StrOf(Get(F, k)) /\ (Get(E, k) = None) = (Get(F, k) = None)
    BY SameReads
  <1>3. \A k : to_state(Lookup(E, k)) = to_state(Lookup(F, k))
    BY <1>1, Zenon DEF to_state
  <1>4. ASSUME NEW keys PROVE resolve_first_state(E, keys) = resolve_first_state(F, keys)
    BY <1>3, Zenon DEF resolve_first_state, FirstFound
  <1>5. resolve_gateway_state(E) = resolve_gateway_state(F)
    BY <1>1, <1>4, Zenon DEF resolve_gateway_state, FirstFound
  <1>6. Conflict(E) = Conflict(F)
    <2>1. \A raw, k : Get(raw, k) # None => raw[k] = Get(raw, k)
      BY DEF Get
    <2> QED BY <1>2, <2>1, Zenon DEF Conflict
  <1>7. to_bool(Get(E, "active")) = to_bool(Get(F, "active"))
    BY <1>2, Zenon DEF to_bool
  <1>8. ASSUME NEW s PROVE Subsystem(E, s) = Subsystem(F, s)
    <2>1. \A state, k : Override(state, Get(E, k)) = Override(state, Get(F, k))
      BY <1>2, Zenon DEF Override
    <2> QED BY <1>4, <2>1, Zenon DEF Subsystem
  <1> QED BY <1>4, <1>5, <1>6, <1>7, <1>8, Zenon DEF Gateway

LEMMA SamePower ==
    ASSUME NEW E, NEW F, Same(E, F)
    PROVE  Power(E) = Power(F) /\ Hardware(E) = Hardware(F)
  <1>1. \A k : StrOf(Get(E, k)) = StrOf(Get(F, k))
    BY SameReads
  <1>2. \A k : to_bool(Get(E, k)) = to_bool(Get(F, k)) /\ to_double(Get(E, k)) = to_double(Get(F, k))
    <2>1. \A k : to_bool(Get(E, k)) = to_bool(Get(F, k))
      BY <1>1 DEF to_bool
    <2>2. \A k : to_double(Get(E, k)) = to_double(Get(F, k))
      BY <1>1 DEF to_double
    <2> QED BY <2>1, <2>2
  <1>3. \A keys : Keyed(E, keys, to_double) = Keyed(F, keys, to_double)
    BY SameDoubles
  <1>4. \A keys : Keyed(E, keys, to_bool) = Keyed(F, keys, to_bool)
    BY SameBooleans
  <1>5. Power(E) = Power(F)
    BY <1>2, <1>3, <1>4, Zenon DEF Power
  <1>6. Hardware(E) = Hardware(F)
    BY <1>2, Zenon DEF Hardware
  <1> QED BY <1>5, <1>6

LEMMA SameContainers ==
    ASSUME NEW E, NEW F, Same(E, F), NEW keys
    PROVE  find_container(E, keys) = find_container(F, keys) /\ FoundList(E, keys) = FoundList(F, keys)
  <1>1. \A k : as_json(Get(E, k)) = as_json(Get(F, k))
    BY SameReads
  <1>2. Keyed(E, keys, as_json) = Keyed(F, keys, as_json)
    BY <1>1, Zenon DEF Keyed, FirstFound
  <1>3. find_container(E, keys) = find_container(F, keys)
    BY <1>1, <1>2, Zenon DEF find_container, FirstFound
  <1> QED BY <1>3, Zenon DEF FoundList

LEMMA SameChannels == ASSUME NEW E, NEW F, Same(E, F) PROVE FromChannels(E) = FromChannels(F)
  <1>1. DOMAIN E \cap DOMAIN ChannelOf = DOMAIN F \cap DOMAIN ChannelOf
    BY DEF Same
  <1> DEFINE inputs == DOMAIN E \cap DOMAIN ChannelOf
             Off(raw) == {k \in inputs : StrOf(raw[k]) \in {"true", "1", "yes"}}
             total == Max({0} \cup {ChannelOf[k] : k \in inputs})
             CountOf(off) == IF total = 0 THEN {} ELSE Cameras(total, Max({0, total - Cardinality(off)}))
  <1>2. \A k \in inputs : StrOf(E[k]) = StrOf(F[k])
    <2>1. \A k \in inputs : Get(E, k) = E[k] /\ Get(F, k) = F[k]
      BY <1>1 DEF Get
    <2> QED BY <2>1, SameReads
  <1>3. Off(E) = Off(F)
    BY <1>2
  <1>4. FromChannels(E) = CountOf(Off(E)) /\ FromChannels(F) = CountOf(Off(F))
    BY <1>1, Zenon DEF FromChannels
  <1> QED BY <1>3, <1>4, Zenon

LEMMA SameCameras ==
    ASSUME NEW E, NEW F, Same(E, F)
    PROVE  CameraCount(E) = CameraCount(F) /\ hdd_status(E) = hdd_status(F)
  <1>1. FromDetails(E) = FromDetails(F)
    BY SameContainers, Zenon DEF FromDetails
  <1>2. FromRecordings(E) = FromRecordings(F)
    BY SameContainers, Zenon DEF FromRecordings
  <1>3. FromDexter(E) = FromDexter(F)
    <2>1. find_container(E, <<"dexter_config">>) = find_container(F, <<"dexter_config">>)
      BY SameContainers
    <2> QED BY <2>1, Zenon DEF FromDexter
  <1>4. FromCount(E) = FromCount(F)
    BY SameChoose, Zenon DEF FromCount
  <1>5. CameraCount(E) = CameraCount(F)
    <2> DEFINE Of(a, b, c, d) == FirstOf([i \in 1 .. 4 |-> CASE i = 1 -> a [] i = 2 -> b [] i = 3 -> c [] i = 4 -> d])
    <2>1. \A raw : CameraCount(raw) =
                     Of(Larger(FromDetails(raw), FromRecordings(raw)), FromDexter(raw), FromChannels(raw), FromCount(raw))
      BY DEF CameraCount, FirstFound
    <2>2. FromChannels(E) = FromChannels(F)
      BY SameChannels
    <2> HIDE DEF Of
    <2> QED BY <1>1, <1>2, <1>3, <1>4, <2>1, <2>2, Zenon
  <1>6. \A k : as_json(Get(E, k)) = as_json(Get(F, k))
    BY SameReads
  <1>7. hdd_status(E) = hdd_status(F)
    BY <1>6, Zenon DEF hdd_status, FirstFound
  <1> QED BY <1>5, <1>7

LEMMA SameCctv == ASSUME NEW E, NEW F, Same(E, F) PROVE Cctv(E) = Cctv(F)
  <1>1. \A k : Flag(E, k) = Flag(F, k)
    <2>1. \A k : to_bool(Get(E, k)) = to_bool(Get(F, k))
      BY SameReads DEF to_bool
    <2> QED BY <2>1, Zenon DEF Flag
  <1>2. Subsystem(E, "cctv") = Subsystem(F, "cctv")
    BY SameStates
  <1> QED BY <1>1, <1>2, SameCameras, Zenon DEF Cctv

\* The parts of a snapshot that answers read beside the raw fields.
LEMMA SameSnapshots ==
    ASSUME NEW E, NEW F, Same(E, F)
    PROVE  /\ SnapshotOf(E).gateway = SnapshotOf(F).gateway /\ SnapshotOf(E).power = SnapshotOf(F).power
           /\ SnapshotOf(E).subsystems = SnapshotOf(F).subsystems /\ SnapshotOf(E).cctv = SnapshotOf(F).cctv
           /\ SnapshotOf(E).hardware = SnapshotOf(F).hardware
           /\ SnapshotOf(E).raw_data = E /\ SnapshotOf(F).raw_data = F
  <1> DEFINE Of(raw) == [s \in Subsystems |->
         IF s = "cctv" THEN InferCctv(Cctv(raw).subsystem, Gateway(raw).state, Cctv(raw).cameras) ELSE Subsystem(raw, s)]
  <1>1. \A raw : /\ SnapshotOf(raw).gateway = Gateway(raw) /\ SnapshotOf(raw).power = Power(raw)
                 /\ SnapshotOf(raw).subsystems = Of(raw) /\ SnapshotOf(raw).cctv = Cctv(raw)
                 /\ SnapshotOf(raw).hardware = Hardware(raw) /\ SnapshotOf(raw).raw_data = raw
    BY DEF SnapshotOf, Snapshot
  <1>2. Of(E) = Of(F)
    BY SameStates, SameCctv, Zenon
  <1> HIDE DEF Of
  <1> QED BY <1>1, <1>2, SameStates, SameCctv, SamePower

LEMMA SameLadders ==
    ASSUME NEW E, NEW F, Same(E, F)
    PROVE  /\ resolve_battery_status(E) = resolve_battery_status(F)
           /\ hdd_error(E) = hdd_error(F)
           /\ \A s : resolve_subsystem_fault(E, s) = resolve_subsystem_fault(F, s)
           /\ \A s : resolve_subsystem_alarm(E, s) = resolve_subsystem_alarm(F, s)
  <1>1. \A keys : resolve_boolean(E, keys) = resolve_boolean(F, keys)
    BY SameFlags
  <1>2. \A key : resolve_from_count(E, key) = resolve_from_count(F, key)
    BY SameFlags
  <1>3. \A keys : first_non_blank(E, keys) = first_non_blank(F, keys)
    BY SameFlags
  <1>4. resolve_battery_status(E) = resolve_battery_status(F)
    <2> DEFINE Of(low, reverse) ==
                 IF low /\ reverse THEN "Low & Reverse" ELSE IF reverse THEN "Reverse" ELSE IF low THEN "Low" ELSE "OK"
    <2>1. \A raw : resolve_battery_status(raw) =
                     Of(resolve_boolean(raw, BatteryLowKeys) = {TRUE}, resolve_boolean(raw, BatteryReverseKeys) = {TRUE})
      BY Zenon DEF resolve_battery_status
    <2>2. /\ resolve_boolean(E, BatteryLowKeys) = resolve_boolean(F, BatteryLowKeys)
          /\ resolve_boolean(E, BatteryReverseKeys) = resolve_boolean(F, BatteryReverseKeys)
      BY <1>1
    <2> HIDE DEF Of
    <2> QED BY <2>1, <2>2, Zenon
  <1>5. hdd_error(E) = hdd_error(F)
    <2> DEFINE flags == <<"HDD ERROR", "ticketStatus_HDD_ERROR", "cameraStatus_HDD ERROR">>
               Status == <<"hddStatus">>
               Of(flag, status) == IF flag = {} /\ status = {"healthy"} THEN {FALSE} ELSE flag
    <2>1. \A raw : hdd_error(raw) = Of(resolve_boolean(raw, flags), first_non_blank(raw, Status))
      BY Zenon DEF hdd_error
    <2>2. resolve_boolean(E, flags) = resolve_boolean(F, flags) /\ first_non_blank(E, Status) = first_non_blank(F, Status)
      BY <1>1, <1>3
    <2> HIDE DEF Of, flags, Status
    <2> QED BY <2>1, <2>2, Zenon
  <1>6. \A s : resolve_subsystem_fault(E, s) = resolve_subsystem_fault(F, s)
    BY <1>1, <1>2, Zenon DEF resolve_subsystem_fault
  <1>7. \A s : resolve_subsystem_alarm(E, s) = resolve_subsystem_alarm(F, s)
    <2> DEFINE Of(s, flag, count) == IF flag = {} /\ s \in {"timeLock", "accessControl"} THEN count ELSE flag
    <2>1. \A raw, s : resolve_subsystem_alarm(raw, s) =
                        Of(s, resolve_boolean(raw, AlarmKeys[s]), resolve_from_count(raw, CountKey[s]))
      BY Zenon DEF resolve_subsystem_alarm
    <2> HIDE DEF Of
    <2> QED BY <1>1, <1>2, <2>1, Zenon
  <1> QED BY <1>4, <1>5, <1>6, <1>7

LEMMA SameRecorders ==
    ASSUME NEW E, NEW F, Same(E, F)
    PROVE  hdd_info(E) = hdd_info(F) /\ device_info(E) = device_info(F) /\ recording_summary(E) = recording_summary(F)
  <1>1. \A k : as_list(Get(E, k)) = as_list(Get(F, k))
    <2>1. \A k : as_json(Get(E, k)) = as_json(Get(F, k))
      BY SameReads
    <2> QED BY <2>1, Zenon DEF as_list
  <1>2. \A keys : first_list(E, keys) = first_list(F, keys)
    BY <1>1, Zenon DEF first_list, Keyed, FirstFound
  <1>3. hdd_info(E) = hdd_info(F)
    BY <1>2, Zenon DEF hdd_info
  <1>4. \A keys : first_non_blank(E, keys) = first_non_blank(F, keys)
    BY SameFlags
  <1>5. \A keys : first_integer(E, keys) = first_integer(F, keys)
    BY SameFlags
  <1>6. \A model : nvr_vendor(E, model) = nvr_vendor(F, model)
    BY <1>4, Zenon DEF nvr_vendor
  <1>7. device_info(E) = device_info(F)
    BY <1>4, <1>5, <1>6, Zenon DEF device_info
  <1>8. parse_recordings(E) = parse_recordings(F)
    <2> DEFINE Entries(raw) == {ObjectsOf(as_list(Get(raw, k))) : k \in SeqSet(RecKeys)}
               Of(all) == MostDays({<<ChannelName(e), Days(e)>> : e \in UNION all})
    <2>1. \A raw : parse_recordings(raw) = Of(Entries(raw))
      BY Zenon DEF parse_recordings
    <2>2. Entries(E) = Entries(F)
      <3>1. \A k : ObjectsOf(as_list(Get(E, k))) = ObjectsOf(as_list(Get(F, k)))
        BY <1>1, Zenon
      <3> QED BY <3>1
    <2> HIDE DEF Of, Entries
    <2> QED BY <2>1, <2>2, Zenon
  <1> QED BY <1>3, <1>7, <1>8, Zenon DEF recording_summary

LEMMA SameComputed ==
    ASSUME NEW E, NEW F, Same(E, F)
    PROVE  /\ hdd_total_capacity(E) = hdd_total_capacity(F) /\ hdd_free_space(E) = hdd_free_space(F)
           /\ camera_count(E) = camera_count(F) /\ camera_rows(E) = camera_rows(F)
           /\ sd_recording_rows(E) = sd_recording_rows(F)
           /\ bas_panel(E) = bas_panel(F) /\ bas_device(E) = bas_device(F) /\ bas_power(E) = bas_power(F)
           /\ bas_zones(E) = bas_zones(F)
  <1>1. \A k : as_json(Get(E, k)) = as_json(Get(F, k))
    BY SameReads
  <1>2. \A k : present(Get(E, k)) = present(Get(F, k))
    BY <1>1, Zenon DEF present, as_list
  <1>3. \A k : rows_of(E, k) = rows_of(F, k)
    <2> DEFINE Of(s) == [i \in Objects(s) |-> s[i].obj]
    <2>1. \A raw, k : rows_of(raw, k) = Of(present(Get(raw, k)))
      BY Zenon DEF rows_of
    <2> HIDE DEF Of
    <2> QED BY <1>2, <2>1, Zenon
  <1>4. \A k : dict_of(Get(E, k)) = dict_of(Get(F, k))
    BY <1>1, Zenon DEF dict_of
  <1>5. hdd_rows(E) = hdd_rows(F)
    <2>1. rows_of(E, "rock.HddINFO") = rows_of(F, "rock.HddINFO")
      BY <1>3
    <2> QED BY <2>1 DEF hdd_rows
  <1>6. hdd_total_capacity(E) = hdd_total_capacity(F) /\ hdd_free_space(E) = hdd_free_space(F)
    BY <1>5, Zenon DEF hdd_total_capacity, hdd_free_space
  <1>7. camera_count(E) = camera_count(F)
    BY <1>2, Zenon DEF camera_count
  <1>8. camera_rows(E) = camera_rows(F)
    <2>1. rows_of(E, "rock.CAMERAdETAILS") = rows_of(F, "rock.CAMERAdETAILS")
      BY <1>3
    <2> QED BY <2>1 DEF camera_rows
  <1>9. sd_recording_rows(E) = sd_recording_rows(F)
    <2>1. rows_of(E, "rock.SdRecINFO") = rows_of(F, "rock.SdRecINFO")
      BY <1>3
    <2> QED BY <2>1 DEF sd_recording_rows
  <1>10. bas_panel(E) = bas_panel(F)
    BY <1>4, Zenon DEF bas_panel
  <1>11. bas_device(E) = bas_device(F)
    BY <1>4, Zenon DEF bas_device
  <1>12. bas_power(E) = bas_power(F)
    BY <1>4, Zenon DEF bas_power
  <1>13. bas_zones(E) = bas_zones(F)
    <2>1. rows_of(E, BAS \o "zoneInfo") = rows_of(F, BAS \o "zoneInfo")
      BY <1>3
    <2> QED BY <2>1 DEF bas_zones
  <1> QED BY <1>6, <1>7, <1>8, <1>9, <1>10, <1>11, <1>12, <1>13

LEMMA SameFields ==
    ASSUME NEW E, NEW F, Same(E, F)
    PROVE  network_operator(E) = network_operator(F) /\ sos_status(E) = sos_status(F) /\ door_status(E) = door_status(F)
  <1>1. \A k : text(Get(E, k)) = text(Get(F, k))
    BY SameReads DEF text
  <1>2. network_operator(E) = network_operator(F)
    BY SameTexts, Zenon DEF network_operator
  <1>3. sos_status(E) = sos_status(F)
    BY <1>1, Zenon DEF sos_status
  <1>4. door_status(E) = door_status(F)
    BY <1>1, Zenon DEF door_status, texts
  <1> QED BY <1>2, <1>3, <1>4

\* A field that is not read apart is read for the same number and for the same count.
Together(E, F) == \A k : Get(E, k) = Get(F, k) \/ ~ReadsApart(k, Get(E, k))

LEMMA TogetherNumbers ==
    ASSUME NEW E, NEW F, Same(E, F), Together(E, F), NEW k \in CountFields \cup ConnectedFields
    PROVE  number(Get(E, k)) = number(Get(F, k))
  <1>1. CASE Get(E, k) = Get(F, k)
    BY <1>1
  <1>2. CASE "bool" \notin DOMAIN Get(E, k)
    <2>1. "bool" \notin DOMAIN Get(F, k)
      BY <1>2, AlikeReads DEF Same
    <2>2. StrOf(Get(E, k)) = StrOf(Get(F, k))
      BY SameReads
    <2> QED BY <1>2, <2>1, <2>2, Zenon DEF number, NumberIn
  <1> QED BY <1>1, <1>2 DEF Together, ReadsApart

LEMMA SameConnected ==
    ASSUME NEW E, NEW F, Same(E, F), Together(E, F)
    PROVE  connected_devices(E) = connected_devices(F)
  <1> DEFINE Near(raw) == Get(raw, "statusbox_no_of_connected_device")
             Far(raw) == Get(raw, "system_status.statusbox_no_of_connected_device")
  <1>1. \A raw : connected_devices(raw) = IF Near(raw) # None THEN number(Near(raw)) ELSE number(Far(raw))
    <2>1. \A raw : Near(raw) # None => raw["statusbox_no_of_connected_device"] = Near(raw)
      BY DEF Get
    <2> QED BY <2>1, Zenon DEF connected_devices
  <1>2. number(Near(E)) = number(Near(F)) /\ number(Far(E)) = number(Far(F))
    BY TogetherNumbers DEF ConnectedFields
  <1>3. (Near(E) = None) = (Near(F) = None)
    BY SameReads
  <1> QED BY <1>1, <1>2, <1>3, Zenon

LEMMA SameCounts ==
    ASSUME NEW E, NEW F, Same(E, F), Together(E, F), NEW k \in CountFields
    PROVE  count_like(Get(E, k)) = count_like(Get(F, k))
  <1>1. CASE Get(E, k) = Get(F, k)
    BY <1>1
  <1>2. CASE "list" \notin DOMAIN Get(E, k)
    <2>1. (Get(E, k) = None) = (Get(F, k) = None) /\ as_json(Get(E, k)) = as_json(Get(F, k))
      BY SameReads
    <2>2. "list" \notin DOMAIN Get(F, k)
      BY <1>2, AlikeReads DEF Same
    <2>3. number(Get(E, k)) = number(Get(F, k)) /\ dict_of(Get(E, k)) = dict_of(Get(F, k))
      BY <2>1, TogetherNumbers, Zenon DEF dict_of
    <2> QED BY <1>2, <2>1, <2>2, <2>3, Zenon DEF count_like
  <1> QED BY <1>1, <1>2 DEF Together, ReadsApart

\* Whatever is asked, readings that are the same give the same answer, counts if they are not read apart.
LEMMA SameAnswers ==
    ASSUME NEW E, NEW F, Same(E, F), NEW name, NEW s, name \in CountIntents => Together(E, F)
    PROVE  format_metric(name, s, SnapshotOf(E)) = format_metric(name, s, SnapshotOf(F))
  <1> DEFINE A == SnapshotOf(E)
             B == SnapshotOf(F)
  <1>1. /\ A.gateway = B.gateway /\ A.power = B.power /\ A.subsystems = B.subsystems /\ A.cctv = B.cctv
        /\ A.hardware = B.hardware /\ A.raw_data = E /\ B.raw_data = F
    BY SameSnapshots
  <1> HIDE DEF A, B
  <1>2. format_subsystem(A, s) = format_subsystem(B, s)
    <2>1. resolve_subsystem_fault(E, s) = resolve_subsystem_fault(F, s)
      BY SameLadders
    <2>2. resolve_subsystem_alarm(E, s) = resolve_subsystem_alarm(F, s)
      BY SameLadders
    <2> QED BY <1>1, <2>1, <2>2 DEF format_subsystem
  <1>3. cctv_status(A) = cctv_status(B)
    BY <1>1, Zenon DEF cctv_status
  <1>4. name = "cctv_tamper_count" =>
           /\ count_like(Get(E, "cameraTamperCount")) = count_like(Get(F, "cameraTamperCount"))
           /\ count_like(Get(E, "cameraDisconnectCount")) = count_like(Get(F, "cameraDisconnectCount"))
    BY SameCounts DEF CountIntents, CountFields
  <1>5. name = "connected_devices" => connected_devices(E) = connected_devices(F)
    BY SameConnected DEF CountIntents
  <1> SUFFICES format_metric(name, s, A) = format_metric(name, s, B)
    BY DEF A, B
  <1>6. CASE name = "connected_devices"
    BY <1>1, <1>5, <1>6 DEF format_metric
  <1>7. CASE name = "cctv_tamper_count"
    BY <1>1, <1>4, <1>7 DEF format_metric
  <1>8. CASE name # "connected_devices" /\ name # "cctv_tamper_count"
    <2>1. resolve_battery_status(E) = resolve_battery_status(F) /\ hdd_error(E) = hdd_error(F)
      BY SameLadders
    <2>2. hdd_info(E) = hdd_info(F) /\ device_info(E) = device_info(F) /\ recording_summary(E) = recording_summary(F)
      BY SameRecorders
    <2>3. /\ hdd_total_capacity(E) = hdd_total_capacity(F) /\ hdd_free_space(E) = hdd_free_space(F)
          /\ camera_count(E) = camera_count(F) /\ camera_rows(E) = camera_rows(F)
          /\ sd_recording_rows(E) = sd_recording_rows(F)
          /\ bas_panel(E) = bas_panel(F) /\ bas_device(E) = bas_device(F) /\ bas_power(E) = bas_power(F)
          /\ bas_zones(E) = bas_zones(F)
      BY SameComputed
    <2>4. network_operator(E) = network_operator(F) /\ sos_status(E) = sos_status(F) /\ door_status(E) = door_status(F)
      BY SameFields
    <2> QED BY <1>1, <1>2, <1>3, <1>8, <2>1, <2>2, <2>3, <2>4, SMTT(30) DEF format_metric
  <1> QED BY <1>6, <1>7, <1>8

(***************************************************************************)
(* Paths.  What is inside of a device's fields is under its paths when     *)
(* they have been expanded, so that doing it again changes nothing.        *)
(***************************************************************************)
LEMMA BelowAt ==
    ASSUME NEW f
    PROVE  /\ \A k \in DOMAIN f : \A c \in AsContainer(f[k]) : \A j \in DOMAIN c : Path(k, j) \in DOMAIN Below(f)
           /\ \A p \in DOMAIN Below(f) : \E k \in DOMAIN f : \E c \in AsContainer(f[k]) : \E j \in DOMAIN c :
                 p = Path(k, j) /\ Below(f)[p] = c[j]
  <1> DEFINE pairs == UNION {UNION {{<<Path(k, j), c[j]>> : j \in DOMAIN c} : c \in AsContainer(f[k])} : k \in DOMAIN f}
  <1>1. Below(f) = [p \in {e[1] : e \in pairs} |-> (CHOOSE e \in pairs : e[1] = p)[2]]
    BY DEF Below, AsFields
  <1>2. ASSUME NEW k \in DOMAIN f, NEW c \in AsContainer(f[k]), NEW j \in DOMAIN c PROVE <<Path(k, j), c[j]>> \in pairs
    OBVIOUS
  <1>3. ASSUME NEW e \in pairs
        PROVE  \E k \in DOMAIN f : \E c \in AsContainer(f[k]) : \E j \in DOMAIN c : e = <<Path(k, j), c[j]>>
    OBVIOUS
  <1> HIDE DEF pairs
  <1>4. ASSUME NEW k \in DOMAIN f, NEW c \in AsContainer(f[k]), NEW j \in DOMAIN c PROVE Path(k, j) \in DOMAIN Below(f)
    <2>1. <<Path(k, j), c[j]>> \in pairs
      BY <1>2
    <2> QED BY <1>1, <2>1
  <1>5. ASSUME NEW p \in DOMAIN Below(f)
        PROVE  \E k \in DOMAIN f : \E c \in AsContainer(f[k]) : \E j \in DOMAIN c : p = Path(k, j) /\ Below(f)[p] = c[j]
    <2> DEFINE e == CHOOSE e \in pairs : e[1] = p
    <2>1. p \in {d[1] : d \in pairs} /\ Below(f)[p] = e[2]
      BY <1>1
    <2>2. e \in pairs /\ e[1] = p
      BY <2>1
    <2> HIDE DEF e
    <2>3. PICK k \in DOMAIN f : \E c \in AsContainer(f[k]) : \E j \in DOMAIN c : e = <<Path(k, j), c[j]>>
      BY <1>3, <2>2
    <2>4. PICK c \in AsContainer(f[k]) : \E j \in DOMAIN c : e = <<Path(k, j), c[j]>>
      BY <2>3
    <2>5. PICK j \in DOMAIN c : e = <<Path(k, j), c[j]>>
      BY <2>4
    <2>6. p = Path(k, j) /\ Below(f)[p] = c[j]
      BY <2>1, <2>2, <2>5
    <2> QED BY <2>6
  <1> QED BY <1>4, <1>5

\* All that is inside of E is a field of E.
Closed(E) == \A k \in DOMAIN E : \A c \in AsContainer(E[k]) : \A j \in DOMAIN c :
                 Path(k, j) \in DOMAIN E /\ E[Path(k, j)] = c[j]
PartOf(f, E) == DOMAIN f \subseteq DOMAIN E /\ \A k \in DOMAIN f : f[k] = E[k]

LEMMA BelowClosed ==
    ASSUME NEW E, Closed(E), NEW f, PartOf(f, E)
    PROVE  PartOf(Below(f), E)
  <1> SUFFICES ASSUME NEW p \in DOMAIN Below(f) PROVE p \in DOMAIN E /\ Below(f)[p] = E[p]
    BY DEF PartOf
  <1>1. PICK k \in DOMAIN f : \E c \in AsContainer(f[k]) : \E j \in DOMAIN c : p = Path(k, j) /\ Below(f)[p] = c[j]
    BY BelowAt
  <1>2. PICK c \in AsContainer(f[k]) : \E j \in DOMAIN c : p = Path(k, j) /\ Below(f)[p] = c[j]
    BY <1>1
  <1>3. k \in DOMAIN E /\ c \in AsContainer(E[k])
    BY DEF PartOf
  <1> QED BY <1>2, <1>3 DEF Closed

LEMMA ClosedExpands ==
    ASSUME NEW E, Closed(E), E = [k \in DOMAIN E |-> E[k]]
    PROVE  expand_containers(E) = E
  <1> DEFINE one == Below(E)
             two == Below(one)
             three == Below(two)
  <1>1. PartOf(E, E)
    BY DEF PartOf
  <1>2. PartOf(one, E)
    BY <1>1, BelowClosed
  <1>3. PartOf(two, E)
    BY <1>2, BelowClosed
  <1>4. PartOf(three, E)
    BY <1>3, BelowClosed
  <1>5. expand_containers(E) = With(E, With(one, With(two, three)))
    BY DEF expand_containers
  <1> HIDE DEF one, two, three
  <1>6. DOMAIN With(one, With(two, three)) \subseteq DOMAIN E
    BY <1>2, <1>3, <1>4 DEF With, PartOf
  <1>7. With(E, With(one, With(two, three))) = [k \in DOMAIN E |-> E[k]]
    BY <1>6 DEF With
  <1> QED BY <1>5, <1>7

\* The names a reading may have before it is expanded, and what is reported under them.
Reported == {<<r.key, r.value>> : r \in Reports}
FieldNames == {r.key : r \in Reports} \cup UNION {Wanted(i[1]) : i \in Intents}
\* The fields of f are of G, or null.
OfFields(f, G) == \A k \in DOMAIN f : f[k] = None \/ <<k, f[k]>> \in G
\* Inside of the field k there is a j.
Inside(k, j) ==
    \E v : <<k, j, v>> \in Parts(Reported) \cup Parts(Under(Reported)) \cup Parts(Under(Under(Reported)))

\* A path that something is at tells what it is made of, and is nobody's name.
LEMMA PathsTell ==
    /\ \A k, j, l, m : Inside(k, j) /\ Inside(l, m) /\ Path(k, j) = Path(l, m) => k = l /\ j = m
    /\ \A k, j : Inside(k, j) => Path(k, j) \notin FieldNames
    /\ Parts(Under(Under(Under(Reported)))) = {}
  <1> DEFINE parts == Parts(Reported) \cup Parts(Under(Reported)) \cup Parts(Under(Under(Reported)))
  <1>1. /\ \A p, q \in parts : Path(p[1], p[2]) = Path(q[1], q[2]) => p[1] = q[1] /\ p[2] = q[2]
        /\ \A p \in parts : Path(p[1], p[2]) \notin FieldNames
        /\ Parts(Under(Under(Under(Reported)))) = {}
    BY PathAssumption DEF Reported, FieldNames
  <1>2. \A k, j : Inside(k, j) => \E v : <<k, j, v>> \in parts
    BY DEF Inside
  <1> HIDE DEF parts
  <1>3. ASSUME NEW k, NEW j, NEW l, NEW m, Inside(k, j), Inside(l, m), Path(k, j) = Path(l, m) PROVE k = l /\ j = m
    <2>1. PICK v : <<k, j, v>> \in parts
      BY <1>2, <1>3
    <2>2. PICK w : <<l, m, w>> \in parts
      BY <1>2, <1>3
    <2>3. /\ <<k, j, v>>[1] = k /\ <<k, j, v>>[2] = j /\ <<l, m, w>>[1] = l /\ <<l, m, w>>[2] = m
      OBVIOUS
    <2> QED BY <1>1, <1>3, <2>1, <2>2, <2>3
  <1>4. ASSUME NEW k, NEW j, Inside(k, j) PROVE Path(k, j) \notin FieldNames
    <2>1. PICK v : <<k, j, v>> \in parts
      BY <1>2, <1>4
    <2>2. <<k, j, v>>[1] = k /\ <<k, j, v>>[2] = j
      OBVIOUS
    <2> QED BY <1>1, <2>1, <2>2
  <1> QED BY <1>1, <1>3, <1>4

LEMMA PartsOf ==
    ASSUME NEW f, NEW G, OfFields(f, G)
    PROVE  /\ \A k \in DOMAIN f : \A c \in AsContainer(f[k]) : \A j \in DOMAIN c : <<k, j, c[j]>> \in Parts(G)
           /\ OfFields(Below(f), Under(G))
  <1>1. ASSUME NEW k \in DOMAIN f, NEW c \in AsContainer(f[k]), NEW j \in DOMAIN c PROVE <<k, j, c[j]>> \in Parts(G)
    <2>1. f[k] # None
      BY DEF AsContainer, None
    <2>2. <<k, f[k]>> \in G
      BY <2>1 DEF OfFields
    <2> DEFINE e == <<k, f[k]>>
    <2>3. e[1] = k /\ e[2] = f[k] /\ e \in G
      BY <2>2
    <2> HIDE DEF e
    <2>4. <<e[1], j, c[j]>> \in Parts(G)
      BY <2>3 DEF Parts
    <2> QED BY <2>3, <2>4
  <1>2. ASSUME NEW p \in DOMAIN Below(f) PROVE <<p, Below(f)[p]>> \in Under(G)
    <2>1. PICK k \in DOMAIN f : \E c \in AsContainer(f[k]) : \E j \in DOMAIN c : p = Path(k, j) /\ Below(f)[p] = c[j]
      BY BelowAt
    <2>2. PICK c \in AsContainer(f[k]) : \E j \in DOMAIN c : p = Path(k, j) /\ Below(f)[p] = c[j]
      BY <2>1
    <2>3. PICK j \in DOMAIN c : p = Path(k, j) /\ Below(f)[p] = c[j]
      BY <2>2
    <2> DEFINE q == <<k, j, c[j]>>
    <2>4. q \in Parts(G) /\ q[1] = k /\ q[2] = j /\ q[3] = c[j]
      BY <1>1
    <2> HIDE DEF q
    <2>5. <<Path(q[1], q[2]), q[3]>> \in Under(G)
      BY <2>4 DEF Under
    <2> QED BY <2>3, <2>4, <2>5
  <1> QED BY <1>1, <1>2 DEF OfFields

LEMMA OneContainer == ASSUME NEW v \in Values, NEW c \in AsContainer(v), NEW d \in AsContainer(v) PROVE c = d
  BY DEF AsContainer

\* What is below a field of f has the value that it has inside of it.
LEMMA BelowIs ==
    ASSUME NEW f, Fields(f), \A k \in DOMAIN f : \A c \in AsContainer(f[k]) : \A j \in DOMAIN c : Inside(k, j),
           NEW k \in DOMAIN f, NEW c \in AsContainer(f[k]), NEW j \in DOMAIN c
    PROVE  Path(k, j) \in DOMAIN Below(f) /\ Below(f)[Path(k, j)] = c[j]
  <1>1. Path(k, j) \in DOMAIN Below(f)
    BY BelowAt
  <1>2. PICK l \in DOMAIN f : \E d \in AsContainer(f[l]) : \E m \in DOMAIN d : Path(k, j) = Path(l, m) /\ Below(f)[Path(k, j)] = d[m]
    BY <1>1, BelowAt
  <1>3. PICK d \in AsContainer(f[l]) : \E m \in DOMAIN d : Path(k, j) = Path(l, m) /\ Below(f)[Path(k, j)] = d[m]
    BY <1>2
  <1>4. PICK m \in DOMAIN d : Path(k, j) = Path(l, m) /\ Below(f)[Path(k, j)] = d[m]
    BY <1>3
  <1>5. Inside(k, j) /\ Inside(l, m)
    OBVIOUS
  <1>6. k = l /\ j = m
    BY <1>4, <1>5, PathsTell
  <1>7. c = d
    BY <1>6, OneContainer DEF Fields
  <1> QED BY <1>1, <1>4, <1>6, <1>7

LEMMA NotBelow ==
    ASSUME NEW f, \A k \in DOMAIN f : \A c \in AsContainer(f[k]) : \A j \in DOMAIN c : Inside(k, j),
           NEW k, NEW j, Inside(k, j), k \notin DOMAIN f
    PROVE  Path(k, j) \notin DOMAIN Below(f)
  <1> SUFFICES ASSUME Path(k, j) \in DOMAIN Below(f) PROVE FALSE
    OBVIOUS
  <1>1. PICK l \in DOMAIN f : \E d \in AsContainer(f[l]) : \E m \in DOMAIN d : Path(k, j) = Path(l, m)
    BY BelowAt
  <1>2. PICK d \in AsContainer(f[l]) : \E m \in DOMAIN d : Path(k, j) = Path(l, m)
    BY <1>1
  <1>3. PICK m \in DOMAIN d : Path(k, j) = Path(l, m)
    BY <1>2
  <1>4. Inside(l, m)
    OBVIOUS
  <1> QED BY <1>3, <1>4, PathsTell

LEMMA ExpandedOnce ==
    ASSUME NEW L, Fields(L), OfFields(L, Reported), DOMAIN L \subseteq FieldNames
    PROVE  expand_containers(expand_containers(L)) = expand_containers(L)
  <1> DEFINE B1 == Below(L)
             B2 == Below(B1)
             B3 == Below(B2)
             E == With(L, With(B1, With(B2, B3)))
  <1>1. expand_containers(L) = E
    BY DEF expand_containers
  <1>2. Fields(B1) /\ Fields(B2) /\ Fields(B3)
    BY BelowFields
  <1>3. OfFields(B1, Under(Reported))
    BY PartsOf
  <1>4. OfFields(B2, Under(Under(Reported)))
    BY <1>3, PartsOf
  <1>5. OfFields(B3, Under(Under(Under(Reported))))
    BY <1>4, PartsOf
  <1>6. \A k \in DOMAIN L : \A c \in AsContainer(L[k]) : \A j \in DOMAIN c : Inside(k, j)
    <2>1. \A k \in DOMAIN L : \A c \in AsContainer(L[k]) : \A j \in DOMAIN c : <<k, j, c[j]>> \in Parts(Reported)
      BY PartsOf
    <2> QED BY <2>1 DEF Inside
  <1>7. \A k \in DOMAIN B1 : \A c \in AsContainer(B1[k]) : \A j \in DOMAIN c : Inside(k, j)
    <2>1. \A k \in DOMAIN B1 : \A c \in AsContainer(B1[k]) : \A j \in DOMAIN c : <<k, j, c[j]>> \in Parts(Under(Reported))
      BY <1>3, PartsOf
    <2> QED BY <2>1 DEF Inside
  <1>8. \A k \in DOMAIN B2 : \A c \in AsContainer(B2[k]) : \A j \in DOMAIN c : Inside(k, j)
    <2>1. \A k \in DOMAIN B2 : \A c \in AsContainer(B2[k]) : \A j \in DOMAIN c : <<k, j, c[j]>> \in Parts(Under(Under(Reported)))
      BY <1>4, PartsOf
    <2> QED BY <2>1 DEF Inside
  <1>9. \A k \in DOMAIN B3 : \A c \in AsContainer(B3[k]) : \A j \in DOMAIN c : FALSE
    <2>1. \A k \in DOMAIN B3 : \A c \in AsContainer(B3[k]) : \A j \in DOMAIN c :
             <<k, j, c[j]>> \in Parts(Under(Under(Under(Reported))))
      BY <1>5, PartsOf
    <2> QED BY <2>1, PathsTell
  <1> HIDE DEF B1, B2, B3
  <1>10. /\ \A p : p \in DOMAIN E <=> p \in DOMAIN L \/ p \in DOMAIN B1 \/ p \in DOMAIN B2 \/ p \in DOMAIN B3
         /\ \A p \in DOMAIN L : E[p] = L[p]
         /\ \A p \in DOMAIN B1 : p \notin DOMAIN L => E[p] = B1[p]
         /\ \A p \in DOMAIN B2 : p \notin DOMAIN L /\ p \notin DOMAIN B1 => E[p] = B2[p]
         /\ \A p \in DOMAIN B3 : p \notin DOMAIN L /\ p \notin DOMAIN B1 /\ p \notin DOMAIN B2 => E[p] = B3[p]
         /\ E = [p \in DOMAIN E |-> E[p]]
    BY DEF With
  <1> HIDE DEF E
  <1>11. Closed(E)
    <2> SUFFICES ASSUME NEW k \in DOMAIN E, NEW c \in AsContainer(E[k]), NEW j \in DOMAIN c
                 PROVE  Path(k, j) \in DOMAIN E /\ E[Path(k, j)] = c[j]
      BY DEF Closed
    <2>1. CASE k \in DOMAIN L
      <3>1. c \in AsContainer(L[k]) /\ Inside(k, j)
        BY <1>6, <1>10, <2>1
      <3>2. Path(k, j) \in DOMAIN B1 /\ B1[Path(k, j)] = c[j]
        BY <1>6, <2>1, <3>1, BelowIs DEF B1
      <3>3. Path(k, j) \notin DOMAIN L
        BY <3>1, PathsTell
      <3> QED BY <1>10, <3>2, <3>3
    <2>2. CASE k \notin DOMAIN L /\ k \in DOMAIN B1
      <3>1. c \in AsContainer(B1[k]) /\ Inside(k, j)
        BY <1>7, <1>10, <2>2
      <3>2. Path(k, j) \in DOMAIN B2 /\ B2[Path(k, j)] = c[j]
        BY <1>2, <1>7, <2>2, <3>1, BelowIs DEF B2
      <3>3. Path(k, j) \notin DOMAIN L
        BY <3>1, PathsTell
      <3>4. Path(k, j) \notin DOMAIN B1
        BY <1>6, <2>2, <3>1, NotBelow DEF B1
      <3> QED BY <1>10, <3>2, <3>3, <3>4
    <2>3. CASE k \notin DOMAIN L /\ k \notin DOMAIN B1 /\ k \in DOMAIN B2
      <3>1. c \in AsContainer(B2[k]) /\ Inside(k, j)
        BY <1>8, <1>10, <2>3
      <3>2. Path(k, j) \in DOMAIN B3 /\ B3[Path(k, j)] = c[j]
        BY <1>2, <1>8, <2>3, <3>1, BelowIs DEF B3
      <3>3. Path(k, j) \notin DOMAIN L
        BY <3>1, PathsTell
      <3>4. Path(k, j) \notin DOMAIN B1
        BY <1>6, <2>3, <3>1, NotBelow DEF B1
      <3>5. Path(k, j) \notin DOMAIN B2
        BY <1>7, <2>3, <3>1, NotBelow DEF B2
      <3> QED BY <1>10, <3>2, <3>3, <3>4, <3>5
    <2>4. CASE k \notin DOMAIN L /\ k \notin DOMAIN B1 /\ k \notin DOMAIN B2 /\ k \in DOMAIN B3
      BY <1>9, <1>10, <2>4
    <2> QED BY <1>10, <2>1, <2>2, <2>3, <2>4
  <1> QED BY <1>1, <1>10, <1>11, ClosedExpands

LEMMA BelowIsNew ==
    ASSUME NEW f, \A k \in DOMAIN f : \A c \in AsContainer(f[k]) : \A j \in DOMAIN c : Inside(k, j),
           NEW p \in DOMAIN Below(f)
    PROVE  p \notin FieldNames
  <1>1. PICK k \in DOMAIN f : \E c \in AsContainer(f[k]) : \E j \in DOMAIN c : p = Path(k, j)
    BY BelowAt
  <1>2. PICK c \in AsContainer(f[k]) : \E j \in DOMAIN c : p = Path(k, j)
    BY <1>1
  <1>3. PICK j \in DOMAIN c : p = Path(k, j)
    BY <1>2
  <1>4. Inside(k, j)
    OBVIOUS
  <1> QED BY <1>3, <1>4, PathsTell

\* What expanding adds are JSON values under names of their own.
LEMMA AddedPaths ==
    ASSUME NEW L, Fields(L), OfFields(L, Reported)
    PROVE  \E W : /\ \A f : Below(f) = Below(L) => expand_containers(f) = With(f, W)
                  /\ Fields(W) /\ \A p \in DOMAIN W : p \notin FieldNames
  <1> DEFINE B1 == Below(L)
             B2 == Below(B1)
             B3 == Below(B2)
             W == With(B1, With(B2, B3))
  <1>1. \A f : Below(f) = B1 => expand_containers(f) = With(f, W)
    BY Zenon DEF expand_containers
  <1>2. Fields(B1) /\ Fields(B2) /\ Fields(B3)
    BY BelowFields
  <1>3. OfFields(B1, Under(Reported))
    BY PartsOf
  <1>4. OfFields(B2, Under(Under(Reported)))
    BY <1>3, PartsOf
  <1>5. \A k \in DOMAIN L : \A c \in AsContainer(L[k]) : \A j \in DOMAIN c : Inside(k, j)
    <2>1. \A k \in DOMAIN L : \A c \in AsContainer(L[k]) : \A j \in DOMAIN c : <<k, j, c[j]>> \in Parts(Reported)
      BY PartsOf
    <2> QED BY <2>1 DEF Inside
  <1>6. \A k \in DOMAIN B1 : \A c \in AsContainer(B1[k]) : \A j \in DOMAIN c : Inside(k, j)
    <2>1. \A k \in DOMAIN B1 : \A c \in AsContainer(B1[k]) : \A j \in DOMAIN c : <<k, j, c[j]>> \in Parts(Under(Reported))
      BY <1>3, PartsOf
    <2> QED BY <2>1 DEF Inside
  <1>7. \A k \in DOMAIN B2 : \A c \in AsContainer(B2[k]) : \A j \in DOMAIN c : Inside(k, j)
    <2>1. \A k \in DOMAIN B2 : \A c \in AsContainer(B2[k]) : \A j \in DOMAIN c : <<k, j, c[j]>> \in Parts(Under(Under(Reported)))
      BY <1>4, PartsOf
    <2> QED BY <2>1 DEF Inside
  <1>8. \A p \in DOMAIN B1 : p \notin FieldNames
    BY <1>5, BelowIsNew
  <1> HIDE DEF B1
  <1>9. \A p \in DOMAIN B2 : p \notin FieldNames
    BY <1>6, BelowIsNew
  <1> HIDE DEF B2
  <1>10. \A p \in DOMAIN B3 : p \notin FieldNames
    BY <1>7, BelowIsNew
  <1> HIDE DEF B3
  <1>11. Fields(W)
    BY <1>2, WithFields
  <1>12. \A p \in DOMAIN W : p \notin FieldNames
    BY <1>8, <1>9, <1>10 DEF With
  <1> HIDE DEF W
  <1> QED BY <1>1, <1>11, <1>12 DEF B1

LEMMA BelowAlike ==
    ASSUME NEW L, NEW C, \A k : AsContainer(Get(L, k)) = AsContainer(Get(C, k))
    PROVE  Below(C) = Below(L)
  <1> DEFINE pairs(f) == UNION {UNION {{<<Path(k, j), c[j]>> : j \in DOMAIN c} : c \in AsContainer(f[k])} : k \in DOMAIN f}
             Holds(f, g) == \A k : AsContainer(Get(f, k)) = AsContainer(Get(g, k))
  <1>1. AsContainer(None) = {}
    BY DEF AsContainer, None
  <1>2. \A f : \A k : k \notin DOMAIN f => AsContainer(Get(f, k)) = {}
    BY <1>1 DEF Get
  <1>3. \A f : \A k \in DOMAIN f : Get(f, k) = f[k]
    BY DEF Get
  <1>4. ASSUME NEW f, NEW g, Holds(f, g) PROVE pairs(f) \subseteq pairs(g)
    <2> SUFFICES ASSUME NEW k \in DOMAIN f, NEW c \in AsContainer(f[k]), NEW j \in DOMAIN c
                 PROVE  <<Path(k, j), c[j]>> \in pairs(g)
      OBVIOUS
    <2>1. c \in AsContainer(Get(g, k))
      BY <1>3, <1>4
    <2>2. k \in DOMAIN g /\ c \in AsContainer(g[k])
      BY <1>2, <1>3, <2>1
    <2> QED BY <2>2
  <1>5. pairs(L) = pairs(C)
    <2>1. Holds(L, C) /\ Holds(C, L)
      OBVIOUS
    <2> HIDE DEF pairs, Holds
    <2> QED BY <1>4, <2>1
  <1>6. \A f : Below(f) = AsFields(pairs(f))
    BY Zenon DEF Below
  <1> HIDE DEF pairs
  <1> QED BY <1>5, <1>6, Zenon

\* So a device read live, and expanded twice, is the same as its snapshot.
LEMMA ExpandedSame ==
    ASSUME NEW L, Fields(L), OfFields(L, Reported), DOMAIN L \subseteq FieldNames,
           NEW C, DOMAIN C \subseteq DOMAIN L, \A k : Alike(Get(L, k), Get(C, k)),
           \A k \in DOMAIN L \ DOMAIN C : k \notin DOMAIN ChannelOf
    PROVE  LET E == expand_containers(expand_containers(L))
               F == expand_containers(C)
           IN  Same(E, F) /\ \A k : Get(E, k) = Get(F, k) \/ (k \in DOMAIN C /\ Get(E, k) = L[k])
  <1>1. expand_containers(expand_containers(L)) = expand_containers(L)
    BY ExpandedOnce
  <1>2. Below(C) = Below(L)
    BY AlikeReads, BelowAlike
  <1>3. PICK W : /\ \A f : Below(f) = Below(L) => expand_containers(f) = With(f, W)
                 /\ Fields(W) /\ \A p \in DOMAIN W : p \notin FieldNames
    BY AddedPaths
  <1> DEFINE E == With(L, W)
             F == With(C, W)
  <1>4. expand_containers(L) = E /\ expand_containers(C) = F
    BY <1>2, <1>3
  <1>5. /\ \A k : k \in DOMAIN E <=> k \in DOMAIN L \/ k \in DOMAIN W
        /\ \A k : k \in DOMAIN F <=> k \in DOMAIN C \/ k \in DOMAIN W
        /\ \A k \in DOMAIN L : E[k] = L[k]
        /\ \A k \in DOMAIN C : F[k] = C[k]
        /\ \A k \in DOMAIN W : (k \notin DOMAIN L => E[k] = W[k]) /\ (k \notin DOMAIN C => F[k] = W[k])
    BY DEF With
  <1> HIDE DEF E, F
  <1>6. ASSUME NEW k
        PROVE  Alike(Get(E, k), Get(F, k)) /\ (Get(E, k) = Get(F, k) \/ (k \in DOMAIN C /\ Get(E, k) = L[k]))
    <2>1. CASE k \in DOMAIN L /\ k \in DOMAIN C
      <3>1. Get(E, k) = L[k] /\ Get(E, k) = Get(L, k) /\ Get(F, k) = Get(C, k)
        BY <1>5, <2>1 DEF Get
      <3> QED BY <2>1, <3>1
    <2>2. CASE k \in DOMAIN L /\ k \notin DOMAIN C
      <3>1. k \notin DOMAIN W
        BY <1>3, <2>2
      <3>2. Get(E, k) = Get(L, k) /\ Get(F, k) = Get(C, k)
        BY <1>5, <2>2, <3>1 DEF Get
      <3>3. Get(C, k) = None
        BY <2>2 DEF Get
      <3>4. Get(L, k) = None
        BY <3>3, AlikeReads
      <3> QED BY <3>2, <3>3, <3>4
    <2>3. CASE k \notin DOMAIN L
      <3>1. Get(E, k) = Get(W, k) /\ Get(F, k) = Get(W, k)
        BY <1>5, <2>3 DEF Get
      <3>2. Get(W, k) \in Values
        BY <1>3, GetField
      <3> QED BY <3>1, <3>2 DEF Alike
    <2> QED BY <2>1, <2>2, <2>3
  <1>7. DOMAIN E \cap DOMAIN ChannelOf = DOMAIN F \cap DOMAIN ChannelOf
    BY <1>5
  <1> QED BY <1>1, <1>4, <1>6, <1>7 DEF Same

(***************************************************************************)
(* What an intent asks for.  A null of ThingsBoard's is the name of a field*)
(* that the snapshot does not have, which tells only the reader of camera  *)
(* alarm inputs apart: no intent asks for one of these by name.            *)
(***************************************************************************)
NoChannel(S) == \A x \in S : x \notin DOMAIN ChannelOf

LEMMA ChannelNames ==
    DOMAIN ChannelOf = {"CAMERA DISCONNECT CH 1", "cameraStatus.CAMERA DISCONNECT CH 1",
                        "CAMERA DISCONNECT CH 2", "cameraStatus.CAMERA DISCONNECT CH 2"}
  BY DEF ChannelOf, With

LEMMA ClearIntents == \A n \in DOMAIN INTENT_KEYS : NoChannel(INTENT_KEYS[n])
  <1>1. NoChannel(BasProfile) /\ NoChannel(RockProfile) /\ NoChannel(BatteryFlags)
    BY ChannelNames DEF NoChannel, BasProfile, RockProfile, BatteryFlags
  <1>2. NoChannel(SubsystemProfile)
    BY ChannelNames DEF NoChannel, SubsystemProfile
  <1>3. /\ NoChannel(INTENT_KEYS["bas_panel_info"]) /\ NoChannel(INTENT_KEYS["bas_power_status"])
        /\ NoChannel(INTENT_KEYS["bas_zone_info"]) /\ NoChannel(INTENT_KEYS["cctv_hdd_info"])
        /\ NoChannel(INTENT_KEYS["cctv_device_info"]) /\ NoChannel(INTENT_KEYS["cctv_recording_info"])
        /\ NoChannel(INTENT_KEYS["device_hardware"]) /\ NoChannel(INTENT_KEYS["cctv_storage"])
        /\ NoChannel(INTENT_KEYS["cctv_camera_count"]) /\ NoChannel(INTENT_KEYS["cctv_camera_info"])
        /\ NoChannel(INTENT_KEYS["cctv_sd_recording"]) /\ NoChannel(INTENT_KEYS["subsystem_status"])
        /\ NoChannel(INTENT_KEYS["battery_low_status"])
    BY <1>1, <1>2 DEF INTENT_KEYS
  <1>4. /\ NoChannel(INTENT_KEYS["gateway_status"]) /\ NoChannel(INTENT_KEYS["battery_voltage"])
        /\ NoChannel(INTENT_KEYS["ac_voltage"]) /\ NoChannel(INTENT_KEYS["system_current"])
    BY ChannelNames DEF NoChannel, INTENT_KEYS
  <1>5. NoChannel(INTENT_KEYS["power_status"]) /\ NoChannel(INTENT_KEYS["battery_health"])
    BY <1>1, ChannelNames DEF NoChannel, INTENT_KEYS
  <1>6. NoChannel(INTENT_KEYS["network_status"]) /\ NoChannel(INTENT_KEYS["cctv_status"])
    BY ChannelNames DEF NoChannel, INTENT_KEYS
  <1>7. NoChannel(INTENT_KEYS["cctv_hdd_error_status"]) /\ NoChannel(INTENT_KEYS["door_status"]) /\ NoChannel(INTENT_KEYS["sos_status"])
    BY ChannelNames DEF NoChannel, INTENT_KEYS
  <1>8. NoChannel(INTENT_KEYS["connected_devices"]) /\ NoChannel(INTENT_KEYS["cctv_tamper_count"])
    BY ChannelNames DEF NoChannel, INTENT_KEYS
  <1>9. DOMAIN INTENT_KEYS =
          {"gateway_status", "power_status", "battery_voltage", "battery_health", "battery_low_status", "ac_voltage",
           "system_current", "network_status", "cctv_status", "cctv_hdd_error_status", "subsystem_status", "door_status",
           "sos_status", "connected_devices", "cctv_tamper_count", "bas_panel_info", "bas_power_status", "bas_zone_info",
           "cctv_hdd_info", "cctv_device_info", "cctv_recording_info", "device_hardware", "cctv_storage",
           "cctv_camera_count", "cctv_camera_info", "cctv_sd_recording"}
    BY DEF INTENT_KEYS
  <1> QED BY <1>3, <1>4, <1>5, <1>6, <1>7, <1>8, <1>9

\* A list is made of what it lists.
LEMMA ClearLists ==
    /\ NoChannel(SeqSet(<<>>))
    /\ \A a : a \notin DOMAIN ChannelOf => NoChannel(SeqSet(<<a>>))
    /\ \A a, b : {a, b} \cap DOMAIN ChannelOf = {} => NoChannel(SeqSet(<<a, b>>))
    /\ \A a, b, c : {a, b, c} \cap DOMAIN ChannelOf = {} => NoChannel(SeqSet(<<a, b, c>>))
    /\ \A a, b, c, d : {a, b, c, d} \cap DOMAIN ChannelOf = {} => NoChannel(SeqSet(<<a, b, c, d>>))
    /\ \A a, b, c, d, e : {a, b, c, d, e} \cap DOMAIN ChannelOf = {} => NoChannel(SeqSet(<<a, b, c, d, e>>))
  <1>1. SeqSet(<<>>) = {}
    BY DEF SeqSet
  <1>2. \A a : SeqSet(<<a>>) = {a}
    BY DEF SeqSet
  <1>3. \A a, b : SeqSet(<<a, b>>) = {a, b}
    BY DEF SeqSet
  <1>4. \A a, b, c : SeqSet(<<a, b, c>>) = {a, b, c}
    BY DEF SeqSet
  <1>5. \A a, b, c, d : SeqSet(<<a, b, c, d>>) = {a, b, c, d}
    BY DEF SeqSet
  <1>6. \A a, b, c, d, e : SeqSet(<<a, b, c, d, e>>) = {a, b, c, d, e}
    BY DEF SeqSet
  <1> QED BY <1>1, <1>2, <1>3, <1>4, <1>5, <1>6 DEF NoChannel

LEMMA ClearFaults == \A s \in DOMAIN FaultKeys : NoChannel(SeqSet(FaultKeys[s]))
  <1>1. {"ticketStatus_IAS_FAULT", "intrusion_alarm_system_fault", "INTRUSION ALARM SYSTEM FAULT",
         "iasBasFasStatus_INTRUSION ALARM SYSTEM FAULT"} \cap DOMAIN ChannelOf = {}
    BY ChannelNames
  <1>2. {"ticketStatus_FAS_FAULT", "fireAlarmSystem_fault", "FIRE ALARM SYSTEM FAULT", "fire_alarm_system_fault",
         "iasBasFasStatus_FIRE ALARM SYSTEM FAULT"} \cap DOMAIN ChannelOf = {}
    BY ChannelNames
  <1>3. {"ticketStatus_TLS_TAMPER", "ticketStatus_TLS_OFF"} \cap DOMAIN ChannelOf = {}
    BY ChannelNames
  <1>4. {"ticketStatus_ACS_TAMPER", "ticketStatus_ACS_OFF"} \cap DOMAIN ChannelOf = {}
    BY ChannelNames
  <1>5. {"HDD ERROR", "ticketStatus_HDD_ERROR", "ticketStatus_NVR_OFF", "cameraStatus_HDD ERROR"} \cap DOMAIN ChannelOf = {}
    BY ChannelNames
  <1>6. DOMAIN FaultKeys = {"ias", "fas", "timeLock", "accessControl", "cctv"}
    BY DEF FaultKeys
  <1>7. NoChannel(SeqSet(FaultKeys["ias"]))
    BY <1>1, ClearLists DEF FaultKeys
  <1>8. NoChannel(SeqSet(FaultKeys["fas"]))
    BY <1>2, ClearLists DEF FaultKeys
  <1>9. NoChannel(SeqSet(FaultKeys["timeLock"])) /\ NoChannel(SeqSet(FaultKeys["accessControl"]))
    BY <1>3, <1>4, ClearLists DEF FaultKeys
  <1>10. NoChannel(SeqSet(FaultKeys["cctv"]))
    BY <1>5, ClearLists DEF FaultKeys
  <1> QED BY <1>6, <1>7, <1>8, <1>9, <1>10

LEMMA ClearAlarms == \A s \in DOMAIN AlarmKeys : NoChannel(SeqSet(AlarmKeys[s]))
  <1>1. {"ticketStatus_IAS_ACTIVATE", "ticketStatus_IAS_INT_ACTIVATE", "INTRUSION ALARM SYSTEM ACTIVATE",
         "iasBasFasStatus_INTRUSION ALARM SYSTEM ACTIVATE"} \cap DOMAIN ChannelOf = {}
    BY ChannelNames
  <1>2. {"ticketStatus_FAS_ACTIVATE", "FIRE ALARM SYSTEM ACTIVATE", "iasBasFasStatus_FIRE ALARM SYSTEM ACTIVATE"}
            \cap DOMAIN ChannelOf = {}
    BY ChannelNames
  <1>3. "ticketStatus_TLS_DOOR_OPEN" \notin DOMAIN ChannelOf /\ "ticketStatus_ACS_DOOR_OPEN" \notin DOMAIN ChannelOf
    BY ChannelNames
  <1>4. {"CAMERA DISCONNECT", "ticketStatus_CAM_DIS", "ticketStatus_CAM_TAMPER"} \cap DOMAIN ChannelOf = {}
    BY ChannelNames
  <1>5. DOMAIN AlarmKeys = {"ias", "bas", "fas", "timeLock", "accessControl", "cctv"}
    BY DEF AlarmKeys
  <1>6. NoChannel(SeqSet(AlarmKeys["ias"])) /\ NoChannel(SeqSet(AlarmKeys["bas"]))
    BY <1>1, ClearLists DEF AlarmKeys
  <1>7. NoChannel(SeqSet(AlarmKeys["fas"])) /\ NoChannel(SeqSet(AlarmKeys["cctv"]))
    BY <1>2, <1>4, ClearLists DEF AlarmKeys
  <1>8. NoChannel(SeqSet(AlarmKeys["timeLock"])) /\ NoChannel(SeqSet(AlarmKeys["accessControl"]))
    BY <1>3, ClearLists DEF AlarmKeys
  <1> QED BY <1>5, <1>6, <1>7, <1>8

LEMMA ClearLadders == NoChannel(LADDER_KEYS) /\ NoChannel(CCTV_KEYS)
  <1>1. NoChannel(SeqSet(BatteryLowKeys)) /\ NoChannel(SeqSet(BatteryReverseKeys))
    <2>1. {"statusbox_battery_low", "system_status_statusbox_battery_low", "BATTERY LOW", "gatewayStatus_BATTERY LOW"}
              \cap DOMAIN ChannelOf = {}
      BY ChannelNames
    <2>2. {"statusbox_battery_reverse", "system_status_statusbox_battery_reverse", "BATTERY REVERSE",
           "gatewayStatus_BATTERY REVERSE"} \cap DOMAIN ChannelOf = {}
      BY ChannelNames
    <2> QED BY <2>1, <2>2, ClearLists DEF BatteryLowKeys, BatteryReverseKeys
  <1>2. \A s \in DOMAIN CountKey : CountKey[s] \notin DOMAIN ChannelOf
    <2>1. \A s \in DOMAIN CountKey :
            CountKey[s] \in {"BASfaultCOUNT", "time_lock_door_open_count", "access_control_door_open_count"}
      BY DEF CountKey
    <2>2. {"BASfaultCOUNT", "time_lock_door_open_count", "access_control_door_open_count"} \cap DOMAIN ChannelOf = {}
      BY ChannelNames
    <2> QED BY <2>1, <2>2
  <1>3. NoChannel(LADDER_KEYS)
    <2> DEFINE faults == UNION {SeqSet(FaultKeys[s]) : s \in DOMAIN FaultKeys}
               alarms == UNION {SeqSet(AlarmKeys[s]) : s \in DOMAIN AlarmKeys}
               counts == {CountKey[s] : s \in DOMAIN CountKey}
    <2>1. LADDER_KEYS = SeqSet(BatteryLowKeys) \cup SeqSet(BatteryReverseKeys) \cup faults \cup alarms \cup counts
      BY Zenon DEF LADDER_KEYS
    <2>2. NoChannel(faults)
      BY ClearFaults DEF NoChannel
    <2>3. NoChannel(alarms)
      BY ClearAlarms DEF NoChannel
    <2>4. NoChannel(counts)
      BY <1>2 DEF NoChannel
    <2> HIDE DEF faults, alarms, counts
    <2> QED BY <1>1, <2>1, <2>2, <2>3, <2>4 DEF NoChannel
  <1>4. NoChannel(SeqSet(ResolutionKeys))
    <2>1. {"Video Resolution", "Hikvision_NVR_Resolutions", "Dahua_NVR_Resolutions", "CP_Plus_NVR_Resolutions"}
              \cap DOMAIN ChannelOf = {}
      BY ChannelNames
    <2> QED BY <2>1, ClearLists DEF ResolutionKeys
  <1>5. NoChannel(CCTV_KEYS)
    BY <1>4, ChannelNames DEF CCTV_KEYS, NoChannel
  <1> QED BY <1>3, <1>5

LEMMA ClearWanted == ASSUME NEW n \in DOMAIN INTENT_KEYS PROVE NoChannel(Wanted(n))
  BY ClearIntents, ClearLadders DEF Wanted, NoChannel

(***************************************************************************)
(* Live and fleet, step by step.  As long as nothing more is reported, a   *)
(* question has read what its calls so far return, and the hash of the     *)
(* snapshot is the encoding of the same fields.                            *)
(***************************************************************************)
LiveRaw == Overlay(Series(Wanted(ask.intent[1])), With(tb["CLIENT_SCOPE"], tb["SERVER_SCOPE"]))
ReadOf(phase) ==
    CASE phase = "client" -> tb["SERVER_SCOPE"]
      [] phase = "series" -> With(tb["CLIENT_SCOPE"], tb["SERVER_SCOPE"])
      [] phase = "answered" -> expand_containers(LiveRaw)
Encoded == [k \in DOMAIN fetch_device_fields |-> encode(fetch_device_fields[k])]
AsReported(f) == \A k \in DOMAIN f : <<k, f[k]>> \in Reported /\ f[k] # None
Fetched ==
    /\ DOMAIN tb = Places /\ \A p \in Places : AsReported(tb[p])
    /\ reports \in Nat /\ syncedAt \in 0 .. reports
    /\ cache # Empty /\ syncedAt = reports => cache = Encoded
    /\ ask.phase \in {"client", "series", "answered"} =>
          /\ {"phase", "intent", "raw", "began"} \subseteq DOMAIN ask
          /\ ask.intent \in Intents /\ ask.began \in 0 .. reports
          /\ ask.began = reports => ask.raw = ReadOf(ask.phase)

LEMMA FetchedStep == Fetched /\ [DeviceNext]_deviceVars => Fetched'
  <1> SUFFICES ASSUME Fetched, [DeviceNext]_deviceVars PROVE Fetched'
    OBVIOUS
  <1> DEFINE Asking == ask.phase \in {"client", "series", "answered"} =>
                          /\ {"phase", "intent", "raw", "began"} \subseteq DOMAIN ask
                          /\ ask.intent \in Intents /\ ask.began \in 0 .. reports
                          /\ ask.began = reports => ask.raw = ReadOf(ask.phase)
             Held == /\ DOMAIN tb = Places /\ \A p \in Places : AsReported(tb[p])
                     /\ reports \in Nat /\ syncedAt \in 0 .. reports
             Synced == cache # Empty /\ syncedAt = reports => cache = Encoded
  <1>1. Held /\ Synced /\ Asking
    BY DEF Fetched
  <1>2. UNCHANGED <<tb, cache, syncedAt, reports>> => Held' /\ Synced'
    BY <1>1 DEF Encoded, fetch_device_fields
  <1>3. ASSUME UNCHANGED tb, ask'.intent = ask.intent PROVE \A s : ReadOf(s)' = ReadOf(s)
    BY <1>3 DEF ReadOf, LiveRaw, Series
  <1>4. Held' /\ Synced' /\ Asking' => Fetched'
    BY DEF Fetched
  <1>5. ASSUME NEW i \in Intents, AskDevice(i) PROVE Fetched'
    <2>1. ask' = [phase |-> "client", intent |-> i, raw |-> tb["SERVER_SCOPE"], began |-> reports]
          /\ UNCHANGED <<tb, cache, syncedAt, reports>>
      BY <1>5 DEF AskDevice
    <2>2. ask'.raw = ReadOf("client")'
      BY <2>1 DEF ReadOf
    <2>3. Asking'
      BY <1>1, <2>1, <2>2
    <2> QED BY <1>2, <1>4, <2>1, <2>3
  <1>6. CASE ReadClient
    <2>1. /\ ask.phase = "client" /\ UNCHANGED <<tb, cache, syncedAt, reports>>
          /\ ask' = [ask EXCEPT !.phase = "series", !.raw = With(tb["CLIENT_SCOPE"], ask.raw)]
      BY <1>6 DEF ReadClient
    <2>2. /\ DOMAIN ask' = DOMAIN ask /\ ask'.phase = "series" /\ ask'.raw = With(tb["CLIENT_SCOPE"], ask.raw)
          /\ ask'.intent = ask.intent /\ ask'.began = ask.began
      BY <1>1, <2>1
    <2>3. ask.began = reports => ask'.raw = ReadOf("series")
      BY <1>1, <2>1, <2>2 DEF ReadOf
    <2>4. ReadOf("series")' = ReadOf("series")
      BY <1>3, <2>1, <2>2
    <2>5. Asking'
      BY <1>1, <2>1, <2>2, <2>3, <2>4
    <2> QED BY <1>2, <1>4, <2>1, <2>5
  <1>7. CASE ReadSeries
    <2> DEFINE raw == expand_containers(Overlay(Series(Wanted(ask.intent[1])), ask.raw))
               answer == Answer(ask.intent, raw)
    <2>1. /\ ask.phase = "series" /\ UNCHANGED <<tb, cache, syncedAt, reports>>
          /\ ask' = [phase |-> "answered", intent |-> ask.intent, raw |-> raw, began |-> ask.began, answer |-> answer]
      BY <1>7 DEF ReadSeries
    <2>2. ask.began = reports => raw = ReadOf("answered")
      <3>1. ask.began = reports => ask.raw = With(tb["CLIENT_SCOPE"], tb["SERVER_SCOPE"])
        BY <1>1, <2>1 DEF ReadOf
      <3>2. ReadOf("answered") = expand_containers(LiveRaw)
        BY DEF ReadOf
      <3> QED BY <3>1, <3>2 DEF LiveRaw
    <2> HIDE DEF raw, answer
    <2>3. /\ {"phase", "intent", "raw", "began"} \subseteq DOMAIN ask' /\ ask'.phase = "answered"
          /\ ask'.raw = raw /\ ask'.intent = ask.intent /\ ask'.began = ask.began
      BY <2>1
    <2>4. ReadOf("answered")' = ReadOf("answered")
      BY <1>3, <2>1, <2>3
    <2>5. Asking'
      BY <1>1, <2>1, <2>2, <2>3, <2>4
    <2> QED BY <1>2, <1>4, <2>1, <2>5
  <1>8. CASE CallFails
    <2>1. ask' = [phase |-> "failed"] /\ UNCHANGED <<tb, cache, syncedAt, reports>>
      BY <1>8 DEF CallFails
    <2> QED BY <1>2, <1>4, <2>1
  <1>9. ASSUME NEW r \in Reports, ReportField(r) PROVE Fetched'
    <2>1. /\ reports' = reports + 1 /\ UNCHANGED <<cache, syncedAt, ask>>
          /\ tb' = [tb EXCEPT ![r.place] = With([k \in {r.key} |-> r.value], @)]
      BY <1>9 DEF ReportField
    <2>2. AsReported([k \in {r.key} |-> r.value])
      BY ValueAssumption DEF AsReported, Reported
    <2>3. \A p \in Places : tb'[p] = tb[p] \/ tb'[p] = With([k \in {r.key} |-> r.value], tb[p])
      BY <1>1, <2>1
    <2>4. \A f, g : AsReported(f) /\ AsReported(g) => AsReported(With(f, g))
      BY DEF AsReported, With
    <2>5. \A p \in Places : AsReported(tb'[p])
      BY <1>1, <2>2, <2>3, <2>4
    <2>6. Held'
      BY <1>1, <2>1, <2>5 DEF AsReported
    <2>7. Synced' /\ Asking'
      BY <1>1, <2>1
    <2> QED BY <1>4, <2>6, <2>7
  <1>10. CASE SyncDevice
    <2>1. cache' = Encoded /\ syncedAt' = reports /\ UNCHANGED <<tb, reports, ask>>
      BY <1>10 DEF SyncDevice, Encoded
    <2>2. Encoded' = Encoded
      BY <2>1 DEF Encoded, fetch_device_fields
    <2>3. Held' /\ Synced'
      BY <1>1, <2>1, <2>2
    <2>4. Asking'
      BY <1>1, <1>3, <2>1
    <2> QED BY <1>4, <2>3, <2>4
  <1>11. CASE SnapshotExpires
    <2>1. cache' = Empty /\ syncedAt' = 0 /\ UNCHANGED <<tb, reports, ask>>
      BY <1>11 DEF SnapshotExpires
    <2>2. Held' /\ Synced'
      BY <1>1, <2>1
    <2>3. Asking'
      BY <1>1, <1>3, <2>1
    <2> QED BY <1>4, <2>2, <2>3
  <1>12. CASE UNCHANGED deviceVars
    <2>1. UNCHANGED <<tb, cache, syncedAt, reports, ask>>
      BY <1>12 DEF deviceVars
    <2>2. Asking'
      BY <1>1, <1>3, <2>1
    <2> QED BY <1>2, <1>4, <2>1, <2>2
  <1> QED BY <1>5, <1>6, <1>7, <1>8, <1>9, <1>10, <1>11, <1>12 DEF DeviceNext

\* The fields the three calls read and the hash of the snapshot, before either is expanded.
LEMMA LiveIsAlike ==
    ASSUME Fetched, ask.phase = "answered", tb["SHARED_SCOPE"] = Empty,
           DOMAIN tb["series"] \subseteq Wanted(ask.intent[1])
    PROVE  /\ Fields(LiveRaw) /\ OfFields(LiveRaw, Reported) /\ DOMAIN LiveRaw \subseteq FieldNames
           /\ DOMAIN Encoded \subseteq DOMAIN LiveRaw
           /\ \A k : Alike(Get(LiveRaw, k), Get(Encoded, k))
           /\ \A k \in DOMAIN LiveRaw \ DOMAIN Encoded : k \notin DOMAIN ChannelOf
           /\ \A k \in DOMAIN Encoded : k \in DOMAIN fetch_device_fields /\ LiveRaw[k] = fetch_device_fields[k]
  <1> DEFINE wanted == Wanted(ask.intent[1])
             series == tb["series"]
             raw == With(tb["CLIENT_SCOPE"], tb["SERVER_SCOPE"])
             live == LiveRaw
             sent == Encoded
             fetched == fetch_device_fields
  <1>1. /\ DOMAIN series \subseteq wanted /\ AsReported(series)
        /\ AsReported(tb["CLIENT_SCOPE"]) /\ AsReported(tb["SERVER_SCOPE"])
    BY DEF Fetched, Places
  <1>2. AsReported(raw)
    BY <1>1 DEF AsReported, With
  <1>3. fetched = With(series, raw)
    <2>1. With(tb["SHARED_SCOPE"], tb["SERVER_SCOPE"]) = [k \in DOMAIN tb["SERVER_SCOPE"] |-> tb["SERVER_SCOPE"][k]]
      BY DEF With, Empty
    <2>2. With(tb["CLIENT_SCOPE"], With(tb["SHARED_SCOPE"], tb["SERVER_SCOPE"])) = raw
      BY <2>1 DEF With
    <2> QED BY <2>2 DEF fetch_device_fields
  <1>4. sent = [k \in DOMAIN fetched |-> encode(fetched[k])]
    BY DEF Encoded
  <1>5. live = Overlay(Series(wanted), raw)
    BY DEF LiveRaw
  <1>6. Series(wanted) = [k \in wanted |-> Get(series, k)]
    BY DEF Series
  <1>7. ask.intent \in Intents /\ wanted \subseteq FieldNames /\ NoChannel(wanted)
    <2>1. ask.intent \in Intents /\ ask.intent[1] \in DOMAIN INTENT_KEYS
      BY IntentAssumption DEF Fetched
    <2> QED BY <2>1, ClearWanted DEF FieldNames
  <1> HIDE DEF wanted, series, raw, live, sent, fetched
  <1>8. DOMAIN live = wanted \cup DOMAIN raw /\ DOMAIN sent = DOMAIN series \cup DOMAIN raw
    BY <1>3, <1>4, <1>5, <1>6 DEF Overlay, With
  <1>9. \A k \in DOMAIN series : live[k] = series[k] /\ fetched[k] = series[k] /\ k \in DOMAIN live
    BY <1>1, <1>3, <1>5, <1>6, <1>8 DEF Overlay, With, Get, AsReported
  <1>10. \A k \in DOMAIN raw \ DOMAIN series : live[k] = raw[k] /\ fetched[k] = raw[k] /\ k \in DOMAIN live
    BY <1>2, <1>3, <1>5, <1>6, <1>8 DEF Overlay, With, Get, AsReported
  <1>11. \A k \in DOMAIN live \ DOMAIN sent : live[k] = None /\ k \in wanted
    BY <1>5, <1>6, <1>8 DEF Overlay, Get
  <1>12. \A k, v : <<k, v>> \in Reported => k \in FieldNames /\ v \in Values
    BY ValueAssumption DEF Reported, FieldNames
  <1>13. \A k \in DOMAIN sent : /\ <<k, live[k]>> \in Reported /\ live[k] # None /\ live[k] \in Values
                                /\ k \in DOMAIN live /\ sent[k] = encode(live[k])
    <2> SUFFICES ASSUME NEW k \in DOMAIN sent
                 PROVE  /\ <<k, live[k]>> \in Reported /\ live[k] # None /\ live[k] \in Values
                        /\ k \in DOMAIN live /\ sent[k] = encode(live[k])
      OBVIOUS
    <2>1. k \in DOMAIN live /\ fetched[k] = live[k] /\ <<k, live[k]>> \in Reported /\ live[k] # None
      BY <1>1, <1>2, <1>8, <1>9, <1>10 DEF AsReported
    <2>2. sent[k] = encode(live[k])
      BY <1>4, <2>1, Zenon
    <2> QED BY <1>12, <2>1, <2>2
  <1>14. None \in Values
    BY ValueAssumption
  <1>15. Fields(live) /\ OfFields(live, Reported)
    BY <1>11, <1>13, <1>14 DEF Fields, OfFields
  <1>16. DOMAIN live \subseteq FieldNames
    BY <1>7, <1>8, <1>11, <1>12, <1>13
  <1>17. \A k : Alike(Get(live, k), Get(sent, k))
    BY <1>11, <1>13, <1>14 DEF Alike, Get
  <1>18. \A k \in DOMAIN live \ DOMAIN sent : k \notin DOMAIN ChannelOf
    BY <1>7, <1>11 DEF NoChannel
  <1>19. DOMAIN sent \subseteq DOMAIN live
    BY <1>13
  <1>20. \A k \in DOMAIN sent : k \in DOMAIN fetched /\ live[k] = fetched[k]
    BY <1>4, <1>8, <1>9, <1>10
  <1> QED BY <1>15, <1>16, <1>17, <1>18, <1>19, <1>20 DEF live, sent, fetched

LEMMA LiveHolds == Asked /\ Fetched => LiveMatchesFleet
  <1> DEFINE Apart == \E k \in DOMAIN fetch_device_fields : ReadsApart(k, fetch_device_fields[k])
  <1> SUFFICES ASSUME Asked, Fetched, Undisturbed, syncedAt = reports, cache # Empty,
                      ask.intent[1] \in CountIntents => ~Apart,
                      tb["SHARED_SCOPE"] = Empty, DOMAIN tb["series"] \subseteq Wanted(ask.intent[1])
               PROVE  ask.answer = Answer(ask.intent, cache)
    BY DEF LiveMatchesFleet
  <1>1. ask.phase = "answered" /\ ask.began = reports
    BY DEF Undisturbed, Answered
  <1>2. cache = Encoded /\ ask.raw = expand_containers(LiveRaw)
    BY <1>1 DEF Fetched, ReadOf
  <1> DEFINE E == expand_containers(ask.raw)
             F == expand_containers(cache)
  <1>3. Same(E, F) /\ \A k : Get(E, k) = Get(F, k) \/ (k \in DOMAIN Encoded /\ Get(E, k) = LiveRaw[k])
    BY <1>1, <1>2, LiveIsAlike, ExpandedSame
  <1>4. E = ask.raw
    BY <1>1, <1>2, LiveIsAlike, ExpandedOnce
  <1>5. \A k \in DOMAIN Encoded : k \in DOMAIN fetch_device_fields /\ LiveRaw[k] = fetch_device_fields[k]
    BY <1>1, LiveIsAlike
  <1> HIDE DEF E, F
  <1>6. ~Apart => Together(E, F)
    BY <1>3, <1>5 DEF Together
  <1> HIDE DEF Apart
  <1>7. format_metric(ask.intent[1], ask.intent[2], SnapshotOf(E)) = format_metric(ask.intent[1], ask.intent[2], SnapshotOf(F))
    BY <1>3, <1>6, SameAnswers
  <1>8. Answer(ask.intent, ask.raw) = Answer(ask.intent, cache)
    BY <1>7 DEF Answer, build_snapshot, E, F
  <1> QED BY <1>1, <1>8 DEF Asked

\* The live answer of MetricHandler to a question about a device is the one that its hash in Redis
\* gives, if nothing was reported since before the question and the last sync.
THEOREM LiveIsFleet == AssistantSpec => []LiveMatchesFleet
  <1>1. AssistantInit => Asked /\ Fetched
    BY DEF AssistantInit, DeviceInit, Asked, Idle, Empty, Fields, Fetched, AsReported, Places
  <1>2. Asked /\ [AssistantNext]_assistantVars => Asked'
    BY AskedStep DEF AssistantNext, MetricStep, FleetStep, AlarmStep, GateStep, assistantVars
  <1>3. Fetched /\ [AssistantNext]_assistantVars => Fetched'
    BY FetchedStep DEF AssistantNext, MetricStep, FleetStep, AlarmStep, GateStep, assistantVars
  <1> QED BY <1>1, <1>2, <1>3, LiveHolds, PTL DEF AssistantSpec

(***************************************************************************)
(* The fleet.  What a branch was below, and which device it had, at some   *)
(* time since the question.                                                *)
(***************************************************************************)
Since == inquiry.since .. version
WasBelow(l, n) == \E v \in Since : l \in DOMAIN Hierarchies[v].above /\ n \in Hierarchies[v].above[l]
Had(l, d) == \E w \in Since : l \in DOMAIN Hierarchies[w].nodes /\ Hierarchies[w].nodes[l].device = d
WereBelow == \A n \in inquiry.area, d \in inquiry.ids : \E l : WasBelow(l, n) /\ Had(l, d)

Narrow ==
    /\ version \in 1 .. Len(Hierarchies)
    /\ inquiry.phase \in {"idle", "scope", "paths", "rows", "snapshots", "answered", "told"}
    /\ inquiry.phase \in {"scope", "paths", "rows", "snapshots", "answered"} =>
          /\ "phase" \in DOMAIN inquiry
          /\ inquiry.since \in 1 .. version /\ inquiry.ids \subseteq inquiry.scope.devices /\ WereBelow
    /\ inquiry.phase \in {"scope", "paths", "rows"} => inquiry.area = {}
    /\ inquiry.phase = "rows" => \A l \in DOMAIN inquiry.tree : \A n \in inquiry.tree[l] : WasBelow(l, n)

LEMMA NarrowHolds == Narrow => NarrowedToArea
  <1> SUFFICES ASSUME Narrow, AnsweredBy("fleet_health"), NEW n \in inquiry.area, NEW d \in inquiry.ids
               PROVE  /\ d \in inquiry.scope.devices
                      /\ \E v, w \in Since : \E l \in DOMAIN Hierarchies[v].above \cap DOMAIN Hierarchies[w].nodes :
                            n \in Hierarchies[v].above[l] /\ Hierarchies[w].nodes[l].device = d
    BY DEF NarrowedToArea, Since
  <1>1. inquiry.ids \subseteq inquiry.scope.devices /\ WereBelow
    BY DEF Narrow, AnsweredBy
  <1>2. PICK l : WasBelow(l, n) /\ Had(l, d)
    BY <1>1 DEF WereBelow
  <1> QED BY <1>1, <1>2 DEF WasBelow, Had

LEMMA NarrowInit == FleetInit => Narrow
  BY FleetAssumption DEF FleetInit, Narrow

\* What was, remains so when the world goes on.
LEMMA WasRemains ==
    ASSUME Narrow, version' \in 1 .. Len(Hierarchies), version <= version', inquiry'.since = inquiry.since,
           inquiry.since \in 1 .. version
    PROVE  /\ \A l, n : WasBelow(l, n) => WasBelow(l, n)'
           /\ \A l, d : Had(l, d) => Had(l, d)'
  <1>1. Since \subseteq Since'
    BY DEF Since, Narrow
  <1> QED BY <1>1 DEF WasBelow, Had

LEMMA WorldNarrows ==
    ASSUME Narrow, UNCHANGED inquiry, version' = version \/ (version' = version + 1 /\ version < Len(Hierarchies))
    PROVE  Narrow'
  <1>1. version \in Nat /\ version' \in 1 .. Len(Hierarchies) /\ version <= version'
    BY DEF Narrow
  <1>2. CASE inquiry.phase \in {"scope", "paths", "rows", "snapshots", "answered"}
    <2>1. inquiry.since \in 1 .. version /\ inquiry.since \in 1 .. version'
      BY <1>1, <1>2 DEF Narrow
    <2>2. /\ \A l, n : WasBelow(l, n) => WasBelow(l, n)'
          /\ \A l, d : Had(l, d) => Had(l, d)'
      BY <1>1, <2>1, WasRemains
    <2>3. WereBelow'
      BY <1>2, <2>2 DEF Narrow, WereBelow
    <2> QED BY <1>1, <1>2, <2>1, <2>2, <2>3 DEF Narrow
  <1>3. CASE inquiry.phase \in {"idle", "told"}
    BY <1>1, <1>3 DEF Narrow
  <1> QED BY <1>2, <1>3 DEF Narrow

\* A tree made of rows and of ancestors that were: what is below an area of it was below it,
\* and has the device that its row has.
LEMMA TreeNarrows ==
    ASSUME NEW above, NEW nodes, NEW devices, NEW q, NEW n, NEW d,
           n \in area_filter(load_scoped_tree(above, nodes, devices), q),
           d \in device_ids_under(load_scoped_tree(above, nodes, devices), n)
    PROVE  \E l \in DOMAIN above \cap DOMAIN nodes : n \in above[l] /\ nodes[l].device = d
  <1> DEFINE t == load_scoped_tree(above, nodes, devices)
  <1>1. n \in DOMAIN t.nodes \ Leaves(t)
    <2>1. \A pool : find_area(t, q, pool) \subseteq pool
      BY DEF find_area
    <2> HIDE DEF t
    <2>2. n \in find_area(t, q, DOMAIN t.nodes \ Leaves(t))
      BY DEF area_filter, t
    <2> QED BY <2>1, <2>2
  <1>2. PICK l \in descendant_leaves(t, n) : d = t.nodes[l].device
    BY DEF device_ids_under
  <1>3. l \in Leaves(t) /\ l \in DOMAIN t.nodes /\ n \in ancestors_of(t, l)
    BY <1>1, <1>2 DEF descendant_leaves, Leaves
  <1>4. l \in DOMAIN t.ancestors /\ n \in t.ancestors[l]
    BY <1>3 DEF ancestors_of
  <1>5. DOMAIN t.ancestors \subseteq DOMAIN above /\ \A k \in DOMAIN t.ancestors : t.ancestors[k] = above[k]
    BY DEF load_scoped_tree
  <1>6. DOMAIN t.nodes \subseteq DOMAIN nodes /\ \A k \in DOMAIN t.nodes : t.nodes[k] = nodes[k]
    BY DEF load_scoped_tree
  <1> HIDE DEF t
  <1> QED BY <1>2, <1>3, <1>4, <1>5, <1>6

LEMMA RowsNarrow == ASSUME Narrow, ReadRows PROVE Narrow'
  <1> DEFINE tree == load_scoped_tree(inquiry.tree, Committed.nodes, inquiry.scope.devices)
             read == [inquiry EXCEPT !.phase = "snapshots", !.tree = tree]
             areas == IF Head(inquiry.todo) = "fleet_health" THEN area_filter(tree, inquiry.asked.q) ELSE {}
  <1>1. /\ inquiry.phase = "rows" /\ "phase" \in DOMAIN inquiry /\ inquiry.area = {}
        /\ inquiry.since \in 1 .. version /\ UNCHANGED version
        /\ version \in 1 .. Len(Hierarchies)
        /\ inquiry.ids \subseteq inquiry.scope.devices
        /\ \A l \in DOMAIN inquiry.tree : \A n \in inquiry.tree[l] : WasBelow(l, n)
    BY DEF Narrow, ReadRows, world
  <1>2. CASE inquiry' = read
    <2>1. inquiry'.phase = "snapshots" /\ inquiry'.area = {} /\ inquiry'.since = inquiry.since
          /\ inquiry'.ids = inquiry.ids /\ inquiry'.scope = inquiry.scope /\ "phase" \in DOMAIN inquiry'
      BY <1>1, <1>2
    <2> QED BY <1>1, <2>1 DEF Narrow, WereBelow
  <1>3. ASSUME NEW n \in areas, inquiry' = LET ids == NarrowTo(inquiry.ids, tree, n)
                                            IN  IF ids = {} THEN End([kind |-> "nothing below"])
                                                ELSE [read EXCEPT !.area = {n}, !.ids = ids, !.left = ids]
        PROVE Narrow'
    <2> DEFINE ids == NarrowTo(inquiry.ids, tree, n)
    <2>1. CASE ids = {}
      BY <1>1, <1>3, <2>1 DEF End, Narrow
    <2>2. CASE ids # {}
      <3>1. inquiry' = [read EXCEPT !.area = {n}, !.ids = ids, !.left = ids]
        BY <1>3, <2>2
      <3>2. ids \subseteq inquiry.ids /\ ids \subseteq device_ids_under(tree, n)
        BY DEF NarrowTo
      <3>3. n \in area_filter(tree, inquiry.asked.q)
        OBVIOUS
      <3>4. ASSUME NEW d \in ids PROVE \E l : WasBelow(l, n) /\ Had(l, d)
        <4>1. PICK l \in DOMAIN inquiry.tree \cap DOMAIN Committed.nodes :
                      n \in inquiry.tree[l] /\ Committed.nodes[l].device = d
          BY <3>2, <3>3, TreeNarrows
        <4>2. version \in Since
          BY <1>1 DEF Since
        <4> QED BY <1>1, <4>1, <4>2 DEF Had, Committed
      <3> HIDE DEF ids, tree
      <3>5. /\ inquiry'.phase = "snapshots" /\ inquiry'.area = {n} /\ inquiry'.since = inquiry.since
            /\ inquiry'.ids = ids /\ inquiry'.scope = inquiry.scope /\ "phase" \in DOMAIN inquiry'
        BY <1>1, <3>1
      <3>6. WereBelow'
        <4>1. Since' = Since
          BY <1>1, <3>5 DEF Since
        <4>2. \A l : WasBelow(l, n)' = WasBelow(l, n) /\ \A d \in ids : Had(l, d)' = Had(l, d)
          BY <4>1 DEF WasBelow, Had
        <4> QED BY <3>4, <3>5, <4>2 DEF WereBelow
      <3> QED BY <1>1, <3>2, <3>5, <3>6 DEF Narrow
    <2> QED BY <2>1, <2>2
  <1> QED BY <1>2, <1>3 DEF ReadRows

\* A candidate that starts has found nothing; the others read within what they found.
LEMMA StartNarrows ==
    ASSUME Narrow, UNCHANGED version, NEW a, NEW todo, NEW since \in 1 .. version, inquiry' = Start(a, todo, since)
    PROVE  Narrow'
  <1>1. /\ inquiry'.phase = "scope" /\ inquiry'.since = since /\ inquiry'.area = {} /\ inquiry'.ids = {}
        /\ inquiry'.scope.devices = {} /\ "phase" \in DOMAIN inquiry'
    BY DEF Start
  <1> QED BY <1>1 DEF Narrow, WereBelow

LEMMA ScopeNarrows == ASSUME Narrow, ReadScope PROVE Narrow'
  <1>1. inquiry.phase = "scope" /\ inquiry.since \in 1 .. version /\ inquiry.area = {} /\ UNCHANGED version
    BY DEF Narrow, ReadScope, world
  <1> DEFINE nodes == Committed.nodes
             leaves == {n \in DOMAIN nodes : nodes[n].leaf /\ nodes[n].device \in Authorized}
             devices == {nodes[n].device : n \in leaves}
             c == Head(inquiry.todo)
             named == c \in {"fleet_health", "cctv_fleet"} /\ inquiry.asked.device # ""
             ids == IF named THEN {inquiry.asked.device} ELSE devices
             phase == IF ReadsTree(c, inquiry.asked.q) THEN "paths" ELSE "snapshots"
             left == IF ~ReadsSnapshots(c) THEN {} ELSE IF named THEN {inquiry.asked.device} ELSE devices
  <1>2. \/ inquiry' = End([kind |-> "declined"])
        \/ /\ inquiry' = [inquiry EXCEPT !.phase = phase, !.scope = [leaves |-> leaves, devices |-> devices],
                                         !.ids = ids, !.left = left]
           /\ ids \subseteq devices
    BY DEF ReadScope
  <1> HIDE DEF ids, devices, leaves, left
  <1>3. CASE inquiry' = End([kind |-> "declined"])
    BY <1>1, <1>3 DEF End, Narrow
  <1>4. CASE /\ inquiry' = [inquiry EXCEPT !.phase = phase, !.scope = [leaves |-> leaves, devices |-> devices],
                                          !.ids = ids, !.left = left]
             /\ ids \subseteq devices
    <2>1. /\ inquiry'.phase \in {"paths", "snapshots"} /\ inquiry'.since = inquiry.since /\ inquiry'.area = {}
          /\ inquiry'.ids = ids /\ inquiry'.scope.devices = devices
      BY <1>1, <1>4
    <2> QED BY <1>1, <1>4, <2>1 DEF Narrow, WereBelow
  <1> QED BY <1>2, <1>3, <1>4

LEMMA PathsNarrow == ASSUME Narrow, ReadPaths PROVE Narrow'
  <1>1. /\ inquiry.phase = "paths" /\ "phase" \in DOMAIN inquiry /\ inquiry.area = {}
        /\ inquiry.since \in 1 .. version /\ UNCHANGED version
    BY DEF Narrow, ReadPaths, world
  <1> DEFINE above == Committed.above
             tree == [l \in inquiry.scope.leaves |-> IF l \in DOMAIN above THEN above[l] ELSE {}]
  <1>2. inquiry' = [inquiry EXCEPT !.phase = "rows", !.tree = tree]
    BY DEF ReadPaths
  <1>3. \A l \in DOMAIN tree : \A n \in tree[l] : WasBelow(l, n)
    <2>1. version \in Since
      BY <1>1 DEF Since, Narrow
    <2> QED BY <2>1 DEF WasBelow, Committed
  <1> HIDE DEF tree
  <1>4. /\ inquiry'.phase = "rows" /\ inquiry'.since = inquiry.since /\ inquiry'.area = {} /\ inquiry'.tree = tree
        /\ inquiry'.ids = inquiry.ids /\ inquiry'.scope = inquiry.scope /\ "phase" \in DOMAIN inquiry'
    BY <1>1, <1>2
  <1>5. \A l, n : WasBelow(l, n)' = WasBelow(l, n)
    BY <1>1, <1>4 DEF WasBelow, Since
  <1> QED BY <1>1, <1>3, <1>4, <1>5 DEF Narrow, WereBelow

\* Steps after which what was found is the same.
LEMMA SameNarrows ==
    ASSUME Narrow, UNCHANGED version, inquiry.phase = "snapshots", inquiry'.phase \in {"snapshots", "answered"},
           inquiry'.since = inquiry.since, inquiry'.area = inquiry.area, inquiry'.ids = inquiry.ids,
           inquiry'.scope = inquiry.scope, DOMAIN inquiry' = DOMAIN inquiry
    PROVE  Narrow'
  <1>1. \A l, n : WasBelow(l, n)' = WasBelow(l, n) /\ Had(l, n)' = Had(l, n)
    BY DEF WasBelow, Had, Since
  <1>2. WereBelow'
    BY <1>1 DEF Narrow, WereBelow
  <1> QED BY <1>2 DEF Narrow

LEMMA NarrowStep == Narrow /\ [FleetNext]_fleetVars => Narrow'
  <1> SUFFICES ASSUME Narrow, [FleetNext]_fleetVars PROVE Narrow'
    OBVIOUS
  <1>1. ASSUME NEW a \in Inquiries, Inquire(a) PROVE Narrow'
    <2>1. version \in 1 .. version /\ UNCHANGED version
      BY <1>1 DEF Narrow, Inquire, world
    <2> QED BY <1>1, <2>1, StartNarrows DEF Inquire
  <1>2. CASE ReadSnapshot \/ FailSnapshots
    <2>1. inquiry.phase = "snapshots" /\ UNCHANGED version
      BY <1>2 DEF ReadSnapshot, FailSnapshots, world
    <2>3. PICK left, states : inquiry' = [inquiry EXCEPT !.left = left, !.states = states]
      BY <1>2 DEF ReadSnapshot, FailSnapshots
    <2>2. /\ inquiry'.phase = "snapshots" /\ inquiry'.since = inquiry.since /\ inquiry'.area = inquiry.area
          /\ inquiry'.ids = inquiry.ids /\ inquiry'.scope = inquiry.scope /\ DOMAIN inquiry' = DOMAIN inquiry
      BY <2>1, <2>3
    <2> QED BY <2>1, <2>2, SameNarrows
  <1>3. CASE Reply
    <2>1. /\ inquiry.phase = "snapshots" /\ UNCHANGED version /\ inquiry.since \in 1 .. version
          /\ \/ inquiry' = Start(inquiry.asked, Tail(inquiry.todo), inquiry.since)
             \/ \E data : inquiry' = [inquiry EXCEPT !.phase = "answered", !.answer = data]
      BY <1>3 DEF Reply, Say, world, Narrow
    <2>2. CASE inquiry' = Start(inquiry.asked, Tail(inquiry.todo), inquiry.since)
      BY <2>1, <2>2, StartNarrows
    <2>3. CASE \E data : inquiry' = [inquiry EXCEPT !.phase = "answered", !.answer = data]
      <3>2. PICK data : inquiry' = [inquiry EXCEPT !.phase = "answered", !.answer = data]
        BY <2>3
      <3>4. "phase" \in DOMAIN inquiry /\ DOMAIN inquiry' = DOMAIN inquiry
        BY <2>1, <3>2 DEF Narrow
      <3>1. inquiry'.phase = "answered"
        BY <3>2, <3>4
      <3>3. /\ inquiry'.since = inquiry.since /\ inquiry'.area = inquiry.area
            /\ inquiry'.ids = inquiry.ids /\ inquiry'.scope = inquiry.scope
        BY <3>2
      <3> QED BY <2>1, <3>1, <3>3, <3>4, SameNarrows
    <2> QED BY <2>1, <2>2, <2>3
  <1>4. CASE Reimport \/ (\E d \in DOMAIN Hashes : Resync(d) \/ Lapse(d)) \/ UNCHANGED fleetVars
    <2>1. UNCHANGED inquiry /\ (version' = version \/ (version' = version + 1 /\ version < Len(Hierarchies)))
      BY <1>4 DEF Reimport, Resync, Lapse, fleetVars
    <2> QED BY <2>1, WorldNarrows
  <1> QED BY <1>1, <1>2, <1>3, <1>4, ScopeNarrows, PathsNarrow, RowsNarrow DEF FleetNext

\* An answer about an area counts only devices of the caller's branches that were below it,
\* whatever is imported between the statements that read the closure and the rows, or
\* between two candidates for an answer.
THEOREM AreasAreNarrow == AssistantSpec => []NarrowedToArea
  <1>1. AssistantInit => Narrow
    BY NarrowInit DEF AssistantInit
  <1>2. Narrow /\ [AssistantNext]_assistantVars => Narrow'
    BY NarrowStep DEF AssistantNext, MetricStep, FleetStep, AlarmStep, GateStep, assistantVars
  <1> QED BY <1>1, <1>2, NarrowHolds, PTL DEF AssistantSpec

(***************************************************************************)
(* The gate.  Texts are read piece by piece.                               *)
(***************************************************************************)
Pieces == DOMAIN Width \cup {" "}
Texts == Seq(Pieces)

LEMMA TextFacts ==
    ASSUME NEW s \in Texts
    PROVE  /\ Len(s) \in Nat /\ <<>> \in Texts /\ \A k \in 1 .. Len(s) : s[k] \in Pieces
           /\ SubSeq(s, 1, 0) = <<>> /\ SubSeq(s, 1, Len(s)) = s /\ s \o <<>> = s
  BY DEF Texts

LEMMA AppendText ==
    ASSUME NEW u \in Texts, NEW v \in Texts, NEW x \in Pieces
    PROVE  /\ Append(v, x) \in Texts /\ u \o v \in Texts
           /\ Append(u \o v, x) = u \o Append(v, x)
  BY DEF Texts

LEMMA SubText ==
    ASSUME NEW s \in Texts, NEW k \in Nat, k + 1 <= Len(s)
    PROVE  Append(SubSeq(s, 1, k), s[k + 1]) = SubSeq(s, 1, k + 1)
  BY DEF Texts

LEMMA PartText ==
    ASSUME NEW u \in Texts, NEW v \in Texts, NEW w \in Texts
    PROVE  /\ SubSeq((u \o v) \o w, Len(u) + 1, (Len(u) + 1) + Len(v) - 1) = v
           /\ Len(u) + 1 \in 1 .. Len((u \o v) \o w) - Len(v) + 1
  BY DEF Texts

\* Compact keeps every piece but the blanks, one after the other.
LEMMA CompactUnfolds ==
    ASSUME NEW s \in Texts
    PROVE  \E f \in [0 .. Len(s) -> Texts] :
              /\ f[0] = <<>> /\ f[Len(s)] = Compact(s)
              /\ \A k \in 1 .. Len(s) : f[k] = IF s[k] = " " THEN f[k - 1] ELSE Append(f[k - 1], s[k])
  <1> DEFINE N == Len(s)
             step(out, x) == IF x = " " THEN out ELSE Append(out, x)
             g == [k \in Nat |-> [o \in Texts |-> IF k \in 1 .. N THEN step(o, s[k]) ELSE o]]
             Eq(f) == f = [k \in 0 .. N |-> IF k = 0 THEN <<>> ELSE step(f[k - 1], s[k])]
  <1>1. N \in Nat /\ <<>> \in Texts /\ \A k \in 1 .. N : s[k] \in Pieces
    BY TextFacts
  <1>2. ASSUME NEW o \in Texts, NEW x \in Pieces PROVE step(o, x) \in Texts
    BY <1>2, AppendText
  <1>3. Compact(s) = (CHOOSE f : Eq(f))[N]
    BY DEF Compact, Through
  <1> HIDE DEF step, N
  <1>4. StepsWithin(g, Texts)
    BY <1>1, <1>2 DEF StepsWithin
  <1>5. PICK e \in [0 .. N -> Texts] : Unfolding(e, <<>>, g, N)
    <2> HIDE DEF g
    <2> QED BY <1>1, <1>4, Unfolds
  <1>13. e[0] = <<>> /\ \A k \in 1 .. N : e[k] = g[k][e[k - 1]]
    <2> HIDE DEF g
    <2> QED BY <1>5 DEF Unfolding
  <1>6. ASSUME NEW k \in 1 .. N PROVE e[k] = step(e[k - 1], s[k])
    <2>1. k \in Nat /\ k - 1 \in 0 .. N
      BY <1>1
    <2>2. e[k - 1] \in Texts
      BY <2>1, <1>5
    <2> QED BY <2>1, <2>2, <1>13
  <1>7. Eq(e)
    <2>1. e = [k \in 0 .. N |-> e[k]]
      BY <1>5
    <2>2. ASSUME NEW k \in 0 .. N PROVE e[k] = IF k = 0 THEN <<>> ELSE step(e[k - 1], s[k])
      <3>1. k = 0 \/ k \in 1 .. N
        BY <1>1
      <3> QED BY <3>1, <1>13, <1>6
    <2> QED BY <2>1, <2>2
  <1> DEFINE f == CHOOSE f : Eq(f)
  <1>8. Eq(f)
    <2> HIDE DEF Eq
    <2> QED BY <1>7
  <1>9. f[N] = Compact(s)
    BY <1>3
  <1> HIDE DEF f
  <1>10. \A k \in 0 .. N : f[k] = IF k = 0 THEN <<>> ELSE step(f[k - 1], s[k])
    BY <1>8
  <1>11. f[0] = <<>> /\ \A k \in 1 .. N : f[k] = step(f[k - 1], s[k])
    <2>1. 0 \in 0 .. N /\ \A k \in 1 .. N : k \in 0 .. N /\ k # 0
      BY <1>1
    <2> QED BY <2>1, <1>10
  <1>12. f \in [0 .. N -> Texts]
    <2> DEFINE T == {k \in Nat : k <= N => f[k] \in Texts}
    <2>1. 0 \in T
      BY <1>1, <1>11
    <2>2. ASSUME NEW k \in Nat, k \in T PROVE k + 1 \in T
      <3> SUFFICES ASSUME k + 1 <= N PROVE f[k + 1] \in Texts
        OBVIOUS
      <3>1. f[k] \in Texts /\ k + 1 \in 1 .. N /\ (k + 1) - 1 = k
        BY <1>1, <2>2
      <3> QED BY <3>1, <1>1, <1>2, <1>11
    <2> HIDE DEF T
    <2>3. Nat \subseteq T
      BY <2>1, <2>2, Inductive
    <2>4. \A k \in 0 .. N : f[k] \in Texts
      BY <2>3, <1>1 DEF T
    <2>5. DOMAIN f = 0 .. N /\ f = [k \in 0 .. N |-> f[k]]
      BY <1>8
    <2> QED BY <2>4, <2>5
  <1> HIDE DEF Eq
  <1> QED BY <1>9, <1>11, <1>12 DEF step, N

\* Nothing is lost of a text without blanks.
Unbroken(s) == \A i \in 1 .. Len(s) : s[i] # " "

LEMMA CompactWhole ==
    ASSUME NEW s \in Texts, Unbroken(s)
    PROVE  Compact(s) = s
  <1> DEFINE N == Len(s)
  <1>1. PICK f \in [0 .. N -> Texts] :
           /\ f[0] = <<>> /\ f[N] = Compact(s)
           /\ \A k \in 1 .. N : f[k] = IF s[k] = " " THEN f[k - 1] ELSE Append(f[k - 1], s[k])
    BY CompactUnfolds
  <1>2. N \in Nat /\ SubSeq(s, 1, 0) = <<>> /\ SubSeq(s, 1, N) = s
    BY TextFacts
  <1>9. \A i \in 1 .. N : s[i] # " "
    BY DEF Unbroken
  <1>3. ASSUME NEW k \in Nat, k + 1 <= N PROVE Append(SubSeq(s, 1, k), s[k + 1]) = SubSeq(s, 1, k + 1)
    BY <1>3, SubText
  <1> HIDE DEF N
  <1> DEFINE T == {k \in Nat : k <= N => f[k] = SubSeq(s, 1, k)}
  <1>4. 0 \in T
    BY <1>1, <1>2
  <1>5. ASSUME NEW k \in Nat, k \in T PROVE k + 1 \in T
    <2>1. ASSUME k + 1 <= N PROVE f[k + 1] = SubSeq(s, 1, k + 1)
      <3>1. k + 1 \in 1 .. N /\ (k + 1) - 1 = k /\ k <= N
        BY <1>2, <2>1
      <3>2. f[k] = SubSeq(s, 1, k)
        BY <1>5, <3>1
      <3>3. f[k + 1] = Append(SubSeq(s, 1, k), s[k + 1])
        BY <1>1, <1>9, <3>1, <3>2
      <3> QED BY <2>1, <3>3, <1>3
    <2>2. k + 1 \in Nat
      OBVIOUS
    <2> QED BY <2>1, <2>2
  <1> HIDE DEF T
  <1>6. N \in T
    BY <1>2, <1>4, <1>5, Inductive
  <1>7. N <= N
    BY <1>2
  <1>8. f[N] = SubSeq(s, 1, N)
    BY <1>6, <1>7 DEF T
  <1> QED BY <1>1, <1>2, <1>8

\* What is part of a text is part of it when the blanks of both are left out: what comes before
\* the part, the part and what comes after it are read one after the other.
LEMMA CompactWithin ==
    ASSUME NEW p \in Texts, NEW t \in Texts, NEW i \in 1 .. Len(t) - Len(p) + 1, StartsAt(t, p, i)
    PROVE  Within(Compact(p), Compact(t))
  <1> DEFINE N == Len(t)
             M == Len(p)
             b == i - 1
  <1>1. PICK f \in [0 .. N -> Texts] :
           /\ f[0] = <<>> /\ f[N] = Compact(t)
           /\ \A k \in 1 .. N : f[k] = IF t[k] = " " THEN f[k - 1] ELSE Append(f[k - 1], t[k])
    BY CompactUnfolds
  <1>2. PICK h \in [0 .. M -> Texts] :
           /\ h[0] = <<>> /\ h[M] = Compact(p)
           /\ \A k \in 1 .. M : h[k] = IF p[k] = " " THEN h[k - 1] ELSE Append(h[k - 1], p[k])
    BY CompactUnfolds
  <1>3. N \in Nat /\ M \in Nat /\ b \in Nat /\ b + M <= N
    BY TextFacts
  <1>4. ASSUME NEW j \in 1 .. M PROVE p[j] = t[b + j]
    <2>1. SubSeq(t, i, i + Len(p) - 1)[j] = t[i + j - 1]
      BY DEF Texts
    <2>2. i + j - 1 = b + j
      BY <1>3
    <2> QED BY <2>1, <2>2 DEF StartsAt
  <1>5. (\A k \in 1 .. N : t[k] \in Pieces) /\ (\A k \in 1 .. M : p[k] \in Pieces)
    BY TextFacts
  <1> HIDE DEF N, M, b
  <1> DEFINE u == f[b]
             T == {j \in Nat : j <= M => f[b + j] = u \o h[j]}
             e == b + M
             R == {j \in Nat : e + j <= N => \E w \in Texts : f[e + j] = f[e] \o w}
  <1>6. b \in 0 .. N /\ e \in 0 .. N /\ u \in Texts /\ f[e] \in Texts
    <2>1. b \in 0 .. N /\ e \in 0 .. N
      BY <1>3
    <2> HIDE DEF e
    <2> QED BY <1>1, <2>1
  <1>7. 0 \in T
    <2>1. b + 0 = b
      BY <1>3
    <2>2. u \o <<>> = u
      BY <1>6, TextFacts
    <2> QED BY <1>2, <2>1, <2>2
  <1>8. ASSUME NEW j \in Nat, j \in T PROVE j + 1 \in T
    <2>7. j + 1 \in Nat
      OBVIOUS
    <2> SUFFICES ASSUME j + 1 <= M PROVE f[b + (j + 1)] = u \o h[j + 1]
      BY <2>7
    <2>1. /\ j <= M /\ j + 1 \in 1 .. M /\ (j + 1) - 1 = j /\ j \in 0 .. M
          /\ b + (j + 1) \in 1 .. N /\ (b + (j + 1)) - 1 = b + j
      BY <1>3
    <2>2. f[b + j] = u \o h[j] /\ h[j] \in Texts /\ p[j + 1] \in Pieces
      <3>1. f[b + j] = u \o h[j]
        BY <1>8, <2>1
      <3> QED BY <3>1, <1>2, <1>5, <2>1
    <2>3. p[j + 1] = t[b + (j + 1)]
      BY <2>1, <1>4
    <2>4. f[b + (j + 1)] = IF p[j + 1] = " " THEN u \o h[j] ELSE Append(u \o h[j], p[j + 1])
      BY <1>1, <2>1, <2>2, <2>3
    <2>5. h[j + 1] = IF p[j + 1] = " " THEN h[j] ELSE Append(h[j], p[j + 1])
      BY <1>2, <2>1
    <2> HIDE DEF u
    <2>6. Append(u \o h[j], p[j + 1]) = u \o Append(h[j], p[j + 1])
      BY <1>6, <2>2, AppendText, ZenonT(40)
    <2> QED BY <2>4, <2>5, <2>6
  <1>9. f[e] = u \o Compact(p) /\ Compact(p) \in Texts
    <2> HIDE DEF T
    <2>1. Nat \subseteq T
      BY <1>7, <1>8, Inductive
    <2>2. M \in T /\ M \in 0 .. M /\ M <= M
      BY <2>1, <1>3
    <2>3. f[e] = u \o h[M] /\ h[M] \in Texts
      BY <2>2, <1>2 DEF T
    <2> QED BY <2>3, <1>2
  <1> HIDE DEF u, T, e
  <1>10. 0 \in R
    <2>1. e + 0 = e
      BY <1>6
    <2>2. f[e] \o <<>> = f[e] /\ <<>> \in Texts
      BY <1>6, TextFacts
    <2> QED BY <2>1, <2>2
  <1>11. ASSUME NEW j \in Nat, j \in R PROVE j + 1 \in R
    <2> SUFFICES ASSUME e + (j + 1) <= N PROVE \E w \in Texts : f[e + (j + 1)] = f[e] \o w
      BY SMTT(30)
    <2>1. e + (j + 1) \in 1 .. N /\ (e + (j + 1)) - 1 = e + j /\ e + j <= N
      BY <1>3, <1>6
    <2>2. PICK w \in Texts : f[e + j] = f[e] \o w
      BY <1>11, <2>1
    <2>3. t[e + (j + 1)] \in Pieces
      BY <1>5, <2>1
    <2>4. f[e + (j + 1)] = IF t[e + (j + 1)] = " " THEN f[e] \o w ELSE Append(f[e] \o w, t[e + (j + 1)])
      BY <1>1, <2>1, <2>2
    <2> DEFINE head == f[e]
               x == t[e + (j + 1)]
    <2>5. head \in Texts /\ x \in Pieces
      BY <1>6, <2>3
    <2> HIDE DEF head, x
    <2>6. Append(head \o w, x) = head \o Append(w, x) /\ Append(w, x) \in Texts
      BY <2>5, AppendText, ZenonT(40)
    <2> QED BY <2>4, <2>6 DEF head, x
  <1>12. PICK w \in Texts : Compact(t) = (u \o Compact(p)) \o w
    <2>1. Nat \subseteq R
      <3> HIDE DEF R
      <3> QED BY <1>10, <1>11, Inductive
    <2>2. N - e \in Nat /\ e + (N - e) = N /\ N <= N
      BY <1>3, <1>6
    <2>3. \E w \in Texts : f[e + (N - e)] = f[e] \o w
      BY <2>1, <2>2
    <2> QED BY <2>2, <2>3, <1>1, <1>9
  <1> HIDE DEF R
  <1>13. /\ SubSeq(Compact(t), Len(u) + 1, (Len(u) + 1) + Len(Compact(p)) - 1) = Compact(p)
         /\ Len(u) + 1 \in 1 .. Len(Compact(t)) - Len(Compact(p)) + 1
    <2> DEFINE c == Compact(p)
    <2>1. u \in Texts /\ c \in Texts /\ w \in Texts /\ Compact(t) = (u \o c) \o w
      BY <1>6, <1>9, <1>12
    <2> HIDE DEF c
    <2>2. /\ SubSeq((u \o c) \o w, Len(u) + 1, (Len(u) + 1) + Len(c) - 1) = c
          /\ Len(u) + 1 \in 1 .. Len((u \o c) \o w) - Len(c) + 1
      BY <2>1, PartText
    <2> QED BY <2>1, <2>2 DEF c
  <1> QED BY <1>13 DEF Within, StartsAt

LEMMA AppendIsText == ASSUME NEW v \in Texts, NEW x \in Pieces PROVE Append(v, x) \in Texts
  BY DEF Texts

LEMMA SubIsText == ASSUME NEW v \in Texts, NEW a \in Nat \ {0}, NEW b \in Int, b <= Len(v) PROVE SubSeq(v, a, b) \in Texts
  BY DEF Texts

LEMMA PieceText == ASSUME NEW s \in Texts, NEW i \in 1 .. Len(s) PROVE SubSeq(s, i, i) = <<s[i]>>
  <1>1. /\ Len(SubSeq(s, i, i)) = 1 /\ SubSeq(s, i, i)[1] = s[i] /\ SubSeq(s, i, i) \in Texts
    BY DEF Texts
  <1> DEFINE p == SubSeq(s, i, i)
  <1> HIDE DEF p
  <1>2. p \in Texts /\ Len(p) = 1 => p = <<p[1]>>
    BY DEF Texts
  <1> QED BY <1>1, <1>2 DEF p

LEMMA TrimIsText == ASSUME NEW v \in Texts PROVE Trim(v) \in Texts
  <1>1. CASE v # <<>>
    <2>1. Len(v) - 1 \in Nat /\ Len(v) - 1 <= Len(v)
      BY <1>1 DEF Texts
    <2>2. Front(v) \in Texts
      BY <2>1, SubIsText DEF Front
    <2> QED BY <2>2 DEF Trim
  <1>2. CASE v = <<>>
    BY <1>2 DEF Trim
  <1> QED BY <1>1, <1>2

\* What is compared is a text.
LEMMA KeyIsText ==
    ASSUME NEW s \in Texts
    PROVE  normalize_key(s) \in Texts
  <1> DEFINE N == Len(s)
             Join(out, x) ==
                CASE x = Prefix -> out
                  [] x \in {" ", "-", "_"} -> IF out = <<>> \/ Last(out) = " " THEN out ELSE Append(out, " ")
                  [] OTHER -> Append(out, x)
             g == [k \in Nat |-> [o \in Texts |-> IF k \in 1 .. N THEN Join(o, s[k]) ELSE o]]
             Eq(f) == f = [k \in 0 .. N |-> IF k = 0 THEN <<>> ELSE Join(f[k - 1], s[k])]
             joined == (CHOOSE f : Eq(f))[N]
             key(out) == IF IsPrefix(<<"BRANCH", " ">>, out) THEN SubSeq(out, 3, Len(out)) ELSE out
  <1>1. N \in Nat /\ <<>> \in Texts /\ \A k \in 1 .. N : s[k] \in Pieces
    BY TextFacts
  <1>2. ASSUME NEW o \in Texts, NEW x \in Pieces PROVE Join(o, x) \in Texts
    <2>1. Append(o, x) \in Texts /\ Append(o, " ") \in Texts
      BY AppendIsText DEF Pieces
    <2> QED BY <2>1
  <1>3. normalize_key(s) = key(Trim(joined))
    BY DEF normalize_key, Through
  <1> HIDE DEF Join, N
  <1>4. StepsWithin(g, Texts)
    BY <1>1, <1>2 DEF StepsWithin
  <1>5. PICK e \in [0 .. N -> Texts] : Unfolding(e, <<>>, g, N)
    <2> HIDE DEF g
    <2> QED BY <1>1, <1>4, Unfolds
  <1>6. e[0] = <<>> /\ \A k \in 1 .. N : e[k] = g[k][e[k - 1]]
    <2> HIDE DEF g
    <2> QED BY <1>5 DEF Unfolding
  <1>7. ASSUME NEW k \in 1 .. N PROVE e[k] = Join(e[k - 1], s[k])
    <2>1. k \in Nat /\ k - 1 \in 0 .. N
      BY <1>1
    <2>2. e[k - 1] \in Texts
      BY <2>1, <1>5
    <2> QED BY <2>1, <2>2, <1>6
  <1>8. Eq(e)
    <2>1. e = [k \in 0 .. N |-> e[k]]
      BY <1>5
    <2>2. ASSUME NEW k \in 0 .. N PROVE e[k] = IF k = 0 THEN <<>> ELSE Join(e[k - 1], s[k])
      <3>1. k = 0 \/ k \in 1 .. N
        BY <1>1
      <3> QED BY <3>1, <1>6, <1>7
    <2> QED BY <2>1, <2>2
  <1> DEFINE f == CHOOSE f : Eq(f)
  <1>9. Eq(f)
    <2> HIDE DEF Eq
    <2> QED BY <1>8
  <1>10. joined = f[N]
    OBVIOUS
  <1> HIDE DEF f, joined
  <1>11. \A k \in 0 .. N : f[k] = IF k = 0 THEN <<>> ELSE Join(f[k - 1], s[k])
    BY <1>9
  <1> DEFINE T == {k \in Nat : k <= N => f[k] \in Texts}
  <1>12. 0 \in T
    <2>1. 0 \in 0 .. N
      BY <1>1
    <2>2. f[0] = <<>>
      BY <2>1, <1>11
    <2> QED BY <1>1, <2>2
  <1>13. ASSUME NEW k \in Nat, k \in T PROVE k + 1 \in T
    <2>1. k + 1 \in Nat
      OBVIOUS
    <2> SUFFICES ASSUME k + 1 <= N PROVE f[k + 1] \in Texts
      BY <2>1
    <2>2. k <= N /\ k + 1 \in 0 .. N /\ k + 1 \in 1 .. N /\ k + 1 # 0 /\ (k + 1) - 1 = k
      BY <1>1
    <2>3. f[k] \in Texts
      BY <2>2, <1>13
    <2>4. f[k + 1] = Join(f[k], s[k + 1])
      BY <2>2, <1>11
    <2> QED BY <2>2, <2>3, <2>4, <1>1, <1>2
  <1>14. joined \in Texts
    <2> HIDE DEF T
    <2>1. N \in T /\ N <= N
      BY <1>1, <1>12, <1>13, Inductive
    <2> QED BY <2>1, <1>10 DEF T
  <1>15. ASSUME NEW out \in Texts PROVE key(out) \in Texts
    <2>1. Len(out) \in Nat /\ Len(out) <= Len(out)
      BY TextFacts
    <2>3. 3 \in Nat \ {0}
      OBVIOUS
    <2>2. SubSeq(out, 3, Len(out)) \in Texts
      BY <2>1, <2>3, SubIsText
    <2> QED BY <2>2
  <1> HIDE DEF key
  <1> QED BY <1>3, <1>14, <1>15, TrimIsText

\* A branch the question spells: as a part of it, when both are spelled together.
LEMMA AliasIsText ==
    ASSUME NEW s \in Texts, NEW a \in alias_variants(s)
    PROVE  a \in Texts
  <1> DEFINE name == normalize_key(s)
  <1>1. name \in Texts
    BY KeyIsText
  <1> HIDE DEF name
  <1>2. ASSUME NEW v \in Texts PROVE Compact(v) \in Texts
    <2>1. PICK f \in [0 .. Len(v) -> Texts] : f[Len(v)] = Compact(v)
      BY CompactUnfolds
    <2>2. Len(v) \in 0 .. Len(v)
      BY TextFacts
    <2> QED BY <2>1, <2>2
  <1>3. ASSUME NEW x, x \in {<<" ", "TESTING", " ", "DEVICE">>, <<" ", "DEVICE">>}
        PROVE  Shorn(x, name) \in Texts
    <2>1. Len(x) \in {2, 4} /\ Len(name) \in Nat
      BY <1>1, <1>3, TextFacts
    <2>2. Len(name) - Len(x) \in Int /\ Len(name) - Len(x) <= Len(name)
      BY <2>1
    <2> QED BY <1>1, <2>2, SubIsText DEF Shorn
  <1> QED BY <1>1, <1>2, <1>3 DEF alias_variants, name

LEMMA SpelledIsPart ==
    ASSUME NEW q \in Texts, NEW a \in Texts, matches_explicit_alias(q, a)
    PROVE  Within(Compact(a), Compact(q))
  <1>1. CASE AsWords(a, q)
    BY <1>1, CompactWithin DEF AsWords
  <1>2. CASE ~Within(<<" ">>, a) /\ Within(a, Compact(q))
    <2>1. Unbroken(a)
      <3>1. ASSUME NEW i \in 1 .. Len(a), a[i] = " " PROVE FALSE
        <4> DEFINE N == Len(a)
        <4>1. Len(<<" ">>) = 1 /\ N \in Nat
          BY TextFacts
        <4>2. SubSeq(a, i, i) = <<" ">>
          BY <3>1, PieceText
        <4>3. i \in 1 .. N
          OBVIOUS
        <4> DEFINE one == Len(<<" ">>)
        <4>4. one = 1
          BY <4>1
        <4> HIDE DEF N, one
        <4>5. i \in 1 .. N - one + 1 /\ i + one - 1 = i
          BY <4>1, <4>3, <4>4
        <4>6. SubSeq(a, i, i + one - 1) = <<" ">>
          BY <4>2, <4>5
        <4>7. StartsAt(a, <<" ">>, i)
          BY <4>6 DEF StartsAt, one
        <4> QED BY <1>2, <4>5, <4>7 DEF Within, N, one
      <3> QED BY <3>1 DEF Unbroken
    <2> QED BY <1>2, <2>1, CompactWhole
  <1> QED BY <1>1, <1>2 DEF matches_explicit_alias

\* The branch of a question: of the directory that was read since it was asked, and spelled.
IsSpelled(row, q) ==
    \E a \in alias_variants(row.name) \cup alias_variants(row.id) : Within(Compact(a), Compact(normalize_key(q)))
IsNamed(directory, n) == n \in Branches(directory) /\ IsSpelled(directory[n], gate.q)

Gated ==
    /\ imported \in 1 .. Len(Directories)
    /\ gate.phase \in {"idle", "directory", "scope", "unnamed", "refused", "resolved", "answered", "denied"}
    /\ gate.phase \in {"directory", "scope", "resolved"} => "phase" \in DOMAIN gate
    /\ gate.phase \in {"directory", "scope", "resolved", "answered"} =>
          gate.since \in 1 .. imported /\ gate.q \in Sentences
    /\ gate.phase \in {"scope", "resolved", "answered"} => gate.directory \in gate.since .. imported
    /\ gate.phase \in {"resolved", "answered"} => IsNamed(Directories[gate.directory], gate.branch)
    /\ gate.phase = "answered" => DeviceOfGate \in gate.devices

LEMMA GatedAnswers == Gated => AnsweredAsNamed
  BY DEF Gated, AnsweredAsNamed, IsNamed, IsSpelled, DeviceOfGate

LEMMA GatedInit == GateInit => Gated
  <1>1. Len(Directories) \in Nat \ {0}
    BY GateAssumption
  <1>2. 1 \in 1 .. Len(Directories)
    BY <1>1
  <1> QED BY <1>2 DEF GateInit, Gated

LEMMA GivenIsText == ASSUME NEW s \in Seq(DOMAIN Width) PROVE s \in Texts
  <1> DEFINE W == DOMAIN Width
  <1>1. W \subseteq Pieces /\ s \in Seq(W)
    BY DEF Pieces
  <1> HIDE DEF W
  <1> QED BY <1>1 DEF Texts

LEMMA DirectoryTexts ==
    ASSUME NEW v \in 1 .. Len(Directories), NEW n \in DOMAIN Directories[v]
    PROVE  Directories[v][n].name \in Texts /\ Directories[v][n].id \in Texts
  BY GivenIsText, GateAssumption

LEMMA SentenceIsText == ASSUME NEW q \in Sentences PROVE q \in Texts
  BY GivenIsText, GateAssumption

LEMMA MatchedIsSpelled ==
    ASSUME NEW v \in 1 .. Len(Directories), NEW q \in Sentences, NEW scoped,
           NEW n \in Matched(Spelled(normalize_key(q), Directories[v], scoped))
    PROVE  n \in Branches(Directories[v]) /\ IsSpelled(Directories[v][n], q)
  <1> DEFINE directory == Directories[v]
             question == normalize_key(q)
             spelled == Spelled(question, directory, scoped)
  <1>1. question \in Texts
    BY KeyIsText, SentenceIsText
  <1>2. PICK m \in spelled : n = m[1]
    BY DEF Matched
  <1> HIDE DEF question
  <1>3. /\ n \in Branches(directory)
        /\ m[2] \in alias_variants(directory[n].name) \cup alias_variants(directory[n].id)
        /\ matches_explicit_alias(question, m[2])
    BY <1>2 DEF Spelled
  <1>4. m[2] \in Texts
    BY <1>3, DirectoryTexts, AliasIsText DEF Branches
  <1>5. Within(Compact(m[2]), Compact(question))
    BY <1>1, <1>3, <1>4, SpelledIsPart
  <1> QED BY <1>3, <1>5 DEF IsSpelled, question

LEMMA GatedStep == Gated /\ [GateNext]_gateVars => Gated'
  <1> SUFFICES ASSUME Gated, [GateNext]_gateVars PROVE Gated'
    OBVIOUS
  <1>1. ASSUME NEW q \in Sentences, NEW devices \in Callers, Approach(q, devices) PROVE Gated'
    <2>3. UNCHANGED imported
      BY <1>1 DEF Approach
    <2>4. imported \in Nat /\ 1 <= imported
      BY DEF Gated
    <2>1. imported \in 1 .. imported /\ UNCHANGED imported
      BY <2>3, <2>4
    <2>2. gate'.phase = "directory" /\ "phase" \in DOMAIN gate' /\ gate'.since = imported /\ gate'.q = q
      BY <1>1 DEF Approach
    <2> QED BY <2>1, <2>2 DEF Gated
  <1>2. CASE ReadDirectory
    <2>1. gate.phase = "directory" /\ "phase" \in DOMAIN gate /\ UNCHANGED imported
      BY <1>2 DEF ReadDirectory, Gated
    <2>2. CASE gate' = [gate EXCEPT !.phase = "unnamed"]
      <3>1. gate'.phase = "unnamed"
        BY <2>1, <2>2
      <3> QED BY <2>1, <3>1 DEF Gated
    <2>3. CASE gate' = [gate EXCEPT !.phase = "scope", !.directory = imported]
      <3>1. gate'.phase = "scope" /\ gate'.since = gate.since /\ gate'.q = gate.q /\ DOMAIN gate' = DOMAIN gate
        BY <2>1, <2>3
      <3>2. gate'.directory = imported
        BY <2>1, <2>3 DEF Gated
      <3> QED BY <2>1, <3>1, <3>2 DEF Gated
    <2> QED BY <1>2, <2>2, <2>3 DEF ReadDirectory
  <1>3. CASE ReadCallerScope
    <2>1. /\ gate.phase = "scope" /\ "phase" \in DOMAIN gate /\ UNCHANGED imported /\ gate.since \in 1 .. imported
          /\ gate.q \in Sentences /\ gate.directory \in gate.since .. imported
      BY <1>3 DEF ReadCallerScope, Gated
    <2>2. \/ \E p \in {"refused", "unnamed"} : gate' = [gate EXCEPT !.phase = p]
          \/ \E v \in 1 .. imported :
                \E n \in Matched(Spelled(normalize_key(gate.q), Directories[gate.directory], ScopeAt(v))) :
                   gate' = [gate EXCEPT !.phase = "resolved", !.scoped = ScopeAt(v), !.branch = n]
      BY <1>3 DEF ReadCallerScope
    <2>3. ASSUME NEW p \in {"refused", "unnamed"}, gate' = [gate EXCEPT !.phase = p] PROVE Gated'
      <3>1. gate'.phase = p
        BY <2>1, <2>3
      <3> QED BY <2>1, <2>3, <3>1 DEF Gated
    <2>4. ASSUME NEW v \in 1 .. imported,
                 NEW n \in Matched(Spelled(normalize_key(gate.q), Directories[gate.directory], ScopeAt(v))),
                 gate' = [gate EXCEPT !.phase = "resolved", !.scoped = ScopeAt(v), !.branch = n]
          PROVE  Gated'
      <3>1. gate.directory \in 1 .. Len(Directories)
        BY <2>1 DEF Gated
      <3>2. n \in Branches(Directories[gate.directory]) /\ IsSpelled(Directories[gate.directory][n], gate.q)
        BY <2>1, <2>4, <3>1, MatchedIsSpelled
      <3>3. /\ gate'.phase = "resolved" /\ gate'.since = gate.since /\ gate'.q = gate.q
            /\ gate'.directory = gate.directory /\ DOMAIN gate' = DOMAIN gate
        BY <2>1, <2>4
      <3>4. gate'.branch = n
        BY <2>4
      <3>5. IsNamed(Directories[gate.directory], gate.branch)'
        BY <3>2, <3>3, <3>4 DEF IsNamed
      <3> QED BY <2>1, <3>3, <3>5 DEF Gated
    <2> QED BY <2>2, <2>3, <2>4
  <1>4. CASE CheckDevice
    <2>1. /\ gate.phase = "resolved" /\ "phase" \in DOMAIN gate /\ UNCHANGED imported /\ gate.since \in 1 .. imported
          /\ gate.q \in Sentences /\ gate.directory \in gate.since .. imported
          /\ IsNamed(Directories[gate.directory], gate.branch)
      BY <1>4 DEF CheckDevice, Gated
    <2>2. PICK v \in 1 .. imported : gate' = [gate EXCEPT !.phase = IF Admits(v) THEN "answered" ELSE "denied"]
      BY <1>4 DEF CheckDevice
    <2>3. Admits(v) => DeviceOfGate \in gate.devices
      BY DEF Admits, ScopeAt
    <2>4. gate'.phase = IF Admits(v) THEN "answered" ELSE "denied"
      BY <2>1, <2>2
    <2>5. /\ gate'.since = gate.since /\ gate'.q = gate.q /\ gate'.directory = gate.directory
          /\ gate'.branch = gate.branch /\ gate'.devices = gate.devices
      BY <2>2
    <2>6. IsNamed(Directories[gate.directory], gate.branch)' /\ DeviceOfGate' = DeviceOfGate
      BY <2>1, <2>5 DEF IsNamed, DeviceOfGate
    <2> QED BY <2>1, <2>3, <2>4, <2>5, <2>6 DEF Gated
  <1>5. CASE ImportAgain \/ UNCHANGED gateVars
    <2>1. /\ UNCHANGED gate
          /\ imported' = imported \/ (imported' = imported + 1 /\ imported < Len(Directories))
      BY <1>5 DEF ImportAgain, gateVars
    <2>2. imported' \in 1 .. Len(Directories) /\ imported <= imported'
      BY <2>1 DEF Gated
    <2>3. IsNamed(Directories[gate.directory], gate.branch)' = IsNamed(Directories[gate.directory], gate.branch)
          /\ DeviceOfGate' = DeviceOfGate
      BY <2>1 DEF IsNamed, DeviceOfGate
    <2> QED BY <2>1, <2>2, <2>3 DEF Gated
  <1> QED BY <1>1, <1>2, <1>3, <1>4, <1>5 DEF GateNext

\* A question that names a branch is answered from a device of the caller, and from that of a
\* branch that it spells, whatever is imported between the reads of the directory and the two of
\* the scope.
THEOREM NamesAreKept == AssistantSpec => []AnsweredAsNamed
  <1>1. AssistantInit => Gated
    BY GatedInit DEF AssistantInit
  <1>2. Gated /\ [AssistantNext]_assistantVars => Gated'
    BY GatedStep DEF AssistantNext, MetricStep, FleetStep, AlarmStep, GateStep, assistantVars
  <1> QED BY <1>1, <1>2, GatedAnswers, PTL DEF AssistantSpec

(***************************************************************************)
(* The figures of the fleet.  A report adds numbers up along its           *)
(* categories, columns or rows; each of these sums is the number of pairs  *)
(* of a category and a device that has a module of it.                     *)
(***************************************************************************)
\* A row of a relation has as many pairs as members.
LEMMA RowCounts ==
    ASSUME NEW x, NEW Y, IsFiniteSet(Y)
    PROVE  /\ Cardinality({x} \X Y) = Cardinality(Y) /\ Cardinality(Y \X {x}) = Cardinality(Y)
           /\ IsFiniteSet({x} \X Y) /\ IsFiniteSet(Y \X {x})
  <1>1. IsFiniteSet({x}) /\ Cardinality({x}) = 1 /\ Cardinality(Y) \in Nat
    BY FS_Singleton, FS_CardinalityType
  <1>2. Cardinality({x} \X Y) = 1 * Cardinality(Y) /\ Cardinality(Y \X {x}) = Cardinality(Y) * 1
    BY <1>1, FS_Product
  <1> QED BY <1>1, <1>2, FS_Product

\* A set written down in some order has the members it had.
LEMMA ListedInOrder ==
    ASSUME NEW S, IsFiniteSet(S)
    PROVE  /\ SeqSet(SetToSeq(S)) = S /\ IsInjective(SetToSeq(S))
           /\ Cardinality(S) \in Nat /\ DOMAIN SetToSeq(S) = 1 .. Cardinality(S)
  <1>1. PICK n \in Nat : n = Cardinality(S) /\ ExistsBijection(1 .. n, S)
    BY FS_CardinalityType
  <1>2. IsFiniteSet(1 .. n) /\ Cardinality(1 .. n) = n
    BY <1>1, FS_Interval
  <1>3. \E f \in [1 .. n -> S] : IsInjective(f)
    BY <1>1 DEF ExistsBijection, Bijection, Injection
  <1>4. PICK s : s = SetToSeq(S)
    OBVIOUS
  <1>5. s \in [1 .. n -> S] /\ IsInjective(s)
    BY <1>1, <1>3, <1>4 DEF SetToSeq
  <1>6. s \in Injection(1 .. n, S)
    BY <1>5 DEF Injection
  <1>7. s \in Surjection(1 .. n, S)
    BY <1>1, <1>2, <1>6, FS_Injection
  <1>8. {s[i] : i \in DOMAIN s} = S
    BY <1>5, <1>7 DEF Surjection
  <1> QED BY <1>1, <1>4, <1>5, <1>8 DEF SeqSet

\* Sums of the reports are sums in this sense.
LEMMA ColumnSum ==
    ASSUME NEW summary, NEW k
    PROVE  FleetColumn(summary, k) = Summed([c \in Categories |-> summary.categories[c][k]])
  <1> DEFINE S == Categories
             f == [c \in S |-> summary.categories[c][k]]
             Body(it) == [U \in SUBSET S |-> IF U = {} THEN 0
                            ELSE LET x == CHOOSE x \in U : TRUE IN summary.categories[x][k] + it[U \ {x}]]
  <1> HIDE DEF S
  <1>1. ASSUME NEW it PROVE (it = Body(it)) <=> Adds(it, f)
    BY ZenonT(40) DEF Adds
  <1>2. (CHOOSE it : it = Body(it)) = CHOOSE it : Adds(it, f)
    <2> HIDE DEF Body, f
    <2> QED BY <1>1
  <1>3. FleetColumn(summary, k) = (CHOOSE it : it = Body(it))[S]
    BY DEF FleetColumn, Total, MapThenSumSet, MapThenFoldSet, S
  <1>4. DOMAIN f = S
    OBVIOUS
  <1> HIDE DEF Body
  <1> QED BY <1>2, <1>3, <1>4 DEF Summed, S

LEMMA FleetSum ==
    ASSUME NEW summary
    PROVE  FleetTotal(summary) = Summed([k \in CategoryColumns |-> FleetColumn(summary, k)])
  <1> DEFINE S == CategoryColumns
             f == [k \in CategoryColumns |-> FleetColumn(summary, k)]
             Body(it) == [U \in SUBSET S |-> IF U = {} THEN 0
                            ELSE LET x == CHOOSE x \in U : TRUE IN FleetColumn(summary, x) + it[U \ {x}]]
  <1>1. FleetTotal(summary) = (CHOOSE it : it = Body(it))[S]
    BY DEF FleetTotal, Total, MapThenSumSet, MapThenFoldSet
  <1> HIDE DEF S
  <1>2. ASSUME NEW it PROVE (it = Body(it)) <=> Adds(it, f)
    BY ZenonT(40) DEF Adds, S
  <1>3. (CHOOSE it : it = Body(it)) = CHOOSE it : Adds(it, f)
    <2> HIDE DEF Body, f
    <2> QED BY <1>2
  <1>4. DOMAIN f = S
    BY DEF S
  <1> HIDE DEF Body
  <1> QED BY <1>1, <1>3, <1>4 DEF Summed

\* The totals and the healthy modules of some rows.
TotalOf(D, counts) == Total(D, LAMBDA b : counts[b].total)
HealthyOf(D, counts) == Total(D, LAMBDA b : counts[b].healthy)

LEMMA TotalSum ==
    ASSUME NEW D, NEW counts
    PROVE  TotalOf(D, counts) = Summed([b \in D |-> counts[b].total])
  <1> DEFINE f == [b \in D |-> counts[b].total]
             Body(it) == [U \in SUBSET D |-> IF U = {} THEN 0
                            ELSE LET x == CHOOSE x \in U : TRUE IN counts[x].total + it[U \ {x}]]
  <1>1. TotalOf(D, counts) = (CHOOSE it : it = Body(it))[D]
    BY DEF TotalOf, Total, MapThenSumSet, MapThenFoldSet
  <1>2. ASSUME NEW it PROVE (it = Body(it)) <=> Adds(it, f)
    BY ZenonT(40) DEF Adds
  <1>3. (CHOOSE it : it = Body(it)) = CHOOSE it : Adds(it, f)
    <2> HIDE DEF Body, f
    <2> QED BY <1>2
  <1>4. DOMAIN f = D
    OBVIOUS
  <1> HIDE DEF Body
  <1> QED BY <1>1, <1>3, <1>4 DEF Summed

LEMMA HealthySum ==
    ASSUME NEW D, NEW counts
    PROVE  HealthyOf(D, counts) = Summed([b \in D |-> counts[b].healthy])
  <1> DEFINE f == [b \in D |-> counts[b].healthy]
             Body(it) == [U \in SUBSET D |-> IF U = {} THEN 0
                            ELSE LET x == CHOOSE x \in U : TRUE IN counts[x].healthy + it[U \ {x}]]
  <1>1. HealthyOf(D, counts) = (CHOOSE it : it = Body(it))[D]
    BY DEF HealthyOf, Total, MapThenSumSet, MapThenFoldSet
  <1>2. ASSUME NEW it PROVE (it = Body(it)) <=> Adds(it, f)
    BY ZenonT(40) DEF Adds
  <1>3. (CHOOSE it : it = Body(it)) = CHOOSE it : Adds(it, f)
    <2> HIDE DEF Body, f
    <2> QED BY <1>2
  <1>4. DOMAIN f = D
    OBVIOUS
  <1> HIDE DEF Body
  <1> QED BY <1>1, <1>3, <1>4 DEF Summed

\* No two devices have the same row, and the devices with a module in a column.
Named(snaps, ids) == \A d, e \in ids : RowName(snaps, d) = RowName(snaps, e) => d = e
Holding(snaps, ids, c, k) ==
    {d \in ids : c \in DOMAIN Modules(snaps, d) /\ ColumnOf(Modules(snaps, d)[c]) = k}

\* The categories and rows of a summary.
LEMMA SummaryFacts ==
    ASSUME NEW snaps, NEW ids, IsFiniteSet(ids), NEW s, s = aggregate_fleet_health(snaps, SetToSeq(ids))
    PROVE  /\ \A c \in Categories, k \in CategoryColumns : s.categories[c][k] = Cardinality(Holding(snaps, ids, c, k))
           /\ DOMAIN s.branches = {RowName(snaps, d) : d \in ids}
           /\ Cardinality(DOMAIN s.branches) = Cardinality(ids) => Named(snaps, ids)
           /\ Named(snaps, ids) => \A d \in ids : s.branches[RowName(snaps, d)] = Modules(snaps, d)
  <1>1. PICK q : /\ q = SetToSeq(ids) /\ SeqSet(q) = ids /\ IsInjective(q)
                   /\ Cardinality(ids) \in Nat /\ DOMAIN q = 1 .. Cardinality(ids)
    BY ListedInOrder
  <1> DEFINE states == [d \in ids |-> Modules(snaps, d)]
             held(c, column) == {d \in ids : c \in DOMAIN states[d] /\ ColumnOf(states[d][c]) = column}
             last(name) == q[Max({i \in DOMAIN q : RowName(snaps, q[i]) = name})]
             categories == [c \in Categories |-> [k \in CategoryColumns |-> Cardinality(held(c, k))]]
             branches == [name \in {RowName(snaps, d) : d \in ids} |-> states[last(name)]]
  <1>2. s.categories = categories /\ s.branches = branches
    BY <1>1 DEF aggregate_fleet_health
  <1>3. ASSUME NEW c \in Categories, NEW k \in CategoryColumns
        PROVE  s.categories[c][k] = Cardinality(Holding(snaps, ids, c, k))
    <2>1. held(c, k) = Holding(snaps, ids, c, k)
      BY DEF Holding
    <2>2. categories[c][k] = Cardinality(held(c, k))
      OBVIOUS
    <2> HIDE DEF categories, held
    <2> QED BY <1>2, <2>1, <2>2
  <1>4. DOMAIN s.branches = {RowName(snaps, d) : d \in ids}
    BY <1>2
  <1>5. ASSUME Cardinality(DOMAIN s.branches) = Cardinality(ids)
        PROVE  Named(snaps, ids)
    <2> DEFINE f == [d \in ids |-> RowName(snaps, d)]
    <2>1. f \in Surjection(ids, DOMAIN s.branches)
      BY <1>4 DEF Surjection
    <2> HIDE DEF f
    <2>2. f \in Injection(ids, DOMAIN s.branches)
      BY <2>1, <1>5, FS_Surjection
    <2> QED BY <2>2 DEF Injection, IsInjective, Named, f
  <1>6. ASSUME Named(snaps, ids), NEW d \in ids
        PROVE  s.branches[RowName(snaps, d)] = Modules(snaps, d)
    <2> DEFINE I == {i \in DOMAIN q : RowName(snaps, q[i]) = RowName(snaps, d)}
    <2>1. PICK j \in DOMAIN q : q[j] = d
      BY <1>1 DEF SeqSet
    <2>2. \A i \in I : q[i] = d
      BY <1>1, <1>6 DEF Named, SeqSet
    <2>3. j \in I
      BY <2>1
    <2>4. Max(I) \in I
      <3>1. I = {j}
        BY <2>1, <2>2, <2>3, <1>1 DEF IsInjective
      <3>2. j \in Nat
        BY <1>1
      <3> HIDE DEF I
      <3> QED BY <3>1, <3>2 DEF Max
    <2>5. last(RowName(snaps, d)) = d
      BY <2>2, <2>4
    <2> QED BY <1>2, <2>5
  <1> QED BY <1>3, <1>4, <1>5, <1>6

\* The modules of a device are among the categories, and each is in one column.
LEMMA ModulesAre == ASSUME NEW snaps, NEW d PROVE DOMAIN Modules(snaps, d) \subseteq Categories
  BY DEF Modules, Categories

LEMMA ColumnsAre ==
    ASSUME NEW state
    PROVE  ColumnOf(state) \in CategoryColumns /\ (ColumnOf(state) = "healthy" <=> state = ONLINE)
           /\ (ColumnOf(state) = "offline" <=> state = OFFLINE)
  BY DEF ColumnOf, CategoryColumns, ONLINE, OFFLINE, FAULT

LEMMA CategoriesFinite == IsFiniteSet(Categories) /\ IsFiniteSet(CategoryColumns)
  <1>1. IsFiniteSet({})
    BY FS_EmptySet
  <1>2. \A S, x : IsFiniteSet(S) => IsFiniteSet(S \cup {x})
    BY FS_AddElement
  <1>3. Categories = ((((((({} \cup {"gateway"}) \cup {"cctv"}) \cup {"ias"}) \cup {"bas"}) \cup {"fas"}) \cup {"timeLock"}) \cup {"accessControl"})
    BY DEF Categories, Subsystems
  <1>4. CategoryColumns = (((({} \cup {"healthy"}) \cup {"faulty"}) \cup {"offline"}) \cup {"unknown"})
    BY DEF CategoryColumns
  <1>5. IsFiniteSet(CategoryColumns)
    BY <1>1, <1>2, <1>4, Zenon
  <1>6. IsFiniteSet(Categories)
    BY <1>1, <1>2, <1>3, Zenon
  <1> QED BY <1>5, <1>6

\* The modules of a fleet, and those in a column.
Held(snaps, ids) == {p \in Categories \X ids : p[1] \in DOMAIN Modules(snaps, p[2])}
HeldIn(snaps, ids, k) == {p \in Held(snaps, ids) : ColumnOf(Modules(snaps, p[2])[p[1]]) = k}

LEMMA HeldFinite ==
    ASSUME NEW snaps, NEW ids, IsFiniteSet(ids)
    PROVE  IsFiniteSet(Held(snaps, ids)) /\ \A k : IsFiniteSet(HeldIn(snaps, ids, k))
  <1>1. IsFiniteSet(Categories \X ids)
    BY CategoriesFinite, FS_Product
  <1>2. Held(snaps, ids) \in SUBSET (Categories \X ids) /\ \A k : HeldIn(snaps, ids, k) \in SUBSET (Categories \X ids)
    BY DEF Held, HeldIn
  <1> QED BY <1>1, <1>2, FS_Subset

LEMMA ColumnCounts ==
    ASSUME NEW snaps, NEW ids, IsFiniteSet(ids), NEW s, s = aggregate_fleet_health(snaps, SetToSeq(ids)),
           NEW k \in CategoryColumns
    PROVE  FleetColumn(s, k) = Cardinality(HeldIn(snaps, ids, k))
  <1> DEFINE R == HeldIn(snaps, ids, k)
             g == [p \in R |-> p[1]]
             f == [c \in Categories |-> s.categories[c][k]]
  <1>1. IsFiniteSet(R) /\ IsFiniteSet(DOMAIN f)
    BY HeldFinite, CategoriesFinite
  <1>2. \A p \in R : g[p] \in DOMAIN f
    BY DEF HeldIn, Held
  <1>3. ASSUME NEW c \in DOMAIN f PROVE f[c] = Cardinality({p \in R : g[p] = c})
    <2>1. {p \in R : g[p] = c} = {c} \X Holding(snaps, ids, c, k)
      BY DEF HeldIn, Held, Holding
    <2>2. IsFiniteSet(Holding(snaps, ids, c, k))
      BY FS_Subset DEF Holding
    <2>3. Cardinality({c} \X Holding(snaps, ids, c, k)) = Cardinality(Holding(snaps, ids, c, k))
      BY <2>2, RowCounts
    <2>4. s.categories[c][k] = Cardinality(Holding(snaps, ids, c, k))
      BY SummaryFacts
    <2> QED BY <2>1, <2>3, <2>4
  <1>4. Summed(f) = Cardinality(R)
    <2> HIDE DEF R, g, f
    <2> QED BY <1>1, <1>2, <1>3, SumCounts
  <1> QED BY <1>4, ColumnSum

LEMMA TotalCounts ==
    ASSUME NEW snaps, NEW ids, IsFiniteSet(ids), NEW s, s = aggregate_fleet_health(snaps, SetToSeq(ids))
    PROVE  FleetTotal(s) = Cardinality(Held(snaps, ids))
  <1> DEFINE R == Held(snaps, ids)
             g == [p \in R |-> ColumnOf(Modules(snaps, p[2])[p[1]])]
             f == [k \in CategoryColumns |-> FleetColumn(s, k)]
  <1>1. IsFiniteSet(R) /\ IsFiniteSet(DOMAIN f)
    BY HeldFinite, CategoriesFinite
  <1>2. \A p \in R : g[p] \in DOMAIN f
    BY ColumnsAre
  <1>3. ASSUME NEW k \in DOMAIN f PROVE f[k] = Cardinality({p \in R : g[p] = k})
    <2>1. {p \in R : g[p] = k} = HeldIn(snaps, ids, k)
      BY DEF HeldIn
    <2>2. FleetColumn(s, k) = Cardinality(HeldIn(snaps, ids, k))
      BY ColumnCounts
    <2> QED BY <2>1, <2>2
  <1>4. Summed(f) = Cardinality(R)
    <2> HIDE DEF R, g, f
    <2> QED BY <1>1, <1>2, <1>3, SumCounts
  <1> QED BY <1>4, FleetSum

\* Two sets with nothing in common count as many as both.
LEMMA Apart ==
    ASSUME NEW A, NEW B, IsFiniteSet(A), IsFiniteSet(B), A \cap B = {}
    PROVE  /\ IsFiniteSet(A \cup B) /\ Cardinality(A) \in Nat /\ Cardinality(B) \in Nat
           /\ Cardinality(A \cup B) = Cardinality(A) + Cardinality(B)
  <1>1. PICK a, b, n \in Nat : a = Cardinality(A) /\ b = Cardinality(B) /\ n = Cardinality(A \cup B)
    BY FS_CardinalityType, FS_Union
  <1>2. Cardinality(A \cap B) = 0
    BY FS_EmptySet
  <1>3. IsFiniteSet(A \cup B) /\ Cardinality(A \cup B) = Cardinality(A) + Cardinality(B) - Cardinality(A \cap B)
    BY FS_Union
  <1>4. n = a + b - 0
    BY <1>1, <1>2, <1>3
  <1>5. n = a + b
    BY <1>4
  <1> QED BY <1>1, <1>3, <1>5

\* Where every device has a row of its own, the rows count every module once.
LEMMA RowsAddUp ==
    ASSUME NEW snaps, NEW ids, IsFiniteSet(ids), NEW s, s = aggregate_fleet_health(snaps, SetToSeq(ids)),
           Cardinality(DOMAIN s.branches) = Cardinality(ids), NEW counts, counts = branch_rows(s)
    PROVE  /\ TotalOf(DOMAIN counts, counts) = Cardinality(Held(snaps, ids))
           /\ HealthyOf(DOMAIN counts, counts) = Cardinality(HeldIn(snaps, ids, "healthy"))
  <1> DEFINE M(d) == Modules(snaps, d)
             name(d) == RowName(snaps, d)
             D == {name(d) : d \in ids}
  <1>1. /\ DOMAIN s.branches = D /\ Named(snaps, ids) /\ \A d \in ids : s.branches[name(d)] = M(d)
    BY SummaryFacts
  <1>2. DOMAIN counts = D
    BY <1>1 DEF branch_rows
  <1>3. ASSUME NEW d \in ids
        PROVE  /\ counts[name(d)].total = Cardinality(DOMAIN M(d))
               /\ counts[name(d)].healthy = Cardinality({c \in DOMAIN M(d) : M(d)[c] = ONLINE})
    <2>1. name(d) \in DOMAIN s.branches /\ s.branches[name(d)] = M(d)
      BY <1>1
    <2> HIDE DEF M, name
    <2> QED BY <2>1 DEF branch_rows
  <1>4. IsFiniteSet(D)
    <2> DEFINE f == [d \in ids |-> name(d)]
    <2>1. f \in Surjection(ids, D)
      BY DEF Surjection
    <2> HIDE DEF f, D
    <2> QED BY <2>1, FS_Surjection
  <1>5. ASSUME NEW d \in ids
        PROVE  IsFiniteSet(DOMAIN M(d)) /\ \A T \in SUBSET DOMAIN M(d) : IsFiniteSet(T)
    BY ModulesAre, CategoriesFinite, FS_Subset
  <1>6. Summed([b \in D |-> counts[b].total]) = Cardinality(Held(snaps, ids))
    <2> DEFINE R == Held(snaps, ids)
               g == [p \in R |-> name(p[2])]
               f == [b \in D |-> counts[b].total]
    <2>1. IsFiniteSet(R) /\ IsFiniteSet(DOMAIN f)
      BY HeldFinite, <1>4
    <2>2. \A p \in R : g[p] \in DOMAIN f
      BY DEF Held
    <2>3. ASSUME NEW b \in DOMAIN f PROVE f[b] = Cardinality({p \in R : g[p] = b})
      <3>1. PICK d \in ids : b = name(d)
        OBVIOUS
      <3> DEFINE Y == DOMAIN M(d)
      <3>2. \A p \in R : g[p] = b <=> p[2] = d
        BY <3>1, <1>1 DEF Held, Named
      <3>3. R = {p \in Categories \X ids : p[1] \in DOMAIN M(p[2])}
        BY DEF Held
      <3>4. Y \subseteq Categories /\ IsFiniteSet(Y) /\ counts[b].total = Cardinality(Y)
        BY <1>3, <1>5, <3>1, ModulesAre
      <3> HIDE DEF R, g, M
      <3>5. {p \in R : g[p] = b} = Y \X {d}
        BY <3>2, <3>3, <3>4
      <3> HIDE DEF Y
      <3>6. Cardinality(Y \X {d}) = Cardinality(Y)
        BY <3>4, RowCounts
      <3> QED BY <3>4, <3>5, <3>6
    <2> HIDE DEF R, g, f, D
    <2>4. Summed(f) = Cardinality(R)
      BY <2>1, <2>2, <2>3, SumCounts
    <2> QED BY <2>4 DEF R, f
  <1>7. Summed([b \in D |-> counts[b].healthy]) = Cardinality(HeldIn(snaps, ids, "healthy"))
    <2> DEFINE R == HeldIn(snaps, ids, "healthy")
               g == [p \in R |-> name(p[2])]
               f == [b \in D |-> counts[b].healthy]
               online(d) == {c \in DOMAIN M(d) : M(d)[c] = ONLINE}
    <2>1. IsFiniteSet(R) /\ IsFiniteSet(DOMAIN f)
      BY HeldFinite, <1>4
    <2>2. \A p \in R : g[p] \in DOMAIN f
      BY DEF Held, HeldIn
    <2>3. ASSUME NEW b \in DOMAIN f PROVE f[b] = Cardinality({p \in R : g[p] = b})
      <3>1. PICK d \in ids : b = name(d)
        OBVIOUS
      <3>4. \A p \in Held(snaps, ids) : ColumnOf(Modules(snaps, p[2])[p[1]]) = "healthy" <=> M(p[2])[p[1]] = ONLINE
        BY ColumnsAre
      <3>2. {p \in R : g[p] = b} = online(d) \X {d}
        BY <3>1, <3>4, <1>1, ModulesAre DEF Held, HeldIn, Named
      <3>3. Cardinality(online(d) \X {d}) = Cardinality(online(d))
        <4>1. IsFiniteSet(online(d))
          BY <1>5
        <4> HIDE DEF online
        <4> QED BY <4>1, RowCounts
      <3>5. counts[b].healthy = Cardinality(online(d))
        BY <3>1, <1>3
      <3> HIDE DEF online
      <3> QED BY <3>2, <3>3, <3>5
    <2> HIDE DEF R, g, f, D
    <2>4. Summed(f) = Cardinality(R)
      BY <2>1, <2>2, <2>3, SumCounts
    <2> QED BY <2>4 DEF R, f
  <1> HIDE DEF D
  <1>8. TotalOf(D, counts) = Summed([b \in D |-> counts[b].total])
    BY TotalSum
  <1>9. HealthyOf(D, counts) = Summed([b \in D |-> counts[b].healthy])
    BY HealthySum
  <1> QED BY <1>2, <1>6, <1>7, <1>8, <1>9

\* Every device is one gateway.
LEMMA GatewayCounts ==
    ASSUME NEW states, NEW ids, IsFiniteSet(ids), DOMAIN states \subseteq ids,
           NEW s, s = aggregate_fleet_health(Each(states, "snap"), SetToSeq(ids))
    PROVE  LET g == s.categories["gateway"]
               o == GlobalOverview(states, ids)
           IN  /\ g.healthy = o.online /\ g.offline = o.offline
               /\ g.faulty + g.unknown = o.other + o.no_data
  <1> DEFINE snaps == Each(states, "snap")
             H(k) == Holding(snaps, ids, "gateway", k)
             in(state) == {d \in DOMAIN states : states[d].snap.gateway.state = state}
             g == s.categories["gateway"]
  <1>1. \A k \in CategoryColumns : g[k] = Cardinality(H(k))
    BY SummaryFacts DEF Categories
  <1>2. ASSUME NEW d \in ids
        PROVE  /\ "gateway" \in DOMAIN Modules(snaps, d)
               /\ Modules(snaps, d)["gateway"] = IF d \in DOMAIN states THEN states[d].snap.gateway.state ELSE UNKNOWN
    BY DEF Modules, Each
  <1>3. H("healthy") = in(ONLINE) /\ H("offline") = in(OFFLINE)
    <2>1. ONLINE # UNKNOWN /\ OFFLINE # UNKNOWN
      BY DEF ONLINE, OFFLINE, UNKNOWN
    <2> HIDE DEF snaps
    <2> QED BY <1>2, <2>1, ColumnsAre DEF Holding
  <1>4. /\ ids = ((H("healthy") \cup H("offline")) \cup H("faulty")) \cup H("unknown")
        /\ H("healthy") \cap H("offline") = {}
        /\ (H("healthy") \cup H("offline")) \cap H("faulty") = {}
        /\ ((H("healthy") \cup H("offline")) \cup H("faulty")) \cap H("unknown") = {}
    <2>1. \A d \in ids : ColumnOf(Modules(snaps, d)["gateway"]) \in {"healthy", "offline", "faulty", "unknown"}
      BY ColumnsAre DEF CategoryColumns
    <2> HIDE DEF snaps
    <2> QED BY <1>2, <2>1 DEF Holding
  <1>5. \A k : IsFiniteSet(H(k)) /\ Cardinality(H(k)) \in Nat
    BY FS_Subset, FS_CardinalityType DEF Holding
  <1>6. Cardinality(ids) = Cardinality(H("healthy")) + Cardinality(H("offline")) + Cardinality(H("faulty")) + Cardinality(H("unknown"))
    <2> HIDE DEF H
    <2>1. PICK A, B, C, E : A = H("healthy") /\ B = H("offline") /\ C = H("faulty") /\ E = H("unknown")
      OBVIOUS
    <2>2. IsFiniteSet(A) /\ IsFiniteSet(B) /\ IsFiniteSet(C) /\ IsFiniteSet(E)
      BY <1>5, <2>1
    <2>3. ids = ((A \cup B) \cup C) \cup E /\ A \cap B = {} /\ (A \cup B) \cap C = {} /\ ((A \cup B) \cup C) \cap E = {}
      BY <1>4, <2>1
    <2>4. IsFiniteSet(A \cup B) /\ Cardinality(A \cup B) = Cardinality(A) + Cardinality(B)
      BY <2>2, <2>3, Apart
    <2>5. IsFiniteSet((A \cup B) \cup C) /\ Cardinality((A \cup B) \cup C) = Cardinality(A \cup B) + Cardinality(C)
      BY <2>2, <2>3, <2>4, Apart
    <2>6. Cardinality(((A \cup B) \cup C) \cup E) = Cardinality((A \cup B) \cup C) + Cardinality(E)
      BY <2>2, <2>3, <2>5, Apart
    <2>11. Cardinality(ids) = Cardinality(A) + Cardinality(B) + Cardinality(C) + Cardinality(E)
      BY <2>3, <2>4, <2>5, <2>6
    <2> QED BY <2>1, <2>11
  <1>7. g.healthy = Cardinality(in(ONLINE)) /\ g.offline = Cardinality(in(OFFLINE))
        /\ g.healthy = Cardinality(H("healthy")) /\ g.offline = Cardinality(H("offline"))
        /\ g.faulty = Cardinality(H("faulty")) /\ g.unknown = Cardinality(H("unknown"))
    <2>1. {"healthy", "offline", "faulty", "unknown"} \subseteq CategoryColumns
      BY DEF CategoryColumns
    <2> HIDE DEF H, in
    <2> QED BY <1>1, <1>3, <2>1
  <1>8. Cardinality(ids) \in Nat /\ Cardinality(DOMAIN states) \in Nat
    BY FS_Subset, FS_CardinalityType
  <1> DEFINE o == GlobalOverview(states, ids)
  <1>9. /\ o.online = Cardinality(in(ONLINE)) /\ o.offline = Cardinality(in(OFFLINE))
        /\ o.other = Cardinality(DOMAIN states) - Cardinality(in(ONLINE)) - Cardinality(in(OFFLINE))
        /\ o.no_data = Cardinality(ids) - Cardinality(DOMAIN states)
    BY DEF GlobalOverview
  <1>10. \A k : Cardinality(H(k)) \in Nat
    BY <1>5
  <1> HIDE DEF H, in, g, o
  <1>11. g.faulty + g.unknown = o.other + o.no_data
    <2>1. PICK a, b, c, e, all, found \in Nat :
             /\ a = Cardinality(H("healthy")) /\ b = Cardinality(H("offline")) /\ c = Cardinality(H("faulty"))
             /\ e = Cardinality(H("unknown")) /\ all = Cardinality(ids) /\ found = Cardinality(DOMAIN states)
      BY <1>8, <1>10
    <2>2. all = a + b + c + e
      BY <1>6, <2>1
    <2>3. g.faulty = c /\ g.unknown = e /\ o.other = found - a - b /\ o.no_data = all - found
      BY <1>7, <1>9, <2>1
    <2> QED BY <2>1, <2>2, <2>3
  <1> QED BY <1>7, <1>9, <1>11 DEF g, o

\* So the two reports agree.
LEMMA SameNumbers ==
    ASSUME NEW states, NEW ids, IsFiniteSet(ids), DOMAIN states \subseteq ids,
           AnsweredBy("fleet_health") => inquiry.answer.summary = Summary(states, ids),
           states = inquiry.states, ids = inquiry.ids
    PROVE  SameFleetSameNumbers
  <1> SUFFICES ASSUME AnsweredBy("fleet_health") PROVE SameFleetSameNumbers
    BY DEF SameFleetSameNumbers
  <1> DEFINE s == inquiry.answer.summary
             snaps == Each(states, "snap")
             counts == branch_rows(s)
             g == s.categories["gateway"]
             o == GlobalOverview(states, ids)
  <1>1. s = aggregate_fleet_health(snaps, SetToSeq(ids))
    BY DEF Summary
  <1>2. g.healthy = o.online /\ g.offline = o.offline /\ g.faulty + g.unknown = o.other + o.no_data
    BY <1>1, GatewayCounts
  <1>3. DOMAIN counts = DOMAIN s.branches
    BY DEF branch_rows
  <1> HIDE DEF s, counts, snaps, g, o
  <1>4. ASSUME Cardinality(DOMAIN counts) = Cardinality(ids)
        PROVE  /\ FleetTotal(s) = TotalOf(DOMAIN counts, counts)
               /\ FleetColumn(s, "healthy") = HealthyOf(DOMAIN counts, counts)
    <2>1. TotalOf(DOMAIN counts, counts) = Cardinality(Held(snaps, ids))
          /\ HealthyOf(DOMAIN counts, counts) = Cardinality(HeldIn(snaps, ids, "healthy"))
      BY <1>1, <1>3, <1>4, RowsAddUp DEF counts
    <2>2. FleetTotal(s) = Cardinality(Held(snaps, ids))
      BY <1>1, TotalCounts
    <2>3. FleetColumn(s, "healthy") = Cardinality(HeldIn(snaps, ids, "healthy"))
      BY <1>1, ColumnCounts DEF CategoryColumns
    <2> QED BY <2>1, <2>2, <2>3
  <1>5. ASSUME Cardinality(DOMAIN counts) = Cardinality(ids)
        PROVE  /\ FleetTotal(s) = Total(DOMAIN counts, LAMBDA b : counts[b].total)
               /\ FleetColumn(s, "healthy") = Total(DOMAIN counts, LAMBDA b : counts[b].healthy)
    BY <1>4, <1>5 DEF TotalOf, HealthyOf
  <1>6. SameFleetSameNumbers
    BY <1>2, <1>5 DEF SameFleetSameNumbers, s, counts, g, o
  <1> QED BY <1>6

\* An import has finitely many rows.
FiniteNodes == \A i \in 1 .. Len(Hierarchies) : IsFiniteSet(DOMAIN Hierarchies[i].nodes)

LEMMA AssumedFinite == FiniteNodes
  BY FleetAssumption DEF FiniteNodes

\* What a question has while it is open: its devices are finitely many, only they have states,
\* and the answer is made of the states it still holds.
OpenPhases == {"scope", "paths", "rows", "snapshots", "answered"}
Reckoned ==
    /\ inquiry.phase \in OpenPhases =>
          /\ {"phase", "tree", "states", "ids", "left", "answer"} \subseteq DOMAIN inquiry
          /\ IsFiniteSet(inquiry.ids) /\ inquiry.left \subseteq inquiry.ids /\ DOMAIN inquiry.states \subseteq inquiry.ids
    /\ inquiry.phase \in {"scope", "paths", "rows"} => DOMAIN inquiry.states = {}
    /\ AnsweredBy("fleet_health") => inquiry.answer.summary = Summary(inquiry.states, inquiry.ids)
    /\ AnsweredBy("area_ranking") =>
          inquiry.answer \in area_ranking(inquiry.asked.q, inquiry.tree, inquiry.states, inquiry.ids)

LEMMA ReckonedInit == FleetInit => Reckoned
  BY DEF FleetInit, Reckoned, OpenPhases, AnsweredBy

\* Every step keeps this.
LEMMA StartReckons ==
    ASSUME NEW a, NEW todo, NEW since, inquiry' = Start(a, todo, since)
    PROVE  Reckoned'
  <1>1. /\ inquiry'.phase = "scope" /\ inquiry'.ids = {} /\ inquiry'.left = {} /\ inquiry'.states = <<>>
        /\ {"phase", "tree", "states", "ids", "left", "answer"} \subseteq DOMAIN inquiry'
    BY DEF Start
  <1>2. IsFiniteSet({}) /\ DOMAIN <<>> = {}
    BY FS_EmptySet
  <1> QED BY <1>1, <1>2 DEF Reckoned, AnsweredBy

LEMMA EndReckons ==
    ASSUME NEW data, inquiry' = End(data)
    PROVE  Reckoned'
  <1>1. inquiry'.phase = "told"
    BY DEF End
  <1> QED BY <1>1 DEF Reckoned, AnsweredBy, OpenPhases

\* The devices of an import are finitely many.
LEMMA DevicesFinite ==
    ASSUME NEW nodes, IsFiniteSet(DOMAIN nodes), NEW leaves \in SUBSET DOMAIN nodes
    PROVE  IsFiniteSet({nodes[n].device : n \in leaves})
  <1> DEFINE T == {nodes[n].device : n \in leaves}
             f == [n \in leaves |-> nodes[n].device]
  <1>1. f \in Surjection(leaves, T) /\ IsFiniteSet(leaves)
    BY FS_Subset DEF Surjection
  <1> HIDE DEF f, T
  <1>2. IsFiniteSet(T)
    BY <1>1, FS_Surjection
  <1> QED BY <1>2 DEF T

LEMMA ScopeReckons == ASSUME FiniteNodes, Narrow, Reckoned, ReadScope PROVE Reckoned'
  <1>1. inquiry.phase = "scope" /\ version \in 1 .. Len(Hierarchies)
    BY DEF Narrow, ReadScope
  <1> DEFINE nodes == Committed.nodes
             leaves == {n \in DOMAIN nodes : nodes[n].leaf /\ nodes[n].device \in Authorized}
             devices == {nodes[n].device : n \in leaves}
             c == Head(inquiry.todo)
             named == c \in {"fleet_health", "cctv_fleet"} /\ inquiry.asked.device # ""
             ids == IF named THEN {inquiry.asked.device} ELSE devices
             phase == IF ReadsTree(c, inquiry.asked.q) THEN "paths" ELSE "snapshots"
             left == IF ~ReadsSnapshots(c) THEN {} ELSE IF named THEN {inquiry.asked.device} ELSE devices
             scope == [leaves |-> leaves, devices |-> devices]
  <1>2. \/ inquiry' = End([kind |-> "declined"])
        \/ inquiry' = [inquiry EXCEPT !.phase = phase, !.scope = scope, !.ids = ids, !.left = left]
    BY DEF ReadScope
  <1>3. IsFiniteSet(devices)
    <2>1. IsFiniteSet(DOMAIN nodes)
      BY <1>1 DEF FiniteNodes, Committed
    <2>2. leaves \in SUBSET DOMAIN nodes
      OBVIOUS
    <2> HIDE DEF nodes, leaves
    <2> QED BY <2>1, <2>2, DevicesFinite
  <1>4. IsFiniteSet({inquiry.asked.device})
    BY FS_Singleton
  <1>5. IsFiniteSet(ids) /\ left \subseteq ids
    BY <1>3, <1>4
  <1>6. phase \in {"paths", "snapshots"}
    OBVIOUS
  <1> HIDE DEF ids, left, scope, phase
  <1>7. CASE inquiry' = End([kind |-> "declined"])
    BY <1>7, EndReckons
  <1>8. CASE inquiry' = [inquiry EXCEPT !.phase = phase, !.scope = scope, !.ids = ids, !.left = left]
    <2>1. /\ {"phase", "tree", "states", "ids", "left", "answer"} \subseteq DOMAIN inquiry
          /\ DOMAIN inquiry.states = {}
      BY <1>1 DEF Reckoned, OpenPhases
    <2>2. /\ inquiry'.phase = phase /\ inquiry'.ids = ids /\ inquiry'.left = left /\ inquiry'.states = inquiry.states
          /\ DOMAIN inquiry' = DOMAIN inquiry
      BY <1>8, <2>1
    <2> QED BY <1>5, <1>6, <2>1, <2>2 DEF Reckoned, AnsweredBy
  <1> QED BY <1>2, <1>7, <1>8

LEMMA PathsReckon == ASSUME Reckoned, ReadPaths PROVE Reckoned'
  <1>1. PICK tree : inquiry' = [inquiry EXCEPT !.phase = "rows", !.tree = tree]
    BY DEF ReadPaths
  <1>2. inquiry.phase = "paths"
    BY DEF ReadPaths
  <1>3. /\ {"phase", "tree", "states", "ids", "left", "answer"} \subseteq DOMAIN inquiry
        /\ DOMAIN inquiry.states = {} /\ IsFiniteSet(inquiry.ids) /\ inquiry.left \subseteq inquiry.ids
    BY <1>2 DEF Reckoned, OpenPhases
  <1>4. /\ inquiry'.phase = "rows" /\ inquiry'.ids = inquiry.ids /\ inquiry'.left = inquiry.left
        /\ inquiry'.states = inquiry.states /\ DOMAIN inquiry' = DOMAIN inquiry
    BY <1>1, <1>3
  <1> QED BY <1>3, <1>4 DEF Reckoned, AnsweredBy

LEMMA RowsReckon == ASSUME Reckoned, ReadRows PROVE Reckoned'
  <1> DEFINE tree == load_scoped_tree(inquiry.tree, Committed.nodes, inquiry.scope.devices)
             read == [inquiry EXCEPT !.phase = "snapshots", !.tree = tree]
             areas == IF Head(inquiry.todo) = "fleet_health" THEN area_filter(tree, inquiry.asked.q) ELSE {}
  <1>1. inquiry.phase = "rows"
    BY DEF ReadRows
  <1>2. /\ {"phase", "tree", "states", "ids", "left", "answer"} \subseteq DOMAIN inquiry
        /\ DOMAIN inquiry.states = {} /\ IsFiniteSet(inquiry.ids) /\ inquiry.left \subseteq inquiry.ids
    BY <1>1 DEF Reckoned, OpenPhases
  <1>3. CASE inquiry' = read
    <2>1. /\ inquiry'.phase = "snapshots" /\ inquiry'.ids = inquiry.ids /\ inquiry'.left = inquiry.left
          /\ inquiry'.states = inquiry.states /\ DOMAIN inquiry' = DOMAIN inquiry
      BY <1>2, <1>3
    <2> QED BY <1>2, <2>1 DEF Reckoned, AnsweredBy
  <1>4. ASSUME NEW n \in areas, inquiry' = LET ids == NarrowTo(inquiry.ids, tree, n)
                                            IN  IF ids = {} THEN End([kind |-> "nothing below"])
                                                ELSE [read EXCEPT !.area = {n}, !.ids = ids, !.left = ids]
        PROVE Reckoned'
    <2> DEFINE ids == NarrowTo(inquiry.ids, tree, n)
    <2>1. CASE ids = {}
      BY <1>4, <2>1, EndReckons
    <2>2. CASE ids # {}
      <3>1. inquiry' = [read EXCEPT !.area = {n}, !.ids = ids, !.left = ids]
        BY <1>4, <2>2
      <3>2. ids \in SUBSET inquiry.ids
        BY DEF NarrowTo
      <3>3. IsFiniteSet(ids)
        BY <1>2, <3>2, FS_Subset
      <3> HIDE DEF ids, tree
      <3>4. /\ inquiry'.phase = "snapshots" /\ inquiry'.ids = ids /\ inquiry'.left = ids
            /\ inquiry'.states = inquiry.states /\ DOMAIN inquiry' = DOMAIN inquiry
        BY <1>2, <3>1
      <3> QED BY <1>2, <3>3, <3>4 DEF Reckoned, AnsweredBy
    <2> QED BY <2>1, <2>2
  <1> QED BY <1>3, <1>4 DEF ReadRows

LEMMA SnapshotsReckon == ASSUME Reckoned, ReadSnapshot \/ FailSnapshots PROVE Reckoned'
  <1>1. inquiry.phase = "snapshots"
    BY DEF ReadSnapshot, FailSnapshots
  <1>2. /\ {"phase", "tree", "states", "ids", "left", "answer"} \subseteq DOMAIN inquiry
        /\ DOMAIN inquiry.states \subseteq inquiry.ids /\ IsFiniteSet(inquiry.ids) /\ inquiry.left \subseteq inquiry.ids
    BY <1>1 DEF Reckoned, OpenPhases
  <1>3. PICK left, states :
           /\ inquiry' = [inquiry EXCEPT !.left = left, !.states = states]
           /\ left \subseteq inquiry.left /\ DOMAIN states \subseteq inquiry.ids
    <2>1. CASE FailSnapshots
      <3>1. DOMAIN <<>> = {}
        OBVIOUS
      <3> QED BY <2>1, <3>1 DEF FailSnapshots
    <2>2. CASE ReadSnapshot
      <3> DEFINE d == CHOOSE d \in inquiry.left : TRUE
                 one == [e \in {d} |-> View(hashes[d], d)]
                 states == IF d \in DOMAIN hashes THEN With(one, inquiry.states) ELSE inquiry.states
      <3>1. d \in inquiry.left
        BY <2>2 DEF ReadSnapshot
      <3>2. inquiry' = [inquiry EXCEPT !.left = inquiry.left \ {d}, !.states = states]
        BY <2>2, <1>2 DEF ReadSnapshot
      <3>3. DOMAIN With(one, inquiry.states) = {d} \cup DOMAIN inquiry.states
        BY DEF With
      <3> HIDE DEF d, one
      <3>4. DOMAIN states \subseteq inquiry.ids
        BY <1>2, <3>1, <3>3
      <3> HIDE DEF states
      <3> QED BY <3>2, <3>4
    <2> QED BY <2>1, <2>2
  <1>4. /\ inquiry'.phase = "snapshots" /\ inquiry'.ids = inquiry.ids /\ inquiry'.left = left
        /\ inquiry'.states = states /\ DOMAIN inquiry' = DOMAIN inquiry
    BY <1>1, <1>2, <1>3
  <1> QED BY <1>2, <1>3, <1>4 DEF Reckoned, AnsweredBy, OpenPhases

LEMMA ReplyReckons == ASSUME Reckoned, Reply PROVE Reckoned'
  <1> DEFINE summary == Summary(inquiry.states, inquiry.ids)
             replies == Replies(inquiry, Head(inquiry.todo), inquiry.asked.q, summary)
  <1>1. inquiry.phase = "snapshots"
    BY DEF Reply
  <1>2. /\ {"phase", "tree", "states", "ids", "left", "answer"} \subseteq DOMAIN inquiry
        /\ DOMAIN inquiry.states \subseteq inquiry.ids /\ IsFiniteSet(inquiry.ids) /\ inquiry.left \subseteq inquiry.ids
    BY <1>1 DEF Reckoned, OpenPhases
  <1>3. \/ inquiry' = Start(inquiry.asked, Tail(inquiry.todo), inquiry.since)
        \/ \E data \in replies : inquiry' = [inquiry EXCEPT !.phase = "answered", !.answer = data]
    BY DEF Reply, Say
  <1>4. CASE inquiry' = Start(inquiry.asked, Tail(inquiry.todo), inquiry.since)
    BY <1>4, StartReckons
  <1>5. ASSUME NEW data \in replies, inquiry' = [inquiry EXCEPT !.phase = "answered", !.answer = data]
        PROVE  Reckoned'
    <2>1. ASSUME Head(inquiry.todo) = "fleet_health" PROVE data.summary = summary
      <3> HIDE DEF summary
      <3>1. replies = {FleetHealth(inquiry, summary)}
        BY <2>1 DEF Replies
      <3> QED BY <3>1 DEF FleetHealth
    <2>2. ASSUME Head(inquiry.todo) = "area_ranking"
          PROVE data \in area_ranking(inquiry.asked.q, inquiry.tree, inquiry.states, inquiry.ids)
      <3> HIDE DEF summary
      <3> QED BY <2>2 DEF Replies
    <2> HIDE DEF replies
    <2>3. /\ inquiry'.phase = "answered" /\ inquiry'.ids = inquiry.ids /\ inquiry'.left = inquiry.left
          /\ inquiry'.states = inquiry.states /\ inquiry'.answer = data /\ inquiry'.todo = inquiry.todo
          /\ inquiry'.asked = inquiry.asked /\ inquiry'.tree = inquiry.tree /\ DOMAIN inquiry' = DOMAIN inquiry
      BY <1>2, <1>5
    <2> HIDE DEF summary
    <2>4. AnsweredBy("fleet_health")' => inquiry'.answer.summary = summary
      BY <2>1, <2>3 DEF AnsweredBy
    <2>5. AnsweredBy("area_ranking")' =>
            inquiry'.answer \in area_ranking(inquiry'.asked.q, inquiry'.tree, inquiry'.states, inquiry'.ids)
      BY <2>2, <2>3 DEF AnsweredBy
    <2>6. summary = Summary(inquiry'.states, inquiry'.ids)
      BY <2>3 DEF summary
    <2> QED BY <1>2, <2>3, <2>4, <2>5, <2>6 DEF Reckoned, OpenPhases
  <1> HIDE DEF replies
  <1> QED BY <1>3, <1>4, <1>5

LEMMA ReckonedStep == FiniteNodes /\ Narrow /\ Reckoned /\ [FleetNext]_fleetVars => Reckoned'
  <1> SUFFICES ASSUME FiniteNodes, Narrow, Reckoned, [FleetNext]_fleetVars PROVE Reckoned'
    OBVIOUS
  <1>1. ASSUME NEW a \in Inquiries, Inquire(a) PROVE Reckoned'
    BY <1>1, StartReckons DEF Inquire
  <1>2. CASE UNCHANGED inquiry
    BY <1>2 DEF Reckoned, AnsweredBy, OpenPhases
  <1>3. CASE Reimport \/ (\E d \in DOMAIN Hashes : Resync(d) \/ Lapse(d)) \/ UNCHANGED fleetVars
    BY <1>2, <1>3 DEF Reimport, Resync, Lapse, fleetVars
  <1> QED BY <1>1, <1>3, ScopeReckons, PathsReckon, RowsReckon, SnapshotsReckon, ReplyReckons DEF FleetNext

\* The overview and the health report of the same snapshots tell the same numbers, and where every
\* device has a row of its own the rows add up to the totals, for any devices and snapshots.
THEOREM NumbersAgree == AssistantSpec => []SameFleetSameNumbers
  <1>1. AssistantInit => Narrow /\ Reckoned
    BY NarrowInit, ReckonedInit DEF AssistantInit
  <1>2. Narrow /\ Reckoned /\ [AssistantNext]_assistantVars => Narrow' /\ Reckoned'
    <2>1. [AssistantNext]_assistantVars => [FleetNext]_fleetVars
      BY DEF AssistantNext, MetricStep, FleetStep, AlarmStep, GateStep, assistantVars
    <2> QED BY <2>1, NarrowStep, ReckonedStep, AssumedFinite
  <1>3. Reckoned => SameFleetSameNumbers
    <2> SUFFICES ASSUME Reckoned, AnsweredBy("fleet_health") PROVE SameFleetSameNumbers
      BY DEF SameFleetSameNumbers
    <2>1. /\ IsFiniteSet(inquiry.ids) /\ DOMAIN inquiry.states \subseteq inquiry.ids
          /\ inquiry.answer.summary = Summary(inquiry.states, inquiry.ids)
      BY DEF Reckoned, AnsweredBy, OpenPhases
    <2> QED BY <2>1, SameNumbers
  <1> QED BY <1>1, <1>2, <1>3, PTL DEF AssistantSpec

(***************************************************************************)
(* The totals of the areas.  The answer ranks rows joined to the tree by   *)
(* the words of a name; where these tell the leaves apart, the rows of an  *)
(* area are its devices, and each column comes to what they count.         *)
(***************************************************************************)

\* The table of an area, their columns, and what a column comes to.
RowsOf(table, area_of, a) == {i \in DOMAIN table : place(table[i].branch, area_of) = {a}}
ColumnsOf(table) == UNION {DOMAIN table[i].counts : i \in DOMAIN table}
CountsOver(table, S, c) == MapThenSumSet(LAMBDA i : table[i].counts[c], S)

\* A column of a table comes to the sum of its rows.
LEMMA CountsSum ==
    ASSUME NEW table, NEW S, NEW c
    PROVE  CountsOver(table, S, c) = Summed([i \in S |-> table[i].counts[c]])
  <1> DEFINE f == [i \in S |-> table[i].counts[c]]
             Body(it) == [U \in SUBSET S |-> IF U = {} THEN 0
                            ELSE LET x == CHOOSE x \in U : TRUE IN table[x].counts[c] + it[U \ {x}]]
  <1>1. CountsOver(table, S, c) = (CHOOSE it : it = Body(it))[S]
    BY DEF CountsOver, MapThenSumSet, MapThenFoldSet
  <1>2. ASSUME NEW it PROVE (it = Body(it)) <=> Adds(it, f)
    BY ZenonT(40) DEF Adds
  <1>3. (CHOOSE it : it = Body(it)) = CHOOSE it : Adds(it, f)
    <2> HIDE DEF Body, f
    <2> QED BY <1>2
  <1>4. DOMAIN f = S
    OBVIOUS
  <1> HIDE DEF Body
  <1> QED BY <1>1, <1>3, <1>4 DEF Summed

LEMMA RatesAre == ASSUME NEW r \in Rates
    PROVE  (r.name = "health_pct" /\ r.whole = "total") \/ (r.name = "recording_pct" /\ r.whole = "total_channels")
  BY DEF Rates

\* An area of the rolled-up table has the columns of the rows, each the sum over the area's rows.
LEMMA RolledUp ==
    ASSUME NEW table, NEW area_of, NEW up, up = roll_up(table, area_of)
    PROVE  /\ \A a : a \in DOMAIN up <=> \E i \in DOMAIN table : a \in place(table[i].branch, area_of)
           /\ \A a \in DOMAIN up : up[a].branches = Cardinality(RowsOf(table, area_of, a))
           /\ \A a \in DOMAIN up : ColumnsOf(table) \cup {"branches"} \subseteq DOMAIN up[a]
           /\ \A a \in DOMAIN up : \A c \in DOMAIN up[a] \ ColumnsOf(table) :
                \/ c = "branches"
                \/ c = "health_pct" /\ "total" \in ColumnsOf(table)
                \/ c = "recording_pct" /\ "total_channels" \in ColumnsOf(table)
           /\ \A a \in DOMAIN up : \A c \in ColumnsOf(table) : c \notin {"branches", "health_pct", "recording_pct"} =>
                up[a][c] = CountsOver(table, RowsOf(table, area_of, a), c)
  <1> DEFINE of(a) == {i \in DOMAIN table : place(table[i].branch, area_of) = {a}}
             total(a, c) == MapThenSumSet(LAMBDA i : table[i].counts[c], of(a))
             columns == UNION {DOMAIN table[i].counts : i \in DOMAIN table}
             rated(a) == {r \in Rates : r.whole \in columns /\ total(a, r.whole) > 0}
             figure(a, c) ==
                 IF \E r \in rated(a) : r.name = c
                 THEN LET r == CHOOSE r \in rated(a) : r.name = c IN Permille(total(a, r.part), total(a, r.whole))
                 ELSE IF c = "branches" THEN Cardinality(of(a)) ELSE total(a, c)
             areas == UNION {place(table[i].branch, area_of) : i \in DOMAIN table}
             shown(a) == columns \cup {"branches"} \cup {r.name : r \in rated(a)}
  <1>1. up = [a \in areas |-> [c \in shown(a) |-> figure(a, c)]]
    BY DEF roll_up
  <1>2. ASSUME NEW a, NEW c, c \notin {"health_pct", "recording_pct"}
        PROVE  figure(a, c) = IF c = "branches" THEN Cardinality(of(a)) ELSE total(a, c)
    <2>1. ~ \E r \in rated(a) : r.name = c
      <3> HIDE DEF columns, total
      <3> QED BY <1>2, RatesAre
    <2> HIDE DEF rated, total, of
    <2> QED BY <2>1
  <1>3. ASSUME NEW a, NEW c \in shown(a) \ columns
        PROVE  \/ c = "branches"
               \/ c = "health_pct" /\ "total" \in columns
               \/ c = "recording_pct" /\ "total_channels" \in columns
    <2> HIDE DEF columns, total
    <2> QED BY RatesAre
  <1>4. columns = ColumnsOf(table) /\ \A a : of(a) = RowsOf(table, area_of, a)
    BY DEF ColumnsOf, RowsOf
  <1>5. ASSUME NEW a, NEW c PROVE total(a, c) = CountsOver(table, RowsOf(table, area_of, a), c)
    BY DEF CountsOver, RowsOf
  <1> HIDE DEF figure, areas, of, total, columns, rated
  <1>6. ASSUME NEW a \in areas
        PROVE  /\ up[a].branches = Cardinality(RowsOf(table, area_of, a))
               /\ ColumnsOf(table) \cup {"branches"} \subseteq DOMAIN up[a]
               /\ \A c \in DOMAIN up[a] \ ColumnsOf(table) :
                    \/ c = "branches"
                    \/ c = "health_pct" /\ "total" \in ColumnsOf(table)
                    \/ c = "recording_pct" /\ "total_channels" \in ColumnsOf(table)
               /\ \A c \in ColumnsOf(table) : c \notin {"branches", "health_pct", "recording_pct"} =>
                    up[a][c] = CountsOver(table, RowsOf(table, area_of, a), c)
    <2> DEFINE row == [c \in shown(a) |-> figure(a, c)]
    <2>1. up[a] = row
      BY <1>1
    <2>2. row.branches = Cardinality(RowsOf(table, area_of, a))
      BY <1>2, <1>4
    <2>3. \A c \in ColumnsOf(table) : c \notin {"branches", "health_pct", "recording_pct"} =>
                         row[c] = CountsOver(table, RowsOf(table, area_of, a), c)
      BY <1>2, <1>4, <1>5
    <2>4. columns \cup {"branches"} \subseteq DOMAIN row /\ DOMAIN row = shown(a)
      OBVIOUS
    <2> HIDE DEF row, shown
    <2> QED BY <2>1, <2>2, <2>3, <2>4, <1>3, <1>4
  <1>7. DOMAIN up = areas
    BY <1>1
  <1>8. \A a : a \in areas <=> \E i \in DOMAIN table : a \in place(table[i].branch, area_of)
    BY DEF areas
  <1> QED BY <1>6, <1>7, <1>8

\* Where the leaves' names have different words, a row called by those of a leaf has its place.
LEMMA PlaceIs ==
    ASSUME NEW tree, NEW area_of, DOMAIN area_of \subseteq NamesOf(tree, Leaves(tree)),
           NEW called, JoinableByName(called, tree), NEW l \in Leaves(tree), tree.nodes[l].device \in DOMAIN called
    PROVE  place(called[tree.nodes[l].device], area_of)
             = IF tree.nodes[l].name \in DOMAIN area_of THEN {area_of[tree.nodes[l].name]} ELSE {}
  <1> DEFINE name(m) == tree.nodes[m].name
             b == called[tree.nodes[l].device]
  <1>1. /\ BranchKey(b) = BranchKey(name(l))
        /\ \A m \in Leaves(tree) : BranchKey(name(m)) = BranchKey(name(l)) => m = l
    BY DEF JoinableByName
  <1>2. \A x \in DOMAIN area_of : \E m \in Leaves(tree) : x = name(m)
    BY DEF NamesOf
  <1>3. \A x \in DOMAIN area_of : BranchKey(x) = BranchKey(name(l)) => x = name(l)
    BY <1>1, <1>2
  <1> HIDE DEF b, name
  <1>4. CASE b \in DOMAIN area_of
    BY <1>1, <1>3, <1>4 DEF place, b, name
  <1>5. CASE b \notin DOMAIN area_of /\ name(l) \in DOMAIN area_of
    <2> DEFINE alike == {x \in DOMAIN area_of : BranchKey(x) = BranchKey(b)}
    <2>1. alike = {name(l)}
      BY <1>1, <1>3, <1>5
    <2>2. place(b, area_of) = IF alike = {} THEN {} ELSE {area_of[CHOOSE x \in alike : TRUE]}
      BY <1>5 DEF place
    <2> HIDE DEF alike
    <2>3. place(b, area_of) = {area_of[name(l)]}
      BY <2>1, <2>2
    <2> QED BY <2>3, <1>5 DEF b, name
  <1>6. CASE b \notin DOMAIN area_of /\ name(l) \notin DOMAIN area_of
    <2>1. {x \in DOMAIN area_of : BranchKey(x) = BranchKey(b)} = {}
      BY <1>1, <1>3, <1>6
    <2>2. place(b, area_of) = {}
      BY <1>6, <2>1 DEF place
    <2> QED BY <2>2, <1>6 DEF b, name
  <1> QED BY <1>4, <1>5, <1>6

\* The devices of the leaves of an area.
DevicesAt(tree, area_of, a) ==
    {tree.nodes[l].device : l \in {l \in Leaves(tree) :
        tree.nodes[l].name \in DOMAIN area_of /\ area_of[tree.nodes[l].name] = a}}

\* So the rows of an area are those of its devices.
LEMMA PlacedAre ==
    ASSUME NEW tree, NEW area_of, DOMAIN area_of \subseteq NamesOf(tree, Leaves(tree)),
           NEW called, JoinableByName(called, tree), NEW d \in DOMAIN called,
           d \in {tree.nodes[l].device : l \in Leaves(tree)}
    PROVE  /\ \A a : place(called[d], area_of) = {a} <=> d \in DevicesAt(tree, area_of, a)
           /\ \A a : a \in place(called[d], area_of) <=> d \in DevicesAt(tree, area_of, a)
  <1>1. PICK l \in Leaves(tree) : d = tree.nodes[l].device
    OBVIOUS
  <1>2. \A m \in Leaves(tree) : tree.nodes[m].device = d => m = l
    BY <1>1 DEF JoinableByName
  <1>3. \A a : d \in DevicesAt(tree, area_of, a) <=>
                 tree.nodes[l].name \in DOMAIN area_of /\ area_of[tree.nodes[l].name] = a
    BY <1>1, <1>2 DEF DevicesAt
  <1>4. place(called[d], area_of)
             = IF tree.nodes[l].name \in DOMAIN area_of THEN {area_of[tree.nodes[l].name]} ELSE {}
    BY <1>1, PlaceIs
  <1> QED BY <1>3, <1>4

LEMMA AreasOfLeaves ==
    ASSUME NEW tree, NEW q
    PROVE  DOMAIN area_of_branch(tree, q) \subseteq NamesOf(tree, Leaves(tree))
  BY DEF area_of_branch, NamesOf

\* Distinct devices of leaves are called differently.
LEMMA CalledApart ==
    ASSUME NEW tree, NEW called, JoinableByName(called, tree),
           DOMAIN called \subseteq {tree.nodes[l].device : l \in Leaves(tree)}
    PROVE  \A d, e \in DOMAIN called : called[d] = called[e] => d = e
  BY DEF JoinableByName

\* The rows of named devices: what each one counts.
LEMMA TotalNamed ==
    ASSUME NEW snaps, NEW D, IsFiniteSet(D), NEW name, DOMAIN name = D,
           \A d, e \in D : name[d] = name[e] => d = e,
           NEW f, \A b : b \in DOMAIN f <=> \E d \in D : b = name[d],
           \A d \in D : f[name[d]] = Cardinality(DOMAIN Modules(snaps, d))
    PROVE  Summed(f) = Cardinality(Held(snaps, D))
  <1> DEFINE M(d) == Modules(snaps, d)
             R == Held(snaps, D)
             g == [p \in R |-> name[p[2]]]
  <1>1. IsFiniteSet(R) /\ IsFiniteSet(DOMAIN f)
    <2> DEFINE h == [d \in D |-> name[d]]
    <2>1. h \in Surjection(D, DOMAIN f)
      BY DEF Surjection
    <2> HIDE DEF h
    <2> QED BY <2>1, FS_Surjection, HeldFinite
  <1>2. \A p \in R : g[p] \in DOMAIN f
    BY DEF Held
  <1>3. ASSUME NEW b \in DOMAIN f PROVE f[b] = Cardinality({p \in R : g[p] = b})
    <2>1. PICK d \in D : b = name[d]
      OBVIOUS
    <2> DEFINE Y == DOMAIN M(d)
    <2>2. \A p \in R : g[p] = b <=> p[2] = d
      BY <2>1 DEF Held
    <2>3. R = {p \in Categories \X D : p[1] \in DOMAIN M(p[2])}
      BY DEF Held
    <2>4. Y \subseteq Categories /\ f[b] = Cardinality(Y)
      BY <2>1, ModulesAre
    <2> HIDE DEF R, g, M
    <2>5. {p \in R : g[p] = b} = Y \X {d}
      BY <2>2, <2>3, <2>4
    <2>6. IsFiniteSet(Y)
      BY <2>4, CategoriesFinite, FS_Subset
    <2> HIDE DEF Y
    <2>7. Cardinality(Y \X {d}) = Cardinality(Y)
      BY <2>6, RowCounts, ZenonT(60)
    <2> QED BY <2>4, <2>5, <2>7
  <1> HIDE DEF R, g
  <1>4. Summed(f) = Cardinality(R)
    BY <1>1, <1>2, <1>3, SumCounts
  <1> QED BY <1>4 DEF R

InColumn(snaps, d, k) == {c \in DOMAIN Modules(snaps, d) : ColumnOf(Modules(snaps, d)[c]) = k}

LEMMA ColumnNamed ==
    ASSUME NEW snaps, NEW D, IsFiniteSet(D), NEW name, DOMAIN name = D,
           \A d, e \in D : name[d] = name[e] => d = e,
           NEW k, NEW f, \A b : b \in DOMAIN f <=> \E d \in D : b = name[d],
           \A d \in D : f[name[d]] = Cardinality(InColumn(snaps, d, k))
    PROVE  Summed(f) = Cardinality(HeldIn(snaps, D, k))
  <1> DEFINE M(d) == Modules(snaps, d)
             R == HeldIn(snaps, D, k)
             g == [p \in R |-> name[p[2]]]
  <1>1. IsFiniteSet(R) /\ IsFiniteSet(DOMAIN f)
    <2> DEFINE h == [d \in D |-> name[d]]
    <2>1. h \in Surjection(D, DOMAIN f)
      BY DEF Surjection
    <2> HIDE DEF h
    <2> QED BY <2>1, FS_Surjection, HeldFinite
  <1>2. \A p \in R : g[p] \in DOMAIN f
    BY DEF Held, HeldIn
  <1>3. ASSUME NEW b \in DOMAIN f PROVE f[b] = Cardinality({p \in R : g[p] = b})
    <2>1. PICK d \in D : b = name[d]
      OBVIOUS
    <2> DEFINE Y == {c \in DOMAIN M(d) : ColumnOf(M(d)[c]) = k}
    <2>2. \A p \in R : g[p] = b <=> p[2] = d
      BY <2>1 DEF Held, HeldIn
    <2>3. R = {p \in Categories \X D : p[1] \in DOMAIN M(p[2]) /\ ColumnOf(M(p[2])[p[1]]) = k}
      BY DEF Held, HeldIn
    <2>8. Y = InColumn(snaps, d, k)
      BY DEF InColumn
    <2>4. Y \subseteq Categories /\ f[b] = Cardinality(Y) /\ Y = {c \in Categories : c \in DOMAIN M(d) /\ ColumnOf(M(d)[c]) = k}
      BY <2>1, <2>8, ModulesAre
    <2> HIDE DEF R, g, M, Y
    <2>5. {p \in R : g[p] = b} = Y \X {d}
      BY <2>2, <2>3, <2>4
    <2>6. IsFiniteSet(Y)
      BY <2>4, CategoriesFinite, FS_Subset
    <2>7. Cardinality(Y \X {d}) = Cardinality(Y)
      BY <2>6, RowCounts, ZenonT(60)
    <2> QED BY <2>4, <2>5, <2>7
  <1> HIDE DEF R, g
  <1>4. Summed(f) = Cardinality(R)
    BY <1>1, <1>2, <1>3, SumCounts
  <1> QED BY <1>4 DEF R

\* A ranking has areas of the rolled-up table, each with its row.
LEMMA Ranked ==
    ASSUME NEW table, NEW q, NEW answer, answer \in rank_areas(table, q)
    PROVE  /\ \A a \in DOMAIN answer.rows : a \in DOMAIN table /\ answer.rows[a] = table[a]
           /\ \E c, b : b \in DOMAIN table /\ c \in DOMAIN table[b] /\ DOMAIN answer.rows = {a \in DOMAIN table : c \in DOMAIN table[a]}
  <1> DEFINE asked == {i \in DOMAIN AreaColumns :
                     Mentions(q, AreaColumns[i].says) /\ \E a \in DOMAIN table : AreaColumns[i].column \in DOMAIN table[a]}
             c == AreaColumns[Min(asked)]
             usable == {a \in DOMAIN table : c.column \in DOMAIN table[a]}
             known == [a \in usable |-> table[a]]
  <1>1. asked # {} /\ answer.rows = known
    <2> DEFINE ranking(d) == [kind |-> "area ranking", column |-> c.column, rows |-> known, leaders |-> Leaders(known, c.column, d)]
    <2>1. rank_areas(table, q) = IF asked = {} THEN {} ELSE {ranking(d) : d \in Descending(q, c.bad)}
      BY Zenon DEF rank_areas
    <2>2. \A d : ranking(d).rows = known
      OBVIOUS
    <2> HIDE DEF asked, c, known, ranking
    <2> QED BY <2>1, <2>2
  <1>2. Min(asked) \in asked
    <2>1. DOMAIN AreaColumns \subseteq Nat
      BY DEF AreaColumns
    <2>2. asked \in SUBSET Nat
      BY <2>1
    <2> HIDE DEF asked
    <2>3. \E m \in asked : \A k \in asked : m <= k
      BY <1>1, <2>2, LeastOf
    <2> QED BY <2>3 DEF Min
  <1>3. \E b \in DOMAIN table : c.column \in DOMAIN table[b]
    BY <1>2
  <1> HIDE DEF asked, c
  <1> QED BY <1>1, <1>3

\* The health report, by branch.
HealthColumns == {"total", "healthy", "offline", "faulty", "health_pct"}

Down(modules) == {c \in DOMAIN modules : modules[c] = OFFLINE}

HealthTable(snaps, ids) == Keyless(branch_rows(aggregate_fleet_health(snaps, SetToSeq(ids))))

LEMMA HealthRows ==
    ASSUME NEW snaps, NEW ids, IsFiniteSet(ids), NEW table, table = HealthTable(snaps, ids)
    PROVE  /\ \A b : b \in DOMAIN table <=> \E d \in ids : b = RowName(snaps, d)
           /\ \A b \in DOMAIN table : table[b].branch = b /\ DOMAIN table[b].counts = HealthColumns
           /\ Named(snaps, ids) => \A d \in ids :
                /\ table[RowName(snaps, d)].counts.total = Cardinality(DOMAIN Modules(snaps, d))
                /\ table[RowName(snaps, d)].counts.offline = Cardinality(Down(Modules(snaps, d)))
  <1> DEFINE s == aggregate_fleet_health(snaps, SetToSeq(ids))
             sums == branch_rows(s)
  <1>1. /\ DOMAIN s.branches = {RowName(snaps, d) : d \in ids}
        /\ Named(snaps, ids) => \A d \in ids : s.branches[RowName(snaps, d)] = Modules(snaps, d)
    BY SummaryFacts
  <1> HIDE DEF s
  <1>2. /\ DOMAIN sums = DOMAIN s.branches
        /\ \A b \in DOMAIN s.branches : /\ DOMAIN sums[b] = HealthColumns
                                        /\ sums[b].total = Cardinality(DOMAIN s.branches[b])
                                        /\ sums[b].offline = Cardinality(Down(s.branches[b]))
    BY DEF branch_rows, HealthColumns, Down
  <1>3. table = [b \in DOMAIN sums |-> [branch |-> b, counts |-> sums[b]]]
    BY DEF HealthTable, Keyless, s
  <1> HIDE DEF sums
  <1>4. DOMAIN table = {RowName(snaps, d) : d \in ids} /\ DOMAIN table = DOMAIN s.branches
    BY <1>1, <1>2, <1>3
  <1>5. ASSUME NEW b \in DOMAIN table
        PROVE  table[b].branch = b /\ table[b].counts = sums[b] /\ b \in DOMAIN s.branches
    <2>1. b \in DOMAIN sums /\ b \in DOMAIN s.branches
      BY <1>2, <1>3
    <2>2. table[b] = [branch |-> b, counts |-> sums[b]]
      BY <1>3, <2>1
    <2> QED BY <2>1, <2>2
  <1>6. ASSUME NEW b \in DOMAIN table
        PROVE  /\ DOMAIN table[b].counts = HealthColumns
               /\ table[b].counts.total = Cardinality(DOMAIN s.branches[b])
               /\ table[b].counts.offline = Cardinality(Down(s.branches[b]))
    <2>1. /\ DOMAIN sums[b] = HealthColumns
          /\ sums[b].total = Cardinality(DOMAIN s.branches[b])
          /\ sums[b].offline = Cardinality(Down(s.branches[b]))
      BY <1>2, <1>5
    <2> QED BY <1>5, <2>1
  <1>7. ASSUME Named(snaps, ids), NEW d \in ids
        PROVE  /\ table[RowName(snaps, d)].counts.total = Cardinality(DOMAIN Modules(snaps, d))
               /\ table[RowName(snaps, d)].counts.offline = Cardinality(Down(Modules(snaps, d)))
    <2> DEFINE b == RowName(snaps, d)
    <2>1. b \in DOMAIN table /\ s.branches[b] = Modules(snaps, d)
      BY <1>1, <1>4, <1>7
    <2> HIDE DEF b
    <2> QED BY <1>6, <2>1 DEF b
  <1> QED BY <1>4, <1>5, <1>6, <1>7

\* Each area's row of the health report: its devices and their modules.
ModulesOver(D, snaps) == Total(D, LAMBDA d : Cardinality(DOMAIN Modules(snaps, d)))
OfflineOver(D, snaps) == Total(D, LAMBDA d : Cardinality(Down(Modules(snaps, d))))

LEMMA ModulesSum ==
    ASSUME NEW D, NEW snaps
    PROVE  ModulesOver(D, snaps) = Summed([d \in D |-> Cardinality(DOMAIN Modules(snaps, d))])
  <1> DEFINE n(d) == Cardinality(DOMAIN Modules(snaps, d))
             f == [d \in D |-> n(d)]
             Body(it) == [U \in SUBSET D |-> IF U = {} THEN 0
                            ELSE LET x == CHOOSE x \in U : TRUE IN n(x) + it[U \ {x}]]
  <1>1. ModulesOver(D, snaps) = (CHOOSE it : it = Body(it))[D]
    BY DEF ModulesOver, Total, MapThenSumSet, MapThenFoldSet
  <1> HIDE DEF n
  <1>2. ASSUME NEW it PROVE (it = Body(it)) <=> Adds(it, f)
    BY ZenonT(40) DEF Adds
  <1>3. (CHOOSE it : it = Body(it)) = CHOOSE it : Adds(it, f)
    <2> HIDE DEF Body, f
    <2> QED BY <1>2
  <1>4. DOMAIN f = D
    OBVIOUS
  <1> HIDE DEF Body
  <1> QED BY <1>1, <1>3, <1>4 DEF Summed, n

LEMMA OfflineSum ==
    ASSUME NEW D, NEW snaps
    PROVE  OfflineOver(D, snaps)
             = Summed([d \in D |-> Cardinality(Down(Modules(snaps, d)))])
  <1> DEFINE n(d) == Cardinality(Down(Modules(snaps, d)))
             f == [d \in D |-> n(d)]
             Body(it) == [U \in SUBSET D |-> IF U = {} THEN 0
                            ELSE LET x == CHOOSE x \in U : TRUE IN n(x) + it[U \ {x}]]
  <1>1. OfflineOver(D, snaps) = (CHOOSE it : it = Body(it))[D]
    BY DEF OfflineOver, Total, MapThenSumSet, MapThenFoldSet
  <1> HIDE DEF n
  <1>2. ASSUME NEW it PROVE (it = Body(it)) <=> Adds(it, f)
    BY ZenonT(40) DEF Adds
  <1>3. (CHOOSE it : it = Body(it)) = CHOOSE it : Adds(it, f)
    <2> HIDE DEF Body, f
    <2> QED BY <1>2
  <1>4. DOMAIN f = D
    OBVIOUS
  <1> HIDE DEF Body
  <1> QED BY <1>1, <1>3, <1>4 DEF Summed, n

\* The rows of some devices come to what their modules do.
LEMMA RowSums ==
    ASSUME NEW snaps, NEW D, IsFiniteSet(D), NEW B, B = {RowName(snaps, d) : d \in D},
           \A d, e \in D : RowName(snaps, d) = RowName(snaps, e) => d = e, NEW table,
           \A d \in D : table[RowName(snaps, d)].counts.total = Cardinality(DOMAIN Modules(snaps, d)),
           \A d \in D : table[RowName(snaps, d)].counts.offline
                           = Cardinality(Down(Modules(snaps, d)))
    PROVE  /\ CountsOver(table, B, "total") = ModulesOver(D, snaps)
           /\ CountsOver(table, B, "offline") = OfflineOver(D, snaps)
  <1> DEFINE name == [d \in D |-> RowName(snaps, d)]
             same == [d \in D |-> d]
  <1>1. B = {name[d] : d \in D} /\ D = {same[d] : d \in D} /\ DOMAIN name = D /\ DOMAIN same = D
        /\ \A d \in D : name[d] = RowName(snaps, d) /\ same[d] = d
    OBVIOUS
  <1> HIDE DEF name, same
  <1>2. /\ \A d, e \in D : name[d] = name[e] => d = e
        /\ \A d, e \in D : same[d] = same[e] => d = e
    BY <1>1
  <1>3. CountsOver(table, B, "total") = ModulesOver(D, snaps)
    <2> DEFINE f == [b \in B |-> table[b].counts["total"]]
               g == [d \in D |-> Cardinality(DOMAIN Modules(snaps, d))]
    <2>1. DOMAIN f = B /\ \A d \in D : f[name[d]] = Cardinality(DOMAIN Modules(snaps, d))
      BY <1>1
    <2>2. DOMAIN g = D /\ \A d \in D : g[same[d]] = Cardinality(DOMAIN Modules(snaps, d))
      BY <1>1
    <2> HIDE DEF f, g
    <2>3. Summed(f) = Cardinality(Held(snaps, D))
      <3>1. \A b : b \in DOMAIN f <=> \E d \in D : b = name[d]
        BY <1>1, <2>1
      <3> QED BY <1>1, <1>2, <2>1, <3>1, TotalNamed
    <2>4. Summed(g) = Cardinality(Held(snaps, D))
      <3>1. \A b : b \in DOMAIN g <=> \E d \in D : b = same[d]
        BY <1>1, <2>2
      <3> QED BY <1>1, <1>2, <2>2, <3>1, TotalNamed
    <2>5. CountsOver(table, B, "total") = Summed(f)
      BY CountsSum DEF f
    <2>6. ModulesOver(D, snaps) = Summed(g)
      BY ModulesSum DEF g
    <2> QED BY <2>3, <2>4, <2>5, <2>6
  <1>4. CountsOver(table, B, "offline") = OfflineOver(D, snaps)
    <2> DEFINE out(d) == Down(Modules(snaps, d))
               f == [b \in B |-> table[b].counts["offline"]]
               g == [d \in D |-> Cardinality(out(d))]
    <2>0. \A d : out(d) = InColumn(snaps, d, "offline")
      BY ColumnsAre DEF InColumn, Down
    <2>1. DOMAIN f = B /\ \A d \in D : f[name[d]] = Cardinality(out(d))
      BY <1>1
    <2>2. DOMAIN g = D /\ \A d \in D : g[same[d]] = Cardinality(out(d))
      BY <1>1
    <2>5. CountsOver(table, B, "offline") = Summed(f)
      BY CountsSum DEF f
    <2>6. OfflineOver(D, snaps) = Summed(g)
      BY OfflineSum DEF g
    <2> HIDE DEF f, g, out
    <2>7. /\ \A d \in D : f[name[d]] = Cardinality(InColumn(snaps, d, "offline"))
          /\ \A d \in D : g[same[d]] = Cardinality(InColumn(snaps, d, "offline"))
      BY <2>0, <2>1, <2>2
    <2>3. Summed(f) = Cardinality(HeldIn(snaps, D, "offline"))
      <3>1. \A b : b \in DOMAIN f <=> \E d \in D : b = name[d]
        BY <1>1, <2>1
      <3> QED BY <1>1, <1>2, <2>7, <3>1, ColumnNamed
    <2>4. Summed(g) = Cardinality(HeldIn(snaps, D, "offline"))
      <3>1. \A b : b \in DOMAIN g <=> \E d \in D : b = same[d]
        BY <1>1, <2>2
      <3> QED BY <1>1, <1>2, <2>7, <3>1, ColumnNamed
    <2> QED BY <2>3, <2>4, <2>5, <2>6
  <1> QED BY <1>3, <1>4

\* The rows of the health report, and where they are placed.
Rowed(table, snaps, ids) ==
    /\ \A b : b \in DOMAIN table <=> \E d \in ids : b = RowName(snaps, d)
    /\ \A b \in DOMAIN table : table[b].branch = b /\ DOMAIN table[b].counts = HealthColumns
    /\ \A d \in ids : /\ table[RowName(snaps, d)].counts.total = Cardinality(DOMAIN Modules(snaps, d))
                      /\ table[RowName(snaps, d)].counts.offline = Cardinality(Down(Modules(snaps, d)))
PlacedRight(snaps, ids, tree, area_of) ==
    /\ \A d \in ids : \A a : (place(RowName(snaps, d), area_of) = {a}) <=> (d \in DevicesAt(tree, area_of, a))
    /\ \A d \in ids : \A a : (a \in place(RowName(snaps, d), area_of)) <=> (d \in DevicesAt(tree, area_of, a))
    /\ \A a : DevicesAt(tree, area_of, a) \subseteq ids

\* Answers made of the health report.
LEMMA HealthAreas ==
    ASSUME NEW tree, NEW snaps, NEW ids, IsFiniteSet(ids), Named(snaps, ids), NEW area_of,
           PlacedRight(snaps, ids, tree, area_of), NEW table, Rowed(table, snaps, ids),
           NEW up, up = roll_up(table, area_of), NEW q, NEW answer, answer \in rank_areas(up, q)
    PROVE  /\ \A a : a \in DOMAIN answer.rows <=> DevicesAt(tree, area_of, a) # {}
           /\ \A a \in DOMAIN answer.rows :
                /\ answer.rows[a].branches = Cardinality(DevicesAt(tree, area_of, a))
                /\ answer.rows[a].total = ModulesOver(DevicesAt(tree, area_of, a), snaps)
                /\ answer.rows[a].offline = OfflineOver(DevicesAt(tree, area_of, a), snaps)
  <1> DEFINE at(a) == DevicesAt(tree, area_of, a)
  <1>4. /\ \A d \in ids : \A a : (place(RowName(snaps, d), area_of) = {a}) <=> (d \in at(a))
        /\ \A d \in ids : \A a : (a \in place(RowName(snaps, d), area_of)) <=> (d \in at(a))
    BY Zenon DEF PlacedRight
  <1>5. /\ DOMAIN table = {RowName(snaps, d) : d \in ids}
        /\ \A b \in DOMAIN table : table[b].branch = b /\ DOMAIN table[b].counts = HealthColumns
        /\ \A d \in ids : /\ table[RowName(snaps, d)].counts.total = Cardinality(DOMAIN Modules(snaps, d))
                          /\ table[RowName(snaps, d)].counts.offline = Cardinality(Down(Modules(snaps, d)))
    <2>1. \A b : b \in DOMAIN table <=> \E d \in ids : b = RowName(snaps, d)
      BY DEF Rowed
    <2>2. DOMAIN table = {RowName(snaps, d) : d \in ids}
      BY <2>1
    <2> QED BY <2>2 DEF Rowed
  <1>6. \A a : at(a) \subseteq ids
    BY DEF PlacedRight
  <1> HIDE DEF at
  <1>7. ASSUME NEW a PROVE RowsOf(table, area_of, a) = {RowName(snaps, d) : d \in at(a)}
    <2>1. \A d \in ids : RowName(snaps, d) \in DOMAIN table /\ table[RowName(snaps, d)].branch = RowName(snaps, d)
      BY <1>5
    <2>2. \A b : b \in RowsOf(table, area_of, a) <=> \E d \in ids : b = RowName(snaps, d) /\ place(b, area_of) = {a}
      BY <2>1, <1>5 DEF RowsOf
    <2>3. \A b : b \in RowsOf(table, area_of, a) <=> \E d \in at(a) : b = RowName(snaps, d)
      BY <2>2, <1>4, <1>6
    <2> QED BY <2>3
  <1>8. \A a : a \in DOMAIN up <=> \E b \in DOMAIN table : a \in place(table[b].branch, area_of)
    BY RolledUp
  <1>9. \A a : a \in DOMAIN up <=> at(a) # {}
    <2>1. \A a : a \in DOMAIN up <=> \E d \in ids : a \in place(RowName(snaps, d), area_of)
      <3> QED BY <1>5, <1>8
    <2> QED BY <2>1, <1>4, <1>6
  <1>11. ASSUME NEW a \in DOMAIN up
         PROVE  /\ DOMAIN up[a] = HealthColumns \cup {"branches"}
                /\ up[a].branches = Cardinality(RowsOf(table, area_of, a))
                /\ up[a].total = CountsOver(table, RowsOf(table, area_of, a), "total")
                /\ up[a].offline = CountsOver(table, RowsOf(table, area_of, a), "offline")
    <2>1. PICK d \in ids : RowName(snaps, d) \in DOMAIN table
      BY <1>5, <1>6, <1>9
    <2>2. ColumnsOf(table) = HealthColumns
      BY <1>5, <2>1 DEF ColumnsOf
    <2>3. "health_pct" \in HealthColumns /\ "total_channels" \notin HealthColumns /\ "total" \in HealthColumns /\ "offline" \in HealthColumns
      BY DEF HealthColumns
    <2>4. DOMAIN up[a] = HealthColumns \cup {"branches"}
      <3>1. \A c \in DOMAIN up[a] : c \in HealthColumns \/ c = "branches"
        BY <2>2, <2>3, RolledUp
      <3>2. HealthColumns \cup {"branches"} \subseteq DOMAIN up[a]
        BY <2>2, RolledUp
      <3> QED BY <3>1, <3>2
    <2>5. up[a].branches = Cardinality(RowsOf(table, area_of, a))
      BY RolledUp
    <2>6. \A c \in {"total", "offline"} : up[a][c] = CountsOver(table, RowsOf(table, area_of, a), c)
      BY <2>2, <2>3, RolledUp
    <2> QED BY <2>4, <2>5, <2>6
  <1>12. /\ \A a \in DOMAIN answer.rows : a \in DOMAIN up /\ answer.rows[a] = up[a]
         /\ DOMAIN answer.rows = DOMAIN up
    <2>1. /\ \A a \in DOMAIN answer.rows : a \in DOMAIN up /\ answer.rows[a] = up[a]
          /\ \E c, b : b \in DOMAIN up /\ c \in DOMAIN up[b] /\ DOMAIN answer.rows = {a \in DOMAIN up : c \in DOMAIN up[a]}
      BY Ranked
    <2> QED BY <2>1, <1>11
  <1>13. ASSUME NEW a \in DOMAIN up
         PROVE  /\ up[a].branches = Cardinality(at(a))
                /\ up[a].total = ModulesOver(at(a), snaps)
                /\ up[a].offline = OfflineOver(at(a), snaps)
    <2> DEFINE D == at(a)
               B == RowsOf(table, area_of, a)
    <2>1. D \subseteq ids /\ IsFiniteSet(D) /\ B = {RowName(snaps, d) : d \in D}
      BY <1>6, <1>7, FS_Subset
    <2>2. \A d, e \in D : RowName(snaps, d) = RowName(snaps, e) => d = e
      BY <2>1 DEF Named
    <2>3. Cardinality(B) = Cardinality(D)
      <3> DEFINE f == [d \in D |-> RowName(snaps, d)]
      <3> HIDE DEF D, B
      <3>1. f \in Bijection(D, B)
        BY <2>1, <2>2 DEF Bijection, Injection, Surjection, IsInjective
      <3> HIDE DEF f
      <3>2. ExistsBijection(D, B)
        BY <3>1 DEF ExistsBijection
      <3> QED BY <3>2, <2>1, FS_Bijection
    <2>5. /\ CountsOver(table, B, "total") = ModulesOver(D, snaps)
          /\ CountsOver(table, B, "offline") = OfflineOver(D, snaps)
      <3>1. /\ \A d \in D : table[RowName(snaps, d)].counts.total = Cardinality(DOMAIN Modules(snaps, d))
            /\ \A d \in D : table[RowName(snaps, d)].counts.offline
                              = Cardinality(Down(Modules(snaps, d)))
        BY <1>5, <2>1
      <3> HIDE DEF D, B
      <3> QED BY <2>1, <2>2, <3>1, RowSums
    <2> QED BY <1>11, <2>3, <2>5 DEF D, B
  <1>14. ASSUME NEW a \in DOMAIN answer.rows
         PROVE  /\ answer.rows[a].branches = Cardinality(at(a))
                /\ answer.rows[a].total = ModulesOver(at(a), snaps)
                /\ answer.rows[a].offline = OfflineOver(at(a), snaps)
    BY <1>12, <1>13
  <1> QED BY <1>9, <1>12, <1>14 DEF at

LEMMA SumIs ==
    ASSUME NEW fleet, NEW S, NEW k
    PROVE  Sum(fleet, S, k) = Summed([d \in S |-> fleet[d][k]])
  <1> DEFINE f == [d \in S |-> fleet[d][k]]
             Body(it) == [U \in SUBSET S |-> IF U = {} THEN 0
                            ELSE LET x == CHOOSE x \in U : TRUE IN fleet[x][k] + it[U \ {x}]]
  <1>1. Sum(fleet, S, k) = (CHOOSE it : it = Body(it))[S]
    BY DEF Sum, Total, MapThenSumSet, MapThenFoldSet
  <1>2. ASSUME NEW it PROVE (it = Body(it)) <=> Adds(it, f)
    BY ZenonT(40) DEF Adds
  <1>3. (CHOOSE it : it = Body(it)) = CHOOSE it : Adds(it, f)
    <2> HIDE DEF Body, f
    <2> QED BY <1>2
  <1>4. DOMAIN f = S
    OBVIOUS
  <1> HIDE DEF Body
  <1> QED BY <1>1, <1>3, <1>4 DEF Summed

\* Answers made of the recordings.
Filmed(fleet, area_of, a, D) ==
    D \subseteq Reporting(fleet) /\ \A d \in Reporting(fleet) : place(fleet[d].branch, area_of) = {a} <=> d \in D

LEMMA RecordingAreas ==
    ASSUME NEW fleet, NEW area_of, NEW table, table = branch_recording_rows(fleet),
           NEW up, up = roll_up(table, area_of), NEW a \in DOMAIN up,
           NEW D, Filmed(fleet, area_of, a, D)
    PROVE  up[a].branches = Cardinality(D) /\ up[a].not_recording = Sum(fleet, D, "not_recording")
  <1>1. DOMAIN table = Reporting(fleet)
    BY DEF branch_recording_rows
  <1>2. ASSUME NEW d \in Reporting(fleet)
        PROVE  /\ table[d].branch = fleet[d].branch /\ DOMAIN table[d].counts = RecordingColumns
               /\ table[d].counts["not_recording"] = fleet[d]["not_recording"]
    <2>1. table[d] = [branch |-> fleet[d].branch, counts |-> [k \in RecordingColumns |-> fleet[d][k]]]
      BY DEF branch_recording_rows
    <2>2. table[d].branch = fleet[d].branch /\ table[d].counts = [k \in RecordingColumns |-> fleet[d][k]]
      BY <2>1
    <2>3. "not_recording" \in RecordingColumns
      BY DEF RecordingColumns
    <2> QED BY <2>2, <2>3
  <1>3. \E d \in DOMAIN table : a \in place(table[d].branch, area_of)
    BY RolledUp
  <1>4. ColumnsOf(table) = RecordingColumns
    BY <1>1, <1>2, <1>3 DEF ColumnsOf
  <1>5. "total" \notin RecordingColumns /\ "not_recording" \in RecordingColumns
    BY DEF RecordingColumns
  <1>7. up[a].branches = Cardinality(RowsOf(table, area_of, a))
    BY RolledUp
  <1>8. up[a]["not_recording"] = CountsOver(table, RowsOf(table, area_of, a), "not_recording")
    BY <1>4, <1>5, RolledUp
  <1>9. RowsOf(table, area_of, a) = D
    BY <1>1, <1>2 DEF RowsOf, Filmed
  <1>10. CountsOver(table, D, "not_recording") = Sum(fleet, D, "not_recording")
    <2>1. [i \in D |-> table[i].counts["not_recording"]] = [d \in D |-> fleet[d]["not_recording"]]
      BY <1>2 DEF Filmed
    <2> QED BY <2>1, CountsSum, SumIs
  <1> QED BY <1>7, <1>8, <1>9, <1>10

\* They have no total of modules.
LEMMA NoTotals ==
    ASSUME NEW fleet, NEW area_of, NEW table, table = branch_recording_rows(fleet),
           NEW up, up = roll_up(table, area_of), NEW a \in DOMAIN up
    PROVE  "total" \notin DOMAIN up[a]
  <1>1. \A d \in DOMAIN table : DOMAIN table[d].counts = RecordingColumns
    BY DEF branch_recording_rows
  <1>2. \E d \in DOMAIN table : a \in place(table[d].branch, area_of)
    BY RolledUp
  <1>3. ColumnsOf(table) = RecordingColumns
    BY <1>1, <1>2 DEF ColumnsOf
  <1>4. "total" \notin RecordingColumns
    BY DEF RecordingColumns
  <1> QED BY <1>3, <1>4, RolledUp

\* The devices are those of the leaves, and the names are those of the rows.
OfLeaves(ids, tree) == \A d : d \in ids <=> \E l \in Leaves(tree) : d = tree.nodes[l].device
Calls(called, snaps, ids) == DOMAIN called = ids /\ \A d \in ids : called[d] = RowName(snaps, d)

\* The names on the map are leaves' names, and exactly the areas on it have a device.
Leafy(area_of, tree) == DOMAIN area_of \subseteq NamesOf(tree, Leaves(tree))
Mapped(area_of, tree) ==
    \A a : (\E name \in DOMAIN area_of : a = area_of[name]) <=> DevicesAt(tree, area_of, a) # {}

\* So it is where the rows can be joined to the tree by name.
LEMMA HealthPlaces ==
    ASSUME NEW tree, NEW snaps, NEW ids, OfLeaves(ids, tree),
           NEW area_of, Leafy(area_of, tree),
           NEW called, Calls(called, snaps, ids), JoinableByName(called, tree)
    PROVE  PlacedRight(snaps, ids, tree, area_of) /\ Named(snaps, ids) /\ Mapped(area_of, tree)
  <1> USE DEF Leafy, Mapped
  <1>1. /\ \A d \in ids : d \in {tree.nodes[l].device : l \in Leaves(tree)}
        /\ DOMAIN called = ids /\ \A d \in ids : called[d] = RowName(snaps, d)
    BY DEF OfLeaves, Calls
  <1>2. /\ \A d \in ids : \A a : (place(RowName(snaps, d), area_of) = {a}) <=> (d \in DevicesAt(tree, area_of, a))
        /\ \A d \in ids : \A a : (a \in place(RowName(snaps, d), area_of)) <=> (d \in DevicesAt(tree, area_of, a))
    <2> SUFFICES ASSUME NEW d \in ids
                 PROVE  /\ \A a : (place(called[d], area_of) = {a}) <=> (d \in DevicesAt(tree, area_of, a))
                        /\ \A a : (a \in place(called[d], area_of)) <=> (d \in DevicesAt(tree, area_of, a))
      BY <1>1
    <2> QED BY <1>1, PlacedAre
  <1>3. \A a : DevicesAt(tree, area_of, a) \subseteq ids
    BY DEF DevicesAt, OfLeaves
  <1>4. \A a : (\E name \in DOMAIN area_of : a = area_of[name]) <=> DevicesAt(tree, area_of, a) # {}
    BY DEF DevicesAt, NamesOf
  <1>5. Named(snaps, ids)
    <2>1. \A d, e \in ids : called[d] = called[e] => d = e
      BY <1>1, CalledApart
    <2> QED BY <1>1, <2>1 DEF Named
  <1>6. PlacedRight(snaps, ids, tree, area_of)
    BY <1>2, <1>3 DEF PlacedRight
  <1> QED BY <1>4, <1>5, <1>6

LEMMA HealthIsRowed ==
    ASSUME NEW snaps, NEW ids, IsFiniteSet(ids), Named(snaps, ids), NEW table, table = HealthTable(snaps, ids)
    PROVE  Rowed(table, snaps, ids)
  BY HealthRows DEF Rowed

\* It has a total for every area.
LEMMA HealthHasTotals ==
    ASSUME NEW snaps, NEW ids, IsFiniteSet(ids), NEW table, table = HealthTable(snaps, ids), NEW area_of,
           NEW up, up = roll_up(table, area_of), NEW a \in DOMAIN up
    PROVE  "total" \in DOMAIN up[a]
  <1>1. \A b \in DOMAIN table : DOMAIN table[b].counts = HealthColumns
    BY HealthRows
  <1>2. \E b \in DOMAIN table : a \in place(table[b].branch, area_of)
    BY RolledUp
  <1>3. "total" \in ColumnsOf(table)
    BY <1>1, <1>2 DEF ColumnsOf, HealthColumns
  <1> QED BY <1>3, RolledUp

\* The recordings are placed alike.
LEMMA RecordingPlaces ==
    ASSUME NEW tree, NEW fleet, Reporting(fleet) \subseteq {tree.nodes[l].device : l \in Leaves(tree)},
           NEW area_of, DOMAIN area_of \subseteq NamesOf(tree, Leaves(tree)), NEW a,
           NEW called, DOMAIN called = Reporting(fleet),
           \A d \in Reporting(fleet) : called[d] = fleet[d].branch, JoinableByName(called, tree)
    PROVE  Filmed(fleet, area_of, a, DevicesAt(tree, area_of, a) \cap Reporting(fleet))
  <1>1. \A d \in Reporting(fleet) : place(fleet[d].branch, area_of) = {a} <=> d \in DevicesAt(tree, area_of, a)
    <2> SUFFICES ASSUME NEW d \in Reporting(fleet)
                 PROVE  place(called[d], area_of) = {a} <=> d \in DevicesAt(tree, area_of, a)
      OBVIOUS
    <2> QED BY PlacedAre
  <1> QED BY <1>1 DEF Filmed

\* Hence the totals of an answer about areas are those of the tree.
LEMMA TotalsExact == Reckoned => AreaTotalsExact
  <1> SUFFICES ASSUME Reckoned, AnsweredBy("area_ranking"),
                      inquiry.ids = {inquiry.tree.nodes[l].device : l \in Leaves(inquiry.tree)}
               PROVE  AreaTotalsExact
    BY DEF AreaTotalsExact
  <1> DEFINE tree == inquiry.tree
             ids == inquiry.ids
             q == inquiry.asked.q
             answer == inquiry.answer
             area_of == area_of_branch(tree, q)
             snaps == Each(inquiry.states, "snap")
             fleet == Each(inquiry.states, "cctv")
             table == AreaRows(q, inquiry.states, ids)
             up == roll_up(table, area_of)
             devices(a) == DevicesAt(tree, area_of, a)
             reporting(a) == devices(a) \cap Reporting(fleet)
             called == [d \in ids |-> RowName(snaps, d)]
             filmed == [d \in Reporting(fleet) |-> fleet[d].branch]
  <1>1. IsFiniteSet(ids) /\ DOMAIN inquiry.states \subseteq ids
    BY DEF Reckoned, AnsweredBy, OpenPhases
  <1>2. answer \in rank_areas(up, q)
    <2>1. answer \in area_ranking(q, tree, inquiry.states, ids)
      BY DEF Reckoned
    <2> QED BY <2>1 DEF area_ranking
  <1>3. table = HealthTable(snaps, ids) \/ table = branch_recording_rows(fleet)
    BY DEF AreaRows, HealthTable, Summary
  <1>4. DOMAIN fleet \subseteq ids
    BY <1>1 DEF Each
  <1>5. /\ Calls(called, snaps, ids)
        /\ DOMAIN filmed = Reporting(fleet) /\ \A d \in Reporting(fleet) : filmed[d] = fleet[d].branch
    BY DEF Calls
  <1>6. OfLeaves(ids, tree) /\ ids \subseteq {tree.nodes[l].device : l \in Leaves(tree)}
    BY DEF OfLeaves
  <1>7. DOMAIN area_of \subseteq NamesOf(tree, Leaves(tree)) /\ up = roll_up(table, area_of)
    BY AreasOfLeaves
  <1> HIDE DEF called, filmed, table, up, area_of, fleet, snaps, ids, q, tree, answer
  <1>8. \A a \in DOMAIN answer.rows : a \in DOMAIN up /\ answer.rows[a] = up[a]
    BY <1>2, Ranked
  <1>9. ASSUME NEW a \in DOMAIN answer.rows
        PROVE  IF "total" \in DOMAIN answer.rows[a]
               THEN JoinableByName(called, tree) =>
                      /\ DOMAIN answer.rows = {area_of[name] : name \in DOMAIN area_of}
                      /\ answer.rows[a].branches = Cardinality(devices(a))
                      /\ answer.rows[a].total = ModulesOver(devices(a), snaps)
                      /\ answer.rows[a].offline = OfflineOver(devices(a), snaps)
               ELSE JoinableByName(filmed, tree) =>
                      /\ answer.rows[a].branches = Cardinality(reporting(a))
                      /\ answer.rows[a].not_recording = Sum(fleet, reporting(a), "not_recording")
    <2>1. CASE table = HealthTable(snaps, ids)
      <3>1. "total" \in DOMAIN answer.rows[a]
        BY <1>1, <1>7, <1>8, <2>1, HealthHasTotals
      <3>2. ASSUME JoinableByName(called, tree)
            PROVE  /\ DOMAIN answer.rows = {area_of[name] : name \in DOMAIN area_of}
                   /\ answer.rows[a].branches = Cardinality(devices(a))
                   /\ answer.rows[a].total = ModulesOver(devices(a), snaps)
                   /\ answer.rows[a].offline = OfflineOver(devices(a), snaps)
        <4>1. /\ PlacedRight(snaps, ids, tree, area_of) /\ Named(snaps, ids)
              /\ Mapped(area_of, tree)
          <5>1. Leafy(area_of, tree)
            BY <1>7 DEF Leafy
          <5> QED BY <1>5, <1>6, <3>2, <5>1, HealthPlaces
        <4>2. Rowed(table, snaps, ids)
          BY <1>1, <2>1, <4>1, HealthIsRowed
        <4>3. /\ \A b : b \in DOMAIN answer.rows <=> DevicesAt(tree, area_of, b) # {}
              /\ answer.rows[a].branches = Cardinality(devices(a))
              /\ answer.rows[a].total = ModulesOver(devices(a), snaps)
              /\ answer.rows[a].offline = OfflineOver(devices(a), snaps)
          BY <1>1, <1>2, <1>7, <4>1, <4>2, HealthAreas
        <4> QED BY <4>1, <4>3 DEF Mapped
      <3> QED BY <3>1, <3>2
    <2>2. CASE table = branch_recording_rows(fleet)
      <3>1. "total" \notin DOMAIN answer.rows[a]
        BY <1>7, <1>8, <2>2, NoTotals
      <3>2. ASSUME JoinableByName(filmed, tree)
            PROVE  /\ answer.rows[a].branches = Cardinality(reporting(a))
                   /\ answer.rows[a].not_recording = Sum(fleet, reporting(a), "not_recording")
        <4>1. Reporting(fleet) \subseteq {tree.nodes[l].device : l \in Leaves(tree)}
          BY <1>4, <1>6 DEF Reporting
        <4>2. Filmed(fleet, area_of, a, reporting(a))
          BY <1>5, <1>7, <3>2, <4>1, RecordingPlaces
        <4> QED BY <1>7, <1>8, <2>2, <4>2, RecordingAreas
      <3> QED BY <3>1, <3>2
    <2> QED BY <1>3, <2>1, <2>2
  <1> QED
    BY <1>9 DEF AreaTotalsExact, DevicesAt, ModulesOver, OfflineOver, Down,
       called, filmed, area_of, fleet, snaps, ids, q, tree, answer

\* The total of an area in an answer over the whole fleet is what the devices below the area count,
\* for any tree and any snapshots whose names have the words of their leaves.
THEOREM AreaTotalsAgree == AssistantSpec => []AreaTotalsExact
  <1>1. AssistantInit => Narrow /\ Reckoned
    BY NarrowInit, ReckonedInit DEF AssistantInit
  <1>2. Narrow /\ Reckoned /\ [AssistantNext]_assistantVars => Narrow' /\ Reckoned'
    <2>1. [AssistantNext]_assistantVars => [FleetNext]_fleetVars
      BY DEF AssistantNext, MetricStep, FleetStep, AlarmStep, GateStep, assistantVars
    <2> QED BY <2>1, NarrowStep, ReckonedStep, AssumedFinite
  <1>3. Reckoned => AreaTotalsExact
    BY TotalsExact
  <1> QED BY <1>1, <1>2, <1>3, PTL DEF AssistantSpec

(***************************************************************************)
(* The length of a name.  A text is as long as its pieces, so a proper     *)
(* part is shorter, and no alias made of a name is longer than the name.   *)
(***************************************************************************)
LEMMA PiecesHaveWidth == Pieces = DOMAIN Width /\ \A x \in Pieces : Width[x] \in Nat /\ Width[x] >= 1
  <1>1. " " \in DOMAIN Width /\ \A x \in DOMAIN Width : Width[x] \in Nat \ {0}
    BY GateAssumption
  <1>2. Pieces = DOMAIN Width
    BY <1>1 DEF Pieces
  <1>3. ASSUME NEW x \in Pieces PROVE Width[x] \in Nat /\ Width[x] >= 1
    <2>1. Width[x] \in Nat \ {0}
      BY <1>1, <1>2
    <2> DEFINE w == Width[x]
    <2> HIDE DEF w
    <2>2. w \in Nat \ {0} => w \in Nat /\ w >= 1
      OBVIOUS
    <2> QED BY <2>1, <2>2 DEF w
  <1> QED BY <1>2, <1>3

\* The sizes of the beginnings of a text.
Lengths(f, s) ==
    /\ f \in [0 .. Len(s) -> Nat] /\ f[0] = 0 /\ f[Len(s)] = Size(s)
    /\ \A k \in 1 .. Len(s) : f[k] = f[k - 1] + Width[s[k]]

LEMMA SizeUnfolds == ASSUME NEW s \in Texts PROVE \E f : Lengths(f, s)
  <1> DEFINE N == Len(s)
             g == [k \in Nat |-> [n \in Nat |-> IF k \in 1 .. N THEN n + Width[s[k]] ELSE n]]
             Eq(f) == f = [k \in 0 .. N |-> IF k = 0 THEN 0 ELSE f[k - 1] + Width[s[k]]]
  <1>1. N \in Nat /\ \A k \in 1 .. N : Width[s[k]] \in Nat
    BY TextFacts, PiecesHaveWidth
  <1>3. Size(s) = (CHOOSE f : Eq(f))[N]
    BY DEF Size
  <1> HIDE DEF N
  <1>4. StepsWithin(g, Nat)
    BY <1>1 DEF StepsWithin
  <1>5. PICK e \in [0 .. N -> Nat] : Unfolding(e, 0, g, N)
    <2> HIDE DEF g
    <2> QED BY <1>1, <1>4, Unfolds
  <1>6. e[0] = 0 /\ \A k \in 1 .. N : e[k] = g[k][e[k - 1]]
    <2> HIDE DEF g
    <2> QED BY <1>5 DEF Unfolding
  <1>7. ASSUME NEW k \in 1 .. N PROVE e[k] = e[k - 1] + Width[s[k]]
    <2>1. k \in Nat /\ k - 1 \in 0 .. N
      BY <1>1
    <2>2. e[k - 1] \in Nat
      BY <2>1, <1>5
    <2> QED BY <2>1, <2>2, <1>6
  <1>8. Eq(e)
    <2>1. e = [k \in 0 .. N |-> e[k]]
      BY <1>5
    <2>2. ASSUME NEW k \in 0 .. N PROVE e[k] = IF k = 0 THEN 0 ELSE e[k - 1] + Width[s[k]]
      <3>1. k = 0 \/ k \in 1 .. N
        BY <1>1
      <3> QED BY <3>1, <1>6, <1>7
    <2> QED BY <2>1, <2>2
  <1> DEFINE f == CHOOSE f : Eq(f)
  <1>9. Eq(f)
    <2> HIDE DEF Eq
    <2> QED BY <1>8
  <1>10. Size(s) = f[N]
    BY <1>3
  <1> HIDE DEF f
  <1>11. \A k \in 0 .. N : f[k] = IF k = 0 THEN 0 ELSE f[k - 1] + Width[s[k]]
    BY <1>9
  <1>12. f[0] = 0 /\ \A k \in 1 .. N : f[k] = f[k - 1] + Width[s[k]]
    <2>1. 0 \in 0 .. N /\ \A k \in 1 .. N : k \in 0 .. N /\ k # 0
      BY <1>1
    <2> QED BY <2>1, <1>11
  <1> DEFINE T == {k \in Nat : k <= N => f[k] \in Nat}
  <1>13. 0 \in T
    BY <1>12
  <1>14. ASSUME NEW k \in Nat, k \in T PROVE k + 1 \in T
    <2> SUFFICES ASSUME k + 1 <= N PROVE f[k + 1] \in Nat
      OBVIOUS
    <2>1. f[k] \in Nat /\ k + 1 \in 1 .. N /\ (k + 1) - 1 = k
      BY <1>1, <1>14
    <2> DEFINE m == k + 1
    <2>2. f[m] = f[m - 1] + Width[s[m]] /\ Width[s[m]] \in Nat
      BY <2>1, <1>1, <1>12
    <2> QED BY <2>1, <2>2
  <1>15. f \in [0 .. N -> Nat]
    <2> HIDE DEF T
    <2>1. Nat \subseteq T
      BY <1>13, <1>14, Inductive
    <2>2. \A k \in 0 .. N : f[k] \in Nat
      BY <2>1, <1>1 DEF T
    <2>3. f = [k \in 0 .. N |-> f[k]]
      BY <1>9
    <2> QED BY <2>2, <2>3
  <1> HIDE DEF Eq
  <1>16. Lengths(f, s)
    BY <1>10, <1>12, <1>15 DEF Lengths, N
  <1> QED BY <1>16

\* A part of a text has the size of what lies between its ends.
LEMMA SizeBetween ==
    ASSUME NEW p \in Texts, NEW t \in Texts, NEW b \in Nat, b + Len(p) <= Len(t),
           \A j \in 1 .. Len(p) : p[j] = t[b + j], NEW f, Lengths(f, t)
    PROVE  f[b + Len(p)] = f[b] + Size(p) /\ Size(p) \in Nat
  <1> DEFINE N == Len(t)
             M == Len(p)
  <1>1. PICK h : Lengths(h, p)
    BY SizeUnfolds
  <1>2. N \in Nat /\ M \in Nat /\ b + M <= N
    BY TextFacts
  <1>3. /\ f \in [0 .. N -> Nat] /\ \A k \in 1 .. N : f[k] = f[k - 1] + Width[t[k]]
        /\ h \in [0 .. M -> Nat] /\ h[0] = 0 /\ h[M] = Size(p) /\ \A k \in 1 .. M : h[k] = h[k - 1] + Width[p[k]]
    BY <1>1 DEF Lengths
  <1>4. \A j \in 1 .. M : p[j] = t[b + j] /\ Width[p[j]] \in Nat
    BY TextFacts, PiecesHaveWidth
  <1> HIDE DEF N, M
  <1> DEFINE T == {j \in Nat : j <= M => f[b + j] = f[b] + h[j]}
  <1>5. b \in 0 .. N /\ f[b] \in Nat
    BY <1>2, <1>3
  <1>6. 0 \in T
    BY <1>3, <1>5
  <1>7. ASSUME NEW j \in Nat, j \in T PROVE j + 1 \in T
    <2> SUFFICES ASSUME j + 1 <= M PROVE f[b + (j + 1)] = f[b] + h[j + 1]
      OBVIOUS
    <2>1. /\ j <= M /\ j + 1 \in 1 .. M /\ (j + 1) - 1 = j /\ j \in 0 .. M
          /\ b + (j + 1) \in 1 .. N /\ (b + (j + 1)) - 1 = b + j
      BY <1>2
    <2>2. f[b + j] = f[b] + h[j] /\ h[j] \in Nat
      BY <1>3, <1>7, <2>1
    <2>3. f[b + (j + 1)] = f[b + j] + Width[p[j + 1]] /\ h[j + 1] = h[j] + Width[p[j + 1]] /\ Width[p[j + 1]] \in Nat
      BY <1>3, <1>4, <2>1
    <2> QED BY <1>5, <2>2, <2>3
  <1> HIDE DEF T
  <1>8. M \in T
    BY <1>2, <1>6, <1>7, Inductive
  <1>9. M <= M /\ M \in 0 .. M
    BY <1>2
  <1> QED BY <1>3, <1>8, <1>9 DEF T, M

\* No piece is empty.
LEMMA LengthsGrow ==
    ASSUME NEW t \in Texts, NEW f, Lengths(f, t), NEW b \in 0 .. Len(t)
    PROVE  \A e \in b .. Len(t) : f[b] \in Nat /\ f[e] \in Nat /\ f[e] >= f[b] + (e - b)
  <1> DEFINE N == Len(t)
             T == {j \in Nat : b + j <= N => f[b + j] >= f[b] + j}
  <1>1. N \in Nat /\ f \in [0 .. N -> Nat] /\ \A k \in 1 .. N : f[k] = f[k - 1] + Width[t[k]]
    BY TextFacts DEF Lengths
  <1>2. \A k \in 1 .. N : Width[t[k]] \in Nat /\ Width[t[k]] >= 1
    BY TextFacts, PiecesHaveWidth
  <1> HIDE DEF N
  <1>3. b \in Nat /\ b <= N /\ f[b] \in Nat
    BY <1>1 DEF N
  <1>4. 0 \in T
    BY <1>3
  <1>5. ASSUME NEW j \in Nat, j \in T PROVE j + 1 \in T
    <2> SUFFICES ASSUME b + (j + 1) <= N PROVE f[b + (j + 1)] >= f[b] + (j + 1)
      OBVIOUS
    <2>1. b + (j + 1) \in 1 .. N /\ (b + (j + 1)) - 1 = b + j /\ b + j <= N /\ b + j \in 0 .. N
      BY <1>1, <1>3
    <2>2. f[b + j] \in Nat /\ f[b + j] >= f[b] + j
      BY <1>1, <1>5, <2>1
    <2>3. f[b + (j + 1)] = f[b + j] + Width[t[b + (j + 1)]] /\ Width[t[b + (j + 1)]] \in Nat /\ Width[t[b + (j + 1)]] >= 1
      BY <1>1, <1>2, <2>1
    <2> QED BY <1>3, <2>2, <2>3
  <1> HIDE DEF T
  <1>6. Nat \subseteq T
    BY <1>4, <1>5, Inductive
  <1>7. ASSUME NEW e \in b .. N PROVE f[e] \in Nat /\ f[e] >= f[b] + (e - b)
    <2>1. e - b \in Nat /\ b + (e - b) = e /\ e <= N /\ e \in 0 .. N
      BY <1>1, <1>3
    <2>2. f[e] >= f[b] + (e - b)
      BY <1>6, <2>1 DEF T
    <2> QED BY <1>1, <2>1, <2>2
  <1> QED BY <1>3, <1>7 DEF N

\* A part is no longer than the text, and a proper one is shorter.
LEMMA PartIsShorter ==
    ASSUME NEW p \in Texts, NEW t \in Texts, Within(p, t)
    PROVE  /\ Size(p) \in Nat /\ Size(t) \in Nat /\ Size(p) <= Size(t)
           /\ p # t => Size(p) < Size(t)
  <1> DEFINE N == Len(t)
             M == Len(p)
  <1>1. PICK i \in 1 .. N - M + 1 : SubSeq(t, i, i + M - 1) = p
    BY DEF Within, StartsAt
  <1>2. N \in Nat /\ M \in Nat /\ SubSeq(t, 1, N) = t
    BY TextFacts
  <1>3. \A j \in 1 .. M : SubSeq(t, i, i + M - 1)[j] = t[i + j - 1]
    BY <1>1, <1>2 DEF Texts
  <1>4. PICK f : Lengths(f, t)
    BY SizeUnfolds
  <1> HIDE DEF N, M
  <1> DEFINE b == i - 1
             e == b + M
  <1>5. b \in 0 .. N /\ e \in 0 .. N /\ e \in b .. N /\ N \in e .. N /\ 0 \in 0 .. N /\ b \in 0 .. b /\ b \in 0 .. N
    BY <1>1, <1>2
  <1>6. f[e] = f[b] + Size(p) /\ Size(p) \in Nat
    <2>1. b \in Nat /\ b + M <= N
      BY <1>5
    <2>2. \A j \in 1 .. M : p[j] = t[b + j]
      <3> SUFFICES ASSUME NEW j \in 1 .. M PROVE p[j] = t[b + j]
        OBVIOUS
      <3>1. i + j - 1 = b + j
        BY <1>1, <1>2
      <3> QED BY <1>1, <1>3, <3>1
    <2> HIDE DEF b
    <2> QED BY <1>4, <2>1, <2>2, SizeBetween DEF N, M
  <1>7. f[0] = 0 /\ f[N] = Size(t)
    BY <1>4 DEF Lengths, N
  <1>8. f[b] \in Nat /\ f[b] >= b
    <2> HIDE DEF b, e
    <2>1. f[b] \in Nat /\ f[b] >= f[0] + (b - 0)
      BY <1>2, <1>4, <1>5, LengthsGrow DEF N
    <2> QED BY <1>5, <1>7, <2>1
  <1>9. f[e] \in Nat /\ f[N] \in Nat /\ f[N] >= f[e] + (N - e)
    <2> HIDE DEF e, b
    <2> QED BY <1>2, <1>4, <1>5, LengthsGrow DEF N
  <1>10. p # t => b > 0 \/ e < N
    <2> SUFFICES ASSUME b = 0, e = N PROVE p = t
      BY <1>5
    <2>1. i = 1 /\ M = N /\ i + M - 1 = N
      BY <1>1, <1>2
    <2> QED BY <1>1, <1>2, <2>1
  <1> HIDE DEF b, e
  <1> QED BY <1>2, <1>5, <1>6, <1>7, <1>8, <1>9, <1>10

\* A piece more.
LEMMA AppendSize ==
    ASSUME NEW u \in Texts, NEW x \in Pieces
    PROVE  Size(Append(u, x)) = Size(u) + Width[x] /\ Size(u) \in Nat
  <1> DEFINE t == Append(u, x)
             M == Len(u)
  <1>1. /\ t \in Texts /\ M \in Nat /\ Len(t) = M + 1 /\ t[M + 1] = x
        /\ \A j \in 1 .. M : u[j] = t[0 + j]
    BY TextFacts DEF Texts
  <1> HIDE DEF t
  <1>2. PICK f : Lengths(f, t)
    BY <1>1, SizeUnfolds
  <1>3. f[0 + M] = f[0] + Size(u) /\ Size(u) \in Nat
    <2>1. 0 + Len(u) <= Len(t)
      BY <1>1
    <2> QED BY <1>1, <1>2, <2>1, SizeBetween DEF M
  <1> HIDE DEF M
  <1>4. f[0] = 0 /\ f[M + 1] = Size(t) /\ f[M + 1] = f[(M + 1) - 1] + Width[t[M + 1]]
    <2>1. M + 1 \in 1 .. Len(t)
      BY <1>1
    <2> QED BY <1>1, <1>2, <2>1 DEF Lengths
  <1>5. 0 + M = M /\ (M + 1) - 1 = M
    BY <1>1
  <1> QED BY <1>1, <1>3, <1>4, <1>5 DEF t

LEMMA EmptySize == Size(<<>>) = 0
  <1>1. <<>> \in Texts /\ Len(<<>>) = 0
    BY DEF Texts
  <1>2. PICK e : Lengths(e, <<>>)
    BY <1>1, SizeUnfolds
  <1> QED BY <1>1, <1>2 DEF Lengths

\* A text without its blanks is no longer.
LEMMA CompactIsShorter ==
    ASSUME NEW s \in Texts
    PROVE  Compact(s) \in Texts /\ Size(Compact(s)) \in Nat /\ Size(s) \in Nat /\ Size(Compact(s)) <= Size(s)
  <1> DEFINE N == Len(s)
  <1>1. PICK f \in [0 .. N -> Texts] :
           /\ f[0] = <<>> /\ f[N] = Compact(s)
           /\ \A k \in 1 .. N : f[k] = IF s[k] = " " THEN f[k - 1] ELSE Append(f[k - 1], s[k])
    BY CompactUnfolds
  <1>2. PICK h : Lengths(h, s)
    BY SizeUnfolds
  <1>3. /\ h \in [0 .. N -> Nat] /\ h[0] = 0 /\ h[N] = Size(s)
        /\ \A k \in 1 .. N : h[k] = h[k - 1] + Width[s[k]]
    BY <1>2 DEF Lengths
  <1>4. N \in Nat /\ \A k \in 1 .. N : s[k] \in Pieces /\ Width[s[k]] \in Nat
    BY TextFacts, PiecesHaveWidth
  <1>5. Size(<<>>) = 0
    BY EmptySize
  <1> HIDE DEF N
  <1> DEFINE T == {k \in Nat : k <= N => Size(f[k]) \in Nat /\ Size(f[k]) <= h[k]}
  <1>6. 0 \in T
    <2>1. Size(f[0]) = 0
      BY <1>1, <1>5
    <2> QED BY <2>1, <1>3
  <1>7. ASSUME NEW k \in Nat, k \in T PROVE k + 1 \in T
    <2> SUFFICES ASSUME k + 1 <= N PROVE Size(f[k + 1]) \in Nat /\ Size(f[k + 1]) <= h[k + 1]
      OBVIOUS
    <2>1. k <= N /\ k \in 0 .. N /\ k + 1 \in 1 .. N /\ (k + 1) - 1 = k
      BY <1>4
    <2>2. Size(f[k]) \in Nat /\ Size(f[k]) <= h[k] /\ h[k] \in Nat /\ f[k] \in Texts
      BY <1>1, <1>3, <1>7, <2>1
    <2> DEFINE x == s[k + 1]
    <2>3. x \in Pieces /\ Width[x] \in Nat /\ h[k + 1] = h[k] + Width[x]
      BY <1>3, <1>4, <2>1
    <2>4. f[k + 1] = IF x = " " THEN f[k] ELSE Append(f[k], x)
      BY <1>1, <2>1
    <2> HIDE DEF x, T
    <2>5. Size(Append(f[k], x)) = Size(f[k]) + Width[x]
      BY <2>2, <2>3, AppendSize
    <2> DEFINE n == Size(f[k])
    <2>6. n \in Nat /\ n <= h[k] /\ Size(Append(f[k], x)) = n + Width[x]
      BY <2>2, <2>5
    <2>7. CASE x = " "
      <3>1. Size(f[k + 1]) = n
        BY <2>4, <2>7
      <3> HIDE DEF n
      <3> QED BY <3>1, <2>2, <2>3, <2>6
    <2>8. CASE x # " "
      <3>1. Size(f[k + 1]) = n + Width[x]
        BY <2>4, <2>6, <2>8
      <3> HIDE DEF n
      <3> QED BY <3>1, <2>2, <2>3, <2>6
    <2> QED BY <2>7, <2>8
  <1> HIDE DEF T
  <1>8. N \in T
    BY <1>4, <1>6, <1>7, Inductive
  <1>9. N <= N /\ N \in 0 .. N
    BY <1>4
  <1> QED BY <1>1, <1>3, <1>8, <1>9 DEF T

LEMMA EmptyPart == ASSUME NEW s \in Texts, NEW k \in Int, k < 0 PROVE SubSeq(s, 1, k) = <<>>
  <1> DEFINE p == SubSeq(s, 1, k)
  <1>1. p \in Texts /\ Len(p) = 0
    BY DEF Texts
  <1> HIDE DEF p
  <1>2. p = <<>>
    BY <1>1 DEF Texts
  <1> QED BY <1>2 DEF p

\* No alias made of a name is longer than it.
LEMMA AliasIsShorter ==
    ASSUME NEW s \in Texts, NEW a \in alias_variants(s)
    PROVE  Size(a) \in Nat /\ Size(normalize_key(s)) \in Nat /\ Size(a) <= Size(normalize_key(s))
  <1> DEFINE name == normalize_key(s)
             ends == {<<" ", "TESTING", " ", "DEVICE">>, <<" ", "DEVICE">>}
  <1>1. name \in Texts
    BY KeyIsText
  <1> HIDE DEF name
  <1>2. PICK v : /\ v = name \/ \E x \in ends : v = Shorn(x, name)
                 /\ a = v \/ a = Compact(v)
    BY DEF alias_variants, name
  <1>3. v \in Texts /\ Size(v) \in Nat /\ Size(name) \in Nat /\ Size(v) <= Size(name)
    <2>1. ASSUME NEW k \in 0 .. Len(name), v = SubSeq(name, 1, k)
          PROVE  v \in Texts /\ Size(v) \in Nat /\ Size(name) \in Nat /\ Size(v) <= Size(name)
      <3>1. Len(name) \in Nat
        BY <1>1, TextFacts
      <3>2. v \in Texts
        BY <1>1, <2>1, <3>1, SubIsText
      <3>3. Len(v) = k /\ 1 + k - 1 = k
        BY <1>1, <2>1, <3>1 DEF Texts
      <3>4. 1 \in 1 .. Len(name) - Len(v) + 1 /\ SubSeq(name, 1, 1 + Len(v) - 1) = v
        BY <2>1, <3>1, <3>3
      <3>5. Within(v, name)
        BY <3>4, SMTT(30) DEF Within, StartsAt
      <3> QED BY <1>1, <3>2, <3>5, PartIsShorter
    <2>2. CASE v = name
      <3>1. Len(name) \in 0 .. Len(name) /\ SubSeq(name, 1, Len(name)) = name
        BY <1>1, TextFacts
      <3> QED BY <2>1, <2>2, <3>1
    <2>3. ASSUME v # name PROVE \E k \in Int : k <= Len(name) /\ v = SubSeq(name, 1, k)
      <3>1. PICK x : x \in ends /\ v = Shorn(x, name)
        BY <1>2, <2>3
      <3>2. Len(x) \in {2, 4} /\ Len(name) \in Nat
        BY <1>1, <3>1, TextFacts
      <3> HIDE DEF ends
      <3>3. Len(name) - Len(x) \in Int /\ Len(name) - Len(x) <= Len(name)
        BY <3>2
      <3> QED BY <3>1, <3>3 DEF Shorn
    <2>4. ASSUME NEW k \in Int, k <= Len(name), v = SubSeq(name, 1, k)
          PROVE  v \in Texts /\ Size(v) \in Nat /\ Size(name) \in Nat /\ Size(v) <= Size(name)
      <3>1. Len(name) \in Nat
        BY <1>1, TextFacts
      <3>2. CASE k \in 0 .. Len(name)
        BY <2>1, <2>4, <3>2
      <3>3. CASE k < 0
        <4>1. SubSeq(name, 1, k) = <<>>
          BY <1>1, <2>4, <3>3, EmptyPart
        <4>2. SubSeq(name, 1, 0) = <<>> /\ 0 \in 0 .. Len(name)
          BY <1>1, <3>1, TextFacts
        <4> QED BY <2>1, <2>4, <4>1, <4>2
      <3> QED BY <2>4, <3>1, <3>2, <3>3
    <2> HIDE DEF ends
    <2> QED BY <2>2, <2>3, <2>4
  <1>4. Size(Compact(v)) \in Nat /\ Size(Compact(v)) <= Size(v)
    BY <1>3, CompactIsShorter
  <1> DEFINE m == Size(v)
             n == Size(Compact(v))
             l == Size(name)
  <1>5. m \in Nat /\ n \in Nat /\ l \in Nat /\ m <= l /\ n <= m
    BY <1>3, <1>4
  <1>6. Size(a) = m \/ Size(a) = n
    BY <1>2
  <1> HIDE DEF m, n, l
  <1>7. Size(a) \in Nat /\ l \in Nat /\ Size(a) <= l
    BY <1>5, <1>6
  <1> QED BY <1>7 DEF l, name

\* The branch of a question is one with the longest alias that is spelled, and no other's name is.
Settled ==
    /\ gate.phase \in {"directory", "scope"} => {"scoped", "branch"} \subseteq DOMAIN gate
    /\ gate.phase \in {"resolved", "answered", "denied"} =>
          LET question == normalize_key(gate.q)
              directory == Directories[gate.directory]
          IN  /\ gate.q \in Sentences /\ gate.directory \in 1 .. Len(Directories)
              /\ Foreign(question, directory, gate.scoped) = {}
              /\ gate.branch \in Matched(Spelled(question, directory, gate.scoped))

LEMMA SettledInit == GateInit => Settled
  BY DEF GateInit, Settled

\* Every step keeps this.
LEMMA SettledStep == Gated /\ Settled /\ [GateNext]_gateVars => Settled'
  <1> SUFFICES ASSUME Gated, Settled, [GateNext]_gateVars PROVE Settled'
    OBVIOUS
  <1>1. ASSUME NEW q \in Sentences, NEW devices \in Callers, Approach(q, devices) PROVE Settled'
    <2>1. gate'.phase = "directory" /\ {"scoped", "branch"} \subseteq DOMAIN gate'
      BY <1>1 DEF Approach
    <2> QED BY <2>1 DEF Settled
  <1>2. CASE ReadDirectory
    <2>1. gate.phase = "directory" /\ "phase" \in DOMAIN gate
      BY <1>2 DEF ReadDirectory, Gated
    <2>2. gate'.phase \in {"unnamed", "scope"} /\ DOMAIN gate' = DOMAIN gate
      BY <1>2, <2>1 DEF ReadDirectory
    <2> QED BY <2>1, <2>2 DEF Settled
  <1>3. CASE ReadCallerScope
    <2>1. /\ gate.phase = "scope" /\ "phase" \in DOMAIN gate
          /\ gate.q \in Sentences /\ gate.directory \in 1 .. Len(Directories)
          /\ {"scoped", "branch"} \subseteq DOMAIN gate
      <3>1. gate.phase = "scope"
        BY <1>3 DEF ReadCallerScope
      <3>2. /\ imported \in 1 .. Len(Directories) /\ gate.since \in 1 .. imported /\ gate.directory \in gate.since .. imported
            /\ gate.q \in Sentences /\ "phase" \in DOMAIN gate
        BY <3>1 DEF Gated
      <3>3. {"scoped", "branch"} \subseteq DOMAIN gate
        BY <3>1 DEF Settled
      <3>4. Len(Directories) \in Nat
        BY GateAssumption
      <3>5. gate.directory \in 1 .. Len(Directories)
        BY <3>2, <3>4
      <3> QED BY <3>1, <3>2, <3>3, <3>5
    <2>2. \/ \E p \in {"refused", "unnamed"} : gate' = [gate EXCEPT !.phase = p]
          \/ \E v \in 1 .. imported :
                /\ Foreign(normalize_key(gate.q), Directories[gate.directory], ScopeAt(v)) = {}
                /\ \E n \in Matched(Spelled(normalize_key(gate.q), Directories[gate.directory], ScopeAt(v))) :
                      gate' = [gate EXCEPT !.phase = "resolved", !.scoped = ScopeAt(v), !.branch = n]
      BY <1>3 DEF ReadCallerScope
    <2>3. ASSUME NEW p \in {"refused", "unnamed"}, gate' = [gate EXCEPT !.phase = p] PROVE Settled'
      <3>1. gate'.phase = p
        BY <2>1, <2>3
      <3> QED BY <3>1 DEF Settled
    <2>4. ASSUME NEW v \in 1 .. imported,
                 Foreign(normalize_key(gate.q), Directories[gate.directory], ScopeAt(v)) = {},
                 NEW n \in Matched(Spelled(normalize_key(gate.q), Directories[gate.directory], ScopeAt(v))),
                 gate' = [gate EXCEPT !.phase = "resolved", !.scoped = ScopeAt(v), !.branch = n]
          PROVE  Settled'
      <3>1. gate'.q = gate.q /\ gate'.directory = gate.directory /\ gate'.scoped = ScopeAt(v) /\ gate'.branch = n
        BY <2>1, <2>4
      <3> QED BY <2>1, <2>4, <3>1 DEF Settled
    <2> QED BY <2>2, <2>3, <2>4
  <1>4. CASE CheckDevice
    <2>1. gate.phase = "resolved" /\ "phase" \in DOMAIN gate
      BY <1>4 DEF CheckDevice, Gated
    <2>3. gate'.phase \in {"answered", "denied"}
      BY <1>4, <2>1 DEF CheckDevice
    <2>2. /\ gate'.q = gate.q /\ gate'.directory = gate.directory
          /\ gate'.scoped = gate.scoped /\ gate'.branch = gate.branch
      BY <1>4 DEF CheckDevice
    <2> QED BY <2>1, <2>2, <2>3 DEF Settled
  <1>5. CASE ImportAgain \/ UNCHANGED gateVars
    BY <1>5 DEF ImportAgain, gateVars, Settled
  <1> QED BY <1>1, <1>2, <1>3, <1>4, <1>5 DEF GateNext

\* A branch that has a device, and whose name is among its aliases.
Reachable(row) == row.device # ""

LEMMA NameIsAlias == ASSUME NEW s, normalize_key(s) # <<>> PROVE normalize_key(s) \in alias_variants(s)
  <1> DEFINE x == normalize_key(s)
             short == {Shorn(e, x) : e \in {e \in {<<" ", "TESTING", " ", "DEVICE">>, <<" ", "DEVICE">>} : IsSuffix(e, x)}}
             V == ({x} \cup short) \ {<<>>}
  <1>1. x \in V /\ alias_variants(s) = UNION {{v, Compact(v)} : v \in V}
    BY DEF alias_variants
  <1> HIDE DEF x, short, V
  <1>2. x \in alias_variants(s)
    BY <1>1
  <1> QED BY <1>2 DEF x

\* A name that is part of another is not answered in its place.
LEMMA SettledWins == Settled => LongestBranchWins
  <1> SUFFICES ASSUME Settled, gate.phase \in {"resolved", "answered", "denied"} PROVE LongestBranchWins
    BY DEF LongestBranchWins
  <1> DEFINE question == normalize_key(gate.q)
             directory == Directories[gate.directory]
             scoped == gate.scoped
             b == gate.branch
             name(n) == normalize_key(directory[n].name)
             spelled == Spelled(question, directory, scoped)
             byName == \A a \in alias_variants(directory[b].id) : matches_explicit_alias(question, a) => Size(a) <= Size(name(b))
  <1>1. /\ gate.directory \in 1 .. Len(Directories) /\ Foreign(question, directory, scoped) = {}
        /\ b \in Matched(spelled)
    BY DEF Settled
  <1>2. \A n \in DOMAIN directory : directory[n].name \in Texts /\ directory[n].id \in Texts /\ name(n) \in Texts
                                  /\ Size(name(n)) \in Nat
    BY <1>1, DirectoryTexts, KeyIsText, CompactIsShorter
  <1> HIDE DEF question, directory, scoped, b
  <1> SUFFICES ASSUME NEW n \in Branches(directory), AsWords(name(n), question), ~ is_weak_alias(name(n)),
                      ~ is_part_of_zone_phrase(question, name(n)),
                      n \in scoped => Reachable(directory[n]),
                      n \notin scoped => Keys(directory[n]) \cap auth_names(directory, scoped) = {},
                      byName, Within(name(b), name(n)), name(b) # name(n)
               PROVE  FALSE
    BY DEF LongestBranchWins, Reachable, question, directory, scoped, b
  <1>3. Size(name(n)) >= 4 /\ Within(name(n), question)
    <2> DEFINE m == Size(name(n))
    <2>1. m \in Nat
      BY <1>2 DEF Branches
    <2>2. ~ (m < 4)
      BY DEF is_weak_alias
    <2>3. Within(name(n), question)
      BY DEF AsWords, Within
    <2> HIDE DEF m
    <2>4. m >= 4
      BY <2>1, <2>2
    <2> QED BY <2>3, <2>4 DEF m
  <1>4. n \in scoped
    <2> SUFFICES ASSUME n \notin scoped PROVE FALSE
      OBVIOUS
    <2>1. Hit(question, directory[n])
      BY <1>3 DEF Hit
    <2> QED BY <1>1, <2>1 DEF Foreign
  <1>5. <<n, name(n)>> \in spelled
    <2>1. name(n) \in alias_variants(directory[n].name)
      <3>1. ASSUME name(n) = <<>> PROVE FALSE
        <4>1. Size(name(n)) = 0
          BY <3>1, EmptySize
        <4> QED BY <1>3, <4>1
      <3> QED BY <3>1, NameIsAlias
    <2>2. matches_explicit_alias(question, name(n))
      BY <1>3 DEF matches_explicit_alias
    <2> DEFINE aliases(k) == alias_variants(directory[k].name) \cup alias_variants(directory[k].id)
               lookups == {k \in Branches(directory) \cap scoped : Reachable(directory[k])}
    <2>3. n \in lookups /\ name(n) \in aliases(n) /\ n \in Branches(directory)
      BY <1>4, <2>1
    <2>4. spelled = {m \in lookups \X UNION {aliases(k) : k \in Branches(directory)} :
                        m[2] \in aliases(m[1]) /\ ~ is_weak_alias(m[2]) /\ matches_explicit_alias(question, m[2])}
      BY DEF Spelled, Reachable
    <2> DEFINE a == name(n)
    <2>5. a \in aliases(n) /\ ~ is_weak_alias(a) /\ matches_explicit_alias(question, a)
      BY <2>2, <2>3
    <2> HIDE DEF lookups, aliases, spelled, a
    <2> QED BY <2>3, <2>4, <2>5 DEF a
  <1>6. PICK m \in spelled : b = m[1] /\ \A o \in spelled : Size(o[2]) <= Size(m[2])
    BY <1>1 DEF Matched
  <1>7. /\ b \in Branches(directory) /\ matches_explicit_alias(question, m[2])
        /\ m[2] \in alias_variants(directory[b].name) \cup alias_variants(directory[b].id)
    BY <1>6 DEF Spelled
  <1>8. Size(name(n)) <= Size(m[2])
    BY <1>5, <1>6
  <1>9. Size(m[2]) <= Size(name(b))
    BY <1>2, <1>7, AliasIsShorter DEF Branches
  <1>10. Size(m[2]) \in Nat
    BY <1>2, <1>7, AliasIsShorter DEF Branches
  <1>11. Size(name(b)) \in Nat /\ Size(name(n)) \in Nat /\ Size(name(b)) < Size(name(n))
    BY <1>2, <1>7, PartIsShorter DEF Branches
  <1> HIDE DEF name, spelled, byName
  <1> DEFINE x == Size(name(b))
             y == Size(name(n))
             z == Size(m[2])
  <1>12. x \in Nat /\ y \in Nat /\ z \in Nat /\ x < y /\ y <= z /\ z <= x
    BY <1>8, <1>9, <1>10, <1>11
  <1> HIDE DEF x, y, z
  <1> QED BY <1>12

\* A question that spells the name of a branch is not answered for a branch whose name is a part
\* of it, whatever the names, the callers and the imports: unless it spells a longer id of this one.
THEOREM LongestWins == AssistantSpec => []LongestBranchWins
  <1>1. AssistantInit => Gated /\ Settled
    BY GatedInit, SettledInit DEF AssistantInit
  <1>2. Gated /\ Settled /\ [AssistantNext]_assistantVars => Gated' /\ Settled'
    <2>1. [AssistantNext]_assistantVars => [GateNext]_gateVars
      BY DEF AssistantNext, MetricStep, FleetStep, AlarmStep, GateStep, assistantVars
    <2> QED BY <2>1, GatedStep, SettledStep
  <1> QED BY <1>1, <1>2, SettledWins, PTL DEF AssistantSpec

=============================================================================
