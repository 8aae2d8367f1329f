------------------------- MODULE ChatMemory_proofs -------------------------
(***************************************************************************)
(* The memory of a session, for any number of overlapping turns: its       *)
(* history window shows whole turns, and has an expiry or is about to get  *)
(* one; turns that follow one another leave what whole turns would.  Then  *)
(* the widget: its turns, its stop button and how its questions end.       *)
(***************************************************************************)
EXTENDS ChatWidget, SequenceTheorems, TLAPS

Labels ==
    {"idle", "get branch", "get intent", "get window", "respond", "push", "trim", "expire", "set intent",
     "set window", "set branch"}
TypeOK ==
    /\ hist \in Seq(Message) /\ lease \in BOOLEAN
    /\ pc \in [Slots -> Labels] /\ turn \in [Slots -> Nat]
    /\ asked \in Nat /\ faults \in Nat

\* The k-th pair of h is a question and its answer; h is a number of such pairs.
PairAt(h, k) ==
    /\ h[2 * k - 1] = [turn |-> h[2 * k].turn, role |-> "user"]
    /\ h[2 * k] = [turn |-> h[2 * k].turn, role |-> "assistant"]
RowsPair(h) == \E n \in Nat : Len(h) = 2 * n /\ \A k \in 1 .. n : PairAt(h, k)

\* Two rows at the same distance make a pair in g as in h.
LEMMA PairMoves ==
    ASSUME NEW h, NEW g, NEW k \in Nat, NEW j \in Nat, PairAt(h, j),
           g[2 * k] = h[2 * j], g[2 * k - 1] = h[2 * j - 1]
    PROVE  PairAt(g, k)
  BY DEF PairAt

LEMMA PushKeepsPairs ==
    ASSUME NEW h \in Seq(Message), RowsPair(h), NEW m \in Nat
    PROVE  h \o Pair(m) \in Seq(Message) /\ RowsPair(h \o Pair(m))
  <1>1. PICK n \in Nat : Len(h) = 2 * n /\ \A k \in 1 .. n : PairAt(h, k)
    BY DEF RowsPair
  <1>2. Pair(m) \in Seq(Message) /\ Len(Pair(m)) = 2
    BY DEF Pair, Message
  <1> DEFINE g == h \o Pair(m)
  <1>3. /\ g \in Seq(Message) /\ Len(g) = Len(h) + 2
        /\ \A i \in 1 .. Len(h) + 2 : g[i] = IF i <= Len(h) THEN h[i] ELSE Pair(m)[i - Len(h)]
    <2>1. /\ g \in Seq(Message) /\ Len(g) = Len(h) + Len(Pair(m))
          /\ \A i \in 1 .. Len(h) + Len(Pair(m)) : g[i] = IF i <= Len(h) THEN h[i] ELSE Pair(m)[i - Len(h)]
      BY <1>2, ConcatProperties, Zenon
    <2> HIDE DEF g
    <2> QED BY <1>2, <2>1
  <1> HIDE DEF g
  <1>4. ASSUME NEW k \in 1 .. n PROVE PairAt(g, k)
    <2>1. 2 * k \in 1 .. Len(h) /\ 2 * k - 1 \in 1 .. Len(h)
      BY <1>1
    <2>2. g[2 * k] = h[2 * k] /\ g[2 * k - 1] = h[2 * k - 1]
      BY <1>1, <1>3, <2>1
    <2> QED BY <1>1, <2>2, PairMoves
  <1>5. PairAt(g, n + 1)
    <2>1. g[2 * n + 1] = Pair(m)[1] /\ g[2 * n + 2] = Pair(m)[2]
      <3>1. g[Len(h) + 1] = Pair(m)[Len(h) + 1 - Len(h)] /\ g[Len(h) + 2] = Pair(m)[Len(h) + 2 - Len(h)]
        BY <1>3
      <3>2. Len(h) = 2 * n
        BY <1>1
      <3>3. Len(h) + 1 - Len(h) = 1 /\ Len(h) + 2 - Len(h) = 2
        OBVIOUS
      <3> QED BY <3>1, <3>2, <3>3, Zenon
    <2>2. 2 * (n + 1) - 1 = 2 * n + 1 /\ 2 * (n + 1) = 2 * n + 2
      OBVIOUS
    <2> QED BY <2>1, <2>2 DEF PairAt, Pair
  <1>6. Len(g) = 2 * (n + 1) /\ \A k \in 1 .. n + 1 : PairAt(g, k)
    BY <1>1, <1>3, <1>4, <1>5
  <1>7. g \in Seq(Message) /\ RowsPair(g)
    BY <1>3, <1>6 DEF RowsPair
  <1> QED BY <1>7 DEF g

LEMMA TrimKeepsPairs ==
    ASSUME NEW h \in Seq(Message), RowsPair(h)
    PROVE  Trimmed(h) \in Seq(Message) /\ RowsPair(Trimmed(h))
  <1>1. PICK n \in Nat : Len(h) = 2 * n /\ \A k \in 1 .. n : PairAt(h, k)
    BY DEF RowsPair
  <1>2. CASE Len(h) <= MaxHistory
    BY <1>2 DEF Trimmed
  <1>3. CASE Len(h) > MaxHistory
    <2> DEFINE g == SubSeq(h, Len(h) - 3, Len(h))
    <2>1. Trimmed(h) = g /\ n > 2 /\ h # <<>>
      BY <1>1, <1>3 DEF Trimmed, MaxHistory
    <2>2. \A i \in Len(h) - 3 .. Len(h) : h[i] \in Message
      BY <1>1, <2>1
    <2>3. g \in Seq(Message) /\ Len(g) = 4 /\ \A i \in 1 .. 4 : g[i] = h[Len(h) - 3 + i - 1]
      BY <1>1, <2>2, SubSeqProperties
    <2> HIDE DEF g
    <2>4. ASSUME NEW k \in 1 .. 2 PROVE PairAt(g, k)
      <3>1. PICK j \in 1 .. n : j = n - 2 + k
        BY <2>1
      <3>2. /\ 2 * k \in 1 .. 4 /\ Len(h) - 3 + 2 * k - 1 = 2 * j
            /\ 2 * k - 1 \in 1 .. 4 /\ Len(h) - 3 + (2 * k - 1) - 1 = 2 * j - 1
        BY <1>1, <3>1
      <3>3. g[2 * k] = h[2 * j] /\ g[2 * k - 1] = h[2 * j - 1]
        BY <2>3, <3>2
      <3>4. PairAt(h, j) /\ j \in Nat /\ k \in Nat
        BY <1>1, <3>1
      <3> QED BY <3>3, <3>4, PairMoves
    <2>5. Len(g) = 2 * 2 /\ \A k \in 1 .. 2 : PairAt(g, k)
      BY <2>3, <2>4
    <2> QED BY <2>1, <2>3, <2>5 DEF RowsPair
  <1> QED BY <1>1, <1>2, <1>3 DEF MaxHistory

LEMMA TwoRows ==
    ASSUME NEW h \in Seq(Message), NEW a \in 1 .. Len(h) - 1
    PROVE  SubSeq(h, a, a + 1) = <<h[a], h[a + 1]>>
  <1> DEFINE g == SubSeq(h, a, a + 1)
  <1>1. a \in Int /\ a + 1 \in Int /\ \A j \in a .. a + 1 : h[j] \in Message
    OBVIOUS
  <1>2. g \in Seq(Message) /\ Len(g) = 2 /\ \A j \in 1 .. 2 : g[j] = h[a + j - 1]
    BY <1>1, SubSeqProperties
  <1> HIDE DEF g
  <1>3. Len(g) = 2 /\ g[1] = h[a] /\ g[2] = h[a + 1]
    BY <1>2
  <1>4. <<h[a], h[a + 1]>> \in Seq(Message)
    BY <1>1
  <1>5. g = <<h[a], h[a + 1]>>
    BY <1>2, <1>3, <1>4, SeqEqual
  <1> QED BY <1>5 DEF g

LEMMA RowsMakePairs == ASSUME hist \in Seq(Message), RowsPair(hist) PROVE HistoryIsPairs
  <1>1. PICK n \in Nat : Len(hist) = 2 * n /\ \A k \in 1 .. n : PairAt(hist, k)
    BY DEF RowsPair
  <1>2. Len(hist) % 2 = 0 /\ Len(hist) \div 2 = n
    BY <1>1
  <1>3. ASSUME NEW i \in 1 .. n PROVE SubSeq(hist, 2 * i - 1, 2 * i) = Pair(hist[2 * i].turn)
    <2>1. 2 * i - 1 \in 1 .. Len(hist) - 1 /\ 2 * i - 1 + 1 = 2 * i
      BY <1>1
    <2>2. SubSeq(hist, 2 * i - 1, 2 * i) = <<hist[2 * i - 1], hist[2 * i]>>
      BY <2>1, TwoRows
    <2> QED BY <1>1, <2>2 DEF PairAt, Pair
  <1> QED BY <1>2, <1>3 DEF HistoryIsPairs

----------------------------------------------------------------------------
\* Between two commands of any turn the window is made of pairs: a turn pushes both of
\* its messages at once, and the window is even.
WholeTurns == TypeOK /\ RowsPair(hist)

LEMMA EmptyWindow == <<>> \in Seq(Message) /\ RowsPair(<<>>)
  <1>1. 0 \in Nat /\ Len(<<>>) = 2 * 0 /\ \A k \in 1 .. 0 : PairAt(<<>>, k)
    OBVIOUS
  <1> QED BY <1>1 DEF RowsPair

LEMMA WholeTurnsInit == Init => WholeTurns
  <1> SUFFICES ASSUME Init PROVE WholeTurns
    OBVIOUS
  <1>1. hist = <<>> /\ lease = FALSE /\ asked = 0 /\ faults = 0
    BY DEF Init
  <1>2. pc \in [Slots -> Labels] /\ turn \in [Slots -> Nat]
    BY DEF Init, Labels
  <1> QED BY <1>1, <1>2, EmptyWindow DEF WholeTurns, TypeOK

LEMMA MovesTyped ==
    ASSUME TypeOK, NEW t \in Slots, NEW label \in Labels, GoTo(t, label)
    PROVE  pc' \in [Slots -> Labels] /\ turn' \in [Slots -> Nat] /\ pc'[t] = label
  BY DEF TypeOK, GoTo, Stand

LEMMA TypesOfSteps ==
    ASSUME TypeOK, Next, hist' \in Seq(Message)
    PROVE  TypeOK'
  <1> USE DEF TypeOK
  <1>1. ASSUME NEW t \in Slots, Ask(t) PROVE TypeOK'
    <2>1. asked' = asked + 1 /\ UNCHANGED <<lease, faults>>
      BY <1>1 DEF Ask, memory
    <2>2. \/ UNCHANGED <<pc, turn>>
          \/ pc' = [pc EXCEPT ![t] = "get branch"] /\ turn' = [turn EXCEPT ![t] = asked + 1]
      BY <1>1 DEF Ask, Stand, slot
    <2>3. "get branch" \in Labels
      BY DEF Labels
    <2>4. pc' \in [Slots -> Labels]
      BY <2>2, <2>3
    <2>5. asked + 1 \in Nat
      OBVIOUS
    <2>6. turn' \in [Slots -> Nat]
      BY <2>2, <2>5
    <2> QED BY <2>1, <2>4, <2>5, <2>6
  <1>2. ASSUME NEW t \in Slots, Load(t) \/ LoadFails(t) PROVE TypeOK'
    <2>1. \E label \in Labels : pc' = [pc EXCEPT ![t] = label]
      BY <1>2 DEF Load, Get, LoadFails, Stand, Labels
    <2>2. UNCHANGED <<lease, turn, asked>> /\ faults' \in {faults, faults + 1}
      BY <1>2 DEF Load, Get, LoadFails, Fault, memory
    <2> QED BY <2>1, <2>2
  <1>3. ASSUME NEW t \in Slots, Respond(t) \/ Push(t) \/ Trim(t) \/ Expire(t) PROVE TypeOK'
    BY <1>3, MovesTyped DEF Respond, Push, Trim, Expire, Labels, memory
  <1>4. ASSUME NEW t \in Slots, SetIntent(t) \/ SetWindow(t) \/ SetBranch(t) PROVE TypeOK'
    BY <1>4, MovesTyped DEF SetIntent, SetWindow, SetBranch, Labels
  <1>5. ASSUME NEW t \in Slots, WriteFails(t) \/ Abandon(t) PROVE TypeOK'
    <2>1. PICK label \in Labels : GoTo(t, label)
      BY <1>5 DEF WriteFails, Abandon, Labels
    <2>2. pc' \in [Slots -> Labels] /\ turn' \in [Slots -> Nat]
      BY <2>1, MovesTyped
    <2>3. UNCHANGED <<lease, asked>> /\ faults' = faults + 1
      BY <1>5 DEF WriteFails, Abandon, Fault, memory
    <2> QED BY <2>2, <2>3
  <1>6. CASE Lapse
    BY <1>6 DEF Lapse, slot
  <1> QED BY <1>1, <1>2, <1>3, <1>4, <1>5, <1>6 DEF Next

LEMMA WindowSteps ==
    ASSUME WholeTurns, Next
    PROVE  hist' \in Seq(Message) /\ RowsPair(hist')
  <1>1. ASSUME NEW t \in Slots, Push(t) PROVE hist' \in Seq(Message) /\ RowsPair(hist')
    BY <1>1, PushKeepsPairs DEF Push, WholeTurns, TypeOK
  <1>2. ASSUME NEW t \in Slots, Trim(t) PROVE hist' \in Seq(Message) /\ RowsPair(hist')
    BY <1>2, TrimKeepsPairs DEF Trim, WholeTurns, TypeOK
  <1>3. CASE Lapse
    <2>1. hist' = <<>> \/ hist' = hist
      BY <1>3 DEF Lapse
    <2>2. CASE hist' = <<>>
      BY <2>2, EmptyWindow
    <2>3. CASE hist' = hist
      BY <2>3 DEF WholeTurns, TypeOK, RowsPair, PairAt
    <2> QED BY <2>1, <2>2, <2>3
  <1>4. CASE UNCHANGED hist
    BY <1>4 DEF WholeTurns, TypeOK, RowsPair, PairAt
  <1> QED
    BY <1>1, <1>2, <1>3, <1>4 DEF Next, Ask, Load, Get, Respond, Expire, SetIntent, SetWindow, SetBranch,
       LoadFails, WriteFails, Abandon, memory

LEMMA WholeTurnsStep == WholeTurns /\ [Next]_vars => WholeTurns'
  <1>1. ASSUME WholeTurns, Next PROVE WholeTurns'
    BY <1>1, WindowSteps, TypesOfSteps DEF WholeTurns
  <1>2. ASSUME WholeTurns, UNCHANGED vars PROVE WholeTurns'
    BY <1>2 DEF WholeTurns, TypeOK, RowsPair, PairAt, vars, memory, slot
  <1> QED BY <1>1, <1>2

\* However the turns of a session overlap, fail, are abandoned or lapse, the window that
\* ConversationMemory shows consists of whole turns, question before answer.
THEOREM WindowIsWholeTurns == Spec => []HistoryIsPairs
  <1>1. WholeTurns => HistoryIsPairs
    BY RowsMakePairs DEF WholeTurns, TypeOK
  <1> QED BY <1>1, WholeTurnsInit, WholeTurnsStep, PTL DEF Spec

----------------------------------------------------------------------------
LEMMA ExpiryStep == WholeTurns /\ HistoryExpires /\ [Next]_vars => HistoryExpires'
  <1> SUFFICES ASSUME WholeTurns, HistoryExpires, [Next]_vars, faults' = 0, hist' # <<>>, ~ lease'
               PROVE  \E t \in Slots : pc'[t] \in {"trim", "expire"}
    BY DEF HistoryExpires
  <1> USE DEF WholeTurns, TypeOK
  <1>1. ASSUME NEW t \in Slots, Push(t) \/ Trim(t) PROVE pc'[t] \in {"trim", "expire"}
    BY <1>1, MovesTyped DEF Push, Trim, Labels
  <1>2. ASSUME NEW t \in Slots, Expire(t) PROVE FALSE
    BY <1>2 DEF Expire
  <1>3. CASE Lapse
    <2>1. UNCHANGED <<hist, lease, faults, pc>>
      BY <1>3 DEF Lapse, slot
    <2> QED BY <2>1 DEF HistoryExpires
  <1>4. ASSUME UNCHANGED <<hist, lease, faults>>,
               NEW t \in Slots, pc[t] \in {"trim", "expire"} => pc'[t] = pc[t],
               \A u \in Slots \ {t} : pc'[u] = pc[u]
        PROVE  \E u \in Slots : pc'[u] \in {"trim", "expire"}
    BY <1>4 DEF HistoryExpires
  <1>5. ASSUME NEW t \in Slots, Ask(t) \/ Load(t) \/ Respond(t) \/ SetIntent(t) \/ SetWindow(t) \/ SetBranch(t)
        PROVE  \E u \in Slots : pc'[u] \in {"trim", "expire"}
    <2>1. UNCHANGED <<hist, lease, faults>> /\ pc[t] \notin {"trim", "expire"}
      BY <1>5 DEF Ask, Load, Get, Respond, SetIntent, SetWindow, SetBranch, memory
    <2>2. \A u \in Slots \ {t} : pc'[u] = pc[u]
      BY <1>5 DEF Ask, Load, Get, Respond, SetIntent, SetWindow, SetBranch, GoTo, Stand, slot
    <2> QED BY <1>4, <2>1, <2>2
  <1>6. ASSUME NEW t \in Slots, LoadFails(t) \/ WriteFails(t) \/ Abandon(t) PROVE FALSE
    <2>1. faults' = faults + 1
      BY <1>6 DEF LoadFails, WriteFails, Abandon, Fault
    <2> QED BY <2>1
  <1>7. CASE UNCHANGED <<hist, lease, faults, pc>>
    BY <1>7 DEF HistoryExpires
  <1> QED BY <1>1, <1>2, <1>3, <1>5, <1>6, <1>7 DEF Next, vars, memory, slot

\* Unless a command failed or a turn was cut off, a window without an expiry is about to
\* get one, whichever of the overlapping turns set or trimmed it last.
THEOREM WindowExpires == Spec => []HistoryExpires
  <1>1. Init => WholeTurns /\ HistoryExpires
    BY WholeTurnsInit DEF Init, HistoryExpires
  <1>2. WholeTurns /\ HistoryExpires /\ [Next]_vars => (WholeTurns /\ HistoryExpires)'
    BY WholeTurnsStep, ExpiryStep
  <1> QED BY <1>1, <1>2, PTL DEF Spec

(***************************************************************************)
(* Turns that do not overlap.                                              *)
(***************************************************************************)
\* The keys once a turn is over that began with those of c.
Or(new, old) == IF new = None THEN old ELSE new
Kept(q, c) ==
    IF q.outcome = "error" THEN [c EXCEPT !.branch = Or(Branch(q, c), @)]
    ELSE [branch |-> Or(Branch(q, c), c.branch), intent |-> Intent(q, c), window |-> Or(Period(q, c), c.window)]

\* What is left of the turn of t makes of the memory what the whole turn was to make.
Underway(t) ==
    LET q == question[t]
        c == context[t]
        m == [hist |-> hist, keys |-> keys]
    IN /\ q.outcome # "refused"
       /\ pc[t] \in {"get branch", "get intent", "get window", "respond", "push"} =>
            ideal = Turn(m, q, turn[t])
       /\ pc[t] \in {"get intent", "get window", "respond", "push"} => c.branch = keys.branch
       /\ pc[t] \in {"get window", "respond", "push"} => c.intent = keys.intent
       /\ pc[t] \in {"respond", "push"} => c.window = keys.window
       /\ pc[t] = "trim" => ideal.hist = Trimmed(hist)
       /\ pc[t] \in {"expire", "set intent", "set window", "set branch"} => ideal.hist = hist
       /\ pc[t] \in {"push", "trim", "expire", "set intent", "set window", "set branch"} =>
            q.outcome \in {"error", "answered"}
       /\ pc[t] \in {"trim", "expire", "set intent", "set window", "set branch"} =>
            ideal.keys = Kept(q, c)
       /\ pc[t] \in {"trim", "expire", "set intent"} => c = keys
       /\ pc[t] = "set window" => q.outcome = "answered" /\ keys = [c EXCEPT !.intent = Intent(q, c)]
       /\ pc[t] = "set branch" => keys = [ideal.keys EXCEPT !.branch = c.branch]

\* What the slots hold.
SlotTypes ==
    /\ pc \in [Slots -> Labels] /\ turn \in [Slots -> Nat]
    /\ question \in [Slots -> Questions \cup {Some}] /\ context \in [Slots -> Keys]

MemoryState == [hist : Seq(Message), keys : Keys]

Serial ==
    /\ asked \in 0 .. MaxTurns /\ lapses \in Nat /\ keys \in Keys /\ SlotTypes
    /\ \A t \in Slots : pc[t] # "idle" => question[t] \in Questions
    /\ ideal \in MemoryState \cup {None}
    /\ SerialMemory
    /\ ideal # None /\ faults = 0 /\ lapses = 0 =>
         \A t \in Slots : pc[t] # "idle" => Underway(t) /\ \A u \in Slots : pc[u] # "idle" => u = t

\* A turn that is over left what it was to leave.
Settles(t) ==
    IF pc[t] = "idle" THEN ideal = [hist |-> hist, keys |-> keys] ELSE Underway(t)

LEMMA TrimTyped ==
    ASSUME NEW h \in Seq(Message)
    PROVE  Trimmed(h) \in Seq(Message)
  <1>1. CASE Len(h) <= MaxHistory
    BY <1>1 DEF Trimmed
  <1>2. CASE Len(h) > MaxHistory
    <2>1. \A i \in Len(h) - 3 .. Len(h) : h[i] \in Message
      BY <1>2 DEF MaxHistory
    <2>2. SubSeq(h, Len(h) - 3, Len(h)) \in Seq(Message)
      BY <2>1, SubSeqProperties
    <2>3. Len(h) - MaxHistory + 1 = Len(h) - 3
      BY DEF MaxHistory
    <2> QED BY <1>2, <2>2, <2>3 DEF Trimmed
  <1> QED BY <1>1, <1>2 DEF MaxHistory

LEMMA MeaningTyped ==
    ASSUME NEW q \in Questions, NEW c \in Keys
    PROVE  /\ Branch(q, c) \in Devices \cup {None} /\ Intent(q, c) \in Intents
           /\ Period(q, c) \in Windows \cup {None} /\ q.outcome \in Outcome
           /\ Intent(q, c) # None
  <1>1. q \in Question
    BY MemoryAssumption
  <1>2. Branch(q, c) \in Devices \cup {None}
    BY <1>1 DEF Branch, Question
  <1>3. Intent(q, c) \in Intents
    BY <1>1 DEF Intent, Inherits, Question, Keys
  <1>4. Period(q, c) \in Windows \cup {None}
    BY <1>1 DEF Period, Inherits, Question, Keys
  <1> QED BY <1>1, <1>2, <1>3, <1>4, MemoryAssumption DEF Question

LEMMA KeptTyped ==
    ASSUME NEW q \in Questions, NEW c \in Keys
    PROVE  Kept(q, c) \in Keys
  BY MeaningTyped DEF Kept, Or, Keys

LEMMA TurnFacts ==
    ASSUME NEW m \in MemoryState, NEW q \in Questions, NEW n \in Nat
    PROVE  /\ Turn(m, q, n) \in MemoryState
           /\ q.outcome \in {"refused", "shared", "raised"} => Turn(m, q, n) = m
           /\ q.outcome \in {"error", "answered"} =>
                Turn(m, q, n) = [hist |-> Trimmed(m.hist \o Pair(n)), keys |-> Kept(q, m.keys)]
  <1>1. q.outcome \in Outcome /\ m.keys \in Keys /\ m.hist \in Seq(Message)
    BY MeaningTyped DEF MemoryState, NoMemory, Keys
  <1>2. CASE q.outcome \in {"refused", "shared", "raised"}
    BY <1>2 DEF Turn
  <1>3. CASE q.outcome \in {"error", "answered"}
    <2>1. Turn(m, q, n) = [hist |-> Trimmed(m.hist \o Pair(n)), keys |-> Kept(q, m.keys)]
      BY <1>3 DEF Turn, Kept, Or
    <2>2. m.hist \o Pair(n) \in Seq(Message)
      BY <1>1 DEF Pair, Message
    <2>3. Turn(m, q, n) \in MemoryState
      <3>1. Trimmed(m.hist \o Pair(n)) \in Seq(Message) /\ Kept(q, m.keys) \in Keys
        BY <1>1, <2>2, TrimTyped, KeptTyped
      <3> QED BY <2>1, <3>1 DEF MemoryState
    <2> QED BY <1>3, <2>1, <2>3
  <1> QED BY <1>1, <1>2, <1>3 DEF Outcome

LEMMA SerialInit == Init => Serial
  <1> SUFFICES ASSUME Init PROVE Serial
    OBVIOUS
  <1>1. NoMemory \in Keys
    BY DEF NoMemory, Keys
  <1>2. asked \in 0 .. MaxTurns /\ lapses \in Nat
    BY MemoryAssumption DEF Init
  <1>3. ideal \in MemoryState
    BY <1>1 DEF Init, MemoryState
  <1>4. SlotTypes
    BY <1>1 DEF Init, SlotTypes, Labels
  <1> QED BY <1>1, <1>2, <1>3, <1>4 DEF Init, Serial, SerialMemory

\* Only the slot of t moves; its turn stays the same one until it is over.
Moves(t) ==
    /\ SlotTypes'
    /\ \A u \in Slots : u # t =>
         pc'[u] = pc[u] /\ question'[u] = question[u] /\ turn'[u] = turn[u] /\ context'[u] = context[u]
    /\ pc'[t] # "idle" => question'[t] = question[t] /\ turn'[t] = turn[t]

LEMMA GoToMoves ==
    ASSUME SlotTypes, NEW t \in Slots, NEW label \in Labels, GoTo(t, label)
    PROVE  /\ Moves(t) /\ pc'[t] = label
           /\ label # "idle" => UNCHANGED <<question, turn, context>>
  <1>1. pc' = [pc EXCEPT ![t] = label] /\ NoMemory \in Keys
    BY DEF GoTo, Stand, NoMemory, Keys
  <1>2. CASE label = "idle"
    <2>1. /\ question' = [question EXCEPT ![t] = Some] /\ turn' = [turn EXCEPT ![t] = 0]
          /\ context' = [context EXCEPT ![t] = NoMemory]
      BY <1>2 DEF GoTo
    <2> QED BY <1>1, <1>2, <2>1 DEF SlotTypes, Moves
  <1>3. CASE label # "idle"
    <2>1. UNCHANGED <<question, turn, context>>
      BY <1>3 DEF GoTo
    <2> QED BY <1>1, <1>3, <2>1 DEF SlotTypes, Moves
  <1> QED BY <1>2, <1>3

LEMMA GetMoves ==
    ASSUME SlotTypes, keys \in Keys, NEW t \in Slots, Load(t)
    PROVE  Moves(t) /\ pc[t] # "idle" /\ pc'[t] # "idle"
  <1>1. ASSUME NEW key \in {"branch", "intent", "window"}, NEW label \in Labels \ {"idle"},
               context' = [context EXCEPT ![t][key] = keys[key]], Stand(t, label),
               UNCHANGED <<question, turn>>
        PROVE  Moves(t) /\ pc'[t] # "idle"
    <2>1. [context[t] EXCEPT ![key] = keys[key]] \in Keys
      BY DEF SlotTypes, Keys
    <2>2. context' \in [Slots -> Keys] /\ \A u \in Slots : u # t => context'[u] = context[u]
      BY <1>1, <2>1 DEF SlotTypes
    <2>3. pc' = [pc EXCEPT ![t] = label]
      BY <1>1 DEF Stand
    <2> QED BY <1>1, <2>2, <2>3 DEF Moves, SlotTypes
  <1>2. {"get intent", "get window", "respond"} \subseteq Labels \ {"idle"}
    BY DEF Labels
  <1>3. PICK from \in {"get branch", "get intent", "get window"}, key \in {"branch", "intent", "window"},
             label \in {"get intent", "get window", "respond"} : Get(t, from, key, label)
    BY DEF Load
  <1> QED BY <1>1, <1>2, <1>3 DEF Get

LEMMA LoadFailsMoves ==
    ASSUME SlotTypes, NEW t \in Slots, LoadFails(t)
    PROVE  Moves(t) /\ pc[t] # "idle" /\ pc'[t] # "idle"
  <1>1. /\ context' = [context EXCEPT ![t] = NoMemory] /\ pc' = [pc EXCEPT ![t] = "respond"]
        /\ UNCHANGED <<question, turn>> /\ pc[t] # "idle"
    BY DEF LoadFails, Stand
  <1>2. NoMemory \in Keys /\ "respond" \in Labels
    BY DEF NoMemory, Keys, Labels
  <1> QED BY <1>1, <1>2 DEF SlotTypes, Moves

\* The commands of a turn, and its end.
Command(t) ==
    \/ Load(t) \/ Respond(t) \/ Push(t) \/ Trim(t) \/ Expire(t)
    \/ SetIntent(t) \/ SetWindow(t) \/ SetBranch(t) \/ LoadFails(t) \/ WriteFails(t) \/ Abandon(t)

LEMMA CommandMoves ==
    ASSUME SlotTypes, keys \in Keys, NEW t \in Slots, Command(t)
    PROVE  /\ Moves(t) /\ pc[t] # "idle" /\ UNCHANGED <<asked, lapses, ideal>>
           /\ UNCHANGED faults \/ faults' = faults + 1
  <1>1. CASE Load(t)
    <2>1. UNCHANGED <<asked, lapses, ideal, faults>>
      BY <1>1 DEF Load, Get
    <2> QED BY <1>1, <2>1, GetMoves
  <1>2. CASE LoadFails(t)
    <2>1. UNCHANGED <<asked, lapses, ideal>> /\ faults' = faults + 1
      BY <1>2 DEF LoadFails, Fault
    <2> QED BY <1>2, <2>1, LoadFailsMoves
  <1>3. CASE Respond(t) \/ Push(t) \/ Trim(t) \/ Expire(t)
    <2>1. UNCHANGED <<asked, lapses, ideal, faults>> /\ pc[t] # "idle"
      BY <1>3 DEF Respond, Push, Trim, Expire
    <2>2. \E label \in Labels : GoTo(t, label)
      BY <1>3 DEF Respond, Push, Trim, Expire, Labels
    <2> QED BY <2>1, <2>2, GoToMoves
  <1>4. CASE SetIntent(t) \/ SetWindow(t) \/ SetBranch(t)
    <2>1. UNCHANGED <<asked, lapses, ideal, faults>> /\ pc[t] # "idle"
      BY <1>4 DEF SetIntent, SetWindow, SetBranch
    <2>2. \E label \in Labels : GoTo(t, label)
      BY <1>4 DEF SetIntent, SetWindow, SetBranch, Labels
    <2> QED BY <2>1, <2>2, GoToMoves
  <1>5. CASE WriteFails(t) \/ Abandon(t)
    <2>1. UNCHANGED <<asked, lapses, ideal>> /\ faults' = faults + 1 /\ pc[t] # "idle"
      BY <1>5 DEF WriteFails, Abandon, Fault
    <2>2. \E label \in Labels : GoTo(t, label)
      BY <1>5 DEF WriteFails, Abandon, Labels
    <2> QED BY <2>1, <2>2, GoToMoves
  <1> QED BY <1>1, <1>2, <1>3, <1>4, <1>5 DEF Command

\* Every command of a turn that is alone does its part of it.
Alone(t) ==
    /\ SlotTypes /\ hist \in Seq(Message) /\ keys \in Keys
    /\ question[t] \in Questions /\ ideal \in MemoryState /\ Underway(t)

LEMMA LoadDoesItsPart ==
    ASSUME NEW t \in Slots, Alone(t), Load(t)
    PROVE  Settles(t)'
  <1>1. /\ UNCHANGED <<hist, keys, ideal>> /\ question'[t] = question[t] /\ turn'[t] = turn[t]
        /\ context[t] \in Keys
    BY DEF Load, Get, memory, Alone, SlotTypes
  <1>2. CASE Get(t, "get branch", "branch", "get intent")
    <2>1. pc[t] = "get branch" /\ pc'[t] = "get intent" /\ context'[t].branch = keys.branch
      BY <1>1, <1>2 DEF Get, Stand, Alone, SlotTypes, Keys
    <2> QED BY <1>1, <2>1 DEF Alone, Underway, Settles
  <1>3. CASE Get(t, "get intent", "intent", "get window")
    <2>1. /\ pc[t] = "get intent" /\ pc'[t] = "get window"
          /\ context'[t].branch = context[t].branch /\ context'[t].intent = keys.intent
      BY <1>1, <1>3 DEF Get, Stand, Alone, SlotTypes, Keys
    <2> QED BY <1>1, <2>1 DEF Alone, Underway, Settles
  <1>4. CASE Get(t, "get window", "window", "respond")
    <2>1. /\ pc[t] = "get window" /\ pc'[t] = "respond" /\ context'[t].branch = context[t].branch
          /\ context'[t].intent = context[t].intent /\ context'[t].window = keys.window
      BY <1>1, <1>4 DEF Get, Stand, Alone, SlotTypes, Keys
    <2> QED BY <1>1, <2>1 DEF Alone, Underway, Settles
  <1> QED BY <1>2, <1>3, <1>4 DEF Load

\* The memory as the record that Turn works on.
LEMMA AsRecord ==
    ASSUME NEW m \in MemoryState
    PROVE  m = [hist |-> m.hist, keys |-> m.keys] /\ m.hist \in Seq(Message) /\ m.keys \in Keys
  BY DEF MemoryState

LEMMA SameKeys ==
    ASSUME NEW c \in Keys, NEW d \in Keys, c.branch = d.branch, c.intent = d.intent, c.window = d.window
    PROVE  c = d
  BY DEF Keys

LEMMA RespondDoesItsPart ==
    ASSUME NEW t \in Slots, Alone(t), Respond(t)
    PROVE  Settles(t)'
  <1> DEFINE m == [hist |-> hist, keys |-> keys]
             q == question[t]
  <1>1. pc[t] = "respond" /\ UNCHANGED <<hist, keys, ideal>> /\ pc' = [pc EXCEPT ![t] = pc'[t]]
        /\ pc'[t] = IF q.outcome \in {"shared", "raised"} THEN "idle" ELSE "push"
    BY DEF Respond, GoTo, Stand, memory, Alone, SlotTypes
  <1>2. ideal = Turn(m, q, turn[t]) /\ q \in Questions /\ turn[t] \in Nat /\ m \in MemoryState
    BY <1>1 DEF Alone, Underway, SlotTypes, MemoryState
  <1>3. CASE q.outcome \in {"shared", "raised"}
    <2>1. ideal = m
      BY <1>2, <1>3, TurnFacts
    <2> QED BY <1>1, <1>3, <2>1 DEF Settles
  <1>4. CASE q.outcome \notin {"shared", "raised"}
    <2>1. pc'[t] = "push" /\ UNCHANGED <<question, turn, context>>
      BY <1>1, <1>4 DEF Respond, GoTo
    <2>2. q.outcome \in {"error", "answered"}
      BY <1>2, <1>4, MeaningTyped DEF Alone, Underway, SlotTypes, Outcome
    <2> QED BY <1>1, <2>1, <2>2 DEF Alone, Underway, Settles
  <1> QED BY <1>3, <1>4

LEMMA WindowDoesItsPart ==
    ASSUME NEW t \in Slots, Alone(t), Push(t) \/ Trim(t) \/ Expire(t)
    PROVE  Settles(t)'
  <1> DEFINE m == [hist |-> hist, keys |-> keys]
             q == question[t]
             c == context[t]
  <1>1. UNCHANGED <<keys, ideal, question, turn, context>> /\ pc' = [pc EXCEPT ![t] = pc'[t]]
    BY DEF Push, Trim, Expire, GoTo, Stand, Alone, SlotTypes
  <1>2. q \in Questions /\ c \in Keys /\ turn[t] \in Nat /\ m \in MemoryState
    BY DEF Alone, SlotTypes, MemoryState
  <1>3. CASE Push(t)
    <2>1. pc[t] = "push" /\ pc'[t] = "trim" /\ hist' = hist \o Pair(turn[t])
      BY <1>3 DEF Push, GoTo, Stand, Alone, SlotTypes
    <2>2. c = keys /\ q.outcome \in {"error", "answered"} /\ ideal = Turn(m, q, turn[t])
      BY <1>2, <2>1, SameKeys DEF Alone, Underway
    <2>3. ideal = [hist |-> Trimmed(m.hist \o Pair(turn[t])), keys |-> Kept(q, m.keys)]
      BY <1>2, <2>2, TurnFacts
    <2>4. ideal.hist = Trimmed(hist') /\ ideal.keys = Kept(q, c)
      BY <2>1, <2>2, <2>3
    <2> QED BY <1>1, <2>1, <2>2, <2>4 DEF Underway, Settles
  <1>4. CASE Trim(t)
    <2>1. pc[t] = "trim" /\ pc'[t] = "expire" /\ hist' = Trimmed(hist)
      BY <1>4 DEF Trim, GoTo, Stand, Alone, SlotTypes
    <2> QED BY <1>1, <2>1 DEF Alone, Underway, Settles
  <1>5. CASE Expire(t)
    <2>1. pc[t] = "expire" /\ pc'[t] = "set intent" /\ hist' = hist
      BY <1>5 DEF Expire, GoTo, Stand, Alone, SlotTypes
    <2> QED BY <1>1, <2>1 DEF Alone, Underway, Settles
  <1> QED BY <1>3, <1>4, <1>5

LEMMA KeysDoTheirPart ==
    ASSUME NEW t \in Slots, Alone(t), SetIntent(t) \/ SetWindow(t) \/ SetBranch(t)
    PROVE  Settles(t)'
  <1> DEFINE q == question[t]
             c == context[t]
  <1>1. UNCHANGED <<hist, ideal>> /\ pc' = [pc EXCEPT ![t] = pc'[t]]
    BY DEF SetIntent, SetWindow, SetBranch, GoTo, Stand, Alone, SlotTypes
  <1>2. q \in Questions /\ c \in Keys /\ keys \in Keys /\ ideal.keys \in Keys
    BY AsRecord DEF Alone, SlotTypes
  <1>3. /\ Branch(q, c) \in Devices \cup {None} /\ Intent(q, c) # None
        /\ Period(q, c) \in Windows \cup {None}
    BY <1>2, MeaningTyped
  <1>4. CASE SetIntent(t) /\ q.outcome = "answered"
    <2>1. /\ pc[t] = "set intent" /\ pc'[t] = "set window" /\ UNCHANGED <<question, turn, context>>
          /\ keys' = [keys EXCEPT !.intent = Intent(q, c)]
      BY <1>3, <1>4 DEF SetIntent, Set, GoTo, Stand, Alone, SlotTypes
    <2> QED BY <1>1, <1>4, <2>1 DEF Alone, Underway, Settles
  <1>5. CASE SetIntent(t) /\ q.outcome # "answered"
    <2>1. pc[t] = "set intent" /\ pc'[t] = "set branch" /\ UNCHANGED <<keys, question, turn, context>>
      BY <1>5 DEF SetIntent, GoTo, Stand, Alone, SlotTypes
    <2>2. q.outcome = "error" /\ ideal.keys = Kept(q, c) /\ keys = c
      BY <1>5, <2>1 DEF Alone, Underway
    <2>3. keys = [ideal.keys EXCEPT !.branch = c.branch]
      BY <1>2, <2>2 DEF Kept, Keys
    <2> QED BY <1>1, <2>1, <2>3 DEF Alone, Underway, Settles
  <1>6. CASE SetWindow(t)
    <2>1. pc[t] = "set window" /\ pc'[t] = "set branch" /\ UNCHANGED <<question, turn, context>>
      BY <1>6 DEF SetWindow, GoTo, Stand, Alone, SlotTypes
    <2>2. /\ q.outcome = "answered" /\ ideal.keys = Kept(q, c)
          /\ keys = [c EXCEPT !.intent = Intent(q, c)]
      BY <2>1 DEF Alone, Underway
    <2>3. keys' = [branch |-> c.branch, intent |-> Intent(q, c), window |-> Or(Period(q, c), c.window)]
      <3>1. keys' = IF Period(q, c) = None THEN keys ELSE [keys EXCEPT !["window"] = Period(q, c)]
        BY <1>6 DEF SetWindow, Set
      <3> QED BY <1>2, <2>2, <3>1 DEF Or, Keys
    <2>4. ideal.keys = [branch |-> Or(Branch(q, c), c.branch), intent |-> Intent(q, c),
                        window |-> Or(Period(q, c), c.window)]
      BY <2>2 DEF Kept
    <2>5. keys' = [ideal.keys EXCEPT !.branch = c.branch]
      BY <2>3, <2>4
    <2> QED BY <1>1, <2>1, <2>5 DEF Alone, Underway, Settles
  <1>7. CASE SetBranch(t)
    <2>1. pc[t] = "set branch" /\ pc'[t] = "idle"
      BY <1>7 DEF SetBranch, GoTo, Stand, Alone, SlotTypes
    <2>2. keys = [ideal.keys EXCEPT !.branch = c.branch] /\ ideal.keys = Kept(q, c) /\ ideal.hist = hist
      BY <2>1 DEF Alone, Underway
    <2>3. ideal.keys.branch = Or(Branch(q, c), c.branch)
      BY <1>2, <2>2 DEF Kept, Keys
    <2>4. keys' = IF Branch(q, c) = None THEN keys ELSE [keys EXCEPT !["branch"] = Branch(q, c)]
      BY <1>7 DEF SetBranch, Set
    <2>5. keys' = ideal.keys
      BY <1>2, <2>2, <2>3, <2>4 DEF Or, Keys
    <2>6. ideal = [hist |-> ideal.hist, keys |-> ideal.keys]
      BY AsRecord DEF Alone
    <2> QED BY <1>1, <2>1, <2>2, <2>5, <2>6 DEF Settles
  <1> QED BY <1>4, <1>5, <1>6, <1>7

LEMMA CommandKeysTyped ==
    ASSUME Serial, NEW t \in Slots, Command(t)
    PROVE  keys' \in Keys
  <1>1. ASSUME NEW v, UNCHANGED keys \/ Set("branch", v), v \in Devices \cup {None} PROVE keys' \in Keys
    BY <1>1 DEF Serial, Set, Keys
  <1>2. ASSUME NEW v, UNCHANGED keys \/ Set("intent", v), v \in Intents PROVE keys' \in Keys
    BY <1>2 DEF Serial, Set, Keys
  <1>3. ASSUME NEW v, UNCHANGED keys \/ Set("window", v), v \in Windows \cup {None} PROVE keys' \in Keys
    BY <1>3 DEF Serial, Set, Keys
  <1>4. CASE UNCHANGED keys
    BY <1>4 DEF Serial
  <1>5. ASSUME SetIntent(t) \/ SetWindow(t) \/ SetBranch(t)
        PROVE  question[t] \in Questions /\ context[t] \in Keys
    BY <1>5 DEF SetIntent, SetWindow, SetBranch, Serial, SlotTypes
  <1>6. CASE SetIntent(t)
    <2>1. UNCHANGED keys \/ Set("intent", Intent(question[t], context[t]))
      BY <1>6 DEF SetIntent
    <2>2. Intent(question[t], context[t]) \in Intents
      BY <1>5, <1>6, MeaningTyped
    <2> QED BY <1>2, <2>1, <2>2
  <1>7. CASE SetWindow(t)
    <2>1. Set("window", Period(question[t], context[t]))
      BY <1>7 DEF SetWindow
    <2>2. Period(question[t], context[t]) \in Windows \cup {None}
      BY <1>5, <1>7, MeaningTyped
    <2> QED BY <1>3, <2>1, <2>2
  <1>8. CASE SetBranch(t)
    <2>1. Set("branch", Branch(question[t], context[t]))
      BY <1>8 DEF SetBranch
    <2>2. Branch(question[t], context[t]) \in Devices \cup {None}
      BY <1>5, <1>8, MeaningTyped
    <2> QED BY <1>1, <2>1, <2>2
  <1> QED BY <1>4, <1>6, <1>7, <1>8 DEF Command, Load, Get, Respond, Push, Trim, Expire, LoadFails, WriteFails,
             Abandon, memory

LEMMA CommandKeepsSerial ==
    ASSUME TypeOK, Serial, NEW t \in Slots, Command(t)
    PROVE  Serial'
  <1>1. /\ Moves(t) /\ pc[t] # "idle" /\ UNCHANGED <<asked, lapses, ideal>>
        /\ UNCHANGED faults \/ faults' = faults + 1
    BY CommandMoves DEF Serial
  <1>2. keys' \in Keys
    BY CommandKeysTyped
  <1>3. ASSUME NEW u \in Slots, pc'[u] # "idle" PROVE question'[u] \in Questions
    BY <1>1, <1>3 DEF Serial, Moves
  <1>4. /\ asked' \in 0 .. MaxTurns /\ lapses' \in Nat /\ keys' \in Keys /\ SlotTypes'
        /\ ideal' \in MemoryState \cup {None}
    BY <1>1, <1>2 DEF Serial, Moves
  <1>5. CASE ideal' = None \/ faults' # 0 \/ lapses' # 0
    BY <1>3, <1>4, <1>5 DEF Serial, SerialMemory
  <1>6. CASE ideal' # None /\ faults' = 0 /\ lapses' = 0
    <2>1. ideal # None /\ faults = 0 /\ lapses = 0 /\ UNCHANGED faults
      BY <1>1, <1>6 DEF TypeOK
    <2>2. Underway(t) /\ \A u \in Slots : pc[u] # "idle" => u = t
      BY <1>1, <2>1 DEF Serial
    <2>3. \A u \in Slots : pc'[u] # "idle" => u = t
      BY <1>1, <2>2 DEF Moves
    <2>4. Alone(t)
      BY <1>1, <2>1, <2>2 DEF Alone, Serial, TypeOK
    <2>5. ~ (LoadFails(t) \/ WriteFails(t) \/ Abandon(t))
      BY <2>1 DEF LoadFails, WriteFails, Abandon, Fault
    <2>6. Settles(t)'
      BY <2>4, <2>5, LoadDoesItsPart, RespondDoesItsPart, WindowDoesItsPart, KeysDoTheirPart DEF Command
    <2>7. SerialMemory'
      BY <2>6 DEF Settles, SerialMemory, Quiet
    <2>8. \A u \in Slots : pc'[u] # "idle" => Underway(u)' /\ u = t
      BY <2>3, <2>6 DEF Settles
    <2> QED BY <1>3, <1>4, <2>3, <2>7, <2>8 DEF Serial
  <1> QED BY <1>5, <1>6

LEMMA AskKeepsSerial ==
    ASSUME TypeOK, Serial, NEW t \in Slots, Ask(t)
    PROVE  Serial'
  <1>1. PICK q \in Questions :
           /\ IF q.outcome = "refused"
                THEN UNCHANGED slot
                ELSE /\ question' = [question EXCEPT ![t] = q] /\ turn' = [turn EXCEPT ![t] = asked + 1]
                     /\ pc' = [pc EXCEPT ![t] = "get branch"] /\ UNCHANGED context
           /\ ideal' = IF Quiet /\ ideal # None THEN Turn(ideal, q, asked + 1) ELSE None
    BY DEF Ask, Stand
  <1>2. /\ pc[t] = "idle" /\ asked < MaxTurns /\ asked' = asked + 1
        /\ UNCHANGED <<hist, keys, faults, lapses>>
    BY DEF Ask, memory
  <1>3. asked \in Nat /\ asked' \in 0 .. MaxTurns
    BY <1>2, MemoryAssumption DEF Serial
  <1>4. ideal' \in MemoryState \cup {None}
    <2>1. CASE Quiet /\ ideal # None
      <3>1. ideal \in MemoryState /\ asked + 1 \in Nat
        BY <1>3, <2>1 DEF Serial
      <3>2. Turn(ideal, q, asked + 1) \in MemoryState
        BY <3>1, TurnFacts
      <3> QED BY <1>1, <2>1, <3>2
    <2>2. CASE ~ (Quiet /\ ideal # None)
      BY <1>1, <2>2
    <2> QED BY <2>1, <2>2
  <1>5. CASE q.outcome = "refused"
    <2>1. UNCHANGED <<pc, question, turn, context>>
      BY <1>1, <1>5 DEF slot
    <2>2. ideal' = None \/ (Quiet /\ ideal' = ideal)
      BY <1>1, <1>3, <1>5, TurnFacts DEF Serial
    <2>3. SlotTypes' /\ \A u \in Slots : pc'[u] # "idle" => question'[u] \in Questions
      BY <2>1 DEF Serial, SlotTypes
    <2>4. CASE ideal' = None
      BY <1>2, <1>3, <1>4, <2>3, <2>4 DEF Serial, SerialMemory
    <2>5. CASE Quiet /\ ideal' = ideal
      <3>1. \A u \in Slots : pc'[u] = "idle"
        BY <2>1, <2>5 DEF Quiet
      <3>2. SerialMemory'
        BY <1>2, <2>5 DEF Serial, SerialMemory
      <3> QED BY <1>2, <1>3, <1>4, <2>3, <3>1, <3>2 DEF Serial
    <2> QED BY <2>2, <2>4, <2>5
  <1>6. CASE q.outcome # "refused"
    <2>1. /\ question' = [question EXCEPT ![t] = q] /\ turn' = [turn EXCEPT ![t] = asked + 1]
          /\ pc' = [pc EXCEPT ![t] = "get branch"] /\ UNCHANGED context
      BY <1>1, <1>6
    <2>2. SlotTypes' /\ \A u \in Slots : pc'[u] # "idle" => question'[u] \in Questions
      <3>1. pc' \in [Slots -> Labels] /\ context' \in [Slots -> Keys]
        BY <2>1 DEF Serial, SlotTypes, Labels
      <3>2. turn' \in [Slots -> Nat]
        <4>1. turn \in [Slots -> Nat] /\ asked + 1 \in Nat
          BY <1>3 DEF Serial, SlotTypes
        <4> QED BY <2>1, <4>1
      <3>3. question' \in [Slots -> Questions \cup {Some}]
        BY <2>1 DEF Serial, SlotTypes
      <3>4. ASSUME NEW u \in Slots, pc'[u] # "idle" PROVE question'[u] \in Questions
        BY <2>1, <3>4 DEF Serial, SlotTypes
      <3> QED BY <3>1, <3>2, <3>3, <3>4 DEF SlotTypes
    <2>3. ~ Quiet' /\ pc'[t] = "get branch" /\ question'[t] = q /\ turn'[t] = asked + 1
      BY <2>1 DEF Serial, SlotTypes, Quiet
    <2>4. ASSUME ideal' # None, faults' = 0, lapses' = 0, NEW u \in Slots, pc'[u] # "idle"
          PROVE  Underway(u)' /\ u = t
      <3>1. Quiet /\ ideal # None /\ ideal' = Turn(ideal, q, asked + 1)
        BY <1>1, <2>4
      <3>2. u = t
        BY <2>1, <2>4, <3>1 DEF Quiet, Serial, SlotTypes
      <3>3. ideal = [hist |-> hist, keys |-> keys]
        BY <1>2, <2>4, <3>1 DEF Serial, SerialMemory
      <3> QED BY <1>2, <1>6, <2>3, <3>1, <3>2, <3>3 DEF Underway
    <2>5. SerialMemory'
      BY <2>3 DEF SerialMemory
    <2>6. keys' \in Keys /\ lapses' \in Nat
      BY <1>2 DEF Serial
    <2>7. ideal' # None /\ faults' = 0 /\ lapses' = 0 =>
             \A u \in Slots : pc'[u] # "idle" => Underway(u)' /\ \A v \in Slots : pc'[v] # "idle" => v = u
      BY <2>4
    <2> QED BY <1>3, <1>4, <2>2, <2>5, <2>6, <2>7 DEF Serial
  <1> QED BY <1>5, <1>6

\* A connection that is lost is a fault, and nothing else to the server.
Lost == Fault /\ UNCHANGED <<memory, slot, asked, lapses, ideal>>

LEMMA SerialStep ==
    ASSUME TypeOK, Serial, [Next]_vars \/ Lost
    PROVE  Serial'
  <1>1. CASE Lapse
    <2>1. /\ UNCHANGED <<pc, question, turn, context, asked, faults, ideal>>
          /\ lapses' \in Nat /\ lapses' # 0
      BY <1>1 DEF Lapse, slot, Serial
    <2>2. keys' \in Keys
      <3>1. UNCHANGED keys \/ \E k \in DOMAIN keys : keys' = [keys EXCEPT ![k] = None]
        BY <1>1 DEF Lapse
      <3> QED BY <3>1 DEF Serial, Keys
    <2> QED BY <2>1, <2>2 DEF Serial, SerialMemory, SlotTypes
  <1>2. CASE Lost
    <2>1. /\ UNCHANGED <<hist, lease, keys, pc, question, turn, context, asked, lapses, ideal>>
          /\ faults' # 0
      BY <1>2 DEF Lost, Fault, memory, slot, TypeOK
    <2> QED BY <2>1 DEF Serial, SerialMemory, SlotTypes
  <1>3. CASE UNCHANGED vars
    <2>1. UNCHANGED <<hist, lease, keys, pc, question, turn, context, asked, faults, lapses, ideal>>
      BY <1>3 DEF vars, memory, slot
    <2>2. \A t \in Slots : Underway(t)' = Underway(t)
      BY <2>1 DEF Underway
    <2>3. SerialMemory' /\ SlotTypes'
      BY <2>1 DEF Serial, SerialMemory, Quiet, SlotTypes
    <2> QED BY <2>1, <2>2, <2>3 DEF Serial
  <1> QED BY <1>1, <1>2, <1>3, CommandKeepsSerial, AskKeepsSerial DEF Next, Command

\* Turns that follow one another leave in the memory what whole turns would, however
\* many Redis commands each of them is, for any questions.
THEOREM TurnsAreSerial == Spec => []SerialMemory
  <1>1. Init => WholeTurns /\ Serial
    BY WholeTurnsInit, SerialInit
  <1>2. WholeTurns /\ Serial /\ [Next]_vars => (WholeTurns /\ Serial)'
    BY WholeTurnsStep, SerialStep DEF WholeTurns
  <1>3. Serial => SerialMemory
    BY DEF Serial
  <1> QED BY <1>1, <1>2, <1>3, PTL DEF Spec

(***************************************************************************)
(* The widget.                                                             *)
(***************************************************************************)
ScreenOK ==
    /\ embedded \in BOOLEAN /\ isLoading \in BOOLEAN /\ isStreaming \in BOOLEAN /\ hasty \in BOOLEAN
    /\ abortRef \in Nat /\ stopped \subseteq Turns
    /\ reader \in [Turns -> {"unsent", "waiting", "framed", "settled", "bare"}]
    /\ wire \in [Turns -> {"none", "done", "error", "broken"}]

\* The last question sent is the one that loads and streams.
Shown ==
    /\ isLoading => isStreaming /\ reader[asked] = "waiting"
    /\ isStreaming => asked \in Turns /\ abortRef = asked /\ Reads(asked)
    /\ ~ isStreaming => abortRef = 0
    /\ ~ hasty => /\ \A m, n \in Turns : Reads(m) /\ Reads(n) => m = n
                  /\ \A n \in Turns : reader[n] = "waiting" => isLoading
    /\ \A n \in Turns : reader[n] = "bare" => n \in stopped

\* A turn under way is that of the question whose frame is still to come.
Calm == ~ hasty /\ stopped = {} /\ faults = 0
InTurn ==
    /\ \A n \in Turns : wire[n] # "broken"
    /\ \A t, u \in Slots : pc[t] # "idle" /\ pc[u] # "idle" => t = u
    /\ \A t \in Slots : pc[t] # "idle" =>
          turn[t] \in Turns /\ reader[turn[t]] = "waiting" /\ wire[turn[t]] = "none"

Widget == ScreenOK /\ (embedded => Shown /\ (Calm => InTurn /\ ideal # None))

LEMMA WidgetInit == SessionInit => Widget
  <1> SUFFICES ASSUME SessionInit PROVE Widget
    OBVIOUS
  <1>1. ideal \in MemoryState
    BY DEF SessionInit, Init, MemoryState, NoMemory, Keys
  <1>2. ideal # None
    BY <1>1, MemoryAssumption DEF MemoryState
  <1>3. ScreenOK
    BY DEF SessionInit, ScreenOK
  <1>4. Shown
    BY DEF SessionInit, Shown, Reads
  <1>5. InTurn
    BY DEF SessionInit, Init, InTurn
  <1> QED BY <1>2, <1>3, <1>4, <1>5 DEF Widget

\* To the server a step of a session is one of its own, a connection that is lost, or
\* nothing.
LEMMA ServerStep ==
    ASSUME [SessionNext]_sessionVars
    PROVE  [Next]_vars \/ Lost
  <1>1. CASE UNCHANGED sessionVars
    BY <1>1 DEF sessionVars
  <1>2. ASSUME NEW t \in Slots, Send(t) \/ Serve(t) \/ Raise(t) \/ Drop(t) PROVE Next
    BY <1>2 DEF Send, Serve, Raise, Drop, Next
  <1>3. ASSUME NEW n \in Turns, ReadFrame(n) \/ ReadEnd(n) \/ StreamBreaks(n) \/ Aborted(n) PROVE UNCHANGED vars
    BY <1>3 DEF ReadFrame, ReadEnd, StreamBreaks, Aborted
  <1>4. ASSUME NEW n \in Turns, LoseConnection(n) PROVE Lost
    BY <1>4 DEF LoseConnection, Lost
  <1>5. CASE Stop
    BY <1>5 DEF Stop
  <1> QED BY <1>1, <1>2, <1>3, <1>4, <1>5 DEF SessionNext, WidgetNext

LEMMA LostKeepsWholeTurns ==
    ASSUME WholeTurns, Lost
    PROVE  WholeTurns'
  <1>1. UNCHANGED <<hist, lease, pc, turn, asked>> /\ faults' = faults + 1
    BY DEF Lost, Fault, memory, slot
  <1>2. TypeOK'
    BY <1>1 DEF WholeTurns, TypeOK
  <1>3. RowsPair(hist)'
    BY <1>1 DEF WholeTurns
  <1> QED BY <1>2, <1>3 DEF WholeTurns

LEMMA SessionTypes ==
    ASSUME WholeTurns, Serial, [SessionNext]_sessionVars
    PROVE  WholeTurns' /\ Serial'
  <1>1. [Next]_vars \/ Lost
    BY ServerStep
  <1>2. Serial'
    BY <1>1, SerialStep DEF WholeTurns
  <1>3. [Next]_vars => WholeTurns'
    BY WholeTurnsStep
  <1>4. Lost => WholeTurns'
    BY LostKeepsWholeTurns
  <1> QED BY <1>1, <1>2, <1>3, <1>4

(***************************************************************************)
(* The steps of the widget and of its server.                              *)
(***************************************************************************)
Good == WholeTurns /\ Serial /\ Widget /\ embedded

LEMMA SendKeeps ==
    ASSUME Good, UNCHANGED embedded, NEW t \in Slots, Send(t)
    PROVE  Widget'
  <1> DEFINE n == asked + 1
  <1>1. /\ ~ isLoading /\ pc[t] = "idle" /\ asked' = n /\ n \in Turns
        /\ UNCHANGED <<faults, stopped>>
    <2>1. /\ ~ isLoading /\ pc[t] = "idle" /\ asked' = n /\ asked < MaxTurns
          /\ UNCHANGED <<faults, stopped>>
      BY DEF Send, Ask
    <2>2. asked \in 0 .. MaxTurns /\ MaxTurns \in Nat
      BY MemoryAssumption DEF Good, Serial
    <2>3. n \in Turns
      BY <2>1, <2>2 DEF Turns
    <2> QED BY <2>1, <2>3
  <1>2. /\ isLoading' = TRUE /\ isStreaming' = TRUE /\ abortRef' = n
        /\ reader' = [reader EXCEPT ![n] = "waiting"]
        /\ wire' = [wire EXCEPT ![n] = IF pc'[t] = "idle" THEN "done" ELSE "none"]
        /\ hasty' = (hasty \/ \E m \in Turns : Reads(m))
    BY <1>1 DEF Send
  <1>3. ScreenOK /\ Shown /\ TypeOK
    BY DEF Good, Widget, WholeTurns
  <1> HIDE DEF n
  <1>4. ScreenOK'
    <2>1. n \in Nat
      BY <1>1 DEF Turns
    <2>2. reader' \in [Turns -> {"unsent", "waiting", "framed", "settled", "bare"}]
      BY <1>1, <1>2, <1>3 DEF ScreenOK
    <2>3. wire' \in [Turns -> {"none", "done", "error", "broken"}]
      BY <1>1, <1>2, <1>3 DEF ScreenOK
    <2>4. hasty' \in BOOLEAN
      BY <1>2, <1>3 DEF ScreenOK
    <2> QED BY <1>1, <1>2, <1>3, <2>1, <2>2, <2>3, <2>4 DEF ScreenOK
  <1>5. \A m \in Turns : reader'[m] = IF m = n THEN "waiting" ELSE reader[m]
    BY <1>1, <1>2, <1>3 DEF ScreenOK
  <1>6. Shown'
    <2>1. /\ isLoading' /\ isStreaming' /\ abortRef' = asked' /\ asked' \in Turns
          /\ reader'[asked'] = "waiting"
      BY <1>1, <1>2, <1>5
    <2>2. ASSUME ~ hasty' PROVE \A m \in Turns : reader[m] \notin {"waiting", "framed"}
      BY <1>2, <2>2 DEF Reads
    <2>3. ~ hasty' => \A m, k \in Turns : Reads(m)' /\ Reads(k)' => m = k
      BY <1>5, <2>2 DEF Reads
    <2>4. \A m \in Turns : reader'[m] = "bare" => m \in stopped'
      BY <1>1, <1>3, <1>5 DEF Shown
    <2> QED BY <2>1, <2>3, <2>4 DEF Shown, Reads
  <1>7. ASSUME Calm' PROVE InTurn' /\ ideal' # None
    <2>1. Calm /\ \A m \in Turns : ~ Reads(m)
      BY <1>1, <1>2, <1>7 DEF Calm
    <2>2. InTurn /\ ideal # None
      BY <2>1 DEF Good, Widget
    <2>3. Quiet
      BY <2>1, <2>2 DEF InTurn, Reads, Quiet
    <2>4. PICK q \in Questions :
             /\ IF q.outcome = "refused"
                  THEN UNCHANGED slot
                  ELSE /\ turn' = [turn EXCEPT ![t] = n] /\ pc' = [pc EXCEPT ![t] = "get branch"]
             /\ ideal' = Turn(ideal, q, n)
      BY <2>2, <2>3 DEF Send, Ask, Stand, n
    <2>5. ideal' # None
      <3>1. ideal \in MemoryState /\ n \in Nat
        BY <1>1, <2>2 DEF Good, Serial, Turns
      <3>2. ideal' \in MemoryState
        BY <2>4, <3>1, TurnFacts
      <3> QED BY <3>2, MemoryAssumption DEF MemoryState
    <2>6. ASSUME NEW u \in Slots, pc'[u] # "idle"
          PROVE  u = t /\ turn'[u] = n
      <3>1. CASE q.outcome = "refused"
        BY <2>3, <2>4, <2>6, <3>1 DEF slot, Quiet
      <3>2. CASE q.outcome # "refused"
        BY <1>3, <2>3, <2>4, <2>6, <3>2 DEF Quiet, TypeOK
      <3> QED BY <3>1, <3>2
    <2>7. \A m \in Turns : wire'[m] = IF m = n THEN IF pc'[t] = "idle" THEN "done" ELSE "none" ELSE wire[m]
      BY <1>1, <1>2, <1>3 DEF ScreenOK
    <2>8. InTurn'
      BY <1>1, <1>5, <2>2, <2>6, <2>7 DEF InTurn
    <2> QED BY <2>5, <2>8
  <1> QED BY <1>4, <1>6, <1>7 DEF Widget

\* Nothing of the screen changes, and no question gets a frame that it was not owed.
LEMMA ServerKeeps ==
    ASSUME Good, UNCHANGED <<embedded, screen>>, NEW t \in Slots, Command(t),
           NEW end \in {"done", "error", "broken"},
           wire' = (IF pc'[t] = "idle" THEN Sent(turn[t], end) ELSE wire),
           end = "broken" => faults' # 0
    PROVE  Widget'
  <1>1. UNCHANGED <<isLoading, isStreaming, abortRef, reader, stopped, hasty>>
    BY DEF screen
  <1>2. /\ Moves(t) /\ pc[t] # "idle" /\ UNCHANGED <<asked, lapses, ideal>>
        /\ UNCHANGED faults \/ faults' = faults + 1
    BY CommandMoves DEF Good, Serial
  <1>3. ScreenOK /\ Shown /\ TypeOK
    BY DEF Good, Widget, WholeTurns
  <1>4. ScreenOK'
    <2>1. wire' \in [Turns -> {"none", "done", "error", "broken"}]
      BY <1>3 DEF Sent, ScreenOK
    <2> QED BY <1>1, <1>3, <2>1 DEF ScreenOK
  <1>5. Shown'
    BY <1>1, <1>2, <1>3 DEF Shown, Reads
  <1>6. ASSUME Calm' PROVE InTurn' /\ ideal' # None
    <2>1. Calm
      BY <1>1, <1>2, <1>3, <1>6 DEF Calm, TypeOK
    <2>2. InTurn /\ ideal # None
      BY <2>1 DEF Good, Widget
    <2>3. end # "broken"
      BY <1>6 DEF Calm
    <2>4. \A n \in Turns : wire'[n] # "broken"
      BY <1>3, <2>2, <2>3 DEF Sent, InTurn, ScreenOK
    <2>5. ASSUME NEW u \in Slots, pc'[u] # "idle" PROVE u = t /\ turn'[u] = turn[t] /\ wire' = wire
      <3>1. u = t
        BY <1>2, <2>2, <2>5 DEF Moves, InTurn
      <3> QED BY <1>2, <2>5, <3>1 DEF Moves
    <2>6. InTurn'
      BY <1>1, <1>2, <2>2, <2>4, <2>5 DEF InTurn
    <2> QED BY <1>2, <2>2, <2>6
  <1> QED BY <1>4, <1>5, <1>6 DEF Widget

LEMMA ReadFrameKeeps ==
    ASSUME Good, UNCHANGED embedded, NEW n \in Turns, ReadFrame(n)
    PROVE  Widget'
  <1>1. /\ reader[n] = "waiting" /\ wire[n] \in {"done", "error"} /\ isLoading' = FALSE
        /\ reader' = [reader EXCEPT ![n] = "framed"]
        /\ UNCHANGED <<isStreaming, abortRef, stopped, hasty, wire, pc, turn, asked, faults, ideal>>
    BY DEF ReadFrame, vars, slot
  <1>2. ScreenOK /\ Shown
    BY DEF Good, Widget
  <1>3. ScreenOK'
    BY <1>1, <1>2 DEF ScreenOK
  <1>4. \A m \in Turns : reader'[m] = IF m = n THEN "framed" ELSE reader[m]
    BY <1>1, <1>2 DEF ScreenOK
  <1>5. Shown'
    BY <1>1, <1>2, <1>4 DEF Shown, Reads
  <1>6. Calm' => InTurn' /\ ideal' # None
    BY <1>1, <1>4 DEF Good, Widget, Calm, InTurn
  <1> QED BY <1>3, <1>5, <1>6 DEF Widget

\* The finally block of a question that no turn is to answer any more.
LEMMA FinallyKeeps ==
    ASSUME Good, UNCHANGED embedded, NEW n \in Turns, NEW shown \in {"settled", "bare"},
           Finally(n, shown), Reads(n), shown = "bare" => n \in stopped,
           UNCHANGED <<pc, turn, asked, ideal>>, faults' \in Nat, faults' = 0 => faults = 0,
           Calm' => reader[n] = "framed"
    PROVE  Widget'
  <1>1. /\ isLoading' = FALSE /\ isStreaming' = FALSE /\ abortRef' = 0
        /\ reader' = [reader EXCEPT ![n] = shown] /\ wire' = [wire EXCEPT ![n] = "none"]
        /\ UNCHANGED <<stopped, hasty>>
    BY DEF Finally
  <1>2. ScreenOK /\ Shown
    BY DEF Good, Widget
  <1>3. ScreenOK'
    BY <1>1, <1>2 DEF ScreenOK
  <1>4. \A m \in Turns : /\ reader'[m] = IF m = n THEN shown ELSE reader[m]
                         /\ wire'[m] = IF m = n THEN "none" ELSE wire[m]
    BY <1>1, <1>2 DEF ScreenOK
  <1>5. Shown'
    BY <1>1, <1>2, <1>4 DEF Shown, Reads
  <1>6. Calm' => InTurn' /\ ideal' # None
    BY <1>1, <1>4 DEF Good, Widget, Calm, InTurn
  <1> QED BY <1>3, <1>5, <1>6 DEF Widget

LEMMA StopKeeps ==
    ASSUME Good, UNCHANGED embedded, Stop
    PROVE  Widget'
  <1>1. /\ isStreaming /\ stopped' = stopped \cup {abortRef}
        /\ UNCHANGED <<isLoading, isStreaming, abortRef, reader, hasty, wire, pc, turn, asked, faults, ideal>>
    BY DEF Stop, vars, slot
  <1>2. ScreenOK /\ Shown
    BY DEF Good, Widget
  <1>3. ScreenOK' /\ Shown'
    BY <1>1, <1>2 DEF ScreenOK, Shown, Reads
  <1>4. ~ Calm'
    BY <1>1 DEF Calm
  <1> QED BY <1>3, <1>4 DEF Widget

LEMMA WidgetStep ==
    ASSUME Good, UNCHANGED embedded, WidgetNext
    PROVE  Widget'
  <1>1. ASSUME NEW t \in Slots, Serve(t) PROVE Widget'
    <2>1. Command(t) /\ UNCHANGED screen
      BY <1>1 DEF Serve, Command
    <2>2. pc[t] # "idle"
      BY <2>1, CommandMoves DEF Good, Serial
    <2>3. wire' = IF pc'[t] = "idle" THEN Sent(turn[t], "done") ELSE wire
      BY <1>1, <2>2 DEF Serve, Served
    <2> QED BY <2>1, <2>3, ServerKeeps
  <1>2. ASSUME NEW t \in Slots, Raise(t) \/ Drop(t) PROVE Widget'
    <2>1. Command(t) /\ UNCHANGED screen /\ faults' # 0
      <3>1. Abandon(t) /\ UNCHANGED screen
        BY <1>2 DEF Raise, Drop
      <3>2. faults' # 0
        BY <3>1 DEF Abandon, Fault, Good, WholeTurns, TypeOK
      <3> QED BY <3>1, <3>2 DEF Command
    <2>2. pc'[t] = "idle"
      BY <1>2 DEF Raise, Drop, Abandon, GoTo, Stand, Good, WholeTurns, TypeOK
    <2>3. wire' = Sent(turn[t], "error") \/ wire' = Sent(turn[t], "broken")
      BY <1>2 DEF Raise, Drop
    <2> QED BY <2>1, <2>2, <2>3, ServerKeeps
  <1>3. ASSUME NEW n \in Turns, ReadEnd(n) PROVE Widget'
    <2>1. /\ reader[n] = "framed" /\ Finally(n, "settled")
          /\ UNCHANGED <<pc, turn, asked, ideal, faults>> /\ Reads(n) /\ faults' \in Nat
      BY <1>3 DEF ReadEnd, vars, slot, Reads, Good, WholeTurns, TypeOK
    <2> QED BY <2>1, FinallyKeeps
  <1>4. ASSUME NEW n \in Turns, StreamBreaks(n) PROVE Widget'
    <2>1. /\ wire[n] = "broken" /\ Reads(n) /\ Finally(n, "settled") /\ UNCHANGED <<stopped, hasty>>
          /\ UNCHANGED <<pc, turn, asked, ideal, faults>> /\ faults' \in Nat
      BY <1>4 DEF StreamBreaks, Apologise, Finally, vars, slot, Good, WholeTurns, TypeOK
    <2>2. ~ Calm'
      BY <2>1 DEF Good, Widget, Calm, InTurn
    <2> QED BY <2>1, <2>2, FinallyKeeps
  <1>5. ASSUME NEW n \in Turns, LoseConnection(n) PROVE Widget'
    <2>1. /\ Reads(n) /\ Finally(n, "settled") /\ UNCHANGED <<pc, turn, asked, ideal>>
          /\ faults' \in Nat /\ faults' # 0
      BY <1>5 DEF LoseConnection, Apologise, Fault, slot, Good, WholeTurns, TypeOK
    <2>2. ~ Calm'
      BY <2>1 DEF Calm
    <2> QED BY <2>1, <2>2, FinallyKeeps
  <1>6. ASSUME NEW n \in Turns, Aborted(n) PROVE Widget'
    <2>1. /\ Reads(n) /\ n \in stopped /\ UNCHANGED <<pc, turn, asked, ideal, faults>> /\ faults' \in Nat
          /\ Finally(n, "settled") \/ Finally(n, "bare")
      BY <1>6 DEF Aborted, vars, slot, Good, WholeTurns, TypeOK
    <2>2. ~ Calm'
      BY <2>1 DEF Finally, Calm
    <2> QED BY <2>1, <2>2, FinallyKeeps
  <1> QED BY <1>1, <1>2, <1>3, <1>4, <1>5, <1>6, SendKeeps, ReadFrameKeeps, StopKeeps DEF WidgetNext

Orderly == WholeTurns /\ Serial /\ Widget

LEMMA OrderlyStep ==
    ASSUME Orderly, [SessionNext]_sessionVars
    PROVE  Orderly'
  <1>1. WholeTurns' /\ Serial'
    BY SessionTypes DEF Orderly
  <1>2. ASSUME embedded, SessionNext PROVE Widget'
    <2>1. Good /\ UNCHANGED embedded /\ WidgetNext
      BY <1>2 DEF Orderly, Good, SessionNext
    <2> QED BY <2>1, WidgetStep
  <1>3. ASSUME ~ embedded, SessionNext PROVE Widget'
    <2>1. UNCHANGED <<embedded, isLoading, isStreaming, abortRef, reader, stopped, hasty, wire>>
      BY <1>3 DEF SessionNext, screen
    <2>2. ScreenOK'
      BY <2>1 DEF Orderly, Widget, ScreenOK
    <2> QED BY <1>3, <2>1, <2>2 DEF Widget
  <1>4. ASSUME UNCHANGED sessionVars PROVE Widget'
    <2>1. UNCHANGED <<embedded, isLoading, isStreaming, abortRef, reader, stopped, hasty, wire,
                      pc, turn, asked, faults, ideal>>
      BY <1>4 DEF sessionVars, screen, vars, slot
    <2>2. ScreenOK' /\ (Shown' <=> Shown)
      BY <2>1 DEF Orderly, Widget, ScreenOK, Shown, Reads
    <2>3. (Calm' <=> Calm) /\ (InTurn' <=> InTurn)
      BY <2>1 DEF Calm, InTurn
    <2> QED BY <2>1, <2>2, <2>3 DEF Orderly, Widget
  <1>5. Widget'
    BY <1>2, <1>3, <1>4
  <1> QED BY <1>1, <1>5 DEF Orderly

LEMMA SessionOrderly == SessionSpec => []Orderly
  <1>1. SessionInit => Orderly
    BY WholeTurnsInit, SerialInit, WidgetInit DEF SessionInit, Orderly
  <1>2. Orderly /\ [SessionNext]_sessionVars => Orderly'
    BY OrderlyStep
  <1> QED BY <1>1, <1>2, PTL DEF SessionSpec

(***************************************************************************)
(* What the user of the widget relies on.                                  *)
(***************************************************************************)
\* The turns of a widget follow one another on the server as long as no question is
\* stopped, cut off or sent before the stream of another ended, for any questions.
THEOREM WidgetTurnsFollow == SessionSpec => []TurnsInSequence
  <1>1. Orderly => TurnsInSequence
    BY DEF Orderly, Widget, Calm, TurnsInSequence
  <1> QED BY <1>1, SessionOrderly, PTL

\* While the typing indicator shows, the stop button stops a question that waits; and
\* a question that waits shows it, unless one was sent in the gap.
THEOREM StopStops == SessionSpec => []StopReaches
  <1>1. Orderly => StopReaches
    <2> SUFFICES ASSUME Orderly, embedded
                 PROVE  /\ isLoading => isStreaming /\ abortRef \in Turns /\ reader[abortRef] = "waiting"
                        /\ ~ hasty => \A n \in Turns : reader[n] = "waiting" => isLoading /\ abortRef = n
      BY DEF StopReaches
    <2>1. Shown
      BY DEF Orderly, Widget
    <2> QED BY <2>1 DEF Shown, Reads
  <1> QED BY <1>1, SessionOrderly, PTL

\* Every question ends in an answer, an apology or a stop, and nothing is loading then,
\* however server, connection and user end its stream.
THEOREM EveryQuestionSettles == SessionSpec => []QuestionsSettle
  <1>1. Orderly => QuestionsSettle
    BY DEF Orderly, Widget, Shown, QuestionsSettle
  <1> QED BY <1>1, SessionOrderly, PTL
=============================================================================
