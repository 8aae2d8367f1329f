----------------------------- MODULE ChatMemory -----------------------------
(***************************************************************************)
(* The conversation memory of one session: the sliding window of messages, *)
(* and the last branch, intent and period, each in a Redis key of its own. *)
(* The turns of a session may overlap (two tabs, or a question sent before *)
(* the answer arrived); every Redis command is a step of its own.          *)
(*                                                                         *)
(* A question is what the gate and the extractor make of its words: the    *)
(* branch the gate resolves, the device the extractor names, whether it is *)
(* a fragment, its own intent and period, and how its answer comes about.  *)
(***************************************************************************)
EXTENDS Naturals, Sequences

CONSTANTS
    Slots,        \* turns that may be under way at once
    Devices,      \* device ids (UUIDs)
    FreeText,     \* a device id that is none
    Intents, Windows, None,
    Questions,    \* what may be asked
    MaxTurns,     \* bound: questions
    MaxFaults,    \* bound: failed commands and abandoned turns
    MaxLapses     \* bound: keys that expire

Outcome == {"refused", "shared", "raised", "error", "answered"}

Question == [gate : Devices \cup {None}, said : Devices \cup {FreeText, None},
             fragment : BOOLEAN, intent : Intents, window : Windows \cup {None},
             outcome : Outcome]

Message  == [turn : Nat, role : {"user", "assistant"}]
Keys     == [branch : Devices \cup {None}, intent : Intents \cup {None}, window : Windows \cup {None}]
NoMemory == [branch |-> None, intent |-> None, window |-> None]

MaxHistory == 4   \* MAX_HISTORY_MESSAGES

ASSUME MemoryAssumption ==
    /\ Questions \subseteq Question
    /\ None \notin Devices \cup Intents \cup Windows /\ FreeText \notin Devices
    /\ None \notin [hist : Seq(Message), keys : Keys]
    /\ MaxTurns \in Nat /\ MaxFaults \in Nat /\ MaxLapses \in Nat

VARIABLES
    hist,      \* the history list: [turn, role]
    lease,     \* it has an expiry
    keys,      \* the values of the branch, intent and window keys
    pc,        \* slot -> where its turn stands
    question,  \* slot -> what it was asked
    turn,      \* slot -> the number of its turn
    context,   \* slot -> what it has loaded
    asked, faults, lapses,
    ideal      \* what the memory holds if every turn is one step; None once turns overlap

memory == <<hist, lease, keys>>
slot   == <<pc, question, turn, context>>
vars   == <<memory, slot, asked, faults, lapses, ideal>>

Some == CHOOSE q \in Questions : TRUE

Init ==
    /\ hist = <<>> /\ lease = FALSE /\ keys = NoMemory
    /\ pc = [t \in Slots |-> "idle"]
    /\ question = [t \in Slots |-> Some]
    /\ turn = [t \in Slots |-> 0]
    /\ context = [t \in Slots |-> NoMemory]
    /\ asked = 0 /\ faults = 0 /\ lapses = 0
    /\ ideal = [hist |-> <<>>, keys |-> NoMemory]

Stand(t, label) == pc' = [pc EXCEPT ![t] = label]

\* A turn that is over leaves nothing in its slot.
GoTo(t, label) ==
    /\ Stand(t, label)
    /\ IF label = "idle"
         THEN /\ question' = [question EXCEPT ![t] = Some]
              /\ turn' = [turn EXCEPT ![t] = 0]
              /\ context' = [context EXCEPT ![t] = NoMemory]
         ELSE UNCHANGED <<question, turn, context>>

Quiet == \A t \in Slots : pc[t] = "idle"
Fault == faults < MaxFaults /\ faults' = faults + 1

----------------------------------------------------------------------------
(* What a question means in a context. *)

Inherits(q, c) == q.fragment /\ c.intent # None
Intent(q, c)   == IF Inherits(q, c) THEN c.intent ELSE q.intent
Period(q, c)   == IF Inherits(q, c) /\ q.window = None THEN c.window ELSE q.window
Said(q, c)     == IF Inherits(q, c) THEN None ELSE q.said

\* The gate's branch unless the extractor named a device; else the remembered one.
Device(q, c) ==
    IF q.gate # None /\ Said(q, c) \notin Devices THEN q.gate
    ELSE IF Said(q, c) = None /\ c.branch # None THEN c.branch
    ELSE Said(q, c)

\* The branch to remember.
Branch(q, c) == IF q.gate # None THEN q.gate
                ELSE IF Device(q, c) \in Devices THEN Device(q, c) ELSE None

Pair(n)    == <<[turn |-> n, role |-> "user"], [turn |-> n, role |-> "assistant"]>>
LastThree(h) == IF Len(h) <= MaxHistory - 1 THEN h ELSE SubSeq(h, Len(h) - MaxHistory + 2, Len(h))  \* mutant
Trimmed(h) == IF Len(h) <= MaxHistory THEN h ELSE SubSeq(h, Len(h) - MaxHistory + 1, Len(h))

\* A whole turn at once.
Turn(m, q, n) ==
    LET c == m.keys
        Or(new, old) == IF new = None THEN old ELSE new
    IN CASE q.outcome \in {"refused", "shared", "raised"} -> m
         [] q.outcome = "error" ->
              [hist |-> Trimmed(m.hist \o Pair(n)),
               keys |-> [c EXCEPT !.branch = Or(Branch(q, c), @)]]
         [] q.outcome = "answered" ->
              [hist |-> Trimmed(m.hist \o Pair(n)),
               keys |-> [branch |-> Or(Branch(q, c), c.branch), intent |-> Intent(q, c),
                         window |-> Or(Period(q, c), c.window)]]

----------------------------------------------------------------------------
(* A turn. *)

\* A credential request or an unauthorized branch is answered before the memory is read.
Ask(t) ==
    /\ pc[t] = "idle" /\ asked < MaxTurns
    /\ \E q \in Questions :
        /\ IF q.outcome = "refused"
             THEN UNCHANGED slot
             ELSE /\ question' = [question EXCEPT ![t] = q]
                  /\ turn' = [turn EXCEPT ![t] = asked + 1]
                  /\ Stand(t, "get branch")
                  /\ UNCHANGED context
        /\ ideal' = IF Quiet /\ ideal # None THEN Turn(ideal, q, asked + 1) ELSE None
    /\ asked' = asked + 1
    /\ UNCHANGED <<memory, faults, lapses>>

\* load_context, key by key.
Get(t, from, key, to) ==
    /\ pc[t] = from
    /\ context' = [context EXCEPT ![t][key] = keys[key]]
    /\ Stand(t, to)
    /\ UNCHANGED <<memory, question, turn, asked, faults, lapses, ideal>>

Load(t) ==
    \/ Get(t, "get branch", "branch", "get intent")
    \/ Get(t, "get intent", "intent", "get window")
    \/ Get(t, "get window", "window", "respond")

LoadFails(t) ==
    /\ pc[t] \in {"get branch", "get intent", "get window"}
    /\ Fault
    /\ context' = [context EXCEPT ![t] = NoMemory]
    /\ Stand(t, "respond")
    /\ UNCHANGED <<memory, question, turn, asked, lapses, ideal>>

\* A shared answer returns at once; SessionExpired and PermissionCheckUnavailable
\* end the turn with an apology.
Respond(t) ==
    /\ pc[t] = "respond"
    /\ GoTo(t, IF question[t].outcome \in {"shared", "raised"} THEN "idle" ELSE "push")
    /\ UNCHANGED <<memory, asked, faults, lapses, ideal>>

\* record_turn: RPUSH of both messages, LTRIM, EXPIRE.
Push(t) ==
    /\ pc[t] = "push"
    /\ hist' = hist \o Pair(turn[t])
    /\ GoTo(t, "trim")
    /\ UNCHANGED <<lease, keys, asked, faults, lapses, ideal>>

Trim(t) ==
    /\ pc[t] = "trim"
    /\ hist' = Trimmed(hist)
    /\ GoTo(t, "expire")
    /\ UNCHANGED <<lease, keys, asked, faults, lapses, ideal>>

\* Mutant: no EXPIRE after a turn that answered nothing.
ExpireIfAnswered(t) ==
    /\ pc[t] = "expire"
    /\ lease' = (IF question[t].outcome = "answered" THEN hist # <<>> ELSE lease)
    /\ GoTo(t, "set intent")
    /\ UNCHANGED <<hist, keys, asked, faults, lapses, ideal>>

Expire(t) ==
    /\ pc[t] = "expire"
    /\ lease' = (hist # <<>>)
    /\ GoTo(t, "set intent")
    /\ UNCHANGED <<hist, keys, asked, faults, lapses, ideal>>

Set(key, value) == keys' = IF value = None THEN keys ELSE [keys EXCEPT ![key] = value]

\* Mutant: whatever the answer was, its intent is remembered.
SetIntentAlways(t) ==
    /\ pc[t] = "set intent"
    /\ Set("intent", Intent(question[t], context[t]))
    /\ GoTo(t, "set window")
    /\ UNCHANGED <<hist, lease, asked, faults, lapses, ideal>>

\* Only a turn that answered leaves its intent and its period.
SetIntent(t) ==
    /\ pc[t] = "set intent"
    /\ IF question[t].outcome = "answered"
         THEN Set("intent", Intent(question[t], context[t])) /\ GoTo(t, "set window")
         ELSE UNCHANGED keys /\ GoTo(t, "set branch")
    /\ UNCHANGED <<hist, lease, asked, faults, lapses, ideal>>

SetWindow(t) ==
    /\ pc[t] = "set window"
    /\ Set("window", Period(question[t], context[t]))
    /\ GoTo(t, "set branch")
    /\ UNCHANGED <<hist, lease, asked, faults, lapses, ideal>>

SetBranch(t) ==
    /\ pc[t] = "set branch"
    /\ Set("branch", Branch(question[t], context[t]))
    /\ GoTo(t, "idle")
    /\ UNCHANGED <<hist, lease, asked, faults, lapses, ideal>>

\* A command that fails is logged; the rest of its function is skipped.
WriteFails(t) ==
    /\ pc[t] \in {"push", "trim", "expire", "set intent", "set window", "set branch"}
    /\ Fault
    /\ GoTo(t, CASE pc[t] \in {"push", "trim", "expire"} -> "set intent"
                 [] pc[t] = "set intent" -> "set window"
                 [] pc[t] = "set window" -> "set branch"
                 [] OTHER -> "idle")
    /\ UNCHANGED <<memory, asked, lapses, ideal>>

\* The process dies, or the client disconnects and its stream is cancelled.
Abandon(t) ==
    /\ pc[t] # "idle"
    /\ Fault
    /\ GoTo(t, "idle")
    /\ UNCHANGED <<memory, asked, lapses, ideal>>

\* 30 minutes without a turn, or an eviction.
Lapse ==
    /\ lapses < MaxLapses /\ lapses' = lapses + 1
    /\ \/ lease /\ hist' = <<>> /\ lease' = FALSE /\ UNCHANGED keys
       \/ /\ \E k \in DOMAIN keys : keys[k] # None /\ keys' = [keys EXCEPT ![k] = None]
          /\ UNCHANGED <<hist, lease>>
    /\ UNCHANGED <<slot, asked, faults, ideal>>

Next ==
    \/ \E t \in Slots :
        \/ Ask(t) \/ Load(t) \/ Respond(t) \/ Push(t) \/ Trim(t) \/ Expire(t)
        \/ SetIntent(t) \/ SetWindow(t) \/ SetBranch(t)
        \/ LoadFails(t) \/ WriteFails(t) \/ Abandon(t)
    \/ Lapse

Spec == Init /\ [][Next]_vars

----------------------------------------------------------------------------
(* Properties. *)

\* The window shows whole turns, question before answer, whatever turns overlap,
\* fail or are abandoned.
HistoryIsPairs ==
    /\ Len(hist) % 2 = 0
    /\ \A i \in 1 .. Len(hist) \div 2 : SubSeq(hist, 2 * i - 1, 2 * i) = Pair(hist[2 * i].turn)

\* The history expires, whatever keys lapse under overlapping turns: without an expiry
\* it is about to get one, unless a command failed or a turn was cut off.
HistoryExpires ==
    faults = 0 /\ hist # <<>> /\ ~ lease => \E t \in Slots : pc[t] \in {"trim", "expire"}

\* Turns that follow one another leave what whole turns would: no step of a turn
\* spoils what a later one reads.
SerialMemory ==
    Quiet /\ ideal # None /\ faults = 0 /\ lapses = 0 => ideal = [hist |-> hist, keys |-> keys]
=============================================================================
