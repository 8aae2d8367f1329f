----------------------------- MODULE ChatWidget -----------------------------
(***************************************************************************)
(* Who asks the questions of a session (ChatMemory): any number of clients *)
(* of POST /ask, or the chat widget, which sends a question, reads the     *)
(* stream that POST /ask/stream answers with, and can be stopped           *)
(* (frontend/src/context/ChatContext.tsx, app/api/chat.py).  The server    *)
(* sends one frame, "done" or "error", when the turn is over, and then     *)
(* ends the stream; the widget reads the two one after the other.          *)
(***************************************************************************)
EXTENDS ChatMemory

CONSTANT Typed      \* those of the Questions that are asked through the widget

ASSUME WidgetAssumption == Typed \subseteq Questions

VARIABLES
    embedded,   \* the session is a widget's
    isLoading, isStreaming,
    abortRef,   \* the question that Stop cancels, 0 for none
    reader,     \* question -> how far the widget has read its stream; "bare" when it is
                \* over and nothing was shown
    wire,       \* question -> what the server has sent of it
    stopped,    \* the questions the user has stopped
    hasty       \* a question was sent while the stream of another had not ended

screen == <<isLoading, isStreaming, abortRef, reader, stopped, hasty>>
sessionVars == <<vars, embedded, screen, wire>>

Turns == 1 .. MaxTurns

SessionInit ==
    /\ Init
    /\ embedded \in BOOLEAN
    /\ isLoading = FALSE /\ isStreaming = FALSE /\ abortRef = 0
    /\ reader = [n \in Turns |-> "unsent"]
    /\ wire = [n \in Turns |-> "none"]
    /\ stopped = {} /\ hasty = FALSE

Reads(n) == reader[n] \in {"waiting", "framed"}

----------------------------------------------------------------------------
(* The server: events() of ask_stream. *)

\* A buggy stream that ends before the turn is recorded.
ServedOnAnswer(t) == pc[t] = "respond" /\ pc'[t] # "respond"

\* run_chat has returned.
Served(t) == pc[t] # "idle" /\ pc'[t] = "idle"

\* Nobody reads what is sent to a question that is over.
Sent(n, end) == IF Reads(n) THEN [wire EXCEPT ![n] = end] ELSE wire

Serve(t) ==
    /\ \/ Load(t) \/ Respond(t) \/ Push(t) \/ Trim(t) \/ Expire(t)
       \/ SetIntent(t) \/ SetWindow(t) \/ SetBranch(t) \/ LoadFails(t) \/ WriteFails(t)
    /\ wire' = IF Served(t) THEN Sent(turn[t], "done") ELSE wire
    /\ UNCHANGED screen

\* The gate, the extractor or a handler raises.
Raise(t) ==
    /\ pc[t] \in {"get branch", "respond"}
    /\ Abandon(t)
    /\ wire' = Sent(turn[t], "error")
    /\ UNCHANGED screen

\* The process dies, or cancels the turn of a client that is gone.
Drop(t) ==
    /\ Abandon(t)
    /\ wire' = Sent(turn[t], "broken")
    /\ UNCHANGED screen

----------------------------------------------------------------------------
(* The widget. *)

\* sendMessage up to its fetch.  Enter sends while nothing is loading.
Send(t) ==
    /\ ~ isLoading
    /\ Ask(t) /\ (pc'[t] = "idle" \/ question'[t] \in Typed)
    /\ isLoading' = TRUE /\ isStreaming' = TRUE
    /\ abortRef' = asked'
    /\ reader' = [reader EXCEPT ![asked'] = "waiting"]
    /\ wire' = [wire EXCEPT ![asked'] = IF pc'[t] = "idle" THEN "done" ELSE "none"]
    /\ hasty' = (hasty \/ \E n \in Turns : Reads(n))
    /\ UNCHANGED stopped

\* finalizeMessage of either frame; the bubble takes the place of the typing indicator.
ReadFrame(n) ==
    /\ reader[n] = "waiting" /\ wire[n] \in {"done", "error"}
    /\ reader' = [reader EXCEPT ![n] = "framed"]
    /\ isLoading' = FALSE
    /\ UNCHANGED <<isStreaming, abortRef, stopped, hasty, wire, vars>>

\* A buggy end that leaves the indicator to the frames.
FinallyLoose(n, shown) ==
    /\ reader' = [reader EXCEPT ![n] = shown]
    /\ wire' = [wire EXCEPT ![n] = "none"]
    /\ isStreaming' = FALSE /\ abortRef' = 0
    /\ UNCHANGED <<isLoading, stopped, hasty>>

\* The finally block of sendMessage, whichever question is in flight by now.
Finally(n, shown) ==
    /\ reader' = [reader EXCEPT ![n] = shown]
    /\ wire' = [wire EXCEPT ![n] = "none"]
    /\ isLoading' = FALSE /\ isStreaming' = FALSE /\ abortRef' = 0
    /\ UNCHANGED <<stopped, hasty>>

ReadEnd(n) == reader[n] = "framed" /\ Finally(n, "settled") /\ UNCHANGED vars

\* A buggy catch block that logs the error and shows nothing.
ApologiseSilently(n) ==
    Reads(n) /\ n \notin stopped /\ Finally(n, IF reader[n] = "framed" THEN "settled" ELSE "bare")

\* The catch block, for a question the user did not stop: an apology takes the place of
\* whatever was shown.
Apologise(n) == Reads(n) /\ n \notin stopped /\ Finally(n, "settled")

StreamBreaks(n) == wire[n] = "broken" /\ Apologise(n) /\ UNCHANGED vars

LoseConnection(n) == Apologise(n) /\ Fault /\ UNCHANGED <<memory, slot, asked, lapses, ideal>>

\* stopStreaming: the Stop button is there while isStreaming.
Stop ==
    /\ isStreaming /\ abortRef # 0
    /\ stopped' = stopped \cup {abortRef}
    /\ UNCHANGED <<isLoading, isStreaming, abortRef, reader, hasty, wire, vars>>

\* For one that he did: nothing is shown that was not.
Aborted(n) ==
    /\ Reads(n) /\ n \in stopped
    /\ Finally(n, IF reader[n] = "framed" THEN "settled" ELSE "bare")
    /\ UNCHANGED vars

----------------------------------------------------------------------------
\* That keys lapse is left to the sessions of other clients: the widget reads none.
WidgetNext ==
    \/ \E t \in Slots : Send(t) \/ Serve(t) \/ Raise(t) \/ Drop(t)
    \/ \E n \in Turns : ReadFrame(n) \/ ReadEnd(n) \/ StreamBreaks(n) \/ LoseConnection(n) \/ Aborted(n)
    \/ Stop

SessionNext ==
    /\ UNCHANGED embedded
    /\ \/ embedded /\ WidgetNext
       \/ ~ embedded /\ Next /\ UNCHANGED <<screen, wire>>

SessionSpec == SessionInit /\ [][SessionNext]_sessionVars

----------------------------------------------------------------------------
(* Properties. *)

\* The turns of a widget follow one another on the server, so that a question asked
\* under an answer attaches to it: the frame that lets the user ask again comes after
\* the last write of its turn.  Stopping a question, losing a connection and sending in
\* the gap between a frame and its stream's end are the ways to overlap.
TurnsInSequence ==
    embedded /\ ~ hasty /\ stopped = {} /\ faults = 0 => ideal # None

\* The typing indicator, the stop button and what it stops go together: while the
\* indicator shows, the button stops a question that waits for its frame; and a question
\* that waits shows it, unless one was sent in the gap.
StopReaches ==
    embedded =>
        /\ isLoading => isStreaming /\ abortRef \in Turns /\ reader[abortRef] = "waiting"
        /\ ~ hasty => \A n \in Turns : reader[n] = "waiting" => isLoading /\ abortRef = n

\* No question ends without an answer or an apology unless the user stopped it, however
\* server, connection and user end its stream; and then nothing is said to be loading.
QuestionsSettle ==
    embedded =>
        /\ \A n \in Turns : reader[n] = "bare" => n \in stopped
        /\ (\A n \in Turns : ~ Reads(n)) => ~ isLoading /\ ~ isStreaming /\ abortRef = 0
=============================================================================
