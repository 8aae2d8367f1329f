---------------------------- MODULE ServiceLogin ----------------------------
(***************************************************************************)
(* The service account's token in ThingsBoardClient, shared by all tasks   *)
(* of one process: the login under a lock, the call with the token of the  *)
(* moment, and the one retry after a 401. Tasks run on one event loop, so  *)
(* they interleave only where they await ThingsBoard or the lock.          *)
(***************************************************************************)
EXTENDS Naturals, Sequences, FiniteSets

CONSTANTS
    Calls,           \* invocations of _get
    MaxRevocations,  \* bound: times ThingsBoard stops accepting tokens
    MaxFaults        \* bound: requests that fail otherwise

NoToken == 0         \* self._token is None; tokens are numbered as they are issued

ASSUME LoginAssumption == MaxRevocations \in Nat /\ MaxFaults \in Nat

VARIABLES
    token,        \* self._token
    line,         \* the call that holds _login_lock, then those that wait for it
    pc,           \* call -> where it stands
    try,          \* call -> which attempt it is in
    carried,      \* call -> the token of its request or of its login's answer
    issued,       \* the tokens ThingsBoard has issued: 1 .. issued
    valid,        \* those it accepts
    wipes,        \* times a 401 cleared the token
    revocations, faults

calls  == <<pc, try, carried>>
server == <<issued, valid, revocations>>
vars   == <<token, line, calls, server, wipes, faults>>

Init ==
    /\ token = NoToken /\ line = <<>>
    /\ pc = [c \in Calls |-> "idle"]
    /\ try = [c \in Calls |-> 1]
    /\ carried = [c \in Calls |-> NoToken]
    /\ issued = 0 /\ valid = {} /\ wipes = 0 /\ revocations = 0 /\ faults = 0

GoTo(c, label) == pc' = [pc EXCEPT ![c] = label]
Fault == faults < MaxFaults /\ faults' = faults + 1

Send(c, t) ==
    /\ carried' = [carried EXCEPT ![c] = t]
    /\ GoTo(c, "sent")

\* _headers up to its first await: the token, or a place in line for the lock.
Headers(c, t) ==
    IF t # NoToken
      THEN Send(c, t) /\ UNCHANGED line
      ELSE /\ line' = Append(line, c)
           /\ GoTo(c, IF line = <<>> THEN "login" ELSE "waiting")
           /\ UNCHANGED carried

Begin(c) ==
    /\ pc[c] = "idle"
    /\ Headers(c, token)
    /\ UNCHANGED <<token, try, server, wipes, faults>>

HoldsLock(c) == line # <<>> /\ Head(line) = c

\* Mutant: no second look at the token.
WakeAndLogin(c) ==
    /\ pc[c] = "waiting" /\ HoldsLock(c)
    /\ GoTo(c, "login")
    /\ UNCHANGED <<token, line, try, carried, server, wipes, faults>>

\* The lock is free and c is the first that waits: it looks at the token again.
Wake(c) ==
    /\ pc[c] = "waiting" /\ HoldsLock(c)
    /\ IF token # NoToken
         THEN Send(c, token) /\ line' = Tail(line)
         ELSE GoTo(c, "login") /\ UNCHANGED <<line, carried>>
    /\ UNCHANGED <<token, try, server, wipes, faults>>

\* ThingsBoard answers the login.
Issue(c) ==
    /\ pc[c] = "login"
    /\ issued' = issued + 1
    /\ valid' = valid \cup {issued + 1}
    /\ carried' = [carried EXCEPT ![c] = issued + 1]
    /\ GoTo(c, "issued")
    /\ UNCHANGED <<token, line, try, revocations, wipes, faults>>

TakeToken(c) ==
    /\ pc[c] = "issued"
    /\ token' = carried[c]
    /\ line' = Tail(line)
    /\ Send(c, carried[c])
    /\ UNCHANGED <<try, server, wipes, faults>>

\* Mutant: a failed login does not release the lock.
LoginFailsLocked(c) ==
    /\ pc[c] \in {"login", "issued"}
    /\ Fault
    /\ GoTo(c, "failed")
    /\ UNCHANGED <<token, line, try, carried, server, wipes>>

\* The login raises, on its way there or back.
LoginFails(c) ==
    /\ pc[c] \in {"login", "issued"}
    /\ Fault
    /\ line' = Tail(line)
    /\ GoTo(c, "failed")
    /\ UNCHANGED <<token, try, carried, server, wipes>>

\* ThingsBoard judges the token of a request; the answer is still to arrive.
Judge(c) ==
    /\ pc[c] = "sent"
    /\ GoTo(c, IF carried[c] \in valid THEN "granted" ELSE "denied")
    /\ UNCHANGED <<token, line, try, carried, server, wipes, faults>>

Finish(c) ==
    /\ pc[c] = "granted"
    /\ GoTo(c, "done")
    /\ UNCHANGED <<token, line, try, carried, server, wipes, faults>>

\* Mutant: the retry carries the same token.
RetryUnchanged(c) ==
    /\ pc[c] = "denied" /\ try[c] = 1
    /\ try' = [try EXCEPT ![c] = 2]
    /\ Send(c, carried[c])
    /\ UNCHANGED <<token, line, server, wipes, faults>>

\* The first 401 wipes the token, whichever it is by now, and asks again.
Retry(c) ==
    /\ pc[c] = "denied" /\ try[c] = 1
    /\ token' = NoToken
    /\ wipes' = wipes + 1
    /\ try' = [try EXCEPT ![c] = 2]
    /\ Headers(c, NoToken)
    /\ UNCHANGED <<server, faults>>

\* The second one is raised.
Unauthorized(c) ==
    /\ pc[c] = "denied" /\ try[c] = 2
    /\ GoTo(c, "unauthorized")
    /\ UNCHANGED <<token, line, try, carried, server, wipes, faults>>

\* A timeout, a lost connection or another status.
RequestFails(c) ==
    /\ pc[c] \in {"sent", "granted", "denied"}
    /\ Fault
    /\ GoTo(c, "failed")
    /\ UNCHANGED <<token, line, try, carried, server, wipes>>

\* Tokens expire in the order of their issue, or all at once.
Revoke(n) ==
    /\ revocations < MaxRevocations
    /\ revocations' = revocations + 1
    /\ n \in valid
    /\ valid' = {t \in valid : t > n}
    /\ UNCHANGED <<token, line, calls, issued, wipes, faults>>

Answer(c) ==
    \/ Wake(c) \/ Issue(c) \/ TakeToken(c) \/ LoginFails(c)
    \/ Judge(c) \/ Finish(c) \/ Retry(c) \/ Unauthorized(c) \/ RequestFails(c)

Next ==
    \/ \E c \in Calls : Begin(c) \/ Answer(c)
    \/ \E n \in valid : Revoke(n)

Spec == Init /\ [][Next]_vars

\* Every request is answered or times out after 15 seconds.
FairSpec == Spec /\ \A c \in Calls : WF_vars(Answer(c))

----------------------------------------------------------------------------
(* Properties. *)

Ended == {"done", "unauthorized", "failed"}

\* One revocation never fails a call: the retry carries another token, and that one
\* must have been revoked as well.
RetrySurvivesRevocation == \A c \in Calls : pc[c] = "unauthorized" => revocations >= 2

\* However many calls find the token missing, they log in once for each time it went
\* missing, or a login failed.
LoginsAreNeeded == issued <= 1 + wipes + faults

\* No call is left waiting, for ThingsBoard or for the lock.
CallsEnd == \A c \in Calls : pc[c] = "login" \/ pc[c] = "waiting" ~> pc[c] \in Ended
=============================================================================
