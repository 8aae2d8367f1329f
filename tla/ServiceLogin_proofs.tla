------------------------ MODULE ServiceLogin_proofs ------------------------
(***************************************************************************)
(* The service login, for any number of calls, revocations and failures:   *)
(* one revocation never fails a call, and no login is needless.  Both rest *)
(* on the lock: whoever logs in holds it, so the token is missing all the  *)
(* while, and what it brings back is newer than all that was revoked.      *)
(***************************************************************************)
EXTENDS ServiceLogin, TLAPS

LoggingIn == {"login", "issued"}
Labels    == LoggingIn \cup {"idle", "waiting", "sent", "granted", "denied"} \cup Ended

TypeOK ==
    /\ token \in Nat /\ line \in Seq(Calls)
    /\ pc \in [Calls -> Labels] /\ try \in [Calls -> {1, 2}] /\ carried \in [Calls -> Nat]
    /\ issued \in Nat /\ valid \subseteq 1 .. issued
    /\ wipes \in Nat /\ revocations \in Nat /\ faults \in Nat

\* Whoever logs in holds the lock, and nobody has a token to send meanwhile.
LoginExcludes == \A c \in Calls : pc[c] \in LoggingIn => HoldsLock(c) /\ token = NoToken

\* What is sent was issued, and what was denied is no longer valid.
TokensKnown ==
    /\ token \in 0 .. issued
    /\ \A c \in Calls : pc[c] \in {"issued", "sent", "granted", "denied"} => carried[c] \in 1 .. issued
    /\ \A c \in Calls : pc[c] = "denied" => carried[c] \notin valid

\* Without a revocation everything stays valid, so nothing wipes the token; before the
\* first wipe the token that calls carry is there.
NothingWipedYet ==
    /\ revocations = 0 => wipes = 0 /\ valid = 1 .. issued
    /\ wipes = 0 => \A c \in Calls : pc[c] \in {"sent", "granted", "denied"} => token # NoToken

\* After the first wipe, and as long as there is no second revocation, whatever a call
\* retries with is valid.
RetriesValid ==
    /\ \A c \in Calls : try[c] = 2 => wipes > 0
    /\ wipes > 0 /\ revocations = 1 =>
         /\ token # NoToken => token \in valid
         /\ \A c \in Calls : pc[c] = "issued" => carried[c] \in valid
         /\ \A c \in Calls : try[c] = 2 /\ pc[c] \in {"sent", "denied"} => carried[c] \in valid

Survival == TypeOK /\ LoginExcludes /\ TokensKnown /\ NothingWipedYet /\ RetriesValid /\ RetrySurvivesRevocation

LEMMA SurvivalInit == Init => Survival
  BY DEF Init, Survival, TypeOK, LoginExcludes, TokensKnown, NothingWipedYet, RetriesValid,
     RetrySurvivesRevocation, Labels, LoggingIn, Ended, NoToken

\* The queue of asyncio.Lock.
LEMMA QueueFacts ==
    ASSUME NEW s \in Seq(Calls), NEW c \in Calls
    PROVE  /\ Append(s, c) \in Seq(Calls) /\ Append(s, c) # <<>>
           /\ s = <<>> => Head(Append(s, c)) = c
           /\ s # <<>> => Head(Append(s, c)) = Head(s) /\ Tail(s) \in Seq(Calls)
  OBVIOUS

\* _headers, at the start and at the retry: the token, or the end of the queue.
LEMMA HeadersKeeps ==
    ASSUME TypeOK, LoginExcludes, NEW c \in Calls, pc[c] \notin LoggingIn,
           NEW t \in Nat, t # NoToken => token = t, token' = t, Headers(c, t)
    PROVE  /\ line' \in Seq(Calls) /\ pc' \in [Calls -> Labels] /\ carried' \in [Calls -> Nat]
           /\ LoginExcludes'
  <1> USE DEF TypeOK, Headers, GoTo
  <1>1. CASE t # NoToken
    BY <1>1 DEF Send, LoginExcludes, HoldsLock, Labels, LoggingIn
  <1>2. CASE t = NoToken
    <2>1. line' = Append(line, c) /\ UNCHANGED carried
      BY <1>2
    <2>2. line' \in Seq(Calls) /\ pc' \in [Calls -> Labels] /\ carried' \in [Calls -> Nat]
      BY <1>2, <2>1, QueueFacts DEF Labels, LoggingIn
    <2>3. ASSUME NEW d \in Calls, pc'[d] \in LoggingIn
          PROVE  line' # <<>> /\ Head(line') = d /\ token' = NoToken
      BY <1>2, <2>1, <2>3, QueueFacts DEF LoginExcludes, HoldsLock, LoggingIn, NoToken
    <2> QED BY <2>2, <2>3 DEF LoginExcludes, HoldsLock
  <1> QED BY <1>1, <1>2

\* A call that sends the token of the moment, or goes on without one.
LEMMA SendOrWait ==
    ASSUME Survival, TypeOK', LoginExcludes', NEW c \in Calls, NEW label \in {"sent", "login", "waiting"},
           pc' = [pc EXCEPT ![c] = label], UNCHANGED <<token, try, server, wipes, faults>>,
           carried' = IF label = "sent" THEN [carried EXCEPT ![c] = token] ELSE carried,
           label = "sent" => token # NoToken
    PROVE  Survival'
  <1> USE DEF Survival, TypeOK, server, NoToken
  <1>1. TokensKnown'
    BY DEF TokensKnown
  <1>2. NothingWipedYet'
    BY DEF NothingWipedYet
  <1>3. RetriesValid' /\ RetrySurvivesRevocation'
    BY DEF RetriesValid, RetrySurvivesRevocation
  <1> QED BY <1>1, <1>2, <1>3

LEMMA BeginKeeps ==
    ASSUME Survival, NEW c \in Calls, Begin(c)
    PROVE  Survival'
  <1>1. /\ line' \in Seq(Calls) /\ pc' \in [Calls -> Labels] /\ carried' \in [Calls -> Nat]
        /\ LoginExcludes'
    BY HeadersKeeps DEF Begin, Survival, TypeOK, LoggingIn
  <1>2. TypeOK'
    BY <1>1 DEF Begin, Survival, TypeOK, server
  <1>3. \E label \in {"sent", "login", "waiting"} :
           /\ pc' = [pc EXCEPT ![c] = label]
           /\ carried' = IF label = "sent" THEN [carried EXCEPT ![c] = token] ELSE carried
           /\ label = "sent" => token # NoToken
    BY DEF Begin, Headers, Send, GoTo
  <1> QED BY <1>1, <1>2, <1>3, SendOrWait DEF Begin

LEMMA WakeKeeps ==
    ASSUME Survival, NEW c \in Calls, Wake(c)
    PROVE  Survival'
  <1>1. \E label \in {"sent", "login", "waiting"} :
           /\ pc' = [pc EXCEPT ![c] = label]
           /\ carried' = IF label = "sent" THEN [carried EXCEPT ![c] = token] ELSE carried
           /\ label = "sent" => token # NoToken
    BY DEF Wake, Send, GoTo
  <1>2. /\ line' \in Seq(Calls)
        /\ line' = line \/ token # NoToken
    BY QueueFacts DEF Survival, TypeOK, Wake, HoldsLock
  <1>3. TypeOK'
    BY <1>1, <1>2 DEF Wake, Survival, TypeOK, server, Labels, LoggingIn
  <1>4. LoginExcludes'
    BY DEF Wake, Send, GoTo, Survival, TypeOK, LoginExcludes, HoldsLock, LoggingIn
  <1> QED BY <1>1, <1>3, <1>4, SendOrWait DEF Wake

LEMMA IssueKeeps ==
    ASSUME Survival, NEW c \in Calls, Issue(c)
    PROVE  Survival'
  <1> USE DEF Survival, Issue, GoTo, server, NoToken
  <1>1. TypeOK' /\ LoginExcludes'
    BY QueueFacts DEF TypeOK, LoginExcludes, HoldsLock, Labels, LoggingIn, Ended
  <1>2. TokensKnown'
    BY <1>1 DEF TypeOK, LoginExcludes, TokensKnown, LoggingIn
  <1>3. NothingWipedYet' /\ RetriesValid' /\ RetrySurvivesRevocation'
    BY <1>1 DEF TypeOK, LoginExcludes, TokensKnown, NothingWipedYet, RetriesValid, RetrySurvivesRevocation, LoggingIn
  <1> QED BY <1>1, <1>2, <1>3

LEMMA TakeTokenKeeps ==
    ASSUME Survival, NEW c \in Calls, TakeToken(c)
    PROVE  Survival'
  <1> USE DEF Survival, TakeToken, Send, GoTo, server, NoToken
  <1>1. TypeOK' /\ LoginExcludes'
    BY QueueFacts DEF TypeOK, LoginExcludes, HoldsLock, Labels, LoggingIn, Ended
  <1>2. TokensKnown'
    BY <1>1 DEF TypeOK, LoginExcludes, TokensKnown, LoggingIn
  <1>3. NothingWipedYet' /\ RetriesValid' /\ RetrySurvivesRevocation'
    BY <1>1 DEF TypeOK, LoginExcludes, TokensKnown, NothingWipedYet, RetriesValid, RetrySurvivesRevocation, LoggingIn
  <1> QED BY <1>1, <1>2, <1>3

LEMMA LoginFailsKeeps ==
    ASSUME Survival, NEW c \in Calls, LoginFails(c)
    PROVE  Survival'
  <1> USE DEF Survival, LoginFails, Fault, GoTo, server, NoToken
  <1>0. pc' \in [Calls -> Labels] /\ line' \in Seq(Calls) /\ faults' \in Nat
    BY QueueFacts DEF TypeOK, LoginExcludes, HoldsLock, Labels, LoggingIn, Ended
  <1>1. TypeOK' /\ LoginExcludes'
    BY <1>0 DEF TypeOK, LoginExcludes, HoldsLock, LoggingIn
  <1>2. TokensKnown'
    BY <1>1 DEF TypeOK, LoginExcludes, TokensKnown, LoggingIn
  <1>3. NothingWipedYet' /\ RetriesValid' /\ RetrySurvivesRevocation'
    BY <1>1 DEF TypeOK, LoginExcludes, TokensKnown, NothingWipedYet, RetriesValid, RetrySurvivesRevocation, LoggingIn
  <1> QED BY <1>1, <1>2, <1>3

\* ThingsBoard's answer to a call.
LEMMA AnsweredKeeps ==
    ASSUME Survival, NEW c \in Calls, Judge(c) \/ Finish(c) \/ Unauthorized(c) \/ RequestFails(c)
    PROVE  Survival'
  <1> USE DEF Survival, Judge, Finish, Unauthorized, RequestFails, Fault, GoTo, server
  <1>0. /\ \E label \in {"granted", "denied"} \cup Ended : pc' = [pc EXCEPT ![c] = label]
        /\ faults' \in {faults, faults + 1}
        /\ UNCHANGED <<token, line, try, carried, issued, valid, wipes, revocations>>
    BY DEF Ended
  <1>1. TypeOK'
    BY <1>0 DEF TypeOK, Labels
  <1>2. LoginExcludes' /\ TokensKnown'
    BY DEF TypeOK, LoginExcludes, HoldsLock, LoggingIn, TokensKnown, Ended
  <1>3. NothingWipedYet' /\ RetriesValid'
    BY DEF TypeOK, NothingWipedYet, RetriesValid
  <1>4. RetrySurvivesRevocation'
    BY DEF TypeOK, RetrySurvivesRevocation, RetriesValid, TokensKnown, NothingWipedYet
  <1> QED BY <1>1, <1>2, <1>3, <1>4

\* The first retry with one revocation finds nobody logging in, so that all tokens that
\* come after it were issued after that revocation.
LEMMA RetryKeeps ==
    ASSUME Survival, NEW c \in Calls, Retry(c)
    PROVE  Survival'
  <1> USE DEF Survival
  <1>1. /\ line' \in Seq(Calls) /\ pc' \in [Calls -> Labels] /\ carried' \in [Calls -> Nat]
        /\ LoginExcludes'
    BY HeadersKeeps DEF Retry, TypeOK, LoggingIn, NoToken
  <1>2. TypeOK'
    <2>1. try' \in [Calls -> {1, 2}] /\ wipes' \in Nat /\ token' \in Nat
      BY DEF Retry, TypeOK, NoToken
    <2> QED BY <1>1, <2>1 DEF Retry, TypeOK, server
  <1>3. \E label \in {"login", "waiting"} : pc' = [pc EXCEPT ![c] = label] /\ UNCHANGED carried
    BY DEF Retry, Headers, GoTo
  <1>4. TokensKnown'
    BY <1>3 DEF Retry, TypeOK, TokensKnown, server, NoToken
  <1>5. NothingWipedYet'
    BY DEF Retry, TypeOK, NothingWipedYet, TokensKnown, server
  <1>6. RetriesValid'
    <2>1. wipes = 0 => \A d \in Calls : pc[d] \notin LoggingIn
      BY DEF Retry, NothingWipedYet, LoginExcludes
    <2> QED BY <1>3, <2>1 DEF Retry, TypeOK, RetriesValid, LoggingIn, server, NoToken
  <1>7. RetrySurvivesRevocation'
    BY <1>3 DEF Retry, TypeOK, RetrySurvivesRevocation, server
  <1> QED BY <1>1, <1>2, <1>4, <1>5, <1>6, <1>7

LEMMA RevokeKeeps ==
    ASSUME Survival, NEW n \in valid, Revoke(n)
    PROVE  Survival'
  <1>1. TypeOK'
    <2>1. TypeOK /\ revocations' = revocations + 1 /\ valid' \subseteq valid
          /\ UNCHANGED <<token, line, pc, try, carried, issued, wipes, faults>>
      BY DEF Survival, Revoke, calls
    <2> QED BY <2>1 DEF TypeOK
  <1> USE DEF Survival, Revoke, calls, TypeOK
  <1>2. LoginExcludes'
    BY DEF LoginExcludes, HoldsLock
  <1>3. TokensKnown'
    BY DEF TokensKnown
  <1>4. NothingWipedYet' /\ RetriesValid'
    BY DEF NothingWipedYet, RetriesValid
  <1>5. RetrySurvivesRevocation'
    BY DEF RetrySurvivesRevocation
  <1> QED BY <1>1, <1>2, <1>3, <1>4, <1>5

LEMMA SurvivalStep == Survival /\ [Next]_vars => Survival'
  <1>1. ASSUME Survival, UNCHANGED vars PROVE Survival'
    BY <1>1 DEF vars, calls, server, Survival, TypeOK, LoginExcludes, HoldsLock, TokensKnown, NothingWipedYet,
       RetriesValid, RetrySurvivesRevocation
  <1> QED
    BY <1>1, BeginKeeps, WakeKeeps, IssueKeeps, TakeTokenKeeps, LoginFailsKeeps, AnsweredKeeps, RetryKeeps,
       RevokeKeeps DEF Next, Answer

\* One revocation fails no call of _get, whoever else logs in, retries or fails: a call
\* that raises had two tokens revoked, and not by the same revocation.
THEOREM OneRevocationFailsNoCall == Spec => []RetrySurvivesRevocation
  <1>1. Survival => RetrySurvivesRevocation
    BY DEF Survival
  <1> QED BY <1>1, SurvivalInit, SurvivalStep, PTL DEF Spec

----------------------------------------------------------------------------
\* With no token, and none on its way back from ThingsBoard, every token there was has
\* been wiped or its login failed.
Spent == token = NoToken /\ (\A c \in Calls : pc[c] # "issued") => issued <= wipes + faults
Economy == Survival /\ Spent /\ LoginsAreNeeded

LEMMA EconomyStep == Economy /\ [Next]_vars => Economy'
  <1> SUFFICES ASSUME Economy, [Next]_vars PROVE Spent' /\ LoginsAreNeeded'
    BY SurvivalStep DEF Economy
  <1> USE DEF Economy, Survival, TypeOK, Spent, LoginsAreNeeded, NoToken
  <1>1. ASSUME NEW c \in Calls, Begin(c) \/ Wake(c) PROVE Spent' /\ LoginsAreNeeded'
    BY <1>1 DEF Begin, Wake, Headers, Send, GoTo, server
  <1>2. ASSUME NEW c \in Calls, Issue(c) PROVE Spent' /\ LoginsAreNeeded'
    <2>1. token = NoToken /\ \A d \in Calls : pc[d] # "issued"
      BY <1>2 DEF Issue, LoginExcludes, HoldsLock, LoggingIn
    <2> QED BY <1>2, <2>1 DEF Issue, GoTo
  <1>3. ASSUME NEW c \in Calls, TakeToken(c) PROVE Spent' /\ LoginsAreNeeded'
    BY <1>3 DEF TakeToken, TokensKnown, Send, GoTo, server
  <1>4. ASSUME NEW c \in Calls, LoginFails(c) \/ RequestFails(c) PROVE Spent' /\ LoginsAreNeeded'
    BY <1>4 DEF LoginFails, RequestFails, Fault, GoTo, server
  <1>5. ASSUME NEW c \in Calls, Judge(c) \/ Finish(c) \/ Unauthorized(c) PROVE Spent' /\ LoginsAreNeeded'
    BY <1>5 DEF Judge, Finish, Unauthorized, GoTo, server
  <1>6. ASSUME NEW c \in Calls, Retry(c) PROVE Spent' /\ LoginsAreNeeded'
    BY <1>6 DEF Retry, server
  <1>7. ASSUME NEW n \in valid, Revoke(n) PROVE Spent' /\ LoginsAreNeeded'
    BY <1>7 DEF Revoke, calls
  <1>8. CASE UNCHANGED vars
    BY <1>8 DEF vars, calls, server
  <1> QED BY <1>1, <1>2, <1>3, <1>4, <1>5, <1>6, <1>7, <1>8 DEF Next, Answer

\* However many calls find the token missing at once, they share one login.
THEOREM NoNeedlessLogin == Spec => []LoginsAreNeeded
  <1>1. Init => Economy
    BY SurvivalInit DEF Init, Economy, Spent, LoginsAreNeeded
  <1>2. Economy => LoginsAreNeeded
    BY DEF Economy
  <1> QED BY <1>1, <1>2, EconomyStep, PTL DEF Spec
============================================================================
