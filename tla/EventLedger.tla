---------------------------- MODULE EventLedger ----------------------------
(***************************************************************************)
(* What ingestion promises its caller, without broker, workers or tables:  *)
(* a report once accepted stays accepted and is settled for good, either   *)
(* stored or set aside for an operator.                                    *)
(***************************************************************************)
EXTENDS Naturals

CONSTANT MaxReports
VARIABLES accepted, settled

ledger == <<accepted, settled>>

LedgerInit == accepted = {} /\ settled = {}

\* A report is accepted. The write that accepts it settles with it every accepted
\* report of the same event, and an earlier one may have settled it already.
Accept(n, S) ==
    /\ n \notin accepted
    /\ accepted' = accepted \cup {n}
    /\ S \subseteq accepted \cup {n}
    /\ settled' = settled \cup S

\* One write settles every accepted report of the event it stores.
Settle(S) ==
    /\ S \subseteq accepted
    /\ settled' = settled \cup S
    /\ UNCHANGED accepted

LedgerNext == \E S \in SUBSET (1 .. MaxReports) :
    Settle(S) \/ \E n \in 1 .. MaxReports : Accept(n, S)

LedgerSpec ==
    /\ LedgerInit /\ [][LedgerNext]_ledger
    /\ \A n \in 1 .. MaxReports : n \in accepted ~> n \in settled
============================================================================
