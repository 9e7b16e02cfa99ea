-------------------------- MODULE ReportSlotLedger --------------------------
(***************************************************************************)
(* What the scheduled management reports promise, with no worker, clock or *)
(* database in sight: a slot (a subscription and the time it was scheduled *)
(* for) is entered in the ledger once, a skipped slot is never delivered,  *)
(* and a slot is handed to Twilio at most once, whatever its final status  *)
(* says.  ManagerReportScheduler implements it.                            *)
(***************************************************************************)
EXTENDS Naturals

CONSTANTS Subscriptions, Slots

VARIABLES
    status,     \* status[s][t]: the outcome recorded for slot t of s
    accepted    \* accepted[s][t]: the requests Twilio accepted for that slot

ledgerVars == <<status, accepted>>

RunStatus == {"PROCESSING", "SKIPPED", "SUBMITTED", "NEEDS_REVIEW"}

Init ==
    /\ status = [s \in Subscriptions |-> [t \in Slots |-> "NONE"]]
    /\ accepted = [s \in Subscriptions |-> [t \in Slots |-> 0]]

\* A slot is entered once, to be delivered or as too old to be.
Claim(s, t) ==
    /\ status[s][t] = "NONE"
    /\ \E outcome \in {"PROCESSING", "SKIPPED"} :
           status' = [status EXCEPT ![s][t] = outcome]
    /\ UNCHANGED accepted

\* The delivery may reach Twilio even after the slot was given up as
\* interrupted, but never twice and never for a skipped slot.
Deliver(s, t) ==
    /\ status[s][t] \in {"PROCESSING", "NEEDS_REVIEW"}
    /\ accepted[s][t] = 0
    /\ accepted' = [accepted EXCEPT ![s][t] = 1]
    /\ UNCHANGED status

\* SUBMITTED is only written for what Twilio accepted.
Submit(s, t) ==
    /\ status[s][t] = "PROCESSING"
    /\ accepted[s][t] = 1
    /\ status' = [status EXCEPT ![s][t] = "SUBMITTED"]
    /\ UNCHANGED accepted

\* Slots whose outcome is not known are left to a person, several at a time.
GiveUp ==
    /\ status' \in [Subscriptions -> [Slots -> RunStatus \cup {"NONE"}]]
    /\ \A s \in Subscriptions, t \in Slots :
           \/ status'[s][t] = status[s][t]
           \/ status[s][t] = "PROCESSING" /\ status'[s][t] = "NEEDS_REVIEW"
    /\ UNCHANGED accepted

Next ==
    \/ \E s \in Subscriptions, t \in Slots :
           Claim(s, t) \/ Deliver(s, t) \/ Submit(s, t)
    \/ GiveUp

Spec == Init /\ [][Next]_ledgerVars
=============================================================================
