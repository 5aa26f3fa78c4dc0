------------------------------- MODULE Consent -------------------------------
(***************************************************************************)
(* What the approval gate promises of every confirm-tier call              *)
(* (backend/harness/approval.py, loop.py, tools): it acts once, only when  *)
(* granted, never once withdrawn, and never after the loop went on.        *)
(***************************************************************************)
CONSTANTS
    Requests

VARIABLES
    status

States == {"none", "granted", "withdrawn", "acted", "over"}

TypeOK == status \in [Requests -> States]

Init == status = [k \in Requests |-> "none"]

Move(k, from, to) ==
    /\ status[k] \in from
    /\ status' = [status EXCEPT ![k] = to]

\* The human says yes.
Grant(k) == Move(k, {"none"}, "granted")

\* Stop comes before the wait had its answer; a yes that arrived before the
\* wait had begun is no answer.
Withdraw(k) == Move(k, {"none", "granted"}, "withdrawn")

Act(k) == Move(k, {"granted"}, "acted")

\* The turn goes on, or ends with every request it made and did not make.
Close(ks) ==
    status' = [k \in Requests |->
                 IF k \in ks /\ status[k] # "acted" THEN "over" ELSE status[k]]

Next ==
    \/ \E k \in Requests : Grant(k) \/ Withdraw(k) \/ Act(k)
    \/ \E ks \in SUBSET Requests : Close(ks)

Spec == Init /\ [][Next]_status
=============================================================================
