--------------------------- MODULE FilingContract ---------------------------
(***************************************************************************)
(* What the site promises the person who pressed send: nothing is filed    *)
(* that nobody sent, one send makes at most one City record, a request is  *)
(* called filed only when the City has a record of it, and filed is the    *)
(* end. A failed request may be sent again. SubmissionQueue implements     *)
(* this with its rows, locks and executions.                               *)
(***************************************************************************)
EXTENDS Naturals

CONSTANT Requests

VARIABLES status, asked, held

contract == <<status, asked, held>>

Init ==
    /\ status = [r \in Requests |-> "open"]
    /\ asked = [r \in Requests |-> 0]
    /\ held = [r \in Requests |-> 0]

\* A person asks for the request to be filed, for the first time or again.
Send(r) ==
    /\ status[r] \in {"open", "failed"}
    /\ status' = [status EXCEPT ![r] = "sent"]
    /\ asked' = [asked EXCEPT ![r] = @ + 1]
    /\ UNCHANGED held

\* The City creates a record.
Record(r) ==
    /\ status[r] = "sent"
    /\ held[r] < asked[r]
    /\ held' = [held EXCEPT ![r] = @ + 1]
    /\ UNCHANGED <<status, asked>>

File(r) ==
    /\ status[r] = "sent"
    /\ held[r] > 0
    /\ status' = [status EXCEPT ![r] = "filed"]
    /\ UNCHANGED <<asked, held>>

Fail(r) ==
    /\ status[r] = "sent"
    /\ status' = [status EXCEPT ![r] = "failed"]
    /\ UNCHANGED <<asked, held>>

Next == \E r \in Requests : Send(r) \/ Record(r) \/ File(r) \/ Fail(r)

Spec == Init /\ [][Next]_contract
=============================================================================
