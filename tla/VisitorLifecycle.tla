------------------------- MODULE VisitorLifecycle -------------------------
(***************************************************************************)
(* The visitor state machine the project documents (ADR-006): the table of *)
(* allowed transitions every handler consults, and the abstract            *)
(* specification of one invitation's status that the table promises.       *)
(***************************************************************************)
CONSTANT Invitations

VARIABLE status   \* status of each invitation; "ABSENT" before its row exists

VisitorStatus ==
  {"CREATED", "WAITING_APPROVAL", "APPROVED", "REJECTED", "CHECKED_IN",
   "CHECKED_OUT", "EXPIRED", "CANCELLED", "DENIED", "OVERRIDDEN"}

VISITOR_TRANSITIONS ==
  [CREATED          |-> {"WAITING_APPROVAL", "APPROVED", "CANCELLED", "EXPIRED"},
   WAITING_APPROVAL |-> {"APPROVED", "REJECTED", "EXPIRED", "CANCELLED", "OVERRIDDEN"},
   APPROVED         |-> {"CHECKED_IN", "EXPIRED", "CANCELLED", "OVERRIDDEN"},
   REJECTED         |-> {},
   CHECKED_IN       |-> {"CHECKED_OUT"},
   CHECKED_OUT      |-> {},
   EXPIRED          |-> {"OVERRIDDEN"},
   CANCELLED        |-> {},
   DENIED           |-> {},
   OVERRIDDEN       |-> {"CHECKED_IN"}]

\* assertTransition(from, to) returns normally.
CanTransition(from, to) ==
  /\ from \in VisitorStatus
  /\ to \in VISITOR_TRANSITIONS[from]

Init == status = [i \in Invitations |-> "ABSENT"]

\* A resident's pre-approval is created APPROVED, a gate request WAITING_APPROVAL.
Open(i) ==
  /\ status[i] = "ABSENT"
  /\ \E s \in {"APPROVED", "WAITING_APPROVAL"} : status' = [status EXCEPT ![i] = s]

Advance(i) ==
  \E s \in VisitorStatus :
     /\ CanTransition(status[i], s)
     /\ status' = [status EXCEPT ![i] = s]

\* A sweep moves every invitation it finds stale in one statement.
Expire ==
  \E S \in SUBSET Invitations :
     /\ \A i \in S : CanTransition(status[i], "EXPIRED")
     /\ status' = [i \in Invitations |-> IF i \in S THEN "EXPIRED" ELSE status[i]]

Next == Expire \/ \E i \in Invitations : Open(i) \/ Advance(i)

Spec == Init /\ [][Next]_status
=============================================================================
