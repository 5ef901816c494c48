-------------------------- MODULE TicketLifecycle --------------------------
(***************************************************************************)
(* What the helpdesk promises of a ticket: its status follows the table of *)
(* allowed transitions (ADR-006), and its resolution clock stops when the  *)
(* ticket is resolved and starts again when it is reopened.  Two writes    *)
(* that were decided on the same row may break both: such a ticket is      *)
(* CONTESTED and nothing is promised of it.                                *)
(***************************************************************************)
CONSTANT Tickets

VARIABLES
  status,   \* "ABSENT" before the row exists
  clock     \* of the resolution deadline

TicketStatus ==
  {"OPEN", "ASSIGNED", "IN_PROGRESS", "ON_HOLD", "RESOLVED", "CLOSED", "REOPENED", "CANCELLED"}

TICKET_TRANSITIONS ==
  [OPEN        |-> {"ASSIGNED", "IN_PROGRESS", "CANCELLED"},
   ASSIGNED    |-> {"IN_PROGRESS", "ON_HOLD", "RESOLVED", "OPEN", "CANCELLED"},
   IN_PROGRESS |-> {"ON_HOLD", "RESOLVED", "CANCELLED"},
   ON_HOLD     |-> {"IN_PROGRESS", "RESOLVED", "CANCELLED"},
   RESOLVED    |-> {"CLOSED", "REOPENED"},
   CLOSED      |-> {"REOPENED"},
   REOPENED    |-> {"ASSIGNED", "IN_PROGRESS", "RESOLVED"},
   CANCELLED   |-> {}]

\* assertTicketTransition(from, to) returns normally.
CanTransition(from, to) == from \in TicketStatus /\ to \in TICKET_TRANSITIONS[from]

vars == <<status, clock>>

Init ==
  /\ status = [t \in Tickets |-> "ABSENT"]
  /\ clock = [t \in Tickets |-> "none"]

Raise(t) ==
  /\ status[t] = "ABSENT"
  /\ status' = [status EXCEPT ![t] = "OPEN"]
  /\ \E c \in {"none", "running"} : clock' = [clock EXCEPT ![t] = c]

Work(t) ==
  /\ \E s \in TicketStatus \ {"RESOLVED", "REOPENED"} :
       CanTransition(status[t], s) /\ status' = [status EXCEPT ![t] = s]
  /\ UNCHANGED clock

Resolve(t) ==
  /\ CanTransition(status[t], "RESOLVED")
  /\ status' = [status EXCEPT ![t] = "RESOLVED"]
  /\ clock' = [clock EXCEPT ![t] = "stopped"]

Reopen(t) ==
  /\ CanTransition(status[t], "REOPENED")
  /\ status' = [status EXCEPT ![t] = "REOPENED"]
  /\ \E c \in {"none", "running"} : clock' = [clock EXCEPT ![t] = c]

RunOut(t) ==
  /\ clock[t] = "running"
  /\ clock' = [clock EXCEPT ![t] = "late"]
  /\ UNCHANGED status

Contest(t) ==
  /\ status[t] \in TicketStatus
  /\ status' = [status EXCEPT ![t] = "CONTESTED"]
  /\ clock' = [clock EXCEPT ![t] = "none"]

Next ==
  \E t \in Tickets :
     Raise(t) \/ Work(t) \/ Resolve(t) \/ Reopen(t) \/ RunOut(t) \/ Contest(t)

Spec == Init /\ [][Next]_vars
=============================================================================
