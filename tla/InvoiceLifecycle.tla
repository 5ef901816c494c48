------------------------- MODULE InvoiceLifecycle -------------------------
(***************************************************************************)
(* The invoice state machine the project documents (ADR-006): the table    *)
(* assertInvoiceTransition consults and what it promises of the statuses   *)
(* of one unit's invoices.                                                 *)
(***************************************************************************)
CONSTANT Invoices

VARIABLE status   \* status of each invoice; "ABSENT" before its row exists

InvoiceStatus ==
  {"DRAFT", "APPROVED", "ISSUED", "PARTIALLY_PAID", "PAID", "OVERDUE", "CANCELLED"}

INVOICE_TRANSITIONS ==
  [DRAFT          |-> {"APPROVED", "ISSUED", "CANCELLED"},
   APPROVED       |-> {"ISSUED", "CANCELLED"},
   ISSUED         |-> {"PARTIALLY_PAID", "PAID", "OVERDUE", "CANCELLED"},
   PARTIALLY_PAID |-> {"PAID", "OVERDUE"},
   PAID           |-> {},
   OVERDUE        |-> {"PARTIALLY_PAID", "PAID"},
   CANCELLED      |-> {}]

\* assertInvoiceTransition(from, to) returns normally.
CanTransition(from, to) ==
  /\ from \in InvoiceStatus
  /\ to \in INVOICE_TRANSITIONS[from]

Init == status = [i \in Invoices |-> "ABSENT"]

Draft(i) ==
  /\ status[i] = "ABSENT"
  /\ status' = [status EXCEPT ![i] = "DRAFT"]

\* One payment may advance several invoices of the unit at once.
Advance ==
  \E to \in [Invoices -> InvoiceStatus \cup {"ABSENT"}] :
     /\ \A i \in Invoices : to[i] # status[i] => CanTransition(status[i], to[i])
     /\ status' = to

Next == Advance \/ \E i \in Invoices : Draft(i)

Spec == Init /\ [][Next]_status
=============================================================================
