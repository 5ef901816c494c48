---------------------------- MODULE UnitLedger ----------------------------
(***************************************************************************)
(* The dues of one unit: issuing and cancelling invoices (BillingService), *)
(* payments and the gateway's webhook (PaymentsService) over the tables    *)
(* Invoice, Payment, PaymentAllocation and Receipt.                        *)
(*                                                                         *)
(* As in VisitorGate a handler is a Worker that reads, awaits and writes.  *)
(* The webhook's transaction is two actions: BeginCapture claims the       *)
(* payment's row, which stays locked, and reads the open invoices without  *)
(* locking them; CommitCapture makes all its writes visible.  The row      *)
(* locks its updates take only order the commits of overlapping            *)
(* transactions, so nothing else of it can be observed.                    *)
(***************************************************************************)
EXTENDS Naturals, FiniteSets, FiniteSetsExt

CONSTANTS
  N,             \* how many invoices the unit gets, numbered by dueDate
  Total,         \* totalPaise of each
  Payers,        \* users who pay for the unit
  Payments,      \* ids of Payment rows
  Workers,       \* HTTP requests in progress at once
  Tails,         \* external: the last characters of the ids the gateway gives to payments
  MaxPaise,      \* largest value of the Int column amountPaise
  CanCrash       \* TRUE: the process may die between two statements of a handler

Invoices == 1..N

ASSUME LedgerAssumption ==
  /\ N \in Nat
  /\ Total \in [1..N -> Nat]
  /\ IsFiniteSet(Payments)
  /\ MaxPaise \in Nat
  /\ CanCrash \in BOOLEAN

VARIABLES
  invoice,   \* Invoice rows
  payment,   \* Payment rows
  alloc,     \* PaymentAllocation rows: paise of each payment on each invoice
  receipt,   \* Receipt rows
  req,       \* the handler each worker is running, with what it has read
  gateway    \* external: the events the gateway has signed, as <<payment, type>>

vars == <<invoice, payment, alloc, receipt, req, gateway>>

LC == INSTANCE InvoiceLifecycle
        WITH status <- [i \in Invoices |-> invoice[i].status]

-----------------------------------------------------------------------------
(* Rows *)

Invoice == [status : LC!InvoiceStatus \cup {"ABSENT"}, paid : Nat]

NoInvoice == [status |-> "ABSENT", paid |-> 0]

\* The idempotency key the controller derives: the payer and the invoice ids.
Key == [payer : Payers, invoices : SUBSET Invoices]

PaymentRow ==
  [status : {"PENDING", "SUCCESS", "FAILED"}, key : Key, amount : Nat,
   tail : Tails,                 \* of providerPaymentId, with which the gateway captures it
   event : {"none", "claimed"}]  \* webhookEventId

NoPayment == [status |-> "ABSENT"]

EventType == {"captured", "failed"}

Request ==
       [op : {"issue", "cancel"}, inv : Invoices, row : Invoice]
  \cup [op : {"initiate"}, key : Key, amount : Nat]
  \cup [op : {"fail", "pdf"}, pay : Payments]
  \cup [op : {"capture"}, pay : Payments, rows : [Invoices -> Invoice]]

Idle == [op |-> "idle"]

Present(i) == invoice[i].status # "ABSENT"
Made(p) == payment[p].status # "ABSENT"

Open(row) == row.status \in {"ISSUED", "PARTIALLY_PAID", "OVERDUE"}

Due(row, i) == Total[i] - row.paid

Minimum(a, b) == IF a <= b THEN a ELSE b

\* The unique index on Payment.idempotencyKey.
KeyTaken(k) == \E p \in Payments : Made(p) /\ payment[p].key = k

\* A transaction in progress on the payment holds its row.
Locked(p) == \E w \in Workers : req[w].op = "capture" /\ req[w].pay = p

-----------------------------------------------------------------------------
Init ==
  /\ invoice = [i \in Invoices |-> NoInvoice]
  /\ payment = [p \in Payments |-> NoPayment]
  /\ alloc = [p \in Payments |-> [i \in Invoices |-> 0]]
  /\ receipt = [p \in Payments |-> "none"]
  /\ req = [w \in Workers |-> Idle]
  /\ gateway = {}

\* What generateInvoices creates for the unit.
DraftInvoice(i) ==
  /\ ~Present(i)
  /\ invoice' = [invoice EXCEPT ![i] = [NoInvoice EXCEPT !.status = "DRAFT"]]
  /\ UNCHANGED <<payment, alloc, receipt, req, gateway>>

(* issueInvoice *)

BeginIssue(w, i) ==
  /\ req[w] = Idle
  /\ LC!CanTransition(invoice[i].status, "ISSUED")
  /\ req' = [req EXCEPT ![w] = [op |-> "issue", inv |-> i, row |-> invoice[i]]]
  /\ UNCHANGED <<invoice, payment, alloc, receipt, gateway>>

WriteIssue(w) ==
  /\ req[w].op = "issue"
  /\ invoice' = [invoice EXCEPT ![req[w].inv].status = "ISSUED"]
  /\ req' = [req EXCEPT ![w] = Idle]
  /\ UNCHANGED <<payment, alloc, receipt, gateway>>

(* cancelInvoice *)

Cancellable_EvenPaid(row) == row.status \in {"DRAFT", "ISSUED", "PARTIALLY_PAID"}

Cancellable(row) == LC!CanTransition(row.status, "CANCELLED") /\ row.paid = 0

BeginCancel(w, i) ==
  /\ req[w] = Idle
  /\ Cancellable(invoice[i])
  /\ req' = [req EXCEPT ![w] = [op |-> "cancel", inv |-> i, row |-> invoice[i]]]
  /\ UNCHANGED <<invoice, payment, alloc, receipt, gateway>>

WriteCancel(w) ==
  /\ req[w].op = "cancel"
  /\ invoice' = [invoice EXCEPT ![req[w].inv].status = "CANCELLED"]
  /\ req' = [req EXCEPT ![w] = Idle]
  /\ UNCHANGED <<payment, alloc, receipt, gateway>>

-----------------------------------------------------------------------------
(* initiate: the amount is what the chosen invoices still owe when it reads *)

OpenOf(S) == {i \in S : Open(invoice[i])}

Outstanding(S) == MapThenSumSet(LAMBDA i : Due(invoice[i], i), OpenOf(S))

\* A key already used returns the payment it made, whatever its status; such a
\* replay changes nothing.
BeginInitiate(w, k) ==
  /\ req[w] = Idle
  /\ ~KeyTaken(k)
  /\ \A i \in k.invoices : Present(i)
  /\ Outstanding(k.invoices) \in 1..MaxPaise
  /\ req' = [req EXCEPT ![w] = [op |-> "initiate", key |-> k,
                                amount |-> Outstanding(k.invoices)]]
  /\ UNCHANGED <<invoice, payment, alloc, receipt, gateway>>

CreatePayment(w, p) ==
  /\ req[w].op = "initiate"
  /\ ~Made(p)
  /\ ~KeyTaken(req[w].key)
  /\ \E t \in Tails :
       payment' = [payment EXCEPT ![p] =
                     [status |-> "PENDING", key |-> req[w].key,
                      amount |-> req[w].amount, tail |-> t, event |-> "none"]]
  /\ req' = [req EXCEPT ![w] = Idle]
  /\ UNCHANGED <<invoice, alloc, receipt, gateway>>

-----------------------------------------------------------------------------
(* The gateway, external: attempts on an order fail or it is captured, once. *)
(* A signed event is delivered any number of times, in any order.  <<p,      *)
(* "captured">> is the capture of p's own amount; one of another amount is   *)
(* refused before anything is read for it or written, a stuttering step.     *)

Sign(p, type) ==
  /\ Made(p)
  /\ <<p, "captured">> \notin gateway
  /\ <<p, type>> \notin gateway
  /\ gateway' = gateway \cup {<<p, type>>}
  /\ UNCHANGED <<invoice, payment, alloc, receipt, req>>

(* handleWebhook: with webhookEventId set it answers "duplicate", else goes on *)

Unprocessed(p) == payment[p].event = "none"

BeginFail(w, p) ==
  /\ req[w] = Idle
  /\ <<p, "failed">> \in gateway
  /\ Unprocessed(p)
  /\ req' = [req EXCEPT ![w] = [op |-> "fail", pay |-> p]]
  /\ UNCHANGED <<invoice, payment, alloc, receipt, gateway>>

WriteFail(w) ==
  /\ req[w].op = "fail"
  /\ ~Locked(req[w].pay)
  /\ payment' = [payment EXCEPT ![req[w].pay].status = "FAILED"]
  /\ req' = [req EXCEPT ![w] = Idle]
  /\ UNCHANGED <<invoice, alloc, receipt, gateway>>

Unclaimed_Unchecked(p) == Made(p) /\ ~Locked(p)

Unclaimed_PendingOnly(p) == payment[p].status = "PENDING" /\ ~Locked(p)

\* The conditional claim finds the row: it is not claimed, nor being claimed.
Unclaimed(p) == Unprocessed(p) /\ ~Locked(p)

BeginCapture(w, p) ==
  /\ req[w] = Idle
  /\ <<p, "captured">> \in gateway
  /\ Unclaimed(p)
  /\ req' = [req EXCEPT ![w] = [op |-> "capture", pay |-> p, rows |-> invoice]]
  /\ UNCHANGED <<invoice, payment, alloc, receipt, gateway>>

(* allocatePayment, over the rows it read *)

Applied_Unclamped(row, i, remaining) == IF Open(row) THEN remaining ELSE 0

Applied(row, i, remaining) ==
  IF Open(row) THEN Minimum(Due(row, i), remaining) ELSE 0

\* left[i] is "remaining" after the first i invoices in dueDate order.
Allotments(rows, amount) ==
  {left \in [0..N -> 0..amount] :
     /\ left[0] = amount
     /\ \A i \in Invoices : left[i] = left[i - 1] - Applied(rows[i], i, left[i - 1])}

Reached(rows, left, i) == Open(rows[i]) /\ left[i - 1] > 0

Part(left, i) == left[i - 1] - left[i]

NewStatus(paid, i) == IF paid >= Total[i] THEN "PAID" ELSE "PARTIALLY_PAID"

Settled_Overwrites(row, i, part) ==
  [status |-> NewStatus(row.paid + part, i), paid |-> part]

\* The row allocatePayment writes: computed from the row it read.
Settled(row, i, part) ==
  [status |-> NewStatus(row.paid + part, i), paid |-> row.paid + part]

\* An invoice paid in part before and in part now fails assertInvoiceTransition.
Allocates(rows, left) ==
  \A i \in Invoices :
     Reached(rows, left, i) =>
        LC!CanTransition(rows[i].status, Settled(rows[i], i, Part(left, i)).status)

\* Receipt.reference, made of the tail, is unique: of two payments with one tail,
\* the second to be captured rolls back, however often it is tried.
ReferenceTaken(p) ==
  Made(p) /\ \E q \in Payments \ {p} : receipt[q] # "none" /\ payment[q].tail = payment[p].tail

Captured(row) == [row EXCEPT !.status = "SUCCESS", !.event = "claimed"]

CommitCapture(w) ==
  /\ req[w].op = "capture"
  /\ LET p == req[w].pay
         rows == req[w].rows
     IN \E left \in Allotments(rows, payment[p].amount) :
          /\ Allocates(rows, left)
          /\ ~ReferenceTaken(p)
          /\ invoice' = [i \in Invoices |->
                           IF Reached(rows, left, i)
                           THEN Settled(rows[i], i, Part(left, i)) ELSE invoice[i]]
          /\ alloc' = [alloc EXCEPT ![p] = [i \in Invoices |-> @[i] + Part(left, i)]]
          /\ payment' = [payment EXCEPT ![p] = Captured(@)]
          /\ receipt' = [receipt EXCEPT ![p] = "issued"]
          /\ req' = [req EXCEPT ![w] = [op |-> "pdf", pay |-> p]]
  /\ UNCHANGED gateway

\* generateReceiptPdf, after the commit.
FileReceipt(w) ==
  /\ req[w].op = "pdf"
  /\ receipt' = [receipt EXCEPT ![req[w].pay] = "filed"]
  /\ req' = [req EXCEPT ![w] = Idle]
  /\ UNCHANGED <<invoice, payment, alloc, gateway>>

\* A handler that has committed nothing fails, and its transaction rolls back;
\* with CanCrash the webhook may also fail or die before the PDF is stored.
Abort(w) ==
  /\ req[w] # Idle
  /\ req[w].op = "pdf" => CanCrash
  /\ req' = [req EXCEPT ![w] = Idle]
  /\ UNCHANGED <<invoice, payment, alloc, receipt, gateway>>

-----------------------------------------------------------------------------
Begin(w) ==
  \/ \E i \in Invoices : BeginIssue(w, i) \/ BeginCancel(w, i)
  \/ \E k \in Key : BeginInitiate(w, k)
  \/ \E p \in Payments : BeginFail(w, p) \/ BeginCapture(w, p)

Finish(w) ==
  \/ WriteIssue(w)
  \/ WriteCancel(w)
  \/ \E p \in Payments : CreatePayment(w, p)
  \/ WriteFail(w)
  \/ CommitCapture(w)
  \/ FileReceipt(w)
  \/ Abort(w)

Environment ==
  \/ \E i \in Invoices : DraftInvoice(i)
  \/ \E p \in Payments, type \in EventType : Sign(p, type)

Next == Environment \/ \E w \in Workers : Begin(w) \/ Finish(w)

Spec == Init /\ [][Next]_vars

\* Every request ends; the gateway redelivers a captured event until it is
\* answered, and neither the network nor the database fails every time.
Fairness ==
  /\ \A w \in Workers : WF_vars(Finish(w)) /\ SF_vars(CommitCapture(w))
  /\ \A p \in Payments : SF_vars(\E w \in Workers : BeginCapture(w, p))

FairSpec == Spec /\ Fairness

\* One request at a time: each handler runs to its end alone.
Serial ==
  \A w1, w2 \in Workers : req[w1] # Idle /\ req[w2] # Idle => w1 = w2

SerialSpec == Init /\ [][Next /\ Serial']_vars

-----------------------------------------------------------------------------
(* Properties *)

References ==
  \A p \in Payments : Made(p) => \A i \in payment[p].key.invoices : Present(i)

\* Every variable has its type, and a payment refers to invoices that exist.
TypeOK ==
  /\ invoice \in [Invoices -> Invoice]
  /\ payment \in [Payments -> PaymentRow \cup {NoPayment}]
  /\ alloc \in [Payments -> [Invoices -> Nat]]
  /\ receipt \in [Payments -> {"none", "issued", "filed"}]
  /\ req \in [Workers -> Request \cup {Idle}]
  /\ gateway \in SUBSET (Payments \X EventType)
  /\ References

\* What a status says of the money on an invoice row.
RowInOrder(row, i) ==
  /\ row.paid <= Total[i]
  /\ row.status \in {"ABSENT", "DRAFT"} => row.paid = 0
  /\ row.status = "PARTIALLY_PAID" => 0 < row.paid /\ row.paid < Total[i]
  /\ row.status = "PAID" => row.paid = Total[i]

\* No invoice is ever paid beyond its total, and PAID and PARTIALLY_PAID tell
\* the truth, however captures, cancellations and issues interleave.
StatusFollowsMoney == \A i \in Invoices : RowInOrder(invoice[i], i)

\* A payment is credited by the one webhook that claimed it: before the claim it
\* has no allocation, no receipt and is not SUCCESS, after it there is a receipt.
CreditedByItsClaim ==
  \A p \in Payments :
     IF Made(p) /\ payment[p].event = "claimed"
     THEN receipt[p] # "none"
     ELSE /\ receipt[p] = "none"
          /\ payment[p].status # "SUCCESS"
          /\ \A i \in Invoices : alloc[p][i] = 0

\* Only the step that claims a payment credits it, whatever is redelivered.
CreditStep(p) ==
  alloc'[p] # alloc[p] =>
    /\ payment[p].event = "none"
    /\ payment'[p].event = "claimed"

CreditOnce == [][\A p \in Payments : CreditStep(p)]_vars

\* A payment never credits more than its amount, also when its event is replayed.
AllocationsFit ==
  \A p \in Payments :
     Made(p) => SumFunction(alloc[p]) <= payment[p].amount

\* Starting the same payment twice, even concurrently, makes one payment.
OnePaymentPerKey ==
  \A p1, p2 \in Payments :
     Made(p1) /\ Made(p2) /\ payment[p1].key = payment[p2].key => p1 = p2

\* What a request in progress carries: rows in order, a payment that exists, and
\* for the webhook's transaction a payment that nobody else can claim.
SoundRequests ==
  \A w \in Workers :
     /\ req[w].op \in {"issue", "cancel"} => Present(req[w].inv)
     /\ req[w].op = "issue" => LC!CanTransition(req[w].row.status, "ISSUED")
     /\ req[w].op = "cancel" => Cancellable(req[w].row)
     /\ req[w].op = "initiate" => \A i \in req[w].key.invoices : Present(i)
     /\ req[w].op \in {"fail", "pdf", "capture"} => Made(req[w].pay)
     /\ req[w].op = "pdf" => receipt[req[w].pay] # "none"
     /\ req[w].op = "capture" =>
          /\ payment[req[w].pay].event = "none"
          /\ \A i \in Invoices : RowInOrder(req[w].rows[i], i)

OneClaim ==
  \A w1, w2 \in Workers :
     /\ req[w1].op = "capture" /\ req[w2].op = "capture"
     /\ req[w1].pay = req[w2].pay
     => w1 = w2

SignedAreMade == \A p \in Payments, type \in EventType : <<p, type>> \in gateway => Made(p)

\* The inductive invariant behind the theorems of BillingProofs.
IInv ==
  /\ TypeOK
  /\ SoundRequests
  /\ OneClaim
  /\ SignedAreMade
  /\ StatusFollowsMoney
  /\ CreditedByItsClaim
  /\ OnePaymentPerKey

\* What an invoice says it was paid is what payments allocated to it.
PaidIsAllocated ==
  \A i \in Invoices :
     invoice[i].paid = SumFunction([p \in Payments |-> alloc[p][i]])

\* "Cancel only unpaid invoices."
CancelledIsUnpaid ==
  \A i \in Invoices : invoice[i].status = "CANCELLED" => invoice[i].paid = 0

\* A payment with a receipt is SUCCESS.
ReceiptedIsSuccess ==
  \A p \in Payments : receipt[p] # "none" => payment[p].status = "SUCCESS"

\* In a serial run what a handler read is still what the rows say.
FreshReads ==
  \A w \in Workers :
     /\ req[w].op \in {"issue", "cancel"} => req[w].row = invoice[req[w].inv]
     /\ req[w].op = "fail" => payment[req[w].pay].event = "none"
     /\ req[w].op = "capture" =>
          \A i \in Invoices : Open(req[w].rows[i]) => req[w].rows[i] = invoice[i]

\* With handlers run one at a time the statuses move as ADR-006 documents.
LifecycleSpec == LC!Spec

\* A captured payment is eventually credited, however often the handler fails or
\* the process dies, but for the two things that can stop it for good: an invoice
\* already paid in part, and a receipt that has the reference its own would get.
CapturedIsSettledOrPartial ==
  \A p \in Payments :
     <<p, "captured">> \in gateway ~>
        \/ Made(p) /\ payment[p].event = "claimed"
        \/ \E i \in Invoices : invoice[i].status = "PARTIALLY_PAID"
        \/ ReferenceTaken(p)
=============================================================================
