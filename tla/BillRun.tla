------------------------------ MODULE BillRun ------------------------------
(***************************************************************************)
(* Bill runs: BillingService.createChargeHead, createBillRun and           *)
(* generateInvoices over ChargeHead, BillRun and the DRAFT rows of         *)
(* Invoice, with the units StructureService creates and measures.          *)
(*                                                                         *)
(* generateInvoices is a loop of awaits without a transaction: read the    *)
(* run and its units, then for each unit look for an invoice, read the     *)
(* area and insert.  Other generations, new units and a process that dies  *)
(* come in anywhere.  What happens to a DRAFT invoice next is UnitLedger.  *)
(***************************************************************************)
EXTENDS Integers, Sequences, Functions

CONSTANTS
  Units,
  TowerOf,      \* the tower of each unit
  Areas,        \* areaSqft in hundredths of a square foot; 0 stands for null
  Heads,        \* charge heads
  Method,       \* calcMethod of each head
  TaxRate,      \* taxRateBps of each head that is taxable, 0 of the others
  Runs,
  Templates,    \* lineTemplates: sequences of [head, price]
  Scopes,       \* the scopes runs are created with
  MaxInt,       \* the largest value of an integer column
  Passes        \* calls of generateInvoices in progress at once

Line == [head : Heads, price : Nat]

Scope ==
       [kind : {"ALL_UNITS"}]
  \cup [kind : {"TOWER"}, tower : {TowerOf[u] : u \in Units}]
  \cup [kind : {"SELECTED_UNITS"}, units : SUBSET Units]

ASSUME BillRunAssumption ==
  /\ Areas \subseteq Nat /\ 0 \in Areas
  /\ Method \in [Heads -> {"FIXED", "AREA_BASED"}]
  /\ TaxRate \in [Heads -> Nat]
  /\ Templates \subseteq Seq(Line)
  /\ Scopes \subseteq Scope
  /\ MaxInt \in Nat

VARIABLES
  units,       \* the units that exist
  area,        \* areaSqft of each unit
  heads,       \* ChargeHead rows
  run,         \* BillRun rows
  billed,      \* totalPaise of the invoices of each run and unit, oldest first
  pass,        \* where each call of generateInvoices is
  overlapped   \* history: runs that two passes generated at once

billRunVars == <<units, area, heads, run, billed, pass, overlapped>>

\* "promised" is history: the units the scope covered when the run was created.
Run ==
  [status : {"DRAFT", "COMPLETED"}, scope : Scopes, lines : Templates,
   generatedCount : Nat, promised : SUBSET Units]

NoRun == [status |-> "ABSENT"]

\* "todo" are the units the loop has still to visit, "unit" the one it is at.
Generation ==
       [op : {"next"}, run : Runs, todo : SUBSET Units, made : Nat]
  \cup [op : {"missing"}, run : Runs, todo : SUBSET Units, made : Nat, unit : Units]
  \cup [op : {"insert"}, run : Runs, todo : SUBSET Units, made : Nat, unit : Units, area : Areas]

NoPass == [op |-> "idle"]

Generating(r) == {p \in Passes : pass[p] # NoPass /\ pass[p].run = r}

BillRunInit ==
  /\ units = {}
  /\ area = [u \in Units |-> 0]
  /\ heads = {}
  /\ run = [r \in Runs |-> NoRun]
  /\ billed = [r \in Runs |-> [u \in Units |-> <<>>]]
  /\ pass = [p \in Passes |-> NoPass]
  /\ overlapped = {}

-----------------------------------------------------------------------------
(* Money: what one line and one invoice come to, in paise *)

\* Math.round of n / d for n >= 0.
Rounded(n, d) == (2 * n + d) \div (2 * d)

\* quantity x unitPricePaise, rounded per line; an AREA_BASED line has the
\* unit's area, or 0 without one, for its quantity.
LineAmount(line, sqft) ==
  IF Method[line.head] = "AREA_BASED" THEN Rounded(sqft * line.price, 100) ELSE line.price

LineTax(line, sqft) == Rounded(LineAmount(line, sqft) * TaxRate[line.head], 10000)

InvoiceTotal(lines, sqft) ==
  SumFunction([i \in DOMAIN lines |-> LineAmount(lines[i], sqft) + LineTax(lines[i], sqft)])

-----------------------------------------------------------------------------
(* Set-up *)

\* createUnits: one tower's units in one transaction, labels that exist skipped.
CreateUnits(U, a) ==
  /\ U # {}
  /\ \A u, v \in U : TowerOf[u] = TowerOf[v]
  /\ U \cap units = {}
  /\ units' = units \cup U
  /\ area' = [u \in Units |-> IF u \in U THEN a ELSE area[u]]
  /\ UNCHANGED <<heads, run, billed, pass, overlapped>>

MeasureUnit(u, a) ==
  /\ u \in units
  /\ a # area[u]
  /\ area' = [area EXCEPT ![u] = a]
  /\ UNCHANGED <<units, heads, run, billed, pass, overlapped>>

CreateChargeHead(h) ==
  /\ h \notin heads
  /\ heads' = heads \cup {h}
  /\ UNCHANGED <<units, area, run, billed, pass, overlapped>>

InScope(scope, u) ==
  /\ scope.kind = "TOWER" => TowerOf[u] = scope.tower
  /\ scope.kind = "SELECTED_UNITS" => u \in scope.units

ScopeUnits(scope) == {u \in units : InScope(scope, u)}

\* Every charge head of the template must exist; a selection must not be empty.
CreateBillRun(r, scope, lines) ==
  /\ run[r] = NoRun
  /\ \A i \in DOMAIN lines : lines[i].head \in heads
  /\ run' = [run EXCEPT ![r] =
               [status |-> "DRAFT", scope |-> scope, lines |-> lines,
                generatedCount |-> 0, promised |-> ScopeUnits(scope)]]
  /\ UNCHANGED <<units, area, heads, billed, pass, overlapped>>

-----------------------------------------------------------------------------
(* generateInvoices *)

BeginGenerate(p, r) ==
  /\ pass[p] = NoPass
  /\ run[r].status = "DRAFT"
  /\ pass' = [pass EXCEPT ![p] = [op |-> "next", run |-> r, made |-> 0,
                                todo |-> ScopeUnits(run[r].scope)]]
  /\ overlapped' = IF Generating(r) = {} THEN overlapped ELSE overlapped \cup {r}
  /\ UNCHANGED <<units, area, heads, run, billed>>

Billed_Never(r, u) == FALSE

\* An invoice of the run for the unit, whatever has become of it.
Billed(r, u) == billed[r][u] # <<>>

\* The loop comes to a unit: one that has its invoice is passed over.
FindInvoice(p) ==
  /\ pass[p].op = "next"
  /\ \E u \in pass[p].todo :
       pass' = [pass EXCEPT ![p] =
                 IF Billed(@.run, u)
                 THEN [op |-> "next", run |-> @.run, made |-> @.made, todo |-> @.todo \ {u}]
                 ELSE [op |-> "missing", run |-> @.run, made |-> @.made,
                       todo |-> @.todo \ {u}, unit |-> u]]
  /\ UNCHANGED <<units, area, heads, run, billed, overlapped>>

ReadArea(p) ==
  /\ pass[p].op = "missing"
  /\ pass' = [pass EXCEPT ![p] = [op |-> "insert", run |-> @.run, made |-> @.made,
                                todo |-> @.todo, unit |-> @.unit, area |-> area[@.unit]]]
  /\ UNCHANGED <<units, area, heads, run, billed, overlapped>>

CreateInvoice_AnySize(p) ==
  /\ pass[p].op = "insert"
  /\ billed' = [billed EXCEPT ![pass[p].run][pass[p].unit] =
                   Append(@, InvoiceTotal(run[pass[p].run].lines, pass[p].area))]
  /\ pass' = [pass EXCEPT ![p] = [op |-> "next", run |-> @.run, made |-> @.made + 1,
                                todo |-> @.todo]]
  /\ UNCHANGED <<units, area, heads, run, overlapped>>

\* A total that does not fit its column makes the insert, and the loop, throw.
CreateInvoice(p) ==
  /\ pass[p].op = "insert"
  /\ LET total == InvoiceTotal(run[pass[p].run].lines, pass[p].area) IN
       /\ total <= MaxInt
       /\ billed' = [billed EXCEPT ![pass[p].run][pass[p].unit] = Append(@, total)]
  /\ pass' = [pass EXCEPT ![p] = [op |-> "next", run |-> @.run, made |-> @.made + 1,
                                todo |-> @.todo]]
  /\ UNCHANGED <<units, area, heads, run, overlapped>>

Complete_NothingMade(p) ==
  /\ pass[p].op = "next"
  /\ pass[p].todo = {} \/ pass[p].made = 0
  /\ run' = [run EXCEPT ![pass[p].run].status = "COMPLETED",
                        ![pass[p].run].generatedCount = pass[p].made]
  /\ pass' = [pass EXCEPT ![p] = NoPass]
  /\ UNCHANGED <<units, area, heads, billed, overlapped>>

\* The run's row is written whatever its status has become; generatedCount is
\* what this pass inserted.
Complete(p) ==
  /\ pass[p].op = "next"
  /\ pass[p].todo = {}
  /\ run' = [run EXCEPT ![pass[p].run].status = "COMPLETED",
                        ![pass[p].run].generatedCount = pass[p].made]
  /\ pass' = [pass EXCEPT ![p] = NoPass]
  /\ UNCHANGED <<units, area, heads, billed, overlapped>>

\* A statement throws, or the process dies: what was inserted stays.
AbortPass(p) ==
  /\ pass[p] # NoPass
  /\ pass' = [pass EXCEPT ![p] = NoPass]
  /\ UNCHANGED <<units, area, heads, run, billed, overlapped>>

Generate(p) == FindInvoice(p) \/ ReadArea(p) \/ CreateInvoice(p) \/ Complete(p)

BillRunNext ==
  \/ \E U \in SUBSET Units, a \in Areas : CreateUnits(U, a)
  \/ \E u \in Units, a \in Areas : MeasureUnit(u, a)
  \/ \E h \in Heads : CreateChargeHead(h)
  \/ \E r \in Runs, s \in Scopes, t \in Templates : CreateBillRun(r, s, t)
  \/ \E p \in Passes : (\E r \in Runs : BeginGenerate(p, r)) \/ Generate(p) \/ AbortPass(p)

BillRunSpec == BillRunInit /\ [][BillRunNext]_billRunVars

-----------------------------------------------------------------------------
(* Properties *)

\* Every variable keeps its type.
BillRunTypeOK ==
  /\ units \subseteq Units
  /\ area \in [Units -> Areas]
  /\ heads \subseteq Heads
  /\ run \in [Runs -> Run \cup {NoRun}]
  /\ billed \in [Runs -> [Units -> Seq(0..MaxInt)]]
  /\ pass \in [Passes -> Generation \cup {NoPass}]
  /\ overlapped \subseteq Runs

\* generateInvoices is idempotent per (billRun, unit): through failures half-way
\* and repeated passes a unit has at most one invoice of a run, as long as no
\* two passes overlap.
RerunNeverDuplicates ==
  \A r \in Runs \ overlapped : \A u \in Units : Len(billed[r][u]) <= 1

\* A COMPLETED run, which can never be generated again, has billed every unit
\* its scope covered when it was created, even if passes overlapped or were cut
\* short; and whatever was added to the society meanwhile, nobody outside the
\* scope is billed.
RunBillsItsScope ==
  \A r \in Runs :
     /\ run[r].status = "COMPLETED" => \A u \in run[r].promised : Billed(r, u)
     /\ \A u \in Units : Billed(r, u) => InScope(run[r].scope, u)

\* A pass has found its unit unbilled, and is about to insert.
At(p, u) == pass[p].op \in {"missing", "insert"} /\ pass[p].unit = u

\* A run that exists promises units that exist, in its scope; one that does not
\* has billed nobody.
RunsInOrder ==
  \A r \in Runs :
     IF run[r] = NoRun THEN \A u \in Units : ~Billed(r, u)
     ELSE run[r].promised \subseteq ScopeUnits(run[r].scope)

\* A pass visits units in the scope of its run, and every promised unit is billed
\* already, is the one it is at, or is still to be visited.
PassesInOrder ==
  \A p \in Passes :
     pass[p] # NoPass =>
       LET r == pass[p].run IN
         /\ run[r] # NoRun
         /\ \A u \in Units : u \in pass[p].todo \/ At(p, u) => InScope(run[r].scope, u)
         /\ \A u \in run[r].promised : Billed(r, u) \/ At(p, u) \/ u \in pass[p].todo

\* A pass that no other overlapped is alone on its run, and the unit it is at has
\* no invoice yet.
PassesAlone ==
  \A r \in Runs \ overlapped :
     /\ \A p1, p2 \in Generating(r) : p1 = p2
     /\ \A p \in Generating(r), u \in Units : At(p, u) => ~Billed(r, u)

\* The inductive invariant behind the theorems of BillingProofs.
BillRunInv ==
  /\ BillRunTypeOK
  /\ RunsInOrder
  /\ PassesInOrder
  /\ PassesAlone
  /\ RerunNeverDuplicates
  /\ RunBillsItsScope
=============================================================================
