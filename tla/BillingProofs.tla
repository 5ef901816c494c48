--------------------------- MODULE BillingProofs ---------------------------
(***************************************************************************)
(* Theorems about BillRun and UnitLedger for any number of units, runs and *)
(* overlapping passes, of invoices, payers, payments and requests, and for *)
(* any amounts.                                                            *)
(*                                                                         *)
(* What sums of money come to is proved by induction over finite sets: the *)
(* subsets of a finite set are well-founded (FiniteSetTheorems), so of the *)
(* subsets on which a claim fails one is smallest (WellFoundedInduction).  *)
(***************************************************************************)
EXTENDS BillRun, UnitLedger, FiniteSetTheorems, SequenceTheorems,
        WellFoundedInduction, TLAPS

-----------------------------------------------------------------------------
(* Sums over finite sets *)

\* The element the fold takes out of a set first.
Some(S) == CHOOSE x \in S : TRUE

\* g computes, for each subset of D, what the fold behind SumFunctionOnSet does.
Sums(g, f, D) ==
  g = [s \in SUBSET D |-> IF s = {} THEN 0 ELSE f[Some(s)] + g[s \ {Some(s)}]]

SumOf(f, D) == CHOOSE g : Sums(g, f, D)

\* SumFunctionOnSet is that recursive function.
LEMMA SumIsFold ==
  ASSUME NEW f, NEW D
  PROVE  SumFunctionOnSet(f, D) = SumOf(f, D)[D]
BY DEF SumFunctionOnSet, FoldFunctionOnSet, MapThenFoldSet, SumOf, Sums, Some

\* Induction over the subsets of a finite set: what fails for one of them fails
\* for one all of whose strict subsets it holds for.
LEMMA SmallestSubset ==
  ASSUME NEW S, IsFiniteSet(S), NEW B, B \subseteq SUBSET S, B # {}
  PROVE  \E T \in B : \A U \in SUBSET T : U # T => U \notin B
<1>1. IsWellFoundedOn(StrictSubsetOrdering(S), SUBSET S)
  BY FS_StrictSubsetOrderingWellFounded, FS_FiniteSubsetsOfFinite
<1>2. PICK T \in B : \A U \in B : <<U, T>> \notin StrictSubsetOrdering(S)
  BY <1>1, WFMin
<1> QED
  BY <1>2 DEF StrictSubsetOrdering

\* Two such functions agree on the sets both are defined on.
LEMMA SumsAgree ==
  ASSUME NEW S, IsFiniteSet(S), NEW f, NEW U \in SUBSET S, NEW V \in SUBSET S,
         NEW g, Sums(g, f, U), NEW h, Sums(h, f, V)
  PROVE  \A T \in SUBSET (U \cap V) : g[T] = h[T]
<1> DEFINE B == {T \in SUBSET (U \cap V) : g[T] # h[T]}
<1> SUFFICES ASSUME B # {} PROVE FALSE
  OBVIOUS
<1>1. PICK T \in B : \A W \in SUBSET T : W # T => W \notin B
  <2>1. B \subseteq SUBSET S
    OBVIOUS
  <2> HIDE DEF B
  <2> QED
    BY <2>1, SmallestSubset
<1>2. CASE T = {}
  <2>1. g[{}] = 0 /\ h[{}] = 0
    BY DEF Sums
  <2> QED
    BY <1>2, <2>1
<1>3. CASE T # {}
  <2>1. /\ g[T] = f[Some(T)] + g[T \ {Some(T)}]
        /\ h[T] = f[Some(T)] + h[T \ {Some(T)}]
    BY <1>3 DEF Sums
  <2>2. Some(T) \in T
    BY <1>3 DEF Some
  <2>3. g[T \ {Some(T)}] = h[T \ {Some(T)}]
    BY <1>1, <2>2
  <2> QED
    BY <2>1, <2>3
<1> QED
  BY <1>2, <1>3

\* There is such a function for every finite set, so the CHOOSE of the fold finds one.
LEMMA SumExists ==
  ASSUME NEW S, IsFiniteSet(S), NEW f
  PROVE  \A D \in SUBSET S : Sums(SumOf(f, D), f, D)
<1> DEFINE B == {D \in SUBSET S : ~Sums(SumOf(f, D), f, D)}
<1> SUFFICES ASSUME B # {} PROVE FALSE
  OBVIOUS
<1>1. PICK D \in B : \A W \in SUBSET D : W # D => W \notin B
  <2>1. B \subseteq SUBSET S
    OBVIOUS
  <2> HIDE DEF B
  <2> QED
    BY <2>1, SmallestSubset
<1> DEFINE val(s) == IF s = {} THEN 0
                     ELSE f[Some(s)] + SumOf(f, s \ {Some(s)})[s \ {Some(s)}]
           g == [s \in SUBSET D |-> val(s)]
<1>2. ASSUME NEW s \in SUBSET D, s # {}
      PROVE  val(s) = f[Some(s)] + g[s \ {Some(s)}]
  <2> DEFINE u == s \ {Some(s)}
  <2>1. Some(s) \in s
    BY <1>2 DEF Some
  <2>2. u \in SUBSET D /\ u # D /\ u \in SUBSET S /\ D \in SUBSET S
    BY <2>1
  <2>3. Sums(SumOf(f, u), f, u)
    BY <1>1, <2>2
  <2>4. SumOf(f, u)[u] = val(u)
    <3>1. CASE u = {}
      BY <2>3, <3>1 DEF Sums
    <3>2. CASE u # {}
      <4> DEFINE v == u \ {Some(u)}
      <4>1. Some(u) \in u
        BY <3>2 DEF Some
      <4>2. v \in SUBSET u /\ v # D /\ v \in SUBSET D /\ v \in SUBSET S
        BY <4>1, <2>2
      <4>3. Sums(SumOf(f, v), f, v)
        BY <1>1, <4>2
      <4>4. SumOf(f, u)[v] = SumOf(f, v)[v]
        <5> HIDE DEF u, v
        <5> QED
          BY <2>2, <2>3, <4>2, <4>3, SumsAgree
      <4>5. SumOf(f, u)[u] = f[Some(u)] + SumOf(f, u)[v]
        BY <2>3, <3>2 DEF Sums
      <4> QED
        BY <3>2, <4>4, <4>5
    <3> QED
      BY <3>1, <3>2
  <2>5. g[u] = val(u)
    BY <2>2
  <2>6. val(s) = f[Some(s)] + SumOf(f, u)[u]
    BY <1>2
  <2> QED
    BY <2>4, <2>5, <2>6
<1>3. Sums(g, f, D)
  BY <1>2 DEF Sums
<1>4. Sums(SumOf(f, D), f, D)
  <2> HIDE DEF g
  <2> QED
    BY <1>3 DEF SumOf
<1> QED
  BY <1>4

\* The sum over no set at all, and over what is left without Some(S).
LEMMA SumUnfolds ==
  ASSUME NEW S, IsFiniteSet(S), NEW f
  PROVE  /\ SumFunctionOnSet(f, {}) = 0
         /\ S # {} => SumFunctionOnSet(f, S)
                        = f[Some(S)] + SumFunctionOnSet(f, S \ {Some(S)})
<1>1. Sums(SumOf(f, {}), f, {}) /\ Sums(SumOf(f, S), f, S)
  BY SumExists
<1>2. SumFunctionOnSet(f, {}) = 0
  BY <1>1, SumIsFold DEF Sums
<1>3. ASSUME S # {}
      PROVE  SumFunctionOnSet(f, S) = f[Some(S)] + SumFunctionOnSet(f, S \ {Some(S)})
  <2> DEFINE R == S \ {Some(S)}
  <2>1. Sums(SumOf(f, R), f, R)
    BY SumExists
  <2>2. SumOf(f, S)[R] = SumOf(f, R)[R]
    BY <1>1, <2>1, SumsAgree
  <2>3. SumOf(f, S)[S] = f[Some(S)] + SumOf(f, S)[R]
    BY <1>1, <1>3 DEF Sums
  <2> QED
    BY <2>2, <2>3, SumIsFold
<1> QED
  BY <1>2, <1>3

\* A sum of integers is an integer, one of naturals a natural.
LEMMA SumType ==
  ASSUME NEW S, IsFiniteSet(S), NEW f
  PROVE  /\ (\A x \in S : f[x] \in Int) => SumFunctionOnSet(f, S) \in Int
         /\ (\A x \in S : f[x] \in Nat) => SumFunctionOnSet(f, S) \in Nat
<1>1. ASSUME NEW D, D = Int \/ D = Nat, \A x \in S : f[x] \in D
      PROVE  SumFunctionOnSet(f, S) \in D
  <2> DEFINE B == {T \in SUBSET S : SumFunctionOnSet(f, T) \notin D}
  <2> SUFFICES ASSUME B # {} PROVE FALSE
    OBVIOUS
  <2>1. PICK T \in B : \A W \in SUBSET T : W # T => W \notin B
    <3>1. B \subseteq SUBSET S
      OBVIOUS
    <3> HIDE DEF B
    <3> QED
      BY <3>1, SmallestSubset
  <2>2. IsFiniteSet(T)
    BY FS_Subset
  <2>3. T # {}
    <3>1. 0 \in D
      BY <1>1
    <3> HIDE DEF B
    <3>2. SumFunctionOnSet(f, {}) = 0
      BY <2>2, SumUnfolds
    <3> USE DEF B
    <3>3. SumFunctionOnSet(f, T) \notin D
      OBVIOUS
    <3> HIDE DEF B
    <3> QED
      BY <3>1, <3>2, <3>3
  <2> DEFINE R == T \ {Some(T)}
  <2>4. Some(T) \in T
    BY <2>3 DEF Some
  <2>5. SumFunctionOnSet(f, R) \in D
    BY <2>1, <2>4
  <2>6. SumFunctionOnSet(f, T) = f[Some(T)] + SumFunctionOnSet(f, R)
    BY <2>2, <2>3, SumUnfolds
  <2> QED
    BY <1>1, <2>4, <2>5, <2>6
<1> QED
  BY <1>1

\* The sum does not depend on the order: any element may be taken out first.
LEMMA SumTakesOut ==
  ASSUME NEW S, IsFiniteSet(S), NEW f, \A y \in S : f[y] \in Int, NEW x \in S
  PROVE  SumFunctionOnSet(f, S) = f[x] + SumFunctionOnSet(f, S \ {x})
<1> DEFINE Sum(T) == SumFunctionOnSet(f, T)
           B == {T \in SUBSET S : \E y \in T : Sum(T) # f[y] + Sum(T \ {y})}
<1> SUFFICES ASSUME B # {} PROVE FALSE
  OBVIOUS
<1>1. PICK T \in B : \A W \in SUBSET T : W # T => W \notin B
  <2>1. B \subseteq SUBSET S
    OBVIOUS
  <2> HIDE DEF B
  <2> QED
    BY <2>1, SmallestSubset
<1>2. PICK y \in T : Sum(T) # f[y] + Sum(T \ {y})
  OBVIOUS
<1>3. \A W \in SUBSET S : IsFiniteSet(W) /\ Sum(W) \in Int
  BY FS_Subset, SumType
<1> DEFINE z == Some(T)
           R == T \ {y, z}
<1>4. z \in T /\ y # z /\ Sum(T) = f[z] + Sum(T \ {z})
  BY <1>2, <1>3, SumUnfolds DEF Some
<1>5. Sum(T \ {z}) = f[y] + Sum(R)
  <2>1. T \ {z} \notin B /\ y \in T \ {z} /\ (T \ {z}) \ {y} = R
    BY <1>1, <1>4
  <2> QED
    BY <2>1
<1>6. Sum(T \ {y}) = f[z] + Sum(R)
  <2>1. T \ {y} \notin B /\ z \in T \ {y} /\ (T \ {y}) \ {z} = R
    BY <1>1, <1>4
  <2> QED
    BY <2>1
<1>7. f[y] \in Int /\ f[z] \in Int /\ Sum(R) \in Int
  BY <1>3, <1>4
<1> HIDE DEF Sum, z, R
<1> QED
  BY <1>2, <1>4, <1>5, <1>6, <1>7

\* Functions that agree on a set have the same sum over it.
LEMMA SumSame ==
  ASSUME NEW S, IsFiniteSet(S), NEW f, NEW g, \A x \in S : f[x] = g[x]
  PROVE  SumFunctionOnSet(f, S) = SumFunctionOnSet(g, S)
<1> DEFINE B == {T \in SUBSET S : SumFunctionOnSet(f, T) # SumFunctionOnSet(g, T)}
<1> SUFFICES ASSUME B # {} PROVE FALSE
  OBVIOUS
<1>1. PICK T \in B : \A W \in SUBSET T : W # T => W \notin B
  <2>1. B \subseteq SUBSET S
    OBVIOUS
  <2> HIDE DEF B
  <2> QED
    BY <2>1, SmallestSubset
<1>2. IsFiniteSet(T)
  BY FS_Subset
<1>3. CASE T = {}
  BY <1>2, <1>3, SumUnfolds
<1>4. CASE T # {}
  <2> DEFINE R == T \ {Some(T)}
  <2>1. Some(T) \in T
    BY <1>4 DEF Some
  <2>2. SumFunctionOnSet(f, R) = SumFunctionOnSet(g, R) /\ f[Some(T)] = g[Some(T)]
    BY <1>1, <2>1
  <2>3. /\ SumFunctionOnSet(f, T) = f[Some(T)] + SumFunctionOnSet(f, R)
        /\ SumFunctionOnSet(g, T) = g[Some(T)] + SumFunctionOnSet(g, R)
    BY <1>2, <1>4, SumUnfolds
  <2> QED
    BY <2>2, <2>3
<1> QED
  BY <1>3, <1>4

\* One summand changes: so does the sum, by as much.
LEMMA SumChanges ==
  ASSUME NEW S, IsFiniteSet(S), NEW f, NEW g, NEW x \in S,
         \A y \in S : f[y] \in Int /\ g[y] \in Int,
         \A y \in S \ {x} : f[y] = g[y]
  PROVE  SumFunctionOnSet(g, S) = SumFunctionOnSet(f, S) + (g[x] - f[x])
<1>1. IsFiniteSet(S \ {x})
  BY FS_Subset
<1>2. SumFunctionOnSet(f, S \ {x}) = SumFunctionOnSet(g, S \ {x})
  BY <1>1, SumSame
<1>3. SumFunctionOnSet(f, S \ {x}) \in Int
  BY <1>1, SumType
<1>4. /\ SumFunctionOnSet(f, S) = f[x] + SumFunctionOnSet(f, S \ {x})
      /\ SumFunctionOnSet(g, S) = g[x] + SumFunctionOnSet(g, S \ {x})
  BY SumTakesOut
<1> QED
  BY <1>2, <1>3, <1>4

\* Nothing but zeros.
LEMMA SumOfZeros ==
  ASSUME NEW S, IsFiniteSet(S), NEW f, \A x \in S : f[x] = 0
  PROVE  SumFunctionOnSet(f, S) = 0
<1> DEFINE B == {T \in SUBSET S : SumFunctionOnSet(f, T) # 0}
<1> SUFFICES ASSUME B # {} PROVE FALSE
  OBVIOUS
<1>1. PICK T \in B : \A W \in SUBSET T : W # T => W \notin B
  <2>1. B \subseteq SUBSET S
    OBVIOUS
  <2> HIDE DEF B
  <2> QED
    BY <2>1, SmallestSubset
<1>2. IsFiniteSet(T)
  BY FS_Subset
<1>3. T # {}
  BY <1>2, SumUnfolds
<1>4. Some(T) \in T /\ SumFunctionOnSet(f, T \ {Some(T)}) = 0
  BY <1>1, <1>3 DEF Some
<1> QED
  BY <1>2, <1>3, <1>4, SumUnfolds

\* Differences of neighbours add up to the difference of the ends.
LEMMA SumTelescopes ==
  ASSUME NEW n \in Nat, NEW left, \A i \in 0..n : left[i] \in Int,
         NEW f, \A i \in 1..n : f[i] = left[i - 1] - left[i]
  PROVE  SumFunctionOnSet(f, 1..n) = left[0] - left[n]
<1> DEFINE B == {T \in SUBSET (1..n) : \E k \in 0..n :
                   T = 1..k /\ SumFunctionOnSet(f, T) # left[0] - left[k]}
<1> SUFFICES ASSUME B # {} PROVE FALSE
  <2>1. 1..n \notin B
    OBVIOUS
  <2> QED
    BY <2>1
<1>1. IsFiniteSet(1..n)
  BY FS_Interval
<1>2. PICK T \in B : \A W \in SUBSET T : W # T => W \notin B
  <2>1. B \subseteq SUBSET (1..n)
    OBVIOUS
  <2> HIDE DEF B
  <2> QED
    BY <1>1, <2>1, SmallestSubset
<1>3. PICK k \in 0..n : T = 1..k /\ SumFunctionOnSet(f, T) # left[0] - left[k]
  OBVIOUS
<1>4. IsFiniteSet(T)
  BY <1>1, FS_Subset
<1>5. CASE k = 0
  <2>1. T = {} /\ left[0] \in Int
    BY <1>3, <1>5
  <2>2. SumFunctionOnSet(f, T) = 0
    BY <1>4, <2>1, SumUnfolds
  <2> QED
    BY <1>3, <1>5, <2>1, <2>2
<1>6. CASE k # 0
  <2> DEFINE R == 1..(k - 1)
  <2>1. k \in T /\ T \ {k} = R /\ R # T /\ R \in SUBSET (1..n) /\ k - 1 \in 0..n
    BY <1>3, <1>6
  <2>2. SumFunctionOnSet(f, R) = left[0] - left[k - 1]
    BY <1>2, <2>1
  <2>3. \A y \in T : f[y] \in Int
    <3> TAKE y \in T
    <3>1. y \in 1..n /\ y \in 0..n /\ y - 1 \in 0..n
      BY <1>3
    <3>2. f[y] = left[y - 1] - left[y] /\ left[y - 1] \in Int /\ left[y] \in Int
      BY <3>1
    <3> HIDE DEF B
    <3> QED
      BY <3>2
  <2>4. SumFunctionOnSet(f, T) = f[k] + SumFunctionOnSet(f, R)
    <3> HIDE DEF B, R
    <3> QED
      BY <1>4, <2>1, <2>3, SumTakesOut
  <2>5. f[k] = left[k - 1] - left[k] /\ {left[0], left[k - 1], left[k]} \subseteq Int
    BY <1>3, <1>6
  <2> QED
    BY <1>3, <2>2, <2>4, <2>5
<1> QED
  BY <1>5, <1>6

-----------------------------------------------------------------------------
(* UnitLedger: what a step reads and writes *)

\* The words of the status column the proofs meet.
LEMMA StatusWords ==
  /\ "ABSENT" \notin LC!InvoiceStatus
  /\ {"DRAFT", "ISSUED", "CANCELLED", "PAID", "PARTIALLY_PAID", "OVERDUE"} \subseteq LC!InvoiceStatus
BY DEF LC!InvoiceStatus

\* The fields a request carries, by the handler that carries them.
LEMMA RequestFields ==
  ASSUME TypeOK, NEW w \in Workers
  PROVE  /\ req[w].op \in {"issue", "cancel"} =>
              req[w].inv \in Invoices /\ req[w].row \in Invoice
         /\ req[w].op = "initiate" => req[w].key \in Key /\ req[w].amount \in Nat
         /\ req[w].op \in {"fail", "pdf", "capture"} => req[w].pay \in Payments
         /\ req[w].op = "capture" => req[w].rows \in [Invoices -> Invoice]
         /\ req[w].op = "idle" <=> req[w] = Idle
<1>1. req[w] \in Request \cup {Idle}
  BY DEF TypeOK
<1> QED
  BY <1>1 DEF Request, Idle

\* A payment that has been made is a row of its table.
LEMMA PaymentFields ==
  ASSUME TypeOK, NEW p \in Payments, Made(p)
  PROVE  payment[p] \in PaymentRow
BY DEF TypeOK, Made, NoPayment

\* Writing a status leaves a table of invoices.
LEMMA RowUpdate ==
  ASSUME invoice \in [Invoices -> Invoice], NEW i \in Invoices, NEW s \in LC!InvoiceStatus
  PROVE  /\ [invoice EXCEPT ![i].status = s] \in [Invoices -> Invoice]
         /\ [invoice EXCEPT ![i].status = s][i].status = s
         /\ [invoice EXCEPT ![i].status = s][i].paid = invoice[i].paid
BY DEF Invoice

\* One iteration of allocatePayment: the part is what the invoice owes at most, the
\* row it writes is in order, and what remains for the later invoices is no more.
LEMMA OneInvoice ==
  ASSUME LedgerAssumption,
         NEW i \in Invoices, NEW row \in Invoice, RowInOrder(row, i),
         NEW amount \in Nat, NEW left \in [0..N -> 0..amount],
         left[i] = left[i - 1] - Applied(row, i, left[i - 1])
  PROVE  /\ i \in 0..N /\ i - 1 \in 0..N
         /\ Part(left, i) \in Nat
         /\ ~Open(row) => Part(left, i) = 0
         /\ Open(row) /\ left[i - 1] = 0 => Part(left, i) = 0
         /\ Open(row) /\ left[i - 1] > 0 =>
              /\ Settled(row, i, Part(left, i)) \in Invoice
              /\ Settled(row, i, Part(left, i)).status \in {"PAID", "PARTIALLY_PAID"}
              /\ RowInOrder(Settled(row, i, Part(left, i)), i)
<1>1. i \in Nat /\ 1 <= i /\ i <= N /\ N \in Nat
  BY DEF Invoices, LedgerAssumption
<1>2. i \in 0..N /\ i - 1 \in 0..N
  BY <1>1
<1>3. left[i] \in Nat /\ left[i - 1] \in Nat
  BY <1>2
<1>4. Total[i] \in Nat /\ row.paid \in Nat /\ row.paid <= Total[i]
  BY DEF LedgerAssumption, Invoices, Invoice, RowInOrder
<1>5. Part(left, i) = Applied(row, i, left[i - 1])
  BY <1>3, <1>4 DEF Part, Applied, Due, Minimum
<1>6. ~Open(row) => Part(left, i) = 0
  BY <1>5 DEF Applied
<1>7. ASSUME Open(row)
      PROVE  /\ Part(left, i) \in Nat
             /\ (Part(left, i) = Total[i] - row.paid \/ Part(left, i) = left[i - 1])
             /\ row.paid + Part(left, i) <= Total[i]
             /\ left[i - 1] = 0 => Part(left, i) = 0
  <2>1. Part(left, i) = Minimum(Total[i] - row.paid, left[i - 1])
    BY <1>5, <1>7 DEF Applied, Due
  <2>2. CASE Total[i] - row.paid <= left[i - 1]
    <3>1. Part(left, i) = Total[i] - row.paid
      BY <2>1, <2>2 DEF Minimum
    <3> QED
      BY <1>3, <1>4, <2>2, <3>1
  <2>3. CASE ~(Total[i] - row.paid <= left[i - 1])
    <3>1. Part(left, i) = left[i - 1]
      BY <2>1, <2>3 DEF Minimum
    <3> QED
      BY <1>3, <1>4, <2>3, <3>1
  <2> QED
    BY <2>2, <2>3
<1>8. ASSUME Open(row), left[i - 1] > 0
      PROVE  /\ Settled(row, i, Part(left, i)) \in Invoice
             /\ Settled(row, i, Part(left, i)).status \in {"PAID", "PARTIALLY_PAID"}
             /\ RowInOrder(Settled(row, i, Part(left, i)), i)
  <2>1. CASE row.paid + Part(left, i) >= Total[i]
    <3>1. Settled(row, i, Part(left, i)) = [status |-> "PAID", paid |-> row.paid + Part(left, i)]
      BY <2>1 DEF Settled, NewStatus
    <3> QED
      BY <1>4, <1>7, <1>8, <2>1, <3>1, StatusWords DEF Invoice, RowInOrder
  <2>2. CASE ~(row.paid + Part(left, i) >= Total[i])
    <3>1. Settled(row, i, Part(left, i)) =
            [status |-> "PARTIALLY_PAID", paid |-> row.paid + Part(left, i)]
      BY <2>2 DEF Settled, NewStatus
    <3>2. Part(left, i) \in Nat /\ Part(left, i) = left[i - 1]
      BY <1>3, <1>4, <1>7, <1>8, <2>2
    <3>3. 0 < row.paid + Part(left, i) /\ row.paid + Part(left, i) < Total[i]
      BY <1>3, <1>4, <1>8, <2>2, <3>2
    <3> QED
      BY <1>4, <1>8, <3>1, <3>2, <3>3, StatusWords DEF Invoice, RowInOrder
  <2> QED
    BY <2>1, <2>2
<1> QED
  BY <1>2, <1>6, <1>7, <1>8

\* What the commit of a capture does to the tables.
LEMMA CaptureEffect ==
  ASSUME IInv, NEW w \in Workers, CommitCapture(w), NEW p \in Payments, p = req[w].pay
  PROVE  /\ Made(p) /\ payment[p].event = "none"
         /\ \A i \in Invoices :
              \/ invoice'[i] = invoice[i]
              \/ /\ Open(req[w].rows[i])
                 /\ LC!CanTransition(req[w].rows[i].status, invoice'[i].status)
                 /\ invoice'[i] \in Invoice
                 /\ invoice'[i].status \in {"PAID", "PARTIALLY_PAID"}
                 /\ RowInOrder(invoice'[i], i)
         /\ invoice' \in [Invoices -> Invoice]
         /\ alloc'[p] \in [Invoices -> Nat]
         /\ alloc' = [alloc EXCEPT ![p] = alloc'[p]]
         /\ payment' = [payment EXCEPT ![p] = Captured(payment[p])]
         /\ Captured(payment[p]) \in PaymentRow
         /\ Captured(payment[p]).status = "SUCCESS"
         /\ Captured(payment[p]).event = "claimed"
         /\ Captured(payment[p]).key = payment[p].key
         /\ receipt' = [receipt EXCEPT ![p] = "issued"]
         /\ req' = [req EXCEPT ![w] = [op |-> "pdf", pay |-> p]]
<1> USE DEF IInv
<1> DEFINE rows == req[w].rows
<1>1. /\ req[w].op = "capture"
      /\ rows \in [Invoices -> Invoice]
      /\ Made(p) /\ payment[p].event = "none"
      /\ \A i \in Invoices : RowInOrder(rows[i], i)
  BY RequestFields DEF CommitCapture, SoundRequests
<1>2. payment[p] \in PaymentRow
  BY <1>1, PaymentFields
<1>3. PICK left \in Allotments(rows, payment[p].amount) :
        /\ Allocates(rows, left)
        /\ invoice' = [i \in Invoices |->
                         IF Reached(rows, left, i)
                         THEN Settled(rows[i], i, Part(left, i)) ELSE invoice[i]]
        /\ alloc' = [alloc EXCEPT ![p] = [i \in Invoices |-> alloc[p][i] + Part(left, i)]]
        /\ payment' = [payment EXCEPT ![p] = Captured(payment[p])]
        /\ receipt' = [receipt EXCEPT ![p] = "issued"]
        /\ req' = [req EXCEPT ![w] = [op |-> "pdf", pay |-> p]]
  BY <1>1 DEF CommitCapture, TypeOK
<1>4. /\ payment[p].amount \in Nat
      /\ left \in [0..N -> 0..payment[p].amount]
      /\ \A i \in Invoices : left[i] = left[i - 1] - Applied(rows[i], i, left[i - 1])
  BY <1>2, <1>3 DEF Allotments, PaymentRow
<1>5. ASSUME NEW i \in Invoices
      PROVE  /\ Part(left, i) \in Nat
             /\ Reached(rows, left, i) =>
                  /\ Open(rows[i])
                  /\ Settled(rows[i], i, Part(left, i)) \in Invoice
                  /\ Settled(rows[i], i, Part(left, i)).status \in {"PAID", "PARTIALLY_PAID"}
                  /\ RowInOrder(Settled(rows[i], i, Part(left, i)), i)
  BY <1>1, <1>4, OneInvoice, LedgerAssumption DEF Reached
<1>6. ASSUME NEW i \in Invoices
      PROVE  \/ invoice'[i] = invoice[i]
             \/ /\ Open(rows[i])
                /\ LC!CanTransition(rows[i].status, invoice'[i].status)
                /\ invoice'[i] \in Invoice
                /\ invoice'[i].status \in {"PAID", "PARTIALLY_PAID"}
                /\ RowInOrder(invoice'[i], i)
  BY <1>3, <1>5 DEF Allocates
<1>7. invoice' \in [Invoices -> Invoice]
  BY <1>3, <1>6 DEF TypeOK
<1>8. alloc'[p] \in [Invoices -> Nat] /\ alloc' = [alloc EXCEPT ![p] = alloc'[p]]
  <2> DEFINE row == [i \in Invoices |-> alloc[p][i] + Part(left, i)]
  <2>1. alloc[p] \in [Invoices -> Nat]
    BY DEF TypeOK
  <2>2. row \in [Invoices -> Nat]
    BY <1>5, <2>1
  <2>3. alloc' = [alloc EXCEPT ![p] = row] /\ p \in DOMAIN alloc
    BY <1>3 DEF TypeOK
  <2> HIDE DEF row
  <2> QED
    BY <2>2, <2>3
<1>9. /\ Captured(payment[p]) \in PaymentRow
      /\ Captured(payment[p]).status = "SUCCESS"
      /\ Captured(payment[p]).event = "claimed"
      /\ Captured(payment[p]).key = payment[p].key
  BY <1>2 DEF Captured, PaymentRow
<1> QED
  BY <1>1, <1>3, <1>6, <1>7, <1>8, <1>9

-----------------------------------------------------------------------------
(* How one step can change a row of each table *)

\* How an invoice changes: its creation, and one clause per writing handler.
RowStep(i) ==
  \/ invoice'[i] = invoice[i]
  \/ invoice[i].status = "ABSENT" /\ invoice'[i] = [status |-> "DRAFT", paid |-> 0]
  \/ \E w \in Workers :
       \/ /\ req[w].op = "issue" /\ req[w].inv = i
          /\ invoice'[i].status = "ISSUED" /\ invoice'[i].paid = invoice[i].paid
       \/ /\ req[w].op = "cancel" /\ req[w].inv = i
          /\ invoice'[i].status = "CANCELLED" /\ invoice'[i].paid = invoice[i].paid
       \/ /\ CommitCapture(w)
          /\ Open(req[w].rows[i])
          /\ LC!CanTransition(req[w].rows[i].status, invoice'[i].status)
          /\ invoice'[i].status \in {"PAID", "PARTIALLY_PAID"}
          /\ RowInOrder(invoice'[i], i)

\* Every step changes an invoice in one of these ways, and keeps the table typed.
LEMMA RowSteps ==
  ASSUME IInv, [Next]_vars
  PROVE  /\ invoice' \in [Invoices -> Invoice]
         /\ \A i \in Invoices : RowStep(i)
<1> USE DEF IInv
<1> invoice \in [Invoices -> Invoice]
  BY DEF TypeOK
<1>1. ASSUME NEW j \in Invoices, DraftInvoice(j)
      PROVE  /\ invoice' \in [Invoices -> Invoice]
             /\ \A i \in Invoices : RowStep(i)
  <2>1. [NoInvoice EXCEPT !.status = "DRAFT"] = [status |-> "DRAFT", paid |-> 0]
    BY DEF NoInvoice
  <2>2. [status |-> "DRAFT", paid |-> 0] \in Invoice
    BY StatusWords DEF Invoice
  <2> QED
    BY <1>1, <2>1, <2>2 DEF DraftInvoice, Present, RowStep
<1>2. ASSUME NEW w \in Workers, WriteIssue(w)
      PROVE  /\ invoice' \in [Invoices -> Invoice]
             /\ \A i \in Invoices : RowStep(i)
  <2>1. /\ req[w].op = "issue" /\ req[w].inv \in Invoices
        /\ invoice' = [invoice EXCEPT ![req[w].inv].status = "ISSUED"]
    BY <1>2, RequestFields DEF WriteIssue
  <2>2. \A i \in Invoices : i # req[w].inv => invoice'[i] = invoice[i]
    BY <2>1
  <2> QED
    BY <2>1, <2>2, RowUpdate, StatusWords DEF RowStep
<1>3. ASSUME NEW w \in Workers, WriteCancel(w)
      PROVE  /\ invoice' \in [Invoices -> Invoice]
             /\ \A i \in Invoices : RowStep(i)
  <2>1. /\ req[w].op = "cancel" /\ req[w].inv \in Invoices
        /\ invoice' = [invoice EXCEPT ![req[w].inv].status = "CANCELLED"]
    BY <1>3, RequestFields DEF WriteCancel
  <2>2. \A i \in Invoices : i # req[w].inv => invoice'[i] = invoice[i]
    BY <2>1
  <2> QED
    BY <2>1, <2>2, RowUpdate, StatusWords DEF RowStep
<1>4. ASSUME NEW w \in Workers, CommitCapture(w)
      PROVE  /\ invoice' \in [Invoices -> Invoice]
             /\ \A i \in Invoices : RowStep(i)
  <2>1. req[w].pay \in Payments
    BY <1>4, RequestFields DEF CommitCapture
  <2> QED
    BY <1>4, <2>1, CaptureEffect DEF RowStep
<1>5. CASE UNCHANGED invoice
  BY <1>5 DEF RowStep
<1>6. UNCHANGED vars => UNCHANGED invoice
  BY DEF vars
<1> QED
  BY <1>1, <1>2, <1>3, <1>4, <1>5, <1>6
     DEF Next, Environment, Begin, Finish, Sign, BeginIssue, BeginCancel, BeginInitiate,
         BeginFail, BeginCapture, CreatePayment, WriteFail, FileReceipt, Abort

\* How a payment changes: its creation, a failed attempt, its capture.
PaymentStep(p) ==
  \/ payment'[p] = payment[p] /\ alloc'[p] = alloc[p]
  \/ /\ payment[p].status = "ABSENT" /\ alloc'[p] = alloc[p]
     /\ \E w \in Workers, t \in Tails :
          /\ req[w].op = "initiate"
          /\ ~KeyTaken(req[w].key)
          /\ \A q \in Payments \ {p} : payment'[q] = payment[q]
          /\ payment'[p] = [status |-> "PENDING", key |-> req[w].key,
                            amount |-> req[w].amount, tail |-> t, event |-> "none"]
  \/ /\ alloc'[p] = alloc[p] /\ Made(p)
     /\ \E w \in Workers :
          /\ req[w].op = "fail" /\ req[w].pay = p
          /\ payment'[p] = [payment[p] EXCEPT !.status = "FAILED"]
  \/ /\ Made(p)
     /\ payment[p].event = "none"
     /\ payment'[p].event = "claimed"
     /\ payment'[p].status = "SUCCESS"
     /\ payment'[p].key = payment[p].key
     /\ receipt'[p] = "issued"
     /\ \E w \in Workers : CommitCapture(w) /\ req[w].pay = p

\* Every step changes a payment in one of these ways, and keeps the tables typed.
LEMMA PaymentSteps ==
  ASSUME IInv, [Next]_vars
  PROVE  /\ payment' \in [Payments -> PaymentRow \cup {NoPayment}]
         /\ alloc' \in [Payments -> [Invoices -> Nat]]
         /\ \A p \in Payments : PaymentStep(p)
<1> USE DEF IInv
<1> DEFINE Goal == /\ payment' \in [Payments -> PaymentRow \cup {NoPayment}]
                   /\ alloc' \in [Payments -> [Invoices -> Nat]]
                   /\ \A p \in Payments : PaymentStep(p)
<1> /\ payment \in [Payments -> PaymentRow \cup {NoPayment}]
    /\ alloc \in [Payments -> [Invoices -> Nat]]
    /\ receipt \in [Payments -> {"none", "issued", "filed"}]
  BY DEF TypeOK
<1>1. ASSUME NEW w \in Workers, NEW q \in Payments, CreatePayment(w, q)
      PROVE  Goal
  <2>1. PICK t \in Tails :
        /\ req[w].op = "initiate" /\ req[w].key \in Key /\ req[w].amount \in Nat
        /\ payment' = [payment EXCEPT ![q] =
                   [status |-> "PENDING", key |-> req[w].key,
                    amount |-> req[w].amount, tail |-> t, event |-> "none"]]
        /\ alloc' = alloc /\ payment[q].status = "ABSENT" /\ ~KeyTaken(req[w].key)
    BY <1>1, RequestFields DEF CreatePayment, Made
  <2>2. [status |-> "PENDING", key |-> req[w].key,
         amount |-> req[w].amount, tail |-> t, event |-> "none"] \in PaymentRow
    BY <2>1 DEF PaymentRow
  <2>3. payment' \in [Payments -> PaymentRow \cup {NoPayment}]
    BY <2>1, <2>2
  <2>4. \A p \in Payments \ {q} : payment'[p] = payment[p]
    BY <2>1
  <2>5. PaymentStep(q)
    BY <2>1, <2>4 DEF PaymentStep
  <2> QED
    BY <2>1, <2>3, <2>4, <2>5 DEF PaymentStep
<1>2. ASSUME NEW w \in Workers, WriteFail(w)
      PROVE  Goal
  <2>1. /\ req[w].op = "fail" /\ req[w].pay \in Payments /\ Made(req[w].pay)
        /\ payment' = [payment EXCEPT ![req[w].pay].status = "FAILED"]
        /\ alloc' = alloc
    BY <1>2, RequestFields DEF WriteFail, SoundRequests
  <2>2. [payment[req[w].pay] EXCEPT !.status = "FAILED"] \in PaymentRow
    BY <2>1, PaymentFields DEF PaymentRow
  <2>3. payment' \in [Payments -> PaymentRow \cup {NoPayment}]
    BY <2>1, <2>2
  <2>4. \A p \in Payments \ {req[w].pay} : payment'[p] = payment[p]
    BY <2>1
  <2>5. payment'[req[w].pay] = [payment[req[w].pay] EXCEPT !.status = "FAILED"]
    BY <2>1
  <2> QED
    BY <2>1, <2>3, <2>4, <2>5 DEF PaymentStep
<1>3. ASSUME NEW w \in Workers, CommitCapture(w)
      PROVE  Goal
  <2> DEFINE q == req[w].pay
  <2>1. q \in Payments
    BY <1>3, RequestFields DEF CommitCapture
  <2>2. /\ payment' = [payment EXCEPT ![q] = Captured(payment[q])]
        /\ Captured(payment[q]) \in PaymentRow
        /\ alloc' = [alloc EXCEPT ![q] = alloc'[q]]
        /\ alloc'[q] \in [Invoices -> Nat]
        /\ Made(q) /\ payment[q].event = "none"
        /\ Captured(payment[q]).status = "SUCCESS"
        /\ Captured(payment[q]).event = "claimed"
        /\ Captured(payment[q]).key = payment[q].key
        /\ receipt' = [receipt EXCEPT ![q] = "issued"]
    BY <1>3, <2>1, CaptureEffect
  <2>3. payment' \in [Payments -> PaymentRow \cup {NoPayment}]
    BY <2>1, <2>2
  <2>4. alloc' \in [Payments -> [Invoices -> Nat]]
    BY <2>1, <2>2
  <2>5. \A p \in Payments \ {q} : payment'[p] = payment[p] /\ alloc'[p] = alloc[p]
    BY <2>1, <2>2
  <2>6. PaymentStep(q)
    <3>1. \E x \in Workers : CommitCapture(x) /\ req[x].pay = q
      BY <1>3
    <3>2. payment'[q] = Captured(payment[q])
      BY <2>1, <2>2
    <3>3. receipt'[q] = "issued"
      BY <2>1, <2>2
    <3> HIDE DEF q
    <3> QED
      BY <2>2, <3>1, <3>2, <3>3, Zenon DEF PaymentStep
  <2>7. \A p \in Payments \ {q} : PaymentStep(p)
    BY <2>5 DEF PaymentStep
  <2> HIDE DEF q
  <2> QED
    BY <2>3, <2>4, <2>6, <2>7
<1>4. CASE UNCHANGED <<payment, alloc>>
  BY <1>4 DEF PaymentStep
<1>5. UNCHANGED vars => UNCHANGED <<payment, alloc>>
  BY DEF vars
<1> HIDE DEF Goal
<1> QED
  BY <1>1, <1>2, <1>3, <1>4, <1>5
     DEF Next, Environment, Begin, Finish, Sign, BeginIssue, BeginCancel, BeginInitiate,
         BeginFail, BeginCapture, DraftInvoice, WriteIssue, WriteCancel, FileReceipt, Abort,
         Goal

\* What the next state holds.
PresentN(i) == invoice'[i].status # "ABSENT"
MadeN(p) == payment'[p].status # "ABSENT"

\* Rows are never deleted, receipts never withdrawn, keys never changed.
LEMMA Monotone ==
  ASSUME IInv, [Next]_vars
  PROVE  /\ \A i \in Invoices : Present(i) => PresentN(i)
         /\ \A p \in Payments : Made(p) => MadeN(p) /\ payment'[p].key = payment[p].key
         /\ \A p \in Payments : receipt[p] # "none" => receipt'[p] # "none"
<1> USE DEF IInv
<1>1. ASSUME NEW i \in Invoices, Present(i)
      PROVE  PresentN(i)
  <2>1. RowStep(i)
    BY RowSteps
  <2> QED
    BY <1>1, <2>1 DEF RowStep, Present, PresentN
<1>2. ASSUME NEW p \in Payments, Made(p)
      PROVE  MadeN(p) /\ payment'[p].key = payment[p].key
  <2>1. PaymentStep(p)
    BY PaymentSteps
  <2>2. payment[p] \in PaymentRow
    BY <1>2, PaymentFields
  <2> QED
    BY <1>2, <2>1, <2>2 DEF PaymentStep, Made, MadeN, PaymentRow
<1>3. ASSUME NEW p \in Payments, receipt[p] # "none"
      PROVE  receipt'[p] # "none"
  <2> receipt \in [Payments -> {"none", "issued", "filed"}]
    BY DEF TypeOK
  <2>1. ASSUME NEW w \in Workers, CommitCapture(w)
        PROVE  receipt'[p] # "none"
    <3>1. receipt' = [receipt EXCEPT ![req[w].pay] = "issued"]
      BY <2>1 DEF CommitCapture
    <3> QED
      BY <1>3, <3>1
  <2>2. ASSUME NEW w \in Workers, FileReceipt(w)
        PROVE  receipt'[p] # "none"
    BY <1>3, <2>2 DEF FileReceipt
  <2>3. CASE UNCHANGED receipt
    BY <1>3, <2>3
  <2>4. UNCHANGED vars => UNCHANGED receipt
    BY DEF vars
  <2> QED
    BY <2>1, <2>2, <2>3, <2>4
       DEF Next, Environment, Begin, Finish, Sign, BeginIssue, BeginCancel, BeginInitiate,
           BeginFail, BeginCapture, DraftInvoice, WriteIssue, WriteCancel, CreatePayment,
           WriteFail, Abort
<1> QED
  BY <1>1, <1>2, <1>3

\* What a step can leave a worker doing, if not what it was doing.
RequestStep(w) ==
  \/ req'[w] = req[w]
  \/ req'[w] = Idle
  \/ \E i \in Invoices :
       /\ Present(i)
       /\ \/ /\ LC!CanTransition(invoice[i].status, "ISSUED")
             /\ req'[w] = [op |-> "issue", inv |-> i, row |-> invoice[i]]
          \/ /\ Cancellable(invoice[i])
             /\ req'[w] = [op |-> "cancel", inv |-> i, row |-> invoice[i]]
       /\ UNCHANGED <<invoice, payment, alloc, receipt>>
  \/ \E k \in Key, amount \in 1..MaxPaise :
       /\ \A i \in k.invoices : Present(i)
       /\ req'[w] = [op |-> "initiate", key |-> k, amount |-> amount]
  \/ \E p \in Payments :
       /\ Made(p) /\ payment[p].event = "none"
       /\ UNCHANGED <<invoice, payment, alloc, receipt>>
       /\ \/ req'[w] = [op |-> "fail", pay |-> p]
          \/ ~Locked(p) /\ req'[w] = [op |-> "capture", pay |-> p, rows |-> invoice]
  \/ \E p \in Payments :
       /\ req[w].op = "capture" /\ req[w].pay = p
       /\ CommitCapture(w)
       /\ req'[w] = [op |-> "pdf", pay |-> p] /\ receipt'[p] = "issued"

\* Every step changes at most one request, in one of these ways.
LEMMA RequestSteps ==
  ASSUME IInv, [Next]_vars
  PROVE  /\ req' \in [Workers -> Request \cup {Idle}]
         /\ \A w \in Workers : RequestStep(w)
         /\ \A w1, w2 \in Workers : req'[w1] # req[w1] /\ req'[w2] # req[w2] => w1 = w2
<1> USE DEF IInv
<1> DEFINE Goal == /\ req' \in [Workers -> Request \cup {Idle}]
                   /\ \A w \in Workers : RequestStep(w)
                   /\ \A w1, w2 \in Workers : req'[w1] # req[w1] /\ req'[w2] # req[w2] => w1 = w2
<1> /\ req \in [Workers -> Request \cup {Idle}]
    /\ invoice \in [Invoices -> Invoice]
  BY DEF TypeOK
<1>0. ASSUME NEW w \in Workers, NEW r \in Request \cup {Idle},
             req' = [req EXCEPT ![w] = r], RequestStep(w)
      PROVE  Goal
  BY <1>0 DEF RequestStep
<1> HIDE DEF Goal
<1>1. ASSUME NEW w \in Workers, NEW i \in Invoices, BeginIssue(w, i)
      PROVE  Goal
  <2>1. [op |-> "issue", inv |-> i, row |-> invoice[i]] \in Request
    BY DEF Request
  <2>2. Present(i)
    BY <1>1, StatusWords DEF BeginIssue, LC!CanTransition, Present
  <2>3. RequestStep(w)
    BY <1>1, <2>2 DEF BeginIssue, RequestStep
  <2> QED
    BY <1>0, <1>1, <2>1, <2>3 DEF BeginIssue
<1>2. ASSUME NEW w \in Workers, NEW i \in Invoices, BeginCancel(w, i)
      PROVE  Goal
  <2>1. [op |-> "cancel", inv |-> i, row |-> invoice[i]] \in Request
    BY DEF Request
  <2>2. Present(i)
    BY <1>2, StatusWords DEF BeginCancel, Cancellable, LC!CanTransition, Present
  <2>3. RequestStep(w)
    BY <1>2, <2>2 DEF BeginCancel, RequestStep
  <2> QED
    BY <1>0, <1>2, <2>1, <2>3 DEF BeginCancel
<1>3. ASSUME NEW w \in Workers, NEW k \in Key, BeginInitiate(w, k)
      PROVE  Goal
  <2> DEFINE amount == Outstanding(k.invoices)
  <2>1. amount \in 1..MaxPaise /\ amount \in Nat
    BY <1>3, LedgerAssumption DEF BeginInitiate, LedgerAssumption
  <2>2. /\ req' = [req EXCEPT ![w] = [op |-> "initiate", key |-> k, amount |-> amount]]
        /\ \A i \in k.invoices : Present(i)
    BY <1>3 DEF BeginInitiate
  <2> HIDE DEF amount
  <2>3. [op |-> "initiate", key |-> k, amount |-> amount] \in Request
    BY <2>1 DEF Request
  <2>4. RequestStep(w)
    BY <2>1, <2>2 DEF RequestStep
  <2> QED
    BY <1>0, <2>2, <2>3, <2>4
<1>4. ASSUME NEW w \in Workers, NEW p \in Payments, BeginFail(w, p)
      PROVE  Goal
  <2>1. [op |-> "fail", pay |-> p] \in Request
    BY DEF Request
  <2>2. Made(p) /\ payment[p].event = "none"
    BY <1>4 DEF BeginFail, Unprocessed, SignedAreMade, EventType
  <2>3. RequestStep(w)
    BY <1>4, <2>2 DEF BeginFail, RequestStep
  <2> QED
    BY <1>0, <1>4, <2>1, <2>3 DEF BeginFail
<1>5. ASSUME NEW w \in Workers, NEW p \in Payments, BeginCapture(w, p)
      PROVE  Goal
  <2>1. [op |-> "capture", pay |-> p, rows |-> invoice] \in Request
    BY DEF Request
  <2>2. Made(p) /\ payment[p].event = "none" /\ ~Locked(p)
    BY <1>5 DEF BeginCapture, Unclaimed, Unprocessed, SignedAreMade, EventType
  <2>3. RequestStep(w)
    BY <1>5, <2>2 DEF BeginCapture, RequestStep
  <2> QED
    BY <1>0, <1>5, <2>1, <2>3 DEF BeginCapture
<1>6. ASSUME NEW w \in Workers, CommitCapture(w)
      PROVE  Goal
  <2>1. req[w].pay \in Payments /\ req[w].op = "capture"
    BY <1>6, RequestFields DEF CommitCapture
  <2>2. [op |-> "pdf", pay |-> req[w].pay] \in Request
    BY <2>1 DEF Request
  <2>3. /\ req' = [req EXCEPT ![w] = [op |-> "pdf", pay |-> req[w].pay]]
        /\ receipt' = [receipt EXCEPT ![req[w].pay] = "issued"]
    BY <1>6, <2>1, CaptureEffect
  <2>4. receipt'[req[w].pay] = "issued"
    BY <2>1, <2>3 DEF TypeOK
  <2>5. RequestStep(w)
    BY <1>6, <2>1, <2>3, <2>4 DEF RequestStep
  <2> QED
    BY <1>0, <2>2, <2>3, <2>5
<1>7. ASSUME NEW w \in Workers, req' = [req EXCEPT ![w] = Idle]
      PROVE  Goal
  <2>1. RequestStep(w)
    BY <1>7 DEF RequestStep
  <2> QED
    BY <1>0, <1>7, <2>1
<1>8. CASE UNCHANGED req
  BY <1>8 DEF Goal, RequestStep
<1>9. UNCHANGED vars => UNCHANGED req
  BY DEF vars
<1> QED
  BY <1>1, <1>2, <1>3, <1>4, <1>5, <1>6, <1>7, <1>8, <1>9
     DEF Next, Environment, Begin, Finish, Sign, DraftInvoice, WriteIssue, WriteCancel,
         CreatePayment, WriteFail, FileReceipt, Abort, Goal

-----------------------------------------------------------------------------
(* The inductive invariant *)

\* A payment is made by a request that found its key free.
LEMMA PaymentBorn ==
  ASSUME IInv, [Next]_vars, NEW p \in Payments, ~Made(p), MadeN(p)
  PROVE  \E w \in Workers :
            /\ req[w].op = "initiate"
            /\ ~KeyTaken(req[w].key)
            /\ \A q \in Payments \ {p} : payment'[q] = payment[q]
            /\ payment'[p].key = req[w].key
<1>1. PaymentStep(p)
  BY PaymentSteps
<1>2. payment'[p] # payment[p]
  BY DEF Made, MadeN
<1>3. PICK w \in Workers, t \in Tails :
          /\ req[w].op = "initiate"
          /\ ~KeyTaken(req[w].key)
          /\ \A q \in Payments \ {p} : payment'[q] = payment[q]
          /\ payment'[p] = [status |-> "PENDING", key |-> req[w].key,
                            amount |-> req[w].amount, tail |-> t, event |-> "none"]
  BY <1>1, <1>2, Zenon DEF PaymentStep
<1>4. payment'[p].key = req[w].key
  BY <1>3
<1> QED
  BY <1>3, <1>4

\* Every step keeps the types.
LEMMA TypeStep ==
  ASSUME IInv, [Next]_vars
  PROVE  TypeOK'
<1> USE DEF IInv
<1>1. receipt' \in [Payments -> {"none", "issued", "filed"}]
  BY DEF TypeOK, Next, vars, Environment, Begin, Finish, Sign, BeginIssue, BeginCancel,
         BeginInitiate, BeginFail, BeginCapture, DraftInvoice, WriteIssue, WriteCancel,
         CreatePayment, WriteFail, CommitCapture, FileReceipt, Abort
<1>2. gateway' \in SUBSET (Payments \X EventType)
  <2>1. ASSUME NEW p \in Payments, NEW type \in EventType, Sign(p, type)
        PROVE  gateway' \in SUBSET (Payments \X EventType)
    BY <2>1 DEF Sign, TypeOK
  <2>2. CASE UNCHANGED gateway
    BY <2>2 DEF TypeOK
  <2> QED
    BY <2>1, <2>2 DEF Next, vars, Environment, Begin, Finish, BeginIssue, BeginCancel,
         BeginInitiate, BeginFail, BeginCapture, DraftInvoice, WriteIssue, WriteCancel,
         CreatePayment, WriteFail, CommitCapture, FileReceipt, Abort
<1>3. References'
  <2> SUFFICES ASSUME NEW p \in Payments, MadeN(p), NEW i \in payment'[p].key.invoices
               PROVE  PresentN(i)
    BY DEF References, Made, MadeN, Present, PresentN
  <2>1. PaymentStep(p)
    BY PaymentSteps
  <2>2. CASE Made(p)
    <3>1. i \in payment[p].key.invoices /\ Present(i)
      BY <2>2, Monotone DEF TypeOK, References
    <3>2. i \in Invoices
      BY <2>2, <3>1, PaymentFields DEF PaymentRow, Key
    <3> QED
      BY <3>1, <3>2, Monotone
  <2>3. CASE ~Made(p)
    <3>1. PICK w \in Workers : /\ req[w].op = "initiate"
                               /\ payment'[p].key = req[w].key
      BY <2>3, PaymentBorn DEF Made, MadeN
    <3>2. i \in Invoices /\ Present(i)
      BY <3>1, RequestFields DEF SoundRequests, Key
    <3> QED
      BY <3>2, Monotone
  <2> QED
    BY <2>2, <2>3
<1> QED
  BY <1>1, <1>2, <1>3, RowSteps, PaymentSteps, RequestSteps DEF TypeOK

\* A worker starts capturing only a payment that is unclaimed and unlocked.
LEMMA CaptureBegins ==
  ASSUME IInv, [Next]_vars, NEW w \in Workers, req'[w] # req[w], req'[w].op = "capture"
  PROVE  /\ req'[w].pay \in Payments
         /\ payment'[req'[w].pay].event = "none"
         /\ ~Locked(req'[w].pay)
<1>1. RequestStep(w)
  BY RequestSteps
<1>2. req'[w] # Idle
  BY DEF Idle
<1>3. ASSUME NEW p \in Payments, payment[p].event = "none",
             UNCHANGED <<invoice, payment, alloc, receipt>>, ~Locked(p),
             req'[w] = [op |-> "capture", pay |-> p, rows |-> invoice]
      PROVE  /\ req'[w].pay \in Payments
             /\ payment'[req'[w].pay].event = "none"
             /\ ~Locked(req'[w].pay)
  <2>1. req'[w].pay = p
    BY <1>3
  <2> QED
    BY <1>3, <2>1
<1>4. ASSUME NEW i \in Invoices
      PROVE  /\ req'[w] # [op |-> "issue", inv |-> i, row |-> invoice[i]]
             /\ req'[w] # [op |-> "cancel", inv |-> i, row |-> invoice[i]]
  OBVIOUS
<1>5. ASSUME NEW k \in Key, NEW amount \in 1..MaxPaise
      PROVE  req'[w] # [op |-> "initiate", key |-> k, amount |-> amount]
  OBVIOUS
<1>6. ASSUME NEW p \in Payments
      PROVE  req'[w] # [op |-> "fail", pay |-> p] /\ req'[w] # [op |-> "pdf", pay |-> p]
  OBVIOUS
<1> QED
  BY <1>1, <1>2, <1>3, <1>4, <1>5, <1>6, Zenon DEF RequestStep

\* Every step keeps what requests carry sound.
LEMMA RequestsStep ==
  ASSUME IInv, [Next]_vars
  PROVE  SoundRequests' /\ OneClaim'
<1> USE DEF IInv
<1>1. ASSUME NEW w \in Workers
      PROVE  /\ req'[w].op \in {"issue", "cancel"} => PresentN(req'[w].inv)
             /\ req'[w].op = "issue" => LC!CanTransition(req'[w].row.status, "ISSUED")
             /\ req'[w].op = "cancel" => Cancellable(req'[w].row)
             /\ req'[w].op = "initiate" => \A i \in req'[w].key.invoices : PresentN(i)
             /\ req'[w].op \in {"fail", "pdf", "capture"} => MadeN(req'[w].pay)
             /\ req'[w].op = "pdf" => receipt'[req'[w].pay] # "none"
             /\ req'[w].op = "capture" => \A i \in Invoices : RowInOrder(req'[w].rows[i], i)
  <2>1. CASE req'[w] = req[w]
    <3>1. req[w].op \in {"issue", "cancel"} => PresentN(req[w].inv)
      BY RequestFields, Monotone DEF SoundRequests
    <3>2. req[w].op = "initiate" => \A i \in req[w].key.invoices : PresentN(i)
      BY RequestFields, Monotone DEF SoundRequests, Key
    <3>3. req[w].op \in {"fail", "pdf", "capture"} => MadeN(req[w].pay)
      BY RequestFields, Monotone DEF SoundRequests
    <3>4. req[w].op = "pdf" => receipt'[req[w].pay] # "none"
      BY RequestFields, Monotone DEF SoundRequests
    <3> QED
      BY <2>1, <3>1, <3>2, <3>3, <3>4 DEF SoundRequests
  <2>2. CASE req'[w] = Idle
    BY <2>2 DEF Idle
  <2>3. ASSUME NEW i \in Invoices, Present(i),
               \/ /\ LC!CanTransition(invoice[i].status, "ISSUED")
                  /\ req'[w] = [op |-> "issue", inv |-> i, row |-> invoice[i]]
               \/ /\ Cancellable(invoice[i])
                  /\ req'[w] = [op |-> "cancel", inv |-> i, row |-> invoice[i]]
        PROVE  /\ req'[w].op \in {"issue", "cancel"} /\ PresentN(req'[w].inv)
               /\ req'[w].op = "issue" => LC!CanTransition(req'[w].row.status, "ISSUED")
               /\ req'[w].op = "cancel" => Cancellable(req'[w].row)
    BY <2>3, Monotone
  <2>4. ASSUME NEW k \in Key, NEW amount \in 1..MaxPaise,
               \A i \in k.invoices : Present(i),
               req'[w] = [op |-> "initiate", key |-> k, amount |-> amount]
        PROVE  req'[w].op = "initiate" /\ \A i \in req'[w].key.invoices : PresentN(i)
    BY <2>4, Monotone DEF Key
  <2>5. ASSUME NEW p \in Payments, Made(p), req'[w] = [op |-> "fail", pay |-> p]
        PROVE  req'[w].op = "fail" /\ MadeN(req'[w].pay)
    BY <2>5, Monotone
  <2>6. ASSUME NEW p \in Payments, Made(p),
               req'[w] = [op |-> "capture", pay |-> p, rows |-> invoice]
        PROVE  /\ req'[w].op = "capture" /\ MadeN(req'[w].pay)
               /\ \A i \in Invoices : RowInOrder(req'[w].rows[i], i)
    BY <2>6, Monotone DEF StatusFollowsMoney
  <2>7. ASSUME NEW p \in Payments, req[w].op = "capture", req[w].pay = p,
               req'[w] = [op |-> "pdf", pay |-> p], receipt'[p] = "issued"
        PROVE  /\ req'[w].op = "pdf" /\ MadeN(req'[w].pay)
               /\ receipt'[req'[w].pay] # "none"
    BY <2>7, Monotone DEF SoundRequests
  <2>8. RequestStep(w)
    BY RequestSteps
  <2> QED
    BY <2>1, <2>2, <2>3, <2>4, <2>5, <2>6, <2>7, <2>8 DEF RequestStep
\* A payment being captured is neither claimed nor started on by anyone else.
<1>2. ASSUME NEW w \in Workers, req'[w].op = "capture"
      PROVE  payment'[req'[w].pay].event = "none"
  <2>2. CASE req'[w] = req[w]
    <3> DEFINE p == req[w].pay
    <3>1. p \in Payments /\ payment[p].event = "none" /\ Made(p)
      BY <1>2, <2>2, RequestFields DEF SoundRequests
    <3>2. PaymentStep(p)
      BY <3>1, PaymentSteps
    <3>3. ~\E u \in Workers : CommitCapture(u) /\ req[u].pay = p
      <4> SUFFICES ASSUME NEW u \in Workers, CommitCapture(u), req[u].pay = p
                   PROVE  FALSE
        OBVIOUS
      <4>1. u = w
        BY <1>2, <2>2 DEF OneClaim, CommitCapture
      <4>2. req' = [req EXCEPT ![u] = [op |-> "pdf", pay |-> p]]
        BY <3>1, CaptureEffect
      <4>3. req'[w].op = "pdf"
        BY <4>1, <4>2 DEF TypeOK
      <4> QED
        BY <1>2, <4>3
    <3>4. payment[p] \in PaymentRow
      BY <3>1, PaymentFields
    <3> QED
      BY <2>2, <3>1, <3>2, <3>3, <3>4 DEF PaymentStep, PaymentRow, Made
  <2>3. CASE req'[w] # req[w]
    BY <1>2, <2>3, CaptureBegins
  <2> QED
    BY <2>2, <2>3
<1>3. OneClaim'
  <2> SUFFICES ASSUME NEW w1 \in Workers, NEW w2 \in Workers, w1 # w2,
                      req'[w1].op = "capture", req'[w2].op = "capture",
                      req'[w1].pay = req'[w2].pay
               PROVE  FALSE
    BY DEF OneClaim
  <2>1. ASSUME NEW u \in Workers, NEW v \in Workers, req'[u] # req[u], req'[v] = req[v],
               req'[u].op = "capture", req'[v].op = "capture", req'[u].pay = req'[v].pay
        PROVE  FALSE
    BY <2>1, CaptureBegins DEF Locked
  <2>2. CASE req'[w1] = req[w1] /\ req'[w2] = req[w2]
    BY <2>2 DEF OneClaim
  <2> QED
    BY <2>1, <2>2, RequestSteps
<1> QED
  BY <1>1, <1>2, <1>3 DEF SoundRequests, Present, PresentN, Made, MadeN

\* No step pays an invoice beyond its total or misnames what it was paid.
LEMMA MoneyStep ==
  ASSUME IInv, [Next]_vars
  PROVE  StatusFollowsMoney'
<1> USE DEF IInv
<1> SUFFICES ASSUME NEW i \in Invoices
             PROVE  RowInOrder(invoice'[i], i)
  BY DEF StatusFollowsMoney
<1>1. RowStep(i) /\ RowInOrder(invoice[i], i) /\ Total[i] \in Nat
  BY RowSteps, LedgerAssumption DEF StatusFollowsMoney, LedgerAssumption, Invoices
<1> QED
  BY <1>1 DEF RowStep, RowInOrder

\* A receipt appears, or changes, only where one of two handlers writes it.
LEMMA ReceiptStep ==
  ASSUME IInv, [Next]_vars, NEW p \in Payments
  PROVE  \/ receipt'[p] = receipt[p]
         \/ \E w \in Workers : CommitCapture(w) /\ req[w].pay = p
         \/ receipt[p] # "none"
<1> USE DEF IInv
<1> receipt \in [Payments -> {"none", "issued", "filed"}]
  BY DEF TypeOK
<1>1. ASSUME NEW w \in Workers, CommitCapture(w), req[w].pay # p
      PROVE  receipt'[p] = receipt[p]
  BY <1>1 DEF CommitCapture
<1>2. ASSUME NEW w \in Workers, FileReceipt(w)
      PROVE  receipt'[p] = receipt[p] \/ receipt[p] # "none"
  BY <1>2 DEF FileReceipt, SoundRequests
<1>3. UNCHANGED vars => UNCHANGED receipt
  BY DEF vars
<1> QED
  BY <1>1, <1>2, <1>3
     DEF Next, Environment, Begin, Finish, Sign, BeginIssue, BeginCancel, BeginInitiate,
         BeginFail, BeginCapture, DraftInvoice, WriteIssue, WriteCancel, CreatePayment,
         WriteFail, Abort

\* Every step keeps credit behind the claim.
LEMMA ClaimStep ==
  ASSUME IInv, [Next]_vars
  PROVE  CreditedByItsClaim'
<1> USE DEF IInv
<1> SUFFICES ASSUME NEW p \in Payments
             PROVE  IF payment'[p].status # "ABSENT" /\ payment'[p].event = "claimed"
                    THEN receipt'[p] # "none"
                    ELSE /\ receipt'[p] = "none"
                         /\ payment'[p].status # "SUCCESS"
                         /\ \A i \in Invoices : alloc'[p][i] = 0
  BY DEF CreditedByItsClaim, Made
<1>1. PaymentStep(p) /\ (Made(p) => payment[p] \in PaymentRow)
  BY PaymentSteps, PaymentFields
<1>2. IF Made(p) /\ payment[p].event = "claimed"
      THEN receipt[p] # "none"
      ELSE /\ receipt[p] = "none"
           /\ payment[p].status # "SUCCESS"
           /\ \A i \in Invoices : alloc[p][i] = 0
  BY DEF CreditedByItsClaim
<1>3. CASE \E w \in Workers : CommitCapture(w) /\ req[w].pay = p
  BY <1>3, CaptureEffect DEF TypeOK
<1>4. CASE ~\E w \in Workers : CommitCapture(w) /\ req[w].pay = p
  <2>1. receipt'[p] = receipt[p] \/ (receipt[p] # "none" /\ receipt'[p] # "none")
    BY <1>4, ReceiptStep, Monotone
  <2>2. CASE payment'[p] = payment[p] /\ alloc'[p] = alloc[p]
    BY <1>2, <2>1, <2>2 DEF Made
  <2>3. CASE /\ payment[p].status = "ABSENT" /\ alloc'[p] = alloc[p]
             /\ payment'[p].status = "PENDING" /\ payment'[p].event = "none"
    BY <1>2, <2>1, <2>3 DEF Made
  <2>4. CASE /\ Made(p) /\ alloc'[p] = alloc[p]
             /\ payment'[p] = [payment[p] EXCEPT !.status = "FAILED"]
    <3>1. payment'[p].status = "FAILED" /\ payment'[p].event = payment[p].event
      BY <1>1, <2>4 DEF PaymentRow
    <3> QED
      BY <1>2, <2>1, <2>4, <3>1
  <2>5. ASSUME NEW w \in Workers, NEW t \in Tails,
               payment'[p] = [status |-> "PENDING", key |-> req[w].key,
                              amount |-> req[w].amount, tail |-> t, event |-> "none"]
        PROVE  payment'[p].status = "PENDING" /\ payment'[p].event = "none"
    BY <2>5
  <2> QED
    BY <1>1, <1>4, <2>2, <2>3, <2>4, <2>5, Zenon DEF PaymentStep
<1> QED
  BY <1>3, <1>4

\* The unique index keeps keys apart.
LEMMA KeyStep ==
  ASSUME IInv, [Next]_vars
  PROVE  OnePaymentPerKey'
<1> USE DEF IInv
<1> SUFFICES ASSUME NEW p \in Payments, NEW q \in Payments, p # q, MadeN(p), MadeN(q),
                    payment'[p].key = payment'[q].key
             PROVE  FALSE
  BY DEF OnePaymentPerKey, Made, MadeN
<1>1. ASSUME NEW p1 \in Payments, NEW p2 \in Payments, p1 # p2, ~Made(p1), MadeN(p1), MadeN(p2),
             payment'[p1].key = payment'[p2].key
      PROVE  FALSE
  <2>2. PICK w \in Workers :
           /\ ~KeyTaken(req[w].key)
           /\ \A p3 \in Payments \ {p1} : payment'[p3] = payment[p3]
           /\ payment'[p1].key = req[w].key
    BY <1>1, PaymentBorn
  <2> QED
    BY <1>1, <2>2 DEF KeyTaken, Made, MadeN
<1>2. CASE Made(p) /\ Made(q)
  BY <1>2, Monotone DEF OnePaymentPerKey
<1> QED
  BY <1>1, <1>2

\* The gateway signs events of payments that exist.
LEMMA SignedStep ==
  ASSUME IInv, [Next]_vars
  PROVE  SignedAreMade'
<1> USE DEF IInv
<1>1. \A p \in Payments, type \in EventType : <<p, type>> \in gateway' => Made(p)
  <2>1. ASSUME NEW q \in Payments, NEW t \in EventType, Sign(q, t),
               NEW p \in Payments, NEW type \in EventType, <<p, type>> \in gateway'
        PROVE  Made(p)
    BY <2>1 DEF Sign, SignedAreMade
  <2>2. CASE UNCHANGED gateway
    BY <2>2 DEF SignedAreMade
  <2> QED
    BY <2>1, <2>2 DEF Next, vars, Environment, Begin, Finish, BeginIssue, BeginCancel,
         BeginInitiate, BeginFail, BeginCapture, DraftInvoice, WriteIssue, WriteCancel,
         CreatePayment, WriteFail, CommitCapture, FileReceipt, Abort
<1> QED
  BY <1>1, Monotone DEF SignedAreMade, Made, MadeN

\* The tables start empty.
LEMMA InitIInv == Init => IInv
<1> SUFFICES ASSUME Init
             PROVE  IInv
  OBVIOUS
<1> USE DEF Init
<1>1. TypeOK
  BY DEF TypeOK, References, Made, Invoice, NoInvoice, Idle, NoPayment
<1>2. SoundRequests /\ OneClaim /\ SignedAreMade
  BY DEF SoundRequests, OneClaim, SignedAreMade, Idle
<1>3. StatusFollowsMoney
  BY LedgerAssumption DEF StatusFollowsMoney, RowInOrder, NoInvoice, LedgerAssumption, Invoices
<1>4. CreditedByItsClaim /\ OnePaymentPerKey
  BY DEF CreditedByItsClaim, OnePaymentPerKey, Made, NoPayment
<1> QED
  BY <1>1, <1>2, <1>3, <1>4 DEF IInv

\* IInv is inductive, one lemma per conjunct.
LEMMA NextIInv == IInv /\ [Next]_vars => IInv'
BY TypeStep, RequestsStep, SignedStep, MoneyStep, ClaimStep, KeyStep DEF IInv

\* It holds throughout.
LEMMA Inductive == Spec => []IInv
BY InitIInv, NextIInv, PTL DEF Spec

\* The money a capture moves: its parts are what "remaining" drops by.
LEMMA CaptureMoney ==
  ASSUME IInv, NEW w \in Workers, CommitCapture(w), NEW p \in Payments, p = req[w].pay
  PROVE  \E left \in [0..N -> 0..payment[p].amount] :
           /\ left[0] = payment[p].amount
           /\ \A i \in Invoices :
                /\ Part(left, i) \in Nat
                /\ alloc'[p][i] = alloc[p][i] + Part(left, i)
                /\ IF Reached(req[w].rows, left, i)
                   THEN invoice'[i].paid = req[w].rows[i].paid + Part(left, i)
                   ELSE invoice'[i] = invoice[i] /\ Part(left, i) = 0
<1> USE DEF IInv
<1> DEFINE rows == req[w].rows
<1>1. /\ req[w].op = "capture" /\ rows \in [Invoices -> Invoice]
      /\ Made(p) /\ \A i \in Invoices : RowInOrder(rows[i], i)
  BY RequestFields DEF CommitCapture, SoundRequests
<1>2. payment[p].amount \in Nat
  BY <1>1, PaymentFields DEF PaymentRow
<1>3. PICK left \in Allotments(rows, payment[p].amount) :
        /\ invoice' = [i \in Invoices |->
                         IF Reached(rows, left, i)
                         THEN Settled(rows[i], i, Part(left, i)) ELSE invoice[i]]
        /\ alloc' = [alloc EXCEPT ![p] = [i \in Invoices |-> alloc[p][i] + Part(left, i)]]
  BY <1>1 DEF CommitCapture, TypeOK
<1>4. /\ left \in [0..N -> 0..payment[p].amount] /\ left[0] = payment[p].amount
      /\ \A i \in Invoices : left[i] = left[i - 1] - Applied(rows[i], i, left[i - 1])
  BY <1>3 DEF Allotments
<1>5. ASSUME NEW i \in Invoices
      PROVE  Part(left, i) \in Nat /\ (~Reached(rows, left, i) => Part(left, i) = 0)
  <2>1. i \in 0..N /\ i - 1 \in 0..N /\ Part(left, i) \in Nat
        /\ (~Open(rows[i]) => Part(left, i) = 0)
        /\ (Open(rows[i]) /\ left[i - 1] = 0 => Part(left, i) = 0)
    BY <1>1, <1>2, <1>4, OneInvoice, LedgerAssumption
  <2>2. left[i - 1] \in Nat
    BY <1>4, <2>1
  <2> QED
    BY <2>1, <2>2 DEF Reached
<1>6. alloc'[p] = [i \in Invoices |-> alloc[p][i] + Part(left, i)]
  BY <1>3 DEF TypeOK
<1>7. \A i \in Invoices : Reached(rows, left, i) =>
         invoice'[i].paid = rows[i].paid + Part(left, i)
  BY <1>3 DEF Settled
<1> QED
  BY <1>3, <1>4, <1>5, <1>6, <1>7

\* A capture shares out no more than the payment's amount.
LEMMA CaptureFits ==
  ASSUME IInv, NEW w \in Workers, CommitCapture(w), NEW p \in Payments, p = req[w].pay
  PROVE  SumFunction(alloc'[p]) <= payment'[p].amount
<1> USE DEF IInv
<1>1. PICK left \in [0..N -> 0..payment[p].amount] :
        /\ left[0] = payment[p].amount
        /\ \A i \in Invoices : Part(left, i) \in Nat /\ alloc'[p][i] = alloc[p][i] + Part(left, i)
  BY CaptureMoney
<1>2. /\ payment[p].event = "none" /\ payment[p] \in PaymentRow
      /\ alloc'[p] \in [Invoices -> Nat]
      /\ payment' = [payment EXCEPT ![p] = Captured(payment[p])]
  BY CaptureEffect, PaymentFields
<1>3. \A i \in Invoices : alloc[p][i] = 0
  BY <1>2 DEF CreditedByItsClaim
<1>4. payment'[p].amount = payment[p].amount /\ payment[p].amount \in Nat
  BY <1>2 DEF TypeOK, Captured, PaymentRow
<1>5. N \in Nat /\ \A i \in 0..N : left[i] \in Int
  BY LedgerAssumption, <1>4 DEF LedgerAssumption
<1>6. \A i \in 1..N : alloc'[p][i] = left[i - 1] - left[i]
  <2> TAKE i \in 1..N
  <2>1. Part(left, i) \in Nat /\ alloc'[p][i] = 0 + Part(left, i)
    BY <1>1, <1>3 DEF Invoices
  <2> QED
    BY <2>1 DEF Part
<1>7. SumFunctionOnSet(alloc'[p], 1..N) = left[0] - left[N]
  BY <1>5, <1>6, SumTelescopes
<1>8. SumFunction(alloc'[p]) = left[0] - left[N]
  BY <1>2, <1>7 DEF SumFunction, Invoices
<1>9. left[N] \in 0..payment[p].amount
  BY <1>5
<1> QED
  BY <1>1, <1>4, <1>8, <1>9

\* Every step keeps what a payment has credited within its amount.
LEMMA FitStep ==
  ASSUME IInv, AllocationsFit, [Next]_vars
  PROVE  AllocationsFit'
<1> USE DEF IInv
<1> SUFFICES ASSUME NEW p \in Payments, MadeN(p)
             PROVE  SumFunction(alloc'[p]) <= payment'[p].amount
  BY DEF AllocationsFit, Made, MadeN
<1>1. PaymentStep(p) /\ payment' \in [Payments -> PaymentRow \cup {NoPayment}]
  BY PaymentSteps
<1>2. CASE \E w \in Workers : CommitCapture(w) /\ req[w].pay = p
  BY <1>2, CaptureFits
<1>3. CASE ~\E w \in Workers : CommitCapture(w) /\ req[w].pay = p
  <2>1. alloc'[p] = alloc[p]
    BY <1>1, <1>3 DEF PaymentStep
  <2>2. CASE Made(p)
    <3>1. payment'[p].amount = payment[p].amount
      BY <1>1, <1>3, <2>2, PaymentFields DEF PaymentStep, PaymentRow, Made
    <3> QED
      BY <2>1, <2>2, <3>1 DEF AllocationsFit
  <2>3. CASE ~Made(p)
    <3>1. alloc[p] \in [Invoices -> Nat] /\ \A i \in Invoices : alloc[p][i] = 0
      BY <2>3 DEF TypeOK, CreditedByItsClaim
    <3>2. IsFiniteSet(Invoices)
      BY LedgerAssumption, FS_Interval DEF LedgerAssumption, Invoices
    <3>3. SumFunction(alloc[p]) = 0
      BY <3>1, <3>2, SumOfZeros DEF SumFunction
    <3>4. payment'[p].amount \in Nat
      BY <1>1 DEF PaymentRow, MadeN, NoPayment
    <3> QED
      BY <2>1, <3>3, <3>4
  <2> QED
    BY <2>2, <2>3
<1> QED
  BY <1>2, <1>3

-----------------------------------------------------------------------------
(* Theorems *)

\* Every variable keeps its type, and payments refer to invoices that exist.
THEOREM TypeCorrect == Spec => []TypeOK
<1>1. IInv => TypeOK
  BY DEF IInv
<1> QED
  BY <1>1, Inductive, PTL

\* allocatePayment: no interleaving of captures, issues and cancellations pays an
\* invoice beyond its total, or leaves PAID or PARTIALLY_PAID untrue.
THEOREM StatusesFollowMoney == Spec => []StatusFollowsMoney
<1>1. IInv => StatusFollowsMoney
  BY DEF IInv
<1> QED
  BY <1>1, Inductive, PTL

\* handleWebhook: SUCCESS, allocations and the receipt come with the claim.
THEOREM CreditFollowsClaim == Spec => []CreditedByItsClaim
<1>1. IInv => CreditedByItsClaim
  BY DEF IInv
<1> QED
  BY <1>1, Inductive, PTL

\* handleWebhook: redelivered events, concurrent or not, credit a payment once.
THEOREM CreditedOnce == Spec => CreditOnce
<1>1. IInv /\ [Next]_vars => [\A p \in Payments : CreditStep(p)]_vars
  <2> SUFFICES ASSUME IInv, [Next]_vars, NEW p \in Payments
               PROVE  CreditStep(p)
    OBVIOUS
  <2>1. PaymentStep(p)
    BY PaymentSteps
  <2> QED
    BY <2>1 DEF PaymentStep, CreditStep
<1> QED
  BY <1>1, Inductive, PTL DEF Spec, CreditOnce

\* handleWebhook, allocatePayment: the parts of a payment add up to at most its
\* amount, over any number of invoices, and a replay adds nothing.
THEOREM PaymentsCreditTheirAmount == Spec => []AllocationsFit
<1>1. Init => AllocationsFit
  BY DEF Init, AllocationsFit, Made, NoPayment
<1>2. IInv /\ AllocationsFit /\ [Next]_vars => AllocationsFit'
  BY FitStep
<1> QED
  BY <1>1, <1>2, Inductive, PTL DEF Spec

\* initiate: the unique idempotency key admits one payment.
THEOREM KeysAreUnique == Spec => []OnePaymentPerKey
<1>1. IInv => OnePaymentPerKey
  BY DEF IInv
<1> QED
  BY <1>1, Inductive, PTL

-----------------------------------------------------------------------------
(* Handlers that run one at a time implement InvoiceLifecycle *)

SerialInv == IInv /\ Serial /\ FreshReads /\ CancelledIsUnpaid /\ ReceiptedIsSuccess

\* With one request at a time, the rows change only by the request in progress,
\* so what it read stays current until it writes.
LEMMA FreshStep ==
  ASSUME SerialInv, [Next]_vars, Serial'
  PROVE  FreshReads'
<1> USE DEF SerialInv, IInv
<1> SUFFICES ASSUME NEW w \in Workers
             PROVE  /\ req'[w].op \in {"issue", "cancel"} => req'[w].row = invoice'[req'[w].inv]
                    /\ req'[w].op = "fail" => payment'[req'[w].pay].event = "none"
                    /\ req'[w].op = "capture" =>
                         \A i \in Invoices : Open(req'[w].rows[i]) => req'[w].rows[i] = invoice'[i]
  BY DEF FreshReads
<1>1. CASE req'[w] = req[w] /\ req[w].op \in {"issue", "cancel", "fail", "capture"}
  <2>1. req[w] # Idle
    BY <1>1 DEF Idle
  <2>2. \A u \in Workers : req[u] # Idle => u = w
    BY <2>1 DEF Serial
  <2>3. ASSUME NEW u \in Workers, Begin(u) \/ Finish(u)
        PROVE  UNCHANGED <<invoice, payment>>
    <3>1. CASE req[u] = Idle
      <4>1. req[u].op = "idle"
        BY <3>1 DEF Idle
      <4>2. ~Finish(u)
        BY <3>1, <4>1 DEF Finish, WriteIssue, WriteCancel, CreatePayment, WriteFail,
              CommitCapture, FileReceipt, Abort
      <4>3. Begin(u) => UNCHANGED <<invoice, payment>>
        BY DEF Begin, BeginIssue, BeginCancel, BeginInitiate, BeginFail, BeginCapture
      <4> QED
        BY <2>3, <4>2, <4>3
    <3>2. CASE req[u] # Idle
      <4>1. u = w /\ ~Begin(u)
        BY <2>2, <3>2 DEF Begin, BeginIssue, BeginCancel, BeginInitiate, BeginFail, BeginCapture
      <4>2. ASSUME CommitCapture(w)
            PROVE  FALSE
        <5>1. req[w].pay \in Payments
          BY <4>2, RequestFields DEF CommitCapture
        <5>2. req'[w].op = "pdf"
          BY <4>2, <5>1, CaptureEffect DEF TypeOK
        <5> QED
          BY <1>1, <5>2
      <4>3. req' # [req EXCEPT ![w] = Idle]
        BY <1>1, <2>1 DEF TypeOK
      <4>4. Finish(w) /\ ~CommitCapture(w) => req' = [req EXCEPT ![w] = Idle]
        BY DEF Finish, WriteIssue, WriteCancel, CreatePayment, WriteFail, FileReceipt, Abort
      <4> QED
        BY <2>3, <4>1, <4>2, <4>3, <4>4
    <3> QED
      BY <3>1, <3>2
  <2>4. CASE UNCHANGED <<invoice, payment>>
    BY <1>1, <2>4 DEF FreshReads
  <2>5. ASSUME NEW i \in Invoices, DraftInvoice(i)
        PROVE  /\ UNCHANGED payment
               /\ \A j \in Invoices : Present(j) => invoice'[j] = invoice[j]
    BY <2>5 DEF DraftInvoice, TypeOK
  <2>6. ASSUME NEW i \in Invoices, DraftInvoice(i)
        PROVE  /\ req[w].op \in {"issue", "cancel"} => req[w].row = invoice'[req[w].inv]
               /\ req[w].op = "fail" => payment'[req[w].pay].event = "none"
               /\ req[w].op = "capture" =>
                    \A j \in Invoices : Open(req[w].rows[j]) => req[w].rows[j] = invoice'[j]
    BY <2>5, <2>6, RequestFields DEF FreshReads, SoundRequests, Open, Present
  <2> QED
    BY <1>1, <2>3, <2>4, <2>6 DEF Next, vars, Environment, Sign
<1>2. CASE req'[w] # req[w]
  <2>1. RequestStep(w)
    BY RequestSteps
  <2>2. ASSUME NEW i \in Invoices, UNCHANGED <<invoice, payment, alloc, receipt>>,
               \/ req'[w] = [op |-> "issue", inv |-> i, row |-> invoice[i]]
               \/ req'[w] = [op |-> "cancel", inv |-> i, row |-> invoice[i]]
        PROVE  req'[w].op \in {"issue", "cancel"} /\ req'[w].row = invoice'[req'[w].inv]
    BY <2>2
  <2>3. ASSUME NEW p \in Payments, UNCHANGED <<invoice, payment, alloc, receipt>>,
               payment[p].event = "none", req'[w] = [op |-> "fail", pay |-> p]
        PROVE  req'[w].op = "fail" /\ payment'[req'[w].pay].event = "none"
    BY <2>3
  <2>4. ASSUME NEW p \in Payments, UNCHANGED <<invoice, payment, alloc, receipt>>,
               req'[w] = [op |-> "capture", pay |-> p, rows |-> invoice]
        PROVE  req'[w].op = "capture" /\ req'[w].rows = invoice'
    BY <2>4
  <2>5. ASSUME NEW k \in Key, NEW amount \in 1..MaxPaise,
               req'[w] = [op |-> "initiate", key |-> k, amount |-> amount]
        PROVE  req'[w].op = "initiate"
    BY <2>5
  <2>6. ASSUME NEW p \in Payments, req'[w] = [op |-> "pdf", pay |-> p]
        PROVE  req'[w].op = "pdf"
    BY <2>6
  <2>7. Idle.op = "idle"
    BY DEF Idle
  <2> QED
    BY <1>2, <2>1, <2>2, <2>3, <2>4, <2>5, <2>6, <2>7 DEF RequestStep
<1>3. CASE req'[w].op \notin {"issue", "cancel", "fail", "capture"}
  BY <1>3
<1> QED
  BY <1>1, <1>2, <1>3

\* What a serial run keeps besides.
LEMMA SerialStep ==
  ASSUME SerialInv, [Next]_vars
  PROVE  CancelledIsUnpaid' /\ ReceiptedIsSuccess'
<1> USE DEF SerialInv, IInv
<1>1. ASSUME NEW i \in Invoices, invoice'[i].status = "CANCELLED"
      PROVE  invoice'[i].paid = 0
  <2>1. RowStep(i)
    BY RowSteps
  <2>2. ASSUME NEW w \in Workers, req[w].op = "cancel", req[w].inv = i
        PROVE  invoice[i].paid = 0
    BY <2>2 DEF FreshReads, SoundRequests, Cancellable
  <2> QED
    BY <1>1, <2>1, <2>2 DEF RowStep, CancelledIsUnpaid
<1>2. ASSUME NEW p \in Payments, receipt'[p] # "none"
      PROVE  payment'[p].status = "SUCCESS"
  <2>1. PaymentStep(p)
    BY PaymentSteps
  <2>2. CASE \E w \in Workers : CommitCapture(w) /\ req[w].pay = p
    BY <2>2, CaptureEffect DEF TypeOK
  <2>3. CASE ~\E w \in Workers : CommitCapture(w) /\ req[w].pay = p
    <3>1. receipt[p] # "none"
      BY <1>2, <2>3, ReceiptStep
    <3>2. payment[p].status = "SUCCESS" /\ Made(p) /\ payment[p].event = "claimed"
      BY <3>1 DEF ReceiptedIsSuccess, CreditedByItsClaim
    <3>3. ~\E w \in Workers : req[w].op = "fail" /\ req[w].pay = p
      BY <3>2 DEF FreshReads
    <3> QED
      BY <2>1, <2>3, <3>2, <3>3 DEF PaymentStep, Made
  <2> QED
    BY <2>2, <2>3
<1> QED
  BY <1>1, <1>2 DEF CancelledIsUnpaid, ReceiptedIsSuccess

\* A step of a serial run is a step of the abstract invoices.
LEMMA AbstractStep ==
  ASSUME SerialInv, [Next]_vars
  PROVE  [LC!Next]_([i \in Invoices |-> invoice[i].status])
<1> USE DEF SerialInv, IInv
<1> DEFINE status == [i \in Invoices |-> invoice[i].status]
           statusN == [i \in Invoices |-> invoice'[i].status]
<1>1. SUFFICES \/ /\ statusN \in [Invoices -> LC!InvoiceStatus \cup {"ABSENT"}]
                  /\ \A i \in Invoices :
                       statusN[i] # status[i] => LC!CanTransition(status[i], statusN[i])
               \/ \E i \in Invoices : /\ status[i] = "ABSENT"
                                      /\ statusN = [status EXCEPT ![i] = "DRAFT"]
               \/ statusN = status
  BY DEF LC!Next, LC!Draft, LC!Advance
<1>2. statusN \in [Invoices -> LC!InvoiceStatus \cup {"ABSENT"}]
  BY RowSteps DEF Invoice
<1>3. CASE \E i \in Invoices : DraftInvoice(i)
  <2>1. PICK i \in Invoices : DraftInvoice(i)
    BY <1>3
  <2>2. /\ invoice[i].status = "ABSENT"
        /\ invoice'[i].status = "DRAFT"
        /\ \A j \in Invoices \ {i} : invoice'[j] = invoice[j]
    BY <2>1 DEF DraftInvoice, Present, NoInvoice, TypeOK
  <2> QED
    BY <2>2
<1>4. CASE ~\E i \in Invoices : DraftInvoice(i)
  <2>1. ASSUME NEW i \in Invoices
        PROVE  invoice'[i].status # invoice[i].status =>
                  LC!CanTransition(invoice[i].status, invoice'[i].status)
    <3>1. RowStep(i)
      BY RowSteps
    <3>2. CASE invoice[i].status = "ABSENT" /\ invoice'[i] = [status |-> "DRAFT", paid |-> 0]
      <4>1. invoice' # invoice
        BY <3>2
      <4>2. PICK w \in Workers : WriteIssue(w) \/ WriteCancel(w) \/ CommitCapture(w)
        BY <1>4, <4>1 DEF Next, vars, Environment, Begin, Finish, Sign, BeginIssue, BeginCancel,
           BeginInitiate, BeginFail, BeginCapture, CreatePayment, WriteFail, FileReceipt, Abort
      <4>3. ASSUME WriteIssue(w)
            PROVE  invoice'[i].status # "DRAFT"
        BY <3>2, <4>3, RowUpdate, RequestFields, StatusWords DEF WriteIssue, TypeOK
      <4>4. ASSUME WriteCancel(w)
            PROVE  invoice'[i].status # "DRAFT"
        BY <3>2, <4>4, RowUpdate, RequestFields, StatusWords DEF WriteCancel, TypeOK
      <4>5. ASSUME CommitCapture(w)
            PROVE  invoice'[i].status # "DRAFT"
        BY <3>2, <4>5, CaptureEffect, RequestFields DEF CommitCapture
      <4> QED
        BY <3>2, <4>2, <4>3, <4>4, <4>5
    <3>3. ASSUME NEW w \in Workers, req[w].op = "issue", req[w].inv = i,
                 invoice'[i].status = "ISSUED"
          PROVE  LC!CanTransition(invoice[i].status, invoice'[i].status)
      BY <3>3 DEF FreshReads, SoundRequests
    <3>4. ASSUME NEW w \in Workers, req[w].op = "cancel", req[w].inv = i,
                 invoice'[i].status = "CANCELLED"
          PROVE  LC!CanTransition(invoice[i].status, invoice'[i].status)
      BY <3>4 DEF FreshReads, SoundRequests, Cancellable
    <3>5. ASSUME NEW w \in Workers, CommitCapture(w), Open(req[w].rows[i]),
                 LC!CanTransition(req[w].rows[i].status, invoice'[i].status)
          PROVE  LC!CanTransition(invoice[i].status, invoice'[i].status)
      BY <3>5 DEF FreshReads, CommitCapture
    <3> QED
      BY <3>1, <3>2, <3>3, <3>4, <3>5 DEF RowStep
  <2> QED
    BY <1>2, <2>1
<1> QED
  BY <1>3, <1>4

\* The serial invariant holds throughout a serial run.
LEMMA SerialInductive == SerialSpec => []SerialInv
<1>1. Init => SerialInv
  BY InitIInv DEF SerialInv, Init, Serial, FreshReads, Idle, CancelledIsUnpaid,
                  ReceiptedIsSuccess, NoInvoice
<1>2. SerialInv /\ [Next /\ Serial']_vars => SerialInv'
  <2>1. CASE UNCHANGED vars
    BY <2>1, NextIInv, SerialStep DEF SerialInv, vars, Serial, FreshReads
  <2>2. CASE Next /\ Serial'
    BY <2>2, NextIInv, FreshStep, SerialStep DEF SerialInv
  <2> QED
    BY <2>1, <2>2
<1> QED
  BY <1>1, <1>2, PTL DEF SerialSpec

\* A capture adds its part to the invoice's paid and to the allocations alike, since
\* in a serial run the row it read is still the row it writes.
LEMMA PaidStep ==
  ASSUME SerialInv, PaidIsAllocated, [Next]_vars
  PROVE  PaidIsAllocated'
<1> USE DEF SerialInv, IInv
<1> SUFFICES ASSUME NEW i \in Invoices
             PROVE  invoice'[i].paid = SumFunction([p \in Payments |-> alloc'[p][i]])
  BY DEF PaidIsAllocated
<1> DEFINE before == [p \in Payments |-> alloc[p][i]]
           after == [p \in Payments |-> alloc'[p][i]]
<1>1. /\ invoice[i].paid = SumFunctionOnSet(before, Payments)
      /\ SumFunction(after) = SumFunctionOnSet(after, Payments)
      /\ IsFiniteSet(Payments)
  BY LedgerAssumption DEF PaidIsAllocated, SumFunction, LedgerAssumption
<1>2. \A p \in Payments : before[p] \in Nat /\ after[p] \in Nat
  BY PaymentSteps DEF TypeOK
<1>3. RowStep(i) /\ invoice'[i] \in Invoice /\ invoice[i] \in Invoice
  BY RowSteps DEF TypeOK
<1>4. ASSUME NEW w \in Workers, CommitCapture(w)
      PROVE  invoice'[i].paid = SumFunctionOnSet(after, Payments)
  <2> DEFINE p == req[w].pay
  <2>1. p \in Payments /\ req[w].op = "capture"
    BY <1>4, RequestFields DEF CommitCapture
  <2>2. PICK left \in [0..N -> 0..payment[p].amount] :
           /\ Part(left, i) \in Nat
           /\ alloc'[p][i] = alloc[p][i] + Part(left, i)
           /\ IF Reached(req[w].rows, left, i)
              THEN invoice'[i].paid = req[w].rows[i].paid + Part(left, i)
              ELSE invoice'[i] = invoice[i] /\ Part(left, i) = 0
    BY <1>4, <2>1, CaptureMoney
  <2>3. Reached(req[w].rows, left, i) => req[w].rows[i] = invoice[i]
    BY <2>1 DEF FreshReads, Reached
  <2>4. invoice'[i].paid = invoice[i].paid + Part(left, i)
    BY <1>3, <2>2, <2>3 DEF Invoice
  <2>5. \A q \in Payments \ {p} : after[q] = before[q]
    <3>1. alloc' = [alloc EXCEPT ![p] = alloc'[p]]
      BY <1>4, <2>1, CaptureEffect
    <3> QED
      BY <2>1, <3>1 DEF TypeOK
  <2>6. after[p] - before[p] = Part(left, i)
    BY <1>2, <2>1, <2>2
  <2> HIDE DEF before, after, p
  <2>7. SumFunctionOnSet(after, Payments)
          = SumFunctionOnSet(before, Payments) + (after[p] - before[p])
    BY <1>1, <1>2, <2>1, <2>5, SumChanges
  <2> QED
    BY <1>1, <2>4, <2>6, <2>7
<1>5. ASSUME ~\E w \in Workers : CommitCapture(w)
      PROVE  invoice'[i].paid = SumFunctionOnSet(after, Payments)
  <2>1. \A p \in Payments : after[p] = before[p]
    BY <1>5, PaymentSteps DEF PaymentStep
  <2>2. invoice'[i].paid = invoice[i].paid
    <3>1. invoice[i].status = "ABSENT" => invoice[i].paid = 0
      BY DEF StatusFollowsMoney, RowInOrder
    <3> QED
      BY <1>3, <1>5, <3>1 DEF RowStep
  <2> HIDE DEF before, after
  <2>3. SumFunctionOnSet(after, Payments) = SumFunctionOnSet(before, Payments)
    BY <1>1, <2>1, SumSame
  <2> QED
    BY <1>1, <2>2, <2>3
<1>6. invoice'[i].paid = SumFunctionOnSet(after, Payments)
  BY <1>4, <1>5
<1> HIDE DEF before, after
<1>7. invoice'[i].paid = SumFunction(after)
  BY <1>1, <1>6
<1> QED
  BY <1>7 DEF after

\* cancelInvoice, one request at a time: a cancelled invoice was never paid.
THEOREM SerialCancelsUnpaid == SerialSpec => []CancelledIsUnpaid
<1>1. SerialInv => CancelledIsUnpaid
  BY DEF SerialInv
<1> QED
  BY <1>1, SerialInductive, PTL

\* handleWebhook, one request at a time: a receipt is never of a FAILED payment.
THEOREM SerialReceiptsAreSuccess == SerialSpec => []ReceiptedIsSuccess
<1>1. SerialInv => ReceiptedIsSuccess
  BY DEF SerialInv
<1> QED
  BY <1>1, SerialInductive, PTL

\* allocatePayment, one request at a time: amountPaidPaise is the sum of the invoice's
\* PaymentAllocation rows.
THEOREM SerialPaidIsAllocated == SerialSpec => []PaidIsAllocated
<1>1. Init => PaidIsAllocated
  <2> SUFFICES ASSUME Init, NEW i \in Invoices
               PROVE  invoice[i].paid = SumFunction([p \in Payments |-> alloc[p][i]])
    BY DEF PaidIsAllocated
  <2> DEFINE part == [p \in Payments |-> alloc[p][i]]
  <2>1. invoice[i].paid = 0 /\ \A p \in Payments : part[p] = 0
    BY DEF Init, NoInvoice
  <2>2. DOMAIN part = Payments
    OBVIOUS
  <2> HIDE DEF part
  <2>3. SumFunction(part) = 0
    BY <2>1, <2>2, LedgerAssumption, SumOfZeros DEF SumFunction, LedgerAssumption
  <2> QED
    BY <2>1, <2>3 DEF part
<1>2. SerialInv /\ PaidIsAllocated /\ [Next /\ Serial']_vars => PaidIsAllocated'
  BY PaidStep
<1> QED
  BY <1>1, <1>2, SerialInductive, PTL DEF SerialSpec

\* Run one at a time, issue, cancel and capture move the statuses as
\* INVOICE_TRANSITIONS documents.
THEOREM SerialImplementsLifecycle == SerialSpec => LifecycleSpec
<1>1. Init => LC!Init
  BY DEF Init, LC!Init, NoInvoice
<1>2. SerialInv /\ [Next /\ Serial']_vars => [LC!Next]_([i \in Invoices |-> invoice[i].status])
  BY AbstractStep
<1> QED
  BY <1>1, <1>2, SerialInductive, PTL DEF SerialSpec, LifecycleSpec, LC!Spec

-----------------------------------------------------------------------------
(* Bill runs *)

\* Math.round of a product of naturals over a hundred, or ten thousand.
LEMMA RoundedType ==
  ASSUME NEW a \in Nat, NEW b \in Nat
  PROVE  Rounded(a * b, 100) \in Nat /\ Rounded(a * b, 10000) \in Nat
<1>1. \A n \in Nat : Rounded(n, 100) \in Nat /\ Rounded(n, 10000) \in Nat
  BY DEF Rounded
<1>2. PICK n \in Nat : n = a * b
  OBVIOUS
<1>3. Rounded(n, 100) \in Nat /\ Rounded(n, 10000) \in Nat
  BY <1>1
<1> QED
  BY <1>2, <1>3

\* A line of a template comes to a natural number of paise.
LEMMA LineAmounts ==
  ASSUME BillRunAssumption, NEW line \in Line, NEW sqft \in Areas
  PROVE  LineAmount(line, sqft) \in Nat /\ LineTax(line, sqft) \in Nat
<1>1. sqft \in Nat /\ line.price \in Nat /\ TaxRate[line.head] \in Nat
  BY DEF BillRunAssumption, Line
<1>2. Rounded(sqft * line.price, 100) \in Nat
  BY <1>1, RoundedType
<1>3. LineAmount(line, sqft) \in Nat
  BY <1>1, <1>2 DEF LineAmount
<1>4. LineTax(line, sqft) \in Nat
  BY <1>1, <1>3, RoundedType DEF LineTax
<1> QED
  BY <1>3, <1>4

\* So does an invoice.
LEMMA InvoiceTotals ==
  ASSUME BillRunAssumption, NEW lines \in Templates, NEW sqft \in Areas
  PROVE  InvoiceTotal(lines, sqft) \in Nat
<1> DEFINE paise == [i \in DOMAIN lines |-> LineAmount(lines[i], sqft) + LineTax(lines[i], sqft)]
<1>1. lines \in Seq(Line) /\ DOMAIN lines = 1..Len(lines) /\ Len(lines) \in Nat
  BY DEF BillRunAssumption
<1>2. IsFiniteSet(DOMAIN lines)
  BY <1>1, FS_Interval
<1>3. \A i \in DOMAIN lines : paise[i] \in Nat
  <2> TAKE i \in DOMAIN lines
  <2>1. lines[i] \in Line
    BY <1>1
  <2>2. LineAmount(lines[i], sqft) \in Nat /\ LineTax(lines[i], sqft) \in Nat
    BY <2>1, LineAmounts
  <2> QED
    BY <2>2
<1>4. InvoiceTotal(lines, sqft) = SumFunctionOnSet(paise, DOMAIN lines)
  BY DEF InvoiceTotal, SumFunction
<1> HIDE DEF paise
<1> QED
  BY <1>2, <1>3, <1>4, SumType

\* The fields a pass carries.
LEMMA PassFields ==
  ASSUME BillRunTypeOK, NEW p \in Passes
  PROVE  /\ pass[p].op = "idle" <=> pass[p] = NoPass
         /\ pass[p] # NoPass =>
              pass[p].op \in {"next", "missing", "insert"} /\ pass[p].run \in Runs
              /\ pass[p].todo \in SUBSET Units /\ pass[p].made \in Nat
         /\ pass[p].op \in {"missing", "insert"} => pass[p].unit \in Units
         /\ pass[p].op = "insert" => pass[p].area \in Areas
<1>1. pass[p] \in Generation \cup {NoPass}
  BY DEF BillRunTypeOK
<1> QED
  BY <1>1 DEF Generation, NoPass

\* Creating units leaves every run and pass what it was, and puts no unit out of a scope.
LEMMA UnitsStep ==
  ASSUME BillRunAssumption, BillRunInv, NEW U \in SUBSET Units, NEW a \in Areas, CreateUnits(U, a)
  PROVE  BillRunInv'
<1> USE DEF BillRunInv
<1>1. units \subseteq units' /\ UNCHANGED <<heads, run, billed, pass, overlapped>>
  BY DEF CreateUnits
<1>2. BillRunTypeOK'
  BY DEF CreateUnits, BillRunTypeOK
<1>3. RunsInOrder'
  BY <1>1 DEF RunsInOrder, ScopeUnits, Billed
<1> QED
  BY <1>1, <1>2, <1>3 DEF PassesInOrder, PassesAlone, Generating, At, Billed,
     RerunNeverDuplicates, RunBillsItsScope

\* What leaves runs, invoices and passes alone keeps the invariant.
LEMMA OtherSteps ==
  ASSUME BillRunInv, UNCHANGED <<units, run, billed, pass, overlapped>>, BillRunTypeOK'
  PROVE  BillRunInv'
BY DEF BillRunInv, RunsInOrder, PassesInOrder, PassesAlone, Generating, At, Billed, ScopeUnits,
       RerunNeverDuplicates, RunBillsItsScope

\* createBillRun: nobody is generating a run that does not exist.
LEMMA RunStep ==
  ASSUME BillRunAssumption, BillRunInv,
         NEW r \in Runs, NEW s \in Scopes, NEW t \in Templates, CreateBillRun(r, s, t)
  PROVE  BillRunInv'
<1> USE DEF BillRunInv
<1> DEFINE row == [status |-> "DRAFT", scope |-> s, lines |-> t,
                   generatedCount |-> 0, promised |-> ScopeUnits(s)]
<1>1. /\ run[r] = NoRun
      /\ run' = [run EXCEPT ![r] = row]
      /\ UNCHANGED <<units, area, heads, billed, pass, overlapped>>
  BY DEF CreateBillRun
<1>2. row \in Run /\ row # NoRun
  BY DEF Run, NoRun, ScopeUnits, BillRunTypeOK
<1>3. run'[r] = row /\ \A q \in Runs \ {r} : run'[q] = run[q]
  BY <1>1 DEF BillRunTypeOK
<1>4. BillRunTypeOK'
  BY <1>1, <1>2 DEF BillRunTypeOK
<1>5. \A u \in Units : ~Billed(r, u)
  BY <1>1 DEF RunsInOrder
<1>6. \A p \in Passes : pass[p] # NoPass => pass[p].run \in Runs /\ pass[p].run # r
  BY <1>1, PassFields DEF PassesInOrder
<1>7. RunsInOrder'
  BY <1>1, <1>2, <1>3 DEF RunsInOrder, ScopeUnits, Billed
<1>8. PassesInOrder'
  BY <1>1, <1>3, <1>6 DEF PassesInOrder, At, Billed
<1>9. RunBillsItsScope'
  BY <1>1, <1>3, <1>5 DEF RunBillsItsScope, Billed
<1> QED
  BY <1>1, <1>4, <1>7, <1>8, <1>9
     DEF PassesAlone, Generating, At, Billed, RerunNeverDuplicates

\* generateInvoices reads the run and the units of its scope.
LEMMA BeginStep ==
  ASSUME BillRunAssumption, BillRunInv, NEW p \in Passes, NEW r \in Runs, BeginGenerate(p, r)
  PROVE  BillRunInv'
<1> USE DEF BillRunInv
<1> DEFINE new == [op |-> "next", run |-> r, made |-> 0, todo |-> ScopeUnits(run[r].scope)]
<1>1. /\ pass[p] = NoPass /\ run[r].status = "DRAFT"
      /\ pass' = [pass EXCEPT ![p] = new]
      /\ overlapped' = IF Generating(r) = {} THEN overlapped ELSE overlapped \cup {r}
      /\ UNCHANGED <<units, area, heads, run, billed>>
  BY DEF BeginGenerate
<1>2. new \in Generation /\ new # NoPass
  BY DEF Generation, NoPass, ScopeUnits, BillRunTypeOK
<1>3. pass'[p] = new /\ \A q \in Passes \ {p} : pass'[q] = pass[q]
  BY <1>1 DEF BillRunTypeOK
<1>4. BillRunTypeOK'
  BY <1>1, <1>2 DEF BillRunTypeOK
<1>5. run[r] # NoRun
  BY <1>1 DEF NoRun
<1>6. PassesInOrder'
  <2> SUFFICES ASSUME NEW q \in Passes, pass'[q] # NoPass
               PROVE  /\ run[pass'[q].run] # NoRun
                      /\ \A u \in Units : u \in pass'[q].todo \/ At(q, u)'
                           => InScope(run[pass'[q].run].scope, u)
                      /\ \A u \in run[pass'[q].run].promised :
                           Billed(pass'[q].run, u) \/ At(q, u)' \/ u \in pass'[q].todo
    BY <1>1 DEF PassesInOrder, Billed
  <2>1. CASE q = p
    BY <1>3, <1>5, <2>1 DEF RunsInOrder, ScopeUnits, At
  <2>2. CASE q # p
    BY <1>3, <2>2 DEF PassesInOrder, At
  <2> QED
    BY <2>1, <2>2
<1>7. PassesAlone'
  <2> SUFFICES ASSUME NEW q \in Runs \ overlapped'
               PROVE  /\ \A p1, p2 \in Generating(q)' : p1 = p2
                      /\ \A p1 \in Generating(q)', u \in Units : At(p1, u)' => ~Billed(q, u)
    BY <1>1 DEF PassesAlone, Billed
  <2>1. q \notin overlapped /\ (q = r => Generating(r) = {})
    BY <1>1
  <2>2. Generating(q)' = IF q = r THEN {p} ELSE Generating(q)
    BY <1>1, <1>2, <1>3, <2>1 DEF Generating
  <2>3. \A u \in Units : ~At(p, u)'
    BY <1>3 DEF At
  <2>4. \A p1 \in Passes \ {p}, u \in Units : At(p1, u)' <=> At(p1, u)
    BY <1>3 DEF At
  <2> QED
    BY <2>1, <2>2, <2>3, <2>4 DEF PassesAlone, Generating
<1> QED
  BY <1>1, <1>4, <1>6, <1>7 DEF RunsInOrder, Billed, RerunNeverDuplicates, RunBillsItsScope, ScopeUnits

\* The loop passes a billed unit over, or stops at one that has no invoice.
LEMMA FindStep ==
  ASSUME BillRunAssumption, BillRunInv, NEW p \in Passes, FindInvoice(p)
  PROVE  BillRunInv'
<1> USE DEF BillRunInv
<1>1. PICK u \in pass[p].todo :
        pass' = [pass EXCEPT ![p] =
                   IF Billed(@.run, u)
                   THEN [op |-> "next", run |-> @.run, made |-> @.made, todo |-> @.todo \ {u}]
                   ELSE [op |-> "missing", run |-> @.run, made |-> @.made,
                         todo |-> @.todo \ {u}, unit |-> u]]
  BY DEF FindInvoice
<1>2. pass[p].op = "next" /\ UNCHANGED <<units, area, heads, run, billed, overlapped>>
  BY DEF FindInvoice
<1>3. /\ pass[p] # NoPass /\ pass[p].run \in Runs /\ pass[p].made \in Nat
      /\ pass[p].todo \in SUBSET Units /\ u \in Units
      /\ pass[p] = [op |-> "next", run |-> pass[p].run, todo |-> pass[p].todo,
                    made |-> pass[p].made]
  BY <1>2, PassFields DEF BillRunTypeOK, Generation, NoPass
<1> DEFINE r == pass[p].run
           over == [op |-> "next", run |-> r, todo |-> pass[p].todo \ {u}, made |-> pass[p].made]
           stop == [op |-> "missing", run |-> r, made |-> pass[p].made,
                    todo |-> pass[p].todo \ {u}, unit |-> u]
<1>4. pass'[p] = IF Billed(r, u) THEN over ELSE stop
  BY <1>1 DEF BillRunTypeOK
<1>5. \A q \in Passes \ {p} : pass'[q] = pass[q]
  BY <1>1 DEF BillRunTypeOK
<1>6. over \in Generation /\ stop \in Generation /\ over # NoPass /\ stop # NoPass
  BY <1>3 DEF Generation, NoPass
<1>7. BillRunTypeOK'
  BY <1>1, <1>2, <1>4, <1>6 DEF BillRunTypeOK
<1>8. pass'[p].run = r /\ pass'[p] # NoPass /\ pass'[p].todo = pass[p].todo \ {u}
  BY <1>4, <1>6
<1>9. \A v \in Units : (At(p, v)' <=> ~Billed(r, u) /\ v = u) /\ ~At(p, v)
  BY <1>2, <1>4 DEF At
<1>10. \A q \in Passes \ {p}, v \in Units : At(q, v)' <=> At(q, v)
  BY <1>5 DEF At
<1>11. \A q \in Runs : Generating(q)' = Generating(q)
  BY <1>3, <1>5, <1>8 DEF Generating
<1> HIDE DEF over, stop
<1>12. PassesInOrder'
  <2> SUFFICES ASSUME NEW q \in Passes, pass'[q] # NoPass
               PROVE  /\ run[pass'[q].run] # NoRun
                      /\ \A v \in Units : v \in pass'[q].todo \/ At(q, v)'
                           => InScope(run[pass'[q].run].scope, v)
                      /\ \A v \in run[pass'[q].run].promised :
                           Billed(pass'[q].run, v) \/ At(q, v)' \/ v \in pass'[q].todo
    BY <1>2 DEF PassesInOrder, Billed
  <2>1. CASE q = p
    <3>1. run[r] # NoRun /\ \A v \in pass[p].todo : InScope(run[r].scope, v)
      BY <1>3 DEF PassesInOrder
    <3>2. run[r].promised \subseteq Units
      BY <1>3, <3>1 DEF BillRunTypeOK, Run
    <3>3. \A v \in run[r].promised : Billed(r, v) \/ v \in pass[p].todo
      BY <1>3, <1>9, <3>2 DEF PassesInOrder
    <3> QED
      BY <1>3, <1>8, <1>9, <2>1, <3>1, <3>2, <3>3
  <2>2. CASE q # p
    <3>1. run[pass[q].run].promised \subseteq Units
      BY <1>5, <2>2, PassFields DEF BillRunTypeOK, Run, PassesInOrder
    <3> QED
      BY <1>5, <1>10, <2>2, <3>1 DEF PassesInOrder
  <2> QED
    BY <2>1, <2>2
<1>13. PassesAlone'
  <2> SUFFICES ASSUME NEW q \in Runs \ overlapped
               PROVE  /\ \A p1, p2 \in Generating(q) : p1 = p2
                      /\ \A p1 \in Generating(q), v \in Units : At(p1, v)' => ~Billed(q, v)
    BY <1>2, <1>11 DEF PassesAlone, Billed
  <2>1. \A p1 \in Generating(q) : p1 = p => q = r
    BY DEF Generating
  <2> QED
    BY <1>9, <1>10, <2>1 DEF PassesAlone, Generating
<1> QED
  BY <1>2, <1>7, <1>12, <1>13
     DEF RunsInOrder, Billed, RerunNeverDuplicates, RunBillsItsScope, ScopeUnits

\* The area is read at the same unit.
LEMMA ReadStep ==
  ASSUME BillRunAssumption, BillRunInv, NEW p \in Passes, ReadArea(p)
  PROVE  BillRunInv'
<1> USE DEF BillRunInv
<1>1. /\ pass[p].op = "missing"
      /\ pass' = [pass EXCEPT ![p] = [op |-> "insert", run |-> @.run, made |-> @.made,
                                      todo |-> @.todo, unit |-> @.unit, area |-> area[@.unit]]]
      /\ UNCHANGED <<units, area, heads, run, billed, overlapped>>
  BY DEF ReadArea
<1>2. /\ pass[p] # NoPass /\ pass[p].run \in Runs /\ pass[p].made \in Nat
      /\ pass[p].todo \in SUBSET Units /\ pass[p].unit \in Units /\ area[pass[p].unit] \in Areas
  BY <1>1, PassFields DEF BillRunTypeOK
<1> DEFINE new == [op |-> "insert", run |-> pass[p].run, made |-> pass[p].made,
                   todo |-> pass[p].todo, unit |-> pass[p].unit, area |-> area[pass[p].unit]]
<1>3. new \in Generation /\ new # NoPass
  BY <1>2 DEF Generation, NoPass
<1>4. pass' = [pass EXCEPT ![p] = new]
  BY <1>1
<1>5. pass'[p] = new /\ \A q \in Passes \ {p} : pass'[q] = pass[q]
  BY <1>4 DEF BillRunTypeOK
<1>6. BillRunTypeOK'
  BY <1>1, <1>3, <1>4 DEF BillRunTypeOK
<1>7. \A q \in Passes : /\ pass'[q].run = pass[q].run /\ pass'[q].todo = pass[q].todo
                        /\ pass'[q] # NoPass <=> pass[q] # NoPass
                        /\ \A u : At(q, u)' <=> At(q, u)
  BY <1>1, <1>2, <1>3, <1>5 DEF At
<1>8. \A q \in Runs : Generating(q)' = Generating(q)
  BY <1>7 DEF Generating
<1>9. PassesInOrder'
  BY <1>1, <1>7 DEF PassesInOrder, Billed
<1>10. PassesAlone'
  BY <1>1, <1>7, <1>8 DEF PassesAlone, Billed, Generating
<1> QED
  BY <1>1, <1>6, <1>9, <1>10
     DEF RunsInOrder, Billed, RerunNeverDuplicates, RunBillsItsScope, ScopeUnits

\* An invoice is inserted for the unit the pass is at.
LEMMA InsertStep ==
  ASSUME BillRunAssumption, BillRunInv, NEW p \in Passes, CreateInvoice(p)
  PROVE  BillRunInv'
<1> USE DEF BillRunInv
<1> DEFINE r == pass[p].run
           u == pass[p].unit
           total == InvoiceTotal(run[r].lines, pass[p].area)
           new == [op |-> "next", run |-> r, made |-> pass[p].made + 1, todo |-> pass[p].todo]
<1>1. /\ pass[p].op = "insert" /\ total <= MaxInt
      /\ billed' = [billed EXCEPT ![r][u] = Append(@, total)]
      /\ pass' = [pass EXCEPT ![p] = new]
      /\ UNCHANGED <<units, area, heads, run, overlapped>>
  BY DEF CreateInvoice
<1>2. /\ pass[p] # NoPass /\ r \in Runs /\ pass[p].made \in Nat /\ u \in Units
      /\ pass[p].todo \in SUBSET Units /\ pass[p].area \in Areas
  BY <1>1, PassFields
<1>3. run[r] # NoRun /\ run[r] \in Run /\ At(p, u) /\ InScope(run[r].scope, u)
  BY <1>1, <1>2 DEF PassesInOrder, At, BillRunTypeOK
<1>4. total \in 0..MaxInt
  <2>1. run[r].lines \in Templates
    BY <1>3 DEF Run
  <2>2. total \in Nat
    BY <1>2, <2>1, InvoiceTotals
  <2> HIDE DEF total
  <2> QED
    BY <1>1, <2>2 DEF BillRunAssumption
<1> HIDE DEF total
<1>5. new \in Generation /\ new # NoPass
  BY <1>2 DEF Generation, NoPass
<1>6. pass'[p] = new /\ \A q \in Passes \ {p} : pass'[q] = pass[q]
  BY <1>1 DEF BillRunTypeOK
<1>7. billed[r][u] \in Seq(0..MaxInt)
  BY <1>2 DEF BillRunTypeOK
<1>8. /\ Append(billed[r][u], total) \in Seq(0..MaxInt)
      /\ Len(Append(billed[r][u], total)) = Len(billed[r][u]) + 1
      /\ Append(billed[r][u], total) # <<>>
      /\ Len(billed[r][u]) \in Nat
  <2>1. \A s \in Seq(0..MaxInt) : \A e \in 0..MaxInt :
           /\ Append(s, e) \in Seq(0..MaxInt)
           /\ Len(Append(s, e)) = Len(s) + 1
           /\ Append(s, e) # <<>>
           /\ Len(s) \in Nat
    BY AppendProperties, LenProperties
  <2> QED
    BY <1>4, <1>7, <2>1
<1>9. /\ billed' \in [Runs -> [Units -> Seq(0..MaxInt)]]
      /\ billed'[r][u] = Append(billed[r][u], total)
      /\ \A q \in Runs, v \in Units : q # r \/ v # u => billed'[q][v] = billed[q][v]
  <2> HIDE DEF u, r
  <2> QED
    BY <1>1, <1>2, <1>8 DEF BillRunTypeOK
<1> DEFINE BilledN(q, v) == billed'[q][v] # <<>>
<1>10. \A q \in Runs, v \in Units : BilledN(q, v) <=> Billed(q, v) \/ (q = r /\ v = u)
  BY <1>8, <1>9 DEF Billed
<1> HIDE DEF BilledN
<1>11. BillRunTypeOK'
  BY <1>1, <1>5, <1>9 DEF BillRunTypeOK
<1>12. \A q \in Passes : pass'[q].run = pass[q].run /\ pass'[q].todo = pass[q].todo
                         /\ (pass'[q] # NoPass <=> pass[q] # NoPass)
  BY <1>2, <1>5, <1>6
<1>13. \A v : ~At(p, v)' /\ (At(p, v) <=> v = u)
  BY <1>1, <1>6 DEF At
<1>14. \A q \in Passes \ {p}, v \in Units : At(q, v)' <=> At(q, v)
  BY <1>6 DEF At
<1>15. \A q \in Runs : Generating(q)' = Generating(q)
  BY <1>12 DEF Generating
<1> HIDE DEF u, new
<1>16. RunsInOrder'
  <2> SUFFICES ASSUME NEW q \in Runs
               PROVE  IF run[q] = NoRun THEN \A v \in Units : ~BilledN(q, v)
                      ELSE run[q].promised \subseteq ScopeUnits(run[q].scope)
    BY <1>1 DEF RunsInOrder, Billed, BilledN, ScopeUnits
  <2> QED
    BY <1>3, <1>10 DEF RunsInOrder
<1>17. PassesInOrder'
  <2> SUFFICES ASSUME NEW q \in Passes, pass[q] # NoPass
               PROVE  /\ run[pass[q].run] # NoRun
                      /\ \A v \in Units : v \in pass[q].todo \/ At(q, v)'
                           => InScope(run[pass[q].run].scope, v)
                      /\ \A v \in run[pass[q].run].promised :
                           BilledN(pass[q].run, v) \/ At(q, v)' \/ v \in pass[q].todo
    BY <1>1, <1>12 DEF PassesInOrder, Billed, BilledN
  <2>1. /\ run[pass[q].run] # NoRun /\ pass[q].run \in Runs
        /\ run[pass[q].run].promised \subseteq Units
    BY PassFields DEF PassesInOrder, BillRunTypeOK, Run
  <2>2. \A v \in Units : At(q, v)' => At(q, v)
    BY <1>13, <1>14
  <2>3. \A v \in run[pass[q].run].promised :
           BilledN(pass[q].run, v) \/ At(q, v)' \/ v \in pass[q].todo
    BY <1>10, <1>13, <1>14, <2>1 DEF PassesInOrder
  <2> QED
    BY <2>1, <2>2, <2>3 DEF PassesInOrder
<1>18. PassesAlone'
  <2> SUFFICES ASSUME NEW q \in Runs \ overlapped
               PROVE  /\ \A p1, p2 \in Generating(q) : p1 = p2
                      /\ \A p1 \in Generating(q), v \in Units : At(p1, v)' => ~BilledN(q, v)
    BY <1>1, <1>15 DEF PassesAlone, Billed, BilledN
  <2>1. q = r => p \in Generating(q)
    BY <1>2 DEF Generating
  <2> QED
    BY <1>10, <1>13, <1>14, <2>1 DEF PassesAlone, Generating
<1>19. RerunNeverDuplicates'
  <2> SUFFICES ASSUME NEW q \in Runs \ overlapped, NEW v \in Units
               PROVE  Len(billed'[q][v]) <= 1
    BY <1>1 DEF RerunNeverDuplicates
  <2>1. CASE q = r /\ v = u
    <3>1. ~Billed(r, u)
      BY <1>2, <1>3, <2>1 DEF PassesAlone, Generating
    <3>2. Len(billed[r][u]) = 0
      BY <3>1 DEF Billed
    <3> QED
      BY <1>8, <1>9, <2>1, <3>2
  <2>2. CASE ~(q = r /\ v = u)
    BY <1>9, <2>2 DEF RerunNeverDuplicates
  <2> QED
    BY <2>1, <2>2
<1>20. RunBillsItsScope'
  <2> SUFFICES ASSUME NEW q \in Runs
               PROVE  /\ run[q].status = "COMPLETED" => \A v \in run[q].promised : BilledN(q, v)
                      /\ \A v \in Units : BilledN(q, v) => InScope(run[q].scope, v)
    BY <1>1 DEF RunBillsItsScope, Billed, BilledN
  <2>1. run[q].status = "COMPLETED" => run[q].promised \subseteq Units
    <3>1. run[q] \in Run \cup {NoRun}
      BY DEF BillRunTypeOK
    <3> QED
      BY <3>1 DEF Run, NoRun
  <2> QED
    BY <1>3, <1>10, <2>1 DEF RunBillsItsScope
<1> QED
  BY <1>11, <1>16, <1>17, <1>18, <1>19, <1>20

\* A pass that stops, having finished or not, leaves the others what they were.
LEMMA PassEnds ==
  ASSUME BillRunInv, NEW p \in Passes, pass' = [pass EXCEPT ![p] = NoPass],
         UNCHANGED <<units, area, heads, billed, overlapped>>,
         NEW r \in Runs, \A q \in Runs \ {r} : run'[q] = run[q],
         run'[r] = run[r] \/ (/\ run'[r] # NoRun /\ run[r] # NoRun
                              /\ run'[r].scope = run[r].scope
                              /\ run'[r].promised = run[r].promised)
  PROVE  /\ pass' \in [Passes -> Generation \cup {NoPass}]
         /\ RunsInOrder' /\ PassesInOrder' /\ PassesAlone' /\ RerunNeverDuplicates'
<1> USE DEF BillRunInv
<1>1. pass'[p] = NoPass /\ \A q \in Passes \ {p} : pass'[q] = pass[q]
  BY DEF BillRunTypeOK
<1>2. \A q \in Passes : pass'[q] # NoPass => pass'[q] = pass[q] /\ pass[q] # NoPass
  BY <1>1
<1>3. \A q \in Runs : Generating(q)' \subseteq Generating(q)
  BY <1>2 DEF Generating
<1>4. \A q \in Passes : pass'[q] # NoPass => \A u : At(q, u)' <=> At(q, u)
  BY <1>2 DEF At
<1>5. pass' \in [Passes -> Generation \cup {NoPass}]
  BY DEF BillRunTypeOK
<1>6. RunsInOrder'
  BY DEF RunsInOrder, Billed, ScopeUnits
<1>7. PassesInOrder'
  <2> SUFFICES ASSUME NEW q \in Passes, pass'[q] # NoPass
               PROVE  /\ run'[pass[q].run] # NoRun
                      /\ \A v \in Units : v \in pass[q].todo \/ At(q, v)
                           => InScope(run'[pass[q].run].scope, v)
                      /\ \A v \in run'[pass[q].run].promised :
                           Billed(pass[q].run, v) \/ At(q, v) \/ v \in pass[q].todo
    BY <1>2, <1>4 DEF PassesInOrder, Billed
  <2>1. pass[q].run \in Runs
    BY <1>2, PassFields
  <2> QED
    BY <1>2, <2>1 DEF PassesInOrder
<1>8. PassesAlone'
  <2>1. \A q \in Runs : \A p1 \in Generating(q)' : \A v : At(p1, v)' <=> At(p1, v)
    BY <1>4 DEF Generating
  <2> QED
    BY <1>3, <2>1 DEF PassesAlone, Billed
<1>9. RerunNeverDuplicates'
  BY DEF RerunNeverDuplicates
<1> QED
  BY <1>5, <1>6, <1>7, <1>8, <1>9

\* The run is COMPLETED: nothing is left to visit.
LEMMA CompleteStep ==
  ASSUME BillRunAssumption, BillRunInv, NEW p \in Passes, Complete(p)
  PROVE  BillRunInv'
<1> USE DEF BillRunInv
<1> DEFINE r == pass[p].run
<1>1. /\ pass[p].op = "next" /\ pass[p].todo = {}
      /\ run' = [run EXCEPT ![r].status = "COMPLETED", ![r].generatedCount = pass[p].made]
      /\ pass' = [pass EXCEPT ![p] = NoPass]
      /\ UNCHANGED <<units, area, heads, billed, overlapped>>
  BY DEF Complete
<1>2. pass[p] # NoPass /\ r \in Runs /\ pass[p].made \in Nat
  BY <1>1, PassFields
<1>3. run[r] \in Run /\ run[r] # NoRun
  BY <1>2 DEF PassesInOrder, BillRunTypeOK
<1> DEFINE row == [run[r] EXCEPT !.status = "COMPLETED", !.generatedCount = pass[p].made]
<1>4. /\ row \in Run /\ row # NoRun /\ row.scope = run[r].scope
      /\ row.promised = run[r].promised /\ row.status = "COMPLETED"
  BY <1>2, <1>3 DEF Run, NoRun
<1>5. run'[r] = row /\ \A q \in Runs \ {r} : run'[q] = run[q]
  BY <1>1, <1>2 DEF BillRunTypeOK
<1>6. run' \in [Runs -> Run \cup {NoRun}]
  BY <1>1, <1>4, <1>5 DEF BillRunTypeOK
<1> HIDE DEF row
<1>7. \A u \in run[r].promised : Billed(r, u)
  BY <1>1, <1>2 DEF PassesInOrder, At
<1>8. RunBillsItsScope'
  <2> SUFFICES ASSUME NEW q \in Runs
               PROVE  /\ run'[q].status = "COMPLETED" => \A u \in run'[q].promised : Billed(q, u)
                      /\ \A u \in Units : Billed(q, u) => InScope(run'[q].scope, u)
    BY <1>1 DEF RunBillsItsScope, Billed
  <2>1. CASE q = r
    BY <1>4, <1>5, <1>7, <2>1 DEF RunBillsItsScope
  <2>2. CASE q # r
    BY <1>5, <2>2 DEF RunBillsItsScope
  <2> QED
    BY <2>1, <2>2
<1>9. /\ pass' \in [Passes -> Generation \cup {NoPass}]
      /\ RunsInOrder' /\ PassesInOrder' /\ PassesAlone' /\ RerunNeverDuplicates'
  BY <1>1, <1>2, <1>3, <1>4, <1>5, PassEnds
<1> QED
  BY <1>1, <1>6, <1>8, <1>9 DEF BillRunTypeOK

\* A pass that throws leaves what it inserted.
LEMMA AbortStep ==
  ASSUME BillRunAssumption, BillRunInv, NEW p \in Passes, AbortPass(p)
  PROVE  BillRunInv'
<1> USE DEF BillRunInv
<1>1. /\ pass[p] # NoPass
      /\ pass' = [pass EXCEPT ![p] = NoPass]
      /\ UNCHANGED <<units, area, heads, run, billed, overlapped>>
  BY DEF AbortPass
<1>2. pass[p].run \in Runs
  BY <1>1, PassFields
<1>3. /\ pass' \in [Passes -> Generation \cup {NoPass}]
      /\ RunsInOrder' /\ PassesInOrder' /\ PassesAlone' /\ RerunNeverDuplicates'
  BY <1>1, <1>2, PassEnds
<1> QED
  BY <1>1, <1>3 DEF BillRunTypeOK, RunBillsItsScope, Billed

\* BillRunInv holds throughout.
LEMMA BillRunInductive == BillRunSpec => []BillRunInv
<1>1. BillRunInit => BillRunInv
  BY BillRunAssumption
     DEF BillRunInit, BillRunInv, BillRunTypeOK, RunsInOrder, PassesInOrder, PassesAlone,
         Generating, Billed, RerunNeverDuplicates, RunBillsItsScope, NoRun, BillRunAssumption
<1>2. BillRunInv /\ [BillRunNext]_billRunVars => BillRunInv'
  <2> SUFFICES ASSUME BillRunInv, [BillRunNext]_billRunVars
               PROVE  BillRunInv'
    OBVIOUS
  <2>1. ASSUME NEW u \in Units, NEW a \in Areas, MeasureUnit(u, a)
        PROVE  BillRunInv'
    <3>1. BillRunTypeOK'
      BY <2>1 DEF MeasureUnit, BillRunInv, BillRunTypeOK
    <3> QED
      BY <2>1, <3>1, OtherSteps DEF MeasureUnit
  <2>2. ASSUME NEW h \in Heads, CreateChargeHead(h)
        PROVE  BillRunInv'
    <3>1. BillRunTypeOK'
      BY <2>2 DEF CreateChargeHead, BillRunInv, BillRunTypeOK
    <3> QED
      BY <2>2, <3>1, OtherSteps DEF CreateChargeHead
  <2>3. CASE UNCHANGED billRunVars
    <3>1. BillRunTypeOK'
      BY <2>3 DEF billRunVars, BillRunInv, BillRunTypeOK
    <3> QED
      BY <2>3, <3>1, OtherSteps DEF billRunVars
  <2> QED
    BY <2>1, <2>2, <2>3, BillRunAssumption, UnitsStep, RunStep, BeginStep, FindStep, ReadStep,
       InsertStep, CompleteStep, AbortStep DEF BillRunNext, Generate
<1> QED
  BY <1>1, <1>2, PTL DEF BillRunSpec

\* Every variable keeps its type: every total stored fits its column.
THEOREM BillRunTypeCorrect == BillRunSpec => []BillRunTypeOK
BY BillRunInductive, PTL DEF BillRunInv

\* generateInvoices, passes one after another: it is idempotent per run and unit,
\* however many passes die half-way.
THEOREM RerunsNeverDuplicate == BillRunSpec => []RerunNeverDuplicates
BY BillRunInductive, PTL DEF BillRunInv

\* generateInvoices: a COMPLETED run has billed every unit it promised, and no run
\* bills outside its scope, even when passes overlap.
THEOREM RunsBillTheirScope == BillRunSpec => []RunBillsItsScope
BY BillRunInductive, PTL DEF BillRunInv
=============================================================================
