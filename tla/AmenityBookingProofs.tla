------------------------ MODULE AmenityBookingProofs ------------------------
(***************************************************************************)
(* Proofs about AmenityBooking.  Apart from InsertBooking no step adds an  *)
(* active booking (StepKinds), so what the lock holder has checked can     *)
(* only become truer, and an insert keeps what its checks established.     *)
(***************************************************************************)
EXTENDS AmenityBooking, FiniteSetTheorems, TLAPS

\* A step that neither adds nor moves an active booking.
NoneAdded ==
  \A b \in Bookings :
     Active(b)' => /\ Active(b)
                   /\ booking'[b].user = booking[b].user
                   /\ booking'[b].start = booking[b].start
                   /\ booking'[b].end = booking[b].end

\* What the fields of a row in use are.
LEMMA RowFields ==
  ASSUME TypeOK, NEW b \in Bookings, Active(b)
  PROVE  /\ booking[b] \in BookingRow
         /\ booking[b].user \in Users
         /\ booking[b].start \in Ticks
         /\ booking[b].end \in Ticks
<1>1. booking[b] \in BookingRow \cup {NoBooking}
  BY DEF TypeOK
<1>2. booking[b] # NoBooking
  BY DEF Active, ActiveStatuses, NoBooking
<1> QED
  BY <1>1, <1>2 DEF BookingRow

\* What a request in progress carries, by its op.
LEMMA RequestFields ==
  ASSUME TypeOK, NEW w \in Workers
  PROVE  /\ req[w].op = "book" => /\ req[w].user \in Users
                                  /\ req[w].start \in Ticks
                                  /\ req[w].end \in Ticks
                                  /\ req[w] \in [op : {"book"},
                                       step : {"lock", "overlap", "quota", "insert"},
                                       user : Users, start : Ticks, end : Ticks]
         /\ req[w].op = "decide" => req[w].booking \in Bookings /\ req[w].to \in Decision
         /\ req[w].op = "cancel" => req[w].booking \in Bookings
         /\ req[w].op \in {"book", "decide", "cancel", "idle"}
  BY DEF TypeOK, Request, Idle

\* What a step can do to the requests of its worker.
BookStep(w) == LockAmenity(w) \/ CheckOverlap(w) \/ CheckQuota(w)

BeginStep(w) ==
  /\ req[w] = Idle
  /\ \/ \E u \in Users, s, e \in Ticks :
          req' = [req EXCEPT ![w] = [op |-> "book", step |-> "lock",
                                     user |-> u, start |-> s, end |-> e]]
     \/ \E b \in Bookings, to \in Decision :
          /\ booking[b].status = "PENDING"
          /\ req' = [req EXCEPT ![w] = [op |-> "decide", booking |-> b, to |-> to]]
     \/ \E b \in Bookings :
          /\ Active(b)
          /\ req' = [req EXCEPT ![w] = [op |-> "cancel", booking |-> b]]

EndStep(w) == req' = [req EXCEPT ![w] = Idle]

\* A status written over a row by decide or cancel.
StatusStep(b, s) ==
  /\ b \in Bookings
  /\ s \in {"CONFIRMED", "REJECTED", "CANCELLED"}
  /\ booking' = [booking EXCEPT ![b].status = s]

\* What a step can do to the three variables.
LEMMA StepForms ==
  ASSUME TypeOK, [Next]_vars
  PROVE  \/ UNCHANGED <<booking, req>> /\ now' \in Ticks
         \/ /\ UNCHANGED <<now, booking>>
            /\ \E w \in Workers : BookStep(w) \/ BeginStep(w) \/ EndStep(w)
         \/ /\ UNCHANGED now
            /\ \E w \in Workers :
                 /\ EndStep(w)
                 /\ \/ \E b \in Bookings : InsertBooking(w, b)
                    \/ /\ req[w].op = "decide"
                       /\ StatusStep(req[w].booking, req[w].to)
                    \/ /\ req[w].op = "cancel"
                       /\ StatusStep(req[w].booking, "CANCELLED")
<1>1. CASE UNCHANGED vars
  BY <1>1 DEF vars, TypeOK
<1>2. CASE TimePasses
  BY <1>2, AmenityAssumption DEF TimePasses, TypeOK, Ticks
<1>3. ASSUME NEW w \in Workers, Handler(w)
      PROVE  \/ /\ UNCHANGED <<now, booking>>
                /\ BookStep(w) \/ BeginStep(w) \/ EndStep(w)
             \/ /\ UNCHANGED now
                /\ EndStep(w)
                /\ \/ \E b \in Bookings : InsertBooking(w, b)
                   \/ /\ req[w].op = "decide"
                      /\ StatusStep(req[w].booking, req[w].to)
                   \/ /\ req[w].op = "cancel"
                      /\ StatusStep(req[w].booking, "CANCELLED")
  <2>1. CASE \E u \in Users, s, e \in Ticks : BeginBook(w, u, s, e)
    BY <2>1 DEF BeginBook, BeginStep
  <2>2. CASE LockAmenity(w) \/ CheckOverlap(w) \/ CheckQuota(w)
    BY <2>2 DEF BookStep, LockAmenity, CheckOverlap, CheckQuota
  <2>3. CASE \E b \in Bookings : InsertBooking(w, b)
    BY <2>3 DEF InsertBooking, EndStep
  <2>4. CASE \E b \in Bookings, to \in Decision : BeginDecide(w, b, to)
    BY <2>4 DEF BeginDecide, BeginStep
  <2>5. CASE WriteDecision(w)
    BY <2>5, RequestFields DEF WriteDecision, EndStep, StatusStep, Decision
  <2>6. CASE \E b \in Bookings, isAdmin \in BOOLEAN : BeginCancel(w, b, isAdmin)
    BY <2>6 DEF BeginCancel, BeginStep
  <2>7. CASE WriteCancel(w)
    BY <2>7, RequestFields DEF WriteCancel, EndStep, StatusStep
  <2>8. CASE Abort(w)
    BY <2>8 DEF Abort, EndStep
  <2> QED
    BY <1>3, <2>1, <2>2, <2>3, <2>4, <2>5, <2>6, <2>7, <2>8 DEF Handler
<1> QED
  BY <1>1, <1>2, <1>3 DEF Next

\* The row a status is written over keeps its other fields.
LEMMA StatusWrite ==
  ASSUME TypeOK, NEW b \in Bookings, Made(b), NEW s, StatusStep(b, s)
  PROVE  /\ booking' \in [Bookings -> BookingRow \cup {NoBooking}]
         /\ booking'[b].status = s
         /\ booking'[b].user = booking[b].user
         /\ booking'[b].start = booking[b].start
         /\ booking'[b].end = booking[b].end
         /\ \A c \in Bookings : c # b => booking'[c] = booking[c]
         /\ \A c \in Bookings : Made(c) => Made(c)'
<1>1. booking[b] \in BookingRow
  BY DEF TypeOK, Made
<1>2. /\ booking'[b] = [booking[b] EXCEPT !.status = s]
      /\ \A c \in Bookings : c # b => booking'[c] = booking[c]
      /\ booking' = [booking EXCEPT ![b] = [booking[b] EXCEPT !.status = s]]
  BY DEF StatusStep, TypeOK
<1>3. booking'[b] \in BookingRow
  BY <1>1, <1>2 DEF BookingRow, StatusStep
<1>4. /\ booking'[b].status = s
      /\ booking'[b].user = booking[b].user
      /\ booking'[b].start = booking[b].start
      /\ booking'[b].end = booking[b].end
  BY <1>1, <1>2 DEF BookingRow
<1>5. booking'[b] # NoBooking
  BY <1>4 DEF StatusStep, NoBooking
<1>6. booking' \in [Bookings -> BookingRow \cup {NoBooking}]
  BY <1>2, <1>3 DEF TypeOK
<1> QED
  BY <1>2, <1>4, <1>5, <1>6 DEF Made

\* The rows after an insert.
LEMMA InsertWrite ==
  ASSUME TypeOK, NEW w \in Workers, NEW b \in Bookings, InsertBooking(w, b)
  PROVE  /\ booking' \in [Bookings -> BookingRow \cup {NoBooking}]
         /\ ~Made(b) /\ Made(b)'
         /\ ~Active(b) /\ Active(b)'
         /\ booking'[b].user = req[w].user
         /\ booking'[b].start = req[w].start
         /\ booking'[b].end = req[w].end
         /\ \A c \in Bookings : c # b => booking'[c] = booking[c]
<1> DEFINE row == [status |-> IF RequiresApproval THEN "PENDING" ELSE "CONFIRMED",
                   user |-> req[w].user, start |-> req[w].start, end |-> req[w].end]
<1>1. req[w].user \in Users /\ req[w].start \in Ticks /\ req[w].end \in Ticks
  BY RequestFields DEF InsertBooking
<1>2. /\ booking'[b] = row
      /\ \A c \in Bookings : c # b => booking'[c] = booking[c]
      /\ booking' = [booking EXCEPT ![b] = row]
  BY DEF InsertBooking, TypeOK
<1>3. row \in BookingRow /\ row.status \in ActiveStatuses /\ row # NoBooking
  BY <1>1 DEF BookingRow, ActiveStatuses, NoBooking
<1>4. booking' \in [Bookings -> BookingRow \cup {NoBooking}]
  BY <1>2, <1>3 DEF TypeOK
<1>5. ~Made(b) /\ ~Active(b)
  BY DEF InsertBooking, Made, Active, ActiveStatuses, NoBooking
<1>6. Made(b)' /\ Active(b)'
  BY <1>2, <1>3 DEF Made, Active
<1> QED
  BY <1>2, <1>4, <1>5, <1>6

\* A decision that is not stale, and a cancellation, add no active booking.
LEMMA StepKinds ==
  ASSUME TypeOK, FreshDecisions, [Next]_vars
  PROVE  \/ NoneAdded
         \/ \E w \in Workers, b \in Bookings : InsertBooking(w, b)
<1>1. CASE UNCHANGED booking
  BY <1>1 DEF NoneAdded, Active
<1>2. ASSUME NEW w \in Workers,
             \/ req[w].op = "decide" /\ StatusStep(req[w].booking, req[w].to)
             \/ req[w].op = "cancel" /\ StatusStep(req[w].booking, "CANCELLED")
      PROVE  NoneAdded
  <2> DEFINE b == req[w].booking
  <2>1. b \in Bookings /\ Made(b)
    BY <1>2, RequestFields DEF TypeOK, References
  <2>2. PICK s : StatusStep(b, s) /\ (s \in ActiveStatuses => Active(b))
    <3>1. CASE req[w].op = "decide"
      <4>1. Active(b)
        BY <3>1 DEF FreshDecisions, Active, ActiveStatuses
      <4> QED
        BY <1>2, <3>1, <4>1
    <3>2. CASE req[w].op = "cancel"
      BY <1>2, <3>2 DEF ActiveStatuses
    <3> QED
      BY <1>2, <3>1, <3>2
  <2>3. /\ booking'[b].status = s
        /\ booking'[b].user = booking[b].user
        /\ booking'[b].start = booking[b].start
        /\ booking'[b].end = booking[b].end
        /\ \A c \in Bookings : c # b => booking'[c] = booking[c]
    BY <2>1, <2>2, StatusWrite
  <2> QED
    BY <2>2, <2>3 DEF NoneAdded, Active
<1> QED
  BY <1>1, <1>2, StepForms

\* A booking once made stays made.
LEMMA MadeStays ==
  ASSUME TypeOK, [Next]_vars, NEW b \in Bookings, Made(b)
  PROVE  Made(b)'
<1>1. CASE UNCHANGED booking
  BY <1>1 DEF Made
<1>2. ASSUME NEW w \in Workers, NEW c \in Bookings, InsertBooking(w, c)
      PROVE  Made(b)'
  BY <1>2, InsertWrite DEF Made
<1>3. ASSUME NEW c \in Bookings, Made(c), NEW s, StatusStep(c, s)
      PROVE  Made(b)'
  BY <1>3, StatusWrite
<1> QED
  BY <1>1, <1>2, <1>3, StepForms, RequestFields DEF TypeOK, References

\* What the request of any worker may be after a step.
LEMMA RequestStep ==
  ASSUME TypeOK, [Next]_vars, NEW w \in Workers
  PROVE  \/ req'[w] = req[w]
         \/ req'[w] = Idle
         \/ UNCHANGED <<now, booking>> /\ BookStep(w)
         \/ UNCHANGED <<now, booking>> /\ BeginStep(w)
<1>1. \/ UNCHANGED req
      \/ \E v \in Workers :
           \/ EndStep(v)
           \/ UNCHANGED <<now, booking>> /\ (BookStep(v) \/ BeginStep(v))
  BY StepForms
<1>2. ASSUME NEW v \in Workers, EndStep(v)
      PROVE  req'[w] = req[w] \/ req'[w] = Idle
  BY <1>2 DEF EndStep, TypeOK
<1>3. ASSUME NEW v \in Workers, BookStep(v), v # w
      PROVE  req'[w] = req[w]
  BY <1>3 DEF BookStep, LockAmenity, CheckOverlap, CheckQuota, TypeOK
<1>4. ASSUME NEW v \in Workers, BeginStep(v), v # w
      PROVE  req'[w] = req[w]
  BY <1>4 DEF BeginStep, TypeOK
<1> QED
  BY <1>1, <1>2, <1>3, <1>4

\* What createBooking has checked for the request of a worker.
FreeFor(w) == ~Taken(req[w].start, req[w].end)
RoomFor(w) == WithinQuota(req[w].user, req[w].start)

SameBooking(w) ==
  /\ req'[w].user = req[w].user
  /\ req'[w].start = req[w].start
  /\ req'[w].end = req[w].end

\* A step taken under the lock only moves the step of the request.
LEMMA BookStepFields ==
  ASSUME TypeOK, NEW w \in Workers, BookStep(w)
  PROVE  /\ req'[w] \in Request
         /\ req[w].op = "book" /\ req'[w].op = "book"
         /\ SameBooking(w)
         /\ \/ req'[w].step = "overlap"
            \/ req'[w].step = "quota" /\ FreeFor(w)
            \/ req'[w].step = "insert" /\ req[w].step = "quota" /\ RoomFor(w)
<1> DEFINE books == [op : {"book"}, step : {"lock", "overlap", "quota", "insert"},
                     user : Users, start : Ticks, end : Ticks]
<1>1. req[w] \in books /\ req[w].op = "book"
  BY RequestFields DEF BookStep, LockAmenity, CheckOverlap, CheckQuota
<1>2. ASSUME NEW s \in {"overlap", "quota", "insert"}, req' = [req EXCEPT ![w].step = s]
      PROVE  /\ req'[w] \in books
             /\ req'[w].op = "book" /\ req'[w].step = s
             /\ SameBooking(w)
  <2>1. req'[w] = [req[w] EXCEPT !.step = s]
    BY <1>2 DEF TypeOK
  <2> QED
    BY <1>1, <2>1 DEF SameBooking
<1>3. CASE LockAmenity(w)
  BY <1>1, <1>2, <1>3 DEF LockAmenity, Request
<1>4. CASE CheckOverlap(w)
  BY <1>1, <1>2, <1>4 DEF CheckOverlap, Request, FreeFor
<1>5. CASE CheckQuota(w)
  BY <1>1, <1>2, <1>5 DEF CheckQuota, Request, RoomFor
<1> QED
  BY <1>3, <1>4, <1>5 DEF BookStep

\* A request that starts is typed and refers to a booking that exists.
LEMMA BeginStepFields ==
  ASSUME TypeOK, NEW w \in Workers, BeginStep(w)
  PROVE  /\ req'[w] \in Request
         /\ req'[w].op \in {"decide", "cancel"} => Made(req'[w].booking)
         /\ req'[w].op = "decide" => booking[req'[w].booking].status = "PENDING"
         /\ req'[w].op = "book" => req'[w].step = "lock"
<1>1. CASE \E u \in Users, s, e \in Ticks :
             req' = [req EXCEPT ![w] = [op |-> "book", step |-> "lock",
                                        user |-> u, start |-> s, end |-> e]]
  BY <1>1 DEF TypeOK, Request
<1>2. CASE \E b \in Bookings, to \in Decision :
             /\ booking[b].status = "PENDING"
             /\ req' = [req EXCEPT ![w] = [op |-> "decide", booking |-> b, to |-> to]]
  BY <1>2 DEF TypeOK, Request, Made, NoBooking
<1>3. CASE \E b \in Bookings :
             /\ Active(b)
             /\ req' = [req EXCEPT ![w] = [op |-> "cancel", booking |-> b]]
  BY <1>3 DEF TypeOK, Request, Made, Active, ActiveStatuses, NoBooking
<1> QED
  BY <1>1, <1>2, <1>3 DEF BeginStep

\* Types survive every step.
LEMMA TypeStep ==
  ASSUME TypeOK, [Next]_vars
  PROVE  TypeOK'
<1>1. now' \in Ticks
  BY StepForms DEF TypeOK
<1>2. booking' \in [Bookings -> BookingRow \cup {NoBooking}]
  <2>1. CASE UNCHANGED booking
    BY <2>1 DEF TypeOK
  <2>2. CASE \E w \in Workers, b \in Bookings : InsertBooking(w, b)
    BY <2>2, InsertWrite
  <2>3. ASSUME NEW w \in Workers, req[w].op \in {"decide", "cancel"},
               NEW s, StatusStep(req[w].booking, s)
        PROVE  booking' \in [Bookings -> BookingRow \cup {NoBooking}]
    BY <2>3, StatusWrite, RequestFields DEF TypeOK, References
  <2> QED
    BY <2>1, <2>2, <2>3, StepForms
<1>3. \A w \in Workers : req'[w] \in Request \cup {Idle}
  BY RequestStep, BookStepFields, BeginStepFields DEF TypeOK
<1>4. req' \in [Workers -> Request \cup {Idle}]
  <2>1. \/ UNCHANGED req
        \/ \E w \in Workers : BookStep(w) \/ BeginStep(w) \/ EndStep(w)
    BY StepForms
  <2>2. DOMAIN req' = Workers /\ req' = [w \in Workers |-> req'[w]]
    BY <2>1 DEF TypeOK, BookStep, LockAmenity, CheckOverlap, CheckQuota, BeginStep, EndStep
  <2> QED
    BY <1>3, <2>2
<1>5. References'
  <2> SUFFICES ASSUME NEW w \in Workers, req'[w].op \in {"decide", "cancel"}
               PROVE  booking'[req'[w].booking] # NoBooking
    BY DEF References, Made
  <2>1. CASE req'[w] = req[w]
    <3>1. req[w].booking \in Bookings /\ Made(req[w].booking)
      BY <2>1, RequestFields DEF TypeOK, References
    <3>2. booking'[req[w].booking] # NoBooking
      BY <3>1, MadeStays DEF Made
    <3> QED
      BY <2>1, <3>2
  <2>2. CASE UNCHANGED <<now, booking>> /\ BeginStep(w)
    BY <2>2, BeginStepFields DEF Made
  <2> QED
    BY <2>1, <2>2, RequestStep, BookStepFields DEF Idle
<1> QED
  BY <1>1, <1>2, <1>4, <1>5 DEF TypeOK

\* Two workers never hold the lock together: only LockAmenity takes it.
LEMMA LockStep ==
  ASSUME TypeOK, OneLockHolder, [Next]_vars
  PROVE  OneLockHolder'
<1> SUFFICES ASSUME NEW w1 \in Workers, NEW w2 \in Workers, HoldsLock(w1)', HoldsLock(w2)'
             PROVE  w1 = w2
  BY DEF OneLockHolder
<1>1. ASSUME NEW w \in Workers, LockAmenity(w)
      PROVE  \A v \in Workers : v # w => ~HoldsLock(v)'
  BY <1>1 DEF LockAmenity, HoldsLock, TypeOK
<1>2. ASSUME ~\E w \in Workers : LockAmenity(w), NEW w \in Workers, HoldsLock(w)'
      PROVE  HoldsLock(w)
  <2>1. CASE UNCHANGED req
    BY <1>2, <2>1 DEF HoldsLock
  <2>2. ASSUME NEW v \in Workers, BeginStep(v)
        PROVE  HoldsLock(w)
    <3>1. CASE v = w
      BY <1>2, <2>2, <3>1, BeginStepFields DEF HoldsLock
    <3>2. CASE v # w
      BY <1>2, <2>2, <3>2 DEF HoldsLock, BeginStep, TypeOK
    <3> QED
      BY <3>1, <3>2
  <2>3. ASSUME NEW v \in Workers, CheckOverlap(v) \/ CheckQuota(v)
        PROVE  HoldsLock(w)
    <3>1. HoldsLock(v)
      BY <2>3 DEF CheckOverlap, CheckQuota, HoldsLock
    <3>2. v # w => req'[w] = req[w]
      BY <2>3 DEF CheckOverlap, CheckQuota, TypeOK
    <3> QED
      BY <1>2, <3>1, <3>2 DEF HoldsLock
  <2>4. ASSUME NEW v \in Workers, EndStep(v)
        PROVE  HoldsLock(w)
    BY <1>2, <2>4 DEF HoldsLock, EndStep, TypeOK, Idle
  <2>5. \/ UNCHANGED req
        \/ \E v \in Workers :
             BeginStep(v) \/ CheckOverlap(v) \/ CheckQuota(v) \/ EndStep(v)
    <3>1. CASE UNCHANGED vars \/ TimePasses
      BY <3>1 DEF vars, TimePasses
    <3>2. ASSUME NEW v \in Workers, Handler(v)
          PROVE  BeginStep(v) \/ CheckOverlap(v) \/ CheckQuota(v) \/ EndStep(v)
      BY <1>2, <3>2 DEF Handler, BeginStep, EndStep, BeginBook, BeginDecide, BeginCancel,
            InsertBooking, WriteDecision, WriteCancel, Abort
    <3> QED
      BY <3>1, <3>2 DEF Next
  <2> QED
    BY <2>1, <2>2, <2>3, <2>4, <2>5
<1>3. CASE \E w \in Workers : LockAmenity(w)
  BY <1>1, <1>3
<1>4. CASE ~\E w \in Workers : LockAmenity(w)
  BY <1>2, <1>4 DEF OneLockHolder
<1> QED
  BY <1>3, <1>4

\* What the checks established for a request is kept while nothing is added.
LEMMA ChecksKept ==
  ASSUME NoneAdded, NEW w \in Workers, SameBooking(w)
  PROVE  /\ FreeFor(w) => FreeFor(w)'
         /\ RoomFor(w) => RoomFor(w)'
<1>1. FreeFor(w) => FreeFor(w)'
  BY DEF FreeFor, Taken, SameBooking, NoneAdded
<1>2. ASSUME RoomFor(w)
      PROVE  RoomFor(w)'
  <2> DEFINE was == Counted(req[w].user, req[w].start)
             is == {b \in Bookings : /\ Active(b)'
                                     /\ booking'[b].user = req[w].user
                                     /\ MonthOf[booking'[b].start] = MonthOf[req[w].start]}
  <2>1. is \subseteq was
    BY DEF NoneAdded, Counted
  <2>2. /\ Cardinality(is) \in Nat /\ Cardinality(was) \in Nat
        /\ Cardinality(is) <= Cardinality(was)
    <3>1. was \subseteq Bookings
      BY DEF Counted
    <3> HIDE DEF was, is
    <3> QED
      BY <2>1, <3>1, FS_Subset, FS_CardinalityType, AmenityAssumption
  <2>3. Cardinality(was) < MaxBookingsPerMonth
    BY <1>2 DEF RoomFor, WithinQuota
  <2>4. RoomFor(w)' <=> Cardinality(is) < MaxBookingsPerMonth
    BY DEF RoomFor, WithinQuota, Counted, SameBooking
  <2>5. MaxBookingsPerMonth \in Nat
    BY AmenityAssumption
  <2> HIDE DEF was, is
  <2> QED
    BY <2>2, <2>3, <2>4, <2>5
<1> QED
  BY <1>1, <1>2

\* What was checked under the lock is kept by every step: the others of the
\* lock's holder add nothing, and the insert that adds ends its holder's turn.
LEMMA CheckStep ==
  ASSUME TypeOK, FreshDecisions, OneLockHolder, ChecksStillHold, [Next]_vars
  PROVE  ChecksStillHold'
<1> SUFFICES ASSUME NEW w \in Workers, req'[w].op = "book"
             PROVE  /\ req'[w].step \in {"quota", "insert"} => FreeFor(w)'
                    /\ req'[w].step = "insert" => RoomFor(w)'
  BY DEF ChecksStillHold, FreeFor, RoomFor
<1>1. req[w].op = "book" => /\ req[w].step \in {"quota", "insert"} => FreeFor(w)
                            /\ req[w].step = "insert" => RoomFor(w)
  BY DEF ChecksStillHold, FreeFor, RoomFor
<1>2. CASE BookStep(w) /\ UNCHANGED <<now, booking>>
  <2>1. NoneAdded
    BY <1>2 DEF NoneAdded, Active
  <2> QED
    BY <1>1, <1>2, <2>1, BookStepFields, ChecksKept
<1>3. CASE BeginStep(w)
  BY <1>3, BeginStepFields
<1>4. CASE req'[w] = Idle
  BY <1>4 DEF Idle
<1>5. CASE req'[w] = req[w]
  <2>1. SameBooking(w) /\ req[w].op = "book"
    BY <1>5 DEF SameBooking
  <2>2. CASE NoneAdded
    BY <1>1, <1>5, <2>1, <2>2, ChecksKept
  <2>3. ASSUME NEW v \in Workers, NEW b \in Bookings, InsertBooking(v, b)
        PROVE  req[w].step = "lock" \/ req[w].step = "overlap"
    <3>1. HoldsLock(v) /\ req'[v] = Idle
      BY <2>3 DEF InsertBooking, HoldsLock, TypeOK
    <3>2. v # w
      BY <3>1, <1>5, <2>1 DEF Idle
    <3>3. ~HoldsLock(w)
      BY <3>1, <3>2 DEF OneLockHolder
    <3> QED
      BY <2>1, <3>3 DEF HoldsLock
  <2> QED
    BY <1>5, <2>2, <2>3, StepKinds
<1> QED
  BY <1>2, <1>3, <1>4, <1>5, RequestStep

\* The slot of the one that inserts was free, and stays so until it commits.
LEMMA NoDoubleStep ==
  ASSUME TypeOK, FreshDecisions, ChecksStillHold, NoDoubleBooking, [Next]_vars
  PROVE  NoDoubleBooking'
<1>1. CASE NoneAdded
  BY <1>1 DEF NoDoubleBooking, NoneAdded
<1>2. ASSUME NEW w \in Workers, NEW b \in Bookings, InsertBooking(w, b)
      PROVE  NoDoubleBooking'
  <2>1. /\ booking'[b].start = req[w].start
        /\ booking'[b].end = req[w].end
        /\ \A c \in Bookings : c # b => booking'[c] = booking[c]
    BY <1>2, InsertWrite
  <2>2. ~Taken(req[w].start, req[w].end)
    BY <1>2 DEF InsertBooking, ChecksStillHold
  <2>3. req[w].start \in Int /\ req[w].end \in Int
    BY <1>2, RequestFields, AmenityAssumption DEF InsertBooking, Ticks
  <2>4. ASSUME NEW c \in Bookings, c # b, Active(c)'
        PROVE  \/ booking'[c].end <= booking'[b].start
               \/ booking'[b].end <= booking'[c].start
    <3>1. Active(c) /\ booking'[c] = booking[c]
      BY <2>1, <2>4 DEF Active
    <3>2. booking[c].start \in Int /\ booking[c].end \in Int
      BY <3>1, RowFields, AmenityAssumption DEF Ticks
    <3>3. ~(booking[c].start < req[w].end /\ booking[c].end > req[w].start)
      BY <2>2, <3>1 DEF Taken
    <3> QED
      BY <2>1, <2>3, <3>1, <3>2, <3>3
  <2>5. ASSUME NEW c1 \in Bookings, NEW c2 \in Bookings, c1 # c2, c1 # b, c2 # b,
               Active(c1)', Active(c2)'
        PROVE  \/ booking'[c1].end <= booking'[c2].start
               \/ booking'[c2].end <= booking'[c1].start
    BY <2>1, <2>5 DEF NoDoubleBooking, Active
  <2> QED
    BY <2>4, <2>5 DEF NoDoubleBooking
<1> QED
  BY <1>1, <1>2, StepKinds

\* An insert adds one to a count that was below the limit; the bookings of
\* others, and of other months, are counted as before.
LEMMA QuotaStep ==
  ASSUME TypeOK, FreshDecisions, ChecksStillHold, QuotaKept, [Next]_vars
  PROVE  QuotaKept'
<1> DEFINE was(u, m) == {c \in Bookings : Active(c) /\ booking[c].user = u
                                            /\ MonthOf[booking[c].start] = m}
           is(u, m) == {c \in Bookings : Active(c)' /\ booking'[c].user = u
                                           /\ MonthOf[booking'[c].start] = m}
<1> SUFFICES ASSUME NEW c \in Bookings, Active(c)'
             PROVE  Cardinality(is(booking'[c].user, MonthOf[booking'[c].start]))
                      <= MaxBookingsPerMonth
  BY DEF QuotaKept, Counted
<1>1. MaxBookingsPerMonth \in Nat
  BY AmenityAssumption
<1>2. \A u, m : /\ IsFiniteSet(was(u, m)) /\ Cardinality(was(u, m)) \in Nat
                /\ IsFiniteSet(is(u, m)) /\ Cardinality(is(u, m)) \in Nat
  <2> TAKE u, m
  <2>1. was(u, m) \subseteq Bookings /\ is(u, m) \subseteq Bookings
    OBVIOUS
  <2> HIDE DEF was, is
  <2> QED
    BY <2>1, FS_Subset, FS_CardinalityType, AmenityAssumption
<1>3. \A d \in Bookings : Active(d) =>
        Cardinality(was(booking[d].user, MonthOf[booking[d].start])) <= MaxBookingsPerMonth
  BY DEF QuotaKept, Counted
<1>4. CASE NoneAdded
  <2> DEFINE u == booking'[c].user
             m == MonthOf[booking'[c].start]
  <2>1. is(u, m) \subseteq was(u, m)
    BY <1>4 DEF NoneAdded
  <2>2. Cardinality(was(u, m)) <= MaxBookingsPerMonth
    <3>1. /\ Active(c)
          /\ booking'[c].user = booking[c].user
          /\ booking'[c].start = booking[c].start
      BY <1>4 DEF NoneAdded
    <3> HIDE DEF was
    <3> QED
      BY <1>3, <3>1
  <2> HIDE DEF was, is
  <2> QED
    BY <1>1, <1>2, <2>1, <2>2, FS_Subset
<1>5. ASSUME NEW w \in Workers, NEW b \in Bookings, InsertBooking(w, b)
      PROVE  Cardinality(is(booking'[c].user, MonthOf[booking'[c].start]))
               <= MaxBookingsPerMonth
  <2> DEFINE u == booking'[c].user
             m == MonthOf[booking'[c].start]
  <2>1. /\ ~Active(b)
        /\ booking'[b].user = req[w].user
        /\ booking'[b].start = req[w].start
        /\ \A d \in Bookings : d # b => booking'[d] = booking[d]
    BY <1>5, InsertWrite
  <2>2. is(u, m) \subseteq was(u, m) \cup {b}
    BY <2>1 DEF Active
  <2>3. CASE b \in is(u, m)
    <3>1. was(u, m) = Counted(req[w].user, req[w].start)
      BY <2>1, <2>3 DEF Counted
    <3>2. Cardinality(was(u, m)) < MaxBookingsPerMonth
      BY <1>5, <3>1 DEF InsertBooking, ChecksStillHold, WithinQuota
    <3>3. b \notin was(u, m)
      BY <2>1
    <3> HIDE DEF was, is
    <3>4. Cardinality(was(u, m) \cup {b}) = Cardinality(was(u, m)) + 1
      BY <1>2, <3>3, FS_AddElement
    <3>5. Cardinality(is(u, m)) <= Cardinality(was(u, m) \cup {b})
      BY <1>2, <2>2, FS_Subset, FS_AddElement
    <3> QED
      BY <1>1, <1>2, <3>2, <3>4, <3>5
  <2>4. CASE b \notin is(u, m)
    <3>1. is(u, m) \subseteq was(u, m)
      BY <2>2, <2>4
    <3>2. c # b /\ Active(c) /\ booking'[c] = booking[c]
      BY <2>1, <2>4 DEF Active
    <3>3. Cardinality(was(u, m)) <= MaxBookingsPerMonth
      <4> HIDE DEF was
      <4> QED
        BY <1>3, <3>2
    <3> HIDE DEF was, is
    <3> QED
      BY <1>1, <1>2, <3>1, <3>3, FS_Subset
  <2> QED
    BY <2>3, <2>4
<1> QED
  BY <1>4, <1>5, StepKinds

-----------------------------------------------------------------------------
\* The invariant behind the theorems is inductive while decisions stay fresh.
LEMMA Inductive == FreshSpec => []IInv
<1>1. Init => IInv
  <2> SUFFICES ASSUME Init
               PROVE  IInv
    OBVIOUS
  <2>1. TypeOK
    BY AmenityAssumption DEF Init, TypeOK, References, Ticks, Idle
  <2>2. \A b \in Bookings : ~Active(b)
    BY DEF Init, Active, ActiveStatuses, NoBooking
  <2>3. \A w \in Workers : req[w].op = "idle"
    BY DEF Init, Idle
  <2> QED
    BY <2>1, <2>2, <2>3 DEF IInv, FreshDecisions, OneLockHolder, HoldsLock,
       ChecksStillHold, NoDoubleBooking, QuotaKept
<1>2. IInv /\ [Next /\ FreshDecisions']_vars => IInv'
  <2> SUFFICES ASSUME IInv, [Next /\ FreshDecisions']_vars
               PROVE  IInv'
    OBVIOUS
  <2>1. [Next]_vars
    OBVIOUS
  <2>2. FreshDecisions'
    BY DEF IInv, vars, FreshDecisions
  <2> QED
    BY <2>1, <2>2, TypeStep, LockStep, CheckStep, NoDoubleStep, QuotaStep DEF IInv
<1> QED
  BY <1>1, <1>2, PTL DEF FreshSpec

\* The types hold whatever is booked, decided and cancelled at once.
THEOREM TypeCorrect == Spec => []TypeOK
<1>1. Init => TypeOK
  BY AmenityAssumption DEF Init, TypeOK, References, Ticks, Idle
<1>2. TypeOK /\ [Next]_vars => TypeOK'
  BY TypeStep
<1> QED
  BY <1>1, <1>2, PTL DEF Spec

\* The advisory lock serializes createBooking, stale decisions or not.
THEOREM LockSerializes == Spec => []OneLockHolder
<1>1. Init => OneLockHolder
  BY DEF Init, OneLockHolder, HoldsLock, Idle
<1>2. TypeOK /\ OneLockHolder /\ [Next]_vars => OneLockHolder'
  BY LockStep
<1> QED
  BY <1>1, <1>2, TypeCorrect, PTL DEF Spec

\* What a transaction checked under the lock holds when it inserts.
THEOREM ChecksHoldAtInsert == FreshSpec => []ChecksStillHold
BY Inductive, PTL DEF IInv

\* Racing requests never both get a slot, unless a decision is stale.
THEOREM NoSlotTwice == FreshSpec => []NoDoubleBooking
BY Inductive, PTL DEF IInv

\* The monthly limit holds against any number of concurrent requests.
THEOREM QuotaHolds == FreshSpec => []QuotaKept
BY Inductive, PTL DEF IInv

-----------------------------------------------------------------------------
(* The grid of slots *)

\* Products keep the order of their factors.
LEMMA ProductGrows ==
  ASSUME NEW a \in Int, NEW b \in Int, NEW d \in Nat, a <= b
  PROVE  a * d <= b * d
<1>1. PICK k \in Nat : b = a + k
  <2>1. b - a \in Nat /\ b = a + (b - a)
    OBVIOUS
  <2> QED
    BY <2>1
<1>2. b * d = a * d + k * d /\ k * d \in Nat /\ a * d \in Int
  BY <1>1
<1> QED
  BY <1>2

\* Quotient and remainder are what they are meant to be.
LEMMA Quotient ==
  ASSUME NEW q \in Int, NEW d \in Nat \ {0}, NEW r \in 0..(d - 1)
  PROVE  (q * d + r) \div d = q /\ (q * d + r) % d = r
<1> DEFINE x == q * d + r
           p == x \div d
           s == x % d
<1>1. x \in Int /\ p \in Int /\ s \in 0..(d - 1) /\ x = d * p + s
  OBVIOUS
<1>2. d * p = p * d /\ p * d \in Int /\ q * d \in Int
  BY <1>1
<1> HIDE DEF p, s
<1>3. p * d < (q + 1) * d /\ q * d < (p + 1) * d
  <2>1. (q + 1) * d = q * d + d /\ (p + 1) * d = p * d + d
    BY <1>1
  <2> QED
    BY <1>1, <1>2, <2>1
<1>4. p < q + 1 /\ q < p + 1
  <2>1. ~(q + 1 <= p)
    BY <1>1, <1>3, ProductGrows
  <2>2. ~(p + 1 <= q)
    BY <1>1, <1>3, ProductGrows
  <2> QED
    BY <1>1, <2>1, <2>2
<1>5. p = q
  BY <1>1, <1>4
<1>6. s = r
  BY <1>1, <1>2, <1>5
<1> QED
  BY <1>5, <1>6 DEF p, s

\* The tick that is m minutes into a day is in that day, at that minute.
LEMMA MinuteAt ==
  ASSUME NEW day \in Nat, NEW m \in 0..(DayMinutes - 1), NEW t,
         t = (day * DayMinutes + m) * TicksPerMinute
  PROVE  t \in Nat /\ Day(t) = day /\ MinuteOfDay(t) = m
<1> DEFINE D == DayMinutes
           P == TicksPerMinute
           DP == D * P
           mP == m * P
<1>1. D \in Nat \ {0} /\ P \in Nat \ {0}
  BY AmenityAssumption
<1>2. D - 1 \in Nat /\ m \in Nat /\ m <= D - 1
  BY <1>1
<1>3. DP \in Nat /\ mP \in Nat /\ (D - 1) * P = DP - P
  BY <1>1, <1>2
<1>4. mP <= DP - P
  BY <1>1, <1>2, <1>3, ProductGrows
<1>5. DP \in Nat \ {0} /\ mP \in 0..(DP - 1)
  BY <1>1, <1>3, <1>4
<1>6. t = day * DP + mP
  BY <1>1, <1>2
<1>7. t \div DP = day
  <2> HIDE DEF DP, mP
  <2>1. (day * DP + mP) \div DP = day
    BY <1>5, Quotient
  <2> QED
    BY <1>6, <2>1
<1>8. t \div P = day * D + m
  <2> DEFINE n == day * D + m
  <2>1. n \in Int /\ t = n * P + 0
    BY <1>1, <1>2
  <2> HIDE DEF n
  <2>2. t \div P = n
    BY <1>1, <2>1, Quotient
  <2> QED
    BY <2>2 DEF n
<1>9. (day * D + m) % D = m
  BY <1>1, Quotient
<1>10. t \in Nat
  <2>1. day * DP \in Nat
    BY <1>3
  <2> QED
    BY <1>3, <1>6, <2>1
<1> QED
  BY <1>7, <1>8, <1>9, <1>10 DEF Day, MinuteOfDay

\* The two computations of the calendar agree: what availability shows as free
\* passes the checks createBooking makes of the day, the hours and the grid.
LEMMA GridIsBookable == FreeIsBookable
<1> SUFFICES ASSUME CloseTimeMinutes < DayMinutes, NEW day \in OpenDays,
                    NEW slot \in FreeSlots(day)
             PROVE  Bookable(slot[1], slot[2])
  BY DEF FreeIsBookable
<1> DEFINE start(m) == (day * DayMinutes + m) * TicksPerMinute
<1>1. PICK m \in OpenTimeMinutes..(CloseTimeMinutes - SlotMinutes) :
        /\ (m - OpenTimeMinutes) % SlotMinutes = 0
        /\ slot = <<start(m), start(m + SlotMinutes)>>
  BY DEF FreeSlots
<1>2. /\ {TicksPerMinute, DayMinutes, SlotMinutes} \subseteq Nat \ {0}
      /\ OpenTimeMinutes \in Nat /\ CloseTimeMinutes \in Nat /\ day \in Nat
  BY AmenityAssumption
<1>3. /\ m \in 0..(DayMinutes - 1) /\ m + SlotMinutes \in 0..(DayMinutes - 1)
      /\ OpenTimeMinutes <= m /\ m + SlotMinutes <= CloseTimeMinutes
  BY <1>1, <1>2
<1> DEFINE s == start(m)
           e == start(m + SlotMinutes)
<1>4. /\ s \in Nat /\ Day(s) = day /\ MinuteOfDay(s) = m
      /\ e \in Nat /\ Day(e) = day /\ MinuteOfDay(e) = m + SlotMinutes
  BY <1>2, <1>3, MinuteAt
<1>5. s < e
  <2> DEFINE a == day * DayMinutes + m
  <2>1. a \in Nat /\ a + 1 <= day * DayMinutes + (m + SlotMinutes)
    BY <1>2, <1>3
  <2>2. day * DayMinutes + (m + SlotMinutes) \in Nat
    BY <1>2, <1>3
  <2>3. (a + 1) * TicksPerMinute <= e
    <3> HIDE DEF a
    <3> QED
      BY <1>2, <2>1, <2>2, ProductGrows
  <2>4. (a + 1) * TicksPerMinute = s + TicksPerMinute
    BY <1>2, <2>1
  <2> QED
    BY <1>2, <1>4, <2>3, <2>4
<1>6. ((m + SlotMinutes) - m) % SlotMinutes = 0
  <2>1. (m + SlotMinutes) - m = 1 * SlotMinutes + 0
    BY <1>2, <1>3
  <2> QED
    BY <1>2, <2>1, Quotient
<1>7. (m - OpenTimeMinutes) % SlotMinutes = 0
  BY <1>1
<1> HIDE DEF s, e
<1>8. Bookable(s, e)
  <2>1. Day(s) = Day(e) /\ Day(s) \in OpenDays
    BY <1>4
  <2>2. OpenTimeMinutes <= MinuteOfDay(s) /\ MinuteOfDay(e) <= CloseTimeMinutes
    BY <1>3, <1>4
  <2>3. (MinuteOfDay(s) - OpenTimeMinutes) % SlotMinutes = 0
    BY <1>4, <1>7
  <2>4. (MinuteOfDay(e) - MinuteOfDay(s)) % SlotMinutes = 0
    BY <1>4, <1>6, Zenon
  <2> QED
    BY <1>5, <2>1, <2>2, <2>3, <2>4, Zenon DEF Bookable
<1> QED
  BY <1>1, <1>8 DEF s, e

\* A slot shown free can be booked, on every day the amenity opens, if it closes
\* before midnight.
THEOREM FreeSlotsAreBookable == Spec => []FreeIsBookable
BY GridIsBookable, PTL
=============================================================================
