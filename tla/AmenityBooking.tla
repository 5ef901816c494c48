--------------------------- MODULE AmenityBooking ---------------------------
(***************************************************************************)
(* The bookings of one amenity (AmenitiesService): createBooking under its *)
(* advisory lock, decide and cancel without it.                            *)
(*                                                                         *)
(* Time counts ticks, TicksPerMinute to a minute, from midnight UTC of day *)
(* 0; the alignment checks look at whole minutes only.  Each statement is  *)
(* an action: createBooking runs READ COMMITTED, so each of its reads sees *)
(* what is committed at that moment.                                       *)
(***************************************************************************)
EXTENDS Integers, FiniteSets

CONSTANTS
  Users,             \* residents who hold a unit of the community
  Bookings,          \* ids of Booking rows
  Workers,           \* HTTP requests in progress at once
  Horizon,           \* the last tick of the modelled calendar
  TicksPerMinute, DayMinutes,
  MonthOf,           \* the calendar month of each tick
  SlotMinutes, OpenTimeMinutes, CloseTimeMinutes,
  BookingWindow,     \* bookingWindowDays, in ticks
  OpenDays,          \* days on which availableDays and blackoutDates allow booking
  MaxBookingsPerMonth,
  RequiresApproval,
  Cutoff             \* the hour before startAt in which residents cannot cancel, in ticks

Ticks == 0..Horizon

ASSUME AmenityAssumption ==
  /\ IsFiniteSet(Bookings)
  /\ Horizon \in Nat
  /\ {TicksPerMinute, DayMinutes, SlotMinutes, MaxBookingsPerMonth} \subseteq Nat \ {0}
  /\ {OpenTimeMinutes, CloseTimeMinutes, BookingWindow, Cutoff} \subseteq Nat
  /\ OpenDays \subseteq Nat
  /\ RequiresApproval \in BOOLEAN

VARIABLES
  now,       \* the server's clock
  booking,   \* Booking rows
  req        \* the handler each worker is running

vars == <<now, booking, req>>

-----------------------------------------------------------------------------
ActiveStatuses == {"PENDING", "CONFIRMED"}

BookingRow ==
  [status : {"PENDING", "CONFIRMED", "REJECTED", "CANCELLED"},
   user : Users, start : Ticks, end : Ticks]

NoBooking == [status |-> "ABSENT"]

Decision == {"CONFIRMED", "REJECTED"}

Request ==
       [op : {"book"}, step : {"lock", "overlap", "quota", "insert"},
        user : Users, start : Ticks, end : Ticks]
  \cup [op : {"decide"}, booking : Bookings, to : Decision]
  \cup [op : {"cancel"}, booking : Bookings]

Idle == [op |-> "idle"]

Made(b) == booking[b] # NoBooking
Active(b) == booking[b].status \in ActiveStatuses

\* The advisory lock of the amenity is held until its transaction ends.
HoldsLock(w) == req[w].op = "book" /\ req[w].step # "lock"

Day(t) == t \div (DayMinutes * TicksPerMinute)
MinuteOfDay(t) == (t \div TicksPerMinute) % DayMinutes

Bookable_BeforeClose(s, e) ==
  /\ s < e
  /\ Day(s) = Day(e)
  /\ Day(s) \in OpenDays
  /\ OpenTimeMinutes <= MinuteOfDay(s)
  /\ MinuteOfDay(e) < CloseTimeMinutes
  /\ (MinuteOfDay(s) - OpenTimeMinutes) % SlotMinutes = 0
  /\ (MinuteOfDay(e) - MinuteOfDay(s)) % SlotMinutes = 0

\* The checks that depend on the amenity only.
Bookable(s, e) ==
  /\ s < e
  /\ Day(s) = Day(e)
  /\ Day(s) \in OpenDays
  /\ OpenTimeMinutes <= MinuteOfDay(s)
  /\ MinuteOfDay(e) <= CloseTimeMinutes
  /\ (MinuteOfDay(s) - OpenTimeMinutes) % SlotMinutes = 0
  /\ (MinuteOfDay(e) - MinuteOfDay(s)) % SlotMinutes = 0

InWindow(s) == now <= s /\ s <= now + BookingWindow

Taken_Inside(s, e) ==
  \E b \in Bookings : Active(b) /\ booking[b].start <= s /\ e <= booking[b].end

\* An active booking overlaps [s, e).
Taken(s, e) ==
  \E b \in Bookings : Active(b) /\ booking[b].start < e /\ booking[b].end > s

\* The active bookings that count against the user's limit for t's month.
Counted(u, t) ==
  {b \in Bookings : Active(b) /\ booking[b].user = u /\ MonthOf[booking[b].start] = MonthOf[t]}

-----------------------------------------------------------------------------
Init ==
  /\ now = 0
  /\ booking = [b \in Bookings |-> NoBooking]
  /\ req = [w \in Workers |-> Idle]

TimePasses ==
  /\ now < Horizon
  /\ now' = now + 1
  /\ UNCHANGED <<booking, req>>

(* createBooking *)

BeginBook(w, u, s, e) ==
  /\ req[w] = Idle
  /\ Bookable(s, e)
  /\ InWindow(s)
  /\ req' = [req EXCEPT ![w] = [op |-> "book", step |-> "lock",
                                user |-> u, start |-> s, end |-> e]]
  /\ UNCHANGED <<now, booking>>

LockAmenity(w) ==
  /\ req[w].op = "book" /\ req[w].step = "lock"
  /\ \A other \in Workers : ~HoldsLock(other)
  /\ req' = [req EXCEPT ![w].step = "overlap"]
  /\ UNCHANGED <<now, booking>>

CheckOverlap(w) ==
  /\ req[w].op = "book" /\ req[w].step = "overlap"
  /\ ~Taken(req[w].start, req[w].end)
  /\ req' = [req EXCEPT ![w].step = "quota"]
  /\ UNCHANGED <<now, booking>>

WithinQuota_OffByOne(u, t) == Cardinality(Counted(u, t)) <= MaxBookingsPerMonth

WithinQuota(u, t) == Cardinality(Counted(u, t)) < MaxBookingsPerMonth

CheckQuota(w) ==
  /\ req[w].op = "book" /\ req[w].step = "quota"
  /\ WithinQuota(req[w].user, req[w].start)
  /\ req' = [req EXCEPT ![w].step = "insert"]
  /\ UNCHANGED <<now, booking>>

\* The insert becomes visible, and the lock free, when the transaction commits.
InsertBooking(w, b) ==
  /\ req[w].op = "book" /\ req[w].step = "insert"
  /\ ~Made(b)
  /\ booking' = [booking EXCEPT ![b] =
                   [status |-> IF RequiresApproval THEN "PENDING" ELSE "CONFIRMED",
                    user |-> req[w].user, start |-> req[w].start, end |-> req[w].end]]
  /\ req' = [req EXCEPT ![w] = Idle]
  /\ UNCHANGED now

(* decide *)

BeginDecide(w, b, to) ==
  /\ req[w] = Idle
  /\ booking[b].status = "PENDING"
  /\ req' = [req EXCEPT ![w] = [op |-> "decide", booking |-> b, to |-> to]]
  /\ UNCHANGED <<now, booking>>

WriteDecision(w) ==
  /\ req[w].op = "decide"
  /\ booking' = [booking EXCEPT ![req[w].booking].status = req[w].to]
  /\ req' = [req EXCEPT ![w] = Idle]
  /\ UNCHANGED now

(* cancel, by an administrator or by the resident who booked *)

BeginCancel(w, b, isAdmin) ==
  /\ req[w] = Idle
  /\ Active(b)
  /\ isAdmin \/ booking[b].start - now >= Cutoff
  /\ req' = [req EXCEPT ![w] = [op |-> "cancel", booking |-> b]]
  /\ UNCHANGED <<now, booking>>

WriteCancel(w) ==
  /\ req[w].op = "cancel"
  /\ booking' = [booking EXCEPT ![req[w].booking].status = "CANCELLED"]
  /\ req' = [req EXCEPT ![w] = Idle]
  /\ UNCHANGED now

\* A check refuses, a statement fails, or the process dies: a transaction in
\* progress rolls back and its lock is released.
Abort(w) ==
  /\ req[w] # Idle
  /\ req' = [req EXCEPT ![w] = Idle]
  /\ UNCHANGED <<now, booking>>

-----------------------------------------------------------------------------
Handler(w) ==
  \/ \E u \in Users, s, e \in Ticks : BeginBook(w, u, s, e)
  \/ LockAmenity(w) \/ CheckOverlap(w) \/ CheckQuota(w)
  \/ \E b \in Bookings : InsertBooking(w, b)
  \/ \E b \in Bookings, to \in Decision : BeginDecide(w, b, to)
  \/ WriteDecision(w)
  \/ \E b \in Bookings, isAdmin \in BOOLEAN : BeginCancel(w, b, isAdmin)
  \/ WriteCancel(w)
  \/ Abort(w)

Next == TimePasses \/ \E w \in Workers : Handler(w)

Spec == Init /\ [][Next]_vars

\* No decision is written over a booking that left PENDING after decide read it.
FreshDecisions ==
  \A w \in Workers : req[w].op = "decide" => booking[req[w].booking].status = "PENDING"

\* Bookings and cancellations race freely, stale decisions apart.
FreshSpec == Init /\ [][Next /\ FreshDecisions']_vars

-----------------------------------------------------------------------------
(* Properties *)

\* A handler that decides or cancels works on a row that exists.
References ==
  \A w \in Workers : req[w].op \in {"decide", "cancel"} => Made(req[w].booking)

\* Every variable has its type, and a request refers to a booking that exists.
TypeOK ==
  /\ now \in Ticks
  /\ booking \in [Bookings -> BookingRow \cup {NoBooking}]
  /\ req \in [Workers -> Request \cup {Idle}]
  /\ References

\* The lock serializes createBooking: one transaction past it at a time.
OneLockHolder ==
  \A w1, w2 \in Workers : HoldsLock(w1) /\ HoldsLock(w2) => w1 = w2

\* What the lock holder has checked still holds, though decide and cancel do
\* not wait for its lock.
ChecksStillHold ==
  \A w \in Workers :
     req[w].op = "book" =>
        /\ req[w].step \in {"quota", "insert"} => ~Taken(req[w].start, req[w].end)
        /\ req[w].step = "insert" => WithinQuota(req[w].user, req[w].start)

\* "Two racing requests can never both succeed": no two active bookings share a
\* moment of the amenity.
NoDoubleBooking ==
  \A b1, b2 \in Bookings :
     /\ b1 # b2 /\ Active(b1) /\ Active(b2)
     => booking[b1].end <= booking[b2].start \/ booking[b2].end <= booking[b1].start

\* Nobody holds more active bookings in a month than the amenity allows, however
\* many requests of theirs run at once.
QuotaKept ==
  \A b \in Bookings :
     Active(b) =>
       Cardinality(Counted(booking[b].user, booking[b].start)) <= MaxBookingsPerMonth

\* The inductive invariant behind the theorems of AmenityBookingProofs.
IInv ==
  /\ TypeOK
  /\ FreshDecisions
  /\ OneLockHolder
  /\ ChecksStillHold
  /\ NoDoubleBooking
  /\ QuotaKept

\* availability: the slots of a day that its grid shows as free.
FreeSlots(day) ==
  LET start(m) == (day * DayMinutes + m) * TicksPerMinute
  IN {<<start(m), start(m + SlotMinutes)>> :
        m \in {m \in OpenTimeMinutes..(CloseTimeMinutes - SlotMinutes) :
                 /\ (m - OpenTimeMinutes) % SlotMinutes = 0
                 /\ ~Taken(start(m), start(m + SlotMinutes))}}

\* A slot shown free on a day the amenity opens passes createBooking's own checks
\* of days, hours and alignment, which it computes apart, if it closes before midnight.
FreeIsBookable ==
  CloseTimeMinutes < DayMinutes =>
    \A day \in OpenDays : \A slot \in FreeSlots(day) : Bookable(slot[1], slot[2])
=============================================================================
