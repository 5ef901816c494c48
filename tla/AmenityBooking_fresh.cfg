CONSTANTS
  Users = {u1, u2}
  Bookings = {b1, b2}
  Workers = {w1, w2}
  Horizon = 9
  TicksPerMinute = 1
  DayMinutes = 6
  MonthOf <- Months
  SlotMinutes = 2
  OpenTimeMinutes = 1
  CloseTimeMinutes = 5
  BookingWindow = 7
  OpenDays <- BothDays
  MaxBookingsPerMonth = 1
  RequiresApproval = TRUE
  Cutoff = 2
SYMMETRY Symmetry
SPECIFICATION FreshSpec
INVARIANTS
  NoDoubleBooking
  QuotaKept
  FreeIsBookable
CHECK_DEADLOCK FALSE
