-------------------------- MODULE MCAmenityBooking --------------------------
(* The TLC instance of AmenityBooking: two days of six minutes, each in its   *)
(* own month, open for two slots of two minutes that start at minute 1.       *)
EXTENDS AmenityBooking, TLC

Months == [t \in Ticks |-> Day(t)]

BothDays == {0, 1}

Symmetry ==
  Permutations(Users) \cup Permutations(Bookings) \cup Permutations(Workers)
=============================================================================
