----------------------------- MODULE Household -----------------------------
(***************************************************************************)
(* A unit with its residents (Occupancy) and their parking: ParkingService *)
(* over Vehicle and ParkingAllocation.  Residents register vehicles on the *)
(* strength of an occupancy; administrators hand out the slots.            *)
(*                                                                         *)
(* A Vehicle row is identified by its plate, which is unique in the        *)
(* community.  Allocations that have ended are forgotten: a deallocation   *)
(* that was about one then writes to a row nobody reads, and is over.      *)
(***************************************************************************)
EXTENDS Occupancy

CONSTANTS
  Plates,
  Slots,
  TwoWheelers   \* the plates and the slots of two-wheelers

ASSUME HouseholdAssumption == TwoWheelers \subseteq Plates \cup Slots

VARIABLES
  vehicle,      \* state of each plate's Vehicle row
  held,         \* active ParkingAllocation rows: pairs <<slot, plate>>
  contested     \* history: plates on which a commit was decided on an old read

parkVars == <<vehicle, held, contested>>
vars == <<occVars, parkVars, req>>

ParkingRequest ==
       [op : {"register"}, plate : Plates]
  \cup [op : {"deactivate"}, plate : Plates, fresh : Fresh]
  \cup [op : {"allocate"}, slot : Slots, plate : Plates, fresh : Fresh]
  \cup [op : {"deallocate"}, slot : Slots, plate : Plates]

Init ==
  /\ OccupancyInit
  /\ vehicle = [v \in Plates |-> "absent"]
  /\ held = {}
  /\ contested = {}
  /\ req = [w \in Workers |-> Idle]

SlotsOf(v) == {s \in Slots : <<s, v>> \in held}
HoldersOf(s) == {v \in Plates : <<s, v>> \in held}

\* A commit that decides whether v is, or may be, parked.
CommitOnPlate(w, v) ==
  /\ contested' = IF req[w].fresh = "yes" THEN contested ELSE contested \cup {v}
  /\ req' = [x \in Workers |->
               IF x = w THEN Idle
               ELSE IF req[x].op \in {"deactivate", "allocate"} /\ req[x].plate = v
                    THEN [req[x] EXCEPT !.fresh = "no"] ELSE req[x]]

-----------------------------------------------------------------------------
(* registerVehicle *)

\* A resident needs an active occupancy, an administrator none; a plate that
\* has a row, active or not, is refused.
BeginRegister(w, v) ==
  /\ req[w] = Idle
  /\ vehicle[v] = "absent"
  /\ req' = [req EXCEPT ![w] = [op |-> "register", plate |-> v]]
  /\ UNCHANGED <<occVars, parkVars>>

RegisterOwn(w, p, v) == Lives(p) /\ BeginRegister(w, v)
RegisterForUnit(w, v) == BeginRegister(w, v)

\* The unique index refuses the second insert of a plate.
CommitRegister(w) ==
  /\ req[w].op = "register"
  /\ vehicle[req[w].plate] = "absent"
  /\ vehicle' = [vehicle EXCEPT ![req[w].plate] = "active"]
  /\ req' = [req EXCEPT ![w] = Idle]
  /\ UNCHANGED <<occVars, held, contested>>

-----------------------------------------------------------------------------
(* deactivateVehicle: two statements, no transaction *)

\* A request about to end an allocation that is over has nothing left to do.
Over(r, gone) == r.op = "deallocate" /\ <<r.slot, r.plate>> \in gone

EndAllocations_Later(w, v) ==
  /\ req[w] = Idle
  /\ vehicle[v] # "absent"
  /\ req' = [req EXCEPT ![w] = [op |-> "deactivate", plate |-> v, fresh |-> "yes"]]
  /\ UNCHANGED <<occVars, parkVars>>

EndAllocations(w, v) ==
  /\ req[w] = Idle
  /\ vehicle[v] # "absent"
  /\ LET gone == {<<s, v>> : s \in SlotsOf(v)} IN
       /\ held' = held \ gone
       /\ req' = [x \in Workers |->
                    IF x = w THEN [op |-> "deactivate", plate |-> v, fresh |-> "yes"]
                    ELSE IF Over(req[x], gone) THEN Idle ELSE req[x]]
  /\ UNCHANGED <<occVars, vehicle, contested>>

WriteInactive(w) ==
  /\ req[w].op = "deactivate"
  /\ vehicle' = [vehicle EXCEPT ![req[w].plate] = "inactive"]
  /\ CommitOnPlate(w, req[w].plate)
  /\ UNCHANGED <<occVars, held>>

-----------------------------------------------------------------------------
(* allocateSlot: a transaction under an advisory lock on the slot *)

SlotLocked_Never(s) == FALSE

SlotLocked(s) == \E w \in Workers : req[w].op = "allocate" /\ req[w].slot = s

Fits(s, v) == s \in TwoWheelers => v \in TwoWheelers

BeginAllocate(w, s, v) ==
  /\ req[w] = Idle
  /\ ~SlotLocked(s)
  /\ vehicle[v] = "active"
  /\ Fits(s, v)
  /\ HoldersOf(s) = {}
  /\ SlotsOf(v) = {}
  /\ req' = [req EXCEPT ![w] = [op |-> "allocate", slot |-> s, plate |-> v, fresh |-> "yes"]]
  /\ UNCHANGED <<occVars, parkVars>>

CommitAllocate(w) ==
  /\ req[w].op = "allocate"
  /\ held' = held \cup {<<req[w].slot, req[w].plate>>}
  /\ CommitOnPlate(w, req[w].plate)
  /\ UNCHANGED <<occVars, vehicle>>

-----------------------------------------------------------------------------
(* deallocateSlot *)

BeginDeallocate(w, s) ==
  /\ req[w] = Idle
  /\ \E v \in HoldersOf(s) :
       req' = [req EXCEPT ![w] = [op |-> "deallocate", slot |-> s, plate |-> v]]
  /\ UNCHANGED <<occVars, parkVars>>

WriteDeallocate(w) ==
  /\ req[w].op = "deallocate"
  /\ LET gone == {<<req[w].slot, req[w].plate>>} IN
       /\ held' = held \ gone
       /\ req' = [x \in Workers |-> IF x = w \/ Over(req[x], gone) THEN Idle ELSE req[x]]
  /\ UNCHANGED <<occVars, vehicle, contested>>

-----------------------------------------------------------------------------
\* An error path, or a process that dies: open transactions roll back, and of
\* deactivateVehicle the ended allocations stay.
Abort(w) ==
  /\ req[w] # Idle
  /\ req' = [req EXCEPT ![w] = Idle]
  /\ UNCHANGED <<occVars, parkVars>>

ParkingStep(w) ==
  \/ \E v \in Plates :
       \/ RegisterForUnit(w, v)
       \/ \E p \in Residents : RegisterOwn(w, p, v)
       \/ EndAllocations(w, v)
       \/ \E s \in Slots : BeginAllocate(w, s, v)
  \/ \E s \in Slots : BeginDeallocate(w, s)
  \/ CommitRegister(w)
  \/ WriteInactive(w)
  \/ CommitAllocate(w)
  \/ WriteDeallocate(w)
  \/ Abort(w)

Next ==
  \/ OccupancyStep /\ UNCHANGED parkVars
  \/ \E w \in Workers : ParkingStep(w)

Spec == Init /\ [][Next]_vars

-----------------------------------------------------------------------------
(* Properties *)

\* Every variable keeps its type.
TypeOK ==
  /\ OccupancyTypeOK
  /\ vehicle \in [Plates -> {"absent", "active", "inactive"}]
  /\ held \subseteq Slots \X Plates
  /\ contested \subseteq Plates
  /\ req \in [Workers -> OccupancyRequest \cup ParkingRequest \cup {Idle}]

\* The unit's status, which addResident derives and endOccupancy only carries
\* over, says VACANT exactly when nobody lives there and TENANT_OCCUPIED while
\* a tenant does, unless two commits overlapped or it was set by hand.
StatusFollowsOccupants ==
  drift = "no" =>
    /\ unit = "VACANT" <=> \A p \in Residents : ~Lives(p)
    /\ (\E p \in Residents : occ[p] = "TENANT") => unit = "TENANT_OCCUPIED"

\* Whatever overlaps, a slot has one active allocation (the advisory lock of
\* allocateSlot), and of the right kind of vehicle.
OneVehiclePerSlot ==
  \A s \in Slots :
     /\ \A u, v \in HoldersOf(s) : u = v
     /\ \A v \in HoldersOf(s) : Fits(s, v)

\* allocateSlot promises one active allocation per vehicle, and deactivateVehicle
\* leaves none to a vehicle it retires.  Neither locks the vehicle: it holds
\* unless a commit was decided on an older state of the vehicle.
VehicleParksOnce ==
  \A v \in Plates \ contested :
     /\ \A s, t \in SlotsOf(v) : s = t
     /\ vehicle[v] # "active" => SlotsOf(v) = {}
=============================================================================
