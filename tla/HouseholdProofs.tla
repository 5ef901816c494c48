-------------------------- MODULE HouseholdProofs --------------------------
(***************************************************************************)
(* Theorems about Household for any sets of residents, plates, slots and   *)
(* concurrent requests.                                                    *)
(*                                                                         *)
(* A handler decides on what it has read and writes later, so each         *)
(* invariant needs to say what a request still knows: UnitRequests and     *)
(* ParkRequests tie the fields of the open requests to the tables.         *)
(***************************************************************************)
EXTENDS Household, TLAPS

-----------------------------------------------------------------------------
(* Types *)

\* The fields a request about the unit carries, by the handler.
LEMMA UnitFields ==
  ASSUME TypeOK, NEW w \in Workers
  PROVE  /\ AboutUnit(req[w]) => req[w].resident \in Residents /\ req[w].fresh \in Fresh
         /\ req[w].op = "add" => req[w].kind \in Kinds
         /\ req[w].op \in {"add", "leaving"} => req[w].to \in UnitStatus
         /\ req[w].op = "leave" => req[w].read \in UnitStatus
         /\ AboutUnit(req[w]) => req[w] \in OccupancyRequest
         /\ AboutUnit(req[w]) => [req[w] EXCEPT !.fresh = "no"] \in OccupancyRequest
<1>1. req[w] \in OccupancyRequest \cup ParkingRequest \cup {Idle}
  BY DEF TypeOK
<1> QED
  BY <1>1 DEF OccupancyRequest, ParkingRequest, Idle, AboutUnit, Fresh

\* The fields a request about parking carries.
LEMMA ParkFields ==
  ASSUME TypeOK, NEW w \in Workers
  PROVE  /\ req[w].op \in {"register", "deactivate", "allocate", "deallocate"} => req[w].plate \in Plates
         /\ req[w].op \in {"allocate", "deallocate"} => req[w].slot \in Slots
         /\ req[w].op \in {"deactivate", "allocate"} =>
              req[w].fresh \in Fresh /\ [req[w] EXCEPT !.fresh = "no"] \in ParkingRequest
<1>1. req[w] \in OccupancyRequest \cup ParkingRequest \cup {Idle}
  BY DEF TypeOK
<1> QED
  BY <1>1 DEF OccupancyRequest, ParkingRequest, Idle, Fresh

\* What the handlers derive is a unit status.
LEMMA DerivedStatus ==
  ASSUME NEW K
  PROVE  Derived(K) \in UnitStatus
BY DEF Derived, UnitStatus

\* A commit on the unit keeps the requests well formed.
LEMMA CommitOnUnitTypes ==
  ASSUME TypeOK, NEW w \in Workers, CommitOnUnit(w)
  PROVE  req' \in [Workers -> OccupancyRequest \cup ParkingRequest \cup {Idle}]
BY UnitFields DEF CommitOnUnit, TypeOK

\* So does one on a plate.
LEMMA CommitOnPlateTypes ==
  ASSUME TypeOK, NEW w \in Workers, NEW v \in Plates, CommitOnPlate(w, v)
  PROVE  /\ req' \in [Workers -> OccupancyRequest \cup ParkingRequest \cup {Idle}]
         /\ contested' \subseteq Plates
BY ParkFields DEF CommitOnPlate, TypeOK

\* One step of the unit's handlers preserves the types.
LEMMA OccupancyTypes ==
  ASSUME TypeOK, OccupancyStep, UNCHANGED parkVars
  PROVE  TypeOK'
<1> USE DEF TypeOK, OccupancyTypeOK
<1>0. vehicle' = vehicle /\ held' = held /\ contested' = contested
  BY DEF parkVars
<1>1. ASSUME NEW w \in Workers, NEW p \in Residents, BeginEnd(w, p)
      PROVE  TypeOK'
  <2>1. [op |-> "leave", resident |-> p, read |-> unit, fresh |-> "yes"] \in OccupancyRequest
    BY DEF OccupancyRequest, Fresh
  <2> QED
    BY <1>0, <1>1, <2>1 DEF BeginEnd, occVars
<1>2. ASSUME NEW w \in Workers, NEW p \in Residents, NEW k \in Kinds, BeginAdd(w, p, k)
      PROVE  TypeOK'
  <2>1. [op |-> "add", resident |-> p, kind |-> k,
         to |-> Derived(KindsWithout(p) \cup {k}), fresh |-> "yes"] \in OccupancyRequest
    BY DerivedStatus DEF OccupancyRequest, Fresh
  <2> QED
    BY <1>0, <1>2, <2>1 DEF BeginAdd, occVars
<1>3. ASSUME NEW w \in Workers, CommitAdd(w)
      PROVE  TypeOK'
  <2>1. req[w].resident \in Residents /\ req[w].kind \in Kinds /\ req[w].to \in UnitStatus
    BY <1>3, UnitFields DEF CommitAdd, AboutUnit
  <2>2. RoleAttached(req[w].resident, req[w].kind) \in Kinds \cup {"none"}
    BY <2>1 DEF RoleAttached
  <2> QED
    BY <1>0, <1>3, <2>1, <2>2, CommitOnUnitTypes DEF CommitAdd
<1>4. ASSUME NEW w \in Workers, CountRemaining(w)
      PROVE  TypeOK'
  <2>1. req[w].resident \in Residents /\ req[w].read \in UnitStatus /\ req[w].fresh \in Fresh
    BY <1>4, UnitFields DEF CountRemaining, AboutUnit
  <2>2. AfterLeaving(req[w].resident, req[w].read) \in UnitStatus
    BY <2>1 DEF AfterLeaving, UnitStatus
  <2>3. [op |-> "leaving", resident |-> req[w].resident,
         to |-> AfterLeaving(req[w].resident, req[w].read), fresh |-> req[w].fresh] \in OccupancyRequest
    BY <2>1, <2>2 DEF OccupancyRequest
  <2> QED
    BY <1>0, <1>4, <2>3 DEF CountRemaining, occVars
<1>5. ASSUME NEW w \in Workers, CommitEnd(w)
      PROVE  TypeOK'
  <2>1. req[w].resident \in Residents /\ req[w].to \in UnitStatus
    BY <1>5, UnitFields DEF CommitEnd, AboutUnit
  <2>2. drift' \in {"yes", "no"}
    BY <1>5 DEF CommitEnd
  <2> QED
    BY <1>0, <1>5, <2>1, <2>2, CommitOnUnitTypes DEF CommitEnd
<1>6. ASSUME NEW s \in Patches, UpdateUnit(s)
      PROVE  TypeOK'
  <2>1. req' \in [Workers -> OccupancyRequest \cup ParkingRequest \cup {Idle}]
    BY <1>6, UnitFields DEF UpdateUnit
  <2> QED
    BY <1>0, <1>6, <2>1, OccupancyAssumption DEF UpdateUnit
<1> QED
  BY <1>1, <1>2, <1>3, <1>4, <1>5, <1>6 DEF OccupancyStep

\* One step of the parking handlers preserves the types.
LEMMA ParkingTypes ==
  ASSUME TypeOK, NEW w \in Workers, ParkingStep(w)
  PROVE  TypeOK'
<1> USE DEF TypeOK, OccupancyTypeOK, occVars, parkVars
<1>1. ASSUME NEW v \in Plates, BeginRegister(w, v)
      PROVE  TypeOK'
  BY <1>1 DEF BeginRegister, ParkingRequest
<1>2. ASSUME NEW v \in Plates, EndAllocations(w, v)
      PROVE  TypeOK'
  <2>1. [op |-> "deactivate", plate |-> v, fresh |-> "yes"] \in ParkingRequest
    BY DEF ParkingRequest, Fresh
  <2> QED
    BY <1>2, <2>1 DEF EndAllocations
<1>3. ASSUME NEW v \in Plates, NEW s \in Slots, BeginAllocate(w, s, v)
      PROVE  TypeOK'
  <2>1. [op |-> "allocate", slot |-> s, plate |-> v, fresh |-> "yes"] \in ParkingRequest
    BY DEF ParkingRequest, Fresh
  <2> QED
    BY <1>3, <2>1 DEF BeginAllocate
<1>4. ASSUME NEW s \in Slots, BeginDeallocate(w, s)
      PROVE  TypeOK'
  <2>1. PICK v \in Plates :
          req' = [req EXCEPT ![w] = [op |-> "deallocate", slot |-> s, plate |-> v]]
    BY <1>4 DEF BeginDeallocate, HoldersOf
  <2>2. [op |-> "deallocate", slot |-> s, plate |-> v] \in ParkingRequest
    BY DEF ParkingRequest
  <2> QED
    BY <1>4, <2>1, <2>2 DEF BeginDeallocate
<1>5. CASE CommitRegister(w)
  BY <1>5, ParkFields DEF CommitRegister
<1>6. CASE WriteInactive(w)
  BY <1>6, ParkFields, CommitOnPlateTypes DEF WriteInactive
<1>7. CASE CommitAllocate(w)
  <2>1. req[w].slot \in Slots /\ req[w].plate \in Plates
    BY <1>7, ParkFields DEF CommitAllocate
  <2>2. held' \subseteq Slots \X Plates
    BY <1>7, <2>1 DEF CommitAllocate
  <2>3. /\ req' \in [Workers -> OccupancyRequest \cup ParkingRequest \cup {Idle}]
        /\ contested' \subseteq Plates
    BY <1>7, <2>1, CommitOnPlateTypes DEF CommitAllocate
  <2> QED
    BY <1>7, <2>2, <2>3 DEF CommitAllocate
<1>8. CASE WriteDeallocate(w)
  BY <1>8 DEF WriteDeallocate
<1>9. CASE Abort(w)
  BY <1>9 DEF Abort
<1> QED
  BY <1>1, <1>2, <1>3, <1>4, <1>5, <1>6, <1>7, <1>8, <1>9
     DEF ParkingStep, RegisterOwn, RegisterForUnit

LEMMA TypeStep ==
  ASSUME TypeOK, [Next]_vars
  PROVE  TypeOK'
<1>1. CASE UNCHANGED vars
  BY <1>1 DEF vars, occVars, parkVars, TypeOK, OccupancyTypeOK
<1> QED
  BY <1>1, OccupancyTypes, ParkingTypes DEF Next

LEMMA TypeInit == Init => TypeOK
BY DEF Init, OccupancyInit, TypeOK, OccupancyTypeOK, UnitStatus

-----------------------------------------------------------------------------
(* The status of the unit *)

\* What a request about the unit still knows: its resident is out until it is
\* added, and, while nothing was committed on the unit since, what it read is so.
UnitRequest(r) ==
  /\ r.op = "add" => ~Lives(r.resident)
  /\ r.op = "add" /\ r.fresh = "yes" => r.to = Derived(KindsWithout(r.resident) \cup {r.kind})
  /\ r.op = "leave" /\ r.fresh = "yes" => r.read = unit
  /\ r.op = "leaving" /\ r.fresh = "yes" => r.to = AfterLeaving(r.resident, unit)

UnitRequests == \A w \in Workers : UnitRequest(req[w])

\* Nobody else is about to add or remove a resident who is being added.
AddsAlone ==
  \A w, x \in Workers :
     w # x /\ req[w].op = "add" /\ AboutUnit(req[x]) => req[x].resident # req[w].resident

UnitInv == StatusFollowsOccupants /\ UnitRequests /\ AddsAlone

\* A step that leaves the unit, its occupants and the requests about it alone.
LEMMA UnitUntouched ==
  ASSUME UnitInv, UNCHANGED occVars,
         \A w \in Workers : AboutUnit(req'[w]) => req'[w] = req[w]
  PROVE  UnitInv'
<1> USE DEF occVars
<1>1. StatusFollowsOccupants'
  BY DEF UnitInv, StatusFollowsOccupants, Lives
<1>2. ASSUME NEW w \in Workers
      PROVE  UnitRequest(req[w])'
  <2>1. CASE AboutUnit(req'[w])
    <3>1. req'[w] = req[w] /\ UnitRequest(req[w])
      BY <2>1 DEF UnitInv, UnitRequests
    <3>2. KindsWithout(req[w].resident)' = KindsWithout(req[w].resident)
      BY <3>1 DEF KindsWithout, Lives
    <3> QED
      BY <3>1, <3>2 DEF UnitRequest, Lives, AfterLeaving
  <2>2. CASE ~AboutUnit(req'[w])
    BY <2>2 DEF UnitRequest, AboutUnit
  <2> QED
    BY <2>1, <2>2
<1>3. AddsAlone'
  BY DEF UnitInv, AddsAlone, AboutUnit
<1> QED
  BY <1>1, <1>2, <1>3 DEF UnitInv, UnitRequests

\* Parking does none of that.
LEMMA ParkingLeavesUnit ==
  ASSUME TypeOK, UnitInv, NEW w \in Workers, ParkingStep(w)
  PROVE  UnitInv'
<1>1. UNCHANGED occVars
  BY DEF ParkingStep, RegisterOwn, RegisterForUnit, BeginRegister, EndAllocations, BeginAllocate,
         BeginDeallocate, CommitRegister, WriteInactive, CommitAllocate, WriteDeallocate, Abort
<1> SUFFICES ASSUME NEW x \in Workers, AboutUnit(req'[x])
             PROVE  req'[x] = req[x]
  BY <1>1, UnitUntouched
<1> USE DEF TypeOK, AboutUnit, Idle
<1>2. ASSUME NEW v \in Plates, BeginRegister(w, v)
      PROVE  req'[x] = req[x]
  BY <1>2 DEF BeginRegister
<1>3. ASSUME NEW v \in Plates, EndAllocations(w, v)
      PROVE  req'[x] = req[x]
  BY <1>3 DEF EndAllocations
<1>4. ASSUME NEW v \in Plates, NEW s \in Slots, BeginAllocate(w, s, v)
      PROVE  req'[x] = req[x]
  BY <1>4 DEF BeginAllocate
<1>5. ASSUME NEW s \in Slots, BeginDeallocate(w, s)
      PROVE  req'[x] = req[x]
  BY <1>5 DEF BeginDeallocate
<1>6. CASE CommitRegister(w) \/ Abort(w) \/ WriteDeallocate(w)
  BY <1>6 DEF CommitRegister, Abort, WriteDeallocate
<1>7. CASE WriteInactive(w) \/ CommitAllocate(w)
  <2>1. PICK v : CommitOnPlate(w, v)
    BY <1>7 DEF WriteInactive, CommitAllocate
  <2>2. req[x].op \in {"deactivate", "allocate"} =>
          req[x] \in ParkingRequest /\ [req[x] EXCEPT !.fresh = "no"] \in ParkingRequest
    BY ParkFields DEF OccupancyRequest, ParkingRequest
  <2> QED
    BY <2>1, <2>2 DEF CommitOnPlate, ParkingRequest
<1> QED
  BY <1>2, <1>3, <1>4, <1>5, <1>6, <1>7 DEF ParkingStep, RegisterOwn, RegisterForUnit

\* After a commit on the unit no open request takes its reads for current.
LEMMA CommitAges ==
  ASSUME TypeOK, NEW w \in Workers, CommitOnUnit(w), NEW x \in Workers, AboutUnit(req'[x])
  PROVE  /\ x # w /\ AboutUnit(req[x])
         /\ req'[x].op = req[x].op /\ req'[x].resident = req[x].resident
         /\ req'[x].fresh = "no"
<1>1. x # w
  BY DEF CommitOnUnit, AboutUnit, Idle
<1>2. AboutUnit(req[x]) /\ req'[x] = [req[x] EXCEPT !.fresh = "no"]
  BY <1>1 DEF CommitOnUnit
<1>3. req[x] \in OccupancyRequest
  BY <1>2, UnitFields
<1> QED
  BY <1>1, <1>2, <1>3 DEF OccupancyRequest

\* The status a lone move-in derives is the one its occupants call for.
LEMMA AddFollows ==
  ASSUME TypeOK, UnitInv, NEW w \in Workers, CommitAdd(w)
  PROVE  UnitInv'
<1> DEFINE p == req[w].resident
           k == req[w].kind
<1>1. p \in Residents /\ k \in Kinds /\ req[w].fresh \in Fresh
  BY UnitFields DEF CommitAdd, AboutUnit
<1>2. occ' = [occ EXCEPT ![p] = k] /\ unit' = req[w].to /\ occ \in [Residents -> Kinds \cup {"none"}]
  BY DEF CommitAdd, TypeOK, OccupancyTypeOK
<1>3. "none" \notin Kinds
  BY OccupancyAssumption
<1>4. UnitRequest(req[w]) /\ req[w].op = "add"
  BY DEF UnitInv, UnitRequests, CommitAdd
<1>5. StatusFollowsOccupants'
  <2> SUFFICES ASSUME drift' = "no"
               PROVE  /\ unit' = "VACANT" <=> \A q \in Residents : ~Lives(q)'
                      /\ (\E q \in Residents : occ'[q] = "TENANT") => unit' = "TENANT_OCCUPIED"
    BY DEF StatusFollowsOccupants
  <2>1. req[w].fresh = "yes"
    BY <1>1 DEF CommitAdd, Fresh
  <2>2. unit' = Derived(KindsWithout(p) \cup {k})
    BY <1>2, <1>4, <2>1 DEF UnitRequest
  <2>3. occ'[p] # "none"
    BY <1>1, <1>2, <1>3
  <2>4. unit' # "VACANT"
    BY <2>2 DEF Derived
  <2>5. ASSUME NEW q \in Residents, occ'[q] = "TENANT"
        PROVE  "TENANT" \in KindsWithout(p) \cup {k}
    <3>1. CASE q = p
      BY <1>1, <1>2, <2>5, <3>1
    <3>2. CASE q # p
      BY <1>1, <1>2, <2>5, <3>2 DEF KindsWithout, Lives
    <3> QED
      BY <3>1, <3>2
  <2>6. ~ \A q \in Residents : ~Lives(q)'
    BY <1>1, <2>3 DEF Lives
  <2>7. (\E q \in Residents : occ'[q] = "TENANT") => unit' = "TENANT_OCCUPIED"
    BY <2>2, <2>5 DEF Derived
  <2> QED
    BY <2>4, <2>6, <2>7
<1>6. UnitRequests'
  <2> SUFFICES ASSUME NEW x \in Workers, AboutUnit(req'[x])
               PROVE  UnitRequest(req[x])'
    BY DEF UnitRequests, UnitRequest, AboutUnit
  <2>1. /\ x # w /\ AboutUnit(req[x]) /\ req'[x].fresh = "no"
        /\ req'[x].op = req[x].op /\ req'[x].resident = req[x].resident
    BY CommitAges DEF CommitAdd
  <2>2. req[x].resident # p
    BY <1>4, <2>1 DEF UnitInv, AddsAlone
  <2>3. req[x].resident \in Residents
    BY <2>1, UnitFields
  <2>4. req[x].op = "add" => ~Lives(req[x].resident)
    BY DEF UnitInv, UnitRequests, UnitRequest
  <2>5. occ'[req[x].resident] = occ[req[x].resident]
    BY <1>1, <1>2, <2>1, <2>2, <2>3
  <2> QED
    BY <2>1, <2>4, <2>5 DEF UnitRequest, Lives
<1>7. AddsAlone'
  BY CommitAges DEF UnitInv, AddsAlone, CommitAdd, AboutUnit
<1> QED
  BY <1>5, <1>6, <1>7 DEF UnitInv

\* The status a lone move-out carries over still fits those who remain.
LEMMA EndFollows ==
  ASSUME TypeOK, UnitInv, NEW w \in Workers, CommitEnd(w)
  PROVE  UnitInv'
<1> DEFINE p == req[w].resident
<1>1. p \in Residents /\ req[w].fresh \in Fresh
  BY UnitFields DEF CommitEnd, AboutUnit
<1>2. occ' = [occ EXCEPT ![p] = "none"] /\ unit' = req[w].to /\ occ \in [Residents -> Kinds \cup {"none"}]
  BY DEF CommitEnd, TypeOK, OccupancyTypeOK
<1>3. "none" \notin Kinds
  BY OccupancyAssumption
<1>4. UnitRequest(req[w]) /\ req[w].op = "leaving"
  BY DEF UnitInv, UnitRequests, CommitEnd
<1>5. StatusFollowsOccupants'
  <2> SUFFICES ASSUME drift' = "no"
               PROVE  /\ unit' = "VACANT" <=> \A q \in Residents : ~Lives(q)'
                      /\ (\E q \in Residents : occ'[q] = "TENANT") => unit' = "TENANT_OCCUPIED"
    BY DEF StatusFollowsOccupants
  <2>1. req[w].fresh = "yes"
    BY <1>1 DEF CommitEnd, Fresh
  <2>2. unit' = AfterLeaving(p, unit)
    BY <1>2, <1>4, <2>1 DEF UnitRequest
  <2>3. ASSUME NEW q \in Residents
        PROVE  Lives(q)' <=> q # p /\ Lives(q)
    BY <1>1, <1>2 DEF Lives
  <2>4. KindsWithout(p) = {} <=> \A q \in Residents : ~Lives(q)'
    BY <2>3 DEF KindsWithout
  <2>5. CASE KindsWithout(p) = {}
    BY <2>2, <2>4, <2>5, <1>2 DEF AfterLeaving, Lives
  <2>6. CASE KindsWithout(p) # {}
    <3>1. drift = "no" /\ unit' = unit
      BY <2>1, <2>2, <2>6 DEF CommitEnd, AfterLeaving
    <3>2. PICK q \in Residents : Lives(q) /\ Lives(q)'
      BY <2>3, <2>4, <2>6
    <3>3. unit # "VACANT"
      BY <3>1, <3>2 DEF UnitInv, StatusFollowsOccupants
    <3>4. ASSUME NEW r \in Residents, occ'[r] = "TENANT"
          PROVE  occ[r] = "TENANT"
      BY <1>1, <1>2, <3>4
    <3> QED
      BY <3>1, <3>2, <3>3, <3>4 DEF UnitInv, StatusFollowsOccupants
  <2> QED
    BY <2>5, <2>6
<1>6. UnitRequests'
  <2> SUFFICES ASSUME NEW x \in Workers, AboutUnit(req'[x])
               PROVE  UnitRequest(req[x])'
    BY DEF UnitRequests, UnitRequest, AboutUnit
  <2>1. /\ AboutUnit(req[x]) /\ req'[x].fresh = "no"
        /\ req'[x].op = req[x].op /\ req'[x].resident = req[x].resident
    BY CommitAges DEF CommitEnd
  <2>2. req[x].resident \in Residents
    BY <2>1, UnitFields
  <2>3. req[x].op = "add" => ~Lives(req[x].resident)
    BY DEF UnitInv, UnitRequests, UnitRequest
  <2> QED
    BY <2>1, <2>2, <2>3, <1>1, <1>2 DEF UnitRequest, Lives
<1>7. AddsAlone'
  BY CommitAges DEF UnitInv, AddsAlone, CommitEnd, AboutUnit
<1> QED
  BY <1>5, <1>6, <1>7 DEF UnitInv

\* A status set by hand makes no claim, and every read old.
LEMMA PatchFollows ==
  ASSUME TypeOK, UnitInv, NEW s \in Patches, UpdateUnit(s)
  PROVE  UnitInv'
<1>1. ASSUME NEW x \in Workers
      PROVE  /\ AboutUnit(req'[x]) <=> AboutUnit(req[x])
             /\ AboutUnit(req[x]) => /\ req'[x].op = req[x].op /\ req'[x].resident = req[x].resident
                                     /\ req'[x].fresh = "no"
  <2>1. CASE AboutUnit(req[x])
    <3>1. req'[x] = [req[x] EXCEPT !.fresh = "no"] /\ req[x] \in OccupancyRequest
      BY <2>1, UnitFields DEF UpdateUnit
    <3> QED
      BY <2>1, <3>1 DEF OccupancyRequest, AboutUnit
  <2>2. CASE ~AboutUnit(req[x])
    BY <2>2 DEF UpdateUnit
  <2> QED
    BY <2>1, <2>2
<1>2. StatusFollowsOccupants'
  BY DEF StatusFollowsOccupants, UpdateUnit
<1>3. UnitRequests'
  BY <1>1 DEF UnitInv, UnitRequests, UnitRequest, UpdateUnit, Lives, AboutUnit
<1>4. AddsAlone'
  BY <1>1 DEF UnitInv, AddsAlone, AboutUnit
<1> QED
  BY <1>2, <1>3, <1>4 DEF UnitInv

\* A handler that starts, or counts who remains, knows what it has just read.
LEMMA BeginFollows ==
  ASSUME TypeOK, UnitInv, NEW w \in Workers,
         \/ \E p \in Residents : BeginEnd(w, p) \/ \E k \in Kinds : BeginAdd(w, p, k)
         \/ CountRemaining(w)
  PROVE  UnitInv'
<1> USE DEF occVars
<1>0. UNCHANGED occVars /\ StatusFollowsOccupants'
  BY DEF BeginEnd, BeginAdd, CountRemaining, UnitInv, StatusFollowsOccupants, Lives
<1>1. ASSUME NEW p \in Residents, BeginEnd(w, p)
      PROVE  UnitRequests' /\ AddsAlone'
  <2> DEFINE r == [op |-> "leave", resident |-> p, read |-> unit, fresh |-> "yes"]
  <2>1. req' = [req EXCEPT ![w] = r] /\ Lives(p) /\ req[w] = Idle
    BY <1>1 DEF BeginEnd
  <2>2. req'[w] = r /\ \A x \in Workers \ {w} : req'[x] = req[x]
    BY <2>1 DEF TypeOK
  <2>3. UnitRequests'
    BY <1>0, <2>2 DEF UnitInv, UnitRequests, UnitRequest, Lives, KindsWithout, AfterLeaving
  <2>4. ASSUME NEW x \in Workers, req[x].op = "add"
        PROVE  req[x].resident # p
    BY <2>1, <2>4 DEF UnitInv, UnitRequests, UnitRequest
  <2>5. AddsAlone'
    BY <2>2, <2>4 DEF UnitInv, AddsAlone, AboutUnit
  <2> QED
    BY <2>3, <2>5
<1>2. ASSUME NEW p \in Residents, NEW k \in Kinds, BeginAdd(w, p, k)
      PROVE  UnitRequests' /\ AddsAlone'
  <2> DEFINE r == [op |-> "add", resident |-> p, kind |-> k,
                   to |-> Derived(KindsWithout(p) \cup {k}), fresh |-> "yes"]
  <2>1. /\ req' = [req EXCEPT ![w] = r] /\ ~Lives(p) /\ req[w] = Idle
        /\ \A x \in Workers : AboutUnit(req[x]) => req[x].resident # p
    BY <1>2 DEF BeginAdd
  <2>2. req'[w] = r /\ \A x \in Workers \ {w} : req'[x] = req[x]
    BY <2>1 DEF TypeOK
  <2>3. ASSUME NEW x \in Workers
        PROVE  UnitRequest(req[x])'
    <3>2. CASE x = w
      <4>1. req'[x] = r
        BY <2>2, <3>2
      <4>2. /\ req'[x].op = "add" /\ req'[x].resident = p /\ req'[x].kind = k
            /\ req'[x].to = Derived(KindsWithout(p) \cup {k})
        BY <4>1
      <4>3. KindsWithout(req[x].resident)' = KindsWithout(p) /\ ~Lives(req[x].resident)'
        BY <1>0, <2>1, <4>2 DEF KindsWithout, Lives
      <4> QED
        BY <4>2, <4>3 DEF UnitRequest, Derived
    <3>3. CASE x # w
      BY <1>0, <2>2, <3>3 DEF UnitInv, UnitRequests, UnitRequest, Lives, KindsWithout, AfterLeaving
    <3> QED
      BY <3>2, <3>3
  <2>4. AddsAlone'
    BY <2>1, <2>2 DEF UnitInv, AddsAlone, AboutUnit
  <2> QED
    BY <2>3, <2>4 DEF UnitRequests
<1>3. CASE CountRemaining(w)
  <2> DEFINE r == [op |-> "leaving", resident |-> req[w].resident,
                   to |-> AfterLeaving(req[w].resident, req[w].read), fresh |-> req[w].fresh]
  <2>1. req' = [req EXCEPT ![w] = r] /\ req[w].op = "leave"
    BY <1>3 DEF CountRemaining
  <2>2. req'[w] = r /\ \A x \in Workers \ {w} : req'[x] = req[x]
    BY <2>1 DEF TypeOK
  <2>3. req[w].fresh = "yes" => req[w].read = unit
    BY <2>1 DEF UnitInv, UnitRequests, UnitRequest
  <2>4. UnitRequests'
    BY <1>0, <2>2, <2>3 DEF UnitInv, UnitRequests, UnitRequest, Lives, KindsWithout, AfterLeaving
  <2>5. AddsAlone'
    BY <2>1, <2>2 DEF UnitInv, AddsAlone, AboutUnit
  <2> QED
    BY <1>0, <2>4, <2>5 DEF UnitInv
<1> QED
  BY <1>0, <1>1, <1>2, <1>3 DEF UnitInv

LEMMA UnitStep ==
  ASSUME TypeOK, UnitInv, [Next]_vars
  PROVE  UnitInv'
<1>1. CASE UNCHANGED vars
  BY <1>1, UnitUntouched DEF vars
<1>2. CASE OccupancyStep
  BY <1>2, BeginFollows, AddFollows, EndFollows, PatchFollows DEF OccupancyStep
<1> QED
  BY <1>1, <1>2, ParkingLeavesUnit DEF Next

LEMMA UnitInit == Init => UnitInv
BY DEF Init, OccupancyInit, UnitInv, StatusFollowsOccupants, Lives, UnitRequests, UnitRequest, AddsAlone, Idle

-----------------------------------------------------------------------------
(* The slots *)

\* What a request about parking still knows.  An allocation holds the lock of a
\* slot nobody has; while no commit on its plate came in, the plate is active
\* and has no slot.  A deactivation has taken its slots away already.
ParkRequest(r) ==
  /\ r.op = "allocate" => HoldersOf(r.slot) = {} /\ Fits(r.slot, r.plate)
  /\ r.op = "allocate" /\ r.fresh = "yes" => vehicle[r.plate] = "active"
  /\ r.op \in {"allocate", "deactivate"} /\ r.fresh = "yes" => SlotsOf(r.plate) = {}

ParkRequests == \A w \in Workers : ParkRequest(req[w])

OneAllocatorPerSlot ==
  \A w, x \in Workers :
     w # x /\ req[w].op = "allocate" /\ req[x].op = "allocate" => req[w].slot # req[x].slot

ParkInv == OneVehiclePerSlot /\ VehicleParksOnce /\ ParkRequests /\ OneAllocatorPerSlot

Deciding(r) == r.op \in {"allocate", "deactivate"}

\* A step that leaves the vehicles alone, takes no slot, and starts no request
\* that decides about one.
LEMMA ParkUntouched ==
  ASSUME ParkInv, held' \subseteq held, UNCHANGED <<vehicle, contested>>,
         \A w \in Workers : Deciding(req'[w]) => req'[w] = req[w]
  PROVE  ParkInv'
<1>1. ASSUME NEW s
      PROVE  HoldersOf(s)' \subseteq HoldersOf(s) /\ SlotsOf(s)' \subseteq SlotsOf(s)
  BY DEF HoldersOf, SlotsOf
<1>2. OneVehiclePerSlot'
  BY <1>1 DEF ParkInv, OneVehiclePerSlot, Fits
<1>3. VehicleParksOnce'
  BY <1>1 DEF ParkInv, VehicleParksOnce
<1>4. ASSUME NEW w \in Workers
      PROVE  ParkRequest(req[w])'
  <2>1. CASE Deciding(req'[w])
    <3>1. req'[w] = req[w] /\ ParkRequest(req[w])
      BY <2>1 DEF ParkInv, ParkRequests
    <3>2. /\ HoldersOf(req[w].slot)' \subseteq HoldersOf(req[w].slot)
          /\ SlotsOf(req[w].plate)' \subseteq SlotsOf(req[w].plate)
      BY <3>1 DEF HoldersOf, SlotsOf
    <3> QED
      BY <3>1, <3>2 DEF ParkRequest, Fits
  <2>2. CASE ~Deciding(req'[w])
    BY <2>2 DEF ParkRequest, Deciding
  <2> QED
    BY <2>1, <2>2
<1>5. OneAllocatorPerSlot'
  BY DEF ParkInv, OneAllocatorPerSlot, Deciding
<1> QED
  BY <1>2, <1>3, <1>4, <1>5 DEF ParkInv, ParkRequests

\* The handlers of the unit are such steps.
LEMMA UnitLeavesPark ==
  ASSUME TypeOK, ParkInv, OccupancyStep, UNCHANGED parkVars
  PROVE  ParkInv'
<1> SUFFICES ASSUME NEW x \in Workers, Deciding(req'[x])
             PROVE  req'[x] = req[x]
  BY ParkUntouched DEF parkVars
<1> USE DEF TypeOK, Deciding, Idle
<1>1. ASSUME NEW w \in Workers, CommitOnUnit(w)
      PROVE  req'[x] = req[x]
  BY <1>1, UnitFields DEF CommitOnUnit, OccupancyRequest, AboutUnit
<1>2. ASSUME NEW s \in Patches, UpdateUnit(s)
      PROVE  req'[x] = req[x]
  BY <1>2, UnitFields DEF UpdateUnit, OccupancyRequest, AboutUnit
<1>3. ASSUME NEW w \in Workers, NEW p \in Residents, NEW k \in Kinds, BeginAdd(w, p, k)
      PROVE  req'[x] = req[x]
  BY <1>3 DEF BeginAdd
<1>4. ASSUME NEW w \in Workers, NEW p \in Residents, BeginEnd(w, p)
      PROVE  req'[x] = req[x]
  BY <1>4 DEF BeginEnd
<1>5. ASSUME NEW w \in Workers, CountRemaining(w)
      PROVE  req'[x] = req[x]
  BY <1>5 DEF CountRemaining
<1> QED
  BY <1>1, <1>2, <1>3, <1>4, <1>5 DEF OccupancyStep, CommitAdd, CommitEnd

\* After a commit on a plate no open request takes its reads of it for current,
\* and a commit decided on an old read leaves the plate contested.
LEMMA PlateCommitAges ==
  ASSUME TypeOK, NEW w \in Workers, NEW v \in Plates, CommitOnPlate(w, v), req[w].fresh \in Fresh
  PROVE  /\ contested \subseteq contested'
         /\ req[w].fresh # "yes" => v \in contested'
         /\ \A x \in Workers : Deciding(req'[x]) =>
              /\ x # w /\ Deciding(req[x])
              /\ req'[x].op = req[x].op /\ req'[x].plate = req[x].plate
              /\ req[x].op = "allocate" => req'[x].slot = req[x].slot
              /\ req'[x].fresh = "yes" => req[x].fresh = "yes" /\ req[x].plate # v
<1>1. contested \subseteq contested' /\ (req[w].fresh # "yes" => v \in contested')
  BY DEF CommitOnPlate
<1>2. ASSUME NEW x \in Workers, Deciding(req'[x])
      PROVE  /\ x # w /\ Deciding(req[x])
             /\ req'[x].op = req[x].op /\ req'[x].plate = req[x].plate
             /\ req[x].op = "allocate" => req'[x].slot = req[x].slot
             /\ req'[x].fresh = "yes" => req[x].fresh = "yes" /\ req[x].plate # v
  <2>1. x # w
    BY <1>2 DEF CommitOnPlate, Deciding, Idle
  <2>2. CASE req[x].op \in {"deactivate", "allocate"} /\ req[x].plate = v
    <3>1. req'[x] = [req[x] EXCEPT !.fresh = "no"]
      BY <2>1, <2>2 DEF CommitOnPlate
    <3>2. req[x] \in OccupancyRequest \cup ParkingRequest \cup {Idle}
      BY DEF TypeOK
    <3> QED
      BY <2>1, <2>2, <3>1, <3>2 DEF OccupancyRequest, ParkingRequest, Idle, Deciding
  <2>3. CASE ~ (req[x].op \in {"deactivate", "allocate"} /\ req[x].plate = v)
    <3>1. req'[x] = req[x]
      BY <2>1, <2>3 DEF CommitOnPlate
    <3> QED
      BY <1>2, <2>1, <2>3, <3>1 DEF Deciding
  <2> QED
    BY <2>2, <2>3
<1> QED
  BY <1>1, <1>2

\* An allocation takes a slot nobody has, for a vehicle that has none unless a
\* commit on the vehicle came in between.
LEMMA AllocationFits ==
  ASSUME TypeOK, ParkInv, NEW w \in Workers, CommitAllocate(w)
  PROVE  ParkInv'
<1> PICK s \in Slots, v \in Plates : s = req[w].slot /\ v = req[w].plate
  BY ParkFields DEF CommitAllocate
<1>1. /\ req[w].op = "allocate" /\ req[w].fresh \in Fresh
      /\ HoldersOf(s) = {} /\ Fits(s, v)
      /\ req[w].fresh = "yes" => vehicle[v] = "active" /\ SlotsOf(v) = {}
  BY ParkFields DEF CommitAllocate, ParkInv, ParkRequests, ParkRequest
<1>2. held' = held \cup {<<s, v>>} /\ vehicle' = vehicle /\ CommitOnPlate(w, v)
  BY DEF CommitAllocate
<1>3. ASSUME NEW t \in Slots
      PROVE  HoldersOf(t)' = IF t = s THEN {v} ELSE HoldersOf(t)
  BY <1>1, <1>2 DEF HoldersOf
<1>4. ASSUME NEW u \in Plates
      PROVE  SlotsOf(u)' = IF u = v THEN SlotsOf(u) \cup {s} ELSE SlotsOf(u)
  BY <1>2 DEF SlotsOf
<1>5. OneVehiclePerSlot'
  BY <1>1, <1>3 DEF ParkInv, OneVehiclePerSlot, Fits
<1>6. ASSUME NEW u \in Plates \ contested'
      PROVE  /\ \A a, b \in SlotsOf(u)' : a = b
             /\ vehicle'[u] # "active" => SlotsOf(u)' = {}
  <2>1. u \notin contested
    BY <1>1, <1>2, PlateCommitAges
  <2>2. CASE u = v
    BY <1>1, <1>2, <1>4, <2>2, PlateCommitAges
  <2>3. CASE u # v
    BY <1>2, <1>4, <2>1, <2>3 DEF ParkInv, VehicleParksOnce
  <2> QED
    BY <2>2, <2>3
<1>7. ASSUME NEW x \in Workers
      PROVE  ParkRequest(req[x])'
  <2>1. CASE Deciding(req'[x])
    <3>1. /\ x # w /\ Deciding(req[x])
          /\ req'[x].op = req[x].op /\ req'[x].plate = req[x].plate
          /\ req[x].op = "allocate" => req'[x].slot = req[x].slot
          /\ req'[x].fresh = "yes" => req[x].fresh = "yes" /\ req[x].plate # v
      BY <1>1, <1>2, <2>1, PlateCommitAges
    <3>2. req[x].plate \in Plates /\ (req[x].op = "allocate" => req[x].slot \in Slots)
      BY <3>1, ParkFields DEF Deciding
    <3>3. req[x].op = "allocate" => req[x].slot # s
      BY <1>1, <3>1 DEF ParkInv, OneAllocatorPerSlot
    <3>4. ParkRequest(req[x])
      BY DEF ParkInv, ParkRequests
    <3>5. req'[x].op = "allocate" => HoldersOf(req[x].slot)' = HoldersOf(req[x].slot)
      BY <1>3, <3>1, <3>2, <3>3 DEF HoldersOf
    <3>6. req'[x].fresh = "yes" => SlotsOf(req[x].plate)' = SlotsOf(req[x].plate)
      BY <1>4, <3>1, <3>2 DEF SlotsOf
    <3> QED
      BY <1>2, <3>1, <3>4, <3>5, <3>6 DEF ParkRequest, Fits, HoldersOf, SlotsOf
  <2>2. CASE ~Deciding(req'[x])
    BY <2>2 DEF ParkRequest, Deciding
  <2> QED
    BY <2>1, <2>2
<1>8. OneAllocatorPerSlot'
  BY <1>1, <1>2, PlateCommitAges DEF ParkInv, OneAllocatorPerSlot, Deciding
<1> QED
  BY <1>5, <1>6, <1>7, <1>8 DEF ParkInv, VehicleParksOnce, ParkRequests

\* A deactivation that no commit on its plate overtook retires a vehicle that
\* has no slot any more.
LEMMA RetiredHasNoSlot ==
  ASSUME TypeOK, ParkInv, NEW w \in Workers, WriteInactive(w)
  PROVE  ParkInv'
<1> PICK v \in Plates : v = req[w].plate
  BY ParkFields DEF WriteInactive
<1>1. /\ req[w].op = "deactivate" /\ req[w].fresh \in Fresh
      /\ req[w].fresh = "yes" => SlotsOf(v) = {}
  BY ParkFields DEF WriteInactive, ParkInv, ParkRequests, ParkRequest
<1>2. held' = held /\ CommitOnPlate(w, v)
  BY DEF WriteInactive, parkVars
<1>3. ASSUME NEW u \in Plates
      PROVE  vehicle'[u] = IF u = v THEN "inactive" ELSE vehicle[u]
  BY DEF WriteInactive, TypeOK
<1>4. ASSUME NEW a
      PROVE  HoldersOf(a)' = HoldersOf(a) /\ SlotsOf(a)' = SlotsOf(a)
  BY <1>2 DEF HoldersOf, SlotsOf
<1>5. OneVehiclePerSlot'
  BY <1>4 DEF ParkInv, OneVehiclePerSlot, Fits
<1>6. ASSUME NEW u \in Plates \ contested'
      PROVE  /\ \A a, b \in SlotsOf(u)' : a = b
             /\ vehicle'[u] # "active" => SlotsOf(u)' = {}
  <2>1. u \notin contested /\ (u = v => req[w].fresh = "yes")
    BY <1>1, <1>2, PlateCommitAges
  <2> QED
    BY <1>1, <1>3, <1>4, <2>1 DEF ParkInv, VehicleParksOnce
<1>7. ASSUME NEW x \in Workers
      PROVE  ParkRequest(req[x])'
  <2>1. CASE Deciding(req'[x])
    <3>1. /\ x # w /\ Deciding(req[x])
          /\ req'[x].op = req[x].op /\ req'[x].plate = req[x].plate
          /\ req[x].op = "allocate" => req'[x].slot = req[x].slot
          /\ req'[x].fresh = "yes" => req[x].fresh = "yes" /\ req[x].plate # v
      BY <1>1, <1>2, <2>1, PlateCommitAges
    <3>2. req[x].plate \in Plates
      BY <3>1, ParkFields DEF Deciding
    <3>3. ParkRequest(req[x])
      BY DEF ParkInv, ParkRequests
    <3>4. req[x].op = "allocate" => HoldersOf(req[x].slot)' = HoldersOf(req[x].slot)
      BY <1>2, <3>1 DEF HoldersOf
    <3>5. SlotsOf(req[x].plate)' = SlotsOf(req[x].plate)
      BY <1>2, <3>1 DEF SlotsOf
    <3> QED
      BY <1>3, <3>1, <3>2, <3>3, <3>4, <3>5 DEF ParkRequest, Fits, HoldersOf, SlotsOf
  <2>2. CASE ~Deciding(req'[x])
    BY <2>2 DEF ParkRequest, Deciding
  <2> QED
    BY <2>1, <2>2
<1>8. OneAllocatorPerSlot'
  BY <1>1, <1>2, PlateCommitAges DEF ParkInv, OneAllocatorPerSlot, Deciding
<1> QED
  BY <1>5, <1>6, <1>7, <1>8 DEF ParkInv, VehicleParksOnce, ParkRequests

\* A plate that gets its row becomes active, which no request minds.
LEMMA RegistrationParksNothing ==
  ASSUME TypeOK, ParkInv, NEW w \in Workers, CommitRegister(w)
  PROVE  ParkInv'
<1>1. /\ held' = held /\ contested' = contested
      /\ \A v \in Plates : vehicle'[v] = vehicle[v] \/ vehicle'[v] = "active"
  BY ParkFields DEF CommitRegister, TypeOK
<1>2. ASSUME NEW x \in Workers, Deciding(req'[x])
      PROVE  req'[x] = req[x] /\ req[x].plate \in Plates
  BY <1>2, ParkFields DEF CommitRegister, Deciding, Idle, TypeOK
<1>3. ASSUME NEW a
      PROVE  HoldersOf(a)' = HoldersOf(a) /\ SlotsOf(a)' = SlotsOf(a)
  BY <1>1 DEF HoldersOf, SlotsOf
<1>4. OneVehiclePerSlot' /\ VehicleParksOnce'
  BY <1>1, <1>3 DEF ParkInv, OneVehiclePerSlot, VehicleParksOnce, Fits
<1>5. ASSUME NEW x \in Workers
      PROVE  ParkRequest(req[x])'
  <2>1. CASE Deciding(req'[x])
    BY <1>1, <1>2, <2>1 DEF ParkInv, ParkRequests, ParkRequest, Fits, HoldersOf, SlotsOf
  <2>2. CASE ~Deciding(req'[x])
    BY <2>2 DEF ParkRequest, Deciding
  <2> QED
    BY <2>1, <2>2
<1>6. OneAllocatorPerSlot'
  BY <1>2 DEF ParkInv, OneAllocatorPerSlot, Deciding
<1> QED
  BY <1>4, <1>5, <1>6 DEF ParkInv, ParkRequests

\* A handler that starts knows what it has just read, and has the slot's lock.
LEMMA ParkBegins ==
  ASSUME TypeOK, ParkInv, NEW w \in Workers,
         NEW r, req' = [req EXCEPT ![w] = r], ParkRequest(r)',
         held' \subseteq held, UNCHANGED <<vehicle, contested>>,
         r.op = "allocate" => ~SlotLocked(r.slot)
  PROVE  ParkInv'
<1>1. req'[w] = r /\ \A x \in Workers \ {w} : req'[x] = req[x]
  BY DEF TypeOK
<1>2. ASSUME NEW s
      PROVE  HoldersOf(s)' \subseteq HoldersOf(s) /\ SlotsOf(s)' \subseteq SlotsOf(s)
  BY DEF HoldersOf, SlotsOf
<1>3. OneVehiclePerSlot' /\ VehicleParksOnce'
  BY <1>2 DEF ParkInv, OneVehiclePerSlot, VehicleParksOnce, Fits
<1>4. ASSUME NEW x \in Workers
      PROVE  ParkRequest(req[x])'
  <2>1. CASE x = w
    BY <1>1, <2>1 DEF ParkRequest, Fits, HoldersOf, SlotsOf
  <2>2. CASE x # w
    BY <1>1, <2>2 DEF ParkInv, ParkRequests, ParkRequest, Fits, HoldersOf, SlotsOf
  <2> QED
    BY <2>1, <2>2
<1>5. OneAllocatorPerSlot'
  BY <1>1 DEF ParkInv, OneAllocatorPerSlot, SlotLocked
<1> QED
  BY <1>3, <1>4, <1>5 DEF ParkInv, ParkRequests

LEMMA ParkStep ==
  ASSUME TypeOK, ParkInv, NEW w \in Workers, ParkingStep(w)
  PROVE  ParkInv'
<1> USE DEF Deciding, Idle, TypeOK
<1>1. ASSUME NEW v \in Plates, BeginRegister(w, v)
      PROVE  ParkInv'
  <2>1. \A x \in Workers : Deciding(req'[x]) => req'[x] = req[x]
    BY <1>1 DEF BeginRegister
  <2> QED
    BY <1>1, <2>1, ParkUntouched DEF BeginRegister, parkVars
<1>2. ASSUME NEW v \in Plates, EndAllocations(w, v)
      PROVE  ParkInv'
  <2> DEFINE d == [op |-> "deactivate", plate |-> v, fresh |-> "yes"]
  <2>1. /\ held' = held \ {<<s, v>> : s \in SlotsOf(v)} /\ UNCHANGED <<vehicle, contested>>
        /\ req'[w] = d
        /\ \A x \in Workers \ {w} : req'[x] = Idle \/ req'[x] = req[x]
    BY <1>2 DEF EndAllocations
  <2>2. ASSUME NEW s
        PROVE  HoldersOf(s)' \subseteq HoldersOf(s) /\ SlotsOf(s)' \subseteq SlotsOf(s)
    BY <2>1 DEF HoldersOf, SlotsOf
  <2>3. OneVehiclePerSlot' /\ VehicleParksOnce'
    BY <2>1, <2>2 DEF ParkInv, OneVehiclePerSlot, VehicleParksOnce, Fits
  <2>4. SlotsOf(v)' = {}
    BY <2>1 DEF SlotsOf
  <2>5. ASSUME NEW x \in Workers
        PROVE  ParkRequest(req[x])'
    <3>1. CASE x = w
      <4>1. req'[x].op = "deactivate" /\ req'[x].plate = v
        BY <2>1, <3>1
      <4> QED
        BY <2>4, <4>1 DEF ParkRequest, SlotsOf
    <3>2. CASE x # w /\ req'[x] = Idle
      BY <3>2 DEF ParkRequest
    <3>3. CASE x # w /\ req'[x] = req[x]
      BY <2>1, <3>3 DEF ParkInv, ParkRequests, ParkRequest, Fits, HoldersOf, SlotsOf
    <3> QED
      BY <2>1, <3>1, <3>2, <3>3
  <2>6. OneAllocatorPerSlot'
    BY <2>1 DEF ParkInv, OneAllocatorPerSlot
  <2> QED
    BY <2>3, <2>5, <2>6 DEF ParkInv, ParkRequests
<1>3. ASSUME NEW v \in Plates, NEW s \in Slots, BeginAllocate(w, s, v)
      PROVE  ParkInv'
  <2> DEFINE r == [op |-> "allocate", slot |-> s, plate |-> v, fresh |-> "yes"]
  <2>1. /\ req' = [req EXCEPT ![w] = r] /\ UNCHANGED <<vehicle, held, contested>>
        /\ ~SlotLocked(s) /\ vehicle[v] = "active" /\ Fits(s, v)
        /\ HoldersOf(s) = {} /\ SlotsOf(v) = {}
    BY <1>3 DEF BeginAllocate, parkVars
  <2>2. ParkRequest(r)'
    BY <2>1 DEF ParkRequest, Fits, HoldersOf, SlotsOf
  <2> HIDE DEF r
  <2>3. r.op = "allocate" /\ r.slot = s
    BY DEF r
  <2> QED
    BY <2>1, <2>2, <2>3, ParkBegins
<1>4. ASSUME NEW s \in Slots, BeginDeallocate(w, s)
      PROVE  ParkInv'
  <2>1. \A x \in Workers : Deciding(req'[x]) => req'[x] = req[x]
    BY <1>4 DEF BeginDeallocate
  <2> QED
    BY <1>4, <2>1, ParkUntouched DEF BeginDeallocate, parkVars
<1>5. CASE WriteDeallocate(w)
  <2>1. \A x \in Workers : Deciding(req'[x]) => req'[x] = req[x]
    BY <1>5 DEF WriteDeallocate
  <2> QED
    BY <1>5, <2>1, ParkUntouched DEF WriteDeallocate
<1>6. CASE Abort(w)
  <2>1. \A x \in Workers : Deciding(req'[x]) => req'[x] = req[x]
    BY <1>6 DEF Abort
  <2> QED
    BY <1>6, <2>1, ParkUntouched DEF Abort, parkVars
<1> QED
  BY <1>1, <1>2, <1>3, <1>4, <1>5, <1>6, RegistrationParksNothing, RetiredHasNoSlot, AllocationFits
     DEF ParkingStep, RegisterOwn, RegisterForUnit

LEMMA ParkNext ==
  ASSUME TypeOK, ParkInv, [Next]_vars
  PROVE  ParkInv'
<1>1. CASE UNCHANGED vars
  BY <1>1, ParkUntouched DEF vars, parkVars
<1> QED
  BY <1>1, UnitLeavesPark, ParkStep DEF Next

LEMMA ParkInit == Init => ParkInv
BY DEF Init, ParkInv, OneVehiclePerSlot, VehicleParksOnce, ParkRequests, ParkRequest,
       OneAllocatorPerSlot, HoldersOf, SlotsOf, Idle

-----------------------------------------------------------------------------
\* Every variable keeps its type: the rows, the requests and the histories.
THEOREM TypeCorrect == Spec => []TypeOK
<1>1. TypeOK /\ [Next]_vars => TypeOK'
  BY TypeStep
<1> QED
  BY <1>1, TypeInit, PTL DEF Spec

\* However the handlers interleave, the unit's status follows its occupants until
\* a commit is decided on an old read or an administrator sets it.
THEOREM StatusIsRight == Spec => []StatusFollowsOccupants
<1>1. TypeOK /\ UnitInv /\ [Next]_vars => UnitInv'
  BY UnitStep
<1>2. UnitInv => StatusFollowsOccupants
  BY DEF UnitInv
<1> QED
  BY <1>1, <1>2, UnitInit, TypeCorrect, PTL DEF Spec

LEMMA ParkInvariant == Spec => []ParkInv
<1>1. TypeOK /\ ParkInv /\ [Next]_vars => ParkInv'
  BY ParkNext
<1> QED
  BY <1>1, ParkInit, TypeCorrect, PTL DEF Spec

\* The advisory lock keeps a slot to one vehicle, of the right kind, whatever
\* else runs and wherever a handler stops.
THEOREM SlotsAreNotShared == Spec => []OneVehiclePerSlot
<1>1. ParkInv => OneVehiclePerSlot
  BY DEF ParkInv
<1> QED
  BY <1>1, ParkInvariant, PTL

\* A vehicle has one slot at most, and none once retired, unless a commit about
\* it was decided on an older state of it.
THEOREM VehiclesParkOnce == Spec => []VehicleParksOnce
<1>1. ParkInv => VehicleParksOnce
  BY DEF ParkInv
<1> QED
  BY <1>1, ParkInvariant, PTL
=============================================================================
