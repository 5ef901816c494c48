----------------------------- MODULE Occupancy -----------------------------
(***************************************************************************)
(* Who lives in a unit: ResidentsService.addResident and endOccupancy over *)
(* UnitOccupancy and CommunityMembership, and the unit's status, which     *)
(* both write and StructureService.updateUnit patches.                     *)
(*                                                                         *)
(* Both handlers run in a transaction at READ COMMITTED that counts the    *)
(* active occupancies and then updates the unit: the count does not see    *)
(* what another open transaction will commit.  One unit is modelled, and a *)
(* resident occupies it at most once at a time; rows that have ended are   *)
(* forgotten.  A module that adds other handlers says what their steps do. *)
(***************************************************************************)
EXTENDS FiniteSets

CONSTANTS
  Residents,
  Kinds,        \* the kinds of occupancy residents are added with
  Patches,      \* the statuses an administrator sets by hand
  Workers       \* HTTP requests in progress at once

UnitStatus == {"VACANT", "OWNER_OCCUPIED", "TENANT_OCCUPIED", "UNDER_MAINTENANCE", "INACTIVE"}

ASSUME OccupancyAssumption ==
  /\ Kinds \subseteq {"OWNER", "TENANT", "FAMILY"}
  /\ Patches \subseteq UnitStatus

VARIABLES
  unit,      \* Unit.status
  occ,       \* kind of the active occupancy of each resident, or "none"
  role,      \* the resident role of each membership, or "none" without one
  drift,     \* history: "yes" while the status may not follow the occupancies
  req        \* the handler each worker is running, with what it has read

occVars == <<unit, occ, role, drift>>

Idle == [op |-> "idle"]
Fresh == {"yes", "no"}     \* "no": something it read was committed over since

OccupancyRequest ==
       [op : {"add"}, resident : Residents, kind : Kinds, to : UnitStatus, fresh : Fresh]
  \cup [op : {"leave"}, resident : Residents, read : UnitStatus, fresh : Fresh]
  \cup [op : {"leaving"}, resident : Residents, to : UnitStatus, fresh : Fresh]

AboutUnit(r) == r.op \in {"add", "leave", "leaving"}

Lives(p) == occ[p] # "none"

OccupancyInit ==
  /\ unit = "VACANT"
  /\ occ = [p \in Residents |-> "none"]
  /\ role = [p \in Residents |-> "none"]
  /\ drift = "no"

OccupancyTypeOK ==
  /\ unit \in UnitStatus
  /\ occ \in [Residents -> Kinds \cup {"none"}]
  /\ role \in [Residents -> Kinds \cup {"none"}]
  /\ drift \in {"yes", "no"}

\* A commit on the unit: what the other requests about it have read is old.
CommitOnUnit(w) ==
  req' = [x \in Workers |->
            IF x = w THEN Idle
            ELSE IF AboutUnit(req[x]) THEN [req[x] EXCEPT !.fresh = "no"] ELSE req[x]]

-----------------------------------------------------------------------------
(* addResident *)

Derived_OwnerFirst(kinds) ==
  CASE kinds = {} -> "VACANT"
    [] "OWNER" \in kinds -> "OWNER_OCCUPIED"
    [] OTHER -> "TENANT_OCCUPIED"

\* The status the active occupancies call for.
Derived(kinds) ==
  CASE kinds = {} -> "VACANT"
    [] "TENANT" \in kinds -> "TENANT_OCCUPIED"
    [] OTHER -> "OWNER_OCCUPIED"

KindsWithout(p) == {occ[q] : q \in {x \in Residents \ {p} : Lives(x)}}

\* The transaction inserts the occupancy and finds the kinds committed so far
\* beside its own.  A row that is still being ended is not used again.
BeginAdd(w, p, k) ==
  /\ req[w] = Idle
  /\ ~Lives(p)
  /\ \A x \in Workers : AboutUnit(req[x]) => req[x].resident # p
  /\ req' = [req EXCEPT ![w] = [op |-> "add", resident |-> p, kind |-> k,
                                to |-> Derived(KindsWithout(p) \cup {k}), fresh |-> "yes"]]
  /\ UNCHANGED occVars

\* A membership that has a resident role keeps it, whatever the new kind.
RoleAttached(p, k) == IF role[p] = "none" THEN k ELSE role[p]

CommitAdd(w) ==
  /\ req[w].op = "add"
  /\ LET p == req[w].resident IN
       /\ occ' = [occ EXCEPT ![p] = req[w].kind]
       /\ role' = [role EXCEPT ![p] = RoleAttached(p, req[w].kind)]
  /\ unit' = req[w].to
  /\ drift' = IF req[w].fresh = "yes" THEN "no" ELSE "yes"
  /\ CommitOnUnit(w)

-----------------------------------------------------------------------------
(* endOccupancy *)

\* The occupancy and its unit are read before the transaction opens.
BeginEnd(w, p) ==
  /\ req[w] = Idle
  /\ Lives(p)
  /\ req' = [req EXCEPT ![w] = [op |-> "leave", resident |-> p, read |-> unit, fresh |-> "yes"]]
  /\ UNCHANGED occVars

\* Somebody remains: the status read before is written back.
AfterLeaving(p, read) == IF KindsWithout(p) # {} THEN read ELSE "VACANT"

\* The transaction holds the lock of the occupancy's row from here on.
CountRemaining(w) ==
  /\ req[w].op = "leave"
  /\ LET p == req[w].resident IN
       /\ \A x \in Workers : req[x].op = "leaving" => req[x].resident # p
       /\ req' = [req EXCEPT ![w] = [op |-> "leaving", resident |-> p,
                                     to |-> AfterLeaving(p, req[w].read), fresh |-> req[w].fresh]]
  /\ UNCHANGED occVars

CommitEnd(w) ==
  /\ req[w].op = "leaving"
  /\ occ' = [occ EXCEPT ![req[w].resident] = "none"]
  /\ unit' = req[w].to
  /\ drift' = IF req[w].fresh = "no" THEN "yes"
              ELSE IF KindsWithout(req[w].resident) = {} THEN "no" ELSE drift
  /\ CommitOnUnit(w)
  /\ UNCHANGED role

\* updateUnit: an administrator sets a status by hand.
UpdateUnit(s) ==
  /\ s # unit
  /\ unit' = s
  /\ drift' = "yes"
  /\ req' = [x \in Workers |-> IF AboutUnit(req[x]) THEN [req[x] EXCEPT !.fresh = "no"] ELSE req[x]]
  /\ UNCHANGED <<occ, role>>

OccupancyStep ==
  \/ \E w \in Workers :
       \/ \E p \in Residents : BeginEnd(w, p) \/ \E k \in Kinds : BeginAdd(w, p, k)
       \/ CommitAdd(w)
       \/ CountRemaining(w)
       \/ CommitEnd(w)
  \/ \E s \in Patches : UpdateUnit(s)
=============================================================================
