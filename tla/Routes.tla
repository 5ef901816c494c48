------------------------------- MODULE Routes -------------------------------
(***************************************************************************)
(* The API's routes: for each handler of each controller, what the guards  *)
(* ask before it runs.  JwtAuthGuard asks for a login unless the route is  *)
(* @Public, PermissionsGuard for every permission of @RequirePermissions,  *)
(* and the handlers that call assertTenant for the caller's community in   *)
(* the path.  What the services ask beyond that is modelled with them.     *)
(***************************************************************************)
EXTENDS Roles

Asks(needs, scoped) == [public |-> FALSE, needs |-> needs, scoped |-> scoped]

Public == [public |-> TRUE, needs |-> {}, scoped |-> FALSE]
Login == Asks({}, FALSE)
Needs(p) == Asks({p}, FALSE)
OwnCommunity == Asks({}, TRUE)
NeedsHere(p) == Asks({p}, TRUE)

auth ==
  [login |-> Public, requestOtp |-> Public, verifyOtp |-> Public, refresh |-> Public,
   logout |-> Login, switchCommunity |-> Login, me |-> Login]

platform ==
  LET Platform == Needs("platform.communities.manage")
  IN [create |-> Platform, listAll |-> Platform, setStatus |-> Platform]

communities ==
  LET Read == NeedsHere("society.read")
      Write == NeedsHere("society.write")
      WriteAny == Needs("society.write")
  IN [getCommunity |-> OwnCommunity,
      updateSettings |-> NeedsHere("community.settings.manage"),
      createTower |-> Write, listTowers |-> Read, createFloor |-> WriteAny,
      createUnitType |-> Write, listUnitTypes |-> Read,
      createUnits |-> Write, listUnits |-> Read, updateUnit |-> WriteAny,
      createGate |-> Write, listGates |-> Read, deactivateGate |-> WriteAny]

residents ==
  [add |-> NeedsHere("resident.write"), list |-> NeedsHere("resident.read"),
   get |-> NeedsHere("resident.read"), update |-> Login,
   occupants |-> Needs("resident.read"), endOccupancy |-> Needs("resident.write"),
   myUnits |-> Login, listContacts |-> Login, addContact |-> Login, removeContact |-> Login]

visitors ==
  LET Gate == Needs("visitor.gate.operations")
  IN [createInvitation |-> Needs("visitor.create"), myInvitations |-> Login, pending |-> Login,
      approve |-> Login, reject |-> Login, spotRequest |-> Needs("visitor.create"),
      checkIn |-> Gate, checkOut |-> Gate, guardHome |-> Needs("visitor.read"),
      holdParcel |-> Gate, collectParcel |-> Gate, override |-> Needs("visitor.override"),
      listVisits |-> Needs("visitor.read")]

gateDirectory ==
  [gates |-> Needs("visitor.read"), units |-> Needs("visitor.gate.operations")]

domesticHelp ==
  [create |-> Login, list |-> Login, assignUnit |-> Login, deactivate |-> Login,
   lookup |-> Needs("visitor.gate.operations")]

helpdesk ==
  [categories |-> Login, create |-> Needs("helpdesk.create"), list |-> Needs("helpdesk.read"),
   myTickets |-> Login, get |-> Login, comment |-> Login, assign |-> Needs("helpdesk.assign"),
   changeStatus |-> Login, rate |-> Login]

billing ==
  LET Biller == Asks({"billing.create", "billing.approve"}, FALSE)
  IN [createChargeHead |-> Biller, chargeHeads |-> Login, createBillRun |-> Biller,
      generate |-> Biller, issue |-> Biller, cancel |-> Biller, listInvoices |-> Login,
      myInvoices |-> Login, initiatePayment |-> Login, mockWebhook |-> Public,
      unitPayments |-> Login]

devPayments == [capture |-> Public]

amenities ==
  [create |-> Needs("amenity.manage"), list |-> Login, availability |-> Login, book |-> Login,
   mine |-> Login, all |-> Needs("amenity.read"), decide |-> Needs("amenity.manage"),
   cancel |-> Login]

notices ==
  [create |-> Needs("notice.publish"), publish |-> Needs("notice.publish"),
   all |-> Needs("notice.read"), mine |-> Login, ack |-> Login]

notifications == [list |-> Login, markRead |-> Login]

parking ==
  LET Manager == Needs("parking.manage")
  IN [registerMine |-> Login, mine |-> Login, registerForUnit |-> Manager,
      all |-> Needs("parking.read"), deactivate |-> Login, createArea |-> Manager,
      areas |-> Login, createSlots |-> Manager, allocate |-> Manager, deallocate |-> Manager,
      gateLookup |-> Login]

reports ==
  LET Viewer == Needs("reports.view")
  IN [summary |-> Viewer, collections |-> Viewer, helpdesk |-> Viewer, visitors |-> Viewer]

audit == [list |-> Needs("audit.view")]

realtime == [stream |-> Login]

Controllers ==
  {auth, platform, communities, residents, visitors, gateDirectory, domesticHelp, helpdesk,
   billing, devPayments, amenities, notices, notifications, parking, reports, audit, realtime}

\* The permissions of a route are strings no compiler compares with the
\* catalogue: whatever a route asks for, some role of the matrix has, and a
\* role of the community has it unless the route is about the platform.
ASSUME EveryRouteHasARole ==
  \A c \in Controllers : \A h \in DOMAIN c :
    \E role \in IF c = platform THEN SystemRole ELSE SystemRole \ {"PLATFORM_SUPER_ADMIN"} :
      HasPermission(role, c[h].needs)
=============================================================================
