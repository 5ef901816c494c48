-------------------------------- MODULE Apps --------------------------------
(***************************************************************************)
(* The three web apps as the API sees them: which routes each page calls,  *)
(* on opening and from its buttons, and whom an app's login lets in.       *)
(***************************************************************************)
EXTENDS Routes

(* Admin web: the layout links every page for everybody, and Platform for  *)
(* a platform administrator.  Its pages name the community of the session  *)
(* the login page stored.                                                  *)
Dashboard == {reports.summary, billing.listInvoices, helpdesk.list}
Reports == {reports.summary, reports.collections, reports.helpdesk, reports.visitors}
Tickets == {helpdesk.list, helpdesk.changeStatus}
Invoices == {billing.listInvoices, billing.issue, billing.cancel}
Notices == {notices.all, notices.create}
Residents == {residents.list}
Vehicles == {parking.all}
Audit == {audit.list}
Platform == {platform.listAll, platform.create, platform.setStatus}

(* Resident app: its pages ask /auth/me for the community. *)
Approvals == {visitors.pending, visitors.approve, visitors.reject, realtime.stream}
Invite == {residents.myUnits, auth.me, visitors.createInvitation}
Help_FromTheDesk == {auth.me, helpdesk.categories, helpdesk.list, helpdesk.create,
                     helpdesk.changeStatus, helpdesk.rate}
Help == {auth.me, helpdesk.categories, helpdesk.myTickets, helpdesk.create,
         helpdesk.changeStatus, helpdesk.rate}
Dues == {billing.myInvoices, billing.initiatePayment, devPayments.capture}
Inbox == {notifications.list, notifications.markRead}

(* Guard app: every route is about the caller's own community. *)
GateHome == {visitors.guardHome, visitors.checkIn, visitors.checkOut}
SpotRequest == {gateDirectory.units, gateDirectory.gates, visitors.spotRequest}
CheckInOut == {visitors.checkIn, visitors.checkOut}

App == {"admin", "resident", "guard"}

\* The routes the pages of an app call, for somebody who is, or is not, a
\* platform administrator.
Calls(app, super) ==
  CASE app = "admin" ->
         UNION {Dashboard, Reports, Tickets, Invoices, Notices, Residents, Vehicles, Audit,
                IF super THEN Platform ELSE {}}
    [] app = "resident" -> UNION {Approvals, Invite, Help, Dues, Inbox}
    [] app = "guard" -> UNION {GateHome, SpotRequest, CheckInOut}

\* Whom an app is for, each with everything the app does.  The guard app's
\* login lets a security manager in too, whose role has none of the
\* permissions of the gate but visitor.read.
Audience(app) ==
  CASE app = "admin" -> {"COMMUNITY_ADMIN", "COMMUNITY_SUPER_ADMIN"}
    [] app = "resident" -> {"RESIDENT_OWNER", "RESIDENT_TENANT", "FAMILY_MEMBER"}
    [] app = "guard" -> {"GUARD"}
=============================================================================
