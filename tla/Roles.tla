------------------------------- MODULE Roles -------------------------------
(***************************************************************************)
(* The permission catalogue (packages/permissions): the permissions there  *)
(* are, which system role has which, and the tests on them.  A community   *)
(* gets a copy of the matrix when it is created and no route changes it.   *)
(***************************************************************************)

PERMISSION_GROUPS ==
  [community  |-> {"society.read", "society.write", "community.settings.manage"},
   residents  |-> {"resident.read", "resident.write"},
   visitors   |-> {"visitor.read", "visitor.create", "visitor.approve", "visitor.override",
                   "visitor.gate.operations", "visitor.staff.manage"},
   helpdesk   |-> {"helpdesk.read", "helpdesk.create", "helpdesk.assign", "helpdesk.resolve"},
   billing    |-> {"billing.read", "billing.create", "billing.approve"},
   payments   |-> {"payment.read", "payment.pay", "payment.reconcile", "payment.method.manage"},
   amenities  |-> {"amenity.read", "amenity.book", "amenity.manage"},
   notices    |-> {"notice.read", "notice.publish"},
   parking    |-> {"parking.read", "parking.manage"},
   reports    |-> {"reports.view", "reports.export"},
   audit      |-> {"audit.view"},
   administration |-> {"admin.users.manage", "admin.roles.manage", "admin.settings.manage"},
   platform   |-> {"platform.communities.manage"}]

ALL_PERMISSIONS == UNION {PERMISSION_GROUPS[g] : g \in DOMAIN PERMISSION_GROUPS}

\* What the roles below share.
Readers ==
  {"society.read", "resident.read", "visitor.read", "billing.read", "payment.read",
   "helpdesk.read", "amenity.read", "notice.read", "parking.read"}
Desk == {"helpdesk.read", "helpdesk.assign", "helpdesk.resolve"}
Reconciler == {"billing.read", "billing.approve", "payment.read", "payment.reconcile",
               "reports.view", "reports.export"}
Relative == {"resident.read", "visitor.read", "visitor.create", "visitor.approve",
             "helpdesk.create", "amenity.read", "amenity.book", "notice.read"}
Resident == Relative \cup {"visitor.staff.manage", "billing.read", "payment.read",
                           "payment.pay", "parking.read"}
Parking == PERMISSION_GROUPS.parking

SYSTEM_ROLE_PERMISSIONS ==
  [PLATFORM_SUPER_ADMIN  |-> ALL_PERMISSIONS,
   COMMUNITY_SUPER_ADMIN |-> ALL_PERMISSIONS \ PERMISSION_GROUPS.platform,
   COMMUNITY_ADMIN       |->
     (ALL_PERMISSIONS \ PERMISSION_GROUPS.platform)
       \ {"visitor.gate.operations", "helpdesk.create", "payment.pay",
          "payment.method.manage", "admin.settings.manage"},
   COMMITTEE_MEMBER      |-> Readers \cup {"reports.view", "audit.view"},
   FACILITY_MANAGER      |->
     Desk \cup Parking \cup PERMISSION_GROUPS.notices
       \cup {"society.read", "resident.read", "visitor.read", "visitor.approve",
             "visitor.staff.manage", "amenity.read", "amenity.manage", "reports.view"},
   ACCOUNTANT            |-> Reconciler \cup {"society.read", "resident.read", "billing.create"},
   TREASURER             |-> Reconciler \cup {"audit.view"},
   HELPDESK_MANAGER      |-> Desk \cup {"society.read", "resident.read", "reports.view"},
   SECURITY_MANAGER      |->
     Parking \cup {"society.read", "visitor.read", "visitor.approve", "visitor.override",
                   "visitor.staff.manage", "reports.view"},
   AUDITOR               |-> Readers \cup {"audit.view"},
   VIEW_ONLY_ADMIN       |-> Readers,
   RESIDENT_OWNER        |-> Resident,
   RESIDENT_TENANT       |-> Resident,
   FAMILY_MEMBER         |-> Relative,
   GUARD                 |-> {"visitor.read", "visitor.create", "visitor.gate.operations"},
   STAFF                 |-> {"helpdesk.read", "helpdesk.resolve"},
   VENDOR_USER           |-> {}]

SystemRole == DOMAIN SYSTEM_ROLE_PERMISSIONS

\* hasPermission: every permission named is needed.
HasPermission(role, needed) == needed \subseteq SYSTEM_ROLE_PERMISSIONS[role]

\* hasAnyPermission: one of them is enough.
HasAnyPermission(role, needed) == needed \cap SYSTEM_ROLE_PERMISSIONS[role] # {}
=============================================================================
