------------------------------- MODULE Access -------------------------------
(***************************************************************************)
(* One person's way into the system: the account and its memberships, the  *)
(* access context AuthService loads for every request and keeps for thirty *)
(* seconds, switching the community, and the apps that are signed in.      *)
(*                                                                         *)
(* loadAccessContext reads the database and then writes the cache, and     *)
(* switchCommunity is two updates and a deletion from the cache: requests  *)
(* interleave between them.  Memberships and roles are only ever added.    *)
(* The account is the seed's, or made by a first sign-in with a code, or   *)
(* by an administrator who adds a resident.                                *)
(***************************************************************************)
EXTENDS OneTimeCode, Apps

CONSTANTS
  Communities,
  Clients,      \* tabs the person may sign in from
  Seeded,       \* roles the seed gives a person in one community
  Kinds         \* resident roles addResident attaches

\* The accounts seed.ts makes beside the platform administrator's: an
\* administrator of the community, residents, and staff without a default.
SeededAs ==
  [admin |-> {"COMMUNITY_ADMIN"}, resident |-> Audience("resident"),
   staff |-> {"SECURITY_MANAGER", "GUARD", "STAFF"}]

ASSUME AccessAssumption ==
  /\ Seeded \subseteq UNION {SeededAs[k] : k \in DOMAIN SeededAs}
  /\ Kinds \subseteq Audience("resident")

VARIABLES
  user,         \* the account: "absent", or how it was made
  member,       \* communities the person is a member of
  roles,        \* the roles of each membership
  default,      \* memberships with isDefault
  flags,        \* history: "unset" until a default is set; "torn" after switches
                \* overlapped or one died half-way; else "set"
  cache,        \* the entry of ctxCache
  client,       \* what each tab is signed in to
  answer        \* history: "wrong" once a switch was answered with a community
                \* it had no excuse to name

memberVars == <<user, member, roles, default, flags>>
vars == <<codeVars, memberVars, cache, client, answer, req>>

None == "none"
Fresh == {"yes", "no"}

\* AccessContext.  fresh is history: "no" when something was committed to the
\* memberships after it was read and before it was cached, or a role since.
Context == [community : Communities \cup {None}, roles : SUBSET SystemRole, fresh : Fresh]
NoContext == [community |-> None, roles |-> {}, fresh |-> "no"]

\* A tab: the app, the community its session names and the roles it signed in
\* with.  moved is history: "yes" once a switch took a step, or when it signed
\* in on an old context or in the middle of a switch.
SignedOut == [app |-> None]
Session == [app : App, community : Communities \cup {None}, roles : SUBSET SystemRole,
            moved : Fresh]

\* What a context is loaded for.
Call == [why |-> "call"]
Goal == {Call} \cup [why : {"sign_in"}, client : Clients, app : App]
               \cup [why : {"switch"}, to : Communities, alone : Fresh]

AccessRequest ==
       [op : {"find_user", "create_user", "load", "read"}, goal : Goal]
  \cup [op : {"fill"}, goal : Goal, ctx : Context]
  \cup [op : {"clear", "flag", "drop"}, goal : Goal]

Init ==
  /\ CodeInit
  /\ \/ /\ user \in {"absent", "platform"}
        /\ member = {}
        /\ roles = [c \in Communities |-> {}]
     \/ \E k \in DOMAIN SeededAs, c \in Communities : \E r \in Seeded \cap SeededAs[k] :
          /\ user = k
          /\ member = {c}
          /\ roles = [d \in Communities |-> IF d = c THEN {r} ELSE {}]
  /\ default = IF user = "staff" THEN {} ELSE member
  /\ flags = IF default = {} THEN "unset" ELSE "set"
  /\ cache = NoContext
  /\ client = [c \in Clients |-> SignedOut]
  /\ answer = "right"
  /\ req = [w \in Workers |-> Idle]

Goes(w, op, goal) == req' = [req EXCEPT ![w] = [op |-> op, goal |-> goal]]

-----------------------------------------------------------------------------
(* The access context *)

\* loadAccessContext takes a default membership, or else the first of a query
\* that asks for no order.
Active(c) ==
  IF member = {} THEN c = None
  ELSE IF default = {} THEN c \in member ELSE c \in default

Granted(ctx) ==
  IF user = "platform" THEN ALL_PERMISSIONS
  ELSE UNION {SYSTEM_ROLE_PERMISSIONS[r] : r \in ctx.roles}

\* PermissionsGuard and assertCommunityAccess let a platform administrator pass.
Admitted(ctx, route, community) ==
  \/ route.public \/ user = "platform"
  \/ /\ route.needs \subseteq Granted(ctx)
     /\ route.scoped => ctx.community = community

\* A switch has changed the defaults and not yet the cache.
Switching == \E w \in Workers : req[w].op \in {"flag", "drop"}

\* Whoever signs in keeps the session, even when the login page turns them
\* away.  A switch is answered with the context it loads.
Deliver(w, goal, ctx) ==
  /\ client' =
       IF goal.why # "sign_in" THEN client
       ELSE [client EXCEPT ![goal.client] =
               [app |-> goal.app, community |-> ctx.community, roles |-> ctx.roles,
                moved |-> IF ctx.fresh = "no" \/ Switching THEN "yes" ELSE "no"]]
  /\ answer' =
       IF goal.why = "switch" /\ ctx.community # goal.to /\ ctx.fresh = "yes" /\ goal.alone = "yes"
       THEN "wrong" ELSE answer
  /\ req' = [req EXCEPT ![w] = Idle]

\* A request of a signed-in tab that finds the context still cached changes
\* nothing here, and is no step.
StartCall(w) ==
  /\ req[w] = Idle
  /\ \E c \in Clients : client[c] # SignedOut
  /\ cache = NoContext
  /\ Goes(w, "read", Call)
  /\ UNCHANGED <<codeVars, memberVars, cache, client, answer>>

Lookup(w) ==
  /\ req[w].op = "load"
  /\ \/ cache # NoContext /\ Deliver(w, req[w].goal, cache)
     \/ cache = NoContext /\ Goes(w, "read", req[w].goal) /\ UNCHANGED <<client, answer>>
  /\ UNCHANGED <<codeVars, memberVars, cache>>

ReadContext(w) ==
  /\ req[w].op = "read"
  /\ \E c \in Communities \cup {None} :
       /\ Active(c)
       /\ req' = [req EXCEPT ![w] =
                    [op |-> "fill", goal |-> req[w].goal,
                     ctx |-> [community |-> c, roles |-> IF c = None THEN {} ELSE roles[c],
                              fresh |-> "yes"]]]
  /\ UNCHANGED <<codeVars, memberVars, cache, client, answer>>

FillCache(w) ==
  /\ req[w].op = "fill"
  /\ cache' = req[w].ctx
  /\ Deliver(w, req[w].goal, req[w].ctx)
  /\ UNCHANGED <<codeVars, memberVars>>

\* CTX_TTL_MS pass.
ExpireContext ==
  /\ cache # NoContext
  /\ cache' = NoContext
  /\ UNCHANGED <<codeVars, memberVars, client, answer, req>>

-----------------------------------------------------------------------------
(* Signing in and out *)

\* loginWithPassword: only the seed gives out passwords.
LoginWithPassword(w, c) ==
  /\ req[w] = Idle
  /\ user \in {"admin", "platform"}
  /\ Goes(w, "load", [why |-> "sign_in", client |-> c, app |-> "admin"])
  /\ UNCHANGED <<codeVars, memberVars, cache, client, answer>>

CodeStep ==
  /\ \/ \E k \in Codes : RequestOtp(k) \/ Expires(k)
     \/ RefuseVerify
     \/ LeaveWindow
     \/ ForgetRows
     \/ \E w \in Workers : BeginVerify(w) \/ WrongCode(w)
  /\ UNCHANGED <<memberVars, cache, client, answer>>

\* The code was right; the tab is the one that asked.
VerifyOtp(w, c, a) ==
  /\ RightCode(w, [op |-> "find_user", goal |-> [why |-> "sign_in", client |-> c, app |-> a]])
  /\ UNCHANGED <<memberVars, cache, client, answer>>

FindUser(w) ==
  /\ req[w].op = "find_user"
  /\ Goes(w, IF user = "absent" THEN "create_user" ELSE "load", req[w].goal)
  /\ UNCHANGED <<codeVars, memberVars, cache, client, answer>>

\* The phone is unique: an account made meanwhile fails the request.
CreateUser(w) ==
  /\ req[w].op = "create_user"
  /\ user = "absent"
  /\ user' = "onboarding"
  /\ Goes(w, "load", req[w].goal)
  /\ UNCHANGED <<codeVars, member, roles, default, flags, cache, client, answer>>

SignOut(c) ==
  /\ client[c] # SignedOut
  /\ client' = [client EXCEPT ![c] = SignedOut]
  /\ UNCHANGED <<codeVars, memberVars, cache, answer, req>>

-----------------------------------------------------------------------------
(* The memberships *)

\* Something was committed: a context being loaded is old.
Aged(r) == IF r.op = "fill" THEN [r EXCEPT !.ctx.fresh = "no"] ELSE r

\* addResident: the account is found or made, and the first resident role of
\* a membership stays.  Nothing is done to the cache.
AddResident(c, k) ==
  /\ c \notin member \/ roles[c] \cap Audience("resident") = {}
  /\ user' = IF user = "absent" THEN "resident" ELSE user
  /\ member' = member \cup {c}
  /\ roles' = [roles EXCEPT ![c] = @ \cup {k}]
  /\ cache' = IF cache = NoContext THEN cache ELSE [cache EXCEPT !.fresh = "no"]
  /\ req' = [x \in Workers |-> Aged(req[x])]
  /\ UNCHANGED <<codeVars, default, flags, client, answer>>

\* A write of w's switch: the tabs have moved, and no other switch is alone.
SwitchWrote(w, op) ==
  /\ client' = [c \in Clients |->
                  IF client[c] = SignedOut THEN SignedOut ELSE [client[c] EXCEPT !.moved = "yes"]]
  /\ req' = [x \in Workers |->
                IF x = w THEN [req[w] EXCEPT !.op = op]
                ELSE IF req[x] # Idle /\ req[x].op # "verify" /\ req[x].goal.why = "switch"
                     THEN [Aged(req[x]) EXCEPT !.goal.alone = "no"] ELSE Aged(req[x])]

BeginSwitch(w, c) ==
  /\ req[w] = Idle
  /\ c \in member
  /\ \E t \in Clients : client[t] # SignedOut
  /\ Goes(w, "clear", [why |-> "switch", to |-> c, alone |-> "yes"])
  /\ UNCHANGED <<codeVars, memberVars, cache, client, answer>>

Cleared_Never(c) == default
Cleared(c) == {}

ClearDefaults(w) ==
  /\ req[w].op = "clear"
  /\ default' = Cleared(req[w].goal.to)
  /\ flags' = IF \E x \in Workers : req[x].op = "flag" THEN "torn" ELSE "set"
  /\ SwitchWrote(w, "flag")
  /\ UNCHANGED <<codeVars, user, member, roles, cache, answer>>

SetDefault(w) ==
  /\ req[w].op = "flag"
  /\ default' = default \cup {req[w].goal.to}
  /\ SwitchWrote(w, "drop")
  /\ UNCHANGED <<codeVars, user, member, roles, flags, cache, answer>>

Dropped_Never == cache
Dropped == NoContext

DropContext(w) ==
  /\ req[w].op = "drop"
  /\ cache' = Dropped
  /\ SwitchWrote(w, "load")
  /\ UNCHANGED <<codeVars, memberVars, answer>>

-----------------------------------------------------------------------------
(* Failures *)

Half == \E w \in Workers : req[w].op = "flag"

\* An error ends a request; nothing can fail between the second update of a
\* switch and the deletion from the cache.
Fail(w) ==
  /\ req[w] # Idle
  /\ req[w].op # "drop"
  /\ req' = [req EXCEPT ![w] = Idle]
  /\ flags' = IF req[w].op = "flag" THEN "torn" ELSE flags
  /\ UNCHANGED <<codeVars, user, member, roles, default, cache, client, answer>>

\* The process restarts: the cache, the throttle and the requests are gone.
Restart ==
  /\ cache' = NoContext
  /\ Forget
  /\ req' = [w \in Workers |-> Idle]
  /\ flags' = IF Half THEN "torn" ELSE flags
  /\ UNCHANGED <<user, member, roles, default, client, answer>>

-----------------------------------------------------------------------------
Step(w) ==
  \/ StartCall(w) \/ Lookup(w) \/ ReadContext(w) \/ FillCache(w)
  \/ FindUser(w) \/ CreateUser(w)
  \/ ClearDefaults(w) \/ SetDefault(w) \/ DropContext(w)
  \/ Fail(w)
  \/ \E c \in Communities : BeginSwitch(w, c)
  \/ \E t \in Clients :
       \/ LoginWithPassword(w, t)
       \/ \E a \in {"resident", "guard"} : VerifyOtp(w, t, a)

Next ==
  \/ CodeStep
  \/ \E w \in Workers : Step(w)
  \/ \E t \in Clients : SignOut(t)
  \/ \E c \in Communities, k \in Kinds : AddResident(c, k)
  \/ ExpireContext
  \/ Restart

Spec == Init /\ [][Next]_vars

-----------------------------------------------------------------------------
(* Properties *)

\* Every variable keeps its type, and the throttle its size.
TypeOK ==
  /\ CodeTypeOK
  /\ user \in {"absent", "onboarding", "resident", "staff", "admin", "platform"}
  /\ member \subseteq Communities
  /\ roles \in [Communities -> SUBSET SystemRole]
  /\ default \subseteq member
  /\ flags \in {"unset", "set", "torn"}
  /\ cache \in Context
  /\ client \in [Clients -> Session \cup {SignedOut}]
  /\ answer \in {"right", "wrong"}
  /\ req \in [Workers -> CodeRequest \cup AccessRequest \cup {Idle}]

\* Once a default community was set there is one, except inside a switch, and
\* never two: unless switches overlapped or one died between its two updates.
OneDefault ==
  /\ flags = "unset" => default = {}
  /\ flags = "set" => \/ Half /\ default = {}
                      \/ \E c \in member : default = {c}

\* After a switch neither its answer nor the cache names another community,
\* though nothing locks the cache: unless switches overlapped or the context
\* was being loaded while a switch wrote.
SwitchTakesEffect ==
  /\ answer = "right"
  /\ flags = "set" /\ cache # NoContext /\ cache.fresh = "yes"
       /\ ~Switching
     => cache.community \in default

\* Whoever signed in to an app that is for them is not refused by the API what
\* its pages call (the pages and the role matrix are kept in different
\* packages): while the context is up to date, no switch came between, and
\* there is a default community or only one to choose.
OnlyASwitchRefuses ==
  \A t \in Clients :
     /\ client[t] # SignedOut
     /\ client[t].moved = "no" /\ client[t].community # None
     /\ client[t].roles \cap Audience(client[t].app) # {}
     /\ cache # NoContext /\ cache.fresh = "yes" /\ ~Switching
     /\ flags = "set" \/ \A c, d \in member : c = d
     => \A route \in Calls(client[t].app, user = "platform") :
          Admitted(cache, route, client[t].community)
=============================================================================
