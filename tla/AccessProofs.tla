--------------------------- MODULE AccessProofs ---------------------------
(***************************************************************************)
(* Theorems about Access for any sets of communities, tabs and concurrent  *)
(* requests, and any limits on codes, attempts and entries.                *)
(***************************************************************************)
EXTENDS Access, FiniteSetTheorems, SequenceTheorems, TLAPS

Request == CodeRequest \cup AccessRequest \cup {Idle}

SwitchGoal == [why : {"switch"}, to : Communities, alone : Fresh]

-----------------------------------------------------------------------------
(* Types *)

LEMMA SystemRoles ==
  {"COMMUNITY_ADMIN", "RESIDENT_OWNER", "RESIDENT_TENANT", "FAMILY_MEMBER",
   "SECURITY_MANAGER", "GUARD", "STAFF"} \subseteq SystemRole
BY DEF SystemRole, SYSTEM_ROLE_PERMISSIONS

\* The fields of a request, by what it is about to do.
LEMMA RequestFields ==
  ASSUME NEW r \in Request
  PROVE  /\ r.op = "verify" => r \in CodeRequest /\ r.code \in Codes /\ r.fresh \in {"yes", "no"}
         /\ r # Idle /\ r.op # "verify" => r \in AccessRequest /\ r.goal \in Goal
         /\ r.op = "fill" => r.ctx \in Context
         /\ r.op = "idle" <=> r = Idle
BY DEF Request, CodeRequest, AccessRequest, Idle

\* A goal that says switch is one, and ageing or outrunning it leaves it one.
LEMMA SwitchFields ==
  ASSUME NEW g \in Goal, g.why = "switch"
  PROVE  /\ g \in SwitchGoal
         /\ g.to \in Communities /\ g.alone \in Fresh
         /\ [g EXCEPT !.alone = "no"] \in Goal
         /\ [g EXCEPT !.alone = "no"].why = "switch"
         /\ [g EXCEPT !.alone = "no"].to = g.to
         /\ [g EXCEPT !.alone = "no"].alone = "no"
BY DEF Goal, Call, SwitchGoal, Fresh

\* A request that has only its goal.
LEMMA GoalRequest ==
  ASSUME NEW g \in Goal,
         NEW o \in {"find_user", "create_user", "load", "read", "clear", "flag", "drop"}
  PROVE  [op |-> o, goal |-> g] \in Request
BY DEF Request, AccessRequest

\* What a commit does to a request: a context being loaded is old.
LEMMA AgedFields ==
  ASSUME NEW r \in Request
  PROVE  /\ Aged(r) \in Request
         /\ Aged(r).op = r.op
         /\ r # Idle /\ r.op # "verify" => Aged(r).goal = r.goal
         /\ r.op = "verify" \/ r = Idle => Aged(r) = r
         /\ r.op = "fill" => /\ Aged(r).ctx.fresh = "no"
                             /\ Aged(r).ctx.community = r.ctx.community
                             /\ Aged(r).ctx.roles = r.ctx.roles
<1>1. CASE r.op = "fill"
  <2>1. r \in [op : {"fill"}, goal : Goal, ctx : Context]
    BY <1>1 DEF Request, CodeRequest, AccessRequest, Idle
  <2>2. Aged(r) = [r EXCEPT !.ctx = [r.ctx EXCEPT !.fresh = "no"]]
    BY <1>1, <2>1 DEF Aged
  <2>3. [r.ctx EXCEPT !.fresh = "no"] \in Context
    BY <2>1 DEF Context, Fresh
  <2> QED
    BY <1>1, <2>1, <2>2, <2>3 DEF Request, AccessRequest, Context, Idle
<1>2. CASE r.op # "fill"
  BY <1>2 DEF Aged
<1> QED
  BY <1>1, <1>2

\* What a write of a switch does to another request.
Outrun(r) ==
  IF r # Idle /\ r.op # "verify" /\ r.goal.why = "switch"
  THEN [Aged(r) EXCEPT !.goal.alone = "no"] ELSE Aged(r)

LEMMA OutrunFields ==
  ASSUME NEW r \in Request
  PROVE  /\ Outrun(r) \in Request
         /\ Outrun(r).op = r.op
         /\ r # Idle /\ r.op # "verify" => /\ Outrun(r).goal.why = r.goal.why
                                           /\ r.goal.why = "switch" => /\ Outrun(r).goal.to = r.goal.to
                                                                       /\ Outrun(r).goal.alone = "no"
         /\ r.op = "verify" \/ r = Idle => Outrun(r) = r
         /\ r.op = "fill" => /\ Outrun(r).ctx.fresh = "no"
                             /\ Outrun(r).ctx.community = r.ctx.community
                             /\ Outrun(r).ctx.roles = r.ctx.roles
<1>1. CASE r # Idle /\ r.op # "verify" /\ r.goal.why = "switch"
  <2> DEFINE a == Aged(r)
             g == [a.goal EXCEPT !.alone = "no"]
  <2>1. /\ a \in Request /\ a.op = r.op /\ a.goal = r.goal
        /\ a.op = "fill" => /\ a.ctx.fresh = "no" /\ a.ctx.community = r.ctx.community
                            /\ a.ctx.roles = r.ctx.roles
    BY <1>1, AgedFields
  <2>2. a \in AccessRequest /\ a.goal \in Goal
    BY <1>1, <2>1, RequestFields DEF Idle, Request, CodeRequest
  <2>3. g \in Goal /\ g.why = "switch" /\ g.to = r.goal.to /\ g.alone = "no"
    BY <1>1, <2>1, <2>2, SwitchFields
  <2>4. Outrun(r) = [a EXCEPT !.goal = g]
    BY <1>1, <2>2 DEF Outrun, AccessRequest
  <2> HIDE DEF a, g
  <2>5. /\ [a EXCEPT !.goal = g] \in AccessRequest
        /\ [a EXCEPT !.goal = g].op = a.op /\ [a EXCEPT !.goal = g].goal = g
        /\ a.op = "fill" => [a EXCEPT !.goal = g].ctx = a.ctx
    BY <2>2, <2>3 DEF AccessRequest
  <2> QED
    BY <1>1, <2>1, <2>3, <2>4, <2>5 DEF Request
<1>2. CASE ~ (r # Idle /\ r.op # "verify" /\ r.goal.why = "switch")
  BY <1>2, AgedFields DEF Outrun
<1> QED
  BY <1>1, <1>2

\* Sequences with a few more or fewer entries are sequences.
LEMMA RecentTypes ==
  ASSUME CodeTypeOK
  PROVE  /\ \A e \in 0..MaxCodes : NotSpammy(e) => recent' \in Seq(0..MaxCodes) /\ Len(recent') <= MaxRecent
         /\ recent # <<>> => Tail(recent) \in Seq(0..MaxCodes) /\ Len(Tail(recent)) <= MaxRecent
<1>1. ASSUME NEW e \in 0..MaxCodes, NotSpammy(e)
      PROVE  recent' \in Seq(0..MaxCodes) /\ Len(recent') <= MaxRecent
  BY <1>1, OneTimeCodeAssumption DEF NotSpammy, CodeTypeOK
<1>2. ASSUME recent # <<>>
      PROVE  Tail(recent) \in Seq(0..MaxCodes) /\ Len(Tail(recent)) <= MaxRecent
  BY <1>2, OneTimeCodeAssumption DEF CodeTypeOK
<1> QED
  BY <1>1, <1>2

\* The writes to a row of a code keep it one.
LEMMA AttemptRow ==
  ASSUME NEW r \in Row
  PROVE  [r EXCEPT !.attempts = r.attempts + 1] \in Row
BY DEF Row

LEMMA ConsumedRow ==
  ASSUME NEW r \in Row, NEW n \in Nat, NEW a \in {"yes", "no"}
  PROVE  [r EXCEPT !.state = "consumed", !.logins = n, !.apart = a]
           = [state |-> "consumed", attempts |-> r.attempts, logins |-> n,
              steady |-> r.steady, apart |-> a]
<1> DEFINE r1 == [r EXCEPT !.state = "consumed"]
           r2 == [r1 EXCEPT !.logins = n]
           r3 == [r2 EXCEPT !.apart = a]
<1>1. r1 = [state |-> "consumed", attempts |-> r.attempts, logins |-> r.logins,
            steady |-> r.steady, apart |-> r.apart]
  BY DEF Row
<1>2. r2 = [state |-> "consumed", attempts |-> r.attempts, logins |-> n,
            steady |-> r.steady, apart |-> r.apart]
  <2> HIDE DEF r1
  <2> QED
    BY <1>1
<1>3. r3 = [state |-> "consumed", attempts |-> r.attempts, logins |-> n,
            steady |-> r.steady, apart |-> a]
  <2> HIDE DEF r2
  <2> QED
    BY <1>2
<1> QED
  BY <1>3

LEMMA ConsumedFields ==
  ASSUME code \in [Codes -> Row], NEW k \in Codes, NEW f
  PROVE  /\ Consumed(k, f) \in Row
         /\ Consumed(k, f).state = "consumed"
         /\ Consumed(k, f).attempts = code[k].attempts
         /\ Consumed(k, f).logins = code[k].logins + 1
         /\ Consumed(k, f).steady = code[k].steady
         /\ Consumed(k, f).apart = IF f = "yes" THEN code[k].apart ELSE "no"
<1> DEFINE a == IF f = "yes" THEN code[k].apart ELSE "no"
           c == [state |-> "consumed", attempts |-> code[k].attempts, logins |-> code[k].logins + 1,
                 steady |-> code[k].steady, apart |-> a]
<1>1. code[k] \in Row /\ a \in {"yes", "no"}
  BY DEF Row
<1>2. Consumed(k, f) = [code[k] EXCEPT !.state = "consumed", !.logins = code[k].logins + 1, !.apart = a]
  BY Zenon DEF Consumed
<1>3. Consumed(k, f) = c
  <2> HIDE DEF a
  <2>1. code[k].logins + 1 \in Nat
    BY <1>1 DEF Row
  <2> QED
    BY <1>1, <1>2, <2>1, ConsumedRow
<1>4. c \in Row
  <2> HIDE DEF a
  <2> QED
    BY <1>1 DEF Row
<1> QED
  BY <1>3, <1>4

\* The steps of the codes preserve the types of the codes and the requests.
LEMMA CodeTypes ==
  ASSUME TypeOK, CodeStep
  PROVE  CodeTypeOK' /\ req' \in [Workers -> Request]
<1> USE DEF TypeOK, CodeTypeOK, Request
<1>1. ASSUME NEW k \in Codes, RequestOtp(k)
      PROVE  CodeTypeOK' /\ req' \in [Workers -> Request]
  <2>1. code' \in [Codes -> Row]
    BY <1>1 DEF RequestOtp, Row
  <2>2. k \in 0..MaxCodes
    BY OneTimeCodeAssumption DEF Codes
  <2> QED
    BY <1>1, <2>1, <2>2, RecentTypes DEF RequestOtp
<1>2. ASSUME NEW k \in Codes, Expires(k)
      PROVE  CodeTypeOK' /\ req' \in [Workers -> Request]
  <2>1. code' \in [Codes -> Row]
    BY <1>2 DEF Expires, Row
  <2> QED
    BY <1>2, <2>1 DEF Expires
<1>3. ASSUME NotSpammy(0)
      PROVE  recent' \in Seq(0..MaxCodes) /\ Len(recent') <= MaxRecent
  BY <1>3, RecentTypes, OneTimeCodeAssumption
<1>4. CASE RefuseVerify
  BY <1>3, <1>4 DEF RefuseVerify
<1>5. CASE LeaveWindow
  BY <1>5, RecentTypes DEF LeaveWindow
<1>6. CASE ForgetRows
  <2>1. code' \in [Codes -> Row]
    BY <1>6 DEF ForgetRows, Row, Unsent
  <2>2. recent' = [i \in 1..Len(recent) |-> 0] /\ Len(recent) \in Nat
    BY <1>6 DEF ForgetRows
  <2>3. recent' \in Seq(0..MaxCodes) /\ Len(recent') = Len(recent)
    BY <2>2, OneTimeCodeAssumption
  <2> QED
    BY <1>6, <2>1, <2>3 DEF ForgetRows
<1>7. ASSUME NEW w \in Workers, BeginVerify(w)
      PROVE  CodeTypeOK' /\ req' \in [Workers -> Request]
  <2>1. PICK k \in Codes : req' = [req EXCEPT ![w] = [op |-> "verify", code |-> k, fresh |-> "yes"]]
    BY <1>7 DEF BeginVerify
  <2>2. [op |-> "verify", code |-> k, fresh |-> "yes"] \in CodeRequest
    BY DEF CodeRequest
  <2> QED
    BY <1>3, <1>7, <2>1, <2>2 DEF BeginVerify
<1>8. ASSUME NEW w \in Workers, WrongCode(w)
      PROVE  CodeTypeOK' /\ req' \in [Workers -> Request]
  <2>1. req[w].code \in Codes
    BY <1>8, RequestFields DEF WrongCode
  <2>2. [code[req[w].code] EXCEPT !.attempts = code[req[w].code].attempts + 1] \in Row
    BY <2>1, AttemptRow
  <2>3. code' = [code EXCEPT ![req[w].code] =
                   [code[req[w].code] EXCEPT !.attempts = code[req[w].code].attempts + 1]]
    BY <1>8 DEF WrongCode
  <2>4. code' \in [Codes -> Row]
    BY <2>1, <2>2, <2>3
  <2> QED
    BY <1>8, <2>4 DEF WrongCode
<1> QED
  BY <1>1, <1>2, <1>4, <1>5, <1>6, <1>7, <1>8 DEF CodeStep

\* So does a verification that succeeds.
LEMMA RightCodeTypes ==
  ASSUME TypeOK, NEW w \in Workers, NEW next \in Request, RightCode(w, next)
  PROVE  CodeTypeOK' /\ req' \in [Workers -> Request]
<1> USE DEF TypeOK, CodeTypeOK
<1>1. req \in [Workers -> Request]
  BY DEF Request
<1>2. req[w].code \in Codes
  BY <1>1, RequestFields DEF RightCode
<1>3. Consumed(req[w].code, req[w].fresh) \in Row
  BY <1>2, ConsumedFields
<1>4. code' \in [Codes -> Row]
  BY <1>2, <1>3 DEF RightCode
<1>5. ASSUME NEW x \in Workers, req[x].op = "verify"
      PROVE  [req[x] EXCEPT !.fresh = "no"] \in Request
  <2>1. req[x] \in CodeRequest
    BY <1>1, <1>5, RequestFields
  <2> QED
    BY <2>1 DEF CodeRequest, Request
<1>6. req' \in [Workers -> Request]
  BY <1>1, <1>5 DEF RightCode
<1> QED
  BY <1>4, <1>6 DEF RightCode

\* The goals of a switch that has yet to write name a community of the person.
GoalsAreMembers ==
  \A w \in Workers : req[w].op \in {"clear", "flag"} => req[w].goal.why = "switch" /\ req[w].goal.to \in member

Typed == TypeOK /\ GoalsAreMembers

\* What a delivered context leaves in the tabs.
LEMMA DeliverTypes ==
  ASSUME TypeOK, NEW w \in Workers, NEW g \in Goal, NEW x \in Context, Deliver(w, g, x)
  PROVE  /\ client' \in [Clients -> Session \cup {SignedOut}]
         /\ answer' \in {"right", "wrong"}
         /\ req' \in [Workers -> Request]
<1> USE DEF TypeOK
<1>1. CASE g.why = "sign_in"
  <2>1. g.client \in Clients /\ g.app \in App
    BY <1>1 DEF Goal, Call
  <2>2. [app |-> g.app, community |-> x.community, roles |-> x.roles,
         moved |-> IF x.fresh = "no" \/ Switching THEN "yes" ELSE "no"] \in Session
    BY <2>1 DEF Session, Context, Fresh
  <2>3. client' \in [Clients -> Session \cup {SignedOut}]
    BY <1>1, <2>1, <2>2 DEF Deliver
  <2> QED
    BY <2>3 DEF Deliver, Request
<1>2. CASE g.why # "sign_in"
  BY <1>2 DEF Deliver, Request
<1> QED
  BY <1>1, <1>2

\* A write of a switch keeps every request well formed.
LEMMA WriteTypes ==
  ASSUME TypeOK, NEW w \in Workers, NEW o \in {"flag", "drop", "load"}, SwitchWrote(w, o),
         req[w].op \in {"clear", "flag", "drop"}
  PROVE  /\ client' \in [Clients -> Session \cup {SignedOut}]
         /\ req' \in [Workers -> Request]
         /\ req'[w] = [op |-> o, goal |-> req[w].goal]
         /\ req[w].goal \in Goal
         /\ \A x \in Workers \ {w} : req'[x] = Outrun(req[x])
<1>1. req \in [Workers -> Request]
  BY DEF TypeOK, Request
<1>2. req[w] \in [op : {"clear", "flag", "drop"}, goal : Goal]
  BY <1>1 DEF Request, AccessRequest, CodeRequest, Idle
<1>3. req'[w] = [op |-> o, goal |-> req[w].goal] /\ req[w].goal \in Goal
  BY <1>2 DEF SwitchWrote
<1>4. \A x \in Workers \ {w} : req'[x] = Outrun(req[x])
  BY DEF SwitchWrote, Outrun
<1>5. ASSUME NEW x \in Workers
      PROVE  req'[x] \in Request
  <2>1. CASE x = w
    BY <1>3, <2>1, GoalRequest
  <2>2. CASE x # w
    BY <1>1, <1>4, <2>2, OutrunFields
  <2> QED
    BY <2>1, <2>2
<1>6. ASSUME NEW c \in Clients
      PROVE  (IF client[c] = SignedOut THEN SignedOut ELSE [client[c] EXCEPT !.moved = "yes"])
               \in Session \cup {SignedOut}
  BY DEF TypeOK, Session, Fresh
<1>7. client' \in [Clients -> Session \cup {SignedOut}]
  BY <1>6 DEF SwitchWrote
<1>8. req' \in [Workers -> Request]
  <2>1. req' = [x \in Workers |-> req'[x]]
    BY DEF SwitchWrote
  <2> QED
    BY <1>5, <2>1
<1> QED
  BY <1>3, <1>4, <1>7, <1>8

\* A step of one request that leaves the codes and the memberships alone.
LEMMA QuietStep ==
  ASSUME Typed, UNCHANGED <<codeVars, memberVars>>,
         cache' \in Context, client' \in [Clients -> Session \cup {SignedOut}],
         answer' \in {"right", "wrong"}, req' \in [Workers -> Request],
         \A w \in Workers : req'[w].op \in {"clear", "flag"} =>
           req'[w] = req[w] \/ (req'[w].goal.why = "switch" /\ req'[w].goal.to \in member)
  PROVE  Typed'
<1>1. TypeOK'
  BY DEF Typed, TypeOK, CodeTypeOK, codeVars, memberVars, Request
<1>2. GoalsAreMembers'
  BY DEF Typed, GoalsAreMembers, memberVars
<1> QED
  BY <1>1, <1>2 DEF Typed

\* So does one that only gives the request its next operation.
LEMMA GoesStep ==
  ASSUME Typed, UNCHANGED <<codeVars, memberVars, cache, client, answer>>,
         NEW w \in Workers, NEW g \in Goal,
         NEW o \in {"find_user", "create_user", "load", "read", "clear"}, Goes(w, o, g),
         o = "clear" => g.why = "switch" /\ g.to \in member
  PROVE  Typed'
<1>1. req \in [Workers -> Request] /\ [op |-> o, goal |-> g] \in Request
  BY GoalRequest DEF Typed, TypeOK, Request
<1>2. /\ req'[w] = [op |-> o, goal |-> g]
      /\ \A x \in Workers \ {w} : req'[x] = req[x]
      /\ req' \in [Workers -> Request]
  BY <1>1 DEF Goes
<1>3. \A x \in Workers : req'[x].op \in {"clear", "flag"} =>
        req'[x] = req[x] \/ (req'[x].goal.why = "switch" /\ req'[x].goal.to \in member)
  BY <1>2
<1>4. cache' \in Context /\ client' \in [Clients -> Session \cup {SignedOut}] /\ answer' \in {"right", "wrong"}
  BY DEF Typed, TypeOK
<1> QED
  BY <1>2, <1>3, <1>4, QuietStep

\* And one that delivers a context.
LEMMA DeliverStep ==
  ASSUME Typed, UNCHANGED <<codeVars, memberVars>>, cache' \in Context,
         NEW w \in Workers, NEW g \in Goal, NEW x \in Context, Deliver(w, g, x)
  PROVE  Typed'
<1>1. /\ client' \in [Clients -> Session \cup {SignedOut}] /\ answer' \in {"right", "wrong"}
      /\ req' \in [Workers -> Request]
  BY DeliverTypes DEF Typed
<1>2. req' = [req EXCEPT ![w] = Idle]
  BY DEF Deliver
<1>3. \A y \in Workers : req'[y] = req[y] \/ req'[y] = Idle
  BY <1>2 DEF Typed, TypeOK
<1> QED
  BY <1>1, <1>3, QuietStep DEF Idle

\* A write of a switch that sets the defaults and the cache to D and C.
LEMMA WriteStep ==
  ASSUME Typed, NEW w \in Workers, NEW o \in {"flag", "drop", "load"}, SwitchWrote(w, o),
         req[w].op \in {"clear", "flag", "drop"},
         o = "flag" => req[w].op = "clear",
         UNCHANGED <<codeVars, user, member, roles, answer>>,
         default' \subseteq member, flags' \in {"unset", "set", "torn"}, cache' \in Context
  PROVE  Typed'
<1>1. /\ client' \in [Clients -> Session \cup {SignedOut}] /\ req' \in [Workers -> Request]
      /\ req'[w] = [op |-> o, goal |-> req[w].goal]
      /\ \A x \in Workers \ {w} : req'[x] = Outrun(req[x])
  BY WriteTypes DEF Typed
<1>2. TypeOK'
  BY <1>1 DEF Typed, TypeOK, CodeTypeOK, codeVars, Request
<1>3. ASSUME NEW x \in Workers, req'[x].op \in {"clear", "flag"}
      PROVE  req'[x].goal.why = "switch" /\ req'[x].goal.to \in member
  <2>1. CASE x = w
    BY <1>1, <1>3, <2>1 DEF Typed, GoalsAreMembers
  <2>2. CASE x # w
    <3>1. req[x] \in Request /\ req'[x] = Outrun(req[x])
      BY <1>1, <2>2 DEF Typed, TypeOK, Request
    <3>2. req[x].op \in {"clear", "flag"} /\ req[x] # Idle
      BY <1>3, <3>1, OutrunFields DEF Idle
    <3>3. req[x].goal.why = "switch" /\ req[x].goal.to \in member
      BY <3>2 DEF Typed, GoalsAreMembers
    <3> QED
      BY <3>1, <3>2, <3>3, OutrunFields
  <2> QED
    BY <2>1, <2>2
<1> QED
  BY <1>2, <1>3 DEF Typed, GoalsAreMembers

LEMMA StepTypes ==
  ASSUME Typed, NEW w \in Workers, Step(w)
  PROVE  Typed'
<1>0. /\ TypeOK /\ GoalsAreMembers /\ req \in [Workers -> Request] /\ NoContext \in Context
      /\ Call \in Goal /\ (req[w].op \notin {"idle", "verify"} => req[w].goal \in Goal)
  BY RequestFields DEF Typed, TypeOK, Request, NoContext, Context, Fresh, Goal, Idle
<1>1. CASE StartCall(w)
  BY <1>0, <1>1, GoesStep DEF StartCall
<1>2. CASE Lookup(w)
  BY <1>0, <1>2, GoesStep, DeliverStep DEF Lookup, TypeOK
<1>3. CASE ReadContext(w)
  <2>1. PICK c \in Communities \cup {None} :
          req' = [req EXCEPT ![w] =
                    [op |-> "fill", goal |-> req[w].goal,
                     ctx |-> [community |-> c, roles |-> IF c = None THEN {} ELSE roles[c],
                              fresh |-> "yes"]]] /\ Active(c)
    BY <1>3 DEF ReadContext
  <2>2. (IF c = None THEN {} ELSE roles[c]) \in SUBSET SystemRole
    BY <1>0 DEF TypeOK
  <2>3. [community |-> c, roles |-> IF c = None THEN {} ELSE roles[c], fresh |-> "yes"] \in Context
    BY <2>2 DEF Context, Fresh
  <2>4. req[w].goal \in Goal
    BY <1>0, <1>3 DEF ReadContext
  <2>5. [op |-> "fill", goal |-> req[w].goal,
         ctx |-> [community |-> c, roles |-> IF c = None THEN {} ELSE roles[c],
                  fresh |-> "yes"]] \in Request
    BY <2>3, <2>4 DEF Request, AccessRequest
  <2>6. req' \in [Workers -> Request] /\ req'[w].op = "fill" /\ \A x \in Workers \ {w} : req'[x] = req[x]
    BY <1>0, <2>1, <2>5
  <2>7. \A x \in Workers : req'[x].op \in {"clear", "flag"} => req'[x] = req[x]
    BY <2>6
  <2>8. /\ UNCHANGED <<codeVars, memberVars>> /\ cache' \in Context
        /\ client' \in [Clients -> Session \cup {SignedOut}] /\ answer' \in {"right", "wrong"}
    BY <1>0, <1>3 DEF ReadContext, TypeOK
  <2> QED
    BY <2>6, <2>7, <2>8, QuietStep
<1>4. CASE FillCache(w)
  <2>1. req[w].goal \in Goal /\ req[w].ctx \in Context
    BY <1>0, <1>4, RequestFields DEF FillCache
  <2> QED
    BY <1>4, <2>1, DeliverStep DEF FillCache
<1>5. CASE FindUser(w)
  <2>1. req[w].goal \in Goal
    BY <1>0, <1>5 DEF FindUser
  <2>2. CASE user = "absent"
    BY <1>5, <2>1, <2>2, GoesStep DEF FindUser
  <2>3. CASE user # "absent"
    BY <1>5, <2>1, <2>3, GoesStep DEF FindUser
  <2> QED
    BY <2>2, <2>3
<1>6. CASE CreateUser(w)
  <2>1. req[w].goal \in Goal
    BY <1>0, <1>6 DEF CreateUser
  <2>2. [op |-> "load", goal |-> req[w].goal] \in Request
    BY <2>1, GoalRequest
  <2>3. /\ req'[w] = [op |-> "load", goal |-> req[w].goal]
        /\ \A x \in Workers \ {w} : req'[x] = req[x]
        /\ req' \in [Workers -> Request]
    BY <1>0, <1>6, <2>2 DEF CreateUser, Goes
  <2>4. TypeOK'
    BY <1>0, <1>6, <2>3 DEF CreateUser, TypeOK, CodeTypeOK, codeVars, Request
  <2>5. GoalsAreMembers'
    BY <1>0, <1>6, <2>3 DEF CreateUser, GoalsAreMembers
  <2> QED
    BY <2>4, <2>5 DEF Typed
<1>7. CASE ClearDefaults(w)
  <2>1. default' = {} /\ flags' \in {"set", "torn"}
    BY <1>7 DEF ClearDefaults, Cleared
  <2> QED
    BY <1>0, <1>7, <2>1, WriteStep DEF ClearDefaults, TypeOK
<1>8. CASE SetDefault(w)
  <2>1. default' \subseteq member
    BY <1>0, <1>8 DEF SetDefault, TypeOK, GoalsAreMembers
  <2> QED
    BY <1>0, <1>8, <2>1, WriteStep DEF SetDefault, TypeOK
<1>9. CASE DropContext(w)
  BY <1>0, <1>9, WriteStep DEF DropContext, Dropped, TypeOK, memberVars
<1>10. CASE Fail(w)
  <2>1. /\ req' \in [Workers -> Request]
        /\ \A x \in Workers : req'[x] = req[x] \/ req'[x] = Idle
    BY <1>0, <1>10 DEF Fail, Request
  <2>2. flags' \in {"unset", "set", "torn"}
    BY <1>0, <1>10 DEF Fail, TypeOK
  <2>3. TypeOK'
    BY <1>0, <1>10, <2>1, <2>2 DEF Fail, TypeOK, CodeTypeOK, codeVars, Request
  <2>4. GoalsAreMembers'
    BY <1>0, <1>10, <2>1 DEF Fail, GoalsAreMembers, Idle
  <2> QED
    BY <2>3, <2>4 DEF Typed
<1>11. ASSUME NEW c \in Communities, BeginSwitch(w, c)
       PROVE  Typed'
  <2>1. [why |-> "switch", to |-> c, alone |-> "yes"] \in Goal
    BY DEF Goal, Fresh
  <2> DEFINE g == [why |-> "switch", to |-> c, alone |-> "yes"]
  <2>2. g.why = "switch" /\ g.to = c /\ g \in Goal
    BY <2>1
  <2>3. c \in member /\ Goes(w, "clear", g) /\ UNCHANGED <<codeVars, memberVars, cache, client, answer>>
    BY <1>11 DEF BeginSwitch
  <2> HIDE DEF g
  <2> QED
    BY <2>2, <2>3, GoesStep
<1>12. ASSUME NEW t \in Clients, LoginWithPassword(w, t)
       PROVE  Typed'
  <2>1. [why |-> "sign_in", client |-> t, app |-> "admin"] \in Goal
    BY DEF Goal, App
  <2> QED
    BY <1>12, <2>1, GoesStep DEF LoginWithPassword
<1>13. ASSUME NEW t \in Clients, NEW a \in {"resident", "guard"}, VerifyOtp(w, t, a)
       PROVE  Typed'
  <2> DEFINE g == [why |-> "sign_in", client |-> t, app |-> a]
             next == [op |-> "find_user", goal |-> g]
  <2>1. g \in Goal
    BY DEF Goal, App
  <2>2. next \in Request /\ next.op = "find_user"
    BY <2>1, GoalRequest
  <2>3. RightCode(w, next) /\ UNCHANGED <<memberVars, cache, client, answer>>
    BY <1>13 DEF VerifyOtp
  <2> HIDE DEF next
  <2>4. CodeTypeOK' /\ req' \in [Workers -> Request]
    BY <1>0, <2>2, <2>3, RightCodeTypes
  <2>5. TypeOK'
    BY <1>0, <2>3, <2>4 DEF TypeOK, memberVars, Request
  <2>6. ASSUME NEW x \in Workers, req'[x].op \in {"clear", "flag"}
        PROVE  req'[x] = req[x]
    <3>1. CASE x # w /\ req[x].op = "verify"
      <4>1. req[x] \in CodeRequest
        BY <1>0, <3>1, RequestFields
      <4>2. [req[x] EXCEPT !.fresh = "no"].op = "verify"
        BY <4>1 DEF CodeRequest
      <4> QED
        BY <2>3, <2>6, <3>1, <4>2 DEF RightCode
    <3>2. CASE x # w /\ req[x].op # "verify"
      BY <2>3, <3>2 DEF RightCode
    <3>3. CASE x = w
      BY <2>2, <2>3, <2>6, <3>3 DEF RightCode
    <3> QED
      BY <3>1, <3>2, <3>3
  <2>7. GoalsAreMembers'
    BY <1>0, <2>3, <2>6 DEF GoalsAreMembers, memberVars
  <2> QED
    BY <2>5, <2>7 DEF Typed
<1> QED
  BY <1>1, <1>2, <1>3, <1>4, <1>5, <1>6, <1>7, <1>8, <1>9, <1>10, <1>11, <1>12, <1>13 DEF Step

LEMMA TypeStep ==
  ASSUME Typed, [Next]_vars
  PROVE  Typed'
<1>0. TypeOK /\ GoalsAreMembers /\ req \in [Workers -> Request]
  BY DEF Typed, TypeOK, Request
<1>1. CASE CodeStep
  <2>1. TypeOK'
    BY <1>0, <1>1, CodeTypes DEF CodeStep, TypeOK, memberVars, Request
  <2>2. ASSUME NEW x \in Workers, req'[x].op \in {"clear", "flag"}
        PROVE  req'[x] = req[x]
    <3>1. ASSUME NEW w \in Workers, BeginVerify(w)
          PROVE  req'[x] = req[x]
      BY <1>0, <2>2, <3>1 DEF BeginVerify
    <3>2. ASSUME NEW w \in Workers, WrongCode(w)
          PROVE  req'[x] = req[x]
      BY <1>0, <2>2, <3>2 DEF WrongCode, Idle
    <3>3. CASE req' = req
      BY <3>3
    <3> QED
      BY <1>1, <3>1, <3>2, <3>3 DEF CodeStep, RequestOtp, Expires, RefuseVerify, LeaveWindow, ForgetRows
  <2>3. GoalsAreMembers'
    BY <1>0, <1>1, <2>2 DEF GoalsAreMembers, CodeStep, memberVars
  <2> QED
    BY <2>1, <2>3 DEF Typed
<1>2. ASSUME NEW t \in Clients, SignOut(t)
      PROVE  Typed'
  <2>1. client' \in [Clients -> Session \cup {SignedOut}]
    BY <1>0, <1>2 DEF SignOut, TypeOK
  <2>2. req' \in [Workers -> Request]
    BY <1>0, <1>2 DEF SignOut
  <2> QED
    BY <1>0, <1>2, <2>1, <2>2, QuietStep DEF SignOut, TypeOK
<1>3. ASSUME NEW c \in Communities, NEW k \in Kinds, AddResident(c, k)
      PROVE  Typed'
  <2>1. k \in SystemRole
    BY AccessAssumption, SystemRoles DEF Audience
  <2>2. roles' \in [Communities -> SUBSET SystemRole]
    BY <1>0, <1>3, <2>1 DEF AddResident, TypeOK
  <2>3. cache' \in Context
    BY <1>0, <1>3 DEF AddResident, TypeOK, Context, Fresh
  <2>4. req' \in [Workers -> Request]
    BY <1>0, <1>3, AgedFields DEF AddResident
  <2>5. TypeOK'
    BY <1>0, <1>3, <2>2, <2>3, <2>4 DEF AddResident, TypeOK, CodeTypeOK, codeVars, Request
  <2>6. ASSUME NEW x \in Workers, req'[x].op \in {"clear", "flag"}
        PROVE  req'[x].goal.why = "switch" /\ req'[x].goal.to \in member
    <3>1. req'[x] = Aged(req[x]) /\ req[x] \in Request
      BY <1>0, <1>3 DEF AddResident
    <3>2. req[x].op \in {"clear", "flag"} /\ req[x] # Idle /\ req'[x].goal = req[x].goal
      BY <2>6, <3>1, AgedFields DEF Idle
    <3> QED
      BY <1>0, <3>2 DEF GoalsAreMembers
  <2>7. member \subseteq member'
    BY <1>3 DEF AddResident
  <2> QED
    BY <2>5, <2>6, <2>7 DEF Typed, GoalsAreMembers
<1>4. CASE ExpireContext
  <2>1. NoContext \in Context
    BY DEF NoContext, Context, Fresh
  <2> QED
    BY <1>0, <1>4, <2>1, QuietStep DEF ExpireContext, TypeOK, Request
<1>5. CASE Restart
  <2>1. NoContext \in Context
    BY DEF NoContext, Context, Fresh
  <2>2. \A k \in Codes : [code[k] EXCEPT !.steady = "no"] \in Row
    BY <1>0 DEF TypeOK, CodeTypeOK, Row
  <2>3. code' \in [Codes -> Row]
    BY <1>0, <1>5, <2>2 DEF Restart, Forget, TypeOK, CodeTypeOK
  <2>4. recent' \in Seq(0..MaxCodes) /\ Len(recent') <= MaxRecent
    BY <1>5, OneTimeCodeAssumption DEF Restart, Forget
  <2>5. flags' \in {"unset", "set", "torn"}
    BY <1>0, <1>5 DEF Restart, TypeOK
  <2>6. TypeOK'
    BY <1>0, <1>5, <2>1, <2>3, <2>4, <2>5 DEF Restart, TypeOK, CodeTypeOK
  <2>7. GoalsAreMembers'
    BY <1>5 DEF Restart, GoalsAreMembers, Idle
  <2> QED
    BY <2>6, <2>7 DEF Typed
<1>6. CASE UNCHANGED vars
  BY <1>0, <1>6, QuietStep DEF vars, TypeOK, Request
<1> QED
  BY <1>1, <1>2, <1>3, <1>4, <1>5, <1>6, StepTypes DEF Next

LEMMA TypeInit == Init => Typed
<1> SUFFICES ASSUME Init PROVE Typed
  OBVIOUS
<1>1. CodeTypeOK
  <2>1. Unsent \in Row
    BY DEF Unsent, Row
  <2> QED
    BY <2>1, OneTimeCodeAssumption DEF Init, CodeInit, CodeTypeOK
<1>2. /\ user \in {"absent", "onboarding", "resident", "staff", "admin", "platform"}
      /\ member \subseteq Communities /\ roles \in [Communities -> SUBSET SystemRole]
  <2>1. CASE /\ user \in {"absent", "platform"} /\ member = {}
             /\ roles = [c \in Communities |-> {}]
    BY <2>1
  <2>2. ASSUME NEW k \in DOMAIN SeededAs, NEW c \in Communities, NEW r \in Seeded \cap SeededAs[k],
               user = k, member = {c}, roles = [d \in Communities |-> IF d = c THEN {r} ELSE {}]
        PROVE  /\ user \in {"absent", "onboarding", "resident", "staff", "admin", "platform"}
               /\ member \subseteq Communities /\ roles \in [Communities -> SUBSET SystemRole]
    <3>1. k \in {"admin", "resident", "staff"}
      BY DEF SeededAs
    <3>2. r \in SystemRole
      BY <3>1, SystemRoles DEF SeededAs, Audience
    <3> QED
      BY <2>2, <3>1, <3>2
  <2> QED
    BY <2>1, <2>2 DEF Init
<1>3. cache \in Context /\ default \subseteq member /\ flags \in {"unset", "set", "torn"}
  BY DEF Init, NoContext, Context, Fresh
<1>4. /\ client \in [Clients -> Session \cup {SignedOut}] /\ answer \in {"right", "wrong"}
      /\ req \in [Workers -> CodeRequest \cup AccessRequest \cup {Idle}] /\ GoalsAreMembers
  BY DEF Init, GoalsAreMembers, Idle
<1> QED
  BY <1>1, <1>2, <1>3, <1>4 DEF Typed, TypeOK

-----------------------------------------------------------------------------
(* Switching the community *)

\* The switches between their two updates, and between the second and the cache.
Flaggers == {w \in Workers : req[w].op = "flag"}
Droppers == {w \in Workers : req[w].op = "drop"}

\* While the flags are whole there is one default, or one switch about to set it.
DefaultInv ==
  /\ flags = "unset" => default = {} /\ Flaggers = {}
  /\ flags = "set" => \/ Flaggers = {} /\ \E c \in member : default = {c}
                      \/ default = {} /\ \E w \in Workers : Flaggers = {w}

\* A switch that no other one wrote during.
Alone(r) == r # Idle /\ r.op # "verify" /\ r.goal.why = "switch" /\ r.goal.alone = "yes"

\* What a request still knows.  A context read since the last write names the
\* default; a switch left alone has its own community there, and in the cache
\* once it has dropped what was cached.
Knows(r, d, c) ==
  /\ r.op = "fill" => (r.ctx.fresh = "yes" /\ d # {} => r.ctx.community \in d)
  /\ r.op \in {"find_user", "create_user"} => r.goal.why = "sign_in"
  /\ Alone(r) => /\ r.op = "flag" => d = {}
                 /\ r.op \in {"drop", "load", "read", "fill"} => d = {r.goal.to}
                 /\ r.op \in {"load", "read", "fill"} /\ c.fresh = "yes"
                      => c.community = r.goal.to

\* A wrong context stays cached only until the switch that made it wrong drops it.
CacheKnows ==
  cache.fresh = "yes" /\ default # {} => cache.community \in default \/ Droppers # {}

EffectInv == answer = "right" /\ CacheKnows /\ \A w \in Workers : Knows(req[w], default, cache)

SwitchInv == DefaultInv /\ EffectInv

\* While neither the defaults nor the cache change, a request knows what it knew.
LEMMA KnowsStays ==
  ASSUME NEW r, NEW d, NEW c, NEW c2, Knows(r, d, c), c2.fresh = "yes" => c2 = c
  PROVE  Knows(r, d, c2)
BY DEF Knows

\* A request that was outrun knows nothing that could be wrong.
LEMMA KnowsOutrun ==
  ASSUME NEW r \in Request, NEW d, NEW c, Knows(r, d, c), NEW d2, NEW c2
  PROVE  Knows(Outrun(r), d2, c2)
<1> DEFINE o == Outrun(r)
<1>1. /\ o \in Request /\ o.op = r.op
      /\ o.op = "fill" => o.ctx.fresh = "no"
      /\ r # Idle /\ r.op # "verify" => /\ o.goal.why = r.goal.why
                                        /\ r.goal.why = "switch" => o.goal.alone = "no"
      /\ r.op = "verify" \/ r = Idle => o = r
  BY OutrunFields
<1>2. r.op = "idle" <=> r = Idle
  BY RequestFields
<1> HIDE DEF o
<1>3. ~Alone(o)
  BY <1>1, <1>2 DEF Alone
<1>4. o.op \in {"find_user", "create_user"} => o.goal.why = "sign_in"
  BY <1>1, <1>2 DEF Knows
<1>5. Knows(o, d2, c2)
  BY <1>1, <1>3, <1>4 DEF Knows
<1> QED
  BY <1>5 DEF o

\* Nor does one that was aged, while the defaults stay.
LEMMA KnowsAged ==
  ASSUME NEW r \in Request, NEW d, NEW c, Knows(r, d, c), NEW c2, c2.fresh = "no"
  PROVE  Knows(Aged(r), d, c2)
<1> DEFINE o == Aged(r)
<1>1. /\ o \in Request /\ o.op = r.op
      /\ o.op = "fill" => o.ctx.fresh = "no"
      /\ r # Idle /\ r.op # "verify" => o.goal = r.goal
      /\ r.op = "verify" \/ r = Idle => o = r
  BY AgedFields
<1>2. r.op = "idle" <=> r = Idle
  BY RequestFields
<1> HIDE DEF o
<1>3. Alone(o) => Alone(r) /\ o.goal = r.goal
  BY <1>1, <1>2 DEF Alone
<1>4. Knows(o, d, c2)
  BY <1>1, <1>2, <1>3 DEF Knows
<1> QED
  BY <1>4 DEF o

LEMMA IdleKnows ==
  ASSUME NEW d, NEW c
  PROVE  Knows(Idle, d, c)
BY DEF Knows, Alone, Idle

\* A step that leaves the defaults alone, puts no other context in the cache and
\* changes the requests only where it knows what they then know.
LEMMA CalmStep ==
  ASSUME SwitchInv, UNCHANGED <<default, flags>>, member \subseteq member', answer' = answer,
         cache'.fresh = "yes" => cache' = cache,
         \A x \in Workers : /\ req'[x].op = "flag" <=> req[x].op = "flag"
                            /\ req'[x].op = "drop" <=> req[x].op = "drop"
                            /\ req'[x] # req[x] => Knows(req'[x], default, cache)
  PROVE  SwitchInv'
<1>1. Flaggers' = Flaggers /\ Droppers' = Droppers
  BY DEF Flaggers, Droppers
<1>2. DefaultInv'
  <2>1. CASE flags = "set"
    BY <1>1, <2>1 DEF SwitchInv, DefaultInv
  <2>2. CASE flags # "set"
    BY <1>1, <2>2 DEF SwitchInv, DefaultInv
  <2> QED
    BY <2>1, <2>2
<1>3. CacheKnows'
  BY <1>1 DEF SwitchInv, EffectInv, CacheKnows
<1>4. ASSUME NEW x \in Workers
      PROVE  Knows(req'[x], default', cache')
  <2>1. Knows(req'[x], default, cache)
    BY DEF SwitchInv, EffectInv
  <2> QED
    BY <2>1, KnowsStays
<1> QED
  BY <1>2, <1>3, <1>4 DEF SwitchInv, EffectInv

\* A context is delivered, from the cache or into it.
LEMMA DeliverEffect ==
  ASSUME Typed, SwitchInv, UNCHANGED <<default, flags, member>>, NEW w \in Workers,
         NEW x \in Context, Deliver(w, req[w].goal, x), req[w].op \in {"load", "fill"},
         \/ req[w].op = "load" /\ x = cache /\ cache' = cache
         \/ req[w].op = "fill" /\ x = req[w].ctx /\ cache' = x
  PROVE  SwitchInv'
<1>0. req \in [Workers -> Request] /\ req' = [req EXCEPT ![w] = Idle]
  BY DEF Deliver, Typed, TypeOK, Request
<1>1. req'[w] = Idle /\ \A y \in Workers \ {w} : req'[y] = req[y]
  BY <1>0
<1>2. Flaggers' = Flaggers /\ Droppers' = Droppers
  BY <1>1 DEF Flaggers, Droppers, Idle
<1>3. DefaultInv'
  <2>1. CASE flags = "set"
    BY <1>2, <2>1 DEF SwitchInv, DefaultInv
  <2>2. CASE flags # "set"
    BY <1>2, <2>2 DEF SwitchInv, DefaultInv
  <2> QED
    BY <2>1, <2>2
<1>4. Knows(req[w], default, cache) /\ req[w] # Idle
  BY DEF SwitchInv, EffectInv, Idle
<1>5. CacheKnows'
  BY <1>2, <1>4 DEF SwitchInv, EffectInv, CacheKnows, Knows
<1>6. answer' = "right"
  <2>1. SUFFICES ASSUME req[w].goal.why = "switch", x.community # req[w].goal.to, x.fresh = "yes",
                        req[w].goal.alone = "yes"
                 PROVE  FALSE
    BY DEF Deliver, SwitchInv, EffectInv
  <2>2. Alone(req[w])
    BY <1>4, <2>1 DEF Alone
  <2>3. default = {req[w].goal.to}
    BY <1>4, <2>2 DEF Knows
  <2> QED
    BY <1>4, <2>1, <2>2, <2>3 DEF Knows
<1>7. ASSUME NEW y \in Workers
      PROVE  Knows(req'[y], default', cache')
  <2>1. CASE y = w
    BY <1>1, <2>1, IdleKnows
  <2>2. CASE y # w
    <3>1. Knows(req[y], default, cache) /\ req'[y] = req[y]
      BY <1>1, <2>2 DEF SwitchInv, EffectInv
    <3>2. Alone(req[y]) /\ req[y].op \in {"load", "read", "fill"} /\ cache'.fresh = "yes"
            => cache'.community = req[y].goal.to
      BY <1>4, <3>1 DEF Knows
    <3> QED
      BY <3>1, <3>2 DEF Knows
  <2> QED
    BY <2>1, <2>2
<1> QED
  BY <1>3, <1>5, <1>6, <1>7 DEF SwitchInv, EffectInv

\* The three writes of a switch.
LEMMA ClearEffect ==
  ASSUME Typed, SwitchInv, NEW w \in Workers, ClearDefaults(w)
  PROVE  SwitchInv'
<1>1. /\ req' \in [Workers -> Request] /\ req'[w] = [op |-> "flag", goal |-> req[w].goal]
      /\ \A x \in Workers \ {w} : req'[x] = Outrun(req[x])
  BY WriteTypes DEF ClearDefaults, Typed
<1>2. \A x \in Workers : req[x] \in Request /\ Knows(req[x], default, cache)
  BY DEF Typed, TypeOK, Request, SwitchInv, EffectInv
<1>3. default' = {} /\ answer' = "right" /\ member' = member /\ req[w].op = "clear"
  BY DEF ClearDefaults, Cleared, SwitchInv, EffectInv
<1>4. Flaggers' = Flaggers \cup {w}
  BY <1>1, <1>2, OutrunFields DEF Flaggers
<1>5. flags' = "set" => Flaggers = {}
  BY DEF ClearDefaults, Flaggers
<1>6. flags' \in {"set", "torn"}
  BY DEF ClearDefaults
<1>7. DefaultInv'
  BY <1>3, <1>4, <1>5, <1>6 DEF DefaultInv
<1>8. CacheKnows'
  BY <1>3 DEF CacheKnows
<1>9. ASSUME NEW x \in Workers
      PROVE  Knows(req'[x], default', cache')
  <2>1. CASE x = w
    BY <1>1, <1>3, <2>1 DEF Knows, Alone
  <2>2. CASE x # w
    <3>1. req'[x] = Outrun(req[x])
      BY <1>1, <2>2
    <3> QED
      BY <1>2, <3>1, KnowsOutrun
  <2> QED
    BY <2>1, <2>2
<1> QED
  BY <1>3, <1>7, <1>8, <1>9 DEF SwitchInv, EffectInv

LEMMA SetEffect ==
  ASSUME Typed, SwitchInv, NEW w \in Workers, SetDefault(w)
  PROVE  SwitchInv'
<1>1. /\ req' \in [Workers -> Request] /\ req'[w] = [op |-> "drop", goal |-> req[w].goal]
      /\ \A x \in Workers \ {w} : req'[x] = Outrun(req[x])
  BY WriteTypes DEF SetDefault, Typed
<1>2. \A x \in Workers : req[x] \in Request /\ Knows(req[x], default, cache)
  BY DEF Typed, TypeOK, Request, SwitchInv, EffectInv
<1>3. /\ default' = default \cup {req[w].goal.to} /\ answer' = "right" /\ UNCHANGED <<member, flags, cache>>
      /\ req[w].op = "flag" /\ req[w] # Idle /\ req[w].goal.to \in member
  BY DEF SetDefault, SwitchInv, EffectInv, Typed, GoalsAreMembers, Idle
<1>4. Flaggers' = Flaggers \ {w} /\ w \in Flaggers
  BY <1>1, <1>2, <1>3, OutrunFields DEF Flaggers
<1>5. DefaultInv'
  <2>1. flags # "unset"
    BY <1>4 DEF SwitchInv, DefaultInv
  <2>2. CASE flags = "set"
    <3>1. default = {} /\ Flaggers = {w}
      BY <1>4, <2>2 DEF SwitchInv, DefaultInv
    <3>2. default' = {req[w].goal.to} /\ Flaggers' = {}
      BY <1>3, <1>4, <3>1
    <3> QED
      BY <1>3, <2>2, <3>2 DEF DefaultInv
  <2>3. CASE flags # "set"
    BY <1>3, <2>1, <2>3 DEF DefaultInv
  <2> QED
    BY <2>2, <2>3
<1>6. CacheKnows'
  <2>1. w \in Droppers'
    BY <1>1 DEF Droppers
  <2> QED
    BY <2>1 DEF CacheKnows
<1>7. ASSUME NEW x \in Workers
      PROVE  Knows(req'[x], default', cache')
  <2>1. CASE x = w
    <3>1. Alone(req'[w]) => Alone(req[w])
      BY <1>1, <1>3 DEF Alone
    <3>2. Alone(req[w]) => default' = {req[w].goal.to}
      BY <1>2, <1>3 DEF Knows
    <3> QED
      BY <1>1, <2>1, <3>1, <3>2 DEF Knows
  <2>2. CASE x # w
    <3>1. req'[x] = Outrun(req[x])
      BY <1>1, <2>2
    <3> QED
      BY <1>2, <3>1, KnowsOutrun
  <2> QED
    BY <2>1, <2>2
<1> QED
  BY <1>3, <1>5, <1>6, <1>7 DEF SwitchInv, EffectInv

LEMMA DropEffect ==
  ASSUME Typed, SwitchInv, NEW w \in Workers, DropContext(w)
  PROVE  SwitchInv'
<1>1. /\ req' \in [Workers -> Request] /\ req'[w] = [op |-> "load", goal |-> req[w].goal]
      /\ \A x \in Workers \ {w} : req'[x] = Outrun(req[x])
  BY WriteTypes DEF DropContext, Typed
<1>2. \A x \in Workers : req[x] \in Request /\ Knows(req[x], default, cache)
  BY DEF Typed, TypeOK, Request, SwitchInv, EffectInv
<1>3. /\ answer' = "right" /\ UNCHANGED <<member, default, flags>> /\ cache'.fresh = "no"
      /\ req[w].op = "drop" /\ req[w] # Idle
  BY DEF DropContext, Dropped, NoContext, memberVars, SwitchInv, EffectInv, Idle
<1>4. Flaggers' = Flaggers
  BY <1>1, <1>2, <1>3, OutrunFields DEF Flaggers
<1>5. DefaultInv'
  <2>1. CASE flags = "set"
    BY <1>3, <1>4, <2>1 DEF SwitchInv, DefaultInv
  <2>2. CASE flags # "set"
    BY <1>3, <1>4, <2>2 DEF SwitchInv, DefaultInv
  <2> QED
    BY <2>1, <2>2
<1>6. CacheKnows'
  BY <1>3 DEF CacheKnows
<1>7. ASSUME NEW x \in Workers
      PROVE  Knows(req'[x], default', cache')
  <2>1. CASE x = w
    <3>1. Alone(req'[w]) => Alone(req[w])
      BY <1>1, <1>3 DEF Alone
    <3>2. Alone(req[w]) => default' = {req[w].goal.to}
      BY <1>2, <1>3 DEF Knows
    <3> QED
      BY <1>1, <1>3, <2>1, <3>1, <3>2 DEF Knows
  <2>2. CASE x # w
    <3>1. req'[x] = Outrun(req[x])
      BY <1>1, <2>2
    <3> QED
      BY <1>2, <3>1, KnowsOutrun
  <2> QED
    BY <2>1, <2>2
<1> QED
  BY <1>3, <1>5, <1>6, <1>7 DEF SwitchInv, EffectInv

\* A switch that dies between its updates leaves the flags torn.
LEMMA FailEffect ==
  ASSUME Typed, SwitchInv, NEW w \in Workers, Fail(w)
  PROVE  SwitchInv'
<1>1. /\ req'[w] = Idle /\ \A x \in Workers \ {w} : req'[x] = req[x]
      /\ UNCHANGED <<member, default, cache, answer>> /\ req[w].op # "drop"
  BY DEF Fail, Typed, TypeOK
<1>2. \A x \in Workers : Knows(req[x], default, cache)
  BY DEF SwitchInv, EffectInv
<1>3. Droppers' = Droppers /\ Flaggers' = Flaggers \ {w}
  BY <1>1 DEF Droppers, Flaggers, Idle
<1>4. DefaultInv'
  <2>1. CASE req[w].op = "flag"
    BY <2>1 DEF Fail, DefaultInv
  <2>2. CASE req[w].op # "flag"
    <3>1. Flaggers' = Flaggers /\ flags' = flags
      BY <1>3, <2>2 DEF Flaggers, Fail
    <3>2. CASE flags = "set"
      BY <1>1, <3>1, <3>2 DEF SwitchInv, DefaultInv
    <3>3. CASE flags # "set"
      BY <1>1, <3>1, <3>3 DEF SwitchInv, DefaultInv
    <3> QED
      BY <3>2, <3>3
  <2> QED
    BY <2>1, <2>2
<1>5. CacheKnows'
  BY <1>1, <1>3 DEF SwitchInv, EffectInv, CacheKnows
<1>6. \A x \in Workers : Knows(req'[x], default', cache')
  BY <1>1, <1>2, IdleKnows
<1> QED
  BY <1>1, <1>4, <1>5, <1>6 DEF SwitchInv, EffectInv

LEMMA RestartEffect ==
  ASSUME Typed, SwitchInv, Restart
  PROVE  SwitchInv'
<1>1. /\ \A x \in Workers : req'[x] = Idle
      /\ UNCHANGED <<member, default, answer>> /\ cache'.fresh = "no"
  BY DEF Restart, NoContext
<1>2. Flaggers' = {} /\ (flags' = flags \/ flags' = "torn") /\ (flags' = "set" => Flaggers = {})
  BY <1>1 DEF Flaggers, Restart, Half, Idle
<1>3. DefaultInv'
  <2>1. CASE flags' = "set"
    BY <1>1, <1>2, <2>1 DEF SwitchInv, DefaultInv
  <2>2. CASE flags' # "set"
    BY <1>1, <1>2, <2>2 DEF SwitchInv, DefaultInv
  <2> QED
    BY <2>1, <2>2
<1>4. CacheKnows'
  BY <1>1 DEF CacheKnows
<1>5. \A x \in Workers : Knows(req'[x], default', cache')
  BY <1>1, IdleKnows
<1> QED
  BY <1>1, <1>3, <1>4, <1>5 DEF SwitchInv, EffectInv

\* A resident is added: what is cached or being loaded is old.
LEMMA AddEffect ==
  ASSUME Typed, SwitchInv, NEW c \in Communities, NEW k \in Kinds, AddResident(c, k)
  PROVE  SwitchInv'
<1>1. /\ \A x \in Workers : req'[x] = Aged(req[x])
      /\ UNCHANGED <<default, flags, answer>> /\ member \subseteq member'
  BY DEF AddResident
<1>2. \A x \in Workers : req[x] \in Request /\ Knows(req[x], default, cache)
  BY DEF Typed, TypeOK, Request, SwitchInv, EffectInv
<1>3. cache'.fresh = "no"
  <2>1. CASE cache = NoContext
    BY <2>1 DEF AddResident, NoContext
  <2>2. CASE cache # NoContext
    BY <2>2 DEF AddResident, Typed, TypeOK, Context
  <2> QED
    BY <2>1, <2>2
<1>4. Flaggers' = Flaggers
  BY <1>1, <1>2, AgedFields DEF Flaggers
<1>5. DefaultInv'
  <2>1. CASE flags = "set"
    BY <1>1, <1>4, <2>1 DEF SwitchInv, DefaultInv
  <2>2. CASE flags # "set"
    BY <1>1, <1>4, <2>2 DEF SwitchInv, DefaultInv
  <2> QED
    BY <2>1, <2>2
<1>6. CacheKnows'
  BY <1>3 DEF CacheKnows
<1>7. \A x \in Workers : Knows(req'[x], default', cache')
  BY <1>1, <1>2, <1>3, KnowsAged
<1> QED
  BY <1>1, <1>5, <1>6, <1>7 DEF SwitchInv, EffectInv

\* A request that starts something, or goes on with a goal that is no switch or
\* that it knew.
LEMMA GoesEffect ==
  ASSUME Typed, SwitchInv, UNCHANGED <<default, flags, cache, answer>>, member \subseteq member',
         NEW w \in Workers, NEW g \in Goal,
         NEW o \in {"find_user", "create_user", "load", "read", "clear"}, Goes(w, o, g),
         req[w].op \notin {"flag", "drop"}, o = "create_user" => g.why = "sign_in",
         g.why # "switch" \/ o = "clear" \/ (g = req[w].goal /\ o = "read" /\ req[w].op = "load"),
         o # "find_user"
  PROVE  SwitchInv'
<1>1. req'[w] = [op |-> o, goal |-> g] /\ \A x \in Workers \ {w} : req'[x] = req[x]
  BY DEF Goes, Typed, TypeOK
<1>2. Knows(req[w], default, cache)
  BY DEF SwitchInv, EffectInv
<1>3. Knows([op |-> o, goal |-> g], default, cache)
  <2>1. CASE o = "clear"
    BY <2>1 DEF Knows
  <2>2. CASE g.why # "switch"
    BY <2>2 DEF Knows, Alone
  <2>3. CASE g = req[w].goal /\ o = "read" /\ req[w].op = "load"
    BY <1>2, <2>3 DEF Knows, Alone, Idle
  <2> QED
    BY <2>1, <2>2, <2>3
<1>4. \A x \in Workers : /\ req'[x].op = "flag" <=> req[x].op = "flag"
                         /\ req'[x].op = "drop" <=> req[x].op = "drop"
                         /\ req'[x] # req[x] => Knows(req'[x], default, cache)
  BY <1>1, <1>3
<1> QED
  BY <1>4, CalmStep

\* A verification whose code was right knows whom to look for, and nothing else.
LEMMA VerifyEffect ==
  ASSUME Typed, SwitchInv, NEW w \in Workers, NEW t \in Clients, NEW a \in {"resident", "guard"},
         VerifyOtp(w, t, a)
  PROVE  SwitchInv'
<1> DEFINE g == [why |-> "sign_in", client |-> t, app |-> a]
           next == [op |-> "find_user", goal |-> g]
<1>1. next.op = "find_user" /\ next.goal.why = "sign_in" /\ Knows(next, default, cache)
  BY DEF Knows, Alone
<1>2. RightCode(w, next) /\ UNCHANGED <<member, default, flags, cache, answer>> /\ req[w].op = "verify"
  BY DEF VerifyOtp, RightCode, memberVars
<1> HIDE DEF next
<1>3. ASSUME NEW x \in Workers
      PROVE  /\ req'[x].op = "flag" <=> req[x].op = "flag"
             /\ req'[x].op = "drop" <=> req[x].op = "drop"
             /\ req'[x] # req[x] => Knows(req'[x], default, cache)
  <2>1. CASE x = w
    BY <1>1, <1>2, <2>1 DEF RightCode
  <2>2. CASE x # w /\ req[x].op = "verify"
    <3>1. req[x] \in CodeRequest /\ [req[x] EXCEPT !.fresh = "no"].op = "verify"
      BY <2>2, RequestFields DEF Typed, TypeOK, Request, CodeRequest
    <3>2. req'[x] = req[x] \/ req'[x] = [req[x] EXCEPT !.fresh = "no"]
      BY <1>2, <2>2 DEF RightCode
    <3>3. req'[x].op = "verify"
      BY <2>2, <3>1, <3>2
    <3> QED
      BY <2>2, <3>3 DEF Knows, Alone
  <2>3. CASE x # w /\ req[x].op # "verify"
    BY <1>2, <2>3 DEF RightCode
  <2> QED
    BY <2>1, <2>2, <2>3
<1> QED
  BY <1>2, <1>3, CalmStep

LEMMA StepEffect ==
  ASSUME Typed, SwitchInv, NEW w \in Workers, Step(w)
  PROVE  SwitchInv'
<1>0. /\ TypeOK /\ req \in [Workers -> Request] /\ Call \in Goal /\ Call.why = "call"
      /\ req[w].op \notin {"idle", "verify"} => req[w].goal \in Goal
      /\ Knows(req[w], default, cache)
  BY RequestFields DEF Typed, TypeOK, Request, Goal, Call, Idle, SwitchInv, EffectInv
<1>1. CASE StartCall(w)
  <2>1. /\ Goes(w, "read", Call) /\ UNCHANGED <<default, flags, cache, answer>> /\ member' = member
        /\ req[w].op = "idle"
    BY <1>1 DEF StartCall, memberVars, Idle
  <2> QED
    BY <1>0, <2>1, GoesEffect
<1>2. CASE Lookup(w)
  <2>1. /\ UNCHANGED <<member, default, flags, cache>> /\ req[w].op = "load" /\ req[w].goal \in Goal
    BY <1>0, <1>2 DEF Lookup, memberVars
  <2>2. CASE Deliver(w, req[w].goal, cache)
    <3>1. cache \in Context
      BY <1>0 DEF TypeOK
    <3> QED
      BY <2>1, <2>2, <3>1, DeliverEffect
  <2>3. CASE Goes(w, "read", req[w].goal) /\ UNCHANGED <<client, answer>>
    BY <2>1, <2>3, GoesEffect
  <2> QED
    BY <1>2, <2>2, <2>3 DEF Lookup
<1>3. CASE ReadContext(w)
  <2>1. PICK c \in Communities \cup {None} :
          /\ Active(c)
          /\ req' = [req EXCEPT ![w] =
                    [op |-> "fill", goal |-> req[w].goal,
                     ctx |-> [community |-> c, roles |-> IF c = None THEN {} ELSE roles[c],
                              fresh |-> "yes"]]]
    BY <1>3 DEF ReadContext
  <2>2. default # {} => c \in default
    BY <1>0, <2>1 DEF Active, TypeOK
  <2>3. /\ req'[w].op = "fill" /\ req'[w].goal = req[w].goal /\ req'[w].ctx.community = c
        /\ \A x \in Workers \ {w} : req'[x] = req[x]
        /\ req[w].op = "read" /\ req[w] # Idle
    BY <1>0, <1>3, <2>1 DEF ReadContext, Idle
  <2>4. Alone(req'[w]) => Alone(req[w])
    BY <2>3 DEF Alone
  <2>5. Knows(req'[w], default, cache)
    BY <1>0, <2>2, <2>3, <2>4 DEF Knows
  <2>6. \A x \in Workers : /\ req'[x].op = "flag" <=> req[x].op = "flag"
                           /\ req'[x].op = "drop" <=> req[x].op = "drop"
                           /\ req'[x] # req[x] => Knows(req'[x], default, cache)
    BY <2>3, <2>5
  <2> QED
    BY <1>3, <2>6, CalmStep DEF ReadContext, memberVars
<1>4. CASE FillCache(w)
  <2>1. req[w].ctx \in Context /\ req[w].op = "fill" /\ cache' = req[w].ctx
    BY <1>0, <1>4, RequestFields DEF FillCache
  <2> QED
    BY <1>4, <2>1, DeliverEffect DEF FillCache, memberVars
<1>5. CASE FindUser(w)
  <2>1. /\ req[w].goal \in Goal /\ req[w].op = "find_user" /\ req[w].goal.why = "sign_in"
        /\ UNCHANGED <<member, default, flags, cache, answer>>
    BY <1>0, <1>5 DEF FindUser, Knows, memberVars
  <2>2. CASE user = "absent"
    <3>1. Goes(w, "create_user", req[w].goal)
      BY <1>5, <2>2 DEF FindUser
    <3> QED
      BY <2>1, <3>1, GoesEffect
  <2>3. CASE user # "absent"
    <3>1. Goes(w, "load", req[w].goal)
      BY <1>5, <2>3 DEF FindUser
    <3> QED
      BY <2>1, <3>1, GoesEffect
  <2> QED
    BY <2>2, <2>3
<1>6. CASE CreateUser(w)
  <2>1. /\ req[w].goal \in Goal /\ req[w].op = "create_user" /\ req[w].goal.why = "sign_in"
        /\ UNCHANGED <<member, default, flags, cache, answer>> /\ Goes(w, "load", req[w].goal)
    BY <1>0, <1>6 DEF CreateUser, Knows
  <2> QED
    BY <2>1, GoesEffect
<1>7. ASSUME NEW c \in Communities, BeginSwitch(w, c)
      PROVE  SwitchInv'
  <2> DEFINE g == [why |-> "switch", to |-> c, alone |-> "yes"]
  <2>1. g \in Goal
    BY DEF Goal, Fresh
  <2>2. /\ Goes(w, "clear", g) /\ UNCHANGED <<member, default, flags, cache, answer>> /\ req[w].op = "idle"
    BY <1>7 DEF BeginSwitch, memberVars, Idle
  <2> HIDE DEF g
  <2> QED
    BY <2>1, <2>2, GoesEffect
<1>8. ASSUME NEW t \in Clients, LoginWithPassword(w, t)
      PROVE  SwitchInv'
  <2> DEFINE g == [why |-> "sign_in", client |-> t, app |-> "admin"]
  <2>1. g \in Goal /\ g.why = "sign_in"
    BY DEF Goal, App
  <2>2. /\ Goes(w, "load", g) /\ UNCHANGED <<member, default, flags, cache, answer>> /\ req[w].op = "idle"
    BY <1>8 DEF LoginWithPassword, memberVars, Idle
  <2> HIDE DEF g
  <2> QED
    BY <2>1, <2>2, GoesEffect
<1> QED
  BY <1>1, <1>2, <1>3, <1>4, <1>5, <1>6, <1>7, <1>8, VerifyEffect, ClearEffect, SetEffect, DropEffect,
     FailEffect DEF Step

LEMMA SwitchStep ==
  ASSUME Typed, SwitchInv, [Next]_vars
  PROVE  SwitchInv'
<1>1. CASE CodeStep
  <2>1. ASSUME NEW x \in Workers
        PROVE  /\ req'[x] = req[x] \/ req'[x] = Idle \/ req'[x].op = "verify"
               /\ req'[x] = req[x] \/ req[x].op \in {"idle", "verify"}
    <3>0. req \in [Workers -> CodeRequest \cup AccessRequest \cup {Idle}]
      BY DEF Typed, TypeOK
    <3>1. ASSUME NEW w \in Workers, BeginVerify(w)
          PROVE  /\ req'[x] = req[x] \/ req'[x] = Idle \/ req'[x].op = "verify"
                 /\ req'[x] = req[x] \/ req[x].op \in {"idle", "verify"}
      <4>1. req[w] = Idle /\ \E k \in Codes :
              req' = [req EXCEPT ![w] = [op |-> "verify", code |-> k, fresh |-> "yes"]]
        BY <3>1 DEF BeginVerify
      <4> QED
        BY <3>0, <4>1 DEF Idle
    <3>2. ASSUME NEW w \in Workers, WrongCode(w)
          PROVE  /\ req'[x] = req[x] \/ req'[x] = Idle \/ req'[x].op = "verify"
                 /\ req'[x] = req[x] \/ req[x].op \in {"idle", "verify"}
      BY <3>0, <3>2 DEF WrongCode
    <3>3. CASE req' = req
      BY <3>3
    <3> QED
      BY <1>1, <3>1, <3>2, <3>3 DEF CodeStep, RequestOtp, Expires, RefuseVerify, LeaveWindow, ForgetRows
  <2>2. \A x \in Workers : req'[x] # req[x] => Knows(req'[x], default, cache)
    BY <2>1 DEF Knows, Alone, Idle
  <2>3. \A x \in Workers : /\ req'[x].op = "flag" <=> req[x].op = "flag"
                           /\ req'[x].op = "drop" <=> req[x].op = "drop"
    BY <2>1 DEF Idle
  <2> QED
    BY <1>1, <2>2, <2>3, CalmStep DEF CodeStep, memberVars
<1>2. ASSUME NEW t \in Clients, SignOut(t)
      PROVE  SwitchInv'
  BY <1>2, CalmStep DEF SignOut, memberVars
<1>3. CASE ExpireContext
  BY <1>3, CalmStep DEF ExpireContext, memberVars, NoContext
<1>4. CASE UNCHANGED vars
  BY <1>4, CalmStep DEF vars, memberVars
<1> QED
  BY <1>1, <1>2, <1>3, <1>4, StepEffect, AddEffect, RestartEffect DEF Next

LEMMA SwitchInit == Init => SwitchInv
<1> SUFFICES ASSUME Init PROVE SwitchInv
  OBVIOUS
<1>1. Flaggers = {}
  BY DEF Init, Flaggers, Idle
<1>2. DefaultInv
  <2>1. default = {} \/ \E c \in member : default = {c}
    BY DEF Init
  <2> QED
    BY <1>1, <2>1 DEF Init, DefaultInv
<1>3. EffectInv
  BY DEF Init, EffectInv, CacheKnows, Knows, Alone, NoContext, Idle
<1> QED
  BY <1>2, <1>3 DEF SwitchInv

-----------------------------------------------------------------------------
(* What the apps call *)

LEMMA AdminNeeds ==
  ASSUME NEW route \in Calls("admin", FALSE)
  PROVE  route.needs \subseteq {"reports.view", "helpdesk.read", "notice.read", "notice.publish",
                               "resident.read", "parking.read", "audit.view",
                               "billing.create", "billing.approve"}
<1>1. route \in UNION {Dashboard, Reports, Tickets, Invoices, Notices, Residents, Vehicles, Audit}
  BY DEF Calls
<1>2. route \in Dashboard \cup Reports => route.needs \subseteq {"reports.view", "helpdesk.read"}
  BY DEF Dashboard, Reports, reports, billing, helpdesk, Needs, Asks, Login
<1>3. route \in Tickets => route.needs \subseteq {"helpdesk.read"}
  BY DEF Tickets, helpdesk, Needs, Asks, Login
<1>4. route \in Invoices => route.needs \subseteq {"billing.create", "billing.approve"}
  BY DEF Invoices, billing, Asks, Login
<1>5. route \in Notices => route.needs \subseteq {"notice.read", "notice.publish"}
  BY DEF Notices, notices, Needs, Asks
<1>6. route \in Residents \cup Vehicles \cup Audit => route.needs \subseteq {"resident.read", "parking.read", "audit.view"}
  BY DEF Residents, Vehicles, Audit, residents, parking, audit, NeedsHere, Needs, Asks
<1> QED
  BY <1>1, <1>2, <1>3, <1>4, <1>5, <1>6

LEMMA ResidentNeeds ==
  ASSUME NEW route \in Calls("resident", FALSE)
  PROVE  route.public \/ route.needs \subseteq Relative
<1>1. route \in UNION {Approvals, Invite, Help, Dues, Inbox}
  BY DEF Calls
<1>2. route \in Approvals \cup Invite \cup Inbox => route.needs \subseteq {"visitor.create"}
  BY DEF Approvals, Invite, Inbox, visitors, realtime, residents, auth, notifications, Needs, Asks, Login
<1>3. route \in Help => route.needs \subseteq {"helpdesk.create"}
  BY DEF Help, auth, helpdesk, Needs, Asks, Login
<1>4. route \in Dues => route.needs = {}
  BY DEF Dues, billing, devPayments, Asks, Login, Public
<1> QED
  BY <1>1, <1>2, <1>3, <1>4 DEF Relative

LEMMA GuardNeeds ==
  ASSUME NEW route \in Calls("guard", FALSE)
  PROVE  route.needs \subseteq {"visitor.read", "visitor.create", "visitor.gate.operations"}
<1>1. route \in UNION {GateHome, SpotRequest, CheckInOut}
  BY DEF Calls
<1>2. route \in GateHome \cup SpotRequest \cup CheckInOut
        => route.needs \subseteq {"visitor.read", "visitor.create", "visitor.gate.operations"}
  BY DEF GateHome, SpotRequest, CheckInOut, visitors, gateDirectory, Needs, Asks
<1> QED
  BY <1>1, <1>2

LEMMA AdminRoles ==
  ASSUME NEW r \in {"COMMUNITY_ADMIN", "COMMUNITY_SUPER_ADMIN"}
  PROVE  {"reports.view", "helpdesk.read", "notice.read", "notice.publish", "resident.read",
          "parking.read", "audit.view", "billing.create", "billing.approve"}
            \subseteq SYSTEM_ROLE_PERMISSIONS[r]
<1>1. {"reports.view", "helpdesk.read", "notice.read", "notice.publish", "resident.read",
       "parking.read", "audit.view", "billing.create", "billing.approve"} \subseteq ALL_PERMISSIONS
  BY DEF ALL_PERMISSIONS, PERMISSION_GROUPS
<1>2. PERMISSION_GROUPS.platform = {"platform.communities.manage"}
  BY DEF PERMISSION_GROUPS
<1> QED
  BY <1>1, <1>2 DEF SYSTEM_ROLE_PERMISSIONS

LEMMA ResidentRoles ==
  ASSUME NEW r \in {"RESIDENT_OWNER", "RESIDENT_TENANT", "FAMILY_MEMBER"}
  PROVE  Relative \subseteq SYSTEM_ROLE_PERMISSIONS[r]
BY DEF SYSTEM_ROLE_PERMISSIONS, Resident

LEMMA GuardRole ==
  SYSTEM_ROLE_PERMISSIONS["GUARD"] = {"visitor.read", "visitor.create", "visitor.gate.operations"}
BY DEF SYSTEM_ROLE_PERMISSIONS

\* What the pages of an app call, each role the app is for may call.
LEMMA CallsAreGranted ==
  ASSUME NEW app \in App, NEW r \in Audience(app), NEW route \in Calls(app, FALSE)
  PROVE  route.public \/ (r \in SystemRole /\ route.needs \subseteq SYSTEM_ROLE_PERMISSIONS[r])
<1>0. Audience(app) \subseteq SystemRole
  BY DEF Audience, SystemRole, SYSTEM_ROLE_PERMISSIONS, App
<1>1. CASE app = "admin"
  BY <1>0, <1>1, AdminNeeds, AdminRoles DEF Audience
<1>2. CASE app = "resident"
  BY <1>0, <1>2, ResidentNeeds, ResidentRoles DEF Audience
<1>3. CASE app = "guard"
  BY <1>0, <1>3, GuardNeeds, GuardRole DEF Audience
<1> QED
  BY <1>1, <1>2, <1>3 DEF App

-----------------------------------------------------------------------------
(* Signing in *)

\* A context names a community of the person with roles the person has there;
\* one that is up to date names one if there is any, with all the roles there.
Truthful(x, m, r) ==
  /\ x.community # None => x.community \in m /\ x.roles \subseteq r[x.community]
  /\ x.fresh = "yes" /\ m # {} =>
       x.community \in m /\ (x.community # None => x.roles = r[x.community])

ContextInv ==
  /\ Truthful(cache, member, roles)
  /\ \A w \in Workers : req[w].op = "fill" => Truthful(req[w].ctx, member, roles)

\* A tab remembers a community of the person and roles the person still has; if
\* no switch came between, the community is the default one.
SessionOK(s) ==
  s # SignedOut /\ s.community # None =>
    /\ s.community \in member /\ s.roles \subseteq roles[s.community]
    /\ s.moved = "no" /\ flags = "set" => s.community \in default

SessionInv == \A t \in Clients : SessionOK(client[t])

\* Memberships and roles are only added.
LEMMA OnlyMore ==
  ASSUME Typed, [Next]_vars
  PROVE  member \subseteq member' /\ \A c \in Communities : roles[c] \subseteq roles'[c]
<1>1. ASSUME NEW c \in Communities, NEW k \in Kinds, AddResident(c, k)
      PROVE  member \subseteq member' /\ \A d \in Communities : roles[d] \subseteq roles'[d]
  BY <1>1 DEF AddResident, Typed, TypeOK
<1>2. ASSUME NEW w \in Workers, Step(w)
      PROVE  UNCHANGED <<member, roles>>
  BY <1>2 DEF Step, StartCall, Lookup, ReadContext, FillCache, FindUser, CreateUser, ClearDefaults,
     SetDefault, DropContext, Fail, BeginSwitch, LoginWithPassword, VerifyOtp, memberVars
<1>3. CodeStep \/ (\E t \in Clients : SignOut(t)) \/ ExpireContext \/ Restart \/ UNCHANGED vars
        => UNCHANGED <<member, roles>>
  BY DEF CodeStep, SignOut, ExpireContext, Restart, vars, memberVars
<1> QED
  BY <1>1, <1>2, <1>3 DEF Next

\* No step of a code starts or changes the loading of a context.
LEMMA CodesLoadNothing ==
  ASSUME Typed, NEW x \in Workers, req'[x].op = "fill",
         CodeStep \/ \E w \in Workers, t \in Clients, a \in {"resident", "guard"} : VerifyOtp(w, t, a)
  PROVE  req'[x] = req[x]
<1>0. req \in [Workers -> CodeRequest \cup AccessRequest \cup {Idle}]
  BY DEF Typed, TypeOK
<1>1. ASSUME NEW w \in Workers, BeginVerify(w)
      PROVE  req'[x] = req[x]
  <2>1. PICK k \in Codes : req' = [req EXCEPT ![w] = [op |-> "verify", code |-> k, fresh |-> "yes"]]
    BY <1>1 DEF BeginVerify
  <2> QED
    BY <1>0, <2>1
<1>2. ASSUME NEW w \in Workers, WrongCode(w)
      PROVE  req'[x] = req[x]
  BY <1>0, <1>2 DEF WrongCode, Idle
<1>3. ASSUME NEW w \in Workers, NEW t \in Clients, NEW a \in {"resident", "guard"}, VerifyOtp(w, t, a)
      PROVE  req'[x] = req[x]
  <2> DEFINE next == [op |-> "find_user", goal |-> [why |-> "sign_in", client |-> t, app |-> a]]
  <2>1. RightCode(w, next) /\ next.op = "find_user"
    BY <1>3 DEF VerifyOtp
  <2> HIDE DEF next
  <2>2. CASE x = w
    BY <2>1, <2>2 DEF RightCode
  <2>3. CASE x # w /\ req[x].op = "verify"
    <3>1. req[x] \in CodeRequest /\ [req[x] EXCEPT !.fresh = "no"].op = "verify"
      BY <2>3, RequestFields DEF Typed, TypeOK, Request, CodeRequest
    <3> QED
      BY <2>1, <2>3, <3>1 DEF RightCode
  <2>4. CASE x # w /\ req[x].op # "verify"
    BY <2>1, <2>4 DEF RightCode
  <2> QED
    BY <2>2, <2>3, <2>4
<1> QED
  BY <1>1, <1>2, <1>3 DEF CodeStep, RequestOtp, Expires, RefuseVerify, LeaveWindow, ForgetRows

\* What is old stays true while memberships and roles grow.
LEMMA OldIsTruthful ==
  ASSUME NEW x, NEW x2, NEW m, NEW m2, NEW r, NEW r2, Truthful(x, m, r),
         m \subseteq m2, \A c \in m : r[c] \subseteq r2[c],
         x2.fresh = "no", x2.community = x.community, x2.roles = x.roles
  PROVE  Truthful(x2, m2, r2)
BY DEF Truthful

\* A step that adds nothing to the memberships, and loads no context.
LEMMA ContextsStay ==
  ASSUME Typed, ContextInv, UNCHANGED <<member, roles>>,
         cache' \in {cache, NoContext} \/ Truthful(cache', member, roles),
         \A x \in Workers : req'[x].op = "fill" =>
           req'[x] = req[x] \/ req'[x] = Outrun(req[x]) \/ Truthful(req'[x].ctx, member, roles)
  PROVE  ContextInv'
<1>1. Truthful(NoContext, member, roles)
  BY DEF Truthful, NoContext
<1>2. ASSUME NEW x \in Workers, req'[x].op = "fill"
      PROVE  Truthful(req'[x].ctx, member, roles)
  <2>1. CASE req'[x] = req[x]
    BY <1>2, <2>1 DEF ContextInv
  <2>2. CASE req'[x] = Outrun(req[x])
    <3>1. req[x] \in Request
      BY DEF Typed, TypeOK, Request
    <3>2. /\ req[x].op = "fill" /\ req'[x].ctx.fresh = "no"
          /\ req'[x].ctx.community = req[x].ctx.community /\ req'[x].ctx.roles = req[x].ctx.roles
      BY <1>2, <2>2, <3>1, OutrunFields
    <3>3. Truthful(req[x].ctx, member, roles)
      BY <3>2 DEF ContextInv
    <3> QED
      BY <3>2, <3>3, OldIsTruthful
  <2> QED
    BY <1>2, <2>1, <2>2
<1> QED
  BY <1>1, <1>2 DEF ContextInv

\* A context that is read is up to date.
LEMMA ReadIsTruthful ==
  ASSUME Typed, NEW c \in Communities \cup {None}, Active(c), NEW x,
         x = [community |-> c, roles |-> IF c = None THEN {} ELSE roles[c], fresh |-> "yes"]
  PROVE  Truthful(x, member, roles)
<1>1. member # {} => c \in member
  BY DEF Active, Typed, TypeOK
<1>2. member = {} => c = None
  BY DEF Active
<1> QED
  BY <1>1, <1>2 DEF Truthful

LEMMA ContextStep ==
  ASSUME Typed, ContextInv, [Next]_vars
  PROVE  ContextInv'
<1>0. req \in [Workers -> Request] /\ \A x \in Workers : req[x] \in Request
  BY DEF Typed, TypeOK, Request
<1>1. CASE CodeStep
  BY <1>1, CodesLoadNothing, ContextsStay DEF CodeStep, memberVars
<1>2. ASSUME NEW w \in Workers, NEW t \in Clients, NEW a \in {"resident", "guard"}, VerifyOtp(w, t, a)
      PROVE  ContextInv'
  BY <1>2, CodesLoadNothing, ContextsStay DEF VerifyOtp, memberVars
<1>3. ASSUME NEW w \in Workers, NEW g,
             NEW o \in {"find_user", "create_user", "load", "read", "clear"}, Goes(w, o, g),
             UNCHANGED <<member, roles, cache>>
      PROVE  ContextInv'
  <2>1. \A x \in Workers : req'[x].op = "fill" => req'[x] = req[x]
    BY <1>0, <1>3 DEF Goes
  <2> QED
    BY <1>3, <2>1, ContextsStay
<1>4. ASSUME NEW w \in Workers, req' = [req EXCEPT ![w] = Idle], UNCHANGED <<member, roles>>,
             cache' \in {cache, NoContext} \/ Truthful(cache', member, roles)
      PROVE  ContextInv'
  <2>1. \A x \in Workers : req'[x].op = "fill" => req'[x] = req[x]
    BY <1>0, <1>4 DEF Idle
  <2> QED
    BY <1>4, <2>1, ContextsStay
<1>5. ASSUME NEW w \in Workers, Lookup(w)
      PROVE  ContextInv'
  <2>1. UNCHANGED <<member, roles, cache>>
    BY <1>5 DEF Lookup, memberVars
  <2>2. CASE Deliver(w, req[w].goal, cache)
    BY <1>4, <2>1, <2>2 DEF Deliver
  <2>3. CASE Goes(w, "read", req[w].goal)
    BY <1>3, <2>1, <2>3
  <2> QED
    BY <1>5, <2>2, <2>3 DEF Lookup
<1>6. ASSUME NEW w \in Workers, ReadContext(w)
      PROVE  ContextInv'
  <2>1. PICK c \in Communities \cup {None} :
          /\ Active(c)
          /\ req' = [req EXCEPT ![w] =
                    [op |-> "fill", goal |-> req[w].goal,
                     ctx |-> [community |-> c, roles |-> IF c = None THEN {} ELSE roles[c],
                              fresh |-> "yes"]]]
    BY <1>6 DEF ReadContext
  <2> DEFINE ctx == [community |-> c, roles |-> IF c = None THEN {} ELSE roles[c], fresh |-> "yes"]
  <2>2. Truthful(ctx, member, roles)
    BY <2>1, ReadIsTruthful
  <2> HIDE DEF ctx
  <2>3. req' = [req EXCEPT ![w] = [op |-> "fill", goal |-> req[w].goal, ctx |-> ctx]]
    BY <2>1 DEF ctx
  <2>4. \A x \in Workers : req'[x] = req[x] \/ Truthful(req'[x].ctx, member, roles)
    BY <1>0, <2>2, <2>3
  <2> QED
    BY <1>6, <2>4, ContextsStay DEF ReadContext, memberVars
<1>7. ASSUME NEW w \in Workers, FillCache(w)
      PROVE  ContextInv'
  <2>1. Truthful(cache', member, roles) /\ UNCHANGED <<member, roles>>
    BY <1>7 DEF FillCache, ContextInv, memberVars
  <2>2. req' = [req EXCEPT ![w] = Idle]
    BY <1>7 DEF FillCache, Deliver
  <2> QED
    BY <1>4, <2>1, <2>2
<1>8. ASSUME NEW w \in Workers, ClearDefaults(w) \/ SetDefault(w) \/ DropContext(w)
      PROVE  ContextInv'
  <2>1. PICK o \in {"flag", "drop", "load"} : SwitchWrote(w, o) /\ req[w].op \in {"clear", "flag", "drop"}
    BY <1>8 DEF ClearDefaults, SetDefault, DropContext
  <2>2. req'[w].op # "fill" /\ \A x \in Workers \ {w} : req'[x] = Outrun(req[x])
    <3>1. /\ req'[w] = [op |-> o, goal |-> req[w].goal]
          /\ \A x \in Workers \ {w} : req'[x] = Outrun(req[x])
      BY <2>1, WriteTypes DEF Typed
    <3> QED
      BY <3>1
  <2>3. UNCHANGED <<member, roles>> /\ cache' \in {cache, NoContext}
    BY <1>8 DEF ClearDefaults, SetDefault, DropContext, Dropped, memberVars
  <2> QED
    BY <2>2, <2>3, ContextsStay
<1>9. ASSUME NEW w \in Workers, Step(w)
      PROVE  ContextInv'
  <2>1. Fail(w) => ContextInv'
    BY <1>4 DEF Fail
  <2>2. StartCall(w) \/ FindUser(w) \/ CreateUser(w) => ContextInv'
    BY <1>3 DEF StartCall, FindUser, CreateUser, memberVars
  <2>3. ASSUME NEW c \in Communities, BeginSwitch(w, c)
        PROVE  ContextInv'
    BY <1>3, <2>3 DEF BeginSwitch, memberVars
  <2>4. ASSUME NEW t \in Clients, LoginWithPassword(w, t)
        PROVE  ContextInv'
    BY <1>3, <2>4 DEF LoginWithPassword, memberVars
  <2> QED
    BY <1>2, <1>5, <1>6, <1>7, <1>8, <1>9, <2>1, <2>2, <2>3, <2>4 DEF Step
<1>10. ASSUME NEW c \in Communities, NEW k \in Kinds, AddResident(c, k)
       PROVE  ContextInv'
  <2>1. member \subseteq member' /\ \A d \in member : roles[d] \subseteq roles'[d]
    BY OnlyMore DEF Typed, TypeOK
  <2>2. /\ cache'.fresh = "no" /\ cache'.community = cache.community /\ cache'.roles = cache.roles
    <3>1. CASE cache = NoContext
      BY <1>10, <3>1 DEF AddResident, NoContext
    <3>2. CASE cache # NoContext
      BY <1>10, <3>2 DEF AddResident, Typed, TypeOK, Context
    <3> QED
      BY <3>1, <3>2
  <2>3. Truthful(cache', member', roles')
    BY <2>1, <2>2, OldIsTruthful DEF ContextInv
  <2>4. ASSUME NEW x \in Workers, req'[x].op = "fill"
        PROVE  Truthful(req'[x].ctx, member', roles')
    <3>1. req'[x] = Aged(req[x])
      BY <1>10 DEF AddResident
    <3>2. /\ req[x].op = "fill" /\ req'[x].ctx.fresh = "no"
          /\ req'[x].ctx.community = req[x].ctx.community /\ req'[x].ctx.roles = req[x].ctx.roles
      BY <1>0, <2>4, <3>1, AgedFields
    <3>3. Truthful(req[x].ctx, member, roles)
      BY <3>2 DEF ContextInv
    <3> QED
      BY <2>1, <3>2, <3>3, OldIsTruthful
  <2> QED
    BY <2>3, <2>4 DEF ContextInv
<1>11. CASE (\E t \in Clients : SignOut(t)) \/ ExpireContext \/ UNCHANGED vars
  <2>1. UNCHANGED <<member, roles, req>> /\ cache' \in {cache, NoContext}
    BY <1>11 DEF SignOut, ExpireContext, vars, memberVars
  <2> QED
    BY <2>1, ContextsStay
<1>12. CASE Restart
  <2>1. \A x \in Workers : req'[x].op # "fill"
    BY <1>12 DEF Restart, Idle
  <2> QED
    BY <1>12, <2>1, ContextsStay DEF Restart
<1> QED
  BY <1>1, <1>9, <1>10, <1>11, <1>12 DEF Next

\* The tabs stay as they were, or sign out, and no switch takes a step.
LEMMA SessionsStay ==
  ASSUME Typed, SessionInv, [Next]_vars, default' = default, flags' = "set" => flags = "set",
         \A t \in Clients : client'[t] \in {client[t], SignedOut}
  PROVE  SessionInv'
<1> SUFFICES ASSUME NEW t \in Clients, client'[t] = client[t], client[t] # SignedOut,
                    client[t].community # None
             PROVE  /\ client[t].community \in member' /\ client[t].roles \subseteq roles'[client[t].community]
                    /\ client[t].moved = "no" /\ flags' = "set" => client[t].community \in default'
  BY DEF SessionInv, SessionOK
<1>1. /\ client[t].community \in member /\ client[t].roles \subseteq roles[client[t].community]
      /\ client[t].moved = "no" /\ flags = "set" => client[t].community \in default
  BY DEF SessionInv, SessionOK
<1> QED
  BY <1>1, OnlyMore DEF Typed, TypeOK

\* A tab signs in with a context; one up to date names the default.
LEMMA SessionsSignIn ==
  ASSUME Typed, SwitchInv, SessionInv, NEW w \in Workers, NEW g \in Goal, NEW x \in Context,
         Deliver(w, g, x), UNCHANGED memberVars, Truthful(x, member, roles),
         x.fresh = "yes" /\ ~Switching /\ default # {} => x.community \in default
  PROVE  SessionInv'
<1>1. flags = "set" /\ ~Switching => default # {}
  BY DEF SwitchInv, DefaultInv, Switching, Flaggers
<1>2. client \in [Clients -> Session \cup {SignedOut}]
  BY DEF Typed, TypeOK
<1> SUFFICES ASSUME NEW t \in Clients, client'[t] # SignedOut, client'[t].community # None
             PROVE  /\ client'[t].community \in member /\ client'[t].roles \subseteq roles[client'[t].community]
                    /\ client'[t].moved = "no" /\ flags = "set" => client'[t].community \in default
  BY DEF SessionInv, SessionOK, memberVars
<1>3. CASE client'[t] = client[t]
  BY <1>3 DEF SessionInv, SessionOK
<1>4. CASE client'[t] # client[t]
  <2>1. client'[t] = [app |-> g.app, community |-> x.community, roles |-> x.roles,
                      moved |-> IF x.fresh = "no" \/ Switching THEN "yes" ELSE "no"]
    BY <1>2, <1>4 DEF Deliver
  <2>2. /\ client'[t].community = x.community /\ client'[t].roles = x.roles
        /\ client'[t].moved = "no" => x.fresh # "no" /\ ~Switching
    BY <2>1
  <2>3. x.fresh # "no" => x.fresh = "yes"
    BY DEF Context, Fresh
  <2> QED
    BY <1>1, <2>2, <2>3 DEF Truthful
<1> QED
  BY <1>3, <1>4

\* A switch writes: every tab has moved.
LEMMA SessionsMove ==
  ASSUME Typed, SessionInv, NEW w \in Workers, NEW o \in {"flag", "drop", "load"}, SwitchWrote(w, o),
         UNCHANGED <<member, roles>>
  PROVE  SessionInv'
<1> SUFFICES ASSUME NEW t \in Clients, client'[t] # SignedOut, client'[t].community # None
             PROVE  /\ client'[t].community \in member /\ client'[t].roles \subseteq roles[client'[t].community]
                    /\ client'[t].moved # "no"
  BY DEF SessionInv, SessionOK
<1>1. client[t] # SignedOut /\ client'[t] = [client[t] EXCEPT !.moved = "yes"]
  BY DEF SwitchWrote
<1>2. client[t] \in Session
  BY <1>1 DEF Typed, TypeOK
<1>3. client'[t].community = client[t].community /\ client'[t].roles = client[t].roles
      /\ client'[t].moved = "yes"
  BY <1>1, <1>2 DEF Session
<1> QED
  BY <1>1, <1>3 DEF SessionInv, SessionOK

LEMMA SessionStep ==
  ASSUME Typed, SwitchInv, ContextInv, SessionInv, [Next]_vars
  PROVE  SessionInv'
<1>0. /\ req \in [Workers -> Request] /\ cache \in Context
      /\ client \in [Clients -> Session \cup {SignedOut}]
  BY DEF Typed, TypeOK, Request
<1>1. ASSUME UNCHANGED <<client, default>>, flags' = "set" => flags = "set"
      PROVE  SessionInv'
  BY <1>1, SessionsStay
<1>2. ASSUME NEW t \in Clients, SignOut(t)
      PROVE  SessionInv'
  <2>1. \A u \in Clients : client'[u] \in {client[u], SignedOut}
    BY <1>0, <1>2 DEF SignOut
  <2> QED
    BY <1>2, <2>1, SessionsStay DEF SignOut, memberVars
<1>3. ASSUME NEW w \in Workers, Lookup(w)
      PROVE  SessionInv'
  <2>1. req[w].goal \in Goal /\ UNCHANGED memberVars
    BY <1>0, <1>3, RequestFields DEF Lookup, Idle
  <2>2. CASE Deliver(w, req[w].goal, cache)
    <3>1. cache.fresh = "yes" /\ ~Switching /\ default # {} => cache.community \in default
      BY DEF SwitchInv, EffectInv, CacheKnows, Droppers, Switching
    <3> QED
      BY <1>0, <2>1, <2>2, <3>1, SessionsSignIn DEF ContextInv
  <2>3. CASE UNCHANGED <<client, answer>>
    BY <1>1, <2>1, <2>3 DEF memberVars
  <2> QED
    BY <1>3, <2>2, <2>3 DEF Lookup
<1>4. ASSUME NEW w \in Workers, FillCache(w)
      PROVE  SessionInv'
  <2>1. /\ req[w].op = "fill" /\ req[w].goal \in Goal /\ req[w].ctx \in Context /\ UNCHANGED memberVars
        /\ Deliver(w, req[w].goal, req[w].ctx)
    BY <1>0, <1>4, RequestFields DEF FillCache, Idle
  <2>2. req[w].ctx.fresh = "yes" /\ default # {} => req[w].ctx.community \in default
    BY <2>1 DEF SwitchInv, EffectInv, Knows
  <2> QED
    BY <2>1, <2>2, SessionsSignIn DEF ContextInv
<1>5. ASSUME NEW w \in Workers, ClearDefaults(w) \/ SetDefault(w) \/ DropContext(w)
      PROVE  SessionInv'
  BY <1>5, SessionsMove DEF ClearDefaults, SetDefault, DropContext, memberVars
<1>6. ASSUME NEW w \in Workers, Step(w)
      PROVE  SessionInv'
  <2>1. StartCall(w) \/ ReadContext(w) \/ FindUser(w) \/ CreateUser(w) \/ Fail(w)
          => UNCHANGED <<client, default>> /\ (flags' = "set" => flags = "set")
    BY DEF StartCall, ReadContext, FindUser, CreateUser, Fail, memberVars
  <2>2. ASSUME NEW c \in Communities, BeginSwitch(w, c)
        PROVE  UNCHANGED <<client, default, flags>>
    BY <2>2 DEF BeginSwitch, memberVars
  <2>3. ASSUME NEW t \in Clients,
               LoginWithPassword(w, t) \/ \E a \in {"resident", "guard"} : VerifyOtp(w, t, a)
        PROVE  UNCHANGED <<client, default, flags>>
    BY <2>3 DEF LoginWithPassword, VerifyOtp, memberVars
  <2> QED
    BY <1>1, <1>3, <1>4, <1>5, <1>6, <2>1, <2>2, <2>3 DEF Step
<1>7. ASSUME CodeStep \/ ExpireContext \/ Restart \/ UNCHANGED vars
             \/ \E c \in Communities, k \in Kinds : AddResident(c, k)
      PROVE  UNCHANGED <<client, default>> /\ (flags' = "set" => flags = "set")
  BY <1>7 DEF CodeStep, ExpireContext, Restart, vars, AddResident, memberVars
<1> QED
  BY <1>1, <1>2, <1>6, <1>7 DEF Next

LEMMA SignInInit == Init => ContextInv /\ SessionInv
BY DEF Init, ContextInv, SessionInv, SessionOK, Truthful, NoContext, Idle, SignedOut

-----------------------------------------------------------------------------
(* One-time codes *)

VerifyingCode(k) == {w \in Workers : req[w].op = "verify" /\ req[w].code = k}

\* A row r of code k while n verifications of it are open and the throttle
\* holds s.  What a live code was tried is behind its own entry in s.
CodeOK(r, n, s, k) ==
  /\ r.state = "unsent" => r.attempts = 0 /\ n = 0
  /\ r.state \in {"unsent", "live"} => r.logins = 0
  /\ r.attempts + n < MaxAttempts + Cardinality(Workers)
  /\ r.steady = "yes" => r.attempts + r.logins + n < MaxRecent
  /\ r.state = "live" /\ r.steady = "yes" =>
       \E i \in 1..Len(s) : s[i] = k /\ r.attempts + r.logins + n <= Len(s) - i

\* A code is used once by verifications that did not overlap.
LoginOK(r, q) ==
  /\ r.apart = "yes" => r.logins <= 1
  /\ q.op = "verify" => (q.fresh = "yes" /\ r.apart = "yes" => r.logins = 0)

CodesOK == \A k \in Codes : CodeOK(code[k], Cardinality(VerifyingCode(k)), recent, k)

LoginsOK ==
  \A k \in Codes :
     /\ code[k].apart = "yes" => code[k].logins <= 1
     /\ \A w \in VerifyingCode(k) : LoginOK(code[k], req[w])

CodeInv == CodesOK /\ LoginsOK

\* Fewer open verifications never hurt.
LEMMA CodeOKLess ==
  ASSUME NEW r \in Row, NEW n \in Nat, NEW m \in Nat, m <= n, NEW s, NEW k, Len(s) \in Nat, CodeOK(r, n, s, k)
  PROVE  CodeOK(r, m, s, k)
<1>0. r.attempts \in Nat /\ r.logins \in Nat
  BY DEF Row
<1>1. Cardinality(Workers) \in Nat
  BY OneTimeCodeAssumption, FS_CardinalityType
<1>2. /\ r.state = "unsent" => r.attempts = 0 /\ m = 0
      /\ r.attempts + m < MaxAttempts + Cardinality(Workers)
      /\ r.steady = "yes" => r.attempts + r.logins + m < MaxRecent
  <2>1. /\ r.state = "unsent" => r.attempts = 0 /\ n = 0
        /\ r.attempts + n < MaxAttempts + Cardinality(Workers)
        /\ r.steady = "yes" => r.attempts + r.logins + n < MaxRecent
    BY DEF CodeOK
  <2>2. r.attempts + m < MaxAttempts + Cardinality(Workers)
    BY <1>0, <1>1, <2>1, OneTimeCodeAssumption
  <2>3. r.steady = "yes" => r.attempts + r.logins + m < MaxRecent
    BY <1>0, <2>1, OneTimeCodeAssumption
  <2> QED
    BY <2>1, <2>2, <2>3
<1>3. ASSUME r.state = "live", r.steady = "yes"
      PROVE  \E i \in 1..Len(s) : s[i] = k /\ r.attempts + r.logins + m <= Len(s) - i
  <2>1. PICK i \in 1..Len(s) : s[i] = k /\ r.attempts + r.logins + n <= Len(s) - i
    BY <1>3 DEF CodeOK
  <2>2. r.attempts + r.logins + m <= Len(s) - i
    BY <1>0, <2>1
  <2> QED
    BY <2>1, <2>2
<1> QED
  BY <1>2, <1>3 DEF CodeOK

\* Nor does another entry in the throttle.
LEMMA CodeOKAppend ==
  ASSUME NEW r \in Row, NEW n \in Nat, NEW s \in Seq(0..MaxCodes), NEW k, NEW e \in 0..MaxCodes,
         CodeOK(r, n, s, k)
  PROVE  CodeOK(r, n, Append(s, e), k)
<1>0. r.attempts \in Nat /\ r.logins \in Nat
  BY DEF Row
<1>1. /\ Len(s) \in Nat /\ Len(Append(s, e)) = Len(s) + 1
      /\ \A i \in 1..Len(s) : Append(s, e)[i] = s[i]
  OBVIOUS
<1>2. ASSUME r.state = "live", r.steady = "yes"
      PROVE  \E i \in 1..Len(Append(s, e)) :
               Append(s, e)[i] = k /\ r.attempts + r.logins + n <= Len(Append(s, e)) - i
  <2>1. PICK i \in 1..Len(s) : s[i] = k /\ r.attempts + r.logins + n <= Len(s) - i
    BY <1>2 DEF CodeOK
  <2>2. i \in 1..Len(Append(s, e)) /\ r.attempts + r.logins + n <= Len(Append(s, e)) - i
    BY <1>0, <1>1, <2>1
  <2> QED
    BY <1>1, <2>1, <2>2
<1> QED
  BY <1>2 DEF CodeOK

\* The entry of a live code is not the one that leaves the throttle.
LEMMA CodeOKTail ==
  ASSUME NEW r \in Row, NEW n \in Nat, NEW s \in Seq(0..MaxCodes), s # <<>>, NEW k,
         r.state = "live" => Head(s) # k, CodeOK(r, n, s, k)
  PROVE  CodeOK(r, n, Tail(s), k)
<1>0. r.attempts \in Nat /\ r.logins \in Nat
  BY DEF Row
<1>1. /\ Len(s) \in Nat /\ Len(s) > 0 /\ Head(s) = s[1] /\ Len(Tail(s)) = Len(s) - 1
      /\ \A i \in 1..(Len(s) - 1) : Tail(s)[i] = s[i + 1]
  OBVIOUS
<1>2. ASSUME r.state = "live", r.steady = "yes"
      PROVE  \E i \in 1..Len(Tail(s)) :
               Tail(s)[i] = k /\ r.attempts + r.logins + n <= Len(Tail(s)) - i
  <2>1. PICK i \in 1..Len(s) : s[i] = k /\ r.attempts + r.logins + n <= Len(s) - i
    BY <1>2 DEF CodeOK
  <2>2. i # 1
    BY <1>1, <1>2, <2>1
  <2>3. i - 1 \in 1..Len(Tail(s)) /\ r.attempts + r.logins + n <= Len(Tail(s)) - (i - 1)
    BY <1>0, <1>1, <2>1, <2>2
  <2>4. Tail(s)[i - 1] = k
    BY <1>1, <2>1, <2>3
  <2> QED
    BY <2>3, <2>4
<1> QED
  BY <1>2 DEF CodeOK

\* The open verifications are finitely many.
LEMMA FewVerify ==
  ASSUME NEW k
  PROVE  /\ IsFiniteSet(VerifyingCode(k)) /\ Cardinality(VerifyingCode(k)) \in Nat
         /\ Cardinality(VerifyingCode(k)) <= Cardinality(Workers) /\ Cardinality(Workers) \in Nat
<1>1. VerifyingCode(k) \subseteq Workers
  BY DEF VerifyingCode
<1> QED
  BY <1>1, OneTimeCodeAssumption, FS_Subset, FS_CardinalityType

\* A step that leaves the codes alone and opens no verification.
LEMMA CodesUntouched ==
  ASSUME Typed, CodeInv, UNCHANGED codeVars,
         \A w \in Workers : req'[w].op = "verify" => req'[w] = req[w]
  PROVE  CodeInv'
<1>1. ASSUME NEW k \in Codes
      PROVE  /\ CodeOK(code'[k], Cardinality(VerifyingCode(k)'), recent', k)
             /\ code'[k].apart = "yes" => code'[k].logins <= 1
             /\ \A w \in VerifyingCode(k)' : LoginOK(code'[k], req'[w])
  <2>1. VerifyingCode(k)' \subseteq VerifyingCode(k) /\ \A w \in VerifyingCode(k)' : req'[w] = req[w]
    BY DEF VerifyingCode
  <2>2. /\ Cardinality(VerifyingCode(k)') \in Nat
        /\ Cardinality(VerifyingCode(k)') <= Cardinality(VerifyingCode(k))
    BY <2>1, FewVerify, FS_Subset, FS_CardinalityType
  <2>3. code'[k] = code[k] /\ recent' = recent /\ code[k] \in Row /\ Len(recent) \in Nat
    BY DEF codeVars, Typed, TypeOK, CodeTypeOK
  <2>4. CodeOK(code[k], Cardinality(VerifyingCode(k)), recent, k)
    BY DEF CodeInv, CodesOK
  <2>5. CodeOK(code[k], Cardinality(VerifyingCode(k)'), recent, k)
    BY <2>2, <2>3, <2>4, FewVerify, CodeOKLess
  <2>6. /\ code[k].apart = "yes" => code[k].logins <= 1
        /\ \A w \in VerifyingCode(k) : LoginOK(code[k], req[w])
    BY DEF CodeInv, LoginsOK
  <2> QED
    BY <2>1, <2>3, <2>5, <2>6
<1> QED
  BY <1>1 DEF CodeInv, CodesOK, LoginsOK

\* What the steps of the codes know of the state they start in.
LEMMA CodeFacts ==
  ASSUME Typed, CodeInv
  PROVE  /\ code \in [Codes -> Row] /\ recent \in Seq(0..MaxCodes) /\ Len(recent) <= MaxRecent
         /\ Len(recent) \in Nat
         /\ req \in [Workers -> Request]
         /\ \A k \in Codes : /\ CodeOK(code[k], Cardinality(VerifyingCode(k)), recent, k)
                             /\ code[k].apart = "yes" => code[k].logins <= 1
                             /\ \A w \in VerifyingCode(k) : LoginOK(code[k], req[w])
BY DEF Typed, TypeOK, CodeTypeOK, Request, CodeInv, CodesOK, LoginsOK

LEMMA RequestKeepsCodes ==
  ASSUME Typed, CodeInv, NEW k \in Codes, RequestOtp(k)
  PROVE  CodeInv'
<1>1. /\ code[k].state = "unsent" /\ Len(recent) < MaxRecent /\ recent' = Append(recent, k)
      /\ code' = [code EXCEPT ![k] = [@ EXCEPT !.state = "live"]] /\ req' = req
  BY DEF RequestOtp, NotSpammy
<1>2. \A l \in Codes : VerifyingCode(l)' = VerifyingCode(l)
  BY <1>1 DEF VerifyingCode
<1>3. k \in 0..MaxCodes
  BY OneTimeCodeAssumption DEF Codes
<1>4. ASSUME NEW l \in Codes, l # k
      PROVE  /\ CodeOK(code'[l], Cardinality(VerifyingCode(l)'), recent', l)
             /\ code'[l] = code[l]
  BY <1>1, <1>2, <1>3, <1>4, CodeFacts, FewVerify, CodeOKAppend
<1>5. /\ code'[k] \in Row /\ code'[k].state = "live" /\ code'[k].attempts = code[k].attempts
      /\ code'[k].logins = code[k].logins /\ code'[k].apart = code[k].apart
  BY <1>1, CodeFacts DEF Row
<1>6. /\ code'[k].attempts = 0 /\ code'[k].logins = 0 /\ Cardinality(VerifyingCode(k)') = 0
      /\ 0 < MaxAttempts + Cardinality(Workers)
  BY <1>1, <1>2, <1>5, CodeFacts, FewVerify, OneTimeCodeAssumption DEF CodeOK
<1>7. CodeOK(code'[k], Cardinality(VerifyingCode(k)'), recent', k)
  <2>1. /\ Len(recent') = Len(recent) + 1 /\ recent'[Len(recent) + 1] = k
        /\ Len(recent) + 1 \in 1..Len(recent')
    BY <1>1, <1>3, CodeFacts
  <2>2. code'[k].attempts + code'[k].logins + Cardinality(VerifyingCode(k)') = 0
    BY <1>6
  <2>3. \E i \in 1..Len(recent') : recent'[i] = k /\ 0 <= Len(recent') - i
    BY <2>1, CodeFacts
  <2> QED
    BY <1>5, <1>6, <2>2, <2>3, OneTimeCodeAssumption DEF CodeOK
<1>8. ASSUME NEW l \in Codes
      PROVE  /\ CodeOK(code'[l], Cardinality(VerifyingCode(l)'), recent', l)
             /\ code'[l].apart = "yes" => code'[l].logins <= 1
             /\ \A w \in VerifyingCode(l)' : LoginOK(code'[l], req'[w])
  <2>1. CASE l = k
    BY <1>6, <1>7, <2>1 DEF LoginOK
  <2>2. CASE l # k
    BY <1>1, <1>2, <1>4, <2>2, CodeFacts
  <2> QED
    BY <2>1, <2>2
<1> QED
  BY <1>8 DEF CodeInv, CodesOK, LoginsOK

\* A verification in flight is spent on its code: as an attempt or a login.
LEMMA BeginKeepsCodes ==
  ASSUME Typed, CodeInv, NEW w \in Workers, BeginVerify(w)
  PROVE  CodeInv'
<1>1. PICK k \in Codes : /\ Newest(k) /\ code[k].attempts < MaxAttempts
                         /\ req' = [req EXCEPT ![w] = [op |-> "verify", code |-> k, fresh |-> "yes"]]
  BY DEF BeginVerify
<1>2. /\ code' = code /\ req[w] = Idle /\ Len(recent) < MaxRecent /\ recent' = Append(recent, 0)
      /\ code[k].state = "live" /\ 0 \in 0..MaxCodes
  BY <1>1, OneTimeCodeAssumption DEF BeginVerify, NotSpammy, Newest, Live
<1>3. /\ req'[w].op = "verify" /\ req'[w].code = k /\ req[w].op # "verify"
      /\ \A x \in Workers \ {w} : req'[x] = req[x]
  BY <1>1, <1>2, CodeFacts DEF Idle
<1>4. /\ VerifyingCode(k)' = VerifyingCode(k) \cup {w} /\ w \notin VerifyingCode(k)
      /\ \A l \in Codes \ {k} : VerifyingCode(l)' = VerifyingCode(l)
  BY <1>3 DEF VerifyingCode
<1>5. /\ Cardinality(VerifyingCode(k)') = Cardinality(VerifyingCode(k)) + 1
      /\ Cardinality(VerifyingCode(k)') <= Cardinality(Workers)
  <2>1. VerifyingCode(k)' \subseteq Workers
    BY DEF VerifyingCode
  <2> QED
    BY <1>4, <2>1, FewVerify, FS_AddElement, FS_Subset, OneTimeCodeAssumption
<1>6. ASSUME NEW l \in Codes
      PROVE  CodeOK(code'[l], Cardinality(VerifyingCode(l)), recent', l)
  BY <1>2, CodeFacts, FewVerify, CodeOKAppend
<1>7. CodeOK(code'[k], Cardinality(VerifyingCode(k)'), recent', k)
  <2> DEFINE r == code[k]
             n == Cardinality(VerifyingCode(k))
  <2>1. r \in Row /\ r.attempts \in Nat /\ r.logins \in Nat /\ n \in Nat /\ Cardinality(Workers) \in Nat
    BY CodeFacts, FewVerify DEF Row
  <2>2. Len(recent') = Len(recent) + 1 /\ \A i \in 1..Len(recent) : recent'[i] = recent[i]
    BY <1>2, CodeFacts
  <2>3. r.attempts + (n + 1) < MaxAttempts + Cardinality(Workers)
    BY <1>1, <1>5, <2>1, OneTimeCodeAssumption
  <2>4. ASSUME r.steady = "yes"
        PROVE  /\ \E i \in 1..Len(recent') :
                     recent'[i] = k /\ r.attempts + r.logins + (n + 1) <= Len(recent') - i
               /\ r.attempts + r.logins + (n + 1) < MaxRecent
    <3>1. PICK i \in 1..Len(recent) : recent[i] = k /\ r.attempts + r.logins + n <= Len(recent) - i
      BY <1>2, <2>4, CodeFacts DEF CodeOK
    <3>2. i \in 1..Len(recent') /\ recent'[i] = k
      BY <2>2, <3>1, CodeFacts
    <3>3. r.attempts + r.logins + (n + 1) <= Len(recent') - i
      BY <2>1, <2>2, <3>1, CodeFacts
    <3>4. r.attempts + r.logins + (n + 1) < MaxRecent
      <4>1. Len(recent) - i + 1 < MaxRecent /\ r.attempts + r.logins + n <= Len(recent) - i
        BY <1>2, <3>1, CodeFacts, OneTimeCodeAssumption
      <4>2. Len(recent) - i \in Int /\ MaxRecent \in Int
        BY <3>1, CodeFacts, OneTimeCodeAssumption
      <4> HIDE DEF n, r
      <4> QED
        BY <2>1, <4>1, <4>2
    <3> QED
      BY <3>2, <3>3, <3>4
  <2>5. r.logins = 0
    BY <1>2, CodeFacts DEF CodeOK
  <2> HIDE DEF n
  <2>6. CodeOK(r, n + 1, recent', k)
    BY <1>2, <2>1, <2>3, <2>4, <2>5 DEF CodeOK
  <2> QED
    BY <1>2, <1>5, <2>6 DEF n
<1>8. ASSUME NEW l \in Codes
      PROVE  /\ CodeOK(code'[l], Cardinality(VerifyingCode(l)'), recent', l)
             /\ code'[l].apart = "yes" => code'[l].logins <= 1
             /\ \A x \in VerifyingCode(l)' : LoginOK(code'[l], req'[x])
  <2>1. CodeOK(code'[l], Cardinality(VerifyingCode(l)'), recent', l)
    BY <1>4, <1>6, <1>7
  <2>2. code'[l].apart = "yes" => code'[l].logins <= 1
    BY <1>2, CodeFacts
  <2>3. ASSUME NEW x \in VerifyingCode(l)'
        PROVE  LoginOK(code'[l], req'[x])
    <3>1. CASE x = w
      <4>1. l = k
        BY <1>3, <2>3, <3>1 DEF VerifyingCode
      <4> QED
        BY <1>2, <4>1, CodeFacts DEF LoginOK, CodeOK
    <3>2. CASE x # w
      <4>1. x \in VerifyingCode(l) /\ req'[x] = req[x]
        BY <1>3, <2>3, <3>2 DEF VerifyingCode
      <4> QED
        BY <1>2, <4>1, CodeFacts
    <3> QED
      BY <3>1, <3>2
  <2> QED
    BY <2>1, <2>2, <2>3
<1> QED
  BY <1>8 DEF CodeInv, CodesOK, LoginsOK

LEMMA Spending ==
  ASSUME NEW a \in Nat, NEW b \in Nat, NEW c \in Nat, NEW d \in Nat, NEW n \in Nat, NEW m \in Nat,
         n = m + 1, (c = a + 1 /\ d = b) \/ (c = a /\ d = b + 1)
  PROVE  c + d + m = a + b + n /\ c + m <= a + n
OBVIOUS

\* A row that takes over what an open verification was counted for.
LEMMA CodeOKSpent ==
  ASSUME NEW r \in Row, NEW q \in Row, NEW n \in Nat, NEW m \in Nat, NEW s, NEW k,
         Len(s) \in Nat, CodeOK(r, n, s, k), r.state # "unsent",
         q.state = r.state \/ q.state = "consumed", q.steady = r.steady,
         \/ q.attempts = r.attempts + 1 /\ q.logins = r.logins
         \/ q.attempts = r.attempts /\ q.logins = r.logins + 1 /\ q.state = "consumed",
         n = m + 1
  PROVE  CodeOK(q, m, s, k)
<1>0. /\ r.attempts \in Nat /\ r.logins \in Nat /\ q.attempts \in Nat /\ q.logins \in Nat
      /\ Cardinality(Workers) \in Nat
  BY OneTimeCodeAssumption, FS_CardinalityType DEF Row
<1>1. q.attempts + q.logins + m = r.attempts + r.logins + n /\ q.attempts + m <= r.attempts + n
  <2>1. \/ q.attempts = r.attempts + 1 /\ q.logins = r.logins
        \/ q.attempts = r.attempts /\ q.logins = r.logins + 1
    OBVIOUS
  <2>2. \A a, b, c, d \in Nat : (c = a + 1 /\ d = b) \/ (c = a /\ d = b + 1) =>
          c + d + m = a + b + n /\ c + m <= a + n
    BY Spending
  <2>3. (q.attempts = r.attempts + 1 /\ q.logins = r.logins) \/ (q.attempts = r.attempts /\ q.logins = r.logins + 1) =>
          q.attempts + q.logins + m = r.attempts + r.logins + n /\ q.attempts + m <= r.attempts + n
    <3> DEFINE a == r.attempts
               b == r.logins
               c == q.attempts
               d == q.logins
    <3>1. a \in Nat /\ b \in Nat /\ c \in Nat /\ d \in Nat
      BY <1>0
    <3> HIDE DEF a, b, c, d
    <3>2. (c = a + 1 /\ d = b) \/ (c = a /\ d = b + 1) => c + d + m = a + b + n /\ c + m <= a + n
      BY <2>2, <3>1
    <3> QED
      BY <3>2 DEF a, b, c, d
  <2> QED
    BY <2>1, <2>3
<1>2. q.attempts + m <= r.attempts + n
  BY <1>1
<1>3. /\ r.state \in {"unsent", "live"} => r.logins = 0
      /\ r.attempts + n < MaxAttempts + Cardinality(Workers)
      /\ r.steady = "yes" => r.attempts + r.logins + n < MaxRecent
      /\ r.state = "live" /\ r.steady = "yes" =>
           \E i \in 1..Len(s) : s[i] = k /\ r.attempts + r.logins + n <= Len(s) - i
  BY DEF CodeOK
<1>4. q.attempts + m < MaxAttempts + Cardinality(Workers)
  BY <1>0, <1>2, <1>3, OneTimeCodeAssumption
<1>5. q.state \in {"unsent", "live"} => q.state = r.state /\ q.logins = 0 /\ q.state = "live"
  BY <1>0, <1>3
<1> QED
  BY <1>1, <1>3, <1>4, <1>5 DEF CodeOK

\* What a verification that ends leaves open.
LEMMA VerifyEnds ==
  ASSUME NEW w \in Workers, NEW k, req[w].op = "verify", req[w].code = k, req'[w].op # "verify",
         \A x \in Workers \ {w} : /\ req'[x].op = "verify" <=> req[x].op = "verify"
                                  /\ req[x].op = "verify" => req'[x].code = req[x].code
  PROVE  /\ VerifyingCode(k)' = VerifyingCode(k) \ {w}
         /\ Cardinality(VerifyingCode(k)) = Cardinality(VerifyingCode(k)') + 1
         /\ Cardinality(VerifyingCode(k)') \in Nat
         /\ \A l : l # k => VerifyingCode(l)' = VerifyingCode(l)
<1>1. /\ VerifyingCode(k)' = VerifyingCode(k) \ {w} /\ w \in VerifyingCode(k)
      /\ \A l : l # k => VerifyingCode(l)' = VerifyingCode(l)
  BY DEF VerifyingCode
<1>2. /\ IsFiniteSet(VerifyingCode(k)) /\ Cardinality(VerifyingCode(k)) \in Nat
      /\ Cardinality(VerifyingCode(k) \ {w}) = Cardinality(VerifyingCode(k)) - 1
      /\ Cardinality(VerifyingCode(k) \ {w}) \in Nat
  BY <1>1, FewVerify, FS_RemoveElement, FS_CardinalityType
<1> QED
  BY <1>1, <1>2

LEMMA WrongKeepsCodes ==
  ASSUME Typed, CodeInv, NEW w \in Workers, WrongCode(w)
  PROVE  CodeInv'
<1> PICK k \in Codes : k = req[w].code
  BY CodeFacts, RequestFields DEF WrongCode
<1>1. /\ code' = [code EXCEPT ![k] = [code[k] EXCEPT !.attempts = code[k].attempts + 1]]
      /\ recent' = recent /\ req[w].op = "verify"
      /\ req'[w] = Idle /\ \A x \in Workers \ {w} : req'[x] = req[x]
  BY CodeFacts DEF WrongCode
<1>2. /\ VerifyingCode(k)' = VerifyingCode(k) \ {w}
      /\ Cardinality(VerifyingCode(k)) = Cardinality(VerifyingCode(k)') + 1
      /\ Cardinality(VerifyingCode(k)') \in Nat
      /\ \A l : l # k => VerifyingCode(l)' = VerifyingCode(l)
  BY <1>1, VerifyEnds DEF Idle
<1>3. /\ code'[k] \in Row /\ code[k] \in Row /\ code'[k].attempts = code[k].attempts + 1
      /\ code'[k].state = code[k].state /\ code'[k].steady = code[k].steady
      /\ code'[k].logins = code[k].logins /\ code'[k].apart = code[k].apart
  <2>1. code'[k] = [code[k] EXCEPT !.attempts = code[k].attempts + 1] /\ code[k] \in Row
    BY <1>1, CodeFacts
  <2>2. code'[k] \in Row
    BY <2>1, AttemptRow
  <2> QED
    BY <2>1, <2>2 DEF Row
<1>4. code[k].state # "unsent"
  BY <1>2, CodeFacts DEF CodeOK
<1>5. CodeOK(code'[k], Cardinality(VerifyingCode(k)'), recent', k)
  <2>1. CodeOK(code[k], Cardinality(VerifyingCode(k)), recent, k)
        /\ Cardinality(VerifyingCode(k)) \in Nat /\ Len(recent) \in Nat
    BY CodeFacts, FewVerify
  <2>2. \A n, m \in Nat : n = m + 1 /\ CodeOK(code[k], n, recent, k) => CodeOK(code'[k], m, recent, k)
    BY <1>3, <1>4, <2>1, CodeOKSpent
  <2> QED
    BY <1>1, <1>2, <2>1, <2>2
<1>6. ASSUME NEW l \in Codes
      PROVE  /\ CodeOK(code'[l], Cardinality(VerifyingCode(l)'), recent', l)
             /\ code'[l].apart = "yes" => code'[l].logins <= 1
             /\ \A x \in VerifyingCode(l)' : LoginOK(code'[l], req'[x])
  <2>1. CASE l = k
    <3>1. \A x \in VerifyingCode(k)' : x \in VerifyingCode(k) /\ req'[x] = req[x]
      BY <1>1, <1>2 DEF VerifyingCode
    <3>2. \A x \in VerifyingCode(k) : LoginOK(code[k], req[x])
      BY CodeFacts
    <3>3. \A x \in VerifyingCode(k)' : LoginOK(code'[k], req'[x])
      BY <1>3, <3>1, <3>2 DEF LoginOK
    <3>4. code'[k].apart = "yes" => code'[k].logins <= 1
      BY <1>3, CodeFacts
    <3> QED
      BY <1>5, <2>1, <3>3, <3>4
  <2>2. CASE l # k
    <3>1. code'[l] = code[l]
      BY <1>1, <2>2, CodeFacts
    <3>2. \A x \in VerifyingCode(l)' : req'[x] = req[x]
      BY <1>1 DEF VerifyingCode, Idle
    <3> QED
      BY <1>1, <1>2, <2>2, <3>1, <3>2, CodeFacts
  <2> QED
    BY <2>1, <2>2
<1> QED
  BY <1>6 DEF CodeInv, CodesOK, LoginsOK

LEMMA RightKeepsCodes ==
  ASSUME Typed, CodeInv, NEW w \in Workers, NEW next, next.op # "verify", RightCode(w, next)
  PROVE  CodeInv'
<1> PICK k \in Codes, f \in {"yes", "no"} : k = req[w].code /\ f = req[w].fresh
  BY CodeFacts, RequestFields DEF RightCode
<1>1. code' = [code EXCEPT ![k] = Consumed(k, f)] /\ recent' = recent /\ req[w].op = "verify"
  BY DEF RightCode
<1>2. req'[w].op # "verify"
  BY DEF RightCode
<1>3. ASSUME NEW x \in Workers \ {w}
      PROVE  /\ req'[x].op = "verify" <=> req[x].op = "verify"
             /\ req[x].op = "verify" => /\ req'[x].code = req[x].code
                                        /\ req[x].code = k => req'[x].fresh = "no"
                                        /\ req[x].code # k => req'[x] = req[x]
  <2>1. CASE req[x].op = "verify" /\ req[x].code = k
    <3>1. req'[x] = [req[x] EXCEPT !.fresh = "no"] /\ req[x] \in CodeRequest
      BY <2>1, CodeFacts, RequestFields DEF RightCode
    <3> QED
      BY <2>1, <3>1 DEF CodeRequest
  <2>2. CASE ~ (req[x].op = "verify" /\ req[x].code = k)
    BY <2>2 DEF RightCode
  <2> QED
    BY <2>1, <2>2
<1>4. /\ VerifyingCode(k)' = VerifyingCode(k) \ {w} /\ w \in VerifyingCode(k)
      /\ Cardinality(VerifyingCode(k)) = Cardinality(VerifyingCode(k)') + 1
      /\ Cardinality(VerifyingCode(k)') \in Nat
      /\ \A l : l # k => VerifyingCode(l)' = VerifyingCode(l)
  BY <1>1, <1>2, <1>3, VerifyEnds DEF VerifyingCode
<1>5. /\ code'[k] \in Row /\ code[k] \in Row /\ code'[k].attempts = code[k].attempts
      /\ code'[k].state = "consumed" /\ code'[k].steady = code[k].steady
      /\ code'[k].logins = code[k].logins + 1
      /\ code'[k].apart = IF f = "yes" THEN code[k].apart ELSE "no"
  BY <1>1, CodeFacts, ConsumedFields
<1>6. code[k].state # "unsent" /\ LoginOK(code[k], req[w])
  BY <1>4, CodeFacts DEF CodeOK
<1>7. CodeOK(code'[k], Cardinality(VerifyingCode(k)'), recent', k)
  BY <1>1, <1>4, <1>5, <1>6, CodeFacts, FewVerify, CodeOKSpent
<1>8. code'[k].apart = "yes" => code'[k].logins <= 1
  BY <1>1, <1>5, <1>6 DEF LoginOK
<1>9. ASSUME NEW l \in Codes
      PROVE  /\ CodeOK(code'[l], Cardinality(VerifyingCode(l)'), recent', l)
             /\ code'[l].apart = "yes" => code'[l].logins <= 1
             /\ \A x \in VerifyingCode(l)' : LoginOK(code'[l], req'[x])
  <2>1. CASE l = k
    <3>1. \A x \in VerifyingCode(k)' : req'[x].fresh = "no"
      BY <1>3, <1>4 DEF VerifyingCode
    <3> QED
      BY <1>7, <1>8, <2>1, <3>1 DEF LoginOK
  <2>2. CASE l # k
    <3>1. code'[l] = code[l]
      BY <1>1, <2>2, CodeFacts
    <3>2. \A x \in VerifyingCode(l)' : req'[x] = req[x]
      BY <1>2, <1>3, <2>2 DEF VerifyingCode
    <3> QED
      BY <1>1, <1>4, <2>2, <3>1, <3>2, CodeFacts
  <2> QED
    BY <2>1, <2>2
<1> QED
  BY <1>9 DEF CodeInv, CodesOK, LoginsOK

\* The throttle counts something, or lets an entry go.
LEMMA ThrottleKeepsCodes ==
  ASSUME Typed, CodeInv, RefuseVerify \/ LeaveWindow
  PROVE  CodeInv'
<1>1. code' = code /\ req' = req
  BY DEF RefuseVerify, LeaveWindow
<1>2. \A k \in Codes : VerifyingCode(k)' = VerifyingCode(k)
  BY <1>1 DEF VerifyingCode
<1>3. ASSUME NEW k \in Codes
      PROVE  CodeOK(code[k], Cardinality(VerifyingCode(k)), recent', k)
  <2>1. CASE RefuseVerify
    <3>1. recent' = Append(recent, 0) /\ 0 \in 0..MaxCodes
      BY <2>1, OneTimeCodeAssumption DEF RefuseVerify, NotSpammy
    <3> QED
      BY <3>1, CodeFacts, FewVerify, CodeOKAppend
  <2>2. CASE LeaveWindow
    <3>1. recent # <<>> /\ recent' = Tail(recent) /\ (code[k].state = "live" => Head(recent) # k)
      BY <2>2 DEF LeaveWindow, Live
    <3> QED
      BY <3>1, CodeFacts, FewVerify, CodeOKTail
  <2> QED
    BY <2>1, <2>2
<1> QED
  BY <1>1, <1>2, <1>3 DEF CodeInv, CodesOK, LoginsOK

LEMMA ExpiryKeepsCodes ==
  ASSUME Typed, CodeInv, NEW k \in Codes, Expires(k)
  PROVE  CodeInv'
<1>1. /\ code' = [code EXCEPT ![k] = [@ EXCEPT !.state = "expired"]] /\ recent' = recent /\ req' = req
  BY DEF Expires
<1>2. \A l \in Codes : VerifyingCode(l)' = VerifyingCode(l)
  BY <1>1 DEF VerifyingCode
<1>3. /\ code'[k].attempts = code[k].attempts /\ code'[k].logins = code[k].logins
      /\ code'[k].steady = code[k].steady /\ code'[k].apart = code[k].apart
      /\ code'[k].state = "expired" /\ \A l \in Codes \ {k} : code'[l] = code[l]
  BY <1>1, CodeFacts DEF Row
<1>4. \A l \in Codes : CodeOK(code'[l], Cardinality(VerifyingCode(l)'), recent', l)
  BY <1>1, <1>2, <1>3, CodeFacts DEF CodeOK
<1>5. \A l \in Codes : /\ code'[l].apart = "yes" => code'[l].logins <= 1
                       /\ \A w \in VerifyingCode(l)' : LoginOK(code'[l], req'[w])
  BY <1>1, <1>2, <1>3, CodeFacts DEF LoginOK
<1> QED
  BY <1>4, <1>5 DEF CodeInv, CodesOK, LoginsOK

\* Rows nobody reads are forgotten, or the process restarts: nothing is open.
LEMMA NothingOpen ==
  ASSUME Typed, CodeInv, ForgetRows \/ Restart
  PROVE  CodeInv'
<1>0. 0 < MaxAttempts + Cardinality(Workers) /\ 0 < MaxRecent /\ Cardinality(Workers) \in Nat
  BY OneTimeCodeAssumption, FS_CardinalityType
<1>1. \A k \in Codes : VerifyingCode(k)' = {}
  BY DEF ForgetRows, Restart, VerifyingCode, Verifying, Idle
<1>2. \A k \in Codes : Cardinality(VerifyingCode(k)') = 0
  BY <1>1, FS_EmptySet
<1>3. ASSUME NEW k \in Codes
      PROVE  /\ CodeOK(code'[k], 0, recent', k)
             /\ code'[k].apart = "yes" => code'[k].logins <= 1
  <2>1. CASE ForgetRows
    <3>1. code'[k] = Unsent
      BY <2>1 DEF ForgetRows
    <3> QED
      BY <1>0, <3>1 DEF CodeOK, Unsent
  <2>2. CASE Restart
    <3>1. code'[k] = IF code[k].state = "live" THEN [code[k] EXCEPT !.steady = "no"] ELSE code[k]
      BY <2>2 DEF Restart, Forget, Live
    <3>2. /\ code'[k].attempts = code[k].attempts /\ code'[k].logins = code[k].logins
          /\ code'[k].apart = code[k].apart /\ code'[k].state = code[k].state
          /\ code[k].state = "live" => code'[k].steady = "no"
          /\ code[k].state # "live" => code'[k] = code[k]
      BY <3>1, CodeFacts DEF Row
    <3>3. CodeOK(code[k], 0, recent, k)
      BY CodeFacts, FewVerify, CodeOKLess
    <3> QED
      BY <3>2, <3>3, CodeFacts DEF CodeOK
  <2> QED
    BY <2>1, <2>2
<1> QED
  BY <1>1, <1>2, <1>3 DEF CodeInv, CodesOK, LoginsOK

LEMMA CodeNext ==
  ASSUME Typed, CodeInv, [Next]_vars
  PROVE  CodeInv'
<1>0. req \in [Workers -> Request]
  BY CodeFacts
<1>1. CASE CodeStep
  BY <1>1, RequestKeepsCodes, BeginKeepsCodes, WrongKeepsCodes, ThrottleKeepsCodes, ExpiryKeepsCodes,
     NothingOpen DEF CodeStep
<1>2. ASSUME NEW w \in Workers, NEW t \in Clients, NEW a \in {"resident", "guard"}, VerifyOtp(w, t, a)
      PROVE  CodeInv'
  BY <1>2, RightKeepsCodes DEF VerifyOtp
<1>3. ASSUME NEW w \in Workers, Step(w),
             ~ \E t \in Clients : \E a \in {"resident", "guard"} : VerifyOtp(w, t, a)
      PROVE  CodeInv'
  <2>1. UNCHANGED codeVars
    BY <1>3 DEF Step, StartCall, Lookup, ReadContext, FillCache, FindUser, CreateUser, ClearDefaults,
       SetDefault, DropContext, Fail, BeginSwitch, LoginWithPassword
  <2>2. ASSUME NEW x \in Workers, req'[x].op = "verify"
        PROVE  req'[x] = req[x]
    <3>1. ASSUME SwitchWrote(w, "flag") \/ SwitchWrote(w, "drop") \/ SwitchWrote(w, "load"),
                 req[w].op \in {"clear", "flag", "drop"}
          PROVE  req'[x] = req[x]
      <4>0. PICK o \in {"flag", "drop", "load"} : SwitchWrote(w, o)
        BY <3>1
      <4>1. /\ req'[w].op # "verify"
            /\ \A y \in Workers \ {w} : req'[y] = Outrun(req[y])
        <5>1. req'[w] = [op |-> o, goal |-> req[w].goal]
          BY <3>1, <4>0, WriteTypes DEF Typed
        <5>2. \A y \in Workers \ {w} : req'[y] = Outrun(req[y])
          BY <3>1, <4>0, WriteTypes DEF Typed
        <5> QED
          BY <5>1, <5>2
      <4>2. x # w /\ req'[x] = Outrun(req[x]) /\ req[x] \in Request
        BY <1>0, <2>2, <4>1
      <4> QED
        BY <2>2, <4>2, OutrunFields
    <3>2. ASSUME NEW o \in {"find_user", "create_user", "load", "read", "clear"}, NEW g, Goes(w, o, g)
          PROVE  req'[x] = req[x]
      BY <1>0, <2>2, <3>2 DEF Goes
    <3>3. ASSUME NEW g, NEW c, Deliver(w, g, c)
          PROVE  req'[x] = req[x]
      BY <1>0, <2>2, <3>3 DEF Deliver, Idle
    <3>4. CASE ReadContext(w)
      BY <1>0, <2>2, <3>4 DEF ReadContext
    <3>5. CASE Fail(w)
      BY <1>0, <2>2, <3>5 DEF Fail, Idle
    <3>6. CASE StartCall(w) \/ Lookup(w) \/ FillCache(w)
      BY <3>2, <3>3, <3>6 DEF StartCall, Lookup, FillCache
    <3>7. CASE FindUser(w) \/ CreateUser(w)
      BY <3>2, <3>7 DEF FindUser, CreateUser
    <3>8. CASE ClearDefaults(w) \/ SetDefault(w) \/ DropContext(w)
      BY <3>1, <3>8 DEF ClearDefaults, SetDefault, DropContext
    <3>9. ASSUME NEW c \in Communities, BeginSwitch(w, c)
          PROVE  req'[x] = req[x]
      BY <3>2, <3>9 DEF BeginSwitch
    <3>10. ASSUME NEW t \in Clients, LoginWithPassword(w, t)
           PROVE  req'[x] = req[x]
      BY <3>2, <3>10 DEF LoginWithPassword
    <3> QED
      BY <1>3, <3>4, <3>5, <3>6, <3>7, <3>8, <3>9, <3>10 DEF Step
  <2> QED
    BY <2>1, <2>2, CodesUntouched
<1>4. ASSUME NEW c \in Communities, NEW k \in Kinds, AddResident(c, k)
      PROVE  CodeInv'
  <2>1. \A x \in Workers : req'[x] = Aged(req[x]) /\ req[x] \in Request
    BY <1>0, <1>4 DEF AddResident
  <2>2. \A x \in Workers : req'[x].op = "verify" => req'[x] = req[x]
    BY <2>1, AgedFields
  <2> QED
    BY <1>4, <2>2, CodesUntouched DEF AddResident
<1>5. ASSUME NEW t \in Clients, SignOut(t)
      PROVE  CodeInv'
  BY <1>5, CodesUntouched DEF SignOut
<1>6. CASE ExpireContext
  BY <1>6, CodesUntouched DEF ExpireContext
<1>7. CASE UNCHANGED vars
  BY <1>7, CodesUntouched DEF vars
<1>8. CASE Restart
  BY <1>8, NothingOpen
<1> QED
  BY <1>1, <1>2, <1>3, <1>4, <1>5, <1>6, <1>7, <1>8 DEF Next

LEMMA StartOfCodes == Init => CodeInv
<1> SUFFICES ASSUME Init PROVE CodeInv
  OBVIOUS
<1>0. 0 < MaxAttempts + Cardinality(Workers) /\ 0 < MaxRecent /\ Cardinality(Workers) \in Nat
  BY OneTimeCodeAssumption, FS_CardinalityType
<1>1. \A k \in Codes : code[k] = Unsent /\ VerifyingCode(k) = {}
  BY DEF Init, CodeInit, VerifyingCode, Idle
<1>2. Cardinality({}) = 0
  BY FS_EmptySet
<1>3. \A k \in Codes : CodeOK(Unsent, 0, recent, k)
  BY <1>0 DEF CodeOK, Unsent
<1>4. CodesOK
  BY <1>1, <1>2, <1>3 DEF CodesOK
<1>5. LoginsOK
  BY <1>1 DEF LoginsOK, Unsent
<1> QED
  BY <1>4, <1>5 DEF CodeInv

-----------------------------------------------------------------------------
LEMMA TypedInvariant == Spec => []Typed
<1>1. Typed /\ [Next]_vars => Typed'
  BY TypeStep
<1> QED
  BY <1>1, TypeInit, PTL DEF Spec

\* Every variable keeps its type, a default is a membership, and the throttle
\* keeps its size.
THEOREM TypeCorrect == Spec => []TypeOK
<1>1. Typed => TypeOK
  BY DEF Typed
<1> QED
  BY <1>1, TypedInvariant, PTL

LEMMA SwitchInvariant == Spec => []SwitchInv
<1>1. Typed /\ SwitchInv /\ [Next]_vars => SwitchInv'
  BY SwitchStep
<1> QED
  BY <1>1, SwitchInit, TypedInvariant, PTL DEF Spec

\* Switches that do not overlap, and do not die half-way, leave one default.
THEOREM DefaultIsOne == Spec => []OneDefault
<1>1. SwitchInv => OneDefault
  BY DEF SwitchInv, DefaultInv, OneDefault, Half, Flaggers
<1> QED
  BY <1>1, SwitchInvariant, PTL

\* What a switch answers, and what is cached after it, is the community it
\* switched to, with no lock on the cache, unless a write came in between.
THEOREM SwitchesTakeEffect == Spec => []SwitchTakesEffect
<1>1. SwitchInv => SwitchTakesEffect
  <2> SUFFICES ASSUME SwitchInv, flags = "set", cache.fresh = "yes", ~Switching
               PROVE  cache.community \in default
    BY DEF SwitchInv, EffectInv, SwitchTakesEffect
  <2>1. Flaggers = {} /\ Droppers = {}
    BY DEF Switching, Flaggers, Droppers
  <2>2. default # {}
    BY <2>1 DEF SwitchInv, DefaultInv
  <2> QED
    BY <2>1, <2>2 DEF SwitchInv, EffectInv, CacheKnows
<1> QED
  BY <1>1, SwitchInvariant, PTL

LEMMA SignInInvariant == Spec => [](ContextInv /\ SessionInv)
<1>1. Typed /\ SwitchInv /\ ContextInv /\ SessionInv /\ [Next]_vars => (ContextInv /\ SessionInv)'
  BY ContextStep, SessionStep
<1> QED
  BY <1>1, SignInInit, TypedInvariant, SwitchInvariant, PTL DEF Spec

\* Whoever signed in to an app for them may call all that its pages call, as long
\* as no switch came between: the pages, the routes and the role matrix agree.
THEOREM SignedInIsAdmitted == Spec => []OnlyASwitchRefuses
<1>1. Typed /\ SwitchInv /\ ContextInv /\ SessionInv => OnlyASwitchRefuses
  <2> SUFFICES ASSUME Typed, SwitchInv, ContextInv, SessionInv, NEW t \in Clients,
                      client[t] # SignedOut, client[t].moved = "no", client[t].community # None,
                      client[t].roles \cap Audience(client[t].app) # {},
                      cache.fresh = "yes", ~Switching,
                      flags = "set" \/ \A c, d \in member : c = d,
                      NEW route \in Calls(client[t].app, user = "platform")
               PROVE  Admitted(cache, route, client[t].community)
    BY DEF OnlyASwitchRefuses
  <2>1. CASE user = "platform"
    BY <2>1 DEF Admitted
  <2>2. CASE user # "platform"
    <3> DEFINE here == client[t].community
    <3>1. /\ client[t].app \in App /\ here \in member /\ client[t].roles \subseteq roles[here]
          /\ flags = "set" => here \in default
      BY DEF Typed, TypeOK, Session, SessionInv, SessionOK
    <3>2. cache.community \in member /\ (cache.community # None => cache.roles = roles[cache.community])
      BY <3>1 DEF ContextInv, Truthful
    <3>3. cache.community = here
      <4>1. CASE flags = "set"
        <5>1. (\E c \in member : default = {c}) /\ cache.community \in default
          BY <4>1 DEF SwitchInv, DefaultInv, EffectInv, CacheKnows, Switching, Flaggers, Droppers
        <5> QED
          BY <3>1, <4>1, <5>1
      <4> QED
        BY <3>1, <3>2, <4>1
    <3>4. PICK r \in Audience(client[t].app) : r \in client[t].roles
      OBVIOUS
    <3>5. r \in cache.roles
      BY <3>1, <3>2, <3>3, <3>4
    <3>6. route \in Calls(client[t].app, FALSE)
      BY <2>2
    <3>7. route.public \/ route.needs \subseteq SYSTEM_ROLE_PERMISSIONS[r]
      BY <3>1, <3>4, <3>6, CallsAreGranted
    <3>8. SYSTEM_ROLE_PERMISSIONS[r] \subseteq Granted(cache)
      BY <2>2, <3>5 DEF Granted
    <3> QED
      BY <3>3, <3>7, <3>8 DEF Admitted
  <2> QED
    BY <2>1, <2>2
<1> QED
  BY <1>1, SignInInvariant, TypedInvariant, SwitchInvariant, PTL

LEMMA CodeInvariant == Spec => []CodeInv
<1>1. Typed /\ CodeInv /\ [Next]_vars => CodeInv'
  BY CodeNext
<1> QED
  BY <1>1, StartOfCodes, TypedInvariant, PTL DEF Spec

\* A code is guessed at no more often than the cap and the requests that run at
\* once allow, nor, in a process that keeps running, than the throttle does.
THEOREM GuessesAreFew == Spec => []GuessesAreBounded
<1>1. Typed /\ CodeInv => GuessesAreBounded
  <2> SUFFICES ASSUME Typed, CodeInv, NEW k \in Codes
               PROVE  /\ code[k].attempts < MaxAttempts + Cardinality(Workers)
                      /\ code[k].steady = "yes" => code[k].attempts + code[k].logins < MaxRecent
    BY DEF GuessesAreBounded
  <2>1. CodeOK(code[k], Cardinality(VerifyingCode(k)), recent, k) /\ code[k] \in Row /\ Len(recent) \in Nat
    BY CodeFacts
  <2>2. CodeOK(code[k], 0, recent, k)
    BY <2>1, FewVerify, CodeOKLess
  <2> QED
    BY <2>1, <2>2 DEF CodeOK, Row
<1> QED
  BY <1>1, CodeInvariant, TypedInvariant, PTL

\* A code signs in once, unless two verifications of it overlapped.
THEOREM CodesAreUsedOnce == Spec => []CodeLogsInOnce
<1>1. CodeInv => CodeLogsInOnce
  BY DEF CodeInv, LoginsOK, CodeLogsInOnce
<1> QED
  BY <1>1, CodeInvariant, PTL
=============================================================================
