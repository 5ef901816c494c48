--------------------------- MODULE VisitorGate ---------------------------
(***************************************************************************)
(* Visitor invitations and gate visits: VisitorsService, GateOpsService,   *)
(* VisitorTokensService and VisitorExpiryJob over the tables               *)
(* VisitorInvitation and Visit.                                            *)
(*                                                                         *)
(* Postgres runs at READ COMMITTED and each handler awaits between the     *)
(* statement that reads a row and the statement that writes it.  A handler *)
(* is therefore two or three actions of one Worker: Begin... is the read   *)
(* and every check made on what it returned, the later action is the       *)
(* write, unconditional where the code's update has no status in its WHERE *)
(* clause.  Abort stands for every error path and for a process that dies. *)
(***************************************************************************)
EXTENDS FiniteSets

CONSTANTS
  Invitations,   \* ids of VisitorInvitation rows
  Visits,        \* ids of Visit rows
  Submits,       \* the submissions of the guard's form for one invitation:
                 \* <<invitation, submit>> is a clientEventId
  Workers,       \* HTTP requests in progress at once
  NoSubmit,      \* a check-in posted without clientEventId
  CanCrash       \* TRUE: the process may die between two statements of a handler

ASSUME GateAssumption ==
  /\ NoSubmit \notin Submits
  /\ CanCrash \in BOOLEAN

VARIABLES
  inv,       \* VisitorInvitation rows
  visit,     \* Visit rows
  req,       \* the handler each worker is running, with what it has read
  sweeper,   \* next statement of VisitorExpiryJob's tick
  active,    \* Community.status = ACTIVE
  granted    \* history: the approval methods ever committed for an invitation

vars == <<inv, visit, req, sweeper, active, granted>>

LC == INSTANCE VisitorLifecycle WITH status <- [i \in Invitations |-> inv[i].status]

-----------------------------------------------------------------------------
(* Rows and requests *)

Method == {"PRE_APPROVED_TOKEN", "RESIDENT_APPROVAL", "SECURITY_OVERRIDE"}

\* "deadline" is the time expireSweep compares with now: createdAt plus the
\* approval timeout while WAITING_APPROVAL, expiresAt once APPROVED.
Invitation ==
  [status : LC!VisitorStatus \cup {"ABSENT"},
   method : Method \cup {"none"},
   secret : {"issued", "none"},               \* tokenHash and otpCodeHash
   deadline : {"ahead", "past"}]

NoInvitation ==
  [status |-> "ABSENT", method |-> "none", secret |-> "none", deadline |-> "ahead"]

VisitRow ==
  [status : {"CHECKED_IN", "CHECKED_OUT"}, inv : Invitations,
   submit : Submits \cup {NoSubmit}, method : Method \cup {"none"}]

NoVisit == [status |-> "ABSENT"]

Decision == {"APPROVED", "REJECTED"}

\* What a handler holds across its await: its arguments and the row it read.
Request ==
       [op : {"decide"}, inv : Invitations, row : Invitation, to : Decision]
  \cup [op : {"override"}, inv : Invitations, row : Invitation]
  \cup [op : {"checkIn"}, inv : Invitations, row : Invitation,
        submit : Submits \cup {NoSubmit}]
  \cup [op : {"checkOut"}, visit : Visits]
  \cup [op : {"closeOut"}, inv : Invitations]

Idle == [op |-> "idle"]

Present(i) == inv[i].status # "ABSENT"
Made(v) == visit[v].status # "ABSENT"
VisitsOf(i) == {v \in Visits : Made(v) /\ visit[v].inv = i}

EventTaken_Unindexed(i, s) == FALSE

\* The unique index on Visit.clientEventId.
EventTaken(i, s) == s # NoSubmit /\ \E v \in VisitsOf(i) : visit[v].submit = s

-----------------------------------------------------------------------------
Init ==
  /\ inv = [i \in Invitations |-> NoInvitation]
  /\ visit = [v \in Visits |-> NoVisit]
  /\ req = [w \in Workers |-> Idle]
  /\ sweeper = "asleep"
  /\ active = TRUE
  /\ granted = [i \in Invitations |-> {}]

\* createInvitation: a resident pre-approves; the row is born APPROVED for 24 h.
CreateInvitation(i) ==
  /\ ~Present(i)
  /\ inv' = [inv EXCEPT ![i] = [status |-> "APPROVED", method |-> "PRE_APPROVED_TOKEN",
                                secret |-> "issued", deadline |-> "ahead"]]
  /\ granted' = [granted EXCEPT ![i] = @ \cup {"PRE_APPROVED_TOKEN"}]
  /\ UNCHANGED <<visit, req, sweeper, active>>

\* spotRequest: the guard asks the unit; no secret, and the approval timeout runs.
SpotRequest(i) ==
  /\ ~Present(i)
  /\ inv' = [inv EXCEPT ![i] = [NoInvitation EXCEPT !.status = "WAITING_APPROVAL"]]
  /\ UNCHANGED <<visit, req, sweeper, active, granted>>

-----------------------------------------------------------------------------
(* decide: an occupant approves or rejects *)

BeginDecide(w, i, to) ==
  /\ req[w] = Idle
  /\ LC!CanTransition(inv[i].status, to)
  /\ req' = [req EXCEPT ![w] = [op |-> "decide", inv |-> i, row |-> inv[i], to |-> to]]
  /\ UNCHANGED <<inv, visit, sweeper, active, granted>>

WriteDecision(w) ==
  /\ req[w].op = "decide"
  /\ LET i == req[w].inv IN
       IF req[w].to = "APPROVED"
       THEN /\ inv' = [inv EXCEPT ![i] = [@ EXCEPT !.status = "APPROVED",
                                                     !.method = "RESIDENT_APPROVAL",
                                                     !.deadline = "ahead"]]
            /\ granted' = [granted EXCEPT ![i] = @ \cup {"RESIDENT_APPROVAL"}]
       ELSE /\ inv' = [inv EXCEPT ![i].status = "REJECTED"]
            /\ UNCHANGED granted
  /\ req' = [req EXCEPT ![w] = Idle]
  /\ UNCHANGED <<visit, sweeper, active>>

(* override: the security manager admits a visitor the unit has not answered *)

Overridable_Always(i) == Present(i)

Overridable(i) ==
  /\ inv[i].status # "REJECTED"
  /\ LC!CanTransition(inv[i].status, "OVERRIDDEN")

BeginOverride(w, i) ==
  /\ req[w] = Idle
  /\ Overridable(i)
  /\ req' = [req EXCEPT ![w] = [op |-> "override", inv |-> i, row |-> inv[i]]]
  /\ UNCHANGED <<inv, visit, sweeper, active, granted>>

WriteOverride_KeepsMethod(w) ==
  /\ req[w].op = "override"
  /\ inv' = [inv EXCEPT ![req[w].inv].status = "OVERRIDDEN"]
  /\ req' = [req EXCEPT ![w] = Idle]
  /\ UNCHANGED <<visit, sweeper, active, granted>>

WriteOverride(w) ==
  /\ req[w].op = "override"
  /\ LET i == req[w].inv IN
       /\ inv' = [inv EXCEPT ![i] = [@ EXCEPT !.status = "OVERRIDDEN",
                                                !.method = "SECURITY_OVERRIDE"]]
       /\ granted' = [granted EXCEPT ![i] = @ \cup {"SECURITY_OVERRIDE"}]
  /\ req' = [req EXCEPT ![w] = Idle]
  /\ UNCHANGED <<visit, sweeper, active>>

-----------------------------------------------------------------------------
(* checkIn *)

\* resolveApprovedCredential finds the row: by token, by OTP (only before
\* expiresAt) or by id.
Resolves(i, credential) ==
  \/ credential = "token" /\ inv[i].secret = "issued"
  \/ credential = "otp" /\ inv[i].secret = "issued" /\ inv[i].deadline = "ahead"
  \/ credential = "invitationId" /\ Present(i)

\* A clientEventId already recorded returns the first visit and changes nothing;
\* such replays are the stuttering steps of this action.
BeginCheckIn(w, i, s) ==
  /\ req[w] = Idle
  /\ ~EventTaken(i, s)
  /\ \E credential \in {"token", "otp", "invitationId"} : Resolves(i, credential)
  /\ inv[i].status \in {"APPROVED", "OVERRIDDEN"}
  /\ LC!CanTransition(inv[i].status, "CHECKED_IN")
  /\ req' = [req EXCEPT ![w] = [op |-> "checkIn", inv |-> i, row |-> inv[i], submit |-> s]]
  /\ UNCHANGED <<inv, visit, sweeper, active, granted>>

\* The transaction: both rows or, on a clientEventId already used, neither.
CommitCheckIn_KeepsStatus(w, v) ==
  /\ req[w].op = "checkIn"
  /\ ~Made(v)
  /\ visit' = [visit EXCEPT ![v] =
                 [status |-> "CHECKED_IN", inv |-> req[w].inv,
                  submit |-> req[w].submit, method |-> req[w].row.method]]
  /\ req' = [req EXCEPT ![w] = Idle]
  /\ UNCHANGED <<inv, sweeper, active, granted>>

CommitCheckIn(w, v) ==
  /\ req[w].op = "checkIn"
  /\ ~Made(v)
  /\ ~EventTaken(req[w].inv, req[w].submit)
  /\ inv' = [inv EXCEPT ![req[w].inv].status = "CHECKED_IN"]
  /\ visit' = [visit EXCEPT ![v] =
                 [status |-> "CHECKED_IN", inv |-> req[w].inv,
                  submit |-> req[w].submit, method |-> req[w].row.method]]
  /\ req' = [req EXCEPT ![w] = Idle]
  /\ UNCHANGED <<sweeper, active, granted>>

(* checkOut: two statements outside a transaction *)

\* The visit is looked up by its own clientEventId or, without one, by its id; a
\* request that finds none, as one with a fresh clientEventId, is answered NOT_FOUND.
BeginCheckOut(w, v) ==
  /\ req[w] = Idle
  /\ Made(v)
  /\ visit[v].status # "CHECKED_OUT"
  /\ LC!CanTransition(visit[v].status, "CHECKED_OUT")
  /\ req' = [req EXCEPT ![w] = [op |-> "checkOut", visit |-> v]]
  /\ UNCHANGED <<inv, visit, sweeper, active, granted>>

CheckOutVisit(w) ==
  /\ req[w].op = "checkOut"
  /\ LET v == req[w].visit IN
       /\ visit' = [visit EXCEPT ![v].status = "CHECKED_OUT"]
       /\ req' = [req EXCEPT ![w] = [op |-> "closeOut", inv |-> visit[v].inv]]
  /\ UNCHANGED <<inv, sweeper, active, granted>>

CloseInvitation(w) ==
  /\ req[w].op = "closeOut"
  /\ LET i == req[w].inv IN
       inv' = IF inv[i].status = "CHECKED_IN"
              THEN [inv EXCEPT ![i].status = "CHECKED_OUT"]
              ELSE inv
  /\ req' = [req EXCEPT ![w] = Idle]
  /\ UNCHANGED <<visit, sweeper, active, granted>>

\* A handler that has written nothing fails on a lookup, a constraint or the
\* database; with CanCrash one that has written can die as well.
Abort(w) ==
  /\ req[w] # Idle
  /\ req[w].op = "closeOut" => CanCrash
  /\ req' = [req EXCEPT ![w] = Idle]
  /\ UNCHANGED <<inv, visit, sweeper, active, granted>>

-----------------------------------------------------------------------------
(* VisitorExpiryJob: one tick is expireSweep, a read and two updateMany *)

\* The tick reads the ACTIVE communities; with none it does nothing.
SweepBegin ==
  /\ sweeper = "asleep"
  /\ active
  /\ sweeper' = "waiting"
  /\ UNCHANGED <<inv, visit, req, active, granted>>

StaleWaiting_Never(i) == FALSE

StaleWaiting(i) == inv[i].status = "WAITING_APPROVAL" /\ inv[i].deadline = "past"

StaleApproved(i) ==
  /\ inv[i].status = "APPROVED"
  /\ inv[i].method # "SECURITY_OVERRIDE"
  /\ inv[i].deadline = "past"

ExpireAll(Stale(_)) ==
  inv' = [i \in Invitations |->
            IF Stale(i) THEN [inv[i] EXCEPT !.status = "EXPIRED"] ELSE inv[i]]

SweepWaiting ==
  /\ sweeper = "waiting"
  /\ ExpireAll(StaleWaiting)
  /\ sweeper' = "approved"
  /\ UNCHANGED <<visit, req, active, granted>>

SweepApproved ==
  /\ sweeper = "approved"
  /\ ExpireAll(StaleApproved)
  /\ sweeper' = "asleep"
  /\ UNCHANGED <<visit, req, active, granted>>

\* A statement fails: the tick logs it and the timer is armed again.
SweepFails ==
  /\ sweeper # "asleep"
  /\ sweeper' = "asleep"
  /\ UNCHANGED <<inv, visit, req, active, granted>>

(* The clock and the platform administrator *)

DeadlinePasses(i) ==
  /\ inv[i].status \in {"WAITING_APPROVAL", "APPROVED"}
  /\ inv[i].deadline = "ahead"
  /\ inv' = [inv EXCEPT ![i].deadline = "past"]
  /\ UNCHANGED <<visit, req, sweeper, active, granted>>

SetCommunityStatus ==
  /\ active' = ~active
  /\ UNCHANGED <<inv, visit, req, sweeper, granted>>

-----------------------------------------------------------------------------
Handler(w) ==
  \/ \E i \in Invitations :
       \/ \E to \in Decision : BeginDecide(w, i, to)
       \/ BeginOverride(w, i)
       \/ \E s \in Submits \cup {NoSubmit} : BeginCheckIn(w, i, s)
  \/ \E v \in Visits : BeginCheckOut(w, v) \/ CommitCheckIn(w, v)
  \/ WriteDecision(w)
  \/ WriteOverride(w)
  \/ CheckOutVisit(w)
  \/ CloseInvitation(w)
  \/ Abort(w)

Sweep == SweepBegin \/ SweepWaiting \/ SweepApproved \/ SweepFails

Environment ==
  \/ \E i \in Invitations :
       CreateInvitation(i) \/ SpotRequest(i) \/ DeadlinePasses(i)
  \/ SetCommunityStatus

Next == Environment \/ Sweep \/ \E w \in Workers : Handler(w)

Spec == Init /\ [][Next]_vars

\* The timer re-arms itself after every tick, and the database does not fail
\* every time; time passes.  Residents, guards and managers owe nothing.
Fairness ==
  /\ WF_vars(SweepBegin)
  /\ SF_vars(SweepWaiting)
  /\ SF_vars(SweepApproved)
  /\ \A i \in Invitations : WF_vars(DeadlinePasses(i))

FairSpec == Spec /\ Fairness

\* One request, or the sweep, at a time: each handler runs to its end alone.
Serial ==
  /\ \A w1, w2 \in Workers : req[w1] # Idle /\ req[w2] # Idle => w1 = w2
  /\ sweeper # "asleep" => \A w \in Workers : req[w] = Idle

SerialSpec == Init /\ [][Next /\ Serial']_vars

-----------------------------------------------------------------------------
(* Properties *)

\* Every variable has its type; a request in progress carries what its handler read.
TypeOK ==
  /\ inv \in [Invitations -> Invitation]
  /\ visit \in [Visits -> VisitRow \cup {NoVisit}]
  /\ req \in [Workers -> Request \cup {Idle}]
  /\ sweeper \in {"asleep", "waiting", "approved"}
  /\ active \in BOOLEAN
  /\ granted \in [Invitations -> SUBSET Method]

\* What a handler has checked about the rows it read still holds of what it carries.
SoundRequests ==
  \A w \in Workers :
     /\ req[w].op = "decide" => LC!CanTransition(req[w].row.status, req[w].to)
     /\ req[w].op = "override" => LC!CanTransition(req[w].row.status, "OVERRIDDEN")
     /\ req[w].op = "checkIn" => /\ LC!CanTransition(req[w].row.status, "CHECKED_IN")
                                 /\ req[w].row.method \in granted[req[w].inv]
     /\ req[w].op = "checkOut" => Made(req[w].visit)

\* The method on an admissible row was granted.
ApprovalRecorded ==
  \A i \in Invitations :
     inv[i].status \in {"APPROVED", "OVERRIDDEN"} => inv[i].method \in granted[i]

\* Every entry in the gate log names an approval that was really given for that
\* invitation, whatever decisions, overrides and sweeps ran around the check-in.
EntryIsApproved ==
  \A v \in Visits : Made(v) => visit[v].method \in granted[visit[v].inv]

\* An offline event synced twice, even concurrently, is one visit.
OneVisitPerEvent ==
  \A v1, v2 \in Visits :
     /\ Made(v1) /\ Made(v2)
     /\ visit[v1].inv = visit[v2].inv
     /\ visit[v1].submit = visit[v2].submit
     /\ visit[v1].submit # NoSubmit
     => v1 = v2

Inside(i) == \E v \in VisitsOf(i) : visit[v].status = "CHECKED_IN"
Closing(i) == \E w \in Workers : req[w].op = "closeOut" /\ req[w].inv = i

\* Unless a process dies inside checkOut, an invitation shown CHECKED_IN has its
\* visitor inside, or a checkOut about to close it.
CheckedInIsInside ==
  ~CanCrash => \A i \in Invitations :
                  inv[i].status = "CHECKED_IN" => Inside(i) \/ Closing(i)

\* The handler of w read invitation i when its status was another one.
HoldsStaleRead(w, i) ==
  /\ req[w].op \in {"decide", "override", "checkIn"}
  /\ req[w].inv = i
  /\ req[w].row.status # inv[i].status

\* The inductive invariant behind the theorems of GateProofs.
IInv ==
  /\ TypeOK
  /\ SoundRequests
  /\ ApprovalRecorded
  /\ EntryIsApproved
  /\ OneVisitPerEvent
  /\ CheckedInIsInside

\* This step is w's write to invitation i: it was decided on a status the row no
\* longer has, and is a transition the table allows from that one.
StaleWrite(w, i) ==
  /\ HoldsStaleRead(w, i)
  /\ req'[w] = Idle
  /\ LC!CanTransition(req[w].row.status, inv'[i].status)

\* A row is born WAITING_APPROVAL or APPROVED, and a status change outside
\* VISITOR_TRANSITIONS is always the write of the one handler that finishes in this
\* step, that read the row before someone else changed it and whose change would have
\* been in the table then: never the sweep, never checkOut, never a handler whose read
\* is current, whatever stale reads other handlers hold.
TableOrStaleWrite(i) ==
  \/ inv'[i].status = inv[i].status
  \/ inv[i].status = "ABSENT" /\ inv'[i].status \in {"WAITING_APPROVAL", "APPROVED"}
  \/ LC!CanTransition(inv[i].status, inv'[i].status)
  \/ \E w \in Workers : StaleWrite(w, i)

OnlyStaleWritesBreakTheTable ==
  [][\A i \in Invitations : TableOrStaleWrite(i)]_vars

\* A gate request nobody answers is expired, while the community stays ACTIVE.
WaitingIsResolved ==
  \A i \in Invitations :
     <>[]active => (inv[i].status = "WAITING_APPROVAL" ~> inv[i].status # "WAITING_APPROVAL")

\* With handlers run one at a time the statuses move as ADR-006 documents.
LifecycleSpec == LC!Spec

\* An invitation admits its visitor once.
SingleEntry ==
  \A v1, v2 \in Visits :
     Made(v1) /\ Made(v2) /\ visit[v1].inv = visit[v2].inv => v1 = v2

\* In a serial run what a handler read is still what the row says.
FreshReads ==
  \A w \in Workers :
     req[w].op \in {"decide", "override", "checkIn"} =>
        req[w].row.status = inv[req[w].inv].status

=============================================================================
