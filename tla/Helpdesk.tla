------------------------------ MODULE Helpdesk ------------------------------
(***************************************************************************)
(* Service tickets: HelpdeskService, its controller and TicketSlaJob over  *)
(* the tables Ticket and TicketHistory.                                    *)
(*                                                                         *)
(* Each handler reads the ticket, decides on what it read, and writes in a *)
(* later transaction that updates the row by its id alone.  Begin... is    *)
(* the read with every check, Write... the transaction, Abort every error  *)
(* path and a process that dies in between.                                *)
(***************************************************************************)
EXTENDS FiniteSets, Naturals, Roles

CONSTANTS
  Tickets,       \* ids of Ticket rows
  Events,        \* clientEventIds of the posts that carry one
  NoEvent,       \* a post without clientEventId
  People,
  Role,          \* the role each person has in the community
  Assignees,     \* those of them tickets are assigned to; assign checks no role
  Nobody,        \* assignedToUserId is null
  Categories,    \* the deadlines a category starts: "ahead", or "none" without an SLA
  Workers,       \* HTTP requests in progress at once
  Take,          \* how many breached tickets one sweep announces
  Bounds,        \* bounds, one record for a whole behaviour: the clientEventIds posted, the
                 \* tickets that requests begin on, the workers that serve them
  FollowAll,     \* bound: FALSE, no request begins on a ticket once two writes collided on it
  Patient        \* TRUE: nobody posts an event again while a post of it is running

ASSUME HelpdeskAssumption ==
  /\ Role \in [People -> SystemRole]
  /\ Assignees \subseteq People
  /\ Nobody \notin People
  /\ NoEvent \notin Events
  /\ Categories \subseteq [respond : {"none", "ahead"}, due : {"none", "ahead"}]
  /\ Take \in Nat \ {0}
  /\ {Patient, FollowAll} \subseteq BOOLEAN
  /\ Bounds \subseteq [posts : SUBSET (Events \cup {NoEvent}), handled : SUBSET Tickets,
                      workers : SUBSET Workers]

VARIABLES
  ticket,      \* Ticket rows
  req,         \* the handler each worker is running, with what it decided
  sweeper,     \* the statement slaSweep is at
  announced,   \* tickets named in a ticket.sla_breached event since they were last reopened
  contested,   \* history: tickets with a write decided on a status they no longer had
  bound        \* the bounds of this behaviour, chosen at the start

vars == <<ticket, req, sweeper, announced, contested, bound>>

\* A deadline is "none" when the category has no SLA for it.
Deadline == {"none", "ahead", "past"}

StatusAndClock ==
  INSTANCE TicketLifecycle WITH
    status <- [t \in Tickets |-> IF t \in contested THEN "CONTESTED" ELSE ticket[t].status],
    clock <- [t \in Tickets |->
                IF \/ t \in contested \/ ticket[t].status = "ABSENT"
                   \/ ticket[t].resolvedAt # "set" /\ ticket[t].due = "none" THEN "none"
                ELSE IF ticket[t].resolvedAt = "set" THEN "stopped"
                ELSE IF ticket[t].due = "ahead" THEN "running" ELSE "late"]

TicketStatus == StatusAndClock!TicketStatus
CanTransition(from, to) == StatusAndClock!CanTransition(from, to)

Ticket ==
  [status : TicketStatus,
   by : People,
   event : Events \cup {NoEvent},
   assignee : Assignees \cup {Nobody},
   respond : Deadline \cup {"done"},  \* slaFirstResponseDueAt until firstResponseAt is set
   due : Deadline,                    \* slaResolutionDueAt
   resolvedAt : {"null", "set"},
   rated : {"no", "yes"}]

NoTicket == [status |-> "ABSENT"]

Request ==
       [op : {"create"}, by : People, event : Events \cup {NoEvent}]
  \cup [op : {"respond"}, ticket : Tickets]
  \cup [op : {"assign"}, ticket : Tickets, from : TicketStatus, to : TicketStatus, assignee : Assignees]
  \cup [op : {"move"}, ticket : Tickets, from : TicketStatus, to : TicketStatus]
  \cup [op : {"rate"}, ticket : Tickets]

Idle == [op |-> "idle"]

Exists(t) == ticket[t].status # "ABSENT"

\* The handlers' findFirst, within the bounds.
Found(t) == t \in bound.handled /\ Exists(t) /\ (FollowAll \/ t \notin contested)

Init ==
  /\ ticket = [t \in Tickets |-> NoTicket]
  /\ req = [w \in Workers |-> Idle]
  /\ sweeper = "asleep"
  /\ announced = {}
  /\ contested = {}
  /\ bound \in Bounds

Begin(w, r) ==
  /\ w \in bound.workers
  /\ req[w] = Idle
  /\ req' = [req EXCEPT ![w] = r]
  /\ UNCHANGED <<ticket, sweeper, announced, contested, bound>>

Finish(w) ==
  /\ req' = [req EXCEPT ![w] = Idle]
  /\ UNCHANGED <<sweeper, bound>>

-----------------------------------------------------------------------------
(* create *)

Posting(e) == \E w \in Workers : req[w].op = "create" /\ req[w].event = e

Known_Never(e) == FALSE

\* findFirst by clientEventId, made only for a post that carries one: the post is
\* answered with the ticket it finds.
Known(e) == e # NoEvent /\ \E t \in Tickets : Exists(t) /\ ticket[t].event = e

BeginCreate(w, p, e) ==
  /\ HasPermission(Role[p], {"helpdesk.create"})
  /\ Patient /\ e # NoEvent => ~Posting(e)
  /\ ~Known(e)
  /\ e \in bound.posts
  /\ Begin(w, [op |-> "create", by |-> p, event |-> e])

\* The deadlines run where the category has an SLA; the history row is nested
\* in the same statement.
WriteCreate(w, t) ==
  /\ req[w].op = "create"
  /\ ~Exists(t)
  /\ \E c \in Categories :
       ticket' = [ticket EXCEPT ![t] =
         [status |-> "OPEN", by |-> req[w].by, event |-> req[w].event, assignee |-> Nobody,
          respond |-> c.respond,
          due |-> c.due, resolvedAt |-> "null", rated |-> "no"]]
  /\ Finish(w)
  /\ UNCHANGED <<announced, contested>>

-----------------------------------------------------------------------------
(* comment: only the first answer of somebody else's staff changes the row *)

BeginComment(w, p, t) ==
  /\ Found(t)
  /\ HasPermission(Role[p], {"helpdesk.read"})
  /\ ticket[t].by # p
  /\ ticket[t].respond # "done"
  /\ Begin(w, [op |-> "respond", ticket |-> t])

WriteComment(w) ==
  /\ req[w].op = "respond"
  /\ ticket' = [ticket EXCEPT ![req[w].ticket].respond = "done"]
  /\ Finish(w)
  /\ UNCHANGED <<announced, contested>>

-----------------------------------------------------------------------------
(* assign *)

\* An OPEN ticket becomes ASSIGNED; any other would have to move to the
\* status it has, which the table never allows.
AssignedStatus(from) == IF from = "OPEN" THEN "ASSIGNED" ELSE from

BeginAssign(w, p, t, q) ==
  /\ HasPermission(Role[p], {"helpdesk.assign"})
  /\ Found(t)
  /\ CanTransition(ticket[t].status, AssignedStatus(ticket[t].status))
  /\ Begin(w, [op |-> "assign", ticket |-> t, from |-> ticket[t].status,
               to |-> AssignedStatus(ticket[t].status), assignee |-> q])

\* A write decided on a status the ticket has lost meanwhile.
Contested(w) ==
  LET t == req[w].ticket IN
    contested' = IF ticket[t].status = req[w].from THEN contested ELSE contested \cup {t}

WriteAssign(w) ==
  /\ req[w].op = "assign"
  /\ ticket' = [ticket EXCEPT ![req[w].ticket].status = req[w].to,
                              ![req[w].ticket].assignee = req[w].assignee]
  /\ Contested(w)
  /\ Finish(w)
  /\ UNCHANGED announced

-----------------------------------------------------------------------------
(* changeStatus *)

MayMove(p, t, to) ==
  \/ HasAnyPermission(Role[p], {"helpdesk.resolve", "helpdesk.assign"})
  \/ ticket[t].assignee = p
  \/ ticket[t].by = p /\ to \in {"CLOSED", "REOPENED"}

BeginMove(w, p, t, to) ==
  /\ Found(t)
  /\ MayMove(p, t, to)
  /\ CanTransition(ticket[t].status, to)
  /\ Begin(w, [op |-> "move", ticket |-> t, from |-> ticket[t].status, to |-> to])

Restarted(due) == IF due = "none" THEN "none" ELSE "ahead"

Moved_KeepsResolvedAt(row, to) ==
  CASE to = "RESOLVED" -> [row EXCEPT !.status = to, !.resolvedAt = "set"]
    [] to = "REOPENED" -> [row EXCEPT !.status = to, !.due = Restarted(@)]
    [] OTHER -> [row EXCEPT !.status = to]

Moved_KeepsDue(row, to) ==
  CASE to = "RESOLVED" -> [row EXCEPT !.status = to, !.resolvedAt = "set"]
    [] to = "REOPENED" -> [row EXCEPT !.status = to, !.resolvedAt = "null"]
    [] OTHER -> [row EXCEPT !.status = to]

\* The patch: resolving stamps resolvedAt; reopening clears it and restarts
\* the deadline of a category that has one.
Moved(row, to) ==
  CASE to = "RESOLVED" -> [row EXCEPT !.status = to, !.resolvedAt = "set"]
    [] to = "REOPENED" -> [row EXCEPT !.status = to, !.resolvedAt = "null", !.due = Restarted(@)]
    [] OTHER -> [row EXCEPT !.status = to]

WriteMove(w) ==
  /\ req[w].op = "move"
  /\ LET t == req[w].ticket IN
       /\ ticket' = [ticket EXCEPT ![t] = Moved(@, req[w].to)]
       /\ announced' = IF req[w].to = "REOPENED" THEN announced \ {t} ELSE announced
  /\ Contested(w)
  /\ Finish(w)

-----------------------------------------------------------------------------
(* rate *)

BeginRate(w, p, t) ==
  /\ Found(t)
  /\ ticket[t].by = p
  /\ ticket[t].status \in {"RESOLVED", "CLOSED"}
  /\ Begin(w, [op |-> "rate", ticket |-> t])

WriteRate(w) ==
  /\ req[w].op = "rate"
  /\ ticket' = [ticket EXCEPT ![req[w].ticket].rated = "yes"]
  /\ Finish(w)
  /\ UNCHANGED <<announced, contested>>

Abort(w) ==
  /\ req[w] # Idle
  /\ Finish(w)
  /\ UNCHANGED <<ticket, announced, contested>>

-----------------------------------------------------------------------------
(* Time and slaSweep, which TicketSlaJob runs every minute *)

RespondPasses(t) ==
  /\ Exists(t)
  /\ ticket[t].respond = "ahead"
  /\ ticket' = [ticket EXCEPT ![t].respond = "past"]
  /\ UNCHANGED <<req, sweeper, announced, contested, bound>>

DuePasses(t) ==
  /\ Exists(t)
  /\ ticket[t].due = "ahead"
  /\ ticket' = [ticket EXCEPT ![t].due = "past"]
  /\ UNCHANGED <<req, sweeper, announced, contested, bound>>

Unresolved_NotReopened == {"OPEN", "ASSIGNED", "IN_PROGRESS", "ON_HOLD"}

Unresolved == {"OPEN", "ASSIGNED", "IN_PROGRESS", "ON_HOLD", "REOPENED"}

Breached ==
  {t \in Tickets :
     /\ Exists(t)
     /\ \/ /\ ticket[t].status \in {"OPEN", "ASSIGNED"}
           /\ ticket[t].respond = "past"
        \/ /\ ticket[t].status \in Unresolved
           /\ ticket[t].resolvedAt = "null"
           /\ ticket[t].due = "past"}

\* The counts decide whether the sweep looks further.
SweepCounts ==
  /\ sweeper = "asleep"
  /\ Breached # {}
  /\ sweeper' = "counted"
  /\ UNCHANGED <<ticket, req, announced, contested, bound>>

\* findMany without an order: any Take of the breached tickets are announced.
SweepAnnounces ==
  /\ sweeper = "counted"
  /\ \E S \in SUBSET Breached :
       /\ Cardinality(S) = Take \/ (S = Breached /\ Cardinality(S) < Take)
       /\ announced' = announced \cup S
  /\ sweeper' = "asleep"
  /\ UNCHANGED <<ticket, req, contested, bound>>

\* A query throws: the tick logs it and arms the timer again.
SweepFails ==
  /\ sweeper = "counted"
  /\ sweeper' = "asleep"
  /\ UNCHANGED <<ticket, req, announced, contested, bound>>

-----------------------------------------------------------------------------
Ask(w) ==
  \E p \in People :
     \/ \E e \in Events \cup {NoEvent} : BeginCreate(w, p, e)
     \/ \E t \in Tickets :
          \/ BeginComment(w, p, t)
          \/ BeginRate(w, p, t)
          \/ \E q \in Assignees : BeginAssign(w, p, t, q)
          \/ \E to \in TicketStatus : BeginMove(w, p, t, to)

Answer(w) ==
  \/ \E t \in Tickets : WriteCreate(w, t)
  \/ WriteComment(w)
  \/ WriteAssign(w)
  \/ WriteMove(w)
  \/ WriteRate(w)
  \/ Abort(w)

Next ==
  \/ \E w \in Workers : Ask(w) \/ Answer(w)
  \/ \E t \in Tickets : RespondPasses(t) \/ DuePasses(t)
  \/ SweepCounts \/ SweepAnnounces \/ SweepFails

Spec == Init /\ [][Next]_vars

\* The timer is armed again after every tick, also one that threw, and the
\* database does not fail for ever; nobody owes the desk a request.
FairSpec ==
  /\ Spec
  /\ WF_vars(SweepCounts)
  /\ SF_vars(SweepAnnounces)

-----------------------------------------------------------------------------
(* Properties *)

\* Every variable keeps its type.
TypeOK ==
  /\ ticket \in [Tickets -> Ticket \cup {NoTicket}]
  /\ req \in [Workers -> Request \cup {Idle}]
  /\ sweeper \in {"asleep", "counted"}
  /\ announced \subseteq Tickets
  /\ contested \subseteq Tickets
  /\ bound \in Bounds

\* resolvedAt, which the sweep, the breached filter and the reports read in
\* place of the status, is set exactly on RESOLVED and CLOSED tickets, through
\* any number of reopenings, unless two writes collided on the ticket.
ResolvedAtFollowsStatus ==
  \A t \in Tickets \ contested :
     Exists(t) => (ticket[t].resolvedAt = "set" <=> ticket[t].status \in {"RESOLVED", "CLOSED"})

\* create's lookup is all that keeps the offline key unique (the column is only
\* indexed): one event makes one ticket as long as its posts do not overlap.
OneTicketPerEvent ==
  Patient => \A t, u \in Tickets :
     Exists(t) /\ Exists(u) /\ ticket[t].event = ticket[u].event /\ ticket[t].event # NoEvent
     => t = u

\* A ticket follows TICKET_TRANSITIONS and its clock stops and restarts with
\* it, until two writes decided on one row collide (changeStatus, assign).
LifecycleSpec == StatusAndClock!Spec

Overdue(t) == Exists(t) /\ ticket[t].status \notin {"RESOLVED", "CLOSED", "CANCELLED"} /\ ticket[t].due = "past"

\* slaSweep tells the staff of every ticket that stays past its resolution
\* deadline, reopened ones included, when at most Take are breached at once.
OverdueIsAnnounced ==
  \A t \in Tickets :
     (Overdue(t) /\ t \notin contested)
       ~> (t \in announced \cup contested \/ ~Overdue(t) \/ Cardinality(Breached) > Take)
=============================================================================
