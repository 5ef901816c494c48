--------------------------- MODULE HelpdeskProofs ---------------------------
(***************************************************************************)
(* Theorems about Helpdesk for any sets of tickets, people, categories and *)
(* concurrent requests, and for FollowAll both ways.                       *)
(*                                                                         *)
(* OneRow and LifecycleSteps say once what any step does to the rows; the  *)
(* invariants and the refinement of TicketLifecycle are argued from them.  *)
(***************************************************************************)
EXTENDS Helpdesk, TLAPS

-----------------------------------------------------------------------------
(* The table of transitions *)

LEMMA Words ==
  TicketStatus = {"OPEN", "ASSIGNED", "IN_PROGRESS", "ON_HOLD", "RESOLVED", "CLOSED", "REOPENED",
                  "CANCELLED"}
BY DEF TicketStatus, StatusAndClock!TicketStatus

\* What TICKET_TRANSITIONS allows into and out of the finished statuses.
LEMMA Table ==
  ASSUME NEW a, NEW b, CanTransition(a, b)
  PROVE  /\ a \in TicketStatus /\ b \in TicketStatus
         /\ b = "REOPENED" => a \in {"RESOLVED", "CLOSED"}
         /\ a \in {"RESOLVED", "CLOSED"} => b \in {"CLOSED", "REOPENED"}
         /\ b = "CLOSED" => a = "RESOLVED"
BY DEF CanTransition, StatusAndClock!CanTransition, StatusAndClock!TICKET_TRANSITIONS,
       TicketStatus, StatusAndClock!TicketStatus

\* Only an OPEN ticket is assigned.
LEMMA AssignMoves ==
  ASSUME NEW a, CanTransition(a, AssignedStatus(a))
  PROVE  a = "OPEN" /\ AssignedStatus(a) = "ASSIGNED"
BY DEF AssignedStatus, CanTransition, StatusAndClock!CanTransition, StatusAndClock!TICKET_TRANSITIONS,
       TicketStatus, StatusAndClock!TicketStatus

-----------------------------------------------------------------------------
(* Types *)

\* What a row that exists is.
LEMMA RowFields ==
  ASSUME TypeOK, NEW t \in Tickets
  PROVE  /\ Exists(t) <=> ticket[t] \in Ticket
         /\ ~Exists(t) <=> ticket[t] = NoTicket
         /\ Exists(t) => /\ ticket[t].status \in TicketStatus /\ ticket[t].status # "ABSENT"
                         /\ ticket[t].event \in Events \cup {NoEvent} /\ ticket[t].due \in Deadline
                         /\ ticket[t].resolvedAt \in {"null", "set"}
<1>1. ticket[t] \in Ticket \cup {NoTicket}
  BY DEF TypeOK
<1>2. \A r \in Ticket : r.status # "ABSENT"
  BY Words DEF Ticket
<1>3. NoTicket.status = "ABSENT"
  BY DEF NoTicket
<1>4. \A r \in Ticket : /\ r.status \in TicketStatus /\ r.event \in Events \cup {NoEvent} /\ r.due \in Deadline
                        /\ r.resolvedAt \in {"null", "set"}
  BY DEF Ticket
<1> QED
  BY <1>1, <1>2, <1>3, <1>4 DEF Exists

\* The fields a request carries, by the handler that carries them.
LEMMA RequestFields ==
  ASSUME TypeOK, NEW w \in Workers
  PROVE  /\ req[w].op \in {"respond", "assign", "move", "rate"} => req[w].ticket \in Tickets
         /\ req[w].op \in {"assign", "move"} => req[w].from \in TicketStatus /\ req[w].to \in TicketStatus
         /\ req[w].op = "assign" => req[w].assignee \in Assignees
         /\ req[w].op = "create" => req[w].by \in People /\ req[w].event \in Events \cup {NoEvent}
<1>1. req[w] \in Request \cup {Idle}
  BY DEF TypeOK
<1> QED
  BY <1>1 DEF Request, Idle

\* The rows the handlers write.
LEMMA WrittenRows ==
  ASSUME NEW r \in Ticket
  PROVE  /\ [r EXCEPT !.respond = "done"] \in Ticket
         /\ [r EXCEPT !.respond = "past"] \in Ticket
         /\ [r EXCEPT !.due = "past"] \in Ticket
         /\ [r EXCEPT !.rated = "yes"] \in Ticket
         /\ \A s \in TicketStatus : /\ [r EXCEPT !.status = s] \in Ticket
                                    /\ Moved(r, s) \in Ticket
                                    /\ \A p \in Assignees : [r EXCEPT !.status = s, !.assignee = p] \in Ticket
<1>1. \A d \in Deadline : Restarted(d) \in Deadline
  BY DEF Restarted, Deadline
<1>2. ASSUME NEW s \in TicketStatus
      PROVE  Moved(r, s) \in Ticket
  <2>1. CASE s = "RESOLVED"
    <3>1. Moved(r, s) = [r EXCEPT !.status = s, !.resolvedAt = "set"]
      BY <2>1 DEF Moved
    <3> QED
      BY <3>1 DEF Ticket
  <2>2. CASE s = "REOPENED"
    <3>1. Moved(r, s) = [r EXCEPT !.status = s, !.resolvedAt = "null", !.due = Restarted(r.due)]
      BY <2>2 DEF Moved
    <3>2. Restarted(r.due) \in Deadline
      BY <1>1 DEF Ticket
    <3> QED
      BY <3>1, <3>2 DEF Ticket
  <2>3. CASE s \notin {"RESOLVED", "REOPENED"}
    <3>1. Moved(r, s) = [r EXCEPT !.status = s]
      BY <2>3 DEF Moved
    <3> QED
      BY <3>1 DEF Ticket
  <2> QED
    BY <2>1, <2>2, <2>3
<1>3. /\ [r EXCEPT !.respond = "done"] \in Ticket
      /\ [r EXCEPT !.respond = "past"] \in Ticket
      /\ [r EXCEPT !.due = "past"] \in Ticket
      /\ [r EXCEPT !.rated = "yes"] \in Ticket
  BY DEF Ticket, Deadline
<1>4. \A s \in TicketStatus : /\ [r EXCEPT !.status = s] \in Ticket
                              /\ \A p \in Assignees : [r EXCEPT !.status = s, !.assignee = p] \in Ticket
  BY DEF Ticket
<1> QED
  BY <1>2, <1>3, <1>4

-----------------------------------------------------------------------------
(* What an open request relies on *)

SoundRequest(r) ==
  /\ r.op \in {"respond", "assign", "move", "rate"} => Exists(r.ticket)
  /\ r.op \in {"assign", "move"} => CanTransition(r.from, r.to)
  /\ r.op = "assign" => r.from = "OPEN" /\ r.to = "ASSIGNED"

Sound ==
  /\ \A w \in Workers : SoundRequest(req[w])
  /\ \A t \in contested : Exists(t)

IInv == TypeOK /\ Sound

\* What each request writes, on a row that exists.
LEMMA WritesFollow ==
  ASSUME IInv, NEW w \in Workers
  PROVE  /\ req[w].op \in {"respond", "assign", "move", "rate"} =>
              req[w].ticket \in Tickets /\ ticket[req[w].ticket] \in Ticket
         /\ req[w].op \in {"assign", "move"} => CanTransition(req[w].from, req[w].to)
         /\ req[w].op = "assign" => req[w].from = "OPEN" /\ req[w].to = "ASSIGNED"
BY RequestFields, RowFields DEF IInv, Sound, SoundRequest

\* The new rows.
LEMMA NewRow ==
  ASSUME IInv, NEW w \in Workers, NEW t \in Tickets, WriteCreate(w, t)
  PROVE  \E r \in Ticket : /\ ticket' = [ticket EXCEPT ![t] = r]
                           /\ r.status = "OPEN" /\ r.event = req[w].event /\ r.resolvedAt = "null"
                           /\ r.due \in {"none", "ahead"}
<1>1. req[w].by \in People /\ req[w].event \in Events \cup {NoEvent}
  BY RequestFields DEF IInv, WriteCreate
<1>2. PICK c \in Categories :
        ticket' = [ticket EXCEPT ![t] =
          [status |-> "OPEN", by |-> req[w].by, event |-> req[w].event, assignee |-> Nobody,
           respond |-> c.respond, due |-> c.due, resolvedAt |-> "null", rated |-> "no"]]
  BY DEF WriteCreate
<1>3. c.respond \in {"none", "ahead"} /\ c.due \in {"none", "ahead"}
  BY HelpdeskAssumption
<1> DEFINE r == [status |-> "OPEN", by |-> req[w].by, event |-> req[w].event, assignee |-> Nobody,
                 respond |-> c.respond, due |-> c.due, resolvedAt |-> "null", rated |-> "no"]
<1>4. r \in Ticket
  BY <1>1, <1>3, Words DEF Ticket, Deadline
<1> QED
  BY <1>2, <1>3, <1>4

\* A write to one row that exists, made of what the row was.
Writes(t, q) == ticket[t] \in Ticket /\ ticket' = [ticket EXCEPT ![t] = q]

\* Every step writes at most one row, and how.
LEMMA OneRow ==
  ASSUME IInv, [Next]_vars
  PROVE  \/ ticket' = ticket /\ contested' = contested
         \/ \E w \in Workers, t \in Tickets : WriteCreate(w, t)
         \/ /\ contested' = contested
            /\ \E t \in Tickets : \/ Writes(t, [ticket[t] EXCEPT !.respond = "done"])
                                  \/ Writes(t, [ticket[t] EXCEPT !.respond = "past"])
                                  \/ Writes(t, [ticket[t] EXCEPT !.rated = "yes"])
         \/ /\ contested' = contested
            /\ \E t \in Tickets : ticket[t].due = "ahead" /\ Writes(t, [ticket[t] EXCEPT !.due = "past"])
         \/ \E w \in Workers : /\ req[w].op \in {"assign", "move"}
                               /\ Contested(w)
                               /\ req[w].op = "assign" =>
                                    Writes(req[w].ticket, [ticket[req[w].ticket] EXCEPT
                                             !.status = "ASSIGNED", !.assignee = req[w].assignee])
                               /\ req[w].op = "move" =>
                                    Writes(req[w].ticket, Moved(ticket[req[w].ticket], req[w].to))
<1>0. ticket \in [Tickets -> Ticket \cup {NoTicket}]
  BY DEF IInv, TypeOK
<1>1. ASSUME NEW w \in Workers, Ask(w) \/ Abort(w)
      PROVE  ticket' = ticket /\ contested' = contested
  BY <1>1 DEF Ask, Abort, BeginCreate, BeginComment, BeginRate, BeginAssign, BeginMove, Begin
<1>2. ASSUME NEW w \in Workers, WriteComment(w)
      PROVE  contested' = contested /\ \E t \in Tickets : Writes(t, [ticket[t] EXCEPT !.respond = "done"])
  BY <1>2, WritesFollow DEF WriteComment, Writes
<1>3. ASSUME NEW w \in Workers, WriteRate(w)
      PROVE  contested' = contested /\ \E t \in Tickets : Writes(t, [ticket[t] EXCEPT !.rated = "yes"])
  BY <1>3, WritesFollow DEF WriteRate, Writes
<1>4. ASSUME NEW w \in Workers, WriteAssign(w)
      PROVE  /\ req[w].op = "assign" /\ Contested(w)
             /\ Writes(req[w].ticket, [ticket[req[w].ticket] EXCEPT
                                         !.status = "ASSIGNED", !.assignee = req[w].assignee])
  BY <1>0, <1>4, WritesFollow DEF WriteAssign, Writes
<1>5. ASSUME NEW w \in Workers, WriteMove(w)
      PROVE  /\ req[w].op = "move" /\ Contested(w)
             /\ Writes(req[w].ticket, Moved(ticket[req[w].ticket], req[w].to))
  BY <1>5, WritesFollow DEF WriteMove, Writes
<1>6. ASSUME NEW t \in Tickets, RespondPasses(t)
      PROVE  contested' = contested /\ Writes(t, [ticket[t] EXCEPT !.respond = "past"])
  BY <1>6, RowFields DEF RespondPasses, Writes, IInv
<1>7. ASSUME NEW t \in Tickets, DuePasses(t)
      PROVE  /\ contested' = contested /\ ticket[t].due = "ahead"
             /\ Writes(t, [ticket[t] EXCEPT !.due = "past"])
  BY <1>7, RowFields DEF DuePasses, Writes, IInv
<1>8. CASE SweepCounts \/ SweepAnnounces \/ SweepFails \/ UNCHANGED vars
  BY <1>8 DEF SweepCounts, SweepAnnounces, SweepFails, vars
<1> QED
  BY <1>1, <1>2, <1>3, <1>4, <1>5, <1>6, <1>7, <1>8 DEF Next, Answer

\* The rows stay rows, and none is deleted.
LEMMA RowsKept ==
  ASSUME IInv, [Next]_vars
  PROVE  /\ ticket' \in [Tickets -> Ticket \cup {NoTicket}]
         /\ \A t \in Tickets : Exists(t) => Exists(t)'
<1>1. ASSUME NEW t \in Tickets, NEW r \in Ticket, ticket' = [ticket EXCEPT ![t] = r]
      PROVE  /\ ticket' \in [Tickets -> Ticket \cup {NoTicket}]
             /\ \A u \in Tickets : Exists(u) => Exists(u)'
  <2>1. ticket \in [Tickets -> Ticket \cup {NoTicket}]
    BY DEF IInv, TypeOK
  <2>2. r.status # "ABSENT"
    BY Words DEF Ticket
  <2> QED
    BY <1>1, <2>1, <2>2 DEF Exists
<1>2. ASSUME NEW t \in Tickets, NEW q, Writes(t, q), ticket[t] \in Ticket => q \in Ticket
      PROVE  /\ ticket' \in [Tickets -> Ticket \cup {NoTicket}]
             /\ \A u \in Tickets : Exists(u) => Exists(u)'
  BY <1>1, <1>2 DEF Writes
<1>3. CASE ticket' = ticket
  BY <1>3 DEF IInv, TypeOK, Exists
<1>4. CASE \E w \in Workers, t \in Tickets : WriteCreate(w, t)
  BY <1>1, <1>4, NewRow
<1>5. CASE \E t \in Tickets : \/ Writes(t, [ticket[t] EXCEPT !.respond = "done"])
                              \/ Writes(t, [ticket[t] EXCEPT !.respond = "past"])
                              \/ Writes(t, [ticket[t] EXCEPT !.rated = "yes"])
                              \/ Writes(t, [ticket[t] EXCEPT !.due = "past"])
  BY <1>2, <1>5, WrittenRows
<1>6. ASSUME NEW w \in Workers, req[w].op = "assign",
             Writes(req[w].ticket, [ticket[req[w].ticket] EXCEPT
                                       !.status = "ASSIGNED", !.assignee = req[w].assignee])
      PROVE  /\ ticket' \in [Tickets -> Ticket \cup {NoTicket}]
             /\ \A u \in Tickets : Exists(u) => Exists(u)'
  <2>1. req[w].ticket \in Tickets /\ req[w].assignee \in Assignees /\ "ASSIGNED" \in TicketStatus
    BY <1>6, RequestFields, Words DEF IInv
  <2> QED
    BY <1>2, <1>6, <2>1, WrittenRows
<1>7. ASSUME NEW w \in Workers, req[w].op = "move",
             Writes(req[w].ticket, Moved(ticket[req[w].ticket], req[w].to))
      PROVE  /\ ticket' \in [Tickets -> Ticket \cup {NoTicket}]
             /\ \A u \in Tickets : Exists(u) => Exists(u)'
  <2>1. req[w].ticket \in Tickets /\ req[w].to \in TicketStatus
    BY <1>7, RequestFields DEF IInv
  <2> QED
    BY <1>2, <1>7, <2>1, WrittenRows
<1> QED
  BY <1>3, <1>4, <1>5, <1>6, <1>7, OneRow

\* What the requests, the sweep and the history become.
LEMMA RequestsKept ==
  ASSUME IInv, [Next]_vars
  PROVE  /\ req' \in [Workers -> Request \cup {Idle}]
         /\ sweeper' \in {"asleep", "counted"} /\ announced' \subseteq Tickets
         /\ contested' \subseteq Tickets /\ bound' \in Bounds
         /\ \A t \in contested' : Exists(t)
<1> USE DEF IInv, TypeOK
<1>1. ASSUME NEW w \in Workers, Ask(w)
      PROVE  req' \in [Workers -> Request \cup {Idle}]
  <2>1. \A p \in People, e \in Events \cup {NoEvent} : BeginCreate(w, p, e) => req' \in [Workers -> Request \cup {Idle}]
    BY DEF BeginCreate, Begin, Request
  <2>2. \A p \in People, t \in Tickets :
          BeginComment(w, p, t) \/ BeginRate(w, p, t) => req' \in [Workers -> Request \cup {Idle}]
    BY DEF BeginComment, BeginRate, Begin, Request
  <2>3. \A p \in People, t \in Tickets, q \in Assignees :
          BeginAssign(w, p, t, q) => req' \in [Workers -> Request \cup {Idle}]
    <3> SUFFICES ASSUME NEW p \in People, NEW t \in Tickets, NEW q \in Assignees, BeginAssign(w, p, t, q)
                 PROVE  req' \in [Workers -> Request \cup {Idle}]
      OBVIOUS
    <3>1. ticket[t].status \in TicketStatus /\ AssignedStatus(ticket[t].status) \in TicketStatus
      BY Table DEF BeginAssign
    <3>2. [op |-> "assign", ticket |-> t, from |-> ticket[t].status,
           to |-> AssignedStatus(ticket[t].status), assignee |-> q] \in Request
      BY <3>1 DEF Request
    <3> QED
      BY <3>2 DEF BeginAssign, Begin
  <2>4. \A p \in People, t \in Tickets, to \in TicketStatus :
          BeginMove(w, p, t, to) => req' \in [Workers -> Request \cup {Idle}]
    <3> SUFFICES ASSUME NEW p \in People, NEW t \in Tickets, NEW to \in TicketStatus, BeginMove(w, p, t, to)
                 PROVE  req' \in [Workers -> Request \cup {Idle}]
      OBVIOUS
    <3>1. ticket[t].status \in TicketStatus
      BY Table DEF BeginMove
    <3>2. [op |-> "move", ticket |-> t, from |-> ticket[t].status, to |-> to] \in Request
      BY <3>1 DEF Request
    <3> QED
      BY <3>2 DEF BeginMove, Begin
  <2> QED
    BY <1>1, <2>1, <2>2, <2>3, <2>4 DEF Ask
<1>2. ASSUME NEW w \in Workers, Answer(w)
      PROVE  req' \in [Workers -> Request \cup {Idle}]
  BY <1>2 DEF Answer, WriteCreate, WriteComment, WriteAssign, WriteMove, WriteRate, Abort, Finish
<1>3. req' \in [Workers -> Request \cup {Idle}]
  <2>1. CASE \E t \in Tickets : RespondPasses(t) \/ DuePasses(t)
    BY <2>1 DEF RespondPasses, DuePasses
  <2>2. CASE SweepCounts \/ SweepAnnounces \/ SweepFails \/ UNCHANGED vars
    BY <2>2 DEF SweepCounts, SweepAnnounces, SweepFails, vars
  <2> QED
    BY <1>1, <1>2, <2>1, <2>2 DEF Next
<1>4. sweeper' \in {"asleep", "counted"} /\ announced' \subseteq Tickets
  <2>1. ASSUME NEW w \in Workers, Ask(w)
        PROVE  sweeper' = sweeper /\ announced' = announced
    BY <2>1 DEF Ask, BeginCreate, BeginComment, BeginRate, BeginAssign, BeginMove, Begin
  <2>2. ASSUME NEW w \in Workers, Answer(w)
        PROVE  sweeper' = sweeper /\ announced' \subseteq announced
    BY <2>2 DEF Answer, WriteCreate, WriteComment, WriteAssign, WriteMove, WriteRate, Abort, Finish
  <2>3. CASE \E t \in Tickets : RespondPasses(t) \/ DuePasses(t)
    BY <2>3 DEF RespondPasses, DuePasses
  <2>4. CASE SweepCounts \/ SweepAnnounces \/ SweepFails \/ UNCHANGED vars
    BY <2>4 DEF SweepCounts, SweepAnnounces, SweepFails, vars, Breached
  <2> QED
    BY <2>1, <2>2, <2>3, <2>4 DEF Next
<1>5. contested' \subseteq Tickets /\ \A t \in contested' : Exists(t)
  <2>1. \A w \in Workers : req[w].op \in {"assign", "move"} => req[w].ticket \in Tickets /\ Exists(req[w].ticket)
    BY RequestFields DEF Sound, SoundRequest
  <2>2. CASE contested' = contested
    BY <2>2 DEF Sound
  <2>3. CASE \E w \in Workers, t \in Tickets : WriteCreate(w, t)
    BY <2>3 DEF Sound, WriteCreate
  <2>4. ASSUME NEW w \in Workers, req[w].op \in {"assign", "move"}, Contested(w)
        PROVE  contested' \subseteq Tickets /\ \A t \in contested' : Exists(t)
    BY <2>1, <2>4 DEF Contested, Sound
  <2> QED
    BY <2>2, <2>3, <2>4, OneRow
<1>6. bound' \in Bounds
  <2>1. ASSUME NEW w \in Workers, Ask(w)
        PROVE  bound' = bound
    BY <2>1 DEF Ask, BeginCreate, BeginComment, BeginRate, BeginAssign, BeginMove, Begin
  <2>2. ASSUME NEW w \in Workers, Answer(w)
        PROVE  bound' = bound
    BY <2>2 DEF Answer, WriteCreate, WriteComment, WriteAssign, WriteMove, WriteRate, Abort, Finish
  <2>3. CASE \E t \in Tickets : RespondPasses(t) \/ DuePasses(t)
    BY <2>3 DEF RespondPasses, DuePasses
  <2>4. CASE SweepCounts \/ SweepAnnounces \/ SweepFails \/ UNCHANGED vars
    BY <2>4 DEF SweepCounts, SweepAnnounces, SweepFails, vars
  <2> QED
    BY <2>1, <2>2, <2>3, <2>4 DEF Next
<1> QED
  BY <1>3, <1>4, <1>5, <1>6

\* What create checks of a post's event.
MayPost(e) == ~Known(e) /\ (Patient /\ e # NoEvent => ~Posting(e))

\* A request is kept, ended, or one that a handler's checks let in.
LEMMA RequestSteps ==
  ASSUME IInv, [Next]_vars, NEW w \in Workers
  PROVE  \/ req'[w] = req[w]
         \/ req'[w] = Idle
         \/ /\ req[w] = Idle /\ \A x \in Workers \ {w} : req'[x] = req[x]
            /\ ticket' = ticket
            /\ \/ \E p \in People, e \in Events \cup {NoEvent} :
                    MayPost(e) /\ req'[w] = [op |-> "create", by |-> p, event |-> e]
               \/ \E t \in Tickets, op \in {"respond", "rate"} : Exists(t) /\ req'[w] = [op |-> op, ticket |-> t]
               \/ \E t \in Tickets, p \in Assignees :
                    /\ Exists(t) /\ CanTransition(ticket[t].status, AssignedStatus(ticket[t].status))
                    /\ req'[w] = [op |-> "assign", ticket |-> t, from |-> ticket[t].status,
                                  to |-> AssignedStatus(ticket[t].status), assignee |-> p]
               \/ \E t \in Tickets, to \in TicketStatus :
                    /\ Exists(t) /\ CanTransition(ticket[t].status, to)
                    /\ req'[w] = [op |-> "move", ticket |-> t, from |-> ticket[t].status, to |-> to]
<1>0. req \in [Workers -> Request \cup {Idle}]
  BY DEF IInv, TypeOK
<1>1. ASSUME NEW x \in Workers, x # w, Ask(x) \/ Answer(x)
      PROVE  req'[w] = req[w]
  BY <1>0, <1>1 DEF Ask, BeginCreate, BeginComment, BeginRate, BeginAssign, BeginMove, Begin,
     Answer, WriteCreate, WriteComment, WriteAssign, WriteMove, WriteRate, Abort, Finish
<1>2. CASE Answer(w)
  BY <1>0, <1>2 DEF Answer, WriteCreate, WriteComment, WriteAssign, WriteMove, WriteRate, Abort, Finish
<1>3. CASE (\E t \in Tickets : RespondPasses(t) \/ DuePasses(t)) \/ SweepCounts \/ SweepAnnounces \/ SweepFails
            \/ UNCHANGED vars
  BY <1>3 DEF RespondPasses, DuePasses, SweepCounts, SweepAnnounces, SweepFails, vars
<1>4. ASSUME NEW r, Begin(w, r)
      PROVE  req[w] = Idle /\ req'[w] = r /\ ticket' = ticket /\ \A x \in Workers \ {w} : req'[x] = req[x]
  BY <1>0, <1>4 DEF Begin
<1>5. ASSUME NEW p \in People, NEW e \in Events \cup {NoEvent}, BeginCreate(w, p, e)
      PROVE  Begin(w, [op |-> "create", by |-> p, event |-> e]) /\ MayPost(e)
  BY <1>5 DEF BeginCreate, MayPost
<1>6. ASSUME NEW p \in People, NEW t \in Tickets, BeginComment(w, p, t)
      PROVE  Begin(w, [op |-> "respond", ticket |-> t]) /\ Exists(t)
  BY <1>6 DEF BeginComment, Found
<1>7. ASSUME NEW p \in People, NEW t \in Tickets, BeginRate(w, p, t)
      PROVE  Begin(w, [op |-> "rate", ticket |-> t]) /\ Exists(t)
  BY <1>7 DEF BeginRate, Found
<1>8. ASSUME NEW p \in People, NEW t \in Tickets, NEW q \in Assignees, BeginAssign(w, p, t, q)
      PROVE  /\ Exists(t) /\ CanTransition(ticket[t].status, AssignedStatus(ticket[t].status))
             /\ Begin(w, [op |-> "assign", ticket |-> t, from |-> ticket[t].status,
                          to |-> AssignedStatus(ticket[t].status), assignee |-> q])
  BY <1>8 DEF BeginAssign, Found
<1>9. ASSUME NEW p \in People, NEW t \in Tickets, NEW to \in TicketStatus, BeginMove(w, p, t, to)
      PROVE  /\ Exists(t) /\ CanTransition(ticket[t].status, to)
             /\ Begin(w, [op |-> "move", ticket |-> t, from |-> ticket[t].status, to |-> to])
  BY <1>9 DEF BeginMove, Found
<1>10. CASE \E p \in People, e \in Events \cup {NoEvent} : BeginCreate(w, p, e)
  BY <1>4, <1>5, <1>10
<1>11. CASE \E p \in People, t \in Tickets : BeginComment(w, p, t) \/ BeginRate(w, p, t)
  BY <1>4, <1>6, <1>7, <1>11
<1>12. CASE \E p \in People, t \in Tickets, q \in Assignees : BeginAssign(w, p, t, q)
  <2>1. PICK p \in People, t \in Tickets, q \in Assignees : BeginAssign(w, p, t, q)
    BY <1>12
  <2>2. /\ Exists(t) /\ CanTransition(ticket[t].status, AssignedStatus(ticket[t].status))
        /\ Begin(w, [op |-> "assign", ticket |-> t, from |-> ticket[t].status,
                     to |-> AssignedStatus(ticket[t].status), assignee |-> q])
    BY <1>8, <2>1
  <2>3. /\ req[w] = Idle /\ ticket' = ticket /\ \A x \in Workers \ {w} : req'[x] = req[x]
        /\ req'[w] = [op |-> "assign", ticket |-> t, from |-> ticket[t].status,
                      to |-> AssignedStatus(ticket[t].status), assignee |-> q]
    BY <1>4, <2>2
  <2> QED
    BY <2>2, <2>3
<1>13. CASE \E p \in People, t \in Tickets, to \in TicketStatus : BeginMove(w, p, t, to)
  <2>1. PICK p \in People, t \in Tickets, to \in TicketStatus : BeginMove(w, p, t, to)
    BY <1>13
  <2>2. /\ Exists(t) /\ CanTransition(ticket[t].status, to)
        /\ Begin(w, [op |-> "move", ticket |-> t, from |-> ticket[t].status, to |-> to])
    BY <1>9, <2>1
  <2>3. /\ req[w] = Idle /\ ticket' = ticket /\ \A x \in Workers \ {w} : req'[x] = req[x]
        /\ req'[w] = [op |-> "move", ticket |-> t, from |-> ticket[t].status, to |-> to]
    BY <1>4, <2>2
  <2> QED
    BY <2>2, <2>3
<1> QED
  BY <1>1, <1>2, <1>3, <1>10, <1>11, <1>12, <1>13 DEF Next, Ask

LEMMA InitIInv == Init => IInv
BY DEF Init, IInv, TypeOK, Sound, SoundRequest, Idle

LEMMA NextIInv ==
  ASSUME IInv, [Next]_vars
  PROVE  IInv'
<1>1. TypeOK'
  BY RowsKept, RequestsKept DEF TypeOK
<1>2. \A t \in contested' : Exists(t)'
  BY RowsKept, RequestsKept
<1>3. ASSUME NEW w \in Workers
      PROVE  SoundRequest(req[w])'
  <2>1. CASE req'[w] = req[w]
    <3>1. req[w].op \in {"respond", "assign", "move", "rate"} => ticket'[req[w].ticket].status # "ABSENT"
      BY WritesFollow, RowsKept, RowFields DEF IInv, Exists
    <3> QED
      BY <2>1, <3>1, WritesFollow DEF SoundRequest, Exists
  <2>2. CASE req'[w] = Idle
    BY <2>2 DEF SoundRequest, Idle
  <2>3. CASE ticket' = ticket /\ \E p \in People, e \in Events \cup {NoEvent} : req'[w] = [op |-> "create", by |-> p, event |-> e]
    BY <2>3 DEF SoundRequest
  <2>4. CASE ticket' = ticket /\ \E t \in Tickets, op \in {"respond", "rate"} :
                                   Exists(t) /\ req'[w] = [op |-> op, ticket |-> t]
    BY <2>4 DEF SoundRequest, Exists
  <2>5. CASE ticket' = ticket /\ \E t \in Tickets, p \in Assignees :
                /\ Exists(t) /\ CanTransition(ticket[t].status, AssignedStatus(ticket[t].status))
                /\ req'[w] = [op |-> "assign", ticket |-> t, from |-> ticket[t].status,
                              to |-> AssignedStatus(ticket[t].status), assignee |-> p]
    BY <2>5, AssignMoves DEF SoundRequest, Exists
  <2>6. CASE ticket' = ticket /\ \E t \in Tickets, to \in TicketStatus :
                /\ Exists(t) /\ CanTransition(ticket[t].status, to)
                /\ req'[w] = [op |-> "move", ticket |-> t, from |-> ticket[t].status, to |-> to]
    BY <2>6 DEF SoundRequest, Exists
  <2> QED
    BY <2>1, <2>2, <2>3, <2>4, <2>5, <2>6, RequestSteps
<1> QED
  BY <1>1, <1>2, <1>3 DEF IInv, Sound

LEMMA Invariant == Spec => []IInv
<1>1. IInv /\ [Next]_vars => IInv'
  BY NextIInv
<1> QED
  BY <1>1, InitIInv, PTL DEF Spec

-----------------------------------------------------------------------------
(* resolvedAt *)

\* What a write does to the fields the promises are about.
LEMMA MovedFields ==
  ASSUME NEW r \in Ticket, NEW s \in TicketStatus
  PROVE  /\ Moved(r, s).status = s /\ Moved(r, s).event = r.event
         /\ Moved(r, s).resolvedAt = IF s = "RESOLVED" THEN "set"
                                     ELSE IF s = "REOPENED" THEN "null" ELSE r.resolvedAt
         /\ Moved(r, s).due = IF s = "REOPENED" THEN Restarted(r.due) ELSE r.due
<1>1. CASE s = "RESOLVED"
  BY <1>1 DEF Moved, Ticket
<1>2. CASE s = "REOPENED"
  BY <1>2 DEF Moved, Ticket
<1>3. CASE s \notin {"RESOLVED", "REOPENED"}
  BY <1>3 DEF Moved, Ticket
<1> QED
  BY <1>1, <1>2, <1>3

\* A row as the lifecycle sees it.
SameClock(q, r) == q.status = r.status /\ q.event = r.event /\ q.due = r.due /\ q.resolvedAt = r.resolvedAt

\* The row t of a step that writes q in the place of r, by what it does to the
\* status and the clock.
RowStep(r, q) ==
  \/ SameClock(q, r)
  \/ q.status = r.status /\ q.event = r.event /\ q.resolvedAt = r.resolvedAt /\ r.due = "ahead" /\ q.due = "past"
  \/ r.status = "ABSENT" /\ q.status = "OPEN" /\ q.resolvedAt = "null" /\ q.due \in {"none", "ahead"}

MoveStep(r, q, to) ==
  /\ q.status = to /\ q.event = r.event
  /\ q.resolvedAt = IF to = "RESOLVED" THEN "set" ELSE IF to = "REOPENED" THEN "null" ELSE r.resolvedAt
  /\ q.due = IF to = "REOPENED" THEN Restarted(r.due) ELSE r.due

\* Only one row moves in a step: by a clock, by its creation, or by a move that
\* was decided on the status it has or makes it contested.
LEMMA LifecycleSteps ==
  ASSUME IInv, [Next]_vars
  PROVE  \/ ticket' = ticket /\ contested' = contested
         \/ \E t \in Tickets : /\ RowStep(ticket[t], ticket'[t])
                               /\ \A u \in Tickets \ {t} : ticket'[u] = ticket[u]
                               /\ contested' = contested
         \/ \E t \in Tickets, from \in TicketStatus, to \in TicketStatus :
              /\ MoveStep(ticket[t], ticket'[t], to) /\ CanTransition(from, to) /\ Exists(t)
              /\ \A u \in Tickets \ {t} : ticket'[u] = ticket[u]
              /\ contested' = IF ticket[t].status = from THEN contested ELSE contested \cup {t}
<1>0. ticket \in [Tickets -> Ticket \cup {NoTicket}]
  BY DEF IInv, TypeOK
<1>1. ASSUME NEW t \in Tickets, NEW q, Writes(t, q)
      PROVE  ticket'[t] = q /\ ticket[t] \in Ticket /\ \A u \in Tickets \ {t} : ticket'[u] = ticket[u]
  BY <1>0, <1>1 DEF Writes
<1>2. ASSUME NEW w \in Workers, NEW t \in Tickets, WriteCreate(w, t)
      PROVE  /\ RowStep(ticket[t], ticket'[t]) /\ contested' = contested
             /\ \A u \in Tickets \ {t} : ticket'[u] = ticket[u]
  <2>1. PICK r \in Ticket : /\ ticket' = [ticket EXCEPT ![t] = r]
                            /\ r.status = "OPEN" /\ r.resolvedAt = "null" /\ r.due \in {"none", "ahead"}
    BY <1>2, NewRow
  <2>2. ticket[t].status = "ABSENT" /\ contested' = contested
    BY <1>2 DEF WriteCreate, Exists
  <2> QED
    BY <1>0, <2>1, <2>2 DEF RowStep
<1>3. ASSUME NEW t \in Tickets,
             \/ Writes(t, [ticket[t] EXCEPT !.respond = "done"])
             \/ Writes(t, [ticket[t] EXCEPT !.respond = "past"])
             \/ Writes(t, [ticket[t] EXCEPT !.rated = "yes"])
      PROVE  RowStep(ticket[t], ticket'[t]) /\ \A u \in Tickets \ {t} : ticket'[u] = ticket[u]
  <2>1. ticket[t] \in Ticket /\ \A u \in Tickets \ {t} : ticket'[u] = ticket[u]
    BY <1>1, <1>3
  <2>2. \/ ticket'[t] = [ticket[t] EXCEPT !.respond = "done"]
        \/ ticket'[t] = [ticket[t] EXCEPT !.respond = "past"]
        \/ ticket'[t] = [ticket[t] EXCEPT !.rated = "yes"]
    BY <1>1, <1>3
  <2> QED
    BY <2>1, <2>2 DEF RowStep, SameClock, Ticket
<1>4. ASSUME NEW t \in Tickets, ticket[t].due = "ahead", Writes(t, [ticket[t] EXCEPT !.due = "past"])
      PROVE  RowStep(ticket[t], ticket'[t]) /\ \A u \in Tickets \ {t} : ticket'[u] = ticket[u]
  <2>1. /\ ticket[t] \in Ticket /\ \A u \in Tickets \ {t} : ticket'[u] = ticket[u]
        /\ ticket'[t] = [ticket[t] EXCEPT !.due = "past"]
    BY <1>1, <1>4
  <2> QED
    BY <1>4, <2>1 DEF RowStep, Ticket
<1>5. ASSUME NEW w \in Workers, req[w].op \in {"assign", "move"}, Contested(w),
             req[w].op = "assign" =>
               Writes(req[w].ticket, [ticket[req[w].ticket] EXCEPT
                                        !.status = "ASSIGNED", !.assignee = req[w].assignee]),
             req[w].op = "move" => Writes(req[w].ticket, Moved(ticket[req[w].ticket], req[w].to))
      PROVE  /\ req[w].ticket \in Tickets /\ req[w].from \in TicketStatus /\ req[w].to \in TicketStatus
             /\ MoveStep(ticket[req[w].ticket], ticket'[req[w].ticket], req[w].to)
             /\ CanTransition(req[w].from, req[w].to) /\ Exists(req[w].ticket)
             /\ \A u \in Tickets \ {req[w].ticket} : ticket'[u] = ticket[u]
             /\ contested' = IF ticket[req[w].ticket].status = req[w].from THEN contested
                             ELSE contested \cup {req[w].ticket}
  <2> PICK t \in Tickets, to \in TicketStatus : t = req[w].ticket /\ to = req[w].to
    BY <1>5, RequestFields DEF IInv
  <2>1. ticket[t] \in Ticket /\ Exists(t) /\ CanTransition(req[w].from, to) /\ req[w].from \in TicketStatus
    BY <1>5, WritesFollow, RowFields, RequestFields DEF IInv
  <2>2. MoveStep(ticket[t], ticket'[t], to) /\ \A u \in Tickets \ {t} : ticket'[u] = ticket[u]
    <3>1. CASE req[w].op = "move"
      <4>1. ticket'[t] = Moved(ticket[t], to) /\ \A u \in Tickets \ {t} : ticket'[u] = ticket[u]
        BY <1>1, <1>5, <3>1
      <4> QED
        BY <2>1, <4>1, MovedFields DEF MoveStep
    <3>2. CASE req[w].op = "assign"
      <4>1. /\ ticket'[t] = [ticket[t] EXCEPT !.status = "ASSIGNED", !.assignee = req[w].assignee]
            /\ \A u \in Tickets \ {t} : ticket'[u] = ticket[u]
        BY <1>1, <1>5, <3>2
      <4>2. to = "ASSIGNED"
        BY <3>2, WritesFollow
      <4> QED
        BY <2>1, <4>1, <4>2 DEF MoveStep, Ticket
    <3> QED
      BY <1>5, <3>1, <3>2
  <2> QED
    BY <1>5, <2>1, <2>2 DEF Contested
<1> QED
  BY <1>2, <1>3, <1>4, <1>5, OneRow

LEMMA StatusStep ==
  ASSUME IInv, ResolvedAtFollowsStatus, [Next]_vars
  PROVE  ResolvedAtFollowsStatus'
<1> SUFFICES ASSUME NEW u \in Tickets, u \notin contested', ticket'[u].status # "ABSENT"
             PROVE  ticket'[u].resolvedAt = "set" <=> ticket'[u].status \in {"RESOLVED", "CLOSED"}
  BY DEF ResolvedAtFollowsStatus, Exists
<1>0. u \notin contested =>
        (ticket[u].status # "ABSENT" =>
           (ticket[u].resolvedAt = "set" <=> ticket[u].status \in {"RESOLVED", "CLOSED"}))
  BY DEF ResolvedAtFollowsStatus, Exists
<1>1. CASE ticket' = ticket /\ contested' = contested
  BY <1>0, <1>1
<1>2. ASSUME NEW t \in Tickets, RowStep(ticket[t], ticket'[t]), contested' = contested,
             \A v \in Tickets \ {t} : ticket'[v] = ticket[v]
      PROVE  ticket'[u].resolvedAt = "set" <=> ticket'[u].status \in {"RESOLVED", "CLOSED"}
  BY <1>0, <1>2 DEF RowStep, SameClock
<1>3. ASSUME NEW t \in Tickets, NEW from \in TicketStatus, NEW to \in TicketStatus,
             MoveStep(ticket[t], ticket'[t], to), CanTransition(from, to), Exists(t),
             \A v \in Tickets \ {t} : ticket'[v] = ticket[v],
             contested' = IF ticket[t].status = from THEN contested ELSE contested \cup {t}
      PROVE  ticket'[u].resolvedAt = "set" <=> ticket'[u].status \in {"RESOLVED", "CLOSED"}
  <2>1. u \notin contested
    BY <1>3
  <2>2. CASE u # t
    BY <1>0, <1>3, <2>1, <2>2
  <2>3. CASE u = t
    <3>1. ticket[t].status = from
      BY <1>3, <2>3
    <3>2. ticket[t].resolvedAt = "set" <=> from \in {"RESOLVED", "CLOSED"}
      BY <1>0, <1>3, <2>1, <2>3, <3>1 DEF Exists
    <3>3. /\ to = "REOPENED" => from \in {"RESOLVED", "CLOSED"}
          /\ from \in {"RESOLVED", "CLOSED"} => to \in {"CLOSED", "REOPENED"}
          /\ to = "CLOSED" => from = "RESOLVED"
      BY <1>3, Table
    <3> QED
      BY <1>3, <2>3, <3>2, <3>3 DEF MoveStep
  <2> QED
    BY <2>2, <2>3
<1> QED
  BY <1>1, <1>2, <1>3, LifecycleSteps

-----------------------------------------------------------------------------
(* The offline key *)

\* While posts wait for each other, an event that is being posted has no ticket
\* yet and nobody else posts it.
OnePost ==
  Patient => \A w \in Workers : req[w].op = "create" /\ req[w].event # NoEvent =>
     /\ ~Known(req[w].event)
     /\ \A x \in Workers : req[x].op = "create" /\ req[x].event = req[w].event => x = w

\* The events of the rows change only by a creation.
LEMMA EventsKept ==
  ASSUME IInv, [Next]_vars
  PROVE  \/ \A t \in Tickets : (Exists(t)' <=> Exists(t)) /\ (Exists(t) => ticket'[t].event = ticket[t].event)
         \/ \E w \in Workers, t \in Tickets :
              /\ WriteCreate(w, t) /\ ~Exists(t) /\ ticket'[t].event = req[w].event
              /\ \A u \in Tickets \ {t} : ticket'[u] = ticket[u]
<1>0. ticket \in [Tickets -> Ticket \cup {NoTicket}]
  BY DEF IInv, TypeOK
<1>1. ASSUME NEW w \in Workers, NEW t \in Tickets, WriteCreate(w, t)
      PROVE  ~Exists(t) /\ ticket'[t].event = req[w].event /\ \A u \in Tickets \ {t} : ticket'[u] = ticket[u]
  <2>1. PICK r \in Ticket : ticket' = [ticket EXCEPT ![t] = r] /\ r.event = req[w].event
    BY <1>1, NewRow
  <2> QED
    BY <1>0, <1>1, <2>1 DEF WriteCreate
<1>2. ASSUME NEW t \in Tickets, NEW q, Writes(t, q), q.status # "ABSENT", q.event = ticket[t].event
      PROVE  \A u \in Tickets : (Exists(u)' <=> Exists(u)) /\ (Exists(u) => ticket'[u].event = ticket[u].event)
  BY <1>0, <1>2, RowFields DEF Writes, Exists, IInv
<1>3. ASSUME NEW t \in Tickets, NEW q,
             \/ q = [ticket[t] EXCEPT !.respond = "done"]
             \/ q = [ticket[t] EXCEPT !.respond = "past"]
             \/ q = [ticket[t] EXCEPT !.rated = "yes"]
             \/ q = [ticket[t] EXCEPT !.due = "past"],
             Writes(t, q)
      PROVE  q.status # "ABSENT" /\ q.event = ticket[t].event
  <2>1. ticket[t] \in Ticket /\ ticket[t].status # "ABSENT"
    BY <1>3, RowFields DEF Writes, IInv
  <2> QED
    BY <1>3, <2>1 DEF Ticket
<1>4. ASSUME NEW w \in Workers, req[w].op = "move",
             Writes(req[w].ticket, Moved(ticket[req[w].ticket], req[w].to))
      PROVE  \A u \in Tickets : (Exists(u)' <=> Exists(u)) /\ (Exists(u) => ticket'[u].event = ticket[u].event)
  <2> PICK t \in Tickets, to \in TicketStatus : t = req[w].ticket /\ to = req[w].to
    BY <1>4, RequestFields DEF IInv
  <2>1. Moved(ticket[t], to).status = to /\ Moved(ticket[t], to).event = ticket[t].event
    BY <1>4, MovedFields DEF Writes
  <2>2. to # "ABSENT"
    BY Words
  <2> QED
    BY <1>2, <1>4, <2>1, <2>2
<1>5. ASSUME NEW w \in Workers, req[w].op = "assign",
             Writes(req[w].ticket, [ticket[req[w].ticket] EXCEPT
                                      !.status = "ASSIGNED", !.assignee = req[w].assignee])
      PROVE  \A u \in Tickets : (Exists(u)' <=> Exists(u)) /\ (Exists(u) => ticket'[u].event = ticket[u].event)
  <2> PICK t \in Tickets : t = req[w].ticket
    BY <1>5, RequestFields DEF IInv
  <2> DEFINE q == [ticket[t] EXCEPT !.status = "ASSIGNED", !.assignee = req[w].assignee]
  <2>1. ticket[t] \in Ticket
    BY <1>5 DEF Writes
  <2>2. q.status # "ABSENT" /\ q.event = ticket[t].event
    BY <2>1 DEF Ticket
  <2> QED
    BY <1>2, <1>5, <2>2
<1>6. CASE ticket' = ticket
  BY <1>6 DEF Exists
<1>7. CASE \E t \in Tickets : \/ Writes(t, [ticket[t] EXCEPT !.respond = "done"])
                              \/ Writes(t, [ticket[t] EXCEPT !.respond = "past"])
                              \/ Writes(t, [ticket[t] EXCEPT !.rated = "yes"])
                              \/ Writes(t, [ticket[t] EXCEPT !.due = "past"])
  BY <1>2, <1>3, <1>7
<1> QED
  BY <1>1, <1>4, <1>5, <1>6, <1>7, OneRow

LEMMA PostStep ==
  ASSUME IInv, OnePost, OneTicketPerEvent, [Next]_vars
  PROVE  OnePost' /\ OneTicketPerEvent'
<1> SUFFICES ASSUME Patient PROVE OnePost' /\ OneTicketPerEvent'
  BY DEF OnePost, OneTicketPerEvent
<1>1. CASE \A t \in Tickets : (Exists(t)' <=> Exists(t)) /\ (Exists(t) => ticket'[t].event = ticket[t].event)
  <2>1. OneTicketPerEvent'
    BY <1>1 DEF OneTicketPerEvent
  <2>2. ASSUME NEW e, e # NoEvent
        PROVE  (\E t \in Tickets : ticket'[t].status # "ABSENT" /\ ticket'[t].event = e) <=> Known(e)
    <3>1. Known(e) <=> \E t \in Tickets : Exists(t) /\ ticket[t].event = e
      BY <2>2 DEF Known
    <3>2. \A t \in Tickets : ticket'[t].status # "ABSENT" <=> Exists(t)
      BY <1>1 DEF Exists
    <3>3. \A t \in Tickets : Exists(t) => ticket'[t].event = ticket[t].event
      BY <1>1
    <3> QED
      BY <3>1, <3>2, <3>3
  <2>3. ASSUME NEW w \in Workers, req'[w].op = "create", req'[w].event # NoEvent
        PROVE  /\ ~Known(req'[w].event)
               /\ \A x \in Workers : req'[x].op = "create" /\ req'[x].event = req'[w].event => x = w
    <3>1. ASSUME NEW x \in Workers, req'[x].op = "create", req'[x].event # NoEvent
          PROVE  \/ req'[x] = req[x]
                 \/ /\ \A y \in Workers \ {x} : req'[y] = req[y]
                    /\ ~Posting(req'[x].event) /\ ~Known(req'[x].event)
      <4>1. CASE req'[x] = Idle
        BY <3>1, <4>1 DEF Idle
      <4>2. CASE /\ \A y \in Workers \ {x} : req'[y] = req[y]
                 /\ \E p \in People, e \in Events \cup {NoEvent} :
                      MayPost(e) /\ req'[x] = [op |-> "create", by |-> p, event |-> e]
        BY <3>1, <4>2 DEF MayPost
      <4>3. ASSUME \E t \in Tickets, op \in {"respond", "rate"} : req'[x] = [op |-> op, ticket |-> t]
            PROVE  FALSE
        BY <3>1, <4>3
      <4>4. ASSUME \E t \in Tickets, p \in Assignees :
                     req'[x] = [op |-> "assign", ticket |-> t, from |-> ticket[t].status,
                                to |-> AssignedStatus(ticket[t].status), assignee |-> p]
            PROVE  FALSE
        BY <3>1, <4>4
      <4>5. ASSUME \E t \in Tickets, to \in TicketStatus :
                     req'[x] = [op |-> "move", ticket |-> t, from |-> ticket[t].status, to |-> to]
            PROVE  FALSE
        BY <3>1, <4>5
      <4>6. ~ \E t \in Tickets, p \in Assignees :
                /\ Exists(t) /\ CanTransition(ticket[t].status, AssignedStatus(ticket[t].status))
                /\ req'[x] = [op |-> "assign", ticket |-> t, from |-> ticket[t].status,
                              to |-> AssignedStatus(ticket[t].status), assignee |-> p]
        BY <4>4
      <4>7. \/ req'[x] = req[x]
            \/ req'[x] = Idle
            \/ /\ \A y \in Workers \ {x} : req'[y] = req[y]
               /\ \E p \in People, e \in Events \cup {NoEvent} :
                    MayPost(e) /\ req'[x] = [op |-> "create", by |-> p, event |-> e]
        BY <4>3, <4>5, <4>6, RequestSteps
      <4> QED
        BY <4>1, <4>2, <4>7
    <3>2. ~Known(req'[w].event)
      BY <2>3, <3>1 DEF OnePost
    <3>3. ASSUME NEW x \in Workers, req'[x].op = "create", req'[x].event = req'[w].event
          PROVE  x = w
      BY <2>3, <3>1, <3>3 DEF OnePost, Posting
    <3> QED
      BY <3>2, <3>3
  <2>4. OnePost'
    BY <2>2, <2>3 DEF OnePost, Known, Exists
  <2> QED
    BY <2>1, <2>4
<1>2. ASSUME NEW w \in Workers, NEW t \in Tickets, WriteCreate(w, t), ~Exists(t),
             ticket'[t].event = req[w].event, \A u \in Tickets \ {t} : ticket'[u] = ticket[u]
      PROVE  OnePost' /\ OneTicketPerEvent'
  <2>1. /\ req[w].op = "create"
        /\ req[w].event # NoEvent =>
             /\ ~Known(req[w].event)
             /\ \A x \in Workers : req[x].op = "create" /\ req[x].event = req[w].event => x = w
    BY <1>2 DEF OnePost, WriteCreate
  <2>2. OneTicketPerEvent'
    BY <1>2, <2>1 DEF OneTicketPerEvent, Known, Exists
  <2>3. req'[w] = Idle /\ \A x \in Workers \ {w} : req'[x] = req[x]
    BY <1>2 DEF WriteCreate, Finish, IInv, TypeOK
  <2>4. ASSUME NEW x \in Workers, req'[x].op = "create", req'[x].event # NoEvent
        PROVE  /\ ~ \E u \in Tickets : ticket'[u].status # "ABSENT" /\ ticket'[u].event = req'[x].event
               /\ \A y \in Workers : req'[y].op = "create" /\ req'[y].event = req'[x].event => y = x
    <3>1. x # w /\ req'[x] = req[x]
      BY <2>3, <2>4 DEF Idle
    <3>2. ~Known(req[x].event) /\ req[x].event # req[w].event
      BY <2>1, <2>4, <3>1 DEF OnePost
    <3>3. \A y \in Workers : req'[y].op = "create" => y # w /\ req'[y] = req[y]
      BY <2>3 DEF Idle
    <3>4. \A y \in Workers : req'[y].op = "create" /\ req'[y].event = req'[x].event => y = x
      BY <2>4, <3>1, <3>3 DEF OnePost
    <3> QED
      <4>1. ASSUME NEW u \in Tickets, ticket'[u].status # "ABSENT", ticket'[u].event = req'[x].event
            PROVE  FALSE
        <5>1. CASE u = t
          BY <1>2, <3>1, <3>2, <4>1, <5>1
        <5>2. CASE u # t
          BY <1>2, <2>4, <3>1, <3>2, <4>1, <5>2 DEF Known, Exists
        <5> QED
          BY <5>1, <5>2
      <4> QED
        BY <3>4, <4>1
  <2>5. OnePost'
    BY <2>4 DEF OnePost, Known, Exists
  <2> QED
    BY <2>2, <2>5
<1> QED
  BY <1>1, <1>2, EventsKept

-----------------------------------------------------------------------------
(* The refinement *)

\* The clock of a row nobody contests.
ClockOf(r) ==
  IF r.status = "ABSENT" \/ (r.resolvedAt # "set" /\ r.due = "none") THEN "none"
  ELSE IF r.resolvedAt = "set" THEN "stopped"
  ELSE IF r.due = "ahead" THEN "running" ELSE "late"

\* A function that differs from another at one place.
LEMMA OneChange ==
  ASSUME NEW D, NEW f, NEW g, f = [x \in D |-> f[x]], g = [x \in D |-> g[x]], NEW t \in D,
         \A u \in D \ {t} : g[u] = f[u]
  PROVE  g = [f EXCEPT ![t] = g[t]] /\ (g[t] = f[t] => g = f)
<1>1. DOMAIN f = D /\ DOMAIN g = D
  OBVIOUS
<1> QED
  BY <1>1

LEMMA AbstractInit == Init => StatusAndClock!Init
BY DEF Init, StatusAndClock!Init, NoTicket

LEMMA AbstractStep ==
  ASSUME IInv, [Next]_vars
  PROVE  [StatusAndClock!Next]_(StatusAndClock!vars)
<1> DEFINE S == [t \in Tickets |-> IF t \in contested THEN "CONTESTED" ELSE ticket[t].status]
           C == [t \in Tickets |->
                   IF \/ t \in contested \/ ticket[t].status = "ABSENT"
                      \/ ticket[t].resolvedAt # "set" /\ ticket[t].due = "none" THEN "none"
                   ELSE IF ticket[t].resolvedAt = "set" THEN "stopped"
                   ELSE IF ticket[t].due = "ahead" THEN "running" ELSE "late"]
           SN == [t \in Tickets |-> IF t \in contested' THEN "CONTESTED" ELSE ticket'[t].status]
           CN == [t \in Tickets |->
                    IF \/ t \in contested' \/ ticket'[t].status = "ABSENT"
                       \/ ticket'[t].resolvedAt # "set" /\ ticket'[t].due = "none" THEN "none"
                    ELSE IF ticket'[t].resolvedAt = "set" THEN "stopped"
                    ELSE IF ticket'[t].due = "ahead" THEN "running" ELSE "late"]
<1>1. SUFFICES \/ SN = S /\ CN = C
               \/ \E t \in Tickets :
                    \/ /\ S[t] = "ABSENT" /\ SN = [S EXCEPT ![t] = "OPEN"]
                       /\ \E c \in {"none", "running"} : CN = [C EXCEPT ![t] = c]
                    \/ /\ \E s \in TicketStatus \ {"RESOLVED", "REOPENED"} :
                            CanTransition(S[t], s) /\ SN = [S EXCEPT ![t] = s]
                       /\ CN = C
                    \/ /\ CanTransition(S[t], "RESOLVED")
                       /\ SN = [S EXCEPT ![t] = "RESOLVED"] /\ CN = [C EXCEPT ![t] = "stopped"]
                    \/ /\ CanTransition(S[t], "REOPENED") /\ SN = [S EXCEPT ![t] = "REOPENED"]
                       /\ \E c \in {"none", "running"} : CN = [C EXCEPT ![t] = c]
                    \/ C[t] = "running" /\ CN = [C EXCEPT ![t] = "late"] /\ SN = S
                    \/ /\ S[t] \in TicketStatus
                       /\ SN = [S EXCEPT ![t] = "CONTESTED"] /\ CN = [C EXCEPT ![t] = "none"]
  BY DEF StatusAndClock!Next, StatusAndClock!vars, StatusAndClock!Raise, StatusAndClock!Work,
     StatusAndClock!Resolve, StatusAndClock!Reopen, StatusAndClock!RunOut, StatusAndClock!Contest,
     CanTransition, TicketStatus
<1>2. /\ S = [t \in Tickets |-> S[t]] /\ C = [t \in Tickets |-> C[t]]
      /\ SN = [t \in Tickets |-> SN[t]] /\ CN = [t \in Tickets |-> CN[t]]
  OBVIOUS
<1>3. \A t \in Tickets :
        /\ S[t] = IF t \in contested THEN "CONTESTED" ELSE ticket[t].status
        /\ SN[t] = IF t \in contested' THEN "CONTESTED" ELSE ticket'[t].status
        /\ C[t] = IF t \in contested THEN "none" ELSE ClockOf(ticket[t])
        /\ CN[t] = IF t \in contested' THEN "none" ELSE ClockOf(ticket'[t])
  BY DEF ClockOf
<1> HIDE DEF S, C, SN, CN
<1>4. ASSUME NEW t \in Tickets, \A u \in Tickets \ {t} : SN[u] = S[u] /\ CN[u] = C[u]
      PROVE  /\ SN = [S EXCEPT ![t] = SN[t]] /\ CN = [C EXCEPT ![t] = CN[t]]
             /\ SN[t] = S[t] => SN = S
             /\ CN[t] = C[t] => CN = C
  <2>1. SN = [S EXCEPT ![t] = SN[t]] /\ (SN[t] = S[t] => SN = S)
    <3>1. \A u \in Tickets \ {t} : SN[u] = S[u]
      BY <1>4
    <3> QED
      BY <1>2, <3>1, OneChange
  <2>2. CN = [C EXCEPT ![t] = CN[t]] /\ (CN[t] = C[t] => CN = C)
    <3>1. \A u \in Tickets \ {t} : CN[u] = C[u]
      BY <1>4
    <3> QED
      BY <1>2, <3>1, OneChange
  <2> QED
    BY <2>1, <2>2
<1>5. CASE ticket' = ticket /\ contested' = contested
  BY <1>5 DEF S, SN, C, CN
<1>6. ASSUME NEW t \in Tickets, RowStep(ticket[t], ticket'[t]), contested' = contested,
             \A u \in Tickets \ {t} : ticket'[u] = ticket[u]
      PROVE  \/ SN = S /\ CN = C
             \/ /\ S[t] = "ABSENT" /\ SN = [S EXCEPT ![t] = "OPEN"]
                /\ \E c \in {"none", "running"} : CN = [C EXCEPT ![t] = c]
             \/ C[t] = "running" /\ CN = [C EXCEPT ![t] = "late"] /\ SN = S
  <2>1. \A u \in Tickets \ {t} : SN[u] = S[u] /\ CN[u] = C[u]
    BY <1>3, <1>6
  <2>2. CASE t \in contested \/ SameClock(ticket'[t], ticket[t])
    <3>1. SN[t] = S[t] /\ CN[t] = C[t]
      BY <1>3, <1>6, <2>2 DEF SameClock, ClockOf
    <3> QED
      BY <1>4, <2>1, <3>1
  <2>3. CASE /\ t \notin contested /\ ticket[t].status = "ABSENT" /\ ticket'[t].status = "OPEN"
             /\ ticket'[t].resolvedAt = "null" /\ ticket'[t].due \in {"none", "ahead"}
    <3>1. S[t] = "ABSENT" /\ SN[t] = "OPEN" /\ CN[t] \in {"none", "running"}
      BY <1>3, <1>6, <2>3 DEF ClockOf
    <3> QED
      BY <1>4, <2>1, <3>1
  <2>4. CASE /\ t \notin contested /\ ticket'[t].status = ticket[t].status
             /\ ticket'[t].resolvedAt = ticket[t].resolvedAt
             /\ ticket[t].due = "ahead" /\ ticket'[t].due = "past"
    <3>1. SN[t] = S[t] /\ (CN[t] = C[t] \/ (C[t] = "running" /\ CN[t] = "late"))
      BY <1>3, <1>6, <2>4 DEF ClockOf
    <3> QED
      BY <1>4, <2>1, <3>1
  <2> QED
    BY <1>6, <2>2, <2>3, <2>4 DEF RowStep
<1>7. ASSUME NEW t \in Tickets, NEW from \in TicketStatus, NEW to \in TicketStatus,
             MoveStep(ticket[t], ticket'[t], to), CanTransition(from, to), Exists(t),
             \A u \in Tickets \ {t} : ticket'[u] = ticket[u],
             contested' = IF ticket[t].status = from THEN contested ELSE contested \cup {t}
      PROVE  \/ SN = S /\ CN = C
             \/ /\ CanTransition(S[t], to) /\ to \notin {"RESOLVED", "REOPENED"}
                /\ SN = [S EXCEPT ![t] = to] /\ CN = C
             \/ /\ CanTransition(S[t], "RESOLVED")
                /\ SN = [S EXCEPT ![t] = "RESOLVED"] /\ CN = [C EXCEPT ![t] = "stopped"]
             \/ /\ CanTransition(S[t], "REOPENED") /\ SN = [S EXCEPT ![t] = "REOPENED"]
                /\ \E c \in {"none", "running"} : CN = [C EXCEPT ![t] = c]
             \/ /\ S[t] \in TicketStatus
                /\ SN = [S EXCEPT ![t] = "CONTESTED"] /\ CN = [C EXCEPT ![t] = "none"]
  <2>1. \A u \in Tickets \ {t} : SN[u] = S[u] /\ CN[u] = C[u]
    BY <1>3, <1>7
  <2>2. /\ ticket[t].status \in TicketStatus /\ to # "ABSENT" /\ ticket[t].status # "ABSENT"
        /\ ticket[t].due \in Deadline
    BY <1>7, RowFields, Words DEF IInv
  <2>3. CASE t \in contested
    <3>1. SN[t] = S[t] /\ CN[t] = C[t]
      BY <1>3, <1>7, <2>3
    <3> QED
      BY <1>4, <2>1, <3>1
  <2>4. CASE t \notin contested /\ ticket[t].status # from
    <3>1. S[t] \in TicketStatus /\ SN[t] = "CONTESTED" /\ CN[t] = "none"
      BY <1>3, <1>7, <2>2, <2>4
    <3> QED
      BY <1>4, <2>1, <3>1
  <2>5. CASE t \notin contested /\ ticket[t].status = from
    <3>1. S[t] = from /\ SN[t] = to /\ C[t] = ClockOf(ticket[t]) /\ CN[t] = ClockOf(ticket'[t])
      BY <1>3, <1>7, <2>5 DEF MoveStep
    <3>2. CASE to \notin {"RESOLVED", "REOPENED"}
      <4>1. CN[t] = C[t]
        BY <1>7, <2>2, <3>1, <3>2 DEF MoveStep, ClockOf
      <4> QED
        BY <1>4, <1>7, <2>1, <3>1, <3>2, <4>1
    <3>3. CASE to = "RESOLVED"
      <4>1. CN[t] = "stopped"
        BY <1>7, <2>2, <3>1, <3>3 DEF MoveStep, ClockOf
      <4> QED
        BY <1>4, <1>7, <2>1, <3>1, <3>3, <4>1
    <3>4. CASE to = "REOPENED"
      <4>1. ticket'[t].resolvedAt = "null" /\ ticket'[t].due \in {"none", "ahead"}
        BY <1>7, <2>2, <3>4 DEF MoveStep, Restarted
      <4>2. CN[t] \in {"none", "running"}
        BY <1>7, <2>2, <3>1, <4>1 DEF MoveStep, ClockOf
      <4> QED
        BY <1>4, <1>7, <2>1, <3>1, <3>4, <4>2
    <3> QED
      BY <3>2, <3>3, <3>4
  <2> QED
    BY <2>3, <2>4, <2>5
<1> QED
  BY <1>5, <1>6, <1>7, LifecycleSteps

-----------------------------------------------------------------------------
(* The theorems *)

\* The tables, the requests and the sweep keep their types.
THEOREM TypeCorrect == Spec => []TypeOK
<1>1. IInv => TypeOK
  BY DEF IInv
<1> QED
  BY <1>1, Invariant, PTL

\* resolvedAt is set exactly on the resolved and closed tickets nobody contests.
THEOREM ResolvedAtIsRight == Spec => []ResolvedAtFollowsStatus
<1>1. Init => ResolvedAtFollowsStatus
  BY DEF Init, ResolvedAtFollowsStatus, Exists, NoTicket
<1>2. IInv /\ ResolvedAtFollowsStatus /\ [Next]_vars => ResolvedAtFollowsStatus'
  BY StatusStep
<1> QED
  BY <1>1, <1>2, Invariant, PTL DEF Spec

\* One event makes one ticket, while its posts wait for each other.
THEOREM EventsAreUnique == Spec => []OneTicketPerEvent
<1>1. Init => OnePost /\ OneTicketPerEvent
  BY DEF Init, OnePost, OneTicketPerEvent, Exists, NoTicket, Idle
<1>2. IInv /\ OnePost /\ OneTicketPerEvent /\ [Next]_vars => OnePost' /\ OneTicketPerEvent'
  BY PostStep
<1> QED
  BY <1>1, <1>2, Invariant, PTL DEF Spec

\* The handlers implement the lifecycle of a ticket that ADR-006 documents.
THEOREM ImplementsLifecycle == Spec => LifecycleSpec
<1>1. IInv /\ [Next]_vars => [StatusAndClock!Next]_(StatusAndClock!vars)
  BY AbstractStep
<1> QED
  BY <1>1, AbstractInit, Invariant, PTL DEF Spec, LifecycleSpec, StatusAndClock!Spec
=============================================================================
