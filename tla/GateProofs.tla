---------------------------- MODULE GateProofs ----------------------------
(***************************************************************************)
(* Theorems about VisitorGate for any sets of invitations, visits, form    *)
(* submissions and concurrent requests, and about GuardDevice, the queue   *)
(* that is replayed to it, for any number of entries and flushes.          *)
(***************************************************************************)
EXTENDS VisitorGate, GuardDevice, SequenceTheorems, TLAPS

\* The statuses the handlers and the sweep write are visitor statuses.
LEMMA StatusWords ==
  /\ "ABSENT" \notin LC!VisitorStatus
  /\ {"APPROVED", "REJECTED", "OVERRIDDEN", "CHECKED_IN", "CHECKED_OUT", "EXPIRED",
      "WAITING_APPROVAL"} \subseteq LC!VisitorStatus
BY DEF LC!VisitorStatus

\* The fields a request carries, by the handler that carries them.
LEMMA RequestFields ==
  ASSUME TypeOK, NEW w \in Workers
  PROVE  /\ req[w].op \in {"decide", "override", "checkIn", "closeOut"} =>
              req[w].inv \in Invitations
         /\ req[w].op = "decide" => req[w].to \in Decision
         /\ req[w].op \in {"decide", "override", "checkIn"} => req[w].row \in Invitation
         /\ req[w].op = "checkIn" => req[w].submit \in Submits \cup {NoSubmit}
         /\ req[w].op = "checkOut" => req[w].visit \in Visits
         /\ req[w].op = "idle" <=> req[w] = Idle
<1>1. req[w] \in Request \cup {Idle}
  BY DEF TypeOK
<1> QED
  BY <1>1 DEF Request, Idle

\* Writing a status keeps the rows well formed: the sweep, checkOut, checkIn.
LEMMA RowUpdate ==
  ASSUME inv \in [Invitations -> Invitation], NEW i \in Invitations,
         NEW s \in LC!VisitorStatus
  PROVE  [inv EXCEPT ![i].status = s] \in [Invitations -> Invitation]
BY DEF Invitation

\* So does writing an approval: decide and override.
LEMMA ApprovalUpdate ==
  ASSUME inv \in [Invitations -> Invitation], NEW i \in Invitations
  PROVE  /\ [inv EXCEPT ![i] = [@ EXCEPT !.status = "APPROVED",
                                        !.method = "RESIDENT_APPROVAL",
                                        !.deadline = "ahead"]] \in [Invitations -> Invitation]
         /\ [inv EXCEPT ![i] = [@ EXCEPT !.status = "OVERRIDDEN",
                                        !.method = "SECURITY_OVERRIDE"]] \in [Invitations -> Invitation]
<1>1. [inv[i] EXCEPT !.status = "APPROVED", !.method = "RESIDENT_APPROVAL",
                     !.deadline = "ahead"] \in Invitation
  BY StatusWords DEF Invitation, Method
<1>2. [inv[i] EXCEPT !.status = "OVERRIDDEN", !.method = "SECURITY_OVERRIDE"] \in Invitation
  BY StatusWords DEF Invitation, Method
<1> QED
  BY <1>1, <1>2

\* One step preserves the types.
LEMMA TypeStep ==
  ASSUME TypeOK, SoundRequests, [Next]_vars
  PROVE  TypeOK'
  <2> USE DEF TypeOK
  <2>1. ASSUME NEW i \in Invitations, CreateInvitation(i)
        PROVE  TypeOK'
    BY <2>1, StatusWords DEF CreateInvitation, Invitation, Method
  <2>2. ASSUME NEW i \in Invitations, SpotRequest(i)
        PROVE  TypeOK'
    BY <2>2, StatusWords DEF SpotRequest, NoInvitation, Invitation
  <2>3. ASSUME NEW i \in Invitations, DeadlinePasses(i)
        PROVE  TypeOK'
    BY <2>3 DEF DeadlinePasses, Invitation
  <2>5. CASE SetCommunityStatus
    BY <2>5 DEF SetCommunityStatus
  <2>6. CASE SweepBegin
    BY <2>6 DEF SweepBegin
  <2>7. CASE SweepWaiting
    BY <2>7, StatusWords DEF SweepWaiting, ExpireAll, Invitation
  <2>8. CASE SweepApproved
    BY <2>8, StatusWords DEF SweepApproved, ExpireAll, Invitation
  <2>9. CASE SweepFails
    BY <2>9 DEF SweepFails
  <2>10. ASSUME NEW w \in Workers, NEW i \in Invitations, NEW to \in Decision,
                BeginDecide(w, i, to)
         PROVE  TypeOK'
    BY <2>10 DEF BeginDecide, Request, Idle
  <2>11. ASSUME NEW w \in Workers, NEW i \in Invitations, BeginOverride(w, i)
         PROVE  TypeOK'
    BY <2>11 DEF BeginOverride, Request, Idle
  <2>12. ASSUME NEW w \in Workers, NEW i \in Invitations,
                NEW s \in Submits \cup {NoSubmit}, BeginCheckIn(w, i, s)
         PROVE  TypeOK'
    BY <2>12 DEF BeginCheckIn, Request, Idle
  <2>13. ASSUME NEW w \in Workers, NEW v \in Visits, BeginCheckOut(w, v)
         PROVE  TypeOK'
    BY <2>13 DEF BeginCheckOut, Request, Idle
  <2>14. ASSUME NEW w \in Workers, NEW v \in Visits, CommitCheckIn(w, v)
         PROVE  TypeOK'
    <3>1. /\ req[w].inv \in Invitations
          /\ req[w].row.method \in Method \cup {"none"}
          /\ req[w].submit \in Submits \cup {NoSubmit}
      BY <2>14, RequestFields DEF CommitCheckIn, Invitation
    <3>2. inv' \in [Invitations -> Invitation]
      BY <2>14, <3>1, StatusWords, RowUpdate DEF CommitCheckIn
    <3>3. visit' \in [Visits -> VisitRow \cup {NoVisit}]
      BY <2>14, <3>1 DEF CommitCheckIn, VisitRow
    <3> QED
      BY <2>14, <3>2, <3>3 DEF CommitCheckIn
  <2>15. ASSUME NEW w \in Workers, WriteDecision(w)
         PROVE  TypeOK'
    <3>1. req[w].inv \in Invitations
      BY <2>15, RequestFields DEF WriteDecision
    <3>2. inv' \in [Invitations -> Invitation]
      <4>1. CASE req[w].to = "APPROVED"
        <5>1. inv' = [inv EXCEPT ![req[w].inv] = [@ EXCEPT !.status = "APPROVED",
                                        !.method = "RESIDENT_APPROVAL",
                                        !.deadline = "ahead"]]
          BY <2>15, <4>1 DEF WriteDecision
        <5> QED
          BY <3>1, <5>1, ApprovalUpdate
      <4>2. CASE req[w].to # "APPROVED"
        <5>1. inv' = [inv EXCEPT ![req[w].inv].status = "REJECTED"]
          BY <2>15, <4>2 DEF WriteDecision
        <5> QED
          BY <3>1, <5>1, StatusWords, RowUpdate
      <4> QED
        BY <4>1, <4>2
    <3>3. granted' \in [Invitations -> SUBSET Method]
      BY <2>15, <3>1 DEF WriteDecision, Method
    <3> QED
      BY <2>15, <3>2, <3>3 DEF WriteDecision
  <2>16. ASSUME NEW w \in Workers, WriteOverride(w)
         PROVE  TypeOK'
    <3>1. req[w].inv \in Invitations
      BY <2>16, RequestFields DEF WriteOverride
    <3>2. inv' \in [Invitations -> Invitation]
      BY <2>16, <3>1, ApprovalUpdate DEF WriteOverride
    <3>3. granted' \in [Invitations -> SUBSET Method]
      BY <2>16, <3>1 DEF WriteOverride, Method
    <3> QED
      BY <2>16, <3>2, <3>3 DEF WriteOverride
  <2>17. ASSUME NEW w \in Workers, CheckOutVisit(w)
         PROVE  TypeOK'
    <3>1. req[w].visit \in Visits /\ Made(req[w].visit)
      BY <2>17, RequestFields DEF CheckOutVisit, SoundRequests
    <3>2. visit[req[w].visit] \in VisitRow
      BY <3>1 DEF Made, NoVisit
    <3>3. visit' \in [Visits -> VisitRow \cup {NoVisit}]
      BY <2>17, <3>1, <3>2 DEF CheckOutVisit, VisitRow
    <3>4. req' \in [Workers -> Request \cup {Idle}]
      BY <2>17, <3>2 DEF CheckOutVisit, Request, VisitRow
    <3> QED
      BY <2>17, <3>3, <3>4 DEF CheckOutVisit
  <2>18. ASSUME NEW w \in Workers, CloseInvitation(w)
         PROVE  TypeOK'
    <3>1. inv' \in [Invitations -> Invitation]
      BY <2>18, RequestFields, StatusWords, RowUpdate DEF CloseInvitation
    <3> QED
      BY <2>18, <3>1 DEF CloseInvitation
  <2>19. ASSUME NEW w \in Workers, Abort(w)
         PROVE  TypeOK'
    BY <2>19 DEF Abort
  <2>20. CASE UNCHANGED vars
    BY <2>20 DEF vars
  <2> QED
    BY <2>1, <2>2, <2>3, <2>5, <2>6, <2>7, <2>8, <2>9, <2>10, <2>11, <2>12,
       <2>13, <2>14, <2>15, <2>16, <2>17, <2>18, <2>19, <2>20
       DEF Next, Environment, Sweep, Handler

-----------------------------------------------------------------------------
(* What no step undoes *)

\* Grants accumulate, and a visit keeps its invitation, event and approval method.
LEMMA Monotone ==
  ASSUME TypeOK, [Next]_vars
  PROVE  /\ \A i \in Invitations : granted[i] \subseteq granted'[i]
         /\ \A v \in Visits : Made(v) =>
              /\ Made(v)'
              /\ visit'[v].inv = visit[v].inv
              /\ visit'[v].submit = visit[v].submit
              /\ visit'[v].method = visit[v].method
<1> USE DEF TypeOK, Made
<1>1. CASE UNCHANGED <<visit, granted>>
  BY <1>1
<1>2. ASSUME NEW i \in Invitations, CreateInvitation(i)
      PROVE  UNCHANGED visit /\ granted' = [granted EXCEPT ![i] = @ \cup {"PRE_APPROVED_TOKEN"}]
  BY <1>2 DEF CreateInvitation
<1>3. ASSUME NEW w \in Workers, WriteDecision(w)
      PROVE  /\ UNCHANGED visit
             /\ \/ UNCHANGED granted
                \/ granted' = [granted EXCEPT ![req[w].inv] = @ \cup {"RESIDENT_APPROVAL"}]
  BY <1>3 DEF WriteDecision
<1>4. ASSUME NEW w \in Workers, WriteOverride(w)
      PROVE  /\ UNCHANGED visit
             /\ granted' = [granted EXCEPT ![req[w].inv] = @ \cup {"SECURITY_OVERRIDE"}]
  BY <1>4 DEF WriteOverride
<1>5. ASSUME NEW w \in Workers, NEW u \in Visits, CommitCheckIn(w, u)
      PROVE  /\ UNCHANGED granted
             /\ \A v \in Visits : Made(v) => v # u /\ visit'[v] = visit[v]
  BY <1>5 DEF CommitCheckIn
<1>6. ASSUME NEW w \in Workers, CheckOutVisit(w)
      PROVE  /\ UNCHANGED granted
             /\ visit' = [visit EXCEPT ![req[w].visit].status = "CHECKED_OUT"]
             /\ req[w].visit \in Visits
  BY <1>6, RequestFields DEF CheckOutVisit
<1>7. ASSUME NEW w \in Workers, CheckOutVisit(w), NEW v \in Visits, Made(v)
      PROVE  /\ visit'[v].status # "ABSENT"
             /\ visit'[v].inv = visit[v].inv
             /\ visit'[v].submit = visit[v].submit
             /\ visit'[v].method = visit[v].method
  <2>1. visit[v] \in VisitRow
    BY <1>7 DEF NoVisit
  <2>2. [visit[v] EXCEPT !.status = "CHECKED_OUT"] \in VisitRow
    BY <2>1 DEF VisitRow
  <2>3. \/ visit'[v] = visit[v]
        \/ visit'[v] = [visit[v] EXCEPT !.status = "CHECKED_OUT"]
    BY <1>6, <1>7
  <2> QED
    BY <2>1, <2>2, <2>3, <1>7 DEF VisitRow
<1>8. ASSUME Next, ~UNCHANGED <<visit, granted>>
      PROVE  \/ \E i \in Invitations : CreateInvitation(i)
             \/ \E w \in Workers : WriteDecision(w) \/ WriteOverride(w) \/ CheckOutVisit(w)
             \/ \E w \in Workers, v \in Visits : CommitCheckIn(w, v)
  BY <1>8 DEF Next, Environment, Sweep, Handler, SpotRequest, DeadlinePasses,
              SetCommunityStatus, SweepBegin, SweepWaiting, SweepApproved, SweepFails,
              BeginDecide, BeginOverride, BeginCheckIn, BeginCheckOut, CloseInvitation, Abort
<1>9. UNCHANGED vars => UNCHANGED <<visit, granted>>
  BY DEF vars
<1>10. CASE Next /\ ~UNCHANGED <<visit, granted>>
  <2>1. CASE \E i \in Invitations : CreateInvitation(i)
    BY <2>1, <1>2
  <2>2. CASE \E w \in Workers : WriteDecision(w)
    BY <2>2, <1>3, RequestFields
  <2>3. CASE \E w \in Workers : WriteOverride(w)
    BY <2>3, <1>4, RequestFields
  <2>4. CASE \E w \in Workers : CheckOutVisit(w)
    BY <2>4, <1>6, <1>7
  <2>5. CASE \E w \in Workers, v \in Visits : CommitCheckIn(w, v)
    BY <2>5, <1>5
  <2> QED
    BY <1>8, <1>10, <2>1, <2>2, <2>3, <2>4, <2>5
<1> QED
  BY <1>1, <1>9, <1>10

\* What requests carry stays sound: a new request is checked on the row it reads,
\* and nothing it relies on is undone while it waits.
LEMMA RequestsStep ==
  ASSUME TypeOK, SoundRequests, ApprovalRecorded, [Next]_vars
  PROVE  SoundRequests'
<1> DEFINE Sound(r) ==
       /\ r.op = "decide" => LC!CanTransition(r.row.status, r.to)
       /\ r.op = "override" => LC!CanTransition(r.row.status, "OVERRIDDEN")
       /\ r.op = "checkIn" => /\ LC!CanTransition(r.row.status, "CHECKED_IN")
                              /\ r.row.method \in granted'[r.inv]
       /\ r.op = "checkOut" => visit'[r.visit].status # "ABSENT"
<1> SUFFICES ASSUME NEW w0 \in Workers
             PROVE  Sound(req'[w0])
  BY DEF SoundRequests, Made
<1>1. CASE req'[w0] = req[w0]
  <2>1. req[w0].op = "checkIn" => req[w0].row.method \in granted'[req[w0].inv]
    BY Monotone, RequestFields DEF SoundRequests
  <2>2. req[w0].op = "checkOut" => visit'[req[w0].visit].status # "ABSENT"
    BY Monotone, RequestFields DEF SoundRequests, Made
  <2>3. Sound(req[w0])
    BY <2>1, <2>2 DEF SoundRequests
  <2> QED
    BY <1>1, <2>3
<1>2. CASE req'[w0] # req[w0]
  <2>1. Next
    BY <1>2 DEF vars
  <2>2. ~Environment /\ ~Sweep
    BY <1>2 DEF Environment, Sweep, CreateInvitation, SpotRequest, DeadlinePasses,
                SetCommunityStatus, SweepBegin, SweepWaiting, SweepApproved, SweepFails
  <2>3. PICK w \in Workers : Handler(w)
    BY <2>1, <2>2 DEF Next
  <2>4. ASSUME NEW i \in Invitations, NEW to \in Decision, BeginDecide(w, i, to)
        PROVE  Sound(req'[w0])
    <3>1. req'[w0] = [op |-> "decide", inv |-> i, row |-> inv[i], to |-> to]
      BY <1>2, <2>4 DEF BeginDecide, TypeOK
    <3> QED
      BY <2>4, <3>1 DEF BeginDecide
  <2>5. ASSUME NEW i \in Invitations, BeginOverride(w, i)
        PROVE  Sound(req'[w0])
    <3>1. req'[w0] = [op |-> "override", inv |-> i, row |-> inv[i]]
      BY <1>2, <2>5 DEF BeginOverride, TypeOK
    <3> QED
      BY <2>5, <3>1 DEF BeginOverride, Overridable
  <2>6. ASSUME NEW i \in Invitations, NEW s \in Submits \cup {NoSubmit}, BeginCheckIn(w, i, s)
        PROVE  Sound(req'[w0])
    <3>1. req'[w0] = [op |-> "checkIn", inv |-> i, row |-> inv[i], submit |-> s]
      BY <1>2, <2>6 DEF BeginCheckIn, TypeOK
    <3>2. inv[i].method \in granted'[i]
      BY <2>6 DEF BeginCheckIn, ApprovalRecorded
    <3> QED
      BY <2>6, <3>1, <3>2 DEF BeginCheckIn
  <2>7. ASSUME NEW v \in Visits, BeginCheckOut(w, v)
        PROVE  Sound(req'[w0])
    <3>1. req'[w0] = [op |-> "checkOut", visit |-> v]
      BY <1>2, <2>7 DEF BeginCheckOut, TypeOK
    <3> QED
      BY <2>7, <3>1 DEF BeginCheckOut, Made
  <2>8. ASSUME NEW v \in Visits, CommitCheckIn(w, v)
        PROVE  req' = [req EXCEPT ![w] = Idle]
    BY <2>8 DEF CommitCheckIn
  <2>9. ASSUME WriteDecision(w) \/ WriteOverride(w) \/ CloseInvitation(w) \/ Abort(w)
        PROVE  req' = [req EXCEPT ![w] = Idle]
    BY <2>9 DEF WriteDecision, WriteOverride, CloseInvitation, Abort
  <2>10. CASE req' = [req EXCEPT ![w] = Idle]
    <3>1. req'[w0] = Idle
      BY <1>2, <2>10 DEF TypeOK
    <3> QED
      BY <3>1 DEF Idle
  <2>11. CASE CheckOutVisit(w)
    <3>1. req'[w0] = [op |-> "closeOut", inv |-> visit[req[w].visit].inv]
      BY <1>2, <2>11 DEF CheckOutVisit, TypeOK
    <3> QED
      BY <3>1
  <2> QED
    BY <2>3, <2>4, <2>5, <2>6, <2>7, <2>8, <2>9, <2>10, <2>11 DEF Handler
<1> QED
  BY <1>1, <1>2

-----------------------------------------------------------------------------
(* How a step can change a row *)

\* A visit appears only by the commit of a check-in, one at a time.
LEMMA NewVisit ==
  ASSUME TypeOK, SoundRequests, [Next]_vars, NEW v \in Visits, ~Made(v), Made(v)'
  PROVE  \E w \in Workers : CommitCheckIn(w, v)
<1> USE DEF Made
<1>1. Next /\ visit' # visit
  BY DEF vars
<1>2. ASSUME NEW w \in Workers, CheckOutVisit(w)
      PROVE  FALSE
  <2>1. /\ req[w].visit \in Visits
        /\ visit[req[w].visit].status # "ABSENT"
        /\ visit' = [visit EXCEPT ![req[w].visit].status = "CHECKED_OUT"]
    BY <1>2, RequestFields DEF CheckOutVisit, SoundRequests
  <2> QED
    BY <2>1 DEF TypeOK
<1>3. PICK w \in Workers : CheckOutVisit(w) \/ \E u \in Visits : CommitCheckIn(w, u)
  BY <1>1 DEF Next, Environment, Sweep, Handler, CreateInvitation, SpotRequest,
              DeadlinePasses, SetCommunityStatus, SweepBegin, SweepWaiting, SweepApproved,
              SweepFails, BeginDecide, BeginOverride, BeginCheckIn, BeginCheckOut,
              WriteDecision, WriteOverride, CloseInvitation, Abort
<1>4. ASSUME NEW u \in Visits, CommitCheckIn(w, u)
      PROVE  u = v
  BY <1>4 DEF CommitCheckIn, TypeOK
<1> QED
  BY <1>2, <1>3, <1>4

\* How the status and method of a row change in one step: the sweeps and the clock,
\* the creation of a row, and one clause per writing handler.
RowStep(i) ==
  \/ inv'[i].status = inv[i].status /\ inv'[i].method = inv[i].method
  \/ /\ inv[i].status = "ABSENT"
     /\ \/ inv'[i].status = "WAITING_APPROVAL"
        \/ inv'[i].status = "APPROVED" /\ inv'[i].method \in granted'[i]
  \/ /\ inv[i].status \in {"WAITING_APPROVAL", "APPROVED"}
     /\ inv'[i].status = "EXPIRED"
  \/ inv[i].status = "CHECKED_IN" /\ inv'[i].status = "CHECKED_OUT"
  \/ \E w \in Workers :
     /\ req'[w] = Idle
     /\ \/ /\ req[w].op = "decide" /\ req[w].inv = i
           /\ inv'[i].status = req[w].to
           /\ inv'[i].status = "APPROVED" => inv'[i].method \in granted'[i]
        \/ /\ req[w].op = "override" /\ req[w].inv = i
           /\ inv'[i].status = "OVERRIDDEN" /\ inv'[i].method \in granted'[i]
        \/ /\ req[w].op = "checkIn" /\ req[w].inv = i
           /\ inv'[i].status = "CHECKED_IN"
           /\ \E v \in Visits : CommitCheckIn(w, v)

\* Every step changes a row in one of the ways RowStep lists.
LEMMA RowSteps ==
  ASSUME TypeOK, [Next]_vars, NEW i \in Invitations
  PROVE  RowStep(i)
<1> USE DEF TypeOK, RowStep
<1>1. ASSUME NEW j \in Invitations, CreateInvitation(j) \/ SpotRequest(j)
      PROVE  RowStep(i)
  BY <1>1 DEF CreateInvitation, SpotRequest, NoInvitation, Present
<1>2. ASSUME NEW j \in Invitations, DeadlinePasses(j)
      PROVE  RowStep(i)
  BY <1>2 DEF DeadlinePasses, Invitation
<1>3. CASE SweepWaiting
  BY <1>3 DEF SweepWaiting, ExpireAll, StaleWaiting, Invitation
<1>4. CASE SweepApproved
  BY <1>4 DEF SweepApproved, ExpireAll, StaleApproved, Invitation
<1>5. ASSUME NEW w \in Workers, WriteDecision(w)
      PROVE  RowStep(i)
  <2>1. req[w].inv \in Invitations /\ req[w].to \in Decision
    BY <1>5, RequestFields DEF WriteDecision
  <2>2. CASE req[w].inv # i
    BY <1>5, <2>1, <2>2 DEF WriteDecision
  <2>3. CASE req[w].inv = i /\ req[w].to = "APPROVED"
    <3>1. inv'[i] = [inv[i] EXCEPT !.status = "APPROVED", !.method = "RESIDENT_APPROVAL",
                                   !.deadline = "ahead"]
      BY <1>5, <2>1, <2>3 DEF WriteDecision
    <3>2. inv'[i].status = "APPROVED" /\ inv'[i].method = "RESIDENT_APPROVAL"
      BY <3>1 DEF Invitation
    <3>3. "RESIDENT_APPROVAL" \in granted'[i]
      BY <1>5, <2>1, <2>3 DEF WriteDecision
    <3> QED
      BY <1>5, <2>3, <3>2, <3>3 DEF WriteDecision
  <2>4. CASE req[w].inv = i /\ req[w].to = "REJECTED"
    <3>1. inv'[i] = [inv[i] EXCEPT !.status = "REJECTED"]
      BY <1>5, <2>1, <2>4 DEF WriteDecision
    <3>2. inv'[i].status = "REJECTED"
      BY <3>1 DEF Invitation
    <3> QED
      BY <1>5, <2>4, <3>2 DEF WriteDecision
  <2> QED
    BY <2>1, <2>2, <2>3, <2>4 DEF Decision
<1>6. ASSUME NEW w \in Workers, WriteOverride(w)
      PROVE  RowStep(i)
  <2>1. req[w].inv \in Invitations
    BY <1>6, RequestFields DEF WriteOverride
  <2>2. CASE req[w].inv # i
    BY <1>6, <2>1, <2>2 DEF WriteOverride
  <2>3. CASE req[w].inv = i
    <3>1. inv'[i] = [inv[i] EXCEPT !.status = "OVERRIDDEN", !.method = "SECURITY_OVERRIDE"]
      BY <1>6, <2>1, <2>3 DEF WriteOverride
    <3>2. inv'[i].status = "OVERRIDDEN" /\ inv'[i].method = "SECURITY_OVERRIDE"
      BY <3>1 DEF Invitation
    <3>3. "SECURITY_OVERRIDE" \in granted'[i]
      BY <1>6, <2>1, <2>3 DEF WriteOverride
    <3> QED
      BY <1>6, <2>3, <3>2, <3>3 DEF WriteOverride
  <2> QED
    BY <2>2, <2>3
<1>7. ASSUME NEW w \in Workers, NEW v \in Visits, CommitCheckIn(w, v)
      PROVE  RowStep(i)
  <2>1. req[w].inv \in Invitations /\ req[w].op = "checkIn"
    BY <1>7, RequestFields DEF CommitCheckIn
  <2>2. inv' = [inv EXCEPT ![req[w].inv].status = "CHECKED_IN"]
    BY <1>7 DEF CommitCheckIn
  <2>3. req'[w] = Idle
    BY <1>7 DEF CommitCheckIn
  <2>4. CASE req[w].inv # i
    BY <2>1, <2>2, <2>4
  <2>5. CASE req[w].inv = i
    <3>1. inv'[i].status = "CHECKED_IN"
      BY <2>1, <2>2, <2>5 DEF Invitation
    <3> QED
      BY <1>7, <2>1, <2>3, <2>5, <3>1
  <2> QED
    BY <2>4, <2>5
<1>8. ASSUME NEW w \in Workers, CloseInvitation(w)
      PROVE  RowStep(i)
  <2>1. req[w].inv \in Invitations
    BY <1>8, RequestFields DEF CloseInvitation
  <2> QED
    BY <1>8, <2>1 DEF CloseInvitation, Invitation
<1>9. CASE UNCHANGED inv
  BY <1>9
<1>10. UNCHANGED vars => UNCHANGED inv
  BY DEF vars
<1> QED
  BY <1>1, <1>2, <1>3, <1>4, <1>5, <1>6, <1>7, <1>8, <1>9, <1>10
     DEF Next, Environment, Sweep, Handler, SetCommunityStatus, SweepBegin, SweepFails,
         BeginDecide, BeginOverride, BeginCheckIn, BeginCheckOut, CheckOutVisit, Abort

-----------------------------------------------------------------------------
(* The inductive invariant *)

\* Only decide and override approve a row, each by the method it grants.
LEMMA ApprovalStep ==
  ASSUME TypeOK, ApprovalRecorded, [Next]_vars
  PROVE  ApprovalRecorded'
<1> SUFFICES ASSUME NEW i \in Invitations,
                    inv'[i].status \in {"APPROVED", "OVERRIDDEN"}
             PROVE  inv'[i].method \in granted'[i]
  BY DEF ApprovalRecorded
<1>1. RowStep(i)
  BY RowSteps
<1>2. granted[i] \subseteq granted'[i]
  BY Monotone
<1> QED
  BY <1>1, <1>2, RequestFields DEF RowStep, ApprovalRecorded, Decision

\* checkIn copies to the visit the method of the row it read.
LEMMA EntryStep ==
  ASSUME TypeOK, SoundRequests, EntryIsApproved, [Next]_vars
  PROVE  EntryIsApproved'
<1> SUFFICES ASSUME NEW v \in Visits, Made(v)'
             PROVE  visit'[v].method \in granted'[visit'[v].inv]
  BY DEF EntryIsApproved
<1>1. CASE Made(v)
  <2>1. visit[v].inv \in Invitations /\ visit[v].method \in granted[visit[v].inv]
    BY <1>1 DEF EntryIsApproved, TypeOK, Made, NoVisit, VisitRow
  <2> QED
    BY <1>1, <2>1, Monotone
<1>2. CASE ~Made(v)
  <2>1. PICK w \in Workers : CommitCheckIn(w, v)
    BY <1>2, NewVisit
  <2>2. /\ visit'[v].method = req[w].row.method
        /\ visit'[v].inv = req[w].inv
        /\ req[w].op = "checkIn"
        /\ granted' = granted
    BY <2>1 DEF CommitCheckIn, TypeOK
  <2> QED
    BY <2>2 DEF SoundRequests
<1> QED
  BY <1>1, <1>2

\* checkIn creates no second visit of one clientEventId.
LEMMA EventStep ==
  ASSUME TypeOK, SoundRequests, OneVisitPerEvent, [Next]_vars
  PROVE  OneVisitPerEvent'
<1> SUFFICES ASSUME NEW v1 \in Visits, NEW v2 \in Visits,
                    Made(v1)', Made(v2)', v1 # v2,
                    visit'[v1].inv = visit'[v2].inv,
                    visit'[v1].submit = visit'[v2].submit,
                    visit'[v1].submit # NoSubmit
             PROVE  FALSE
  BY DEF OneVisitPerEvent
\* A commit finds no other visit with its event.
<1>1. ASSUME NEW u1 \in Visits, NEW u2 \in Visits, u1 # u2, ~Made(u1), Made(u1)',
             Made(u2)', visit'[u1].inv = visit'[u2].inv,
             visit'[u1].submit = visit'[u2].submit, visit'[u1].submit # NoSubmit
      PROVE  FALSE
  <2>1. PICK w \in Workers : CommitCheckIn(w, u1)
    BY <1>1, NewVisit
  <2>2. /\ visit'[u1].inv = req[w].inv
        /\ visit'[u1].submit = req[w].submit
        /\ visit'[u2] = visit[u2]
        /\ ~EventTaken(req[w].inv, req[w].submit)
    BY <1>1, <2>1 DEF CommitCheckIn, TypeOK
  <2> QED
    BY <1>1, <2>2 DEF EventTaken, VisitsOf, Made
<1>2. CASE Made(v1) /\ Made(v2)
  BY <1>2, Monotone DEF OneVisitPerEvent
<1> QED
  BY <1>1, <1>2

\* checkIn puts a visitor inside; checkOut closes the invitation of one who left.
LEMMA InsideStep ==
  ASSUME TypeOK, SoundRequests, CheckedInIsInside, [Next]_vars
  PROVE  CheckedInIsInside'
<1> SUFFICES ASSUME ~CanCrash, NEW i \in Invitations, inv'[i].status = "CHECKED_IN"
             PROVE  (Inside(i) \/ Closing(i))'
  BY DEF CheckedInIsInside
<1> USE DEF Inside, Closing, VisitsOf, Made
<1>1. CASE \E w \in Workers, v \in Visits : CommitCheckIn(w, v) /\ req[w].inv = i
  BY <1>1 DEF CommitCheckIn, TypeOK
<1>2. CASE inv[i].status = "CHECKED_IN"
  <2>1. CASE Inside(i)
    <3>1. PICK v \in Visits : Made(v) /\ visit[v].inv = i /\ visit[v].status = "CHECKED_IN"
      BY <2>1
    <3>2. Made(v)' /\ visit'[v].inv = i
      BY <3>1, Monotone
    <3>3. CASE visit'[v].status = "CHECKED_IN"
      BY <3>2, <3>3
    <3>4. CASE visit'[v].status # "CHECKED_IN"
      <4>1. Next /\ visit' # visit
        BY <3>1, <3>4 DEF vars
      <4>2. PICK w \in Workers : CheckOutVisit(w) \/ \E u \in Visits : CommitCheckIn(w, u)
        BY <4>1 DEF Next, Environment, Sweep, Handler, CreateInvitation, SpotRequest,
              DeadlinePasses, SetCommunityStatus, SweepBegin, SweepWaiting, SweepApproved,
              SweepFails, BeginDecide, BeginOverride, BeginCheckIn, BeginCheckOut,
              WriteDecision, WriteOverride, CloseInvitation, Abort
      <4>3. ASSUME NEW u \in Visits, CommitCheckIn(w, u)
            PROVE  visit'[v] = visit[v]
        BY <3>1, <4>3 DEF CommitCheckIn, TypeOK
      <4>4. CheckOutVisit(w) /\ req[w].visit = v
        BY <3>1, <3>4, <4>2, <4>3 DEF CheckOutVisit, TypeOK
      <4>5. req'[w] = [op |-> "closeOut", inv |-> i]
        BY <3>1, <4>4 DEF CheckOutVisit, TypeOK
      <4> QED
        BY <4>5
    <3> QED
      BY <3>3, <3>4
  <2>2. CASE Closing(i)
    <3>1. PICK w \in Workers : req[w].op = "closeOut" /\ req[w].inv = i
      BY <2>2
    <3>2. CASE req'[w] = req[w]
      BY <3>1, <3>2
    <3>3. CASE req'[w] # req[w]
      <4>1. Next
        BY <3>3 DEF vars
      <4>2. ~Environment /\ ~Sweep
        BY <3>3 DEF Environment, Sweep, CreateInvitation, SpotRequest, DeadlinePasses,
                SetCommunityStatus, SweepBegin, SweepWaiting, SweepApproved, SweepFails
      <4>3. PICK u \in Workers : Handler(u)
        BY <4>1, <4>2 DEF Next
      <4>4. u = w
        BY <3>3, <4>3 DEF Handler, BeginDecide, BeginOverride, BeginCheckIn, BeginCheckOut,
              WriteDecision, WriteOverride, CloseInvitation, Abort, CommitCheckIn,
              CheckOutVisit, TypeOK
      <4>5. CloseInvitation(w)
        BY <3>1, <4>3, <4>4 DEF Handler, BeginDecide, BeginOverride, BeginCheckIn, BeginCheckOut,
              WriteDecision, WriteOverride, Abort, CommitCheckIn, CheckOutVisit, Idle
      <4>6. inv' = [inv EXCEPT ![i].status = "CHECKED_OUT"]
        BY <1>2, <3>1, <4>5 DEF CloseInvitation
      <4>7. inv'[i].status = "CHECKED_OUT"
        BY <4>6 DEF TypeOK, Invitation
      <4> QED
        BY <4>7
    <3> QED
      BY <3>2, <3>3
  <2> QED
    BY <1>2, <2>1, <2>2 DEF CheckedInIsInside
<1>3. CASE inv[i].status # "CHECKED_IN"
  <2>1. RowStep(i)
    BY RowSteps
  <2>2. \E w \in Workers : req[w].inv = i /\ \E v \in Visits : CommitCheckIn(w, v)
    BY <1>3, <2>1, RequestFields DEF RowStep, Decision
  <2> QED
    BY <2>2, <1>1
<1> QED
  BY <1>2, <1>3

\* Nothing is invited and nobody is inside at the start.
LEMMA InitIInv == Init => IInv
<1> SUFFICES ASSUME Init
             PROVE  IInv
  OBVIOUS
<1>1. TypeOK
  BY DEF Init, TypeOK, Invitation, NoInvitation, Idle, NoVisit
<1>2. SoundRequests /\ ApprovalRecorded
  BY DEF Init, SoundRequests, ApprovalRecorded, Idle, NoInvitation
<1>3. EntryIsApproved /\ OneVisitPerEvent /\ CheckedInIsInside
  BY DEF Init, EntryIsApproved, OneVisitPerEvent, CheckedInIsInside, Made, NoVisit, NoInvitation
<1> QED
  BY <1>1, <1>2, <1>3 DEF IInv

\* IInv is inductive, one lemma per conjunct.
LEMMA NextIInv == IInv /\ [Next]_vars => IInv'
BY TypeStep, RequestsStep, ApprovalStep, EntryStep, EventStep, InsideStep DEF IInv

\* It holds throughout.
LEMMA Inductive == Spec => []IInv
BY InitIInv, NextIInv, PTL DEF Spec

-----------------------------------------------------------------------------
(* Theorems *)

\* Every variable keeps its type.
THEOREM TypeCorrect == Spec => []TypeOK
<1>1. IInv => TypeOK
  BY DEF IInv
<1> QED
  BY <1>1, Inductive, PTL

\* checkIn: no visit is logged without an approval that was really given.
THEOREM EntriesAreApproved == Spec => []EntryIsApproved
<1>1. IInv => EntryIsApproved
  BY DEF IInv
<1> QED
  BY <1>1, Inductive, PTL

\* checkIn: the unique clientEventId makes a replayed offline entry one visit.
THEOREM ReplaysAreOneVisit == Spec => []OneVisitPerEvent
<1>1. IInv => OneVisitPerEvent
  BY DEF IInv
<1> QED
  BY <1>1, Inductive, PTL

\* checkOut: if no process dies between its two statements, CHECKED_IN is never
\* left behind by a visitor who has gone.
THEOREM CheckedInMeansInside == Spec => []CheckedInIsInside
<1>1. IInv => CheckedInIsInside
  BY DEF IInv
<1> QED
  BY <1>1, Inductive, PTL

\* The rows of VISITOR_TRANSITIONS that the sweep and checkOut rely on.
LEMMA TableFacts ==
  /\ LC!CanTransition("WAITING_APPROVAL", "EXPIRED")
  /\ LC!CanTransition("APPROVED", "EXPIRED")
  /\ LC!CanTransition("CHECKED_IN", "CHECKED_OUT")
  /\ \A s : ~LC!CanTransition("ABSENT", s)
BY DEF LC!CanTransition, LC!VISITOR_TRANSITIONS, LC!VisitorStatus

\* A handler asserts its transition against the status it read.
LEMMA TableStep ==
  ASSUME IInv, [Next]_vars, NEW i \in Invitations
  PROVE  TableOrStaleWrite(i)
<1>1. RowStep(i)
  BY RowSteps DEF IInv
<1>2. \A w \in Workers :
        /\ req[w].op = "decide" => LC!CanTransition(req[w].row.status, req[w].to)
        /\ req[w].op = "override" => LC!CanTransition(req[w].row.status, "OVERRIDDEN")
        /\ req[w].op = "checkIn" => LC!CanTransition(req[w].row.status, "CHECKED_IN")
  BY DEF IInv, SoundRequests
<1> QED
  BY <1>1, <1>2, TableFacts DEF RowStep, TableOrStaleWrite, StaleWrite, HoldsStaleRead

\* decide, override, checkIn, checkOut and the sweep: a change outside the table
\* of ADR-006 is always the write of a handler that finishes in that very step and
\* had read a status from which the table allows it.
THEOREM StaleWritesOnly == Spec => OnlyStaleWritesBreakTheTable
<1>1. IInv /\ [Next]_vars => [\A i \in Invitations : TableOrStaleWrite(i)]_vars
  BY TableStep
<1> QED
  BY <1>1, Inductive, PTL DEF Spec, OnlyStaleWritesBreakTheTable

-----------------------------------------------------------------------------
(* Handlers that run one at a time implement VisitorLifecycle *)

SerialInv == IInv /\ Serial /\ FreshReads

\* A handler that has the system to itself still holds a current read after a step.
LEMMA FreshStep ==
  ASSUME SerialInv, [Next]_vars, Serial'
  PROVE  FreshReads'
<1> USE DEF SerialInv, IInv
<1> SUFFICES ASSUME NEW w \in Workers, req'[w].op \in {"decide", "override", "checkIn"}
             PROVE  req'[w].row.status = inv'[req'[w].inv].status
  BY DEF FreshReads
<1>1. CASE req'[w] # req[w]
  <2>1. Next
    BY <1>1 DEF vars
  <2>2. PICK u \in Workers : Handler(u)
    BY <1>1, <2>1 DEF Next, Environment, Sweep, CreateInvitation, SpotRequest, DeadlinePasses,
                SetCommunityStatus, SweepBegin, SweepWaiting, SweepApproved, SweepFails
  <2>3. \/ \E i \in Invitations, to \in Decision : BeginDecide(u, i, to)
        \/ \E i \in Invitations : BeginOverride(u, i)
        \/ \E i \in Invitations, s \in Submits \cup {NoSubmit} : BeginCheckIn(u, i, s)
    BY <1>1, <2>2 DEF Handler, BeginCheckOut, WriteDecision, WriteOverride, CloseInvitation,
                      Abort, CommitCheckIn, CheckOutVisit, Idle, TypeOK
  <2> QED
    BY <1>1, <2>3 DEF BeginDecide, BeginOverride, BeginCheckIn, TypeOK
<1>2. CASE req'[w] = req[w]
  <2> DEFINE i == req[w].inv
  <2>1. i \in Invitations /\ req[w] # Idle /\ req[w].row.status = inv[i].status
    BY <1>2, RequestFields DEF FreshReads, Idle
  <2>2. inv[i].status # "ABSENT"
    BY <1>2, <2>1, TableFacts DEF SoundRequests
  <2>3. sweeper = "asleep"
    BY <2>1 DEF Serial
  <2>4. ASSUME NEW u \in Workers, Handler(u)
        PROVE  UNCHANGED inv
    <3>1. CASE u = w
      BY <1>2, <2>1, <2>4, <3>1 DEF Handler, BeginDecide, BeginOverride, BeginCheckIn,
           BeginCheckOut, WriteDecision, WriteOverride, CloseInvitation, Abort,
           CommitCheckIn, CheckOutVisit, TypeOK
    <3>2. CASE u # w
      <4>1. req[u] = Idle
        BY <2>1, <3>2 DEF Serial
      <4> QED
        BY <2>4, <4>1 DEF Handler, BeginDecide, BeginOverride, BeginCheckIn,
           BeginCheckOut, WriteDecision, WriteOverride, CloseInvitation, Abort,
           CommitCheckIn, CheckOutVisit, Idle
    <3> QED
      BY <3>1, <3>2
  <2>5. inv'[i].status = inv[i].status
    <3>1. ASSUME NEW j \in Invitations, CreateInvitation(j) \/ SpotRequest(j)
          PROVE  inv'[i].status = inv[i].status
      BY <2>1, <2>2, <3>1 DEF CreateInvitation, SpotRequest, Present, TypeOK
    <3>2. ASSUME NEW j \in Invitations, DeadlinePasses(j)
          PROVE  inv'[i].status = inv[i].status
      BY <2>1, <3>2 DEF DeadlinePasses, TypeOK, Invitation
    <3> QED
      BY <2>3, <2>4, <3>1, <3>2 DEF Next, Environment, Sweep, SetCommunityStatus, SweepBegin,
         SweepWaiting, SweepApproved, SweepFails, vars
  <2> QED
    BY <1>2, <2>1, <2>5
<1> QED
  BY <1>1, <1>2

\* A step that writes one row is a step of the abstract invitation.
LEMMA AbstractStep ==
  ASSUME SerialInv, [Next]_vars
  PROVE  [LC!Next]_([i \in Invitations |-> inv[i].status])
<1> USE DEF SerialInv, IInv
<1> DEFINE status == [i \in Invitations |-> inv[i].status]
           statusN == [i \in Invitations |-> inv'[i].status]
<1>1. SUFFICES \/ \E S \in SUBSET Invitations :
                   /\ \A i \in S : LC!CanTransition(status[i], "EXPIRED")
                   /\ statusN = [i \in Invitations |-> IF i \in S THEN "EXPIRED" ELSE status[i]]
              \/ \E i \in Invitations :
                   \/ /\ status[i] = "ABSENT"
                      /\ \E s \in {"APPROVED", "WAITING_APPROVAL"} : statusN = [status EXCEPT ![i] = s]
                   \/ \E s \in LC!VisitorStatus :
                        /\ LC!CanTransition(status[i], s)
                        /\ statusN = [status EXCEPT ![i] = s]
              \/ statusN = status
  BY DEF LC!Next, LC!Expire, LC!Open, LC!Advance
<1>2. CASE SweepWaiting \/ SweepApproved
  <2>1. PICK S \in SUBSET Invitations :
          /\ \A i \in S : inv[i].status \in {"WAITING_APPROVAL", "APPROVED"}
          /\ \A i \in S : inv'[i].status = "EXPIRED"
          /\ \A i \in Invitations \ S : inv'[i] = inv[i]
    <3>1. CASE SweepWaiting
      <4> DEFINE S == {i \in Invitations : StaleWaiting(i)}
      <4>1. \A i \in S : inv'[i].status = "EXPIRED"
        BY <3>1 DEF SweepWaiting, ExpireAll, TypeOK, Invitation
      <4>2. \A i \in Invitations \ S : inv'[i] = inv[i]
        BY <3>1 DEF SweepWaiting, ExpireAll, TypeOK
      <4>3. \A i \in S : inv[i].status = "WAITING_APPROVAL"
        BY DEF StaleWaiting
      <4> QED
        BY <4>1, <4>2, <4>3
    <3>2. CASE SweepApproved
      <4> DEFINE S == {i \in Invitations : StaleApproved(i)}
      <4>1. \A i \in S : inv'[i].status = "EXPIRED"
        BY <3>2 DEF SweepApproved, ExpireAll, TypeOK, Invitation
      <4>2. \A i \in Invitations \ S : inv'[i] = inv[i]
        BY <3>2 DEF SweepApproved, ExpireAll, TypeOK
      <4>3. \A i \in S : inv[i].status = "APPROVED"
        BY DEF StaleApproved
      <4> QED
        BY <4>1, <4>2, <4>3
    <3> QED
      BY <1>2, <3>1, <3>2
  <2>2. \A i \in S : LC!CanTransition(status[i], "EXPIRED")
    BY <2>1, TableFacts
  <2>3. statusN = [i \in Invitations |-> IF i \in S THEN "EXPIRED" ELSE status[i]]
    BY <2>1
  <2> QED
    BY <2>2, <2>3
<1>3. ASSUME NEW i \in Invitations, CreateInvitation(i) \/ SpotRequest(i)
      PROVE  /\ status[i] = "ABSENT"
             /\ \E s \in {"APPROVED", "WAITING_APPROVAL"} : statusN = [status EXCEPT ![i] = s]
  <2>1. /\ inv[i].status = "ABSENT"
        /\ inv'[i].status \in {"APPROVED", "WAITING_APPROVAL"}
        /\ \A j \in Invitations \ {i} : inv'[j] = inv[j]
    BY <1>3 DEF CreateInvitation, SpotRequest, Present, NoInvitation, TypeOK
  <2>2. statusN = [status EXCEPT ![i] = inv'[i].status]
    BY <2>1
  <2> QED
    BY <2>1, <2>2
<1>4. ASSUME NEW i \in Invitations, DeadlinePasses(i)
      PROVE  statusN = status
  BY <1>4 DEF DeadlinePasses, TypeOK, Invitation
<1>5. ASSUME NEW i \in Invitations, NEW s \in LC!VisitorStatus,
             inv'[i].status = s, \A j \in Invitations \ {i} : inv'[j] = inv[j]
      PROVE  statusN = [status EXCEPT ![i] = s]
  BY <1>5
<1>6. ASSUME NEW w \in Workers,
             \/ WriteDecision(w) \/ WriteOverride(w) \/ CloseInvitation(w)
             \/ \E v \in Visits : CommitCheckIn(w, v)
      PROVE  /\ req[w].inv \in Invitations
             /\ \A j \in Invitations \ {req[w].inv} : inv'[j] = inv[j]
  <2>1. req[w].inv \in Invitations
    BY <1>6, RequestFields DEF WriteDecision, WriteOverride, CloseInvitation, CommitCheckIn
  <2> QED
    BY <1>6, <2>1 DEF WriteDecision, WriteOverride, CloseInvitation, CommitCheckIn, TypeOK
<1>7. ASSUME NEW w \in Workers,
             \/ WriteDecision(w) \/ WriteOverride(w) \/ CloseInvitation(w)
             \/ \E v \in Visits : CommitCheckIn(w, v)
      PROVE  \/ statusN = status
             \/ \E i \in Invitations, s \in LC!VisitorStatus :
                  LC!CanTransition(status[i], s) /\ statusN = [status EXCEPT ![i] = s]
  <2> DEFINE i == req[w].inv
  <2>1. i \in Invitations /\ \A j \in Invitations \ {i} : inv'[j] = inv[j]
    BY <1>6, <1>7
  <2>2. inv'[i].status \in LC!VisitorStatus \cup {"ABSENT"}
    BY <2>1, TypeStep DEF TypeOK, Invitation
  <2>3. TableOrStaleWrite(i)
    BY <2>1, TableStep
  <2>4. ~\E u \in Workers : HoldsStaleRead(u, i)
    BY DEF HoldsStaleRead, FreshReads
  <2>5. inv[i].status # "ABSENT" \/ inv'[i].status = inv[i].status
    BY <1>7, <2>1, TableFacts DEF WriteDecision, WriteOverride, CloseInvitation,
          CommitCheckIn, SoundRequests, FreshReads
  <2>6. CASE inv'[i].status = inv[i].status
    BY <2>1, <2>6
  <2>7. CASE LC!CanTransition(inv[i].status, inv'[i].status)
    <3>1. inv'[i].status \in LC!VisitorStatus
      BY <2>2, <2>7 DEF LC!CanTransition, LC!VISITOR_TRANSITIONS, LC!VisitorStatus
    <3> QED
      BY <1>5, <2>1, <2>7, <3>1
  <2> QED
    BY <2>3, <2>4, <2>5, <2>6, <2>7 DEF TableOrStaleWrite, StaleWrite
<1>8. CASE UNCHANGED inv
  BY <1>8
<1> QED
  BY <1>1, <1>2, <1>3, <1>4, <1>7, <1>8
     DEF Next, Environment, Sweep, Handler, SetCommunityStatus, SweepBegin, SweepFails, vars,
         BeginDecide, BeginOverride, BeginCheckIn, BeginCheckOut, CheckOutVisit, Abort

\* The serial invariant holds throughout a serial run.
LEMMA SerialInductive == SerialSpec => []SerialInv
<1>1. Init => SerialInv
  BY InitIInv DEF SerialInv, Init, Serial, FreshReads, Idle
<1>2. SerialInv /\ [Next /\ Serial']_vars => SerialInv'
  <2>1. CASE UNCHANGED vars
    BY <2>1, NextIInv DEF SerialInv, vars, Serial, FreshReads
  <2>2. CASE Next /\ Serial'
    BY <2>2, NextIInv, FreshStep DEF SerialInv
  <2> QED
    BY <2>1, <2>2
<1> QED
  BY <1>1, <1>2, PTL DEF SerialSpec

\* An invitation whose visitor has entered is over: it is CHECKED_IN or CHECKED_OUT.
EnteredIsOver ==
  \A v \in Visits : Made(v) => inv[visit[v].inv].status \in {"CHECKED_IN", "CHECKED_OUT"}

\* With every read current, no row leaves CHECKED_IN but for CHECKED_OUT, and checkIn
\* admits only where nobody has entered.
LEMMA SingleEntryStep ==
  ASSUME SerialInv, EnteredIsOver, SingleEntry, [Next]_vars
  PROVE  EnteredIsOver' /\ SingleEntry'
<1> USE DEF SerialInv, IInv
<1>1. ASSUME NEW v \in Visits, Made(v)
      PROVE  /\ Made(v)' /\ visit'[v].inv = visit[v].inv /\ visit[v].inv \in Invitations
             /\ inv'[visit[v].inv].status \in {"CHECKED_IN", "CHECKED_OUT"}
  <2> DEFINE i == visit[v].inv
  <2>1. i \in Invitations /\ inv[i].status \in {"CHECKED_IN", "CHECKED_OUT"}
    BY <1>1 DEF EnteredIsOver, TypeOK, Made, NoVisit, VisitRow
  <2>2. \A w \in Workers : ~HoldsStaleRead(w, i)
    BY DEF HoldsStaleRead, FreshReads
  <2>3. TableOrStaleWrite(i)
    BY <2>1, TableStep
  <2>4. \A s : /\ LC!CanTransition("CHECKED_IN", s) => s = "CHECKED_OUT"
               /\ ~LC!CanTransition("CHECKED_OUT", s)
    BY DEF LC!CanTransition, LC!VISITOR_TRANSITIONS
  <2>5. inv'[i].status \in {"CHECKED_IN", "CHECKED_OUT"}
    BY <2>1, <2>2, <2>3, <2>4 DEF TableOrStaleWrite, StaleWrite
  <2> QED
    BY <1>1, <2>1, <2>5, Monotone
<1>2. ASSUME NEW v \in Visits, ~Made(v), Made(v)'
      PROVE  /\ visit'[v].inv \in Invitations
             /\ inv'[visit'[v].inv].status = "CHECKED_IN"
             /\ \A u \in Visits : Made(u) => visit[u].inv # visit'[v].inv
             /\ \A u \in Visits \ {v} : Made(u)' => Made(u)
  <2>1. PICK w \in Workers : CommitCheckIn(w, v)
    BY <1>2, NewVisit
  <2> DEFINE i == req[w].inv
  <2>2. /\ req[w].op = "checkIn" /\ i \in Invitations
        /\ inv' = [inv EXCEPT ![i].status = "CHECKED_IN"]
        /\ visit'[v].inv = i
        /\ \A u \in Visits \ {v} : visit'[u] = visit[u]
    BY <2>1, RequestFields DEF CommitCheckIn, TypeOK
  <2>3. inv'[i].status = "CHECKED_IN"
    BY <2>2 DEF TypeOK, Invitation
  <2>4. LC!CanTransition(inv[i].status, "CHECKED_IN")
    BY <2>2 DEF SoundRequests, FreshReads
  <2>5. inv[i].status \notin {"CHECKED_IN", "CHECKED_OUT"}
    BY <2>4 DEF LC!CanTransition, LC!VISITOR_TRANSITIONS
  <2> QED
    BY <2>2, <2>3, <2>5 DEF EnteredIsOver, Made
<1>3. EnteredIsOver'
  <2> SUFFICES ASSUME NEW v \in Visits, Made(v)'
               PROVE  inv'[visit'[v].inv].status \in {"CHECKED_IN", "CHECKED_OUT"}
    BY DEF EnteredIsOver
  <2> QED
    BY <1>1, <1>2
<1>4. SingleEntry'
  <2> SUFFICES ASSUME NEW v1 \in Visits, NEW v2 \in Visits, Made(v1)', Made(v2)',
                      visit'[v1].inv = visit'[v2].inv
               PROVE  v1 = v2
    BY DEF SingleEntry
  <2>1. CASE Made(v1) /\ Made(v2)
    BY <1>1, <2>1 DEF SingleEntry
  <2>2. CASE ~(Made(v1) /\ Made(v2))
    BY <1>1, <1>2, <2>2
  <2> QED
    BY <2>1, <2>2
<1> QED
  BY <1>3, <1>4

\* checkIn, one request at a time: no replay, second credential or second guard gets
\* another visit out of an invitation.
THEOREM SerialAdmitsOnce == SerialSpec => []SingleEntry
<1>1. Init => EnteredIsOver /\ SingleEntry
  BY DEF Init, EnteredIsOver, SingleEntry, Made, NoVisit
<1>2. SerialInv /\ EnteredIsOver /\ SingleEntry /\ [Next /\ Serial']_vars
        => (EnteredIsOver /\ SingleEntry)'
  BY SingleEntryStep
<1> QED
  BY <1>1, <1>2, SerialInductive, PTL DEF SerialSpec

\* Run one at a time, the handlers and the sweep implement the lifecycle that the
\* project documents: every status change is one VISITOR_TRANSITIONS allows.
THEOREM SerialImplementsLifecycle == SerialSpec => LifecycleSpec
<1>1. Init => LC!Init
  BY DEF Init, LC!Init, NoInvitation
<1>2. SerialInv /\ [Next /\ Serial']_vars => [LC!Next]_([i \in Invitations |-> inv[i].status])
  BY AbstractStep
<1> QED
  BY <1>1, <1>2, SerialInductive, PTL DEF SerialSpec, LifecycleSpec, LC!Spec

-----------------------------------------------------------------------------
(* The guard PWA: the sequences of the queue *)

\* Entries are numbers, in the order they were recorded.
LEMMA EntriesAreNumbers ==
  ASSUME NEW s \in Seq(Entries)
  PROVE  s \in Seq(Nat)
<1>1. Entries \subseteq Nat
  BY DEF Entries
<1> QED  BY <1>1, SeqMonotonic

\* push adds its op and keeps the others.
LEMMA Pushed ==
  ASSUME NEW S, NEW s \in Seq(S), NEW e \in S
  PROVE  /\ Append(s, e) \in Seq(S)
         /\ Append(s, e) # <<>>
         /\ Elements(Append(s, e)) = Elements(s) \cup {e}
<1>1. /\ Append(s, e) \in Seq(S)
      /\ Len(Append(s, e)) = Len(s) + 1
      /\ \A k \in 1..Len(s) : Append(s, e)[k] = s[k]
      /\ Append(s, e)[Len(s) + 1] = e
  OBVIOUS
<1>2. DOMAIN s = 1..Len(s) /\ Len(s) \in Nat
  OBVIOUS
<1>3. DOMAIN Append(s, e) = 1..(Len(s) + 1)
  BY <1>1
<1>4. DOMAIN Append(s, e) = DOMAIN s \cup {Len(s) + 1}
  BY <1>2, <1>3
<1> QED  BY <1>1, <1>2, <1>4, <1>3 DEF Elements

\* A loop over ops handles the head and leaves the tail.
LEMMA HeadTail ==
  ASSUME NEW S, NEW s \in Seq(S), s # <<>>
  PROVE  /\ Head(s) \in S
         /\ Tail(s) \in Seq(S)
         /\ Len(s) # 1 => Tail(s) # <<>>
         /\ Len(s) = 1 => Elements(s) = {Head(s)}
         /\ Elements(s) = {Head(s)} \cup Elements(Tail(s))
<1>1. /\ Len(s) \in Nat \ {0} /\ DOMAIN s = 1..Len(s)
      /\ Head(s) = s[1]
      /\ Tail(s) \in Seq(S)
      /\ Len(Tail(s)) = Len(s) - 1
      /\ \A k \in 1..(Len(s) - 1) : Tail(s)[k] = s[k + 1]
  OBVIOUS
<1>2. DOMAIN Tail(s) = 1..(Len(s) - 1)
  BY <1>1
<1>3. Head(s) \in S /\ (Len(s) # 1 => Tail(s) # <<>>)
  <2>1. 1 \in 1..Len(s) /\ s[1] \in S
    BY <1>1
  <2>2. Len(s) # 1 => Len(Tail(s)) # 0
    BY <1>1
  <2>3. Len(<<>>) = 0
    OBVIOUS
  <2> QED  BY <1>1, <2>1, <2>2, <2>3
<1>4. Len(s) = 1 => Elements(s) = {Head(s)}
  BY <1>1 DEF Elements
<1>5. ASSUME NEW e \in Elements(s)  PROVE e \in {Head(s)} \cup Elements(Tail(s))
  <2>1. PICK k \in 1..Len(s) : e = s[k]
    BY <1>1, <1>5 DEF Elements
  <2>2. CASE k = 1
    BY <1>1, <2>1, <2>2
  <2>3. CASE k # 1
    <3>1. k - 1 \in DOMAIN Tail(s) /\ Tail(s)[k - 1] = e
      BY <1>1, <1>2, <2>1, <2>3
    <3> QED  BY <3>1 DEF Elements
  <2> QED  BY <2>2, <2>3
<1>6. ASSUME NEW e \in {Head(s)} \cup Elements(Tail(s))  PROVE e \in Elements(s)
  <2>1. CASE e = Head(s)
    BY <1>1, <2>1 DEF Elements
  <2>2. CASE e \in Elements(Tail(s))
    <3>1. PICK k \in 1..(Len(s) - 1) : e = Tail(s)[k]
      BY <1>2, <2>2 DEF Elements
    <3>2. k + 1 \in DOMAIN s /\ s[k + 1] = e
      BY <1>1, <3>1
    <3> QED  BY <3>2 DEF Elements
  <2> QED  BY <1>6, <2>1, <2>2
<1> QED  BY <1>1, <1>3, <1>4, <1>5, <1>6

\* Order survives a push of an op that comes after all the others.
LEMMA PushedInOrder ==
  ASSUME NEW s \in Seq(Nat), NEW e \in Nat, InOrder(s),
         \A k \in DOMAIN s : s[k] < e
  PROVE  InOrder(Append(s, e))
<1>1. /\ DOMAIN s = 1..Len(s) /\ Len(s) \in Nat
      /\ DOMAIN Append(s, e) = 1..(Len(s) + 1)
      /\ \A k \in 1..Len(s) : Append(s, e)[k] = s[k]
      /\ Append(s, e)[Len(s) + 1] = e
  OBVIOUS
<1>2. SUFFICES ASSUME NEW j \in 1..(Len(s) + 1), NEW k \in 1..(Len(s) + 1), j < k
               PROVE  Append(s, e)[j] < Append(s, e)[k]
  BY <1>1 DEF InOrder
<1>3. CASE k = Len(s) + 1
  BY <1>1, <1>2, <1>3
<1>4. CASE k # Len(s) + 1
  <2>1. j \in DOMAIN s /\ k \in DOMAIN s
    BY <1>1, <1>2, <1>4
  <2> QED  BY <1>1, <1>2, <2>1 DEF InOrder
<1> QED  BY <1>3, <1>4

\* Order survives the loop's step: the head comes before every op of the tail.
LEMMA TailInOrder ==
  ASSUME NEW s \in Seq(Nat), s # <<>>, InOrder(s)
  PROVE  /\ InOrder(Tail(s))
         /\ \A k \in DOMAIN Tail(s) : k + 1 \in DOMAIN s /\ Tail(s)[k] = s[k + 1]
         /\ \A k \in DOMAIN Tail(s) : Head(s) < Tail(s)[k]
         /\ 1 \in DOMAIN s /\ Head(s) = s[1]
<1>1. /\ Len(s) \in Nat \ {0} /\ DOMAIN s = 1..Len(s)
      /\ Head(s) = s[1]
      /\ DOMAIN Tail(s) = 1..(Len(s) - 1)
      /\ \A k \in 1..(Len(s) - 1) : Tail(s)[k] = s[k + 1]
  <2>1. /\ Len(s) \in Nat \ {0} /\ DOMAIN s = 1..Len(s)
        /\ Head(s) = s[1]
        /\ Tail(s) \in Seq(Nat)
        /\ Len(Tail(s)) = Len(s) - 1
        /\ \A k \in 1..(Len(s) - 1) : Tail(s)[k] = s[k + 1]
    OBVIOUS
  <2> QED  BY <2>1
<1>2. ASSUME NEW k \in DOMAIN Tail(s)
      PROVE  /\ k \in 1..(Len(s) - 1) /\ k + 1 \in DOMAIN s
             /\ Tail(s)[k] = s[k + 1] /\ 1 < k + 1 /\ 1 \in DOMAIN s
  BY <1>1, <1>2
<1>3. \A k \in DOMAIN Tail(s) : Head(s) < Tail(s)[k]
  BY <1>1, <1>2 DEF InOrder
<1>4. ASSUME NEW j \in DOMAIN Tail(s), NEW k \in DOMAIN Tail(s), j < k
      PROVE  Tail(s)[j] < Tail(s)[k]
  <2>1. j + 1 < k + 1
    BY <1>1, <1>4
  <2> QED  BY <1>2, <2>1 DEF InOrder
<1>5. InOrder(Tail(s))
  BY <1>4 DEF InOrder
<1> QED  BY <1>1, <1>2, <1>3, <1>5

-----------------------------------------------------------------------------
(* What a flush does to what it holds *)

\* A flush that has not begun, or has ended, holds nothing.
LEMMA NotRunningSound ==
  ASSUME NEW last \in 0..MaxEntries, NEW done
  PROVE  CallSound(NotRunning, last, done)
<1>1. DOMAIN <<>> = {} /\ <<>> \in Seq(Entries)
  OBVIOUS
<1>2. Elements(<<>>) = {}
  BY <1>1 DEF Elements
<1> QED  BY <1>1, <1>2 DEF CallSound, NotRunning, InOrder

\* A flush begins with the whole queue to post.
LEMMA Begins ==
  ASSUME NEW q, NEW last \in 0..MaxEntries, NEW done, QueueSound(q, last, done)
  PROVE  CallSound([todo |-> q, kept |-> <<>>], last, done)
<1>1. DOMAIN <<>> = {} /\ <<>> \in Seq(Entries)
  OBVIOUS
<1>2. Elements(<<>>) = {}
  BY <1>1 DEF Elements
<1> QED  BY <1>1, <1>2 DEF CallSound, QueueSound, InOrder

\* Being done with more ops harms neither the queue nor a flush.
LEMMA DoneGrows ==
  ASSUME NEW last \in 0..MaxEntries, NEW done, NEW more, done \subseteq more
  PROVE  /\ \A q : QueueSound(q, last, done) => QueueSound(q, last, more)
         /\ \A c : CallSound(c, last, done) => CallSound(c, last, more)
<1>1. \A q : QueueSound(q, last, done) => QueueSound(q, last, more)
  BY DEF QueueSound
<1>2. \A c : CallSound(c, last, done) => CallSound(c, last, more)
  BY DEF CallSound
<1> QED  BY <1>1, <1>2

\* What a flush goes on with after an op: its tail, or the kept ops as the queue.
LEMMA GoesOn ==
  ASSUME NEW c, NEW last \in 0..MaxEntries, NEW done, NEW more, NEW kept,
         CallSound(c, last, done), c.todo # <<>>,
         kept \in Seq(Entries), InOrder(kept),
         Elements(kept) \subseteq Elements(c.kept) \cup {Head(c.todo)},
         Elements(c.kept) \cup done \cup {Head(c.todo)} \subseteq Elements(kept) \cup more
  PROVE  /\ Len(c.todo) = 1 => QueueSound(kept, last, more)
         /\ CallSound([todo |-> Tail(c.todo), kept |-> kept], last, more)
<1> DEFINE next == [todo |-> Tail(c.todo), kept |-> kept]
<1>1. /\ c.todo \in Seq(Entries) /\ c.kept \in Seq(Entries)
      /\ InOrder(c.todo) /\ InOrder(c.kept)
      /\ \A j \in DOMAIN c.kept : \A k \in DOMAIN c.todo : c.kept[j] < c.todo[k]
      /\ Elements(c.todo) \cup Elements(c.kept) \subseteq 1..last
      /\ \A e \in 1..last : e \in done \cup Elements(c.todo) \cup Elements(c.kept)
  BY DEF CallSound
<1>2. /\ Tail(c.todo) \in Seq(Entries)
      /\ Len(c.todo) = 1 => Elements(c.todo) = {Head(c.todo)}
      /\ Elements(c.todo) = {Head(c.todo)} \cup Elements(Tail(c.todo))
  BY <1>1, HeadTail
<1>3. /\ InOrder(Tail(c.todo))
      /\ \A k \in DOMAIN Tail(c.todo) : k + 1 \in DOMAIN c.todo
                                      /\ Tail(c.todo)[k] = c.todo[k + 1]
      /\ \A k \in DOMAIN Tail(c.todo) : Head(c.todo) < Tail(c.todo)[k]
  <2>1. c.todo \in Seq(Nat)
    BY <1>1, EntriesAreNumbers
  <2> QED  BY <1>1, <2>1, TailInOrder
<1>4. Elements(kept) \subseteq 1..last
  BY <1>1, <1>2
<1>5. \A e \in 1..last : e \in more \cup Elements(Tail(c.todo)) \cup Elements(kept)
  BY <1>1, <1>2
<1>6. Len(c.todo) = 1 => \A e \in 1..last : e \in more \cup Elements(kept)
  BY <1>1, <1>2
<1>7. ASSUME NEW j \in DOMAIN kept, NEW k \in DOMAIN Tail(c.todo)
      PROVE  kept[j] < Tail(c.todo)[k]
  <2>1. kept[j] \in Elements(kept)
    BY DEF Elements
  <2>2. CASE kept[j] = Head(c.todo)
    BY <1>3, <2>2
  <2>3. CASE kept[j] \in Elements(c.kept)
    <3>1. PICK i \in DOMAIN c.kept : kept[j] = c.kept[i]
      BY <2>3 DEF Elements
    <3> QED  BY <1>1, <1>3, <3>1
  <2> QED  BY <2>1, <2>2, <2>3
<1>8. Len(c.todo) = 1 => QueueSound(kept, last, more)
  BY <1>4, <1>6 DEF QueueSound
<1>9. CallSound(next, last, more)
  <2>1. next.todo = Tail(c.todo) /\ next.kept = kept
    OBVIOUS
  <2>2. next \in [todo : Seq(Entries), kept : Seq(Entries)]
    BY <1>2
  <2>3. Elements(next.todo) \cup Elements(next.kept) \subseteq 1..last
    BY <1>1, <1>2, <1>4, <2>1
  <2> HIDE DEF next
  <2> QED  BY <1>3, <1>5, <1>7, <2>1, <2>2, <2>3 DEF CallSound
<1> QED  BY <1>8, <1>9

\* An answered op is done with.
LEMMA Answers ==
  ASSUME NEW c, NEW last \in 0..MaxEntries, NEW done,
         CallSound(c, last, done), c.todo # <<>>
  PROVE  LET more == done \cup {Head(c.todo)} IN
         /\ Len(c.todo) = 1 => QueueSound(c.kept, last, more)
         /\ CallSound([todo |-> Tail(c.todo), kept |-> c.kept], last, more)
<1>1. c.kept \in Seq(Entries) /\ InOrder(c.kept)
  BY DEF CallSound
<1> DEFINE kept == c.kept
           more == done \cup {Head(c.todo)}
<1>2. /\ Elements(kept) \subseteq Elements(c.kept) \cup {Head(c.todo)}
      /\ Elements(c.kept) \cup done \cup {Head(c.todo)} \subseteq Elements(kept) \cup more
  OBVIOUS
<1> QED  BY <1>1, <1>2, GoesOn

\* An op that met a network error is kept, behind those already kept.
LEMMA Keeps ==
  ASSUME NEW c, NEW last \in 0..MaxEntries, NEW done,
         CallSound(c, last, done), c.todo # <<>>
  PROVE  LET kept == Append(c.kept, Head(c.todo)) IN
         /\ kept \in Seq(Entries)
         /\ Len(c.todo) = 1 => QueueSound(kept, last, done)
         /\ CallSound([todo |-> Tail(c.todo), kept |-> kept], last, done)
<1> DEFINE kept == Append(c.kept, Head(c.todo))
<1>1. /\ c.todo \in Seq(Entries) /\ c.kept \in Seq(Entries)
      /\ c.todo \in Seq(Nat) /\ c.kept \in Seq(Nat)
      /\ InOrder(c.todo) /\ InOrder(c.kept)
      /\ \A j \in DOMAIN c.kept : \A k \in DOMAIN c.todo : c.kept[j] < c.todo[k]
  BY EntriesAreNumbers DEF CallSound
<1>2. Head(c.todo) \in Entries /\ Head(c.todo) \in Nat
  BY <1>1, HeadTail DEF Entries
<1>3. 1 \in DOMAIN c.todo /\ Head(c.todo) = c.todo[1]
  BY <1>1, TailInOrder
<1>4. kept \in Seq(Entries) /\ Elements(kept) = Elements(c.kept) \cup {Head(c.todo)}
  BY <1>1, <1>2, Pushed
<1>5. InOrder(kept)
  BY <1>1, <1>2, <1>3, PushedInOrder
<1>6. /\ Elements(kept) \subseteq Elements(c.kept) \cup {Head(c.todo)}
      /\ Elements(c.kept) \cup done \cup {Head(c.todo)} \subseteq Elements(kept) \cup done
  BY <1>4
<1> QED  BY <1>4, <1>5, <1>6, GoesOn

\* A check-in is recorded at the end of the queue; a flush that is running misses it.
LEMMA Records ==
  ASSUME NEW last \in Nat, last < MaxEntries, NEW done, NEW more, done \subseteq more
  PROVE  /\ \A q : QueueSound(q, last, done) =>
                    QueueSound(Append(q, last + 1), last + 1, more)
         /\ \A c : CallSound(c, last, done) /\ (c.todo # <<>> => last + 1 \in more) =>
                    CallSound(c, last + 1, more)
<1>1. last + 1 \in Entries /\ last + 1 \in Nat /\ 1..(last + 1) = 1..last \cup {last + 1}
  BY DeviceAssumption DEF Entries
<1>2. ASSUME NEW q, QueueSound(q, last, done)
      PROVE  QueueSound(Append(q, last + 1), last + 1, more)
  <2>1. /\ q \in Seq(Entries) /\ q \in Seq(Nat) /\ InOrder(q) /\ Elements(q) \subseteq 1..last
        /\ \A e \in 1..last : e \in done \cup Elements(q)
    BY <1>2, EntriesAreNumbers DEF QueueSound
  <2>2. ASSUME NEW k \in DOMAIN q  PROVE q[k] < last + 1
    <3>1. q[k] \in 1..last
      BY <2>1 DEF Elements
    <3> QED  BY <3>1
  <2>3. InOrder(Append(q, last + 1))
    BY <1>1, <2>1, <2>2, PushedInOrder
  <2>4. /\ Append(q, last + 1) \in Seq(Entries)
        /\ Elements(Append(q, last + 1)) = Elements(q) \cup {last + 1}
    BY <1>1, <2>1, Pushed
  <2> QED  BY <1>1, <2>1, <2>3, <2>4 DEF QueueSound
<1>3. ASSUME NEW c, CallSound(c, last, done), c.todo # <<>> => last + 1 \in more
      PROVE  CallSound(c, last + 1, more)
  BY <1>1, <1>3 DEF CallSound
<1> QED  BY <1>2, <1>3

-----------------------------------------------------------------------------
(* The guard PWA: the invariant *)

Done == overlapped \cup answered

\* The invariant is its three parts; those of DeviceTypeOK that the others do not give.
LEMMA Parts ==
  DeviceInv <=>
           /\ online \in BOOLEAN /\ screen \in {"home", "entry"}
           /\ recorded \in 0..MaxEntries
           /\ answered \subseteq Entries /\ overlapped \subseteq Entries
           /\ flush = [f \in Flushes |-> flush[f]]
           /\ QueueSound(queue, recorded, Done)
           /\ \A f \in Flushes : CallSound(flush[f], recorded, Done)
  BY DEF DeviceInv, DeviceTypeOK, Done, QueueSound, CallSound

\* The same of the next state.
LEMMA NextParts ==
  ASSUME online' \in BOOLEAN, screen' \in {"home", "entry"},
         recorded' \in 0..MaxEntries,
         answered' \subseteq Entries, overlapped' \subseteq Entries,
         flush' = [f \in Flushes |-> flush'[f]],
         QueueSound(queue', recorded', Done'),
         \A f \in Flushes : CallSound(flush'[f], recorded', Done')
  PROVE  DeviceInv'
  BY DEF DeviceInv, DeviceTypeOK, Done, QueueSound, CallSound

\* Nothing is recorded at the start.
LEMMA InitDeviceInv == DeviceInit => DeviceInv
<1> SUFFICES ASSUME DeviceInit PROVE DeviceInv
  OBVIOUS
<1>1. recorded = 0 /\ 0 \in 0..MaxEntries /\ 1..0 = {}
  BY DeviceAssumption DEF DeviceInit
<1>2. DOMAIN <<>> = {} /\ <<>> \in Seq(Entries)
  OBVIOUS
<1>3. QueueSound(queue, recorded, Done)
  BY <1>1, <1>2 DEF DeviceInit, QueueSound, InOrder, Elements
<1>4. \A f \in Flushes : CallSound(NotRunning, recorded, Done)
  BY <1>1, NotRunningSound
<1> QED  BY <1>1, <1>3, <1>4, Parts DEF DeviceInit

\* Wherever the effect runs, each flush goes on, is gone, or begins with the queue.
LEMMA EffectSound ==
  ASSUME DeviceInv, NEW calls, NEW isOnline, NEW route,
         calls = [f \in Flushes |-> calls[f]],
         \A f \in Flushes : calls[f] \in {flush[f], NotRunning},
         Effect(calls, isOnline, route),
         UNCHANGED <<queue, recorded, answered, overlapped>>,
         online' \in BOOLEAN, screen' \in {"home", "entry"}
  PROVE  DeviceInv'
<1> DEFINE begun == [todo |-> queue, kept |-> <<>>]
<1>1. /\ recorded \in 0..MaxEntries
      /\ answered \subseteq Entries /\ overlapped \subseteq Entries
      /\ QueueSound(queue, recorded, Done)
      /\ \A f \in Flushes : CallSound(flush[f], recorded, Done)
  BY Parts
<1>2. \A f \in Flushes : CallSound(calls[f], recorded, Done)
  BY <1>1, NotRunningSound
<1>3. CallSound(begun, recorded, Done)
  BY <1>1, Begins
<1>4. /\ flush' = [f \in Flushes |-> flush'[f]]
      /\ \A f \in Flushes : flush'[f] \in {calls[f], begun}
  <2> HIDE DEF begun
  <2>1. CASE flush' = calls
    BY <2>1
  <2>2. CASE \E g \in Flushes : flush' = [calls EXCEPT ![g] = begun]
    BY <2>2
  <2> QED  BY <2>1, <2>2 DEF Effect, begun
<1>5. \A f \in Flushes : CallSound(flush'[f], recorded, Done)
  <2> HIDE DEF begun
  <2> QED  BY <1>2, <1>3, <1>4
<1>6. Done' = Done
  BY DEF Done
<1> HIDE DEF begun
<1> QED  BY <1>1, <1>4, <1>5, <1>6, NextParts

\* After an op a flush goes on, or ends by writing the ops it keeps.
LEMMA ContinueSound ==
  ASSUME DeviceInv, NEW f \in Flushes, Running(f), NEW kept, Continue(f, kept),
         UNCHANGED <<online, screen, recorded, overlapped>>,
         answered' \subseteq Entries, Done \subseteq Done',
         Len(flush[f].todo) = 1 => QueueSound(kept, recorded, Done'),
         CallSound([todo |-> Tail(flush[f].todo), kept |-> kept], recorded, Done')
  PROVE  DeviceInv'
<1> DEFINE next == [todo |-> Tail(flush[f].todo), kept |-> kept]
<1>1. /\ online \in BOOLEAN /\ screen \in {"home", "entry"}
      /\ recorded \in 0..MaxEntries /\ overlapped \subseteq Entries
      /\ flush = [g \in Flushes |-> flush[g]]
      /\ QueueSound(queue, recorded, Done)
      /\ \A g \in Flushes : CallSound(flush[g], recorded, Done)
  BY Parts
<1>2. /\ QueueSound(queue, recorded, Done')
      /\ \A g \in Flushes : CallSound(flush[g], recorded, Done')
      /\ CallSound(NotRunning, recorded, Done')
  BY <1>1, DoneGrows, NotRunningSound
<1>3. CallSound(next, recorded, Done')
  OBVIOUS
<1> HIDE DEF next
<1>4. /\ flush' = [g \in Flushes |-> flush'[g]]
      /\ \A g \in Flushes : flush'[g] \in {flush[g], NotRunning, next}
      /\ queue' = queue \/ (Len(flush[f].todo) = 1 /\ queue' = kept)
  <2>1. CASE Len(flush[f].todo) = 1
    <3>1. flush' = [flush EXCEPT ![f] = NotRunning] /\ queue' = kept
      BY <2>1 DEF Continue
    <3> QED  BY <1>1, <2>1, <3>1
  <2>2. CASE Len(flush[f].todo) # 1
    <3>1. flush' = [flush EXCEPT ![f] = next] /\ queue' = queue
      BY <2>2 DEF Continue, next
    <3> QED  BY <1>1, <3>1
  <2> QED  BY <2>1, <2>2
<1>5. QueueSound(queue', recorded, Done')
  BY <1>2, <1>4
<1>6. \A g \in Flushes : CallSound(flush'[g], recorded, Done')
  BY <1>2, <1>3, <1>4
<1> QED  BY <1>1, <1>4, <1>5, <1>6, NextParts

\* A check-in recorded while a flush runs is one the invariant does not promise.
LEMMA CheckInSound ==
  ASSUME DeviceInv, CheckInOffline
  PROVE  DeviceInv'
<1>1. /\ online \in BOOLEAN /\ screen \in {"home", "entry"}
      /\ recorded \in 0..MaxEntries
      /\ answered \subseteq Entries /\ overlapped \subseteq Entries
      /\ flush = [g \in Flushes |-> flush[g]]
      /\ QueueSound(queue, recorded, Done)
      /\ \A g \in Flushes : CallSound(flush[g], recorded, Done)
  BY Parts
<1>2. recorded \in Nat /\ recorded < MaxEntries /\ recorded + 1 \in Entries
      /\ recorded' = recorded + 1 /\ recorded' \in 0..MaxEntries
  BY <1>1, DeviceAssumption DEF CheckInOffline, Entries
<1>3. /\ overlapped' \subseteq Entries /\ answered' = answered /\ Done \subseteq Done'
      /\ \A g \in Flushes : flush[g].todo # <<>> => recorded + 1 \in Done'
  BY <1>1, <1>2 DEF CheckInOffline, Done, Running
<1>4. QueueSound(Append(queue, recorded + 1), recorded + 1, Done')
  BY <1>1, <1>2, <1>3, Records
<1>5. \A g \in Flushes : CallSound(flush[g], recorded + 1, Done')
  BY <1>1, <1>2, <1>3, Records
<1> QED  BY <1>1, <1>2, <1>3, <1>4, <1>5, NextParts DEF CheckInOffline

\* Every step of the device keeps the invariant.
LEMMA NextDeviceInv == DeviceInv /\ [DeviceNext]_deviceVars => DeviceInv'
<1> SUFFICES ASSUME DeviceInv, [DeviceNext]_deviceVars PROVE DeviceInv'
  OBVIOUS
<1>1. /\ online \in BOOLEAN /\ screen \in {"home", "entry"}
      /\ answered \subseteq Entries
      /\ flush = [f \in Flushes |-> flush[f]]
      /\ recorded \in 0..MaxEntries
      /\ \A f \in Flushes : CallSound(flush[f], recorded, Done)
  BY Parts
<1>2. CASE CheckInOffline
  BY <1>2, CheckInSound
<1>3. CASE OpenHome
  BY <1>1, <1>3, EffectSound DEF OpenHome
<1>4. CASE OpenEntry
  BY <1>4 DEF OpenEntry, DeviceInv, DeviceTypeOK
<1>5. CASE GoOnline
  BY <1>1, <1>5, EffectSound DEF GoOnline
<1>6. CASE GoOffline
  BY <1>6 DEF GoOffline, DeviceInv, DeviceTypeOK
<1>7. CASE Reload
  <2> DEFINE calls == [f \in Flushes |-> NotRunning]
  <2>1. calls = [f \in Flushes |-> calls[f]]
    OBVIOUS
  <2>2. \A f \in Flushes : calls[f] \in {flush[f], NotRunning}
    OBVIOUS
  <2>3. /\ Effect(calls, online, screen)
        /\ UNCHANGED <<online, screen, queue, recorded, answered, overlapped>>
    BY <1>7 DEF Reload
  <2> HIDE DEF calls
  <2> QED  BY <1>1, <2>1, <2>2, <2>3, EffectSound
<1>8. ASSUME NEW f \in Flushes, Answered(f)  PROVE DeviceInv'
  <2>1. CallSound(flush[f], recorded, Done) /\ flush[f].todo # <<>>
    BY <1>1, <1>8 DEF Answered, Running
  <2>2. Head(flush[f].todo) \in Entries
    BY <2>1, HeadTail DEF CallSound
  <2>3. /\ answered' \subseteq Entries
        /\ Done' = Done \cup {Head(flush[f].todo)}
    BY <1>1, <1>8, <2>2 DEF Answered, Done, Posting
  <2>4. /\ Len(flush[f].todo) = 1 => QueueSound(flush[f].kept, recorded, Done')
        /\ CallSound([todo |-> Tail(flush[f].todo), kept |-> flush[f].kept],
                     recorded, Done')
    BY <1>1, <2>1, <2>3, Answers
  <2> QED  BY <1>8, <2>3, <2>4, ContinueSound DEF Answered
<1>9. ASSUME NEW f \in Flushes, NetworkError(f)  PROVE DeviceInv'
  <2> DEFINE kept == Append(flush[f].kept, Head(flush[f].todo))
  <2>1. CallSound(flush[f], recorded, Done) /\ flush[f].todo # <<>>
    BY <1>1, <1>9 DEF NetworkError, Running
  <2>2. answered' = answered /\ Done' = Done
    BY <1>9 DEF NetworkError, Done
  <2>3. /\ Len(flush[f].todo) = 1 => QueueSound(kept, recorded, Done')
        /\ CallSound([todo |-> Tail(flush[f].todo), kept |-> kept], recorded, Done')
    BY <1>1, <2>1, <2>2, Keeps
  <2>4. Continue(f, kept) /\ Running(f)
        /\ UNCHANGED <<online, screen, recorded, overlapped>>
    BY <1>9 DEF NetworkError, Posting
  <2> HIDE DEF kept
  <2> QED  BY <1>1, <2>2, <2>3, <2>4, ContinueSound
<1>10. CASE UNCHANGED deviceVars
  BY <1>10 DEF deviceVars, DeviceInv, DeviceTypeOK
<1> QED
  BY <1>2, <1>3, <1>4, <1>5, <1>6, <1>7, <1>8, <1>9, <1>10 DEF DeviceNext, FlushStep

\* The invariant holds throughout.
LEMMA DeviceInductive == DeviceSpec => []DeviceInv
  BY InitDeviceInv, NextDeviceInv, PTL DEF DeviceSpec

-----------------------------------------------------------------------------
(* The theorems *)

\* Every variable keeps its type, whatever the network and the guard do.
THEOREM DeviceTypeCorrect == DeviceSpec => []DeviceTypeOK
<1>1. DeviceInv => DeviceTypeOK
  BY DEF DeviceInv
<1> QED  BY <1>1, DeviceInductive, PTL

\* enqueueOffline and flushQueue never lose an op recorded while no flush was running:
\* it stays in localStorage until the gate has answered it.
THEOREM OpsAreKept == DeviceSpec => []KeptUntilAnswered
<1>1. DeviceInv => KeptUntilAnswered
  BY DEF DeviceInv, QueueSound, KeptUntilAnswered, InQueue
<1> QED  BY <1>1, DeviceInductive, PTL

\* However flushes overlap, flushQueue finds and leaves the queue in the order in which
\* its ops were recorded.
THEOREM OrderIsKept == DeviceSpec => []QueueKeepsOrder
<1>1. DeviceInv => QueueKeepsOrder
  BY DEF DeviceInv, QueueSound, QueueKeepsOrder
<1> QED  BY <1>1, DeviceInductive, PTL
=============================================================================
