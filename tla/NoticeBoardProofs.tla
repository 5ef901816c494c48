------------------------ MODULE NoticeBoardProofs ------------------------
(***************************************************************************)
(* Theorems about NoticeBoard, and DbQueue in it, for any sets of notices, *)
(* requests and overlapping ticks, and any bound on attempts and faults.   *)
(***************************************************************************)
EXTENDS NoticeBoard, FiniteSetTheorems, TLAPS

-----------------------------------------------------------------------------
(* What rows, requests, ticks and the sweep carry *)

\* A notice that exists is a row of its table.
LEMMA NoticeFields ==
  ASSUME TypeOK, NEW n \in Notices
  PROVE  /\ Made(n) => notice[n] \in Notice
         /\ notice[n].status \in {"SCHEDULED", "PUBLISHED", "EXPIRED"} => Made(n)
         /\ ~Made(n) => notice[n] = NoNotice
BY DEF TypeOK, Made, Notice, NoNotice

\* The fields of a request in progress.
LEMMA RequestFields ==
  ASSUME TypeOK, NEW w \in Workers
  PROVE  /\ req[w].op \in {"publish", "fanOut"} => req[w] # Idle
         /\ req[w] # Idle => /\ req[w].op \in {"publish", "fanOut"}
                             /\ req[w].notice \in Notices
                             /\ Made(req[w].notice)
<1>1. req[w] \in Request \cup {Idle} /\ (req[w] # Idle => Made(req[w].notice))
  BY DEF TypeOK, References
<1> QED
  BY <1>1 DEF Request, Idle

\* The fields of a tick that runs.
LEMMA TickFields ==
  ASSUME TypeOK, NEW t \in Ticks
  PROVE  /\ tick[t].step \in {"resting", "run", "failing"}
         /\ tick[t].step = "resting" <=> tick[t] = Resting
         /\ tick[t].step \in {"run", "failing"} => tick[t].key \in Notices /\ Running(t, tick[t].key)
         /\ tick[t].step = "run" => tick[t].at \in {"read", "send", "done"}
         /\ tick[t].step = "failing" => tick[t].next \in JobStatus
         /\ \A n : Running(t, n) => n = tick[t].key /\ tick[t].step \in {"run", "failing"}
<1>1. tick[t] \in Tick \cup {Resting}
  BY DEF TypeOK, QueueTypeOK
<1> QED
  BY <1>1 DEF Tick, Resting, Running

\* The fields of the sweep.
LEMMA SweepFields ==
  ASSUME TypeOK
  PROVE  /\ sweep.step \in {"each", "fanOut"} =>
              sweep.due \in SUBSET Notices /\ \A n \in sweep.due : Made(n)
         /\ sweep.step = "fanOut" => sweep.notice \in Notices
<1>1. sweep \in Sweep
  BY DEF TypeOK
<1>2. sweep.step \in {"each", "fanOut"} => \A n \in sweep.due : Made(n)
  BY DEF TypeOK, References
<1> QED
  BY <1>1, <1>2 DEF Sweep

-----------------------------------------------------------------------------
(* Types *)

\* Made in the next state, for a notice that the next state names as well.
MadeNext(n) == notice'[n].status # "ABSENT"

\* Notices keep their type, and none is deleted.
LEMMA NoticeStep ==
  ASSUME TypeOK, [Next]_vars
  PROVE  /\ notice' \in [Notices -> Notice \cup {NoNotice}]
         /\ \A n \in Notices : Made(n) => MadeNext(n)
<1> DEFINE Goal == /\ notice' \in [Notices -> Notice \cup {NoNotice}]
                   /\ \A n \in Notices : Made(n) => MadeNext(n)
<1>1. notice \in [Notices -> Notice \cup {NoNotice}]
  BY DEF TypeOK
<1>2. ASSUME NEW n \in Notices, NEW row \in Notice, notice' = [notice EXCEPT ![n] = row]
      PROVE  Goal
  <2>1. row.status # "ABSENT"
    BY DEF Notice
  <2> QED
    BY <1>1, <1>2, <2>1 DEF Made, MadeNext
<1>3. ASSUME NEW row \in Notice, NEW s \in {"PUBLISHED", "EXPIRED"}
      PROVE  /\ [row EXCEPT !.status = s] \in Notice
             /\ [row EXCEPT !.publishAt = "past"] \in Notice
             /\ [row EXCEPT !.expiresAt = "past"] \in Notice
             /\ [[row EXCEPT !.status = s] EXCEPT !.publishAt = "past"] \in Notice
  BY DEF Notice, Clock
<1>4. ASSUME NEW w \in Workers, NEW n \in Notices, NEW publishAt \in Clock,
             NEW expiresAt \in Clock \cup {"never"}, CreateNotice(w, n, publishAt, expiresAt)
      PROVE  Goal
  <2> DEFINE row == [status |-> IF publishAt = "past" THEN "PUBLISHED" ELSE "SCHEDULED",
                     publishAt |-> publishAt, expiresAt |-> expiresAt]
  <2>1. row \in Notice
    BY DEF Notice
  <2>2. notice' = [notice EXCEPT ![n] = row]
    BY <1>4 DEF CreateNotice
  <2> HIDE DEF row, Goal
  <2> QED
    BY <1>2, <2>1, <2>2
<1>5. ASSUME NEW w \in Workers, WritePublish(w)
      PROVE  Goal
  <2> DEFINE n == req[w].notice
             row == [[notice[n] EXCEPT !.status = "PUBLISHED"] EXCEPT !.publishAt = "past"]
  <2>1. n \in Notices /\ notice[n] \in Notice
    BY <1>5, RequestFields, NoticeFields DEF WritePublish
  <2>2. row \in Notice
    BY <1>3, <2>1
  <2>3. notice' = [notice EXCEPT ![n] = row]
    BY <1>1, <1>5, <2>1 DEF WritePublish
  <2> HIDE DEF row, Goal, n
  <2> QED
    BY <1>2, <2>1, <2>2, <2>3
<1>6. ASSUME NEW n \in Notices, SweepPublishes(n)
      PROVE  Goal
  <2> DEFINE row == [notice[n] EXCEPT !.status = "PUBLISHED"]
  <2>1. notice[n] \in Notice /\ notice' = [notice EXCEPT ![n] = row]
    BY <1>6, SweepFields, NoticeFields DEF SweepPublishes
  <2>2. row \in Notice
    BY <1>3, <2>1
  <2> HIDE DEF row, Goal
  <2> QED
    BY <1>2, <2>1, <2>2
<1>7. ASSUME SweepExpires
      PROVE  Goal
  <2>1. ASSUME NEW n \in Notices
        PROVE  /\ notice'[n] \in Notice \cup {NoNotice}
               /\ Made(n) => notice'[n].status # "ABSENT"
    <3>1. CASE Expired(notice[n])
      <4>1. notice[n] \in Notice /\ notice'[n] = [notice[n] EXCEPT !.status = "EXPIRED"]
        BY <1>7, <3>1, NoticeFields DEF SweepExpires, Expired
      <4> QED
        BY <4>1 DEF Notice
    <3>2. CASE ~Expired(notice[n])
      BY <1>1, <1>7, <3>2 DEF SweepExpires, Made, MadeNext
    <3> QED
      BY <3>1, <3>2
  <2>2. notice' = [n \in Notices |-> notice'[n]]
    BY <1>7 DEF SweepExpires
  <2> QED
    BY <2>1, <2>2 DEF Made, MadeNext
<1>8. ASSUME NEW n \in Notices, PublishTimeComes(n)
      PROVE  Goal
  <2> DEFINE row == [notice[n] EXCEPT !.publishAt = "past"]
  <2>1. notice[n] \in Notice /\ notice' = [notice EXCEPT ![n] = row]
    BY <1>8, NoticeFields DEF PublishTimeComes
  <2>2. row \in Notice
    BY <1>3, <2>1
  <2> HIDE DEF row, Goal
  <2> QED
    BY <1>2, <2>1, <2>2
<1>9. ASSUME NEW n \in Notices, ExpiryTimeComes(n)
      PROVE  Goal
  <2> DEFINE row == [notice[n] EXCEPT !.expiresAt = "past"]
  <2>1. notice[n] \in Notice /\ notice' = [notice EXCEPT ![n] = row]
    BY <1>9, NoticeFields DEF ExpiryTimeComes
  <2>2. row \in Notice
    BY <1>3, <2>1
  <2> HIDE DEF row, Goal
  <2> QED
    BY <1>2, <2>1, <2>2
<1>10. CASE UNCHANGED notice
  BY <1>1, <1>10 DEF Made, MadeNext
<1>11. UNCHANGED vars => UNCHANGED notice
  BY DEF vars
<1> HIDE DEF Goal
<1> QED
  BY <1>4, <1>5, <1>6, <1>7, <1>8, <1>9, <1>10, <1>11
     DEF Next, Handler, SweepStep, TickStep, BeginPublish, RequestFanOut, RequestFails,
         SweepBegins, SweepFansOut, SweepPublishFails, SweepTurns, SweepExpireFails,
         ReadNotice, Announce, QueueCompletes, HandlerFails, QueueRetries, TickFails,
         QueueClaims, ReapOrphan, ReapRunning, Crash, Goal

\* Requests keep their type, and name notices that exist.
LEMMA RequestStep ==
  ASSUME TypeOK, [Next]_vars
  PROVE  /\ req' \in [Workers -> Request \cup {Idle}]
         /\ \A w \in Workers : req'[w] # Idle => MadeNext(req'[w].notice)
<1> DEFINE Goal == /\ req' \in [Workers -> Request \cup {Idle}]
                   /\ \A w \in Workers : req'[w] # Idle => MadeNext(req'[w].notice)
<1>1. /\ req \in [Workers -> Request \cup {Idle}]
      /\ \A w \in Workers : req[w] # Idle => MadeNext(req[w].notice)
  BY RequestFields, NoticeStep DEF TypeOK
<1>2. ASSUME NEW w \in Workers, req' = [req EXCEPT ![w] = Idle]
      PROVE  Goal
  BY <1>1, <1>2
<1>3. ASSUME NEW w \in Workers, NEW n \in Notices, NEW op \in {"publish", "fanOut"}, MadeNext(n),
             req' = [req EXCEPT ![w] = [op |-> op, notice |-> n]]
      PROVE  Goal
  BY <1>1, <1>3 DEF Request
<1>4. ASSUME NEW w \in Workers, NEW n \in Notices, NEW publishAt \in Clock,
             NEW expiresAt \in Clock \cup {"never"}, CreateNotice(w, n, publishAt, expiresAt)
      PROVE  Goal
  <2>1. MadeNext(n)
    BY <1>4 DEF CreateNotice, Made, MadeNext, TypeOK
  <2>2. req' = req \/ req' = [req EXCEPT ![w] = [op |-> "fanOut", notice |-> n]]
    BY <1>4 DEF CreateNotice
  <2>3. CASE req' = req
    BY <1>1, <2>3
  <2> HIDE DEF Goal
  <2> QED
    BY <1>3, <2>1, <2>2, <2>3
<1>5. ASSUME NEW w \in Workers, NEW n \in Notices, BeginPublish(w, n)
      PROVE  Goal
  <2>1. MadeNext(n)
    BY <1>5, NoticeFields, NoticeStep DEF BeginPublish
  <2> HIDE DEF Goal
  <2> QED
    BY <1>3, <1>5, <2>1 DEF BeginPublish
<1>6. ASSUME NEW w \in Workers, WritePublish(w)
      PROVE  Goal
  <2>1. req[w] # Idle /\ req[w] \in Request /\ MadeNext(req[w].notice)
    BY <1>1, <1>6, RequestFields DEF WritePublish
  <2>2. [req[w] EXCEPT !.op = "fanOut"] = [op |-> "fanOut", notice |-> req[w].notice]
    BY <2>1 DEF Request
  <2>3. req' = [req EXCEPT ![w] = [op |-> "fanOut", notice |-> req[w].notice]]
    BY <1>1, <1>6, <2>2 DEF WritePublish
  <2>4. req[w].notice \in Notices
    BY <2>1 DEF Request
  <2> HIDE DEF Goal
  <2> QED
    BY <1>3, <2>1, <2>3, <2>4
<1>7. CASE Crash
  BY <1>7 DEF Crash
<1>8. CASE UNCHANGED req
  BY <1>1, <1>8
<1>9. UNCHANGED vars => UNCHANGED req
  BY DEF vars
<1> HIDE DEF Goal
<1> QED
  BY <1>2, <1>4, <1>5, <1>6, <1>7, <1>8, <1>9
     DEF Next, Handler, SweepStep, TickStep, RequestFanOut, RequestFails,
         SweepBegins, SweepPublishes, SweepFansOut, SweepPublishFails, SweepTurns, SweepExpires,
         SweepExpireFails, ReadNotice, Announce, QueueCompletes, HandlerFails, QueueRetries,
         TickFails, QueueClaims, ReapOrphan, ReapRunning, PublishTimeComes, ExpiryTimeComes, Goal

\* The sweep keeps its type, and names notices that exist.
LEMMA SweepKept ==
  ASSUME TypeOK, RunsExist, [Next]_vars
  PROVE  /\ sweep' \in Sweep
         /\ sweep'.step \in {"each", "fanOut"} => \A n \in sweep'.due : MadeNext(n)
         /\ sweep'.step = "fanOut" => MadeNext(sweep'.notice)
<1> DEFINE Goal == /\ sweep' \in Sweep
                   /\ sweep'.step \in {"each", "fanOut"} => \A n \in sweep'.due : MadeNext(n)
                   /\ sweep'.step = "fanOut" => MadeNext(sweep'.notice)
<1>1. /\ sweep \in Sweep
      /\ sweep.step \in {"each", "fanOut"} => \A n \in sweep.due : n \in Notices /\ MadeNext(n)
      /\ sweep.step = "fanOut" => MadeNext(sweep.notice)
  BY SweepFields, NoticeStep DEF TypeOK, RunsExist
<1>2. ASSUME NEW due \in SUBSET Notices, \A n \in due : MadeNext(n),
             sweep' = [step |-> "each", due |-> due]
      PROVE  Goal
  BY <1>2 DEF Sweep
<1>3. ASSUME NEW s \in {"asleep", "expire"}, sweep' = [step |-> s]
      PROVE  Goal
  BY <1>3 DEF Sweep
<1>4. ASSUME SweepBegins
      PROVE  Goal
  <2> DEFINE due == {n \in Notices : Due(n)}
  <2>1. \A n \in due : MadeNext(n)
    BY NoticeFields, NoticeStep DEF Due
  <2>2. sweep' = [step |-> "each", due |-> due]
    BY <1>4 DEF SweepBegins
  <2> HIDE DEF Goal
  <2> QED
    BY <1>2, <2>1, <2>2
<1>5. ASSUME NEW n \in Notices, SweepPublishes(n)
      PROVE  Goal
  BY <1>1, <1>5, SweepFields DEF SweepPublishes, Sweep
<1>6. ASSUME SweepFansOut
      PROVE  Goal
  BY <1>1, <1>6, SweepFields DEF SweepFansOut, Sweep
<1>7. CASE UNCHANGED sweep
  BY <1>1, <1>7
<1>8. UNCHANGED vars => UNCHANGED sweep
  BY DEF vars
<1>9. CASE Crash
  BY <1>3, <1>9 DEF Crash
<1> HIDE DEF Goal
<1> QED
  BY <1>3, <1>4, <1>5, <1>6, <1>7, <1>8, <1>9
     DEF Next, Handler, SweepStep, TickStep, CreateNotice, BeginPublish, WritePublish,
         RequestFanOut, RequestFails, SweepPublishFails, SweepTurns, SweepExpires,
         SweepExpireFails, ReadNotice, Announce, QueueCompletes, HandlerFails, QueueRetries,
         TickFails, QueueClaims, ReapOrphan, ReapRunning, PublishTimeComes, ExpiryTimeComes, Goal

-----------------------------------------------------------------------------
(* What a step does to the queue *)

\* One tick goes on to x, and the row of the job it has, or gets, becomes row.
Moves(t, k, row, x) ==
  /\ tick[t] = Resting \/ tick[t].key = k
  /\ x = Resting \/ x.key = k
  /\ job' = [job EXCEPT ![k] = row]
  /\ tick' = [tick EXCEPT ![t] = x]

\* A tick in state x may still announce its notice, or hand its job back.
Owes(x) ==
  \/ x.step = "run" /\ x.at # "done"
  \/ x.step = "failing" /\ x.next = "PENDING"

\* What a tick does to its job, with what that costs.
Claims(t, k, row, x) ==
  /\ tick[t] = Resting /\ job[k].status = "PENDING"
  /\ row.status = "PROCESSING" /\ x.step = "run"
  /\ UNCHANGED <<sent, faults>>

GoesOn(t, k, row, x) ==
  /\ tick[t].step = "run" /\ job[k] = row
  /\ x.step \in {"run", "failing"} /\ (x.step = "failing" => x.next \in {"PENDING", "FAILED"})
  /\ UNCHANGED sent
  /\ faults' = IF tick[t].at = "done" THEN faults + 1 ELSE faults

Announces(t, k, row, x) ==
  /\ tick[t].step = "run" /\ tick[t].at = "send" /\ job[k] = row
  /\ x.step = "run" /\ x.at = "done"
  /\ sent' = [sent EXCEPT ![k] = @ + 1]
  /\ UNCHANGED faults

Ends(t, k, row, x) ==
  /\ tick[t] # Resting /\ x = Resting
  /\ row.status = "PENDING" => Owes(tick[t])
  /\ row.status # "PROCESSING"
  /\ UNCHANGED <<sent, faults>>

Drops(t, k, row, x) ==
  /\ tick[t] # Resting /\ x = Resting /\ job[k] = row
  /\ UNCHANGED sent
  /\ faults' = faults + 1

Drains(t, k, row, x) ==
  /\ job[k] # NoJob
  /\ Moves(t, k, row, x)
  /\ \/ Claims(t, k, row, x)
     \/ GoesOn(t, k, row, x)
     \/ Announces(t, k, row, x)
     \/ Ends(t, k, row, x)
     \/ Drops(t, k, row, x)
  /\ UNCHANGED asked

Asks(k) ==
  /\ MadeNext(k)
  /\ FanOut(k)
  /\ UNCHANGED <<sent, faults>>

Reaps(k) ==
  /\ Reap(k)
  /\ UNCHANGED <<sent, asked>>
  /\ faults' = IF Orphaned(k) THEN faults ELSE faults + 1

Dies ==
  /\ tick' = [t \in Ticks |-> Resting]
  /\ faults' = faults + 1
  /\ UNCHANGED <<job, sent, asked>>

StaysOut ==
  /\ UNCHANGED <<job, tick, sent, asked>>
  /\ faults' \in {faults, faults + 1}

\* Rows that have a status keep it, or get another, and stay rows.
LEMMA JobFields ==
  ASSUME TypeOK, NEW k \in Notices
  PROVE  /\ job[k] # NoJob => job[k] \in Job
         /\ job[k].status \in JobStatus => job[k] # NoJob
         /\ job[k].status = "ABSENT" => job[k] = NoJob
         /\ \A s \in JobStatus : job[k] # NoJob =>
               /\ [job[k] EXCEPT !.status = s] \in Job
               /\ [job[k] EXCEPT !.status = s].status = s
<1>1. job[k] \in Job \cup {NoJob}
  BY DEF TypeOK, QueueTypeOK
<1> QED
  BY <1>1 DEF Job, NoJob, JobStatus

\* A tick that runs has a job, for a notice that exists.
LEMMA RunsARow ==
  ASSUME TypeOK, RunsExist, NEW t \in Ticks, tick[t].step \in {"run", "failing"}
  PROVE  /\ tick[t].key \in Notices
         /\ tick[t] # Resting
         /\ tick[t] \in Tick
         /\ job[tick[t].key] # NoJob
<1>1. tick[t].key \in Notices /\ Running(t, tick[t].key) /\ tick[t] # Resting
  BY TickFields
<1>2. tick[t] \in Tick
  BY <1>1 DEF TypeOK, QueueTypeOK
<1> QED
  BY <1>1, <1>2 DEF RunsExist

\* A step of a handler, or of the tick around it.
LEMMA TickMoves ==
  ASSUME BoardAssumption, TypeOK, RunsExist, HandsBack, NEW t \in Ticks,
         TickStep(t) \/ TickFails(t) \/ \E n \in Notices : QueueClaims(t, n)
  PROVE  \E k \in Notices, row \in Job, x \in Tick \cup {Resting} : Drains(t, k, row, x)
<1> DEFINE Goal == \E k \in Notices, row \in Job, x \in Tick \cup {Resting} : Drains(t, k, row, x)
<1>1. job \in [Notices -> Job \cup {NoJob}] /\ tick \in [Ticks -> Tick \cup {Resting}]
  BY DEF TypeOK, QueueTypeOK
<1>2. Resting \in Tick \cup {Resting}
  OBVIOUS
<1>3. ASSUME NEW n \in Notices, QueueClaims(t, n)
      PROVE  Goal
  <2> DEFINE row == [status |-> "PROCESSING",
                     attempts |-> IF job[n].attempts < MaxAttempts THEN job[n].attempts + 1
                                  ELSE job[n].attempts]
             x == [step |-> "run", key |-> n, at |-> "read"]
  <2>1. job[n] # NoJob /\ job[n] \in Job /\ job[n].status = "PENDING" /\ tick[t] = Resting
    BY <1>3, JobFields DEF QueueClaims, Claim, Claimable, JobStatus
  <2>2. row \in Job /\ row.status = "PROCESSING" /\ x \in Tick /\ x.key = n /\ x.step = "run"
    BY <2>1 DEF Job, JobStatus, Tick, BoardAssumption
  <2>3. job' = [job EXCEPT ![n] = row] /\ tick' = [tick EXCEPT ![t] = x]
    <3> DEFINE att == IF job[n].attempts < MaxAttempts THEN job[n].attempts + 1
                      ELSE job[n].attempts
    <3>1. job' = [job EXCEPT ![n].status = "PROCESSING", ![n].attempts = att]
          /\ tick' = [tick EXCEPT ![t] = x]
      BY <1>3 DEF QueueClaims, Claim
    <3>2. row = [status |-> "PROCESSING", attempts |-> att]
      OBVIOUS
    <3> HIDE DEF att, row
    <3> DEFINE mid == [job[n] EXCEPT !.status = "PROCESSING"]
    <3>3. mid = [status |-> "PROCESSING", attempts |-> job[n].attempts]
      BY <2>1 DEF Job
    <3>4. job' = [job EXCEPT ![n] = [mid EXCEPT !.attempts = att]]
      BY <1>1, <3>1
    <3> HIDE DEF mid
    <3>5. [mid EXCEPT !.attempts = att] = row
      BY <3>2, <3>3
    <3> QED
      BY <3>1, <3>4, <3>5
  <2>4. UNCHANGED <<sent, asked, faults>>
    BY <1>3 DEF QueueClaims
  <2> HIDE DEF row, x
  <2>5. Drains(t, n, row, x)
    BY <2>1, <2>2, <2>3, <2>4 DEF Drains, Moves, Claims
  <2> QED
    BY <2>2, <2>5
<1>4. ASSUME ReadNotice(t)
      PROVE  Goal
  <2> DEFINE k == tick[t].key
             x == [step |-> "run", key |-> k,
                   at |-> IF notice[k].status = "PUBLISHED" THEN "send" ELSE "done"]
  <2>1. tick[t].step = "run" /\ tick[t].at = "read"
    BY <1>4 DEF ReadNotice
  <2>2. k \in Notices /\ tick[t] \in Tick /\ job[k] \in Job /\ job[k] # NoJob
    BY <2>1, RunsARow, JobFields
  <2>3. tick' = [tick EXCEPT ![t] = x]
    <3>1. tick[t] = [step |-> "run", key |-> k, at |-> tick[t].at]
      BY <2>1, <2>2 DEF Tick
    <3>2. [tick[t] EXCEPT !.at = IF notice[k].status = "PUBLISHED" THEN "send" ELSE "done"] = x
      BY <3>1
    <3> QED
      BY <1>1, <1>4, <3>2 DEF ReadNotice
  <2>4. x \in Tick /\ x.key = k /\ x.step = "run"
    BY <2>2 DEF Tick
  <2>5. job' = [job EXCEPT ![k] = job[k]] /\ UNCHANGED <<sent, asked, faults>>
    BY <1>1, <1>4 DEF ReadNotice
  <2> DEFINE row == job[k]
  <2> HIDE DEF x
  <2>6. Drains(t, k, row, x)
    BY <2>1, <2>2, <2>3, <2>4, <2>5 DEF Drains, Moves, GoesOn
  <2> QED
    BY <2>2, <2>4, <2>6
<1>5. ASSUME Announce(t)
      PROVE  Goal
  <2> DEFINE k == tick[t].key
             x == [step |-> "run", key |-> k, at |-> "done"]
  <2>1. tick[t].step = "run" /\ tick[t].at = "send"
    BY <1>5 DEF Announce
  <2>2. k \in Notices /\ tick[t] \in Tick /\ job[k] \in Job /\ job[k] # NoJob
    BY <2>1, RunsARow, JobFields
  <2>3. tick' = [tick EXCEPT ![t] = x]
    <3>1. tick[t] = [step |-> "run", key |-> k, at |-> tick[t].at]
      BY <2>1, <2>2 DEF Tick
    <3>2. [tick[t] EXCEPT !.at = "done"] = x
      BY <3>1
    <3> QED
      BY <1>1, <1>5, <3>2 DEF Announce
  <2>4. x \in Tick /\ x.key = k /\ x.step = "run" /\ x.at = "done"
    BY <2>2 DEF Tick
  <2>5. job' = [job EXCEPT ![k] = job[k]] /\ UNCHANGED <<asked, faults>>
        /\ sent' = [sent EXCEPT ![k] = @ + 1]
    BY <1>1, <1>5 DEF Announce
  <2> DEFINE row == job[k]
  <2> HIDE DEF x
  <2>6. Drains(t, k, row, x)
    BY <2>1, <2>2, <2>3, <2>4, <2>5 DEF Drains, Moves, Announces
  <2> QED
    BY <2>2, <2>4, <2>6
<1>6. ASSUME QueueCompletes(t)
      PROVE  Goal
  <2> DEFINE k == tick[t].key
             row == [job[k] EXCEPT !.status = "DONE"]
  <2>1. tick[t].step = "run"
    BY <1>6 DEF QueueCompletes
  <2>2. k \in Notices /\ tick[t] # Resting /\ job[k] # NoJob
    BY <2>1, RunsARow
  <2>3. row \in Job /\ row.status = "DONE"
    BY <2>2, JobFields DEF JobStatus
  <2>4. /\ job' = [job EXCEPT ![k] = row] /\ tick' = [tick EXCEPT ![t] = Resting]
        /\ UNCHANGED <<sent, asked, faults>>
    BY <1>1, <1>6, <2>2 DEF QueueCompletes, Complete
  <2> HIDE DEF row
  <2>5. Drains(t, k, row, Resting)
    BY <2>2, <2>3, <2>4 DEF Drains, Moves, Ends
  <2> QED
    BY <1>2, <2>2, <2>3, <2>5
<1>7. ASSUME HandlerFails(t)
      PROVE  Goal
  <2> DEFINE k == tick[t].key
             x == [step |-> "failing", key |-> k, next |-> AfterFailure(job[k])]
  <2>1. tick[t].step = "run"
    BY <1>7 DEF HandlerFails, ReadFailed
  <2>2. k \in Notices /\ job[k] \in Job /\ job[k] # NoJob
    BY <2>1, RunsARow, JobFields
  <2>3. tick' = [tick EXCEPT ![t] = x]
    BY <1>7 DEF HandlerFails, ReadFailed
  <2>4. x \in Tick /\ x.key = k /\ x.step = "failing" /\ x.next \in {"PENDING", "FAILED"}
    BY <2>2 DEF Tick, AfterFailure, JobStatus
  <2>5. /\ job' = [job EXCEPT ![k] = job[k]] /\ UNCHANGED <<sent, asked>>
        /\ faults' = IF tick[t].at = "done" THEN faults + 1 ELSE faults
    BY <1>1, <1>7 DEF HandlerFails, ReadFailed, Fault
  <2> DEFINE row == job[k]
  <2> HIDE DEF x
  <2>6. Drains(t, k, row, x)
    BY <2>1, <2>2, <2>3, <2>4, <2>5 DEF Drains, Moves, GoesOn
  <2> QED
    BY <2>2, <2>4, <2>6
<1>8. ASSUME QueueRetries(t)
      PROVE  Goal
  <2> DEFINE k == tick[t].key
             row == [job[k] EXCEPT !.status = tick[t].next]
  <2>1. tick[t].step = "failing" /\ tick[t].next \in {"PENDING", "FAILED"}
    BY <1>8 DEF QueueRetries, WriteFailed, HandsBack
  <2>2. k \in Notices /\ tick[t] # Resting /\ job[k] # NoJob
    BY <2>1, RunsARow
  <2>3. row \in Job /\ row.status = tick[t].next
    BY <2>1, <2>2, JobFields DEF JobStatus
  <2>4. /\ job' = [job EXCEPT ![k] = row] /\ tick' = [tick EXCEPT ![t] = Resting]
        /\ UNCHANGED <<sent, asked, faults>>
    BY <1>1, <1>8, <2>2 DEF QueueRetries, WriteFailed
  <2> HIDE DEF row
  <2>5. Drains(t, k, row, Resting)
    BY <2>1, <2>2, <2>3, <2>4 DEF Drains, Moves, Ends, Owes
  <2> QED
    BY <1>2, <2>2, <2>3, <2>5
<1>9. ASSUME TickFails(t)
      PROVE  Goal
  <2> DEFINE k == tick[t].key
             row == job[k]
  <2>1. tick[t] # Resting
    BY <1>9 DEF TickFails, Abandon
  <2>2. tick[t].step \in {"run", "failing"}
    BY <2>1, TickFields
  <2>3. k \in Notices /\ job[k] # NoJob /\ row \in Job
    BY <2>2, RunsARow, JobFields
  <2>4. /\ job' = [job EXCEPT ![k] = row] /\ tick' = [tick EXCEPT ![t] = Resting]
        /\ UNCHANGED <<sent, asked>> /\ faults' = faults + 1
    BY <1>1, <1>9 DEF TickFails, Abandon, Fault
  <2>5. Drains(t, k, row, Resting)
    BY <2>1, <2>3, <2>4 DEF Drains, Moves, Drops
  <2> QED
    BY <1>2, <2>3, <2>5
<1> HIDE DEF Goal
<1>10. Goal
  BY <1>3, <1>4, <1>5, <1>6, <1>7, <1>8, <1>9 DEF TickStep
<1> QED
  BY <1>10 DEF Goal

\* Every step leaves the queue alone, or is one of these.
LEMMA QueueStep ==
  ASSUME BoardAssumption, TypeOK, RunsExist, HandsBack, [Next]_vars
  PROVE  \/ StaysOut
         \/ \E k \in Notices : Asks(k)
         \/ \E k \in Notices : Reaps(k)
         \/ \E t \in Ticks, k \in Notices, row \in Job, x \in Tick \cup {Resting} : Drains(t, k, row, x)
         \/ Dies
<1> DEFINE Goal == \/ StaysOut
                   \/ \E k \in Notices : Asks(k)
                   \/ \E k \in Notices : Reaps(k)
                   \/ \E t \in Ticks, k \in Notices, row \in Job, x \in Tick \cup {Resting} :
                        Drains(t, k, row, x)
                   \/ Dies
<1>1. ASSUME NEW w \in Workers, RequestFanOut(w)
      PROVE  Goal
  <2>1. req[w].notice \in Notices /\ MadeNext(req[w].notice)
    BY <1>1, RequestFields, NoticeStep DEF RequestFanOut
  <2> DEFINE k == req[w].notice
  <2>2. Asks(k)
    BY <1>1, <2>1 DEF RequestFanOut, Asks
  <2> HIDE DEF k
  <2> QED
    BY <2>1, <2>2 DEF k
<1>2. ASSUME SweepFansOut
      PROVE  Goal
  <2>1. sweep.notice \in Notices /\ MadeNext(sweep.notice)
    BY <1>2, SweepFields, NoticeStep DEF SweepFansOut, RunsExist
  <2> DEFINE k == sweep.notice
  <2>2. Asks(k)
    BY <1>2, <2>1 DEF SweepFansOut, Asks
  <2> HIDE DEF k
  <2> QED
    BY <2>1, <2>2 DEF k
<1>3. ASSUME NEW t \in Ticks, TickStep(t) \/ TickFails(t) \/ \E n \in Notices : QueueClaims(t, n)
      PROVE  Goal
  BY <1>3, TickMoves
<1>4. ASSUME NEW k \in Notices, ReapOrphan(k) \/ ReapRunning(k)
      PROVE  Reaps(k)
  BY <1>4 DEF ReapOrphan, ReapRunning, Reaps, Fault
<1>5. ASSUME Crash
      PROVE  Dies
  BY <1>5 DEF Crash, Dies, Fault
<1>6. ASSUME NEW w \in Workers, Handler(w)
      PROVE  RequestFanOut(w) \/ StaysOut
  BY <1>6 DEF Handler, CreateNotice, BeginPublish, WritePublish, RequestFails, queueVars,
              StaysOut, Fault
<1>7. ASSUME SweepStep
      PROVE  SweepFansOut \/ StaysOut
  BY <1>7 DEF SweepStep, SweepBegins, SweepPublishes, SweepPublishFails, SweepTurns, SweepExpires,
              SweepExpireFails, queueVars, StaysOut, Fault
<1>8. ASSUME NEW n \in Notices, PublishTimeComes(n) \/ ExpiryTimeComes(n)
      PROVE  StaysOut
  BY <1>8 DEF PublishTimeComes, ExpiryTimeComes, queueVars, StaysOut
<1>9. UNCHANGED vars => StaysOut
  BY DEF vars, queueVars, StaysOut
<1> HIDE DEF Goal
<1>10. StaysOut \/ Dies \/ (\E k \in Notices : Reaps(k)) => Goal
  BY DEF Goal
<1>11. Goal
  BY <1>1, <1>2, <1>3, <1>4, <1>5, <1>6, <1>7, <1>8, <1>9, <1>10 DEF Next
<1> QED
  BY <1>11 DEF Goal

\* When one tick moves on, the other ticks and the other jobs stand where they stood.
LEMMA OthersStand ==
  ASSUME TypeOK, NEW t \in Ticks, NEW k \in Notices, NEW row \in Job, NEW x \in Tick \cup {Resting},
         Moves(t, k, row, x)
  PROVE  /\ job' \in [Notices -> Job \cup {NoJob}]
         /\ tick' \in [Ticks -> Tick \cup {Resting}]
         /\ job'[k] = row /\ tick'[t] = x
         /\ \A n \in Notices : n # k => job'[n] = job[n]
         /\ \A u \in Ticks : u # t => tick'[u] = tick[u]
         /\ \A u \in Ticks, n \in Notices : u # t \/ n # k => (Running(u, n)' <=> Running(u, n))
         /\ Running(t, k)' <=> x # Resting
<1>1. job \in [Notices -> Job \cup {NoJob}] /\ tick \in [Ticks -> Tick \cup {Resting}]
  BY DEF TypeOK, QueueTypeOK
<1>2. /\ job' \in [Notices -> Job \cup {NoJob}]
      /\ tick' \in [Ticks -> Tick \cup {Resting}]
      /\ job'[k] = row /\ tick'[t] = x
      /\ \A n \in Notices : n # k => job'[n] = job[n]
      /\ \A u \in Ticks : u # t => tick'[u] = tick[u]
  BY <1>1 DEF Moves
<1>3. \A n \in Notices : n # k => ~Running(t, n)
  BY DEF Moves, Running, Resting
<1>4. x.step = "resting" <=> x = Resting
  BY DEF Tick, Resting
<1>5. \A n \in Notices : Running(t, n)' <=> x # Resting /\ n = k
  BY <1>2, <1>4 DEF Moves, Running
<1>6. \A u \in Ticks, n \in Notices : u # t => (Running(u, n)' <=> Running(u, n))
  BY <1>2 DEF Running
<1> QED
  BY <1>2, <1>3, <1>5, <1>6

-----------------------------------------------------------------------------
(* Every variable keeps its type *)

\* The queue keeps its type, its jobs exist and so do the jobs its ticks run.
LEMMA QueueKept ==
  ASSUME BoardAssumption, TypeOK, RunsExist, HandsBack, [Next]_vars
  PROVE  /\ QueueTypeOK'
         /\ \A n \in Notices : job'[n] # NoJob => MadeNext(n)
         /\ \A t \in Ticks, n \in Notices : Running(t, n)' => job'[n] # NoJob
         /\ HandsBack'
         /\ sent' \in [Notices -> Nat]
         /\ asked' \in [Notices -> Nat]
<1> DEFINE Goal == /\ QueueTypeOK'
                   /\ \A n \in Notices : job'[n] # NoJob => MadeNext(n)
                   /\ \A t \in Ticks, n \in Notices : Running(t, n)' => job'[n] # NoJob
                   /\ HandsBack'
                   /\ sent' \in [Notices -> Nat]
                   /\ asked' \in [Notices -> Nat]
<1>1. /\ job \in [Notices -> Job \cup {NoJob}] /\ tick \in [Ticks -> Tick \cup {Resting}]
      /\ \A n \in Notices : job[n] # NoJob => MadeNext(n)
      /\ \A t \in Ticks, n \in Notices : Running(t, n) => job[n] # NoJob
      /\ sent \in [Notices -> Nat] /\ asked \in [Notices -> Nat]
  BY NoticeStep DEF TypeOK, QueueTypeOK, References, RunsExist
<1>2. NoJob \notin Job
  BY DEF NoJob, Job, JobStatus
<1>3. ASSUME NEW k \in Notices, NEW row \in Job, MadeNext(k),
             job' = [job EXCEPT ![k] = row], UNCHANGED <<tick, sent>>,
             asked' \in [Notices -> Nat]
      PROVE  Goal
  BY <1>1, <1>2, <1>3 DEF QueueTypeOK, HandsBack, Running
<1>4. ASSUME NEW k \in Notices, Asks(k)
      PROVE  Goal
  <2>1. Enqueued(job[k]) \in Job
    <3>1. job[k] # NoJob => job[k] \in Job
      BY JobFields
    <3>2. [status |-> "PENDING", attempts |-> 0] \in Job
      BY DEF Job, JobStatus, BoardAssumption
    <3> QED
      BY <3>1, <3>2 DEF Enqueued, NoJob
  <2>2. /\ job' = [job EXCEPT ![k] = Enqueued(job[k])] /\ UNCHANGED <<tick, sent>>
        /\ asked' \in [Notices -> Nat] /\ MadeNext(k)
    BY <1>1, <1>4 DEF Asks, FanOut
  <2> HIDE DEF Goal
  <2> QED
    BY <1>3, <2>1, <2>2
<1>5. ASSUME NEW k \in Notices, Reaps(k)
      PROVE  Goal
  <2> DEFINE row == [job[k] EXCEPT !.status = "PENDING"]
  <2>1. job[k] # NoJob
    BY <1>5, JobFields DEF Reaps, Reap, JobStatus
  <2>2. row \in Job /\ MadeNext(k)
    BY <1>1, <2>1, JobFields DEF JobStatus
  <2>3. /\ job' = [job EXCEPT ![k] = row] /\ UNCHANGED <<tick, sent>> /\ asked' \in [Notices -> Nat]
    BY <1>1, <1>5 DEF Reaps, Reap
  <2> HIDE DEF Goal, row
  <2> QED
    BY <1>3, <2>2, <2>3
<1>6. ASSUME NEW t \in Ticks, NEW k \in Notices, NEW row \in Job, NEW x \in Tick \cup {Resting},
             Drains(t, k, row, x)
      PROVE  Goal
  <2>1. Moves(t, k, row, x) /\ job[k] # NoJob /\ UNCHANGED asked
    BY <1>6 DEF Drains
  <2>2. sent' \in [Notices -> Nat]
    BY <1>1, <1>6 DEF Drains, Claims, GoesOn, Announces, Ends, Drops
  <2>3. x.step = "failing" => x.next \in {"PENDING", "FAILED"}
    BY <1>6 DEF Drains, Claims, GoesOn, Announces, Ends, Drops, Resting
  <2>4. HandsBack'
    BY <2>1, <2>3, OthersStand DEF HandsBack
  <2>5. QueueTypeOK'
    BY <2>1, OthersStand DEF QueueTypeOK
  <2>6. \A n \in Notices : job'[n] # NoJob => MadeNext(n)
    BY <1>1, <2>1, OthersStand
  <2>7. \A u \in Ticks, n \in Notices : Running(u, n)' => job'[n] # NoJob
    <3> SUFFICES ASSUME NEW u \in Ticks, NEW n \in Notices, Running(u, n)'
                 PROVE  job'[n] # NoJob
      OBVIOUS
    <3>1. CASE n = k
      BY <1>2, <2>1, <3>1, OthersStand
    <3>2. CASE n # k
      BY <1>1, <2>1, <3>2, OthersStand
    <3> QED
      BY <3>1, <3>2
  <2> QED
    BY <1>1, <2>1, <2>2, <2>4, <2>5, <2>6, <2>7
<1>7. ASSUME Dies
      PROVE  Goal
  <2>1. \A t \in Ticks : tick'[t] = Resting
    BY <1>7 DEF Dies
  <2>2. tick' \in [Ticks -> Tick \cup {Resting}]
    BY <1>7 DEF Dies
  <2>3. HandsBack' /\ \A t \in Ticks, n \in Notices : ~Running(t, n)'
    BY <2>1 DEF HandsBack, Running, Resting
  <2>4. QueueTypeOK'
    BY <1>1, <1>7, <2>2 DEF Dies, QueueTypeOK
  <2> QED
    BY <1>1, <1>7, <2>3, <2>4 DEF Dies
<1>8. ASSUME StaysOut
      PROVE  Goal
  <2>1. job' = job /\ tick' = tick /\ sent' = sent /\ asked' = asked
    BY <1>8 DEF StaysOut
  <2>2. HandsBack' /\ QueueTypeOK'
    BY <1>1, <2>1 DEF HandsBack, QueueTypeOK
  <2>3. \A t \in Ticks, n \in Notices : Running(t, n)' => Running(t, n)
    BY <2>1 DEF Running
  <2> QED
    BY <1>1, <2>1, <2>2, <2>3
<1> HIDE DEF Goal
<1>9. Goal
  BY <1>4, <1>5, <1>6, <1>7, <1>8, QueueStep
<1> QED
  BY <1>9 DEF Goal

\* faults only grows, and never past its bound.
LEMMA FaultsKept ==
  ASSUME BoardAssumption, TypeOK, [Next]_vars
  PROVE  faults' \in 0..MaxFaults
<1>1. faults \in 0..MaxFaults /\ MaxFaults \in Nat
  BY DEF TypeOK, BoardAssumption
<1>2. Fault => faults' \in 0..MaxFaults
  BY <1>1 DEF Fault
<1>3. UNCHANGED faults => faults' \in 0..MaxFaults
  BY <1>1
<1>4. UNCHANGED vars => UNCHANGED faults
  BY DEF vars
<1> QED
  BY <1>2, <1>3, <1>4
     DEF Next, Handler, SweepStep, TickStep, CreateNotice, BeginPublish, WritePublish,
         RequestFanOut, RequestFails, SweepBegins, SweepPublishes, SweepFansOut, SweepPublishFails,
         SweepTurns, SweepExpires, SweepExpireFails, ReadNotice, Announce, QueueCompletes,
         HandlerFails, QueueRetries, TickFails, QueueClaims, ReapOrphan, ReapRunning, Crash,
         PublishTimeComes, ExpiryTimeComes

\* Types, and the notices and jobs that requests, ticks and the sweep name.
LEMMA TypeStep ==
  ASSUME BoardAssumption, TypeOK, RunsExist, HandsBack, [Next]_vars
  PROVE  TypeOK' /\ RunsExist' /\ HandsBack'
<1>1. sweep'.step \in {"each", "fanOut"} => \A n \in sweep'.due : MadeNext(n)
  BY SweepKept
<1>2. References'
  BY <1>1, RequestStep, QueueKept DEF References, Made, MadeNext
<1>3. RunsExist'
  BY SweepKept, QueueKept DEF RunsExist, Made, MadeNext
<1> QED
  BY <1>2, <1>3, NoticeStep, RequestStep, SweepKept, QueueKept, FaultsKept DEF TypeOK

-----------------------------------------------------------------------------
(* Without a fault, one tick runs a job, and has claimed it *)

\* A claim is of a PENDING row, which nobody runs; a tick that ends leaves nobody
\* behind; a handler that keeps its claim is never reaped.
LEMMA ClaimStep ==
  ASSUME BoardAssumption, BoardInv, [Next]_vars
  PROVE  RunsAreClaimed' /\ OneRunner'
<1> USE DEF BoardInv
<1> DEFINE Goal == RunsAreClaimed' /\ OneRunner'
<1>1. CASE faults' # 0
  BY <1>1 DEF RunsAreClaimed, OneRunner
<1>2. (faults \in Nat /\ ~Dies) \/ faults' # 0
  BY DEF TypeOK, Dies, BoardAssumption
<1>3. ASSUME faults = 0
      PROVE  /\ \A t \in Ticks, n \in Notices : Running(t, n) => job[n].status = "PROCESSING"
             /\ \A n \in Notices, t1, t2 \in Ticks : Running(t1, n) /\ Running(t2, n) => t1 = t2
  BY <1>3 DEF RunsAreClaimed, OneRunner
<1>4. ASSUME UNCHANGED tick, faults = 0,
             \A t \in Ticks, n \in Notices : Running(t, n) => job'[n].status = "PROCESSING"
      PROVE  Goal
  BY <1>3, <1>4 DEF RunsAreClaimed, OneRunner, Running
<1>5. ASSUME StaysOut, faults' = 0
      PROVE  Goal
  <2>1. faults = 0 /\ job' = job
    BY <1>2, <1>5 DEF StaysOut
  <2> HIDE DEF Goal
  <2> QED
    BY <1>3, <1>4, <1>5, <2>1 DEF StaysOut
<1>6. ASSUME NEW k \in Notices, Asks(k), faults' = 0
      PROVE  Goal
  <2>1. faults = 0 /\ UNCHANGED tick /\ job' = [job EXCEPT ![k] = Enqueued(job[k])]
    BY <1>6 DEF Asks, FanOut
  <2>2. ASSUME NEW t \in Ticks, NEW n \in Notices, Running(t, n)
        PROVE  job'[n].status = "PROCESSING"
    <3>1. job[n].status = "PROCESSING"
      BY <1>3, <2>1, <2>2
    <3>2. Enqueued(job[n]) = job[n]
      BY <3>1 DEF Enqueued
    <3> QED
      BY <2>1, <3>1, <3>2 DEF TypeOK, QueueTypeOK
  <2> HIDE DEF Goal
  <2> QED
    BY <1>4, <2>1, <2>2
<1>7. ASSUME NEW k \in Notices, Reaps(k), faults' = 0
      PROVE  Goal
  <2>1. Orphaned(k) /\ faults = 0
    BY <1>2, <1>7 DEF Reaps
  <2>2. UNCHANGED tick /\ \A n \in Notices : n # k => job'[n] = job[n]
    BY <1>7 DEF Reaps, Reap, TypeOK, QueueTypeOK
  <2>3. \A t \in Ticks : ~Running(t, k)
    BY <2>1 DEF Orphaned
  <2> HIDE DEF Goal
  <2> QED
    BY <1>3, <1>4, <2>1, <2>2, <2>3
<1>8. ASSUME NEW t \in Ticks, NEW k \in Notices, NEW row \in Job, NEW x \in Tick \cup {Resting},
             Drains(t, k, row, x), faults' = 0
      PROVE  Goal
  <2>1. Moves(t, k, row, x) /\ faults = 0
    BY <1>2, <1>8 DEF Drains, Claims, GoesOn, Announces, Ends, Drops
  <2>2. \A u \in Ticks : Running(u, k)' /\ u # t => Running(u, k)
    BY <2>1, OthersStand
  <2>3. \A u \in Ticks, n \in Notices : n # k => (Running(u, n)' <=> Running(u, n))
    BY <2>1, OthersStand
  <2>4. \A n \in Notices : n # k => job'[n] = job[n]
    BY <2>1, OthersStand
  <2>5. job'[k] = row /\ (Running(t, k)' <=> x # Resting)
    BY <2>1, OthersStand
  <2>6. tick[t] # Resting => Running(t, k)
    BY <2>1, TickFields DEF Moves
  <2>7. \A u \in Ticks : Running(u, k)' => row.status = "PROCESSING" /\ u = t
    <3>1. CASE Claims(t, k, row, x)
      <4>1. \A u \in Ticks : ~Running(u, k)
        BY <1>3, <2>1, <3>1 DEF Claims
      <4> QED
        BY <2>2, <3>1, <4>1 DEF Claims
    <3>2. CASE tick[t] # Resting /\ job[k] = row
      BY <1>3, <2>1, <2>2, <2>6, <3>2
    <3>3. CASE Ends(t, k, row, x)
      BY <1>3, <2>1, <2>2, <2>5, <2>6, <3>3 DEF Ends
    <3> QED
      BY <1>8, <3>1, <3>2, <3>3 DEF Drains, GoesOn, Announces, Drops, Resting
  <2> QED
    BY <1>3, <2>1, <2>3, <2>4, <2>5, <2>7 DEF RunsAreClaimed, OneRunner
<1> HIDE DEF Goal
<1>9. RunsAreClaimed' /\ OneRunner' <=> Goal
  BY DEF Goal
<1> QED
  BY <1>1, <1>2, <1>5, <1>6, <1>7, <1>8, <1>9, QueueStep

-----------------------------------------------------------------------------
(* Every announcement, made or owed, was asked for or is due to a fault *)

\* The ticks that owe something are finitely many.
LEMMA OwingType ==
  ASSUME BoardAssumption, NEW n \in Notices
  PROVE  /\ IsFiniteSet(Owing(n)) /\ Cardinality(Owing(n)) \in Nat
         /\ IsFiniteSet(Owing(n)') /\ Cardinality(Owing(n)') \in Nat
<1>1. Owing(n) \subseteq Ticks /\ Owing(n)' \subseteq Ticks /\ IsFiniteSet(Ticks)
  BY DEF Owing, BoardAssumption
<1> QED
  BY <1>1, FS_Subset, FS_CardinalityType

\* How many owe something, when only one tick may start or stop to.
LEMMA OneMoreOrLess ==
  ASSUME NEW S, NEW T, NEW t, IsFiniteSet(S), IsFiniteSet(T), S \ {t} = T \ {t}
  PROVE  /\ (t \in S <=> t \in T) => Cardinality(T) = Cardinality(S)
         /\ t \notin S /\ t \in T => Cardinality(T) = Cardinality(S) + 1
         /\ t \in S /\ t \notin T => Cardinality(T) = Cardinality(S) - 1
<1>1. (t \in S <=> t \in T) => S = T
  OBVIOUS
<1>2. t \notin S /\ t \in T => T = S \cup {t}
  OBVIOUS
<1>3. t \in S /\ t \notin T => T = S \ {t}
  OBVIOUS
<1> QED
  BY <1>1, <1>2, <1>3, FS_AddElement, FS_RemoveElement

\* What one tick does is accounted for at its own notice, and nowhere else.
LEMMA AccountedAfterATick ==
  ASSUME BoardAssumption, BoardInv, NEW t \in Ticks, NEW k \in Notices, NEW row \in Job,
         NEW x \in Tick \cup {Resting}, Drains(t, k, row, x), NEW n \in Notices
  PROVE  sent'[n] + Waits(n)' + Cardinality(Owing(n)') <= asked'[n] + faults'
<1> USE DEF BoardInv
<1>1. /\ sent \in [Notices -> Nat] /\ asked \in [Notices -> Nat] /\ faults \in Nat
      /\ Waits(n) \in {0, 1} /\ Waits(n)' \in {0, 1}
      /\ Cardinality(Owing(n)) \in Nat /\ Cardinality(Owing(n)') \in Nat
      /\ sent[n] + Waits(n) + Cardinality(Owing(n)) <= asked[n] + faults
  BY OwingType DEF TypeOK, OwedIsAccounted, Waits
<1>2. Moves(t, k, row, x) /\ UNCHANGED asked /\ faults' \in {faults, faults + 1}
  BY DEF Drains, Claims, GoesOn, Announces, Ends, Drops
<1>3. CASE n # k
  <2>1. \A u \in Ticks : Running(u, n)' <=> Running(u, n)
    BY <1>2, <1>3, OthersStand
  <2>2. job'[n] = job[n]
    BY <1>2, <1>3, OthersStand
  <2>3. Waits(n)' = Waits(n)
    BY <2>1, <2>2 DEF Waits, Orphaned
  <2>4. \A u \in Ticks : Running(u, n) => u # t
    BY <1>2, <1>3 DEF Moves, Running, Resting
  <2>5. \A u \in Ticks : Running(u, n) => tick'[u] = tick[u]
    BY <1>2, <2>4, OthersStand
  <2>6. Owing(n)' = Owing(n)
    BY <2>1, <2>5 DEF Owing
  <2>7. sent'[n] = sent[n]
    BY <1>1, <1>3 DEF Drains, Claims, GoesOn, Announces, Ends, Drops
  <2> QED
    BY <1>1, <1>2, <2>3, <2>6, <2>7
<1>4. CASE n = k
  <2>1. /\ job'[n] = row /\ tick'[t] = x /\ (Running(t, n)' <=> x # Resting)
        /\ \A u \in Ticks : u # t => (Running(u, n)' <=> Running(u, n)) /\ tick'[u] = tick[u]
    BY <1>2, <1>4, OthersStand
  <2>2. tick[t] # Resting <=> Running(t, n)
    BY <1>2, <1>4, TickFields DEF Moves
  <2>3. x # Resting => x.step \in {"run", "failing"}
    BY DEF Tick
  <2>4. t \in Owing(n) <=> tick[t] # Resting /\ Owes(tick[t])
    BY <2>2, TickFields DEF Owing, Owes
  <2>5. t \in Owing(n)' <=> x # Resting /\ Owes(x)
    BY <2>1, <2>3 DEF Owing, Owes
  <2>6. Owing(n) \ {t} = Owing(n)' \ {t}
    BY <2>1 DEF Owing
  <2>7. /\ (t \in Owing(n) <=> t \in Owing(n)')
             => Cardinality(Owing(n)') = Cardinality(Owing(n))
        /\ t \notin Owing(n) /\ t \in Owing(n)' => Cardinality(Owing(n)') = Cardinality(Owing(n)) + 1
        /\ t \in Owing(n) /\ t \notin Owing(n)' => Cardinality(Owing(n)') = Cardinality(Owing(n)) - 1
    BY <2>6, OwingType, OneMoreOrLess
  <2>8. CASE Claims(t, k, row, x)
    <3>1. Waits(n) = 1
      BY <1>4, <2>8 DEF Claims, Waits
    <3>2. Waits(n)' = 0
      BY <2>1, <2>8 DEF Claims, Waits, Orphaned, Resting
    <3>3. sent' = sent /\ faults' = faults /\ t \notin Owing(n)
      BY <2>4, <2>8 DEF Claims
    <3> QED
      BY <1>1, <1>2, <2>7, <3>1, <3>2, <3>3
  <2>9. ASSUME tick[t] # Resting, x # Resting, row = job[k]
        PROVE  Waits(n)' = Waits(n)
    BY <1>4, <2>1, <2>2, <2>9 DEF Waits, Orphaned
  <2>10. CASE GoesOn(t, k, row, x)
    <3>1. Waits(n)' = Waits(n) /\ sent' = sent
      BY <2>9, <2>10 DEF GoesOn, Resting
    <3>2. t \in Owing(n) \/ faults' = faults + 1
      BY <2>4, <2>10 DEF GoesOn, Owes, Resting
    <3> QED
      BY <1>1, <1>2, <2>7, <3>1, <3>2
  <2>11. CASE Announces(t, k, row, x)
    <3>1. Waits(n)' = Waits(n) /\ faults' = faults /\ sent'[n] = sent[n] + 1
      BY <1>1, <1>4, <2>9, <2>11 DEF Announces, Resting
    <3>2. t \in Owing(n) /\ t \notin Owing(n)'
      BY <2>4, <2>5, <2>11 DEF Announces, Owes, Resting
    <3> QED
      BY <1>1, <1>2, <2>7, <3>1, <3>2
  <2>12. CASE Ends(t, k, row, x)
    <3>1. sent' = sent /\ faults' = faults /\ t \notin Owing(n)'
      BY <2>5, <2>12 DEF Ends
    <3>2. Waits(n)' = 0 \/ t \in Owing(n)
      BY <2>1, <2>4, <2>12 DEF Ends, Waits
    <3> QED
      BY <1>1, <1>2, <2>7, <3>1, <3>2
  <2>13. CASE Drops(t, k, row, x)
    <3>1. sent' = sent /\ faults' = faults + 1 /\ t \notin Owing(n)'
      BY <2>5, <2>13 DEF Drops
    <3> QED
      BY <1>1, <1>2, <2>7, <3>1
  <2> QED
    BY <2>8, <2>10, <2>11, <2>12, <2>13 DEF Drains
<1> QED
  BY <1>3, <1>4

\* Enqueueing is paid for, a claim and an announcement pass the debt on, and a job
\* that comes back to life for another reason does so by a fault.
LEMMA AccountedStep ==
  ASSUME BoardAssumption, BoardInv, [Next]_vars
  PROVE  OwedIsAccounted'
<1> USE DEF BoardInv
<1> SUFFICES ASSUME NEW n \in Notices
             PROVE  sent'[n] + Waits(n)' + Cardinality(Owing(n)') <= asked'[n] + faults'
  BY DEF OwedIsAccounted
<1> DEFINE Goal == sent'[n] + Waits(n)' + Cardinality(Owing(n)') <= asked'[n] + faults'
<1>1. /\ sent \in [Notices -> Nat] /\ asked \in [Notices -> Nat] /\ faults \in Nat
      /\ Waits(n) \in {0, 1} /\ Waits(n)' \in {0, 1}
      /\ Cardinality(Owing(n)) \in Nat /\ Cardinality(Owing(n)') \in Nat
      /\ sent[n] + Waits(n) + Cardinality(Owing(n)) <= asked[n] + faults
      /\ job \in [Notices -> Job \cup {NoJob}]
  BY OwingType DEF TypeOK, QueueTypeOK, OwedIsAccounted, Waits
<1>2. UNCHANGED tick => Owing(n)' = Owing(n) /\ (Orphaned(n)' <=> Orphaned(n))
  BY DEF Owing, Orphaned, Running
<1>3. ASSUME NEW k \in Notices, Asks(k)
      PROVE  Goal
  <2>1. /\ UNCHANGED <<tick, sent, faults>> /\ job' = [job EXCEPT ![k] = Enqueued(job[k])]
        /\ asked' = [asked EXCEPT ![k] = @ + 1]
    BY <1>3 DEF Asks, FanOut
  <2>2. Waits(n)' <= Waits(n) + (asked'[n] - asked[n]) /\ asked'[n] \in Nat
    <3>1. CASE n = k
      BY <1>1, <2>1, <3>1
    <3>2. CASE n # k
      <4>1. Waits(n)' = Waits(n)
        BY <1>1, <1>2, <2>1, <3>2 DEF Waits
      <4> QED
        BY <1>1, <2>1, <3>2, <4>1
    <3> QED
      BY <3>1, <3>2
  <2> QED
    BY <1>1, <1>2, <2>1, <2>2
<1>4. ASSUME NEW k \in Notices, Reaps(k)
      PROVE  Goal
  <2>1. /\ UNCHANGED <<tick, sent, asked>> /\ faults' = IF Orphaned(k) THEN faults ELSE faults + 1
        /\ job[k].status = "PROCESSING"
        /\ \A m \in Notices : m # k => job'[m] = job[m]
    BY <1>1, <1>4 DEF Reaps, Reap
  <2>2. Waits(n)' <= Waits(n) + (faults' - faults) /\ faults' \in Nat
    <3>1. CASE n = k /\ Orphaned(k)
      <4>1. Waits(n) = 1
        BY <2>1, <3>1 DEF Waits
      <4> QED
        BY <1>1, <2>1, <3>1, <4>1
    <3>2. CASE n = k /\ ~Orphaned(k)
      BY <1>1, <2>1, <3>2
    <3>3. CASE n # k
      <4>1. Waits(n)' = Waits(n)
        BY <1>2, <2>1, <3>3 DEF Waits
      <4> QED
        BY <1>1, <2>1, <4>1
    <3> QED
      BY <3>1, <3>2, <3>3
  <2> QED
    BY <1>1, <1>2, <2>1, <2>2
<1>5. ASSUME Dies
      PROVE  Goal
  <2>1. Owing(n)' = {} /\ faults' = faults + 1 /\ UNCHANGED <<sent, asked>>
    BY <1>5 DEF Dies, Owing, Running, Resting
  <2>2. Cardinality(Owing(n)') = 0
    BY <2>1, FS_EmptySet
  <2> QED
    BY <1>1, <2>1, <2>2
<1>6. ASSUME StaysOut
      PROVE  Goal
  <2>1. Waits(n)' = Waits(n)
    BY <1>2, <1>6 DEF StaysOut, Waits
  <2> QED
    BY <1>1, <1>2, <1>6, <2>1 DEF StaysOut
<1>7. ASSUME NEW t \in Ticks, NEW k \in Notices, NEW row \in Job, NEW x \in Tick \cup {Resting},
             Drains(t, k, row, x)
      PROVE  Goal
  BY <1>7, AccountedAfterATick
<1> HIDE DEF Goal
<1>8. Goal
  BY <1>3, <1>4, <1>5, <1>6, <1>7, QueueStep
<1> QED
  BY <1>8 DEF Goal

-----------------------------------------------------------------------------
(* The invariant, and what follows from it *)

\* The invariant holds at first.
LEMMA InitInv ==
  ASSUME BoardAssumption, Init
  PROVE  BoardInv
<1>1. TypeOK
  BY DEF Init, QueueInit, TypeOK, QueueTypeOK, References, Made, Sweep, BoardAssumption
<1>2. \A t \in Ticks, n \in Notices : ~Running(t, n)
  BY DEF Init, QueueInit, Running, Resting
<1>3. RunsExist /\ HandsBack /\ RunsAreClaimed /\ OneRunner
  BY <1>2 DEF RunsExist, HandsBack, RunsAreClaimed, OneRunner, Init, QueueInit, Resting
<1>4. ASSUME NEW n \in Notices
      PROVE  sent[n] + Waits(n) + Cardinality(Owing(n)) <= asked[n] + faults
  <2>1. Owing(n) = {} /\ Waits(n) = 0
    BY <1>2 DEF Owing, Waits, Init, QueueInit, NoJob
  <2>2. Cardinality(Owing(n)) = 0
    BY <2>1, FS_EmptySet
  <2> QED
    BY <2>1, <2>2 DEF Init
<1> QED
  BY <1>1, <1>3, <1>4 DEF BoardInv, OwedIsAccounted

\* The invariant is inductive.
LEMMA Inductive == Spec => []BoardInv
<1>1. BoardAssumption /\ Init => BoardInv
  BY InitInv
<1>2. BoardAssumption /\ BoardInv /\ [Next]_vars => BoardInv'
  BY TypeStep, ClaimStep, AccountedStep DEF BoardInv
<1> QED
  BY <1>1, <1>2, BoardAssumption, PTL DEF Spec

\* Every variable keeps its type, and no job, request or sweep names a notice that
\* does not exist.
THEOREM TypeCorrect == Spec => []TypeOK
<1>1. BoardInv => TypeOK
  BY DEF BoardInv
<1> QED
  BY <1>1, Inductive, PTL

\* As long as nothing fails no two ticks run the same job, however many ticks
\* overlap and however often a notice is fanned out.
THEOREM OneRunnerUnlessFault == Spec => []OneRunner
<1>1. BoardInv => OneRunner
  BY DEF BoardInv
<1> QED
  BY <1>1, Inductive, PTL

\* A notice is announced at most once for each time its fan-out was asked for and
\* each fault: neither overlapping ticks nor reaped claims nor retries add to it.
THEOREM AnnouncementsAreAccounted == Spec => []AnnouncedIsAccounted
<1>1. BoardAssumption /\ BoardInv => AnnouncedIsAccounted
  <2> SUFFICES ASSUME BoardAssumption, BoardInv, NEW n \in Notices
               PROVE  sent[n] <= asked[n] + faults
    BY DEF AnnouncedIsAccounted
  <2>1. /\ sent \in [Notices -> Nat] /\ asked \in [Notices -> Nat] /\ faults \in Nat
        /\ Waits(n) \in {0, 1} /\ Cardinality(Owing(n)) \in Nat
        /\ sent[n] + Waits(n) + Cardinality(Owing(n)) <= asked[n] + faults
    BY OwingType DEF BoardInv, TypeOK, OwedIsAccounted, Waits
  <2> QED
    BY <2>1
<1> QED
  BY <1>1, Inductive, BoardAssumption, PTL
=============================================================================
