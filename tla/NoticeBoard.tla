---------------------------- MODULE NoticeBoard ----------------------------
(***************************************************************************)
(* Notices and their announcement: NoticesService, the in-process sweep of *)
(* NoticePublishJob, and the fan-out jobs that travel through DbQueue, one *)
(* per notice, to the handler that writes the notifications.               *)
(*                                                                         *)
(* faults counts what should be rare: the process dies, a statement fails  *)
(* where nothing will repeat it, or a handler outlives its claim.  The     *)
(* audience is resolved by the handler, which throws for a target that     *)
(* names none; one createMany notifies everyone in it.                     *)
(***************************************************************************)
EXTENDS Naturals, FiniteSets

CONSTANTS
  Notices,
  Workers,       \* HTTP requests in progress at once
  Ticks,         \* ticks of the queue in progress at once
  MaxAttempts,   \* maxAttempts of a QueueJob
  MaxFaults      \* bound on faults

ASSUME BoardAssumption ==
  /\ IsFiniteSet(Ticks)
  /\ MaxAttempts \in Nat \ {0}
  /\ MaxFaults \in Nat

VARIABLES
  notice,    \* Notice rows
  job,       \* the fan-out job of each notice
  tick,      \* what each tick of the queue is doing
  req,       \* the handler each worker is running
  sweep,     \* the notice sweep
  sent,      \* how often each notice was announced: createMany of Notification
  asked,     \* history: how often its fan-out was enqueued
  faults     \* history

queueVars == <<job, tick>>
vars == <<notice, queueVars, req, sweep, sent, asked, faults>>

INSTANCE DbQueue WITH Keys <- Notices, Progress <- {"read", "send", "done"}, Start <- "read"

-----------------------------------------------------------------------------
Clock == {"ahead", "past"}

Notice ==
  [status : {"SCHEDULED", "PUBLISHED", "EXPIRED"},   \* DRAFT is never written
   publishAt : Clock, expiresAt : Clock \cup {"never"}]

NoNotice == [status |-> "ABSENT", publishAt |-> "ahead", expiresAt |-> "never"]

Request == [op : {"publish", "fanOut"}, notice : Notices]

Idle == [op |-> "idle"]

Sweep ==
       [step : {"asleep", "expire"}]
  \cup [step : {"each"}, due : SUBSET Notices]
  \cup [step : {"fanOut"}, due : SUBSET Notices, notice : Notices]

Made(n) == notice[n].status # "ABSENT"

Fault == faults < MaxFaults /\ faults' = faults + 1

Init ==
  /\ notice = [n \in Notices |-> NoNotice]
  /\ QueueInit
  /\ req = [w \in Workers |-> Idle]
  /\ sweep = [step |-> "asleep"]
  /\ sent = [n \in Notices |-> 0]
  /\ asked = [n \in Notices |-> 0]
  /\ faults = 0

\* fanOut: the dedupe key is the notice's.
FanOut(n) ==
  /\ job' = [job EXCEPT ![n] = Enqueued(@)]
  /\ asked' = [asked EXCEPT ![n] = @ + 1]
  /\ UNCHANGED tick

-----------------------------------------------------------------------------
(* create, publishNow *)

CreateNotice(w, n, publishAt, expiresAt) ==
  /\ req[w] = Idle
  /\ ~Made(n)
  /\ notice' = [notice EXCEPT ![n] =
                  [status |-> IF publishAt = "past" THEN "PUBLISHED" ELSE "SCHEDULED",
                   publishAt |-> publishAt, expiresAt |-> expiresAt]]
  /\ req' = IF publishAt = "past"
            THEN [req EXCEPT ![w] = [op |-> "fanOut", notice |-> n]] ELSE req
  /\ UNCHANGED <<queueVars, sweep, sent, asked, faults>>

BeginPublish(w, n) ==
  /\ req[w] = Idle
  /\ notice[n].status = "SCHEDULED"
  /\ req' = [req EXCEPT ![w] = [op |-> "publish", notice |-> n]]
  /\ UNCHANGED <<notice, queueVars, sweep, sent, asked, faults>>

WritePublish(w) ==
  /\ req[w].op = "publish"
  /\ notice' = [notice EXCEPT ![req[w].notice].status = "PUBLISHED",
                              ![req[w].notice].publishAt = "past"]
  /\ req' = [req EXCEPT ![w].op = "fanOut"]
  /\ UNCHANGED <<queueVars, sweep, sent, asked, faults>>

RequestFanOut(w) ==
  /\ req[w].op = "fanOut"
  /\ FanOut(req[w].notice)
  /\ req' = [req EXCEPT ![w] = Idle]
  /\ UNCHANGED <<notice, sweep, sent, faults>>

\* A statement of the handler fails; before the status is written no harm is done.
RequestFails(w) ==
  /\ req[w] # Idle
  /\ IF req[w].op = "fanOut" THEN Fault ELSE UNCHANGED faults
  /\ req' = [req EXCEPT ![w] = Idle]
  /\ UNCHANGED <<notice, queueVars, sweep, sent, asked>>

-----------------------------------------------------------------------------
(* NoticePublishJob: scheduledPublishSweep, then expireSweep *)

Due(n) == notice[n].status = "SCHEDULED" /\ notice[n].publishAt = "past"

\* In the instances checked the batch of 50 never fills.
SweepBegins ==
  /\ sweep.step = "asleep"
  /\ sweep' = [step |-> "each", due |-> {n \in Notices : Due(n)}]
  /\ UNCHANGED <<notice, queueVars, req, sent, asked, faults>>

SweepPublishes(n) ==
  /\ sweep.step = "each"
  /\ n \in sweep.due
  /\ notice' = [notice EXCEPT ![n].status = "PUBLISHED"]
  /\ sweep' = [step |-> "fanOut", due |-> sweep.due \ {n}, notice |-> n]
  /\ UNCHANGED <<queueVars, req, sent, asked, faults>>

SweepFansOut_Not ==
  /\ sweep.step = "fanOut"
  /\ sweep' = [step |-> "each", due |-> sweep.due]
  /\ UNCHANGED <<notice, queueVars, req, sent, asked, faults>>

SweepFansOut ==
  /\ sweep.step = "fanOut"
  /\ FanOut(sweep.notice)
  /\ sweep' = [step |-> "each", due |-> sweep.due]
  /\ UNCHANGED <<notice, req, sent, faults>>

\* A publish statement fails: what is left of the batch waits for the next tick.
SweepPublishFails ==
  /\ sweep.step \in {"each", "fanOut"}
  /\ IF sweep.step = "fanOut" THEN Fault ELSE UNCHANGED faults
  /\ sweep' = [step |-> "expire"]
  /\ UNCHANGED <<notice, queueVars, req, sent, asked>>

SweepTurns ==
  /\ sweep = [step |-> "each", due |-> {}]
  /\ sweep' = [step |-> "expire"]
  /\ UNCHANGED <<notice, queueVars, req, sent, asked, faults>>

Expired(row) == row.status = "PUBLISHED" /\ row.expiresAt = "past"

SweepExpires_Deletes ==
  /\ sweep.step = "expire"
  /\ notice' = [n \in Notices |-> IF Expired(notice[n]) THEN NoNotice ELSE notice[n]]
  /\ sweep' = [step |-> "asleep"]
  /\ UNCHANGED <<queueVars, req, sent, asked, faults>>

SweepExpires ==
  /\ sweep.step = "expire"
  /\ notice' = [n \in Notices |->
                  IF Expired(notice[n]) THEN [notice[n] EXCEPT !.status = "EXPIRED"]
                  ELSE notice[n]]
  /\ sweep' = [step |-> "asleep"]
  /\ UNCHANGED <<queueVars, req, sent, asked, faults>>

SweepExpireFails ==
  /\ sweep.step = "expire"
  /\ sweep' = [step |-> "asleep"]
  /\ UNCHANGED <<notice, queueVars, req, sent, asked, faults>>

-----------------------------------------------------------------------------
(* The queue, and deliverFanout as its handler *)

QueueClaims(t, n) ==
  /\ Claim(t, n)
  /\ UNCHANGED <<notice, req, sweep, sent, asked, faults>>

\* A notice that is not live is not announced; the job is done all the same.
ReadNotice(t) ==
  /\ tick[t].step = "run" /\ tick[t].at = "read"
  /\ tick' = [tick EXCEPT ![t].at =
                IF notice[tick[t].key].status = "PUBLISHED" THEN "send" ELSE "done"]
  /\ UNCHANGED <<notice, job, req, sweep, sent, asked, faults>>

Announce(t) ==
  /\ tick[t].step = "run" /\ tick[t].at = "send"
  /\ sent' = [sent EXCEPT ![tick[t].key] = @ + 1]
  /\ tick' = [tick EXCEPT ![t].at = "done"]
  /\ UNCHANGED <<notice, job, req, sweep, asked, faults>>

QueueCompletes(t) ==
  /\ tick[t].step = "run" /\ tick[t].at = "done"
  /\ Complete(t)
  /\ UNCHANGED <<notice, req, sweep, sent, asked, faults>>

\* The handler throws, each time for an audience it cannot resolve, or the update
\* to DONE does.
HandlerFails(t) ==
  /\ ReadFailed(t)
  /\ IF tick[t].at = "done" THEN Fault ELSE UNCHANGED faults
  /\ UNCHANGED <<notice, req, sweep, sent, asked>>

QueueRetries(t) ==
  /\ WriteFailed(t)
  /\ UNCHANGED <<notice, req, sweep, sent, asked, faults>>

Orphaned(n) == \A t \in Ticks : ~Running(t, n)

ReapOrphan(n) ==
  /\ Orphaned(n)
  /\ Reap(n)
  /\ UNCHANGED <<notice, req, sweep, sent, asked, faults>>

\* A handler that takes longer than 120 seconds loses its claim but goes on.
ReapRunning(n) ==
  /\ ~Orphaned(n)
  /\ Reap(n)
  /\ Fault
  /\ UNCHANGED <<notice, req, sweep, sent, asked>>

TickFails(t) ==
  /\ Abandon(t)
  /\ Fault
  /\ UNCHANGED <<notice, req, sweep, sent, asked>>

\* The one api process dies and is restarted.
Crash ==
  /\ tick' = [t \in Ticks |-> Resting]
  /\ req' = [w \in Workers |-> Idle]
  /\ sweep' = [step |-> "asleep"]
  /\ Fault
  /\ UNCHANGED <<notice, job, sent, asked>>

PublishTimeComes(n) ==
  /\ notice[n].status = "SCHEDULED" /\ notice[n].publishAt = "ahead"
  /\ notice' = [notice EXCEPT ![n].publishAt = "past"]
  /\ UNCHANGED <<queueVars, req, sweep, sent, asked, faults>>

ExpiryTimeComes(n) ==
  /\ Made(n) /\ notice[n].expiresAt = "ahead"
  /\ notice' = [notice EXCEPT ![n].expiresAt = "past"]
  /\ UNCHANGED <<queueVars, req, sweep, sent, asked, faults>>

-----------------------------------------------------------------------------
Handler(w) ==
  \/ \E n \in Notices :
       \/ \E publishAt \in Clock, expiresAt \in Clock \cup {"never"} :
            CreateNotice(w, n, publishAt, expiresAt)
       \/ BeginPublish(w, n)
  \/ WritePublish(w)
  \/ RequestFanOut(w)
  \/ RequestFails(w)

SweepStep ==
  \/ SweepBegins
  \/ \E n \in Notices : SweepPublishes(n)
  \/ SweepFansOut
  \/ SweepPublishFails
  \/ SweepTurns
  \/ SweepExpires
  \/ SweepExpireFails

TickStep(t) ==
  \/ ReadNotice(t)
  \/ Announce(t)
  \/ QueueCompletes(t)
  \/ HandlerFails(t)
  \/ QueueRetries(t)

Next ==
  \/ \E w \in Workers : Handler(w)
  \/ SweepStep
  \/ \E t \in Ticks : TickStep(t) \/ TickFails(t) \/ \E n \in Notices : QueueClaims(t, n)
  \/ \E n \in Notices :
       ReapOrphan(n) \/ ReapRunning(n) \/ PublishTimeComes(n) \/ ExpiryTimeComes(n)
  \/ Crash

Spec == Init /\ [][Next]_vars

\* setInterval keeps starting ticks, the oldest due job is claimed first, stale
\* claims are reaped, what has begun goes on, and expireSweep does not fail every
\* time; those who publish, and time, owe nothing.
Fairness ==
  /\ \A w \in Workers : WF_vars(WritePublish(w) \/ RequestFanOut(w) \/ RequestFails(w))
  /\ WF_vars(SweepStep) /\ SF_vars(SweepExpires)
  /\ \A t \in Ticks : WF_vars(TickStep(t))
  /\ \A n \in Notices : /\ SF_vars(\E t \in Ticks : QueueClaims(t, n))
                        /\ WF_vars(ReapOrphan(n))

FairSpec == Spec /\ Fairness

-----------------------------------------------------------------------------
(* Properties *)

\* A job, a request and the sweep only name notices that exist.
References ==
  /\ \A n \in Notices : job[n] # NoJob => Made(n)
  /\ \A w \in Workers : req[w] # Idle => Made(req[w].notice)
  /\ sweep.step \in {"each", "fanOut"} => \A n \in sweep.due : Made(n)

\* Every variable has its type, and nothing is announced that does not exist.
TypeOK ==
  /\ notice \in [Notices -> Notice \cup {NoNotice}]
  /\ QueueTypeOK
  /\ req \in [Workers -> Request \cup {Idle}]
  /\ sweep \in Sweep
  /\ sent \in [Notices -> Nat]
  /\ asked \in [Notices -> Nat]
  /\ faults \in 0..MaxFaults
  /\ References

\* A notice is announced at most once for each time its fan-out was asked for and
\* each fault: dedupe and claims add no announcements of their own.
AnnouncedIsAccounted == \A n \in Notices : sent[n] <= asked[n] + faults

\* Without a fault, no two ticks ever run the same job.
OneRunner ==
  faults = 0 =>
    \A n \in Notices, t1, t2 \in Ticks : Running(t1, n) /\ Running(t2, n) => t1 = t2

\* The notice the sweep is announcing exists, and a tick runs a job that does.
RunsExist ==
  /\ sweep.step = "fanOut" => Made(sweep.notice)
  /\ \A t \in Ticks, n \in Notices : Running(t, n) => job[n] # NoJob

\* A handler that threw has its job put back or given up.
HandsBack == \A t \in Ticks : tick[t].step = "failing" => tick[t].next \in {"PENDING", "FAILED"}

\* Until something goes wrong, what a tick runs is claimed.
RunsAreClaimed ==
  faults = 0 => \A t \in Ticks, n \in Notices : Running(t, n) => job[n].status = "PROCESSING"

\* The ticks that may still announce a notice, or hand its job back.
Owing(n) ==
  {t \in Ticks : /\ Running(t, n)
                 /\ IF tick[t].step = "run" THEN tick[t].at # "done"
                    ELSE tick[t].next = "PENDING"}

\* The job waits to be claimed, or to be reaped first.
Waits(n) ==
  IF job[n].status = "PENDING" \/ (job[n].status = "PROCESSING" /\ Orphaned(n))
  THEN 1 ELSE 0

\* Every announcement, made or still owed, was asked for or is due to a fault.
OwedIsAccounted ==
  \A n \in Notices : sent[n] + Waits(n) + Cardinality(Owing(n)) <= asked[n] + faults

\* The inductive invariant behind the theorems of NoticeBoardProofs.
BoardInv ==
  /\ TypeOK
  /\ RunsExist
  /\ HandsBack
  /\ RunsAreClaimed
  /\ OneRunner
  /\ OwedIsAccounted

\* Without a fault, a notice that goes live is announced, unless it expires first
\* or its handler used up its attempts.
PublishedIsAnnounced ==
  \A n \in Notices :
     notice[n].status = "PUBLISHED" ~>
        \/ sent[n] > 0
        \/ notice[n].status # "PUBLISHED"
        \/ job[n].status = "FAILED"
        \/ faults > 0

\* Faults or not, a job once enqueued is run to its end: its notice is announced,
\* found not live, or given up.
EnqueuedIsAnnounced ==
  \A n \in Notices :
     job[n].status = "PENDING" ~>
        \/ sent[n] > 0
        \/ notice[n].status # "PUBLISHED"
        \/ job[n].status = "FAILED"
=============================================================================
