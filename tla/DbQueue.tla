------------------------------ MODULE DbQueue ------------------------------
(***************************************************************************)
(* One queue of DbQueueDriver: QueueJob rows, one per dedupe key, and the  *)
(* ticks that drain it.  setInterval starts a tick every 1.5 s whether or  *)
(* not the last one ended, so several run at once.  A module that uses the *)
(* queue says what a handler does between Claim and Complete.              *)
(*                                                                         *)
(* runAt is left out: a back-off only delays a claim, so any PENDING job   *)
(* may be the next one due.                                                *)
(***************************************************************************)
EXTENDS Naturals

CONSTANTS
  Keys,          \* dedupe keys; only jobs with one are enqueued
  Ticks,         \* runs of drainOnce in progress at once
  MaxAttempts,
  Progress,      \* how far a handler is
  Start          \* where it starts

VARIABLES
  job,    \* QueueJob rows
  tick    \* what each tick is doing

JobStatus == {"PENDING", "PROCESSING", "DONE", "FAILED"}

\* attempts counts claims; nothing tells counts above maxAttempts apart.
Job == [status : JobStatus, attempts : 0..MaxAttempts]

NoJob == [status |-> "ABSENT", attempts |-> 0]

Tick ==
       [step : {"run"}, key : Keys, at : Progress]
  \cup [step : {"failing"}, key : Keys, next : JobStatus]

Resting == [step |-> "resting"]

Running(t, k) == tick[t].step # "resting" /\ tick[t].key = k

QueueInit ==
  /\ job = [k \in Keys |-> NoJob]
  /\ tick = [t \in Ticks |-> Resting]

QueueTypeOK ==
  /\ job \in [Keys -> Job \cup {NoJob}]
  /\ tick \in [Ticks -> Tick \cup {Resting}]

-----------------------------------------------------------------------------
\* ON CONFLICT: an active row absorbs the call, a finished one is recycled.
Enqueued(row) ==
  IF row.status \in {"ABSENT", "DONE", "FAILED"}
  THEN [status |-> "PENDING", attempts |-> 0] ELSE row

\* A tick first puts claims older than 120 seconds back.
Reap(k) ==
  /\ job[k].status = "PROCESSING"
  /\ job' = [job EXCEPT ![k].status = "PENDING"]
  /\ UNCHANGED tick

Claimable_AnyStatus(row) == row.status \in {"PENDING", "PROCESSING"}

Claimable(row) == row.status = "PENDING"

\* One statement, FOR UPDATE SKIP LOCKED: two ticks never claim the same row.
Claim(t, k) ==
  /\ tick[t] = Resting
  /\ Claimable(job[k])
  /\ job' = [job EXCEPT ![k].status = "PROCESSING",
                        ![k].attempts = IF @ < MaxAttempts THEN @ + 1 ELSE @]
  /\ tick' = [tick EXCEPT ![t] = [step |-> "run", key |-> k, at |-> Start]]

\* The handler returned: DONE, whatever has happened to the row meanwhile.
Complete(t) ==
  /\ job' = [job EXCEPT ![tick[t].key].status = "DONE"]
  /\ tick' = [tick EXCEPT ![t] = Resting]

AfterFailure_Done(row) == IF row.attempts >= MaxAttempts THEN "FAILED" ELSE "DONE"

AfterFailure(row) == IF row.attempts >= MaxAttempts THEN "FAILED" ELSE "PENDING"

\* The handler threw: its row is read, then put back or given up.
ReadFailed(t) ==
  /\ tick[t].step = "run"
  /\ tick' = [tick EXCEPT ![t] = [step |-> "failing", key |-> tick[t].key,
                                  next |-> AfterFailure(job[tick[t].key])]]
  /\ UNCHANGED job

WriteFailed(t) ==
  /\ tick[t].step = "failing"
  /\ job' = [job EXCEPT ![tick[t].key].status = tick[t].next]
  /\ tick' = [tick EXCEPT ![t] = Resting]

\* A database error outside the handler ends the tick: its claim stays.
Abandon(t) ==
  /\ tick[t] # Resting
  /\ tick' = [tick EXCEPT ![t] = Resting]
  /\ UNCHANGED job
=============================================================================
