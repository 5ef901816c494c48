---------------------------- MODULE GuardDevice ----------------------------
(***************************************************************************)
(* The offline queue of the guard PWA: check-ins recorded without network  *)
(* under a clientEventId, kept in localStorage, and replayed to the gate   *)
(* by flushQueue, which the dashboard starts when it is mounted online or  *)
(* sees the connection return.  An entry made online never meets the       *)
(* queue: VisitorGate models it, and how the gate handles a replay.        *)
(*                                                                         *)
(* Check-ins are numbered in the order the guard makes them.               *)
(***************************************************************************)
EXTENDS Naturals, Sequences

CONSTANTS
  MaxEntries,   \* bound on check-ins recorded offline
  Flushes       \* calls of flushQueue in progress at once

ASSUME DeviceAssumption == MaxEntries \in Nat

VARIABLES
  online,      \* navigator.onLine, as useOnlineStatus shows it
  screen,      \* the route that is mounted
  queue,       \* localStorage: the ops not yet replayed
  flush,       \* per call of flushQueue: ops still to post, ops it will keep
  recorded,    \* how many check-ins were recorded
  answered,    \* history: check-ins the gate answered, whatever it said
  overlapped   \* history: check-ins recorded while a flush was running

deviceVars == <<online, screen, queue, flush, recorded, answered, overlapped>>

-----------------------------------------------------------------------------
Entries == 1..MaxEntries

NotRunning == [todo |-> <<>>, kept |-> <<>>]
Running(f) == flush[f].todo # <<>>
Posting(f) == Head(flush[f].todo)

Elements(s) == {s[k] : k \in DOMAIN s}

DeviceInit ==
  /\ online \in BOOLEAN
  /\ screen = "home"
  /\ queue = <<>>
  /\ flush = [f \in Flushes |-> NotRunning]
  /\ recorded = 0
  /\ answered = {}
  /\ overlapped = {}

-----------------------------------------------------------------------------
(* CheckInOut: a check-in while offline *)

CheckInOffline ==
  /\ screen = "entry"
  /\ ~online
  /\ recorded < MaxEntries
  /\ recorded' = recorded + 1
  /\ queue' = Append(queue, recorded + 1)
  /\ overlapped' = IF \E f \in Flushes : Running(f)
                   THEN overlapped \cup {recorded + 1} ELSE overlapped
  /\ UNCHANGED <<online, screen, flush, answered>>

-----------------------------------------------------------------------------
(* Home: the effect that starts a flush, after a mount or a change of online *)

\* calls is what is left of the flushes that were in progress.
Effect(calls, isOnline, route) ==
  IF isOnline /\ route = "home" /\ queue # <<>>
  THEN \E f \in Flushes :
         /\ calls[f] = NotRunning
         /\ flush' = [calls EXCEPT ![f] = [todo |-> queue, kept |-> <<>>]]
  ELSE flush' = calls

OpenHome_OnlyOnReconnect ==
  /\ screen = "entry"
  /\ screen' = "home"
  /\ UNCHANGED <<online, queue, flush, recorded, answered, overlapped>>

OpenHome ==
  /\ screen = "entry"
  /\ screen' = "home"
  /\ Effect(flush, online, "home")
  /\ UNCHANGED <<online, queue, recorded, answered, overlapped>>

OpenEntry ==
  /\ screen = "home"
  /\ screen' = "entry"
  /\ UNCHANGED <<online, queue, flush, recorded, answered, overlapped>>

GoOnline ==
  /\ ~online
  /\ online' = TRUE
  /\ Effect(flush, TRUE, screen)
  /\ UNCHANGED <<screen, queue, recorded, answered, overlapped>>

GoOffline ==
  /\ online
  /\ online' = FALSE
  /\ UNCHANGED <<screen, queue, flush, recorded, answered, overlapped>>

\* The page is reloaded, or the device restarts: only localStorage is left.
Reload ==
  /\ Effect([f \in Flushes |-> NotRunning], online, screen)
  /\ UNCHANGED <<online, screen, queue, recorded, answered, overlapped>>

-----------------------------------------------------------------------------
(* flushQueue: what becomes of the post in progress, and the end of the loop *)

Continue_WritesEachTime(f, kept) ==
  /\ queue' = kept
  /\ flush' = [flush EXCEPT ![f] = IF Len(@.todo) = 1 THEN NotRunning
                                   ELSE [todo |-> Tail(@.todo), kept |-> kept]]

\* After the last op, writeQueue(remaining).
Continue(f, kept) ==
  IF Len(flush[f].todo) = 1
  THEN /\ queue' = kept
       /\ flush' = [flush EXCEPT ![f] = NotRunning]
  ELSE /\ flush' = [flush EXCEPT ![f] = [todo |-> Tail(@.todo), kept |-> kept]]
       /\ UNCHANGED queue

\* The gate accepts the entry, now or for an earlier post of it, or answers anything
\* else: the visitor is no longer approved, the session is over, the handler failed.
\* The op leaves the queue either way.
Answered(f) ==
  /\ Running(f)
  /\ answered' = answered \cup {Posting(f)}
  /\ Continue(f, flush[f].kept)
  /\ UNCHANGED <<online, screen, recorded, overlapped>>

\* fetch threw: the op is kept, though the request may have reached the API.
NetworkError(f) ==
  /\ Running(f)
  /\ Continue(f, Append(flush[f].kept, Posting(f)))
  /\ UNCHANGED <<online, screen, recorded, answered, overlapped>>

-----------------------------------------------------------------------------
FlushStep(f) == Answered(f) \/ NetworkError(f)

DeviceNext ==
  \/ CheckInOffline \/ OpenHome \/ OpenEntry \/ GoOnline \/ GoOffline \/ Reload
  \/ \E f \in Flushes : FlushStep(f)

DeviceSpec == DeviceInit /\ [][DeviceNext]_deviceVars

\* fetch always settles.  Nothing is promised of the guard or of the network.
FairDeviceSpec == DeviceSpec /\ \A f \in Flushes : WF_deviceVars(FlushStep(f))

-----------------------------------------------------------------------------
(* Properties *)

\* Every variable has its type.
DeviceTypeOK ==
  /\ online \in BOOLEAN
  /\ screen \in {"home", "entry"}
  /\ queue \in Seq(Entries)
  /\ flush \in [Flushes -> [todo : Seq(Entries), kept : Seq(Entries)]]
  /\ recorded \in 0..MaxEntries
  /\ answered \subseteq Entries
  /\ overlapped \subseteq Entries

InQueue(e) == e \in Elements(queue)
InFlush(e, f) == e \in Elements(flush[f].kept) \cup Elements(flush[f].todo)

\* A check-in recorded while no flush was running stays in localStorage until the
\* gate has answered it, through lost responses, reloads and flushes that overlap.
KeptUntilAnswered ==
  \A e \in 1..recorded : e \in overlapped \cup answered \/ InQueue(e)

InOrder(s) == \A j, k \in DOMAIN s : j < k => s[j] < s[k]

\* A flush that overlaps another, or keeps an op, never reorders or repeats the
\* check-ins that wait: the queue is replayed in the order they were made.
QueueKeepsOrder == InOrder(queue)

\* What the queue holds: every recorded op not yet done with, in order.
QueueSound(q, last, done) ==
  /\ q \in Seq(Entries)
  /\ InOrder(q)
  /\ Elements(q) \subseteq 1..last
  /\ \A e \in 1..last : e \in done \cup Elements(q)

\* What a flush holds: the same while it runs, those it keeps before those to post.
CallSound(call, last, done) ==
  /\ call \in [todo : Seq(Entries), kept : Seq(Entries)]
  /\ InOrder(call.todo) /\ InOrder(call.kept)
  /\ \A j \in DOMAIN call.kept : \A k \in DOMAIN call.todo : call.kept[j] < call.todo[k]
  /\ Elements(call.todo) \cup Elements(call.kept) \subseteq 1..last
  /\ call.todo # <<>> =>
       \A e \in 1..last : e \in done \cup Elements(call.todo) \cup Elements(call.kept)

\* The inductive invariant behind the theorems of GateProofs.
DeviceInv ==
  /\ DeviceTypeOK
  /\ QueueSound(queue, recorded, overlapped \cup answered)
  /\ \A f \in Flushes : CallSound(flush[f], recorded, overlapped \cup answered)

\* Once the device stays online, posts get through, nobody reloads the page and the
\* guard keeps returning to the dashboard, the queue is emptied for good.
QueueDrains ==
  /\ <>[]online
  /\ <>[][~Reload /\ \A f \in Flushes : ~NetworkError(f)]_deviceVars
  /\ []<><<OpenHome>>_deviceVars
  => <>[](queue = <<>>)

=============================================================================
