# SocietyOS: specifications

TLA+ specifications of SocietyOS, a housing-society platform: a NestJS API over PostgreSQL
(`apps/api`), PWAs for residents and gate guards, and an admin site. The interesting part of
the code is a handful of protocols that run concurrently over shared rows: a visitor from
invitation to exit, money from the payment gateway to the invoices, exclusive bookings, notices
travelling through a job queue, a gate device that works offline, tickets with deadlines, who
lives in a unit and parks where, bills generated while the society changes, and how a person
signs in, stays signed in and moves between communities. Every module translates code, and
names no more than what the code does.

## How the system runs

One API process in production (`docker-compose.prod.yml`), one PostgreSQL. A request handler is
an `async` function: it may be suspended at every `await`, and the statements of two handlers
interleave freely, each statement atomic. Prisma's `$transaction` runs at READ COMMITTED: it
commits all or nothing, but it neither locks what it reads nor sees a snapshot. Handlers rarely
lock; most read a row, decide, and write it later by id. Timers (`setTimeout`/`setInterval`)
run sweeps in the same process. So the modules share one shape:

- a table is a function from row ids to records (`ABSENT` for a row not yet created);
- `req[w]` is what worker `w`, a request in progress, has read and will do next. An action
  `BeginX` is everything a handler does up to the point it holds its read; `WriteX`/`CommitX`
  is one statement or one transaction; `Abort` or `Fail` is a failed statement or the death of
  the process, after which what was read is gone and what was written stays;
- a unique index or an advisory lock of the code is a conjunct, wherever the code relies on it;
- a *history* variable or field (`contested`, `drift`, `fresh`, `excused`, ...) records that two
  things overlapped. Nothing the system does depends on it; a property uses it to say exactly
  which overlaps may break what the property promises;
- a definition whose name ends in `_Word` (`CommitCheckIn_KeepsStatus`) is *not* part of the model.
  It is how a slip in that code would look, kept beside the original to show which property
  notices it; no action of `Next` uses it.

## Inventory

| Component (code) | State it keeps | Operations | Talks to | What is hard | Modelled in |
|---|---|---|---|---|---|
| Visitor gate (`modules/visitors`) | `VisitorInvitation`, `Visit` rows | invite, spot request, decide, override, check in, check out, expiry sweep | guard PWA (replays), notifications, SSE | check-then-act on the invitation's status; replays; sweep against late answers; a crash between two statements | `VisitorGate`, `VisitorLifecycle` |
| Unit ledger (`modules/billing`) | `Invoice`, `Payment`, `PaymentAllocation`, receipts | issue, cancel, initiate, webhook (claim, allocate, receipt, fail) | payment gateway, file storage | duplicate, reordered and failing webhooks; lost updates of `paidPaise`; a capture racing a cancellation | `UnitLedger`, `InvoiceLifecycle` |
| Bill runs (`billing.service.ts`) | `ChargeHead`, `BillRun`, draft `Invoice` rows | create head, create run, generate | structure (units, areas), unit ledger | two generations at once, failure half-way, units added meanwhile, an overflowing total | `BillRun` |
| Amenity bookings (`modules/amenities`) | `Booking` rows | book, decide, cancel, availability | notifications | a slot and a monthly quota under an advisory lock, with unlocked writers beside it | `AmenityBooking` |
| Job queue (`queue/db-queue.driver.ts`) | `QueueJob` rows | enqueue, reap, claim, complete, fail | handlers | ticks that overlap, crashed claims, reaping a job that still runs | `DbQueue` |
| Notices (`modules/notices`) | `Notice` rows | create, publish now, publish sweep, expiry sweep, fan-out handler | job queue, notifications | publish and sweep racing; a crash between status and enqueue; retries | `NoticeBoard` (composes `DbQueue`) |
| Guard PWA offline queue (`apps/guard-pwa`) | `localStorage` queue | record, flush | visitor gate | lost answers, overlapping flushes, reload half-way | `GuardDevice` |
| Helpdesk (`modules/helpdesk`) | `Ticket`, `TicketHistory` | create, comment, assign, change status, rate, SLA sweep | SSE, reports | two decisions on one status, an offline key that is only indexed, a sweep of 50 in no order | `Helpdesk`, `TicketLifecycle` |
| Residents and occupancy (`modules/residents`) | `UnitOccupancy`, memberships, `Unit.status` | add, end occupancy (update, contacts) | structure (sets the status by hand), parking | a status derived from rows two transactions do not see of each other | `Occupancy` |
| Parking and vehicles (`modules/parking`) | `Vehicle`, `ParkingAllocation` | register, deactivate, allocate, deallocate | occupancy | the slot is locked, the vehicle is not; two statements without a transaction | `Household` (extends `Occupancy`) |
| Sessions (`auth.service.ts`, `packages/api-client`, each app's token store) | `RefreshToken` families; tokens in memory and in `localStorage` | issue, refresh, rotate, revoke for reuse, logout; 401 and retry, reload | every call of every app | concurrent refreshes, lost answers, several tabs, reuse detection that meets an innocent client | `Sessions` |
| One-time codes (`auth.service.ts`) | `OtpCode` rows, the throttle in the process | request, verify | sessions | verifications that all read the count before any writes it; restart forgets the throttle | `OneTimeCode` |
| Tenant context (`auth.service.ts`, guards, seed) | memberships, default community, a 30 s cache | sign-in by code or password, load, switch community, add resident | every guarded route, the apps' stored sessions | a fill straddling a switch; a switch in three steps without a transaction | `Access` (extends `OneTimeCode`, `Apps`) |
| Permissions (`packages/permissions`, controllers, pages) | none: a matrix, the guards' requirements, the pages' calls | check | all | three lists kept in three packages that must agree | `Roles`, `Routes`, `Apps` |
| Communities and structure | single rows | CRUD, status | visitor gate, bill runs, occupancy | little: unique indexes | what others depend on, there |
| Parcels, domestic help, `BullMqQueueDriver`, SSE hub, audit, reports, storage, configuration, mobile shell, deployment | see `PROJECT.json` | | | best effort, read-only queries, single-row writes or I/O | not modelled, see the end |

What makes each modelled component correct:

- *visitor gate*: nobody enters without an approval that was really given; one approval admits
  once; a replayed check-in is one visit; an unanswered request is resolved; statuses move as the
  transition table says.
- *unit ledger*: a status never lies about the money on its row; a payment is credited once and
  never beyond its amount; the money on invoices is the money allocated; captured money arrives.
- *bill runs*: everybody the run promised to bill is billed, once, and nobody else, however often
  it is cut short and run again.
- *bookings*: two active bookings never overlap; nobody exceeds the quota; a slot shown as free
  can be booked.
- *queue and notices*: a job runs in one place; nothing is announced more often than asked for;
  what goes live is announced; a crash wedges nothing.
- *guard device*: what was recorded stays until the gate has answered; the queue drains.
- *helpdesk*: a ticket follows its table and its clock stops and restarts with it; `resolvedAt`
  agrees with the status; one offline event is one ticket; a breach is announced.
- *household*: the unit's status says who lives there; a slot has one vehicle, a vehicle one slot,
  a retired vehicle none.
- *sessions*: one live token to a session; an ended session stays ended; a session is not lost
  without a cause.
- *access*: one default community; a switch takes effect; a code lets in once and is guessed at a
  bounded number of times; an app is allowed what its pages call.

`PROJECT.json` lists every component with its status, and the hazards (the places where the
properties above can break) each at its line.

## Modules

| Module | Role | Code |
|---|---|---|
| `VisitorLifecycle` | abstract: the visitor state machine of ADR-006, one status per invitation | `VISITOR_TRANSITIONS` in `packages/types` |
| `VisitorGate` | the gate, statement by statement; `LC` instantiates the lifecycle with `inv[i].status` | `visitors.service`, `gate-ops.service`, `visitor-expiry.job` |
| `InvoiceLifecycle` | abstract: the invoice state machine | `INVOICE_TRANSITIONS` |
| `UnitLedger` | invoices and payments of one unit; `LC` as above | `billing.service`, `payments.service`, `mock-payment.provider` |
| `BillRun` | charge heads, bill runs and their draft invoices; rounding, tax and overflow of a line | `billing.service`, `structure.service` |
| `AmenityBooking` | one amenity, its bookings and its clock | `amenities.service` |
| `DbQueue` | one queue: jobs, ticks, claims; knows no handler | `db-queue.driver` |
| `NoticeBoard` | notices, their sweep and their fan-out; instantiates `DbQueue` with its own job keys and supplies the handler between claim and completion | `notices.service`, `notice-publish.job` |
| `GuardDevice` | the offline queue and `flushQueue` | `guard-pwa/src/api.ts`, `CheckInOut.tsx`, `Home.tsx` |
| `TicketLifecycle` | abstract: a ticket's status and its resolution clock | `TICKET_TRANSITIONS`, ADR-006 |
| `Helpdesk` | the tickets, statement by statement; implements the lifecycle for every ticket nobody `contested` | `helpdesk.service`, its controller, `ticket-sla.job` |
| `Occupancy` | who lives in a unit and what its status says | `residents.service`, `structure.service` |
| `Household` | `Occupancy` with vehicles and parking: one `req`, one `Next` over both | `parking.service`, its controller |
| `Sessions` | one user's token families, the tabs and the calls that refresh | `auth.service`, `api-client`, `resident-pwa/src/api.ts` |
| `OneTimeCode` | the codes of one phone and the throttle | `auth.service` |
| `Roles` | the role matrix as sets | `packages/permissions` |
| `Routes` | what the guards ask of every route of every controller | the controllers and the two guards |
| `Apps` | which routes each page calls, whom each app lets in | pages of the three apps |
| `Access` | one person: account, memberships, cached context, switches, signed-in tabs; extends `OneTimeCode` (signing in) and `Apps` (what tabs call) | `auth.service`, `jwt-auth.guard`, `seed.ts`, login pages |
| `MC...` | definitions of constants, bounds and symmetry for TLC | |
| `...Proofs` | theorems checked by TLAPS | |

Names follow the source where TLA+ allows it; the `map` of `PROJECT.json` gives the lines behind
each definition.

**VisitorGate.** `inv` and `visit` are the rows; `req` the handlers; `sweeper` the expiry timer
between its two `updateMany`; `active` whether the community is ACTIVE, which the sweep reads;
`granted` a history of the approvals given. A deadline is `ahead` or `past`. A QR token, OTP and
invitation id all resolve to an invitation, so a check-in names the invitation and, with
`Submits`, its `clientEventId`. `checkIn` looks for a visit of that event, reads the invitation,
asserts the transition, and later commits both rows in one transaction. `checkOut` writes the
visit and then, outside a transaction, the invitation; `CanCrash` lets the process die between.

**UnitLedger.** Amounts are whole paise; `Total` is what each invoice asks. `initiate` sums what
is open on the invoices named and creates a payment under a key (the code's idempotency key,
built from payer and invoices); `Sign` is the gateway emitting an event, `gateway` the set of
signed events, each of which can be delivered any number of times, in any order. The gateway is
assumed to sign the amount of the order: an event of another amount is refused
(`payments.service.ts:118`) and changes nothing. A receipt's reference is made of the last characters
of the gateway's id, `Tails`, and is unique: a capture whose reference is taken rolls back. `capture` is one
transaction: claim the payment by writing the event id (the unique column makes the second
claimant fail), read the invoices, allocate oldest first, write them, create the receipt. Its
reads and its commit are separate steps. The PDF is filed after the commit.

**BillRun.** `generateInvoices` is a loop of awaits without a transaction: `pass[p]` is the unit it
is at (`next`, `missing`, `insert`) and those it still has to visit. `LineAmount`, `LineTax` and
`InvoiceTotal` keep the arithmetic, its rounding and the width of the integer column: an insert whose
total does not fit throws, and leaves the run DRAFT. `billed[r][u]` is a sequence, because nothing
but the lookup keeps a second invoice out. What becomes of a DRAFT invoice is `UnitLedger`.

**AmenityBooking.** Time is a clock of `TicksPerMinute` ticks; days and months are functions of
it. `createBooking` checks the request by itself and then runs one transaction of four
statements: take `pg_advisory_xact_lock`, read overlaps, count the month, insert. `decide` and
`cancel` take no lock.

**DbQueue / NoticeBoard.** `claim` is the one `UPDATE ... FOR UPDATE SKIP LOCKED`; `Reap` puts a
PROCESSING row back, either an orphan's or, as a fault, one whose handler is only slow. `faults`
counts what is rare (a crash, a failed statement nothing repeats, a handler that outlives its
claim) and is bounded by `MaxFaults`; everything else that fails is retried and free.

**GuardDevice.** Entries are numbered as they are recorded. `flush[f]` is one call of
`flushQueue`: what it still has to post and what it will keep. `Effect` is the React effect that
starts a flush. An answer, whichever it is, drops the op; a network error keeps it although the
post may have been served, which the gate settles by the `clientEventId` (`OneVisitPerEvent` of
VisitorGate). The history variables `answered` and `overlapped` exist only for the properties.

**Helpdesk.** A deadline is `none`, `ahead` or `past`; `respond` also `done`. Every handler reads
the ticket, decides, and writes by id in a later transaction. A write decided on a status the
ticket no longer has puts the ticket into `contested`, which the lifecycle maps to a status of its
own, `CONTESTED`, of which nothing is promised. `slaSweep` counts in one statement and lists in
another (any `Take` of the breached tickets, as the query asks for no order; the code takes 50).
A post may carry an event or none (`NoEvent`), and then makes a ticket whatever was posted before.
`FollowAll = FALSE` only bounds the run: no request begins on a contested ticket; so does `bound`, chosen
from `Bounds` at the start: which events may be posted, which tickets and workers may be used.
`Patient` says whether a client may post an event again while an earlier post of it runs.

**Occupancy / Household.** One unit. `addResident` derives the status from the active
occupancies; `endOccupancy` reads the unit's status before its transaction and writes it back if
somebody remains. `fresh` in a request says whether anything it read was committed over; a commit
that was not fresh, or a status set by hand, makes `drift` "yes" until the next fresh derivation.
`Household` adds vehicles, named by their plate (unique), and the active allocations `held`.
`allocateSlot` holds the advisory lock of its slot from `BeginAllocate` to its commit;
`deactivateVehicle` ends the allocations in one statement and retires the vehicle in the next.

**Sessions.** `row` are the RefreshToken rows, `mem` the token each tab has in memory, `stored`
the one in `localStorage`. Any call may find its access token expired: `BeRefused` puts a tab's
call in one of the `Calls` slots, and from there `PostRefresh`, the server's `ReadToken`,
`Rotate`, `CreateToken` or `RevokeFamily`, and `TakeTokens` or `ClearTokens` are separate steps.
`Nobody` is the tab of a call whose answer no page waits for any more (reload, broken connection).
`Persists` is whether the app stores rotated tokens: both PWAs do, the admin site does not
(`admin-web/src/lib/api.ts:11` gives `ApiClient` no `onTokenRefresh`). `excused` collects the
families to which something happened that may end a session; a refresh by one tab while another has
the session too is such a thing, whether or not the other ever refreshes. A used-up token that has
also run out ends its family in the model, and is only denied by the code.

**OneTimeCode / Access.** The throttle `recent` counts requests and verifications alike and is lost
on a restart. `verifyOtp` reads the newest live code, and counts or consumes in a later statement. A
code is assumed to live no longer than the throttle looks back, ten minutes (`LeaveWindow`):
`OTP_TTL_SECONDS` is 300 unless the environment says otherwise.
`Access` says what a right code leads to: `find_user`, `create_user`, and then what every sign-in
and every call does, `load`: look in the cache, else `read` the memberships and `fill` the cache.
`switchCommunity` is `clear`, `flag`, `drop`, then a load. A tab keeps the community and roles its
sign-in was answered with, as the login pages do. `Init` is the accounts of `seed.ts`; all other
accounts come from a first sign-in or from `addResident`. Roles are only ever added, because
nothing in the repository takes a role, a membership or an account away.

**Roles / Routes / Apps** have no state. They are three lists that live in three packages of the
repository (the role matrix, the decorators of the controllers, the calls of the pages), and
`Access` is where they meet: `OnlyASwitchRefuses` compares them through the guards.

### What composes what

`NoticeBoard` instantiates `DbQueue`. `Household` extends `Occupancy`: its requests share the
workers, and a resident's right to register a vehicle is an occupancy. `Access` extends `OneTimeCode`
(its requests end in `Access`'s) and `Apps`, which extends `Routes`, which extends `Roles`; `Helpdesk`
extends `Roles`. The three lifecycles are instantiated by the modules that implement them. Across
these groups the parts meet in few facts, which are assumptions on one side and properties on the
other: replays by the guard app are one visit (`GuardDevice`, `OneVisitPerEvent`); a draft invoice
of `BillRun` is where `UnitLedger` begins; an `addResident` is `Occupancy`'s commit and `Access`'s
`AddResident`.

## Runs

All bounds are in the `.cfg` files and the `MC` modules. *Workers* bounds the requests in progress
at one time and is the bound that matters: every race known in this code needs two.

| Run | Instance | Shows |
|---|---|---|
| `VisitorGate_races` | 1 invitation, 2 visits, 2 workers, no crash | whatever the interleaving: entries are approved, a replay is one visit, only the write of the handler with the stale read can leave the table; a waiting request is resolved |
| `VisitorGate_serial` | 2 invitations, 2 visits, handlers one at a time, crashes | the gate implements `VisitorLifecycle`; one entry per invitation |
| `UnitLedger_races` | 2 invoices (1 and 3 paise), 2 payments, 2 tails, 2 workers | statuses tell the truth, credits come once, by their claim, within the amount |
| `UnitLedger_serial` | 1 worker, crashes, fairness | money on invoices = money allocated; cancelled is unpaid; captured money is credited unless an invoice is already partly paid or the receipt's reference is taken |
| `BillRun_races` | 2 flats in 2 towers, 1 run of any of three scopes, 2 generations, totals on both sides of the column's limit | totals fit their column; re-running never duplicates unless two passes overlap; a completed run has billed everybody it promised to and nobody else, even if passes overlap |
| `AmenityBooking_fresh` | 2 users, 2 bookings, 2 workers, 9 minutes of 2 days of six; two slots of two minutes a day, from minute 1 | under the lock no slot twice and the quota kept; the free grid is bookable |
| `NoticeBoard_races` | 1 notice, 2 publishers, 2 overlapping ticks, 2 attempts, 1 fault | announcements never outnumber requests plus faults, one runner per job; claims are not wedged; what goes live is announced |
| `GuardDevice_sync` | 3 entries, 2 flushes | nothing recorded between flushes is lost; the queue drains |
| `Helpdesk_races` | a resident, an administrator and a vendor; either 1 event, 1 ticket and 2 workers, or 2 tickets without an event and 1 worker, who works on the first; sweep of 1, fairness | `resolvedAt` follows the status; one ticket per event; `TicketLifecycle` is implemented; a breach is announced |
| `Household_races` | 2 residents, owner or tenant, a car and a bike, a slot for each, 2 workers | the status follows the occupants; slots are not shared, and fit; a vehicle parks once |
| `Sessions_races` | 2 tabs, 2 calls, 3 live or held tokens, 2 families | one live token to a family; an ended family stays dead; only a listed cause loses a session |
| `Access_races` | 2 communities, 1 tab, 2 workers, 2 codes, 2 attempts, 3 throttle entries | one default; a switch takes effect; an app is refused nothing its pages call; guesses are bounded; a code lets in once |

Why the bounds are enough. *VisitorGate*: invitations share nothing but the sweep, so one with two
workers shows every race on it, and two are used where the sweep's set-wise update matters. Two
visits are the least that can break the single-entry property. *UnitLedger*: two invoices with
unequal totals are needed to have an allocation that stops half-way; two payments to have two
captures of one invoice. *BillRun*: two units in different towers tell the scopes apart, a template
with one line by area and one with a fixed line tell rounding from overflow; runs share nothing.
*AmenityBooking*: two requests contend for one amenity; two slots a day and a quota of one make every
check bite on two days that lie in different months, and a slot of two minutes that starts at an odd
one makes the alignment to the grid matter.
*NoticeBoard*: a job runs twice only through two ticks. *GuardDevice*: two flushes overlap, and three
entries let one be answered, one kept and one be recorded meanwhile. *Helpdesk*: tickets meet only in
the offline key and in the sweep. For the key one ticket and two workers suffice, since a second
ticket would break the property; for the sweep two tickets, of which the second only runs late, one
worker, and a sweep that names one, so that both can be breached at once and the sweep has to
choose. Both together would not finish in minutes. Three people have the three kinds of right. *Household*: the status is derived over the other residents, of whom one of each kind is
enough; a second vehicle and slot show the wrong kind and the second place. *Sessions*: rows that
nobody can present and that are not live are forgotten and their names used again, so three tokens
allow any number of rotations: one held, one live, one being made. *Access*: two communities to
switch between, two codes because the newest is read; `MCBound` keeps the codes, and the switches
they cannot influence, out of each other's way: codes are in play only before the first sign-in
and with at most one role. `MaxAttempts` and `MaxRecent` (5 and 3 unless the environment says
otherwise) are small enough for both limits to be reached, by two verifications at once and, for
the cap on attempts, across a restart; the theorem is about any values.

**Deadlock.** `UnitLedger`, `AmenityBooking` and `Helpdesk` run without the deadlock check: they
are driven by requests, and once every payment, booking or ticket of the instance is used up (or
contested, within `FollowAll`'s bound) and the clock has run out nothing is left to do. The other
runs keep it on.

**Fairness**, and why the code grants it:

- `VisitorGate`: the expiry timer re-arms after every tick, failed ones included (weak fairness of
  its start); the database does not fail every time (strong fairness of its statements); a deadline
  passes. Residents and guards owe nothing.
- `UnitLedger`: handlers end; the gateway redelivers until it is answered with success, and the
  commit does not fail every time (strong).
- `NoticeBoard`: `setInterval` keeps starting ticks, the oldest job is claimed first, so none is
  passed over for ever (strong for each claim); every tick reaps; the sweep re-arms.
- `GuardDevice`: `fetch` settles. That the device stays online, that posts get through and that the
  guard returns to the dashboard are hypotheses of `QueueDrains`, not of the specification.
- `Helpdesk`: `TicketSlaJob` re-arms its timer whether or not the tick threw (weak fairness of the count), and its
  query does not throw every time (strong fairness of the announcement). Nobody owes the desk a
  request. With more breached tickets than `Take`, the unordered query may pass one over for ever, as happens
  in the instance with both breached; so `OverdueIsAnnounced` promises the announcement of a ticket
  unless more than `Take` are breached at some time.

## What the models say about the code

Holding, and worth knowing:

- *gate*: approvals cannot be forged by a race; replays are idempotent down to the unique column.
- *money*: a payment is claimed exactly once whatever the gateway does; a bill run bills everybody
  it promised to before it completes, even if passes overlap or stop half-way.
- *bookings*: the advisory lock alone keeps bookings exclusive against each other and against
  cancellations decided on a current row.
- *queue*: jobs are not lost to crashes once enqueued; a flush that is interrupted, doubled or
  half-failed loses nothing it started with.
- *helpdesk*: one decision at a time keeps the table and the clock, through any number of
  reopenings; the sweep names every breach that lasts.
- *household*: the lock on the slot is enough for the slot, whatever happens to the vehicle.
- *sessions*: reuse detection never leaves an ended family alive, but for a rotation that was
  between its two statements; a client that refreshes once at a time from one tab, and hears its
  answers, is never taken for a thief.
- *access*: the pages ask for nothing the roles their login admits do not have (the roles in
  `Audience`); overlapping guesses pass the cap by less than the number of requests at once.

Not holding, with the circumstances the properties exclude:

- an invitation can admit twice when two check-ins both read APPROVED (`gate-ops.service.ts:126`,
  while `visitor-tokens.service.ts:44` counts on "single-use enforced at call site"); so
  `SingleEntry` is a property of `VisitorGate_serial`;
- two captures of payments of one invoice can lose one update of `paidPaise`
  (`billing.service.ts:278`), and a cancellation that read the invoice unpaid can overwrite a
  capture; so `PaidIsAllocated` and `CancelledIsUnpaid` are checked with one worker;
- an invoice paid in part cannot be settled by a second capture, which then fails at every delivery
  (`billing.service.ts:280`), and neither is a payment credited whose receipt would get a reference
  another receipt has (`payments.service.ts:149`); so `CapturedIsSettledOrPartial` has these two
  exceptions;
- `decide` and `cancel` of a booking write over a stale status and can double-book
  (`amenities.service.ts:150`); so the run is of `FreshSpec`;
- an entry recorded while a flush runs is overwritten when the flush ends
  (`guard-pwa/src/api.ts:62`, while ADR-005 promises durable replay); so `KeptUntilAnswered` is
  about entries recorded while none runs;
- two decisions on one status of a ticket bring a resolved ticket back with its `resolvedAt`, or
  close one that was reopened (`helpdesk.service.ts:268`): `contested`;
- two overlapping moves leave a status nobody lives by (`residents.service.ts:210`): `drift`;
  two slots can go to one vehicle, or one to a vehicle being retired (`parking.service.ts:127`),
  although the comment above promises one allocation per vehicle: `contested`;
- two generations of one run bill a unit twice (`billing.service.ts:131`), although the comment
  above the method says that re-running never duplicates: `overlapped`;
- two refreshes that both read the token live leave two live tokens, or end the session of both
  (`auth.service.ts:172`): `raced`, `excused`. With two tabs this needs no slow network: a refused
  call in each is enough, one after the other, and a tab that reloads while the other rotates loads a used-up token.
  A late answer about an older session also deletes a newer login of another tab, and any answer
  but a success, a 5xx included, clears the session. With `Persists = FALSE`, as in the admin site,
  `OnlyRacesLoseTheSession` fails without any race: the next reload brings back a rotated token;
- a switch of community that dies between its updates leaves no default, overlapping ones leave two
  (`auth.service.ts:218`): `flags`. A context fill that straddles a switch caches the old community
  for up to 30 s, as does a role attached meanwhile: `fresh`.

No run of the project expects a violation, so these circumstances have none of their own. Three of
the counterexamples come back with one line changed: `SingleEntry` added to `VisitorGate_races.cfg`,
`PaidIsAllocated` added to `UnitLedger_races.cfg`, and `Spec` for `FreshSpec` in
`AmenityBooking_fresh.cfg`, where `NoDoubleBooking` then fails.

Noticed while modelling, without a property of their own: a `failed` event that was read before the
`captured` one commits overwrites SUCCESS; a payment key spent on a failed payment cannot be used
again for the same invoices; a crash after the capture leaves a receipt without its PDF, which
nothing files later; a crash between a notice's status and its enqueue leaves it published and never
announced (hence `faults` in `PublishedIsAnnounced`); the guard app's check-out posts a fresh event
id by which the API looks for the visit (`CheckInOut.tsx:45`, `gate-ops.service.ts:173`), so it is
always answered NOT_FOUND, although `docs/IMPLEMENTATION_PLAN.md:41` lists "Visitor exits → log
closed."; `changeStatus` moves a ticket from OPEN to ASSIGNED without an assignee, and `assign` is
refused in every other status (`helpdesk.service.ts:213`); `packages/permissions` says of STAFF
"constrained to their own assignments", while `changeStatus` takes `helpdesk.resolve` for the whole
desk; the `breachedOnly` list keeps a CANCELLED ticket for ever; a plate that was deactivated can
never be registered again; a person added once more keeps the weaker role; moving out leaves
vehicle, slot, membership and domestic help as they are; an AREA_BASED line of a unit without an
area is zero; `assertNotSpammy` counts verifications too, though its comment speaks of "3 requests
/ 10 min"; `addResident` sets no default community, so a person in two gets whichever row the
database returns first (`auth.service.ts:258`); the guard app lets in a security manager, whose
role has few of the permissions its pages need (so `Audience` leaves that role out); no app calls
`switch-community` or `/auth/logout`.

## Proofs

The `...Proofs` modules EXTEND the components they are about (two of them two components that touch:
the gate and its offline device, the bill runs and the ledger) and are checked by TLAPS for every
value of the constants: any number of rows, workers, tabs, ticks, passes and events, any amounts and
any calendar. Every safety invariant and every action property that a run checks is also a theorem;
so are the refinements of the three lifecycles.

The assumptions are those named in the modules (`...Assumption`), which TLC evaluates too: naturals
are naturals, a sentinel is no event id, the payments, bookings and ticks of the queue are finitely
many (what is counted or summed must be), the days an amenity opens are days, a template is a list
of lines. No theorem assumes anything of the order in which things happen, but for the two kinds
that say so: `SerialSpec` (a step that would start a second handler or the sweep is excluded; the
run of `UnitLedger` reaches the same behaviours by having one worker) and `FreshSpec` (decisions
about bookings are made on current rows). Those are the circumstances in which the property holds
at all; what happens outside them is in the section above.

The argument is everywhere the same. The property alone is not inductive, because a step writes
what a handler read some steps ago. The inductive invariant therefore adds what a request in
progress carries (a row that was in order, a transition that was asserted, a claim nobody else
holds, a token that still has its row), and the proof shows that `Init` establishes it and that
every action of `Next` preserves each conjunct. Lemmas about the shape of requests and the ways a
row can change (`RequestFields`, `RowSteps`, `CallSteps`, ...) are proved once and used by all
conjuncts. TLC checked each inductive invariant before it was proved.

| Module | Theorems |
|---|---|
| `GateProofs` | of `VisitorGate`: `TypeCorrect`, `EntriesAreApproved`, `ReplaysAreOneVisit`, `CheckedInMeansInside`, `StaleWritesOnly`; for handlers one at a time `SerialAdmitsOnce`, `SerialImplementsLifecycle` (refinement of `VisitorLifecycle`). Of `GuardDevice`: `DeviceTypeCorrect`, `OpsAreKept`, `OrderIsKept` |
| `BillingProofs` | of `UnitLedger`: `TypeCorrect`, `StatusesFollowMoney`, `CreditFollowsClaim`, `CreditedOnce`, `PaymentsCreditTheirAmount`, `KeysAreUnique`; serially `SerialPaidIsAllocated`, `SerialCancelsUnpaid`, `SerialReceiptsAreSuccess`, `SerialImplementsLifecycle` (refinement of `InvoiceLifecycle`). Of `BillRun`: `BillRunTypeCorrect`, `RerunsNeverDuplicate`, `RunsBillTheirScope` |
| `NoticeBoardProofs` | of `NoticeBoard` with `DbQueue` in it: `TypeCorrect`, `OneRunnerUnlessFault`, `AnnouncementsAreAccounted` |
| `AmenityBookingProofs` | `TypeCorrect`, `LockSerializes`, `FreeSlotsAreBookable`; without stale decisions `ChecksHoldAtInsert`, `NoSlotTwice`, `QuotaHolds` |
| `HelpdeskProofs` | `TypeCorrect`, `ResolvedAtIsRight`, `EventsAreUnique`, `ImplementsLifecycle` (refinement of `TicketLifecycle`, for concurrent handlers) |
| `HouseholdProofs` | `TypeCorrect`, `StatusIsRight`, `SlotsAreNotShared`, `VehiclesParkOnce` |
| `SessionsProofs` | `TypeCorrect`, `EndedFamiliesStayDead`, `OneLiveToken`; for an app that stores rotated tokens `LostOnlyToRaces` |
| `AccessProofs` | `TypeCorrect`, `DefaultIsOne`, `SwitchesTakeEffect`, `SignedInIsAdmitted`, `GuessesAreFew`, `CodesAreUsedOnce` |

What the inductive invariants add:

- `GateProofs`, the gate: an invitation with a visit is CHECKED_IN or CHECKED_OUT (`EnteredIsOver`),
  and no transition of the table leads back from there to CHECKED_IN. That needs reads that are
  current when they are written (`FreshReads`), which is all the serial specification is used for.
- `GateProofs`, the device: every flush in progress still holds each entry not yet done with
  (`CallSound`), which is what lets it overwrite the queue at its end.
- `BillingProofs`, the ledger: a capture allocates nothing beyond what it still has to give and what
  the invoice still asks. What that comes to in *sums* is proved by induction over finite sets. The
  library's induction rules take an operator, which the provers cannot instantiate, so the lemmas of
  the section "Sums over finite sets" go through the subset order: it is well-founded, so a claim
  that fails for some subset fails for a smallest one. With them a capture is shown to raise the sum
  on each invoice by what it allocates, which (read fresh) is what it writes into `paidPaise`.
- `BillingProofs`, the bill runs: for a pass, each promised unit is billed, is the one the pass is
  at, or is still ahead of it, and everything ahead is in scope (`PassesInOrder`): that alone makes
  a run complete only with everybody billed, overlaps or not. A pass nobody overlapped is alone on
  its run and stands at a unit that has no invoice (`PassesAlone`): that keeps a second one out.
- `NoticeBoardProofs`: `OwedIsAccounted` counts, for a notice, the announcements made, the job that
  waits (or was orphaned by a crash), and the ticks that have not announced yet or will hand the job
  back; all together they never exceed the requests and the faults. A claim turns a waiting job into
  a tick that owes, a send turns a debt into an announcement, and whatever adds to the sum (a reap
  of a job that still runs, a crash after the send) is paid by a fault. `RunsAreClaimed` says that
  before any fault what a tick runs is PROCESSING, hence claimed by it alone.
- `AmenityBookingProofs`: what the lock holder has checked is still true, because only an insert can
  make it false and an insert needs the lock. `FreeSlotsAreBookable` is arithmetic: the grid counts
  minutes up from midnight, `createBooking` divides a point in time by the day and the minute, and
  `MinuteAt` shows that the one undoes the other, for every length of day and slot.
- `HelpdeskProofs`: an open request is about a ticket that exists and carries a transition the table
  allows (`Sound`); its status is still the ticket's, or the write makes the ticket contested.
  `LifecycleSteps` says what any step does to one row, and the refinement maps that to a step of
  `TicketLifecycle` or a stutter. `OnePost`: posts of one event wait for each other and find no
  ticket until the first has written.
- `HouseholdProofs`: what an open request about the unit still knows while it is `fresh`: that an
  add derived its status from the present occupancies, that a leave read the present status
  (`UnitRequests`), and that two adds in progress are about different residents (`AddsAlone`); for
  parking, that the slot of the lock holder is empty and it is alone (`OneAllocatorPerSlot`), that a
  fresh allocation's vehicle is active and has no slot, and a fresh deactivation's none
  (`ParkRequests`).
- `SessionsProofs`: every token somebody holds has a row of the family he thinks (`Known`); an ended
  family has no live token and no rotation half-way (`Dead`); in a family nobody raced in there is one
  rotation at a time, and its token is the only live one until it is revoked (`Single`); in a family
  nothing has happened to there is one refresh at a time, by the only tab that holds the session, and
  what that tab and `localStorage` keep is live until it is rotated (`Solo`).
- `AccessProofs`: who is between the updates of a switch (`DefaultInv`); what each request and the
  cache still know of the default (`Knows`, `CacheKnows`); for codes, that the attempts, the logins
  and the verifications in progress fit behind the throttle entry of the code itself (`CodesOK`), and
  that of verifications that did not overlap only one finds the code live (`LoginsOK`).
  `SignedInIsAdmitted` adds that a context names a community of the person with roles he has there,
  and all of them while it is up to date (`ContextInv`), and that what a tab remembers is still true
  of him, and of his default until a switch (`SessionInv`); roles are only added. What is left is a
  comparison of finite lists, `CallsAreGranted`: every route a page calls, against every role its
  app is for.

Model-checked only: liveness (`WaitingIsResolved`, `CapturedIsSettledOrPartial`,
`PublishedIsAnnounced`, `EnqueuedIsAnnounced`, `QueueDrains`, `OverdueIsAnnounced`), since the
installed provers reason about neither fairness nor ENABLED.

## Next

The gate and its device are proved side by side, each with its own state: a theorem about both, that
a check-in recorded offline becomes one visit, needs a module that composes them. The refinements of
the visitor and invoice lifecycles are serial; `TicketLifecycle` shows the way to state them for
concurrent handlers, with a status of its own for a row somebody wrote over. Parcels would be actions
of `VisitorGate`, should they get a protocol.

## Not modelled, and why

- *Parcels*: one insert and one update, with no protocol between them and no reader. Two collections
  with one code can both find the parcel held; the row names the later one.
- *Domestic help*: single-row writes; only what its routes ask is in `Routes`.
- *SSE hub*: at most once, in memory, and nothing waits for it, so properties are about rows. A page
  that reconnects its stream with the token it captured at first (`resident-pwa/src/api.ts:36`) hears
  nothing once that token expired.
- *Notifications* beyond the fan-out of notices, and *audit*, which swallows its own failures: rows
  nobody's decision reads.
- *Reports* only read. *Storage* is I/O; the one protocol around it, the receipt's PDF, is in
  `UnitLedger`.
- *`BullMqQueueDriver`* delegates to a library that is not in the repository.
- *Structure, communities*: set-up behind unique indexes, but for what other parts depend on.
- *Seed and migrations*: the accounts of the seed are initial states of `Access`; the rest is sample
  data.
- *Mobile shell, deployment, developer scripts, configuration, error mapping*: no state that outlives
  a request. Deployment fixes two facts the models use: one API process, and a pool of connections.

Texts, formatting, paging and the validation of input shapes are left out everywhere. Tokens and
hashes are replaced by what they resolve to. The clock is a tick count or an `ahead`/`past` flag. Row
counts that never fill in an instance are noted at the action.
