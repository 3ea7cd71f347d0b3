# Verification of the Kamadeva Privé backend

TLA+ models of the backend's core, the TLC runs that check them on small
instances, and TLAPS proofs of the theorems that matter most for every value
of the constants. `PROJECT.json` lists the runs, the mutated forms each
property was tried against, the source lines of every definition, the hazards
the properties are for, and the theorems.

1. [The system](#1-the-system)
2. [Modules](#2-modules)
3. [The engagement outbox](#3-the-engagement-outbox)
4. [The engagement system](#4-the-engagement-system)
5. [The till pulls](#5-the-till-pulls)
6. [The till's customers and the member sync](#6-the-tills-customers-and-the-member-sync)
7. [The HTTP server](#7-the-http-server)
8. [Runs and bounds](#8-runs-and-bounds)
9. [Fairness](#9-fairness)
10. [Proofs](#10-proofs)
11. [Where the code and its own words part](#11-where-the-code-and-its-own-words-part)
12. [What is not modelled](#12-what-is-not-modelled)
13. [Plan](#13-plan)

## 1. The system

A thin Go process (`src/cmd/api`) in front of a Postgres database whose
functions (`src/db/migrations`, some 17 000 lines of SQL) hold most of the
rules. The process keeps almost no state of its own. It talks to four things
that fail on their own: the database (PostgREST over HTTP), the tills of the
venues (a Samba API on a computer in each venue), WhatsApp (Meta), and a
language model. Every call out is a point where the process may stop, the
answer may be lost, and other actors may move.

| Component | State it keeps | Operations | Talks to | Made hard by | Correct when |
|---|---|---|---|---|---|
| Engagement outbox (0085) | `outbox_events`: status, attempts, next attempt | enqueue, claim, mark done, mark failed | fed by webhook, triggers, desk; drained by the worker | several workers, crash between claim and mark, lost answers, retries | one owner per row, bounded runs, done is final, one row per message |
| Engagement worker (`worker.go`) | the batch and the handler's locals | booking confirmation, admin reply, inbound message | database, WhatsApp, model | a dozen calls per event, each may fail after its effect; retries repeat from the start | done means handled; inbox and WhatsApp agree; nothing changed without consent; few replies while a person has the conversation |
| Webhook intake, admin inbox | none; conversations and messages in the database | accept message, human reply, set status | database, WhatsApp | redelivery, two people and a worker in one conversation | one row per message; only who knew no better ends a takeover |
| Reservations (0009, 0016, 0061, 0062, 0085) | `reservations.status` | book, mark, check in, reschedule, edit, cancel | trigger to the outbox | many paths to and from `confirmed` | each confirmed one is announced once, unless the trigger passes it over |
| Transaction orchestrator | `running`, `fetchedThrough` (memory only) | tick, manual run | pull service, database | outages, restarts, manual runs between ticks, midnight | no day is passed over; polling never stops |
| Pull service, ingestion | locals of a pull; `pos_tickets` | fetch, look up, skip or save, attribute | till client, database, customer index | look-up long before save, upsert over what is there, other pulls and pushes beside it | every bill arrives; a run replaces none by an older version that nobody touched since its look-up |
| Till client and cache | `latest_<from>_<to>.json` files | fetch, save answer, fall back to it | till | an old answer counts as an answer | a cached answer does not hide bills |
| Customer service (`samba_customers.go`) | three tables on the till, by row-at-a-time calls | create, update, delete, read all | till tables client | hand-written rollback, lost answers, whole-field updates from old reads | no half of a customer stays |
| Member sync and customer index (`samba_member_sync.go`) | `running`, last run, cached customers | run, tick, look up, invalidate | member directory, customer service | reads once and writes for minutes beside the desk, the cashiers and restarts; a write budget | no run makes a second customer for a member, hand-made rows left alone, everybody arrives and leaves |
| HTTP server (`server.go`, `samba_routes.go`) | none | 25 routes behind a key, a signature or a staff token | every service | which guard on which route | only the entitled act |
| Staff token cache (`staff_auth.go`) | tokens for a minute | resolve | Supabase Auth, staff profiles | check before deactivation, store after it; two requests at once | access ends within the minute, nobody is refused as inactive from the cache |
| Email queue (0042) | `email_outbox` | claim, mark | sender outside the repository | crash between claim and mark | every mail is sent or given up |
| Tiers, sign-offs, discounts (0004-0006, 0017) | ledger, `member_tier`, approvals | record, void, recompute, sign, decide | triggers | recomputation in triggers, committees, concurrency | the tier is the one the ledger says |
| Registration, merging, numbers (0009, 0059, 0060) | `members` | register, merge, swap, erase | everything that refers to a member | row locks taken one by one | one person, one number, no deadlock |
| Login codes (0018, 0063, 0064) | hashes, failures, tokens | verify, issue, request, redeem | email queue | counting, expiry, single use | lockout after five, a token works once |
| Muse programme (0027-0084) | its own tables | apply, decide, arrive, erase | email queue | as the member's side | later |
| Reference, clean tickets, reports, jobs, configuration | none | pass-through | till, database | nothing | not modelled |

How they interact: the webhook, the reservations' trigger and the desk put
rows into the outbox; the worker takes them out and changes conversations,
messages and reservations, whose trigger feeds the outbox again. On the other
side, the orchestrator, the pull endpoint, the daily job and the first page of
the clean-tickets endpoint run the same pull service; the browser extension
pushes bills straight into the same table; the member sync primes and
invalidates the index through which the pull books bills to members.

## 2. Modules

| Module | What it is | Extends / instantiates |
|---|---|---|
| `Delivery` | contract of a queue of jobs, no table and no workers | - |
| `Outbox` | the outbox table and the worker's loop | `INSTANCE Delivery` |
| `OutboxProofs` | its proofs | `Outbox` |
| `Engagement` | handlers, conversations, reservations, webhook, desk, composed with the outbox | `Outbox` |
| `EngagementProofs`, `InboxProofs` | proofs about the composition | `Engagement`, `OutboxProofs` |
| `HandledProofs` | proofs about rows that are done and replies after a takeover | `InboxProofs` |
| `SambaPull` | orchestrator, pull service, cache, ingestion, other pulls | - |
| `SambaPullProofs` | its proofs | `SambaPull` |
| `Roster` | contract of a till's customers, no calls and no runs | - |
| `TillCustomers` | the customer service: its calls to the till, the desk and the cashiers | - |
| `MemberSync` | the member sync and the index, beside the desk's writes | `TillCustomers`, `INSTANCE Roster` |
| `MemberSyncProofs` | their proofs | `MemberSync` |
| `MemberRowsProofs` | proofs about the rows that the sync and the desk write | `MemberSyncProofs` |
| `Api` | routes, guards and the token cache | - |
| `ApiProofs` | its proofs | `Api` |
| `MCOutbox`, `MCEngagement`, `MCSambaPull`, `MCMemberSync`, `MCApi` | small instances for TLC | the module they are named after |

Actions carry the names of the Go methods and SQL functions they translate. An
action whose name has no counterpart stands for something outside the process
(`CustomerWrites`, `CashierWorks`, `CashierDeletes`, `Midnight`,
`BackoffElapses`, `TimePasses`, `MemberChanges`, `Joins`, `Leaves`, `Change`,
`Tick`) or for one outcome of a call (`ClaimLost`, `SaveFails`). A definition
introduced by "Mutated form" is the version a plausible bug would give; nothing
else uses it.

## 3. The engagement outbox

`outbox` is the table in the order of `created_at`; a row keeps its key (event
type and aggregate), status, attempts, and whether its next attempt is due.
`batch[w]` and `handling[w]` are the worker's slice of claimed rows and the one
in its handler, `marks` the mark calls that are under way, `runs` counts
handler runs and is the only history variable.

A claim is one SQL update, so it is one step; it skips rows that another claim
has locked, so claims are serial. It may take effect and its answer be lost
(`ClaimLost`). `Finish` ends the handler and sends a mark; the worker does not
look at the result, so the mark is applied or lost at any later time. `Crash`
drops what the worker holds, and the table is as it was.

`Delivery` says what the rest of the code may rely on: jobs do not overlap
with themselves, run a bounded number of times, are done only after a run that
passed, and never run again after that. It promises no progress, because the
outbox does not: a row whose worker stopped stays in `processing`. The
refinement maps a row to `running` while a handler has it, to `passed` while a
`done` mark is under way, to `done` when the row is done, and else to `open`.

## 4. The engagement system

`Engagement` adds to the outbox what the handlers do. `run[w]` is a program
counter and the handler's locals; each call out of the process is a step with
an outcome: `ok`, `refused` (an error, nothing happened) or `lost` (an error,
and it happened). Between two steps everything else may move: other workers,
the desk, the customer, the member's portal. The locals are as old as in the
code: the conversation's status and pending action are those of
`FindConversation`, however long the model takes.

`reservation` follows the status through every function that sets it, with the
trigger in the same step. The trigger announces a reservation that is newly
confirmed, but not always: it passes over a customer who is no active member
with a phone (`reachable`, which `MemberChanges` moves within `Standing`), and
when its enqueue raises, the error is a warning in the log and the reservation
is confirmed all the same. `excused` remembers which confirmed bookings were
passed over in one of these ways; nothing announces them later, unless they are
confirmed anew. The same membership decides whether a message is looked up at
all: without an active member of that phone its handler fails. `conversation`
holds status, booking and pending action; find-or-create is a read and an
insert in two steps, as the function has no lock and no unique index between
them. The model's answer is any element of `AIAnswer`, and `Decoded` is what
Go's decoder keeps of it: the structs have no JSON tags, so a key with an
underscore is lost.

`wrote`, `agreed`, `delivered`, `stored`, `recorded`, `late`, `quiet` are
history: what the customer wrote and which actions awaited a yes at that time,
what was sent and what was stored for each row, how many automatic replies
came since a person last took the conversation over, which rows ended without a
reply on purpose. `late` is set back only when a person takes over anew; what a
handler writes in between does not touch it.

The properties relate several of these: `DoneMeansHandled` a row's status to
everything its runs left behind, `InboxMatchesWire` messages sent to messages
stored and attempts counted, `AnnouncedIffConfirmed` the reservations to the
rows of the outbox and to what the trigger passed over.

Two properties say what a takeover is worth. Handlers read the status once and
act on it much later. While a person has the conversation, each worker may
finish the one reply it had begun, and no more (`IntrusionBounded`). But a
handler that read the status before may also write `WAITING_FOR_HUMAN` over
`HUMAN_ACTIVE` (`worker.go:268`, `:272`, `:346`), and as `worker.go:220`
silences the assistant only at `HUMAN_ACTIVE` and `CLOSED`, every message after
that is answered again: from there on nothing bounds the replies, in the code
or in the model. `TakeoverStands` says who can do this: the staff, or a handler
that had found the conversation before it was taken over; never one that reads
the status afterwards, a retry included.

`ImplementsOutbox` says that the system uses the outbox only through its own
steps, so what holds of `Outbox` holds here.

## 5. The till pulls

`till[t]` and `store[t]` are a bill on the till and in `pos_tickets`: unknown,
open or paid, and the day it is filed under. `cache[r]` is the kept answer for
the range `r`. `running` and `fetchedThrough` are the orchestrator's fields;
`pull[p]` is where the pull `p` is (the loop's, a manager's, or one started
beside the orchestrator), with its range, the till's answer, and what the
look-up said of each ticket.

A scheduled pull reads `fetchedThrough` or, after a restart, the newest stored
ticket (`CatchUpFrom`), computes its range (`Scheduled`), begins or is dropped
(`BeginRun`), fetches or falls back to the cache, looks up, goes through the
answer ticket by ticket in any order (`SkipExisting`, `SaveSambaTicket`,
`SaveFails`, `Attribute`), and ends (`FinishRun`). Each of these is a step, and
the range is computed one step before the run begins, as in the code. The
date of the newest ticket may be that of the day before, as a bill of the small
hours belongs to the evening before. The four attempts of a save and their
delays are one step, which stores the ticket, or fails with or without having
stored it.

`since` and `ever` remember where this process's, and any process's, first
successful scheduled pull began, `reported` which tickets were listed as
failures, and `slipped` which tickets a push or a pull beside the orchestrator
has stored since the orchestrator's run looked up what is there; the properties
need them, the actions do not read them.

`NoGap` says what the comment on `fetchedThrough` says: a day before it, as
far back as a catch-up reaches, has no bill that is neither stored nor listed
as a failure. The day `fetchedThrough` itself is not finished and will be
pulled again. It holds with outages, failed look-ups, restarts, manual runs and
cached answers as long as nobody asks for a day to come (`Ahead = 0`). The
endpoint lets such a request through, and with one the property may fail: a
cached answer given before a day was over then passes for that day
(section 11).

`ImportsNeverRegress` is checked and proved with pushes and direct pulls beside
the orchestrator, as they always are. A run of the orchestrator puts an older
version of a bill over a newer one only for a ticket in `slipped`: against that,
between the look-up (`pull_samba_tickets.go:146`) and the save (`:178`), nothing
in the code protects, and against direct pulls among themselves nothing does
either. What the property excludes is every other way: another run of the
orchestrator, for which `running` is there, an old answer from the cache, a
midnight or a failed look-up.

## 6. The till's customers and the member sync

`TillCustomers` is `samba_customers.go` as its callers see it: a customer is a
row of Accounts, of Entities and of EntityStateValues, written by one HTTP call
at a time. `account`, `entity` and `status` are the three tables; a customer's
rows bear one number, the order in which its account was inserted, and numbers
are not reused, as on the till. `call[w]` is the write a caller is at: `Create`
goes through `account`, `entity`, `status` and, after an error, back through
`undoEntity` and `undoAccount`; `update` through `patch` and `rename`; `remove`
through `dropStatus`, `dropEntity`, `dropAccount`. Each call is done, refused,
or applied with its answer lost (`Outcome`). An update writes the row as it was
*read*, part by part, and its CustomData (phone and member number) as a whole.
The desk (`Create`, `Update`, `Delete` of the staff's web application, by any
number of staff, `Desk`) and the runs of the sync are the callers; a cashier
deletes a customer on the till itself in one step. An edit of the desk names
the fields it sets, and `Updating` keeps the others as they were read: one that
changes only the phone writes back the Customer ID that this call had read
before, whatever the sync has made of it since.

The data is what the sync tells apart. A member number and the phone of the
member who holds it are the same natural, 0 is an empty field; so a phone that
members share cannot be expressed, and the code's deletion from its phone map
after an adoption has nothing to do. A name is the full name of the member
whose number the row carries (`full`) or any other text. Notes are the sync's
own, typed, or none.

`MemberSync` adds the run: read the members (`MembersForTill`), read the till
page by page (`All`), put each active member right (`Reconcile`: nothing, a new
name, adoption of the one unlinked row with the phone, or a new customer),
compute who leaves (`Settled`, `Leaving`), read the states, remove one row after
the other (`Remove`) or make it anonymous when it cannot be removed
(`Anonymise`), and end (`Finish`). `run[p]` holds the locals: the members and
rows *as read*, the rest of the list, and the write budget. Members are taken
in the order of their numbers as in the code; leavers in any order.

`index` abstracts the customer index to one question, whether what it caches
was read after the sync's last write. `All` primes it, a completed run that
wrote invalidates it, and a lookup refreshes it. It does not see the desk's and
the cashiers' changes in the model nor in the code: those are hidden from bill
attribution until the time to live (five minutes) is over.

Two history variables tell whose doing a number on a customer is. `misled` are
the runs that are past their first page of the till when a customer goes: the
list shifts under them and a row may be missed. `astray` are the customers
whose number was last set otherwise than by a run that was not misled: an edit
put it (back) on them, or a misled run did. No action reads either.

What could go wrong is spread over several actors and steps: `NoSecondCustomer`
speaks of two runs, a restart or a lost answer and the desk's edits in between,
and says that the runs make no second customer for a member, whatever the
customers in `astray` are. That a member has one customer in any case
(`OneRowPerMember`) does not hold, as `sync_paging` shows. `NoHalfCustomer` of
the hand-written rollback; `GuestsLeftAlone` of what the sync may take for its
own; `IndexKeepsUp` of a run's end; the two liveness properties of a budget of
one write a run, an upset, and a cashier who deletes what the sync made.

`Roster` says what a till with all these callers is to look like from outside,
one step per change of a customer. A row becomes a customer once (`Add`) and,
once it is gone (`Remove`), never again; the sync keeps a customer for a number,
new or taken up again (`Keep`), only at a moment when it keeps nobody for it;
numbers are taken off, or are no longer the sync's doing (`Release`; a customer in
`astray` counts as kept for nobody); guests neither leave nor are kept; rows may
be wasted. In the code none of this is one step: the sync decides on a list it
read before, a create takes three calls, and updates are on their way to
customers that are deleted meanwhile. The refinement (`Life`, `Kept`) calls a
row free until its number is given out and while its create is between the
account and the customer, there while the entity is, and else gone; a row whose
create is given up before the entity is wasted.

## 7. The HTTP server

`Api` has one row per group of routes of `server.go` and `samba_routes.go`: the
guard (none, the shared key, staff, managers), whether a signature may be asked
for, whether the path names a till and whether a body is decoded, and what the
handler goes on to do. A request (`req[q]`) arrives, is checked against the
guard (`Checked`: `auth`, `staffAuth`, the till routes' mix of both), may go to
Supabase for the user and the profile (`User`, `Profile`), stores what it found
(`Store`), and is handled (`Handle`). The handlers themselves are the other
modules; here they are only named.

A member of staff stands for their token. Signing out is an answer "unknown
token" that Supabase may give at any time. The clock is read when a request
comes in, before the cache is looked at, and the entry's minute is counted from
there however long the lookups take. The sweep of a full cache removes what had
expired by then. `role` is the profile in the database, `last` remembers when
it last said something else: history, which no action reads.

`AccessEndsInTime` holds because of where the clock is read, which is one line
of `staff_auth`; `RefusalsAreFresh` because refusals are not cached. Both are
about two requests with one token whose lookups overlap and end in any order.
`OnlyTheEntitledAct` follows the row through all of it to the handler.

## 8. Runs and bounds

| Run | Instance | Question |
|---|---|---|
| `outbox` | 2 workers, 3 rows (two unique keys, one repeatable), batches of 2, 2 attempts, fair | types, ownership, counted runs, uniqueness, finality, `Delivery`; does every row come to rest |
| `outbox_stuck` | 2 rows, fair | is every row handled (no) |
| `engagement_replies` | 1 worker, 1 desk, 1 message (yes, no or anything), 2 attempts, 1 staff reply, five kinds of answer, a member throughout | inbox and wire, done and handled, replies and overwrites after a takeover, the outbox inside |
| `engagement_bookings` | 2 workers of two processes, one of them with a model that moves the booking at once, 1 booking, 1 message, 1 attempt, a membership that comes and goes | confirmed and announced or passed over; inbox and wire, done and handled, with two handlers at once |
| `engagement_consent` | 1 worker, 1 message | a rule the repository states and the code breaks |
| `pull_gap` | 1 ticket, the loop, a manager with three ranges, pushes, 3 days, reach of 2, restarts | is every day that is marked as pulled pulled; does a newer bill stay |
| `pull_live` | 1 ticket of a member, the loop, one direct pull, pushes, 2 days, fair | does every bill arrive, is no day passed over and does a newer bill stay, beside a direct pull |
| `pull_deploy` | 2 tickets, 3 days | a rule the repository states and the code breaks |
| `member_sync` | 2 members and a number nobody holds, a guest and a hand-made row of the second member, the ticker's runs and a manager's, one of the staff who adds, takes a number off, changes a phone alone and deletes, a cashier, two customers a page, 1 write a run, 1 upset, 6 rows, fair | no second customer by a run, no half customer, guests, the index, `Roster`; do members arrive and leavers leave |
| `sync_forgotten` | an empty till, no desk, fair | is a former member's phone gone from the till (no) |
| `sync_paging` | an empty till, one customer a page, a row the desk may delete | one row per member when the list shifts between pages (no) |
| `api` | 2 members of staff, 2 requests, a time to live of 2, a cache of 1, 1 change or restart, 11 calls with some route of each guard, symmetric | access ends in time, refusals are fresh, only the entitled act |

Why small is enough. Two workers are every pair of claimants, and a third adds
no new kind of step to the table. Two attempts give a first run, a retry and
the cap. Three rows with batches of two leave a row over, so a claim chooses.
One message that may be retried meets every interleaving of one handler with
the desk; a booking and a message with two workers meet those of the
confirmation's handler and the message's in one conversation, one of them
feeding the outbox the other drains. The gap between days needs a day pulled, a
day missed and a day after; a reach of two days lets the floor bite within
them. `NoGap` and `ImportsNeverRegress` speak of one ticket at a time and
tickets share nothing but the answer they come in, so one ticket is enough for
them; the deploy run needs a second one, newer than the lost one.

For the sync: one member goes through all of a life (joins, is erased or
merged) while the other stays, so that there is somebody active and an adoption
of a hand-made row competes with the first member's creation for the one write
of a run. Two runs that may be started are the ticker and a manager who presses
the button beside it; `running` admits one at a time. One upset is one refused
or lost call at any place, or one restart, or one deletion on the till; two
would be two unrelated accidents, which the theorems allow. One member of staff
at the desk already writes by what was read before a run's write, and the
other way round; the theorems are for any number. Six rows leave room
for what the desk adds, a creation whose rollback failed, and the next. With
two customers a page the till takes a run several calls to read, and a deletion
may come between them; `sync_paging` has one a page, so that the list shifts
sooner. The bookings' run has messages that are neither yes nor no: its model
never leaves an action pending, without which the worker reads them all alike.
For the
server: two requests with one token are the shortest race of lookups, a time to
live of two ticks has a before, a during and an after, and a cache above one
entry is swept. The theorems of section 10 remove the bounds for what is
proved.

Bounds that are not the code's: `MaxRows`, `MaxConv`, `MaxReplies`, `LastDay`,
`MaxRow`, `DeskRow`, `MaxUpsets`, `LastTime`, `MaxChanges`; `PageSize`,
`MaxAttempts`, `BatchLimit`, `Lookback`, `MaxCatchUp`, `MaxWrites`, `TTL` and
`MaxEntries` are the code's numbers made small. Deadlock is not checked in the
runs of the engagement, the pulls and the server: when the rows, the messages,
the days or the clock of an instance are used up, the system rests, as it does
in life. It is checked in `member_sync`, where the ticker can always begin
another run.

## 9. Fairness

`FairSpec` of the outbox: each worker keeps claiming and ends its handlers (a
ticker and HTTP clients with time limits), marks are applied or lost, backoffs
elapse. Crashes are not ruled out; a crash costs a claimed row, and claims are
capped, so they cannot go on for ever. Nothing is said of enqueuing.

`FairPullSpec`: the poll loop ticks, begins and works through its pull (weak
fairness: these are steps of one goroutine that nothing else disables for
good), and a till, a database and a member's arrival that are asked again and
again answer some time (strong fairness of `FetchTickets`, `ExistingTickets`
and `Attribute` of the loop). The liveness run has no manual runs: a manager
who always has one under way would have every tick dropped.

`FairSyncSpec`: weak fairness of "the ticker begins a run, or some run that was
begun takes a step". The ticker is a loop on a timer, and a run is one
goroutine whose calls have time limits. Nothing is assumed of the till: a run
may be cut short by a refused read and a write may fail as often as
`MaxUpsets` allows. That the upsets come to an end is the assumption of the
liveness properties; a till that is never there gets no customers. `Api` has no
fairness, as nothing is claimed to happen.

## 10. Proofs

Each proof module states an inductive invariant and shows that it holds at
first, that every action keeps it, and that it gives the property.

- **Outbox.** `IInv` adds to the types who may hold a row: a held row is in
  `processing`, held by one worker in one place, with no mark under way, and a
  row with a mark under way is in `processing` and held by nobody (`OwnerInv`);
  and runs are counted by attempts, one behind while a claimed row waits
  (`CountInv`). Without the marks the invariant is not inductive: a late mark
  could reopen a row. From it `Ownership`, `BoundedRuns`, `DoneFinal`; `OneRow`
  from the types; `Implementation` step by step with the job states.
- **Engagement.** `Refinement` shows that every step of the system is a step of
  the outbox or leaves it alone, so `SystemOwnership` and the rest carry over.
  `SystemTypeCorrect` needs that a run's locals fit its place (`RunInv`).
  `Announcement` follows from the two kinds of steps there are: those that set
  a reservation together with its row or with the record that the trigger
  passed it over, and those that touch none of these. `InboxTrue` relates, for
  each row and each worker's place, sends, stores and attempts: a handler past
  its send has sent once more than it has stored. `SystemDelivers` joins the
  two refinements: the system keeps the contract `Delivery`.
- **Done rows and takeovers.** `HandledInv` follows an event through all its
  runs: a message past its record stage is in the inbox, whichever run put it
  there; only a run that owes staff nothing reaches a quiet end; and a verdict
  of "done" rests on a quiet end or on a row that was stored after a send
  (`HandlerMarks`). It needs `WireInv`, which knows that a handler about to
  store has sent. What one run has recorded the others keep (`Grows`), so a
  crash or a lost answer takes nothing back: `DoneHandled`. For
  `FewIntrusions`, a run is `Answering` when it has read a status that lets it
  reply and has not sent yet. `LateInv` says that, in a conversation a person
  has, the late replies and the workers still answering are together no more
  than the workers. That is inductive where the bound alone is not: a late
  reply takes its worker out of the second number, and who finds the
  conversation after the takeover reads `HUMAN_ACTIVE` and ends (`AnswerStep`).
  The only hypothesis is that there are finitely many workers, one in each
  process. `Takeovers` rests on the same invariant: of the handlers' steps only
  those of a run that is `Answering` write over a status, and such a run has
  read one that let it.
- **Pulls.** `GapFree` is for any tickets, pullers, lookback and reach. Its
  invariant `GapInv` follows what a pull knows: the till has no bill of a day
  to come; a kept answer for a range that is over is complete for it; a pull's
  answer, what it has saved and what it has left account for every bill of the
  finished days of its range; a scheduled pull starts no later than the owed
  day or the floor. The theorem has the hypothesis `Ahead = 0`, no request for
  a day to come; `Validate` does not refuse one, so the theorem says nothing
  about a process that was sent one. `Serialised` has no hypothesis. Its
  invariant `TurnInv` says that only one pull works under `running` and that
  what that one still calls new is not stored, unless it slipped in.
- **Server.** `ApiInv` follows a role from the profile to the handler: an entry
  of the cache, and a request on its way to store one, carry a role that the
  profile had at or after the moment the entry's minute is counted from
  (`Held`), and a request that was let in carries one of less than a minute
  before it came in. `AccessEnds`, `RefusalsFresh` and `EntitledAct` are for
  any staff, requests, time to live, size of the cache and set of calls.
- **Sync.** `SyncInv` adds to the types that only one run is past `idle` and
  only while `running` is set (`OneRun`), that a run which has a write in hand
  has paid for it from its budget and an index that is behind belongs to such a
  run (`Paid`), and what a run has in hand at each stage (`InHand`, `Meant`,
  `Unmade`). `IndexFollows` is `Paid` and `OneRun`. `GuestInv` says that a
  guest's row has stayed nobody's, that every run which has read it has read it
  so, and that no write in hand is about it; so no step of any caller touches
  it (`GuestsKeep`). Both are for any number of members, runs, rows, upsets and
  pages, any budget, and any edits of the desk.
- **Rows of the till.** `HalfInv` says that who is between the account and the
  customer of a create is alone with the row, that a half of a customer has
  somebody who is about to put it right unless a clean-up was lost, and that
  nobody is about to drop the account of a customer; so `NoHalves`. `RowsInv`
  says that what a run still reading has not seen of the sync's customers is on
  a page it has not read (`Scanning`), that for a member such a run saw no
  customer of and has still to do, nobody has made one meanwhile (`ToDo`), nor
  for the one it is doing (`Doing`); each of these but for runs that a deletion
  misled. It is inductive because one run writes at a time, and because an edit
  that puts a number on a customer makes it one of `astray`, kept for nobody;
  so `OneCustomer`. `RosterKept` takes these invariants together, step by step:
  a create is alone with its row until the entity is there, so an entity that
  goes leaves no row open (`RosterRemove`); an update of a row that is gone is
  refused; and one that gives a number finds it vacant by `Doing`. Both are for
  any number of staff and any edits they make, of the phone alone or with a
  member's number, and for a till of several pages. Their one hypothesis is
  `MaxRow <= PageSize * MaxPages`, a till within the pages that a run reads
  (500 * 200 rows in the code); beyond it the list is cut short.

The assumptions are those of the modules, named there: positive limits,
distinct keys, a day to start from, pullers that are disjoint, callers that
are; that what the desk types is not marked as the sync's own.

Only model-checked: the liveness properties, as liveness under fairness is out
of the prover's reach. Every other property of a passing run has its theorem. The
rules of section 11 are refuted, not proved.

## 11. Where the code and its own words part

Each has a run with a counterexample; `PROJECT.json` quotes the lines.

- A claimed row whose worker stops is never processed (`outbox_stuck`).
- A retried message may answer the question its own first run asked
  (`engagement_consent`): "yes", with nothing pending, goes to the model; the
  model asks to cancel and the action is stored; sending the question fails;
  the retry finds the action and takes the yes for it. The model's answer has to
  bear Go's field names for this: under the key `pending_action`, which the
  prompt asks for (`openai.go:102`), the decoder drops the action.
- An outage that spans a deploy may stay a gap (`pull_deploy`).
- The account of a removed customer, named after name and phone, stays when
  its delete fails, and no later run finds it (`sync_forgotten`).
- A customer that is deleted between the reads of two pages hides another one,
  and the sync makes a second customer for its member (`sync_paging`).

Seen while modelling, and not kept as runs.

- A reply of the assistant may follow a takeover, at most one per worker while
  the takeover stands (`IntrusionBounded`). A handler that had read the status
  before may also end it, by writing `WAITING_FOR_HUMAN` over `HUMAN_ACTIVE`
  (`worker.go:268`, `:272`, `:346`); the assistant then answers every message
  that follows, until somebody takes over anew. `TakeoverStands` says who can
  do this; nothing says how often the assistant answers after it.
- Two workers, or a worker and the desk, may open two conversations for one
  customer; a takeover of one leaves the other to the assistant.
- A reservation that is confirmed while its customer is no active member with a
  phone, or whose enqueue raises, is never announced, not even when it is
  edited afterwards as long as it stays confirmed (`excused`).
- A bill pushed, or stored by a pull beside the orchestrator, between the
  orchestrator's look-up and its save is written over by what the till said
  before (`slipped`).
- A manager's run that panics, which the server recovers, leaves `running` set:
  `finishRun` is not deferred, and every later tick is dropped.
- A run of the sync that fails after its writes leaves the index old until it
  is looked up anew, and a stop in the middle of a create leaves half a
  customer; `IndexKeepsUp` and `NoHalfCustomer` except both (`cut`, `lossy`).
- A manager who was promoted within the minute is refused on the cached role
  with 403; `RefusalsAreFresh` is about refusals as inactive.
- "Your booking has been cancelled." may be said of a booking that is not: an
  update that matches no row is a success.
- A cached answer for a range that reaches into days to come may mark a day as
  pulled that was not over when it was given; `NoGap` is checked and proved
  with no such request (`Ahead = 0`).
- An attribution that failed is not retried once its day is out of the range of
  the scheduled pulls.
- Field names that the JSON decoder does not match (`ExternalMessageID`,
  `PendingAction`) let an inbound message be stored twice and a pending action
  be forgotten; the model has both, and a unit test of the decoding shows them
  sooner than a model checker.
- A bill imported while open is not updated when it is paid, as a known ticket
  is skipped; nothing in the repository says that it should be.
- `docs/oso-lounge-samba-api.md:434` says that with the default lookback each
  run fetches yesterday's tickets; a lookback of one fetches today's.
- Without a till, `main` passes a nil client as an interface, which is not nil.
- `remove` drops a customer's status before it learns that the till will not
  delete the customer.

## 12. What is not modelled

In the modelled parts: message texts beyond what they say, a second customer,
calls of a handler that take effect after it gave up on them, unknown tool
names and undecodable pending actions, the reported status of the orchestrator,
the till's health call (its result decides nothing), the conversion of a till
ticket to kobo, a save still in flight when a process is stopped, panics, the
limit of 92 days to a request (`LastDay` is below it).
`pos_attribute_till_customer` is not among the migrations in the repository; it
is modelled from its use. The till itself, its filing of bills by paid or else
by open time, the clock and the customer are external.

In the customers and the sync: the conversion of phones and names (a phone the
till writes differently is another natural), a phone that members share, the
choice of entity type and state for a new row, validation of the desk's input
beyond what it lets through, the status that a run reports, the index's time to
live as time, and the pages' limit of 200 as something a run reaches (the
theorems exclude it). The member directory is read in one step; its SQL is
external to `src/internal` and shows as `member`. In the server: what a handler
does after its guard, the wording of errors, health details, the rate at which
requests come, and clocks that jump.

Other components: see `components` in `PROJECT.json`. Reference data, clean
tickets, reports, operations jobs and configuration are pass-through I/O with
nothing for a model to check. Of the database's rules, those of tiers,
discounts, registration, codes, the Muse programme and e-mails are not
modelled; they are SQL functions of their own, without any Go code around them,
and meet the modelled parts only in the tables.

## 13. Plan

Done: the outbox and its contract; the engagement system over it; the pulls;
the till's customers, the member sync and the index; the server and its token
cache; their proofs.

What would be worth having next, in this order:

1. `EmailQueue` (0042): as `Outbox`, with its sender; how far `Delivery` is
   implemented.
2. `MemberNumbers` and `MemberMerge`: statements with row locks, one lock a
   step; the order in which two swaps lock (0059), merges beside registrations.
3. `TierEngine`: the ledger, the triggers and the sweep against a reference
   definition of a member's tier; sign-offs and the committee gate.
4. `LoginCodes`: lockout and single-use tokens.
5. Reservations in full, discounts, and the Muse programme.
6. The conversion of a till's ticket (`pull_samba_tickets.go:345-500`) as a pure
   operator against a definition of what a bill is.

Proofs: a contract of the pulls, as `Delivery` and `Roster` are of the outbox
and the till (a day once accounted for stays so), the lock order of merges, the
tier as a function of the ledger, and the single use of tokens.
