----------------------------- MODULE SambaPull ------------------------------
(***************************************************************************)
(* How one venue's bills get from its till into pos_tickets: the           *)
(* transaction orchestrator's poll loop and manual runs, the pulls nothing *)
(* guards (the pull endpoint, the clean-tickets endpoint, the daily job),  *)
(* the file cache of the till's answers, the bills the till's extension    *)
(* pushes by itself, and restarts of the process in between.               *)
(*                                                                         *)
(* A date is a number and the empty date is 0.  A bill is what the till    *)
(* says of it: whether it is open or paid, and the day it is filed under.  *)
(***************************************************************************)
EXTENDS Integers, FiniteSets

CONSTANTS
  Ticket,      \* ticket numbers the till may use
  Member,      \* those whose bill names a member as its customer
  Pushed,      \* those whose paid bill the extension pushes as well
  Loop,        \* the poll loop
  Manual,      \* runs of the orchestrator a manager may have in flight
  Direct,      \* pulls that do not go through the orchestrator
  Lookback,    \* SAMBA_ORCHESTRATOR_LOOKBACK_DAYS
  MaxCatchUp,  \* maxCatchUpDays
  Asked,       \* ranges of days managers ask for
  Ahead,       \* days past today such a range may reach
  Restarts,    \* "restarts" when the process may be restarted
  LastDay      \* bound of the model: the last day that comes

ASSUME PullersAssumption ==
  Loop \notin Manual \cup Direct /\ Manual \cap Direct = {}
ASSUME DatesAssumption ==
  /\ Lookback \in Nat \ {0} /\ MaxCatchUp \in Nat \ {0} /\ Ahead \in Nat
  /\ LastDay \in Nat /\ LastDay > Lookback
ASSUME AskedAssumption == Asked \subseteq (1..LastDay) \X (1..LastDay)
ASSUME TicketsAssumption == Member \subseteq Ticket /\ Pushed \subseteq Ticket

VARIABLES
  day,             \* today
  till,            \* till[t]: the bill on the till
  store,           \* store[t]: the bill in pos_tickets
  booked,          \* tickets booked to their member
  cache,           \* cache[r]: the last answer saved for the range r, if any
  running,         \* the orchestrator's running
  fetchedThrough,  \* the orchestrator's fetchedThrough
  pull,            \* pull[p]: where the pull p is, and its locals
  reported,        \* tickets a pull has listed among its failures
  since,           \* first day of this process's first good scheduled pull
  ever,            \* first day any process's good scheduled pull began at
  slipped          \* tickets others stored since the orchestrator's run looked up

pullVars == <<day, till, store, booked, cache, running, fetchedThrough, pull,
              reported, since, ever, slipped>>

Guarded == {Loop} \cup Manual
Puller == Guarded \cup Direct
FirstDay == Lookback + 1
Date == 1..LastDay
Range == Date \X Date
Unknown == 0    \* no such bill
Open == 1
Paid == 2
NoBill == [state |-> Unknown, date |-> 0]
Bill == {NoBill} \cup [state : {Open, Paid}, date : FirstDay..LastDay]
Bills == [Ticket -> Bill]
NoBills == [t \in Ticket |-> NoBill]
Prior == [Ticket -> {"new", "unbooked", "booked"}]
Stage == {"idle", "ready", "fetch", "lookup", "save", "book", "done", "failed"}
Pull == [at : Stage, range : Range, bills : Bills, prior : Prior, named : SUBSET Member]
AllNew == [t \in Ticket |-> "new"]
Pulling(stage, range, bills, prior, named) ==
  [at |-> stage, range |-> range, bills |-> bills, prior |-> prior, named |-> named]
Asking(stage, range) == Pulling(stage, range, NoBills, AllNew, {})
Idle == Asking("idle", <<1, 1>>)

\* Every variable keeps its type; fetchedThrough and running stay in step
\* with the guarded pulls.
PullTypeOK ==
  /\ day \in FirstDay..LastDay
  /\ till \in Bills /\ store \in Bills
  /\ booked \subseteq Member
  /\ cache \in [Range -> SUBSET Bills]
  /\ running \in BOOLEAN
  /\ fetchedThrough \in {0} \cup Date
  /\ pull \in [Puller -> Pull]
  /\ reported \subseteq Ticket
  /\ since \in {0} \cup Date /\ ever \in {0} \cup Date
  /\ slipped \subseteq Ticket

PullInit ==
  /\ day = FirstDay
  /\ till = NoBills /\ store = NoBills
  /\ booked = {} /\ reported = {} /\ slipped = {}
  /\ cache = [r \in Range |-> {}]
  /\ running = FALSE
  /\ fetchedThrough = 0 /\ since = 0 /\ ever = 0
  /\ pull = [p \in Puller |-> Idle]
-----------------------------------------------------------------------------
(* The venue.                                                              *)

Midnight ==
  /\ day < LastDay
  /\ day' = day + 1
  /\ UNCHANGED <<till, store, booked, cache, running, fetchedThrough, pull,
                 reported, since, ever, slipped>>

\* The till files a bill under the day it was paid, or opened until it is.
CashierWorks(t) ==
  /\ till[t].state < Paid
  /\ till' = [till EXCEPT ![t] = [state |-> till[t].state + 1, date |-> day]]
  /\ UNCHANGED <<day, store, booked, cache, running, fetchedThrough, pull,
                 reported, since, ever, slipped>>

\* What the orchestrator's run looked up is older than this step's writes.
Slips ==
  slipped' = IF \E p \in Guarded : pull[p].at \in {"save", "book"}
             THEN slipped \cup {t \in Ticket : store'[t] # store[t]}
             ELSE slipped

\* The extension sends a paid bill, and may send it again.
IngestSambaTicket(t) ==
  /\ t \in Pushed /\ till[t].state = Paid
  /\ store' = [store EXCEPT ![t] = till[t]]
  /\ Slips
  /\ UNCHANGED <<day, till, booked, cache, running, fetchedThrough, pull,
                 reported, since, ever>>

\* What the process kept in memory is gone; files and the database are not.
Restart ==
  /\ Restarts = "restarts"
  /\ running' = FALSE
  /\ fetchedThrough' = 0 /\ since' = 0 /\ slipped' = {}
  /\ pull' = [p \in Puller |-> Idle]
  /\ UNCHANGED <<day, till, store, booked, cache, reported, ever>>
-----------------------------------------------------------------------------
(* The orchestrator.                                                       *)

Larger(a, b) == IF a > b THEN a ELSE b

\* The business date of the newest stored bill, if there is any.  A bill paid
\* before six in the morning belongs to the day before.
LatestImportedDates ==
  LET dates == {store[t].date : t \in {u \in Ticket : store[u].state # Unknown}}
      newest == {d \in dates : \A e \in dates : d >= e}
  IN  newest \cup {d - 1 : d \in newest}

\* The date catchUpFrom may return: 0 when its lookup fails or finds no bill.
CatchUpFrom ==
  IF fetchedThrough # 0 THEN {fetchedThrough}
  ELSE LatestImportedDates \cup {0}

Scheduled(owed) ==
  LET from == day - Lookback + 1
      floor == day - MaxCatchUp + 1
  IN  <<IF owed # 0 /\ owed < from THEN Larger(owed, floor) ELSE from, day>>

Requested == {r \in Asked : r[1] <= r[2] /\ r[2] <= day + Ahead}

Ready(p, r) ==
  /\ pull[p].at = "idle"
  /\ pull' = [pull EXCEPT ![p] = Asking("ready", r)]
  /\ UNCHANGED <<day, till, store, booked, cache, running, fetchedThrough,
                 reported, since, ever, slipped>>

\* A tick of the poll loop, or its run at startup.
Tick == \E owed \in CatchUpFrom : Ready(Loop, Scheduled(owed))

\* A manager's run, of a range of days or, without one, of a scheduled pull's.
Trigger(p) ==
  /\ p \in Manual
  /\ \/ \E r \in Requested : Ready(p, r)
     \/ \E owed \in CatchUpFrom : Ready(p, Scheduled(owed))

\* Mutated form: a run does not look whether another one is under way.
BeginRunAnyway(p) ==
  /\ pull[p].at = "ready"
  /\ running' = TRUE
  /\ pull' = [pull EXCEPT ![p] = Asking("fetch", pull[p].range)]
  /\ UNCHANGED <<day, till, store, booked, cache, fetchedThrough, reported, since, ever, slipped>>

\* A run that finds another one under way is dropped.
BeginRun(p) ==
  /\ pull[p].at = "ready"
  /\ running' = TRUE
  /\ pull' = [pull EXCEPT ![p] = IF running THEN Idle ELSE Asking("fetch", pull[p].range)]
  /\ UNCHANGED <<day, till, store, booked, cache, fetchedThrough, reported, since, ever, slipped>>

\* Mutated form: a manual run marks the gap as filled too.
MarksAlways(p) == pull[p].at = "done" /\ pull[p].range[2] > fetchedThrough

\* Only a scheduled pull that succeeded moves fetchedThrough.
Marks(p) ==
  p = Loop /\ pull[p].at = "done" /\ pull[p].range[2] > fetchedThrough

\* Mutated form: a run that fails leaves the orchestrator running.
FinishRunOnSuccess(p) ==
  /\ pull[p].at \in {"done", "failed"}
  /\ running' = (running /\ (p \in Direct \/ pull[p].at = "failed"))
  /\ pull' = [pull EXCEPT ![p] = Idle]
  /\ IF Marks(p)
       THEN /\ fetchedThrough' = pull[p].range[2]
            /\ since' = IF since = 0 THEN pull[p].range[1] ELSE since
            /\ ever' = IF ever = 0 THEN pull[p].range[1] ELSE ever
       ELSE UNCHANGED <<fetchedThrough, since, ever>>
  /\ UNCHANGED <<day, till, store, booked, cache, reported, slipped>>

FinishRun(p) ==
  /\ pull[p].at \in {"done", "failed"}
  /\ running' = (running /\ p \in Direct)
  /\ pull' = [pull EXCEPT ![p] = Idle]
  /\ IF Marks(p)
       THEN /\ fetchedThrough' = pull[p].range[2]
            /\ since' = IF since = 0 THEN pull[p].range[1] ELSE since
            /\ ever' = IF ever = 0 THEN pull[p].range[1] ELSE ever
       ELSE UNCHANGED <<fetchedThrough, since, ever>>
  /\ UNCHANGED <<day, till, store, booked, cache, reported, slipped>>
-----------------------------------------------------------------------------
(* PullTickets, which the orchestrator runs and other callers run as well. *)

\* The pull endpoint, the first page of clean tickets, or the daily job.
PullDirectly(p) ==
  /\ p \in Direct
  /\ pull[p].at = "idle"
  /\ \E r \in Requested : pull' = [pull EXCEPT ![p] = Asking("fetch", r)]
  /\ UNCHANGED <<day, till, store, booked, cache, running, fetchedThrough,
                 reported, since, ever, slipped>>

Fetched(p, bills) ==
  pull' = [pull EXCEPT ![p] = Pulling("lookup", pull[p].range, bills, AllNew, {})]
OnTheTill(r) ==
  [t \in Ticket |-> IF till[t].state # Unknown /\ till[t].date \in r[1]..r[2]
                      THEN till[t] ELSE NoBill]

\* The till answers, and its answer is kept.
FetchTickets(p) ==
  /\ pull[p].at = "fetch"
  /\ LET answer == OnTheTill(pull[p].range)
     IN  /\ cache' = [cache EXCEPT ![pull[p].range] = {answer}]
         /\ Fetched(p, answer)
  /\ UNCHANGED <<day, till, store, booked, running, fetchedThrough, reported, since, ever, slipped>>

\* It does not: an answer kept for exactly this range will do, if there is one.
FetchCached(p) ==
  /\ pull[p].at = "fetch"
  /\ \E answer \in cache[pull[p].range] : Fetched(p, answer)
  /\ UNCHANGED <<day, till, store, booked, cache, running, fetchedThrough,
                 reported, since, ever, slipped>>

\* Neither, or the answer cannot be kept or read; or the lookup in pos_tickets fails.
PullFails(p) ==
  /\ pull[p].at \in {"fetch", "lookup"}
  /\ pull' = [pull EXCEPT ![p] = Asking("failed", pull[p].range)]
  /\ UNCHANGED <<day, till, store, booked, cache, running, fetchedThrough,
                 reported, since, ever, slipped>>

Left(p) == {t \in Ticket : pull[p].bills[t].state # Unknown}

\* Mutated form: every bill of the answer is saved, stored or not.
ExistingTicketsUnread(p) ==
  /\ pull[p].at = "lookup"
  /\ pull' = [pull EXCEPT ![p] =
       Pulling("save", pull[p].range, pull[p].bills, AllNew, {})]
  /\ UNCHANGED <<day, till, store, booked, cache, running, fetchedThrough,
                 reported, since, ever, slipped>>

ExistingTickets(p) ==
  /\ pull[p].at = "lookup"
  /\ pull' = [pull EXCEPT ![p] =
       Pulling("save", pull[p].range, pull[p].bills,
               [t \in Ticket |-> IF t \notin Left(p) \/ store[t].state = Unknown THEN "new"
                                 ELSE IF t \in booked THEN "booked" ELSE "unbooked"], {})]
  /\ UNCHANGED <<day, till, store, booked, cache, running, fetchedThrough,
                 reported, since, ever, slipped>>

\* The loop over the answer is done with t, except for booking it to a member.
Leaves(p, t, named) ==
  pull' = [pull EXCEPT ![p] =
    Pulling(IF named = {} THEN "save" ELSE "book", pull[p].range,
            [pull[p].bills EXCEPT ![t] = NoBill], [pull[p].prior EXCEPT ![t] = "new"], named)]

\* Mutated form: every ticket is somebody's.
NamesakeOfAny(t) == {t}

\* The ticket, if its customer turns out to be a member.
Namesake(t) == {t} \cap Member

\* A ticket already stored is left as it is, but may still get its member.
SkipExisting(p, t) ==
  /\ pull[p].at = "save" /\ t \in Left(p)
  /\ pull[p].prior[t] # "new"
  /\ Leaves(p, t, IF pull[p].prior[t] = "unbooked" THEN Namesake(t) ELSE {})
  /\ UNCHANGED <<day, till, store, booked, cache, running, fetchedThrough,
                 reported, since, ever, slipped>>

\* Any of the four attempts may be the one that gets through.
SaveSambaTicket(p, t) ==
  /\ pull[p].at = "save" /\ t \in Left(p)
  /\ pull[p].prior[t] = "new"
  /\ store' = [store EXCEPT ![t] = pull[p].bills[t]]
  /\ IF p \in Direct THEN Slips ELSE UNCHANGED slipped
  /\ Leaves(p, t, Namesake(t))
  /\ UNCHANGED <<day, till, booked, cache, running, fetchedThrough, reported, since, ever>>

\* Every attempt came back an error; one of them may have been stored.
SaveFails(p, t) ==
  /\ pull[p].at = "save" /\ t \in Left(p)
  /\ pull[p].prior[t] = "new"
  /\ reported' = reported \cup {t}
  /\ store' \in {store, [store EXCEPT ![t] = pull[p].bills[t]]}
  /\ IF p \in Direct THEN Slips ELSE UNCHANGED slipped
  /\ Leaves(p, t, {})
  /\ UNCHANGED <<day, till, booked, cache, running, fetchedThrough, since, ever>>

Booked(p) ==
  pull' = [pull EXCEPT ![p] = Pulling("save", pull[p].range, pull[p].bills, pull[p].prior, {})]

\* The customer is found to be a member, and the database books the ticket.
Attribute(p) ==
  /\ pull[p].at = "book"
  /\ booked' = booked \cup pull[p].named
  /\ Booked(p)
  /\ UNCHANGED <<day, till, store, cache, running, fetchedThrough, reported, since, ever, slipped>>

\* The index, the till or the database fails, or does not know the member yet.
AttributeFails(p) ==
  /\ pull[p].at = "book"
  /\ Booked(p)
  /\ UNCHANGED <<day, till, store, booked, cache, running, fetchedThrough,
                 reported, since, ever, slipped>>

PullCompletes(p) ==
  /\ pull[p].at = "save" /\ Left(p) = {}
  /\ pull' = [pull EXCEPT ![p] = Asking("done", pull[p].range)]
  /\ slipped' = IF p \in Direct THEN slipped ELSE {}
  /\ UNCHANGED <<day, till, store, booked, cache, running, fetchedThrough,
                 reported, since, ever>>
-----------------------------------------------------------------------------
PullStep(p) ==
  \/ FetchTickets(p) \/ FetchCached(p) \/ PullFails(p)
  \/ ExistingTickets(p)
  \/ \E t \in Ticket : SkipExisting(p, t) \/ SaveSambaTicket(p, t) \/ SaveFails(p, t)
  \/ Attribute(p) \/ AttributeFails(p)
  \/ PullCompletes(p) \/ FinishRun(p)

PullNext ==
  \/ Midnight \/ Restart
  \/ \E t \in Ticket : CashierWorks(t) \/ IngestSambaTicket(t)
  \/ Tick
  \/ \E p \in Puller : Trigger(p) \/ PullDirectly(p) \/ BeginRun(p) \/ PullStep(p)

PullSpec == PullInit /\ [][PullNext]_pullVars

\* The loop keeps ticking and its calls return; the till, the database and the
\* member's arrival on the till may be late again and again, but not for ever.
PullFairness ==
  /\ WF_pullVars(Tick) /\ WF_pullVars(BeginRun(Loop)) /\ WF_pullVars(PullStep(Loop))
  /\ SF_pullVars(FetchTickets(Loop)) /\ SF_pullVars(ExistingTickets(Loop))
  /\ SF_pullVars(Attribute(Loop))

FairPullSpec == PullSpec /\ PullFairness
-----------------------------------------------------------------------------
(* What the pulls are for.                                                 *)

Accounted(t) == store[t].state # Unknown \/ t \in reported

\* The days before fetchedThrough a catch-up can reach, starting at `first`.
Filled(first) == {d \in Date : d >= first /\ d > fetchedThrough - MaxCatchUp /\ d < fetchedThrough}

\* fetchedThrough tells the truth (its comment, and finishRun's): within the
\* reach of a catch-up, every bill of the days before it, from the first day
\* this process pulled, is in pos_tickets or was listed as a failure.  Outages,
\* failed lookups, answers from the cache, manual runs and pulls running
\* beside the poll loop included.
NoGap ==
  \A t \in Ticket : since # 0 /\ till[t].date \in Filled(since) => Accounted(t)

\* The same across restarts: catchUpFrom's comment says that an outage that
\* spanned a deploy is caught up too, given a stored bill to start from.
NoGapAcrossDeploys ==
  \A t \in Ticket :
    /\ ever # 0 /\ till[t].date \in Filled(ever)
    /\ \E u \in Ticket : store[u].date \in 1..till[t].date
    => Accounted(t)

\* No run of the orchestrator puts an older version of a bill over a newer
\* one, unless a push or a pull of another caller stored the newer one after
\* the run had looked up what is stored.  Saving overwrites, long after that
\* lookup: against another run only the orchestrator's running protects, and
\* against a push or a direct pull nothing does.
ImportsNeverRegress ==
  [][\A p \in Guarded, t \in Ticket :
       pull'[p] # pull[p] => store'[t].state >= store[t].state \/ t \in slipped]_pullVars

\* Every bill from the first day pulled on gets into pos_tickets or onto a
\* list of failures: polling does not stop, stall or pass over a day.
EventuallyImported ==
  \A t \in Ticket :
    (since # 0 /\ till[t].state # Unknown /\ till[t].date >= since) ~> Accounted(t)
=============================================================================
