--------------------------- MODULE SambaPullProofs ---------------------------
(***************************************************************************)
(* Proofs about the till pulls, for any number of tickets, pulls, days and *)
(* restarts: that fetchedThrough never passes over a bill, and that the    *)
(* runs the orchestrator serialises overwrite no bill with an older one,   *)
(* unless a push or a pull beside them came in between.                    *)
(***************************************************************************)
EXTENDS SambaPull, TLAPS

LEMMA Dates ==
  /\ Lookback \in Nat /\ Lookback >= 1 /\ MaxCatchUp \in Nat /\ MaxCatchUp >= 1
  /\ Ahead \in Nat /\ LastDay \in Nat /\ FirstDay \in Nat
  /\ 2 <= FirstDay /\ FirstDay <= LastDay
  /\ \A d \in Date : d \in Nat /\ 1 <= d /\ d <= LastDay
  /\ Asked \subseteq Range
  BY DatesAssumption, AskedAssumption DEF FirstDay, Date, Range

LEMMA BillTypes ==
  /\ NoBill \in Bill
  /\ \A b \in Bill : b.state \in 0..2 /\ b.date \in 0..LastDay
  /\ \A b \in Bill : b.state # Unknown => b.date \in Date /\ b.date - 1 \in Date
  /\ \A b \in Bill : b.state = Unknown => b = NoBill
  /\ NoBills \in Bills /\ AllNew \in Prior
  BY Dates DEF Bill, NoBill, Unknown, Open, Paid, Date, NoBills, Bills, AllNew, Prior

LEMMA PullTypes ==
  ASSUME NEW at \in Stage, NEW r \in Range, NEW bills \in Bills, NEW prior \in Prior,
         NEW named \in SUBSET Member
  PROVE  Pulling(at, r, bills, prior, named) \in Pull
  BY DEF Pulling, Pull

LEMMA AskingTypes ==
  ASSUME NEW at \in Stage, NEW r \in Range
  PROVE  Asking(at, r) \in Pull
  BY PullTypes, BillTypes DEF Asking

LEMMA IdleType == Idle \in Pull
  BY AskingTypes, Dates DEF Idle, Stage, Range, Date

\* A scheduled pull asks for days up to today, and starts no later than the
\* owed day or the reach of a catch-up.
LEMMA ScheduledRange ==
  ASSUME PullTypeOK, NEW owed \in {0} \cup Date
  PROVE  /\ Scheduled(owed) \in Range
         /\ Scheduled(owed)[1] \in Date /\ Scheduled(owed)[2] = day
         /\ Scheduled(owed)[1] <= day
         /\ owed # 0 => \/ Scheduled(owed)[1] <= owed
                        \/ Scheduled(owed)[1] <= day - MaxCatchUp + 1
<1>1. day \in Nat /\ FirstDay <= day /\ day <= LastDay /\ day \in Date
  BY Dates DEF PullTypeOK, Date
<1>2. owed \in Nat /\ owed <= LastDay
  BY Dates
<1>3. day - Lookback + 1 \in Date /\ day - Lookback + 1 <= day
  BY <1>1, Dates DEF Date, FirstDay
<1>4. ASSUME owed # 0, owed < day - Lookback + 1
      PROVE  /\ Larger(owed, day - MaxCatchUp + 1) \in Date
             /\ Larger(owed, day - MaxCatchUp + 1) <= day
             /\ \/ Larger(owed, day - MaxCatchUp + 1) <= owed
                \/ Larger(owed, day - MaxCatchUp + 1) <= day - MaxCatchUp + 1
  BY <1>1, <1>2, <1>3, <1>4, Dates DEF Larger, Date
<1>5. CASE owed # 0 /\ owed < day - Lookback + 1
  <2>1. Scheduled(owed) = <<Larger(owed, day - MaxCatchUp + 1), day>>
    BY <1>5 DEF Scheduled
  <2>2. QED
    BY <2>1, <1>4, <1>5, <1>1 DEF Range
<1>6. CASE ~(owed # 0 /\ owed < day - Lookback + 1)
  <2>1. Scheduled(owed) = <<day - Lookback + 1, day>>
    BY <1>6 DEF Scheduled
  <2>2. owed # 0 => day - Lookback + 1 <= owed
    BY <1>6, <1>1, <1>2, Dates
  <2>3. QED
    BY <2>1, <2>2, <1>3, <1>1 DEF Range
<1>7. QED
  BY <1>5, <1>6

LEMMA OwedTypes ==
  ASSUME PullTypeOK
  PROVE  CatchUpFrom \subseteq {0} \cup Date
<1>1. \A t \in Ticket : store[t] \in Bill
  BY DEF PullTypeOK, Bills
<1>2. LatestImportedDates \subseteq Date
  BY <1>1, BillTypes DEF LatestImportedDates
<1>3. fetchedThrough \in {0} \cup Date
  BY DEF PullTypeOK
<1>4. QED
  BY <1>2, <1>3 DEF CatchUpFrom
-----------------------------------------------------------------------------
(* Types.                                                                  *)

LEMMA PullFields ==
  ASSUME PullTypeOK, NEW p \in Puller
  PROVE  /\ pull[p] \in Pull
         /\ pull[p].at \in Stage /\ pull[p].range \in Range
         /\ pull[p].range[1] \in Date /\ pull[p].range[2] \in Date
         /\ pull[p].bills \in Bills /\ pull[p].prior \in Prior
         /\ pull[p].named \in SUBSET Member
<1>1. pull[p] \in Pull
  BY DEF PullTypeOK
<1>2. pull[p].range \in Range
  BY <1>1 DEF Pull
<1>3. QED
  BY <1>1, <1>2 DEF Pull, Range

LEMMA PullChanges ==
  ASSUME PullTypeOK, NEW p \in Puller, NEW now \in Pull,
         pull' = [pull EXCEPT ![p] = now]
  PROVE  /\ pull' \in [Puller -> Pull]
         /\ pull'[p] = now
         /\ \A q \in Puller : q # p => pull'[q] = pull[q]
  BY DEF PullTypeOK

LEMMA TillTypes ==
  ASSUME PullTypeOK, NEW r \in Range
  PROVE  OnTheTill(r) \in Bills
  BY BillTypes DEF OnTheTill, PullTypeOK, Bills

LEMMA StoreTypes ==
  ASSUME PullTypeOK, NEW t \in Ticket, NEW b \in Bill
  PROVE  [store EXCEPT ![t] = b] \in Bills
  BY DEF PullTypeOK, Bills

LEMMA LeavesTypes ==
  ASSUME PullTypeOK, NEW p \in Puller, NEW t \in Ticket, NEW named \in SUBSET Member,
         Leaves(p, t, named)
  PROVE  /\ pull' \in [Puller -> Pull]
         /\ \A q \in Puller : q # p => pull'[q] = pull[q]
         /\ pull'[p].at \in {"save", "book"}
         /\ pull'[p].range = pull[p].range
         /\ pull'[p].bills = [pull[p].bills EXCEPT ![t] = NoBill]
         /\ pull'[p].prior = [pull[p].prior EXCEPT ![t] = "new"]
<1> DEFINE at == IF named = {} THEN "save" ELSE "book"
           bills == [pull[p].bills EXCEPT ![t] = NoBill]
           prior == [pull[p].prior EXCEPT ![t] = "new"]
<1>1. at \in Stage /\ at \in {"save", "book"}
  BY DEF Stage
<1>2. bills \in Bills
  BY PullFields, BillTypes DEF Bills
<1>3. prior \in Prior
  BY PullFields DEF Prior
<1>4. Pulling(at, pull[p].range, bills, prior, named) \in Pull
  BY <1>1, <1>2, <1>3, PullTypes, PullFields
<1>5. pull' = [pull EXCEPT ![p] = Pulling(at, pull[p].range, bills, prior, named)]
  BY DEF Leaves
<1>6. /\ pull' \in [Puller -> Pull]
      /\ pull'[p] = Pulling(at, pull[p].range, bills, prior, named)
      /\ \A q \in Puller : q # p => pull'[q] = pull[q]
  <2> HIDE DEF at, bills, prior
  <2>1. QED
    BY <1>4, <1>5, PullChanges
<1>7. QED
  BY <1>1, <1>6 DEF Pulling

\* Every step of the system, with the pull that takes it.
LEMMA Steps ==
  ASSUME PullNext
  PROVE  \/ Midnight \/ Restart
         \/ \E t \in Ticket : CashierWorks(t) \/ IngestSambaTicket(t)
         \/ Tick
         \/ \E p \in Puller :
              \/ Trigger(p) \/ PullDirectly(p) \/ BeginRun(p)
              \/ FetchTickets(p) \/ FetchCached(p) \/ PullFails(p) \/ ExistingTickets(p)
              \/ \E t \in Ticket : SkipExisting(p, t) \/ SaveSambaTicket(p, t) \/ SaveFails(p, t)
              \/ Attribute(p) \/ AttributeFails(p) \/ PullCompletes(p) \/ FinishRun(p)
  BY DEF PullNext, PullStep

LEMMA RequestedTypes ==
  ASSUME NEW r \in Requested
  PROVE  r \in Range /\ r[1] <= r[2] /\ r[2] <= day + Ahead
  BY Dates DEF Requested

\* A pull that starts, goes on to another stage or gives up.
LEMMA AskingStep ==
  ASSUME PullTypeOK, NEW p \in Puller, NEW at \in Stage, NEW r \in Range,
         pull' = [pull EXCEPT ![p] = Asking(at, r)]
  PROVE  /\ pull' \in [Puller -> Pull]
         /\ pull'[p] = Asking(at, r)
         /\ \A q \in Puller : q # p => pull'[q] = pull[q]
  BY AskingTypes, PullChanges

LEMMA PullTypeStep ==
  ASSUME PullTypeOK, PullNext
  PROVE  PullTypeOK'
<1> USE DEF PullTypeOK
<1>1. ASSUME Midnight PROVE PullTypeOK'
  BY <1>1, Dates DEF Midnight
<1>2. ASSUME Restart PROVE PullTypeOK'
  BY <1>2, IdleType DEF Restart
<1>3. ASSUME NEW t \in Ticket, CashierWorks(t) PROVE PullTypeOK'
  <2>1. [state |-> till[t].state + 1, date |-> day] \in Bill
    <3>1. till[t].state \in 0..2 /\ till[t].state < Paid
      BY <1>3, BillTypes DEF CashierWorks, Bills
    <3>2. till[t].state + 1 \in {Open, Paid}
      BY <3>1 DEF Open, Paid
    <3>3. QED
      BY <3>2 DEF Bill
  <2>2. QED
    BY <1>3, <2>1 DEF CashierWorks, Bills
<1>4. ASSUME NEW t \in Ticket, IngestSambaTicket(t) PROVE PullTypeOK'
  <2>1. store' \in Bills
    BY <1>4 DEF IngestSambaTicket, Bills
  <2>2. slipped' \subseteq Ticket
    BY <1>4 DEF IngestSambaTicket, Slips
  <2>3. QED
    BY <1>4, <2>1, <2>2 DEF IngestSambaTicket
<1>5. ASSUME Tick PROVE PullTypeOK'
  <2>1. PICK owed \in CatchUpFrom : Ready(Loop, Scheduled(owed))
    BY <1>5 DEF Tick
  <2>2. Scheduled(owed) \in Range
    BY OwedTypes, ScheduledRange
  <2>3. QED
    BY <2>1, <2>2, AskingStep DEF Ready, Stage, Puller, Guarded
<1>6. ASSUME NEW p \in Puller, Trigger(p) PROVE PullTypeOK'
  <2>1. PICK r \in Range : Ready(p, r)
    BY <1>6, OwedTypes, ScheduledRange, RequestedTypes DEF Trigger
  <2>2. QED
    BY <2>1, AskingStep DEF Ready, Stage
<1>7. ASSUME NEW p \in Puller, PullDirectly(p) PROVE PullTypeOK'
  <2>1. PICK r \in Requested : pull' = [pull EXCEPT ![p] = Asking("fetch", r)]
    BY <1>7 DEF PullDirectly
  <2>2. QED
    BY <1>7, <2>1, AskingStep, RequestedTypes DEF PullDirectly, Stage
<1>8. ASSUME NEW p \in Puller, BeginRun(p) PROVE PullTypeOK'
  <2>1. (IF running THEN Idle ELSE Asking("fetch", pull[p].range)) \in Pull
    BY IdleType, AskingTypes, PullFields DEF Stage
  <2>2. QED
    BY <1>8, <2>1, PullChanges DEF BeginRun
<1>9. ASSUME NEW p \in Puller, FetchTickets(p) PROVE PullTypeOK'
  <2>1. OnTheTill(pull[p].range) \in Bills
    BY TillTypes, PullFields
  <2>2. Pulling("lookup", pull[p].range, OnTheTill(pull[p].range), AllNew, {}) \in Pull
    BY <2>1, PullTypes, PullFields, BillTypes DEF Stage
  <2>3. QED
    BY <1>9, <2>1, <2>2, PullChanges DEF FetchTickets, Fetched
<1>10. ASSUME NEW p \in Puller, FetchCached(p) PROVE PullTypeOK'
  <2>1. PICK answer \in cache[pull[p].range] : Fetched(p, answer)
    BY <1>10 DEF FetchCached
  <2>2. answer \in Bills
    BY PullFields
  <2>3. Pulling("lookup", pull[p].range, answer, AllNew, {}) \in Pull
    BY <2>2, PullTypes, PullFields, BillTypes DEF Stage
  <2>4. QED
    BY <1>10, <2>1, <2>3, PullChanges DEF FetchCached, Fetched
<1>11. ASSUME NEW p \in Puller, PullFails(p) PROVE PullTypeOK'
  BY <1>11, AskingStep, PullFields DEF PullFails, Stage
<1>12. ASSUME NEW p \in Puller, ExistingTickets(p) PROVE PullTypeOK'
  <2> DEFINE prior == [t \in Ticket |->
        IF t \notin Left(p) \/ store[t].state = Unknown THEN "new"
        ELSE IF t \in booked THEN "booked" ELSE "unbooked"]
  <2>1. prior \in Prior
    BY DEF Prior
  <2>2. pull' = [pull EXCEPT ![p] = Pulling("save", pull[p].range, pull[p].bills, prior, {})]
    BY <1>12 DEF ExistingTickets
  <2> HIDE DEF prior
  <2>3. Pulling("save", pull[p].range, pull[p].bills, prior, {}) \in Pull
    BY <2>1, PullTypes, PullFields DEF Stage
  <2>4. QED
    BY <1>12, <2>2, <2>3, PullChanges DEF ExistingTickets
<1>13. ASSUME NEW p \in Puller, NEW t \in Ticket,
              SkipExisting(p, t) \/ SaveSambaTicket(p, t) \/ SaveFails(p, t)
       PROVE  PullTypeOK'
  <2>1. PICK named \in SUBSET Member : Leaves(p, t, named)
    BY <1>13 DEF SkipExisting, SaveSambaTicket, SaveFails, Namesake
  <2>2. pull' \in [Puller -> Pull]
    BY <2>1, LeavesTypes
  <2>3. pull[p].bills[t] \in Bill
    BY PullFields DEF Bills
  <2>4. store' \in Bills /\ reported' \subseteq Ticket
    BY <1>13, <2>3, StoreTypes DEF SkipExisting, SaveSambaTicket, SaveFails
  <2>5. slipped' \subseteq Ticket
    BY <1>13 DEF SkipExisting, SaveSambaTicket, SaveFails, Slips
  <2>6. QED
    BY <1>13, <2>2, <2>4, <2>5 DEF SkipExisting, SaveSambaTicket, SaveFails
<1>14. ASSUME NEW p \in Puller, Attribute(p) \/ AttributeFails(p) PROVE PullTypeOK'
  <2>1. Pulling("save", pull[p].range, pull[p].bills, pull[p].prior, {}) \in Pull
    BY PullTypes, PullFields DEF Stage
  <2>2. pull' \in [Puller -> Pull]
    BY <1>14, <2>1, PullChanges DEF Attribute, AttributeFails, Booked
  <2>3. booked' \subseteq Member
    BY <1>14, PullFields DEF Attribute, AttributeFails
  <2>4. QED
    BY <1>14, <2>2, <2>3 DEF Attribute, AttributeFails
<1>15. ASSUME NEW p \in Puller, PullCompletes(p) PROVE PullTypeOK'
  BY <1>15, AskingStep, PullFields DEF PullCompletes, Stage
<1>16. ASSUME NEW p \in Puller, FinishRun(p) PROVE PullTypeOK'
  <2>1. pull' \in [Puller -> Pull]
    BY <1>16, IdleType, PullChanges DEF FinishRun
  <2>2. running' \in BOOLEAN
    BY <1>16 DEF FinishRun
  <2>3. fetchedThrough' \in {0} \cup Date /\ since' \in {0} \cup Date /\ ever' \in {0} \cup Date
    BY <1>16, PullFields DEF FinishRun
  <2>4. QED
    BY <1>16, <2>1, <2>2, <2>3 DEF FinishRun
<1>17. QED
  BY Steps, <1>1, <1>2, <1>3, <1>4, <1>5, <1>6, <1>7, <1>8, <1>9, <1>10, <1>11, <1>12,
     <1>13, <1>14, <1>15, <1>16

\* Every variable keeps its type, whatever the till, the managers and the
\* restarts do.
THEOREM PullTypeCorrect == PullSpec => []PullTypeOK
<1>1. PullInit => PullTypeOK
  <2> SUFFICES ASSUME PullInit PROVE PullTypeOK
    OBVIOUS
  <2>1. day \in FirstDay..LastDay
    BY Dates DEF PullInit
  <2>2. till \in Bills /\ store \in Bills
    BY BillTypes DEF PullInit
  <2>3. cache \in [Range -> SUBSET Bills]
    BY DEF PullInit
  <2>4. pull \in [Puller -> Pull]
    BY IdleType DEF PullInit
  <2>5. QED
    BY <2>1, <2>2, <2>3, <2>4 DEF PullInit, PullTypeOK
<1>2. PullTypeOK /\ [PullNext]_pullVars => PullTypeOK'
  <2>1. CASE PullNext
    BY <2>1, PullTypeStep
  <2>2. CASE UNCHANGED pullVars
    BY <2>2 DEF pullVars, PullTypeOK
  <2>3. QED
    BY <2>1, <2>2
<1>3. QED
  BY <1>1, <1>2, PTL DEF PullSpec
-----------------------------------------------------------------------------
(***************************************************************************)
(* NoGap is not inductive: whether a finished pull may be marked depends   *)
(* on what it was asked and on what it saw.  GapInv adds that a scheduled  *)
(* pull's range reaches back to fetchedThrough (or as far as a catch-up    *)
(* may), that every answer in use or in the cache was given on or after    *)
(* the last day of its range, and so holds every bill of the days before,  *)
(* and that a pull drops a bill from its answer only once it is accounted  *)
(* for.  A bill that moves to another day moves to today, which no answer  *)
(* has to hold.                                                            *)
(***************************************************************************)

InWindow(t, r) == till[t].state # Unknown /\ r[1] <= till[t].date /\ till[t].date < r[2]

DayInv == \A t \in Ticket : till[t].state # Unknown => till[t].date <= day

MarkInv ==
  /\ since = 0 <=> fetchedThrough = 0
  /\ since <= fetchedThrough /\ fetchedThrough <= day

CacheOK(r) ==
  \A b \in cache[r] :
    r[2] <= day /\ \A t \in Ticket : InWindow(t, r) => b[t].state # Unknown

NotAhead(p) == pull[p].range[1] <= pull[p].range[2] /\ pull[p].range[2] <= day

Holds(p) ==
  pull[p].at \in {"lookup", "save", "book", "done"} =>
    \A t \in Ticket :
      InWindow(t, pull[p].range) =>
        Accounted(t) \/ (pull[p].at # "done" /\ pull[p].bills[t].state # Unknown)

Stored(p) == \A t \in Ticket : pull[p].prior[t] # "new" => store[t].state # Unknown

PullOK(p) == NotAhead(p) /\ Holds(p) /\ Stored(p)

LoopOK ==
  pull[Loop].at \in {"ready", "fetch", "lookup", "save", "book", "done"} /\ fetchedThrough # 0 =>
    \/ pull[Loop].range[1] <= fetchedThrough
    \/ pull[Loop].range[1] <= pull[Loop].range[2] - MaxCatchUp + 1

GapInv ==
  /\ PullTypeOK /\ DayInv /\ MarkInv /\ LoopOK /\ NoGap
  /\ \A r \in Range : CacheOK(r)
  /\ \A p \in Puller : PullOK(p)

\* Bills accounted for stay accounted for.
Grows ==
  /\ \A t \in Ticket : store[t].state # Unknown => store'[t].state # Unknown
  /\ reported \subseteq reported'

LEMMA PullKept ==
  ASSUME GapInv, Grows, till' = till, day' = day, NEW p \in Puller, pull'[p] = pull[p]
  PROVE  PullOK(p)'
  BY DEF GapInv, Grows, PullOK, NotAhead, Holds, Stored, InWindow, Accounted

LEMMA CacheKept ==
  ASSUME GapInv, till' = till, day' = day, NEW r \in Range, cache'[r] = cache[r]
  PROVE  CacheOK(r)'
  BY DEF GapInv, CacheOK, InWindow

LEMMA GapKept ==
  ASSUME GapInv, Grows, till' = till, fetchedThrough' = fetchedThrough, since' = since
  PROVE  NoGap'
  BY DEF GapInv, Grows, NoGap, Filled, Accounted

\* A step that leaves the till, the days and the marks as they are has to
\* care for the pull that takes it and for nothing else.
LEMMA OnePull ==
  ASSUME GapInv, PullTypeOK', Grows, NEW p \in Puller,
         \A q \in Puller : q # p => pull'[q] = pull[q],
         PullOK(p)', p = Loop => LoopOK',
         UNCHANGED <<till, day, cache, fetchedThrough, since>>
  PROVE  GapInv'
<1>1. \A q \in Puller : PullOK(q)'
  BY PullKept
<1>2. \A r \in Range : CacheOK(r)'
  BY CacheKept
<1>3. NoGap'
  BY GapKept
<1>4. DayInv' /\ MarkInv'
  BY DEF GapInv, DayInv, MarkInv
<1>5. LoopOK'
  BY DEF GapInv, LoopOK, Puller, Guarded
<1>6. QED
  BY <1>1, <1>2, <1>3, <1>4, <1>5 DEF GapInv

LEMMA NothingGrows ==
  ASSUME UNCHANGED <<store, reported>>
  PROVE  Grows
  BY DEF Grows

LEMMA Fields ==
  ASSUME NEW at, NEW r, NEW bills, NEW prior, NEW named
  PROVE  LET x == Pulling(at, r, bills, prior, named)
         IN  x.at = at /\ x.range = r /\ x.bills = bills /\ x.prior = prior
  BY DEF Pulling

LEMMA AskingFields ==
  ASSUME NEW at, NEW r
  PROVE  /\ Asking(at, r).at = at /\ Asking(at, r).range = r
         /\ \A t \in Ticket : Asking(at, r).bills[t].state = Unknown
         /\ \A t \in Ticket : Asking(at, r).prior[t] = "new"
  BY DEF Asking, Pulling, NoBills, NoBill, AllNew

LEMMA GapMidnight ==
  ASSUME GapInv, PullTypeOK', Midnight
  PROVE  GapInv'
<1>1. day \in Nat /\ day' = day + 1
  BY Dates DEF GapInv, PullTypeOK, Midnight
<1>2. \A t \in Ticket : till[t].date \in Nat
  BY BillTypes, Dates DEF GapInv, PullTypeOK, Bills
<1>3. \A r \in Range : r[1] \in Nat /\ r[2] \in Nat
  BY Dates DEF Range
<1>4. DayInv' /\ MarkInv'
  BY <1>1, <1>2, Dates DEF GapInv, DayInv, MarkInv, Midnight, PullTypeOK
<1>5. \A r \in Range : CacheOK(r)'
  BY <1>1, <1>3 DEF GapInv, CacheOK, InWindow, Midnight
<1>6. ASSUME NEW p \in Puller PROVE PullOK(p)'
  <2>1. pull[p].range \in Range
    BY PullFields DEF GapInv
  <2>2. PullOK(p) /\ UNCHANGED <<pull, till, store, reported>>
    BY DEF GapInv, Midnight
  <2>3. QED
    BY <2>1, <2>2, <1>1, <1>3 DEF PullOK, NotAhead, Holds, Stored, InWindow, Accounted
<1>7. LoopOK' /\ NoGap'
  BY DEF GapInv, LoopOK, NoGap, Filled, Accounted, Midnight
<1>8. QED
  BY <1>4, <1>5, <1>6, <1>7 DEF GapInv

LEMMA GapCashier ==
  ASSUME GapInv, PullTypeOK', NEW t \in Ticket, CashierWorks(t)
  PROVE  GapInv'
<1>1. /\ till'[t].date = day /\ \A u \in Ticket : u # t => till'[u] = till[u]
      /\ UNCHANGED <<day, store, cache, fetchedThrough, pull, reported, since>>
  BY DEF GapInv, PullTypeOK, Bills, CashierWorks
<1>2. day \in Nat /\ fetchedThrough \in Nat /\ since \in Nat
  BY Dates DEF GapInv, PullTypeOK
<1>3. \A r \in Range : r[1] \in Nat /\ r[2] \in Nat
  BY Dates DEF Range
<1>4. DayInv' /\ MarkInv' /\ LoopOK'
  BY <1>1, <1>2 DEF GapInv, DayInv, MarkInv, LoopOK
<1>5. ASSUME NEW r \in Range, r[2] <= day, NEW u \in Ticket, InWindow(u, r)'
      PROVE  InWindow(u, r)
  BY <1>1, <1>2, <1>3, <1>5 DEF InWindow
<1>6. \A r \in Range : CacheOK(r)'
  BY <1>1, <1>5 DEF GapInv, CacheOK
<1>7. ASSUME NEW p \in Puller PROVE PullOK(p)'
  <2>1. pull[p].range \in Range /\ PullOK(p)
    BY PullFields DEF GapInv
  <2>2. \A u \in Ticket : InWindow(u, pull[p].range)' => InWindow(u, pull[p].range)
    BY <2>1, <1>5, <1>1 DEF PullOK, NotAhead
  <2>3. QED
    BY <2>1, <2>2, <1>1 DEF PullOK, NotAhead, Holds, Stored, Accounted
<1>8. NoGap'
  <2>1. fetchedThrough <= day
    BY DEF GapInv, MarkInv
  <2>2. QED
    BY <2>1, <1>1, <1>2 DEF GapInv, NoGap, Filled, Accounted
<1>9. QED
  BY <1>4, <1>6, <1>7, <1>8 DEF GapInv

LEMMA GapPush ==
  ASSUME GapInv, PullTypeOK', NEW t \in Ticket, IngestSambaTicket(t)
  PROVE  GapInv'
<1>1. Grows
  BY DEF IngestSambaTicket, Grows, GapInv, PullTypeOK, Bills, Paid, Unknown
<1>2. UNCHANGED <<till, day, cache, fetchedThrough, since, pull>>
  BY DEF IngestSambaTicket
<1>3. QED
  BY <1>1, <1>2, PullKept, CacheKept, GapKept DEF GapInv, DayInv, MarkInv, LoopOK

LEMMA GapRestart ==
  ASSUME GapInv, PullTypeOK', Restart
  PROVE  GapInv'
<1>1. \A p \in Puller : pull'[p] = Asking("idle", <<1, 1>>)
  BY DEF Restart, Idle
<1>2. day \in Nat /\ day >= 1
  BY Dates DEF GapInv, PullTypeOK
<1>3. \A p \in Puller : PullOK(p)'
  BY <1>1, <1>2, AskingFields DEF PullOK, NotAhead, Holds, Stored, Restart
<1>4. LoopOK' /\ NoGap' /\ MarkInv' /\ DayInv'
  BY <1>2 DEF LoopOK, NoGap, MarkInv, DayInv, Restart, GapInv
<1>5. \A r \in Range : CacheOK(r)'
  BY CacheKept DEF Restart
<1>6. QED
  BY <1>3, <1>4, <1>5 DEF GapInv

\* A pull at a stage where it holds no answer.
LEMMA Empty ==
  ASSUME NEW p \in Puller, NEW at \in {"idle", "ready", "fetch", "failed"}, NEW r,
         pull'[p] = Asking(at, r), r[1] <= r[2], r[2] <= day, day' = day
  PROVE  PullOK(p)'
  BY AskingFields DEF PullOK, NotAhead, Holds, Stored

LEMMA GapReady ==
  ASSUME GapInv, PullTypeOK', NEW p \in Puller, NEW r \in Range, Ready(p, r),
         r[1] <= r[2], r[2] <= day,
         p = Loop /\ fetchedThrough # 0 =>
           r[1] <= fetchedThrough \/ r[1] <= r[2] - MaxCatchUp + 1
  PROVE  GapInv'
<1>1. /\ pull'[p] = Asking("ready", r)
      /\ \A q \in Puller : q # p => pull'[q] = pull[q]
      /\ UNCHANGED <<till, day, store, cache, fetchedThrough, since, reported>>
  BY DEF Ready, GapInv, PullTypeOK
<1>2. PullOK(p)'
  BY <1>1, Empty
<1>3. p = Loop => LoopOK'
  BY <1>1, AskingFields DEF LoopOK
<1>4. QED
  BY <1>1, <1>2, <1>3, NothingGrows, OnePull

LEMMA GapTick ==
  ASSUME GapInv, PullTypeOK', Tick
  PROVE  GapInv'
<1>1. PICK owed \in CatchUpFrom : Ready(Loop, Scheduled(owed))
  BY DEF Tick
<1>2. owed \in {0} \cup Date
  BY OwedTypes DEF GapInv
<1>3. fetchedThrough # 0 => owed = fetchedThrough
  BY DEF CatchUpFrom
<1>4. Loop \in Puller
  BY DEF Puller, Guarded
<1>5. Scheduled(owed) \in Range /\ Scheduled(owed)[1] <= Scheduled(owed)[2] /\ Scheduled(owed)[2] <= day
  BY <1>2, ScheduledRange, Dates DEF GapInv, PullTypeOK
<1>6. fetchedThrough # 0 => \/ Scheduled(owed)[1] <= fetchedThrough
                           \/ Scheduled(owed)[1] <= Scheduled(owed)[2] - MaxCatchUp + 1
  BY <1>2, <1>3, ScheduledRange DEF GapInv
<1>7. QED
  BY <1>1, <1>4, <1>5, <1>6, GapReady

LEMMA GapTrigger ==
  ASSUME GapInv, PullTypeOK', Ahead = 0, NEW p \in Puller, Trigger(p)
  PROVE  GapInv'
<1>1. p # Loop
  BY PullersAssumption DEF Trigger
<1>2. day \in Nat
  BY Dates DEF GapInv, PullTypeOK
<1>3. CASE \E r \in Requested : Ready(p, r)
  <2>1. PICK r \in Requested : Ready(p, r)
    BY <1>3
  <2>2. r \in Range /\ r[1] <= r[2] /\ r[2] <= day
    BY RequestedTypes, <1>2
  <2>3. QED
    BY <2>1, <2>2, <1>1, GapReady
<1>4. CASE \E owed \in CatchUpFrom : Ready(p, Scheduled(owed))
  <2>1. PICK owed \in CatchUpFrom : Ready(p, Scheduled(owed))
    BY <1>4
  <2>2. owed \in {0} \cup Date
    BY OwedTypes DEF GapInv
  <2>3. Scheduled(owed) \in Range /\ Scheduled(owed)[1] <= Scheduled(owed)[2] /\ Scheduled(owed)[2] <= day
    BY <2>2, <1>2, ScheduledRange DEF GapInv
  <2>4. QED
    BY <2>1, <2>3, <1>1, GapReady
<1>5. QED
  BY <1>3, <1>4 DEF Trigger

LEMMA GapDirect ==
  ASSUME GapInv, PullTypeOK', Ahead = 0, NEW p \in Puller, PullDirectly(p)
  PROVE  GapInv'
<1>1. PICK r \in Requested : pull' = [pull EXCEPT ![p] = Asking("fetch", r)]
  BY DEF PullDirectly
<1>2. r[1] <= r[2] /\ r[2] <= day
  BY RequestedTypes, Dates DEF GapInv, PullTypeOK
<1>3. /\ pull'[p] = Asking("fetch", r)
      /\ \A q \in Puller : q # p => pull'[q] = pull[q]
  BY <1>1 DEF GapInv, PullTypeOK
<1>4. UNCHANGED <<till, day, store, cache, fetchedThrough, since, reported>>
  BY DEF PullDirectly
<1>5. p # Loop
  BY PullersAssumption DEF PullDirectly
<1>6. PullOK(p)'
  BY <1>2, <1>3, <1>4, Empty
<1>7. QED
  BY <1>3, <1>4, <1>5, <1>6, NothingGrows, OnePull

LEMMA GapBegin ==
  ASSUME GapInv, PullTypeOK', NEW p \in Puller, BeginRun(p)
  PROVE  GapInv'
<1>1. /\ \A q \in Puller : q # p => pull'[q] = pull[q]
      /\ UNCHANGED <<till, day, store, cache, fetchedThrough, since, reported>>
  BY DEF BeginRun, GapInv, PullTypeOK
<1>2. day \in Nat /\ day >= 1 /\ NotAhead(p) /\ pull[p].at = "ready"
  BY Dates DEF GapInv, PullTypeOK, PullOK, BeginRun
<1>3. CASE running
  <2>1. pull'[p] = Asking("idle", <<1, 1>>)
    BY <1>3 DEF BeginRun, GapInv, PullTypeOK, Idle
  <2>2. PullOK(p)'
    BY <1>1, <1>2, <2>1, Empty
  <2>3. p = Loop => LoopOK'
    BY <2>1, AskingFields DEF LoopOK
  <2>4. QED
    BY <1>1, <2>2, <2>3, NothingGrows, OnePull
<1>4. CASE ~running
  <2>1. pull'[p] = Asking("fetch", pull[p].range)
    BY <1>4 DEF BeginRun, GapInv, PullTypeOK
  <2>2. PullOK(p)'
    BY <1>1, <1>2, <2>1, Empty DEF NotAhead
  <2>3. p = Loop => LoopOK'
    BY <1>1, <1>2, <2>1, AskingFields DEF LoopOK, GapInv
  <2>4. QED
    BY <1>1, <2>2, <2>3, NothingGrows, OnePull
<1>5. QED
  BY <1>3, <1>4

\* A pull that goes on with an answer leaves its range as it is.
LEMMA GapWorks ==
  ASSUME GapInv, PullTypeOK', NEW p \in Puller, Grows,
         \A q \in Puller : q # p => pull'[q] = pull[q],
         UNCHANGED <<till, day, cache, fetchedThrough, since>>,
         pull[p].at \in {"fetch", "lookup", "save", "book"},
         pull'[p].range = pull[p].range,
         Holds(p)', Stored(p)'
  PROVE  GapInv'
<1>1. PullOK(p)'
  BY DEF GapInv, PullOK, NotAhead
<1>2. p = Loop => LoopOK'
  BY DEF GapInv, LoopOK
<1>3. QED
  BY <1>1, <1>2, OnePull

LEMMA FetchedFields ==
  ASSUME PullTypeOK, NEW p \in Puller, NEW bills, Fetched(p, bills)
  PROVE  /\ \A q \in Puller : q # p => pull'[q] = pull[q]
         /\ pull'[p].at = "lookup"
         /\ pull'[p].range = pull[p].range /\ pull'[p].bills = bills
         /\ \A t \in Ticket : pull'[p].prior[t] = "new"
  BY DEF PullTypeOK, Fetched, Pulling, AllNew

LEMMA GapFetch ==
  ASSUME GapInv, PullTypeOK', NEW p \in Puller, FetchTickets(p)
  PROVE  GapInv'
<1> DEFINE r == pull[p].range
           answer == OnTheTill(r)
<1>1. PullTypeOK /\ r \in Range /\ r[1] \in Nat /\ r[2] \in Nat /\ r[2] <= day
  BY PullFields, Dates DEF GapInv, PullOK, NotAhead
<1>2. Fetched(p, answer) /\ cache' = [cache EXCEPT ![r] = {answer}]
  BY DEF FetchTickets
<1>3. \A t \in Ticket : InWindow(t, r) => answer[t].state # Unknown
  <2>1. \A t \in Ticket : till[t].date \in Nat
    BY <1>1, BillTypes DEF PullTypeOK, Bills
  <2>2. QED
    BY <1>1, <2>1 DEF InWindow, OnTheTill
<1>4. UNCHANGED <<till, day, store, fetchedThrough, since, reported>>
  BY DEF FetchTickets
<1> HIDE DEF answer
<1>5. /\ \A q \in Puller : q # p => pull'[q] = pull[q]
      /\ pull'[p].at = "lookup" /\ pull'[p].range = r /\ pull'[p].bills = answer
      /\ \A t \in Ticket : pull'[p].prior[t] = "new"
  BY <1>1, <1>2, FetchedFields
<1>6. PullOK(p)'
  BY <1>3, <1>4, <1>5 DEF PullOK, NotAhead, Holds, Stored, InWindow, GapInv
<1>7. \A q \in Puller : PullOK(q)'
  BY <1>4, <1>5, <1>6, PullKept, NothingGrows
<1>8. ASSUME NEW s \in Range PROVE CacheOK(s)'
  <2>1. CASE s = r
    <3>1. cache'[s] = {answer}
      BY <2>1, <1>1, <1>2 DEF PullTypeOK
    <3>2. QED
      BY <3>1, <2>1, <1>1, <1>3, <1>4 DEF CacheOK, InWindow
  <2>2. CASE s # r
    <3>1. cache'[s] = cache[s]
      BY <2>2, <1>1, <1>2 DEF PullTypeOK
    <3>2. QED
      BY <3>1, <1>4, CacheKept
  <2>3. QED
    BY <2>1, <2>2
<1>9. LoopOK'
  BY <1>4, <1>5 DEF FetchTickets, GapInv, LoopOK, Puller, Guarded
<1>10. DayInv' /\ MarkInv' /\ NoGap'
  BY <1>4, GapKept, NothingGrows DEF GapInv, DayInv, MarkInv
<1>11. QED
  BY <1>7, <1>8, <1>9, <1>10 DEF GapInv

LEMMA GapCached ==
  ASSUME GapInv, PullTypeOK', NEW p \in Puller, FetchCached(p)
  PROVE  GapInv'
<1>1. PICK answer \in cache[pull[p].range] : Fetched(p, answer)
  BY DEF FetchCached
<1>2. pull[p].range \in Range /\ CacheOK(pull[p].range) /\ PullTypeOK
  BY PullFields DEF GapInv
<1>3. /\ \A q \in Puller : q # p => pull'[q] = pull[q]
      /\ pull'[p].at = "lookup"
      /\ pull'[p].range = pull[p].range /\ pull'[p].bills = answer
      /\ \A t \in Ticket : pull'[p].prior[t] = "new"
  BY <1>1, <1>2, FetchedFields
<1>4. UNCHANGED <<till, day, store, cache, fetchedThrough, since, reported>> /\ pull[p].at = "fetch"
  BY DEF FetchCached
<1>5. Holds(p)' /\ Stored(p)'
  BY <1>2, <1>3, <1>4 DEF CacheOK, Holds, Stored, InWindow
<1>6. QED
  BY <1>3, <1>4, <1>5, NothingGrows, GapWorks

LEMMA GapAsking ==
  ASSUME GapInv, PullTypeOK', NEW p \in Puller, PullFails(p) \/ PullCompletes(p)
  PROVE  GapInv'
<1>1. /\ \A q \in Puller : q # p => pull'[q] = pull[q]
      /\ UNCHANGED <<till, day, store, cache, fetchedThrough, since, reported>>
      /\ pull[p].at \in {"fetch", "lookup", "save"}
  BY DEF PullFails, PullCompletes, GapInv, PullTypeOK
<1>2. PICK at \in {"failed", "done"} : pull'[p] = Asking(at, pull[p].range)
  BY DEF PullFails, PullCompletes, GapInv, PullTypeOK
<1>3. pull'[p].range = pull[p].range /\ Stored(p)'
  BY <1>2, AskingFields DEF Stored
<1>4. Holds(p)'
  <2>1. CASE PullFails(p)
    <3>1. pull'[p].at = "failed"
      BY <2>1, AskingFields DEF PullFails, GapInv, PullTypeOK
    <3>2. QED
      BY <3>1 DEF Holds
  <2>2. CASE PullCompletes(p)
    <3>1. \A t \in Ticket : pull[p].bills[t].state = Unknown
      BY <2>2 DEF PullCompletes, Left
    <3>2. \A t \in Ticket : InWindow(t, pull[p].range) => Accounted(t)
      BY <2>2, <3>1 DEF GapInv, PullOK, Holds, PullCompletes
    <3>3. QED
      BY <3>2, <1>1, <1>3 DEF Holds, InWindow, Accounted
  <2>3. QED
    BY <2>1, <2>2
<1>5. QED
  BY <1>1, <1>3, <1>4, NothingGrows, GapWorks

LEMMA GapLookup ==
  ASSUME GapInv, PullTypeOK', NEW p \in Puller, ExistingTickets(p)
  PROVE  GapInv'
<1> DEFINE prior == [t \in Ticket |->
      IF t \notin Left(p) \/ store[t].state = Unknown THEN "new"
      ELSE IF t \in booked THEN "booked" ELSE "unbooked"]
<1>1. \A t \in Ticket : prior[t] # "new" => store[t].state # Unknown
  OBVIOUS
<1>2. pull'[p] = Pulling("save", pull[p].range, pull[p].bills, prior, {})
  BY DEF ExistingTickets, GapInv, PullTypeOK
<1>3. /\ \A q \in Puller : q # p => pull'[q] = pull[q]
      /\ UNCHANGED <<till, day, store, cache, fetchedThrough, since, reported>>
      /\ pull[p].at = "lookup"
  BY DEF ExistingTickets, GapInv, PullTypeOK
<1> HIDE DEF prior
<1>4. /\ pull'[p].at = "save"
      /\ pull'[p].range = pull[p].range /\ pull'[p].bills = pull[p].bills
      /\ pull'[p].prior = prior
  BY <1>2, Fields
<1>5. Holds(p)' /\ Stored(p)'
  BY <1>1, <1>3, <1>4 DEF GapInv, PullOK, Holds, Stored, InWindow, Accounted
<1>6. QED
  BY <1>3, <1>4, <1>5, NothingGrows, GapWorks

LEMMA GapTicket ==
  ASSUME GapInv, PullTypeOK', NEW p \in Puller, NEW t \in Ticket,
         SkipExisting(p, t) \/ SaveSambaTicket(p, t) \/ SaveFails(p, t)
  PROVE  GapInv'
<1>1. PICK named \in SUBSET Member : Leaves(p, t, named)
  BY DEF SkipExisting, SaveSambaTicket, SaveFails, Namesake
<1>2. PullTypeOK /\ pull[p].at = "save" /\ pull[p].bills[t].state # Unknown
  BY DEF GapInv, SkipExisting, SaveSambaTicket, SaveFails, Left
<1>3. /\ \A q \in Puller : q # p => pull'[q] = pull[q]
      /\ pull'[p].at \in {"save", "book"}
      /\ pull'[p].range = pull[p].range
      /\ pull'[p].bills = [pull[p].bills EXCEPT ![t] = NoBill]
      /\ pull'[p].prior = [pull[p].prior EXCEPT ![t] = "new"]
  BY <1>1, <1>2, LeavesTypes
<1>4. \A u \in Ticket : u # t => /\ pull'[p].bills[u] = pull[p].bills[u]
                                /\ pull'[p].prior[u] = pull[p].prior[u]
  BY <1>2, <1>3, PullFields DEF Bills, Prior
<1>5. pull'[p].prior[t] = "new"
  BY <1>2, <1>3, PullFields DEF Prior
<1>6. UNCHANGED <<till, day, cache, fetchedThrough, since>>
  BY DEF SkipExisting, SaveSambaTicket, SaveFails
<1>7. Grows
  BY <1>2 DEF SkipExisting, SaveSambaTicket, SaveFails, Grows, PullTypeOK, Bills
<1>8. Accounted(t)'
  <2>1. CASE SkipExisting(p, t)
    BY <2>1 DEF SkipExisting, Accounted, GapInv, PullOK, Stored
  <2>2. CASE SaveSambaTicket(p, t)
    BY <2>2, <1>2 DEF SaveSambaTicket, Accounted, PullTypeOK, Bills
  <2>3. CASE SaveFails(p, t)
    BY <2>3 DEF SaveFails, Accounted
  <2>4. QED
    BY <2>1, <2>2, <2>3
<1>9. Holds(p)'
  BY <1>2, <1>3, <1>4, <1>6, <1>7, <1>8 DEF GapInv, PullOK, Holds, InWindow, Grows, Accounted
<1>10. Stored(p)'
  BY <1>4, <1>5, <1>7 DEF GapInv, PullOK, Stored, Grows
<1>11. QED
  BY <1>2, <1>3, <1>6, <1>7, <1>9, <1>10, GapWorks

LEMMA GapBook ==
  ASSUME GapInv, PullTypeOK', NEW p \in Puller, Attribute(p) \/ AttributeFails(p)
  PROVE  GapInv'
<1>1. pull'[p] = Pulling("save", pull[p].range, pull[p].bills, pull[p].prior, {})
  BY DEF Attribute, AttributeFails, Booked, GapInv, PullTypeOK
<1>2. /\ \A q \in Puller : q # p => pull'[q] = pull[q]
      /\ UNCHANGED <<till, day, store, cache, fetchedThrough, since, reported>>
      /\ pull[p].at = "book"
  BY DEF Attribute, AttributeFails, Booked, GapInv, PullTypeOK
<1>3. /\ pull'[p].at = "save"
      /\ pull'[p].range = pull[p].range /\ pull'[p].bills = pull[p].bills
      /\ pull'[p].prior = pull[p].prior
  BY <1>1, Fields
<1>4. Holds(p)' /\ Stored(p)'
  BY <1>2, <1>3 DEF GapInv, PullOK, Holds, Stored, InWindow, Accounted
<1>5. QED
  BY <1>2, <1>3, <1>4, NothingGrows, GapWorks

LEMMA GapFinish ==
  ASSUME GapInv, PullTypeOK', NEW p \in Puller, FinishRun(p)
  PROVE  GapInv'
<1>1. /\ pull'[p] = Asking("idle", <<1, 1>>)
      /\ \A q \in Puller : q # p => pull'[q] = pull[q]
      /\ UNCHANGED <<till, day, store, cache, reported>>
  BY DEF FinishRun, Idle, GapInv, PullTypeOK
<1>2. day \in Nat /\ day >= 1 /\ fetchedThrough \in Nat /\ since \in Nat
  BY Dates DEF GapInv, PullTypeOK
<1>3. PullOK(p)'
  BY <1>1, <1>2, Empty
<1>4. p = Loop => LoopOK'
  BY <1>1, AskingFields DEF LoopOK
<1>5. CASE ~Marks(p)
  <2>1. UNCHANGED <<fetchedThrough, since>>
    BY <1>5 DEF FinishRun
  <2>2. QED
    BY <1>1, <1>3, <1>4, <2>1, NothingGrows, OnePull
<1>6. CASE Marks(p)
  <2> DEFINE from == pull[p].range[1]
             to == pull[p].range[2]
  <2>1. /\ fetchedThrough' = to /\ since' = IF since = 0 THEN from ELSE since
        /\ p = Loop /\ pull[p].at = "done" /\ to > fetchedThrough
    BY <1>6 DEF FinishRun, Marks
  <2>2. from \in Nat /\ to \in Nat /\ 1 <= from /\ from <= to /\ to <= day
    BY PullFields, Dates DEF GapInv, PullOK, NotAhead
  <2>3. fetchedThrough # 0 => from <= fetchedThrough \/ from <= to - MaxCatchUp + 1
    BY <2>1 DEF GapInv, LoopOK
  <2>4. \A t \in Ticket : InWindow(t, pull[p].range) => Accounted(t)
    BY <2>1 DEF GapInv, PullOK, Holds
  <2>5. \A t \in Ticket : /\ till[t].date \in Nat
                          /\ till[t].date \in Date => till[t].state # Unknown
    BY BillTypes, Dates DEF GapInv, PullTypeOK, Bills, NoBill
  <2> HIDE DEF from, to
  <2>6. ASSUME NEW t \in Ticket, since' # 0, till[t].date \in Date,
               till[t].date >= since', till[t].date > to - MaxCatchUp, till[t].date < to
        PROVE  Accounted(t)
    <3>1. CASE till[t].date >= from
      BY <3>1, <2>4, <2>5, <2>6 DEF InWindow, from, to
    <3>2. CASE till[t].date < from
      <4>1. since # 0 /\ since' = since /\ fetchedThrough # 0
        BY <3>2, <2>1, <2>2, <2>5, <2>6, <1>2 DEF GapInv, MarkInv
      <4>2. till[t].date < fetchedThrough
        BY <3>2, <4>1, <2>3, <2>2, <2>5, <2>6, <1>2, Dates
      <4>3. till[t].date > fetchedThrough - MaxCatchUp
        BY <2>1, <2>2, <2>5, <2>6, <1>2, Dates
      <4>4. QED
        BY <4>1, <4>2, <4>3, <2>6 DEF GapInv, NoGap, Filled
    <3>3. QED
      BY <3>1, <3>2, <2>2, <2>5
  <2>7. NoGap'
    BY <2>6, <2>1, <1>1 DEF NoGap, Filled, Accounted
  <2>8. MarkInv'
    BY <2>1, <2>2, <1>1, <1>2 DEF GapInv, MarkInv
  <2>9. \A q \in Puller : PullOK(q)'
    BY <1>1, <1>3, PullKept, NothingGrows
  <2>10. \A r \in Range : CacheOK(r)'
    BY <1>1, CacheKept
  <2>11. DayInv' /\ LoopOK'
    BY <1>1, <1>4, <2>1 DEF GapInv, DayInv
  <2>12. QED
    BY <2>7, <2>8, <2>9, <2>10, <2>11 DEF GapInv
<1>7. QED
  BY <1>5, <1>6

LEMMA GapStep ==
  ASSUME GapInv, Ahead = 0, PullNext
  PROVE  GapInv'
<1>1. PullTypeOK'
  BY PullTypeStep DEF GapInv
<1>2. QED
  BY <1>1, Steps, GapMidnight, GapRestart, GapCashier, GapPush, GapTick, GapTrigger, GapDirect,
     GapBegin, GapFetch, GapCached, GapAsking, GapLookup, GapTicket, GapBook, GapFinish

LEMMA GapStart ==
  ASSUME PullInit, PullTypeOK
  PROVE  GapInv
<1>1. \A p \in Puller : pull[p] = Asking("idle", <<1, 1>>)
  BY DEF PullInit, Idle
<1>2. day \in Nat /\ day >= 1
  BY Dates DEF PullTypeOK
<1>3. \A p \in Puller : PullOK(p)
  BY <1>1, <1>2, AskingFields DEF PullOK, NotAhead, Holds, Stored
<1>4. DayInv /\ MarkInv /\ NoGap
  BY <1>2 DEF PullInit, DayInv, MarkInv, NoGap, NoBills, NoBill
<1>5. LoopOK
  BY <1>1, AskingFields DEF LoopOK, Puller, Guarded, PullInit
<1>6. \A r \in Range : CacheOK(r)
  BY DEF PullInit, CacheOK
<1>7. QED
  BY <1>3, <1>4, <1>5, <1>6 DEF GapInv

\* When nobody asks for days to come, fetchedThrough never passes over a bill
\* within the reach of a catch-up, whatever fails, restarts or runs beside
\* the poll loop (orchestrator: pullRequest, finishRun).
THEOREM GapFree == Ahead = 0 => (PullSpec => []NoGap)
<1>1. PullInit /\ PullTypeOK => GapInv
  BY GapStart
<1>2. Ahead = 0 /\ GapInv /\ [PullNext]_pullVars => GapInv'
  <2>1. CASE PullNext
    BY <2>1, GapStep
  <2>2. ASSUME UNCHANGED pullVars, GapInv PROVE GapInv'
    BY <2>2 DEF pullVars, GapInv, PullTypeOK, DayInv, MarkInv, LoopOK, NoGap, CacheOK, PullOK,
       NotAhead, Holds, Stored, InWindow, Accounted, Filled
  <2>3. QED
    BY <2>1, <2>2
<1>3. GapInv => NoGap
  BY DEF GapInv
<1>4. SUFFICES ASSUME Ahead = 0 PROVE PullSpec => []NoGap
  OBVIOUS
<1>5. GapInv /\ [PullNext]_pullVars => GapInv'
  BY <1>2, <1>4
<1>6. QED
  BY <1>1, <1>3, <1>5, PullTypeCorrect, PTL DEF PullSpec
-----------------------------------------------------------------------------
(***************************************************************************)
(* Serialised runs.  Of the runs that go through the orchestrator one at a *)
(* time is under way, so that what its lookup did not find stays unstored  *)
(* until it saves it, but for what a push or a pull beside it has stored   *)
(* since: slipped.                                                         *)
(***************************************************************************)

Busy(p) == pull[p].at \in {"fetch", "lookup", "save", "book", "done", "failed"}
Saving(p) == pull[p].at \in {"save", "book"}

Fresh(p) ==
  Saving(p) =>
    \A t \in Ticket :
      pull[p].prior[t] = "new" /\ pull[p].bills[t].state # Unknown =>
        store[t].state = Unknown \/ t \in slipped

TurnInv ==
  /\ PullTypeOK
  /\ \A p \in Guarded : Busy(p) => running
  /\ \A p, q \in Guarded : Busy(p) /\ Busy(q) => p = q
  /\ \A p \in Guarded : Fresh(p)

NeverRegress ==
  \A p \in Guarded, t \in Ticket :
    pull'[p] # pull[p] => store'[t].state >= store[t].state \/ t \in slipped

LEMMA States ==
  ASSUME PullTypeOK
  PROVE  \A t \in Ticket : store[t].state \in Nat
  BY BillTypes DEF PullTypeOK, Bills

LEMMA Guards ==
  /\ Loop \in Guarded /\ Guarded \subseteq Puller
  /\ \A p \in Guarded : p \notin Direct
  /\ \A p \in Puller : p \in Guarded \/ p \in Direct
  BY PullersAssumption DEF Puller, Guarded

LEMMA Quiet ==
  ASSUME TurnInv, PullTypeOK', store' = store
  PROVE  NeverRegress
  BY States DEF NeverRegress, TurnInv

\* A step of a guarded run that was busy, or that is not busy afterwards.
LEMMA Turn ==
  ASSUME TurnInv, PullTypeOK', NEW p \in Guarded,
         \A q \in Puller : q # p => pull'[q] = pull[q],
         Busy(p)' => Busy(p), Busy(p)' => running', running = running' \/ Busy(p),
         Fresh(p)', UNCHANGED <<store, slipped>> \/ Busy(p)
  PROVE  TurnInv'
<1> USE Guards
<1>1. \A q \in Guarded : q # p => (Busy(q)' <=> Busy(q))
  BY DEF Busy
<1>2. \A q, r \in Guarded : Busy(q)' /\ Busy(r)' => q = r
  BY <1>1 DEF TurnInv
<1>3. ASSUME NEW q \in Guarded, q # p, Busy(q)'
      PROVE  running' /\ store' = store /\ slipped' = slipped
  BY <1>1, <1>3 DEF TurnInv
<1>4. \A q \in Guarded : Busy(q)' => running'
  BY <1>3
<1>5. ASSUME NEW q \in Guarded, q # p PROVE Fresh(q)'
  <2>1. CASE Busy(q)'
    BY <2>1, <1>3, <1>5 DEF Fresh, Saving, TurnInv
  <2>2. CASE ~Busy(q)'
    BY <2>2 DEF Fresh, Saving, Busy
  <2>3. QED
    BY <2>1, <2>2
<1>6. \A q \in Guarded : Fresh(q)'
  BY <1>5
<1>7. QED
  BY <1>2, <1>4, <1>6 DEF TurnInv

\* A step beside the guarded runs: what it stores while one of them is saving
\* has slipped past that one's lookup.
LEMMA Beside ==
  ASSUME TurnInv, PullTypeOK', \A q \in Guarded : pull'[q] = pull[q],
         running => running', UNCHANGED <<store, slipped>> \/ Slips
  PROVE  TurnInv' /\ NeverRegress
<1>1. \A q \in Guarded : (Busy(q)' <=> Busy(q)) /\ (Saving(q)' <=> Saving(q))
  BY DEF Busy, Saving
<1>2. ASSUME NEW q \in Guarded, Saving(q)', NEW t \in Ticket,
             store[t].state = Unknown \/ t \in slipped
      PROVE  store'[t].state = Unknown \/ t \in slipped'
  BY <1>1, <1>2 DEF Slips, Saving
<1>3. ASSUME NEW q \in Guarded PROVE Fresh(q)'
  BY <1>1, <1>2 DEF Fresh, TurnInv
<1>4. QED
  BY <1>1, <1>3 DEF TurnInv, NeverRegress

\* The steps of PullTickets itself leave everything but their own pull.
LEMMA TurnDirect ==
  ASSUME TurnInv, PullTypeOK', NEW p \in Direct,
         \/ FetchTickets(p) \/ FetchCached(p) \/ PullFails(p) \/ ExistingTickets(p)
         \/ \E t \in Ticket : SkipExisting(p, t) \/ SaveSambaTicket(p, t) \/ SaveFails(p, t)
         \/ Attribute(p) \/ AttributeFails(p) \/ PullCompletes(p) \/ FinishRun(p)
  PROVE  TurnInv' /\ NeverRegress
<1>1. pull \in [Puller -> Pull] /\ running \in BOOLEAN /\ p \in Puller
  BY DEF TurnInv, PullTypeOK, Puller
<1>2. \A q \in Guarded : q # p /\ q \in Puller
  BY Guards
<1>3. CASE \/ FetchTickets(p) \/ FetchCached(p) \/ PullFails(p) \/ ExistingTickets(p)
           \/ Attribute(p) \/ AttributeFails(p) \/ PullCompletes(p)
  <2>1. UNCHANGED <<store, slipped, running>>
    BY <1>3 DEF FetchTickets, FetchCached, PullFails, ExistingTickets, Attribute,
       AttributeFails, PullCompletes
  <2>2. \A q \in Guarded : pull'[q] = pull[q]
    BY <1>1, <1>2, <1>3 DEF FetchTickets, FetchCached, Fetched, PullFails, ExistingTickets,
       Attribute, AttributeFails, Booked, PullCompletes
  <2>3. QED
    BY <2>1, <2>2, Beside
<1>4. ASSUME NEW t \in Ticket, SkipExisting(p, t) \/ SaveSambaTicket(p, t) \/ SaveFails(p, t)
      PROVE  TurnInv' /\ NeverRegress
  <2>1. PICK named \in SUBSET Member : Leaves(p, t, named)
    BY <1>4 DEF SkipExisting, SaveSambaTicket, SaveFails, Namesake
  <2>2. \A q \in Guarded : pull'[q] = pull[q]
    BY <1>1, <1>2, <2>1, LeavesTypes DEF TurnInv
  <2>3. running' = running /\ (UNCHANGED <<store, slipped>> \/ Slips)
    BY <1>4 DEF SkipExisting, SaveSambaTicket, SaveFails
  <2>4. QED
    BY <2>2, <2>3, Beside
<1>5. CASE FinishRun(p)
  <2>1. UNCHANGED <<store, slipped, running>>
    BY <1>1, <1>5 DEF FinishRun
  <2>2. \A q \in Guarded : pull'[q] = pull[q]
    BY <1>1, <1>2, <1>5 DEF FinishRun
  <2>3. QED
    BY <2>1, <2>2, Beside
<1>6. QED
  BY <1>3, <1>4, <1>5

\* One by one, the steps of a guarded run.
LEMMA TurnReady ==
  ASSUME TurnInv, PullTypeOK', NEW p \in Guarded, NEW r, Ready(p, r)
  PROVE  TurnInv' /\ NeverRegress
<1> USE Guards
<1>1. pull'[p] = Asking("ready", r)
  BY DEF Ready, TurnInv, PullTypeOK
<1>2. ~Busy(p)' /\ Fresh(p)'
  BY <1>1, AskingFields DEF Busy, Saving, Fresh
<1>3. UNCHANGED <<store, slipped, running>> /\ \A q \in Puller : q # p => pull'[q] = pull[q]
  BY DEF Ready, TurnInv, PullTypeOK
<1>4. QED
  BY <1>2, <1>3, Turn, Quiet

LEMMA TurnBegin ==
  ASSUME TurnInv, PullTypeOK', NEW p \in Guarded, BeginRun(p)
  PROVE  TurnInv' /\ NeverRegress
<1> USE Guards
<1>1. /\ UNCHANGED <<store, slipped>> /\ running'
      /\ \A q \in Puller : q # p => pull'[q] = pull[q]
  BY DEF BeginRun, TurnInv, PullTypeOK
<1>2. CASE running
  <2>1. pull'[p] = Asking("idle", <<1, 1>>)
    BY <1>2 DEF BeginRun, TurnInv, PullTypeOK, Idle
  <2>2. ~Busy(p)' /\ Fresh(p)'
    BY <2>1, AskingFields DEF Busy, Saving, Fresh
  <2>3. running' = running
    BY <1>2 DEF BeginRun
  <2>4. QED
    BY <1>1, <2>2, <2>3, Turn, Quiet
<1>3. CASE ~running
  <2>1. pull'[p].at = "fetch"
    BY <1>3, AskingFields DEF BeginRun, TurnInv, PullTypeOK
  <2>2. \A q \in Guarded : Busy(q)' => q = p
    BY <1>1, <1>3 DEF TurnInv, Busy
  <2>3. \A q \in Guarded : Fresh(q)'
    BY <2>1, <2>2 DEF Fresh, Saving, Busy
  <2>4. QED
    BY <1>1, <2>2, <2>3, Quiet DEF TurnInv
<1>4. QED
  BY <1>2, <1>3

LEMMA TurnFetch ==
  ASSUME TurnInv, PullTypeOK', NEW p \in Guarded,
         FetchTickets(p) \/ FetchCached(p) \/ PullFails(p) \/ PullCompletes(p)
  PROVE  TurnInv' /\ NeverRegress
<1> USE Guards
<1>1. pull'[p].at \in {"lookup", "failed", "done"}
  BY AskingFields, Fields
     DEF FetchTickets, FetchCached, Fetched, PullFails, PullCompletes, TurnInv, PullTypeOK
<1>2. /\ UNCHANGED <<store, running>>
      /\ \A q \in Puller : q # p => pull'[q] = pull[q]
      /\ pull[p].at \in {"fetch", "lookup", "save"}
  BY DEF FetchTickets, FetchCached, Fetched, PullFails, PullCompletes, TurnInv, PullTypeOK
<1>3. Busy(p) /\ running /\ Fresh(p)'
  BY <1>1, <1>2 DEF Busy, Saving, Fresh, TurnInv
<1>4. QED
  BY <1>2, <1>3, Turn, Quiet

LEMMA TurnLookup ==
  ASSUME TurnInv, PullTypeOK', NEW p \in Guarded, ExistingTickets(p)
  PROVE  TurnInv' /\ NeverRegress
<1> USE Guards
<1> DEFINE prior == [t \in Ticket |->
      IF t \notin Left(p) \/ store[t].state = Unknown THEN "new"
      ELSE IF t \in booked THEN "booked" ELSE "unbooked"]
<1>1. \A t \in Ticket : prior[t] = "new" /\ pull[p].bills[t].state # Unknown =>
        store[t].state = Unknown
  BY DEF Left
<1>2. pull'[p] = Pulling("save", pull[p].range, pull[p].bills, prior, {})
  BY DEF ExistingTickets, TurnInv, PullTypeOK
<1> HIDE DEF prior
<1>3. pull'[p].at = "save" /\ pull'[p].bills = pull[p].bills /\ pull'[p].prior = prior
  BY <1>2, Fields
<1>4. /\ UNCHANGED <<store, running, slipped>>
      /\ \A q \in Puller : q # p => pull'[q] = pull[q]
      /\ pull[p].at = "lookup"
  BY DEF ExistingTickets, TurnInv, PullTypeOK
<1>5. Busy(p) /\ running /\ Fresh(p)'
  BY <1>1, <1>3, <1>4 DEF Busy, Fresh, TurnInv
<1>6. QED
  BY <1>4, <1>5, Turn, Quiet

LEMMA TurnTicket ==
  ASSUME TurnInv, PullTypeOK', NEW p \in Guarded, NEW t \in Ticket,
         SkipExisting(p, t) \/ SaveSambaTicket(p, t) \/ SaveFails(p, t)
  PROVE  TurnInv' /\ NeverRegress
<1> USE Guards
<1>0. PullTypeOK
  BY DEF TurnInv
<1>1. PICK named \in SUBSET Member : Leaves(p, t, named)
  BY DEF SkipExisting, SaveSambaTicket, SaveFails, Namesake
<1>2. /\ \A q \in Puller : q # p => pull'[q] = pull[q]
      /\ pull'[p].at \in {"save", "book"}
      /\ pull'[p].bills = [pull[p].bills EXCEPT ![t] = NoBill]
      /\ pull'[p].prior = [pull[p].prior EXCEPT ![t] = "new"]
  BY <1>0, <1>1, LeavesTypes
<1>3. /\ pull'[p].bills[t].state = Unknown
      /\ \A u \in Ticket : u # t => /\ pull'[p].bills[u] = pull[p].bills[u]
                                   /\ pull'[p].prior[u] = pull[p].prior[u]
  BY <1>0, <1>2, PullFields DEF Bills, Prior, NoBill
<1>4. /\ pull[p].at = "save" /\ pull[p].bills[t].state # Unknown
      /\ running' = running /\ slipped' = slipped
      /\ \A u \in Ticket : u # t => store'[u] = store[u]
      /\ SkipExisting(p, t) => store' = store
      /\ ~SkipExisting(p, t) => pull[p].prior[t] = "new"
  BY <1>0 DEF SkipExisting, SaveSambaTicket, SaveFails, Left, PullTypeOK, Bills
<1>5. Busy(p) /\ running /\ Fresh(p) /\ Saving(p)
  BY <1>4 DEF Busy, Saving, TurnInv
<1>6. Fresh(p)'
  BY <1>2, <1>3, <1>4, <1>5 DEF Fresh
<1>7. TurnInv'
  BY <1>2, <1>4, <1>5, <1>6, Turn
<1>8. NeverRegress
  <2>1. CASE SkipExisting(p, t)
    BY <2>1, <1>4, Quiet
  <2>2. CASE ~SkipExisting(p, t)
    <3>1. store[t].state = 0 \/ t \in slipped
      BY <2>2, <1>4, <1>5 DEF Fresh, Unknown
    <3>2. \A u \in Ticket : store[u].state \in Nat /\ store'[u].state \in Nat
      BY <1>0, BillTypes DEF PullTypeOK, Bills
    <3>3. QED
      BY <3>1, <3>2, <1>4 DEF NeverRegress
  <2>3. QED
    BY <2>1, <2>2
<1>9. QED
  BY <1>7, <1>8

LEMMA TurnBook ==
  ASSUME TurnInv, PullTypeOK', NEW p \in Guarded, Attribute(p) \/ AttributeFails(p)
  PROVE  TurnInv' /\ NeverRegress
<1> USE Guards
<1>1. pull'[p] = Pulling("save", pull[p].range, pull[p].bills, pull[p].prior, {})
  BY DEF Attribute, AttributeFails, Booked, TurnInv, PullTypeOK
<1>2. /\ UNCHANGED <<store, running, slipped>>
      /\ \A q \in Puller : q # p => pull'[q] = pull[q]
      /\ pull[p].at = "book"
  BY DEF Attribute, AttributeFails, Booked, TurnInv, PullTypeOK
<1>3. pull'[p].bills = pull[p].bills /\ pull'[p].prior = pull[p].prior
  BY <1>1, Fields
<1>4. Busy(p) /\ running /\ Fresh(p)'
  BY <1>2, <1>3 DEF Busy, Saving, Fresh, TurnInv
<1>5. QED
  BY <1>2, <1>4, Turn, Quiet

LEMMA TurnFinish ==
  ASSUME TurnInv, PullTypeOK', NEW p \in Guarded, FinishRun(p)
  PROVE  TurnInv' /\ NeverRegress
<1> USE Guards
<1>1. pull'[p] = Asking("idle", <<1, 1>>)
  BY DEF FinishRun, TurnInv, PullTypeOK, Idle
<1>2. ~Busy(p)' /\ Fresh(p)'
  BY <1>1, AskingFields DEF Busy, Saving, Fresh
<1>3. /\ UNCHANGED <<store, slipped>> /\ Busy(p)
      /\ \A q \in Puller : q # p => pull'[q] = pull[q]
  BY DEF FinishRun, TurnInv, PullTypeOK, Busy
<1>4. \A q \in Guarded : ~Busy(q)' /\ Fresh(q)'
  BY <1>2, <1>3 DEF TurnInv, Busy, Saving, Fresh
<1>5. QED
  BY <1>3, <1>4, Quiet DEF TurnInv

LEMMA TurnStep ==
  ASSUME TurnInv, PullNext
  PROVE  TurnInv' /\ NeverRegress
<1>1. PullTypeOK'
  BY PullTypeStep DEF TurnInv
<1>2. ASSUME Midnight \/ \E t \in Ticket : CashierWorks(t) PROVE TurnInv' /\ NeverRegress
  <2>1. UNCHANGED <<store, slipped, running, pull>>
    BY <1>2 DEF Midnight, CashierWorks
  <2>2. QED
    BY <1>1, <2>1, Beside
<1>3. ASSUME Restart PROVE TurnInv' /\ NeverRegress
  <2>1. \A p \in Guarded : pull'[p].at = "idle"
    BY <1>3, AskingFields, Guards DEF Restart, Idle
  <2>2. store' = store
    BY <1>3 DEF Restart
  <2>3. QED
    BY <1>1, <2>1, <2>2, Quiet DEF TurnInv, Busy, Saving, Fresh
<1>4. ASSUME NEW t \in Ticket, IngestSambaTicket(t) PROVE TurnInv' /\ NeverRegress
  BY <1>1, <1>4, Beside DEF IngestSambaTicket
<1>5. ASSUME Tick PROVE TurnInv' /\ NeverRegress
  BY <1>1, <1>5, TurnReady, Guards DEF Tick
<1>6. ASSUME NEW p \in Puller, Trigger(p) PROVE TurnInv' /\ NeverRegress
  BY <1>1, <1>6, TurnReady DEF Trigger, Guarded
<1>7. ASSUME NEW p \in Puller, PullDirectly(p) PROVE TurnInv' /\ NeverRegress
  <2>1. UNCHANGED <<store, slipped, running>>
    BY <1>7 DEF PullDirectly
  <2>2. \A q \in Guarded : pull'[q] = pull[q]
    BY <1>7, Guards DEF PullDirectly, TurnInv, PullTypeOK
  <2>3. QED
    BY <1>1, <2>1, <2>2, Beside
<1>8. ASSUME NEW p \in Puller, BeginRun(p) PROVE TurnInv' /\ NeverRegress
  <2>1. CASE p \in Guarded
    BY <1>1, <1>8, <2>1, TurnBegin
  <2>2. CASE p \in Direct
    <3>1. UNCHANGED <<store, slipped>> /\ running'
      BY <1>8 DEF BeginRun
    <3>2. \A q \in Guarded : pull'[q] = pull[q]
      BY <1>8, <2>2, Guards DEF BeginRun, TurnInv, PullTypeOK
    <3>3. QED
      BY <1>1, <3>1, <3>2, Beside
  <2>3. QED
    BY <2>1, <2>2, Guards
<1>9. ASSUME NEW p \in Puller,
             \/ FetchTickets(p) \/ FetchCached(p) \/ PullFails(p) \/ ExistingTickets(p)
             \/ \E t \in Ticket : SkipExisting(p, t) \/ SaveSambaTicket(p, t) \/ SaveFails(p, t)
             \/ Attribute(p) \/ AttributeFails(p) \/ PullCompletes(p) \/ FinishRun(p)
      PROVE  TurnInv' /\ NeverRegress
  <2>1. CASE p \in Direct
    BY <1>1, <1>9, <2>1, TurnDirect
  <2>2. CASE p \in Guarded
    BY <1>1, <1>9, <2>2, TurnFetch, TurnLookup, TurnTicket, TurnBook, TurnFinish
  <2>3. QED
    BY <2>1, <2>2, Guards
<1>10. QED
  BY Steps, <1>2, <1>3, <1>4, <1>5, <1>6, <1>7, <1>8, <1>9

\* Whatever is pushed and pulled beside them, no run of the orchestrator puts
\* an older version of a bill over a newer one that was stored before its
\* lookup, or by another run (beginRun's guard).
THEOREM Serialised == PullSpec => ImportsNeverRegress
<1>1. PullInit /\ PullTypeOK => TurnInv
  <2> SUFFICES ASSUME PullInit, PullTypeOK PROVE TurnInv
    OBVIOUS
  <2>1. \A p \in Guarded : pull[p].at = "idle"
    BY AskingFields, Guards DEF PullInit, Idle
  <2>2. QED
    BY <2>1 DEF TurnInv, Busy, Saving, Fresh
<1>2. TurnInv /\ [PullNext]_pullVars => TurnInv' /\ [NeverRegress]_pullVars
  <2>1. CASE PullNext
    BY <2>1, TurnStep
  <2>2. CASE UNCHANGED pullVars
    BY <2>2 DEF pullVars, TurnInv, PullTypeOK, Busy, Saving, Fresh
  <2>3. QED
    BY <2>1, <2>2
<1>3. PullSpec => [][NeverRegress]_pullVars
  BY <1>1, <1>2, PullTypeCorrect, PTL DEF PullSpec
<1>4. QED
  BY <1>3 DEF ImportsNeverRegress, NeverRegress
=============================================================================
