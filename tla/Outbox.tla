------------------------------- MODULE Outbox -------------------------------
(***************************************************************************)
(* The engagement outbox: the table public.outbox_events with the          *)
(* functions of migration 0085 that claim and mark its rows, and the loop  *)
(* of worker.go that drains it.  What a handler does with the event it is  *)
(* given is left to module Engagement; here a run of it passes or fails.   *)
(*                                                                         *)
(* Row i of the table is outbox[i]: rows are numbered in the order of      *)
(* created_at, which is the order claims are made in.  Every call is an    *)
(* HTTP request to PostgREST, so the statement may take effect although    *)
(* the caller saw an error, and may take effect after the caller gave up.  *)
(***************************************************************************)
EXTENDS Naturals, Sequences, FiniteSets

CONSTANTS
  Worker,        \* the worker goroutines: one in each API process
  UniqueKey,     \* (type, aggregate_id) of bookings and of inbound messages
  ReplyKey,      \* (type, aggregate_id) of admin replies: may repeat
  BatchLimit,    \* the 10 of runOnce
  MaxAttempts,   \* the 10 of engagement_claim_outbox_events
  MaxRows        \* bound of the model: rows ever inserted

ASSUME BatchAssumption == BatchLimit \in Nat \ {0}
ASSUME AttemptsAssumption == MaxAttempts \in Nat \ {0}
ASSUME RowsAssumption == MaxRows \in Nat
ASSUME KeyAssumption == UniqueKey \cap ReplyKey = {}

VARIABLES
  outbox,     \* the table
  batch,      \* batch[w]: rows worker w claimed and has not reached yet
  handling,   \* handling[w]: the row whose handler w runs, 0 for none
  marks,      \* mark_done and mark_failed calls that may yet take effect
  runs        \* runs[i]: how often a handler was started for row i

vars == <<outbox, batch, handling, marks, runs>>

Key == UniqueKey \cup ReplyKey
Status == {"pending", "processing", "done", "failed"}
Row == [key : Key, status : Status, attempts : 0..MaxAttempts,
        next_attempt_at : {"past", "future"}]
Mark == [row : 1..MaxRows, to : {"done", "failed"}]

TypeOK ==
  /\ outbox \in Seq(Row)
  /\ Len(outbox) <= MaxRows
  /\ batch \in [Worker -> SUBSET DOMAIN outbox]
  /\ handling \in [Worker -> {0} \cup DOMAIN outbox]
  /\ marks \subseteq Mark
  /\ \A m \in marks : m.row \in DOMAIN outbox
  /\ runs \in Seq(Nat)
  /\ Len(runs) = Len(outbox)

Init ==
  /\ outbox = <<>>
  /\ batch = [w \in Worker |-> {}]
  /\ handling = [w \in Worker |-> 0]
  /\ marks = {}
  /\ runs = <<>>

-----------------------------------------------------------------------------
(* The table.                                                              *)

\* insert ... on conflict do nothing: the partial unique indexes refuse a
\* second row of a booking or of an inbound message.
IndexDropped(k) == FALSE

Conflict(k) == k \in UniqueKey /\ \E i \in DOMAIN outbox : outbox[i].key = k

Insert(k) ==
  /\ ~Conflict(k)
  /\ Len(outbox) < MaxRows
  /\ outbox' = Append(outbox, [key |-> k, status |-> "pending",
                               attempts |-> 0, next_attempt_at |-> "past"])
  /\ runs' = Append(runs, 0)

Enqueue(k) == Insert(k) /\ UNCHANGED <<batch, handling, marks>>

\* next_attempt_at passes.
BackoffElapses(i) ==
  /\ outbox[i].status = "failed"
  /\ outbox[i].next_attempt_at = "future"
  /\ outbox' = [outbox EXCEPT ![i].next_attempt_at = "past"]
  /\ UNCHANGED <<batch, handling, marks, runs>>

\* Mutated forms: a claim that also takes rows being processed, one that
\* forgets the cap, one that never comes back to a failed row.
ClaimableAgain ==
  {i \in DOMAIN outbox : /\ outbox[i].status \in {"pending", "failed", "processing"}
                         /\ outbox[i].next_attempt_at = "past"
                         /\ outbox[i].attempts < MaxAttempts}
ClaimableUncapped ==
  {i \in DOMAIN outbox : outbox[i].status \in {"pending", "failed"} /\ outbox[i].next_attempt_at = "past"}
ClaimableOnce ==
  {i \in DOMAIN outbox : outbox[i].status = "pending" /\ outbox[i].next_attempt_at = "past"}

Claimable ==
  {i \in DOMAIN outbox : /\ outbox[i].status \in {"pending", "failed"}
                         /\ outbox[i].next_attempt_at = "past"
                         /\ outbox[i].attempts < MaxAttempts}

\* order by created_at limit BatchLimit
Oldest(rows) == {i \in rows : Cardinality({j \in rows : j < i}) < BatchLimit}

\* Mutated form: the attempt is not counted when the row is taken.
ClaimedUncounted(r) ==
  [key |-> r.key, status |-> "processing", attempts |-> r.attempts,
   next_attempt_at |-> r.next_attempt_at]

Claimed(r) ==
  [key |-> r.key, status |-> "processing", attempts |-> r.attempts + 1,
   next_attempt_at |-> r.next_attempt_at]

\* The update of engagement_claim_outbox_events.  Rows locked by another
\* claim are skipped, so that two claims take effect one after the other.
TakeOldest ==
  outbox' = [i \in DOMAIN outbox |->
               IF i \in Oldest(Claimable) THEN Claimed(outbox[i]) ELSE outbox[i]]

\* engagement_mark_outbox_done, engagement_mark_outbox_failed: neither looks
\* at the status the row has.
Marked(r, to) ==
  [key |-> r.key, status |-> to, attempts |-> r.attempts,
   next_attempt_at |-> IF to = "failed" THEN "future" ELSE r.next_attempt_at]

-----------------------------------------------------------------------------
(* The worker.                                                             *)

Idle(w) == handling[w] = 0 /\ batch[w] = {}

Claim(w) ==
  /\ Idle(w)
  /\ Claimable # {}
  /\ TakeOldest
  /\ batch' = [batch EXCEPT ![w] = Oldest(Claimable)]
  /\ UNCHANGED <<handling, marks, runs>>

\* The claim takes effect but its answer never arrives: the worker logs an
\* error and returns from runOnce, or its process has gone.
ClaimLost(w) ==
  /\ Idle(w)
  /\ Claimable # {}
  /\ TakeOldest
  /\ UNCHANGED <<batch, handling, marks, runs>>

\* Mutated form: the row stays in the batch while it is handled.
StartAndKeep(w, i) ==
  /\ handling[w] = 0
  /\ i \in batch[w]
  /\ handling' = [handling EXCEPT ![w] = i]
  /\ runs' = [runs EXCEPT ![i] = @ + 1]
  /\ UNCHANGED <<outbox, batch, marks>>

\* ProcessEvent is called.  "returning *" has no order: any claimed row may
\* be the next one of the loop.
Start(w, i) ==
  /\ handling[w] = 0
  /\ i \in batch[w]
  /\ batch' = [batch EXCEPT ![w] = @ \ {i}]
  /\ handling' = [handling EXCEPT ![w] = i]
  /\ runs' = [runs EXCEPT ![i] = @ + 1]
  /\ UNCHANGED <<outbox, marks>>

\* ProcessEvent returns and the worker sends its verdict to the table.  The
\* error of that call is dropped: the loop goes on whether it took effect,
\* will, or never does.
Finish(w, verdict) ==
  /\ handling[w] # 0
  /\ marks' = marks \cup {[row |-> handling[w], to |-> verdict]}
  /\ handling' = [handling EXCEPT ![w] = 0]
  /\ UNCHANGED <<outbox, batch, runs>>

ApplyMark(m) ==
  /\ m \in marks
  /\ marks' = marks \ {m}
  /\ outbox' = [outbox EXCEPT ![m.row] = Marked(@, m.to)]
  /\ UNCHANGED <<batch, handling, runs>>

LoseMark(m) ==
  /\ m \in marks
  /\ marks' = marks \ {m}
  /\ UNCHANGED <<outbox, batch, handling, runs>>

\* The process dies, or its context is cancelled on SIGTERM: every later
\* call of this batch, the marks included, fails before it is sent.
Crash(w) ==
  /\ ~Idle(w)
  /\ batch' = [batch EXCEPT ![w] = {}]
  /\ handling' = [handling EXCEPT ![w] = 0]
  /\ UNCHANGED <<outbox, marks, runs>>

Next ==
  \/ \E k \in Key : Enqueue(k)
  \/ \E i \in DOMAIN outbox : BackoffElapses(i)
  \/ \E w \in Worker :
       \/ Claim(w)
       \/ ClaimLost(w)
       \/ \E i \in batch[w] : Start(w, i)
       \/ \E verdict \in {"done", "failed"} : Finish(w, verdict)
       \/ Crash(w)
  \/ \E m \in marks : ApplyMark(m) \/ LoseMark(m)

Spec == Init /\ [][Next]_vars

\* The ticker polls as long as the process lives, and the container restarts
\* it when it dies; handlers end because every HTTP client has a timeout; a
\* call in flight takes effect or fails.  No new event is promised, and no
\* crash is ruled out: a crash interrupts a claimed row, rows are claimed at
\* most MaxAttempts times, so crashes cannot go on for ever.
Fairness ==
  /\ \A w \in Worker : /\ WF_vars(Claim(w))
                       /\ WF_vars(\E i \in batch[w] : Start(w, i))
                       /\ WF_vars(\E v \in {"done", "failed"} : Finish(w, v))
  /\ WF_vars(\E m \in marks : ApplyMark(m) \/ LoseMark(m))
  /\ \A i \in 1..MaxRows : WF_vars(i \in DOMAIN outbox /\ BackoffElapses(i))

FairSpec == Spec /\ Fairness

-----------------------------------------------------------------------------
(* Properties.                                                             *)

Held(w) == batch[w] \cup (IF handling[w] = 0 THEN {} ELSE {handling[w]})
InFlight(i) == \E m \in marks : m.row = i

\* No event is in the hands of two workers, nor handled while a verdict on
\* it may still arrive: the claim alone keeps the handlers of one event from
\* overlapping, whatever crashes and lost answers there are.
ExclusiveOwner ==
  /\ \A v, w \in Worker : v # w => Held(v) \cap Held(w) = {}
  /\ \A w \in Worker : \A i \in Held(w) :
       outbox[i].status = "processing" /\ ~InFlight(i)

\* The customer-visible work of an event is bounded: its handler is started
\* no more often than the table has counted attempts, and those are capped,
\* although the count is made by the claim and not by the handler.
RunsBounded ==
  \A i \in DOMAIN outbox : runs[i] <= outbox[i].attempts /\ outbox[i].attempts <= MaxAttempts

\* A booking is confirmed, and a WhatsApp message answered, from one row: a
\* redelivered webhook or a second trigger adds nothing, whatever state the
\* first row has reached.
OneRowPerKey ==
  \A i, j \in DOMAIN outbox :
    outbox[i].key = outbox[j].key /\ outbox[i].key \in UniqueKey => i = j

\* mark_done and mark_failed test no status, yet a row that is done stays
\* done: no late mark and no second claim reopens it.
DoneIsFinal ==
  [][\A i \in DOMAIN outbox : outbox[i].status = "done" => outbox'[i].status = "done"]_vars

\* What a crash, a lost claim or a lost mark leaves behind: nobody works on
\* the row and no claim will look at it, because no query reads locked_at.
Stranded(i) ==
  /\ outbox[i].status = "processing"
  /\ ~InFlight(i)
  /\ \A w \in Worker : i \notin Held(w)

Exhausted(i) == outbox[i].status = "failed" /\ outbox[i].attempts = MaxAttempts

HasVerdict(i) == outbox[i].status = "done" \/ Exhausted(i)

\* Every event comes to rest: it is done, it has failed for the last time or
\* it is stranded.  Retries with backoff starve no other event, and a batch
\* of old failing rows does not keep younger ones out for ever.
EventuallySettles ==
  \A i \in 1..MaxRows :
    (i \in DOMAIN outbox) ~> (i \in DOMAIN outbox /\ (HasVerdict(i) \/ Stranded(i)))

\* "The Go engagement worker polls outbox_events and sends booking.created
\* confirmations": every event is processed to an end.  False: see Stranded.
EventuallyProcessed ==
  \A i \in 1..MaxRows : (i \in DOMAIN outbox) ~> (i \in DOMAIN outbox /\ HasVerdict(i))

\* The outbox keeps the promise of module Delivery.
Passed(i) == \E m \in marks : m.row = i /\ m.to = "done"
Running(i) == \E w \in Worker : handling[w] = i

JobState(i) ==
  CASE outbox[i].status = "done" -> "done"
    [] Running(i) -> "running"
    [] Passed(i) -> "passed"
    [] OTHER -> "open"

Jobs == [i \in DOMAIN outbox |-> [state |-> JobState(i), runs |-> runs[i]]]

D == INSTANCE Delivery WITH job <- Jobs

ImplementsDelivery == D!Spec
=============================================================================
