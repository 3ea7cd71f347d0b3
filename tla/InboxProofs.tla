---------------------------- MODULE InboxProofs ----------------------------
(***************************************************************************)
(* Proofs that the inbox tells what WhatsApp saw, for any number of        *)
(* workers, retries, crashes and lost calls.                               *)
(*                                                                         *)
(* InboxMatchesWire is not inductive: it must be known where in its run a  *)
(* handler is.  WireInv adds that a run which has yet to send has a start  *)
(* counted that no message has used, and that one about to store has a     *)
(* message that no row has used.  That nobody else sends or stores for the *)
(* row meanwhile is ExclusiveOwner, of the outbox alone.                   *)
(***************************************************************************)
EXTENDS EngagementProofs

BeforeSend(w) ==
  IF ForBooking(w)
  THEN run[w].at \in {"lookup", "template"}
  ELSE run[w].at \notin {"rest", "take over", "store", "end"}

AfterSend(w) ==
  run[w].at \in {"take over", "store"} \/ (ForBooking(w) /\ run[w].at \in {"find", "create"})

\* Each kind of event has stages of its own.
GoodStage(w) ==
  /\ run[w].at = "template" => ForBooking(w)
  /\ run[w].at \in {"find", "create"} => ~ForReply(w)
  /\ ForBooking(w) => run[w].at \in {"lookup", "template", "find", "create", "store", "end"}

RowWire(i) ==
  /\ stored[i] <= delivered[i]
  /\ delivered[i] <= (IF i \in DOMAIN outbox THEN runs[i] ELSE 0)

RunWire(w) ==
  handling[w] # 0 =>
    /\ GoodStage(w)
    /\ BeforeSend(w) => delivered[handling[w]] < runs[handling[w]]
    /\ AfterSend(w) => stored[handling[w]] < delivered[handling[w]]

WireInv == (\A i \in RowNumber : RowWire(i)) /\ (\A w \in Worker : RunWire(w))

\* What holds in the composed system of the outbox alone.
LInv == SInv /\ OwnerInv

LEMMA LInvariant == SystemSpec => []LInv
<1>1. SystemSpec => []IInv
  BY Refinement, InvariantHolds DEF ImplementsOutbox
<1>2. IInv => OwnerInv
  BY DEF IInv
<1>3. QED
  BY <1>1, <1>2, SystemInvariant, PTL DEF LInv

LEMMA Numbers ==
  ASSUME SInv
  PROVE  /\ DOMAIN outbox \subseteq RowNumber /\ 0 \notin RowNumber
         /\ \A i \in RowNumber : delivered[i] \in Nat /\ stored[i] \in Nat
         /\ DOMAIN runs = DOMAIN outbox
         /\ \A i \in DOMAIN outbox : runs[i] \in Nat
         /\ \A w \in Worker : handling[w] # 0 => handling[w] \in DOMAIN outbox
<1>1. TypeOK /\ RecordTypeOK
  BY DEF SInv
<1>2. DOMAIN outbox \subseteq RowNumber /\ 0 \notin RowNumber
  BY <1>1, RowsAssumption DEF TypeOK, RowNumber
<1>3. DOMAIN runs = DOMAIN outbox /\ \A i \in DOMAIN outbox : runs[i] \in Nat
  BY <1>1, Counters
<1>4. \A i \in RowNumber : delivered[i] \in Nat /\ stored[i] \in Nat
  BY <1>1 DEF RecordTypeOK
<1>5. QED
  BY <1>1, <1>2, <1>3, <1>4 DEF TypeOK

-----------------------------------------------------------------------------
(* The table under the handlers.                                           *)

\* Rows stay, with their keys, and starts are only counted up.
Kept ==
  /\ DOMAIN outbox \subseteq DOMAIN outbox'
  /\ \A i \in DOMAIN outbox : outbox'[i].key = outbox[i].key /\ runs'[i] >= runs[i]

LEMMA EnqueueKept ==
  ASSUME TypeOK, NEW k, Enqueue(k)
  PROVE  Kept /\ UNCHANGED <<batch, handling, marks>>
<1> DEFINE n == Len(outbox) + 1
           new == [key |-> k, status |-> "pending", attempts |-> 0, next_attempt_at |-> "past"]
<1>1. outbox' = Append(outbox, new) /\ runs' = Append(runs, 0) /\ UNCHANGED <<batch, handling, marks>>
  BY DEF Enqueue, Insert
<1>2. outbox \in Seq(Row) /\ runs \in Seq(Nat) /\ Len(outbox) \in Nat /\ Len(runs) = Len(outbox)
      /\ DOMAIN outbox = 1..Len(outbox)
  BY DEF TypeOK
<1> HIDE DEF new
<1>3. /\ DOMAIN outbox' = 1..n
      /\ \A i \in 1..Len(outbox) : outbox'[i] = outbox[i] /\ runs'[i] = runs[i]
  BY <1>1, <1>2
<1>4. \A i \in 1..Len(outbox) : runs[i] \in Nat
  BY <1>2
<1>5. QED
  BY <1>1, <1>2, <1>3, <1>4 DEF Kept

LEMMA SameKept ==
  ASSUME TypeOK, SameKeys, UNCHANGED runs PROVE Kept
  BY Counters DEF SameKeys, Kept

\* A handler changes nothing of the outbox, finishes its row, or cancels or
\* moves a booking, which may announce it.
HandlerOutbox(w) ==
  \/ UNCHANGED vars
  \/ \E verdict \in {"done", "failed"} : Finish(w, verdict)
  \/ \E b \in Booking : Enqueue(b)

LEMMA PerformOutbox ==
  ASSUME NEW w, NEW name, NEW b, Perform(w, name, b)
  PROVE  UNCHANGED vars \/ \E c \in Booking : Enqueue(c)
  BY DEF Perform, CancelBooking, RescheduleBooking, SetReservation

LEMMA HandlerOutboxStep ==
  ASSUME NEW w \in Worker, HandlerStep(w)
  PROVE  HandlerOutbox(w) /\ \E r : run' = [run EXCEPT ![w] = r]
<1>1. ASSUME NEW outcome \in Outcome, ExecutePending(w, outcome) \/ ExecuteToolCall(w, outcome)
      PROVE HandlerOutbox(w) /\ \E r : run' = [run EXCEPT ![w] = r]
  <2>1. UNCHANGED vars \/ \E b \in Booking : Enqueue(b)
    BY <1>1, PerformOutbox DEF ExecutePending, ExecuteToolCall
  <2>2. QED
    BY <1>1, <2>1 DEF HandlerOutbox, ExecutePending, ExecuteToolCall
<1>2. ASSUME NEW r, NEW verdict \in {"done", "failed"}, Continue(w, r) \/ Return(w, verdict)
      PROVE HandlerOutbox(w) /\ \E q : run' = [run EXCEPT ![w] = q]
  BY <1>2 DEF Continue, Return, HandlerOutbox
<1>3. ASSUME NEW outcome, NEW r, OrFail(w, outcome, r)
      PROVE HandlerOutbox(w) /\ \E q : run' = [run EXCEPT ![w] = q]
  BY <1>2, <1>3 DEF OrFail
<1>4. QED
  BY <1>1, <1>2, <1>3
  DEF HandlerStep, Lookup, SendTemplate, FindConversation, CreateConversation, RecordInbound,
    ClearPending, HandOver, Escalate, RememberPending, SendText, TakeOver, StoreOutbound,
    ProcessConversation, NoAI, RecentMessagesFail, AIFails, EndQuietly

LEMMA HandlerFrame ==
  ASSUME SInv, NEW w \in Worker, HandlerStep(w)
  PROVE  /\ Kept
         /\ handling[w] \in DOMAIN outbox
         /\ \A u \in Worker \ {w} : run'[u] = run[u] /\ handling'[u] = handling[u]
         /\ handling'[w] \in {0, handling[w]}
<1>1. TypeOK /\ RunInv
  BY DEF SInv
<1>2. run[w].at # "rest"
  BY DEF HandlerStep, Lookup, SendTemplate, FindConversation, CreateConversation, RecordInbound,
    ExecutePending, ExecuteToolCall, ClearPending, HandOver, Escalate, RememberPending, SendText,
    TakeOver, StoreOutbound, ProcessConversation, NoAI, RecentMessagesFail, AIFails, EndQuietly
<1>3. handling[w] \in DOMAIN outbox
  BY <1>1, <1>2 DEF RunInv, TypeOK
<1>4. Kept /\ (UNCHANGED handling \/ handling' = [handling EXCEPT ![w] = 0])
  <2>1. CASE UNCHANGED vars
    BY <1>1, <2>1, SameKept DEF vars, SameKeys
  <2>2. CASE \E verdict \in {"done", "failed"} : Finish(w, verdict)
    BY <1>1, <2>2, SameKept DEF Finish, SameKeys
  <2>3. CASE \E b \in Booking : Enqueue(b)
    BY <1>1, <2>3, EnqueueKept
  <2>4. QED
    BY <2>1, <2>2, <2>3, HandlerOutboxStep DEF HandlerOutbox
<1>5. \A u \in Worker \ {w} : run'[u] = run[u]
  BY <1>1, HandlerOutboxStep DEF RunInv
<1>6. QED
  BY <1>1, <1>3, <1>4, <1>5 DEF TypeOK

-----------------------------------------------------------------------------
(* The three kinds of steps of a handler.                                  *)

\* It goes on within its phase, or returns.
Working(w) ==
  /\ UNCHANGED <<delivered, stored>>
  /\ handling'[w] # 0 =>
       /\ GoodStage(w)'
       /\ BeforeSend(w)' => BeforeSend(w)
       /\ AfterSend(w)' => AfterSend(w)

\* It sends, once; only a message that has been sent is stored.
Sending(w) ==
  /\ BeforeSend(w)
  /\ stored' = stored
  /\ delivered' \in {delivered, [delivered EXCEPT ![handling[w]] = @ + 1]}
  /\ handling'[w] # 0 =>
       /\ GoodStage(w)'
       /\ ~BeforeSend(w)'
       /\ AfterSend(w)' => delivered' = [delivered EXCEPT ![handling[w]] = @ + 1]

\* It stores, and returns.
Storing(w) ==
  /\ AfterSend(w)
  /\ delivered' = delivered
  /\ stored' \in {stored, [stored EXCEPT ![handling[w]] = @ + 1]}
  /\ handling'[w] = 0
LEMMA ToAt ==
  ASSUME RunInv, NEW w \in Worker, NEW step
  PROVE  To(w, step).at = step
  BY DEF To, RunInv, Run

LEMMA WithAt ==
  ASSUME NEW r \in Run, NEW a
  PROVE  With(r, a).at \in {"escalate", "remember", "tool", "send", "end"}
<1> DEFINE q == [r EXCEPT !.answer = a]
<1>1. DOMAIN q = DOMAIN r /\ "at" \in DOMAIN r
  BY DEF Run
<1>2. Stage(q) \in {"escalate", "remember", "tool", "send", "end"}
  BY StageType
<1>3. With(r, a) = [q EXCEPT !.at = Stage(q)]
  BY DEF With
<1> HIDE DEF q
<1>4. QED
  BY <1>1, <1>2, <1>3

LEMMA FoundAt ==
  ASSUME RunInv, NEW w \in Worker, NEW c
  PROVE  Found(w, c).at = IF ForMessage(w) THEN "record" ELSE "store"
<1> DEFINE t == To(w, IF ForMessage(w) THEN "record" ELSE "store")
           u == [t EXCEPT !.conv = c]
           v == [u EXCEPT !.status = conversation'[c].status]
<1>1. t.at = (IF ForMessage(w) THEN "record" ELSE "store") /\ "at" \in DOMAIN t
  BY ToAt DEF To, RunInv, Run
<1>2. Found(w, c) = [v EXCEPT !.pending = conversation'[c].pending]
  BY DEF Found
<1> HIDE DEF t
<1>3. QED
  BY <1>1, <1>2

\* An outcome that is not "ok" ends the run.
LEMMA OrFailAt ==
  ASSUME SInv, NEW w \in Worker, NEW outcome, NEW r, OrFail(w, outcome, r), handling'[w] # 0
  PROVE  outcome = "ok" /\ run'[w] = r
  BY DEF OrFail, Continue, Return, Finish, SInv, RunInv, TypeOK

\* Where the handler is after a step from which it does not return.
LEMMA NextStage ==
  ASSUME SInv, NEW w \in Worker, HandlerStep(w), GoodStage(w), handling'[w] # 0
  PROVE  \/ run[w].at = "lookup" /\ ForBooking(w) /\ run'[w].at = "template"
         \/ run[w].at = "lookup" /\ ForMessage(w) /\ run'[w].at = "find"
         \/ run[w].at = "lookup" /\ ForReply(w) /\ run'[w].at = "send"
         \/ run[w].at = "template" /\ run'[w].at \in {"find", "end"}
         \/ run[w].at = "find" /\ run'[w].at = "create"
         \/ run[w].at \in {"find", "create"} /\ ForMessage(w) /\ run'[w].at = "record"
         \/ run[w].at \in {"find", "create"} /\ ~ForMessage(w) /\ run'[w].at = "store"
         \/ /\ run[w].at \in {"record", "execute", "clear", "think", "hand over", "escalate",
                              "remember", "tool"}
            /\ run'[w].at \in {"clear", "execute", "think", "hand over", "escalate",
                              "remember", "tool", "send", "end"}
         \/ run[w].at = "send" /\ run'[w].at \in {"take over", "store"}
         \/ run[w].at = "take over" /\ run'[w].at = "store"
<1>1. RunInv /\ TypeOK /\ run[w] \in Run
  BY DEF SInv, RunInv
<1>2. \A step : To(w, step).at = step
  BY <1>1, ToAt
<1>3. \A a : With(run[w], a).at \in {"escalate", "remember", "tool", "send", "end"}
  BY <1>1, WithAt
<1>4. \A c : Found(w, c).at = IF ForMessage(w) THEN "record" ELSE "store"
  BY <1>1, FoundAt
<1>5. ASSUME NEW outcome, NEW r, OrFail(w, outcome, r) PROVE run'[w] = r
  BY <1>5, OrFailAt
<1>6. ASSUME NEW r, run' = [run EXCEPT ![w] = r] PROVE run'[w] = r
  BY <1>1, <1>6 DEF RunInv
<1>7. ASSUME NEW verdict, Return(w, verdict) PROVE FALSE
  BY <1>1, <1>7 DEF Return, Finish, TypeOK
<1>8. ASSUME NEW outcome \in Outcome, Lookup(w, outcome) PROVE
         \/ run[w].at = "lookup" /\ ForBooking(w) /\ run'[w].at = "template"
         \/ run[w].at = "lookup" /\ ForMessage(w) /\ run'[w].at = "find"
         \/ run[w].at = "lookup" /\ ForReply(w) /\ run'[w].at = "send"
  <2>1. run[w].at = "lookup"
    BY <1>8 DEF Lookup
  <2>2. EventKey(w) \in Booking \cup Message \cup (1..MaxConv)
    <3>1. handling[w] \in DOMAIN outbox
      BY HandlerFrame
    <3>2. outbox[handling[w]] \in Row
      BY <1>1, <3>1 DEF TypeOK
    <3>3. QED
      BY <3>2, KeysAssumption DEF EventKey, Row, Key
  <2>3. \A step, b : [To(w, step) EXCEPT !.booking = b].at = step
    BY <1>1, <1>2 DEF To, Run
  <2>4. \A step, c : [To(w, step) EXCEPT !.conv = c].at = step
    BY <1>1, <1>2 DEF To, Run
  <2>5. CASE ForBooking(w)
    <3>1. ~ForMessage(w)
      BY <2>5, KeyFacts DEF ForBooking, ForMessage
    <3>2. run'[w] = [To(w, "template") EXCEPT !.booking = EventKey(w)]
      BY <1>5, <1>8, <2>5, <3>1 DEF Lookup
    <3>3. QED
      BY <2>1, <2>3, <2>5, <3>2
  <2>6. CASE ~ForBooking(w) /\ ForMessage(w)
    <3>1. run'[w] = [To(w, "find") EXCEPT !.booking = OnlyActive]
      BY <1>5, <1>8, <2>6 DEF Lookup
    <3>2. QED
      BY <2>1, <2>3, <2>6, <3>1
  <2>7. CASE ~ForBooking(w) /\ ~ForMessage(w)
    <3>1. run'[w] = [To(w, "send") EXCEPT !.conv = EventKey(w)]
      BY <1>5, <1>8, <2>7 DEF Lookup
    <3>2. QED
      BY <2>1, <2>2, <2>4, <2>7, <3>1 DEF ForReply, ForBooking, ForMessage
  <2>8. QED
    BY <2>5, <2>6, <2>7
<1>9. ASSUME NEW outcome \in Outcome, SendTemplate(w, outcome)
      PROVE  run[w].at = "template" /\ run'[w].at \in {"find", "end"}
  BY <1>2, <1>6, <1>9 DEF SendTemplate, Continue
<1>10. ASSUME NEW outcome \in Outcome, FindConversation(w, outcome)
       PROVE  /\ run[w].at = "find"
              /\ run'[w].at \in {"create", IF ForMessage(w) THEN "record" ELSE "store"}
  BY <1>2, <1>4, <1>5, <1>10 DEF FindConversation
<1>11. ASSUME NEW outcome \in Outcome, CreateConversation(w, outcome)
       PROVE  /\ run[w].at = "create"
              /\ run'[w].at = IF ForMessage(w) THEN "record" ELSE "store"
  BY <1>4, <1>5, <1>11 DEF CreateConversation
<1>12. ASSUME NEW outcome \in Outcome, RecordInbound(w, outcome)
       PROVE  run[w].at = "record" /\ run'[w].at \in {"end", "clear", "execute", "think"}
  BY <1>2, <1>5, <1>12 DEF RecordInbound, AfterRecord
<1>13. ASSUME NEW outcome \in Outcome, ExecutePending(w, outcome)
       PROVE  run[w].at = "execute" /\ run'[w].at \in {"clear", "send"}
  <2>1. \A say : [To(w, "clear") EXCEPT !.say = say].at = "clear"
    BY <1>1, <1>2 DEF To, Run
  <2>2. QED
    BY <1>2, <1>6, <1>13, <2>1 DEF ExecutePending
<1>14. ASSUME NEW outcome \in Outcome,
              \/ ClearPending(w, outcome) \/ HandOver(w, outcome) \/ Escalate(w, outcome)
              \/ RememberPending(w, outcome) \/ ExecuteToolCall(w, outcome)
       PROVE  /\ run[w].at \in {"clear", "hand over", "escalate", "remember", "tool"}
              /\ run'[w].at \in {"escalate", "remember", "tool", "send", "end"}
  BY <1>2, <1>3, <1>5, <1>6, <1>14
  DEF ClearPending, HandOver, Escalate, RememberPending, ExecuteToolCall, Continue
<1>15. ASSUME NEW outcome \in Outcome, SendText(w, outcome)
       PROVE  run[w].at = "send" /\ run'[w].at \in {"take over", "store"}
  BY <1>2, <1>5, <1>15 DEF SendText
<1>16. ASSUME NEW outcome \in Outcome, TakeOver(w, outcome)
       PROVE  run[w].at = "take over" /\ run'[w].at = "store"
  BY <1>2, <1>5, <1>16 DEF TakeOver
<1>17. ASSUME \E a \in AIAnswer : ProcessConversation(w, a)
       PROVE  run[w].at = "think" /\ run'[w].at \in {"escalate", "remember", "tool", "send", "end"}
  BY <1>3, <1>6, <1>17 DEF ProcessConversation, Continue
<1>18. ASSUME NoAI(w) \/ AIFails(w)
       PROVE  run[w].at = "think" /\ run'[w].at \in {"send", "hand over"}
  BY <1>2, <1>6, <1>18 DEF NoAI, AIFails, Continue
<1>19. ASSUME \/ \E outcome \in Outcome : StoreOutbound(w, outcome)
              \/ RecentMessagesFail(w) \/ EndQuietly(w)
       PROVE  FALSE
  BY <1>7, <1>19 DEF StoreOutbound, RecentMessagesFail, EndQuietly
<1>20. QED
  BY <1>8, <1>9, <1>10, <1>11, <1>12, <1>13, <1>14, <1>15, <1>16, <1>17, <1>18, <1>19
  DEF HandlerStep
LEMMA EventKept ==
  ASSUME Kept, NEW w, handling[w] \in DOMAIN outbox, handling'[w] = handling[w]
  PROVE  /\ EventKey(w)' = EventKey(w)
         /\ (ForBooking(w)' <=> ForBooking(w))
         /\ (ForMessage(w)' <=> ForMessage(w))
         /\ (ForReply(w)' <=> ForReply(w))
  BY DEF Kept, EventKey, ForBooking, ForMessage, ForReply

LEMMA EventKinds ==
  /\ \A w : ForBooking(w) => ~ForMessage(w) /\ ~ForReply(w)
  /\ \A w : ForMessage(w) => ~ForReply(w)
<1>1. Message \cap (1..MaxConv) = {}
  BY KeysAssumption, KeyAssumption
<1>2. QED
  BY <1>1, KeyFacts DEF ForBooking, ForMessage, ForReply

LEMMA EventSome ==
  ASSUME SInv, NEW w, handling[w] \in DOMAIN outbox
  PROVE  ForBooking(w) \/ ForMessage(w) \/ ForReply(w)
<1>1. outbox[handling[w]] \in Row
  BY DEF SInv, TypeOK
<1>2. QED
  BY <1>1, KeysAssumption DEF EventKey, Row, Key, ForBooking, ForMessage, ForReply

LEMMA StepKind ==
  ASSUME SInv, NEW w \in Worker, HandlerStep(w), GoodStage(w)
  PROVE  Working(w) \/ Sending(w) \/ Storing(w)
<1>1. /\ Kept /\ handling[w] \in DOMAIN outbox /\ handling'[w] \in {0, handling[w]}
  BY HandlerFrame
<1>2. handling'[w] # 0 => /\ (ForBooking(w)' <=> ForBooking(w))
                          /\ (ForMessage(w)' <=> ForMessage(w))
                          /\ (ForReply(w)' <=> ForReply(w))
  BY <1>1, EventKept
<1>3. ASSUME NEW outcome \in Outcome, SendTemplate(w, outcome) PROVE Sending(w)
  <2>1. run[w].at = "template" /\ ForBooking(w) /\ stored' = stored
    BY <1>3 DEF SendTemplate, GoodStage
  <2>2. delivered' \in {delivered, [delivered EXCEPT ![handling[w]] = @ + 1]}
        /\ (outcome = "ok" => delivered' = [delivered EXCEPT ![handling[w]] = @ + 1])
    BY <1>3 DEF SendTemplate, Delivers, Applied
  <2>3. run'[w].at = IF outcome = "ok" THEN "find" ELSE "end"
    BY <1>3, ToAt DEF SendTemplate, Continue, SInv, RunInv
  <2>4. QED
    BY <1>2, <2>1, <2>2, <2>3, EventKinds DEF Sending, BeforeSend, AfterSend, GoodStage
<1>4. ASSUME NEW outcome \in Outcome, SendText(w, outcome) PROVE Sending(w)
  <2>1. run[w].at = "send" /\ ~ForBooking(w) /\ stored' = stored
    BY <1>4 DEF SendText, GoodStage
  <2>2. delivered' \in {delivered, [delivered EXCEPT ![handling[w]] = @ + 1]}
        /\ (outcome = "ok" => delivered' = [delivered EXCEPT ![handling[w]] = @ + 1])
    BY <1>4 DEF SendText, Delivers, Applied
  <2>3. handling'[w] # 0 => outcome = "ok" /\ run'[w].at \in {"take over", "store"}
    BY <1>4, OrFailAt, ToAt DEF SendText, SInv
  <2>4. QED
    BY <1>2, <2>1, <2>2, <2>3, EventKinds DEF Sending, BeforeSend, AfterSend, GoodStage
<1>5. ASSUME NEW outcome \in Outcome, StoreOutbound(w, outcome) PROVE Storing(w)
  <2>1. run[w].at = "store" /\ delivered' = delivered
        /\ stored' \in {stored, [stored EXCEPT ![handling[w]] = @ + 1]}
    BY <1>5 DEF StoreOutbound
  <2>2. handling'[w] = 0
    BY <1>5 DEF StoreOutbound, Return, Finish, SInv, TypeOK
  <2>3. QED
    BY <2>1, <2>2 DEF Storing, AfterSend
<1>6. ASSUME UNCHANGED <<delivered, stored>>, run[w].at \notin {"template", "send", "store"}
      PROVE  Working(w)
  <2> SUFFICES ASSUME handling'[w] # 0
               PROVE  /\ GoodStage(w)'
                      /\ BeforeSend(w)' => BeforeSend(w)
                      /\ AfterSend(w)' => AfterSend(w)
    BY <1>6 DEF Working
  <2> DEFINE from == run[w].at
             to == run'[w].at
  <2>1. \/ from = "lookup" /\ ForBooking(w) /\ to = "template"
        \/ from = "lookup" /\ ForMessage(w) /\ to = "find"
        \/ from = "lookup" /\ ForReply(w) /\ to = "send"
        \/ from = "find" /\ to = "create"
        \/ from \in {"find", "create"} /\ ForMessage(w) /\ to = "record"
        \/ from \in {"find", "create"} /\ ~ForMessage(w) /\ to = "store"
        \/ /\ from \in {"record", "execute", "clear", "think", "hand over", "escalate",
                        "remember", "tool"}
           /\ to \in {"clear", "execute", "think", "hand over", "escalate", "remember",
                      "tool", "send", "end"}
        \/ from = "take over" /\ to = "store"
    BY <1>6, NextStage
  <2>2. /\ from \in {"find", "create"} => ~ForReply(w)
        /\ ForBooking(w) => from \in {"lookup", "template", "find", "create", "store", "end"}
    BY DEF GoodStage
  <2>3. /\ ForBooking(w) => ~ForMessage(w) /\ ~ForReply(w)
        /\ ForMessage(w) => ~ForReply(w)
        /\ ForBooking(w) \/ ForMessage(w) \/ ForReply(w)
    BY <1>1, EventKinds, EventSome
  <2>4. /\ to # "template" \/ ForBooking(w)
        /\ to \in {"find", "create"} => ~ForReply(w)
        /\ ForBooking(w) => to \in {"lookup", "template", "find", "create", "store", "end"}
    BY <2>1, <2>2, <2>3
  <2>5. GoodStage(w)'
    BY <1>2, <2>4 DEF GoodStage
  <2>6. BeforeSend(w)' => BeforeSend(w)
    BY <1>2, <2>1, <2>2, <2>3 DEF BeforeSend
  <2>7. AfterSend(w)' => AfterSend(w)
    BY <1>2, <2>1, <2>2, <2>3 DEF AfterSend
  <2>8. QED
    BY <2>5, <2>6, <2>7
<1>7. QED
  BY <1>3, <1>4, <1>5, <1>6
  DEF HandlerStep, Lookup, FindConversation, CreateConversation, RecordInbound, ExecutePending,
    ExecuteToolCall, ClearPending, HandOver, Escalate, RememberPending, TakeOver,
    ProcessConversation, NoAI, RecentMessagesFail, AIFails, EndQuietly, record

-----------------------------------------------------------------------------
(* The invariant.                                                          *)

\* What a run keeps when nothing is sent or stored for its row.
LEMMA RunKept ==
  ASSUME SInv, SInv', WireInv, Kept, NEW u \in Worker,
         run'[u] = run[u], handling'[u] = handling[u],
         /\ delivered'[handling[u]] = delivered[handling[u]]
         /\ stored'[handling[u]] = stored[handling[u]]
  PROVE  RunWire(u)'
<1> SUFFICES ASSUME handling[u] # 0
             PROVE  /\ GoodStage(u)'
                    /\ BeforeSend(u)' => delivered'[handling[u]] < runs'[handling[u]]
                    /\ AfterSend(u)' => stored'[handling[u]] < delivered'[handling[u]]
  BY DEF RunWire
<1>1. handling[u] \in DOMAIN outbox /\ handling[u] \in RowNumber
  BY Numbers
<1>3. /\ (ForBooking(u)' <=> ForBooking(u)) /\ (ForMessage(u)' <=> ForMessage(u))
      /\ (ForReply(u)' <=> ForReply(u))
  BY <1>1, EventKept
<1>4. RunWire(u)
  BY DEF WireInv
<1>5. /\ delivered'[handling[u]] = delivered[handling[u]] /\ delivered[handling[u]] \in Nat
      /\ stored'[handling[u]] = stored[handling[u]]
      /\ runs'[handling[u]] >= runs[handling[u]] /\ runs[handling[u]] \in Nat
  BY <1>1, Numbers DEF Kept
<1>6. runs'[handling[u]] \in Nat
  <2>1. \A i \in DOMAIN outbox' : runs'[i] \in Nat
    <3>1. /\ outbox' \in Seq(Row) /\ runs' \in Seq(Nat) /\ Len(runs') = Len(outbox')
      BY DEF SInv, TypeOK
    <3>2. QED
      BY <3>1
  <2>2. QED
    BY <1>1, <2>1 DEF Kept
<1>7. GoodStage(u)' /\ (BeforeSend(u)' <=> BeforeSend(u)) /\ (AfterSend(u)' <=> AfterSend(u))
  BY <1>3, <1>4 DEF RunWire, GoodStage, BeforeSend, AfterSend
<1>8. QED
  BY <1>4, <1>5, <1>6, <1>7 DEF RunWire
\* What a row keeps when nothing is sent or stored for it.
LEMMA RowKept ==
  ASSUME SInv, SInv', Kept, NEW j \in RowNumber, RowWire(j),
         delivered'[j] = delivered[j], stored'[j] = stored[j]
  PROVE  RowWire(j)'
<1>1. outbox' \in Seq(Row) /\ runs' \in Seq(Nat) /\ Len(runs') = Len(outbox')
  BY DEF SInv, TypeOK
<1>2. \A i \in DOMAIN outbox' : runs'[i] \in Nat
  BY <1>1
<1>3. delivered[j] \in Nat /\ (j \in DOMAIN outbox => runs[j] \in Nat)
  BY Numbers
<1>4. QED
  BY <1>2, <1>3 DEF RowWire, Kept

LEMMA HandlerWire ==
  ASSUME LInv, SInv', WireInv, NEW w \in Worker, HandlerStep(w)
  PROVE  WireInv'
<1> DEFINE i == handling[w]
<1>1. /\ Kept /\ i \in DOMAIN outbox /\ handling'[w] \in {0, i}
      /\ \A u \in Worker \ {w} : run'[u] = run[u] /\ handling'[u] = handling[u]
  BY HandlerFrame DEF LInv
<1>2. /\ i \in RowNumber /\ i # 0 /\ runs[i] \in Nat /\ delivered[i] \in Nat /\ stored[i] \in Nat
      /\ runs'[i] \in Nat /\ runs'[i] >= runs[i] /\ i \in DOMAIN outbox'
  <2>1. i \in RowNumber /\ i # 0 /\ runs[i] \in Nat /\ delivered[i] \in Nat /\ stored[i] \in Nat
    BY <1>1, Numbers DEF LInv
  <2>2. outbox' \in Seq(Row) /\ runs' \in Seq(Nat) /\ Len(runs') = Len(outbox')
    BY DEF SInv, TypeOK
  <2>3. QED
    BY <1>1, <2>1, <2>2 DEF Kept
<1>3. RowWire(i) /\ GoodStage(w)
      /\ (BeforeSend(w) => delivered[i] < runs[i]) /\ (AfterSend(w) => stored[i] < delivered[i])
  BY <1>2 DEF WireInv, RunWire
<1>4. stored[i] <= delivered[i] /\ delivered[i] <= runs[i]
  BY <1>1, <1>3 DEF RowWire
<1>5. delivered \in [RowNumber -> Nat] /\ stored \in [RowNumber -> Nat]
  BY DEF LInv, SInv, RecordTypeOK
<1>6. /\ \A j \in RowNumber \ {i} : delivered'[j] = delivered[j] /\ stored'[j] = stored[j]
      /\ stored'[i] <= delivered'[i] /\ delivered'[i] <= runs'[i]
      /\ RunWire(w)'
  <2>1. CASE Working(w)
    <3>1. delivered' = delivered /\ stored' = stored
      BY <2>1 DEF Working
    <3>2. RunWire(w)'
      <4> SUFFICES ASSUME handling'[w] # 0
                   PROVE  /\ GoodStage(w)'
                          /\ BeforeSend(w)' => delivered'[handling'[w]] < runs'[handling'[w]]
                          /\ AfterSend(w)' => stored'[handling'[w]] < delivered'[handling'[w]]
        BY DEF RunWire
      <4>1. handling'[w] = i
        BY <1>1
      <4>2. GoodStage(w)' /\ (BeforeSend(w)' => BeforeSend(w)) /\ (AfterSend(w)' => AfterSend(w))
        BY <2>1 DEF Working
      <4> HIDE DEF i
      <4>3. QED
        BY <1>2, <1>3, <3>1, <4>1, <4>2
    <3> HIDE DEF i
    <3>3. QED
      BY <1>2, <1>4, <3>1, <3>2
  <2>2. CASE Sending(w)
    <3>1. /\ delivered[i] < runs[i] /\ stored' = stored
          /\ delivered' \in {delivered, [delivered EXCEPT ![i] = @ + 1]}
      BY <1>3, <2>2 DEF Sending
    <3>2. RunWire(w)'
      <4> SUFFICES ASSUME handling'[w] # 0
                   PROVE  /\ GoodStage(w)'
                          /\ BeforeSend(w)' => delivered'[handling'[w]] < runs'[handling'[w]]
                          /\ AfterSend(w)' => stored'[handling'[w]] < delivered'[handling'[w]]
        BY DEF RunWire
      <4>1. handling'[w] = i
        BY <1>1
      <4>2. /\ GoodStage(w)' /\ ~BeforeSend(w)'
            /\ AfterSend(w)' => delivered' = [delivered EXCEPT ![i] = @ + 1]
        BY <2>2 DEF Sending
      <4> HIDE DEF i
      <4>3. QED
        BY <1>2, <1>4, <1>5, <3>1, <4>1, <4>2
    <3> HIDE DEF i
    <3>3. QED
      BY <1>2, <1>4, <1>5, <3>1, <3>2
  <2>3. CASE Storing(w)
    <3>1. /\ stored[i] < delivered[i] /\ delivered' = delivered
          /\ stored' \in {stored, [stored EXCEPT ![i] = @ + 1]}
      BY <1>3, <2>3 DEF Storing
    <3>2. RunWire(w)'
      BY <2>3 DEF Storing, RunWire
    <3> HIDE DEF i
    <3>3. QED
      BY <1>2, <1>4, <1>5, <3>1, <3>2
  <2>4. QED
    BY <1>3, <2>1, <2>2, <2>3, StepKind DEF LInv
<1>7. ASSUME NEW j \in RowNumber PROVE RowWire(j)'
  <2>1. CASE j = i
    BY <1>2, <1>6, <2>1 DEF RowWire
  <2>2. CASE j # i
    BY <1>1, <1>6, <2>2, RowKept DEF WireInv, LInv
  <2>3. QED
    BY <2>1, <2>2
<1>8. ASSUME NEW u \in Worker PROVE RunWire(u)'
  <2>1. CASE u = w
    BY <1>6, <2>1
  <2>2. CASE u # w
    <3>1. handling'[u] = handling[u] /\ run'[u] = run[u] /\ handling[u] \in {0} \cup RowNumber
      BY <1>1, <2>2, Numbers DEF LInv, SInv, TypeOK
    <3>2. CASE handling[u] = 0
      BY <3>1, <3>2 DEF RunWire
    <3>3. CASE handling[u] # 0
      <4>1. handling[u] # handling[w]
        BY <1>1, <1>2, <2>2, <3>3, HeldIs, Numbers DEF LInv, SInv, OwnerInv
      <4>2. /\ delivered'[handling[u]] = delivered[handling[u]]
            /\ stored'[handling[u]] = stored[handling[u]]
        BY <1>6, <3>1, <3>3, <4>1
      <4>3. QED
        BY <1>1, <3>1, <4>2, RunKept DEF LInv
    <3>4. QED
      BY <3>2, <3>3
  <2>3. QED
    BY <2>1, <2>2
<1>9. QED
  BY <1>7, <1>8 DEF WireInv
LEMMA StillWire ==
  ASSUME SInv, SInv', WireInv, Kept, UNCHANGED <<run, handling, delivered, stored>>
  PROVE  WireInv'
  BY RowKept, RunKept DEF WireInv

LEMMA WireStep == LInv /\ SInv' /\ WireInv /\ [SystemNext]_allVars => WireInv'
<1> SUFFICES ASSUME LInv, SInv', WireInv, [SystemNext]_allVars PROVE WireInv'
  OBVIOUS
<1>1. SInv /\ TypeOK
  BY DEF LInv, SInv
<1>2. CASE HouseStep
  <2>1. Kept /\ handling' = handling
    <3>1. CASE UNCHANGED vars
      BY <1>1, <3>1, SameKept DEF vars, SameKeys
    <3>2. CASE \E b \in Booking : Enqueue(b)
      BY <1>1, <3>2, EnqueueKept
    <3>3. QED
      BY <1>2, <3>1, <3>2
      DEF HouseStep, Book, MarkReservation, CheckIn, UpdateMyReservation, TimePasses,
      MemberChanges,
        SetReservation
  <2>2. UNCHANGED <<run, delivered, stored>>
    BY <1>2
    DEF HouseStep, Book, MarkReservation, CheckIn, UpdateMyReservation, TimePasses,
      MemberChanges, record
  <2>3. QED
    BY <1>1, <2>1, <2>2, StillWire
<1>3. CASE CustomerStep
  <2>1. Kept /\ handling' = handling
    <3>1. CASE UNCHANGED vars
      BY <1>1, <3>1, SameKept DEF vars, SameKeys
    <3>2. CASE \E m \in Message : Enqueue(m)
      BY <1>1, <3>2, EnqueueKept
    <3>3. QED
      BY <1>3, <3>1, <3>2 DEF CustomerStep, CustomerWrites, AcceptWhatsAppWebhook
  <2>2. QED
    BY <1>1, <1>3, <2>1, StillWire DEF CustomerStep, CustomerWrites, AcceptWhatsAppWebhook, record
<1>4. CASE StaffStep
  <2>1. Kept /\ handling' = handling
    <3>1. CASE UNCHANGED vars
      BY <1>1, <3>1, SameKept DEF vars, SameKeys
    <3>2. CASE \E c \in DOMAIN conversation : Enqueue(c)
      BY <1>1, <3>2, EnqueueKept
    <3>3. QED
      BY <1>4, <3>1, <3>2
      DEF StaffStep, RequestReply, SetConversationStatus, DeskOpens, DeskSends, DeskTakesOver,
        DeskStores
  <2>2. UNCHANGED <<run, delivered, stored>>
    BY <1>4
    DEF StaffStep, RequestReply, SetConversationStatus, DeskOpens, DeskSends, DeskTakesOver,
      DeskStores, record
  <2>3. QED
    BY <1>1, <2>1, <2>2, StillWire
<1>5. CASE OutboxStep
  BY <1>1, <1>5, OutboxStepKeys, SameKept, StillWire DEF OutboxStep, record
<1>6. ASSUME NEW w \in Worker, NEW i \in batch[w], ProcessEvent(w, i) PROVE WireInv'
  <2>1. /\ i \in DOMAIN outbox /\ i \in RowNumber /\ i # 0
        /\ runs[i] \in Nat /\ delivered[i] \in Nat /\ DOMAIN runs = DOMAIN outbox
    BY <1>1, Numbers DEF TypeOK
  <2>2. /\ outbox' = outbox /\ runs' = [runs EXCEPT ![i] = @ + 1]
        /\ handling' = [handling EXCEPT ![w] = i]
        /\ UNCHANGED <<delivered, stored>>
    BY <1>6 DEF ProcessEvent, Start, record
  <2>3. Kept
    <3>1. \A j \in DOMAIN outbox : runs[j] \in Nat
      BY <1>1, Numbers
    <3>2. QED
      BY <2>1, <2>2, <3>1 DEF Kept
  <2>4. \A u \in Worker \ {w} : run'[u] = run[u] /\ handling'[u] = handling[u]
    BY <1>1, <1>6, <2>2 DEF ProcessEvent, SInv, RunInv, TypeOK
  <2>5. run'[w].at = "lookup" /\ handling'[w] = i
    BY <1>1, <1>6, <2>2, RestType DEF ProcessEvent, SInv, RunInv, TypeOK, Run
  <2>6. RunWire(w)'
    <3>1. GoodStage(w)' /\ ~AfterSend(w)'
      BY <2>5 DEF GoodStage, AfterSend
    <3>2. delivered'[i] < runs'[i]
      BY <2>1, <2>2 DEF WireInv, RowWire
    <3>3. QED
      BY <2>5, <3>1, <3>2 DEF RunWire
  <2>7. QED
    BY <1>1, <2>2, <2>3, <2>4, <2>6, RowKept, RunKept DEF WireInv
<1>7. ASSUME NEW w \in Worker, WorkerDies(w) PROVE WireInv'
  <2>1. Kept /\ UNCHANGED <<delivered, stored>>
    BY <1>1, <1>7, SameKept DEF WorkerDies, Crash, SameKeys, record
  <2>2. handling'[w] = 0 /\ \A u \in Worker \ {w} : run'[u] = run[u] /\ handling'[u] = handling[u]
    BY <1>1, <1>7 DEF WorkerDies, Crash, SInv, RunInv, TypeOK
  <2>3. RunWire(w)'
    BY <2>2 DEF RunWire
  <2>4. QED
    BY <1>1, <2>1, <2>2, <2>3, RowKept, RunKept DEF WireInv
<1>8. CASE UNCHANGED allVars
  BY <1>1, <1>8, SameKept, StillWire DEF allVars, vars, record, SameKeys
<1>9. QED
  BY <1>2, <1>3, <1>4, <1>5, <1>6, <1>7, <1>8, HandlerWire DEF SystemNext

\* The inbox never shows a message WhatsApp did not get, and no event sends
\* more messages than it has attempts, whatever calls are lost or retried.
THEOREM InboxTrue == SystemSpec => []InboxMatchesWire
<1>1. SystemInit => WireInv
  BY RestType DEF SystemInit, Init, WireInv, RowWire, RunWire
<1>2. SystemSpec => []WireInv
  BY <1>1, WireStep, LInvariant, SystemInvariant, PTL DEF SystemSpec
<1>3. SInv /\ RunsBounded /\ WireInv => InboxMatchesWire
  <2> SUFFICES ASSUME SInv, RunsBounded, WireInv, NEW i \in RowNumber
               PROVE  /\ stored[i] <= delivered[i]
                      /\ delivered[i] <= (IF i \in DOMAIN outbox THEN outbox[i].attempts ELSE 0)
    BY DEF InboxMatchesWire
  <2>1. TypeOK /\ delivered[i] \in Nat
    BY Numbers DEF SInv
  <2>2. i \in DOMAIN outbox => runs[i] \in Nat /\ outbox[i].attempts \in Nat
    BY <2>1, Counters
  <2>3. QED
    BY <2>1, <2>2 DEF WireInv, RowWire, RunsBounded
<1>4. QED
  BY <1>2, <1>3, SystemInvariant, SystemOwnership, PTL
=============================================================================
