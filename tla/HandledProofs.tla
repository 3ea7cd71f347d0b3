---------------------------- MODULE HandledProofs ----------------------------
(***************************************************************************)
(* Proofs that a row that is done has had its effect, that automatic       *)
(* replies end soon while a person has a conversation, and that only a     *)
(* handler begun before takes it from them; for any number of workers,     *)
(* events and conversations, whatever calls fail.                          *)
(***************************************************************************)
EXTENDS InboxProofs

(* Done rows.                                                              *)

\* The stages of a message's run between the inbox and the answer, and those
\* after the inbound row.
Thinking == {"record", "execute", "clear", "think", "hand over", "escalate", "remember", "tool"}
Unrecorded == {"rest", "lookup", "template", "find", "create", "record"}

\* What a run has done by the time it is where it is: a message past the
\* record stage is in the inbox, and only a run that owes staff nothing ends
\* without a message.
RunHandled(w) ==
  handling[w] # 0 =>
    /\ run[w].at \in Thinking => ForMessage(w)
    /\ run[w].at = "end" => ~ForReply(w)
    /\ ForMessage(w) /\ run[w].at \notin Unrecorded => recorded[EventKey(w)] > 0

QuietInv == \A i \in quiet : i \in DOMAIN outbox /\ outbox[i].key \notin 1..MaxConv

Handled(i) ==
  /\ outbox[i].key \in Message => recorded[outbox[i].key] > 0
  /\ i \in quiet \/ (delivered[i] > 0 /\ stored[i] > 0)

HandledInv ==
  /\ \A w \in Worker : RunHandled(w)
  /\ QuietInv
  /\ \A i \in DOMAIN outbox : Settled(i) => Handled(i)

\* Nothing that was sent, stored or ended is taken back.
Grows ==
  /\ \A m \in Message : recorded'[m] >= recorded[m]
  /\ \A i \in RowNumber : delivered'[i] >= delivered[i] /\ stored'[i] >= stored[i]
  /\ quiet \subseteq quiet'

\* No row is settled that was not.
NoneSettles == \A i \in DOMAIN outbox' : Settled(i)' => i \in DOMAIN outbox /\ Settled(i)

LEMMA RecordNumbers ==
  ASSUME SInv
  PROVE  /\ \A m \in Message : recorded[m] \in Nat
         /\ \A i \in RowNumber : delivered[i] \in Nat /\ stored[i] \in Nat
         /\ quiet \subseteq RowNumber
  BY DEF SInv, RecordTypeOK

LEMMA SameGrows == ASSUME SInv, UNCHANGED record PROVE Grows
  BY RecordNumbers DEF Grows, record

LEMMA HandledKept ==
  ASSUME SInv, SInv', Kept, Grows, NEW i \in DOMAIN outbox, Handled(i)
  PROVE  Handled(i)'
<1>1. i \in RowNumber /\ outbox'[i].key = outbox[i].key
  BY Numbers DEF Kept
<1>2. /\ \A m \in Message : recorded[m] \in Nat /\ recorded'[m] \in Nat
      /\ delivered[i] \in Nat /\ delivered'[i] \in Nat
      /\ stored[i] \in Nat /\ stored'[i] \in Nat
  BY <1>1, RecordNumbers DEF SInv, RecordTypeOK
<1>3. /\ \A m \in Message : recorded'[m] >= recorded[m]
      /\ delivered'[i] >= delivered[i] /\ stored'[i] >= stored[i] /\ quiet \subseteq quiet'
  BY <1>1 DEF Grows
<1>4. outbox[i].key \in Message => recorded'[outbox[i].key] > 0
  BY <1>2, <1>3 DEF Handled
<1>5. i \in quiet' \/ (delivered'[i] > 0 /\ stored'[i] > 0)
  BY <1>2, <1>3 DEF Handled
<1>6. QED
  BY <1>1, <1>4, <1>5 DEF Handled

LEMMA EnqueueSettles == ASSUME TypeOK, NEW k, Enqueue(k) PROVE NoneSettles
<1> DEFINE n == Len(outbox) + 1
           new == [key |-> k, status |-> "pending", attempts |-> 0, next_attempt_at |-> "past"]
<1>1. outbox' = Append(outbox, new) /\ marks' = marks /\ new.status = "pending"
  BY DEF Enqueue, Insert
<1>2. outbox \in Seq(Row) /\ Len(outbox) \in Nat /\ DOMAIN outbox = 1..Len(outbox)
      /\ \A m \in marks : m.row \in DOMAIN outbox
  BY DEF TypeOK
<1> HIDE DEF new
<1>3. /\ DOMAIN outbox' = 1..n
      /\ \A i \in 1..Len(outbox) : outbox'[i] = outbox[i]
      /\ outbox'[n] = new
  BY <1>1, <1>2
<1>4. ASSUME NEW i \in DOMAIN outbox', Settled(i)' PROVE i \in DOMAIN outbox /\ Settled(i)
  <2>1. CASE i \in DOMAIN outbox
    BY <1>1, <1>2, <1>3, <1>4, <2>1 DEF Settled
  <2>2. CASE i \notin DOMAIN outbox
    <3>1. i = n
      BY <1>2, <1>3, <2>2
    <3>2. QED
      BY <1>1, <1>2, <1>3, <1>4, <2>2, <3>1 DEF Settled
  <2>3. QED
    BY <2>1, <2>2
<1>5. QED
  BY <1>4 DEF NoneSettles

LEMMA OutboxStepSettles == ASSUME TypeOK, OutboxStep PROVE NoneSettles
<1>1. outbox \in Seq(Row) /\ \A m \in marks : m.row \in DOMAIN outbox
  BY DEF TypeOK
<1>2. ASSUME NEW i \in DOMAIN outbox, BackoffElapses(i) PROVE NoneSettles
  <2>1. /\ DOMAIN outbox' = DOMAIN outbox /\ marks' = marks
        /\ \A j \in DOMAIN outbox : outbox'[j].status = outbox[j].status
    BY <1>2, BackoffType DEF BackoffElapses
  <2>2. QED
    BY <2>1 DEF NoneSettles, Settled
<1>3. ASSUME TakeOldest, UNCHANGED marks PROVE NoneSettles
  <2>1. /\ DOMAIN outbox' = DOMAIN outbox
        /\ \A j \in DOMAIN outbox : outbox'[j] = outbox[j] \/ outbox'[j].status = "processing"
    BY <1>3 DEF TakeOldest, Claimed
  <2>2. QED
    BY <1>3, <2>1 DEF NoneSettles, Settled
<1>4. ASSUME NEW m \in marks, ApplyMark(m) PROVE NoneSettles
  <2>1. DOMAIN outbox' = DOMAIN outbox /\ marks' \subseteq marks
    BY <1>4, ApplyMarkType DEF ApplyMark
  <2>2. /\ \A j \in DOMAIN outbox : j # m.row => outbox'[j] = outbox[j]
        /\ outbox'[m.row].status = m.to /\ m.row \in DOMAIN outbox
    BY <1>1, <1>4 DEF ApplyMark, Marked
  <2>3. QED
    BY <2>1, <2>2 DEF NoneSettles, Settled
<1>5. ASSUME NEW m \in marks, LoseMark(m) PROVE NoneSettles
  BY <1>5 DEF LoseMark, NoneSettles, Settled
<1>6. QED
  BY <1>2, <1>3, <1>4, <1>5 DEF OutboxStep, Claim, ClaimLost

\* A run whose handler does not move keeps what it has done.
LEMMA RunStaysHandled ==
  ASSUME SInv, SInv', Kept, Grows, NEW u \in Worker, RunHandled(u),
         run'[u] = run[u], handling'[u] = handling[u]
  PROVE  RunHandled(u)'
<1> SUFFICES ASSUME handling[u] # 0
             PROVE  /\ run'[u].at \in Thinking => ForMessage(u)'
                    /\ run'[u].at = "end" => ~ForReply(u)'
                    /\ ForMessage(u)' /\ run'[u].at \notin Unrecorded
                         => recorded'[EventKey(u)'] > 0
  BY DEF RunHandled
<1>1. handling[u] \in DOMAIN outbox
  BY Numbers
<1>2. /\ EventKey(u)' = EventKey(u)
      /\ (ForMessage(u)' <=> ForMessage(u)) /\ (ForReply(u)' <=> ForReply(u))
  BY <1>1, EventKept
<1>3. \A m \in Message : /\ recorded[m] \in Nat /\ recorded'[m] \in Nat
                         /\ recorded'[m] >= recorded[m]
  BY RecordNumbers DEF SInv, RecordTypeOK, Grows
<1>4. ForMessage(u) => EventKey(u) \in Message
  BY DEF ForMessage
<1>5. ForMessage(u) /\ recorded[EventKey(u)] > 0 => recorded'[EventKey(u)] > 0
  BY <1>3, <1>4
<1>6. QED
  BY <1>2, <1>5 DEF RunHandled


-----------------------------------------------------------------------------
(* What a handler leaves behind.                                           *)

\* What a verdict of "done" rests on.
Effect(w) ==
  \/ stored'[handling[w]] > 0 /\ delivered'[handling[w]] > 0
  \/ handling[w] \in quiet'

\* A handler settles no row, or its own, with the effect there.
HandlerMarks(w) ==
  \/ NoneSettles
  \/ /\ Effect(w) /\ run[w].at \in {"store", "end"}
     /\ \A i \in DOMAIN outbox' : Settled(i)' => i \in DOMAIN outbox /\ (Settled(i) \/ i = handling[w])

\* The handler of w ends what it does without a mark of "done".
LEMMA PlainMarks ==
  ASSUME SInv, NEW w \in Worker,
         UNCHANGED vars \/ Finish(w, "failed") \/ \E b \in Booking : Enqueue(b)
  PROVE  NoneSettles
<1>1. CASE UNCHANGED vars
  BY <1>1 DEF vars, NoneSettles, Settled
<1>2. CASE Finish(w, "failed")
  BY <1>2 DEF Finish, NoneSettles, Settled
<1>3. ASSUME NEW b \in Booking, Enqueue(b) PROVE NoneSettles
  BY <1>3, EnqueueSettles DEF SInv
<1>4. QED
  BY <1>1, <1>2, <1>3

LEMMA OrFailMarks ==
  ASSUME SInv, NEW w \in Worker, NEW outcome, NEW r, OrFail(w, outcome, r)
  PROVE  NoneSettles
  BY PlainMarks DEF OrFail, Continue, Return

LEMMA HandlerMarksStep ==
  ASSUME SInv, NEW w \in Worker, HandlerStep(w), RunWire(w)
  PROVE  HandlerMarks(w)
<1>1. ASSUME NEW outcome \in Outcome, StoreOutbound(w, outcome) PROVE HandlerMarks(w)
  <2>1. run[w].at = "store" /\ handling[w] # 0 /\ outbox' = outbox
        /\ marks' = marks \cup {[row |-> handling[w],
                                 to |-> IF outcome = "ok" THEN "done" ELSE "failed"]}
    BY <1>1 DEF StoreOutbound, Return, Finish
  <2>2. handling[w] \in RowNumber /\ stored[handling[w]] < delivered[handling[w]]
    BY <2>1, Numbers DEF RunWire, AfterSend
  <2>3. CASE outcome = "ok"
    <3>1. stored' = [stored EXCEPT ![handling[w]] = @ + 1] /\ delivered' = delivered
      BY <1>1, <2>3 DEF StoreOutbound, Applied
    <3>2. stored[handling[w]] \in Nat /\ delivered[handling[w]] \in Nat
          /\ stored'[handling[w]] = stored[handling[w]] + 1
      BY <2>2, <3>1 DEF SInv, RecordTypeOK
    <3>3. Effect(w)
      BY <2>2, <3>1, <3>2 DEF Effect
    <3>4. QED
      BY <2>1, <3>3 DEF HandlerMarks, Settled
  <2>4. CASE outcome # "ok"
    BY <2>1, <2>4 DEF HandlerMarks, NoneSettles, Settled
  <2>5. QED
    BY <2>3, <2>4
<1>2. CASE EndQuietly(w)
  <2>1. /\ run[w].at = "end" /\ outbox' = outbox /\ handling[w] \in quiet'
        /\ marks' = marks \cup {[row |-> handling[w], to |-> "done"]}
    BY <1>2 DEF EndQuietly, Return, Finish
  <2>2. QED
    BY <2>1 DEF HandlerMarks, Effect, Settled
<1>3. ASSUME NEW outcome \in Outcome, ExecutePending(w, outcome) \/ ExecuteToolCall(w, outcome)
      PROVE NoneSettles
  <2>1. UNCHANGED vars \/ \E b \in Booking : Enqueue(b)
    BY <1>3, PerformOutbox DEF ExecutePending, ExecuteToolCall
  <2>2. QED
    BY <2>1, PlainMarks
<1>4. ASSUME \/ \E outcome \in Outcome : SendTemplate(w, outcome) \/ HandOver(w, outcome)
             \/ \E a \in AIAnswer : ProcessConversation(w, a)
             \/ NoAI(w) \/ AIFails(w)
      PROVE NoneSettles
  BY <1>4, PlainMarks DEF SendTemplate, HandOver, ProcessConversation, NoAI, AIFails, Continue
<1>5. ASSUME RecentMessagesFail(w) PROVE NoneSettles
  BY <1>5, PlainMarks DEF RecentMessagesFail, Return
<1>6. ASSUME NEW outcome \in Outcome,
             \/ Lookup(w, outcome) \/ RecordInbound(w, outcome) \/ ClearPending(w, outcome)
             \/ Escalate(w, outcome) \/ RememberPending(w, outcome) \/ SendText(w, outcome)
             \/ TakeOver(w, outcome) \/ CreateConversation(w, outcome)
      PROVE NoneSettles
  BY <1>6, OrFailMarks DEF Lookup, RecordInbound, ClearPending, Escalate, RememberPending,
    SendText, TakeOver, CreateConversation
<1>7. ASSUME NEW outcome \in Outcome, FindConversation(w, outcome) PROVE NoneSettles
  BY <1>7, OrFailMarks DEF FindConversation
<1>8. QED
  BY <1>1, <1>2, <1>3, <1>4, <1>5, <1>6, <1>7 DEF HandlerStep, HandlerMarks

\* What a handler does to the record, and when.
LEMMA HandlerRecord ==
  ASSUME SInv, NEW w \in Worker, HandlerStep(w)
  PROVE  /\ Grows
         /\ quiet' = quiet \/ (quiet' = quiet \cup {handling[w]} /\ run[w].at = "end")
         /\ run[w].at = "record" /\ handling'[w] # 0 /\ ForMessage(w)
              => recorded'[EventKey(w)] > 0
<1>1. /\ recorded \in [Message -> Nat] /\ delivered \in [RowNumber -> Nat]
      /\ stored \in [RowNumber -> Nat]
  BY DEF SInv, RecordTypeOK
<1>2. CASE UNCHANGED record /\ run[w].at # "record"
  BY <1>2, SameGrows DEF record
<1>3. ASSUME NEW outcome \in Outcome, SendTemplate(w, outcome) \/ SendText(w, outcome)
      PROVE  run[w].at # "record" /\ Grows /\ quiet' = quiet
  <2>1. /\ run[w].at # "record" /\ UNCHANGED <<recorded, stored, quiet>>
        /\ delivered' \in {delivered, [delivered EXCEPT ![handling[w]] = @ + 1]}
    BY <1>3 DEF SendTemplate, SendText, Delivers
  <2>2. QED
    BY <1>1, <2>1 DEF Grows
<1>4. ASSUME NEW outcome \in Outcome, StoreOutbound(w, outcome)
      PROVE  run[w].at # "record" /\ Grows /\ quiet' = quiet
  <2>1. /\ run[w].at # "record" /\ UNCHANGED <<recorded, delivered, quiet>>
        /\ stored' \in {stored, [stored EXCEPT ![handling[w]] = @ + 1]}
    BY <1>4 DEF StoreOutbound
  <2>2. QED
    BY <1>1, <2>1 DEF Grows
<1>5. ASSUME NEW outcome \in Outcome, RecordInbound(w, outcome)
      PROVE  /\ Grows /\ quiet' = quiet
             /\ handling'[w] # 0 /\ ForMessage(w) => recorded'[EventKey(w)] > 0
  <2>1. /\ UNCHANGED <<delivered, stored, quiet>>
        /\ recorded' \in {recorded, [recorded EXCEPT ![EventKey(w)] = @ + 1]}
        /\ outcome = "ok" => recorded' = [recorded EXCEPT ![EventKey(w)] = @ + 1]
    BY <1>5 DEF RecordInbound, Applied
  <2>2. handling'[w] # 0 => outcome = "ok"
    BY <1>5, OrFailAt DEF RecordInbound
  <2>3. ForMessage(w) => EventKey(w) \in Message
    BY DEF ForMessage
  <2>4. Grows
    BY <1>1, <2>1 DEF Grows
  <2>5. QED
    BY <1>1, <2>1, <2>2, <2>3, <2>4
<1>6. CASE EndQuietly(w)
  <2>1. /\ run[w].at = "end" /\ UNCHANGED <<recorded, delivered, stored>>
        /\ quiet' = quiet \cup {handling[w]}
    BY <1>6 DEF EndQuietly
  <2>2. QED
    BY <1>1, <2>1 DEF Grows
<1>7. QED
  BY <1>2, <1>3, <1>4, <1>5, <1>6
  DEF HandlerStep, Lookup, FindConversation, CreateConversation, ExecutePending,
    ExecuteToolCall, ClearPending, HandOver, Escalate, RememberPending, TakeOver,
    ProcessConversation, NoAI, RecentMessagesFail, AIFails

\* The run of a handler that goes on has done what its next place says.
LEMMA HandlerRunHandled ==
  ASSUME SInv, NEW w \in Worker, HandlerStep(w), RunWire(w), RunHandled(w)
  PROVE  RunHandled(w)'
<1> SUFFICES ASSUME handling'[w] # 0
             PROVE  /\ run'[w].at \in Thinking => ForMessage(w)'
                    /\ run'[w].at = "end" => ~ForReply(w)'
                    /\ ForMessage(w)' /\ run'[w].at \notin Unrecorded
                         => recorded'[EventKey(w)'] > 0
  BY DEF RunHandled
<1>1. /\ Kept /\ handling[w] \in DOMAIN outbox /\ handling'[w] = handling[w] /\ handling[w] # 0
  BY HandlerFrame, Numbers
<1>2. /\ EventKey(w)' = EventKey(w)
      /\ (ForMessage(w)' <=> ForMessage(w)) /\ (ForReply(w)' <=> ForReply(w))
  BY <1>1, EventKept
<1>3. GoodStage(w)
  BY <1>1 DEF RunWire
<1>4. /\ run[w].at \in Thinking => ForMessage(w)
      /\ ForMessage(w) /\ run[w].at \notin Unrecorded => recorded[EventKey(w)] > 0
  BY <1>1 DEF RunHandled
<1> DEFINE from == run[w].at
           to == run'[w].at
<1>5. \/ from = "lookup" /\ to \in {"template", "find"}
      \/ from = "lookup" /\ ForReply(w) /\ to = "send"
      \/ from = "template" /\ ForBooking(w) /\ to \in {"find", "end"}
      \/ from = "find" /\ to = "create"
      \/ from \in {"find", "create"} /\ ForMessage(w) /\ to = "record"
      \/ from \in {"find", "create"} /\ ~ForMessage(w) /\ to = "store"
      \/ from \in Thinking /\ to \in (Thinking \ {"record"}) \cup {"send", "end"}
      \/ from = "send" /\ to \in {"take over", "store"}
      \/ from = "take over" /\ to = "store"
  BY <1>3, NextStage DEF GoodStage, Thinking
<1>6. /\ ForBooking(w) => ~ForMessage(w) /\ ~ForReply(w)
      /\ ForMessage(w) => ~ForReply(w)
  BY EventKinds
<1> HIDE DEF from, to
<1>7. to \in Thinking => ForMessage(w)
  BY <1>4, <1>5 DEF Thinking, from
<1>8. to = "end" => ~ForReply(w)
  BY <1>4, <1>5, <1>6 DEF Thinking, from
<1>9. ForMessage(w) /\ to \notin Unrecorded => recorded'[EventKey(w)] > 0
  <2> SUFFICES ASSUME ForMessage(w), to \notin Unrecorded PROVE recorded'[EventKey(w)] > 0
    OBVIOUS
  <2>1. from = "record" \/ from \notin Unrecorded
    BY <1>5, <1>6 DEF Unrecorded, Thinking
  <2>2. CASE from = "record"
    BY <1>1, <2>2, HandlerRecord DEF from
  <2>3. CASE from \notin Unrecorded
    <3>1. recorded[EventKey(w)] > 0 /\ EventKey(w) \in Message
      BY <1>4, <2>3 DEF from, ForMessage
    <3>2. recorded'[EventKey(w)] >= recorded[EventKey(w)]
      BY <3>1, HandlerRecord DEF Grows
    <3>3. recorded[EventKey(w)] \in Nat /\ recorded'[EventKey(w)] \in Nat
      BY <3>1, RecordNumbers, HandlerType DEF SInv, RecordTypeOK
    <3>4. QED
      BY <3>1, <3>2, <3>3
  <2>4. QED
    BY <2>1, <2>2, <2>3
<1>10. QED
  BY <1>2, <1>7, <1>8, <1>9 DEF to

LEMMA HandlerHandled ==
  ASSUME SInv, SInv', WireInv, HandledInv, NEW w \in Worker, HandlerStep(w)
  PROVE  HandledInv'
<1>0. PICK i \in DOMAIN outbox : i = handling[w]
  BY HandlerFrame
<1>1. /\ Kept /\ i \in DOMAIN outbox /\ i # 0 /\ i \in RowNumber
      /\ \A u \in Worker \ {w} : run'[u] = run[u] /\ handling'[u] = handling[u]
  BY <1>0, HandlerFrame, Numbers
<1>2. /\ Grows /\ (quiet' = quiet \/ (quiet' = quiet \cup {i} /\ run[w].at = "end"))
  BY <1>0, HandlerRecord
<1>3. RunWire(w) /\ \A u \in Worker : RunHandled(u)
  BY DEF WireInv, HandledInv
<1>4. \A u \in Worker : RunHandled(u)'
  BY <1>1, <1>2, <1>3, RunStaysHandled, HandlerRunHandled
<1>5. QuietInv'
  <2> SUFFICES ASSUME NEW j \in quiet'
               PROVE  j \in DOMAIN outbox' /\ outbox'[j].key \notin 1..MaxConv
    BY DEF QuietInv
  <2>1. j \in DOMAIN outbox /\ outbox[j].key \notin 1..MaxConv
    <3>1. CASE j \in quiet
      BY <3>1 DEF HandledInv, QuietInv
    <3>2. CASE j \notin quiet
      <4>1. j = i /\ run[w].at = "end"
        BY <1>2, <3>2
      <4>2. QED
        BY <1>0, <1>1, <1>3, <4>1 DEF RunHandled, ForReply, EventKey
    <3>3. QED
      BY <3>1, <3>2
  <2>2. QED
    BY <1>1, <2>1 DEF Kept
<1>6. \A j \in DOMAIN outbox : Handled(j) => Handled(j)'
  BY <1>1, <1>2, HandledKept
<1>7. ASSUME NoneSettles, NEW j \in DOMAIN outbox', Settled(j)' PROVE Handled(j)'
  BY <1>6, <1>7 DEF NoneSettles, HandledInv
<1>8. ASSUME Effect(w), run[w].at \in {"store", "end"} PROVE Handled(i)'
  <2>1. outbox'[i].key = outbox[i].key
    BY <1>1 DEF Kept
  <2>2. ForMessage(w) => recorded[EventKey(w)] > 0
    BY <1>0, <1>1, <1>3, <1>8 DEF RunHandled, Unrecorded
  <2>3. outbox[i].key \in Message => recorded'[outbox[i].key] > 0
    <3>1. SUFFICES ASSUME outbox[i].key \in Message PROVE recorded'[outbox[i].key] > 0
      OBVIOUS
    <3>2. recorded[outbox[i].key] > 0
      BY <1>0, <2>2, <3>1 DEF ForMessage, EventKey
    <3>3. recorded'[outbox[i].key] >= recorded[outbox[i].key]
      BY <1>2, <3>1 DEF Grows
    <3>4. recorded[outbox[i].key] \in Nat /\ recorded'[outbox[i].key] \in Nat
      BY <3>1, RecordNumbers DEF SInv, RecordTypeOK
    <3>5. QED
      BY <3>2, <3>3, <3>4
  <2>4. i \in quiet' \/ (delivered'[i] > 0 /\ stored'[i] > 0)
    BY <1>0, <1>8 DEF Effect
  <2>5. QED
    BY <2>1, <2>3, <2>4 DEF Handled
<1>9. ASSUME NEW j \in DOMAIN outbox', Settled(j)' PROVE Handled(j)'
  <2>1. CASE NoneSettles
    BY <1>7, <1>9, <2>1
  <2>2. CASE ~NoneSettles
    <3>1. /\ Effect(w) /\ run[w].at \in {"store", "end"}
          /\ j \in DOMAIN outbox /\ (Settled(j) \/ j = i)
      BY <1>0, <1>3, <1>9, <2>2, HandlerMarksStep DEF HandlerMarks
    <3>2. CASE Settled(j)
      BY <1>6, <3>1, <3>2 DEF HandledInv
    <3>3. CASE j = i
      BY <1>8, <3>1, <3>3
    <3>4. QED
      BY <3>1, <3>2, <3>3
  <2>3. QED
    BY <2>1, <2>2
<1>10. QED
  BY <1>4, <1>5, <1>9 DEF HandledInv

\* A step that touches neither the record nor a run.
LEMMA StillHandled ==
  ASSUME SInv, SInv', HandledInv, Kept, NoneSettles, UNCHANGED record,
         \A u \in Worker : RunHandled(u)'
  PROVE  HandledInv'
<1>1. Grows /\ quiet' = quiet
  BY SameGrows DEF record
<1>2. QuietInv'
  BY <1>1 DEF HandledInv, QuietInv, Kept
<1>3. QED
  BY <1>1, <1>2, HandledKept DEF HandledInv, NoneSettles

LEMMA SomeRowEnqueued == ASSUME SInv, NEW k, Enqueue(k) PROVE Kept /\ NoneSettles /\ UNCHANGED handling
  BY EnqueueKept, EnqueueSettles DEF SInv

LEMMA NoRowTouched == ASSUME SInv, UNCHANGED vars PROVE Kept /\ NoneSettles /\ UNCHANGED handling
  BY SameKept DEF SInv, vars, SameKeys, NoneSettles, Settled

\* Every step but those of a run leaves runs and record alone, and settles
\* nothing.
OthersLeave ==
  (HouseStep \/ CustomerStep \/ StaffStep \/ OutboxStep \/ UNCHANGED allVars)
    => Kept /\ NoneSettles /\ UNCHANGED <<record, run, handling>>

LEMMA OthersLeaveAll == ASSUME SInv PROVE OthersLeave
<1>1. CASE HouseStep
  <2>1. UNCHANGED vars \/ \E b \in Booking : Enqueue(b)
    BY <1>1 DEF HouseStep, Book, MarkReservation, CheckIn, UpdateMyReservation, TimePasses,
      MemberChanges,
      SetReservation
  <2>2. UNCHANGED <<record, run>>
    BY <1>1 DEF HouseStep, Book, MarkReservation, CheckIn, UpdateMyReservation, TimePasses,
      MemberChanges
  <2>3. QED
    BY <2>1, <2>2, SomeRowEnqueued, NoRowTouched DEF OthersLeave
<1>2. CASE CustomerStep
  <2>1. UNCHANGED vars \/ \E m \in Message : Enqueue(m)
    BY <1>2 DEF CustomerStep, CustomerWrites, AcceptWhatsAppWebhook
  <2>2. UNCHANGED <<record, run>>
    BY <1>2 DEF CustomerStep, CustomerWrites, AcceptWhatsAppWebhook
  <2>3. QED
    BY <2>1, <2>2, SomeRowEnqueued, NoRowTouched DEF OthersLeave
<1>3. CASE StaffStep
  <2>1. UNCHANGED vars \/ \E c \in DOMAIN conversation : Enqueue(c)
    BY <1>3 DEF StaffStep, RequestReply, SetConversationStatus, DeskOpens, DeskSends,
      DeskTakesOver, DeskStores
  <2>2. UNCHANGED <<record, run>>
    BY <1>3 DEF StaffStep, RequestReply, SetConversationStatus, DeskOpens, DeskSends,
      DeskTakesOver, DeskStores
  <2>3. QED
    BY <2>1, <2>2, SomeRowEnqueued, NoRowTouched DEF OthersLeave
<1>4. CASE OutboxStep
  <2>1. Kept /\ UNCHANGED handling
    BY <1>4, OutboxStepKeys, SameKept DEF SInv
  <2>2. QED
    BY <1>4, <2>1, OutboxStepSettles DEF OutboxStep, OthersLeave, SInv
<1>5. CASE UNCHANGED allVars
  <2>1. UNCHANGED <<vars, record, run>>
    BY <1>5 DEF allVars
  <2>2. QED
    BY <2>1, NoRowTouched DEF OthersLeave
<1>6. QED
  BY <1>1, <1>2, <1>3, <1>4, <1>5 DEF OthersLeave

LEMMA HandledStep ==
  SInv /\ SInv' /\ WireInv /\ HandledInv /\ [SystemNext]_allVars => HandledInv'
<1> SUFFICES ASSUME SInv, SInv', WireInv, HandledInv, [SystemNext]_allVars PROVE HandledInv'
  OBVIOUS
<1>1. \A u \in Worker : RunHandled(u)
  BY DEF HandledInv
<1>2. CASE HouseStep \/ CustomerStep \/ StaffStep \/ OutboxStep \/ UNCHANGED allVars
  <2>1. Kept /\ NoneSettles /\ UNCHANGED <<record, run, handling>>
    BY <1>2, OthersLeaveAll DEF OthersLeave
  <2>2. \A u \in Worker : RunHandled(u)'
    BY <1>1, <2>1, SameGrows, RunStaysHandled
  <2>3. QED
    BY <2>1, <2>2, StillHandled
<1>3. ASSUME NEW w \in Worker, NEW i \in batch[w], ProcessEvent(w, i) PROVE HandledInv'
  <2>1. /\ outbox' = outbox /\ marks' = marks /\ runs' = [runs EXCEPT ![i] = @ + 1]
        /\ handling' = [handling EXCEPT ![w] = i] /\ UNCHANGED record
    BY <1>3 DEF ProcessEvent, Start
  <2>2. Kept
    <3>1. \A j \in DOMAIN outbox : runs[j] \in Nat
      BY Numbers
    <3>2. i \in DOMAIN outbox /\ DOMAIN runs = DOMAIN outbox
      BY Numbers DEF SInv, TypeOK
    <3>3. QED
      BY <2>1, <3>1, <3>2 DEF Kept
  <2>3. \A u \in Worker \ {w} : run'[u] = run[u] /\ handling'[u] = handling[u]
    BY <1>3, <2>1 DEF ProcessEvent, SInv, RunInv, TypeOK
  <2>4. run'[w].at = "lookup"
    BY <1>3, RestType DEF ProcessEvent, SInv, RunInv, Run
  <2>5. RunHandled(w)'
    BY <2>4 DEF RunHandled, Thinking, Unrecorded
  <2>6. \A u \in Worker : RunHandled(u)'
    BY <1>1, <2>1, <2>2, <2>3, <2>5, SameGrows, RunStaysHandled
  <2>7. NoneSettles
    BY <2>1 DEF NoneSettles, Settled
  <2>8. QED
    BY <2>1, <2>2, <2>6, <2>7, StillHandled
<1>4. ASSUME NEW w \in Worker, WorkerDies(w) PROVE HandledInv'
  <2>1. /\ outbox' = outbox /\ marks' = marks /\ UNCHANGED <<runs, record>>
    BY <1>4 DEF WorkerDies, Crash
  <2>2. Kept
    BY <2>1, SameKept DEF SameKeys, SInv
  <2>3. handling'[w] = 0 /\ \A u \in Worker \ {w} : run'[u] = run[u] /\ handling'[u] = handling[u]
    BY <1>4 DEF WorkerDies, Crash, SInv, RunInv, TypeOK
  <2>4. \A u \in Worker : RunHandled(u)'
    <3>1. RunHandled(w)'
      BY <2>3 DEF RunHandled
    <3>2. QED
      BY <1>1, <2>1, <2>2, <2>3, <3>1, SameGrows, RunStaysHandled
  <2>5. NoneSettles
    BY <2>1 DEF NoneSettles, Settled
  <2>6. QED
    BY <2>1, <2>2, <2>4, <2>5, StillHandled
<1>5. QED
  BY <1>2, <1>3, <1>4, HandlerHandled DEF SystemNext

LEMMA WireInvariant == SystemSpec => []WireInv
<1>1. SystemInit => WireInv
  BY RestType DEF SystemInit, Init, WireInv, RowWire, RunWire
<1>2. QED
  BY <1>1, WireStep, LInvariant, SystemInvariant, PTL DEF SystemSpec

\* No event is done before its message is in the inbox and its answer has
\* gone out and is in the inbox too, or its run had nothing to say: whatever
\* calls are refused or lost and however the runs of an event are spread over
\* workers, crashes and retries.
THEOREM DoneHandled == SystemSpec => []DoneMeansHandled
<1>1. SystemInit => HandledInv
  BY DEF SystemInit, Init, HandledInv, RunHandled, QuietInv
<1>2. SystemSpec => []HandledInv
  BY <1>1, HandledStep, WireInvariant, SystemInvariant, PTL DEF SystemSpec
<1>3. HandledInv => DoneMeansHandled
  BY DEF HandledInv, QuietInv, Handled, DoneMeansHandled
<1>4. QED
  BY <1>2, <1>3, PTL

-----------------------------------------------------------------------------
(* After a takeover.                                                       *)

\* The run of w may still answer its message, whoever has the conversation:
\* it read the status before, and looks at it no more.
Answering(w) ==
  /\ handling[w] # 0
  /\ ForMessage(w)
  /\ \/ run[w].at = "record" /\ run[w].status \notin {"HUMAN_ACTIVE", "CLOSED"}
     \/ run[w].at \in (Thinking \ {"record"}) \cup {"send"}

Pending(c) == {w \in Worker : Answering(w) /\ run[w].conv = c}

TakenOver(c) == c \in DOMAIN conversation /\ conversation[c].status = "HUMAN_ACTIVE"

\* Whoever may answer read a status that lets it, and whoever has answered
\* since a takeover that stands is not among those who may.
LateInv ==
  /\ \A w \in Worker : Answering(w) =>
       /\ run[w].conv \in DOMAIN conversation
       /\ run[w].status \notin {"HUMAN_ACTIVE", "CLOSED"}
  /\ \A c \in 1..MaxConv :
       TakenOver(c) => late[c] + Cardinality(Pending(c)) <= Cardinality(Worker)

\* No conversation goes, and where a takeover stands it stood before with
\* the same count, or the count begins.
ChatStep ==
  /\ DOMAIN conversation \subseteq DOMAIN conversation'
  /\ \A c \in 1..MaxConv : TakenOver(c)' => late'[c] = 0 \/ (late'[c] = late[c] /\ TakenOver(c))

\* Who begins to answer has just read that no person has the conversation.
AnswerStep(w) ==
  Answering(w)' =>
    /\ run'[w].conv \in DOMAIN conversation'
    /\ run'[w].status \notin {"HUMAN_ACTIVE", "CLOSED"}
    /\ \/ Answering(w) /\ run'[w].conv = run[w].conv
       \/ conversation'[run'[w].conv].status # "HUMAN_ACTIVE"

LEMMA NobodyMore ==
  ASSUME \A w \in Worker : AnswerStep(w),
         NEW c, conversation'[c].status = "HUMAN_ACTIVE"
  PROVE  Pending(c)' \subseteq Pending(c)
  BY DEF AnswerStep, Pending

LEMMA PendingNumber ==
  ASSUME IsFiniteSet(Worker), NEW S \in SUBSET Worker, NEW T \in SUBSET S
  PROVE  /\ IsFiniteSet(S) /\ IsFiniteSet(T)
         /\ Cardinality(S) \in Nat /\ Cardinality(T) \in Nat /\ Cardinality(Worker) \in Nat
         /\ Cardinality(T) <= Cardinality(S) /\ Cardinality(S) <= Cardinality(Worker)
<1>1. IsFiniteSet(S) /\ Cardinality(S) <= Cardinality(Worker)
  BY FS_Subset
<1>2. IsFiniteSet(T) /\ Cardinality(T) <= Cardinality(S)
  BY <1>1, FS_Subset
<1>3. QED
  BY <1>1, <1>2, FS_CardinalityType

LEMMA LateKept ==
  ASSUME IsFiniteSet(Worker), SInv, SInv', LateInv, ChatStep, \A w \in Worker : AnswerStep(w)
  PROVE  LateInv'
<1>1. ASSUME NEW c \in 1..MaxConv, TakenOver(c)'
      PROVE  late'[c] + Cardinality(Pending(c)') <= Cardinality(Worker)
  <2>1. Pending(c)' \subseteq Pending(c) /\ Pending(c) \subseteq Worker
    BY <1>1, NobodyMore DEF Pending, TakenOver
  <2>2. /\ Cardinality(Pending(c)) \in Nat /\ Cardinality(Pending(c)') \in Nat
        /\ Cardinality(Worker) \in Nat
        /\ Cardinality(Pending(c)') <= Cardinality(Pending(c))
        /\ Cardinality(Pending(c)) <= Cardinality(Worker)
    BY <2>1, PendingNumber
  <2>3. late[c] \in Nat
    BY DEF SInv, ChatTypeOK
  <2>4. CASE late'[c] = 0
    BY <2>2, <2>4
  <2>5. CASE late'[c] = late[c] /\ TakenOver(c)
    <3>1. late[c] + Cardinality(Pending(c)) <= Cardinality(Worker)
      BY <2>5 DEF LateInv
    <3>2. QED
      BY <2>2, <2>3, <2>5, <3>1
  <2>6. QED
    BY <1>1, <2>4, <2>5 DEF ChatStep
<1>2. QED
  BY <1>1 DEF LateInv, AnswerStep

LEMMA SameChat == ASSUME UNCHANGED chat PROVE ChatStep
  BY DEF chat, ChatStep, TakenOver

LEMMA SetConversationStep ==
  ASSUME ChatTypeOK, NEW c, NEW new, SetConversation(c, new)
  PROVE  ChatStep
<1>1. conversation \in Seq(Conversation) /\ late \in [1..MaxConv -> Nat]
  BY DEF ChatTypeOK
<1>2. /\ DOMAIN conversation' = DOMAIN conversation
      /\ \A d \in DOMAIN conversation \ {c} : conversation'[d] = conversation[d]
      /\ c \in DOMAIN conversation => conversation'[c] = new
  BY <1>1 DEF SetConversation
<1>3. late' = IF TakesOver(c, new.status) THEN [late EXCEPT ![c] = 0] ELSE late
  BY DEF SetConversation
<1>4. ASSUME NEW d \in 1..MaxConv, TakenOver(d)'
      PROVE  late'[d] = 0 \/ (late'[d] = late[d] /\ TakenOver(d))
  <2>1. d \in DOMAIN conversation /\ conversation'[d].status = "HUMAN_ACTIVE"
    BY <1>2, <1>4 DEF TakenOver
  <2>2. CASE d # c
    BY <1>1, <1>2, <1>3, <2>1, <2>2 DEF TakenOver
  <2>3. CASE d = c
    BY <1>1, <1>2, <1>3, <2>1, <2>3 DEF TakenOver, TakesOver
  <2>4. QED
    BY <2>2, <2>3
<1>5. QED
  BY <1>2, <1>4 DEF ChatStep

LEMMA SetsChat ==
  ASSUME ChatTypeOK, NEW c, NEW x, SetStatus(c, x) \/ SetPending(c, x)
  PROVE  ChatStep
  BY SetConversationStep DEF SetStatus, SetPending

LEMMA PerformChat ==
  ASSUME ChatTypeOK, NEW w, NEW name, NEW b, Perform(w, name, b)
  PROVE  ChatStep
  BY SetsChat, SameChat DEF Perform

\* A conversation that is created is the assistant's.
LEMMA CreateChat ==
  ASSUME SInv, LateInv, NEW w \in Worker, NEW outcome, CreateConversation(w, outcome)
  PROVE  ChatStep
<1>1. CASE UNCHANGED chat
  BY <1>1, SameChat
<1>2. CASE ~UNCHANGED chat
  <2> DEFINE new == [booking |-> run[w].booking, status |-> "AI_ACTIVE", pending |-> NoAction]
  <2>1. conversation' = Append(conversation, new) /\ late' = late
        /\ new.status # "HUMAN_ACTIVE"
    BY <1>2 DEF CreateConversation
  <2>2. conversation \in Seq(Conversation) /\ Len(conversation) \in Nat
        /\ DOMAIN conversation = 1..Len(conversation)
    BY DEF SInv, ChatTypeOK
  <2> HIDE DEF new
  <2>3. /\ DOMAIN conversation' = 1..(Len(conversation) + 1)
        /\ \A c \in DOMAIN conversation : conversation'[c] = conversation[c]
        /\ conversation'[Len(conversation) + 1] = new
    BY <2>1, <2>2
  <2>4. \A c : TakenOver(c)' => TakenOver(c)
    BY <2>1, <2>2, <2>3 DEF TakenOver
  <2>5. QED
    BY <2>1, <2>2, <2>3, <2>4 DEF ChatStep
<1>3. QED
  BY <1>1, <1>2

LEMMA HandlerChat ==
  ASSUME SInv, LateInv, NEW w \in Worker, HandlerStep(w)
  PROVE  ChatStep \/ \E outcome \in Outcome : SendText(w, outcome)
<1>1. ChatTypeOK
  BY DEF SInv
<1>2. CASE UNCHANGED chat
  BY <1>2, SameChat
<1>3. ASSUME UNCHANGED <<conversation, late>> PROVE ChatStep
  BY <1>3 DEF ChatStep, TakenOver
<1>4. ASSUME NEW outcome \in Outcome, CreateConversation(w, outcome) PROVE ChatStep
  BY <1>4, CreateChat
<1>5. ASSUME NEW outcome \in Outcome, ExecutePending(w, outcome) \/ ExecuteToolCall(w, outcome)
      PROVE ChatStep
  <2>1. CASE ~Applied(outcome)
    BY <1>3, <1>5, <2>1 DEF ExecutePending, ExecuteToolCall, chat
  <2>2. CASE Applied(outcome) /\ ExecutePending(w, outcome)
    <3> DEFINE action == run[w].pending
               b == FirstNonEmpty(action.booking, conversation[run[w].conv].booking)
    <3>1. Perform(w, action.name, b)
      BY <2>2 DEF ExecutePending
    <3>2. QED
      BY <1>1, <3>1, PerformChat
  <2>3. CASE Applied(outcome) /\ ExecuteToolCall(w, outcome)
    <3> DEFINE call == Head(run[w].answer.calls)
               b == conversation[run[w].conv].booking
               action == [name |-> call.name, booking |-> FirstNonEmpty(b, call.booking)]
    <3>1. \/ SetPending(run[w].conv, action)
          \/ Perform(w, call.name, FirstNonEmpty(call.booking, b))
      BY <2>3 DEF ExecuteToolCall
    <3>2. QED
      BY <1>1, <3>1, PerformChat, SetsChat
  <2>4. QED
    BY <1>5, <2>1, <2>2, <2>3
<1>6. ASSUME NEW outcome \in Outcome,
             \/ ClearPending(w, outcome) \/ HandOver(w, outcome) \/ Escalate(w, outcome)
             \/ RememberPending(w, outcome) \/ TakeOver(w, outcome)
      PROVE ChatStep
  <2> DEFINE c == run[w].conv
  <2>1. \/ UNCHANGED chat
        \/ SetStatus(c, "WAITING_FOR_HUMAN") \/ SetStatus(c, "HUMAN_ACTIVE")
        \/ SetPending(c, NoAction) \/ SetPending(c, run[w].answer.pending)
    BY <1>6 DEF ClearPending, HandOver, Escalate, RememberPending, TakeOver
  <2>2. QED
    BY <1>1, <1>3, <2>1, SetsChat DEF chat
<1>7. QED
  BY <1>2, <1>3, <1>4, <1>5, <1>6
  DEF HandlerStep, Lookup, SendTemplate, FindConversation, RecordInbound, StoreOutbound,
    ProcessConversation, NoAI, RecentMessagesFail, AIFails, EndQuietly

\* A run keeps its conversation and the status it read, and goes on from the inbox only where it
\* read that no person has it.
SameTalk(w, r) == r.conv = run[w].conv /\ r.status = run[w].status

LEMMA ThinkingKeeps ==
  ASSUME SInv, NEW w \in Worker, HandlerStep(w), run[w].at \in Thinking, handling'[w] # 0
  PROVE  /\ SameTalk(w, run'[w])
         /\ run[w].at = "record" /\ run'[w].at # "end" => run[w].status \notin {"HUMAN_ACTIVE", "CLOSED"}
<1>1. TypeOK /\ run \in [Worker -> Run] /\ run[w] \in Run
  BY DEF SInv, RunInv
<1>2. \A step \in Step : SameTalk(w, To(w, step)) /\ To(w, step).at = step
  BY <1>1, RunAt DEF SameTalk
<1>3. \A a \in Answer : SameTalk(w, With(run[w], a))
  BY <1>1, WithType DEF SameTalk
<1>4. ASSUME NEW outcome, NEW r, OrFail(w, outcome, r) PROVE run'[w] = r
  BY <1>4, OrFailAt
<1>5. ASSUME NEW r, run' = [run EXCEPT ![w] = r] PROVE run'[w] = r
  BY <1>1, <1>5
<1>6. ASSUME NEW outcome \in Outcome, RecordInbound(w, outcome)
      PROVE  /\ SameTalk(w, run'[w])
             /\ run'[w].at # "end" => run[w].status \notin {"HUMAN_ACTIVE", "CLOSED"}
  <2> DEFINE kind == wrote[EventKey(w)]
  <2>1. run'[w] = To(w, AfterRecord(run[w], kind))
    BY <1>4, <1>6 DEF RecordInbound
  <2>2. /\ AfterRecord(run[w], kind) \in Step
        /\ run[w].status \in {"HUMAN_ACTIVE", "CLOSED"} => AfterRecord(run[w], kind) = "end"
    BY DEF AfterRecord, Step
  <2>3. QED
    BY <1>2, <2>1, <2>2
<1>7. ASSUME NEW outcome \in Outcome, ExecutePending(w, outcome)
      PROVE SameTalk(w, run'[w]) /\ run[w].at = "execute"
  <2>1. \A say : SameTalk(w, [To(w, "clear") EXCEPT !.say = say])
    BY <1>1, <1>2 DEF To, Run, Step, SameTalk
  <2>2. QED
    BY <1>2, <1>5, <1>7, <2>1 DEF ExecutePending, Step
<1>8. ASSUME NEW outcome \in Outcome, ClearPending(w, outcome) \/ HandOver(w, outcome)
      PROVE SameTalk(w, run'[w]) /\ run[w].at \in {"clear", "hand over"}
  BY <1>2, <1>4, <1>5, <1>8 DEF ClearPending, HandOver, Continue, Step
<1>9. ASSUME NoAI(w) \/ AIFails(w)
      PROVE SameTalk(w, run'[w]) /\ run[w].at = "think"
  BY <1>2, <1>5, <1>9 DEF NoAI, AIFails, Continue, Step
<1>10. run[w].answer \in Answer
  BY <1>1 DEF Run
<1>11. ASSUME NEW outcome \in Outcome, Escalate(w, outcome)
       PROVE SameTalk(w, run'[w]) /\ run[w].at = "escalate"
  <2>1. [run[w].answer EXCEPT !.handover = "no"] \in Answer
    BY <1>10 DEF Answer
  <2>2. QED
    BY <1>3, <1>4, <1>11, <2>1 DEF Escalate
<1>12. ASSUME NEW outcome \in Outcome, RememberPending(w, outcome)
       PROVE SameTalk(w, run'[w]) /\ run[w].at = "remember"
  <2>1. [run[w].answer EXCEPT !.pending = NoAction] \in Answer
    BY <1>10 DEF Answer
  <2>2. QED
    BY <1>3, <1>4, <1>12, <2>1 DEF RememberPending
<1>13. ASSUME NEW outcome \in Outcome, ExecuteToolCall(w, outcome)
       PROVE SameTalk(w, run'[w]) /\ run[w].at = "tool"
  <2>1. run[w].at = "tool" /\ run[w].answer.calls # <<>>
    BY <1>13 DEF ExecuteToolCall, SInv, RunInv, GoodRun
  <2>2. Tail(run[w].answer.calls) \in Seq(Call)
    <3>1. run[w].answer.calls \in Seq(Call)
      BY <1>10 DEF Answer
    <3>2. QED
      BY <2>1, <3>1
  <2>3. [run[w].answer EXCEPT !.calls = Tail(@)] \in Answer
    BY <1>10, <2>2 DEF Answer
  <2>4. QED
    BY <1>3, <1>5, <1>13, <2>1, <2>3 DEF ExecuteToolCall
<1>14. ASSUME NEW a \in AIAnswer, ProcessConversation(w, a)
       PROVE SameTalk(w, run'[w]) /\ run[w].at = "think"
  <2>1. Decoded(a) \in Answer
    BY AnswersAssumption, DecodedType
  <2>2. QED
    BY <1>3, <1>5, <1>14, <2>1 DEF ProcessConversation, Continue
<1>15. ASSUME RecentMessagesFail(w) PROVE FALSE
  BY <1>1, <1>15 DEF RecentMessagesFail, Return, Finish, TypeOK
<1>16. QED
  BY <1>6, <1>7, <1>8, <1>9, <1>11, <1>12, <1>13, <1>14, <1>15
  DEF HandlerStep, Thinking, Lookup, SendTemplate, FindConversation, CreateConversation,
    SendText, TakeOver, StoreOutbound, EndQuietly

\* What a run that has found its conversation knows of it.
LEMMA FoundFields ==
  ASSUME SInv, NEW w \in Worker, NEW c \in 1..MaxConv, conversation'[c] \in Conversation
  PROVE  Found(w, c).conv = c /\ Found(w, c).status = conversation'[c].status
<1> DEFINE t == To(w, IF ForMessage(w) THEN "record" ELSE "store")
<1>1. t \in Run
  BY RunAt DEF Step, SInv, RunInv
<1>2. Found(w, c) = [[[t EXCEPT !.conv = c] EXCEPT !.status = conversation'[c].status]
                        EXCEPT !.pending = conversation'[c].pending]
  BY DEF Found
<1> HIDE DEF t
<1> DEFINE u == [t EXCEPT !.conv = c]
<1>3. u \in Run /\ u.conv = c
  BY <1>1 DEF Run
<1> HIDE DEF u
<1> DEFINE v == [u EXCEPT !.status = conversation'[c].status]
<1>4. conversation'[c].status \in ConversationStatus
  BY DEF Conversation
<1>5. v \in Run /\ v.conv = c /\ v.status = conversation'[c].status
  BY <1>3, <1>4 DEF Run
<1> HIDE DEF v
<1>6. Found(w, c) = [v EXCEPT !.pending = conversation'[c].pending]
  BY <1>2 DEF u, v
<1>7. QED
  BY <1>5, <1>6 DEF Run

LEMMA FoundStep ==
  ASSUME SInv, SInv', NEW w \in Worker, NEW outcome \in Outcome,
         FindConversation(w, outcome) \/ CreateConversation(w, outcome),
         handling'[w] # 0, run'[w].at = "record"
  PROVE  /\ run'[w].conv \in DOMAIN conversation'
         /\ run'[w].status = conversation'[run'[w].conv].status
<1>1. RunInv /\ run \in [Worker -> Run] /\ conversation \in Seq(Conversation)
      /\ Len(conversation) \in Nat /\ DOMAIN conversation = 1..Len(conversation)
  BY DEF SInv, RunInv, ChatTypeOK
<1>2. /\ DOMAIN conversation' \subseteq 1..MaxConv
      /\ \A c \in DOMAIN conversation' : conversation'[c] \in Conversation
  BY BoundsAssumption DEF SInv, ChatTypeOK
<1>3. \E c \in DOMAIN conversation' : run'[w] = Found(w, c)
  <2>1. CASE FindConversation(w, outcome)
    <3>1. To(w, "create").at = "create"
      BY <1>1, ToAt
    <3>2. conversation' = conversation
      BY <2>1 DEF FindConversation, chat
    <3>3. CASE OrFail(w, outcome, To(w, "create"))
      <4>1. run'[w] = To(w, "create")
        BY <3>3, OrFailAt
      <4>2. QED
        BY <3>1, <4>1
    <3>4. CASE \E c \in Open(run[w].booking) : OrFail(w, outcome, Found(w, c))
      <4>1. PICK c \in Open(run[w].booking) : OrFail(w, outcome, Found(w, c))
        BY <3>4
      <4>2. run'[w] = Found(w, c)
        BY <4>1, OrFailAt
      <4>3. QED
        BY <3>2, <4>2 DEF Open
    <3>5. QED
      BY <2>1, <3>3, <3>4 DEF FindConversation
  <2>2. CASE CreateConversation(w, outcome)
    <3> DEFINE n == Len(conversation) + 1
               new == [booking |-> run[w].booking, status |-> "AI_ACTIVE", pending |-> NoAction]
    <3>1. OrFail(w, outcome, Found(w, n))
      BY <2>2 DEF CreateConversation
    <3>2. outcome = "ok" /\ run'[w] = Found(w, n)
      BY <3>1, OrFailAt
    <3>3. conversation' = Append(conversation, new)
      BY <2>2, <3>2 DEF CreateConversation, Applied
    <3> HIDE DEF new
    <3>4. n \in DOMAIN conversation'
      BY <1>1, <3>3
    <3>5. QED
      BY <3>2, <3>4
  <2>3. QED
    BY <2>1, <2>2
<1>4. PICK c \in DOMAIN conversation' : run'[w] = Found(w, c)
  BY <1>3
<1>5. QED
  BY <1>2, <1>4, FoundFields

LEMMA HandlerAnswers ==
  ASSUME SInv, SInv', WireInv, HandledInv, LateInv, NEW w \in Worker, HandlerStep(w),
         DOMAIN conversation \subseteq DOMAIN conversation'
  PROVE  AnswerStep(w) /\ (run[w].at = "send" => ~Answering(w)')
<1> SUFFICES ASSUME Answering(w)'
             PROVE  /\ run[w].at # "send"
                    /\ run'[w].conv \in DOMAIN conversation'
                    /\ run'[w].status \notin {"HUMAN_ACTIVE", "CLOSED"}
                    /\ \/ Answering(w) /\ run'[w].conv = run[w].conv
                       \/ conversation'[run'[w].conv].status # "HUMAN_ACTIVE"
  BY DEF AnswerStep
<1>1. /\ handling'[w] # 0 /\ ForMessage(w)'
      /\ run'[w].at \in Thinking \cup {"send"}
      /\ run'[w].at = "record" => run'[w].status \notin {"HUMAN_ACTIVE", "CLOSED"}
  BY DEF Answering, Thinking
<1>2. /\ Kept /\ handling[w] \in DOMAIN outbox /\ handling'[w] = handling[w]
      /\ ForMessage(w) /\ ~ForReply(w) /\ handling[w] # 0
  BY <1>1, HandlerFrame, Numbers, EventKept, EventKinds
<1>3. GoodStage(w) /\ ~ForBooking(w)
  BY <1>2, EventKinds DEF WireInv, RunWire
<1>4. \/ run[w].at \in {"find", "create"} /\ run'[w].at = "record"
      \/ run[w].at \in Thinking /\ run'[w].at # "record"
  <2>1. \/ run[w].at \in {"find", "create"} /\ ForMessage(w) /\ run'[w].at = "record"
        \/ /\ run[w].at \in Thinking
           /\ run'[w].at \in {"clear", "execute", "think", "hand over", "escalate",
                              "remember", "tool", "send", "end"}
    BY <1>1, <1>2, <1>3, NextStage DEF Thinking
  <2>2. QED
    BY <2>1
<1>5. CASE run[w].at \in {"find", "create"} /\ run'[w].at = "record"
  <2>1. \E outcome \in Outcome : FindConversation(w, outcome) \/ CreateConversation(w, outcome)
    BY <1>5
    DEF HandlerStep, Lookup, SendTemplate, RecordInbound, ExecutePending, ClearPending, HandOver,
      Escalate, RememberPending, ExecuteToolCall, SendText, TakeOver, StoreOutbound,
      ProcessConversation, NoAI, RecentMessagesFail, AIFails, EndQuietly
  <2>2. /\ run'[w].conv \in DOMAIN conversation'
        /\ run'[w].status = conversation'[run'[w].conv].status
    BY <1>1, <1>5, <2>1, FoundStep
  <2>3. QED
    BY <1>1, <1>5, <2>2
<1>6. CASE run[w].at \in Thinking /\ run'[w].at # "record"
  <2>1. run'[w].at # "end"
    BY <1>1 DEF Thinking
  <2>2. /\ run'[w].conv = run[w].conv /\ run'[w].status = run[w].status
        /\ run[w].at = "record" => run[w].status \notin {"HUMAN_ACTIVE", "CLOSED"}
    BY <1>1, <1>6, <2>1, ThinkingKeeps DEF SameTalk
  <2>3. Answering(w)
    BY <1>2, <1>6, <2>2 DEF Answering
  <2>4. /\ run[w].conv \in DOMAIN conversation
        /\ run[w].status \notin {"HUMAN_ACTIVE", "CLOSED"}
    BY <2>3 DEF LateInv
  <2>5. QED
    BY <1>6, <2>2, <2>3, <2>4 DEF Thinking
<1>7. QED
  BY <1>4, <1>5, <1>6

\* A run whose handler does not move may answer if it might before.
LEMMA StillAnswers ==
  ASSUME SInv, LateInv, Kept, DOMAIN conversation \subseteq DOMAIN conversation',
         NEW u \in Worker, run'[u] = run[u], handling'[u] = handling[u]
  PROVE  AnswerStep(u)
<1> SUFFICES ASSUME Answering(u)'
             PROVE  /\ Answering(u) /\ run[u].conv \in DOMAIN conversation'
                    /\ run[u].status \notin {"HUMAN_ACTIVE", "CLOSED"}
  BY DEF AnswerStep
<1>1. handling'[u] # 0 /\ ForMessage(u)'
  BY DEF Answering
<1>2. ForMessage(u)
  BY <1>1, Numbers, EventKept
<1>3. Answering(u)
  BY <1>1, <1>2 DEF Answering, Thinking
<1>4. QED
  BY <1>3 DEF LateInv

\* The late reply of w, who will not send another for this message.
LEMMA LateReply ==
  ASSUME IsFiniteSet(Worker), SInv, SInv', WireInv, LateInv,
         NEW w \in Worker, NEW outcome \in Outcome, SendText(w, outcome),
         \A u \in Worker : AnswerStep(u), ~Answering(w)'
  PROVE  LateInv'
<1>1. /\ run[w].at = "send" /\ conversation' = conversation
      /\ late \in [1..MaxConv -> Nat] /\ DOMAIN conversation \subseteq 1..MaxConv
  <2>1. DOMAIN conversation \subseteq 1..MaxConv
    BY BoundsAssumption DEF SInv, ChatTypeOK
  <2>2. QED
    BY <2>1 DEF SendText, SInv, ChatTypeOK
<1>2. CASE UNCHANGED late
  <2>1. ChatStep
    BY <1>1, <1>2 DEF ChatStep, TakenOver
  <2>2. QED
    BY <2>1, LateKept
<1>3. CASE ~UNCHANGED late
  <2>1. ForMessage(w) /\ late' = [late EXCEPT ![run[w].conv] = @ + 1]
    BY <1>3 DEF SendText, Intrudes
  <2>2. Answering(w)
    <3>1. handling[w] # 0
      BY <1>1 DEF SInv, RunInv
    <3>2. QED
      BY <1>1, <2>1, <3>1 DEF Answering
  <2>3. PICK d \in DOMAIN conversation : d = run[w].conv
    BY <2>2 DEF LateInv
  <2>4. d \in 1..MaxConv
    BY <1>1
  <2>5. ASSUME NEW c \in 1..MaxConv, TakenOver(c)'
        PROVE  late'[c] + Cardinality(Pending(c)') <= Cardinality(Worker)
    <3>1. TakenOver(c) /\ late[c] + Cardinality(Pending(c)) <= Cardinality(Worker)
      BY <1>1, <2>5 DEF LateInv, TakenOver
    <3>2. Pending(c)' \subseteq Pending(c) /\ Pending(c) \subseteq Worker /\ late[c] \in Nat
      BY <1>1, <2>5, NobodyMore DEF Pending, TakenOver
    <3>3. /\ IsFiniteSet(Pending(c)) /\ Cardinality(Pending(c)) \in Nat
          /\ Cardinality(Pending(c)') \in Nat /\ Cardinality(Worker) \in Nat
          /\ Cardinality(Pending(c)') <= Cardinality(Pending(c))
      BY <3>2, PendingNumber
    <3>4. CASE c # d
      <4>1. late'[c] = late[c]
        BY <1>1, <2>1, <2>3, <3>4
      <4>2. QED
        BY <3>1, <3>2, <3>3, <4>1
    <3>5. CASE c = d
      <4>1. late'[d] = late[d] + 1
        BY <1>1, <2>1, <2>3, <2>4
      <4>2. w \in Pending(d) /\ w \notin Pending(d)'
        BY <2>2, <2>3 DEF Pending
      <4>3. Pending(d)' \subseteq Pending(d) \ {w}
        BY <3>2, <3>5, <4>2
      <4>4. Cardinality(Pending(d) \ {w}) = Cardinality(Pending(d)) - 1
        BY <3>3, <3>5, <4>2, FS_RemoveElement
      <4>5. Cardinality(Pending(d)') <= Cardinality(Pending(d) \ {w})
        BY <3>2, <3>5, <4>3, PendingNumber
      <4>6. QED
        BY <3>1, <3>2, <3>3, <3>5, <4>1, <4>4, <4>5
    <3>6. QED
      BY <3>4, <3>5
  <2>6. QED
    BY <2>5 DEF LateInv, AnswerStep
<1>4. QED
  BY <1>2, <1>3

LEMMA OthersChat ==
  ASSUME SInv, HouseStep \/ CustomerStep \/ StaffStep \/ OutboxStep \/ UNCHANGED allVars
  PROVE  ChatStep
<1>1. ChatTypeOK
  BY DEF SInv
<1>2. ASSUME UNCHANGED <<conversation, late>> PROVE ChatStep
  BY <1>2 DEF ChatStep, TakenOver
<1>3. CASE HouseStep \/ CustomerStep \/ OutboxStep \/ UNCHANGED allVars
  BY <1>2, <1>3
  DEF HouseStep, Book, MarkReservation, CheckIn, UpdateMyReservation, TimePasses,
      MemberChanges,
    CustomerStep, CustomerWrites, AcceptWhatsAppWebhook, OutboxStep, allVars, chat
<1>4. CASE StaffStep
  <2>1. ASSUME NEW c \in DOMAIN conversation, RequestReply(c) PROVE ChatStep
    BY <1>1, <2>1, SetsChat DEF RequestReply
  <2>2. ASSUME NEW c \in DOMAIN conversation, NEW s, SetConversationStatus(c, s) PROVE ChatStep
    BY <1>1, <2>2, SetsChat DEF SetConversationStatus
  <2>3. ASSUME NEW d \in Desk, NEW outcome \in Outcome, DeskTakesOver(d, outcome) PROVE ChatStep
    <3>1. SetStatus(desk[d].conv, "HUMAN_ACTIVE") \/ UNCHANGED <<conversation, late>>
      BY <2>3 DEF DeskTakesOver, chat
    <3>2. QED
      BY <1>1, <1>2, <3>1, SetsChat
  <2>4. ASSUME NEW d \in Desk, NEW outcome \in Outcome,
               DeskSends(d, outcome) \/ DeskStores(d, outcome)
        PROVE  ChatStep
    BY <1>2, <2>4 DEF DeskSends, DeskStores, chat
  <2>5. ASSUME NEW d \in Desk, NEW c, DeskOpens(d, c) PROVE ChatStep
    BY <1>2, <2>5 DEF DeskOpens, chat
  <2>6. QED
    BY <1>4, <2>1, <2>2, <2>3, <2>4, <2>5 DEF StaffStep
<1>5. QED
  BY <1>3, <1>4

LEMMA LateStep ==
  ASSUME IsFiniteSet(Worker)
  PROVE  SInv /\ SInv' /\ WireInv /\ HandledInv /\ LateInv /\ [SystemNext]_allVars => LateInv'
<1> SUFFICES ASSUME SInv, SInv', WireInv, HandledInv, LateInv, [SystemNext]_allVars
             PROVE  LateInv'
  OBVIOUS
<1>1. CASE HouseStep \/ CustomerStep \/ StaffStep \/ OutboxStep \/ UNCHANGED allVars
  <2>1. Kept /\ UNCHANGED <<run, handling>> /\ ChatStep
    BY <1>1, OthersLeaveAll, OthersChat DEF OthersLeave
  <2>2. \A u \in Worker : AnswerStep(u)
    BY <2>1, StillAnswers DEF ChatStep
  <2>3. QED
    BY <2>1, <2>2, LateKept
<1>2. ASSUME NEW w \in Worker, (\E i \in batch[w] : ProcessEvent(w, i)) \/ WorkerDies(w)
      PROVE  LateInv'
  <2>1. Kept
    <3>1. ASSUME NEW i \in batch[w], ProcessEvent(w, i) PROVE Kept
      <4>1. outbox' = outbox /\ runs' = [runs EXCEPT ![i] = @ + 1]
        BY <3>1 DEF ProcessEvent, Start
      <4>2. \A j \in DOMAIN outbox : runs[j] \in Nat
        BY Numbers
      <4>3. DOMAIN runs = DOMAIN outbox
        BY Numbers
      <4>4. QED
        BY <4>1, <4>2, <4>3 DEF Kept
    <3>2. ASSUME WorkerDies(w) PROVE Kept
      BY <3>2, SameKept DEF WorkerDies, Crash, SameKeys, SInv
    <3>3. QED
      BY <1>2, <3>1, <3>2
  <2>2. \A u \in Worker \ {w} : run'[u] = run[u] /\ handling'[u] = handling[u]
    BY <1>2 DEF ProcessEvent, Start, WorkerDies, Crash, SInv, RunInv, TypeOK
  <2>3. run'[w].at \in {"lookup", "rest"} /\ UNCHANGED <<conversation, late>>
    BY <1>2, RestType DEF ProcessEvent, WorkerDies, SInv, RunInv, Run, chat
  <2>4. AnswerStep(w)
    BY <2>3 DEF AnswerStep, Answering, Thinking
  <2>5. ChatStep /\ \A u \in Worker : AnswerStep(u)
    BY <2>1, <2>2, <2>3, <2>4, StillAnswers DEF ChatStep, TakenOver
  <2>6. QED
    BY <2>5, LateKept
<1>3. ASSUME NEW w \in Worker, HandlerStep(w) PROVE LateInv'
  <2>1. /\ Kept /\ \A u \in Worker \ {w} : run'[u] = run[u] /\ handling'[u] = handling[u]
    BY <1>3, HandlerFrame
  <2>2. DOMAIN conversation \subseteq DOMAIN conversation'
    BY <1>3, HandlerChat DEF ChatStep, SendText
  <2>3. AnswerStep(w) /\ (run[w].at = "send" => ~Answering(w)')
    BY <1>3, <2>2, HandlerAnswers
  <2>4. \A u \in Worker : AnswerStep(u)
    BY <2>1, <2>2, <2>3, StillAnswers
  <2>5. CASE ChatStep
    BY <2>4, <2>5, LateKept
  <2>6. ASSUME NEW outcome \in Outcome, SendText(w, outcome) PROVE LateInv'
    <3>1. ~Answering(w)'
      BY <2>3, <2>6 DEF SendText
    <3>2. QED
      BY <2>4, <2>6, <3>1, LateReply
  <2>7. QED
    BY <1>3, <2>5, <2>6, HandlerChat
<1>4. QED
  BY <1>1, <1>2, <1>3 DEF SystemNext

LEMMA LateInvariant == IsFiniteSet(Worker) => (SystemSpec => [](HandledInv /\ LateInv))
<1> SUFFICES ASSUME IsFiniteSet(Worker) PROVE SystemSpec => [](HandledInv /\ LateInv)
  OBVIOUS
<1>1. SystemInit => HandledInv
  BY DEF SystemInit, Init, HandledInv, RunHandled, QuietInv
<1>2. SystemInit => LateInv
  BY DEF SystemInit, Init, LateInv, Answering, TakenOver
<1>3. HandledInv /\ LateInv /\ SInv /\ SInv' /\ WireInv /\ [SystemNext]_allVars
        => HandledInv' /\ LateInv'
  BY HandledStep, LateStep
<1>4. QED
  BY <1>1, <1>2, <1>3, WireInvariant, SystemInvariant, PTL DEF SystemSpec

\* While a takeover stands, no more automatic replies have gone out since it
\* began than there are workers, each of which read the status before:
\* however many messages are written, handled and retried meanwhile.  A
\* process has one worker, and processes are finitely many.
THEOREM FewIntrusions ==
  ASSUME IsFiniteSet(Worker)
  PROVE  SystemSpec => []IntrusionBounded
<1>1. SInv /\ LateInv => IntrusionBounded
  <2> SUFFICES ASSUME SInv, LateInv, NEW c \in DOMAIN conversation,
                      conversation[c].status = "HUMAN_ACTIVE"
               PROVE  late[c] <= Cardinality(Worker)
    BY DEF IntrusionBounded
  <2>1. c \in 1..MaxConv /\ TakenOver(c)
    BY BoundsAssumption DEF SInv, ChatTypeOK, TakenOver
  <2>2. Pending(c) \subseteq Worker /\ late[c] \in Nat
    BY <2>1 DEF Pending, SInv, ChatTypeOK
  <2>3. Cardinality(Pending(c)) \in Nat /\ Cardinality(Worker) \in Nat
    BY <2>2, PendingNumber
  <2>4. QED
    BY <2>1, <2>2, <2>3 DEF LateInv
<1>2. QED
  BY <1>1, LateInvariant, SystemInvariant, PTL

\* A handler that changes the status of a conversation is one that answers
\* in it, and it goes on.
LEMMA WhoChangesStatus ==
  ASSUME SInv, NEW w \in Worker, HandlerStep(w),
         NEW c \in DOMAIN conversation, TakenOver(c), conversation'[c].status # "HUMAN_ACTIVE"
  PROVE  /\ run[w].at \in {"execute", "hand over", "escalate", "tool"}
         /\ run[w].conv = c
         /\ run'[w] # run[w]
<1>1. /\ ChatTypeOK /\ run \in [Worker -> Run] /\ run[w] \in Run /\ handling[w] \in Nat
      /\ conversation \in Seq(Conversation) /\ DOMAIN conversation = 1..Len(conversation)
  BY DEF SInv, RunInv, ChatTypeOK, TypeOK
<1>2. conversation' # conversation /\ conversation[c].status = "HUMAN_ACTIVE"
  BY DEF TakenOver
<1>3. ASSUME NEW d, NEW new, SetConversation(d, new)
      PROVE  d = c /\ new.status # "HUMAN_ACTIVE"
  <2>1. conversation' = [conversation EXCEPT ![d] = new]
    BY <1>3 DEF SetConversation
  <2>2. QED
    BY <1>1, <1>2, <2>1
<1>4. ASSUME NEW d, NEW s, SetStatus(d, s) PROVE d = c /\ s # "HUMAN_ACTIVE"
  BY <1>3, <1>4 DEF SetStatus
<1>5. ASSUME NEW d, NEW action, SetPending(d, action) PROVE FALSE
  <2>1. d = c /\ conversation[d].status # "HUMAN_ACTIVE"
    BY <1>3, <1>5 DEF SetPending
  <2>2. QED
    BY <1>2, <2>1
<1>6. ASSUME NEW name, NEW b, Perform(w, name, b) PROVE run[w].conv = c
  BY <1>2, <1>4, <1>6 DEF Perform, chat
<1>7. ASSUME NEW outcome \in Outcome, ExecutePending(w, outcome)
      PROVE  run[w].at = "execute" /\ run[w].conv = c /\ run'[w] # run[w]
  <2>1. run[w].at = "execute" /\ run[w].conv = c
    BY <1>2, <1>6, <1>7 DEF ExecutePending, chat
  <2>2. \/ \E say : run'[w] = [To(w, "clear") EXCEPT !.say = say]
        \/ run'[w] = To(w, "send")
    BY <1>1, <1>7 DEF ExecutePending
  <2>3. run'[w].at \in {"clear", "send"}
    BY <1>1, <2>2 DEF To, Run
  <2>4. QED
    BY <2>1, <2>3
<1>8. ASSUME NEW outcome \in Outcome, HandOver(w, outcome)
      PROVE  run[w].at = "hand over" /\ run[w].conv = c /\ run'[w] # run[w]
  <2>1. run[w].at = "hand over" /\ run[w].conv = c
    BY <1>2, <1>4, <1>8 DEF HandOver, chat
  <2>2. run'[w].at = "send"
    BY <1>1, <1>8 DEF HandOver, Continue, To, Run
  <2>3. QED
    BY <2>1, <2>2
<1>9. ASSUME NEW outcome \in Outcome, Escalate(w, outcome)
      PROVE  run[w].at = "escalate" /\ run[w].conv = c /\ run'[w] # run[w]
  <2> DEFINE a == [run[w].answer EXCEPT !.handover = "no"]
             q == [run[w] EXCEPT !.answer = a]
  <2>1. run[w].at = "escalate" /\ run[w].conv = c
    BY <1>2, <1>4, <1>9 DEF Escalate, chat
  <2>2. a.handover = "no" /\ q.answer = a
    BY <1>1 DEF Run, Answer
  <2>3. Stage(q) # "escalate"
    BY <2>2 DEF Stage
  <2>4. run'[w] = With(run[w], a) \/ run'[w] = Rest
    BY <1>1, <1>9 DEF Escalate, OrFail, Continue, Return
  <2>5. With(run[w], a).at = Stage(q)
    BY <1>1 DEF With, Run
  <2> HIDE DEF a, q
  <2>6. run'[w].at # "escalate"
    BY <2>3, <2>4, <2>5 DEF Rest
  <2>7. QED
    BY <2>1, <2>6
<1>10. ASSUME NEW outcome \in Outcome, ExecuteToolCall(w, outcome)
       PROVE  run[w].at = "tool" /\ run[w].conv = c /\ run'[w] # run[w]
  <2> DEFINE a == [run[w].answer EXCEPT !.calls = Tail(@)]
             q == [run[w] EXCEPT !.answer = a]
  <2>1. run[w].at = "tool" /\ run[w].conv = c
    BY <1>2, <1>5, <1>6, <1>10 DEF ExecuteToolCall, chat
  <2>2. /\ run[w].answer.calls \in Seq(Call) /\ run[w].answer.calls # <<>>
    BY <1>1, <2>1 DEF SInv, RunInv, GoodRun, Run, Answer
  <2>3. Len(Tail(run[w].answer.calls)) # Len(run[w].answer.calls)
    BY <2>2
  <2>4. a.calls = Tail(run[w].answer.calls) /\ q.answer = a
    BY <1>1 DEF Run, Answer
  <2>5. run'[w] = With(run[w], a)
    BY <1>1, <1>10 DEF ExecuteToolCall
  <2>6. With(run[w], a).answer = a
    BY <1>1, <2>4 DEF With, Run
  <2> HIDE DEF a, q
  <2>7. QED
    BY <2>1, <2>3, <2>4, <2>5, <2>6
<1>11. ASSUME NEW outcome \in Outcome, ClearPending(w, outcome) \/ RememberPending(w, outcome)
       PROVE  FALSE
  BY <1>2, <1>5, <1>11 DEF ClearPending, RememberPending, chat
<1>12. ASSUME NEW outcome \in Outcome, TakeOver(w, outcome) PROVE FALSE
  BY <1>2, <1>4, <1>12 DEF TakeOver, chat
<1>13. ASSUME NEW outcome \in Outcome, CreateConversation(w, outcome) PROVE FALSE
  <2> DEFINE new == [booking |-> run[w].booking, status |-> "AI_ACTIVE", pending |-> NoAction]
  <2>1. conversation' = Append(conversation, new)
    BY <1>2, <1>13 DEF CreateConversation, chat
  <2> HIDE DEF new
  <2>2. conversation'[c] = conversation[c]
    BY <1>1, <2>1
  <2>3. QED
    BY <1>2, <2>2
<1>14. QED
  BY <1>2, <1>7, <1>8, <1>9, <1>10, <1>11, <1>12, <1>13
  DEF HandlerStep, Lookup, SendTemplate, FindConversation, RecordInbound, SendText, StoreOutbound,
    ProcessConversation, NoAI, RecentMessagesFail, AIFails, EndQuietly, chat

\* A takeover is ended by the staff, or by a handler that found the
\* conversation before it: never by one that finds it taken over, however
\* often its message is retried.
THEOREM Takeovers ==
  ASSUME IsFiniteSet(Worker)
  PROVE  SystemSpec => TakeoverStands
<1> DEFINE Stands(c) ==
      TakenOver(c) /\ conversation'[c].status # "HUMAN_ACTIVE"
      => \/ UNCHANGED run
         \/ \E w \in Worker : /\ run'[w] # run[w]
                              /\ run[w].conv = c
                              /\ run[w].status \notin {"HUMAN_ACTIVE", "CLOSED"}
<1>1. ASSUME SInv, HandledInv, LateInv, [SystemNext]_allVars, NEW c \in DOMAIN conversation
      PROVE  Stands(c)
  <2> SUFFICES ASSUME TakenOver(c), conversation'[c].status # "HUMAN_ACTIVE"
               PROVE  Stands(c)
    OBVIOUS
  <2>1. CASE HouseStep \/ CustomerStep \/ StaffStep \/ OutboxStep \/ UNCHANGED allVars
    BY <1>1, <2>1, OthersLeaveAll DEF OthersLeave
  <2>2. ASSUME NEW w \in Worker, (\E i \in batch[w] : ProcessEvent(w, i)) \/ WorkerDies(w)
        PROVE  FALSE
    BY <2>2 DEF ProcessEvent, WorkerDies, chat, TakenOver
  <2>3. ASSUME NEW w \in Worker, HandlerStep(w) PROVE Stands(c)
    <3>1. /\ run[w].at \in {"execute", "hand over", "escalate", "tool"}
          /\ run[w].conv = c /\ run'[w] # run[w]
      BY <1>1, <2>3, WhoChangesStatus
    <3>2. handling[w] # 0
      BY <1>1, <3>1 DEF SInv, RunInv
    <3>3. ForMessage(w)
      BY <1>1, <3>1, <3>2 DEF HandledInv, RunHandled, Thinking
    <3>4. Answering(w)
      BY <3>1, <3>2, <3>3 DEF Answering, Thinking
    <3>5. run[w].status \notin {"HUMAN_ACTIVE", "CLOSED"}
      BY <1>1, <3>4 DEF LateInv
    <3>6. QED
      BY <3>1, <3>5
  <2>4. QED
    BY <1>1, <2>1, <2>2, <2>3 DEF SystemNext
<1>2. SInv /\ HandledInv /\ LateInv /\ [SystemNext]_allVars
        => [\A c \in DOMAIN conversation :
              conversation[c].status = "HUMAN_ACTIVE" /\ conversation'[c].status # "HUMAN_ACTIVE"
              => \/ UNCHANGED run
                 \/ \E w \in Worker :
                      /\ run'[w] # run[w]
                      /\ run[w].conv = c
                      /\ run[w].status \notin {"HUMAN_ACTIVE", "CLOSED"}]_allVars
  BY <1>1 DEF TakenOver
<1>3. QED
  BY <1>2, LateInvariant, SystemInvariant, PTL DEF SystemSpec, TakeoverStands

\* What the outbox promises of a row (module Delivery) holds in the system:
\* no handler, trigger, webhook or staff action gets around it.
THEOREM SystemDelivers == SystemSpec => ImplementsDelivery
  BY Refinement, Implementation, PTL DEF ImplementsOutbox
=============================================================================
