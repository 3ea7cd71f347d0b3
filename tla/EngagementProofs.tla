-------------------------- MODULE EngagementProofs --------------------------
(***************************************************************************)
(* Proofs about the handlers, for any number of workers, bookings,         *)
(* messages, conversations and whatever the AI answers.                    *)
(***************************************************************************)
EXTENDS Engagement, OutboxProofs, FiniteSetTheorems

LEMMA KeyFacts ==
  /\ Booking \subseteq Key /\ Message \subseteq Key /\ 1..MaxConv \subseteq Key
  /\ \A k \in Message \cup (1..MaxConv) : k \notin Booking
  BY KeysAssumption, KeyAssumption DEF Key

-----------------------------------------------------------------------------
(* What a step of the system does to the outbox.                           *)

\* A statement on a reservation either puts its event into the table or
\* leaves the outbox alone.
LEMMA SetReservationStep ==
  ASSUME NEW b \in Booking, NEW s, SetReservation(b, s)
  PROVE  [Next]_vars
  BY KeyFacts DEF SetReservation, Next

\* So does a tool call, whichever tool it is and whatever it is called with.
LEMMA PerformStep ==
  ASSUME NEW w, NEW name, NEW b, Perform(w, name, b)
  PROVE  [Next]_vars
<1>1. CASE CancelBooking(b)
  BY <1>1, SetReservationStep DEF CancelBooking
<1>2. CASE RescheduleBooking(b)
  BY <1>2, SetReservationStep DEF RescheduleBooking
<1>3. CASE UNCHANGED vars
  BY <1>3
<1>4. QED
  BY <1>1, <1>2, <1>3 DEF Perform

\* A handler that goes on touches nothing of the outbox; one that returns
\* finishes its row.
LEMMA ReturnStep ==
  ASSUME NEW w \in Worker, NEW r, NEW verdict \in {"done", "failed"},
         Continue(w, r) \/ Return(w, verdict)
  PROVE  [Next]_vars
  BY DEF Continue, Return, Next

LEMMA OrFailStep ==
  ASSUME NEW w \in Worker, NEW outcome, NEW r, OrFail(w, outcome, r)
  PROVE  [Next]_vars
  BY ReturnStep DEF OrFail

LEMMA HandlerRefines ==
  ASSUME NEW w \in Worker, HandlerStep(w)
  PROVE  [Next]_vars
<1>1. ASSUME NEW outcome \in Outcome, ExecutePending(w, outcome) PROVE [Next]_vars
  BY <1>1, PerformStep DEF ExecutePending
<1>2. ASSUME NEW outcome \in Outcome, ExecuteToolCall(w, outcome) PROVE [Next]_vars
  BY <1>2, PerformStep DEF ExecuteToolCall
<1>3. ASSUME NEW outcome \in Outcome,
             \/ Lookup(w, outcome) \/ RecordInbound(w, outcome) \/ ClearPending(w, outcome)
             \/ Escalate(w, outcome) \/ RememberPending(w, outcome)
             \/ SendText(w, outcome) \/ TakeOver(w, outcome)
             \/ CreateConversation(w, outcome)
      PROVE [Next]_vars
  BY <1>3, OrFailStep DEF Lookup, RecordInbound, ClearPending, Escalate, RememberPending,
    SendText, TakeOver, CreateConversation
<1>4. ASSUME NEW outcome \in Outcome, FindConversation(w, outcome) PROVE [Next]_vars
  BY <1>4, OrFailStep DEF FindConversation
<1>5. ASSUME NEW outcome \in Outcome, SendTemplate(w, outcome) \/ HandOver(w, outcome)
      PROVE [Next]_vars
  BY <1>5 DEF SendTemplate, HandOver, Continue
<1>6. ASSUME NEW outcome \in Outcome, StoreOutbound(w, outcome) PROVE [Next]_vars
  BY <1>6, ReturnStep DEF StoreOutbound
<1>7. ASSUME NEW a \in AIAnswer, ProcessConversation(w, a) PROVE [Next]_vars
  BY <1>7 DEF ProcessConversation, Continue
<1>8. CASE NoAI(w) \/ AIFails(w)
  BY <1>8 DEF NoAI, AIFails, Continue
<1>9. CASE RecentMessagesFail(w) \/ EndQuietly(w)
  BY <1>9, ReturnStep DEF RecentMessagesFail, EndQuietly
<1>10. QED
  BY <1>1, <1>2, <1>3, <1>4, <1>5, <1>6, <1>7, <1>8, <1>9 DEF HandlerStep

LEMMA SystemStepRefines == ChatTypeOK /\ [SystemNext]_allVars => [Next]_vars
<1> SUFFICES ASSUME ChatTypeOK, [SystemNext]_allVars PROVE [Next]_vars
  OBVIOUS
<1>1. CASE HouseStep
  BY <1>1, SetReservationStep
  DEF HouseStep, Book, MarkReservation, CheckIn, UpdateMyReservation, TimePasses,
      MemberChanges
<1>2. CASE CustomerStep
  BY <1>2, KeyFacts DEF CustomerStep, CustomerWrites, AcceptWhatsAppWebhook, Next
<1>3. CASE StaffStep
  <2>1. ASSUME NEW c \in DOMAIN conversation, RequestReply(c) PROVE [Next]_vars
    <3>1. c \in 1..MaxConv
      BY BoundsAssumption DEF ChatTypeOK
    <3>2. QED
      BY <2>1, <3>1, KeyFacts DEF RequestReply, Next
  <2>2. QED
    BY <1>3, <2>1
    DEF StaffStep, SetConversationStatus, DeskOpens, DeskSends, DeskTakesOver, DeskStores
<1>4. CASE OutboxStep
  BY <1>4 DEF OutboxStep, Next
<1>5. ASSUME NEW w \in Worker, NEW i \in batch[w], ProcessEvent(w, i) PROVE [Next]_vars
  BY <1>5 DEF ProcessEvent, Next
<1>6. ASSUME NEW w \in Worker, WorkerDies(w) PROVE [Next]_vars
  BY <1>6 DEF WorkerDies, Next
<1>7. CASE UNCHANGED allVars
  BY <1>7 DEF allVars
<1>8. QED
  BY <1>1, <1>2, <1>3, <1>4, <1>5, <1>6, <1>7, HandlerRefines DEF SystemNext

-----------------------------------------------------------------------------
(* Types.                                                                  *)

Early == {"rest", "lookup", "template", "find", "create", "end"}

\* A handler that works on a conversation has the number of one, and one
\* that makes tool calls has a call to make.
GoodRun(r) ==
  /\ r \in Run
  /\ r.at \notin Early => r.conv \in 1..MaxConv
  /\ r.at = "tool" => r.answer.calls # <<>>

\* Where a handler is in the middle of something, it has a row.
RunInv ==
  /\ run \in [Worker -> Run]
  /\ \A w \in Worker : GoodRun(run[w])
  /\ \A w \in Worker : run[w].at = "rest" <=> handling[w] = 0

DeskInv ==
  /\ desk \in [Desk -> [at : {"rest", "send", "take over", "store"}, conv : 0..MaxConv]]
  /\ \A d \in Desk : desk[d].at # "rest" => desk[d].conv \in 1..MaxConv

CustomerTypeOK ==
  /\ wrote \in [Message -> {"nothing", "yes", "no", "text"}]
  /\ agreed \in [Message -> SUBSET Action]

SInv ==
  TypeOK /\ HouseTypeOK /\ ChatTypeOK /\ RecordTypeOK /\ RunInv /\ DeskInv /\ CustomerTypeOK

LEMMA RunAt ==
  ASSUME run \in [Worker -> Run], NEW w \in Worker, NEW step \in Step
  PROVE  /\ To(w, step) \in Run
         /\ To(w, step).at = step
         /\ To(w, step).conv = run[w].conv
         /\ To(w, step).status = run[w].status
         /\ To(w, step).pending = run[w].pending
         /\ To(w, step).answer = run[w].answer
  BY DEF To, Run

LEMMA StageType ==
  ASSUME NEW r
  PROVE  /\ Stage(r) \in {"escalate", "remember", "tool", "send", "end"}
         /\ Stage(r) = "tool" => r.answer.calls # <<>>
  BY DEF Stage

LEMMA WithType ==
  ASSUME NEW r \in Run, NEW a \in Answer
  PROVE  /\ With(r, a) \in Run
         /\ With(r, a).at \in {"escalate", "remember", "tool", "send", "end"}
         /\ With(r, a).conv = r.conv /\ With(r, a).status = r.status
         /\ With(r, a).at = "tool" => With(r, a).answer.calls # <<>>
<1> DEFINE q == [r EXCEPT !.answer = a]
<1>1. q \in Run /\ q.conv = r.conv /\ q.status = r.status /\ q.answer = a
  BY DEF Run
<1>2. /\ Stage(q) \in {"escalate", "remember", "tool", "send", "end"}
      /\ Stage(q) = "tool" => q.answer.calls # <<>>
  BY StageType
<1>3. With(r, a) = [q EXCEPT !.at = Stage(q)]
  BY DEF With
<1> HIDE DEF q
<1>4. QED
  BY <1>1, <1>2, <1>3 DEF Run, Step

LEMMA FoundType ==
  ASSUME run \in [Worker -> Run], NEW w \in Worker, NEW c \in 1..MaxConv,
         conversation'[c] \in Conversation
  PROVE  /\ Found(w, c) \in Run
         /\ Found(w, c).conv = c
         /\ Found(w, c).at \in {"record", "store"}
<1> DEFINE t == To(w, IF ForMessage(w) THEN "record" ELSE "store")
<1>1. t \in Run /\ t.at \in {"record", "store"}
  BY RunAt DEF Step
<1>2. Found(w, c) = [[[t EXCEPT !.conv = c] EXCEPT !.status = conversation'[c].status]
                        EXCEPT !.pending = conversation'[c].pending]
  BY DEF Found
<1> HIDE DEF t
<1>3. conversation'[c].status \in ConversationStatus
      /\ conversation'[c].pending \in Action \cup {NoAction}
  BY DEF Conversation
<1> DEFINE u == [t EXCEPT !.conv = c]
<1>4. u \in Run /\ u.at = t.at /\ u.conv = c
  BY <1>1 DEF Run
<1> HIDE DEF u
<1> DEFINE v == [u EXCEPT !.status = conversation'[c].status]
<1>5. v \in Run /\ v.at = u.at /\ v.conv = u.conv
  BY <1>3, <1>4 DEF Run
<1> HIDE DEF v
<1>6. Found(w, c) = [v EXCEPT !.pending = conversation'[c].pending]
  BY <1>2 DEF u, v
<1>7. Found(w, c) \in Run /\ Found(w, c).at = v.at /\ Found(w, c).conv = v.conv
  BY <1>3, <1>5, <1>6 DEF Run
<1>8. QED
  BY <1>1, <1>4, <1>5, <1>7

LEMMA RestType == Rest \in Run /\ Rest.at = "rest" /\ GoodRun(Rest)
<1>1. NoAnswer \in Answer
  BY DEF NoAnswer, Answer
<1>2. Rest \in Run
  BY <1>1, BoundsAssumption DEF Rest, Run, Step, BookingId, ConversationStatus
<1>3. QED
  BY <1>2 DEF Rest, GoodRun, Early

\* The handler of w goes on at a good run, or returns: the runs stay good.
LEMMA RunGoesOn ==
  ASSUME RunInv, NEW w \in Worker, NEW r, GoodRun(r), r.at # "rest", run[w].at # "rest",
         handling' = handling, run' = [run EXCEPT ![w] = r]
  PROVE  RunInv'
  BY DEF RunInv, GoodRun

LEMMA RunReturns ==
  ASSUME TypeOK, RunInv, NEW w \in Worker, NEW verdict, Return(w, verdict)
  PROVE  RunInv'
  BY RestType DEF Return, RunInv, Finish, TypeOK, GoodRun

LEMMA OrFailRun ==
  ASSUME TypeOK, RunInv, NEW w \in Worker, NEW outcome, NEW r, OrFail(w, outcome, r),
         run[w].at # "rest", outcome = "ok" => GoodRun(r) /\ r.at # "rest"
  PROVE  RunInv'
<1>1. CASE outcome = "ok"
  BY <1>1, RunGoesOn DEF OrFail, Continue, vars
<1>2. CASE outcome # "ok"
  BY <1>2, RunReturns DEF OrFail
<1>3. QED
  BY <1>1, <1>2

LEMMA GoodTo ==
  ASSUME RunInv, NEW w \in Worker, NEW step \in Step \ {"rest", "tool"},
         run[w].at \notin Early \/ step \in Early
  PROVE  GoodRun(To(w, step)) /\ To(w, step).at # "rest"
  BY RunAt DEF RunInv, GoodRun

LEMMA GoodWith ==
  ASSUME RunInv, NEW w \in Worker, run[w].at \notin Early, NEW a \in Answer
  PROVE  GoodRun(With(run[w], a)) /\ With(run[w], a).at # "rest"
  BY WithType DEF RunInv, GoodRun

LEMMA DecodedType == ASSUME NEW a \in Answer PROVE Decoded(a) \in Answer
<1> DEFINE q == [a EXCEPT !.pending = NoAction]
<1>1. q \in Answer
  BY DEF Answer
<1>2. [a EXCEPT !.pending = NoAction, !.calls = <<>>] = [q EXCEPT !.calls = <<>>]
  OBVIOUS
<1> HIDE DEF q
<1>3. <<>> \in Seq(Call)
  OBVIOUS
<1>4. [q EXCEPT !.calls = <<>>] \in Answer
  BY <1>1, <1>3 DEF Answer
<1>5. QED
  BY <1>2, <1>4 DEF Decoded

LEMMA TouchType ==
  ASSUME ChatTypeOK, NEW c \in 1..MaxConv, Touch(c)
  PROVE  newer' \subseteq (1..MaxConv) \X (1..MaxConv)
<1>1. DOMAIN conversation \subseteq 1..MaxConv
  BY BoundsAssumption DEF ChatTypeOK
<1>2. QED
  BY <1>1 DEF Touch, ChatTypeOK

LEMMA SetConversationType ==
  ASSUME ChatTypeOK, NEW c \in 1..MaxConv, NEW new, SetConversation(c, new),
         c \in DOMAIN conversation => new \in Conversation
  PROVE  ChatTypeOK'
<1>1. conversation \in Seq(Conversation) /\ Len(conversation) \in Nat
      /\ DOMAIN conversation = 1..Len(conversation)
  BY DEF ChatTypeOK
<1>2. conversation' = [conversation EXCEPT ![c] = new]
  BY DEF SetConversation
<1>3. conversation' \in Seq(Conversation) /\ Len(conversation') = Len(conversation)
  <2>1. CASE c \in DOMAIN conversation
    <3>1. new \in Conversation
      BY <2>1
    <3>2. QED
      BY <1>1, <1>2, <2>1, <3>1
  <2>2. CASE c \notin DOMAIN conversation
    <3>1. conversation' = conversation
      BY <1>1, <1>2, <2>2
    <3>2. QED
      BY <1>1, <3>1
  <2>3. QED
    BY <2>1, <2>2
<1>4. late' \in [1..MaxConv -> Nat]
  BY DEF SetConversation, ChatTypeOK
<1>5. QED
  BY <1>3, <1>4, TouchType DEF SetConversation, ChatTypeOK

LEMMA SetStatusType ==
  ASSUME ChatTypeOK, NEW c \in 1..MaxConv, NEW s \in ConversationStatus, SetStatus(c, s)
  PROVE  ChatTypeOK'
<1> DEFINE new == [booking |-> conversation[c].booking, status |-> s,
                   pending |-> conversation[c].pending]
<1>1. c \in DOMAIN conversation => conversation[c] \in Conversation
  BY DEF ChatTypeOK
<1>2. c \in DOMAIN conversation => new \in Conversation
  BY <1>1 DEF Conversation
<1>3. QED
  BY <1>2, SetConversationType DEF SetStatus

LEMMA SetPendingType ==
  ASSUME ChatTypeOK, NEW c \in 1..MaxConv, NEW action, SetPending(c, action),
         c \in DOMAIN conversation => action \in Action \cup {NoAction}
  PROVE  ChatTypeOK'
<1> DEFINE new == [booking |-> conversation[c].booking, status |-> conversation[c].status,
                   pending |-> action]
<1>1. c \in DOMAIN conversation => conversation[c] \in Conversation
  BY DEF ChatTypeOK
<1>2. c \in DOMAIN conversation => new \in Conversation
  BY <1>1 DEF Conversation
<1>3. QED
  BY <1>2, SetConversationType DEF SetPending

LEMMA SetReservationType ==
  ASSUME HouseTypeOK, NEW b \in Booking, NEW s \in ReservationStatus, SetReservation(b, s)
  PROVE  /\ reservation' \in [Booking -> ReservationStatus \cup {"none"}]
         /\ excused' \subseteq Booking
<1>1. excused' \in {excused, excused \ {b}, excused \cup {b}}
  BY DEF SetReservation
<1>2. QED
  BY <1>1 DEF SetReservation, HouseTypeOK

LEMMA PerformType ==
  ASSUME HouseTypeOK, ChatTypeOK, NEW w \in Worker, run[w].conv \in 1..MaxConv,
         NEW name, NEW b, Perform(w, name, b)
  PROVE  HouseTypeOK' /\ ChatTypeOK'
<1>1. CASE CancelBooking(b) /\ UNCHANGED chat
  BY <1>1, SetReservationType DEF CancelBooking, HouseTypeOK, ChatTypeOK, chat, ReservationStatus
<1>2. CASE RescheduleBooking(b) /\ UNCHANGED chat
  BY <1>2, SetReservationType DEF RescheduleBooking, HouseTypeOK, ChatTypeOK, chat, ReservationStatus
<1>3. CASE SetStatus(run[w].conv, "WAITING_FOR_HUMAN") /\ UNCHANGED house
  BY <1>3, SetStatusType DEF house, HouseTypeOK, ConversationStatus
<1>4. QED
  BY <1>1, <1>2, <1>3 DEF Perform

LEMMA Frame ==
  ASSUME SInv
  PROVE  /\ UNCHANGED house => HouseTypeOK'
         /\ UNCHANGED chat => ChatTypeOK'
         /\ UNCHANGED record => RecordTypeOK'
         /\ UNCHANGED desk => DeskInv'
         /\ UNCHANGED customer => CustomerTypeOK'
         /\ UNCHANGED <<run, handling>> => RunInv'
  BY DEF SInv, house, HouseTypeOK, chat, ChatTypeOK, record, RecordTypeOK, DeskInv,
    customer, CustomerTypeOK, RunInv, GoodRun

\* The steps of a handler up to the conversation it works on.
LEMMA FirstStepsType ==
  ASSUME SInv, NEW w \in Worker, NEW outcome \in Outcome,
         \/ Lookup(w, outcome) \/ SendTemplate(w, outcome)
         \/ FindConversation(w, outcome) \/ CreateConversation(w, outcome)
  PROVE  SInv'
<1>1. TypeOK /\ ChatTypeOK /\ RunInv
  BY DEF SInv
<1>2. TypeOK'
  <2>1. HandlerStep(w)
    BY DEF HandlerStep
  <2>2. QED
    BY <1>1, <2>1, HandlerRefines, TypeStep
<1>3. run[w] \in Run
  BY <1>1 DEF RunInv
<1>4. CASE Lookup(w, outcome)
  <2>1. run[w].at = "lookup" /\ run[w].at # "rest"
    BY <1>4 DEF Lookup
  <2>2. handling[w] \in DOMAIN outbox
    BY <1>1, <2>1 DEF RunInv, TypeOK
  <2>3. EventKey(w) \in Key
    <3>1. outbox[handling[w]] \in Row
      BY <1>1, <2>2 DEF TypeOK
    <3>2. QED
      BY <3>1 DEF EventKey, Row
  <2>4. CASE ForBooking(w)
    <3> DEFINE r == [To(w, "template") EXCEPT !.booking = EventKey(w)]
    <3>1. GoodRun(To(w, "template")) /\ To(w, "template").at = "template"
      BY <1>1, <2>1, GoodTo, RunAt DEF Step, Early, RunInv
    <3>2. GoodRun(r) /\ r.at # "rest"
      BY <2>4, <3>1 DEF GoodRun, Run, ForBooking, BookingId, Early
    <3> HIDE DEF r
    <3>3. OrFail(w, outcome, r)
      <4>1. ~ForMessage(w)
        BY <2>4, KeyFacts DEF ForBooking, ForMessage
      <4>2. QED
        BY <1>4, <2>4, <4>1 DEF Lookup, r
    <3>4. RunInv'
      BY <1>1, <2>1, <3>2, <3>3, OrFailRun
    <3>5. QED
      BY <1>2, <1>4, <3>4, Frame DEF Lookup, SInv
  <2>5. CASE ~ForBooking(w) /\ ForMessage(w)
    <3> DEFINE r == [To(w, "find") EXCEPT !.booking = OnlyActive]
    <3>1. GoodRun(To(w, "find")) /\ To(w, "find").at = "find"
      BY <1>1, <2>1, GoodTo, RunAt DEF Step, Early, RunInv
    <3>2. OnlyActive \in BookingId
      <4>1. ActiveBookings \subseteq Booking
        BY DEF ActiveBookings
      <4>2. CASE Cardinality(ActiveBookings) = 1
        <5>1. ActiveBookings # {}
          BY <4>2, FS_EmptySet
        <5>2. QED
          BY <4>1, <4>2, <5>1 DEF OnlyActive, BookingId
      <4>3. QED
        BY <4>2 DEF OnlyActive, BookingId
    <3>3. GoodRun(r) /\ r.at # "rest"
      BY <3>1, <3>2 DEF GoodRun, Run, Early
    <3> HIDE DEF r
    <3>4. OrFail(w, outcome, r)
      BY <1>4, <2>5 DEF Lookup, r
    <3>5. RunInv'
      BY <1>1, <2>1, <3>3, <3>4, OrFailRun
    <3>6. QED
      BY <1>2, <1>4, <3>5, Frame DEF Lookup, SInv
  <2>6. CASE ~ForBooking(w) /\ ~ForMessage(w)
    <3> DEFINE r == [To(w, "send") EXCEPT !.conv = EventKey(w)]
    <3>1. To(w, "send") \in Run /\ To(w, "send").at = "send"
      BY <1>1, RunAt DEF Step, RunInv
    <3>2. EventKey(w) \in 1..MaxConv
      BY <2>3, <2>6, KeysAssumption DEF Key, ForBooking, ForMessage
    <3>3. GoodRun(r) /\ r.at # "rest"
      BY <3>1, <3>2 DEF GoodRun, Run
    <3> HIDE DEF r
    <3>4. OrFail(w, outcome, r)
      BY <1>4, <2>6 DEF Lookup, r
    <3>5. RunInv'
      BY <1>1, <2>1, <3>3, <3>4, OrFailRun
    <3>6. QED
      BY <1>2, <1>4, <3>5, Frame DEF Lookup, SInv
  <2>7. QED
    BY <2>4, <2>5, <2>6
<1>5. CASE SendTemplate(w, outcome)
  <2>1. run[w].at = "template"
    BY <1>5 DEF SendTemplate
  <2>2. GoodRun(To(w, "find")) /\ To(w, "find").at # "rest"
        /\ GoodRun(To(w, "end")) /\ To(w, "end").at # "rest"
    BY <1>1, GoodTo DEF Step, Early
  <2>3. RunInv'
    BY <1>1, <1>5, <2>1, <2>2, RunGoesOn DEF SendTemplate, Continue, vars
  <2>4. RecordTypeOK'
    BY <1>5 DEF SendTemplate, Delivers, RecordTypeOK, SInv
  <2>5. QED
    BY <1>2, <1>5, <2>3, <2>4, Frame DEF SendTemplate, SInv
<1>6. CASE FindConversation(w, outcome)
  <2>1. run[w].at = "find" /\ UNCHANGED chat
    BY <1>6 DEF FindConversation
  <2>2. CASE OrFail(w, outcome, To(w, "create"))
    <3>1. GoodRun(To(w, "create")) /\ To(w, "create").at # "rest"
      BY <1>1, GoodTo DEF Step, Early
    <3>2. RunInv'
      BY <1>1, <2>1, <2>2, <3>1, OrFailRun
    <3>3. QED
      BY <1>2, <1>6, <3>2, Frame DEF FindConversation, SInv
  <2>3. ASSUME NEW c \in Open(run[w].booking), OrFail(w, outcome, Found(w, c)) PROVE SInv'
    <3>1. c \in 1..MaxConv /\ conversation'[c] \in Conversation
      BY <1>1, <2>1, BoundsAssumption DEF Open, ChatTypeOK, chat
    <3>2. GoodRun(Found(w, c)) /\ Found(w, c).at # "rest"
      BY <1>1, <3>1, FoundType DEF GoodRun, RunInv
    <3>3. RunInv'
      BY <1>1, <2>1, <2>3, <3>2, OrFailRun
    <3>4. QED
      BY <1>2, <1>6, <3>3, Frame DEF FindConversation, SInv
  <2>4. QED
    BY <1>6, <2>2, <2>3 DEF FindConversation
<1>7. CASE CreateConversation(w, outcome)
  <2> DEFINE n == Len(conversation) + 1
             new == [booking |-> run[w].booking, status |-> "AI_ACTIVE", pending |-> NoAction]
  <2>1. run[w].at = "create"
    BY <1>7 DEF CreateConversation
  <2>2. n \in 1..MaxConv /\ DOMAIN conversation \subseteq 1..MaxConv
    BY <1>1, <1>7, BoundsAssumption DEF CreateConversation, ChatTypeOK
  <2>3. new \in Conversation
    BY <1>3 DEF Run, Conversation, ConversationStatus
  <2>4. ChatTypeOK' /\ (outcome = "ok" => conversation'[n] \in Conversation)
    <3> HIDE DEF new
    <3>1. CASE Applied(outcome)
      <4>1. conversation' = Append(conversation, new) /\ UNCHANGED late
            /\ newer' = newer \cup {<<n, d>> : d \in DOMAIN conversation}
        BY <1>7, <3>1 DEF CreateConversation, new
      <4>2. conversation' \in Seq(Conversation) /\ Len(conversation') = n
            /\ conversation'[n] = new
        BY <1>1, <2>3, <4>1 DEF ChatTypeOK
      <4>3. newer' \subseteq (1..MaxConv) \X (1..MaxConv)
        BY <1>1, <2>2, <4>1 DEF ChatTypeOK
      <4>4. QED
        BY <1>1, <2>2, <2>3, <4>1, <4>2, <4>3 DEF ChatTypeOK
    <3>2. CASE ~Applied(outcome)
      <4>1. UNCHANGED chat /\ outcome # "ok"
        BY <1>7, <3>2 DEF CreateConversation, Applied
      <4>2. QED
        BY <4>1, Frame
    <3>3. QED
      BY <3>1, <3>2
  <2>5. outcome = "ok" => GoodRun(Found(w, n)) /\ Found(w, n).at # "rest"
    <3> HIDE DEF n
    <3>1. QED
      BY <1>1, <2>2, <2>4, FoundType DEF GoodRun, RunInv
  <2>6. OrFail(w, outcome, Found(w, n))
    BY <1>7 DEF CreateConversation
  <2>7. RunInv'
    <3> HIDE DEF n
    <3>1. QED
      BY <1>1, <2>1, <2>5, <2>6, OrFailRun
  <2>8. QED
    BY <1>2, <1>7, <2>4, <2>7, Frame DEF CreateConversation, SInv
<1>8. QED
  BY <1>4, <1>5, <1>6, <1>7
\* The steps that change a conversation and go on or fail.
LEMMA ConversationStepsType ==
  ASSUME SInv, NEW w \in Worker, NEW outcome \in Outcome,
         \/ RecordInbound(w, outcome) \/ ClearPending(w, outcome) \/ HandOver(w, outcome)
         \/ Escalate(w, outcome) \/ RememberPending(w, outcome) \/ TakeOver(w, outcome)
  PROVE  SInv'
<1>1. TypeOK /\ ChatTypeOK /\ RunInv
  BY DEF SInv
<1>2. TypeOK'
  <2>1. HandlerStep(w)
    BY DEF HandlerStep
  <2>2. QED
    BY <1>1, <2>1, HandlerRefines, TypeStep
<1>3. run[w].at \notin Early /\ run[w].at # "rest"
  BY DEF RecordInbound, ClearPending, HandOver, Escalate, RememberPending, TakeOver, Early
<1>4. run[w].conv \in 1..MaxConv /\ run[w].answer \in Answer
  BY <1>1, <1>3 DEF RunInv, GoodRun, Run
<1>5. \A step \in Step \ {"rest", "tool"} : GoodRun(To(w, step)) /\ To(w, step).at # "rest"
  BY <1>1, <1>3, GoodTo
<1>6. \A a \in Answer : GoodRun(With(run[w], a)) /\ With(run[w], a).at # "rest"
  BY <1>1, <1>3, GoodWith
<1>7. CASE RecordInbound(w, outcome)
  <2> DEFINE step == AfterRecord(run[w], wrote[EventKey(w)])
  <2>1. step \in Step \ {"rest", "tool"}
    BY DEF AfterRecord, Step
  <2>2. RunInv'
    <3> HIDE DEF step
    <3>1. OrFail(w, outcome, To(w, step))
      BY <1>7 DEF RecordInbound, step
    <3>2. QED
      BY <1>1, <1>3, <1>5, <2>1, <3>1, OrFailRun
  <2>3. RecordTypeOK'
    <3>1. recorded' \in [Message -> Nat]
      BY <1>7 DEF RecordInbound, SInv, RecordTypeOK
    <3>2. QED
      BY <1>7, <3>1 DEF RecordInbound, SInv, RecordTypeOK
  <2>4. ChatTypeOK'
    <3>1. newer' \subseteq (1..MaxConv) \X (1..MaxConv)
      BY <1>1, <1>4, <1>7, TouchType DEF RecordInbound, ChatTypeOK
    <3>2. QED
      BY <1>1, <1>7, <3>1 DEF RecordInbound, ChatTypeOK
  <2>5. QED
    BY <1>2, <1>7, <2>2, <2>3, <2>4, Frame DEF RecordInbound, SInv
<1>8. CASE ClearPending(w, outcome)
  <2>1. RunInv'
    BY <1>1, <1>3, <1>5, <1>8, OrFailRun DEF ClearPending, Step
  <2>2. ChatTypeOK'
    BY <1>1, <1>4, <1>8, SetPendingType, Frame DEF ClearPending
  <2>3. QED
    BY <1>2, <1>8, <2>1, <2>2, Frame DEF ClearPending, SInv
<1>9. CASE HandOver(w, outcome)
  <2>1. RunInv'
    BY <1>1, <1>3, <1>5, <1>9, RunGoesOn DEF HandOver, Continue, vars, Step
  <2>2. ChatTypeOK'
    BY <1>1, <1>4, <1>9, SetStatusType, Frame DEF HandOver, ConversationStatus
  <2>3. QED
    BY <1>2, <1>9, <2>1, <2>2, Frame DEF HandOver, SInv
<1>10. CASE Escalate(w, outcome)
  <2> DEFINE a == [run[w].answer EXCEPT !.handover = "no"]
  <2>1. a \in Answer
    BY <1>4 DEF Answer
  <2>2. RunInv'
    <3> HIDE DEF a
    <3>1. OrFail(w, outcome, With(run[w], a))
      BY <1>10 DEF Escalate, a
    <3>2. QED
      BY <1>1, <1>3, <1>6, <2>1, <3>1, OrFailRun
  <2>3. ChatTypeOK'
    BY <1>1, <1>4, <1>10, SetStatusType, Frame DEF Escalate, ConversationStatus
  <2>4. QED
    BY <1>2, <1>10, <2>2, <2>3, Frame DEF Escalate, SInv
<1>11. CASE RememberPending(w, outcome)
  <2> DEFINE a == [run[w].answer EXCEPT !.pending = NoAction]
  <2>1. a \in Answer
    BY <1>4 DEF Answer
  <2>2. RunInv'
    <3> HIDE DEF a
    <3>1. OrFail(w, outcome, With(run[w], a))
      BY <1>11 DEF RememberPending, a
    <3>2. QED
      BY <1>1, <1>3, <1>6, <2>1, <3>1, OrFailRun
  <2>3. ChatTypeOK'
    <3>1. run[w].answer.pending \in Action \cup {NoAction}
      BY <1>4 DEF Answer
    <3>2. QED
      BY <1>1, <1>4, <1>11, <3>1, SetPendingType, Frame DEF RememberPending
  <2>4. QED
    BY <1>2, <1>11, <2>2, <2>3, Frame DEF RememberPending, SInv
<1>12. CASE TakeOver(w, outcome)
  <2>1. RunInv'
    BY <1>1, <1>3, <1>5, <1>12, OrFailRun DEF TakeOver, Step
  <2>2. ChatTypeOK'
    BY <1>1, <1>4, <1>12, SetStatusType, Frame DEF TakeOver, ConversationStatus
  <2>3. QED
    BY <1>2, <1>12, <2>1, <2>2, Frame DEF TakeOver, SInv
<1>13. QED
  BY <1>7, <1>8, <1>9, <1>10, <1>11, <1>12

\* The steps that act on a booking.
LEMMA ToolStepsType ==
  ASSUME SInv, NEW w \in Worker, NEW outcome \in Outcome,
         ExecutePending(w, outcome) \/ ExecuteToolCall(w, outcome)
  PROVE  SInv'
<1>1. TypeOK /\ HouseTypeOK /\ ChatTypeOK /\ RunInv
  BY DEF SInv
<1>2. TypeOK'
  <2>1. HandlerStep(w)
    BY DEF HandlerStep
  <2>2. QED
    BY <1>1, <2>1, HandlerRefines, TypeStep
<1>3. run[w].at \notin Early /\ run[w].at # "rest"
  BY DEF ExecutePending, ExecuteToolCall, Early
<1>4. run[w] \in Run /\ run[w].conv \in 1..MaxConv /\ run[w].answer \in Answer
  BY <1>1, <1>3 DEF RunInv, GoodRun, Run
<1>5. \A name, b : Perform(w, name, b) => handling' = handling
  BY DEF Perform, CancelBooking, RescheduleBooking, SetReservation, Enqueue, vars
<1>6. CASE ExecutePending(w, outcome)
  <2> DEFINE action == run[w].pending
             b == FirstNonEmpty(action.booking, conversation[run[w].conv].booking)
  <2>1. HouseTypeOK' /\ ChatTypeOK' /\ handling' = handling
    <3>1. CASE Applied(outcome)
      <4>1. Perform(w, action.name, b)
        BY <1>6, <3>1 DEF ExecutePending
      <4>2. QED
        BY <1>1, <1>4, <1>5, <4>1, PerformType
    <3>2. CASE ~Applied(outcome)
      BY <1>6, <3>2, Frame DEF ExecutePending, vars
    <3>3. QED
      BY <3>1, <3>2
  <2>2. RunInv'
    <3> DEFINE r == [To(w, "clear") EXCEPT !.say = Said(action.name)]
    <3>1. GoodRun(r) /\ r.at # "rest"
      <4>1. GoodRun(To(w, "clear")) /\ To(w, "clear").at = "clear"
        BY <1>1, <1>3, GoodTo, RunAt DEF Step, RunInv
      <4>2. Said(action.name) \in {"other", "cancelled", "rescheduled"}
        BY DEF Said
      <4>3. QED
        BY <4>1, <4>2 DEF GoodRun, Run
    <3>2. GoodRun(To(w, "send")) /\ To(w, "send").at # "rest"
      BY <1>1, <1>3, GoodTo DEF Step
    <3>3. run' = [run EXCEPT ![w] = IF outcome = "ok" THEN r ELSE To(w, "send")]
      BY <1>6 DEF ExecutePending
    <3> HIDE DEF r
    <3>4. QED
      BY <1>1, <1>3, <2>1, <3>1, <3>2, <3>3, RunGoesOn
  <2>3. QED
    BY <1>2, <1>6, <2>1, <2>2, Frame DEF ExecutePending, SInv
<1>7. CASE ExecuteToolCall(w, outcome)
  <2> DEFINE call == Head(run[w].answer.calls)
             b == conversation[run[w].conv].booking
  <2>1. run[w].answer.calls \in Seq(Call) /\ run[w].answer.calls # <<>>
    BY <1>1, <1>4, <1>7 DEF ExecuteToolCall, RunInv, GoodRun, Answer
  <2>2. call \in Call /\ Tail(run[w].answer.calls) \in Seq(Call)
    BY <2>1
  <2>3. HouseTypeOK' /\ ChatTypeOK' /\ handling' = handling
    <3>1. CASE ~Applied(outcome)
      BY <1>7, <3>1, Frame DEF ExecuteToolCall, vars
    <3>2. CASE Applied(outcome) /\ call.confirm = "yes"
      <4> DEFINE action == [name |-> call.name, booking |-> FirstNonEmpty(b, call.booking)]
      <4>1. SetPending(run[w].conv, action) /\ UNCHANGED <<vars, house>>
        BY <1>7, <3>2 DEF ExecuteToolCall
      <4>2. ASSUME run[w].conv \in DOMAIN conversation PROVE action \in Action
        <5>1. conversation[run[w].conv] \in Conversation
          BY <1>1, <4>2 DEF ChatTypeOK
        <5>2. b \in BookingId
          BY <5>1 DEF Conversation
        <5>3. QED
          BY <2>2, <5>2 DEF Action, Call, FirstNonEmpty
      <4> HIDE DEF action
      <4>3. ChatTypeOK'
        BY <1>1, <1>4, <4>1, <4>2, SetPendingType
      <4>4. QED
        BY <4>1, <4>3, Frame DEF vars
    <3>3. CASE Applied(outcome) /\ call.confirm # "yes"
      <4>1. Perform(w, call.name, FirstNonEmpty(call.booking, b))
        BY <1>7, <3>3 DEF ExecuteToolCall
      <4>2. QED
        BY <1>1, <1>4, <1>5, <4>1, PerformType
    <3>4. QED
      BY <3>1, <3>2, <3>3
  <2>4. RunInv'
    <3> DEFINE a == [run[w].answer EXCEPT !.calls = Tail(@)]
    <3>1. a \in Answer
      BY <1>4, <2>2 DEF Answer
    <3>2. run' = [run EXCEPT ![w] = With(run[w], a)]
      BY <1>1, <1>7 DEF ExecuteToolCall, RunInv
    <3> HIDE DEF a
    <3>3. QED
      BY <1>1, <1>3, <2>3, <3>1, <3>2, GoodWith, RunGoesOn
  <2>5. QED
    BY <1>2, <1>7, <2>3, <2>4, Frame DEF ExecuteToolCall, SInv
<1>8. QED
  BY <1>6, <1>7

\* The steps that answer, and those that end a run.
LEMMA LastStepsType ==
  ASSUME SInv, NEW w \in Worker,
         \/ \E outcome \in Outcome : SendText(w, outcome) \/ StoreOutbound(w, outcome)
         \/ \E a \in AIAnswer : ProcessConversation(w, a)
         \/ NoAI(w) \/ RecentMessagesFail(w) \/ AIFails(w) \/ EndQuietly(w)
  PROVE  SInv'
<1>1. TypeOK /\ ChatTypeOK /\ RecordTypeOK /\ RunInv
  BY DEF SInv
<1>2. TypeOK'
  <2>1. HandlerStep(w)
    BY DEF HandlerStep
  <2>2. QED
    BY <1>1, <2>1, HandlerRefines, TypeStep
<1>3. ASSUME NEW outcome \in Outcome, SendText(w, outcome) PROVE SInv'
  <2>1. run[w].at \notin Early /\ run[w].at # "rest"
    BY <1>3 DEF SendText, Early
  <2>2. RunInv'
    <3>1. GoodRun(To(w, "take over")) /\ To(w, "take over").at # "rest"
          /\ GoodRun(To(w, "store")) /\ To(w, "store").at # "rest"
      BY <1>1, <2>1, GoodTo DEF Step
    <3>2. QED
      BY <1>1, <1>3, <2>1, <3>1, OrFailRun DEF SendText
  <2>3. RecordTypeOK'
    <3>1. Delivers(w, outcome) /\ UNCHANGED <<recorded, stored, quiet>>
      BY <1>3 DEF SendText
    <3>2. delivered' \in [RowNumber -> Nat]
      BY <1>1, <3>1 DEF Delivers, RecordTypeOK
    <3>3. QED
      BY <1>1, <3>1, <3>2 DEF RecordTypeOK
  <2>4. ChatTypeOK'
    <3>1. late' \in [1..MaxConv -> Nat]
      <4>1. Intrudes(w, outcome)
        BY <1>3 DEF SendText
      <4>2. late \in [1..MaxConv -> Nat]
        BY <1>1 DEF ChatTypeOK
      <4>3. QED
        BY <4>1, <4>2 DEF Intrudes
    <3>2. QED
      BY <1>1, <1>3, <3>1 DEF SendText, ChatTypeOK
  <2>5. QED
    BY <1>2, <1>3, <2>2, <2>3, <2>4, Frame DEF SendText, SInv
<1>4. ASSUME NEW outcome \in Outcome, StoreOutbound(w, outcome) PROVE SInv'
  <2>1. run[w].conv \in 1..MaxConv
    BY <1>1, <1>4 DEF StoreOutbound, RunInv, GoodRun, Early
  <2>2. RunInv'
    BY <1>1, <1>4, RunReturns DEF StoreOutbound
  <2>3. RecordTypeOK'
    BY <1>1, <1>4 DEF StoreOutbound, RecordTypeOK
  <2>4. ChatTypeOK'
    <3>1. newer' \subseteq (1..MaxConv) \X (1..MaxConv)
      BY <1>1, <1>4, <2>1, TouchType DEF StoreOutbound, ChatTypeOK
    <3>2. QED
      BY <1>1, <1>4, <3>1 DEF StoreOutbound, ChatTypeOK
  <2>5. QED
    BY <1>2, <1>4, <2>2, <2>3, <2>4, Frame DEF StoreOutbound, SInv
<1>5. ASSUME NEW a \in AIAnswer, ProcessConversation(w, a) PROVE SInv'
  <2>1. Decoded(a) \in Answer
    BY <1>5, AnswersAssumption, DecodedType
  <2>2. GoodRun(With(run[w], Decoded(a))) /\ With(run[w], Decoded(a)).at # "rest"
        /\ run[w].at # "rest"
    BY <1>1, <1>5, <2>1, GoodWith DEF ProcessConversation, Early
  <2>3. RunInv'
    BY <1>1, <1>5, <2>2, RunGoesOn DEF ProcessConversation, Continue, vars
  <2>4. QED
    BY <1>2, <1>5, <2>3, Frame DEF ProcessConversation, SInv
<1>6. CASE NoAI(w) \/ AIFails(w)
  <2>1. run[w].at = "think"
    BY <1>6 DEF NoAI, AIFails
  <2>2. GoodRun(To(w, "send")) /\ To(w, "send").at # "rest"
        /\ GoodRun(To(w, "hand over")) /\ To(w, "hand over").at # "rest"
    BY <1>1, <2>1, GoodTo DEF Early, Step
  <2>3. RunInv'
    BY <1>1, <1>6, <2>1, <2>2, RunGoesOn DEF NoAI, AIFails, Continue, vars
  <2>4. QED
    BY <1>2, <1>6, <2>3, Frame DEF NoAI, AIFails, SInv
<1>7. CASE RecentMessagesFail(w)
  <2>1. RunInv'
    BY <1>1, <1>7, RunReturns DEF RecentMessagesFail
  <2>2. QED
    BY <1>2, <1>7, <2>1, Frame DEF RecentMessagesFail, SInv
<1>8. CASE EndQuietly(w)
  <2>1. RunInv'
    BY <1>1, <1>8, RunReturns DEF EndQuietly
  <2>2. handling[w] \in RowNumber
    <3>1. handling[w] \in {0} \cup DOMAIN outbox /\ handling[w] # 0
      BY <1>1, <1>8 DEF EndQuietly, Return, Finish, TypeOK
    <3>2. DOMAIN outbox \subseteq RowNumber
      BY <1>1, RowsAssumption DEF TypeOK, RowNumber
    <3>3. QED
      BY <3>1, <3>2
  <2>3. RecordTypeOK'
    BY <1>1, <1>8, <2>2 DEF EndQuietly, RecordTypeOK
  <2>4. QED
    BY <1>2, <1>8, <2>1, <2>3, Frame DEF EndQuietly, SInv
<1>9. QED
  BY <1>3, <1>4, <1>5, <1>6, <1>7, <1>8

LEMMA HandlerType == ASSUME SInv, NEW w \in Worker, HandlerStep(w) PROVE SInv'
  BY FirstStepsType, ConversationStepsType, ToolStepsType, LastStepsType DEF HandlerStep
LEMMA SystemInitType == SystemInit => SInv
<1> SUFFICES ASSUME SystemInit PROVE SInv
  OBVIOUS
<1>1. TypeOK
  BY TypeInit DEF SystemInit
<1>2. HouseTypeOK /\ RecordTypeOK /\ CustomerTypeOK
  BY StandingAssumption DEF SystemInit, HouseTypeOK, RecordTypeOK, CustomerTypeOK, ReservationStatus
<1>3. ChatTypeOK
  BY BoundsAssumption DEF SystemInit, ChatTypeOK
<1>4. RunInv
  BY RestType DEF SystemInit, RunInv, Init
<1>5. DeskInv
  BY BoundsAssumption DEF SystemInit, DeskInv
<1>6. QED
  BY <1>1, <1>2, <1>3, <1>4, <1>5 DEF SInv

LEMMA SystemStepType == SInv /\ [SystemNext]_allVars => SInv'
<1> SUFFICES ASSUME SInv, [SystemNext]_allVars PROVE SInv'
  OBVIOUS
<1>1. TypeOK /\ HouseTypeOK /\ ChatTypeOK /\ RunInv /\ DeskInv /\ CustomerTypeOK
  BY DEF SInv
<1>2. TypeOK'
  BY <1>1, SystemStepRefines, TypeStep
<1>3. DOMAIN conversation \subseteq 1..MaxConv
  BY <1>1, BoundsAssumption DEF ChatTypeOK
<1>4. CASE HouseStep
  <2>1. HouseTypeOK'
    BY <1>1, <1>4, SetReservationType, StandingAssumption
    DEF HouseStep, Book, MarkReservation, CheckIn, UpdateMyReservation, TimePasses,
      MemberChanges,
      HouseTypeOK, ReservationStatus
  <2>2. UNCHANGED <<chat, run, desk, customer, record>>
    BY <1>4
    DEF HouseStep, Book, MarkReservation, CheckIn, UpdateMyReservation, TimePasses,
      MemberChanges
  <2>3. handling' = handling
    BY <1>4
    DEF HouseStep, Book, MarkReservation, CheckIn, UpdateMyReservation, TimePasses,
      MemberChanges,
      SetReservation, Enqueue, vars
  <2>4. QED
    BY <1>2, <2>1, <2>2, <2>3, Frame DEF SInv
<1>5. CASE CustomerStep
  <2>1. ASSUME NEW m \in Message, NEW kind \in Text, CustomerWrites(m, kind)
        PROVE SInv'
    <3>1. wrote' \in [Message -> {"nothing", "yes", "no", "text"}]
      BY <1>1, <2>1, TextAssumption DEF CustomerWrites, CustomerTypeOK
    <3>2. \A c \in DOMAIN conversation : conversation[c].pending \in Action \cup {NoAction}
      <4>1. \A c \in DOMAIN conversation : conversation[c] \in Conversation
        BY <1>1 DEF ChatTypeOK
      <4>2. QED
        BY <4>1 DEF Conversation
    <3>3. agreed' \in [Message -> SUBSET Action]
      BY <1>1, <2>1, <3>2 DEF CustomerWrites, CustomerTypeOK
    <3>4. QED
      BY <1>2, <2>1, <3>1, <3>3, Frame DEF CustomerWrites, CustomerTypeOK, SInv, vars
  <2>2. ASSUME NEW m \in Message, AcceptWhatsAppWebhook(m) PROVE SInv'
    BY <1>2, <2>2, Frame DEF AcceptWhatsAppWebhook, Enqueue, SInv
  <2>3. QED
    BY <1>5, <2>1, <2>2 DEF CustomerStep
<1>6. CASE StaffStep
  <2>1. ASSUME NEW c \in DOMAIN conversation, RequestReply(c) PROVE SInv'
    <3>1. ChatTypeOK'
      BY <1>1, <1>3, <2>1, SetStatusType DEF RequestReply, ConversationStatus
    <3>2. QED
      BY <1>2, <2>1, <3>1, Frame DEF RequestReply, Enqueue, SInv
  <2>2. ASSUME NEW c \in DOMAIN conversation, NEW s \in ConversationStatus,
               SetConversationStatus(c, s)
        PROVE SInv'
    <3>1. ChatTypeOK'
      BY <1>1, <1>3, <2>2, SetStatusType DEF SetConversationStatus
    <3>2. QED
      BY <1>2, <2>2, <3>1, Frame DEF SetConversationStatus, SInv, vars
  <2>3. ASSUME NEW c \in DOMAIN conversation, NEW d \in Desk, DeskOpens(d, c) PROVE SInv'
    <3>1. DeskInv'
      <4>1. c \in 0..MaxConv /\ c \in 1..MaxConv
        BY <1>3, BoundsAssumption
      <4>2. QED
        BY <1>1, <2>3, <4>1 DEF DeskOpens, DeskInv
    <3>2. QED
      BY <1>2, <2>3, <3>1, Frame DEF DeskOpens, SInv, vars
  <2>4. ASSUME NEW d \in Desk, NEW outcome \in Outcome,
               DeskSends(d, outcome) \/ DeskTakesOver(d, outcome) \/ DeskStores(d, outcome)
        PROVE SInv'
    <3>1. desk[d].at # "rest" /\ desk[d].conv \in 1..MaxConv
      BY <1>1, <2>4 DEF DeskSends, DeskTakesOver, DeskStores, DeskInv
    <3>2. ASSUME NEW step \in {"rest", "take over", "store"}, DeskAt(d, step) PROVE DeskInv'
      BY <1>1, <3>1, <3>2 DEF DeskAt, DeskInv
    <3>3. DeskInv'
      BY <2>4, <3>2 DEF DeskSends, DeskTakesOver, DeskStores
    <3>4. ChatTypeOK'
      <4>1. CASE UNCHANGED chat
        BY <4>1, Frame
      <4>2. CASE SetStatus(desk[d].conv, "HUMAN_ACTIVE")
        BY <1>1, <3>1, <4>2, SetStatusType DEF ConversationStatus
      <4>3. CASE Touch(desk[d].conv) /\ UNCHANGED <<conversation, late>>
        <5>1. newer' \subseteq (1..MaxConv) \X (1..MaxConv)
          BY <1>1, <3>1, <4>3, TouchType
        <5>2. QED
          BY <1>1, <4>3, <5>1 DEF ChatTypeOK
      <4>4. QED
        BY <2>4, <4>1, <4>2, <4>3 DEF DeskSends, DeskTakesOver, DeskStores
    <3>5. QED
      BY <1>2, <2>4, <3>3, <3>4, Frame DEF DeskSends, DeskTakesOver, DeskStores, SInv, vars
  <2>5. QED
    BY <1>6, <2>1, <2>2, <2>3, <2>4 DEF StaffStep
<1>7. CASE OutboxStep
  <2>1. handling' = handling
    BY <1>7 DEF OutboxStep, BackoffElapses, Claim, ClaimLost, ApplyMark, LoseMark
  <2>2. QED
    BY <1>2, <1>7, <2>1, Frame DEF OutboxStep, SInv
<1>8. ASSUME NEW w \in Worker, NEW i \in batch[w], ProcessEvent(w, i) PROVE SInv'
  <2> DEFINE r == [Rest EXCEPT !.at = "lookup"]
  <2>1. GoodRun(r) /\ r.at = "lookup"
    BY RestType DEF GoodRun, Run, Step, Early
  <2>2. run' = [run EXCEPT ![w] = r]
    BY <1>8 DEF ProcessEvent
  <2>3. handling' = [handling EXCEPT ![w] = i] /\ i # 0
    BY <1>1, <1>8 DEF ProcessEvent, Start, TypeOK
  <2> HIDE DEF r
  <2>4. RunInv'
    BY <1>1, <2>1, <2>2, <2>3 DEF RunInv, GoodRun, TypeOK
  <2>5. QED
    BY <1>2, <1>8, <2>4, Frame DEF ProcessEvent, SInv
<1>9. ASSUME NEW w \in Worker, WorkerDies(w) PROVE SInv'
  <2>1. RunInv'
    BY <1>1, <1>9, RestType DEF WorkerDies, Crash, RunInv, GoodRun, TypeOK
  <2>2. QED
    BY <1>2, <1>9, <2>1, Frame DEF WorkerDies, SInv
<1>10. CASE UNCHANGED allVars
  BY <1>2, <1>10, Frame DEF allVars, vars, SInv
<1>11. QED
  BY <1>4, <1>5, <1>6, <1>7, <1>8, <1>9, <1>10, HandlerType DEF SystemNext

LEMMA SystemInvariant == SystemSpec => []SInv
  BY SystemInitType, SystemStepType, PTL DEF SystemSpec

\* Every variable of the composed system keeps its type, and so the locals
\* of a handler always name a conversation and calls that exist, for any
\* number of workers and whatever the AI answers.
THEOREM SystemTypeCorrect == SystemSpec => []SystemTypeOK
<1>1. SInv => SystemTypeOK
  BY DEF SInv, SystemTypeOK, RunInv, DeskInv, CustomerTypeOK
<1>2. QED
  BY <1>1, SystemInvariant, PTL

-----------------------------------------------------------------------------
(* The composed system implements the outbox.                              *)

\* The trigger on reservations, the webhook, the staff's requests and the
\* handlers, call by call, leave the outbox to its own rules: every behaviour
\* of the system is one of module Outbox.
THEOREM Refinement == SystemSpec => ImplementsOutbox
<1>1. SystemInit => Init
  BY DEF SystemInit
<1>2. SInv => ChatTypeOK
  BY DEF SInv
<1>3. QED
  BY <1>1, <1>2, SystemInvariant, SystemStepRefines, PTL
  DEF SystemSpec, ImplementsOutbox, Spec

\* So what the outbox promises, it promises with these handlers: no event in
\* two hands, no done row reopened, one row for each booking and message.
THEOREM SystemOwnership ==
  SystemSpec => []ExclusiveOwner /\ []RunsBounded /\ []OneRowPerKey /\ DoneIsFinal
<1>1. SystemSpec => Spec
  BY Refinement DEF ImplementsOutbox
<1>2. QED
  BY <1>1, Ownership, BoundedRuns, OneRow, DoneFinal
-----------------------------------------------------------------------------
(* Reservations and their booking.created rows.                            *)

SameKeys ==
  /\ DOMAIN outbox' = DOMAIN outbox
  /\ \A i \in DOMAIN outbox : outbox'[i].key = outbox[i].key

\* No statement of the system puts a reservation back to "requested".
Settable == {"confirmed", "seated", "no_show", "cancelled"}

ReservationStep == \E b \in Booking, s \in Settable : SetReservation(b, s)

OtherStep ==
  /\ UNCHANGED <<reservation, excused>>
  /\ SameKeys \/ \E k \in Key \ Booking : Enqueue(k)

LEMMA PerformKinds ==
  ASSUME NEW w, NEW name, NEW b, Perform(w, name, b)
  PROVE  ReservationStep \/ OtherStep
<1>1. CASE CancelBooking(b)
  BY <1>1 DEF CancelBooking, ReservationStep, OtherStep, Settable, SameKeys, vars
<1>2. CASE RescheduleBooking(b)
  BY <1>2 DEF RescheduleBooking, ReservationStep, OtherStep, Settable, SameKeys, vars
<1>3. CASE UNCHANGED <<vars, house>>
  BY <1>3 DEF OtherStep, SameKeys, vars, house
<1>4. QED
  BY <1>1, <1>2, <1>3 DEF Perform

LEMMA HandlerKinds ==
  ASSUME NEW w \in Worker, HandlerStep(w)
  PROVE  ReservationStep \/ OtherStep
<1>1. ASSUME NEW outcome \in Outcome, ExecutePending(w, outcome) \/ ExecuteToolCall(w, outcome)
      PROVE ReservationStep \/ OtherStep
  <2>1. CASE UNCHANGED <<vars, house>>
    BY <2>1 DEF OtherStep, SameKeys, vars, house
  <2>2. ASSUME NEW name, NEW b, Perform(w, name, b) PROVE ReservationStep \/ OtherStep
    BY <2>2, PerformKinds
  <2>3. QED
    BY <1>1, <2>1, <2>2 DEF ExecutePending, ExecuteToolCall
<1>2. CASE UNCHANGED house /\ outbox' = outbox
  BY <1>2 DEF OtherStep, SameKeys, house
<1>3. QED
  BY <1>1, <1>2
  DEF HandlerStep, OrFail, Continue, Return, Finish, vars, Lookup, SendTemplate,
    FindConversation, CreateConversation, RecordInbound, ClearPending, HandOver, Escalate,
    RememberPending, SendText, TakeOver, StoreOutbound, ProcessConversation, NoAI,
    RecentMessagesFail, AIFails, EndQuietly

LEMMA OutboxStepKeys ==
  ASSUME TypeOK, OutboxStep
  PROVE  SameKeys /\ UNCHANGED <<handling, runs>>
<1>1. ASSUME NEW i \in DOMAIN outbox, BackoffElapses(i) PROVE SameKeys
  BY <1>1 DEF BackoffElapses, SameKeys, TypeOK, Row
<1>2. ASSUME TakeOldest PROVE SameKeys
  BY <1>2 DEF TakeOldest, Claimed, SameKeys, TypeOK
<1>3. ASSUME NEW m \in marks, ApplyMark(m) PROVE SameKeys
  BY <1>3 DEF ApplyMark, Marked, SameKeys, TypeOK
<1>4. ASSUME NEW m \in marks, LoseMark(m) PROVE SameKeys
  BY <1>4 DEF LoseMark, SameKeys
<1>5. SameKeys
  BY <1>1, <1>2, <1>3, <1>4 DEF OutboxStep, Claim, ClaimLost
<1>6. UNCHANGED <<handling, runs>>
  BY DEF OutboxStep, Claim, ClaimLost, BackoffElapses, ApplyMark, LoseMark
<1>7. QED
  BY <1>5, <1>6

LEMMA StepKinds == SInv /\ [SystemNext]_allVars => ReservationStep \/ OtherStep
<1> SUFFICES ASSUME SInv, [SystemNext]_allVars PROVE ReservationStep \/ OtherStep
  OBVIOUS
<1>1. TypeOK /\ ChatTypeOK
  BY DEF SInv
<1>2. CASE HouseStep
  <2>1. CASE MemberChanges \/ \E b \in Booking : TimePasses(b)
    BY <2>1 DEF MemberChanges, TimePasses, OtherStep, SameKeys, vars
  <2>2. QED
    BY <1>2, <2>1
    DEF HouseStep, Book, MarkReservation, CheckIn, UpdateMyReservation, ReservationStep,
      Settable
<1>3. CASE CustomerStep
  <2>1. ASSUME NEW m \in Message, AcceptWhatsAppWebhook(m) PROVE OtherStep
    BY <2>1, KeyFacts DEF AcceptWhatsAppWebhook, OtherStep, house
  <2>2. QED
    BY <1>3, <2>1 DEF CustomerStep, CustomerWrites, OtherStep, SameKeys, vars, house
<1>4. CASE StaffStep
  <2>1. ASSUME NEW c \in DOMAIN conversation, RequestReply(c) PROVE OtherStep
    <3>1. c \in 1..MaxConv
      BY <1>1, BoundsAssumption DEF ChatTypeOK
    <3>2. QED
      BY <2>1, <3>1, KeyFacts DEF RequestReply, OtherStep, house
  <2>2. CASE UNCHANGED <<vars, house>>
    BY <2>2 DEF OtherStep, SameKeys, vars, house
  <2>3. QED
    BY <1>4, <2>1, <2>2
    DEF StaffStep, SetConversationStatus, DeskOpens, DeskSends, DeskTakesOver, DeskStores
<1>5. CASE OutboxStep
  BY <1>1, <1>5, OutboxStepKeys DEF OtherStep, house, OutboxStep
<1>6. ASSUME NEW w \in Worker, NEW i \in batch[w], ProcessEvent(w, i) PROVE OtherStep
  BY <1>6 DEF ProcessEvent, Start, OtherStep, SameKeys, house
<1>7. ASSUME NEW w \in Worker, WorkerDies(w) PROVE OtherStep
  BY <1>7 DEF WorkerDies, Crash, OtherStep, SameKeys, house
<1>8. CASE UNCHANGED allVars
  BY <1>8 DEF allVars, OtherStep, SameKeys, vars, house
<1>9. QED
  BY <1>2, <1>3, <1>4, <1>5, <1>6, <1>7, <1>8, HandlerKinds DEF SystemNext

HasRow(k) == \E i \in DOMAIN outbox : outbox[i].key = k

LEMMA EnqueueRows ==
  ASSUME TypeOK, NEW k, Enqueue(k)
  PROVE  \A l : HasRow(l)' <=> (HasRow(l) \/ l = k)
<1> DEFINE n == Len(outbox) + 1
           new == [key |-> k, status |-> "pending", attempts |-> 0, next_attempt_at |-> "past"]
<1>1. outbox' = Append(outbox, new) /\ new.key = k
  BY DEF Enqueue, Insert
<1>2. outbox \in Seq(Row) /\ Len(outbox) \in Nat /\ DOMAIN outbox = 1..Len(outbox)
  BY DEF TypeOK
<1> HIDE DEF new
<1>3. /\ DOMAIN outbox' = 1..n
      /\ \A i \in 1..Len(outbox) : outbox'[i] = outbox[i]
      /\ outbox'[n] = new
  BY <1>1, <1>2
<1>4. 1..n = (1..Len(outbox)) \cup {n}
  BY <1>2
<1>5. QED
  BY <1>1, <1>2, <1>3, <1>4 DEF HasRow

\* A reservation newly confirmed, with no row and none put in, is excused;
\* one that stays confirmed keeps its row or its excuse.
LEMMA ReservationAnnounced ==
  ASSUME SInv, AnnouncedIffConfirmed, NEW b \in Booking, NEW s \in Settable,
         SetReservation(b, s), NEW c \in Booking
  PROVE  /\ reservation'[c] = "confirmed" => HasRow(c)' \/ c \in excused'
         /\ HasRow(c)' => reservation'[c] \notin {"none", "requested"}
<1>1. TypeOK /\ reservation \in [Booking -> ReservationStatus \cup {"none"}]
  BY DEF SInv, HouseTypeOK
<1>2. /\ reservation[c] = "confirmed" => HasRow(c) \/ c \in excused
      /\ HasRow(c) => reservation[c] \notin {"none", "requested"}
  BY DEF AnnouncedIffConfirmed, HasRow
<1>3. reservation' = [reservation EXCEPT ![b] = s] /\ s \notin {"none", "requested"}
  BY DEF SetReservation, Settable
<1>4. PICK raised \in BOOLEAN :
        /\ IF Announced(b, s) /\ ~raised /\ ~Conflict(b) THEN Enqueue(b) ELSE UNCHANGED vars
        /\ excused' = CASE s # "confirmed" -> excused \ {b}
                        [] Confirms(b, s) /\ ~Conflict(b) /\ (raised \/ ~reachable) ->
                             excused \cup {b}
                        [] OTHER -> excused
  BY DEF SetReservation
<1>5. s = "confirmed" /\ Confirms(b, s) /\ ~Conflict(b) /\ (raised \/ ~reachable) => b \in excused'
  BY <1>4
<1>6. s = "confirmed" => (c \in excused => c \in excused')
  BY <1>4
<1>7. c # b => (c \in excused' <=> c \in excused)
  BY <1>4
<1>8. CASE Announced(b, s) /\ ~raised /\ ~Conflict(b)
  <2>1. HasRow(c)' <=> (HasRow(c) \/ c = b)
    BY <1>1, <1>4, <1>8, EnqueueRows
  <2>2. QED
    BY <1>1, <1>2, <1>3, <1>7, <2>1
<1>9. CASE ~(Announced(b, s) /\ ~raised /\ ~Conflict(b))
  <2>1. HasRow(c)' <=> HasRow(c)
    BY <1>4, <1>9 DEF vars, HasRow
  <2>2. CASE c = b /\ s = "confirmed"
    <3>1. Conflict(b) => HasRow(b)
      BY DEF Conflict, HasRow
    <3>2. CASE Confirms(b, s)
      BY <1>1, <1>3, <1>5, <1>9, <2>1, <2>2, <3>1, <3>2 DEF Announced
    <3>3. CASE ~Confirms(b, s)
      BY <1>1, <1>2, <1>3, <1>6, <2>1, <2>2, <3>3 DEF Confirms
    <3>4. QED
      BY <3>2, <3>3
  <2>3. CASE ~(c = b /\ s = "confirmed")
    BY <1>1, <1>2, <1>3, <1>7, <2>1, <2>3
  <2>4. QED
    BY <2>2, <2>3
<1>10. QED
  BY <1>8, <1>9

LEMMA AnnouncedStep ==
  SInv /\ AnnouncedIffConfirmed /\ [SystemNext]_allVars => AnnouncedIffConfirmed'
<1> SUFFICES ASSUME SInv, AnnouncedIffConfirmed, [SystemNext]_allVars,
                    NEW c \in Booking
             PROVE  /\ reservation'[c] = "confirmed" => HasRow(c)' \/ c \in excused'
                    /\ HasRow(c)' => reservation'[c] \notin {"none", "requested"}
  BY DEF AnnouncedIffConfirmed, HasRow
<1>1. TypeOK
  BY DEF SInv
<1>2. /\ reservation[c] = "confirmed" => HasRow(c) \/ c \in excused
      /\ HasRow(c) => reservation[c] \notin {"none", "requested"}
  BY DEF AnnouncedIffConfirmed, HasRow
<1>3. CASE OtherStep
  <2>1. ASSUME SameKeys PROVE HasRow(c)' <=> HasRow(c)
    BY <2>1 DEF SameKeys, HasRow
  <2>2. HasRow(c)' <=> HasRow(c)
    BY <1>1, <1>3, <2>1, EnqueueRows DEF OtherStep
  <2>3. QED
    BY <1>2, <1>3, <2>2 DEF OtherStep
<1>4. QED
  BY <1>3, ReservationAnnounced, StepKinds DEF ReservationStep

\* Whatever path confirms a reservation, its booking.created row is there,
\* or the trigger passed it over when it was confirmed (the customer out of
\* reach, or an exception); and no reservation that is only requested has
\* one: for any number of bookings, and whatever staff, the member and the
\* AI do in between.
THEOREM Announcement == SystemSpec => []AnnouncedIffConfirmed
<1>1. SystemInit => AnnouncedIffConfirmed
  BY DEF SystemInit, Init, AnnouncedIffConfirmed
<1>2. QED
  BY <1>1, AnnouncedStep, SystemInvariant, PTL DEF SystemSpec
=============================================================================
