----------------------------- MODULE Engagement -----------------------------
(***************************************************************************)
(* What the engagement worker does with the events module Outbox hands it: *)
(* the handlers of worker.go, one action for each call a handler makes to  *)
(* the database, to WhatsApp or to the AI, composed with the outbox, the   *)
(* reservations whose trigger feeds it, the webhook that feeds it, and the *)
(* staff who answer the same conversations.  There is one customer.        *)
(*                                                                         *)
(* A call has three outcomes: "ok", "refused" (an error, and nothing       *)
(* happened) and "lost" (an error, although the other side did it).        *)
(***************************************************************************)
EXTENDS Outbox

CONSTANTS
  Booking, Message,
  Desk,          \* SendHumanReply requests the API may serve at a time
  AIAnswer,      \* what the model may answer
  Assisted,      \* the workers whose process is configured with an AI
  None,          \* the empty booking id
  Standing,      \* whether the customer may be reached, over time
  Text,          \* what the customer may write, as isAffirmative reads it
  MaxConv,       \* bound of the model: conversations ever created
  MaxReplies     \* bound of the model: staff replies ever requested

ASSUME BoundsAssumption == MaxConv \in Nat /\ MaxReplies \in Nat
ASSUME NoneAssumption == None \notin Booking
ASSUME StandingAssumption == Standing \subseteq BOOLEAN
ASSUME TextAssumption == Text \subseteq {"yes", "no", "text"}
ASSUME KeysAssumption ==
  /\ UniqueKey = Booking \cup Message
  /\ ReplyKey = 1..MaxConv
  /\ Booking \cap Message = {}
\* No event is ever refused for want of room.
ASSUME RoomAssumption == MaxRows >= Cardinality(UniqueKey) + MaxReplies

VARIABLES
  reservation,  \* reservations.status, "none" before it is made
  over,         \* bookings whose time is more than six hours past
  reachable,    \* the customer is an active member with a phone
  excused,      \* confirmed bookings that the trigger passed over
  conversation, \* the conversations, by creation
  newer,        \* the pairs <<c, d>> with c updated after d
  late,         \* late[c]: automated replies since a person last took c over
  run,          \* run[w]: where the handler of worker w is, and its locals
  desk,         \* desk[d]: where such a request is, and its conversation
  wrote,        \* wrote[m]: what the customer wrote, "nothing" so far
  agreed,       \* agreed[m]: actions awaiting a yes when m was written
  recorded,     \* recorded[m]: conversation_messages rows of m
  delivered,    \* delivered[i]: WhatsApp messages sent for row i
  stored,       \* stored[i]: outbound conversation_messages rows of row i
  quiet         \* rows whose handler ended well without a message stored

house == <<reservation, over, reachable, excused>>
chat == <<conversation, newer, late>>
customer == <<wrote, agreed>>
record == <<recorded, delivered, stored, quiet>>
allVars == <<vars, house, chat, run, desk, customer, record>>

BookingId == Booking \cup {None}
ReservationStatus == {"requested", "confirmed", "seated", "no_show", "cancelled"}
ConversationStatus == {"AI_ACTIVE", "WAITING_FOR_HUMAN", "HUMAN_ACTIVE", "CLOSED"}
Tool == {"cancel_booking", "request_reschedule_booking", "request_human_agent"}
Action == [name : Tool, booking : BookingId]
NoAction == [name |-> "none", booking |-> None]
Call == [name : Tool, booking : BookingId, confirm : {"yes", "no"}]
Answer == [keys : {"as asked", "as fields"}, handover : {"yes", "no"},
           pending : Action \cup {NoAction}, calls : Seq(Call), reply : {"text", "blank"}]
NoAnswer == [keys |-> "as fields", handover |-> "no", pending |-> NoAction,
             calls |-> <<>>, reply |-> "text"]
Conversation == [booking : BookingId, status : ConversationStatus, pending : Action \cup {NoAction}]
Outcome == {"ok", "lost", "refused"}
Applied(outcome) == outcome # "refused"

ASSUME AnswersAssumption == AIAnswer \subseteq Answer

Step == {"rest", "lookup", "template", "find", "create", "record", "execute", "clear",
         "think", "hand over", "escalate", "remember", "tool", "send", "take over", "store", "end"}
Run == [at : Step, booking : BookingId, conv : 0..MaxConv, status : ConversationStatus,
        pending : Action \cup {NoAction}, say : {"other", "cancelled", "rescheduled"},
        answer : Answer]
Rest == [at |-> "rest", booking |-> None, conv |-> 0, status |-> "AI_ACTIVE",
         pending |-> NoAction, say |-> "other", answer |-> NoAnswer]
RowNumber == 1..MaxRows

HouseTypeOK ==
  /\ reservation \in [Booking -> ReservationStatus \cup {"none"}]
  /\ over \subseteq Booking
  /\ reachable \in BOOLEAN
  /\ excused \subseteq Booking

ChatTypeOK ==
  /\ conversation \in Seq(Conversation)
  /\ Len(conversation) <= MaxConv
  /\ newer \subseteq (1..MaxConv) \X (1..MaxConv)
  /\ late \in [1..MaxConv -> Nat]

RecordTypeOK ==
  /\ recorded \in [Message -> Nat]
  /\ delivered \in [RowNumber -> Nat]
  /\ stored \in [RowNumber -> Nat]
  /\ quiet \subseteq RowNumber

SystemTypeOK ==
  /\ TypeOK
  /\ HouseTypeOK
  /\ ChatTypeOK
  /\ RecordTypeOK
  /\ run \in [Worker -> Run]
  /\ desk \in [Desk -> [at : {"rest", "send", "take over", "store"}, conv : 0..MaxConv]]
  /\ wrote \in [Message -> {"nothing", "yes", "no", "text"}]
  /\ agreed \in [Message -> SUBSET Action]

\* Reservations made before migration 0061 start as requests.
SystemInit ==
  /\ Init
  /\ reservation \in [Booking -> {"none", "requested"}]
  /\ over = {}
  /\ reachable \in Standing
  /\ excused = {}
  /\ conversation = <<>>
  /\ newer = {}
  /\ late = [c \in 1..MaxConv |-> 0]
  /\ run = [w \in Worker |-> Rest]
  /\ desk = [d \in Desk |-> [at |-> "rest", conv |-> 0]]
  /\ wrote = [m \in Message |-> "nothing"]
  /\ agreed = [m \in Message |-> {}]
  /\ recorded = [m \in Message |-> 0]
  /\ delivered = [i \in RowNumber |-> 0]
  /\ stored = [i \in RowNumber |-> 0]
  /\ quiet = {}

-----------------------------------------------------------------------------
(* Reservations.                                                           *)

\* Mutated form: the trigger as it would be, were it on insert only.
AnnouncedOnInsert(b, s) == s = "confirmed" /\ reservation[b] = "none" /\ reachable

\* on_reservation_whatsapp_booking_created, on an insert or an update of
\* status: a reservation newly confirmed, of an active member with a phone.
Confirms(b, s) == s = "confirmed" /\ reservation[b] # "confirmed"
Announced(b, s) == Confirms(b, s) /\ reachable

\* A statement that sets the status, with its trigger.  An exception of the
\* enqueue is a warning in the log, and the status stands; excused keeps the
\* history of that.
SetReservation(b, s) ==
  /\ reservation' = [reservation EXCEPT ![b] = s]
  /\ \E raised \in BOOLEAN :
       /\ IF Announced(b, s) /\ ~raised /\ ~Conflict(b)
          THEN Enqueue(b)
          ELSE UNCHANGED vars
       /\ excused' = CASE s # "confirmed" -> excused \ {b}
                       [] Confirms(b, s) /\ ~Conflict(b) /\ (raised \/ ~reachable) ->
                            excused \cup {b}
                       [] OTHER -> excused

Live(b) == reservation[b] \in {"requested", "confirmed"}

Book(b) ==
  /\ reservation[b] = "none"
  /\ SetReservation(b, "confirmed")
  /\ UNCHANGED <<over, reachable, chat, run, desk, customer, record>>

\* mark_reservation looks at no earlier status; cancel_my_reservation is the
\* case of a live one.
MarkReservation(b, s) ==
  /\ reservation[b] # "none"
  /\ SetReservation(b, s)
  /\ UNCHANGED <<over, reachable, chat, run, desk, customer, record>>

CheckIn(b) ==
  /\ Live(b)
  /\ SetReservation(b, "seated")
  /\ UNCHANGED <<over, reachable, chat, run, desk, customer, record>>

\* The member moves it: only one still to come, and to a later time.
UpdateMyReservation(b) ==
  /\ Live(b)
  /\ b \notin over
  /\ SetReservation(b, "confirmed")
  /\ UNCHANGED <<over, reachable, chat, run, desk, customer, record>>

TimePasses(b) ==
  /\ reservation[b] # "none"
  /\ over' = over \cup {b}
  /\ UNCHANGED <<vars, reservation, reachable, excused, chat, run, desk, customer, record>>

\* A membership is suspended, ends or is renewed; a phone is lost or given.
MemberChanges ==
  /\ reachable' \in Standing
  /\ UNCHANGED <<vars, reservation, over, excused, chat, run, desk, customer, record>>

\* booking_cancel and booking_reschedule: an update that matches no row is
\* no error.
CancelBooking(b) ==
  /\ UNCHANGED <<over, reachable>>
  /\ IF b \in Booking /\ Live(b)
     THEN SetReservation(b, "cancelled")
     ELSE UNCHANGED <<vars, reservation, excused>>

\* The slot is a timestamp of the model's choosing.
RescheduleBooking(b) ==
  /\ UNCHANGED reachable
  /\ IF b \in Booking /\ Live(b)
     THEN SetReservation(b, "confirmed") /\ over' \in {over \cup {b}, over \ {b}}
     ELSE UNCHANGED <<vars, reservation, over, excused>>

-----------------------------------------------------------------------------
(* Conversations.                                                          *)

\* updated_at = now()
Touch(c) ==
  newer' = {p \in newer : p[2] # c} \cup {<<c, d>> : d \in DOMAIN conversation \ {c}}

\* Only people write HUMAN_ACTIVE.  What a handler writes over it ends the
\* takeover, and the count goes on.
TakesOver(c, s) == s = "HUMAN_ACTIVE" /\ conversation[c].status # "HUMAN_ACTIVE"

SetConversation(c, with) ==
  /\ conversation' = [conversation EXCEPT ![c] = with]
  /\ late' = IF TakesOver(c, with.status) THEN [late EXCEPT ![c] = 0] ELSE late
  /\ Touch(c)

SetStatus(c, s) ==
  SetConversation(c, [booking |-> conversation[c].booking, status |-> s,
                      pending |-> conversation[c].pending])

SetPending(c, action) ==
  SetConversation(c, [booking |-> conversation[c].booking, status |-> conversation[c].status,
                      pending |-> action])

Open(b) == {c \in DOMAIN conversation : /\ conversation[c].booking = b
                                        /\ conversation[c].status # "CLOSED"}

\* order by updated_at desc limit 1
Latest(c, cs) == \A d \in cs \ {c} : <<c, d>> \in newer

-----------------------------------------------------------------------------
(* The customer, the webhook and the staff.                                *)

CustomerWrites(m, kind) ==
  /\ wrote[m] = "nothing"
  /\ wrote' = [wrote EXCEPT ![m] = kind]
  /\ agreed' = [agreed EXCEPT ![m] =
                  {conversation[c].pending : c \in DOMAIN conversation} \ {NoAction}]
  /\ UNCHANGED <<vars, house, chat, run, desk, record>>

\* Mutated form: the insert has no "on conflict do nothing" and no index.
AcceptEveryDelivery(m) ==
  /\ wrote[m] # "nothing"
  /\ Len(outbox) < MaxRows
  /\ outbox' = Append(outbox, [key |-> m, status |-> "pending",
                               attempts |-> 0, next_attempt_at |-> "past"])
  /\ runs' = Append(runs, 0)
  /\ UNCHANGED <<batch, handling, marks>>
  /\ UNCHANGED <<house, chat, run, desk, customer, record>>

\* Meta may deliver late, out of order and again.  The lookup by message id
\* never finds an inbound row, since they are stored without the id; the
\* unique index of the outbox is what refuses a second delivery.
AcceptWhatsAppWebhook(m) ==
  /\ wrote[m] # "nothing"
  /\ Enqueue(m)
  /\ UNCHANGED <<house, chat, run, desk, customer, record>>

Replies == {i \in DOMAIN outbox : outbox[i].key \in 1..MaxConv}

\* engagement_admin_send_whatsapp_reply
RequestReply(c) ==
  /\ Cardinality(Replies) < MaxReplies
  /\ SetStatus(c, "HUMAN_ACTIVE")
  /\ Enqueue(c)
  /\ UNCHANGED <<house, run, desk, customer, record>>

\* InboxService.SetConversationStatus: any status, from any.
SetConversationStatus(c, s) ==
  /\ conversation[c].status # s
  /\ SetStatus(c, s)
  /\ UNCHANGED <<vars, house, run, desk, customer, record>>

\* InboxService.SendHumanReply: the message first, the status and the row of
\* it after.  Any error ends it, and nobody retries.
DeskAt(d, step) == desk' = [desk EXCEPT ![d].at = step]

DeskOpens(d, c) ==
  /\ desk[d].at = "rest"
  /\ desk' = [desk EXCEPT ![d] = [at |-> "send", conv |-> c]]
  /\ UNCHANGED <<vars, house, chat, run, customer, record>>

DeskSends(d, outcome) ==
  /\ desk[d].at = "send"
  /\ DeskAt(d, IF outcome = "ok" THEN "take over" ELSE "rest")
  /\ UNCHANGED <<vars, house, chat, run, customer, record>>

DeskTakesOver(d, outcome) ==
  /\ desk[d].at = "take over"
  /\ IF Applied(outcome) THEN SetStatus(desk[d].conv, "HUMAN_ACTIVE") ELSE UNCHANGED chat
  /\ DeskAt(d, IF outcome = "ok" THEN "store" ELSE "rest")
  /\ UNCHANGED <<vars, house, run, customer, record>>

DeskStores(d, outcome) ==
  /\ desk[d].at = "store"
  /\ IF Applied(outcome) THEN Touch(desk[d].conv) /\ UNCHANGED <<conversation, late>> ELSE UNCHANGED chat
  /\ DeskAt(d, "rest")
  /\ UNCHANGED <<vars, house, run, customer, record>>

-----------------------------------------------------------------------------
(* The worker loop.                                                        *)

\* Steps of the outbox that the handlers do not see.
OutboxStep ==
  /\ \/ \E i \in DOMAIN outbox : BackoffElapses(i)
     \/ \E w \in Worker : Claim(w) \/ ClaimLost(w)
     \/ \E mark \in marks : ApplyMark(mark) \/ LoseMark(mark)
  /\ UNCHANGED <<house, chat, run, desk, customer, record>>

ProcessEvent(w, i) ==
  /\ Start(w, i)
  /\ run' = [run EXCEPT ![w] = [Rest EXCEPT !.at = "lookup"]]
  /\ UNCHANGED <<house, chat, desk, customer, record>>

WorkerDies(w) ==
  /\ Crash(w)
  /\ run' = [run EXCEPT ![w] = Rest]
  /\ UNCHANGED <<house, chat, desk, customer, record>>

EventKey(w) == outbox[handling[w]].key
ForBooking(w) == EventKey(w) \in Booking
ForMessage(w) == EventKey(w) \in Message
ForReply(w) == EventKey(w) \in 1..MaxConv

\* The handler goes on at the run r, or returns.
Continue(w, r) == run' = [run EXCEPT ![w] = r] /\ UNCHANGED vars
Return(w, verdict) == Finish(w, verdict) /\ run' = [run EXCEPT ![w] = Rest]

\* if err != nil { return err }
OrFail(w, outcome, r) ==
  IF outcome = "ok" THEN Continue(w, r) ELSE Return(w, "failed")

To(w, step) == [run[w] EXCEPT !.at = step]

\* What is left to do with an answer of the AI, in the order of the code.
Stage(r) ==
  CASE r.answer.handover = "yes" -> "escalate"
    [] r.answer.handover = "no" /\ r.answer.pending # NoAction -> "remember"
    [] r.answer.handover = "no" /\ r.answer.pending = NoAction /\ r.answer.calls # <<>> -> "tool"
    [] OTHER -> IF r.answer.reply = "text" THEN "send" ELSE "end"

With(r, answer) == [[r EXCEPT !.answer = answer] EXCEPT !.at = Stage([r EXCEPT !.answer = answer])]

\* ConversationResult has no json tags: the keys the instructions ask for do
\* not reach PendingAction and ToolCalls, only Go's field names do.
Decoded(a) ==
  IF a.keys = "as asked"
  THEN [a EXCEPT !.pending = NoAction, !.calls = <<>>]
  ELSE a

FirstNonEmpty(b, c) == IF b # None THEN b ELSE c

-----------------------------------------------------------------------------
(* The handlers, call by call.                                             *)

\* GetBooking; GetConversation and GetCustomer; GetCustomerByPhone, which
\* finds active members, and GetCustomerActiveBookings.
ActiveBookings == {b \in Booking : Live(b) /\ b \notin over}

OnlyActive ==
  IF Cardinality(ActiveBookings) = 1 THEN CHOOSE b \in ActiveBookings : TRUE ELSE None

Lookup(w, outcome) ==
  /\ run[w].at = "lookup"
  /\ ForMessage(w) /\ outcome = "ok" => reachable
  /\ OrFail(w, outcome,
       CASE ForBooking(w) -> [To(w, "template") EXCEPT !.booking = EventKey(w)]
         [] ForMessage(w) -> [To(w, "find") EXCEPT !.booking = OnlyActive]
         [] OTHER -> [To(w, "send") EXCEPT !.conv = EventKey(w)])
  /\ UNCHANGED <<house, chat, desk, customer, record>>

Delivers(w, outcome) ==
  IF Applied(outcome)
  THEN delivered' = [delivered EXCEPT ![handling[w]] = @ + 1]
  ELSE UNCHANGED delivered

\* Mutated form: the error is only logged.
TemplateRegardless(w, outcome) ==
  /\ run[w].at = "template"
  /\ Delivers(w, outcome)
  /\ Continue(w, To(w, "find"))
  /\ UNCHANGED <<house, chat, desk, customer, recorded, stored, quiet>>

\* A confirmation that WhatsApp refuses is given up, without an error.
SendTemplate(w, outcome) ==
  /\ run[w].at = "template"
  /\ Delivers(w, outcome)
  /\ Continue(w, To(w, IF outcome = "ok" THEN "find" ELSE "end"))
  /\ UNCHANGED <<house, chat, desk, customer, recorded, stored, quiet>>

\* The handler works on with conversation c, as it is now.
Found(w, c) ==
  [To(w, IF ForMessage(w) THEN "record" ELSE "store") EXCEPT
     !.conv = c, !.status = conversation'[c].status, !.pending = conversation'[c].pending]

\* engagement_find_or_create_conversation selects, and inserts if it saw
\* none: two calls at a time may both insert, no index forbids it.
FindConversation(w, outcome) ==
  /\ run[w].at = "find"
  /\ UNCHANGED chat
  /\ \/ /\ Open(run[w].booking) = {}
        /\ OrFail(w, outcome, To(w, "create"))
     \/ \E c \in Open(run[w].booking) :
          /\ Latest(c, Open(run[w].booking))
          /\ OrFail(w, outcome, Found(w, c))
  /\ UNCHANGED <<house, desk, customer, record>>

CreateConversation(w, outcome) ==
  /\ run[w].at = "create"
  /\ Len(conversation) < MaxConv
  /\ IF Applied(outcome)
     THEN /\ conversation' = Append(conversation, [booking |-> run[w].booking,
                                      status |-> "AI_ACTIVE", pending |-> NoAction])
          /\ newer' = newer \cup {<<Len(conversation) + 1, d>> : d \in DOMAIN conversation}
          /\ UNCHANGED late
     ELSE UNCHANGED chat
  /\ OrFail(w, outcome, Found(w, Len(conversation) + 1))
  /\ UNCHANGED <<house, desk, customer, record>>

\* Mutated form: nobody looks at who has the conversation.
AnswersAnybody(r, kind) ==
  CASE r.pending # NoAction /\ kind = "no" -> "clear"
    [] r.pending # NoAction /\ kind = "yes" -> "execute"
    [] OTHER -> "think"

\* After the inbound row: the status and the pending action the handler
\* read when it found the conversation decide, not those it has now.
AfterRecord(r, kind) ==
  CASE r.status \in {"HUMAN_ACTIVE", "CLOSED"} -> "end"
    [] r.status \notin {"HUMAN_ACTIVE", "CLOSED"} /\ r.pending # NoAction /\ kind = "no" -> "clear"
    [] r.status \notin {"HUMAN_ACTIVE", "CLOSED"} /\ r.pending # NoAction /\ kind = "yes" -> "execute"
    [] OTHER -> "think"

RecordInbound(w, outcome) ==
  /\ run[w].at = "record"
  /\ IF Applied(outcome)
     THEN /\ recorded' = [recorded EXCEPT ![EventKey(w)] = @ + 1]
          /\ Touch(run[w].conv)
     ELSE UNCHANGED <<recorded, newer>>
  /\ OrFail(w, outcome, To(w, AfterRecord(run[w], wrote[EventKey(w)])))
  /\ UNCHANGED <<house, conversation, late, desk, customer, delivered, stored, quiet>>

\* executeToolCall with a call that asks for no confirmation.
Perform(w, name, b) ==
  CASE name = "cancel_booking" -> CancelBooking(b) /\ UNCHANGED chat
    [] name = "request_reschedule_booking" -> RescheduleBooking(b) /\ UNCHANGED chat
    [] OTHER -> SetStatus(run[w].conv, "WAITING_FOR_HUMAN") /\ UNCHANGED <<vars, house>>

Said(name) ==
  CASE name = "cancel_booking" -> "cancelled"
    [] name = "request_reschedule_booking" -> "rescheduled"
    [] OTHER -> "other"

\* The customer said yes.  An action that failed stays pending.
ExecutePending(w, outcome) ==
  LET action == run[w].pending IN
  /\ run[w].at = "execute"
  /\ IF Applied(outcome)
     THEN Perform(w, action.name, FirstNonEmpty(action.booking, conversation[run[w].conv].booking))
     ELSE UNCHANGED <<vars, house, chat>>
  /\ run' = [run EXCEPT ![w] =
               IF outcome = "ok"
               THEN [To(w, "clear") EXCEPT !.say = Said(action.name)]
               ELSE To(w, "send")]
  /\ UNCHANGED <<desk, customer, record>>

ClearPending(w, outcome) ==
  /\ run[w].at = "clear"
  /\ IF Applied(outcome) THEN SetPending(run[w].conv, NoAction) ELSE UNCHANGED chat
  /\ OrFail(w, outcome, To(w, "send"))
  /\ UNCHANGED <<house, desk, customer, record>>

\* Without an AI the customer hears that a person will follow up.
NoAI(w) ==
  /\ run[w].at = "think"
  /\ w \notin Assisted
  /\ Continue(w, To(w, "send"))
  /\ UNCHANGED <<house, chat, desk, customer, record>>

\* The history cannot be read.
RecentMessagesFail(w) ==
  /\ run[w].at = "think"
  /\ w \in Assisted
  /\ Return(w, "failed")
  /\ UNCHANGED <<house, chat, desk, customer, record>>

ProcessConversation(w, a) ==
  /\ run[w].at = "think"
  /\ w \in Assisted
  /\ Continue(w, With(run[w], Decoded(a)))
  /\ UNCHANGED <<house, chat, desk, customer, record>>

AIFails(w) ==
  /\ run[w].at = "think"
  /\ w \in Assisted
  /\ Continue(w, To(w, "hand over"))
  /\ UNCHANGED <<house, chat, desk, customer, record>>

\* The conversation waits for a person; the error of this call is dropped.
HandOver(w, outcome) ==
  /\ run[w].at = "hand over"
  /\ IF Applied(outcome) THEN SetStatus(run[w].conv, "WAITING_FOR_HUMAN") ELSE UNCHANGED chat
  /\ Continue(w, To(w, "send"))
  /\ UNCHANGED <<house, desk, customer, record>>

Escalate(w, outcome) ==
  /\ run[w].at = "escalate"
  /\ IF Applied(outcome) THEN SetStatus(run[w].conv, "WAITING_FOR_HUMAN") ELSE UNCHANGED chat
  /\ OrFail(w, outcome, With(run[w], [run[w].answer EXCEPT !.handover = "no"]))
  /\ UNCHANGED <<house, desk, customer, record>>

RememberPending(w, outcome) ==
  /\ run[w].at = "remember"
  /\ IF Applied(outcome) THEN SetPending(run[w].conv, run[w].answer.pending) ELSE UNCHANGED chat
  /\ OrFail(w, outcome, With(run[w], [run[w].answer EXCEPT !.pending = NoAction]))
  /\ UNCHANGED <<house, desk, customer, record>>

\* executeToolCall.  A failed call is logged and the next one is made.
ExecuteToolCall(w, outcome) ==
  LET call == Head(run[w].answer.calls)
      b == conversation[run[w].conv].booking
  IN
  /\ run[w].at = "tool"
  /\ CASE ~Applied(outcome) -> UNCHANGED <<vars, house, chat>>
       [] Applied(outcome) /\ call.confirm = "yes" ->
            /\ SetPending(run[w].conv, [name |-> call.name,
                                        booking |-> FirstNonEmpty(b, call.booking)])
            /\ UNCHANGED <<vars, house>>
       [] OTHER -> Perform(w, call.name, FirstNonEmpty(call.booking, b))
  /\ run' = [run EXCEPT ![w] = With(run[w], [run[w].answer EXCEPT !.calls = Tail(@)])]
  /\ UNCHANGED <<desk, customer, record>>

\* The history IntrusionBounded speaks of.
Intrudes(w, outcome) ==
  IF Applied(outcome) /\ ForMessage(w)
  THEN late' = [late EXCEPT ![run[w].conv] = @ + 1]
  ELSE UNCHANGED late

\* Mutated form: the row is written whether or not the message went out.
SendRegardless(w, outcome) ==
  /\ run[w].at = "send"
  /\ Delivers(w, outcome)
  /\ Intrudes(w, outcome)
  /\ Continue(w, To(w, IF ForReply(w) THEN "take over" ELSE "store"))
  /\ UNCHANGED <<house, conversation, newer, desk, customer, recorded, stored, quiet>>

SendText(w, outcome) ==
  /\ run[w].at = "send"
  /\ Delivers(w, outcome)
  /\ Intrudes(w, outcome)
  /\ OrFail(w, outcome, To(w, IF ForReply(w) THEN "take over" ELSE "store"))
  /\ UNCHANGED <<house, conversation, newer, desk, customer, recorded, stored, quiet>>

TakeOver(w, outcome) ==
  /\ run[w].at = "take over"
  /\ IF Applied(outcome) THEN SetStatus(run[w].conv, "HUMAN_ACTIVE") ELSE UNCHANGED chat
  /\ OrFail(w, outcome, To(w, "store"))
  /\ UNCHANGED <<house, desk, customer, record>>

\* Mutated form: the outbound row is written, and the error of it dropped.
StoreCarelessly(w, outcome) ==
  /\ run[w].at = "store"
  /\ IF Applied(outcome)
     THEN stored' = [stored EXCEPT ![handling[w]] = @ + 1] /\ Touch(run[w].conv)
     ELSE UNCHANGED <<stored, newer>>
  /\ Return(w, "done")
  /\ UNCHANGED <<house, conversation, late, desk, customer, recorded, delivered, quiet>>

StoreOutbound(w, outcome) ==
  /\ run[w].at = "store"
  /\ IF Applied(outcome)
     THEN stored' = [stored EXCEPT ![handling[w]] = @ + 1] /\ Touch(run[w].conv)
     ELSE UNCHANGED <<stored, newer>>
  /\ Return(w, IF outcome = "ok" THEN "done" ELSE "failed")
  /\ UNCHANGED <<house, conversation, late, desk, customer, recorded, delivered, quiet>>

\* return nil with nothing stored: a person has the conversation, the AI has
\* nothing to say, or the confirmation was refused.
EndQuietly(w) ==
  /\ run[w].at = "end"
  /\ quiet' = quiet \cup {handling[w]}
  /\ Return(w, "done")
  /\ UNCHANGED <<house, chat, desk, customer, recorded, delivered, stored>>

-----------------------------------------------------------------------------
HouseStep ==
  \/ \E b \in Booking :
       \/ Book(b)
       \/ \E s \in {"confirmed", "no_show", "cancelled"} : MarkReservation(b, s)
       \/ CheckIn(b)
       \/ UpdateMyReservation(b)
       \/ TimePasses(b)
  \/ MemberChanges

CustomerStep ==
  \E m \in Message :
    \/ \E kind \in Text : CustomerWrites(m, kind)
    \/ AcceptWhatsAppWebhook(m)

StaffStep ==
  \/ \E c \in DOMAIN conversation :
       \/ RequestReply(c)
       \/ \E s \in ConversationStatus : SetConversationStatus(c, s)
       \/ \E d \in Desk : DeskOpens(d, c)
  \/ \E d \in Desk, outcome \in Outcome :
       DeskSends(d, outcome) \/ DeskTakesOver(d, outcome) \/ DeskStores(d, outcome)

HandlerStep(w) ==
  \/ \E outcome \in Outcome :
       \/ Lookup(w, outcome)
       \/ SendTemplate(w, outcome)
       \/ FindConversation(w, outcome)
       \/ CreateConversation(w, outcome)
       \/ RecordInbound(w, outcome)
       \/ ExecutePending(w, outcome)
       \/ ClearPending(w, outcome)
       \/ HandOver(w, outcome)
       \/ Escalate(w, outcome)
       \/ RememberPending(w, outcome)
       \/ ExecuteToolCall(w, outcome)
       \/ SendText(w, outcome)
       \/ TakeOver(w, outcome)
       \/ StoreOutbound(w, outcome)
  \/ \E a \in AIAnswer : ProcessConversation(w, a)
  \/ NoAI(w)
  \/ RecentMessagesFail(w)
  \/ AIFails(w)
  \/ EndQuietly(w)

SystemNext ==
  \/ HouseStep
  \/ CustomerStep
  \/ StaffStep
  \/ OutboxStep
  \/ \E w \in Worker :
       \/ \E i \in batch[w] : ProcessEvent(w, i)
       \/ HandlerStep(w)
       \/ WorkerDies(w)

SystemSpec == SystemInit /\ [][SystemNext]_allVars

-----------------------------------------------------------------------------
(* Properties.                                                             *)

\* The handlers, the trigger, the webhook and the staff leave the outbox to
\* its own rules: what is shown of module Outbox holds here.
ImplementsOutbox == Spec

\* The inbox and WhatsApp tell one story: no outbound row without a message
\* that went out for the same event, and never more messages for an event
\* than the table allows attempts.  (That one event may send several times
\* is at-least-once delivery: a row of the inbox is written after the send.)
InboxMatchesWire ==
  \A i \in RowNumber :
    /\ stored[i] <= delivered[i]
    /\ delivered[i] <= (IF i \in DOMAIN outbox THEN outbox[i].attempts ELSE 0)

\* A row that is done has had its effect, whatever calls failed, and in
\* whatever run, before: an inbound message is in the inbox; and, unless the
\* run ended quietly, a message went out and is in the inbox too.  A reply
\* that staff asked for never ends quietly.
Settled(i) ==
  outbox[i].status = "done" \/ \E m \in marks : m.row = i /\ m.to = "done"

DoneMeansHandled ==
  \A i \in DOMAIN outbox : Settled(i) =>
    /\ outbox[i].key \in Message => recorded[outbox[i].key] > 0
    /\ i \notin quiet => delivered[i] > 0 /\ stored[i] > 0
    /\ i \in quiet => outbox[i].key \notin 1..MaxConv

\* Every reservation that is confirmed, by whichever of the paths that lead
\* there, has its booking.created row, unless the trigger passed it over the
\* last time it was confirmed (its enqueue raised an exception, or the
\* customer was no active member with a phone); and none has been made for
\* one that is still a request.
AnnouncedIffConfirmed ==
  \A b \in Booking :
    LET announced == \E i \in DOMAIN outbox : outbox[i].key = b IN
    /\ reservation[b] = "confirmed" => announced \/ b \in excused
    /\ announced => reservation[b] \notin {"none", "requested"}

\* While a person has the conversation, each worker can finish the one reply
\* it has begun, and no more, however many messages the customer writes and
\* however often they are retried.  (A handler may end the takeover, see
\* TakeoverStands, and then nothing bounds the replies.)
IntrusionBounded ==
  \A c \in DOMAIN conversation :
    conversation[c].status = "HUMAN_ACTIVE" => late[c] <= Cardinality(Worker)

\* Besides the staff, only a handler that found the conversation before it
\* was taken over takes it from them: one that reads the status afterwards
\* does not, and nor does a retry.
TakeoverStands ==
  [][\A c \in DOMAIN conversation :
       conversation[c].status = "HUMAN_ACTIVE" /\ conversation'[c].status # "HUMAN_ACTIVE"
       => \/ UNCHANGED run
          \/ \E w \in Worker :
               /\ run'[w] # run[w]
               /\ run[w].conv = c
               /\ run[w].status \notin {"HUMAN_ACTIVE", "CLOSED"}]_allVars

\* "obtain explicit confirmation" (openai.go:109): a booking is changed for
\* a message only if that change was awaiting a yes when the customer wrote
\* it.  False, even for an AI that always asks: see the README.
OnlyWhatWasAgreed ==
  [][\A w \in Worker :
       run[w].at \in {"execute", "tool"} /\ run'[w] # run[w] /\ reservation' # reservation
       => run[w].pending \in agreed[EventKey(w)]]_allVars
=============================================================================
