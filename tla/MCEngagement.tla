---------------------------- MODULE MCEngagement ----------------------------
(* Small instances of Engagement for TLC.                                   *)
EXTENDS Engagement

CONSTANTS w1, w2, b1, m1, m2, d1

OneWorker == {w1}
TwoWorkers == {w1, w2}
OneBooking == {b1}
NoBooking == {}
NoDesk == {}
OneDesk == {d1}
OneMessage == {m1}
Reached == {TRUE}
ComesAndGoes == BOOLEAN
AnyText == {"yes", "no", "text"}
PlainText == {"text"}

Cancel(b) == [name |-> "cancel_booking", booking |-> b]
Move(b) == [name |-> "request_reschedule_booking", booking |-> b]
Says(keys, pending, calls) ==
  [keys |-> keys, handover |-> "no", pending |-> pending, calls |-> calls, reply |-> "text"]
Asks(action) == Says("as fields", action, <<>>)
Does(action, confirm) ==
  Says("as fields", NoAction, <<[name |-> action.name, booking |-> action.booking, confirm |-> confirm]>>)
GivesUp == [keys |-> "as fields", handover |-> "yes", pending |-> NoAction, calls |-> <<>>, reply |-> "blank"]

\* An AI that always asks first, one that moves a booking when told to, and
\* one that does all it can do, once in the keys its instructions ask for.
PoliteAnswers == {Asks(Cancel(None))}
HastyAnswers == {Does(Move(None), "no")}
ManyAnswers == {Asks(Cancel(None)), Does(Move(None), "no"), Does(Cancel(None), "yes"), GivesUp,
                Says("as asked", Cancel(None), <<>>)}

Keys == Booking \cup Message
Numbers == 1..MaxConv
Rows == Cardinality(Keys) + MaxReplies
=============================================================================
