------------------------------ MODULE MCOutbox ------------------------------
(* Small instances of Outbox for TLC.                                       *)
EXTENDS Outbox

CONSTANTS w1, w2, booking, message, reply

TwoWorkers == {w1, w2}
Uniques == {booking, message}
Replies == {reply}
=============================================================================
