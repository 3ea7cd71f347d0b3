------------------------------- MODULE Roster -------------------------------
(***************************************************************************)
(* What the sync of members promises of a till's customers, without calls, *)
(* runs or answers that get lost: a row becomes a customer once and, when  *)
(* the customer is gone, never again; the sync keeps a customer for a      *)
(* number only at a moment when it keeps nobody for it; customers typed by *)
(* hand that are nobody's member's stay.  Nothing is promised of when.     *)
(***************************************************************************)
EXTENDS Naturals

CONSTANTS Row, Number, Guests

VARIABLES
  life,   \* life[r]: whether row r has a customer, may get one, or had its own
  kept    \* kept[r]: the number the sync keeps the customer of r for, or 0

vars == <<life, kept>>

Nobody == [r \in Row |-> 0]

TypeOK ==
  /\ life \in [Row -> {"free", "there", "gone"}]
  /\ kept \in [Row -> Number]

Init ==
  /\ life \in [Row -> {"free", "there"}]
  /\ \A r \in Guests : life[r] = "there"
  /\ kept = Nobody

Vacant(n) == \A s \in Row : kept[s] # n

\* Somebody adds a customer, or the sync makes one for a member.
Add(r) ==
  /\ life[r] = "free"
  /\ life' = [life EXCEPT ![r] = "there"]
  /\ \E n \in Number :
       /\ n = 0 \/ Vacant(n)
       /\ kept' = [kept EXCEPT ![r] = n]

\* The sync takes up again a customer of its own making.
Keep(r) ==
  /\ life[r] = "there" /\ r \notin Guests
  /\ \E n \in Number \ {0} : Vacant(n) /\ kept' = [kept EXCEPT ![r] = n]
  /\ UNCHANGED life

\* The number is taken off a customer.
Release(r) ==
  /\ kept[r] # 0
  /\ kept' = [kept EXCEPT ![r] = 0]
  /\ UNCHANGED life

Remove(r) ==
  /\ life[r] = "there" /\ r \notin Guests
  /\ life' = [life EXCEPT ![r] = "gone"]
  /\ kept' = [kept EXCEPT ![r] = 0]

\* Rows that never became customers are given up.
Waste ==
  /\ life' \in [Row -> {"free", "there", "gone"}]
  /\ \A r \in Row : life'[r] = life[r] \/ (life[r] = "free" /\ life'[r] = "gone")
  /\ UNCHANGED kept

Next ==
  \/ \E r \in Row : Add(r) \/ Keep(r) \/ Release(r) \/ Remove(r)
  \/ Waste

Spec == Init /\ [][Next]_vars
=============================================================================
