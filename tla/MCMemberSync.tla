---------------------------- MODULE MCMemberSync ----------------------------
(* Small tills for MemberSync.                                             *)
EXTENDS MemberSync

Typed(phone, ref) == [name |-> "other", phone |-> phone, ref |-> ref, notes |-> "typed"]

\* A guest with a number nobody holds, and the second member.
SmallTill ==
  {[r \in Row |-> IF r = 1 THEN Typed(0, CHOOSE n \in Unheld : TRUE)
                  ELSE IF r = 2 THEN [Typed(2, 2) EXCEPT !.name = "full"] ELSE NoCustomer]}
EmptyTill == {[r \in Row |-> NoCustomer]}

\* The desk takes the number off a customer, or gives it a phone and leaves the
\* number as it read it, and adds the first member itself, under another name.
DeskEdits == {<<Typed(1, 0), {"phone", "ref"}>>, <<Typed(1, 0), {"phone"}>>}
AddsFirst == {Typed(1, 1)}
SecondIsActive == [m \in Member |-> IF m = 2 THEN "active" ELSE "new"]
FirstMoves == {1} \X {"active", "erased", "merged"}
=============================================================================
