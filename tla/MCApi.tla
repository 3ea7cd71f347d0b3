-------------------------------- MODULE MCApi -------------------------------
(* A small instance of Api for TLC: two requests, two members of staff.     *)
EXTENDS Api, TLC

CONSTANTS s1, s2, q1, q2

TwoStaff == {s1, s2}
TwoRequests == {q1, q2}

\* Some routes of each guard, by every kind of caller.
KeyCalls == {<<"health", "nobody">>, <<"tickets", "key">>, <<"tickets", "signed key">>,
             <<"reply", "key">>, <<"tables", "key">>}
TokenCalls == {"delete", "customer", "partitions"} \X TwoStaff
AllCalls == KeyCalls \cup TokenCalls

SwapStaff == [x \in TwoStaff |-> IF x = s1 THEN s2 ELSE s1]
SwapRequests == [x \in TwoRequests |-> IF x = q1 THEN q2 ELSE q1]
Same(S) == [x \in S |-> x]
Symmetric == {f @@ g : f \in {SwapStaff, Same(TwoStaff)}, g \in {SwapRequests, Same(TwoRequests)}}
=============================================================================
