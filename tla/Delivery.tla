------------------------------ MODULE Delivery ------------------------------
(***************************************************************************)
(* What the engagement outbox promises to those who put events into it,    *)
(* without its table, its claims or its workers: an event is a job.  Runs  *)
(* of one job never overlap, a job runs at most MaxAttempts times, it is   *)
(* done only on the strength of a run that passed, and a done job is       *)
(* never run again.  A run that was interrupted, or whose outcome was not  *)
(* recorded, leaves the job open, and nothing is promised beyond that: an  *)
(* open job may stay open for ever.                                        *)
(***************************************************************************)
EXTENDS Naturals, Sequences

CONSTANT MaxAttempts

VARIABLE job      \* one record per submitted event, in the order of arrival

vars == <<job>>

State == {"open", "running", "passed", "done"}

TypeOK == job \in Seq([state : State, runs : 0..MaxAttempts])

Init == job = <<>>

Submit == job' = Append(job, [state |-> "open", runs |-> 0])

Begin(i) ==
  /\ job[i].state = "open"
  /\ job[i].runs < MaxAttempts
  /\ job' = [job EXCEPT ![i] = [state |-> "running", runs |-> @.runs + 1]]

Stop(i, outcome) ==
  /\ job[i].state = "running"
  /\ job' = [job EXCEPT ![i] = [state |-> outcome, runs |-> @.runs]]

\* The passed run is recorded, or the record of it is lost.
Acknowledge(i, outcome) ==
  /\ job[i].state = "passed"
  /\ job' = [job EXCEPT ![i] = [state |-> outcome, runs |-> @.runs]]

Next ==
  \/ Submit
  \/ \E i \in DOMAIN job :
       \/ Begin(i)
       \/ \E outcome \in {"open", "passed"} : Stop(i, outcome)
       \/ \E outcome \in {"open", "done"} : Acknowledge(i, outcome)

Spec == Init /\ [][Next]_vars
=============================================================================
