---------------------------- MODULE OutboxProofs ----------------------------
(***************************************************************************)
(* Proofs about the outbox, for any number of workers, events, attempts    *)
(* and rows.                                                               *)
(*                                                                         *)
(* ExclusiveOwner is not inductive: that nobody else holds a claimed row   *)
(* says nothing of the marks still in flight, and a late mark would hand   *)
(* the row to a second worker.  OwnerInv adds that a mark in flight is the *)
(* only one of its row and that its row is still being processed.          *)
(* RunsBounded needs to know that a row waiting in a batch has an attempt  *)
(* counted that no handler has used yet: CountInv.                         *)
(***************************************************************************)
EXTENDS Outbox, SequenceTheorems, TLAPS

OwnerInv ==
  /\ \A v, w \in Worker : \A i \in DOMAIN outbox : i \in Held(v) /\ i \in Held(w) => v = w
  /\ \A w \in Worker : \A i \in Held(w) :
       outbox[i].status = "processing" /\ \A m \in marks : m.row # i
  /\ \A w \in Worker : handling[w] \notin batch[w]
  /\ \A m \in marks : outbox[m.row].status = "processing"
  /\ \A m, n \in marks : m.row = n.row => m = n

CountInv ==
  /\ \A i \in DOMAIN outbox : runs[i] <= outbox[i].attempts
  /\ \A w \in Worker : \A i \in batch[w] : runs[i] < outbox[i].attempts

IInv == TypeOK /\ OwnerInv /\ CountInv

-----------------------------------------------------------------------------
\* What a claim does to the table: it keeps the rows in place, and changes
\* exactly the oldest claimable ones.
LEMMA TakeOldestType ==
  ASSUME TypeOK, TakeOldest
  PROVE  /\ outbox' \in Seq(Row)
         /\ Len(outbox') = Len(outbox)
         /\ DOMAIN outbox' = DOMAIN outbox
         /\ Oldest(Claimable) \subseteq Claimable
         /\ \A i \in DOMAIN outbox :
              /\ i \in Oldest(Claimable) =>
                   /\ outbox[i].status \in {"pending", "failed"}
                   /\ outbox[i].attempts < MaxAttempts
                   /\ outbox'[i].key = outbox[i].key
                   /\ outbox'[i].status = "processing"
                   /\ outbox'[i].attempts = outbox[i].attempts + 1
              /\ i \notin Oldest(Claimable) => outbox'[i] = outbox[i]
<1>1. DOMAIN outbox = 1..Len(outbox) /\ Len(outbox) \in Nat
  BY DEF TypeOK
<1>2. \A i \in DOMAIN outbox : outbox[i] \in Row
  BY DEF TypeOK
<1>3. Oldest(Claimable) \subseteq Claimable
  BY DEF Oldest
<1>4. \A i \in Claimable : /\ outbox[i].status \in {"pending", "failed"}
                           /\ outbox[i].attempts < MaxAttempts
  BY DEF Claimable
<1>5. \A i \in DOMAIN outbox :
        outbox'[i] = IF i \in Oldest(Claimable)
                       THEN Claimed(outbox[i])
                       ELSE outbox[i]
  BY DEF TakeOldest
<1>6. DOMAIN outbox' = DOMAIN outbox
  BY DEF TakeOldest
<1>7. ASSUME NEW i \in DOMAIN outbox, i \in Oldest(Claimable)
      PROVE  /\ outbox'[i] \in Row
             /\ outbox'[i].key = outbox[i].key
             /\ outbox'[i].status = "processing"
             /\ outbox'[i].attempts = outbox[i].attempts + 1
  <2>1. outbox[i] \in Row /\ outbox[i].attempts < MaxAttempts
    BY <1>2, <1>3, <1>4, <1>7
  <2>2. outbox'[i] = Claimed(outbox[i])
    BY <1>5, <1>7
  <2>3. QED
    BY <2>1, <2>2, AttemptsAssumption DEF Row, Status, Claimed
<1>8. \A i \in DOMAIN outbox : outbox'[i] \in Row
  BY <1>2, <1>5, <1>7
<1>9. outbox' = [i \in 1..Len(outbox) |-> outbox'[i]]
  BY <1>1, <1>5, <1>6 DEF TakeOldest
<1>10. outbox' \in Seq(Row) /\ Len(outbox') = Len(outbox)
  BY <1>1, <1>6, <1>8, <1>9
<1>11. QED
  BY <1>3, <1>4, <1>5, <1>6, <1>7, <1>10

\* What an insert does: one more row, never handled, the others untouched.
LEMMA InsertType ==
  ASSUME TypeOK, NEW k \in Key, Insert(k)
  PROVE  /\ outbox' \in Seq(Row)
         /\ runs' \in Seq(Nat)
         /\ Len(outbox') = Len(outbox) + 1
         /\ Len(runs') = Len(outbox')
         /\ Len(outbox') <= MaxRows
         /\ DOMAIN outbox \subseteq DOMAIN outbox'
         /\ \A i \in DOMAIN outbox : outbox'[i] = outbox[i] /\ runs'[i] = runs[i]
         /\ \A i \in DOMAIN outbox' \ DOMAIN outbox :
              /\ outbox'[i].key = k
              /\ outbox'[i].attempts = 0
              /\ runs'[i] = 0
<1> DEFINE row == [key |-> k, status |-> "pending", attempts |-> 0,
                   next_attempt_at |-> "past"]
<1>1. row \in Row
  BY AttemptsAssumption DEF Row, Status
<1>2. /\ outbox' = Append(outbox, row)
      /\ runs' = Append(runs, 0)
      /\ Len(outbox) < MaxRows
  BY DEF Insert
<1>3. /\ outbox \in Seq(Row) /\ runs \in Seq(Nat)
      /\ Len(runs) = Len(outbox) /\ Len(outbox) \in Nat
  BY DEF TypeOK
<1> HIDE DEF row
<1>4. /\ outbox' \in Seq(Row) /\ Len(outbox') = Len(outbox) + 1
      /\ \A i \in 1..Len(outbox) : outbox'[i] = outbox[i]
      /\ outbox'[Len(outbox) + 1] = row
  BY <1>1, <1>2, <1>3, AppendProperties
<1>5. /\ runs' \in Seq(Nat) /\ Len(runs') = Len(runs) + 1
      /\ \A i \in 1..Len(runs) : runs'[i] = runs[i]
      /\ runs'[Len(runs) + 1] = 0
  BY <1>2, <1>3, AppendProperties
<1>6. DOMAIN outbox = 1..Len(outbox) /\ DOMAIN outbox' = 1..(Len(outbox) + 1)
  BY <1>3, <1>4
<1>7. \A i \in DOMAIN outbox' \ DOMAIN outbox : i = Len(outbox) + 1
  BY <1>3, <1>6
<1>8. row.key = k /\ row.attempts = 0
  BY DEF row
<1>9. QED
  BY <1>2, <1>3, <1>4, <1>5, <1>6, <1>7, <1>8, RowsAssumption

\* What a mark does when it arrives: it writes the status of one row.
LEMMA ApplyMarkType ==
  ASSUME TypeOK, NEW m \in marks, ApplyMark(m)
  PROVE  /\ outbox' \in Seq(Row)
         /\ Len(outbox') = Len(outbox)
         /\ DOMAIN outbox' = DOMAIN outbox
         /\ m.row \in DOMAIN outbox
         /\ outbox'[m.row].status = m.to
         /\ \A i \in DOMAIN outbox : /\ outbox'[i].attempts = outbox[i].attempts
                                     /\ outbox'[i].key = outbox[i].key
                                     /\ i # m.row => outbox'[i] = outbox[i]
<1>1. /\ outbox \in Seq(Row) /\ m.row \in DOMAIN outbox /\ m.to \in {"done", "failed"}
      /\ Len(outbox) \in Nat /\ DOMAIN outbox = 1..Len(outbox)
  BY DEF TypeOK, Mark
<1>2. outbox[m.row] \in Row
  BY <1>1
<1>3. /\ Marked(outbox[m.row], m.to) \in Row
      /\ Marked(outbox[m.row], m.to).status = m.to
      /\ Marked(outbox[m.row], m.to).attempts = outbox[m.row].attempts
      /\ Marked(outbox[m.row], m.to).key = outbox[m.row].key
  BY <1>1, <1>2 DEF Marked, Row, Status
<1>4. outbox' = [outbox EXCEPT ![m.row] = Marked(outbox[m.row], m.to)]
  BY DEF ApplyMark
<1>5. QED
  BY <1>1, <1>3, <1>4

LEMMA BackoffType ==
  ASSUME TypeOK, NEW i \in DOMAIN outbox, BackoffElapses(i)
  PROVE  /\ outbox' \in Seq(Row)
         /\ Len(outbox') = Len(outbox)
         /\ DOMAIN outbox' = DOMAIN outbox
         /\ \A j \in DOMAIN outbox : /\ outbox'[j].key = outbox[j].key
                                     /\ outbox'[j].status = outbox[j].status
                                     /\ outbox'[j].attempts = outbox[j].attempts
<1>1. outbox \in Seq(Row) /\ Len(outbox) \in Nat /\ DOMAIN outbox = 1..Len(outbox)
  BY DEF TypeOK
<1>2. \A j \in DOMAIN outbox : outbox[j] \in Row
  BY <1>1
<1>3. /\ [outbox[i] EXCEPT !.next_attempt_at = "past"] \in Row
      /\ [outbox[i] EXCEPT !.next_attempt_at = "past"].key = outbox[i].key
      /\ [outbox[i] EXCEPT !.next_attempt_at = "past"].status = outbox[i].status
      /\ [outbox[i] EXCEPT !.next_attempt_at = "past"].attempts = outbox[i].attempts
  BY <1>2 DEF Row
<1>4. outbox' = [outbox EXCEPT ![i] = [outbox[i] EXCEPT !.next_attempt_at = "past"]]
  BY DEF BackoffElapses
<1>5. QED
  BY <1>1, <1>3, <1>4

-----------------------------------------------------------------------------
(* Type correctness.                                                       *)

LEMMA TypeInit == Init => TypeOK
  BY RowsAssumption DEF Init, TypeOK

LEMMA TypeStep == TypeOK /\ [Next]_vars => TypeOK'
<1> SUFFICES ASSUME TypeOK, [Next]_vars PROVE TypeOK'
  OBVIOUS
<1>0. DOMAIN outbox = 1..Len(outbox) /\ Len(outbox) \in Nat /\ DOMAIN runs = DOMAIN outbox
  BY DEF TypeOK
<1>1. ASSUME NEW k \in Key, Enqueue(k) PROVE TypeOK'
  <2>1. Insert(k) /\ UNCHANGED <<batch, handling, marks>>
    BY <1>1 DEF Enqueue
  <2>2. QED
    BY <2>1, InsertType DEF TypeOK
<1>2. ASSUME NEW i \in DOMAIN outbox, BackoffElapses(i) PROVE TypeOK'
  <2>1. UNCHANGED <<batch, handling, marks, runs>>
    BY <1>2 DEF BackoffElapses
  <2>2. QED
    BY <1>2, <2>1, BackoffType DEF TypeOK
<1>3. ASSUME NEW w \in Worker, Claim(w) PROVE TypeOK'
  <2>1. TakeOldest /\ batch' = [batch EXCEPT ![w] = Oldest(Claimable)]
        /\ UNCHANGED <<handling, marks, runs>>
    BY <1>3 DEF Claim
  <2>2. Oldest(Claimable) \subseteq DOMAIN outbox
    BY DEF Oldest, Claimable
  <2>3. QED
    BY <2>1, <2>2, TakeOldestType DEF TypeOK
<1>4. ASSUME NEW w \in Worker, ClaimLost(w) PROVE TypeOK'
  <2>1. TakeOldest /\ UNCHANGED <<batch, handling, marks, runs>>
    BY <1>4 DEF ClaimLost
  <2>2. QED
    BY <2>1, TakeOldestType DEF TypeOK
<1>5. ASSUME NEW w \in Worker, NEW i \in batch[w], Start(w, i) PROVE TypeOK'
  <2>1. i \in DOMAIN outbox
    BY DEF TypeOK
  <2>2. runs' \in Seq(Nat) /\ Len(runs') = Len(runs)
    BY <1>0, <1>5, <2>1 DEF Start, TypeOK
  <2>3. QED
    BY <1>5, <2>1, <2>2 DEF Start, TypeOK
<1>6. ASSUME NEW w \in Worker, NEW v \in {"done", "failed"}, Finish(w, v) PROVE TypeOK'
  <2>1. handling[w] \in DOMAIN outbox /\ handling[w] \in 1..MaxRows
    BY <1>0, <1>6, RowsAssumption DEF Finish, TypeOK
  <2>2. [row |-> handling[w], to |-> v] \in Mark
    BY <2>1 DEF Mark
  <2>3. QED
    BY <1>6, <2>1, <2>2 DEF Finish, TypeOK
<1>7. ASSUME NEW w \in Worker, Crash(w) PROVE TypeOK'
  BY <1>7 DEF Crash, TypeOK
<1>8. ASSUME NEW m \in marks, ApplyMark(m) PROVE TypeOK'
  <2>1. marks' = marks \ {m} /\ UNCHANGED <<batch, handling, runs>>
    BY <1>8 DEF ApplyMark
  <2>2. QED
    BY <1>8, <2>1, ApplyMarkType DEF TypeOK
<1>9. ASSUME NEW m \in marks, LoseMark(m) PROVE TypeOK'
  BY <1>9 DEF LoseMark, TypeOK
<1>10. CASE UNCHANGED vars
  BY <1>10 DEF vars, TypeOK
<1>11. QED
  BY <1>1, <1>2, <1>3, <1>4, <1>5, <1>6, <1>7, <1>8, <1>9, <1>10 DEF Next

\* The variables keep their types, for any number of workers and rows.
THEOREM TypeCorrect == Spec => []TypeOK
  BY TypeInit, TypeStep, PTL DEF Spec

-----------------------------------------------------------------------------
(* Exclusive ownership.                                                    *)

\* Who holds row i, without the IF.
LEMMA HeldIs ==
  ASSUME TypeOK, NEW w \in Worker, NEW i
  PROVE  i \in Held(w) <=> i \in batch[w] \/ (handling[w] = i /\ handling[w] # 0)
  BY DEF Held, TypeOK

LEMMA HeldInTable ==
  ASSUME TypeOK, NEW w \in Worker PROVE Held(w) \subseteq DOMAIN outbox
  BY DEF Held, TypeOK

LEMMA OwnerImplies == TypeOK /\ OwnerInv => ExclusiveOwner
  BY HeldInTable DEF OwnerInv, ExclusiveOwner, InFlight

LEMMA OwnerInit == Init => OwnerInv
  BY DEF Init, OwnerInv, Held

LEMMA OwnerStep == TypeOK /\ TypeOK' /\ OwnerInv /\ [Next]_vars => OwnerInv'
<1> SUFFICES ASSUME TypeOK, TypeOK', OwnerInv, [Next]_vars PROVE OwnerInv'
  OBVIOUS
<1>h. \A w \in Worker : \A i : i \in Held(w) <=> i \in batch[w] \/ (handling[w] = i /\ handling[w] # 0)
  BY HeldIs
<1>hp. \A w \in Worker : \A i : i \in Held(w)' <=> i \in batch'[w] \/ (handling'[w] = i /\ handling'[w] # 0)
  BY DEF Held, TypeOK
<1>t. /\ \A w \in Worker : batch[w] \subseteq DOMAIN outbox /\ handling[w] \in {0} \cup DOMAIN outbox
      /\ \A m \in marks : m.row \in DOMAIN outbox
      /\ DOMAIN outbox \subseteq Nat \ {0}
  BY DEF TypeOK
\* Nothing but the table changes, and no row that is being processed.
<1>table. ASSUME UNCHANGED <<batch, handling>>, marks' \subseteq marks,
                 \A i \in DOMAIN outbox : outbox[i].status = "processing"
                   => outbox'[i].status = "processing" \/ \E m \in marks \ marks' : m.row = i,
                 DOMAIN outbox \subseteq DOMAIN outbox'
          PROVE  OwnerInv'
  <2>1. \A w \in Worker : \A i : i \in Held(w)' <=> i \in Held(w)
    BY <1>h, <1>hp, <1>table
  <2>2. \A v, w \in Worker : \A i \in DOMAIN outbox' : i \in Held(v)' /\ i \in Held(w)' => v = w
    BY <2>1, HeldInTable DEF OwnerInv
  <2>3. \A w \in Worker : \A i \in Held(w)' :
          outbox'[i].status = "processing" /\ \A m \in marks' : m.row # i
    BY <2>1, <1>table, HeldInTable DEF OwnerInv
  <2>4. \A m \in marks' : outbox'[m.row].status = "processing"
    BY <1>table, <1>t DEF OwnerInv
  <2>5. QED
    BY <2>2, <2>3, <2>4, <1>table DEF OwnerInv
<1>1. ASSUME NEW k \in Key, Enqueue(k) PROVE OwnerInv'
  BY <1>1, <1>table, InsertType DEF Enqueue
<1>2. ASSUME NEW i \in DOMAIN outbox, BackoffElapses(i) PROVE OwnerInv'
  <2>1. UNCHANGED <<batch, handling, marks>>
    BY <1>2 DEF BackoffElapses
  <2>2. QED
    BY <1>2, <2>1, <1>table, BackoffType
<1>3. ASSUME NEW u \in Worker, Claim(u) PROVE OwnerInv'
  <2>1. /\ TakeOldest /\ UNCHANGED <<handling, marks>>
        /\ batch' = [batch EXCEPT ![u] = Oldest(Claimable)]
        /\ handling[u] = 0 /\ batch[u] = {}
    BY <1>3 DEF Claim, Idle
  <2>2. /\ \A i \in Oldest(Claimable) : /\ i \in DOMAIN outbox
                                        /\ outbox[i].status # "processing"
                                        /\ outbox'[i].status = "processing"
        /\ \A i \in DOMAIN outbox : outbox[i].status = "processing"
                                      => outbox'[i].status = "processing"
        /\ DOMAIN outbox' = DOMAIN outbox
    BY <2>1, TakeOldestType DEF Claimable
  <2>3. \A w \in Worker : \A i : i \in Held(w)' <=>
          (w # u /\ i \in Held(w)) \/ (w = u /\ i \in Oldest(Claimable))
    BY <2>1, <1>h, <1>hp DEF TypeOK
  <2>4. \A w \in Worker : \A i \in Held(w) : i \notin Oldest(Claimable)
    BY <2>2 DEF OwnerInv
  <2>5. \A v, w \in Worker : \A i \in DOMAIN outbox' : i \in Held(v)' /\ i \in Held(w)' => v = w
    BY <2>2, <2>3, <2>4 DEF OwnerInv
  <2>6. \A w \in Worker : \A i \in Held(w)' :
          outbox'[i].status = "processing" /\ \A m \in marks' : m.row # i
    BY <2>1, <2>2, <2>3, HeldInTable DEF OwnerInv
  <2>7. \A w \in Worker : handling'[w] \notin batch'[w]
    <3>1. 0 \notin Oldest(Claimable)
      BY <2>2, <1>t
    <3>2. QED
      BY <2>1, <3>1 DEF OwnerInv, TypeOK
  <2>8. \A m \in marks' : outbox'[m.row].status = "processing"
    BY <2>1, <2>2, <1>t DEF OwnerInv
  <2>9. QED
    BY <2>1, <2>5, <2>6, <2>7, <2>8 DEF OwnerInv
<1>4. ASSUME NEW w \in Worker, ClaimLost(w) PROVE OwnerInv'
  <2>1. TakeOldest /\ UNCHANGED <<batch, handling, marks>>
    BY <1>4 DEF ClaimLost
  <2>2. QED
    BY <2>1, <1>table, TakeOldestType
<1>5. ASSUME NEW u \in Worker, NEW r \in batch[u], Start(u, r) PROVE OwnerInv'
  <2>1. /\ handling[u] = 0 /\ UNCHANGED <<outbox, marks>>
        /\ batch' = [batch EXCEPT ![u] = @ \ {r}]
        /\ handling' = [handling EXCEPT ![u] = r]
    BY <1>5 DEF Start
  <2>2. \A w \in Worker : \A i : i \in Held(w)' => i \in Held(w)
    BY <2>1, <1>h, <1>hp, <1>t DEF TypeOK
  <2>3. \A w \in Worker : handling'[w] \notin batch'[w]
    BY <2>1 DEF OwnerInv, TypeOK
  <2>4. QED
    BY <2>1, <2>2, <2>3 DEF OwnerInv
<1>6. ASSUME NEW u \in Worker, NEW v \in {"done", "failed"}, Finish(u, v) PROVE OwnerInv'
  <2> DEFINE new == [row |-> handling[u], to |-> v]
  <2>1. /\ handling[u] # 0 /\ UNCHANGED <<outbox, batch>>
        /\ handling' = [handling EXCEPT ![u] = 0]
        /\ marks' = marks \cup {new}
    BY <1>6 DEF Finish
  <2>2. handling[u] \in Held(u) /\ new.row = handling[u]
    BY <2>1, <1>h
  <2>3. \A w \in Worker : \A i : i \in Held(w)' => i \in Held(w) /\ i # handling[u]
    <3>1. ASSUME NEW w \in Worker, NEW i, i \in Held(w)'
          PROVE  i \in Held(w) /\ (w = u => i # handling[u])
      BY <2>1, <3>1, <1>h, <1>hp DEF TypeOK, OwnerInv
    <3>2. QED
      BY <2>2, <3>1, HeldInTable DEF OwnerInv
  <2>4. \A m, n \in marks' : m.row = n.row => m = n
    BY <2>1, <2>2 DEF OwnerInv
  <2>5. \A m \in marks' : outbox'[m.row].status = "processing"
    BY <2>1, <2>2 DEF OwnerInv
  <2>6. \A w \in Worker : \A i \in Held(w)' :
          outbox'[i].status = "processing" /\ \A m \in marks' : m.row # i
    BY <2>1, <2>2, <2>3 DEF OwnerInv
  <2>7. \A w \in Worker : handling'[w] \notin batch'[w]
    BY <2>1, <1>t DEF OwnerInv, TypeOK
  <2>8. QED
    BY <2>1, <2>3, <2>4, <2>5, <2>6, <2>7 DEF OwnerInv
<1>7. ASSUME NEW u \in Worker, Crash(u) PROVE OwnerInv'
  <2>1. /\ UNCHANGED <<outbox, marks>>
        /\ batch' = [batch EXCEPT ![u] = {}]
        /\ handling' = [handling EXCEPT ![u] = 0]
    BY <1>7 DEF Crash
  <2>2. \A w \in Worker : \A i : i \in Held(w)' => i \in Held(w)
    BY <2>1, <1>h, <1>hp DEF TypeOK
  <2>3. \A w \in Worker : handling'[w] \notin batch'[w]
    BY <2>1 DEF OwnerInv, TypeOK
  <2>4. QED
    BY <2>1, <2>2, <2>3 DEF OwnerInv
<1>8. ASSUME NEW m \in marks, ApplyMark(m) PROVE OwnerInv'
  <2>1. marks' = marks \ {m} /\ UNCHANGED <<batch, handling>>
    BY <1>8 DEF ApplyMark
  <2>2. QED
    BY <1>8, <2>1, <1>table, ApplyMarkType
<1>9. ASSUME NEW m \in marks, LoseMark(m) PROVE OwnerInv'
  BY <1>9, <1>table DEF LoseMark
<1>10. CASE UNCHANGED vars
  BY <1>10, <1>table DEF vars
<1>11. QED
  BY <1>1, <1>2, <1>3, <1>4, <1>5, <1>6, <1>7, <1>8, <1>9, <1>10 DEF Next

-----------------------------------------------------------------------------
(* Bounded runs.                                                           *)

LEMMA Counters ==
  ASSUME TypeOK
  PROVE  /\ DOMAIN runs = DOMAIN outbox
         /\ \A i \in DOMAIN outbox : /\ outbox[i].attempts \in 0..MaxAttempts
                                     /\ outbox[i].attempts \in Nat
                                     /\ runs[i] \in Nat
<1>1. /\ outbox \in Seq(Row) /\ runs \in Seq(Nat) /\ Len(runs) = Len(outbox)
  BY DEF TypeOK
<1>2. DOMAIN runs = DOMAIN outbox
  BY <1>1
<1>3. \A i \in DOMAIN outbox : outbox[i] \in Row /\ runs[i] \in Nat
  BY <1>1, <1>2
<1>4. \A i \in DOMAIN outbox : outbox[i].attempts \in 0..MaxAttempts
  BY <1>3 DEF Row
<1>5. QED
  BY <1>2, <1>3, <1>4, AttemptsAssumption

LEMMA CountInit == Init => CountInv
  BY DEF Init, CountInv

LEMMA CountStep == TypeOK /\ OwnerInv /\ CountInv /\ [Next]_vars => CountInv'
<1> SUFFICES ASSUME TypeOK, OwnerInv, CountInv, [Next]_vars PROVE CountInv'
  OBVIOUS
<1>t. /\ \A w \in Worker : batch[w] \subseteq DOMAIN outbox
      /\ \A i \in DOMAIN outbox : outbox[i].attempts \in Nat /\ runs[i] \in Nat
      /\ DOMAIN runs = DOMAIN outbox
  BY Counters DEF TypeOK
\* The table counts no attempt back, and no handler starts.
<1>table. ASSUME UNCHANGED <<batch, runs>>, DOMAIN outbox' = DOMAIN outbox,
                 \A i \in DOMAIN outbox : outbox'[i].attempts \in
                    {outbox[i].attempts, outbox[i].attempts + 1}
          PROVE  CountInv'
  BY <1>table, <1>t DEF CountInv
<1>1. ASSUME NEW k \in Key, Enqueue(k) PROVE CountInv'
  BY <1>1, <1>t, InsertType DEF Enqueue, CountInv
<1>2. ASSUME NEW i \in DOMAIN outbox, BackoffElapses(i) PROVE CountInv'
  <2>1. UNCHANGED <<batch, runs>>
    BY <1>2 DEF BackoffElapses
  <2>2. QED
    BY <1>2, <2>1, <1>table, BackoffType
<1>3. ASSUME NEW u \in Worker, Claim(u) PROVE CountInv'
  <2>1. TakeOldest /\ UNCHANGED runs /\ batch' = [batch EXCEPT ![u] = Oldest(Claimable)]
    BY <1>3 DEF Claim
  <2>2. \A i \in DOMAIN outbox : runs'[i] <= outbox'[i].attempts
    BY <2>1, <1>t, TakeOldestType DEF CountInv
  <2>3. \A i \in Oldest(Claimable) : i \in DOMAIN outbox /\ runs'[i] < outbox'[i].attempts
    BY <2>1, <1>t, TakeOldestType DEF CountInv, Claimable
  <2>4. ASSUME NEW w \in Worker, w # u, NEW i \in batch[w]
        PROVE  runs'[i] < outbox'[i].attempts
    BY <2>1, <2>4, <1>t, TakeOldestType DEF CountInv
  <2>5. \A w \in Worker : batch'[w] = IF w = u THEN Oldest(Claimable) ELSE batch[w]
    BY <2>1 DEF TypeOK
  <2>6. DOMAIN outbox' = DOMAIN outbox
    BY <2>1, TakeOldestType
  <2>7. QED
    BY <2>2, <2>3, <2>4, <2>5, <2>6 DEF CountInv
<1>4. ASSUME NEW w \in Worker, ClaimLost(w) PROVE CountInv'
  <2>1. TakeOldest /\ UNCHANGED <<batch, runs>>
    BY <1>4 DEF ClaimLost
  <2>2. QED
    BY <2>1, <1>table, TakeOldestType
<1>5. ASSUME NEW u \in Worker, NEW r \in batch[u], Start(u, r) PROVE CountInv'
  <2>1. /\ outbox' = outbox /\ r \in DOMAIN outbox
        /\ batch' = [batch EXCEPT ![u] = @ \ {r}]
        /\ runs' = [runs EXCEPT ![r] = @ + 1]
    BY <1>5, <1>t DEF Start
  <2>2. \A w \in Worker : \A i \in batch'[w] : i # r /\ i \in batch[w]
    BY <2>1, <1>t, HeldIs DEF OwnerInv, TypeOK
  <2>3. runs[r] < outbox[r].attempts
    BY DEF CountInv
  <2>4. \A i \in DOMAIN outbox : runs'[i] <= outbox'[i].attempts
    BY <2>1, <2>3, <1>t DEF CountInv
  <2>5. \A w \in Worker : \A i \in batch'[w] : runs'[i] < outbox'[i].attempts
    BY <2>1, <2>2, <1>t DEF CountInv
  <2>6. QED
    BY <2>1, <2>4, <2>5 DEF CountInv
<1>6. ASSUME NEW w \in Worker, NEW v \in {"done", "failed"}, Finish(w, v) PROVE CountInv'
  BY <1>6 DEF Finish, CountInv
<1>7. ASSUME NEW w \in Worker, Crash(w) PROVE CountInv'
  BY <1>7 DEF Crash, CountInv, TypeOK
<1>8. ASSUME NEW m \in marks, ApplyMark(m) PROVE CountInv'
  <2>1. UNCHANGED <<batch, runs>>
    BY <1>8 DEF ApplyMark
  <2>2. QED
    BY <1>8, <2>1, <1>table, ApplyMarkType
<1>9. ASSUME NEW m \in marks, LoseMark(m) PROVE CountInv'
  BY <1>9 DEF LoseMark, CountInv
<1>10. CASE UNCHANGED vars
  BY <1>10 DEF vars, CountInv
<1>11. QED
  BY <1>1, <1>2, <1>3, <1>4, <1>5, <1>6, <1>7, <1>8, <1>9, <1>10 DEF Next

LEMMA InvariantHolds == Spec => []IInv
<1>1. Init => IInv
  BY TypeInit, OwnerInit, CountInit DEF IInv
<1>2. IInv /\ [Next]_vars => IInv'
  BY TypeStep, OwnerStep, CountStep DEF IInv
<1>3. QED
  BY <1>1, <1>2, PTL DEF Spec

\* No event is ever in the hands of two workers, nor handled while a verdict
\* on it is still on its way, whatever crashes and lost calls there are.
THEOREM Ownership == Spec => []ExclusiveOwner
  BY InvariantHolds, OwnerImplies, PTL DEF IInv

\* No handler is started more often than claims were counted, and those are
\* capped at MaxAttempts.
THEOREM BoundedRuns == Spec => []RunsBounded
<1>1. IInv => RunsBounded
  BY Counters, AttemptsAssumption DEF IInv, CountInv, RunsBounded
<1>2. QED
  BY <1>1, InvariantHolds, PTL

-----------------------------------------------------------------------------
(* A row that is done stays done.                                          *)

LEMMA DoneStep ==
  TypeOK /\ OwnerInv /\ [Next]_vars
    => \A i \in DOMAIN outbox : outbox[i].status = "done" => outbox'[i].status = "done"
<1> SUFFICES ASSUME TypeOK, OwnerInv, [Next]_vars,
                    NEW i \in DOMAIN outbox, outbox[i].status = "done"
             PROVE  outbox'[i].status = "done"
  OBVIOUS
<1>1. ASSUME NEW k \in Key, Enqueue(k) PROVE outbox'[i] = outbox[i]
  BY <1>1, InsertType DEF Enqueue
<1>2. ASSUME NEW j \in DOMAIN outbox, BackoffElapses(j) PROVE outbox'[i].status = "done"
  BY <1>2, BackoffType
<1>3. ASSUME NEW w \in Worker, Claim(w) \/ ClaimLost(w) PROVE outbox'[i].status = "done"
  BY <1>3, TakeOldestType DEF Claim, ClaimLost
<1>4. ASSUME NEW m \in marks, ApplyMark(m) PROVE outbox'[i].status = "done"
  <2>1. m.row # i
    BY DEF OwnerInv
  <2>2. QED
    BY <1>4, <2>1, ApplyMarkType
<1>5. ASSUME UNCHANGED outbox PROVE outbox'[i].status = "done"
  BY <1>5
<1>6. QED
  BY <1>1, <1>2, <1>3, <1>4, <1>5
  DEF Next, vars, Start, Finish, Crash, LoseMark

\* No mark that arrives late and no second claim reopens a row that is done.
THEOREM DoneFinal == Spec => DoneIsFinal
  BY DoneStep, InvariantHolds, PTL DEF Spec, DoneIsFinal, IInv

-----------------------------------------------------------------------------
(* One row for each booking and each inbound message.                      *)

LEMMA OneRowStep == TypeOK /\ OneRowPerKey /\ [Next]_vars => OneRowPerKey'
<1> SUFFICES ASSUME TypeOK, OneRowPerKey, [Next]_vars PROVE OneRowPerKey'
  OBVIOUS
<1>1. ASSUME NEW k \in Key, Enqueue(k) PROVE OneRowPerKey'
  <2>1. k \in UniqueKey => \A i \in DOMAIN outbox : outbox[i].key # k
    BY <1>1 DEF Enqueue, Insert, Conflict
  <2>2. \A i, j \in DOMAIN outbox' \ DOMAIN outbox : i = j
    <3>1. DOMAIN outbox = 1..Len(outbox) /\ Len(outbox) \in Nat
      BY DEF TypeOK
    <3>2. DOMAIN outbox' = 1..(Len(outbox) + 1)
      BY <1>1, <3>1, InsertType DEF Enqueue
    <3>3. QED
      BY <3>1, <3>2
  <2>3. QED
    BY <1>1, <2>1, <2>2, InsertType DEF Enqueue, OneRowPerKey
<1>2. ASSUME DOMAIN outbox' = DOMAIN outbox,
             \A i \in DOMAIN outbox : outbox'[i].key = outbox[i].key
      PROVE  OneRowPerKey'
  BY <1>2 DEF OneRowPerKey
<1>3. ASSUME NEW i \in DOMAIN outbox, BackoffElapses(i) PROVE OneRowPerKey'
  BY <1>2, <1>3, BackoffType
<1>4. ASSUME NEW w \in Worker, Claim(w) \/ ClaimLost(w) PROVE OneRowPerKey'
  BY <1>2, <1>4, TakeOldestType DEF Claim, ClaimLost
<1>5. ASSUME NEW m \in marks, ApplyMark(m) PROVE OneRowPerKey'
  BY <1>2, <1>5, ApplyMarkType
<1>6. ASSUME UNCHANGED outbox PROVE OneRowPerKey'
  BY <1>2, <1>6
<1>7. QED
  BY <1>1, <1>3, <1>4, <1>5, <1>6 DEF Next, vars, Start, Finish, Crash, LoseMark

\* A webhook delivered again, or a trigger that fires again, adds no second
\* event for the message or the booking.
THEOREM OneRow == Spec => []OneRowPerKey
<1>1. Init => OneRowPerKey
  BY DEF Init, OneRowPerKey
<1>2. QED
  BY <1>1, OneRowStep, TypeCorrect, PTL DEF Spec

-----------------------------------------------------------------------------
(* The outbox implements Delivery.                                         *)

\* The four states of a job, told apart by the table, the workers and the
\* marks in flight.
JobStates ==
  \A i \in DOMAIN outbox :
    /\ outbox[i].status = "done" => JobState(i) = "done"
    /\ Running(i) => JobState(i) = "running" /\ outbox[i].status = "processing"
    /\ Passed(i) => JobState(i) = "passed" /\ outbox[i].status = "processing"
    /\ outbox[i].status # "done" /\ ~Running(i) /\ ~Passed(i) => JobState(i) = "open"

LEMMA JobStatesHold == TypeOK /\ OwnerInv => JobStates
<1> SUFFICES ASSUME TypeOK, OwnerInv, NEW i \in DOMAIN outbox
             PROVE  /\ outbox[i].status = "done" => JobState(i) = "done"
                    /\ Running(i) => JobState(i) = "running" /\ outbox[i].status = "processing"
                    /\ Passed(i) => JobState(i) = "passed" /\ outbox[i].status = "processing"
                    /\ outbox[i].status # "done" /\ ~Running(i) /\ ~Passed(i)
                         => JobState(i) = "open"
  BY DEF JobStates
<1>1. i # 0
  BY DEF TypeOK
<1>2. Running(i) => outbox[i].status = "processing" /\ \A m \in marks : m.row # i
  BY <1>1, HeldIs DEF Running, OwnerInv
<1>3. Passed(i) => outbox[i].status = "processing" /\ ~Running(i)
  BY <1>2 DEF Passed, OwnerInv
<1>4. QED
  BY <1>2, <1>3 DEF JobState, Passed

\* A step that leaves state and runs of every job alone is a stutter; one
\* that changes those of job i alone changes one element of the sequence.
LEMMA JobsFrame ==
  ASSUME TypeOK, TypeOK', NEW S \in SUBSET DOMAIN outbox, DOMAIN outbox' = DOMAIN outbox,
         \A j \in DOMAIN outbox \ S : JobState(j)' = JobState(j) /\ runs'[j] = runs[j]
  PROVE  /\ S = {} => Jobs' = Jobs
         /\ \A i \in S : S = {i} =>
              Jobs' = [Jobs EXCEPT ![i] = [state |-> JobState(i)', runs |-> runs'[i]]]
  BY DEF Jobs

LEMMA DeliveryInit == Init => D!Init
  BY DEF Init, D!Init, Jobs

LEMMA DeliveryStep ==
  TypeOK /\ TypeOK' /\ OwnerInv /\ OwnerInv' /\ CountInv /\ [Next]_vars
    => D!Next \/ Jobs' = Jobs
<1> SUFFICES ASSUME TypeOK, TypeOK', OwnerInv, OwnerInv', CountInv, [Next]_vars
             PROVE  D!Next \/ Jobs' = Jobs
  OBVIOUS
<1>t. /\ DOMAIN Jobs = DOMAIN outbox
      /\ \A i \in DOMAIN outbox : Jobs[i].state = JobState(i) /\ Jobs[i].runs = runs[i]
      /\ DOMAIN outbox = 1..Len(outbox) /\ Len(outbox) \in Nat /\ 0 \notin DOMAIN outbox
  BY DEF Jobs, TypeOK
<1>p. JobStates /\ JobStates'
  BY JobStatesHold, PTL
\* The job of row r goes to state s and nothing else changes.
<1>one. ASSUME NEW r \in DOMAIN outbox, DOMAIN outbox' = DOMAIN outbox,
               \A j \in DOMAIN outbox : j # r => JobState(j)' = JobState(j) /\ runs'[j] = runs[j]
        PROVE  Jobs' = [Jobs EXCEPT ![r] = [state |-> JobState(r)', runs |-> runs'[r]]]
  BY <1>one, JobsFrame
<1>none. ASSUME DOMAIN outbox' = DOMAIN outbox,
                \A j \in DOMAIN outbox : JobState(j)' = JobState(j) /\ runs'[j] = runs[j]
         PROVE  Jobs' = Jobs
  BY <1>none, JobsFrame
<1>1. ASSUME NEW k \in Key, Enqueue(k) PROVE D!Next \/ Jobs' = Jobs
  <2>1. Insert(k) /\ UNCHANGED <<batch, handling, marks>>
    BY <1>1 DEF Enqueue
  <2>2. \A i \in DOMAIN outbox : JobState(i)' = JobState(i)
    BY <2>1, InsertType DEF JobState, Running, Passed
  <2>n. PICK n \in Nat : n = Len(outbox) + 1
    BY <1>t
  <2>3. DOMAIN outbox' = 1..n /\ n \in DOMAIN outbox' \ DOMAIN outbox
    BY <2>1, <2>n, <1>t, InsertType
  <2>4. JobState(n)' = "open" /\ runs'[n] = 0
    <3>1. outbox'[n].status # "done"
      BY <2>1, <2>n, <1>t, AppendProperties DEF Insert
    <3>2. ~Running(n)' /\ ~Passed(n)'
      BY <2>1, <2>3, <1>t DEF TypeOK, Running, Passed
    <3>3. QED
      BY <2>1, <2>3, <3>1, <3>2, <1>p, InsertType DEF JobStates
  <2>5. Jobs' = Append(Jobs, [state |-> "open", runs |-> 0])
    BY <2>1, <2>2, <2>n, <2>3, <2>4, <1>t, InsertType DEF Jobs
  <2>6. QED
    BY <2>5 DEF D!Next, D!Submit
<1>2. ASSUME NEW r \in DOMAIN outbox, BackoffElapses(r) PROVE Jobs' = Jobs
  <2>1. UNCHANGED <<handling, marks, runs>>
    BY <1>2 DEF BackoffElapses
  <2>2. \A j \in DOMAIN outbox : JobState(j)' = JobState(j)
    BY <1>2, <2>1, BackoffType DEF JobState, Running, Passed
  <2>3. QED
    BY <1>2, <2>1, <2>2, <1>none, BackoffType
<1>3. ASSUME NEW w \in Worker, Claim(w) \/ ClaimLost(w) PROVE Jobs' = Jobs
  <2>1. TakeOldest /\ UNCHANGED <<handling, marks, runs>>
    BY <1>3 DEF Claim, ClaimLost
  <2>2. \A j \in DOMAIN outbox : outbox'[j].status = "done" <=> outbox[j].status = "done"
    BY <2>1, TakeOldestType
  <2>3. \A j \in DOMAIN outbox : JobState(j)' = JobState(j)
    BY <2>1, <2>2, TakeOldestType DEF JobState, Running, Passed
  <2>4. QED
    BY <2>1, <2>3, <1>none, TakeOldestType
<1>4. ASSUME NEW w \in Worker, NEW r \in batch[w], Start(w, r) PROVE D!Next \/ Jobs' = Jobs
  <2>1. /\ handling[w] = 0 /\ UNCHANGED <<outbox, marks>>
        /\ handling' = [handling EXCEPT ![w] = r]
        /\ runs' = [runs EXCEPT ![r] = @ + 1]
        /\ r \in DOMAIN outbox /\ r \in Held(w) /\ r \notin {0}
    BY <1>4, <1>t, HeldIs DEF Start, TypeOK
  <2>2. \A v \in Worker : handling[v] # r
    BY <2>1, HeldIs DEF OwnerInv
  <2>3. JobState(r) = "open"
    BY <2>1, <2>2, <1>p DEF JobStates, OwnerInv, Running, Passed
  <2>4. JobState(r)' = "running"
    <3>1. handling'[w] = r
      BY <2>1 DEF TypeOK
    <3>2. QED
      BY <2>1, <3>1, <1>p DEF JobStates, Running
  <2>5. \A j \in DOMAIN outbox : j # r => (Running(j)' <=> Running(j))
    BY <2>1, <1>t DEF Running, TypeOK
  <2>6. \A j \in DOMAIN outbox : j # r => JobState(j)' = JobState(j) /\ runs'[j] = runs[j]
    BY <2>1, <2>5 DEF JobState, Passed
  <2>7. runs[r] < MaxAttempts /\ runs'[r] = runs[r] + 1
    BY <2>1, Counters, AttemptsAssumption DEF CountInv
  <2>8. Jobs' = [Jobs EXCEPT ![r] = [state |-> "running", runs |-> runs[r] + 1]]
    BY <2>1, <2>4, <2>6, <2>7, <1>one
  <2>9. D!Begin(r)
    BY <2>1, <2>3, <2>7, <2>8, <1>t DEF D!Begin
  <2>10. QED
    BY <2>1, <2>9, <1>t DEF D!Next
\* Whether its handler returned or its process died: row r is let go.
<1>stop. ASSUME NEW w \in Worker, handling[w] # 0,
                UNCHANGED <<outbox, runs>>, handling' = [handling EXCEPT ![w] = 0],
                \A m \in marks' : m \in marks \/ m.row = handling[w],
                marks \subseteq marks'
         PROVE  D!Next
  <2>r. PICK r \in DOMAIN outbox : r = handling[w]
    BY <1>stop DEF TypeOK
  <2>1. r \in Held(w)
    BY <2>r, <1>stop, HeldIs
  <2>2. \A v \in Worker : v # w => handling[v] # r
    BY <2>r, <2>1, <1>stop, HeldIs DEF OwnerInv
  <2>3. JobState(r) = "running" /\ outbox[r].status = "processing"
    BY <2>r, <2>1, <1>p DEF JobStates, Running
  <2>4. ~Running(r)'
    BY <2>r, <2>1, <2>2, <1>stop, <1>t DEF Running, TypeOK
  <2>5. JobState(r)' \in {"open", "passed"}
    BY <2>r, <2>1, <2>3, <2>4, <1>p, <1>stop DEF JobStates
  <2>6. \A j \in DOMAIN outbox : j # r => (Running(j)' <=> Running(j)) /\ (Passed(j)' <=> Passed(j))
    BY <2>r, <2>1, <1>stop, <1>t DEF Running, Passed, TypeOK
  <2>7. \A j \in DOMAIN outbox : j # r => JobState(j)' = JobState(j)
    BY <2>r, <2>6, <1>stop DEF JobState
  <2>8. Jobs' = [Jobs EXCEPT ![r] = [state |-> JobState(r)', runs |-> runs[r]]]
    BY <2>r, <2>1, <2>7, <1>one, <1>stop
  <2>9. D!Stop(r, JobState(r)')
    BY <2>r, <2>1, <2>3, <2>8, <1>t DEF D!Stop
  <2>10. QED
    BY <2>r, <2>1, <2>5, <2>9, <1>t DEF D!Next
<1>5. ASSUME NEW w \in Worker, NEW v \in {"done", "failed"}, Finish(w, v) PROVE D!Next
  <2>1. /\ handling[w] # 0 /\ UNCHANGED <<outbox, runs>>
        /\ handling' = [handling EXCEPT ![w] = 0]
        /\ marks' = marks \cup {[row |-> handling[w], to |-> v]}
    BY <1>5 DEF Finish
  <2>2. marks \subseteq marks' /\ \A m \in marks' : m \in marks \/ m.row = handling[w]
    BY <2>1
  <2>3. QED
    BY <2>1, <2>2, <1>stop
<1>6. ASSUME NEW w \in Worker, Crash(w) PROVE D!Next \/ Jobs' = Jobs
  <2>1. CASE handling[w] # 0
    BY <1>6, <2>1, <1>stop DEF Crash
  <2>2. CASE handling[w] = 0
    <3>1. handling' = handling
      BY <1>6, <2>2 DEF Crash, TypeOK
    <3>2. QED
      BY <1>6, <3>1 DEF Crash, Jobs, JobState, Running, Passed
  <2>3. QED
    BY <2>1, <2>2
\* A mark arrives or is lost: if it was "done", a passed job is acknowledged
\* or not; if it was "failed", an open job stays open.
<1>mark. ASSUME NEW m \in marks, marks' = marks \ {m}, UNCHANGED <<handling, runs>>,
                DOMAIN outbox' = DOMAIN outbox,
                outbox'[m.row].status \in {outbox[m.row].status, m.to},
                \A j \in DOMAIN outbox : j # m.row => outbox'[j] = outbox[j]
         PROVE  D!Next \/ Jobs' = Jobs
  <2> DEFINE r == m.row
  <2>1. r \in DOMAIN outbox /\ outbox[r].status = "processing" /\ m.to \in {"done", "failed"}
    BY DEF OwnerInv, TypeOK, Mark
  <2>2. ~Running(r) /\ ~Running(r)'
    BY <2>1, <1>mark, <1>t, HeldIs DEF Running, OwnerInv
  <2>3. ~Passed(r)' /\ (Passed(r) <=> m.to = "done")
    BY <1>mark DEF Passed, OwnerInv
  <2>4. \A j \in DOMAIN outbox : j # r => JobState(j)' = JobState(j)
    BY <1>mark DEF JobState, Running, Passed
  <2>5. CASE m.to = "failed"
    <3>1. JobState(r) = "open" /\ JobState(r)' = "open"
      BY <2>1, <2>2, <2>3, <2>5, <1>p, <1>mark DEF JobStates
    <3>2. QED
      BY <2>4, <3>1, <1>none, <1>mark
  <2>6. CASE m.to = "done"
    <3>1. JobState(r) = "passed" /\ JobState(r)' \in {"open", "done"}
      BY <2>1, <2>2, <2>3, <2>6, <1>p, <1>mark DEF JobStates
    <3>2. Jobs' = [Jobs EXCEPT ![r] = [state |-> JobState(r)', runs |-> runs[r]]]
      BY <2>1, <2>4, <1>one, <1>mark
    <3>3. D!Acknowledge(r, JobState(r)')
      BY <2>1, <3>1, <3>2, <1>t DEF D!Acknowledge
    <3>4. QED
      BY <2>1, <3>1, <3>3, <1>t DEF D!Next
  <2>7. QED
    BY <2>1, <2>5, <2>6
<1>7. ASSUME NEW m \in marks, ApplyMark(m) PROVE D!Next \/ Jobs' = Jobs
  <2>1. marks' = marks \ {m} /\ UNCHANGED <<handling, runs>>
    BY <1>7 DEF ApplyMark
  <2>2. QED
    BY <1>7, <2>1, <1>mark, ApplyMarkType
<1>8. ASSUME NEW m \in marks, LoseMark(m) PROVE D!Next \/ Jobs' = Jobs
  BY <1>8, <1>mark DEF LoseMark
<1>9. ASSUME UNCHANGED vars PROVE Jobs' = Jobs
  BY <1>9 DEF vars, Jobs, JobState, Running, Passed
<1>10. QED
  BY <1>1, <1>2, <1>3, <1>4, <1>5, <1>6, <1>7, <1>8, <1>9 DEF Next

\* The outbox keeps the promise of Delivery: runs of one event never overlap,
\* there are at most MaxAttempts of them, and an event is done only after a
\* run that passed, and then for good.
THEOREM Implementation == Spec => ImplementsDelivery
<1>1. IInv /\ IInv' /\ [Next]_vars => [D!Next]_(D!vars)
  BY DeliveryStep DEF D!vars, IInv
<1>2. QED
  BY <1>1, InvariantHolds, DeliveryInit, PTL DEF Spec, ImplementsDelivery, D!Spec
=============================================================================
