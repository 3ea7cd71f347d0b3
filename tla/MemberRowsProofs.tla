-------------------------- MODULE MemberRowsProofs --------------------------
(***************************************************************************)
(* Proofs about the rows of the till that the member sync and the desk     *)
(* write: a create that fails leaves no half of a customer behind, a       *)
(* member has one customer of the sync's making, and the till's customers  *)
(* are what module Roster promises.                                        *)
(***************************************************************************)
EXTENDS MemberSyncProofs, FiniteSetTheorems

(* Halves of customers.                                                    *)

\* An account without its customer, or a customer without its account.
Even(r) == account[r] = NoAccount <=> ~IsThere(entity[r])

\* The customer is gone for good or not yet there, and w is about to put
\* the account right.
Dropping == {"undoAccount", "dropAccount"}
Owns(w, r) == call[w].row = r /\ call[w].at \in Dropping \cup {"entity"}

\* Who inserts a customer is alone with its account.
Alone(w) ==
  LET r == call[w].row
  IN  /\ account[r] # NoAccount /\ ~IsThere(entity[r])
      /\ \A v \in Caller : v # w /\ call[v].at \notin {"idle", "account"} => call[v].row # r
      /\ \A p \in Run : /\ ~IsThere(run[p].seen[r])
                        /\ run[p].at \in {"states", "leaving"} => r \notin run[p].todo

\* Unless a clean-up was lost: every half of a customer has somebody who is
\* about to put it right, and nobody drops the account of a customer.
Cared ==
  /\ \A w \in Caller : call[w].at \in Dropping => ~IsThere(entity[call[w].row])
  /\ \A r \in Row : Even(r) \/ \E w \in Caller : Owns(w, r)

HalfInv ==
  /\ \A w \in Caller : call[w].at = "entity" => Alone(w)
  /\ lossy \/ Cared

LEMMA HalfInitially == SyncInit => HalfInv
<1> SUFFICES ASSUME SyncInit PROVE HalfInv
  OBVIOUS
<1>1. \A w \in Caller : call[w].at = "idle"
  BY WriteFields DEF SyncInit
<1>2. ASSUME NEW r \in Row PROVE Even(r)
  <2>1. entity[r] \in Customer /\ (IsThere(entity[r]) \/ entity[r] = NoCustomer)
        /\ account[r] = AccountName(entity[r])
    BY SyncAssumption DEF SyncInit
  <2>2. QED
    BY <2>1, AccountNames, NoCustomerType DEF Even, NoAccount
<1>3. QED
  BY <1>1, <1>2 DEF HalfInv, Cared, Dropping

\* A call to a row x that its caller is not about to insert: it changes no
\* other row and revives no customer, and leaves the row as whole as it was,
\* or in its caller's care, or lossy.
LEMMA HalfCall ==
  ASSUME SyncInv, HalfInv, NEW w \in Caller, NEW c \in Write, NEW x \in Row,
         x = call[w].row, call[w].at \notin {"idle", "account", "failed"},
         call' = [call EXCEPT ![w] = c], c.at # "entity",
         c = NoWrite \/ c.row = x,
         UNCHANGED run, lossy => lossy',
         \A r \in Row : r # x => entity'[r] = entity[r] /\ account'[r] = account[r],
         IsThere(entity'[x]) => IsThere(entity[x]) \/ call[w].at = "entity",
         lossy' \/ (c.at \in Dropping => ~IsThere(entity'[x])),
         \/ lossy' \/ Even(x)' \/ c.at \in Dropping
         \/ /\ call[w].at \notin Dropping \cup {"entity"}
            /\ (account'[x] = NoAccount <=> account[x] = NoAccount)
            /\ (IsThere(entity'[x]) <=> IsThere(entity[x]))
  PROVE  HalfInv'
<1>1. \A v \in Caller : call'[v] = IF v = w THEN c ELSE call[v]
  BY DEF SyncInv, StateTypeOK
<1>2. ASSUME NEW v \in Caller, call'[v].at = "entity" PROVE Alone(v)'
  <2>1. v # w /\ call'[v] = call[v] /\ call[v].at = "entity" /\ Alone(v)
    BY <1>1, <1>2 DEF HalfInv
  <2>2. x # call[v].row /\ call[v].row \in Row
    BY <2>1, CalledRow DEF Alone
  <2>3. \A u \in Caller : u # v /\ call'[u].at \notin {"idle", "account"} => call'[u].row # call[v].row
    BY <1>1, <2>1, <2>2, WriteFields DEF Alone
  <2>4. QED
    BY <2>1, <2>2, <2>3 DEF Alone
<1>3. ASSUME ~lossy' PROVE Cared'
  <2>1. Cared /\ ~lossy
    BY <1>3 DEF HalfInv
  <2>2. ASSUME NEW v \in Caller, call'[v].at \in Dropping PROVE ~IsThere(entity'[call'[v].row])
    <3>1. CASE v = w
      BY <1>1, <1>3, <2>2, <3>1, WriteFields DEF Dropping
    <3>2. CASE v # w
      <4>1. call'[v] = call[v] /\ ~IsThere(entity[call[v].row]) /\ call[v].row \in Row
        BY <1>1, <2>1, <2>2, <3>2, CalledRow DEF Cared, Dropping
      <4>2. call[v].row = x => call[w].at # "entity"
        BY <2>2, <3>2, <4>1 DEF HalfInv, Alone, Dropping
      <4>3. QED
        BY <4>1, <4>2
    <3>3. QED
      BY <3>1, <3>2
  <2>3. ASSUME NEW r \in Row PROVE Even(r)' \/ \E v \in Caller : Owns(v, r)'
    <3>1. CASE r # x
      <4>1. CASE Even(r)
        BY <3>1, <4>1 DEF Even
      <4>2. CASE \E v \in Caller : Owns(v, r)
        <5>1. PICK v \in Caller : Owns(v, r)
          BY <4>2
        <5>2. v # w
          BY <3>1, <5>1 DEF Owns
        <5>3. QED
          BY <1>1, <5>1, <5>2 DEF Owns
      <4>3. QED
        BY <2>1, <4>1, <4>2 DEF Cared
    <3>2. CASE r = x
      <4>1. CASE Even(x)'
        BY <3>2, <4>1
      <4>2. CASE c.at \in Dropping
        <5>1. Owns(w, x)'
          BY <1>1, <4>2, WriteFields DEF Owns, Dropping
        <5>2. QED
          BY <3>2, <5>1
      <4>3. CASE /\ call[w].at \notin Dropping \cup {"entity"}
                 /\ (account'[x] = NoAccount <=> account[x] = NoAccount)
                 /\ (IsThere(entity'[x]) <=> IsThere(entity[x]))
        <5>1. CASE Even(x)
          BY <3>2, <4>3, <5>1 DEF Even
        <5>2. CASE \E v \in Caller : Owns(v, x)
          <6>1. PICK v \in Caller : Owns(v, x)
            BY <5>2
          <6>2. v # w
            BY <4>3, <6>1 DEF Owns
          <6>3. QED
            BY <1>1, <3>2, <6>1, <6>2 DEF Owns
        <5>3. QED
          BY <2>1, <5>1, <5>2 DEF Cared
      <4>4. QED
        BY <1>3, <4>1, <4>2, <4>3
    <3>3. QED
      BY <3>1, <3>2
  <2>4. QED
    BY <2>2, <2>3 DEF Cared
<1>4. QED
  BY <1>2, <1>3 DEF HalfInv

\* A caller that inserts the customer is about the row of its account.
LEMMA StepsAt ==
  ASSUME SyncInv, NEW w \in Caller, NEW o \in Outcome, call[w].at \notin {"idle", "account"},
         NEW next \in Stage \cup {"done"}, NEW otherwise \in Stage \cup {"done"},
         Step(w, o, next, otherwise)
  PROVE  \E c \in Write :
           /\ call' = [call EXCEPT ![w] = c] /\ call[w].row \in Row
           /\ c = NoWrite \/ c.row = call[w].row
           /\ c.at \in {"idle", IF o = "done" THEN next ELSE otherwise}
           /\ (IF o = "done" THEN next ELSE otherwise) \in Dropping => c.at \in Dropping
           /\ c # NoWrite => c.want = call[w].want /\ c.parts = call[w].parts
<1>1. call[w].row \in Row /\ call[w] \in Write
  BY CalledRow
<1> DEFINE at == IF o = "done" THEN next ELSE otherwise
           c == IF at = "done" \/ (at = "failed" /\ w \in Desk) THEN NoWrite
                ELSE Writing(at, call[w].row, call[w].want, call[w].parts)
<1>2. call' = [call EXCEPT ![w] = c]
  BY DEF Step
<1>3. c \in Write
  <2>1. CASE at = "done" \/ (at = "failed" /\ w \in Desk)
    BY <2>1, WriteFields
  <2>2. CASE ~(at = "done" \/ (at = "failed" /\ w \in Desk))
    <3>1. at \in Stage
      BY <2>2
    <3>2. Writing(at, call[w].row, call[w].want, call[w].parts) \in Write
      BY <1>1, <3>1, WriteFields, WriteType
    <3>3. QED
      BY <2>2, <3>2
  <2>3. QED
    BY <2>1, <2>2
<1>4. /\ c = NoWrite \/ c.row = call[w].row
      /\ c.at \in {"idle", at}
      /\ at \in Dropping => c.at \in Dropping
      /\ c # NoWrite => c.want = call[w].want /\ c.parts = call[w].parts
  BY WriteFields DEF Writing, Dropping
<1>5. QED
  BY <1>1, <1>2, <1>3, <1>4

LEMMA HalfInsertAccount ==
  ASSUME SyncInv, HalfInv, NEW w \in Caller, InsertAccount(w), UNCHANGED run
  PROVE  HalfInv'
<1>1. PICK o \in Outcome :
        /\ made' = made + (IF o = "refused" THEN 0 ELSE 1)
        /\ account' = IF o = "refused" THEN account
                      ELSE [account EXCEPT ![made + 1] = AccountName(call[w].want)]
        /\ call' = [call EXCEPT ![w] =
             IF o = "done" THEN Writing("entity", made + 1, call[w].want, {}) ELSE NoWrite]
        /\ lossy' = (lossy \/ o = "lost")
  BY DEF InsertAccount
<1>2. call[w].at = "account" /\ made < MaxRow /\ made \in Nat /\ UNCHANGED <<entity, status>>
  BY Parameters DEF InsertAccount, SyncInv, StateTypeOK
<1>3. made + 1 \in Row
  BY <1>2, Parameters DEF Row
<1>4. IsThere(call[w].want) /\ call[w].want \in Customer
  BY <1>2, WriteFields DEF SyncInv, StateTypeOK, Meant, About
<1> DEFINE c == IF o = "done" THEN Writing("entity", made + 1, call[w].want, {}) ELSE NoWrite
<1>5. \A v \in Caller : call'[v] = IF v = w THEN c ELSE call[v]
  BY <1>1 DEF SyncInv, StateTypeOK
<1>6. \A r \in Row : r # made + 1 => account'[r] = account[r]
  BY <1>1 DEF SyncInv, StateTypeOK
<1>7. account'[made + 1] = (IF o = "refused" THEN account[made + 1] ELSE AccountName(call[w].want))
  BY <1>1, <1>3 DEF SyncInv, StateTypeOK
<1>8. c = NoWrite \/ (o = "done" /\ c.at = "entity" /\ c.row = made + 1)
  BY DEF Writing
<1>9. \A v \in Caller : call[v].at \notin {"idle", "account"} => call[v].row \in Row /\ call[v].row # made + 1
  BY <1>2, CalledRow DEF Row
<1> HIDE DEF c
<1>10. ASSUME NEW v \in Caller, call'[v].at = "entity" PROVE Alone(v)'
  <2>1. CASE v = w
    <3>1. call'[v] = c /\ o = "done" /\ c.row = made + 1
      BY <1>5, <1>8, <1>10, <2>1, WriteFields
    <3>2. account'[made + 1] # NoAccount
      BY <1>4, <1>7, <3>1, AccountNames
    <3>3. ~IsThere(entity'[made + 1])
      BY <1>2, <1>3, NoCustomerType DEF SyncInv, Unmade
    <3>4. \A u \in Caller : u # v /\ call'[u].at \notin {"idle", "account"} => call'[u].row # made + 1
      BY <1>5, <1>9, <2>1
    <3>5. \A p \in Run : /\ ~IsThere(run[p].seen[made + 1])
                         /\ run[p].at \in {"states", "leaving"} => made + 1 \notin run[p].todo
      BY <1>2, <1>3 DEF SyncInv, Unmade, InHand
    <3>6. QED
      BY <3>1, <3>2, <3>3, <3>4, <3>5 DEF Alone
  <2>2. CASE v # w
    <3>1. call'[v] = call[v] /\ Alone(v) /\ call[v].row \in Row /\ call[v].row # made + 1
      BY <1>5, <1>9, <1>10, <2>2 DEF HalfInv
    <3>2. \A u \in Caller : u # v /\ call'[u].at \notin {"idle", "account"} => call'[u].row # call[v].row
      BY <1>5, <1>8, <3>1, WriteFields DEF Alone
    <3>3. QED
      BY <1>2, <1>6, <3>1, <3>2 DEF Alone
  <2>3. QED
    BY <2>1, <2>2
<1>11. ASSUME ~lossy' PROVE Cared'
  <2>1. Cared /\ o # "lost"
    BY <1>1, <1>11 DEF HalfInv
  <2>2. \A v \in Caller : call'[v].at \in Dropping => call'[v] = call[v]
    BY <1>5, <1>8, WriteFields DEF Dropping
  <2>3. ASSUME NEW r \in Row PROVE Even(r)' \/ \E v \in Caller : Owns(v, r)'
    <3>1. CASE o = "done" /\ r = made + 1
      <4>1. Owns(w, r)'
        BY <1>5, <1>8, <3>1 DEF Owns, c, Writing
      <4>2. QED
        BY <4>1
    <3>2. CASE ~(o = "done" /\ r = made + 1)
      <4>1. account'[r] = account[r] /\ entity'[r] = entity[r]
        BY <1>2, <1>6, <1>7, <2>1, <3>2 DEF Outcome
      <4>2. \A v \in Caller : Owns(v, r) => Owns(v, r)'
        BY <1>2, <1>5 DEF Owns, Dropping
      <4>3. QED
        BY <2>1, <4>1, <4>2 DEF Cared, Even
    <3>3. QED
      BY <3>1, <3>2
  <2>4. QED
    BY <1>2, <2>1, <2>2, <2>3 DEF Cared
<1>12. QED
  BY <1>10, <1>11 DEF HalfInv

LEMMA HalfInsertEntity ==
  ASSUME SyncInv, HalfInv, NEW w \in Caller, InsertEntity(w), UNCHANGED run
  PROVE  HalfInv'
<1>1. PICK o \in Outcome :
        /\ entity' = IF o = "refused" THEN entity
                     ELSE [entity EXCEPT ![call[w].row] = call[w].want]
        /\ Step(w, o, "status", "undoAccount")
        /\ lossy' = (lossy \/ o = "lost")
  BY DEF InsertEntity
<1>2. call[w].at = "entity" /\ UNCHANGED <<account, status, made>>
  BY DEF InsertEntity
<1>3. /\ entity \in [Row -> Customer] /\ call[w].row \in Row
      /\ IsThere(call[w].want) /\ ~IsThere(entity[call[w].row]) /\ account[call[w].row] # NoAccount
  BY <1>2, CalledRow DEF HalfInv, Alone, SyncInv, StateTypeOK, Meant, About
<1>4. PICK c \in Write :
        /\ call' = [call EXCEPT ![w] = c]
        /\ c = NoWrite \/ c.row = call[w].row
        /\ c.at \in {"idle", IF o = "done" THEN "status" ELSE "undoAccount"}
        /\ (IF o = "done" THEN "status" ELSE "undoAccount") \in Dropping => c.at \in Dropping
  BY <1>1, <1>2, StepsAt DEF Stage
<1>5. \A r \in Row : r # call[w].row => entity'[r] = entity[r] /\ account'[r] = account[r]
  BY <1>1, <1>2, <1>3
<1>6. PICK x \in Row : x = call[w].row
  BY <1>3
<1>7. CASE o = "done"
  <2>1. IsThere(entity'[x]) /\ Even(x)'
    BY <1>1, <1>2, <1>3, <1>7, <1>6 DEF Even
  <2>2. c.at \notin Dropping \cup {"entity"}
    BY <1>4, <1>7 DEF Dropping
  <2>3. QED
    BY <1>1, <1>2, <1>3, <1>4, <1>5, <1>6, <2>1, <2>2, HalfCall
<1>8. CASE o = "refused"
  <2>1. entity' = entity /\ c.at \in Dropping
    BY <1>1, <1>4, <1>8 DEF Dropping
  <2>2. c.at # "entity"
    BY <2>1 DEF Dropping
  <2>3. QED
    BY <1>1, <1>2, <1>3, <1>4, <1>5, <2>1, <2>2, HalfCall
<1>9. CASE o = "lost"
  <2>1. c.at # "entity" /\ lossy'
    BY <1>1, <1>4, <1>9
  <2>2. QED
    BY <1>1, <1>2, <1>3, <1>4, <1>5, <2>1, HalfCall
<1>10. QED
  BY <1>7, <1>8, <1>9 DEF Outcome

LEMMA HalfInsertStatus ==
  ASSUME SyncInv, HalfInv, NEW w \in Caller, InsertStatus(w), UNCHANGED run
  PROVE  HalfInv'
<1>1. PICK o \in Outcome : Step(w, o, "done", "undoEntity") /\ lossy' = lossy
  BY DEF InsertStatus
<1>2. call[w].at = "status" /\ UNCHANGED <<account, entity, made>>
  BY DEF InsertStatus
<1>3. PICK c \in Write :
        /\ call' = [call EXCEPT ![w] = c] /\ call[w].row \in Row
        /\ c = NoWrite \/ c.row = call[w].row
        /\ c.at \in {"idle", IF o = "done" THEN "done" ELSE "undoEntity"}
  BY <1>1, <1>2, StepsAt DEF Stage
<1>4. c.at \notin Dropping \cup {"entity"}
  BY <1>3 DEF Dropping
<1>5. QED
  BY <1>1, <1>2, <1>3, <1>4, HalfCall DEF Dropping

LEMMA HalfUpdateEntity ==
  ASSUME SyncInv, HalfInv, NEW w \in Caller, UpdateEntity(w), UNCHANGED run
  PROVE  HalfInv'
<1>1. call[w].at = "patch" /\ UNCHANGED <<account, status, made, lossy>>
  BY DEF UpdateEntity
<1>2. /\ call[w].row \in Row /\ IsThere(call[w].want) /\ entity \in [Row -> Customer]
  BY <1>1, CalledRow DEF SyncInv, StateTypeOK, Meant, About
<1>3. PICK o \in Outcome :
        /\ Answers(o, IsThere(entity[call[w].row]))
        /\ entity' = IF o = "refused" THEN entity
                     ELSE [entity EXCEPT ![call[w].row] = Patched(call[w], entity[call[w].row])]
        /\ Step(w, o, IF "account" \in call[w].parts THEN "rename" ELSE "done", "failed")
  BY DEF UpdateEntity, Patched
<1>4. PICK c \in Write :
        /\ call' = [call EXCEPT ![w] = c]
        /\ c = NoWrite \/ c.row = call[w].row
        /\ c.at \in {"idle", "rename", "done", "failed"}
  BY <1>1, <1>3, StepsAt DEF Stage
<1>5. IsThere(entity'[call[w].row]) <=> IsThere(entity[call[w].row])
  BY <1>2, <1>3 DEF Answers, Patched, IsThere
<1>6. \A r \in Row : r # call[w].row => entity'[r] = entity[r] /\ account'[r] = account[r]
  BY <1>1, <1>2, <1>3
<1>7. c.at \notin Dropping \cup {"entity"}
  BY <1>4 DEF Dropping
<1>8. QED
  BY <1>1, <1>2, <1>4, <1>5, <1>6, <1>7, HalfCall DEF Dropping

LEMMA HalfUpdateAccount ==
  ASSUME SyncInv, HalfInv, NEW w \in Caller, UpdateAccount(w), UNCHANGED run
  PROVE  HalfInv'
<1>1. PICK o \in Outcome :
        /\ Answers(o, account[call[w].row] # NoAccount)
        /\ account' = IF o = "refused" THEN account
                      ELSE [account EXCEPT ![call[w].row] = AccountName(call[w].want)]
        /\ Step(w, o, "done", "done")
  BY DEF UpdateAccount
<1>2. call[w].at = "rename" /\ UNCHANGED <<entity, status, made, lossy>>
  BY DEF UpdateAccount
<1>3. /\ call[w].row \in Row /\ IsThere(call[w].want) /\ call[w].want \in Customer
      /\ account \in [Row -> {AccountName(d) : d \in Customer}]
  BY <1>2, CalledRow DEF SyncInv, StateTypeOK, Meant, About
<1>4. PICK c \in Write :
        /\ call' = [call EXCEPT ![w] = c]
        /\ c = NoWrite \/ c.row = call[w].row
        /\ c.at \in {"idle", "done"}
  BY <1>1, <1>2, StepsAt DEF Stage
<1>5. account'[call[w].row] = NoAccount <=> account[call[w].row] = NoAccount
  BY <1>1, <1>3, AccountNames DEF Answers
<1>6. \A r \in Row : r # call[w].row => entity'[r] = entity[r] /\ account'[r] = account[r]
  BY <1>1, <1>2, <1>3
<1>7. c.at \notin Dropping \cup {"entity"}
  BY <1>4 DEF Dropping
<1>8. QED
  BY <1>2, <1>3, <1>4, <1>5, <1>6, <1>7, HalfCall DEF Dropping

LEMMA HalfDeleteStatus ==
  ASSUME SyncInv, HalfInv, NEW w \in Caller, DeleteStatus(w), UNCHANGED run
  PROVE  HalfInv'
<1>1. PICK o \in Outcome : Step(w, IF call[w].row \in status THEN o ELSE "done", "dropEntity", "failed")
  BY DEF DeleteStatus
<1>2. call[w].at = "dropStatus" /\ UNCHANGED <<account, entity, made, lossy>>
  BY DEF DeleteStatus
<1>3. (IF call[w].row \in status THEN o ELSE "done") \in Outcome
  BY DEF Outcome
<1>4. PICK c \in Write :
        /\ call' = [call EXCEPT ![w] = c] /\ call[w].row \in Row
        /\ c = NoWrite \/ c.row = call[w].row
        /\ c.at \in {"idle", "dropEntity", "failed"}
  BY <1>1, <1>2, <1>3, StepsAt DEF Stage
<1>5. c.at \notin Dropping \cup {"entity"}
  BY <1>4 DEF Dropping
<1>6. QED
  BY <1>2, <1>4, <1>5, HalfCall DEF Dropping

LEMMA HalfDeleteEntity ==
  ASSUME SyncInv, HalfInv, NEW w \in Caller, DeleteEntity(w), UNCHANGED run
  PROVE  HalfInv'
<1>1. PICK o \in Outcome :
        /\ Answers(o, IsThere(entity[call[w].row]))
        /\ entity' = IF o = "refused" THEN entity
                     ELSE [entity EXCEPT ![call[w].row] = NoCustomer]
        /\ IF call[w].at = "undoEntity" THEN Step(w, o, "undoAccount", "undoAccount")
                                        ELSE Step(w, o, "dropAccount", "failed")
        /\ lossy' = (lossy \/ o = "lost" \/ (call[w].at = "undoEntity" /\ o # "done"))
  BY DEF DeleteEntity
<1>2. call[w].at \in {"dropEntity", "undoEntity"} /\ UNCHANGED <<account, status, made>>
  BY DEF DeleteEntity
<1>3. entity \in [Row -> Customer] /\ call[w].row \in Row
  BY <1>2, CalledRow DEF SyncInv, StateTypeOK
<1>4. PICK c \in Write :
        /\ call' = [call EXCEPT ![w] = c]
        /\ c = NoWrite \/ c.row = call[w].row
        /\ c.at \notin {"entity"}
        /\ o = "done" => c.at \in Dropping
        /\ call[w].at = "dropEntity" /\ o # "done" => c.at \notin Dropping
  <2>1. CASE call[w].at = "undoEntity"
    BY <1>1, <1>2, <2>1, StepsAt DEF Stage, Dropping
  <2>2. CASE call[w].at = "dropEntity"
    BY <1>1, <1>2, <2>2, StepsAt DEF Stage, Dropping
  <2>3. QED
    BY <1>2, <2>1, <2>2
<1>5. \A r \in Row : r # call[w].row => entity'[r] = entity[r] /\ account'[r] = account[r]
  BY <1>1, <1>2, <1>3
<1>6. IsThere(entity'[call[w].row]) => IsThere(entity[call[w].row])
  BY <1>1, <1>3, NoCustomerType
<1>7. CASE o = "done"
  <2>1. ~IsThere(entity'[call[w].row]) /\ c.at \in Dropping
    BY <1>1, <1>3, <1>4, <1>7, NoCustomerType
  <2>2. QED
    BY <1>1, <1>2, <1>3, <1>4, <1>5, <1>6, <2>1, HalfCall
<1>8. CASE o = "refused" /\ call[w].at = "dropEntity"
  <2>1. entity' = entity /\ c.at \notin Dropping
    BY <1>1, <1>4, <1>8
  <2>2. QED
    BY <1>1, <1>2, <1>3, <1>4, <1>5, <1>8, <2>1, HalfCall DEF Dropping
<1>9. CASE lossy'
  BY <1>1, <1>2, <1>3, <1>4, <1>5, <1>6, <1>9, HalfCall
<1>10. QED
  BY <1>1, <1>2, <1>7, <1>8, <1>9 DEF Outcome

LEMMA HalfDeleteAccount ==
  ASSUME SyncInv, HalfInv, NEW w \in Caller, DeleteAccount(w), UNCHANGED run
  PROVE  HalfInv'
<1>1. PICK o \in Outcome :
        /\ account' = IF o = "refused" THEN account
                      ELSE [account EXCEPT ![call[w].row] = NoAccount]
        /\ Step(w, o, "failed", "failed") \/ Step(w, o, "done", "done")
        /\ lossy' = (lossy \/ o # "done")
  BY DEF DeleteAccount
<1>2. call[w].at \in Dropping /\ UNCHANGED <<entity, status, made>>
  BY DEF DeleteAccount, Dropping
<1>3. call[w].row \in Row /\ account \in [Row -> {AccountName(d) : d \in Customer}]
  BY <1>2, CalledRow DEF SyncInv, StateTypeOK, Dropping
<1>4. PICK c \in Write :
        /\ call' = [call EXCEPT ![w] = c]
        /\ c = NoWrite \/ c.row = call[w].row
        /\ c.at \in {"idle", "done", "failed"}
  <2>1. CASE Step(w, o, "failed", "failed")
    BY <1>2, <2>1, StepsAt DEF Stage, Dropping
  <2>2. CASE Step(w, o, "done", "done")
    BY <1>2, <2>2, StepsAt DEF Stage, Dropping
  <2>3. QED
    BY <1>1, <2>1, <2>2
<1>5. c.at \notin Dropping \cup {"entity"}
  BY <1>4 DEF Dropping
<1>6. \A r \in Row : r # call[w].row => entity'[r] = entity[r] /\ account'[r] = account[r]
  BY <1>1, <1>2, <1>3
<1>7. PICK x \in Row : x = call[w].row
  BY <1>3
<1>8. lossy' \/ Even(x)'
  <2>1. SUFFICES ASSUME ~lossy' PROVE Even(x)'
    OBVIOUS
  <2>2. o = "done" /\ ~IsThere(entity[call[w].row])
    BY <1>1, <1>2, <2>1 DEF HalfInv, Cared
  <2>3. account'[x] = NoAccount /\ ~IsThere(entity'[x])
    BY <1>1, <1>2, <1>3, <1>7, <2>2
  <2>4. QED
    BY <2>3 DEF Even
<1>9. call[w].at \notin {"idle", "account", "failed"}
  BY <1>2 DEF Dropping
<1>10. QED
  BY <1>1, <1>2, <1>3, <1>4, <1>5, <1>6, <1>7, <1>8, <1>9, HalfCall

LEMMA HalfTillCall ==
  ASSUME SyncInv, HalfInv, NEW w \in Caller, TillCall(w), UNCHANGED run
  PROVE  HalfInv'
  BY HalfInsertAccount, HalfInsertEntity, HalfInsertStatus, HalfUpdateEntity,
     HalfUpdateAccount, HalfDeleteStatus, HalfDeleteEntity, HalfDeleteAccount DEF TillCall

\* A caller with nothing in hand takes up a write about nobody's row.
LEMMA HalfAsks ==
  ASSUME SyncInv, HalfInv, NEW w \in Caller, NEW c \in Write,
         call[w].at \notin Dropping \cup {"entity"}, c.at \notin Dropping \cup {"entity"},
         call' = [call EXCEPT ![w] = c], UNCHANGED <<tables, lossy>>,
         c.at \notin {"idle", "account"} =>
           \A v \in Caller : v # w /\ call[v].at = "entity" => call[v].row # c.row,
         \A p \in Run, v \in Caller : call[v].at = "entity" =>
           /\ ~IsThere(run'[p].seen[call[v].row])
           /\ run'[p].at \in {"states", "leaving"} => call[v].row \notin run'[p].todo
  PROVE  HalfInv'
<1>1. /\ \A v \in Caller : call'[v] = IF v = w THEN c ELSE call[v]
      /\ UNCHANGED <<account, entity>>
  BY DEF SyncInv, StateTypeOK, tables
<1>2. ASSUME NEW v \in Caller, call'[v].at = "entity" PROVE Alone(v)'
  <2>1. v # w /\ call'[v] = call[v] /\ call[v].at = "entity" /\ Alone(v)
    BY <1>1, <1>2 DEF HalfInv
  <2>2. \A u \in Caller : u # v /\ call'[u].at \notin {"idle", "account"} => call'[u].row # call[v].row
    BY <1>1, <2>1 DEF Alone
  <2>3. QED
    BY <1>1, <2>1, <2>2 DEF Alone
<1>3. ASSUME Cared PROVE Cared'
  <2>1. \A v \in Caller : call'[v].at \in Dropping => ~IsThere(entity'[call'[v].row])
    BY <1>1, <1>3 DEF Cared
  <2>2. ASSUME NEW r \in Row PROVE Even(r)' \/ \E v \in Caller : Owns(v, r)'
    <3>1. \A v \in Caller : Owns(v, r) => Owns(v, r)'
      BY <1>1 DEF Owns
    <3>2. Even(r) => Even(r)'
      BY <1>1 DEF Even
    <3>3. QED
      BY <1>3, <3>1, <3>2 DEF Cared
  <2>3. QED
    BY <2>1, <2>2 DEF Cared
<1>4. QED
  BY <1>2, <1>3 DEF HalfInv

LEMMA HalfRun ==
  ASSUME SyncInv, HalfInv, NEW p \in Run, NEW l, NEW c, RunMoves(p, l, c), RunReads(p, l, c)
  PROVE  HalfInv'
<1>1. /\ \A o \in Run : run'[o] = IF o = p THEN l ELSE run[o]
      /\ call' = [call EXCEPT ![p] = c] /\ UNCHANGED <<tables, lossy>>
      /\ p \in Caller /\ c \in Write
  BY Parameters DEF RunMoves, SyncInv, StateTypeOK
<1>2. ASSUME NEW o \in Run, NEW v \in Caller, call[v].at = "entity"
      PROVE  /\ ~IsThere(run'[o].seen[call[v].row])
             /\ run'[o].at \in {"states", "leaving"} => call[v].row \notin run'[o].todo
  <2>1. Alone(v) /\ call[v].row \in Row
    BY <1>2, CalledRow DEF HalfInv
  <2>2. CASE o # p
    BY <1>1, <2>1, <2>2 DEF Alone
  <2>3. CASE o = p
    <3>1. ~IsThere(l.seen[call[v].row])
      BY <2>1, NoCustomerType DEF Alone, RunReads
    <3>2. call[v].row \notin Leaving(run[p])
      BY <2>1 DEF Alone, Leaving
    <3>3. l.at \in {"states", "leaving"} => call[v].row \notin l.todo
      BY <2>1, <3>2 DEF Alone, RunReads
    <3>4. QED
      BY <1>1, <2>3, <3>1, <3>3
  <2>4. QED
    BY <2>2, <2>3
<1>3. CASE c = call[p]
  <2>1. call' = call
    BY <1>1, <1>3, InRun
  <2>2. UNCHANGED <<account, entity, call, lossy>>
    BY <1>1, <2>1 DEF tables
  <2>3. Cared => Cared'
    BY <2>2 DEF Cared, Even, Owns
  <2>4. \A v \in Caller : call'[v].at = "entity" => Alone(v)'
    BY <1>2, <2>2 DEF HalfInv, Alone
  <2>5. QED
    BY <2>2, <2>3, <2>4 DEF HalfInv
<1>4. CASE c # call[p]
  <2>1. call[p].at \in {"idle", "failed"}
    BY <1>4 DEF RunReads
  <2>2. c.at \in {"idle", "account", "patch", "dropStatus"}
    BY <1>4 DEF RunReads
  <2>3. ASSUME NEW v \in Caller, v # p, call[v].at = "entity", c.at \notin {"idle", "account"}
        PROVE  call[v].row # c.row
    <3>1. Alone(v)
      BY <2>3 DEF HalfInv
    <3>2. CASE c.at = "patch" /\ run[p].at = "active" /\ OfAMember(run[p].seen[c.row])
      BY <3>1, <3>2 DEF Alone, OfAMember
    <3>3. CASE c.at = "dropStatus" /\ run[p].at = "leaving" /\ c.row \in run[p].todo
      BY <3>1, <3>3 DEF Alone
    <3>4. CASE call[p].at = "failed" /\ c.row = call[p].row
      BY <1>1, <2>3, <3>1, <3>4 DEF Alone
    <3>5. QED
      BY <1>4, <2>3, <3>2, <3>3, <3>4 DEF RunReads
  <2>4. call[p].at \notin Dropping \cup {"entity"} /\ c.at \notin Dropping \cup {"entity"}
    BY <2>1, <2>2 DEF Dropping
  <2>5. QED
    BY <1>1, <1>2, <2>3, <2>4, HalfAsks
<1>5. QED
  BY <1>3, <1>4

LEMMA HalfStep == SyncInv /\ HalfInv /\ [SyncNext]_<<syncVars, history>> => HalfInv'
<1> SUFFICES ASSUME SyncInv, HalfInv, [SyncNext]_<<syncVars, history>> PROVE HalfInv'
  OBVIOUS
<1>1. ASSUME NEW p \in Run, Begin(p) \/ Finish(p) PROVE HalfInv'
  <2>1. UNCHANGED tillVars /\ run'[p].seen = NoRows
    BY <1>1, BeginStep, FinishStep, IdleType DEF Begin, Becoming, SyncInv, StateTypeOK
  <2>2. run'[p].at \in {"idle", "members"} /\ \A o \in Run : o # p => run'[o] = run[o]
    BY <1>1, IdleType DEF Begin, Finish, Becoming, SyncInv, StateTypeOK
  <2>3. UNCHANGED <<account, entity, call, lossy>>
    BY <2>1 DEF tillVars, tables
  <2>4. Cared => Cared'
    BY <2>3 DEF Cared, Even, Owns
  <2>5. ASSUME NEW v \in Caller, call'[v].at = "entity" PROVE Alone(v)'
    <3>1. Alone(v) /\ call[v].row \in Row
      BY <2>3, <2>5, CalledRow DEF HalfInv
    <3>2. QED
      BY <2>1, <2>2, <2>3, <3>1, NoCustomerType DEF Alone, NoRows
  <2>6. QED
    BY <2>3, <2>4, <2>5 DEF HalfInv
<1>2. ASSUME NEW p \in Run, RunStep(p) PROVE HalfInv'
  <2>1. p \in Caller
    BY Parameters
  <2>2. QED
    BY <1>1, <1>2, <2>1, RunSteps, HalfRun, HalfTillCall
<1>3. ASSUME NEW d \in Desk, Create(d) \/ Update(d) \/ Delete(d),
             UNCHANGED <<member, running, run, index>>
      PROVE  HalfInv'
  <2>1. PICK c \in Write : /\ DeskAsks(d, c)
           /\ \/ c.at = "account" /\ c.row = 0
              \/ c.at \in {"patch", "dropStatus"} /\ IsThere(entity[c.row])
    BY <1>3, DeskWrites
  <2>2. call' = [call EXCEPT ![d] = c] /\ UNCHANGED <<tables, lossy>>
        /\ call[d].at \in {"idle", "failed"}
    BY <2>1 DEF DeskAsks, Busy
  <2>3. \A v \in Caller : call[v].at = "entity" => Alone(v) /\ call[v].row \in Row
    BY CalledRow DEF HalfInv
  <2>4. c.at \notin {"idle", "account"} =>
          \A v \in Caller : v # d /\ call[v].at = "entity" => call[v].row # c.row
    BY <2>1, <2>3 DEF Alone
  <2>5. call[d].at \notin Dropping \cup {"entity"} /\ c.at \notin Dropping \cup {"entity"}
    BY <2>1, <2>2 DEF Dropping
  <2>6. \A p \in Run, v \in Caller : call[v].at = "entity" =>
          /\ ~IsThere(run'[p].seen[call[v].row])
          /\ run'[p].at \in {"states", "leaving"} => call[v].row \notin run'[p].todo
    BY <1>3, <2>3 DEF Alone
  <2>7. QED
    BY <2>2, <2>4, <2>5, <2>6, Parameters, HalfAsks
<1>4. ASSUME NEW d \in Desk, TillCall(d), UNCHANGED run PROVE HalfInv'
  BY <1>4, HalfTillCall, Parameters
<1>5. ASSUME NEW r \in Row, CashierDeletes(r), UNCHANGED <<member, running, run, index>>
      PROVE  HalfInv'
  <2>1. /\ IsThere(entity[r]) /\ UNCHANGED <<made, call, lossy, run>>
        /\ \A s \in Row : entity'[s] = (IF s = r THEN NoCustomer ELSE entity[s])
        /\ \A s \in Row : account'[s] = (IF s = r THEN NoAccount ELSE account[s])
    BY <1>5 DEF CashierDeletes, SyncInv, StateTypeOK
  <2>2. ASSUME NEW v \in Caller, call'[v].at = "entity" PROVE Alone(v)'
    <3>1. Alone(v) /\ call[v].row \in Row
      BY <2>1, <2>2, CalledRow DEF HalfInv
    <3>2. call[v].row # r
      BY <2>1, <3>1 DEF Alone
    <3>3. QED
      BY <2>1, <3>1, <3>2 DEF Alone
  <2>3. ASSUME Cared PROVE Cared'
    <3>1. ASSUME NEW v \in Caller, call'[v].at \in Dropping PROVE ~IsThere(entity'[call'[v].row])
      <4>1. call[v].row \in Row /\ ~IsThere(entity[call[v].row])
        BY <2>1, <2>3, <3>1, CalledRow DEF Cared, Dropping
      <4>2. QED
        BY <2>1, <4>1, NoCustomerType
    <3>2. ASSUME NEW s \in Row PROVE Even(s)' \/ \E v \in Caller : Owns(v, s)'
      <4>1. CASE s = r
        BY <2>1, <4>1, NoCustomerType DEF Even
      <4>2. CASE s # r
        <5>1. \A v \in Caller : Owns(v, s) => Owns(v, s)'
          BY <2>1 DEF Owns
        <5>2. Even(s) => Even(s)'
          BY <2>1, <4>2 DEF Even
        <5>3. QED
          BY <2>3, <5>1, <5>2 DEF Cared
      <4>3. QED
        BY <4>1, <4>2
    <3>3. QED
      BY <3>1, <3>2 DEF Cared
  <2>4. QED
    BY <2>1, <2>2, <2>3 DEF HalfInv
<1>6. CASE UNCHANGED <<tillVars, run>>
  <2>1. UNCHANGED <<account, entity, call, lossy, run>>
    BY <1>6 DEF tillVars, tables
  <2>2. QED
    BY <2>1 DEF HalfInv, Alone, Cared, Even, Owns
<1>7. ASSUME NEW m \in Member, Joins(m) \/ Leaves(m) PROVE HalfInv'
  BY <1>6, <1>7, MemberStep
<1>8. CASE Lookup
  BY <1>6, <1>8 DEF Lookup
<1>9. CASE Restart
  <2>1. lossy' = TRUE /\ \A w \in Caller : call'[w].at = "idle"
    BY <1>9, RestartStep, WriteFields
  <2>2. QED
    BY <2>1 DEF HalfInv
<1>10. CASE UNCHANGED syncVars
  BY <1>6, <1>10 DEF syncVars
<1>11. QED
  BY <1>1, <1>2, <1>3, <1>4, <1>5, <1>7, <1>8, <1>9, <1>10 DEF SyncNext, Act

\* A create or a delete that failed has left no half of a customer behind once
\* nobody is writing, unless an answer or a clean-up call was lost.
THEOREM NoHalves == SyncSpec => []NoHalfCustomer
<1>1. SyncInv /\ HalfInv => NoHalfCustomer
  BY DEF HalfInv, Cared, Even, Owns, Dropping, NoHalfCustomer, Busy
<1>2. SyncInv /\ HalfInv /\ [SyncNext]_<<syncVars, history>> => (SyncInv /\ HalfInv)'
  BY SyncStep, HalfStep
<1>3. SyncInit => SyncInv /\ HalfInv
  BY SyncInitially, HalfInitially
<1>4. QED
  BY <1>1, <1>2, <1>3, PTL DEF SyncSpec
-----------------------------------------------------------------------------
(* One customer per member.                                                *)

\* The customers the sync keeps for the number n.
Ours(n) == {r \in Row : Kept[r] = n}

\* A write that may give a customer of the sync's making a number.
Links(c) ==
  /\ c.want.ref # 0
  /\ \/ c.at \in {"account", "entity"} /\ c.want.notes = "ours"
     \/ c.at = "patch" /\ "data" \in c.parts
Claims(c) == c.at = "patch" /\ "notes" \in c.parts /\ c.want.notes = "ours"

\* What a run that is reading the pages, and that no deletion has misled, has
\* not seen of the sync's customers is on a page it has not read.
Scanning ==
  \A p \in Run \ misled : run[p].at = "scan" =>
    \A r \in Row : Kept[r] # 0 =>
      /\ IsThere(run[p].seen[r]) => run[p].seen[r].ref = Kept[r]
      /\ IsThere(run[p].seen[r]) \/ Position(r) > (run[p].page - 1) * PageSize

\* What such a run has still to do for a member it saw no customer of, nobody
\* has done meanwhile; what it is doing, nobody has done either.
ToDo ==
  \A p \in Run \ misled : run[p].at = "active" =>
    \A m \in run[p].todo : Linked(run[p].seen, m) = {} => Ours(m) = {}
Doing ==
  \A p \in Run \ misled : Links(call[p]) =>
    /\ run[p].at = "active" /\ call[p].want.ref \notin run[p].todo
    /\ Ours(call[p].want.ref) = {}

RowsInv ==
  /\ \A n \in Number \ {0} : \A r, s \in Ours(n) : r = s
  /\ Scanning /\ ToDo /\ Doing
  /\ \A p \in Run : ~Claims(call[p])

LEMMA KeptIs ==
  ASSUME NEW r \in Row
  PROVE  /\ Kept[r] = IF r \in astray THEN 0 ELSE Mark[r]
         /\ Mark[r] = IF IsThere(entity[r]) /\ entity[r].notes = "ours" THEN entity[r].ref ELSE 0
  BY DEF Kept, Mark

\* The same, of the state after a step.
LEMMA KeptIsNext ==
  ASSUME NEW r \in Row
  PROVE  /\ Kept'[r] = IF r \in astray' THEN 0 ELSE Mark'[r]
         /\ Mark'[r] = IF IsThere(entity'[r]) /\ entity'[r].notes = "ours" THEN entity'[r].ref
                       ELSE 0
  BY DEF Kept, Mark, IsThere

\* A row whose number changes is the sync's only if a well-read run changed it.
LEMMA KeptNext ==
  ASSUME History, NEW r \in Row
  PROVE  Kept'[r] = IF Mark'[r] = Mark[r] THEN Kept[r]
                    ELSE IF WellRead THEN Mark'[r] ELSE 0
  BY KeptIs, KeptIsNext DEF History

LEMMA KeptStays ==
  ASSUME History, UNCHANGED entity
  PROVE  \A r \in Row : Kept'[r] = Kept[r]
<1>1. \A r \in Row : Mark'[r] = Mark[r]
  BY KeptIs, KeptIsNext
<1>2. QED
  BY <1>1, KeptNext

LEMMA OursNext ==
  ASSUME NEW n
  PROVE  /\ Ours(n) = {r \in Row : Kept[r] = n}
         /\ Ours(n)' = {r \in Row : Kept'[r] = n}
  BY DEF Ours

\* Whoever is misled stays so to the end of the run.
LEMMA StillWell ==
  ASSUME History, NEW p \in Run, p \notin misled', run'[p].at # "idle"
  PROVE  p \notin misled /\ ~(Past(p) /\ SomeoneGoes)
  BY DEF History

LEMMA LinksAt ==
  ASSUME NEW c, Links(c) \/ Claims(c)
  PROVE  c.at \in {"account", "entity", "patch"}
  BY DEF Links, Claims

LEMMA RowsInitially == SyncInit => RowsInv
<1> SUFFICES ASSUME SyncInit PROVE RowsInv
  OBVIOUS
<1>1. \A w \in Caller : call[w] = NoWrite
  BY DEF SyncInit
<1>2. \A p \in Run : run[p] = Idle /\ p \in Caller
  BY Parameters DEF SyncInit
<1>3. \A r \in Row : Kept[r] = 0
  <2>1. \A r \in Row : entity[r].notes # "ours"
    BY SyncAssumption DEF SyncInit
  <2>2. QED
    BY <2>1, KeptIs
<1>4. Idle.at = "idle"
  BY IdleType
<1>5. Scanning /\ ToDo
  BY <1>2, <1>4 DEF Scanning, ToDo
<1>6. Doing /\ \A p \in Run : ~Claims(call[p])
  BY <1>1, <1>2, WriteFields, LinksAt DEF Doing
<1>7. \A n \in Number \ {0} : Ours(n) = {}
  BY <1>3 DEF Ours
<1>8. QED
  BY <1>5, <1>6, <1>7 DEF RowsInv

\* A run that writes, or has a customer in hand, is the only one.
LEMMA OneWriter ==
  ASSUME SyncInv, NEW p \in Run, NEW o \in Run, run[p].at # "idle", run[o].at # "idle"
  PROVE  p = o
  BY DEF SyncInv, OneRun, Idling

LEMMA WritersRun ==
  ASSUME SyncInv, NEW p \in Run, call[p].at # "idle"
  PROVE  run[p].at \in {"active", "leaving"}
  BY DEF SyncInv, Paid
-----------------------------------------------------------------------------
(* Where a row stands among the pages.                                     *)

LEMMA RowSets ==
  \A S \in SUBSET Row : IsFiniteSet(S) /\ Cardinality(S) \in Nat /\ Cardinality(S) <= MaxRow
<1>1. IsFiniteSet(Row) /\ Cardinality(Row) = MaxRow
  BY FS_Interval, Parameters DEF Row
<1>2. QED
  BY <1>1, FS_Subset, FS_CardinalityType

LEMMA Positions ==
  ASSUME NEW r \in Row
  PROVE  /\ Position(r) \in Nat /\ Position(r) <= MaxRow
         /\ Position(r) <= Cardinality({s \in Row : IsThere(entity[s])})
         /\ IsThere(entity[r]) => Position(r) >= 1
<1> DEFINE S == {s \in Row : s >= r /\ IsThere(entity[s])}
           T == {s \in Row : IsThere(entity[s])}
<1>1. S \in SUBSET T /\ S \in SUBSET Row /\ T \in SUBSET Row
  OBVIOUS
<1>2. Position(r) = Cardinality(S)
  BY DEF Position
<1>3. Cardinality(S) <= Cardinality(T)
  BY <1>1, RowSets, FS_Subset
<1>4. ASSUME IsThere(entity[r]) PROVE Cardinality(S) # 0
  <2>1. r \in S
    BY <1>4 DEF Row
  <2>2. QED
    BY <1>1, <2>1, RowSets, FS_EmptySet
<1>5. QED
  BY <1>1, <1>2, <1>3, <1>4, RowSets

\* Customers that are added push the others to later pages.
LEMMA PositionsGrow ==
  ASSUME ~SomeoneGoes, NEW r \in Row
  PROVE  Position(r)' >= Position(r) /\ Position(r)' \in Nat /\ Position(r) \in Nat
<1> DEFINE S == {s \in Row : s >= r /\ IsThere(entity[s])}
           T == {s \in Row : s >= r /\ IsThere(entity'[s])}
<1>1. S \in SUBSET T /\ S \in SUBSET Row /\ T \in SUBSET Row
  BY DEF SomeoneGoes
<1>2. Position(r) = Cardinality(S) /\ Position(r)' = Cardinality(T)
  BY DEF Position, IsThere
<1>3. Cardinality(S) <= Cardinality(T)
  BY <1>1, RowSets, FS_Subset
<1>4. QED
  BY <1>1, <1>2, <1>3, RowSets

\* A customer that is there stands somewhere.
LEMMA KeptThere ==
  ASSUME NEW r \in Row, Kept[r] # 0
  PROVE  IsThere(entity[r]) /\ entity[r].ref = Kept[r] /\ Position(r) \in Nat /\ Position(r) >= 1
<1>1. IsThere(entity[r]) /\ entity[r].ref = Kept[r]
  BY KeptIs
<1>2. QED
  BY <1>1, Positions

LEMMA KeptThereNext ==
  ASSUME NEW r \in Row, Kept'[r] # 0
  PROVE  Position(r)' \in Nat /\ Position(r)' >= 1
<1> DEFINE S == {s \in Row : s >= r /\ IsThere(entity'[s])}
<1>1. r \in S
  BY KeptIsNext DEF Row
<1>2. Position(r)' = Cardinality(S)
  BY DEF Position, IsThere
<1>3. Cardinality(S) # 0 /\ Cardinality(S) \in Nat
  BY <1>1, RowSets, FS_EmptySet
<1>4. QED
  BY <1>2, <1>3

\* While a run reads the pages nobody takes up a customer in the sync's name.
LEMMA ScanStays ==
  ASSUME SyncInv, Scanning, History, NEW p \in Run \ misled', run'[p] = run[p],
         run[p].at = "scan", NEW r \in Row, Kept'[r] # 0, Kept'[r] = Kept[r]
  PROVE  /\ IsThere(run'[p].seen[r]) => run'[p].seen[r].ref = Kept'[r]
         /\ IsThere(run'[p].seen[r]) \/ Position(r)' > (run'[p].page - 1) * PageSize
<1>1. p \notin misled /\ ~(Past(p) /\ SomeoneGoes)
  BY StillWell
<1>2. /\ IsThere(run[p].seen[r]) => run[p].seen[r].ref = Kept[r]
      /\ IsThere(run[p].seen[r]) \/ Position(r) > (run[p].page - 1) * PageSize
  BY <1>1 DEF Scanning
<1>3. run[p].page \in Nat /\ run[p].page >= 1 /\ PageSize \in Nat
  BY InRun, RunFields, Parameters
<1>4. CASE run[p].page = 1
  <2>1. (run[p].page - 1) * PageSize = 0
    BY <1>4, Parameters
  <2>2. Position(r)' > 0
    BY KeptThereNext
  <2>3. QED
    BY <1>2, <2>1, <2>2
<1>5. CASE run[p].page > 1
  <2>1. ~SomeoneGoes
    BY <1>1, <1>5 DEF Past
  <2>2. Position(r)' >= Position(r) /\ Position(r)' \in Nat /\ Position(r) \in Nat
    BY <2>1, PositionsGrow
  <2>3. PICK k \in Int : k = (run[p].page - 1) * PageSize
    BY <1>3
  <2>4. QED
    BY <1>2, <2>2, <2>3
<1>6. QED
  BY <1>3, <1>4, <1>5

\* Over a till that stays, a run that starts to read has seen nothing.
LEMMA ScanQuiet ==
  ASSUME SyncInv, RowsInv, History, UNCHANGED entity, NEW p,
         \A o \in Run : o # p => run'[o] = run[o],
         p \in Run /\ run'[p].at = "scan" =>
           run'[p] = run[p] \/ (run'[p].seen = NoRows /\ run'[p].page = 1)
  PROVE  Scanning'
<1>1. \A r \in Row : Kept'[r] = Kept[r]
  BY KeptStays
<1>2. ASSUME NEW o \in Run \ misled', run'[o].at = "scan", NEW r \in Row, Kept'[r] # 0
      PROVE  /\ IsThere(run'[o].seen[r]) => run'[o].seen[r].ref = Kept'[r]
             /\ IsThere(run'[o].seen[r]) \/ Position(r)' > (run'[o].page - 1) * PageSize
  <2>1. CASE run'[o] = run[o]
    BY <1>1, <1>2, <2>1, ScanStays DEF RowsInv
  <2>2. CASE run'[o].seen = NoRows /\ run'[o].page = 1
    <3>1. (run'[o].page - 1) * PageSize = 0
      BY <2>2, Parameters
    <3>2. Position(r)' > 0
      BY <1>2, KeptThereNext
    <3>3. ~IsThere(run'[o].seen[r])
      BY <2>2, NoCustomerType DEF NoRows
    <3>4. QED
      BY <3>1, <3>2, <3>3
  <2>3. QED
    BY <1>2, <2>1, <2>2
<1>3. QED
  BY <1>2 DEF Scanning, IsThere
-----------------------------------------------------------------------------
(* The calls to the till.                                                  *)

\* A call to the till gives a number to nobody, or to the one customer it is
\* about and that nobody else has.
LEMMA RowsCall ==
  ASSUME SyncInv, RowsInv, History, NEW w \in Caller, NEW c \in Write, NEW x \in Nat,
         call' = [call EXCEPT ![w] = c], UNCHANGED run, w \in Run => ~Claims(c),
         Links(c) => Links(call[w]) /\ c.want = call[w].want,
         \A r \in Row :
           \/ Kept'[r] = Kept[r] \/ Kept'[r] = 0
           \/ /\ r = x /\ w \in Run \ misled /\ Links(call[w]) /\ ~Links(c)
              /\ Kept'[r] = call[w].want.ref
  PROVE  RowsInv'
<1>1. \A v \in Caller : call'[v] = IF v = w THEN c ELSE call[v]
  BY DEF SyncInv, StateTypeOK
<1>2. ASSUME NEW r \in Row, Kept'[r] # 0, Kept'[r] # Kept[r]
      PROVE  /\ r = x /\ w \in Run \ misled /\ Links(call[w]) /\ ~Links(c)
             /\ Kept'[r] = call[w].want.ref /\ Ours(call[w].want.ref) = {}
             /\ run[w].at = "active" /\ call[w].want.ref \notin run[w].todo
  BY <1>2 DEF RowsInv, Doing
<1>3. ASSUME NEW n \in Number \ {0}, NEW r \in Ours(n)', NEW s \in Ours(n)' PROVE r = s
  <2>1. r \in Row /\ s \in Row /\ Kept'[r] = n /\ Kept'[s] = n
    BY <1>3, OursNext
  <2>2. CASE Kept[r] = n /\ Kept[s] = n
    <3>1. r \in Ours(n) /\ s \in Ours(n)
      BY <2>1, <2>2 DEF Ours
    <3>2. QED
      BY <3>1 DEF RowsInv
  <2>3. CASE Kept[r] # n \/ Kept[s] # n
    <3>1. Ours(n) = {}
      BY <1>2, <2>1, <2>3
    <3>2. Kept[r] # n /\ Kept[s] # n
      BY <2>1, <3>1 DEF Ours
    <3>3. QED
      BY <1>2, <2>1, <3>2
  <2>4. QED
    BY <2>2, <2>3
<1>4. Scanning'
  <2>1. ASSUME NEW p \in Run \ misled', run'[p].at = "scan", NEW r \in Row, Kept'[r] # 0
        PROVE  /\ IsThere(run'[p].seen[r]) => run'[p].seen[r].ref = Kept'[r]
               /\ IsThere(run'[p].seen[r]) \/ Position(r)' > (run'[p].page - 1) * PageSize
    <3>1. run[p].at = "scan" /\ run'[p] = run[p]
      BY <2>1
    <3>2. Kept'[r] = Kept[r]
      <4>1. SUFFICES ASSUME Kept'[r] # Kept[r] PROVE FALSE
        OBVIOUS
      <4>2. w \in Run /\ run[w].at = "active"
        BY <1>2, <2>1, <4>1
      <4>3. p = w
        BY <3>1, <4>2, OneWriter
      <4>4. QED
        BY <3>1, <4>2, <4>3
    <3>3. QED
      BY <2>1, <3>1, <3>2, ScanStays DEF RowsInv
  <2>2. QED
    BY <2>1 DEF Scanning, IsThere
<1>5. ToDo'
  <2>1. ASSUME NEW p \in Run \ misled', run'[p].at = "active", NEW m \in run'[p].todo,
               Linked(run'[p].seen, m) = {}
        PROVE  Ours(m)' = {}
    <3>1. run[p].at = "active" /\ run'[p] = run[p] /\ p \notin misled
      BY <2>1, StillWell
    <3>2. m # 0 /\ Ours(m) = {}
      BY <2>1, <3>1, Parameters DEF RowsInv, ToDo, SyncInv, InHand
    <3>3. ASSUME NEW r \in Row, Kept'[r] = m PROVE FALSE
      <4>1. Kept[r] # m
        BY <3>2 DEF Ours
      <4>2. w \in Run /\ run[w].at = "active" /\ m \notin run[w].todo
        BY <1>2, <3>2, <3>3, <4>1
      <4>3. p = w
        BY <3>1, <4>2, OneWriter
      <4>4. QED
        BY <2>1, <3>1, <4>2, <4>3
    <3>4. QED
      BY <3>3, OursNext
  <2>2. QED
    BY <2>1 DEF ToDo, Linked, IsThere
<1>6. Doing'
  <2>1. ASSUME NEW p \in Run \ misled', Links(call'[p])
        PROVE  /\ run'[p].at = "active" /\ call'[p].want.ref \notin run'[p].todo
               /\ \A r \in Row : Kept'[r] # call'[p].want.ref
    <3>1. p \in Caller /\ Links(call[p]) /\ call'[p].want = call[p].want
      BY <1>1, <2>1, Parameters
    <3>2. run[p].at \in {"active", "leaving"}
      BY <3>1, LinksAt, WritersRun
    <3>3. p \notin misled
      BY <3>2, StillWell
    <3>4. /\ run[p].at = "active" /\ call[p].want.ref \notin run[p].todo
          /\ Ours(call[p].want.ref) = {} /\ call[p].want.ref # 0
      BY <3>1, <3>3 DEF RowsInv, Doing, Links
    <3>5. ASSUME NEW r \in Row, Kept'[r] = call[p].want.ref PROVE FALSE
      <4>1. Kept[r] # call[p].want.ref
        BY <3>4 DEF Ours
      <4>2. w \in Run /\ run[w].at = "active" /\ ~Links(c)
        BY <1>2, <3>4, <3>5, <4>1
      <4>3. p = w
        BY <3>4, <4>2, OneWriter
      <4>4. QED
        BY <1>1, <2>1, <4>2, <4>3
    <3>6. QED
      BY <3>1, <3>4, <3>5
  <2>2. QED
    BY <2>1 DEF Doing, Links, Ours
<1>7. \A p \in Run : ~Claims(call'[p])
  BY <1>1, Parameters DEF RowsInv
<1>8. QED
  BY <1>3, <1>4, <1>5, <1>6, <1>7 DEF RowsInv, Claims

\* A caller takes up a write, or a run moves on, over a till that stays.
LEMMA RowsQuiet ==
  ASSUME SyncInv, RowsInv, History, NEW w \in Caller, NEW c \in Write,
         call' = [call EXCEPT ![w] = c], UNCHANGED tables, w \in Run => ~Claims(c), Scanning',
         \A p \in Run \ misled' : run'[p].at = "active" =>
           \A m \in run'[p].todo : Linked(run'[p].seen, m) = {} => Ours(m) = {},
         \A v \in Run : v # w => run'[v] = run[v],
         w \in Run \ misled' /\ Links(c) =>
           run'[w].at = "active" /\ c.want.ref \notin run'[w].todo /\ Ours(c.want.ref) = {}
  PROVE  RowsInv'
<1>1. /\ \A v \in Caller : call'[v] = IF v = w THEN c ELSE call[v]
      /\ entity' = entity
  BY DEF SyncInv, StateTypeOK, tables
<1>2. \A r \in Row : Kept'[r] = Kept[r]
  BY <1>1, KeptStays
<1>3. ASSUME NEW n PROVE Ours(n)' = Ours(n)
  BY <1>2, OursNext
<1>4. ToDo'
  BY <1>2 DEF ToDo, Ours, Linked, IsThere
<1>5. Doing'
  <2>1. ASSUME NEW p \in Run \ misled', Links(call'[p])
        PROVE  /\ run'[p].at = "active" /\ call'[p].want.ref \notin run'[p].todo
               /\ Ours(call'[p].want.ref) = {}
    <3>1. CASE p = w
      BY <1>1, <2>1, <3>1
    <3>2. CASE p # w
      <4>1. call'[p] = call[p] /\ Links(call[p]) /\ run'[p] = run[p]
        BY <1>1, <2>1, <3>2, Parameters
      <4>2. run[p].at \in {"active", "leaving"}
        BY <4>1, LinksAt, WritersRun
      <4>3. p \notin misled
        BY <4>1, <4>2, StillWell
      <4>4. QED
        BY <4>1, <4>3 DEF RowsInv, Doing
    <3>3. QED
      BY <3>1, <3>2
  <2>2. QED
    BY <1>2, <2>1 DEF Doing, Ours, Links
<1>6. \A p \in Run : ~Claims(call'[p])
  BY <1>1, Parameters DEF RowsInv
<1>7. \A n \in Number \ {0} : \A r, s \in Ours(n)' : r = s
  BY <1>3 DEF RowsInv
<1>8. QED
  BY <1>4, <1>5, <1>6, <1>7 DEF RowsInv, Claims

LEMMA CallWell ==
  ASSUME SyncInv, NEW w \in Caller, NEW c, call' = [call EXCEPT ![w] = c], WellRead
  PROVE  w \in Run \ misled
<1>1. \A v \in Caller : v # w => call'[v] = call[v]
  BY DEF SyncInv, StateTypeOK
<1>2. QED
  BY <1>1, Parameters DEF WellRead

\* A row whose customer stays or goes keeps its number or loses it.
LEMMA KeptLeft ==
  ASSUME History, NEW r \in Row, entity'[r] = entity[r] \/ entity'[r] = NoCustomer
  PROVE  Kept'[r] = Kept[r] \/ Kept'[r] = 0
<1>1. Mark'[r] = Mark[r] \/ Mark'[r] = 0
  BY KeptIs, KeptIsNext, NoCustomerType
<1>2. QED
  BY <1>1, KeptNext

\* A call that leaves the customers as they are, or takes some away.
LEMMA RowsStay ==
  ASSUME SyncInv, RowsInv, History, NEW w \in Caller, NEW c \in Write, call[w].row \in Row,
         call' = [call EXCEPT ![w] = c], UNCHANGED run,
         \A r \in Row : entity'[r] = entity[r] \/ entity'[r] = NoCustomer,
         c.at \notin {"account", "entity", "patch"}
  PROVE  RowsInv'
<1>1. \A r \in Row : Kept'[r] = Kept[r] \/ Kept'[r] = 0
  BY KeptLeft
<1>2. ~Links(c) /\ ~Claims(c)
  BY LinksAt
<1>3. QED
  BY <1>1, <1>2, RowsCall

LEMMA RowsInsertAccount ==
  ASSUME SyncInv, RowsInv, History, NEW w \in Caller, InsertAccount(w), UNCHANGED run
  PROVE  RowsInv'
<1>1. PICK o \in Outcome :
        call' = [call EXCEPT ![w] =
             IF o = "done" THEN Writing("entity", made + 1, call[w].want, {}) ELSE NoWrite]
  BY DEF InsertAccount
<1>2. call[w].at = "account" /\ made < MaxRow /\ made \in Nat /\ UNCHANGED entity
      /\ call[w].want \in Customer
  BY WriteFields, Parameters DEF InsertAccount, SyncInv, StateTypeOK
<1>3. made + 1 \in Row /\ made + 1 \in 0..MaxRow
  BY <1>2, Parameters DEF Row
<1> DEFINE c == IF o = "done" THEN Writing("entity", made + 1, call[w].want, {}) ELSE NoWrite
<1>4. c \in Write
  BY <1>2, <1>3, WriteType, WriteFields DEF Stage
<1>5. ~Claims(c) /\ (Links(c) => Links(call[w]) /\ c.want = call[w].want)
  BY <1>2, WriteFields, NoCustomerType DEF Claims, Links, Writing
<1>6. \A r \in Row : Kept'[r] = Kept[r]
  BY <1>2, KeptStays
<1> HIDE DEF c
<1>7. call' = [call EXCEPT ![w] = c]
  BY <1>1 DEF c
<1>8. QED
  BY <1>3, <1>4, <1>5, <1>6, <1>7, RowsCall

LEMMA RowsInsertEntity ==
  ASSUME SyncInv, RowsInv, History, NEW w \in Caller, InsertEntity(w), UNCHANGED run
  PROVE  RowsInv'
<1>1. PICK o \in Outcome :
        /\ entity' = IF o = "refused" THEN entity
                     ELSE [entity EXCEPT ![call[w].row] = call[w].want]
        /\ Step(w, o, "status", "undoAccount")
  BY DEF InsertEntity
<1>2. call[w].at = "entity" /\ entity \in [Row -> Customer]
  BY DEF InsertEntity, SyncInv, StateTypeOK
<1>3. PICK x \in Row : x = call[w].row
  BY <1>2, CalledRow
<1>4. PICK c \in Write :
        call' = [call EXCEPT ![w] = c] /\ c.at \in {"idle", "status", "undoAccount"}
  BY <1>1, <1>2, StepsAt DEF Stage
<1>5. ~Claims(c) /\ ~Links(c)
  BY <1>4, LinksAt
<1>6. \A r \in Row : entity'[r] = entity[r] \/ (r = x /\ entity'[r] = call[w].want)
  BY <1>1, <1>2, <1>3
<1>7. ASSUME NEW r \in Row, Kept'[r] # Kept[r], Kept'[r] # 0
      PROVE  /\ r = x /\ w \in Run \ misled /\ Links(call[w]) /\ ~Links(c)
             /\ Kept'[r] = call[w].want.ref
  <2>1. WellRead /\ Kept'[r] = Mark'[r] /\ Mark'[r] # Mark[r]
    BY <1>7, KeptNext
  <2>2. entity'[r] # entity[r]
    BY <2>1, KeptIs, KeptIsNext
  <2>3. r = x /\ entity'[r] = call[w].want
    BY <1>6, <2>2
  <2>4. call[w].want.notes = "ours" /\ call[w].want.ref = Kept'[r]
    BY <1>7, <2>1, <2>3, KeptIsNext
  <2>5. w \in Run \ misled
    BY <1>4, <2>1, CallWell
  <2>6. QED
    BY <1>2, <1>5, <1>7, <2>3, <2>4, <2>5 DEF Links
<1>8. \A r \in Row :
        \/ Kept'[r] = Kept[r] \/ Kept'[r] = 0
        \/ /\ r = x /\ w \in Run \ misled /\ Links(call[w]) /\ ~Links(c)
           /\ Kept'[r] = call[w].want.ref
  BY <1>7
<1>9. x \in Nat
  BY DEF Row
<1>10. QED
  BY <1>4, <1>5, <1>8, <1>9, RowsCall

\* What a patch that gives its row another number of the sync's is.
LEMMA PatchLinks ==
  ASSUME SyncInv, RowsInv, NEW w \in Run, NEW x \in Row, call[w].at = "patch",
         entity'[x] = Patched(call[w], entity[x]), IsThere(entity[x]),
         Mark'[x] # Mark[x], Mark'[x] # 0
  PROVE  Links(call[w]) /\ Mark'[x] = call[w].want.ref
<1>1. ~Claims(call[w])
  BY DEF RowsInv
<1>2. entity'[x].notes = "ours" /\ entity'[x].ref = Mark'[x]
  BY KeptIsNext
<1>3. entity[x].notes = "ours"
  BY <1>1, <1>2 DEF Claims, Patched
<1>4. Mark[x] = entity[x].ref
  BY <1>3, KeptIs
<1>5. "data" \in call[w].parts /\ Mark'[x] = call[w].want.ref
  BY <1>2, <1>4 DEF Patched
<1>6. QED
  BY <1>5 DEF Links

LEMMA RowsUpdateEntity ==
  ASSUME SyncInv, RowsInv, History, NEW w \in Caller, UpdateEntity(w), UNCHANGED run
  PROVE  RowsInv'
<1>1. call[w].at = "patch" /\ entity \in [Row -> Customer] /\ call[w] \in Write
  BY DEF UpdateEntity, SyncInv, StateTypeOK
<1>2. PICK x \in Row : x = call[w].row
  BY <1>1, CalledRow
<1>3. PICK o \in Outcome :
        /\ Answers(o, IsThere(entity[x]))
        /\ entity' = IF o = "refused" THEN entity
                     ELSE [entity EXCEPT ![x] = Patched(call[w], entity[x])]
        /\ Step(w, o, IF "account" \in call[w].parts THEN "rename" ELSE "done", "failed")
  BY <1>2 DEF UpdateEntity, Patched
<1>4. PICK c \in Write :
        call' = [call EXCEPT ![w] = c] /\ c.at \in {"idle", "rename", "done", "failed"}
  BY <1>1, <1>3, StepsAt DEF Stage
<1>5. ~Claims(c) /\ ~Links(c)
  BY <1>4, LinksAt
<1>6. \A r \in Row : r # x => entity'[r] = entity[r]
  BY <1>1, <1>3
<1>7. entity'[x] = entity[x] \/ (IsThere(entity[x]) /\ entity'[x] = Patched(call[w], entity[x]))
  BY <1>1, <1>3 DEF Answers
<1>8. ASSUME NEW r \in Row, Kept'[r] # Kept[r], Kept'[r] # 0
      PROVE  /\ r = x /\ w \in Run \ misled /\ Links(call[w]) /\ ~Links(c)
             /\ Kept'[r] = call[w].want.ref
  <2>1. WellRead /\ Kept'[r] = Mark'[r] /\ Mark'[r] # Mark[r]
    BY <1>8, KeptNext
  <2>2. entity'[r] # entity[r]
    BY <2>1, KeptIs, KeptIsNext
  <2>3. r = x /\ IsThere(entity[x]) /\ entity'[x] = Patched(call[w], entity[x])
    BY <1>6, <1>7, <2>2
  <2>4. w \in Run \ misled
    BY <1>4, <2>1, CallWell
  <2>5. Links(call[w]) /\ Mark'[x] = call[w].want.ref
    BY <1>1, <1>8, <2>1, <2>3, <2>4, PatchLinks
  <2>6. QED
    BY <1>5, <2>1, <2>3, <2>4, <2>5
<1>9. \A r \in Row :
        \/ Kept'[r] = Kept[r] \/ Kept'[r] = 0
        \/ /\ r = x /\ w \in Run \ misled /\ Links(call[w]) /\ ~Links(c)
           /\ Kept'[r] = call[w].want.ref
  BY <1>8
<1>10. x \in Nat
  BY DEF Row
<1>11. QED
  BY <1>4, <1>5, <1>9, <1>10, RowsCall

LEMMA RowsDeleteEntity ==
  ASSUME SyncInv, RowsInv, History, NEW w \in Caller, DeleteEntity(w), UNCHANGED run
  PROVE  RowsInv'
<1>1. PICK o \in Outcome :
        /\ entity' = IF o = "refused" THEN entity ELSE [entity EXCEPT ![call[w].row] = NoCustomer]
        /\ Step(w, o, "undoAccount", "undoAccount") \/ Step(w, o, "dropAccount", "failed")
  BY DEF DeleteEntity
<1>2. call[w].at \in {"dropEntity", "undoEntity"} /\ entity \in [Row -> Customer]
  BY DEF DeleteEntity, SyncInv, StateTypeOK
<1>3. call[w].row \in Row
  BY <1>2, CalledRow
<1>4. PICK c \in Write : /\ call' = [call EXCEPT ![w] = c]
                         /\ c.at \in {"idle", "undoAccount", "dropAccount", "failed"}
  <2>1. CASE Step(w, o, "undoAccount", "undoAccount")
    BY <1>2, <2>1, StepsAt DEF Stage
  <2>2. CASE Step(w, o, "dropAccount", "failed")
    BY <1>2, <2>2, StepsAt DEF Stage
  <2>3. QED
    BY <1>1, <2>1, <2>2
<1>5. \A r \in Row : entity'[r] = entity[r] \/ entity'[r] = NoCustomer
  BY <1>1, <1>2
<1>6. QED
  BY <1>3, <1>4, <1>5, RowsStay

LEMMA RowsTillCall ==
  ASSUME SyncInv, RowsInv, History, NEW w \in Caller, TillCall(w), UNCHANGED run
  PROVE  RowsInv'
<1>1. ASSUME InsertStatus(w) PROVE RowsInv'
  <2>1. PICK o \in Outcome : Step(w, o, "done", "undoEntity")
    BY <1>1 DEF InsertStatus
  <2>2. PICK c \in Write : /\ call' = [call EXCEPT ![w] = c] /\ call[w].row \in Row
                         /\ c.at \in {"idle", "done", "undoEntity"}
    BY <1>1, <2>1, StepsAt DEF InsertStatus, Stage
  <2>3. QED
    BY <1>1, <2>2, RowsStay DEF InsertStatus
<1>2. ASSUME UpdateAccount(w) PROVE RowsInv'
  <2>1. PICK o \in Outcome : Step(w, o, "done", "done")
    BY <1>2 DEF UpdateAccount
  <2>2. PICK c \in Write : /\ call' = [call EXCEPT ![w] = c] /\ call[w].row \in Row
                         /\ c.at \in {"idle", "done"}
    BY <1>2, <2>1, StepsAt DEF UpdateAccount, Stage
  <2>3. QED
    BY <1>2, <2>2, RowsStay DEF UpdateAccount
<1>3. ASSUME DeleteStatus(w) PROVE RowsInv'
  <2>1. PICK o \in Outcome : Step(w, IF call[w].row \in status THEN o ELSE "done", "dropEntity", "failed")
    BY <1>3 DEF DeleteStatus
  <2>2. (IF call[w].row \in status THEN o ELSE "done") \in Outcome
    BY DEF Outcome
  <2>3. PICK c \in Write : /\ call' = [call EXCEPT ![w] = c] /\ call[w].row \in Row
                         /\ c.at \in {"idle", "dropEntity", "failed"}
    BY <1>3, <2>1, <2>2, StepsAt DEF DeleteStatus, Stage
  <2>4. QED
    BY <1>3, <2>3, RowsStay DEF DeleteStatus
<1>4. ASSUME DeleteAccount(w) PROVE RowsInv'
  <2>1. PICK o \in Outcome : Step(w, o, "failed", "failed") \/ Step(w, o, "done", "done")
    BY <1>4 DEF DeleteAccount
  <2>2. PICK c \in Write : /\ call' = [call EXCEPT ![w] = c] /\ call[w].row \in Row
                         /\ c.at \in {"idle", "done", "failed"}
    BY <1>4, <2>1, StepsAt DEF DeleteAccount, Stage
  <2>3. QED
    BY <1>4, <2>2, RowsStay DEF DeleteAccount
<1>5. QED
  BY <1>1, <1>2, <1>3, <1>4, RowsInsertAccount, RowsInsertEntity, RowsUpdateEntity,
     RowsDeleteEntity DEF TillCall
-----------------------------------------------------------------------------
(* The steps of a run.                                                     *)

\* Only what puts a member right that the run saw no customer of may give a
\* customer a number.
LEMMA WritesForLinks ==
  ASSUME SyncInv, NEW p \in Run, NEW m \in Member, NEW c \in WritesFor(run[p], m)
  PROVE  ~Claims(c) /\ (Links(c) => c.want.ref = m /\ Linked(run[p].seen, m) = {})
<1> DEFINE l == run[p]
           is == [name |-> "full", phone |-> m, ref |-> m, notes |-> "ours"]
<1>1. is \in Customer /\ IsThere(is) /\ is.ref = m
  BY Parameters, CustomerFields DEF Name, IsThere
<1>2. l.seen \in [Row -> Customer]
  BY InRun, RunFields
<1>3. \A r \in Linked(l.seen, m) \cup Unlinked(l.seen, m) :
        r \in Row /\ IsThere(l.seen[r]) /\ l.seen[r] \in Customer
  BY <1>2 DEF Linked, Unlinked
<1>4. {"name"} \in SUBSET Field /\ {"name", "ref"} \in SUBSET Field
  BY DEF Field
<1>5. CASE Linked(l.seen, m) # {}
  <2>1. PICK r \in Newest(Linked(l.seen, m)) : c = Updating(r, l.seen[r], is, {"name"})
    BY <1>5 DEF WritesFor
  <2>2. r \in Row /\ IsThere(l.seen[r]) /\ l.seen[r] \in Customer
    BY <1>3 DEF Newest
  <2> HIDE DEF is
  <2>3. c.at = "patch" /\ "notes" \notin c.parts /\ "data" \notin c.parts
    BY <1>1, <1>4, <2>1, <2>2, UpdatingType
  <2>4. QED
    BY <2>3 DEF Claims, Links
<1>6. CASE Linked(l.seen, m) = {} /\ Adopted(l, m) # {}
  <2>1. PICK r \in Adopted(l, m) : c = Updating(r, l.seen[r], is, {"name", "ref"})
    BY <1>6 DEF WritesFor
  <2>2. r \in Row /\ IsThere(l.seen[r]) /\ l.seen[r] \in Customer
    BY <1>3 DEF Adopted
  <2> HIDE DEF is
  <2>3. c.at = "patch" /\ "notes" \notin c.parts /\ c.want.ref = m
    BY <1>1, <1>4, <2>1, <2>2, UpdatingType
  <2>4. QED
    BY <1>6, <2>3 DEF Claims, Links
<1>7. CASE Linked(l.seen, m) = {} /\ Adopted(l, m) = {}
  <2>1. c = Creating(is)
    BY <1>7 DEF WritesFor
  <2>2. c.at = "account" /\ c.want = is
    BY <2>1 DEF Creating, Writing
  <2>3. QED
    BY <1>7, <2>2 DEF Claims, Links
<1>8. QED
  BY <1>5, <1>6, <1>7

\* A run that reads a page has what stands on it.
LEMMA PageRead ==
  ASSUME SyncInv, RowsInv, MaxRow <= PageSize * MaxPages, NEW p \in Run \ misled,
         run[p].at = "scan", NEW r \in Row, Kept[r] # 0, NEW seen,
         seen = [s \in Row |->
                  IF s \in OnPage(run[p].page) /\ ~IsThere(run[p].seen[s]) THEN entity[s]
                  ELSE run[p].seen[s]]
  PROVE  /\ IsThere(seen[r]) => seen[r].ref = Kept[r]
         /\ IsThere(seen[r]) \/ Position(r) > run[p].page * PageSize
         /\ LastPage(run[p].page) => IsThere(seen[r])
<1>1. /\ IsThere(run[p].seen[r]) => run[p].seen[r].ref = Kept[r]
      /\ IsThere(run[p].seen[r]) \/ Position(r) > (run[p].page - 1) * PageSize
  BY DEF RowsInv, Scanning
<1>2. IsThere(entity[r]) /\ entity[r].ref = Kept[r] /\ Position(r) \in Nat
  BY KeptThere
<1>3. PICK n \in Nat : n = run[p].page
  BY InRun, RunFields, Parameters
<1>4. (n - 1) * PageSize \in Int /\ n * PageSize \in Int
  BY <1>3, Parameters
<1>5. seen[r] \in {entity[r], run[p].seen[r]}
  OBVIOUS
<1>6. IsThere(seen[r]) \/ Position(r) > n * PageSize
  <2>1. CASE IsThere(run[p].seen[r])
    BY <2>1
  <2>2. CASE ~IsThere(run[p].seen[r]) /\ Position(r) <= n * PageSize
    <3>1. Position(r) \in (n - 1) * PageSize + 1..n * PageSize
      BY <1>1, <1>2, <1>3, <1>4, <2>2
    <3>2. r \in OnPage(n)
      BY <1>2, <3>1 DEF OnPage
    <3>3. QED
      BY <1>2, <1>3, <2>2, <3>2
  <2>3. QED
    BY <1>2, <1>4, <2>1, <2>2
<1>7. LastPage(n) => ~(Position(r) > n * PageSize)
  <2>1. CASE n = MaxPages
    <3>1. n * PageSize = PageSize * MaxPages
      BY <2>1, Parameters
    <3>2. Position(r) <= MaxRow
      BY Positions
    <3>3. QED
      BY <1>2, <1>4, <3>1, <3>2, Parameters
  <2>2. CASE n * PageSize >= Cardinality({s \in Row : IsThere(entity[s])})
    <3>1. /\ Position(r) <= Cardinality({s \in Row : IsThere(entity[s])})
          /\ Cardinality({s \in Row : IsThere(entity[s])}) \in Nat
      BY Positions, RowSets
    <3>2. QED
      BY <1>2, <1>4, <2>2, <3>1
  <2>3. QED
    BY <2>1, <2>2 DEF LastPage
<1>8. QED
  BY <1>1, <1>2, <1>3, <1>5, <1>6, <1>7

LEMMA RowsAll ==
  ASSUME SyncInv, RowsInv, History, MaxRow <= PageSize * MaxPages, NEW p \in Run, All(p)
  PROVE  RowsInv'
<1>1. run[p].at = "scan"
  BY DEF All
<1>2. PICK l : /\ RunMoves(p, l, call[p])
               /\ l.at = IF LastPage(run[p].page) THEN "active" ELSE "scan"
               /\ l.page = run[p].page + 1
               /\ l.seen = [r \in Row |->
                    IF r \in OnPage(run[p].page) /\ ~IsThere(run[p].seen[r]) THEN entity[r]
                    ELSE run[p].seen[r]]
  BY AllMoves
<1>3. /\ \A o \in Run : run'[o] = IF o = p THEN l ELSE run[o]
      /\ call' = [call EXCEPT ![p] = call[p]] /\ UNCHANGED tables /\ entity' = entity
      /\ p \in Caller /\ call[p] \in Write /\ call[p].at = "idle"
  BY <1>1, <1>2, InRun, Parameters DEF RunMoves, SyncInv, StateTypeOK, tables
<1>4. \A o \in Run : o # p => run'[o].at = "idle"
  BY <1>1, <1>3, OneWriter
<1>5. p \notin misled' => p \notin misled
  <2>1. run'[p].at # "idle"
    BY <1>2, <1>3
  <2>2. QED
    BY <2>1, StillWell
<1>6. \A r \in Row : Kept'[r] = Kept[r]
  BY <1>3, KeptStays
<1>7. ASSUME p \notin misled', NEW r \in Row, Kept[r] # 0
      PROVE  /\ IsThere(l.seen[r]) => l.seen[r].ref = Kept[r]
             /\ IsThere(l.seen[r]) \/ Position(r) > run[p].page * PageSize
             /\ LastPage(run[p].page) => IsThere(l.seen[r])
  BY <1>1, <1>2, <1>5, <1>7, PageRead
<1>8. Scanning'
  <2>1. SUFFICES ASSUME NEW o \in Run \ misled', run'[o].at = "scan", NEW r \in Row, Kept'[r] # 0
                 PROVE  /\ IsThere(run'[o].seen[r]) => run'[o].seen[r].ref = Kept'[r]
                        /\ \/ IsThere(run'[o].seen[r])
                           \/ Position(r)' > (run'[o].page - 1) * PageSize
    BY DEF Scanning, IsThere
  <2>2. o = p /\ run'[o] = l
    BY <1>3, <1>4, <2>1
  <2>3. l.page - 1 = run[p].page
    BY <1>2, InRun, RunFields
  <2>4. Position(r)' = Position(r)
    BY <1>3 DEF Position, IsThere
  <2>5. QED
    BY <1>6, <1>7, <2>1, <2>2, <2>3, <2>4
<1>9. \A o \in Run \ misled' : run'[o].at = "active" =>
        \A m \in run'[o].todo : Linked(run'[o].seen, m) = {} => Ours(m) = {}
  <2>1. SUFFICES ASSUME NEW o \in Run \ misled', run'[o].at = "active", NEW m \in run'[o].todo,
                        Linked(run'[o].seen, m) = {}, NEW r \in Row, Kept[r] = m
                 PROVE  FALSE
    BY DEF Ours
  <2>2. o = p /\ run'[o] = l /\ LastPage(run[p].page)
    BY <1>2, <1>3, <1>4, <2>1
  <2>3. m # 0
    <3>1. l.todo \subseteq Member
      BY <1>2, <2>1, <2>2 DEF RunMoves
    <3>2. QED
      BY <2>1, <2>2, <3>1, Parameters
  <2>4. IsThere(l.seen[r]) /\ l.seen[r].ref = m
    BY <1>7, <2>1, <2>2, <2>3
  <2>5. QED
    BY <2>1, <2>2, <2>4 DEF Linked
<1>10. ~Links(call[p]) /\ ~Claims(call[p])
  BY <1>3, LinksAt
<1>11. QED
  BY <1>3, <1>8, <1>9, <1>10, RowsQuiet
LEMMA RowsReconcile ==
  ASSUME SyncInv, RowsInv, History, NEW p \in Run, Reconcile(p)
  PROVE  RowsInv'
<1>1. run[p].at = "active"
  BY DEF Reconcile
<1>2. PICK m \in First(run[p].todo) : \E l, c :
           /\ RunMoves(p, l, c)
           /\ l.at = run[p].at /\ l.seen = run[p].seen /\ l.todo = run[p].todo \ {m}
           /\ c = NoWrite \/ c \in WritesFor(run[p], m)
  BY ReconcileMoves
<1>3. PICK l, c : /\ RunMoves(p, l, c)
                  /\ l.at = run[p].at /\ l.seen = run[p].seen /\ l.todo = run[p].todo \ {m}
                  /\ c = NoWrite \/ c \in WritesFor(run[p], m)
  BY <1>2
<1>4. m \in run[p].todo /\ m \in Member
  BY <1>1 DEF First, SyncInv, InHand
<1>5. /\ \A o \in Run : run'[o] = IF o = p THEN l ELSE run[o]
      /\ call' = [call EXCEPT ![p] = c] /\ UNCHANGED tables
      /\ p \in Caller /\ c \in Write
  BY <1>3, Parameters DEF RunMoves, SyncInv, StateTypeOK
<1>6. ~Claims(c) /\ (Links(c) => c.want.ref = m /\ Linked(run[p].seen, m) = {})
  <2>1. ~Claims(NoWrite) /\ ~Links(NoWrite)
    BY WriteFields DEF Claims, Links
  <2>2. QED
    BY <1>3, <1>4, <2>1, WritesForLinks
<1>7. Scanning'
  <2>1. entity' = entity /\ run'[p].at # "scan"
    BY <1>1, <1>3, <1>5 DEF tables
  <2>2. QED
    BY <1>5, <2>1, ScanQuiet
<1>8. \A o \in Run \ misled' : run'[o].at = "active" => o \notin misled /\ run[o].at = "active"
  BY <1>1, <1>5, StillWell
<1>9. \A o \in Run \ misled' : run'[o].at = "active" =>
        \A n \in run'[o].todo : Linked(run'[o].seen, n) = {} => Ours(n) = {}
  BY <1>3, <1>5, <1>8 DEF RowsInv, ToDo
<1>10. p \in Run \ misled' /\ Links(c) =>
         /\ run'[p].at = "active" /\ c.want.ref \notin run'[p].todo
         /\ Ours(c.want.ref) = {}
  BY <1>1, <1>3, <1>4, <1>5, <1>6, <1>8 DEF RowsInv, ToDo
<1>11. QED
  BY <1>5, <1>6, <1>7, <1>9, <1>10, RowsQuiet

\* A run that neither reads the till nor goes through the members.
LEMMA RowsTurn ==
  ASSUME SyncInv, RowsInv, History, NEW p \in Run, NEW l \in Locals, NEW c \in Write,
         run' = [run EXCEPT ![p] = l], call' = [call EXCEPT ![p] = c], UNCHANGED tables,
         l.at # "active", l.at = "scan" => l.seen = NoRows /\ l.page = 1,
         ~Links(c), ~Claims(c)
  PROVE  RowsInv'
<1>1. \A o \in Run : run'[o] = IF o = p THEN l ELSE run[o]
  BY DEF SyncInv, StateTypeOK
<1>2. Scanning'
  <2>1. entity' = entity
    BY DEF tables
  <2>2. QED
    BY <1>1, <2>1, ScanQuiet
<1>3. \A o \in Run \ misled' : run'[o].at = "active" =>
        \A m \in run'[o].todo : Linked(run'[o].seen, m) = {} => Ours(m) = {}
  BY <1>1, StillWell DEF RowsInv, ToDo
<1>4. p \in Caller
  BY Parameters
<1>5. QED
  BY <1>1, <1>2, <1>3, <1>4, RowsQuiet

LEMMA IdleWrites ==
  ASSUME SyncInv, NEW p \in Run, run[p].at \notin {"active", "leaving"}
  PROVE  /\ call[p] \in Write /\ [call EXCEPT ![p] = call[p]] = call
         /\ ~Links(call[p]) /\ ~Claims(call[p])
  BY InRun, LinksAt

LEMMA RowsRun ==
  ASSUME SyncInv, RowsInv, History, NEW p \in Run,
         \/ Begin(p) \/ Finish(p) \/ MembersForTill(p) \/ EntityStateIndex(p)
         \/ \E stage \in {"members", "scan", "states"} : ReadFails(p, stage)
  PROVE  RowsInv'
<1>1. \A stage \in RunStage, known \in [Member -> MemberStatus] :
        LET l == Starting(stage, known)
        IN  l \in Locals /\ l.at = stage /\ l.seen = NoRows /\ l.page = 1
  BY StartingType
<1>2. /\ \A stage \in {"members", "scan", "idle", "failed", "leaving"} : stage \in RunStage
      /\ FirstMembers \in [Member -> MemberStatus] /\ member \in [Member -> MemberStatus]
  BY Parameters DEF RunStage, SyncInv, StateTypeOK
<1>3. run[p].at \notin {"active", "leaving"} /\ UNCHANGED <<tables, call>>
  <2>1. UNCHANGED tillVars => UNCHANGED <<tables, call>>
    BY DEF tillVars, tables
  <2>2. Begin(p) => run[p].at = "idle" /\ UNCHANGED tillVars
    BY DEF Begin
  <2>3. Finish(p) => run[p].at \in {"end", "failed"} /\ UNCHANGED tillVars
    BY DEF Finish
  <2>4. MembersForTill(p) => run[p].at = "members" /\ UNCHANGED tillVars
    BY DEF MembersForTill
  <2>5. EntityStateIndex(p) => run[p].at = "states" /\ UNCHANGED tillVars
    BY DEF EntityStateIndex
  <2>6. ASSUME NEW stage \in {"members", "scan", "states"}, ReadFails(p, stage)
        PROVE  run[p].at \in {"members", "scan", "states"} /\ UNCHANGED <<tables, call>>
    BY <2>6 DEF ReadFails
  <2>7. run[p].at \in {"idle", "end", "failed", "members", "scan", "states"}
    BY <2>2, <2>3, <2>4, <2>5, <2>6
  <2>8. UNCHANGED <<tables, call>>
    BY <2>1, <2>2, <2>3, <2>4, <2>5, <2>6
  <2>9. QED
    BY <2>7, <2>8
<1>4. \E l \in Locals : /\ run' = [run EXCEPT ![p] = l] /\ l.at # "active"
                        /\ l.at = "scan" => l.seen = NoRows /\ l.page = 1
  <2>1. CASE Begin(p)
    <3>1. run' = [run EXCEPT ![p] = Starting("members", FirstMembers)]
      BY <2>1 DEF Begin, Becoming
    <3>2. QED
      BY <1>1, <1>2, <3>1
  <2>2. CASE Finish(p)
    <3>1. run' = [run EXCEPT ![p] = Starting("idle", FirstMembers)]
      BY <2>2 DEF Finish, Becoming, Idle
    <3>2. QED
      BY <1>1, <1>2, <3>1
  <2>3. CASE MembersForTill(p)
    <3>1. run' = [run EXCEPT ![p] = Starting(IF Active(member) = {} THEN "failed" ELSE "scan", member)]
      BY <2>3 DEF MembersForTill, Becoming
    <3>2. PICK stage \in {"failed", "scan"} : run' = [run EXCEPT ![p] = Starting(stage, member)]
      <4>1. CASE Active(member) = {}
        BY <3>1, <4>1
      <4>2. CASE Active(member) # {}
        BY <3>1, <4>2
      <4>3. QED
        BY <4>1, <4>2
    <3> DEFINE l == Starting(stage, member)
    <3>3. l \in Locals /\ l.at = stage /\ l.seen = NoRows /\ l.page = 1
      BY <1>2, StartingType
    <3>4. run' = [run EXCEPT ![p] = l] /\ stage # "active"
      BY <3>2
    <3> HIDE DEF l
    <3>5. QED
      BY <3>3, <3>4
  <2>4. ASSUME NEW stage \in {"leaving", "failed"}, Goes(p, stage)
        PROVE  \E l \in Locals : run' = [run EXCEPT ![p] = l] /\ l.at = stage
    <3> DEFINE l == Running(stage, run[p].known, run[p].seen, run[p].twice, run[p].page,
                            run[p].todo, run[p].budget)
    <3>1. run' = [run EXCEPT ![p] = l]
      BY <2>4 DEF Goes, Becoming
    <3>2. l \in Locals /\ l.at = stage
      BY <1>2, GoesType
    <3> HIDE DEF l
    <3>3. QED
      BY <3>1, <3>2
  <2>5. CASE EntityStateIndex(p)
    <3>1. Goes(p, "leaving")
      BY <2>5 DEF EntityStateIndex
    <3>2. QED
      BY <2>4, <3>1
  <2>6. CASE \E stage \in {"members", "scan", "states"} : ReadFails(p, stage)
    <3>1. Goes(p, "failed")
      BY <2>6 DEF ReadFails
    <3>2. QED
      BY <2>4, <3>1
  <2>7. QED
    BY <2>1, <2>2, <2>3, <2>5, <2>6
<1>5. QED
  BY <1>3, <1>4, IdleWrites, RowsTurn

LEMMA RowsLeave ==
  ASSUME SyncInv, RowsInv, History, NEW p \in Run, Settled(p) \/ Anonymise(p) \/ Remove(p) \/ Cleared(p)
  PROVE  RowsInv'
<1>1. ~Links(NoWrite) /\ ~Claims(NoWrite) /\ NoWrite \in Write
  BY WriteFields DEF Links, Claims
<1>2. CASE Settled(p)
  <2>1. PICK l, c : /\ RunMoves(p, l, c) /\ run[p].at = "active"
                    /\ l.at \in {"states", "end"} /\ c = NoWrite
    <3>1. \E l, c : RunMoves(p, l, c)
      BY <1>2, SettledMoves
    <3>2. PICK l, c : RunMoves(p, l, c)
      BY <3>1
    <3>3. run'[p] = l /\ call'[p] = c
      BY <3>2, Parameters DEF RunMoves, SyncInv, StateTypeOK
    <3>4. run'[p].at \in {"states", "end"} /\ call'[p] = NoWrite /\ run[p].at = "active"
      BY <1>2, Parameters DEF Settled, Becoming, Running, SyncInv, StateTypeOK
    <3>5. QED
      BY <3>2, <3>3, <3>4
  <2>2. QED
    BY <1>1, <2>1, RowsTurn DEF RunMoves
<1>3. CASE Anonymise(p)
  <2> DEFINE c == Writing("patch", call[p].row, Anonymous, {"name", "data", "notes", "account"})
  <2>1. RunMoves(p, run[p], c) /\ run[p].at = "leaving"
    BY <1>3, AnonymiseMoves DEF Anonymise
  <2>2. ~Links(c) /\ ~Claims(c)
    BY DEF Links, Claims, Writing, Anonymous
  <2> HIDE DEF c
  <2>3. QED
    BY <2>1, <2>2, RowsTurn DEF RunMoves
<1>4. CASE Remove(p)
  <2>1. PICK l, c : RunMoves(p, l, c) /\ c.at \in {"idle", "dropStatus"} /\ l.at = "leaving"
    BY <1>4, RemoveMoves
  <2>2. ~Links(c) /\ ~Claims(c)
    BY <2>1 DEF Links, Claims
  <2>3. QED
    BY <2>1, <2>2, RowsTurn DEF RunMoves
<1>5. CASE Cleared(p)
  <2>1. PICK l, c : RunMoves(p, l, c)
    BY <1>5, ClearedMoves
  <2>2. run'[p] = l /\ call'[p] = c
    BY <2>1, Parameters DEF RunMoves, SyncInv, StateTypeOK
  <2>3. run'[p].at = "end" /\ call'[p] = NoWrite
    BY <1>5, Parameters DEF Cleared, Goes, Becoming, Running, SyncInv, StateTypeOK
  <2>4. QED
    BY <1>1, <2>1, <2>2, <2>3, RowsTurn DEF RunMoves
<1>6. QED
  BY <1>2, <1>3, <1>4, <1>5
-----------------------------------------------------------------------------
(* Every step.                                                             *)

LEMMA RowsDesk ==
  ASSUME SyncInv, RowsInv, History, NEW d \in Desk, Create(d) \/ Update(d) \/ Delete(d),
         UNCHANGED run
  PROVE  RowsInv'
<1>1. PICK c \in Write : DeskAsks(d, c)
  BY DeskWrites
<1>2. call' = [call EXCEPT ![d] = c] /\ UNCHANGED tables /\ entity' = entity
      /\ d \in Caller /\ d \notin Run
  BY <1>1, Parameters DEF DeskAsks, tables
<1>3. Scanning'
  BY <1>2, ScanQuiet
<1>4. \A o \in Run \ misled' : run'[o].at = "active" =>
        \A m \in run'[o].todo : Linked(run'[o].seen, m) = {} => Ours(m) = {}
  BY StillWell DEF RowsInv, ToDo
<1>5. QED
  BY <1>2, <1>3, <1>4, RowsQuiet

LEMMA RowsSame ==
  ASSUME RowsInv, UNCHANGED <<entity, call, run, misled, astray>>
  PROVE  RowsInv'
<1>1. \A r \in Row : Kept'[r] = Kept[r]
  <2>1. \A r \in Row : Mark'[r] = Mark[r]
    BY KeptIs, KeptIsNext
  <2>2. QED
    BY <2>1, KeptIs, KeptIsNext
<1>2. \A n \in Number \ {0} : \A r, s \in Ours(n)' : r = s
  BY <1>1 DEF RowsInv, Ours
<1>3. Scanning'
  <2>1. ASSUME NEW r \in Row PROVE Position(r)' = Position(r)
    BY DEF Position, IsThere
  <2>2. QED
    BY <1>1, <2>1 DEF RowsInv, Scanning, IsThere
<1>4. ToDo' /\ Doing'
  BY <1>1 DEF RowsInv, ToDo, Doing, Ours, Linked, Links, IsThere
<1>5. QED
  BY <1>2, <1>3, <1>4 DEF RowsInv, Claims

\* A step of nobody's writes: customers stay or go.
LEMMA RowsLeft ==
  ASSUME SyncInv, RowsInv, History, UNCHANGED <<call, run>>,
         \A r \in Row : entity'[r] = entity[r] \/ entity'[r] = NoCustomer
  PROVE  RowsInv'
<1>1. \A r \in Row : Kept'[r] = Kept[r] \/ Kept'[r] = 0
  BY KeptLeft
<1>2. PICK p \in Run : p \in Caller
  BY Parameters
<1>3. /\ call' = [call EXCEPT ![p] = call[p]] /\ call[p] \in Write /\ ~Claims(call[p])
      /\ UNCHANGED run
  BY <1>2, InRun DEF RowsInv
<1>4. QED
  BY <1>1, <1>2, <1>3, RowsCall

LEMMA RowsStep ==
  ASSUME MaxRow <= PageSize * MaxPages
  PROVE  SyncInv /\ RowsInv /\ [SyncNext]_<<syncVars, history>> => RowsInv'
<1> SUFFICES ASSUME SyncInv, RowsInv, SyncNext \/ UNCHANGED <<syncVars, history>> PROVE RowsInv'
  OBVIOUS
<1>1. CASE UNCHANGED <<syncVars, history>>
  BY <1>1, RowsSame DEF syncVars, tillVars, tables, history
<1> SUFFICES ASSUME Act, History PROVE RowsInv'
  BY <1>1 DEF SyncNext
<1>2. ASSUME NEW p \in Run, RunStep(p) PROVE RowsInv'
  <2>1. CASE TillCall(p) /\ UNCHANGED <<member, running, run>>
    BY <2>1, RowsTillCall, Parameters
  <2>2. QED
    BY <1>2, <2>1, RowsAll, RowsReconcile, RowsRun, RowsLeave DEF RunStep
<1>3. ASSUME UNCHANGED <<call, run>>,
             \A r \in Row : entity'[r] = entity[r] \/ entity'[r] = NoCustomer
      PROVE  RowsInv'
  BY <1>3, RowsLeft
<1>4. ASSUME NEW r \in Row, CashierDeletes(r), UNCHANGED <<member, running, run, index>>
      PROVE  RowsInv'
  <2>1. UNCHANGED <<call, run>> /\ entity' = [entity EXCEPT ![r] = NoCustomer]
    BY <1>4 DEF CashierDeletes
  <2>2. QED
    BY <1>3, <2>1 DEF SyncInv, StateTypeOK
<1>5. ASSUME UNCHANGED <<tillVars, run>> PROVE RowsInv'
  BY <1>3, <1>5 DEF tillVars, tables
<1>6. ASSUME NEW m \in Member, Joins(m) \/ Leaves(m) PROVE RowsInv'
  BY <1>5, <1>6, MemberStep
<1>7. CASE Lookup
  BY <1>5, <1>7 DEF Lookup
<1>8. CASE Restart
  <2>1. /\ UNCHANGED entity /\ \A w \in Caller : call'[w] = NoWrite
        /\ \A p \in Run : run'[p].at = "idle" /\ p \in Caller
    BY <1>8, RestartStep, Parameters DEF tables
  <2>2. \A p \in Run : ~Links(call'[p]) /\ ~Claims(call'[p])
    BY <2>1, WriteFields, LinksAt
  <2>3. Scanning' /\ ToDo'
    BY <2>1 DEF Scanning, ToDo
  <2>4. Doing'
    BY <2>2 DEF Doing, Links
  <2>5. \A n \in Number \ {0} : \A r, s \in Ours(n)' : r = s
    BY <2>1, KeptStays DEF RowsInv, Ours
  <2>6. QED
    BY <2>2, <2>3, <2>4, <2>5 DEF RowsInv, Claims
<1>9. ASSUME NEW d \in Desk, TillCall(d), UNCHANGED run PROVE RowsInv'
  BY <1>9, RowsTillCall, Parameters
<1>10. QED
  BY <1>2, <1>4, <1>6, <1>7, <1>8, <1>9, RowsRun, RowsDesk DEF Act

\* However many staff change customers by what they read a while ago, and
\* however runs, restarts, lost answers and deletions follow each other, the
\* sync neither makes nor takes up a second customer for a member, on a till
\* whose customers are within the pages it reads.  Left out are customers whose
\* number an edit has set since, and those of a run that a deletion misled.
THEOREM OneCustomer ==
  ASSUME MaxRow <= PageSize * MaxPages
  PROVE  SyncSpec => []NoSecondCustomer
<1>1. SyncInv /\ RowsInv => NoSecondCustomer
  <2>1. SUFFICES ASSUME SyncInv, RowsInv, NEW r \in Row \ astray, NEW s \in Row \ astray,
                        Mark[r] # 0, Mark[s] = Mark[r]
                 PROVE  r = s
    BY DEF NoSecondCustomer
  <2>2. entity[r] \in Customer
    BY <2>1 DEF SyncInv, StateTypeOK
  <2>3. Mark[r] \in Number \ {0}
    BY <2>1, <2>2, KeptIs, CustomerFields
  <2>4. PICK n \in Number \ {0} : n = Mark[r]
    BY <2>3
  <2>5. r \in Ours(n) /\ s \in Ours(n)
    BY <2>1, <2>4, KeptIs DEF Ours
  <2>6. QED
    BY <2>1, <2>5 DEF RowsInv
<1>2. SyncInv /\ RowsInv /\ [SyncNext]_<<syncVars, history>> => (SyncInv /\ RowsInv)'
  BY SyncStep, RowsStep
<1>3. SyncInit => SyncInv /\ RowsInv
  BY SyncInitially, RowsInitially
<1>4. QED
  BY <1>1, <1>2, <1>3, PTL DEF SyncSpec
-----------------------------------------------------------------------------
(* The till's customers are those of the roster.                           *)

\* A row that may still get its first customer.
Open(r) == r > made \/ \E w \in Caller : call[w].at = "entity" /\ call[w].row = r

RosterInv == SyncInv /\ HalfInv /\ GuestInv /\ RowsInv

LEMMA RosterRow ==
  ASSUME NEW r \in Row
  PROVE  /\ Life[r] = IF IsThere(entity[r]) THEN "there" ELSE IF Open(r) THEN "free" ELSE "gone"
         /\ Life[r] \in {"free", "there", "gone"}
  BY DEF Life, Open

\* The same, of the state after a step.
LEMMA RosterRowNext ==
  ASSUME NEW r \in Row
  PROVE  /\ Life'[r] = IF IsThere(entity'[r]) THEN "there" ELSE IF Open(r)' THEN "free" ELSE "gone"
         /\ Life'[r] \in {"free", "there", "gone"}
  BY DEF Life, Open, IsThere

LEMMA RosterMaps ==
  /\ Life = [r \in Row |-> Life[r]] /\ Kept = [r \in Row |-> Kept[r]]
  /\ Life' = [r \in Row |-> Life'[r]] /\ Kept' = [r \in Row |-> Kept'[r]]
  BY DEF Life, Kept

\* A customer that nobody changes keeps its number.
LEMMA KeptSame ==
  ASSUME History, NEW r \in Row, entity'[r] = entity[r]
  PROVE  Kept'[r] = Kept[r]
  BY KeptIs, KeptIsNext, KeptNext

\* Customers stay, and no row opens: at most some rows are given up.
LEMMA RosterWaste ==
  ASSUME History, UNCHANGED entity, \A r \in Row : Open(r)' => Open(r)
  PROVE  R!Waste
<1>1. \A r \in Row : Kept'[r] = Kept[r]
  BY KeptStays
<1>2. \A r \in Row : Life'[r] = Life[r] \/ (Life[r] = "free" /\ Life'[r] = "gone")
  BY RosterRow, RosterRowNext
<1>3. Life' \in [Row -> {"free", "there", "gone"}] /\ Kept' = Kept
  BY <1>1, RosterMaps, RosterRowNext
<1>4. QED
  BY <1>2, <1>3 DEF R!Waste

\* A step that is about the row x alone.
LEMMA RosterOne ==
  ASSUME History, NEW x \in Row,
         \A r \in Row : r # x => entity'[r] = entity[r] /\ (Open(r)' <=> Open(r))
  PROVE  /\ Life' = [Life EXCEPT ![x] = Life'[x]]
         /\ Kept' = [Kept EXCEPT ![x] = Kept'[x]]
<1>1. \A r \in Row : r # x => Life'[r] = Life[r] /\ Kept'[r] = Kept[r]
  BY KeptSame, RosterRow, RosterRowNext
<1>2. QED
  BY <1>1, RosterMaps

\* A number that no customer of the sync's making bears is vacant.
LEMMA RosterVacant ==
  ASSUME NEW n \in Number \ {0}, Ours(n) = {}
  PROVE  R!Vacant(n)
<1>1. \A s \in Row : Kept[s] # n
  BY DEF Ours
<1>2. QED
  BY <1>1 DEF R!Vacant

\* Where the caller w goes from its call, which rows are open changes for the
\* row of that call at most.
LEMMA RosterOpen ==
  ASSUME SyncInv, NEW w \in Caller, NEW c \in Write, call' = [call EXCEPT ![w] = c],
         c.at # "entity", made' = made
  PROVE  /\ \A r \in Row : Open(r)' => Open(r)
         /\ \A r \in Row : r # call[w].row => (Open(r)' <=> Open(r))
<1>1. \A v \in Caller : call'[v] = IF v = w THEN c ELSE call[v]
  BY DEF SyncInv, StateTypeOK
<1>2. QED
  BY <1>1 DEF Open

\* A customer goes: nobody was about to insert it, so its row stays closed.
LEMMA RosterRemove ==
  ASSUME SyncInv, HalfInv, History, NEW x \in Row \ Guests, IsThere(entity[x]),
         entity' = [entity EXCEPT ![x] = NoCustomer],
         \A r \in Row : Open(r)' => Open(r),
         \A r \in Row : r # x => (Open(r)' <=> Open(r))
  PROVE  R!Remove(x)
<1>1. \A r \in Row : entity'[r] = IF r = x THEN NoCustomer ELSE entity[r]
  BY DEF SyncInv, StateTypeOK
<1>2. ~Open(x)
  <2>1. ~(x > made)
    BY NoCustomerType DEF SyncInv, Unmade
  <2>2. ASSUME NEW v \in Caller, call[v].at = "entity", call[v].row = x PROVE FALSE
    BY <2>2 DEF HalfInv, Alone
  <2>3. QED
    BY <2>1, <2>2 DEF Open
<1>3. Life[x] = "there"
  BY RosterRow
<1>4. Life'[x] = "gone" /\ Kept'[x] = 0
  BY <1>1, <1>2, NoCustomerType, KeptIsNext, RosterRowNext
<1>5. Life' = [Life EXCEPT ![x] = "gone"] /\ Kept' = [Kept EXCEPT ![x] = 0]
  BY <1>1, <1>4, RosterOne
<1>6. QED
  BY <1>3, <1>5 DEF R!Remove

LEMMA RosterInsertAccount ==
  ASSUME RosterInv, History, NEW w \in Caller, InsertAccount(w)
  PROVE  R!Next
<1>1. PICK o \in Outcome :
        /\ made' = made + (IF o = "refused" THEN 0 ELSE 1)
        /\ call' = [call EXCEPT ![w] =
             IF o = "done" THEN Writing("entity", made + 1, call[w].want, {}) ELSE NoWrite]
  BY DEF InsertAccount
<1>2. UNCHANGED entity /\ made \in Nat
  BY Parameters DEF InsertAccount, RosterInv, SyncInv, StateTypeOK
<1>3. \A v \in Caller : \/ call'[v] = call[v]
                        \/ call'[v].at # "entity" \/ call'[v].row = made + 1
  <2>1. Writing("entity", made + 1, call[w].want, {}).row = made + 1 /\ NoWrite.at # "entity"
    BY DEF Writing, NoWrite
  <2>2. QED
    BY <1>1, <2>1 DEF RosterInv, SyncInv, StateTypeOK
<1>4. made + 1 > made /\ \A r \in Row : r > made' => r > made
  BY <1>1, <1>2 DEF Row
<1>5. \A r \in Row : Open(r)' => Open(r)
  BY <1>3, <1>4 DEF Open
<1>6. QED
  BY <1>2, <1>5, RosterWaste DEF R!Next

LEMMA RosterInsertEntity ==
  ASSUME RosterInv, History, NEW w \in Caller, InsertEntity(w)
  PROVE  R!Next
<1> DEFINE x == call[w].row
           want == call[w].want
<1>1. PICK o \in Outcome :
        /\ entity' = IF o = "refused" THEN entity ELSE [entity EXCEPT ![x] = want]
        /\ Step(w, o, "status", "undoAccount")
  BY DEF InsertEntity
<1>2. call[w].at = "entity" /\ made' = made
  BY DEF InsertEntity
<1>3. x \in Row /\ want \in Customer /\ want.ref \in Number /\ IsThere(want)
  BY <1>2, CalledRow, CustomerFields DEF RosterInv, SyncInv, Meant, About
<1>4. ~IsThere(entity[x])
  BY <1>2 DEF RosterInv, HalfInv, Alone
<1>5. PICK c \in Write : call' = [call EXCEPT ![w] = c] /\ c.at # "entity"
  <2>1. SyncInv /\ call[w].at \notin {"idle", "account"}
    BY <1>2 DEF RosterInv
  <2>2. QED
    BY <1>1, <2>1, StepsAt, Targets
<1>6. /\ \A r \in Row : Open(r)' => Open(r)
      /\ \A r \in Row : r # x => (Open(r)' <=> Open(r))
  BY <1>2, <1>5, RosterOpen DEF RosterInv
<1>7. CASE o = "refused"
  BY <1>1, <1>6, <1>7, RosterWaste DEF R!Next
<1>8. CASE o # "refused"
  <2>1. \A r \in Row : entity'[r] = IF r = x THEN want ELSE entity[r]
    BY <1>1, <1>3, <1>8 DEF RosterInv, SyncInv, StateTypeOK
  <2>2. Life' = [Life EXCEPT ![x] = "there"]
    BY <1>3, <1>6, <2>1, RosterOne, RosterRowNext
  <2>3. Life[x] = "free"
    BY <1>2, <1>3, <1>4, RosterRow DEF Open
  <2>4. Kept'[x] = 0 \/ (WellRead /\ Kept'[x] = want.ref /\ want.notes = "ours")
    <3>1. Mark[x] = 0 /\ Kept[x] = 0
      BY <1>3, <1>4, KeptIs
    <3>2. Mark'[x] = 0 \/ (Mark'[x] = want.ref /\ want.notes = "ours")
      BY <1>3, <2>1, KeptIsNext
    <3>3. QED
      BY <1>3, <3>1, <3>2, KeptNext
  <2>5. PICK n \in Number : n = Kept'[x]
    BY <1>3, <2>4 DEF Number
  <2>6. Kept' = [Kept EXCEPT ![x] = n]
    BY <1>3, <1>6, <2>1, <2>5, RosterOne
  <2>7. n = 0 \/ R!Vacant(n)
    <3>1. CASE n # 0
      <4>1. WellRead /\ n = want.ref /\ want.notes = "ours"
        BY <2>4, <2>5, <3>1
      <4>2. w \in Run \ misled
        BY <1>5, <4>1, CallWell DEF RosterInv
      <4>3. Links(call[w])
        BY <1>2, <3>1, <4>1 DEF Links
      <4>4. Ours(n) = {}
        BY <4>1, <4>2, <4>3 DEF RosterInv, RowsInv, Doing
      <4>5. QED
        BY <3>1, <4>4, RosterVacant
    <3>2. QED
      BY <3>1
  <2>8. R!Add(x)
    BY <2>2, <2>3, <2>6, <2>7 DEF R!Add
  <2>9. QED
    BY <1>3, <2>8 DEF R!Next
<1>9. QED
  BY <1>7, <1>8

\* A change gives a number to a customer that nobody else has it for, takes one
\* off, or neither; a customer that is gone stays gone.
LEMMA RosterUpdateEntity ==
  ASSUME RosterInv, History, NEW w \in Caller, UpdateEntity(w)
  PROVE  R!Next
<1> DEFINE x == call[w].row
           is == Patched(call[w], entity[x])
<1>1. PICK o \in Outcome :
        /\ Answers(o, IsThere(entity[x]))
        /\ entity' = IF o = "refused" THEN entity ELSE [entity EXCEPT ![x] = is]
        /\ Step(w, o, IF "account" \in call[w].parts THEN "rename" ELSE "done", "failed")
  BY DEF UpdateEntity, Patched
<1>2. call[w].at = "patch" /\ made' = made
  BY DEF UpdateEntity
<1>3. x \in Row /\ call[w] \in Write /\ entity[x] \in Customer /\ IsThere(call[w].want)
  BY <1>2, CalledRow DEF RosterInv, SyncInv, Meant, About
<1>4. is \in Customer /\ is.ref \in Number
  BY <1>3, PatchedType, CustomerFields
<1>5. PICK c \in Write : call' = [call EXCEPT ![w] = c] /\ c.at # "entity"
  <2>1. SyncInv /\ call[w].at \notin {"idle", "account"}
    BY <1>2 DEF RosterInv
  <2>2. QED
    BY <1>1, <2>1, StepsAt, Targets
<1>6. /\ \A r \in Row : Open(r)' => Open(r)
      /\ \A r \in Row : r # x => (Open(r)' <=> Open(r))
  BY <1>2, <1>5, RosterOpen DEF RosterInv
<1>7. CASE o = "refused"
  BY <1>1, <1>6, <1>7, RosterWaste DEF R!Next
<1>8. CASE o # "refused"
  <2>1. \A r \in Row : entity'[r] = IF r = x THEN is ELSE entity[r]
    BY <1>1, <1>3, <1>8 DEF RosterInv, SyncInv, StateTypeOK
  <2>2. IsThere(entity[x])
    BY <1>1, <1>8 DEF Answers
  <2>3. IsThere(is)
    BY <1>3, <2>2 DEF Patched, IsThere
  <2>4. Life' = Life
    <3>1. Life[x] = "there" /\ Life'[x] = "there"
      BY <1>3, <2>1, <2>2, <2>3, RosterRow, RosterRowNext
    <3>2. Life' = [Life EXCEPT ![x] = Life'[x]]
      BY <1>3, <1>6, <2>1, RosterOne
    <3>3. QED
      BY <1>3, <3>1, <3>2, RosterMaps
  <2>5. Kept' = [Kept EXCEPT ![x] = Kept'[x]]
    BY <1>3, <1>6, <2>1, RosterOne
  <2>6. CASE Kept'[x] = Kept[x]
    <3>1. Kept' = Kept
      BY <1>3, <2>5, <2>6, RosterMaps
    <3>2. R!Waste
      <4>1. Life \in [Row -> {"free", "there", "gone"}]
        BY RosterMaps, RosterRow
      <4>2. QED
        BY <2>4, <3>1, <4>1 DEF R!Waste
    <3>3. QED
      BY <3>2 DEF R!Next
  <2>7. CASE Kept'[x] = 0 /\ Kept[x] # 0
    <3>1. R!Release(x)
      BY <2>4, <2>5, <2>7 DEF R!Release
    <3>2. QED
      BY <1>3, <3>1 DEF R!Next
  <2>8. CASE Kept'[x] # 0 /\ Kept'[x] # Kept[x]
    <3>1. WellRead /\ Kept'[x] = Mark'[x] /\ Mark'[x] # Mark[x] /\ Mark'[x] # 0
      BY <1>3, <2>8, KeptNext
    <3>2. w \in Run \ misled
      BY <1>5, <3>1, CallWell DEF RosterInv
    <3>3. entity'[x] = Patched(call[w], entity[x])
      BY <1>3, <2>1
    <3>4. Links(call[w]) /\ Mark'[x] = call[w].want.ref
      BY <1>2, <1>3, <2>2, <3>1, <3>2, <3>3, PatchLinks DEF RosterInv
    <3>5. call[w].want.ref \in Number \ {0}
      BY <1>3, <3>1, <3>4, WriteFields, CustomerFields
    <3>6. PICK n \in Number \ {0} : n = call[w].want.ref
      BY <3>5
    <3>7. Ours(n) = {}
      BY <3>2, <3>4, <3>6 DEF RosterInv, RowsInv, Doing
    <3>8. R!Vacant(n) /\ Kept'[x] = n
      BY <3>1, <3>4, <3>6, <3>7, RosterVacant
    <3>9. Life[x] = "there" /\ x \notin Guests
      BY <1>3, <2>2, RosterRow DEF RosterInv, GuestInv
    <3>10. R!Keep(x)
      BY <2>4, <2>5, <3>8, <3>9 DEF R!Keep
    <3>11. QED
      BY <1>3, <3>10 DEF R!Next
  <2>9. QED
    BY <2>6, <2>7, <2>8
<1>9. QED
  BY <1>7, <1>8

LEMMA RosterDeleteEntity ==
  ASSUME RosterInv, History, NEW w \in Caller, DeleteEntity(w)
  PROVE  R!Next
<1> DEFINE x == call[w].row
<1>1. PICK o \in Outcome :
        /\ Answers(o, IsThere(entity[x]))
        /\ entity' = IF o = "refused" THEN entity ELSE [entity EXCEPT ![x] = NoCustomer]
        /\ IF call[w].at = "undoEntity" THEN Step(w, o, "undoAccount", "undoAccount")
                                        ELSE Step(w, o, "dropAccount", "failed")
  BY DEF DeleteEntity
<1>2. call[w].at \in {"dropEntity", "undoEntity"} /\ made' = made
  BY DEF DeleteEntity
<1>3. x \in Row /\ x \notin Guests
  BY <1>2, CalledRow DEF RosterInv, GuestInv
<1>4. PICK c \in Write : call' = [call EXCEPT ![w] = c] /\ c.at # "entity"
  <2>1. SyncInv /\ call[w].at \notin {"idle", "account"}
    BY <1>2 DEF RosterInv
  <2>2. QED
    BY <1>1, <2>1, StepsAt, Targets
<1>5. /\ \A r \in Row : Open(r)' => Open(r)
      /\ \A r \in Row : r # x => (Open(r)' <=> Open(r))
  BY <1>2, <1>4, RosterOpen DEF RosterInv
<1>6. CASE o = "refused"
  BY <1>1, <1>5, <1>6, RosterWaste DEF R!Next
<1>7. CASE o # "refused"
  <2>1. IsThere(entity[x])
    BY <1>1, <1>7 DEF Answers
  <2>2. R!Remove(x)
    BY <1>1, <1>3, <1>5, <1>7, <2>1, RosterRemove DEF RosterInv
  <2>3. QED
    BY <1>3, <2>2 DEF R!Next
<1>8. QED
  BY <1>6, <1>7

\* A step that leaves the customers, and leads no caller to insert one.
LEMMA RosterQuiet ==
  ASSUME History, UNCHANGED <<entity, made>>,
         \A v \in Caller : call'[v] = call[v] \/ call'[v].at # "entity"
  PROVE  R!Next
<1>1. \A r \in Row : Open(r)' => Open(r)
  BY DEF Open
<1>2. QED
  BY <1>1, RosterWaste DEF R!Next

LEMMA RosterTillCall ==
  ASSUME RosterInv, History, NEW w \in Caller, TillCall(w)
  PROVE  R!Next
<1>1. ASSUME NEW o \in Outcome, call[w].at \notin {"idle", "account"}, UNCHANGED <<entity, made>>,
             NEW next \in (Stage \ {"entity"}) \cup {"done"},
             NEW otherwise \in (Stage \ {"entity"}) \cup {"done"}, Step(w, o, next, otherwise)
      PROVE  R!Next
  <2>1. PICK c \in Write : call' = [call EXCEPT ![w] = c] /\ c.at # "entity"
    BY <1>1, StepsAt DEF RosterInv
  <2>2. \A v \in Caller : call'[v] = call[v] \/ call'[v].at # "entity"
    BY <2>1 DEF RosterInv, SyncInv, StateTypeOK
  <2>3. QED
    BY <1>1, <2>2, RosterQuiet
<1>2. \A at \in {"done", "undoEntity", "dropEntity", "failed"} : at \in (Stage \ {"entity"}) \cup {"done"}
  BY DEF Stage
<1>3. CASE InsertStatus(w)
  <2>1. PICK o \in Outcome : Step(w, o, "done", "undoEntity")
    BY <1>3 DEF InsertStatus
  <2>2. QED
    BY <1>1, <1>2, <1>3, <2>1 DEF InsertStatus
<1>4. CASE UpdateAccount(w)
  <2>1. PICK o \in Outcome : Step(w, o, "done", "done")
    BY <1>4 DEF UpdateAccount
  <2>2. QED
    BY <1>1, <1>2, <1>4, <2>1 DEF UpdateAccount
<1>5. CASE DeleteStatus(w)
  <2>1. PICK o \in Outcome : Step(w, IF call[w].row \in status THEN o ELSE "done", "dropEntity", "failed")
    BY <1>5 DEF DeleteStatus
  <2>2. (IF call[w].row \in status THEN o ELSE "done") \in Outcome
    BY DEF Outcome
  <2>3. QED
    BY <1>1, <1>2, <1>5, <2>1, <2>2 DEF DeleteStatus
<1>6. CASE DeleteAccount(w)
  <2>1. PICK o \in Outcome : Step(w, o, "failed", "failed") \/ Step(w, o, "done", "done")
    BY <1>6 DEF DeleteAccount
  <2>2. QED
    BY <1>1, <1>2, <1>6, <2>1 DEF DeleteAccount
<1>7. QED
  BY <1>3, <1>4, <1>5, <1>6, RosterInsertAccount, RosterInsertEntity, RosterUpdateEntity,
     RosterDeleteEntity DEF TillCall

LEMMA RosterAct ==
  ASSUME RosterInv, Act, History
  PROVE  R!Next
<1>1. ASSUME UNCHANGED tillVars PROVE R!Next
  <2>1. UNCHANGED <<entity, made, call>>
    BY <1>1 DEF tillVars, tables
  <2>2. QED
    BY <2>1, RosterQuiet
<1>2. ASSUME NEW p \in Run, RunStep(p) PROVE R!Next
  <2>1. CASE Finish(p)
    BY <1>1, <2>1, FinishStep DEF RosterInv
  <2>2. ASSUME NEW l, NEW c, RunMoves(p, l, c), RunReads(p, l, c) PROVE R!Next
    <3>1. c = call[p] \/ c.at # "entity"
      BY <2>2 DEF RunReads
    <3>2. call' = [call EXCEPT ![p] = c] /\ UNCHANGED <<entity, made>>
      BY <2>2 DEF RunMoves, tables
    <3>3. \A v \in Caller : call'[v] = call[v] \/ call'[v].at # "entity"
      BY <3>1, <3>2 DEF RosterInv, SyncInv, StateTypeOK
    <3>4. QED
      BY <3>2, <3>3, RosterQuiet
  <2>3. CASE TillCall(p)
    BY <2>3, RosterTillCall, Parameters
  <2>4. QED
    BY <1>2, <2>1, <2>2, <2>3, RunSteps DEF RosterInv
<1>3. ASSUME NEW p \in Run, Begin(p) PROVE R!Next
  BY <1>1, <1>3 DEF Begin
<1>4. ASSUME NEW d \in Desk, Create(d) \/ Update(d) \/ Delete(d) PROVE R!Next
  <2>1. PICK c \in Write : DeskAsks(d, c) /\ c.at \in {"account", "patch", "dropStatus"}
    BY <1>4, DeskWrites DEF RosterInv
  <2>2. call' = [call EXCEPT ![d] = c] /\ UNCHANGED <<entity, made>>
    BY <2>1 DEF DeskAsks, tables
  <2>3. \A v \in Caller : call'[v] = call[v] \/ call'[v].at # "entity"
    BY <2>1, <2>2 DEF RosterInv, SyncInv, StateTypeOK
  <2>4. QED
    BY <2>2, <2>3, RosterQuiet
<1>5. ASSUME NEW r \in Row, CashierDeletes(r) PROVE R!Next
  <2>1. /\ r \in Handled /\ IsThere(entity[r]) /\ entity' = [entity EXCEPT ![r] = NoCustomer]
        /\ UNCHANGED <<made, call>>
    BY <1>5 DEF CashierDeletes
  <2>2. r \notin Guests
    BY <2>1, Parameters
  <2>3. \A s \in Row : Open(s)' <=> Open(s)
    BY <2>1 DEF Open
  <2>4. R!Remove(r)
    BY <2>1, <2>2, <2>3, RosterRemove DEF RosterInv
  <2>5. QED
    BY <2>4 DEF R!Next
<1>6. ASSUME NEW m \in Member, Joins(m) \/ Leaves(m) PROVE R!Next
  BY <1>1, <1>6, MemberStep DEF RosterInv
<1>7. CASE Lookup
  BY <1>1, <1>7 DEF Lookup
<1>8. CASE Restart
  <2>1. UNCHANGED <<entity, made>> /\ \A w \in Caller : call'[w].at # "entity"
    BY <1>8, RestartStep, WriteFields DEF RosterInv, tables
  <2>2. QED
    BY <2>1, RosterQuiet
<1>9. ASSUME NEW d \in Desk, TillCall(d) PROVE R!Next
  BY <1>9, RosterTillCall, Parameters
<1>10. QED
  BY <1>2, <1>3, <1>4, <1>5, <1>6, <1>7, <1>8, <1>9 DEF Act

LEMMA RosterStep ==
  ASSUME RosterInv, [SyncNext]_<<syncVars, history>>
  PROVE  [R!Next]_(R!vars)
<1>1. CASE UNCHANGED <<syncVars, history>>
  <2>1. UNCHANGED <<entity, made, call, astray>>
    BY <1>1 DEF syncVars, tillVars, tables, history
  <2>2. Life' = Life
    BY <2>1 DEF Life, IsThere
  <2>3. Kept' = Kept
    <3>1. Mark' = Mark
      BY <2>1 DEF Mark, IsThere
    <3>2. QED
      BY <2>1, <3>1 DEF Kept
  <2>4. QED
    BY <2>2, <2>3 DEF R!vars
<1>2. QED
  BY <1>1, RosterAct DEF SyncNext

LEMMA RosterInitially == SyncInit => R!Init
<1> SUFFICES ASSUME SyncInit PROVE R!Init
  OBVIOUS
<1>1. ASSUME NEW r \in Row PROVE Life[r] \in {"free", "there"} /\ Kept[r] = 0
  <2>1. IsThere(entity[r]) \/ r > made
    BY DEF SyncInit, Row
  <2>2. entity[r].notes # "ours"
    BY SyncAssumption DEF SyncInit
  <2>3. QED
    BY <2>1, <2>2, KeptIs, RosterRow DEF Open
<1>2. \A r \in Guests : Life[r] = "there"
  BY RosterRow, SyncAssumption, Parameters DEF SyncInit, NobodyS
<1>3. Life \in [Row -> {"free", "there"}] /\ Kept = [r \in Row |-> 0]
  BY <1>1, RosterMaps
<1>4. QED
  BY <1>2, <1>3 DEF R!Init, R!Nobody

\* However many staff edit, on a till whose customers are within the pages that
\* a run reads: the runs, restarts, lost answers and edits, seen through the
\* mapping, only add customers once, keep them for vacant numbers, release them
\* and remove them.
THEOREM RosterKept ==
  ASSUME MaxRow <= PageSize * MaxPages
  PROVE  SyncSpec => ImplementsRoster
<1>1. RosterInv /\ [SyncNext]_<<syncVars, history>> => [R!Next]_(R!vars)
  BY RosterStep
<1>2. RosterInv /\ [SyncNext]_<<syncVars, history>> => RosterInv'
  BY SyncStep, HalfStep, GuestStep, RowsStep DEF RosterInv
<1>3. SyncInit => RosterInv /\ R!Init
  BY SyncInitially, HalfInitially, GuestsInitially, RowsInitially, RosterInitially DEF RosterInv
<1>4. QED
  BY <1>1, <1>2, <1>3, PTL DEF SyncSpec, ImplementsRoster, R!Spec
=============================================================================
