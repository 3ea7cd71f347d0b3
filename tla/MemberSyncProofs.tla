-------------------------- MODULE MemberSyncProofs --------------------------
(***************************************************************************)
(* Proofs about the member sync, for any till, members, runs, edits of the *)
(* desk, failures, restarts and page sizes: the types, that only one run   *)
(* is under way, that the customer index keeps up, that guests are left    *)
(* alone.                                                                  *)
(***************************************************************************)
EXTENDS MemberSync, TLAPS

LEMMA Parameters ==
  /\ MaxRow \in Nat /\ DeskRow \in Nat /\ MaxUpsets \in Nat
  /\ MaxWrites \in Nat /\ MaxWrites >= 1 /\ PageSize \in Nat /\ PageSize >= 1
  /\ MaxPages \in Nat /\ MaxPages >= 1
  /\ Poll \in Run /\ Desk \cap Run = {} /\ Desk \subseteq Caller /\ Run \subseteq Caller
  /\ Guests \subseteq Row /\ Handled \subseteq Row /\ Handled \cap Guests = {}
  /\ FirstMembers \in [Member -> MemberStatus]
  /\ Member \subseteq Number /\ 0 \notin Member /\ Member \subseteq Nat /\ 0 \in Number
  BY CustomersAssumption, SyncAssumption DEF Caller, Row, Number

LEMMA Inputs ==
  /\ \A c \in Creations : c \in Customer /\ c.notes = "typed" /\ IsThere(c)
  /\ \A e \in Edits : e[1] \in Customer /\ e[2] \in SUBSET Field /\ IsThere(e[1])
  /\ \A x \in Moves : x[1] \in Member /\ x[2] \in {"active", "erased", "merged"}
  BY CustomersAssumption, SyncAssumption

LEMMA CustomerFields ==
  /\ \A c \in Customer : c.name \in Name /\ c.phone \in Number /\ c.ref \in Number
                         /\ c.notes \in {"ours", "typed", "none"}
  /\ \A name \in Name, phone \in Number, ref \in Number, notes \in {"ours", "typed", "none"} :
       [name |-> name, phone |-> phone, ref |-> ref, notes |-> notes] \in Customer
  BY DEF Customer

LEMMA NoCustomerType ==
  /\ NoCustomer \in Customer /\ ~IsThere(NoCustomer) /\ NoRows \in [Row -> Customer]
  /\ NoCustomer.ref = 0 /\ NoCustomer.name = "none" /\ NoCustomer.notes = "none"
  BY Parameters DEF NoCustomer, Customer, Name, IsThere, NoRows

\* A name that is there makes an account name that is there.
LEMMA AccountNames ==
  /\ NoAccount \in {AccountName(c) : c \in Customer}
  /\ \A c \in Customer : IsThere(c) => AccountName(c) # NoAccount
  BY NoCustomerType DEF AccountName, NoAccount, IsThere, NoCustomer

LEMMA WriteType ==
  ASSUME NEW stage \in Stage, NEW row \in 0..MaxRow, NEW want \in Customer,
         NEW parts \in SUBSET Part
  PROVE  Writing(stage, row, want, parts) \in Write
  BY DEF Writing, Write

LEMMA WriteFields ==
  /\ \A c \in Write : /\ c.at \in Stage /\ c.row \in 0..MaxRow
                      /\ c.want \in Customer /\ c.parts \in SUBSET Part
  /\ NoWrite \in Write /\ NoWrite.at = "idle" /\ NoWrite.row = 0
  /\ NoWrite.want = NoCustomer /\ NoWrite.parts = {}
<1>1. NoWrite \in Write
  BY WriteType, NoCustomerType, Parameters DEF NoWrite, Stage
<1>2. QED
  BY <1>1 DEF Write, NoWrite, Writing

LEMMA CreatingType ==
  ASSUME NEW want \in Customer
  PROVE  /\ Creating(want) \in Write /\ Creating(want).at = "account"
         /\ Creating(want).row = 0 /\ Creating(want).want = want
         /\ Creating(want).parts = {}
  BY WriteType, Parameters DEF Creating, Stage, Writing

LEMMA RemovingType ==
  ASSUME NEW r \in Row
  PROVE  /\ Removing(r) \in Write /\ Removing(r).at = "dropStatus"
         /\ Removing(r).row = r /\ Removing(r).want = NoCustomer
         /\ Removing(r).parts = {}
<1>1. r \in 0..MaxRow /\ "dropStatus" \in Stage
  BY Parameters DEF Row, Stage
<1>2. QED
  BY <1>1, WriteType, NoCustomerType DEF Removing, Writing

LEMMA UpdatingType ==
  ASSUME NEW r \in Row, NEW current \in Customer, NEW asked \in Customer,
         NEW fields \in SUBSET Field, IsThere(asked), IsThere(current)
  PROVE  LET u == Updating(r, current, asked, fields)
         IN  /\ u \in Write /\ u.at = "patch" /\ u.row = r /\ IsThere(u.want)
             /\ u.want.notes = IF "notes" \in fields THEN asked.notes ELSE current.notes
             /\ u.want.ref = IF "ref" \in fields THEN asked.ref ELSE current.ref
             /\ "notes" \in u.parts => "notes" \in fields
             /\ "ref" \in fields => "data" \in u.parts
             /\ "data" \in u.parts => fields \cap {"phone", "ref"} # {}
<1> DEFINE want == [name |-> IF "name" \in fields THEN asked.name ELSE current.name,
                    phone |-> IF "phone" \in fields THEN asked.phone ELSE current.phone,
                    ref |-> IF "ref" \in fields THEN asked.ref ELSE current.ref,
                    notes |-> IF "notes" \in fields THEN asked.notes ELSE current.notes]
           renamed == IF AccountName(want) = AccountName(current) THEN {} ELSE {"account"}
           data == IF fields \cap {"phone", "ref"} = {} THEN {} ELSE {"data"}
           parts == (fields \cap {"name", "notes"}) \cup data \cup renamed
<1>1. want \in Customer /\ IsThere(want)
  BY CustomerFields DEF IsThere
<1>2. renamed \in SUBSET {"account"} /\ data \in SUBSET {"data"}
  OBVIOUS
<1>3. parts \in SUBSET Part /\ r \in 0..MaxRow /\ "patch" \in Stage
  BY <1>2, Parameters DEF Part, Row, Stage
<1>4. Updating(r, current, asked, fields) = Writing("patch", r, want, parts)
  BY DEF Updating
<1>5. Writing("patch", r, want, parts) \in Write
  BY <1>1, <1>3, WriteType
<1>6. /\ "notes" \in parts => "notes" \in fields
      /\ "ref" \in fields => "data" \in parts
      /\ "data" \in parts => fields \cap {"phone", "ref"} # {}
  OBVIOUS
<1>7. QED
  BY <1>1, <1>4, <1>5, <1>6 DEF Writing

LEMMA RunType ==
  ASSUME NEW stage \in RunStage, NEW known \in [Member -> MemberStatus],
         NEW seen \in [Row -> Customer], NEW twice \in SUBSET Row, NEW page \in 1..MaxPages + 1,
         NEW todo \in SUBSET (Member \cup Row), NEW budget \in 0..MaxWrites
  PROVE  Running(stage, known, seen, twice, page, todo, budget) \in Locals
  BY DEF Running, Locals

LEMMA RunFields ==
  \A l \in Locals :
    /\ l.at \in RunStage /\ l.known \in [Member -> MemberStatus] /\ l.seen \in [Row -> Customer]
    /\ l.twice \in SUBSET Row /\ l.page \in 1..MaxPages + 1
    /\ l.todo \in SUBSET (Member \cup Row) /\ l.budget \in 0..MaxWrites
  BY DEF Locals

LEMMA StartingType ==
  ASSUME NEW stage \in RunStage, NEW known \in [Member -> MemberStatus]
  PROVE  LET l == Starting(stage, known)
         IN  /\ l \in Locals /\ l.at = stage /\ l.seen = NoRows /\ l.page = 1
             /\ l.todo = {} /\ l.budget = MaxWrites
<1>1. 1 \in 1..MaxPages + 1 /\ MaxWrites \in 0..MaxWrites
  BY Parameters
<1>2. Starting(stage, known) \in Locals
  BY <1>1, RunType, NoCustomerType DEF Starting
<1>3. QED
  BY <1>2 DEF Starting, Running

LEMMA IdleType ==
  /\ Idle \in Locals /\ Idle.at = "idle" /\ Idle.seen = NoRows /\ Idle.page = 1
  /\ LET l == Starting("members", FirstMembers)
     IN  l \in Locals /\ l.at = "members" /\ l.seen = NoRows /\ l.page = 1
<1>1. "idle" \in RunStage /\ "members" \in RunStage
  BY DEF RunStage
<1>2. FirstMembers \in [Member -> MemberStatus]
  BY Parameters
<1>3. QED
  BY <1>1, <1>2, StartingType DEF Idle
-----------------------------------------------------------------------------
(* The invariant of the runs and of their writes.                          *)

Idling(p) == run[p].at = "idle"

\* Only one run is under way, and only while the sync is marked as running.
OneRun ==
  /\ \A p \in Run : ~Idling(p) => running
  /\ \A p, o \in Run : ~Idling(p) /\ ~Idling(o) => p = o

Working == {"active", "states", "leaving", "end", "failed"}

\* A run writes only while it goes through its lists, having paid for it.
Paid ==
  /\ \A p \in Run : call[p].at # "idle" =>
       run[p].at \in {"active", "leaving"} /\ run[p].budget < MaxWrites
  /\ index = "old" => \E p \in Run : run[p].at \in Working /\ run[p].budget < MaxWrites

\* What a run has in hand at each stage.
InHand ==
  \A p \in Run :
    /\ run[p].at \in {"members", "scan"} => run[p].page <= MaxPages
    /\ run[p].at = "active" => run[p].todo \subseteq Member
    /\ run[p].at \in {"states", "leaving"} => \A r \in run[p].todo : r \in Row /\ r <= made

\* A write is about a row that was made, and carries a name.
About(c, top) ==
  /\ c.at \notin {"idle", "account"} => c.row \in Row /\ c.row <= top
  /\ c.at \in {"account", "entity", "patch", "rename"} => IsThere(c.want)
Meant == \A w \in Caller : About(call[w], made)

\* Rows not made yet are empty, and nobody knows of them.
Unmade ==
  /\ \A r \in Row : r > made => entity[r] = NoCustomer /\ account[r] = NoAccount
  /\ \A p \in Run, r \in Row : r > made => ~IsThere(run[p].seen[r])

SyncInv == StateTypeOK /\ OneRun /\ Paid /\ InHand /\ Meant /\ Unmade

\* A call of w to the till touches the row x and leaves w at the write c.
TillMoves(w, c, x) ==
  /\ call[w].at \notin {"idle", "failed"}
  /\ call' = [call EXCEPT ![w] = c] /\ c \in Write
  /\ x \in Row /\ (x = call[w].row \/ x = made + 1)
  /\ c.at # "account" /\ c.row \in {0, x} /\ About(c, made')
  /\ entity' \in [Row -> Customer] /\ account' \in [Row -> {AccountName(d) : d \in Customer}]
  /\ status' \subseteq Row /\ made' \in 0..MaxRow /\ made <= made'
  /\ upsets' \in 0..MaxUpsets /\ lossy' \in BOOLEAN
  /\ \A r \in Row : r # x \/ r > made' => entity'[r] = entity[r] /\ account'[r] = account[r]

LEMMA AnswersType ==
  ASSUME StateTypeOK, NEW o \in Outcome, NEW there \in BOOLEAN, Answers(o, there)
  PROVE  upsets' \in 0..MaxUpsets
  BY Parameters DEF StateTypeOK, Answers

\* Where a call leaves its caller.
LEMMA Steps ==
  ASSUME StateTypeOK, NEW w \in Caller, NEW o \in Outcome,
         NEW next \in Stage \cup {"done"}, NEW otherwise \in Stage \cup {"done"},
         Step(w, o, next, otherwise), call[w].row \in Row
  PROVE  \E c \in Write :
           /\ call' = [call EXCEPT ![w] = c]
           /\ c.row \in {0, call[w].row}
           /\ \/ c = NoWrite
              \/ /\ c.row = call[w].row /\ c.want = call[w].want /\ c.parts = call[w].parts
                 /\ c.at = IF o = "done" THEN next ELSE otherwise
<1> DEFINE at == IF o = "done" THEN next ELSE otherwise
           c == IF at = "done" \/ (at = "failed" /\ w \in Desk) THEN NoWrite
                ELSE Writing(at, call[w].row, call[w].want, call[w].parts)
<1>1. call' = [call EXCEPT ![w] = c]
  BY DEF Step
<1>2. call[w] \in Write
  BY DEF StateTypeOK
<1>3. c \in Write
  <2>1. CASE at = "done" \/ (at = "failed" /\ w \in Desk)
    BY <2>1, WriteFields
  <2>2. CASE ~(at = "done" \/ (at = "failed" /\ w \in Desk))
    <3>1. at \in Stage
      BY <2>2
    <3>2. Writing(at, call[w].row, call[w].want, call[w].parts) \in Write
      BY <1>2, <3>1, WriteFields, WriteType
    <3>3. QED
      BY <2>2, <3>2
  <2>3. QED
    BY <2>1, <2>2
<1>4. c.row \in {0, call[w].row}
  BY WriteFields DEF Writing
<1>5. \/ c = NoWrite
      \/ /\ c.row = call[w].row /\ c.want = call[w].want /\ c.parts = call[w].parts
         /\ c.at = at
  BY DEF Writing
<1>6. QED
  BY <1>1, <1>3, <1>4, <1>5

LEMMA InsertAccountMoves ==
  ASSUME SyncInv, NEW w \in Caller, InsertAccount(w)
  PROVE  \E c \in Write, x \in Row : TillMoves(w, c, x)
<1>1. PICK o \in Outcome :
        /\ Answers(o, TRUE)
        /\ made' = made + (IF o = "refused" THEN 0 ELSE 1)
        /\ account' = IF o = "refused" THEN account
                      ELSE [account EXCEPT ![made + 1] = AccountName(call[w].want)]
        /\ call' = [call EXCEPT ![w] =
             IF o = "done" THEN Writing("entity", made + 1, call[w].want, {}) ELSE NoWrite]
        /\ lossy' = (lossy \/ o = "lost")
  BY DEF InsertAccount
<1>2. call[w].at = "account" /\ made < MaxRow /\ made \in Nat /\ UNCHANGED <<entity, status>>
  BY Parameters DEF InsertAccount, SyncInv, StateTypeOK
<1>3. made + 1 \in Row /\ made + 1 \in 0..MaxRow
  BY <1>2, Parameters DEF Row
<1>4. call[w] \in Write /\ IsThere(call[w].want) /\ call[w].want \in Customer
  BY <1>2, WriteFields DEF SyncInv, StateTypeOK, Meant, About
<1> DEFINE c == IF o = "done" THEN Writing("entity", made + 1, call[w].want, {}) ELSE NoWrite
<1>5. c \in Write /\ c.at # "account" /\ c.row \in {0, made + 1}
  <2>1. Writing("entity", made + 1, call[w].want, {}) \in Write
    BY <1>3, <1>4, WriteType DEF Stage
  <2>2. QED
    BY <2>1, WriteFields DEF Writing
<1>6. About(c, made')
  BY <1>1, <1>2, <1>3, <1>4, WriteFields DEF About, Writing
<1>7. upsets' \in 0..MaxUpsets /\ lossy' \in BOOLEAN
  BY <1>1, AnswersType DEF SyncInv, StateTypeOK
<1>8. made' \in 0..MaxRow /\ made <= made'
  BY <1>1, <1>2, Parameters
<1>9. account' \in [Row -> {AccountName(d) : d \in Customer}]
  BY <1>1, <1>4 DEF SyncInv, StateTypeOK
<1>10. \A r \in Row : r # made + 1 \/ r > made' => account'[r] = account[r]
  BY <1>1, <1>2 DEF SyncInv, StateTypeOK, Row
<1>11. TillMoves(w, c, made + 1)
  BY <1>1, <1>2, <1>3, <1>5, <1>6, <1>7, <1>8, <1>9, <1>10
     DEF TillMoves, SyncInv, StateTypeOK
<1>12. QED
  BY <1>3, <1>5, <1>11

LEMMA CalledRow ==
  ASSUME SyncInv, NEW w \in Caller, call[w].at \notin {"idle", "account"}
  PROVE  /\ call[w] \in Write /\ call[w].row \in Row /\ call[w].row <= made
         /\ call[w].want \in Customer /\ call[w].parts \in SUBSET Part
         /\ entity[call[w].row] \in Customer
         /\ made \in 0..MaxRow
  BY WriteFields DEF SyncInv, StateTypeOK, Meant, About

\* A call that is refused, or changes nothing but the row it is about.
LEMMA RowMoves ==
  ASSUME SyncInv, NEW w \in Caller, call[w].at \notin {"idle", "account", "failed"},
         NEW o \in Outcome, NEW there \in BOOLEAN, Answers(o, there),
         NEW answer \in Outcome,
         NEW next \in (Stage \ {"account"}) \cup {"done"},
         NEW otherwise \in (Stage \ {"account"}) \cup {"done"},
         Step(w, answer, next, otherwise),
         {next, otherwise} \cap {"entity", "patch", "rename"} = {} \/ IsThere(call[w].want),
         entity' \in [Row -> Customer], account' \in [Row -> {AccountName(d) : d \in Customer}],
         status' \subseteq Row, made' = made, lossy' \in BOOLEAN,
         \A r \in Row : r # call[w].row => entity'[r] = entity[r] /\ account'[r] = account[r]
  PROVE  \E c \in Write, x \in Row : TillMoves(w, c, x) /\ x = call[w].row
<1>1. call[w].row \in Row /\ call[w].row <= made /\ made \in 0..MaxRow
  BY CalledRow
<1>2. PICK c \in Write :
        /\ call' = [call EXCEPT ![w] = c]
        /\ c.row \in {0, call[w].row}
        /\ \/ c = NoWrite
           \/ /\ c.row = call[w].row /\ c.want = call[w].want /\ c.parts = call[w].parts
              /\ c.at = IF answer = "done" THEN next ELSE otherwise
  BY <1>1, Steps DEF SyncInv
<1>3. c.at # "account"
  BY <1>2, WriteFields
<1>4. About(c, made')
  BY <1>1, <1>2, WriteFields DEF About
<1>5. upsets' \in 0..MaxUpsets
  BY AnswersType DEF SyncInv
<1>6. \A r \in Row : r # call[w].row \/ r > made' => entity'[r] = entity[r] /\ account'[r] = account[r]
  BY <1>1 DEF Row
<1>7. TillMoves(w, c, call[w].row)
  BY <1>1, <1>2, <1>3, <1>4, <1>5, <1>6, Parameters DEF TillMoves
<1>8. QED
  BY <1>1, <1>2, <1>7

LEMMA Targets ==
  /\ \A at \in {"status", "undoAccount", "undoEntity", "done", "rename", "failed",
               "dropEntity", "dropAccount"} : at \in (Stage \ {"account"}) \cup {"done"}
  /\ {"status", "undoAccount"} \cap {"entity", "patch", "rename"} = {}
  /\ {"done", "done"} \cap {"entity", "patch", "rename"} = {}
  /\ {"failed", "failed"} \cap {"entity", "patch", "rename"} = {}
  /\ TRUE \in BOOLEAN
  BY DEF Stage

LEMMA InsertEntityMoves ==
  ASSUME SyncInv, NEW w \in Caller, InsertEntity(w)
  PROVE  \E c \in Write, x \in Row : TillMoves(w, c, x) /\ x = call[w].row
<1>1. PICK o \in Outcome :
        /\ Answers(o, TRUE)
        /\ entity' = IF o = "refused" THEN entity
                     ELSE [entity EXCEPT ![call[w].row] = call[w].want]
        /\ Step(w, o, "status", "undoAccount")
        /\ lossy' = (lossy \/ o = "lost")
  BY DEF InsertEntity
<1>2. call[w].at = "entity" /\ UNCHANGED <<account, status, made>>
  BY DEF InsertEntity
<1>3. entity' \in [Row -> Customer] /\ lossy' \in BOOLEAN
  BY <1>1, <1>2, CalledRow DEF SyncInv, StateTypeOK
<1>4. \A r \in Row : r # call[w].row => entity'[r] = entity[r] /\ account'[r] = account[r]
  BY <1>1, <1>2 DEF SyncInv, StateTypeOK
<1>5. account' \in [Row -> {AccountName(d) : d \in Customer}] /\ status' \subseteq Row
  BY <1>2 DEF SyncInv, StateTypeOK
<1>6. QED
  BY <1>1, <1>2, <1>3, <1>4, <1>5, Targets, RowMoves

LEMMA InsertStatusMoves ==
  ASSUME SyncInv, NEW w \in Caller, InsertStatus(w)
  PROVE  \E c \in Write, x \in Row : TillMoves(w, c, x) /\ x = call[w].row
<1>1. PICK o \in Outcome :
        /\ Answers(o, TRUE)
        /\ status' = IF o = "refused" THEN status ELSE status \cup {call[w].row}
        /\ Step(w, o, "done", "undoEntity")
        /\ lossy' = lossy
  BY DEF InsertStatus
<1>2. call[w].at = "status" /\ UNCHANGED <<account, entity, made>>
  BY DEF InsertStatus
<1>3. status' \subseteq Row /\ lossy' \in BOOLEAN
  BY <1>1, <1>2, CalledRow DEF SyncInv, StateTypeOK
<1>4. QED
  BY <1>1, <1>2, <1>3, RowMoves DEF SyncInv, StateTypeOK, Stage

\* What a patch makes of a row.
Patched(c, was) ==
  [name |-> IF "name" \in c.parts THEN c.want.name ELSE was.name,
   phone |-> IF "data" \in c.parts THEN c.want.phone ELSE was.phone,
   ref |-> IF "data" \in c.parts THEN c.want.ref ELSE was.ref,
   notes |-> IF "notes" \in c.parts THEN c.want.notes ELSE was.notes]

LEMMA PatchedType ==
  ASSUME NEW c \in Write, NEW was \in Customer
  PROVE  Patched(c, was) \in Customer
<1>1. c.want \in Customer
  BY WriteFields
<1>2. QED
  BY <1>1, CustomerFields DEF Patched

LEMMA UpdateEntityMoves ==
  ASSUME SyncInv, NEW w \in Caller, UpdateEntity(w)
  PROVE  \E c \in Write, x \in Row : TillMoves(w, c, x) /\ x = call[w].row
<1>1. call[w].at = "patch" /\ UNCHANGED <<account, status, made, lossy>>
  BY DEF UpdateEntity
<1>2. call[w] \in Write /\ call[w].row \in Row /\ entity[call[w].row] \in Customer
  BY <1>1, CalledRow
<1>3. PICK o \in Outcome :
        /\ Answers(o, IsThere(entity[call[w].row]))
        /\ entity' = IF o = "refused" THEN entity
                     ELSE [entity EXCEPT ![call[w].row] = Patched(call[w], entity[call[w].row])]
        /\ Step(w, o, IF "account" \in call[w].parts THEN "rename" ELSE "done", "failed")
  BY DEF UpdateEntity, Patched
<1>4. entity' \in [Row -> Customer]
  BY <1>2, <1>3, PatchedType DEF SyncInv, StateTypeOK
<1>5. \A r \in Row : r # call[w].row => entity'[r] = entity[r] /\ account'[r] = account[r]
  BY <1>1, <1>3 DEF SyncInv, StateTypeOK
<1>6. IsThere(call[w].want)
  BY <1>1 DEF SyncInv, Meant, About
<1>7. IsThere(entity[call[w].row]) \in BOOLEAN
  BY DEF IsThere
<1>8. QED
  BY <1>1, <1>3, <1>4, <1>5, <1>6, <1>7, RowMoves DEF SyncInv, StateTypeOK, Stage

LEMMA UpdateAccountMoves ==
  ASSUME SyncInv, NEW w \in Caller, UpdateAccount(w)
  PROVE  \E c \in Write, x \in Row : TillMoves(w, c, x) /\ x = call[w].row
<1>1. PICK o \in Outcome :
        /\ Answers(o, account[call[w].row] # NoAccount)
        /\ account' = IF o = "refused" THEN account
                      ELSE [account EXCEPT ![call[w].row] = AccountName(call[w].want)]
        /\ Step(w, o, "done", "done")
  BY DEF UpdateAccount
<1>2. call[w].at = "rename" /\ UNCHANGED <<entity, status, made, lossy>>
  BY DEF UpdateAccount
<1>3. account' \in [Row -> {AccountName(d) : d \in Customer}]
  BY <1>1, <1>2, CalledRow DEF SyncInv, StateTypeOK
<1>4. \A r \in Row : r # call[w].row => entity'[r] = entity[r] /\ account'[r] = account[r]
  BY <1>1, <1>2 DEF SyncInv, StateTypeOK
<1>5. (account[call[w].row] # NoAccount) \in BOOLEAN
  OBVIOUS
<1>6. entity' \in [Row -> Customer] /\ status' \subseteq Row /\ lossy' \in BOOLEAN
  BY <1>2 DEF SyncInv, StateTypeOK
<1>7. QED
  BY <1>1, <1>2, <1>3, <1>4, <1>5, <1>6, Targets, RowMoves

LEMMA DeleteStatusMoves ==
  ASSUME SyncInv, NEW w \in Caller, DeleteStatus(w)
  PROVE  \E c \in Write, x \in Row : TillMoves(w, c, x) /\ x = call[w].row
<1>1. PICK o \in Outcome :
        /\ Answers(o, call[w].row \in status)
        /\ status' = IF o = "refused" THEN status ELSE status \ {call[w].row}
        /\ Step(w, IF call[w].row \in status THEN o ELSE "done", "dropEntity", "failed")
  BY DEF DeleteStatus
<1>2. call[w].at = "dropStatus" /\ UNCHANGED <<account, entity, made, lossy>>
  BY DEF DeleteStatus
<1>3. status' \subseteq Row
  BY <1>1 DEF SyncInv, StateTypeOK
<1>4. (IF call[w].row \in status THEN o ELSE "done") \in Outcome
      /\ (call[w].row \in status) \in BOOLEAN
  BY DEF Outcome
<1>5. QED
  BY <1>1, <1>2, <1>3, <1>4, RowMoves DEF SyncInv, StateTypeOK, Stage

LEMMA DeleteEntityMoves ==
  ASSUME SyncInv, NEW w \in Caller, DeleteEntity(w)
  PROVE  \E c \in Write, x \in Row : TillMoves(w, c, x) /\ x = call[w].row
<1>1. PICK o \in Outcome :
        /\ Answers(o, IsThere(entity[call[w].row]))
        /\ entity' = IF o = "refused" THEN entity
                     ELSE [entity EXCEPT ![call[w].row] = NoCustomer]
        /\ \/ Step(w, o, "undoAccount", "undoAccount")
           \/ Step(w, o, "dropAccount", "failed")
        /\ lossy' = (lossy \/ o = "lost" \/ (call[w].at = "undoEntity" /\ o # "done"))
  BY DEF DeleteEntity
<1>2. call[w].at \in {"dropEntity", "undoEntity"} /\ UNCHANGED <<account, status, made>>
  BY DEF DeleteEntity
<1>3. entity' \in [Row -> Customer] /\ lossy' \in BOOLEAN
  BY <1>1, <1>2, NoCustomerType DEF SyncInv, StateTypeOK
<1>4. \A r \in Row : r # call[w].row => entity'[r] = entity[r] /\ account'[r] = account[r]
  BY <1>1, <1>2 DEF SyncInv, StateTypeOK
<1>5. IsThere(entity[call[w].row]) \in BOOLEAN
  BY DEF IsThere
<1>6. CASE Step(w, o, "undoAccount", "undoAccount")
  BY <1>1, <1>2, <1>3, <1>4, <1>5, <1>6, RowMoves DEF SyncInv, StateTypeOK, Stage
<1>7. CASE Step(w, o, "dropAccount", "failed")
  BY <1>1, <1>2, <1>3, <1>4, <1>5, <1>7, RowMoves DEF SyncInv, StateTypeOK, Stage
<1>8. QED
  BY <1>1, <1>6, <1>7

LEMMA DeleteAccountMoves ==
  ASSUME SyncInv, NEW w \in Caller, DeleteAccount(w)
  PROVE  \E c \in Write, x \in Row : TillMoves(w, c, x) /\ x = call[w].row
<1>1. PICK o \in Outcome :
        /\ Answers(o, account[call[w].row] # NoAccount)
        /\ account' = IF o = "refused" THEN account
                      ELSE [account EXCEPT ![call[w].row] = NoAccount]
        /\ Step(w, o, "failed", "failed") \/ Step(w, o, "done", "done")
        /\ lossy' = (lossy \/ o # "done")
  BY DEF DeleteAccount
<1>2. call[w].at \in {"dropAccount", "undoAccount"} /\ UNCHANGED <<entity, status, made>>
  BY DEF DeleteAccount
<1>3. account' \in [Row -> {AccountName(d) : d \in Customer}] /\ lossy' \in BOOLEAN
  BY <1>1, <1>2, AccountNames DEF SyncInv, StateTypeOK
<1>4. \A r \in Row : r # call[w].row => entity'[r] = entity[r] /\ account'[r] = account[r]
  BY <1>1, <1>2 DEF SyncInv, StateTypeOK
<1>5. (account[call[w].row] # NoAccount) \in BOOLEAN
  OBVIOUS
<1>6. entity' \in [Row -> Customer] /\ status' \subseteq Row
  BY <1>2 DEF SyncInv, StateTypeOK
<1>7. CASE Step(w, o, "failed", "failed")
  BY <1>1, <1>2, <1>3, <1>4, <1>5, <1>6, <1>7, Targets, RowMoves
<1>8. CASE Step(w, o, "done", "done")
  BY <1>1, <1>2, <1>3, <1>4, <1>5, <1>6, <1>8, Targets, RowMoves
<1>9. QED
  BY <1>1, <1>7, <1>8

\* What every call to the till has in common.
LEMMA TillCallMoves ==
  ASSUME SyncInv, NEW w \in Caller, TillCall(w)
  PROVE  \E c \in Write, x \in Row : TillMoves(w, c, x)
  BY InsertAccountMoves, InsertEntityMoves, InsertStatusMoves, UpdateEntityMoves,
     UpdateAccountMoves, DeleteStatusMoves, DeleteEntityMoves, DeleteAccountMoves DEF TillCall

LEMMA TillStep ==
  ASSUME SyncInv, NEW w \in Caller, NEW c \in Write, NEW x \in Row, TillMoves(w, c, x),
         UNCHANGED <<member, running, run>>,
         index' = index \/ (w \in Run /\ index' = "old")
  PROVE  SyncInv'
<1>1. call \in [Caller -> Write] /\ made \in 0..MaxRow
  BY DEF SyncInv, StateTypeOK
<1>2. call' = [call EXCEPT ![w] = c] /\ made' \in 0..MaxRow /\ made <= made'
  BY DEF TillMoves
<1>3. \A v \in Caller : call'[v] = IF v = w THEN c ELSE call[v]
  BY <1>1, <1>2
<1>4. StateTypeOK'
  BY <1>1, <1>2 DEF TillMoves, SyncInv, StateTypeOK, Index
<1>5. OneRun'
  BY DEF SyncInv, OneRun, Idling
<1>6. Paid'
  <2>1. ASSUME NEW p \in Run, call'[p].at # "idle"
        PROVE  run'[p].at \in {"active", "leaving"} /\ run'[p].budget < MaxWrites
    <3>1. call[p].at # "idle"
      BY <1>3, <2>1, Parameters DEF TillMoves
    <3>2. QED
      BY <3>1, <2>1 DEF SyncInv, Paid
  <2>2. ASSUME index' = "old"
        PROVE  \E p \in Run : run'[p].at \in Working /\ run'[p].budget < MaxWrites
    <3>1. CASE index' = index
      BY <2>2, <3>1 DEF SyncInv, Paid
    <3>2. CASE w \in Run
      <4>1. call[w].at # "idle"
        BY DEF TillMoves
      <4>2. run[w].at \in {"active", "leaving"} /\ run[w].budget < MaxWrites
        BY <4>1, <3>2 DEF SyncInv, Paid
      <4>3. QED
        BY <4>2, <3>2 DEF Working
    <3>3. QED
      BY <3>1, <3>2
  <2>3. QED
    BY <2>1, <2>2 DEF Paid
<1>7. InHand'
  <2>1. \A n \in Row : n <= made => n <= made'
    BY <1>1, <1>2 DEF Row
  <2>2. QED
    BY <2>1 DEF SyncInv, InHand
<1>8. Meant'
  <2>1. SUFFICES ASSUME NEW v \in Caller PROVE About(call'[v], made')
    BY DEF Meant
  <2>2. CASE v = w
    BY <2>2, <1>3 DEF TillMoves
  <2>3. CASE v # w
    <3>1. call'[v] = call[v] /\ About(call[v], made)
      BY <2>3, <1>3 DEF SyncInv, Meant
    <3>2. QED
      BY <3>1, <1>1, <1>2 DEF About, Row
  <2>4. QED
    BY <2>2, <2>3
<1>9. Unmade'
  BY <1>1, <1>2 DEF SyncInv, Unmade, TillMoves, Row
<1>10. QED
  BY <1>4, <1>5, <1>6, <1>7, <1>8, <1>9 DEF SyncInv

\* A step of the run p that leaves the till as it is.
RunMoves(p, l, c) ==
  /\ ~Idling(p) /\ l.at # "idle" /\ l \in Locals /\ c \in Write
  /\ run' = [run EXCEPT ![p] = l]
  /\ call' = [call EXCEPT ![p] = c]
  /\ UNCHANGED <<tables, lossy, member, running>>
  /\ upsets' \in 0..MaxUpsets
  /\ index' = index \/ index' = "fresh"
  /\ c.at # "idle" => l.at \in {"active", "leaving"} /\ l.budget < MaxWrites
  /\ run[p].at \in Working => l.at \in Working /\ l.budget <= run[p].budget
  /\ l.at \in {"members", "scan"} => l.page <= MaxPages
  /\ l.at = "active" => l.todo \subseteq Member
  /\ l.at \in {"states", "leaving"} => \A r \in l.todo : r \in Row /\ r <= made
  /\ About(c, made)
  /\ \A r \in Row : r > made => ~IsThere(l.seen[r])

LEMMA RunMove ==
  ASSUME SyncInv, NEW p \in Run, NEW l, NEW c, RunMoves(p, l, c)
  PROVE  SyncInv'
<1>1. /\ run \in [Run -> Locals] /\ call \in [Caller -> Write] /\ p \in Caller
      /\ run' = [run EXCEPT ![p] = l] /\ call' = [call EXCEPT ![p] = c]
  BY Parameters DEF SyncInv, StateTypeOK, RunMoves
<1>2. \A o \in Run : run'[o] = IF o = p THEN l ELSE run[o]
  BY <1>1
<1>3. \A v \in Caller : call'[v] = IF v = p THEN c ELSE call[v]
  BY <1>1
<1>4. StateTypeOK'
  <2>1. run' \in [Run -> Locals] /\ call' \in [Caller -> Write]
    BY <1>1 DEF RunMoves
  <2>2. QED
    BY <2>1 DEF RunMoves, SyncInv, StateTypeOK, tables, Index
<1>5. OneRun'
  BY <1>2 DEF RunMoves, SyncInv, OneRun, Idling
<1>6. Paid'
  <2>1. ASSUME NEW o \in Run, call'[o].at # "idle"
        PROVE  run'[o].at \in {"active", "leaving"} /\ run'[o].budget < MaxWrites
    BY <2>1, <1>2, <1>3, Parameters DEF RunMoves, SyncInv, Paid
  <2>2. ASSUME index' = "old"
        PROVE  \E o \in Run : run'[o].at \in Working /\ run'[o].budget < MaxWrites
    <3>1. PICK o \in Run : run[o].at \in Working /\ run[o].budget < MaxWrites
      BY <2>2 DEF RunMoves, SyncInv, Paid
    <3>2. CASE o = p
      <4>1. l.at \in Working /\ l.budget <= run[p].budget
        BY <3>1, <3>2 DEF RunMoves
      <4>2. l.budget \in 0..MaxWrites /\ run[p].budget \in 0..MaxWrites
        BY <1>1, RunFields DEF RunMoves
      <4>3. l.budget < MaxWrites
        BY <4>1, <4>2, <3>1, <3>2, Parameters
      <4>4. QED
        BY <4>1, <4>3, <1>2
    <3>3. CASE o # p
      BY <3>1, <3>3, <1>2
    <3>4. QED
      BY <3>2, <3>3
  <2>3. QED
    BY <2>1, <2>2 DEF Paid
<1>7. InHand'
  BY <1>2 DEF RunMoves, SyncInv, InHand, tables
<1>8. Meant'
  BY <1>3 DEF RunMoves, SyncInv, Meant, About, tables
<1>9. Unmade'
  BY <1>2 DEF RunMoves, SyncInv, Unmade, tables
<1>10. QED
  BY <1>4, <1>5, <1>6, <1>7, <1>8, <1>9 DEF SyncInv
-----------------------------------------------------------------------------
(* The steps of a run.                                                     *)

\* A customer that bears a member's number or phone.
OfAMember(c) == IsThere(c) /\ (c.ref \in Member \/ c.phone \in Member)

\* What a run comes to know, and what it writes on the strength of it.
RunReads(p, l, c) ==
  /\ \A r \in Row : l.seen[r] \in {run[p].seen[r], entity[r], NoCustomer}
  /\ \/ c = call[p]
     \/ /\ call[p].at \in {"idle", "failed"}
        /\ \/ c.at \in {"idle", "account"} /\ c.row = 0
           \/ c.at = "patch" /\ run[p].at = "active" /\ OfAMember(run[p].seen[c.row])
           \/ c.at = "dropStatus" /\ run[p].at = "leaving" /\ c.row \in run[p].todo
           \/ /\ c.at = "patch" /\ run[p].at = "leaving"
              /\ call[p].at = "failed" /\ c.row = call[p].row
  /\ l.at \in {"states", "leaving"} =>
       \/ run[p].at = "active" /\ l.todo \subseteq Leaving(run[p])
       \/ run[p].at \in {"states", "leaving"} /\ l.todo \subseteq run[p].todo

LEMMA InRun ==
  ASSUME SyncInv, NEW p \in Run
  PROVE  /\ run[p] \in Locals /\ call[p] \in Write /\ p \in Caller
         /\ [run EXCEPT ![p] = run[p]] = run /\ [call EXCEPT ![p] = call[p]] = call
         /\ run[p].at \notin {"active", "leaving"} => call[p].at = "idle"
         /\ About(call[p], made) /\ \A r \in Row : r > made => ~IsThere(run[p].seen[r])
  BY Parameters DEF SyncInv, StateTypeOK, Paid, Meant, Unmade

LEMMA GoesType ==
  ASSUME SyncInv, NEW p \in Run, NEW stage \in RunStage
  PROVE  LET l == Running(stage, run[p].known, run[p].seen, run[p].twice, run[p].page,
                          run[p].todo, run[p].budget)
         IN  /\ l \in Locals /\ l.at = stage /\ l.seen = run[p].seen /\ l.page = run[p].page
             /\ l.todo = run[p].todo /\ l.budget = run[p].budget
  BY InRun, RunFields, RunType DEF Running

LEMMA ReadFailsMoves ==
  ASSUME SyncInv, NEW p \in Run, NEW stage \in {"members", "scan", "states"},
         ReadFails(p, stage)
  PROVE  \E l, c : RunMoves(p, l, c) /\ RunReads(p, l, c)
<1> DEFINE l == Running("failed", run[p].known, run[p].seen, run[p].twice, run[p].page,
                        run[p].todo, run[p].budget)
<1>1. /\ run[p].at = stage /\ run' = [run EXCEPT ![p] = l] /\ upsets' = upsets + 1
      /\ upsets < MaxUpsets /\ UNCHANGED <<tables, call, lossy, member, running, index>>
  BY DEF ReadFails, Goes, Becoming
<1>2. l \in Locals /\ l.at = "failed" /\ l.seen = run[p].seen /\ l.budget = run[p].budget
  BY GoesType DEF RunStage
<1>3. run[p].budget \in 0..MaxWrites
  BY InRun, RunFields
<1>4. RunMoves(p, l, call[p])
  BY <1>1, <1>2, <1>3, InRun, Parameters
     DEF RunMoves, Idling, Working, SyncInv, StateTypeOK
<1>5. RunReads(p, l, call[p])
  BY <1>2, InRun DEF RunReads
<1>6. QED
  BY <1>4, <1>5

LEMMA MembersForTillMoves ==
  ASSUME SyncInv, NEW p \in Run, MembersForTill(p)
  PROVE  \E l, c : RunMoves(p, l, c) /\ RunReads(p, l, c)
<1> DEFINE stage == IF Active(member) = {} THEN "failed" ELSE "scan"
           l == Starting(stage, member)
<1>1. /\ run[p].at = "members" /\ run' = [run EXCEPT ![p] = l]
      /\ UNCHANGED <<tillVars, member, running, index>>
  BY DEF MembersForTill, Becoming
<1>2. l \in Locals /\ l.at = stage /\ l.seen = NoRows /\ l.page = 1
  BY StartingType DEF RunStage, SyncInv, StateTypeOK
<1>3. \A r \in Row : l.seen[r] = NoCustomer
  BY <1>2 DEF NoRows
<1>4. RunMoves(p, l, call[p])
  BY <1>1, <1>2, <1>3, InRun, Parameters, NoCustomerType
     DEF RunMoves, Idling, Working, tillVars, tables, SyncInv, StateTypeOK
<1>5. RunReads(p, l, call[p])
  BY <1>2, <1>3 DEF RunReads
<1>6. QED
  BY <1>4, <1>5

LEMMA AllMoves ==
  ASSUME SyncInv, NEW p \in Run, All(p)
  PROVE  \E l : /\ RunMoves(p, l, call[p]) /\ RunReads(p, l, call[p])
                /\ l.at = IF LastPage(run[p].page) THEN "active" ELSE "scan"
                /\ l.page = run[p].page + 1
                /\ l.seen = [r \in Row |->
                     IF r \in OnPage(run[p].page) /\ ~IsThere(run[p].seen[r]) THEN entity[r]
                     ELSE run[p].seen[r]]
<1> DEFINE k == run[p]
           page == OnPage(k.page)
           last == LastPage(k.page)
           seen == [r \in Row |-> IF r \in page /\ ~IsThere(k.seen[r]) THEN entity[r] ELSE k.seen[r]]
           twice == k.twice \cup {r \in page : IsThere(k.seen[r])}
           todo == IF last THEN Active(k.known) ELSE {}
           l == Running(IF last THEN "active" ELSE "scan", k.known, seen, twice, k.page + 1,
                        todo, k.budget)
<1>1. /\ k.at = "scan" /\ run' = [run EXCEPT ![p] = l]
      /\ index' = IF last THEN "fresh" ELSE index
      /\ UNCHANGED <<tillVars, member, running>>
  BY DEF All, Becoming
<1>2. k \in Locals /\ k.page \in 1..MaxPages + 1 /\ k.page <= MaxPages /\ k.budget \in 0..MaxWrites
      /\ k.seen \in [Row -> Customer] /\ k.twice \subseteq Row
      /\ k.known \in [Member -> MemberStatus]
  BY <1>1, InRun, RunFields DEF SyncInv, InHand
<1>3. seen \in [Row -> Customer] /\ twice \in SUBSET Row /\ k.page + 1 \in 1..MaxPages + 1
      /\ todo \in SUBSET (Member \cup Row)
  BY <1>2, Parameters DEF OnPage, Active, SyncInv, StateTypeOK
<1>4. ~last => k.page + 1 <= MaxPages
  BY <1>2, Parameters DEF LastPage
<1>5. l \in Locals
  BY <1>2, <1>3, RunType DEF RunStage
<1>6. l.at = (IF last THEN "active" ELSE "scan") /\ l.seen = seen /\ l.page = k.page + 1
      /\ l.todo = todo /\ l.budget = k.budget
  BY DEF Running
<1>7. todo \subseteq Member
  BY DEF Active
<1>8. \A r \in Row : seen[r] \in {k.seen[r], entity[r]}
  OBVIOUS
<1>9. \A r \in Row : r > made => ~IsThere(seen[r])
  BY <1>8, InRun, NoCustomerType DEF SyncInv, Unmade
<1> HIDE DEF l, seen, twice, todo, page
<1>10. RunMoves(p, l, call[p])
  BY <1>1, <1>2, <1>4, <1>5, <1>6, <1>7, <1>9, InRun
     DEF RunMoves, Idling, Working, tillVars, tables, SyncInv, StateTypeOK
<1>11. RunReads(p, l, call[p])
  BY <1>6, <1>8 DEF RunReads
<1>12. QED
  BY <1>6, <1>10, <1>11 DEF seen, page

LEMMA EntityStateIndexMoves ==
  ASSUME SyncInv, NEW p \in Run, EntityStateIndex(p)
  PROVE  \E l, c : RunMoves(p, l, c) /\ RunReads(p, l, c)
<1> DEFINE l == Running("leaving", run[p].known, run[p].seen, run[p].twice, run[p].page,
                        run[p].todo, run[p].budget)
<1>1. /\ run[p].at = "states" /\ run' = [run EXCEPT ![p] = l]
      /\ UNCHANGED <<tillVars, member, running, index>>
  BY DEF EntityStateIndex, Goes, Becoming
<1>2. l \in Locals /\ l.at = "leaving" /\ l.seen = run[p].seen /\ l.budget = run[p].budget
      /\ l.todo = run[p].todo
  BY GoesType DEF RunStage
<1>3. run[p].budget \in 0..MaxWrites
  BY InRun, RunFields
<1>4. RunMoves(p, l, call[p])
  BY <1>1, <1>2, <1>3, InRun, Parameters
     DEF RunMoves, Idling, Working, tillVars, tables, SyncInv, StateTypeOK, InHand
<1>5. RunReads(p, l, call[p])
  BY <1>1, <1>2, InRun DEF RunReads
<1>6. QED
  BY <1>4, <1>5

LEMMA AnonymiseMoves ==
  ASSUME SyncInv, NEW p \in Run, Anonymise(p)
  PROVE  LET c == Writing("patch", call[p].row, Anonymous, {"name", "data", "notes", "account"})
         IN  RunMoves(p, run[p], c) /\ RunReads(p, run[p], c)
<1> DEFINE c == Writing("patch", call[p].row, Anonymous, {"name", "data", "notes", "account"})
<1>1. /\ run[p].at = "leaving" /\ call[p].at = "failed" /\ call' = [call EXCEPT ![p] = c]
      /\ UNCHANGED <<tables, upsets, lossy, member, running, run, index>>
  BY DEF Anonymise
<1>2. call[p].row \in Row /\ call[p].row <= made /\ call[p].row \in 0..MaxRow
  BY <1>1, InRun, WriteFields DEF About
<1>3. Anonymous \in Customer /\ IsThere(Anonymous)
  BY Parameters DEF Anonymous, Customer, Name, IsThere
<1>4. c \in Write /\ c.at = "patch" /\ c.row = call[p].row /\ c.want = Anonymous
  BY <1>2, <1>3, WriteType DEF Writing, Stage, Part
<1>5. run[p].budget < MaxWrites /\ run[p].budget \in 0..MaxWrites
  BY <1>1, InRun, RunFields DEF SyncInv, Paid
<1> HIDE DEF c
<1>6. RunMoves(p, run[p], c)
  BY <1>1, <1>2, <1>3, <1>4, <1>5, InRun
     DEF RunMoves, Idling, Working, SyncInv, StateTypeOK, About, InHand
<1>7. RunReads(p, run[p], c)
  BY <1>1, <1>4 DEF RunReads
<1>8. QED
  BY <1>6, <1>7 DEF c

LEMMA ClearedMoves ==
  ASSUME SyncInv, NEW p \in Run, Cleared(p)
  PROVE  \E l, c : RunMoves(p, l, c) /\ RunReads(p, l, c)
<1> DEFINE l == Running("end", run[p].known, run[p].seen, run[p].twice, run[p].page,
                        run[p].todo, run[p].budget)
<1>1. /\ run[p].at = "leaving" /\ ~Busy(p) /\ run' = [run EXCEPT ![p] = l]
      /\ call' = [call EXCEPT ![p] = NoWrite]
      /\ UNCHANGED <<tables, upsets, lossy, member, running, index>>
  BY DEF Cleared, Goes, Becoming
<1>2. l \in Locals /\ l.at = "end" /\ l.seen = run[p].seen /\ l.budget = run[p].budget
  BY GoesType DEF RunStage
<1>3. run[p].budget \in 0..MaxWrites
  BY InRun, RunFields
<1>4. RunMoves(p, l, NoWrite)
  BY <1>1, <1>2, <1>3, InRun, WriteFields
     DEF RunMoves, Idling, Working, SyncInv, StateTypeOK, About
<1>5. RunReads(p, l, NoWrite)
  BY <1>1, <1>2, WriteFields DEF RunReads, Busy
<1>6. QED
  BY <1>4, <1>5

LEMMA SettledMoves ==
  ASSUME SyncInv, NEW p \in Run, Settled(p)
  PROVE  \E l : /\ RunMoves(p, l, NoWrite) /\ RunReads(p, l, NoWrite)
                /\ l.at \in {"states", "end"} /\ l.todo \subseteq Leaving(run[p])
<1> DEFINE k == run[p]
           go == Leaving(k) # {} /\ k.budget > 0
           todo == IF go THEN Leaving(k) ELSE {}
           l == Running(IF go THEN "states" ELSE "end", FirstMembers, NoRows, {}, 1, todo, k.budget)
<1>1. /\ k.at = "active" /\ ~Busy(p) /\ run' = [run EXCEPT ![p] = l]
      /\ call' = [call EXCEPT ![p] = NoWrite]
      /\ UNCHANGED <<tables, upsets, lossy, member, running, index>>
  BY DEF Settled, Becoming
<1>2. k \in Locals /\ k.budget \in 0..MaxWrites /\ 1 \in 1..MaxPages + 1
  BY InRun, RunFields, Parameters
<1>3. todo \subseteq Row /\ \A r \in todo : IsThere(k.seen[r]) /\ r <= made
  <2>1. todo \subseteq Row /\ \A r \in todo : IsThere(k.seen[r])
    BY DEF Leaving
  <2>2. QED
    BY <2>1, InRun, Parameters DEF Row, SyncInv, StateTypeOK
<1>4. l \in Locals
  BY <1>2, <1>3, RunType, Parameters, NoCustomerType DEF RunStage
<1>5. l.at \in {"states", "end"} /\ l.seen = NoRows /\ l.todo = todo /\ l.budget = k.budget
  BY DEF Running
<1>6. \A r \in Row : l.seen[r] = NoCustomer
  BY <1>5 DEF NoRows
<1>7. todo \subseteq Leaving(k)
  OBVIOUS
<1> HIDE DEF l, todo
<1>8. RunMoves(p, l, NoWrite)
  BY <1>1, <1>2, <1>3, <1>4, <1>5, <1>6, NoCustomerType, WriteFields
     DEF RunMoves, Idling, Working, SyncInv, StateTypeOK, About
<1>9. RunReads(p, l, NoWrite)
  BY <1>1, <1>5, <1>6, <1>7, WriteFields DEF RunReads, Busy
<1>10. QED
  BY <1>5, <1>7, <1>8, <1>9

\* An item of a loop that costs nothing, or a write.
LEMMA SpendsMoves ==
  ASSUME SyncInv, NEW p \in Run, NEW item, NEW writes, Spends(p, item, writes),
         run[p].at \in {"active", "leaving"}, item \in run[p].todo,
         \A c \in writes : c \in Write /\ About(c, made) /\ c.at # "idle",
         \A c \in writes :
            \/ c.at = "account" /\ c.row = 0
            \/ c.at = "patch" /\ run[p].at = "active" /\ OfAMember(run[p].seen[c.row])
            \/ c.at = "dropStatus" /\ run[p].at = "leaving" /\ c.row \in run[p].todo
  PROVE  \E l, c : /\ RunMoves(p, l, c) /\ RunReads(p, l, c)
                   /\ l.at = run[p].at /\ l.seen = run[p].seen /\ l.todo = run[p].todo \ {item}
                   /\ c = NoWrite \/ c \in writes
<1> DEFINE k == run[p]
           l(b) == Running(k.at, k.known, k.seen, k.twice, k.page, k.todo \ {item}, b)
<1>1. k \in Locals /\ k.at \in RunStage /\ k.known \in [Member -> MemberStatus]
      /\ k.seen \in [Row -> Customer] /\ k.twice \in SUBSET Row /\ k.page \in 1..MaxPages + 1
      /\ k.todo \in SUBSET (Member \cup Row) /\ k.budget \in 0..MaxWrites
  BY InRun, RunFields
<1>2. \A b \in 0..MaxWrites : l(b) \in Locals
  BY <1>1, RunType
<1>3. \A b : /\ l(b).at = k.at /\ l(b).seen = k.seen /\ l(b).todo = k.todo \ {item}
             /\ l(b).budget = b
  BY DEF Running
<1>4. call[p].at \in {"idle", "failed"}
  BY DEF Spends, Busy
<1>5. CASE run' = [run EXCEPT ![p] = l(k.budget)] /\ call' = [call EXCEPT ![p] = NoWrite]
  <2>1. l(k.budget) \in Locals /\ l(k.budget).budget = k.budget
    BY <1>1, <1>2, <1>3
  <2> DEFINE m == l(k.budget)
  <2>2. m.at = k.at /\ m.seen = k.seen /\ m.todo = k.todo \ {item} /\ m.budget = k.budget /\ m \in Locals
    BY <1>3, <2>1
  <2> HIDE DEF m
  <2>3. run' = [run EXCEPT ![p] = m]
    BY <1>5 DEF m
  <2> HIDE DEF l
  <2>4. RunMoves(p, m, NoWrite)
    <3>1. /\ UNCHANGED <<tables, upsets, lossy, member, running, index>>
          /\ upsets \in 0..MaxUpsets
      BY DEF Spends, SyncInv, StateTypeOK
    <3>2. m.budget <= run[p].budget
      BY <1>1, <2>2
    <3>3. About(NoWrite, made) /\ NoWrite \in Write /\ NoWrite.at = "idle"
      BY WriteFields DEF About
    <3>4. /\ m.at = "active" => m.todo \subseteq Member
          /\ m.at \in {"states", "leaving"} => \A r \in m.todo : r \in Row /\ r <= made
      BY <2>2 DEF SyncInv, InHand
    <3>5. \A r \in Row : r > made => ~IsThere(m.seen[r])
      BY <2>2, InRun
    <3>6. QED
      BY <1>5, <2>2, <2>3, <3>1, <3>2, <3>3, <3>4, <3>5 DEF RunMoves, Idling, Working
  <2>5. RunReads(p, m, NoWrite)
    BY <1>4, <2>2, WriteFields DEF RunReads
  <2>6. QED
    BY <2>2, <2>4, <2>5
<1>6. ASSUME k.budget # 0, run' = [run EXCEPT ![p] = l(k.budget - 1)],
             NEW c \in writes, call' = [call EXCEPT ![p] = c]
      PROVE  \E n, d : /\ RunMoves(p, n, d) /\ RunReads(p, n, d)
                       /\ n.at = run[p].at /\ n.seen = run[p].seen /\ n.todo = run[p].todo \ {item}
                       /\ d = NoWrite \/ d \in writes
  <2>1. k.budget - 1 \in 0..MaxWrites /\ k.budget - 1 < MaxWrites /\ k.budget - 1 <= k.budget
    BY <1>1, <1>6, Parameters
  <2> DEFINE m == l(k.budget - 1)
  <2>2. m.at = k.at /\ m.seen = k.seen /\ m.todo = k.todo \ {item} /\ m.budget = k.budget - 1
        /\ m \in Locals
    BY <1>2, <1>3, <2>1
  <2> HIDE DEF m
  <2>3. run' = [run EXCEPT ![p] = m]
    BY <1>6 DEF m
  <2>4. c \in Write /\ About(c, made) /\ c.at # "idle"
    BY <1>6
  <2>5. \/ c.at = "account" /\ c.row = 0
        \/ c.at = "patch" /\ run[p].at = "active" /\ OfAMember(run[p].seen[c.row])
        \/ c.at = "dropStatus" /\ run[p].at = "leaving" /\ c.row \in run[p].todo
    BY <1>6
  <2> HIDE DEF l
  <2>6. RunMoves(p, m, c)
    BY <1>1, <1>6, <2>1, <2>2, <2>3, <2>4, InRun
       DEF RunMoves, Idling, Working, SyncInv, StateTypeOK, InHand, Spends
  <2>7. RunReads(p, m, c)
    BY <1>4, <2>2, <2>5 DEF RunReads
  <2>8. QED
    BY <1>6, <2>2, <2>6, <2>7
<1>7. QED
  BY <1>5, <1>6 DEF Spends, Becoming

\* The writes that put a member right.
LEMMA WritesForType ==
  ASSUME SyncInv, NEW p \in Run, NEW m \in Member, NEW c \in WritesFor(run[p], m)
  PROVE  /\ c \in Write /\ About(c, made)
         /\ \/ c = Creating([name |-> "full", phone |-> m, ref |-> m, notes |-> "ours"])
               /\ c.at = "account" /\ c.row = 0
            \/ c.at = "patch" /\ OfAMember(run[p].seen[c.row]) /\ "notes" \notin c.parts
<1> DEFINE l == run[p]
           is == [name |-> "full", phone |-> m, ref |-> m, notes |-> "ours"]
<1>1. is \in Customer /\ IsThere(is)
  BY Parameters, CustomerFields DEF Name, IsThere
<1>2. l.seen \in [Row -> Customer]
  BY InRun, RunFields
<1>3. CASE c = Creating(is)
  BY <1>1, <1>3, CreatingType DEF About
<1>4. ASSUME NEW r \in Row, OfAMember(l.seen[r]), NEW asked \in Customer, IsThere(asked),
             NEW fields \in SUBSET {"name", "ref"}, c = Updating(r, l.seen[r], asked, fields)
      PROVE  /\ c \in Write /\ About(c, made)
             /\ c.at = "patch" /\ OfAMember(l.seen[c.row]) /\ "notes" \notin c.parts
  <2>1. l.seen[r] \in Customer /\ fields \in SUBSET Field /\ IsThere(l.seen[r])
    BY <1>2, <1>4 DEF Field, OfAMember
  <2>2. /\ c \in Write /\ c.at = "patch" /\ c.row = r /\ IsThere(c.want)
        /\ "notes" \notin c.parts
    BY <1>4, <2>1, UpdatingType
  <2>3. r <= made
    <3>1. ~(r > made)
      BY <2>1, InRun
    <3>2. QED
      BY <3>1, Parameters DEF SyncInv, StateTypeOK, Row
  <2>4. QED
    BY <1>4, <2>2, <2>3 DEF About
<1>5. CASE \E r \in Newest(Linked(l.seen, m)) : c = Updating(r, l.seen[r], is, {"name"})
  <2>1. PICK r \in Newest(Linked(l.seen, m)) : c = Updating(r, l.seen[r], is, {"name"})
    BY <1>5
  <2>2. r \in Row /\ OfAMember(l.seen[r])
    BY DEF Newest, Linked, OfAMember
  <2>3. QED
    BY <1>1, <1>4, <2>1, <2>2
<1>6. CASE \E r \in Adopted(l, m) : c = Updating(r, l.seen[r], is, {"name", "ref"})
  <2>1. PICK r \in Adopted(l, m) : c = Updating(r, l.seen[r], is, {"name", "ref"})
    BY <1>6
  <2>2. r \in Row /\ OfAMember(l.seen[r])
    BY DEF Adopted, Unlinked, OfAMember
  <2>3. QED
    BY <1>1, <1>4, <2>1, <2>2
<1>7. QED
  BY <1>3, <1>5, <1>6 DEF WritesFor

LEMMA ReconcileMoves ==
  ASSUME SyncInv, NEW p \in Run, Reconcile(p)
  PROVE  \E m \in First(run[p].todo) : \E l, c :
           /\ RunMoves(p, l, c) /\ RunReads(p, l, c)
           /\ l.at = run[p].at /\ l.seen = run[p].seen /\ l.todo = run[p].todo \ {m}
           /\ c = NoWrite \/ c \in WritesFor(run[p], m)
<1>1. PICK m \in First(run[p].todo) : run[p].at = "active" /\ Spends(p, m, WritesFor(run[p], m))
  BY DEF Reconcile
<1>2. m \in run[p].todo /\ m \in Member
  BY <1>1 DEF First, SyncInv, InHand
<1>3. \A c \in WritesFor(run[p], m) :
        /\ c \in Write /\ About(c, made) /\ c.at # "idle"
        /\ \/ c.at = "account" /\ c.row = 0
           \/ c.at = "patch" /\ run[p].at = "active" /\ OfAMember(run[p].seen[c.row])
           \/ c.at = "dropStatus" /\ run[p].at = "leaving" /\ c.row \in run[p].todo
  BY <1>1, <1>2, WritesForType
<1>4. \E l, c : /\ RunMoves(p, l, c) /\ RunReads(p, l, c)
                /\ l.at = run[p].at /\ l.seen = run[p].seen /\ l.todo = run[p].todo \ {m}
                /\ c = NoWrite \/ c \in WritesFor(run[p], m)
  BY <1>1, <1>2, <1>3, SpendsMoves
<1>5. QED
  BY <1>4

LEMMA RemoveMoves ==
  ASSUME SyncInv, NEW p \in Run, Remove(p)
  PROVE  \E l, c : /\ RunMoves(p, l, c) /\ RunReads(p, l, c)
                   /\ c.at \in {"idle", "dropStatus"}
                   /\ l.at = "leaving" /\ l.seen = run[p].seen
<1>1. PICK r \in run[p].todo : run[p].at = "leaving" /\ Spends(p, r, {Removing(r)})
  BY DEF Remove
<1>2. r \in run[p].todo /\ r \in Row /\ r <= made
  BY <1>1 DEF SyncInv, InHand
<1>3. \A c \in {Removing(r)} :
        /\ c \in Write /\ About(c, made) /\ c.at = "dropStatus"
        /\ \/ c.at = "account" /\ c.row = 0
           \/ c.at = "patch" /\ run[p].at = "active" /\ OfAMember(run[p].seen[c.row])
           \/ c.at = "dropStatus" /\ run[p].at = "leaving" /\ c.row \in run[p].todo
  BY <1>1, <1>2, RemovingType DEF About
<1>4. \E l, c : /\ RunMoves(p, l, c) /\ RunReads(p, l, c)
                /\ l.at = run[p].at /\ l.seen = run[p].seen /\ l.todo = run[p].todo \ {r}
                /\ c = NoWrite \/ c \in {Removing(r)}
  BY <1>1, <1>2, <1>3, SpendsMoves
<1>5. QED
  BY <1>1, <1>3, <1>4, WriteFields

\* A step of a run: it ends, moves on, or makes a call to the till.
LEMMA RunSteps ==
  ASSUME SyncInv, NEW p \in Run, RunStep(p)
  PROVE  \/ Finish(p)
         \/ \E l, c : RunMoves(p, l, c) /\ RunReads(p, l, c)
         \/ /\ TillCall(p) /\ UNCHANGED <<member, running, run>>
            /\ index' = index \/ index' = "old"
<1>1. CASE All(p)
  BY <1>1, AllMoves
<1>2. CASE Reconcile(p)
  BY <1>2, ReconcileMoves
<1>3. CASE Settled(p)
  BY <1>3, SettledMoves
<1>4. CASE Anonymise(p)
  BY <1>4, AnonymiseMoves
<1>5. CASE Remove(p)
  BY <1>5, RemoveMoves
<1>6. CASE TillCall(p) /\ index' = (IF tables' # tables THEN "old" ELSE index)
           /\ UNCHANGED <<member, running, run>>
  BY <1>6
<1>7. CASE MembersForTill(p) \/ EntityStateIndex(p) \/ Cleared(p)
           \/ \E stage \in {"members", "scan", "states"} : ReadFails(p, stage)
  BY <1>7, MembersForTillMoves, EntityStateIndexMoves, ClearedMoves, ReadFailsMoves
<1>8. QED
  BY <1>1, <1>2, <1>3, <1>4, <1>5, <1>6, <1>7 DEF RunStep
-----------------------------------------------------------------------------
(* The steps that start and end a run.                                     *)

\* A run p that starts or ends leaves the others as they are.
LEMMA RunTurns ==
  ASSUME SyncInv, NEW p \in Run, NEW l \in Locals, run' = [run EXCEPT ![p] = l],
         call[p].at = "idle", UNCHANGED <<tillVars, member>>, running' \in BOOLEAN,
         l.page <= MaxPages, l.at \in {"idle", "members"}, l.seen = NoRows,
         l.at = "idle" => ~Idling(p), l.at = "members" => ~running /\ running',
         l.at = "idle" => running' = FALSE,
         index' \in Index, index' = "old" => index = "old" /\ l.at = "members"
  PROVE  SyncInv'
<1>1. \A o \in Run : run'[o] = IF o = p THEN l ELSE run[o]
  BY DEF SyncInv, StateTypeOK
<1>2. StateTypeOK'
  BY DEF SyncInv, StateTypeOK, tillVars, tables
<1>3. OneRun'
  BY <1>1 DEF SyncInv, OneRun, Idling
<1>4. Paid'
  <2>1. l.at = "members" => index' # "old"
    <3>1. CASE l.at = "members" /\ index' = "old"
      <4>1. PICK o \in Run : run[o].at \in Working
        BY <3>1 DEF SyncInv, Paid
      <4>2. QED
        BY <3>1, <4>1 DEF SyncInv, OneRun, Idling, Working
    <3>2. QED
      BY <3>1
  <2>2. index' # "old"
    BY <2>1
  <2>3. QED
    BY <1>1, <2>2, Parameters DEF SyncInv, Paid, tillVars
<1>5. InHand'
  BY <1>1 DEF SyncInv, InHand, tillVars, tables
<1>6. Meant'
  BY DEF SyncInv, Meant, About, tillVars, tables
<1>7. Unmade'
  <2>1. \A r \in Row : ~IsThere(l.seen[r])
    BY NoCustomerType DEF NoRows
  <2>2. QED
    BY <1>1, <2>1 DEF SyncInv, Unmade, tillVars, tables
<1>8. QED
  BY <1>2, <1>3, <1>4, <1>5, <1>6, <1>7 DEF SyncInv

LEMMA BeginStep ==
  ASSUME SyncInv, NEW p \in Run, Begin(p)
  PROVE  SyncInv' /\ \A r \in Row : run'[p].seen[r] = NoCustomer
<1> DEFINE l == Starting("members", FirstMembers)
<1>1. run' = [run EXCEPT ![p] = l] /\ ~running /\ running' = TRUE /\ run[p].at = "idle"
      /\ UNCHANGED <<tillVars, member, index>>
  BY DEF Begin, Becoming
<1>2. l \in Locals /\ l.at = "members" /\ l.seen = NoRows /\ l.page = 1
  BY IdleType
<1>3. call[p].at = "idle" /\ 1 <= MaxPages /\ index \in Index
  BY <1>1, InRun, Parameters DEF SyncInv, StateTypeOK
<1> HIDE DEF l
<1>4. SyncInv'
  <2>1. index = "old" => index = "old" /\ l.at = "members"
    BY <1>2
  <2>2. QED
    BY <1>1, <1>2, <1>3, <2>1, RunTurns
<1>5. QED
  BY <1>1, <1>2, <1>4 DEF NoRows, SyncInv, StateTypeOK

LEMMA FinishStep ==
  ASSUME SyncInv, NEW p \in Run, Finish(p)
  PROVE  /\ SyncInv' /\ UNCHANGED <<tillVars, member>>
         /\ run' = [run EXCEPT ![p] = Idle] /\ Idle.at = "idle" /\ Idle.seen = NoRows
         /\ run[p].at # "idle"
<1>1. run' = [run EXCEPT ![p] = Idle] /\ running' = FALSE /\ run[p].at \in {"end", "failed"}
      /\ UNCHANGED <<tillVars, member>>
      /\ index' = IF run[p].at = "failed" THEN (IF index = "old" THEN "cut" ELSE index)
                  ELSE IF run[p].budget < MaxWrites THEN "fresh" ELSE index
  BY DEF Finish, Becoming
<1>2. Idle \in Locals /\ Idle.at = "idle" /\ Idle.seen = NoRows /\ Idle.page = 1
  BY IdleType
<1>3. call[p].at = "idle" /\ 1 <= MaxPages /\ index \in Index /\ ~Idling(p)
  BY <1>1, InRun, Parameters DEF SyncInv, StateTypeOK, Idling
<1>4. index' \in Index /\ index' # "old"
  <2>1. index = "old" => run[p].budget < MaxWrites
    <3>1. SUFFICES ASSUME index = "old" PROVE run[p].budget < MaxWrites
      OBVIOUS
    <3>2. PICK o \in Run : run[o].at \in Working /\ run[o].budget < MaxWrites
      BY <3>1 DEF SyncInv, Paid
    <3>3. o = p
      BY <1>3, <3>2 DEF SyncInv, OneRun, Idling, Working
    <3>4. QED
      BY <3>2, <3>3
  <2>2. QED
    BY <1>1, <1>3, <2>1 DEF Index
<1>5. SyncInv'
  BY <1>1, <1>2, <1>3, <1>4, RunTurns
<1>6. QED
  BY <1>1, <1>2, <1>5
-----------------------------------------------------------------------------
(* The steps beside the runs.                                              *)

LEMMA DeskWrites ==
  ASSUME SyncInv, NEW d \in Desk, Create(d) \/ Update(d) \/ Delete(d)
  PROVE  \E c \in Write :
           /\ DeskAsks(d, c) /\ About(c, made)
           /\ \/ c.at = "account" /\ c.row = 0 /\ c.want.notes = "typed"
              \/ c.at \in {"patch", "dropStatus"} /\ c.row \in Handled /\ IsThere(entity[c.row])
<1>1. CASE Create(d)
  <2>1. PICK c \in Creations : DeskAsks(d, Creating(c))
    BY <1>1 DEF Create
  <2>2. QED
    BY <2>1, Inputs, CreatingType DEF About
<1>2. ASSUME NEW r \in Handled, IsThere(entity[r])
      PROVE  r \in Row /\ r <= made /\ entity[r] \in Customer
  BY <1>2, Parameters, NoCustomerType DEF SyncInv, StateTypeOK, Unmade, Row
<1>3. CASE Update(d)
  <2>1. PICK r \in Handled, e \in Edits :
          IsThere(entity[r]) /\ DeskAsks(d, Updating(r, entity[r], e[1], e[2]))
    BY <1>3 DEF Update
  <2> DEFINE u == Updating(r, entity[r], e[1], e[2])
  <2>2. e[1] \in Customer /\ e[2] \in SUBSET Field /\ IsThere(e[1])
    BY Inputs
  <2>3. u \in Write /\ u.at = "patch" /\ u.row = r /\ IsThere(u.want)
    BY <1>2, <2>1, <2>2, UpdatingType
  <2>4. QED
    BY <1>2, <2>1, <2>3 DEF About
<1>4. CASE Delete(d)
  <2>1. PICK r \in Handled : IsThere(entity[r]) /\ DeskAsks(d, Removing(r))
    BY <1>4 DEF Delete
  <2>2. QED
    BY <1>2, <2>1, RemovingType DEF About
<1>5. QED
  BY <1>1, <1>3, <1>4

LEMMA DeskStep ==
  ASSUME SyncInv, NEW d \in Desk, Create(d) \/ Update(d) \/ Delete(d),
         UNCHANGED <<member, running, run, index>>
  PROVE  SyncInv'
<1>1. PICK c \in Write : DeskAsks(d, c) /\ About(c, made)
  BY DeskWrites
<1>2. call' = [call EXCEPT ![d] = c] /\ UNCHANGED <<tables, upsets, lossy>>
  BY <1>1 DEF DeskAsks
<1>3. d \in Caller /\ \A v \in Caller : call'[v] = IF v = d THEN c ELSE call[v]
  BY <1>2, Parameters DEF SyncInv, StateTypeOK
<1>4. StateTypeOK'
  BY <1>2, <1>3 DEF SyncInv, StateTypeOK, tables
<1>5. OneRun' /\ Paid' /\ InHand' /\ Unmade'
  BY <1>2, <1>3, Parameters DEF SyncInv, OneRun, Idling, Paid, InHand, Unmade, tables
<1>6. Meant'
  BY <1>1, <1>2, <1>3 DEF SyncInv, Meant, tables
<1>7. QED
  BY <1>4, <1>5, <1>6 DEF SyncInv

LEMMA CashierStep ==
  ASSUME SyncInv, NEW r \in Row, CashierDeletes(r), UNCHANGED <<member, running, run, index>>
  PROVE  SyncInv'
<1>1. /\ entity' = [entity EXCEPT ![r] = NoCustomer]
      /\ account' = [account EXCEPT ![r] = NoAccount]
      /\ status' = status \ {r} /\ upsets' = upsets + 1 /\ upsets < MaxUpsets
      /\ UNCHANGED <<made, call, lossy>>
  BY DEF CashierDeletes
<1>2. StateTypeOK'
  BY <1>1, NoCustomerType, AccountNames, Parameters DEF SyncInv, StateTypeOK
<1>3. OneRun' /\ Paid' /\ InHand' /\ Meant'
  BY <1>1 DEF SyncInv, OneRun, Idling, Paid, InHand, Meant
<1>4. Unmade'
  BY <1>1 DEF SyncInv, StateTypeOK, Unmade
<1>5. QED
  BY <1>2, <1>3, <1>4 DEF SyncInv

LEMMA MemberStep ==
  ASSUME SyncInv, NEW m \in Member, Joins(m) \/ Leaves(m)
  PROVE  SyncInv' /\ UNCHANGED <<tillVars, running, run, index>>
<1>1. PICK was, is : Becomes(m, was, is)
  BY DEF Joins, Leaves
<1>2. is \in MemberStatus /\ member' = [member EXCEPT ![m] = is]
      /\ UNCHANGED <<tillVars, running, run, index>>
  BY <1>1, Inputs DEF Becomes, MemberStatus
<1>3. StateTypeOK'
  BY <1>2 DEF SyncInv, StateTypeOK, tillVars, tables
<1>4. OneRun' /\ Paid' /\ InHand' /\ Meant' /\ Unmade'
  BY <1>2 DEF SyncInv, OneRun, Idling, Paid, InHand, Meant, Unmade, tillVars, tables
<1>5. QED
  BY <1>2, <1>3, <1>4 DEF SyncInv

LEMMA LookupStep ==
  ASSUME SyncInv, Lookup
  PROVE  SyncInv'
<1>1. index' = "fresh" /\ UNCHANGED <<tillVars, member, running, run>>
  BY DEF Lookup
<1>2. StateTypeOK'
  BY <1>1 DEF SyncInv, StateTypeOK, tillVars, tables, Index
<1>3. OneRun' /\ Paid' /\ InHand' /\ Meant' /\ Unmade'
  BY <1>1 DEF SyncInv, OneRun, Idling, Paid, InHand, Meant, Unmade, tillVars, tables
<1>4. QED
  BY <1>2, <1>3 DEF SyncInv

LEMMA RestartStep ==
  ASSUME SyncInv, Restart
  PROVE  /\ SyncInv' /\ UNCHANGED <<tables, member>> /\ lossy' = TRUE
         /\ \A w \in Caller : call'[w] = NoWrite
         /\ \A p \in Run : run'[p] = Idle
         /\ Idle.at = "idle" /\ Idle.seen = NoRows
<1>1. /\ call' = [w \in Caller |-> NoWrite] /\ upsets' = upsets + 1 /\ lossy' = TRUE
      /\ upsets < MaxUpsets /\ UNCHANGED <<tables, member>>
      /\ running' = FALSE /\ run' = [p \in Run |-> Idle] /\ index' = "fresh"
  BY DEF Restart, Stops
<1>2. Idle \in Locals /\ Idle.at = "idle" /\ Idle.seen = NoRows
  BY IdleType
<1>3. StateTypeOK'
  <2>1. call' \in [Caller -> Write] /\ run' \in [Run -> Locals]
    BY <1>1, <1>2, WriteFields
  <2>2. upsets' \in 0..MaxUpsets
    BY <1>1, Parameters DEF SyncInv, StateTypeOK
  <2>3. QED
    BY <1>1, <2>1, <2>2 DEF SyncInv, StateTypeOK, tables, Index
<1>4. \A w \in Caller : call'[w] = NoWrite
  BY <1>1
<1>5. \A p \in Run : run'[p] = Idle
  BY <1>1
<1>6. OneRun' /\ Paid' /\ InHand'
  BY <1>1, <1>2, <1>4, <1>5, WriteFields, Parameters DEF OneRun, Idling, Paid, InHand
<1>7. Meant'
  BY <1>4, WriteFields DEF Meant, About
<1>8. Unmade'
  BY <1>1, <1>2, <1>5, NoCustomerType DEF SyncInv, Unmade, tables, NoRows
<1>9. QED
  BY <1>1, <1>2, <1>3, <1>4, <1>5, <1>6, <1>7, <1>8 DEF SyncInv
-----------------------------------------------------------------------------
(* The invariant holds.                                                    *)

LEMMA SyncInitially == SyncInit => SyncInv
<1> SUFFICES ASSUME SyncInit PROVE SyncInv
  OBVIOUS
<1>1. /\ entity \in FirstTill /\ entity \in [Row -> Customer]
      /\ \A r \in Row : IsThere(entity[r]) \/ entity[r] = NoCustomer
  BY SyncAssumption DEF SyncInit
<1>2. Idle \in Locals /\ Idle.at = "idle" /\ Idle.seen = NoRows
  BY IdleType
<1>3. account \in [Row -> {AccountName(c) : c \in Customer}] /\ status \subseteq Row
      /\ made \in 0..MaxRow
  BY <1>1 DEF SyncInit
<1>4. StateTypeOK
  <2>1. call \in [Caller -> Write] /\ run \in [Run -> Locals]
    BY <1>2, WriteFields DEF SyncInit
  <2>2. member \in [Member -> MemberStatus] /\ upsets \in 0..MaxUpsets
    BY Parameters DEF SyncInit
  <2>3. QED
    BY <1>1, <1>3, <2>1, <2>2 DEF SyncInit, StateTypeOK, Index
<1>5. \A w \in Caller : call[w] = NoWrite
  BY DEF SyncInit
<1>6. \A p \in Run : run[p] = Idle
  BY DEF SyncInit
<1>7. OneRun /\ Paid /\ InHand
  BY <1>2, <1>5, <1>6, WriteFields, Parameters DEF SyncInit, OneRun, Idling, Paid, InHand
<1>8. Meant
  BY <1>5, WriteFields DEF Meant, About
<1>9. Unmade
  <2>1. ASSUME NEW r \in Row, r > made PROVE entity[r] = NoCustomer /\ account[r] = NoAccount
    <3>1. ~IsThere(entity[r])
      <4>1. r \notin 1..made
        BY <2>1, <1>3
      <4>2. QED
        BY <4>1 DEF SyncInit
    <3>2. QED
      BY <1>1, <3>1 DEF SyncInit, NoAccount
  <2>2. QED
    BY <2>1, <1>2, <1>6, NoCustomerType DEF Unmade, NoRows
<1>10. QED
  BY <1>4, <1>7, <1>8, <1>9 DEF SyncInv

LEMMA SyncStep == SyncInv /\ [SyncNext]_<<syncVars, history>> => SyncInv'
<1> SUFFICES ASSUME SyncInv, [SyncNext]_<<syncVars, history>> PROVE SyncInv'
  OBVIOUS
<1>1. ASSUME NEW p \in Run, RunStep(p) PROVE SyncInv'
  <2>1. CASE Finish(p)
    BY <2>1, FinishStep
  <2>2. CASE \E l, c : RunMoves(p, l, c) /\ RunReads(p, l, c)
    BY <2>2, RunMove
  <2>3. CASE /\ TillCall(p) /\ UNCHANGED <<member, running, run>>
             /\ index' = index \/ index' = "old"
    <3>1. p \in Caller
      BY Parameters
    <3>2. PICK c \in Write, x \in Row : TillMoves(p, c, x)
      BY <2>3, <3>1, TillCallMoves
    <3>3. QED
      BY <2>3, <3>1, <3>2, TillStep
  <2>4. QED
    BY <1>1, <2>1, <2>2, <2>3, RunSteps
<1>2. ASSUME NEW d \in Desk, TillCall(d), UNCHANGED <<member, running, run, index>>
      PROVE  SyncInv'
  <2>1. PICK c \in Write, x \in Row : TillMoves(d, c, x)
    BY <1>2, Parameters, TillCallMoves
  <2>2. QED
    BY <1>2, <2>1, Parameters, TillStep
<1>3. CASE UNCHANGED syncVars
  <2>1. UNCHANGED <<account, entity, status, made, call, upsets, lossy, member, running, run, index>>
    BY <1>3 DEF syncVars, tillVars
  <2>2. QED
    BY <2>1 DEF SyncInv, StateTypeOK, OneRun, Idling, Paid, InHand, Meant, Unmade
<1>4. QED
  BY <1>1, <1>2, <1>3, BeginStep, DeskStep, CashierStep, MemberStep, LookupStep, RestartStep
     DEF SyncNext, Act

\* The invariant the others rest on: one run is under way at a time, it writes
\* only what its budget paid for, and nobody writes to a row that was not made.
THEOREM SyncInvariant == SyncSpec => []SyncInv
<1>1. QED
  BY SyncInitially, SyncStep, PTL DEF SyncSpec

\* The till, the calls under way, the runs, the index and what is remembered of
\* them keep their types.
THEOREM SyncTypeSafe == SyncSpec => []SyncTypeOK
<1> DEFINE HistoryOK == misled \subseteq Run /\ astray \subseteq Row
<1>1. SyncInit => HistoryOK
  BY DEF SyncInit
<1>2. HistoryOK /\ [SyncNext]_<<syncVars, history>> => HistoryOK'
  BY DEF SyncNext, History, history
<1>3. SyncInv /\ HistoryOK => SyncTypeOK
  BY DEF SyncInv, SyncTypeOK
<1> HIDE DEF HistoryOK
<1>4. QED
  BY <1>1, <1>2, <1>3, SyncInvariant, PTL DEF SyncSpec

\* Between runs the customer index is not older than the sync's last write,
\* unless a run was cut short.
THEOREM IndexFollows == SyncSpec => []IndexKeepsUp
<1>1. SyncInv => IndexKeepsUp
  BY DEF SyncInv, IndexKeepsUp, Paid, OneRun, Idling, Working
<1>2. QED
  BY <1>1, SyncInvariant, PTL
-----------------------------------------------------------------------------
(* Guests.                                                                 *)

\* Nobody means a guest's row, and no run has read anything on it that would
\* make it a member's.
GuestInv ==
  /\ \A r \in Guests : NobodyS(entity[r]) /\ r <= made
  /\ \A p \in Run, r \in Guests : run[p].seen[r] = NoCustomer \/ NobodyS(run[p].seen[r])
  /\ \A w \in Caller : call[w].row \notin Guests
  /\ \A p \in Run : run[p].at \in {"states", "leaving"} => run[p].todo \cap Guests = {}

LEMMA GuestsInitially == SyncInit => GuestInv
<1> SUFFICES ASSUME SyncInit PROVE GuestInv
  OBVIOUS
<1>1. \A r \in Guests : NobodyS(entity[r])
  BY SyncAssumption DEF SyncInit
<1>2. \A r \in Guests : r <= made
  <2>1. \A r \in Guests : r \in 1..made
    BY <1>1, Parameters DEF SyncInit, NobodyS
  <2>2. QED
    BY <2>1, Parameters DEF SyncInit, Row
<1>3. \A w \in Caller : call[w].row = 0
  BY WriteFields DEF SyncInit
<1>4. 0 \notin Guests
  BY Parameters DEF Row
<1>5. \A p \in Run : run[p] = Idle
  BY DEF SyncInit
<1>6. QED
  BY <1>1, <1>2, <1>3, <1>4, <1>5, IdleType, Parameters DEF GuestInv, NoRows

\* What a step leaves alone, when it leaves the guests alone.
GuestsKept ==
  \A r \in Guests : entity'[r] = entity[r] /\ account'[r] = account[r]

LEMMA GuestCall ==
  ASSUME SyncInv, GuestInv, NEW w \in Caller, TillCall(w), UNCHANGED run
  PROVE  GuestInv' /\ GuestsKept
<1>1. PICK c \in Write, x \in Row : TillMoves(w, c, x)
  BY TillCallMoves
<1>2. \A v \in Caller : call'[v] = IF v = w THEN c ELSE call[v]
  BY <1>1 DEF TillMoves, SyncInv, StateTypeOK
<1>3. x \notin Guests /\ 0 \notin Guests
  <2>1. made + 1 \notin Guests
    BY Parameters DEF GuestInv, SyncInv, StateTypeOK, Row
  <2>2. QED
    BY <1>1, <2>1, Parameters DEF TillMoves, GuestInv, Row
<1>4. GuestsKept
  BY <1>1, <1>3, Parameters DEF TillMoves, GuestsKept
<1>5. \A r \in Guests : r <= made'
  BY <1>1, Parameters DEF TillMoves, GuestInv, SyncInv, StateTypeOK, Row
<1>6. \A v \in Caller : call'[v].row \notin Guests
  BY <1>1, <1>2, <1>3 DEF TillMoves, GuestInv
<1>7. QED
  BY <1>4, <1>5, <1>6 DEF GuestInv, GuestsKept

LEMMA GuestMove ==
  ASSUME SyncInv, GuestInv, NEW p \in Run, NEW l, NEW c, RunMoves(p, l, c), RunReads(p, l, c)
  PROVE  GuestInv' /\ GuestsKept
<1>1. /\ \A o \in Run : run'[o] = IF o = p THEN l ELSE run[o]
      /\ \A v \in Caller : call'[v] = IF v = p THEN c ELSE call[v]
      /\ UNCHANGED <<account, entity, status, made>>
  BY Parameters DEF RunMoves, SyncInv, StateTypeOK, tables
<1>2. \A r \in Guests : l.seen[r] = NoCustomer \/ NobodyS(l.seen[r])
  BY Parameters DEF RunReads, GuestInv
<1>3. \A r \in Guests : ~OfAMember(run[p].seen[r]) /\ r \notin Leaving(run[p])
  <2>1. Listed(run[p].known) \subseteq Member
    BY DEF Listed
  <2>2. QED
    BY <2>1, NoCustomerType DEF GuestInv, OfAMember, NobodyS, Leaving
<1>4. c.row \notin Guests
  <2>1. call[p].row \notin Guests /\ 0 \notin Guests
    BY Parameters DEF GuestInv, Row
  <2>2. run[p].at = "leaving" => run[p].todo \cap Guests = {}
    BY DEF GuestInv
  <2>3. \/ c.row \in {0, call[p].row} \/ OfAMember(run[p].seen[c.row])
        \/ run[p].at = "leaving" /\ c.row \in run[p].todo
    BY DEF RunReads
  <2>4. QED
    BY <1>3, <2>1, <2>2, <2>3
<1>5. l.at \in {"states", "leaving"} => l.todo \cap Guests = {}
  BY <1>3 DEF RunReads, GuestInv
<1>6. QED
  BY <1>1, <1>2, <1>4, <1>5 DEF GuestInv, GuestsKept

LEMMA GuestStep ==
  SyncInv /\ GuestInv /\ [SyncNext]_<<syncVars, history>> => GuestInv' /\ GuestsKept
<1> SUFFICES ASSUME SyncInv, GuestInv, [SyncNext]_<<syncVars, history>>
             PROVE  GuestInv' /\ GuestsKept
  OBVIOUS
<1>1. 0 \notin Guests /\ Idle.at = "idle" /\ \A r \in Guests : Idle.seen[r] = NoCustomer
  BY Parameters, IdleType DEF Row, NoRows
<1>2. ASSUME NEW p \in Run, Begin(p) \/ Finish(p)
      PROVE  GuestInv' /\ GuestsKept
  <2>1. UNCHANGED tillVars /\ \A r \in Guests : run'[p].seen[r] = NoCustomer
    BY <1>2, <1>1, BeginStep, FinishStep, Parameters DEF Begin, SyncInv, StateTypeOK
  <2>2. run'[p].at \in {"idle", "members"}
    BY <1>2, IdleType DEF Begin, Finish, Becoming, SyncInv, StateTypeOK
  <2>3. \A o \in Run : o # p => run'[o] = run[o]
    BY <1>2 DEF Begin, Finish, Becoming, SyncInv, StateTypeOK
  <2>4. QED
    BY <2>1, <2>2, <2>3 DEF GuestInv, GuestsKept, tillVars, tables
<1>3. ASSUME NEW p \in Run, RunStep(p) PROVE GuestInv' /\ GuestsKept
  <2>1. p \in Caller
    BY Parameters
  <2>2. QED
    BY <1>2, <1>3, <2>1, RunSteps, GuestMove, GuestCall
<1>4. ASSUME NEW d \in Desk, Create(d) \/ Update(d) \/ Delete(d),
             UNCHANGED <<member, running, run, index>>
      PROVE  GuestInv' /\ GuestsKept
  <2>1. PICK c \in Write : /\ DeskAsks(d, c)
           /\ \/ c.at = "account" /\ c.row = 0 /\ c.want.notes = "typed"
              \/ c.at \in {"patch", "dropStatus"} /\ c.row \in Handled /\ IsThere(entity[c.row])
    BY <1>4, DeskWrites
  <2>2. c.row \notin Guests
    BY <2>1, <1>1, Parameters
  <2>3. call' = [call EXCEPT ![d] = c] /\ UNCHANGED tables
    BY <2>1 DEF DeskAsks
  <2>4. \A v \in Caller : call'[v].row \notin Guests
    BY <2>2, <2>3 DEF GuestInv, SyncInv, StateTypeOK
  <2>5. QED
    BY <1>4, <2>3, <2>4 DEF GuestInv, GuestsKept, tables
<1>5. ASSUME NEW d \in Desk, TillCall(d), UNCHANGED <<member, running, run, index>>
      PROVE  GuestInv' /\ GuestsKept
  BY <1>5, GuestCall, Parameters
<1>6. ASSUME NEW r \in Row, CashierDeletes(r), UNCHANGED <<member, running, run, index>>
      PROVE  GuestInv' /\ GuestsKept
  <2>1. r \notin Guests
    BY <1>6, Parameters DEF CashierDeletes
  <2>2. GuestsKept
    BY <1>6, <2>1, Parameters DEF CashierDeletes, GuestsKept, SyncInv, StateTypeOK
  <2>3. QED
    BY <1>6, <2>2 DEF CashierDeletes, GuestInv, GuestsKept
<1>7. ASSUME NEW m \in Member, Joins(m) \/ Leaves(m) PROVE GuestInv' /\ GuestsKept
  <2>1. UNCHANGED <<tillVars, running, run, index>>
    BY <1>7, MemberStep
  <2>2. QED
    BY <2>1 DEF GuestInv, GuestsKept, tillVars, tables
<1>8. CASE Lookup
  BY <1>8 DEF Lookup, GuestInv, GuestsKept, tillVars, tables
<1>9. CASE Restart
  <2>1. /\ UNCHANGED <<account, entity, made>>
        /\ \A w \in Caller : call'[w] = NoWrite
        /\ \A p \in Run : run'[p] = Idle
    BY <1>9, RestartStep DEF tables
  <2>2. QED
    BY <1>1, <2>1, WriteFields DEF GuestInv, GuestsKept
<1>10. CASE UNCHANGED syncVars
  BY <1>10 DEF GuestInv, GuestsKept, syncVars, tillVars, tables
<1>11. QED
  BY <1>2, <1>3, <1>4, <1>5, <1>6, <1>7, <1>8, <1>9, <1>10 DEF SyncNext, Act

\* A customer typed by hand that is nobody's member's keeps its customer and
\* its account, whatever the runs, the desk and the failures do.
THEOREM GuestsKeep == SyncSpec => GuestsLeftAlone
<1>1. SyncInv /\ GuestInv /\ [SyncNext]_<<syncVars, history>> =>
        [\A r \in Guests : entity'[r] = entity[r] /\ account'[r] = account[r]]_syncVars
  BY GuestStep DEF GuestsKept
<1>2. SyncInv /\ GuestInv /\ [SyncNext]_<<syncVars, history>> => (SyncInv /\ GuestInv)'
  BY SyncStep, GuestStep
<1>3. SyncInit => SyncInv /\ GuestInv
  BY SyncInitially, GuestsInitially
<1>4. QED
  BY <1>1, <1>2, <1>3, PTL DEF SyncSpec, GuestsLeftAlone
=============================================================================
