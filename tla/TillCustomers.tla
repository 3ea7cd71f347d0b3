--------------------------- MODULE TillCustomers ----------------------------
(***************************************************************************)
(* The customers of one till, as SambaCustomerService keeps them through   *)
(* the till's table API: a customer is a row of Accounts, of Entities and  *)
(* of EntityStateValues, written one call at a time.  Any call may be      *)
(* refused, or applied with its answer lost.  The callers are the staff's  *)
(* desk and the runs of the member sync (module MemberSync).               *)
(*                                                                         *)
(* A customer's rows bear one number here, the order they were made in.    *)
(* A member number, and the phone of the member who holds it, are the same *)
(* natural; 0 is an empty field.  A name is the full name of the member    *)
(* whose number the row carries, or any other text.                        *)
(***************************************************************************)
EXTENDS Integers, FiniteSets

CONSTANTS
  Member,      \* member numbers
  Unheld,      \* numbers of the same shape that nobody ever held
  Desk,        \* staff at work in the web application
  Run,         \* runs of the member sync that may be started
  Creations,   \* customers the desk adds
  Edits,       \* what it changes of one: pairs of a customer and the fields asked for
  Handled,     \* rows the desk and the cashiers may change or delete
  Guests,      \* rows typed by hand that are nobody's member's
  MaxRow,      \* bound of the model: rows ever made
  DeskRow,     \* bound: the last row the desk may make
  MaxUpsets    \* bound: calls that fail, restarts and rows a cashier deletes

VARIABLES
  account,     \* account[r]: the name and phone account r is named after
  entity,      \* entity[r]: the customer
  status,      \* rows with a status
  made,        \* rows made so far
  call,        \* call[w]: the write w is at
  upsets,      \* how often something went wrong
  lossy        \* whether an answer or a clean-up call was lost with it

tables == <<account, entity, status, made>>
tillVars == <<account, entity, status, made, call, upsets, lossy>>

Row == 1..MaxRow
Number == Member \cup Unheld \cup {0}
Name == {"full", "other", "none"}
Customer == [name : Name, phone : Number, ref : Number, notes : {"ours", "typed", "none"}]
NoCustomer == [name |-> "none", phone |-> 0, ref |-> 0, notes |-> "none"]
IsThere(c) == c.name # "none"
AccountName(c) == [name |-> c.name, phone |-> c.phone]
NoAccount == AccountName(NoCustomer)
Part == {"name", "data", "notes", "account"}
Field == {"name", "phone", "ref", "notes"}

ASSUME CustomersAssumption ==
  /\ Member \subseteq Nat \ {0} /\ Unheld \subseteq Nat \ {0} /\ Member \cap Unheld = {}
  /\ Desk \cap Run = {}
  /\ MaxRow \in Nat /\ DeskRow \in Nat /\ MaxUpsets \in Nat
  /\ Guests \subseteq 1..MaxRow /\ Handled \subseteq (1..MaxRow) \ Guests
  /\ Creations \subseteq Customer /\ \A c \in Creations : c.notes = "typed" /\ IsThere(c)
  /\ Edits \subseteq Customer \X SUBSET Field /\ \A e \in Edits : IsThere(e[1])

Caller == Desk \cup Run
Stage == {"idle", "account", "entity", "status", "undoEntity", "undoAccount",
          "patch", "rename", "dropStatus", "dropEntity", "dropAccount", "failed"}
Write == [at : Stage, row : 0..MaxRow, want : Customer, parts : SUBSET Part]
Writing(stage, row, want, parts) ==
  [at |-> stage, row |-> row, want |-> want, parts |-> parts]
NoWrite == Writing("idle", 0, NoCustomer, {})
Creating(want) == Writing("account", 0, want, {})
Removing(r) == Writing("dropStatus", r, NoCustomer, {})

\* The write of update(): the fields asked for, over the row as it was read.
\* CustomData holds phone and member number and is replaced as a whole, with
\* the field that was not asked for as it was read; the account is renamed
\* when the name or the phone changes.
Updating(r, current, asked, fields) ==
  LET want == [name |-> IF "name" \in fields THEN asked.name ELSE current.name,
               phone |-> IF "phone" \in fields THEN asked.phone ELSE current.phone,
               ref |-> IF "ref" \in fields THEN asked.ref ELSE current.ref,
               notes |-> IF "notes" \in fields THEN asked.notes ELSE current.notes]
  IN  Writing("patch", r, want,
        (fields \cap {"name", "notes"})
          \cup (IF fields \cap {"phone", "ref"} = {} THEN {} ELSE {"data"})
          \cup (IF AccountName(want) = AccountName(current) THEN {} ELSE {"account"}))
Busy(w) == call[w].at \notin {"idle", "failed"}
-----------------------------------------------------------------------------
(* One call to the till.                                                   *)

Outcome == {"done", "refused", "lost"}

\* A call goes through only if the row it names is there.
Answers(o, there) ==
  /\ o # "done" /\ there => upsets < MaxUpsets
  /\ there \/ o = "refused"
  /\ upsets' = upsets + (IF o # "done" /\ there THEN 1 ELSE 0)

\* Where the call leaves its caller; only a run looks at what has failed.
Step(w, o, next, otherwise) ==
  LET at == IF o = "done" THEN next ELSE otherwise
  IN  call' = [call EXCEPT ![w] =
        IF at = "done" \/ (at = "failed" /\ w \in Desk) THEN NoWrite
        ELSE Writing(at, call[w].row, call[w].want, call[w].parts)]

InsertAccount(w) ==
  /\ call[w].at = "account" /\ made < MaxRow
  /\ \E o \in Outcome :
       /\ Answers(o, TRUE)
       /\ made' = made + (IF o = "refused" THEN 0 ELSE 1)
       /\ account' = IF o = "refused" THEN account
                     ELSE [account EXCEPT ![made + 1] = AccountName(call[w].want)]
       /\ call' = [call EXCEPT ![w] =
            IF o = "done" THEN Writing("entity", made + 1, call[w].want, {}) ELSE NoWrite]
       /\ lossy' = (lossy \/ o = "lost")
  /\ UNCHANGED <<entity, status>>

InsertEntity(w) ==
  /\ call[w].at = "entity"
  /\ \E o \in Outcome :
       /\ Answers(o, TRUE)
       /\ entity' = IF o = "refused" THEN entity
                    ELSE [entity EXCEPT ![call[w].row] = call[w].want]
       /\ Step(w, o, "status", "undoAccount")
       /\ lossy' = (lossy \/ o = "lost")
  /\ UNCHANGED <<account, status, made>>

\* Mutated form: a customer whose status fails keeps its entity.
InsertStatusAndKeep(w) ==
  /\ call[w].at = "status"
  /\ \E o \in Outcome :
       /\ Answers(o, TRUE)
       /\ status' = IF o = "refused" THEN status ELSE status \cup {call[w].row}
       /\ Step(w, o, "done", "undoAccount")
       /\ lossy' = lossy
  /\ UNCHANGED <<account, entity, made>>

InsertStatus(w) ==
  /\ call[w].at = "status"
  /\ \E o \in Outcome :
       /\ Answers(o, TRUE)
       /\ status' = IF o = "refused" THEN status ELSE status \cup {call[w].row}
       /\ Step(w, o, "done", "undoEntity")
       /\ lossy' = lossy
  /\ UNCHANGED <<account, entity, made>>

\* Mutated form: a change to a customer that is gone makes it again.
UpsertEntity(w) ==
  /\ call[w].at = "patch"
  /\ LET r == call[w].row
         want == call[w].want
         parts == call[w].parts
         now == entity[r]
     IN  \E o \in Outcome :
           /\ Answers(o, TRUE)
           /\ entity' = IF o = "refused" THEN entity ELSE [entity EXCEPT ![r] =
                [name |-> IF "name" \in parts THEN want.name ELSE now.name,
                 phone |-> IF "data" \in parts THEN want.phone ELSE now.phone,
                 ref |-> IF "data" \in parts THEN want.ref ELSE now.ref,
                 notes |-> IF "notes" \in parts THEN want.notes ELSE now.notes]]
           /\ Step(w, o, IF "account" \in parts THEN "rename" ELSE "done", "failed")
  /\ UNCHANGED <<account, status, made, lossy>>

UpdateEntity(w) ==
  /\ call[w].at = "patch"
  /\ LET r == call[w].row
         want == call[w].want
         parts == call[w].parts
         now == entity[r]
     IN  \E o \in Outcome :
           /\ Answers(o, IsThere(now))
           /\ entity' = IF o = "refused" THEN entity ELSE [entity EXCEPT ![r] =
                [name |-> IF "name" \in parts THEN want.name ELSE now.name,
                 phone |-> IF "data" \in parts THEN want.phone ELSE now.phone,
                 ref |-> IF "data" \in parts THEN want.ref ELSE now.ref,
                 notes |-> IF "notes" \in parts THEN want.notes ELSE now.notes]]
           /\ Step(w, o, IF "account" \in parts THEN "rename" ELSE "done", "failed")
  /\ UNCHANGED <<account, status, made, lossy>>

\* The account's new name is not worth an error.
UpdateAccount(w) ==
  /\ call[w].at = "rename"
  /\ LET r == call[w].row
     IN  \E o \in Outcome :
           /\ Answers(o, account[r] # NoAccount)
           /\ account' = IF o = "refused" THEN account
                         ELSE [account EXCEPT ![r] = AccountName(call[w].want)]
           /\ Step(w, o, "done", "done")
  /\ UNCHANGED <<entity, status, made, lossy>>

DeleteStatus(w) ==
  /\ call[w].at = "dropStatus"
  /\ LET r == call[w].row
     IN  \E o \in Outcome :
           /\ Answers(o, r \in status)
           /\ status' = IF o = "refused" THEN status ELSE status \ {r}
           /\ Step(w, IF r \in status THEN o ELSE "done", "dropEntity", "failed")
  /\ UNCHANGED <<account, entity, made, lossy>>

\* A delete that is a step of remove, or undoes a step of Create.
DeleteEntity(w) ==
  /\ call[w].at \in {"dropEntity", "undoEntity"}
  /\ LET r == call[w].row
         undo == call[w].at = "undoEntity"
     IN  \E o \in Outcome :
           /\ Answers(o, IsThere(entity[r]))
           /\ entity' = IF o = "refused" THEN entity ELSE [entity EXCEPT ![r] = NoCustomer]
           /\ IF undo THEN Step(w, o, "undoAccount", "undoAccount")
                      ELSE Step(w, o, "dropAccount", "failed")
           /\ lossy' = (lossy \/ o = "lost" \/ (undo /\ o # "done"))
  /\ UNCHANGED <<account, status, made>>

DeleteAccount(w) ==
  /\ call[w].at \in {"dropAccount", "undoAccount"}
  /\ LET r == call[w].row
         end == IF call[w].at = "undoAccount" THEN "failed" ELSE "done"
     IN  \E o \in Outcome :
           /\ Answers(o, account[r] # NoAccount)
           /\ account' = IF o = "refused" THEN account ELSE [account EXCEPT ![r] = NoAccount]
           /\ Step(w, o, end, end)
           /\ lossy' = (lossy \/ o # "done")
  /\ UNCHANGED <<entity, status, made>>

TillCall(w) ==
  \/ InsertAccount(w) \/ InsertEntity(w) \/ InsertStatus(w)
  \/ UpdateEntity(w) \/ UpdateAccount(w)
  \/ DeleteStatus(w) \/ DeleteEntity(w) \/ DeleteAccount(w)
-----------------------------------------------------------------------------
(* The desk and the cashiers.                                              *)

DeskAsks(d, write) ==
  /\ ~Busy(d)
  /\ call' = [call EXCEPT ![d] = write]
  /\ UNCHANGED <<tables, upsets, lossy>>

Create(d) == made < DeskRow /\ \E c \in Creations : DeskAsks(d, Creating(c))

Update(d) ==
  \E r \in Handled, e \in Edits :
    IsThere(entity[r]) /\ DeskAsks(d, Updating(r, entity[r], e[1], e[2]))

Delete(d) == \E r \in Handled : IsThere(entity[r]) /\ DeskAsks(d, Removing(r))

\* A cashier deletes a customer on the till itself.
CashierDeletes(r) ==
  /\ r \in Handled /\ IsThere(entity[r]) /\ upsets < MaxUpsets
  /\ entity' = [entity EXCEPT ![r] = NoCustomer]
  /\ account' = [account EXCEPT ![r] = NoAccount]
  /\ status' = status \ {r}
  /\ upsets' = upsets + 1
  /\ UNCHANGED <<made, call, lossy>>

\* The process stops, with every write it was at.
Stops ==
  /\ upsets < MaxUpsets
  /\ call' = [w \in Caller |-> NoWrite]
  /\ upsets' = upsets + 1
  /\ lossy' = TRUE
  /\ UNCHANGED tables

\* A create that fails leaves no half of a customer behind (Create's comment),
\* as long as no answer and none of the calls that undo it is lost.
NoHalfCustomer ==
  ~lossy /\ (\A w \in Caller : ~Busy(w)) =>
    \A r \in Row : account[r] = NoAccount <=> ~IsThere(entity[r])
=============================================================================
