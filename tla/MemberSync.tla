----------------------------- MODULE MemberSync -----------------------------
(***************************************************************************)
(* The member sync of one till: each run reads the members and the till's  *)
(* customers and then writes the difference, while members join, are       *)
(* merged and erased, staff and cashiers edit the same customers, calls    *)
(* fail and the process stops.                                             *)
(***************************************************************************)
EXTENDS TillCustomers

CONSTANTS
  Poll,        \* the run the ticker starts; the others are managers'
  MaxWrites,   \* SAMBA_MEMBER_SYNC_MAX_WRITES
  PageSize,    \* sambaMaxPageSize
  MaxPages,    \* sambaMaxScanPages
  FirstTill,   \* what may be on the till to begin with
  FirstMembers, \* the members' rows to begin with
  Moves        \* what may become of them: pairs of a member and a change

VARIABLES
  member,      \* member[m]: the status of the member's row
  running,     \* the sync's running
  run,         \* run[p]: where the run p is, and its locals
  index,       \* the customer index: what it has of the sync's writes
  misled,      \* runs that missed a row, as another one went while they read
  astray       \* rows whose number was last set otherwise than by a run not misled

syncVars == <<tillVars, member, running, run, index>>
history == <<misled, astray>>

\* "fresh" (what is cached, if anything, was read after the sync's last write),
\* "old", or "cut" (old, and left so by a run that failed).
Index == {"fresh", "old", "cut"}

MemberStatus == {"new", "active", "erased", "merged"}
NoRows == [r \in Row |-> NoCustomer]
RunStage == {"idle", "members", "scan", "active", "states", "leaving", "end", "failed"}
Locals == [at : RunStage, known : [Member -> MemberStatus], seen : [Row -> Customer],
           twice : SUBSET Row, page : 1..MaxPages + 1, todo : SUBSET (Member \cup Row),
           budget : 0..MaxWrites]
Running(stage, known, seen, twice, page, todo, budget) ==
  [at |-> stage, known |-> known, seen |-> seen, twice |-> twice, page |-> page,
   todo |-> todo, budget |-> budget]
Starting(stage, known) == Running(stage, known, NoRows, {}, 1, {}, MaxWrites)
Idle == Starting("idle", FirstMembers)

\* A customer typed by hand, with no member's number or phone.
NobodyS(c) == IsThere(c) /\ c.notes # "ours" /\ c.ref \notin Member /\ c.phone \notin Member

ASSUME SyncAssumption ==
  /\ Poll \in Run
  /\ MaxWrites \in Nat \ {0} /\ PageSize \in Nat \ {0} /\ MaxPages \in Nat \ {0}
  /\ FirstMembers \in [Member -> MemberStatus]
  /\ Moves \subseteq Member \X {"active", "erased", "merged"}
  /\ \A rows \in FirstTill :
       /\ rows \in [Row -> Customer]
       /\ \A r \in Row : IsThere(rows[r]) \/ rows[r] = NoCustomer
       /\ \A r \in Row : rows[r].notes # "ours"
       /\ \A r \in Guests : NobodyS(rows[r])

StateTypeOK ==
  /\ account \in [Row -> {AccountName(c) : c \in Customer}]
  /\ entity \in [Row -> Customer]
  /\ status \subseteq Row
  /\ made \in 0..MaxRow
  /\ call \in [Caller -> Write]
  /\ upsets \in 0..MaxUpsets
  /\ lossy \in BOOLEAN
  /\ member \in [Member -> MemberStatus]
  /\ running \in BOOLEAN
  /\ run \in [Run -> Locals]
  /\ index \in Index

\* Every variable keeps its type.
SyncTypeOK == StateTypeOK /\ misled \subseteq Run /\ astray \subseteq Row

SyncInit ==
  /\ entity \in FirstTill
  /\ account = [r \in Row |-> AccountName(entity[r])]
  /\ status = {r \in Row : IsThere(entity[r])}
  /\ made \in 0..MaxRow /\ {r \in Row : IsThere(entity[r])} = 1..made
  /\ call = [w \in Caller |-> NoWrite]
  /\ upsets = 0 /\ lossy = FALSE
  /\ member = FirstMembers
  /\ running = FALSE
  /\ run = [p \in Run |-> Idle]
  /\ index = "fresh"
  /\ misled = {} /\ astray = {}
-----------------------------------------------------------------------------
(* The members.                                                            *)

Becomes(m, was, is) ==
  /\ <<m, is>> \in Moves /\ member[m] = was
  /\ member' = [member EXCEPT ![m] = is]
  /\ UNCHANGED <<tillVars, running, run, index>>

Joins(m) == Becomes(m, "new", "active")
Leaves(m) == Becomes(m, "active", "erased") \/ Becomes(m, "active", "merged")
-----------------------------------------------------------------------------
(* A run.                                                                  *)

Becoming(p, locals) == run' = [run EXCEPT ![p] = locals]
Goes(p, stage) ==
  LET l == run[p] IN Becoming(p, Running(stage, l.known, l.seen, l.twice, l.page, l.todo, l.budget))

\* Mutated form: a run does not look whether another one is under way.
BeginAnyway(p) ==
  /\ run[p].at = "idle"
  /\ running' = TRUE
  /\ Becoming(p, Starting("members", FirstMembers))
  /\ UNCHANGED <<tillVars, member, index>>

\* A run that finds another one under way is refused.
Begin(p) ==
  /\ run[p].at = "idle" /\ ~running
  /\ running' = TRUE
  /\ Becoming(p, Starting("members", FirstMembers))
  /\ UNCHANGED <<tillVars, member, index>>

Active(known) == {m \in Member : known[m] = "active"}
Listed(known) == {m \in Member : known[m] \in {"active", "erased"}}

\* Something a run only reads fails: the run is over.
ReadFails(p, stage) ==
  /\ run[p].at = stage /\ upsets < MaxUpsets
  /\ Goes(p, "failed")
  /\ upsets' = upsets + 1
  /\ UNCHANGED <<tables, call, lossy, member, running, index>>

\* An empty list of active members ends the run as well.
MembersForTill(p) ==
  /\ run[p].at = "members"
  /\ Becoming(p, Starting(IF Active(member) = {} THEN "failed" ELSE "scan", member))
  /\ UNCHANGED <<tillVars, member, running, index>>

\* Rows come newest first, PageSize at a time.
Position(r) == Cardinality({s \in Row : s >= r /\ IsThere(entity[s])})
OnPage(n) == {r \in Row : IsThere(entity[r]) /\ Position(r) \in (n - 1) * PageSize + 1..n * PageSize}
LastPage(n) == n = MaxPages \/ n * PageSize >= Cardinality({r \in Row : IsThere(entity[r])})

All(p) ==
  /\ run[p].at = "scan"
  /\ LET l == run[p]
         page == OnPage(l.page)
         last == LastPage(l.page)
     IN  /\ Becoming(p, Running(IF last THEN "active" ELSE "scan", l.known,
           [r \in Row |-> IF r \in page /\ ~IsThere(l.seen[r]) THEN entity[r] ELSE l.seen[r]],
           l.twice \cup {r \in page : IsThere(l.seen[r])}, l.page + 1,
           IF last THEN Active(l.known) ELSE {}, l.budget))
         /\ index' = IF last THEN "fresh" ELSE index
  /\ UNCHANGED <<tillVars, member, running>>

First(S) == {x \in S : \A y \in S : x <= y}
\* Mutated form: the phone alone passes for the link.
LinkedByPhone(seen, m) == {r \in Row : IsThere(seen[r]) /\ seen[r].phone = m}

Linked(seen, m) == {r \in Row : IsThere(seen[r]) /\ seen[r].ref = m}
Unlinked(seen, m) == {r \in Row : IsThere(seen[r]) /\ seen[r].ref = 0 /\ seen[r].phone = m}
Newest(S) == {x \in S : \A y \in S : x >= y}

\* The one row that a member without a linked row is linked to, if any.
Adopted(l, m) == {r \in Unlinked(l.seen, m) \ l.twice : Unlinked(l.seen, m) = {r}}

\* The writes that put m right: none if the linked row carries the name.
WritesFor(l, m) ==
  LET is == [name |-> "full", phone |-> m, ref |-> m, notes |-> "ours"]
  IN  IF Linked(l.seen, m) # {}
        THEN {Updating(r, l.seen[r], is, {"name"}) :
                r \in {s \in Newest(Linked(l.seen, m)) : l.seen[s].name # is.name}}
      ELSE IF Adopted(l, m) # {}
        THEN {Updating(r, l.seen[r], is, {"name", "ref"}) : r \in Adopted(l, m)}
      ELSE {Creating(is)}

\* Mutated form: the last write is spent twice.
SpendsMore(p, item, writes) ==
  LET l == run[p]
  IN  /\ ~Busy(p)
      /\ IF writes = {}
           THEN /\ Becoming(p, Running(l.at, l.known, l.seen, l.twice, l.page, l.todo \ {item}, l.budget))
                /\ call' = [call EXCEPT ![p] = NoWrite]
           ELSE /\ Becoming(p, Running(l.at, l.known, l.seen, l.twice, l.page, l.todo \ {item},
                                       l.budget - 1))
                /\ \E write \in writes : call' = [call EXCEPT ![p] = write]
      /\ UNCHANGED <<tables, upsets, lossy, member, running, index>>

\* The next item of the loop: a write if one is needed and the budget allows it.
Spends(p, item, writes) ==
  LET l == run[p]
  IN  /\ ~Busy(p)
      /\ IF writes = {} \/ l.budget = 0
           THEN /\ Becoming(p, Running(l.at, l.known, l.seen, l.twice, l.page, l.todo \ {item}, l.budget))
                /\ call' = [call EXCEPT ![p] = NoWrite]
           ELSE /\ Becoming(p, Running(l.at, l.known, l.seen, l.twice, l.page, l.todo \ {item},
                                       l.budget - 1))
                /\ \E write \in writes : call' = [call EXCEPT ![p] = write]
      /\ UNCHANGED <<tables, upsets, lossy, member, running, index>>

Reconcile(p) ==
  /\ run[p].at = "active"
  /\ \E m \in First(run[p].todo) : Spends(p, m, WritesFor(run[p], m))

\* Mutated form: a number nobody holds is taken off whoever typed the row.
LeavingAll(l) ==
  {r \in Row : IsThere(l.seen[r]) /\ l.seen[r].ref # 0 /\ l.seen[r].ref \notin Active(l.known)}

\* Mutated form: only what the sync made is taken off.
LeavingOurs(l) ==
  {r \in Row : /\ IsThere(l.seen[r]) /\ l.seen[r].ref # 0
               /\ l.seen[r].ref \notin Active(l.known) /\ l.seen[r].notes = "ours"}

\* Customers of erased members, and those the sync made whose number nobody holds.
Leaving(l) ==
  {r \in Row : /\ IsThere(l.seen[r]) /\ l.seen[r].ref # 0
               /\ l.seen[r].ref \notin Active(l.known)
               /\ l.seen[r].ref \in Listed(l.known) \/ l.seen[r].notes = "ours"}

Settled(p) ==
  /\ run[p].at = "active" /\ run[p].todo = {} /\ ~Busy(p)
  /\ LET l == run[p]
         go == Leaving(l) # {} /\ l.budget > 0
     IN  Becoming(p, Running(IF go THEN "states" ELSE "end", FirstMembers, NoRows, {}, 1,
                             IF go THEN Leaving(l) ELSE {}, l.budget))
  /\ call' = [call EXCEPT ![p] = NoWrite]
  /\ UNCHANGED <<tables, upsets, lossy, member, running, index>>

EntityStateIndex(p) ==
  /\ run[p].at = "states"
  /\ Goes(p, "leaving")
  /\ UNCHANGED <<tillVars, member, running, index>>

Anonymous == [name |-> "other", phone |-> 0, ref |-> 0, notes |-> "none"]

\* A customer that cannot be removed loses what identifies it.
Anonymise(p) ==
  /\ run[p].at = "leaving" /\ call[p].at = "failed" /\ call[p].want = NoCustomer
  /\ call' = [call EXCEPT ![p] =
       Writing("patch", call[p].row, Anonymous, {"name", "data", "notes", "account"})]
  /\ UNCHANGED <<tables, upsets, lossy, member, running, run, index>>

Removed(p) == ~(call[p].at = "failed" /\ call[p].want = NoCustomer)

\* The customers go in the order of their numbers, here in any order.
Remove(p) ==
  /\ run[p].at = "leaving" /\ Removed(p)
  /\ \E r \in run[p].todo : Spends(p, r, {Removing(r)})

Cleared(p) ==
  /\ run[p].at = "leaving" /\ run[p].todo = {} /\ ~Busy(p) /\ Removed(p)
  /\ Goes(p, "end")
  /\ call' = [call EXCEPT ![p] = NoWrite]
  /\ UNCHANGED <<tables, upsets, lossy, member, running, index>>

\* Mutated form: a run that wrote leaves the index as it is.
FinishAndKeep(p) ==
  /\ run[p].at \in {"end", "failed"}
  /\ running' = FALSE
  /\ Becoming(p, Idle)
  /\ index' = IF run[p].at = "failed" /\ index = "old" THEN "cut" ELSE index
  /\ UNCHANGED <<tillVars, member>>

\* A run that wrote drops the index, unless it failed.
Finish(p) ==
  /\ run[p].at \in {"end", "failed"}
  /\ running' = FALSE
  /\ Becoming(p, Idle)
  /\ index' = IF run[p].at = "failed" THEN (IF index = "old" THEN "cut" ELSE index)
              ELSE IF run[p].budget < MaxWrites THEN "fresh" ELSE index
  /\ UNCHANGED <<tillVars, member>>

\* A lookup for a bill that finds the index empty, too old or without its
\* customer reads all customers, with the index locked.
Lookup ==
  /\ index # "fresh"
  /\ index' = "fresh"
  /\ UNCHANGED <<tillVars, member, running, run>>

\* A deploy or a crash.
Restart ==
  /\ Stops
  /\ running' = FALSE
  /\ run' = [p \in Run |-> Idle]
  /\ index' = "fresh"
  /\ UNCHANGED member
-----------------------------------------------------------------------------
RunStep(p) ==
  \/ MembersForTill(p) \/ All(p) \/ Reconcile(p) \/ Settled(p)
  \/ EntityStateIndex(p) \/ Anonymise(p) \/ Remove(p) \/ Cleared(p) \/ Finish(p)
  \/ \E stage \in {"members", "scan", "states"} : ReadFails(p, stage)
  \/ /\ TillCall(p)
     /\ index' = IF tables' # tables THEN "old" ELSE index
     /\ UNCHANGED <<member, running, run>>

Act ==
  \/ \E m \in Member : Joins(m) \/ Leaves(m)
  \/ \E p \in Run : Begin(p) \/ RunStep(p)
  \/ /\ \E d \in Desk : Create(d) \/ Update(d) \/ Delete(d) \/ TillCall(d)
     /\ UNCHANGED <<member, running, run, index>>
  \/ \E r \in Row : CashierDeletes(r) /\ UNCHANGED <<member, running, run, index>>
  \/ Lookup \/ Restart

\* The number that a customer of the sync's making carries.
Mark == [r \in Row |-> IF IsThere(entity[r]) /\ entity[r].notes = "ours" THEN entity[r].ref ELSE 0]

\* What a run past its first page misses when a customer goes, and whose doing
\* a customer's number is.
Past(p) == run[p].at = "scan" /\ run[p].page > 1
SomeoneGoes == \E r \in Row : IsThere(entity[r]) /\ ~IsThere(entity'[r])
WellRead == \E p \in Run \ misled : call'[p] # call[p]
History ==
  /\ misled' = {p \in Run : run'[p].at # "idle" /\ (p \in misled \/ (Past(p) /\ SomeoneGoes))}
  /\ astray' = {r \in Row : IF Mark'[r] = Mark[r] THEN r \in astray
                            ELSE Mark'[r] # 0 /\ ~WellRead}

SyncNext == Act /\ History

SyncSpec == SyncInit /\ [][SyncNext]_<<syncVars, history>>

\* The ticker keeps ticking, and a run that was begun goes on.
FairSyncSpec == SyncSpec /\ WF_syncVars(Begin(Poll) \/ \E p \in Run : RunStep(p))
-----------------------------------------------------------------------------
(* What the sync is for.                                                   *)

\* A run never makes or takes up a second customer for a member: not beside
\* another run, after a restart or a lost answer, or while staff change the same
\* customers by what they read earlier.  The customers in astray are not the
\* runs' doing: an edit put a number (back) on them, or a run wrote them that
\* a deletion during its reading had misled (OneRowPerMember).
NoSecondCustomer ==
  \A r, s \in Row \ astray : Mark[r] # 0 /\ Mark[s] = Mark[r] => r = s

\* A member has one customer of the sync's making.
OneRowPerMember ==
  \A r, s \in Row :
    /\ IsThere(entity[r]) /\ entity[r].notes = "ours" /\ entity[r].ref # 0
    /\ IsThere(entity[s]) /\ entity[s].notes = "ours" /\ entity[s].ref = entity[r].ref
    => r = s

\* Customers typed by hand that are nobody's member's are left as they are,
\* whatever number or name is on them.
GuestsLeftAlone ==
  [][\A r \in Guests : entity'[r] = entity[r] /\ account'[r] = account[r]]_syncVars

\* Between runs the index does not hide what the sync wrote, unless the last
\* run was cut short: bills are booked by what it says.
IndexKeepsUp == running \/ index # "old"

\* Every active member gets a customer on the till, through failures, restarts
\* and cashiers deleting it.
MembersReachTheTill ==
  \A m \in Member :
    member[m] = "active" ~>
      (member[m] # "active" \/ \E r \in Row : entity[r].ref = m)

\* What is linked to an erased member, and what the sync made for a merged one,
\* goes from the till, as long as there is an active member left.
LeaversLeaveTheTill ==
  \A m \in Member :
    member[m] \in {"erased", "merged"} ~>
      \/ Active(member) = {}
      \/ \A r \in Row : entity[r].ref = m => member[m] = "merged" /\ entity[r].notes # "ours"

\* Once a customer linked to an erased member has been dealt with, the till no
\* longer carries the name or number (the removal's comment), the account's
\* included.
FormerMembersForgotten ==
  \A m \in Member, r \in Row :
    (member[m] = "erased" /\ entity[r].ref = m) ~>
      (Active(member) = {} \/ (entity[r].phone # m /\ account[r].phone # m))

\* Whether a row has a customer, may get one, or had its own: a row whose
\* account is made becomes a customer only while its writer is at it.
Life ==
  [r \in Row |->
     IF IsThere(entity[r]) THEN "there"
     ELSE IF r > made \/ \E w \in Caller : call[w].at = "entity" /\ call[w].row = r
       THEN "free" ELSE "gone"]

\* The number that the sync keeps a customer for.
Kept == [r \in Row |-> IF r \in astray THEN 0 ELSE Mark[r]]

\* The till's customers are what module Roster promises: a customer that is
\* gone does not come back through a write that was under way, and the sync
\* makes or takes up a customer for a number as if it looked at that very
\* moment that it has none.
R == INSTANCE Roster WITH life <- Life, kept <- Kept

ImplementsRoster == R!Spec
=============================================================================
