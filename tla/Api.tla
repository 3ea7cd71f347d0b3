--------------------------------- MODULE Api --------------------------------
(***************************************************************************)
(* The HTTP server: who may call which route, with the minute-long cache   *)
(* of staff access tokens that concurrent requests fill while staff are    *)
(* promoted, moved and deactivated.                                        *)
(*                                                                         *)
(* A staff member stands for the access token they call with.  What the    *)
(* handlers do beyond this module is in Outbox, Engagement, SambaPull and  *)
(* TillCustomers.                                                          *)
(***************************************************************************)
EXTENDS Integers, FiniteSets

CONSTANTS
  Staff,       \* staff members, each with a token of their own
  Request,     \* requests that may be under way at once
  Calls,       \* the calls that are made: pairs of a route and a caller
  Source,      \* till names a path may carry
  Tills,       \* those of a configured till
  Secret,      \* is SAMBA_WEBHOOK_SECRET set
  TTL,         \* staffTokenTTL
  MaxEntries,  \* the size of the cache above which it is swept
  LastTime,    \* bound of the model: the clock stops here
  MaxChanges   \* bound: changes of staff profiles, and restarts

VARIABLES
  now,         \* the clock
  role,        \* role[s]: what the profile of s says
  last,        \* last[s, r]: when the profile last stopped saying r (history)
  entries,     \* staffTokenCache.entries
  req,         \* req[q]: the request q and where it is
  changes      \* changes and restarts so far

apiVars == <<now, role, last, entries, req, changes>>

Role == {"manager", "staff", "inactive"}
Key == {"key", "signed key"}
Caller == Staff \cup Key \cup {"nobody"}
Never == -1 - TTL
-----------------------------------------------------------------------------
(* The routes: guard, whether a signature may be asked for, whether the    *)
(* path names a till and a body is read, and what the handler does.        *)

Does == {"nothing", "read", "intake", "heartbeat", "import", "reply", "status", "job",
         "tables", "customer", "delete", "sync"}
Row(guard, signed, till, body, does) ==
  [guard |-> guard, signed |-> signed, till |-> till, body |-> body, does |-> does]
OpenRow(body, does) == Row("open", FALSE, FALSE, body, does)
KeyRow(body, does) == Row("key", FALSE, FALSE, body, does)
PosRow(till, does) == Row("key", TRUE, till, TRUE, does)
StaffRow(guard, body, does) == Row(guard, FALSE, TRUE, body, does)

Route ==
  [ health          |-> OpenRow(FALSE, "nothing"),
    verify          |-> OpenRow(FALSE, "read"),
    whatsapp        |-> OpenRow(TRUE, "intake"),
    inbound         |-> KeyRow(TRUE, "intake"),
    heartbeat       |-> PosRow(FALSE, "heartbeat"),
    tickets         |-> PosRow(FALSE, "import"),
    pullOrRun       |-> PosRow(FALSE, "import"),
    pullOrRunOfTill |-> PosRow(TRUE, "import"),
    keyReads        |-> KeyRow(FALSE, "read"),
    reply           |-> KeyRow(TRUE, "reply"),
    status          |-> KeyRow(TRUE, "status"),
    events          |-> KeyRow(TRUE, "nothing"),
    sweep           |-> KeyRow(FALSE, "job"),
    partitions      |-> KeyRow(TRUE, "job"),
    sources         |-> Row("staff", FALSE, FALSE, FALSE, "read"),
    tillReads       |-> StaffRow("staff", FALSE, "read"),
    cleanTickets    |-> StaffRow("staff", FALSE, "import"),
    customer        |-> StaffRow("staff", TRUE, "customer"),
    delete          |-> StaffRow("manager", FALSE, "delete"),
    tables          |-> StaffRow("manager", FALSE, "tables"),
    syncStatus      |-> StaffRow("manager", FALSE, "read"),
    syncRun         |-> StaffRow("manager", FALSE, "sync") ]
Path == DOMAIN Route

ASSUME ApiAssumption ==
  /\ Tills \subseteq Source
  /\ Secret \in BOOLEAN
  /\ TTL \in Nat \ {0} /\ MaxEntries \in Nat /\ LastTime \in Nat /\ MaxChanges \in Nat
  /\ Calls \subseteq Path \X Caller
  /\ Staff \cap (Key \cup {"nobody"}) = {}
-----------------------------------------------------------------------------
NoEntry == [role |-> "inactive", expires |-> Never]
Entry == [role : Role, expires : Never..LastTime + TTL]
Cached(s) == entries[s].expires # Never

Stage == {"idle", "user", "profile", "store", "handle", "done"}
Answer == {"none", "ok", "unauthorized", "forbidden", "invalid", "failed"}
At(stage, path, by, start, as, answer, did) ==
  [at |-> stage, path |-> path, by |-> by, start |-> start, role |-> as,
   answer |-> answer, did |-> did]
NoRequest == At("idle", "health", "nobody", 0, "inactive", "none", "nothing")
Requests == [at : Stage, path : Path, by : Caller, start : 0..LastTime, role : Role,
             answer : Answer, did : Does]

\* Every variable keeps its type.
ApiTypeOK ==
  /\ now \in 0..LastTime
  /\ role \in [Staff -> Role]
  /\ last \in [Staff \X Role -> Never..LastTime]
  /\ entries \in [Staff -> Entry]
  /\ req \in [Request -> Requests]
  /\ changes \in 0..MaxChanges

ApiInit ==
  /\ now = 0
  /\ role \in [Staff -> Role]
  /\ last = [x \in Staff \X Role |-> Never]
  /\ entries = [s \in Staff |-> NoEntry]
  /\ req = [q \in Request |-> NoRequest]
  /\ changes = 0
-----------------------------------------------------------------------------
(* Time, and the staff's profiles.                                         *)

Tick == now < LastTime /\ now' = now + 1 /\ UNCHANGED <<role, last, entries, req, changes>>

Change(s, r) ==
  /\ changes < MaxChanges /\ r # role[s]
  /\ role' = [role EXCEPT ![s] = r]
  /\ last' = [last EXCEPT ![<<s, role[s]>>] = now]
  /\ changes' = changes + 1
  /\ UNCHANGED <<now, entries, req>>

Restart ==
  /\ changes < MaxChanges
  /\ entries' = [s \in Staff |-> NoEntry]
  /\ req' = [q \in Request |-> NoRequest]
  /\ changes' = changes + 1
  /\ UNCHANGED <<now, role, last>>
-----------------------------------------------------------------------------
(* A request.                                                              *)

\* A finished request no longer needs its path.
Done(r, as, answer, did) == At("done", "health", r.by, r.start, as, answer, did)
On(r, stage, as) == At(stage, r.path, r.by, r.start, as, "none", "nothing")

\* Mutated form: managerOnly lets any active member of staff through.
AnyStaff(r, as) == On(r, "handle", as)

\* managerOnly, for the routes that have it.
Admitted(r, as) ==
  IF Route[r.path].guard = "manager" /\ as # "manager" THEN Done(r, as, "forbidden", "nothing")
  ELSE On(r, "handle", as)

\* The shared key; with a signature where one is asked for.
HasKey(path, by) ==
  by = "signed key" \/ (by = "key" /\ ~(Secret /\ Route[path].signed))

Usable(s) == now < entries[s].expires

\* What auth and staffAuth make of a request that has just come in.
Checked(r) ==
  LET guard == Route[r.path].guard
  IN  CASE guard = "open" -> On(r, "handle", "inactive")
        [] guard = "key" /\ HasKey(r.path, r.by) -> On(r, "handle", "manager")
        [] guard \in {"staff", "manager"} /\ r.by \in Key -> Admitted(r, "manager")
        [] guard \in {"staff", "manager"} /\ r.by \in Staff ->
             IF Usable(r.by) THEN Admitted(r, entries[r.by].role) ELSE On(r, "user", "inactive")
        [] OTHER -> Done(r, "inactive", "unauthorized", "nothing")

\* A request with a token reads the clock before it looks into the cache.
Arrive(q, path, by) ==
  /\ req[q].at \in {"idle", "done"}
  /\ req' = [req EXCEPT ![q] =
       Checked(At("idle", path, by, IF by \in Staff THEN now ELSE 0,
                  "inactive", "none", "nothing"))]
  /\ UNCHANGED <<now, role, last, entries, changes>>

\* Supabase Auth knows the token, does not, or cannot be asked.
User(q) ==
  /\ req[q].at = "user"
  /\ \E r \in {On(req[q], "profile", "inactive"),
               Done(req[q], "inactive", "unauthorized", "nothing"),
               Done(req[q], "inactive", "failed", "nothing")} :
       req' = [req EXCEPT ![q] = r]
  /\ UNCHANGED <<now, role, last, entries, changes>>

\* Mutated form: a refusal is kept like a principal.
ProfileKept(q) ==
  /\ req[q].at = "profile"
  /\ LET found == role[req[q].by]
     IN  \E r \in {On(req[q], "store", found), Done(req[q], "inactive", "failed", "nothing")} :
           req' = [req EXCEPT ![q] = r]
  /\ UNCHANGED <<now, role, last, entries, changes>>

\* Mutated form: the profile is read without its role.
ProfileUnread(q) ==
  /\ req[q].at = "profile"
  /\ LET found == role[req[q].by]
     IN  \E r \in {IF found = "inactive" THEN Done(req[q], found, "forbidden", "nothing")
                   ELSE On(req[q], "store", "none"),
                   Done(req[q], "inactive", "failed", "nothing")} :
           req' = [req EXCEPT ![q] = r]
  /\ UNCHANGED <<now, role, last, entries, changes>>

Profile(q) ==
  /\ req[q].at = "profile"
  /\ LET found == role[req[q].by]
     IN  \E r \in {IF found = "inactive" THEN Done(req[q], found, "forbidden", "nothing")
                   ELSE On(req[q], "store", found),
                   Done(req[q], "inactive", "failed", "nothing")} :
           req' = [req EXCEPT ![q] = r]
  /\ UNCHANGED <<now, role, last, entries, changes>>

\* Mutated form: the minute starts when the answer is stored.
StoreLate(q) ==
  /\ req[q].at = "store"
  /\ LET r == req[q]
     IN  /\ entries' = [s \in Staff |->
              IF s = r.by THEN [role |-> r.role, expires |-> now + TTL] ELSE entries[s]]
         /\ req' = [req EXCEPT ![q] = Admitted(r, r.role)]
  /\ UNCHANGED <<now, role, last, changes>>

\* A cache above its size is first swept of what had expired when the request
\* came in.  The entry lasts from that moment too.
Store(q) ==
  /\ req[q].at = "store"
  /\ LET r == req[q]
         sweep == Cardinality({s \in Staff : Cached(s)}) > MaxEntries
     IN  /\ entries' = [s \in Staff |->
              IF s = r.by THEN [role |-> r.role, expires |-> r.start + TTL]
              ELSE IF sweep /\ r.start > entries[s].expires THEN NoEntry
              ELSE entries[s]]
         /\ req' = [req EXCEPT ![q] = Admitted(r, r.role)]
  /\ UNCHANGED <<now, role, last, changes>>

\* The path names no till that is configured; the body is no JSON object.
Unknown(route, till) == route.till /\ till \notin Tills
Unreadable(route, wellFormed) == route.body /\ ~wellFormed

\* The handler: the till the path names, the body, then the service's call.
Handle(q) ==
  /\ req[q].at = "handle"
  /\ LET r == req[q]
         route == Route[r.path]
     IN  \E till \in Source, wellFormed \in BOOLEAN, answer \in {"ok", "failed"} :
           req' = [req EXCEPT ![q] =
             IF Unknown(route, till) \/ Unreadable(route, wellFormed)
               THEN Done(r, r.role, "invalid", "nothing")
               ELSE Done(r, r.role, answer, route.does)]
  /\ UNCHANGED <<now, role, last, entries, changes>>

ApiNext ==
  \/ Tick \/ Restart
  \/ \E s \in Staff, r \in Role : Change(s, r)
  \/ \E q \in Request :
       \/ \E c \in Calls : Arrive(q, c[1], c[2])
       \/ User(q) \/ Profile(q) \/ Store(q) \/ Handle(q)

ApiSpec == ApiInit /\ [][ApiNext]_apiVars
-----------------------------------------------------------------------------
\* The last moment at which the profile of s said r.
Held(s, r) == IF role[s] = r THEN now ELSE last[<<s, r>>]

\* A deactivated staff member loses access within a minute: who is let into a
\* handler had the role they were let in with less than TTL before they called
\* (the cache's comment), however slow the lookups that filled the cache were.
AccessEndsInTime ==
  \A q \in Request :
    req[q].by \in Staff /\ req[q].role # "inactive" =>
      Held(req[q].by, req[q].role) > req[q].start - TTL

\* The cache refuses nobody: who is refused as inactive was inactive while the
\* request was under way.
RefusalsAreFresh ==
  \A q \in Request :
    req[q].at = "done" /\ req[q].by \in Staff /\ req[q].answer = "forbidden"
      /\ req[q].role = "inactive" => Held(req[q].by, "inactive") >= req[q].start

\* Only a manager or a holder of the shared key deletes till customers, reads
\* the till's tables or starts a sync; only the shared key sends replies, moves
\* conversations, runs jobs; a changed profile counts after a minute at most.
OnlyTheEntitledAct ==
  \A q \in Request :
    /\ req[q].did \in {"delete", "tables", "sync"} /\ req[q].by \notin Key =>
         req[q].by \in Staff /\ Held(req[q].by, "manager") > req[q].start - TTL
    /\ req[q].did \in {"reply", "status", "job", "heartbeat"} => req[q].by \in Key
    /\ req[q].did \in {"import", "customer"} /\ req[q].by \notin Key =>
         \E r \in {"manager", "staff"} :
           req[q].by \in Staff /\ Held(req[q].by, r) > req[q].start - TTL
=============================================================================
