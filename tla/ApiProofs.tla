------------------------------ MODULE ApiProofs -----------------------------
(***************************************************************************)
(* Proofs about the server's staff access, for any number of staff,        *)
(* requests and changes, any size of the cache and any length of its       *)
(* entries: access ends in time, refusals are fresh, only the entitled act. *)
(***************************************************************************)
EXTENDS Api, TLAPS

LEMMA Numbers ==
  /\ TTL \in Nat /\ TTL >= 1 /\ MaxEntries \in Nat /\ LastTime \in Nat /\ MaxChanges \in Nat
  /\ Never \in Int /\ Never + TTL = -1
  BY ApiAssumption DEF Never

LEMMA Callers ==
  /\ Calls \subseteq Path \X Caller
  /\ \A s \in Staff : s \notin Key /\ s # "nobody"
  BY ApiAssumption DEF Key

LEMMA Routes ==
  /\ \A p \in Path : Route[p].guard \in {"open", "key", "staff", "manager"}
  /\ \A p \in Path : Route[p].does \in Does
  /\ "health" \in Path
  BY DEF Route, Path, Row, OpenRow, KeyRow, PosRow, StaffRow, Does

\* What a route does tells how it is guarded.
LEMMA Guards ==
  /\ \A p \in Path : Route[p].does \in {"delete", "tables", "sync"} => Route[p].guard = "manager"
  /\ \A p \in Path : Route[p].does \in {"reply", "status", "job", "heartbeat"} => Route[p].guard = "key"
  /\ \A p \in Path : Route[p].does \in {"import", "customer"} => Route[p].guard \in {"key", "staff"}
  BY DEF Route, Path, Row, OpenRow, KeyRow, PosRow, StaffRow

LEMMA AtType ==
  ASSUME NEW stage \in Stage, NEW path \in Path, NEW by \in Caller, NEW start \in 0..LastTime,
         NEW as \in Role, NEW answer \in Answer, NEW did \in Does
  PROVE  At(stage, path, by, start, as, answer, did) \in Requests
  BY DEF At, Requests

LEMMA OnType ==
  ASSUME NEW r \in Requests, NEW stage \in Stage, NEW as \in Role
  PROVE  On(r, stage, as) \in Requests
<1>1. r.path \in Path /\ r.by \in Caller /\ r.start \in 0..LastTime
  BY DEF Requests
<1>2. "none" \in Answer /\ "nothing" \in Does
  BY DEF Answer, Does
<1>3. QED
  BY <1>1, <1>2, AtType DEF On

LEMMA DoneType ==
  ASSUME NEW r \in Requests, NEW as \in Role, NEW answer \in Answer, NEW did \in Does
  PROVE  Done(r, as, answer, did) \in Requests
  BY AtType, Routes DEF Done, Requests, Stage

LEMMA AdmittedType ==
  ASSUME NEW r \in Requests, NEW as \in Role
  PROVE  Admitted(r, as) \in Requests
  BY OnType, DoneType DEF Admitted, Stage, Answer, Does
-----------------------------------------------------------------------------
(* What is known of one request.                                           *)

\* The role it was given is one its caller had in time, unless it is the
\* role of the key; a role just looked up was held since the request began.
Sound(r) ==
  /\ r.by \in Staff /\ r.role # "inactive" => Held(r.by, r.role) > r.start - TTL
  /\ r.at = "store" => r.by \in Staff /\ r.role # "inactive" /\ Held(r.by, r.role) >= r.start
  /\ r.at \in {"user", "profile"} => r.by \in Staff /\ r.role = "inactive"
  /\ r.at = "done" /\ r.by \in Staff /\ r.answer = "forbidden" /\ r.role = "inactive"
       => Held(r.by, "inactive") >= r.start

\* A request that waits for a lookup or is in a handler is where it may be.
Placed(r) ==
  /\ r.at \in {"user", "profile", "store"} => Route[r.path].guard \in {"staff", "manager"}
  /\ r.at = "handle" /\ Route[r.path].guard = "key" => r.by \in Key
  /\ r.at = "handle" /\ Route[r.path].guard = "staff" /\ r.by \notin Key =>
       r.by \in Staff /\ r.role \in {"manager", "staff"}
  /\ r.at = "handle" /\ Route[r.path].guard = "manager" /\ r.by \notin Key =>
       r.by \in Staff /\ r.role = "manager"

Entitled(r) ==
  /\ r.did \in {"delete", "tables", "sync"} /\ r.by \notin Key =>
       r.by \in Staff /\ r.role = "manager"
  /\ r.did \in {"reply", "status", "job", "heartbeat"} => r.by \in Key
  /\ r.did \in {"import", "customer"} /\ r.by \notin Key =>
       r.by \in Staff /\ r.role \in {"manager", "staff"}

\* What is cached was true when it was cached, and is usable for TTL at most.
Dated == \A s \in Staff :
  Cached(s) => entries[s].role # "inactive" /\ Held(s, entries[s].role) >= entries[s].expires - TTL

\* The history is of the past.
Past == \A x \in Staff \X Role : last[x] <= now
Begun == \A q \in Request : req[q].start <= now

ApiInv ==
  /\ ApiTypeOK
  /\ Past
  /\ Begun
  /\ Dated
  /\ \A q \in Request : Sound(req[q]) /\ Placed(req[q]) /\ Entitled(req[q])

LEMMA HeldType ==
  ASSUME ApiTypeOK, NEW s \in Staff, NEW r \in Role
  PROVE  Held(s, r) \in Int
  BY Numbers DEF ApiTypeOK, Held

LEMMA EmptyTypes == NoRequest \in Requests /\ NoEntry \in Entry
<1>1. NoRequest \in Requests
  BY AtType, Routes, Numbers DEF NoRequest, Stage, Caller, Role, Answer, Does
<1>2. NoEntry \in Entry
  BY Numbers DEF NoEntry, Entry, Role
<1>3. QED
  BY <1>1, <1>2

LEMMA ApiInitially == ApiInit => ApiInv
<1>1. SUFFICES ASSUME ApiInit PROVE ApiInv
  OBVIOUS
<1>2. NoRequest \in Requests /\ NoEntry \in Entry
  BY EmptyTypes
<1>3. 0 \in 0..LastTime /\ Never \in Never..LastTime /\ 0 \in 0..MaxChanges
  BY Numbers
<1>4. ApiTypeOK
  BY <1>1, <1>2, <1>3, Numbers DEF ApiInit, ApiTypeOK
<1>5. Dated
  BY <1>1 DEF ApiInit, Dated, Cached, NoEntry
<1>6. Sound(NoRequest) /\ Placed(NoRequest) /\ Entitled(NoRequest)
  BY Callers DEF Sound, Placed, Entitled, NoRequest, At
<1>7. Past /\ Begun
  BY <1>1, Numbers DEF ApiInit, Past, Begun, NoRequest, At
<1>8. QED
  BY <1>1, <1>4, <1>5, <1>6, <1>7 DEF ApiInit, ApiInv

\* Nothing that was held comes to have been held earlier.
LEMMA HeldGrows ==
  ASSUME ApiTypeOK, Past, ApiTypeOK',
         Tick \/ Restart \/ (\E s \in Staff, r \in Role : Change(s, r))
           \/ UNCHANGED <<now, role, last>>,
         NEW m \in Staff, NEW k \in Role
  PROVE  Held(m, k)' >= Held(m, k)
<1>1. now \in Int /\ last[<<m, k>>] \in Int /\ last[<<m, k>>] <= now
  BY Numbers DEF ApiTypeOK, Past
<1>2. CASE Tick
  BY <1>1, <1>2 DEF Tick, Held
<1>3. CASE Restart \/ UNCHANGED <<now, role, last>>
  BY <1>1, <1>3 DEF Restart, Held
<1>4. ASSUME NEW s \in Staff, NEW r \in Role, Change(s, r)
      PROVE  Held(m, k)' >= Held(m, k)
  <2>1. role' = [role EXCEPT ![s] = r] /\ last' = [last EXCEPT ![<<s, role[s]>>] = now]
        /\ now' = now /\ role \in [Staff -> Role] /\ last \in [Staff \X Role -> Never..LastTime]
    BY <1>4 DEF Change, ApiTypeOK
  <2>2. CASE role[m] = k /\ m = s
    <3>1. last'[<<m, k>>] = now
      BY <2>1, <2>2
    <3>2. QED
      BY <1>1, <2>1, <2>2, <3>1 DEF Held
  <2>3. CASE role[m] = k /\ m # s
    BY <1>1, <2>1, <2>3 DEF Held
  <2>4. CASE role[m] # k
    <3>1. last'[<<m, k>>] = last[<<m, k>>]
      BY <2>1, <2>4
    <3>2. QED
      BY <1>1, <2>1, <2>4, <3>1 DEF Held
  <2>5. QED
    BY <2>2, <2>3, <2>4
<1>5. QED
  BY <1>2, <1>3, <1>4

\* What is known of a request stays true of it.
LEMMA SoundKept ==
  ASSUME NEW r \in Requests, Sound(r), ApiTypeOK, ApiTypeOK',
         \A m \in Staff, k \in Role : Held(m, k)' >= Held(m, k)
  PROVE  Sound(r)'
<1>1. r.start \in Int /\ r.role \in Role /\ "inactive" \in Role
  BY Numbers DEF Requests, Role
<1>2. ASSUME NEW m \in Staff, NEW k \in Role
      PROVE  Held(m, k) \in Int /\ Held(m, k)' \in Int
  BY Numbers DEF ApiTypeOK, Held
<1>3. QED
  BY <1>1, <1>2, Numbers DEF Sound

LEMMA DatedKept ==
  ASSUME Dated, ApiTypeOK, ApiTypeOK', entries' = entries,
         \A m \in Staff, k \in Role : Held(m, k)' >= Held(m, k)
  PROVE  Dated'
<1>1. ASSUME NEW m \in Staff
      PROVE  entries[m].expires \in Int /\ entries[m].role \in Role
  BY Numbers DEF ApiTypeOK, Entry
<1>2. ASSUME NEW m \in Staff, NEW k \in Role
      PROVE  Held(m, k) \in Int /\ Held(m, k)' \in Int
  BY Numbers DEF ApiTypeOK, Held
<1>3. QED
  BY <1>1, <1>2, Numbers DEF Dated, Cached

\* managerOnly lets on a request that is sound, or refuses it.
LEMMA AdmittedSound ==
  ASSUME NEW r \in Requests, NEW k \in Role, Route[r.path].guard \in {"staff", "manager"},
         \/ r.by \in Key /\ k = "manager"
         \/ r.by \in Staff /\ k # "inactive" /\ Held(r.by, k) > r.start - TTL
  PROVE  Sound(Admitted(r, k)) /\ Placed(Admitted(r, k)) /\ Entitled(Admitted(r, k))
<1>1. CASE Route[r.path].guard = "manager" /\ k # "manager"
  <2>1. Admitted(r, k) = At("done", "health", r.by, r.start, k, "forbidden", "nothing")
    BY <1>1 DEF Admitted, Done
  <2>2. k # "inactive"
    OBVIOUS
  <2>3. QED
    BY <2>1, <2>2, Callers DEF Sound, Placed, Entitled, At
<1>2. CASE ~(Route[r.path].guard = "manager" /\ k # "manager")
  <2>1. Admitted(r, k) = At("handle", r.path, r.by, r.start, k, "none", "nothing")
    BY <1>2 DEF Admitted, On
  <2>2. Sound(Admitted(r, k))
    BY <2>1, Callers DEF Sound, At
  <2>3. Placed(Admitted(r, k))
    BY <2>1, <1>2 DEF Placed, At, Role
  <2>4. QED
    BY <2>1, <2>2, <2>3 DEF Entitled, At
<1>3. QED
  BY <1>1, <1>2

\* A request of which nothing is known yet.
LEMMA BareSound ==
  ASSUME NEW r \in Requests, NEW answer \in Answer, answer # "forbidden"
  PROVE  LET d == Done(r, "inactive", answer, "nothing")
         IN  Sound(d) /\ Placed(d) /\ Entitled(d)
  BY Callers DEF Sound, Placed, Entitled, Done, At

\* What comes in is admitted for a reason.
LEMMA CheckedSound ==
  ASSUME ApiTypeOK, Past, Dated, NEW path \in Path, NEW by \in Caller,
         NEW r, r = At("idle", path, by, IF by \in Staff THEN now ELSE 0,
                       "inactive", "none", "nothing")
  PROVE  /\ Checked(r) \in Requests
         /\ Sound(Checked(r)) /\ Placed(Checked(r)) /\ Entitled(Checked(r))
<1>1. r \in Requests /\ now \in 0..LastTime
  BY AtType, Numbers DEF ApiTypeOK, Stage, Role, Answer, Does
<1>2. r.path = path /\ r.by = by /\ (by \in Staff => r.start = now)
  BY DEF At
<1>3. {"manager", "inactive"} \subseteq Role /\ {"handle", "user"} \subseteq Stage
      /\ "unauthorized" \in Answer /\ "nothing" \in Does
  BY DEF Role, Stage, Answer, Does
<1>4. Route[path].guard \in {"open", "key", "staff", "manager"}
  BY Routes
<1>5. CASE Route[path].guard = "open"
  <2>1. Checked(r) = On(r, "handle", "inactive")
    BY <1>2, <1>5 DEF Checked
  <2>2. Checked(r) = At("handle", path, by, r.start, "inactive", "none", "nothing")
    BY <2>1, <1>2 DEF On
  <2>3. QED
    BY <2>1, <2>2, <1>1, <1>3, <1>5, OnType DEF Sound, Placed, Entitled, At
<1>6. CASE Route[path].guard = "key" /\ HasKey(path, by)
  <2>1. Checked(r) = On(r, "handle", "manager") /\ by \in Key
    BY <1>2, <1>6 DEF Checked, HasKey, Key
  <2>2. Checked(r) = At("handle", path, by, r.start, "manager", "none", "nothing")
    BY <2>1, <1>2 DEF On
  <2>3. QED
    BY <2>1, <2>2, <1>1, <1>3, <1>6, OnType, Callers DEF Sound, Placed, Entitled, At
<1>7. CASE Route[path].guard \in {"staff", "manager"} /\ by \in Key
  <2>1. Checked(r) = Admitted(r, "manager")
    BY <1>2, <1>7, Callers DEF Checked
  <2>2. QED
    BY <2>1, <1>1, <1>2, <1>3, <1>7, AdmittedType, AdmittedSound
<1>8. CASE Route[path].guard \in {"staff", "manager"} /\ by \in Staff /\ Usable(by)
  <2>1. Checked(r) = Admitted(r, entries[by].role)
    BY <1>2, <1>8, Callers DEF Checked
  <2>2. entries[by] \in Entry
    BY <1>8 DEF ApiTypeOK
  <2>3. entries[by].role \in Role /\ entries[by].expires \in Int
    BY <2>2, Numbers DEF Entry
  <2>4. Cached(by) /\ now < entries[by].expires
    BY <1>1, <1>8, Numbers DEF Usable, Cached
  <2>5. entries[by].role # "inactive" /\ Held(by, entries[by].role) >= entries[by].expires - TTL
    BY <2>4, <1>8 DEF Dated
  <2>6. Held(by, entries[by].role) \in Int
    BY <2>3, <1>8, HeldType
  <2>7. Held(by, entries[by].role) > now - TTL
    BY <2>3, <2>4, <2>5, <2>6, <1>1, Numbers
  <2>8. QED
    BY <2>1, <2>3, <2>5, <2>7, <1>1, <1>2, <1>8, AdmittedType, AdmittedSound
<1>9. CASE Route[path].guard \in {"staff", "manager"} /\ by \in Staff /\ ~Usable(by)
  <2>1. Checked(r) = On(r, "user", "inactive")
    BY <1>2, <1>9, Callers DEF Checked
  <2>2. Checked(r) = At("user", path, by, r.start, "inactive", "none", "nothing")
    BY <2>1, <1>2 DEF On
  <2>3. QED
    BY <2>1, <2>2, <1>1, <1>3, <1>9, OnType, Callers DEF Sound, Placed, Entitled, At
<1>10. CASE /\ ~(Route[path].guard = "open")
            /\ ~(Route[path].guard = "key" /\ HasKey(path, by))
            /\ ~(Route[path].guard \in {"staff", "manager"} /\ by \in Key)
            /\ ~(Route[path].guard \in {"staff", "manager"} /\ by \in Staff)
  <2>1. Checked(r) = Done(r, "inactive", "unauthorized", "nothing")
    BY <1>2, <1>10 DEF Checked
  <2>2. QED
    BY <2>1, <1>1, <1>3, DoneType, BareSound
<1>11. QED
  BY <1>5, <1>6, <1>7, <1>8, <1>9, <1>10

LEMMA HandledSound ==
  ASSUME NEW r \in Requests, Sound(r), Placed(r), r.at = "handle",
         NEW answer \in {"ok", "failed", "invalid"}, NEW did \in {"nothing", Route[r.path].does}
  PROVE  LET d == Done(r, r.role, answer, did)
         IN  d \in Requests /\ Sound(d) /\ Placed(d) /\ Entitled(d)
<1> DEFINE d == Done(r, r.role, answer, did)
<1>1. r.path \in Path /\ r.role \in Role
  BY DEF Requests
<1>2. Route[r.path].does \in Does /\ "nothing" \in Does /\ answer \in Answer
  BY <1>1, Routes DEF Does, Answer
<1>3. d \in Requests
  BY <1>1, <1>2, DoneType
<1>4. d = At("done", "health", r.by, r.start, r.role, answer, did)
  BY DEF Done
<1>5. Sound(d)
  BY <1>4 DEF Sound, At
<1>6. Placed(d)
  BY <1>4 DEF Placed, At
<1>7. Entitled(d)
  <2>1. CASE did = "nothing"
    BY <2>1, <1>4 DEF Entitled, At
  <2>2. CASE did = Route[r.path].does
    BY <2>2, <1>1, <1>4, Guards DEF Entitled, At, Placed
  <2>3. QED
    BY <2>1, <2>2
<1>8. QED
  BY <1>3, <1>5, <1>6, <1>7
-----------------------------------------------------------------------------
\* A step of one request that reads the rest and stores nothing.
LEMMA RequestStep ==
  ASSUME ApiInv, NEW q \in Request, NEW r \in Requests,
         Sound(r), Placed(r), Entitled(r), r.start <= now,
         req' = [req EXCEPT ![q] = r],
         UNCHANGED <<now, role, last, entries, changes>>
  PROVE  ApiInv'
<1>1. ApiTypeOK'
  BY DEF ApiInv, ApiTypeOK
<1>2. Past' /\ Dated' /\ Begun'
  BY DEF ApiInv, ApiTypeOK, Past, Begun, Dated, Cached, Held
<1>3. ASSUME NEW p \in Request
      PROVE  Sound(req[p])' /\ Placed(req[p])' /\ Entitled(req[p])'
  <2>1. req'[p] = IF p = q THEN r ELSE req[p]
    BY DEF ApiInv, ApiTypeOK
  <2>2. Sound(req'[p]) /\ Placed(req'[p]) /\ Entitled(req'[p])
    BY <2>1 DEF ApiInv
  <2>3. QED
    BY <2>2 DEF Sound, Placed, Entitled, Held
<1>4. QED
  BY <1>1, <1>2, <1>3 DEF ApiInv

LEMMA OutsideStep ==
  ASSUME ApiInv, Tick \/ Restart \/ \E s \in Staff, r \in Role : Change(s, r)
  PROVE  ApiInv'
<1>1. NoRequest \in Requests /\ NoEntry \in Entry
  BY EmptyTypes
<1>2. CASE Tick
  <2>1. ApiTypeOK' /\ Past' /\ Begun'
    BY <1>2, Numbers DEF Tick, ApiInv, ApiTypeOK, Past, Begun, Requests
  <2>2. \A m \in Staff, k \in Role : Held(m, k)' >= Held(m, k)
    BY <2>1, <1>2, HeldGrows DEF ApiInv
  <2>3. Dated'
    BY <2>1, <2>2, <1>2, DatedKept DEF Tick, ApiInv
  <2>4. \A q \in Request : Sound(req[q])' /\ Placed(req[q])' /\ Entitled(req[q])'
    <3>1. SUFFICES ASSUME NEW q \in Request
                   PROVE  Sound(req[q])' /\ Placed(req[q])' /\ Entitled(req[q])'
      OBVIOUS
    <3>2. PICK r \in Requests : r = req[q]
      BY DEF ApiInv, ApiTypeOK
    <3>3. Sound(r) /\ Placed(r) /\ Entitled(r) /\ req'[q] = r
      BY <3>2, <1>2 DEF ApiInv, Tick
    <3>4. Sound(r)'
      BY <3>3, <2>1, <2>2, SoundKept DEF ApiInv
    <3>5. QED
      BY <3>3, <3>4 DEF Placed, Entitled
  <2>5. QED
    BY <2>1, <2>3, <2>4 DEF ApiInv
<1>3. CASE Restart
  <2>1. ApiTypeOK' /\ Past' /\ Begun'
    BY <1>1, <1>3, Numbers
       DEF Restart, ApiInv, ApiTypeOK, Past, Begun, NoRequest, At
  <2>2. Dated'
    BY <1>3 DEF Restart, Dated, Cached, NoEntry
  <2>3. \A q \in Request : req'[q] = NoRequest
    BY <1>3 DEF Restart
  <2>4. Sound(NoRequest)' /\ Placed(NoRequest)' /\ Entitled(NoRequest)'
    BY Callers DEF Sound, Placed, Entitled, NoRequest, At
  <2>5. QED
    BY <2>1, <2>2, <2>3, <2>4 DEF ApiInv
<1>4. ASSUME NEW s \in Staff, NEW v \in Role, Change(s, v)
      PROVE  ApiInv'
  <2>1. ApiTypeOK' /\ Past' /\ Begun'
    <3>1. role' = [role EXCEPT ![s] = v] /\ last' = [last EXCEPT ![<<s, role[s]>>] = now]
          /\ now' = now /\ entries' = entries /\ req' = req /\ changes' = changes + 1
          /\ changes < MaxChanges
      BY <1>4 DEF Change
    <3>2. now \in Never..LastTime /\ now <= now
      BY Numbers DEF ApiInv, ApiTypeOK
    <3>3. last' \in [Staff \X Role -> Never..LastTime] /\ role' \in [Staff -> Role]
      BY <3>1, <3>2 DEF ApiInv, ApiTypeOK
    <3>4. Past' /\ Begun'
      BY <3>1, <3>2 DEF ApiInv, ApiTypeOK, Past, Begun
    <3>5. changes' \in 0..MaxChanges
      BY <3>1, Numbers DEF ApiInv, ApiTypeOK
    <3>6. QED
      BY <3>1, <3>3, <3>4, <3>5 DEF ApiInv, ApiTypeOK
  <2>2. \A m \in Staff, k \in Role : Held(m, k)' >= Held(m, k)
    BY <2>1, <1>4, HeldGrows DEF ApiInv
  <2>3. Dated'
    BY <2>1, <2>2, <1>4, DatedKept DEF Change, ApiInv
  <2>4. \A q \in Request : Sound(req[q])' /\ Placed(req[q])' /\ Entitled(req[q])'
    <3>1. SUFFICES ASSUME NEW q \in Request
                   PROVE  Sound(req[q])' /\ Placed(req[q])' /\ Entitled(req[q])'
      OBVIOUS
    <3>2. PICK r \in Requests : r = req[q]
      BY DEF ApiInv, ApiTypeOK
    <3>3. Sound(r) /\ Placed(r) /\ Entitled(r) /\ req'[q] = r
      BY <3>2, <1>4 DEF ApiInv, Change
    <3>4. Sound(r)'
      BY <3>3, <2>1, <2>2, SoundKept DEF ApiInv
    <3>5. QED
      BY <3>3, <3>4 DEF Placed, Entitled
  <2>5. QED
    BY <2>1, <2>3, <2>4 DEF ApiInv
<1>5. QED
  BY <1>2, <1>3, <1>4

\* The principal of a lookup was what the profile said since the call came in;
\* the entry it leaves is dated from the call.
LEMMA StoreStep ==
  ASSUME ApiInv, NEW q \in Request, Store(q)
  PROVE  ApiInv'
<1>1. PICK r \in Requests : r = req[q]
  BY DEF ApiInv, ApiTypeOK
<1>2. /\ r.at = "store" /\ Sound(r) /\ Placed(r)
      /\ req' = [req EXCEPT ![q] = Admitted(r, r.role)]
      /\ UNCHANGED <<now, role, last, changes>>
  BY <1>1 DEF Store, ApiInv
<1>3. r.by \in Staff /\ r.role \in Role /\ r.start \in 0..LastTime
      /\ r.role # "inactive" /\ Held(r.by, r.role) >= r.start
  BY <1>2 DEF Sound, Requests
<1>4. Held(r.by, r.role) \in Int
  BY <1>3, HeldType DEF ApiInv
<1>5. Held(r.by, r.role) > r.start - TTL
  BY <1>3, <1>4, Numbers
<1>6. /\ Admitted(r, r.role) \in Requests
      /\ Sound(Admitted(r, r.role)) /\ Placed(Admitted(r, r.role)) /\ Entitled(Admitted(r, r.role))
  BY <1>2, <1>3, <1>5, AdmittedType, AdmittedSound DEF Placed
<1>7. \A s \in Staff :
        \/ entries'[s] = entries[s]
        \/ entries'[s] = NoEntry
        \/ s = r.by /\ entries'[s] = [role |-> r.role, expires |-> r.start + TTL]
  BY <1>1 DEF Store
<1>8. NoEntry \in Entry /\ [role |-> r.role, expires |-> r.start + TTL] \in Entry
  BY <1>3, Numbers DEF NoEntry, Entry, Role
<1>9. entries' \in [Staff -> Entry]
  <2>1. \A s \in Staff : entries'[s] \in Entry
    BY <1>7, <1>8 DEF ApiInv, ApiTypeOK
  <2>2. entries' = [s \in Staff |-> entries'[s]]
    BY DEF Store
  <2>3. QED
    BY <2>1, <2>2
<1>10. ApiTypeOK'
  BY <1>2, <1>6, <1>9 DEF ApiInv, ApiTypeOK
<1>11. Past' /\ Begun'
  <2>1. Admitted(r, r.role).start = r.start
    BY DEF Admitted, Done, On, At
  <2>2. QED
    BY <2>1, <1>1, <1>2 DEF ApiInv, ApiTypeOK, Past, Begun
<1>12. Dated'
  <2>1. SUFFICES ASSUME NEW s \in Staff, entries'[s].expires # Never
                 PROVE  /\ entries'[s].role # "inactive"
                        /\ Held(s, entries'[s].role) >= entries'[s].expires - TTL
    BY <1>2 DEF Dated, Cached, Held
  <2>2. CASE entries'[s] = entries[s]
    BY <2>1, <2>2 DEF ApiInv, Dated, Cached
  <2>3. CASE entries'[s] = NoEntry
    BY <2>1, <2>3 DEF NoEntry
  <2>4. CASE s = r.by /\ entries'[s] = [role |-> r.role, expires |-> r.start + TTL]
    BY <2>4, <1>3, <1>4, Numbers
  <2>5. QED
    BY <1>7, <2>2, <2>3, <2>4
<1>13. ASSUME NEW p \in Request
       PROVE  Sound(req[p])' /\ Placed(req[p])' /\ Entitled(req[p])'
  <2>1. req'[p] = IF p = q THEN Admitted(r, r.role) ELSE req[p]
    BY <1>2 DEF ApiInv, ApiTypeOK
  <2>2. Sound(req'[p]) /\ Placed(req'[p]) /\ Entitled(req'[p])
    BY <2>1, <1>6 DEF ApiInv
  <2>3. QED
    BY <2>2, <1>2 DEF Sound, Placed, Entitled, Held
<1>14. QED
  BY <1>10, <1>11, <1>12, <1>13 DEF ApiInv

LEMMA ArriveStep ==
  ASSUME ApiInv, NEW q \in Request, NEW c \in Calls, Arrive(q, c[1], c[2])
  PROVE  ApiInv'
<1>1. c[1] \in Path /\ c[2] \in Caller
  BY Callers
<1>2. PICK r : r = At("idle", c[1], c[2], IF c[2] \in Staff THEN now ELSE 0,
                      "inactive", "none", "nothing")
  OBVIOUS
<1>3. /\ Checked(r) \in Requests
      /\ Sound(Checked(r)) /\ Placed(Checked(r)) /\ Entitled(Checked(r))
  BY <1>1, <1>2, CheckedSound DEF ApiInv
<1>4. req' = [req EXCEPT ![q] = Checked(r)] /\ UNCHANGED <<now, role, last, entries, changes>>
  BY <1>2 DEF Arrive
<1>5. Checked(r).start = r.start /\ r.start <= now
  BY <1>2, Numbers DEF Checked, Admitted, Done, On, At, ApiInv, ApiTypeOK
<1>6. QED
  BY <1>3, <1>4, <1>5, RequestStep

LEMMA UserStep ==
  ASSUME ApiInv, NEW q \in Request, User(q)
  PROVE  ApiInv'
<1>1. PICK r \in Requests : r = req[q]
  BY DEF ApiInv, ApiTypeOK
<1>2. r.at = "user" /\ Sound(r) /\ Placed(r)
  BY <1>1 DEF User, ApiInv
<1>3. PICK d \in {On(r, "profile", "inactive"), Done(r, "inactive", "unauthorized", "nothing"),
                  Done(r, "inactive", "failed", "nothing")} :
         req' = [req EXCEPT ![q] = d]
  BY <1>1 DEF User
<1>4. UNCHANGED <<now, role, last, entries, changes>>
  BY DEF User
<1>5. d \in Requests
  BY OnType, DoneType DEF Stage, Role, Answer, Does
<1>6. Sound(d) /\ Placed(d) /\ Entitled(d)
  <2>1. CASE d = On(r, "profile", "inactive")
    BY <2>1, <1>2 DEF Sound, Placed, Entitled, On, At
  <2>2. CASE d # On(r, "profile", "inactive")
    BY <2>2, <1>3, BareSound DEF Answer
  <2>3. QED
    BY <2>1, <2>2
<1>7. d.start = r.start /\ r.start <= now
  BY <1>1 DEF Done, On, At, ApiInv, Begun
<1>8. QED
  BY <1>3, <1>4, <1>5, <1>6, <1>7, RequestStep

LEMMA ProfileStep ==
  ASSUME ApiInv, NEW q \in Request, Profile(q)
  PROVE  ApiInv'
<1>1. PICK r \in Requests : r = req[q]
  BY DEF ApiInv, ApiTypeOK
<1>2. r.at = "profile" /\ Sound(r) /\ Placed(r) /\ r.by \in Staff /\ r.start \in 0..LastTime
  BY <1>1 DEF Profile, ApiInv, Sound, Requests
<1>3. PICK found \in Role : found = role[r.by]
  BY <1>2 DEF ApiInv, ApiTypeOK
<1>4. \/ found = "inactive" /\ req' = [req EXCEPT ![q] = Done(r, found, "forbidden", "nothing")]
      \/ found # "inactive" /\ req' = [req EXCEPT ![q] = On(r, "store", found)]
      \/ req' = [req EXCEPT ![q] = Done(r, "inactive", "failed", "nothing")]
  BY <1>1, <1>3 DEF Profile
<1>5. UNCHANGED <<now, role, last, entries, changes>>
  BY DEF Profile
<1>6. Held(r.by, found) = now /\ now \in Int /\ now >= r.start
  <2>1. r.start <= now
    BY <1>1, <1>2 DEF ApiInv, Begun
  <2>2. QED
    BY <2>1, <1>2, <1>3, Numbers DEF Held, ApiInv, ApiTypeOK
<1>7. CASE found = "inactive" /\ req' = [req EXCEPT ![q] = Done(r, found, "forbidden", "nothing")]
  <2> DEFINE d == Done(r, found, "forbidden", "nothing")
  <2>1. d \in Requests /\ d = At("done", "health", r.by, r.start, found, "forbidden", "nothing")
    BY DoneType DEF Done, Answer, Does
  <2>2. Sound(d) /\ Placed(d) /\ Entitled(d)
    BY <2>1, <1>6, <1>7 DEF Sound, Placed, Entitled, At
  <2>3. d.start = r.start
    BY <2>1 DEF At
  <2>4. QED
    BY <2>1, <2>2, <2>3, <1>2, <1>5, <1>6, <1>7, RequestStep
<1>8. CASE found # "inactive" /\ req' = [req EXCEPT ![q] = On(r, "store", found)]
  <2> DEFINE d == On(r, "store", found)
  <2>1. d \in Requests /\ d = At("store", r.path, r.by, r.start, found, "none", "nothing")
    BY OnType DEF On, Stage
  <2>2. Held(r.by, found) > r.start - TTL
    BY <1>2, <1>6, Numbers
  <2>3. Sound(d) /\ Placed(d) /\ Entitled(d)
    BY <2>1, <2>2, <1>2, <1>6, <1>8 DEF Sound, Placed, Entitled, At
  <2>4. d.start = r.start
    BY <2>1 DEF At
  <2>5. QED
    BY <2>1, <2>3, <2>4, <1>2, <1>5, <1>6, <1>8, RequestStep
<1>9. CASE req' = [req EXCEPT ![q] = Done(r, "inactive", "failed", "nothing")]
  <2>1. Done(r, "inactive", "failed", "nothing") \in Requests
    BY DoneType DEF Role, Answer, Does
  <2>2. Done(r, "inactive", "failed", "nothing").start = r.start
    BY DEF Done, At
  <2>3. QED
    BY <2>1, <2>2, <1>5, <1>6, <1>9, BareSound, RequestStep DEF Answer
<1>10. QED
  BY <1>4, <1>7, <1>8, <1>9

LEMMA HandleStep ==
  ASSUME ApiInv, NEW q \in Request, Handle(q)
  PROVE  ApiInv'
<1>1. PICK r \in Requests : r = req[q]
  BY DEF ApiInv, ApiTypeOK
<1>2. r.at = "handle" /\ Sound(r) /\ Placed(r)
  BY <1>1 DEF Handle, ApiInv
<1>3. PICK answer \in {"ok", "failed", "invalid"}, did \in {"nothing", Route[r.path].does} :
         req' = [req EXCEPT ![q] = Done(r, r.role, answer, did)]
  BY <1>1 DEF Handle
<1>4. UNCHANGED <<now, role, last, entries, changes>>
  BY DEF Handle
<1>5. Done(r, r.role, answer, did).start = r.start /\ r.start <= now
  BY <1>1 DEF Done, At, ApiInv, Begun
<1>6. QED
  BY <1>2, <1>3, <1>4, <1>5, HandledSound, RequestStep

LEMMA ApiStep == ApiInv /\ [ApiNext]_apiVars => ApiInv'
<1>1. SUFFICES ASSUME ApiInv, [ApiNext]_apiVars PROVE ApiInv'
  OBVIOUS
<1>2. CASE UNCHANGED apiVars
  BY <1>1, <1>2 DEF apiVars, ApiInv, ApiTypeOK, Past, Begun, Dated, Cached, Sound, Placed, Entitled, Held
<1>3. CASE ApiNext
  BY <1>1, <1>3, OutsideStep, ArriveStep, UserStep, ProfileStep, StoreStep, HandleStep DEF ApiNext
<1>4. QED
  BY <1>1, <1>2, <1>3
-----------------------------------------------------------------------------
\* The invariant the others rest on: what the cache and the requests under way
\* hold of a role was the profile's word when, or after, they asked.
THEOREM ApiInvariant == ApiSpec => []ApiInv
  BY ApiInitially, ApiStep, PTL DEF ApiSpec

\* Every variable keeps its type.
THEOREM ApiTypeSafe == ApiSpec => []ApiTypeOK
<1>1. ApiInv => ApiTypeOK
  BY DEF ApiInv
<1>2. QED
  BY <1>1, ApiInvariant, PTL

\* A member of staff whose profile changed is let in on the old one for less
\* than TTL, whatever lookups raced (the cache's comment).
THEOREM AccessEnds == ApiSpec => []AccessEndsInTime
<1>1. ApiInv => AccessEndsInTime
  BY DEF ApiInv, AccessEndsInTime, Sound
<1>2. QED
  BY <1>1, ApiInvariant, PTL

\* Nobody is refused as inactive on what the cache remembers.
THEOREM RefusalsFresh == ApiSpec => []RefusalsAreFresh
<1>1. ApiInv => RefusalsAreFresh
  BY DEF ApiInv, RefusalsAreFresh, Sound
<1>2. QED
  BY <1>1, ApiInvariant, PTL

\* Destructive routes are for managers, the shared key's routes for its holders.
THEOREM EntitledAct == ApiSpec => []OnlyTheEntitledAct
<1>1. ApiInv => OnlyTheEntitledAct
  <2>1. SUFFICES ASSUME ApiInv, NEW q \in Request
        PROVE
          /\ req[q].did \in {"delete", "tables", "sync"} /\ req[q].by \notin Key =>
               req[q].by \in Staff /\ Held(req[q].by, "manager") > req[q].start - TTL
          /\ req[q].did \in {"reply", "status", "job", "heartbeat"} => req[q].by \in Key
          /\ req[q].did \in {"import", "customer"} /\ req[q].by \notin Key =>
               \E r \in {"manager", "staff"} :
                 req[q].by \in Staff /\ Held(req[q].by, r) > req[q].start - TTL
    BY DEF OnlyTheEntitledAct
  <2>2. Sound(req[q]) /\ Entitled(req[q])
    BY <2>1 DEF ApiInv
  <2>3. QED
    BY <2>2 DEF Sound, Entitled
<1>2. QED
  BY <1>1, ApiInvariant, PTL
=============================================================================
