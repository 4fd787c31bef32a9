------------------------ MODULE RequestAccessProofs ------------------------
(***************************************************************************)
(* Safety of RequestAccess for every number of tenants, servers, requests  *)
(* and keys.  A key that is gone is never live again, and of the rows that *)
(* a request has read only this is used later: what was not live or not    *)
(* open then.  Who is past the guard holds a mark that no one else finds   *)
(* missing.  And whoever is about to be let through was given a value of   *)
(* the counter of his own, which his limit covers.                         *)
(***************************************************************************)
EXTENDS RequestAccess, FiniteSetTheorems, TLAPS

Places == {"idle", "keys", "tenant", "idem", "plan", "count", "handle", "create", "revoke", "rotate"}
Req == [pc : Places, server : Servers \cup {None}, key : 0 .. MaxKeys, idem : Idem \cup {None},
        op : Ops, at : {0} \cup KeyIds \cup Tenants, from : Key, plan : Plans \cup {None},
        minute : Nat, left : SUBSET Windows, over : BOOLEAN, dead : BOOLEAN, shut : BOOLEAN]

RowType == /\ tenant \in [Tenants -> [live : BOOLEAN, status : Statuses, plan : Plans]]
           /\ keys \in [KeyIds -> Key] /\ now \in 0 .. LastMinute /\ gone \subseteq KeyIds
MarkType == /\ seen \in [Servers -> SUBSET (Tenants \X Idem)]
            /\ ran \in [Servers -> [Tenants \X Idem -> Nat]]
CountType == /\ count \in [AllCounters -> Nat]
             /\ passed \in [AllCounters -> [n : Nat, max : Nat]]
TypeInv == RowType /\ MarkType /\ CountType /\ req \in [Requests -> Req]

\* A key that is gone was made, and is not live.
KeyInv == \A k \in gone : k \in Made /\ ~ keys[k].live

KeyCallOps == {"revoke", "rotate", "withdraw", "replace"}

\* What a request x is about, at each of its places.
Placed(x) ==
  /\ x.pc = "idle" => x.idem = None
  /\ x.pc = "keys" => x.key \in Made /\ x.from = NoKey
  /\ x.pc \in {"tenant", "idem", "plan", "count"} => x.from.tenant \in Tenants
  /\ x.pc = "count" => x.plan \in Plans
  /\ x.pc = "idem" => x.op = "write"
  /\ x.idem # None => x.op = "write" /\ x.pc \in {"keys", "tenant", "idem", "plan", "count", "handle"}
  /\ x.pc # "idle" => x.server \in Servers
  /\ x.pc \in {"keys", "tenant", "idem", "plan", "count"} =>
       x.op \in {"write", "tap", "diamond", "tenant"} /\ (x.op = "write" => x.idem # None)
  /\ x.pc = "handle" =>
       /\ x.op \in KeyCallOps => x.at \in Made
       /\ x.op \in (TenantOps \cup PlatformOps) \ KeyCallOps => x.at \in Tenants
       /\ x.idem # None => x.from.tenant \in Tenants
  /\ x.pc = "create" => x.at \in Tenants
  /\ x.pc \in {"revoke", "rotate"} => x.at \in Made
  /\ x.pc = "rotate" => x.from.tenant \in Tenants

\* What its identity is worth.
Worth(x) ==
  /\ x.pc = "keys" => /\ x.dead => DeadNow(x.key)
                      /\ x.shut => ~ Open(keys[x.key].tenant)
  /\ x.pc = "tenant" => ~ x.dead /\ (x.shut => ~ Open(x.from.tenant))
  /\ x.pc \in {"idem", "plan", "count", "handle"} /\ (x.dead \/ x.shut) => x.from = NoKey

PlaceInv == \A r \in Requests : Placed(req[r])
WorthInv == \A r \in Requests : Worth(req[r])

\* A request with an idempotency key that has passed the guard, and its mark.
Past(x) == x.pc \in {"plan", "count", "handle"} /\ x.idem # None
Mark(x) == <<x.from.tenant, x.idem>>

\* It holds the mark alone, and its handler has not run.
MarkInv ==
  /\ \A r \in Requests : Past(req[r]) => /\ Mark(req[r]) \in seen[req[r].server]
                                         /\ ran[req[r].server][Mark(req[r])] = 0
  /\ \A r, q \in Requests : /\ Past(req[r]) /\ Past(req[q]) /\ req[r].server = req[q].server
                            /\ Mark(req[r]) = Mark(req[q])
                            => r = q
  /\ \A s \in Servers, x \in Tenants \X Idem : x \notin seen[s] => ran[s][x] = 0

\* Requests that counter c has admitted and that the limiter has not let through yet.
Counted(x, c) == /\ x.pc = "count" /\ ~ x.over
                 /\ \E w \in Windows \ x.left : <<x.from.tenant, w, Period(w, x.minute)>> = c
Waiting(c) == {r \in Requests : Counted(req[r], c)}
Cap(x, c) == Limits[x.plan][c[2]]

\* Each of them had an increment of its own, and the last one of any set of
\* them a value that its limit covers.
Fits(c, S) ==
  LET n == passed[c].n + Cardinality(S) IN
    n <= count[c] /\ (n <= passed[c].max \/ \E r \in S : n <= Cap(req[r], c))
AllowInv == \A c \in AllCounters : \A S \in SUBSET Waiting(c) : IsFiniteSet(S) => Fits(c, S)

SafeInv == TypeInv /\ KeyInv /\ PlaceInv /\ WorthInv /\ MarkInv /\ HandledOnce

-----------------------------------------------------------------------------
(* What all steps share. *)

LEMMA IdleFits == RequestAccessAssumption => Idle \in Req /\ NoKey \in Key
BY DEF RequestAccessAssumption, Idle, Req, NoKey, Key, Roles, Places, Ops, TenantOps, PlatformOps, Windows

LEMMA IdleIsFine == Placed(Idle) /\ Worth(Idle) /\ ~ Past(Idle)
BY DEF Placed, Worth, Past, Idle

\* A step of one request that writes no row, and no mark.
LEMMA OneRequest ==
  ASSUME SafeInv, NEW r \in Requests, req' \in [Requests -> Req],
         \A q \in Requests \ {r} : req'[q] = req[q],
         UNCHANGED <<tenant, keys, now, seen, gone, ran>>, CountType',
         Placed(req[r])', Worth(req[r])',
         Past(req'[r]) => /\ Past(req[r]) /\ req'[r].server = req[r].server
                          /\ Mark(req'[r]) = Mark(req[r])
  PROVE  SafeInv'
<1>1. TypeInv'
  BY DEF SafeInv, TypeInv, RowType, MarkType, KeyIds, AllCounters
<1>2. KeyInv'
  BY DEF SafeInv, KeyInv, Made
<1>3. PlaceInv'
  <2>1. ASSUME NEW q \in Requests, q # r PROVE Placed(req[q])'
    <3>1. Placed(req[q]) /\ req'[q] = req[q] /\ Made' = Made
      BY <2>1 DEF SafeInv, PlaceInv, Made
    <3>2. QED
      BY <3>1 DEF Placed
  <2>2. QED
    BY <2>1 DEF PlaceInv
<1>4. WorthInv'
  <2>1. ASSUME NEW q \in Requests, q # r PROVE Worth(req[q])'
    <3>1. Worth(req[q]) /\ req'[q] = req[q]
      BY <2>1 DEF SafeInv, WorthInv
    <3>2. QED
      BY <3>1 DEF Worth, DeadNow, Open
  <2>2. QED
    BY <2>1 DEF WorthInv
<1>5. MarkInv'
  <2>1. MarkInv /\ \A q \in Requests : Past(req'[q]) => /\ Past(req[q]) /\ req'[q].server = req[q].server
                                                        /\ Mark(req'[q]) = Mark(req[q])
    BY DEF SafeInv
  <2>2. QED
    BY <2>1 DEF MarkInv, Past
<1>6. HandledOnce'
  BY DEF SafeInv, HandledOnce
<1>7. QED
  BY <1>1, <1>2, <1>3, <1>4, <1>5, <1>6 DEF SafeInv

\* A request is answered, and nothing else happens.
LEMMA Answered ==
  ASSUME RequestAccessAssumption, SafeInv, NEW r \in Requests, Answer(r),
         UNCHANGED <<tenant, keys, now, seen, gone, ran>>, CountType'
  PROVE  SafeInv'
<1>1. req' \in [Requests -> Req] /\ req'[r] = Idle /\ \A q \in Requests \ {r} : req'[q] = req[q]
  BY IdleFits DEF SafeInv, TypeInv, Answer
<1>2. Placed(req[r])' /\ Worth(req[r])' /\ ~ Past(req'[r])
  BY <1>1 DEF Placed, Worth, Past, Idle
<1>3. QED
  BY <1>1, <1>2, OneRequest

\* A request goes to its next place and stays what it is.
LEMMA Moved ==
  ASSUME SafeInv, NEW r \in Requests, NEW pc \in Places, Goto(r, pc)
  PROVE  /\ req' \in [Requests -> Req] /\ \A q \in Requests \ {r} : req'[q] = req[q]
         /\ req'[r].pc = pc
         /\ req'[r].server = req[r].server /\ req'[r].key = req[r].key /\ req'[r].idem = req[r].idem
         /\ req'[r].op = req[r].op /\ req'[r].at = req[r].at /\ req'[r].from = req[r].from
         /\ req'[r].plan = req[r].plan /\ req'[r].dead = req[r].dead /\ req'[r].shut = req[r].shut
         /\ req'[r].over = req[r].over /\ req'[r].left = req[r].left /\ req'[r].minute = req[r].minute
BY DEF SafeInv, TypeInv, Goto, Req

LEMMA ArriveStep ==
  ASSUME RequestAccessAssumption, SafeInv, NEW r \in Requests, Arrive(r)
  PROVE  SafeInv'
<1>1. PICK s \in Servers, o \in Ops \ TenantOps :
        \E i \in (IF o = "write" THEN Idem ELSE {None}),
           k \in (IF o \in PlatformOps THEN {0} ELSE Made),
           a \in (IF o \in PlatformOps THEN Targets(o) ELSE {0}) :
          req' = [req EXCEPT ![r] = [Idle EXCEPT
                      !.pc = IF k = 0 THEN "handle" ELSE "keys", !.server = s, !.key = k,
                      !.idem = i, !.op = o, !.at = a, !.dead = k # 0 /\ DeadNow(k),
                      !.shut = k # 0 /\ ~ Open(keys[k].tenant)]]
  BY DEF Arrive
<1>2. PICK i \in (IF o = "write" THEN Idem ELSE {None}),
           k \in (IF o \in PlatformOps THEN {0} ELSE Made),
           a \in (IF o \in PlatformOps THEN Targets(o) ELSE {0}) :
        req' = [req EXCEPT ![r] = [Idle EXCEPT
                      !.pc = IF k = 0 THEN "handle" ELSE "keys", !.server = s, !.key = k,
                      !.idem = i, !.op = o, !.at = a, !.dead = k # 0 /\ DeadNow(k),
                      !.shut = k # 0 /\ ~ Open(keys[k].tenant)]]
  BY <1>1
<1> DEFINE pc   == IF k = 0 THEN "handle" ELSE "keys"
           dead == k # 0 /\ DeadNow(k)
           shut == k # 0 /\ ~ Open(keys[k].tenant)
<1>3. /\ o = "write" <=> i # None
      /\ (o \notin PlatformOps /\ k \in Made /\ k # 0) \/ (o \in PlatformOps /\ k = 0 /\ a \in Targets(o))
  BY DEF Made, KeyIds, RequestAccessAssumption
<1>4. /\ pc \in Places /\ k \in 0 .. MaxKeys /\ i \in Idem \cup {None} /\ dead \in BOOLEAN
      /\ shut \in BOOLEAN /\ a \in {0} \cup KeyIds \cup Tenants
  BY <1>3 DEF Places, RequestAccessAssumption, Targets, Made, KeyIds
<1>5. [Idle EXCEPT !.pc = pc, !.server = s, !.key = k, !.idem = i, !.op = o, !.at = a, !.dead = dead,
                   !.shut = shut] \in Req
  <2> HIDE DEF pc, dead, shut
  <2>1. QED
    BY <1>4, IdleFits DEF Idle, Req
<1>6. req' = [req EXCEPT ![r] = [Idle EXCEPT !.pc = pc, !.server = s, !.key = k, !.idem = i, !.op = o,
                                            !.at = a, !.dead = dead, !.shut = shut]]
  BY <1>2
<1> HIDE DEF pc, dead, shut
<1>7. /\ req' \in [Requests -> Req] /\ \A q \in Requests \ {r} : req'[q] = req[q]
      /\ req'[r].pc = pc /\ req'[r].server = s /\ req'[r].key = k /\ req'[r].idem = i /\ req'[r].op = o
      /\ req'[r].at = a /\ req'[r].from = NoKey /\ req'[r].dead = dead /\ req'[r].shut = shut
  BY <1>5, <1>6 DEF SafeInv, TypeInv, Idle
<1>8. UNCHANGED <<tenant, keys, now, seen, gone, ran>> /\ CountType' /\ Made' = Made
  BY DEF Arrive, row, hist, SafeInv, TypeInv, CountType, AllCounters, Made
<1>9. CASE o \in PlatformOps
  <2>1. k = 0 /\ pc = "handle" /\ ~ dead /\ ~ shut /\ i = None /\ a \in Targets(o)
    BY <1>9, <1>3 DEF pc, dead, shut, PlatformOps
  <2>2. Placed(req[r])'
    BY <1>7, <1>8, <1>9, <2>1 DEF Placed, Targets, KeyCallOps, PlatformOps, TenantOps
  <2>3. Worth(req[r])' /\ ~ Past(req'[r])
    BY <1>7, <2>1 DEF Worth, Past
  <2>4. QED
    BY <1>7, <1>8, <2>2, <2>3, OneRequest
<1>10. CASE o \notin PlatformOps
  <2>1. k \in Made /\ pc = "keys"
    BY <1>10, <1>3 DEF pc
  <2>2. Placed(req[r])'
    BY <1>3, <1>7, <1>8, <1>10, <2>1 DEF Placed, Ops
  <2>3. Worth(req[r])' /\ ~ Past(req'[r])
    BY <1>7, <1>8, <2>1 DEF Worth, Past, dead, shut, DeadNow, Open
  <2>4. QED
    BY <1>7, <1>8, <2>2, <2>3, OneRequest
<1>11. QED
  BY <1>9, <1>10

LEMMA ReadKeyStep ==
  ASSUME RequestAccessAssumption, SafeInv, NEW r \in Requests, ReadKey(r)
  PROVE  SafeInv'
<1> DEFINE k == keys[req[r].key]
<1>1. UNCHANGED <<tenant, keys, now, seen, gone, ran>> /\ CountType' /\ Made' = Made
  BY DEF ReadKey, row, hist, SafeInv, TypeInv, CountType, AllCounters, Made
<1>2. /\ req[r] \in Req /\ req[r].pc = "keys" /\ req[r].from = NoKey /\ Placed(req[r]) /\ Worth(req[r])
      /\ req[r].key \in Made /\ k \in Key /\ k.tenant \in Tenants /\ req[r].key \in KeyIds
  BY DEF ReadKey, SafeInv, TypeInv, RowType, PlaceInv, WorthInv, Placed, Made, Key
<1>3. CASE k.live /\ ~ (k.expires # 0 /\ k.expires < now)
  <2>1. req' = [req EXCEPT ![r].pc = "tenant", ![r].key = 0, ![r].from = k]
    BY <1>3 DEF ReadKey
  <2>2. /\ req' \in [Requests -> Req] /\ \A q \in Requests \ {r} : req'[q] = req[q]
        /\ req'[r].pc = "tenant" /\ req'[r].from = k
        /\ req'[r].server = req[r].server /\ req'[r].idem = req[r].idem /\ req'[r].op = req[r].op
        /\ req'[r].dead = req[r].dead /\ req'[r].shut = req[r].shut
    <3>1. "tenant" \in Places /\ 0 \in 0 .. MaxKeys
      BY DEF Places, RequestAccessAssumption
    <3>2. [req[r] EXCEPT !.pc = "tenant", !.key = 0, !.from = k] \in Req
      BY <1>2, <3>1 DEF Req
    <3>3. req'[r] = [req[r] EXCEPT !.pc = "tenant", !.key = 0, !.from = k]
      BY <2>1, <1>2 DEF Req, SafeInv, TypeInv
    <3>4. QED
      BY <2>1, <1>2, <3>2, <3>3 DEF Req, SafeInv, TypeInv
  <2>3. Placed(req[r])'
    BY <2>2, <1>2, <1>1 DEF Placed
  <2>4. Worth(req[r])'
    <3>1. ~ DeadNow(req[r].key)
      BY <1>3 DEF DeadNow, SafeInv, KeyInv
    <3>2. QED
      BY <3>1, <2>2, <1>2, <1>1 DEF Worth, Open
  <2>5. ~ Past(req'[r])
    BY <2>2 DEF Past
  <2>6. QED
    BY <1>1, <2>2, <2>3, <2>4, <2>5, OneRequest
<1>4. CASE ~ (k.live /\ ~ (k.expires # 0 /\ k.expires < now)) /\ req[r].op # "tap"
  <2>1. Answer(r)
    BY <1>4 DEF ReadKey, Refuse
  <2>2. QED
    BY <2>1, <1>1, Answered
<1>5. CASE ~ (k.live /\ ~ (k.expires # 0 /\ k.expires < now)) /\ req[r].op = "tap"
  <2>1. req' = [req EXCEPT ![r].pc = "handle", ![r].key = 0]
    BY <1>5 DEF ReadKey, Refuse
  <2>2. /\ req' \in [Requests -> Req] /\ \A q \in Requests \ {r} : req'[q] = req[q]
        /\ req'[r].pc = "handle" /\ req'[r].from = req[r].from
        /\ req'[r].server = req[r].server /\ req'[r].idem = req[r].idem /\ req'[r].op = "tap"
    <3>1. "handle" \in Places /\ 0 \in 0 .. MaxKeys
      BY DEF Places, RequestAccessAssumption
    <3>2. [req[r] EXCEPT !.pc = "handle", !.key = 0] \in Req
      BY <1>2, <3>1 DEF Req
    <3>3. req'[r] = [req[r] EXCEPT !.pc = "handle", !.key = 0]
      BY <2>1, <1>2 DEF Req, SafeInv, TypeInv
    <3>4. QED
      BY <2>1, <1>2, <1>5, <3>2, <3>3 DEF Req, SafeInv, TypeInv
  <2>3. Placed(req[r])'
    BY <2>2, <1>2, <1>1, <1>5 DEF Placed, KeyCallOps, TenantOps, PlatformOps
  <2>4. Worth(req[r])' /\ ~ Past(req'[r])
    BY <2>2, <1>2, <1>5 DEF Worth, Placed, Past
  <2>5. QED
    BY <1>1, <2>2, <2>3, <2>4, OneRequest
<1>6. QED
  BY <1>3, <1>4, <1>5

LEMMA ReadTenantStep ==
  ASSUME RequestAccessAssumption, SafeInv, NEW r \in Requests, ReadTenant(r)
  PROVE  SafeInv'
<1>1. UNCHANGED <<tenant, keys, now, seen, gone, ran>> /\ CountType' /\ Made' = Made
  BY DEF ReadTenant, row, hist, SafeInv, TypeInv, CountType, AllCounters, Made
<1>2. /\ req[r] \in Req /\ req[r].pc = "tenant" /\ Placed(req[r]) /\ Worth(req[r])
  BY DEF ReadTenant, SafeInv, TypeInv, PlaceInv, WorthInv
<1>3. CASE Open(req[r].from.tenant)
  <2> DEFINE pc == CASE req[r].op = "write" -> "idem" [] req[r].op = "diamond" -> "handle"
                     [] OTHER -> "plan"
  <2>1. /\ pc \in {"idem", "handle", "plan"} /\ pc \in Places /\ Goto(r, pc)
        /\ pc = "idem" <=> req[r].op = "write"
        /\ pc = "handle" <=> req[r].op = "diamond"
    BY <1>3 DEF ReadTenant, Places
  <2> HIDE DEF pc
  <2>2. /\ req' \in [Requests -> Req] /\ \A q \in Requests \ {r} : req'[q] = req[q]
        /\ req'[r].pc = pc /\ req'[r].idem = req[r].idem /\ req'[r].op = req[r].op
        /\ req'[r].from = req[r].from /\ req'[r].dead = req[r].dead /\ req'[r].shut = req[r].shut
        /\ req'[r].server = req[r].server
    BY <2>1, Moved
  <2>3. Worth(req[r])'
    BY <2>1, <2>2, <1>1, <1>2, <1>3 DEF Worth
  <2>4. Placed(req[r])' /\ ~ Past(req'[r])
    BY <2>1, <2>2, <1>1, <1>2 DEF Placed, Past, KeyCallOps, TenantOps, PlatformOps
  <2>5. QED
    BY <1>1, <2>2, <2>3, <2>4, OneRequest
<1>4. CASE ~ Open(req[r].from.tenant) /\ req[r].op # "tap"
  <2>1. Answer(r)
    BY <1>4 DEF ReadTenant
  <2>2. QED
    BY <2>1, <1>1, Answered
<1>5. CASE ~ Open(req[r].from.tenant) /\ req[r].op = "tap"
  <2>1. req' = [req EXCEPT ![r].pc = "handle", ![r].from = NoKey]
    BY <1>5 DEF ReadTenant
  <2>2. /\ req' \in [Requests -> Req] /\ \A q \in Requests \ {r} : req'[q] = req[q]
        /\ req'[r].pc = "handle" /\ req'[r].from = NoKey
        /\ req'[r].server = req[r].server /\ req'[r].idem = req[r].idem /\ req'[r].op = "tap"
    <3>1. "handle" \in Places /\ NoKey \in Key
      BY IdleFits DEF Places
    <3>2. [req[r] EXCEPT !.pc = "handle", !.from = NoKey] \in Req
      BY <1>2, <3>1 DEF Req
    <3>3. req'[r] = [req[r] EXCEPT !.pc = "handle", !.from = NoKey]
      BY <2>1, <1>2 DEF Req, SafeInv, TypeInv
    <3>4. QED
      BY <2>1, <1>2, <1>5, <3>2, <3>3 DEF Req, SafeInv, TypeInv
  <2>3. Placed(req[r])'
    BY <2>2, <1>2, <1>1, <1>5 DEF Placed, KeyCallOps, TenantOps, PlatformOps
  <2>4. Worth(req[r])' /\ ~ Past(req'[r])
    BY <2>2, <1>2, <1>5 DEF Worth, Placed, Past
  <2>5. QED
    BY <1>1, <2>2, <2>3, <2>4, OneRequest
<1>6. QED
  BY <1>3, <1>4, <1>5

LEMMA ReadPlanStep ==
  ASSUME RequestAccessAssumption, SafeInv, NEW r \in Requests, ReadPlan(r)
  PROVE  SafeInv'
<1> DEFINE plan == tenant[req[r].from.tenant].plan
<1>1. UNCHANGED <<tenant, keys, now, seen, gone, ran>> /\ CountType' /\ Made' = Made
  BY DEF ReadPlan, row, hist, SafeInv, TypeInv, CountType, AllCounters, Made
<1>2. /\ req[r] \in Req /\ req[r].pc = "plan" /\ Placed(req[r]) /\ Worth(req[r])
      /\ req' = [req EXCEPT ![r].pc = "count", ![r].plan = plan, ![r].minute = now, ![r].left = Windows]
  BY DEF ReadPlan, SafeInv, TypeInv, PlaceInv, WorthInv
<1>3. plan \in Plans /\ now \in Nat
  BY <1>2 DEF SafeInv, TypeInv, RowType, Placed, RequestAccessAssumption
<1> HIDE DEF plan
<1>4. /\ req' \in [Requests -> Req] /\ \A q \in Requests \ {r} : req'[q] = req[q]
      /\ req'[r].pc = "count" /\ req'[r].from = req[r].from /\ req'[r].plan = plan
      /\ req'[r].server = req[r].server /\ req'[r].idem = req[r].idem /\ req'[r].op = req[r].op
      /\ req'[r].dead = req[r].dead /\ req'[r].shut = req[r].shut
  <2>1. "count" \in Places /\ Windows \in SUBSET Windows
    BY DEF Places
  <2>2. [req[r] EXCEPT !.pc = "count", !.plan = plan, !.minute = now, !.left = Windows] \in Req
    BY <1>2, <1>3, <2>1 DEF Req
  <2>3. req'[r] = [req[r] EXCEPT !.pc = "count", !.plan = plan, !.minute = now, !.left = Windows]
    BY <1>2 DEF Req, SafeInv, TypeInv
  <2>4. QED
    BY <1>2, <2>2, <2>3 DEF Req, SafeInv, TypeInv
<1>5. Placed(req[r])'
  BY <1>1, <1>2, <1>3, <1>4 DEF Placed
<1>6. Worth(req[r])' /\ (Past(req'[r]) => Past(req[r]) /\ Mark(req'[r]) = Mark(req[r]))
  BY <1>2, <1>4 DEF Worth, Past, Mark
<1>7. QED
  BY <1>1, <1>4, <1>5, <1>6, OneRequest

LEMMA IncrementStep ==
  ASSUME RequestAccessAssumption, SafeInv, NEW r \in Requests, Increment(r)
  PROVE  SafeInv'
<1>1. PICK w \in req[r].left :
        /\ count' = [count EXCEPT ![Counter(r, w)] = @ + 1]
        /\ req' = [req EXCEPT ![r].left = @ \ {w},
                         ![r].over = @ \/ count'[Counter(r, w)] > Limits[req[r].plan][w]]
  BY DEF Increment
<1> DEFINE over == req[r].over \/ count'[Counter(r, w)] > Limits[req[r].plan][w]
<1>2. UNCHANGED <<tenant, keys, now, seen, gone, ran>> /\ CountType' /\ Made' = Made
  <2>1. UNCHANGED <<tenant, keys, now, seen, gone, ran, passed>>
    BY DEF Increment, row, hist
  <2>2. count' \in [AllCounters -> Nat]
    <3> DEFINE c == Counter(r, w)
    <3>1. count \in [AllCounters -> Nat] /\ count' = [count EXCEPT ![c] = @ + 1]
      BY <1>1 DEF SafeInv, TypeInv, CountType
    <3> HIDE DEF c
    <3>2. count' = [d \in AllCounters |-> IF d = c THEN count[d] + 1 ELSE count[d]]
      BY <3>1
    <3>3. \A d \in AllCounters : count[d] \in Nat
      BY <3>1
    <3>4. QED
      BY <3>2, <3>3
  <2>3. QED
    BY <2>1, <2>2 DEF SafeInv, TypeInv, CountType, AllCounters, Made
<1>3. /\ req[r] \in Req /\ req[r].pc = "count" /\ Placed(req[r]) /\ Worth(req[r])
  BY DEF Increment, SafeInv, TypeInv, PlaceInv, WorthInv
<1>4. req' = [req EXCEPT ![r].left = @ \ {w}, ![r].over = over] /\ over \in BOOLEAN
  BY <1>1, <1>3 DEF Req
<1> HIDE DEF over
<1>5. /\ req' \in [Requests -> Req] /\ \A q \in Requests \ {r} : req'[q] = req[q]
      /\ req'[r].pc = "count" /\ req'[r].from = req[r].from /\ req'[r].plan = req[r].plan
      /\ req'[r].server = req[r].server /\ req'[r].idem = req[r].idem /\ req'[r].op = req[r].op
      /\ req'[r].dead = req[r].dead /\ req'[r].shut = req[r].shut
  <2>1. [req[r] EXCEPT !.left = @ \ {w}, !.over = over] \in Req
    BY <1>3, <1>4 DEF Req
  <2>2. req'[r] = [req[r] EXCEPT !.left = @ \ {w}, !.over = over]
    BY <1>3, <1>4 DEF Req, SafeInv, TypeInv
  <2>3. QED
    BY <1>3, <1>4, <2>1, <2>2 DEF Req, SafeInv, TypeInv
<1>6. Placed(req[r])'
  BY <1>2, <1>3, <1>5 DEF Placed
<1>7. Worth(req[r])' /\ (Past(req'[r]) => Past(req[r]) /\ Mark(req'[r]) = Mark(req[r]))
  BY <1>3, <1>5 DEF Worth, Past, Mark
<1>8. QED
  BY <1>2, <1>5, <1>6, <1>7, OneRequest

\* The limiter lets a request through: its operation is one that a handler serves.
LEMMA MeteredStep ==
  ASSUME RequestAccessAssumption, SafeInv, NEW r \in Requests, req[r].pc \in {"plan", "count"}, Metered(r),
         UNCHANGED <<tenant, keys, now, seen, gone, ran>>, CountType'
  PROVE  SafeInv'
<1>1. PICK o \in (IF req[r].op = "tenant" THEN TenantOps ELSE {req[r].op}) :
        \E a \in (IF o \in TenantOps THEN Targets(o) ELSE {0}) :
           req' = [req EXCEPT ![r] = [@ EXCEPT !.pc = "handle", !.op = o, !.at = a, !.plan = None,
                                               !.minute = 0, !.left = {}, !.over = FALSE]]
  BY DEF Metered
<1>2. PICK a \in (IF o \in TenantOps THEN Targets(o) ELSE {0}) :
           req' = [req EXCEPT ![r] = [@ EXCEPT !.pc = "handle", !.op = o, !.at = a, !.plan = None,
                                               !.minute = 0, !.left = {}, !.over = FALSE]]
  BY <1>1
<1>3. /\ req[r] \in Req /\ Placed(req[r]) /\ Worth(req[r]) /\ Made' = Made
  BY DEF SafeInv, TypeInv, PlaceInv, WorthInv, Made
<1>4. /\ o \in Ops /\ (req[r].op = "write" => o = "write")
      /\ a \in {0} \cup KeyIds \cup Tenants /\ (o \in TenantOps => a \in Targets(o))
  BY <1>3 DEF Ops, TenantOps, Req, Targets, Made
<1>5. /\ req' \in [Requests -> Req] /\ \A q \in Requests \ {r} : req'[q] = req[q]
      /\ req'[r].pc = "handle" /\ req'[r].from = req[r].from /\ req'[r].op = o /\ req'[r].at = a
      /\ req'[r].server = req[r].server /\ req'[r].idem = req[r].idem
      /\ req'[r].dead = req[r].dead /\ req'[r].shut = req[r].shut
  <2>1. "handle" \in Places /\ {} \in SUBSET Windows
    BY DEF Places
  <2>2. [req[r] EXCEPT !.pc = "handle", !.op = o, !.at = a, !.plan = None,
                       !.minute = 0, !.left = {}, !.over = FALSE] \in Req
    BY <1>3, <1>4, <2>1 DEF Req
  <2>3. req'[r] = [req[r] EXCEPT !.pc = "handle", !.op = o, !.at = a, !.plan = None,
                                 !.minute = 0, !.left = {}, !.over = FALSE]
    BY <1>2 DEF SafeInv, TypeInv
  <2>4. QED
    BY <1>2, <1>3, <2>2, <2>3 DEF Req, SafeInv, TypeInv
<1>6. Placed(req[r])'
  <2>1. req[r].op \in {"write", "tap", "diamond", "tenant"} /\ (o \notin TenantOps => o = req[r].op)
        /\ req[r].from.tenant \in Tenants
    BY <1>3 DEF Placed
  <2>2. QED
    BY <1>3, <1>4, <1>5, <2>1 DEF Placed, Targets, KeyCallOps, TenantOps, PlatformOps
<1>7. Worth(req[r])' /\ (Past(req'[r]) => Past(req[r]) /\ Mark(req'[r]) = Mark(req[r]))
  BY <1>3, <1>5 DEF Worth, Past, Mark
<1>8. QED
  BY <1>5, <1>6, <1>7, OneRequest

LEMMA DecideStep ==
  ASSUME RequestAccessAssumption, SafeInv, NEW r \in Requests, Decide(r)
  PROVE  SafeInv'
<1>1. UNCHANGED <<tenant, keys, now, seen, gone, ran, count>> /\ req[r].pc = "count"
  BY DEF Decide, row
<1>2. CountType'
  <2>1. CASE UNCHANGED passed
    BY <1>1, <2>1 DEF SafeInv, TypeInv, CountType, AllCounters
  <2>2. CASE ~ req[r].over
    <3>1. passed' = [c \in AllCounters |->
                 IF \E w \in Windows : c = Counter(r, w)
                 THEN LET limit == Limits[req[r].plan][c[2]] IN
                      [n |-> passed[c].n + 1,
                       max |-> IF limit > passed[c].max THEN limit ELSE passed[c].max]
                 ELSE passed[c]]
      BY <2>2 DEF Decide
    <3>2. req[r].plan \in Plans
      BY <1>1 DEF SafeInv, PlaceInv, Placed
    <3>3. ASSUME NEW c \in AllCounters, \E w \in Windows : c = Counter(r, w)
          PROVE  Limits[req[r].plan][c[2]] \in Nat
      <4>1. PICK w \in Windows : c = Counter(r, w)
        BY <3>3
      <4>2. c[2] = w
        BY <4>1 DEF Counter
      <4>3. QED
        BY <4>2, <3>2 DEF RequestAccessAssumption
    <3>4. ASSUME NEW c \in AllCounters PROVE passed'[c] \in [n : Nat, max : Nat]
      <4> DEFINE limit == Limits[req[r].plan][c[2]]
      <4>1. passed[c].n \in Nat /\ passed[c].max \in Nat /\ passed[c] \in [n : Nat, max : Nat]
        BY DEF SafeInv, TypeInv, CountType
      <4>2. CASE \E w \in Windows : c = Counter(r, w)
        <5>1. limit \in Nat
          BY <3>3, <4>2
        <5>2. passed'[c] = [n |-> passed[c].n + 1,
                            max |-> IF limit > passed[c].max THEN limit ELSE passed[c].max]
          BY <3>1, <4>2
        <5> HIDE DEF limit
        <5>3. QED
          BY <4>1, <5>1, <5>2
      <4>3. CASE ~ \E w \in Windows : c = Counter(r, w)
        BY <3>1, <4>1, <4>3
      <4>4. QED
        BY <4>2, <4>3
    <3>5. passed' \in [AllCounters -> [n : Nat, max : Nat]]
      <4>1. passed' = [c \in AllCounters |-> passed'[c]]
        BY <3>1
      <4>2. QED
        BY <4>1, <3>4
    <3>6. QED
      BY <1>1, <3>5 DEF SafeInv, TypeInv, CountType, AllCounters
  <2>3. QED
    BY <2>1, <2>2 DEF Decide
<1>3. Answer(r) \/ Metered(r)
  BY DEF Decide
<1>4. QED
  BY <1>1, <1>2, <1>3, Answered, MeteredStep

LEMMA FailOpenStep ==
  ASSUME RequestAccessAssumption, SafeInv, NEW r \in Requests, FailOpen(r)
  PROVE  SafeInv'
<1>1. UNCHANGED <<tenant, keys, now, seen, gone, ran>> /\ CountType' /\ Metered(r)
      /\ req[r].pc \in {"plan", "count"}
  BY DEF FailOpen, row, hist, SafeInv, TypeInv, CountType, AllCounters
<1>2. QED
  BY <1>1, MeteredStep

LEMMA RefusalStep ==
  ASSUME RequestAccessAssumption, SafeInv, NEW r \in Requests, Forbid(r) \/ Reject(r)
  PROVE  SafeInv'
<1>1. UNCHANGED <<tenant, keys, now, seen, gone, ran>> /\ CountType' /\ Answer(r)
  BY DEF Forbid, Reject, row, hist, SafeInv, TypeInv, CountType, AllCounters
<1>2. QED
  BY <1>1, Answered

LEMMA CheckTenantStep ==
  ASSUME RequestAccessAssumption, SafeInv, NEW r \in Requests, NEW o \in {"generate", "issue"},
         CheckTenant(r, o)
  PROVE  SafeInv'
<1>1. UNCHANGED <<tenant, keys, now, seen, gone, ran>> /\ CountType' /\ Made' = Made
  BY DEF CheckTenant, row, hist, SafeInv, TypeInv, CountType, AllCounters, Made
<1>2. req[r] \in Req /\ Placed(req[r]) /\ req[r].pc = "handle" /\ req[r].op = o
  BY DEF CheckTenant, Handling, SafeInv, TypeInv, PlaceInv
<1>3. CASE Answer(r)
  BY <1>1, <1>3, Answered
<1>4. CASE Goto(r, "create")
  <2>1. "create" \in Places
    BY DEF Places
  <2>2. /\ req' \in [Requests -> Req] /\ \A q \in Requests \ {r} : req'[q] = req[q]
        /\ req'[r].pc = "create" /\ req'[r].idem = req[r].idem /\ req'[r].op = req[r].op
        /\ req'[r].at = req[r].at /\ req'[r].server = req[r].server
    BY <1>4, <2>1, Moved
  <2>3. Placed(req[r])'
    BY <1>1, <1>2, <2>2 DEF Placed, KeyCallOps, TenantOps, PlatformOps
  <2>4. Worth(req[r])' /\ ~ Past(req'[r])
    BY <2>2 DEF Worth, Past
  <2>5. QED
    BY <1>1, <2>2, <2>3, <2>4, OneRequest
<1>5. QED
  BY <1>3, <1>4 DEF CheckTenant

LEMMA FindKeyStep ==
  ASSUME RequestAccessAssumption, SafeInv, NEW r \in Requests, NEW o \in KeyCallOps,
         NEW pc \in {"revoke", "rotate"}, FindKey(r, o, pc)
  PROVE  SafeInv'
<1> DEFINE k == keys[req[r].at]
<1>1. UNCHANGED <<tenant, keys, now, seen, gone, ran>> /\ CountType' /\ Made' = Made
  BY DEF FindKey, row, hist, SafeInv, TypeInv, CountType, AllCounters, Made
<1>2. /\ req[r] \in Req /\ Placed(req[r]) /\ req[r].pc = "handle" /\ req[r].op = o
      /\ req[r].at \in Made /\ k \in Key /\ k.tenant \in Tenants
  BY DEF FindKey, Handling, SafeInv, TypeInv, PlaceInv, Placed, RowType, Made, Key
<1>3. CASE Answer(r)
  BY <1>1, <1>3, Answered
<1>4. CASE req' = [req EXCEPT ![r].pc = pc, ![r].from = k]
  <2> HIDE DEF k
  <2>1. pc \in Places
    BY DEF Places
  <2>2. [req[r] EXCEPT !.pc = pc, !.from = k] \in Req
    BY <1>2, <2>1 DEF Req
  <2>3. req'[r] = [req[r] EXCEPT !.pc = pc, !.from = k]
    BY <1>2, <1>4 DEF Req, SafeInv, TypeInv
  <2>4. /\ req' \in [Requests -> Req] /\ \A q \in Requests \ {r} : req'[q] = req[q]
        /\ req'[r].pc = pc /\ req'[r].idem = req[r].idem /\ req'[r].op = req[r].op
        /\ req'[r].at = req[r].at /\ req'[r].server = req[r].server /\ req'[r].from = k
    BY <1>2, <1>4, <2>2, <2>3 DEF Req, SafeInv, TypeInv
  <2>5. Placed(req[r])'
    BY <1>1, <1>2, <2>4 DEF Placed, KeyCallOps
  <2>6. Worth(req[r])' /\ ~ Past(req'[r])
    BY <2>4 DEF Worth, Past
  <2>7. QED
    BY <1>1, <2>4, <2>5, <2>6, OneRequest
<1>5. QED
  BY <1>3, <1>4 DEF FindKey

-----------------------------------------------------------------------------
(* Steps that write marks. *)

LEMMA GuardStep ==
  ASSUME RequestAccessAssumption, SafeInv, NEW r \in Requests, Guard(r)
  PROVE  SafeInv'
<1> DEFINE s == req[r].server
           m == Mark(req[r])
<1>1. UNCHANGED <<tenant, keys, now, gone, ran>> /\ CountType' /\ Made' = Made
  BY DEF Guard, row, hist, SafeInv, TypeInv, CountType, AllCounters, Made
<1>2. /\ req[r] \in Req /\ Placed(req[r]) /\ Worth(req[r]) /\ req[r].pc = "idem"
      /\ s \in Servers /\ m \in Tenants \X Idem /\ Namespaced(r) = m /\ req[r].idem # None
  BY DEF Guard, SafeInv, TypeInv, PlaceInv, WorthInv, Placed, Mark, Namespaced, Req
<1>3. CASE Answer(r) /\ UNCHANGED seen
  BY <1>1, <1>3, Answered
<1>4. CASE /\ m \notin seen[s]
           /\ seen' = [seen EXCEPT ![s] = @ \cup {m}] /\ Goto(r, "plan")
  <2>1. "plan" \in Places
    BY DEF Places
  <2>2. /\ req' \in [Requests -> Req] /\ \A q \in Requests \ {r} : req'[q] = req[q]
        /\ req'[r].pc = "plan" /\ req'[r].idem = req[r].idem /\ req'[r].op = req[r].op
        /\ req'[r].from = req[r].from /\ req'[r].server = req[r].server
        /\ req'[r].dead = req[r].dead /\ req'[r].shut = req[r].shut /\ req'[r].server = s
        /\ Mark(req'[r]) = m
    BY <1>4, <2>1, Moved DEF Mark
  <2>3. Placed(req[r])' /\ Worth(req[r])'
    BY <1>1, <1>2, <2>2 DEF Placed, Worth
  <2> HIDE DEF s, m
  <2>4. TypeInv'
    BY <1>1, <1>2, <1>4, <2>2 DEF SafeInv, TypeInv, RowType, MarkType
  <2>5. KeyInv' /\ HandledOnce'
    BY <1>1 DEF SafeInv, KeyInv, HandledOnce, Made
  <2>6. PlaceInv' /\ WorthInv'
    <3>1. ASSUME NEW q \in Requests, q # r PROVE Placed(req[q])' /\ Worth(req[q])'
      <4>1. Placed(req[q]) /\ Worth(req[q]) /\ req'[q] = req[q]
        BY <2>2, <3>1 DEF SafeInv, PlaceInv, WorthInv
      <4>2. QED
        BY <4>1, <1>1 DEF Placed, Worth, DeadNow, Open
    <3>2. QED
      BY <3>1, <2>3 DEF PlaceInv, WorthInv
  <2>7. MarkInv'
    <3>1. \A t \in Servers : seen[t] \subseteq seen'[t] /\ (t # s => seen'[t] = seen[t])
      BY <1>4 DEF SafeInv, TypeInv, MarkType
    <3>2. m \in seen'[s] /\ \A x \in Tenants \X Idem : x # m => (x \in seen'[s] <=> x \in seen[s])
      BY <1>2, <1>4 DEF SafeInv, TypeInv, MarkType
    <3>3. ran[s][m] = 0
      BY <1>2, <1>4 DEF SafeInv, MarkInv
    <3>4. \A q \in Requests \ {r} : Past(req[q]) => req[q].server # s \/ Mark(req[q]) # m
      BY <1>4 DEF SafeInv, MarkInv
    <3>5. \A q \in Requests \ {r} : Past(req[q]) => req[q].server \in Servers
      BY DEF SafeInv, PlaceInv, Placed, Past
    <3>6. ASSUME NEW q \in Requests, Past(req'[q])
          PROVE  Mark(req'[q]) \in seen'[req'[q].server] /\ ran'[req'[q].server][Mark(req'[q])] = 0
      BY <3>1, <3>2, <3>3, <3>5, <3>6, <2>2, <1>1 DEF SafeInv, MarkInv
    <3>7. ASSUME NEW p \in Requests, NEW q \in Requests, Past(req'[p]), Past(req'[q]),
                 req'[p].server = req'[q].server, Mark(req'[p]) = Mark(req'[q])
          PROVE  p = q
      BY <3>4, <3>7, <2>2 DEF SafeInv, MarkInv
    <3>8. ASSUME NEW t \in Servers, NEW x \in Tenants \X Idem, x \notin seen'[t] PROVE ran'[t][x] = 0
      BY <3>1, <3>8, <1>1 DEF SafeInv, MarkInv
    <3>9. QED
      BY <3>6, <3>7, <3>8 DEF MarkInv
  <2>8. QED
    BY <2>4, <2>5, <2>6, <2>7 DEF SafeInv
<1>5. QED
  BY <1>2, <1>3, <1>4 DEF Guard

LEMMA ServeStep ==
  ASSUME RequestAccessAssumption, SafeInv, NEW r \in Requests, Serve(r)
  PROVE  SafeInv'
<1> DEFINE s == req[r].server
           m == Mark(req[r])
<1>1. UNCHANGED <<tenant, keys, now, gone, seen>> /\ CountType' /\ Made' = Made /\ Answer(r)
  BY DEF Serve, row, SafeInv, TypeInv, CountType, AllCounters, Made
<1>2. /\ req[r] \in Req /\ Placed(req[r]) /\ req[r].pc = "handle" /\ s \in Servers /\ Namespaced(r) = m
  BY DEF Serve, SafeInv, TypeInv, PlaceInv, Placed, Mark, Namespaced
<1>3. CASE req[r].idem = None
  <2>1. ran' = ran
    BY <1>3 DEF Serve
  <2>2. QED
    BY <1>1, <2>1, Answered
<1>4. CASE req[r].idem # None
  <2>1. ran' = [ran EXCEPT ![s][m] = @ + 1]
    BY <1>2, <1>4 DEF Serve
  <2>2. m \in Tenants \X Idem /\ Past(req[r])
    BY <1>2, <1>4 DEF Placed, Mark, Past, Req
  <2>3. /\ req' \in [Requests -> Req] /\ \A q \in Requests \ {r} : req'[q] = req[q]
        /\ req'[r] = Idle
    BY <1>1, IdleFits DEF SafeInv, TypeInv, Answer
  <2>4. ran[s][m] = 0 /\ m \in seen[s]
    BY <2>2 DEF SafeInv, MarkInv
  <2> HIDE DEF s, m
  <2>5. /\ ran' \in [Servers -> [Tenants \X Idem -> Nat]] /\ ran'[s][m] = 1
        /\ \A t \in Servers, x \in Tenants \X Idem : t # s \/ x # m => ran'[t][x] = ran[t][x]
    <3>1. ran \in [Servers -> [Tenants \X Idem -> Nat]]
      BY DEF SafeInv, TypeInv, MarkType
    <3>2. ran' = [ran EXCEPT ![s] = [ran[s] EXCEPT ![m] = 1]]
      BY <1>2, <2>1, <2>2, <2>4, <3>1
    <3>3. [ran[s] EXCEPT ![m] = 1] \in [Tenants \X Idem -> Nat]
      BY <1>2, <2>2, <3>1
    <3>4. ran' \in [Servers -> [Tenants \X Idem -> Nat]]
      BY <3>1, <3>2, <3>3
    <3>5. QED
      BY <1>2, <2>2, <3>1, <3>2, <3>4
  <2>6. TypeInv'
    BY <1>1, <2>3, <2>5 DEF SafeInv, TypeInv, RowType, MarkType
  <2>7. KeyInv' /\ HandledOnce'
    BY <1>1, <2>5 DEF SafeInv, KeyInv, HandledOnce
  <2>8. PlaceInv' /\ WorthInv'
    <3>1. ASSUME NEW q \in Requests, q # r PROVE Placed(req[q])' /\ Worth(req[q])'
      <4>1. Placed(req[q]) /\ Worth(req[q]) /\ req'[q] = req[q]
        BY <2>3, <3>1 DEF SafeInv, PlaceInv, WorthInv
      <4>2. QED
        BY <4>1, <1>1 DEF Placed, Worth, DeadNow, Open
    <3>2. Placed(req[r])' /\ Worth(req[r])'
      BY <2>3 DEF Placed, Worth, Idle
    <3>3. QED
      BY <3>1, <3>2 DEF PlaceInv, WorthInv
  <2>9. MarkInv'
    <3>1. ~ Past(req'[r])
      BY <2>3 DEF Past, Idle
    <3>2. \A q \in Requests \ {r} : Past(req[q]) => req[q].server # s \/ Mark(req[q]) # m
      BY <2>2 DEF SafeInv, MarkInv, s, m
    <3>3. \A q \in Requests : Past(req[q]) => req[q].server \in Servers /\ Mark(req[q]) \in Tenants \X Idem
      BY DEF SafeInv, TypeInv, Req, PlaceInv, Placed, Past, Mark
    <3>4. QED
      BY <1>1, <2>3, <2>4, <2>5, <3>1, <3>2, <3>3 DEF SafeInv, MarkInv
  <2>10. QED
    BY <2>6, <2>7, <2>8, <2>9 DEF SafeInv
<1>5. QED
  BY <1>3, <1>4

LEMMA ExpireStep ==
  ASSUME RequestAccessAssumption, SafeInv, NEW s \in Servers, Expire(s)
  PROVE  SafeInv'
<1>1. PICK x \in seen[s] : /\ \A r \in Requests : req[r].server = s => Namespaced(r) # x
                           /\ seen' = [seen EXCEPT ![s] = @ \ {x}]
                           /\ ran'  = [ran EXCEPT ![s][x] = 0]
  BY DEF Expire
<1>2. UNCHANGED <<tenant, keys, now, gone, req>> /\ CountType' /\ Made' = Made
      /\ x \in Tenants \X Idem
  BY DEF Expire, row, SafeInv, TypeInv, CountType, MarkType, AllCounters, Made
<1>3. /\ seen' \in [Servers -> SUBSET (Tenants \X Idem)]
      /\ \A t \in Servers, y \in Tenants \X Idem : (t # s \/ y # x) => (y \in seen'[t] <=> y \in seen[t])
  BY <1>1 DEF SafeInv, TypeInv, MarkType
<1>4. /\ ran' \in [Servers -> [Tenants \X Idem -> Nat]]
      /\ \A t \in Servers, y \in Tenants \X Idem : ran'[t][y] = 0 \/ ran'[t][y] = ran[t][y]
      /\ ran'[s][x] = 0
  <2>1. ran \in [Servers -> [Tenants \X Idem -> Nat]]
    BY DEF SafeInv, TypeInv, MarkType
  <2>2. ran' = [ran EXCEPT ![s] = [ran[s] EXCEPT ![x] = 0]]
    BY <1>1, <1>2, <2>1
  <2>3. [ran[s] EXCEPT ![x] = 0] \in [Tenants \X Idem -> Nat]
    BY <1>2, <2>1
  <2>4. ran' \in [Servers -> [Tenants \X Idem -> Nat]]
    BY <2>1, <2>2, <2>3
  <2>5. QED
    BY <1>2, <2>1, <2>2, <2>4
<1>5. TypeInv'
  BY <1>2, <1>3, <1>4 DEF SafeInv, TypeInv, RowType, MarkType
<1>6. KeyInv' /\ HandledOnce'
  BY <1>2, <1>4 DEF SafeInv, KeyInv, HandledOnce
<1>7. PlaceInv' /\ WorthInv'
  BY <1>2 DEF SafeInv, PlaceInv, WorthInv, Placed, Worth, DeadNow, Open
<1>8. MarkInv'
  <2>1. \A q \in Requests : Past(req[q]) => /\ req[q].server \in Servers /\ Mark(req[q]) \in Tenants \X Idem
                                            /\ req[q].server # s \/ Mark(req[q]) # x
    BY <1>1 DEF SafeInv, TypeInv, Req, PlaceInv, Placed, Past, Mark, Namespaced
  <2>2. \A q \in Requests : Past(req[q]) => Mark(req[q]) \in seen'[req[q].server]
    BY <1>3, <2>1 DEF SafeInv, MarkInv
  <2>3. \A q \in Requests : Past(req[q]) => ran'[req[q].server][Mark(req[q])] = 0
    BY <1>4, <2>1 DEF SafeInv, MarkInv
  <2>4. ASSUME NEW t \in Servers, NEW y \in Tenants \X Idem, y \notin seen'[t] PROVE ran'[t][y] = 0
    <3>1. CASE t = s /\ y = x
      BY <3>1, <1>4
    <3>2. CASE t # s \/ y # x
      BY <2>4, <3>2, <1>3, <1>4 DEF SafeInv, MarkInv
    <3>3. QED
      BY <3>1, <3>2
  <2>5. QED
    BY <1>2, <2>2, <2>3, <2>4 DEF SafeInv, MarkInv
<1>9. QED
  BY <1>5, <1>6, <1>7, <1>8 DEF SafeInv

\* A server that restarts forgets its marks, and those that held them.
LEMMA RestartStep ==
  ASSUME RequestAccessAssumption, SafeInv, NEW s \in Servers, Restart(s)
  PROVE  SafeInv'
<1>1. UNCHANGED <<tenant, keys, now, gone>> /\ CountType' /\ Made' = Made
  BY DEF Restart, row, SafeInv, TypeInv, CountType, AllCounters, Made
<1>2. /\ seen' \in [Servers -> SUBSET (Tenants \X Idem)]
      /\ \A t \in Servers : t # s => seen'[t] = seen[t]
  BY DEF Restart, SafeInv, TypeInv, MarkType
<1>3. /\ ran' \in [Servers -> [Tenants \X Idem -> Nat]]
      /\ \A t \in Servers : t # s => ran'[t] = ran[t]
      /\ \A y \in Tenants \X Idem : ran'[s][y] = 0
  <2>1. [x \in Tenants \X Idem |-> 0] \in [Tenants \X Idem -> Nat]
    OBVIOUS
  <2>2. QED
    BY <2>1 DEF Restart, SafeInv, TypeInv, MarkType
<1>4. /\ req' \in [Requests -> Req]
      /\ \A q \in Requests : req'[q] = Idle \/ (req'[q] = req[q] /\ req[q].server # s)
  BY IdleFits DEF Restart, SafeInv, TypeInv
<1>5. TypeInv'
  BY <1>1, <1>2, <1>3, <1>4 DEF SafeInv, TypeInv, RowType, MarkType
<1>6. KeyInv' /\ HandledOnce'
  BY <1>1, <1>3 DEF SafeInv, KeyInv, HandledOnce
<1>7. PlaceInv' /\ WorthInv'
  <2>1. ASSUME NEW q \in Requests PROVE Placed(req[q])' /\ Worth(req[q])'
    <3>1. CASE req'[q] = Idle
      BY <3>1 DEF Placed, Worth, Idle
    <3>2. CASE req'[q] = req[q]
      <4>1. Placed(req[q]) /\ Worth(req[q])
        BY DEF SafeInv, PlaceInv, WorthInv
      <4>2. QED
        BY <4>1, <3>2, <1>1 DEF Placed, Worth, DeadNow, Open
    <3>3. QED
      BY <3>1, <3>2, <1>4
  <2>2. QED
    BY <2>1 DEF PlaceInv, WorthInv
<1>8. MarkInv'
  <2>1. \A q \in Requests : Past(req'[q]) => /\ Past(req[q]) /\ req'[q] = req[q] /\ req[q].server # s
                                             /\ req[q].server \in Servers
    BY <1>4, IdleIsFine DEF SafeInv, PlaceInv, Placed, Past
  <2>2. ASSUME NEW q \in Requests, Past(req'[q])
        PROVE  Mark(req'[q]) \in seen'[req'[q].server] /\ ran'[req'[q].server][Mark(req'[q])] = 0
    BY <1>2, <1>3, <2>1, <2>2 DEF SafeInv, MarkInv
  <2>3. ASSUME NEW p \in Requests, NEW q \in Requests, Past(req'[p]), Past(req'[q]),
               req'[p].server = req'[q].server, Mark(req'[p]) = Mark(req'[q])
        PROVE  p = q
    BY <2>1, <2>3 DEF SafeInv, MarkInv
  <2>4. ASSUME NEW t \in Servers, NEW y \in Tenants \X Idem, y \notin seen'[t] PROVE ran'[t][y] = 0
    BY <1>2, <1>3, <2>4 DEF SafeInv, MarkInv
  <2>5. QED
    BY <2>2, <2>3, <2>4 DEF MarkInv
<1>9. QED
  BY <1>5, <1>6, <1>7, <1>8 DEF SafeInv

LEMMA TickStep ==
  ASSUME RequestAccessAssumption, SafeInv, Tick
  PROVE  SafeInv'
<1>1. UNCHANGED <<tenant, keys, gone, seen, ran, req>> /\ CountType' /\ Made' = Made
  BY DEF Tick, row, hist, SafeInv, TypeInv, CountType, AllCounters, Made
<1>2. now \in Nat /\ now' = now + 1 /\ now' \in 0 .. LastMinute
  BY DEF Tick, SafeInv, TypeInv, RowType, RequestAccessAssumption
<1>3. TypeInv' /\ KeyInv' /\ HandledOnce' /\ MarkInv' /\ PlaceInv'
  BY <1>1, <1>2 DEF SafeInv, TypeInv, RowType, MarkType, KeyInv, HandledOnce, MarkInv, PlaceInv, Placed
<1>4. WorthInv'
  <2>1. \A k \in KeyIds : DeadNow(k) => DeadNow(k)'
    <3>1. \A k \in KeyIds : keys[k].expires \in Nat
      BY DEF SafeInv, TypeInv, RowType, Key
    <3>2. QED
      BY <1>1, <1>2, <3>1 DEF DeadNow
  <2>2. \A q \in Requests : req[q].pc = "keys" => req[q].key \in KeyIds
    BY DEF SafeInv, PlaceInv, Placed, Made
  <2>3. QED
    BY <1>1, <2>1, <2>2 DEF SafeInv, WorthInv, Worth, Open
<1>5. QED
  BY <1>3, <1>4 DEF SafeInv

-----------------------------------------------------------------------------
(* Steps that write rows.  Rows of keys that were made keep their tenants  *)
(* and expiries and are never live again; a tenant that opens clears what  *)
(* requests knew of tenants being shut.                                    *)

LEMMA RowsMove ==
  ASSUME RequestAccessAssumption, SafeInv, NEW r \in Requests, RowType', KeyInv', gone \subseteq gone',
         \A k \in Made : keys'[k].tenant = keys[k].tenant /\ keys'[k].expires = keys[k].expires,
         req' \in [Requests -> Req], req'[r] = Idle,
         \A q \in Requests \ {r} : req'[q] = req[q] \/ req'[q] = [req[q] EXCEPT !.shut = FALSE],
         \A q \in Requests \ {r} : req'[q].shut => \A t \in Tenants : Open(t)' => Open(t),
         UNCHANGED <<now, seen, ran>>, CountType'
  PROVE  SafeInv'
<1>1. \A q \in Requests \ {r} :
        /\ req'[q].pc = req[q].pc /\ req'[q].server = req[q].server /\ req'[q].key = req[q].key
        /\ req'[q].idem = req[q].idem /\ req'[q].op = req[q].op /\ req'[q].at = req[q].at
        /\ req'[q].from = req[q].from /\ req'[q].plan = req[q].plan /\ req'[q].dead = req[q].dead
        /\ req'[q].shut => req[q].shut
  BY DEF SafeInv, TypeInv, Req
<1>2. Made \subseteq Made'
  BY DEF Made
<1>3. TypeInv'
  BY DEF SafeInv, TypeInv, MarkType
<1>4. HandledOnce'
  BY DEF SafeInv, HandledOnce
<1>5. ASSUME NEW q \in Requests PROVE Placed(req[q])' /\ Worth(req[q])'
  <2>1. CASE q = r
    BY <2>1 DEF Placed, Worth, Idle
  <2>2. CASE q # r
    <3>1. Placed(req[q]) /\ Worth(req[q])
      BY DEF SafeInv, PlaceInv, WorthInv
    <3>2. Placed(req[q])'
      BY <2>2, <3>1, <1>1, <1>2 DEF Placed
    <3>3. CASE req[q].pc = "keys"
      <4>1. req[q].key \in Made /\ keys[req[q].key].tenant \in Tenants
        BY <3>1, <3>3 DEF Placed, Made, SafeInv, TypeInv, RowType, Key
      <4>2. DeadNow(req[q].key) => DeadNow(req[q].key)'
        BY <2>2, <4>1, <1>1 DEF DeadNow
      <4>3. QED
        BY <2>2, <3>1, <3>2, <3>3, <4>1, <4>2, <1>1 DEF Worth
    <3>4. CASE req[q].pc = "tenant"
      BY <2>2, <3>1, <3>2, <3>4, <1>1 DEF Worth, Placed
    <3>5. CASE req[q].pc \notin {"keys", "tenant"}
      BY <2>2, <3>1, <3>2, <3>5, <1>1 DEF Worth
    <3>6. QED
      BY <3>3, <3>4, <3>5
  <2>3. QED
    BY <2>1, <2>2
<1>6. MarkInv'
  <2>1. ~ Past(req'[r])
    BY DEF Past, Idle
  <2>2. \A q \in Requests : Past(req'[q]) => /\ Past(req[q]) /\ req'[q].server = req[q].server
                                             /\ Mark(req'[q]) = Mark(req[q])
    BY <1>1, <2>1 DEF Past, Mark
  <2>3. QED
    BY <2>2 DEF SafeInv, MarkInv, Past
<1>7. QED
  BY <1>3, <1>4, <1>5, <1>6 DEF SafeInv, PlaceInv, WorthInv

LEMMA NextKey ==
  ASSUME RequestAccessAssumption, NEW k \in KeyIds \ Made
  PROVE  k \notin Made /\ k \in KeyIds /\ keys[k].tenant = None
BY DEF Made

LEMMA CreateKeyStep ==
  ASSUME RequestAccessAssumption, SafeInv, NEW r \in Requests, CreateKey(r)
  PROVE  SafeInv'
<1>1. PICK role \in Issued, expires \in {0, now} :
        NewKey([tenant |-> req[r].at, role |-> role, live |-> TRUE, expires |-> expires])
  BY DEF CreateKey
<1> DEFINE key == [tenant |-> req[r].at, role |-> role, live |-> TRUE, expires |-> expires]
<1>2. PICK k \in KeyIds \ Made : keys' = [keys EXCEPT ![k] = key]
  BY <1>1 DEF NewKey
<1>3. UNCHANGED <<tenant, now, gone, seen, ran>> /\ CountType' /\ Answer(r)
  BY DEF CreateKey, hist, SafeInv, TypeInv, CountType, AllCounters
<1>4. key \in Key /\ key.tenant # None
  BY DEF CreateKey, SafeInv, PlaceInv, Placed, TypeInv, RowType, Key, Roles, RequestAccessAssumption
<1> HIDE DEF key
<1>5. RowType'
  BY <1>2, <1>3, <1>4 DEF SafeInv, TypeInv, RowType
<1>6. \A j \in KeyIds \ {k} : keys'[j] = keys[j]
  BY <1>2 DEF SafeInv, TypeInv, RowType
<1>7. KeyInv' /\ \A j \in Made : keys'[j] = keys[j]
  BY <1>3, <1>6 DEF SafeInv, KeyInv, Made
<1>8. req' \in [Requests -> Req] /\ req'[r] = Idle /\ \A q \in Requests \ {r} : req'[q] = req[q]
  BY <1>3, IdleFits DEF SafeInv, TypeInv, Answer
<1>9. \A t \in Tenants : Open(t)' => Open(t)
  BY <1>3 DEF Open
<1>10. QED
  BY <1>3, <1>5, <1>7, <1>8, <1>9, RowsMove

LEMMA RevokeKeyStep ==
  ASSUME RequestAccessAssumption, SafeInv, NEW r \in Requests, RevokeKey(r)
  PROVE  SafeInv'
<1> DEFINE a == req[r].at
<1>1. /\ keys' = [keys EXCEPT ![a].live = FALSE] /\ gone' = gone \cup {a}
      /\ UNCHANGED <<tenant, now, seen, ran>> /\ CountType' /\ Answer(r)
  BY DEF RevokeKey, SafeInv, TypeInv, CountType, AllCounters
<1>2. a \in Made /\ a \in KeyIds /\ keys \in [KeyIds -> Key]
  BY DEF RevokeKey, SafeInv, PlaceInv, Placed, TypeInv, RowType, Made
<1> HIDE DEF a
<1>3. /\ keys' \in [KeyIds -> Key] /\ keys'[a].live = FALSE
      /\ keys'[a].tenant = keys[a].tenant /\ keys'[a].expires = keys[a].expires
      /\ \A j \in KeyIds \ {a} : keys'[j] = keys[j]
  <2>1. [keys[a] EXCEPT !.live = FALSE] \in Key
    BY <1>2 DEF Key
  <2>2. keys' = [keys EXCEPT ![a] = [keys[a] EXCEPT !.live = FALSE]]
    BY <1>1, <1>2
  <2>3. QED
    BY <1>2, <2>1, <2>2 DEF Key
<1>4. RowType' /\ KeyInv'
  BY <1>1, <1>2, <1>3 DEF SafeInv, TypeInv, RowType, KeyInv, Made
<1>5. req' \in [Requests -> Req] /\ req'[r] = Idle /\ \A q \in Requests \ {r} : req'[q] = req[q]
  BY <1>1, IdleFits DEF SafeInv, TypeInv, Answer
<1>6. \A t \in Tenants : Open(t)' => Open(t)
  BY <1>1 DEF Open
<1>7. \A j \in Made : keys'[j].tenant = keys[j].tenant /\ keys'[j].expires = keys[j].expires
  BY <1>3 DEF Made
<1>8. QED
  BY <1>1, <1>4, <1>5, <1>6, <1>7, RowsMove

LEMMA RotateKeyStep ==
  ASSUME RequestAccessAssumption, SafeInv, NEW r \in Requests, RotateKey(r)
  PROVE  SafeInv'
<1> DEFINE a == req[r].at
           from == req[r].from
<1>1. PICK k \in KeyIds \ Made, expires \in {req[r].from.expires} \cup
                                   (IF req[r].op = "replace" THEN {0} ELSE {}) :
         keys' = [keys EXCEPT ![req[r].at].live = FALSE,
                              ![k] = [req[r].from EXCEPT !.expires = expires]]
  BY DEF RotateKey
<1>2. /\ gone' = gone \cup {a}
      /\ UNCHANGED <<tenant, now, seen, ran>> /\ CountType' /\ Answer(r)
  BY DEF RotateKey, SafeInv, TypeInv, CountType, AllCounters
<1>3. /\ a \in Made /\ a \in KeyIds /\ keys \in [KeyIds -> Key] /\ a # k
      /\ from \in Key /\ from.tenant \in Tenants /\ expires \in Nat
  BY DEF RotateKey, SafeInv, PlaceInv, Placed, TypeInv, RowType, Made, Key, Req
<1> DEFINE new == [from EXCEPT !.expires = expires]
<1>4. new \in Key /\ new.tenant # None
  BY <1>3 DEF Key, RequestAccessAssumption
<1>5. keys' = [keys EXCEPT ![a] = [keys[a] EXCEPT !.live = FALSE], ![k] = new]
  BY <1>1, <1>3
<1> HIDE DEF a, from, new
<1>6. /\ keys' \in [KeyIds -> Key] /\ keys'[a].live = FALSE
      /\ keys'[a].tenant = keys[a].tenant /\ keys'[a].expires = keys[a].expires
      /\ \A j \in KeyIds \ {a, k} : keys'[j] = keys[j]
  <2>1. [keys[a] EXCEPT !.live = FALSE] \in Key
    BY <1>3 DEF Key
  <2>2. QED
    BY <1>3, <1>4, <1>5, <2>1 DEF Key
<1>7. \A j \in Made : keys'[j].tenant = keys[j].tenant /\ keys'[j].expires = keys[j].expires
  BY <1>6 DEF Made
<1>8. RowType' /\ KeyInv'
  <2>1. RowType'
    BY <1>2, <1>3, <1>6 DEF SafeInv, TypeInv, RowType
  <2>2. ASSUME NEW j \in gone' PROVE j \in Made' /\ ~ keys'[j].live
    <3>1. j \in Made
      BY <1>2, <1>3 DEF SafeInv, KeyInv
    <3>2. CASE j = a
      BY <3>1, <3>2, <1>6, <1>7 DEF Made
    <3>3. CASE j # a
      BY <3>1, <3>3, <1>2, <1>6 DEF Made, SafeInv, KeyInv
    <3>4. QED
      BY <3>2, <3>3
  <2>3. QED
    BY <2>1, <2>2 DEF KeyInv
<1>9. req' \in [Requests -> Req] /\ req'[r] = Idle /\ \A q \in Requests \ {r} : req'[q] = req[q]
  BY <1>2, IdleFits DEF SafeInv, TypeInv, Answer
<1>10. \A t \in Tenants : Open(t)' => Open(t)
  BY <1>2 DEF Open
<1>11. QED
  BY <1>2, <1>7, <1>8, <1>9, <1>10, RowsMove

LEMMA DeactivateStep ==
  ASSUME RequestAccessAssumption, SafeInv, NEW r \in Requests, Deactivate(r)
  PROVE  SafeInv'
<1> DEFINE a == req[r].at
<1>1. /\ tenant' = [tenant EXCEPT ![a].live = FALSE]
      /\ keys' = [k \in KeyIds |-> IF keys[k].tenant = a
                                   THEN [keys[k] EXCEPT !.live = FALSE] ELSE keys[k]]
      /\ gone' = gone \cup {k \in Made : keys[k].tenant = a}
      /\ UNCHANGED <<now, seen, ran>> /\ CountType' /\ Answer(r)
  BY DEF Deactivate, SafeInv, TypeInv, CountType, AllCounters
<1>2. /\ a \in Tenants /\ keys \in [KeyIds -> Key]
      /\ tenant \in [Tenants -> [live : BOOLEAN, status : Statuses, plan : Plans]]
  BY DEF Deactivate, Handling, SafeInv, PlaceInv, Placed, TypeInv, RowType, KeyCallOps, TenantOps
<1> HIDE DEF a
<1>3. /\ tenant' \in [Tenants -> [live : BOOLEAN, status : Statuses, plan : Plans]]
      /\ \A t \in Tenants : Open(t)' => Open(t)
  BY <1>1, <1>2 DEF Open
<1>4. \A k \in KeyIds : /\ keys'[k] \in Key
                        /\ keys'[k].tenant = keys[k].tenant /\ keys'[k].expires = keys[k].expires
                        /\ keys'[k].live => keys[k].live /\ keys[k].tenant # a
  <2>1. ASSUME NEW k \in KeyIds PROVE [keys[k] EXCEPT !.live = FALSE] \in Key
    BY <1>2 DEF Key
  <2>2. QED
    BY <1>1, <1>2, <2>1 DEF Key
<1>5. keys' \in [KeyIds -> Key]
  BY <1>1, <1>4
<1>6. RowType' /\ KeyInv'
  BY <1>1, <1>3, <1>4, <1>5 DEF SafeInv, TypeInv, RowType, KeyInv, Made
<1>7. req' \in [Requests -> Req] /\ req'[r] = Idle /\ \A q \in Requests \ {r} : req'[q] = req[q]
  BY <1>1, IdleFits DEF SafeInv, TypeInv, Answer
<1>8. QED
  BY <1>1, <1>3, <1>4, <1>6, <1>7, RowsMove DEF Made

LEMMA SetTenantStep ==
  ASSUME RequestAccessAssumption, SafeInv, NEW r \in Requests, req[r].at \in Tenants,
         NEW new \in [live : BOOLEAN, status : Statuses, plan : Plans], SetTenant(r, new)
  PROVE  SafeInv'
<1>1. /\ tenant' = [tenant EXCEPT ![req[r].at] = new]
      /\ UNCHANGED <<keys, now, gone, seen, ran>> /\ CountType'
  BY DEF SetTenant, hist, SafeInv, TypeInv, CountType, AllCounters
<1>2. RowType' /\ KeyInv'
  BY <1>1 DEF SafeInv, TypeInv, RowType, KeyInv, Made
<1>3. /\ req' \in [Requests -> Req] /\ req'[r] = Idle
      /\ \A q \in Requests \ {r} : req'[q] = req[q] \/ req'[q] = [req[q] EXCEPT !.shut = FALSE]
  <2>1. ASSUME NEW x \in Req PROVE [x EXCEPT !.shut = FALSE] \in Req
    BY DEF Req
  <2>2. QED
    BY <2>1, IdleFits DEF SetTenant, SafeInv, TypeInv
<1>4. ASSUME NEW q \in Requests \ {r}, req'[q].shut, NEW t \in Tenants, Open(t)' PROVE Open(t)
  <2>1. [req[q] EXCEPT !.shut = FALSE].shut = FALSE
    BY DEF SafeInv, TypeInv, Req
  <2>2. ~ (new.live /\ new.status = "ACTIVE")
    BY <1>4, <2>1 DEF SetTenant
  <2>3. QED
    BY <1>1, <1>4, <2>2 DEF Open, SafeInv, TypeInv, RowType
<1>5. QED
  BY <1>1, <1>2, <1>3, <1>4, RowsMove

LEMMA TenantStep ==
  ASSUME RequestAccessAssumption, SafeInv, NEW r \in Requests,
         Reactivate(r) \/ ChangePlan(r) \/ Found(r) \/ Draft(r) \/ Transition(r)
  PROVE  SafeInv'
<1> DEFINE a == req[r].at
           Rows == [live : BOOLEAN, status : Statuses, plan : Plans]
<1>1. a \in Tenants /\ tenant[a] \in Rows
  <2>1. /\ req[r].pc = "handle"
        /\ req[r].op \in {"reactivate", "plan", "found", "draft", "review", "activate", "suspend", "archive"}
    BY DEF Reactivate, ChangePlan, Found, Draft, Transition, Handling
  <2>2. QED
    BY <2>1 DEF SafeInv, PlaceInv, Placed, TypeInv, RowType, KeyCallOps, TenantOps, PlatformOps
<1>2. CASE Reactivate(r)
  <2>1. [tenant[a] EXCEPT !.live = TRUE] \in Rows
    BY <1>1
  <2>2. QED
    BY <1>1, <1>2, <2>1, SetTenantStep DEF Reactivate
<1>3. CASE ChangePlan(r)
  <2>1. PICK p \in Plans : SetTenant(r, [tenant[a] EXCEPT !.plan = p])
    BY <1>3 DEF ChangePlan
  <2>2. [tenant[a] EXCEPT !.plan = p] \in Rows
    BY <1>1
  <2>3. QED
    BY <1>1, <2>1, <2>2, SetTenantStep
<1>4. CASE Found(r)
  <2>1. PICK p \in Plans : SetTenant(r, [live |-> TRUE, status |-> "ACTIVE", plan |-> p])
    BY <1>4 DEF Found
  <2>2. [live |-> TRUE, status |-> "ACTIVE", plan |-> p] \in Rows
    BY DEF Statuses
  <2>3. QED
    BY <1>1, <2>1, <2>2, SetTenantStep
<1>5. CASE Draft(r)
  <2>1. PICK p \in Plans : SetTenant(r, [live |-> FALSE, status |-> "DRAFT", plan |-> p])
    BY <1>5 DEF Draft
  <2>2. [live |-> FALSE, status |-> "DRAFT", plan |-> p] \in Rows
    BY DEF Statuses
  <2>3. QED
    BY <1>1, <2>1, <2>2, SetTenantStep
<1>6. CASE Transition(r)
  <2>1. PICK x \in {<<"review", "PENDING_REVIEW", FALSE>>, <<"activate", "ACTIVE", TRUE>>,
                    <<"suspend", "SUSPENDED", FALSE>>, <<"archive", "ARCHIVED", FALSE>>} :
           SetTenant(r, [tenant[a] EXCEPT !.status = x[2], !.live = x[3]])
    BY <1>6 DEF Transition
  <2>2. x[2] \in {"PENDING_REVIEW", "ACTIVE", "SUSPENDED", "ARCHIVED"} /\ x[3] \in BOOLEAN
    <3>1. CASE x = <<"review", "PENDING_REVIEW", FALSE>>
      BY <3>1
    <3>2. CASE x = <<"activate", "ACTIVE", TRUE>>
      BY <3>2
    <3>3. CASE x = <<"suspend", "SUSPENDED", FALSE>>
      BY <3>3
    <3>4. CASE x = <<"archive", "ARCHIVED", FALSE>>
      BY <3>4
    <3>5. QED
      BY <3>1, <3>2, <3>3, <3>4
  <2>3. [tenant[a] EXCEPT !.status = x[2], !.live = x[3]] \in Rows
    BY <1>1, <2>2 DEF Statuses
  <2>4. QED
    BY <1>1, <2>1, <2>3, SetTenantStep
<1>7. QED
  BY <1>2, <1>3, <1>4, <1>5, <1>6

LEMMA StutterStep ==
  ASSUME SafeInv, UNCHANGED vars
  PROVE  SafeInv'
<1>1. UNCHANGED <<tenant, keys, now, count, seen, req, gone, passed, ran>>
  BY DEF vars
<1>2. TypeInv' /\ KeyInv' /\ HandledOnce'
  BY <1>1 DEF SafeInv, TypeInv, RowType, MarkType, CountType, AllCounters, KeyInv, Made, HandledOnce
<1>3. PlaceInv' /\ WorthInv' /\ MarkInv'
  BY <1>1 DEF SafeInv, PlaceInv, Placed, WorthInv, Worth, DeadNow, Open, MarkInv, Made
<1>4. QED
  BY <1>2, <1>3 DEF SafeInv

LEMMA SafeNext ==
  ASSUME RequestAccessAssumption, SafeInv, [Next]_vars
  PROVE  SafeInv'
<1>1. ASSUME NEW r \in Requests, Middleware(r) PROVE SafeInv'
  BY <1>1, ArriveStep, ReadKeyStep, ReadTenantStep, GuardStep, ReadPlanStep, IncrementStep, DecideStep,
     FailOpenStep, RefusalStep DEF Middleware
<1>2. ASSUME NEW r \in Requests, KeyCalls(r) PROVE SafeInv'
  <2>1. CASE Generate(r) \/ Issue(r)
    BY <2>1, CheckTenantStep DEF Generate, Issue
  <2>2. CASE CreateKey(r) \/ RevokeKey(r) \/ RotateKey(r)
    BY <2>2, CreateKeyStep, RevokeKeyStep, RotateKeyStep
  <2>3. CASE FindToRevoke(r) \/ FindToRotate(r) \/ FindToWithdraw(r) \/ FindToReplace(r)
    BY <2>3, FindKeyStep DEF FindToRevoke, FindToRotate, FindToWithdraw, FindToReplace, KeyCallOps
  <2>4. QED
    BY <1>2, <2>1, <2>2, <2>3 DEF KeyCalls
<1>3. ASSUME NEW r \in Requests, TenantCalls(r) PROVE SafeInv'
  BY <1>3, DeactivateStep, TenantStep, RefusalStep DEF TenantCalls
<1>4. ASSUME NEW r \in Requests, Serve(r) PROVE SafeInv'
  BY <1>4, ServeStep
<1>5. ASSUME NEW s \in Servers, Expire(s) \/ Restart(s) PROVE SafeInv'
  BY <1>5, ExpireStep, RestartStep
<1>6. QED
  BY <1>1, <1>2, <1>3, <1>4, <1>5, TickStep, StutterStep DEF Next

LEMMA SafeInit == RequestAccessAssumption /\ Init => SafeInv
<1> SUFFICES ASSUME RequestAccessAssumption, Init PROVE SafeInv
  OBVIOUS
<1> DEFINE p0 == CHOOSE p \in Plans : TRUE
<1>1. p0 \in Plans /\ NoKey \in Key
  BY IdleFits DEF RequestAccessAssumption
<1> HIDE DEF p0
<1>2. PICK seeded \in BOOLEAN :
         /\ tenant = [t \in Tenants |->
              IF seeded /\ t = Founder
              THEN [live |-> TRUE, status |-> "ACTIVE", plan |-> p0]
              ELSE [live |-> FALSE, status |-> "ABSENT", plan |-> p0]]
         /\ keys = [k \in KeyIds |-> IF seeded /\ k = 1 THEN [tenant |-> Founder, role |-> "ADMIN",
                                                 live |-> TRUE, expires |-> 0] ELSE NoKey]
  BY DEF Init, p0
<1>3. tenant \in [Tenants -> [live : BOOLEAN, status : Statuses, plan : Plans]]
  BY <1>1, <1>2 DEF Statuses
<1>4. keys \in [KeyIds -> Key]
  <2>1. [tenant |-> Founder, role |-> "ADMIN", live |-> TRUE, expires |-> 0] \in Key
    BY DEF Key, Roles, RequestAccessAssumption
  <2>2. QED
    BY <1>1, <1>2, <2>1
<1>5. RowType
  <2>1. now = 1 /\ gone = {} /\ 1 \in 0 .. LastMinute
    BY DEF Init, RequestAccessAssumption
  <2>2. QED
    BY <1>3, <1>4, <2>1 DEF RowType
<1>6. MarkType /\ CountType
  BY DEF MarkType, CountType, Init
<1>7. req \in [Requests -> Req] /\ \A r \in Requests : req[r] = Idle
  BY IdleFits DEF Init
<1>8. KeyInv /\ PlaceInv /\ WorthInv
  BY <1>7, IdleIsFine DEF Init, KeyInv, PlaceInv, WorthInv
<1>9. MarkInv /\ HandledOnce
  BY <1>7, IdleIsFine DEF Init, MarkInv, HandledOnce
<1>10. QED
  BY <1>5, <1>6, <1>7, <1>8, <1>9 DEF SafeInv, TypeInv

-----------------------------------------------------------------------------
(* The limiter: who waits for the decision, and what the counters gave.    *)

\* Nobody new is counted, and whoever still is keeps the plan he was given.
LEMMA NoneCounted ==
  ASSUME AllowInv, UNCHANGED <<count, passed>>,
         \A q \in Requests, c \in AllCounters :
            Counted(req'[q], c) => Counted(req[q], c) /\ req'[q].plan = req[q].plan
  PROVE  AllowInv'
<1> SUFFICES ASSUME NEW c \in AllCounters, NEW S \in SUBSET Waiting(c)', IsFiniteSet(S)
             PROVE  Fits(c, S)'
  BY DEF AllowInv, AllCounters
<1>1. S \subseteq Requests /\ \A r \in S : Counted(req'[r], c)
  BY DEF Waiting, Counted
<1>2. S \in SUBSET Waiting(c) /\ \A r \in S : Cap(req'[r], c) = Cap(req[r], c)
  BY <1>1 DEF Waiting, Cap
<1>3. Fits(c, S)
  BY <1>2 DEF AllowInv
<1>4. QED
  BY <1>2, <1>3 DEF Fits, Cap

\* A step of one request that ends, or comes before, its being counted.
LEMMA OneUncounted ==
  ASSUME AllowInv, NEW r \in Requests, UNCHANGED <<count, passed>>,
         \A q \in Requests \ {r} : req'[q] = req[q],
         req'[r].pc # "count" \/ req'[r].left = Windows
  PROVE  AllowInv'
<1>1. \A c \in AllCounters : ~ Counted(req'[r], c)
  BY DEF Counted
<1>2. \A q \in Requests, c \in AllCounters :
        Counted(req'[q], c) => Counted(req[q], c) /\ req'[q].plan = req[q].plan
  BY <1>1
<1>3. QED
  BY <1>2, NoneCounted

LEMMA AnsweredUncounted ==
  ASSUME AllowInv, SafeInv, NEW r \in Requests, UNCHANGED <<count, passed>>, Answer(r)
  PROVE  AllowInv'
<1>1. (\A q \in Requests \ {r} : req'[q] = req[q]) /\ req'[r].pc # "count"
  BY DEF SafeInv, TypeInv, Answer, Idle
<1>2. QED
  BY <1>1, OneUncounted

LEMMA IncrementAllows ==
  ASSUME RequestAccessAssumption, SafeInv, AllowInv, NEW r \in Requests, Increment(r)
  PROVE  AllowInv'
<1>1. PICK w \in req[r].left :
        /\ count' = [count EXCEPT ![Counter(r, w)] = @ + 1]
        /\ req' = [req EXCEPT ![r].left = @ \ {w},
                         ![r].over = @ \/ count'[Counter(r, w)] > Limits[req[r].plan][w]]
  BY DEF Increment
<1> DEFINE x == req[r]
           y == req'[r]
           d == Counter(r, w)
<1>2. /\ x \in Req /\ x.pc = "count" /\ x.plan \in Plans /\ x.left \subseteq Windows /\ w \in Windows
      /\ passed' = passed
  BY DEF Increment, SafeInv, TypeInv, PlaceInv, Placed, Req, hist
<1>3. /\ \A q \in Requests \ {r} : req'[q] = req[q]
      /\ y.pc = "count" /\ y.from = x.from /\ y.plan = x.plan /\ y.minute = x.minute
      /\ y.left = x.left \ {w} /\ y.over = (x.over \/ count'[d] > Limits[x.plan][w])
  BY <1>1, <1>2 DEF SafeInv, TypeInv, Req
<1>4. d = <<x.from.tenant, w, Period(w, x.minute)>> /\ d[2] = w
  BY DEF Counter
<1>5. Limits[x.plan][w] \in Nat
  BY <1>2 DEF RequestAccessAssumption
<1> HIDE DEF x, y, d
<1>6. ASSUME NEW c \in AllCounters
      PROVE  /\ count[c] \in Nat /\ passed[c].n \in Nat /\ passed[c].max \in Nat
             /\ count'[c] = IF c = d THEN count[c] + 1 ELSE count[c]
  BY <1>1 DEF SafeInv, TypeInv, CountType, d
\* Only the counter that was incremented gets a new waiter, if the limit covers it.
<1>7. ASSUME NEW c \in AllCounters, Counted(y, c)
      PROVE  \/ Counted(x, c)
             \/ c = d /\ count'[c] <= Cap(y, c)
  <2>1. ~ y.over /\ \E v \in Windows \ y.left : <<y.from.tenant, v, Period(v, y.minute)>> = c
    BY <1>7 DEF Counted
  <2>2. PICK v \in Windows \ y.left : <<y.from.tenant, v, Period(v, y.minute)>> = c
    BY <2>1
  <2>3. ~ x.over /\ ~ (count'[d] > Limits[x.plan][w])
    BY <2>1, <1>3
  <2>4. CASE v = w
    <3>1. c = d
      BY <2>2, <2>4, <1>3, <1>4
    <3>2. count'[d] <= Limits[x.plan][w]
      BY <3>1, <2>3, <1>5, <1>6
    <3>3. QED
      BY <3>1, <3>2, <1>3, <1>4 DEF Cap
  <2>5. CASE v # w
    <3>1. v \in Windows \ x.left /\ <<x.from.tenant, v, Period(v, x.minute)>> = c
      BY <2>2, <2>5, <1>3
    <3>2. QED
      BY <3>1, <2>3, <1>2 DEF Counted
  <2>6. QED
    BY <2>4, <2>5
<1>8. ASSUME NEW c \in AllCounters, NEW S \in SUBSET Waiting(c)', IsFiniteSet(S)
      PROVE  Fits(c, S)'
  <2>1. S \subseteq Requests /\ \A q \in S : Counted(req'[q], c)
    BY <1>8 DEF Waiting, Counted
  <2>2. \A q \in S \ {r} : q \in Waiting(c) /\ Cap(req'[q], c) = Cap(req[q], c)
    BY <2>1, <1>3 DEF Waiting
  <2>3. Cap(y, c) = Cap(x, c)
    BY <1>3 DEF Cap
  <2>4. CASE S \subseteq Waiting(c)
    <3>1. Fits(c, S)
      BY <2>4, <1>8 DEF AllowInv
    <3>2. Cardinality(S) \in Nat
      BY <1>8, FS_CardinalityType
    <3>3. \A q \in S : Cap(req'[q], c) = Cap(req[q], c)
      BY <2>2, <2>3 DEF x, y
    <3> DEFINE n == passed[c].n + Cardinality(S)
    <3>4. n \in Nat /\ n <= count[c] /\ (n <= passed[c].max \/ \E q \in S : n <= Cap(req[q], c))
      BY <3>1, <3>2, <1>6 DEF Fits
    <3> HIDE DEF n
    <3>5. n <= count'[c] /\ (n <= passed[c].max \/ \E q \in S : n <= Cap(req'[q], c))
      BY <3>3, <3>4, <1>6
    <3>6. QED
      BY <3>5, <1>2 DEF Fits, n
  <2>5. CASE ~ (S \subseteq Waiting(c))
    <3>1. r \in S /\ ~ Counted(x, c) /\ Counted(y, c)
      BY <2>1, <2>2, <2>5 DEF Waiting, x, y
    <3>2. c = d /\ count'[c] <= Cap(y, c)
      BY <3>1, <1>7
    <3> DEFINE T == S \ {r}
    <3>3. T \in SUBSET Waiting(c) /\ IsFiniteSet(T) /\ Cardinality(T) \in Nat
          /\ Cardinality(S) = Cardinality(T) + 1
      <4>1. T \in SUBSET Waiting(c)
        BY <2>1, <2>2
      <4>2. IsFiniteSet(T) /\ Cardinality(T) = Cardinality(S) - 1
        BY <3>1, <1>8, FS_RemoveElement
      <4>3. Cardinality(T) \in Nat /\ Cardinality(S) \in Nat
        BY <4>2, <1>8, FS_CardinalityType
      <4> HIDE DEF T
      <4>4. QED
        BY <4>1, <4>2, <4>3
    <3>4. passed[c].n + Cardinality(T) <= count[c]
      BY <3>3 DEF AllowInv, Fits
    <3>5. passed[c].n + Cardinality(S) <= count'[c]
      BY <3>2, <3>3, <3>4, <1>6
    <3>6. Cap(y, c) \in Nat
      BY <3>2, <1>3, <1>4, <1>5 DEF Cap
    <3>7. passed[c].n + Cardinality(S) <= Cap(y, c)
      <4> HIDE DEF T
      <4>1. QED
        BY <3>2, <3>3, <3>5, <3>6, <1>6
    <3>8. QED
      BY <3>1, <3>5, <3>7, <1>2 DEF Fits, y
  <2>6. QED
    BY <2>4, <2>5
<1>9. QED
  BY <1>8 DEF AllowInv, AllCounters

LEMMA DecideAllows ==
  ASSUME RequestAccessAssumption, SafeInv, AllowInv, NEW r \in Requests, Decide(r)
  PROVE  AllowInv'
<1>1. count' = count /\ req[r].pc = "count" /\ req[r].left = {} /\ req[r].plan \in Plans
  BY DEF Decide, SafeInv, PlaceInv, Placed
<1>2. CASE req[r].over
  BY <1>1, <1>2, AnsweredUncounted DEF Decide
<1>3. CASE ~ req[r].over
  <2>1. /\ Metered(r)
        /\ passed' = [c \in AllCounters |->
                 IF \E w \in Windows : c = Counter(r, w)
                 THEN LET limit == Limits[req[r].plan][c[2]] IN
                      [n |-> passed[c].n + 1,
                       max |-> IF limit > passed[c].max THEN limit ELSE passed[c].max]
                 ELSE passed[c]]
    BY <1>3 DEF Decide
  <2>2. (\A q \in Requests \ {r} : req'[q] = req[q]) /\ req'[r].pc # "count"
    BY <2>1 DEF Metered, SafeInv, TypeInv, Req
  <2>3. ASSUME NEW c \in AllCounters, NEW S \in SUBSET Waiting(c)', IsFiniteSet(S)
        PROVE  Fits(c, S)'
    <3>1. S \subseteq Requests \ {r} /\ S \in SUBSET Waiting(c)
          /\ \A q \in S : Cap(req'[q], c) = Cap(req[q], c)
      BY <2>2, <2>3 DEF Waiting, Counted
    <3>2. /\ passed[c].n \in Nat /\ passed[c].max \in Nat /\ count[c] \in Nat /\ Cardinality(S) \in Nat
      BY <2>3, FS_CardinalityType DEF SafeInv, TypeInv, CountType
    <3>3. CASE ~ \E w \in Windows : c = Counter(r, w)
      <4>1. passed'[c] = passed[c]
        BY <2>1, <3>3
      <4>2. Fits(c, S)
        BY <2>3, <3>1 DEF AllowInv
      <4>3. QED
        BY <4>1, <4>2, <3>1, <1>1 DEF Fits
    <3>4. CASE \E w \in Windows : c = Counter(r, w)
      <4> DEFINE limit == Cap(req[r], c)
                 T     == S \cup {r}
                 k     == Cardinality(S)
      <4>1. PICK w \in Windows : c = Counter(r, w)
        BY <3>4
      <4>2. limit \in Nat
        BY <4>1, <1>1 DEF Counter, Cap, RequestAccessAssumption
      <4>3. passed'[c] = [n |-> passed[c].n + 1,
                          max |-> IF limit > passed[c].max THEN limit ELSE passed[c].max]
        BY <2>1, <3>4 DEF Cap
      <4>4. r \in Waiting(c)
        BY <4>1, <1>1, <1>3 DEF Waiting, Counted, Counter
      <4>5. T \in SUBSET Waiting(c) /\ IsFiniteSet(T) /\ Cardinality(T) = k + 1
        <5>1. IsFiniteSet(T) /\ Cardinality(T) = k + 1
          BY <2>3, <3>1, FS_AddElement
        <5>2. QED
          BY <5>1, <3>1, <4>4
      <4>6. LET m == passed[c].n + Cardinality(T) IN
              m <= count[c] /\ (m <= passed[c].max \/ \E q \in T : m <= Cap(req[q], c))
        BY <4>5 DEF AllowInv, Fits
      <4>7. k \in Nat
        BY <3>2
      <4> HIDE DEF k, limit
      <4>8. /\ (passed[c].n + 1) + k <= count[c]
            /\ \/ (passed[c].n + 1) + k <= passed[c].max
               \/ (passed[c].n + 1) + k <= limit
               \/ \E q \in S : (passed[c].n + 1) + k <= Cap(req'[q], c)
        <5>1. passed[c].n + Cardinality(T) = (passed[c].n + 1) + k
          BY <4>5, <4>7, <3>2
        <5>2. QED
          BY <4>6, <5>1, <3>1 DEF limit
      <4>9. /\ passed'[c].n + k <= count[c]
            /\ passed'[c].n + k <= passed'[c].max \/ \E q \in S : passed'[c].n + k <= Cap(req'[q], c)
        BY <4>2, <4>3, <4>7, <4>8, <3>2
      <4>10. QED
        BY <4>9, <1>1 DEF Fits, k
    <3>5. QED
      BY <3>3, <3>4
  <2>4. QED
    BY <2>3 DEF AllowInv, AllCounters
<1>4. QED
  BY <1>2, <1>3

LEMMA ArriveAllows ==
  ASSUME SafeInv, AllowInv, NEW r \in Requests, Arrive(r)
  PROVE  AllowInv'
<1>1. PICK new \in {req'[r]} :
        req' = [req EXCEPT ![r] = new] /\ new.pc \in {"handle", "keys"}
  BY DEF Arrive, SafeInv, TypeInv, Idle
<1>2. (\A q \in Requests \ {r} : req'[q] = req[q]) /\ req'[r].pc # "count"
  BY <1>1
<1>3. QED
  BY <1>2, OneUncounted DEF Arrive, hist

\* The other steps of one request: none of them counts it.
LEMMA RequestAllows ==
  ASSUME RequestAccessAssumption, SafeInv, AllowInv, NEW r \in Requests,
         \/ ReadKey(r) \/ ReadTenant(r) \/ Guard(r) \/ ReadPlan(r) \/ FailOpen(r) \/ Forbid(r)
         \/ Serve(r) \/ KeyCalls(r) \/ Deactivate(r) \/ Reject(r)
  PROVE  AllowInv'
<1>1. UNCHANGED <<count, passed>>
  BY DEF ReadKey, ReadTenant, Guard, ReadPlan, FailOpen, Forbid, Serve, KeyCalls, Deactivate, Reject,
         Generate, Issue, CheckTenant, CreateKey, FindToRevoke, FindToRotate, FindToWithdraw,
         FindToReplace, FindKey, RevokeKey, RotateKey, hist
<1>2. req \in [Requests -> Req] /\ req[r] \in Req
  BY DEF SafeInv, TypeInv
<1>3. ASSUME Answer(r) PROVE AllowInv'
  BY <1>1, <1>3, AnsweredUncounted
<1>4. ASSUME NEW pc \in {"idem", "plan", "handle", "create"}, Goto(r, pc) PROVE AllowInv'
  <2>1. (\A q \in Requests \ {r} : req'[q] = req[q]) /\ req'[r].pc # "count"
    BY <1>2, <1>4 DEF Goto, Req
  <2>2. QED
    BY <1>1, <2>1, OneUncounted
<1>5. CASE ReadKey(r)
  <2>1. CASE req' = [req EXCEPT ![r].pc = "tenant", ![r].key = 0, ![r].from = keys[req[r].key]]
    BY <1>1, <1>2, <2>1, OneUncounted DEF Req
  <2>2. CASE req' = [req EXCEPT ![r].pc = "handle", ![r].key = 0]
    BY <1>1, <1>2, <2>2, OneUncounted DEF Req
  <2>3. QED
    BY <1>3, <1>5, <2>1, <2>2 DEF ReadKey, Refuse
<1>6. CASE ReadTenant(r)
  <2>1. CASE req' = [req EXCEPT ![r].pc = "handle", ![r].from = NoKey]
    BY <1>1, <1>2, <2>1, OneUncounted DEF Req
  <2>2. QED
    BY <1>3, <1>4, <1>6, <2>1 DEF ReadTenant
<1>7. CASE Guard(r)
  BY <1>3, <1>4, <1>7 DEF Guard
<1>8. CASE ReadPlan(r)
  <2>1. (\A q \in Requests \ {r} : req'[q] = req[q]) /\ req'[r].left = Windows
    BY <1>2, <1>8 DEF ReadPlan, Req
  <2>2. QED
    BY <1>1, <2>1, OneUncounted
<1>9. CASE FailOpen(r)
  <2>1. (\A q \in Requests \ {r} : req'[q] = req[q]) /\ req'[r].pc # "count"
    <3>1. Metered(r)
      BY <1>9 DEF FailOpen
    <3>2. QED
      BY <3>1 DEF Metered, SafeInv, TypeInv, Req
  <2>2. QED
    BY <1>1, <2>1, OneUncounted
<1>10. CASE Forbid(r) \/ Serve(r) \/ Deactivate(r) \/ Reject(r) \/ CreateKey(r) \/ RevokeKey(r) \/ RotateKey(r)
  BY <1>3, <1>10 DEF Forbid, Serve, Deactivate, Reject, CreateKey, RevokeKey, RotateKey
<1>11. CASE Generate(r) \/ Issue(r)
  BY <1>3, <1>4, <1>11 DEF Generate, Issue, CheckTenant
<1>12. ASSUME NEW o, NEW pc \in {"revoke", "rotate"}, FindKey(r, o, pc) PROVE AllowInv'
  <2>1. CASE req' = [req EXCEPT ![r].pc = pc, ![r].from = keys[req[r].at]]
    <3>1. (\A q \in Requests \ {r} : req'[q] = req[q]) /\ req'[r].pc = pc
      BY <1>2, <2>1 DEF Req
    <3>2. QED
      BY <1>1, <3>1, OneUncounted
  <2>2. QED
    BY <1>3, <1>12, <2>1 DEF FindKey
<1>13. CASE FindToRevoke(r) \/ FindToRotate(r) \/ FindToWithdraw(r) \/ FindToReplace(r)
  BY <1>12, <1>13 DEF FindToRevoke, FindToRotate, FindToWithdraw, FindToReplace
<1>14. QED
  BY <1>5, <1>6, <1>7, <1>8, <1>9, <1>10, <1>11, <1>13 DEF KeyCalls

LEMMA SetTenantAllows ==
  ASSUME SafeInv, AllowInv, NEW r \in Requests,
         Reactivate(r) \/ ChangePlan(r) \/ Found(r) \/ Draft(r) \/ Transition(r)
  PROVE  AllowInv'
<1>1. \E new : SetTenant(r, new)
  BY DEF Reactivate, ChangePlan, Found, Draft, Transition
<1>2. PICK new : SetTenant(r, new)
  BY <1>1
<1>3. ASSUME NEW q \in Requests, NEW c \in AllCounters, Counted(req'[q], c)
      PROVE  Counted(req[q], c) /\ req'[q].plan = req[q].plan
  <2>1. req'[q] \in {Idle, req[q], [req[q] EXCEPT !.shut = FALSE]}
    BY <1>2 DEF SetTenant
  <2>2. req'[q] # Idle
    BY <1>3 DEF Counted, Idle
  <2>3. req'[q].pc = req[q].pc /\ req'[q].over = req[q].over /\ req'[q].left = req[q].left
        /\ req'[q].from = req[q].from /\ req'[q].minute = req[q].minute /\ req'[q].plan = req[q].plan
    BY <2>1, <2>2 DEF SafeInv, TypeInv, Req
  <2>4. QED
    BY <1>3, <2>3 DEF Counted
<1>4. UNCHANGED <<count, passed>>
  BY <1>2 DEF SetTenant, hist
<1>5. QED
  BY <1>3, <1>4, NoneCounted

LEMMA OtherAllows ==
  ASSUME SafeInv, AllowInv, (\E s \in Servers : Expire(s) \/ Restart(s)) \/ Tick \/ UNCHANGED vars
  PROVE  AllowInv'
<1>1. UNCHANGED <<count, passed>>
  BY DEF Expire, Restart, Tick, vars, hist
<1>2. \A q \in Requests : req'[q] = req[q] \/ req'[q] = Idle
  BY DEF Expire, Restart, Tick, vars
<1>3. \A q \in Requests, c \in AllCounters :
        Counted(req'[q], c) => Counted(req[q], c) /\ req'[q].plan = req[q].plan
  BY <1>2 DEF Counted, Idle
<1>4. QED
  BY <1>1, <1>3, NoneCounted

LEMMA AllowNext ==
  ASSUME RequestAccessAssumption, SafeInv, AllowInv, [Next]_vars
  PROVE  AllowInv'
<1>1. ASSUME NEW r \in Requests, Middleware(r) \/ Serve(r) \/ KeyCalls(r) \/ TenantCalls(r)
      PROVE  AllowInv'
  BY <1>1, ArriveAllows, IncrementAllows, DecideAllows, RequestAllows, SetTenantAllows
  DEF Middleware, TenantCalls
<1>2. QED
  BY <1>1, OtherAllows DEF Next

LEMMA AllowInit == RequestAccessAssumption /\ Init => AllowInv
<1> SUFFICES ASSUME RequestAccessAssumption, Init, NEW c \in AllCounters,
                    NEW S \in SUBSET Waiting(c), IsFiniteSet(S)
             PROVE  Fits(c, S)
  BY DEF AllowInv
<1>1. S = {}
  BY DEF Waiting, Counted, Init, Idle
<1>2. count[c] = 0 /\ passed[c].n = 0 /\ passed[c].max = 0
  BY DEF Init
<1>3. Cardinality(S) = 0
  BY <1>1, FS_EmptySet
<1>4. QED
  BY <1>2, <1>3 DEF Fits

-----------------------------------------------------------------------------

\* Whatever requests overlap with, what they rely on stays true.
THEOREM Invariance == Spec => [](SafeInv /\ AllowInv)
<1>1. Init => SafeInv /\ AllowInv
  BY RequestAccessAssumption, SafeInit, AllowInit
<1>2. SafeInv /\ AllowInv /\ [Next]_vars => SafeInv' /\ AllowInv'
  BY RequestAccessAssumption, SafeNext, AllowNext
<1>3. QED
  BY <1>1, <1>2, PTL DEF Spec

\* Rows, counters, marks and requests have the types of the schema and the middlewares.
THEOREM TypeCorrect == Spec => []TypeOK
<1>1. SafeInv => TypeOK
  BY DEF SafeInv, TypeInv, RowType, MarkType, CountType, TypeOK, Req
<1>2. QED
  BY <1>1, Invariance, PTL

\* A key that was dead, or whose tenant was shut, when a request was sent and
\* ever since, gives that request no identity past authentication.
THEOREM DeadKeysStayDead == Spec => []DeadKeysOpenNothing
<1>1. SafeInv => DeadKeysOpenNothing
  BY DEF SafeInv, WorthInv, Worth, DeadKeysOpenNothing
<1>2. QED
  BY <1>1, Invariance, PTL

\* The handler of an idempotency key runs at most once while the server knows the key.
THEOREM HandledAtMostOnce == Spec => []HandledOnce
<1>1. SafeInv => HandledOnce
  BY DEF SafeInv
<1>2. QED
  BY <1>1, Invariance, PTL

\* In no minute and on no day does the limiter let more requests of a tenant
\* through than the highest limit it applied in that window.
THEOREM LimitsHold == Spec => []WithinAllowance
<1>1. ASSUME SafeInv, AllowInv, NEW c \in AllCounters PROVE passed[c].n <= passed[c].max
  <2>1. Fits(c, {})
    BY <1>1, FS_EmptySet DEF AllowInv
  <2>2. passed[c].n \in Nat /\ passed[c].max \in Nat /\ Cardinality({}) = 0
    BY <1>1, FS_EmptySet DEF SafeInv, TypeInv, CountType
  <2>3. QED
    BY <2>1, <2>2 DEF Fits
<1>2. SafeInv /\ AllowInv => WithinAllowance
  BY <1>1 DEF WithinAllowance
<1>3. QED
  BY <1>2, Invariance, PTL
=============================================================================
