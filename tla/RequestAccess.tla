--------------------------- MODULE RequestAccess ---------------------------
(***************************************************************************)
(* What stands between an HTTP request and its handler, and what handlers  *)
(* change of it: API keys (ApiKeyManagementFacet for tenants' own calls,   *)
(* AdminApiKeyOperationsFacet for the platform's), the state of tenants    *)
(* (TenantManagementFacet and AdminTenantOperationsFacet), the             *)
(* middlewares requireApiKey, optionalApiKey, requireIdempotency,          *)
(* tenantRateLimiter, requireRole, and the diamond endpoint, which skips   *)
(* the middle two.                                                         *)
(*                                                                         *)
(* A request is a process: each await of a middleware or handler is a      *)
(* step, and any other request, of the same server or another, may run in  *)
(* between.  A server may restart, which empties its in-memory store of    *)
(* idempotency keys and drops its requests.  Statements of one             *)
(* $transaction are one step.                                              *)
(***************************************************************************)
EXTENDS Naturals, FiniteSets

CONSTANTS Tenants,      \* slugs of tenants
          Founder,      \* the tenant that the seeding script makes
          Requests,     \* requests under way at once
          Servers,      \* processes of the API
          Idem,         \* values of the Idempotency-Key header
          None,         \* no key, no tenant, no header
          Limits,       \* Limits[plan][window]: PLAN_TIER_LIMITS
          Issued,       \* roles that new keys are given
          MaxKeys,      \* bound: API keys ever made
          LastMinute,   \* bound: the clock, which starts at 1
          MinutesPerDay,
          MaxArrivals,  \* bound: requests ever sent
          MaxFaults     \* bound: restarts and failures of the limiter

Plans   == DOMAIN Limits
Windows == {"MINUTE", "DAILY"}

ASSUME RequestAccessAssumption ==
    /\ Issued \subseteq {"ADMIN", "OPERATOR", "READER"} /\ Founder \in Tenants /\ None \notin Tenants \cup Idem
    /\ Plans # {} /\ MaxKeys \in Nat \ {0} /\ LastMinute \in Nat \ {0} /\ MinutesPerDay \in Nat \ {0}
    /\ \A p \in Plans, w \in Windows : Limits[p][w] \in Nat

VARIABLES
    tenant,   \* Tenant rows: isActive, status, planTier
    keys,     \* ApiKey rows, in the order in which they were created
    now,      \* the clock, in minutes
    count,    \* RateLimitCounter rows
    seen,     \* per server: idempotencyStore
    req,      \* per request: where it is and what it has read
    arrivals, faults,
    gone,     \* history: keys that a finished call revoked, rotated or deactivated
    passed,   \* history: per window, requests the limiter let through, highest limit applied
    ran       \* history: handlers run per server and namespaced key, since the server knew it

vars == <<tenant, keys, now, count, seen, req, arrivals, faults, gone, passed, ran>>
row  == <<tenant, keys>>
hist == <<gone, passed, ran>>

KeyIds   == 1 .. MaxKeys
Statuses == {"ABSENT", "DRAFT", "PENDING_REVIEW", "ACTIVE", "SUSPENDED", "ARCHIVED"}
Roles    == {"ADMIN", "OPERATOR", "READER"}
NoKey    == [tenant |-> None, role |-> "READER", live |-> FALSE, expires |-> 0]
Made     == {k \in KeyIds : keys[k].tenant # None}

\* What a request asks for, and by which route it comes; "tenant" stands for any
\* of the tenants' operations until its handler runs, for nothing before tells
\* them apart.
TenantOps   == {"generate", "revoke", "rotate", "deactivate", "reactivate", "plan", "found"}
PlatformOps == {"issue", "withdraw", "replace", "draft", "review", "activate", "suspend", "archive"}
Ops         == {"write", "tap", "diamond", "tenant"} \cup TenantOps \cup PlatformOps

Idle == [pc |-> "idle", server |-> None, key |-> 0, idem |-> None, op |-> "tap", at |-> 0,
         from |-> NoKey, plan |-> None, minute |-> 0, left |-> {}, over |-> FALSE, dead |-> FALSE,
         shut |-> FALSE]

Open(t) == tenant[t].live /\ tenant[t].status = "ACTIVE"
Rank(role) == CASE role = "ADMIN" -> 3 [] role = "OPERATOR" -> 2 [] role = "READER" -> 1
Period(w, minute) == IF w = "DAILY" THEN minute \div MinutesPerDay ELSE minute
Counter(r, w) == <<req[r].from.tenant, w, Period(w, req[r].minute)>>
AllCounters == (Tenants \X {"MINUTE"} \X (0 .. LastMinute)) \cup
               (Tenants \X {"DAILY"} \X (0 .. (LastMinute \div MinutesPerDay)))

\* The seeding script may not have run yet.
Init ==
    /\ \E seeded \in BOOLEAN :
         /\ tenant = [t \in Tenants |->
              IF seeded /\ t = Founder
              THEN [live |-> TRUE, status |-> "ACTIVE", plan |-> CHOOSE p \in Plans : TRUE]
              ELSE [live |-> FALSE, status |-> "ABSENT", plan |-> CHOOSE p \in Plans : TRUE]]
         /\ keys = [k \in KeyIds |-> IF seeded /\ k = 1 THEN [tenant |-> Founder, role |-> "ADMIN",
                                                 live |-> TRUE, expires |-> 0] ELSE NoKey]
    /\ now = 1 /\ arrivals = 0 /\ faults = 0
    /\ count = [c \in AllCounters |-> 0]
    /\ seen = [s \in Servers |-> {}]
    /\ req = [r \in Requests |-> Idle]
    /\ gone = {}
    /\ passed = [c \in AllCounters |-> [n |-> 0, max |-> 0]]
    /\ ran = [s \in Servers |-> [x \in Tenants \X Idem |-> 0]]

Goto(r, pc) == req' = [req EXCEPT ![r].pc = pc]
Answer(r)   == req' = [req EXCEPT ![r] = Idle]

-----------------------------------------------------------------------------
(* Arrival and authentication. *)

\* History: whether the key was gone for good when the request was sent, and
\* whether its tenant has been closed ever since (SetTenant clears it).
DeadNow(k) == k \in gone \/ (keys[k].expires # 0 /\ keys[k].expires < now)

\* The keys or tenants that an operation may be asked for.
Targets(o) == IF o \in {"revoke", "rotate", "withdraw", "replace"} THEN Made ELSE Tenants

\* A request reaches a server: with a key (extractApiKey), or from the
\* platform's administration, whose actor the admin middleware has resolved.
Arrive(r) ==
    /\ req[r].pc = "idle" /\ arrivals < MaxArrivals
    /\ \E s \in Servers, o \in Ops \ TenantOps :
         \E i \in (IF o = "write" THEN Idem ELSE {None}),
            k \in (IF o \in PlatformOps THEN {0} ELSE Made),
            a \in (IF o \in PlatformOps THEN Targets(o) ELSE {0}) :
           req' = [req EXCEPT ![r] = [Idle EXCEPT
                      !.pc = IF k = 0 THEN "handle" ELSE "keys", !.server = s, !.key = k,
                      !.idem = i, !.op = o, !.at = a, !.dead = k # 0 /\ DeadNow(k),
                      !.shut = k # 0 /\ ~ Open(keys[k].tenant)]]
    /\ arrivals' = arrivals + 1
    /\ UNCHANGED <<row, now, count, seen, faults, hist>>

\* validateApiKey: the key's row is read and compared.  A refused key ends
\* the request, except on the routes of optionalApiKey, which go on without one.
Refuse(r) == IF req[r].op = "tap" THEN req' = [req EXCEPT ![r].pc = "handle", ![r].key = 0] ELSE Answer(r)

\* Bug: a key is good as long as nobody revokes it.
ReadKey_Lasting(r) ==
    /\ req[r].pc = "keys"
    /\ LET k == keys[req[r].key] IN
         IF k.live THEN req' = [req EXCEPT ![r].pc = "tenant", ![r].key = 0, ![r].from = k] ELSE Refuse(r)
    /\ UNCHANGED <<row, now, count, seen, arrivals, faults, hist>>

ReadKey(r) ==
    /\ req[r].pc = "keys"
    /\ LET k == keys[req[r].key] IN
         IF k.live /\ ~ (k.expires # 0 /\ k.expires < now)
         THEN req' = [req EXCEPT ![r].pc = "tenant", ![r].key = 0, ![r].from = k]
         ELSE Refuse(r)
    /\ UNCHANGED <<row, now, count, seen, arrivals, faults, hist>>

\* The tenant of the row comes with a query of its own; then
\* requireIdempotency, tenantRateLimiter or, on the diamond, the handler is next.
ReadTenant(r) ==
    /\ req[r].pc = "tenant"
    /\ IF Open(req[r].from.tenant)
       THEN Goto(r, CASE req[r].op = "write" -> "idem" [] req[r].op = "diamond" -> "handle"
                      [] OTHER -> "plan")
       ELSE IF req[r].op = "tap"
            THEN req' = [req EXCEPT ![r].pc = "handle", ![r].from = NoKey] ELSE Answer(r)
    /\ UNCHANGED <<row, now, count, seen, arrivals, faults, hist>>

-----------------------------------------------------------------------------
(* requireIdempotency: looking up and marking are one synchronous step. *)

Namespaced(r) == <<req[r].from.tenant, req[r].idem>>

\* Bug: The key is recorded only when the answer is sent.
Guard_NotMarked(r) ==
    /\ req[r].pc = "idem" /\ UNCHANGED seen
    /\ IF Namespaced(r) \in seen[req[r].server] THEN Answer(r) ELSE Goto(r, "plan")
    /\ UNCHANGED <<row, now, count, arrivals, faults, hist>>

Guard(r) ==
    /\ req[r].pc = "idem"
    /\ IF Namespaced(r) \in seen[req[r].server]
       THEN Answer(r) /\ UNCHANGED seen
       ELSE /\ seen' = [seen EXCEPT ![req[r].server] = @ \cup {Namespaced(r)}]
            /\ Goto(r, "plan")
    /\ UNCHANGED <<row, now, count, arrivals, faults, hist>>

\* A record outlives its TTL of 24 hours, which no request does.
Expire(s) ==
    /\ \E x \in seen[s] :
         /\ \A r \in Requests : req[r].server = s => Namespaced(r) # x
         /\ seen' = [seen EXCEPT ![s] = @ \ {x}]
         /\ ran'  = [ran EXCEPT ![s][x] = 0]
    /\ UNCHANGED <<row, now, count, req, arrivals, faults, gone, passed>>

-----------------------------------------------------------------------------
(* tenantRateLimiter and RateLimiterFacet.checkAndIncrement. *)

\* The limiter calls next(): the handler of the route runs.
Metered(r) ==
    \E o \in (IF req[r].op = "tenant" THEN TenantOps ELSE {req[r].op}) :
    \E a \in (IF o \in TenantOps THEN Targets(o) ELSE {0}) :
       req' = [req EXCEPT ![r] = [@ EXCEPT !.pc = "handle", !.op = o, !.at = a, !.plan = None,
                                           !.minute = 0, !.left = {}, !.over = FALSE]]

\* The plan is read; the clock is read next and names both windows.
ReadPlan(r) ==
    /\ req[r].pc = "plan"
    /\ req' = [req EXCEPT ![r].pc = "count", ![r].plan = tenant[req[r].from.tenant].plan,
                          ![r].minute = now, ![r].left = Windows]
    /\ UNCHANGED <<row, now, count, seen, arrivals, faults, hist>>

\* One of the two upserts, which run side by side; each increments and returns
\* the counter in one statement.
Increment(r) ==
    /\ req[r].pc = "count"
    /\ \E w \in req[r].left :
         LET c == Counter(r, w) IN
           /\ count' = [count EXCEPT ![c] = @ + 1]
           /\ req' = [req EXCEPT ![r].left = @ \ {w},
                         ![r].over = @ \/ count'[c] > Limits[req[r].plan][w]]
    /\ UNCHANGED <<row, now, seen, arrivals, faults, hist>>

\* Bug: The limit is checked against the counter read beforehand.
Decide_Late(r) ==
    /\ req[r].pc = "count" /\ req[r].left # {}
    /\ IF \E w \in Windows : count[Counter(r, w)] >= Limits[req[r].plan][w]
       THEN Answer(r) /\ UNCHANGED passed
       ELSE /\ Metered(r)
            /\ passed' = [c \in AllCounters |->
                 IF \E w \in Windows : c = Counter(r, w)
                 THEN [n |-> passed[c].n + 1, max |-> Limits[req[r].plan][c[2]]] ELSE passed[c]]
    /\ UNCHANGED <<row, now, count, seen, arrivals, faults, gone, ran>>

\* Both answers are in: the request is refused with 429, or goes on.
Decide(r) ==
    /\ req[r].pc = "count" /\ req[r].left = {}
    /\ IF req[r].over
       THEN Answer(r) /\ UNCHANGED passed
       ELSE /\ Metered(r)
            /\ passed' = [c \in AllCounters |->
                 IF \E w \in Windows : c = Counter(r, w)
                 THEN LET limit == Limits[req[r].plan][c[2]] IN
                      [n |-> passed[c].n + 1,
                       max |-> IF limit > passed[c].max THEN limit ELSE passed[c].max]
                 ELSE passed[c]]
    /\ UNCHANGED <<row, now, count, seen, arrivals, faults, gone, ran>>

\* A query of the limiter fails: it lets the request through, unmetered.
FailOpen(r) ==
    /\ req[r].pc \in {"plan", "count"} /\ faults < MaxFaults
    /\ Metered(r) /\ faults' = faults + 1
    /\ UNCHANGED <<row, now, count, seen, arrivals, hist>>

-----------------------------------------------------------------------------
(* Handlers. *)

Handling(r, o) == req[r].pc = "handle" /\ req[r].op = o

\* requireRole: who is not entitled gets 403.  Tenants' routes ask for ADMIN.
Needed(o) == CASE o \in TenantOps -> 3 [] o = "write" -> 2 [] OTHER -> 1
Entitled(r) == req[r].op \in PlatformOps \cup {"tap"} \/ Rank(req[r].from.role) >= Needed(req[r].op)

Forbid(r) ==
    /\ req[r].pc = "handle" /\ ~ Entitled(r) /\ Answer(r)
    /\ UNCHANGED <<row, now, count, seen, arrivals, faults, hist>>

\* A handler that touches neither keys nor tenants, and its answer.
Serve(r) ==
    /\ req[r].pc = "handle" /\ req[r].op \in {"write", "tap", "diamond"} /\ Entitled(r)
    /\ ran' = IF req[r].idem = None THEN ran
              ELSE [ran EXCEPT ![req[r].server][Namespaced(r)] = @ + 1]
    /\ Answer(r)
    /\ UNCHANGED <<row, now, count, seen, arrivals, faults, gone, passed>>

\* generateApiKey and the platform's createApiKey check the tenant first ...
CheckTenant(r, o) ==
    /\ Handling(r, o) /\ Entitled(r)
    /\ IF Open(req[r].at) THEN Goto(r, "create") ELSE Answer(r)
    /\ UNCHANGED <<row, now, count, seen, arrivals, faults, hist>>

Generate(r) == CheckTenant(r, "generate")
Issue(r)    == CheckTenant(r, "issue")

\* ... and hash the new key, which takes a while, before they insert the row.
NewKey(key) ==
    \E k \in KeyIds \ Made : /\ \A j \in KeyIds \ Made : k <= j
                             /\ keys' = [keys EXCEPT ![k] = key]

CreateKey(r) ==
    /\ req[r].pc = "create"
    /\ \E role \in Issued, expires \in {0, now} :
         NewKey([tenant |-> req[r].at, role |-> role, live |-> TRUE, expires |-> expires])
    /\ Answer(r)
    /\ UNCHANGED <<tenant, now, count, seen, arrivals, faults, hist>>

\* revokeApiKey and rotateApiKey, of tenants and of the platform, read the row
\* of an active key; tenants find only keys of their own.
FindKey(r, o, pc) ==
    /\ Handling(r, o) /\ Entitled(r)
    /\ LET k == keys[req[r].at] IN
         IF k.live /\ (o \in TenantOps => k.tenant = req[r].from.tenant)
         THEN req' = [req EXCEPT ![r].pc = pc, ![r].from = k] ELSE Answer(r)
    /\ UNCHANGED <<row, now, count, seen, arrivals, faults, hist>>

FindToRevoke(r)   == FindKey(r, "revoke", "revoke")
FindToRotate(r)   == FindKey(r, "rotate", "rotate")
FindToWithdraw(r) == FindKey(r, "withdraw", "revoke")
FindToReplace(r)  == FindKey(r, "replace", "rotate")

RevokeKey(r) ==
    /\ req[r].pc = "revoke"
    /\ keys' = [keys EXCEPT ![req[r].at].live = FALSE]
    /\ gone' = gone \cup {req[r].at}
    /\ Answer(r)
    /\ UNCHANGED <<tenant, now, count, seen, arrivals, faults, passed, ran>>

\* One transaction revokes the old key and inserts its successor, made from
\* the row as it was read; the platform may set another expiry.
RotateKey(r) ==
    /\ req[r].pc = "rotate"
    /\ \E k \in KeyIds \ Made, expires \in {req[r].from.expires} \cup
                                           (IF req[r].op = "replace" THEN {0} ELSE {}) :
         /\ \A j \in KeyIds \ Made : k <= j
         /\ keys' = [keys EXCEPT ![req[r].at].live = FALSE,
                                 ![k] = [req[r].from EXCEPT !.expires = expires]]
    /\ gone' = gone \cup {req[r].at}
    /\ Answer(r)
    /\ UNCHANGED <<tenant, now, count, seen, arrivals, faults, passed, ran>>

\* deactivateTenant: one transaction closes the tenant and revokes its keys.
Deactivate(r) ==
    /\ Handling(r, "deactivate") /\ Entitled(r) /\ tenant[req[r].at].status # "ABSENT"
    /\ tenant' = [tenant EXCEPT ![req[r].at].live = FALSE]
    /\ keys' = [k \in KeyIds |-> IF keys[k].tenant = req[r].at
                                 THEN [keys[k] EXCEPT !.live = FALSE] ELSE keys[k]]
    /\ gone' = gone \cup {k \in Made : keys[k].tenant = req[r].at}
    /\ Answer(r)
    /\ UNCHANGED <<now, count, seen, arrivals, faults, passed, ran>>

SetTenant(r, new) ==
    /\ Entitled(r) /\ tenant' = [tenant EXCEPT ![req[r].at] = new]
    /\ req' = [q \in Requests |->
         IF q = r THEN Idle
         ELSE IF new.live /\ new.status = "ACTIVE" THEN [req[q] EXCEPT !.shut = FALSE] ELSE req[q]]
    /\ UNCHANGED <<keys, now, count, seen, arrivals, faults, hist>>

\* reactivateTenant reopens a tenant; status stays what it was, and so do the keys.
Reactivate(r) ==
    /\ Handling(r, "reactivate") /\ tenant[req[r].at].status # "ABSENT"
    /\ SetTenant(r, [tenant[req[r].at] EXCEPT !.live = TRUE])

\* updateTenant changes the plan.
ChangePlan(r) ==
    /\ Handling(r, "plan") /\ tenant[req[r].at].status # "ABSENT"
    /\ \E p \in Plans : SetTenant(r, [tenant[req[r].at] EXCEPT !.plan = p])

\* TenantManagementFacet.createTenant: open at once, by the schema's defaults.
Found(r) ==
    /\ Handling(r, "found") /\ tenant[req[r].at].status = "ABSENT"
    /\ \E p \in Plans : SetTenant(r, [live |-> TRUE, status |-> "ACTIVE", plan |-> p])

\* AdminTenantOperationsFacet.createTenant: a draft.
Draft(r) ==
    /\ Handling(r, "draft") /\ tenant[req[r].at].status = "ABSENT"
    /\ \E p \in Plans : SetTenant(r, [live |-> FALSE, status |-> "DRAFT", plan |-> p])

\* transitionTenant, with the status and activity that its four callers pass.
Transition(r) ==
    /\ \E x \in {<<"review", "PENDING_REVIEW", FALSE>>, <<"activate", "ACTIVE", TRUE>>,
                 <<"suspend", "SUSPENDED", FALSE>>, <<"archive", "ARCHIVED", FALSE>>} :
         /\ Handling(r, x[1]) /\ tenant[req[r].at].status # "ABSENT"
         /\ SetTenant(r, [tenant[req[r].at] EXCEPT !.status = x[2], !.live = x[3]])

\* TENANT_NOT_FOUND, or SLUG_ALREADY_EXISTS.
Reject(r) ==
    /\ req[r].pc = "handle" /\ Entitled(r)
    /\ req[r].op \in {"deactivate", "reactivate", "plan", "review", "activate", "suspend", "archive",
                      "found", "draft"}
    /\ (tenant[req[r].at].status = "ABSENT") = (req[r].op \notin {"found", "draft"})
    /\ Answer(r)
    /\ UNCHANGED <<row, now, count, seen, arrivals, faults, hist>>

-----------------------------------------------------------------------------
(* Time and crashes. *)

Tick ==
    /\ now < LastMinute /\ now' = now + 1
    /\ UNCHANGED <<row, count, seen, req, arrivals, faults, hist>>

\* A process restarts: its store is empty again and its requests are lost.
Restart(s) ==
    /\ faults < MaxFaults /\ faults' = faults + 1
    /\ seen' = [seen EXCEPT ![s] = {}]
    /\ ran' = [ran EXCEPT ![s] = [x \in Tenants \X Idem |-> 0]]
    /\ req' = [r \in Requests |-> IF req[r].server = s THEN Idle ELSE req[r]]
    /\ UNCHANGED <<row, now, count, arrivals, gone, passed>>

Middleware(r) == \/ Arrive(r) \/ ReadKey(r) \/ ReadTenant(r) \/ Guard(r) \/ ReadPlan(r)
                 \/ Increment(r) \/ Decide(r) \/ FailOpen(r) \/ Forbid(r)
KeyCalls(r)   == \/ Generate(r) \/ Issue(r) \/ CreateKey(r) \/ FindToRevoke(r) \/ FindToRotate(r)
                 \/ FindToWithdraw(r) \/ FindToReplace(r) \/ RevokeKey(r) \/ RotateKey(r)
TenantCalls(r) == \/ Deactivate(r) \/ Reactivate(r) \/ ChangePlan(r) \/ Found(r) \/ Draft(r)
                  \/ Transition(r) \/ Reject(r)

Next == \/ \E r \in Requests : Middleware(r) \/ Serve(r) \/ KeyCalls(r) \/ TenantCalls(r)
        \/ \E s \in Servers : Expire(s) \/ Restart(s)
        \/ Tick

Spec == Init /\ [][Next]_vars

-----------------------------------------------------------------------------
(* Properties. *)

Key == [tenant : Tenants \cup {None}, role : Roles, live : BOOLEAN, expires : Nat]

\* Rows, counters and requests have the types of the schema and the middlewares.
TypeOK ==
    /\ tenant \in [Tenants -> [live : BOOLEAN, status : Statuses, plan : Plans]]
    /\ keys \in [KeyIds -> Key] /\ now \in 0 .. LastMinute
    /\ count \in [AllCounters -> Nat] /\ gone \subseteq KeyIds
    /\ seen \in [Servers -> SUBSET (Tenants \X Idem)]
    /\ ran \in [Servers -> [Tenants \X Idem -> Nat]]
    /\ \A r \in Requests : /\ req[r].op \in Ops /\ req[r].left \subseteq Windows
                           /\ req[r].from \in Key /\ req[r].dead \in BOOLEAN /\ req[r].shut \in BOOLEAN

\* A key that was revoked, rotated or swept up by a deactivation before a
\* request was sent, or had expired, or whose tenant has been closed since,
\* gives that request no identity: no call that had read the row before (a
\* rotation, a creation) brings a key back.  Nor does a reactivation, though
\* tenantRoutes.ts:346 says that it does.
DeadKeysOpenNothing ==
    \A r \in Requests : req[r].pc \in {"idem", "plan", "count", "handle"} /\ (req[r].dead \/ req[r].shut)
                        => req[r].from = NoKey

\* However requests of one tenant interleave, over servers and over changes of
\* its plan, the limiter lets no more of them through in a minute or a day
\* than the highest limit it applied in that window.
WithinAllowance == \A c \in AllCounters : passed[c].n <= passed[c].max

\* While a server knows an idempotency key, the handler of a request with that
\* key runs at most once on it.
HandledOnce == \A s \in Servers, x \in Tenants \X Idem : ran[s][x] <= 1
=============================================================================
