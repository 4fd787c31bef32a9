----------------------------- MODULE Identity -----------------------------
(***************************************************************************)
(* Who is who: the users of the platform's tenant and their memberships,   *)
(* profile assets, credentials and sessions (TenantUserFacet and           *)
(* TenantUserAuthFacet), the check of the platform's administrators        *)
(* (AdminAuthorizationFacet), the platform's tenant row itself             *)
(* (ensureTenantQuantum) and the rows of tenants with their commercial     *)
(* profiles (AdminTenantOperationsFacet, TenantManagementFacet).           *)
(*                                                                         *)
(* Calls interleave at their awaits.  A transaction runs at READ           *)
(* COMMITTED: what it reads before its first write may be stale when it    *)
(* writes.  From that write on it holds the lock of the user's (or the     *)
(* profile's) row, which every other writer needs, so that the rest of it  *)
(* is one step.  Left out: failedAttempts, lastSeenAt and audit rows,      *)
(* which nothing reads back, and lockedUntil, which nothing sets.          *)
(***************************************************************************)
EXTENDS Naturals, FiniteSets

CONSTANTS Users,      \* ids of user rows
          Tenants,    \* ids of other tenants
          Names,      \* logins: open ids, e-mail addresses, names of tenants
          Documents,
          Taxes,      \* contents of a commercial profile
          Inputs,     \* bodies of an upsert
          Changes,    \* fields that an update sets, and their values
          Calls, None,
          MaxCalls    \* bound: calls ever made

Roles    == {"PLATFORM_ADMIN", "MEMBER", "DEPENDENT"}
Statuses == {"ACTIVE", "SUSPENDED", "ARCHIVED"}
Fields   == [open |-> Names \cup {None}, email |-> Names \cup {None}, doc |-> Documents \cup {None},
             role |-> Roles, status |-> Statuses, guardian |-> Users \cup {None}]
User     == [open : Fields.open, email : Fields.email, doc : Fields.doc, role : Fields.role,
             status : Fields.status, guardian : Fields.guardian]
Standings == {"DRAFT", "PENDING_REVIEW", "ACTIVE", "SUSPENDED", "ARCHIVED"}
Row      == [name : Names, status : Standings, live : BOOLEAN]  \* of a tenant; live is isActive
Member   == [role : {"PLATFORM_ADMIN", "MEMBER"}, status : {"ACTIVE", "SUSPENDED", "REMOVED"}]

ASSUME IdentityAssumption ==
    /\ None \notin Users \cup Tenants \cup Names \cup Documents \cup Taxes
    /\ Inputs \subseteq [open : Names \cup {None}, email : Names \cup {None},
                         doc : Documents \cup {None}, role : {"PLATFORM_ADMIN", "MEMBER"},
                         status : Statuses]
    /\ MaxCalls \in Nat

\* A change sets fields of a row to values that they can have, and None is no row.
ASSUME ChangesAssumption ==
    /\ \A x \in Changes : /\ DOMAIN x \subseteq DOMAIN Fields
                          /\ \A f \in DOMAIN x : x[f] \in Fields[f]
    /\ None \notin User \cup Member \cup Row

VARIABLES
    platform, \* ids of the tenant rows under the platform's slug and under its previous one
    user, member, shown,  \* per user: the row, its membership, the metadata of its profile asset
    credential,           \* users with a password
    session, ended,       \* sessions, open and revoked or expired: <<call number, user>>
    tenant, profile,      \* per tenant: its row, its commercial profile
    asset, event,         \* per tenant: profile assets by external id; the last profile event
    call, calls,
    moved,    \* history: tenants whose row has changed since it was read for what is shown last
    barred,   \* history: users whose last status change suspended or archived them
    apart,    \* history: users archived by the compensation of a failed registration
    mates     \* history: pairs of users written by overlapping transactions

vars   == <<platform, user, member, shown, credential, session, ended, tenant, profile, asset, event,
            moved, call, calls, barred, apart, mates>>
people == <<user, member, shown, barred, apart, mates>>
access == <<credential, session, ended>>
firms  == <<tenant, profile, asset, event, moved>>

Made == {u \in Users : user[u] # None}
Idle == [pc |-> "idle", op |-> None, n |-> 0, u |-> None, in |-> None, new |-> None, guardian |-> None,
         at |-> 0, met |-> {}, dead |-> FALSE, barred |-> FALSE, late |-> FALSE]

\* mapTenantUserRoleToMembershipRole, mapTenantUserStatusToMembershipStatus
MemberRole(r)   == IF r = "DEPENDENT" THEN "MEMBER" ELSE r
MemberStatus(s) == IF s = "ARCHIVED" THEN "REMOVED" ELSE s
Membership(row) == [role |-> MemberRole(row.role), status |-> MemberStatus(row.status)]

\* Nothing is there yet, or the platform's tenant, under its old slug or its
\* new one, with the administrator that the seeding script makes (without a
\* profile asset).
Init ==
    /\ \E seeded \in BOOLEAN, u \in Users, n \in Names :
         LET row == [open |-> n, email |-> n, doc |-> None, role |-> "PLATFORM_ADMIN",
                     status |-> "ACTIVE", guardian |-> None] IN
           /\ platform \in IF seeded THEN {[current |-> 1, previous |-> 0], [current |-> 0, previous |-> 1]}
                           ELSE {[current |-> 0, previous |-> 0]}
           /\ user   = [v \in Users |-> IF seeded /\ v = u THEN row ELSE None]
           /\ member = [v \in Users |-> IF seeded /\ v = u THEN Membership(row) ELSE None]
    /\ shown = [v \in Users |-> None]
    /\ credential = {} /\ session = {} /\ ended = {}
    /\ tenant = [t \in Tenants |-> None] /\ profile = [t \in Tenants |-> None]
    /\ asset = [t \in Tenants |-> [n \in Names |-> None]] /\ event = [t \in Tenants |-> None]
    /\ moved = {}
    /\ call = [c \in Calls |-> Idle] /\ calls = 0
    /\ barred = {} /\ apart = {} /\ mates = {}

Begin(c, pc, op, rest) ==
    /\ call[c].pc = "idle" /\ calls < MaxCalls /\ calls' = calls + 1
    /\ call' = [call EXCEPT ![c] = [rest EXCEPT !.pc = pc, !.op = op, !.n = calls + 1]]
    /\ UNCHANGED <<platform, people, access, firms>>

At(c, pc) == call[c].pc = pc
Go(c, pc) == call' = [call EXCEPT ![c].pc = pc]
End(c)    == call' = [call EXCEPT ![c] = Idle]

-----------------------------------------------------------------------------
(* ensureTenantQuantum: three queries, the first step of registering and   *)
(* logging in.                                                             *)

FindCurrent(c) ==
    /\ At(c, "current") /\ Go(c, IF platform.current # 0 THEN "renew" ELSE "previous")
    /\ UNCHANGED <<platform, people, access, firms, calls>>

FindPrevious(c) ==
    /\ At(c, "previous")
    /\ call' = [call EXCEPT ![c].pc = "renew", ![c].at = platform.previous]
    /\ UNCHANGED <<platform, people, access, firms, calls>>

\* The tenant found under its previous slug gets the current one; else the
\* current one is updated or created.
Renew(c) ==
    /\ At(c, "renew")
    /\ platform' = IF call[c].at # 0 THEN [current |-> call[c].at, previous |-> 0]
                   ELSE [platform EXCEPT !.current = IF @ = 0 THEN 2 ELSE @]
    /\ call' = [call EXCEPT ![c].at = 0,
                            ![c].pc = CASE call[c].op = "login" -> "find" [] call[c].op = "register" -> "taken"
                                        [] call[c].op = "upsert" -> "look" [] OTHER -> "leave"]
    /\ UNCHANGED <<people, access, firms, calls>>

Leave(c) ==
    /\ call[c].pc \in {"leave", "in"} /\ End(c)
    /\ UNCHANGED <<platform, people, access, firms, calls>>

-----------------------------------------------------------------------------
(* Users: upsertB2CUser and the calls that come down to it. *)

\* The body names the tenant, which is looked up, or ensureTenantQuantum finds it.
Upsert(c) == \E i \in Inputs :
    \/ Begin(c, "current", "upsert", [Idle EXCEPT !.in = i])
    \/ platform.current + platform.previous # 0 /\ Begin(c, "look", "upsert", [Idle EXCEPT !.in = i])

Register(c)  == \E n \in Names : Begin(c, "current", "register", [Idle EXCEPT
                   !.in = [open |-> n, email |-> n, doc |-> None, role |-> "MEMBER",
                   status |-> "ACTIVE"]])
Dependent(c) == \E i \in Inputs, g \in Made, op \in {"dependent", "paid"} :
                   Begin(c, "look", op, [Idle EXCEPT !.in = i, !.guardian = g])
Ensure(c)    == Begin(c, "current", "ensure", Idle)

\* registerOpen refuses an e-mail address that has a password.
EmailTaken(c) ==
    /\ At(c, "taken")
    /\ IF \E u \in credential : user[u].email = call[c].in.email THEN End(c) ELSE Go(c, "look")
    /\ UNCHANGED <<platform, people, access, firms, calls>>

\* findTenantUser: by open id, else by document, else by e-mail address.
ByOpen(i)  == {u \in Made : i.open # None /\ user[u].open = i.open}
ByDoc(i)   == {u \in Made : i.doc # None /\ user[u].doc = i.doc}
ByEmail(i) == {u \in Made : i.email # None /\ user[u].email = i.email}
Found(i)   == IF ByOpen(i) # {} THEN ByOpen(i) ELSE IF ByDoc(i) # {} THEN ByDoc(i) ELSE ByEmail(i)

\* ensureDocumentAvailable
Available(doc, u) == doc = None \/ \A v \in Made \ {u} : user[v].doc # doc

\* The transaction opens: it finds the user and checks the document.
Look(c) ==
    /\ At(c, "look")
    /\ \E u \in (IF Found(call[c].in) = {} THEN {None} ELSE Found(call[c].in)) :
         IF Available(call[c].in.doc, u)
         THEN call' = [call EXCEPT ![c].pc = "upsert", ![c].u = u, ![c].met = {}] ELSE End(c)
    /\ UNCHANGED <<platform, people, access, firms, calls>>

\* A row is written with its membership and its profile asset; the calls whose
\* transaction is open have met the user.  then is where the call goes on.
Write(c, u, row, then) ==
    /\ user'  = [user EXCEPT ![u] = row]
    /\ shown' = [shown EXCEPT ![u] = row]
    /\ apart' = apart \ {u}
    /\ mates' = mates \cup {{u, v} : v \in call[c].met \ {u}}
    /\ call'  = [d \in Calls |->
         IF d = c THEN (IF then = "idle" THEN Idle ELSE [call[c] EXCEPT !.pc = then, !.u = u, !.met = {}])
         ELSE [call[d] EXCEPT !.met = IF call[d].pc \in {"upsert", "rewrite"} THEN @ \cup {u} ELSE @,
                              !.barred = @ /\ call[d].u \notin (barred \ barred')]]

\* The body replaces the row; a guardian that it does not name is kept.
Upserted(c) ==
    LET i == call[c].in  old == IF call[c].u = None THEN None ELSE user[call[c].u] IN
      [open |-> i.open, email |-> i.email, doc |-> i.doc, status |-> i.status,
       role |-> IF call[c].guardian # None THEN "DEPENDENT" ELSE i.role,
       guardian |-> IF call[c].guardian # None \/ old = None THEN call[c].guardian ELSE old.guardian]

\* legacyOpenId is unique: the second of two creations fails.
Unique(c) == \A v \in Made \ {call[c].u} : call[c].in.open = None \/ user[v].open # call[c].in.open

UpsertUser(c) ==
    /\ At(c, "upsert")
    /\ \E u \in (IF call[c].u = None THEN Users \ Made ELSE {call[c].u}) :
         IF Unique(c)
         THEN /\ member' = [member EXCEPT ![u] = Membership(Upserted(c))]
              /\ barred' = barred \ {u}
              /\ Write(c, u, Upserted(c), CASE call[c].op = "register" -> "password"
                                            [] call[c].op = "paid" -> "charge" [] OTHER -> "idle")
         ELSE End(c) /\ UNCHANGED people
    /\ UNCHANGED <<platform, access, firms, calls>>

\* createDependentWithRegistrationCredit: the credit is consumed (the ledger is
\* a module of its own), or the dependent is archived, without membership and
\* profile asset; that update may be lost as well.
Consumed(c) ==
    /\ At(c, "charge") /\ End(c)
    /\ UNCHANGED <<platform, people, access, firms, calls>>

Compensate(c) ==
    /\ At(c, "charge") /\ End(c)
    /\ user'  = [user EXCEPT ![call[c].u].status = "ARCHIVED"]
    /\ apart' = apart \cup {call[c].u}
    /\ UNCHANGED <<platform, member, shown, barred, mates, access, firms, calls>>

-----------------------------------------------------------------------------
(* Users: profiles, administration, identities. *)

Profile(c) == \E u \in Made, x \in {x \in Changes : DOMAIN x \subseteq {"doc", "email"}} :
                 Begin(c, "read", "profile", [Idle EXCEPT !.u = u, !.in = x])
Child(c)   == \E u, g \in Made, x \in {x \in Changes : DOMAIN x \subseteq {"doc", "email"}} :
                 Begin(c, "child", "profile", [Idle EXCEPT !.u = u, !.guardian = g, !.in = x])
Update(c)  == \E u \in Made, x \in Changes : Begin(c, "read", "update", [Idle EXCEPT !.u = u, !.in = x])

\* updateDependent edits only dependents of the guardian it is called for.
CheckGuardian(c) ==
    /\ At(c, "child")
    /\ IF user[call[c].u].guardian = call[c].guardian THEN Go(c, "read") ELSE End(c)
    /\ UNCHANGED <<platform, people, access, firms, calls>>

\* updateProfile and updateTenantUser read the whole row and lay the changes on it.
ReadUser(c) ==
    /\ At(c, "read")
    /\ LET row == user[call[c].u]  x == call[c].in IN
         call' = [call EXCEPT ![c].pc = "check",
                    ![c].new = [f \in DOMAIN row |-> IF f \in DOMAIN x THEN x[f] ELSE row[f]]]
    /\ UNCHANGED <<platform, people, access, firms, calls>>

\* Bug: Updates do not check the document.
CheckDocument_Skipped(c) ==
    /\ At(c, "check") /\ call' = [call EXCEPT ![c].pc = "rewrite", ![c].met = {}]
    /\ UNCHANGED <<platform, people, access, firms, calls>>

\* Their transaction opens with the check of the document.
CheckDocument(c) ==
    /\ At(c, "check")
    /\ IF Available(call[c].new.doc, call[c].u)
       THEN call' = [call EXCEPT ![c].pc = "rewrite", ![c].met = {}] ELSE End(c)
    /\ UNCHANGED <<platform, people, access, firms, calls>>

\* Bug: The profile's editor keeps the membership in step with the row it writes.
UpdateProfile_Membership(c) ==
    /\ At(c, "rewrite") /\ call[c].op = "profile"
    /\ member' = [member EXCEPT ![call[c].u] = Membership(call[c].new)]
    /\ UNCHANGED barred
    /\ Write(c, call[c].u, call[c].new, "idle")
    /\ UNCHANGED <<platform, access, firms, calls>>

\* The copy is written back: role, status and guardian as they were when it was read.
UpdateProfile(c) ==
    /\ At(c, "rewrite") /\ call[c].op = "profile"
    /\ UNCHANGED <<member, barred>>
    /\ Write(c, call[c].u, call[c].new, "idle")
    /\ UNCHANGED <<platform, access, firms, calls>>

UpdateUser(c) ==
    /\ At(c, "rewrite") /\ call[c].op = "update"
    /\ member' = [member EXCEPT ![call[c].u] = Membership(call[c].new)]
    /\ barred' = barred \ {call[c].u}
    /\ Write(c, call[c].u, call[c].new, "idle")
    /\ UNCHANGED <<platform, access, firms, calls>>

\* setTenantUserStatus
SetStatus(c) ==
    /\ At(c, "idle") /\ calls < MaxCalls /\ calls' = calls + 1
    /\ \E u \in Made, s \in Statuses :
         /\ member' = [member EXCEPT ![u].status = MemberStatus(s)]
         /\ barred' = IF s = "ACTIVE" THEN barred \ {u} ELSE barred \cup {u}
         /\ Write(c, u, [user[u] EXCEPT !.status = s], "idle")
    /\ UNCHANGED <<platform, access, firms>>

\* Bug: The profile asset is not refreshed.
AssignRole_Unshown(c) ==
    /\ At(c, "idle") /\ calls < MaxCalls /\ calls' = calls + 1
    /\ \E u \in Made, r \in Roles :
         /\ member' = [member EXCEPT ![u].role = MemberRole(r)]
         /\ user' = [user EXCEPT ![u].role = r]
    /\ UNCHANGED <<shown, barred, apart, mates, call, platform, access, firms>>

\* assignTenantUserRole
AssignRole(c) ==
    /\ At(c, "idle") /\ calls < MaxCalls /\ calls' = calls + 1
    /\ \E u \in Made, r \in Roles :
         /\ member' = [member EXCEPT ![u].role = MemberRole(r)] /\ UNCHANGED barred
         /\ Write(c, u, [user[u] EXCEPT !.role = r], "idle")
    /\ UNCHANGED <<platform, access, firms>>

-----------------------------------------------------------------------------
(* Credentials and sessions. *)

SetPassword(c) ==
    /\ At(c, "password") /\ Go(c, "session")
    /\ credential' = credential \cup {call[c].u}
    /\ UNCHANGED <<platform, people, session, ended, firms, calls>>

Login(c) == \E n \in Names : Begin(c, "current", "login", [Idle EXCEPT !.in = [email |-> n]])

\* A user with the address and a password, and a copy of the row; the
\* password is compared afterwards, and the copy's status decides.
FindLogin(c) ==
    /\ At(c, "find")
    /\ LET found == {u \in credential : user[u].email = call[c].in.email} IN
         IF found = {} THEN End(c)
         ELSE \E u \in found :
                call' = [call EXCEPT ![c].pc = "compare", ![c].u = u, ![c].new = user[u]]
    /\ UNCHANGED <<platform, people, access, firms, calls>>

Compare(c) ==
    /\ At(c, "compare")
    /\ \E right \in BOOLEAN :
         IF right /\ call[c].new.status = "ACTIVE" THEN Go(c, "session") ELSE End(c)
    /\ UNCHANGED <<platform, people, access, firms, calls>>

\* createSession; registerOpen has granted its bonus before.
OpenSession(c) ==
    /\ At(c, "session") /\ End(c)
    /\ session' = session \cup {<<call[c].n, call[c].u>>}
    /\ UNCHANGED <<platform, people, credential, ended, firms, calls>>

\* logout, or the session expires; the calls under way know nothing of it.
EndSession ==
    /\ \E s \in session : session' = session \ {s} /\ ended' = ended \cup {s}
    /\ UNCHANGED <<platform, people, credential, firms, call, calls>>

\* current reads the session and, with a query of its own, its user.
Present(c) == \E s \in session \cup ended :
    Begin(c, "token", "me", [Idle EXCEPT !.at = s[1], !.u = s[2], !.dead = s \in ended])

CheckSession(c) ==
    /\ At(c, "token")
    /\ IF <<call[c].at, call[c].u>> \in session THEN Go(c, "active") ELSE End(c)
    /\ UNCHANGED <<platform, people, access, firms, calls>>

\* resolveAdminActor reads the user named in a header, requirePlatformAdmin its memberships.
Administer(c) == \E u \in Made :
    Begin(c, "active", "admin", [Idle EXCEPT !.u = u, !.barred = u \in barred])

CheckActive(c) ==
    /\ At(c, "active")
    /\ IF user[call[c].u].status = "ACTIVE"
       THEN Go(c, IF call[c].op = "admin" THEN "member" ELSE "in") ELSE End(c)
    /\ UNCHANGED <<platform, people, access, firms, calls>>

CheckMember(c) ==
    /\ At(c, "member")
    /\ IF member[call[c].u] = [role |-> "PLATFORM_ADMIN", status |-> "ACTIVE"] THEN Go(c, "in") ELSE End(c)
    /\ UNCHANGED <<platform, people, access, firms, calls>>

-----------------------------------------------------------------------------
(* Tenants and their commercial profiles. *)

\* Bug: An asset that is there keeps its metadata.
Announce_Kept(t, row, data) ==
    /\ profile' = [profile EXCEPT ![t] = data]
    /\ asset'   = [asset EXCEPT ![t][row.name] = IF @ = None THEN [row |-> row, data |-> data] ELSE @]
    /\ event'   = [event EXCEPT ![t] = [name |-> row.name, status |-> row.status, data |-> data]]

\* upsertTenantProfileAsset: an asset under the tenant's name, whose metadata have the
\* row and the profile (the row is what is public), and an event.
Announce(t, row, data) ==
    /\ profile' = [profile EXCEPT ![t] = data]
    /\ asset'   = [asset EXCEPT ![t][row.name] = [row |-> row, data |-> data]]
    /\ event'   = [event EXCEPT ![t] = [name |-> row.name, status |-> row.status, data |-> data]]

\* ensureTaxIdAvailable; the column is unique as well.
Free(t, data) == \A s \in Tenants \ {t} : profile[s] # data

\* By the platform, with a commercial profile ...
CreateTenant(c) ==
    /\ At(c, "idle") /\ calls < MaxCalls /\ calls' = calls + 1
    /\ \E t \in Tenants, n \in Names, data \in Taxes :
         LET row == [name |-> n, status |-> "DRAFT", live |-> FALSE] IN
           /\ tenant[t] = None /\ Free(t, data) /\ tenant' = [tenant EXCEPT ![t] = row]
           /\ Announce(t, row, data)
    /\ UNCHANGED <<platform, people, access, moved, call>>

\* ... and by the older route without one: nothing is shown of that tenant yet.
FoundTenant(c) ==
    /\ At(c, "idle") /\ calls < MaxCalls /\ calls' = calls + 1
    /\ \E t \in Tenants, n \in Names :
         /\ tenant[t] = None
         /\ tenant' = [tenant EXCEPT ![t] = [name |-> n, status |-> "ACTIVE", live |-> TRUE]]
    /\ UNCHANGED <<platform, people, access, profile, asset, event, moved, call>>

\* The row's changes that refresh neither asset nor event: those of its life cycle
\* (transitionTenant), of isActive alone, and of its name by the older route.
Transition(row) == {[row EXCEPT !.status = s, !.live = (s = "ACTIVE")] : s \in Standings \ {"DRAFT"}}
Toggle(row)     == {[row EXCEPT !.live = b] : b \in BOOLEAN}
Retitle(row)    == {[row EXCEPT !.name = n] : n \in Names}

\* A call that has renamed the tenant and not committed holds the lock of its row.
Locked(t) == \E d \in Calls : call[d].op = "rename" /\ call[d].u = t

\* Calls that have read the row without a lock have read an old one now.
Outdated(t) == [d \in Calls |-> IF call[d].op = "retax" /\ call[d].u = t
                                THEN [call[d] EXCEPT !.late = TRUE] ELSE call[d]]

MoveTenant(c) ==
    /\ At(c, "idle") /\ calls < MaxCalls /\ calls' = calls + 1
    /\ \E t \in Tenants :
         /\ tenant[t] # None /\ ~ Locked(t)
         /\ \E row \in Transition(tenant[t]) \cup Toggle(tenant[t]) \cup Retitle(tenant[t]) :
              tenant' = [tenant EXCEPT ![t] = row]
         /\ moved' = moved \cup {t} /\ call' = Outdated(t)
    /\ UNCHANGED <<platform, people, access, profile, asset, event>>

\* updateCommercialProfile: the transaction opens by updating the tenant, which
\* locks its row, or by reading it ...
UpdateTenant(c) == \E t \in Tenants, data \in Taxes :
    /\ tenant[t] # None /\ Free(t, data)
    /\ \/ Begin(c, "announce", "retax", [Idle EXCEPT !.u = t, !.in = data, !.new = tenant[t]])
       \/ /\ ~ Locked(t)
          /\ \E n \in Names : Begin(c, "announce", "rename",
                [Idle EXCEPT !.u = t, !.in = data, !.new = [tenant[t] EXCEPT !.name = n]])

\* ... and writes profile, asset and event under the lock of the profile's row.
AnnounceTenant(c) == LET t == call[c].u IN
    /\ At(c, "announce") /\ Free(t, call[c].in)
    /\ Announce(t, call[c].new, call[c].in)
    /\ IF call[c].op = "rename"
       THEN tenant' = [tenant EXCEPT ![t] = call[c].new] /\ call' = [Outdated(t) EXCEPT ![c] = Idle]
       ELSE UNCHANGED tenant /\ End(c)
    /\ moved' = IF call[c].late THEN moved \cup {t} ELSE moved \ {t}
    /\ UNCHANGED <<platform, people, access, calls>>

\* The process dies between two steps, or a query fails: a transaction leaves no trace.
Die(c) ==
    /\ call[c].pc # "idle" /\ End(c)
    /\ UNCHANGED <<platform, people, access, firms, calls>>

Platform(c) == FindCurrent(c) \/ FindPrevious(c) \/ Renew(c) \/ Leave(c) \/ Ensure(c) \/ Die(c)
Upserting(c) == \/ Upsert(c) \/ Register(c) \/ Dependent(c) \/ EmailTaken(c) \/ Look(c) \/ UpsertUser(c)
                \/ Consumed(c) \/ Compensate(c)
Editing(c) == \/ Profile(c) \/ Child(c) \/ Update(c) \/ CheckGuardian(c) \/ ReadUser(c) \/ CheckDocument(c)
              \/ UpdateProfile(c) \/ UpdateUser(c) \/ SetStatus(c) \/ AssignRole(c)
Entering(c) == \/ SetPassword(c) \/ Login(c) \/ FindLogin(c) \/ Compare(c) \/ OpenSession(c) \/ Present(c)
               \/ CheckSession(c) \/ Administer(c) \/ CheckActive(c) \/ CheckMember(c)
Firms(c) == CreateTenant(c) \/ FoundTenant(c) \/ MoveTenant(c) \/ UpdateTenant(c) \/ AnnounceTenant(c)

Next == \/ \E c \in Calls : Platform(c) \/ Upserting(c) \/ Editing(c) \/ Entering(c) \/ Firms(c)
        \/ EndSession

Spec == Init /\ [][Next]_vars

-----------------------------------------------------------------------------
(* Properties. *)

\* Rows have the types of the schema; a membership has no role DEPENDENT.
TypeOK ==
    /\ platform \in [current : 0 .. 2, previous : 0 .. 1]
    /\ \A u \in Users : (user[u] = None) = (member[u] = None)
    /\ \A u \in Made : /\ user[u] \in User
                       /\ member[u] \in Member
    /\ credential \subseteq Made /\ session \cup ended \subseteq (1 .. MaxCalls) \X Made
    /\ \A t \in Tenants : tenant[t] \in Row \cup {None} /\ (tenant[t] = None => profile[t] = None)

\* No two users have one document, except users whose transactions overlapped:
\* the document is checked in every path that writes one, stale copies included.
DocumentsApart ==
    \A u, v \in Made : u # v /\ user[u].doc # None /\ user[u].doc = user[v].doc => {u, v} \in mates

\* From a suspension until the next upsert, update or status change of the
\* user, no request sent meanwhile acts as that administrator, though edits of
\* the profile that began before may have made the user active again; and a
\* session that had ended lets nobody in.
SuspensionHolds ==
    \A c \in Calls : call[c].pc = "in" => /\ call[c].op = "admin" => ~ call[c].barred
                                          /\ ~ call[c].dead

\* What is shown of a user is what the row says: the metadata of the profile asset, if
\* there is one.  Of a tenant, the commercial profile in the last event, and in the asset
\* that the event names, is always the current one, and so is the row, which is the
\* public part, unless it was changed beside updateCommercialProfile since it was read
\* for what is shown (transitionTenant and the older routes refresh nothing).
ShownIsCurrent ==
    /\ \A u \in Made : u \notin apart => shown[u] \in {user[u], None}
    /\ \A t \in Tenants : event[t] # None =>
         LET shownNow == asset[t][event[t].name] IN
           /\ event[t].data = profile[t] /\ shownNow.data = profile[t]
           /\ shownNow.row.status = event[t].status
           /\ t \notin moved => shownNow.row = tenant[t]
=============================================================================
