------------------------------ MODULE Backfill ------------------------------
(***************************************************************************)
(* TenantQuantumBackfillFacet: an operator's script copies the users of    *)
(* the legacy dashboard, with their credits, QTAGs and assets, into the    *)
(* platform's tenant.  It may be repeated, resumed under the id of an      *)
(* earlier run with another list or mode, run twice at once, and killed.   *)
(*                                                                         *)
(* A call of run() is a process, and each statement outside a              *)
(* $transaction is a step.  The transaction of one user is two: what it    *)
(* reads, then its commit, at which unique keys are enforced.              *)
(***************************************************************************)
EXTENDS Naturals, Sequences, FiniteSets

CONSTANTS Users,       \* ids of the dashboard's users, numbers
          Source,      \* Source[u]: their e-mail and CPF
          Owned,       \* owner rows before the first run: an asset and an ownerRef
          Lists,       \* the lists an operator passes, sorted as run() sorts them
          BatchSize,
          TenantUsers, \* ids of TenantUser rows
          Runs,        \* ids of MigrationRun rows
          Calls,       \* calls of run() under way at once
          None,
          MaxCalls,    \* bound: calls ever made
          MaxFaults    \* bound: failed statements, lost answers and kills

VARIABLES
    people,   \* TenantUser rows: legacyDashboardUserId, email, document
    owners,   \* live Owner rows
    credits,  \* per dashboard user: tenant users credited under its backfill key
    qtags,    \* the same for QTagLedgerEntry
    runs,     \* MigrationRun rows
    points,   \* MigrationCheckpoint rows of each run, by batchKey
    records,  \* MigrationRecord rows of each run, by sourceId
    call,     \* per call: where it is, what it has read
    calls, faults,
    shared    \* history: runs that two calls worked on at once

vars   == <<people, owners, credits, qtags, runs, points, records, call, calls, faults, shared>>
domain == <<people, owners, credits, qtags>>
report == <<runs, points, records>>
rest   == <<calls, faults, shared>>

NoUser == [legacy |-> None, email |-> None, doc |-> None]
NoRun  == [status |-> None, by |-> None]
Idle   == [pc |-> "idle", run |-> None, mode |-> None, list |-> <<>>, start |-> 1, i |-> 1,
           target |-> None, had |-> {}, errors |-> FALSE]
Made   == {t \in TenantUsers : people[t] # NoUser}
Row(u) == [legacy |-> u, email |-> Source[u].email, doc |-> Source[u].doc]
Listed(list) == {list[i] : i \in DOMAIN list}
Keys   == {k \in (1 .. Cardinality(Users)) \X (1 .. Cardinality(Users)) : k[1] <= k[2]}

Aliases(u) == {u, Source[u].email, Source[u].doc} \ {None}

\* What is assumed of the constants: the ids of tenant users are no ids, e-mails
\* or documents of the dashboard; a list is of its users, as many as there are or
\* fewer.
Migratable ==
    /\ \A u \in Users : Aliases(u) \cap TenantUsers = {}
    /\ \A l \in Lists : l \in Seq(Users) /\ Len(l) <= Cardinality(Users)
    /\ IsFiniteSet(Users) /\ BatchSize \in Nat \ {0}

Init ==
    /\ people = [t \in TenantUsers |-> NoUser]
    /\ owners = Owned
    /\ credits = [u \in Users |-> <<>>] /\ qtags = credits
    /\ runs = [r \in Runs |-> NoRun]
    /\ points = [r \in Runs |-> [k \in Keys |-> None]]
    /\ records = [r \in Runs |-> [u \in Users |-> None]]
    /\ call = [c \in Calls |-> Idle]
    /\ calls = 0 /\ faults = 0 /\ shared = {}

At(c, pc)   == call[c].pc = pc
Goto(c, pc) == call' = [call EXCEPT ![c].pc = pc]
User(c)     == call[c].list[call[c].i]
BatchEnd(c) == LET e == call[c].start + BatchSize - 1 IN
                 IF e < Len(call[c].list) THEN e ELSE Len(call[c].list)
Key(c)      == <<call[c].start, BatchEnd(c)>>

-----------------------------------------------------------------------------
(* The run and its batches. *)

\* A resumed run keeps its row, whatever its status and mode; nothing asks
\* whether another call is still working on it.
Start(c) ==
    /\ At(c, "idle") /\ calls < MaxCalls
    /\ calls' = calls + 1
    /\ \E list \in Lists, mode \in {"DRY_RUN", "EXECUTE"}, r \in Runs :
         /\ \/ runs[r] # NoRun
            \/ runs[r] = NoRun /\ \A q \in Runs : runs[q] = NoRun => r <= q
         /\ runs' = [runs EXCEPT ![r] = [status |-> "RUNNING", by |-> c]]
         /\ shared' = IF \E d \in Calls : call[d].run = r THEN shared \cup {r} ELSE shared \ {r}
         /\ call' = [call EXCEPT ![c] = [Idle EXCEPT !.pc = "batch", !.run = r, !.mode = mode,
                                                     !.list = list]]
    /\ UNCHANGED <<domain, points, records, faults>>

OpenBatch(c) ==
    /\ At(c, "batch") /\ call[c].start <= Len(call[c].list)
    /\ points' = [points EXCEPT ![call[c].run][Key(c)] = "RUNNING"]
    /\ Goto(c, "user")
    /\ UNCHANGED <<domain, runs, records, rest>>

CloseBatch(c) ==
    /\ At(c, "close")
    /\ points' = [points EXCEPT ![call[c].run][Key(c)] = "COMPLETED"]
    /\ call' = [call EXCEPT ![c].pc = "batch", ![c].start = BatchEnd(c) + 1]
    /\ UNCHANGED <<domain, runs, records, rest>>

SetRun(c, status) ==
    /\ runs' = [runs EXCEPT ![call[c].run] = [status |-> status, by |-> c]]
    /\ call' = [call EXCEPT ![c].pc = "done"]
    /\ UNCHANGED <<domain, points, records, rest>>

\* Mutation: the errors of single users do not fail the run.
Finish_Complete(c) ==
    At(c, "batch") /\ call[c].start > Len(call[c].list) /\ SetRun(c, "COMPLETED")

Finish(c) ==
    /\ At(c, "batch") /\ call[c].start > Len(call[c].list)
    /\ SetRun(c, IF call[c].errors THEN "FAILED" ELSE "COMPLETED")

\* The catch of run().
Abandon(c) == At(c, "catch") /\ SetRun(c, "FAILED")

Return(c) ==
    /\ At(c, "done")
    /\ call' = [call EXCEPT ![c] = Idle]
    /\ UNCHANGED <<domain, report, rest>>

-----------------------------------------------------------------------------
(* One user. *)

\* writeRecord: the row of the run and the user is made or overwritten.
Recorded(c, status) ==
    [records EXCEPT ![call[c].run][User(c)] = status]

Proceed(c) ==
    call' = [call EXCEPT ![c].pc = IF call[c].i = BatchEnd(c) THEN "close" ELSE "user",
                         ![c].i = @ + 1, ![c].target = None, ![c].had = {},
                         ![c].errors = @ \/ call[c].pc = "error"]

Duplicate(list, u) ==
    Source[u].doc # None /\ \E v \in Listed(list) \ {u} : Source[v].doc = Source[u].doc
Unsafe(u)      == Source[u].email = None /\ Source[u].doc = None
Conflicting(list, u) == Duplicate(list, u) \/ Unsafe(u)

SkipUser(c) ==
    /\ At(c, "user")
    /\ \/ /\ Conflicting(call[c].list, User(c))
          /\ records' = Recorded(c, "CONFLICT")
       \/ /\ ~Conflicting(call[c].list, User(c)) /\ call[c].mode = "DRY_RUN"
          /\ records' = Recorded(c, "SKIPPED")
    /\ Proceed(c)
    /\ UNCHANGED <<domain, runs, points, rest>>

\* upsertB2CUser: findTenantUser by dashboard id, then document, then e-mail.
Same(u, field) == {t \in Made : Row(u)[field] # None /\ people[t][field] = Row(u)[field]}
Found(u) == IF Same(u, "legacy") # {} THEN Same(u, "legacy")
            ELSE IF Same(u, "doc") # {} THEN Same(u, "doc") ELSE Same(u, "email")

FindUser(c) ==
    /\ At(c, "user") /\ ~Conflicting(call[c].list, User(c)) /\ call[c].mode = "EXECUTE"
    /\ \E t \in (IF Found(User(c)) = {} THEN {None} ELSE Found(User(c))) :
         IF \E s \in Same(User(c), "doc") : s # t      \* ensureDocumentAvailable
         THEN Goto(c, "error")
         ELSE call' = [call EXCEPT ![c].pc = "upsert", ![c].target = t]
    /\ UNCHANGED <<domain, report, rest>>

\* legacyDashboardUserId is unique.
UpsertUser(c) ==
    /\ At(c, "upsert")
    /\ \E t \in (IF call[c].target = None THEN TenantUsers \ Made ELSE {call[c].target}) :
         IF \E s \in Same(User(c), "legacy") : s # t
         THEN Goto(c, "error") /\ UNCHANGED people
         ELSE /\ people' = [people EXCEPT ![t] = Row(User(c))]
              /\ call' = [call EXCEPT ![c].pc = "read", ![c].target = t]
    /\ UNCHANGED <<owners, credits, qtags, report, rest>>

\* The keys that the transaction finds in use.
ReadKeys(c) ==
    /\ At(c, "read")
    /\ call' = [call EXCEPT ![c].pc = "commit",
                 ![c].had = (IF credits[User(c)] # <<>> THEN {"credits"} ELSE {}) \cup
                            (IF qtags[User(c)] # <<>> THEN {"qtags"} ELSE {})]
    /\ UNCHANGED <<domain, report, rest>>

Moved(u)     == {o \in owners : o.ref \in Aliases(u)}
Renamed(u, t) == {[asset |-> o.asset, ref |-> t] : o \in Moved(u)}
\* An asset has one owner row per ownerRef: two rows of an asset under two
\* aliases of one user, or one beside a row the user has already, do not merge.
OwnersClash(u, t) ==
    \/ \E o, p \in Moved(u) : o # p /\ o.asset = p.asset
    \/ Renamed(u, t) \cap owners # {}
Posted(ledger, key, had, u, t) == IF key \in had THEN ledger ELSE [ledger EXCEPT ![u] = Append(@, t)]

Apply(c) ==
    LET u == User(c)  t == call[c].target IN
      /\ owners' = (owners \ Moved(u)) \cup Renamed(u, t)
      /\ credits' = Posted(credits, "credits", call[c].had, u, t)
      /\ qtags' = Posted(qtags, "qtags", call[c].had, u, t)
      /\ records' = Recorded(c, "MIGRATED")
      /\ UNCHANGED <<people, runs, points>>

\* The unique keys: both ledgers' idempotencyKey, and the owners'.
Refused(c) ==
    \/ OwnersClash(User(c), call[c].target)
    \/ credits[User(c)] # <<>> /\ "credits" \notin call[c].had
    \/ qtags[User(c)] # <<>> /\ "qtags" \notin call[c].had

\* Mutation: the owners are given up when they clash, the balances are not.
Migrate_Anyway(c) ==
    /\ At(c, "commit")
    /\ IF OwnersClash(User(c), call[c].target)
       THEN /\ credits' = Posted(credits, "credits", call[c].had, User(c), call[c].target)
            /\ qtags' = Posted(qtags, "qtags", call[c].had, User(c), call[c].target)
            /\ records' = Recorded(c, "MIGRATED") /\ UNCHANGED <<people, owners, runs, points>>
       ELSE Apply(c)
    /\ Proceed(c) /\ UNCHANGED rest

\* Ownership, credits, QTAGs and the record: one transaction.
Migrate(c) ==
    /\ At(c, "commit")
    /\ IF Refused(c)
       THEN Goto(c, "error") /\ UNCHANGED <<domain, report>>
       ELSE Apply(c) /\ Proceed(c)
    /\ UNCHANGED rest

RecordError(c) ==
    /\ At(c, "error")
    /\ records' = Recorded(c, "ERROR")
    /\ Proceed(c)
    /\ UNCHANGED <<domain, runs, points, rest>>

-----------------------------------------------------------------------------
(* Failures. *)

\* A statement fails, or its answer is lost after it took effect.  The catch
\* of processUser takes what goes wrong once the user is looked up, the catch
\* of run() the rest.
Handler(pc) == CASE pc \in {"upsert", "read", "commit"} -> "error"
                 [] pc \in {"batch", "user", "error", "close"} -> "catch"
                 [] pc = "catch" -> "done"

Fail(c) ==
    /\ ~At(c, "idle") /\ ~At(c, "done") /\ faults < MaxFaults
    /\ faults' = faults + 1
    /\ \/ UNCHANGED <<domain, report>>
       \/ At(c, "commit") /\ ~Refused(c) /\ Apply(c)
    /\ Goto(c, Handler(call[c].pc))
    /\ UNCHANGED <<calls, shared>>

\* The script is killed.
Kill(c) ==
    /\ ~At(c, "idle") /\ faults < MaxFaults
    /\ faults' = faults + 1
    /\ call' = [call EXCEPT ![c] = Idle]
    /\ UNCHANGED <<domain, report, calls, shared>>

Next == \E c \in Calls :
    \/ Start(c) \/ OpenBatch(c) \/ CloseBatch(c) \/ Finish(c) \/ Abandon(c) \/ Return(c)
    \/ SkipUser(c) \/ FindUser(c) \/ UpsertUser(c) \/ ReadKeys(c) \/ Migrate(c) \/ RecordError(c)
    \/ Fail(c) \/ Kill(c)

Spec == Init /\ [][Next]_vars

-----------------------------------------------------------------------------
(* Properties. *)

\* However often, and however much at once, the script is run: a dashboard
\* user's credits and QTAGs reach the ledgers together, once, under the same
\* tenant user, and then no asset of the tenant is left under an old name.
MovedTogether ==
    \A u \in Users :
      /\ credits[u] = qtags[u] /\ Len(credits[u]) <= 1
      /\ credits[u] # <<>> => Moved(u) = {}

\* A run that one call at a time worked on and that an --execute completed:
\* every user of its list who is not in conflict has a MIGRATED record and is
\* in the ledgers, and every checkpoint of the list is completed.
CompletedIsMigrated ==
    \A c \in Calls : LET r == call[c].run IN
      (At(c, "done") /\ runs[r] = [status |-> "COMPLETED", by |-> c] /\ r \notin shared) =>
        /\ call[c].mode = "EXECUTE" =>
             \A u \in Listed(call[c].list) :
               ~Conflicting(call[c].list, u) => records[r][u] = "MIGRATED" /\ credits[u] # <<>>
        /\ \A i \in DOMAIN call[c].list : (i - 1) % BatchSize = 0 =>
             \E j \in DOMAIN call[c].list : i <= j /\ j < i + BatchSize /\ points[r][<<i, j>>] = "COMPLETED"
=============================================================================
