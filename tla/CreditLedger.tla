----------------------------- MODULE CreditLedger ----------------------------
(***************************************************************************)
(* The credits of one tenant and of its users, and the registrations that  *)
(* spend them.                                                             *)
(*                                                                         *)
(*   CreditLedgerFacet        an append-only table of entries; a balance   *)
(*                            is the sum of the entries in its scope       *)
(*   RegistrationCreditFacet  the bonus of a new user; one credit for each *)
(*                            registration of an asset                     *)
(*   TenantUserFacet          a dependent is registered between a          *)
(*                            reservation and its consumption              *)
(*   ReceivablesProviderFacet webhooks of the payment provider             *)
(*                                                                         *)
(* The database runs at its default, READ COMMITTED: looking for the key,  *)
(* summing the balance and inserting are three steps, and the only thing   *)
(* that holds them together is the unique index on the key.                *)
(***************************************************************************)
EXTENDS Integers, FiniteSetsExt

CONSTANTS
  Users,       \* users of the tenant who own credits
  Tenant,      \* the scope of an entry without user
  Regs,        \* registrations, each with its idempotency key
  Owner,       \* who pays for a registration
  Dependents,  \* those of a dependent; the others are of assets
  Nameless,    \* those of a dependent who cannot be found again: no id, document, e-mail
  Requests,    \* requests of administrators: [id, user, delta]
  Events,      \* events of the payment provider: [id, order, confirmed]
  Packages,    \* orders of type CREDIT_PACKAGE
  Bonus,       \* INITIAL_REGISTRATION_BONUS_CREDITS (5)
  Quantity,    \* credits of a package
  Calls,       \* concurrent requests to the API
  MaxPeople,   \* bound: TenantUsers that a nameless registration makes
  MaxFaults    \* bound: failures

ASSUME ScopeAssumption   == Tenant \notin Users /\ Owner \in [Regs -> Users]
ASSUME RegsAssumption    ==
  Dependents \subseteq Regs /\ Nameless \subseteq Dependents /\ "none" \notin Regs
ASSUME AmountsAssumption == Bonus \in Nat /\ Quantity \in Nat
ASSUME BoundsAssumption  == MaxPeople \in Nat \ {0} /\ MaxFaults \in Nat
ASSUME RequestAssumption ==
  \A a \in Requests : a.user \in Users \cup {Tenant} /\ a.delta \in Int /\ a.delta # 0

VARIABLES
  ledger,  \* how many rows of CreditLedgerEntry there are of each entry
  received, \* ids of the rows of PaymentEvent
  order,   \* PurchaseOrder.status of the orders that events name
  person,  \* the rows of TenantUser that are ACTIVE, by registration
  pc,      \* where each call stands
  pend,    \* the entry it is about to write
  reg,     \* the registration it serves
  made,    \* the row of the dependent it holds
  faults,  \* failures so far
  stale,   \* history: calls whose check another call's entry has outdated
  late,    \* history: entries written by such calls
  broken   \* history: registrations whose handling was cut short

rows    == <<ledger, received, order, person>>
history == <<stale, late, broken>>
vars    == <<ledger, received, order, person, pc, pend, reg, made, faults, history>>

NoReg    == "none"
NoRow    == 0
People   == 1..MaxPeople
Scopes   == Users \cup {Tenant}
Statuses == {"PENDING_PAYMENT", "PAID", "OTHER"}
Orders   == {w.order : w \in Events}

\* Entries carry the idempotency key (kind, id) under which they are written.
Entry(kind, id, user, available, reserved) ==
  [kind |-> kind, id |-> id, user |-> user, available |-> available, reserved |-> reserved]

Reserve(r)   == Entry("RESERVED", r, Owner[r], -1, 1)
Consume(r)   == Entry("CONSUMED", r, Owner[r], 0, -1)
Release(r)   == Entry("RELEASED", r, Owner[r], 1, -1)
Welcome(u)   == Entry("GRANTED", u, u, Bonus, 0)
Purchase(w)  == Entry("PURCHASED", w.id, Tenant, Quantity, 0)
Adjust(a)    == Entry("ADJUSTED", a.id, a.user, a.delta, 0)
NoEntry      == Entry("none", NoReg, Tenant, 0, 0)

Entries == {Reserve(r) : r \in Regs} \cup {Consume(r) : r \in Regs}
             \cup {Release(r) : r \in Regs} \cup {Welcome(u) : u \in Users}
             \cup {Purchase(w) : w \in Events} \cup {Adjust(a) : a \in Requests}
-----------------------------------------------------------------------------
(* CreditLedgerFacet *)

Holds(kind, id) == \E e \in Entries : e.kind = kind /\ e.id = id /\ ledger[e] > 0
Known(e)        == Holds(e.kind, e.id)
Write(e)        == ledger' = [ledger EXCEPT ![e] = @ + 1]

\* getBalanceProjection: without a user, every entry of the tenant counts.
Own(u)           == {e \in Entries : e.user = u}
Scope(u)         == IF u = Tenant THEN Entries ELSE Own(u)
AvailableIn(set) == MapThenSumSet(LAMBDA e : ledger[e] * e.available, set)
ReservedIn(set)  == MapThenSumSet(LAMBDA e : ledger[e] * e.reserved, set)
Available(u)     == AvailableIn(Scope(u))
Reserved(u)      == ReservedIn(Scope(u))

\* The balance lets e be written.  Only what takes credits away is checked.
Covered_Unreserved(e) == e.available < 0 => Available(e.user) + e.available >= 0
Covered(e) == /\ e.available < 0 => Available(e.user) + e.available >= 0
              /\ e.reserved < 0 => Reserved(e.user) + e.reserved >= 0

\* Entry e takes from a balance that f was checked against.
Outdates(e, f) == /\ e \in Scope(f.user)
                  /\ (e.available < 0 /\ f.available < 0) \/ (e.reserved < 0 /\ f.reserved < 0)

\* A call writes its entry; or it goes without.
Post(c) ==
  /\ Write(pend[c])
  /\ late' = IF c \in stale THEN late \cup {pend[c]} ELSE late
  /\ stale' = {d \in Calls \ {c} :
                d \in stale \/ (pc[d] = "insert" /\ Outdates(pend[c], pend[d]))}
  /\ UNCHANGED <<received, order, person, broken>>
Forgo(c) == stale' = stale \ {c} /\ UNCHANGED <<rows, late>>
-----------------------------------------------------------------------------
(* How a call goes on: the code between two steps of the ledger *)

Goto(c, place, e) == pc' = [pc EXCEPT ![c] = place] /\ pend' = [pend EXCEPT ![c] = e]
Keep == UNCHANGED <<reg, made>>
Finish(c) == /\ Goto(c, "idle", NoEntry)
             /\ reg' = [reg EXCEPT ![c] = NoReg]
             /\ made' = [made EXCEPT ![c] = NoRow]
Released_Forgets(c) == Finish(c)
Released(c) == IF made[c] # NoRow THEN Goto(c, "archive", NoEntry) /\ Keep ELSE Finish(c)

\* The statements that write pend[c] returned.
Returned(c) ==
  CASE pend[c].kind = "RESERVED" /\ reg[c] \in Dependents -> Goto(c, "upsert", NoEntry) /\ Keep
    [] pend[c].kind = "RESERVED" /\ reg[c] \notin Dependents ->
         Goto(c, "find", Consume(reg[c])) /\ Keep
    [] pend[c].kind = "RELEASED" -> Released(c)
    [] OTHER -> Finish(c)

\* They threw.  A dependent's failed consumption is compensated: the reservation is
\* released, or not, and the dependent archived.
Failed_InTry(c) ==
  CASE pend[c].kind \in {"RESERVED", "CONSUMED"} /\ reg[c] \in Dependents ->
         Goto(c, "find", Release(reg[c])) /\ Keep
    [] pend[c].kind = "RELEASED" -> Released(c)
    [] OTHER -> Finish(c)
Failed(c) ==
  CASE pend[c].kind = "CONSUMED" /\ reg[c] \in Dependents ->
         Goto(c, "find", Release(reg[c])) /\ Keep
    [] pend[c].kind = "RELEASED" -> Released(c)
    [] OTHER -> Finish(c)

Same == UNCHANGED <<faults, history>>
-----------------------------------------------------------------------------
(* A registration *)

Register(c, r) ==
  /\ pc[c] = "idle"
  /\ r \in Nameless => Cardinality(person[r]) + Cardinality({d \in Calls : reg[d] = r}) < MaxPeople
  /\ Goto(c, "find", Reserve(r))
  /\ reg' = [reg EXCEPT ![c] = r]
  /\ UNCHANGED <<rows, made>> /\ Same
\* findIdempotentEntry: an entry under this key is the answer.
Find(c) ==
  /\ pc[c] = "find"
  /\ IF Known(pend[c]) THEN Returned(c) ELSE Goto(c, "check", pend[c]) /\ Keep
  /\ UNCHANGED rows /\ Same

\* getBalanceProjection, and the refusal of what it does not cover.
Check(c) ==
  /\ pc[c] = "check"
  /\ IF Covered(pend[c]) THEN Goto(c, "insert", pend[c]) /\ Keep ELSE Failed(c)
  /\ UNCHANGED rows /\ Same

Insert_NoIndex(c) ==
  /\ pc[c] = "insert"
  /\ Returned(c) /\ Post(c)
  /\ UNCHANGED faults
\* createLedgerEntry: the unique index refuses a key that is taken.
Insert(c) ==
  /\ pc[c] = "insert"
  /\ IF Known(pend[c]) THEN Failed(c) /\ Forgo(c) /\ UNCHANGED broken
                       ELSE Returned(c) /\ Post(c)
  /\ UNCHANGED faults

\* findTenantUser: the row that a registration finds, or the new one that it makes.
Unused(r)  == People \ person[r]
RowsFor(r) == IF r \in Nameless THEN {i \in Unused(r) : \A j \in Unused(r) : i <= j} ELSE {1}

\* upsertB2CUser: whatever the dependent was, it is ACTIVE now.
Upsert(c) ==
  /\ pc[c] = "upsert"
  /\ \E i \in RowsFor(reg[c]) :
       /\ person' = [person EXCEPT ![reg[c]] = @ \cup {i}]
       /\ made' = [made EXCEPT ![c] = i]
  /\ Goto(c, "find", Consume(reg[c]))
  /\ UNCHANGED <<ledger, received, order, reg>> /\ Same

Archive(c) ==
  /\ pc[c] = "archive"
  /\ person' = [person EXCEPT ![reg[c]] = @ \ {made[c]}]
  /\ Finish(c)
  /\ UNCHANGED <<ledger, received, order>> /\ Same
-----------------------------------------------------------------------------
(* Other entries *)

\* grantCredits, adjustCredits, revokeCredits.  What takes credits away is checked
\* before the transaction that looks for the key and writes.
Administer(c, a) ==
  /\ pc[c] = "idle"
  /\ Goto(c, IF a.delta < 0 THEN "check" ELSE "insert", Adjust(a))
  /\ UNCHANGED <<rows, reg, made>> /\ Same

\* grantInitialRegistrationBonus
GrantBonus(c, u) ==
  /\ pc[c] = "idle"
  /\ Goto(c, "insert", Welcome(u))
  /\ UNCHANGED <<rows, reg, made>> /\ Same

\* createCreditPurchaseIntent wrote the order; recordPaymentWebhook sets its status
\* and credits a package in one transaction, unless it knows the event.
Paid(w) == w.confirmed /\ w.order \in Packages
ReceivePayment(w) ==
  /\ w.id \notin received
  /\ received' = received \cup {w.id}
  /\ order' = [order EXCEPT ![w.order] = IF w.confirmed THEN "PAID" ELSE "OTHER"]
  /\ IF Paid(w) THEN Write(Purchase(w)) ELSE UNCHANGED ledger
  /\ UNCHANGED <<person, pc, pend, reg, made>> /\ Same
-----------------------------------------------------------------------------
(* Failures *)

Fault == faults < MaxFaults /\ faults' = faults + 1

\* A statement fails before its effect, or after it with the answer lost.
StatementFails(c) ==
  /\ pc[c] \in {"find", "check", "insert"}
  /\ \/ Forgo(c) /\ UNCHANGED broken
     \/ pc[c] = "insert" /\ ~ Known(pend[c]) /\ Post(c)
  /\ Failed(c) /\ Fault

\* upsertB2CUser fails: the handler has no dependent to archive, even if the row
\* was written.
UpsertFails(c) ==
  /\ pc[c] = "upsert"
  /\ Goto(c, "find", Release(reg[c])) /\ Keep
  /\ \/ UNCHANGED <<rows, broken>>
     \/ /\ \E i \in RowsFor(reg[c]) : person' = [person EXCEPT ![reg[c]] = @ \cup {i}]
        /\ UNCHANGED <<ledger, received, order>>
        /\ broken' = broken \cup {reg[c]}
  /\ Fault /\ UNCHANGED <<stale, late>>

\* The server stops; or the failure to archive is swallowed.
Die(c) ==
  /\ pc[c] # "idle"
  /\ broken' = broken \cup ({reg[c]} \cap Regs)
  /\ Finish(c) /\ Fault /\ Forgo(c)
-----------------------------------------------------------------------------
Init ==
  /\ ledger = [e \in Entries |-> 0]
  /\ received = {}
  /\ order = [o \in Orders |-> "PENDING_PAYMENT"]
  /\ person = [r \in Dependents |-> {}]
  /\ pc = [c \in Calls |-> "idle"]
  /\ pend = [c \in Calls |-> NoEntry]
  /\ reg = [c \in Calls |-> NoReg]
  /\ made = [c \in Calls |-> NoRow]
  /\ faults = 0
  /\ stale = {} /\ late = {} /\ broken = {}

Step(c) == Find(c) \/ Check(c) \/ Insert(c) \/ Upsert(c) \/ Archive(c)
Start(c) == \/ \E r \in Regs : Register(c, r)
            \/ \E a \in Requests : Administer(c, a)
            \/ \E u \in Users : GrantBonus(c, u)
Fails(c) == StatementFails(c) \/ UpsertFails(c) \/ Die(c)

Next == \/ \E c \in Calls : Start(c) \/ Step(c) \/ Fails(c)
        \/ \E w \in Events : ReceivePayment(w)

Spec == Init /\ [][Next]_vars
-----------------------------------------------------------------------------
\* TenantUser.status, the ledger and what each call carries are well typed: a call
\* that writes for a registration carries that registration's entry.
TypeOK ==
  /\ ledger \in [Entries -> Nat]
  /\ received \subseteq {w.id : w \in Events}
  /\ order \in [Orders -> Statuses]
  /\ person \in [Dependents -> SUBSET People]
  /\ pc \in [Calls -> {"idle", "find", "check", "insert", "upsert", "archive"}]
  /\ pend \in [Calls -> Entries \cup {NoEntry}]
  /\ reg \in [Calls -> Regs \cup {NoReg}]
  /\ made \in [Calls -> People \cup {NoRow}]
  /\ faults \in 0..MaxFaults
  /\ stale \subseteq Calls /\ late \subseteq Entries /\ broken \subseteq Regs
  /\ \A c \in Calls :
       /\ reg[c] # NoReg /\ pc[c] \in {"find", "check", "insert"} =>
            pend[c] \in {Reserve(reg[c]), Consume(reg[c]), Release(reg[c])}
       /\ pc[c] \in {"upsert", "archive"} => reg[c] \in Dependents
       /\ made[c] # NoRow => reg[c] \in Dependents

\* Whatever is retried or redelivered, at most one entry is ever written under an
\* idempotency key: no registration is charged twice, no event credited twice.
OncePerKey ==
  /\ \A e \in Entries : ledger[e] <= 1
  /\ \A e, f \in Entries :
       ledger[e] > 0 /\ ledger[f] > 0 /\ e.kind = f.kind /\ e.id = f.id => e = f

\* A registration's credit is spent or given back only if it was reserved.
SettledWasReserved ==
  \A r \in Regs : Holds("CONSUMED", r) \/ Holds("RELEASED", r) => Holds("RESERVED", r)

\* A dependent is ACTIVE only if a credit was spent on the registration, or a call
\* still holds its row and will spend one or archive it, or the registration was cut
\* short.  (A nameless one that is repeated after it was paid makes another dependent.)
ActiveIsPaid ==
  \A r \in Dependents : \A i \in person[r] :
    \/ Holds("CONSUMED", r)
    \/ \E c \in Calls : reg[c] = r /\ made[c] = i
    \/ r \in broken

\* A user is overdrawn, or has more spent or given back than was reserved, only if a
\* call wrote its entry after another one had taken from the balance it had checked.
Solvent ==
  \A u \in Users :
    /\ Available(u) < 0 => \E e \in late : e.user = u /\ e.available < 0
    /\ Reserved(u) < 0  => \E e \in late : e.user = u /\ e.reserved < 0

Size(n) == IF n < 0 THEN -n ELSE n

Account == INSTANCE CreditAccount WITH
  Accounts  <- Users,
  Amounts   <- {Bonus} \cup {Size(a.delta) : a \in Requests},
  available <- [u \in Users |-> AvailableIn(Own(u))],
  reserved  <- [u \in Users |-> ReservedIn(Own(u))]

\* The ledger behaves like accounts in which credits are granted, reserved, spent and
\* given back as far as the balances allow, but for what an outdated call writes.  (A step
\* that writes no entry changes no account.)
AccountSpec ==
  /\ Account!Init
  /\ [][ledger' # ledger => Account!Next \/ (late' # late /\ Account!Unchecked)]_(Account!vars)
=============================================================================
