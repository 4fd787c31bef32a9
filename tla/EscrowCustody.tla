---------------------------- MODULE EscrowCustody ----------------------------
(***************************************************************************)
(* Escrow of an asset, in three places that no transaction spans: the      *)
(* asset's row, the Escrow row, and the escrow on a blockchain.            *)
(*                                                                         *)
(*   TikinEscrowFacet      lock, release, cancel (calls of the API)        *)
(*   EscrowReleaseWorker   processReleases, which calls EscrowFacet.release *)
(*   LifecycleFacet, TransferRegistryFacet, BillingFacet                   *)
(*                         move an asset between its other states          *)
(*   AssetRegistryFacet    createAsset and updateAsset, which write the    *)
(*                         status that the request's body names            *)
(*                                                                         *)
(* A handler is cut at each await: it reads and checks a row, calls the    *)
(* chain, then writes each row without looking at it again.  A failing     *)
(* statement ends an API call where it stands.                             *)
(*                                                                         *)
(* An escrow is numbered by its unlock time.                               *)
(***************************************************************************)
EXTENDS Integers, FiniteSets

CONSTANTS
  Assets,     \* assets of one tenant
  Escrows,    \* escrow ids; escrow e unlocks when the clock reaches e
  Algorand,   \* those on ALGORAND, whose adapter cannot release or cancel
  Solana,     \* those on SOLANA, whose adapter reports failed transactions as done
  Clients,    \* concurrent API calls
  Workers,    \* concurrent runs of EscrowReleaseWorker.processReleases
  BatchSize,  \* BATCH_SIZE (10)
  ClientOps,  \* the operations that clients call
  Foreign,    \* whether a release or cancel may name an asset not its own
  Initial,    \* the statuses that assets are created with
  Edits,      \* the statuses that administrators write with asset.update
  MaxActive,  \* bound: handlers in progress at once
  FaultKinds, \* the failures considered
  MaxFaults   \* bound: their number

ASSUME EscrowsAssumption ==
  /\ Escrows \subseteq Nat \ {0} /\ Algorand \subseteq Escrows /\ Solana \subseteq Escrows
ASSUME AgentsAssumption  == Clients \cap Workers = {} /\ Foreign \in BOOLEAN
ASSUME BoundsAssumption  == BatchSize \in Nat /\ MaxActive \in Nat /\ MaxFaults \in Nat
ASSUME OpsAssumption     ==
  /\ ClientOps \subseteq {"lock", "release", "cancel", "transition", "transfer", "pay"}
  /\ FaultKinds \subseteq {"error", "lost", "unseen", "throw", "die"}

VARIABLES
  asset,   \* Asset.status
  rec,     \* the Escrow row: [status, asset, mode]
  chain,   \* the escrow on the chain: none, locked, released or cancelled
  now,     \* the clock
  pc,      \* where each handler stands
  job,     \* what it does: [op, id, asset, to]
  todo,    \* escrows that a run of the worker has still to process
  faults,  \* failures so far
  broken,  \* history: escrows whose handling was cut short
  unseen,  \* history: escrows of which a transaction failed and was taken for done
  byHand   \* history: assets whose status LOCKED_IN_ESCROW somebody just wrote

tables == <<asset, rec, chain>>
history == <<unseen, byHand>>
vars == <<asset, rec, chain, now, pc, job, todo, faults, broken, history>>

Agents   == Clients \cup Workers
Statuses == {"DRAFT", "ACTIVE", "SUSPENDED", "ARCHIVED", "BURNED", "AWAITING_PAYMENT",
             "LOCKED_IN_ESCROW", "ALERT", "INACTIVE"}
Closed   == {"RELEASED", "CANCELLED"}

ASSUME EditsAssumption == Initial \subseteq Statuses /\ Edits \subseteq Statuses

NoId     == 0
NoRec    == [status |-> "ABSENT", asset |-> NoId, mode |-> "AUTO"]
NoJob    == [op |-> "none", id |-> NoId, asset |-> NoId, to |-> "ACTIVE"]

Active == Cardinality({c \in Agents : pc[c] # "idle"})
Due(e) == now >= e

Fault(kind) == kind \in FaultKinds /\ faults < MaxFaults /\ faults' = faults + 1
-----------------------------------------------------------------------------
(* Asset statuses *)

\* TRANSITION_RULES of LifecycleFacet: who is not in it has no way out.
TransitionRules ==
  {<<"DRAFT", "ACTIVE">>, <<"SUSPENDED", "ACTIVE">>}
    \cup ({"ACTIVE"} \X {"SUSPENDED", "ARCHIVED", "BURNED"})

\* A call that has read and checked its row sets to work.
Begin(c, op, e, a, s, first) ==
  /\ op \in ClientOps /\ c \in Clients
  /\ pc[c] = "idle" /\ Active < MaxActive
  /\ pc' = [pc EXCEPT ![c] = first]
  /\ job' = [job EXCEPT ![c] = [op |-> op, id |-> e, asset |-> a, to |-> s]]
  /\ UNCHANGED <<tables, now, todo, faults, broken, history>>

Transition(c, a, s) ==
  /\ <<asset[a], s>> \in TransitionRules
  /\ Begin(c, "transition", NoId, a, s, "asset")

InitiateTransfer(c, a) ==
  /\ asset[a] = "ACTIVE"
  /\ Begin(c, "transfer", NoId, a, "AWAITING_PAYMENT", "asset")

\* BillingFacet.processPaymentWebhook, for an approved payment.
ProcessPayment(c, a) ==
  /\ asset[a] = "AWAITING_PAYMENT"
  /\ Begin(c, "pay", NoId, a, "ACTIVE", "asset")

\* AssetRegistryFacet.updateAsset: one conditional update with what the body says.
UpdateAsset(a, s) ==
  /\ s \in Edits /\ asset[a] # "BURNED"
  /\ asset' = [asset EXCEPT ![a] = s]
  /\ byHand' = IF s = "LOCKED_IN_ESCROW" THEN byHand \cup {a} ELSE byHand \ {a}
  /\ UNCHANGED <<rec, chain, now, pc, job, todo, faults, broken, unseen>>
-----------------------------------------------------------------------------
(* The checks that escrow calls begin with *)

\* Mutation: the status of the asset is not looked at.
Lock_AnyState(c, e, a) ==
  /\ e > now
  /\ Begin(c, "lock", e, a, "LOCKED_IN_ESCROW", "chain")

\* lock looks at the asset only; the chain is what refuses a used id or a past time.
Lock(c, e, a) ==
  /\ asset[a] = "ACTIVE" /\ e > now
  /\ Begin(c, "lock", e, a, "LOCKED_IN_ESCROW", "chain")

Nameable(e) == IF Foreign THEN Assets ELSE {rec[e].asset}
Open(e) == rec[e].status \notin Closed \cup {"ABSENT"}

Release(c, e, a) ==
  /\ Open(e) /\ a \in Nameable(e)
  /\ rec[e].mode = "MANUAL" \/ Due(e)
  /\ Begin(c, "release", e, a, "ACTIVE", "chain")

Cancel(c, e, a) ==
  /\ Open(e) /\ a \in Nameable(e)
  /\ Begin(c, "cancel", e, a, "ACTIVE", "chain")
-----------------------------------------------------------------------------
(* The steps that follow *)

Goto(c, l) == pc' = [pc EXCEPT ![c] = l] /\ UNCHANGED job

\* The handler is through: a call returns, a run of the worker takes its next escrow.
Done(c) ==
  /\ pc' = [pc EXCEPT ![c] = IF c \in Workers /\ todo[c] # {} THEN "next" ELSE "idle"]
  /\ job' = [job EXCEPT ![c] = NoJob]

\* An exception: the worker catches it and goes on to revert.
Thrown(c) == IF c \in Workers THEN Goto(c, "revert") ELSE Done(c)

\* The contract: an id is used once, and a locked escrow is closed once.
Accepts(op, e) ==
  CASE op = "lock"    -> chain[e] = "none" \/ e \in Algorand
    [] op = "release" -> chain[e] = "locked" /\ Due(e) /\ e \notin Algorand
    [] op = "cancel"  -> chain[e] = "locked" /\ e \notin Algorand
    [] OTHER          -> FALSE

Becomes(op) ==
  CASE op = "lock" -> "locked" [] op = "release" -> "released" [] OTHER -> "cancelled"

\* adapter.executeGenericTransition.  "lost": it takes effect on the chain, yet throws.
\* "unseen": SolanaAdapter does not look at the error that confirmTransaction returns,
\* so that a transaction which was sent and failed is reported as done.
Chain(c, outcome) ==
  LET op == job[c].op
      e  == job[c].id
  IN  /\ pc[c] = "chain"
      /\ outcome \in (IF Accepts(op, e) THEN {"ok", "lost", "error"} ELSE {"refused"})
                      \cup (IF e \in Solana THEN {"unseen"} ELSE {})
      /\ chain' = IF outcome \in {"ok", "lost"} THEN [chain EXCEPT ![e] = Becomes(op)] ELSE chain
      /\ IF outcome \in {"ok", "refused"} THEN UNCHANGED faults ELSE Fault(outcome)
      /\ IF outcome \in {"ok", "unseen"} THEN Goto(c, "record") ELSE Thrown(c)
      /\ broken' = IF outcome = "lost" THEN broken \cup {e} ELSE broken
      /\ unseen' = IF outcome = "unseen" THEN unseen \cup {e} ELSE unseen
      /\ UNCHANGED <<asset, rec, now, todo, byHand>>

\* Mutation: the row does not say which asset it is for.
CreateRow_Unlinked(c, mode) ==
  LET e == job[c].id IN
  /\ pc[c] = "record" /\ job[c].op = "lock" /\ rec[e].status = "ABSENT"
  /\ rec' = [rec EXCEPT ![e] = [status |-> "ACTIVE", asset |-> NoId, mode |-> mode]]
  /\ Goto(c, "asset")
  /\ UNCHANGED <<asset, chain, now, todo, faults, broken, history>>

\* escrow.create: escrowId is unique.
CreateRow(c, mode) ==
  LET e == job[c].id IN
  /\ pc[c] = "record" /\ job[c].op = "lock"
  /\ IF rec[e].status = "ABSENT"
       THEN /\ rec' = [rec EXCEPT ![e] = [status |-> "ACTIVE", asset |-> job[c].asset, mode |-> mode]]
            /\ Goto(c, "asset")
       ELSE UNCHANGED rec /\ Thrown(c)
  /\ UNCHANGED <<asset, chain, now, todo, faults, broken, history>>

SetStatus(e, s) ==
  rec' = [rec EXCEPT ![e] = [status |-> s, asset |-> rec[e].asset, mode |-> rec[e].mode]]

\* Mutation: whatever closes an escrow calls it released.
CloseRow_Released(c) ==
  /\ pc[c] = "record" /\ job[c].op \in {"release", "cancel"}
  /\ SetStatus(job[c].id, "RELEASED")
  /\ Goto(c, "asset")
  /\ UNCHANGED <<asset, chain, now, todo, faults, broken, history>>

\* escrow.update by primary key.
CloseRow(c) ==
  /\ pc[c] = "record" /\ job[c].op \in {"release", "cancel"}
  /\ SetStatus(job[c].id, IF job[c].op = "release" THEN "RELEASED" ELSE "CANCELLED")
  /\ Goto(c, "asset")
  /\ UNCHANGED <<asset, chain, now, todo, faults, broken, history>>

\* asset.update by primary key, whatever its status is by now.
WriteAsset(c) ==
  /\ pc[c] = "asset"
  /\ asset' = [asset EXCEPT ![job[c].asset] = job[c].to]
  /\ byHand' = byHand \ {job[c].asset}
  /\ IF job[c].op \in {"lock", "release", "cancel"} THEN Goto(c, "event") ELSE Done(c)
  /\ UNCHANGED <<rec, chain, now, todo, faults, broken, unseen>>

\* eventLog.create, the last statement.
WriteEvent(c) ==
  /\ pc[c] = "event"
  /\ Done(c)
  /\ UNCHANGED <<tables, now, todo, faults, broken, history>>

\* A database statement after the chain's answer fails.
Throw(c) ==
  /\ pc[c] \in {"record", "asset", "event"}
  /\ Fault("throw")
  /\ Thrown(c)
  /\ broken' = broken \cup {job[c].id}
  /\ UNCHANGED <<tables, now, todo, history>>

\* The process dies; or, in the worker, a statement outside the try block throws.
Die(c) ==
  /\ pc[c] # "idle"
  /\ Fault("die")
  /\ pc' = [pc EXCEPT ![c] = "idle"]
  /\ job' = [job EXCEPT ![c] = NoJob]
  /\ todo' = [w \in Workers |-> IF w = c THEN {} ELSE todo[w]]
  /\ broken' = broken \cup {job[c].id}
  /\ UNCHANGED <<tables, now, history>>
-----------------------------------------------------------------------------
(* EscrowReleaseWorker.processReleases *)

Lowest(S, n) == {x \in S : Cardinality({y \in S : y < x}) < n}

\* findMany, ordered by unlockTimestamp.
Fetch(w) ==
  /\ pc[w] = "idle" /\ Active < MaxActive
  /\ LET expired == {e \in Escrows : rec[e].status = "ACTIVE" /\ rec[e].mode = "AUTO" /\ Due(e)}
     IN  /\ expired # {}
         /\ todo' = [todo EXCEPT ![w] = Lowest(expired, BatchSize)]
  /\ pc' = [pc EXCEPT ![w] = "next"]
  /\ UNCHANGED <<tables, now, job, faults, broken, history>>

\* The "atomic lock": an update by primary key, whatever the status is by now.
Mark(w) ==
  /\ pc[w] = "next"
  /\ \E e \in Lowest(todo[w], 1) :
       /\ SetStatus(e, "PROCESSING")
       /\ todo' = [todo EXCEPT ![w] = @ \ {e}]
       /\ job' = [job EXCEPT ![w] = [op |-> "release", id |-> e, asset |-> rec[e].asset, to |-> "ACTIVE"]]
  /\ pc' = [pc EXCEPT ![w] = "read"]
  /\ UNCHANGED <<asset, chain, now, faults, broken, history>>

\* EscrowFacet.release reads the row again.
Reread(w) ==
  /\ pc[w] = "read"
  /\ IF Open(job[w].id) THEN Goto(w, "chain") ELSE Thrown(w)
  /\ UNCHANGED <<tables, now, todo, faults, broken, history>>

\* Mutation: the row is left in PROCESSING.
Revert_Dropped(w) ==
  /\ pc[w] = "revert"
  /\ Done(w)
  /\ UNCHANGED <<tables, now, todo, faults, broken, history>>

\* The catch block, by primary key again.
Revert(w) ==
  /\ pc[w] = "revert"
  /\ SetStatus(job[w].id, "ACTIVE")
  /\ Done(w)
  /\ UNCHANGED <<asset, chain, now, todo, faults, broken, history>>
-----------------------------------------------------------------------------
Tick ==
  /\ \E e \in Escrows : e > now
  /\ now' = now + 1
  /\ UNCHANGED <<tables, pc, job, todo, faults, broken, history>>

Init ==
  /\ asset \in [Assets -> Initial]  \* createAsset takes the status of the body as well
  /\ rec = [e \in Escrows |-> NoRec]
  /\ chain = [e \in Escrows |-> "none"]
  /\ now = 0
  /\ pc = [c \in Agents |-> "idle"]
  /\ job = [c \in Agents |-> NoJob]
  /\ todo = [w \in Workers |-> {}]
  /\ faults = 0 /\ broken = {} /\ unseen = {}
  /\ byHand = {a \in Assets : asset[a] = "LOCKED_IN_ESCROW"}

Call(c) ==
  \/ \E a \in Assets, s \in Statuses : Transition(c, a, s)
  \/ \E a \in Assets : InitiateTransfer(c, a) \/ ProcessPayment(c, a)
  \/ \E e \in Escrows, a \in Assets : Lock(c, e, a) \/ Release(c, e, a) \/ Cancel(c, e, a)

Outcomes == {"ok", "lost", "error", "refused", "unseen"}

Proceed(c) ==
  \/ \E outcome \in Outcomes : Chain(c, outcome)
  \/ \E mode \in {"AUTO", "MANUAL"} : CreateRow(c, mode)
  \/ CloseRow(c) \/ WriteAsset(c) \/ WriteEvent(c)

Run(w) == Fetch(w) \/ Mark(w) \/ Reread(w) \/ Revert(w)

Next ==
  \/ \E c \in Clients : Call(c)
  \/ \E a \in Assets, s \in Edits : UpdateAsset(a, s)
  \/ \E c \in Agents : Proceed(c) \/ Throw(c) \/ Die(c)
  \/ \E w \in Workers : Run(w)
  \/ Tick

Spec == Init /\ [][Next]_vars

\* Cron starts the worker again and again, and no handler stops of itself.
FairSpec == /\ Spec
            /\ \A c \in Agents : WF_vars(Proceed(c))
            /\ \A w \in Workers : WF_vars(Run(w))
-----------------------------------------------------------------------------
(* Properties *)

\* Rows, handlers and what each handler carries are well typed: no handler ever
\* writes a status that its table does not have.
TypeOK ==
  /\ asset \in [Assets -> Statuses]
  /\ rec \in [Escrows -> [status : {"ABSENT", "ACTIVE", "PROCESSING"} \cup Closed,
                          asset : Assets \cup {NoId}, mode : {"AUTO", "MANUAL"}]]
  /\ chain \in [Escrows -> {"none", "locked", "released", "cancelled"}]
  /\ now \in Nat
  /\ pc \in [Agents -> {"idle", "chain", "record", "asset", "event", "next", "read", "revert"}]
  /\ job \in [Agents -> [op : {"none", "lock", "release", "cancel", "transition", "transfer", "pay"},
                         id : Escrows \cup {NoId}, asset : Assets \cup {NoId}, to : Statuses]]
  /\ todo \in [Workers -> SUBSET Escrows]
  /\ faults \in Nat /\ broken \subseteq Escrows \cup {NoId}
  /\ unseen \subseteq Escrows /\ byHand \subseteq Assets

\* Whatever overlaps or fails, a row that says RELEASED or CANCELLED is right about
\* the chain: the funds went the way it says, and no release and cancel both won.
\* Only a transaction that failed and was taken for done (on SOLANA) makes it wrong.
ClosedRowIsTrue ==
  \A e \in Escrows \ unseen : /\ rec[e].status = "RELEASED"  => chain[e] = "released"
                              /\ rec[e].status = "CANCELLED" => chain[e] = "cancelled"

\* An asset that an escrow call put in custody has an escrow that was put on the chain
\* for it: the chain comes first, then the row, then the asset.  Nothing is known of
\* assets whose status somebody wrote by hand, and of locks that failed unseen.
CustodyIsBacked ==
  \A a \in Assets \ byHand : asset[a] = "LOCKED_IN_ESCROW" =>
    \E e \in Escrows : /\ rec[e].status # "ABSENT" /\ rec[e].asset = a
                       /\ chain[e] # "none" \/ e \in unseen

Holds(c, e) == pc[c] # "idle" /\ job[c].id = e

\* A row in PROCESSING, or an escrow on the chain without a row, is a handler's work
\* in progress or the leftover of one that was cut short.
UnfinishedIsHeld ==
  \A e \in Escrows :
    rec[e].status = "PROCESSING" \/ (chain[e] # "none" /\ rec[e].status = "ABSENT")
      => e \in broken \/ \E c \in Agents : Holds(c, e)

Quiet == \A c \in Agents : pc[c] \in {"idle", "next"}

\* One handler at a time, and no failure after the chain's answer: then the three
\* places agree.  An asset is locked exactly while one escrow of it is open.
CustodyIsConsistent ==
  Quiet =>
    /\ \A e \in Escrows : rec[e].status = "ACTIVE" <=> chain[e] = "locked"
    /\ \A a \in Assets :
         Cardinality({e \in Escrows : rec[e].status = "ACTIVE" /\ rec[e].asset = a})
           = (IF asset[a] = "LOCKED_IN_ESCROW" THEN 1 ELSE 0)

\* LifecycleFacet.ts:18 says that ARCHIVED and BURNED are terminal, without a way out.
TerminalStays ==
  [][\A a \in Assets : asset[a] \in {"ARCHIVED", "BURNED"} => asset'[a] = asset[a]]_vars

\* EscrowFacet.ts:158 leaves an escrow in AUTO mode to the worker: once due it is
\* closed in the end, unless its own chain cannot release it or never got it.  This
\* holds as long as fewer of those than a batch holds are due.
EventuallyReleased ==
  \A e \in Escrows \ Algorand :
    (rec[e].status = "ACTIVE" /\ rec[e].mode = "AUTO" /\ Due(e))
      ~> (rec[e].status \in Closed \/ e \in unseen)
=============================================================================
