---------------------------- MODULE AssetRecords ----------------------------
(***************************************************************************)
(* The records kept of an asset, and the events that tell of them: its     *)
(* status and its owners (AssetRegistryFacet), contributions of the public *)
(* (CurationFacet), transfers to a buyer (TransferRegistryFacet) and the   *)
(* provider's notices of their payment (WebhookController, BillingFacet),  *)
(* and the counter of the asset's tag (DeviceGuardFacet for tags with a    *)
(* master key, SDMVerifierService for QTAGs).                              *)
(*                                                                         *)
(* A call reads rows and writes them later, in statements of its own or in *)
(* a transaction at READ COMMITTED: either way the rows that it has read   *)
(* may have changed.  A transaction's writes are one step.  Calls that are *)
(* refused are left out, and so are their tap logs.                        *)
(***************************************************************************)
EXTENDS Naturals, FiniteSets

CONSTANTS
  Assets,
  Refs,          \* ownerRefs; a buyer's is the buyer's document
  Contributions,
  Devices,
  QTags,         \* the devices that the SDM verifier checks
  MaxCounter,    \* bound: a tag's counter
  Payments,      \* ids of payments at the provider
  Notices,       \* bound: rows of WebhookInbox, in the order of receivedAt
  Edits,         \* statuses that assets are created with or set to by hand
  Calls,         \* calls under way at once
  MaxCalls,      \* bound: calls ever made
  MaxFaults,     \* bound: statements that fail, calls that are cut short
  None

ASSUME AssetRecordsAssumption ==
  /\ QTags \subseteq Devices /\ None \notin Assets
  /\ "ABSENT" \notin Edits
  /\ Edits \subseteq {"DRAFT", "ACTIVE", "SUSPENDED", "ARCHIVED", "BURNED", "AWAITING_PAYMENT",
                      "LOCKED_IN_ESCROW", "ALERT", "INACTIVE"}
  /\ Notices \subseteq Nat /\ MaxCounter \in Nat /\ MaxCalls \in Nat /\ MaxFaults \in Nat

VARIABLES
  asset,         \* Asset.status
  owner,         \* Owner rows of each asset
  told,          \* the latest DELEGATION event about each owner
  contribution,  \* PendingContribution.status
  published,     \* events made of each contribution
  registered,    \* Device rows
  last,          \* Device.lastCounter
  valid,         \* VALID rows of DeviceTapLog for each counter of a device
  started,       \* TRANSFER_INITIATED events of each asset
  confirmed,     \* PAYMENT_CONFIRMED events of each asset
  linked,        \* assets with a payment preference
  payment,       \* at the provider: the asset that an approved payment is for
  inbox,         \* WebhookInbox rows
  call,          \* where each call stands, and what it carries
  made, faults,
  disturbed,     \* history: rows that two calls held at once, or that a call
                 \* which was cut short held
  byHand,        \* history: times that an asset was made to await a payment by hand
  acted,         \* history: payments that each notice confirmed
  decided,       \* history: decisions made of each contribution
  late           \* history: those made after another that the reviewer had not seen

tags     == <<registered, last, valid>>
curation == <<contribution, published, decided, late>>
transfer == <<started, linked, byHand>>
billing  == <<confirmed, acted, inbox>>
rows     == <<asset, owner, told, curation, tags, transfer, billing, payment>>
vars     == <<rows, call, made, faults, disturbed>>

Statuses == {"ABSENT", "DRAFT", "ACTIVE", "SUSPENDED", "ARCHIVED", "BURNED", "AWAITING_PAYMENT",
             "LOCKED_IN_ESCROW", "ALERT", "INACTIVE"}
NoOwner  == [state |-> "none", primary |-> FALSE, document |-> FALSE]
Idle     == [step |-> "idle", at |-> <<>>, arg |-> "none", rest |-> {}, holds |-> {}]

OwnerRow(a, r) == <<"owner", a, r>>
AssetRow(a)    == <<"asset", a>>
DeviceRow(d)   == <<"device", d>>
-----------------------------------------------------------------------------
(* Calls *)

Others(c) == UNION {call[d].holds : d \in Calls \ {c}}

\* Call c goes on to a step, with the rows whose contents it relies on.
GoOn(c, step, at, arg, rest, holds) ==
  /\ call' = [call EXCEPT ![c] = [step |-> step, at |-> at, arg |-> arg, rest |-> rest, holds |-> holds]]
  /\ disturbed' = disturbed \cup (holds \cap Others(c))

Begin(c, step, at, arg, holds) ==
  /\ call[c].step = "idle" /\ made < MaxCalls /\ made' = made + 1
  /\ GoOn(c, step, at, arg, {}, holds)
  /\ UNCHANGED <<rows, faults>>

Move(c, step) == call' = [call EXCEPT ![c].step = step]
Finish(c)     == call' = [call EXCEPT ![c] = Idle]
Steady        == UNCHANGED <<made, faults, disturbed>>

\* A call of a single step, which relies on nothing it has read.
Single(touched) ==
  /\ made < MaxCalls /\ made' = made + 1
  /\ disturbed' = disturbed \cup (touched \cap UNION {call[c].holds : c \in Calls})
  /\ UNCHANGED <<call, faults>>
-----------------------------------------------------------------------------
(* AssetRegistryFacet *)

ByHand(a, s) == byHand' = IF s = "AWAITING_PAYMENT" THEN [byHand EXCEPT ![a] = @ + 1] ELSE byHand

\* The asset, its owners and its ASSET_REGISTERED event are one transaction.  The status,
\* ACTIVE if none is given, and the owners' labels are taken from the request.
CreateAsset(a, s, owners, primaries) ==
  /\ asset[a] = "ABSENT"
  /\ asset' = [asset EXCEPT ![a] = s] /\ ByHand(a, s)
  /\ owner' = [owner EXCEPT ![a] = [r \in Refs |-> IF r \notin owners THEN NoOwner ELSE
                 [state |-> "active", primary |-> r \in primaries, document |-> FALSE]]]
  /\ UNCHANGED <<told, curation, tags, started, linked, billing, payment, call, made, faults, disturbed>>

\* One conditional UPDATE, to any status: a burned asset is left alone.
UpdateAsset(a, s) ==
  /\ asset[a] \notin {"ABSENT", "BURNED"}
  /\ asset' = [asset EXCEPT ![a] = s] /\ ByHand(a, s)
  /\ Single({AssetRow(a)})
  /\ UNCHANGED <<owner, told, curation, tags, started, linked, billing, payment>>

\* addOwner: an owner that is active already is returned as it is.
FindOwner(c, a, r) ==
  /\ asset[a] # "ABSENT" /\ owner[a][r].state # "active"
  /\ Begin(c, "grant", <<a, r>>, owner[a][r].state, {OwnerRow(a, r)})

\* Bug: the event is only written for a new owner.
Grant_Silent(c) ==
  \E a \in Assets, r \in Refs, primary \in BOOLEAN :
    LET new == call[c].arg = "none" IN
    /\ call[c].step = "grant" /\ call[c].at = <<a, r>>
    /\ IF new /\ owner[a][r] # NoOwner
         THEN UNCHANGED <<owner, told>>
         ELSE /\ owner' = [owner EXCEPT ![a][r] = [@ EXCEPT !.state = "active", !.primary = primary]]
              /\ told' = IF new THEN [told EXCEPT ![a][r] = "GRANTED"] ELSE told
    /\ Finish(c) /\ Steady
    /\ UNCHANGED <<asset, curation, tags, transfer, billing, payment>>

\* A new row must be the first of its ownerRef, or the transaction fails; an old row is
\* taken back into use, with the label of the request.  Either way the event comes with it.
Grant(c) ==
  \E a \in Assets, r \in Refs, primary \in BOOLEAN :
    LET taken == call[c].arg = "none" /\ owner[a][r] # NoOwner IN
    /\ call[c].step = "grant" /\ call[c].at = <<a, r>>
    /\ IF taken
         THEN UNCHANGED <<owner, told>>
         ELSE /\ owner' = [owner EXCEPT ![a][r] = [@ EXCEPT !.state = "active", !.primary = primary]]
              /\ told' = [told EXCEPT ![a][r] = "GRANTED"]
    /\ Finish(c) /\ Steady
    /\ UNCHANGED <<asset, curation, tags, transfer, billing, payment>>

\* revokeOwner: an active owner, but not the primary one.
FindRevocable(c, a, r) ==
  /\ owner[a][r].state = "active" /\ ~ owner[a][r].primary
  /\ Begin(c, "revoke", <<a, r>>, "none", {OwnerRow(a, r)})

Revoke(c) ==
  \E a \in Assets, r \in Refs :
    /\ call[c].step = "revoke" /\ call[c].at = <<a, r>>
    /\ owner' = [owner EXCEPT ![a][r].state = "revoked"]
    /\ told' = [told EXCEPT ![a][r] = "REVOKED"]
    /\ Finish(c) /\ Steady
    /\ UNCHANGED <<asset, curation, tags, transfer, billing, payment>>

\* acceptOwner: any active owner; only the event is written.
FindAcceptable(c, a, r) ==
  /\ owner[a][r].state = "active"
  /\ Begin(c, "accept", <<a, r>>, "none", {OwnerRow(a, r)})

Accept(c) ==
  \E a \in Assets, r \in Refs :
    /\ call[c].step = "accept" /\ call[c].at = <<a, r>>
    /\ told' = [told EXCEPT ![a][r] = "ACCEPTED"]
    /\ Finish(c) /\ Steady
    /\ UNCHANGED <<asset, owner, curation, tags, transfer, billing, payment>>
-----------------------------------------------------------------------------
(* CurationFacet *)

\* An auditor's contribution is an event at once; anyone else's awaits review.
Submit(p, auditor) ==
  /\ \E a \in Assets : asset[a] # "ABSENT"
  /\ contribution[p] = "none" /\ published[p] = 0
  /\ IF auditor
       THEN published' = [published EXCEPT ![p] = 1] /\ UNCHANGED contribution
       ELSE contribution' = [contribution EXCEPT ![p] = "PENDING_APPROVAL"] /\ UNCHANGED published
  /\ Single({})
  /\ UNCHANGED <<asset, owner, told, decided, late, tags, transfer, billing, payment>>

\* Bug: the status of the contribution is not looked at.
FindPending_Any(c, p, decision) ==
  /\ contribution[p] # "none"
  /\ Begin(c, "review", <<p>>, <<decision, decided[p]>>, {})

\* reviewContribution looks the contribution up outside the transaction.
FindPending(c, p, decision) ==
  /\ contribution[p] = "PENDING_APPROVAL"
  /\ Begin(c, "review", <<p>>, <<decision, decided[p]>>, {})

\* The update is by id, whatever the status is by now.
Decide(c) ==
  \E p \in Contributions :
    LET decision == call[c].arg[1]
        seen     == call[c].arg[2] IN
    /\ call[c].step = "review" /\ call[c].at = <<p>>
    /\ contribution' = [contribution EXCEPT ![p] = decision]
    /\ published' = IF decision = "APPROVED" THEN [published EXCEPT ![p] = @ + 1] ELSE published
    /\ decided' = [decided EXCEPT ![p] = @ + 1]
    /\ late' = IF seen # decided[p] THEN [late EXCEPT ![p] = @ + 1] ELSE late
    /\ Finish(c) /\ Steady
    /\ UNCHANGED <<asset, owner, told, tags, transfer, billing, payment>>
-----------------------------------------------------------------------------
(* Taps *)

\* A uid is registered once, with the counter that the tag is said to have.
RegisterDevice(d, n) ==
  /\ d \notin registered
  /\ registered' = registered \cup {d} /\ last' = [last EXCEPT ![d] = n]
  /\ UNCHANGED <<asset, owner, told, curation, valid, transfer, billing, payment,
                 call, made, faults, disturbed>>

\* validateAndRecordTap: the counter is ahead of the row as it was read.
ReadGuarded(c, d, n) ==
  /\ d \in registered \ QTags /\ n > last[d]
  /\ Begin(c, "tap", <<d>>, n, {DeviceRow(d)})

\* verifyTap: the same, for a tag whose keys a session has written.  The distance from
\* the latest tap may refuse any reading.
ReadQTag(c, d, n) ==
  /\ d \in QTags /\ n > last[d]
  /\ Begin(c, "tap", <<d>>, n, {DeviceRow(d)})

Accepted(d, n) ==
  /\ last' = [last EXCEPT ![d] = n] /\ UNCHANGED registered
  /\ valid' = [valid EXCEPT ![d][n] = @ + 1]

\* Bug: the update is not conditional on the counter that the row has by now.
GuardTap_Blind(c) ==
  \E d \in Devices \ QTags :
    /\ call[c].step = "tap" /\ call[c].at = <<d>>
    /\ Accepted(d, call[c].arg)
    /\ Finish(c) /\ Steady
    /\ UNCHANGED <<asset, owner, told, curation, transfer, billing, payment>>

\* validateAndRecordTap: the row must still be behind, in the UPDATE itself.
GuardTap(c) ==
  \E d \in Devices \ QTags :
    /\ call[c].step = "tap" /\ call[c].at = <<d>>
    /\ IF last[d] < call[c].arg THEN Accepted(d, call[c].arg) ELSE UNCHANGED tags
    /\ Finish(c) /\ Steady
    /\ UNCHANGED <<asset, owner, told, curation, transfer, billing, payment>>

\* verifyTap writes the counter whatever the row holds by now.
VerifyTap(c) ==
  \E d \in QTags :
    /\ call[c].step = "tap" /\ call[c].at = <<d>>
    /\ Accepted(d, call[c].arg)
    /\ Finish(c) /\ Steady
    /\ UNCHANGED <<asset, owner, told, curation, transfer, billing, payment>>
-----------------------------------------------------------------------------
(* TransferRegistryFacet *)

\* initiateTransfer: the asset is ACTIVE, and the buyer is looked up by document,
\* among revoked owners as well.
FindBuyer(c, a, r) ==
  /\ asset[a] = "ACTIVE"
  /\ Begin(c, IF owner[a][r].document THEN "await" ELSE "shadow", <<a, r>>, "none", {AssetRow(a), OwnerRow(a, r)})

\* A buyer without a row with the document gets one, unless the ownerRef is taken.
ShadowAccount(c) ==
  \E a \in Assets, r \in Refs :
    /\ call[c].step = "shadow" /\ call[c].at = <<a, r>>
    /\ IF owner[a][r] # NoOwner
         THEN Finish(c) /\ UNCHANGED owner
         ELSE /\ owner' = [owner EXCEPT ![a][r] = [state |-> "active", primary |-> FALSE, document |-> TRUE]]
              /\ Move(c, "await")
    /\ Steady
    /\ UNCHANGED <<asset, told, curation, tags, transfer, billing, payment>>

AwaitPayment(c) ==
  \E a \in Assets, r \in Refs :
    /\ call[c].step = "await" /\ call[c].at = <<a, r>>
    /\ asset' = [asset EXCEPT ![a] = "AWAITING_PAYMENT"]
    /\ Move(c, "initiated") /\ Steady
    /\ UNCHANGED <<owner, told, curation, tags, transfer, billing, payment>>

TellTransfer(c) ==
  \E a \in Assets, r \in Refs :
    /\ call[c].step = "initiated" /\ call[c].at = <<a, r>>
    /\ started' = [started EXCEPT ![a] = @ + 1]
    /\ Move(c, "prefer") /\ Steady
    /\ UNCHANGED <<asset, owner, told, curation, tags, linked, byHand, billing, payment>>

\* The buyer gets a link to pay for the asset.
CreatePaymentPreference(c) ==
  \E a \in Assets, r \in Refs :
    /\ call[c].step = "prefer" /\ call[c].at = <<a, r>>
    /\ linked' = linked \cup {a}
    /\ Finish(c) /\ Steady
    /\ UNCHANGED <<asset, owner, told, curation, tags, started, byHand, billing, payment>>

\* At the provider: a buyer with a link pays.
Pay(m, a) ==
  /\ a \in linked /\ payment[m] = None
  /\ payment' = [payment EXCEPT ![m] = a]
  /\ UNCHANGED <<asset, owner, told, curation, tags, transfer, billing, call, made, faults, disturbed>>
-----------------------------------------------------------------------------
(* WebhookController and BillingFacet *)

Unused == {n \in Notices : inbox[n].status = "none"}

\* The provider tells of a payment, and may tell again; the notice is kept before it
\* is answered.
HandleMercadoPago(n, m) ==
  /\ n \in Unused /\ \A k \in Unused : n <= k
  /\ payment[m] # None
  /\ inbox' = [inbox EXCEPT ![n] = [status |-> "PENDING", payment |-> m]]
  /\ UNCHANGED <<asset, owner, told, curation, tags, transfer, confirmed, acted, payment,
                 call, made, faults, disturbed>>

\* Bug: the rows are locked, but not marked before the lock is given up.
ClaimNotices_Unmarked(c) ==
  LET pending == {n \in Notices : inbox[n].status = "PENDING"} IN
  /\ call[c].step = "idle" /\ pending # {} /\ made < MaxCalls /\ made' = made + 1
  /\ GoOn(c, "batch", <<>>, "none", pending, {})
  /\ UNCHANGED <<rows, faults>>

\* processWebhookInbox: SKIP LOCKED, and the claim commits before anything is done.
ClaimNotices(c) ==
  LET pending == {n \in Notices : inbox[n].status = "PENDING"} IN
  /\ call[c].step = "idle" /\ pending # {} /\ made < MaxCalls /\ made' = made + 1
  /\ inbox' = [n \in Notices |-> IF n \in pending THEN [inbox[n] EXCEPT !.status = "PROCESSING"] ELSE inbox[n]]
  /\ GoOn(c, "batch", <<>>, "none", pending, {})
  /\ UNCHANGED <<asset, owner, told, curation, tags, transfer, confirmed, acted, payment, faults>>

\* Bug: the status is not looked at when the payment is applied.
FindAwaiting_Any(c) ==
  \E n \in call[c].rest :
    LET a == payment[inbox[n].payment] IN
    /\ call[c].step = "batch" /\ \A k \in call[c].rest : n <= k
    /\ GoOn(c, "activate", <<a, n>>, "none", call[c].rest, {AssetRow(a)})
    /\ UNCHANGED <<asset, owner, told, curation, tags, transfer, billing, payment, made, faults>>

\* processPaymentWebhook: an asset that awaits a payment gets it; for any other there
\* is nothing to do.
FindAwaiting(c) ==
  \E n \in call[c].rest :
    LET a == payment[inbox[n].payment] IN
    /\ call[c].step = "batch" /\ \A k \in call[c].rest : n <= k
    /\ IF asset[a] = "AWAITING_PAYMENT"
         THEN GoOn(c, "activate", <<a, n>>, "none", call[c].rest, {AssetRow(a)}) /\ UNCHANGED inbox
         ELSE /\ GoOn(c, "batch", <<>>, "none", call[c].rest \ {n}, {})
              /\ inbox' = [inbox EXCEPT ![n].status = "DONE"]
    /\ UNCHANGED <<asset, owner, told, curation, tags, transfer, confirmed, acted, payment, made, faults>>

EndBatch(c) ==
  /\ call[c].step = "batch" /\ call[c].rest = {}
  /\ Finish(c) /\ Steady /\ UNCHANGED rows

Activate(c) ==
  \E a \in Assets, n \in Notices :
    /\ call[c].step = "activate" /\ call[c].at = <<a, n>>
    /\ asset' = [asset EXCEPT ![a] = "ACTIVE"]
    /\ Move(c, "confirm") /\ Steady
    /\ UNCHANGED <<owner, told, curation, tags, transfer, billing, payment>>

TellPayment(c) ==
  \E a \in Assets, n \in Notices :
    /\ call[c].step = "confirm" /\ call[c].at = <<a, n>>
    /\ confirmed' = [confirmed EXCEPT ![a] = @ + 1] /\ acted' = [acted EXCEPT ![n] = @ + 1]
    /\ Move(c, "close") /\ Steady
    /\ UNCHANGED <<asset, owner, told, curation, tags, transfer, inbox, payment>>

\* The notice is DONE, or FAILED if a statement was: nothing takes it up again.
CloseNotice(c, status) ==
  \E a \in Assets, n \in Notices :
    /\ call[c].at = <<a, n>>
    /\ inbox' = [inbox EXCEPT ![n].status = status]
    /\ call' = [call EXCEPT ![c] = [Idle EXCEPT !.step = "batch", !.rest = call[c].rest \ {n}]]
    /\ UNCHANGED <<asset, owner, told, curation, tags, transfer, confirmed, acted, payment, made>>
-----------------------------------------------------------------------------
(* Faults *)

\* What a call that is cut short leaves half done may be seen by every later call.
Cut(c) == disturbed' = disturbed \cup call[c].holds

\* A statement fails: the worker catches it, for the notice at hand.
Throw(c) ==
  /\ faults < MaxFaults /\ faults' = faults + 1
  /\ call[c].step \in {"activate", "confirm", "close"}
  /\ CloseNotice(c, "FAILED") /\ Cut(c)

\* A statement fails in any other call, or the process ends: the rest is not done.
Die(c) ==
  /\ faults < MaxFaults /\ faults' = faults + 1
  /\ call[c].step # "idle"
  /\ Finish(c) /\ Cut(c)
  /\ UNCHANGED <<rows, made>>
-----------------------------------------------------------------------------
Init ==
  /\ asset = [a \in Assets |-> "ABSENT"]
  /\ owner = [a \in Assets |-> [r \in Refs |-> NoOwner]]
  /\ told = [a \in Assets |-> [r \in Refs |-> "none"]]
  /\ contribution = [p \in Contributions |-> "none"]
  /\ published = [p \in Contributions |-> 0]
  /\ registered = QTags
  /\ last = [d \in Devices |-> 0]
  /\ valid = [d \in Devices |-> [n \in 1 .. MaxCounter |-> 0]]
  /\ started = [a \in Assets |-> 0]
  /\ confirmed = [a \in Assets |-> 0]
  /\ linked = {}
  /\ payment = [m \in Payments |-> None]
  /\ inbox = [n \in Notices |-> [status |-> "none", payment |-> None]]
  /\ call = [c \in Calls |-> Idle]
  /\ made = 0 /\ faults = 0 /\ disturbed = {}
  /\ byHand = [a \in Assets |-> 0] /\ acted = [n \in Notices |-> 0]
  /\ decided = [p \in Contributions |-> 0] /\ late = [p \in Contributions |-> 0]

Registry(c) ==
  \/ \E a \in Assets, r \in Refs : FindOwner(c, a, r) \/ FindRevocable(c, a, r) \/ FindAcceptable(c, a, r)
  \/ Grant(c) \/ Revoke(c) \/ Accept(c)

Curation(c) ==
  \/ \E p \in Contributions, decision \in {"APPROVED", "REJECTED"} : FindPending(c, p, decision)
  \/ Decide(c)

Taps(c) ==
  \/ \E d \in Devices, n \in 1 .. MaxCounter : ReadGuarded(c, d, n) \/ ReadQTag(c, d, n)
  \/ GuardTap(c) \/ VerifyTap(c)

Transfers(c) ==
  \/ \E a \in Assets, r \in Refs : FindBuyer(c, a, r)
  \/ ShadowAccount(c) \/ AwaitPayment(c) \/ TellTransfer(c) \/ CreatePaymentPreference(c)

Billing(c) ==
  \/ ClaimNotices(c) \/ FindAwaiting(c) \/ EndBatch(c) \/ Activate(c) \/ TellPayment(c)
  \/ call[c].step = "close" /\ CloseNotice(c, "DONE") /\ UNCHANGED <<faults, disturbed>>

Next ==
  \/ \E a \in Assets, s \in Edits \cup {"ACTIVE"}, owners \in SUBSET Refs : \E primaries \in SUBSET owners :
       CreateAsset(a, s, owners, primaries)
  \/ \E a \in Assets, s \in Edits : UpdateAsset(a, s)
  \/ \E p \in Contributions, auditor \in BOOLEAN : Submit(p, auditor)
  \/ \E d \in Devices, n \in 0 .. MaxCounter : RegisterDevice(d, n)
  \/ \E m \in Payments, a \in Assets : Pay(m, a)
  \/ \E n \in Notices, m \in Payments : HandleMercadoPago(n, m)
  \/ \E c \in Calls : \/ Registry(c) \/ Curation(c) \/ Taps(c) \/ Transfers(c) \/ Billing(c)
                      \/ Throw(c) \/ Die(c)

Spec == Init /\ [][Next]_vars
-----------------------------------------------------------------------------
(* Properties *)

\* Rows, events and calls are well typed.
TypeOK ==
  /\ asset \in [Assets -> Statuses]
  /\ owner \in [Assets -> [Refs -> [state : {"none", "active", "revoked"}, primary : BOOLEAN, document : BOOLEAN]]]
  /\ told \in [Assets -> [Refs -> {"none", "GRANTED", "REVOKED", "ACCEPTED"}]]
  /\ contribution \in [Contributions -> {"none", "PENDING_APPROVAL", "APPROVED", "REJECTED"}]
  /\ published \in [Contributions -> Nat]
  /\ registered \subseteq Devices
  /\ last \in [Devices -> 0 .. MaxCounter] /\ valid \in [Devices -> [1 .. MaxCounter -> Nat]]
  /\ started \in [Assets -> Nat] /\ confirmed \in [Assets -> Nat]
  /\ linked \subseteq Assets /\ payment \in [Payments -> Assets \cup {None}]
  /\ inbox \in [Notices -> [status : {"none", "PENDING", "PROCESSING", "DONE", "FAILED"},
                            payment : Payments \cup {None}]]
  /\ \A c \in Calls : call[c].rest \subseteq Notices
  /\ byHand \in [Assets -> Nat] /\ acted \in [Notices -> Nat]
  /\ decided \in [Contributions -> Nat] /\ late \in [Contributions -> Nat]

\* Whatever overlaps or fails, the latest delegation event about an owner is true: one
\* who was granted it last is active, one from whom it was taken last is not.  An
\* acceptance may come too late, but only if the two calls overlapped.
OwnersAreTold ==
  \A a \in Assets, r \in Refs :
    /\ told[a][r] = "GRANTED" => owner[a][r].state = "active"
    /\ told[a][r] = "REVOKED" => owner[a][r].state = "revoked"
    /\ told[a][r] = "ACCEPTED" /\ OwnerRow(a, r) \notin disturbed => owner[a][r].state = "active"

\* CurationFacet.ts:159 answers 409 to a second review, but only as the reviewer has read
\* the contribution.  Whatever overlaps: what waits has no event, what was approved has
\* one, and each further event, or one of what was rejected, is the doing of a review that
\* another had overtaken since it read.
ReviewedOnce ==
  \A p \in Contributions :
    /\ contribution[p] = "PENDING_APPROVAL" => published[p] = 0
    /\ contribution[p] = "APPROVED" => published[p] \in 1 .. 1 + late[p]
    /\ contribution[p] = "REJECTED" => published[p] <= late[p]

\* No reading of a tag is accepted twice, and the stored counter is the highest accepted:
\* for a tag with a master key whatever overlaps, for a QTAG as long as no two
\* verifications of it did.
CounterOnce ==
  \A d \in Devices : (d \in QTags => DeviceRow(d) \notin disturbed) =>
    \A n \in 1 .. MaxCounter : valid[d][n] <= (IF n <= last[d] THEN 1 ELSE 0)

\* Unless calls at it overlapped or were cut short, an asset has no more transfers
\* confirmed than were started, or asked for by setting its status by hand, and one fewer
\* while it awaits a payment.  This is what its status guards: the code keeps no link from
\* a payment to a transfer, so that another notice of an old payment can confirm a transfer
\* that nobody has paid for.
TransfersAddUp ==
  \A a \in Assets : AssetRow(a) \notin disturbed \cup UNION {call[c].holds : c \in Calls} =>
    confirmed[a] + (IF asset[a] = "AWAITING_PAYMENT" THEN 1 ELSE 0) <= started[a] + byHand[a]

\* Whatever workers overlap and whatever fails, one notice confirms one payment at most,
\* and only once it was claimed.
NoticesActOnce ==
  \A n \in Notices : acted[n] <= IF inbox[n].status \in {"none", "PENDING"} THEN 0 ELSE 1
=============================================================================
