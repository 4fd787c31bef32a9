---------------------------- MODULE QTagFulfillment --------------------------
(***************************************************************************)
(* QTAGs of one tenant: physical tags that are reserved for an asset,      *)
(* encoded at a station and activated.                                     *)
(*                                                                         *)
(*   QTagFulfillmentFacet   the ledger of QTAGs and the orders; what it    *)
(*                          writes for a request is one transaction        *)
(*   CommissioningFacet     encoding sessions; start and confirm are       *)
(*                          statements without a transaction               *)
(*                                                                         *)
(* The database runs at READ COMMITTED, so that what a call has read may   *)
(* be stale when it writes; only the unique indexes (on idempotency keys   *)
(* and on Asset.deviceId) refuse what they forbid.  Balances are those of  *)
(* one scope (a tenant or a user).  Devices that are registered without a  *)
(* session, by DeviceRegistryFacet, are left out.                          *)
(***************************************************************************)
EXTENDS Integers, FiniteSets

CONSTANTS
  Assets,
  Orders,     \* ids of fulfillment orders
  Sessions,   \* ids of encoding sessions
  Chips,      \* ntagUIDs
  Keys,       \* idempotency keys that administrators choose themselves
  Edits,      \* statuses that administrators set
  Calls,      \* concurrent requests
  MaxGrants,  \* bound: grants without a key, of one QTAG each
  None        \* no order, session, chip or key

ASSUME IdsAssumption    == None \notin Assets \cup Orders \cup Sessions \cup Chips
ASSUME BoundsAssumption == MaxGrants \in Nat

Statuses == {"REQUESTED", "READY_FOR_ENCODING", "ENCODING_IN_PROGRESS", "ENCODING_FAILED",
             "QA_PENDING", "QA_FAILED", "DISPATCH_READY", "DISPATCHED", "DELIVERED",
             "ACTIVATED", "CANCELLED", "EXPIRED"}

ASSUME EditsAssumption == Edits \subseteq Statuses

VARIABLES
  ledger,    \* QTagLedgerEntry by idempotency key: its kind and its order
  granted,   \* entries without a key
  order,     \* QTagFulfillmentOrder: status and asset
  session,   \* EncodingSession: status, order, asset and chip
  device,    \* Device of a chip: the session whose keys it has
  tag,       \* Asset.deviceId, as the chip of that device
  pc, job,   \* where each call stands, and what it carries
  reported,  \* history: sessions whose station reported success
  forced     \* history: orders that an administrator set to ACTIVATED

data == <<ledger, granted, order, session, device, tag>>
past == <<reported, forced>>
vars == <<data, pc, job, past>>

\* Idempotency keys, as the code builds them.
ReserveKey(a) == <<"qtag-reserve", a>>
ReleaseKey(o) == <<"qtag-release", o>>
ConsumeKey(o) == <<"qtag-consume", o>>
Chosen(k)     == <<"chosen", k>>
AllKeys == {ReserveKey(a) : a \in Assets} \cup {ReleaseKey(o) : o \in Orders}
             \cup {ConsumeKey(o) : o \in Orders} \cup {Chosen(k) : k \in Keys}

ASSUME KeysAssumption == None \notin AllKeys

Entry(kind, o) == [kind |-> kind, order |-> o]
NoEntry   == Entry("none", None)
NoOrder   == [status |-> "ABSENT", asset |-> None]
NoSession == [status |-> "ABSENT", order |-> None, asset |-> None, chip |-> None]
NoJob == [op |-> "none", key |-> None, order |-> None, asset |-> None,
          session |-> None, chip |-> None, to |-> "none"]

Unused(f)  == {x \in DOMAIN f : f[x].status = "ABSENT"}
Running(op) == {c \in Calls : job[c].op = op}
-----------------------------------------------------------------------------
(* The ledger *)

\* findIdempotentEntry: without a key nothing is found.
Found(k) == k # None /\ ledger[k] # NoEntry
Rows(kind) == Cardinality({k \in AllKeys : ledger[k].kind = kind})

\* getBalanceProjection
Available == granted + Rows("GRANTED") - Rows("RESERVED") + Rows("RELEASED")
Reserved  == Rows("RESERVED") - Rows("CONSUMED") - Rows("RELEASED")

\* createLedgerEntry
Append(k, kind, o) ==
  IF k = None
  THEN granted' = granted + 1 /\ UNCHANGED ledger
  ELSE ledger' = [ledger EXCEPT ![k] = Entry(kind, o)] /\ UNCHANGED granted
-----------------------------------------------------------------------------
(* How a call goes on *)

Begin(c, place, j) ==
  /\ pc[c] = "idle"
  /\ pc' = [pc EXCEPT ![c] = place] /\ job' = [job EXCEPT ![c] = j]
  /\ UNCHANGED <<data, past>>
Goto(c, place) == pc' = [pc EXCEPT ![c] = place] /\ UNCHANGED job
Finish(c) == pc' = [pc EXCEPT ![c] = "idle"] /\ job' = [job EXCEPT ![c] = NoJob]

\* Each call begins with the reads and refusals that precede its first write, up to
\* the ones that the ledger's steps below share.
Grant(c, k) ==
  /\ k = None => granted + Cardinality(Running("grant")) < MaxGrants
  /\ Begin(c, "write", [NoJob EXCEPT !.op = "grant", !.key = k])

Reserve(c, a, k) ==
  /\ tag[a] = None
  /\ Cardinality(Running("reserve")) < Cardinality(Unused(order))
  /\ Begin(c, "find", [NoJob EXCEPT !.op = "reserve", !.key = k, !.asset = a])

Release(c, o, k) ==
  /\ order[o].status \notin {"ABSENT", "ACTIVATED"}
  /\ Begin(c, "balance", [NoJob EXCEPT !.op = "release", !.key = k, !.order = o])

Transition(c, o, s) ==
  /\ order[o].status # "ABSENT"
  /\ order[o].status = "ACTIVATED" => s = "ACTIVATED"
  /\ Begin(c, "move", [NoJob EXCEPT !.op = "transition", !.order = o, !.to = s])

Start(c, a, o, u) ==
  /\ o # None => /\ order[o].asset = a
                 /\ order[o].status \in {"REQUESTED", "READY_FOR_ENCODING", "ENCODING_FAILED"}
  /\ Cardinality(Running("start")) < Cardinality(Unused(session))
  /\ Begin(c, "start", [NoJob EXCEPT !.op = "start", !.order = o, !.asset = a, !.chip = u])

\* A session may be confirmed whatever its status is.
Confirm(c, s, success) ==
  /\ session[s].status # "ABSENT"
  /\ Begin(c, "report",
       [op |-> "confirm", key |-> ConsumeKey(session[s].order), order |-> session[s].order,
        asset |-> session[s].asset, session |-> s, chip |-> session[s].chip,
        to |-> IF success THEN "COMPLETED" ELSE "FAILED"])
-----------------------------------------------------------------------------
(* Steps over the ledger: grants, reservations, releases and consumption.  Where a  *)
(* key that is found and a key that the index refuses end alike, looking for it is  *)
(* part of the next step; a confirmation goes on in one case and throws in the      *)
(* other.                                                                           *)

\* reserveForAsset: the asset must have no other order that is still active.
Active(o) == order[o].status \notin {"ABSENT", "CANCELLED", "EXPIRED"}
Find(c) ==
  /\ pc[c] = "find"
  /\ IF job[c].op = "reserve"
     THEN IF Found(job[c].key) \/ \E o \in Orders : order[o].asset = job[c].asset /\ Active(o)
          THEN Finish(c) ELSE Goto(c, "balance")
     ELSE IF Found(job[c].key) THEN Goto(c, "activate") ELSE Goto(c, "balance")
  /\ UNCHANGED <<data, past>>

Enough(c) == (IF job[c].op = "reserve" THEN Available ELSE Reserved) >= 1
CheckBalance(c) ==
  /\ pc[c] = "balance"
  /\ IF Enough(c) /\ ~ (job[c].op = "release" /\ Found(job[c].key))
     THEN Goto(c, "write") ELSE Finish(c)
  /\ UNCHANGED <<data, past>>

\* The entry, and what is committed with it.  The unique index refuses a taken key.
Commit(c) ==
  LET j == job[c] IN
  CASE j.op = "grant" ->
         Append(j.key, "GRANTED", None) /\ UNCHANGED order /\ Finish(c)
    [] j.op = "reserve" ->
         /\ \E o \in Unused(order) :
              /\ order' = [order EXCEPT ![o] = [status |-> "REQUESTED", asset |-> j.asset]]
              /\ Append(j.key, "RESERVED", o)
         /\ Finish(c)
    [] j.op = "release" ->
         /\ order' = [order EXCEPT ![j.order].status = "CANCELLED"]
         /\ Append(j.key, "RELEASED", j.order)
         /\ Finish(c)
    [] OTHER ->
         Append(j.key, "CONSUMED", j.order) /\ UNCHANGED order /\ Goto(c, "activate")
Write_NoIndex(c) ==
  /\ pc[c] = "write"
  /\ Commit(c) /\ UNCHANGED <<session, device, tag, past>>
Write_NoTransaction(c) ==
  /\ pc[c] = "write"
  /\ IF Found(job[c].key)
     THEN /\ Finish(c)
          /\ \E o \in Unused(order) :
               order' = [order EXCEPT ![o] = [status |-> "REQUESTED", asset |-> job[c].asset]]
          /\ UNCHANGED <<ledger, granted, session, device, tag>>
     ELSE Commit(c) /\ UNCHANGED <<session, device, tag>>
  /\ UNCHANGED past
Write(c) ==
  /\ pc[c] = "write"
  /\ IF Found(job[c].key)
     THEN Finish(c) /\ UNCHANGED data
     ELSE Commit(c) /\ UNCHANGED <<session, device, tag>>
  /\ UNCHANGED past
-----------------------------------------------------------------------------
(* Steps over orders and sessions *)

SetStatus(o, s) == order' = [order EXCEPT ![o].status = s]

\* transitionFulfillmentStatus
Move(c) ==
  /\ pc[c] = "move"
  /\ SetStatus(job[c].order, job[c].to)
  /\ forced' = IF job[c].to = "ACTIVATED" THEN forced \cup {job[c].order} ELSE forced
  /\ Finish(c)
  /\ UNCHANGED <<ledger, granted, session, device, tag, reported>>

\* start: a session, then the order.
CreateSession(c) ==
  /\ pc[c] = "start"
  /\ \E s \in Unused(session) :
       session' = [session EXCEPT ![s] = [status |-> "IN_PROGRESS", order |-> job[c].order,
                                          asset |-> job[c].asset, chip |-> job[c].chip]]
  /\ IF job[c].order = None THEN Finish(c) ELSE Goto(c, "encoding")
  /\ UNCHANGED <<ledger, granted, order, device, tag, past>>
Encoding(c) ==
  /\ pc[c] = "encoding"
  /\ SetStatus(job[c].order, "ENCODING_IN_PROGRESS")
  /\ Finish(c)
  /\ UNCHANGED <<ledger, granted, session, device, tag, past>>

\* confirm: the session; for a success the device, the asset, the ledger (above) and
\* the order; for a failure the order.
Report(c) ==
  /\ pc[c] = "report"
  /\ session' = [session EXCEPT ![job[c].session].status = job[c].to]
  /\ reported' = IF job[c].to = "COMPLETED" THEN reported \cup {job[c].session} ELSE reported
  /\ IF job[c].to = "COMPLETED" THEN Goto(c, "device")
     ELSE IF job[c].order # None THEN Goto(c, "failed") ELSE Finish(c)
  /\ UNCHANGED <<ledger, granted, order, device, tag, forced>>
UpsertDevice(c) ==
  /\ pc[c] = "device"
  /\ device' = [device EXCEPT ![job[c].chip] = job[c].session]
  /\ IF job[c].order # None THEN Goto(c, "link") ELSE Finish(c)
  /\ UNCHANGED <<ledger, granted, order, session, tag, past>>
LinkAsset_Late(c) ==
  /\ pc[c] = "link"
  /\ Goto(c, "find")
  /\ UNCHANGED <<data, past>>
LinkAsset_NotUnique(c) ==
  /\ pc[c] = "link"
  /\ tag' = [tag EXCEPT ![job[c].asset] = job[c].chip] /\ Goto(c, "find")
  /\ UNCHANGED <<ledger, granted, order, session, device, past>>
LinkAsset(c) ==
  /\ pc[c] = "link"
  /\ IF \E b \in Assets \ {job[c].asset} : tag[b] = job[c].chip
     THEN Finish(c) /\ UNCHANGED tag
     ELSE tag' = [tag EXCEPT ![job[c].asset] = job[c].chip] /\ Goto(c, "find")
  /\ UNCHANGED <<ledger, granted, order, session, device, past>>
Activate(c) ==
  /\ pc[c] = "activate"
  /\ SetStatus(job[c].order, "ACTIVATED")
  /\ Finish(c)
  /\ UNCHANGED <<ledger, granted, session, device, tag, past>>
EncodingFailed(c) ==
  /\ pc[c] = "failed"
  /\ SetStatus(job[c].order, "ENCODING_FAILED")
  /\ Finish(c)
  /\ UNCHANGED <<ledger, granted, session, device, tag, past>>

\* A statement fails, or the server stops: what was written stays.
Die(c) ==
  /\ pc[c] # "idle"
  /\ Finish(c) /\ UNCHANGED <<data, past>>
-----------------------------------------------------------------------------
Init ==
  /\ ledger = [k \in AllKeys |-> NoEntry] /\ granted = 0
  /\ order = [o \in Orders |-> NoOrder]
  /\ session = [s \in Sessions |-> NoSession]
  /\ device = [u \in Chips |-> None]
  /\ tag = [a \in Assets |-> None]
  /\ pc = [c \in Calls |-> "idle"] /\ job = [c \in Calls |-> NoJob]
  /\ reported = {} /\ forced = {}

Request(c) ==
  \/ \E k \in {Chosen(k) : k \in Keys} \cup {None} : Grant(c, k)
  \/ \E a \in Assets : \E k \in {Chosen(k) : k \in Keys} \cup {ReserveKey(a)} : Reserve(c, a, k)
  \/ \E o \in Orders : \/ \E k \in {Chosen(k) : k \in Keys} \cup {ReleaseKey(o)} : Release(c, o, k)
                       \/ \E s \in Edits : Transition(c, o, s)
  \/ \E a \in Assets, o \in Orders \cup {None}, u \in Chips : Start(c, a, o, u)
  \/ \E s \in Sessions, success \in BOOLEAN : Confirm(c, s, success)

Step(c) == \/ Find(c) \/ CheckBalance(c) \/ Write(c)
           \/ Move(c) \/ CreateSession(c) \/ Encoding(c)
           \/ Report(c) \/ UpsertDevice(c) \/ LinkAsset(c) \/ Activate(c) \/ EncodingFailed(c)

Next == \E c \in Calls : Request(c) \/ Step(c) \/ Die(c)

Spec == Init /\ [][Next]_vars
-----------------------------------------------------------------------------
Places == {"idle", "find", "balance", "write", "move", "start", "encoding",
           "report", "device", "link", "activate", "failed"}

\* Entries, orders, sessions, devices and calls are well typed.
TypeOK ==
  /\ ledger \in [AllKeys -> [kind : {"none", "GRANTED", "RESERVED", "RELEASED", "CONSUMED"},
                             order : Orders \cup {None}]]
  /\ granted \in Nat
  /\ order \in [Orders -> [status : Statuses \cup {"ABSENT"}, asset : Assets \cup {None}]]
  /\ session \in [Sessions -> [status : {"ABSENT", "IN_PROGRESS", "COMPLETED", "FAILED"},
                               order : Orders \cup {None}, asset : Assets \cup {None},
                               chip : Chips \cup {None}]]
  /\ device \in [Chips -> Sessions \cup {None}]
  /\ tag \in [Assets -> Chips \cup {None}]
  /\ pc \in [Calls -> Places]
  /\ \A c \in Calls : pc[c] = "idle" <=> job[c] = NoJob
  /\ reported \subseteq Sessions /\ forced \subseteq Orders

Has(kind, o) == \E k \in AllKeys : ledger[k] = Entry(kind, o)

\* The entry and the order of a reservation are one: every order was reserved, by one
\* entry, and what is released or consumed is the reservation of an order.
ReservedTogether ==
  /\ \A o \in Orders : order[o].status # "ABSENT" =>
       \E k \in AllKeys : /\ ledger[k] = Entry("RESERVED", o)
                          /\ \A l \in AllKeys \ {k} : ledger[l] # Entry("RESERVED", o)
  /\ \A k \in AllKeys : ledger[k].kind \in {"RESERVED", "RELEASED", "CONSUMED"} =>
       order[ledger[k].order].status # "ABSENT"

\* confirm activates an order only after a station reported its tag as written, the
\* tag's device is known and linked, and the QTAG is paid for; anything else that is
\* ACTIVATED was set by an administrator.
ActivatedIsComplete ==
  \A o \in Orders : order[o].status = "ACTIVATED" =>
    \/ o \in forced
    \/ /\ Has("CONSUMED", o)
       /\ tag[order[o].asset] # None
       /\ \E s \in reported : session[s].order = o /\ device[session[s].chip] # None

\* However confirmations are repeated and overlap, an asset's chip is one that a
\* station reported for a session of that asset and is nobody else's, and the device of
\* a chip has keys that were reported as written to that chip.
TagsAreTrue ==
  /\ \A a, b \in Assets : a # b /\ tag[a] # None => tag[a] # tag[b]
  /\ \A a \in Assets : tag[a] # None =>
       /\ device[tag[a]] # None
       /\ \E s \in reported : session[s].asset = a /\ session[s].chip = tag[a]
  /\ \A u \in Chips : device[u] # None => device[u] \in reported /\ session[device[u]].chip = u

\* Two orders of one asset are never both reserved under the key that the code makes:
\* a repeated reservation returns the first.
OneOrderPerAsset ==
  \A o, p \in Orders : o # p /\ order[o].asset = order[p].asset /\ order[o].asset # None =>
    \E q \in {o, p} : \E k \in Keys : ledger[Chosen(k)] = Entry("RESERVED", q)
=============================================================================
