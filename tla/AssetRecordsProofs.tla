------------------------- MODULE AssetRecordsProofs -------------------------
(***************************************************************************)
(* Safety of AssetRecords for every number of assets, owners, tags,        *)
(* payments, calls and failures.  A call relies on rows that it has read   *)
(* and that others may write.  Each row it relies on it holds, and of two  *)
(* calls that hold one row the second puts it into disturbed (Apart): of a *)
(* row that is not there, what a call has read is still true.              *)
(***************************************************************************)
EXTENDS AssetRecords, TLAPS

\* The steps of a transfer and of a payment, both of which hold the asset's row.
AssetSteps == {"shadow", "await", "initiated", "prefer", "activate", "confirm", "close"}

\* The steps of a batch of notices.
BatchSteps == {"batch", "activate", "confirm", "close"}

\* Call x is somewhere between reading asset a and its last write.
At(x, a) == x.step \in AssetSteps /\ x.at[1] = a

\* Every call is a record of its five parts, and holds the rows it relies on.
Shaped(x) ==
  /\ x = [step |-> x.step, at |-> x.at, arg |-> x.arg, rest |-> x.rest, holds |-> x.holds]
  /\ x.rest \subseteq Notices

Holding(x) ==
  /\ x.step = "idle" => x.holds = {}
  /\ x.step \notin BatchSteps => x.rest = {}
  /\ \A a \in Assets, r \in Refs : x.step \in {"revoke", "accept"} /\ x.at = <<a, r>> => OwnerRow(a, r) \in x.holds
  /\ \A d \in Devices : x.step = "tap" /\ x.at = <<d>> => DeviceRow(d) \in x.holds
  /\ \A a \in Assets : AssetRow(a) \in x.holds <=> At(x, a)
  /\ x.step = "review" => x.arg[1] \in {"APPROVED", "REJECTED"}
  /\ x.step = "tap" => x.arg \in 1 .. MaxCounter

\* No two calls hold a row that is not disturbed.
Apart == \A c, d \in Calls : c # d => call[c].holds \cap call[d].holds \subseteq disturbed

CallInv ==
  /\ call = [c \in Calls |-> call[c]]
  /\ \A c \in Calls : Shaped(call[c]) /\ Holding(call[c])
  /\ Apart

TypeInv == TypeOK /\ CallInv

\* Nobody is told anything of an asset that is not registered yet; who is about to
\* accept found the owner active.
Owning(a, r) ==
  /\ told[a][r] = "GRANTED" => owner[a][r].state = "active"
  /\ told[a][r] = "REVOKED" => owner[a][r].state = "revoked"
  /\ told[a][r] = "ACCEPTED" /\ OwnerRow(a, r) \notin disturbed => owner[a][r].state = "active"
  /\ asset[a] = "ABSENT" => told[a][r] = "none" /\ owner[a][r].state # "active"
  /\ \A c \in Calls : call[c].step \in {"grant", "revoke", "accept", "shadow"} /\ call[c].at = <<a, r>> =>
       /\ asset[a] # "ABSENT"
       /\ call[c].step = "accept" /\ OwnerRow(a, r) \notin disturbed => owner[a][r].state = "active"

\* Who is about to decide found the contribution waiting: it still is, unless another
\* decided since.
Reviewing(p) ==
  /\ contribution[p] = "PENDING_APPROVAL" => published[p] = 0
  /\ contribution[p] = "APPROVED" => published[p] \in 1 .. 1 + late[p]
  /\ contribution[p] = "REJECTED" => published[p] <= late[p]
  /\ \A c \in Calls : call[c].step = "review" /\ call[c].at = <<p>> =>
       /\ contribution[p] # "none"
       /\ call[c].arg[2] \in 0 .. decided[p]
       /\ call[c].arg[2] = decided[p] => contribution[p] = "PENDING_APPROVAL"

\* A tag that is not registered was never read; a reading of a QTAG is ahead.
Tapping(d) ==
  /\ (d \in QTags => DeviceRow(d) \notin disturbed) =>
       \A n \in 1 .. MaxCounter : valid[d][n] <= (IF n <= last[d] THEN 1 ELSE 0)
  /\ d \notin registered => d \notin QTags /\ last[d] = 0
  /\ \A c \in Calls : call[c].step = "tap" /\ call[c].at = <<d>> =>
       /\ d \in registered
       /\ d \in QTags /\ DeviceRow(d) \notin disturbed => call[c].arg > last[d]

\* What the books on asset a say while a call is at step s, and while none is.  There is
\* no call at an asset that is not registered yet.
Due(a) == started[a] + byHand[a]
Stage(s, a) ==
  /\ confirmed[a] <= Due(a)
  /\ s \in {"prefer", "activate", "confirm"} => confirmed[a] < Due(a)
  /\ s \in {"shadow", "confirm", "close"} => asset[a] # "AWAITING_PAYMENT"
Settled(a) ==
  /\ confirmed[a] <= Due(a)
  /\ asset[a] = "AWAITING_PAYMENT" => confirmed[a] < Due(a)
Paying(a) ==
  /\ AssetRow(a) \notin disturbed =>
       /\ \A c \in Calls : At(call[c], a) => Stage(call[c].step, a)
       /\ (\A c \in Calls : ~ At(call[c], a)) => Settled(a)
  /\ asset[a] = "ABSENT" => \A c \in Calls : ~ At(call[c], a)

\* What call c has left of its batch is claimed, by it alone, and has confirmed nothing,
\* but for the notice that is about to be closed.
Claimed(c) ==
  /\ call[c].step \in {"activate", "confirm", "close"} => call[c].at[2] \in call[c].rest
  /\ \A n \in call[c].rest :
       /\ inbox[n].status = "PROCESSING"
       /\ acted[n] = 0 \/ (call[c].step = "close" /\ call[c].at[2] = n)
Noticing(n) ==
  /\ acted[n] <= IF inbox[n].status \in {"none", "PENDING"} THEN 0 ELSE 1
  /\ \A c, d \in Calls : n \in call[c].rest /\ n \in call[d].rest => c = d

OwnInv    == \A a \in Assets, r \in Refs : Owning(a, r)
ReviewInv == \A p \in Contributions : Reviewing(p)
TapInv    == \A d \in Devices : Tapping(d)
PayInv    == \A a \in Assets : Paying(a)
NoticeInv == (\A c \in Calls : Claimed(c)) /\ (\A n \in Notices : Noticing(n))
-----------------------------------------------------------------------------
(* Calls *)

\* Call c moves, the others stand still.
StepOf(c) == \A d \in Calls \ {c} : call'[d] = call[d]

\* A call may come to hold what nobody holds, or what is disturbed by that.
LEMMA CallStep ==
  ASSUME CallInv, NEW c \in Calls, NEW x, Shaped(x), Holding(x), call' = [call EXCEPT ![c] = x],
         disturbed \subseteq disturbed', \A d \in Calls \ {c} : x.holds \cap call[d].holds \subseteq disturbed'
  PROVE  CallInv' /\ StepOf(c) /\ call'[c] = x
<1>1. call'[c] = x /\ StepOf(c) /\ call' = [d \in Calls |-> call'[d]]
  BY DEF CallInv, StepOf
<1>2. ASSUME NEW d \in Calls PROVE Shaped(call'[d]) /\ Holding(call'[d])
  BY <1>1 DEF CallInv, StepOf
<1>3. Apart'
  BY <1>1 DEF CallInv, Apart, StepOf
<1> QED
  BY <1>1, <1>2, <1>3 DEF CallInv, Shaped, Holding, At

\* The rows that a call comes to hold in a step are its own, or disturbed.
LEMMA GoOnCalls ==
  ASSUME CallInv, NEW c \in Calls, NEW s, NEW at, NEW arg, NEW rest, NEW holds,
         GoOn(c, s, at, arg, rest, holds), NEW x,
         x = [step |-> s, at |-> at, arg |-> arg, rest |-> rest, holds |-> holds], rest \subseteq Notices, Holding(x)
  PROVE  /\ CallInv' /\ StepOf(c) /\ call'[c] = x /\ disturbed \subseteq disturbed'
         /\ \A h \in holds : h \notin disturbed' => \A d \in Calls \ {c} : h \notin call[d].holds
<1>1. \A h \in holds, d \in Calls \ {c} : h \in call[d].holds => h \in Others(c)
  BY DEF Others
<1>2. disturbed' = disturbed \cup (holds \cap Others(c)) /\ call' = [call EXCEPT ![c] = x]
  BY DEF GoOn
<1>3. Shaped(x) /\ x.holds = holds
  BY DEF Shaped
<1>4. \A d \in Calls \ {c} : x.holds \cap call[d].holds \subseteq disturbed'
  BY <1>1, <1>2, <1>3
<1>5. disturbed \subseteq disturbed' /\ call' = [call EXCEPT ![c] = x]
  BY <1>2
<1>6. ASSUME NEW y, y = x PROVE CallInv' /\ StepOf(c) /\ call'[c] = y
  <2>1. /\ Shaped(y) /\ Holding(y) /\ call' = [call EXCEPT ![c] = y]
        /\ \A d \in Calls \ {c} : y.holds \cap call[d].holds \subseteq disturbed'
    BY <1>3, <1>4, <1>5, <1>6
  <2> QED
    BY ONLY <1>5, <2>1, CallInv, c \in Calls, CallStep
<1> QED
  BY <1>1, <1>2, <1>6

\* An idle call holds nothing, nor does a batch between two notices.
LEMMA IdleHolds ==
  /\ Shaped(Idle) /\ Holding(Idle) /\ Idle.step = "idle" /\ Idle.holds = {}
  /\ \A R \in SUBSET Notices : LET b == [Idle EXCEPT !.step = "batch", !.rest = R] IN
       Shaped(b) /\ Holding(b) /\ b.step = "batch" /\ b.holds = {}
<1>1. ASSUME NEW x, x.step = "batch" \/ (x.step = "idle" /\ x.rest = {}), x.holds = {}
      PROVE  Holding(x)
  BY <1>1 DEF Holding, At, AssetSteps, BatchSteps
<1>2. Shaped(Idle) /\ Idle.step = "idle" /\ Idle.holds = {} /\ Idle.rest = {}
  BY DEF Shaped, Idle
<1>3. ASSUME NEW R \in SUBSET Notices, NEW b, b = [Idle EXCEPT !.step = "batch", !.rest = R]
      PROVE  Shaped(b) /\ b.step = "batch" /\ b.holds = {}
  BY <1>3 DEF Shaped, Idle
<1> QED
  BY <1>1, <1>2, <1>3

\* What a call holds does not change while it walks on.
LEMMA MoveCalls ==
  ASSUME CallInv, NEW c \in Calls, NEW l \in AssetSteps, Move(c, l), disturbed' = disturbed,
         NEW k, k = call[c], k.step \in AssetSteps, l \in BatchSteps \/ k.step \notin BatchSteps
  PROVE  /\ CallInv' /\ StepOf(c)
         /\ call'[c] = [step |-> l, at |-> k.at, arg |-> k.arg, rest |-> k.rest, holds |-> k.holds]
<1>1. Shaped(k) /\ Holding(k)
  BY DEF CallInv
<1>x. PICK x : x = [step |-> l, at |-> k.at, arg |-> k.arg, rest |-> k.rest, holds |-> k.holds]
  OBVIOUS
<1>2. call' = [call EXCEPT ![c] = x]
  <2>1. [k EXCEPT !.step = l] = x
    BY <1>1, <1>x DEF Shaped
  <2> QED
    BY <2>1 DEF Move
<1>3. Shaped(x) /\ Holding(x) /\ x.holds = k.holds
  BY <1>1, <1>x DEF Shaped, Holding, At, AssetSteps, BatchSteps
<1>4. \A d \in Calls \ {c} : x.holds \cap call[d].holds \subseteq disturbed'
  BY <1>3 DEF CallInv, Apart
<1>5. disturbed \subseteq disturbed'
  OBVIOUS
<1>6. CallInv' /\ StepOf(c) /\ call'[c] = x
  BY <1>2, <1>3, <1>4, <1>5, CallStep, Zenon
<1> QED
  BY <1>6, <1>x

LEMMA MoveStep ==
  ASSUME CallInv, NEW c \in Calls, NEW l, Move(c, l)
  PROVE  call'[c].step = l
<1>1. PICK k : k = call[c]
  OBVIOUS
<1>2. call'[c] = [k EXCEPT !.step = l]
  BY <1>1 DEF Move, CallInv
<1>3. k = [step |-> k.step, at |-> k.at, arg |-> k.arg, rest |-> k.rest, holds |-> k.holds]
  BY <1>1 DEF CallInv, Shaped
<1> QED
  BY <1>2, <1>3

\* A call that is through holds nothing any more.
LEMMA FinishCalls ==
  ASSUME CallInv, NEW c \in Calls, Finish(c), disturbed \subseteq disturbed'
  PROVE  CallInv' /\ StepOf(c) /\ call'[c] = Idle
BY IdleHolds, CallStep DEF Finish

\* What two calls hold is disturbed.
LEMMA HeldTwice ==
  ASSUME CallInv, NEW c \in Calls, NEW d \in Calls, c # d, NEW h, h \in call[c].holds, h \in call[d].holds
  PROVE  h \in disturbed
BY DEF CallInv, Apart

\* Rows of different tables are different.
LEMMA RowsDiffer ==
  /\ \A a, b, r : AssetRow(a) # OwnerRow(b, r)
  /\ \A a, d : AssetRow(a) # DeviceRow(d)
  /\ \A a, b : AssetRow(a) = AssetRow(b) => a = b
  /\ \A a, b, r, q : OwnerRow(a, r) = OwnerRow(b, q) => a = b /\ r = q
BY DEF AssetRow, OwnerRow, DeviceRow

\* Call c takes a step among the steps of S, and disturbs no more than it says.
Moves(c, S) ==
  /\ CallInv' /\ StepOf(c) /\ disturbed \subseteq disturbed'
  /\ call[c].step \in S /\ call'[c].step \in S

\* A call that begins has been idle.
LEMMA BeginCalls ==
  ASSUME CallInv, NEW c \in Calls, NEW S, NEW s \in S, "idle" \in S, NEW at, NEW arg, NEW holds,
         Begin(c, s, at, arg, holds), NEW x,
         x = [step |-> s, at |-> at, arg |-> arg, rest |-> {}, holds |-> holds], Holding(x)
  PROVE  /\ Moves(c, S) /\ UNCHANGED rows /\ call'[c] = x /\ call[c].step = "idle"
         /\ \A h \in holds : h \notin disturbed' => \A d \in Calls : h \notin call[d].holds
<1>1. call[c].step = "idle" /\ UNCHANGED rows /\ GoOn(c, s, at, arg, {}, holds)
  BY DEF Begin
<1>2. PICK e : e = {}
  OBVIOUS
<1>3. e \subseteq Notices /\ GoOn(c, s, at, arg, e, holds)
      /\ x = [step |-> s, at |-> at, arg |-> arg, rest |-> e, holds |-> holds]
  BY <1>1, <1>2
<1>4. /\ CallInv' /\ StepOf(c) /\ call'[c] = x /\ disturbed \subseteq disturbed'
      /\ \A h \in holds : h \notin disturbed' => \A d \in Calls \ {c} : h \notin call[d].holds
  BY ONLY <1>3, Holding(x), CallInv, c \in Calls, GoOnCalls
<1>5. call[c].holds = {} /\ x.step = s
  BY <1>1 DEF CallInv, Holding
<1> QED
  BY <1>1, <1>4, <1>5 DEF Moves

RegistrySteps == {"idle", "grant", "revoke", "accept"}

\* addOwner, revokeOwner and acceptOwner.
LEMMA RegistryMoves ==
  ASSUME CallInv, NEW c \in Calls, Registry(c)
  PROVE  Moves(c, RegistrySteps) /\ UNCHANGED <<asset, curation, tags, transfer, billing, payment>>
<1>1. ASSUME NEW a \in Assets, NEW r \in Refs, NEW s \in {"grant", "revoke", "accept"}, NEW arg,
             Begin(c, s, <<a, r>>, arg, {OwnerRow(a, r)})
      PROVE  Moves(c, RegistrySteps) /\ UNCHANGED rows
  <2>1. PICK x : x = [step |-> s, at |-> <<a, r>>, arg |-> arg, rest |-> {}, holds |-> {OwnerRow(a, r)}]
    OBVIOUS
  <2>2. Holding(x)
    BY <2>1, RowsDiffer DEF Holding, At, AssetSteps
  <2>3. s \in RegistrySteps /\ "idle" \in RegistrySteps
    BY DEF RegistrySteps
  <2> QED
    BY <1>1, <2>1, <2>2, <2>3, BeginCalls
<1>2. ASSUME Grant(c) \/ Revoke(c) \/ Accept(c)
      PROVE  Moves(c, RegistrySteps) /\ UNCHANGED <<asset, curation, tags, transfer, billing, payment>>
  <2>1. /\ call[c].step \in RegistrySteps /\ Finish(c) /\ disturbed' = disturbed
        /\ UNCHANGED <<asset, curation, tags, transfer, billing, payment>>
    BY <1>2 DEF Grant, Revoke, Accept, RegistrySteps, Steady
  <2> QED
    BY <2>1, FinishCalls, IdleHolds DEF Moves, RegistrySteps
<1> QED
  BY <1>1, <1>2 DEF Registry, FindOwner, FindRevocable, FindAcceptable, rows

\* reviewContribution.
LEMMA CurationMoves ==
  ASSUME CallInv, NEW c \in Calls, Curation(c)
  PROVE  Moves(c, {"idle", "review"}) /\ UNCHANGED <<asset, owner, told, tags, transfer, billing, payment>>
<1>1. ASSUME NEW p \in Contributions, NEW decision \in {"APPROVED", "REJECTED"}, FindPending(c, p, decision)
      PROVE  Moves(c, {"idle", "review"}) /\ UNCHANGED rows
  <2>1. PICK x : x = [step |-> "review", at |-> <<p>>, arg |-> <<decision, decided[p]>>, rest |-> {}, holds |-> {}]
    OBVIOUS
  <2>2. Holding(x)
    BY <2>1, RowsDiffer DEF Holding, At, AssetSteps
  <2>3. Begin(c, "review", <<p>>, <<decision, decided[p]>>, {})
    BY <1>1 DEF FindPending
  <2> QED
    BY <2>1, <2>2, <2>3, BeginCalls
<1>2. ASSUME Decide(c)
      PROVE  Moves(c, {"idle", "review"}) /\ UNCHANGED <<asset, owner, told, tags, transfer, billing, payment>>
  <2>1. /\ call[c].step = "review" /\ Finish(c) /\ disturbed' = disturbed
        /\ UNCHANGED <<asset, owner, told, tags, transfer, billing, payment>>
    BY <1>2 DEF Decide, Steady
  <2> QED
    BY <2>1, FinishCalls, IdleHolds DEF Moves
<1> QED
  BY <1>1, <1>2 DEF Curation, rows

\* The two readers of taps.
LEMMA TapsMoves ==
  ASSUME CallInv, NEW c \in Calls, Taps(c)
  PROVE  Moves(c, {"idle", "tap"}) /\ UNCHANGED <<asset, owner, told, curation, transfer, billing, payment>>
<1>1. ASSUME NEW d \in Devices, NEW n \in 1 .. MaxCounter, ReadGuarded(c, d, n) \/ ReadQTag(c, d, n)
      PROVE  Moves(c, {"idle", "tap"}) /\ UNCHANGED rows
  <2>1. PICK x : x = [step |-> "tap", at |-> <<d>>, arg |-> n, rest |-> {}, holds |-> {DeviceRow(d)}]
    OBVIOUS
  <2>2. Holding(x)
    BY <2>1, RowsDiffer DEF Holding, At, AssetSteps
  <2>3. Begin(c, "tap", <<d>>, n, {DeviceRow(d)})
    BY <1>1 DEF ReadGuarded, ReadQTag
  <2> QED
    BY <2>1, <2>2, <2>3, BeginCalls
<1>2. ASSUME GuardTap(c) \/ VerifyTap(c)
      PROVE  Moves(c, {"idle", "tap"}) /\ UNCHANGED <<asset, owner, told, curation, transfer, billing, payment>>
  <2>1. /\ call[c].step = "tap" /\ Finish(c) /\ disturbed' = disturbed
        /\ UNCHANGED <<asset, owner, told, curation, transfer, billing, payment>>
    BY <1>2 DEF GuardTap, VerifyTap, Steady
  <2> QED
    BY <2>1, FinishCalls, IdleHolds DEF Moves
<1> QED
  BY <1>1, <1>2 DEF Taps, rows

TransferSteps == {"idle", "shadow", "await", "initiated", "prefer"}

\* A transfer that begins holds the rows of its asset and of its buyer.
LEMMA FindBuyerMoves ==
  ASSUME CallInv, NEW c \in Calls, NEW a \in Assets, NEW r \in Refs, FindBuyer(c, a, r)
  PROVE  /\ Moves(c, TransferSteps) /\ UNCHANGED rows
         /\ call'[c].at = <<a, r>> /\ call'[c].step \in {"shadow", "await"} /\ call[c].step = "idle"
         /\ AssetRow(a) \notin disturbed' => \A d \in Calls : AssetRow(a) \notin call[d].holds
<1>1. PICK s \in {"shadow", "await"} : Begin(c, s, <<a, r>>, "none", {AssetRow(a), OwnerRow(a, r)})
  BY DEF FindBuyer
<1>2. PICK x : x = [step |-> s, at |-> <<a, r>>, arg |-> "none", rest |-> {}, holds |-> {AssetRow(a), OwnerRow(a, r)}]
  OBVIOUS
<1>3. Holding(x)
  BY <1>2, RowsDiffer DEF Holding, At, AssetSteps
<1>4. s \in TransferSteps /\ "idle" \in TransferSteps
  BY DEF TransferSteps
<1>5. /\ Moves(c, TransferSteps) /\ UNCHANGED rows /\ call'[c] = x /\ call[c].step = "idle"
      /\ \A h \in {AssetRow(a), OwnerRow(a, r)} : h \notin disturbed' => \A d \in Calls : h \notin call[d].holds
  BY <1>1, <1>2, <1>3, <1>4, BeginCalls
<1> QED
  BY <1>2, <1>5

\* The steps of a transfer.
LEMMA TransferMoves ==
  ASSUME CallInv, NEW c \in Calls,
         ShadowAccount(c) \/ AwaitPayment(c) \/ TellTransfer(c) \/ CreatePaymentPreference(c)
  PROVE  Moves(c, TransferSteps) /\ disturbed' = disturbed
         /\ (call'[c] = Idle \/ (call'[c].at = call[c].at /\ call'[c].step \in AssetSteps))
<1>1. /\ call[c].step \in TransferSteps \cap AssetSteps /\ disturbed' = disturbed
      /\ Finish(c) \/ \E l \in TransferSteps \cap AssetSteps : Move(c, l)
  BY DEF ShadowAccount, AwaitPayment, TellTransfer, CreatePaymentPreference, Steady, TransferSteps, AssetSteps
<1>2. CASE Finish(c)
  BY <1>1, <1>2, FinishCalls, IdleHolds DEF Moves, TransferSteps
<1>3. ASSUME NEW l \in TransferSteps \cap AssetSteps, Move(c, l)
      PROVE  Moves(c, TransferSteps) /\ call'[c].at = call[c].at /\ call'[c].step \in AssetSteps
  <2>1. PICK k : k = call[c]
    OBVIOUS
  <2>2. /\ CallInv' /\ StepOf(c)
        /\ call'[c] = [step |-> l, at |-> k.at, arg |-> k.arg, rest |-> k.rest, holds |-> k.holds]
    <3>1. k.step \notin BatchSteps
      BY <1>1, <2>1 DEF TransferSteps, AssetSteps, BatchSteps
    <3> QED
      BY <1>1, <1>3, <2>1, <3>1, MoveCalls
  <2> QED
    BY <1>1, <2>1, <2>2 DEF Moves
<1> QED
  BY <1>1, <1>2, <1>3

BillingSteps == {"idle", "batch", "activate", "confirm", "close"}

\* What processPaymentWebhook finds, for notice n of a payment of asset a.
Finds(c, a, n) ==
  /\ call[c].step = "batch" /\ n \in call[c].rest /\ a = payment[inbox[n].payment]
  /\ IF asset[a] = "AWAITING_PAYMENT"
       THEN GoOn(c, "activate", <<a, n>>, "none", call[c].rest, {AssetRow(a)}) /\ UNCHANGED inbox
       ELSE /\ GoOn(c, "batch", <<>>, "none", call[c].rest \ {n}, {})
            /\ inbox' = [inbox EXCEPT ![n].status = "DONE"]

\* A batch looks up the asset of its next notice, and holds it only if it awaits a payment.
LEMMA FindAwaitingMoves ==
  ASSUME CallInv, NEW c \in Calls, FindAwaiting(c)
  PROVE  /\ Moves(c, BillingSteps) /\ call[c].step = "batch"
         /\ UNCHANGED <<asset, owner, told, curation, tags, transfer, confirmed, acted, payment>>
         /\ \/ call'[c].step = "batch"
            \/ \E a, n : /\ asset[a] = "AWAITING_PAYMENT"
                         /\ call'[c].step = "activate" /\ call'[c].at = <<a, n>>
                         /\ a \in Assets /\ AssetRow(a) \notin disturbed' =>
                              \A d \in Calls : AssetRow(a) \notin call[d].holds
<1>1. PICK n \in Notices : Finds(c, payment[inbox[n].payment], n)
  BY DEF FindAwaiting, Finds, CallInv, Shaped
<1>2. PICK a : a = payment[inbox[n].payment] /\ Finds(c, a, n)
  BY <1>1
<1>u. /\ call[c].step = "batch" /\ call[c].rest \subseteq Notices
      /\ UNCHANGED <<asset, owner, told, curation, tags, transfer, confirmed, acted, payment>>
  BY <1>2 DEF Finds, FindAwaiting, CallInv, Shaped
<1>r. PICK R : R = call[c].rest
  OBVIOUS
<1>3. CASE asset[a] = "AWAITING_PAYMENT"
  <2>1. GoOn(c, "activate", <<a, n>>, "none", R, {AssetRow(a)})
    BY <1>2, <1>3, <1>r DEF Finds
  <2>2. PICK x : x = [step |-> "activate", at |-> <<a, n>>, arg |-> "none", rest |-> R, holds |-> {AssetRow(a)}]
    OBVIOUS
  <2>3. Holding(x)
    BY <2>2, RowsDiffer DEF Holding, At, AssetSteps, BatchSteps
  <2>4. R \subseteq Notices
    BY <1>u, <1>r
  <2>5. /\ CallInv' /\ StepOf(c) /\ call'[c] = x /\ disturbed \subseteq disturbed'
        /\ \A h \in {AssetRow(a)} : h \notin disturbed' => \A d \in Calls \ {c} : h \notin call[d].holds
    BY ONLY <2>1, <2>2, <2>3, <2>4, CallInv, c \in Calls, GoOnCalls
  <2>6. a \in Assets => AssetRow(a) \notin call[c].holds
    BY <1>u DEF CallInv, Holding, At, AssetSteps
  <2> QED
    BY <1>3, <1>u, <2>2, <2>5, <2>6 DEF Moves, BillingSteps
<1>4. CASE asset[a] # "AWAITING_PAYMENT"
  <2>1. PICK Q : Q = R \ {n}
    OBVIOUS
  <2>e. PICK e : e = {}
    OBVIOUS
  <2>2. GoOn(c, "batch", <<>>, "none", Q, e)
    BY <1>2, <1>4, <1>r, <2>1, <2>e DEF Finds
  <2>3. PICK x : x = [step |-> "batch", at |-> <<>>, arg |-> "none", rest |-> Q, holds |-> e]
    OBVIOUS
  <2>4. Holding(x)
    BY <2>3, <2>e DEF Holding, At, AssetSteps, BatchSteps
  <2>5. Q \subseteq Notices
    BY <1>u, <1>r, <2>1
  <2>6. CallInv' /\ StepOf(c) /\ call'[c] = x /\ disturbed \subseteq disturbed'
    BY ONLY <2>2, <2>3, <2>4, <2>5, CallInv, c \in Calls, GoOnCalls
  <2> QED
    BY <1>u, <2>3, <2>6 DEF Moves, BillingSteps
<1> QED
  BY <1>3, <1>4

\* A batch takes all the notices that wait.
LEMMA ClaimNoticesMoves ==
  ASSUME CallInv, NEW c \in Calls, ClaimNotices(c)
  PROVE  /\ Moves(c, BillingSteps) /\ call[c].step = "idle" /\ call'[c].step = "batch"
         /\ UNCHANGED <<asset, owner, told, curation, tags, transfer, confirmed, acted, payment>>
<1>1. PICK R \in SUBSET Notices : GoOn(c, "batch", <<>>, "none", R, {})
  BY DEF ClaimNotices
<1>2. PICK x : x = [step |-> "batch", at |-> <<>>, arg |-> "none", rest |-> R, holds |-> {}]
  OBVIOUS
<1>3. Holding(x)
  BY <1>2 DEF Holding, At, AssetSteps, BatchSteps
<1>4. R \subseteq Notices
  OBVIOUS
<1>5. CallInv' /\ StepOf(c) /\ call'[c] = x /\ disturbed \subseteq disturbed'
  BY ONLY <1>1, <1>2, <1>3, <1>4, CallInv, c \in Calls, GoOnCalls
<1> QED
  BY <1>2, <1>5 DEF Moves, BillingSteps, ClaimNotices

\* A notice that is closed leaves its batch, which holds nothing until the next.
LEMMA CloseNoticeMoves ==
  ASSUME CallInv, NEW c \in Calls, NEW s, CloseNotice(c, s), disturbed \subseteq disturbed',
         call[c].step \in BillingSteps
  PROVE  /\ Moves(c, BillingSteps) /\ call'[c].step = "batch" /\ call'[c].holds = {}
         /\ UNCHANGED <<asset, owner, told, curation, tags, transfer, confirmed, acted, payment>>
<1>1. PICK n \in Notices : call' = [call EXCEPT ![c] = [Idle EXCEPT !.step = "batch", !.rest = call[c].rest \ {n}]]
  BY DEF CloseNotice
<1>2. PICK R : R = call[c].rest \ {n}
  OBVIOUS
<1>3. R \in SUBSET Notices
  BY <1>2 DEF CallInv, Shaped
<1>4. PICK b : b = [Idle EXCEPT !.step = "batch", !.rest = R]
  OBVIOUS
<1>5. Shaped(b) /\ Holding(b) /\ b.step = "batch" /\ b.holds = {}
  BY <1>3, <1>4, IdleHolds
<1>6. call' = [call EXCEPT ![c] = b]
  BY <1>1, <1>2, <1>4
<1>7. \A d \in Calls \ {c} : b.holds \cap call[d].holds \subseteq disturbed'
  BY <1>5
<1>8. CallInv' /\ StepOf(c) /\ call'[c] = b
  BY <1>5, <1>6, <1>7, CallStep
<1> QED
  BY <1>5, <1>8 DEF Moves, BillingSteps, CloseNotice

\* The steps of a payment.
LEMMA PaymentMoves ==
  ASSUME CallInv, NEW c \in Calls, Activate(c) \/ TellPayment(c)
  PROVE  /\ Moves(c, BillingSteps) /\ disturbed' = disturbed
         /\ call'[c].at = call[c].at /\ call'[c].step \in AssetSteps
<1>1. /\ call[c].step \in BillingSteps \cap AssetSteps /\ disturbed' = disturbed
      /\ \E l \in BillingSteps \cap AssetSteps : Move(c, l)
  BY DEF Activate, TellPayment, Steady, BillingSteps, AssetSteps
<1>2. PICK l \in BillingSteps \cap AssetSteps : Move(c, l)
  BY <1>1
<1>3. PICK k : k = call[c]
  OBVIOUS
<1>4. /\ CallInv' /\ StepOf(c)
      /\ call'[c] = [step |-> l, at |-> k.at, arg |-> k.arg, rest |-> k.rest, holds |-> k.holds]
  <2>1. l \in BatchSteps
    BY <1>2 DEF BillingSteps, AssetSteps, BatchSteps
  <2> QED
    BY <1>1, <1>2, <1>3, <2>1, MoveCalls
<1> QED
  BY <1>1, <1>3, <1>4 DEF Moves

\* processWebhookInbox and processPaymentWebhook.
LEMMA BillingMoves ==
  ASSUME CallInv, NEW c \in Calls, Billing(c)
  PROVE  Moves(c, BillingSteps) /\ UNCHANGED <<owner, told, curation, tags, transfer, payment>>
<1>1. CASE EndBatch(c)
  BY <1>1, FinishCalls, IdleHolds DEF EndBatch, Steady, Moves, BillingSteps, rows
<1>2. CASE call[c].step = "close" /\ CloseNotice(c, "DONE") /\ UNCHANGED <<faults, disturbed>>
  BY <1>2, CloseNoticeMoves DEF BillingSteps
<1>3. CASE Activate(c) \/ TellPayment(c)
  BY <1>3, PaymentMoves DEF Activate, TellPayment, billing
<1> QED
  BY <1>1, <1>2, <1>3, ClaimNoticesMoves, FindAwaitingMoves DEF Billing

\* What a call that fails or dies held is disturbed from then on.
LEMMA CutMoves ==
  ASSUME CallInv, NEW c \in Calls, Throw(c) \/ Die(c)
  PROVE  /\ CallInv' /\ StepOf(c) /\ disturbed \subseteq disturbed' /\ call[c].holds \subseteq disturbed'
         /\ call'[c].step \in {"idle", "batch"} /\ call'[c].holds = {}
         /\ UNCHANGED <<asset, owner, told, curation, tags, transfer, confirmed, acted, payment>>
<1>1. disturbed \subseteq disturbed' /\ call[c].holds \subseteq disturbed'
  BY DEF Throw, Die, Cut
<1>2. CASE Throw(c)
  BY <1>1, <1>2, CloseNoticeMoves DEF Throw, BillingSteps, Moves
<1>3. CASE Die(c)
  BY <1>1, <1>3, FinishCalls, IdleHolds DEF Die, rows, billing
<1> QED
  BY <1>2, <1>3
-----------------------------------------------------------------------------
(* Types *)

\* Calls stay as they are in steps that are not theirs.
LEMMA CallsKept ==
  ASSUME CallInv, UNCHANGED call, disturbed \subseteq disturbed'
  PROVE  CallInv'
BY DEF CallInv, Apart, Shaped, Holding, At

\* Initially.
LEMMA InitTypes == Init => TypeInv
<1> SUFFICES ASSUME Init PROVE TypeInv
  OBVIOUS
<1>1. /\ call = [c \in Calls |-> call[c]]
      /\ \A c \in Calls : call[c] = Idle
  BY DEF Init
<1>2. CallInv
  BY <1>1, IdleHolds DEF CallInv, Apart
<1>3. TypeOK
  <2>1. \A c \in Calls : call[c].rest \subseteq Notices
    BY <1>2 DEF CallInv, Shaped
  <2> QED
    BY <2>1, AssetRecordsAssumption DEF Init, TypeOK, Statuses, NoOwner
<1> QED
  BY <1>2, <1>3 DEF TypeInv

Owner  == [state : {"none", "active", "revoked"}, primary : BOOLEAN, document : BOOLEAN]
Owners == [Assets -> [Refs -> Owner]]
Told   == [Assets -> [Refs -> {"none", "GRANTED", "REVOKED", "ACCEPTED"}]]
Notice == [status : {"none", "PENDING", "PROCESSING", "DONE", "FAILED"}, payment : Payments \cup {None}]
Inbox  == [Notices -> Notice]

\* One row of an owner, or of a notice, is written.
LEMMA OwnerTypes ==
  ASSUME TypeInv, NEW a \in Assets, NEW r \in Refs, NEW x \in Owner
  PROVE  [owner EXCEPT ![a][r] = x] \in Owners
<1>1. owner \in Owners
  BY DEF TypeInv, TypeOK, Owners, Owner
<1> QED
  BY <1>1 DEF Owners

LEMMA ToldTypes ==
  ASSUME TypeInv, NEW a \in Assets, NEW r \in Refs, NEW x \in {"GRANTED", "REVOKED", "ACCEPTED"}
  PROVE  [told EXCEPT ![a][r] = x] \in Told
BY DEF TypeInv, TypeOK, Told

LEMMA NoticeTypes ==
  ASSUME TypeInv, NEW n \in Notices, NEW s \in {"PROCESSING", "DONE", "FAILED"}
  PROVE  /\ [inbox[n] EXCEPT !.status = s] \in Notice
         /\ [inbox EXCEPT ![n].status = s] \in Inbox
<1>1. inbox \in Inbox /\ inbox[n] \in Notice
  BY DEF TypeInv, TypeOK, Inbox, Notice
<1>2. PICK x : x = [inbox[n] EXCEPT !.status = s]
  OBVIOUS
<1>3. x \in Notice
  BY <1>1, <1>2 DEF Notice
<1>4. [inbox EXCEPT ![n] = x] \in Inbox
  BY <1>1, <1>3 DEF Inbox
<1> QED
  BY <1>2, <1>3, <1>4

\* What a call of the registry, of curation or of a tag writes.
LEMMA RowTypes ==
  ASSUME TypeInv, NEW c \in Calls, Registry(c) \/ Curation(c) \/ Taps(c)
  PROVE  TypeInv'
<1>1. CallInv' /\ \A d \in Calls : call'[d].rest \subseteq Notices
  BY RegistryMoves, CurationMoves, TapsMoves DEF TypeInv, Moves, CallInv, Shaped
<1>2. CASE Registry(c)
  <2>1. UNCHANGED <<asset, curation, tags, transfer, billing, payment>>
    BY <1>2, RegistryMoves DEF TypeInv
  <2>2. \A a \in Assets, r \in Refs, b \in BOOLEAN :
          /\ [owner[a][r] EXCEPT !.state = "active", !.primary = b] \in Owner
          /\ [owner[a][r] EXCEPT !.state = "revoked"] \in Owner
    <3> SUFFICES ASSUME NEW a \in Assets, NEW r \in Refs, NEW b \in BOOLEAN
                 PROVE  /\ [owner[a][r] EXCEPT !.state = "active", !.primary = b] \in Owner
                        /\ [owner[a][r] EXCEPT !.state = "revoked"] \in Owner
      OBVIOUS
    <3>1. PICK x \in Owner : x = owner[a][r]
      BY DEF TypeInv, TypeOK, Owner
    <3>2. [x EXCEPT !.state = "active", !.primary = b] \in Owner /\ [x EXCEPT !.state = "revoked"] \in Owner
      BY DEF Owner
    <3> QED
      BY <3>1, <3>2
  <2>3. owner \in Owners /\ told \in Told
    BY DEF TypeInv, TypeOK, Owners, Owner, Told
  <2>4. ASSUME Grant(c) PROVE owner' \in Owners /\ told' \in Told
    <3>1. PICK a \in Assets, r \in Refs, b \in BOOLEAN :
            \/ owner' = owner /\ told' = told
            \/ /\ owner' = [owner EXCEPT ![a][r] = [owner[a][r] EXCEPT !.state = "active", !.primary = b]]
               /\ told' = [told EXCEPT ![a][r] = "GRANTED"]
      BY <2>4 DEF Grant
    <3>2. PICK x \in Owner : x = [owner[a][r] EXCEPT !.state = "active", !.primary = b]
      BY <2>2
    <3>3. [owner EXCEPT ![a][r] = x] \in Owners /\ [told EXCEPT ![a][r] = "GRANTED"] \in Told
      BY OwnerTypes, ToldTypes
    <3> QED
      BY <2>3, <3>1, <3>2, <3>3
  <2>5. ASSUME Revoke(c) PROVE owner' \in Owners /\ told' \in Told
    <3>1. PICK a \in Assets, r \in Refs :
            /\ owner' = [owner EXCEPT ![a][r] = [owner[a][r] EXCEPT !.state = "revoked"]]
            /\ told' = [told EXCEPT ![a][r] = "REVOKED"]
      BY <2>5 DEF Revoke
    <3>2. PICK x \in Owner : x = [owner[a][r] EXCEPT !.state = "revoked"]
      BY <2>2
    <3>3. [owner EXCEPT ![a][r] = x] \in Owners /\ [told EXCEPT ![a][r] = "REVOKED"] \in Told
      BY OwnerTypes, ToldTypes
    <3> QED
      BY <3>1, <3>2, <3>3
  <2>6. ASSUME Accept(c) PROVE owner' \in Owners /\ told' \in Told
    BY <2>3, <2>6, ToldTypes DEF Accept
  <2>7. ASSUME ~ (Grant(c) \/ Revoke(c) \/ Accept(c)) PROVE owner' \in Owners /\ told' \in Told
    BY <1>2, <2>3, <2>7 DEF Registry, FindOwner, FindRevocable, FindAcceptable, Begin, rows
  <2>8. owner' \in Owners /\ told' \in Told
    BY <2>4, <2>5, <2>6, <2>7
  <2> QED
    BY <1>1, <2>1, <2>8 DEF TypeInv, TypeOK, curation, tags, transfer, billing, Owners, Owner, Told
<1>3. CASE Curation(c)
  <2>1. UNCHANGED <<asset, owner, told, tags, transfer, billing, payment>>
    BY <1>3, CurationMoves DEF TypeInv
  <2>2. /\ contribution' \in [Contributions -> {"none", "PENDING_APPROVAL", "APPROVED", "REJECTED"}]
        /\ published' \in [Contributions -> Nat]
        /\ decided' \in [Contributions -> Nat] /\ late' \in [Contributions -> Nat]
    <3>1. CASE Decide(c)
      <4>1. call[c].arg[1] \in {"APPROVED", "REJECTED"}
        BY <3>1 DEF Decide, TypeInv, CallInv, Holding
      <4> QED
        BY <3>1, <4>1 DEF Decide, TypeInv, TypeOK
    <3>2. CASE ~ Decide(c)
      BY <1>3, <3>2 DEF Curation, FindPending, Begin, rows, curation, TypeInv, TypeOK
    <3> QED
      BY <3>1, <3>2
  <2> QED
    BY <1>1, <2>1, <2>2 DEF TypeInv, TypeOK, tags, transfer, billing
<1>4. CASE Taps(c)
  <2>1. UNCHANGED <<asset, owner, told, curation, transfer, billing, payment>>
    BY <1>4, TapsMoves DEF TypeInv
  <2>2. /\ registered' \subseteq Devices
        /\ last' \in [Devices -> 0 .. MaxCounter] /\ valid' \in [Devices -> [1 .. MaxCounter -> Nat]]
    <3>1. CASE GuardTap(c) \/ VerifyTap(c)
      <4>1. call[c].arg \in 1 .. MaxCounter
        BY <3>1 DEF GuardTap, VerifyTap, TypeInv, CallInv, Holding
      <4>2. PICK d \in Devices : Accepted(d, call[c].arg) \/ UNCHANGED tags
        BY <3>1, AssetRecordsAssumption DEF GuardTap, VerifyTap
      <4>3. call[c].arg \in 0 .. MaxCounter
        BY <4>1, AssetRecordsAssumption
      <4>4. PICK n \in 1 .. MaxCounter : n = call[c].arg
        BY <4>1
      <4>5. CASE Accepted(d, n)
        <5>1. registered' = registered /\ last' = [last EXCEPT ![d] = n]
          BY <4>5 DEF Accepted
        <5>2. [valid[d] EXCEPT ![n] = valid[d][n] + 1] \in [1 .. MaxCounter -> Nat]
          <6>1. PICK v \in [1 .. MaxCounter -> Nat] : v = valid[d]
            BY DEF TypeInv, TypeOK
          <6>2. v[n] + 1 \in Nat
            OBVIOUS
          <6>3. [v EXCEPT ![n] = v[n] + 1] \in [1 .. MaxCounter -> Nat]
            BY <6>2
          <6> QED
            BY <6>1, <6>3
        <5>3. valid' = [valid EXCEPT ![d] = [valid[d] EXCEPT ![n] = valid[d][n] + 1]]
          BY <4>5 DEF Accepted
        <5> QED
          BY <4>3, <4>4, <5>1, <5>2, <5>3 DEF TypeInv, TypeOK
      <4>6. CASE UNCHANGED tags
        BY <4>6 DEF tags, TypeInv, TypeOK
      <4> QED
        BY <4>2, <4>4, <4>5, <4>6
    <3>2. CASE ~ (GuardTap(c) \/ VerifyTap(c))
      BY <1>4, <3>2 DEF Taps, ReadGuarded, ReadQTag, Begin, rows, tags, TypeInv, TypeOK
    <3> QED
      BY <3>1, <3>2
  <2> QED
    BY <1>1, <2>1, <2>2 DEF TypeInv, TypeOK, curation, transfer, billing
<1> QED
  BY <1>2, <1>3, <1>4

\* What a transfer or a batch writes, and what a failure leaves.
LEMMA MoneyTypes ==
  ASSUME TypeInv, NEW c \in Calls, Transfers(c) \/ Billing(c) \/ Throw(c) \/ Die(c)
  PROVE  TypeInv'
<1> USE DEF TypeInv
<1>1. CallInv' /\ \A d \in Calls : call'[d].rest \subseteq Notices
  BY FindBuyerMoves, TransferMoves, BillingMoves, CutMoves DEF Transfers, Moves, CallInv, Shaped
<1>2. CASE Transfers(c)
  <2>1. UNCHANGED <<told, curation, tags, billing, payment>>
    BY <1>2 DEF Transfers, FindBuyer, Begin, rows, transfer, ShadowAccount, AwaitPayment, TellTransfer, CreatePaymentPreference
  <2>2. /\ asset' \in [Assets -> Statuses]
        /\ started' \in [Assets -> Nat] /\ linked' \subseteq Assets /\ byHand' \in [Assets -> Nat]
    <3> USE DEF TypeOK, Statuses, transfer
    <3>1. CASE AwaitPayment(c)
      BY <3>1 DEF AwaitPayment
    <3>2. CASE TellTransfer(c)
      BY <3>2 DEF TellTransfer
    <3>3. CASE CreatePaymentPreference(c)
      BY <3>3 DEF CreatePaymentPreference
    <3>4. CASE ShadowAccount(c)
      BY <3>4 DEF ShadowAccount
    <3> QED
      BY <1>2, <3>1, <3>2, <3>3, <3>4 DEF Transfers, FindBuyer, Begin, rows
  <2>3. owner' \in Owners
    <3>1. owner \in Owners /\ [state |-> "active", primary |-> FALSE, document |-> TRUE] \in Owner
      BY DEF TypeOK, Owners, Owner
    <3>x. PICK x \in Owner : x = [state |-> "active", primary |-> FALSE, document |-> TRUE]
      BY <3>1
    <3>2. CASE ShadowAccount(c)
      <4>1. PICK a \in Assets, r \in Refs : owner' = owner \/ owner' = [owner EXCEPT ![a][r] = x]
        BY <3>2, <3>x DEF ShadowAccount
      <4> QED
        BY <3>1, <4>1, OwnerTypes
    <3>3. CASE ~ ShadowAccount(c)
      BY <1>2, <3>1, <3>3 DEF Transfers, FindBuyer, Begin, rows, AwaitPayment, TellTransfer, CreatePaymentPreference
    <3> QED
      BY <3>2, <3>3
  <2> QED
    BY <1>1, <2>1, <2>2, <2>3 DEF TypeOK, curation, tags, billing, Owners, Owner
<1>3. ASSUME NEW s \in {"DONE", "FAILED"}, CloseNotice(c, s)
      PROVE  inbox' \in Inbox
  BY <1>3, NoticeTypes DEF CloseNotice
<1>4. CASE Billing(c)
  <2>1. UNCHANGED <<owner, told, curation, tags, transfer, payment>>
    BY <1>4, BillingMoves
  <2>2. asset' \in [Assets -> Statuses] /\ confirmed' \in [Assets -> Nat] /\ acted' \in [Notices -> Nat]
    <3> USE DEF TypeOK, Statuses
    <3>1. CASE Activate(c)
      BY <3>1 DEF Activate, billing
    <3>2. CASE TellPayment(c)
      BY <3>2 DEF TellPayment
    <3>3. CASE ~ (Activate(c) \/ TellPayment(c))
      BY <1>4, <3>3 DEF Billing, ClaimNotices, FindAwaiting, EndBatch, CloseNotice, rows, billing
    <3> QED
      BY <3>1, <3>2, <3>3
  <2>i. inbox \in Inbox
    BY DEF TypeOK, Inbox, Notice
  <2>3. inbox' \in Inbox
    <3>1. CASE ClaimNotices(c)
      <4>1. PICK pending : inbox' = [n \in Notices |-> IF n \in pending THEN [inbox[n] EXCEPT !.status = "PROCESSING"]
                                                                    ELSE inbox[n]]
        BY <3>1 DEF ClaimNotices
      <4>2. \A n \in Notices : [inbox[n] EXCEPT !.status = "PROCESSING"] \in Notice /\ inbox[n] \in Notice
        BY <2>i, NoticeTypes DEF Inbox
      <4> QED
        BY <4>1, <4>2 DEF Inbox
    <3>2. CASE FindAwaiting(c)
      <4>1. PICK n \in Notices : inbox' = inbox \/ inbox' = [inbox EXCEPT ![n].status = "DONE"]
        BY <3>2 DEF FindAwaiting, CallInv, Shaped
      <4> QED
        BY <2>i, <4>1, NoticeTypes
    <3>3. CASE EndBatch(c) \/ Activate(c) \/ TellPayment(c)
      BY <2>i, <3>3 DEF EndBatch, Activate, TellPayment, rows, billing
    <3> QED
      BY <1>3, <1>4, <3>1, <3>2, <3>3 DEF Billing
  <2> QED
    BY <1>1, <2>1, <2>2, <2>3 DEF TypeOK, curation, tags, transfer, Inbox, Notice
<1>5. CASE Throw(c)
  <2>1. inbox' \in Inbox
    BY <1>3, <1>5 DEF Throw
  <2> QED
    BY <1>1, <1>5, <2>1 DEF Throw, CloseNotice, curation, tags, transfer, TypeOK, Inbox, Notice
<1>6. CASE Die(c)
  BY <1>1, <1>6 DEF Die, rows, curation, tags, transfer, billing, TypeOK
<1> QED
  BY <1>2, <1>4, <1>5, <1>6

\* What is written in a single step.
SingleSteps ==
  \/ \E a \in Assets, s \in Edits \cup {"ACTIVE"}, owners \in SUBSET Refs : \E primaries \in SUBSET owners :
       CreateAsset(a, s, owners, primaries)
  \/ \E a \in Assets, s \in Edits : UpdateAsset(a, s)
  \/ \E p \in Contributions, auditor \in BOOLEAN : Submit(p, auditor)
  \/ \E d \in Devices, n \in 0 .. MaxCounter : RegisterDevice(d, n)
  \/ \E m \in Payments, a \in Assets : Pay(m, a)
  \/ \E n \in Notices, m \in Payments : HandleMercadoPago(n, m)
  \/ UNCHANGED vars

LEMMA SingleCalls == SingleSteps => UNCHANGED call /\ disturbed \subseteq disturbed'
BY DEF SingleSteps, CreateAsset, UpdateAsset, Submit, RegisterDevice, Pay, HandleMercadoPago, Single, vars

LEMMA SingleTypes ==
  ASSUME TypeInv, SingleSteps
  PROVE  TypeInv'
<1> USE DEF TypeInv
<1>1. CallInv' /\ \A d \in Calls : call'[d].rest \subseteq Notices
  BY SingleCalls, CallsKept DEF CallInv, Shaped
<1>0. ASSUME NEW a \in Assets, NEW s \in Edits \cup {"ACTIVE"}, asset' = [asset EXCEPT ![a] = s], ByHand(a, s)
      PROVE  asset' \in [Assets -> Statuses] /\ byHand' \in [Assets -> Nat]
  <2>1. s \in Statuses /\ asset \in [Assets -> Statuses] /\ byHand \in [Assets -> Nat]
    BY AssetRecordsAssumption DEF TypeOK, Statuses
  <2> QED
    BY <1>0, <2>1 DEF ByHand
<1>2. ASSUME NEW a \in Assets, NEW s \in Edits \cup {"ACTIVE"}, NEW owners \in SUBSET Refs,
             NEW primaries \in SUBSET owners, CreateAsset(a, s, owners, primaries)
      PROVE  TypeOK'
  <2>1. asset' \in [Assets -> Statuses] /\ byHand' \in [Assets -> Nat]
    BY <1>0, <1>2 DEF CreateAsset
  <2>2. owner' \in Owners
    <3>1. \A r \in Refs : (IF r \notin owners THEN NoOwner ELSE
            [state |-> "active", primary |-> r \in primaries, document |-> FALSE]) \in Owner
      BY DEF NoOwner, Owner
    <3>2. PICK x \in [Refs -> Owner] : x = [r \in Refs |-> IF r \notin owners THEN NoOwner ELSE
            [state |-> "active", primary |-> r \in primaries, document |-> FALSE]]
      BY <3>1
    <3>3. owner \in Owners /\ owner' = [owner EXCEPT ![a] = x]
      BY <1>2, <3>2 DEF CreateAsset, TypeOK, Owners, Owner
    <3> QED
      BY <3>3 DEF Owners
  <2> QED
    BY <1>1, <1>2, <2>1, <2>2 DEF CreateAsset, TypeOK, Owners, Owner, curation, tags, billing
<1>3. ASSUME NEW a \in Assets, NEW s \in Edits, UpdateAsset(a, s) PROVE TypeOK'
  <2>1. asset' \in [Assets -> Statuses] /\ byHand' \in [Assets -> Nat]
    BY <1>0, <1>3 DEF UpdateAsset
  <2> QED
    BY <1>1, <1>3, <2>1 DEF UpdateAsset, TypeOK, curation, tags, billing
<1>4. ASSUME NEW p \in Contributions, NEW auditor \in BOOLEAN, Submit(p, auditor) PROVE TypeOK'
  <2>1. /\ contribution' \in [Contributions -> {"none", "PENDING_APPROVAL", "APPROVED", "REJECTED"}]
        /\ published' \in [Contributions -> Nat]
    <3>1. \/ contribution' = contribution /\ published' = [published EXCEPT ![p] = 1]
          \/ contribution' = [contribution EXCEPT ![p] = "PENDING_APPROVAL"] /\ published' = published
      BY <1>4, Zenon DEF Submit
    <3>2. /\ contribution \in [Contributions -> {"none", "PENDING_APPROVAL", "APPROVED", "REJECTED"}]
          /\ published \in [Contributions -> Nat]
      BY DEF TypeOK
    <3> QED
      BY <3>1, <3>2
  <2> QED
    BY <1>1, <1>4, <2>1 DEF Submit, TypeOK, tags, transfer, billing
<1>5. ASSUME NEW d \in Devices, NEW n \in 0 .. MaxCounter, RegisterDevice(d, n) PROVE TypeOK'
  BY <1>1, <1>5 DEF RegisterDevice, TypeOK, curation, transfer, billing
<1>6. ASSUME NEW m \in Payments, NEW a \in Assets, Pay(m, a) PROVE TypeOK'
  BY <1>1, <1>6 DEF Pay, TypeOK, curation, tags, transfer, billing
<1>7. ASSUME NEW n \in Notices, NEW m \in Payments, HandleMercadoPago(n, m) PROVE TypeOK'
  BY <1>1, <1>7 DEF HandleMercadoPago, TypeOK, curation, tags, transfer
<1>8. ASSUME UNCHANGED vars PROVE TypeOK'
  BY <1>1, <1>8 DEF vars, rows, TypeOK, curation, tags, transfer, billing
<1> QED
  BY <1>1, <1>2, <1>3, <1>4, <1>5, <1>6, <1>7, <1>8 DEF SingleSteps

\* All steps.
LEMMA NextCases ==
  [Next]_vars => \/ SingleSteps
                 \/ \E c \in Calls : Registry(c) \/ Curation(c) \/ Taps(c) \/ Transfers(c) \/ Billing(c)
                                       \/ Throw(c) \/ Die(c)
BY DEF Next, SingleSteps

LEMMA NextTypes == TypeInv /\ [Next]_vars => TypeInv'
BY NextCases, SingleTypes, RowTypes, MoneyTypes
-----------------------------------------------------------------------------
(* Owners and what they were told *)

OwnSteps == {"grant", "revoke", "accept", "shadow"}

\* An owner of whom nothing is written, and of whom no call reads anything new.
LEMMA OwningKept ==
  ASSUME NEW a \in Assets, NEW r \in Refs, Owning(a, r),
         owner'[a][r] = owner[a][r], told'[a][r] = told[a][r], asset'[a] = "ABSENT" => asset[a] = "ABSENT",
         disturbed \subseteq disturbed',
         \A d \in Calls : call'[d] = call[d] \/ call'[d].step \notin OwnSteps \/ call'[d].at # <<a, r>>
  PROVE  Owning(a, r)'
BY DEF Owning, OwnSteps

\* Steps that write neither the owners nor the events about them.
LEMMA OwnSame ==
  ASSUME OwnInv, UNCHANGED <<owner, told>>, \A a \in Assets : asset'[a] = "ABSENT" => asset[a] = "ABSENT",
         disturbed \subseteq disturbed', \A d \in Calls : call'[d] = call[d] \/ call'[d].step \notin OwnSteps
  PROVE  OwnInv'
BY OwningKept DEF OwnInv

\* A call of the registry, which begins with what it finds, or writes it and tells of it.
LEMMA OwnBegins ==
  ASSUME TypeInv, OwnInv, NEW c \in Calls, NEW a \in Assets, NEW r \in Refs,
         FindOwner(c, a, r) \/ FindRevocable(c, a, r) \/ FindAcceptable(c, a, r)
  PROVE  OwnInv'
<1>1. Moves(c, RegistrySteps)
  BY RegistryMoves DEF TypeInv, Registry
<1>2. /\ UNCHANGED rows /\ call'[c].at = <<a, r>> /\ asset[a] # "ABSENT"
      /\ call'[c].step = "accept" => owner[a][r].state = "active"
  <2>1. ASSUME NEW s, NEW arg, Begin(c, s, <<a, r>>, arg, {OwnerRow(a, r)})
        PROVE  UNCHANGED rows /\ call'[c].at = <<a, r>> /\ call'[c].step = s
    BY <2>1 DEF Begin, GoOn, TypeInv, CallInv
  <2>2. CASE FindOwner(c, a, r)
    BY <2>1, <2>2 DEF FindOwner
  <2>3. CASE FindRevocable(c, a, r)
    BY <2>1, <2>3 DEF FindRevocable, OwnInv, Owning
  <2>4. CASE FindAcceptable(c, a, r)
    BY <2>1, <2>4 DEF FindAcceptable, OwnInv, Owning
  <2> QED
    BY <2>2, <2>3, <2>4
<1>3. ASSUME NEW b \in Assets, NEW q \in Refs, <<b, q>> # <<a, r>>
      PROVE  Owning(b, q)'
  BY <1>1, <1>2, <1>3, OwningKept DEF OwnInv, Moves, StepOf, rows
<1>4. Owning(a, r)'
  BY <1>1, <1>2 DEF OwnInv, Owning, Moves, StepOf, rows
<1> QED
  BY <1>3, <1>4 DEF OwnInv

\* One owner is written, by a call that is through with it.
LEMMA OwnWrites ==
  ASSUME TypeInv, OwnInv, NEW c \in Calls, NEW a \in Assets, NEW r \in Refs,
         Grant(c) \/ Revoke(c) \/ Accept(c) \/ ShadowAccount(c),
         call[c].at = <<a, r>>
  PROVE  OwnInv'
<1>1. CallInv' /\ StepOf(c) /\ disturbed' = disturbed /\ call'[c].step \notin OwnSteps /\ asset' = asset
  <2>1. CASE Grant(c) \/ Revoke(c) \/ Accept(c)
    BY <2>1, FinishCalls, IdleHolds DEF Grant, Revoke, Accept, Steady, TypeInv, OwnSteps
  <2>2. CASE ShadowAccount(c)
    <3>1. Moves(c, TransferSteps) /\ disturbed' = disturbed /\ asset' = asset
      BY <2>2, TransferMoves DEF ShadowAccount, TypeInv
    <3>2. Finish(c) \/ Move(c, "await")
      BY <2>2 DEF ShadowAccount
    <3>3. call'[c].step \in {"idle", "await"}
      BY <3>2, IdleHolds, MoveStep DEF Finish, TypeInv, CallInv
    <3> QED
      BY <3>1, <3>3 DEF Moves, OwnSteps
  <2> QED
    BY <2>1, <2>2
<1>2. owner \in Owners /\ told \in Told /\ owner[a][r] \in Owner
  BY DEF TypeInv, TypeOK, Owners, Owner, Told
<1>3. asset[a] # "ABSENT" /\ Owning(a, r)
  BY DEF OwnInv, Owning, Grant, Revoke, Accept, ShadowAccount
<1>4. CASE UNCHANGED <<owner, told>>
  BY <1>1, <1>4, OwnSame DEF StepOf
<1>5. ASSUME NEW b \in Assets, NEW q \in Refs, <<b, q>> # <<a, r>>,
             NEW x, NEW t, owner' = [owner EXCEPT ![a][r] = x], told' = [told EXCEPT ![a][r] = t]
      PROVE  Owning(b, q)'
  <2>1. owner'[b][q] = owner[b][q] /\ told'[b][q] = told[b][q]
    BY <1>2, <1>5 DEF Owners, Told
  <2> QED
    BY <1>1, <2>1, OwningKept DEF OwnInv, StepOf
<1>6. ASSUME NEW x, NEW t, owner' = [owner EXCEPT ![a][r] = x], told' = [told EXCEPT ![a][r] = t]
      PROVE  owner'[a][r] = x /\ told'[a][r] = t
  BY <1>2, <1>6 DEF Owners, Told
<1>7. ASSUME NEW x, NEW t, owner' = [owner EXCEPT ![a][r] = x], told' = [told EXCEPT ![a][r] = t],
             x.state = "active", t # "REVOKED"
      PROVE  OwnInv'
  <2>1. Owning(a, r)'
    BY <1>1, <1>3, <1>6, <1>7 DEF Owning
  <2> QED
    BY <1>5, <1>7, <2>1 DEF OwnInv
<1>8. CASE Grant(c)
  <2>1. CASE ~ UNCHANGED <<owner, told>>
    <3>0. PICK b \in Assets, q \in Refs, primary \in BOOLEAN :
            /\ call[c].at = <<b, q>>
            /\ UNCHANGED <<owner, told>> \/
                 /\ owner' = [owner EXCEPT ![b][q] = [owner[b][q] EXCEPT !.state = "active", !.primary = primary]]
                 /\ told' = [told EXCEPT ![b][q] = "GRANTED"]
      BY <1>8 DEF Grant
    <3>1. PICK x : x = [owner[a][r] EXCEPT !.state = "active", !.primary = primary]
      OBVIOUS
    <3>2. owner' = [owner EXCEPT ![a][r] = x] /\ told' = [told EXCEPT ![a][r] = "GRANTED"]
      <4>2. b = a /\ q = r
        BY <3>0
      <4> QED
        BY <2>1, <3>0, <3>1, <4>2
    <3>3. x.state = "active"
      BY <1>2, <3>1 DEF Owner
    <3> QED
      BY <1>7, <3>2, <3>3
  <2> QED
    BY <1>4, <2>1
<1>9. CASE Revoke(c)
  <2>1. PICK x : x = [owner[a][r] EXCEPT !.state = "revoked"]
    OBVIOUS
  <2>2. owner' = [owner EXCEPT ![a][r] = x] /\ told' = [told EXCEPT ![a][r] = "REVOKED"]
    <3>1. PICK b \in Assets, q \in Refs :
            /\ call[c].at = <<b, q>>
            /\ owner' = [owner EXCEPT ![b][q] = [owner[b][q] EXCEPT !.state = "revoked"]]
            /\ told' = [told EXCEPT ![b][q] = "REVOKED"]
      BY <1>9 DEF Revoke
    <3>2. b = a /\ q = r
      BY <3>1
    <3> QED
      BY <2>1, <3>1, <3>2
  <2>3. x.state = "revoked"
    BY <1>2, <2>1 DEF Owner
  <2>4. \A d \in Calls \ {c} : call[d].step = "accept" /\ call[d].at = <<a, r>> => OwnerRow(a, r) \in disturbed
    <3>1. OwnerRow(a, r) \in call[c].holds
      BY <1>9 DEF Revoke, TypeInv, CallInv, Holding
    <3> QED
      BY <3>1, HeldTwice DEF TypeInv, CallInv, Holding
  <2>5. Owning(a, r)'
    BY <1>1, <1>3, <1>6, <2>2, <2>3, <2>4 DEF Owning, StepOf, OwnSteps
  <2> QED
    BY <1>5, <2>2, <2>5 DEF OwnInv
<1>10. CASE Accept(c)
  <2>1. told' = [told EXCEPT ![a][r] = "ACCEPTED"] /\ owner' = owner /\ call[c].step = "accept"
    <3>1. PICK b \in Assets, q \in Refs :
            /\ call[c].at = <<b, q>> /\ call[c].step = "accept"
            /\ told' = [told EXCEPT ![b][q] = "ACCEPTED"] /\ owner' = owner
      BY <1>10 DEF Accept
    <3>2. b = a /\ q = r
      BY <3>1
    <3> QED
      BY <3>1, <3>2
  <2>2. told'[a][r] = "ACCEPTED" /\ OwnerRow(a, r) \notin disturbed => owner[a][r].state = "active"
    BY <1>2, <1>3, <2>1 DEF Told, Owning
  <2>3. Owning(a, r)'
    BY <1>1, <1>2, <1>3, <2>1, <2>2 DEF Told, Owning, StepOf, OwnSteps
  <2>4. ASSUME NEW b \in Assets, NEW q \in Refs, <<b, q>> # <<a, r>> PROVE Owning(b, q)'
    <3>1. told'[b][q] = told[b][q]
      BY <1>2, <2>1, <2>4 DEF Told
    <3> QED
      BY <1>1, <2>1, <3>1, OwningKept DEF OwnInv, StepOf
  <2> QED
    BY <2>3, <2>4 DEF OwnInv
<1>11. CASE ShadowAccount(c)
  <2>1. CASE owner' # owner
    <3>1. PICK x : x = [state |-> "active", primary |-> FALSE, document |-> TRUE]
      OBVIOUS
    <3>2. owner' = [owner EXCEPT ![a][r] = x] /\ owner[a][r] = NoOwner /\ told' = told
      BY <1>11, <2>1, <3>1 DEF ShadowAccount
    <3>3. told' = [told EXCEPT ![a][r] = told[a][r]] /\ told[a][r] # "REVOKED"
      BY <1>2, <1>3, <3>2 DEF Told, Owning, NoOwner
    <3>4. x.state = "active"
      BY <3>1
    <3>5. PICK t : t = told[a][r]
      OBVIOUS
    <3> QED
      BY <1>7, <3>2, <3>3, <3>4, <3>5
  <2> QED
    BY <1>4, <1>11, <2>1 DEF ShadowAccount
<1> QED
  BY <1>8, <1>9, <1>10, <1>11

\* Nobody was told of the owners of a new asset.
LEMMA OwnCreates ==
  ASSUME TypeInv, OwnInv, NEW a \in Assets, NEW s \in Edits \cup {"ACTIVE"},
         NEW owners \in SUBSET Refs, NEW primaries \in SUBSET owners, CreateAsset(a, s, owners, primaries)
  PROVE  OwnInv'
<1>1. /\ asset[a] = "ABSENT" /\ asset' = [asset EXCEPT ![a] = s] /\ told' = told
      /\ call' = call /\ disturbed' = disturbed /\ s # "ABSENT"
  BY AssetRecordsAssumption DEF CreateAsset
<1>2. asset'[a] = s /\ \A b \in Assets \ {a} : asset'[b] = asset[b] /\ owner'[b] = owner[b]
  BY <1>1 DEF CreateAsset, TypeInv, TypeOK
<1>3. ASSUME NEW q \in Refs PROVE Owning(a, q)'
  BY <1>1, <1>2 DEF OwnInv, Owning
<1>4. ASSUME NEW b \in Assets \ {a}, NEW q \in Refs PROVE Owning(b, q)'
  BY <1>1, <1>2, OwningKept DEF OwnInv
<1> QED
  BY <1>3, <1>4 DEF OwnInv

LEMMA OwnNext == TypeInv /\ OwnInv /\ [Next]_vars => OwnInv'
<1> SUFFICES ASSUME TypeInv, OwnInv, [Next]_vars PROVE OwnInv'
  OBVIOUS
<1>t. CallInv /\ asset \in [Assets -> Statuses]
  BY DEF TypeInv, TypeOK
<1>1. CASE SingleSteps
  <2>1. UNCHANGED call /\ disturbed \subseteq disturbed'
    BY <1>1, SingleCalls
  <2>2. ASSUME NEW a \in Assets, NEW s \in Edits, UpdateAsset(a, s) PROVE OwnInv'
    <3>1. UNCHANGED <<owner, told>> /\ \A b \in Assets : asset'[b] = "ABSENT" => asset[b] = "ABSENT"
      BY <1>t, <2>2, AssetRecordsAssumption DEF UpdateAsset
    <3> QED
      BY <2>1, <3>1, OwnSame
  <2>c. ASSUME NEW a \in Assets, NEW s \in Edits \cup {"ACTIVE"}, NEW owners \in SUBSET Refs,
               NEW primaries \in SUBSET owners, CreateAsset(a, s, owners, primaries)
        PROVE  OwnInv'
    BY <2>c, OwnCreates
  <2>3. ASSUME ~ (\E a \in Assets, s \in Edits \cup {"ACTIVE"}, owners \in SUBSET Refs :
                    \E primaries \in SUBSET owners : CreateAsset(a, s, owners, primaries)),
               ~ (\E a \in Assets, s \in Edits : UpdateAsset(a, s))
        PROVE  UNCHANGED <<asset, owner, told>>
    BY <1>1, <2>3 DEF SingleSteps, Submit, RegisterDevice, Pay, HandleMercadoPago, vars, rows
  <2> QED
    BY <1>1, <2>1, <2>2, <2>c, <2>3, OwnSame
<1>2. ASSUME NEW c \in Calls, Registry(c) PROVE OwnInv'
  <2>1. ASSUME Grant(c) \/ Revoke(c) \/ Accept(c) PROVE OwnInv'
    <3>1. \E a \in Assets, r \in Refs : call[c].at = <<a, r>>
      BY <2>1 DEF Grant, Revoke, Accept
    <3> QED
      BY <2>1, <3>1, OwnWrites
  <2> QED
    BY <1>2, <2>1, OwnBegins DEF Registry
<1>3. ASSUME NEW c \in Calls, ShadowAccount(c) PROVE OwnInv'
  <2>1. \E a \in Assets, r \in Refs : call[c].at = <<a, r>>
    BY <1>3 DEF ShadowAccount
  <2> QED
    BY <1>3, <2>1, OwnWrites
<1>4. ASSUME NEW c \in Calls, NEW a \in Assets, NEW r \in Refs, FindBuyer(c, a, r) PROVE OwnInv'
  <2>1. Moves(c, TransferSteps) /\ UNCHANGED rows /\ call'[c].at = <<a, r>> /\ call'[c].step \in {"shadow", "await"}
        /\ asset[a] = "ACTIVE"
    BY <1>t, <1>4, FindBuyerMoves DEF FindBuyer
  <2>2. ASSUME NEW b \in Assets, NEW q \in Refs, <<b, q>> # <<a, r>> PROVE Owning(b, q)'
    BY <2>1, <2>2, OwningKept DEF OwnInv, Moves, StepOf, rows
  <2>3. Owning(a, r)'
    BY <2>1 DEF OwnInv, Owning, Moves, StepOf, rows
  <2> QED
    BY <2>2, <2>3 DEF OwnInv
<1>5. ASSUME NEW c \in Calls, AwaitPayment(c) \/ TellTransfer(c) \/ CreatePaymentPreference(c) PROVE OwnInv'
  <2>1. StepOf(c) /\ disturbed' = disturbed /\ UNCHANGED <<owner, told>>
    BY <1>t, <1>5, TransferMoves DEF AwaitPayment, TellTransfer, CreatePaymentPreference, Moves
  <2>2. call'[c].step \notin OwnSteps
    <3>1. Finish(c) \/ \E l \in {"initiated", "prefer"} : Move(c, l)
      BY <1>5 DEF AwaitPayment, TellTransfer, CreatePaymentPreference
    <3>2. call'[c].step \in {"idle", "initiated", "prefer"}
      BY <1>t, <3>1, IdleHolds, MoveStep DEF Finish, CallInv
    <3> QED
      BY <3>2 DEF OwnSteps
  <2>3. \A b \in Assets : asset'[b] = "ABSENT" => asset[b] = "ABSENT"
    BY <1>t, <1>5 DEF AwaitPayment, TellTransfer, CreatePaymentPreference
  <2> QED
    BY <2>1, <2>2, <2>3, OwnSame DEF StepOf
<1>6. ASSUME NEW c \in Calls, Curation(c) \/ Taps(c) PROVE OwnInv'
  <2>1. Moves(c, {"idle", "review"}) \/ Moves(c, {"idle", "tap"})
    BY <1>t, <1>6, CurationMoves, TapsMoves
  <2>2. UNCHANGED <<asset, owner, told>>
    BY <1>t, <1>6, CurationMoves, TapsMoves
  <2> QED
    BY <2>1, <2>2, OwnSame DEF Moves, StepOf, OwnSteps
<1>7. ASSUME NEW c \in Calls, Billing(c) PROVE OwnInv'
  <2>1. Moves(c, BillingSteps) /\ UNCHANGED <<owner, told>>
    BY <1>t, <1>7, BillingMoves
  <2>2. \A b \in Assets : asset'[b] = "ABSENT" => asset[b] = "ABSENT"
    BY <1>t, <1>7 DEF Billing, ClaimNotices, FindAwaiting, EndBatch, Activate, TellPayment, CloseNotice, rows
  <2> QED
    BY <2>1, <2>2, OwnSame DEF Moves, StepOf, OwnSteps, BillingSteps
<1>8. ASSUME NEW c \in Calls, Throw(c) \/ Die(c) PROVE OwnInv'
  BY <1>t, <1>8, CutMoves, OwnSame DEF StepOf, OwnSteps
<1> QED
  BY <1>1, <1>2, <1>3, <1>4, <1>5, <1>6, <1>7, <1>8, NextCases DEF Transfers
-----------------------------------------------------------------------------
(* Contributions and their reviews *)

\* A contribution of which nothing is written, and which no further call reviews.
LEMMA ReviewingKept ==
  ASSUME NEW p \in Contributions, Reviewing(p),
         contribution'[p] = contribution[p], published'[p] = published[p],
         decided'[p] = decided[p], late'[p] = late[p],
         \A d \in Calls : call'[d] = call[d] \/ call'[d].step # "review" \/ call'[d].at # <<p>>
  PROVE  Reviewing(p)'
BY DEF Reviewing

LEMMA ReviewSame ==
  ASSUME ReviewInv, UNCHANGED curation,
         \A d \in Calls : call'[d] = call[d] \/ call'[d].step # "review"
  PROVE  ReviewInv'
BY ReviewingKept DEF ReviewInv, curation

\* A reviewer finds a contribution that waits.
LEMMA ReviewBegins ==
  ASSUME TypeInv, ReviewInv, NEW c \in Calls, NEW p \in Contributions,
         NEW decision \in {"APPROVED", "REJECTED"}, FindPending(c, p, decision)
  PROVE  ReviewInv'
<1>1. Moves(c, {"idle", "review"})
  BY CurationMoves DEF TypeInv, Curation
<1>2. /\ UNCHANGED curation /\ call'[c].at = <<p>> /\ contribution[p] = "PENDING_APPROVAL"
      /\ call'[c].arg[2] = decided[p] /\ decided[p] \in 0 .. decided[p]
  BY DEF FindPending, Begin, GoOn, TypeInv, TypeOK, CallInv, rows
<1>3. ASSUME NEW q \in Contributions \ {p} PROVE Reviewing(q)'
  <2>1. call'[c].at # <<q>>
    BY <1>2
  <2> QED
    BY <1>1, <1>2, <2>1, ReviewingKept DEF ReviewInv, Moves, StepOf, curation
<1>4. Reviewing(p)'
  BY <1>1, <1>2 DEF ReviewInv, Reviewing, Moves, StepOf, curation
<1> QED
  BY <1>3, <1>4 DEF ReviewInv

\* A reviewer decides, and overtakes whoever is about to decide as well.
LEMMA ReviewEnds ==
  ASSUME TypeInv, ReviewInv, NEW c \in Calls, Decide(c)
  PROVE  ReviewInv'
<1>1. PICK p \in Contributions :
        /\ call[c].step = "review" /\ call[c].at = <<p>>
        /\ contribution' = [contribution EXCEPT ![p] = call[c].arg[1]]
        /\ published' = IF call[c].arg[1] = "APPROVED" THEN [published EXCEPT ![p] = published[p] + 1] ELSE published
        /\ decided' = [decided EXCEPT ![p] = decided[p] + 1]
        /\ late' = IF call[c].arg[2] # decided[p] THEN [late EXCEPT ![p] = late[p] + 1] ELSE late
  BY DEF Decide
<1>2. StepOf(c) /\ call'[c].step # "review"
  BY FinishCalls, IdleHolds DEF Decide, Steady, TypeInv
<1>3. /\ contribution \in [Contributions -> {"none", "PENDING_APPROVAL", "APPROVED", "REJECTED"}]
      /\ published \in [Contributions -> Nat] /\ call[c].arg[1] \in {"APPROVED", "REJECTED"}
      /\ decided \in [Contributions -> Nat] /\ late \in [Contributions -> Nat]
  BY <1>1 DEF TypeInv, TypeOK, CallInv, Holding
<1>4. ASSUME NEW q \in Contributions \ {p} PROVE Reviewing(q)'
  BY <1>1, <1>2, <1>3, ReviewingKept DEF ReviewInv, StepOf
<1>5. \A d \in Calls \ {c} : call[d].step = "review" /\ call[d].at = <<p>> =>
        call[d].arg[2] \in 0 .. decided[p] + 1 /\ call[d].arg[2] # decided[p] + 1
  <2>1. \A d \in Calls \ {c} : call[d].step = "review" /\ call[d].at = <<p>> => call[d].arg[2] \in 0 .. decided[p]
    BY DEF ReviewInv, Reviewing
  <2>2. \A k \in 0 .. decided[p] : k \in 0 .. decided[p] + 1 /\ k # decided[p] + 1
    BY <1>3
  <2> QED
    BY <2>1, <2>2
<1>6. /\ Reviewing(p) /\ contribution[p] \in {"PENDING_APPROVAL", "APPROVED", "REJECTED"}
      /\ call[c].arg[2] = decided[p] => contribution[p] = "PENDING_APPROVAL"
  BY <1>1, <1>3 DEF ReviewInv, Reviewing
<1>7. /\ contribution'[p] = call[c].arg[1]
      /\ published'[p] = IF call[c].arg[1] = "APPROVED" THEN published[p] + 1 ELSE published[p]
      /\ decided'[p] = decided[p] + 1
      /\ late'[p] = IF call[c].arg[2] # decided[p] THEN late[p] + 1 ELSE late[p]
  BY <1>1, <1>3
<1>8. /\ contribution'[p] # "none" /\ contribution'[p] # "PENDING_APPROVAL"
      /\ contribution'[p] = "APPROVED" => published'[p] \in 1 .. 1 + late'[p]
      /\ contribution'[p] = "REJECTED" => published'[p] <= late'[p]
  <2>1. published[p] \in Nat /\ late[p] \in Nat
    BY <1>3
  <2>2. CASE contribution[p] = "PENDING_APPROVAL"
    BY <1>3, <1>6, <1>7, <2>1, <2>2 DEF Reviewing
  <2>3. CASE contribution[p] # "PENDING_APPROVAL"
    <3>1. late'[p] = late[p] + 1
      BY <1>6, <1>7, <2>3
    <3>2. published[p] <= 1 + late[p]
      BY <1>6, <2>1, <2>3 DEF Reviewing
    <3> QED
      BY <1>3, <1>7, <2>1, <3>1, <3>2
  <2> QED
    BY <2>2, <2>3
<1>9. Reviewing(p)'
  BY <1>2, <1>5, <1>7, <1>8 DEF Reviewing, StepOf
<1> QED
  BY <1>4, <1>9 DEF ReviewInv

\* What is submitted was not there, so that nobody reviews it.
LEMMA ReviewSubmits ==
  ASSUME TypeInv, ReviewInv, NEW p \in Contributions, NEW auditor \in BOOLEAN, Submit(p, auditor)
  PROVE  ReviewInv'
<1>1. /\ \/ contribution' = contribution /\ published' = [published EXCEPT ![p] = 1]
         \/ contribution' = [contribution EXCEPT ![p] = "PENDING_APPROVAL"] /\ published' = published
      /\ contribution[p] = "none" /\ published[p] = 0
  BY Zenon DEF Submit
<1>2. call' = call /\ decided' = decided /\ late' = late
  BY DEF Submit, Single
<1>3. contribution \in [Contributions -> {"none", "PENDING_APPROVAL", "APPROVED", "REJECTED"}]
      /\ published \in [Contributions -> Nat]
  BY DEF TypeInv, TypeOK
<1>4. ASSUME NEW q \in Contributions \ {p} PROVE Reviewing(q)'
  BY <1>1, <1>2, <1>3, ReviewingKept DEF ReviewInv
<1>5. Reviewing(p)'
  <2>1. \A d \in Calls : ~ (call[d].step = "review" /\ call[d].at = <<p>>)
    BY <1>1 DEF ReviewInv, Reviewing
  <2>2. contribution'[p] = "none" \/ (contribution'[p] = "PENDING_APPROVAL" /\ published'[p] = 0)
    BY <1>1, <1>3
  <2> QED
    BY <1>2, <2>1, <2>2 DEF Reviewing
<1> QED
  BY <1>4, <1>5 DEF ReviewInv

LEMMA ReviewNext == TypeInv /\ ReviewInv /\ [Next]_vars => ReviewInv'
<1> SUFFICES ASSUME TypeInv, ReviewInv, [Next]_vars PROVE ReviewInv'
  OBVIOUS
<1>t. CallInv
  BY DEF TypeInv
<1>1. CASE SingleSteps
  <2>1. UNCHANGED call /\ disturbed \subseteq disturbed'
    BY <1>1, SingleCalls
  <2>2. CASE \E p \in Contributions, auditor \in BOOLEAN : Submit(p, auditor)
    BY <2>2, ReviewSubmits
  <2>3. CASE ~ \E p \in Contributions, auditor \in BOOLEAN : Submit(p, auditor)
    <3>1. UNCHANGED curation
      BY <1>1, <2>3 DEF SingleSteps, CreateAsset, UpdateAsset, RegisterDevice, Pay, HandleMercadoPago, vars, rows
    <3> QED
      BY <2>1, <3>1, ReviewSame
  <2> QED
    BY <2>2, <2>3
<1>2. ASSUME NEW c \in Calls, Curation(c) PROVE ReviewInv'
  BY <1>2, ReviewBegins, ReviewEnds DEF Curation
<1>3. ASSUME NEW c \in Calls, NEW S, Moves(c, S), "review" \notin S, UNCHANGED curation PROVE ReviewInv'
  BY <1>3, ReviewSame DEF Moves, StepOf
<1>4. ASSUME NEW c \in Calls, Registry(c) \/ Taps(c) PROVE ReviewInv'
  BY <1>t, <1>3, <1>4, RegistryMoves, TapsMoves DEF RegistrySteps
<1>5. ASSUME NEW c \in Calls, Transfers(c) PROVE ReviewInv'
  <2>1. Moves(c, TransferSteps)
    BY <1>t, <1>5, FindBuyerMoves, TransferMoves DEF Transfers
  <2>2. UNCHANGED curation
    BY <1>5 DEF Transfers, FindBuyer, Begin, rows, ShadowAccount, AwaitPayment, TellTransfer, CreatePaymentPreference
  <2> QED
    BY <1>3, <2>1, <2>2 DEF TransferSteps
<1>6. ASSUME NEW c \in Calls, Billing(c) PROVE ReviewInv'
  BY <1>t, <1>3, <1>6, BillingMoves DEF BillingSteps
<1>7. ASSUME NEW c \in Calls, Throw(c) \/ Die(c) PROVE ReviewInv'
  BY <1>t, <1>7, CutMoves, ReviewSame DEF StepOf
<1> QED
  BY <1>1, <1>2, <1>4, <1>5, <1>6, <1>7, NextCases
-----------------------------------------------------------------------------
(* Tags and their counters *)

\* A tag of which nothing is written, and which no further call reads.
LEMMA TappingKept ==
  ASSUME NEW d \in Devices, Tapping(d), last'[d] = last[d], valid'[d] = valid[d],
         d \in registered <=> d \in registered', disturbed \subseteq disturbed',
         \A c \in Calls : call'[c] = call[c] \/ call'[c].step # "tap" \/ call'[c].at # <<d>>
  PROVE  Tapping(d)'
BY DEF Tapping

LEMMA TapSame ==
  ASSUME TapInv, UNCHANGED tags, disturbed \subseteq disturbed',
         \A c \in Calls : call'[c] = call[c] \/ call'[c].step # "tap"
  PROVE  TapInv'
BY TappingKept DEF TapInv, tags

\* The reading is of a tag that is registered, and ahead of its counter.
LEMMA TapBegins ==
  ASSUME TypeInv, TapInv, NEW c \in Calls, NEW d \in Devices, NEW n \in 1 .. MaxCounter,
         ReadGuarded(c, d, n) \/ ReadQTag(c, d, n)
  PROVE  TapInv'
<1>1. Moves(c, {"idle", "tap"})
  BY TapsMoves DEF TypeInv, Taps
<1>2. /\ UNCHANGED tags /\ call'[c].at = <<d>> /\ call'[c].arg = n /\ n > last[d]
  BY DEF ReadGuarded, ReadQTag, Begin, GoOn, TypeInv, CallInv, rows
<1>3. d \in registered
  BY DEF ReadGuarded, ReadQTag, TapInv, Tapping
<1>4. ASSUME NEW e \in Devices \ {d} PROVE Tapping(e)'
  <2>1. call'[c].at # <<e>>
    BY <1>2
  <2> QED
    BY <1>1, <1>2, <2>1, TappingKept DEF TapInv, Moves, StepOf, tags
<1>5. Tapping(d)'
  BY <1>1, <1>2, <1>3 DEF TapInv, Tapping, Moves, StepOf, tags
<1> QED
  BY <1>4, <1>5 DEF TapInv

\* The reading is taken: ahead of the row as it is, or of a QTAG that nobody else reads.
LEMMA TapEnds ==
  ASSUME TypeInv, TapInv, NEW c \in Calls, GuardTap(c) \/ VerifyTap(c)
  PROVE  TapInv'
<1>1. PICK d \in Devices :
        /\ call[c].step = "tap" /\ call[c].at = <<d>>
        /\ \/ Accepted(d, call[c].arg) /\ (d \in QTags \/ last[d] < call[c].arg)
           \/ UNCHANGED tags
  BY AssetRecordsAssumption DEF GuardTap, VerifyTap
<1>2. StepOf(c) /\ disturbed' = disturbed /\ call'[c].step # "tap"
  BY FinishCalls, IdleHolds DEF GuardTap, VerifyTap, Steady, TypeInv
<1>3. PICK n \in 1 .. MaxCounter : n = call[c].arg
  BY <1>1 DEF TypeInv, CallInv, Holding
<1>4. CASE UNCHANGED tags
  BY <1>2, <1>4, TapSame DEF StepOf
<1>5. CASE Accepted(d, n) /\ (d \in QTags \/ last[d] < n)
  <2>1. /\ last \in [Devices -> 0 .. MaxCounter] /\ valid \in [Devices -> [1 .. MaxCounter -> Nat]]
        /\ DeviceRow(d) \in call[c].holds
    BY <1>1 DEF TypeInv, TypeOK, CallInv, Holding
  <2>2. /\ last'[d] = n /\ registered' = registered
        /\ \A e \in Devices \ {d} : last'[e] = last[e] /\ valid'[e] = valid[e]
    BY <1>5, <2>1 DEF Accepted
  <2>3. valid'[d] = [valid[d] EXCEPT ![n] = valid[d][n] + 1]
    BY <1>5, <2>1 DEF Accepted
  <2>4. ASSUME NEW e \in Devices \ {d} PROVE Tapping(e)'
    BY <1>2, <2>2, TappingKept DEF TapInv, StepOf
  <2>5. \A b \in Calls \ {c} : call[b].step = "tap" /\ call[b].at = <<d>> => DeviceRow(d) \in disturbed
    BY <2>1, HeldTwice DEF TypeInv, CallInv, Holding
  <2>6. Tapping(d) /\ d \in registered /\ (d \in QTags /\ DeviceRow(d) \notin disturbed => n > last[d])
    BY <1>1, <1>3 DEF TapInv, Tapping
  <2>7. ASSUME d \in QTags => DeviceRow(d) \notin disturbed, NEW k \in 1 .. MaxCounter
        PROVE  valid'[d][k] <= (IF k <= n THEN 1 ELSE 0)
    <3>1. n > last[d]
      BY <1>5, <2>1, <2>6, <2>7
    <3>2. valid[d][k] <= (IF k <= last[d] THEN 1 ELSE 0) /\ valid[d][n] <= 0
      BY <2>1, <2>6, <2>7, <3>1 DEF Tapping
    <3>3. PICK v \in [1 .. MaxCounter -> Nat] : v = valid[d]
      BY <2>1
    <3>4. valid'[d][k] = IF k = n THEN v[n] + 1 ELSE v[k]
      BY <2>3, <3>3
    <3>5. v[n] = 0 /\ v[k] <= (IF k <= last[d] THEN 1 ELSE 0) /\ v[k] \in Nat /\ last[d] \in 0 .. MaxCounter
      <4>1. v[n] \in Nat /\ v[k] \in Nat
        BY <3>3
      <4>2. v[n] <= 0 /\ v[k] <= (IF k <= last[d] THEN 1 ELSE 0)
        BY <3>2, <3>3
      <4> QED
        BY <2>1, <4>1, <4>2
    <3> QED
      BY <3>1, <3>4, <3>5, AssetRecordsAssumption
  <2>8. Tapping(d)'
    BY <1>2, <2>2, <2>5, <2>6, <2>7 DEF Tapping, StepOf
  <2> QED
    BY <2>4, <2>8 DEF TapInv
<1> QED
  BY <1>1, <1>3, <1>4, <1>5

\* No reading of a tag was accepted before it was registered.
LEMMA TapRegisters ==
  ASSUME TypeInv, TapInv, NEW d \in Devices, NEW n \in 0 .. MaxCounter, RegisterDevice(d, n)
  PROVE  TapInv'
<1>1. /\ call' = call /\ disturbed' = disturbed /\ registered' = registered \cup {d} /\ valid' = valid
      /\ d \notin registered /\ last' = [last EXCEPT ![d] = n]
  BY DEF RegisterDevice
<1>2. last \in [Devices -> 0 .. MaxCounter] /\ valid \in [Devices -> [1 .. MaxCounter -> Nat]]
  BY DEF TypeInv, TypeOK
<1>3. ASSUME NEW e \in Devices \ {d} PROVE Tapping(e)'
  BY <1>1, <1>2, <1>3, TappingKept DEF TapInv
<1>4. Tapping(d)'
  <2>1. d \notin QTags /\ last[d] = 0 /\ last'[d] = n /\ Tapping(d)
        /\ \A c \in Calls : ~ (call[c].step = "tap" /\ call[c].at = <<d>>)
    BY <1>1, <1>2 DEF TapInv, Tapping
  <2>2. \A k \in 1 .. MaxCounter : valid[d][k] = 0
    <3> SUFFICES ASSUME NEW k \in 1 .. MaxCounter PROVE valid[d][k] = 0
      OBVIOUS
    <3>1. valid[d][k] <= (IF k <= 0 THEN 1 ELSE 0) /\ valid[d][k] \in Nat
      BY <1>2, <2>1 DEF Tapping
    <3> QED
      BY <3>1
  <2> QED
    BY <1>1, <2>1, <2>2 DEF Tapping
<1> QED
  BY <1>3, <1>4 DEF TapInv

LEMMA TapNext == TypeInv /\ TapInv /\ [Next]_vars => TapInv'
<1> SUFFICES ASSUME TypeInv, TapInv, [Next]_vars PROVE TapInv'
  OBVIOUS
<1>t. CallInv
  BY DEF TypeInv
<1>1. CASE SingleSteps
  <2>1. UNCHANGED call /\ disturbed \subseteq disturbed'
    BY <1>1, SingleCalls
  <2>2. CASE \E d \in Devices, n \in 0 .. MaxCounter : RegisterDevice(d, n)
    BY <2>2, TapRegisters
  <2>3. CASE ~ \E d \in Devices, n \in 0 .. MaxCounter : RegisterDevice(d, n)
    <3>1. UNCHANGED tags
      BY <1>1, <2>3 DEF SingleSteps, CreateAsset, UpdateAsset, Submit, Pay, HandleMercadoPago, vars, rows
    <3> QED
      BY <2>1, <3>1, TapSame
  <2> QED
    BY <2>2, <2>3
<1>2. ASSUME NEW c \in Calls, Taps(c) PROVE TapInv'
  BY <1>2, TapBegins, TapEnds DEF Taps
<1>3. ASSUME NEW c \in Calls, NEW S, Moves(c, S), "tap" \notin S, UNCHANGED tags PROVE TapInv'
  BY <1>3, TapSame DEF Moves, StepOf
<1>4. ASSUME NEW c \in Calls, Registry(c) \/ Curation(c) PROVE TapInv'
  BY <1>t, <1>3, <1>4, RegistryMoves, CurationMoves DEF RegistrySteps
<1>5. ASSUME NEW c \in Calls, Transfers(c) PROVE TapInv'
  <2>1. Moves(c, TransferSteps)
    BY <1>t, <1>5, FindBuyerMoves, TransferMoves DEF Transfers
  <2>2. UNCHANGED tags
    BY <1>5 DEF Transfers, FindBuyer, Begin, rows, ShadowAccount, AwaitPayment, TellTransfer, CreatePaymentPreference
  <2> QED
    BY <1>3, <2>1, <2>2 DEF TransferSteps
<1>6. ASSUME NEW c \in Calls, Billing(c) PROVE TapInv'
  BY <1>t, <1>3, <1>6, BillingMoves DEF BillingSteps
<1>7. ASSUME NEW c \in Calls, Throw(c) \/ Die(c) PROVE TapInv'
  BY <1>t, <1>7, CutMoves, TapSame DEF StepOf
<1> QED
  BY <1>1, <1>2, <1>4, <1>5, <1>6, <1>7, NextCases
-----------------------------------------------------------------------------
(* Transfers and their payments *)

\* An asset whose books are left alone, and at which no call arrives or leaves.
LEMMA PayingKept ==
  ASSUME NEW a \in Assets, Paying(a), disturbed \subseteq disturbed',
         asset'[a] = asset[a] \/ asset'[a] \notin {"ABSENT", "AWAITING_PAYMENT"},
         confirmed'[a] = confirmed[a], Due(a)' = Due(a),
         \A d \in Calls : call'[d] = call[d] \/ (~ At(call[d], a) /\ ~ At(call'[d], a))
  PROVE  Paying(a)'
<1>0. (asset[a] = "ABSENT" => \A c \in Calls : ~ At(call[c], a))'
  BY DEF Paying, At
<1> SUFFICES ASSUME AssetRow(a) \notin disturbed' PROVE Paying(a)'
  BY <1>0 DEF Paying, AssetRow
<1>1. /\ \A c \in Calls : At(call[c], a) => Stage(call[c].step, a)
      /\ (\A c \in Calls : ~ At(call[c], a)) => Settled(a)
  BY DEF Paying
<1>2. ASSUME NEW c \in Calls, NEW x, x = call'[c], At(x, a)
      PROVE  Stage(x.step, a)'
  <2>1. call[c] = x /\ Stage(x.step, a)
    BY <1>1, <1>2
  <2> QED
    BY <2>1 DEF Stage
<1>3. ASSUME \A c \in Calls : ~ At(call'[c], a) PROVE Settled(a)'
  <2>1. \A c \in Calls : ~ At(call[c], a)
    BY <1>3
  <2> QED
    BY <1>1, <2>1 DEF Settled
<1> QED
  BY <1>0, <1>2, <1>3 DEF Paying, At, Stage

\* Whether or not call c was at asset a, no other call is: then what holds at its next
\* step, or once it has left, is all there is to say.
LEMMA PayingMoves ==
  ASSUME TypeInv, NEW a \in Assets, Paying(a), NEW c \in Calls, StepOf(c), disturbed \subseteq disturbed',
         AssetRow(a) \notin disturbed' =>
           At(call[c], a) \/ (\A d \in Calls : AssetRow(a) \notin call[d].holds),
         NEW x, x = call'[c],
         (IF At(call[c], a) THEN Stage(call[c].step, a) ELSE Settled(a))
           => (IF At(x, a) THEN Stage(x.step, a)' ELSE Settled(a)'),
         asset'[a] # "ABSENT"
  PROVE  Paying(a)'
<1> SUFFICES ASSUME AssetRow(a) \notin disturbed' PROVE Paying(a)'
  BY DEF Paying, AssetRow
<1>1. \A d \in Calls : AssetRow(a) \in call[d].holds <=> At(call[d], a)
  BY DEF TypeInv, CallInv, Holding
<1>2. \A d \in Calls \ {c} : ~ At(call[d], a)
  BY <1>1, HeldTwice DEF TypeInv
<1>3. IF At(call[c], a) THEN Stage(call[c].step, a) ELSE Settled(a)
  BY <1>2 DEF Paying
<1>4. IF At(x, a) THEN Stage(x.step, a)' ELSE Settled(a)'
  BY <1>3
<1>5. \A d \in Calls \ {c} : ~ At(call'[d], a)
  BY <1>2 DEF StepOf
<1>6. (\A d \in Calls : ~ At(call'[d], a)) => Settled(a)'
  BY <1>4
<1>7. ASSUME NEW d \in Calls, NEW y, y = call'[d], At(y, a) PROVE Stage(y.step, a)'
  BY <1>4, <1>5, <1>7
<1> QED
  BY <1>6, <1>7 DEF Paying, At, Stage

LEMMA PaySame ==
  ASSUME PayInv, UNCHANGED <<asset, confirmed, started, byHand>>, disturbed \subseteq disturbed',
         \A d \in Calls : call'[d] = call[d] \/ (call[d].step \notin AssetSteps /\ call'[d].step \notin AssetSteps)
  PROVE  PayInv'
BY PayingKept DEF PayInv, At, Due

\* A transfer begins at an asset that is ACTIVE, and that nobody else is at.
LEMMA PayBegins ==
  ASSUME TypeInv, PayInv, NEW c \in Calls, NEW a \in Assets, NEW r \in Refs, FindBuyer(c, a, r)
  PROVE  PayInv'
<1>1. /\ Moves(c, TransferSteps) /\ UNCHANGED rows
      /\ call'[c].at = <<a, r>> /\ call'[c].step \in {"shadow", "await"} /\ call[c].step = "idle"
      /\ AssetRow(a) \notin disturbed' => \A d \in Calls : AssetRow(a) \notin call[d].holds
      /\ asset[a] = "ACTIVE"
  BY FindBuyerMoves DEF FindBuyer, TypeInv
<1>2. PICK x : x = call'[c]
  OBVIOUS
<1>3. ASSUME NEW b \in Assets \ {a} PROVE Paying(b)'
  <2>1. ~ At(call[c], b) /\ ~ At(x, b)
    BY <1>1, <1>2 DEF At, AssetSteps
  <2> QED
    BY <1>1, <1>2, <2>1, PayingKept DEF PayInv, Moves, StepOf, rows, transfer, billing, Due
<1>4. Paying(a)'
  <2>1. At(x, a) /\ ~ At(call[c], a) /\ x.step \in {"shadow", "await"}
    BY <1>1, <1>2 DEF At, AssetSteps
  <2>2. Settled(a) => Stage(x.step, a)'
    BY <1>1, <2>1 DEF Settled, Stage, Due, rows, transfer, billing
  <2> QED
    BY <1>1, <1>2, <2>1, <2>2, PayingMoves DEF PayInv, Moves, rows
<1> QED
  BY <1>3, <1>4 DEF PayInv

\* One step of a call that is at asset a, and writes no other asset's books.
LEMMA PayAt ==
  ASSUME TypeInv, PayInv, NEW c \in Calls, NEW a \in Assets, At(call[c], a), StepOf(c), disturbed' = disturbed,
         NEW x, x = call'[c], x.step \in AssetSteps => x.at[1] = a,
         \A b \in Assets \ {a} : asset'[b] = asset[b] /\ confirmed'[b] = confirmed[b] /\ Due(b)' = Due(b),
         asset'[a] \in {asset[a], "ACTIVE", "AWAITING_PAYMENT"},
         Stage(call[c].step, a) => (IF x.step \in AssetSteps THEN Stage(x.step, a)' ELSE Settled(a)')
  PROVE  PayInv'
<1>1. ASSUME NEW b \in Assets \ {a} PROVE Paying(b)'
  <2>1. ~ At(call[c], b) /\ ~ At(x, b)
    BY DEF At
  <2> QED
    BY <2>1, PayingKept DEF PayInv, StepOf
<1>2. Paying(a)'
  <2>1. At(x, a) <=> x.step \in AssetSteps
    BY DEF At
  <2>2. asset'[a] # "ABSENT"
    BY DEF PayInv, Paying
  <2> QED
    BY <2>1, <2>2, PayingMoves DEF PayInv
<1> QED
  BY <1>1, <1>2 DEF PayInv

LEMMA PayTransfers ==
  ASSUME TypeInv, PayInv, NEW c \in Calls,
         ShadowAccount(c) \/ AwaitPayment(c) \/ TellTransfer(c) \/ CreatePaymentPreference(c)
  PROVE  PayInv'
<1>1. /\ StepOf(c) /\ disturbed' = disturbed
      /\ call'[c] = Idle \/ (call'[c].at = call[c].at /\ call'[c].step \in AssetSteps)
  BY TransferMoves DEF TypeInv, Moves
<1>2. PICK a \in Assets, r \in Refs :
        /\ call[c].at = <<a, r>>
        /\ \/ /\ call[c].step = "shadow" /\ (Finish(c) \/ Move(c, "await"))
              /\ UNCHANGED <<asset, confirmed, started, byHand>>
           \/ /\ call[c].step = "await" /\ Move(c, "initiated")
              /\ asset' = [asset EXCEPT ![a] = "AWAITING_PAYMENT"] /\ UNCHANGED <<confirmed, started, byHand>>
           \/ /\ call[c].step = "initiated" /\ Move(c, "prefer")
              /\ started' = [started EXCEPT ![a] = started[a] + 1] /\ UNCHANGED <<asset, confirmed, byHand>>
           \/ /\ call[c].step = "prefer" /\ Finish(c)
              /\ UNCHANGED <<asset, confirmed, started, byHand>>
  BY DEF ShadowAccount, AwaitPayment, TellTransfer, CreatePaymentPreference, transfer, billing
<1>3. PICK x : x = call'[c]
  OBVIOUS
<1>4. /\ Finish(c) => x.step = "idle"
      /\ \A l \in {"await", "initiated", "prefer"} : Move(c, l) => x.step = l
  BY <1>3, IdleHolds, MoveStep DEF Finish, TypeInv, CallInv
<1>5. /\ asset \in [Assets -> Statuses] /\ started \in [Assets -> Nat] /\ confirmed \in [Assets -> Nat]
      /\ byHand \in [Assets -> Nat]
  BY DEF TypeInv, TypeOK
<1>6. At(call[c], a) /\ (x.step \in AssetSteps => x.at[1] = a)
  <2>1. call[c].step \in AssetSteps
    BY <1>2 DEF AssetSteps
  <2>2. call[c].at[1] = a
    BY <1>2
  <2>3. x = Idle => x.step \notin AssetSteps
    BY IdleHolds DEF AssetSteps
  <2> QED
    BY <1>1, <1>3, <2>1, <2>2, <2>3 DEF At
<1>7. /\ \A b \in Assets \ {a} : asset'[b] = asset[b] /\ confirmed'[b] = confirmed[b] /\ Due(b)' = Due(b)
      /\ asset'[a] \in {asset[a], "ACTIVE", "AWAITING_PAYMENT"}
  BY <1>2, <1>5 DEF Due
<1>8. Stage(call[c].step, a) => (IF x.step \in AssetSteps THEN Stage(x.step, a)' ELSE Settled(a)')
  BY <1>2, <1>4, <1>5 DEF Stage, Settled, Due, AssetSteps
<1> QED
  BY <1>1, <1>3, <1>6, <1>7, <1>8, PayAt

LEMMA PayBillings ==
  ASSUME TypeInv, PayInv, NEW c \in Calls, Activate(c) \/ TellPayment(c)
  PROVE  PayInv'
<1>1. StepOf(c) /\ disturbed' = disturbed /\ call'[c].at = call[c].at
  BY PaymentMoves DEF TypeInv, Moves
<1>2. PICK a \in Assets, n \in Notices :
        /\ call[c].at = <<a, n>>
        /\ \/ /\ call[c].step = "activate" /\ Move(c, "confirm")
              /\ asset' = [asset EXCEPT ![a] = "ACTIVE"] /\ UNCHANGED <<confirmed, started, byHand>>
           \/ /\ call[c].step = "confirm" /\ Move(c, "close")
              /\ confirmed' = [confirmed EXCEPT ![a] = confirmed[a] + 1] /\ UNCHANGED <<asset, started, byHand>>
  BY DEF Activate, TellPayment, transfer, billing
<1>3. PICK x : x = call'[c]
  OBVIOUS
<1>4. \A l \in {"confirm", "close"} : Move(c, l) => x.step = l
  BY <1>3, MoveStep DEF TypeInv
<1>5. /\ asset \in [Assets -> Statuses] /\ started \in [Assets -> Nat] /\ confirmed \in [Assets -> Nat]
      /\ byHand \in [Assets -> Nat]
  BY DEF TypeInv, TypeOK
<1>6. At(call[c], a) /\ (x.step \in AssetSteps => x.at[1] = a)
  BY <1>1, <1>2, <1>3 DEF At, AssetSteps
<1>7. /\ \A b \in Assets \ {a} : asset'[b] = asset[b] /\ confirmed'[b] = confirmed[b] /\ Due(b)' = Due(b)
      /\ asset'[a] \in {asset[a], "ACTIVE", "AWAITING_PAYMENT"}
  BY <1>2, <1>5 DEF Due
<1>8. Stage(call[c].step, a) => (IF x.step \in AssetSteps THEN Stage(x.step, a)' ELSE Settled(a)')
  BY <1>2, <1>4, <1>5 DEF Stage, Settled, Due, AssetSteps
<1> QED
  BY <1>1, <1>3, <1>6, <1>7, <1>8, PayAt

\* A notice is for an asset that awaits a payment, and that nobody else is at.
LEMMA PayFinds ==
  ASSUME TypeInv, PayInv, NEW c \in Calls, FindAwaiting(c)
  PROVE  PayInv'
<1>1. /\ Moves(c, BillingSteps) /\ call[c].step = "batch"
      /\ UNCHANGED <<asset, transfer, confirmed>>
      /\ \/ call'[c].step = "batch"
         \/ \E a, n : /\ asset[a] = "AWAITING_PAYMENT"
                      /\ call'[c].step = "activate" /\ call'[c].at = <<a, n>>
                      /\ a \in Assets /\ AssetRow(a) \notin disturbed' =>
                           \A d \in Calls : AssetRow(a) \notin call[d].holds
  BY FindAwaitingMoves DEF TypeInv
<1>2. PICK x : x = call'[c]
  OBVIOUS
<1>3. ASSUME NEW b \in Assets, ~ At(x, b) PROVE Paying(b)'
  <2>1. ~ At(call[c], b)
    BY <1>1 DEF At, AssetSteps
  <2> QED
    BY <1>1, <1>2, <1>3, <2>1, PayingKept DEF PayInv, Moves, StepOf, transfer, Due
<1>4. ASSUME NEW b \in Assets, At(x, b) PROVE Paying(b)'
  <2>1. /\ asset[b] = "AWAITING_PAYMENT" /\ x.step = "activate"
        /\ AssetRow(b) \notin disturbed' => \A d \in Calls : AssetRow(b) \notin call[d].holds
    BY <1>1, <1>2, <1>4 DEF At, AssetSteps
  <2>2. ~ At(call[c], b)
    BY <1>1 DEF At, AssetSteps
  <2>3. Settled(b) => Stage(x.step, b)'
    BY <1>1, <2>1 DEF Settled, Stage, transfer, Due
  <2> QED
    BY <1>1, <1>2, <1>4, <2>1, <2>2, <2>3, PayingMoves DEF PayInv, Moves
<1> QED
  BY <1>3, <1>4 DEF PayInv

\* Once its notice is closed, a payment has been confirmed in full.
LEMMA PayCloses ==
  ASSUME TypeInv, PayInv, NEW c \in Calls, call[c].step = "close", CloseNotice(c, "DONE"), disturbed' = disturbed
  PROVE  PayInv'
<1>1. /\ StepOf(c) /\ call'[c].step = "batch" /\ UNCHANGED <<asset, confirmed, transfer>>
  BY CloseNoticeMoves DEF BillingSteps, TypeInv, Moves
<1>2. PICK a \in Assets, n \in Notices : call[c].at = <<a, n>>
  BY DEF CloseNotice
<1>3. PICK x : x = call'[c]
  OBVIOUS
<1>4. At(call[c], a) /\ x.step \notin AssetSteps
  BY <1>1, <1>2, <1>3 DEF At, AssetSteps
<1>5. Stage(call[c].step, a) => Settled(a)'
  BY <1>1 DEF Stage, Settled, Due, transfer
<1> QED
  BY <1>1, <1>3, <1>4, <1>5, PayAt DEF transfer, Due

\* What a call that is cut short leaves half done is disturbed.
LEMMA PayCuts ==
  ASSUME TypeInv, PayInv, NEW c \in Calls, Throw(c) \/ Die(c)
  PROVE  PayInv'
<1>1. /\ StepOf(c) /\ disturbed \subseteq disturbed' /\ call[c].holds \subseteq disturbed'
      /\ call'[c].step \in {"idle", "batch"} /\ UNCHANGED <<asset, confirmed, transfer>>
  BY CutMoves DEF TypeInv
<1>2. PICK x : x = call'[c]
  OBVIOUS
<1>3. SUFFICES ASSUME NEW a \in Assets PROVE Paying(a)'
  BY DEF PayInv
<1>4. ~ At(x, a)
  BY <1>1, <1>2 DEF At, AssetSteps
<1>0. (asset[a] = "ABSENT" => \A d \in Calls : ~ At(call[d], a))'
  BY <1>1, <1>2, <1>4 DEF PayInv, Paying, StepOf, At
<1>5. CASE At(call[c], a)
  <2>1. AssetRow(a) \in disturbed'
    BY <1>1, <1>5 DEF TypeInv, CallInv, Holding
  <2> QED
    BY <1>0, <2>1 DEF Paying, AssetRow
<1>6. CASE ~ At(call[c], a)
  BY <1>1, <1>2, <1>4, <1>6, PayingKept DEF PayInv, StepOf, transfer, Due
<1> QED
  BY <1>5, <1>6

\* A status set by hand counts as a transfer that is due: at once, if no call is there.
LEMMA PayByHand ==
  ASSUME TypeInv, PayInv, NEW a \in Assets, NEW s \in Edits \cup {"ACTIVE"},
         asset' = [asset EXCEPT ![a] = s], ByHand(a, s), UNCHANGED <<call, confirmed, started>>,
         disturbed \subseteq disturbed',
         asset[a] = "ABSENT" \/ \A c \in Calls : AssetRow(a) \in call[c].holds => AssetRow(a) \in disturbed'
  PROVE  PayInv'
<1>1. /\ asset \in [Assets -> Statuses] /\ s # "ABSENT"
      /\ started[a] \in Nat /\ confirmed[a] \in Nat /\ byHand \in [Assets -> Nat]
  BY AssetRecordsAssumption DEF TypeInv, TypeOK
<1>2. /\ asset'[a] = s /\ \A b \in Assets \ {a} : asset'[b] = asset[b] /\ byHand'[b] = byHand[b]
      /\ byHand'[a] = IF s = "AWAITING_PAYMENT" THEN byHand[a] + 1 ELSE byHand[a]
  BY <1>1 DEF ByHand
<1>3. ASSUME NEW b \in Assets \ {a} PROVE Paying(b)'
  BY <1>2, PayingKept DEF PayInv, Due
<1>4. Paying(a)'
  <2>1. CASE AssetRow(a) \in disturbed'
    BY <1>1, <1>2, <2>1 DEF Paying, AssetRow
  <2>2. CASE AssetRow(a) \notin disturbed'
    <3>1. \A c \in Calls : ~ At(call[c], a)
      BY <2>2 DEF TypeInv, CallInv, Holding, PayInv, Paying
    <3>2. Settled(a)
      BY <2>2, <3>1 DEF PayInv, Paying
    <3>3. Settled(a)'
      BY <1>1, <1>2, <3>2 DEF Settled, Due
    <3> QED
      BY <3>1, <3>3 DEF Paying, At
  <2> QED
    BY <2>1, <2>2
<1> QED
  BY <1>3, <1>4 DEF PayInv

LEMMA PayNext == TypeInv /\ PayInv /\ [Next]_vars => PayInv'
<1> SUFFICES ASSUME TypeInv, PayInv, [Next]_vars PROVE PayInv'
  OBVIOUS
<1>t. CallInv /\ asset \in [Assets -> Statuses]
  BY DEF TypeInv, TypeOK
<1>1. CASE SingleSteps
  <2>1. UNCHANGED call /\ disturbed \subseteq disturbed'
    BY <1>1, SingleCalls
  <2>2. ASSUME NEW a \in Assets, NEW s \in Edits \cup {"ACTIVE"}, NEW owners \in SUBSET Refs,
               NEW primaries \in SUBSET owners, CreateAsset(a, s, owners, primaries)
        PROVE  PayInv'
    BY <2>2, <2>1, PayByHand DEF CreateAsset, billing
  <2>3. ASSUME NEW a \in Assets, NEW s \in Edits, UpdateAsset(a, s) PROVE PayInv'
    <3>1. \A c \in Calls : AssetRow(a) \in call[c].holds => AssetRow(a) \in disturbed'
      BY <2>3 DEF UpdateAsset, Single
    <3> QED
      BY <2>1, <2>3, <3>1, PayByHand DEF UpdateAsset, billing
  <2>4. ASSUME ~ (\E a \in Assets, s \in Edits \cup {"ACTIVE"}, owners \in SUBSET Refs :
                    \E primaries \in SUBSET owners : CreateAsset(a, s, owners, primaries)),
               ~ (\E a \in Assets, s \in Edits : UpdateAsset(a, s))
        PROVE  UNCHANGED <<asset, confirmed, started, byHand>>
    BY <1>1, <2>4
       DEF SingleSteps, Submit, RegisterDevice, Pay, HandleMercadoPago, vars, rows, transfer, billing
  <2> QED
    BY <1>1, <2>1, <2>2, <2>3, <2>4, PaySame
<1>2. ASSUME NEW c \in Calls, NEW S, Moves(c, S), S \cap AssetSteps = {}, UNCHANGED <<asset, confirmed, started, byHand>>
      PROVE  PayInv'
  BY <1>2, PaySame DEF Moves, StepOf
<1>3. ASSUME NEW c \in Calls, Registry(c) PROVE PayInv'
  <2>1. Moves(c, RegistrySteps) /\ UNCHANGED <<asset, transfer, billing>>
    BY <1>t, <1>3, RegistryMoves
  <2>2. RegistrySteps \cap AssetSteps = {}
    BY DEF RegistrySteps, AssetSteps
  <2> QED
    BY <1>2, <2>1, <2>2 DEF transfer, billing
<1>4. ASSUME NEW c \in Calls, Curation(c) PROVE PayInv'
  <2>1. Moves(c, {"idle", "review"}) /\ UNCHANGED <<asset, transfer, billing>>
    BY <1>t, <1>4, CurationMoves
  <2>2. {"idle", "review"} \cap AssetSteps = {}
    BY DEF AssetSteps
  <2> QED
    BY <1>2, <2>1, <2>2 DEF transfer, billing
<1>5. ASSUME NEW c \in Calls, Taps(c) PROVE PayInv'
  <2>1. Moves(c, {"idle", "tap"}) /\ UNCHANGED <<asset, transfer, billing>>
    BY <1>t, <1>5, TapsMoves
  <2>2. {"idle", "tap"} \cap AssetSteps = {}
    BY DEF AssetSteps
  <2> QED
    BY <1>2, <2>1, <2>2 DEF transfer, billing
<1>6. ASSUME NEW c \in Calls, Transfers(c) PROVE PayInv'
  BY <1>6, PayBegins, PayTransfers DEF Transfers
<1>7. ASSUME NEW c \in Calls, Billing(c) PROVE PayInv'
  <2>1. CASE ClaimNotices(c)
    <3>1. Moves(c, BillingSteps) /\ call[c].step = "idle" /\ call'[c].step = "batch" /\ UNCHANGED <<asset, transfer, confirmed>>
      BY <1>t, <2>1, ClaimNoticesMoves
    <3> QED
      BY <3>1, PaySame DEF Moves, StepOf, AssetSteps, transfer
  <2>2. CASE EndBatch(c)
    <3>1. StepOf(c) /\ call'[c].step = "idle" /\ call[c].step = "batch" /\ disturbed' = disturbed /\ UNCHANGED rows
      BY <1>t, <2>2, FinishCalls, IdleHolds DEF EndBatch, Steady
    <3> QED
      BY <3>1, PaySame DEF StepOf, AssetSteps, rows, transfer, billing
  <2> QED
    BY <1>7, <2>1, <2>2, PayFinds, PayBillings, PayCloses DEF Billing
<1>8. ASSUME NEW c \in Calls, Throw(c) \/ Die(c) PROVE PayInv'
  BY <1>8, PayCuts
<1> QED
  BY <1>1, <1>3, <1>4, <1>5, <1>6, <1>7, <1>8, NextCases
-----------------------------------------------------------------------------
(* Notices and what they confirmed *)

\* A call writes at most the notices of its batch, none of which another has.
LEMMA NoticeStep ==
  ASSUME NoticeInv, NEW c \in Calls, StepOf(c), Claimed(c)', call'[c].rest \subseteq call[c].rest,
         \A n \in Notices \ call[c].rest : inbox'[n] = inbox[n] /\ acted'[n] = acted[n],
         \A n \in Notices \cap call[c].rest : inbox'[n].status \notin {"none", "PENDING"} /\ acted'[n] <= 1,
         \A d \in Calls : call[d].rest \subseteq Notices
  PROVE  NoticeInv'
<1>1. ASSUME NEW d \in Calls, d # c PROVE Claimed(d)'
  <2>1. \A n \in call[d].rest : n \in Notices \ call[c].rest
    BY <1>1 DEF NoticeInv, Noticing
  <2>2. call'[d] = call[d] /\ Claimed(d)
    BY <1>1 DEF StepOf, NoticeInv
  <2> QED
    BY <2>1, <2>2 DEF Claimed
<1>2. ASSUME NEW n \in Notices PROVE Noticing(n)'
  <2>1. \A d \in Calls : n \in call'[d].rest => n \in call[d].rest
    BY DEF StepOf
  <2>2. \A d, e \in Calls : n \in call'[d].rest /\ n \in call'[e].rest => d = e
    BY <2>1 DEF NoticeInv, Noticing
  <2>3. acted'[n] <= IF inbox'[n].status \in {"none", "PENDING"} THEN 0 ELSE 1
    BY DEF NoticeInv, Noticing
  <2> QED
    BY <2>2, <2>3 DEF Noticing
<1> QED
  BY <1>1, <1>2 DEF NoticeInv

\* Of the batch of a call, nothing has confirmed more than one payment.
LEMMA BatchOnce ==
  ASSUME NoticeInv, NEW c \in Calls, NEW n \in Notices \cap call[c].rest
  PROVE  inbox[n].status = "PROCESSING" /\ acted[n] <= 1
<1>1. inbox[n].status = "PROCESSING"
  BY DEF NoticeInv, Claimed
<1> QED
  BY <1>1 DEF NoticeInv, Noticing

\* A call that is no batch, or is none any more, leaves all notices alone.
LEMMA NoticeSame ==
  ASSUME NoticeInv, CallInv, CallInv', NEW c \in Calls, StepOf(c), call'[c].step \notin BatchSteps,
         UNCHANGED <<acted, inbox>>
  PROVE  NoticeInv'
<1>1. call'[c].rest = {} /\ \A d \in Calls : call[d].rest \subseteq Notices
  BY DEF CallInv, Holding, Shaped
<1>2. Claimed(c)'
  BY <1>1 DEF Claimed, BatchSteps
<1>3. \A n \in Notices \cap call[c].rest : inbox'[n].status \notin {"none", "PENDING"} /\ acted'[n] <= 1
  BY BatchOnce
<1> QED
  BY <1>1, <1>2, <1>3, NoticeStep

\* A batch takes notices that nobody has taken, and that have confirmed nothing.
LEMMA NoticeClaims ==
  ASSUME TypeInv, NoticeInv, NEW c \in Calls, ClaimNotices(c)
  PROVE  NoticeInv'
<1>1. PICK P : P = {n \in Notices : inbox[n].status = "PENDING"}
  OBVIOUS
<1>2. /\ inbox' = [n \in Notices |-> IF n \in P THEN [inbox[n] EXCEPT !.status = "PROCESSING"] ELSE inbox[n]]
      /\ acted' = acted /\ call[c].step = "idle"
      /\ GoOn(c, "batch", <<>>, "none", P, {})
  BY <1>1 DEF ClaimNotices
<1>3. StepOf(c) /\ call'[c].step = "batch" /\ call'[c].rest = P
  BY <1>2 DEF GoOn, TypeInv, CallInv, StepOf
<1>4. /\ \A n \in Notices \ P : inbox'[n] = inbox[n]
      /\ \A n \in P : inbox'[n].status = "PROCESSING"
  <2>1. \A n \in Notices : inbox[n] \in Notice
    BY DEF TypeInv, TypeOK, Notice
  <2>2. \A n \in P : inbox'[n] = [inbox[n] EXCEPT !.status = "PROCESSING"]
    BY <1>1, <1>2
  <2>3. \A x \in Notice : [x EXCEPT !.status = "PROCESSING"].status = "PROCESSING"
    BY DEF Notice
  <2> QED
    BY <1>1, <1>2, <2>1, <2>2, <2>3
<1>5. \A n \in P : n \in Notices /\ acted[n] = 0
  BY <1>1 DEF NoticeInv, Noticing, TypeInv, TypeOK
<1>6. \A d \in Calls \ {c} : call[d].rest \subseteq Notices \ P
  BY <1>1 DEF NoticeInv, Claimed, TypeInv, CallInv, Shaped
<1>7. Claimed(c)'
  BY <1>2, <1>3, <1>4, <1>5 DEF Claimed
<1>8. ASSUME NEW d \in Calls, d # c PROVE Claimed(d)'
  <2>1. call'[d] = call[d] /\ Claimed(d)
    BY <1>3, <1>8 DEF StepOf, NoticeInv
  <2>2. \A n \in call[d].rest : inbox'[n] = inbox[n]
    BY <1>4, <1>6, <1>8
  <2> QED
    BY <1>2, <2>1, <2>2 DEF Claimed
<1>9. ASSUME NEW n \in Notices PROVE Noticing(n)'
  <2>1. \A d, e \in Calls : n \in call'[d].rest /\ n \in call'[e].rest => d = e
    BY <1>3, <1>6 DEF NoticeInv, Noticing, StepOf
  <2>2. acted'[n] <= IF inbox'[n].status \in {"none", "PENDING"} THEN 0 ELSE 1
    BY <1>2, <1>4, <1>5 DEF NoticeInv, Noticing
  <2> QED
    BY <2>1, <2>2 DEF Noticing
<1> QED
  BY <1>7, <1>8, <1>9 DEF NoticeInv

\* A notice that has nothing to do is closed, any other is taken up.
LEMMA NoticeFinds ==
  ASSUME TypeInv, NoticeInv, NEW c \in Calls, FindAwaiting(c)
  PROVE  NoticeInv'
<1>0. PICK n \in call[c].rest : \E a :
        /\ call[c].step = "batch" /\ acted' = acted
        /\ \/ GoOn(c, "activate", <<a, n>>, "none", call[c].rest, {AssetRow(a)}) /\ inbox' = inbox
           \/ /\ GoOn(c, "batch", <<>>, "none", call[c].rest \ {n}, {})
              /\ inbox' = [inbox EXCEPT ![n].status = "DONE"]
  BY DEF FindAwaiting
<1>1. PICK a :
        /\ call[c].step = "batch" /\ acted' = acted
        /\ \/ GoOn(c, "activate", <<a, n>>, "none", call[c].rest, {AssetRow(a)}) /\ inbox' = inbox
           \/ /\ GoOn(c, "batch", <<>>, "none", call[c].rest \ {n}, {})
              /\ inbox' = [inbox EXCEPT ![n].status = "DONE"]
  BY <1>0
<1>2. PICK R \in SUBSET Notices : R = call[c].rest
  BY DEF TypeInv, CallInv, Shaped
<1>3. /\ n \in R /\ \A k \in R : inbox[k].status = "PROCESSING" /\ acted[k] = 0
      /\ \A d \in Calls : call[d].rest \subseteq Notices
  BY <1>1, <1>2 DEF NoticeInv, Claimed, TypeInv, CallInv, Shaped
<1>4. CASE GoOn(c, "activate", <<a, n>>, "none", R, {AssetRow(a)}) /\ inbox' = inbox
  <2>1. StepOf(c) /\ call'[c].rest = R /\ call'[c].at = <<a, n>> /\ call'[c].step = "activate"
    BY <1>4 DEF GoOn, TypeInv, CallInv, StepOf
  <2>2. Claimed(c)'
    BY <1>1, <1>3, <1>4, <2>1 DEF Claimed
  <2>3. \A k \in Notices \cap call[c].rest : inbox'[k].status \notin {"none", "PENDING"} /\ acted'[k] <= 1
    BY <1>1, <1>4, BatchOnce
  <2> QED
    BY <1>1, <1>2, <1>3, <1>4, <2>1, <2>2, <2>3, NoticeStep
<1>5. CASE GoOn(c, "batch", <<>>, "none", R \ {n}, {}) /\ inbox' = [inbox EXCEPT ![n].status = "DONE"]
  <2>1. StepOf(c) /\ call'[c].rest = R \ {n} /\ call'[c].step = "batch"
    BY <1>5 DEF GoOn, TypeInv, CallInv, StepOf
  <2>2. inbox'[n].status = "DONE" /\ \A k \in Notices \ {n} : inbox'[k] = inbox[k]
    BY <1>3, <1>5 DEF TypeInv, TypeOK
  <2>3. Claimed(c)'
    BY <1>1, <1>3, <2>1, <2>2 DEF Claimed
  <2>4. \A k \in Notices \cap call[c].rest : inbox'[k].status \notin {"none", "PENDING"} /\ acted'[k] <= 1
    BY <1>1, <2>2, BatchOnce
  <2> QED
    BY <1>1, <1>2, <1>3, <2>1, <2>2, <2>3, <2>4, NoticeStep
<1> QED
  BY <1>1, <1>2, <1>4, <1>5

\* A payment is confirmed for the notice at hand, which had confirmed nothing.
LEMMA NoticeActs ==
  ASSUME TypeInv, NoticeInv, NEW c \in Calls, Activate(c) \/ TellPayment(c)
  PROVE  NoticeInv'
<1>1. PICK k : k = call[c]
  OBVIOUS
<1>2. PICK a \in Assets, n \in Notices, l \in {"confirm", "close"} :
        /\ k.at = <<a, n>> /\ Move(c, l) /\ inbox' = inbox
        /\ \/ k.step = "activate" /\ l = "confirm" /\ acted' = acted
           \/ k.step = "confirm" /\ l = "close" /\ acted' = [acted EXCEPT ![n] = acted[n] + 1]
  BY <1>1 DEF Activate, TellPayment, billing
<1>3. /\ StepOf(c) /\ call'[c].step = l /\ call'[c].at = <<a, n>> /\ call'[c].rest = k.rest
  <2>1. k = [step |-> k.step, at |-> k.at, arg |-> k.arg, rest |-> k.rest, holds |-> k.holds]
    BY <1>1 DEF TypeInv, CallInv, Shaped
  <2>2. call' = [call EXCEPT ![c] = [k EXCEPT !.step = l]] /\ call = [d \in Calls |-> call[d]]
    BY <1>1, <1>2 DEF Move, TypeInv, CallInv
  <2>3. [k EXCEPT !.step = l] = [step |-> l, at |-> k.at, arg |-> k.arg, rest |-> k.rest, holds |-> k.holds]
    BY <2>1
  <2> QED
    BY <1>2, <2>2, <2>3 DEF StepOf
<1>4. /\ n \in k.rest /\ \A m \in k.rest : inbox[m].status = "PROCESSING" /\ acted[m] = 0
      /\ k.rest \subseteq Notices /\ acted \in [Notices -> Nat]
      /\ \A d \in Calls : call[d].rest \subseteq Notices
  <2>1. Claimed(c) /\ k.step \in {"activate", "confirm"} /\ k.at[2] = n
    BY <1>2 DEF NoticeInv
  <2> QED
    BY <1>1, <2>1 DEF Claimed, TypeInv, TypeOK, CallInv, Shaped
<1>5. /\ \A m \in Notices \ {n} : acted'[m] = acted[m]
      /\ acted'[n] \in {0, 1} /\ (acted'[n] = 0 \/ l = "close")
  BY <1>2, <1>4
<1>6. Claimed(c)'
  BY <1>2, <1>3, <1>4, <1>5 DEF Claimed
<1>7. \A m \in Notices \cap call[c].rest : inbox'[m].status \notin {"none", "PENDING"} /\ acted'[m] <= 1
  BY <1>1, <1>2, <1>4, <1>5
<1>8. \A m \in Notices \ call[c].rest : inbox'[m] = inbox[m] /\ acted'[m] = acted[m]
  BY <1>1, <1>2, <1>4, <1>5
<1> QED
  BY <1>1, <1>3, <1>4, <1>6, <1>7, <1>8, NoticeStep

\* A notice that is closed leaves its batch with what it has confirmed.
LEMMA NoticeCloses ==
  ASSUME TypeInv, NoticeInv, NEW c \in Calls, NEW s \in {"DONE", "FAILED"}, CloseNotice(c, s),
         call[c].step \in {"activate", "confirm", "close"}
  PROVE  NoticeInv'
<1>1. PICK a \in Assets, n \in Notices :
        /\ call[c].at = <<a, n>> /\ inbox' = [inbox EXCEPT ![n].status = s] /\ acted' = acted
        /\ call' = [call EXCEPT ![c] = [Idle EXCEPT !.step = "batch", !.rest = call[c].rest \ {n}]]
  BY DEF CloseNotice
<1>2. PICK R \in SUBSET Notices : R = call[c].rest
  BY DEF TypeInv, CallInv, Shaped
<1>3. StepOf(c) /\ call'[c].rest = R \ {n} /\ call'[c].step = "batch"
  BY <1>1, <1>2 DEF Idle, TypeInv, CallInv, StepOf
<1>4. /\ n \in R /\ \A k \in R \ {n} : inbox[k].status = "PROCESSING" /\ acted[k] = 0
      /\ \A d \in Calls : call[d].rest \subseteq Notices
  <2>1. Claimed(c) /\ call[c].at[2] = n
    BY <1>1 DEF NoticeInv
  <2> QED
    BY <1>2, <2>1 DEF Claimed, TypeInv, CallInv, Shaped
<1>5. inbox'[n].status = s /\ \A k \in Notices \ {n} : inbox'[k] = inbox[k]
  BY <1>1 DEF TypeInv, TypeOK
<1>6. Claimed(c)'
  BY <1>1, <1>2, <1>3, <1>4, <1>5 DEF Claimed
<1>7. \A k \in Notices \cap call[c].rest : inbox'[k].status \notin {"none", "PENDING"} /\ acted'[k] <= 1
  BY <1>1, <1>5, BatchOnce
<1> QED
  BY <1>1, <1>2, <1>3, <1>4, <1>5, <1>6, <1>7, NoticeStep

LEMMA NoticeNext == TypeInv /\ NoticeInv /\ [Next]_vars => NoticeInv'
<1> SUFFICES ASSUME TypeInv, NoticeInv, [Next]_vars PROVE NoticeInv'
  OBVIOUS
<1>t. CallInv /\ CallInv'
  BY NextTypes DEF TypeInv
<1>1. CASE SingleSteps
  <2>1. UNCHANGED <<call, acted>>
    BY <1>1 DEF SingleSteps, CreateAsset, UpdateAsset, Submit, RegisterDevice, Pay, HandleMercadoPago, Single, vars, rows, billing
  <2>2. ASSUME NEW n \in Notices, NEW m \in Payments, HandleMercadoPago(n, m) PROVE NoticeInv'
    <3>1. inbox[n].status = "none" /\ inbox' = [inbox EXCEPT ![n] = [status |-> "PENDING", payment |-> m]]
      BY <2>2 DEF HandleMercadoPago, Unused
    <3>2. inbox'[n].status = "PENDING" /\ \A k \in Notices \ {n} : inbox'[k] = inbox[k]
      BY <3>1 DEF TypeInv, TypeOK
    <3>3. ASSUME NEW c \in Calls PROVE Claimed(c)'
      <4>1. n \notin call[c].rest /\ call[c].rest \subseteq Notices /\ Claimed(c)
        BY <1>t, <3>1 DEF NoticeInv, Claimed, CallInv, Shaped
      <4> QED
        BY <2>1, <3>2, <4>1 DEF Claimed
    <3>4. ASSUME NEW k \in Notices PROVE Noticing(k)'
      BY <2>1, <3>1, <3>2 DEF NoticeInv, Noticing
    <3> QED
      BY <3>3, <3>4 DEF NoticeInv
  <2>3. ASSUME ~ \E n \in Notices, m \in Payments : HandleMercadoPago(n, m) PROVE NoticeInv'
    <3>1. inbox' = inbox
      BY <1>1, <2>3 DEF SingleSteps, CreateAsset, UpdateAsset, Submit, RegisterDevice, Pay, vars, rows, billing
    <3> QED
      BY <2>1, <3>1 DEF NoticeInv, Claimed, Noticing
  <2> QED
    BY <2>2, <2>3
<1>2. ASSUME NEW c \in Calls, NEW S, Moves(c, S), S \cap BatchSteps = {}, UNCHANGED billing PROVE NoticeInv'
  BY <1>t, <1>2, NoticeSame DEF Moves, billing
<1>3. ASSUME NEW c \in Calls, Registry(c) PROVE NoticeInv'
  <2>1. Moves(c, RegistrySteps) /\ UNCHANGED billing
    BY <1>t, <1>3, RegistryMoves
  <2>2. RegistrySteps \cap BatchSteps = {}
    BY DEF RegistrySteps, BatchSteps
  <2> QED
    BY <1>2, <2>1, <2>2
<1>4. ASSUME NEW c \in Calls, Curation(c) PROVE NoticeInv'
  <2>1. Moves(c, {"idle", "review"}) /\ UNCHANGED billing /\ {"idle", "review"} \cap BatchSteps = {}
    BY <1>t, <1>4, CurationMoves DEF BatchSteps
  <2> QED
    BY <1>2, <2>1
<1>5. ASSUME NEW c \in Calls, Taps(c) PROVE NoticeInv'
  <2>1. Moves(c, {"idle", "tap"}) /\ UNCHANGED billing /\ {"idle", "tap"} \cap BatchSteps = {}
    BY <1>t, <1>5, TapsMoves DEF BatchSteps
  <2> QED
    BY <1>2, <2>1
<1>6. ASSUME NEW c \in Calls, Transfers(c) PROVE NoticeInv'
  <2>1. Moves(c, TransferSteps)
    BY <1>t, <1>6, FindBuyerMoves, TransferMoves DEF Transfers
  <2>2. UNCHANGED billing
    BY <1>6 DEF Transfers, FindBuyer, Begin, rows, ShadowAccount, AwaitPayment, TellTransfer, CreatePaymentPreference
  <2>3. TransferSteps \cap BatchSteps = {}
    BY DEF TransferSteps, BatchSteps
  <2> QED
    BY <1>2, <2>1, <2>2, <2>3
<1>7. ASSUME NEW c \in Calls, EndBatch(c) \/ Die(c) PROVE NoticeInv'
  <2>1. Finish(c) /\ UNCHANGED <<acted, inbox>> /\ disturbed \subseteq disturbed'
    BY <1>7 DEF EndBatch, Die, Steady, Cut, rows, billing
  <2>2. StepOf(c) /\ call'[c].step \notin BatchSteps
    BY <1>t, <2>1, FinishCalls, IdleHolds DEF BatchSteps
  <2> QED
    BY <1>t, <2>1, <2>2, NoticeSame
<1>8. ASSUME NEW c \in Calls, Billing(c) \/ Throw(c) PROVE NoticeInv'
  BY <1>7, <1>8, NoticeClaims, NoticeFinds, NoticeActs, NoticeCloses DEF Billing, Throw
<1> QED
  BY <1>1, <1>3, <1>4, <1>5, <1>6, <1>7, <1>8, NextCases
-----------------------------------------------------------------------------
(* The invariants of every run *)

LEMMA InitRows == Init => OwnInv /\ ReviewInv /\ TapInv /\ PayInv /\ NoticeInv
<1> SUFFICES ASSUME Init PROVE OwnInv /\ ReviewInv /\ TapInv /\ PayInv /\ NoticeInv
  OBVIOUS
<1>1. \A c \in Calls : call[c].step = "idle"
  BY IdleHolds DEF Init
<1>2. OwnInv
  BY <1>1 DEF Init, OwnInv, Owning, NoOwner
<1>3. ReviewInv
  BY <1>1 DEF Init, ReviewInv, Reviewing
<1>4. TapInv
  BY <1>1 DEF Init, TapInv, Tapping
<1>5. PayInv
  BY <1>1 DEF Init, PayInv, Paying, Due, At, AssetSteps, Stage, Settled
<1>6. NoticeInv
  <2>1. \A c \in Calls : call[c].step = "idle" /\ call[c].rest = {}
    BY DEF Init, Idle
  <2>2. \A n \in Notices : acted[n] = 0
    BY DEF Init
  <2> QED
    BY <2>1, <2>2 DEF NoticeInv, Claimed, Noticing
<1> QED
  BY <1>2, <1>3, <1>4, <1>5, <1>6

\* Every call holds the rows it relies on, and what it has read of a row that no other
\* call has held meanwhile is still true.
THEOREM Invariance == Spec => [](TypeInv /\ OwnInv /\ ReviewInv /\ TapInv)
<1>1. Init => TypeInv /\ OwnInv /\ ReviewInv /\ TapInv
  BY InitTypes, InitRows
<1>2. TypeInv /\ OwnInv /\ ReviewInv /\ TapInv /\ [Next]_vars => (TypeInv /\ OwnInv /\ ReviewInv /\ TapInv)'
  BY NextTypes, OwnNext, ReviewNext, TapNext
<1> QED
  BY <1>1, <1>2, PTL DEF Spec

\* Rows, events and calls are well typed, whatever overlaps or fails.
THEOREM TypeCorrect == Spec => []TypeOK
<1>1. TypeInv => TypeOK
  BY DEF TypeInv
<1> QED
  BY <1>1, Invariance, PTL

\* addOwner, revokeOwner and acceptOwner tell of an owner what is so: one who was granted
\* an asset last is active, and one from whom it was taken last is not.
THEOREM OwnersToldTruly == Spec => []OwnersAreTold
<1>1. OwnInv => OwnersAreTold
  BY DEF OwnInv, Owning, OwnersAreTold
<1> QED
  BY <1>1, Invariance, PTL

\* Whatever reviewers overlap, reviewContribution makes one event of a contribution that
\* was approved and none of any other, but for one at most for each review that another
\* had overtaken.
THEOREM ReviewedAtMostOnce == Spec => []ReviewedOnce
<1>1. ReviewInv => ReviewedOnce
  BY DEF ReviewInv, Reviewing, ReviewedOnce
<1> QED
  BY <1>1, Invariance, PTL

\* A counter is accepted once and never behind the stored one: by validateAndRecordTap
\* always, by verifyTap for a tag that no two verifications held at once.
THEOREM CountersOnlyOnce == Spec => []CounterOnce
<1>1. TapInv => CounterOnce
  BY DEF TapInv, Tapping, CounterOnce
<1> QED
  BY <1>1, Invariance, PTL

\* Of an asset at which no calls overlapped or were cut short, processPaymentWebhook
\* confirms no more transfers than initiateTransfer started or a request asked for by
\* status, however often the provider repeats its notices.
THEOREM TransfersBalance == Spec => []TransfersAddUp
<1>1. Init => TypeInv /\ PayInv
  BY InitTypes, InitRows
<1>2. TypeInv /\ PayInv /\ [Next]_vars => (TypeInv /\ PayInv)'
  BY NextTypes, PayNext
<1>3. TypeInv /\ PayInv => TransfersAddUp
  <2> SUFFICES ASSUME TypeInv, PayInv, NEW a \in Assets, AssetRow(a) \notin disturbed \cup UNION {call[c].holds : c \in Calls}
               PROVE  confirmed[a] + (IF asset[a] = "AWAITING_PAYMENT" THEN 1 ELSE 0) <= started[a] + byHand[a]
    BY DEF TransfersAddUp
  <2>1. \A c \in Calls : ~ At(call[c], a)
    BY DEF TypeInv, CallInv, Holding
  <2>2. Settled(a) /\ confirmed[a] \in Nat /\ started[a] \in Nat /\ byHand[a] \in Nat
    BY <2>1 DEF PayInv, Paying, TypeInv, TypeOK
  <2> QED
    BY <2>2 DEF Settled, Due
<1> QED
  BY <1>1, <1>2, <1>3, PTL DEF Spec

\* However workers of processWebhookInbox overlap, fail or are cut short, a notice of the
\* provider confirms one payment at most, and only once a worker has claimed it.
THEOREM NoticesActedOnce == Spec => []NoticesActOnce
<1>1. Init => TypeInv /\ NoticeInv
  BY InitTypes, InitRows
<1>2. TypeInv /\ NoticeInv /\ [Next]_vars => (TypeInv /\ NoticeInv)'
  BY NextTypes, NoticeNext
<1>3. NoticeInv => NoticesActOnce
  BY DEF NoticeInv, Noticing, NoticesActOnce
<1> QED
  BY <1>1, <1>2, <1>3, PTL DEF Spec
=============================================================================
