------------------------- MODULE CreditLedgerProofs --------------------------
(***************************************************************************)
(* Safety of CreditLedger for every number of users, registrations,        *)
(* requests, events and overlapping calls.  Entries are only ever added,   *)
(* so what a call has once seen in the ledger stays true; IInv says what   *)
(* that is at each point of a registration.                                *)
(*                                                                         *)
(* Balances are sums over the ledger.  What a sum comes to is proved from  *)
(* its definition, by the least number for which it would fail; FundsInv   *)
(* then says that an entry about to be written is still covered, unless    *)
(* another call has outdated its check since.                              *)
(***************************************************************************)
EXTENDS CreditLedger, FiniteSetTheorems, WellFoundedInduction, TLAPS

\* Some entry of ledger l is written under the key (kind, id).
Has(l, kind, id) == \E e \in Entries : e.kind = kind /\ e.id = id /\ l[e] > 0

Writing(c) == pc[c] \in {"find", "check", "insert"}
Settling   == {"CONSUMED", "RELEASED"}

\* What call c knows.  A registration settles only what it has seen reserved, and it
\* holds a dependent only from the upsert to its end.
CallFacts(c) ==
  /\ pc[c] = "idle" => reg[c] = NoReg /\ made[c] = NoRow
  /\ pc[c] # "idle" /\ reg[c] = NoReg =>
       /\ Writing(c) /\ made[c] = NoRow
       /\ pend[c] \in {Welcome(u) : u \in Users} \cup {Adjust(a) : a \in Requests}
  /\ Writing(c) /\ reg[c] # NoReg =>
       /\ pend[c] \in {Reserve(reg[c]), Consume(reg[c]), Release(reg[c])}
       /\ pend[c].kind \in Settling => Has(ledger, "RESERVED", reg[c])
       /\ made[c] # NoRow => pend[c].kind \in Settling
  /\ pc[c] = "upsert" => reg[c] \in Dependents /\ made[c] = NoRow /\ Has(ledger, "RESERVED", reg[c])
  /\ pc[c] = "archive" => reg[c] \in Dependents
  /\ made[c] # NoRow => reg[c] \in Dependents

CallInv == \A c \in Calls : CallFacts(c)

\* A purchase is in the ledger only if its event was received.
PurchaseInv == \A w \in Events : ledger[Purchase(w)] > 0 => w.id \in received

IInv == /\ TypeOK /\ CallInv /\ PurchaseInv
        /\ OncePerKey /\ SettledWasReserved /\ ActiveIsPaid
-----------------------------------------------------------------------------
(* Entries *)

\* The three entries of a registration are told apart by their kinds.
LEMMA EntryOf ==
  ASSUME NEW r \in Regs
  PROVE  /\ Reserve(r) \in Entries /\ Reserve(r).kind = "RESERVED" /\ Reserve(r).id = r
         /\ Consume(r) \in Entries /\ Consume(r).kind = "CONSUMED" /\ Consume(r).id = r
         /\ Release(r) \in Entries /\ Release(r).kind = "RELEASED" /\ Release(r).id = r
BY DEF Entries, Reserve, Consume, Release, Entry

\* Entries of the other writers.
LEMMA OtherEntries ==
  /\ \A u \in Users : Welcome(u) \in Entries /\ Welcome(u).kind = "GRANTED"
  /\ \A a \in Requests : Adjust(a) \in Entries /\ Adjust(a).kind = "ADJUSTED"
  /\ \A w \in Events : Purchase(w) \in Entries /\ Purchase(w).kind = "PURCHASED"
                       /\ Purchase(w).id = w.id
BY DEF Entries, Welcome, Adjust, Purchase, Entry

\* Which entry of a kind there is.
LEMMA EntryKinds ==
  ASSUME NEW e \in Entries
  PROVE  /\ e.kind = "RESERVED" => \E r \in Regs : e = Reserve(r)
         /\ e.kind = "CONSUMED" => \E r \in Regs : e = Consume(r)
         /\ e.kind = "RELEASED" => \E r \in Regs : e = Release(r)
         /\ e.kind = "PURCHASED" => \E w \in Events : e = Purchase(w)
BY DEF Entries, Reserve, Consume, Release, Welcome, Purchase, Adjust, Entry

\* Nothing is taken out of the ledger.
Grows == \A e \in Entries : ledger[e] > 0 => ledger'[e] > 0

LEMMA HasStays ==
  ASSUME Grows, NEW kind, NEW id, Has(ledger, kind, id)
  PROVE  Has(ledger', kind, id)
BY DEF Grows, Has

\* Calls other than c stand still.
Alone(c) == \A d \in Calls \ {c} :
              pc'[d] = pc[d] /\ pend'[d] = pend[d] /\ reg'[d] = reg[d] /\ made'[d] = made[d]

LEMMA OthersKnow ==
  ASSUME IInv, Grows, NEW c \in Calls, Alone(c), CallFacts(c)'
  PROVE  CallInv'
<1> SUFFICES ASSUME NEW d \in Calls PROVE CallFacts(d)'
  BY DEF CallInv
<1>1. CASE d = c
  BY <1>1
<1>2. CASE d # c
  <2>1. /\ CallFacts(d) /\ pc'[d] = pc[d]
        /\ pend'[d] = pend[d] /\ reg'[d] = reg[d] /\ made'[d] = made[d]
    BY <1>2 DEF IInv, CallInv, Alone
  <2>2. Has(ledger, "RESERVED", reg[d]) => Has(ledger', "RESERVED", reg'[d])
    BY <2>1, HasStays
  <2> QED
    BY <2>1, <2>2 DEF CallFacts, Writing
<1> QED
  BY <1>1, <1>2

\* The values that the parts of a call may take.
Shapes ==
  /\ pc \in [Calls -> {"idle", "find", "check", "insert", "upsert", "archive"}]
  /\ pend \in [Calls -> Entries \cup {NoEntry}]
  /\ reg \in [Calls -> Regs \cup {NoReg}]
  /\ made \in [Calls -> People \cup {NoRow}]

\* The other variables.
Rest ==
  /\ ledger \in [Entries -> Nat]
  /\ received \subseteq {w.id : w \in Events}
  /\ order \in [Orders -> Statuses]
  /\ person \in [Dependents -> SUBSET People]
  /\ faults \in 0..MaxFaults
  /\ stale \subseteq Calls /\ late \subseteq Entries /\ broken \subseteq Regs

\* What the calls know makes their parts fit together.
LEMMA TypeNow ==
  ASSUME Shapes, Rest, CallInv
  PROVE  TypeOK
BY DEF Shapes, Rest, CallInv, CallFacts, Writing, TypeOK

LEMMA TypeNext ==
  ASSUME Shapes', Rest', CallInv'
  PROVE  TypeOK'
BY DEF Shapes, Rest, CallInv, CallFacts, Writing, TypeOK

LEMMA InitIInv == Init => IInv
<1> SUFFICES ASSUME Init PROVE IInv
  OBVIOUS
<1>1. \A e \in Entries : ledger[e] = 0
  BY DEF Init
<1>2. \A kind, id : ~ Holds(kind, id)
  BY <1>1 DEF Holds
<1>3. CallInv
  BY DEF Init, CallInv, CallFacts, Writing
<1>4. Shapes
  BY DEF Init, Shapes
<1>5. TypeOK
  <2>1. Rest
    BY BoundsAssumption DEF Init, Statuses, Rest
  <2> QED
    BY <1>3, <1>4, <2>1, TypeNow
<1>6. PurchaseInv /\ OncePerKey
  BY <1>1, OtherEntries DEF PurchaseInv, OncePerKey
<1>7. SettledWasReserved /\ ActiveIsPaid
  BY <1>2 DEF Init, SettledWasReserved, ActiveIsPaid
<1> QED
  BY <1>3, <1>5, <1>6, <1>7 DEF IInv
-----------------------------------------------------------------------------
(* How a call goes on *)

\* What may follow when the statements that write pend[c] have returned, now that the
\* ledger holds an entry under its key.
LEMMA ReturnedMoves ==
  ASSUME IInv, Grows, NEW c \in Calls, Writing(c), Returned(c),
         Has(ledger', pend[c].kind, pend[c].id)
  PROVE  /\ Alone(c) /\ Shapes' /\ CallFacts(c)'
         /\ made[c] # NoRow => \/ reg'[c] = reg[c] /\ made'[c] = made[c]
                       \/ Has(ledger', "CONSUMED", reg[c])
<1> USE DEF IInv, TypeOK, Shapes, Alone
<1>1. CallFacts(c)
  BY DEF CallInv
<1>2. CASE Finish(c)
  <2>1. Alone(c) /\ Shapes' /\ CallFacts(c)'
    BY <1>2 DEF Finish, Goto, CallFacts, Writing
  <2>2. ASSUME made[c] # NoRow PROVE Has(ledger', "CONSUMED", reg[c])
    <3>1. reg[c] \in Regs /\ pend[c] \in {Consume(reg[c]), Release(reg[c])} /\ reg[c] # NoReg
      BY <1>1, <2>2, RegsAssumption, EntryOf DEF CallFacts, Settling, NoReg
    <3>2. CASE pend[c] = Consume(reg[c])
      BY <3>1, <3>2, EntryOf
    <3>3. CASE pend[c] = Release(reg[c])
      <4>1. Released(c) /\ pc'[c] = "idle"
        BY <1>2, <3>1, <3>3, EntryOf DEF Returned, Finish, Goto
      <4> QED
        BY <2>2, <4>1 DEF Released, Goto
    <3> QED
      BY <3>1, <3>2, <3>3
  <2> QED
    BY <2>1, <2>2
<1>3. CASE pend[c].kind = "RESERVED" /\ reg[c] \in Dependents /\ Goto(c, "upsert", NoEntry) /\ Keep
  <2>1. reg[c] \in Regs /\ reg[c] # NoReg
    BY <1>3, RegsAssumption DEF NoReg
  <2>2. pend[c] = Reserve(reg[c]) /\ made[c] = NoRow
    BY <1>1, <1>3, <2>1, EntryOf DEF CallFacts, Settling
  <2>3. Has(ledger', "RESERVED", reg[c])
    BY <2>1, <2>2, EntryOf
  <2>4. pc'[c] = "upsert" /\ reg'[c] = reg[c] /\ made'[c] = made[c]
    BY <1>3 DEF Goto, Keep
  <2>5. CallFacts(c)'
    BY <1>3, <2>1, <2>2, <2>3, <2>4 DEF CallFacts, Writing
  <2> QED
    BY <1>3, <2>2, <2>5 DEF Goto, Keep
<1>4. CASE /\ pend[c].kind = "RESERVED" /\ reg[c] \notin Dependents
           /\ Goto(c, "find", Consume(reg[c])) /\ Keep
  <2>1. reg[c] \in Regs /\ reg[c] # NoReg
    BY <1>1, <1>4, OtherEntries, RegsAssumption DEF CallFacts, NoReg, Writing
  <2>2. pend[c] = Reserve(reg[c]) /\ made[c] = NoRow
    BY <1>1, <1>4, <2>1, EntryOf DEF CallFacts, Settling
  <2>3. Has(ledger', "RESERVED", reg[c])
    BY <2>1, <2>2, EntryOf
  <2>4. /\ pc'[c] = "find" /\ reg'[c] = reg[c] /\ made'[c] = made[c] /\ pend'[c] = Consume(reg[c])
        /\ Consume(reg[c]) \in Entries
    BY <1>4, <2>1, EntryOf DEF Goto, Keep
  <2>5. CallFacts(c)'
    BY <2>1, <2>2, <2>3, <2>4, EntryOf DEF CallFacts, Writing, Settling
  <2> QED
    BY <1>4, <2>2, <2>4, <2>5 DEF Goto, Keep
<1>5. CASE pend[c].kind = "RELEASED" /\ made[c] # NoRow /\ Goto(c, "archive", NoEntry) /\ Keep
  <2>1. reg[c] \in Dependents
    BY <1>1, <1>5 DEF CallFacts
  <2>2. reg[c] # NoReg
    BY <2>1, RegsAssumption DEF NoReg
  <2>3. pc'[c] = "archive" /\ reg'[c] = reg[c] /\ made'[c] = made[c]
    BY <1>5 DEF Goto, Keep
  <2>4. CallFacts(c)'
    BY <2>1, <2>2, <2>3 DEF CallFacts, Writing
  <2> QED
    BY <1>5, <2>3, <2>4 DEF Goto, Keep
<1> QED
  BY <1>2, <1>3, <1>4, <1>5 DEF Returned, Released

\* What may follow when they threw: a registration that fails to spend gives back.
LEMMA FailedMoves ==
  ASSUME IInv, Grows, NEW c \in Calls, Writing(c), Failed(c)
  PROVE  /\ Alone(c) /\ Shapes' /\ CallFacts(c)'
         /\ made[c] # NoRow => reg'[c] = reg[c] /\ made'[c] = made[c]
<1> USE DEF IInv, TypeOK, Shapes, Alone
<1>1. CallFacts(c)
  BY DEF CallInv
<1>2. made[c] # NoRow => /\ reg[c] \in Dependents /\ reg[c] \in Regs /\ reg[c] # NoReg
                 /\ pend[c].kind \in Settling
  BY <1>1, RegsAssumption DEF CallFacts, NoReg
<1>3. CASE Finish(c)
  <2>1. made[c] = NoRow
    <3>1. pc'[c] = "idle"
      BY <1>3 DEF Finish, Goto
    <3> QED
      BY <1>2, <3>1 DEF Failed, Released, Settling, Goto
  <2> QED
    BY <1>3, <2>1 DEF Finish, Goto, CallFacts, Writing
<1>4. CASE /\ pend[c].kind = "CONSUMED" /\ reg[c] \in Dependents
           /\ Goto(c, "find", Release(reg[c])) /\ Keep
  <2>1. reg[c] \in Regs /\ reg[c] # NoReg
    BY <1>4, RegsAssumption DEF NoReg
  <2>2. Has(ledger', "RESERVED", reg[c])
    <3>1. Has(ledger, "RESERVED", reg[c])
      BY <1>1, <1>4, <2>1 DEF CallFacts, Settling
    <3> QED
      BY <3>1, HasStays
  <2>3. /\ pc'[c] = "find" /\ reg'[c] = reg[c] /\ made'[c] = made[c] /\ pend'[c] = Release(reg[c])
        /\ Release(reg[c]) \in Entries
    BY <1>4, <2>1, EntryOf DEF Goto, Keep
  <2>4. CallFacts(c)'
    BY <1>4, <2>1, <2>2, <2>3, EntryOf DEF CallFacts, Writing, Settling
  <2> QED
    BY <1>4, <2>3, <2>4 DEF Goto, Keep
<1>5. CASE made[c] # NoRow /\ Goto(c, "archive", NoEntry) /\ Keep
  <2>1. pc'[c] = "archive" /\ reg'[c] = reg[c] /\ made'[c] = made[c]
    BY <1>5 DEF Goto, Keep
  <2>2. CallFacts(c)'
    BY <1>2, <1>5, <2>1 DEF CallFacts, Writing
  <2> QED
    BY <1>5, <2>1, <2>2 DEF Goto, Keep
<1> QED
  BY <1>3, <1>4, <1>5 DEF Failed, Released
-----------------------------------------------------------------------------
(* The ledger *)

\* The entry a call is about to write, and what it has seen of it.
LEMMA PendingEntry ==
  ASSUME IInv, NEW c \in Calls, Writing(c)
  PROVE  /\ pend[c] \in Entries /\ pend[c].kind # "PURCHASED"
         /\ pend[c].kind \in Settling => Has(ledger, "RESERVED", pend[c].id)
<1>1. CallFacts(c)
  BY DEF IInv, CallInv
<1>2. CASE reg[c] = NoReg
  <2>1. pend[c] \in {Welcome(u) : u \in Users} \cup {Adjust(a) : a \in Requests}
    BY <1>1, <1>2 DEF CallFacts, Writing
  <2> QED
    BY <2>1, OtherEntries DEF Settling
<1>3. CASE reg[c] # NoReg
  <2>1. reg[c] \in Regs
    BY <1>3 DEF IInv, TypeOK
  <2>2. /\ pend[c] \in {Reserve(reg[c]), Consume(reg[c]), Release(reg[c])}
        /\ pend[c].kind \in Settling => Has(ledger, "RESERVED", reg[c])
    BY <1>1, <1>3 DEF CallFacts
  <2> QED
    BY <2>1, <2>2, EntryOf
<1> QED
  BY <1>2, <1>3

LEMMA LedgerKept ==
  ASSUME IInv, ledger' = ledger, received' = received
  PROVE  Grows /\ PurchaseInv' /\ OncePerKey' /\ SettledWasReserved'
BY DEF IInv, Grows, PurchaseInv, OncePerKey, SettledWasReserved, Holds

\* A new entry keeps the keys apart if its own is not taken.
LEMMA LedgerWritten ==
  ASSUME IInv, NEW e \in Entries, ~ Known(e), Write(e), received \subseteq received',
         e.kind \in Settling => Has(ledger, "RESERVED", e.id),
         e.kind = "PURCHASED" => e.id \in received'
  PROVE  /\ Grows /\ ledger' \in [Entries -> Nat] /\ Has(ledger', e.kind, e.id)
         /\ PurchaseInv' /\ OncePerKey' /\ SettledWasReserved'
<1>1. /\ ledger \in [Entries -> Nat] /\ ledger' = [ledger EXCEPT ![e] = @ + 1]
      /\ ~ ledger[e] > 0
  BY DEF IInv, TypeOK, Write, Known, Holds
<1>2. /\ ledger' \in [Entries -> Nat] /\ ledger'[e] = 1
      /\ \A f \in Entries : f # e => ledger'[f] = ledger[f]
  BY <1>1
<1>3. Grows
  BY <1>1, <1>2 DEF Grows
<1>4. Has(ledger', e.kind, e.id)
  BY <1>2 DEF Has
<1>5. PurchaseInv'
  <2> SUFFICES ASSUME NEW w \in Events, ledger'[Purchase(w)] > 0 PROVE w.id \in received'
    BY DEF PurchaseInv
  <2>1. Purchase(w) \in Entries /\ Purchase(w).kind = "PURCHASED" /\ Purchase(w).id = w.id
    BY OtherEntries
  <2>2. CASE Purchase(w) = e
    BY <2>1, <2>2
  <2>3. CASE Purchase(w) # e
    BY <1>2, <2>1, <2>3 DEF IInv, PurchaseInv
  <2> QED
    BY <2>2, <2>3
<1>6. OncePerKey'
  <2>1. \A f \in Entries : ledger'[f] <= 1
    BY <1>2 DEF IInv, OncePerKey
  <2>2. ASSUME NEW f \in Entries, NEW g \in Entries, ledger'[f] > 0, ledger'[g] > 0,
               f.kind = g.kind, f.id = g.id
        PROVE  f = g
    <3>1. \A h \in Entries : h # e /\ ledger'[h] > 0 => ~ (h.kind = e.kind /\ h.id = e.id)
      BY <1>2 DEF Known, Holds
    <3>2. CASE f = e \/ g = e
      BY <2>2, <3>1, <3>2
    <3>3. CASE f # e /\ g # e
      BY <1>2, <2>2, <3>3 DEF IInv, OncePerKey
    <3> QED
      BY <3>2, <3>3
  <2> QED
    BY <2>1, <2>2 DEF OncePerKey
<1>7. SettledWasReserved'
  <2> SUFFICES ASSUME NEW r \in Regs, NEW f \in Entries, f.kind \in Settling, f.id = r,
                      ledger'[f] > 0
               PROVE  Has(ledger', "RESERVED", r)
    BY DEF SettledWasReserved, Holds, Has, Settling
  <2>1. CASE f = e
    BY <1>3, <2>1, HasStays
  <2>2. CASE f # e
    <3>1. ledger[f] > 0
      BY <1>2, <2>2
    <3>2. Has(ledger, "RESERVED", r)
      BY <3>1 DEF IInv, SettledWasReserved, Holds, Has, Settling
    <3> QED
      BY <1>3, <3>2, HasStays
  <2> QED
    BY <2>1, <2>2
<1> QED
  BY <1>2, <1>3, <1>4, <1>5, <1>6, <1>7

\* An ACTIVE dependent stays accounted for.
LEMMA PaidStays ==
  ASSUME IInv, Grows, NEW c \in Calls, Alone(c), broken \subseteq broken',
         \A r \in Dependents : \A i \in person'[r] :
           i \in person[r] \/ (reg'[c] = r /\ made'[c] = i) \/ r \in broken',
         \A i \in People : made[c] = i =>
           \/ reg'[c] = reg[c] /\ made'[c] = i
           \/ Has(ledger', "CONSUMED", reg[c])
           \/ i \notin person'[reg[c]]
           \/ reg[c] \in broken',
         person' \in [Dependents -> SUBSET People]
  PROVE  ActiveIsPaid'
<1> SUFFICES ASSUME NEW r \in Dependents, NEW i \in person'[r], ~ Has(ledger', "CONSUMED", r),
                    r \notin broken'
             PROVE  \E d \in Calls : reg'[d] = r /\ made'[d] = i
  BY DEF ActiveIsPaid, Holds, Has
<1>1. CASE reg'[c] = r /\ made'[c] = i
  BY <1>1
<1>2. CASE ~ (reg'[c] = r /\ made'[c] = i)
  <2>1. i \in person[r] /\ r \notin broken /\ ~ Has(ledger, "CONSUMED", r) /\ i \in People
    BY <1>2, HasStays
  <2>2. PICK d \in Calls : reg[d] = r /\ made[d] = i
    BY <2>1 DEF IInv, ActiveIsPaid, Holds, Has
  <2>3. d # c
    BY <1>2, <2>1, <2>2
  <2> QED
    BY <2>2, <2>3 DEF Alone
<1> QED
  BY <1>1, <1>2

\* Nothing happens to the rows of dependents, and the call keeps its own or has paid.
LEMMA PaidKept ==
  ASSUME IInv, Grows, NEW c \in Calls, Alone(c), person' = person, broken' = broken,
         made[c] # NoRow => \/ reg'[c] = reg[c] /\ made'[c] = made[c]
                            \/ Has(ledger', "CONSUMED", reg[c])
  PROVE  ActiveIsPaid'
<1>1. person' \in [Dependents -> SUBSET People]
  BY DEF IInv, TypeOK
<1>2. \A i \in People : made[c] = i => \/ reg'[c] = reg[c] /\ made'[c] = i
                                      \/ Has(ledger', "CONSUMED", reg[c])
  BY DEF People, NoRow
<1> QED
  BY <1>1, <1>2, PaidStays

\* The parts together.
LEMMA Together ==
  ASSUME IInv, Grows, NEW c \in Calls, Alone(c), Shapes', CallFacts(c)', Rest',
         PurchaseInv', OncePerKey', SettledWasReserved', ActiveIsPaid'
  PROVE  IInv'
<1>1. CallInv'
  BY OthersKnow
<1>2. TypeOK'
  BY <1>1, TypeNext
<1> QED
  BY <1>1, <1>2 DEF IInv
-----------------------------------------------------------------------------
(* The steps *)

\* A call that was idle has begun to write e.
LEMMA BeginSteps ==
  ASSUME IInv, NEW c \in Calls, pc[c] = "idle", UNCHANGED <<rows, made, faults, history>>,
         NEW place, place \in {"find", "check", "insert"},
         NEW e \in Entries, Goto(c, place, e),
         NEW r, reg' = [reg EXCEPT ![c] = r],
         \/ r \in Regs /\ e = Reserve(r)
         \/ r = NoReg /\ e \in {Welcome(u) : u \in Users} \cup {Adjust(a) : a \in Requests}
  PROVE  IInv'
<1>1. ledger' = ledger /\ received' = received /\ order' = order /\ person' = person
      /\ made' = made /\ faults' = faults /\ stale' = stale /\ late' = late /\ broken' = broken
  BY DEF rows, history
<1>2. Grows /\ PurchaseInv' /\ OncePerKey' /\ SettledWasReserved'
  BY <1>1, LedgerKept
<1>3. CallFacts(c) /\ made[c] = NoRow /\ reg[c] = NoReg
  BY DEF IInv, CallInv, CallFacts
<1>4. Alone(c) /\ Shapes' /\ Rest'
  BY <1>1 DEF IInv, TypeOK, Alone, Shapes, Rest, Goto
<1>5. CallFacts(c)'
  <2>1. pc'[c] = place /\ pend'[c] = e /\ reg'[c] = r /\ made'[c] = NoRow
    BY <1>1, <1>3 DEF IInv, TypeOK, Goto
  <2>2. CASE r \in Regs /\ e = Reserve(r)
    BY <2>1, <2>2, RegsAssumption, EntryOf DEF CallFacts, Writing, Settling, NoReg
  <2>3. CASE r = NoReg /\ e \in {Welcome(u) : u \in Users} \cup {Adjust(a) : a \in Requests}
    BY <2>1, <2>3 DEF CallFacts, Writing
  <2> QED
    BY <2>2, <2>3
<1>6. ActiveIsPaid'
  BY <1>1, <1>2, <1>3, <1>4, PaidKept
<1> QED
  BY <1>2, <1>4, <1>5, <1>6, Together

LEMMA StartSteps ==
  ASSUME IInv, NEW c \in Calls, Start(c)
  PROVE  IInv'
<1>1. reg \in [Calls -> Regs \cup {NoReg}] /\ (pc[c] = "idle" => reg[c] = NoReg)
  BY DEF IInv, TypeOK, CallInv, CallFacts
<1>2. ASSUME NEW r \in Regs, Register(c, r) PROVE IInv'
  BY <1>2, EntryOf, BeginSteps DEF Register, Same
<1>3. pc[c] = "idle" /\ reg' = reg => reg' = [reg EXCEPT ![c] = NoReg]
  BY <1>1
<1>4. ASSUME NEW a \in Requests, Administer(c, a) PROVE IInv'
  <2> DEFINE place == IF a.delta < 0 THEN "check" ELSE "insert"
  <2>1. pc[c] = "idle" /\ Goto(c, place, Adjust(a)) /\ reg' = reg
        /\ UNCHANGED <<rows, made, faults, history>>
    BY <1>4 DEF Administer, Same
  <2>2. place \in {"find", "check", "insert"} /\ Adjust(a) \in Entries
        /\ Adjust(a) \in {Adjust(b) : b \in Requests}
    BY OtherEntries
  <2> HIDE DEF place
  <2> QED
    BY <1>3, <2>1, <2>2, BeginSteps
<1>5. ASSUME NEW u \in Users, GrantBonus(c, u) PROVE IInv'
  <2>1. pc[c] = "idle" /\ Goto(c, "insert", Welcome(u)) /\ reg' = reg
        /\ UNCHANGED <<rows, made, faults, history>>
    BY <1>5 DEF GrantBonus, Same
  <2>2. Welcome(u) \in Entries /\ Welcome(u) \in {Welcome(v) : v \in Users}
    BY OtherEntries
  <2> QED
    BY <1>3, <2>1, <2>2, BeginSteps
<1> QED
  BY <1>2, <1>4, <1>5 DEF Start

\* A call goes on after its statements, or fails, while the ledger is as it was or
\* has gained the entry the call was to write.
LEMMA ReturnSteps ==
  ASSUME IInv, NEW c \in Calls, Writing(c), Returned(c),
         UNCHANGED <<received, order, person, faults, broken>>,
         stale' \subseteq Calls, late' \subseteq Entries,
         \/ ledger' = ledger /\ Known(pend[c])
         \/ Write(pend[c]) /\ ~ Known(pend[c])
  PROVE  IInv'
<1>1. /\ pend[c] \in Entries /\ pend[c].kind # "PURCHASED"
      /\ pend[c].kind \in Settling => Has(ledger, "RESERVED", pend[c].id)
  BY PendingEntry
<1>2. /\ Grows /\ ledger' \in [Entries -> Nat] /\ Has(ledger', pend[c].kind, pend[c].id)
      /\ PurchaseInv' /\ OncePerKey' /\ SettledWasReserved'
  <2>1. CASE ledger' = ledger /\ Known(pend[c])
    BY <2>1, LedgerKept DEF Known, Holds, Has, IInv, TypeOK
  <2>2. CASE Write(pend[c]) /\ ~ Known(pend[c])
    BY <1>1, <2>2, LedgerWritten
  <2> QED
    BY <2>1, <2>2
<1>3. /\ Alone(c) /\ Shapes' /\ CallFacts(c)'
      /\ made[c] # NoRow => \/ reg'[c] = reg[c] /\ made'[c] = made[c]
                    \/ Has(ledger', "CONSUMED", reg[c])
  BY <1>2, ReturnedMoves
<1>4. Rest'
  BY <1>2 DEF IInv, TypeOK, Rest
<1>5. ActiveIsPaid'
  BY <1>2, <1>3, PaidKept
<1> QED
  BY <1>2, <1>3, <1>4, <1>5, Together

LEMMA FailSteps ==
  ASSUME IInv, NEW c \in Calls, Writing(c), Failed(c),
         UNCHANGED <<received, order, person, broken>>,
         faults' \in 0..MaxFaults, stale' \subseteq Calls, late' \subseteq Entries,
         ledger' = ledger \/ (Write(pend[c]) /\ ~ Known(pend[c]))
  PROVE  IInv'
<1>1. /\ pend[c] \in Entries /\ pend[c].kind # "PURCHASED"
      /\ pend[c].kind \in Settling => Has(ledger, "RESERVED", pend[c].id)
  BY PendingEntry
<1>2. /\ Grows /\ ledger' \in [Entries -> Nat]
      /\ PurchaseInv' /\ OncePerKey' /\ SettledWasReserved'
  <2>1. CASE ledger' = ledger
    BY <2>1, LedgerKept DEF IInv, TypeOK
  <2>2. CASE Write(pend[c]) /\ ~ Known(pend[c])
    BY <1>1, <2>2, LedgerWritten
  <2> QED
    BY <2>1, <2>2
<1>3. /\ Alone(c) /\ Shapes' /\ CallFacts(c)'
      /\ made[c] # NoRow => reg'[c] = reg[c] /\ made'[c] = made[c]
  BY <1>2, FailedMoves
<1>4. Rest'
  BY <1>2 DEF IInv, TypeOK, Rest
<1>5. ActiveIsPaid'
  BY <1>2, <1>3, PaidKept
<1> QED
  BY <1>2, <1>3, <1>4, <1>5, Together

\* A step that moves no entry and leaves everything but the call as it was.
LEMMA MoveOn ==
  ASSUME IInv, NEW c \in Calls, UNCHANGED <<rows, reg, made, faults, history>>,
         pc[c] \in {"find", "check"}, NEW place, place \in {"check", "insert"},
         Goto(c, place, pend[c])
  PROVE  IInv'
<1>1. /\ ledger' = ledger /\ received' = received /\ order' = order /\ person' = person
      /\ reg' = reg /\ made' = made /\ faults' = faults
      /\ stale' = stale /\ late' = late /\ broken' = broken
  BY DEF rows, history
<1>2. Grows /\ PurchaseInv' /\ OncePerKey' /\ SettledWasReserved'
  BY <1>1, LedgerKept
<1>3. Alone(c) /\ Shapes' /\ Rest'
  BY <1>1 DEF IInv, TypeOK, Alone, Shapes, Rest, Goto
<1>4. CallFacts(c)'
  <2>1. CallFacts(c)
    BY DEF IInv, CallInv
  <2>2. pc'[c] = place /\ pend'[c] = pend[c]
    BY DEF IInv, TypeOK, Goto
  <2> QED
    BY <1>1, <2>1, <2>2 DEF CallFacts, Writing
<1>5. ActiveIsPaid'
  BY <1>1, <1>2, <1>3, PaidKept
<1> QED
  BY <1>2, <1>3, <1>4, <1>5, Together

\* A registration writes some row.
LEMMA RowsTyped ==
  ASSUME NEW r
  PROVE  RowsFor(r) \subseteq People
BY BoundsAssumption DEF RowsFor, Unused, People

LEMMA UpsertSteps ==
  ASSUME IInv, NEW c \in Calls, Upsert(c)
  PROVE  IInv'
<1> DEFINE r == reg[c]
<1>1. /\ r \in Dependents /\ r \in Regs /\ r # NoReg /\ made[c] = NoRow
      /\ Has(ledger, "RESERVED", r)
  BY RegsAssumption DEF Upsert, IInv, CallInv, CallFacts, NoReg
<1>a. PICK i \in RowsFor(r) : /\ person' = [person EXCEPT ![r] = @ \cup {i}]
                              /\ made' = [made EXCEPT ![c] = i]
  BY DEF Upsert
<1>b. i \in People
  BY RowsTyped
<1>2. /\ ledger' = ledger /\ received' = received /\ order' = order
      /\ reg' = reg /\ faults' = faults /\ stale' = stale /\ late' = late /\ broken' = broken
      /\ Goto(c, "find", Consume(r)) /\ Consume(r) \in Entries
  BY <1>1, EntryOf DEF Upsert, Same, history
<1>3. Grows /\ PurchaseInv' /\ OncePerKey' /\ SettledWasReserved'
  BY <1>2, LedgerKept
<1>4. Alone(c) /\ Shapes' /\ Rest'
  BY <1>1, <1>2, <1>a, <1>b DEF IInv, TypeOK, Alone, Shapes, Rest, Goto
<1>5. reg'[c] = r /\ made'[c] = i
  BY <1>2, <1>a DEF IInv, TypeOK
<1>6. CallFacts(c)'
  <2>1. pc'[c] = "find" /\ pend'[c] = Consume(r)
    BY <1>2 DEF IInv, TypeOK, Goto
  <2>2. Has(ledger', "RESERVED", r)
    BY <1>1, <1>2
  <2> HIDE DEF r
  <2> QED
    BY <1>1, <1>5, <2>1, <2>2, EntryOf DEF CallFacts, Writing, Settling
<1>7. ActiveIsPaid'
  <2>1. \A d \in Dependents : \A k \in person'[d] : k \in person[d] \/ (d = r /\ k = i)
    BY <1>a DEF IInv, TypeOK
  <2>2. \A k \in People : made[c] # k
    BY <1>1 DEF People, NoRow
  <2>3. person' \in [Dependents -> SUBSET People] /\ broken' = broken
    BY <1>2, <1>4 DEF Rest
  <2> QED
    BY <1>3, <1>4, <1>5, <2>1, <2>2, <2>3, PaidStays
<1> QED
  BY <1>3, <1>4, <1>6, <1>7, Together

\* A call that is over knows nothing.
LEMMA Finished ==
  ASSUME IInv, NEW c \in Calls, Finish(c)
  PROVE  Alone(c) /\ Shapes' /\ CallFacts(c)'
BY DEF IInv, TypeOK, Finish, Goto, Alone, Shapes, CallFacts, Writing

LEMMA ArchiveSteps ==
  ASSUME IInv, NEW c \in Calls, Archive(c)
  PROVE  IInv'
<1>1. reg[c] \in Dependents
  BY DEF Archive, IInv, TypeOK
<1>2. /\ ledger' = ledger /\ received' = received /\ order' = order /\ Finish(c)
      /\ faults' = faults /\ stale' = stale /\ late' = late /\ broken' = broken
      /\ person' = [person EXCEPT ![reg[c]] = @ \ {made[c]}]
  BY DEF Archive, Same, history
<1>3. Grows /\ PurchaseInv' /\ OncePerKey' /\ SettledWasReserved'
  BY <1>2, LedgerKept
<1>4. Alone(c) /\ Shapes' /\ CallFacts(c)'
  BY <1>2, Finished
<1>5. Rest'
  BY <1>1, <1>2 DEF IInv, TypeOK, Rest
<1>6. ActiveIsPaid'
  <2>1. /\ made[c] \notin person'[reg[c]]
        /\ \A d \in Dependents : person'[d] \subseteq person[d]
        /\ person' \in [Dependents -> SUBSET People] /\ broken' = broken
    BY <1>1, <1>2 DEF IInv, TypeOK
  <2> QED
    BY <1>2, <1>3, <1>4, <2>1, PaidStays
<1> QED
  BY <1>3, <1>4, <1>5, <1>6, Together

LEMMA UpsertFailsSteps ==
  ASSUME IInv, NEW c \in Calls, UpsertFails(c)
  PROVE  IInv'
<1> DEFINE r == reg[c]
<1>1. /\ r \in Dependents /\ r \in Regs /\ r # NoReg /\ made[c] = NoRow
      /\ Has(ledger, "RESERVED", r)
  BY RegsAssumption DEF UpsertFails, IInv, CallInv, CallFacts, NoReg
<1>2. /\ ledger' = ledger /\ received' = received /\ order' = order
      /\ reg' = reg /\ made' = made /\ faults' \in 0..MaxFaults
      /\ Goto(c, "find", Release(r)) /\ Release(r) \in Entries
      /\ stale' = stale /\ late' = late
      /\ \/ person' = person /\ broken' = broken
         \/ /\ \E i \in RowsFor(r) : person' = [person EXCEPT ![r] = @ \cup {i}]
            /\ broken' = broken \cup {r}
  BY <1>1, BoundsAssumption, EntryOf DEF UpsertFails, Keep, Fault, rows, IInv, TypeOK
<1>a. /\ person' \in [Dependents -> SUBSET People]
      /\ \A d \in Dependents : \A i \in person'[d] : i \in person[d] \/ d \in broken'
  <2>1. CASE person' = person
    BY <2>1 DEF IInv, TypeOK
  <2>2. CASE person' # person
    <3>1. PICK i \in RowsFor(r) : person' = [person EXCEPT ![r] = @ \cup {i}]
      BY <1>2, <2>2
    <3> QED
      BY <1>1, <1>2, <2>2, <3>1, RowsTyped DEF IInv, TypeOK
  <2> QED
    BY <2>1, <2>2
<1>3. Grows /\ PurchaseInv' /\ OncePerKey' /\ SettledWasReserved'
  BY <1>2, LedgerKept
<1>4. Alone(c) /\ Shapes' /\ Rest'
  BY <1>1, <1>2, <1>a DEF IInv, TypeOK, Alone, Shapes, Rest, Goto
<1>5. CallFacts(c)'
  <2>1. pc'[c] = "find" /\ pend'[c] = Release(r) /\ reg'[c] = r /\ made'[c] = NoRow
    BY <1>1, <1>2 DEF IInv, TypeOK, Goto
  <2>2. Has(ledger', "RESERVED", r)
    BY <1>1, <1>2
  <2> HIDE DEF r
  <2> QED
    BY <1>1, <2>1, <2>2, EntryOf DEF CallFacts, Writing, Settling
<1>6. ActiveIsPaid'
  <2>1. broken \subseteq broken' /\ \A k \in People : made[c] # k
    BY <1>1, <1>2 DEF People, NoRow
  <2> QED
    BY <1>a, <1>3, <1>4, <2>1, PaidStays
<1> QED
  BY <1>3, <1>4, <1>5, <1>6, Together

LEMMA DieSteps ==
  ASSUME IInv, NEW c \in Calls, Die(c)
  PROVE  IInv'
<1>1. /\ ledger' = ledger /\ received' = received /\ order' = order /\ person' = person
      /\ Finish(c) /\ faults' \in 0..MaxFaults /\ broken' = broken \cup ({reg[c]} \cap Regs)
      /\ stale' \subseteq Calls /\ late' = late
  BY BoundsAssumption DEF Die, Fault, Forgo, rows, IInv, TypeOK
<1>2. Grows /\ PurchaseInv' /\ OncePerKey' /\ SettledWasReserved'
  BY <1>1, LedgerKept
<1>3. Alone(c) /\ Shapes' /\ CallFacts(c)'
  BY <1>1, Finished
<1>4. Rest'
  BY <1>1 DEF IInv, TypeOK, Rest
<1>5. ActiveIsPaid'
  <2>1. /\ broken \subseteq broken' /\ (made[c] # NoRow => reg[c] \in broken')
        /\ \A i \in People : i # NoRow
        /\ person' = person /\ person' \in [Dependents -> SUBSET People]
    BY <1>1, RegsAssumption DEF IInv, TypeOK, People, NoRow
  <2> QED
    BY <1>1, <1>2, <1>3, <2>1, PaidStays
<1> QED
  BY <1>2, <1>3, <1>4, <1>5, Together

\* A payment disturbs no call.
LEMMA PaymentSteps ==
  ASSUME IInv, NEW w \in Events, ReceivePayment(w)
  PROVE  IInv'
<1>1. /\ received' = received \cup {w.id} /\ person' = person /\ faults' = faults
      /\ stale' = stale /\ late' = late /\ broken' = broken
      /\ pc' = pc /\ pend' = pend /\ reg' = reg /\ made' = made
      /\ order' \in [Orders -> Statuses] /\ w.id \notin received
  BY DEF ReceivePayment, Same, history, IInv, TypeOK, Orders, Statuses
<1>2. Purchase(w) \in Entries /\ Purchase(w).kind = "PURCHASED" /\ Purchase(w).id = w.id
  BY OtherEntries
<1>3. ~ Known(Purchase(w))
  <2> SUFFICES ASSUME NEW e \in Entries, e.kind = "PURCHASED", e.id = w.id, ledger[e] > 0
               PROVE  FALSE
    BY <1>2 DEF Known, Holds
  <2>1. PICK v \in Events : e = Purchase(v)
    BY EntryKinds
  <2>2. v.id = w.id
    BY <2>1, OtherEntries
  <2> QED
    BY <1>1, <2>1, <2>2 DEF IInv, PurchaseInv
<1>4. Grows /\ PurchaseInv' /\ OncePerKey' /\ SettledWasReserved' /\ ledger' \in [Entries -> Nat]
  <2>1. CASE Write(Purchase(w))
    BY <1>1, <1>2, <1>3, <2>1, LedgerWritten DEF Settling
  <2>2. CASE ledger' = ledger
    BY <1>1, <2>2 DEF IInv, TypeOK, Grows, PurchaseInv, OncePerKey, SettledWasReserved, Holds
  <2> QED
    BY <2>1, <2>2 DEF ReceivePayment
<1>5. CallInv'
  <2> SUFFICES ASSUME NEW c \in Calls PROVE CallFacts(c)'
    BY DEF CallInv
  <2>1. CallFacts(c)
    BY DEF IInv, CallInv
  <2>2. Has(ledger, "RESERVED", reg[c]) => Has(ledger', "RESERVED", reg[c])
    BY <1>4, HasStays
  <2> QED
    BY <1>1, <2>1, <2>2 DEF CallFacts, Writing
<1>6. Shapes' /\ Rest'
  BY <1>1, <1>4 DEF IInv, TypeOK, Shapes, Rest
<1>7. ActiveIsPaid'
  <2> SUFFICES ASSUME NEW r \in Dependents, NEW i \in person[r],
                      ~ Has(ledger', "CONSUMED", r), r \notin broken
               PROVE  \E c \in Calls : reg[c] = r /\ made[c] = i
    BY <1>1 DEF ActiveIsPaid, Holds, Has
  <2> QED
    BY <1>4, HasStays DEF IInv, ActiveIsPaid, Holds, Has
<1> QED
  BY <1>4, <1>5, <1>6, <1>7, TypeNext DEF IInv
-----------------------------------------------------------------------------
\* What a call writes or leaves is kept in mind properly.
LEMMA HistoryTyped ==
  ASSUME IInv, NEW c \in Calls, Writing(c), Post(c) \/ Forgo(c)
  PROVE  stale' \subseteq Calls /\ late' \subseteq Entries
BY PendingEntry DEF Post, Forgo, IInv, TypeOK

LEMMA CallSteps ==
  ASSUME IInv, NEW c \in Calls, Step(c) \/ Fails(c)
  PROVE  IInv'
<1>1. CASE Find(c)
  <2>1. CASE Known(pend[c])
    <3>1. stale' \subseteq Calls /\ late' \subseteq Entries
      BY <1>1 DEF Find, Same, history, IInv, TypeOK
    <3> QED
      BY <1>1, <2>1, <3>1, ReturnSteps DEF Find, Writing, Same, rows, history
  <2>2. CASE ~ Known(pend[c])
    BY <1>1, <2>2, MoveOn DEF Find, Same, Keep
  <2> QED
    BY <2>1, <2>2
<1>2. CASE Check(c)
  <2>1. CASE Covered(pend[c])
    BY <1>2, <2>1, MoveOn DEF Check, Same, Keep
  <2>2. CASE ~ Covered(pend[c])
    <3>1. faults' \in 0..MaxFaults /\ stale' \subseteq Calls /\ late' \subseteq Entries
      BY <1>2 DEF Check, Same, history, IInv, TypeOK
    <3> QED
      BY <1>2, <2>2, <3>1, FailSteps DEF Check, Same, Writing, rows, history
  <2> QED
    BY <2>1, <2>2
<1>3. CASE Insert(c)
  <2>1. stale' \subseteq Calls /\ late' \subseteq Entries
    BY <1>3, HistoryTyped DEF Insert, Writing
  <2>2. CASE Known(pend[c])
    <3>1. faults' \in 0..MaxFaults
      BY <1>3 DEF Insert, IInv, TypeOK
    <3> QED
      BY <1>3, <2>1, <2>2, <3>1, FailSteps DEF Insert, Forgo, Writing, rows
  <2>3. CASE ~ Known(pend[c])
    BY <1>3, <2>1, <2>3, ReturnSteps DEF Insert, Post, Writing
  <2> QED
    BY <2>2, <2>3
<1>4. CASE StatementFails(c)
  <2>1. faults' \in 0..MaxFaults
    BY <1>4, BoundsAssumption DEF StatementFails, Fault, IInv, TypeOK
  <2>2. stale' \subseteq Calls /\ late' \subseteq Entries
    BY <1>4, HistoryTyped DEF StatementFails, Writing
  <2> QED
    BY <1>4, <2>1, <2>2, FailSteps DEF StatementFails, Post, Forgo, Writing, rows
<1> QED
  BY <1>1, <1>2, <1>3, <1>4, UpsertSteps, ArchiveSteps, UpsertFailsSteps, DieSteps
     DEF Step, Fails

LEMMA NextIInv == IInv /\ [Next]_vars => IInv'
<1> SUFFICES ASSUME IInv, [Next]_vars PROVE IInv'
  OBVIOUS
<1>1. CASE Next
  BY <1>1, StartSteps, CallSteps, PaymentSteps DEF Next
<1>2. CASE UNCHANGED vars
  <2>1. CallInv'
    <3> SUFFICES ASSUME NEW c \in Calls PROVE CallFacts(c)'
      BY DEF CallInv
    <3> QED
      BY <1>2 DEF vars, IInv, CallInv, CallFacts, Writing
  <2> QED
    BY <1>2, <2>1 DEF vars, history, IInv, TypeOK, PurchaseInv, OncePerKey, SettledWasReserved,
                   ActiveIsPaid, Holds
<1> QED
  BY <1>1, <1>2

LEMMA AlwaysIInv == Spec => []IInv
BY InitIInv, NextIInv, PTL DEF Spec

\* Every variable keeps its type, and what a call writes belongs to what it serves.
THEOREM TypeCorrect == Spec => []TypeOK
<1>1. IInv => TypeOK
  BY DEF IInv
<1> QED
  BY <1>1, AlwaysIInv, PTL

\* createLedgerEntry: however many calls, retries and redelivered events there are,
\* a key is written at most once.
THEOREM KeysAreUnique == Spec => []OncePerKey
<1>1. IInv => OncePerKey
  BY DEF IInv
<1> QED
  BY <1>1, AlwaysIInv, PTL

\* consumeReservedCredits, releaseReservedCredits: whatever fails in between, only a
\* registration whose reservation is in the ledger is settled.
THEOREM SettledIsReserved == Spec => []SettledWasReserved
<1>1. IInv => SettledWasReserved
  BY DEF IInv
<1> QED
  BY <1>1, AlwaysIInv, PTL

\* TenantUserFacet: no interleaving of calls and failures leaves a dependent ACTIVE
\* for free, except one whose handling was cut short.
THEOREM NoFreeDependent == Spec => []ActiveIsPaid
<1>1. IInv => ActiveIsPaid
  BY DEF IInv
<1> QED
  BY <1>1, AlwaysIInv, PTL
-----------------------------------------------------------------------------
(* Sums *)

\* A non-empty set of natural numbers has a least element: what an induction over the
\* size of a set comes down to here.
LEMMA LeastNumber ==
  ASSUME NEW T \in SUBSET Nat, T # {}
  PROVE  \E n \in T : \A m \in T : n <= m
<1>1. PICK n \in T : \A m \in T : ~ (<<m, n>> \in OpToRel(<, Nat))
  BY NatLessThanWellFounded, WFMin
<1>2. \A m \in T : ~ (m < n)
  BY <1>1 DEF OpToRel
<1> QED
  BY <1>2

\* g gives the sum of f over each subset of E, whichever element is taken out first.
Adds(g, f, E) ==
  /\ g \in [SUBSET E -> Int] /\ g[{}] = 0
  /\ \A s \in SUBSET E : \A x \in s : g[s] = f[x] + g[s \ {x}]

\* There are such sums: of the sets without them, one is smallest.
LEMMA SumsExist ==
  ASSUME NEW E, IsFiniteSet(E), NEW f, \A x \in E : f[x] \in Int
  PROVE  \E g : Adds(g, f, E)
<1> SUFFICES ASSUME ~ \E g : Adds(g, f, E) PROVE FALSE
  OBVIOUS
<1> DEFINE Bad == {n \in Nat : \E S \in SUBSET E : Cardinality(S) = n /\ ~ \E g : Adds(g, f, S)}
<1>1. PICK n \in Bad : \A m \in Bad : n <= m
  <2>1. Cardinality(E) \in Bad
    BY FS_CardinalityType
  <2>2. Bad # {} /\ Bad \in SUBSET Nat
    BY <2>1
  <2> HIDE DEF Bad
  <2> QED
    BY <2>2, LeastNumber
<1>2. PICK S \in SUBSET E : Cardinality(S) = n /\ ~ \E g : Adds(g, f, S)
  BY <1>1
<1>3. IsFiniteSet(S) /\ n \in Nat
  BY <1>1, FS_Subset
<1>4. S # {}
  <2> SUFFICES ASSUME S = {} PROVE FALSE
    OBVIOUS
  <2> DEFINE g == [s \in SUBSET {} |-> 0]
  <2>1. g \in [SUBSET {} -> Int] /\ g[{}] = 0
    OBVIOUS
  <2>2. Adds(g, f, {})
    BY <2>1 DEF Adds
  <2> QED
    BY <1>2, <2>2
<1>5. PICK a : a \in S
  BY <1>4
<1>6. PICK h : Adds(h, f, S \ {a})
  <2>1. Cardinality(S \ {a}) = n - 1 /\ n - 1 \in Nat
    <3>1. IsFiniteSet(S \ {a}) /\ Cardinality(S \ {a}) = Cardinality(S) - 1
      BY <1>3, <1>5, FS_RemoveElement
    <3>2. Cardinality(S \ {a}) \in Nat
      BY <3>1, FS_CardinalityType
    <3> QED
      BY <1>2, <3>1, <3>2
  <2>2. n - 1 \notin Bad
    BY <1>1, <1>3
  <2> QED
    BY <2>1, <2>2
<1> DEFINE g == [s \in SUBSET S |-> IF a \in s THEN f[a] + h[s \ {a}] ELSE h[s]]
<1>7. \A s \in SUBSET S : s \ {a} \in SUBSET (S \ {a})
  OBVIOUS
<1>8. f[a] \in Int /\ \A s \in SUBSET (S \ {a}) : h[s] \in Int
  BY <1>5, <1>6 DEF Adds
<1>9. g \in [SUBSET S -> Int] /\ g[{}] = 0
  <2>1. ASSUME NEW s \in SUBSET S PROVE (IF a \in s THEN f[a] + h[s \ {a}] ELSE h[s]) \in Int
    <3>1. a \notin s => s \ {a} = s
      OBVIOUS
    <3> QED
      BY <1>7, <1>8, <3>1
  <2>2. h[{}] = 0
    BY <1>6 DEF Adds
  <2> QED
    BY <2>1, <2>2
<1>10. ASSUME NEW s \in SUBSET S, NEW x \in s PROVE g[s] = f[x] + g[s \ {x}]
  <2>1. CASE x = a
    <3>1. g[s] = f[a] + h[s \ {a}] /\ g[s \ {a}] = h[s \ {a}]
      BY <2>1
    <3> QED
      BY <2>1, <3>1
  <2>2. CASE x # a /\ a \in s
    <3>1. g[s] = f[a] + h[s \ {a}] /\ g[s \ {x}] = f[a] + h[(s \ {x}) \ {a}]
      BY <2>2
    <3>2. (s \ {x}) \ {a} = (s \ {a}) \ {x} /\ x \in s \ {a}
      BY <2>2
    <3>3. h[s \ {a}] = f[x] + h[(s \ {a}) \ {x}]
      BY <1>6, <1>7, <3>2 DEF Adds
    <3>4. f[x] \in Int /\ h[(s \ {a}) \ {x}] \in Int
      BY <1>8
    <3>5. g[s] = f[a] + (f[x] + h[(s \ {a}) \ {x}]) /\ g[s \ {x}] = f[a] + h[(s \ {a}) \ {x}]
      BY <3>1, <3>2, <3>3
    <3> HIDE DEF g
    <3> QED
      BY <1>8, <3>4, <3>5
  <2>3. CASE x # a /\ a \notin s
    <3>1. g[s] = h[s] /\ g[s \ {x}] = h[s \ {x}] /\ s \in SUBSET (S \ {a})
      BY <2>3
    <3> QED
      BY <1>6, <3>1 DEF Adds
  <2> QED
    BY <2>1, <2>2, <2>3
<1>11. Adds(g, f, S)
  BY <1>9, <1>10 DEF Adds
<1> QED
  BY <1>2, <1>11

\* The element that MapThenFoldSet takes out of s first.
Pick(s) == CHOOSE x \in s : TRUE

IsFold(iter, f, S) ==
  \A s \in SUBSET S : iter[s] = IF s = {} THEN 0 ELSE f[Pick(s)] + iter[s \ {Pick(s)}]

\* Taking the elements out in any fixed order gives the same.
LEMMA SumsAgree ==
  ASSUME NEW E, IsFiniteSet(E), NEW f, NEW g, Adds(g, f, E), NEW iter, NEW S \in SUBSET E,
         IsFold(iter, f, S)
  PROVE  iter[S] = g[S]
<1> SUFFICES ASSUME iter[S] # g[S] PROVE FALSE
  OBVIOUS
<1> DEFINE Bad == {n \in Nat : \E s \in SUBSET S : Cardinality(s) = n /\ iter[s] # g[s]}
<1>1. ASSUME NEW s \in SUBSET S PROVE IsFiniteSet(s) /\ Cardinality(s) \in Nat
  <2>1. s \in SUBSET E
    OBVIOUS
  <2> QED
    BY <2>1, FS_Subset, FS_CardinalityType
<1>2. PICK n \in Bad : \A m \in Bad : n <= m
  <2>1. Cardinality(S) \in Bad
    BY <1>1
  <2>2. Bad # {} /\ Bad \in SUBSET Nat
    BY <2>1
  <2> HIDE DEF Bad
  <2> QED
    BY <2>2, LeastNumber
<1>3. PICK s \in SUBSET S : Cardinality(s) = n /\ iter[s] # g[s]
  BY <1>2
<1>4. s # {}
  BY <1>3 DEF Adds, IsFold
<1> DEFINE x == Pick(s)
<1>5. x \in s
  BY <1>4 DEF Pick
<1>6. Cardinality(s \ {x}) = n - 1 /\ n - 1 \in Nat /\ n \in Nat
  <2>1. IsFiniteSet(s) /\ n \in Nat /\ s \ {x} \in SUBSET S
    BY <1>1, <1>3
  <2>2. Cardinality(s \ {x}) = n - 1
    BY <1>3, <1>5, <2>1, FS_RemoveElement
  <2> QED
    BY <1>1, <2>1, <2>2
<1>7. iter[s \ {x}] = g[s \ {x}]
  BY <1>2, <1>6
<1>8. iter[s] = f[x] + iter[s \ {x}]
  BY <1>4 DEF IsFold
<1>9. g[s] = f[x] + g[s \ {x}]
  <2>1. s \in SUBSET E
    OBVIOUS
  <2> HIDE DEF x
  <2> QED
    BY <1>5, <2>1 DEF Adds
<1> QED
  BY <1>3, <1>7, <1>8, <1>9

\* The sums g after the summand of e has grown by a.
Raised(g, e, a, E) == [s \in SUBSET E |-> IF e \in s THEN g[s] + a ELSE g[s]]

\* One summand is changed.
LEMMA SumsChange ==
  ASSUME NEW E, NEW f, NEW g, Adds(g, f, E), NEW e \in E, NEW a \in Int,
         NEW h, h[e] = f[e] + a, \A x \in E \ {e} : h[x] = f[x],
         \A x \in E : f[x] \in Int
  PROVE  Adds(Raised(g, e, a, E), h, E)
<1> DEFINE k == [s \in SUBSET E |-> IF e \in s THEN g[s] + a ELSE g[s]]
<1>1. \A s \in SUBSET E : g[s] \in Int
  BY DEF Adds
<1>2. k \in [SUBSET E -> Int] /\ k[{}] = 0
  BY <1>1 DEF Adds
<1>3. ASSUME NEW s \in SUBSET E, NEW x \in s PROVE k[s] = h[x] + k[s \ {x}]
  <2>1. g[s] = f[x] + g[s \ {x}] /\ g[s \ {x}] \in Int /\ f[x] \in Int
    BY <1>1 DEF Adds
  <2>2. CASE x = e
    BY <2>1, <2>2
  <2>3. CASE x # e
    BY <2>1, <2>3
  <2> QED
    BY <2>2, <2>3
<1> HIDE DEF k
<1>4. Adds(k, h, E)
  BY <1>2, <1>3 DEF Adds
<1> QED
  BY <1>4 DEF k, Raised
-----------------------------------------------------------------------------
(* Balances *)

\* The balances of the entries S in a ledger l, and their summands.
AvailableOf(l, S) == MapThenSumSet(LAMBDA e : l[e] * e.available, S)
ReservedOf(l, S)  == MapThenSumSet(LAMBDA e : l[e] * e.reserved, S)
AvailableEach(l)  == [e \in Entries |-> l[e] * e.available]
ReservedEach(l)   == [e \in Entries |-> l[e] * e.reserved]

LEMMA Balances ==
  ASSUME NEW S
  PROVE  /\ AvailableIn(S) = AvailableOf(ledger, S) /\ ReservedIn(S) = ReservedOf(ledger, S)
         /\ AvailableIn(S)' = AvailableOf(ledger', S) /\ ReservedIn(S)' = ReservedOf(ledger', S)
BY DEF AvailableIn, AvailableOf, ReservedIn, ReservedOf, MapThenSumSet, MapThenFoldSet

\* An entry moves whole credits.
LEMMA WholeCredits ==
  ASSUME NEW e \in Entries
  PROVE  e.available \in Int /\ e.reserved \in Int
BY AmountsAssumption, RequestAssumption
   DEF Entries, Reserve, Consume, Release, Welcome, Purchase, Adjust, Entry

LEMMA WholeSummands ==
  ASSUME NEW l \in [Entries -> Nat], NEW e \in Entries
  PROVE  AvailableEach(l)[e] \in Int /\ ReservedEach(l)[e] \in Int
<1>1. l[e] \in Int /\ e.available \in Int /\ e.reserved \in Int
  BY WholeCredits
<1>2. l[e] * e.available \in Int /\ l[e] * e.reserved \in Int
  BY <1>1
<1> QED
  BY <1>2 DEF AvailableEach, ReservedEach

\* A balance is the sum.
LEMMA AvailableIsSum ==
  ASSUME IsFiniteSet(Entries), NEW l, NEW S \in SUBSET Entries,
         NEW g, Adds(g, AvailableEach(l), Entries)
  PROVE  AvailableOf(l, S) = g[S]
<1> DEFINE next(i, s) == IF s = {} THEN 0 ELSE l[Pick(s)] * Pick(s).available + i[s \ {Pick(s)}]
           iter == CHOOSE i : i = [s \in SUBSET S |-> next(i, s)]
           h == [s \in SUBSET S |-> g[s]]
<1>1. AvailableOf(l, S) = iter[S]
  BY DEF AvailableOf, MapThenSumSet, MapThenFoldSet, Pick
<1>2. \A s \in SUBSET S : s # {} => Pick(s) \in s /\ AvailableEach(l)[Pick(s)] = l[Pick(s)] * Pick(s).available
  BY DEF Pick, AvailableEach
<1>3. ASSUME NEW s \in SUBSET S PROVE h[s] = next(h, s)
  <2>1. CASE s = {}
    BY <2>1 DEF Adds
  <2>2. CASE s # {}
    <3>1. g[s] = AvailableEach(l)[Pick(s)] + g[s \ {Pick(s)}]
      BY <1>2, <2>2 DEF Adds
    <3>2. h[s] = g[s] /\ h[s \ {Pick(s)}] = g[s \ {Pick(s)}]
      OBVIOUS
    <3> QED
      BY <1>2, <2>2, <3>1, <3>2
  <2> QED
    BY <2>1, <2>2
<1>4. h = [s \in SUBSET S |-> next(h, s)]
  <2> HIDE DEF next
  <2> QED
    BY <1>3
<1>5. iter = [s \in SUBSET S |-> next(iter, s)]
  <2> HIDE DEF next, h
  <2> QED
    BY <1>4
<1> HIDE DEF iter, h
<1>6. IsFold(iter, AvailableEach(l), S)
  BY <1>2, <1>5 DEF IsFold
<1> QED
  BY <1>1, <1>6, SumsAgree

LEMMA ReservedIsSum ==
  ASSUME IsFiniteSet(Entries), NEW l, NEW S \in SUBSET Entries,
         NEW g, Adds(g, ReservedEach(l), Entries)
  PROVE  ReservedOf(l, S) = g[S]
<1> DEFINE next(i, s) == IF s = {} THEN 0 ELSE l[Pick(s)] * Pick(s).reserved + i[s \ {Pick(s)}]
           iter == CHOOSE i : i = [s \in SUBSET S |-> next(i, s)]
           h == [s \in SUBSET S |-> g[s]]
<1>1. ReservedOf(l, S) = iter[S]
  BY DEF ReservedOf, MapThenSumSet, MapThenFoldSet, Pick
<1>2. \A s \in SUBSET S : s # {} => Pick(s) \in s /\ ReservedEach(l)[Pick(s)] = l[Pick(s)] * Pick(s).reserved
  BY DEF Pick, ReservedEach
<1>3. ASSUME NEW s \in SUBSET S PROVE h[s] = next(h, s)
  <2>1. CASE s = {}
    BY <2>1 DEF Adds
  <2>2. CASE s # {}
    <3>1. g[s] = ReservedEach(l)[Pick(s)] + g[s \ {Pick(s)}]
      BY <1>2, <2>2 DEF Adds
    <3>2. h[s] = g[s] /\ h[s \ {Pick(s)}] = g[s \ {Pick(s)}]
      OBVIOUS
    <3> QED
      BY <1>2, <2>2, <3>1, <3>2
  <2> QED
    BY <2>1, <2>2
<1>4. h = [s \in SUBSET S |-> next(h, s)]
  <2> HIDE DEF next
  <2> QED
    BY <1>3
<1>5. iter = [s \in SUBSET S |-> next(iter, s)]
  <2> HIDE DEF next, h
  <2> QED
    BY <1>4
<1> HIDE DEF iter, h
<1>6. IsFold(iter, ReservedEach(l), S)
  BY <1>2, <1>5 DEF IsFold
<1> QED
  BY <1>1, <1>6, SumsAgree

\* What n credits of entry e come to among the entries S.
Counted(e, S, n) == IF e \in S THEN n ELSE 0

\* An entry more in the ledger moves the balances it is counted in by what it says.
LEMMA BalancesMove ==
  ASSUME IsFiniteSet(Entries), NEW l \in [Entries -> Nat], NEW e \in Entries,
         NEW m, m = [l EXCEPT ![e] = @ + 1], NEW S \in SUBSET Entries
  PROVE  /\ AvailableOf(l, S) \in Int /\ ReservedOf(l, S) \in Int
         /\ AvailableOf(m, S) = AvailableOf(l, S) + Counted(e, S, e.available)
         /\ ReservedOf(m, S) = ReservedOf(l, S) + Counted(e, S, e.reserved)
<1>1. e.available \in Int /\ e.reserved \in Int
  BY WholeCredits
<1>2. \A x \in Entries : AvailableEach(l)[x] \in Int /\ ReservedEach(l)[x] \in Int
  BY WholeSummands
<1>3. m[e] = l[e] + 1 /\ l[e] \in Int /\ \A x \in Entries \ {e} : m[x] = l[x]
  OBVIOUS
<1>4. /\ AvailableEach(m)[e] = AvailableEach(l)[e] + e.available
      /\ ReservedEach(m)[e] = ReservedEach(l)[e] + e.reserved
  <2>1. \A n, a \in Int : (n + 1) * a = n * a + a
    OBVIOUS
  <2> QED
    BY <1>1, <1>3, <2>1 DEF AvailableEach, ReservedEach
<1>5. \A x \in Entries \ {e} : AvailableEach(m)[x] = AvailableEach(l)[x] /\ ReservedEach(m)[x] = ReservedEach(l)[x]
  BY <1>3 DEF AvailableEach, ReservedEach
<1>6. PICK g : Adds(g, AvailableEach(l), Entries)
  BY <1>2, SumsExist
<1>7. PICK h : Adds(h, ReservedEach(l), Entries)
  BY <1>2, SumsExist
<1>8. Adds(Raised(g, e, e.available, Entries), AvailableEach(m), Entries)
  <2>1. AvailableEach(m)[e] = AvailableEach(l)[e] + e.available
        /\ \A x \in Entries \ {e} : AvailableEach(m)[x] = AvailableEach(l)[x]
    BY <1>4, <1>5
  <2> QED
    BY <1>1, <1>2, <1>6, <2>1, SumsChange
<1>9. Adds(Raised(h, e, e.reserved, Entries), ReservedEach(m), Entries)
  <2>1. ReservedEach(m)[e] = ReservedEach(l)[e] + e.reserved
        /\ \A x \in Entries \ {e} : ReservedEach(m)[x] = ReservedEach(l)[x]
    BY <1>4, <1>5
  <2> QED
    BY <1>1, <1>2, <1>7, <2>1, SumsChange
<1>10. AvailableOf(l, S) = g[S] /\ ReservedOf(l, S) = h[S]
  BY <1>6, <1>7, AvailableIsSum, ReservedIsSum
<1>11. g[S] \in Int /\ h[S] \in Int
  BY <1>6, <1>7 DEF Adds
<1>12. AvailableOf(m, S) = Raised(g, e, e.available, Entries)[S]
  BY <1>8, AvailableIsSum
<1>13. ReservedOf(m, S) = Raised(h, e, e.reserved, Entries)[S]
  BY <1>9, ReservedIsSum
<1> QED
  BY <1>1, <1>10, <1>11, <1>12, <1>13 DEF Raised, Counted

\* An empty ledger has no balance.
LEMMA BalancesBegin ==
  ASSUME IsFiniteSet(Entries), NEW S \in SUBSET Entries
  PROVE  AvailableOf([e \in Entries |-> 0], S) = 0 /\ ReservedOf([e \in Entries |-> 0], S) = 0
<1> DEFINE l == [e \in Entries |-> 0]
           g == [s \in SUBSET Entries |-> 0]
<1>1. \A e \in Entries : AvailableEach(l)[e] = 0 /\ ReservedEach(l)[e] = 0
  BY WholeCredits DEF AvailableEach, ReservedEach
<1>2. Adds(g, AvailableEach(l), Entries) /\ Adds(g, ReservedEach(l), Entries)
  BY <1>1 DEF Adds
<1>3. g[S] = 0
  OBVIOUS
<1> HIDE DEF g
<1> QED
  BY <1>2, <1>3, AvailableIsSum, ReservedIsSum
-----------------------------------------------------------------------------
(* What overdraws an account *)

CoveredBy(l, e) == /\ e.available < 0 => AvailableOf(l, Scope(e.user)) + e.available >= 0
                   /\ e.reserved < 0 => ReservedOf(l, Scope(e.user)) + e.reserved >= 0

\* User u is not overdrawn in ledger l, but for entries in set.
Excused(l, set, u) ==
  /\ AvailableOf(l, Own(u)) < 0 => \E e \in set : e.user = u /\ e.available < 0
  /\ ReservedOf(l, Own(u)) < 0 => \E e \in set : e.user = u /\ e.reserved < 0

\* Between the check and the insert the balance still covers the entry, unless another
\* call has outdated the check.
FundsInv ==
  /\ \A u \in Users : Excused(ledger, late, u)
  /\ \A c \in Calls : pc[c] = "insert" /\ c \notin stale => CoveredBy(ledger, pend[c])
  /\ \A e \in late : ledger[e] > 0

LEMMA CoveredNow ==
  ASSUME NEW e, Covered(e)
  PROVE  CoveredBy(ledger, e)
BY Balances DEF Covered, CoveredBy, Available, Reserved

LEMMA UserScope == ASSUME NEW u \in Users PROVE Scope(u) = Own(u)
BY ScopeAssumption DEF Scope

\* Entry e was covered or is one of set; ledger m is l with e.
Justified(l, e, set) == CoveredBy(l, e) \/ e \in set
Grown(l, m, e)       == m = [l EXCEPT ![e] = @ + 1]

\* Writing e leaves its user excused if the balance covered it, or it is excused itself ...
LEMMA FundsWritten ==
  ASSUME IsFiniteSet(Entries), NEW l \in [Entries -> Nat], NEW e \in Entries,
         NEW m, Grown(l, m, e), NEW old, NEW new, old \subseteq new,
         Justified(l, e, new), NEW u \in Users, Excused(l, old, u)
  PROVE  Excused(m, new, u)
<1>1. Own(u) \in SUBSET Entries /\ (e \in Own(u) <=> e.user = u)
  BY DEF Own
<1>2. /\ AvailableOf(l, Own(u)) \in Int /\ ReservedOf(l, Own(u)) \in Int
      /\ AvailableOf(m, Own(u)) = AvailableOf(l, Own(u)) + Counted(e, Own(u), e.available)
      /\ ReservedOf(m, Own(u)) = ReservedOf(l, Own(u)) + Counted(e, Own(u), e.reserved)
  BY <1>1, BalancesMove DEF Grown
<1>3. e.available \in Int /\ e.reserved \in Int
  BY WholeCredits
<1>4. CASE e.user = u
  <2>1. /\ e.available < 0 => AvailableOf(l, Own(u)) + e.available >= 0 \/ e \in new
        /\ e.reserved < 0 => ReservedOf(l, Own(u)) + e.reserved >= 0 \/ e \in new
    BY <1>4, UserScope DEF Justified, CoveredBy
  <2>2. AvailableOf(m, Own(u)) = AvailableOf(l, Own(u)) + e.available
        /\ ReservedOf(m, Own(u)) = ReservedOf(l, Own(u)) + e.reserved
    BY <1>1, <1>2, <1>4 DEF Counted
  <2>3. AvailableOf(m, Own(u)) < 0 => \E f \in new : f.user = u /\ f.available < 0
    BY <1>2, <1>3, <1>4, <2>1, <2>2 DEF Excused
  <2>4. ReservedOf(m, Own(u)) < 0 => \E f \in new : f.user = u /\ f.reserved < 0
    BY <1>2, <1>3, <1>4, <2>1, <2>2 DEF Excused
  <2> QED
    BY <2>3, <2>4 DEF Excused
<1>5. CASE e.user # u
  BY <1>1, <1>2, <1>5 DEF Counted, Excused
<1> QED
  BY <1>4, <1>5

\* ... and what was covered stays covered if e does not outdate the check.
LEMMA CoveredStays ==
  ASSUME IsFiniteSet(Entries), NEW l \in [Entries -> Nat], NEW e \in Entries,
         NEW m, m = [l EXCEPT ![e] = @ + 1], NEW f \in Entries, ~ Outdates(e, f), CoveredBy(l, f)
  PROVE  CoveredBy(m, f)
<1> DEFINE S == Scope(f.user)
<1>1. S \in SUBSET Entries
  BY DEF Scope, Own
<1>2. /\ AvailableOf(l, S) \in Int /\ ReservedOf(l, S) \in Int
      /\ AvailableOf(m, S) = AvailableOf(l, S) + Counted(e, S, e.available)
      /\ ReservedOf(m, S) = ReservedOf(l, S) + Counted(e, S, e.reserved)
  BY <1>1, BalancesMove
<1>3. e.available \in Int /\ e.reserved \in Int /\ f.available \in Int /\ f.reserved \in Int
  BY WholeCredits
<1>4. /\ e \in S /\ f.available < 0 => e.available >= 0
      /\ e \in S /\ f.reserved < 0 => e.reserved >= 0
  BY <1>3 DEF Outdates
<1> HIDE DEF S
<1>5. /\ f.available < 0 => AvailableOf(l, S) + f.available >= 0
      /\ f.reserved < 0 => ReservedOf(l, S) + f.reserved >= 0
  BY DEF CoveredBy, S
<1>6. f.available < 0 => AvailableOf(m, S) + f.available >= 0
  BY <1>2, <1>3, <1>4, <1>5 DEF Counted
<1>7. f.reserved < 0 => ReservedOf(m, S) + f.reserved >= 0
  BY <1>2, <1>3, <1>4, <1>5 DEF Counted
<1> QED
  BY <1>6, <1>7 DEF CoveredBy, S

\* A call leaves the insert with its entry, written or not.
LEMMA LeavesInsert ==
  ASSUME IInv, NEW c \in Calls, Returned(c) \/ Failed(c)
  PROVE  Alone(c) /\ pc'[c] # "insert"
BY DEF IInv, TypeOK, Returned, Failed, Released, Finish, Goto, Keep, Alone

\* A step that writes nothing and brings no call before an entry that is not covered.
LEMMA FundsKept ==
  ASSUME FundsInv, ledger' = ledger, late' = late, NEW c \in Calls, Alone(c),
         stale \ {c} \subseteq stale', pc'[c] = "insert" => CoveredBy(ledger, pend'[c])
  PROVE  FundsInv'
<1>1. \A d \in Calls : d # c => pc'[d] = pc[d] /\ pend'[d] = pend[d]
  BY DEF Alone
<1>2. \A d \in Calls : pc'[d] = "insert" /\ d \notin stale' => CoveredBy(ledger, pend'[d])
  BY <1>1 DEF FundsInv
<1> QED
  BY <1>2 DEF FundsInv

\* An entry is written: one that was covered, or that is among the late ones.
LEMMA FundsMove ==
  ASSUME IsFiniteSet(Entries), IInv, FundsInv, NEW e \in Entries, Write(e),
         CoveredBy(ledger, e) \/ e \in late', late \subseteq late', late' \subseteq late \cup {e},
         \A d \in Calls : pc'[d] = "insert" /\ d \notin stale' =>
           /\ pc[d] = "insert" /\ pend'[d] = pend[d]
           /\ d \notin stale /\ ~ Outdates(e, pend[d])
  PROVE  FundsInv'
<1>1. /\ ledger \in [Entries -> Nat] /\ ledger' = [ledger EXCEPT ![e] = @ + 1]
      /\ \A d \in Calls : pc[d] = "insert" => pend[d] \in Entries
  <2>1. \A d \in Calls : pc[d] = "insert" => Writing(d)
    BY DEF Writing
  <2> QED
    BY <2>1, PendingEntry DEF Write, IInv, TypeOK
<1>2. ASSUME NEW u \in Users PROVE Excused(ledger', late', u)
  <2>1. PICK m, old, new : m = ledger' /\ old = late /\ new = late'
    OBVIOUS
  <2>2. PICK l : l = ledger
    OBVIOUS
  <2>3. /\ Excused(l, old, u) /\ l \in [Entries -> Nat] /\ Grown(l, m, e)
        /\ old \subseteq new /\ Justified(l, e, new)
    BY <1>1, <2>1, <2>2 DEF FundsInv, Grown, Justified
  <2>4. Excused(m, new, u)
    BY <2>3, FundsWritten
  <2> QED
    BY <2>1, <2>4
<1>3. ASSUME NEW d \in Calls, pc'[d] = "insert", d \notin stale' PROVE CoveredBy(ledger', pend'[d])
  <2>1. /\ pc[d] = "insert" /\ pend'[d] = pend[d] /\ ~ Outdates(e, pend[d])
        /\ pend[d] \in Entries /\ CoveredBy(ledger, pend[d])
    BY <1>1, <1>3 DEF FundsInv
  <2> QED
    BY <1>1, <2>1, CoveredStays
<1>4. \A f \in late' : ledger'[f] > 0
  <2>1. late \subseteq Entries
    BY DEF IInv, TypeOK
  <2>2. \A f \in late : ledger'[f] > 0
    BY <1>1, <2>1 DEF FundsInv
  <2>3. ledger'[e] > 0
    BY <1>1
  <2> QED
    BY <2>2, <2>3
<1> QED
  BY <1>2, <1>3, <1>4 DEF FundsInv

\* A call writes its entry.
LEMMA FundsSpent ==
  ASSUME IsFiniteSet(Entries), IInv, FundsInv, NEW c \in Calls, pc[c] = "insert",
         Alone(c), pc'[c] # "insert", Post(c)
  PROVE  FundsInv'
<1>1. pend[c] \in Entries /\ Write(pend[c])
  BY PendingEntry DEF Writing, Post
<1>2. \A d \in Calls : d # c => pc'[d] = pc[d] /\ pend'[d] = pend[d]
  BY DEF Alone
<1>3. /\ late' = IF c \in stale THEN late \cup {pend[c]} ELSE late
      /\ stale' = {d \in Calls \ {c} :
                     d \in stale \/ (pc[d] = "insert" /\ Outdates(pend[c], pend[d]))}
  BY DEF Post
<1>4. CoveredBy(ledger, pend[c]) \/ pend[c] \in late'
  BY <1>3 DEF FundsInv
<1>5. late \subseteq late' /\ late' \subseteq late \cup {pend[c]}
  BY <1>3
<1>6. \A d \in Calls : pc'[d] = "insert" /\ d \notin stale' =>
        /\ pc[d] = "insert" /\ pend'[d] = pend[d]
        /\ d \notin stale /\ ~ Outdates(pend[c], pend[d])
  BY <1>2, <1>3
<1> QED
  BY <1>1, <1>4, <1>5, <1>6, FundsMove

LEMMA FundsInit == ASSUME IsFiniteSet(Entries), Init PROVE FundsInv
<1>1. ledger = [e \in Entries |-> 0] /\ late = {} /\ \A c \in Calls : pc[c] = "idle"
  BY DEF Init
<1>2. ASSUME NEW u \in Users PROVE AvailableOf(ledger, Own(u)) = 0 /\ ReservedOf(ledger, Own(u)) = 0
  <2>1. Own(u) \in SUBSET Entries
    BY DEF Own
  <2> QED
    BY <1>1, <2>1, BalancesBegin
<1> QED
  BY <1>1, <1>2 DEF FundsInv, Excused

LEMMA FundsStart ==
  ASSUME IInv, FundsInv, NEW c \in Calls, Start(c)
  PROVE  FundsInv'
<1>1. pc \in [Calls -> {"idle", "find", "check", "insert", "upsert", "archive"}] /\ c \in DOMAIN pend
  BY DEF IInv, TypeOK
<1>2. ASSUME NEW r \in Regs, Register(c, r) PROVE FundsInv'
  <2>1. Alone(c) /\ pc'[c] = "find" /\ ledger' = ledger /\ late' = late /\ stale' = stale
    BY <1>1, <1>2 DEF Register, Goto, Same, history, rows, Alone, IInv, TypeOK
  <2> QED
    BY <2>1, FundsKept
<1>3. ASSUME NEW a \in Requests, Administer(c, a) PROVE FundsInv'
  <2>1. Alone(c) /\ ledger' = ledger /\ late' = late /\ stale' = stale /\ pend'[c] = Adjust(a)
        /\ pc'[c] = (IF a.delta < 0 THEN "check" ELSE "insert")
    BY <1>1, <1>3 DEF Administer, Goto, Same, history, rows, Alone, IInv, TypeOK
  <2>2. CASE a.delta < 0
    BY <2>1, <2>2, FundsKept
  <2>3. CASE ~ a.delta < 0
    <3>1. ~ Adjust(a).available < 0 /\ ~ Adjust(a).reserved < 0
      BY <2>3 DEF Adjust, Entry
    <3> QED
      BY <2>1, <3>1, FundsKept DEF CoveredBy
  <2> QED
    BY <2>2, <2>3
<1>4. ASSUME NEW u \in Users, GrantBonus(c, u) PROVE FundsInv'
  <2>1. Alone(c) /\ ledger' = ledger /\ late' = late /\ stale' = stale /\ pend'[c] = Welcome(u)
    BY <1>1, <1>4 DEF GrantBonus, Goto, Same, history, rows, Alone, IInv, TypeOK
  <2>2. ~ Welcome(u).available < 0 /\ ~ Welcome(u).reserved < 0
    BY AmountsAssumption DEF Welcome, Entry
  <2> QED
    BY <2>1, <2>2, FundsKept DEF CoveredBy
<1> QED
  BY <1>2, <1>3, <1>4 DEF Start

LEMMA FundsStep ==
  ASSUME IsFiniteSet(Entries), IInv, FundsInv, NEW c \in Calls, Step(c) \/ Fails(c)
  PROVE  FundsInv'
<1>1. CASE /\ ledger' = ledger /\ late' = late /\ stale \ {c} \subseteq stale'
           /\ Alone(c) /\ pc'[c] # "insert"
  BY <1>1, FundsKept
<1>2. CASE pc[c] = "insert" /\ Post(c) /\ (Returned(c) \/ Failed(c))
  BY <1>2, LeavesInsert, FundsSpent
<1>3. CASE Find(c)
  <2>1. ledger' = ledger /\ late' = late /\ stale' = stale
    BY <1>3 DEF Find, rows, Same, history
  <2>2. Alone(c) /\ pc'[c] # "insert"
    <3>1. CASE Returned(c)
      BY <3>1, LeavesInsert
    <3>2. CASE Goto(c, "check", pend[c]) /\ Keep
      BY <3>2 DEF IInv, TypeOK, Goto, Keep, Alone
    <3> QED
      BY <1>3, <3>1, <3>2 DEF Find
  <2> QED
    BY <1>1, <2>1, <2>2
<1>4. CASE Check(c)
  <2>1. ledger' = ledger /\ late' = late /\ stale' = stale
    BY <1>4 DEF Check, rows, Same, history
  <2>2. CASE Failed(c)
    BY <1>1, <2>1, <2>2, LeavesInsert
  <2>3. CASE Covered(pend[c]) /\ Goto(c, "insert", pend[c]) /\ Keep
    <3>1. Alone(c) /\ pend'[c] = pend[c]
      BY <2>3 DEF IInv, TypeOK, Goto, Keep, Alone
    <3>2. CoveredBy(ledger, pend[c])
      BY <2>3, CoveredNow
    <3> QED
      BY <2>1, <3>1, <3>2, FundsKept
  <2> QED
    BY <1>4, <2>2, <2>3 DEF Check
<1>5. CASE Insert(c)
  <2>1. CASE Failed(c) /\ Forgo(c)
    BY <1>1, <2>1, LeavesInsert DEF Forgo, rows
  <2>2. CASE Returned(c) /\ Post(c)
    BY <1>2, <1>5, <2>2 DEF Insert
  <2> QED
    BY <1>5, <2>1, <2>2 DEF Insert
<1>6. CASE Upsert(c)
  BY <1>1, <1>6 DEF Upsert, Goto, Same, history, Alone, IInv, TypeOK
<1>7. CASE Archive(c)
  BY <1>1, <1>7 DEF Archive, Finish, Goto, Same, history, Alone, IInv, TypeOK
<1>8. CASE StatementFails(c)
  <2>1. CASE Failed(c) /\ Forgo(c)
    BY <1>1, <2>1, LeavesInsert DEF Forgo, rows
  <2>2. CASE pc[c] = "insert" /\ Failed(c) /\ Post(c)
    BY <1>2, <2>2
  <2> QED
    BY <1>8, <2>1, <2>2 DEF StatementFails
<1>9. CASE UpsertFails(c)
  <2>1. ledger' = ledger
    BY <1>9 DEF UpsertFails, rows
  <2> QED
    BY <1>1, <1>9, <2>1 DEF UpsertFails, Goto, Keep, Alone, IInv, TypeOK
<1>10. CASE Die(c)
  BY <1>1, <1>10 DEF Die, Forgo, Finish, Goto, Alone, rows, IInv, TypeOK
<1> QED
  BY <1>3, <1>4, <1>5, <1>6, <1>7, <1>8, <1>9, <1>10 DEF Step, Fails

\* A webhook takes no credits away.
LEMMA PurchaseGives ==
  ASSUME NEW w \in Events
  PROVE  /\ Purchase(w) \in Entries /\ Purchase(w).user = Tenant
         /\ CoveredBy(ledger, Purchase(w)) /\ \A f : ~ Outdates(Purchase(w), f)
<1>1. ~ Purchase(w).available < 0 /\ ~ Purchase(w).reserved < 0 /\ Purchase(w).user = Tenant
  BY AmountsAssumption DEF Purchase, Entry
<1> QED
  BY <1>1, OtherEntries DEF CoveredBy, Outdates

LEMMA FundsNext == IsFiniteSet(Entries) /\ IInv /\ FundsInv /\ [Next]_vars => FundsInv'
<1> SUFFICES ASSUME IsFiniteSet(Entries), IInv, FundsInv, [Next]_vars PROVE FundsInv'
  OBVIOUS
<1>1. ASSUME NEW w \in Events, ReceivePayment(w) PROVE FundsInv'
  <2>1. pc' = pc /\ pend' = pend /\ late' = late /\ stale' = stale
    BY <1>1 DEF ReceivePayment, Same, history
  <2>2. CASE Write(Purchase(w))
    BY <2>1, <2>2, PurchaseGives, FundsMove
  <2>3. CASE ledger' = ledger
    BY <2>1, <2>3 DEF FundsInv
  <2> QED
    BY <1>1, <2>2, <2>3 DEF ReceivePayment
<1>2. CASE UNCHANGED vars
  BY <1>2 DEF vars, history, FundsInv
<1> QED
  BY <1>1, <1>2, FundsStart, FundsStep DEF Next

\* There are finitely many users, registrations, requests and events, so that balances
\* are sums.
Finitely == IsFiniteSet(Users) /\ IsFiniteSet(Regs) /\ IsFiniteSet(Requests) /\ IsFiniteSet(Events)

LEMMA FiniteEntries == ASSUME Finitely PROVE IsFiniteSet(Entries)
<1>1. IsFiniteSet({Reserve(r) : r \in Regs})
  <2> DEFINE f == [r \in Regs |-> Reserve(r)]
  <2>1. f \in Surjection(Regs, {Reserve(r) : r \in Regs})
    BY DEF Surjection
  <2> QED
    BY <2>1, FS_Surjection DEF Finitely
<1>2. IsFiniteSet({Consume(r) : r \in Regs})
  <2> DEFINE f == [r \in Regs |-> Consume(r)]
  <2>1. f \in Surjection(Regs, {Consume(r) : r \in Regs})
    BY DEF Surjection
  <2> QED
    BY <2>1, FS_Surjection DEF Finitely
<1>3. IsFiniteSet({Release(r) : r \in Regs})
  <2> DEFINE f == [r \in Regs |-> Release(r)]
  <2>1. f \in Surjection(Regs, {Release(r) : r \in Regs})
    BY DEF Surjection
  <2> QED
    BY <2>1, FS_Surjection DEF Finitely
<1>4. IsFiniteSet({Welcome(u) : u \in Users})
  <2> DEFINE f == [u \in Users |-> Welcome(u)]
  <2>1. f \in Surjection(Users, {Welcome(u) : u \in Users})
    BY DEF Surjection
  <2> QED
    BY <2>1, FS_Surjection DEF Finitely
<1>5. IsFiniteSet({Purchase(w) : w \in Events})
  <2> DEFINE f == [w \in Events |-> Purchase(w)]
  <2>1. f \in Surjection(Events, {Purchase(w) : w \in Events})
    BY DEF Surjection
  <2> QED
    BY <2>1, FS_Surjection DEF Finitely
<1>6. IsFiniteSet({Adjust(a) : a \in Requests})
  <2> DEFINE f == [a \in Requests |-> Adjust(a)]
  <2>1. f \in Surjection(Requests, {Adjust(a) : a \in Requests})
    BY DEF Surjection
  <2> QED
    BY <2>1, FS_Surjection DEF Finitely
<1> QED
  BY <1>1, <1>2, <1>3, <1>4, <1>5, <1>6, FS_Union DEF Entries

LEMMA AlwaysFunds ==
  ASSUME Finitely
  PROVE  Spec => [](IInv /\ FundsInv)
<1>1. Init => IInv /\ FundsInv
  BY FiniteEntries, InitIInv, FundsInit
<1>2. IInv /\ FundsInv /\ [Next]_vars => (IInv /\ FundsInv)'
  BY FiniteEntries, NextIInv, FundsNext
<1> QED
  BY <1>1, <1>2, PTL DEF Spec

\* consumeReservedCredits, revokeCredits and the rest: however calls overlap and fail, a
\* user is overdrawn, or spends or gets back what is not reserved, only if a call wrote
\* an entry that takes that balance after another call had taken from it.
THEOREM NeverOverdrawn ==
  ASSUME Finitely
  PROVE  Spec => []Solvent
<1>1. IInv /\ FundsInv => Solvent
  <2> SUFFICES ASSUME IInv, FundsInv, NEW u \in Users
               PROVE  /\ Available(u) < 0 => \E e \in late : e.user = u /\ e.available < 0
                      /\ Reserved(u) < 0  => \E e \in late : e.user = u /\ e.reserved < 0
    BY DEF Solvent
  <2>1. Available(u) = AvailableOf(ledger, Own(u)) /\ Reserved(u) = ReservedOf(ledger, Own(u))
    BY UserScope, Balances DEF Available, Reserved
  <2>2. Excused(ledger, late, u)
    BY DEF FundsInv
  <2> QED
    BY <2>1, <2>2 DEF Excused
<1> QED
  BY <1>1, AlwaysFunds, PTL
-----------------------------------------------------------------------------
(* The ledger implements CreditAccount *)

\* The balances that a ledger stands for, as functions.
AvailableAll(l) == [u \in Users |-> AvailableOf(l, Own(u))]
ReservedAll(l)  == [u \in Users |-> ReservedOf(l, Own(u))]

LEMMA Mapped ==
  /\ [u \in Users |-> AvailableIn(Own(u))] = AvailableAll(ledger)
  /\ [u \in Users |-> ReservedIn(Own(u))] = ReservedAll(ledger)
  /\ [u \in Users |-> AvailableIn(Own(u))]' = AvailableAll(ledger')
  /\ [u \in Users |-> ReservedIn(Own(u))]' = ReservedAll(ledger')
<1>1. \A u : /\ AvailableIn(Own(u)) = AvailableOf(ledger, Own(u))
             /\ ReservedIn(Own(u)) = ReservedOf(ledger, Own(u))
  BY Balances
<1>2. \A u : /\ AvailableIn(Own(u))' = AvailableOf(ledger', Own(u))
             /\ ReservedIn(Own(u))' = ReservedOf(ledger', Own(u))
  BY Balances
<1> QED
  BY <1>1, <1>2 DEF AvailableAll, ReservedAll

\* An entry changes the account of its user, and no other.
LEMMA EntryMoves ==
  ASSUME IsFiniteSet(Entries), IInv, NEW e \in Entries, Write(e)
  PROVE  /\ e.user \in Users => Account!Change(e.user, <<e.available, e.reserved>>)
         /\ e.user \notin Users => UNCHANGED Account!vars
<1>1. ledger \in [Entries -> Nat] /\ ledger' = [ledger EXCEPT ![e] = @ + 1]
  BY DEF IInv, TypeOK, Write
<1>2. ASSUME NEW u \in Users
      PROVE  /\ AvailableOf(ledger', Own(u)) = AvailableOf(ledger, Own(u)) + Counted(e, Own(u), e.available)
             /\ ReservedOf(ledger', Own(u)) = ReservedOf(ledger, Own(u)) + Counted(e, Own(u), e.reserved)
             /\ AvailableOf(ledger, Own(u)) \in Int /\ ReservedOf(ledger, Own(u)) \in Int
  <2>1. Own(u) \in SUBSET Entries
    BY DEF Own
  <2> QED
    BY <1>1, <2>1, BalancesMove
<1>3. \A u \in Users : e \in Own(u) <=> e.user = u
  BY DEF Own
<1>4. CASE e.user \in Users
  <2> DEFINE a == e.user
  <2>1. AvailableAll(ledger') = [AvailableAll(ledger) EXCEPT ![a] = @ + e.available]
    BY <1>2, <1>3, <1>4 DEF AvailableAll, Counted
  <2>2. ReservedAll(ledger') = [ReservedAll(ledger) EXCEPT ![a] = @ + e.reserved]
    BY <1>2, <1>3, <1>4 DEF ReservedAll, Counted
  <2> QED
    BY <1>4, <2>1, <2>2, Mapped DEF Account!Change
<1>5. CASE e.user \notin Users
  <2>1. AvailableAll(ledger') = AvailableAll(ledger) /\ ReservedAll(ledger') = ReservedAll(ledger)
    BY <1>2, <1>3, <1>5 DEF AvailableAll, ReservedAll, Counted
  <2> QED
    BY <1>5, <2>1, Mapped DEF Account!vars
<1> QED
  BY <1>4, <1>5

\* Each kind of entry is one of the operations of an account.
LEMMA EntryOperates ==
  ASSUME NEW e \in Entries, e.user \in Users
  PROVE  <<e.available, e.reserved>> \in Account!Operations
<1>1. CASE \E r \in Regs : e = Reserve(r)
  BY <1>1 DEF Reserve, Entry, Account!Operations, Account!Reserve
<1>2. CASE \E r \in Regs : e = Consume(r)
  BY <1>2 DEF Consume, Entry, Account!Operations, Account!Consume
<1>3. CASE \E r \in Regs : e = Release(r)
  BY <1>3 DEF Release, Entry, Account!Operations, Account!Release
<1>4. CASE \E u \in Users : e = Welcome(u)
  BY <1>4 DEF Welcome, Entry, Account!Operations
<1>5. CASE \E w \in Events : e = Purchase(w)
  BY <1>5, ScopeAssumption DEF Purchase, Entry
<1>6. CASE \E a \in Requests : e = Adjust(a)
  <2>1. PICK a \in Requests : e = Adjust(a)
    BY <1>6
  <2>2. e.reserved = 0 /\ e.available = a.delta /\ a.delta \in Int
    BY <2>1, RequestAssumption DEF Adjust, Entry
  <2>3. a.delta = Size(a.delta) \/ a.delta = -Size(a.delta)
    BY <2>2 DEF Size
  <2>4. <<Size(a.delta), 0>> \in Account!Operations /\ <<-Size(a.delta), 0>> \in Account!Operations
    BY DEF Account!Operations
  <2> QED
    BY <2>2, <2>3, <2>4
<1> QED
  BY <1>1, <1>2, <1>3, <1>4, <1>5, <1>6 DEF Entries

\* What is covered, the account allows.
LEMMA EntryAllowed ==
  ASSUME NEW e \in Entries, e.user \in Users, CoveredBy(ledger, e)
  PROVE  Account!Allowed(e.user, <<e.available, e.reserved>>)
<1>1. /\ AvailableAll(ledger)[e.user] = AvailableOf(ledger, Scope(e.user))
      /\ ReservedAll(ledger)[e.user] = ReservedOf(ledger, Scope(e.user))
  BY UserScope DEF AvailableAll, ReservedAll
<1> QED
  BY <1>1, Mapped DEF CoveredBy, Account!Allowed

\* A step writes an entry that is covered, or one more late entry, or none.
LEMMA WritesCovered ==
  ASSUME IInv, FundsInv, Next
  PROVE  \/ ledger' = ledger
         \/ \E e \in Entries : Write(e) /\ (CoveredBy(ledger, e) \/ late' # late)
<1>1. ASSUME NEW c \in Calls, pc[c] = "insert", ~ Known(pend[c]), Post(c)
      PROVE  pend[c] \in Entries /\ Write(pend[c]) /\ (CoveredBy(ledger, pend[c]) \/ late' # late)
  <2>1. pend[c] \in Entries /\ Write(pend[c])
    BY <1>1, PendingEntry DEF Writing, Post
  <2>2. ~ ledger[pend[c]] > 0
    BY <1>1, <2>1 DEF Known, Holds
  <2>3. CASE c \in stale
    <3>1. pend[c] \notin late /\ pend[c] \in late'
      BY <1>1, <2>2, <2>3 DEF FundsInv, Post
    <3> QED
      BY <2>1, <3>1
  <2>4. CASE c \notin stale
    BY <1>1, <2>1, <2>4 DEF FundsInv
  <2> QED
    BY <2>3, <2>4
<1>2. CASE \E w \in Events : ReceivePayment(w)
  BY <1>2, PurchaseGives DEF ReceivePayment
<1>3. ASSUME NEW c \in Calls, Start(c) PROVE ledger' = ledger
  BY <1>3 DEF Start, Register, Administer, GrantBonus, rows
<1>4. ASSUME NEW c \in Calls, Step(c) \/ Fails(c)
      PROVE  ledger' = ledger \/ (pc[c] = "insert" /\ ~ Known(pend[c]) /\ Post(c))
  <2>1. CASE Find(c) \/ Check(c) \/ Upsert(c) \/ Archive(c) \/ UpsertFails(c) \/ Die(c)
    BY <2>1 DEF Find, Check, Upsert, Archive, UpsertFails, Die, Forgo, rows
  <2>2. CASE Insert(c) \/ StatementFails(c)
    BY <2>2 DEF Insert, StatementFails, Forgo, rows
  <2> QED
    BY <1>4, <2>1, <2>2 DEF Step, Fails
<1> QED
  BY <1>1, <1>2, <1>3, <1>4 DEF Next

LEMMA AccountInit == ASSUME IsFiniteSet(Entries), Init PROVE Account!Init
<1>1. ledger = [e \in Entries |-> 0]
  BY DEF Init
<1>2. ASSUME NEW u \in Users PROVE AvailableOf(ledger, Own(u)) = 0 /\ ReservedOf(ledger, Own(u)) = 0
  <2>1. Own(u) \in SUBSET Entries
    BY DEF Own
  <2> QED
    BY <1>1, <2>1, BalancesBegin
<1>3. AvailableAll(ledger) = [u \in Users |-> 0] /\ ReservedAll(ledger) = [u \in Users |-> 0]
  BY <1>2 DEF AvailableAll, ReservedAll
<1> QED
  BY <1>3, Mapped DEF Account!Init

\* What a step of the ledger is to the accounts.
AccountStep == Account!Next \/ (late' # late /\ Account!Unchecked)

LEMMA AccountNext ==
  IsFiniteSet(Entries) /\ IInv /\ FundsInv /\ [Next]_vars => [AccountStep]_(Account!vars)
<1> SUFFICES ASSUME IsFiniteSet(Entries), IInv, FundsInv, [Next]_vars
             PROVE  AccountStep \/ UNCHANGED Account!vars
  OBVIOUS
<1>1. CASE ledger' = ledger
  BY <1>1, Mapped DEF Account!vars
<1>2. ASSUME NEW e \in Entries, Write(e), CoveredBy(ledger, e) \/ late' # late
      PROVE  AccountStep \/ UNCHANGED Account!vars
  <2> DEFINE op == <<e.available, e.reserved>>
  <2>1. CASE e.user \notin Users
    BY <1>2, <2>1, EntryMoves
  <2>2. CASE e.user \in Users
    <3>1. Account!Change(e.user, op) /\ op \in Account!Operations
      BY <1>2, <2>2, EntryMoves, EntryOperates
    <3>2. CASE CoveredBy(ledger, e)
      <4>1. Account!Allowed(e.user, op)
        BY <2>2, <3>2, EntryAllowed
      <4> HIDE DEF op
      <4> QED
        BY <2>2, <3>1, <4>1 DEF Account!Next, AccountStep
    <3>3. CASE late' # late
      <4> HIDE DEF op
      <4> QED
        BY <2>2, <3>1, <3>3 DEF Account!Unchecked, AccountStep
    <3> QED
      BY <1>2, <3>2, <3>3
  <2> QED
    BY <2>1, <2>2
<1>3. UNCHANGED vars => ledger' = ledger
  BY DEF vars
<1> QED
  BY <1>1, <1>2, <1>3, WritesCovered

\* CreditLedgerFacet keeps accounts: every step of the ledger is a grant, a revocation, a
\* reservation, its consumption or its release that the balances of the user allow, or
\* the entry of a call whose check was outdated, or none of the users' accounts' concern.
THEOREM LedgerKeepsAccounts ==
  ASSUME Finitely
  PROVE  Spec => AccountSpec
<1>1. Init => Account!Init
  BY FiniteEntries, AccountInit
<1>2. IInv /\ FundsInv /\ [Next]_vars => [AccountStep]_(Account!vars)
  BY FiniteEntries, AccountNext
<1>3. [AccountStep]_(Account!vars)
        => [ledger' # ledger => Account!Next \/ (late' # late /\ Account!Unchecked)]_(Account!vars)
  BY DEF AccountStep
<1> QED
  BY <1>1, <1>2, <1>3, AlwaysFunds, PTL DEF Spec, AccountSpec
=============================================================================
