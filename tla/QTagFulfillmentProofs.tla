----------------------- MODULE QTagFulfillmentProofs -----------------------
(***************************************************************************)
(* Safety of QTagFulfillment for every number of assets, orders, sessions, *)
(* chips and calls.  What a call has read may be stale when it writes; the *)
(* argument is by what stays: entries of the ledger are never overwritten, *)
(* orders and sessions keep what they are about, devices and tags once     *)
(* set are never empty again.  JobInv says in these terms what a call has  *)
(* behind it at each statement.                                            *)
(***************************************************************************)
EXTENDS QTagFulfillment, TLAPS

Kinds == {"none", "GRANTED", "RESERVED", "RELEASED", "CONSUMED"}
Job == [op : {"none", "grant", "reserve", "release", "transition", "start", "confirm"},
        key : AllKeys \cup {None, ConsumeKey(None)}, order : Orders \cup {None},
        asset : Assets \cup {None}, session : Sessions \cup {None}, chip : Chips \cup {None},
        to : Statuses \cup {"none", "COMPLETED", "FAILED"}]

TypeInv ==
  /\ ledger \in [AllKeys -> [kind : Kinds, order : Orders \cup {None}]]
  /\ granted \in Nat
  /\ order \in [Orders -> [status : Statuses \cup {"ABSENT"}, asset : Assets \cup {None}]]
  /\ session \in [Sessions -> [status : {"ABSENT", "IN_PROGRESS", "COMPLETED", "FAILED"},
                               order : Orders \cup {None}, asset : Assets \cup {None},
                               chip : Chips \cup {None}]]
  /\ device \in [Chips -> Sessions \cup {None}]
  /\ tag \in [Assets -> Chips \cup {None}]
  /\ pc \in [Calls -> Places] /\ job \in [Calls -> Job]
  /\ reported \subseteq Sessions /\ forced \subseteq Orders

IsOrder(o)   == o \in Orders /\ order[o].status # "ABSENT"
IsSession(s) == s \in Sessions /\ session[s].status # "ABSENT"
ChosenKeys   == {Chosen(k) : k \in Keys}

\* What rows say of each other: an order has its asset, a session its asset, its
\* chip and an order for that asset; entries are of orders, each under a key that
\* is made for it or that an administrator chose.
RowInv ==
  /\ \A o \in Orders : IsOrder(o) => order[o].asset \in Assets
  /\ \A o \in Orders : ~ IsOrder(o) => order[o].asset = None
  /\ \A s \in Sessions : IsSession(s) =>
       /\ session[s].asset \in Assets /\ session[s].chip \in Chips
       /\ session[s].order # None =>
            IsOrder(session[s].order) /\ order[session[s].order].asset = session[s].asset
  /\ \A s \in reported : IsSession(s)
EntryInv ==
  /\ \A k \in AllKeys : ledger[k].kind \in {"RESERVED", "RELEASED", "CONSUMED"} => IsOrder(ledger[k].order)
  /\ \A k \in AllKeys : ledger[k].kind = "RESERVED" =>
       k \in ChosenKeys \cup {ReserveKey(order[ledger[k].order].asset)}
  /\ \A o \in Orders : ledger[ConsumeKey(o)] \in {NoEntry, Entry("CONSUMED", o)}

\* What a call x that stands at p has behind it.
Sound(x, p) ==
  /\ p = "idle" <=> x = NoJob
  /\ x.op = "none" => p = "idle"
  /\ x.op = "grant" => p = "write" /\ x.key \in ChosenKeys \cup {None}
  /\ x.op = "reserve" => /\ p \in {"find", "balance", "write"} /\ x.asset \in Assets
                         /\ x.key \in ChosenKeys \cup {ReserveKey(x.asset)}
  /\ x.op = "release" => /\ p \in {"balance", "write"} /\ IsOrder(x.order)
                         /\ x.key \in ChosenKeys \cup {ReleaseKey(x.order)}
  /\ x.op = "transition" => p = "move" /\ IsOrder(x.order) /\ x.to \in Statuses
  /\ x.op = "start" => /\ p \in {"start", "encoding"} /\ x.asset \in Assets /\ x.chip \in Chips
                       /\ x.order # None => IsOrder(x.order) /\ order[x.order].asset = x.asset
                       /\ p = "encoding" => x.order # None
  /\ x.op = "confirm" =>
       /\ p \in {"report", "device", "link", "find", "balance", "write", "activate", "failed"}
       /\ IsSession(x.session) /\ x.key = ConsumeKey(x.order) /\ x.to \in {"COMPLETED", "FAILED"}
       /\ x.order = session[x.session].order /\ x.asset = session[x.session].asset
       /\ x.chip = session[x.session].chip
       /\ p \notin {"report", "device"} => x.order # None
       /\ p \notin {"report", "failed"} => x.session \in reported
       /\ p \in {"link", "find", "balance", "write", "activate"} => device[x.chip] # None
       /\ p \in {"find", "balance", "write", "activate"} => tag[x.asset] # None
       /\ p = "activate" => Has("CONSUMED", x.order)
JobInv == \A c \in Calls : Sound(job[c], pc[c])

IInv == TypeInv /\ RowInv /\ EntryInv /\ JobInv /\ ReservedTogether /\ ActivatedIsComplete /\ TagsAreTrue

-----------------------------------------------------------------------------
(* What stays. *)

Grows ==
  /\ \A o \in Orders : IsOrder(o) => IsOrder(o)' /\ order'[o].asset = order[o].asset
  /\ \A s \in Sessions : IsSession(s) =>
       /\ IsSession(s)' /\ session'[s].order = session[s].order
       /\ session'[s].asset = session[s].asset /\ session'[s].chip = session[s].chip
  /\ \A u \in Chips : device[u] # None => device'[u] # None
  /\ \A a \in Assets : tag[a] # None => tag'[a] # None
  /\ \A k \in AllKeys : ledger[k] # NoEntry => ledger'[k] = ledger[k]
  /\ reported \subseteq reported' /\ forced \subseteq forced'

LEMMA Kinds_distinct == \A o : Entry("CONSUMED", o) # NoEntry /\ Entry("RESERVED", o) # NoEntry
BY DEF Entry, NoEntry

LEMMA NothingGrows ==
  ASSUME UNCHANGED <<data, past>>
  PROVE  Grows
BY DEF Grows, data, past, IsOrder, IsSession

\* What a call has behind it stays behind it.
LEMMA SoundStays ==
  ASSUME RowInv, Grows, NEW x \in Job, NEW p \in Places, Sound(x, p)
  PROVE  Sound(x, p)'
<1>1. \A o : IsOrder(o) => IsOrder(o)' /\ order'[o].asset = order[o].asset
  BY DEF Grows, IsOrder
<1>2. x.op = "confirm" =>
       /\ IsSession(x.session)' /\ session'[x.session].order = session[x.session].order
       /\ session'[x.session].asset = session[x.session].asset
       /\ session'[x.session].chip = session[x.session].chip
       /\ session[x.session].chip \in Chips /\ session[x.session].asset \in Assets
  BY DEF Grows, Sound, IsSession, RowInv
<1>3. \A o : Has("CONSUMED", o) => Has("CONSUMED", o)'
  BY Kinds_distinct DEF Grows, Has
<1>4. x.op = "confirm" =>
       /\ device[x.chip] # None => device'[x.chip] # None
       /\ tag[x.asset] # None => tag'[x.asset] # None
       /\ reported \subseteq reported'
  BY <1>2 DEF Grows, Sound
<1>5. QED
  BY <1>1, <1>2, <1>3, <1>4 DEF Sound

\* A step of call c: the others stay as they are.
LEMMA OneCall ==
  ASSUME IInv, Grows, NEW c \in Calls, NEW x \in Job, NEW p \in Places,
         pc' = [pc EXCEPT ![c] = p], job' = [job EXCEPT ![c] = x], Sound(x, p)'
  PROVE  JobInv' /\ pc' \in [Calls -> Places] /\ job' \in [Calls -> Job]
<1>1. pc' \in [Calls -> Places] /\ job' \in [Calls -> Job] /\ pc'[c] = p /\ job'[c] = x
  BY DEF IInv, TypeInv
<1>2. ASSUME NEW d \in Calls, d # c PROVE Sound(job[d], pc[d])'
  <2>1. PICK y \in Job, q \in Places : y = job[d] /\ q = pc[d]
    BY DEF IInv, TypeInv
  <2>2. job'[d] = y /\ pc'[d] = q
    BY <1>2, <2>1 DEF IInv, TypeInv
  <2>3. RowInv /\ Sound(y, q)
    BY <2>1 DEF IInv, JobInv
  <2>4. Sound(y, q)'
    BY <2>3, SoundStays
  <2>5. QED
    BY <2>2, <2>4 DEF Sound, IsOrder, IsSession, Has
<1>3. Sound(job[c], pc[c])'
  BY <1>1 DEF Sound, IsOrder, IsSession, Has
<1>4. QED
  BY <1>1, <1>2, <1>3 DEF JobInv

\* A step that only moves one call.
LEMMA OnlyCall ==
  ASSUME IInv, UNCHANGED <<data, past>>, NEW c \in Calls, NEW x \in Job, NEW p \in Places,
         pc' = [pc EXCEPT ![c] = p], job' = [job EXCEPT ![c] = x], Sound(x, p)
  PROVE  IInv'
<1>1. Grows /\ UNCHANGED <<ledger, granted, order, session, device, tag, reported, forced>>
  BY NothingGrows DEF data, past
<1>2. Sound(x, p)'
  BY <1>1, SoundStays DEF IInv
<1>3. JobInv' /\ pc' \in [Calls -> Places] /\ job' \in [Calls -> Job]
  BY <1>1, <1>2, OneCall
<1>4. TypeInv'
  BY <1>1, <1>3 DEF IInv, TypeInv
<1>5. RowInv' /\ EntryInv'
  BY <1>1 DEF IInv, RowInv, EntryInv, IsOrder, IsSession
<1>6. ReservedTogether' /\ ActivatedIsComplete' /\ TagsAreTrue'
  BY <1>1 DEF IInv, ReservedTogether, ActivatedIsComplete, TagsAreTrue, Has
<1>7. QED
  BY <1>3, <1>4, <1>5, <1>6 DEF IInv

LEMMA NoJobFits == NoJob \in Job /\ "idle" \in Places
BY DEF NoJob, Job, Places

LEMMA IdleIsSound == Sound(NoJob, "idle") /\ Sound(NoJob, "idle")'
BY DEF Sound, NoJob

LEMMA FinishOnly ==
  ASSUME IInv, UNCHANGED <<data, past>>, NEW c \in Calls, Finish(c)
  PROVE  IInv'
BY NoJobFits, IdleIsSound, OnlyCall DEF Finish

LEMMA GotoOnly ==
  ASSUME IInv, UNCHANGED <<data, past>>, NEW c \in Calls, NEW p \in Places, Goto(c, p), Sound(job[c], p)
  PROVE  IInv'
<1>1. PICK x \in Job : x = job[c]
  BY DEF IInv, TypeInv
<1>2. pc' = [pc EXCEPT ![c] = p] /\ job' = [job EXCEPT ![c] = x]
  BY <1>1 DEF Goto, IInv, TypeInv
<1>3. QED
  BY <1>1, <1>2, OnlyCall

-----------------------------------------------------------------------------
(* Requests: each call begins with what its first reads gave. *)

LEMMA BeginGrant ==
  ASSUME IInv, NEW c \in Calls, NEW k \in ChosenKeys \cup {None}, Grant(c, k)
  PROVE  IInv'
<1> DEFINE x == [NoJob EXCEPT !.op = "grant", !.key = k]
<1>1. k \in AllKeys \cup {None}
  BY DEF AllKeys, ChosenKeys
<1>2. x \in Job /\ x.op = "grant" /\ x.key = k /\ x # NoJob /\ "write" \in Places
  BY <1>1 DEF Job, NoJob, Places
<1>3. /\ pc' = [pc EXCEPT ![c] = "write"] /\ job' = [job EXCEPT ![c] = x] /\ UNCHANGED <<data, past>>
  BY DEF Grant, Begin
<1> HIDE DEF x
<1>4. Sound(x, "write")
  BY <1>2 DEF Sound
<1>5. QED
  BY <1>2, <1>3, <1>4, OnlyCall

LEMMA BeginReserve ==
  ASSUME IInv, NEW c \in Calls, NEW a \in Assets, NEW k \in ChosenKeys \cup {ReserveKey(a)}, Reserve(c, a, k)
  PROVE  IInv'
<1> DEFINE x == [NoJob EXCEPT !.op = "reserve", !.key = k, !.asset = a]
<1>1. k \in AllKeys
  BY DEF AllKeys, ChosenKeys
<1>2. x \in Job /\ x.op = "reserve" /\ x.key = k /\ x.asset = a /\ x # NoJob /\ "find" \in Places
  BY <1>1 DEF Job, NoJob, Places
<1>3. /\ pc' = [pc EXCEPT ![c] = "find"] /\ job' = [job EXCEPT ![c] = x] /\ UNCHANGED <<data, past>>
  BY DEF Reserve, Begin
<1> HIDE DEF x
<1>4. Sound(x, "find")
  BY <1>2 DEF Sound
<1>5. QED
  BY <1>2, <1>3, <1>4, OnlyCall

LEMMA BeginRelease ==
  ASSUME IInv, NEW c \in Calls, NEW o \in Orders, NEW k \in ChosenKeys \cup {ReleaseKey(o)}, Release(c, o, k)
  PROVE  IInv'
<1> DEFINE x == [NoJob EXCEPT !.op = "release", !.key = k, !.order = o]
<1>1. k \in AllKeys
  BY DEF AllKeys, ChosenKeys
<1>2. x \in Job /\ x.op = "release" /\ x.key = k /\ x.order = o /\ x # NoJob /\ "balance" \in Places
  BY <1>1 DEF Job, NoJob, Places
<1>3. /\ pc' = [pc EXCEPT ![c] = "balance"] /\ job' = [job EXCEPT ![c] = x] /\ UNCHANGED <<data, past>>
      /\ IsOrder(o)
  BY DEF Release, Begin, IsOrder
<1> HIDE DEF x
<1>4. Sound(x, "balance")
  BY <1>2, <1>3 DEF Sound
<1>5. QED
  BY <1>2, <1>3, <1>4, OnlyCall

LEMMA BeginTransition ==
  ASSUME EditsAssumption, IInv, NEW c \in Calls, NEW o \in Orders, NEW s \in Edits, Transition(c, o, s)
  PROVE  IInv'
<1> DEFINE x == [NoJob EXCEPT !.op = "transition", !.order = o, !.to = s]
<1>1. s \in Statuses
  BY DEF EditsAssumption
<1>2. x \in Job /\ x.op = "transition" /\ x.to = s /\ x.order = o /\ x # NoJob /\ "move" \in Places
  BY <1>1 DEF Job, NoJob, Places
<1>3. /\ pc' = [pc EXCEPT ![c] = "move"] /\ job' = [job EXCEPT ![c] = x] /\ UNCHANGED <<data, past>>
      /\ IsOrder(o)
  BY DEF Transition, Begin, IsOrder
<1> HIDE DEF x
<1>4. Sound(x, "move")
  BY <1>1, <1>2, <1>3 DEF Sound
<1>5. QED
  BY <1>2, <1>3, <1>4, OnlyCall

LEMMA BeginStart ==
  ASSUME IdsAssumption, IInv, NEW c \in Calls, NEW a \in Assets, NEW o \in Orders \cup {None},
         NEW u \in Chips, Start(c, a, o, u)
  PROVE  IInv'
<1> DEFINE x == [NoJob EXCEPT !.op = "start", !.order = o, !.asset = a, !.chip = u]
<1>1. /\ x \in Job /\ x.op = "start" /\ x.order = o /\ x.asset = a /\ x.chip = u
      /\ x # NoJob /\ "start" \in Places
  BY DEF Job, NoJob, Places
<1>2. /\ pc' = [pc EXCEPT ![c] = "start"] /\ job' = [job EXCEPT ![c] = x] /\ UNCHANGED <<data, past>>
      /\ o # None => IsOrder(o) /\ order[o].asset = a
  BY DEF Start, Begin, IsOrder
<1> HIDE DEF x
<1>3. Sound(x, "start")
  BY <1>1, <1>2 DEF Sound
<1>4. QED
  BY <1>1, <1>2, <1>3, OnlyCall

LEMMA BeginConfirm ==
  ASSUME IInv, NEW c \in Calls, NEW s \in Sessions, NEW success \in BOOLEAN, Confirm(c, s, success)
  PROVE  IInv'
<1> DEFINE to == IF success THEN "COMPLETED" ELSE "FAILED"
           x  == [op |-> "confirm", key |-> ConsumeKey(session[s].order), order |-> session[s].order,
                  asset |-> session[s].asset, session |-> s, chip |-> session[s].chip, to |-> to]
<1>1. /\ session[s].order \in Orders \cup {None} /\ session[s].asset \in Assets \cup {None}
      /\ session[s].chip \in Chips \cup {None} /\ IsSession(s) /\ to \in {"COMPLETED", "FAILED"}
  BY DEF IInv, TypeInv, Confirm, IsSession
<1>2. ConsumeKey(session[s].order) \in AllKeys \cup {None, ConsumeKey(None)}
  BY <1>1 DEF AllKeys
<1>3. x \in Job /\ "report" \in Places
  BY <1>1, <1>2 DEF Job, Places
<1>4. /\ pc' = [pc EXCEPT ![c] = "report"] /\ job' = [job EXCEPT ![c] = x] /\ UNCHANGED <<data, past>>
  BY DEF Confirm, Begin
<1>5. Sound(x, "report")
  BY <1>1 DEF Sound, NoJob
<1>6. PICK y \in Job : y = x
  BY <1>3
<1>7. QED
  <2> HIDE DEF x
  <2>1. QED
    BY <1>3, <1>4, <1>5, <1>6, OnlyCall

-----------------------------------------------------------------------------
(* Lookups and balances. *)

LEMMA FindStep ==
  ASSUME IInv, NEW c \in Calls, Find(c)
  PROVE  IInv'
<1>1. UNCHANGED <<data, past>> /\ Sound(job[c], "find") /\ "balance" \in Places /\ "activate" \in Places
  BY DEF Find, IInv, JobInv, Places
<1>2. job[c].op \in {"reserve", "confirm"}
  BY <1>1 DEF Sound, IInv, TypeInv, Job
<1>3. Sound(job[c], "balance")
  BY <1>1, <1>2 DEF Sound, NoJob
<1>4. job[c].op = "confirm" /\ Found(job[c].key) => Sound(job[c], "activate")
  <2> SUFFICES ASSUME job[c].op = "confirm", Found(job[c].key) PROVE Sound(job[c], "activate")
    OBVIOUS
  <2>1. job[c].order \in Orders /\ job[c].key = ConsumeKey(job[c].order)
    BY <1>1 DEF Sound, IInv, TypeInv, Job
  <2>2. ledger[ConsumeKey(job[c].order)] = Entry("CONSUMED", job[c].order)
    BY <2>1 DEF Found, IInv, EntryInv
  <2>3. Has("CONSUMED", job[c].order)
    BY <2>1, <2>2 DEF Has, AllKeys
  <2>4. QED
    BY <1>1, <2>3 DEF Sound, NoJob
<1>5. QED
  BY <1>1, <1>2, <1>3, <1>4, FinishOnly, GotoOnly DEF Find

LEMMA BalanceStep ==
  ASSUME IInv, NEW c \in Calls, CheckBalance(c)
  PROVE  IInv'
<1>1. UNCHANGED <<data, past>> /\ Sound(job[c], "balance") /\ "write" \in Places
  BY DEF CheckBalance, IInv, JobInv, Places
<1>2. Sound(job[c], "write")
  BY <1>1 DEF Sound, NoJob
<1>3. QED
  BY <1>1, <1>2, FinishOnly, GotoOnly DEF CheckBalance

LEMMA DieStep ==
  ASSUME IInv, NEW c \in Calls, Die(c)
  PROVE  IInv'
BY FinishOnly DEF Die

-----------------------------------------------------------------------------
(* Writes of the ledger. *)

\* Under a free key an entry is added; the others stay.
LEMMA Appended ==
  ASSUME KeysAssumption, IInv, NEW k \in AllKeys, ~ Found(k), NEW kind \in Kinds,
         NEW o \in Orders \cup {None}, Append(k, kind, o)
  PROVE  /\ ledger' \in [AllKeys -> [kind : Kinds, order : Orders \cup {None}]]
         /\ ledger[k] = NoEntry /\ ledger'[k] = Entry(kind, o) /\ granted' = granted
         /\ \A l \in AllKeys \ {k} : ledger'[l] = ledger[l]
<1>1. k # None /\ ledger[k] = NoEntry
  BY DEF KeysAssumption, Found
<1>2. ledger' = [ledger EXCEPT ![k] = Entry(kind, o)] /\ granted' = granted
  BY <1>1 DEF Append
<1>3. Entry(kind, o) \in [kind : Kinds, order : Orders \cup {None}]
  BY DEF Entry
<1>4. QED
  BY <1>1, <1>2, <1>3 DEF IInv, TypeInv

\* What follows from more entries and more orders, whatever the call.
LEMMA LedgerStep ==
  ASSUME IInv, Grows, UNCHANGED <<session, device, tag, past>>,
         NEW c \in Calls, NEW x \in Job, NEW p \in Places,
         pc' = [pc EXCEPT ![c] = p], job' = [job EXCEPT ![c] = x], Sound(x, p)',
         ledger' \in [AllKeys -> [kind : Kinds, order : Orders \cup {None}]], granted' \in Nat,
         order' \in [Orders -> [status : Statuses \cup {"ABSENT"}, asset : Assets \cup {None}]],
         \A o \in Orders : IsOrder(o)' => order'[o].asset \in Assets,
         \A o \in Orders : ~ IsOrder(o)' => order'[o].asset = None,
         \A o \in Orders : order'[o].status = "ACTIVATED" => order[o].status = "ACTIVATED",
         EntryInv', ReservedTogether'
  PROVE  IInv'
<1>1. JobInv' /\ pc' \in [Calls -> Places] /\ job' \in [Calls -> Job]
  BY OneCall
<1>2. TypeInv'
  BY <1>1 DEF IInv, TypeInv, past
<1>3. RowInv'
  BY DEF IInv, RowInv, Grows, IsSession, IsOrder, past
<1>4. TagsAreTrue'
  BY DEF IInv, TagsAreTrue, past
<1>5. ActivatedIsComplete'
  <2>1. ASSUME NEW o \in Orders, order'[o].status = "ACTIVATED", o \notin forced'
        PROVE  /\ Has("CONSUMED", o)' /\ tag'[order'[o].asset] # None
               /\ \E s \in reported' : session'[s].order = o /\ device'[session'[s].chip] # None
    <3>1. /\ Has("CONSUMED", o) /\ tag[order[o].asset] # None /\ IsOrder(o)
          /\ \E s \in reported : session[s].order = o /\ device[session[s].chip] # None
      BY <2>1 DEF IInv, ActivatedIsComplete, past, IsOrder
    <3>2. Has("CONSUMED", o)'
      BY <3>1, Kinds_distinct DEF Has, Grows
    <3>3. order'[o].asset = order[o].asset
      BY <3>1 DEF Grows
    <3>4. QED
      BY <3>1, <3>2, <3>3 DEF past
  <2>2. QED
    BY <2>1 DEF ActivatedIsComplete
<1>6. QED
  BY <1>1, <1>2, <1>3, <1>4, <1>5 DEF IInv

LEMMA GrantWrites ==
  ASSUME KeysAssumption, IInv, NEW c \in Calls, Write(c), ~ Found(job[c].key), job[c].op = "grant"
  PROVE  IInv'
<1> DEFINE k == job[c].key
<1>1. /\ Append(k, "GRANTED", None) /\ order' = order /\ Finish(c)
      /\ UNCHANGED <<session, device, tag, past>>
  BY DEF Write, Commit
<1>2. k \in ChosenKeys \cup {None} /\ ChosenKeys \subseteq AllKeys
  BY DEF IInv, JobInv, Sound, ChosenKeys, AllKeys
<1>3. CASE k = None
  <2>1. granted' = granted + 1 /\ ledger' = ledger
    BY <1>1, <1>3 DEF Append
  <2>2. Grows
    BY <1>1, <2>1 DEF Grows, past, IsOrder, IsSession
  <2>3. EntryInv' /\ ReservedTogether'
    BY <1>1, <2>1 DEF IInv, EntryInv, ReservedTogether, IsOrder
  <2>4. granted' \in Nat
    BY <2>1 DEF IInv, TypeInv
  <2> HIDE DEF k
  <2>5. QED
    BY <1>1, <2>1, <2>2, <2>3, <2>4, LedgerStep, NoJobFits, IdleIsSound
    DEF IInv, TypeInv, RowInv, Finish, IsOrder
<1>4. CASE k # None
  <2>1. k \in AllKeys /\ k \in ChosenKeys
    BY <1>2, <1>4
  <2>2. /\ ledger' \in [AllKeys -> [kind : Kinds, order : Orders \cup {None}]]
        /\ ledger[k] = NoEntry /\ ledger'[k] = Entry("GRANTED", None) /\ granted' = granted
        /\ \A l \in AllKeys \ {k} : ledger'[l] = ledger[l]
    BY <1>1, <2>1, Appended DEF Kinds
  <2> HIDE DEF k
  <2>3. Grows
    BY <1>1, <2>2 DEF Grows, past, IsOrder, IsSession
  <2>4. EntryInv'
    <3>1. \A o \in Orders : ConsumeKey(o) \notin ChosenKeys /\ ConsumeKey(o) \in AllKeys
      BY DEF ConsumeKey, ChosenKeys, Chosen, AllKeys
    <3>2. QED
      BY <1>1, <2>1, <2>2, <3>1 DEF IInv, EntryInv, Entry, IsOrder
  <2>5. ReservedTogether'
    BY <1>1, <2>2 DEF IInv, ReservedTogether, Entry, NoEntry
  <2>6. QED
    BY <1>1, <2>2, <2>3, <2>4, <2>5, LedgerStep, NoJobFits, IdleIsSound
    DEF IInv, TypeInv, RowInv, Finish, IsOrder
<1>5. QED
  BY <1>3, <1>4

LEMMA ReserveWrites ==
  ASSUME KeysAssumption, IdsAssumption, IInv, NEW c \in Calls, Write(c), ~ Found(job[c].key),
         job[c].op = "reserve"
  PROVE  IInv'
<1> DEFINE k == job[c].key
           a == job[c].asset
<1>1. PICK o \in Unused(order) :
        /\ order' = [order EXCEPT ![o] = [status |-> "REQUESTED", asset |-> a]]
        /\ Append(k, "RESERVED", o)
  BY DEF Write, Commit
<1>2. Finish(c) /\ UNCHANGED <<session, device, tag, past>>
  BY DEF Write, Commit
<1>3. /\ a \in Assets /\ k \in ChosenKeys \cup {ReserveKey(a)} /\ k \in AllKeys
      /\ o \in Orders /\ ~ IsOrder(o)
  BY DEF IInv, JobInv, TypeInv, Sound, ChosenKeys, AllKeys, Unused, IsOrder
<1>4. /\ ledger' \in [AllKeys -> [kind : Kinds, order : Orders \cup {None}]]
      /\ ledger[k] = NoEntry /\ ledger'[k] = Entry("RESERVED", o) /\ granted' = granted
      /\ \A l \in AllKeys \ {k} : ledger'[l] = ledger[l]
  BY <1>1, <1>3, Appended DEF Kinds
<1> HIDE DEF k, a
<1>5. /\ order' \in [Orders -> [status : Statuses \cup {"ABSENT"}, asset : Assets \cup {None}]]
      /\ order'[o] = [status |-> "REQUESTED", asset |-> a]
      /\ \A q \in Orders \ {o} : order'[q] = order[q]
  BY <1>1, <1>3 DEF IInv, TypeInv, Statuses
<1>6. Grows
  BY <1>2, <1>3, <1>4, <1>5 DEF Grows, past, IsOrder, IsSession
<1>7. \A l \in AllKeys : ledger[l].kind \in {"RESERVED", "RELEASED", "CONSUMED"} =>
        ledger[l].order # o /\ IsOrder(ledger[l].order)
  BY <1>3 DEF IInv, EntryInv
<1>8. EntryInv'
  <2>1. \A q \in Orders : ConsumeKey(q) # k /\ ConsumeKey(q) \in AllKeys
    BY <1>3 DEF ConsumeKey, ReserveKey, ChosenKeys, Chosen, AllKeys
  <2>2. ASSUME NEW l \in AllKeys, ledger'[l].kind \in {"RESERVED", "RELEASED", "CONSUMED"}
        PROVE  IsOrder(ledger[l].order)'
    BY <2>2, <1>3, <1>4, <1>5, <1>7 DEF Entry, IsOrder
  <2>3. ASSUME NEW l \in AllKeys, ledger'[l].kind = "RESERVED"
        PROVE  l \in ChosenKeys \cup {ReserveKey(order'[ledger'[l].order].asset)}
    <3>1. CASE l = k
      BY <3>1, <1>3, <1>4, <1>5 DEF Entry
    <3>2. CASE l # k
      <4>1. ledger'[l] = ledger[l] /\ IsOrder(ledger[l].order) /\ ledger[l].order # o
        BY <2>3, <3>2, <1>4, <1>7
      <4>2. QED
        BY <2>3, <4>1, <1>5 DEF IInv, EntryInv, IsOrder
    <3>3. QED
      BY <3>1, <3>2
  <2>4. \A q \in Orders : ledger'[ConsumeKey(q)] \in {NoEntry, Entry("CONSUMED", q)}
    BY <2>1, <1>4 DEF IInv, EntryInv
  <2>5. QED
    BY <2>2, <2>3, <2>4 DEF EntryInv
<1>9. ReservedTogether'
  <2>1. ASSUME NEW q \in Orders, order'[q].status # "ABSENT"
        PROVE  \E l \in AllKeys : /\ ledger'[l] = Entry("RESERVED", q)
                                  /\ \A m \in AllKeys \ {l} : ledger'[m] # Entry("RESERVED", q)
    <3>1. CASE q = o
      BY <3>1, <1>3, <1>4, <1>7 DEF Entry
    <3>2. CASE q # o
      <4>1. PICK l \in AllKeys : /\ ledger[l] = Entry("RESERVED", q)
                                 /\ \A m \in AllKeys \ {l} : ledger[m] # Entry("RESERVED", q)
        BY <2>1, <3>2, <1>5 DEF IInv, ReservedTogether
      <4>2. l # k
        BY <4>1, <1>4, Kinds_distinct
      <4>3. Entry("RESERVED", o) # Entry("RESERVED", q)
        BY <3>2 DEF Entry
      <4>4. QED
        BY <4>1, <4>2, <4>3, <1>3, <1>4
    <3>3. QED
      BY <3>1, <3>2
  <2>2. \A l \in AllKeys : ledger'[l].kind \in {"RESERVED", "RELEASED", "CONSUMED"} =>
          order'[ledger'[l].order].status # "ABSENT"
    BY <1>8 DEF EntryInv, IsOrder
  <2>3. QED
    BY <2>1, <2>2 DEF ReservedTogether
<1>10. /\ \A q \in Orders : IsOrder(q)' => order'[q].asset \in Assets
       /\ \A q \in Orders : ~ IsOrder(q)' => order'[q].asset = None
       /\ \A q \in Orders : order'[q].status = "ACTIVATED" => order[q].status = "ACTIVATED"
  BY <1>3, <1>5 DEF IInv, RowInv, IsOrder
<1>11. QED
  BY <1>2, <1>4, <1>5, <1>6, <1>8, <1>9, <1>10, LedgerStep, NoJobFits, IdleIsSound
  DEF IInv, TypeInv, Finish

\* A released order is cancelled; a consumed one waits for its activation.
LEMMA ReleaseWrites ==
  ASSUME KeysAssumption, IInv, NEW c \in Calls, Write(c), ~ Found(job[c].key), job[c].op = "release"
  PROVE  IInv'
<1> DEFINE k == job[c].key
           o == job[c].order
<1>1. /\ order' = [order EXCEPT ![o].status = "CANCELLED"] /\ Append(k, "RELEASED", o)
      /\ Finish(c) /\ UNCHANGED <<session, device, tag, past>>
  BY DEF Write, Commit
<1>2. IsOrder(o) /\ o \in Orders /\ k \in ChosenKeys \cup {ReleaseKey(o)} /\ k \in AllKeys
  BY DEF IInv, JobInv, Sound, ChosenKeys, AllKeys, IsOrder
<1>3. /\ ledger' \in [AllKeys -> [kind : Kinds, order : Orders \cup {None}]]
      /\ ledger[k] = NoEntry /\ ledger'[k] = Entry("RELEASED", o) /\ granted' = granted
      /\ \A l \in AllKeys \ {k} : ledger'[l] = ledger[l]
  BY <1>1, <1>2, Appended DEF Kinds
<1> HIDE DEF k, o
<1>4. /\ order' \in [Orders -> [status : Statuses \cup {"ABSENT"}, asset : Assets \cup {None}]]
      /\ \A q \in Orders : order'[q].asset = order[q].asset
      /\ \A q \in Orders : order'[q].status = IF q = o THEN "CANCELLED" ELSE order[q].status
  BY <1>1, <1>2 DEF IInv, TypeInv, Statuses
<1>5. \A q : IsOrder(q)' <=> IsOrder(q)
  BY <1>2, <1>4 DEF IsOrder
<1>6. Grows
  BY <1>1, <1>3, <1>4, <1>5 DEF Grows, past, IsSession
<1>7. \A q \in Orders : ConsumeKey(q) # k /\ ConsumeKey(q) \in AllKeys
  BY <1>2 DEF ConsumeKey, ReleaseKey, ChosenKeys, Chosen, AllKeys
<1>8. EntryInv'
  <2>1. \A l \in AllKeys : ledger'[l].kind \in {"RESERVED", "RELEASED", "CONSUMED"} => IsOrder(ledger'[l].order)
    BY <1>2, <1>3 DEF IInv, EntryInv, Entry
  <2>2. \A l \in AllKeys : ledger'[l].kind = "RESERVED" =>
          l \in ChosenKeys \cup {ReserveKey(order'[ledger'[l].order].asset)}
    BY <1>3, <1>4 DEF IInv, EntryInv, Entry, IsOrder
  <2>3. \A q \in Orders : ledger'[ConsumeKey(q)] \in {NoEntry, Entry("CONSUMED", q)}
    BY <1>3, <1>7 DEF IInv, EntryInv
  <2>4. QED
    BY <1>5, <2>1, <2>2, <2>3 DEF EntryInv
<1>9. ReservedTogether'
  <2>1. \A q : Entry("RELEASED", o) # Entry("RESERVED", q) /\ NoEntry # Entry("RESERVED", q)
    BY DEF Entry, NoEntry
  <2>2. \A l \in AllKeys : \A q : ledger'[l] = Entry("RESERVED", q) <=> ledger[l] = Entry("RESERVED", q)
    BY <2>1, <1>3
  <2>3. QED
    BY <2>2, <1>5, <1>8 DEF IInv, ReservedTogether, EntryInv, IsOrder
<1>10. /\ \A q \in Orders : IsOrder(q)' => order'[q].asset \in Assets
       /\ \A q \in Orders : ~ IsOrder(q)' => order'[q].asset = None
       /\ \A q \in Orders : order'[q].status = "ACTIVATED" => order[q].status = "ACTIVATED"
       /\ granted' \in Nat
  BY <1>3, <1>4, <1>5 DEF IInv, TypeInv, RowInv
<1>11. QED
  BY <1>1, <1>3, <1>4, <1>6, <1>8, <1>9, <1>10, LedgerStep, NoJobFits, IdleIsSound DEF Finish

LEMMA ConsumeWrites ==
  ASSUME KeysAssumption, IInv, NEW c \in Calls, Write(c), ~ Found(job[c].key), job[c].op = "confirm"
  PROVE  IInv'
<1> DEFINE k == job[c].key
           o == job[c].order
<1>1. /\ order' = order /\ Append(k, "CONSUMED", o) /\ pc[c] = "write"
      /\ Goto(c, "activate") /\ UNCHANGED <<session, device, tag, past>>
  BY DEF Write, Commit
<1>2. /\ o \in Orders /\ IsOrder(o) /\ k = ConsumeKey(o) /\ k \in AllKeys
      /\ Sound(job[c], "write") /\ "activate" \in Places
  BY <1>1 DEF IInv, JobInv, TypeInv, RowInv, Sound, Job, AllKeys, Places
<1>3. /\ ledger' \in [AllKeys -> [kind : Kinds, order : Orders \cup {None}]]
      /\ ledger[k] = NoEntry /\ ledger'[k] = Entry("CONSUMED", o) /\ granted' = granted
      /\ \A l \in AllKeys \ {k} : ledger'[l] = ledger[l]
  BY <1>1, <1>2, Appended DEF Kinds
<1>4. PICK x \in Job : x = job[c]
  BY DEF IInv, TypeInv
<1>5. pc' = [pc EXCEPT ![c] = "activate"] /\ job' = [job EXCEPT ![c] = x] /\ x.op = "confirm" /\ x.order = o
  BY <1>1, <1>4 DEF Goto, IInv, TypeInv
<1>6. PICK y \in Orders : y = o
  BY <1>2
<1> HIDE DEF k, o
<1>7. Grows
  BY <1>1, <1>3 DEF Grows, past, IsSession, IsOrder
<1>8. EntryInv'
  <2>1. \A q \in Orders : q # o => ConsumeKey(q) # k
    BY <1>2 DEF ConsumeKey
  <2>2. \A q \in Orders : ConsumeKey(q) \in AllKeys
    BY DEF AllKeys
  <2>3. \A q \in Orders : ledger'[ConsumeKey(q)] \in {NoEntry, Entry("CONSUMED", q)}
    BY <1>2, <1>3, <2>1, <2>2 DEF IInv, EntryInv
  <2>4. QED
    BY <1>1, <1>2, <1>3, <2>3 DEF IInv, EntryInv, Entry, IsOrder
<1>9. ReservedTogether'
  <2>1. \A q : Entry("CONSUMED", o) # Entry("RESERVED", q) /\ NoEntry # Entry("RESERVED", q)
    BY DEF Entry, NoEntry
  <2>2. \A l \in AllKeys : \A q : ledger'[l] = Entry("RESERVED", q) <=> ledger[l] = Entry("RESERVED", q)
    BY <2>1, <1>3
  <2>3. QED
    BY <2>2, <1>1, <1>8 DEF IInv, ReservedTogether, EntryInv, IsOrder
<1>10. Sound(x, "activate")'
  <2>1. Sound(x, "write")'
    <3>1. Sound(x, "write") /\ "write" \in Places
      BY <1>2, <1>4 DEF Places
    <3>2. QED
      BY <3>1, <1>7, SoundStays DEF IInv
  <2>2. Has("CONSUMED", y)'
    BY <1>2, <1>3, <1>6 DEF Has
  <2>3. QED
    BY <2>1, <2>2, <1>5, <1>6 DEF Sound, NoJob
<1>11. granted' \in Nat /\ "activate" \in Places
  BY <1>2, <1>3 DEF IInv, TypeInv
<1>12. QED
  BY <1>1, <1>3, <1>5, <1>7, <1>8, <1>9, <1>10, <1>11, LedgerStep
  DEF IInv, TypeInv, RowInv, IsOrder

LEMMA WriteStep ==
  ASSUME KeysAssumption, IdsAssumption, IInv, NEW c \in Calls, Write(c)
  PROVE  IInv'
<1>1. CASE Found(job[c].key)
  BY <1>1, FinishOnly DEF Write
<1>2. CASE ~ Found(job[c].key)
  <2>1. pc[c] = "write" /\ Sound(job[c], "write") /\ job[c] \in Job
    BY DEF Write, IInv, JobInv, TypeInv
  <2>2. job[c].op \in {"grant", "reserve", "release", "confirm"}
    BY <2>1 DEF Sound, Job
  <2>3. QED
    BY <1>2, <2>2, GrantWrites, ReserveWrites, ReleaseWrites, ConsumeWrites
<1>3. QED
  BY <1>1, <1>2

-----------------------------------------------------------------------------
(* Writes of orders and sessions, devices and assets. *)

Complete(o) == /\ Has("CONSUMED", o) /\ tag[order[o].asset] # None
               /\ \E s \in reported : session[s].order = o /\ device[session[s].chip] # None

\* An order gets another status; it is ACTIVATED only if complete or by force.
LEMMA StatusStep ==
  ASSUME IInv, NEW c \in Calls, NEW o \in Orders, IsOrder(o), NEW s \in Statuses, SetStatus(o, s),
         s = "ACTIVATED" => Complete(o) \/ o \in forced',
         UNCHANGED <<ledger, granted, session, device, tag, reported>>,
         forced \subseteq forced', forced' \subseteq Orders, Finish(c)
  PROVE  IInv'
<1>1. /\ order' \in [Orders -> [status : Statuses \cup {"ABSENT"}, asset : Assets \cup {None}]]
      /\ \A q \in Orders : order'[q].asset = order[q].asset
      /\ \A q \in Orders : order'[q].status = IF q = o THEN s ELSE order[q].status
      /\ s # "ABSENT"
  BY DEF SetStatus, IInv, TypeInv, Statuses
<1>2. \A q : IsOrder(q)' <=> IsOrder(q)
  BY <1>1 DEF IsOrder
<1>3. Grows
  BY <1>1, <1>2 DEF Grows, IsSession
<1>4. JobInv' /\ pc' \in [Calls -> Places] /\ job' \in [Calls -> Job]
  BY <1>3, OneCall, NoJobFits, IdleIsSound DEF Finish
<1>5. TypeInv'
  BY <1>1, <1>4 DEF IInv, TypeInv
<1>6. RowInv' /\ EntryInv'
  <2>1. RowInv'
    BY <1>1, <1>2 DEF IInv, RowInv, IsSession, IsOrder
  <2>2. EntryInv'
    BY <1>1, <1>2 DEF IInv, EntryInv, IsOrder
  <2>3. QED
    BY <2>1, <2>2
<1>7. ReservedTogether' /\ TagsAreTrue'
  BY <1>2 DEF IInv, ReservedTogether, TagsAreTrue, IsOrder, EntryInv
<1>8. ActivatedIsComplete'
  BY <1>1 DEF IInv, ActivatedIsComplete, Complete, Has
<1>9. QED
  BY <1>4, <1>5, <1>6, <1>7, <1>8 DEF IInv

LEMMA OrderStep ==
  ASSUME IInv, NEW c \in Calls, Move(c) \/ Encoding(c) \/ Activate(c) \/ EncodingFailed(c)
  PROVE  IInv'
<1> DEFINE x == job[c]
<1>1. x \in Job /\ Sound(x, pc[c])
  BY DEF IInv, TypeInv, JobInv
<1>2. CASE Move(c)
  <2>1. x.op = "transition"
    BY <1>1, <1>2 DEF Move, Sound, Job
  <2>2. IsOrder(x.order) /\ x.order \in Orders /\ x.to \in Statuses
    BY <1>1, <2>1 DEF Sound, IsOrder
  <2>3. QED
    BY <1>2, <2>2, StatusStep DEF Move, IInv, TypeInv
<1>3. CASE Encoding(c)
  <2>1. x.op = "start"
    BY <1>1, <1>3 DEF Encoding, Sound, Job
  <2>2. IsOrder(x.order) /\ x.order \in Orders /\ "ENCODING_IN_PROGRESS" \in Statuses
    BY <1>1, <1>3, <2>1 DEF Encoding, Sound, IsOrder, Statuses
  <2>3. QED
    BY <1>3, <2>2, StatusStep DEF Encoding, IInv, TypeInv, past
<1>4. CASE Activate(c) \/ EncodingFailed(c)
  <2>1. x.op = "confirm" /\ pc[c] \in {"activate", "failed"}
    BY <1>1, <1>4 DEF Activate, EncodingFailed, Sound, Job
  <2>2. /\ IsSession(x.session) /\ x.order = session[x.session].order /\ x.order # None
        /\ x.asset = session[x.session].asset /\ x.chip = session[x.session].chip
    BY <1>1, <2>1 DEF Sound
  <2>3. IsOrder(x.order) /\ x.order \in Orders /\ order[x.order].asset = x.asset
    BY <2>2 DEF IInv, RowInv, IsSession, IsOrder
  <2>4. CASE Activate(c)
    <3>1. Complete(x.order)
      BY <1>1, <2>1, <2>2, <2>3, <2>4 DEF Activate, Sound, Complete
    <3>2. "ACTIVATED" \in Statuses
      BY DEF Statuses
    <3>3. QED
      BY <2>3, <2>4, <3>1, <3>2, StatusStep DEF Activate, IInv, TypeInv, past
  <2>5. CASE EncodingFailed(c)
    <3>1. "ENCODING_FAILED" \in Statuses
      BY DEF Statuses
    <3>2. QED
      BY <2>3, <2>5, <3>1, StatusStep DEF EncodingFailed, IInv, TypeInv, past
  <2>6. QED
    BY <1>4, <2>4, <2>5
<1>5. QED
  BY <1>2, <1>3, <1>4

\* A session is created, or its status changes; whoever is reported has been confirmed.
LEMMA SessionStep ==
  ASSUME IInv, Grows, UNCHANGED <<ledger, granted, order, device, tag, forced>>,
         NEW c \in Calls, NEW x \in Job, NEW p \in Places,
         pc' = [pc EXCEPT ![c] = p], job' = [job EXCEPT ![c] = x], Sound(x, p)',
         session' \in [Sessions -> [status : {"ABSENT", "IN_PROGRESS", "COMPLETED", "FAILED"},
                               order : Orders \cup {None}, asset : Assets \cup {None},
                               chip : Chips \cup {None}]],
         \A s \in Sessions : IsSession(s)' =>
           /\ session'[s].asset \in Assets /\ session'[s].chip \in Chips
           /\ session'[s].order # None =>
                IsOrder(session'[s].order) /\ order[session'[s].order].asset = session'[s].asset,
         \A s \in reported' : s \in Sessions /\ IsSession(s)'
  PROVE  IInv'
<1>1. JobInv' /\ pc' \in [Calls -> Places] /\ job' \in [Calls -> Job]
  BY OneCall
<1>2. TypeInv'
  BY <1>1 DEF IInv, TypeInv
<1>3. RowInv' /\ EntryInv' /\ ReservedTogether'
  <2>1. RowInv'
    BY DEF IInv, RowInv, IsOrder
  <2>2. EntryInv' /\ ReservedTogether'
    BY DEF IInv, EntryInv, ReservedTogether, IsOrder
  <2>3. QED
    BY <2>1, <2>2
<1>4. \A s \in reported : /\ s \in reported' /\ session'[s].order = session[s].order
                          /\ session'[s].chip = session[s].chip
                          /\ session'[s].asset = session[s].asset
  BY DEF IInv, RowInv, Grows, IsSession
<1>5. TagsAreTrue'
  BY <1>4 DEF IInv, TagsAreTrue
<1>6. ActivatedIsComplete'
  BY <1>4 DEF IInv, ActivatedIsComplete, Has
<1>7. QED
  BY <1>1, <1>2, <1>3, <1>5, <1>6 DEF IInv

LEMMA CreateSessionStep ==
  ASSUME IInv, NEW c \in Calls, CreateSession(c)
  PROVE  IInv'
<1>1. PICK x \in Job : x = job[c]
  BY DEF IInv, TypeInv
<1>2. PICK s \in Unused(session) :
       session' = [session EXCEPT ![s] = [status |-> "IN_PROGRESS", order |-> job[c].order,
                                          asset |-> job[c].asset, chip |-> job[c].chip]]
  BY DEF CreateSession
<1>3. /\ Sound(x, "start") /\ x.op = "start"
  BY <1>1 DEF CreateSession, IInv, JobInv, Sound, Job
<1>4. /\ s \in Sessions /\ ~ IsSession(s) /\ s \notin reported
      /\ x.order \in Orders \cup {None} /\ x.asset \in Assets /\ x.chip \in Chips
      /\ x.order # None => IsOrder(x.order) /\ order[x.order].asset = x.asset
  BY <1>3 DEF IInv, TypeInv, RowInv, Unused, IsSession, Sound, Job
<1>5. UNCHANGED <<ledger, granted, order, device, tag, forced, reported>>
  BY DEF CreateSession, past
<1>6. /\ session' \in [Sessions -> [status : {"ABSENT", "IN_PROGRESS", "COMPLETED", "FAILED"},
                               order : Orders \cup {None}, asset : Assets \cup {None},
                               chip : Chips \cup {None}]]
      /\ session'[s] = [status |-> "IN_PROGRESS", order |-> x.order, asset |-> x.asset, chip |-> x.chip]
      /\ \A t \in Sessions \ {s} : session'[t] = session[t]
  BY <1>1, <1>2, <1>4 DEF IInv, TypeInv
<1>7. Grows
  BY <1>4, <1>5, <1>6 DEF Grows, IsSession, IsOrder
<1>8. /\ \A t \in Sessions : IsSession(t)' =>
           /\ session'[t].asset \in Assets /\ session'[t].chip \in Chips
           /\ session'[t].order # None =>
                IsOrder(session'[t].order) /\ order[session'[t].order].asset = session'[t].asset
      /\ \A t \in reported' : t \in Sessions /\ IsSession(t)'
  BY <1>4, <1>5, <1>6 DEF IInv, RowInv, IsSession
<1>9. CASE Finish(c)
  BY <1>5, <1>6, <1>7, <1>8, <1>9, SessionStep, NoJobFits, IdleIsSound DEF Finish
<1>10. CASE Goto(c, "encoding") /\ job[c].order # None
  <2>1. Sound(x, "encoding")
    BY <1>1, <1>3, <1>10 DEF Sound, NoJob
  <2>2. "encoding" \in Places
    BY DEF Places
  <2>3. Sound(x, "encoding")'
    BY <2>1, <2>2, <1>7, SoundStays DEF IInv
  <2>4. pc' = [pc EXCEPT ![c] = "encoding"] /\ job' = [job EXCEPT ![c] = x]
    BY <1>1, <1>10 DEF Goto, IInv, TypeInv
  <2>5. QED
    BY <1>5, <1>6, <1>7, <1>8, <2>2, <2>3, <2>4, SessionStep
<1>11. QED
  BY <1>9, <1>10 DEF CreateSession

LEMMA ReportStep ==
  ASSUME IInv, NEW c \in Calls, Report(c)
  PROVE  IInv'
<1>1. PICK x \in Job : x = job[c]
  BY DEF IInv, TypeInv
<1>2. PICK s \in Sessions \cup {None} : s = x.session
  BY DEF Job
<1>3. /\ session' = [session EXCEPT ![s].status = x.to]
      /\ reported' = IF x.to = "COMPLETED" THEN reported \cup {s} ELSE reported
      /\ UNCHANGED <<ledger, granted, order, device, tag, forced>>
  BY <1>1, <1>2 DEF Report
<1>4. /\ Sound(x, "report") /\ x.op = "confirm" /\ IsSession(s) /\ s \in Sessions
      /\ x.to \in {"COMPLETED", "FAILED"}
  BY <1>1, <1>2 DEF Report, IInv, JobInv, Sound, Job, IsSession
<1>5. /\ session' \in [Sessions -> [status : {"ABSENT", "IN_PROGRESS", "COMPLETED", "FAILED"},
                               order : Orders \cup {None}, asset : Assets \cup {None},
                               chip : Chips \cup {None}]]
      /\ \A t \in Sessions : /\ session'[t].order = session[t].order /\ session'[t].asset = session[t].asset
                             /\ session'[t].chip = session[t].chip
                             /\ session'[t].status = IF t = s THEN x.to ELSE session[t].status
  BY <1>3, <1>4 DEF IInv, TypeInv
<1>6. \A t \in Sessions : IsSession(t)' <=> IsSession(t)
  BY <1>4, <1>5 DEF IsSession
<1>7. Grows
  BY <1>3, <1>5, <1>6 DEF Grows, IsOrder
<1>8. /\ \A t \in Sessions : IsSession(t)' =>
           /\ session'[t].asset \in Assets /\ session'[t].chip \in Chips
           /\ session'[t].order # None =>
                IsOrder(session'[t].order) /\ order[session'[t].order].asset = session'[t].asset
      /\ \A t \in reported' : t \in Sessions /\ IsSession(t)'
  BY <1>3, <1>4, <1>5, <1>6 DEF IInv, RowInv, TypeInv
<1>9. Sound(x, "report")'
  <2>1. "report" \in Places
    BY DEF Places
  <2>2. QED
    BY <1>4, <1>7, <2>1, SoundStays DEF IInv
<1>10. ASSUME NEW p \in {"device", "failed"}, Goto(c, p), Sound(x, p)' PROVE IInv'
  <2>1. pc' = [pc EXCEPT ![c] = p] /\ job' = [job EXCEPT ![c] = x] /\ p \in Places
    BY <1>1, <1>10 DEF Goto, IInv, TypeInv, Places
  <2>2. QED
    BY <1>3, <1>5, <1>7, <1>8, <1>10, <2>1, SessionStep
<1>11. CASE x.to = "COMPLETED"
  <2>1. Sound(x, "device")'
    BY <1>2, <1>3, <1>9, <1>4, <1>11 DEF Sound, NoJob
  <2>2. QED
    BY <2>1, <1>1, <1>10, <1>11 DEF Report
<1>12. CASE x.to # "COMPLETED" /\ x.order # None
  <2>1. Sound(x, "failed")'
    BY <1>9, <1>4, <1>12 DEF Sound, NoJob
  <2>2. QED
    BY <2>1, <1>1, <1>10, <1>12 DEF Report
<1>13. CASE x.to # "COMPLETED" /\ x.order = None
  <2>1. Finish(c)
    BY <1>1, <1>13 DEF Report
  <2>2. QED
    BY <2>1, <1>3, <1>5, <1>7, <1>8, SessionStep, NoJobFits, IdleIsSound DEF Finish
<1>14. QED
  BY <1>11, <1>12, <1>13

LEMMA UpsertDeviceStep ==
  ASSUME IdsAssumption, IInv, NEW c \in Calls, UpsertDevice(c)
  PROVE  IInv'
<1>1. PICK x \in Job : x = job[c]
  BY DEF IInv, TypeInv
<1>2. PICK s \in Sessions \cup {None}, u \in Chips \cup {None} : s = x.session /\ u = x.chip
  BY DEF Job
<1>3. /\ device' = [device EXCEPT ![u] = s]
      /\ UNCHANGED <<ledger, granted, order, session, tag, reported, forced>>
  BY <1>1, <1>2 DEF UpsertDevice, past
<1>4. /\ Sound(x, "device") /\ x.op = "confirm" /\ IsSession(s) /\ s \in Sessions /\ s \in reported
      /\ u \in Chips /\ session[s].chip = u /\ s # None
  BY <1>1, <1>2 DEF UpsertDevice, IInv, JobInv, Sound, Job, IsSession, RowInv, IdsAssumption
<1>5. /\ device' \in [Chips -> Sessions \cup {None}] /\ device'[u] = s
      /\ \A v \in Chips \ {u} : device'[v] = device[v]
  BY <1>3, <1>4 DEF IInv, TypeInv
<1>6. Grows
  BY <1>3, <1>4, <1>5 DEF Grows, IsSession, IsOrder
<1>7. RowInv' /\ EntryInv' /\ ReservedTogether'
  <2>1. RowInv'
    BY <1>3 DEF IInv, RowInv, IsOrder, IsSession
  <2>2. EntryInv' /\ ReservedTogether'
    BY <1>3 DEF IInv, EntryInv, ReservedTogether, IsOrder
  <2>3. QED
    BY <2>1, <2>2
<1>8. TagsAreTrue'
  BY <1>3, <1>4, <1>5 DEF IInv, TypeInv, TagsAreTrue
<1>9. ActivatedIsComplete'
  <2>1. \A t \in reported : session[t].chip \in Chips
    BY DEF IInv, RowInv, TypeInv
  <2>2. \A v \in Chips : device[v] # None => device'[v] # None
    BY <1>6 DEF Grows
  <2>3. QED
    BY <1>3, <2>1, <2>2 DEF IInv, ActivatedIsComplete, Has
<1>10. Sound(x, "device")'
  <2>1. "device" \in Places
    BY DEF Places
  <2>2. QED
    BY <1>4, <1>6, <2>1, SoundStays DEF IInv
<1>11. JobInv' /\ pc' \in [Calls -> Places] /\ job' \in [Calls -> Job]
  <2>1. CASE Finish(c)
    BY <2>1, <1>6, OneCall, NoJobFits, IdleIsSound DEF Finish
  <2>2. CASE Goto(c, "link") /\ x.order # None
    <3>1. Sound(x, "link")'
      BY <1>2, <1>4, <1>5, <1>10, <2>2 DEF Sound, NoJob
    <3>2. pc' = [pc EXCEPT ![c] = "link"] /\ job' = [job EXCEPT ![c] = x] /\ "link" \in Places
      BY <1>1, <2>2 DEF Goto, IInv, TypeInv, Places
    <3>3. QED
      BY <1>6, <3>1, <3>2, OneCall
  <2>3. QED
    BY <1>1, <2>1, <2>2 DEF UpsertDevice
<1>12. TypeInv'
  BY <1>3, <1>5, <1>11 DEF IInv, TypeInv
<1>13. QED
  BY <1>7, <1>8, <1>9, <1>11, <1>12 DEF IInv

LEMMA LinkAssetStep ==
  ASSUME IdsAssumption, IInv, NEW c \in Calls, LinkAsset(c)
  PROVE  IInv'
<1>1. PICK x \in Job : x = job[c]
  BY DEF IInv, TypeInv
<1>2. PICK a \in Assets \cup {None}, u \in Chips \cup {None} : a = x.asset /\ u = x.chip
  BY DEF Job
<1>3. /\ Sound(x, "link") /\ x.op = "confirm" /\ a \in Assets
      /\ u \in Chips /\ device[u] # None /\ u # None
      /\ \E s \in reported : session[s].asset = a /\ session[s].chip = u
  BY <1>1, <1>2 DEF LinkAsset, IInv, JobInv, Sound, Job, IsSession, RowInv, IdsAssumption
<1>4. CASE Finish(c) /\ UNCHANGED tag
  BY <1>4, FinishOnly DEF LinkAsset, data
<1>5. CASE /\ ~ \E b \in Assets \ {a} : tag[b] = u
           /\ tag' = [tag EXCEPT ![a] = u] /\ Goto(c, "find")
  <2>1. UNCHANGED <<ledger, granted, order, session, device, reported, forced>>
    BY DEF LinkAsset, past
  <2>2. /\ tag' \in [Assets -> Chips \cup {None}] /\ tag'[a] = u
        /\ \A b \in Assets \ {a} : tag'[b] = tag[b] /\ tag[b] # u
    BY <1>3, <1>5 DEF IInv, TypeInv
  <2>3. Grows
    BY <1>3, <2>1, <2>2 DEF Grows, IsSession, IsOrder
  <2>4. RowInv' /\ EntryInv' /\ ReservedTogether'
    <3>1. RowInv'
      BY <2>1 DEF IInv, RowInv, IsOrder, IsSession
    <3>2. EntryInv' /\ ReservedTogether'
      BY <2>1 DEF IInv, EntryInv, ReservedTogether, IsOrder
    <3>3. QED
      BY <3>1, <3>2
  <2>5. TagsAreTrue'
    BY <1>3, <2>1, <2>2 DEF IInv, TagsAreTrue
  <2>6. ActivatedIsComplete'
    <3>1. ASSUME NEW o \in Orders, order[o].status = "ACTIVATED" PROVE order[o].asset \in Assets
      BY <3>1 DEF IInv, RowInv, IsOrder
    <3>2. \A b \in Assets : tag[b] # None => tag'[b] # None
      BY <2>3 DEF Grows
    <3>3. QED
      BY <2>1, <3>1, <3>2 DEF IInv, ActivatedIsComplete, Has
  <2>7. Sound(x, "find")'
    <3>1. "link" \in Places
      BY DEF Places
    <3>2. Sound(x, "link")'
      BY <1>3, <2>3, <3>1, SoundStays DEF IInv
    <3>3. QED
      BY <1>2, <1>3, <2>2, <3>2 DEF Sound, NoJob
  <2>8. pc' = [pc EXCEPT ![c] = "find"] /\ job' = [job EXCEPT ![c] = x] /\ "find" \in Places
    BY <1>1, <1>5 DEF Goto, IInv, TypeInv, Places
  <2>9. JobInv' /\ pc' \in [Calls -> Places] /\ job' \in [Calls -> Job]
    BY <2>3, <2>7, <2>8, OneCall
  <2>10. TypeInv'
    BY <2>1, <2>2, <2>9 DEF IInv, TypeInv
  <2>11. QED
    BY <2>4, <2>5, <2>6, <2>9, <2>10 DEF IInv
<1>6. QED
  BY <1>1, <1>2, <1>4, <1>5 DEF LinkAsset

-----------------------------------------------------------------------------

LEMMA InvInit == IdsAssumption /\ Init => IInv
<1> SUFFICES ASSUME IdsAssumption, Init PROVE IInv
  OBVIOUS
<1>1. TypeInv
  <2>1. /\ NoEntry \in [kind : Kinds, order : Orders \cup {None}]
        /\ NoOrder \in [status : Statuses \cup {"ABSENT"}, asset : Assets \cup {None}]
        /\ NoSession \in [status : {"ABSENT", "IN_PROGRESS", "COMPLETED", "FAILED"},
                          order : Orders \cup {None}, asset : Assets \cup {None}, chip : Chips \cup {None}]
    BY DEF NoEntry, Entry, NoOrder, NoSession, Kinds
  <2>2. QED
    BY <2>1, NoJobFits DEF Init, TypeInv
<1>2. RowInv /\ ReservedTogether /\ ActivatedIsComplete /\ TagsAreTrue
  <2>1. /\ \A o \in Orders : order[o].status = "ABSENT" /\ order[o].asset = None
        /\ \A s \in Sessions : session[s].status = "ABSENT"
        /\ \A k \in AllKeys : ledger[k].kind = "none"
        /\ \A u \in Chips : device[u] = None
        /\ \A a \in Assets : tag[a] = None
        /\ reported = {}
    BY DEF Init, NoOrder, NoSession, NoEntry, Entry
  <2>2. RowInv
    BY <2>1 DEF RowInv, IsOrder, IsSession
  <2>3. ReservedTogether /\ ActivatedIsComplete /\ TagsAreTrue
    BY <2>1 DEF ReservedTogether, ActivatedIsComplete, TagsAreTrue
  <2>4. QED
    BY <2>2, <2>3
<1>3. EntryInv
  <2>1. \A o \in Orders : ConsumeKey(o) \in AllKeys
    BY DEF AllKeys
  <2>2. QED
    BY <2>1 DEF Init, EntryInv, NoEntry, Entry
<1>4. JobInv
  BY IdleIsSound DEF Init, JobInv, Sound, NoJob
<1>5. QED
  BY <1>1, <1>2, <1>3, <1>4 DEF IInv

LEMMA InvNext ==
  ASSUME IdsAssumption, EditsAssumption, KeysAssumption, IInv, [Next]_vars
  PROVE  IInv'
<1>1. ASSUME NEW c \in Calls, Request(c) PROVE IInv'
  <2>1. CASE \E k \in {Chosen(k) : k \in Keys} \cup {None} : Grant(c, k)
    BY <2>1, BeginGrant DEF ChosenKeys
  <2>2. CASE \E a \in Assets : \E k \in {Chosen(k) : k \in Keys} \cup {ReserveKey(a)} : Reserve(c, a, k)
    BY <2>2, BeginReserve DEF ChosenKeys
  <2>3. CASE \E o \in Orders : \/ \E k \in {Chosen(k) : k \in Keys} \cup {ReleaseKey(o)} : Release(c, o, k)
                               \/ \E s \in Edits : Transition(c, o, s)
    BY <2>3, BeginRelease, BeginTransition DEF ChosenKeys
  <2>4. CASE \E a \in Assets, o \in Orders \cup {None}, u \in Chips : Start(c, a, o, u)
    BY <2>4, BeginStart
  <2>5. CASE \E s \in Sessions, success \in BOOLEAN : Confirm(c, s, success)
    BY <2>5, BeginConfirm
  <2>6. QED
    BY <1>1, <2>1, <2>2, <2>3, <2>4, <2>5 DEF Request
<1>2. ASSUME NEW c \in Calls, Step(c) PROVE IInv'
  BY <1>2, FindStep, BalanceStep, WriteStep, OrderStep, CreateSessionStep, ReportStep,
     UpsertDeviceStep, LinkAssetStep DEF Step
<1>3. CASE UNCHANGED vars
  <2>1. UNCHANGED <<data, past, pc, job>>
    BY <1>3 DEF vars
  <2>2. TypeInv' /\ RowInv' /\ EntryInv'
    BY <2>1 DEF IInv, TypeInv, RowInv, EntryInv, data, past, IsOrder, IsSession
  <2>3. ReservedTogether' /\ ActivatedIsComplete' /\ TagsAreTrue'
    BY <2>1 DEF IInv, ReservedTogether, ActivatedIsComplete, TagsAreTrue, Has, data, past
  <2>4. JobInv'
    BY <2>1 DEF IInv, JobInv, Sound, IsOrder, IsSession, Has, data, past
  <2>5. QED
    BY <2>2, <2>3, <2>4 DEF IInv
<1>4. QED
  BY <1>1, <1>2, <1>3, DieStep DEF Next

\* Every step of every call keeps what the calls rely on.
THEOREM Invariance == Spec => []IInv
<1>1. Init => IInv
  BY IdsAssumption, InvInit
<1>2. IInv /\ [Next]_vars => IInv'
  BY IdsAssumption, EditsAssumption, KeysAssumption, InvNext
<1>3. QED
  BY <1>1, <1>2, PTL DEF Spec

\* Entries, orders, sessions, devices and calls are well typed.
THEOREM TypeCorrect == Spec => []TypeOK
<1>1. IInv => TypeOK
  BY DEF IInv, TypeInv, JobInv, Sound, TypeOK, Kinds
<1>2. QED
  BY <1>1, Invariance, PTL

\* Entry and order of a reservation are one, and only reservations are settled.
THEOREM ReservationsAreWhole == Spec => []ReservedTogether
<1>1. IInv => ReservedTogether
  BY DEF IInv
<1>2. QED
  BY <1>1, Invariance, PTL

\* What is ACTIVATED was reported, linked and paid for, or set by an administrator.
THEOREM ActivationsAreComplete == Spec => []ActivatedIsComplete
<1>1. IInv => ActivatedIsComplete
  BY DEF IInv
<1>2. QED
  BY <1>1, Invariance, PTL

\* An asset's chip was reported for a session of that asset and is linked to it alone,
\* and a chip's device has keys that were written to that chip.
THEOREM TagsStayTrue == Spec => []TagsAreTrue
<1>1. IInv => TagsAreTrue
  BY DEF IInv
<1>2. QED
  BY <1>1, Invariance, PTL

\* An asset has a second order only under a key that an administrator chose.
THEOREM OneOrderEach == Spec => []OneOrderPerAsset
<1>1. ASSUME IInv, IdsAssumption, NEW o \in Orders, NEW p \in Orders, o # p,
             order[o].asset = order[p].asset, order[o].asset # None
      PROVE  \E q \in {o, p} : \E k \in Keys : ledger[Chosen(k)] = Entry("RESERVED", q)
  <2>1. IsOrder(o) /\ IsOrder(p)
    BY <1>1 DEF IInv, RowInv
  <2>2. PICK k \in AllKeys : ledger[k] = Entry("RESERVED", o)
    BY <1>1, <2>1 DEF IInv, ReservedTogether, IsOrder
  <2>3. PICK l \in AllKeys : ledger[l] = Entry("RESERVED", p)
    BY <1>1, <2>1 DEF IInv, ReservedTogether, IsOrder
  <2>4. k # l
    BY <1>1, <2>2, <2>3 DEF Entry
  <2>5. k \in ChosenKeys \cup {ReserveKey(order[o].asset)} /\ l \in ChosenKeys \cup {ReserveKey(order[p].asset)}
    BY <1>1, <2>2, <2>3 DEF IInv, EntryInv, Entry
  <2>6. k \in ChosenKeys \/ l \in ChosenKeys
    BY <1>1, <2>4, <2>5
  <2>7. QED
    BY <2>2, <2>3, <2>6 DEF ChosenKeys
<1>2. IInv => OneOrderPerAsset
  BY <1>1, IdsAssumption DEF OneOrderPerAsset
<1>3. QED
  BY <1>2, Invariance, PTL
=============================================================================
