------------------------- MODULE PlatformJobsProofs -------------------------
(***************************************************************************)
(* Safety of Deposits, of ChainAdapters, of Backfill and of                *)
(* CircuitBreaker, for all values of their constants.                      *)
(*                                                                         *)
(* Deposits: what a scan has read need not be true any more when it is     *)
(* used: the argument is by what stays.  Wallets stay, and so does what a  *)
(* transaction pays; a transaction that leaves its block was less than     *)
(* MaxReorg deep.                                                          *)
(*                                                                         *)
(* ChainAdapters: a method that waits has its wait before it, or knows of  *)
(* its transaction; an escrow that was settled can not be settled again.   *)
(*                                                                         *)
(* Backfill: the keys that a transaction finds in use stay in use; a call  *)
(* that is alone with its run is through with the list up to where it is.  *)
(*                                                                         *)
(* CircuitBreaker: what is claimed of a chain, by a report or by a call    *)
(* that is at work, is claimed only while nothing is about to change it; a *)
(* step that may change a chain is of something that was about to, or of a *)
(* call whose first look withdraws the claims.                             *)
(***************************************************************************)
EXTENDS PlatformJobs, FiniteSetTheorems, WellFoundedInduction, TLAPS

DepositRow == [tenant : Tenants, coin : 1 .. Coins, status : {"PENDING", "CONFIRMED"}]
Stored     == {<<>>} \cup {<<r>> : r \in DepositRow}
Payments   == {<<>>} \cup UNION {[D -> Nat] : D \in SUBSET (1 .. Coins)}
Books      == {<<>>} \cup UNION {[D -> Tenants] : D \in SUBSET Nat}
Scan       == [pc : {"idle", "wallets", "query", "upsert", "receipt", "depth"}, last : Nat \cup {None},
               from : Nat, to : Nat, wallet : Books, coin : Nat, todo : SUBSET Txs,
               tx : Txs \cup {None}, at : Nat, grown : Nat]

\* A transaction has at most one row.
TypeInv ==
  /\ head \in Nat
  /\ mined \in [Txs -> [at : Nat, pays : Payments]]
  /\ wallets \subseteq [tenant : Tenants, index : Nat]
  /\ deposits \in [Txs -> Stored]
  /\ scan \in [Servers -> Scan]
  /\ ask \in [Asks -> [pc : {"idle", "index", "create"}, tenant : Tenants \cup {None}, index : Nat]]
  /\ \A a \in Asks : ask[a].pc # "idle" => ask[a].tenant \in Tenants
  /\ covered \in [Servers -> SUBSET Nat]

Pays(x) == mined[x].pays \in [Logs[x] -> Addresses]

\* What is mined is in a block of the chain and pays addresses that were handed out.
ChainInv ==
  \A x \in Txs :
    /\ mined[x].at <= head
    /\ mined[x].at # 0 \/ mined[x].pays # <<>> => Pays(x)

\* A row names whom its transaction pays, for good once it is confirmed.
RowInv ==
  \A x \in Txs : deposits[x] # <<>> =>
    LET row == deposits[x][1] IN
      /\ Pays(x) /\ row.coin \in Logs[x]
      /\ [tenant |-> row.tenant, index |-> mined[x].pays[row.coin]] \in wallets
      /\ row.status = "CONFIRMED" => Final(x)

\* A scan that has read a receipt: the transaction is still there, or it was too
\* shallow for the rows to be confirmed by the blocks that may have come since.
DepthOf(s) ==
  scan[s].pc = "depth" =>
    /\ scan[s].tx \in Txs /\ scan[s].grown <= Required - MaxReorg
    /\ 0 < scan[s].at /\ scan[s].at <= head - scan[s].grown
    /\ \/ mined[scan[s].tx].at = scan[s].at
       \/ (head - scan[s].grown) - scan[s].at < MaxReorg

Reading(s) == scan[s].pc \in {"query", "upsert"}
Inside(x, s) == mined[x].at \in scan[s].from .. scan[s].to
Known(x, s) == \A c \in Logs[x] : mined[x].pays[c] \in DOMAIN scan[s].wallet

\* A scan knows owners of addresses, for all that transactions in its range pay.
BookOf(s) ==
  /\ scan[s].pc \in {"wallets", "query", "upsert"} => 1 <= scan[s].from /\ scan[s].to <= head
  /\ Reading(s) =>
       /\ \A i \in DOMAIN scan[s].wallet : [tenant |-> scan[s].wallet[i], index |-> i] \in wallets
       /\ \A x \in Txs \ displaced : Inside(x, s) => Known(x, s)

\* The events a scan has still to record, and those it is done with.
ScanOf(s) ==
  scan[s].pc = "upsert" =>
    /\ 1 <= scan[s].coin /\ scan[s].coin <= Coins
    /\ \A x \in scan[s].todo :
         /\ Pays(x) /\ scan[s].coin \in Logs[x]
         /\ mined[x].pays[scan[s].coin] \in DOMAIN scan[s].wallet
    /\ \A x \in Txs \ displaced : \A c \in Logs[x] :
         Inside(x, s) /\ c <= scan[s].coin =>
           deposits[x] # <<>> \/ (c = scan[s].coin /\ x \in scan[s].todo)

DepthInv == \A s \in Servers : DepthOf(s)
BookInv  == \A s \in Servers : BookOf(s)
ScanInv  == \A s \in Servers : ScanOf(s)

CoverInv == \A s \in Servers : covered[s] \subseteq 1 .. head

IInv == TypeInv /\ ChainInv /\ RowInv /\ DepthInv /\ BookInv /\ ScanInv /\ CoverInv /\ NothingMissed
-----------------------------------------------------------------------------
(* Values *)

LEMMA Constants ==
  /\ Coins \in Nat /\ Lookback \in Nat /\ MaxBack \in Nat /\ Required \in Nat /\ MaxReorg \in Nat
  /\ MaxReorg <= Required
  /\ \A x \in Txs : Logs[x] # {} /\ Logs[x] \subseteq 1 .. Coins
BY DepositsAssumption

LEMMA LessNat ==
  ASSUME NEW i \in Nat, NEW j \in Nat
  PROVE  Less(i, j) \in Nat /\ Larger(i, j) \in Nat /\ Larger(i, j) >= i /\ Larger(i, j) >= j
BY DEF Less, Larger

\* What a transaction pays has the type of a payment, and is no empty list.
LEMMA PaidFor ==
  ASSUME NEW x \in Txs, NEW A \in SUBSET Nat, NEW p \in [Logs[x] -> A]
  PROVE  p \in Payments /\ p # <<>> /\ A # {}
<1>1. Logs[x] # {} /\ Logs[x] \in SUBSET (1 .. Coins)
  BY Constants
<1>2. p \in [Logs[x] -> Nat]
  OBVIOUS
<1>3. DOMAIN p = Logs[x]
  OBVIOUS
<1>4. DOMAIN <<>> = {}
  OBVIOUS
<1>5. p # <<>> /\ A # {}
  BY <1>1, <1>3, <1>4
<1> QED
  BY <1>1, <1>2, <1>5 DEF Payments

\* A transaction's row, where it has one.
LEMMA RowOf ==
  ASSUME NEW d \in Stored, d # <<>>
  PROVE  d[1] \in DepositRow /\ d = <<d[1]>> /\ DOMAIN d = {1}
<1>1. PICK r \in DepositRow : d = <<r>>
  BY DEF Stored
<1>2. <<r>>[1] = r /\ DOMAIN <<r>> = {1}
  OBVIOUS
<1> QED
  BY <1>1, <1>2

\* Confirming a transaction's rows changes the status of the one it may have.
LEMMA ConfirmedRow ==
  ASSUME NEW d \in Stored,
         NEW e, e = [i \in DOMAIN d |-> [d[i] EXCEPT !.status = "CONFIRMED"]]
  PROVE  /\ e \in Stored /\ (e = <<>> <=> d = <<>>)
         /\ d # <<>> => e[1] = [d[1] EXCEPT !.status = "CONFIRMED"]
<1>1. CASE d = <<>>
  <2>1. DOMAIN d = {}
    BY <1>1
  <2>2. e = <<>>
    BY <2>1
  <2> QED
    BY <1>1, <2>2 DEF Stored
<1>2. CASE d # <<>>
  <2>1. d[1] \in DepositRow /\ DOMAIN d = {1}
    BY <1>2, RowOf
  <2>2. e[1] = [d[1] EXCEPT !.status = "CONFIRMED"] /\ DOMAIN e = {1}
    BY <2>1
  <2>3. e[1] \in DepositRow
    BY <2>1, <2>2 DEF DepositRow
  <2>4. e = <<e[1]>>
    BY <2>2
  <2>5. e # <<>>
    BY <2>4
  <2> QED
    BY <1>2, <2>2, <2>3, <2>4, <2>5 DEF Stored
<1> QED
  BY <1>1, <1>2

LEMMA EmptyBook == <<>> \in Books
BY DEF Books

LEMMA LeftTyped ==
  ASSUME NEW last \in Nat \cup {None}, NEW todo \in SUBSET Txs
  PROVE  Left(last, todo) \in Scan /\ Left(last, todo).pc \in {"idle", "receipt"}
BY EmptyBook DEF Left, Idle, Scan

LEMMA AddressesAreNumbers == TypeInv => Addresses \subseteq Nat
BY DEF TypeInv, Addresses, Address
-----------------------------------------------------------------------------
(* The chain *)

\* Whatever the chain does, what a transaction pays stays, one whose block was not
\* replaced stays where it was unless it is in the new block, and what is final stays.
ChainMoves ==
  /\ \A x \in Txs : Pays(x) => Pays(x)' /\ mined'[x].pays = mined[x].pays
  /\ \A x \in Txs \ displaced' : mined'[x].at = mined[x].at \/ mined'[x].at = head + 1
  /\ \A x \in Txs : Final(x) => Final(x)'

LEMMA MineMoves ==
  ASSUME TypeInv, ChainInv, Mine
  PROVE  /\ ChainMoves /\ ChainInv' /\ head' = head + 1 /\ head' \in Nat
         /\ mined' \in [Txs -> [at : Nat, pays : Payments]]
<1>0. /\ head \in Nat /\ head' = head + 1 /\ wallets' = wallets /\ displaced' = displaced
      /\ mined \in [Txs -> [at : Nat, pays : Payments]] /\ Addresses' = Addresses
      /\ Required \in Nat
  BY Constants DEF Mine, TypeInv, desk, Addresses
<1>1. CASE UNCHANGED mined
  <2>1. \A x \in Txs : mined'[x] = mined[x] /\ mined[x].at \in Nat /\ (Pays(x)' <=> Pays(x))
    BY <1>0, <1>1 DEF Pays
  <2>2. ChainMoves
    BY <1>0, <1>1, <2>1 DEF ChainMoves, Final
  <2>3. ChainInv'
    BY <1>0, <2>1 DEF ChainInv
  <2> QED
    BY <1>0, <1>1, <2>2, <2>3
<1>2. CASE \E x \in Txs : \E pays \in [Logs[x] -> Addresses] :
             /\ mined[x].at = 0 /\ mined[x].pays \in {<<>>, pays}
             /\ mined' = [mined EXCEPT ![x] = [at |-> head + 1, pays |-> pays]]
  <2>0. PICK x \in Txs : \E pays \in [Logs[x] -> Addresses] :
          /\ mined[x].at = 0 /\ mined[x].pays \in {<<>>, pays}
          /\ mined' = [mined EXCEPT ![x] = [at |-> head + 1, pays |-> pays]]
    BY <1>2
  <2>1. PICK pays \in [Logs[x] -> Addresses] :
          /\ mined[x].at = 0 /\ mined[x].pays \in {<<>>, pays}
          /\ mined' = [mined EXCEPT ![x] = [at |-> head + 1, pays |-> pays]]
    BY <2>0
  <2>2. mined'[x].at = head + 1 /\ mined'[x].pays = pays /\ Pays(x)'
    BY <1>0, <2>1 DEF Pays
  <2>3. Pays(x) => mined'[x].pays = mined[x].pays
    BY <1>0, <2>1, <2>2, PaidFor, AddressesAreNumbers DEF Pays
  <2>4. \A y \in Txs \ {x} : mined'[y] = mined[y] /\ (Pays(y)' <=> Pays(y))
    BY <1>0, <2>1 DEF Pays
  <2>5. pays \in Payments
    BY PaidFor, AddressesAreNumbers
  <2>6. mined' \in [Txs -> [at : Nat, pays : Payments]]
    BY <1>0, <2>1, <2>5
  <2>7. \A y \in Txs : Final(y) => Final(y)'
    <3> SUFFICES ASSUME NEW y \in Txs, Final(y) PROVE Final(y)'
      OBVIOUS
    <3>1. y # x /\ mined'[y] = mined[y] /\ mined[y].at \in Nat
      BY <1>0, <2>1, <2>4 DEF Final
    <3> QED
      BY <1>0, <3>1 DEF Final
  <2>8. ChainMoves
    BY <2>2, <2>3, <2>4, <2>7 DEF ChainMoves
  <2>9. ChainInv'
    <3> SUFFICES ASSUME NEW y \in Txs
                 PROVE mined'[y].at <= head' /\ (mined'[y].at # 0 \/ mined'[y].pays # <<>> => Pays(y)')
      BY DEF ChainInv
    <3>1. mined[y].at \in Nat /\ mined[y].at <= head /\ (mined[y].at # 0 \/ mined[y].pays # <<>> => Pays(y))
      BY <1>0 DEF ChainInv
    <3> QED
      BY <1>0, <2>2, <2>4, <3>1
  <2> QED
    BY <1>0, <2>6, <2>8, <2>9
<1> QED
  BY <1>1, <1>2 DEF Mine

LEMMA ReorganiseMoves ==
  ASSUME TypeInv, ChainInv, Reorganise
  PROVE  /\ ChainMoves /\ ChainInv' /\ mined' \in [Txs -> [at : Nat, pays : Payments]]
         /\ \A x \in Txs : mined[x].at # 0 /\ mined'[x].at # mined[x].at => head - mined[x].at < MaxReorg
<1>0. /\ head \in Nat /\ head' = head /\ wallets' = wallets
      /\ mined \in [Txs -> [at : Nat, pays : Payments]] /\ Addresses' = Addresses
      /\ Required \in Nat /\ MaxReorg \in Nat /\ MaxReorg <= Required
  BY Constants DEF Reorganise, TypeInv, desk, Addresses
<1>1. PICK x \in Txs :
        /\ displaced' = displaced \cup {x}
        /\ \/ /\ mined[x].at # 0 /\ head - mined[x].at < MaxReorg
              /\ mined' = [mined EXCEPT ![x].at = 0]
           \/ /\ mined[x].at = 0 /\ mined[x].pays # <<>>
              /\ mined' = [mined EXCEPT ![x].at = head]
  BY DEF Reorganise
<1>2. \A y \in Txs \ {x} : mined'[y] = mined[y]
  BY <1>0, <1>1
<1>3. \A y \in Txs : mined'[y].pays = mined[y].pays /\ (Pays(y)' <=> Pays(y))
  BY <1>0, <1>1, <1>2 DEF Pays
<1>4. mined' \in [Txs -> [at : Nat, pays : Payments]]
  BY <1>0, <1>1
<1>5. \A y \in Txs : Final(y) => Final(y)'
  <2> SUFFICES ASSUME NEW y \in Txs, Final(y) PROVE Final(y)'
    OBVIOUS
  <2>1. mined[y].at \in Nat /\ mined[y].at # 0 /\ ~ (head - mined[y].at < MaxReorg)
    BY <1>0 DEF Final
  <2>2. y # x
    BY <1>1, <2>1
  <2> QED
    BY <1>0, <1>2, <2>2 DEF Final
<1>6. ChainMoves
  BY <1>1, <1>2, <1>3, <1>5 DEF ChainMoves
<1>7. ChainInv'
  <2> SUFFICES ASSUME NEW y \in Txs
               PROVE mined'[y].at <= head' /\ (mined'[y].at # 0 \/ mined'[y].pays # <<>> => Pays(y)')
    BY DEF ChainInv
  <2>1. mined[y].at \in Nat /\ mined[y].at <= head /\ (mined[y].at # 0 \/ mined[y].pays # <<>> => Pays(y))
    BY <1>0 DEF ChainInv
  <2> QED
    BY <1>0, <1>1, <1>2, <1>3, <2>1
<1> QED
  BY <1>1, <1>2, <1>4, <1>6, <1>7

\* The chain does not disturb rows, or what scans know, have to do and have done.
SameScans ==
  \A s \in Servers :
    /\ scan'[s].pc = scan[s].pc /\ scan'[s].from = scan[s].from /\ scan'[s].to = scan[s].to
    /\ scan'[s].wallet = scan[s].wallet /\ scan'[s].coin = scan[s].coin
    /\ scan'[s].todo = scan[s].todo

LEMMA ChainStep ==
  ASSUME IInv, ChainMoves, SameScans, head' \in {head, head + 1}, displaced \subseteq displaced',
         wallets' = wallets, deposits' = deposits, covered' = covered
  PROVE  RowInv' /\ BookInv' /\ ScanInv' /\ CoverInv' /\ NothingMissed'
<1>0. /\ head \in Nat /\ mined \in [Txs -> [at : Nat, pays : Payments]]
      /\ \A s \in Servers : scan[s] \in Scan
  BY DEF IInv, TypeInv
<1>1. RowInv'
  <2> SUFFICES ASSUME NEW x \in Txs, deposits[x] # <<>>
               PROVE  LET row == deposits[x][1] IN
                 /\ Pays(x)' /\ row.coin \in Logs[x]
                 /\ [tenant |-> row.tenant, index |-> mined'[x].pays[row.coin]] \in wallets
                 /\ row.status = "CONFIRMED" => Final(x)'
    BY DEF RowInv
  <2> QED
    BY DEF IInv, RowInv, ChainMoves
\* What was mined since a scan began is not in its range.
<1>2. \A s \in Servers, x \in Txs \ displaced' :
        scan[s].to <= head /\ Inside(x, s)' => x \in Txs \ displaced /\ Inside(x, s)
  <2> SUFFICES ASSUME NEW s \in Servers, NEW x \in Txs \ displaced', scan[s].to <= head, Inside(x, s)'
               PROVE  Inside(x, s)
    OBVIOUS
  <2>1. mined'[x].at \in scan[s].from .. scan[s].to /\ scan[s].to \in Nat /\ scan[s].from \in Nat
    BY <1>0 DEF Inside, SameScans, Scan
  <2>2. mined'[x].at = mined[x].at
    BY <1>0, <2>1 DEF ChainMoves
  <2> QED
    BY <2>1, <2>2 DEF Inside
<1>3. BookInv'
  <2> SUFFICES ASSUME NEW s \in Servers
               PROVE  /\ scan[s].pc \in {"wallets", "query", "upsert"} => 1 <= scan[s].from /\ scan[s].to <= head'
                      /\ Reading(s) =>
                           /\ \A i \in DOMAIN scan[s].wallet : [tenant |-> scan[s].wallet[i], index |-> i] \in wallets
                           /\ \A x \in Txs \ displaced' : Inside(x, s)' => Known(x, s)'
    BY DEF BookInv, BookOf, SameScans, Reading
  <2>1. scan[s].pc \in {"wallets", "query", "upsert"} => 1 <= scan[s].from /\ scan[s].to <= head
    BY DEF IInv, BookInv, BookOf
  <2>2. scan[s].to \in Nat
    BY <1>0 DEF Scan
  <2>3. ASSUME Reading(s), NEW x \in Txs \ displaced', Inside(x, s)' PROVE Known(x, s)'
    <3>1. x \in Txs \ displaced /\ Inside(x, s)
      BY <1>2, <2>1, <2>3 DEF Reading
    <3>2. Known(x, s)
      BY <2>3, <3>1 DEF IInv, BookInv, BookOf
    <3>3. mined[x].at # 0
      <4>1. mined[x].at \in scan[s].from .. scan[s].to /\ scan[s].from \in Nat /\ 1 <= scan[s].from
        BY <1>0, <2>1, <2>3, <3>1 DEF Inside, Reading, Scan
      <4> QED
        BY <2>2, <4>1
    <3>4. mined'[x].pays = mined[x].pays
      BY <3>3 DEF IInv, ChainInv, ChainMoves
    <3> QED
      BY <3>2, <3>4 DEF Known, SameScans
  <2> QED
    BY <1>0, <2>1, <2>2, <2>3 DEF IInv, BookInv, BookOf
<1>4. ScanInv'
  <2> SUFFICES ASSUME NEW s \in Servers, scan[s].pc = "upsert"
               PROVE  /\ 1 <= scan[s].coin /\ scan[s].coin <= Coins
                      /\ \A x \in scan[s].todo :
                           /\ Pays(x)' /\ scan[s].coin \in Logs[x]
                           /\ mined'[x].pays[scan[s].coin] \in DOMAIN scan[s].wallet
                      /\ \A x \in Txs \ displaced' : \A c \in Logs[x] :
                           Inside(x, s)' /\ c <= scan[s].coin =>
                             deposits[x] # <<>> \/ (c = scan[s].coin /\ x \in scan[s].todo)
    BY DEF ScanInv, ScanOf, SameScans
  <2>1. scan[s].to <= head /\ scan[s].todo \subseteq Txs
    BY <1>0 DEF IInv, BookInv, BookOf, Scan
  <2>2. \A x \in scan[s].todo : Pays(x) /\ x \in Txs
    BY <2>1 DEF IInv, ScanInv, ScanOf
  <2> QED
    BY <1>2, <2>1, <2>2 DEF IInv, ScanInv, ScanOf, ChainMoves
<1>5. CoverInv'
  BY <1>0 DEF IInv, CoverInv
<1>6. NothingMissed'
  <2> SUFFICES ASSUME NEW s \in Servers, NEW x \in Txs, mined'[x].at \in covered[s], x \notin displaced'
               PROVE  deposits[x] # <<>>
    BY DEF NothingMissed
  <2>1. mined'[x].at \in 1 .. head
    BY DEF IInv, CoverInv
  <2>2. mined'[x].at = mined[x].at
    BY <1>0, <2>1 DEF ChainMoves
  <2> QED
    BY <2>2 DEF IInv, NothingMissed
<1> QED
  BY <1>1, <1>3, <1>4, <1>5, <1>6

LEMMA MineStep == IInv /\ Mine => IInv'
<1> SUFFICES ASSUME IInv, Mine PROVE IInv'
  OBVIOUS
<1>0. /\ ChainMoves /\ ChainInv' /\ head' = head + 1 /\ head' \in Nat /\ head \in Nat
      /\ mined' \in [Txs -> [at : Nat, pays : Payments]]
  BY MineMoves DEF IInv, TypeInv
<1>1. /\ scan \in [Servers -> Scan] /\ mined \in [Txs -> [at : Nat, pays : Payments]]
      /\ \A s \in Servers : scan[s].pc = "depth" => scan[s].grown < Required - MaxReorg
      /\ scan' = [s \in Servers |-> IF scan[s].pc = "depth" THEN [scan[s] EXCEPT !.grown = @ + 1]
                                    ELSE scan[s]]
      /\ UNCHANGED <<desk, deposits, faults, displaced, covered>>
  BY DEF Mine, IInv, TypeInv
<1>2. SameScans /\ scan' \in [Servers -> Scan]
  <2> SUFFICES ASSUME NEW s \in Servers
               PROVE  /\ scan'[s].pc = scan[s].pc /\ scan'[s].from = scan[s].from
                      /\ scan'[s].to = scan[s].to /\ scan'[s].wallet = scan[s].wallet
                      /\ scan'[s].coin = scan[s].coin /\ scan'[s].todo = scan[s].todo
                      /\ scan'[s] \in Scan
    BY <1>1 DEF SameScans
  <2> QED
    BY <1>1 DEF Scan
<1>3. RowInv' /\ BookInv' /\ ScanInv' /\ CoverInv' /\ NothingMissed'
  BY <1>0, <1>1, <1>2, ChainStep DEF desk
<1>4. TypeInv'
  BY <1>0, <1>1, <1>2 DEF IInv, TypeInv, desk
<1>5. DepthInv'
  <2> SUFFICES ASSUME NEW s \in Servers, scan'[s].pc = "depth"
               PROVE  /\ scan'[s].tx \in Txs /\ scan'[s].grown <= Required - MaxReorg
                      /\ 0 < scan'[s].at /\ scan'[s].at <= head' - scan'[s].grown
                      /\ \/ mined'[scan'[s].tx].at = scan'[s].at
                         \/ (head' - scan'[s].grown) - scan'[s].at < MaxReorg
    BY DEF DepthInv, DepthOf
  <2>1. scan[s].pc = "depth" /\ scan[s] \in Scan
    BY <1>1, <1>2 DEF SameScans
  <2>2. scan'[s].tx = scan[s].tx /\ scan'[s].at = scan[s].at /\ scan'[s].grown = scan[s].grown + 1
    BY <1>1, <2>1 DEF Scan
  <2>3. /\ scan[s].tx \in Txs /\ 0 < scan[s].at /\ scan[s].at <= head - scan[s].grown
        /\ \/ mined[scan[s].tx].at = scan[s].at
           \/ (head - scan[s].grown) - scan[s].at < MaxReorg
    BY <2>1 DEF IInv, DepthInv, DepthOf
  <2>4. scan[s].at \in Nat /\ scan[s].grown \in Nat /\ Required \in Nat /\ MaxReorg \in Nat
    BY <2>1, Constants DEF Scan
  <2>5. mined[scan[s].tx].at # 0 => mined'[scan[s].tx].at = mined[scan[s].tx].at
    BY <1>0, <1>1, <2>3 DEF Mine
  <2> QED
    BY <1>0, <1>1, <2>1, <2>2, <2>3, <2>4, <2>5
<1> QED
  BY <1>0, <1>3, <1>4, <1>5 DEF IInv

LEMMA ReorganiseStep == IInv /\ Reorganise => IInv'
<1> SUFFICES ASSUME IInv, Reorganise PROVE IInv'
  OBVIOUS
<1>0. /\ ChainMoves /\ ChainInv' /\ mined' \in [Txs -> [at : Nat, pays : Payments]]
      /\ \A x \in Txs : mined[x].at # 0 /\ mined'[x].at # mined[x].at => head - mined[x].at < MaxReorg
  BY ReorganiseMoves DEF IInv
<1>1. UNCHANGED <<head, desk, deposits, scan, covered>> /\ displaced \subseteq displaced'
  BY DEF Reorganise
<1>2. SameScans
  BY <1>1 DEF SameScans
<1>3. RowInv' /\ BookInv' /\ ScanInv' /\ CoverInv' /\ NothingMissed'
  BY <1>0, <1>1, <1>2, ChainStep DEF desk
<1>4. TypeInv'
  BY <1>0, <1>1 DEF IInv, TypeInv, desk
<1>5. DepthInv'
  <2> SUFFICES ASSUME NEW s \in Servers, scan[s].pc = "depth"
               PROVE  /\ scan[s].tx \in Txs /\ scan[s].grown <= Required - MaxReorg
                      /\ 0 < scan[s].at /\ scan[s].at <= head - scan[s].grown
                      /\ \/ mined'[scan[s].tx].at = scan[s].at
                         \/ (head - scan[s].grown) - scan[s].at < MaxReorg
    BY <1>1 DEF DepthInv, DepthOf
  <2>1. /\ scan[s].at \in Nat /\ scan[s].grown \in Nat /\ head \in Nat
        /\ Required \in Nat /\ MaxReorg \in Nat
    BY Constants DEF IInv, TypeInv, Scan
  <2> QED
    BY <1>0, <2>1 DEF IInv, DepthInv, DepthOf
<1> QED
  BY <1>0, <1>3, <1>4, <1>5 DEF IInv
-----------------------------------------------------------------------------
(* Wallets *)

LEMMA AskSteps == IInv /\ (\E a \in Asks : Ask(a) \/ NextIndex(a)) => IInv'
<1> SUFFICES ASSUME IInv, NEW a \in Asks, Ask(a) \/ NextIndex(a) PROVE IInv'
  OBVIOUS
<1>1. UNCHANGED <<chain, wallets, deposits, scan, covered>>
  BY DEF Ask, NextIndex
<1>2. /\ ask' \in [Asks -> [pc : {"idle", "index", "create"}, tenant : Tenants \cup {None}, index : Nat]]
      /\ \A b \in Asks : ask'[b].pc # "idle" => ask'[b].tenant \in Tenants
  <2>1. CASE Ask(a)
    <3>1. PICK t \in Tenants : ask' = [ask EXCEPT ![a] = [Quiet EXCEPT !.pc = "index", !.tenant = t]]
      BY <2>1 DEF Ask
    <3> QED
      BY <3>1 DEF Quiet, IInv, TypeInv
  <2>2. CASE NextIndex(a)
    <3> DEFINE own == {w.index : w \in {v \in wallets : v.tenant = ask[a].tenant}}
    <3>1. own \subseteq Nat
      BY DEF IInv, TypeInv
    <3>2. PICK i \in {0} \cup {j + 1 : j \in own} :
            ask[a].pc = "index" /\ ask' = [ask EXCEPT ![a].pc = "create", ![a].index = i]
      BY <2>2 DEF NextIndex
    <3>3. i \in Nat
      BY <3>1, <3>2
    <3> QED
      BY <3>2, <3>3 DEF IInv, TypeInv
  <2> QED
    BY <2>1, <2>2
<1>3. TypeInv'
  BY <1>1, <1>2 DEF IInv, TypeInv, chain
<1> QED
  BY <1>1, <1>3 DEF IInv, chain, ChainInv, RowInv, DepthInv, DepthOf, BookInv, BookOf, ScanInv, ScanOf,
     CoverInv, NothingMissed, Pays, Addresses, Final, Reading, Inside, Known

\* A new wallet takes no address away.
LEMMA CreateWalletStep == IInv /\ (\E a \in Asks : CreateWallet(a)) => IInv'
<1> SUFFICES ASSUME IInv, NEW a \in Asks, CreateWallet(a) PROVE IInv'
  OBVIOUS
<1>1. /\ UNCHANGED <<chain, deposits, scan, covered>> /\ ask' = [ask EXCEPT ![a] = Quiet]
      /\ wallets' = wallets \cup {[tenant |-> ask[a].tenant, index |-> ask[a].index]}
  BY DEF CreateWallet
<1>2. TypeInv'
  <2>1. ask[a].pc = "create" /\ ask[a].tenant \in Tenants /\ ask[a].index \in Nat
    BY DEF CreateWallet, IInv, TypeInv
  <2> QED
    BY <1>1, <2>1 DEF IInv, TypeInv, chain, Quiet
<1>3. Addresses \subseteq Addresses'
  BY <1>1 DEF Addresses
<1>4. \A x \in Txs : Pays(x) => Pays(x)'
  BY <1>1, <1>3 DEF Pays, chain
<1>5. \A x \in Txs : Final(x)' <=> Final(x)
  BY <1>1 DEF Final, chain
<1>6. ChainInv' /\ RowInv'
  BY <1>1, <1>4, <1>5 DEF IInv, ChainInv, RowInv, chain
<1>7. DepthInv' /\ BookInv'
  BY <1>1 DEF IInv, DepthInv, DepthOf, BookInv, BookOf, Reading, Inside, Known, chain
<1>8. ScanInv'
  <2>1. \A s \in Servers : scan[s].todo \subseteq Txs
    BY DEF IInv, TypeInv, Scan
  <2> QED
    BY <1>1, <1>4, <2>1 DEF IInv, ScanInv, ScanOf, Inside, chain
<1> QED
  BY <1>1, <1>2, <1>6, <1>7, <1>8 DEF IInv, CoverInv, NothingMissed, chain
-----------------------------------------------------------------------------
(* Scans *)

\* A step of one scan leaves the others' knowledge true.
LEMMA ScanStep ==
  ASSUME IInv, UNCHANGED <<chain, desk>>, NEW s \in Servers, scan' \in [Servers -> Scan],
         \A t \in Servers \ {s} : scan'[t] = scan[t], DepthOf(s)', BookOf(s)', ScanOf(s)',
         deposits' \in [Txs -> Stored], \A x \in Txs : deposits[x] # <<>> => deposits'[x] # <<>>, RowInv',
         covered' \in [Servers -> SUBSET Nat], CoverInv', NothingMissed'
  PROVE  IInv'
<1>1. TypeInv'
  BY DEF IInv, TypeInv, chain, desk
<1>2. ChainInv'
  BY DEF IInv, ChainInv, Pays, Addresses, chain, desk
<1>3. \A x \in Txs : Pays(x)' <=> Pays(x)
  BY DEF Pays, Addresses, chain, desk
<1>5. \A t \in Servers \ {s} : DepthOf(t)' /\ BookOf(t)'
  BY DEF IInv, DepthInv, DepthOf, BookInv, BookOf, Reading, Inside, Known, chain, desk
<1>6. \A t \in Servers \ {s} : ScanOf(t)'
  <2>1. \A t \in Servers : scan[t].todo \subseteq Txs
    BY DEF IInv, TypeInv, Scan
  <2> QED
    BY <1>3, <2>1 DEF IInv, ScanInv, ScanOf, Inside, chain, desk
<1> QED
  BY <1>1, <1>2, <1>5, <1>6 DEF IInv, DepthInv, BookInv, ScanInv

\* A scan that reads no events knows nothing that could become false.
LEMMA AtRest ==
  ASSUME NEW s \in Servers, scan'[s].pc \in {"idle", "receipt"}
  PROVE  DepthOf(s)' /\ BookOf(s)' /\ ScanOf(s)'
BY DEF DepthOf, BookOf, ScanOf, Reading

\* A step that neither scans further nor drops a row misses nothing.
LEMMA NoneCovered ==
  ASSUME IInv, UNCHANGED chain, UNCHANGED covered,
         \A x \in Txs : deposits[x] # <<>> => deposits'[x] # <<>>
  PROVE  CoverInv' /\ NothingMissed' /\ covered' \in [Servers -> SUBSET Nat]
BY DEF IInv, TypeInv, CoverInv, NothingMissed, chain

\* Rows stay what they are when nothing but scans changes.
LEMMA RowsKept ==
  ASSUME IInv, UNCHANGED <<chain, desk>>, deposits' = deposits
  PROVE  RowInv' /\ deposits' \in [Txs -> Stored]
BY DEF IInv, TypeInv, RowInv, Pays, Addresses, Final, chain, desk

LEMMA BookEntry ==
  ASSUME NEW b \in Books, NEW i \in DOMAIN b
  PROVE  b[i] \in Tenants
BY DEF Books

\* What is in the range of a scan is mined, and pays addresses.
LEMMA InsideIsMined ==
  ASSUME IInv, NEW s \in Servers, scan[s].pc \in {"wallets", "query", "upsert"},
         NEW x \in Txs, Inside(x, s)
  PROVE  mined[x].at # 0 /\ Pays(x)
<1>1. scan[s].from \in Nat /\ scan[s].to \in Nat /\ mined[x].at \in Nat /\ 1 <= scan[s].from
  BY DEF IInv, TypeInv, Scan, BookInv, BookOf
<1>2. mined[x].at # 0
  BY <1>1 DEF Inside
<1> QED
  BY <1>2 DEF IInv, ChainInv

LEMMA BeginStep == ASSUME IInv, NEW s \in Servers, Begin(s) PROVE IInv'
<1> DEFINE last == IF scan[s].last = None THEN Less(head, Lookback) ELSE scan[s].last
           r    == [scan[s] EXCEPT !.pc = "wallets", !.to = head, !.coin = 1,
                                   !.from = Larger(last + 1, Less(head, MaxBack))]
<1>1. /\ scan' = [scan EXCEPT ![s] = r] /\ UNCHANGED <<chain, desk>>
      /\ deposits' = deposits /\ covered' = covered
  BY DEF Begin, Step, Still
<1>2. scan \in [Servers -> Scan] /\ scan[s] \in Scan /\ head \in Nat
  BY DEF IInv, TypeInv
<1>3. last \in Nat
  BY <1>2, LessNat, Constants DEF Scan
<1> HIDE DEF last
<1>4. Larger(last + 1, Less(head, MaxBack)) \in Nat /\ 1 <= Larger(last + 1, Less(head, MaxBack))
  <2>1. last + 1 \in Nat /\ 1 <= last + 1 /\ Less(head, MaxBack) \in Nat
    BY <1>2, <1>3, LessNat, Constants
  <2> QED
    BY <2>1, LessNat
<1>5. r \in Scan /\ r.pc = "wallets" /\ 1 <= r.from /\ r.to = head
  BY <1>2, <1>4 DEF Scan
<1> HIDE DEF r
<1>6. /\ scan' \in [Servers -> Scan] /\ scan'[s] = r
      /\ \A t \in Servers \ {s} : scan'[t] = scan[t]
  BY <1>1, <1>2, <1>5
<1>7. DepthOf(s)' /\ BookOf(s)' /\ ScanOf(s)'
  BY <1>1, <1>2, <1>5, <1>6 DEF DepthOf, BookOf, ScanOf, Reading, chain
<1>8. \A x \in Txs : deposits[x] # <<>> => deposits'[x] # <<>>
  BY <1>1
<1> QED
  BY <1>1, <1>6, <1>7, <1>8, ScanStep, NoneCovered, RowsKept

\* A scan that finds no wallet has nothing to record: without one nobody was paid.
LEMMA NoWallets ==
  ASSUME IInv, NEW s \in Servers, ReadWallets(s), wallets = {}
  PROVE  IInv'
<1>1. /\ scan[s].pc = "wallets" /\ scan' = [scan EXCEPT ![s] = [Idle EXCEPT !.last = scan[s].to]]
      /\ covered' = Covered(s) /\ UNCHANGED <<chain, desk>> /\ deposits' = deposits
  BY DEF ReadWallets, Step, Still
<1>2. /\ scan \in [Servers -> Scan] /\ scan[s] \in Scan /\ head \in Nat
      /\ covered \in [Servers -> SUBSET Nat]
  BY DEF IInv, TypeInv
<1>3. [Idle EXCEPT !.last = scan[s].to] \in Scan /\ [Idle EXCEPT !.last = scan[s].to].pc = "idle"
  BY <1>2, EmptyBook DEF Idle, Scan
<1>4. /\ scan' \in [Servers -> Scan] /\ scan'[s].pc = "idle"
      /\ \A t \in Servers \ {s} : scan'[t] = scan[t]
  BY <1>1, <1>2, <1>3
<1>5. DepthOf(s)' /\ BookOf(s)' /\ ScanOf(s)'
  BY <1>4, AtRest
<1>6. scan[s].from \in Nat /\ scan[s].to \in Nat /\ 1 <= scan[s].from /\ scan[s].to <= head
  BY <1>1, <1>2 DEF IInv, BookInv, BookOf, Scan
<1>7. covered' = [covered EXCEPT ![s] = @ \cup (scan[s].from .. scan[s].to)]
  BY <1>1 DEF Covered
<1>8. covered' \in [Servers -> SUBSET Nat]
  BY <1>2, <1>6, <1>7
<1>9. CoverInv'
  BY <1>1, <1>2, <1>6, <1>7 DEF IInv, CoverInv, chain
<1>10. \A x \in Txs : mined[x].at = 0
  <2>1. Addresses = {}
    BY DEF Addresses
  <2>2. \A x \in Txs : ~ Pays(x)
    BY <2>1, PaidFor DEF Pays
  <2> QED
    BY <2>2 DEF IInv, ChainInv
<1>11. NothingMissed'
  <2>1. \A t \in Servers : 0 \notin covered'[t]
    BY <1>9 DEF CoverInv
  <2> QED
    BY <1>1, <1>10, <2>1 DEF NothingMissed, chain
<1>12. \A x \in Txs : deposits[x] # <<>> => deposits'[x] # <<>>
  BY <1>1
<1> QED
  BY <1>1, <1>4, <1>5, <1>8, <1>9, <1>11, <1>12, ScanStep, RowsKept

\* Addresses that are read now include those that were paid before.
LEMMA FindWallets ==
  ASSUME IInv, NEW s \in Servers, ReadWallets(s), wallets # {}
  PROVE  IInv'
<1>1. /\ scan[s].pc = "wallets" /\ covered' = covered /\ UNCHANGED <<chain, desk>> /\ deposits' = deposits
  BY DEF ReadWallets, Step, Still
<1>2. PICK owner \in [Addresses -> Tenants] :
        /\ \A i \in Addresses : \E w \in wallets : w.tenant = owner[i] /\ Address(w.index) = i
        /\ scan' = [scan EXCEPT ![s] = [scan[s] EXCEPT !.pc = "query", !.wallet = owner]]
  BY DEF ReadWallets, Step
<1>3. scan \in [Servers -> Scan] /\ scan[s] \in Scan /\ wallets \subseteq [tenant : Tenants, index : Nat]
  BY DEF IInv, TypeInv
<1>4. owner \in Books /\ DOMAIN owner = Addresses
  BY AddressesAreNumbers DEF Books, IInv
<1>5. /\ scan' \in [Servers -> Scan] /\ \A t \in Servers \ {s} : scan'[t] = scan[t]
      /\ scan'[s].pc = "query" /\ scan'[s].wallet = owner
      /\ scan'[s].from = scan[s].from /\ scan'[s].to = scan[s].to
  BY <1>2, <1>3, <1>4 DEF Scan
<1>6. \A i \in Addresses : [tenant |-> owner[i], index |-> i] \in wallets
  <2> SUFFICES ASSUME NEW i \in Addresses PROVE [tenant |-> owner[i], index |-> i] \in wallets
    OBVIOUS
  <2>1. PICK w \in wallets : w.tenant = owner[i] /\ w.index = i
    BY <1>2 DEF Address
  <2>2. w = [tenant |-> w.tenant, index |-> w.index]
    BY <1>3
  <2> QED
    BY <2>1, <2>2
<1>7. \A x \in Txs \ displaced : Inside(x, s)' => Known(x, s)'
  <2> SUFFICES ASSUME NEW x \in Txs, Inside(x, s)' PROVE Known(x, s)'
    OBVIOUS
  <2>1. Inside(x, s)
    BY <1>1, <1>5 DEF Inside, chain
  <2>2. mined[x].pays \in [Logs[x] -> Addresses]
    BY <1>1, <2>1, InsideIsMined DEF Pays
  <2> QED
    BY <1>1, <1>4, <1>5, <2>2 DEF Known, chain
<1>8. BookOf(s)'
  <2>1. 1 <= scan[s].from /\ scan[s].to <= head
    BY <1>1 DEF IInv, BookInv, BookOf
  <2> QED
    BY <1>1, <1>4, <1>5, <1>6, <1>7, <2>1 DEF BookOf, chain, desk
<1>9. DepthOf(s)' /\ ScanOf(s)'
  BY <1>5 DEF DepthOf, ScanOf
<1>10. \A x \in Txs : deposits[x] # <<>> => deposits'[x] # <<>>
  BY <1>1
<1> QED
  BY <1>1, <1>5, <1>8, <1>9, <1>10, ScanStep, NoneCovered, RowsKept

LEMMA QueryStep == ASSUME IInv, NEW s \in Servers, Query(s) PROVE IInv'
<1>1. PICK coin \in 1 .. Coins :
        /\ \/ scan[s].pc = "query" /\ coin = 1
           \/ scan[s].pc = "upsert" /\ scan[s].todo = {} /\ coin = scan[s].coin + 1
        /\ scan' = [scan EXCEPT ![s].pc = "upsert", ![s].coin = coin,
             ![s].todo = {x \in Txs : /\ mined[x].at \in scan[s].from .. scan[s].to /\ coin \in Logs[x]
                                      /\ mined[x].pays[coin] \in DOMAIN scan[s].wallet}]
  BY DEF Query
<1>2. covered' = covered /\ UNCHANGED <<chain, desk>> /\ deposits' = deposits
  BY DEF Query, Still
<1>3. scan \in [Servers -> Scan] /\ scan[s] \in Scan /\ coin \in Nat
  BY <1>1, Constants DEF IInv, TypeInv
<1>4. /\ scan' \in [Servers -> Scan] /\ \A t \in Servers \ {s} : scan'[t] = scan[t]
      /\ scan'[s].pc = "upsert" /\ scan'[s].coin = coin /\ scan'[s].wallet = scan[s].wallet
      /\ scan'[s].from = scan[s].from /\ scan'[s].to = scan[s].to
      /\ scan'[s].todo = {x \in Txs : /\ Inside(x, s) /\ coin \in Logs[x]
                                      /\ mined[x].pays[coin] \in DOMAIN scan[s].wallet}
  BY <1>1, <1>3 DEF Scan, Inside
<1>5. \A x \in Txs : Inside(x, s)' <=> Inside(x, s)
  BY <1>2, <1>4 DEF Inside, chain
<1>6. BookOf(s) /\ Reading(s)
  BY <1>1 DEF IInv, BookInv, Reading
<1>7. BookOf(s)'
  BY <1>2, <1>4, <1>5, <1>6 DEF BookOf, Reading, Known, chain, desk
<1>8. ScanOf(s)'
  <2>1. 1 <= coin /\ coin <= Coins
    BY <1>1, Constants
  <2>2. \A x \in scan'[s].todo : Pays(x)' /\ coin \in Logs[x] /\ mined'[x].pays[coin] \in DOMAIN scan[s].wallet
    <3> SUFFICES ASSUME NEW x \in scan'[s].todo
                 PROVE  Pays(x)' /\ coin \in Logs[x] /\ mined'[x].pays[coin] \in DOMAIN scan[s].wallet
      OBVIOUS
    <3>1. x \in Txs /\ Inside(x, s) /\ coin \in Logs[x] /\ mined[x].pays[coin] \in DOMAIN scan[s].wallet
      BY <1>4
    <3>2. Pays(x)
      BY <1>6, <3>1, InsideIsMined DEF Reading
    <3> QED
      BY <1>2, <3>1, <3>2 DEF Pays, Addresses, chain, desk
  <2>3. ASSUME NEW x \in Txs \ displaced, NEW c \in Logs[x], Inside(x, s), c <= coin
        PROVE  deposits[x] # <<>> \/ (c = coin /\ x \in scan'[s].todo)
    <3>1. c \in Nat /\ 1 <= c
      BY Constants
    <3>2. CASE c = coin
      <4>1. mined[x].pays[c] \in DOMAIN scan[s].wallet
        BY <1>6, <2>3 DEF BookOf, Known
      <4> QED
        BY <1>4, <2>3, <3>2, <4>1
    <3>3. CASE c # coin
      <4>1. scan[s].pc = "upsert" /\ scan[s].todo = {} /\ coin = scan[s].coin + 1
        BY <1>1, <1>3, <2>3, <3>1, <3>3
      <4>2. c <= scan[s].coin
        BY <1>3, <2>3, <3>1, <3>3, <4>1 DEF Scan
      <4> QED
        BY <2>3, <4>1, <4>2 DEF IInv, ScanInv, ScanOf
    <3> QED
      BY <3>2, <3>3
  <2> QED
    BY <1>2, <1>4, <1>5, <2>1, <2>2, <2>3 DEF ScanOf, chain
<1>9. DepthOf(s)'
  BY <1>4 DEF DepthOf
<1>10. \A x \in Txs : deposits[x] # <<>> => deposits'[x] # <<>>
  BY <1>2
<1> QED
  BY <1>2, <1>4, <1>7, <1>8, <1>9, <1>10, ScanStep, NoneCovered, RowsKept

\* The first of a transaction's events makes its row, for whom the scan knows by
\* the address; the others find it there.
LEMMA UpsertStep == ASSUME IInv, NEW s \in Servers, UpsertDeposit(s) PROVE IInv'
<1>1. PICK x \in scan[s].todo :
        /\ scan[s].pc = "upsert" /\ scan' = [scan EXCEPT ![s] = [scan[s] EXCEPT !.todo = @ \ {x}]]
        /\ deposits' = [deposits EXCEPT ![x] = IF @ # <<>> THEN @ ELSE
              <<[tenant |-> scan[s].wallet[mined[x].pays[scan[s].coin]],
                 coin |-> scan[s].coin, status |-> "PENDING"]>>]
  BY DEF UpsertDeposit, Step
<1>2. covered' = covered /\ UNCHANGED <<chain, desk>>
  BY DEF UpsertDeposit, Still
<1>3. scan \in [Servers -> Scan] /\ scan[s] \in Scan /\ deposits \in [Txs -> Stored] /\ x \in Txs
  BY <1>1 DEF IInv, TypeInv, Scan
<1>4. /\ scan' \in [Servers -> Scan] /\ \A t \in Servers \ {s} : scan'[t] = scan[t]
      /\ scan'[s].pc = "upsert" /\ scan'[s].coin = scan[s].coin /\ scan'[s].wallet = scan[s].wallet
      /\ scan'[s].from = scan[s].from /\ scan'[s].to = scan[s].to
      /\ scan'[s].todo = scan[s].todo \ {x}
  BY <1>1, <1>3 DEF Scan
<1> DEFINE to  == mined[x].pays[scan[s].coin]
           row == [tenant |-> scan[s].wallet[to], coin |-> scan[s].coin, status |-> "PENDING"]
<1>5. /\ Pays(x) /\ scan[s].coin \in Logs[x] /\ to \in DOMAIN scan[s].wallet
      /\ [tenant |-> scan[s].wallet[to], index |-> to] \in wallets
  BY <1>1 DEF IInv, ScanInv, ScanOf, BookInv, BookOf, Reading
<1>6. row \in DepositRow
  <2>1. scan[s].wallet[to] \in Tenants
    BY <1>3, <1>5, BookEntry DEF Scan
  <2>2. scan[s].coin \in 1 .. Coins
    BY <1>3, <1>5, Constants
  <2> QED
    BY <2>1, <2>2 DEF DepositRow
<1>7. <<row>> \in Stored /\ <<row>> # <<>> /\ <<row>>[1] = row
  BY <1>6 DEF Stored
<1>8. /\ deposits' \in [Txs -> Stored] /\ deposits'[x] # <<>>
      /\ \A y \in Txs : deposits[y] # <<>> => deposits'[y] = deposits[y]
      /\ \A y \in Txs \ {x} : deposits'[y] = deposits[y]
      /\ deposits[x] = <<>> => deposits'[x] = <<row>>
  BY <1>1, <1>3, <1>7
<1> HIDE DEF row
<1>9. RowInv'
  <2> SUFFICES ASSUME NEW y \in Txs, deposits'[y] # <<>>
               PROVE  LET d == deposits'[y][1] IN
                        /\ Pays(y) /\ d.coin \in Logs[y]
                        /\ [tenant |-> d.tenant, index |-> mined[y].pays[d.coin]] \in wallets
                        /\ d.status = "CONFIRMED" => Final(y)
    BY <1>2 DEF RowInv, Pays, Addresses, Final, chain, desk
  <2>1. CASE deposits[y] # <<>>
    BY <1>8, <2>1 DEF IInv, RowInv
  <2>2. CASE deposits[y] = <<>>
    <3>1. y = x /\ deposits'[y][1] = row
      BY <1>7, <1>8, <2>2
    <3>2. row.tenant = scan[s].wallet[to] /\ row.coin = scan[s].coin /\ row.status = "PENDING"
      BY DEF row
    <3> QED
      BY <1>5, <3>1, <3>2
  <2> QED
    BY <2>1, <2>2
<1>10. \A y \in Txs : Inside(y, s)' <=> Inside(y, s)
  BY <1>2, <1>4 DEF Inside, chain
<1>11. BookOf(s)'
  <2>1. BookOf(s) /\ Reading(s)
    BY <1>1 DEF IInv, BookInv, Reading
  <2> QED
    BY <1>2, <1>4, <1>10, <2>1 DEF BookOf, Reading, Known, chain, desk
<1>12. ScanOf(s)'
  <2>1. ScanOf(s) /\ scan[s].todo \subseteq Txs
    BY <1>3 DEF IInv, ScanInv, Scan
  <2>2. \A y \in Txs : Pays(y)' <=> Pays(y)
    BY <1>2 DEF Pays, Addresses, chain, desk
  <2> QED
    BY <1>1, <1>2, <1>4, <1>8, <1>10, <2>1, <2>2 DEF ScanOf, chain
<1>13. DepthOf(s)'
  BY <1>4 DEF DepthOf
<1>14. \A y \in Txs : deposits[y] # <<>> => deposits'[y] # <<>>
  BY <1>8
<1> QED
  BY <1>2, <1>4, <1>8, <1>9, <1>11, <1>12, <1>13, <1>14, ScanStep, NoneCovered

\* Every coin was asked for, so that every transaction in the range has its row.
LEMMA NoteStep == ASSUME IInv, NEW s \in Servers, NoteScanned(s) PROVE IInv'
<1>1. /\ scan[s].pc = "upsert" /\ scan[s].todo = {} /\ scan[s].coin = Coins
      /\ scan' = [scan EXCEPT ![s] = Left(scan[s].to, Pending)]
      /\ covered' = [covered EXCEPT ![s] = @ \cup (scan[s].from .. scan[s].to)]
      /\ UNCHANGED <<chain, desk>> /\ deposits' = deposits
  BY DEF NoteScanned, Step, Still, Covered
<1>2. /\ scan \in [Servers -> Scan] /\ scan[s] \in Scan /\ head \in Nat
      /\ covered \in [Servers -> SUBSET Nat] /\ scan[s].to \in Nat \cup {None} /\ Pending \in SUBSET Txs
  BY DEF IInv, TypeInv, Scan, Pending
<1>3. Left(scan[s].to, Pending) \in Scan /\ Left(scan[s].to, Pending).pc \in {"idle", "receipt"}
  BY <1>2, LeftTyped
<1>4. /\ scan' \in [Servers -> Scan] /\ scan'[s].pc \in {"idle", "receipt"}
      /\ \A t \in Servers \ {s} : scan'[t] = scan[t]
  BY <1>1, <1>2, <1>3
<1>5. DepthOf(s)' /\ BookOf(s)' /\ ScanOf(s)'
  BY <1>4, AtRest
<1>6. scan[s].from \in Nat /\ scan[s].to \in Nat /\ 1 <= scan[s].from /\ scan[s].to <= head
  BY <1>1, <1>2 DEF IInv, BookInv, BookOf, Scan
<1>7. covered' \in [Servers -> SUBSET Nat] /\ CoverInv'
  BY <1>1, <1>2, <1>6 DEF IInv, CoverInv, chain
<1>8. \A x \in Txs \ displaced : Inside(x, s) => deposits[x] # <<>>
  <2> SUFFICES ASSUME NEW x \in Txs \ displaced, Inside(x, s) PROVE deposits[x] # <<>>
    OBVIOUS
  <2>1. PICK c \in Logs[x] : c \in 1 .. Coins
    BY Constants
  <2>2. c <= scan[s].coin
    BY <1>1, <2>1, Constants
  <2> QED
    BY <1>1, <2>2 DEF IInv, ScanInv, ScanOf
<1>9. NothingMissed'
  <2> SUFFICES ASSUME NEW t \in Servers, NEW x \in Txs, mined[x].at \in covered'[t], x \notin displaced
               PROVE  deposits[x] # <<>>
    BY <1>1 DEF NothingMissed, chain
  <2>1. CASE mined[x].at \in covered[t]
    BY <2>1 DEF IInv, NothingMissed
  <2>2. CASE mined[x].at \notin covered[t]
    <3>1. t = s /\ mined[x].at \in scan[s].from .. scan[s].to
      BY <1>1, <1>2, <2>2
    <3> QED
      BY <1>8, <3>1 DEF Inside
  <2> QED
    BY <2>1, <2>2
<1>10. \A x \in Txs : deposits[x] # <<>> => deposits'[x] # <<>>
  BY <1>1
<1> QED
  BY <1>1, <1>4, <1>5, <1>7, <1>9, <1>10, ScanStep, RowsKept

\* A receipt that is read names the transaction's block.
LEMMA ReceiptStep == ASSUME IInv, NEW s \in Servers, ReadReceipt(s) PROVE IInv'
<1>1. PICK x \in scan[s].todo :
        /\ scan[s].pc = "receipt"
        /\ scan' = [scan EXCEPT ![s] =
             IF mined[x].at = 0 THEN Left(scan[s].last, scan[s].todo \ {x})
             ELSE [scan[s] EXCEPT !.pc = "depth", !.todo = @ \ {x}, !.tx = x, !.at = mined[x].at,
                                  !.grown = 0]]
  BY DEF ReadReceipt, Step
<1>2. covered' = covered /\ UNCHANGED <<chain, desk>> /\ deposits' = deposits
  BY DEF ReadReceipt, Still
<1>3. /\ scan \in [Servers -> Scan] /\ scan[s] \in Scan /\ x \in Txs /\ head \in Nat
      /\ mined \in [Txs -> [at : Nat, pays : Payments]]
      /\ scan[s].last \in Nat \cup {None} /\ scan[s].todo \ {x} \in SUBSET Txs
  BY <1>1 DEF IInv, TypeInv, Scan
<1>4. \A x1 \in Txs : deposits[x1] # <<>> => deposits'[x1] # <<>>
  BY <1>2
<1>5. CASE mined[x].at = 0
  <2>1. /\ scan' \in [Servers -> Scan] /\ scan'[s].pc \in {"idle", "receipt"}
        /\ \A t \in Servers \ {s} : scan'[t] = scan[t]
    BY <1>1, <1>3, <1>5, LeftTyped
  <2>2. DepthOf(s)' /\ BookOf(s)' /\ ScanOf(s)'
    BY <2>1, AtRest
  <2> QED
    BY <1>2, <1>4, <2>1, <2>2, ScanStep, NoneCovered, RowsKept
<1>6. CASE mined[x].at # 0
  <2>1. /\ scan' \in [Servers -> Scan] /\ \A t \in Servers \ {s} : scan'[t] = scan[t]
        /\ scan'[s].pc = "depth" /\ scan'[s].tx = x /\ scan'[s].at = mined[x].at /\ scan'[s].grown = 0
    BY <1>1, <1>3, <1>6 DEF Scan
  <2>2. mined[x].at \in Nat /\ mined[x].at <= head
    BY <1>3 DEF IInv, ChainInv
  <2>3. DepthOf(s)'
    BY <1>2, <1>3, <1>6, <2>1, <2>2, Constants DEF DepthOf, chain
  <2>4. BookOf(s)' /\ ScanOf(s)'
    BY <2>1 DEF BookOf, ScanOf, Reading
  <2> QED
    BY <1>2, <1>4, <2>1, <2>3, <2>4, ScanStep, NoneCovered, RowsKept
<1> QED
  BY <1>5, <1>6

\* A transaction that is found deep enough has not left its block: it would have
\* been too shallow for the blocks that came since to make it deep.
LEMMA DeepIsFinal ==
  ASSUME IInv, NEW s \in Servers, scan[s].pc = "depth", Deep(s)
  PROVE  Final(scan[s].tx)
<1>1. /\ scan[s].at \in Nat /\ scan[s].grown \in Nat /\ head \in Nat
      /\ Required \in Nat /\ MaxReorg \in Nat
  BY Constants DEF IInv, TypeInv, Scan
<1>2. /\ scan[s].grown <= Required - MaxReorg /\ 0 < scan[s].at /\ head - scan[s].at >= Required
      /\ \/ mined[scan[s].tx].at = scan[s].at
         \/ (head - scan[s].grown) - scan[s].at < MaxReorg
  BY DEF IInv, DepthInv, DepthOf, Deep
<1>3. mined[scan[s].tx].at = scan[s].at
  BY <1>1, <1>2
<1> QED
  BY <1>1, <1>2, <1>3 DEF Final

LEMMA ConfirmStep == ASSUME IInv, NEW s \in Servers, Confirm(s) PROVE IInv'
<1>1. /\ scan[s].pc = "depth" /\ scan' = [scan EXCEPT ![s] = Left(scan[s].last, scan[s].todo)]
      /\ covered' = covered /\ UNCHANGED <<chain, desk>>
      /\ deposits' = IF Deep(s)
                     THEN [deposits EXCEPT ![scan[s].tx] =
                            [i \in DOMAIN @ |-> [@[i] EXCEPT !.status = "CONFIRMED"]]]
                     ELSE deposits
  BY DEF Confirm, Step, Still
<1>2. /\ scan \in [Servers -> Scan] /\ scan[s].last \in Nat \cup {None} /\ scan[s].todo \in SUBSET Txs
      /\ deposits \in [Txs -> Stored] /\ scan[s].tx \in Txs
  BY <1>1 DEF IInv, TypeInv, Scan, DepthInv, DepthOf
<1>3. /\ scan' \in [Servers -> Scan] /\ scan'[s].pc \in {"idle", "receipt"}
      /\ \A t \in Servers \ {s} : scan'[t] = scan[t]
  BY <1>1, <1>2, LeftTyped
<1>4. DepthOf(s)' /\ BookOf(s)' /\ ScanOf(s)'
  BY <1>3, AtRest
<1>5. CASE ~ Deep(s)
  <2>1. deposits' = deposits
    BY <1>1, <1>5
  <2> QED
    BY <1>1, <1>3, <1>4, <2>1, ScanStep, NoneCovered, RowsKept
<1>6. CASE Deep(s)
  <2> DEFINE d == deposits[scan[s].tx]
             e == [i \in DOMAIN d |-> [d[i] EXCEPT !.status = "CONFIRMED"]]
  <2>1. deposits' = [deposits EXCEPT ![scan[s].tx] = e]
    BY <1>1, <1>6
  <2>2. /\ e \in Stored /\ (e = <<>> <=> d = <<>>)
        /\ d # <<>> => e[1] = [d[1] EXCEPT !.status = "CONFIRMED"]
    BY <1>2, ConfirmedRow
  <2> HIDE DEF e
  <2>3. /\ deposits' \in [Txs -> Stored] /\ deposits'[scan[s].tx] = e
        /\ \A y \in Txs \ {scan[s].tx} : deposits'[y] = deposits[y]
    BY <1>2, <2>1, <2>2
  <2>4. \A y \in Txs : deposits[y] # <<>> => deposits'[y] # <<>>
    BY <2>2, <2>3
  <2>5. RowInv'
    <3>0. mined' = mined /\ head' = head /\ wallets' = wallets
      BY <1>1 DEF chain, desk
    <3> SUFFICES ASSUME NEW y \in Txs, deposits'[y] # <<>>
                 PROVE  LET row == deposits'[y][1] IN
                          /\ Pays(y) /\ row.coin \in Logs[y]
                          /\ [tenant |-> row.tenant, index |-> mined[y].pays[row.coin]] \in wallets
                          /\ row.status = "CONFIRMED" => Final(y)
      BY <3>0 DEF RowInv, Pays, Addresses, Final
    <3>1. CASE y # scan[s].tx
      BY <2>3, <3>1 DEF IInv, RowInv
    <3>2. CASE y = scan[s].tx
      <4>1. d # <<>> /\ d[1] \in DepositRow
        BY <1>2, <2>2, <2>3, <3>2, RowOf
      <4>2. e[1].tenant = d[1].tenant /\ e[1].coin = d[1].coin
        BY <2>2, <4>1 DEF DepositRow
      <4>3. Final(y)
        BY <1>1, <1>6, <3>2, DeepIsFinal
      <4>4. /\ Pays(y) /\ d[1].coin \in Logs[y]
            /\ [tenant |-> d[1].tenant, index |-> mined[y].pays[d[1].coin]] \in wallets
        BY <3>2, <4>1 DEF IInv, RowInv
      <4> QED
        BY <2>3, <3>2, <4>2, <4>3, <4>4
    <3> QED
      BY <3>1, <3>2
  <2> QED
    BY <1>1, <1>3, <1>4, <2>3, <2>4, <2>5, ScanStep, NoneCovered
<1> QED
  BY <1>5, <1>6

LEMMA FailStep == ASSUME IInv, NEW s \in Servers, Fail(s) PROVE IInv'
<1>1. /\ UNCHANGED <<chain, desk>> /\ deposits' = deposits /\ covered' = covered
      /\ \/ scan' = [scan EXCEPT ![s] = [Idle EXCEPT !.last = scan[s].last]]
         \/ scan' = [scan EXCEPT ![s] = Idle]
  BY DEF Fail
<1>2. scan \in [Servers -> Scan] /\ scan[s] \in Scan
  BY DEF IInv, TypeInv
<1>3. /\ Idle \in Scan /\ Idle.pc = "idle"
      /\ [Idle EXCEPT !.last = scan[s].last] \in Scan /\ [Idle EXCEPT !.last = scan[s].last].pc = "idle"
  BY <1>2, EmptyBook DEF Idle, Scan
<1>4. /\ scan' \in [Servers -> Scan] /\ scan'[s].pc = "idle"
      /\ \A t \in Servers \ {s} : scan'[t] = scan[t]
  BY <1>1, <1>2, <1>3
<1>5. DepthOf(s)' /\ BookOf(s)' /\ ScanOf(s)'
  BY <1>4, AtRest
<1>6. \A x \in Txs : deposits[x] # <<>> => deposits'[x] # <<>>
  BY <1>1
<1> QED
  BY <1>1, <1>4, <1>5, <1>6, ScanStep, NoneCovered, RowsKept
-----------------------------------------------------------------------------
(* Theorems *)

LEMMA Initially == Init => IInv
<1> SUFFICES ASSUME Init PROVE IInv
  OBVIOUS
<1>1. TypeInv
  <2>1. <<>> \in Payments /\ <<>> \in Stored
    BY DEF Payments, Stored
  <2>2. Idle \in Scan
    BY EmptyBook DEF Idle, Scan
  <2>3. wallets \subseteq [tenant : Tenants, index : Nat]
    BY DepositsAssumption DEF Init
  <2> QED
    BY <2>1, <2>2, <2>3 DEF Init, TypeInv, Quiet
<1>2. \A s \in Servers : scan[s].pc = "idle" /\ covered[s] = {}
  BY DEF Init, Idle
<1>3. ChainInv /\ RowInv /\ CoverInv /\ NothingMissed
  BY <1>2 DEF Init, ChainInv, RowInv, CoverInv, NothingMissed
<1>4. DepthInv /\ BookInv /\ ScanInv
  BY <1>2 DEF DepthInv, DepthOf, BookInv, BookOf, ScanInv, ScanOf, Reading
<1> QED
  BY <1>1, <1>3, <1>4 DEF IInv

LEMMA Inductive == IInv /\ [Next]_vars => IInv'
<1> SUFFICES ASSUME IInv, [Next]_vars PROVE IInv'
  OBVIOUS
<1>1. CASE UNCHANGED vars
  BY <1>1 DEF vars, IInv, TypeInv, ChainInv, RowInv, DepthInv, DepthOf, BookInv, BookOf, ScanInv, ScanOf,
     CoverInv, NothingMissed, Pays, Addresses, Final, Reading, Inside, Known
<1>2. CASE Mine \/ Reorganise
  BY <1>2, MineStep, ReorganiseStep
<1>3. CASE \E a \in Asks : Ask(a) \/ NextIndex(a) \/ CreateWallet(a)
  BY <1>3, AskSteps, CreateWalletStep
<1>4. ASSUME NEW s \in Servers, Begin(s) \/ ReadWallets(s) \/ Query(s) \/ UpsertDeposit(s)
      PROVE  IInv'
  BY <1>4, BeginStep, NoWallets, FindWallets, QueryStep, UpsertStep
<1>5. ASSUME NEW s \in Servers, NoteScanned(s) \/ ReadReceipt(s) \/ Confirm(s) \/ Fail(s)
      PROVE  IInv'
  BY <1>5, NoteStep, ReceiptStep, ConfirmStep, FailStep
<1> QED
  BY <1>1, <1>2, <1>3, <1>4, <1>5 DEF Next

\* The invariant the others follow from.
THEOREM Invariance == Spec => []IInv
<1> QED
  BY Initially, Inductive, PTL DEF Spec

\* NothingMissed for any number of servers, blocks, failures and restarts: a block
\* that an observer notes as scanned (lastScannedBlock) holds no transfer to a
\* deposit address whose transaction has no Deposit row.
THEOREM NoDepositMissed == Spec => []NothingMissed
<1>1. IInv => NothingMissed
  BY DEF IInv
<1> QED
  BY <1>1, Invariance, PTL

LEMMA RowsAreFunded ==
  ASSUME IInv, NEW t \in Tenants, NEW r \in Rows(t)
  PROVE  /\ Final(r[1]) /\ r[2] = 1
         /\ [tenant |-> t, index |-> mined[r[1]].pays[deposits[r[1]][r[2]].coin]] \in wallets
<1>1. /\ r[1] \in Txs /\ r[2] \in DOMAIN deposits[r[1]]
      /\ deposits[r[1]][r[2]].tenant = t /\ deposits[r[1]][r[2]].status = "CONFIRMED"
  BY DEF Rows
<1>2. deposits[r[1]] \in Stored
  BY <1>1 DEF IInv, TypeInv
<1>3. deposits[r[1]] # <<>> /\ r[2] = 1
  BY <1>1, <1>2, RowOf
<1> QED
  BY <1>1, <1>3 DEF IInv, RowInv

\* BalancesAreFunded for any number of tenants, servers and coins, as long as the
\* chain replaces no more than MaxReorg blocks and fewer than Required - MaxReorg + 1
\* appear between the two readings of checkConfirmationsForChain.
THEOREM BalancesFunded == Spec => []BalancesAreFunded
<1>1. ASSUME IInv PROVE BalancesAreFunded
  <2>1. \A x \in Txs : Cardinality({r \in UNION {Rows(t) : t \in Tenants} : r[1] = x}) <= 1
    <3> SUFFICES ASSUME NEW x \in Txs
                 PROVE  Cardinality({r \in UNION {Rows(t) : t \in Tenants} : r[1] = x}) <= 1
      OBVIOUS
    <3> DEFINE R == {r \in UNION {Rows(t) : t \in Tenants} : r[1] = x}
    <3>1. R \subseteq {<<x, 1>>}
      <4> SUFFICES ASSUME NEW r \in R PROVE r = <<x, 1>>
        OBVIOUS
      <4>1. PICK t \in Tenants : r \in Rows(t)
        OBVIOUS
      <4>2. r \in Txs \X (1 .. Coins)
        BY <4>1 DEF Rows
      <4>3. r[2] = 1
        BY <1>1, <4>1, RowsAreFunded
      <4> QED
        BY <4>2, <4>3
    <3>2. IsFiniteSet({<<x, 1>>}) /\ Cardinality({<<x, 1>>}) = 1
      BY FS_Singleton
    <3> QED
      BY <3>1, <3>2, FS_Subset
  <2> QED
    BY <1>1, <2>1, RowsAreFunded DEF BalancesAreFunded
<1> QED
  BY <1>1, Invariance, PTL
-----------------------------------------------------------------------------
(* ChainAdapters *)

\* What a method still has to do: it waits for the last of its transactions, and says
\* nothing of it before that.
Steps == {"check", "sequence", "simulate", "submit", "wait", "confirmed", "approval", "call", "account", "poll",
          "confirm", "pending", "expected", "refuse"}
Without(s, step) == \A k \in 1 .. Len(s) : s[k] # step
Waits(s) == \E j \in 1 .. Len(s) : /\ s[j] \in {"wait", "poll"}
                                   /\ \A k \in 1 .. Len(s) : /\ k < j => s[k] # "confirmed"
                                                             /\ k > j => s[k] # "submit"

\* A call has its transaction still before it, or knows that it succeeded; the one
\* that settles an escrow is about that escrow.
Reporting(x) ==
  /\ x.todo \in Seq(Steps)
  /\ x.op # "receive" => Waits(x.todo) \/ (Adapting!Took(x.tx) /\ Without(x.todo, "submit"))
  /\ x.op = "receive" => Without(x.todo, "confirmed")
  /\ x.op \in {"release", "cancel"} =>
       /\ x.sends = x.op /\ Without(x.todo, "approval")
       /\ Without(x.todo, "submit") => x.tx.op = x.op /\ x.tx.e = x.e
Submitting(x) ==
  /\ x = [op |-> x.op, e |-> x.e, sends |-> x.sends, todo |-> x.todo, seq |-> x.seq, tx |-> x.tx, n |-> x.n]
  /\ x.op \in Adapting!Ops /\ x.e \in Escrows
  /\ Adapting!Waiting => Reporting(x)

\* What is on record was mined; what settled an escrow was the only one to, and the
\* contract holds it as settled that way.
Outcome(op) == IF op = "release" THEN "released" ELSE "cancelled"
Settling(m) == m.ok = TRUE /\ m.tx.op \in {"release", "cancel"}
SettledOnce ==
  /\ \A m \in included : Settling(m) => escrow[m.tx.e] = Outcome(m.tx.op)
  /\ \A m, k \in included : Settling(m) /\ Settling(k) /\ m.tx.e = k.tx.e => m.tx = k.tx
Reported ==
  /\ \A r \in rows : r.status = "CONFIRMED" => Adapting!Took(r.tx)
  /\ \A a \in answers : /\ a = [op |-> a.op, e |-> a.e, tx |-> a.tx]
                        /\ a.op # "receive" => Adapting!Took(a.tx)
                        /\ a.op \in {"release", "cancel"} => a.tx.op = a.op /\ a.tx.e = a.e
ReportInv ==
  /\ call = [c \in Calls |-> call[c]]
  /\ \A c \in Calls : call[c] # None => Submitting(call[c])
  /\ escrow = [e \in Escrows |-> escrow[e]]
  /\ \A tx \in pool : tx.e \in Escrows
  /\ \A m \in included : m.tx.e \in Escrows
  /\ Adapting!Waiting => SettledOnce /\ Reported

\* The methods of the ledgers that wait.
LEMMA Methods ==
  ASSUME Adapting!Waiting, NEW op \in Adapting!Ops, NEW s, s = Adapting!Method(op)
  PROVE  /\ s \in Seq(Steps)
         /\ op # "receive" => Waits(s)
         /\ op = "receive" => Without(s, "confirmed")
         /\ op \in {"release", "cancel"} => Without(s, "approval") /\ ~ Without(s, "submit")
<1> USE DEF Waits, Without
<1>1. /\ Adapting!EvmSubmit = <<"sequence", "simulate", "submit", "wait">>
      /\ Adapting!Approve = <<"approval", "sequence", "simulate", "submit", "wait", "call">>
      /\ Adapting!SorobanSubmit = <<"account", "simulate", "submit", "poll">>
  BY DEF Adapting!EvmSubmit, Adapting!Approve, Adapting!SorobanSubmit
<1>s. /\ Adapting!EvmSubmit \in Seq(Steps) /\ Adapting!Approve \in Seq(Steps) /\ Adapting!SorobanSubmit \in Seq(Steps)
      /\ <<"check">> \in Seq(Steps) /\ <<"confirmed">> \in Seq(Steps) /\ <<"expected">> \in Seq(Steps)
      /\ <<"check", "account", "submit", "poll", "confirmed">> \in Seq(Steps)
  BY <1>1 DEF Steps
<1>2. ASSUME s = <<"check">> \o Adapting!EvmSubmit \o <<"confirmed">>
      PROVE  s \in Seq(Steps) /\ Waits(s) /\ Without(s, "approval") /\ ~ Without(s, "submit")
  <2>1. Len(s) = 6 /\ s[5] = "wait" /\ s[4] = "submit"
        /\ \A k \in 1 .. 6 : /\ s[k] # "approval" /\ (k < 5 => s[k] # "confirmed") /\ (k > 5 => s[k] # "submit")
    BY <1>1, <1>2
  <2>2. s \in Seq(Steps)
    BY <1>s, <1>2
  <2> QED
    BY <2>1, <2>2
<1>3. ASSUME s = Adapting!EvmSubmit \o <<"confirmed">>
      PROVE  s \in Seq(Steps) /\ Waits(s) /\ Without(s, "approval") /\ ~ Without(s, "submit")
  <2>1. Len(s) = 5 /\ s[4] = "wait" /\ s[3] = "submit"
        /\ \A k \in 1 .. 5 : /\ s[k] # "approval" /\ (k < 4 => s[k] # "confirmed") /\ (k > 4 => s[k] # "submit")
    BY <1>1, <1>3
  <2>2. s \in Seq(Steps)
    BY <1>s, <1>3
  <2> QED
    BY <2>1, <2>2
<1>4. ASSUME s = <<"check">> \o Adapting!Approve \o Adapting!EvmSubmit \o <<"confirmed">>
      PROVE  s \in Seq(Steps) /\ Waits(s)
  <2>1. Len(s) = 12 /\ s[11] = "wait"
        /\ \A k \in 1 .. 12 : (k < 11 => s[k] # "confirmed") /\ (k > 11 => s[k] # "submit")
    BY <1>1, <1>4
  <2>2. s \in Seq(Steps)
    BY <1>s, <1>4
  <2> QED
    BY <2>1, <2>2
<1>5. ASSUME s = <<"check">> \o Adapting!SorobanSubmit \o <<"confirmed">>
      PROVE  s \in Seq(Steps) /\ Waits(s)
  <2>1. Len(s) = 6 /\ s[5] = "poll"
        /\ \A k \in 1 .. 6 : (k < 5 => s[k] # "confirmed") /\ (k > 5 => s[k] # "submit")
    BY <1>1, <1>5
  <2>2. s \in Seq(Steps)
    BY <1>s, <1>5
  <2> QED
    BY <2>1, <2>2
<1>6. ASSUME s = Adapting!SorobanSubmit \o <<"confirmed">>
      PROVE  s \in Seq(Steps) /\ Waits(s) /\ Without(s, "approval") /\ ~ Without(s, "submit")
  <2>1. Len(s) = 5 /\ s[4] = "poll" /\ s[3] = "submit"
        /\ \A k \in 1 .. 5 : /\ s[k] # "approval" /\ (k < 4 => s[k] # "confirmed") /\ (k > 4 => s[k] # "submit")
    BY <1>1, <1>6
  <2>2. s \in Seq(Steps)
    BY <1>s, <1>6
  <2> QED
    BY <2>1, <2>2
<1>7. ASSUME s = <<"check", "account", "submit", "poll", "confirmed">>
      PROVE  s \in Seq(Steps) /\ Waits(s)
  <2>1. Len(s) = 5 /\ s[4] = "poll"
        /\ \A k \in 1 .. 5 : (k < 4 => s[k] # "confirmed") /\ (k > 4 => s[k] # "submit")
    BY <1>7
  <2>2. s \in Seq(Steps)
    BY <1>s, <1>7
  <2> QED
    BY <2>1, <2>2
<1>8. ASSUME s = <<"expected">>
      PROVE  s \in Seq(Steps) /\ Without(s, "confirmed")
  BY <1>s, <1>8
<1>9. ledger \in {"ETHEREUM", "POLYGON", "STELLAR"}
  BY DEF Adapting!Waiting, Adapting!Ordered, Adapting!Evm
<1>10. /\ op \in {"create", "createToken", "release", "cancel", "anchor", "send", "receive"}
       /\ op \in {"create", "createToken", "release", "cancel"} => s = Adapting!Adapter[ledger][op]
       /\ op = "anchor" => s = Adapting!Anchor[ledger]
       /\ op = "send" => s = Adapting!Send[ledger]
       /\ op = "receive" => s = Adapting!Receive[ledger]
  BY DEF Adapting!Ops, Adapting!Transitions, Adapting!Method
<1> HIDE DEF Waits, Without
<1>11. CASE op = "receive"
  BY <1>8, <1>9, <1>10, <1>11
     DEF Adapting!Receive, Adapting!EthReceive, Adapting!PolygonReceive, Adapting!SorobanReceive
<1>12. CASE op = "send"
  BY <1>2, <1>7, <1>9, <1>10, <1>12
     DEF Adapting!Send, Adapting!EthSend, Adapting!PolygonSend, Adapting!SorobanSend
<1>13. CASE op = "anchor"
  BY <1>2, <1>5, <1>9, <1>10, <1>13
     DEF Adapting!Anchor, Adapting!EthAnchor, Adapting!PolygonAnchor, Adapting!SorobanAnchor
<1>14. CASE op \in {"create", "createToken", "release", "cancel"} /\ ledger = "ETHEREUM"
  BY <1>2, <1>3, <1>4, <1>10, <1>14 DEF Adapting!Adapter, Adapting!EthTransition,
     Adapting!EthCreate, Adapting!EthToken, Adapting!EthRelease, Adapting!EthCancel
<1>15. CASE op \in {"create", "createToken", "release", "cancel"} /\ ledger = "POLYGON"
  BY <1>2, <1>4, <1>10, <1>15 DEF Adapting!Adapter, Adapting!PolygonTransition,
     Adapting!PolygonCreate, Adapting!PolygonToken, Adapting!PolygonRelease, Adapting!PolygonCancel
<1>16. CASE op \in {"create", "createToken", "release", "cancel"} /\ ledger = "STELLAR"
  BY <1>5, <1>6, <1>10, <1>16 DEF Adapting!Adapter, Adapting!SorobanTransition,
     Adapting!SorobanCreate, Adapting!SorobanRelease, Adapting!SorobanCancel
<1> QED
  BY <1>9, <1>10, <1>11, <1>12, <1>13, <1>14, <1>15, <1>16

\* What was mined stays mined.
Grows == ledger' = ledger /\ included \subseteq included'

LEMMA TookStays == ASSUME Grows PROVE \A tx : Adapting!Took(tx) => Adapting!Took(tx)'
BY DEF Grows, Adapting!Took

LEMMA ReportingStays == ASSUME Grows, NEW x, Submitting(x) PROVE Submitting(x)'
<1>1. Adapting!Waiting <=> Adapting!Waiting'
  BY DEF Grows, Adapting!Waiting, Adapting!Ordered, Adapting!Evm
<1>2. Adapting!Took(x.tx) => Adapting!Took(x.tx)'
  BY TookStays
<1> QED
  BY <1>1, <1>2 DEF Submitting, Reporting, Adapting!Ops, Adapting!Transitions

\* One call goes on, and the contract does not.
LEMMA CallGoes ==
  ASSUME ReportInv, NEW c \in Calls, NEW y, call' = [call EXCEPT ![c] = y], y # None => Submitting(y),
         pool' \subseteq pool \cup {y.tx}, pool' \subseteq pool \/ y.tx.e \in Escrows,
         UNCHANGED <<ledger, included, escrow>>,
         Adapting!Waiting => Reported'
  PROVE  ReportInv'
<1>1. Grows
  BY DEF Grows
<1>2. call' = [d \in Calls |-> call'[d]] /\ \A d \in Calls : call'[d] = IF d = c THEN y ELSE call[d]
  BY DEF ReportInv
<1>3. ASSUME NEW d \in Calls, NEW x, x = call'[d], x # None PROVE Submitting(x)'
  <2>1. Submitting(x)
    BY <1>2, <1>3 DEF ReportInv
  <2> QED
    BY <1>1, <2>1, ReportingStays
<1>4. Adapting!Waiting <=> Adapting!Waiting'
  BY DEF Adapting!Waiting, Adapting!Ordered, Adapting!Evm
<1>5. SettledOnce => SettledOnce'
  BY DEF SettledOnce, Settling, Outcome
<1>6. \A tx \in pool' : tx.e \in Escrows
  BY DEF ReportInv
<1> QED
  BY <1>2, <1>3, <1>4, <1>5, <1>6 DEF ReportInv

\* What is said of what is left, when the first of the steps is done.
LEMMA Tails ==
  ASSUME NEW s \in Seq(Steps), s # <<>>, NEW t, t = Tail(s)
  PROVE  /\ t \in Seq(Steps)
         /\ \A w : Without(s, w) => Without(t, w)
         /\ Without(t, "submit") => Head(s) = "submit" \/ Without(s, "submit")
         /\ Waits(s) => Waits(t) \/ (Head(s) \in {"wait", "poll"} /\ Without(t, "submit"))
         /\ Head(s) = "approval" => ~ Without(s, "approval")
         /\ Head(s) = "confirmed" => ~ Waits(s) /\ ~ Without(s, "confirmed")
         /\ Head(s) = "submit" => ~ Without(s, "submit")
<1>1. /\ t \in Seq(Steps) /\ Len(s) \in Nat /\ Len(s) >= 1 /\ Len(t) = Len(s) - 1 /\ Head(s) = s[1]
      /\ \A k \in 1 .. Len(t) : t[k] = s[k + 1]
  OBVIOUS
<1>2. \A w : Without(s, w) => Without(t, w)
  BY <1>1 DEF Without
<1>3. Without(t, "submit") => Head(s) = "submit" \/ Without(s, "submit")
  <2> SUFFICES ASSUME Without(t, "submit"), Head(s) # "submit", NEW k \in 1 .. Len(s)
               PROVE s[k] # "submit"
    BY DEF Without
  <2>1. CASE k = 1
    BY <1>1, <2>1
  <2>2. CASE k # 1
    <3>1. PICK i \in 1 .. Len(t) : k = i + 1
      <4>1. Len(s) \in Nat /\ Len(t) = Len(s) - 1
        BY <1>1
      <4>2. k \in Nat /\ k >= 2 /\ k <= Len(s)
        BY <2>2, <4>1
      <4>3. k - 1 \in 1 .. Len(t) /\ k = (k - 1) + 1
        BY <4>1, <4>2
      <4> QED
        BY <4>3
    <3> QED
      BY <1>1, <3>1 DEF Without
  <2> QED
    BY <2>1, <2>2
<1>4. Waits(s) => Waits(t) \/ (Head(s) \in {"wait", "poll"} /\ Without(t, "submit"))
  <2> SUFFICES ASSUME Waits(s) PROVE Waits(t) \/ (Head(s) \in {"wait", "poll"} /\ Without(t, "submit"))
    OBVIOUS
  <2>1. PICK j \in 1 .. Len(s) : /\ s[j] \in {"wait", "poll"}
                                 /\ \A k \in 1 .. Len(s) : /\ k < j => s[k] # "confirmed"
                                                           /\ k > j => s[k] # "submit"
    BY DEF Waits
  <2>2. CASE j = 1
    BY <1>1, <2>1, <2>2 DEF Without
  <2>3. CASE j # 1
    <3>1. j - 1 \in 1 .. Len(t) /\ t[j - 1] = s[j]
      BY <1>1, <2>3
    <3>2. ASSUME NEW k \in 1 .. Len(t)
          PROVE (k < j - 1 => t[k] # "confirmed") /\ (k > j - 1 => t[k] # "submit")
      <4>1. k + 1 \in 1 .. Len(s) /\ t[k] = s[k + 1]
        BY <1>1
      <4> QED
        BY <2>1, <4>1
    <3> QED
      BY <2>1, <3>1, <3>2 DEF Waits
  <2> QED
    BY <2>2, <2>3
<1>5. Head(s) = "approval" => ~ Without(s, "approval")
  BY <1>1 DEF Without
<1>6. Head(s) = "confirmed" => ~ Waits(s) /\ ~ Without(s, "confirmed")
  BY <1>1 DEF Waits, Without
<1>7. Head(s) = "submit" => ~ Without(s, "submit")
  BY <1>1 DEF Without
<1> QED
  BY <1>1, <1>2, <1>3, <1>4, <1>5, <1>6, <1>7

\* The first of the steps that are left is done.
LEMMA StepDone ==
  ASSUME NEW x, Submitting(x), x.todo # <<>>, Head(x.todo) # "submit",
         Adapting!Waiting /\ Head(x.todo) \in {"wait", "poll"} => Adapting!Took(x.tx),
         NEW v, v = x.sends \/ v = x.op \/ Head(x.todo) = "approval", NEW q,
         NEW y, y = [op |-> x.op, e |-> x.e, sends |-> v, todo |-> Tail(x.todo), seq |-> q, tx |-> x.tx, n |-> x.n]
  PROVE  Submitting(y)
<1>a. y.op = x.op /\ y.e = x.e /\ y.todo = Tail(x.todo) /\ y.tx = x.tx /\ y.sends = v
      /\ y = [op |-> y.op, e |-> y.e, sends |-> y.sends, todo |-> y.todo, seq |-> y.seq, tx |-> y.tx, n |-> y.n]
  OBVIOUS
<1> SUFFICES ASSUME Adapting!Waiting PROVE Reporting(y)
  BY <1>a DEF Submitting
<1>1. PICK s \in Seq(Steps) : s = x.todo /\ s # <<>>
  BY DEF Submitting, Reporting
<1>2. PICK t : t = Tail(s)
  OBVIOUS
<1>3. /\ t \in Seq(Steps)
      /\ \A w : Without(s, w) => Without(t, w)
      /\ Without(t, "submit") => Head(s) = "submit" \/ Without(s, "submit")
      /\ Waits(s) => Waits(t) \/ (Head(s) \in {"wait", "poll"} /\ Without(t, "submit"))
      /\ Head(s) = "approval" => ~ Without(s, "approval")
  BY <1>1, <1>2, Tails
<1>8. y.todo = t
  BY <1>1, <1>2, <1>a
<1>9. Reporting(x)
  BY DEF Submitting
<1>10. y.op # "receive" => Waits(y.todo) \/ (Adapting!Took(y.tx) /\ Without(y.todo, "submit"))
  BY <1>1, <1>3, <1>8, <1>9, <1>a DEF Reporting
<1>11. y.op = "receive" => Without(y.todo, "confirmed")
  BY <1>1, <1>3, <1>8, <1>9, <1>a DEF Reporting
<1>12. y.op \in {"release", "cancel"} =>
         /\ y.sends = y.op /\ Without(y.todo, "approval")
         /\ Without(y.todo, "submit") => y.tx.op = y.op /\ y.tx.e = y.e
  BY <1>1, <1>3, <1>8, <1>9, <1>a DEF Reporting
<1> QED
  BY <1>3, <1>8, <1>10, <1>11, <1>12 DEF Reporting

\* Calls keep their shape.
Shape(x) == x = [op |-> x.op, e |-> x.e, sends |-> x.sends, todo |-> x.todo, seq |-> x.seq, tx |-> x.tx, n |-> x.n]

LEMMA Rewrites ==
  ASSUME NEW x, Shape(x), NEW v
  PROVE  /\ [x EXCEPT !.todo = v] = [op |-> x.op, e |-> x.e, sends |-> x.sends, todo |-> v, seq |-> x.seq, tx |-> x.tx, n |-> x.n]
         /\ [x EXCEPT !.sends = v] = [op |-> x.op, e |-> x.e, sends |-> v, todo |-> x.todo, seq |-> x.seq, tx |-> x.tx, n |-> x.n]
         /\ [x EXCEPT !.seq = v] = [op |-> x.op, e |-> x.e, sends |-> x.sends, todo |-> x.todo, seq |-> v, tx |-> x.tx, n |-> x.n]
         /\ [x EXCEPT !.tx = v] = [op |-> x.op, e |-> x.e, sends |-> x.sends, todo |-> x.todo, seq |-> x.seq, tx |-> v, n |-> x.n]
BY DEF Shape

\* Steps that are no more than the next of their call.
LEMMA Passes ==
  ASSUME ReportInv, NEW c \in Calls, NEW step \in Steps \ {"submit"}, Adapting!At(c, step),
         step \in {"wait", "poll"} => Adapting!Took(call[c].tx),
         NEW z, z = Adapting!Done(c), NEW y,
         \/ y = z
         \/ y = [z EXCEPT !.sends = call[c].op]
         \/ step = "approval" /\ y = [z EXCEPT !.sends = "approve"]
         \/ \E q : y = [z EXCEPT !.seq = q]
  PROVE  Submitting(call[c]) /\ Submitting(y)
<1>1. PICK x : x = call[c]
  OBVIOUS
<1>2. x # None /\ x.todo # <<>> /\ Head(x.todo) = step /\ Submitting(x)
  BY <1>1 DEF Adapting!At, ReportInv
<1>3. PICK t : t = Tail(x.todo)
  OBVIOUS
<1>4. z = [op |-> x.op, e |-> x.e, sends |-> x.sends, todo |-> t, seq |-> x.seq, tx |-> x.tx, n |-> x.n]
  <2>1. z = [x EXCEPT !.todo = t]
    BY <1>1, <1>3 DEF Adapting!Done
  <2>2. Shape(x)
    BY <1>2 DEF Submitting, Shape
  <2> QED
    BY <2>1, <2>2, Rewrites
<1>5. Shape(z) /\ z.op = x.op /\ z.e = x.e /\ z.sends = x.sends /\ z.todo = t /\ z.seq = x.seq /\ z.tx = x.tx /\ z.n = x.n
  BY <1>4 DEF Shape
<1>6. PICK v, q : /\ y = [op |-> x.op, e |-> x.e, sends |-> v, todo |-> t, seq |-> q, tx |-> x.tx, n |-> x.n]
                  /\ v = x.sends \/ v = x.op \/ step = "approval"
  <2>1. CASE y = z
    BY <1>4, <2>1
  <2>2. ASSUME NEW v, y = [z EXCEPT !.sends = v]
        PROVE  y = [op |-> x.op, e |-> x.e, sends |-> v, todo |-> t, seq |-> x.seq, tx |-> x.tx, n |-> x.n]
    <3>1. [z EXCEPT !.sends = v] = [op |-> z.op, e |-> z.e, sends |-> v, todo |-> z.todo, seq |-> z.seq, tx |-> z.tx, n |-> z.n]
      BY <1>5, Rewrites
    <3> QED
      BY ONLY <1>5, <2>2, <3>1
  <2>3. ASSUME NEW q, y = [z EXCEPT !.seq = q]
        PROVE  y = [op |-> x.op, e |-> x.e, sends |-> x.sends, todo |-> t, seq |-> q, tx |-> x.tx, n |-> x.n]
    <3>1. [z EXCEPT !.seq = q] = [op |-> z.op, e |-> z.e, sends |-> z.sends, todo |-> z.todo, seq |-> q, tx |-> z.tx, n |-> z.n]
      BY <1>5, Rewrites
    <3> QED
      BY ONLY <1>5, <2>3, <3>1
  <2> QED
    BY <1>1, <2>1, <2>2, <2>3
<1>7. PICK w : w = x
  OBVIOUS
<1>8. /\ Submitting(w) /\ w.todo # <<>> /\ Head(w.todo) # "submit"
      /\ Adapting!Waiting /\ Head(w.todo) \in {"wait", "poll"} => Adapting!Took(w.tx)
      /\ v = w.sends \/ v = w.op \/ Head(w.todo) = "approval"
      /\ y = [op |-> w.op, e |-> w.e, sends |-> v, todo |-> Tail(w.todo), seq |-> q, tx |-> w.tx, n |-> w.n]
  BY <1>1, <1>2, <1>3, <1>6, <1>7
<1>9. Submitting(y)
  BY ONLY <1>8, StepDone
<1> QED
  BY <1>1, <1>2, <1>9

\* A step that touches neither the ledger nor what was reported.
LEMMA SelfReports ==
  ASSUME ReportInv, NEW c \in Calls, NEW y, call' = [call EXCEPT ![c] = y], y # None => Submitting(y),
         UNCHANGED <<ledger, pool, included, escrow, rows, answers>>
  PROVE  ReportInv'
<1>1. Adapting!Waiting => Reported'
  BY DEF ReportInv, Reported, Adapting!Took
<1>2. pool' \subseteq pool \cup {y.tx} /\ pool' \subseteq pool
  OBVIOUS
<1> QED
  BY <1>1, <1>2, CallGoes

LEMMA PassReports ==
  ASSUME ReportInv, NEW c \in Calls,
         \/ Adapting!Check(c) \/ Adapting!Approval(c) \/ Adapting!TheCall(c)
         \/ Adapting!ReadSequence(c) \/ Adapting!LoadAccount(c) \/ Adapting!Simulate(c)
         \/ Adapting!AwaitReceipt(c) \/ Adapting!PollResult(c) \/ Adapting!AwaitConfirmation(c)
  PROVE  ReportInv'
<1>1. PICK z : z = Adapting!Done(c)
  OBVIOUS
<1>2. PICK step, y :
        /\ step \in Steps \ {"submit"}
        /\ Adapting!At(c, step) /\ Adapting!Goes(c, y) /\ Adapting!Self
        /\ step \in {"wait", "poll"} => Adapting!Took(call[c].tx)
        /\ \/ y = z
           \/ y = [z EXCEPT !.sends = call[c].op]
           \/ step = "approval" /\ y = [z EXCEPT !.sends = "approve"]
           \/ \E q : y = [z EXCEPT !.seq = q]
  <2> USE <1>1 DEF Steps
  <2>1. CASE Adapting!Check(c) \/ Adapting!Simulate(c) \/ Adapting!AwaitReceipt(c) \/ Adapting!PollResult(c)
             \/ Adapting!AwaitConfirmation(c)
    <3>1. \E step \in {"check", "simulate", "wait", "poll", "confirm"} :
            /\ Adapting!At(c, step) /\ Adapting!Goes(c, z) /\ Adapting!Self
            /\ step \in {"wait", "poll"} => Adapting!Took(call[c].tx)
      BY <2>1 DEF Adapting!Check, Adapting!Simulate, Adapting!AwaitReceipt, Adapting!PollResult,
         Adapting!AwaitConfirmation
    <3> QED
      BY <3>1
  <2>2. CASE Adapting!Approval(c)
    BY <2>2 DEF Adapting!Approval
  <2>3. CASE Adapting!TheCall(c)
    BY <2>3 DEF Adapting!TheCall
  <2>4. CASE Adapting!ReadSequence(c)
    BY <2>4 DEF Adapting!ReadSequence
  <2>5. CASE Adapting!LoadAccount(c)
    BY <2>5 DEF Adapting!LoadAccount
  <2> QED
    BY <2>1, <2>2, <2>3, <2>4, <2>5
<1>3. Submitting(y)
  BY <1>1, <1>2, Passes
<1> QED
  BY <1>2, <1>3, SelfReports DEF Adapting!Goes, Adapting!Self, Adapting!node, Adapting!book

\* A call begins with all of its method before it.
LEMMA InvokeReports == ASSUME ReportInv, NEW c \in Calls, Adapting!Invoke(c) PROVE ReportInv'
<1>1. PICK op \in Adapting!Ops, e \in Escrows :
        /\ Adapting!Goes(c, [op |-> op, e |-> e, sends |-> op, todo |-> Adapting!Method(op), seq |-> 0, tx |-> None,
                             n |-> calls + 1])
        /\ UNCHANGED <<ledger, pool, included, escrow, rows, answers>>
  BY DEF Adapting!Invoke, Adapting!node, Adapting!book
<1>2. PICK s : s = Adapting!Method(op)
  OBVIOUS
<1>3. PICK y : y = [op |-> op, e |-> e, sends |-> op, todo |-> s, seq |-> 0, tx |-> None, n |-> calls + 1]
  OBVIOUS
<1>5. Submitting(y)
  BY <1>2, <1>3, Methods DEF Submitting, Reporting
<1> QED
  BY <1>1, <1>2, <1>3, <1>5, SelfReports DEF Adapting!Goes

\* The transaction that a call submits is the one that it is about.
LEMMA SubmitReports == ASSUME ReportInv, NEW c \in Calls, Adapting!Submit(c) PROVE ReportInv'
<1>1. PICK x, t, v : x = call[c] /\ t = Tail(x.todo) /\ v = Adapting!Tx(c)
  OBVIOUS
<1>2. x # None /\ x.todo # <<>> /\ Head(x.todo) = "submit" /\ Submitting(x)
  BY <1>1 DEF Adapting!Submit, Adapting!At, ReportInv
<1>3. v.op = x.sends /\ v.e = x.e
  BY <1>1 DEF Adapting!Tx
<1>4. PICK y : y = [op |-> x.op, e |-> x.e, sends |-> x.sends, todo |-> t, seq |-> x.seq, tx |-> v, n |-> x.n]
  OBVIOUS
<1>5. y = [Adapting!Done(c) EXCEPT !.tx = v]
  <2>1. PICK z : z = Adapting!Done(c)
    OBVIOUS
  <2>2. z = [op |-> x.op, e |-> x.e, sends |-> x.sends, todo |-> t, seq |-> x.seq, tx |-> x.tx, n |-> x.n]
    <3>1. z = [x EXCEPT !.todo = t]
      BY <1>1, <2>1 DEF Adapting!Done
    <3>2. Shape(x)
      BY <1>2 DEF Submitting, Shape
    <3> QED
      BY <3>1, <3>2, Rewrites
  <2>3. Shape(z) /\ z.op = x.op /\ z.e = x.e /\ z.sends = x.sends /\ z.todo = t /\ z.seq = x.seq /\ z.tx = x.tx /\ z.n = x.n
    BY <2>2 DEF Shape
  <2>4. [z EXCEPT !.tx = v] = [op |-> z.op, e |-> z.e, sends |-> z.sends, todo |-> z.todo, seq |-> z.seq, tx |-> v, n |-> z.n]
    BY <2>3, Rewrites
  <2> QED
    BY <1>4, <2>1, <2>3, <2>4
<1>6. /\ y.op = x.op /\ y.e = x.e /\ y.todo = t /\ y.tx = v /\ y.sends = x.sends
      /\ y = [op |-> y.op, e |-> y.e, sends |-> y.sends, todo |-> y.todo, seq |-> y.seq, tx |-> y.tx, n |-> y.n]
  BY <1>4
<1>7. ASSUME Adapting!Waiting PROVE Reporting(y)
  <2>1. Reporting(x)
    BY <1>2, <1>7 DEF Submitting
  <2>2. PICK s \in Seq(Steps) : s = x.todo
    BY <2>1 DEF Reporting
  <2>3. /\ t \in Seq(Steps) /\ ~ Without(s, "submit")
        /\ Waits(s) => Waits(t)
        /\ \A w : Without(s, w) => Without(t, w)
    BY <1>1, <1>2, <2>2, Tails
  <2>4. y.op # "receive" => Waits(y.todo)
    BY <1>6, <2>1, <2>2, <2>3 DEF Reporting
  <2>5. y.op = "receive" => Without(y.todo, "confirmed")
    BY <1>6, <2>1, <2>2, <2>3 DEF Reporting
  <2>6. y.op \in {"release", "cancel"} => /\ y.sends = y.op /\ Without(y.todo, "approval")
                                          /\ y.tx.op = y.op /\ y.tx.e = y.e
    BY <1>3, <1>6, <2>1, <2>2, <2>3 DEF Reporting
  <2> QED
    BY <1>6, <2>3, <2>4, <2>5, <2>6 DEF Reporting
<1>8. Submitting(y)
  BY <1>2, <1>6, <1>7 DEF Submitting
<1>9. /\ call' = [call EXCEPT ![c] = y] /\ pool' \subseteq pool \cup {y.tx} /\ y.tx.e \in Escrows
      /\ UNCHANGED <<ledger, included, escrow, rows, answers>>
  <2>1. y.tx.e \in Escrows
    BY <1>2, <1>3, <1>6 DEF Submitting
  <2> QED
    BY <1>1, <1>5, <1>6, <2>1 DEF Adapting!Submit, Adapting!Goes, Adapting!book
<1>10. Adapting!Waiting => Reported'
  BY <1>9 DEF ReportInv, Reported, Adapting!Took
<1> QED
  BY <1>8, <1>9, <1>10, CallGoes

\* A row says CONFIRMED after the wait.
LEMMA LogReports == ASSUME ReportInv, NEW c \in Calls, Adapting!LogTransaction(c) PROVE ReportInv'
<1>1. PICK step \in {"confirmed", "pending", "expected"} :
        /\ Adapting!At(c, step) /\ Adapting!Goes(c, Adapting!Done(c))
        /\ \/ rows' = rows \cup {[op |-> call[c].op, e |-> call[c].e, tx |-> call[c].tx,
                                  status |-> IF step = "confirmed" THEN "CONFIRMED" ELSE "PENDING"]}
           \/ UNCHANGED rows
        /\ UNCHANGED <<ledger, pool, included, escrow, answers>>
  BY DEF Adapting!LogTransaction, Adapting!node
<1>2. PICK y : y = Adapting!Done(c)
  OBVIOUS
<1>3. Submitting(call[c]) /\ Submitting(y)
  <2>1. step \in Steps \ {"submit"} /\ step \notin {"wait", "poll"}
    BY DEF Steps
  <2> QED
    BY <1>1, <1>2, <2>1, Passes
<1>4. PICK x : x = call[c]
  OBVIOUS
<1>5. ASSUME Adapting!Waiting, step = "confirmed" PROVE Adapting!Took(x.tx)
  <2>1. Reporting(x) /\ x.todo # <<>> /\ Head(x.todo) = "confirmed"
    BY <1>1, <1>3, <1>4, <1>5 DEF Submitting, Adapting!At
  <2>2. PICK s \in Seq(Steps) : s = x.todo
    BY <2>1 DEF Reporting
  <2>3. ~ Waits(s) /\ ~ Without(s, "confirmed")
    BY <2>1, <2>2, Tails
  <2> QED
    BY <2>1, <2>2, <2>3 DEF Reporting
<1>6. ASSUME Adapting!Waiting PROVE Reported'
  <2>1. Reported
    BY <1>6 DEF ReportInv
  <2>2. \A tx : Adapting!Took(tx) => Adapting!Took(tx)'
    BY <1>1 DEF Adapting!Took
  <2>3. ASSUME NEW r \in rows', r.status = "CONFIRMED" PROVE Adapting!Took(r.tx)'
    <3>1. r \in rows \/ (step = "confirmed" /\ r.tx = x.tx)
      BY <1>1, <1>4, <2>3
    <3> QED
      BY <1>5, <1>6, <2>1, <2>2, <2>3, <3>1 DEF Reported
  <2> QED
    BY <1>1, <2>1, <2>2, <2>3 DEF Reported
<1> QED
  BY <1>1, <1>2, <1>3, <1>6, CallGoes DEF Adapting!Goes

\* A call answers when nothing is left.
LEMMA AnswerReports == ASSUME ReportInv, NEW c \in Calls, Adapting!Answer(c) PROVE ReportInv'
<1>1. PICK x : x = call[c]
  OBVIOUS
<1>2. /\ x # None /\ x.todo = <<>> /\ call' = [call EXCEPT ![c] = None]
      /\ answers' = answers \cup {[op |-> x.op, e |-> x.e, tx |-> x.tx]}
      /\ UNCHANGED <<ledger, pool, included, escrow, rows>>
  BY <1>1 DEF Adapting!Answer, Adapting!Goes, Adapting!node
<1>3. ASSUME Adapting!Waiting PROVE Reported'
  <2>1. Reporting(x) /\ Reported
    BY <1>1, <1>2, <1>3 DEF ReportInv, Submitting
  <2>2. PICK s : s = x.todo /\ s = <<>>
    BY <1>2
  <2>3. ~ Waits(s) /\ Without(s, "submit")
    BY <2>2 DEF Waits, Without
  <2>4. /\ x.op # "receive" => Adapting!Took(x.tx)
        /\ x.op \in {"release", "cancel"} => x.tx.op = x.op /\ x.tx.e = x.e
    BY <2>1, <2>2, <2>3 DEF Reporting
  <2>5. \A tx : Adapting!Took(tx) => Adapting!Took(tx)'
    BY <1>2 DEF Adapting!Took
  <2>6. ASSUME NEW a \in answers'
        PROVE  /\ a = [op |-> a.op, e |-> a.e, tx |-> a.tx]
               /\ a.op # "receive" => Adapting!Took(a.tx)
               /\ a.op \in {"release", "cancel"} => a.tx.op = a.op /\ a.tx.e = a.e
    <3>1. CASE a \in answers
      BY <2>1, <3>1 DEF Reported
    <3>2. CASE a = [op |-> x.op, e |-> x.e, tx |-> x.tx]
      <4>1. a.op = x.op /\ a.e = x.e /\ a.tx = x.tx /\ a = [op |-> a.op, e |-> a.e, tx |-> a.tx]
        BY <3>2
      <4> QED
        BY <2>4, <4>1
    <3> QED
      BY <1>2, <3>1, <3>2
  <2> QED
    BY <1>2, <2>1, <2>5, <2>6 DEF Reported
<1> QED
  BY <1>2, <1>3, CallGoes

LEMMA ThrowReports == ASSUME ReportInv, NEW c \in Calls, Adapting!Throw(c) PROVE ReportInv'
BY SelfReports DEF Adapting!Throw, Adapting!Goes, Adapting!Self, Adapting!node, Adapting!book

\* A settlement is mined as a success where the escrow is held, and ends that.
LEMMA MineReports == ASSUME ReportInv, Adapting!MineTx PROVE ReportInv'
<1>1. PICK tx \in pool : /\ pool' = pool \ {tx}
                         /\ included' = included \cup {[tx |-> tx, ok |-> Adapting!Accepts(tx.op, tx.e)]}
                         /\ escrow' = IF ~Adapting!Accepts(tx.op, tx.e) \/ tx.op \in {"anchor", "send", "approve"} THEN escrow
                                      ELSE [escrow EXCEPT ![tx.e] = CASE tx.op = "release" -> "released"
                                             [] tx.op = "cancel" -> "cancelled"
                                             [] OTHER -> IF ledger = "ALGORAND" THEN "released" ELSE "locked"]
                         /\ UNCHANGED <<ledger, call, rows, answers>>
  BY DEF Adapting!MineTx, Adapting!book
<1>2. PICK new, ok : new = [tx |-> tx, ok |-> ok] /\ ok = Adapting!Accepts(tx.op, tx.e)
  OBVIOUS
<1>3. included' = included \cup {new} /\ new.tx = tx /\ new.ok = ok /\ tx.e \in Escrows
  BY <1>1, <1>2 DEF ReportInv
<1>4. Grows /\ (Adapting!Waiting <=> Adapting!Waiting')
  BY <1>1 DEF Grows, Adapting!Waiting, Adapting!Ordered, Adapting!Evm
<1>5. escrow' = [e \in Escrows |-> escrow'[e]]
  BY <1>1 DEF ReportInv
<1>6. ASSUME Adapting!Waiting PROVE SettledOnce'
  <2>1. SettledOnce
    BY <1>6 DEF ReportInv
  <2>2. ledger # "ALGORAND"
    BY <1>6 DEF Adapting!Waiting, Adapting!Ordered, Adapting!Evm
  <2>3. ASSUME NEW m \in included, Settling(m)
        PROVE  escrow'[m.tx.e] = Outcome(m.tx.op) /\ (Settling(new) => m.tx.e # tx.e)
    <3>1. escrow[m.tx.e] \in {"released", "cancelled"} /\ escrow[m.tx.e] = Outcome(m.tx.op) /\ m.tx.e \in Escrows
      BY <2>1, <2>3 DEF SettledOnce, Outcome, ReportInv
    <3>2. CASE m.tx.e # tx.e
      BY <1>1, <1>3, <3>1, <3>2 DEF ReportInv
    <3>3. CASE m.tx.e = tx.e
      <4>1. ok = TRUE => tx.op \in {"anchor", "send", "approve"}
        BY <1>2, <2>2, <3>1, <3>3 DEF Adapting!Accepts
      <4>2. escrow' = escrow
        BY <1>1, <1>2, <2>2, <3>1, <3>3 DEF Adapting!Accepts
      <4>3. ~ Settling(new)
        BY <1>3, <4>1 DEF Settling
      <4> QED
        BY <3>1, <4>2, <4>3
    <3> QED
      BY <3>2, <3>3
  <2>4. ASSUME Settling(new) PROVE escrow'[tx.e] = Outcome(tx.op)
    <3>1. ok = TRUE /\ tx.op \in {"release", "cancel"} /\ Adapting!Accepts(tx.op, tx.e)
      BY <1>2, <1>3, <2>4 DEF Settling
    <3>2. escrow' = [escrow EXCEPT ![tx.e] = Outcome(tx.op)]
      BY <1>1, <3>1 DEF Outcome
    <3> QED
      BY <1>3, <3>2 DEF ReportInv
  <2>5. ASSUME NEW m \in included', Settling(m) PROVE escrow'[m.tx.e] = Outcome(m.tx.op)
    BY <1>3, <2>3, <2>4, <2>5
  <2>6. ASSUME NEW m \in included', NEW k \in included', Settling(m), Settling(k), m.tx.e = k.tx.e
        PROVE  m.tx = k.tx
    <3>1. CASE m \in included /\ k \in included
      BY <2>1, <2>6, <3>1 DEF SettledOnce
    <3>2. CASE m = new /\ k \in included
      BY <1>3, <2>3, <2>6, <3>2
    <3>3. CASE m \in included /\ k = new
      BY <1>3, <2>3, <2>6, <3>3
    <3>4. CASE m = new /\ k = new
      BY <3>4
    <3> QED
      BY <1>3, <3>1, <3>2, <3>3, <3>4
  <2> QED
    BY <2>5, <2>6 DEF SettledOnce, Settling, Outcome
<1>7. ASSUME Adapting!Waiting PROVE Reported'
  <2>1. \A t : Adapting!Took(t) => Adapting!Took(t)'
    BY <1>4, TookStays
  <2>2. rows' = rows /\ answers' = answers /\ Reported
    BY <1>1, <1>7 DEF ReportInv
  <2> QED
    BY <2>1, <2>2 DEF Reported
<1>8. ASSUME NEW d \in Calls, NEW x, x = call[d], x # None PROVE Submitting(x)'
  <2>1. Submitting(x)
    BY <1>8 DEF ReportInv
  <2> QED
    BY <1>4, <2>1, ReportingStays
<1>9. /\ call' = [d \in Calls |-> call'[d]]
      /\ \A t \in pool' : t.e \in Escrows
      /\ \A m \in included' : m.tx.e \in Escrows
  BY <1>1, <1>3 DEF ReportInv
<1>10. \A d \in Calls : call'[d] # None => Submitting(call[d])'
  BY <1>1, <1>8
<1> QED
  BY <1>1, <1>4, <1>5, <1>6, <1>7, <1>9, <1>10 DEF ReportInv

LEMMA StillReports ==
  ASSUME ReportInv, pool' \subseteq pool, UNCHANGED <<ledger, included, escrow, call, rows, answers>>
  PROVE  ReportInv'
<1>1. ASSUME NEW d \in Calls, NEW x, x = call[d], x # None PROVE Submitting(x)'
  <2>1. Submitting(x) /\ Grows
    BY <1>1 DEF ReportInv, Grows
  <2> QED
    BY <2>1, ReportingStays
<1>2. \A d \in Calls : call'[d] # None => Submitting(call[d])'
  BY <1>1
<1>3. Adapting!Waiting <=> Adapting!Waiting'
  BY DEF Adapting!Waiting, Adapting!Ordered, Adapting!Evm
<1>4. (SettledOnce => SettledOnce') /\ (Reported => Reported')
  BY DEF SettledOnce, Settling, Outcome, Reported, Adapting!Took
<1> QED
  BY <1>2, <1>3, <1>4 DEF ReportInv

LEMMA InitReports == Adapting!Init => ReportInv
<1> SUFFICES ASSUME Adapting!Init PROVE ReportInv
  OBVIOUS
<1>1. SettledOnce /\ Reported
  BY DEF Adapting!Init, SettledOnce, Reported
<1> QED
  BY <1>1 DEF Adapting!Init, ReportInv

LEMMA NextReports == ReportInv /\ [Adapting!Next]_(Adapting!vars) => ReportInv'
<1> SUFFICES ASSUME ReportInv, [Adapting!Next]_(Adapting!vars) PROVE ReportInv'
  OBVIOUS
<1>1. CASE Adapting!MineTx
  BY <1>1, MineReports
<1>2. CASE Adapting!DropTx
  <2>1. pool' \subseteq pool /\ UNCHANGED <<ledger, included, escrow, call, rows, answers>>
    BY <1>2 DEF Adapting!DropTx, Adapting!book
  <2> QED
    BY <2>1, StillReports
<1>3. ASSUME NEW c \in Calls,
             \/ Adapting!Check(c) \/ Adapting!Approval(c) \/ Adapting!TheCall(c)
             \/ Adapting!ReadSequence(c) \/ Adapting!LoadAccount(c) \/ Adapting!Simulate(c)
             \/ Adapting!AwaitReceipt(c) \/ Adapting!PollResult(c) \/ Adapting!AwaitConfirmation(c)
      PROVE  ReportInv'
  BY <1>3, PassReports
<1>4. ASSUME NEW c \in Calls, Adapting!Invoke(c) PROVE ReportInv'
  BY <1>4, InvokeReports
<1>5. ASSUME NEW c \in Calls, Adapting!Submit(c) PROVE ReportInv'
  BY <1>5, SubmitReports
<1>6. ASSUME NEW c \in Calls, Adapting!LogTransaction(c) PROVE ReportInv'
  BY <1>6, LogReports
<1>7. ASSUME NEW c \in Calls, Adapting!Answer(c) PROVE ReportInv'
  BY <1>7, AnswerReports
<1>8. ASSUME NEW c \in Calls, Adapting!Throw(c) PROVE ReportInv'
  BY <1>8, ThrowReports
<1>9. CASE UNCHANGED Adapting!vars
  <2>1. pool' \subseteq pool /\ UNCHANGED <<ledger, included, escrow, call, rows, answers>>
    BY <1>9 DEF Adapting!vars
  <2> QED
    BY <2>1, StillReports
<1> QED
  BY <1>1, <1>2, <1>3, <1>4, <1>5, <1>6, <1>7, <1>8, <1>9 DEF Adapting!Next

LEMMA ReportInvariance == Adapting!Spec => []ReportInv
BY InitReports, NextReports, PTL DEF Adapting!Spec

\* On Ethereum, Polygon and Stellar, whatever chains, escrows and calls there are, and
\* however calls throw, share sequence numbers or replace each other's transactions:
\* what a call returned, or a CONFIRMED row names, was mined as a success.
THEOREM ReportsAreTrue == Adapting!Spec => []ConfirmedIsMined
<1>1. ReportInv => ConfirmedIsMined
  <2> SUFFICES ASSUME ReportInv, Adapting!Waiting
               PROVE  /\ \A r \in rows : r.status = "CONFIRMED" => Adapting!Verify(r.tx)
                      /\ \A a \in answers : a.op # "receive" => Adapting!Verify(a.tx)
    BY DEF ConfirmedIsMined, Adapting!ConfirmedIsMined
  <2>1. \A tx : Adapting!Took(tx) => Adapting!Verify(tx)
    BY DEF Adapting!Verify, Adapting!EthVerify, Adapting!PolygonVerify, Adapting!SorobanVerify
  <2> QED
    BY <2>1 DEF ReportInv, Reported
<1> QED
  BY <1>1, ReportInvariance, PTL

\* However releases and cancels of an escrow overlap and are repeated, by any number of
\* calls, at most one is reported as done, and that is what the contract did.
THEOREM SettledAsReported == Adapting!Spec => []OneSettlement
<1>1. ReportInv => OneSettlement
  <2>c. \A S : Adapting!Cardinality(S) = Cardinality(S)
    BY DEF Adapting!Cardinality, Cardinality, Adapting!IsFiniteSet, IsFiniteSet
  <2> DEFINE done(e) == {a \in answers : a.e = e /\ a.op \in {"release", "cancel"}}
             Right(e) == /\ Cardinality(done(e)) <= 1
                         /\ \A a \in done(e) : escrow[e] = (IF a.op = "release" THEN "released" ELSE "cancelled")
  <2>0. OneSettlement <=> (Adapting!Waiting => \A e \in Escrows : Right(e))
    BY <2>c DEF OneSettlement, Adapting!OneSettlement
  <2>1. SUFFICES ASSUME ReportInv, Adapting!Waiting, NEW e \in Escrows PROVE Right(e)
    BY <2>0
  <2>2. SettledOnce /\ Reported
    BY <2>1 DEF ReportInv
  <2>3. ASSUME NEW a \in done(e)
        PROVE  \E m \in included : /\ Settling(m) /\ m.tx = a.tx /\ a.tx.e = e /\ a.tx.op = a.op
                                   /\ a = [op |-> a.op, e |-> e, tx |-> a.tx]
    <3>1. /\ a = [op |-> a.op, e |-> e, tx |-> a.tx] /\ a.tx.op = a.op /\ a.tx.e = e
          /\ Adapting!Took(a.tx)
      BY <2>2, <2>3 DEF Reported
    <3>2. PICK m : m = [tx |-> a.tx, ok |-> TRUE]
      OBVIOUS
    <3>3. m \in included /\ Settling(m) /\ m.tx = a.tx
      BY <2>3, <3>1, <3>2 DEF Settling, Adapting!Took
    <3> QED
      BY <3>1, <3>3
  <2>4. ASSUME NEW a \in done(e)
        PROVE  escrow[e] = (IF a.op = "release" THEN "released" ELSE "cancelled")
    <3>1. PICK m \in included : Settling(m) /\ m.tx = a.tx /\ a.tx.e = e /\ a.tx.op = a.op
      BY <2>3
    <3> QED
      BY <2>2, <2>4, <3>1 DEF SettledOnce, Outcome
  <2>5. ASSUME NEW a \in done(e), NEW b \in done(e) PROVE a = b
    <3>1. PICK m \in included : /\ Settling(m) /\ m.tx = a.tx /\ a.tx.e = e /\ a.tx.op = a.op
                               /\ a = [op |-> a.op, e |-> e, tx |-> a.tx]
      BY <2>3
    <3>2. PICK k \in included : /\ Settling(k) /\ k.tx = b.tx /\ b.tx.e = e /\ b.tx.op = b.op
                               /\ b = [op |-> b.op, e |-> e, tx |-> b.tx]
      BY <2>3
    <3>3. a.tx = b.tx
      BY <2>2, <3>1, <3>2 DEF SettledOnce
    <3> QED
      BY <3>1, <3>2, <3>3
  <2>6. Cardinality(done(e)) <= 1
    <3>1. CASE done(e) = {}
      BY <3>1, FS_EmptySet
    <3>2. CASE done(e) # {}
      <4>1. PICK a : done(e) = {a}
        BY <2>5, <3>2
      <4>2. Cardinality({a}) = 1
        BY FS_Singleton
      <4> QED
        BY <4>1, <4>2
    <3> QED
      BY <3>1, <3>2
  <2> QED
    BY <2>4, <2>6
<1> QED
  BY <1>1, ReportInvariance, PTL

-----------------------------------------------------------------------------
(* Backfill: what its values are *)

Job == [pc : {"idle", "batch", "user", "upsert", "read", "commit", "error", "close", "catch", "done"},
        run : Runs \cup {None}, mode : {"DRY_RUN", "EXECUTE", None}, list : Lists \cup {<<>>},
        start : Nat, i : Nat, target : TenantUsers \cup {None}, had : SUBSET {"credits", "qtags"},
        errors : BOOLEAN]
Posting == {<<>>} \cup {<<t>> : t \in TenantUsers}

JobType == job \in [Calls -> Job]

\* The goods of a user have moved to one tenant user, all of them or none.
Goods == /\ credits \in [Users -> Posting] /\ qtags = credits
         /\ \A u \in Users : credits[u] # <<>> => Backfilling!Moved(u) = {}

\* A call about to commit has found both keys of its user in use, or neither.
Finding(c) ==
  /\ job[c].pc \in {"read", "commit"} => job[c].target \in TenantUsers
  /\ job[c].pc = "commit" /\ Backfilling!User(c) \in Users =>
       \/ job[c].had = {}
       \/ job[c].had = {"credits", "qtags"} /\ credits[Backfilling!User(c)] # <<>>

MoveInv == JobType /\ Goods /\ \A c \in Calls : Finding(c)

LEMMA ListLength ==
  ASSUME Backfilling!Migratable, NEW l \in Lists \cup {<<>>}
  PROVE  l \in Seq(Users) /\ Len(l) \in Nat /\ DOMAIN l = 1 .. Len(l)
<1>1. l \in Seq(Users)
  <2>1. CASE l \in Lists
    BY <2>1 DEF Backfilling!Migratable
  <2>2. CASE l = <<>>
    BY <2>2
  <2> QED
    BY <2>1, <2>2
<1> QED
  BY <1>1

LEMMA BatchEnds ==
  ASSUME Backfilling!Migratable, JobType, NEW c \in Calls
  PROVE  /\ Backfilling!BatchEnd(c) \in Nat
         /\ Backfilling!BatchEnd(c) <= Len(job[c].list)
         /\ Backfilling!BatchEnd(c) = Len(job[c].list) \/ Backfilling!BatchEnd(c) = job[c].start + BatchSize - 1
         /\ Backfilling!BatchEnd(c) <= job[c].start + BatchSize - 1
         /\ job[c].start <= Len(job[c].list) => job[c].start <= Backfilling!BatchEnd(c)
<1>1. job[c].start \in Nat /\ job[c].list \in Lists \cup {<<>>} /\ BatchSize \in Nat \ {0}
  BY DEF JobType, Job, Backfilling!Migratable
<1>2. Len(job[c].list) \in Nat
  BY <1>1, ListLength
<1> QED
  BY <1>1, <1>2 DEF Backfilling!BatchEnd

\* The call of a step, and no other, goes on.
LEMMA Proceeds ==
  ASSUME JobType, Backfilling!Migratable, NEW c \in Calls, Backfilling!Proceed(c)
  PROVE  /\ JobType' /\ \A d \in Calls \ {c} : job'[d] = job[d]
         /\ job'[c].pc = IF job[c].i = Backfilling!BatchEnd(c) THEN "close" ELSE "user"
         /\ job'[c].i = job[c].i + 1
         /\ job'[c].start = job[c].start /\ job'[c].run = job[c].run /\ job'[c].mode = job[c].mode
         /\ job'[c].list = job[c].list
         /\ job'[c].errors = (job[c].errors \/ job[c].pc = "error")
<1>1. job \in [Calls -> Job] /\ job[c] \in Job
  BY DEF JobType
<1>2. /\ job'[c].i = job[c].i + 1 /\ job'[c].start = job[c].start /\ job'[c].run = job[c].run
      /\ job'[c].mode = job[c].mode /\ job'[c].list = job[c].list
  BY <1>1 DEF Backfilling!Proceed, Job
<1>3. job'[c].pc = IF job[c].i = Backfilling!BatchEnd(c) THEN "close" ELSE "user"
  BY <1>1 DEF Backfilling!Proceed, Job
<1>4. job'[c].errors = (job[c].errors \/ job[c].pc = "error")
  BY <1>1 DEF Backfilling!Proceed, Job
<1>5. \A d \in Calls \ {c} : job'[d] = job[d]
  BY <1>1 DEF Backfilling!Proceed
<1>6. JobType'
  BY <1>1 DEF Backfilling!Proceed, Job, JobType
<1> QED
  BY <1>2, <1>3, <1>4, <1>5, <1>6

Pcs == {"idle", "batch", "user", "upsert", "read", "commit", "error", "close", "catch", "done"}

LEMMA GoesTo ==
  ASSUME JobType, NEW c \in Calls, NEW pc \in Pcs, Backfilling!Goto(c, pc)
  PROVE  /\ JobType' /\ \A d \in Calls \ {c} : job'[d] = job[d]
         /\ job'[c].pc = pc /\ job'[c].i = job[c].i /\ job'[c].start = job[c].start
         /\ job'[c].run = job[c].run /\ job'[c].mode = job[c].mode /\ job'[c].list = job[c].list
         /\ job'[c].target = job[c].target /\ job'[c].had = job[c].had
         /\ job'[c].errors = job[c].errors
<1>1. job \in [Calls -> Job] /\ job[c] \in Job
  BY DEF JobType
<1>2. job' = [job EXCEPT ![c].pc = pc]
  BY DEF Backfilling!Goto
<1>3. JobType'
  BY <1>1, <1>2 DEF Job, JobType, Pcs
<1> QED
  BY <1>1, <1>2, <1>3 DEF Job

LEMMA IdleJob ==
  /\ Backfilling!Idle.pc = "idle" /\ Backfilling!Idle.run = None
  /\ Backfilling!Idle \in Job
BY DEF Backfilling!Idle, Job

LEMMA Ends ==
  ASSUME JobType, NEW c \in Calls, job' = [job EXCEPT ![c] = Backfilling!Idle]
  PROVE  JobType' /\ (\A d \in Calls \ {c} : job'[d] = job[d]) /\ job'[c].pc = "idle" /\ job'[c].run = None
BY IdleJob DEF JobType

\* What the other actions make of their call.
LEMMA Starts ==
  ASSUME JobType, NEW c \in Calls, Backfilling!Start(c)
  PROVE  /\ JobType' /\ \A d \in Calls \ {c} : job'[d] = job[d]
         /\ job'[c].pc = "batch" /\ job'[c].start = 1 /\ job'[c].i = 1
         /\ job'[c].list \in Lists /\ job'[c].run \in Runs
         /\ runs' = [runs EXCEPT ![job'[c].run] = [status |-> "RUNNING", by |-> c]]
         /\ shared' = IF \E d \in Calls : job[d].run = job'[c].run THEN shared \cup {job'[c].run}
                      ELSE shared \ {job'[c].run}
<1>1. job \in [Calls -> Job]
  BY DEF JobType
<1>2. PICK list \in Lists, mode \in {"DRY_RUN", "EXECUTE"}, r \in Runs :
        /\ runs' = [runs EXCEPT ![r] = [status |-> "RUNNING", by |-> c]]
        /\ shared' = IF \E d \in Calls : job[d].run = r THEN shared \cup {r} ELSE shared \ {r}
        /\ job' = [job EXCEPT ![c] = [Backfilling!Idle EXCEPT !.pc = "batch", !.run = r, !.mode = mode, !.list = list]]
  BY DEF Backfilling!Start
<1>3. PICK y : y = [Backfilling!Idle EXCEPT !.pc = "batch", !.run = r, !.mode = mode, !.list = list]
  OBVIOUS
<1>4. y = [pc |-> "batch", run |-> r, mode |-> mode, list |-> list, start |-> 1, i |-> 1,
           target |-> None, had |-> {}, errors |-> FALSE]
  BY <1>3 DEF Backfilling!Idle
<1>5. y \in Job /\ y.pc = "batch" /\ y.start = 1 /\ y.i = 1 /\ y.list = list /\ y.run = r
  BY <1>4 DEF Job
<1>6. job' = [job EXCEPT ![c] = y]
  BY <1>2, <1>3
<1>7. job'[c] = y /\ \A d \in Calls \ {c} : job'[d] = job[d]
  BY <1>1, <1>6
<1>8. JobType'
  BY <1>1, <1>5, <1>6 DEF JobType
<1> QED
  BY <1>2, <1>5, <1>7, <1>8

LEMMA Closes ==
  ASSUME JobType, Backfilling!Migratable, NEW c \in Calls, Backfilling!CloseBatch(c)
  PROVE  /\ JobType' /\ \A d \in Calls \ {c} : job'[d] = job[d]
         /\ job'[c].pc = "batch" /\ job'[c].i = job[c].i /\ job'[c].start = Backfilling!BatchEnd(c) + 1
         /\ job'[c].run = job[c].run /\ job'[c].mode = job[c].mode /\ job'[c].list = job[c].list
         /\ job'[c].errors = job[c].errors
<1>1. job \in [Calls -> Job] /\ job[c] \in Job
  BY DEF JobType
<1>2. PICK e : e = Backfilling!BatchEnd(c) + 1
  OBVIOUS
<1>3. job' = [job EXCEPT ![c].pc = "batch", ![c].start = e]
  BY <1>2 DEF Backfilling!CloseBatch
<1>4. e \in Nat
  BY <1>2, BatchEnds
<1>5. JobType'
  BY <1>1, <1>3, <1>4 DEF JobType, Job
<1> QED
  BY <1>1, <1>2, <1>3, <1>5 DEF Job

\* What only the call itself, or the row of its run, can tell of a step.
Elsewhere(c) == JobType' /\ \A d \in Calls \ {c} : job'[d] = job[d]
SameUser(c)  == /\ job'[c].i = job[c].i /\ job'[c].start = job[c].start /\ job'[c].run = job[c].run
                /\ job'[c].mode = job[c].mode /\ job'[c].list = job[c].list
                /\ job'[c].errors = job[c].errors

LEMMA Finds ==
  ASSUME JobType, NEW c \in Calls, Backfilling!FindUser(c)
  PROVE  /\ Elsewhere(c) /\ SameUser(c) /\ job'[c].pc \in {"error", "upsert"}
<1>1. job \in [Calls -> Job] /\ job[c] \in Job
  BY DEF JobType
<1>2. PICK t \in (IF Backfilling!Found(Backfilling!User(c)) = {} THEN {None}
                  ELSE Backfilling!Found(Backfilling!User(c))) :
        \/ Backfilling!Goto(c, "error")
        \/ job' = [job EXCEPT ![c].pc = "upsert", ![c].target = t]
  BY DEF Backfilling!FindUser
<1>3. t \in TenantUsers \cup {None}
  BY <1>2 DEF Backfilling!Found, Backfilling!Same, Backfilling!Made
<1>4. CASE Backfilling!Goto(c, "error")
  BY <1>4, GoesTo DEF Pcs, Elsewhere, SameUser
<1>5. CASE job' = [job EXCEPT ![c].pc = "upsert", ![c].target = t]
  <2>1. JobType'
    BY <1>1, <1>3, <1>5 DEF JobType, Job
  <2> QED
    BY <1>1, <1>5, <2>1 DEF Elsewhere, SameUser, Job
<1> QED
  BY <1>2, <1>4, <1>5

LEMMA Upserts ==
  ASSUME JobType, NEW c \in Calls, Backfilling!UpsertUser(c)
  PROVE  /\ Elsewhere(c) /\ SameUser(c) /\ job'[c].pc \in {"error", "read"}
         /\ job'[c].pc = "read" => job'[c].target \in TenantUsers
<1>1. job \in [Calls -> Job] /\ job[c] \in Job
  BY DEF JobType
<1>2. PICK t \in (IF job[c].target = None THEN TenantUsers \ Backfilling!Made ELSE {job[c].target}) :
        \/ Backfilling!Goto(c, "error")
        \/ job' = [job EXCEPT ![c].pc = "read", ![c].target = t]
  BY DEF Backfilling!UpsertUser
<1>3. t \in TenantUsers
  BY <1>1, <1>2 DEF Job
<1>4. CASE Backfilling!Goto(c, "error")
  BY <1>4, GoesTo DEF Pcs, Elsewhere, SameUser
<1>5. CASE job' = [job EXCEPT ![c].pc = "read", ![c].target = t]
  <2>1. JobType'
    BY <1>1, <1>3, <1>5 DEF JobType, Job
  <2> QED
    BY <1>1, <1>3, <1>5, <2>1 DEF Elsewhere, SameUser, Job
<1> QED
  BY <1>2, <1>4, <1>5

LEMMA Reads ==
  ASSUME JobType, NEW c \in Calls, Backfilling!ReadKeys(c)
  PROVE  /\ Elsewhere(c) /\ SameUser(c) /\ job'[c].pc = "commit" /\ job'[c].target = job[c].target
         /\ job'[c].had = (IF credits[Backfilling!User(c)] # <<>> THEN {"credits"} ELSE {}) \cup
                          (IF qtags[Backfilling!User(c)] # <<>> THEN {"qtags"} ELSE {})
<1>1. job \in [Calls -> Job] /\ job[c] \in Job
  BY DEF JobType
<1>2. PICK h : h = (IF credits[Backfilling!User(c)] # <<>> THEN {"credits"} ELSE {}) \cup
                   (IF qtags[Backfilling!User(c)] # <<>> THEN {"qtags"} ELSE {})
  OBVIOUS
<1>3. h \in SUBSET {"credits", "qtags"}
  BY <1>2
<1>4. job' = [job EXCEPT ![c].pc = "commit", ![c].had = h]
  BY <1>2 DEF Backfilling!ReadKeys
<1>5. JobType'
  BY <1>1, <1>3, <1>4 DEF JobType, Job
<1>6. job'[c].had = h
  BY <1>1, <1>4 DEF Job
<1> QED
  BY <1>1, <1>2, <1>4, <1>5, <1>6 DEF Elsewhere, SameUser, Job

LEMMA SetsRun ==
  ASSUME JobType, NEW c \in Calls, NEW status, Backfilling!SetRun(c, status)
  PROVE  /\ Elsewhere(c) /\ SameUser(c) /\ job'[c].pc = "done"
         /\ runs' = [runs EXCEPT ![job[c].run] = [status |-> status, by |-> c]]
<1>1. Backfilling!Goto(c, "done")
  BY DEF Backfilling!SetRun, Backfilling!Goto
<1> QED
  BY <1>1, GoesTo DEF Pcs, Elsewhere, SameUser, Backfilling!SetRun

LEMMA Fails ==
  ASSUME JobType, NEW c \in Calls, Backfilling!Fail(c)
  PROVE  /\ Elsewhere(c) /\ SameUser(c)
         /\ \/ job[c].pc \in {"upsert", "read", "commit"} /\ job'[c].pc = "error"
            \/ job[c].pc \in {"batch", "user", "error", "close"} /\ job'[c].pc = "catch"
            \/ job[c].pc = "catch" /\ job'[c].pc = "done"
<1>1. PICK to : /\ to = Backfilling!Handler(job[c].pc)
                /\ Backfilling!Goto(c, to) /\ job[c].pc \in Pcs \ {"idle", "done"}
  BY DEF Backfilling!Fail, Backfilling!At, JobType, Job, Pcs
<1>2. /\ \/ job[c].pc \in {"upsert", "read", "commit"} /\ to = "error"
         \/ job[c].pc \in {"batch", "user", "error", "close"} /\ to = "catch"
         \/ job[c].pc = "catch" /\ to = "done"
      /\ to \in Pcs
  BY <1>1 DEF Backfilling!Handler, Pcs
<1> QED
  BY <1>1, <1>2, GoesTo DEF Elsewhere, SameUser

\* The transaction of a user moves all of the user's goods, or what is left of them.
Grown == \A u \in Users : credits[u] # <<>> => credits'[u] # <<>>

LEMMA AppliesAll ==
  ASSUME MoveInv, Backfilling!Migratable, NEW c \in Calls, Backfilling!At(c, "commit"),
         ~ Backfilling!Refused(c), Backfilling!Apply(c)
  PROVE  /\ Goods' /\ Grown
         /\ Backfilling!User(c) \in Users => credits'[Backfilling!User(c)] # <<>>
<1>1. PICK u, t : u = Backfilling!User(c) /\ t = job[c].target
  OBVIOUS
<1>2. /\ owners' = (owners \ Backfilling!Moved(u)) \cup Backfilling!Renamed(u, t)
      /\ credits' = Backfilling!Posted(credits, "credits", job[c].had, u, t)
      /\ qtags' = Backfilling!Posted(qtags, "qtags", job[c].had, u, t)
  BY <1>1 DEF Backfilling!Apply
<1>3. t \in TenantUsers /\ qtags = credits /\ credits \in [Users -> Posting]
  BY <1>1 DEF MoveInv, Finding, Goods, Backfilling!At
<1>4. ASSUME NEW v \in Users PROVE Backfilling!Moved(v)' \subseteq Backfilling!Moved(v)
  <2>1. t \notin Backfilling!Aliases(v)
    BY <1>3 DEF Backfilling!Migratable
  <2>2. \A o \in Backfilling!Renamed(u, t) : o.ref = t
    BY DEF Backfilling!Renamed
  <2>3. Backfilling!Aliases(v)' = Backfilling!Aliases(v)
    BY DEF Backfilling!Aliases
  <2> QED
    BY <1>2, <2>1, <2>2, <2>3 DEF Backfilling!Moved
<1>5. ASSUME u \in Users PROVE Backfilling!Moved(u)' = {}
  <2>1. t \notin Backfilling!Aliases(u)
    BY <1>3, <1>5 DEF Backfilling!Migratable
  <2>2. \A o \in Backfilling!Renamed(u, t) : o.ref = t
    BY DEF Backfilling!Renamed
  <2>3. Backfilling!Aliases(u)' = Backfilling!Aliases(u)
    BY DEF Backfilling!Aliases
  <2> QED
    BY <1>2, <2>1, <2>2, <2>3 DEF Backfilling!Moved
<1>6. CASE u \notin Users
  <2>1. credits' = credits /\ qtags' = qtags
    BY <1>2, <1>3, <1>6 DEF Backfilling!Posted
  <2> QED
    BY <1>1, <1>3, <1>4, <1>6, <2>1 DEF Goods, Grown, MoveInv
<1>7. CASE u \in Users /\ job[c].had = {"credits", "qtags"} /\ credits[u] # <<>>
  <2>1. credits' = credits /\ qtags' = qtags
    BY <1>2, <1>7 DEF Backfilling!Posted
  <2> QED
    BY <1>1, <1>3, <1>4, <1>7, <2>1 DEF Goods, Grown, MoveInv
<1>8. CASE u \in Users /\ job[c].had = {}
  <2>1. credits[u] = <<>>
    BY <1>1, <1>8 DEF Backfilling!Refused
  <2>2. Append(credits[u], t) = <<t>>
    BY <2>1
  <2>3. credits' = [credits EXCEPT ![u] = <<t>>] /\ qtags' = credits'
    BY <1>2, <1>3, <1>8, <2>2 DEF Backfilling!Posted
  <2>4. credits' \in [Users -> Posting]
    BY <1>3, <2>3 DEF Posting
  <2>5. <<t>> # <<>>
    OBVIOUS
  <2>6. Grown /\ credits'[u] # <<>> /\ \A v \in Users : v # u => credits'[v] = credits[v]
    BY <1>3, <1>8, <2>3, <2>5 DEF Grown
  <2> QED
    BY <1>1, <1>3, <1>4, <1>5, <1>8, <2>3, <2>4, <2>6 DEF Goods, MoveInv
<1> QED
  BY <1>1, <1>6, <1>7, <1>8 DEF MoveInv, Finding, Backfilling!At

\* A step of another call leaves a call what it found.
LEMMA FindingStays ==
  ASSUME MoveInv, Grown, NEW d \in Calls, job'[d] = job[d] PROVE Finding(d)'
BY DEF MoveInv, Finding, Grown, Backfilling!User

LEMMA Moving ==
  ASSUME MoveInv, NEW c \in Calls, Elsewhere(c), Goods', Grown, Finding(c)'
  PROVE  MoveInv'
BY FindingStays DEF MoveInv, Elsewhere

LEMMA GoodsStay ==
  ASSUME MoveInv, UNCHANGED <<owners, credits, qtags>> PROVE Goods' /\ Grown
<1>1. Goods
  BY DEF MoveInv
<1> QED
  BY <1>1 DEF Goods, Grown, Posting, Backfilling!Moved, Backfilling!Aliases

LEMMA MovingNext == ASSUME Backfilling!Migratable, MoveInv, [Backfilling!Next]_(Backfilling!vars)
                    PROVE MoveInv' /\ Grown
<1> USE DEF Backfilling!domain, Backfilling!report
<1>1. JobType
  BY DEF MoveInv
<1>2. CASE UNCHANGED Backfilling!vars
  <2>1. Goods' /\ Grown /\ job' = job
    BY <1>2, GoodsStay DEF Backfilling!vars
  <2>2. \A d \in Calls : Finding(d)'
    BY <2>1, FindingStays
  <2> QED
    BY <1>1, <2>1, <2>2 DEF MoveInv, JobType
<1>3. ASSUME NEW c \in Calls, UNCHANGED <<owners, credits, qtags>>, Elsewhere(c),
             job'[c].pc \notin {"read", "commit"}
      PROVE  MoveInv' /\ Grown
  <2>1. Finding(c)'
    BY <1>3 DEF Finding
  <2> QED
    BY <1>3, <2>1, GoodsStay, Moving
<1>4. ASSUME NEW c \in Calls, Backfilling!Start(c) PROVE MoveInv' /\ Grown
  <2>1. Elsewhere(c) /\ job'[c].pc = "batch"
    BY <1>1, <1>4, Starts DEF Elsewhere
  <2> QED
    BY <1>3, <1>4, <2>1 DEF Backfilling!Start
<1>5. ASSUME NEW c \in Calls, Backfilling!OpenBatch(c) PROVE MoveInv' /\ Grown
  <2>1. Elsewhere(c) /\ job'[c].pc = "user"
    BY <1>1, <1>5, GoesTo DEF Elsewhere, Pcs, Backfilling!OpenBatch
  <2> QED
    BY <1>3, <1>5, <2>1 DEF Backfilling!OpenBatch
<1>6. ASSUME NEW c \in Calls, Backfilling!CloseBatch(c) PROVE MoveInv' /\ Grown
  <2>1. Elsewhere(c) /\ job'[c].pc = "batch"
    BY <1>1, <1>6, Closes DEF Elsewhere
  <2> QED
    BY <1>3, <1>6, <2>1 DEF Backfilling!CloseBatch
<1>7. ASSUME NEW c \in Calls, NEW status, Backfilling!SetRun(c, status) PROVE MoveInv' /\ Grown
  <2>1. Elsewhere(c) /\ job'[c].pc = "done"
    BY <1>1, <1>7, SetsRun
  <2> QED
    BY <1>3, <1>7, <2>1 DEF Backfilling!SetRun
<1>8. ASSUME NEW c \in Calls, Backfilling!Return(c) \/ Backfilling!Kill(c) PROVE MoveInv' /\ Grown
  <2>1. /\ job' = [job EXCEPT ![c] = Backfilling!Idle] /\ UNCHANGED <<owners, credits, qtags>>
    BY <1>8 DEF Backfilling!Return, Backfilling!Kill
  <2>2. Elsewhere(c) /\ job'[c].pc = "idle"
    BY <1>1, <2>1, Ends DEF Elsewhere
  <2> QED
    BY <1>3, <2>1, <2>2
<1>9. ASSUME NEW c \in Calls, Backfilling!SkipUser(c) \/ Backfilling!RecordError(c)
      PROVE MoveInv' /\ Grown
  <2>1. Backfilling!Proceed(c) /\ UNCHANGED <<owners, credits, qtags>>
    BY <1>9 DEF Backfilling!SkipUser, Backfilling!RecordError
  <2>2. Elsewhere(c) /\ job'[c].pc \in {"close", "user"}
    BY <1>1, <2>1, Proceeds DEF Elsewhere
  <2> QED
    BY <1>3, <2>1, <2>2
<1>10. ASSUME NEW c \in Calls, Backfilling!FindUser(c) PROVE MoveInv' /\ Grown
  <2>1. Elsewhere(c) /\ job'[c].pc \in {"error", "upsert"}
    BY <1>1, <1>10, Finds
  <2> QED
    BY <1>3, <1>10, <2>1 DEF Backfilling!FindUser
<1>11. ASSUME NEW c \in Calls, Backfilling!UpsertUser(c) PROVE MoveInv' /\ Grown
  <2>1. /\ Elsewhere(c) /\ job'[c].pc \in {"error", "read"}
        /\ job'[c].pc = "read" => job'[c].target \in TenantUsers
    BY <1>1, <1>11, Upserts
  <2>2. UNCHANGED <<owners, credits, qtags>>
    BY <1>11 DEF Backfilling!UpsertUser
  <2>3. Finding(c)'
    BY <2>1 DEF Finding
  <2> QED
    BY <2>1, <2>2, <2>3, GoodsStay, Moving
<1>12. ASSUME NEW c \in Calls, Backfilling!ReadKeys(c) PROVE MoveInv' /\ Grown
  <2>1. /\ Elsewhere(c) /\ SameUser(c) /\ job'[c].pc = "commit" /\ job'[c].target = job[c].target
        /\ job'[c].had = (IF credits[Backfilling!User(c)] # <<>> THEN {"credits"} ELSE {}) \cup
                         (IF qtags[Backfilling!User(c)] # <<>> THEN {"qtags"} ELSE {})
    BY <1>1, <1>12, Reads
  <2>2. UNCHANGED <<owners, credits, qtags>> /\ job[c].pc = "read"
    BY <1>12 DEF Backfilling!ReadKeys, Backfilling!At
  <2>3. qtags = credits /\ job[c].target \in TenantUsers
    BY <2>2 DEF MoveInv, Goods, Finding
  <2>4. Backfilling!User(c)' = Backfilling!User(c)
    BY <2>1 DEF SameUser, Backfilling!User
  <2>5. \/ job'[c].had = {}
        \/ job'[c].had = {"credits", "qtags"} /\ credits[Backfilling!User(c)] # <<>>
    BY <2>1, <2>3
  <2>6. Finding(c)'
    BY <2>1, <2>2, <2>3, <2>4, <2>5 DEF Finding
  <2> QED
    BY <2>1, <2>2, <2>6, GoodsStay, Moving
<1>13. ASSUME NEW c \in Calls, Backfilling!Migrate(c) PROVE MoveInv' /\ Grown
  <2>1. CASE Backfilling!Refused(c)
    <3>1. Backfilling!Goto(c, "error") /\ UNCHANGED <<owners, credits, qtags>>
      BY <1>13, <2>1 DEF Backfilling!Migrate
    <3>2. Elsewhere(c) /\ job'[c].pc = "error"
      BY <1>1, <3>1, GoesTo DEF Elsewhere, Pcs
    <3> QED
      BY <1>3, <3>1, <3>2
  <2>2. CASE ~ Backfilling!Refused(c)
    <3>1. Backfilling!At(c, "commit") /\ Backfilling!Apply(c) /\ Backfilling!Proceed(c)
      BY <1>13, <2>2 DEF Backfilling!Migrate
    <3>2. Goods' /\ Grown
      BY <2>2, <3>1, AppliesAll
    <3>3. Elsewhere(c) /\ job'[c].pc \in {"close", "user"}
      BY <1>1, <3>1, Proceeds DEF Elsewhere
    <3>4. Finding(c)'
      BY <3>3 DEF Finding
    <3> QED
      BY <3>2, <3>3, <3>4, Moving
  <2> QED
    BY <2>1, <2>2
<1>14. ASSUME NEW c \in Calls, Backfilling!Fail(c) PROVE MoveInv' /\ Grown
  <2>1. Elsewhere(c) /\ job'[c].pc \in {"error", "catch", "done"}
    BY <1>1, <1>14, Fails
  <2>2. \/ UNCHANGED <<owners, credits, qtags>>
        \/ Backfilling!At(c, "commit") /\ ~ Backfilling!Refused(c) /\ Backfilling!Apply(c)
    BY <1>14 DEF Backfilling!Fail
  <2>3. Goods' /\ Grown
    BY <2>2, GoodsStay, AppliesAll
  <2>4. Finding(c)'
    BY <2>1 DEF Finding
  <2> QED
    BY <2>1, <2>3, <2>4, Moving
<1>15. ASSUME NEW c \in Calls, Backfilling!Finish(c) \/ Backfilling!Abandon(c) PROVE MoveInv' /\ Grown
  <2>1. \E status : Backfilling!SetRun(c, status)
    BY <1>15 DEF Backfilling!Finish, Backfilling!Abandon
  <2> QED
    BY <1>7, <2>1
<1> QED
  BY <1>2, <1>4, <1>5, <1>6, <1>8, <1>9, <1>10, <1>11, <1>12, <1>13, <1>14, <1>15 DEF Backfilling!Next

LEMMA MovingInit == ASSUME Backfilling!Migratable, Backfilling!Init PROVE MoveInv
<1>1. JobType
  BY IdleJob DEF Backfilling!Init, JobType
<1>2. Goods
  BY DEF Backfilling!Init, Goods, Posting
<1>3. \A c \in Calls : Finding(c)
  BY IdleJob DEF Backfilling!Init, Finding
<1> QED
  BY <1>1, <1>2, <1>3 DEF MoveInv

LEMMA MovingInvariance == Backfilling!Spec => []MoveInv
<1>1. Backfilling!Init => MoveInv
  BY BackfillAssumption, MovingInit
<1>2. MoveInv /\ [Backfilling!Next]_(Backfilling!vars) => MoveInv'
  BY BackfillAssumption, MovingNext
<1> QED
  BY <1>1, <1>2, PTL DEF Backfilling!Spec

\* Whatever users, tenant users and lists there are, and however many calls of the script
\* overlap, fail and are killed: the goods of a user move to one tenant user, all of them
\* or none, and no asset of a tenant user is left under an old name.
THEOREM GoodsMoveTogether == Backfilling!Spec => []MovedTogether
<1>1. MoveInv => MovedTogether
  <2> SUFFICES ASSUME MoveInv, NEW u \in Users
               PROVE  /\ credits[u] = qtags[u] /\ Len(credits[u]) <= 1
                      /\ credits[u] # <<>> => Backfilling!Moved(u) = {}
    BY DEF MovedTogether, Backfilling!MovedTogether
  <2>1. credits[u] \in Posting
    BY DEF MoveInv, Goods
  <2>2. Len(credits[u]) <= 1
    <3>1. CASE credits[u] = <<>>
      BY <3>1
    <3>2. ASSUME NEW t \in TenantUsers, credits[u] = <<t>> PROVE Len(credits[u]) <= 1
      <4>1. Len(<<t>>) = 1
        OBVIOUS
      <4> QED
        BY <3>2, <4>1
    <3> QED
      BY <2>1, <3>1, <3>2 DEF Posting
  <2> QED
    BY <2>2 DEF MoveInv, Goods
<1> QED
  BY <1>1, MovingInvariance, PTL

-----------------------------------------------------------------------------
(* Backfill: what a run has done *)

LEMMA Divided ==
  ASSUME NEW a \in Nat, NEW B \in Nat \ {0}
  PROVE  a % B \in 0 .. B - 1 /\ a \div B \in Nat /\ a = B * (a \div B) + (a % B)
OBVIOUS

LEMMA NextMultiple ==
  ASSUME NEW p \in Nat, NEW q \in Nat, NEW B \in Nat \ {0}, p < q PROVE B * p + B <= B * q
<1>1. PICK d \in Nat : q = p + d /\ d >= 1
  <2>1. q - p \in Nat /\ q = p + (q - p) /\ q - p >= 1
    OBVIOUS
  <2> QED
    BY <2>1
<1>2. B * q = B * p + B * d /\ B * d >= B
  BY <1>1
<1> QED
  BY <1>2

\* Of the numbers of a batch, only the first leaves no rest.
LEMMA OnlyFirst ==
  ASSUME NEW B \in Nat \ {0}, NEW q \in Nat, NEW s, s = B * q + 1,
         NEW k \in Nat, s <= k, k < s + B, (k - 1) % B = 0
  PROVE  k = s
<1>1. PICK a \in Nat : a = k - 1 /\ k = a + 1
  <2>1. k - 1 \in Nat /\ k = (k - 1) + 1
    BY Divided
  <2> QED
    BY <2>1
<1>2. PICK p \in Nat : a = B * p
  <2>1. a = B * (a \div B) + (a % B) /\ a \div B \in Nat /\ a % B = 0
    BY <1>1, Divided
  <2>2. PICK p \in Nat : p = a \div B
    BY <2>1
  <2>3. a = B * p
    BY <2>1, <2>2
  <2> QED
    BY <2>3
<1>3. B * q \in Nat /\ B * q <= a /\ a < B * q + B
  BY <1>1
<1>4. CASE p < q
  BY <1>2, <1>3, <1>4, NextMultiple
<1>5. CASE q < p
  BY <1>2, <1>3, <1>5, NextMultiple
<1> QED
  BY <1>1, <1>2, <1>4, <1>5

Marks == {None, "CONFLICT", "SKIPPED", "MIGRATED", "ERROR"}
ReportType ==
  /\ runs = [r \in Runs |-> runs[r]]
  /\ records \in [Runs -> [Users -> Marks]]
  /\ points \in [Runs -> [Backfilling!Keys -> {None, "RUNNING", "COMPLETED"}]]

Last(c) == Len(job[c].list)

\* The first of a batch.
Opens(k) == (k - 1) % BatchSize = 0

\* The users of a call's list that it is through with, and the batches.
Through(c) == IF job[c].pc = "done" THEN Last(c) + 1 ELSE job[c].i
Closed(c)  == IF job[c].pc = "done" THEN Last(c) + 1 ELSE job[c].start
Migrated(c) ==
  \A k \in DOMAIN job[c].list :
    k < Through(c) /\ ~ Backfilling!Conflicting(job[c].list, job[c].list[k]) =>
      records[job[c].run][job[c].list[k]] = "MIGRATED" /\ credits[job[c].list[k]] # <<>>
Done(c, k) ==
  \E j \in DOMAIN job[c].list : k <= j /\ j < k + BatchSize /\ points[job[c].run][<<k, j>>] = "COMPLETED"
Checked(c) == \A k \in DOMAIN job[c].list : k < Closed(c) /\ Opens(k) => Done(c, k)

Within   == {"user", "upsert", "read", "commit", "error"}
AtWork   == Within \cup {"batch", "close"}

\* Where a call is in its list.
Place(c) ==
  /\ job[c].pc # "idle" => job[c].run \in Runs /\ job[c].list \in Lists
  /\ job[c].pc \in AtWork =>
       /\ job[c].start >= 1 /\ job[c].start <= Last(c) + 1
       /\ job[c].start <= Last(c) => \E q \in Nat : job[c].start = BatchSize * q + 1
  /\ job[c].pc = "batch" => job[c].i = job[c].start
  /\ job[c].pc \in AtWork \ {"batch"} => job[c].start <= Last(c)
  /\ job[c].pc \in Within => job[c].start <= job[c].i /\ job[c].i <= Backfilling!BatchEnd(c)
  /\ job[c].pc = "close" => job[c].i = Backfilling!BatchEnd(c) + 1

\* A call that is alone with its run.
Running(c)  == runs[job[c].run] = [status |-> "RUNNING", by |-> c]
Complete(c) == job[c].pc = "done" /\ runs[job[c].run] = [status |-> "COMPLETED", by |-> c]
Progress(c) ==
  job[c].pc # "idle" /\ job[c].run \notin shared =>
    /\ job[c].pc # "done" => Running(c)
    /\ Complete(c) => job[c].errors = FALSE
    /\ job[c].pc \in AtWork \/ Complete(c) =>
         /\ job[c].mode = "EXECUTE" /\ job[c].errors = FALSE => Migrated(c)
         /\ Checked(c)
Alone ==
  \A c, d \in Calls : c # d /\ job[c].pc # "idle" /\ job[d].pc # "idle" /\ job[c].run = job[d].run
                        => job[c].run \in shared
WorkInv == ReportType /\ Alone /\ \A c \in Calls : Place(c) /\ Progress(c)

\* A step of a call at one run leaves the calls of other runs where they are.
LEMMA OneWorks ==
  ASSUME MoveInv, WorkInv, Backfilling!Migratable, NEW c \in Calls, Elsewhere(c), Grown, ReportType',
         NEW r,
         \A q \in Runs : q # r => /\ runs'[q] = runs[q] /\ records'[q] = records[q] /\ points'[q] = points[q]
                                  /\ q \in shared' <=> q \in shared,
         \A d \in Calls \ {c} : job[d].pc # "idle" /\ job[d].run = r => r \in shared',
         job'[c].pc # "idle" => job'[c].run = r,
         Place(c)', Progress(c)'
  PROVE  WorkInv'
<1>1. ASSUME NEW d \in Calls \ {c} PROVE Place(d)' /\ Progress(d)'
  <2>1. job'[d] = job[d] /\ Place(d) /\ Progress(d) /\ job[d] \in Job
    BY <1>1 DEF Elsewhere, WorkInv, MoveInv, JobType
  <2>2. Place(d)'
    BY <2>1 DEF Place, Last, Backfilling!BatchEnd
  <2>3. CASE job[d].pc = "idle" \/ job[d].run \in shared'
    BY <2>1, <2>2, <2>3 DEF Progress
  <2>4. CASE job[d].pc # "idle" /\ job[d].run \notin shared'
    <3>1. PICK q \in Runs : q = job[d].run
      BY <2>1, <2>4 DEF Place
    <3>2. /\ q # r /\ q \notin shared
          /\ runs'[q] = runs[q] /\ records'[q] = records[q] /\ points'[q] = points[q]
      BY <1>1, <2>4, <3>1
    <3>3. ASSUME Migrated(d) PROVE Migrated(d)'
      <4>1. SUFFICES ASSUME NEW k \in DOMAIN job[d].list, k < Through(d),
                            ~ Backfilling!Conflicting(job[d].list, job[d].list[k])
                     PROVE  records'[q][job[d].list[k]] = "MIGRATED" /\ credits'[job[d].list[k]] # <<>>
        BY <2>1, <3>1 DEF Migrated, Through, Last, Backfilling!Conflicting, Backfilling!Duplicate,
           Backfilling!Unsafe, Backfilling!Listed
      <4>2. records[q][job[d].list[k]] = "MIGRATED" /\ credits[job[d].list[k]] # <<>>
        BY <3>1, <3>3, <4>1 DEF Migrated
      <4>3. job[d].list[k] \in Users
        BY <2>1, <4>1, ListLength DEF Job
      <4> QED
        BY <3>2, <4>2, <4>3 DEF Grown
    <3>4. ASSUME Checked(d) PROVE Checked(d)'
      BY <2>1, <3>1, <3>2, <3>4 DEF Checked, Done, Closed, Last
    <3>5. (Running(d)' <=> Running(d)) /\ (Complete(d)' <=> Complete(d))
      BY <2>1, <3>1, <3>2 DEF Running, Complete
    <3> QED
      BY <2>1, <2>2, <2>4, <3>1, <3>2, <3>3, <3>4, <3>5 DEF Progress
  <2> QED
    BY <2>2, <2>3, <2>4
<1>2. Alone'
  <2> SUFFICES ASSUME NEW d \in Calls, NEW e \in Calls, d # e, job'[d].pc # "idle", job'[e].pc # "idle",
                      job'[d].run = job'[e].run
               PROVE  job'[d].run \in shared'
    BY DEF Alone
  <2>1. CASE d # c /\ e # c
    <3>1. job'[d] = job[d] /\ job'[e] = job[e] /\ job[d].run \in shared /\ job[d].run \in Runs
      BY <2>1 DEF Elsewhere, WorkInv, Alone, Place
    <3> QED
      BY <2>1, <3>1
  <2>2. CASE d = c
    BY <2>2 DEF Elsewhere
  <2>3. CASE e = c
    BY <2>3 DEF Elsewhere
  <2> QED
    BY <2>1, <2>2, <2>3
<1> QED
  BY <1>1, <1>2 DEF WorkInv

LEMMA Working ==
  ASSUME MoveInv, WorkInv, Backfilling!Migratable, NEW c \in Calls, job[c].pc # "idle", Elsewhere(c),
         Grown, ReportType',
         shared' = shared,
         \A q \in Runs : q # job[c].run =>
           runs'[q] = runs[q] /\ records'[q] = records[q] /\ points'[q] = points[q],
         job'[c].pc # "idle" => job'[c].run = job[c].run,
         Place(c)', Progress(c)'
  PROVE  WorkInv'
<1>1. PICK r : r = job[c].run
  OBVIOUS
<1>2. \A d \in Calls \ {c} : job[d].pc # "idle" /\ job[d].run = r => r \in shared'
  BY <1>1 DEF WorkInv, Alone
<1> QED
  BY <1>1, <1>2, OneWorks

LEMMA StartWorks ==
  ASSUME MoveInv, WorkInv, Backfilling!Migratable, NEW c \in Calls, Backfilling!Start(c), Grown
  PROVE WorkInv'
<1>1. JobType /\ ReportType
  BY DEF MoveInv, WorkInv
<1>2. PICK r \in Runs : r = job'[c].run
  BY <1>1, Starts
<1>3. /\ Elsewhere(c) /\ job'[c].pc = "batch" /\ job'[c].start = 1 /\ job'[c].i = 1 /\ job'[c].list \in Lists
      /\ runs' = [runs EXCEPT ![r] = [status |-> "RUNNING", by |-> c]]
      /\ shared' = IF \E d \in Calls : job[d].run = r THEN shared \cup {r} ELSE shared \ {r}
  BY <1>1, <1>2, Starts DEF Elsewhere
<1>4. records' = records /\ points' = points
  BY DEF Backfilling!Start
<1>5. ReportType'
  BY <1>1, <1>3, <1>4 DEF ReportType, Backfilling!Keys
<1>6. Place(c)'
  <2>1. Len(job'[c].list) \in Nat
    BY <1>3, ListLength
  <2>2. BatchSize * 0 + 1 = 1 /\ 0 \in Nat
    BY DEF Backfilling!Migratable
  <2> QED
    BY <1>2, <1>3, <2>1, <2>2 DEF Place, Last, AtWork, Within
<1>7. Progress(c)'
  <2>1. Running(c)'
    BY <1>1, <1>2, <1>3 DEF Running, ReportType
  <2>2. ~ Complete(c)'
    BY <1>3 DEF Complete
  <2>3. DOMAIN job'[c].list = 1 .. Len(job'[c].list) /\ Len(job'[c].list) \in Nat
    BY <1>3, ListLength
  <2>4. Migrated(c)' /\ Checked(c)'
    BY <1>3, <2>3 DEF Migrated, Checked, Through, Closed
  <2> QED
    BY <2>1, <2>2, <2>4 DEF Progress
<1>8. \A q \in Runs : q # r => /\ runs'[q] = runs[q] /\ records'[q] = records[q] /\ points'[q] = points[q]
                               /\ (q \in shared' <=> q \in shared)
  BY <1>1, <1>3, <1>4 DEF ReportType
<1>9. \A d \in Calls \ {c} : job[d].pc # "idle" /\ job[d].run = r => r \in shared'
  BY <1>3
<1>10. job'[c].pc # "idle" => job'[c].run = r
  BY <1>2
<1>11. Elsewhere(c)
  BY <1>3
<1> QED
  BY <1>5, <1>6, <1>7, <1>8, <1>9, <1>10, <1>11, OneWorks

LEMMA EndWorks ==
  ASSUME MoveInv, WorkInv, Backfilling!Migratable, NEW c \in Calls, job[c].pc # "idle", Grown,
         job' = [job EXCEPT ![c] = Backfilling!Idle], UNCHANGED <<runs, records, points, shared>>
  PROVE  WorkInv'
<1>1. Elsewhere(c) /\ job'[c].pc = "idle"
  BY Ends DEF MoveInv, Elsewhere
<1>2. Place(c)' /\ Progress(c)'
  BY <1>1 DEF Place, Progress, AtWork, Within
<1>3. ReportType'
  BY DEF WorkInv, ReportType, Backfilling!Keys
<1> QED
  BY <1>1, <1>2, <1>3, Working

\* A mark that a call makes for the user it is at.
LEMMA Recording ==
  ASSUME ReportType, NEW c \in Calls, job[c].run \in Runs, Backfilling!User(c) \in Users,
         NEW mark \in Marks,
         records' = Backfilling!Recorded(c, mark), UNCHANGED <<runs, points>>
  PROVE  /\ ReportType'
         /\ \A q \in Runs : q # job[c].run => records'[q] = records[q]
         /\ records'[job[c].run][Backfilling!User(c)] = mark
         /\ \A u \in Users : u # Backfilling!User(c) => records'[job[c].run][u] = records[job[c].run][u]
BY DEF ReportType, Backfilling!Recorded, Marks, Backfilling!Keys

LEMMA AtUser ==
  ASSUME MoveInv, WorkInv, Backfilling!Migratable, NEW c \in Calls, job[c].pc \in Within
  PROVE  /\ job[c].i \in 1 .. Len(job[c].list) /\ Backfilling!User(c) \in Users
         /\ Backfilling!User(c) = job[c].list[job[c].i]
         /\ job[c].run \in Runs /\ job[c].list \in Lists
         /\ DOMAIN job[c].list = 1 .. Len(job[c].list) /\ Len(job[c].list) \in Nat
         /\ \A k \in DOMAIN job[c].list : job[c].list[k] \in Users
<1>1. job[c] \in Job /\ Place(c)
  BY DEF MoveInv, WorkInv, JobType
<1>2. /\ job[c].start \in Nat /\ job[c].i \in Nat /\ job[c].list \in Lists /\ job[c].run \in Runs
      /\ job[c].start >= 1 /\ job[c].start <= job[c].i /\ job[c].i <= Backfilling!BatchEnd(c)
  BY <1>1 DEF Job, Place, Within, AtWork
<1>3. job[c].list \in Seq(Users) /\ Len(job[c].list) \in Nat /\ DOMAIN job[c].list = 1 .. Len(job[c].list)
  BY <1>2, ListLength
<1>4. Backfilling!BatchEnd(c) <= Len(job[c].list) /\ Backfilling!BatchEnd(c) \in Nat
  BY BatchEnds DEF MoveInv
<1>5. job[c].i \in 1 .. Len(job[c].list)
  BY <1>2, <1>3, <1>4
<1> QED
  BY <1>2, <1>3, <1>5 DEF Backfilling!User

\* What a call is through with, now and after a step that keeps its list and run.
LEMMA MigratedThen ==
  ASSUME NEW c \in Calls, NEW l, l = job'[c].list, NEW r, r = job'[c].run, NEW n, n = Through(c)'
  PROVE  Migrated(c)' <=>
           \A k \in DOMAIN l : k < n /\ ~ Backfilling!Conflicting(l, l[k]) =>
             records'[r][l[k]] = "MIGRATED" /\ credits'[l[k]] # <<>>
BY DEF Migrated, Backfilling!Conflicting, Backfilling!Duplicate, Backfilling!Unsafe, Backfilling!Listed

LEMMA MigratedNow ==
  ASSUME NEW c \in Calls, NEW l, l = job[c].list, NEW r, r = job[c].run, NEW n, n = Through(c)
  PROVE  Migrated(c) <=>
           \A k \in DOMAIN l : k < n /\ ~ Backfilling!Conflicting(l, l[k]) =>
             records[r][l[k]] = "MIGRATED" /\ credits[l[k]] # <<>>
BY DEF Migrated, Backfilling!Conflicting, Backfilling!Duplicate, Backfilling!Unsafe, Backfilling!Listed

LEMMA MigratedStays ==
  ASSUME MoveInv, Backfilling!Migratable, Grown, NEW c \in Calls,
         job'[c].list = job[c].list, job'[c].run = job[c].run, Through(c)' = Through(c),
         \A u \in Users : \/ records'[job[c].run][u] = records[job[c].run][u]
                         \/ records'[job[c].run][u] = "MIGRATED"
  PROVE  Migrated(c) => Migrated(c)'
<1>1. PICK l, r, n : l = job[c].list /\ r = job[c].run /\ n = Through(c)
  OBVIOUS
<1>2. l = job'[c].list /\ r = job'[c].run /\ n = Through(c)'
  BY <1>1
<1>3. SUFFICES ASSUME Migrated(c), NEW k \in DOMAIN l, k < n, ~ Backfilling!Conflicting(l, l[k])
               PROVE  records'[r][l[k]] = "MIGRATED" /\ credits'[l[k]] # <<>>
  BY <1>2, MigratedThen
<1>4. records[r][l[k]] = "MIGRATED" /\ credits[l[k]] # <<>>
  BY <1>1, <1>3, MigratedNow
<1>5. l[k] \in Users
  BY <1>1, <1>3, ListLength DEF MoveInv, JobType, Job
<1> QED
  BY <1>1, <1>4, <1>5 DEF Grown

\* The call stays with its user.
LEMMA StayWorks ==
  ASSUME MoveInv, WorkInv, Backfilling!Migratable, NEW c \in Calls, job[c].pc \in Within, Grown,
         Elsewhere(c), SameUser(c), job'[c].pc \in Within, UNCHANGED <<runs, points, shared>>,
         records' = records \/ records' = Backfilling!Recorded(c, "MIGRATED")
  PROVE  WorkInv'
<1>1. /\ Backfilling!User(c) \in Users /\ job[c].run \in Runs
      /\ \A k \in DOMAIN job[c].list : job[c].list[k] \in Users
  BY AtUser
<1>2. /\ ReportType' /\ \A q \in Runs : q # job[c].run => records'[q] = records[q]
      /\ \A u \in Users : records'[job[c].run][u] = records[job[c].run][u] \/ records'[job[c].run][u] = "MIGRATED"
  <2>1. CASE records' = records
    BY <2>1 DEF WorkInv, ReportType, Backfilling!Keys
  <2>2. CASE records' = Backfilling!Recorded(c, "MIGRATED")
    BY <1>1, <2>2, Recording DEF WorkInv, Marks
  <2> QED
    BY <2>1, <2>2
<1>3. Place(c) /\ Progress(c)
  BY DEF WorkInv
<1>4. Place(c)'
  BY <1>3 DEF Place, SameUser, Last, Within, AtWork, Backfilling!BatchEnd
<1>5. job[c].pc # "idle" /\ job[c].pc # "done" /\ job'[c].pc # "idle" /\ job'[c].pc # "done" /\ job[c].pc \in AtWork
  BY DEF Within, AtWork
<1>6. ~ Complete(c)' /\ (Running(c) => Running(c)')
  BY <1>5 DEF Complete, Running, SameUser
<1>7. Migrated(c) => Migrated(c)'
  <2>1. job'[c].list = job[c].list /\ job'[c].run = job[c].run /\ Through(c)' = Through(c)
    BY <1>5 DEF SameUser, Through
  <2> QED
    BY <1>2, <2>1, MigratedStays
<1>8. Checked(c) => Checked(c)'
  <2>1. job'[c].list = job[c].list /\ job'[c].run = job[c].run /\ Closed(c)' = Closed(c)
    BY <1>5 DEF SameUser, Closed
  <2>2. \A k : Done(c, k) <=> Done(c, k)'
    BY <2>1 DEF Done
  <2> QED
    BY <2>1, <2>2 DEF Checked
<1>9. Progress(c)'
  BY <1>3, <1>5, <1>6, <1>7, <1>8 DEF Progress, SameUser
<1> QED
  BY <1>2, <1>4, <1>5, <1>9, Working DEF SameUser

\* run() catches what a statement outside its users' throws, and ends.
LEMMA CatchWorks ==
  ASSUME MoveInv, WorkInv, Backfilling!Migratable, NEW c \in Calls, job[c].pc # "idle", Grown,
         Elsewhere(c), SameUser(c),
         \/ job'[c].pc = "catch" /\ job[c].pc # "done"
         \/ job'[c].pc = "done" /\ job[c].pc = "catch",
         UNCHANGED <<runs, records, points, shared>>
  PROVE  WorkInv'
<1>1. ReportType' /\ Place(c) /\ Progress(c)
  BY DEF WorkInv, ReportType, Backfilling!Keys
<1>2. Place(c)'
  BY <1>1 DEF Place, SameUser, Within, AtWork
<1>3. Running(c)' <=> Running(c)
  BY DEF Running, SameUser
<1>4. Progress(c)'
  <2> SUFFICES ASSUME job[c].run \notin shared PROVE Progress(c)'
    BY DEF Progress, SameUser
  <2>1. Running(c)
    BY <1>1 DEF Progress
  <2>2. ~ Complete(c)'
    BY <2>1 DEF Running, Complete, SameUser
  <2> QED
    BY <1>3, <2>1, <2>2 DEF Progress, AtWork, Within
<1> QED
  BY <1>1, <1>2, <1>4, Working DEF SameUser

\* The batch that a call is at, in the rows of its run.
LEMMA AtBatch ==
  ASSUME MoveInv, WorkInv, Backfilling!Migratable, NEW c \in Calls, job[c].pc \in AtWork,
         job[c].start <= Last(c)
  PROVE  /\ job[c].start \in 1 .. Last(c) /\ Backfilling!BatchEnd(c) \in 1 .. Last(c) /\ Last(c) \in Nat
         /\ job[c].start <= Backfilling!BatchEnd(c)
         /\ Backfilling!BatchEnd(c) < job[c].start + BatchSize
         /\ Backfilling!BatchEnd(c) = Last(c) \/ Backfilling!BatchEnd(c) + 1 = job[c].start + BatchSize
         /\ \E q \in Nat : job[c].start = BatchSize * q + 1
         /\ Backfilling!Key(c) \in Backfilling!Keys
         /\ job[c].run \in Runs /\ job[c].list \in Lists /\ DOMAIN job[c].list = 1 .. Last(c)
<1>1. job[c] \in Job /\ Place(c) /\ job[c].pc # "idle"
  BY DEF MoveInv, WorkInv, JobType, AtWork, Within
<1>2. /\ job[c].start \in Nat /\ job[c].start >= 1 /\ job[c].list \in Lists /\ job[c].run \in Runs
      /\ \E q \in Nat : job[c].start = BatchSize * q + 1
  BY <1>1 DEF Place, Job
<1>3. Last(c) \in Nat /\ DOMAIN job[c].list = 1 .. Last(c)
  BY <1>2, ListLength DEF Last
<1>4. BatchSize \in Nat \ {0}
  BY DEF Backfilling!Migratable
<1>5. /\ Backfilling!BatchEnd(c) \in Nat /\ Backfilling!BatchEnd(c) <= Last(c)
      /\ Backfilling!BatchEnd(c) = Last(c) \/ Backfilling!BatchEnd(c) = job[c].start + BatchSize - 1
      /\ Backfilling!BatchEnd(c) <= job[c].start + BatchSize - 1
      /\ job[c].start <= Backfilling!BatchEnd(c)
  BY BatchEnds DEF MoveInv, Last
<1>6. Last(c) <= Cardinality(Users) /\ Cardinality(Users) \in Nat
  <2>1. /\ Backfilling!Cardinality(Users) = Cardinality(Users)
        /\ Backfilling!IsFiniteSet(Users) <=> IsFiniteSet(Users)
    BY DEF Backfilling!Cardinality, Cardinality, Backfilling!IsFiniteSet, IsFiniteSet
  <2>2. Cardinality(Users) \in Nat
    BY <2>1, FS_CardinalityType DEF Backfilling!Migratable
  <2> QED
    BY <1>2, <2>1, <2>2 DEF Backfilling!Migratable, Last
<1>7. Backfilling!Key(c) \in Backfilling!Keys
  <2>1. \A S : Backfilling!Cardinality(S) = Cardinality(S)
    BY DEF Backfilling!Cardinality, Cardinality
  <2>2. PICK s, e : s = job[c].start /\ e = Backfilling!BatchEnd(c)
    OBVIOUS
  <2>3. s \in 1 .. Cardinality(Users) /\ e \in 1 .. Cardinality(Users) /\ s <= e
    BY <1>2, <1>3, <1>5, <1>6, <2>2
  <2>4. <<s, e>> \in Backfilling!Keys
    BY <2>1, <2>3 DEF Backfilling!Keys
  <2> QED
    BY <2>2, <2>4 DEF Backfilling!Key
<1> QED
  BY <1>2, <1>3, <1>4, <1>5, <1>7

LEMMA OpenWorks ==
  ASSUME MoveInv, WorkInv, Backfilling!Migratable, NEW c \in Calls, Backfilling!OpenBatch(c), Grown
  PROVE WorkInv'
<1>1. /\ job[c].pc = "batch" /\ job[c].start <= Last(c) /\ Backfilling!Goto(c, "user")
      /\ points' = [points EXCEPT ![job[c].run][Backfilling!Key(c)] = "RUNNING"]
      /\ UNCHANGED <<runs, records, shared>>
  BY DEF Backfilling!OpenBatch, Backfilling!At, Backfilling!rest, Last
<1>2. Elsewhere(c) /\ SameUser(c) /\ job'[c].pc = "user"
  BY <1>1, GoesTo DEF MoveInv, Elsewhere, SameUser, Pcs
<1>3. /\ job[c].start \in 1 .. Last(c) /\ Last(c) \in Nat /\ job[c].start <= Backfilling!BatchEnd(c)
      /\ Backfilling!Key(c) \in Backfilling!Keys /\ job[c].run \in Runs /\ DOMAIN job[c].list = 1 .. Last(c)
  BY <1>1, AtBatch DEF AtWork
<1>4. Place(c) /\ Progress(c) /\ ReportType
  BY DEF WorkInv
<1>5. ReportType'
  BY <1>1, <1>3, <1>4 DEF ReportType, Backfilling!Keys
<1>6. Place(c)'
  BY <1>1, <1>2, <1>3, <1>4 DEF Place, SameUser, Last, Within, AtWork, Backfilling!BatchEnd
<1>7. \A q \in Runs : q # job[c].run => points'[q] = points[q]
  BY <1>1, <1>4 DEF ReportType
<1>8. Migrated(c) => Migrated(c)'
  <2>1. job'[c].list = job[c].list /\ job'[c].run = job[c].run /\ Through(c)' = Through(c)
    BY <1>1, <1>2 DEF SameUser, Through
  <2> QED
    BY <1>1, <2>1, MigratedStays
<1>9. Checked(c) => Checked(c)'
  <2>0. SUFFICES ASSUME Checked(c), NEW k \in DOMAIN job[c].list, k < job[c].start, Opens(k) PROVE Done(c, k)'
    BY <1>1, <1>2 DEF Checked, Closed, SameUser
  <2>1. PICK j \in DOMAIN job[c].list : k <= j /\ j < k + BatchSize /\ points[job[c].run][<<k, j>>] = "COMPLETED"
    BY <1>1, <2>0 DEF Checked, Closed, Done
  <2>2. <<k, j>> # Backfilling!Key(c)
    BY <1>3, <2>0 DEF Backfilling!Key
  <2>3. points'[job[c].run][<<k, j>>] = points[job[c].run][<<k, j>>]
    BY <1>1, <1>3, <1>4, <2>2 DEF ReportType
  <2> QED
    BY <1>2, <2>1, <2>3 DEF Done, SameUser
<1>10. Progress(c)'
  <2>1. (Running(c) => Running(c)') /\ ~ Complete(c)'
    BY <1>1, <1>2 DEF Running, Complete, SameUser
  <2> QED
    BY <1>1, <1>2, <1>4, <1>8, <1>9, <2>1 DEF Progress, SameUser, AtWork
<1> QED
  BY <1>1, <1>2, <1>5, <1>6, <1>7, <1>10, Working DEF SameUser

LEMMA CloseWorks ==
  ASSUME MoveInv, WorkInv, Backfilling!Migratable, NEW c \in Calls, Backfilling!CloseBatch(c), Grown
  PROVE WorkInv'
<1>1. /\ job[c].pc = "close"
      /\ points' = [points EXCEPT ![job[c].run][Backfilling!Key(c)] = "COMPLETED"]
      /\ UNCHANGED <<runs, records, shared>>
  BY DEF Backfilling!CloseBatch, Backfilling!At, Backfilling!rest
<1>2. PICK s, e, n, r : s = job[c].start /\ e = Backfilling!BatchEnd(c) /\ n = Last(c) /\ r = job[c].run
  OBVIOUS
<1>3. /\ Elsewhere(c) /\ job'[c].pc = "batch" /\ job'[c].i = job[c].i /\ job'[c].start = e + 1
      /\ job'[c].run = job[c].run /\ job'[c].mode = job[c].mode /\ job'[c].list = job[c].list
      /\ job'[c].errors = job[c].errors
  BY <1>2, Closes DEF MoveInv, Elsewhere
<1>4. Place(c) /\ Progress(c) /\ ReportType
  BY DEF WorkInv
<1>5. /\ job[c].i = e + 1 /\ s <= n
  BY <1>1, <1>2, <1>4 DEF Place, AtWork
<1>6. /\ s \in 1 .. n /\ e \in 1 .. n /\ n \in Nat /\ s <= e /\ e < s + BatchSize
      /\ e = n \/ e + 1 = s + BatchSize
      /\ Backfilling!Key(c) \in Backfilling!Keys /\ r \in Runs /\ job[c].list \in Lists
      /\ DOMAIN job[c].list = 1 .. n /\ Backfilling!Key(c) = <<s, e>>
  BY <1>1, <1>2, <1>5, AtBatch DEF AtWork, Backfilling!Key
<1>7. PICK q \in Nat : s = BatchSize * q + 1
  BY <1>1, <1>2, <1>5, AtBatch DEF AtWork
<1>8. BatchSize \in Nat \ {0}
  BY DEF Backfilling!Migratable
<1>9. ReportType'
  BY <1>1, <1>2, <1>4, <1>6 DEF ReportType, Backfilling!Keys
<1>10. /\ \A p \in Runs : p # r => points'[p] = points[p]
       /\ points'[r][<<s, e>>] = "COMPLETED"
       /\ \A k, j : <<k, j>> # <<s, e>> => points'[r][<<k, j>>] = points[r][<<k, j>>]
  BY <1>1, <1>2, <1>4, <1>6 DEF ReportType
<1>11. Place(c)'
  <2>1. Last(c)' = n
    BY <1>2, <1>3 DEF Last
  <2>2. e + 1 <= n => \E p \in Nat : e + 1 = BatchSize * p + 1
    <3>1. SUFFICES ASSUME e + 1 <= n PROVE \E p \in Nat : e + 1 = BatchSize * p + 1
      OBVIOUS
    <3>2. e + 1 = s + BatchSize
      BY <1>6, <3>1
    <3>3. PICK p \in Nat : p = q + 1
      OBVIOUS
    <3>4. BatchSize * p = BatchSize * q + BatchSize /\ BatchSize * q \in Nat
      BY <1>7, <1>8, <3>3
    <3>5. e + 1 = BatchSize * p + 1
      BY <1>6, <1>7, <1>8, <3>2, <3>4
    <3> QED
      BY <3>3, <3>5
  <2>3. e + 1 >= 1 /\ e + 1 <= n + 1
    BY <1>6
  <2> QED
    BY <1>2, <1>3, <1>5, <1>6, <2>1, <2>2, <2>3 DEF Place, Within, AtWork
<1>12. Migrated(c) => Migrated(c)'
  <2>1. Through(c)' = Through(c)
    BY <1>1, <1>3 DEF Through
  <2> QED
    BY <1>1, <1>3, <2>1, MigratedStays
<1>13. Checked(c) => Checked(c)'
  <2>0. SUFFICES ASSUME Checked(c), NEW k \in 1 .. n, k < e + 1, Opens(k) PROVE Done(c, k)'
    BY <1>2, <1>3, <1>6 DEF Checked, Closed
  <2>1. CASE k < s
    <3>1. PICK j \in 1 .. n : k <= j /\ j < k + BatchSize /\ points[r][<<k, j>>] = "COMPLETED"
      BY <1>1, <1>2, <1>6, <2>0, <2>1 DEF Checked, Closed, Done
    <3>2. <<k, j>> # <<s, e>>
      BY <1>6, <2>1
    <3>3. points'[r][<<k, j>>] = "COMPLETED"
      BY <1>10, <3>1, <3>2
    <3> QED
      BY <1>2, <1>3, <1>6, <3>1, <3>3 DEF Done
  <2>2. CASE s <= k
    <3>1. k \in Nat /\ k < s + BatchSize
      BY <1>6, <1>8, <2>0
    <3>2. k = s
      BY <1>7, <1>8, <2>0, <2>2, <3>1, OnlyFirst DEF Opens
    <3> QED
      BY <1>2, <1>3, <1>6, <1>10, <3>2 DEF Done
  <2> QED
    BY <1>6, <2>1, <2>2
<1>14. Progress(c)'
  <2>1. (Running(c) => Running(c)') /\ ~ Complete(c)'
    BY <1>1, <1>3 DEF Running, Complete
  <2> QED
    BY <1>1, <1>3, <1>4, <1>12, <1>13, <2>1 DEF Progress, AtWork
<1> QED
  BY <1>1, <1>2, <1>3, <1>9, <1>10, <1>11, <1>14, Working

\* A run ends COMPLETED after the whole of its list, without an error.
LEMMA SetWorks ==
  ASSUME MoveInv, WorkInv, Backfilling!Migratable, NEW c \in Calls, NEW status,
         Backfilling!SetRun(c, status), Grown,
         job[c].pc \in {"batch", "catch"},
         status = "COMPLETED" => job[c].pc = "batch" /\ job[c].start > Last(c) /\ job[c].errors = FALSE
  PROVE  WorkInv'
<1>1. /\ Elsewhere(c) /\ SameUser(c) /\ job'[c].pc = "done"
      /\ runs' = [runs EXCEPT ![job[c].run] = [status |-> status, by |-> c]]
      /\ UNCHANGED <<records, points, shared>>
  BY SetsRun DEF MoveInv, Backfilling!SetRun, Backfilling!rest
<1>2. Place(c) /\ Progress(c) /\ ReportType
  BY DEF WorkInv
<1>3. PICK r \in Runs : r = job[c].run
  BY <1>2 DEF Place
<1>4. /\ ReportType' /\ \A q \in Runs : q # job[c].run => runs'[q] = runs[q]
      /\ runs'[r] = [status |-> status, by |-> c]
  BY <1>1, <1>2, <1>3 DEF ReportType, Backfilling!Keys
<1>5. Place(c)'
  BY <1>1, <1>2 DEF Place, SameUser, Within, AtWork
<1>6. Progress(c)'
  <2> SUFFICES ASSUME job[c].run \notin shared, Complete(c)'
               PROVE  job[c].errors = FALSE /\ (job[c].mode = "EXECUTE" => Migrated(c)') /\ Checked(c)'
    BY <1>1 DEF Progress, SameUser, AtWork, Within
  <2>1. status = "COMPLETED"
    BY <1>1, <1>3, <1>4 DEF Complete, SameUser
  <2>2. job[c].pc = "batch" /\ job[c].start > Last(c) /\ job[c].errors = FALSE /\ job[c].i = job[c].start
    BY <1>2, <2>1 DEF Place
  <2>3. (job[c].mode = "EXECUTE" => Migrated(c)) /\ Checked(c)
    BY <1>2, <2>2 DEF Progress, AtWork
  <2>4. PICK l, n : /\ l = job[c].list /\ n = Last(c) /\ n = Len(l)
                    /\ l \in Seq(Users) /\ DOMAIN l = 1 .. n /\ n \in Nat
    BY ListLength DEF MoveInv, JobType, Job, Last
  <2>5. Through(c)' = n + 1 /\ Closed(c)' = n + 1 /\ Through(c) = job[c].i /\ Closed(c) = job[c].start
    BY <1>1, <2>2, <2>4 DEF Through, Closed, Last, SameUser
  <2>6. job[c].start \in Nat /\ job[c].start > n
    BY <2>2, <2>4 DEF MoveInv, JobType, Job
  <2>7. Migrated(c) => Migrated(c)'
    <3>1. SUFFICES ASSUME Migrated(c), NEW k \in DOMAIN l, k < n + 1, ~ Backfilling!Conflicting(l, l[k])
                   PROVE  records'[r][l[k]] = "MIGRATED" /\ credits'[l[k]] # <<>>
      BY <1>1, <1>3, <2>4, <2>5, MigratedThen DEF SameUser
    <3>2. k < job[c].i
      BY <2>2, <2>4, <2>6, <3>1
    <3>3. records[r][l[k]] = "MIGRATED" /\ credits[l[k]] # <<>>
      BY <1>3, <2>4, <2>5, <3>1, <3>2, MigratedNow
    <3>4. l[k] \in Users
      BY <2>4, <3>1
    <3> QED
      BY <1>1, <3>3, <3>4 DEF Grown
  <2>8. Checked(c)'
    <3>1. SUFFICES ASSUME NEW k \in DOMAIN l, Opens(k) PROVE Done(c, k)'
      BY <1>1, <2>4 DEF Checked, SameUser
    <3>2. k < job[c].start
      BY <2>4, <2>6, <3>1
    <3>3. Done(c, k)
      BY <2>3, <2>4, <2>5, <3>1, <3>2 DEF Checked
    <3> QED
      BY <1>1, <3>3 DEF Done, SameUser
  <2> QED
    BY <2>2, <2>3, <2>7, <2>8
<1> QED
  BY <1>1, <1>4, <1>5, <1>6, Working DEF SameUser

\* A call has decided on its user: skipped, migrated, or in error for the whole run.
LEMMA MarkWorks ==
  ASSUME MoveInv, WorkInv, Backfilling!Migratable, NEW c \in Calls, job[c].pc \in Within,
         Backfilling!Proceed(c), Grown,
         NEW mark \in Marks, records' = Backfilling!Recorded(c, mark), UNCHANGED <<runs, points, shared>>,
         \/ job[c].pc = "error" \/ job[c].mode # "EXECUTE"
         \/ Backfilling!Conflicting(job[c].list, Backfilling!User(c))
         \/ mark = "MIGRATED" /\ credits'[Backfilling!User(c)] # <<>>
  PROVE  WorkInv'
<1>1. PICK u, l, r, i : u = Backfilling!User(c) /\ l = job[c].list /\ r = job[c].run /\ i = job[c].i
  OBVIOUS
<1>2. /\ i \in 1 .. Len(l) /\ Len(l) \in Nat /\ DOMAIN l = 1 .. Len(l) /\ u = l[i] /\ u \in Users /\ r \in Runs
      /\ \A k \in DOMAIN l : l[k] \in Users
  BY <1>1, AtUser
<1>3. /\ Elsewhere(c) /\ job'[c].pc = IF i = Backfilling!BatchEnd(c) THEN "close" ELSE "user"
      /\ job'[c].i = i + 1 /\ job'[c].start = job[c].start /\ job'[c].run = r
      /\ job'[c].mode = job[c].mode /\ job'[c].list = l
      /\ job'[c].errors = (job[c].errors \/ job[c].pc = "error")
  BY <1>1, Proceeds DEF MoveInv, Elsewhere
<1>4. Place(c) /\ Progress(c) /\ ReportType /\ job[c] \in Job
  BY DEF WorkInv, MoveInv, JobType
<1>5. /\ ReportType' /\ \A q \in Runs : q # r => records'[q] = records[q]
      /\ records'[r][u] = mark
      /\ \A v \in Users : v # u => records'[r][v] = records[r][v]
  <2>1. job[c].run \in Runs /\ Backfilling!User(c) \in Users /\ ReportType
    BY <1>1, <1>2, <1>4
  <2>2. /\ ReportType' /\ \A q \in Runs : q # job[c].run => records'[q] = records[q]
        /\ records'[job[c].run][Backfilling!User(c)] = mark
        /\ \A v \in Users : v # Backfilling!User(c) => records'[job[c].run][v] = records[job[c].run][v]
    BY <2>1, Recording
  <2> QED
    BY <1>1, <2>2
<1>6. /\ job[c].start <= i /\ i <= Backfilling!BatchEnd(c) /\ job[c].start <= Last(c)
      /\ Backfilling!BatchEnd(c) \in Nat /\ Backfilling!BatchEnd(c)' = Backfilling!BatchEnd(c) /\ Last(c)' = Last(c)
  <2>1. job[c].start <= i /\ i <= Backfilling!BatchEnd(c) /\ job[c].start <= Last(c)
    BY <1>1, <1>4 DEF Place, Within, AtWork
  <2>2. Backfilling!BatchEnd(c)' = Backfilling!BatchEnd(c) /\ Last(c)' = Last(c)
    BY <1>1, <1>3 DEF Backfilling!BatchEnd, Last
  <2> QED
    BY <2>1, <2>2, BatchEnds DEF MoveInv
<1>7. Place(c)'
  <2>1. job[c].start \in Nat
    BY <1>4 DEF Job
  <2> QED
    BY <1>1, <1>2, <1>3, <1>4, <1>6, <2>1 DEF Place, Within, AtWork
<1>8. job[c].pc # "done" /\ job[c].pc # "idle" /\ job'[c].pc # "done" /\ job'[c].pc \in {"close", "user"}
  BY <1>3 DEF Within
<1>9. ASSUME Migrated(c), job[c].pc # "error", job[c].mode = "EXECUTE" PROVE Migrated(c)'
  <2>1. Through(c)' = i + 1 /\ Through(c) = i
    BY <1>1, <1>3, <1>8 DEF Through
  <2>2. SUFFICES ASSUME NEW k \in DOMAIN l, k < i + 1, ~ Backfilling!Conflicting(l, l[k])
                 PROVE  records'[r][l[k]] = "MIGRATED" /\ credits'[l[k]] # <<>>
    BY <1>3, <2>1, MigratedThen
  <2>3. Backfilling!Conflicting(l, u) \/ (mark = "MIGRATED" /\ credits'[u] # <<>>)
    BY <1>1, <1>9
  <2>4. CASE l[k] = u
    BY <1>5, <2>2, <2>3, <2>4
  <2>5. CASE l[k] # u
    <3>1. k < i
      BY <1>2, <2>2, <2>5
    <3>2. records[r][l[k]] = "MIGRATED" /\ credits[l[k]] # <<>>
      BY <1>1, <1>9, <2>1, <2>2, <3>1, MigratedNow
    <3> QED
      BY <1>2, <1>5, <2>2, <2>5, <3>2 DEF Grown
  <2> QED
    BY <2>4, <2>5
<1>10. Checked(c) => Checked(c)'
  <2>1. Closed(c)' = Closed(c)
    BY <1>3, <1>8 DEF Closed
  <2> QED
    BY <1>1, <1>3, <2>1 DEF Checked, Done
<1>11. Progress(c)'
  <2>1. (Running(c) => Running(c)') /\ ~ Complete(c)'
    BY <1>1, <1>3, <1>8 DEF Running, Complete
  <2>2. job'[c].errors = FALSE => job[c].errors = FALSE /\ job[c].pc # "error"
    BY <1>3, <1>4 DEF Job
  <2>3. job[c].pc \in AtWork
    BY DEF AtWork
  <2> QED
    BY <1>1, <1>3, <1>4, <1>8, <1>9, <1>10, <2>1, <2>2, <2>3 DEF Progress
<1> QED
  BY <1>1, <1>3, <1>5, <1>7, <1>8, <1>11, Working

LEMMA SkipWorks ==
  ASSUME MoveInv, WorkInv, Backfilling!Migratable, NEW c \in Calls, Backfilling!SkipUser(c), Grown
  PROVE WorkInv'
<1>1. PICK mark \in Marks : /\ records' = Backfilling!Recorded(c, mark)
                            /\ \/ job[c].mode # "EXECUTE"
                               \/ Backfilling!Conflicting(job[c].list, Backfilling!User(c))
  BY DEF Backfilling!SkipUser, Marks
<1>2. job[c].pc \in Within /\ Backfilling!Proceed(c) /\ UNCHANGED <<runs, points, shared>>
  BY DEF Backfilling!SkipUser, Backfilling!At, Backfilling!rest, Within
<1> QED
  BY <1>1, <1>2, MarkWorks

LEMMA ErrorWorks ==
  ASSUME MoveInv, WorkInv, Backfilling!Migratable, NEW c \in Calls, Backfilling!RecordError(c), Grown
  PROVE WorkInv'
<1>1. /\ job[c].pc = "error" /\ job[c].pc \in Within /\ Backfilling!Proceed(c)
      /\ records' = Backfilling!Recorded(c, "ERROR") /\ UNCHANGED <<runs, points, shared>>
  BY DEF Backfilling!RecordError, Backfilling!At, Backfilling!rest, Within
<1> QED
  BY <1>1, MarkWorks DEF Marks

LEMMA MigrateWorks ==
  ASSUME MoveInv, WorkInv, Backfilling!Migratable, NEW c \in Calls, Backfilling!Migrate(c), Grown
  PROVE WorkInv'
<1>1. job[c].pc = "commit" /\ job[c].pc \in Within /\ shared' = shared
  BY DEF Backfilling!Migrate, Backfilling!At, Backfilling!rest, Within
<1>2. CASE Backfilling!Refused(c)
  <2>1. Backfilling!Goto(c, "error") /\ UNCHANGED <<runs, points, records>>
    BY <1>2 DEF Backfilling!Migrate, Backfilling!report
  <2>2. Elsewhere(c) /\ SameUser(c) /\ job'[c].pc \in Within
    BY <2>1, GoesTo DEF MoveInv, Elsewhere, SameUser, Pcs, Within
  <2> QED
    BY <1>1, <2>1, <2>2, StayWorks
<1>3. CASE ~ Backfilling!Refused(c)
  <2>1. Backfilling!At(c, "commit") /\ Backfilling!Apply(c) /\ Backfilling!Proceed(c)
    BY <1>3 DEF Backfilling!Migrate
  <2>2. records' = Backfilling!Recorded(c, "MIGRATED") /\ UNCHANGED <<runs, points>>
    BY <2>1 DEF Backfilling!Apply
  <2>3. credits'[Backfilling!User(c)] # <<>>
    BY <1>1, <1>3, <2>1, AppliesAll, AtUser
  <2> QED
    BY <1>1, <2>1, <2>2, <2>3, MarkWorks DEF Marks
<1> QED
  BY <1>2, <1>3

LEMMA FailWorks ==
  ASSUME MoveInv, WorkInv, Backfilling!Migratable, NEW c \in Calls, Backfilling!Fail(c), Grown
  PROVE WorkInv'
<1>1. /\ Elsewhere(c) /\ SameUser(c)
      /\ \/ job[c].pc \in {"upsert", "read", "commit"} /\ job'[c].pc = "error"
         \/ job[c].pc \in {"batch", "user", "error", "close"} /\ job'[c].pc = "catch"
         \/ job[c].pc = "catch" /\ job'[c].pc = "done"
  BY Fails DEF MoveInv
<1>2. shared' = shared /\ \/ UNCHANGED <<runs, records, points>>
                          \/ /\ job[c].pc = "commit" /\ UNCHANGED <<runs, points>>
                             /\ records' = Backfilling!Recorded(c, "MIGRATED")
  BY DEF Backfilling!Fail, Backfilling!Apply, Backfilling!At, Backfilling!report
<1>3. CASE job[c].pc \in {"upsert", "read", "commit"}
  <2>1. job[c].pc \in Within /\ job'[c].pc \in Within
    BY <1>1, <1>3 DEF Within
  <2> QED
    BY <1>1, <1>2, <2>1, StayWorks
<1>4. CASE job[c].pc \notin {"upsert", "read", "commit"}
  <2>1. /\ job[c].pc # "idle" /\ UNCHANGED <<runs, records, points, shared>>
        /\ \/ job'[c].pc = "catch" /\ job[c].pc # "done"
           \/ job'[c].pc = "done" /\ job[c].pc = "catch"
    BY <1>1, <1>2, <1>4
  <2> QED
    BY <1>1, <2>1, CatchWorks
<1> QED
  BY <1>3, <1>4

LEMMA WorkingNext ==
  ASSUME Backfilling!Migratable, MoveInv, WorkInv, [Backfilling!Next]_(Backfilling!vars) PROVE WorkInv'
<1>0. Grown /\ JobType
  BY MovingNext DEF MoveInv
<1>1. CASE UNCHANGED Backfilling!vars
  <2>1. UNCHANGED <<runs, records, points, shared, job, credits>>
    BY <1>1 DEF Backfilling!vars
  <2>2. ReportType' /\ Alone'
    BY <2>1 DEF WorkInv, ReportType, Alone, Backfilling!Keys
  <2>3. ASSUME NEW c \in Calls PROVE Place(c)' /\ Progress(c)'
    <3>1. Place(c) /\ Progress(c)
      BY DEF WorkInv
    <3>2. Place(c)'
      BY <2>1, <3>1 DEF Place, Last, Backfilling!BatchEnd
    <3>3. (Running(c)' <=> Running(c)) /\ (Complete(c)' <=> Complete(c)) /\ (Checked(c) => Checked(c)')
      BY <2>1 DEF Running, Complete, Checked, Closed, Done, Last
    <3>4. Migrated(c) => Migrated(c)'
      <4>1. Through(c)' = Through(c)
        BY <2>1 DEF Through, Last
      <4> QED
        BY <1>0, <2>1, <4>1, MigratedStays
    <3> QED
      BY <2>1, <3>1, <3>2, <3>3, <3>4 DEF Progress
  <2> QED
    BY <2>2, <2>3 DEF WorkInv
<1>2. ASSUME NEW c \in Calls, Backfilling!Start(c) PROVE WorkInv'
  BY <1>0, <1>2, StartWorks
<1>3. ASSUME NEW c \in Calls, Backfilling!OpenBatch(c) PROVE WorkInv'
  BY <1>0, <1>3, OpenWorks
<1>4. ASSUME NEW c \in Calls, Backfilling!CloseBatch(c) PROVE WorkInv'
  BY <1>0, <1>4, CloseWorks
<1>5. ASSUME NEW c \in Calls, Backfilling!Finish(c) PROVE WorkInv'
  <2>1. PICK status : /\ Backfilling!SetRun(c, status) /\ job[c].pc = "batch" /\ job[c].start > Last(c)
                      /\ status = IF job[c].errors THEN "FAILED" ELSE "COMPLETED"
    BY <1>5 DEF Backfilling!Finish, Backfilling!At, Last
  <2>2. job[c].errors \in BOOLEAN
    BY <1>0 DEF JobType, Job
  <2>3. status = "COMPLETED" => job[c].errors = FALSE
    BY <2>1, <2>2
  <2> QED
    BY <1>0, <2>1, <2>3, SetWorks
<1>6. ASSUME NEW c \in Calls, Backfilling!Abandon(c) PROVE WorkInv'
  <2>1. Backfilling!SetRun(c, "FAILED") /\ job[c].pc = "catch"
    BY <1>6 DEF Backfilling!Abandon, Backfilling!At
  <2> QED
    BY <1>0, <2>1, SetWorks
<1>7. ASSUME NEW c \in Calls, Backfilling!Return(c) \/ Backfilling!Kill(c) PROVE WorkInv'
  <2>1. /\ job' = [job EXCEPT ![c] = Backfilling!Idle] /\ job[c].pc # "idle"
        /\ UNCHANGED <<runs, records, points, shared>>
    BY <1>7 DEF Backfilling!Return, Backfilling!Kill, Backfilling!At, Backfilling!rest,
       Backfilling!report
  <2> QED
    BY <1>0, <2>1, EndWorks
<1>8. ASSUME NEW c \in Calls, Backfilling!SkipUser(c) PROVE WorkInv'
  BY <1>0, <1>8, SkipWorks
<1>9. ASSUME NEW c \in Calls, Backfilling!RecordError(c) PROVE WorkInv'
  BY <1>0, <1>9, ErrorWorks
<1>10. ASSUME NEW c \in Calls, Backfilling!FindUser(c) \/ Backfilling!UpsertUser(c) \/ Backfilling!ReadKeys(c)
       PROVE  WorkInv'
  <2>1. job[c].pc \in Within /\ UNCHANGED <<runs, records, points, shared>>
    BY <1>10 DEF Backfilling!FindUser, Backfilling!UpsertUser, Backfilling!ReadKeys, Backfilling!At,
       Backfilling!rest, Backfilling!report, Within
  <2>2. Elsewhere(c) /\ SameUser(c) /\ job'[c].pc \in Within
    BY <1>0, <1>10, Finds, Upserts, Reads DEF Within
  <2> QED
    BY <1>0, <2>1, <2>2, StayWorks
<1>11. ASSUME NEW c \in Calls, Backfilling!Migrate(c) PROVE WorkInv'
  BY <1>0, <1>11, MigrateWorks
<1>12. ASSUME NEW c \in Calls, Backfilling!Fail(c) PROVE WorkInv'
  BY <1>0, <1>12, FailWorks
<1> QED
  BY <1>1, <1>2, <1>3, <1>4, <1>5, <1>6, <1>7, <1>8, <1>9, <1>10, <1>11, <1>12 DEF Backfilling!Next

LEMMA WorkingInit == ASSUME Backfilling!Migratable, Backfilling!Init PROVE WorkInv
<1>1. ReportType
  BY DEF Backfilling!Init, ReportType, Marks
<1>2. \A c \in Calls : job[c].pc = "idle"
  BY IdleJob DEF Backfilling!Init
<1>3. Alone /\ \A c \in Calls : Place(c) /\ Progress(c)
  BY <1>2 DEF Alone, Place, Progress, AtWork, Within
<1> QED
  BY <1>1, <1>3 DEF WorkInv

LEMMA WorkingInvariance == Backfilling!Spec => [](MoveInv /\ WorkInv)
<1>1. Backfilling!Init => MoveInv /\ WorkInv
  BY BackfillAssumption, MovingInit, WorkingInit
<1>2. MoveInv /\ WorkInv /\ [Backfilling!Next]_(Backfilling!vars) => (MoveInv /\ WorkInv)'
  BY BackfillAssumption, MovingNext, WorkingNext
<1> QED
  BY <1>1, <1>2, PTL DEF Backfilling!Spec

\* A run that is COMPLETED, with one call at a time at work on it, did all of its list,
\* whatever the lists, the size of a batch and the calls at work on other runs are: every
\* user who is not in conflict is on record as migrated, and every batch is closed.
THEOREM CompletedRunsAreDone == Backfilling!Spec => []CompletedIsMigrated
<1>1. MoveInv /\ WorkInv => CompletedIsMigrated
  <2> DEFINE All(c)  == \A u \in Backfilling!Listed(job[c].list) :
                          ~ Backfilling!Conflicting(job[c].list, u) =>
                              records[job[c].run][u] = "MIGRATED" /\ credits[u] # <<>>
             Each(c) == \A i \in DOMAIN job[c].list : (i - 1) % BatchSize = 0 =>
                          \E j \in DOMAIN job[c].list :
                            i <= j /\ j < i + BatchSize /\ points[job[c].run][<<i, j>>] = "COMPLETED"
  <2>0. SUFFICES \A c \in Calls : MoveInv /\ WorkInv /\ Complete(c) /\ job[c].run \notin shared =>
                                     (job[c].mode = "EXECUTE" => All(c)) /\ Each(c)
    BY DEF CompletedIsMigrated, Backfilling!CompletedIsMigrated, Backfilling!At, Complete
  <2> SUFFICES ASSUME MoveInv, WorkInv, NEW c \in Calls, Complete(c), job[c].run \notin shared
                 PROVE  (job[c].mode = "EXECUTE" => All(c)) /\ Each(c)
    OBVIOUS
  <2>2. PICK l, n, r : l = job[c].list /\ n = Len(l) /\ n \in Nat /\ DOMAIN l = 1 .. n /\ r = job[c].run
    <3>1. job[c].list \in Lists \cup {<<>>}
      BY DEF MoveInv, JobType, Job
    <3> QED
      BY <3>1, ListLength, BackfillAssumption
  <2>3. Complete(c) /\ Progress(c) /\ Through(c) = n + 1 /\ Closed(c) = n + 1
    BY <2>2 DEF WorkInv, Complete, Through, Closed, Last
  <2>4. (job[c].mode = "EXECUTE" => Migrated(c)) /\ Checked(c)
    BY <2>3 DEF Progress, Complete
  <2>5. \A k \in DOMAIN l : k < n + 1
    BY <2>2
  <2>6. ASSUME job[c].mode = "EXECUTE", NEW u \in Backfilling!Listed(job[c].list),
               ~ Backfilling!Conflicting(job[c].list, u)
        PROVE  records[r][u] = "MIGRATED" /\ credits[u] # <<>>
    <3>1. PICK k \in DOMAIN l : u = l[k]
      BY <2>2, <2>6 DEF Backfilling!Listed
    <3>2. k < Through(c) /\ ~ Backfilling!Conflicting(l, l[k])
      BY <2>2, <2>3, <2>5, <2>6, <3>1
    <3> QED
      BY <2>2, <2>3, <2>4, <2>6, <3>1, <3>2, MigratedNow
  <2>7. ASSUME NEW k \in DOMAIN job[c].list, (k - 1) % BatchSize = 0
        PROVE  \E j \in DOMAIN job[c].list : k <= j /\ j < k + BatchSize /\ points[r][<<k, j>>] = "COMPLETED"
    <3>1. Done(c, k)
      BY <2>2, <2>3, <2>4, <2>5, <2>7 DEF Checked, Opens
    <3> QED
      BY <2>2, <3>1 DEF Done
  <2> QED
    BY <2>2, <2>6, <2>7
<1> QED
  BY <1>1, WorkingInvariance, PTL
-----------------------------------------------------------------------------
(* CircuitBreaker *)

\* Where a call may stand: it has a chain, a row is kept only of a chain without a
\* contract, a toggle sent only to one with a contract.
PlaceInv ==
  \A c \in Calls :
    /\ stage[c] # "idle" => task[c].op # "none" /\ task[c].chain \in Chains /\ task[c].server \in Hosts
    /\ stage[c] = "toggle" => task[c].chain \in EVM
    /\ stage[c] = "log" => task[c].chain \notin EVM
    /\ stage[c] = "global" => Breaker!IsPanic(c)

BreakerTypeInv == Breaker!TypeOK /\ PlaceInv

Busy(c)   == stage[c] \in {"toggle", "note", "log"}
Panics(c) == stage[c] # "idle" /\ Breaker!IsPanic(c)

\* The chains that a panic is done with.
Behind(c) ==
  CASE stage[c] = "global" -> Chains
    [] stage[c] = "log"    -> Chains \ task[c].rest
    [] OTHER            -> Chains \ (task[c].rest \cup {task[c].chain})

\* Nothing is about to change chain k, and its contract, if it has one, is paused.
Stands(k) == ~ Breaker!Contended(k) /\ (k \in EVM => k \in paused)

\* No other call than c is about to toggle chain k.
Sole(c, k) == sent[k] = 0 /\ \A d \in Calls \ {c} : ~ (stage[d] = "toggle" /\ task[d].chain = k)

\* A chain that is held stands, in its contract or on record.
Holds(k) == k \in held => Stands(k) /\ (k \in EVM \/ k \in logged)

\* A call that pauses chain k, and did not miss it, will toggle it from active to paused,
\* or has it paused.
Aims(c, k) ==
  Busy(c) /\ Breaker!Pausing(c) /\ task[c].chain = k /\ k \notin missed[c] =>
    IF stage[c] = "toggle" THEN k \notin paused /\ Sole(c, k) ELSE Stands(k)

\* A chain that a panic is done with, and did not miss, stands, in its contract or in the
\* map of the server.
Reaches(c, k) ==
  Panics(c) /\ k \in Behind(c) \ missed[c] => Stands(k) /\ (k \in EVM \/ k \in local[task[c].server])

SafeInv == \A k \in Chains : Holds(k) /\ \A c \in Calls : Aims(c, k) /\ Reaches(c, k)
-----------------------------------------------------------------------------
(* The order of the chains *)

\* A number that nothing is below is the least.
LEMMA NotLess ==
  ASSUME NEW R, \A m, n \in Nat : m < n => <<m, n>> \in R,
         NEW S \in SUBSET Nat, NEW x \in S, \A y \in S : ~ (<<y, x>> \in R)
  PROVE  \A y \in S : x <= y
<1> SUFFICES ASSUME NEW y \in S PROVE x <= y
  OBVIOUS
<1>1. x \in Nat /\ y \in Nat
  OBVIOUS
<1>2. ~ (y < x)
  BY <1>1
<1> QED
  BY ONLY <1>1, <1>2

\* The next chain of a panic is one of those that are left.
LEMMA LeastIn ==
  ASSUME NEW S \in SUBSET Nat, S # {}
  PROVE  Breaker!Least(S) \in S
<1>1. IsWellFoundedOn(OpToRel(<, Nat), Nat)
  BY NatLessThanWellFounded
<1>2. \A m, n \in Nat : m < n => <<m, n>> \in OpToRel(<, Nat)
  BY Zenon DEF OpToRel
<1>3. \E x \in S : \A y \in S : ~ (<<y, x>> \in OpToRel(<, Nat))
  <2>1. S \subseteq Nat /\ S # {}
    OBVIOUS
  <2> QED
    BY ONLY <1>1, <2>1, WFMin
<1>4. \E x \in S : \A y \in S : x <= y
  BY <1>2, <1>3, NotLess, Zenon
<1> QED
  BY <1>4 DEF Breaker!Least
-----------------------------------------------------------------------------
(* How a call moves on *)

\* Calls other than c stand still.
OneCall(c) == \A d \in Calls \ {c} : stage'[d] = stage[d] /\ task'[d] = task[d]

\* A call that is done with its chain goes on to the next one, to the row for all, or
\* ends.
LEMMA DoneMoves ==
  ASSUME BreakerTypeInv, NEW c \in Calls, stage[c] \notin {"idle", "global"},
         Breaker!Finish(c) \/ (Breaker!IsPanic(c) /\ Breaker!Advance(c)),
         missed' \in [Calls -> SUBSET Chains]
  PROVE  /\ OneCall(c)
         /\ stage' \in [Calls -> {"idle", "read", "toggle", "note", "log", "global"}]
         /\ task' \in [Calls -> [op : {"none", "pause", "resume", "all", "watchdog"},
                                 server : Hosts \cup {Breaker!ALL}, chain : Chains \cup {Breaker!ALL},
                                 rest : SUBSET Chains]]
         /\ \/ stage'[c] = "idle"
            \/ stage'[c] = "global" /\ Breaker!IsPanic(c) /\ task'[c] = task[c] /\ task[c].rest = {}
            \/ /\ stage'[c] = "read" /\ Breaker!IsPanic(c)
               /\ task'[c].op = task[c].op /\ task'[c].server = task[c].server
               /\ task'[c].chain \in task[c].rest
               /\ task'[c].rest = task[c].rest \ {task'[c].chain}
<1> USE DEF BreakerTypeInv, Breaker!TypeOK, PlaceInv, OneCall
<1>1. CASE Breaker!Finish(c)
  BY <1>1 DEF Breaker!Finish, Breaker!NoJob, Breaker!ALL
<1>2. CASE Breaker!IsPanic(c) /\ Breaker!Advance(c) /\ task[c].rest = {}
  BY <1>2 DEF Breaker!Advance, Breaker!Goto
<1>3. CASE Breaker!IsPanic(c) /\ Breaker!Advance(c) /\ task[c].rest # {}
  <2> DEFINE first == Breaker!Least(task[c].rest)
  <2>1. task[c].rest \in SUBSET Nat
    BY BreakerChains
  <2>2. first \in task[c].rest
    BY <1>3, <2>1, LeastIn
  <2> HIDE DEF first
  <2>3. /\ stage' = [stage EXCEPT ![c] = "read"]
        /\ task' = [task EXCEPT ![c] = [op |-> task[c].op, server |-> task[c].server,
                                        chain |-> first, rest |-> task[c].rest \ {first}]]
    BY <1>3 DEF Breaker!Advance, first
  <2> QED
    BY <1>3, <2>2, <2>3
<1> QED
  BY <1>1, <1>2, <1>3
-----------------------------------------------------------------------------
(* Types and places, however calls overlap *)

LEMMA InitTypeInv == Breaker!Init => BreakerTypeInv
BY BreakerBounds DEF Breaker!Init, BreakerTypeInv, Breaker!TypeOK, PlaceInv, Breaker!NoJob, Breaker!ALL

\* What is left to show of a step of call c.
LEMMA StepTypeInv ==
  ASSUME BreakerTypeInv, NEW c \in Calls, OneCall(c),
         stage' \in [Calls -> {"idle", "read", "toggle", "note", "log", "global"}],
         task' \in [Calls -> [op : {"none", "pause", "resume", "all", "watchdog"},
                              server : Hosts \cup {Breaker!ALL}, chain : Chains \cup {Breaker!ALL},
                              rest : SUBSET Chains]],
         stage'[c] # "idle" => task'[c].op # "none" /\ task'[c].chain \in Chains /\ task'[c].server \in Hosts,
         stage'[c] = "toggle" => task'[c].chain \in EVM,
         stage'[c] = "log" => task'[c].chain \notin EVM,
         stage'[c] = "global" => task'[c].op \in {"all", "watchdog"}
  PROVE  PlaceInv'
<1> SUFFICES ASSUME NEW d \in Calls
             PROVE  /\ stage'[d] # "idle" => task'[d].op # "none" /\ task'[d].chain \in Chains
                                           /\ task'[d].server \in Hosts
                    /\ stage'[d] = "toggle" => task'[d].chain \in EVM
                    /\ stage'[d] = "log" => task'[d].chain \notin EVM
                    /\ stage'[d] = "global" => task'[d].op \in {"all", "watchdog"}
  BY DEF PlaceInv, Breaker!IsPanic
<1>1. CASE d = c
  BY <1>1
<1>2. CASE d # c
  BY <1>2 DEF OneCall, BreakerTypeInv, PlaceInv, Breaker!IsPanic
<1> QED
  BY <1>1, <1>2

LEMMA BeginTypeInv ==
  ASSUME BreakerTypeInv, NEW c \in Calls, NEW op \in {"pause", "resume", "all", "watchdog"},
         NEW s \in Hosts, NEW ch \in Chains, NEW rest \in SUBSET Chains,
         Breaker!Begin(c, op, s, ch, rest), told' \subseteq told
  PROVE  BreakerTypeInv'
<1> USE DEF Breaker!Begin
<1>1. OneCall(c)
  BY DEF OneCall, BreakerTypeInv, Breaker!TypeOK
<1>2. Breaker!TypeOK'
  BY DEF BreakerTypeInv, Breaker!TypeOK
<1>3. PlaceInv'
  BY <1>1, <1>2, StepTypeInv DEF BreakerTypeInv, Breaker!TypeOK
<1> QED
  BY <1>2, <1>3 DEF BreakerTypeInv

LEMMA StartTypeInv ==
  ASSUME BreakerTypeInv, NEW c \in Calls, NEW s \in Hosts,
         \/ \E ch \in Chains : Breaker!PauseChain(c, s, ch) \/ Breaker!ResumeChain(c, s, ch)
         \/ Breaker!PauseAllChains(c, "all", s)
         \/ Breaker!CheckAnomalies(c, s)
  PROVE  BreakerTypeInv'
<1>1. Breaker!Least(Chains) \in Chains /\ Chains \ {Breaker!Least(Chains)} \in SUBSET Chains
  BY BreakerChains, LeastIn
<1> QED
  BY <1>1, BeginTypeInv
     DEF Breaker!PauseChain, Breaker!ResumeChain, Breaker!PauseAllChains, Breaker!CheckAnomalies

LEMMA ReadTypeInv ==
  ASSUME BreakerTypeInv, NEW c \in Calls, Breaker!Read(c)
  PROVE  BreakerTypeInv'
<1>1. OneCall(c) /\ task[c].chain \in Chains
  BY DEF OneCall, BreakerTypeInv, Breaker!TypeOK, PlaceInv, Breaker!Read, Breaker!Goto
<1>2. told' \subseteq Chains /\ held' \subseteq Chains /\ missed' \in [Calls -> SUBSET Chains]
  BY <1>1 DEF Breaker!Read, Breaker!Looked, BreakerTypeInv, Breaker!TypeOK
<1>3. Breaker!TypeOK'
  BY <1>2 DEF BreakerTypeInv, Breaker!TypeOK, Breaker!Read, Breaker!Goto
<1>4. PlaceInv'
  BY <1>1, <1>3, StepTypeInv DEF BreakerTypeInv, Breaker!TypeOK, PlaceInv, Breaker!Read, Breaker!Goto
<1> QED
  BY <1>3, <1>4 DEF BreakerTypeInv

LEMMA ToggleTypeInv ==
  ASSUME BreakerTypeInv, NEW c \in Calls, Breaker!Toggle(c)
  PROVE  BreakerTypeInv'
<1>1. OneCall(c) /\ task[c].chain \in EVM
  BY DEF OneCall, BreakerTypeInv, Breaker!TypeOK, PlaceInv, Breaker!Toggle, Breaker!Goto
<1>2. Breaker!TypeOK'
  BY <1>1 DEF BreakerTypeInv, Breaker!TypeOK, Breaker!Toggle, Breaker!Goto, Breaker!Flip,
     Breaker!history
<1>3. PlaceInv'
  BY <1>1, <1>2, StepTypeInv DEF BreakerTypeInv, Breaker!TypeOK, PlaceInv, Breaker!Toggle, Breaker!Goto
<1> QED
  BY <1>2, <1>3 DEF BreakerTypeInv

\* Ways to leave a chain.
LEMMA DoneType ==
  ASSUME BreakerTypeInv, NEW c \in Calls, stage[c] \notin {"idle", "global"},
         Breaker!Done(c) \/ Breaker!Thrown(c)
  PROVE  missed' \in [Calls -> SUBSET Chains] /\ (Breaker!Finish(c) \/ (Breaker!IsPanic(c) /\ Breaker!Advance(c)))
<1>1. task[c].chain \in Chains
  BY DEF BreakerTypeInv, PlaceInv
<1> QED
  BY <1>1 DEF Breaker!Done, Breaker!Thrown, Breaker!Finish, Breaker!Miss, BreakerTypeInv, Breaker!TypeOK

LEMMA LeaveTypeInv ==
  ASSUME BreakerTypeInv, NEW c \in Calls, stage[c] \notin {"idle", "global"},
         Breaker!Done(c) \/ Breaker!Thrown(c)
  PROVE  PlaceInv' /\ (/\ stage' \in [Calls -> {"idle", "read", "toggle", "note", "log", "global"}]
                       /\ task' \in [Calls -> [op : {"none", "pause", "resume", "all", "watchdog"},
                                               server : Hosts \cup {Breaker!ALL}, chain : Chains \cup {Breaker!ALL},
                                               rest : SUBSET Chains]]
                       /\ missed' \in [Calls -> SUBSET Chains])
<1>1. missed' \in [Calls -> SUBSET Chains] /\ (Breaker!Finish(c) \/ (Breaker!IsPanic(c) /\ Breaker!Advance(c)))
  BY DoneType
<1> HIDE DEF Breaker!Done, Breaker!Thrown
<1>2. /\ OneCall(c)
      /\ stage' \in [Calls -> {"idle", "read", "toggle", "note", "log", "global"}]
      /\ task' \in [Calls -> [op : {"none", "pause", "resume", "all", "watchdog"},
                              server : Hosts \cup {Breaker!ALL}, chain : Chains \cup {Breaker!ALL},
                              rest : SUBSET Chains]]
      /\ \/ stage'[c] = "idle"
         \/ stage'[c] = "global" /\ Breaker!IsPanic(c) /\ task'[c] = task[c] /\ task[c].rest = {}
         \/ /\ stage'[c] = "read" /\ Breaker!IsPanic(c)
            /\ task'[c].op = task[c].op /\ task'[c].server = task[c].server
            /\ task'[c].chain \in task[c].rest
            /\ task'[c].rest = task[c].rest \ {task'[c].chain}
  BY <1>1, DoneMoves
<1>3. PlaceInv'
  BY <1>2, StepTypeInv DEF BreakerTypeInv, Breaker!TypeOK, PlaceInv, Breaker!IsPanic
<1> QED
  BY <1>1, <1>2, <1>3

LEMMA NoteTypeInv ==
  ASSUME BreakerTypeInv, NEW c \in Calls, Breaker!Note(c)
  PROVE  BreakerTypeInv'
<1>1. task[c].chain \in Chains /\ task[c].server \in Hosts
  BY DEF BreakerTypeInv, PlaceInv, Breaker!Note
<1>2. local' \in [Hosts -> SUBSET Chains] /\ told' \subseteq Chains /\ held' \subseteq Chains
  BY <1>1 DEF Breaker!Note, Breaker!Reported, Breaker!history, BreakerTypeInv, Breaker!TypeOK
<1>3. CASE task[c].chain \in EVM
  <2>1. Breaker!Done(c) /\ stage[c] = "note"
    BY <1>3 DEF Breaker!Note
  <2> QED
    BY <1>2, <2>1, LeaveTypeInv DEF Breaker!Note, BreakerTypeInv, Breaker!TypeOK
<1>4. CASE task[c].chain \notin EVM
  <2>1. Breaker!Goto(c, "log") /\ UNCHANGED missed
    BY <1>4 DEF Breaker!Note, Breaker!history
  <2>2. Breaker!TypeOK' /\ OneCall(c)
    BY <1>2, <2>1 DEF Breaker!Note, BreakerTypeInv, Breaker!TypeOK, Breaker!Goto, OneCall
  <2>3. PlaceInv'
    BY <1>1, <1>4, <2>1, <2>2, StepTypeInv
       DEF BreakerTypeInv, Breaker!TypeOK, PlaceInv, Breaker!Goto, Breaker!Note
  <2> QED
    BY <2>2, <2>3 DEF BreakerTypeInv
<1> QED
  BY <1>3, <1>4

LEMMA LogTypeInv ==
  ASSUME BreakerTypeInv, NEW c \in Calls, Breaker!Log(c)
  PROVE  BreakerTypeInv'
<1>1. task[c].chain \in Chains \ EVM /\ Breaker!Done(c) /\ stage[c] = "log"
  BY DEF BreakerTypeInv, PlaceInv, Breaker!Log
<1>2. /\ logged' \subseteq (Chains \ EVM) \cup {Breaker!ALL}
      /\ told' \subseteq Chains /\ held' \subseteq Chains
  BY <1>1 DEF Breaker!Log, Breaker!Reported, BreakerTypeInv, Breaker!TypeOK
<1> QED
  BY <1>1, <1>2, LeaveTypeInv DEF Breaker!Log, BreakerTypeInv, Breaker!TypeOK

LEMMA FinishTypeInv ==
  ASSUME BreakerTypeInv, NEW c \in Calls, Breaker!LogAll(c) \/ Breaker!LogAllFails(c)
  PROVE  BreakerTypeInv'
<1>0. breaks' \in 0..MaxBreaks
  BY BreakerBounds DEF Breaker!LogAll, Breaker!LogAllFails, Breaker!Fault, BreakerTypeInv, Breaker!TypeOK
<1>4. Breaker!Finish(c) /\ logged' \subseteq (Chains \ EVM) \cup {Breaker!ALL}
      /\ UNCHANGED <<paused, sent, local, told, held>>
  BY DEF Breaker!LogAll, Breaker!LogAllFails, BreakerTypeInv, Breaker!TypeOK
<1>1. Breaker!TypeOK' /\ OneCall(c)
  BY <1>0, <1>4 DEF Breaker!Finish, Breaker!NoJob, Breaker!ALL, BreakerTypeInv, Breaker!TypeOK, OneCall
<1>2. PlaceInv'
  BY <1>1, StepTypeInv DEF Breaker!LogAll, Breaker!LogAllFails, Breaker!Finish, Breaker!NoJob,
     BreakerTypeInv, Breaker!TypeOK
<1> QED
  BY <1>1, <1>2 DEF BreakerTypeInv

LEMMA ThrowTypeInv ==
  ASSUME BreakerTypeInv, NEW c \in Calls, Breaker!Throw(c)
  PROVE  BreakerTypeInv'
<1>1. Breaker!Thrown(c) /\ stage[c] \notin {"idle", "global"} /\ breaks' \in 0..MaxBreaks
  BY BreakerBounds DEF Breaker!Throw, Breaker!Fault, BreakerTypeInv, Breaker!TypeOK
<1>2. sent' \in [EVM -> Nat]
  BY DEF Breaker!Throw, BreakerTypeInv, Breaker!TypeOK, PlaceInv
<1> QED
  BY <1>1, <1>2, LeaveTypeInv DEF Breaker!Throw, BreakerTypeInv, Breaker!TypeOK

\* The instance counts as FiniteSets does.
LEMMA SameCount == \A S : Breaker!Cardinality(S) = Cardinality(S)
BY Zenon DEF Breaker!Cardinality, Cardinality

LEMMA RestartTypeInv ==
  ASSUME BreakerTypeInv, NEW s \in Hosts, Breaker!Restart(s)
  PROVE  BreakerTypeInv'
<1>1. sent' \in [EVM -> Nat]
  <2>1. PICK senders \in SUBSET {c \in Calls : stage[c] = "toggle" /\ task[c].server = s} :
          sent' = [ch \in EVM |-> sent[ch] + Cardinality({c \in senders : task[c].chain = ch})]
    BY SameCount, Zenon DEF Breaker!Restart
  <2>2. ASSUME NEW ch \in EVM PROVE Cardinality({c \in senders : task[c].chain = ch}) \in Nat
    <3>1. IsFiniteSet({c \in senders : task[c].chain = ch})
      BY BreakerCalls, FS_Subset
    <3> QED
      BY <3>1, FS_CardinalityType
  <2> QED
    BY <2>1, <2>2 DEF BreakerTypeInv, Breaker!TypeOK
<1>2. Breaker!TypeOK'
  BY <1>1, BreakerBounds
     DEF Breaker!Restart, Breaker!Fault, Breaker!NoJob, Breaker!ALL, BreakerTypeInv, Breaker!TypeOK
<1>3. PlaceInv'
  BY DEF Breaker!Restart, Breaker!NoJob, BreakerTypeInv, Breaker!TypeOK, PlaceInv, Breaker!IsPanic
<1> QED
  BY <1>2, <1>3 DEF BreakerTypeInv

LEMMA MineTypeInv ==
  ASSUME BreakerTypeInv, NEW ch \in EVM, Breaker!Mine(ch)
  PROVE  BreakerTypeInv'
<1>1. sent' \in [EVM -> Nat] /\ paused' \subseteq EVM
  BY DEF Breaker!Mine, Breaker!Flip, BreakerTypeInv, Breaker!TypeOK
<1> QED
  BY <1>1 DEF Breaker!Mine, Breaker!history, BreakerTypeInv, Breaker!TypeOK, PlaceInv, Breaker!IsPanic

LEMMA NextTypeInv == BreakerTypeInv /\ [Breaker!Next]_(Breaker!vars) => BreakerTypeInv'
<1> SUFFICES ASSUME BreakerTypeInv, [Breaker!Next]_(Breaker!vars) PROVE BreakerTypeInv'
  OBVIOUS
<1>1. CASE UNCHANGED Breaker!vars
  BY <1>1 DEF Breaker!vars, Breaker!history, BreakerTypeInv, Breaker!TypeOK, PlaceInv, Breaker!IsPanic
<1>2. ASSUME NEW c \in Calls, NEW s \in Hosts,
             \/ \E ch \in Chains : Breaker!PauseChain(c, s, ch) \/ Breaker!ResumeChain(c, s, ch)
             \/ Breaker!PauseAllChains(c, "all", s)
             \/ Breaker!CheckAnomalies(c, s)
      PROVE  BreakerTypeInv'
  BY <1>2, StartTypeInv
<1>3. ASSUME NEW c \in Calls, Breaker!Step(c) \/ Breaker!Throw(c) \/ Breaker!LogAllFails(c)
      PROVE  BreakerTypeInv'
  BY <1>3, ReadTypeInv, ToggleTypeInv, NoteTypeInv, LogTypeInv, FinishTypeInv, ThrowTypeInv
     DEF Breaker!Step
<1>4. ASSUME NEW s \in Hosts, Breaker!Restart(s) PROVE BreakerTypeInv'
  BY <1>4, RestartTypeInv
<1>5. ASSUME NEW ch \in EVM, Breaker!Mine(ch) PROVE BreakerTypeInv'
  BY <1>5, MineTypeInv
<1> QED
  BY <1>1, <1>2, <1>3, <1>4, <1>5 DEF Breaker!Next
-----------------------------------------------------------------------------
(* Safety, however calls overlap *)

LEMMA InitSafeInv == Breaker!Init => SafeInv
BY DEF Breaker!Init, SafeInv, Holds, Aims, Reaches, Busy, Panics

\* What c does leaves the others, and what they are done with, where they were.
LEMMA OthersStay ==
  ASSUME NEW c \in Calls, OneCall(c), NEW d \in Calls, d # c
  PROVE  /\ stage'[d] = stage[d] /\ task'[d] = task[d]
         /\ Busy(d)' = Busy(d) /\ Breaker!Pausing(d)' = Breaker!Pausing(d)
         /\ Panics(d)' = Panics(d) /\ Behind(d)' = Behind(d)
BY DEF OneCall, Busy, Breaker!Pausing, Panics, Breaker!IsPanic, Behind

\* A call that leaves its chain is at no chain, and has one more chain behind it.
LEMMA LeaveBehind ==
  ASSUME BreakerTypeInv, NEW c \in Calls, stage[c] \notin {"idle", "global"},
         Breaker!Done(c) \/ Breaker!Thrown(c)
  PROVE  /\ OneCall(c) /\ ~ Busy(c)'
         /\ Panics(c)' => /\ Panics(c)
                          /\ Behind(c)' \subseteq Behind(c) \cup {task[c].chain}
                          /\ stage[c] = "log" => Behind(c)' = Behind(c)
                          /\ task'[c].server = task[c].server
                          /\ Breaker!Done(c) => UNCHANGED missed
                          /\ Breaker!Thrown(c) => Breaker!Done(c) \/ Breaker!Miss(c)
         /\ \A d \in Calls \ {c} : missed'[d] = missed[d]
<1>1. missed' \in [Calls -> SUBSET Chains] /\ (Breaker!Finish(c) \/ (Breaker!IsPanic(c) /\ Breaker!Advance(c)))
  BY DoneType
<1>2. /\ OneCall(c)
      /\ \/ stage'[c] = "idle"
         \/ stage'[c] = "global" /\ Breaker!IsPanic(c) /\ task'[c] = task[c] /\ task[c].rest = {}
         \/ /\ stage'[c] = "read" /\ Breaker!IsPanic(c)
            /\ task'[c].op = task[c].op /\ task'[c].server = task[c].server
            /\ task'[c].chain \in task[c].rest
            /\ task'[c].rest = task[c].rest \ {task'[c].chain}
  BY <1>1, DoneMoves
<1>3. ~ Busy(c)'
  BY <1>2 DEF Busy
<1>4. \A d \in Calls \ {c} : missed'[d] = missed[d]
  BY DEF Breaker!Done, Breaker!Thrown, Breaker!Finish, Breaker!Miss, BreakerTypeInv, Breaker!TypeOK
<1>5. ASSUME Panics(c)'
      PROVE  /\ Panics(c)
             /\ Behind(c)' \subseteq Behind(c) \cup {task[c].chain}
             /\ stage[c] = "log" => Behind(c)' = Behind(c)
             /\ task'[c].server = task[c].server
  <2>1. CASE stage'[c] = "global" /\ Breaker!IsPanic(c) /\ task'[c] = task[c] /\ task[c].rest = {}
    BY <2>1 DEF Panics, Behind
  <2>2. CASE /\ stage'[c] = "read" /\ Breaker!IsPanic(c)
             /\ task'[c].op = task[c].op /\ task'[c].server = task[c].server
             /\ task'[c].chain \in task[c].rest
             /\ task'[c].rest = task[c].rest \ {task'[c].chain}
    BY <2>2 DEF Panics, Behind
  <2> QED
    BY <1>2, <1>5, <2>1, <2>2 DEF Panics
<1>6. ASSUME Panics(c)'
      PROVE  (Breaker!Done(c) => UNCHANGED missed) /\ (Breaker!Thrown(c) => Breaker!Done(c) \/ Breaker!Miss(c))
  <2>1. Breaker!IsPanic(c) /\ stage'[c] # "idle"
    BY <1>2, <1>6 DEF Panics
  <2> QED
    BY <2>1 DEF Breaker!Done, Breaker!Thrown
<1> QED
  BY <1>2, <1>3, <1>4, <1>5, <1>6

\* A chain stands on if its flag stays, no toggle of it is left to be mined, and c does not
\* come to toggle it or, where there is no contract, to resume it.
LEMMA StandsStays ==
  ASSUME NEW c \in Calls, OneCall(c), NEW k, Stands(k),
         k \in EVM => sent'[k] = sent[k] /\ (k \in paused => k \in paused'),
         ~ (stage'[c] = "toggle" /\ task'[c].chain = k),
         k \in EVM \/ ~ (Busy(c)' /\ task'[c].chain = k /\ ~ Breaker!Pausing(c)')
  PROVE  Stands(k)'
<1>1. CASE k \in EVM
  <2>1. ~ (sent'[k] > 0)
    BY <1>1 DEF Stands, Breaker!Contended
  <2>2. \A d \in Calls : ~ (stage'[d] = "toggle" /\ task'[d].chain = k)
    BY <1>1 DEF Stands, Breaker!Contended, OneCall
  <2> QED
    BY <1>1, <2>1, <2>2 DEF Stands, Breaker!Contended
<1>2. CASE k \notin EVM
  <2>1. \A d \in Calls : ~ (Busy(d)' /\ task'[d].chain = k /\ ~ Breaker!Pausing(d)')
    <3> SUFFICES ASSUME NEW d \in Calls, Busy(d)', task'[d].chain = k, ~ Breaker!Pausing(d)'
                 PROVE  FALSE
      OBVIOUS
    <3>1. d # c
      BY <1>2
    <3> QED
      BY <1>2, <3>1, OthersStay DEF Stands, Breaker!Contended, Breaker!At, Busy
  <2> QED
    BY <1>2, <2>1 DEF Stands, Breaker!Contended, Breaker!At, Busy
<1> QED
  BY <1>1, <1>2

\* So does a call that is the only one about to toggle its chain.
LEMMA SoleStays ==
  ASSUME NEW c \in Calls, OneCall(c), NEW d \in Calls, d # c, NEW k, Sole(d, k),
         sent'[k] = sent[k], ~ (stage'[c] = "toggle" /\ task'[c].chain = k)
  PROVE  Sole(d, k)'
BY DEF Sole, OneCall

\* What call d claims of chain k while c takes a step.
LEMMA OtherClaims ==
  ASSUME SafeInv, NEW c \in Calls, OneCall(c), NEW d \in Calls, d # c, NEW k \in Chains,
         missed[d] \subseteq missed'[d],
         k \notin missed'[d] /\ Stands(k) => Stands(k)',
         k \notin missed'[d] /\ Busy(d) /\ task[d].chain = k /\ k \notin paused /\ Sole(d, k)
           => k \notin paused' /\ Sole(d, k)',
         Panics(d) /\ Stands(k) /\ k \in local[task[d].server] => k \in EVM \/ k \in local'[task[d].server]
  PROVE  Aims(d, k)' /\ Reaches(d, k)'
<1>1. /\ stage'[d] = stage[d] /\ task'[d] = task[d]
      /\ Busy(d)' = Busy(d) /\ Breaker!Pausing(d)' = Breaker!Pausing(d)
      /\ Panics(d)' = Panics(d) /\ Behind(d)' = Behind(d)
  BY OthersStay
<1>2. Aims(d, k) /\ Reaches(d, k)
  BY DEF SafeInv
<1>3. Aims(d, k)'
  <2> SUFFICES ASSUME Busy(d)', Breaker!Pausing(d)', task'[d].chain = k, k \notin missed'[d]
               PROVE  IF stage'[d] = "toggle" THEN k \notin paused' /\ Sole(d, k)' ELSE Stands(k)'
    BY DEF Aims
  <2>1. Busy(d) /\ Breaker!Pausing(d) /\ task[d].chain = k /\ k \notin missed[d]
    BY <1>1
  <2>2. IF stage[d] = "toggle" THEN k \notin paused /\ Sole(d, k) ELSE Stands(k)
    BY <1>2, <2>1 DEF Aims
  <2> QED
    BY <1>1, <2>1, <2>2
<1>4. Reaches(d, k)'
  <2> SUFFICES ASSUME Panics(d)', k \in Behind(d)', k \notin missed'[d]
               PROVE  Stands(k)' /\ (k \in EVM \/ k \in local'[task'[d].server])
    BY DEF Reaches
  <2>1. Panics(d) /\ k \in Behind(d) /\ k \notin missed[d]
    BY <1>1
  <2>2. Stands(k) /\ (k \in EVM \/ k \in local[task[d].server])
    BY <1>2, <2>1 DEF Reaches
  <2> QED
    BY <1>1, <2>1, <2>2
<1> QED
  BY <1>3, <1>4

\* A call claims nothing of the chains as long as it is not at one and is no panic with
\* chains behind it.
LEMMA BeginSafeInv ==
  ASSUME BreakerTypeInv, SafeInv, NEW c \in Calls, NEW op, NEW s, NEW ch, NEW rest,
         op \in {"all", "watchdog"} => Chains \subseteq rest \cup {ch},
         Breaker!Begin(c, op, s, ch, rest)
  PROVE  SafeInv'
<1>1. /\ OneCall(c) /\ stage'[c] = "read" /\ task'[c].op = op /\ task'[c].chain = ch /\ task'[c].rest = rest
      /\ ~ Busy(c)'
  BY DEF Breaker!Begin, OneCall, BreakerTypeInv, Breaker!TypeOK, Busy
<1> SUFFICES ASSUME NEW k \in Chains
             PROVE  Holds(k)' /\ \A d \in Calls : Aims(d, k)' /\ Reaches(d, k)'
  BY DEF SafeInv
<1>2. UNCHANGED <<paused, sent, local, logged, held, missed>>
  BY DEF Breaker!Begin
<1>3. Stands(k) => Stands(k)'
  BY <1>1, <1>2, StandsStays
<1>4. Holds(k)'
  BY <1>2, <1>3 DEF SafeInv, Holds
<1>5. Aims(c, k)' /\ Reaches(c, k)'
  <2>1. Panics(c)' => k \notin Behind(c)'
    BY <1>1 DEF Behind, Panics, Breaker!IsPanic
  <2> QED
    BY <1>1, <2>1 DEF Aims, Reaches
<1>6. ASSUME NEW d \in Calls, d # c PROVE Aims(d, k)' /\ Reaches(d, k)'
  <2>1. Sole(d, k) => Sole(d, k)'
    BY <1>1, <1>2, <1>6, SoleStays
  <2> QED
    BY <1>1, <1>2, <1>3, <1>6, <2>1, OtherClaims
<1> QED
  BY <1>4, <1>5, <1>6

LEMMA StartSafeInv ==
  ASSUME BreakerTypeInv, SafeInv, NEW c \in Calls, NEW s \in Hosts,
         \/ \E ch \in Chains : Breaker!PauseChain(c, s, ch) \/ Breaker!ResumeChain(c, s, ch)
         \/ Breaker!PauseAllChains(c, "all", s)
         \/ Breaker!CheckAnomalies(c, s)
  PROVE  SafeInv'
<1>1. CASE \E ch \in Chains : Breaker!PauseChain(c, s, ch) \/ Breaker!ResumeChain(c, s, ch)
  BY <1>1, BeginSafeInv DEF Breaker!PauseChain, Breaker!ResumeChain
<1>2. CASE Breaker!PauseAllChains(c, "all", s) \/ Breaker!CheckAnomalies(c, s)
  BY <1>2, BeginSafeInv DEF Breaker!PauseAllChains, Breaker!CheckAnomalies
<1> QED
  BY <1>1, <1>2

\* A call that pauses toggles only a chain of which nothing is claimed that stands; one
\* that resumes withdraws all claims.
LEMMA ReadSafeInv ==
  ASSUME BreakerTypeInv, SafeInv, NEW c \in Calls, Breaker!Read(c)
  PROVE  SafeInv'
<1> DEFINE ch == task[c].chain
<1>1. /\ OneCall(c) /\ task'[c] = task[c] /\ stage[c] = "read" /\ stage'[c] \in {"toggle", "note"}
      /\ stage'[c] = "toggle" <=> ch \in EVM /\ (ch \in paused) # Breaker!Pausing(c)
      /\ UNCHANGED <<paused, sent, local, logged>>
      /\ ch \in Chains
  BY DEF Breaker!Read, Breaker!Goto, OneCall, BreakerTypeInv, Breaker!TypeOK, PlaceInv
<1>2. Breaker!Pausing(c)' = Breaker!Pausing(c) /\ Behind(c)' = Behind(c) /\ Panics(c)' = Panics(c)
      /\ ch \notin Behind(c) /\ ~ Busy(c) /\ (Panics(c) => Breaker!Pausing(c))
  BY <1>1 DEF Breaker!Pausing, Busy, Behind, Panics, Breaker!IsPanic
<1>3. ASSUME NEW d \in Calls, Busy(d) \/ Panics(d) PROVE d \in Breaker!Active
  BY <1>3 DEF Busy, Panics, Breaker!Active
<1> SUFFICES ASSUME NEW k \in Chains
             PROVE  Holds(k)' /\ \A d \in Calls : Aims(d, k)' /\ Reaches(d, k)'
  BY DEF SafeInv
<1>4. k # ch \/ Breaker!Pausing(c) => (Stands(k) => Stands(k)')
  <2> SUFFICES ASSUME k # ch \/ Breaker!Pausing(c), Stands(k) PROVE Stands(k)'
    OBVIOUS
  <2>1. ~ (stage'[c] = "toggle" /\ task'[c].chain = k)
    <3>1. CASE Breaker!Pausing(c) /\ k = ch
      <4>1. stage'[c] # "toggle"
        BY <1>1, <3>1, Zenon DEF Stands
      <4> QED
        BY <4>1
    <3>2. CASE k # ch
      BY <1>1, <3>2
    <3> QED
      BY <3>1, <3>2
  <2>2. ~ (task'[c].chain = k /\ ~ Breaker!Pausing(c)')
    BY <1>1, <1>2
  <2> QED
    BY <1>1, <2>1, <2>2, StandsStays
<1>5. Holds(k)'
  <2>1. held' = IF Breaker!Pausing(c) THEN held ELSE held \ {ch}
    BY DEF Breaker!Read, Breaker!Looked
  <2> QED
    BY <1>1, <1>4, <2>1 DEF SafeInv, Holds
<1>6. ASSUME NEW d \in Calls, d # c PROVE Aims(d, k)' /\ Reaches(d, k)'
  <2>1. /\ d \in Breaker!Active => missed[d] \subseteq missed'[d]
        /\ d \in Breaker!Active /\ k = ch => Breaker!Pausing(c) \/ k \in missed'[d]
        /\ Busy(d) /\ task[d].chain = k /\ stage'[c] = "toggle" /\ k = ch => k \in missed'[d]
    <3>1. CASE Breaker!Pausing(c)
      <4>1. Busy(d) /\ task[d].chain = k /\ k = ch => Breaker!At(d, ch)
        BY DEF Busy, Breaker!At
      <4>2. missed'[d] = IF (ch \in EVM /\ (ch \in paused) # Breaker!Pausing(c)) /\ Breaker!At(d, ch)
                           THEN missed[d] \cup {ch} ELSE missed[d]
        BY <1>6, <3>1 DEF Breaker!Read, Breaker!Looked
      <4> QED
        BY <1>1, <3>1, <4>1, <4>2
    <3>2. CASE ~ Breaker!Pausing(c)
      BY <1>3, <3>2 DEF Breaker!Read, Breaker!Looked
    <3> QED
      BY <3>1, <3>2
  <2>2. CASE Busy(d) \/ Panics(d)
    <3>1. d \in Breaker!Active
      BY <1>3, <2>2
    <3>2. missed[d] \subseteq missed'[d] /\ (k \notin missed'[d] /\ Stands(k) => Stands(k)')
      BY <1>4, <2>1, <3>1
    <3>3. k \notin missed'[d] /\ Busy(d) /\ task[d].chain = k /\ Sole(d, k) => Sole(d, k)'
      <4> SUFFICES ASSUME k \notin missed'[d], Busy(d), task[d].chain = k, Sole(d, k) PROVE Sole(d, k)'
        OBVIOUS
      <4>1. ~ (stage'[c] = "toggle" /\ task'[c].chain = k)
        BY <1>1, <2>1
      <4> QED
        BY <1>1, <1>6, <4>1, SoleStays
    <3> QED
      BY <1>1, <1>6, <3>2, <3>3, OtherClaims
  <2>3. CASE ~ Busy(d) /\ ~ Panics(d)
    BY <1>1, <1>6, <2>3, OthersStay DEF Aims, Reaches
  <2> QED
    BY <2>2, <2>3
<1>7. Aims(c, k)'
  <2> SUFFICES ASSUME Busy(c)', Breaker!Pausing(c)', task'[c].chain = k, k \notin missed'[c]
               PROVE  IF stage'[c] = "toggle" THEN k \notin paused' /\ Sole(c, k)' ELSE Stands(k)'
    BY DEF Aims
  <2>1. Breaker!Pausing(c) /\ k = ch
    BY <1>1, <1>2
  <2>2. missed'[c] = IF Breaker!Contended(ch) THEN missed[c] \cup {ch} ELSE missed[c] \ {ch}
    BY <2>1 DEF Breaker!Read, Breaker!Looked
  <2>3. ~ Breaker!Contended(k)
    BY <2>1, <2>2
  <2>4. CASE stage'[c] = "toggle"
    <3>1. k \in EVM /\ k \notin paused
      BY <1>1, <2>1, <2>4
    <3>2. sent[k] = 0 /\ \A d \in Calls : ~ (stage[d] = "toggle" /\ task[d].chain = k)
      <4>1. sent[k] \in Nat
        BY <3>1 DEF BreakerTypeInv, Breaker!TypeOK
      <4> QED
        BY <2>3, <3>1, <4>1 DEF Breaker!Contended
    <3>3. Sole(c, k)'
      BY <1>1, <3>2 DEF Sole, OneCall
    <3> QED
      BY <1>1, <2>4, <3>1, <3>3
  <2>5. CASE stage'[c] # "toggle"
    <3>1. Stands(k)
      BY <1>1, <2>1, <2>3, <2>5 DEF Stands
    <3> QED
      BY <1>4, <2>1, <2>5, <3>1
  <2> QED
    BY <2>4, <2>5
<1>8. Reaches(c, k)'
  <2> SUFFICES ASSUME Panics(c)', k \in Behind(c)', k \notin missed'[c]
               PROVE  Stands(k)' /\ (k \in EVM \/ k \in local'[task'[c].server])
    BY DEF Reaches
  <2>1. Panics(c) /\ k \in Behind(c) /\ k # ch /\ Breaker!Pausing(c)
    BY <1>2
  <2>2. missed'[c] = IF Breaker!Contended(ch) THEN missed[c] \cup {ch} ELSE missed[c] \ {ch}
    BY <2>1 DEF Breaker!Read, Breaker!Looked
  <2>3. k \notin missed[c]
    BY <2>1, <2>2
  <2> QED
    BY <1>1, <1>4, <2>1, <2>3 DEF SafeInv, Reaches
<1> QED
  BY <1>5, <1>6, <1>7, <1>8

\* The chain that is toggled did not stand before.
LEMMA ToggleSafeInv ==
  ASSUME BreakerTypeInv, SafeInv, NEW c \in Calls, Breaker!Toggle(c)
  PROVE  SafeInv'
<1> DEFINE ch == task[c].chain
<1>1. /\ OneCall(c) /\ task'[c] = task[c] /\ stage[c] = "toggle" /\ stage'[c] = "note"
      /\ ch \in EVM /\ UNCHANGED <<sent, local, logged, held, missed>> /\ Breaker!Flip(ch)
  BY DEF Breaker!Toggle, Breaker!Goto, OneCall, BreakerTypeInv, Breaker!TypeOK, PlaceInv, Breaker!history
<1>2. /\ Breaker!Pausing(c)' = Breaker!Pausing(c) /\ Busy(c)' /\ Busy(c) /\ Behind(c)' = Behind(c)
      /\ Panics(c)' = Panics(c)
  BY <1>1 DEF Breaker!Pausing, Busy, Behind, Panics, Breaker!IsPanic
<1> SUFFICES ASSUME NEW k \in Chains
             PROVE  Holds(k)' /\ \A d \in Calls : Aims(d, k)' /\ Reaches(d, k)'
  BY DEF SafeInv
<1>3. k # ch => (k \in paused' <=> k \in paused)
  BY <1>1 DEF Breaker!Flip
<1>4. Stands(k) => k # ch
  BY <1>1 DEF Stands, Breaker!Contended
<1>5. Stands(k) => Stands(k)'
  <2> SUFFICES ASSUME Stands(k) PROVE Stands(k)'
    OBVIOUS
  <2>1. k # ch /\ task'[c].chain # k
    BY <1>1, <1>4
  <2> QED
    BY <1>1, <1>3, <2>1, StandsStays
<1>6. Holds(k)'
  BY <1>1, <1>5 DEF SafeInv, Holds
<1>7. ASSUME NEW d \in Calls, d # c PROVE Aims(d, k)' /\ Reaches(d, k)'
  <2>1. Sole(d, k) => k # ch
    BY <1>1, <1>7 DEF Sole
  <2>2. Sole(d, k) => Sole(d, k)'
    BY <1>1, <1>7, SoleStays
  <2> QED
    BY <1>1, <1>3, <1>5, <1>7, <2>1, <2>2, OtherClaims
<1>8. Aims(c, k)'
  <2> SUFFICES ASSUME Breaker!Pausing(c)', task'[c].chain = k, k \notin missed'[c]
               PROVE  Stands(k)'
    BY <1>1 DEF Aims
  <2>1. k \notin paused /\ Sole(c, k) /\ k = ch
    BY <1>1, <1>2 DEF SafeInv, Aims
  <2>2. k \in paused'
    BY <1>1, <2>1 DEF Breaker!Flip
  <2>3. ~ (sent'[k] > 0) /\ \A d \in Calls : ~ (stage'[d] = "toggle" /\ task'[d].chain = k)
    BY <1>1, <2>1 DEF Sole, OneCall
  <2> QED
    BY <1>1, <2>1, <2>2, <2>3 DEF Stands, Breaker!Contended
<1>9. Reaches(c, k)'
  BY <1>1, <1>2, <1>5 DEF SafeInv, Reaches
<1> QED
  BY <1>6, <1>7, <1>8, <1>9

\* A call that leaves its chain leaves every other claim as it was.
LEMMA LeaveClaims ==
  ASSUME BreakerTypeInv, SafeInv, NEW c \in Calls, stage[c] \notin {"idle", "global"},
         Breaker!Done(c) \/ Breaker!Thrown(c), UNCHANGED paused,
         NEW k \in Chains, k \in EVM => sent'[k] = sent[k] \/ (stage[c] = "toggle" /\ task[c].chain = k),
         \A s \in Hosts : Stands(k) /\ k \in local[s] => k \in EVM \/ k \in local'[s]
  PROVE  /\ Stands(k) => Stands(k)'
         /\ Aims(c, k)'
         /\ \A d \in Calls : d # c => Aims(d, k)' /\ Reaches(d, k)'
<1>1. OneCall(c) /\ ~ Busy(c)' /\ \A d \in Calls \ {c} : missed'[d] = missed[d]
  BY LeaveBehind
<1>2. stage'[c] # "toggle"
  BY <1>1 DEF Busy
<1>3. Stands(k) => Stands(k)'
  <2> SUFFICES ASSUME Stands(k) PROVE Stands(k)'
    OBVIOUS
  <2>1. k \in EVM => sent'[k] = sent[k]
    BY DEF Stands, Breaker!Contended
  <2> QED
    BY <1>1, <1>2, <2>1, StandsStays
<1>4. Aims(c, k)'
  BY <1>1 DEF Aims
<1>5. ASSUME NEW d \in Calls, d # c PROVE Aims(d, k)' /\ Reaches(d, k)'
  <2>1. k \in EVM /\ Sole(d, k) => Sole(d, k)'
    <3> SUFFICES ASSUME k \in EVM, Sole(d, k) PROVE Sole(d, k)'
      OBVIOUS
    <3>1. sent'[k] = sent[k]
      BY <1>5 DEF Sole
    <3> QED
      BY <1>1, <1>2, <1>5, <3>1, SoleStays
  <2>2. Panics(d) => task[d].server \in Hosts
    BY DEF Panics, BreakerTypeInv, PlaceInv
  <2>3. CASE k \in EVM
    BY <1>1, <1>3, <1>5, <2>1, <2>2, <2>3, OtherClaims
  <2>4. CASE k \notin EVM
    <3>1. Aims(d, k) /\ Reaches(d, k)
      BY DEF SafeInv
    <3>2. /\ stage'[d] = stage[d] /\ task'[d] = task[d] /\ missed'[d] = missed[d]
          /\ Busy(d)' = Busy(d) /\ Breaker!Pausing(d)' = Breaker!Pausing(d)
          /\ Panics(d)' = Panics(d) /\ Behind(d)' = Behind(d)
      BY <1>1, <1>5, OthersStay
    <3>3. stage[d] = "toggle" => task[d].chain # k
      BY <2>4 DEF BreakerTypeInv, PlaceInv
    <3>4. Aims(d, k)'
      BY <1>3, <3>1, <3>2, <3>3 DEF Aims
    <3>5. Reaches(d, k)'
      BY <1>3, <2>2, <3>1, <3>2 DEF Reaches
    <3> QED
      BY <3>4, <3>5
  <2> QED
    BY <2>3, <2>4
<1> QED
  BY <1>3, <1>4, <1>5

LEMMA NoteSafeInv ==
  ASSUME BreakerTypeInv, SafeInv, NEW c \in Calls, Breaker!Note(c)
  PROVE  SafeInv'
<1> DEFINE ch == task[c].chain
<1>1. /\ stage[c] = "note" /\ Busy(c) /\ UNCHANGED <<paused, sent, logged>>
      /\ ch \in Chains /\ task[c].server \in Hosts
  BY DEF Breaker!Note, Busy, BreakerTypeInv, PlaceInv
<1>2. local' = [local EXCEPT ![task[c].server] = IF Breaker!Pausing(c) THEN @ \cup {ch} ELSE @ \ {ch}]
  BY DEF Breaker!Note
<1>3. /\ Panics(c) => Breaker!Pausing(c)
      /\ Breaker!Pausing(c) => ch \in local'[task[c].server]
  BY <1>1, <1>2 DEF Panics, Breaker!IsPanic, Breaker!Pausing, BreakerTypeInv, Breaker!TypeOK
<1> SUFFICES ASSUME NEW k \in Chains
             PROVE  Holds(k)' /\ \A d \in Calls : Aims(d, k)' /\ Reaches(d, k)'
  BY DEF SafeInv
<1>4. \A s \in Hosts : Stands(k) /\ k \in local[s] => k \in EVM \/ k \in local'[s]
  <2> SUFFICES ASSUME NEW s \in Hosts, Stands(k), k \in local[s], k \notin EVM PROVE k \in local'[s]
    OBVIOUS
  <2>1. ~ (ch = k /\ ~ Breaker!Pausing(c))
    BY <1>1 DEF Stands, Breaker!Contended, Breaker!At
  <2> QED
    BY <1>2, <2>1 DEF BreakerTypeInv, Breaker!TypeOK
<1>5. Breaker!Pausing(c) /\ k = ch /\ k \notin missed[c] => Stands(k)
  BY <1>1 DEF SafeInv, Aims
<1>6. CASE ch \in EVM
  <2>1. Breaker!Reported(c, ch) /\ Breaker!Done(c)
    BY <1>6 DEF Breaker!Note
  <2>2. /\ Stands(k) => Stands(k)'
        /\ Aims(c, k)'
        /\ \A d \in Calls : d # c => Aims(d, k)' /\ Reaches(d, k)'
    BY <1>1, <1>4, <2>1, LeaveClaims
  <2>3. Holds(k)'
    BY <1>1, <1>5, <1>6, <2>1, <2>2 DEF Breaker!Reported, SafeInv, Holds
  <2>4. Reaches(c, k)'
    <3> SUFFICES ASSUME Panics(c)', k \in Behind(c)', k \notin missed'[c]
                 PROVE  Stands(k)' /\ (k \in EVM \/ k \in local'[task'[c].server])
      BY DEF Reaches
    <3>1. /\ Panics(c) /\ Behind(c)' \subseteq Behind(c) \cup {ch} /\ task'[c].server = task[c].server
          /\ UNCHANGED missed
      BY <1>1, <2>1, LeaveBehind
    <3>2. CASE k = ch
      BY <1>3, <1>5, <1>6, <2>2, <3>1, <3>2
    <3>3. CASE k # ch
      BY <1>1, <1>4, <2>2, <3>1, <3>3 DEF SafeInv, Reaches
    <3> QED
      BY <3>2, <3>3
  <2> QED
    BY <2>2, <2>3, <2>4
<1>7. CASE ch \notin EVM
  <2>1. /\ OneCall(c) /\ task'[c] = task[c] /\ stage'[c] = "log" /\ UNCHANGED <<held, missed>>
    BY <1>7 DEF Breaker!Note, Breaker!Goto, Breaker!history, OneCall, BreakerTypeInv, Breaker!TypeOK
  <2>2. /\ Breaker!Pausing(c)' = Breaker!Pausing(c) /\ Panics(c)' = Panics(c)
        /\ Behind(c)' \subseteq Behind(c) \cup {ch}
    BY <1>1, <2>1 DEF Breaker!Pausing, Panics, Breaker!IsPanic, Behind
  <2>3. Stands(k) => Stands(k)'
    <3> SUFFICES ASSUME Stands(k) PROVE Stands(k)'
      OBVIOUS
    <3>1. k \in EVM \/ ~ (ch = k /\ ~ Breaker!Pausing(c))
      BY <1>1 DEF Stands, Breaker!Contended, Breaker!At
    <3> QED
      BY <1>1, <2>1, <2>2, <3>1, StandsStays
  <2>4. Holds(k)'
    BY <1>1, <2>1, <2>3 DEF SafeInv, Holds
  <2>5. Aims(c, k)'
    BY <1>5, <2>1, <2>2, <2>3 DEF Aims
  <2>6. Reaches(c, k)'
    <3> SUFFICES ASSUME Panics(c)', k \in Behind(c)', k \notin missed'[c]
                 PROVE  Stands(k)' /\ (k \in EVM \/ k \in local'[task'[c].server])
      BY DEF Reaches
    <3>1. Panics(c)
      BY <2>2
    <3>2. CASE k = ch
      BY <1>3, <1>5, <2>1, <2>3, <3>1, <3>2
    <3>3. CASE k # ch
      BY <1>1, <1>4, <2>1, <2>2, <2>3, <3>1, <3>3 DEF SafeInv, Reaches
    <3> QED
      BY <3>2, <3>3
  <2>7. ASSUME NEW d \in Calls, d # c PROVE Aims(d, k)' /\ Reaches(d, k)'
    <3>1. Sole(d, k) /\ k \in EVM => Sole(d, k)'
      BY <1>1, <2>1, <2>7, SoleStays
    <3>2. Panics(d) => task[d].server \in Hosts
      BY DEF Panics, BreakerTypeInv, PlaceInv
    <3>3. Sole(d, k) => Sole(d, k)'
      BY <1>1, <2>1, <2>7, SoleStays
    <3> QED
      BY <1>1, <1>4, <2>1, <2>3, <2>7, <3>2, <3>3, OtherClaims
  <2> QED
    BY <2>4, <2>5, <2>6, <2>7
<1> QED
  BY <1>6, <1>7

LEMMA LogSafeInv ==
  ASSUME BreakerTypeInv, SafeInv, NEW c \in Calls, Breaker!Log(c)
  PROVE  SafeInv'
<1> DEFINE ch == task[c].chain
<1>1. /\ stage[c] = "log" /\ Busy(c) /\ ch \in Chains \ EVM /\ Breaker!Done(c)
      /\ Breaker!Reported(c, ch) /\ UNCHANGED <<paused, sent, local>>
      /\ logged' = IF Breaker!Pausing(c) THEN logged \cup {ch} ELSE logged \ {ch}
  BY DEF Breaker!Log, Busy, BreakerTypeInv, PlaceInv
<1> SUFFICES ASSUME NEW k \in Chains
             PROVE  Holds(k)' /\ \A d \in Calls : Aims(d, k)' /\ Reaches(d, k)'
  BY DEF SafeInv
<1>2. /\ Stands(k) => Stands(k)'
      /\ Aims(c, k)'
      /\ \A d \in Calls : d # c => Aims(d, k)' /\ Reaches(d, k)'
  BY <1>1, LeaveClaims
<1>3. Holds(k)'
  <2> SUFFICES ASSUME k \in held' PROVE Stands(k)' /\ (k \in EVM \/ k \in logged')
    BY DEF Holds
  <2>1. CASE k = ch /\ Breaker!Pausing(c) /\ ch \notin missed[c]
    <3>1. Stands(k)
      BY <1>1, <2>1 DEF SafeInv, Aims
    <3> QED
      BY <1>1, <1>2, <2>1, <3>1
  <2>2. CASE k \in held
    <3>1. Stands(k) /\ (k \in EVM \/ k \in logged)
      BY <2>2 DEF SafeInv, Holds
    <3>2. ~ (k = ch /\ ~ Breaker!Pausing(c))
      BY <1>1, <3>1 DEF Stands, Breaker!Contended, Breaker!At
    <3> QED
      BY <1>1, <1>2, <3>1, <3>2
  <2> QED
    BY <1>1, <2>1, <2>2 DEF Breaker!Reported
<1>4. Reaches(c, k)'
  <2> SUFFICES ASSUME Panics(c)', k \in Behind(c)', k \notin missed'[c]
               PROVE  Stands(k)' /\ (k \in EVM \/ k \in local'[task'[c].server])
    BY DEF Reaches
  <2>1. Panics(c) /\ Behind(c)' = Behind(c) /\ task'[c].server = task[c].server /\ UNCHANGED missed
    BY <1>1, LeaveBehind
  <2> QED
    BY <1>1, <1>2, <2>1 DEF SafeInv, Reaches
<1> QED
  BY <1>2, <1>3, <1>4

LEMMA FinishSafeInv ==
  ASSUME BreakerTypeInv, SafeInv, NEW c \in Calls, Breaker!LogAll(c) \/ Breaker!LogAllFails(c)
  PROVE  SafeInv'
<1>1. /\ OneCall(c) /\ ~ Busy(c)' /\ ~ Panics(c)' /\ stage'[c] = "idle"
      /\ UNCHANGED <<paused, sent, local, held>>
      /\ \A d \in Calls \ {c} : missed'[d] = missed[d]
      /\ logged \subseteq logged'
  BY DEF Breaker!LogAll, Breaker!LogAllFails, Breaker!Finish, OneCall, Busy, Panics, BreakerTypeInv,
     Breaker!TypeOK
<1> SUFFICES ASSUME NEW k \in Chains
             PROVE  Holds(k)' /\ \A d \in Calls : Aims(d, k)' /\ Reaches(d, k)'
  BY DEF SafeInv
<1>2. Stands(k) => Stands(k)'
  BY <1>1, StandsStays
<1>3. Holds(k)'
  BY <1>1, <1>2 DEF SafeInv, Holds
<1>4. Aims(c, k)' /\ Reaches(c, k)'
  BY <1>1 DEF Aims, Reaches
<1>5. ASSUME NEW d \in Calls, d # c PROVE Aims(d, k)' /\ Reaches(d, k)'
  <2>1. Sole(d, k) => Sole(d, k)'
    BY <1>1, <1>5, SoleStays
  <2> QED
    BY <1>1, <1>2, <1>5, <2>1, OtherClaims
<1> QED
  BY <1>3, <1>4, <1>5

LEMMA ThrowSafeInv ==
  ASSUME BreakerTypeInv, SafeInv, NEW c \in Calls, Breaker!Throw(c)
  PROVE  SafeInv'
<1> DEFINE ch == task[c].chain
<1>1. /\ Breaker!Thrown(c) /\ stage[c] \notin {"idle", "global"}
      /\ UNCHANGED <<paused, local, logged, held>>
      /\ sent' = sent \/ (stage[c] = "toggle" /\ sent' = [sent EXCEPT ![ch] = @ + 1])
  BY DEF Breaker!Throw
<1> SUFFICES ASSUME NEW k \in Chains
             PROVE  Holds(k)' /\ \A d \in Calls : Aims(d, k)' /\ Reaches(d, k)'
  BY DEF SafeInv
<1>2. k \in EVM => sent'[k] = sent[k] \/ (stage[c] = "toggle" /\ ch = k)
  BY <1>1 DEF BreakerTypeInv, Breaker!TypeOK
<1>3. /\ Stands(k) => Stands(k)'
      /\ Aims(c, k)'
      /\ \A d \in Calls : d # c => Aims(d, k)' /\ Reaches(d, k)'
  BY <1>1, <1>2, LeaveClaims
<1>4. Holds(k)'
  BY <1>1, <1>3 DEF SafeInv, Holds
<1>5. Reaches(c, k)'
  <2> SUFFICES ASSUME Panics(c)', k \in Behind(c)', k \notin missed'[c]
               PROVE  Stands(k)' /\ (k \in EVM \/ k \in local'[task'[c].server])
    BY DEF Reaches
  <2>1. Panics(c) /\ Behind(c)' \subseteq Behind(c) \cup {ch} /\ task'[c].server = task[c].server
    BY <1>1, LeaveBehind
  <2>2. Breaker!Miss(c)
    BY <1>1, <2>1 DEF Breaker!Thrown, Panics
  <2>3. missed'[c] = missed[c] \cup {ch}
    BY <2>2 DEF Breaker!Miss, BreakerTypeInv, Breaker!TypeOK
  <2> QED
    BY <1>1, <1>3, <2>1, <2>3 DEF SafeInv, Reaches
<1> QED
  BY <1>3, <1>4, <1>5

\* A toggle that is mined was under way, and nothing was claimed of its chain.
LEMMA MineSafeInv ==
  ASSUME BreakerTypeInv, SafeInv, NEW ch \in EVM, Breaker!Mine(ch)
  PROVE  SafeInv'
<1>1. /\ sent[ch] > 0 /\ sent[ch] \in Nat
      /\ sent' = [sent EXCEPT ![ch] = @ - 1] /\ sent \in [EVM -> Nat]
      /\ Breaker!Flip(ch) /\ UNCHANGED <<local, logged, stage, task, held, missed>>
  BY DEF Breaker!Mine, Breaker!history, BreakerTypeInv, Breaker!TypeOK
<1> SUFFICES ASSUME NEW k \in Chains
             PROVE  Holds(k)' /\ \A d \in Calls : Aims(d, k)' /\ Reaches(d, k)'
  BY DEF SafeInv
<1>2. k # ch => (k \in paused' <=> k \in paused) /\ sent'[k] = sent[k]
  BY <1>1 DEF Breaker!Flip
<1>3. Stands(k) => Stands(k)'
  <2> SUFFICES ASSUME Stands(k) PROVE Stands(k)'
    OBVIOUS
  <2>1. k # ch
    BY <1>1 DEF Stands, Breaker!Contended
  <2> QED
    BY <1>1, <1>2, <2>1 DEF Stands, Breaker!Contended, Breaker!At, Breaker!Pausing
<1>4. Holds(k)'
  BY <1>1, <1>3 DEF SafeInv, Holds
<1>5. ASSUME NEW d \in Calls PROVE Aims(d, k)' /\ Reaches(d, k)'
  <2>1. /\ Busy(d)' = Busy(d) /\ Breaker!Pausing(d)' = Breaker!Pausing(d)
        /\ Panics(d)' = Panics(d) /\ Behind(d)' = Behind(d)
    BY <1>1 DEF Busy, Breaker!Pausing, Panics, Breaker!IsPanic, Behind
  <2>2. k \notin paused /\ Sole(d, k) => k \notin paused' /\ Sole(d, k)'
    <3> SUFFICES ASSUME k \notin paused, Sole(d, k) PROVE k \notin paused' /\ Sole(d, k)'
      OBVIOUS
    <3>1. k # ch
      BY <1>1 DEF Sole
    <3> QED
      BY <1>1, <1>2, <3>1 DEF Sole
  <2>3. Aims(d, k)'
    BY <1>1, <1>3, <2>1, <2>2 DEF SafeInv, Aims
  <2>4. Reaches(d, k)'
    BY <1>1, <1>3, <2>1 DEF SafeInv, Reaches
  <2> QED
    BY <2>3, <2>4
<1> QED
  BY <1>4, <1>5

\* The calls that a restart cuts off were about to toggle where they leave a toggle.
LEMMA RestartSafeInv ==
  ASSUME BreakerTypeInv, SafeInv, NEW s \in Hosts, Breaker!Restart(s)
  PROVE  SafeInv'
<1>1. PICK senders \in SUBSET {c \in Calls : stage[c] = "toggle" /\ task[c].server = s} :
        sent' = [ch \in EVM |-> sent[ch] + Cardinality({c \in senders : task[c].chain = ch})]
  BY SameCount, Zenon DEF Breaker!Restart
<1>2. /\ UNCHANGED <<paused, logged, held>> /\ local' = [local EXCEPT ![s] = {}]
      /\ stage' = [c \in Calls |-> IF task[c].server = s THEN "idle" ELSE stage[c]]
      /\ task' = [c \in Calls |-> IF task[c].server = s THEN Breaker!NoJob ELSE task[c]]
      /\ missed' = [c \in Calls |-> IF task[c].server = s THEN {} ELSE missed[c]]
  BY DEF Breaker!Restart
<1> SUFFICES ASSUME NEW k \in Chains
             PROVE  Holds(k)' /\ \A d \in Calls : Aims(d, k)' /\ Reaches(d, k)'
  BY DEF SafeInv
<1>3. ASSUME NEW d \in Calls, stage'[d] # "idle"
      PROVE  /\ stage'[d] = stage[d] /\ task'[d] = task[d] /\ task[d].server # s /\ missed'[d] = missed[d]
             /\ Busy(d)' = Busy(d) /\ Breaker!Pausing(d)' = Breaker!Pausing(d)
             /\ Panics(d)' = Panics(d) /\ Behind(d)' = Behind(d)
  <2>1. stage'[d] = stage[d] /\ task'[d] = task[d] /\ task[d].server # s /\ missed'[d] = missed[d]
    BY <1>2, <1>3
  <2> QED
    BY <2>1 DEF Busy, Breaker!Pausing, Panics, Breaker!IsPanic, Behind
<1>4. ASSUME k \in EVM, \A c \in senders : task[c].chain # k PROVE sent'[k] = sent[k]
  <2>1. {c \in senders : task[c].chain = k} = {}
    BY <1>4
  <2>2. Cardinality({c \in senders : task[c].chain = k}) = 0
    BY <2>1, FS_EmptySet
  <2>3. sent[k] \in Nat
    BY <1>4 DEF BreakerTypeInv, Breaker!TypeOK
  <2> QED
    BY <1>1, <1>4, <2>2, <2>3
<1>5. Stands(k) => Stands(k)'
  <2> SUFFICES ASSUME Stands(k) PROVE Stands(k)'
    OBVIOUS
  <2>1. CASE k \in EVM
    <3>1. \A c \in Calls : ~ (stage[c] = "toggle" /\ task[c].chain = k)
      BY <2>1 DEF Stands, Breaker!Contended
    <3>2. sent'[k] = sent[k]
      BY <1>1, <1>4, <2>1, <3>1
    <3>3. \A c \in Calls : ~ (stage'[c] = "toggle" /\ task'[c].chain = k)
      BY <1>3, <3>1
    <3> QED
      BY <1>2, <2>1, <3>2, <3>3 DEF Stands, Breaker!Contended
  <2>2. CASE k \notin EVM
    <3>1. ASSUME NEW d \in Calls, Breaker!At(d, k)', ~ Breaker!Pausing(d)' PROVE FALSE
      <4>1. stage'[d] # "idle"
        BY <3>1 DEF Breaker!At
      <4> QED
        BY <1>3, <2>2, <3>1, <4>1 DEF Stands, Breaker!Contended, Breaker!At
    <3> QED
      BY <2>2, <3>1 DEF Stands, Breaker!Contended
  <2> QED
    BY <2>1, <2>2
<1>6. Holds(k)'
  BY <1>2, <1>5 DEF SafeInv, Holds
<1>7. ASSUME NEW d \in Calls, stage'[d] # "idle" PROVE Aims(d, k)' /\ Reaches(d, k)'
  <2>1. stage[d] = "toggle" /\ task[d].chain = k /\ Sole(d, k) => Sole(d, k)'
    <3> SUFFICES ASSUME stage[d] = "toggle", task[d].chain = k, Sole(d, k) PROVE Sole(d, k)'
      OBVIOUS
    <3>1. k \in EVM
      BY DEF BreakerTypeInv, PlaceInv
    <3>2. d \notin senders /\ \A c \in senders : task[c].chain # k
      BY <1>3, <1>7 DEF Sole
    <3>3. sent'[k] = sent[k]
      BY <1>4, <3>1, <3>2
    <3>4. \A c \in Calls \ {d} : ~ (stage'[c] = "toggle" /\ task'[c].chain = k)
      BY <1>3 DEF Sole
    <3> QED
      BY <3>3, <3>4 DEF Sole
  <2>2. Aims(d, k)'
    BY <1>2, <1>3, <1>5, <1>7, <2>1 DEF SafeInv, Aims
  <2>3. Panics(d) => local'[task[d].server] = local[task[d].server]
    BY <1>2, <1>3, <1>7 DEF Panics, BreakerTypeInv, Breaker!TypeOK, PlaceInv
  <2>4. Reaches(d, k)'
    BY <1>3, <1>5, <1>7, <2>3 DEF SafeInv, Reaches
  <2> QED
    BY <2>2, <2>4
<1>8. ASSUME NEW d \in Calls, stage'[d] = "idle" PROVE Aims(d, k)' /\ Reaches(d, k)'
  BY <1>8 DEF Aims, Reaches, Busy, Panics
<1> QED
  BY <1>6, <1>7, <1>8

LEMMA NextSafeInv == BreakerTypeInv /\ SafeInv /\ [Breaker!Next]_(Breaker!vars) => SafeInv'
<1> SUFFICES ASSUME BreakerTypeInv, SafeInv, [Breaker!Next]_(Breaker!vars)
             PROVE SafeInv'
  OBVIOUS
<1>1. CASE UNCHANGED Breaker!vars
  <2>1. UNCHANGED <<paused, sent, local, logged, stage, task, held, missed>>
    BY <1>1 DEF Breaker!vars, Breaker!history
  <2> QED
    BY <2>1 DEF SafeInv, Holds, Aims, Reaches, Stands, Sole, Breaker!Contended, Breaker!At,
       Busy, Breaker!Pausing, Panics, Breaker!IsPanic, Behind
<1>2. ASSUME NEW c \in Calls, NEW s \in Hosts,
             \/ \E ch \in Chains : Breaker!PauseChain(c, s, ch) \/ Breaker!ResumeChain(c, s, ch)
             \/ Breaker!PauseAllChains(c, "all", s)
             \/ Breaker!CheckAnomalies(c, s)
      PROVE  SafeInv'
  BY <1>2, StartSafeInv
<1>3. ASSUME NEW c \in Calls, Breaker!Step(c) \/ Breaker!Throw(c) \/ Breaker!LogAllFails(c)
      PROVE  SafeInv'
  BY <1>3, ReadSafeInv, ToggleSafeInv, NoteSafeInv, LogSafeInv, FinishSafeInv, ThrowSafeInv
     DEF Breaker!Step
<1>4. ASSUME NEW ch \in EVM, Breaker!Mine(ch) PROVE SafeInv'
  BY <1>4, MineSafeInv
<1>5. ASSUME NEW s \in Hosts, Breaker!Restart(s) PROVE SafeInv'
  BY <1>5, RestartSafeInv
<1> QED
  BY <1>1, <1>2, <1>3, <1>4, <1>5 DEF Breaker!Next
-----------------------------------------------------------------------------
(* Theorems *)

LEMMA TypesHold == Breaker!Spec => []BreakerTypeInv
BY InitTypeInv, NextTypeInv, PTL DEF Breaker!Spec

\* Maps, rows, flags and calls are well typed however calls overlap and fail.  In
\* particular resumeChain never has a row of an EVM chain to resolve.
THEOREM BreakerTypes == Breaker!Spec => []Breaker!TypeOK
<1>1. BreakerTypeInv => Breaker!TypeOK
  BY DEF BreakerTypeInv
<1> QED
  BY <1>1, TypesHold, PTL

LEMMA SafetyHolds == Breaker!Spec => []SafeInv
BY NextSafeInv, InitSafeInv, TypesHold, PTL DEF Breaker!Spec

\* What pauseChain, pauseAllChains or the watchdog reported paused on an EVM chain, with no
\* other toggle of it due or under way while they worked, stays paused until resumeChain:
\* a lost receipt, a repeated pause or a restart never toggles it back.  A chain without a
\* contract keeps an unresolved PanicLog row as long.
THEOREM PausesHold == Breaker!Spec => []PauseHolds
<1>1. BreakerTypeInv /\ SafeInv => PauseHolds
  <2> SUFFICES ASSUME BreakerTypeInv, SafeInv, NEW k \in held
               PROVE  (k \in EVM => k \in paused) /\ (k \notin EVM => k \in logged)
    BY DEF PauseHolds, Breaker!PauseHolds, Breaker!PausedUntilResumed, Breaker!PausedIsLogged
  <2>1. k \in Chains
    BY DEF BreakerTypeInv, Breaker!TypeOK
  <2> QED
    BY <2>1 DEF SafeInv, Holds, Stands
<1> QED
  BY <1>1, SafetyHolds, TypesHold, PTL

\* pauseAllChains leaves behind it only chains that are paused, that failed, that another
\* toggle was about to change, or that someone resumed.
THEOREM PanicsReachAll == Breaker!Spec => []PanicReachesAll
<1>1. BreakerTypeInv /\ SafeInv => PanicReachesAll
  <2> SUFFICES ASSUME BreakerTypeInv, SafeInv, NEW c \in Calls, stage[c] = "global",
                      NEW k \in Chains \ missed[c]
               PROVE  k \in IF k \in EVM THEN paused ELSE local[task[c].server]
    BY DEF PanicReachesAll, Breaker!PanicReachesAll
  <2>1. Panics(c) /\ Behind(c) = Chains
    BY DEF BreakerTypeInv, PlaceInv, Panics, Behind
  <2> QED
    BY <2>1 DEF SafeInv, Reaches, Stands
<1> QED
  BY <1>1, SafetyHolds, TypesHold, PTL
=============================================================================
