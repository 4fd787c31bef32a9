------------------------------ MODULE Deposits ------------------------------
(***************************************************************************)
(* BlockchainObserverService and WalletService for one EVM chain: tenants  *)
(* ask for a deposit address, transfers are mined towards it, and every    *)
(* server's observer polls the chain for them, records each as a Deposit   *)
(* and confirms it once it is deep enough.                                 *)
(*                                                                         *)
(* The chain is the environment: it grows, and may replace its last        *)
(* blocks.  A scan and a call of createWallet are processes, each await of *)
(* theirs that another process can come between is a step.  A coin is a    *)
(* stablecoin contract; an address is the account index it is derived      *)
(* from.                                                                   *)
(***************************************************************************)
EXTENDS Naturals, Sequences, FiniteSets

CONSTANTS Tenants, Txs, Coins,  \* Coins: the number of stablecoin contracts
          Logs,                 \* Logs[x]: the coins that transaction x transfers
          Servers,              \* each with an observer of its own
          Asks,                 \* calls of getDepositAddress under way at once
          None,
          Lookback,             \* blocks a new observer looks back: 100
          MaxBack,              \* blocks a scan looks back at most: 500
          Required,             \* confirmationThreshold: 12
          MaxReorg,             \* assumption: blocks that the chain may replace
          Before,               \* wallets that may exist at the start
          MaxHeight, MaxAsks,   \* bounds
          MaxFaults             \* bound: failures, restarts and reorganisations

ASSUME DepositsAssumption ==
    /\ \A x \in Txs : Logs[x] # {} /\ Logs[x] \subseteq 1 .. Coins
    /\ {Coins, Lookback, MaxBack, Required, MaxReorg, MaxHeight} \subseteq Nat /\ MaxReorg <= Required
    /\ Before \subseteq SUBSET [tenant : Tenants, index : Nat]

VARIABLES
    head,      \* the chain's height
    mined,     \* per transaction: its block, 0 while it has none, and whom its logs pay
    wallets,   \* UserWallet rows: tenant and accountIndex
    deposits,  \* Deposit rows, by txHash
    scan,      \* per server: lastScannedBlock and the scan under way
    ask,       \* calls of getDepositAddress
    asks, faults,
    displaced, \* history: transactions that a reorganisation took out or put in
    covered    \* history: per server, blocks its finished scans went through

vars  == <<head, mined, wallets, deposits, scan, ask, asks, faults, displaced, covered>>
chain == <<head, mined, displaced>>
desk  == <<wallets, ask, asks>>

Address(index) == index       \* KMSService.deriveAddress: the tenant plays no part in it
Addresses == {Address(w.index) : w \in wallets}
Idle      == [pc |-> "idle", last |-> None, from |-> 1, to |-> 0, wallet |-> <<>>, coin |-> 1,
              todo |-> {}, tx |-> None, at |-> 0, grown |-> 0]
Quiet     == [pc |-> "idle", tenant |-> None, index |-> 0]

Init ==
    /\ head = 1
    /\ mined = [x \in Txs |-> [at |-> 0, pays |-> <<>>]]
    /\ wallets \in Before /\ deposits = [x \in Txs |-> <<>>]
    /\ scan = [s \in Servers |-> Idle]
    /\ ask = [a \in Asks |-> Quiet]
    /\ asks = 0 /\ faults = 0
    /\ displaced = {} /\ covered = [s \in Servers |-> {}]

-----------------------------------------------------------------------------
(* The chain. *)

\* A block, with at most one transaction, which pays addresses handed out
\* before.  Assumption: fewer blocks are added between a scan's reading of a
\* receipt and its reading of the height than a reorganisation leaves of the
\* required depth.
Mine ==
    /\ head < MaxHeight
    /\ \A s \in Servers : scan[s].pc = "depth" => scan[s].grown < Required - MaxReorg
    /\ head' = head + 1
    /\ \/ UNCHANGED mined
       \/ \E x \in Txs : \E pays \in [Logs[x] -> Addresses] :
            /\ mined[x].at = 0 /\ mined[x].pays \in {<<>>, pays}
            /\ mined' = [mined EXCEPT ![x] = [at |-> head + 1, pays |-> pays]]
    /\ scan' = [s \in Servers |-> IF scan[s].pc = "depth" THEN [scan[s] EXCEPT !.grown = @ + 1]
                                  ELSE scan[s]]
    /\ UNCHANGED <<desk, deposits, faults, displaced, covered>>

\* One of the last blocks is replaced by one without the transaction it had,
\* or with one that waited.
Reorganise ==
    /\ faults < MaxFaults /\ faults' = faults + 1
    /\ \E x \in Txs :
         /\ displaced' = displaced \cup {x}
         /\ \/ /\ mined[x].at # 0 /\ head - mined[x].at < MaxReorg
               /\ mined' = [mined EXCEPT ![x].at = 0]
            \/ /\ mined[x].at = 0 /\ mined[x].pays # <<>>
               /\ mined' = [mined EXCEPT ![x].at = head]
    /\ UNCHANGED <<head, desk, deposits, scan, covered>>

-----------------------------------------------------------------------------
(* Wallets. *)

\* getDepositAddress finds no wallet of the tenant, nor does createWallet; one
\* that it finds is returned, and nothing changes.
Ask(a) ==
    /\ ask[a].pc = "idle" /\ asks < MaxAsks
    /\ asks' = asks + 1
    /\ \E t \in Tenants :
         /\ \A w \in wallets : w.tenant # t
         /\ ask' = [ask EXCEPT ![a] = [Quiet EXCEPT !.pc = "index", !.tenant = t]]
    /\ UNCHANGED <<chain, wallets, deposits, scan, faults, covered>>

\* The next index among the tenant's wallets of the chain.
NextIndex(a) ==
    LET own == {w.index : w \in {v \in wallets : v.tenant = ask[a].tenant}} IN
      /\ ask[a].pc = "index"
      /\ \E i \in {0} \cup {j + 1 : j \in own} :
           /\ \A j \in own : j < i
           /\ ask' = [ask EXCEPT ![a].pc = "create", ![a].index = i]
      /\ UNCHANGED <<chain, wallets, deposits, scan, asks, faults, covered>>

\* (tenantId, address, chain) is unique: of two overlapping calls one may fail.
CreateWallet(a) ==
    /\ ask[a].pc = "create"
    /\ wallets' = wallets \cup {[tenant |-> ask[a].tenant, index |-> ask[a].index]}
    /\ ask' = [ask EXCEPT ![a] = Quiet]
    /\ UNCHANGED <<chain, deposits, scan, asks, faults, covered>>

-----------------------------------------------------------------------------
(* A scan. *)

Still == UNCHANGED <<chain, desk, faults>>
Step(s, pc, to) == scan[s].pc = pc /\ scan' = [scan EXCEPT ![s] = to]
Larger(i, j) == IF i > j THEN i ELSE j
Less(i, j)   == IF i > j THEN i - j ELSE 0

\* scanAllChains, unless one is under way (isRunning): the height is read first.
Begin(s) ==
    LET last == IF scan[s].last = None THEN Less(head, Lookback) ELSE scan[s].last IN
      /\ Step(s, "idle", [scan[s] EXCEPT !.pc = "wallets", !.to = head, !.coin = 1,
                                         !.from = Larger(last + 1, Less(head, MaxBack))])
      /\ Still /\ UNCHANGED <<deposits, covered>>

Covered(s) == [covered EXCEPT ![s] = @ \cup (scan[s].from .. scan[s].to)]

\* Of the rows with one address the last one read stays in addressToWallet.
ReadWallets(s) ==
    /\ scan[s].pc = "wallets"
    /\ IF wallets = {}
       THEN Step(s, "wallets", [Idle EXCEPT !.last = scan[s].to]) /\ covered' = Covered(s)
       ELSE /\ \E owner \in [Addresses -> Tenants] :
                 /\ \A i \in Addresses : \E w \in wallets : w.tenant = owner[i] /\ Address(w.index) = i
                 /\ Step(s, "wallets", [scan[s] EXCEPT !.pc = "query", !.wallet = owner])
            /\ UNCHANGED covered
    /\ Still /\ UNCHANGED deposits

\* The Transfer events of the next coin to the addresses known.
Query(s) ==
    /\ \E coin \in 1 .. Coins :
         /\ \/ scan[s].pc = "query" /\ coin = 1
            \/ scan[s].pc = "upsert" /\ scan[s].todo = {} /\ coin = scan[s].coin + 1
         /\ scan' = [scan EXCEPT ![s].pc = "upsert", ![s].coin = coin,
              ![s].todo = {x \in Txs : /\ mined[x].at \in scan[s].from .. scan[s].to /\ coin \in Logs[x]
                                       /\ mined[x].pays[coin] \in DOMAIN scan[s].wallet}]
    /\ Still /\ UNCHANGED <<deposits, covered>>

\* Mutation: a deposit is looked up by the transaction and the coin.
UpsertDeposit_PerCoin(s) ==
    /\ \E x \in scan[s].todo :
         /\ Step(s, "upsert", [scan[s] EXCEPT !.todo = @ \ {x}])
         /\ deposits' = [deposits EXCEPT ![x] = Append(@,
                           [tenant |-> scan[s].wallet[mined[x].pays[scan[s].coin]],
                            coin |-> scan[s].coin, status |-> "PENDING"])]
    /\ Still /\ UNCHANGED covered

\* txHash is unique: a transaction that has a row, for whichever of its
\* transfers, is left as it is.
UpsertDeposit(s) ==
    /\ \E x \in scan[s].todo :
         /\ Step(s, "upsert", [scan[s] EXCEPT !.todo = @ \ {x}])
         /\ deposits' = [deposits EXCEPT ![x] = IF @ # <<>> THEN @ ELSE
                           <<[tenant |-> scan[s].wallet[mined[x].pays[scan[s].coin]],
                              coin |-> scan[s].coin, status |-> "PENDING"]>>]
    /\ Still /\ UNCHANGED covered

Pending == {x \in Txs : deposits[x] # <<>> /\ deposits[x][1].status = "PENDING"}
\* The rows still to confirm; without any the scan is over.
Left(last, todo) == [Idle EXCEPT !.pc = IF todo = {} THEN "idle" ELSE "receipt", !.last = last, !.todo = todo]

\* Mutation: the scan is noted up to the height the chain has by now.
NoteScanned_Head(s) ==
    /\ scan[s].todo = {} /\ scan[s].coin = Coins
    /\ Step(s, "upsert", Left(head, Pending))
    /\ covered' = [covered EXCEPT ![s] = @ \cup (scan[s].from .. head)]
    /\ Still /\ UNCHANGED deposits

\* lastScannedBlock is set, then checkConfirmationsForChain reads the rows.
NoteScanned(s) ==
    /\ scan[s].todo = {} /\ scan[s].coin = Coins
    /\ Step(s, "upsert", Left(scan[s].to, Pending))
    /\ covered' = Covered(s)
    /\ Still /\ UNCHANGED deposits

\* A transaction without a receipt is left pending.
ReadReceipt(s) ==
    /\ \E x \in scan[s].todo :
         Step(s, "receipt", IF mined[x].at = 0 THEN Left(scan[s].last, scan[s].todo \ {x})
            ELSE [scan[s] EXCEPT !.pc = "depth", !.todo = @ \ {x}, !.tx = x, !.at = mined[x].at,
                                !.grown = 0])
    /\ Still /\ UNCHANGED <<deposits, covered>>

Deep(s) == head - scan[s].at >= Required

\* The height, and the update of a deposit that is deep enough.
Confirm(s) ==
    /\ Step(s, "depth", Left(scan[s].last, scan[s].todo))
    /\ deposits' = IF Deep(s)
                   THEN [deposits EXCEPT ![scan[s].tx] =
                          [i \in DOMAIN @ |-> [@[i] EXCEPT !.status = "CONFIRMED"]]]
                   ELSE deposits
    /\ Still /\ UNCHANGED covered

\* A call to the node or the database throws: scanAllChains ends the scan of
\* the chain.  A restart forgets the block scanned last as well.
Fail(s) ==
    /\ faults < MaxFaults /\ faults' = faults + 1
    /\ \/ scan[s].pc # "idle" /\ scan' = [scan EXCEPT ![s] = [Idle EXCEPT !.last = scan[s].last]]
       \/ scan[s] # Idle /\ scan' = [scan EXCEPT ![s] = Idle]
    /\ UNCHANGED <<chain, desk, deposits, covered>>

Next ==
    \/ Mine \/ Reorganise
    \/ \E a \in Asks : Ask(a) \/ NextIndex(a) \/ CreateWallet(a)
    \/ \E s \in Servers :
         \/ Begin(s) \/ ReadWallets(s) \/ Query(s) \/ UpsertDeposit(s) \/ NoteScanned(s)
         \/ ReadReceipt(s) \/ Confirm(s) \/ Fail(s)

Spec == Init /\ [][Next]_vars

-----------------------------------------------------------------------------
(* Properties. *)

\* getBalance: the CONFIRMED deposits of a tenant.  Nothing writes an outgoing
\* ChainTransaction from a wallet's address, so nothing is subtracted.
Rows(t)    == {r \in Txs \X (1 .. Coins) :
                 /\ r[2] \in DOMAIN deposits[r[1]]
                 /\ deposits[r[1]][r[2]].tenant = t /\ deposits[r[1]][r[2]].status = "CONFIRMED"}
Balance(t) == Cardinality(Rows(t))
Final(x)   == mined[x].at # 0 /\ head - mined[x].at >= Required

\* What tenants can see on their balances is on the chain for good: with
\* overlapping scans of several servers, restarts and reorganisations a
\* CONFIRMED deposit is of a final transaction that pays an address of the
\* tenant, and of each transaction one transfer is counted, to one tenant.
BalancesAreFunded ==
    /\ \A t \in Tenants, r \in Txs \X (1 .. Coins) : r \in Rows(t) =>
         /\ Final(r[1])
         /\ [tenant |-> t, index |-> mined[r[1]].pays[deposits[r[1]][r[2]].coin]] \in wallets
    /\ \A x \in Txs : Cardinality({r \in UNION {Rows(t) : t \in Tenants} : r[1] = x}) <= 1

\* A block that a server counts as scanned holds no transfer to a deposit
\* address whose transaction has no Deposit row, unless the chain replaced the
\* block since: a failed or an overlapping scan skips nothing.
NothingMissed ==
    \A s \in Servers, x \in Txs :
      (mined[x].at \in covered[s] /\ x \notin displaced) => deposits[x] # <<>>
=============================================================================
