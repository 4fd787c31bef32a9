--------------------------- MODULE ChainAdapters ---------------------------
(***************************************************************************)
(* The five IDLTAdapters: how each turns a call into a transaction of the  *)
(* platform's own account, and what it does until it answers.              *)
(*                                                                         *)
(* A method is the sequence of its awaits and of the checks that may       *)
(* throw, taken from its source; the actions below carry them out one at a *)
(* time, between the steps of other calls (the API, the queue and the      *)
(* retry worker share the account, a new adapter is made for each call)    *)
(* and of the ledger.  Nothing is shared between ledgers, so a behaviour   *)
(* is about one of them.                                                   *)
(***************************************************************************)
EXTENDS Naturals, Sequences, FiniteSets

CONSTANTS Ledgers,   \* the chains considered
          Escrows, Calls, None,
          MaxCalls   \* bound: calls ever made, and so transactions

VARIABLES
    ledger,    \* the chain of this behaviour
    next,      \* the account's sequence number: the next transaction to be mined
    pool,      \* transactions the node took and has not mined
    mined,     \* transactions mined, and whether each succeeded
    escrow,    \* the contract's escrows
    allowed,   \* what the contract may draw of the account's tokens, in escrows
    call,      \* calls under way: operation, steps left, sequence number, transaction
    calls,
    rows,      \* ChainTransaction rows
    answers    \* history: what calls returned

vars == <<ledger, next, pool, mined, escrow, allowed, call, calls, rows, answers>>
node == <<next, pool, mined, escrow, allowed>>
book == <<rows, answers>>

-----------------------------------------------------------------------------
(* The methods.  On EVM chains the signer asks for a sequence number and an *)
(* estimate before it submits; with a token, an approval goes first.        *)

EvmSubmit == <<"sequence", "simulate", "submit", "wait">>
Approve   == <<"approval", "sequence", "simulate", "submit", "wait", "call">>

EthAnchor  == <<"check">> \o EvmSubmit \o <<"confirmed">>
EthCreate  == <<"check">> \o EvmSubmit \o <<"confirmed">>
EthToken   == <<"check">> \o Approve \o EvmSubmit \o <<"confirmed">>
\* Mutation: the receipt is not waited for.
EthRelease_NoWait == <<"sequence", "simulate", "submit", "confirmed">>

EthRelease == EvmSubmit \o <<"confirmed">>
EthCancel  == EvmSubmit \o <<"confirmed">>
EthSend    == <<"check">> \o EvmSubmit \o <<"confirmed">>
EthReceive == <<"expected">>
EthTransition == [create |-> EthCreate, createToken |-> EthToken, release |-> EthRelease,
                  cancel |-> EthCancel]

\* PolygonAdapter also checks, in each method, that its contract is configured.
PolygonAnchor  == <<"check">> \o EvmSubmit \o <<"confirmed">>
PolygonCreate  == <<"check">> \o EvmSubmit \o <<"confirmed">>
PolygonToken   == <<"check">> \o Approve \o EvmSubmit \o <<"confirmed">>
PolygonRelease == <<"check">> \o EvmSubmit \o <<"confirmed">>
PolygonCancel  == <<"check">> \o EvmSubmit \o <<"confirmed">>
PolygonSend    == <<"check">> \o EvmSubmit \o <<"confirmed">>
PolygonReceive == <<"expected">>
PolygonTransition == [create |-> PolygonCreate, createToken |-> PolygonToken,
                      release |-> PolygonRelease, cancel |-> PolygonCancel]

\* submitSorobanTransaction submits, and polls for a limited time.
SorobanSubmit  == <<"account", "simulate", "submit", "poll">>
SorobanAnchor  == <<"check">> \o SorobanSubmit \o <<"confirmed">>
SorobanCreate  == <<"check">> \o SorobanSubmit \o <<"confirmed">>
SorobanRelease == SorobanSubmit \o <<"confirmed">>
SorobanCancel  == SorobanSubmit \o <<"confirmed">>
SorobanSend    == <<"check", "account", "submit", "poll", "confirmed">>
SorobanReceive == <<"expected">>
SorobanTransition == [create |-> SorobanCreate, createToken |-> SorobanCreate,
                      release |-> SorobanRelease, cancel |-> SorobanCancel]

\* confirmTransaction resolves when the transaction is mined, and tells of its
\* failure in a value that nothing looks at.  Anchors leave no row.
SolanaLog      == <<"simulate", "submit", "confirm">>
SolanaState    == <<"simulate", "submit", "confirm">>
SolanaAnchor   == [log |-> <<"check">> \o SolanaLog, state |-> <<"check">> \o SolanaState]
SolanaCreate   == <<"check", "simulate", "submit", "confirm", "confirmed">>
SolanaRelease  == <<"simulate", "submit", "confirm", "confirmed">>
SolanaCancel   == <<"simulate", "submit", "confirm", "confirmed">>
SolanaSend     == <<"check", "simulate", "submit", "confirm", "confirmed">>
SolanaReceive  == <<"expected">>
SolanaTransition == [create |-> SolanaCreate, createToken |-> SolanaCreate,
                     release |-> SolanaRelease, cancel |-> SolanaCancel]

\* Nothing is waited for, and an escrow is a payment to its receiver.
AlgorandAnchor  == <<"check", "submit", "pending">>
AlgorandCreate  == <<"check", "submit", "pending">>
AlgorandRelease == <<"refuse">>
AlgorandCancel  == <<"refuse">>
AlgorandSend    == <<"check", "submit", "pending">>
AlgorandReceive == <<"expected">>
AlgorandTransition == [create |-> AlgorandCreate, createToken |-> AlgorandCreate,
                       release |-> AlgorandRelease, cancel |-> AlgorandCancel]

Transitions == {"create", "createToken", "release", "cancel"}
Ops         == Transitions \cup {"anchor", "send", "receive"}

\* DLTAdapterFactory.getAdapter.
Adapter ==
    [ETHEREUM |-> EthTransition, POLYGON |-> PolygonTransition, STELLAR |-> SorobanTransition,
     SOLANA |-> SolanaTransition, ALGORAND |-> AlgorandTransition]
Anchor == [ETHEREUM |-> EthAnchor, POLYGON |-> PolygonAnchor, STELLAR |-> SorobanAnchor,
           SOLANA |-> SolanaAnchor.log, ALGORAND |-> AlgorandAnchor]
Send == [ETHEREUM |-> EthSend, POLYGON |-> PolygonSend, STELLAR |-> SorobanSend,
         SOLANA |-> SolanaSend, ALGORAND |-> AlgorandSend]
Receive == [ETHEREUM |-> EthReceive, POLYGON |-> PolygonReceive, STELLAR |-> SorobanReceive,
            SOLANA |-> SolanaReceive, ALGORAND |-> AlgorandReceive]

Method(op) == CASE op \in Transitions -> Adapter[ledger][op] [] op = "anchor" -> Anchor[ledger]
                [] op = "send" -> Send[ledger] [] op = "receive" -> Receive[ledger]

-----------------------------------------------------------------------------
(* The ledger: a contract that takes an escrow once and settles it once. *)

Evm     == ledger \in {"ETHEREUM", "POLYGON"}
Ordered == Evm \/ ledger = "STELLAR"

Accepts(op, e) ==
    \/ op \in {"anchor", "send", "approve"} \/ ledger = "ALGORAND"
    \/ op = "create" /\ escrow[e] = "none"
    \/ op = "createToken" /\ escrow[e] = "none" /\ (Evm => allowed > 0)
    \/ op \in {"release", "cancel"} /\ escrow[e] = "locked"

Took(tx)    == [tx |-> tx, ok |-> TRUE] \in mined
Refused(tx) == [tx |-> tx, ok |-> FALSE] \in mined

Init ==
    /\ ledger \in Ledgers
    /\ next = 1 /\ pool = {} /\ mined = {} /\ allowed = 0
    /\ escrow \in [Escrows -> {"none", "locked"}]
    /\ call = [c \in Calls |-> None]
    /\ calls = 0 /\ rows = {} /\ answers = {}

\* A transaction is mined, in the order of the account's numbers where it has
\* them; one that the contract refuses is mined as failed.
MineTx ==
    /\ \E tx \in pool :
         /\ Ordered => tx.seq = next
         /\ next' = next + 1
         /\ pool' = pool \ {tx}
         /\ mined' = mined \cup {[tx |-> tx, ok |-> Accepts(tx.op, tx.e)]}
         /\ escrow' = IF ~Accepts(tx.op, tx.e) \/ tx.op \in {"anchor", "send", "approve"} THEN escrow
                      ELSE [escrow EXCEPT ![tx.e] = CASE tx.op = "release" -> "released"
                             [] tx.op = "cancel" -> "cancelled"
                             [] OTHER -> IF ledger = "ALGORAND" THEN "released" ELSE "locked"]
         /\ allowed' = IF tx.op = "approve" THEN 1
                       ELSE IF tx.op = "createToken" /\ Evm /\ Accepts(tx.op, tx.e) THEN 0 ELSE allowed
    /\ UNCHANGED <<ledger, call, calls, book>>

\* It expires, or the nodes forget it.
DropTx ==
    /\ \E tx \in pool : pool' = pool \ {tx}
    /\ UNCHANGED <<ledger, next, mined, escrow, allowed, call, calls, book>>

-----------------------------------------------------------------------------
(* The steps. *)

At(c, step) == call[c] # None /\ call[c].todo # <<>> /\ Head(call[c].todo) = step
Done(c)     == [call[c] EXCEPT !.todo = Tail(@)]
Goes(c, to) == call' = [call EXCEPT ![c] = to]
Self        == UNCHANGED <<ledger, node, calls, book>>

Invoke(c) ==
    /\ call[c] = None /\ calls < MaxCalls
    /\ calls' = calls + 1
    /\ \E op \in Ops, e \in Escrows :
         Goes(c, [op |-> op, e |-> e, sends |-> op, todo |-> Method(op), seq |-> 0, tx |-> None,
                  n |-> calls + 1])
    /\ UNCHANGED <<ledger, node, book>>

\* A signature, a sender, a tenant, a balance or the configuration: what is
\* wrong with it throws (Throw).
Check(c) == At(c, "check") /\ Goes(c, Done(c)) /\ Self

Approval(c) == At(c, "approval") /\ Goes(c, [Done(c) EXCEPT !.sends = "approve"]) /\ Self
TheCall(c)  == At(c, "call") /\ Goes(c, [Done(c) EXCEPT !.sends = call[c].op]) /\ Self

\* EVM: the transactions in the pool count.
ReadSequence(c) ==
    At(c, "sequence") /\ Goes(c, [Done(c) EXCEPT !.seq = next + Cardinality(pool)]) /\ Self

\* loadAccount: those mined count.
LoadAccount(c) == At(c, "account") /\ Goes(c, [Done(c) EXCEPT !.seq = next]) /\ Self

\* Gas estimate, simulation or preflight of what the contract would do now.
Simulate(c) ==
    /\ At(c, "simulate") /\ Accepts(call[c].sends, call[c].e)
    /\ Goes(c, Done(c)) /\ Self

Tx(c) == [n |-> call[c].n, op |-> call[c].sends, e |-> call[c].e, seq |-> call[c].seq]

\* The node refuses a used number, and on Stellar a second transaction of an
\* account; on EVM chains a number still in the pool may replace what has it.
Submit(c) ==
    /\ At(c, "submit")
    /\ Ordered => call[c].seq >= next
    /\ ledger = "STELLAR" => pool = {} /\ call[c].seq = next
    /\ pool' = {tx \in pool : ~Evm \/ tx.seq # call[c].seq} \cup {Tx(c)}
    /\ Goes(c, [Done(c) EXCEPT !.tx = Tx(c)])
    /\ UNCHANGED <<ledger, next, mined, escrow, allowed, calls, book>>

\* tx.wait() throws for a transaction that failed or was replaced.
AwaitReceipt(c) == At(c, "wait") /\ Took(call[c].tx) /\ Goes(c, Done(c)) /\ Self

\* Mutation: after its last attempt the poll gives up and returns.
PollResult_GiveUp(c) == At(c, "poll") /\ ~Refused(call[c].tx) /\ Goes(c, Done(c)) /\ Self

\* waitForSorobanSuccess, and Horizon's answer to a payment.
PollResult(c) == At(c, "poll") /\ Took(call[c].tx) /\ Goes(c, Done(c)) /\ Self

AwaitConfirmation(c) ==
    At(c, "confirm") /\ (Took(call[c].tx) \/ Refused(call[c].tx)) /\ Goes(c, Done(c)) /\ Self

\* logTransaction: what the insert throws is only printed, and a row of the
\* adapters' 'SYSTEM' needs a tenant of that id.
LogTransaction(c) ==
    \E step \in {"confirmed", "pending", "expected"} :
      /\ At(c, step)
      /\ Goes(c, Done(c))
      /\ \/ rows' = rows \cup {[op |-> call[c].op, e |-> call[c].e, tx |-> call[c].tx,
                                status |-> IF step = "confirmed" THEN "CONFIRMED" ELSE "PENDING"]}
         \/ UNCHANGED rows
      /\ UNCHANGED <<ledger, node, calls, answers>>

Answer(c) ==
    /\ call[c] # None /\ call[c].todo = <<>>
    /\ answers' = answers \cup {[op |-> call[c].op, e |-> call[c].e, tx |-> call[c].tx]}
    /\ Goes(c, None)
    /\ UNCHANGED <<ledger, node, calls, rows>>

\* Any step may throw: a check fails, the contract would refuse, the node does
\* not answer, the transaction failed, was replaced or not seen in time, or the
\* server stops.  The caller learns nothing of what was submitted.
Throw(c) ==
    /\ call[c] # None /\ call[c].todo # <<>>
    /\ Goes(c, None)
    /\ Self

Next ==
    \/ MineTx \/ DropTx
    \/ \E c \in Calls :
         \/ Invoke(c) \/ Check(c) \/ Approval(c) \/ TheCall(c) \/ ReadSequence(c) \/ LoadAccount(c)
         \/ Simulate(c) \/ Submit(c) \/ AwaitReceipt(c) \/ PollResult(c) \/ AwaitConfirmation(c)
         \/ LogTransaction(c) \/ Answer(c) \/ Throw(c)

Spec == Init /\ [][Next]_vars

-----------------------------------------------------------------------------
(* Properties. *)

\* The ledgers whose adapters wait for success: on Algorand nothing is waited
\* for, and on Solana a failed transaction is waited for like any other.
Waiting == Ordered

\* verifyAnchor, without a hash to compare.
EthVerify(tx)     == Took(tx)
PolygonVerify(tx) == Took(tx)
SorobanVerify(tx) == Took(tx)
Verify(tx) == CASE ledger = "ETHEREUM" -> EthVerify(tx) [] ledger = "POLYGON" -> PolygonVerify(tx)
                [] OTHER -> SorobanVerify(tx)

\* On Ethereum, Polygon and Stellar a transaction id that a call returned, or
\* that a CONFIRMED row names, is one that verifyAnchor would vouch for: calls
\* that throw on the way, share sequence numbers or replace each other's
\* transactions never report one that did not happen.
ConfirmedIsMined ==
    Waiting => /\ \A r \in rows : r.status = "CONFIRMED" => Verify(r.tx)
               /\ \A a \in answers : a.op # "receive" => Verify(a.tx)

\* On those chains, however releases and cancels of an escrow overlap and are
\* repeated, at most one is reported as done; and none unless the contract
\* holds the escrow as settled that way.
OneSettlement ==
    LET done(e) == {a \in answers : a.e = e /\ a.op \in {"release", "cancel"}} IN
      Waiting => \A e \in Escrows :
        /\ Cardinality(done(e)) <= 1
        /\ \A a \in done(e) : escrow[e] = (IF a.op = "release" THEN "released" ELSE "cancelled")
=============================================================================
