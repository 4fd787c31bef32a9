--------------------------- MODULE MCPlatformJobs ---------------------------
(***************************************************************************)
(* A behaviour is one of Deposits, Backfill, ChainAdapters and             *)
(* CircuitBreaker at work while the others stay as they began.             *)
(***************************************************************************)
EXTENDS PlatformJobs, TLC

CONSTANTS e1, d1,
          Parts     \* those of the four that may be at work

VARIABLES part

\* Deposits: the tenants have no wallet yet, or one each; one transaction
\* transfers both coins.
FirstWallet(t) == [tenant |-> t, index |-> 0]
MCBefore       == {{}, {FirstWallet(t) : t \in Tenants}}
MCLogs         == 1 :> {1, 2}

\* Backfill: two users with one e-mail and two with one document, and assets of theirs
\* under three names.
MCSource == (1 :> [email |-> e1, doc |-> d1]) @@ (2 :> [email |-> e1, doc |-> None])
            @@ (3 :> [email |-> None, doc |-> d1])
MCOwned  == {[asset |-> "a", ref |-> 1], [asset |-> "a", ref |-> d1], [asset |-> "b", ref |-> e1]}
MCLists  == {<<1, 2, 3>>, <<1, 2>>}

\* What is not at work begins in one way only.
JobsInit ==
    /\ part \in Parts
    /\ Init /\ Backfilling!Init /\ Adapting!Init /\ Breaker!Init
    /\ part # "deposits" => wallets = {}
    /\ part # "adapters" => ledger = "STELLAR" /\ escrow[1] = "none"
    /\ part # "breaker" => paused = {}

Watches == part = "deposits" /\ Next /\ UNCHANGED <<part, backfill, adapter, breaker>>
Moves   == part = "backfill" /\ Backfilling!Next /\ UNCHANGED <<part, deposit, adapter, breaker>>
Submits == part = "adapters" /\ Adapting!Next /\ UNCHANGED <<part, deposit, backfill, breaker>>
Halts   == part = "breaker" /\ Breaker!Next /\ UNCHANGED <<part, deposit, backfill, adapter>>

JobsNext == Watches \/ Moves \/ Submits \/ Halts

JobsSpec == JobsInit /\ [][JobsNext]_<<part, deposit, backfill, adapter, breaker>>

Alike == Permutations(Servers) \cup Permutations(Tenants) \cup Permutations(Calls)
=============================================================================
