---------------------------- MODULE PlatformJobs ----------------------------
(***************************************************************************)
(* Deposits, Backfill, ChainAdapters and CircuitBreaker side by side: they *)
(* share no table and no variable.                                         *)
(***************************************************************************)
EXTENDS Deposits

CONSTANTS Ledgers, Escrows, Calls, MaxCalls,
          Users, Source, Owned, Lists, BatchSize, TenantUsers, Runs,
          Chains, EVM, Hosts, MaxActive, MaxBreaks

VARIABLES ledger, next, pool, included, escrow, allowed, call, calls, rows, answers
VARIABLES people, owners, credits, qtags, runs, points, records, job, jobs, mishaps, shared
VARIABLES paused, sent, local, logged, stage, task, breaks, told, held, missed

deposit  == <<head, mined, wallets, deposits, scan, ask, asks, faults, displaced, covered>>
adapter  == <<ledger, next, pool, included, escrow, allowed, call, calls, rows, answers>>
backfill == <<people, owners, credits, qtags, runs, points, records, job, jobs, mishaps, shared>>
breaker  == <<paused, sent, local, logged, stage, task, breaks, told, held, missed>>

Adapting    == INSTANCE ChainAdapters WITH mined <- included
Backfilling == INSTANCE Backfill WITH call <- job, calls <- jobs, faults <- mishaps
Breaker     == INSTANCE CircuitBreaker WITH Servers <- Hosts, MaxFaults <- MaxBreaks,
                 pc <- stage, job <- task, faults <- breaks

\* What the theorems about CircuitBreaker assume of its constants.
ASSUME BreakerChains == Chains \subseteq Nat \ {0} /\ Chains # {} /\ EVM \subseteq Chains
ASSUME BreakerBounds == MaxActive \in Nat /\ MaxBreaks \in Nat
ASSUME BreakerCalls  == IsFiniteSet(Calls)

\* What the theorems about Backfill assume of its constants.
ASSUME BackfillAssumption == Backfilling!Migratable

-----------------------------------------------------------------------------
(* The properties of Backfill, of ChainAdapters and of CircuitBreaker. *)

\* Backfill: however often, and however much at once, run() is called, a
\* dashboard user's credits, QTAGs and assets reach one tenant user, once, all
\* or none.
MovedTogether == Backfilling!MovedTogether

\* Backfill: a run that ends COMPLETED, with one call at a time at work on it,
\* has migrated every user of its list who is not in conflict.
CompletedIsMigrated == Backfilling!CompletedIsMigrated

\* The adapters that wait for success never report a transaction that did not
\* happen, in a return value or in a CONFIRMED row.
ConfirmedIsMined == Adapting!ConfirmedIsMined

\* The adapters that wait for success report at most one settlement of an
\* escrow, the one that the contract holds.
OneSettlement == Adapting!OneSettlement

\* CircuitBreaker: a chain with a contract that a call has reported paused stays paused
\* until a call comes to resume it, as circuitBreakerRoutes.ts:85-86 says.
ReportedStaysPaused == Breaker!ReportedStaysPaused

\* CircuitBreaker: a chain that a call reported paused, while nothing else was about to
\* change it, is held paused, where it has a contract, or on record as paused, where it
\* has none, until a call resumes it.
PauseHolds == Breaker!PauseHolds

\* CircuitBreaker: when a panic has visited all chains, each of them is paused, except
\* those that failed, that something else was about to change, or that were resumed.
PanicReachesAll == Breaker!PanicReachesAll
=============================================================================
