--------------------------- MODULE AnchorPipeline ---------------------------
(***************************************************************************)
(* How an event of the EventLog table reaches a blockchain.                *)
(*                                                                         *)
(*   EventLogFacet       creates and reviews events                        *)
(*   AnchorQueueService  processQueue: claims a batch of approved events   *)
(*                       in one database transaction, sends each to its    *)
(*                       chain, then records the transaction id            *)
(*   RetryWorker         processRetries: works off the PendingTransaction  *)
(*                       rows that a failed anchoring leaves behind        *)
(*                                                                         *)
(* Several runs of processQueue (QRuns) are in flight at once: the cron    *)
(* job guards itself with an in-process flag, but every facet that writes  *)
(* an event also starts a run and does not wait for it, and two server     *)
(* processes overlap during a deploy.  The same holds of processRetries    *)
(* (RRuns), for overlapping processes.  A run is cut at each await: one    *)
(* action is what the code does between two of them.                       *)
(*                                                                         *)
(* The column dltTxId is an integer: Null, the two markers Processing and  *)
(* RetryQueued, or the number (1, 2, ...) of a transaction on the chain.   *)
(***************************************************************************)
EXTENDS Integers, Sequences, FiniteSets

CONSTANTS
  Events,       \* ids of EventLog rows; processQueue orders rows by id
  Rows,         \* ids of PendingTransaction rows, in order of creation
  QRuns,        \* concurrent runs of AnchorQueueService.processQueue
  RRuns,        \* concurrent runs of RetryWorker.processRetries
  BatchLimit,   \* LIMIT of the claiming query (10)
  RetryLimit,   \* take of the retry query (20)
  MaxAttempts,  \* PendingTransaction.maxAttempts (5)
  NoOptions,    \* events of tenants on STELLAR, whose adapter needs a tenantId
  MaxFaults     \* bound: failures of a chain, a query or a process

ASSUME EventsAssumption   == Events \subseteq Nat
ASSUME RowsAssumption     == Rows \subseteq Nat
ASSUME LimitsAssumption   == BatchLimit \in Nat \ {0} /\ RetryLimit \in Nat \ {0}
ASSUME AttemptsAssumption == MaxAttempts \in Nat \ {0}
ASSUME FaultsAssumption   == MaxFaults \in Nat /\ NoOptions \subseteq Events

VARIABLES
  status,    \* EventLog.status; "ABSENT" before the row exists
  hashed,    \* events whose signatureHash is not NULL
  dltTxId,   \* EventLog.dltTxId
  chain,     \* the anchoring transactions on the chain, in order
  row,       \* PendingTransaction: [status, ref, attempts, dlq] of each id
  qpc,       \* where each run of processQueue stands
  qbatch,    \* its events still to be processed
  qcur,      \* the event it is processing, and the transaction it got
  rpc,       \* where each run of processRetries stands
  rtodo,     \* its rows still to be processed, as fetched
  rcur,      \* the row it is processing, as fetched, and its transaction
  faults,    \* failures so far
  orphanEvents, \* history: events that a run of processQueue held when it died
  orphanRows,   \* history: rows that a run of processRetries held when it died
  tries,     \* history: how often each row was sent to the chain
  notices,   \* history: ANCHOR_SUCCESS webhooks, with the row's status then
  blind      \* history: rows that a run gave up on after a database call it lost

eventVars == <<status, hashed>>
queueVars == <<qpc, qbatch, qcur>>
retryVars == <<rpc, rtodo, rcur>>
orphans   == <<orphanEvents, orphanRows>>
history   == <<orphans, tries, notices, blind>>
vars == <<eventVars, dltTxId, chain, row, queueVars, retryVars, faults, history>>

Null        == 0
Processing  == -1
RetryQueued == -2

Unanchored == {Null, Processing, RetryQueued}

\* The n smallest elements of S: ORDER BY ... LIMIT n.
Lowest(S, n) == {x \in S : Cardinality({y \in S : y < x}) < n}
-----------------------------------------------------------------------------
(* Database *)

\* Rows that a claiming transaction has selected FOR UPDATE and not committed.
LockedBy(w) == IF qpc[w] = "locked" THEN qbatch[w] ELSE {}
Locked == UNION {LockedBy(w) : w \in QRuns}

\* Mutation: events handed to the retry worker are no longer the queue's.
Claimable_NewOnly(e) == /\ status[e] \in {"APPROVED", "PENDING_FUNDS"}
                        /\ dltTxId[e] = Null
                        /\ e \in hashed

\* Mutation: the query forgets the condition on the signature hash.
Claimable_Unhashed(e) == /\ status[e] \in {"APPROVED", "PENDING_FUNDS"}
                         /\ dltTxId[e] \in {Null, RetryQueued}

\* The WHERE clause of the claiming query.
Claimable(e) == /\ status[e] \in {"APPROVED", "PENDING_FUNDS"}
                /\ dltTxId[e] \in {Null, RetryQueued}
                /\ e \in hashed

\* Mutation: the row is locked without looking at its status.
Retryable_Any(r) == row[r].status # "ABSENT"

\* RetryWorker.processRetries' lock: a row in one of these states is up for a try.
Retryable(r) == row[r].status \in {"PENDING", "FAILED"}

\* The events a run has claimed, and the row a retry run has locked.
HeldEvents(w) == IF qpc[w] \in {"idle", "locked"} THEN {} ELSE qbatch[w]
HeldRows(w)   == IF rpc[w] \in {"idle", "next"} THEN {} ELSE {rcur[w].id}

Fault == faults < MaxFaults /\ faults' = faults + 1
NoFault == UNCHANGED faults
-----------------------------------------------------------------------------
(* Events *)

Create(e, s, withHash) ==
  /\ status[e] = "ABSENT"
  /\ status' = [status EXCEPT ![e] = s]
  /\ hashed' = IF withHash THEN hashed \cup {e} ELSE hashed
  /\ UNCHANGED <<dltTxId, chain, row, queueVars, retryVars, faults, history>>

\* An event of an authenticated issuer: APPROVED and hashed at once.
RecordAuthenticatedEvent(e) == Create(e, "APPROVED", TRUE)

\* Some facets (escrow, billing) write an APPROVED event without a hash.
RecordUnhashedEvent(e) == Create(e, "APPROVED", FALSE)

SuggestPublicEvent(e) == Create(e, "PENDING", FALSE)

\* CommissioningFacet.start leaves a hashed event with status PENDING.
Commission(e) == Create(e, "PENDING", TRUE)

\* Mutation: the update is no longer conditional on PENDING.
ReviewEvent_Unguarded(e, verdict) ==
  /\ status[e] # "ABSENT"
  /\ status' = [status EXCEPT ![e] = verdict]
  /\ hashed' = IF verdict = "APPROVED" THEN hashed \cup {e} ELSE hashed
  /\ UNCHANGED <<dltTxId, chain, row, queueVars, retryVars, faults, history>>

\* reviewEvent decides with one conditional update: only the first verdict counts.
ReviewEvent(e, verdict) ==
  /\ status[e] = "PENDING"
  /\ status' = [status EXCEPT ![e] = verdict]
  /\ hashed' = IF verdict = "APPROVED" THEN hashed \cup {e} ELSE hashed
  /\ UNCHANGED <<dltTxId, chain, row, queueVars, retryVars, faults, history>>
-----------------------------------------------------------------------------
(* AnchorQueueService.processQueue *)

\* Mutation: a plain SELECT, that sees rows another transaction is claiming.
QSelect_Unlocked(w) ==
  /\ qpc[w] = "idle"
  /\ LET free == {e \in Events : Claimable(e)}
     IN  /\ free # {}
         /\ qbatch' = [qbatch EXCEPT ![w] = Lowest(free, BatchLimit)]
  /\ qpc' = [qpc EXCEPT ![w] = "locked"]
  /\ UNCHANGED <<eventVars, dltTxId, chain, row, qcur, retryVars, faults, history>>

\* SELECT ... FOR UPDATE SKIP LOCKED: the first BatchLimit claimable rows that
\* no other claiming transaction holds.
QSelect(w) ==
  /\ qpc[w] = "idle"
  /\ LET free == {e \in Events : Claimable(e) /\ e \notin Locked}
     IN  /\ free # {}
         /\ qbatch' = [qbatch EXCEPT ![w] = Lowest(free, BatchLimit)]
  /\ qpc' = [qpc EXCEPT ![w] = "locked"]
  /\ UNCHANGED <<eventVars, dltTxId, chain, row, qcur, retryVars, faults, history>>

\* The same transaction marks the rows and commits.
QClaim(w) ==
  /\ qpc[w] = "locked"
  /\ dltTxId' = [e \in Events |->
       IF e \in qbatch[w] /\ dltTxId[e] \in {Null, RetryQueued} THEN Processing ELSE dltTxId[e]]
  /\ qpc' = [qpc EXCEPT ![w] = "run"]
  /\ UNCHANGED <<eventVars, chain, row, qbatch, qcur, retryVars, faults, history>>

\* adapter.anchorEvent.  "lost": the transaction is on the chain, but the call
\* throws (no receipt in time, or the adapter's own log write failed).
ChainCall(e, outcome) ==
  /\ chain' = IF outcome \in {"ok", "lost"} THEN Append(chain, e) ELSE chain
  /\ IF outcome = "ok" THEN NoFault ELSE Fault

QAnchor(w, e, outcome) ==
  /\ qpc[w] = "run" /\ e \in qbatch[w]
  /\ outcome \in {"ok", "lost", "error", "funds"}
  /\ ChainCall(e, outcome)
  /\ qcur' = [qcur EXCEPT ![w] = [event |-> e, tx |-> Len(chain')]]
  /\ qpc' = [qpc EXCEPT ![w] = CASE outcome = "ok"    -> "record"
                                 [] outcome = "funds" -> "funds"
                                 [] OTHER             -> "enqueue"]
  /\ UNCHANGED <<eventVars, dltTxId, row, qbatch, retryVars, history>>

NoEvent == [event |-> 0, tx |-> 0]

\* The run is through with its current event: on to the next, or done.
QDone(w) ==
  LET rest == qbatch[w] \ {qcur[w].event}
  IN  /\ qbatch' = [qbatch EXCEPT ![w] = rest]
      /\ qpc' = [qpc EXCEPT ![w] = IF rest = {} THEN "idle" ELSE "run"]
      /\ qcur' = [qcur EXCEPT ![w] = NoEvent]

\* Mutation: the id recorded is that of the chain's last transaction.
QRecord_LastTx(w) ==
  LET e == qcur[w].event IN
  /\ qpc[w] = "record" /\ e \notin Locked
  /\ dltTxId' = [dltTxId EXCEPT ![e] = Len(chain)]
  /\ notices' = notices \cup {[event |-> e, status |-> status[e]]}
  /\ QDone(w)
  /\ UNCHANGED <<eventVars, chain, row, retryVars, faults, orphans, tries, blind>>

\* eventLog.update, then the ANCHOR_SUCCESS webhook.
QRecord(w) ==
  LET e == qcur[w].event IN
  /\ qpc[w] = "record" /\ e \notin Locked
  /\ dltTxId' = [dltTxId EXCEPT ![e] = qcur[w].tx]
  /\ notices' = notices \cup {[event |-> e, status |-> status[e]]}
  /\ QDone(w)
  /\ UNCHANGED <<eventVars, chain, row, retryVars, faults, orphans, tries, blind>>

\* Mutation: the failed update is only logged.
QRecordFails_Logged(w) ==
  /\ qpc[w] = "record"
  /\ Fault
  /\ QDone(w)
  /\ UNCHANGED <<eventVars, dltTxId, chain, row, retryVars, history>>

\* eventLog.update throws: the catch block takes the anchoring for failed.
QRecordFails(w) ==
  /\ qpc[w] = "record"
  /\ Fault
  /\ qpc' = [qpc EXCEPT ![w] = "enqueue"]
  /\ UNCHANGED <<eventVars, dltTxId, chain, row, qbatch, qcur, retryVars, history>>

\* Not enough funds in the master wallet: hand the event back to the queue.
QReturn(w) ==
  LET e == qcur[w].event IN
  /\ qpc[w] = "funds"
  /\ IF dltTxId[e] = Processing
       THEN /\ dltTxId' = [dltTxId EXCEPT ![e] = Null]
            /\ status' = [status EXCEPT ![e] = "PENDING_FUNDS"]
       ELSE UNCHANGED <<dltTxId, status>>
  /\ QDone(w)
  /\ UNCHANGED <<hashed, chain, row, retryVars, faults, history>>

\* RetryWorker.enqueue: a new PendingTransaction row.
Enqueue(e) ==
  \E r \in Rows :
    /\ row[r].status = "ABSENT"
    /\ \A s \in Rows : s < r => row[s].status # "ABSENT"
    /\ row' = [row EXCEPT ![r] = [status |-> "PENDING", ref |-> e, attempts |-> 0,
                                       dlq |-> FALSE]]

QEnqueue(w) ==
  /\ qpc[w] = "enqueue"
  /\ Enqueue(qcur[w].event)
  /\ qpc' = [qpc EXCEPT ![w] = "mark"]
  /\ UNCHANGED <<eventVars, dltTxId, chain, qbatch, qcur, retryVars, faults, history>>

\* Then, in a second statement, mark the event RETRY_QUEUED.
QMark(w) ==
  LET e == qcur[w].event IN
  /\ qpc[w] = "mark"
  /\ dltTxId' = IF dltTxId[e] = Processing THEN [dltTxId EXCEPT ![e] = RetryQueued] ELSE dltTxId
  /\ QDone(w)
  /\ UNCHANGED <<eventVars, chain, row, retryVars, faults, history>>

\* The run ends at an await: its process dies, or a statement throws where nothing
\* catches it (the tenant query, getAdapter, any query of the catch block).  An
\* uncommitted claim rolls back; nothing ever resets a committed one.
QAbort(w) ==
  /\ qpc[w] # "idle"
  /\ Fault
  /\ orphanEvents' = orphanEvents \cup HeldEvents(w)
  /\ qbatch' = [qbatch EXCEPT ![w] = {}]
  /\ qcur' = [qcur EXCEPT ![w] = NoEvent]
  /\ qpc' = [qpc EXCEPT ![w] = "idle"]
  /\ UNCHANGED <<eventVars, dltTxId, chain, row, retryVars, orphanRows, tries, notices, blind>>
-----------------------------------------------------------------------------
(* RetryWorker.processRetries *)

\* The batch: rows PENDING, and those FAILED rows whose nextRetryAt has come (any
\* of them, time being abstracted), if isDlq was never set.  What the run knows of
\* a row is this copy.
RFetch(w) ==
  /\ rpc[w] = "idle"
  /\ \E due \in SUBSET {r \in Rows : row[r].status = "FAILED" /\ ~row[r].dlq} :
       LET new   == {r \in Rows : row[r].status = "PENDING" /\ ~row[r].dlq}
           ready == Lowest(new \cup due, RetryLimit)
       IN  /\ ready # {}
           /\ rtodo' = [rtodo EXCEPT ![w] = {[id |-> r, attempts |-> row[r].attempts] : r \in ready}]
  /\ rpc' = [rpc EXCEPT ![w] = "next"]
  /\ UNCHANGED <<eventVars, dltTxId, chain, row, queueVars, rcur, faults, history>>

RNext(w) == [rpc EXCEPT ![w] = IF rtodo'[w] = {} THEN "idle" ELSE "next"]

\* isDlq is set with the status DLQ and never taken back.
SetRow(r, s, n) ==
  row' = [row EXCEPT ![r] = [status |-> s, ref |-> row[r].ref, attempts |-> n,
                             dlq |-> row[r].dlq \/ s = "DLQ"]]

NoTry == [id |-> 0, attempts |-> 0, tx |-> 0]

\* The run is through with its current row.
RDone(w) ==
  /\ rpc' = [rpc EXCEPT ![w] = IF rtodo[w] = {} THEN "idle" ELSE "next"]
  /\ rcur' = [rcur EXCEPT ![w] = NoTry]

\* The conditional update to PROCESSING; the row is skipped when it changes nothing.
RLock(w) ==
  /\ rpc[w] = "next"
  /\ \E t \in rtodo[w] :
       /\ \A u \in rtodo[w] : t.id <= u.id
       /\ rtodo' = [rtodo EXCEPT ![w] = @ \ {t}]
       /\ IF Retryable(t.id)
            THEN /\ SetRow(t.id, "PROCESSING", row[t.id].attempts)
                 /\ rcur' = [rcur EXCEPT ![w] = [id |-> t.id, attempts |-> t.attempts, tx |-> 0]]
                 /\ rpc' = [rpc EXCEPT ![w] = "exec"]
            ELSE /\ UNCHANGED <<row, rcur>>
                 /\ rpc' = RNext(w)
  /\ UNCHANGED <<eventVars, dltTxId, chain, queueVars, faults, history>>

\* The conditional update throws, whether or not it took effect: the catch block calls
\* handleFailure, which writes the row by its id, locked or not.
RLockFails(w, took) ==
  /\ rpc[w] = "next"
  /\ Fault
  /\ \E t \in rtodo[w] :
       /\ \A u \in rtodo[w] : t.id <= u.id
       /\ rtodo' = [rtodo EXCEPT ![w] = @ \ {t}]
       /\ IF took THEN Retryable(t.id) /\ SetRow(t.id, "PROCESSING", row[t.id].attempts)
                  ELSE UNCHANGED row
       /\ rcur' = [rcur EXCEPT ![w] = [id |-> t.id, attempts |-> t.attempts, tx |-> 0]]
       /\ rpc' = [rpc EXCEPT ![w] = "failed"]
       /\ blind' = blind \cup {t.id}
  /\ UNCHANGED <<eventVars, dltTxId, chain, queueVars, orphans, tries, notices>>

\* executeTransaction.  The payload that enqueue stored has no options, so the
\* STELLAR adapter refuses it every time; "critical" covers the error patterns
\* that bypass retries, insufficient funds among them.
RExec(w, outcome) ==
  LET r == rcur[w].id
      e == row[r].ref
  IN  /\ rpc[w] = "exec"
      /\ IF e \in NoOptions
           THEN outcome = "refused" /\ UNCHANGED <<chain, faults>>
           ELSE outcome \in {"ok", "lost", "error", "critical"} /\ ChainCall(e, outcome)
      /\ tries' = [tries EXCEPT ![r] = @ + 1]
      /\ rcur' = [rcur EXCEPT ![w] = [id |-> r, attempts |-> rcur[w].attempts, tx |-> Len(chain')]]
      /\ rpc' = [rpc EXCEPT ![w] = CASE outcome = "ok"       -> "settle"
                                     [] outcome = "critical" -> "critical"
                                     [] OTHER                -> "failed"]
      /\ UNCHANGED <<eventVars, dltTxId, row, queueVars, rtodo, orphans, notices, blind>>

\* One transaction: the row is SUCCESS and the event carries the transaction id.
Settle(w) ==
  LET r == rcur[w].id
      e == row[r].ref
  IN  /\ e \notin Locked
      /\ SetRow(r, "SUCCESS", rcur[w].attempts + 1)
      /\ dltTxId' = [dltTxId EXCEPT ![e] = rcur[w].tx]

RSettle(w) ==
  /\ rpc[w] = "settle"
  /\ Settle(w)
  /\ RDone(w)
  /\ UNCHANGED <<eventVars, chain, queueVars, rtodo, faults, history>>

\* That transaction throws, rolled back or committed without an answer: the outer
\* catch calls handleFailure as well.
RSettleFails(w, took) ==
  /\ rpc[w] = "settle"
  /\ Fault
  /\ IF took THEN Settle(w) /\ blind' = blind \cup {rcur[w].id}
             ELSE UNCHANGED <<row, dltTxId, blind>>
  /\ rpc' = [rpc EXCEPT ![w] = "failed"]
  /\ UNCHANGED <<eventVars, chain, queueVars, rtodo, rcur, orphans, tries, notices>>

\* handleFailure counts from the attempts read by RFetch, not from the row.
RHandleFailure(w) ==
  LET r == rcur[w].id
      n == rcur[w].attempts + 1
      final == rpc[w] = "critical" \/ n >= MaxAttempts
  IN  /\ rpc[w] \in {"failed", "critical"}
      /\ SetRow(r, IF final THEN "DLQ" ELSE "FAILED", n)
      /\ RDone(w)
      /\ UNCHANGED <<eventVars, dltTxId, chain, queueVars, rtodo, faults, history>>

\* The run's process dies, or handleFailure itself throws out of the loop.
RAbort(w) ==
  /\ rpc[w] # "idle"
  /\ Fault
  /\ rpc' = [rpc EXCEPT ![w] = "idle"]
  /\ rtodo' = [rtodo EXCEPT ![w] = {}]
  /\ rcur' = [rcur EXCEPT ![w] = NoTry]
  /\ orphanRows' = orphanRows \cup HeldRows(w)
  /\ UNCHANGED <<eventVars, dltTxId, chain, row, queueVars, orphanEvents, tries, notices, blind>>
-----------------------------------------------------------------------------
NoRow == [status |-> "ABSENT", ref |-> 0, attempts |-> 0, dlq |-> FALSE]

Init ==
  /\ status = [e \in Events |-> "ABSENT"]
  /\ hashed = {}
  /\ dltTxId = [e \in Events |-> Null]
  /\ chain = <<>>
  /\ row = [r \in Rows |-> NoRow]
  /\ qpc = [w \in QRuns |-> "idle"]
  /\ qbatch = [w \in QRuns |-> {}]
  /\ qcur = [w \in QRuns |-> NoEvent]
  /\ rpc = [w \in RRuns |-> "idle"]
  /\ rtodo = [w \in RRuns |-> {}]
  /\ rcur = [w \in RRuns |-> NoTry]
  /\ faults = 0
  /\ orphanEvents = {} /\ orphanRows = {} /\ tries = [r \in Rows |-> 0]
  /\ notices = {} /\ blind = {}

EventStep(e) ==
  \/ RecordAuthenticatedEvent(e) \/ RecordUnhashedEvent(e)
  \/ SuggestPublicEvent(e) \/ Commission(e)
  \/ \E verdict \in {"APPROVED", "REJECTED"} : ReviewEvent(e, verdict)

QOutcomes == {"ok", "lost", "error", "funds"}
ROutcomes == {"ok", "lost", "error", "critical", "refused"}

QStep(w) ==
  \/ QSelect(w) \/ QClaim(w)
  \/ \E e \in Events, outcome \in QOutcomes : QAnchor(w, e, outcome)
  \/ QRecord(w) \/ QReturn(w) \/ QEnqueue(w) \/ QMark(w)

RStep(w) ==
  \/ RFetch(w) \/ RLock(w)
  \/ \E outcome \in ROutcomes : RExec(w, outcome)
  \/ RSettle(w) \/ RHandleFailure(w)

Next ==
  \/ \E e \in Events : EventStep(e)
  \/ \E w \in QRuns : QStep(w) \/ QRecordFails(w) \/ QAbort(w)
  \/ \E w \in RRuns : \/ RStep(w) \/ RAbort(w)
                        \/ \E took \in BOOLEAN : RLockFails(w, took) \/ RSettleFails(w, took)

Spec == Init /\ [][Next]_vars

\* Cron starts a run again and again, and a run that is not killed goes on.
FairSpec == /\ Spec
            /\ \A w \in QRuns : WF_vars(QStep(w))
            /\ \A w \in RRuns : WF_vars(RStep(w))
-----------------------------------------------------------------------------
(* Properties *)

Anchored(e) == dltTxId[e] > 0

\* Every column, marker and copy has one of the values the code gives it; what is
\* announced to a tenant is an event the queue may claim.
TypeOK ==
  /\ status \in [Events -> {"ABSENT", "PENDING", "APPROVED", "REJECTED", "PENDING_FUNDS"}]
  /\ hashed \subseteq Events
  /\ dltTxId \in [Events -> Unanchored \cup Nat]
  /\ chain \in Seq(Events)
  /\ row \in [Rows -> [status : {"ABSENT", "PENDING", "FAILED", "PROCESSING", "SUCCESS", "DLQ"},
                       ref : Events \cup {0}, attempts : Nat, dlq : BOOLEAN]]
  /\ qpc \in [QRuns -> {"idle", "locked", "run", "record", "funds", "enqueue", "mark"}]
  /\ qbatch \in [QRuns -> SUBSET Events]
  /\ qcur \in [QRuns -> [event : Events \cup {0}, tx : Nat]]
  /\ rpc \in [RRuns -> {"idle", "next", "exec", "settle", "failed", "critical"}]
  /\ rtodo \in [RRuns -> SUBSET [id : Rows, attempts : Nat]]
  /\ rcur \in [RRuns -> [id : Rows \cup {0}, attempts : Nat, tx : Nat]]
  /\ faults \in 0..MaxFaults
  /\ orphanEvents \subseteq Events /\ orphanRows \subseteq Rows /\ blind \subseteq Rows
  /\ tries \in [Rows -> Nat]
  /\ notices \subseteq [event : Events, status : {"APPROVED", "PENDING_FUNDS"}]

\* No two runs of processQueue hold the same event, whether selected or claimed:
\* FOR UPDATE SKIP LOCKED and the Processing marker written before the commit.
ClaimExclusive == \A v, w \in QRuns : v # w => qbatch[v] \cap qbatch[w] = {}

\* Whatever reached the chain was approved and hashed, and its verdict never
\* changes afterwards: reviewEvent and the claiming query agree on the status.
OnlyApprovedOnChain ==
  \A i \in DOMAIN chain : /\ chain[i] \in hashed
                          /\ status[chain[i]] \in {"APPROVED", "PENDING_FUNDS"}

\* A dltTxId that is not a marker names a transaction that anchored this event,
\* whichever of the queue and the retry worker wrote it.
AnchoredIsOnChain ==
  \A e \in Events : Anchored(e) => dltTxId[e] <= Len(chain) /\ chain[dltTxId[e]] = e

\* Markers are backed by someone who will act on them: an event in PROCESSING is
\* held by a run, one in RETRY_QUEUED has a row for the retry worker, and a row in
\* PROCESSING is held by a retry run, unless the run that held it died.  A row that
\* is closed as SUCCESS belongs to an event with a transaction id.
NothingLost ==
  /\ \A e \in Events :
       /\ dltTxId[e] = Processing => e \in orphanEvents \/ \E w \in QRuns : e \in HeldEvents(w)
       /\ dltTxId[e] = RetryQueued => \E r \in Rows : row[r].status # "ABSENT" /\ row[r].ref = e
  /\ \A r \in Rows :
       /\ row[r].status = "PROCESSING" => r \in orphanRows \/ \E w \in RRuns : r \in HeldRows(w)
       /\ row[r].status = "SUCCESS" => Anchored(row[r].ref)

\* Once a row is SUCCESS or in the dead letter queue no worker touches it again,
\* however old the copy it fetched, and a row is given up on only after as many
\* attempts as it counts.  Only a row on which a run lost a database call (the lock
\* that threw, the settlement committed without an answer) is written regardless.
OutcomeFinal ==
  [][\A r \in Rows \ blind' :
       /\ row[r].status \in {"SUCCESS", "DLQ"} => row'[r] = row[r]
       /\ row'[r].status = "DLQ" => row'[r].attempts <= tries'[r]]_vars

\* Every event that the queue may claim is anchored in the end, unless a run died
\* holding it: failures hand it back to the queue or to the retry worker.
EventuallyAnchored ==
  \A e \in Events : Claimable(e) ~> (Anchored(e) \/ e \in orphanEvents)

\* The pipeline implements the ledger: what is undecided, rejected or unhashed is
\* never anchored, and markers, retries and dead workers never show in the record.
Verdict(e) ==
  CASE status[e] = "ABSENT"   -> "none"
    [] status[e] = "PENDING"  -> "open"
    [] status[e] = "REJECTED" -> "rejected"
    [] OTHER                  -> IF e \in hashed THEN "approved" ELSE "void"

Ledger == INSTANCE AnchorLedger WITH
  verdict  <- [e \in Events |-> Verdict(e)],
  recorded <- [e \in Events |-> IF Anchored(e) THEN dltTxId[e] ELSE 0]

LedgerSpec == Ledger!Spec
=============================================================================
