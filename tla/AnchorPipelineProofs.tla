------------------------ MODULE AnchorPipelineProofs ------------------------
(***************************************************************************)
(* Safety of AnchorPipeline for every number of events, rows, runs and     *)
(* faults.  The invariants of the specification are not inductive by       *)
(* themselves: that two runs never hold one event rests on what a held     *)
(* event's dltTxId may be, that only approved events reach the chain on    *)
(* what every run and every row knows of its event.  IInv joins these      *)
(* facts; each action preserves it, and the theorems follow.  LossInv says *)
(* what is left when a step fails, and with IInv every step is one of the  *)
(* ledger's.                                                               *)
(***************************************************************************)
EXTENDS AnchorPipeline, TLAPS

Approved(e) == status[e] \in {"APPROVED", "PENDING_FUNDS"} /\ e \in hashed

\* t is the number of a transaction that anchored e.
IsTxOf(t, e) == t \in 1..Len(chain) /\ chain[t] = e

Midway == {"record", "funds", "enqueue", "mark"}

\* What a run of processQueue knows: its events are approved; once the claim is
\* committed none of them is claimable; its current event is one of them.
QueueInv ==
  \A w \in QRuns :
    /\ qpc[w] = "idle" => qbatch[w] = {}
    /\ \A e \in qbatch[w] :
         Approved(e) /\ (qpc[w] # "locked" => dltTxId[e] \notin {Null, RetryQueued})
    /\ qpc[w] \in Midway => qcur[w].event \in qbatch[w]
    /\ qpc[w] = "record" => IsTxOf(qcur[w].tx, qcur[w].event)

\* What a run of processRetries knows: the rows it fetched exist, and the one it is
\* working on is in PROCESSING, unless a run lost a database call on that row.
RetryRunInv(w) ==
  /\ \A t \in rtodo[w] : row[t.id].status # "ABSENT"
  /\ rpc[w] \notin {"idle", "next"} =>
       /\ rcur[w].id \in Rows /\ row[rcur[w].id].status # "ABSENT"
       /\ rcur[w].id \notin blind => row[rcur[w].id].status = "PROCESSING"
  /\ rpc[w] = "settle" => IsTxOf(rcur[w].tx, row[rcur[w].id].ref)

RetryInv == \A w \in RRuns : RetryRunInv(w)

\* Every row is about an approved event.
RowInv ==
  \A r \in Rows : row[r].status # "ABSENT" => row[r].ref \in Events /\ Approved(row[r].ref)

\* No two runs of processRetries work on the same row, again with that exception.
RetryExclusive ==
  \A v, w \in RRuns :
    v # w /\ rpc[v] \notin {"idle", "next"} /\ rpc[w] \notin {"idle", "next"}
      => rcur[v].id # rcur[w].id \/ rcur[v].id \in blind

ChainInv == \A i \in 1..Len(chain) : Approved(chain[i])

RecordInv == \A e \in Events : Anchored(e) => IsTxOf(dltTxId[e], e)

IInv == /\ TypeOK /\ QueueInv /\ ClaimExclusive /\ RetryInv /\ RetryExclusive
        /\ RowInv /\ ChainInv /\ RecordInv
\* A run of processRetries loses a database call.
RLost(w) == \E took \in BOOLEAN : RLockFails(w, took) \/ RSettleFails(w, took)
-----------------------------------------------------------------------------
(* Facts about the operators *)

\* ORDER BY ... LIMIT returns some of the rows it is given.
LEMMA LowestSubset ==
  ASSUME NEW S, NEW n
  PROVE  Lowest(S, n) \subseteq S
BY DEF Lowest

\* The initial state satisfies the inductive invariant.
LEMMA InitIInv == Init => IInv
<1> SUFFICES ASSUME Init PROVE IInv
  OBVIOUS
<1> USE DEF Init, NoRow, NoEvent, NoTry, Null, Processing, RetryQueued
<1>1. TypeOK
  BY FaultsAssumption DEF TypeOK, Unanchored
<1>2. QueueInv /\ ClaimExclusive
  BY DEF QueueInv, ClaimExclusive, Midway
<1>3. RetryInv /\ RetryExclusive /\ RowInv
  BY DEF RetryInv, RetryRunInv, RetryExclusive, RowInv
<1>4. ChainInv /\ RecordInv
  BY DEF ChainInv, RecordInv, Anchored
<1> QED
  BY <1>1, <1>2, <1>3, <1>4 DEF IInv

\* Steps that leave every variable alone.
LEMMA StutterIInv == ASSUME IInv, UNCHANGED vars PROVE IInv'
BY DEF IInv, TypeOK, QueueInv, ClaimExclusive, RetryInv, RetryRunInv, RetryExclusive, RowInv, ChainInv,
       RecordInv, Approved, IsTxOf, Anchored, Midway, vars, eventVars, queueVars, retryVars, history, orphans
-----------------------------------------------------------------------------
(* Events *)

\* A new event was in no run and on no chain.
LEMMA CreateIInv ==
  ASSUME IInv, NEW e \in Events, NEW s \in {"APPROVED", "PENDING"}, NEW h \in BOOLEAN,
         Create(e, s, h)
  PROVE  IInv'
<1> USE DEF IInv, TypeOK, Create, queueVars, retryVars, history, orphans
<1>1. TypeOK'
  OBVIOUS
<1>2. \A f \in Events : Approved(f) => Approved(f)'
  BY DEF Approved
<1>3. QueueInv' /\ ClaimExclusive'
  BY <1>2 DEF QueueInv, ClaimExclusive, IsTxOf, Midway
<1>4. RetryInv' /\ RetryExclusive' /\ RowInv'
  BY <1>2 DEF RetryInv, RetryRunInv, RetryExclusive, RowInv, IsTxOf
<1>5. ChainInv' /\ RecordInv'
  BY <1>2 DEF ChainInv, RecordInv, IsTxOf, Anchored
<1> QED
  BY <1>1, <1>3, <1>4, <1>5 DEF IInv

\* A verdict only touches an event still pending, that nobody has approved.
LEMMA ReviewIInv ==
  ASSUME IInv, NEW e \in Events, NEW v \in {"APPROVED", "REJECTED"}, ReviewEvent(e, v)
  PROVE  IInv'
<1> USE DEF IInv, TypeOK, ReviewEvent, queueVars, retryVars, history, orphans
<1>1. TypeOK'
  OBVIOUS
<1>2. \A f \in Events : Approved(f) => Approved(f)'
  BY DEF Approved
<1>3. QueueInv' /\ ClaimExclusive'
  BY <1>2 DEF QueueInv, ClaimExclusive, IsTxOf, Midway
<1>4. RetryInv' /\ RetryExclusive' /\ RowInv'
  BY <1>2 DEF RetryInv, RetryRunInv, RetryExclusive, RowInv, IsTxOf
<1>5. ChainInv' /\ RecordInv'
  BY <1>2 DEF ChainInv, RecordInv, IsTxOf, Anchored
<1> QED
  BY <1>1, <1>3, <1>4, <1>5 DEF IInv
-----------------------------------------------------------------------------
(* AnchorQueueService.processQueue *)

\* Only claimable rows are selected: nobody holds them, as held rows are not claimable.
LEMMA SelectIInv ==
  ASSUME IInv, NEW w \in QRuns, QSelect(w)
  PROVE  IInv'
<1> USE DEF IInv, TypeOK, QSelect, eventVars, retryVars, history, orphans
<1>1. TypeOK'
  BY LowestSubset
<1>2. QueueInv'
  BY LowestSubset DEF QueueInv, IsTxOf, Approved, Midway, Claimable
<1>3. ClaimExclusive'
  BY LowestSubset DEF ClaimExclusive, QueueInv, Claimable, Locked, LockedBy
<1>4. RetryInv'
  BY DEF RetryInv, RetryRunInv, IsTxOf
<1>5. RetryExclusive'
  BY DEF RetryExclusive, RetryInv, RetryRunInv
<1>6. RowInv'
  BY DEF RowInv, Approved
<1>7. ChainInv'
  BY DEF ChainInv, Approved, QueueInv
<1>8. RecordInv'
  BY DEF RecordInv, IsTxOf, Anchored, Null, Processing, RetryQueued
<1> QED
  BY <1>1, <1>2, <1>3, <1>4, <1>5, <1>6, <1>7, <1>8 DEF IInv

\* The commit turns the row locks into markers.
LEMMA ClaimIInv ==
  ASSUME IInv, NEW w \in QRuns, QClaim(w)
  PROVE  IInv'
<1> USE DEF IInv, TypeOK, QClaim, eventVars, retryVars, history, orphans
<1>1. TypeOK'
  BY DEF Unanchored
<1>2. QueueInv'
  BY DEF QueueInv, IsTxOf, Approved, Midway, Null, Processing, RetryQueued
<1>3. ClaimExclusive'
  BY DEF ClaimExclusive, QueueInv
<1>4. RetryInv'
  BY DEF RetryInv, RetryRunInv, IsTxOf
<1>5. RetryExclusive'
  BY DEF RetryExclusive, RetryInv, RetryRunInv
<1>6. RowInv'
  BY DEF RowInv, Approved
<1>7. ChainInv'
  BY DEF ChainInv, Approved, QueueInv
<1>8. RecordInv'
  BY DEF RecordInv, IsTxOf, Anchored, Null, Processing, RetryQueued
<1> QED
  BY <1>1, <1>2, <1>3, <1>4, <1>5, <1>6, <1>7, <1>8 DEF IInv

\* A run anchors an event it holds, which is approved.
LEMMA AnchorIInv ==
  ASSUME IInv, NEW w \in QRuns, NEW e \in Events, NEW outcome \in QOutcomes, QAnchor(w, e, outcome)
  PROVE  IInv'
<1> USE DEF IInv, TypeOK, QAnchor, ChainCall, Fault, NoFault, QOutcomes, eventVars, retryVars, history, orphans
<1>1. TypeOK'
  BY FaultsAssumption
<1>2. QueueInv'
  BY DEF QueueInv, IsTxOf, Approved, Midway, Null, Processing, RetryQueued
<1>3. ClaimExclusive'
  BY DEF ClaimExclusive, QueueInv
<1>4. RetryInv'
  BY DEF RetryInv, RetryRunInv, IsTxOf
<1>5. RetryExclusive'
  BY DEF RetryExclusive, RetryInv, RetryRunInv
<1>6. RowInv'
  BY DEF RowInv, Approved
<1>7. ChainInv'
  BY DEF ChainInv, Approved, QueueInv
<1>8. RecordInv'
  BY DEF RecordInv, IsTxOf, Anchored, Null, Processing, RetryQueued
<1> QED
  BY <1>1, <1>2, <1>3, <1>4, <1>5, <1>6, <1>7, <1>8 DEF IInv

\* The id recorded is that of a transaction of the event.
LEMMA RecordIInv ==
  ASSUME IInv, NEW w \in QRuns, QRecord(w)
  PROVE  IInv'
<1> USE DEF IInv, TypeOK, QRecord, QDone, NoEvent, eventVars, retryVars, history, orphans
<1>1. TypeOK'
  BY DEF QueueInv, Midway, IsTxOf, Approved
<1>2. QueueInv'
  BY DEF QueueInv, IsTxOf, Approved, Midway, Null, Processing, RetryQueued
<1>3. ClaimExclusive'
  BY DEF ClaimExclusive, QueueInv
<1>4. RetryInv'
  BY DEF RetryInv, RetryRunInv, IsTxOf
<1>5. RetryExclusive'
  BY DEF RetryExclusive, RetryInv, RetryRunInv
<1>6. RowInv'
  BY DEF RowInv, Approved
<1>7. ChainInv'
  BY DEF ChainInv, Approved, QueueInv
<1>8. RecordInv'
  BY DEF RecordInv, IsTxOf, Anchored, QueueInv, Midway
<1> QED
  BY <1>1, <1>2, <1>3, <1>4, <1>5, <1>6, <1>7, <1>8 DEF IInv

\* A failed update leaves the run where the catch block starts.
LEMMA RecordFailsIInv ==
  ASSUME IInv, NEW w \in QRuns, QRecordFails(w)
  PROVE  IInv'
<1> USE DEF IInv, TypeOK, QRecordFails, Fault, eventVars, retryVars, history, orphans
<1>1. TypeOK'
  BY FaultsAssumption
<1>2. QueueInv'
  BY DEF QueueInv, IsTxOf, Approved, Midway, Null, Processing, RetryQueued
<1>3. ClaimExclusive'
  BY DEF ClaimExclusive, QueueInv
<1>4. RetryInv'
  BY DEF RetryInv, RetryRunInv, IsTxOf
<1>5. RetryExclusive'
  BY DEF RetryExclusive, RetryInv, RetryRunInv
<1>6. RowInv'
  BY DEF RowInv, Approved
<1>7. ChainInv'
  BY DEF ChainInv, Approved, QueueInv
<1>8. RecordInv'
  BY DEF RecordInv, IsTxOf, Anchored, Null, Processing, RetryQueued
<1> QED
  BY <1>1, <1>2, <1>3, <1>4, <1>5, <1>6, <1>7, <1>8 DEF IInv

\* An event handed back is no longer held: no other run held it.
LEMMA ReturnIInv ==
  ASSUME IInv, NEW w \in QRuns, QReturn(w)
  PROVE  IInv'
<1> USE DEF IInv, TypeOK, QReturn, QDone, NoEvent, eventVars, retryVars, history, orphans
<1>1. TypeOK'
  BY DEF Unanchored, Null
<1>2. QueueInv'
  <2>1. CASE dltTxId[qcur[w].event] = Processing
    BY <2>1, ClaimExclusive DEF QueueInv, ClaimExclusive, IsTxOf, Approved, Midway
  <2>2. CASE dltTxId[qcur[w].event] # Processing
    BY <2>2 DEF QueueInv, IsTxOf, Approved, Midway
  <2> QED
    BY <2>1, <2>2
<1>3. ClaimExclusive'
  BY DEF ClaimExclusive, QueueInv
<1>4. RetryInv'
  BY DEF RetryInv, RetryRunInv, IsTxOf
<1>5. RetryExclusive'
  BY DEF RetryExclusive, RetryInv, RetryRunInv
<1>6. RowInv'
  BY DEF RowInv, Approved
<1>7. ChainInv'
  BY DEF ChainInv, Approved, QueueInv
<1>8. RecordInv'
  <2>1. ASSUME NEW f \in Events, Anchored(f)'
        PROVE  dltTxId'[f] = dltTxId[f] /\ Anchored(f)
    <3>1. CASE f = qcur[w].event /\ dltTxId[f] = Processing
      BY <2>1, <3>1 DEF Anchored, Null
    <3>2. CASE ~(f = qcur[w].event /\ dltTxId[f] = Processing)
      BY <2>1, <3>2 DEF Anchored
    <3> QED
      BY <3>1, <3>2
  <2> QED
    BY <2>1 DEF RecordInv, IsTxOf
<1> QED
  BY <1>1, <1>2, <1>3, <1>4, <1>5, <1>6, <1>7, <1>8 DEF IInv

\* A new row is about the event the run is processing.
LEMMA EnqueueIInv ==
  ASSUME IInv, NEW w \in QRuns, QEnqueue(w)
  PROVE  IInv'
<1> USE DEF IInv, TypeOK, QEnqueue, Enqueue, eventVars, retryVars, history, orphans
<1>1. TypeOK'
  OBVIOUS
<1>2. QueueInv'
  BY DEF QueueInv, IsTxOf, Approved, Midway, Null, Processing, RetryQueued
<1>3. ClaimExclusive'
  BY DEF ClaimExclusive, QueueInv
<1>4. RetryInv'
  BY DEF RetryInv, RetryRunInv, IsTxOf
<1>5. RetryExclusive'
  BY DEF RetryExclusive, RetryInv, RetryRunInv
<1>6. RowInv'
  BY DEF RowInv, Approved, QueueInv, Midway
<1>7. ChainInv'
  BY DEF ChainInv, Approved, QueueInv
<1>8. RecordInv'
  BY DEF RecordInv, IsTxOf, Anchored, Null, Processing, RetryQueued
<1> QED
  BY <1>1, <1>2, <1>3, <1>4, <1>5, <1>6, <1>7, <1>8 DEF IInv

\* An event left to the retry worker is no longer held.
LEMMA MarkIInv ==
  ASSUME IInv, NEW w \in QRuns, QMark(w)
  PROVE  IInv'
<1> USE DEF IInv, TypeOK, QMark, QDone, NoEvent, eventVars, retryVars, history, orphans
<1>1. TypeOK'
  BY DEF Unanchored, RetryQueued
<1>2. QueueInv'
  BY DEF QueueInv, ClaimExclusive, IsTxOf, Approved, Midway, Null, Processing, RetryQueued
<1>3. ClaimExclusive'
  BY DEF ClaimExclusive, QueueInv
<1>4. RetryInv'
  BY DEF RetryInv, RetryRunInv, IsTxOf
<1>5. RetryExclusive'
  BY DEF RetryExclusive, RetryInv, RetryRunInv
<1>6. RowInv'
  BY DEF RowInv, Approved
<1>7. ChainInv'
  BY DEF ChainInv, Approved, QueueInv
<1>8. RecordInv'
  BY DEF RecordInv, IsTxOf, Anchored, Null, Processing, RetryQueued
<1> QED
  BY <1>1, <1>2, <1>3, <1>4, <1>5, <1>6, <1>7, <1>8 DEF IInv

\* A dead run holds nothing.
LEMMA QAbortIInv ==
  ASSUME IInv, NEW w \in QRuns, QAbort(w)
  PROVE  IInv'
<1> USE DEF IInv, TypeOK, QAbort, Fault, HeldEvents, NoEvent, orphans, eventVars, retryVars, history
<1>1. TypeOK'
  BY FaultsAssumption
<1>2. QueueInv'
  BY DEF QueueInv, IsTxOf, Approved, Midway, Null, Processing, RetryQueued
<1>3. ClaimExclusive'
  BY DEF ClaimExclusive, QueueInv
<1>4. RetryInv'
  BY DEF RetryInv, RetryRunInv, IsTxOf
<1>5. RetryExclusive'
  BY DEF RetryExclusive, RetryInv, RetryRunInv
<1>6. RowInv'
  BY DEF RowInv, Approved
<1>7. ChainInv'
  BY DEF ChainInv, Approved, QueueInv
<1>8. RecordInv'
  BY DEF RecordInv, IsTxOf, Anchored, Null, Processing, RetryQueued
<1> QED
  BY <1>1, <1>2, <1>3, <1>4, <1>5, <1>6, <1>7, <1>8 DEF IInv

-----------------------------------------------------------------------------
(* RetryWorker.processRetries *)

\* Rows are fetched that exist, and existing rows stay.
LEMMA FetchIInv ==
  ASSUME IInv, NEW w \in RRuns, RFetch(w)
  PROVE  IInv'
<1> USE DEF IInv, TypeOK, RFetch, eventVars, queueVars, history, orphans
<1>a. PICK batch \in SUBSET Rows :
        /\ \A r \in batch : row[r].status \in {"PENDING", "FAILED"}
        /\ rtodo' = [rtodo EXCEPT ![w] = {[id |-> r, attempts |-> row[r].attempts] : r \in batch}]
  BY LowestSubset
<1> DEFINE T == {[id |-> r, attempts |-> row[r].attempts] : r \in batch}
<1>b. T \in SUBSET [id : Rows, attempts : Nat]
  OBVIOUS
<1>c. ASSUME NEW t \in T PROVE row[t.id].status # "ABSENT"
  <2>1. PICK r \in batch : t = [id |-> r, attempts |-> row[r].attempts]
    OBVIOUS
  <2> QED
    BY <1>a, <2>1
<1>d. rtodo' = [rtodo EXCEPT ![w] = T]
  BY <1>a
<1> HIDE DEF T
<1>1. TypeOK'
  BY <1>b, <1>d
<1>2. QueueInv'
  BY DEF QueueInv, IsTxOf, Approved, Midway, Null, Processing, RetryQueued
<1>3. ClaimExclusive'
  BY DEF ClaimExclusive, QueueInv
<1>4. RetryInv'
  <2> SUFFICES ASSUME NEW v \in RRuns PROVE RetryRunInv(v)'
    BY DEF RetryInv
  <2> QED
    BY <1>b, <1>c, <1>d DEF RetryInv, RetryRunInv, IsTxOf
<1>5. RetryExclusive'
  BY DEF RetryExclusive, RetryInv, RetryRunInv
<1>6. RowInv'
  BY DEF RowInv, Approved
<1>7. ChainInv'
  BY DEF ChainInv, Approved, QueueInv
<1>8. RecordInv'
  BY DEF RecordInv, IsTxOf, Anchored, Null, Processing, RetryQueued
<1> QED
  BY <1>1, <1>2, <1>3, <1>4, <1>5, <1>6, <1>7, <1>8 DEF IInv

\* A row that another run works on is in PROCESSING, and is not locked again.
LEMMA LockIInv ==
  ASSUME IInv, NEW w \in RRuns, RLock(w)
  PROVE  IInv'
<1> USE DEF IInv, TypeOK, RLock, SetRow, RNext, Retryable, NoTry, eventVars, queueVars, history, orphans
<1>0. PICK t \in rtodo[w] :
        /\ rtodo' = [rtodo EXCEPT ![w] = @ \ {t}]
        /\ IF Retryable(t.id)
             THEN /\ row' = [row EXCEPT ![t.id] = [status |-> "PROCESSING", ref |-> row[t.id].ref,
                                                     attempts |-> row[t.id].attempts,
                                                     dlq |-> row[t.id].dlq \/ "PROCESSING" = "DLQ"]]
                  /\ rcur' = [rcur EXCEPT ![w] = [id |-> t.id, attempts |-> t.attempts, tx |-> 0]]
                  /\ rpc' = [rpc EXCEPT ![w] = "exec"]
             ELSE /\ UNCHANGED <<row, rcur>>
                  /\ rpc' = RNext(w)
  OBVIOUS
<1>u. UNCHANGED <<eventVars, dltTxId, chain, queueVars, faults, history>>
  OBVIOUS
<1> HIDE DEF RLock
<1>a. t.attempts \in Nat
  BY <1>0
<1>r. PICK r \in Rows : r = t.id
  BY <1>0
<1>b. \/ /\ Retryable(r)
         /\ row' = [row EXCEPT ![r] = [status |-> "PROCESSING", ref |-> row[r].ref,
                                         attempts |-> row[r].attempts, dlq |-> row[r].dlq]]
         /\ rcur' = [rcur EXCEPT ![w] = [id |-> r, attempts |-> t.attempts, tx |-> 0]]
      \/ /\ row' = row /\ rcur' = rcur
         /\ rpc'[w] \in {"idle", "next"}
  BY <1>0, <1>r
<1>c. \A s \in Rows : /\ row'[s].ref = row[s].ref
                      /\ row'[s].status # "ABSENT" <=> row[s].status # "ABSENT"
                      /\ row[s].status = "PROCESSING" => row'[s] = row[s]
  <2>1. CASE row' = row
    BY <2>1
  <2>2. CASE row' = [row EXCEPT ![r] = [status |-> "PROCESSING", ref |-> row[r].ref,
                                        attempts |-> row[r].attempts, dlq |-> row[r].dlq]]
    <3>1. row'[r] = [status |-> "PROCESSING", ref |-> row[r].ref, attempts |-> row[r].attempts, dlq |-> row[r].dlq]
      BY <2>2
    <3>2. \A s \in Rows \ {r} : row'[s] = row[s]
      BY <2>2
    <3>3. CASE Retryable(r)
      BY <3>1, <3>2, <3>3
    <3>4. CASE ~Retryable(r)
      BY <1>b, <3>4
    <3> QED
      BY <3>3, <3>4
  <2> QED
    BY <1>b, <2>1, <2>2
<1>1. TypeOK'
  <2>1. row' \in [Rows -> [status : {"ABSENT", "PENDING", "FAILED", "PROCESSING", "SUCCESS", "DLQ"},
                           ref : Events \cup {0}, attempts : Nat, dlq : BOOLEAN]]
    <3>1. CASE row' = row
      BY <3>1
    <3>2. CASE row' = [row EXCEPT ![r] = [status |-> "PROCESSING", ref |-> row[r].ref,
                                          attempts |-> row[r].attempts, dlq |-> row[r].dlq]]
      BY <3>2
    <3> QED
      BY <1>b, <3>1, <3>2
  <2>2. rcur' \in [RRuns -> [id : Rows \cup {0}, attempts : Nat, tx : Nat]]
    <3>1. CASE rcur' = rcur
      BY <3>1
    <3>2. CASE rcur' = [rcur EXCEPT ![w] = [id |-> r, attempts |-> t.attempts, tx |-> 0]]
      <4>1. [id |-> r, attempts |-> t.attempts, tx |-> 0] \in [id : Rows \cup {0}, attempts : Nat, tx : Nat]
        BY <1>a
      <4>2. rcur \in [RRuns -> [id : Rows \cup {0}, attempts : Nat, tx : Nat]]
        OBVIOUS
      <4> QED
        BY <3>2, <4>1, <4>2
    <3> QED
      BY <1>b, <3>1, <3>2
  <2>3. /\ rtodo' \in [RRuns -> SUBSET [id : Rows, attempts : Nat]]
        /\ rpc' \in [RRuns -> {"idle", "next", "exec", "settle", "failed", "critical"}]
    BY <1>0, <1>u
  <2> QED
    BY <1>u, <2>1, <2>2, <2>3
<1>2. QueueInv'
  BY <1>u DEF QueueInv, IsTxOf, Approved, Midway, Null, Processing, RetryQueued
<1>3. ClaimExclusive'
  BY <1>u DEF ClaimExclusive, QueueInv
<1>4. RetryInv'
  <2>1. CASE Retryable(r)
    BY <1>0, <1>u, <1>r, <1>a, <1>c, <2>1 DEF RetryInv, RetryRunInv, IsTxOf
  <2>2. CASE ~Retryable(r)
    BY <1>0, <1>u, <1>r, <2>2 DEF RetryInv, RetryRunInv, IsTxOf
  <2> QED
    BY <2>1, <2>2
<1>5. RetryExclusive'
  <2>0. \A v \in RRuns \ {w} :
          /\ rcur'[v] = rcur[v] /\ rpc'[v] = rpc[v]
          /\ rpc[v] \notin {"idle", "next"} => rcur[v].id \in blind \/ row[rcur[v].id].status = "PROCESSING"
    BY <1>0 DEF RetryInv, RetryRunInv
  <2>1. rpc'[w] \in {"idle", "next"} \/ (rcur'[w].id = r /\ row[r].status # "PROCESSING")
    BY <1>b
  <2> SUFFICES ASSUME NEW v \in RRuns, NEW u \in RRuns, v # u,
                      rpc'[v] \notin {"idle", "next"}, rpc'[u] \notin {"idle", "next"}
               PROVE  rcur'[v].id # rcur'[u].id \/ rcur'[v].id \in blind'
    BY DEF RetryExclusive
  <2>2. CASE v # w /\ u # w
    BY <1>u, <2>0, <2>2 DEF RetryExclusive
  <2>3. CASE v = w \/ u = w
    BY <1>u, <2>0, <2>1, <2>3
  <2> QED
    BY <2>2, <2>3
<1>6. RowInv'
  BY <1>u, <1>c DEF RowInv, Approved
<1>7. ChainInv'
  BY <1>u DEF ChainInv, Approved, QueueInv
<1>8. RecordInv'
  BY <1>u DEF RecordInv, IsTxOf, Anchored, Null, Processing, RetryQueued
<1> QED
  BY <1>1, <1>2, <1>3, <1>4, <1>5, <1>6, <1>7, <1>8 DEF IInv

\* A row handled without its lock still exists; from now on it is one of the blind.
LEMMA LockFailsIInv ==
  ASSUME IInv, NEW w \in RRuns, NEW took \in BOOLEAN, RLockFails(w, took)
  PROVE  IInv'
<1>u. /\ UNCHANGED <<eventVars, dltTxId, chain, queueVars, orphans, tries, notices>>
      /\ TypeOK /\ RetryInv /\ RetryExclusive /\ faults' \in 0..MaxFaults
  BY FaultsAssumption DEF IInv, TypeOK, RLockFails, Fault
<1>0. PICK t \in rtodo[w] :
        /\ rtodo' = [rtodo EXCEPT ![w] = @ \ {t}]
        /\ \/ row' = row
           \/ Retryable(t.id) /\ SetRow(t.id, "PROCESSING", row[t.id].attempts)
        /\ rcur' = [rcur EXCEPT ![w] = [id |-> t.id, attempts |-> t.attempts, tx |-> 0]]
        /\ rpc' = [rpc EXCEPT ![w] = "failed"]
        /\ blind' = blind \cup {t.id}
  BY DEF RLockFails
<1>a. t.id \in Rows /\ t.attempts \in Nat /\ row[t.id].status # "ABSENT"
  BY <1>u DEF TypeOK, RetryInv, RetryRunInv
<1>c. \A s \in Rows : /\ row'[s].ref = row[s].ref
                      /\ row'[s].status # "ABSENT" <=> row[s].status # "ABSENT"
                      /\ s # t.id => row'[s] = row[s]
  BY <1>u, <1>0, <1>a DEF TypeOK, SetRow
<1>d. row' \in [Rows -> [status : {"ABSENT", "PENDING", "FAILED", "PROCESSING", "SUCCESS", "DLQ"},
                         ref : Events \cup {0}, attempts : Nat, dlq : BOOLEAN]]
  <2>1. CASE row' = row
    BY <1>u, <2>1 DEF TypeOK
  <2>2. CASE SetRow(t.id, "PROCESSING", row[t.id].attempts)
    BY <1>u, <1>a, <2>2 DEF TypeOK, SetRow
  <2> QED
    BY <1>0, <2>1, <2>2
<1>e. /\ rcur' \in [RRuns -> [id : Rows \cup {0}, attempts : Nat, tx : Nat]]
      /\ rtodo' \in [RRuns -> SUBSET [id : Rows, attempts : Nat]]
      /\ rpc' \in [RRuns -> {"idle", "next", "exec", "settle", "failed", "critical"}]
      /\ blind' \subseteq Rows
  <2>1. [id |-> t.id, attempts |-> t.attempts, tx |-> 0] \in [id : Rows \cup {0}, attempts : Nat, tx : Nat]
    BY <1>a
  <2> QED
    BY <1>u, <1>0, <1>a, <2>1 DEF TypeOK
<1>1. TypeOK'
  BY <1>u, <1>d, <1>e DEF TypeOK, eventVars, queueVars, orphans
<1>2. QueueInv' /\ ClaimExclusive'
  BY <1>u DEF IInv, QueueInv, ClaimExclusive, IsTxOf, Approved, eventVars, queueVars
<1>3. \A v \in RRuns \ {w} : rcur'[v] = rcur[v] /\ rpc'[v] = rpc[v] /\ rtodo'[v] = rtodo[v]
  BY <1>u, <1>0 DEF TypeOK
<1>4. /\ rpc'[w] = "failed" /\ rcur'[w].id = t.id /\ t.id \in blind' /\ blind \subseteq blind'
      /\ rtodo'[w] \subseteq rtodo[w]
  BY <1>u, <1>0 DEF TypeOK
<1>5. RetryInv'
  <2> SUFFICES ASSUME NEW v \in RRuns PROVE RetryRunInv(v)'
    BY DEF RetryInv
  <2>1. CASE v = w
    BY <1>u, <1>a, <1>c, <1>4, <2>1 DEF RetryInv, RetryRunInv, TypeOK
  <2>2. CASE v # w
    BY <1>u, <1>c, <1>3, <1>4, <2>2 DEF RetryInv, RetryRunInv, IsTxOf, TypeOK
  <2> QED
    BY <2>1, <2>2
<1>6. RetryExclusive'
  BY <1>u, <1>3, <1>4 DEF RetryExclusive
<1>7. RowInv' /\ ChainInv' /\ RecordInv'
  BY <1>u, <1>c DEF IInv, RowInv, ChainInv, RecordInv, Approved, IsTxOf, Anchored, eventVars
<1> QED
  BY <1>1, <1>2, <1>5, <1>6, <1>7 DEF IInv

\* The row worked on is about an approved event.
LEMMA ExecIInv ==
  ASSUME IInv, NEW w \in RRuns, NEW outcome \in ROutcomes, RExec(w, outcome)
  PROVE  IInv'
<1> USE DEF IInv, TypeOK, RExec, ChainCall, Fault, NoFault, ROutcomes, eventVars, queueVars, history, orphans
<1>a. /\ rcur[w].id \in Rows /\ row[rcur[w].id].status # "ABSENT"
      /\ row[rcur[w].id].ref \in Events /\ Approved(row[rcur[w].id].ref)
  BY DEF RetryInv, RetryRunInv, RowInv
<1> DEFINE e == row[rcur[w].id].ref
<1>b. chain' = chain \/ chain' = Append(chain, e)
  OBVIOUS
<1>c. rpc' = [rpc EXCEPT ![w] = rpc'[w]] /\ rpc'[w] \in {"settle", "critical", "failed"}
  OBVIOUS
<1>d. rpc'[w] = "settle" => chain' = Append(chain, e)
  OBVIOUS
<1>e. chain' \in Seq(Events) /\ (\A i \in 1..Len(chain) : chain'[i] = chain[i] /\ i \in 1..Len(chain'))
  <2>1. CASE chain' = chain
    BY <2>1
  <2>2. CASE chain' = Append(chain, e)
    BY <1>a, <2>2
  <2> QED
    BY <1>b, <2>1, <2>2
<1>f. rcur' = [rcur EXCEPT ![w] = [id |-> rcur[w].id, attempts |-> rcur[w].attempts, tx |-> Len(chain')]]
  OBVIOUS
<1>g. faults' \in 0..MaxFaults
  BY FaultsAssumption
<1>h. UNCHANGED <<eventVars, dltTxId, row, queueVars, rtodo, orphans, notices, blind>>
  OBVIOUS
<1> HIDE DEF e
<1>1. TypeOK'
  BY <1>a, <1>c, <1>e, <1>f, <1>g, <1>h
<1>2. QueueInv'
  <2>1. \A i, f : IsTxOf(i, f) => IsTxOf(i, f)'
    BY <1>e DEF IsTxOf
  <2> QED
    BY <1>h, <2>1 DEF QueueInv, Approved, Midway
<1>3. ClaimExclusive'
  BY DEF ClaimExclusive, QueueInv
<1>4. RetryInv'
  <2> SUFFICES ASSUME NEW v \in RRuns PROVE RetryRunInv(v)'
    BY DEF RetryInv
  <2>1. CASE v = w
    <3>1. /\ rcur[w].id \notin blind => row[rcur[w].id].status = "PROCESSING"
          /\ \A t \in rtodo[w] : row[t.id].status # "ABSENT"
      BY DEF RetryInv, RetryRunInv
    <3>2. rcur'[w].id = rcur[w].id /\ rcur'[w].tx = Len(chain')
      BY <1>f
    <3>3. rpc'[w] = "settle" => Len(chain') \in 1..Len(chain') /\ chain'[Len(chain')] = e
      BY <1>a, <1>d, <1>e DEF e
    <3> QED
      BY <1>a, <1>h, <2>1, <3>1, <3>2, <3>3 DEF RetryRunInv, IsTxOf, e
  <2>2. CASE v # w
    BY <1>c, <1>e, <1>f, <1>h, <2>2 DEF RetryInv, RetryRunInv, IsTxOf
  <2> QED
    BY <2>1, <2>2
<1>5. RetryExclusive'
  BY DEF RetryExclusive, RetryInv, RetryRunInv
<1>6. RowInv'
  BY DEF RowInv, Approved
<1>7. ChainInv'
  BY <1>a, <1>b, <1>h DEF ChainInv, Approved, e
<1>8. RecordInv'
  BY DEF RecordInv, IsTxOf, Anchored, Null, Processing, RetryQueued
<1> QED
  BY <1>1, <1>2, <1>3, <1>4, <1>5, <1>6, <1>7, <1>8 DEF IInv

\* The row and its event are settled together, whether or not the run hears of it.
LEMMA SettledIInv ==
  ASSUME IInv, NEW w \in RRuns, rpc[w] = "settle", Settle(w), faults' \in 0..MaxFaults,
         UNCHANGED <<eventVars, chain, queueVars, rtodo, orphans, tries, notices>>,
         \/ RDone(w) /\ blind' = blind
         \/ /\ rpc' = [rpc EXCEPT ![w] = "failed"] /\ rcur' = rcur
            /\ blind' = blind \cup {rcur[w].id}
  PROVE  IInv'
<1> USE DEF IInv, TypeOK, Settle, SetRow, RDone, NoTry, eventVars, queueVars, orphans
<1>a. /\ rcur[w].id \in Rows /\ row[rcur[w].id].status # "ABSENT"
      /\ row[rcur[w].id].ref \in Events /\ Approved(row[rcur[w].id].ref)
  BY DEF RetryInv, RetryRunInv, RowInv
<1>b. /\ rcur[w].tx \in Nat \ {0} /\ IsTxOf(rcur[w].tx, row[rcur[w].id].ref)
  BY DEF RetryInv, RetryRunInv, IsTxOf
<1>c. \A s \in Rows : row'[s].ref = row[s].ref /\ (s # rcur[w].id => row'[s] = row[s])
  BY <1>a
<1>d. row'[rcur[w].id].status = "SUCCESS"
  BY <1>a
<1>1. TypeOK'
  <2>1. row' \in [Rows -> [status : {"ABSENT", "PENDING", "FAILED", "PROCESSING", "SUCCESS", "DLQ"},
                           ref : Events \cup {0}, attempts : Nat, dlq : BOOLEAN]]
    BY <1>a
  <2>4. blind' \subseteq Rows
    BY <1>a
  <2>2. /\ rcur' \in [RRuns -> [id : Rows \cup {0}, attempts : Nat, tx : Nat]]
        /\ rpc' \in [RRuns -> {"idle", "next", "exec", "settle", "failed", "critical"}]
    <3>1. CASE RDone(w)
      BY <3>1
    <3>2. CASE rpc' = [rpc EXCEPT ![w] = "failed"] /\ rcur' = rcur
      BY <3>2
    <3> QED
      BY <3>1, <3>2
  <2>3. dltTxId' \in [Events -> Unanchored \cup Nat]
    BY <1>a, <1>b
  <2> QED
    BY <2>1, <2>2, <2>3, <2>4
<1>2. QueueInv'
  BY <1>a, <1>b DEF QueueInv, IsTxOf, Approved, Midway, Null, RetryQueued
<1>3. ClaimExclusive'
  BY DEF ClaimExclusive, QueueInv
<1>4. RetryInv'
  <2> SUFFICES ASSUME NEW v \in RRuns PROVE RetryRunInv(v)'
    BY DEF RetryInv
  <2>1. \A t \in rtodo'[v] : row'[t.id].status # "ABSENT"
    BY <1>c, <1>d DEF RetryInv, RetryRunInv
  <2>2. CASE v = w
    BY <1>a, <1>d, <2>1, <2>2 DEF RetryInv, RetryRunInv
  <2>3. CASE v # w
    <3>1. rcur'[v] = rcur[v] /\ rpc'[v] = rpc[v] /\ rpc[w] \notin {"idle", "next"}
      BY <2>3
    <3>2. rpc[v] \notin {"idle", "next"} =>
            /\ row'[rcur[v].id].status # "ABSENT" /\ row'[rcur[v].id].ref = row[rcur[v].id].ref
            /\ rcur[v].id \notin blind => row'[rcur[v].id] = row[rcur[v].id]
      BY <1>c, <1>d, <2>3, <3>1 DEF RetryInv, RetryRunInv, RetryExclusive
    <3> QED
      BY <2>1, <3>1, <3>2 DEF RetryInv, RetryRunInv, IsTxOf
  <2> QED
    BY <2>2, <2>3
<1>5. RetryExclusive'
  <2>1. /\ blind \subseteq blind' /\ rpc[w] \notin {"idle", "next"}
        /\ \A v \in RRuns : \/ rpc'[v] \in {"idle", "next"}
                            \/ rcur'[v] = rcur[v] /\ (rpc'[v] = rpc[v] \/ v = w)
    OBVIOUS
  <2> QED
    BY <2>1 DEF RetryExclusive
<1>6. RowInv'
  BY <1>a, <1>c DEF RowInv, Approved
<1>7. ChainInv'
  BY DEF ChainInv, Approved, QueueInv
<1>8. RecordInv'
  BY <1>a, <1>b DEF RecordInv, IsTxOf, Anchored
<1> QED
  BY <1>1, <1>2, <1>3, <1>4, <1>5, <1>6, <1>7, <1>8 DEF IInv

\* The transaction commits.
LEMMA SettleIInv ==
  ASSUME IInv, NEW w \in RRuns, RSettle(w)
  PROVE  IInv'
BY SettledIInv DEF RSettle, history, IInv, TypeOK

\* A failed transaction changes neither; one that committed without an answer both.
LEMMA SettleFailsIInv ==
  ASSUME IInv, NEW w \in RRuns, NEW took \in BOOLEAN, RSettleFails(w, took)
  PROVE  IInv'
<1>f. faults' \in 0..MaxFaults
  BY FaultsAssumption DEF RSettleFails, Fault, IInv, TypeOK
<1>1. CASE took
  BY <1>f, <1>1, SettledIInv DEF RSettleFails
<1>2. CASE ~took
  <2> USE DEF IInv, TypeOK, RSettleFails, eventVars, queueVars, orphans
  <2>1. TypeOK'
    BY <1>f, <1>2
  <2>2. QueueInv' /\ ClaimExclusive'
    BY <1>2 DEF QueueInv, ClaimExclusive, IsTxOf, Approved, Midway
  <2>3. RetryInv'
    BY <1>2 DEF RetryInv, RetryRunInv, IsTxOf
  <2>4. RetryExclusive'
    BY <1>2 DEF RetryExclusive, RetryInv, RetryRunInv
  <2>5. RowInv' /\ ChainInv' /\ RecordInv'
    BY <1>2 DEF RowInv, ChainInv, RecordInv, Approved, IsTxOf, Anchored
  <2> QED
    BY <2>1, <2>2, <2>3, <2>4, <2>5
<1> QED
  BY <1>1, <1>2

\* The row that is given up or rescheduled is the one the run holds.
LEMMA HandleFailureIInv ==
  ASSUME IInv, NEW w \in RRuns, RHandleFailure(w)
  PROVE  IInv'
<1> USE DEF IInv, TypeOK, RHandleFailure, SetRow, RDone, NoTry, eventVars, queueVars, history, orphans
<1>a. /\ rcur[w].id \in Rows /\ row[rcur[w].id].status # "ABSENT"
      /\ row[rcur[w].id].ref \in Events /\ Approved(row[rcur[w].id].ref)
  BY DEF RetryInv, RetryRunInv, RowInv
<1>c. \A s \in Rows : row'[s].ref = row[s].ref /\ (s # rcur[w].id => row'[s] = row[s])
  BY <1>a
<1>d. row'[rcur[w].id].status \in {"DLQ", "FAILED"}
  BY <1>a
<1>1. TypeOK'
  <2>1. row' \in [Rows -> [status : {"ABSENT", "PENDING", "FAILED", "PROCESSING", "SUCCESS", "DLQ"},
                           ref : Events \cup {0}, attempts : Nat, dlq : BOOLEAN]]
    BY <1>a
  <2>2. /\ rcur' \in [RRuns -> [id : Rows \cup {0}, attempts : Nat, tx : Nat]]
        /\ rpc' \in [RRuns -> {"idle", "next", "exec", "settle", "failed", "critical"}]
    OBVIOUS
  <2>3. dltTxId' \in [Events -> Unanchored \cup Nat]
    BY <1>a
  <2> QED
    BY <2>1, <2>2, <2>3
<1>2. QueueInv'
  BY DEF QueueInv, IsTxOf, Approved, Midway, Null, Processing, RetryQueued
<1>3. ClaimExclusive'
  BY DEF ClaimExclusive, QueueInv
<1>4. RetryInv'
  <2> SUFFICES ASSUME NEW v \in RRuns PROVE RetryRunInv(v)'
    BY DEF RetryInv
  <2>1. \A t \in rtodo'[v] : row'[t.id].status # "ABSENT"
    BY <1>c, <1>d DEF RetryInv, RetryRunInv
  <2>2. CASE v = w
    BY <2>1, <2>2 DEF RetryInv, RetryRunInv
  <2>3. CASE v # w
    <3>1. rcur'[v] = rcur[v] /\ rpc'[v] = rpc[v] /\ rpc[w] \notin {"idle", "next"}
      BY <2>3
    <3>2. rpc[v] \notin {"idle", "next"} =>
            /\ row'[rcur[v].id].status # "ABSENT" /\ row'[rcur[v].id].ref = row[rcur[v].id].ref
            /\ rcur[v].id \notin blind => row'[rcur[v].id] = row[rcur[v].id]
      BY <1>c, <1>d, <2>3, <3>1 DEF RetryInv, RetryRunInv, RetryExclusive
    <3> QED
      BY <2>1, <3>1, <3>2 DEF RetryInv, RetryRunInv, IsTxOf
  <2> QED
    BY <2>2, <2>3
<1>5. RetryExclusive'
  BY DEF RetryExclusive, RetryInv, RetryRunInv
<1>6. RowInv'
  BY <1>a, <1>c DEF RowInv, Approved
<1>7. ChainInv'
  BY DEF ChainInv, Approved, QueueInv
<1>8. RecordInv'
  BY DEF RecordInv, IsTxOf, Anchored, Null, Processing, RetryQueued
<1> QED
  BY <1>1, <1>2, <1>3, <1>4, <1>5, <1>6, <1>7, <1>8 DEF IInv

\* A dead run leaves its row in PROCESSING, which nobody else takes.
LEMMA RAbortIInv ==
  ASSUME IInv, NEW w \in RRuns, RAbort(w)
  PROVE  IInv'
<1> USE DEF IInv, TypeOK, RAbort, Fault, HeldRows, NoTry, orphans, eventVars, queueVars, history
<1>1. TypeOK'
  <2>1. HeldRows(w) \subseteq Rows
    BY DEF RetryInv, RetryRunInv
  <2> QED
    BY <2>1, FaultsAssumption
<1>2. QueueInv'
  BY DEF QueueInv, IsTxOf, Approved, Midway, Null, Processing, RetryQueued
<1>3. ClaimExclusive'
  BY DEF ClaimExclusive, QueueInv
<1>4. RetryInv'
  BY DEF RetryInv, RetryRunInv, IsTxOf
<1>5. RetryExclusive'
  BY DEF RetryExclusive, RetryInv, RetryRunInv
<1>6. RowInv'
  BY DEF RowInv, Approved
<1>7. ChainInv'
  BY DEF ChainInv, Approved, QueueInv
<1>8. RecordInv'
  BY DEF RecordInv, IsTxOf, Anchored, Null, Processing, RetryQueued
<1> QED
  BY <1>1, <1>2, <1>3, <1>4, <1>5, <1>6, <1>7, <1>8 DEF IInv

-----------------------------------------------------------------------------
(* The theorems *)

\* Every step preserves the inductive invariant.
LEMMA NextIInv == IInv /\ [Next]_vars => IInv'
<1> SUFFICES ASSUME IInv, [Next]_vars PROVE IInv'
  OBVIOUS
<1>1. CASE UNCHANGED vars
  BY <1>1, StutterIInv
<1>2. ASSUME NEW e \in Events, EventStep(e) PROVE IInv'
  <2>1. CASE RecordAuthenticatedEvent(e)
    BY <2>1, CreateIInv DEF RecordAuthenticatedEvent
  <2>2. CASE RecordUnhashedEvent(e)
    BY <2>2, CreateIInv DEF RecordUnhashedEvent
  <2>3. CASE SuggestPublicEvent(e)
    BY <2>3, CreateIInv DEF SuggestPublicEvent
  <2>4. CASE Commission(e)
    BY <2>4, CreateIInv DEF Commission
  <2>5. CASE \E v \in {"APPROVED", "REJECTED"} : ReviewEvent(e, v)
    BY <2>5, ReviewIInv
  <2> QED
    BY <1>2, <2>1, <2>2, <2>3, <2>4, <2>5 DEF EventStep
<1>3. ASSUME NEW w \in QRuns, QStep(w) \/ QRecordFails(w) \/ QAbort(w) PROVE IInv'
  BY <1>3, SelectIInv, ClaimIInv, AnchorIInv, RecordIInv, RecordFailsIInv, ReturnIInv,
     EnqueueIInv, MarkIInv, QAbortIInv DEF QStep
<1>4. ASSUME NEW w \in RRuns, RStep(w) \/ RLost(w) \/ RAbort(w) PROVE IInv'
  BY <1>4, FetchIInv, LockIInv, LockFailsIInv, ExecIInv, SettleIInv, SettleFailsIInv,
     HandleFailureIInv, RAbortIInv DEF RStep, RLost
<1> QED
  BY <1>1, <1>2, <1>3, <1>4 DEF Next, RLost

\* The inductive invariant holds in every reachable state.
THEOREM Invariance == Spec => []IInv
BY InitIInv, NextIInv, PTL DEF Spec

\* Types, for every instance.
THEOREM TypeCorrect == Spec => []TypeOK
<1>1. IInv => TypeOK
  BY DEF IInv
<1> QED
  BY <1>1, Invariance, PTL

\* However many runs of processQueue overlap, no two of them hold the same event:
\* SKIP LOCKED keeps selections apart and the marker keeps committed claims apart.
THEOREM ClaimsAreExclusive == Spec => []ClaimExclusive
<1>1. IInv => ClaimExclusive
  BY DEF IInv
<1> QED
  BY <1>1, Invariance, PTL

\* Nothing unapproved or unhashed is ever anchored, and the verdict on what was
\* anchored stands.
THEOREM OnlyApprovedIsAnchored == Spec => []OnlyApprovedOnChain
<1>1. IInv => OnlyApprovedOnChain
  BY DEF IInv, TypeOK, ChainInv, Approved, OnlyApprovedOnChain
<1> QED
  BY <1>1, Invariance, PTL

\* A recorded transaction id is that of a transaction which anchored the event.
THEOREM RecordsAreTrue == Spec => []AnchoredIsOnChain
<1>1. IInv => AnchoredIsOnChain
  BY DEF IInv, RecordInv, AnchoredIsOnChain, IsTxOf
<1> QED
  BY <1>1, Invariance, PTL
-----------------------------------------------------------------------------
(* Nothing is lost: a second inductive invariant, on top of the first *)

HasRow(e) == \E r \in Rows : row[r].status # "ABSENT" /\ row[r].ref = e

\* The row comes before the marker that points to it.
MarkInv == \A w \in QRuns : qpc[w] = "mark" => HasRow(qcur[w].event)

\* No copy of a row counts more attempts than were made; one more was made, and
\* is not counted yet, from the call to the chain until it is settled.  Of rows that
\* were given up on without a try (blind) nothing of the kind is known.
CountInv ==
  /\ \A r \in Rows \ blind : row[r].attempts <= tries[r]
  /\ \A w \in RRuns :
       /\ \A t \in rtodo[w] : t.id \notin blind => t.attempts <= tries[t.id]
       /\ rcur[w].id \notin blind =>
            /\ rpc[w] = "exec" => rcur[w].attempts <= tries[rcur[w].id]
            /\ rpc[w] \in {"settle", "failed", "critical"} => rcur[w].attempts < tries[rcur[w].id]

LossInv == NothingLost /\ MarkInv /\ CountInv

\* The initial state satisfies it.
LEMMA InitLoss == Init => LossInv
<1> SUFFICES ASSUME Init PROVE LossInv
  OBVIOUS
<1> USE DEF Init, NoRow, NoEvent, NoTry, Null, Processing, RetryQueued
<1>1. NothingLost
  BY DEF NothingLost, Anchored
<1>2. MarkInv /\ CountInv
  BY DEF MarkInv, CountInv
<1> QED
  BY <1>1, <1>2 DEF LossInv

\* Steps of events, and stutters, touch none of it.
LEMMA EventLoss ==
  ASSUME LossInv, UNCHANGED <<dltTxId, row, queueVars, retryVars, history>>
  PROVE  LossInv'
BY DEF LossInv, NothingLost, MarkInv, CountInv, HasRow, HeldEvents, HeldRows, Anchored,
       queueVars, retryVars, history, orphans

\* A row stays about its event, and one that is settled stays as it is: whoever
\* writes a row holds it in PROCESSING, creates it, or lost a database call on it.
LEMMA RowsStay ==
  ASSUME IInv, [Next]_vars, NEW r \in Rows
  PROVE  /\ row[r].status # "ABSENT" => row'[r].status # "ABSENT" /\ row'[r].ref = row[r].ref
         /\ row[r].status \in {"SUCCESS", "DLQ"} /\ r \notin blind' => row'[r] = row[r]
<1> DEFINE Stays == /\ row[r].status # "ABSENT" => row'[r].status # "ABSENT" /\ row'[r].ref = row[r].ref
                    /\ row[r].status \in {"SUCCESS", "DLQ"} /\ r \notin blind' => row'[r] = row[r]
<1>1. ASSUME NEW i \in Rows, NEW s \in {"PROCESSING", "SUCCESS", "DLQ", "FAILED"}, NEW n, SetRow(i, s, n),
             row[i].status \in {"PENDING", "FAILED", "PROCESSING"} \/ i \in blind'
      PROVE  Stays
  <2>1. row' = [row EXCEPT ![i] = [status |-> s, ref |-> row[i].ref, attempts |-> n,
                                   dlq |-> row[i].dlq \/ s = "DLQ"]]
    BY <1>1 DEF SetRow
  <2>2. i = r => row'[r] = [status |-> s, ref |-> row[r].ref, attempts |-> n, dlq |-> row[r].dlq \/ s = "DLQ"]
    BY <2>1 DEF IInv, TypeOK
  <2>3. i # r => row'[r] = row[r]
    BY <2>1 DEF IInv, TypeOK
  <2> QED
    BY <1>1, <2>2, <2>3
<1>2. ASSUME row' = row PROVE Stays
  BY <1>2
<1>3. ASSUME NEW e, Enqueue(e) PROVE Stays
  BY <1>3 DEF Enqueue, IInv, TypeOK
<1>4. ASSUME NEW w \in RRuns, NEW took \in BOOLEAN, RLock(w) \/ RLockFails(w, took) PROVE Stays
  <2>1. CASE row' # row
    <3>1. PICK t \in rtodo[w] : Retryable(t.id) /\ SetRow(t.id, "PROCESSING", row[t.id].attempts)
      BY <1>4, <2>1 DEF RLock, RLockFails
    <3>2. t.id \in Rows /\ row[t.id].status \in {"PENDING", "FAILED", "PROCESSING"}
      BY <3>1 DEF IInv, TypeOK, Retryable
    <3> HIDE DEF Stays
    <3> QED
      BY <1>1, <3>1, <3>2
  <2> QED
    BY <1>2, <2>1
<1>5. ASSUME NEW w \in RRuns, NEW took \in BOOLEAN, RSettle(w) \/ RHandleFailure(w) \/ RSettleFails(w, took)
      PROVE  Stays
  <2>0. rcur[w].id \in Rows /\ (row[rcur[w].id].status = "PROCESSING" \/ rcur[w].id \in blind)
    BY <1>5 DEF IInv, RetryInv, RetryRunInv, RSettle, RHandleFailure, RSettleFails
  <2>1. row' = row \/ \E s \in {"SUCCESS", "DLQ", "FAILED"} : SetRow(rcur[w].id, s, rcur[w].attempts + 1)
    BY <1>5 DEF RSettle, RHandleFailure, RSettleFails, Settle
  <2>2. blind \subseteq blind'
    BY <1>5 DEF RSettle, RHandleFailure, RSettleFails, history
  <2> HIDE DEF Stays
  <2> QED
    BY <1>1, <1>2, <2>0, <2>1, <2>2
<1>6. \/ row' = row
      \/ \E e : Enqueue(e)
      \/ \E w \in RRuns, took \in BOOLEAN : RLock(w) \/ RLockFails(w, took)
      \/ \E w \in RRuns, took \in BOOLEAN : RSettle(w) \/ RHandleFailure(w) \/ RSettleFails(w, took)
  <2>1. CASE UNCHANGED vars
    BY <2>1 DEF vars
  <2>2. CASE \E e \in Events : EventStep(e)
    BY <2>2 DEF EventStep, RecordAuthenticatedEvent, RecordUnhashedEvent, SuggestPublicEvent,
                Commission, Create, ReviewEvent
  <2>3. CASE \E w \in QRuns : QStep(w) \/ QRecordFails(w) \/ QAbort(w)
    BY <2>3 DEF QStep, QSelect, QClaim, QAnchor, QRecord, QReturn, QEnqueue, QMark, QRecordFails, QAbort
  <2>4. CASE \E w \in RRuns : RStep(w) \/ RLost(w) \/ RAbort(w)
    BY <2>4 DEF RStep, RFetch, RExec, RLost, RAbort
  <2> QED
    BY <2>1, <2>2, <2>3, <2>4 DEF Next, RLost
<1> HIDE DEF Stays
<1>7. Stays
  BY <1>2, <1>3, <1>4, <1>5, <1>6
<1> QED
  BY <1>7 DEF Stays

\* A row on which a database call was lost stays marked.
LEMMA BlindStays ==
  ASSUME [Next]_vars
  PROVE  blind \subseteq blind'
<1>1. CASE UNCHANGED vars
  BY <1>1 DEF vars, history
<1>2. CASE \E e \in Events : EventStep(e)
  BY <1>2 DEF EventStep, RecordAuthenticatedEvent, RecordUnhashedEvent, SuggestPublicEvent,
              Commission, Create, ReviewEvent, history
<1>3. CASE \E w \in QRuns : QStep(w) \/ QRecordFails(w) \/ QAbort(w)
  BY <1>3 DEF QStep, QSelect, QClaim, QAnchor, QRecord, QReturn, QEnqueue, QMark, QRecordFails, QAbort, history
<1>4. CASE \E w \in RRuns : RStep(w) \/ RLost(w) \/ RAbort(w)
  BY <1>4 DEF RStep, RFetch, RLock, RExec, RSettle, RHandleFailure, RLost, RLockFails, RSettleFails, RAbort, history
<1> QED
  BY <1>1, <1>2, <1>3, <1>4 DEF Next, RLost

\* A transaction id is never taken back.
LEMMA IdsStay ==
  ASSUME IInv, [Next]_vars, NEW e \in Events, Anchored(e)
  PROVE  Anchored(e)'
<1> USE DEF Anchored, Null, Processing, RetryQueued
<1>1. CASE dltTxId' = dltTxId
  BY <1>1
<1>2. ASSUME NEW w \in QRuns, QClaim(w) \/ QReturn(w) \/ QMark(w) PROVE Anchored(e)'
  <2>1. dltTxId[e] \notin {0, -1, -2}
    OBVIOUS
  <2>2. dltTxId'[e] = dltTxId[e]
    BY <1>2, <2>1 DEF QClaim, QReturn, QMark, IInv, TypeOK
  <2> QED
    BY <2>2
<1>3. ASSUME NEW w \in QRuns, QRecord(w) PROVE Anchored(e)'
  BY <1>3 DEF QRecord, IInv, TypeOK, QueueInv, IsTxOf
<1>4. ASSUME NEW w \in RRuns, rpc[w] = "settle" /\ Settle(w) PROVE Anchored(e)'
  BY <1>4 DEF Settle, IInv, TypeOK, RetryInv, RetryRunInv, IsTxOf
<1>5. \/ dltTxId' = dltTxId
      \/ \E w \in QRuns : QClaim(w) \/ QReturn(w) \/ QMark(w)
      \/ \E w \in QRuns : QRecord(w)
      \/ \E w \in RRuns : rpc[w] = "settle" /\ Settle(w)
  <2>1. CASE UNCHANGED vars
    BY <2>1 DEF vars
  <2>2. CASE \E f \in Events : EventStep(f)
    BY <2>2 DEF EventStep, RecordAuthenticatedEvent, RecordUnhashedEvent, SuggestPublicEvent,
                Commission, Create, ReviewEvent
  <2>3. CASE \E w \in QRuns : QStep(w) \/ QRecordFails(w) \/ QAbort(w)
    BY <2>3 DEF QStep, QSelect, QAnchor, QEnqueue, QRecordFails, QAbort
  <2>4. CASE \E w \in RRuns : RStep(w) \/ RLost(w) \/ RAbort(w)
    BY <2>4 DEF RStep, RFetch, RLock, RExec, RSettle, RHandleFailure, RLost, RLockFails, RSettleFails, RAbort
  <2> QED
    BY <2>1, <2>2, <2>3, <2>4 DEF Next, RLost
<1> QED
  BY <1>1, <1>2, <1>3, <1>4, <1>5

\* An event that has a row keeps it.
LEMMA HasRowStays ==
  ASSUME IInv, [Next]_vars, NEW e, HasRow(e)
  PROVE  HasRow(e)'
<1>1. PICK r \in Rows : row[r].status # "ABSENT" /\ row[r].ref = e
  BY DEF HasRow
<1>2. row'[r].status # "ABSENT" /\ row'[r].ref = e
  BY <1>1, RowsStay
<1> QED
  BY <1>2 DEF HasRow

\* What a step must show of markers and rows, when nothing else of NothingLost changes.
LEMMA QueueLoss ==
  ASSUME IInv, LossInv, [Next]_vars, NEW w \in QRuns, UNCHANGED <<rpc, rtodo, rcur, tries, orphanRows, blind>>,
         \A v \in QRuns \ {w} : qpc'[v] = qpc[v] /\ qbatch'[v] = qbatch[v] /\ qcur'[v] = qcur[v],
         orphanEvents \subseteq orphanEvents',
         row' = row \/ \E e : Enqueue(e),
         qpc'[w] = "mark" => \E r \in Rows : row'[r].status # "ABSENT" /\ row'[r].ref = qcur'[w].event,
         \A e \in Events :
           /\ dltTxId'[e] = Processing => \/ e \in HeldEvents(w)'
                                          \/ dltTxId[e] = Processing /\ e \notin HeldEvents(w)
                                          \/ e \in orphanEvents'
           /\ dltTxId'[e] = RetryQueued => dltTxId[e] = RetryQueued \/ HasRow(e)'
  PROVE  LossInv'
<1>1. MarkInv'
  <2> SUFFICES ASSUME NEW v \in QRuns, qpc'[v] = "mark"
               PROVE  \E r \in Rows : row'[r].status # "ABSENT" /\ row'[r].ref = qcur'[v].event
    BY DEF MarkInv, HasRow
  <2>1. CASE v = w
    BY <2>1
  <2>2. CASE v # w
    <3>1. PICK r \in Rows : row[r].status # "ABSENT" /\ row[r].ref = qcur[v].event
      BY <2>2 DEF LossInv, MarkInv, HasRow
    <3>2. row'[r].status # "ABSENT" /\ row'[r].ref = row[r].ref /\ qcur'[v] = qcur[v]
      BY <2>2, <3>1, RowsStay
    <3> QED
      BY <3>1, <3>2
  <2> QED
    BY <2>1, <2>2
<1>2. \A r \in Rows : row'[r] = row[r] \/ (row'[r].status = "PENDING" /\ row'[r].attempts = 0)
  BY DEF Enqueue, IInv, TypeOK
<1>3. CountInv'
  <2>1. tries \in [Rows -> Nat] /\ \A r \in Rows \ blind : row[r].attempts <= tries[r]
    BY DEF LossInv, CountInv, IInv, TypeOK
  <2>2. \A r \in Rows \ blind : row'[r].attempts <= tries[r]
    BY <1>2, <2>1
  <2> QED
    BY <2>2 DEF LossInv, CountInv
<1>4. ASSUME NEW e \in Events, dltTxId'[e] = Processing
      PROVE  e \in orphanEvents' \/ \E v \in QRuns : e \in HeldEvents(v)'
  <2>1. CASE dltTxId[e] = Processing /\ e \notin HeldEvents(w)
    <3>1. CASE e \in orphanEvents
      BY <3>1
    <3>2. ASSUME NEW v \in QRuns, e \in HeldEvents(v) PROVE e \in HeldEvents(v)'
      <4>1. v # w
        BY <2>1, <3>2
      <4> QED
        BY <3>2, <4>1 DEF HeldEvents
    <3> QED
      BY <2>1, <3>1, <3>2 DEF LossInv, NothingLost
  <2> QED
    BY <1>4, <2>1
<1>5. ASSUME NEW e \in Events, dltTxId'[e] = RetryQueued
      PROVE  HasRow(e)'
  <2>1. CASE dltTxId[e] = RetryQueued
    <3>1. HasRow(e)
      BY <2>1 DEF LossInv, NothingLost, HasRow
    <3> QED
      BY <3>1, HasRowStays
  <2> QED
    BY <1>5, <2>1
<1>6. ASSUME NEW r \in Rows, row'[r].status = "PROCESSING"
      PROVE  r \in orphanRows' \/ \E v \in RRuns : r \in HeldRows(v)'
  BY <1>2, <1>6 DEF LossInv, NothingLost, HeldRows
<1>7. ASSUME NEW r \in Rows, row'[r].status = "SUCCESS"
      PROVE  dltTxId'[row'[r].ref] > 0
  <2>1. row'[r] = row[r] /\ row[r].ref \in Events
    BY <1>2, <1>7 DEF IInv, RowInv
  <2>2. PICK e \in Events : e = row[r].ref
    BY <2>1
  <2>3. Anchored(e)
    BY <1>7, <2>1, <2>2 DEF LossInv, NothingLost
  <2>4. Anchored(e)'
    BY <2>3, IdsStay
  <2> QED
    BY <2>1, <2>2, <2>4 DEF Anchored
<1>8. NothingLost'
  BY <1>4, <1>5, <1>6, <1>7 DEF NothingLost, HasRow, Anchored
<1> QED
  BY <1>1, <1>3, <1>8 DEF LossInv

\* A run of processQueue lets go of an event only with its marker changed, or dies with it.
LEMMA QRunLoss ==
  ASSUME IInv, LossInv, [Next]_vars, NEW w \in QRuns, QStep(w) \/ QRecordFails(w) \/ QAbort(w)
  PROVE  LossInv'
<1> USE DEF Null, Processing, RetryQueued
<1>0. /\ qpc \in [QRuns -> {"idle", "locked", "run", "record", "funds", "enqueue", "mark"}]
      /\ qbatch \in [QRuns -> SUBSET Events]
      /\ qcur \in [QRuns -> [event : Events \cup {0}, tx : Nat]]
      /\ dltTxId \in [Events -> Unanchored \cup Nat]
      /\ qpc[w] = "idle" => qbatch[w] = {}
      /\ qpc[w] \in Midway => qcur[w].event \in qbatch[w]
      /\ qpc[w] = "record" => qcur[w].tx > 0
  BY DEF IInv, TypeOK, QueueInv, IsTxOf
<1>1. CASE QSelect(w)
  BY <1>0, <1>1, QueueLoss DEF QSelect, HeldEvents, retryVars, history, orphans
<1>2. CASE QClaim(w)
  BY <1>0, <1>2, QueueLoss DEF QClaim, HeldEvents, retryVars, history, orphans
<1>3. ASSUME NEW e \in Events, NEW outcome \in QOutcomes, QAnchor(w, e, outcome) PROVE LossInv'
  BY <1>0, <1>3, QueueLoss DEF QAnchor, HeldEvents, QOutcomes, retryVars, history, orphans
<1>4. CASE QRecord(w)
  <2>1. \A e \in Events : dltTxId'[e] = Processing => dltTxId[e] = Processing /\ e # qcur[w].event
    BY <1>0, <1>4 DEF QRecord, Midway
  <2>2. \A e \in Events : dltTxId'[e] = RetryQueued => dltTxId[e] = RetryQueued
    BY <1>0, <1>4 DEF QRecord, Midway
  <2>3. \A e \in HeldEvents(w) : e # qcur[w].event => e \in HeldEvents(w)'
    BY <1>0, <1>4 DEF QRecord, QDone, HeldEvents
  <2>4. qpc'[w] # "mark"
    BY <1>0, <1>4 DEF QRecord, QDone
  <2> QED
    BY <1>0, <1>4, <2>1, <2>2, <2>3, <2>4, QueueLoss DEF QRecord, QDone, retryVars, orphans
<1>5. CASE QReturn(w)
  <2>1. \A e \in Events : dltTxId'[e] = Processing => dltTxId[e] = Processing /\ e # qcur[w].event
    BY <1>0, <1>5 DEF QReturn, Midway
  <2>2. \A e \in Events : dltTxId'[e] = RetryQueued => dltTxId[e] = RetryQueued
    BY <1>0, <1>5 DEF QReturn, Midway
  <2>3. \A e \in HeldEvents(w) : e # qcur[w].event => e \in HeldEvents(w)'
    BY <1>0, <1>5 DEF QReturn, QDone, HeldEvents
  <2>4. qpc'[w] # "mark"
    BY <1>0, <1>5 DEF QReturn, QDone
  <2> QED
    BY <1>0, <1>5, <2>1, <2>2, <2>3, <2>4, QueueLoss DEF QReturn, QDone, retryVars, history, orphans
<1>6. CASE QEnqueue(w)
  <2>1. Enqueue(qcur[w].event) /\ qcur' = qcur
    BY <1>6 DEF QEnqueue
  <2>2. \E r \in Rows : row'[r].status # "ABSENT" /\ row'[r].ref = qcur'[w].event
    BY <2>1 DEF Enqueue, IInv, TypeOK
  <2>3. HeldEvents(w)' = HeldEvents(w)
    BY <1>0, <1>6 DEF QEnqueue, HeldEvents
  <2> QED
    BY <1>0, <1>6, <2>1, <2>2, <2>3, QueueLoss DEF QEnqueue, retryVars, history, orphans
<1>7. CASE QMark(w)
  <2>1. \A e \in Events : dltTxId'[e] = Processing => dltTxId[e] = Processing /\ e # qcur[w].event
    BY <1>0, <1>7 DEF QMark, Midway
  <2>2. HasRow(qcur[w].event)
    BY <1>7 DEF QMark, LossInv, MarkInv
  <2>3. \A e \in Events : dltTxId'[e] = RetryQueued => dltTxId[e] = RetryQueued \/ HasRow(e)'
    BY <1>0, <1>7, <2>2, HasRowStays DEF QMark, Midway
  <2>4. \A e \in HeldEvents(w) : e # qcur[w].event => e \in HeldEvents(w)'
    BY <1>0, <1>7 DEF QMark, QDone, HeldEvents
  <2>5. qpc'[w] # "mark"
    BY <1>0, <1>7 DEF QMark, QDone
  <2> QED
    BY <1>0, <1>7, <2>1, <2>3, <2>4, <2>5, QueueLoss DEF QMark, QDone, retryVars, history, orphans
<1>8. CASE QRecordFails(w)
  BY <1>0, <1>8, QueueLoss DEF QRecordFails, HeldEvents, retryVars, history, orphans
<1>9. CASE QAbort(w)
  <2>1. \A e \in HeldEvents(w) : e \in orphanEvents'
    BY <1>9 DEF QAbort
  <2> QED
    BY <1>0, <1>9, <2>1, QueueLoss DEF QAbort, retryVars
<1> QED
  BY <1>1, <1>2, <1>3, <1>4, <1>5, <1>6, <1>7, <1>8, <1>9 DEF QStep

\* What a step of processRetries must show: who answers for rows in PROCESSING,
\* that a row is closed as SUCCESS with its event recorded, and that attempts are
\* counted after they are made.
LEMMA RetryLoss ==
  ASSUME IInv, LossInv, [Next]_vars, NEW w \in RRuns, UNCHANGED <<queueVars, orphanEvents>>,
         \A v \in RRuns \ {w} : rpc'[v] = rpc[v] /\ rtodo'[v] = rtodo[v] /\ rcur'[v] = rcur[v],
         orphanRows \subseteq orphanRows',
         \A e \in Events : dltTxId'[e] = dltTxId[e] \/ Anchored(e)',
         \A r \in Rows :
           /\ row'[r].status = "PROCESSING" => \/ r \in HeldRows(w)'
                                               \/ row[r].status = "PROCESSING" /\ r \notin HeldRows(w)
                                               \/ r \in orphanRows'
           /\ row'[r].status = "SUCCESS" => row[r].status = "SUCCESS" \/ dltTxId'[row'[r].ref] > 0,
         tries \in [Rows -> Nat], tries' \in [Rows -> Nat],
         \A r \in Rows : tries[r] <= tries'[r] /\ (r \notin blind' => row'[r].attempts <= tries'[r]),
         blind \subseteq blind',
         \A t \in rtodo'[w] : t.id \notin blind' => t.attempts <= tries'[t.id],
         rcur'[w].id \notin blind' =>
           /\ rpc'[w] = "exec" => rcur'[w].attempts <= tries'[rcur'[w].id]
           /\ rpc'[w] \in {"settle", "failed", "critical"} => rcur'[w].attempts < tries'[rcur'[w].id]
  PROVE  LossInv'
<1>1. MarkInv'
  <2> SUFFICES ASSUME NEW v \in QRuns, qpc'[v] = "mark"
               PROVE  \E r \in Rows : row'[r].status # "ABSENT" /\ row'[r].ref = qcur'[v].event
    BY DEF MarkInv, HasRow
  <2>1. PICK r \in Rows : row[r].status # "ABSENT" /\ row[r].ref = qcur[v].event
    BY DEF LossInv, MarkInv, HasRow, queueVars
  <2>2. row'[r].status # "ABSENT" /\ row'[r].ref = row[r].ref /\ qcur'[v] = qcur[v]
    BY <2>1, RowsStay DEF queueVars
  <2> QED
    BY <2>1, <2>2
<1>2. CountInv'
  <2> SUFFICES ASSUME NEW v \in RRuns
               PROVE  /\ \A t \in rtodo'[v] : t.id \notin blind' => t.attempts <= tries'[t.id]
                      /\ rcur'[v].id \notin blind' =>
                           /\ rpc'[v] = "exec" => rcur'[v].attempts <= tries'[rcur'[v].id]
                           /\ rpc'[v] \in {"settle", "failed", "critical"} =>
                                rcur'[v].attempts < tries'[rcur'[v].id]
    BY DEF CountInv
  <2>1. CASE v = w
    BY <2>1
  <2>2. CASE v # w
    <3>1. /\ rtodo[v] \subseteq [id : Rows, attempts : Nat]
          /\ rcur[v].attempts \in Nat
          /\ rpc[v] \notin {"idle", "next"} => rcur[v].id \in Rows
          /\ rpc'[v] = rpc[v] /\ rtodo'[v] = rtodo[v] /\ rcur'[v] = rcur[v]
      BY <2>2 DEF IInv, TypeOK, RetryInv, RetryRunInv
    <3>2. \A t \in rtodo[v] : t.id \notin blind' => t.attempts <= tries'[t.id]
      <4> SUFFICES ASSUME NEW t \in rtodo[v], t.id \notin blind' PROVE t.attempts <= tries'[t.id]
        OBVIOUS
      <4>1. t.attempts \in Nat /\ t.id \in Rows /\ t.attempts <= tries[t.id]
        BY <3>1 DEF LossInv, CountInv
      <4>2. tries[t.id] \in Nat /\ tries'[t.id] \in Nat /\ tries[t.id] <= tries'[t.id]
        BY <4>1
      <4> QED
        BY <4>1, <4>2
    <3>3. ASSUME rpc[v] \in {"exec", "settle", "failed", "critical"}
          PROVE  /\ tries[rcur[v].id] \in Nat /\ tries'[rcur[v].id] \in Nat
                 /\ tries[rcur[v].id] <= tries'[rcur[v].id]
      BY <3>1, <3>3
    <3> QED
      BY <3>1, <3>2, <3>3 DEF LossInv, CountInv
  <2> QED
    BY <2>1, <2>2
<1>3. ASSUME NEW e \in Events, dltTxId'[e] = Processing
      PROVE  e \in orphanEvents' \/ \E v \in QRuns : e \in HeldEvents(v)'
  BY <1>3 DEF LossInv, NothingLost, HeldEvents, queueVars, Anchored, Processing
<1>4. ASSUME NEW e \in Events, dltTxId'[e] = RetryQueued PROVE HasRow(e)'
  <2>1. dltTxId[e] = RetryQueued
    BY <1>4 DEF Anchored, RetryQueued
  <2>2. HasRow(e)
    BY <2>1 DEF LossInv, NothingLost, HasRow
  <2> QED
    BY <2>2, HasRowStays
<1>5. ASSUME NEW r \in Rows, row'[r].status = "PROCESSING"
      PROVE  r \in orphanRows' \/ \E v \in RRuns : r \in HeldRows(v)'
  <2>1. CASE row[r].status = "PROCESSING" /\ r \notin HeldRows(w)
    <3>1. CASE r \in orphanRows
      BY <3>1
    <3>2. ASSUME NEW v \in RRuns, r \in HeldRows(v) PROVE r \in HeldRows(v)'
      <4>1. v # w
        BY <2>1, <3>2
      <4> QED
        BY <3>2, <4>1 DEF HeldRows
    <3> QED
      BY <2>1, <3>1, <3>2 DEF LossInv, NothingLost
  <2> QED
    BY <1>5, <2>1
<1>6. ASSUME NEW r \in Rows, row'[r].status = "SUCCESS"
      PROVE  dltTxId'[row'[r].ref] > 0
  <2>1. CASE row[r].status = "SUCCESS"
    <3>1. row'[r].ref = row[r].ref /\ row[r].ref \in Events
      BY <2>1, RowsStay DEF IInv, RowInv
    <3>2. PICK e \in Events : e = row[r].ref
      BY <3>1
    <3>3. Anchored(e)
      BY <2>1, <3>2 DEF LossInv, NothingLost
    <3>4. Anchored(e)'
      BY <3>3, IdsStay
    <3> QED
      BY <3>1, <3>2, <3>4 DEF Anchored
  <2> QED
    BY <1>6, <2>1
<1>7. NothingLost'
  BY <1>3, <1>4, <1>5, <1>6 DEF NothingLost, HasRow, Anchored
<1> QED
  BY <1>1, <1>2, <1>7 DEF LossInv

\* The row that a run writes after its try, with the attempts counted that were made.
LEMMA SettledCount ==
  ASSUME IInv, LossInv, NEW w \in RRuns, rpc[w] \in {"settle", "failed", "critical"},
         NEW s \in {"SUCCESS", "DLQ", "FAILED"}, SetRow(rcur[w].id, s, rcur[w].attempts + 1)
  PROVE  /\ \A r \in Rows \ blind : row'[r].attempts <= tries[r]
         /\ row'[rcur[w].id].status = s /\ row'[rcur[w].id].ref = row[rcur[w].id].ref
         /\ \A r \in Rows \ {rcur[w].id} : row'[r] = row[r]
<1>1. /\ rcur[w].id \in Rows /\ rcur[w].attempts \in Nat /\ tries[rcur[w].id] \in Nat
      /\ rcur[w].id \notin blind => rcur[w].attempts < tries[rcur[w].id]
  BY DEF IInv, TypeOK, RetryInv, RetryRunInv, LossInv, CountInv
<1>2. /\ row'[rcur[w].id].status = s /\ row'[rcur[w].id].ref = row[rcur[w].id].ref
      /\ row'[rcur[w].id].attempts = rcur[w].attempts + 1
      /\ \A r \in Rows \ {rcur[w].id} : row'[r] = row[r]
  BY <1>1 DEF SetRow, IInv, TypeOK
<1>3. \A r \in Rows \ blind : row'[r].attempts <= tries[r]
  <2> SUFFICES ASSUME NEW r \in Rows \ blind PROVE row'[r].attempts <= tries[r]
    OBVIOUS
  <2>1. CASE r = rcur[w].id
    BY <1>1, <1>2, <2>1
  <2>2. CASE r # rcur[w].id
    BY <1>2, <2>2 DEF LossInv, CountInv
  <2> QED
    BY <2>1, <2>2
<1> QED
  BY <1>2, <1>3

\* A run of processRetries lets go of a row only with its status changed, or dies with it.
LEMMA RRunLoss ==
  ASSUME IInv, LossInv, [Next]_vars, NEW w \in RRuns, RStep(w) \/ RLost(w) \/ RAbort(w)
  PROVE  LossInv'
<1>0. /\ rpc \in [RRuns -> {"idle", "next", "exec", "settle", "failed", "critical"}]
      /\ rtodo \in [RRuns -> SUBSET [id : Rows, attempts : Nat]]
      /\ rcur \in [RRuns -> [id : Rows \cup {0}, attempts : Nat, tx : Nat]]
      /\ tries \in [Rows -> Nat]
      /\ row \in [Rows -> [status : {"ABSENT", "PENDING", "FAILED", "PROCESSING", "SUCCESS", "DLQ"},
                           ref : Events \cup {0}, attempts : Nat, dlq : BOOLEAN]]
      /\ dltTxId \in [Events -> Unanchored \cup Nat]
      /\ rpc[w] \notin {"idle", "next"} => rcur[w].id \in Rows
      /\ blind \subseteq blind'
  BY BlindStays DEF IInv, TypeOK, RetryInv, RetryRunInv
<1>c. /\ \A r \in Rows \ blind : row[r].attempts <= tries[r]
      /\ \A t \in rtodo[w] : t.id \notin blind => t.attempts <= tries[t.id]
      /\ rcur[w].id \notin blind =>
           /\ rpc[w] = "exec" => rcur[w].attempts <= tries[rcur[w].id]
           /\ rpc[w] \in {"settle", "failed", "critical"} => rcur[w].attempts < tries[rcur[w].id]
  BY DEF LossInv, CountInv
<1>1. CASE RFetch(w)
  <2>1. PICK S \in SUBSET Rows : rtodo' = [rtodo EXCEPT ![w] = {[id |-> r, attempts |-> row[r].attempts] : r \in S}]
    BY <1>1, LowestSubset DEF RFetch
  <2>2. \A t \in rtodo'[w] : t.id \notin blind => t.attempts <= tries[t.id]
    BY <1>0, <1>c, <2>1
  <2>3. HeldRows(w) = {} /\ rpc'[w] = "next"
    BY <1>0, <1>1 DEF RFetch, HeldRows
  <2>4. UNCHANGED <<row, dltTxId, rcur, tries, queueVars, orphans, blind>>
    BY <1>1 DEF RFetch, history
  <2>5. \A v \in RRuns \ {w} : rpc'[v] = rpc[v] /\ rtodo'[v] = rtodo[v]
    BY <1>0, <1>1, <2>1 DEF RFetch
  <2>6. \A r \in Rows : tries[r] <= tries[r]
    BY <1>0
  <2> QED
    BY <1>0, <1>c, <2>2, <2>3, <2>4, <2>5, <2>6, RetryLoss DEF orphans
<1>2. CASE RLock(w)
  <2>1. PICK t \in rtodo[w] :
          /\ rtodo' = [rtodo EXCEPT ![w] = @ \ {t}]
          /\ IF Retryable(t.id)
               THEN /\ SetRow(t.id, "PROCESSING", row[t.id].attempts)
                    /\ rcur' = [rcur EXCEPT ![w] = [id |-> t.id, attempts |-> t.attempts, tx |-> 0]]
                    /\ rpc' = [rpc EXCEPT ![w] = "exec"]
               ELSE /\ UNCHANGED <<row, rcur>>
                    /\ rpc' = RNext(w)
    BY <1>2 DEF RLock
  <2>2. /\ UNCHANGED <<dltTxId, tries, queueVars, orphans, blind>> /\ HeldRows(w) = {}
        /\ \A r \in Rows : tries[r] <= tries[r]
        /\ t.id \in Rows /\ (t.id \notin blind => t.attempts <= tries[t.id])
        /\ \A u \in rtodo'[w] : u.id \notin blind => u.attempts <= tries[u.id]
    BY <1>0, <1>2, <1>c, <2>1 DEF RLock, HeldRows, history
  <2>3. CASE Retryable(t.id)
    <3>1. /\ row'[t.id].status = "PROCESSING" /\ row'[t.id].attempts = row[t.id].attempts
          /\ \A r \in Rows \ {t.id} : row'[r] = row[r]
      BY <1>0, <2>1, <2>2, <2>3 DEF SetRow
    <3>2. rcur'[w] = [id |-> t.id, attempts |-> t.attempts, tx |-> 0] /\ rpc'[w] = "exec"
      BY <1>0, <2>1, <2>3
    <3>3. t.id \in HeldRows(w)'
      BY <3>2 DEF HeldRows
    <3>4. \A v \in RRuns \ {w} : rpc'[v] = rpc[v] /\ rtodo'[v] = rtodo[v] /\ rcur'[v] = rcur[v]
      BY <1>0, <2>1, <2>3
    <3>5. \A r \in Rows \ blind : row'[r].attempts <= tries[r]
      BY <1>c, <2>2, <3>1
    <3>6. \A r \in Rows :
            /\ row'[r].status = "PROCESSING" => \/ r \in HeldRows(w)'
                                                \/ row[r].status = "PROCESSING" /\ r \notin HeldRows(w)
                                                \/ r \in orphanRows'
            /\ row'[r].status = "SUCCESS" => row[r].status = "SUCCESS" \/ dltTxId'[row'[r].ref] > 0
      BY <2>2, <3>1, <3>3
    <3>7. (rcur'[w].id \notin blind => rcur'[w].attempts <= tries[rcur'[w].id]) /\ rpc'[w] \notin {"settle", "failed", "critical"}
      BY <2>2, <3>2
    <3>8. /\ \A r \in Rows : tries[r] <= tries'[r] /\ (r \notin blind' => row'[r].attempts <= tries'[r])
          /\ \A u \in rtodo'[w] : u.id \notin blind' => u.attempts <= tries'[u.id]
          /\ rcur'[w].id \notin blind' => (rpc'[w] = "exec" => rcur'[w].attempts <= tries'[rcur'[w].id])
          /\ tries' \in [Rows -> Nat] /\ UNCHANGED <<queueVars, orphanEvents>> /\ orphanRows \subseteq orphanRows'
          /\ \A e \in Events : dltTxId'[e] = dltTxId[e]
      BY <1>0, <2>2, <3>5, <3>7 DEF orphans
    <3> QED
      BY <1>0, <3>4, <3>6, <3>7, <3>8, RetryLoss
  <2>4. CASE ~Retryable(t.id)
    <3>1. rpc'[w] \in {"idle", "next"} /\ UNCHANGED <<row, rcur>>
      BY <1>0, <2>1, <2>4 DEF RNext
    <3>2. \A v \in RRuns \ {w} : rpc'[v] = rpc[v] /\ rtodo'[v] = rtodo[v]
      BY <1>0, <2>1, <2>4 DEF RNext
    <3> QED
      BY <1>0, <1>c, <2>2, <3>1, <3>2, RetryLoss DEF orphans
  <2> QED
    BY <2>3, <2>4
<1>3. ASSUME NEW outcome \in ROutcomes, RExec(w, outcome) PROVE LossInv'
  <2>1. /\ rcur[w].id \in Rows /\ tries' = [tries EXCEPT ![rcur[w].id] = @ + 1] /\ rpc[w] = "exec"
        /\ UNCHANGED <<row, dltTxId, rtodo, queueVars, orphans, blind>>
    BY <1>0, <1>3 DEF RExec
  <2>2. tries' \in [Rows -> Nat] /\ \A r \in Rows : tries[r] <= tries'[r]
    BY <1>0, <2>1
  <2>3. tries[rcur[w].id] < tries'[rcur[w].id]
    BY <1>0, <2>1
  <2>4. rcur'[w].id = rcur[w].id /\ rcur'[w].attempts = rcur[w].attempts
    BY <1>0, <1>3 DEF RExec
  <2>5. rpc'[w] \in {"settle", "failed", "critical"}
    BY <1>0, <1>3 DEF RExec, ROutcomes
  <2>6. \A v \in RRuns \ {w} : rpc'[v] = rpc[v] /\ rcur'[v] = rcur[v]
    BY <1>0, <1>3 DEF RExec
  <2>7. HeldRows(w)' = HeldRows(w)
    BY <2>1, <2>4, <2>5 DEF HeldRows
  <2>8. rcur'[w].id \notin blind => rcur'[w].attempts < tries'[rcur'[w].id]
    BY <1>0, <1>c, <2>1, <2>2, <2>3, <2>4
  <2>9. \A r \in Rows \ blind : row'[r].attempts <= tries'[r]
    BY <1>0, <1>c, <2>1, <2>2
  <2>10. \A t \in rtodo'[w] : t.id \notin blind => t.attempts <= tries'[t.id]
    <3> SUFFICES ASSUME NEW t \in rtodo[w], t.id \notin blind PROVE t.attempts <= tries'[t.id]
      BY <2>1
    <3>1. t.attempts \in Nat /\ t.id \in Rows /\ t.attempts <= tries[t.id]
      BY <1>0, <1>c
    <3> QED
      BY <1>0, <2>2, <3>1
  <2> QED
    BY <1>0, <2>1, <2>2, <2>5, <2>6, <2>7, <2>8, <2>9, <2>10, RetryLoss DEF orphans
<1>4. ASSUME rpc[w] = "settle", Settle(w), UNCHANGED <<rtodo, tries, queueVars, orphans>>,
             \A v \in RRuns \ {w} : rpc'[v] = rpc[v] /\ rcur'[v] = rcur[v],
             rpc'[w] \in {"idle", "next"} \/ (rpc'[w] = "failed" /\ rcur'[w].id \in blind')
      PROVE  LossInv'
  <2>1. SetRow(rcur[w].id, "SUCCESS", rcur[w].attempts + 1)
    BY <1>4 DEF Settle
  <2>2. /\ \A r \in Rows \ blind : row'[r].attempts <= tries[r]
        /\ row'[rcur[w].id].status = "SUCCESS" /\ row'[rcur[w].id].ref = row[rcur[w].id].ref
        /\ \A r \in Rows \ {rcur[w].id} : row'[r] = row[r]
    <3>1. rpc[w] \in {"settle", "failed", "critical"} /\ "SUCCESS" \in {"SUCCESS", "DLQ", "FAILED"}
      BY <1>4
    <3> QED
      BY <2>1, <3>1, SettledCount, Zenon
  <2>3. /\ row[rcur[w].id].ref \in Events /\ rcur[w].tx > 0
        /\ dltTxId' = [dltTxId EXCEPT ![row[rcur[w].id].ref] = rcur[w].tx]
    <3>1. row[rcur[w].id].status # "ABSENT" /\ rcur[w].id \in Rows /\ rcur[w].tx \in 1..Len(chain)
      BY <1>4 DEF IInv, RetryInv, RetryRunInv, IsTxOf
    <3>2. row[rcur[w].id].ref \in Events
      BY <3>1 DEF IInv, RowInv
    <3> QED
      BY <1>4, <3>1, <3>2 DEF Settle
  <2>4. dltTxId'[row'[rcur[w].id].ref] > 0 /\ \A e \in Events : dltTxId'[e] = dltTxId[e] \/ Anchored(e)'
    BY <1>0, <2>2, <2>3 DEF Anchored
  <2>5. \A r \in HeldRows(w) : r = rcur[w].id
    BY DEF HeldRows
  <2>6. \A r \in Rows : tries[r] <= tries[r]
    BY <1>0
  <2>9. \A r \in Rows : row'[r].status = "PROCESSING" => row[r].status = "PROCESSING" /\ r \notin HeldRows(w)
    BY <2>2, <2>5
  <2>10. \A r \in Rows : row'[r].status = "SUCCESS" => row[r].status = "SUCCESS" \/ dltTxId'[row'[r].ref] > 0
    BY <2>2, <2>4
  <2>11. \A t \in rtodo'[w] : t.id \notin blind' => t.attempts <= tries'[t.id]
    BY <1>0, <1>c, <1>4
  <2>12. rcur'[w].id \notin blind' => rpc'[w] \notin {"exec", "settle", "failed", "critical"}
    BY <1>4
  <2> QED
    BY <1>0, <1>4, <2>2, <2>4, <2>6, <2>9, <2>10, <2>11, <2>12, RetryLoss DEF orphans
<1>8. CASE RSettle(w)
  <2>1. rpc[w] = "settle" /\ Settle(w) /\ RDone(w)
    BY <1>8 DEF RSettle
  <2>4. UNCHANGED <<rtodo, tries, queueVars, orphans>>
    BY <1>8 DEF RSettle, history
  <2>2. rpc'[w] \in {"idle", "next"}
    BY <1>0, <2>1 DEF RDone
  <2>3. \A v \in RRuns \ {w} : rpc'[v] = rpc[v] /\ rcur'[v] = rcur[v]
    BY <1>0, <2>1 DEF RDone
  <2> QED
    BY <1>4, <2>1, <2>2, <2>3, <2>4
<1>5. CASE RHandleFailure(w)
  <2>1. PICK s \in {"DLQ", "FAILED"} : SetRow(rcur[w].id, s, rcur[w].attempts + 1)
    BY <1>5 DEF RHandleFailure
  <2>2. rpc[w] \in {"failed", "critical"} /\ RDone(w) /\ UNCHANGED <<dltTxId, rtodo, tries, queueVars, orphans, blind>>
    BY <1>5 DEF RHandleFailure, history
  <2>3. /\ \A r \in Rows \ blind : row'[r].attempts <= tries[r]
        /\ row'[rcur[w].id].status = s
        /\ \A r \in Rows \ {rcur[w].id} : row'[r] = row[r]
    <3>1. rpc[w] \in {"settle", "failed", "critical"} /\ s \in {"SUCCESS", "DLQ", "FAILED"}
      BY <2>2
    <3> QED
      BY <2>1, <3>1, SettledCount, Zenon
  <2>4. \A r \in HeldRows(w) : r = rcur[w].id
    BY DEF HeldRows
  <2>5. \A r \in Rows : tries[r] <= tries[r]
    BY <1>0
  <2>6. rpc'[w] \in {"idle", "next"}
    BY <1>0, <2>2 DEF RDone
  <2>7. \A v \in RRuns \ {w} : rpc'[v] = rpc[v] /\ rcur'[v] = rcur[v]
    BY <1>0, <2>2 DEF RDone
  <2>8. \A r \in Rows : /\ row'[r].status = "PROCESSING" => row[r].status = "PROCESSING" /\ r \notin HeldRows(w)
                        /\ row'[r].status = "SUCCESS" => row[r].status = "SUCCESS"
    BY <2>3, <2>4
  <2> QED
    BY <1>0, <1>c, <2>2, <2>3, <2>5, <2>6, <2>7, <2>8, RetryLoss DEF orphans
<1>6. ASSUME NEW took \in BOOLEAN, RSettleFails(w, took) PROVE LossInv'
  <2>1. rpc[w] = "settle" /\ rpc'[w] = "failed" /\ UNCHANGED <<rtodo, rcur, tries, queueVars, orphans>>
    BY <1>0, <1>6 DEF RSettleFails
  <2>2. \A v \in RRuns \ {w} : rpc'[v] = rpc[v]
    BY <1>0, <1>6 DEF RSettleFails
  <2>3. CASE took
    <3>1. Settle(w) /\ rcur'[w].id \in blind'
      BY <1>6, <2>1, <2>3 DEF RSettleFails
    <3> QED
      BY <1>4, <2>1, <2>2, <3>1
  <2>4. CASE ~took
    <3>1. UNCHANGED <<row, dltTxId, blind>>
      BY <1>6, <2>4 DEF RSettleFails
    <3>2. HeldRows(w)' = HeldRows(w) /\ \A r \in Rows : tries[r] <= tries[r]
      BY <1>0, <2>1 DEF HeldRows
    <3> QED
      BY <1>0, <1>c, <2>1, <2>2, <3>1, <3>2, RetryLoss DEF orphans
  <2> QED
    BY <2>3, <2>4
<1>9. ASSUME NEW took \in BOOLEAN, RLockFails(w, took) PROVE LossInv'
  <2>1. PICK t \in rtodo[w] :
          /\ rtodo' = [rtodo EXCEPT ![w] = @ \ {t}]
          /\ row' = row \/ SetRow(t.id, "PROCESSING", row[t.id].attempts)
          /\ rcur' = [rcur EXCEPT ![w] = [id |-> t.id, attempts |-> t.attempts, tx |-> 0]]
          /\ rpc' = [rpc EXCEPT ![w] = "failed"]
          /\ blind' = blind \cup {t.id}
    BY <1>9 DEF RLockFails
  <2>2. /\ UNCHANGED <<dltTxId, tries, queueVars, orphans>> /\ HeldRows(w) = {} /\ t.id \in Rows
        /\ \A r \in Rows : tries[r] <= tries[r]
        /\ \A u \in rtodo'[w] : u.id \notin blind' => u.attempts <= tries[u.id]
    BY <1>0, <1>9, <1>c, <2>1 DEF RLockFails, HeldRows
  <2>3. /\ row'[t.id] = row[t.id] \/ row'[t.id].status = "PROCESSING"
        /\ \A r \in Rows \ {t.id} : row'[r] = row[r]
    BY <1>0, <2>1, <2>2 DEF SetRow
  <2>4. rcur'[w].id = t.id /\ rpc'[w] = "failed" /\ t.id \in blind'
    BY <1>0, <2>1
  <2>5. t.id \in HeldRows(w)'
    BY <2>4 DEF HeldRows
  <2>6. \A v \in RRuns \ {w} : rpc'[v] = rpc[v] /\ rtodo'[v] = rtodo[v] /\ rcur'[v] = rcur[v]
    BY <1>0, <2>1
  <2>7. \A r \in Rows : r \notin blind' => row'[r].attempts <= tries'[r]
    BY <1>c, <2>1, <2>2, <2>3
  <2>8. \A r \in Rows :
          /\ row'[r].status = "PROCESSING" => \/ r \in HeldRows(w)'
                                              \/ row[r].status = "PROCESSING" /\ r \notin HeldRows(w)
                                              \/ r \in orphanRows'
          /\ row'[r].status = "SUCCESS" => row[r].status = "SUCCESS" \/ dltTxId'[row'[r].ref] > 0
    BY <2>2, <2>3, <2>5
  <2> QED
    BY <1>0, <2>2, <2>4, <2>6, <2>7, <2>8, RetryLoss DEF orphans
<1>7. CASE RAbort(w)
  <2>1. /\ rpc'[w] = "idle" /\ rtodo'[w] = {} /\ UNCHANGED <<row, dltTxId, tries, queueVars, orphanEvents, blind>>
        /\ orphanRows' = orphanRows \cup HeldRows(w)
    BY <1>0, <1>7 DEF RAbort
  <2>2. \A v \in RRuns \ {w} : rpc'[v] = rpc[v] /\ rtodo'[v] = rtodo[v] /\ rcur'[v] = rcur[v]
    BY <1>0, <1>7 DEF RAbort
  <2>3. \A r \in Rows : tries[r] <= tries[r]
    BY <1>0
  <2> QED
    BY <1>0, <1>c, <2>1, <2>2, <2>3, RetryLoss
<1> QED
  BY <1>1, <1>2, <1>3, <1>5, <1>6, <1>7, <1>8, <1>9 DEF RStep, RLost

\* Every step preserves it.
LEMMA NextLoss == IInv /\ LossInv /\ [Next]_vars => LossInv'
<1> SUFFICES ASSUME IInv, LossInv, [Next]_vars PROVE LossInv'
  OBVIOUS
<1>1. CASE UNCHANGED vars
  BY <1>1, EventLoss DEF vars
<1>2. ASSUME NEW e \in Events, EventStep(e) PROVE LossInv'
  BY <1>2, EventLoss DEF EventStep, RecordAuthenticatedEvent, RecordUnhashedEvent, SuggestPublicEvent,
                         Commission, Create, ReviewEvent
<1> QED
  BY <1>1, <1>2, QRunLoss, RRunLoss DEF Next, RLost

\* Whatever fails or dies, an event in PROCESSING or RETRY_QUEUED and a row in
\* PROCESSING are the work of a run, a row or a dead run that is known, and what is
\* closed as SUCCESS is anchored.
THEOREM NothingIsLost == Spec => []NothingLost
<1>1. Spec => [](IInv /\ LossInv)
  BY InitIInv, InitLoss, NextIInv, NextLoss, PTL DEF Spec
<1>2. LossInv => NothingLost
  BY DEF LossInv
<1> QED
  BY <1>1, <1>2, PTL

\* A worker that works from an old copy never touches a settled row, and none is
\* given up on before as many tries as it counts, unless a run of that worker lost a
\* database call on the row.
THEOREM OutcomesAreFinal == Spec => OutcomeFinal
<1>1. ASSUME IInv, LossInv, [Next]_vars, NEW r \in Rows \ blind'
      PROVE  /\ row[r].status \in {"SUCCESS", "DLQ"} => row'[r] = row[r]
             /\ row'[r].status = "DLQ" => row'[r].attempts <= tries'[r]
  <2>1. row[r].status \in {"SUCCESS", "DLQ"} => row'[r] = row[r]
    BY <1>1, RowsStay
  <2>2. LossInv'
    BY <1>1, NextLoss
  <2>3. row'[r].attempts <= tries'[r]
    BY <2>2 DEF LossInv, CountInv
  <2> QED
    BY <2>1, <2>3
<1>2. IInv /\ LossInv /\ [Next]_vars =>
        [\A r \in Rows \ blind' :
            /\ row[r].status \in {"SUCCESS", "DLQ"} => row'[r] = row[r]
            /\ row'[r].status = "DLQ" => row'[r].attempts <= tries'[r]]_vars
  BY <1>1
<1>3. Spec => [](IInv /\ LossInv)
  BY InitIInv, InitLoss, NextIInv, NextLoss, PTL DEF Spec
<1> QED
  BY <1>2, <1>3, PTL DEF Spec, OutcomeFinal
-----------------------------------------------------------------------------
(* The pipeline implements the ledger, step by step *)

\* The verdict and the record that the ledger sees.
Verdicts == [e \in Events |-> Verdict(e)]
Recorded == [e \in Events |-> IF Anchored(e) THEN dltTxId[e] ELSE 0]

\* Nothing is posted, decided or recorded at first.
LEMMA LedgerInit == Init => Ledger!Init
BY DEF Init, Ledger!Init, Verdict, Anchored, Null

\* A step that leaves statuses, hashes, ids and the chain alone is a stutter.
LEMMA LedgerStutter ==
  ASSUME UNCHANGED <<chain, Verdicts, Recorded>>
  PROVE  UNCHANGED Ledger!vars
BY DEF Ledger!vars, Verdicts, Recorded

\* A new event is posted as open, approved or void.
LEMMA LedgerPost ==
  ASSUME IInv, NEW e \in Events, NEW s \in {"APPROVED", "PENDING"}, NEW h \in BOOLEAN, Create(e, s, h)
  PROVE  Ledger!Post(e)
<1> USE DEF IInv, TypeOK, Create
<1>1. Verdict(e) = "none"
  BY DEF Verdict
<1>2. PICK v \in {"open", "approved", "void"} : v = Verdict(e)'
  BY DEF Verdict
<1>3. \A f \in Events \ {e} : Verdict(f)' = Verdict(f)
  BY DEF Verdict
<1>4. Verdicts' = [Verdicts EXCEPT ![e] = v]
  BY <1>2, <1>3 DEF Verdicts
<1>5. Recorded' = Recorded
  BY DEF Recorded, Anchored
<1> QED
  BY <1>1, <1>4, <1>5 DEF Ledger!Post, Verdicts, Recorded

\* A verdict decides what was open, and so it stays.
LEMMA LedgerDecide ==
  ASSUME IInv, NEW e \in Events, NEW v \in {"APPROVED", "REJECTED"}, ReviewEvent(e, v)
  PROVE  Ledger!Decide(e)
<1> USE DEF IInv, TypeOK, ReviewEvent
<1>1. Verdict(e) = "open"
  BY DEF Verdict
<1>2. PICK x \in {"approved", "rejected"} : x = Verdict(e)'
  BY DEF Verdict
<1>3. \A f \in Events \ {e} : Verdict(f)' = Verdict(f)
  BY DEF Verdict
<1>4. Verdicts' = [Verdicts EXCEPT ![e] = x]
  BY <1>2, <1>3 DEF Verdicts
<1>5. Recorded' = Recorded
  BY DEF Recorded, Anchored
<1> QED
  BY <1>1, <1>4, <1>5 DEF Ledger!Decide, Verdicts, Recorded

\* A call to the chain leaves a transaction of an approved event, or nothing.
LEMMA LedgerAnchor ==
  ASSUME NEW e \in Events, Approved(e), NEW outcome, ChainCall(e, outcome),
         UNCHANGED <<status, hashed, dltTxId>>
  PROVE  Ledger!Anchor(e) \/ UNCHANGED Ledger!vars
<1>1. Verdicts' = Verdicts /\ Recorded' = Recorded
  BY DEF Verdicts, Verdict, Recorded, Anchored
<1>2. Verdict(e) = "approved"
  BY DEF Verdict, Approved
<1>3. CASE chain' = chain
  BY <1>1, <1>3, LedgerStutter
<1>4. CASE chain' = Append(chain, e)
  BY <1>1, <1>2, <1>4 DEF Ledger!Anchor, Verdicts, Recorded
<1> QED
  BY <1>3, <1>4 DEF ChainCall

\* The id that is recorded is that of a transaction of the event.
LEMMA LedgerRecord ==
  ASSUME IInv, NEW e \in Events, NEW t, IsTxOf(t, e), dltTxId' = [dltTxId EXCEPT ![e] = t],
         UNCHANGED <<status, hashed, chain>>
  PROVE  Ledger!Record(e)
<1>1. Verdicts' = Verdicts
  BY DEF Verdicts, Verdict
<1>2. t \in DOMAIN chain /\ chain[t] = e /\ t > 0
  BY DEF IsTxOf, IInv, TypeOK
<1>3. Recorded' = [Recorded EXCEPT ![e] = t]
  BY <1>2 DEF Recorded, Anchored, IInv, TypeOK
<1> QED
  BY <1>1, <1>2, <1>3 DEF Ledger!Record, Verdicts, Recorded

\* Markers do not show in the record.
LEMMA LedgerMarks ==
  ASSUME IInv, dltTxId' \in [Events -> Unanchored \cup Nat],
         \A e \in Events : dltTxId'[e] = dltTxId[e] \/ (dltTxId[e] \in Unanchored /\ dltTxId'[e] \in Unanchored),
         \A e \in Events : Verdict(e)' = Verdict(e), UNCHANGED chain
  PROVE  UNCHANGED Ledger!vars
<1>1. Verdicts' = Verdicts
  BY DEF Verdicts
<1>2. \A e \in Events : (IF Anchored(e) THEN dltTxId[e] ELSE 0)' = IF Anchored(e) THEN dltTxId[e] ELSE 0
  BY DEF Anchored, Unanchored, Null, Processing, RetryQueued
<1>3. Recorded' = Recorded
  BY <1>2 DEF Recorded
<1> QED
  BY <1>1, <1>3, LedgerStutter

\* Steps of processQueue.
LEMMA LedgerQueue ==
  ASSUME IInv, IInv', NEW w \in QRuns, QStep(w) \/ QRecordFails(w) \/ QAbort(w)
  PROVE  [Ledger!Next]_Ledger!vars
<1>0. /\ qpc[w] \in Midway => qcur[w].event \in Events /\ Approved(qcur[w].event)
      /\ \A e \in qbatch[w] : e \in Events /\ Approved(e)
      /\ qpc[w] = "record" => IsTxOf(qcur[w].tx, qcur[w].event)
      /\ dltTxId \in [Events -> Unanchored \cup Nat] /\ dltTxId' \in [Events -> Unanchored \cup Nat]
      /\ status \in [Events -> {"ABSENT", "PENDING", "APPROVED", "REJECTED", "PENDING_FUNDS"}]
  BY DEF IInv, TypeOK, QueueInv
<1>1. CASE UNCHANGED <<status, hashed, dltTxId, chain>>
  BY <1>0, <1>1, LedgerMarks DEF Verdict
<1>2. CASE QClaim(w) \/ QMark(w)
  <2>1. \A e \in Events : dltTxId'[e] = dltTxId[e] \/ (dltTxId[e] \in Unanchored /\ dltTxId'[e] \in Unanchored)
    BY <1>0, <1>2 DEF QClaim, QMark, Unanchored, Midway
  <2>2. UNCHANGED <<status, hashed, chain>>
    BY <1>2 DEF QClaim, QMark, eventVars
  <2> QED
    BY <1>0, <2>1, <2>2, LedgerMarks DEF Verdict
<1>3. CASE QReturn(w)
  <2>1. \A e \in Events : dltTxId'[e] = dltTxId[e] \/ (dltTxId[e] \in Unanchored /\ dltTxId'[e] \in Unanchored)
    BY <1>0, <1>3 DEF QReturn, Unanchored, Midway
  <2>2. UNCHANGED <<hashed, chain>> /\ Approved(qcur[w].event)
    BY <1>0, <1>3 DEF QReturn, Midway
  <2>3. \A e \in Events : status'[e] = status[e] \/ (status[e] \in {"APPROVED", "PENDING_FUNDS"} /\ status'[e] = "PENDING_FUNDS")
    BY <1>0, <1>3, <2>2 DEF QReturn, Approved
  <2>4. \A e \in Events : Verdict(e)' = Verdict(e)
    BY <2>2, <2>3 DEF Verdict
  <2> QED
    BY <1>0, <2>1, <2>2, <2>4, LedgerMarks
<1>4. ASSUME NEW e \in Events, NEW outcome \in QOutcomes, QAnchor(w, e, outcome)
      PROVE  [Ledger!Next]_Ledger!vars
  BY <1>0, <1>4, LedgerAnchor DEF QAnchor, eventVars, Ledger!Next
<1>5. CASE QRecord(w)
  <2>1. PICK e \in Events : e = qcur[w].event
    BY <1>0, <1>5 DEF QRecord, Midway
  <2>2. Ledger!Record(e)
    BY <1>0, <1>5, <2>1, LedgerRecord DEF QRecord, eventVars
  <2> QED
    BY <2>1, <2>2 DEF Ledger!Next
<1> QED
  BY <1>1, <1>2, <1>3, <1>4, <1>5 DEF QStep, QSelect, QEnqueue, QRecordFails, QAbort, eventVars

\* Steps of processRetries.
LEMMA LedgerRetry ==
  ASSUME IInv, IInv', NEW w \in RRuns, RStep(w) \/ RLost(w) \/ RAbort(w)
  PROVE  [Ledger!Next]_Ledger!vars
<1>0. /\ rpc[w] \notin {"idle", "next"} => /\ row[rcur[w].id].ref \in Events
                                           /\ Approved(row[rcur[w].id].ref)
      /\ rpc[w] = "settle" => IsTxOf(rcur[w].tx, row[rcur[w].id].ref)
      /\ dltTxId' \in [Events -> Unanchored \cup Nat]
  BY DEF IInv, TypeOK, RetryInv, RetryRunInv, RowInv
<1>1. CASE UNCHANGED <<status, hashed, dltTxId, chain>>
  BY <1>0, <1>1, LedgerMarks DEF Verdict
<1>2. ASSUME NEW outcome \in ROutcomes, RExec(w, outcome) PROVE [Ledger!Next]_Ledger!vars
  <2>1. UNCHANGED <<status, hashed, dltTxId>> /\ rpc[w] = "exec"
    BY <1>2 DEF RExec, eventVars
  <2>2. UNCHANGED chain \/ ChainCall(row[rcur[w].id].ref, outcome)
    BY <1>2 DEF RExec
  <2>3. CASE UNCHANGED chain
    BY <1>1, <2>1, <2>3
  <2>4. CASE ChainCall(row[rcur[w].id].ref, outcome)
    <3>1. PICK e \in Events : e = row[rcur[w].id].ref
      BY <1>0, <2>1
    <3>2. Ledger!Anchor(e) \/ UNCHANGED Ledger!vars
      BY <1>0, <2>1, <2>4, <3>1, LedgerAnchor
    <3> QED
      BY <3>2 DEF Ledger!Next
  <2> QED
    BY <2>2, <2>3, <2>4
<1>3. CASE rpc[w] = "settle" /\ Settle(w) /\ UNCHANGED <<eventVars, chain>>
  <2>1. PICK e \in Events : e = row[rcur[w].id].ref
    BY <1>0, <1>3
  <2>2. Ledger!Record(e)
    BY <1>0, <1>3, <2>1, LedgerRecord DEF Settle, eventVars
  <2> QED
    BY <2>1, <2>2 DEF Ledger!Next
<1> QED
  BY <1>1, <1>2, <1>3 DEF RStep, RFetch, RLock, RSettle, RHandleFailure, RLost, RLockFails, RSettleFails, RAbort, eventVars

\* Markers, batches, retries and dead runs are invisible to the ledger: every step
\* of the pipeline is a step of the ledger or changes nothing of it.
LEMMA LedgerStep == IInv /\ IInv' /\ [Next]_vars => [Ledger!Next]_Ledger!vars
<1> SUFFICES ASSUME IInv, IInv', [Next]_vars PROVE [Ledger!Next]_Ledger!vars
  OBVIOUS
<1>1. CASE UNCHANGED vars
  BY <1>1 DEF vars, eventVars, Ledger!vars, Verdict, Anchored
<1>2. ASSUME NEW e \in Events, EventStep(e) PROVE [Ledger!Next]_Ledger!vars
  <2>1. Ledger!Post(e) \/ Ledger!Decide(e)
    BY <1>2, LedgerPost, LedgerDecide
       DEF EventStep, RecordAuthenticatedEvent, RecordUnhashedEvent, SuggestPublicEvent, Commission
  <2> QED
    BY <2>1 DEF Ledger!Next
<1> QED
  BY <1>1, <1>2, LedgerQueue, LedgerRetry DEF Next, RLost

\* The pipeline implements the ledger: what is undecided, rejected or unhashed is
\* never anchored, and a record is never taken back.
THEOREM ImplementsLedger == Spec => LedgerSpec
BY InitIInv, NextIInv, LedgerInit, LedgerStep, PTL DEF Spec, LedgerSpec, Ledger!Spec
=============================================================================
