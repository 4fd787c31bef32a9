------------------------- MODULE EscrowCustodyProofs -------------------------
(***************************************************************************)
(* Safety of EscrowCustody for every number of assets, escrows, calls,     *)
(* runs of the worker and failures.                                        *)
(*                                                                         *)
(* No handler locks anything, so nothing a handler has read need still be  *)
(* true when it writes.  What it may rely on is what never changes back:   *)
(* an escrow put on the chain stays there, one closed on the chain stays   *)
(* closed the way it was, and a row keeps its asset.  IInv says what each  *)
(* handler knows at each point in these terms.                             *)
(***************************************************************************)
EXTENDS EscrowCustody, FiniteSetTheorems, TLAPS

EscrowOps == {"lock", "release", "cancel"}

\* What handler c knows of its escrow.
JobFacts(c) ==
  /\ job[c].op \in EscrowOps => job[c].id \in Escrows
  /\ pc[c] \in {"chain", "record", "event", "read", "revert"} => job[c].op \in EscrowOps
  /\ c \in Workers => job[c].op # "lock" /\ (pc[c] = "asset" => job[c].op \in EscrowOps)
  /\ job[c].to = "LOCKED_IN_ESCROW" => job[c].op = "lock"
  /\ pc[c] = "record" /\ job[c].id \notin unseen =>
       CASE job[c].op = "lock"    -> chain[job[c].id] # "none"
         [] job[c].op = "release" -> chain[job[c].id] = "released"
         [] OTHER                 -> chain[job[c].id] = "cancelled"
  /\ pc[c] = "asset" /\ job[c].op = "lock" =>
       /\ rec[job[c].id].status # "ABSENT" /\ rec[job[c].id].asset = job[c].asset
       /\ chain[job[c].id] # "none" \/ job[c].id \in unseen

JobInv == \A c \in Agents : JobFacts(c)

\* An id that ALGORAND would accept again was never closed.
ChainInv == \A e \in Escrows : chain[e] \in {"released", "cancelled"} => e \notin Algorand

\* Who is going to settle a row in PROCESSING, or to write a missing row.
HeldInv ==
  \A e \in Escrows :
    /\ rec[e].status = "PROCESSING" =>
         e \in broken \/ \E w \in Workers : pc[w] \in {"read", "chain", "record", "revert"} /\ job[w].id = e
    /\ chain[e] # "none" /\ rec[e].status = "ABSENT" =>
         e \in broken \/ \E c \in Agents : pc[c] = "record" /\ job[c].op = "lock" /\ job[c].id = e

IInv == TypeOK /\ JobInv /\ ChainInv /\ ClosedRowIsTrue /\ CustodyIsBacked /\ HeldInv
-----------------------------------------------------------------------------
(* What never changes back *)

\* A step keeps what handlers rely on.
Mono ==
  \A e \in Escrows :
    /\ chain[e] # "none" => chain'[e] # "none"
    /\ chain[e] \in {"released", "cancelled"} => chain'[e] = chain[e]
    /\ rec[e].status # "ABSENT" => rec'[e].status # "ABSENT" /\ rec'[e].asset = rec[e].asset
    /\ e \in unseen => e \in unseen'

\* Handler c takes a step, the others stand still.
StepOf(c) == \A d \in Agents \ {c} : pc'[d] = pc[d] /\ job'[d] = job[d]

\* What the others know stays true.
LEMMA OthersKnow ==
  ASSUME IInv, Mono, NEW c \in Agents, StepOf(c), JobFacts(c)'
  PROVE  JobInv'
<1> SUFFICES ASSUME NEW d \in Agents PROVE JobFacts(d)'
  BY DEF JobInv
<1>1. CASE d = c
  BY <1>1
<1>2. CASE d # c
  <2>1. JobFacts(d) /\ pc'[d] = pc[d] /\ job'[d] = job[d]
    BY <1>2 DEF IInv, JobInv, StepOf
  <2>2. CASE job[d].op \in EscrowOps
    <3>1. job[d].id \in Escrows
      BY <2>1, <2>2 DEF JobFacts
    <3> QED
      BY <2>1, <2>2, <3>1 DEF JobFacts, Mono, EscrowOps
  <2>3. CASE job[d].op \notin EscrowOps
    BY <2>1, <2>3 DEF JobFacts, EscrowOps
  <2> QED
    BY <2>2, <2>3
<1> QED
  BY <1>1, <1>2

\* An asset stays backed as long as nothing new is locked.
LEMMA BackedStays ==
  ASSUME IInv, Mono,
         \A a \in Assets \ byHand' :
           asset'[a] = "LOCKED_IN_ESCROW" => a \notin byHand /\ asset[a] = "LOCKED_IN_ESCROW"
  PROVE  CustodyIsBacked'
BY DEF IInv, CustodyIsBacked, Mono

\* LIMIT returns some of the rows it is given.
LEMMA LowestSubset ==
  ASSUME NEW S, NEW n
  PROVE  Lowest(S, n) \subseteq S
BY DEF Lowest

Settling == {"read", "chain", "record", "revert"}

\* Somebody still answers for every unfinished escrow, if handler c, in taking its
\* step, drops none: it goes on, or what it had is settled or broken.
LEMMA HeldStays ==
  ASSUME IInv, NEW c \in Agents, StepOf(c), broken \subseteq broken',
         \A e \in Escrows : rec'[e].status = "PROCESSING" =>
           /\ rec[e].status = "PROCESSING"
           /\ c \in Workers /\ pc[c] \in Settling /\ job[c].id = e =>
                e \in broken' \/ (pc'[c] \in Settling /\ job'[c].id = e),
         \A e \in Escrows : chain'[e] # "none" /\ rec'[e].status = "ABSENT" =>
           \/ e \in broken'
           \/ /\ chain[e] # "none" /\ rec[e].status = "ABSENT"
              /\ ~(pc[c] = "record" /\ job[c].op = "lock" /\ job[c].id = e)
  PROVE  HeldInv'
<1> SUFFICES ASSUME NEW e \in Escrows
             PROVE  /\ rec'[e].status = "PROCESSING" =>
                         e \in broken' \/ \E w \in Workers : pc'[w] \in Settling /\ job'[w].id = e
                    /\ chain'[e] # "none" /\ rec'[e].status = "ABSENT" =>
                         e \in broken' \/ \E d \in Agents : pc'[d] = "record" /\ job'[d].op = "lock" /\ job'[d].id = e
  BY DEF HeldInv, Settling
<1>1. CASE rec'[e].status = "PROCESSING" /\ e \notin broken
  <2>1. PICK w \in Workers : pc[w] \in Settling /\ job[w].id = e
    BY <1>1 DEF IInv, HeldInv, Settling
  <2>2. w = c \/ (pc'[w] = pc[w] /\ job'[w] = job[w])
    BY DEF StepOf, Agents
  <2> QED
    BY <1>1, <2>1, <2>2
<1>2. CASE chain'[e] # "none" /\ rec'[e].status = "ABSENT" /\ e \notin broken'
  <2>1. PICK d \in Agents : pc[d] = "record" /\ job[d].op = "lock" /\ job[d].id = e
    BY <1>2 DEF IInv, HeldInv
  <2>2. d # c
    BY <1>2, <2>1
  <2> QED
    BY <1>2, <2>1, <2>2 DEF StepOf
<1> QED
  BY <1>1, <1>2

\* The initial state satisfies the inductive invariant.
LEMMA InitIInv == Init => IInv
<1> SUFFICES ASSUME Init PROVE IInv
  OBVIOUS
<1> USE DEF Init, NoRec, NoJob, NoId, Closed
<1>1. TypeOK
  <2>1. asset \in [Assets -> Statuses]
    BY EditsAssumption
  <2>2. job \in [Agents -> [op : {"none", "lock", "release", "cancel", "transition", "transfer", "pay"},
                            id : Escrows \cup {NoId}, asset : Assets \cup {NoId}, to : Statuses]]
    BY DEF Statuses
  <2> QED
    BY <2>1, <2>2 DEF TypeOK
<1>2. JobInv
  BY DEF JobInv, JobFacts, EscrowOps
<1>3. ChainInv /\ ClosedRowIsTrue /\ CustodyIsBacked /\ HeldInv
  BY DEF ChainInv, ClosedRowIsTrue, CustodyIsBacked, HeldInv
<1> QED
  BY <1>1, <1>2, <1>3 DEF IInv

\* Steps that change none of the tables, the handlers and the broken escrows.
LEMMA QuietIInv ==
  ASSUME IInv, UNCHANGED <<tables, pc, job, broken, history>>, now' \in Nat, faults' \in Nat,
         todo' \in [Workers -> SUBSET Escrows]
  PROVE  IInv'
BY DEF IInv, TypeOK, JobInv, JobFacts, ChainInv, ClosedRowIsTrue, CustodyIsBacked, HeldInv, tables, history
-----------------------------------------------------------------------------
(* Beginnings *)

\* A client's call begins: only its own handler moves.
LEMMA BeginIInv ==
  ASSUME IInv, NEW c \in Clients, NEW op \in ClientOps,
         NEW e \in Escrows \cup {NoId}, NEW a \in Assets, NEW s \in Statuses,
         op \in EscrowOps <=> e \in Escrows, s = "LOCKED_IN_ESCROW" => op = "lock",
         NEW l \in {"chain", "asset"}, l = "chain" <=> op \in EscrowOps,
         Begin(c, op, e, a, s, l)
  PROVE  IInv'
<1> USE DEF IInv, TypeOK, Begin, tables, history, Agents
<1>1. TypeOK'
  BY OpsAssumption
<1>2. Mono
  BY DEF Mono
<1>3. JobInv'
  <2>1. StepOf(c)
    BY DEF StepOf
  <2>2. JobFacts(c)'
    BY AgentsAssumption DEF JobInv, JobFacts, EscrowOps
  <2> QED
    BY <1>2, <2>1, <2>2, OthersKnow
<1>4. ChainInv'
  BY DEF ChainInv
<1>5. ClosedRowIsTrue'
  BY DEF ClosedRowIsTrue
<1>6. CustodyIsBacked'
  BY <1>2, BackedStays
<1>7. HeldInv'
  BY DEF HeldInv
<1> QED
  BY <1>1, <1>3, <1>4, <1>5, <1>6, <1>7 DEF IInv

\* What administrators put in custody is theirs to answer for.
LEMMA UpdateAssetIInv ==
  ASSUME IInv, NEW a \in Assets, NEW s \in Edits, UpdateAsset(a, s)
  PROVE  IInv'
<1> USE DEF IInv, TypeOK, UpdateAsset
<1>1. TypeOK'
  BY EditsAssumption DEF Statuses
<1>2. Mono
  BY DEF Mono
<1>3. JobInv'
  BY DEF JobInv, JobFacts
<1>4. ChainInv'
  BY DEF ChainInv
<1>5. ClosedRowIsTrue'
  BY DEF ClosedRowIsTrue
<1>6. CustodyIsBacked'
  BY <1>2, BackedStays
<1>7. HeldInv'
  BY DEF HeldInv
<1> QED
  BY <1>1, <1>3, <1>4, <1>5, <1>6, <1>7 DEF IInv
-----------------------------------------------------------------------------
(* Steps *)

Jobs == [op : {"none", "lock", "release", "cancel", "transition", "transfer", "pay"},
         id : Escrows \cup {NoId}, asset : Assets \cup {NoId}, to : Statuses]

\* The handler is through.
LEMMA DoneMoves ==
  ASSUME IInv, NEW c \in Agents, Done(c)
  PROVE  /\ StepOf(c) /\ pc'[c] \in {"idle", "next"} /\ job' = [job EXCEPT ![c] = NoJob]
         /\ job' \in [Agents -> Jobs]
         /\ pc' \in [Agents -> {"idle", "chain", "record", "asset", "event", "next", "read", "revert"}]
BY DEF IInv, TypeOK, Done, StepOf, Jobs, NoJob, Statuses

\* An exception takes a worker to revert, and ends a call.
LEMMA ThrownMoves ==
  ASSUME IInv, NEW c \in Agents, Thrown(c)
  PROVE  /\ StepOf(c) /\ job' \in [Agents -> Jobs]
         /\ pc' \in [Agents -> {"idle", "chain", "record", "asset", "event", "next", "read", "revert"}]
         /\ c \in Workers => pc'[c] = "revert" /\ job' = job
         /\ c \notin Workers => pc'[c] = "idle" /\ job' = [job EXCEPT ![c] = NoJob]
<1>1. CASE c \in Workers
  BY <1>1 DEF IInv, TypeOK, Thrown, Goto, StepOf, Jobs
<1>2. CASE c \notin Workers
  <2>1. Done(c)
    BY <1>2 DEF Thrown
  <2>2. pc'[c] = "idle"
    BY <1>2, <2>1 DEF Done, IInv, TypeOK
  <2> QED
    BY <1>2, <2>1, <2>2, DoneMoves
<1> QED
  BY <1>1, <1>2

\* The chain accepts what leaves closed escrows closed.
LEMMA ChainIInv ==
  ASSUME IInv, NEW c \in Agents, NEW outcome \in Outcomes, Chain(c, outcome)
  PROVE  IInv'
<1> DEFINE e  == job[c].id
           op == job[c].op
<1>a. pc[c] = "chain" /\ op \in EscrowOps /\ e \in Escrows /\ (c \in Workers => op # "lock")
  BY DEF Chain, IInv, JobInv, JobFacts
<1>b. TypeOK /\ UNCHANGED <<asset, rec, now, todo, byHand>>
  BY DEF IInv, Chain
<1>c. CASE outcome \in {"ok", "lost"}
  <2>1. Accepts(op, e) /\ chain' = [chain EXCEPT ![e] = Becomes(op)] /\ unseen' = unseen
    BY <1>c DEF Chain
  <2>2. /\ chain[e] = "none" \/ op # "lock" \/ e \in Algorand
        /\ op # "lock" => chain[e] = "locked" /\ e \notin Algorand
        /\ chain'[e] = Becomes(op) /\ chain'[e] # "none"
        /\ op = "lock" => chain'[e] = "locked"
        /\ op = "release" => chain'[e] = "released"
        /\ op = "cancel" => chain'[e] = "cancelled"
        /\ chain'[e] \in {"locked", "released", "cancelled"}
    BY <1>a, <1>b, <2>1 DEF Accepts, Becomes, EscrowOps, TypeOK
  <2>3. Mono
    BY <1>a, <1>b, <2>1, <2>2 DEF Mono, IInv, ChainInv, TypeOK
  <2>4. ChainInv' /\ ClosedRowIsTrue' /\ CustodyIsBacked'
    <3>1. ChainInv'
      BY <1>a, <1>b, <2>1, <2>2 DEF IInv, ChainInv, TypeOK
    <3>2. ClosedRowIsTrue'
      BY <1>b, <2>3 DEF IInv, ClosedRowIsTrue, Mono
    <3> QED
      BY <1>b, <2>3, <3>1, <3>2, BackedStays
  <2>5. CASE outcome = "ok"
    <3>1. pc' = [pc EXCEPT ![c] = "record"] /\ job' = job /\ broken' = broken /\ faults' = faults
      BY <2>5 DEF Chain, Goto
    <3>2. TypeOK'
      BY <1>a, <1>b, <2>1, <2>2, <3>1 DEF TypeOK
    <3>3. JobFacts(c)'
      BY <1>a, <1>b, <2>2, <3>1 DEF IInv, TypeOK, JobInv, JobFacts, EscrowOps
    <3>4. JobInv'
      BY <2>3, <3>1, <3>3, OthersKnow DEF StepOf, IInv, TypeOK
    <3>5. HeldInv'
      BY <1>a, <1>b, <2>1, <2>2, <3>1 DEF IInv, TypeOK, HeldInv, Agents, EscrowOps
    <3> QED
      BY <2>4, <3>2, <3>4, <3>5 DEF IInv
  <2>6. CASE outcome = "lost"
    <3>1. Thrown(c) /\ broken' = broken \cup {e} /\ faults' = faults + 1
      BY <2>6 DEF Chain, Fault
    <3>6. /\ job' \in [Agents -> Jobs]
          /\ pc' \in [Agents -> {"idle", "chain", "record", "asset", "event", "next", "read", "revert"}]
      BY <3>1, ThrownMoves
    <3>2. TypeOK'
      BY <1>a, <1>b, <2>1, <2>2, <3>1, <3>6 DEF TypeOK, Jobs
    <3>3. JobFacts(c)'
      BY <1>a, <3>1, ThrownMoves DEF IInv, TypeOK, JobInv, JobFacts, EscrowOps, NoJob
    <3>4. JobInv'
      BY <2>3, <3>1, <3>3, ThrownMoves, OthersKnow
    <3>5. HeldInv'
      BY <1>a, <1>b, <2>1, <3>1, ThrownMoves, HeldStays DEF IInv, TypeOK, Settling
    <3> QED
      BY <2>4, <3>2, <3>4, <3>5 DEF IInv
  <2> QED
    BY <1>c, <2>5, <2>6
<1>d. CASE outcome \in {"error", "refused"}
  <2>1. chain' = chain /\ broken' = broken /\ unseen' = unseen /\ Thrown(c) /\ faults' \in Nat
    BY <1>b, <1>d DEF Chain, Fault, TypeOK
  <2>2. TypeOK'
    BY <1>b, <2>1, ThrownMoves DEF TypeOK, Jobs
  <2>3. Mono /\ ChainInv' /\ ClosedRowIsTrue' /\ CustodyIsBacked'
    BY <1>b, <2>1 DEF Mono, IInv, ChainInv, ClosedRowIsTrue, CustodyIsBacked
  <2>4. JobFacts(c)'
    BY <1>a, <2>1, ThrownMoves DEF IInv, TypeOK, JobInv, JobFacts, EscrowOps, NoJob
  <2>5. JobInv'
    BY <2>1, <2>3, <2>4, ThrownMoves, OthersKnow
  <2>6. HeldInv'
    BY <1>a, <1>b, <2>1, ThrownMoves, HeldStays DEF IInv, TypeOK, Settling
  <2> QED
    BY <2>2, <2>3, <2>5, <2>6 DEF IInv
<1>e. CASE outcome = "unseen"
  <2>1. /\ pc' = [pc EXCEPT ![c] = "record"] /\ UNCHANGED <<chain, job, broken>>
        /\ faults' \in Nat /\ unseen' = unseen \cup {e}
    BY <1>b, <1>e DEF Chain, Goto, Fault, TypeOK
  <2>2. TypeOK'
    BY <1>a, <1>b, <2>1 DEF TypeOK
  <2>3. Mono /\ ChainInv' /\ ClosedRowIsTrue' /\ CustodyIsBacked'
    BY <1>b, <2>1 DEF Mono, IInv, ChainInv, ClosedRowIsTrue, CustodyIsBacked
  <2>4. JobFacts(c)'
    BY <1>a, <1>b, <2>1 DEF IInv, TypeOK, JobInv, JobFacts, EscrowOps
  <2>5. JobInv'
    BY <2>1, <2>3, <2>4, OthersKnow DEF StepOf, IInv, TypeOK
  <2>6. HeldInv'
    BY <1>a, <1>b, <2>1 DEF IInv, TypeOK, HeldInv, Agents, EscrowOps
  <2> QED
    BY <2>2, <2>3, <2>5, <2>6 DEF IInv
<1> QED
  BY <1>c, <1>d, <1>e DEF Outcomes

\* The row is new, and its escrow is on the chain.
LEMMA CreateRowIInv ==
  ASSUME IInv, NEW c \in Agents, NEW mode \in {"AUTO", "MANUAL"}, CreateRow(c, mode)
  PROVE  IInv'
<1> DEFINE e == job[c].id
<1>a. /\ pc[c] = "record" /\ job[c].op = "lock" /\ e \in Escrows /\ c \notin Workers
      /\ chain[e] # "none" \/ e \in unseen
  BY DEF CreateRow, IInv, JobInv, JobFacts, EscrowOps
<1>b. TypeOK /\ UNCHANGED <<asset, chain, now, todo, faults, broken, unseen, byHand>>
  BY DEF IInv, CreateRow, history
<1>c. CASE rec[e].status = "ABSENT"
  <2>1. /\ rec' = [rec EXCEPT ![e] = [status |-> "ACTIVE", asset |-> job[c].asset, mode |-> mode]]
        /\ pc' = [pc EXCEPT ![c] = "asset"] /\ job' = job
    BY <1>c DEF CreateRow, Goto
  <2>2. TypeOK'
    BY <1>a, <1>b, <2>1 DEF TypeOK
  <2>3. Mono
    BY <1>a, <1>b, <1>c, <2>1 DEF Mono, TypeOK
  <2>4. JobFacts(c)'
    BY <1>a, <1>b, <2>1 DEF IInv, TypeOK, JobInv, JobFacts, EscrowOps
  <2>5. JobInv'
    BY <2>1, <2>3, <2>4, OthersKnow DEF StepOf, IInv, TypeOK
  <2>6. ChainInv' /\ ClosedRowIsTrue'
    BY <1>a, <1>b, <2>1 DEF IInv, TypeOK, ChainInv, ClosedRowIsTrue
  <2>7. CustodyIsBacked'
    BY <1>b, <2>3, BackedStays
  <2>8. HeldInv'
    BY <1>a, <1>b, <2>1 DEF IInv, TypeOK, HeldInv, Agents
  <2> QED
    BY <2>2, <2>5, <2>6, <2>7, <2>8 DEF IInv
<1>d. CASE rec[e].status # "ABSENT"
  <2>1. rec' = rec /\ Thrown(c)
    BY <1>d DEF CreateRow
  <2>2. TypeOK'
    BY <1>b, <2>1, ThrownMoves DEF TypeOK, Jobs
  <2>3. Mono /\ ChainInv' /\ ClosedRowIsTrue' /\ CustodyIsBacked'
    BY <1>b, <2>1 DEF Mono, IInv, ChainInv, ClosedRowIsTrue, CustodyIsBacked
  <2>4. JobFacts(c)'
    BY <1>a, <2>1, ThrownMoves DEF IInv, TypeOK, JobInv, JobFacts, EscrowOps, NoJob
  <2>5. JobInv'
    BY <2>1, <2>3, <2>4, ThrownMoves, OthersKnow
  <2>6. HeldInv'
    BY <1>a, <1>b, <1>d, <2>1, ThrownMoves, HeldStays DEF Settling
  <2> QED
    BY <2>2, <2>3, <2>5, <2>6 DEF IInv
<1> QED
  BY <1>c, <1>d

\* The handler knows how the chain closed the escrow.
LEMMA CloseRowIInv ==
  ASSUME IInv, NEW c \in Agents, CloseRow(c)
  PROVE  IInv'
<1> USE DEF IInv, TypeOK, CloseRow, history, SetStatus, Goto, Closed, Agents
<1>1. TypeOK'
  OBVIOUS
<1>2. Mono
  BY DEF Mono, JobInv, JobFacts, EscrowOps
<1>3. JobInv'
  <2>1. StepOf(c)
    BY DEF StepOf
  <2>2. JobFacts(c)'
    BY DEF JobInv, JobFacts, EscrowOps
  <2> QED
    BY <1>2, <2>1, <2>2, OthersKnow
<1>4. ChainInv'
  BY DEF ChainInv
<1>5. ClosedRowIsTrue'
  BY DEF ClosedRowIsTrue, JobInv, JobFacts, EscrowOps
<1>6. CustodyIsBacked'
  BY <1>2, BackedStays
<1>7. HeldInv'
  BY DEF HeldInv
<1> QED
  BY <1>1, <1>3, <1>4, <1>5, <1>6, <1>7 DEF IInv

\* Only a lock locks an asset, after its row was written.
LEMMA WriteAssetIInv ==
  ASSUME IInv, NEW c \in Agents, WriteAsset(c)
  PROVE  IInv'
<1>a. TypeOK /\ pc[c] = "asset" /\ UNCHANGED <<rec, chain, now, todo, faults, broken, unseen>>
  BY DEF IInv, WriteAsset
<1>b. /\ asset' = [asset EXCEPT ![job[c].asset] = job[c].to]
      /\ byHand' = byHand \ {job[c].asset}
  BY DEF WriteAsset
<1>c. \/ pc' = [pc EXCEPT ![c] = "event"] /\ job' = job /\ job[c].op \in EscrowOps
      \/ Done(c)
  BY DEF WriteAsset, Goto, EscrowOps
<1>1. TypeOK'
  <2>1. /\ job' \in [Agents -> Jobs]
        /\ pc' \in [Agents -> {"idle", "chain", "record", "asset", "event", "next", "read", "revert"}]
    BY <1>a, <1>c, DoneMoves DEF TypeOK, Jobs
  <2>2. asset' \in [Assets -> Statuses]
    BY <1>a, <1>b DEF TypeOK
  <2> QED
    BY <1>a, <1>b, <2>1, <2>2 DEF TypeOK, Jobs
<1>2. Mono /\ ChainInv' /\ ClosedRowIsTrue'
  BY <1>a DEF Mono, IInv, ChainInv, ClosedRowIsTrue
<1>3. JobFacts(c)'
  BY <1>a, <1>c, DoneMoves DEF IInv, TypeOK, JobInv, JobFacts, EscrowOps, NoJob
<1>4. JobInv'
  BY <1>a, <1>2, <1>3, <1>c, DoneMoves, OthersKnow DEF StepOf, TypeOK
<1>5. CustodyIsBacked'
  <2> SUFFICES ASSUME NEW a \in Assets \ byHand', asset'[a] = "LOCKED_IN_ESCROW"
               PROVE  \E e \in Escrows : /\ rec[e].status # "ABSENT" /\ rec[e].asset = a
                                         /\ chain[e] # "none" \/ e \in unseen
    BY <1>a DEF CustodyIsBacked
  <2>1. CASE a = job[c].asset
    <3>1. job[c].to = "LOCKED_IN_ESCROW"
      BY <1>a, <1>b, <2>1 DEF TypeOK
    <3> QED
      BY <1>a, <2>1, <3>1 DEF IInv, JobInv, JobFacts, EscrowOps
  <2>2. CASE a # job[c].asset
    BY <1>a, <1>b, <2>2 DEF IInv, TypeOK, CustodyIsBacked
  <2> QED
    BY <2>1, <2>2
<1>6. HeldInv'
  BY <1>a, <1>c, DoneMoves, HeldStays DEF TypeOK, StepOf, Settling
<1> QED
  BY <1>1, <1>2, <1>4, <1>5, <1>6 DEF IInv

\* The last statement changes nothing others rely on.
LEMMA WriteEventIInv ==
  ASSUME IInv, NEW c \in Agents, WriteEvent(c)
  PROVE  IInv'
<1> USE DEF IInv, TypeOK, WriteEvent, history, tables
<1>1. TypeOK'
  BY DoneMoves DEF Jobs
<1>2. Mono
  BY DEF Mono
<1>3. JobInv'
  <2>1. StepOf(c)
    BY DoneMoves DEF IInv
  <2>2. JobFacts(c)'
    BY DoneMoves DEF JobInv, JobFacts, EscrowOps, NoJob
  <2> QED
    BY <1>2, <2>1, <2>2, OthersKnow DEF IInv
<1>4. ChainInv'
  BY DEF ChainInv
<1>5. ClosedRowIsTrue'
  BY DEF ClosedRowIsTrue
<1>6. CustodyIsBacked'
  BY <1>2, BackedStays
<1>7. HeldInv'
  BY DoneMoves, HeldStays DEF Settling
<1> QED
  BY <1>1, <1>3, <1>4, <1>5, <1>6, <1>7 DEF IInv

\* A handler that throws leaves its escrow broken.
LEMMA ThrowIInv ==
  ASSUME IInv, NEW c \in Agents, Throw(c)
  PROVE  IInv'
<1> USE DEF IInv, TypeOK, Throw, history, tables
<1>1. TypeOK'
  BY ThrownMoves DEF Jobs, Fault
<1>2. Mono
  BY DEF Mono
<1>3. JobInv'
  <2>1. StepOf(c)
    BY ThrownMoves DEF IInv
  <2>2. CASE c \in Workers
    <3>1. pc'[c] = "revert" /\ job' = job
      BY <2>2, ThrownMoves DEF IInv
    <3>2. JobFacts(c) /\ job[c].op \in EscrowOps
      BY <2>2 DEF JobInv, JobFacts, EscrowOps
    <3>3. JobFacts(c)'
      BY <3>1, <3>2 DEF JobFacts
    <3> QED
      BY <1>2, <2>1, <3>3, OthersKnow DEF IInv
  <2>3. CASE c \notin Workers
    <3>1. JobFacts(c)'
      BY <2>3, ThrownMoves DEF JobFacts, EscrowOps, NoJob
    <3> QED
      BY <1>2, <2>1, <3>1, OthersKnow DEF IInv
  <2> QED
    BY <2>2, <2>3
<1>4. ChainInv'
  BY DEF ChainInv
<1>5. ClosedRowIsTrue'
  BY DEF ClosedRowIsTrue
<1>6. CustodyIsBacked'
  BY <1>2, BackedStays
<1>7. HeldInv'
  BY ThrownMoves, HeldStays DEF Settling
<1> QED
  BY <1>1, <1>3, <1>4, <1>5, <1>6, <1>7 DEF IInv

\* So does one that dies.
LEMMA DieIInv ==
  ASSUME IInv, NEW c \in Agents, Die(c)
  PROVE  IInv'
<1> USE DEF IInv, TypeOK, Die, history, tables, Agents
<1>1. TypeOK'
  BY DEF NoJob, NoId, Statuses, Fault
<1>2. Mono
  BY DEF Mono
<1>3. JobInv'
  <2>1. StepOf(c)
    BY DEF StepOf
  <2>2. JobFacts(c)'
    BY DEF JobInv, JobFacts, EscrowOps, NoJob
  <2> QED
    BY <1>2, <2>1, <2>2, OthersKnow
<1>4. ChainInv'
  BY DEF ChainInv
<1>5. ClosedRowIsTrue'
  BY DEF ClosedRowIsTrue
<1>6. CustodyIsBacked'
  BY <1>2, BackedStays
<1>7. HeldInv'
  BY DEF HeldInv
<1> QED
  BY <1>1, <1>3, <1>4, <1>5, <1>6, <1>7 DEF IInv
-----------------------------------------------------------------------------
(* EscrowReleaseWorker *)

\* Fetching changes nothing but the run's own list.
LEMMA FetchIInv ==
  ASSUME IInv, NEW w \in Workers, Fetch(w)
  PROVE  IInv'
<1> USE DEF IInv, TypeOK, Fetch, history, tables, Agents
<1>1. TypeOK'
  BY LowestSubset
<1>2. Mono
  BY DEF Mono
<1>3. JobInv'
  <2>1. StepOf(w)
    BY DEF StepOf
  <2>2. JobFacts(w)'
    BY DEF JobInv, JobFacts, EscrowOps
  <2> QED
    BY <1>2, <2>1, <2>2, OthersKnow
<1>4. ChainInv'
  BY DEF ChainInv
<1>5. ClosedRowIsTrue'
  BY DEF ClosedRowIsTrue
<1>6. CustodyIsBacked'
  BY <1>2, BackedStays
<1>7. HeldInv'
  BY DEF HeldInv
<1> QED
  BY <1>1, <1>3, <1>4, <1>5, <1>6, <1>7 DEF IInv

\* Marking may reopen a closed row, but the row stays and the worker holds it.
LEMMA MarkIInv ==
  ASSUME IInv, NEW w \in Workers, Mark(w)
  PROVE  IInv'
<1> PICK e \in Escrows :
      /\ SetStatus(e, "PROCESSING")
      /\ todo' = [todo EXCEPT ![w] = @ \ {e}]
      /\ job' = [job EXCEPT ![w] = [op |-> "release", id |-> e, asset |-> rec[e].asset, to |-> "ACTIVE"]]
  BY LowestSubset DEF Mark, IInv, TypeOK
<1>a. TypeOK /\ pc[w] = "next" /\ pc' = [pc EXCEPT ![w] = "read"] /\ UNCHANGED <<asset, chain, now, faults, broken, unseen, byHand>>
  BY DEF IInv, Mark, history
<1> USE DEF SetStatus, TypeOK, Agents
<1>1. TypeOK'
  BY <1>a DEF Statuses
<1>3. ChainInv' /\ ClosedRowIsTrue'
  BY <1>a DEF IInv, ChainInv, ClosedRowIsTrue
<1>4. IInv'
  <2>1. Mono
    BY <1>a DEF Mono
  <2>2. JobFacts(w)'
    BY <1>a, AgentsAssumption DEF IInv, JobInv, JobFacts, EscrowOps
  <2>3. JobInv'
    BY <1>a, <2>1, <2>2, OthersKnow DEF StepOf
  <2>4. CustodyIsBacked'
    BY <1>a, <2>1, BackedStays
  <2>5. HeldInv'
    BY <1>a DEF IInv, HeldInv
  <2> QED
    BY <1>1, <1>3, <2>3, <2>4, <2>5 DEF IInv
<1> QED
  BY <1>4

\* EscrowFacet.release goes on, or throws.
LEMMA RereadIInv ==
  ASSUME IInv, NEW w \in Workers, Reread(w)
  PROVE  IInv'
<1> USE DEF IInv, TypeOK, Reread, history, tables, Goto, Thrown, Agents
<1>1. TypeOK'
  OBVIOUS
<1>2. Mono
  BY DEF Mono
<1>3. JobInv'
  <2>1. StepOf(w)
    BY DEF StepOf
  <2>2. JobFacts(w)'
    BY DEF JobInv, JobFacts, EscrowOps
  <2> QED
    BY <1>2, <2>1, <2>2, OthersKnow
<1>4. ChainInv'
  BY DEF ChainInv
<1>5. ClosedRowIsTrue'
  BY DEF ClosedRowIsTrue
<1>6. CustodyIsBacked'
  BY <1>2, BackedStays
<1>7. HeldInv'
  BY DEF HeldInv
<1> QED
  BY <1>1, <1>3, <1>4, <1>5, <1>6, <1>7 DEF IInv

\* The row is ACTIVE again.
LEMMA RevertIInv ==
  ASSUME IInv, NEW w \in Workers, Revert(w)
  PROVE  IInv'
<1> USE DEF IInv, TypeOK, Revert, history, SetStatus, Agents
<1>1. TypeOK'
  <2>1. rec' \in [Escrows -> [status : {"ABSENT", "ACTIVE", "PROCESSING"} \cup Closed,
                               asset : Assets \cup {NoId}, mode : {"AUTO", "MANUAL"}]]
    OBVIOUS
  <2> QED
    BY <2>1, DoneMoves DEF IInv, Jobs
<1>2. Mono
  BY DEF Mono, JobInv, JobFacts, EscrowOps
<1>3. JobInv'
  <2>1. StepOf(w) /\ pc'[w] \in {"idle", "next"} /\ job'[w] = NoJob
    BY DoneMoves DEF IInv
  <2>2. JobFacts(w)'
    BY <2>1 DEF JobFacts, EscrowOps, NoJob
  <2> QED
    BY <1>2, <2>1, <2>2, OthersKnow DEF IInv
<1>4. ChainInv'
  BY DEF ChainInv
<1>5. ClosedRowIsTrue'
  BY DEF ClosedRowIsTrue
<1>6. CustodyIsBacked'
  BY <1>2, BackedStays
<1>7. HeldInv'
  BY DoneMoves, HeldStays DEF Settling
<1> QED
  BY <1>1, <1>3, <1>4, <1>5, <1>6, <1>7 DEF IInv
-----------------------------------------------------------------------------
(* The theorems *)

\* What the calls of clients begin with.
LEMMA CallIInv ==
  ASSUME IInv, NEW c \in Clients, Call(c)
  PROVE  IInv'
<1> USE DEF EscrowOps, Statuses, NoId
<1>1. NoId \notin Escrows
  BY EscrowsAssumption
<1>2. ASSUME NEW a \in Assets, NEW s \in Statuses, Transition(c, a, s) PROVE IInv'
  <2>1. s # "LOCKED_IN_ESCROW"
    BY <1>2 DEF Transition, TransitionRules
  <2>2. Begin(c, "transition", NoId, a, s, "asset") /\ "transition" \in ClientOps
    BY <1>2 DEF Transition, Begin
  <2> QED
    BY <1>1, <2>1, <2>2, BeginIInv
<1>3. ASSUME NEW a \in Assets, InitiateTransfer(c, a) \/ ProcessPayment(c, a) PROVE IInv'
  <2>1. CASE InitiateTransfer(c, a)
    <3>1. Begin(c, "transfer", NoId, a, "AWAITING_PAYMENT", "asset") /\ "transfer" \in ClientOps
      BY <2>1 DEF InitiateTransfer, Begin
    <3> QED
      BY <1>1, <3>1, BeginIInv
  <2>2. CASE ProcessPayment(c, a)
    <3>1. Begin(c, "pay", NoId, a, "ACTIVE", "asset") /\ "pay" \in ClientOps
      BY <2>2 DEF ProcessPayment, Begin
    <3> QED
      BY <1>1, <3>1, BeginIInv
  <2> QED
    BY <1>3, <2>1, <2>2
<1>4. ASSUME NEW e \in Escrows, NEW a \in Assets, Lock(c, e, a) \/ Release(c, e, a) \/ Cancel(c, e, a)
      PROVE  IInv'
  <2>1. CASE Lock(c, e, a)
    <3>1. Begin(c, "lock", e, a, "LOCKED_IN_ESCROW", "chain") /\ "lock" \in ClientOps
      BY <2>1 DEF Lock, Begin
    <3> QED
      BY <3>1, BeginIInv
  <2>2. CASE Release(c, e, a)
    <3>1. Begin(c, "release", e, a, "ACTIVE", "chain") /\ "release" \in ClientOps
      BY <2>2 DEF Release, Begin
    <3> QED
      BY <3>1, BeginIInv
  <2>3. CASE Cancel(c, e, a)
    <3>1. Begin(c, "cancel", e, a, "ACTIVE", "chain") /\ "cancel" \in ClientOps
      BY <2>3 DEF Cancel, Begin
    <3> QED
      BY <3>1, BeginIInv
  <2> QED
    BY <1>4, <2>1, <2>2, <2>3
<1> QED
  BY <1>2, <1>3, <1>4 DEF Call

\* Every step preserves the inductive invariant.
LEMMA NextIInv == IInv /\ [Next]_vars => IInv'
<1> SUFFICES ASSUME IInv, [Next]_vars PROVE IInv'
  OBVIOUS
<1>1. CASE UNCHANGED vars
  BY <1>1, QuietIInv DEF vars, IInv, TypeOK, tables, history
<1>2. ASSUME NEW c \in Agents, Proceed(c) \/ Throw(c) \/ Die(c) PROVE IInv'
  BY <1>2, ChainIInv, CreateRowIInv, CloseRowIInv, WriteAssetIInv, WriteEventIInv, ThrowIInv, DieIInv DEF Proceed
<1>3. ASSUME NEW w \in Workers, Run(w) PROVE IInv'
  BY <1>3, FetchIInv, MarkIInv, RereadIInv, RevertIInv DEF Run
<1>4. CASE Tick
  <2>1. UNCHANGED <<tables, pc, job, todo, faults, broken, history>> /\ now' \in Nat
    BY <1>4 DEF Tick, IInv, TypeOK
  <2> QED
    BY <2>1, QuietIInv DEF IInv, TypeOK
<1>5. ASSUME NEW a \in Assets, NEW s \in Edits, UpdateAsset(a, s) PROVE IInv'
  BY <1>5, UpdateAssetIInv
<1> QED
  BY <1>1, <1>2, <1>3, <1>4, <1>5, CallIInv DEF Next

\* The inductive invariant holds in every reachable state.
THEOREM Invariance == Spec => []IInv
BY InitIInv, NextIInv, PTL DEF Spec

\* Types, for every instance.
THEOREM TypeCorrect == Spec => []TypeOK
<1>1. IInv => TypeOK
  BY DEF IInv
<1> QED
  BY <1>1, Invariance, PTL

\* A row in RELEASED or CANCELLED tells the truth about the chain, however many calls
\* and workers race and fail, unless SOLANA's adapter took a failure for success.
THEOREM ClosedRowsAreTrue == Spec => []ClosedRowIsTrue
<1>1. IInv => ClosedRowIsTrue
  BY DEF IInv
<1> QED
  BY <1>1, Invariance, PTL

\* An asset that was not put in LOCKED_IN_ESCROW by hand has a row for it, and an
\* escrow on the chain, or a lock there whose failure went unseen.
THEOREM CustodyBacked == Spec => []CustodyIsBacked
<1>1. IInv => CustodyIsBacked
  BY DEF IInv
<1> QED
  BY <1>1, Invariance, PTL

\* Nothing is left unfinished but by a handler that was cut short.
THEOREM UnfinishedHeld == Spec => []UnfinishedIsHeld
<1>1. IInv => UnfinishedIsHeld
  BY DEF IInv, HeldInv, UnfinishedIsHeld, Holds, Agents
<1> QED
  BY <1>1, Invariance, PTL
=============================================================================
