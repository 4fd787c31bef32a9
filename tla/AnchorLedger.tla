---------------------------- MODULE AnchorLedger ----------------------------
(***************************************************************************)
(* What the anchoring of events promises, without queues or workers.       *)
(*                                                                         *)
(* An event is posted, then decided.  Only an approved event is anchored,  *)
(* and every anchoring appends a transaction to the chain.  The record of  *)
(* an event points at one of its own transactions once there is one, may   *)
(* later point at another of them, and is never taken back.  That an       *)
(* event is anchored more than once is allowed: the queue also claims      *)
(* events that the retry worker has a row for, so that the code cannot     *)
(* promise better.                                                         *)
(***************************************************************************)
EXTENDS Naturals, Sequences

CONSTANT Events

VARIABLES
  verdict,   \* "none", "open", "approved", "rejected" or "void" (not to anchor)
  chain,     \* the events of the anchoring transactions, in chain order
  recorded   \* the position recorded for each event, 0 for none

vars == <<verdict, chain, recorded>>

Init ==
  /\ verdict = [e \in Events |-> "none"]
  /\ chain = <<>>
  /\ recorded = [e \in Events |-> 0]

\* Unhashed events are posted as void, unreviewed ones as open.
Post(e) ==
  /\ verdict[e] = "none"
  /\ \E v \in {"open", "approved", "void"} : verdict' = [verdict EXCEPT ![e] = v]
  /\ UNCHANGED <<chain, recorded>>

Decide(e) ==
  /\ verdict[e] = "open"
  /\ \E v \in {"approved", "rejected"} : verdict' = [verdict EXCEPT ![e] = v]
  /\ UNCHANGED <<chain, recorded>>

Anchor(e) ==
  /\ verdict[e] = "approved"
  /\ chain' = Append(chain, e)
  /\ UNCHANGED <<verdict, recorded>>

Record(e) ==
  /\ \E i \in DOMAIN chain : chain[i] = e /\ recorded' = [recorded EXCEPT ![e] = i]
  /\ UNCHANGED <<verdict, chain>>

Next == \E e \in Events : Post(e) \/ Decide(e) \/ Anchor(e) \/ Record(e)

Spec == Init /\ [][Next]_vars
=============================================================================
