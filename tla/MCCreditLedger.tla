---------------------------- MODULE MCCreditLedger ---------------------------
(***************************************************************************)
(* Small instances of CreditLedger: a user, two registrations, a request   *)
(* of administrators, an event of the payment provider.                     *)
(***************************************************************************)
EXTENDS CreditLedger, TLC

CONSTANTS u1, r1, r2, c1, c2

PaidByFirst   == [r \in Regs |-> u1]
TakeOne       == [id |-> "a1", user |-> u1, delta |-> -1]
OnlyTake      == {TakeOne}

Approved == [id |-> "e1", order |-> "o1", confirmed |-> TRUE]
OneEvent == {Approved}

Alike == Permutations(Calls)
=============================================================================
