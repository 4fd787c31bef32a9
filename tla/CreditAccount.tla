---------------------------- MODULE CreditAccount ----------------------------
(***************************************************************************)
(* What the credit ledger promises: each account has credits available and *)
(* credits reserved; credits are granted, set aside for a registration,    *)
(* and then spent or given back, and nothing is taken that is not there.   *)
(***************************************************************************)
EXTENDS Integers

CONSTANTS
  Accounts,  \* the users
  Amounts    \* of credits granted or revoked at once

VARIABLES available, reserved

vars == <<available, reserved>>

TypeOK == available \in [Accounts -> Nat] /\ reserved \in [Accounts -> Nat]

Init == available = [a \in Accounts |-> 0] /\ reserved = [a \in Accounts |-> 0]

\* What an operation adds to the credits available and to those reserved.
Reserve == <<-1, 1>>
Consume == <<0, -1>>
Release == <<1, -1>>
Operations == {Reserve, Consume, Release}
                \cup {<<n, 0>> : n \in Amounts} \cup {<<-n, 0>> : n \in Amounts}

Allowed(a, op) == /\ op[1] < 0 => available[a] + op[1] >= 0
                  /\ op[2] < 0 => reserved[a] + op[2] >= 0

Change(a, op) == /\ available' = [available EXCEPT ![a] = @ + op[1]]
                 /\ reserved' = [reserved EXCEPT ![a] = @ + op[2]]

Next == \E a \in Accounts, op \in Operations : Allowed(a, op) /\ Change(a, op)

Spec == Init /\ [][Next]_vars

\* An operation carried out without looking at the balance.
Unchecked == \E a \in Accounts, op \in Operations : Change(a, op)
=============================================================================
