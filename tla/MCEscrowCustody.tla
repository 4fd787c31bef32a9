--------------------------- MODULE MCEscrowCustody ---------------------------
(***************************************************************************)
(* Small instances of EscrowCustody.  Escrows are numbered by unlock time; *)
(* calls of clients are alike, and so are runs of the worker and assets.   *)
(***************************************************************************)
EXTENDS EscrowCustody, TLC

CONSTANTS a1, a2, c1, c2, w1, w2

Alike == Permutations({c1, c2}) \cup Permutations({w1, w2}) \cup Permutations({a1, a2})

\* With MaxActive = 1 a call keeps the worker out, which no call of the code does: that
\* the worker comes to its turn all the same takes strong fairness here.
SerialSpec == FairSpec /\ \A w \in Workers : SF_vars(Run(w))
=============================================================================
