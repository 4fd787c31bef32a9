---------------------------- MODULE MCIdentity ----------------------------
(* Identity with two users, two names and one document. *)
EXTENDS Identity, TLC
CONSTANTS n1, n2, d1

MCInputs  == {[open |-> n1, email |-> n1, doc |-> d1, role |-> "PLATFORM_ADMIN", status |-> "ACTIVE"],
              [open |-> None, email |-> n2, doc |-> d1, role |-> "MEMBER", status |-> "ACTIVE"],
              [open |-> n2, email |-> n1, doc |-> None, role |-> "MEMBER", status |-> "SUSPENDED"]}
MCChanges == {"doc" :> d1 @@ "email" :> n2, "doc" :> None @@ "role" :> "MEMBER"}
Alike     == Permutations(Users) \cup Permutations(Tenants) \cup Permutations(Calls)
=============================================================================
