----------------------------- MODULE MCIdentity -----------------------------
(* Model checking of Identity: ids that the model only compares. *)
EXTENDS Identity, TLC

Symmetry == Permutations(Users) \cup Permutations(Sessions)
              \cup Permutations(Challenges) \cup Permutations(Transactions)
=============================================================================
