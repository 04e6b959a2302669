------------------------------ MODULE MCWorkRun ------------------------------
(* Model checking of WorkRun: constants and symmetry. *)
EXTENDS WorkRun, TLC

Symmetry == Permutations(RunIds) \cup Permutations(AttemptIds)
              \cup Permutations(Machines) \cup Permutations(Keys)
=============================================================================
