---------------------------- MODULE MCHostWorker ----------------------------
(* Model checking of HostWorker: symmetry for the safety run. *)
EXTENDS HostWorker, TLC

Symmetry == Permutations(RunIds) \cup Permutations(AttemptIds)
              \cup Permutations(Machines) \cup Permutations(Keys)
=============================================================================
