--------------------------- MODULE MCConversation ---------------------------
(* Model checking of Conversation: symmetry. *)
EXTENDS Conversation, TLC

Symmetry == Permutations(Users) \cup Permutations(Machines)
              \cup Permutations(WorkIds) \cup Permutations(Keys)
=============================================================================
