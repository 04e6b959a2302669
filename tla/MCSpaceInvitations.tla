------------------------- MODULE MCSpaceInvitations -------------------------
(* SpaceInvitations on a small instance.  Everything a client or the server
   chooses freshly is interchangeable, and so are the Users: the creator is
   whoever creates the Space. *)
EXTENDS SpaceInvitations, TLC

Symmetry == Permutations(Users) \cup Permutations(Emails)
              \cup Permutations(Invitations) \cup Permutations(Submissions)
              \cup Permutations(Handlers)
=============================================================================
