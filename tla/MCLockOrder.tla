---------------------------- MODULE MCLockOrder -----------------------------
(* LockOrder and IdentityLocks on a small instance: three transactions at a
   time, at any time all of the one module or all of the other, so that every
   behaviour of each specification is one of LocksSpec. *)
EXTENDS LockOrder, IdentityLocks, TLC

Only(ops) == AllRun(Transactions, ops \cup {NoOperation})
LocksNext ==
    \/ Only(Operations) /\ Next
    \/ Only(IdentityOperations) /\ IdentityNext
LocksSpec == Init /\ [][LocksNext]_vars

Symmetry == Permutations(Transactions)
=============================================================================
