------------------------------ MODULE RowLocks ------------------------------
(***************************************************************************)
(* Row locks of PostgreSQL.  Elsewhere in this project a transaction is one *)
(* step; here it is the sequence of the locks it takes, each of which may   *)
(* wait, because what can go wrong between transactions is that they wait   *)
(* for each other.  LockOrder and IdentityLocks say which sequences there   *)
(* are.  An advisory lock held to the end of the transaction is a lock of   *)
(* mode Update of a row that stands for its key.                            *)
(***************************************************************************)
EXTENDS Naturals, Sequences

CONSTANTS
    Users,         \* numbers: ids are compared to sort locks
    Transactions,  \* transactions the database runs at a time
    NoOperation

ASSUME LockAssumption == Users \subseteq Nat /\ Users # {}

VARIABLES
    operation,     \* what each transaction runs
    taken          \* how many of its locks it holds

vars == <<operation, taken>>

Membership(u) == <<"membership", u>>
Session(u) == <<"session", u>>
Invitation == <<"invitation", 0>>

(* PostgreSQL's row lock modes, numbered so that two of them conflict exactly
   when their sum exceeds 4. *)
KeyShare == 1
Share == 2
NoKeyUpdate == 3
Update == 4
Conflicts(m, n) == m + n > 4

Lock(row, mode) == [row |-> row, mode |-> mode, skip |-> FALSE]
SkipLocked(row) == [row |-> row, mode |-> Update, skip |-> TRUE]

Init ==
    /\ operation = [t \in Transactions |-> NoOperation]
    /\ taken = [t \in Transactions |-> 0]

-----------------------------------------------------------------------------
Running(t) == operation[t] # NoOperation
Wanted(t) == operation[t][taken[t] + 1]
Complete(t) == taken[t] = Len(operation[t])

(* A transaction waits for those that hold a conflicting lock of the row. *)
WaitsFor(t, u) ==
    /\ t # u /\ Running(t) /\ Running(u) /\ ~ Complete(t)
    /\ \E n \in 1 .. taken[u] :
         /\ operation[u][n].row = Wanted(t).row
         /\ Conflicts(operation[u][n].mode, Wanted(t).mode)
MustWait(t) == \E u \in Transactions : WaitsFor(t, u)

(* Each of these waits for another of these, so none will ever go on. *)
Deadlocked(ts) ==
    /\ ts # {}
    /\ \A t \in ts : (\E u \in ts : WaitsFor(t, u)) /\ ~ Wanted(t).skip

(* These transactions all run one of these operations. *)
AllRun(ts, ops) == \A t \in ts : operation[t] \in ops

Begin(t, op) ==
    /\ ~ Running(t)
    /\ operation' = [operation EXCEPT ![t] = op]
    /\ UNCHANGED taken

Take(t) ==
    /\ Running(t) /\ ~ Complete(t) /\ ~ MustWait(t)
    /\ taken' = [taken EXCEPT ![t] = @ + 1]
    /\ UNCHANGED operation

(* COMMIT or ROLLBACK: an operation may be refused after any of its locks, and
   finds nothing to do when SKIP LOCKED leaves the row to another. *)
End(t) ==
    /\ Running(t)
    /\ MustWait(t) => Wanted(t).skip
    /\ operation' = [operation EXCEPT ![t] = NoOperation]
    /\ taken' = [taken EXCEPT ![t] = 0]

(* After deadlock_timeout PostgreSQL fails one transaction of a deadlock. *)
Victim(t) ==
    /\ Running(t) /\ \E ts \in SUBSET Transactions : t \in ts /\ Deadlocked(ts)
    /\ operation' = [operation EXCEPT ![t] = NoOperation]
    /\ taken' = [taken EXCEPT ![t] = 0]

(* A step of a database that runs these operations. *)
Step(ops) ==
    \E t \in Transactions :
      (\E op \in ops : Begin(t, op)) \/ Take(t) \/ End(t) \/ Victim(t)

-----------------------------------------------------------------------------
(* Why: the inductive invariant of LockOrderProofs.  A transaction that runs
   holds the first locks of its operation, and no lock is granted against
   another. *)
LocksTypeOK(ops) ==
    /\ operation \in [Transactions -> ops \cup {NoOperation}]
    /\ taken \in [Transactions -> Nat]
    /\ \A t \in Transactions :
         IF Running(t) THEN taken[t] <= Len(operation[t]) ELSE taken[t] = 0

LocksExclude ==
    \A t, u \in Transactions : \A m \in 1 .. taken[t], n \in 1 .. taken[u] :
        t # u /\ operation[t][m].row = operation[u][n].row
        => ~ Conflicts(operation[t][m].mode, operation[u][n].mode)

LockInv(ops) == LocksTypeOK(ops) /\ LocksExclude
=============================================================================
