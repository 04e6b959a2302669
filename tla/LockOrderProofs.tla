--------------------------- MODULE LockOrderProofs --------------------------
(***************************************************************************)
(* Theorems about LockOrder and IdentityLocks, for any number of Users,     *)
(* addresses, accounts and concurrent transactions.                         *)
(*                                                                         *)
(* The argument is the classical one: number the kinds of rows; if every    *)
(* operation takes its locks in increasing order, whoever waits for the row *)
(* of the greatest number waits for somebody who waits for a greater one.   *)
(* Two things bend the order.  A lock that no operation's lock conflicts    *)
(* with never waits.  And a removal locks two or three memberships, of one  *)
(* number; it holds the Space then, so there are no two such removals.      *)
(***************************************************************************)
EXTENDS LockOrder, IdentityLocks, WellFoundedInduction, SequenceTheorems, TLAPS

(* The removal of a member excludes every other by this lock. *)
Guard == Lock(Space, NoKeyUpdate)

(* What the argument needs of one operation: its locks in the order of their
   ranks, and no lock of the Space that a reference to the Space waits for. *)
RankOf(l, rank) == rank[l.row[1]]
LockOK(l, rank) ==
    /\ l.mode \in 1 .. 4
    /\ RankOf(l, rank) \in 0 .. 20
    /\ l.row = Space => l.mode <= NoKeyUpdate
(* The second of two locks comes later in the order, or does not wait. *)
Before(k, l, rank) ==
    l.skip \/ l = Lock(Space, KeyShare) \/ RankOf(k, rank) < RankOf(l, rank)
InOrder(op, rank) ==
    /\ Len(op) \in Nat
    /\ \A n \in 1 .. Len(op) : LockOK(op[n], rank)
    /\ \A i, j \in 1 .. Len(op) : i < j =>
         \/ Before(op[i], op[j], rank)
         \/ RankOf(op[i], rank) = RankOf(op[j], rank) /\ op[1] = Guard

-----------------------------------------------------------------------------
(* Locks are granted one by one, never against another transaction's. *)

(* Nobody runs, nobody holds a lock. *)
LEMMA InitLockInv == ASSUME NEW ops, Init PROVE LockInv(ops)
  BY DEF Init, LockInv, LocksTypeOK, LocksExclude, Running

(* What the next two lemmas ask of the operations: that they are finite
   sequences of locks with modes. *)
LockLists(ops) ==
    /\ NoOperation \notin ops
    /\ \A op \in ops : Len(op) \in Nat /\ \A n \in 1 .. Len(op) : op[n].mode \in 1 .. 4

(* A lock that does not wait conflicts with none that is held; the ends of a
   transaction release what it holds. *)
LEMMA StepLockInv ==
    ASSUME NEW ops, LockLists(ops), LockInv(ops), [Step(ops)]_vars
    PROVE  LockInv(ops)'
<1>0. \A t \in Transactions : Running(t) => operation[t] \in ops
  BY DEF LockInv, LocksTypeOK, Running
<1>1. CASE UNCHANGED vars
  BY <1>1 DEF vars, LockInv, LocksTypeOK, LocksExclude, Running
<1>2. CASE Step(ops)
  <2>1. PICK t \in Transactions :
          (\E op \in ops : Begin(t, op)) \/ Take(t) \/ End(t) \/ Victim(t)
    BY <1>2 DEF Step
  <2>2. CASE \E op \in ops : Begin(t, op)
    <3>1. PICK op \in ops : Begin(t, op)
      BY <2>2
    <3>2. /\ operation' = [operation EXCEPT ![t] = op] /\ taken' = taken /\ taken[t] = 0
          /\ \A u \in Transactions \ {t} : operation'[u] = operation[u]
      BY <3>1 DEF Begin, LockInv, LocksTypeOK
    <3>3. LocksTypeOK(ops)'
      BY <3>1, <3>2 DEF LockInv, LocksTypeOK, LockLists, Running
    <3>4. LocksExclude'
      <4> SUFFICES ASSUME NEW a \in Transactions, NEW b \in Transactions,
                          NEW m \in 1 .. taken[a], NEW n \in 1 .. taken[b],
                          a # b, operation'[a][m].row = operation'[b][n].row
                   PROVE  ~ Conflicts(operation'[a][m].mode, operation'[b][n].mode)
        BY <3>2 DEF LocksExclude
      <4>1. a # t /\ b # t
        BY <3>2
      <4> QED BY <3>2, <4>1 DEF LockInv, LocksExclude
    <3> QED BY <3>3, <3>4 DEF LockInv
  <2>3. CASE Take(t)
    <3>1. /\ operation' = operation /\ taken' = [taken EXCEPT ![t] = taken[t] + 1]
          /\ operation[t] \in ops /\ Len(operation[t]) \in Nat /\ taken[t] \in Nat
          /\ taken[t] <= Len(operation[t]) /\ taken[t] # Len(operation[t])
      BY <1>0, <2>3 DEF Take, Complete, LockInv, LocksTypeOK, LockLists
    <3>2. LocksTypeOK(ops)'
      <4>1. taken' \in [Transactions -> Nat] /\ taken'[t] <= Len(operation[t])
        BY <3>1 DEF LockInv, LocksTypeOK
      <4>2. \A u \in Transactions : u # t => taken'[u] = taken[u]
        BY <3>1 DEF LockInv, LocksTypeOK
      <4> QED BY <2>3, <3>1, <4>1, <4>2 DEF LockInv, LocksTypeOK, Running, Take
    <3>3. ASSUME NEW u \in Transactions, u # t, NEW n \in 1 .. taken[u],
                 operation[u][n].row = Wanted(t).row
          PROVE  ~ Conflicts(operation[u][n].mode, Wanted(t).mode)
      <4>1. Running(u)
        BY <3>3 DEF LockInv, LocksTypeOK
      <4> QED BY <2>3, <3>3, <4>1 DEF Take, MustWait, WaitsFor
    <3>4. ASSUME NEW u \in Transactions, NEW n \in 1 .. taken[u]
          PROVE  operation[u][n].mode \in 1 .. 4
      <4>1. Running(u) /\ taken[u] \in Nat /\ taken[u] <= Len(operation[u])
        BY <3>4 DEF LockInv, LocksTypeOK
      <4> QED BY <1>0, <4>1 DEF LockLists
    <3>5. Wanted(t).mode \in 1 .. 4
      BY <3>1 DEF Wanted, LockLists
    <3>6. ASSUME NEW u \in Transactions, NEW n \in 1 .. taken'[u]
          PROVE  n \in 1 .. taken[u] \/ (u = t /\ operation[u][n] = Wanted(t))
      <4>1. taken[u] \in Nat /\ taken'[u] = IF u = t THEN taken[t] + 1 ELSE taken[u]
        BY <3>1 DEF LockInv, LocksTypeOK
      <4>2. n \in 1 .. taken[u] \/ (u = t /\ n = taken[t] + 1)
        BY <4>1
      <4> QED BY <4>2 DEF Wanted
    <3>7. LocksExclude'
      <4> SUFFICES ASSUME NEW a \in Transactions, NEW b \in Transactions,
                          NEW m \in 1 .. taken'[a], NEW n \in 1 .. taken'[b],
                          a # b, operation[a][m].row = operation[b][n].row
                   PROVE  ~ Conflicts(operation[a][m].mode, operation[b][n].mode)
        BY <3>1 DEF LocksExclude
      <4>1. CASE m \in 1 .. taken[a] /\ n \in 1 .. taken[b]
        BY <4>1 DEF LockInv, LocksExclude
      <4>2. CASE a = t /\ operation[a][m] = Wanted(t) /\ n \in 1 .. taken[b]
        <5>1. ~ Conflicts(operation[b][n].mode, Wanted(t).mode)
          BY <3>3, <4>2
        <5> QED BY <3>4, <3>5, <4>2, <5>1 DEF Conflicts
      <4>3. CASE b = t /\ operation[b][n] = Wanted(t) /\ m \in 1 .. taken[a]
        BY <3>3, <4>3
      <4> QED BY <3>6, <4>1, <4>2, <4>3
    <3> QED BY <3>2, <3>7 DEF LockInv
  <2>4. CASE End(t) \/ Victim(t)
    <3>1. /\ operation' = [operation EXCEPT ![t] = NoOperation]
          /\ taken' = [taken EXCEPT ![t] = 0]
      BY <2>4 DEF End, Victim
    <3>2. /\ operation'[t] = NoOperation /\ taken'[t] = 0
          /\ \A u \in Transactions \ {t} : operation'[u] = operation[u] /\ taken'[u] = taken[u]
      BY <3>1 DEF LockInv, LocksTypeOK
    <3>3. LocksTypeOK(ops)'
      BY <3>1, <3>2 DEF LockInv, LocksTypeOK, Running
    <3>4. LocksExclude'
      <4> SUFFICES ASSUME NEW a \in Transactions, NEW b \in Transactions,
                          NEW m \in 1 .. taken'[a], NEW n \in 1 .. taken'[b],
                          a # b, operation'[a][m].row = operation'[b][n].row
                   PROVE  ~ Conflicts(operation'[a][m].mode, operation'[b][n].mode)
        BY DEF LocksExclude
      <4>1. a # t /\ b # t
        BY <3>2
      <4> QED BY <3>2, <4>1 DEF LockInv, LocksExclude
    <3> QED BY <3>3, <3>4 DEF LockInv
  <2> QED BY <2>1, <2>2, <2>3, <2>4
<1> QED BY <1>1, <1>2
-----------------------------------------------------------------------------
(* Operations in order do not deadlock. *)

(* Of numbers below a bound there is a greatest. *)
LEMMA GreatestNumber ==
    ASSUME NEW S \in SUBSET (0 .. 20), S # {}
    PROVE  \E x \in S : \A y \in S : y <= x
<1> DEFINE D == {20 - x : x \in S}
<1>1. D \subseteq Nat /\ D # {}
  <2>1. \A x \in S : 20 - x \in Nat
    OBVIOUS
  <2> QED BY <2>1
<1>2. IsWellFoundedOn(OpToRel(<, Nat), Nat)
  BY NatLessThanWellFounded
<1>3. \E d \in D : \A e \in D : ~ (<<e, d>> \in OpToRel(<, Nat))
  <2> HIDE DEF D
  <2> QED BY <1>1, <1>2, WFMin
<1>4. PICK d \in D : \A e \in D : ~ (<<e, d>> \in OpToRel(<, Nat))
  BY <1>3
<1>5. ASSUME NEW e \in D PROVE d <= e
  <2>1. <<e, d>> \in Nat \X Nat
    BY <1>1
  <2>2. ~ (<<e, d>>[1] < <<e, d>>[2])
    BY <1>4, <2>1 DEF OpToRel
  <2> QED BY <1>1, <2>2
<1>6. PICK x \in S : d = 20 - x
  OBVIOUS
<1>7. ASSUME NEW y \in S PROVE y <= x
  <2>1. d <= 20 - y
    BY <1>5
  <2> QED BY <1>6, <2>1
<1> QED BY <1>7

(* A deadlock of transactions whose operations are in order. *)
OrderedDeadlock(ops, rank, ts) ==
    /\ LockInv(ops) /\ ts \subseteq Transactions /\ Deadlocked(ts)
    /\ \A t \in ts : operation[t] \in ops /\ InOrder(operation[t], rank)

WantedRank(rank, t) == RankOf(Wanted(t), rank)
HasGuard(t) == 1 \in 1 .. taken[t] /\ operation[t][1] = Guard

(* A transaction in a deadlock waits for one whose own wish comes later in the
   order, or that has the Guard and wishes for a row of the same rank. *)
LEMMA HolderWantsMore ==
    ASSUME NEW ops, NEW rank, NEW ts, OrderedDeadlock(ops, rank, ts), NEW t \in ts
    PROVE  \E u \in ts :
             /\ u # t /\ WantedRank(rank, t) \in 0 .. 20
             /\ \/ WantedRank(rank, t) < WantedRank(rank, u)
                \/ WantedRank(rank, t) = WantedRank(rank, u) /\ HasGuard(u)
<1> USE DEF OrderedDeadlock
<1>1. PICK u \in ts : WaitsFor(t, u)
  BY DEF Deadlocked
<1>2. PICK n \in 1 .. taken[u] :
        /\ operation[u][n].row = Wanted(t).row
        /\ Conflicts(operation[u][n].mode, Wanted(t).mode)
  BY <1>1 DEF WaitsFor
<1>3. ASSUME NEW x \in ts
      PROVE  /\ Running(x) /\ ~ Complete(x) /\ ~ Wanted(x).skip
             /\ taken[x] \in Nat /\ Len(operation[x]) \in Nat
             /\ taken[x] + 1 \in 1 .. Len(operation[x])
  <2>1. Running(x) /\ ~ Complete(x) /\ ~ Wanted(x).skip
    BY DEF Deadlocked, WaitsFor
  <2>2. taken[x] \in Nat /\ taken[x] <= Len(operation[x]) /\ Len(operation[x]) \in Nat
    BY <2>1 DEF LockInv, LocksTypeOK, InOrder
  <2> QED BY <2>1, <2>2 DEF Complete
<1>4. n \in 1 .. Len(operation[u]) /\ taken[u] + 1 \in 1 .. Len(operation[u]) /\ n < taken[u] + 1
  BY <1>3
<1>5. InOrder(operation[u], rank) /\ ~ Wanted(u).skip
  BY <1>3
<1>6. \/ Wanted(u) = Lock(Space, KeyShare)
      \/ RankOf(operation[u][n], rank) < RankOf(Wanted(u), rank)
      \/ RankOf(operation[u][n], rank) = RankOf(Wanted(u), rank) /\ operation[u][1] = Guard
  BY <1>4, <1>5 DEF InOrder, Before, Wanted
<1>7. Wanted(u) # Lock(Space, KeyShare)
  <2> SUFFICES ASSUME Wanted(u).row = Space, Wanted(u).mode = KeyShare PROVE FALSE
    BY DEF Lock
  <2>1. PICK v \in ts : WaitsFor(u, v)
    BY DEF Deadlocked
  <2>2. PICK m \in 1 .. taken[v] :
          operation[v][m].row = Space /\ Conflicts(operation[v][m].mode, KeyShare)
    BY <2>1 DEF WaitsFor
  <2>3. m \in 1 .. Len(operation[v])
    BY <1>3
  <2>4. operation[v][m].mode \in 1 .. 4 /\ operation[v][m].mode <= NoKeyUpdate
    BY <2>2, <2>3 DEF InOrder, LockOK
  <2> QED BY <2>2, <2>4 DEF Conflicts, KeyShare, NoKeyUpdate
<1>8. RankOf(Wanted(t), rank) \in 0 .. 20
  BY <1>3 DEF InOrder, LockOK, Wanted
<1>9. u # t
  BY <1>1 DEF WaitsFor
<1>10. 1 \in 1 .. taken[u]
  BY <1>3
<1> QED BY <1>2, <1>6, <1>7, <1>8, <1>9, <1>10 DEF WantedRank, RankOf, HasGuard

(* No set of transactions whose operations are in order is deadlocked. *)
LEMMA InOrderNoDeadlock ==
    ASSUME NEW ops, NEW rank, NEW ts, OrderedDeadlock(ops, rank, ts)
    PROVE  FALSE
<1> DEFINE R(t) == WantedRank(rank, t)
<1>1. \A t \in ts : \E u \in ts :
        /\ u # t /\ R(t) \in 0 .. 20
        /\ R(t) < R(u) \/ (R(t) = R(u) /\ HasGuard(u))
  BY HolderWantsMore
<1> HIDE DEF R
<1>2. PICK t \in ts : \A u \in ts : R(u) <= R(t)
  <2> DEFINE S == {R(x) : x \in ts}
  <2>1. S \subseteq 0 .. 20 /\ S # {}
    <3>1. \A x \in ts : R(x) \in 0 .. 20
      BY <1>1
    <3>2. ts # {}
      BY DEF OrderedDeadlock, Deadlocked
    <3> QED BY <3>1, <3>2
  <2>2. PICK greatest \in S : \A y \in S : y <= greatest
    <3> HIDE DEF S
    <3> QED BY <2>1, GreatestNumber
  <2>3. PICK t \in ts : greatest = R(t)
    OBVIOUS
  <2> QED BY <2>2, <2>3
<1>3. ASSUME NEW u \in ts, R(u) = R(t)
      PROVE  \E v \in ts : v # u /\ R(v) = R(t) /\ HasGuard(v)
  <2>1. PICK v \in ts :
          /\ v # u /\ R(u) \in 0 .. 20
          /\ R(u) < R(v) \/ (R(u) = R(v) /\ HasGuard(v))
    BY <1>1
  <2>2. R(v) \in 0 .. 20 /\ R(v) <= R(t)
    BY <1>1, <1>2
  <2> QED BY <1>3, <2>1, <2>2
<1>4. PICK u \in ts : R(u) = R(t) /\ HasGuard(u)
  BY <1>3
<1>5. PICK v \in ts : v # u /\ HasGuard(v)
  BY <1>3, <1>4
<1>6. u \in Transactions /\ v \in Transactions
  BY DEF OrderedDeadlock
<1>7. ~ Conflicts(Guard.mode, Guard.mode)
  BY <1>4, <1>5, <1>6 DEF OrderedDeadlock, LockInv, LocksExclude, HasGuard
<1> QED BY <1>7 DEF Guard, Lock, Conflicts, NoKeyUpdate
-----------------------------------------------------------------------------
(* The order of the Space's rows. *)

SpaceKinds == {"CLI login request", "session", "space", "membership", "active run", "attempt",
               "work", "machine", "agent", "conversation", "invitation", "result check",
               "invitation recipient key", "retryable run", "connection request", "CLI credential"}
SpaceRank == [kind \in SpaceKinds |->
    CASE kind = "CLI login request" -> 1
      [] kind = "session" -> 2
      [] kind = "space" -> 3
      [] kind = "membership" -> 4
      [] kind = "active run" -> 5
      [] kind = "attempt" -> 6
      [] kind = "work" -> 7
      [] kind = "machine" -> 8
      [] kind = "agent" -> 9
      [] OTHER -> 10]

(* Every lock of the row is good and has this rank. *)
Ranked(row, rank, n) ==
    \A mode \in 1 .. 4 :
      LockOK(Lock(row, mode), rank) /\ RankOf(Lock(row, mode), rank) = n

(* A lock of a row has the rank of the row's kind. *)
LEMMA RowRank ==
    ASSUME NEW rank, NEW row, NEW n \in 0 .. 20, row # Space, rank[row[1]] = n
    PROVE  Ranked(row, rank, n)
  BY DEF Ranked, LockOK, RankOf, Lock

(* The numbers, one by one. *)
LEMMA SpaceRanks ==
    /\ SpaceRank["CLI login request"] = 1
    /\ SpaceRank["session"] = 2
    /\ SpaceRank["space"] = 3
    /\ SpaceRank["membership"] = 4
    /\ SpaceRank["active run"] = 5
    /\ SpaceRank["attempt"] = 6
    /\ SpaceRank["work"] = 7
    /\ SpaceRank["machine"] = 8
    /\ SpaceRank["agent"] = 9
    /\ SpaceRank["conversation"] = 10
    /\ SpaceRank["invitation"] = 10
    /\ SpaceRank["result check"] = 10
    /\ SpaceRank["invitation recipient key"] = 10
    /\ SpaceRank["retryable run"] = 10
    /\ SpaceRank["connection request"] = 10
    /\ SpaceRank["CLI credential"] = 10
  BY DEF SpaceRank, SpaceKinds

(* The same of the rows. *)
LEMMA SpaceLocks ==
    ASSUME NEW u
    PROVE  /\ Ranked(LoginRequest, SpaceRank, 1)
           /\ Ranked(Session(u), SpaceRank, 2)
           /\ Ranked(Membership(u), SpaceRank, 4)
           /\ Ranked(ActiveRun, SpaceRank, 5)
           /\ Ranked(Attempt, SpaceRank, 6)
           /\ Ranked(Work, SpaceRank, 7)
           /\ Ranked(Machine, SpaceRank, 8)
           /\ Ranked(Agent, SpaceRank, 9)
           /\ Ranked(Conversation(u), SpaceRank, 10)
           /\ Ranked(Invitation, SpaceRank, 10)
           /\ Ranked(ResultCheck, SpaceRank, 10)
           /\ Ranked(RetryableRun, SpaceRank, 10)
           /\ Ranked(ConnectionRequest, SpaceRank, 10)
           /\ Ranked(Credential, SpaceRank, 10)
           /\ Ranked(RecipientKey, SpaceRank, 10)
           /\ \A mode \in 1 .. 3 : /\ LockOK(Lock(Space, mode), SpaceRank)
                                   /\ RankOf(Lock(Space, mode), SpaceRank) = 3
<1>1. Ranked(LoginRequest, SpaceRank, 1)
  <2>1. LoginRequest # Space /\ SpaceRank[LoginRequest[1]] = 1
    BY SpaceRanks DEF LoginRequest, Space
  <2> QED BY <2>1, RowRank DEF Ranked
<1>2. Ranked(Session(u), SpaceRank, 2)
  <2>1. Session(u) # Space /\ SpaceRank[Session(u)[1]] = 2
    BY SpaceRanks DEF Session, Space
  <2> QED BY <2>1, RowRank DEF Ranked
<1>3. Ranked(Membership(u), SpaceRank, 4)
  <2>1. Membership(u) # Space /\ SpaceRank[Membership(u)[1]] = 4
    BY SpaceRanks DEF Membership, Space
  <2> QED BY <2>1, RowRank DEF Ranked
<1>4. Ranked(ActiveRun, SpaceRank, 5)
  <2>1. ActiveRun # Space /\ SpaceRank[ActiveRun[1]] = 5
    BY SpaceRanks DEF ActiveRun, Space
  <2> QED BY <2>1, RowRank DEF Ranked
<1>5. Ranked(Attempt, SpaceRank, 6)
  <2>1. Attempt # Space /\ SpaceRank[Attempt[1]] = 6
    BY SpaceRanks DEF Attempt, Space
  <2> QED BY <2>1, RowRank DEF Ranked
<1>6. Ranked(Work, SpaceRank, 7)
  <2>1. Work # Space /\ SpaceRank[Work[1]] = 7
    BY SpaceRanks DEF Work, Space
  <2> QED BY <2>1, RowRank DEF Ranked
<1>7. Ranked(Machine, SpaceRank, 8)
  <2>1. Machine # Space /\ SpaceRank[Machine[1]] = 8
    BY SpaceRanks DEF Machine, Space
  <2> QED BY <2>1, RowRank DEF Ranked
<1>8. Ranked(Agent, SpaceRank, 9)
  <2>1. Agent # Space /\ SpaceRank[Agent[1]] = 9
    BY SpaceRanks DEF Agent, Space
  <2> QED BY <2>1, RowRank DEF Ranked
<1>9. Ranked(Conversation(u), SpaceRank, 10)
  <2>1. Conversation(u) # Space /\ SpaceRank[Conversation(u)[1]] = 10
    BY SpaceRanks DEF Conversation, Space
  <2> QED BY <2>1, RowRank DEF Ranked
<1>10. Ranked(Invitation, SpaceRank, 10)
  <2>1. Invitation # Space /\ SpaceRank[Invitation[1]] = 10
    BY SpaceRanks DEF Invitation, Space
  <2> QED BY <2>1, RowRank DEF Ranked
<1>11. Ranked(ResultCheck, SpaceRank, 10)
  <2>1. ResultCheck # Space /\ SpaceRank[ResultCheck[1]] = 10
    BY SpaceRanks DEF ResultCheck, Space
  <2> QED BY <2>1, RowRank DEF Ranked
<1>12. Ranked(RetryableRun, SpaceRank, 10)
  <2>1. RetryableRun # Space /\ SpaceRank[RetryableRun[1]] = 10
    BY SpaceRanks DEF RetryableRun, Space
  <2> QED BY <2>1, RowRank DEF Ranked
<1>13. Ranked(ConnectionRequest, SpaceRank, 10)
  <2>1. ConnectionRequest # Space /\ SpaceRank[ConnectionRequest[1]] = 10
    BY SpaceRanks DEF ConnectionRequest, Space
  <2> QED BY <2>1, RowRank DEF Ranked
<1>14. Ranked(Credential, SpaceRank, 10)
  <2>1. Credential # Space /\ SpaceRank[Credential[1]] = 10
    BY SpaceRanks DEF Credential, Space
  <2> QED BY <2>1, RowRank DEF Ranked
<1>15. \A mode \in 1 .. 3 : /\ LockOK(Lock(Space, mode), SpaceRank)
                            /\ RankOf(Lock(Space, mode), SpaceRank) = 3
  <2>1. SpaceRank[Space[1]] = 3
    BY SpaceRanks DEF Space
  <2> QED BY <2>1 DEF LockOK, RankOf, Lock, NoKeyUpdate
<1>16. Ranked(RecipientKey, SpaceRank, 10)
  <2>1. RecipientKey # Space /\ SpaceRank[RecipientKey[1]] = 10
    BY SpaceRanks DEF RecipientKey, Space
  <2> QED BY <2>1, RowRank DEF Ranked
<1> QED BY <1>1, <1>2, <1>3, <1>4, <1>5, <1>6, <1>7, <1>8, <1>9, <1>10, <1>11, <1>12,
           <1>13, <1>14, <1>15, <1>16

(* When an operation is in order, for each length that operations have: one
   lock, *)
LEMMA InOrder1 ==
    ASSUME NEW rank, NEW a, LockOK(a, rank)
    PROVE  InOrder(<<a>>, rank)
  BY DEF InOrder
(* two locks, *)
LEMMA InOrder2 ==
    ASSUME NEW rank, NEW a, NEW b, LockOK(a, rank), LockOK(b, rank), Before(a, b, rank)
    PROVE  InOrder(<<a, b>>, rank)
  BY DEF InOrder
(* three, *)
LEMMA InOrder3 ==
    ASSUME NEW rank, NEW a, NEW b, NEW c, LockOK(a, rank), LockOK(b, rank), LockOK(c, rank),
           Before(a, b, rank), Before(a, c, rank), Before(b, c, rank)
    PROVE  InOrder(<<a, b, c>>, rank)
  BY DEF InOrder
(* four, *)
LEMMA InOrder4 ==
    ASSUME NEW rank, NEW a, NEW b, NEW c, NEW d,
           LockOK(a, rank), LockOK(b, rank), LockOK(c, rank), LockOK(d, rank),
           Before(a, b, rank), Before(a, c, rank), Before(a, d, rank),
           Before(b, c, rank), Before(b, d, rank), Before(c, d, rank)
    PROVE  InOrder(<<a, b, c, d>>, rank)
  BY DEF InOrder
(* five, *)
LEMMA InOrder5 ==
    ASSUME NEW rank, NEW a, NEW b, NEW c, NEW d, NEW e,
           LockOK(a, rank), LockOK(b, rank), LockOK(c, rank), LockOK(d, rank), LockOK(e, rank),
           Before(a, b, rank), Before(a, c, rank), Before(a, d, rank), Before(a, e, rank),
           Before(b, c, rank), Before(b, d, rank), Before(b, e, rank),
           Before(c, d, rank), Before(c, e, rank), Before(d, e, rank)
    PROVE  InOrder(<<a, b, c, d, e>>, rank)
  BY DEF InOrder
(* or six. *)
LEMMA InOrder6 ==
    ASSUME NEW rank, NEW a, NEW b, NEW c, NEW d, NEW e, NEW f,
           LockOK(a, rank), LockOK(b, rank), LockOK(c, rank), LockOK(d, rank),
           LockOK(e, rank), LockOK(f, rank),
           Before(a, b, rank), Before(a, c, rank), Before(a, d, rank), Before(a, e, rank),
           Before(a, f, rank),
           Before(b, c, rank), Before(b, d, rank), Before(b, e, rank), Before(b, f, rank),
           Before(c, d, rank), Before(c, e, rank), Before(c, f, rank),
           Before(d, e, rank), Before(d, f, rank),
           Before(e, f, rank)
    PROVE  InOrder(<<a, b, c, d, e, f>>, rank)
  BY DEF InOrder

(* A member's requests are in order. *)
LEMMA MemberOperationsInOrder ==
    ASSUME NEW op \in MemberOperations
    PROVE  InOrder(op, SpaceRank)
<1>0. PICK u \in Users :
        op \in {AppendWorkMessage(u), AcceptWorkReview(u), LoadWork(u), RequestWorkRetry(u),
                DecideMachineConnection(u), RevokeMachineFromBrowser(u),
                ReconcileAgentPresence(u), SendConversationMessage(u), IssueInvitation(u),
                RevokeInvitation(u), ApproveCLILogin(u), RevokeCLICredential(u)}
  BY DEF MemberOperations
<1> USE SpaceLocks DEF Before, Ranked, KeyShare, Share, NoKeyUpdate, Update
<1>1. CASE op = AppendWorkMessage(u)
  BY <1>1, InOrder2 DEF AppendWorkMessage
<1>2. CASE op = AcceptWorkReview(u)
  BY <1>2, InOrder3 DEF AcceptWorkReview
<1>3. CASE op = LoadWork(u)
  BY <1>3, InOrder2 DEF LoadWork
<1>4. CASE op = RequestWorkRetry(u)
  BY <1>4, InOrder3 DEF RequestWorkRetry
<1>5. CASE op = DecideMachineConnection(u)
  BY <1>5, InOrder4 DEF DecideMachineConnection
<1>6. CASE op = RevokeMachineFromBrowser(u)
  BY <1>6, InOrder5 DEF RevokeMachineFromBrowser
<1>7. CASE op = ReconcileAgentPresence(u)
  BY <1>7, InOrder4 DEF ReconcileAgentPresence
<1>8. CASE op = SendConversationMessage(u)
  BY <1>8, InOrder2 DEF SendConversationMessage
<1>9. CASE op = RevokeInvitation(u)
  BY <1>9, InOrder2 DEF RevokeInvitation
<1>10. CASE op = ApproveCLILogin(u)
  BY <1>10, InOrder5 DEF ApproveCLILogin
<1>11. CASE op = RevokeCLICredential(u)
  BY <1>11, InOrder2 DEF RevokeCLICredential
<1>12. CASE op = IssueInvitation(u)
  BY <1>12, InOrder3 DEF IssueInvitation
<1> QED BY <1>0, <1>1, <1>2, <1>3, <1>4, <1>5, <1>6, <1>7, <1>8, <1>9, <1>10, <1>11, <1>12

(* So are those of a Host and the polls. *)
LEMMA HostOperationsInOrder ==
    ASSUME NEW op \in HostOperations
    PROVE  InOrder(op, SpaceRank)
<1> USE SpaceLocks DEF Before, Ranked, KeyShare, Share, NoKeyUpdate, Update
<1>1. CASE op = ClaimRun
  <2>1. \A row : LockOK(Lock(row, Update), SpaceRank) =>
          LockOK(SkipLocked(row), SpaceRank) /\ SkipLocked(row).skip
    BY DEF LockOK, RankOf, Lock, SkipLocked
  <2> QED BY <1>1, <2>1, InOrder4 DEF ClaimRun
<1>2. CASE op = RenewRunAttempt
  BY <1>2, InOrder3 DEF RenewRunAttempt
<1>3. CASE op = CommitWorkUnderstanding
  BY <1>3, InOrder4 DEF CommitWorkUnderstanding
<1>4. CASE op = PollMachineConnection
  BY <1>4, InOrder2 DEF PollMachineConnection
<1>5. CASE op = RevokeMachineFromHost
  BY <1>5, InOrder2 DEF RevokeMachineFromHost
<1>6. CASE op = PollCLILogin
  BY <1>6, InOrder2 DEF PollCLILogin
<1> QED BY <1>1, <1>2, <1>3, <1>4, <1>5, <1>6 DEF HostOperations
(* Where the elements of a concatenation are. *)
LEMMA Concatenated ==
    ASSUME NEW S, NEW s \in Seq(S), NEW t \in Seq(S)
    PROVE  /\ s \o t \in Seq(S) /\ Len(s \o t) = Len(s) + Len(t)
           /\ Len(s) \in Nat /\ Len(t) \in Nat
           /\ \A i \in 1 .. Len(s) : (s \o t)[i] = s[i]
           /\ \A i \in 1 .. Len(t) : (s \o t)[Len(s) + i] = t[i]
<1>1. Len(s) \in Nat /\ Len(t) \in Nat /\ s \o t \in Seq(S) /\ Len(s \o t) = Len(s) + Len(t)
  BY ConcatProperties
<1>2. \A i \in 1 .. Len(s) + Len(t) :
        (s \o t)[i] = IF i <= Len(s) THEN s[i] ELSE t[i - Len(s)]
  BY ConcatProperties
<1>3. ASSUME NEW i \in 1 .. Len(t) PROVE (s \o t)[Len(s) + i] = t[i]
  <2>1. Len(s) + i \in 1 .. Len(s) + Len(t) /\ ~ (Len(s) + i <= Len(s)) /\ (Len(s) + i) - Len(s) = i
    BY <1>1
  <2> QED BY <1>2, <2>1
<1>4. ASSUME NEW i \in 1 .. Len(s) PROVE (s \o t)[i] = s[i]
  <2>1. i \in 1 .. Len(s) + Len(t) /\ i <= Len(s)
    BY <1>1
  <2> QED BY <1>2, <2>1
<1> QED BY <1>1, <1>3, <1>4

(* The locks of a removal: the Space, the participants, the Works and the
   Agents. *)
LEMMA RemovalLocks ==
    ASSUME NEW ids \in ParticipantLists
    PROVE  \E n \in 1 .. 3 :
             /\ ids \in [1 .. n -> Users] /\ Len(RemoveSpaceMember(ids)) = n + 3
             /\ RemoveSpaceMember(ids)[1] = Guard
             /\ \A i \in 2 .. n + 1 :
                  RemoveSpaceMember(ids)[i] = Lock(Membership(ids[i - 1]), Update)
             /\ RemoveSpaceMember(ids)[n + 2] = Lock(Work, Update)
             /\ RemoveSpaceMember(ids)[n + 3] = Lock(Agent, Update)
<1>1. PICK n \in 1 .. 3 : ids \in [1 .. n -> Users]
  BY DEF ParticipantLists
<1> DEFINE S == {Lock(Space, NoKeyUpdate), Lock(Work, Update), Lock(Agent, Update)}
                  \cup {Lock(Membership(u), Update) : u \in Users}
           first == <<Lock(Space, NoKeyUpdate)>>
           last == <<Lock(Work, Update), Lock(Agent, Update)>>
           middle == Participants(ids)
<1>2. first \in Seq(S) /\ last \in Seq(S)
  OBVIOUS
<1>3. middle \in [1 .. n -> S] /\ \A i \in 1 .. n : middle[i] = Lock(Membership(ids[i]), Update)
  BY <1>1 DEF Participants
<1>4. middle \in Seq(S) /\ Len(middle) = n
  <2> HIDE DEF S, middle
  <2> QED BY <1>3
<1>5. Len(first) = 1 /\ first[1] = Guard
  BY DEF Guard
<1>6. Len(last) = 2 /\ last[1] = Lock(Work, Update) /\ last[2] = Lock(Agent, Update)
  OBVIOUS
<1>7. RemoveSpaceMember(ids) = (first \o middle) \o last
  BY DEF RemoveSpaceMember
<1> HIDE DEF S, first, middle, last
<1>8. /\ first \o middle \in Seq(S) /\ Len(first \o middle) = n + 1
      /\ (first \o middle)[1] = Guard
      /\ \A i \in 1 .. n : (first \o middle)[1 + i] = middle[i]
  <2>1. /\ first \o middle \in Seq(S) /\ Len(first \o middle) = Len(first) + Len(middle)
        /\ \A i \in 1 .. Len(first) : (first \o middle)[i] = first[i]
        /\ \A i \in 1 .. Len(middle) : (first \o middle)[Len(first) + i] = middle[i]
    BY <1>2, <1>4, Concatenated
  <2> QED BY <1>4, <1>5, <2>1
<1>9. \A i \in 2 .. n + 1 : (first \o middle)[i] = Lock(Membership(ids[i - 1]), Update)
  <2> TAKE i \in 2 .. n + 1
  <2>1. i - 1 \in 1 .. n /\ 1 + (i - 1) = i
    OBVIOUS
  <2>2. (first \o middle)[1 + (i - 1)] = middle[i - 1]
    BY <1>8, <2>1
  <2> QED BY <1>3, <2>1, <2>2
<1> DEFINE front == first \o middle
           op == front \o last
<1>10. front \in Seq(S) /\ Len(front) = n + 1
  BY <1>8
<1> HIDE DEF front
<1>11. /\ Len(op) = Len(front) + Len(last)
       /\ \A i \in 1 .. Len(front) : op[i] = front[i]
       /\ \A i \in 1 .. Len(last) : op[Len(front) + i] = last[i]
  BY <1>2, <1>10, Concatenated
<1>12. RemoveSpaceMember(ids) = op
  BY <1>7 DEF front
<1> HIDE DEF op
<1>13. Len(op) = n + 3 /\ \A i \in 1 .. n + 1 : op[i] = front[i]
  BY <1>6, <1>10, <1>11
<1>14. op[n + 2] = Lock(Work, Update) /\ op[n + 3] = Lock(Agent, Update)
  <2>1. op[Len(front) + 1] = last[1] /\ op[Len(front) + 2] = last[2]
    BY <1>6, <1>11
  <2>2. Len(front) + 1 = n + 2 /\ Len(front) + 2 = n + 3
    BY <1>10
  <2> QED BY <1>6, <2>1, <2>2
<1>15. op[1] = Guard /\ \A i \in 2 .. n + 1 : op[i] = Lock(Membership(ids[i - 1]), Update)
  <2>1. front[1] = Guard /\ \A i \in 2 .. n + 1 : front[i] = Lock(Membership(ids[i - 1]), Update)
    BY <1>8, <1>9 DEF front
  <2> QED BY <1>13, <2>1
<1> QED BY <1>1, <1>12, <1>13, <1>14, <1>15

(* A removal is in order but for its participants, whom it locks under the
   Guard. *)
LEMMA RemovalInOrder ==
    ASSUME NEW ids \in ParticipantLists
    PROVE  InOrder(RemoveSpaceMember(ids), SpaceRank)
<1> DEFINE op == RemoveSpaceMember(ids)
<1>1. PICK n \in 1 .. 3 :
        /\ ids \in [1 .. n -> Users] /\ Len(op) = n + 3 /\ op[1] = Guard
        /\ \A i \in 2 .. n + 1 : op[i] = Lock(Membership(ids[i - 1]), Update)
        /\ op[n + 2] = Lock(Work, Update) /\ op[n + 3] = Lock(Agent, Update)
  BY RemovalLocks
<1> HIDE DEF op
<1>2. LockOK(op[1], SpaceRank) /\ RankOf(op[1], SpaceRank) = 3
  BY <1>1, SpaceLocks DEF Guard, NoKeyUpdate
<1>3. ASSUME NEW i \in 2 .. n + 1
      PROVE  LockOK(op[i], SpaceRank) /\ RankOf(op[i], SpaceRank) = 4
  BY <1>1, SpaceLocks DEF Ranked, Update
<1>4. /\ LockOK(op[n + 2], SpaceRank) /\ RankOf(op[n + 2], SpaceRank) = 7
      /\ LockOK(op[n + 3], SpaceRank) /\ RankOf(op[n + 3], SpaceRank) = 9
  BY <1>1, SpaceLocks DEF Ranked, Update
<1>5. \A i \in 1 .. Len(op) : i = 1 \/ i \in 2 .. n + 1 \/ i = n + 2 \/ i = n + 3
  BY <1>1
<1>6. ASSUME NEW i \in 1 .. Len(op), NEW j \in 1 .. Len(op), i < j
      PROVE  \/ RankOf(op[i], SpaceRank) < RankOf(op[j], SpaceRank)
             \/ RankOf(op[i], SpaceRank) = RankOf(op[j], SpaceRank)
  BY <1>1, <1>2, <1>3, <1>4, <1>5, <1>6
<1>7. Len(op) \in Nat /\ \A i \in 1 .. Len(op) : LockOK(op[i], SpaceRank)
  BY <1>1, <1>2, <1>3, <1>4, <1>5
<1>8. InOrder(op, SpaceRank)
  BY <1>1, <1>6, <1>7 DEF InOrder, Before
<1> QED BY <1>8 DEF op
-----------------------------------------------------------------------------
(* Among the operations of a Space, only those of replies and of acceptances
   are out of order. *)

(* Every operation but those two kinds is in order. *)
LEMMA OthersInOrder ==
    ASSUME NEW op \in Operations, op \notin ReplyOperations \cup AcceptOperations
    PROVE  InOrder(op, SpaceRank)
  BY RemovalInOrder, MemberOperationsInOrder, HostOperationsInOrder DEF Operations

(* Replies and acceptances are sequences of locks, too. *)
LEMMA RepliesAreLockLists ==
    ASSUME NEW op \in ReplyOperations \cup AcceptOperations
    PROVE  Len(op) \in Nat /\ \A n \in 1 .. Len(op) : op[n].mode \in 1 .. 4
<1> USE DEF Lock, SkipLocked, Share, Update
<1>1. CASE op \in AcceptOperations
  BY <1>1 DEF AcceptOperations, AcceptInvitation
<1>2. CASE op \in ReplyOperations
  <2>1. PICK u \in Users : op \in {ClaimConversationReply(u), RenewConversationReply(u),
                                   CommitConversationReply(u)}
    BY <1>2 DEF ReplyOperations
  <2>2. CASE op = ClaimConversationReply(u)
    BY <2>2 DEF ClaimConversationReply
  <2>3. CASE op = RenewConversationReply(u)
    BY <2>3 DEF RenewConversationReply
  <2>4. CASE op = CommitConversationReply(u)
    BY <2>4 DEF CommitConversationReply
  <2> QED BY <2>1, <2>2, <2>3, <2>4
<1> QED BY <1>1, <1>2

(* So all operations are. *)
LEMMA OperationsAreLockLists == LockLists(Operations)
  BY OthersInOrder, RepliesAreLockLists, NoOperationAssumption DEF LockLists, InOrder, LockOK

(* Locks are granted one by one and never against another's, for any number of
   Users and transactions (RemoveSpaceMember, ClaimRun, CommitWorkUnderstanding
   and the other transactions of a Space). *)
THEOREM LocksAreExclusive == Spec => []LockInv(Operations)
<1>1. Init => LockInv(Operations)
  BY InitLockInv
<1>2. LockInv(Operations) /\ [Next]_vars => LockInv(Operations)'
  BY StepLockInv, OperationsAreLockLists DEF Next
<1> QED BY <1>1, <1>2, PTL DEF Spec

(* Removal, revocation, reports, claims, commits and the requests of members
   never deadlock among themselves, whatever their number: every deadlock has
   a private reply or the acceptance of an invitation in it. *)
THEOREM OnlyRepliesAndAcceptancesCanDeadlock == Spec => []OnlyRepliesAndAcceptancesDeadlock
<1>1. LockInv(Operations) => OnlyRepliesAndAcceptancesDeadlock
  <2> SUFFICES ASSUME LockInv(Operations), NEW ts \in SUBSET Transactions, Deadlocked(ts),
                      \A t \in ts : operation[t] \notin ReplyOperations \cup AcceptOperations
               PROVE  FALSE
    BY DEF OnlyRepliesAndAcceptancesDeadlock
  <2>1. \A t \in ts : operation[t] \in Operations
    BY DEF Deadlocked, WaitsFor, Running, LockInv, LocksTypeOK
  <2>2. OrderedDeadlock(Operations, SpaceRank, ts)
    BY <2>1, OthersInOrder DEF OrderedDeadlock
  <2> QED BY <2>2, InOrderNoDeadlock
<1> QED BY <1>1, LocksAreExclusive, PTL

-----------------------------------------------------------------------------
(* The two orders of the login methods' rows. *)

MethodKinds == {"external login admission", "external login source", "external transaction",
                "challenge", "email key", "account key", "email identity", "account identity",
                "user", "session", "invitation", "membership"}
MethodRank == [kind \in MethodKinds |->
    CASE kind = "external login admission" -> 0
      [] kind = "external login source" -> 1
      [] kind = "external transaction" -> 2
      [] kind = "challenge" -> 2
      [] kind = "email key" -> 3
      [] kind = "account key" -> 3
      [] kind = "email identity" -> 4
      [] kind = "account identity" -> 4
      [] kind = "user" -> 5
      [] kind = "session" -> 6
      [] kind = "invitation" -> 7
      [] OTHER -> 8]

(* The numbers, one by one. *)
LEMMA MethodRanks ==
    /\ MethodRank["external login admission"] = 0
    /\ MethodRank["external login source"] = 1
    /\ MethodRank["external transaction"] = 2
    /\ MethodRank["challenge"] = 2
    /\ MethodRank["email key"] = 3
    /\ MethodRank["account key"] = 3
    /\ MethodRank["email identity"] = 4
    /\ MethodRank["account identity"] = 4
    /\ MethodRank["user"] = 5
    /\ MethodRank["session"] = 6
    /\ MethodRank["invitation"] = 7
    /\ MethodRank["membership"] = 8
  BY DEF MethodRank, MethodKinds

(* The same of the rows. *)
LEMMA MethodLocks ==
    ASSUME NEW e, NEW a, NEW u
    PROVE  /\ Ranked(Admission, MethodRank, 0)
           /\ Ranked(ExternalSource, MethodRank, 1)
           /\ Ranked(ExternalTransaction(a), MethodRank, 2)
           /\ Ranked(Challenge(e), MethodRank, 2)
           /\ Ranked(EmailKey(e), MethodRank, 3)
           /\ Ranked(AccountKey(a), MethodRank, 3)
           /\ Ranked(EmailIdentity(e), MethodRank, 4)
           /\ Ranked(AccountIdentity(a), MethodRank, 4)
           /\ Ranked(User(u), MethodRank, 5)
           /\ Ranked(Session(u), MethodRank, 6)
           /\ Ranked(Invitation, MethodRank, 7)
           /\ Ranked(Membership(u), MethodRank, 8)
<1>1. Ranked(Admission, MethodRank, 0)
  <2>1. Admission # Space /\ MethodRank[Admission[1]] = 0
    BY MethodRanks DEF Admission, Space
  <2> QED BY <2>1, RowRank DEF Ranked
<1>2. Ranked(ExternalTransaction(a), MethodRank, 2)
  <2>1. ExternalTransaction(a) # Space /\ MethodRank[ExternalTransaction(a)[1]] = 2
    BY MethodRanks DEF ExternalTransaction, Space
  <2> QED BY <2>1, RowRank DEF Ranked
<1>3. Ranked(Challenge(e), MethodRank, 2)
  <2>1. Challenge(e) # Space /\ MethodRank[Challenge(e)[1]] = 2
    BY MethodRanks DEF Challenge, Space
  <2> QED BY <2>1, RowRank DEF Ranked
<1>4. Ranked(EmailKey(e), MethodRank, 3)
  <2>1. EmailKey(e) # Space /\ MethodRank[EmailKey(e)[1]] = 3
    BY MethodRanks DEF EmailKey, Space
  <2> QED BY <2>1, RowRank DEF Ranked
<1>5. Ranked(AccountKey(a), MethodRank, 3)
  <2>1. AccountKey(a) # Space /\ MethodRank[AccountKey(a)[1]] = 3
    BY MethodRanks DEF AccountKey, Space
  <2> QED BY <2>1, RowRank DEF Ranked
<1>6. Ranked(EmailIdentity(e), MethodRank, 4)
  <2>1. EmailIdentity(e) # Space /\ MethodRank[EmailIdentity(e)[1]] = 4
    BY MethodRanks DEF EmailIdentity, Space
  <2> QED BY <2>1, RowRank DEF Ranked
<1>7. Ranked(AccountIdentity(a), MethodRank, 4)
  <2>1. AccountIdentity(a) # Space /\ MethodRank[AccountIdentity(a)[1]] = 4
    BY MethodRanks DEF AccountIdentity, Space
  <2> QED BY <2>1, RowRank DEF Ranked
<1>8. Ranked(User(u), MethodRank, 5)
  <2>1. User(u) # Space /\ MethodRank[User(u)[1]] = 5
    BY MethodRanks DEF User, Space
  <2> QED BY <2>1, RowRank DEF Ranked
<1>9. Ranked(Session(u), MethodRank, 6)
  <2>1. Session(u) # Space /\ MethodRank[Session(u)[1]] = 6
    BY MethodRanks DEF Session, Space
  <2> QED BY <2>1, RowRank DEF Ranked
<1>10. Ranked(Invitation, MethodRank, 7)
  <2>1. Invitation # Space /\ MethodRank[Invitation[1]] = 7
    BY MethodRanks DEF Invitation, Space
  <2> QED BY <2>1, RowRank DEF Ranked
<1>11. Ranked(Membership(u), MethodRank, 8)
  <2>1. Membership(u) # Space /\ MethodRank[Membership(u)[1]] = 8
    BY MethodRanks DEF Membership, Space
  <2> QED BY <2>1, RowRank DEF Ranked
<1>12. Ranked(ExternalSource, MethodRank, 1)
  <2>1. ExternalSource # Space /\ MethodRank[ExternalSource[1]] = 1
    BY MethodRanks DEF ExternalSource, Space
  <2> QED BY <2>1, RowRank DEF Ranked
<1> QED BY <1>1, <1>2, <1>3, <1>4, <1>5, <1>6, <1>7, <1>8, <1>9, <1>10, <1>11, <1>12

NewCodeKinds == {"user", "session", "email request key", "email key", "email source", "challenge"}
NewCodeRank == [kind \in NewCodeKinds |->
    CASE kind = "user" -> 1
      [] kind = "session" -> 2
      [] kind = "email request key" -> 3
      [] kind = "email key" -> 4
      [] kind = "email source" -> 5
      [] OTHER -> 6]

(* The numbers of the order in which a code is prepared. *)
LEMMA NewCodeRanks ==
    /\ NewCodeRank["user"] = 1
    /\ NewCodeRank["session"] = 2
    /\ NewCodeRank["email request key"] = 3
    /\ NewCodeRank["email key"] = 4
    /\ NewCodeRank["email source"] = 5
    /\ NewCodeRank["challenge"] = 6
  BY DEF NewCodeRank, NewCodeKinds

(* The same of the rows. *)
LEMMA NewCodeLocks ==
    ASSUME NEW e, NEW u
    PROVE  /\ Ranked(User(u), NewCodeRank, 1)
           /\ Ranked(Session(u), NewCodeRank, 2)
           /\ Ranked(RequestKey, NewCodeRank, 3)
           /\ Ranked(EmailKey(e), NewCodeRank, 4)
           /\ Ranked(EmailSource, NewCodeRank, 5)
           /\ Ranked(Challenge(e), NewCodeRank, 6)
<1>1. Ranked(User(u), NewCodeRank, 1)
  <2>1. User(u) # Space /\ NewCodeRank[User(u)[1]] = 1
    BY NewCodeRanks DEF User, Space
  <2> QED BY <2>1, RowRank DEF Ranked
<1>2. Ranked(Session(u), NewCodeRank, 2)
  <2>1. Session(u) # Space /\ NewCodeRank[Session(u)[1]] = 2
    BY NewCodeRanks DEF Session, Space
  <2> QED BY <2>1, RowRank DEF Ranked
<1>3. Ranked(RequestKey, NewCodeRank, 3)
  <2>1. RequestKey # Space /\ NewCodeRank[RequestKey[1]] = 3
    BY NewCodeRanks DEF RequestKey, Space
  <2> QED BY <2>1, RowRank DEF Ranked
<1>4. Ranked(EmailKey(e), NewCodeRank, 4)
  <2>1. EmailKey(e) # Space /\ NewCodeRank[EmailKey(e)[1]] = 4
    BY NewCodeRanks DEF EmailKey, Space
  <2> QED BY <2>1, RowRank DEF Ranked
<1>5. Ranked(EmailSource, NewCodeRank, 5)
  <2>1. EmailSource # Space /\ NewCodeRank[EmailSource[1]] = 5
    BY NewCodeRanks DEF EmailSource, Space
  <2> QED BY <2>1, RowRank DEF Ranked
<1>6. Ranked(Challenge(e), NewCodeRank, 6)
  <2>1. Challenge(e) # Space /\ NewCodeRank[Challenge(e)[1]] = 6
    BY NewCodeRanks DEF Challenge, Space
  <2> QED BY <2>1, RowRank DEF Ranked
<1> QED BY <1>1, <1>2, <1>3, <1>4, <1>5, <1>6

(* Operations that start from a method, an external login or a User are in the
   first order. *)
LEMMA MethodOperationsInOrder ==
    ASSUME NEW op \in MethodOperations \cup UserOperations
    PROVE  InOrder(op, MethodRank)
<1>0. op \in MethodOperations =>
        \/ \E e \in Emails, u \in Users :
             op \in {VerifyEmailChallenge(e, u), UnlinkEmail(e, u), AcceptInvitationOf(e, u)}
        \/ \E a \in Accounts, u \in Users :
             op \in {CompleteExternalLogin(a, u), UnlinkAccount(a, u)}
        \/ \E a \in Accounts : op = CreateExternalLogin(a)
  BY DEF MethodOperations
<1> USE MethodLocks DEF Before, Ranked, KeyShare, NoKeyUpdate, Update
<1>1. ASSUME NEW e \in Emails, NEW u \in Users, op = VerifyEmailChallenge(e, u)
      PROVE  InOrder(op, MethodRank)
  BY <1>1, InOrder5 DEF VerifyEmailChallenge
<1>2. ASSUME NEW e \in Emails, NEW u \in Users, op = UnlinkEmail(e, u)
      PROVE  InOrder(op, MethodRank)
  BY <1>2, InOrder4 DEF UnlinkEmail
<1>3. ASSUME NEW e \in Emails, NEW u \in Users, op = AcceptInvitationOf(e, u)
      PROVE  InOrder(op, MethodRank)
  BY <1>3, InOrder5 DEF AcceptInvitationOf
<1>4. ASSUME NEW a \in Accounts, NEW u \in Users, op = CompleteExternalLogin(a, u)
      PROVE  InOrder(op, MethodRank)
  BY <1>4, InOrder5 DEF CompleteExternalLogin
<1>5. ASSUME NEW a \in Accounts, NEW u \in Users, op = UnlinkAccount(a, u)
      PROVE  InOrder(op, MethodRank)
  BY <1>5, InOrder4 DEF UnlinkAccount
<1>6. ASSUME NEW a \in Accounts, op = CreateExternalLogin(a)
      PROVE  InOrder(op, MethodRank)
  BY <1>6, InOrder4 DEF CreateExternalLogin
<1>7. ASSUME NEW u \in Users, op = CreateExternalIdentityProof(u)
      PROVE  InOrder(op, MethodRank)
  BY <1>7, InOrder2 DEF CreateExternalIdentityProof
<1>8. ASSUME NEW u \in Users, op = RevokeBrowserSession(u)
      PROVE  InOrder(op, MethodRank)
  BY <1>8, InOrder1 DEF RevokeBrowserSession
<1>9. ASSUME NEW u \in Users, op = CreateSpace(u)
      PROVE  InOrder(op, MethodRank)
  BY <1>9, InOrder1 DEF CreateSpace
<1>10. CASE op \in MethodOperations
  BY <1>10, <1>0, <1>1, <1>2, <1>3, <1>4, <1>5, <1>6
<1>11. CASE op \in UserOperations
  BY <1>11, <1>7, <1>8, <1>9 DEF UserOperations
<1> QED BY <1>10, <1>11

(* A concatenation of two and four elements. *)
LEMMA TwoAndFour ==
    ASSUME NEW a, NEW b, NEW c, NEW d, NEW e, NEW f
    PROVE  <<a, b>> \o <<c, d, e, f>> = <<a, b, c, d, e, f>>
<1> DEFINE S == {a, b, c, d, e, f}
           s == <<a, b>>
           t == <<c, d, e, f>>
           whole == <<a, b, c, d, e, f>>
           joined == s \o t
<1>1. s \in Seq(S) /\ t \in Seq(S) /\ whole \in Seq(S)
  OBVIOUS
<1>2. /\ Len(s) = 2 /\ s[1] = a /\ s[2] = b
      /\ Len(t) = 4 /\ t[1] = c /\ t[2] = d /\ t[3] = e /\ t[4] = f
  OBVIOUS
<1>3. /\ Len(whole) = 6 /\ whole[1] = a /\ whole[2] = b
      /\ whole[3] = c /\ whole[4] = d /\ whole[5] = e /\ whole[6] = f
  OBVIOUS
<1> HIDE DEF S, s, t, whole
<1>4. /\ joined \in Seq(S) /\ Len(joined) = Len(s) + Len(t)
      /\ \A i \in 1 .. Len(s) : joined[i] = s[i]
      /\ \A i \in 1 .. Len(t) : joined[Len(s) + i] = t[i]
  BY <1>1, Concatenated
<1> HIDE DEF joined
<1>5. Len(joined) = 6 /\ joined[1] = a /\ joined[2] = b
  BY <1>2, <1>4
<1>6. joined[3] = c /\ joined[4] = d /\ joined[5] = e /\ joined[6] = f
  <2>1. \A i \in 1 .. 4 : joined[2 + i] = t[i]
    BY <1>2, <1>4
  <2>2. joined[2 + 1] = t[1] /\ joined[2 + 2] = t[2] /\ joined[2 + 3] = t[3] /\ joined[2 + 4] = t[4]
    BY <2>1
  <2> QED BY <1>2, <2>2
<1>7. \A i \in 1 .. 6 : joined[i] = whole[i]
  <2> TAKE i \in 1 .. 6
  <2>1. i = 1 \/ i = 2 \/ i = 3 \/ i = 4 \/ i = 5 \/ i = 6
    OBVIOUS
  <2> QED BY <1>3, <1>5, <1>6, <2>1
<1>8. joined = whole
  BY <1>1, <1>3, <1>4, <1>5, <1>7, SeqEqual
<1> QED BY <1>8 DEF s, t, whole, joined

(* Codes are prepared in the second. *)
LEMMA NewCodeOperationsInOrder ==
    ASSUME NEW op \in NewCodeOperations
    PROVE  InOrder(op, NewCodeRank)
<1> USE NewCodeLocks DEF Before, Ranked, NoKeyUpdate, Update
<1>1. ASSUME NEW e \in Emails, op = PrepareEmailLogin(e)
      PROVE  InOrder(op, NewCodeRank)
  BY <1>1, InOrder4 DEF PrepareEmailLogin
<1>2. ASSUME NEW e \in Emails, NEW u \in Users, op = PrepareEmailProof(e, u)
      PROVE  InOrder(op, NewCodeRank)
  <2>1. op = <<Lock(User(u), Update), Lock(Session(u), Update), Lock(RequestKey, Update),
               Lock(EmailKey(e), Update), Lock(EmailSource, Update),
               Lock(Challenge(e), NoKeyUpdate)>>
    BY <1>2, TwoAndFour DEF PrepareEmailProof, PrepareEmailLogin
  <2> QED BY <2>1, InOrder6
<1> QED BY <1>1, <1>2 DEF NewCodeOperations

-----------------------------------------------------------------------------
(* The operations on login methods are sequences of locks. *)
LEMMA IdentityOperationsAreLockLists == LockLists(IdentityOperations)
  BY MethodOperationsInOrder, NewCodeOperationsInOrder, NoIdentityOperationAssumption
  DEF IdentityOperations, LockLists, InOrder, LockOK

(* Logins, links, unlinks, renewed proofs, acceptances and the end of Sessions
   never deadlock among themselves, and neither do requests for codes, for any
   number of Users, addresses and accounts: a deadlock has one of each (the
   orders of PrepareEmailChallenge and of VerifyEmailChallenge). *)
THEOREM OnlyNewCodesCanDeadlock == IdentitySpec => []OnlyNewCodesDeadlock
<1>1. Init => LockInv(IdentityOperations)
  BY InitLockInv
<1>2. LockInv(IdentityOperations) /\ [IdentityNext]_vars => LockInv(IdentityOperations)'
  BY StepLockInv, IdentityOperationsAreLockLists DEF IdentityNext
<1>3. LockInv(IdentityOperations) => OnlyNewCodesDeadlock
  <2> SUFFICES ASSUME LockInv(IdentityOperations),
                      NEW ts \in SUBSET Transactions, Deadlocked(ts),
                      \/ \A t \in ts : operation[t] \notin NewCodeOperations
                      \/ \A t \in ts : operation[t] \in NewCodeOperations
               PROVE  FALSE
    BY DEF OnlyNewCodesDeadlock
  <2>1. \A t \in ts : operation[t] \in IdentityOperations
    BY DEF Deadlocked, WaitsFor, Running, LockInv, LocksTypeOK
  <2>2. CASE \A t \in ts : operation[t] \notin NewCodeOperations
    <3>1. OrderedDeadlock(IdentityOperations, MethodRank, ts)
      BY <2>1, <2>2, MethodOperationsInOrder DEF OrderedDeadlock, IdentityOperations
    <3> QED BY <3>1, InOrderNoDeadlock
  <2>3. CASE \A t \in ts : operation[t] \in NewCodeOperations
    <3>1. OrderedDeadlock(IdentityOperations, NewCodeRank, ts)
      BY <2>1, <2>3, NewCodeOperationsInOrder DEF OrderedDeadlock
    <3> QED BY <3>1, InOrderNoDeadlock
  <2> QED BY <2>2, <2>3
<1> QED BY <1>1, <1>2, <1>3, PTL DEF IdentitySpec
=============================================================================
