---------------------------- MODULE WorkRunProofs ----------------------------
(***************************************************************************)
(* Theorems about WorkRun, for every set of members, Machines and           *)
(* identifiers, every limit and every lease length; and, in the last part,  *)
(* about HostWorker, for any number of faults.  Whatever the Hosts and the  *)
(* network do, the tables see only transactions of WorkRun, so its theorems *)
(* hold with the Hosts; on top of them, authority stays where the Hosts     *)
(* believe it is.                                                           *)
(***************************************************************************)
EXTENDS HostWorker, TLAPS

(* INSERT keeps a table a table: the new row under its fresh identifier and
   every other row as it was. *)
LEMMA InsertRow ==
    ASSUME NEW S, NEW table, NEW Ids, NEW id \in Ids, NEW row \in S,
           DOMAIN table \subseteq Ids, table \in [DOMAIN table -> S]
    PROVE  /\ DOMAIN Insert(table, id, row) = DOMAIN table \cup {id}
           /\ DOMAIN Insert(table, id, row) \subseteq Ids
           /\ Insert(table, id, row) \in [DOMAIN Insert(table, id, row) -> S]
           /\ Insert(table, id, row)[id] = row
           /\ \A x \in DOMAIN table : x # id => Insert(table, id, row)[x] = table[x]
  BY DEF Insert

(* The empty tables are well formed. *)
LEMMA InitTypeOK == Init => TypeOK
  BY WorkRunAssumption, MembersAssumption
  DEF Init, MembersInit, TypeOK, MembersTypeOK, Membership, Authorities, EmptyTable

(* A member's transaction writes well-formed rows. *)
LEMMA MemberStepTypeOK ==
    ASSUME TypeOK, NEW u \in Users, NEW k \in Keys,
           \/ \E w \in WorkIds : CreateWork(u, w, k)
           \/ \E w \in WorkIds, size \in Sizes : AppendWorkMessage(u, w, k, size)
           \/ \E c \in checks : AcceptWorkReview(u, c, k)
           \/ \E w \in WorkIds : RequestWorkRetry(u, w, k)
           \/ \E target \in Users, successor \in Users \cup {NoUser} :
                  RemoveSpaceMember(u, target, successor, k)
    PROVE  TypeOK'
<1> USE MembersAssumption, WorkRunAssumption
<1>1. ASSUME NEW w \in WorkIds, CreateWork(u, w, k) PROVE TypeOK'
  <2> DEFINE row == [owner |-> u, creator |-> u, key |-> k, head |-> 1,
                     applied |-> 0, version |-> 0, content |-> NoAttempt]
  <2>1. row \in Work
    BY DEF Work
  <2>2. works' = Insert(works, w, row)
    BY <1>1 DEF CreateWork
  <2>3. DOMAIN works' \subseteq WorkIds /\ works' \in [DOMAIN works' -> Work]
    BY <2>1, <2>2 DEF TypeOK, Insert
  <2> QED BY <1>1, <2>3 DEF TypeOK, MembersTypeOK, CreateWork
<1>2. ASSUME NEW w \in WorkIds, NEW size \in Sizes, AppendWorkMessage(u, w, k, size)
      PROVE  TypeOK'
  <2>1. DOMAIN works' = DOMAIN works /\ works' \in [DOMAIN works -> Work]
    BY <1>2 DEF TypeOK, AppendWorkMessage, Work
  <2>2. messages' \subseteq Message
    BY <1>2 DEF TypeOK, AppendWorkMessage, NewMessage, Message, Work
  <2> QED BY <1>2, <2>1, <2>2 DEF TypeOK, MembersTypeOK, AppendWorkMessage
<1>3. ASSUME NEW c \in checks, AcceptWorkReview(u, c, k) PROVE TypeOK'
  <2>1. checks' \subseteq Check
    BY <1>3 DEF TypeOK, AcceptWorkReview, Check
  <2> QED BY <1>3, <2>1 DEF TypeOK, MembersTypeOK, AcceptWorkReview
<1>4. ASSUME NEW w \in WorkIds, RequestWorkRetry(u, w, k) PROVE TypeOK'
  <2>1. PICK r \in DOMAIN runs :
             runs' = [runs EXCEPT ![r] = [@ EXCEPT !.retryBy = u, !.retryKey = k]]
    BY <1>4 DEF RequestWorkRetry, RunsOf
  <2>2. [runs[r] EXCEPT !.retryBy = u, !.retryKey = k] \in Run
    BY DEF TypeOK, Run
  <2>3. DOMAIN runs' = DOMAIN runs /\ runs' \in [DOMAIN runs -> Run]
    BY <2>1, <2>2 DEF TypeOK
  <2> QED BY <1>4, <2>3 DEF TypeOK, MembersTypeOK, RequestWorkRetry
<1>5. ASSUME NEW target \in Users, NEW successor \in Users \cup {NoUser},
             RemoveSpaceMember(u, target, successor, k)
      PROVE  TypeOK'
  <2> DEFINE row == [members[target] EXCEPT !.state = "revoked", !.removedBy = u,
                               !.successor = successor, !.removalKey = k]
  <2>0. row \in Membership
    <3>1. members[target] \in Membership
      BY DEF TypeOK, MembersTypeOK
    <3> QED BY <3>1 DEF Membership
  <2>6. members' = [members EXCEPT ![target] = row]
    BY <1>5 DEF RemoveSpaceMember, RemoveMembership
  <2> HIDE DEF row
  <2>1. MembersTypeOK'
    BY <2>0, <2>6 DEF TypeOK, MembersTypeOK
  <2>2. DOMAIN works' = DOMAIN works
    BY <1>5 DEF RemoveSpaceMember, TransferredWorks
  <2>3. ASSUME NEW w \in DOMAIN works PROVE works'[w] \in Work
    <3>1. works[w] \in Work
      BY DEF TypeOK
    <3>2. works[w].owner = target => successor \in Users
      BY <1>5 DEF RemoveSpaceMember, RemoveMembership
    <3>3. works'[w] = IF works[w].owner = target
                      THEN [works[w] EXCEPT !.owner = successor] ELSE works[w]
      BY <1>5 DEF RemoveSpaceMember, TransferredWorks
    <3> QED BY <3>1, <3>2, <3>3 DEF Work
  <2>4. works' \in [DOMAIN works -> Work]
    BY <1>5, <2>3 DEF RemoveSpaceMember, TransferredWorks
  <2> QED BY <1>5, <2>1, <2>2, <2>4 DEF TypeOK, RemoveSpaceMember
<1> QED BY <1>1, <1>2, <1>3, <1>4, <1>5

(* A Machine's transaction, or its revocation, writes well-formed rows. *)
LEMMA MachineStepTypeOK ==
    ASSUME TypeOK, RunRangesExist, MachineStep PROVE TypeOK'
<1> USE MembersAssumption, WorkRunAssumption
<1>1. ASSUME NEW m \in Machines, NEW old \in DOMAIN attempts, NEW a \in AttemptIds,
             RecoverRun(m, old, a)
      PROVE  TypeOK'
  <2> DEFINE r == attempts[old].run
             expired == [attempts EXCEPT ![old].state = "expired"]
             row == NewAttempt(r, m, runs[r].fence + 1)
  <2>1. r \in DOMAIN runs /\ r \in RunIds /\ runs[r] \in Run
    BY <1>1 DEF TypeOK, RecoverRun
  <2>2. row \in Attempt
    BY <2>1 DEF NewAttempt, Attempt, Run
  <2>3. expired \in [DOMAIN attempts -> Attempt]
    BY DEF TypeOK, Attempt
  <2>4. attempts' = Insert(expired, a, row)
    BY <1>1 DEF RecoverRun
  <2>5. DOMAIN attempts' \subseteq AttemptIds /\ attempts' \in [DOMAIN attempts' -> Attempt]
    BY <2>2, <2>3, <2>4 DEF TypeOK, Insert
  <2>6. DOMAIN runs' = DOMAIN runs /\ runs' \in [DOMAIN runs -> Run]
    BY <1>1, <2>1 DEF TypeOK, RecoverRun, HandedOver, Run
  <2> QED BY <1>1, <2>5, <2>6 DEF TypeOK, MembersTypeOK, RecoverRun
<1>2. ASSUME NEW m \in Machines, NEW w \in DOMAIN works, NEW r \in RunIds,
             NEW a \in AttemptIds, CreateRun(m, w, r, a)
      PROVE  TypeOK'
  <2>1. works[w] \in Work /\ w \in WorkIds
    BY DEF TypeOK
  <2>2. PICK end \in (works[w].applied + 1) .. works[w].head :
             runs' = Insert(runs, r,
                       [work |-> w, state |-> "active",
                        start |-> works[w].applied + 1, end |-> end,
                        base |-> works[w].version, fence |-> 1,
                        retryBy |-> NoUser, retryKey |-> NoKey])
    BY <1>2 DEF CreateRun
  <2>3. [work |-> w, state |-> "active", start |-> works[w].applied + 1,
         end |-> end, base |-> works[w].version, fence |-> 1,
         retryBy |-> NoUser, retryKey |-> NoKey] \in Run
    BY <2>1, <2>2 DEF Work, Run
  <2>4. DOMAIN runs' \subseteq RunIds /\ runs' \in [DOMAIN runs' -> Run]
    BY <2>2, <2>3 DEF TypeOK, Insert
  <2>5. NewAttempt(r, m, 1) \in Attempt
    BY DEF NewAttempt, Attempt
  <2>6. attempts' = Insert(attempts, a, NewAttempt(r, m, 1))
    BY <1>2 DEF CreateRun
  <2>7. DOMAIN attempts' \subseteq AttemptIds /\ attempts' \in [DOMAIN attempts' -> Attempt]
    BY <2>5, <2>6 DEF TypeOK, Insert
  <2> QED BY <1>2, <2>4, <2>7 DEF TypeOK, MembersTypeOK, CreateRun
<1>3. ASSUME NEW a \in DOMAIN attempts, RenewRunAttempt(a) PROVE TypeOK'
  <2>1. DOMAIN attempts' = DOMAIN attempts /\ attempts' \in [DOMAIN attempts -> Attempt]
    BY <1>3 DEF TypeOK, RenewRunAttempt, Attempt
  <2> QED BY <1>3, <2>1 DEF TypeOK, MembersTypeOK, RenewRunAttempt
<1>4. ASSUME NEW a \in DOMAIN attempts, NEW review \in BOOLEAN,
             CommitWorkUnderstanding(a, review)
      PROVE  TypeOK'
  <2> DEFINE r == attempts[a].run
             w == runs[r].work
  <2>1. r \in DOMAIN runs /\ runs[r] \in Run /\ a \in AttemptIds
    BY <1>4 DEF TypeOK, CommitWorkUnderstanding, HoldsRun
  <2>6. w \in DOMAIN works
    BY <2>1 DEF RunRangesExist
  <2>2. DOMAIN works' = DOMAIN works /\ works' \in [DOMAIN works -> Work]
    <3>1. works' = [works EXCEPT ![w] = WorkAfterCommit(w, r, a)]
      BY <1>4 DEF CommitWorkUnderstanding
    <3>2. WorkAfterCommit(w, r, a) \in Work
      <4>1. works[w] \in Work /\ works[w].version + 1 \in Nat
        BY <2>6 DEF TypeOK, Work
      <4>2. runs[r].end \in Nat
        BY <2>1 DEF Run
      <4>3. a \in AttemptIds \cup {NoAttempt}
        BY <2>1
      <4> HIDE DEF w, r
      <4> QED BY <4>1, <4>2, <4>3 DEF Work, WorkAfterCommit
    <3> QED BY <3>1, <3>2 DEF TypeOK
  <2>3. DOMAIN runs' = DOMAIN runs /\ runs' \in [DOMAIN runs -> Run]
    BY <1>4, <2>1 DEF TypeOK, CommitWorkUnderstanding, Run
  <2>4. DOMAIN attempts' = DOMAIN attempts /\ attempts' \in [DOMAIN attempts -> Attempt]
    BY <1>4 DEF TypeOK, CommitWorkUnderstanding, Attempt
  <2>5. checks' \subseteq Check
    <3>1. works[w].version + 1 \in Nat /\ w \in WorkIds
      BY <2>6 DEF TypeOK, Work
    <3>2. [work |-> w, version |-> works[w].version + 1, content |-> a,
           acceptedBy |-> NoUser, acceptKey |-> NoKey] \in Check
      BY <2>1, <3>1 DEF Check
    <3> QED BY <1>4, <3>2 DEF TypeOK, CommitWorkUnderstanding
  <2> QED BY <1>4, <2>2, <2>3, <2>4, <2>5 DEF TypeOK, MembersTypeOK, CommitWorkUnderstanding
<1>5. ASSUME NEW a \in DOMAIN attempts, NEW outcome \in Outcomes,
             FinishUnresolvedAttempt(a, outcome)
      PROVE  TypeOK'
  <2>1. DOMAIN runs' = DOMAIN runs /\ runs' \in [DOMAIN runs -> Run]
    BY <1>5 DEF TypeOK, FinishUnresolvedAttempt, HoldsRun, Run
  <2>2. DOMAIN attempts' = DOMAIN attempts /\ attempts' \in [DOMAIN attempts -> Attempt]
    BY <1>5 DEF TypeOK, FinishUnresolvedAttempt, Attempt
  <2> QED BY <1>5, <2>1, <2>2 DEF TypeOK, MembersTypeOK, FinishUnresolvedAttempt
<1>6. ASSUME NEW m \in Machines, RevokeMachine(m) PROVE TypeOK'
  BY <1>6 DEF TypeOK, MembersTypeOK, RevokeMachine
<1> QED BY <1>1, <1>2, <1>3, <1>4, <1>5, <1>6 DEF MachineStep

(* A lease that gets shorter stays within 0 .. LeaseTicks. *)
LEMMA TickTypeOK == ASSUME TypeOK, Tick PROVE TypeOK'
<1>1. DOMAIN attempts' = DOMAIN attempts
  BY DEF Tick
<1>2. ASSUME NEW a \in DOMAIN attempts PROVE attempts'[a] \in Attempt
  <2>1. attempts[a] \in Attempt
    BY DEF TypeOK
  <2>2. attempts'[a] = [attempts[a] EXCEPT !.lease = LeaseAfterTick(a)]
    BY DEF Tick
  <2> QED BY <2>1, <2>2, WorkRunAssumption DEF Attempt, LeaseAfterTick, LeaseCurrent
<1>3. attempts' \in [DOMAIN attempts -> Attempt]
  BY <1>2 DEF Tick
<1> QED BY <1>1, <1>3 DEF TypeOK, MembersTypeOK, Tick

-----------------------------------------------------------------------------
(* The part of the invariant that relates Works, Runs and Attempts. *)
RunInv ==
    /\ RunRangesExist
    /\ OneUnresolvedRun
    /\ ActiveRunIsCurrent
    /\ AttemptsFollowRuns
    /\ OneAttemptPerFence
    /\ InputAppliedOnce
    /\ VersionHasRun

(* A step that leaves Runs alone, and of Attempts only moves leases, keeps
   that part, provided it applies no input and takes none away. *)
LEMMA QuietStep ==
    ASSUME TypeOK, RunInv, TypeOK',
           runs' = runs, DOMAIN attempts' = DOMAIN attempts,
           \A a \in DOMAIN attempts : /\ attempts'[a].run = attempts[a].run
                                      /\ attempts'[a].fence = attempts[a].fence
                                      /\ attempts'[a].state = attempts[a].state,
           DOMAIN works \subseteq DOMAIN works',
           \A w \in DOMAIN works : /\ works'[w].applied = works[w].applied
                                   /\ works'[w].version = works[w].version
                                   /\ works'[w].head >= works[w].head,
           \A w \in DOMAIN works' \ DOMAIN works :
               works'[w].applied = 0 /\ works'[w].version = 0
    PROVE  RunInv'
<1>0. /\ \A w \in DOMAIN works : works[w] \in Work
      /\ \A w \in DOMAIN works' : works'[w] \in Work
      /\ \A r \in DOMAIN runs : runs[r] \in Run
  BY DEF TypeOK
<1>1. RunRangesExist'
  BY <1>0 DEF RunInv, RunRangesExist, Work, Run
<1>2. OneUnresolvedRun'
  BY DEF RunInv, OneUnresolvedRun, Unresolved, NeedsRetryRun
<1>3. ActiveRunIsCurrent'
  BY <1>0 DEF RunInv, ActiveRunIsCurrent, RunIsCurrent, RunRangesExist, Work, Run
<1>4. AttemptsFollowRuns'
  BY DEF RunInv, AttemptsFollowRuns
<1>5. OneAttemptPerFence'
  BY DEF RunInv, OneAttemptPerFence
<1>6. InputAppliedOnce'
  <2> SUFFICES ASSUME NEW w \in DOMAIN works'
               PROVE  /\ \A r \in SucceededRuns(w) : runs[r].end <= works'[w].applied
                      /\ \A i \in 1 .. works'[w].applied :
                           \E r \in SucceededRuns(w) :
                              /\ i \in runs[r].start .. runs[r].end
                              /\ \A q \in SucceededRuns(w) :
                                   i \in runs[q].start .. runs[q].end => q = r
    BY DEF InputAppliedOnce, RunsOf, SucceededRuns
  <2>1. CASE w \in DOMAIN works
    BY <2>1 DEF RunInv, InputAppliedOnce
  <2>2. CASE w \notin DOMAIN works
    <3>1. SucceededRuns(w) = {}
      BY <2>2 DEF RunInv, RunRangesExist, RunsOf, SucceededRuns
    <3> QED BY <2>2, <3>1
  <2> QED BY <2>1, <2>2
<1>7. VersionHasRun'
  BY <1>0 DEF RunInv, VersionHasRun, RunsOf, SucceededRuns, Work
<1> QED BY <1>1, <1>2, <1>3, <1>4, <1>5, <1>6, <1>7 DEF RunInv

(* The part that relates members, Works and result checks. *)
MemberInv == OpenWorkHasActiveOwner /\ SpaceStaysGoverned

(* The invariant, by the tables that its parts speak of. *)
LEMMA IInvParts == IInv <=> TypeOK /\ RunInv /\ ChecksFollowVersions /\ MemberInv
  BY DEF IInv, RunInv, MemberInv

(* A new Work has its creator as owner and no Run yet. *)
LEMMA CreateWorkKeepsIInv ==
    ASSUME IInv, TypeOK', NEW u \in Users, NEW w \in WorkIds, NEW k \in Keys,
           CreateWork(u, w, k)
    PROVE  IInv'
<1> DEFINE row == [owner |-> u, creator |-> u, key |-> k, head |-> 1,
                   applied |-> 0, version |-> 0, content |-> NoAttempt]
<1>1. /\ TypeOK /\ RunInv /\ ChecksFollowVersions /\ MemberInv
      /\ w \notin DOMAIN works
      /\ DOMAIN works' = DOMAIN works \cup {w}
      /\ works'[w] = row
      /\ \A x \in DOMAIN works : works'[x] = works[x]
      /\ \A x \in DOMAIN works : works[x].head \in Nat
  BY IInvParts DEF CreateWork, Insert, TypeOK, Work
<1>2. RunInv'
  <2>1. \A x \in DOMAIN works' \ DOMAIN works : x = w
    BY <1>1
  <2> QED BY <1>1, <2>1, QuietStep DEF CreateWork
<1>3. ChecksFollowVersions'
  BY <1>1 DEF ChecksFollowVersions, CreateWork
<1>4. MemberInv'
  BY <1>1 DEF MemberInv, OpenWorkHasActiveOwner, SpaceStaysGoverned, Holders,
              IsActiveMember, CreateWork
<1> QED BY <1>2, <1>3, <1>4, IInvParts DEF IInv, RunInv, MemberInv

(* New input only moves the head, which every part bounds from below. *)
LEMMA AppendWorkMessageKeepsIInv ==
    ASSUME IInv, TypeOK', NEW u \in Users, NEW w \in WorkIds, NEW k \in Keys,
           NEW size \in Sizes, AppendWorkMessage(u, w, k, size)
    PROVE  IInv'
<1>1. /\ TypeOK /\ RunInv /\ ChecksFollowVersions /\ MemberInv
      /\ w \in DOMAIN works
      /\ DOMAIN works' = DOMAIN works
      /\ \A x \in DOMAIN works : /\ works'[x].applied = works[x].applied
                                 /\ works'[x].version = works[x].version
                                 /\ works'[x].owner = works[x].owner
                                 /\ works'[x].head >= works[x].head
  BY IInvParts DEF AppendWorkMessage, TypeOK, Work
<1>2. RunInv'
  BY <1>1, QuietStep DEF AppendWorkMessage
<1>3. ChecksFollowVersions'
  BY <1>1 DEF ChecksFollowVersions, AppendWorkMessage
<1>4. MemberInv'
  BY <1>1 DEF MemberInv, OpenWorkHasActiveOwner, SpaceStaysGoverned, Holders,
              IsActiveMember, AppendWorkMessage
<1> QED BY <1>2, <1>3, <1>4 DEF IInv, RunInv, MemberInv

(* An acceptance changes no Work and no version of a check. *)
LEMMA AcceptWorkReviewKeepsIInv ==
    ASSUME IInv, TypeOK', NEW u \in Users, NEW c \in checks, NEW k \in Keys,
           AcceptWorkReview(u, c, k)
    PROVE  IInv'
<1>1. TypeOK /\ RunInv /\ ChecksFollowVersions /\ MemberInv
  BY IInvParts
<1>2. RunInv'
  BY <1>1 DEF AcceptWorkReview, RunInv, RunRangesExist, OneUnresolvedRun, Unresolved,
       NeedsRetryRun, ActiveRunIsCurrent, RunIsCurrent, AttemptsFollowRuns,
       OneAttemptPerFence, InputAppliedOnce, VersionHasRun, RunsOf, SucceededRuns
<1>3. ChecksFollowVersions'
  <2>1. [c EXCEPT !.acceptedBy = u, !.acceptKey = k].work = c.work
        /\ [c EXCEPT !.acceptedBy = u, !.acceptKey = k].version = c.version
    BY <1>1 DEF TypeOK, Check
  <2> QED BY <1>1, <2>1 DEF ChecksFollowVersions, AcceptWorkReview
<1>4. MemberInv'
  BY <1>1 DEF MemberInv, OpenWorkHasActiveOwner, SpaceStaysGoverned, Holders,
              IsActiveMember, AcceptWorkReview
<1> QED BY <1>2, <1>3, <1>4 DEF IInv, RunInv, MemberInv

(* A retry resolves the one unresolved Run of its Work. *)
LEMMA RequestWorkRetryKeepsIInv ==
    ASSUME IInv, TypeOK', NEW u \in Users, NEW w \in WorkIds, NEW k \in Keys,
           RequestWorkRetry(u, w, k)
    PROVE  IInv'
<1>0. TypeOK /\ RunInv /\ ChecksFollowVersions /\ MemberInv
  BY IInvParts
<1>1. PICK r \in DOMAIN runs :
           /\ NeedsRetryRun(r)
           /\ runs' = [runs EXCEPT ![r] = [@ EXCEPT !.retryBy = u, !.retryKey = k]]
  BY DEF RequestWorkRetry, RunsOf
<1>2. /\ DOMAIN runs' = DOMAIN runs
      /\ \A q \in DOMAIN runs :
           /\ runs'[q].work = runs[q].work
           /\ runs'[q].state = runs[q].state
           /\ runs'[q].start = runs[q].start
           /\ runs'[q].end = runs[q].end
           /\ runs'[q].base = runs[q].base
           /\ runs'[q].fence = runs[q].fence
           /\ q # r => runs'[q] = runs[q]
      /\ runs'[r].retryBy = u
  BY <1>0, <1>1 DEF TypeOK, Run
<1>3. works' = works /\ attempts' = attempts /\ checks' = checks /\ members' = members
  BY DEF RequestWorkRetry
<1>4. RunInv'
  <2>1. RunRangesExist' /\ ActiveRunIsCurrent' /\ AttemptsFollowRuns'
        /\ OneAttemptPerFence'
    BY <1>0, <1>2, <1>3 DEF RunInv, RunRangesExist, ActiveRunIsCurrent, RunIsCurrent,
         AttemptsFollowRuns, OneAttemptPerFence
  <2>2. \A q \in DOMAIN runs : Unresolved(q)' => Unresolved(q) /\ q # r
    BY <1>1, <1>2, MembersAssumption DEF Unresolved, NeedsRetryRun, Outcomes
  <2>3. OneUnresolvedRun'
    BY <1>0, <1>2, <2>2 DEF RunInv, OneUnresolvedRun
  <2>4. InputAppliedOnce' /\ VersionHasRun'
    BY <1>0, <1>2, <1>3 DEF RunInv, InputAppliedOnce, VersionHasRun, RunsOf, SucceededRuns
  <2> QED BY <2>1, <2>3, <2>4 DEF RunInv
<1>5. ChecksFollowVersions' /\ MemberInv'
  BY <1>0, <1>3 DEF ChecksFollowVersions, MemberInv, OpenWorkHasActiveOwner,
       SpaceStaysGoverned, Holders, IsActiveMember
<1> QED BY <1>4, <1>5 DEF IInv, RunInv, MemberInv

(* The removal hands every Work of the target to an active member, and the
   target is not the last holder of an authority. *)
LEMMA RemoveSpaceMemberKeepsIInv ==
    ASSUME IInv, TypeOK', NEW u \in Users, NEW target \in Users,
           NEW successor \in Users \cup {NoUser}, NEW k \in Keys,
           RemoveSpaceMember(u, target, successor, k)
    PROVE  IInv'
<1>0. TypeOK /\ RunInv /\ ChecksFollowVersions /\ MemberInv
  BY IInvParts
<1>1. /\ DOMAIN works' = DOMAIN works
      /\ \A w \in DOMAIN works :
           /\ works'[w].applied = works[w].applied
           /\ works'[w].version = works[w].version
           /\ works'[w].head = works[w].head
           /\ works'[w].head >= works[w].head
           /\ works'[w].owner = IF works[w].owner = target THEN successor
                                ELSE works[w].owner
  BY <1>0 DEF RemoveSpaceMember, TransferredWorks, TypeOK, Work
<1>2. RunInv'
  BY <1>0, <1>1, QuietStep DEF RemoveSpaceMember
<1>3. ChecksFollowVersions'
  BY <1>0, <1>1 DEF ChecksFollowVersions, RemoveSpaceMember
<1>4. \A v \in Users : /\ v # target => members'[v] = members[v]
                       /\ members'[v].may = members[v].may
  BY <1>0 DEF RemoveSpaceMember, RemoveMembership, TypeOK, MembersTypeOK, Membership
<1>5. OpenWorkHasActiveOwner'
  <2>1. \A v \in Users : v # target /\ IsActiveMember(v) => IsActiveMember(v)'
    BY <1>4 DEF IsActiveMember
  <2>2. \A w \in DOMAIN works : works[w].owner = target =>
          successor \in Users /\ successor # target /\ IsActiveMember(successor)
    BY DEF RemoveSpaceMember, RemoveMembership
  <2>3. \A w \in DOMAIN works : IsActiveMember(works[w].owner) /\ works[w].owner \in Users
    BY <1>0 DEF MemberInv, OpenWorkHasActiveOwner, IsActiveMember
  <2> QED BY <1>1, <2>1, <2>2, <2>3 DEF OpenWorkHasActiveOwner
<1>6. SpaceStaysGoverned'
  <2>1. ASSUME NEW x \in Authorities, Holders(x) # {} PROVE Holders(x)' # {}
    <3>1. CASE x \in members[target].may
      <4>1. Holders(x) \ {target} # {}
        BY <3>1 DEF RemoveSpaceMember, RemoveMembership, LeavesSpaceGoverned
      <4> QED BY <1>4, <4>1 DEF Holders, IsActiveMember
    <3>2. CASE x \notin members[target].may
      BY <1>4, <2>1, <3>2 DEF Holders, IsActiveMember
    <3> QED BY <3>1, <3>2
  <2> QED BY <1>0, <2>1 DEF MemberInv, SpaceStaysGoverned, Authorities
<1> QED BY <1>2, <1>3, <1>5, <1>6 DEF IInv, RunInv, MemberInv

-----------------------------------------------------------------------------
(* A new Run starts where the applied input ends, on the current version, and
   is the only unresolved one. *)
LEMMA CreateRunKeepsIInv ==
    ASSUME IInv, TypeOK', NEW m \in Machines, NEW w \in DOMAIN works,
           NEW r \in RunIds, NEW a \in AttemptIds, CreateRun(m, w, r, a)
    PROVE  IInv'
<1>0. TypeOK /\ RunInv /\ ChecksFollowVersions /\ MemberInv
  BY IInvParts
<1>1. PICK end \in (works[w].applied + 1) .. works[w].head :
           runs' = Insert(runs, r,
                     [work |-> w, state |-> "active",
                      start |-> works[w].applied + 1, end |-> end,
                      base |-> works[w].version, fence |-> 1,
                      retryBy |-> NoUser, retryKey |-> NoKey])
  BY DEF CreateRun
<1>2. /\ r \notin DOMAIN runs
      /\ DOMAIN runs' = DOMAIN runs \cup {r}
      /\ \A q \in DOMAIN runs : runs'[q] = runs[q]
      /\ runs'[r].work = w /\ runs'[r].state = "active"
      /\ runs'[r].start = works[w].applied + 1 /\ runs'[r].end = end
      /\ runs'[r].base = works[w].version /\ runs'[r].fence = 1
  BY <1>1 DEF CreateRun, Insert
<1>3. /\ a \notin DOMAIN attempts
      /\ DOMAIN attempts' = DOMAIN attempts \cup {a}
      /\ \A b \in DOMAIN attempts : attempts'[b] = attempts[b]
      /\ attempts'[a].run = r /\ attempts'[a].fence = 1
  BY DEF CreateRun, Insert, NewAttempt
<1>4. works' = works /\ checks' = checks /\ members' = members
  BY DEF CreateRun
<1>5. /\ works[w] \in Work
      /\ \A q \in DOMAIN runs : runs[q] \in Run
      /\ \A b \in DOMAIN attempts : attempts[b] \in Attempt
  BY <1>0 DEF TypeOK
<1>6. RunInv'
  <2>1. RunRangesExist'
    BY <1>0, <1>1, <1>2, <1>4, <1>5 DEF RunInv, RunRangesExist, Work
  <2>2. OneUnresolvedRun'
    <3>1. \A q \in DOMAIN runs : Unresolved(q)' => Unresolved(q) /\ runs[q].work # w
      BY <1>2 DEF CreateRun, HasUnresolvedRun, Unresolved, NeedsRetryRun, RunsOf
    <3> QED BY <1>0, <1>2, <3>1 DEF RunInv, OneUnresolvedRun
  <2>3. ActiveRunIsCurrent'
    BY <1>0, <1>1, <1>2, <1>4, <1>5 DEF RunInv, ActiveRunIsCurrent, RunIsCurrent, Work
  <2>4. AttemptsFollowRuns'
    BY <1>0, <1>2, <1>3, <1>5 DEF RunInv, AttemptsFollowRuns
  <2>5. OneAttemptPerFence'
    BY <1>0, <1>2, <1>3 DEF RunInv, AttemptsFollowRuns, OneAttemptPerFence
  <2>6. \A x : /\ SucceededRuns(x)' = SucceededRuns(x)
               /\ \A q \in SucceededRuns(x) : runs'[q] = runs[q]
    BY <1>2 DEF RunsOf, SucceededRuns
  <2>7. InputAppliedOnce'
    BY <1>0, <1>4, <2>6 DEF RunInv, InputAppliedOnce
  <2>8. VersionHasRun'
    BY <1>0, <1>2, <1>4 DEF RunInv, VersionHasRun, RunsOf, SucceededRuns
  <2> QED BY <2>1, <2>2, <2>3, <2>4, <2>5, <2>7, <2>8 DEF RunInv
<1>7. ChecksFollowVersions' /\ MemberInv'
  BY <1>0, <1>4 DEF ChecksFollowVersions, MemberInv, OpenWorkHasActiveOwner,
       SpaceStaysGoverned, Holders, IsActiveMember
<1> QED BY <1>6, <1>7 DEF IInv, RunInv, MemberInv

(* Recovery replaces the holder under a fence no Attempt had. *)
LEMMA RecoverRunKeepsIInv ==
    ASSUME IInv, TypeOK', NEW m \in Machines, NEW old \in DOMAIN attempts,
           NEW a \in AttemptIds, RecoverRun(m, old, a)
    PROVE  IInv'
<1> DEFINE r == attempts[old].run
<1>0. TypeOK /\ RunInv /\ ChecksFollowVersions /\ MemberInv
  BY IInvParts
<1>1. /\ r \in DOMAIN runs /\ runs[r].state = "active"
      /\ attempts[old].state = "active" /\ attempts[old].fence = runs[r].fence
      /\ runs[r].fence \in Nat
      /\ \A b \in DOMAIN attempts : attempts[b].fence \in Nat
  BY <1>0 DEF RecoverRun, TypeOK, Run, Attempt
<1>2. /\ DOMAIN runs' = DOMAIN runs
      /\ runs'[r].fence = runs[r].fence + 1
      /\ \A q \in DOMAIN runs :
           /\ q # r => runs'[q] = runs[q]
           /\ runs'[q].work = runs[q].work /\ runs'[q].state = runs[q].state
           /\ runs'[q].start = runs[q].start /\ runs'[q].end = runs[q].end
           /\ runs'[q].base = runs[q].base /\ runs'[q].retryBy = runs[q].retryBy
  BY <1>0, <1>1 DEF RecoverRun, HandedOver, TypeOK, Run
<1>3. /\ a \notin DOMAIN attempts
      /\ DOMAIN attempts' = DOMAIN attempts \cup {a}
      /\ attempts'[a].run = r /\ attempts'[a].fence = runs[r].fence + 1
      /\ attempts'[old].state = "expired"
      /\ \A b \in DOMAIN attempts :
           /\ attempts'[b].run = attempts[b].run
           /\ attempts'[b].fence = attempts[b].fence
           /\ b # old => attempts'[b] = attempts[b]
  BY <1>0 DEF RecoverRun, Insert, NewAttempt, TypeOK, Attempt
<1>4. works' = works /\ checks' = checks /\ members' = members
  BY DEF RecoverRun
<1> HIDE DEF r
<1>5. RunInv'
  <2>1. RunRangesExist' /\ ActiveRunIsCurrent'
    BY <1>0, <1>2, <1>4 DEF RunInv, RunRangesExist, ActiveRunIsCurrent, RunIsCurrent
  <2>2. OneUnresolvedRun'
    BY <1>0, <1>2 DEF RunInv, OneUnresolvedRun, Unresolved, NeedsRetryRun
  <2>3. AttemptsFollowRuns'
    <3>1. ASSUME NEW b \in DOMAIN attempts, attempts[b].run = r,
                 attempts[b].state = "active"
          PROVE  b = old
      BY <1>0, <1>1, <3>1 DEF RunInv, AttemptsFollowRuns, OneAttemptPerFence, r
    <3> QED BY <1>0, <1>1, <1>2, <1>3, <3>1 DEF RunInv, AttemptsFollowRuns
  <2>4. OneAttemptPerFence'
    <3>1. \A b \in DOMAIN attempts : attempts[b].run = r =>
             attempts[b].fence # runs[r].fence + 1
      BY <1>0, <1>1 DEF RunInv, AttemptsFollowRuns
    <3> QED BY <1>0, <1>3, <3>1 DEF RunInv, OneAttemptPerFence
  <2>5. InputAppliedOnce' /\ VersionHasRun'
    BY <1>0, <1>2, <1>4 DEF RunInv, InputAppliedOnce, VersionHasRun, RunsOf, SucceededRuns
  <2> QED BY <2>1, <2>2, <2>3, <2>4, <2>5 DEF RunInv
<1>6. ChecksFollowVersions' /\ MemberInv'
  BY <1>0, <1>4 DEF ChecksFollowVersions, MemberInv, OpenWorkHasActiveOwner,
       SpaceStaysGoverned, Holders, IsActiveMember
<1> QED BY <1>5, <1>6 DEF IInv, RunInv, MemberInv

(* The commit moves the Work from the end of its applied input to the end of
   the Run, under the only Attempt that holds the only active Run. *)
LEMMA CommitKeepsIInv ==
    ASSUME IInv, TypeOK', NEW a \in DOMAIN attempts, NEW review \in BOOLEAN,
           CommitWorkUnderstanding(a, review)
    PROVE  IInv'
<1>r. PICK r : r = attempts[a].run
  OBVIOUS
<1>w. PICK w : w = runs[r].work
  OBVIOUS
<1>0. TypeOK /\ RunInv /\ ChecksFollowVersions /\ MemberInv
  BY IInvParts
<1>1. /\ r \in DOMAIN runs /\ runs[r].state = "active" /\ runs[r] \in Run
      /\ attempts[a].state = "active"
      /\ w \in DOMAIN works /\ works[w] \in Work /\ a \in AttemptIds
      /\ runs[r].start >= 1 /\ runs[r].start <= runs[r].end
      /\ runs[r].end <= works[w].head
      /\ works[w].version = runs[r].base /\ works[w].applied = runs[r].start - 1
      /\ \A q \in DOMAIN runs : runs[q] \in Run
      /\ \A x \in DOMAIN works : works[x] \in Work
  BY <1>0, <1>r, <1>w DEF CommitWorkUnderstanding, HoldsRun, RunIsCurrent, RunInv, RunRangesExist, TypeOK
<1>2. /\ DOMAIN runs' = DOMAIN runs
      /\ runs'[r].state = "succeeded"
      /\ \A q \in DOMAIN runs :
           /\ q # r => runs'[q] = runs[q]
           /\ runs'[q].work = runs[q].work /\ runs'[q].fence = runs[q].fence
           /\ runs'[q].start = runs[q].start /\ runs'[q].end = runs[q].end
           /\ runs'[q].base = runs[q].base /\ runs'[q].retryBy = runs[q].retryBy
  BY <1>0, <1>1, <1>r DEF CommitWorkUnderstanding, TypeOK, Run
<1>3. /\ DOMAIN attempts' = DOMAIN attempts
      /\ attempts'[a].state = "succeeded"
      /\ \A b \in DOMAIN attempts :
           /\ b # a => attempts'[b] = attempts[b]
           /\ attempts'[b].run = attempts[b].run
           /\ attempts'[b].fence = attempts[b].fence
  BY <1>0 DEF CommitWorkUnderstanding, TypeOK, Attempt
<1>4. /\ DOMAIN works' = DOMAIN works
      /\ \A x \in DOMAIN works : x # w => works'[x] = works[x]
      /\ \A x \in DOMAIN works : works'[x].owner = works[x].owner
      /\ \A x \in DOMAIN works : works'[x].head = works[x].head
      /\ works'[w].applied = runs[r].end
      /\ works'[w].version = works[w].version + 1
  <2>1. works' = [works EXCEPT ![w] = WorkAfterCommit(w, r, a)]
    BY <1>r, <1>w DEF CommitWorkUnderstanding
  <2>2. /\ WorkAfterCommit(w, r, a).owner = works[w].owner
        /\ WorkAfterCommit(w, r, a).head = works[w].head
        /\ WorkAfterCommit(w, r, a).applied = runs[r].end
        /\ WorkAfterCommit(w, r, a).version = works[w].version + 1
    BY <1>1 DEF WorkAfterCommit, Work
  <2>3. DOMAIN works' = DOMAIN works /\ works'[w] = WorkAfterCommit(w, r, a)
    BY <1>0, <1>1, <2>1 DEF TypeOK
  <2>4. \A x \in DOMAIN works : x # w => works'[x] = works[x]
    BY <1>0, <2>1 DEF TypeOK
  <2>5. ASSUME NEW x \in DOMAIN works
        PROVE  works'[x].owner = works[x].owner /\ works'[x].head = works[x].head
    <3>1. CASE x = w BY <2>2, <2>3, <3>1
    <3>2. CASE x # w BY <2>4, <3>2
    <3> QED BY <3>1, <3>2
  <2> QED BY <2>2, <2>3, <2>4, <2>5
<1>5. \A q \in DOMAIN runs : q # r /\ runs[q].work = w => ~ Unresolved(q)
  BY <1>0, <1>1, <1>w DEF RunInv, OneUnresolvedRun, Unresolved
<1>6. /\ \A x : x # w => SucceededRuns(x)' = SucceededRuns(x)
      /\ SucceededRuns(w)' = SucceededRuns(w) \cup {r}
  BY <1>1, <1>2, <1>w DEF SucceededRuns, RunsOf
<1>7. members' = members
  BY DEF CommitWorkUnderstanding
<1>8. /\ checks \subseteq checks'
      /\ \A c \in checks' \ checks : c.work = w /\ c.version = works[w].version + 1
  BY <1>1, <1>r, <1>w DEF CommitWorkUnderstanding
<1>9. RunInv'
  <2>1. RunRangesExist'
    <3>1. ASSUME NEW q \in DOMAIN runs
          PROVE  /\ runs'[q].work \in DOMAIN works'
                 /\ runs'[q].start >= 1 /\ runs'[q].start <= runs'[q].end
                 /\ runs'[q].end <= works'[runs'[q].work].head
      <4>1. /\ runs[q].work \in DOMAIN works
            /\ runs[q].start >= 1 /\ runs[q].start <= runs[q].end
            /\ runs[q].end <= works[runs[q].work].head
        BY <1>0 DEF RunInv, RunRangesExist
      <4>2. works'[runs[q].work].head = works[runs[q].work].head
        BY <1>4, <4>1
      <4> QED BY <1>2, <1>4, <4>1, <4>2
    <3> QED BY <1>2, <3>1 DEF RunRangesExist
  <2>2. OneUnresolvedRun'
    BY <1>0, <1>2 DEF RunInv, OneUnresolvedRun, Unresolved, NeedsRetryRun, Outcomes
  <2>3. ActiveRunIsCurrent'
    <3>1. \A q \in DOMAIN runs : runs'[q].state = "active" =>
             q # r /\ runs[q].state = "active" /\ runs[q].work # w
      BY <1>2, <1>5 DEF Unresolved
    <3> QED BY <1>0, <1>2, <1>4, <3>1 DEF RunInv, ActiveRunIsCurrent, RunIsCurrent,
              RunRangesExist
  <2>4. AttemptsFollowRuns'
    <3>1. ASSUME NEW b \in DOMAIN attempts, attempts[b].run = r, b # a
          PROVE  attempts[b].state # "active"
      BY <1>0, <1>1, <1>r, <3>1 DEF RunInv, AttemptsFollowRuns, OneAttemptPerFence
    <3> QED BY <1>0, <1>2, <1>3, <3>1 DEF RunInv, AttemptsFollowRuns
  <2>5. OneAttemptPerFence'
    BY <1>0, <1>3 DEF RunInv, OneAttemptPerFence
  <2>6. InputAppliedOnce'
    <3> SUFFICES ASSUME NEW x \in DOMAIN works
                 PROVE  /\ \A q \in SucceededRuns(x)' : runs[q].end <= works'[x].applied
                        /\ \A i \in 1 .. works'[x].applied :
                             \E q \in SucceededRuns(x)' :
                               /\ i \in runs[q].start .. runs[q].end
                               /\ \A p \in SucceededRuns(x)' :
                                    i \in runs[p].start .. runs[p].end => p = q
      <4>1. \A x \in DOMAIN works : SucceededRuns(x)' \subseteq DOMAIN runs
        BY <1>2 DEF SucceededRuns, RunsOf
      <4> QED BY <1>2, <1>4, <4>1 DEF InputAppliedOnce
    <3>1. CASE x # w
      BY <1>0, <1>4, <1>6, <3>1 DEF RunInv, InputAppliedOnce
    <3>2. CASE x = w
      <4>1. /\ \A q \in SucceededRuns(w) : runs[q].end <= works[w].applied
            /\ \A i \in 1 .. works[w].applied :
                 \E q \in SucceededRuns(w) :
                   /\ i \in runs[q].start .. runs[q].end
                   /\ \A p \in SucceededRuns(w) :
                        i \in runs[p].start .. runs[p].end => p = q
        BY <1>0, <1>1 DEF RunInv, InputAppliedOnce
      <4>2. \A q \in SucceededRuns(w) : runs[q].end \in Nat /\ q # r
        BY <1>1 DEF SucceededRuns, RunsOf, Run
      <4>3. /\ runs[r].start \in Nat /\ runs[r].end \in Nat /\ works[w].applied \in Nat
        BY <1>1 DEF Run, Work
      <4>4. \A q \in SucceededRuns(w)' : runs[q].end <= works'[w].applied
        BY <1>1, <1>4, <1>6, <4>1, <4>2, <4>3
      <4>5. ASSUME NEW i \in 1 .. works'[w].applied
            PROVE  \E q \in SucceededRuns(w)' :
                     /\ i \in runs[q].start .. runs[q].end
                     /\ \A p \in SucceededRuns(w)' :
                          i \in runs[p].start .. runs[p].end => p = q
        <5>1. CASE i <= works[w].applied
          <6>1. i \in 1 .. works[w].applied /\ i \notin runs[r].start .. runs[r].end
            BY <1>1, <1>4, <4>3, <5>1
          <6>2. PICK q \in SucceededRuns(w) :
                   /\ i \in runs[q].start .. runs[q].end
                   /\ \A p \in SucceededRuns(w) :
                        i \in runs[p].start .. runs[p].end => p = q
            BY <4>1, <6>1
          <6> QED BY <1>6, <6>1, <6>2
        <5>2. CASE i > works[w].applied
          <6>1. i \in runs[r].start .. runs[r].end
            BY <1>1, <1>4, <4>3, <5>2
          <6>2. \A p \in SucceededRuns(w) : i \notin runs[p].start .. runs[p].end
            BY <4>1, <4>2, <4>3, <5>2
          <6> QED BY <1>6, <6>1, <6>2
        <5> QED BY <1>4, <4>3, <5>1, <5>2
      <4> QED BY <3>2, <4>4, <4>5
    <3> QED BY <3>1, <3>2
  <2>7. VersionHasRun'
    <3> SUFFICES ASSUME NEW x \in DOMAIN works
                 PROVE  /\ works'[x].applied <= works'[x].head
                        /\ works'[x].version > 0 =>
                             \E q \in SucceededRuns(x)' :
                               /\ runs'[q].base + 1 = works'[x].version
                               /\ runs'[q].end = works'[x].applied
      BY <1>4 DEF VersionHasRun
    <3>1. CASE x # w
      <4>1. \A q \in SucceededRuns(x) : q \in DOMAIN runs
        BY DEF SucceededRuns, RunsOf
      <4> QED BY <1>0, <1>2, <1>4, <1>6, <3>1, <4>1 DEF RunInv, VersionHasRun
    <3>2. CASE x = w
      <4>1. runs'[r].base = works[w].version /\ runs'[r].end = runs[r].end
        BY <1>1, <1>2
      <4>2. works'[w].head = works[w].head
        BY <1>1, <1>4
      <4> QED BY <1>1, <1>4, <1>6, <3>2, <4>1, <4>2
    <3> QED BY <3>1, <3>2
  <2> QED BY <2>1, <2>2, <2>3, <2>4, <2>5, <2>6, <2>7 DEF RunInv
<1>10. ChecksFollowVersions'
  <2>1. \A x \in DOMAIN works : works'[x].version \in Nat /\ works'[x].version >= works[x].version
    BY <1>1, <1>4 DEF Work
  <2>2. \A x \in DOMAIN works : works[x].version \in Nat
    BY <1>1 DEF Work
  <2> QED BY <1>0, <1>1, <1>4, <1>8, <2>1, <2>2 DEF ChecksFollowVersions
<1>11. MemberInv'
  <2>1. \A x \in DOMAIN works : works'[x].owner = works[x].owner
    BY <1>4
  <2> QED BY <1>0, <1>4, <1>7, <2>1 DEF MemberInv, OpenWorkHasActiveOwner,
            SpaceStaysGoverned, Holders, IsActiveMember
<1> QED BY <1>9, <1>10, <1>11 DEF IInv, RunInv, MemberInv

(* An outcome ends the only Attempt that holds the Run; the Run stays the
   one unresolved Run of its Work. *)
LEMMA FinishKeepsIInv ==
    ASSUME IInv, TypeOK', NEW a \in DOMAIN attempts, NEW outcome \in Outcomes,
           FinishUnresolvedAttempt(a, outcome)
    PROVE  IInv'
<1> DEFINE r == attempts[a].run
<1>0. TypeOK /\ RunInv /\ ChecksFollowVersions /\ MemberInv
  BY IInvParts
<1>1. /\ r \in DOMAIN runs /\ runs[r].state = "active" /\ attempts[a].state = "active"
      /\ outcome # "active" /\ outcome # "succeeded"
  BY DEF FinishUnresolvedAttempt, HoldsRun, Outcomes
<1>2. /\ DOMAIN runs' = DOMAIN runs
      /\ runs'[r].state = outcome
      /\ \A q \in DOMAIN runs :
           /\ q # r => runs'[q] = runs[q]
           /\ runs'[q].work = runs[q].work /\ runs'[q].fence = runs[q].fence
           /\ runs'[q].start = runs[q].start /\ runs'[q].end = runs[q].end
           /\ runs'[q].base = runs[q].base /\ runs'[q].retryBy = runs[q].retryBy
  BY <1>0, <1>1 DEF FinishUnresolvedAttempt, TypeOK, Run
<1>3. /\ DOMAIN attempts' = DOMAIN attempts
      /\ attempts'[a].state = outcome
      /\ \A b \in DOMAIN attempts :
           /\ b # a => attempts'[b] = attempts[b]
           /\ attempts'[b].run = attempts[b].run
           /\ attempts'[b].fence = attempts[b].fence
  BY <1>0 DEF FinishUnresolvedAttempt, TypeOK, Attempt
<1>4. works' = works /\ checks' = checks /\ members' = members
  BY DEF FinishUnresolvedAttempt
<1> HIDE DEF r
<1>5. RunInv'
  <2>1. RunRangesExist' /\ ActiveRunIsCurrent'
    BY <1>0, <1>1, <1>2, <1>4 DEF RunInv, RunRangesExist, ActiveRunIsCurrent, RunIsCurrent
  <2>2. OneUnresolvedRun'
    <3>1. \A q \in DOMAIN runs : Unresolved(q)' => Unresolved(q)
      BY <1>1, <1>2 DEF Unresolved, NeedsRetryRun
    <3> QED BY <1>0, <1>2, <3>1 DEF RunInv, OneUnresolvedRun
  <2>3. AttemptsFollowRuns'
    <3>1. ASSUME NEW b \in DOMAIN attempts, attempts[b].run = r, b # a
          PROVE  attempts[b].state # "active"
      BY <1>0, <1>1, <3>1 DEF RunInv, AttemptsFollowRuns, OneAttemptPerFence, r
    <3> QED BY <1>0, <1>1, <1>2, <1>3, <3>1 DEF RunInv, AttemptsFollowRuns
  <2>4. OneAttemptPerFence'
    BY <1>0, <1>3 DEF RunInv, OneAttemptPerFence
  <2>5. \A x : /\ SucceededRuns(x)' = SucceededRuns(x)
               /\ \A q \in SucceededRuns(x) : runs'[q] = runs[q]
    BY <1>1, <1>2 DEF RunsOf, SucceededRuns
  <2>6. InputAppliedOnce' /\ VersionHasRun'
    BY <1>0, <1>4, <2>5 DEF RunInv, InputAppliedOnce, VersionHasRun
  <2> QED BY <2>1, <2>2, <2>3, <2>4, <2>6 DEF RunInv
<1>6. ChecksFollowVersions' /\ MemberInv'
  BY <1>0, <1>4 DEF ChecksFollowVersions, MemberInv, OpenWorkHasActiveOwner,
       SpaceStaysGoverned, Holders, IsActiveMember
<1> QED BY <1>5, <1>6 DEF IInv, RunInv, MemberInv

(* Renewals, revocations of Machines and the clock touch no Run and of an
   Attempt only the lease. *)
LEMMA LeaseStepKeepsIInv ==
    ASSUME IInv, TypeOK',
           \/ \E a \in DOMAIN attempts : RenewRunAttempt(a)
           \/ \E m \in Machines : RevokeMachine(m)
           \/ Tick
    PROVE  IInv'
<1>0. TypeOK /\ RunInv /\ ChecksFollowVersions /\ MemberInv
  BY IInvParts
<1>1. works' = works /\ checks' = checks /\ members' = members /\ runs' = runs
  BY DEF RenewRunAttempt, RevokeMachine, Tick
<1>2. /\ DOMAIN attempts' = DOMAIN attempts
      /\ \A b \in DOMAIN attempts : /\ attempts'[b].run = attempts[b].run
                                    /\ attempts'[b].fence = attempts[b].fence
                                    /\ attempts'[b].state = attempts[b].state
  <2>0. \A b \in DOMAIN attempts : attempts[b] \in Attempt
    BY <1>0 DEF TypeOK
  <2>1. CASE \E a \in DOMAIN attempts : RenewRunAttempt(a)
    BY <1>0, <2>0, <2>1 DEF RenewRunAttempt, TypeOK, Attempt
  <2>2. CASE \E m \in Machines : RevokeMachine(m)
    BY <2>2 DEF RevokeMachine
  <2>3. CASE Tick
    BY <2>0, <2>3 DEF Tick, Attempt
  <2> QED BY <2>1, <2>2, <2>3
<1>3. RunInv'
  <2>1. \A w \in DOMAIN works : works[w].head \in Nat
    BY <1>0 DEF TypeOK, Work
  <2> QED BY <1>0, <1>1, <1>2, <2>1, QuietStep
<1>4. ChecksFollowVersions' /\ MemberInv'
  BY <1>0, <1>1 DEF ChecksFollowVersions, MemberInv, OpenWorkHasActiveOwner,
       SpaceStaysGoverned, Holders, IsActiveMember
<1> QED BY <1>3, <1>4 DEF IInv, RunInv, MemberInv

(* The empty tables satisfy every part. *)
LEMMA InitIInv == Init => IInv
<1> SUFFICES ASSUME Init PROVE IInv
  OBVIOUS
<1>1. TypeOK
  BY InitTypeOK
<1>2. /\ DOMAIN runs = {} /\ DOMAIN works = {} /\ DOMAIN attempts = {} /\ checks = {}
  BY DEF Init, EmptyTable
<1>3. SpaceStaysGoverned
  <2>1. \A u \in Users : IsActiveMember(u)
    BY DEF Init, MembersInit, IsActiveMember
  <2>2. /\ \A u \in Managers : u \in Users /\ "manage" \in members[u].may
        /\ \A u \in Enrollers : u \in Users /\ "enroll" \in members[u].may
    BY MembersAssumption DEF Init, MembersInit, Authorities
  <2> QED BY <2>1, <2>2 DEF SpaceStaysGoverned, Holders
<1> QED BY <1>1, <1>2, <1>3 DEF IInv, RunRangesExist, OneUnresolvedRun,
      ActiveRunIsCurrent, AttemptsFollowRuns, OneAttemptPerFence, InputAppliedOnce,
      VersionHasRun, ChecksFollowVersions, OpenWorkHasActiveOwner

(* Every transaction, by the lemma of its action. *)
LEMMA NextKeepsIInv == ASSUME IInv, [Next]_vars PROVE IInv'
<1>1. CASE MemberStep
  <2>1. PICK u \in Users, k \in Keys :
        \/ \E w \in WorkIds : CreateWork(u, w, k)
        \/ \E w \in WorkIds, size \in Sizes : AppendWorkMessage(u, w, k, size)
        \/ \E c \in checks : AcceptWorkReview(u, c, k)
        \/ \E w \in WorkIds : RequestWorkRetry(u, w, k)
        \/ \E target \in Users, successor \in Users \cup {NoUser} :
               RemoveSpaceMember(u, target, successor, k)
    BY <1>1 DEF MemberStep
  <2>2. TypeOK'
    BY <2>1, MemberStepTypeOK DEF IInv
  <2> QED BY <2>1, <2>2, CreateWorkKeepsIInv, AppendWorkMessageKeepsIInv,
        AcceptWorkReviewKeepsIInv, RequestWorkRetryKeepsIInv, RemoveSpaceMemberKeepsIInv
<1>2. CASE MachineStep
  <2>1. TypeOK'
    BY <1>2, MachineStepTypeOK DEF IInv
  <2> QED BY <1>2, <2>1, RecoverRunKeepsIInv, CreateRunKeepsIInv, CommitKeepsIInv,
        FinishKeepsIInv, LeaseStepKeepsIInv DEF MachineStep
<1>3. CASE Tick
  <2>1. TypeOK'
    BY <1>3, TickTypeOK DEF IInv
  <2> QED BY <1>3, <2>1, LeaseStepKeepsIInv
<1>4. CASE UNCHANGED vars
  BY <1>4 DEF vars, IInv, TypeOK, MembersTypeOK, RunRangesExist, OneUnresolvedRun,
       Unresolved, NeedsRetryRun, ActiveRunIsCurrent, RunIsCurrent, AttemptsFollowRuns,
       OneAttemptPerFence, InputAppliedOnce, VersionHasRun, RunsOf, SucceededRuns,
       ChecksFollowVersions, OpenWorkHasActiveOwner, SpaceStaysGoverned, Holders,
       IsActiveMember
<1> QED BY <1>1, <1>2, <1>3, <1>4 DEF Next

-----------------------------------------------------------------------------
(* The inductive invariant holds in every reachable state. *)
THEOREM Invariance == Spec => []IInv
  BY InitIInv, NextKeepsIInv, PTL DEF Spec

(* Every transaction of the Store keeps the tables well formed. *)
THEOREM TypeCorrect == Spec => []TypeOK
<1>1. IInv => TypeOK
  BY DEF IInv
<1> QED BY <1>1, Invariance, PTL

(* At most one Attempt of a Work passes the locked checks of
   CommitWorkUnderstanding and FinishUnresolvedAttempt: the unresolved-run
   index leaves one active Run, the fence one active Attempt of it. *)
THEOREM OneWriter == Spec => []SingleWriter
<1>1. IInv => SingleWriter
  BY DEF IInv, SingleWriter, HoldsRun, OneUnresolvedRun, Unresolved, OneAttemptPerFence
<1> QED BY <1>1, Invariance, PTL

(* Every applied input was taken by exactly one succeeded Run. *)
THEOREM AppliedOnce == Spec => []InputAppliedOnce
<1>1. IInv => InputAppliedOnce
  BY DEF IInv
<1> QED BY <1>1, Invariance, PTL

(* The stale checks that CommitWorkUnderstanding repeats under the row locks
   always succeed for the holder of the Run. *)
THEOREM HolderCurrent == Spec => []HolderIsCurrent
<1>1. IInv => HolderIsCurrent
  BY DEF IInv, HolderIsCurrent, HoldsRun, ActiveRunIsCurrent
<1> QED BY <1>1, Invariance, PTL

(* RemoveSpaceMember never leaves Open Work without an active owner. *)
THEOREM ActiveOwner == Spec => []OpenWorkHasActiveOwner
<1>1. IInv => OpenWorkHasActiveOwner
  BY DEF IInv
<1> QED BY <1>1, Invariance, PTL

(* No sequence of removals takes the last holder of an authority away. *)
THEOREM Governed == Spec => []SpaceStaysGoverned
<1>1. IInv => SpaceStaysGoverned
  BY DEF IInv
<1> QED BY <1>1, Invariance, PTL

(* While a Work waits for a member's retry no transaction applies input to
   it: the commit needs an active Run, and an unresolved one excludes it. *)
THEOREM RetryGatesProgress == Spec => NothingAppliedWithoutRetry
<1>1. ASSUME IInv, [Next]_vars, NEW w \in DOMAIN works, NeedsRetry(w)
      PROVE  works'[w].applied = works[w].applied /\ works'[w].version = works[w].version
  <2>0. TypeOK /\ works[w] \in Work
    BY <1>1 DEF IInv, TypeOK
  <2>1. ASSUME NEW a \in DOMAIN attempts, NEW review \in BOOLEAN,
               CommitWorkUnderstanding(a, review)
        PROVE  works'[w] = works[w]
    <3>1. /\ attempts[a].run \in DOMAIN runs
          /\ runs[attempts[a].run].state = "active"
      BY <2>1 DEF CommitWorkUnderstanding, HoldsRun
    <3>2. runs[attempts[a].run].work # w
      BY <1>1, <3>1 DEF IInv, OneUnresolvedRun, Unresolved, NeedsRetry, NeedsRetryRun,
           RunsOf, Outcomes
    <3> QED BY <2>0, <2>1, <3>2 DEF CommitWorkUnderstanding, TypeOK
  <2>2. ASSUME NEW u \in Users, NEW k \in Keys, NEW x \in WorkIds, CreateWork(u, x, k)
        PROVE  works'[w] = works[w]
    BY <2>2 DEF CreateWork, Insert
  <2>3. ASSUME NEW u \in Users, NEW k \in Keys, NEW x \in WorkIds, NEW size \in Sizes,
               AppendWorkMessage(u, x, k, size)
        PROVE  works'[w].applied = works[w].applied /\ works'[w].version = works[w].version
    BY <2>0, <2>3 DEF AppendWorkMessage, TypeOK, Work
  <2>4. ASSUME NEW u \in Users, NEW k \in Keys, NEW target \in Users,
               NEW successor \in Users \cup {NoUser},
               RemoveSpaceMember(u, target, successor, k)
        PROVE  works'[w].applied = works[w].applied /\ works'[w].version = works[w].version
    BY <2>0, <2>4 DEF RemoveSpaceMember, TransferredWorks, Work
  <2>5. CASE MemberStep
    <3>1. ASSUME NEW u \in Users, NEW k \in Keys,
                 \/ \E c \in checks : AcceptWorkReview(u, c, k)
                 \/ \E x \in WorkIds : RequestWorkRetry(u, x, k)
          PROVE  works' = works
      BY <3>1 DEF AcceptWorkReview, RequestWorkRetry
    <3> QED BY <2>2, <2>3, <2>4, <2>5, <3>1 DEF MemberStep
  <2>6. CASE MachineStep
    <3>1. ASSUME ~ \E a \in DOMAIN attempts, review \in BOOLEAN :
                       CommitWorkUnderstanding(a, review)
          PROVE  works' = works
      BY <2>6, <3>1 DEF MachineStep, RecoverRun, CreateRun, RenewRunAttempt,
           FinishUnresolvedAttempt, RevokeMachine
    <3> QED BY <2>1, <3>1
  <2>7. CASE Tick \/ UNCHANGED vars
    BY <2>7 DEF Tick, vars
  <2> QED BY <1>1, <2>5, <2>6, <2>7 DEF Next
<1>2. ASSUME IInv, [Next]_vars
      PROVE  [\A w \in DOMAIN works :
                NeedsRetry(w) => /\ works'[w].applied = works[w].applied
                                 /\ works'[w].version = works[w].version]_vars
  BY <1>1, <1>2
<1> QED BY <1>2, Invariance, PTL DEF Spec, NothingAppliedWithoutRetry
-----------------------------------------------------------------------------
(***************************************************************************)
(* What the tables keep for a reader who knows only Works: their input is   *)
(* numbered without gap, an accepted result is the whole result, and every  *)
(* transaction is a step of WorkProgress or changes nothing there.          *)
(***************************************************************************)

(* A step that adds no message, no check and no Work, and moves no head,
   keeps the numbering of the input. *)
LEMMA NoNewInput ==
    ASSUME InputInv, IInv', messages' = messages, DOMAIN works' = DOMAIN works,
           \A w \in DOMAIN works : works'[w].head = works[w].head,
           OneCheckPerVersion'
    PROVE  InputInv'
<1>1. InputFollowsWorks'
  BY DEF InputInv, InputFollowsWorks
<1>2. InputIsContiguous'
  BY DEF InputInv, InputIsContiguous
<1> QED BY <1>1, <1>2 DEF InputInv

(* The goal of a new Work is its only input. *)
LEMMA CreateWorkKeepsInputInv ==
    ASSUME InputInv, IInv', NEW u \in Users, NEW w \in WorkIds, NEW k \in Keys,
           CreateWork(u, w, k)
    PROVE  InputInv'
<1>1. /\ w \notin DOMAIN works
      /\ DOMAIN works' = DOMAIN works \cup {w}
      /\ works'[w].head = 1
      /\ \A x \in DOMAIN works : works'[x] = works[x]
      /\ messages' = messages /\ checks' = checks
  BY DEF CreateWork, Insert
<1>2. InputFollowsWorks'
  BY <1>1 DEF InputInv, InputFollowsWorks
<1>3. InputIsContiguous'
  <2>1. {x \in messages : x.work = w} = {}
    BY <1>1 DEF InputInv, InputFollowsWorks
  <2>2. {m.seq : m \in {x \in messages : x.work = w}} = 2 .. works'[w].head
    BY <1>1, <2>1
  <2> QED BY <1>1, <2>1, <2>2 DEF InputInv, InputIsContiguous
<1>4. OneCheckPerVersion'
  BY <1>1 DEF InputInv, OneCheckPerVersion
<1> QED BY <1>2, <1>3, <1>4 DEF InputInv

(* A message takes the number after the head, which moves with it. *)
LEMMA AppendWorkMessageKeepsInputInv ==
    ASSUME InputInv, IInv', NEW u \in Users, NEW w \in WorkIds, NEW k \in Keys,
           NEW size \in Sizes, AppendWorkMessage(u, w, k, size)
    PROVE  InputInv'
<1> DEFINE new == NewMessage(u, w, k, size)
           OfWork(x) == {m \in messages : m.work = x}
<1>1. TypeOK /\ w \in DOMAIN works /\ works[w].head \in Nat /\ works[w].head >= 1
  BY DEF InputInv, IInv, InputFollowsWorks, AppendWorkMessage, TypeOK, Work
<1>2. /\ DOMAIN works' = DOMAIN works
      /\ works'[w].head = works[w].head + 1
      /\ \A x \in DOMAIN works : x # w => works'[x] = works[x]
      /\ messages' = messages \cup {new} /\ checks' = checks
  BY <1>1 DEF AppendWorkMessage, TypeOK, Work
<1>3. new.work = w /\ new.seq = works[w].head + 1
  BY DEF NewMessage
<1> HIDE DEF new
<1>4. InputFollowsWorks'
  BY <1>1, <1>2, <1>3 DEF InputInv, InputFollowsWorks
<1>5. InputIsContiguous'
  <2>1. ASSUME NEW x \in DOMAIN works
        PROVE  /\ {m.seq : m \in {y \in messages' : y.work = x}} = 2 .. works'[x].head
               /\ \A m, n \in messages' :
                    m.work = x /\ n.work = x /\ m.seq = n.seq => m = n
    <3>0. /\ {m.seq : m \in OfWork(x)} = 2 .. works[x].head
          /\ \A m, n \in messages : m.work = x /\ n.work = x /\ m.seq = n.seq => m = n
      BY <2>1 DEF InputInv, InputIsContiguous
    <3>1. CASE x # w
      <4>1. {y \in messages' : y.work = x} = OfWork(x)
        BY <1>2, <1>3, <3>1
      <4> QED BY <1>2, <1>3, <3>0, <3>1, <4>1
    <3>2. CASE x = w
      <4>1. {y \in messages' : y.work = w} = OfWork(w) \cup {new}
        BY <1>2, <1>3
      <4>2. {m.seq : m \in OfWork(w) \cup {new}}
              = {m.seq : m \in OfWork(w)} \cup {works[w].head + 1}
        BY <1>3
      <4>3. (2 .. works[w].head) \cup {works[w].head + 1} = 2 .. works[w].head + 1
        BY <1>1
      <4>4. \A m \in messages : m.work = w => m.seq # works[w].head + 1
        <5>1. \A m \in messages : m.work = w => m.seq \in {n.seq : n \in OfWork(w)}
          OBVIOUS
        <5> QED BY <1>1, <3>0, <3>2, <5>1
      <4>5. \A m, n \in messages' : m.work = w /\ n.work = w /\ m.seq = n.seq => m = n
        BY <1>2, <1>3, <3>0, <3>2, <4>4
      <4> QED BY <1>2, <3>0, <3>2, <4>1, <4>2, <4>3, <4>5
    <3> QED BY <3>1, <3>2
  <2> QED BY <1>2, <2>1 DEF InputIsContiguous
<1>6. OneCheckPerVersion'
  BY <1>2 DEF InputInv, OneCheckPerVersion
<1> QED BY <1>4, <1>5, <1>6 DEF InputInv

(* An acceptance replaces the check of its version. *)
LEMMA AcceptWorkReviewKeepsInputInv ==
    ASSUME InputInv, IInv', NEW u \in Users, NEW c \in checks, NEW k \in Keys,
           AcceptWorkReview(u, c, k)
    PROVE  InputInv'
<1> DEFINE new == [c EXCEPT !.acceptedBy = u, !.acceptKey = k]
<1>1. new.work = c.work /\ new.version = c.version
  BY DEF InputInv, IInv, TypeOK, Check
<1>2. checks' = (checks \ {c}) \cup {new} /\ works' = works /\ messages' = messages
  BY DEF AcceptWorkReview
<1> HIDE DEF new
<1>3. OneCheckPerVersion'
  BY <1>1, <1>2 DEF InputInv, OneCheckPerVersion
<1> QED BY <1>2, <1>3, NoNewInput

(* A commit moves no head, and its check has a version no check had. *)
LEMMA CommitKeepsInputInv ==
    ASSUME InputInv, IInv', NEW a \in DOMAIN attempts, NEW review \in BOOLEAN,
           CommitWorkUnderstanding(a, review)
    PROVE  InputInv'
<1>r. PICK r : r = attempts[a].run
  OBVIOUS
<1>w. PICK w : w = runs[r].work
  OBVIOUS
<1>1. /\ r \in DOMAIN runs /\ w \in DOMAIN works /\ TypeOK
      /\ \A x \in DOMAIN works : works[x] \in Work
  BY <1>r, <1>w DEF InputInv, IInv, RunRangesExist, CommitWorkUnderstanding, HoldsRun, TypeOK
<1>2. works' = [works EXCEPT ![w] = WorkAfterCommit(w, r, a)] /\ messages' = messages
  BY <1>r, <1>w DEF CommitWorkUnderstanding
<1>3. WorkAfterCommit(w, r, a).head = works[w].head
  BY <1>1 DEF WorkAfterCommit, Work
<1>4. DOMAIN works' = DOMAIN works /\ \A x \in DOMAIN works : works'[x].head = works[x].head
  BY <1>1, <1>2, <1>3 DEF TypeOK
<1>5. OneCheckPerVersion'
  <2>1. CASE checks' = checks
    BY <2>1 DEF InputInv, OneCheckPerVersion
  <2>2. CASE checks' # checks
    <3>1. /\ ~ \E c \in checks : c.work = w /\ c.version = works[w].version + 1
          /\ checks' = checks \cup
               {[work |-> w, version |-> works[w].version + 1, content |-> a,
                 acceptedBy |-> NoUser, acceptKey |-> NoKey]}
      BY <1>r, <1>w, <2>2 DEF CommitWorkUnderstanding
    <3> QED BY <3>1 DEF InputInv, OneCheckPerVersion
  <2> QED BY <2>1, <2>2
<1> QED BY <1>2, <1>4, <1>5, NoNewInput

(* A removal changes owners only. *)
LEMMA RemoveSpaceMemberKeepsInputInv ==
    ASSUME InputInv, IInv', NEW u \in Users, NEW target \in Users,
           NEW successor \in Users \cup {NoUser}, NEW k \in Keys,
           RemoveSpaceMember(u, target, successor, k)
    PROVE  InputInv'
<1>1. /\ DOMAIN works' = DOMAIN works /\ messages' = messages /\ checks' = checks
      /\ \A w \in DOMAIN works : works'[w].head = works[w].head
  BY DEF InputInv, IInv, TypeOK, Work, RemoveSpaceMember, TransferredWorks
<1>2. OneCheckPerVersion'
  BY <1>1 DEF InputInv, OneCheckPerVersion
<1> QED BY <1>1, <1>2, NoNewInput

(* Every other transaction touches neither Works, messages nor checks. *)
LEMMA RunStepKeepsInputInv ==
    ASSUME InputInv, IInv', works' = works, messages' = messages, checks' = checks
    PROVE  InputInv'
  BY NoNewInput DEF InputInv, OneCheckPerVersion

(* Every transaction, by the lemma of its action. *)
LEMMA NextKeepsInputInv == ASSUME InputInv, [Next]_vars PROVE InputInv'
<1>0. IInv'
  BY NextKeepsIInv DEF InputInv
<1>1. CASE MemberStep
  <2>1. ASSUME NEW u \in Users, NEW k \in Keys, NEW w \in WorkIds, RequestWorkRetry(u, w, k)
        PROVE  InputInv'
    BY <1>0, <2>1, RunStepKeepsInputInv DEF RequestWorkRetry
  <2> QED BY <1>0, <1>1, <2>1, CreateWorkKeepsInputInv, AppendWorkMessageKeepsInputInv,
        AcceptWorkReviewKeepsInputInv, RemoveSpaceMemberKeepsInputInv DEF MemberStep
<1>2. CASE MachineStep
  <2>1. ASSUME ~ \E a \in DOMAIN attempts, review \in BOOLEAN :
                     CommitWorkUnderstanding(a, review)
        PROVE  works' = works /\ messages' = messages /\ checks' = checks
    BY <1>2, <2>1 DEF MachineStep, RecoverRun, CreateRun, RenewRunAttempt,
         FinishUnresolvedAttempt, RevokeMachine
  <2> QED BY <1>0, <2>1, CommitKeepsInputInv, RunStepKeepsInputInv
<1>3. CASE Tick \/ UNCHANGED vars
  BY <1>0, <1>3, RunStepKeepsInputInv DEF Tick, vars
<1> QED BY <1>1, <1>2, <1>3 DEF Next

(* The strengthened invariant holds in every reachable state. *)
THEOREM InputInvariance == Spec => []InputInv
<1>1. Init => InputInv
  BY InitIInv DEF InputInv, Init, EmptyTable, InputFollowsWorks, InputIsContiguous,
       OneCheckPerVersion
<1> QED BY <1>1, NextKeepsInputInv, PTL DEF Spec

(* AppendWorkMessage numbers a Work's messages 2, 3, ... up to the head: the
   range of a Run names exactly the messages it was given. *)
THEOREM ContiguousInput == Spec => []InputIsContiguous
<1>1. InputInv => InputIsContiguous
  BY DEF InputInv
<1> QED BY <1>1, InputInvariance, PTL

(* AcceptWorkReview accepts only the result of the Run that ended at the
   input head, and only for the owner: the accepted row replaces the one
   check of its version, which belongs to the Run that made the version. *)
THEOREM AcceptanceIsWhole == Spec => AcceptedReviewCoversAllInput
<1>1. ASSUME InputInv, [Next]_vars, NEW c \in checks, NEW d \in checks',
             c.work = d.work, c.version = d.version,
             c.acceptedBy = NoUser, d.acceptedBy # NoUser
      PROVE  /\ d.acceptedBy = works[c.work].owner
             /\ \E r \in SucceededRuns(c.work) :
                  /\ runs[r].base + 1 = c.version
                  /\ runs[r].end = works[c.work].head
                  /\ runs[r].end = works[c.work].applied
  <2>1. d \notin checks
    BY <1>1 DEF InputInv, OneCheckPerVersion
  <2>2. ASSUME NEW a \in DOMAIN attempts, NEW review \in BOOLEAN,
               CommitWorkUnderstanding(a, review)
        PROVE  FALSE
    <3>1. d.acceptedBy = NoUser
      BY <2>1, <2>2 DEF CommitWorkUnderstanding
    <3> QED BY <1>1, <3>1
  <2>3. PICK u \in Users, e \in checks, k \in Keys : AcceptWorkReview(u, e, k)
    <3>1. checks' # checks
      BY <2>1
    <3> QED BY <1>1, <2>2, <3>1 DEF Next, MemberStep, MachineStep, Tick, vars, CreateWork,
          AppendWorkMessage, RequestWorkRetry, RemoveSpaceMember, RecoverRun, CreateRun,
          RenewRunAttempt, FinishUnresolvedAttempt, RevokeMachine
  <2>4. /\ d.work = e.work /\ d.version = e.version /\ d.acceptedBy = u
    <3>1. d = [e EXCEPT !.acceptedBy = u, !.acceptKey = k]
      BY <2>1, <2>3 DEF AcceptWorkReview
    <3>2. e \in Check
      BY <1>1 DEF InputInv, IInv, TypeOK
    <3> QED BY <3>1, <3>2 DEF Check
  <2>5. e = c
    BY <1>1, <2>4 DEF InputInv, OneCheckPerVersion
  <2>6. /\ c.work \in DOMAIN works /\ works[c.work].owner = u
        /\ c.version = works[c.work].version
        /\ works[c.work].applied = works[c.work].head
    BY <2>3, <2>5 DEF AcceptWorkReview, CheckIsCurrent
  <2>7. works[c.work].version > 0
    <3>1. c.version \in 1 .. works[c.work].version /\ works[c.work].version \in Nat
      BY <1>1, <2>6 DEF InputInv, IInv, ChecksFollowVersions, TypeOK, Work
    <3> QED BY <2>6, <3>1
  <2>8. \E r \in SucceededRuns(c.work) : /\ runs[r].base + 1 = works[c.work].version
                                         /\ runs[r].end = works[c.work].applied
    BY <1>1, <2>6, <2>7 DEF InputInv, IInv, VersionHasRun
  <2> QED BY <2>4, <2>6, <2>8
<1>2. ASSUME InputInv, [Next]_vars
      PROVE  [\A c \in checks : \A d \in checks' :
                /\ c.work = d.work /\ c.version = d.version
                /\ c.acceptedBy = NoUser /\ d.acceptedBy # NoUser
                => /\ d.acceptedBy = works[c.work].owner
                   /\ \E r \in SucceededRuns(c.work) :
                        /\ runs[r].base + 1 = c.version
                        /\ runs[r].end = works[c.work].head
                        /\ runs[r].end = works[c.work].applied]_vars
  BY <1>1, <1>2
<1> QED BY <1>2, InputInvariance, PTL DEF Spec, AcceptedReviewCoversAllInput

-----------------------------------------------------------------------------
(* The refinement.  What WorkProgress sees of a Work depends on the Work's
   row and on the states and ends of its Runs. *)

(* A Work whose Runs keep their states, ends and retries keeps its phase and
   target. *)
LEMMA SameRuns ==
    ASSUME NEW w, RunsOf(w)' = RunsOf(w),
           \A r \in RunsOf(w) : /\ runs'[r].state = runs[r].state
                                /\ runs'[r].end = runs[r].end
                                /\ runs'[r].retryBy = runs[r].retryBy
    PROVE  PhaseOf(w)' = PhaseOf(w) /\ TargetOf(w)' = TargetOf(w)
<1>1. ActiveRunsOf(w)' = ActiveRunsOf(w)
  BY DEF ActiveRunsOf
<1>2. NeedsRetry(w)' = NeedsRetry(w)
  BY DEF NeedsRetry, NeedsRetryRun
<1>3. ActiveRunsOf(w) \subseteq RunsOf(w)
  BY DEF ActiveRunsOf
<1>4. TargetOf(w)' = TargetOf(w)
  <2>1. CASE ActiveRunsOf(w) = {}
    BY <1>1, <2>1 DEF TargetOf
  <2>2. CASE ActiveRunsOf(w) # {}
    <3>1. PICK r : r = CHOOSE q \in ActiveRunsOf(w) : TRUE
      OBVIOUS
    <3>2. r \in RunsOf(w)
      BY <1>3, <2>2, <3>1
    <3> QED BY <1>1, <2>2, <3>1, <3>2 DEF TargetOf
  <2> QED BY <2>1, <2>2
<1>5. PhaseOf(w)' = PhaseOf(w)
  BY <1>1, <1>2 DEF PhaseOf
<1> QED BY <1>4, <1>5

(* The target of a working Work is the end of its one active Run. *)
LEMMA ActiveRunIsTarget ==
    ASSUME OneUnresolvedRun, NEW w, NEW r \in RunsOf(w), runs[r].state = "active"
    PROVE  PhaseOf(w) = "working" /\ TargetOf(w) = runs[r].end
<1>1. ActiveRunsOf(w) = {r}
  BY DEF OneUnresolvedRun, Unresolved, ActiveRunsOf, RunsOf
<1> QED BY <1>1 DEF PhaseOf, TargetOf

(* A Work without an unresolved Run is idle. *)
LEMMA ResolvedIsIdle ==
    ASSUME NEW w, ~ HasUnresolvedRun(w)
    PROVE  PhaseOf(w) = "idle" /\ TargetOf(w) = 0
  BY DEF HasUnresolvedRun, Unresolved, ActiveRunsOf, NeedsRetry, PhaseOf, TargetOf

(* A Work whose one unresolved Run waits for a retry is stopped. *)
LEMMA FailedRunStops ==
    ASSUME OneUnresolvedRun, NEW w, NEW r \in RunsOf(w), NeedsRetryRun(r)
    PROVE  PhaseOf(w) = "stopped" /\ TargetOf(w) = 0
<1>1. ActiveRunsOf(w) = {}
  BY DEF OneUnresolvedRun, Unresolved, ActiveRunsOf, RunsOf, NeedsRetryRun, Outcomes
<1> QED BY <1>1 DEF PhaseOf, TargetOf, NeedsRetry

(* No row yet: no input, nothing applied, nothing running. *)
LEMMA InitProgress == ASSUME Init PROVE Progress!Init
<1>1. DOMAIN works = {} /\ DOMAIN runs = {}
  BY DEF Init, EmptyTable
<1>2. \A w : ~ HasUnresolvedRun(w)
  BY <1>1 DEF HasUnresolvedRun, RunsOf
<1>3. \A w \in WorkIds : /\ HeadOf(w) = 0 /\ AppliedOf(w) = 0
                         /\ PhaseOf(w) = "idle" /\ TargetOf(w) = 0
  BY <1>1, <1>2, ResolvedIsIdle DEF HeadOf, AppliedOf
<1> QED BY <1>3 DEF Progress!Init

(* A transaction that leaves the input, the applied input and the Runs of
   every Work as they were is invisible. *)
LEMMA InvisibleStep ==
    ASSUME DOMAIN works' = DOMAIN works, DOMAIN runs' = DOMAIN runs,
           \A w \in DOMAIN works : /\ works'[w].head = works[w].head
                                   /\ works'[w].applied = works[w].applied,
           \A r \in DOMAIN runs : /\ runs'[r].work = runs[r].work
                                  /\ runs'[r].state = runs[r].state
                                  /\ runs'[r].end = runs[r].end
                                  /\ runs'[r].retryBy = runs[r].retryBy
    PROVE  UNCHANGED Progress!progressVars
<1>1. \A w : RunsOf(w)' = RunsOf(w) /\ RunsOf(w) \subseteq DOMAIN runs
  BY DEF RunsOf
<1>2. \A w : PhaseOf(w)' = PhaseOf(w) /\ TargetOf(w)' = TargetOf(w)
  BY <1>1, SameRuns
<1>3. \A w : HeadOf(w)' = HeadOf(w) /\ AppliedOf(w)' = AppliedOf(w)
  BY DEF HeadOf, AppliedOf
<1> QED BY <1>2, <1>3 DEF Progress!progressVars

(* CreateWork opens the Work with its goal as the first input. *)
LEMMA CreateWorkOpens ==
    ASSUME InputInv, NEW u \in Users, NEW w \in WorkIds, NEW k \in Keys,
           CreateWork(u, w, k)
    PROVE  Progress!Open(w)
<1>1. /\ w \notin DOMAIN works
      /\ DOMAIN works' = DOMAIN works \cup {w}
      /\ works'[w].head = 1 /\ works'[w].applied = 0
      /\ \A x \in DOMAIN works : works'[x] = works[x]
      /\ runs' = runs
  BY DEF CreateWork, Insert
<1>2. \A x : PhaseOf(x)' = PhaseOf(x) /\ TargetOf(x)' = TargetOf(x)
  BY <1>1, SameRuns DEF RunsOf
<1>3. /\ HeadOf(w) = 0 /\ HeadOf(w)' = 1
      /\ \A x : /\ x # w => HeadOf(x)' = HeadOf(x)
                /\ AppliedOf(x)' = AppliedOf(x)
  BY <1>1 DEF HeadOf, AppliedOf
<1> QED BY <1>2, <1>3 DEF Progress!Open

(* AppendWorkMessage appends one input. *)
LEMMA AppendWorkMessageAppends ==
    ASSUME InputInv, NEW u \in Users, NEW w \in WorkIds, NEW k \in Keys,
           NEW size \in Sizes, AppendWorkMessage(u, w, k, size)
    PROVE  Progress!Append(w)
<1>1. /\ w \in DOMAIN works /\ works[w].head >= 1 /\ works[w].head \in Nat
      /\ DOMAIN works' = DOMAIN works
      /\ works'[w].head = works[w].head + 1
      /\ \A x \in DOMAIN works : /\ x # w => works'[x].head = works[x].head
                                 /\ works'[x].applied = works[x].applied
      /\ runs' = runs
  BY DEF AppendWorkMessage, InputInv, IInv, InputFollowsWorks, TypeOK, Work
<1>2. \A x : PhaseOf(x)' = PhaseOf(x) /\ TargetOf(x)' = TargetOf(x)
  BY <1>1, SameRuns DEF RunsOf
<1>3. /\ HeadOf(w) > 0 /\ HeadOf(w)' = HeadOf(w) + 1
      /\ \A x : /\ x # w => HeadOf(x)' = HeadOf(x)
                /\ AppliedOf(x)' = AppliedOf(x)
  BY <1>1 DEF HeadOf, AppliedOf
<1> QED BY <1>2, <1>3 DEF Progress!Append

(* RequestWorkRetry permits a stopped Work to go on. *)
LEMMA RequestWorkRetryPermits ==
    ASSUME InputInv, NEW u \in Users, NEW w \in WorkIds, NEW k \in Keys,
           RequestWorkRetry(u, w, k)
    PROVE  Progress!Permit(w)
<1>0. TypeOK /\ OneUnresolvedRun
  BY DEF InputInv, IInv
<1>1. PICK r \in DOMAIN runs :
           /\ NeedsRetryRun(r) /\ runs[r].work = w
           /\ runs' = [runs EXCEPT ![r] = [@ EXCEPT !.retryBy = u, !.retryKey = k]]
  BY DEF RequestWorkRetry, RunsOf
<1>2. /\ DOMAIN runs' = DOMAIN runs
      /\ runs'[r].retryBy = u
      /\ \A q \in DOMAIN runs : /\ q # r => runs'[q] = runs[q]
                                /\ runs'[q].work = runs[q].work
                                /\ runs'[q].state = runs[q].state
  BY <1>0, <1>1 DEF TypeOK, Run
<1>3. \A x : /\ RunsOf(x)' = RunsOf(x)
             /\ x # w => \A q \in RunsOf(x) : runs'[q] = runs[q]
  BY <1>1, <1>2 DEF RunsOf
<1>4. ASSUME NEW x, x # w
      PROVE  PhaseOf(x)' = PhaseOf(x) /\ TargetOf(x)' = TargetOf(x)
  <2>1. \A q \in RunsOf(x) : /\ runs'[q].state = runs[q].state
                             /\ runs'[q].end = runs[q].end
                             /\ runs'[q].retryBy = runs[q].retryBy
    BY <1>3, <1>4
  <2> QED BY <1>3, <2>1, SameRuns
<1>5. \A q \in RunsOf(w)' : ~ Unresolved(q)'
  <2>0. Unresolved(r)
    BY <1>1 DEF Unresolved
  <2>1. \A q \in DOMAIN runs : q # r /\ runs[q].work = w => ~ Unresolved(q)
    BY <1>0, <1>1, <2>0 DEF OneUnresolvedRun
  <2>2. runs'[r].state \in Outcomes /\ runs'[r].retryBy # NoUser
    BY <1>1, <1>2, MembersAssumption DEF NeedsRetryRun
  <2>3. ~ Unresolved(r)'
    BY <2>2 DEF Unresolved, NeedsRetryRun, Outcomes
  <2>4. \A q \in DOMAIN runs : q # r => Unresolved(q)' = Unresolved(q)
    BY <1>2 DEF Unresolved, NeedsRetryRun
  <2> QED BY <1>2, <2>1, <2>3, <2>4 DEF RunsOf
<1>6. PhaseOf(w)' = "idle" /\ TargetOf(w)' = 0
  BY <1>5 DEF Unresolved, ActiveRunsOf, NeedsRetry, PhaseOf, TargetOf
<1>7. PhaseOf(w) = "stopped" /\ TargetOf(w) = 0
  BY <1>0, <1>1, FailedRunStops DEF RunsOf
<1>8. \A x : HeadOf(x)' = HeadOf(x) /\ AppliedOf(x)' = AppliedOf(x)
  BY DEF HeadOf, AppliedOf, RequestWorkRetry
<1>9. \A x : TargetOf(x)' = TargetOf(x)
  BY <1>4, <1>6, <1>7
<1> QED BY <1>4, <1>6, <1>7, <1>8, <1>9 DEF Progress!Permit

(* ClaimRun starts a step over the next inputs of an idle Work. *)
LEMMA CreateRunStarts ==
    ASSUME InputInv, NEW m \in Machines, NEW w \in DOMAIN works,
           NEW r \in RunIds, NEW a \in AttemptIds, CreateRun(m, w, r, a)
    PROVE  w \in WorkIds /\ Progress!Start(w)
<1>0. TypeOK /\ OneUnresolvedRun /\ w \in WorkIds
  BY DEF InputInv, IInv, TypeOK
<1>1. PICK end \in (works[w].applied + 1) .. works[w].head :
           runs' = Insert(runs, r,
                     [work |-> w, state |-> "active",
                      start |-> works[w].applied + 1, end |-> end,
                      base |-> works[w].version, fence |-> 1,
                      retryBy |-> NoUser, retryKey |-> NoKey])
  BY DEF CreateRun
<1>2. /\ r \notin DOMAIN runs
      /\ DOMAIN runs' = DOMAIN runs \cup {r}
      /\ \A q \in DOMAIN runs : runs'[q] = runs[q]
      /\ runs'[r].work = w /\ runs'[r].state = "active" /\ runs'[r].end = end
  BY <1>1 DEF CreateRun, Insert
<1>3. ASSUME NEW x, x # w
      PROVE  PhaseOf(x)' = PhaseOf(x) /\ TargetOf(x)' = TargetOf(x)
  <2>1. RunsOf(x)' = RunsOf(x) /\ \A q \in RunsOf(x) : runs'[q] = runs[q]
    BY <1>2, <1>3 DEF RunsOf
  <2> QED BY <2>1, SameRuns
<1>4. PhaseOf(w) = "idle"
  BY ResolvedIsIdle DEF CreateRun
<1>5. ActiveRunsOf(w)' = {r}
  <2>1. \A q \in RunsOf(w) : runs[q].state # "active"
    BY DEF CreateRun, HasUnresolvedRun, Unresolved
  <2> QED BY <1>2, <2>1 DEF ActiveRunsOf, RunsOf
<1>6. PhaseOf(w)' = "working" /\ TargetOf(w)' = end
  BY <1>2, <1>5 DEF PhaseOf, TargetOf
<1>7. \A x : HeadOf(x)' = HeadOf(x) /\ AppliedOf(x)' = AppliedOf(x)
  BY DEF HeadOf, AppliedOf, CreateRun
<1>8. end \in (AppliedOf(w) + 1) .. HeadOf(w)
  BY <1>1 DEF HeadOf, AppliedOf
<1> QED BY <1>0, <1>3, <1>4, <1>6, <1>7, <1>8 DEF Progress!Start

(* The end of the one active Run of a Work changes only this Work, and leaves
   it stopped or idle as the Run's new state says. *)
LEMMA ActiveRunEnds ==
    ASSUME TypeOK, OneUnresolvedRun, NEW r \in DOMAIN runs,
           runs[r].state = "active", DOMAIN runs' = DOMAIN runs,
           runs'[r].state # "active", runs'[r].work = runs[r].work,
           runs'[r].retryBy = NoUser,
           \A q \in DOMAIN runs : q # r => runs'[q] = runs[q]
    PROVE  /\ \A x : x # runs[r].work =>
                PhaseOf(x)' = PhaseOf(x) /\ TargetOf(x)' = TargetOf(x)
           /\ TargetOf(runs[r].work)' = 0
           /\ PhaseOf(runs[r].work)' = IF runs'[r].state \in Outcomes THEN "stopped"
                                       ELSE "idle"
<1>w. PICK w : w = runs[r].work
  OBVIOUS
<1>1. ASSUME NEW x, x # w
      PROVE  PhaseOf(x)' = PhaseOf(x) /\ TargetOf(x)' = TargetOf(x)
  <2>1. RunsOf(x)' = RunsOf(x) /\ \A q \in RunsOf(x) : runs'[q] = runs[q]
    BY <1>w, <1>1 DEF RunsOf
  <2> QED BY <2>1, SameRuns
<1>2. \A q \in RunsOf(w) : q # r => ~ Unresolved(q)
  BY <1>w DEF OneUnresolvedRun, Unresolved, RunsOf
<1>3. RunsOf(w)' = RunsOf(w) /\ r \in RunsOf(w)
  BY <1>w DEF RunsOf
<1>4. \A q \in RunsOf(w) : q # r => /\ runs'[q].state # "active"
                                    /\ ~ NeedsRetryRun(q)'
  BY <1>2 DEF Unresolved, NeedsRetryRun, RunsOf
<1>5. ActiveRunsOf(w)' = {}
  BY <1>3, <1>4 DEF ActiveRunsOf
<1>6. NeedsRetry(w)' <=> runs'[r].state \in Outcomes
  BY <1>3, <1>4 DEF NeedsRetry, NeedsRetryRun
<1>7. /\ TargetOf(w)' = 0
      /\ PhaseOf(w)' = IF runs'[r].state \in Outcomes THEN "stopped" ELSE "idle"
  BY <1>5, <1>6 DEF TargetOf, PhaseOf
<1> QED BY <1>w, <1>1, <1>7

(* CommitWorkUnderstanding applies the input up to the end of the Run. *)
LEMMA CommitApplies ==
    ASSUME InputInv, ActiveRunsHaveNoRetry, NEW a \in DOMAIN attempts,
           NEW review \in BOOLEAN, CommitWorkUnderstanding(a, review)
    PROVE  \E w \in WorkIds : Progress!Apply(w)
<1>r. PICK r : r = attempts[a].run
  OBVIOUS
<1>w. PICK w : w = runs[r].work
  OBVIOUS
<1>1. /\ TypeOK /\ OneUnresolvedRun
      /\ r \in DOMAIN runs /\ runs[r].state = "active"
      /\ w \in DOMAIN works /\ w \in WorkIds
      /\ \A x \in DOMAIN works : works[x] \in Work
  BY <1>r, <1>w DEF InputInv, IInv, RunRangesExist, CommitWorkUnderstanding, HoldsRun, TypeOK
<1>2. /\ DOMAIN runs' = DOMAIN runs
      /\ runs'[r].state = "succeeded"
      /\ runs'[r].work = runs[r].work /\ runs'[r].retryBy = runs[r].retryBy
      /\ \A q \in DOMAIN runs : q # r => runs'[q] = runs[q]
  BY <1>1, <1>r DEF CommitWorkUnderstanding, TypeOK, Run
<1>3. works' = [works EXCEPT ![w] = WorkAfterCommit(w, r, a)]
  BY <1>r, <1>w DEF CommitWorkUnderstanding
<1>4. /\ WorkAfterCommit(w, r, a).head = works[w].head
      /\ WorkAfterCommit(w, r, a).applied = runs[r].end
  BY <1>1 DEF WorkAfterCommit, Work
<1>5. /\ \A x : HeadOf(x)' = HeadOf(x)
      /\ AppliedOf(w)' = runs[r].end
      /\ \A x : x # w => AppliedOf(x)' = AppliedOf(x)
  BY <1>1, <1>3, <1>4 DEF HeadOf, AppliedOf, TypeOK
<1>6. runs[r].retryBy = NoUser
  BY <1>1 DEF ActiveRunsHaveNoRetry
<1>7. /\ \A x : x # w => PhaseOf(x)' = PhaseOf(x) /\ TargetOf(x)' = TargetOf(x)
      /\ TargetOf(w)' = 0 /\ PhaseOf(w)' = "idle"
  BY <1>w, <1>1, <1>2, <1>6, ActiveRunEnds DEF Outcomes
<1>8. PhaseOf(w) = "working" /\ TargetOf(w) = runs[r].end
  <2>1. r \in RunsOf(w)
    BY <1>1, <1>w DEF RunsOf
  <2> QED BY <1>1, <2>1, ActiveRunIsTarget
<1> QED BY <1>1, <1>5, <1>7, <1>8 DEF Progress!Apply

(* FinishUnresolvedAttempt stops the Work. *)
LEMMA FinishStops ==
    ASSUME InputInv, ActiveRunsHaveNoRetry, NEW a \in DOMAIN attempts,
           NEW outcome \in Outcomes, FinishUnresolvedAttempt(a, outcome)
    PROVE  \E w \in WorkIds : Progress!Stop(w)
<1>r. PICK r : r = attempts[a].run
  OBVIOUS
<1>w. PICK w : w = runs[r].work
  OBVIOUS
<1>1. /\ TypeOK /\ OneUnresolvedRun
      /\ r \in DOMAIN runs /\ runs[r].state = "active"
      /\ w \in DOMAIN works /\ w \in WorkIds
  BY <1>r, <1>w DEF InputInv, IInv, RunRangesExist, FinishUnresolvedAttempt, HoldsRun, TypeOK
<1>2. /\ DOMAIN runs' = DOMAIN runs
      /\ runs'[r].state = outcome /\ outcome # "active"
      /\ runs'[r].work = runs[r].work /\ runs'[r].retryBy = runs[r].retryBy
      /\ \A q \in DOMAIN runs : q # r => runs'[q] = runs[q]
  BY <1>1, <1>r DEF FinishUnresolvedAttempt, TypeOK, Run, Outcomes
<1>3. \A x : HeadOf(x)' = HeadOf(x) /\ AppliedOf(x)' = AppliedOf(x)
  BY DEF HeadOf, AppliedOf, FinishUnresolvedAttempt
<1>4. runs[r].retryBy = NoUser
  BY <1>1 DEF ActiveRunsHaveNoRetry
<1>5. /\ \A x : x # w => PhaseOf(x)' = PhaseOf(x) /\ TargetOf(x)' = TargetOf(x)
      /\ TargetOf(w)' = 0 /\ PhaseOf(w)' = "stopped"
  BY <1>w, <1>1, <1>2, <1>4, ActiveRunEnds
<1>6. PhaseOf(w) = "working"
  <2>1. r \in RunsOf(w)
    BY <1>1, <1>w DEF RunsOf
  <2> QED BY <1>1, <2>1, ActiveRunIsTarget
<1> QED BY <1>1, <1>3, <1>5, <1>6 DEF Progress!Stop
(* A retry is written on failed Runs only, and no failed Run gets active. *)
LEMMA NextKeepsNoRetry ==
    ASSUME TypeOK, ActiveRunsHaveNoRetry, [Next]_vars PROVE ActiveRunsHaveNoRetry'
<1>0. \A r \in DOMAIN runs : runs[r] \in Run
  BY DEF TypeOK
<1>1. ASSUME NEW u \in Users, NEW k \in Keys, NEW w \in WorkIds, RequestWorkRetry(u, w, k)
      PROVE  ActiveRunsHaveNoRetry'
  <2>1. PICK r \in DOMAIN runs :
             /\ NeedsRetryRun(r)
             /\ runs' = [runs EXCEPT ![r] = [@ EXCEPT !.retryBy = u, !.retryKey = k]]
    BY <1>1 DEF RequestWorkRetry, RunsOf
  <2>2. /\ DOMAIN runs' = DOMAIN runs
        /\ runs'[r].state = runs[r].state
        /\ \A q \in DOMAIN runs : q # r => runs'[q] = runs[q]
    BY <1>0, <2>1 DEF TypeOK, Run
  <2> QED BY <2>1, <2>2 DEF ActiveRunsHaveNoRetry, NeedsRetryRun, Outcomes
<1>2. ASSUME NEW m \in Machines, NEW w \in DOMAIN works, NEW r \in RunIds,
             NEW a \in AttemptIds, CreateRun(m, w, r, a)
      PROVE  ActiveRunsHaveNoRetry'
  BY <1>2 DEF CreateRun, Insert, ActiveRunsHaveNoRetry
<1>3. ASSUME NEW m \in Machines, NEW old \in DOMAIN attempts, NEW a \in AttemptIds,
             RecoverRun(m, old, a)
      PROVE  ActiveRunsHaveNoRetry'
  <2>1. PICK r \in DOMAIN runs : runs' = [runs EXCEPT ![r] = HandedOver(r)]
    BY <1>3 DEF RecoverRun
  <2>2. HandedOver(r).state = runs[r].state /\ HandedOver(r).retryBy = runs[r].retryBy
    BY <1>0 DEF HandedOver, Run
  <2> QED BY <2>1, <2>2 DEF ActiveRunsHaveNoRetry, TypeOK
<1>4. ASSUME NEW a \in DOMAIN attempts, NEW review \in BOOLEAN,
             CommitWorkUnderstanding(a, review)
      PROVE  ActiveRunsHaveNoRetry'
  BY <1>0, <1>4 DEF CommitWorkUnderstanding, HoldsRun, ActiveRunsHaveNoRetry, TypeOK, Run
<1>5. ASSUME NEW a \in DOMAIN attempts, NEW outcome \in Outcomes,
             FinishUnresolvedAttempt(a, outcome)
      PROVE  ActiveRunsHaveNoRetry'
  BY <1>0, <1>5 DEF FinishUnresolvedAttempt, HoldsRun, ActiveRunsHaveNoRetry, TypeOK, Run
<1>6. ASSUME runs' = runs PROVE ActiveRunsHaveNoRetry'
  BY <1>6 DEF ActiveRunsHaveNoRetry
<1>7. CASE MemberStep
  BY <1>1, <1>6, <1>7 DEF MemberStep, CreateWork, AppendWorkMessage, AcceptWorkReview,
       RemoveSpaceMember
<1>8. CASE MachineStep
  BY <1>2, <1>3, <1>4, <1>5, <1>6, <1>8 DEF MachineStep, RenewRunAttempt, RevokeMachine
<1>9. CASE Tick \/ UNCHANGED vars
  BY <1>6, <1>9 DEF Tick, vars
<1> QED BY <1>7, <1>8, <1>9 DEF Next

(* Removals, acceptances, hand-overs, renewals, revocations and the clock
   are invisible to a Work's promise. *)
LEMMA HiddenStep ==
    ASSUME TypeOK,
           \/ \E u \in Users, k \in Keys :
                 \/ \E c \in checks : AcceptWorkReview(u, c, k)
                 \/ \E target \in Users, successor \in Users \cup {NoUser} :
                        RemoveSpaceMember(u, target, successor, k)
           \/ \E m \in Machines, old \in DOMAIN attempts, a \in AttemptIds :
                  RecoverRun(m, old, a)
           \/ \E a \in DOMAIN attempts : RenewRunAttempt(a)
           \/ \E m \in Machines : RevokeMachine(m)
           \/ Tick
           \/ UNCHANGED vars
    PROVE  UNCHANGED Progress!progressVars
<1>1. ASSUME works' = works, runs' = runs PROVE UNCHANGED Progress!progressVars
  BY <1>1, InvisibleStep
<1>2. ASSUME NEW u \in Users, NEW k \in Keys, NEW target \in Users,
             NEW successor \in Users \cup {NoUser},
             RemoveSpaceMember(u, target, successor, k)
      PROVE  UNCHANGED Progress!progressVars
  <2>1. /\ DOMAIN works' = DOMAIN works /\ runs' = runs
        /\ \A w \in DOMAIN works : /\ works'[w].head = works[w].head
                                   /\ works'[w].applied = works[w].applied
    BY <1>2 DEF TypeOK, Work, RemoveSpaceMember, TransferredWorks
  <2> QED BY <2>1, InvisibleStep
<1>3. ASSUME NEW m \in Machines, NEW old \in DOMAIN attempts, NEW a \in AttemptIds,
             RecoverRun(m, old, a)
      PROVE  UNCHANGED Progress!progressVars
  <2>1. PICK r \in DOMAIN runs : runs' = [runs EXCEPT ![r] = HandedOver(r)]
    BY <1>3 DEF RecoverRun
  <2>2. /\ HandedOver(r).work = runs[r].work
        /\ HandedOver(r).state = runs[r].state
        /\ HandedOver(r).end = runs[r].end
        /\ HandedOver(r).retryBy = runs[r].retryBy
    BY DEF TypeOK, HandedOver, Run
  <2>3. /\ DOMAIN runs' = DOMAIN runs /\ works' = works
        /\ \A q \in DOMAIN runs : /\ runs'[q].work = runs[q].work
                                  /\ runs'[q].state = runs[q].state
                                  /\ runs'[q].end = runs[q].end
                                  /\ runs'[q].retryBy = runs[q].retryBy
    BY <1>3, <2>1, <2>2 DEF RecoverRun, TypeOK
  <2> QED BY <2>3, InvisibleStep
<1> QED BY <1>1, <1>2, <1>3 DEF AcceptWorkReview, RenewRunAttempt, RevokeMachine, Tick, vars

(* Every transaction of the Store is a step of WorkProgress, or no step. *)
LEMMA NextIsProgress ==
    ASSUME InputInv, ActiveRunsHaveNoRetry, [Next]_vars
    PROVE  [Progress!Next]_Progress!progressVars
<1>0. TypeOK
  BY DEF InputInv, IInv
<1>1. ASSUME NEW w \in WorkIds,
             \/ Progress!Open(w) \/ Progress!Append(w) \/ Progress!Start(w)
             \/ Progress!Apply(w) \/ Progress!Stop(w) \/ Progress!Permit(w)
      PROVE  Progress!Next
  BY <1>1 DEF Progress!Next
<1>2. CASE MemberStep
  BY <1>0, <1>1, <1>2, CreateWorkOpens, AppendWorkMessageAppends, RequestWorkRetryPermits,
     HiddenStep DEF MemberStep
<1>3. CASE MachineStep
  BY <1>0, <1>1, <1>3, CreateRunStarts, CommitApplies, FinishStops, HiddenStep
  DEF MachineStep
<1>4. CASE Tick \/ UNCHANGED vars
  BY <1>0, <1>4, HiddenStep
<1> QED BY <1>2, <1>3, <1>4 DEF Next

(* The tables implement the promise: whatever Machines, leases, hand-overs
   and members do, each Work's input is applied in order, in steps fixed when
   they start, and a stopped Work moves again only when a member permits it. *)
THEOREM Refinement == Spec => ImplementsProgress
<1>1. Init => ActiveRunsHaveNoRetry
  BY DEF Init, EmptyTable, ActiveRunsHaveNoRetry
<1>2. Spec => []ActiveRunsHaveNoRetry
  BY <1>1, TypeCorrect, NextKeepsNoRetry, PTL DEF Spec
<1> QED BY <1>2, InputInvariance, InitProgress, NextIsProgress, PTL
        DEF Spec, ImplementsProgress, Progress!Spec

-----------------------------------------------------------------------------
(* The Hosts. *)

Busy == {"executing", "sent"}

-----------------------------------------------------------------------------
(* What a transaction does to the Attempts. *)

(* Attempts are never deleted or moved to another Machine, and a revoked
   Machine stays revoked. *)
AttemptsKept ==
    /\ DOMAIN attempts \subseteq DOMAIN attempts'
    /\ \A a \in DOMAIN attempts : attempts'[a].machine = attempts[a].machine
    /\ \A m \in Machines : machines'[m] = "connected" => machines[m] = "connected"

(* No step of the tables deletes an Attempt, moves it to another Machine, or
   reconnects a Machine. *)
LEMMA NextKeepsAttempts ==
    ASSUME TypeOK, [Next]_vars
    PROVE  AttemptsKept
<1>0. \A a \in DOMAIN attempts : attempts[a] \in Attempt
  BY DEF TypeOK
<1>1. CASE MemberStep \/ UNCHANGED vars
  <2>1. attempts' = attempts /\ machines' = machines
    BY <1>1 DEF MemberStep, vars, CreateWork, AppendWorkMessage, AcceptWorkReview,
       RequestWorkRetry, RemoveSpaceMember
  <2> QED BY <2>1 DEF AttemptsKept
<1>2. CASE Tick
  <2>1. /\ DOMAIN attempts' = DOMAIN attempts /\ machines' = machines
        /\ \A a \in DOMAIN attempts :
             attempts'[a] = [attempts[a] EXCEPT !.lease = LeaseAfterTick(a)]
    BY <1>2 DEF Tick
  <2>2. \A a \in DOMAIN attempts : attempts'[a].machine = attempts[a].machine
    BY <1>0, <2>1 DEF Attempt
  <2> QED BY <2>1, <2>2 DEF AttemptsKept
<1>3. ASSUME NEW m, NEW old \in DOMAIN attempts, NEW a \in AttemptIds, RecoverRun(m, old, a)
      PROVE  AttemptsKept
  <2> DEFINE new == NewAttempt(attempts[old].run, m, runs[attempts[old].run].fence + 1)
             swept == [attempts EXCEPT ![old].state = "expired"]
  <2>1. /\ attempts' = Insert(swept, a, new)
        /\ a \notin DOMAIN attempts /\ machines' = machines
    BY <1>3 DEF RecoverRun
  <2>2. /\ DOMAIN swept = DOMAIN attempts
        /\ \A b \in DOMAIN attempts : swept[b].machine = attempts[b].machine
    BY <1>0 DEF Attempt
  <2> HIDE DEF new, swept
  <2>3. /\ DOMAIN attempts \subseteq DOMAIN attempts'
        /\ \A b \in DOMAIN attempts : attempts'[b] = swept[b]
    BY <2>1, <2>2 DEF Insert
  <2> QED BY <2>1, <2>2, <2>3 DEF AttemptsKept
<1>4. ASSUME NEW m, NEW w, NEW r, NEW a \in AttemptIds, CreateRun(m, w, r, a)
      PROVE  AttemptsKept
  <2>1. /\ attempts' = Insert(attempts, a, NewAttempt(r, m, 1))
        /\ a \notin DOMAIN attempts /\ machines' = machines
    BY <1>4 DEF CreateRun
  <2>2. /\ DOMAIN attempts \subseteq DOMAIN attempts'
        /\ \A b \in DOMAIN attempts : attempts'[b] = attempts[b]
    BY <2>1 DEF Insert
  <2> QED BY <2>1, <2>2 DEF AttemptsKept
<1>5. ASSUME NEW a \in DOMAIN attempts,
             \/ RenewRunAttempt(a)
             \/ \E review \in BOOLEAN : CommitWorkUnderstanding(a, review)
             \/ \E outcome \in Outcomes : FinishUnresolvedAttempt(a, outcome)
      PROVE  AttemptsKept
  <2>1. /\ machines' = machines
        /\ \/ attempts' = [attempts EXCEPT ![a].lease = LeaseTicks]
           \/ \E state : attempts' = [attempts EXCEPT ![a].state = state]
    BY <1>5 DEF RenewRunAttempt, CommitWorkUnderstanding, FinishUnresolvedAttempt
  <2>2. /\ DOMAIN attempts' = DOMAIN attempts
        /\ \A b \in DOMAIN attempts : attempts'[b].machine = attempts[b].machine
    BY <1>0, <2>1 DEF Attempt
  <2> QED BY <2>1, <2>2 DEF AttemptsKept
<1>6. ASSUME NEW m \in Machines, RevokeMachine(m) PROVE AttemptsKept
  BY <1>6 DEF RevokeMachine, AttemptsKept, TypeOK
<1> QED BY <1>1, <1>2, <1>3, <1>4, <1>5, <1>6 DEF Next, MachineStep
-----------------------------------------------------------------------------
(* Who keeps authority through a transaction. *)

(* An Attempt acts as long as its own row, its Run and its Machine allow. *)
LEMMA StillActs ==
    ASSUME NEW a \in DOMAIN attempts, MayAct(a),
           attempts'[a].run = attempts[a].run, attempts'[a].fence = attempts[a].fence,
           attempts'[a].machine = attempts[a].machine, attempts'[a].state = "active",
           attempts'[a].lease > 0, machines'[attempts[a].machine] = "connected",
           attempts[a].run \in DOMAIN runs',
           runs'[attempts[a].run].fence = runs[attempts[a].run].fence,
           runs'[attempts[a].run].state = "active"
    PROVE  MayAct(a)'
  BY DEF MayAct, HoldsRun, LeaseCurrent

(* What a holder knows of its rows. *)
LEMMA HolderRows ==
    ASSUME TypeOK, NEW a \in DOMAIN attempts, MayAct(a)
    PROVE  /\ attempts[a] \in Attempt /\ attempts[a].machine \in Machines
           /\ attempts[a].run \in DOMAIN runs /\ runs[attempts[a].run] \in Run
           /\ attempts[a].state = "active" /\ attempts[a].lease > 0
           /\ runs[attempts[a].run].state = "active"
           /\ runs[attempts[a].run].fence = attempts[a].fence
           /\ machines[attempts[a].machine] = "connected"
<1>1. attempts[a] \in Attempt
  BY DEF TypeOK
<1>2. attempts[a].run \in DOMAIN runs
  BY DEF MayAct, HoldsRun
<1>3. runs[attempts[a].run] \in Run
  BY <1>2 DEF TypeOK
<1> QED BY <1>1, <1>2, <1>3 DEF MayAct, HoldsRun, LeaseCurrent, Attempt

(* No member takes authority away. *)
LEMMA MembersLeaveAuthority ==
    ASSUME TypeOK, MemberStep \/ UNCHANGED vars, NEW a \in DOMAIN attempts, MayAct(a)
    PROVE  MayAct(a)'
<1>1. attempts' = attempts /\ machines' = machines
  BY DEF MemberStep, vars, CreateWork, AppendWorkMessage, AcceptWorkReview,
     RequestWorkRetry, RemoveSpaceMember
<1>2. CASE runs' = runs
  BY <1>1, <1>2, HolderRows, StillActs
<1>3. ASSUME NEW u \in Users, NEW w \in WorkIds, NEW k \in Keys, RequestWorkRetry(u, w, k)
      PROVE  MayAct(a)'
  <2>1. PICK r \in RunsOf(w) :
          /\ NeedsRetryRun(r)
          /\ runs' = [runs EXCEPT ![r] = [runs[r] EXCEPT !.retryBy = u, !.retryKey = k]]
    BY <1>3 DEF RequestWorkRetry
  <2>2. /\ attempts[a].run # r
    BY <2>1, HolderRows DEF NeedsRetryRun, Outcomes
  <2>3. attempts[a].run \in DOMAIN runs' /\ runs'[attempts[a].run] = runs[attempts[a].run]
    BY <2>1, <2>2, HolderRows
  <2> QED BY <1>1, <2>3, HolderRows, StillActs
<1>4. \/ runs' = runs
      \/ \E u \in Users, w \in WorkIds, k \in Keys : RequestWorkRetry(u, w, k)
  BY DEF MemberStep, vars, CreateWork, AppendWorkMessage, AcceptWorkReview, RemoveSpaceMember
<1> QED BY <1>2, <1>3, <1>4

(* A claim gives authority to the Machine that claims, and takes it from no
   Attempt whose lease runs. *)
LEMMA ClaimLeavesAuthority ==
    ASSUME IInv, NEW m \in Machines, NEW a \in AttemptIds, ClaimRun(m, a)
    PROVE  /\ a \in DOMAIN attempts' /\ attempts'[a].machine = m /\ MayAct(a)'
           /\ a \notin DOMAIN attempts
           /\ \A b \in DOMAIN attempts : MayAct(b) => MayAct(b)'
<1>0. TypeOK
  BY DEF IInv
<1>1. ASSUME NEW old \in DOMAIN attempts, RecoverRun(m, old, a)
      PROVE  /\ a \in DOMAIN attempts' /\ attempts'[a].machine = m /\ MayAct(a)'
             /\ a \notin DOMAIN attempts
             /\ \A b \in DOMAIN attempts : MayAct(b) => MayAct(b)'
  <2> DEFINE r == attempts[old].run
             new == NewAttempt(r, m, runs[r].fence + 1)
             swept == [attempts EXCEPT ![old].state = "expired"]
  <2>1. /\ machines[m] = "connected" /\ machines' = machines
        /\ r \in DOMAIN runs /\ attempts[old].fence = runs[r].fence
        /\ runs[r].state = "active" /\ ~ LeaseCurrent(old) /\ a \notin DOMAIN attempts
        /\ runs' = [runs EXCEPT ![r] = HandedOver(r)]
        /\ attempts' = Insert(swept, a, new)
    BY <1>1 DEF RecoverRun
  <2>2. runs[r] \in Run
    BY <1>0, <2>1 DEF TypeOK
  <2>3. HandedOver(r).fence = runs[r].fence + 1 /\ HandedOver(r).state = "active"
    BY <2>1, <2>2 DEF HandedOver, Run
  <2>4. /\ new.run = r /\ new.machine = m /\ new.fence = runs[r].fence + 1
        /\ new.lease = LeaseTicks /\ new.state = "active"
    BY DEF NewAttempt
  <2>5. /\ DOMAIN swept = DOMAIN attempts
        /\ \A b \in DOMAIN attempts : b # old => swept[b] = attempts[b]
    OBVIOUS
  <2> HIDE DEF r, new, swept
  <2>6. /\ a \in DOMAIN attempts' /\ attempts'[a] = new
        /\ \A b \in DOMAIN attempts : attempts'[b] = swept[b]
    BY <2>1, <2>5 DEF Insert
  <2>7. /\ r \in DOMAIN runs' /\ runs'[r] = HandedOver(r) /\ DOMAIN runs' = DOMAIN runs
        /\ \A q \in DOMAIN runs : q # r => runs'[q] = runs[q]
    BY <2>1
  <2>8. MayAct(a)'
    BY <2>1, <2>3, <2>4, <2>6, <2>7, WorkRunAssumption DEF MayAct, HoldsRun, LeaseCurrent
  <2>9. ASSUME NEW b \in DOMAIN attempts, MayAct(b) PROVE MayAct(b)'
    <3>1. b # old
      BY <2>1, <2>9 DEF MayAct
    <3>2. attempts[b].run # r
      BY <1>0, <2>1, <2>9, <3>1, HolderRows DEF IInv, OneAttemptPerFence, r
    <3>3. attempts'[b] = attempts[b]
      BY <2>5, <2>6, <3>1
    <3>4. attempts[b].run \in DOMAIN runs' /\ runs'[attempts[b].run] = runs[attempts[b].run]
      BY <1>0, <2>7, <2>9, <3>2, HolderRows
    <3> QED BY <1>0, <2>1, <2>9, <3>3, <3>4, HolderRows, StillActs
  <2> QED BY <2>1, <2>4, <2>6, <2>8, <2>9
<1>2. ASSUME NEW w \in DOMAIN works, NEW r \in RunIds, CreateRun(m, w, r, a)
      PROVE  /\ a \in DOMAIN attempts' /\ attempts'[a].machine = m /\ MayAct(a)'
             /\ a \notin DOMAIN attempts
             /\ \A b \in DOMAIN attempts : MayAct(b) => MayAct(b)'
  <2> DEFINE new == NewAttempt(r, m, 1)
  <2>1. PICK row : /\ row.fence = 1 /\ row.state = "active"
                   /\ runs' = Insert(runs, r, row)
    BY <1>2 DEF CreateRun
  <2>2. /\ machines[m] = "connected" /\ machines' = machines
        /\ r \notin DOMAIN runs /\ a \notin DOMAIN attempts
        /\ attempts' = Insert(attempts, a, new)
    BY <1>2 DEF CreateRun
  <2>3. /\ new.run = r /\ new.machine = m /\ new.fence = 1
        /\ new.lease = LeaseTicks /\ new.state = "active"
    BY DEF NewAttempt
  <2> HIDE DEF new
  <2>4. /\ a \in DOMAIN attempts' /\ attempts'[a] = new
        /\ \A b \in DOMAIN attempts : attempts'[b] = attempts[b]
    BY <2>2 DEF Insert
  <2>5. /\ r \in DOMAIN runs' /\ runs'[r] = row /\ DOMAIN runs \subseteq DOMAIN runs'
        /\ \A q \in DOMAIN runs : runs'[q] = runs[q]
    BY <2>1, <2>2 DEF Insert
  <2>6. MayAct(a)'
    BY <2>1, <2>2, <2>3, <2>4, <2>5, WorkRunAssumption DEF MayAct, HoldsRun, LeaseCurrent
  <2>7. ASSUME NEW b \in DOMAIN attempts, MayAct(b) PROVE MayAct(b)'
    BY <1>0, <2>2, <2>4, <2>5, <2>7, HolderRows, StillActs
  <2> QED BY <2>2, <2>3, <2>4, <2>6, <2>7
<1> QED BY <1>1, <1>2 DEF ClaimRun

(* A renewal takes authority from nobody. *)
LEMMA RenewLeavesAuthority ==
    ASSUME IInv, NEW a \in DOMAIN attempts, RenewRunAttempt(a),
           NEW b \in DOMAIN attempts, MayAct(b)
    PROVE  MayAct(b)'
<1>1. /\ TypeOK /\ runs' = runs /\ machines' = machines
      /\ attempts' = [attempts EXCEPT ![a].lease = LeaseTicks]
  BY DEF IInv, RenewRunAttempt
<1>2. /\ attempts'[b].run = attempts[b].run /\ attempts'[b].fence = attempts[b].fence
      /\ attempts'[b].machine = attempts[b].machine /\ attempts'[b].state = attempts[b].state
      /\ attempts'[b].lease \in {attempts[b].lease, LeaseTicks}
  BY <1>1, HolderRows DEF Attempt, TypeOK
<1> QED BY <1>1, <1>2, WorkRunAssumption, HolderRows, StillActs

(* A commit or an outcome ends the authority of its own Attempt only. *)
LEMMA EndLeavesAuthority ==
    ASSUME IInv, NEW a \in DOMAIN attempts,
           \/ \E review \in BOOLEAN : CommitWorkUnderstanding(a, review)
           \/ \E outcome \in Outcomes : FinishUnresolvedAttempt(a, outcome),
           NEW b \in DOMAIN attempts, b # a, MayAct(b)
    PROVE  MayAct(b)'
<1>1. /\ TypeOK /\ machines' = machines /\ HoldsRun(a)
      /\ \E state : /\ runs' = [runs EXCEPT ![attempts[a].run].state = state]
                    /\ attempts' = [attempts EXCEPT ![a].state = state]
  BY DEF IInv, CommitWorkUnderstanding, FinishUnresolvedAttempt
<1>2. attempts[b].run # attempts[a].run
  BY <1>1 DEF IInv, OneAttemptPerFence, HoldsRun, MayAct
<1>3. attempts'[b] = attempts[b]
  BY <1>1
<1>4. attempts[b].run \in DOMAIN runs' /\ runs'[attempts[b].run] = runs[attempts[b].run]
  BY <1>1, <1>2, HolderRows
<1> QED BY <1>1, <1>3, <1>4, HolderRows, StillActs

(* The clock leaves authority to an Attempt with more than one tick. *)
LEMMA TickLeavesAuthority ==
    ASSUME IInv, Tick, NEW b \in DOMAIN attempts, MayAct(b), attempts[b].lease > 1
    PROVE  MayAct(b)'
<1>1. /\ TypeOK /\ runs' = runs /\ machines' = machines
      /\ attempts'[b] = [attempts[b] EXCEPT !.lease = LeaseAfterTick(b)]
  BY DEF IInv, Tick
<1>2. /\ attempts[b] \in Attempt /\ attempts[b].lease \in 0 .. LeaseTicks
  BY <1>1, HolderRows DEF Attempt
<1>3. LeaseAfterTick(b) > 0
  BY <1>2, WorkRunAssumption DEF LeaseAfterTick, LeaseCurrent
<1>4. /\ attempts'[b].run = attempts[b].run /\ attempts'[b].fence = attempts[b].fence
      /\ attempts'[b].machine = attempts[b].machine /\ attempts'[b].state = attempts[b].state
      /\ attempts'[b].lease > 0
  BY <1>1, <1>2, <1>3 DEF Attempt
<1> QED BY <1>1, <1>4, HolderRows, StillActs

(* The revocation of another Machine takes nothing away. *)
LEMMA RevokeLeavesAuthority ==
    ASSUME IInv, NEW m \in Machines, RevokeMachine(m), NEW b \in DOMAIN attempts, MayAct(b),
           attempts[b].machine # m
    PROVE  MayAct(b)'
<1>1. /\ TypeOK /\ runs' = runs /\ attempts' = attempts
      /\ machines' = [machines EXCEPT ![m] = "revoked"]
  BY DEF IInv, RevokeMachine
<1>2. machines'[attempts[b].machine] = "connected"
  BY <1>1, HolderRows DEF TypeOK
<1> QED BY <1>1, <1>2, HolderRows, StillActs-----------------------------------------------------------------------------
(* The Hosts. *)

(* Who executes after the step executed the same Attempt before it. *)
BusySame ==
    \A m \in Machines :
        host'[m].at \in Busy => host[m].at \in Busy /\ host'[m].attempt = host[m].attempt

(* As long as there is no fault, a Host that goes on keeps its authority,
   unless its Machine is revoked. *)
AuthorityStays ==
    \A m \in Machines, a \in DOMAIN attempts :
        /\ faults' = 0 /\ host'[m].at \in Busy /\ a = host'[m].attempt
        /\ machines'[m] = "connected" /\ MayAct(a)
        => MayAct(a)'

(* A Host that goes on with its Attempt still has an Attempt of its Machine. *)
LEMMA AttemptsStay ==
    ASSUME HostInv, AttemptsKept, BusySame,
           \A q \in requests' : q.attempt \in DOMAIN attempts
    PROVE  HostsHaveAttempts'
  BY DEF HostInv, HostsHaveAttempts, AttemptsKept, BusySame, Busy

(* A Host that goes on while nothing takes its authority keeps its Run. *)
LEMMA HealthyStays ==
    ASSUME HostInv, AttemptsKept, BusySame, AuthorityStays, faults' = 0 => faults = 0
    PROVE  HealthyHostKeepsRun'
<1>1. ASSUME NEW m \in Machines, host'[m].at \in Busy, machines'[m] = "connected", faults' = 0,
             NEW a, a = host'[m].attempt
      PROVE  MayAct(a)'
  <2>1. host[m].at \in Busy /\ a = host[m].attempt /\ machines[m] = "connected" /\ faults = 0
    BY <1>1 DEF BusySame, AttemptsKept
  <2>2. a \in DOMAIN attempts /\ MayAct(a)
    BY <2>1 DEF HostInv, HostsHaveAttempts, HealthyHostKeepsRun, Busy
  <2> QED BY <1>1, <2>2 DEF AuthorityStays
<1>2. ASSUME NEW m \in Machines, host'[m].at \in Busy, machines'[m] = "connected", faults' = 0
      PROVE  MayAct(host[m].attempt)'
  <2>1. PICK a : a = host'[m].attempt
    OBVIOUS
  <2>2. MayAct(a)'
    BY <1>1, <1>2, <2>1
  <2> QED BY <2>1, <2>2 DEF MayAct, HoldsRun, LeaseCurrent
<1> QED BY <1>2 DEF HealthyHostKeepsRun, Busy

(* Requests that stay are still waited for. *)
LEMMA AwaitedStays ==
    ASSUME HostInv, requests' \subseteq requests,
           faults' = 0 => /\ faults = 0
                          /\ \A q \in requests', m \in Machines :
                               host[m].at = "sent" /\ host[m].attempt = q.attempt =>
                               host'[m].at = "sent" /\ host'[m].attempt = q.attempt
    PROVE  RequestsAreAwaited'
  BY DEF HostInv, RequestsAreAwaited

(* Everything but the Attempts of the Hosts. *)
LEMMA HostStepTypes ==
    ASSUME HostInv, [Next]_vars, host' \in [Machines -> Host], requests' \subseteq Request,
           faults' \in 0 .. MaxFaults
    PROVE  IInv' /\ HostTypeOK' /\ AttemptsKept
<1>1. IInv'
  BY NextKeepsIInv DEF HostInv
<1>2. TypeOK /\ TypeOK'
  BY <1>1 DEF HostInv, IInv
<1> QED BY <1>1, <1>2, NextKeepsAttempts DEF HostTypeOK

(* One Host stops executing, or goes on with the loop: it stops waiting for
   an answer only because of a fault. *)
LEMMA FreeHostKeepsInv ==
    ASSUME HostInv, [Next]_vars, NEW m \in Machines, NEW row \in Host, row.at \notin Busy,
           host' = [host EXCEPT ![m] = row], requests' = requests,
           faults' \in 0 .. MaxFaults,
           faults' = 0 => faults = 0 /\ host[m].at # "sent",
           AuthorityStays
    PROVE  HostInv'
<1>1. host \in [Machines -> Host] /\ requests \subseteq Request
  BY DEF HostInv, HostTypeOK
<1>2. /\ host' \in [Machines -> Host] /\ host'[m] = row
      /\ \A n \in Machines : n # m => host'[n] = host[n]
  BY <1>1
<1>3. IInv' /\ HostTypeOK' /\ AttemptsKept
  BY <1>1, <1>2, HostStepTypes
<1>4. BusySame
  BY <1>2 DEF BusySame
<1>5. HostsHaveAttempts'
  BY <1>3, <1>4, AttemptsStay DEF HostInv, HostsHaveAttempts
<1>6. HealthyHostKeepsRun'
  BY <1>3, <1>4, HealthyStays
<1>7. RequestsAreAwaited'
  BY <1>2, AwaitedStays
<1> QED BY <1>3, <1>5, <1>6, <1>7 DEF HostInv

(* Nothing happens to the Hosts. *)
LEMMA IdleHostsKeepInv ==
    ASSUME HostInv, [Next]_vars, host' = host, requests' \subseteq requests,
           faults' \in 0 .. MaxFaults, faults' = 0 => faults = 0, AuthorityStays
    PROVE  HostInv'
<1>1. host \in [Machines -> Host] /\ requests \subseteq Request
  BY DEF HostInv, HostTypeOK
<1>2. IInv' /\ HostTypeOK' /\ AttemptsKept
  BY <1>1, HostStepTypes
<1>3. BusySame
  BY DEF BusySame
<1>4. HostsHaveAttempts'
  BY <1>2, <1>3, AttemptsStay DEF HostInv, HostsHaveAttempts
<1>5. HealthyHostKeepsRun' /\ RequestsAreAwaited'
  BY <1>2, <1>3, HealthyStays, AwaitedStays
<1> QED BY <1>2, <1>4, <1>5 DEF HostInv

(* Rows of the Hosts. *)
LEMMA HostRows ==
    ASSUME HostTypeOK, NEW m \in Machines
    PROVE  /\ \A at \in {"stopped", "loop", "second", "waiting"} :
                /\ [host[m] EXCEPT !.at = at, !.attempt = NoAttempt] \in Host
                /\ [host[m] EXCEPT !.at = at, !.attempt = NoAttempt].at = at
           /\ \A at \in {"waiting", "replying"}, kind \in Kinds :
                /\ [host[m] EXCEPT !.at = at, !.prefer = kind] \in Host
                /\ [host[m] EXCEPT !.at = at, !.prefer = kind].at = at
           /\ Serving \in Host /\ Serving.at = "loop"
<1>1. host[m] \in Host
  BY DEF HostTypeOK
<1> QED BY <1>1 DEF Host, Serving, Kinds

(* A fault is counted. *)
LEMMA FaultCounts ==
    ASSUME HostTypeOK, Fault
    PROVE  faults' \in 0 .. MaxFaults /\ faults' # 0
  BY HostAssumption DEF HostTypeOK, Fault

(* The tables stay as they are, so authority does. *)
LEMMA QuietTables ==
    ASSUME HostInv, UNCHANGED vars
    PROVE  [Next]_vars /\ AuthorityStays
<1>1. TypeOK
  BY DEF HostInv, IInv
<1>2. \A a \in DOMAIN attempts : MayAct(a) => MayAct(a)'
  BY <1>1, MembersLeaveAuthority
<1> QED BY <1>2 DEF AuthorityStays

(* Steps of one Host that touch no table: waiting, starting, stopping,
   private replies, refusals, giving up. *)
LEMMA LoopStepKeepsInv ==
    ASSUME HostInv, NEW m \in Machines,
           \/ Wake(m) \/ Unavailable(m) \/ Stop(m) \/ Start(m)
           \/ NoConversation(m) \/ ClaimConversation(m) \/ EndConversation(m)
           \/ NoRun(m) \/ ClaimRefused(m) \/ RenewRefused(m) \/ GiveUp(m)
    PROVE  HostInv' /\ UNCHANGED vars
<1>1. HostTypeOK
  BY DEF HostInv
<1>2. /\ UNCHANGED vars /\ requests' = requests
  BY DEF Wake, Unavailable, Stop, Start, NoConversation, ClaimConversation, EndConversation,
         NoRun, ClaimRefused, RenewRefused, GiveUp
<1>3. /\ faults' \in 0 .. MaxFaults
      /\ faults' = 0 => faults = 0 /\ host[m].at # "sent"
  <2>1. CASE Fault
    BY <1>1, <2>1, FaultCounts
  <2>2. CASE faults' = faults /\ host[m].at # "sent"
    BY <1>1, <2>2 DEF HostTypeOK
  <2> QED BY <2>1, <2>2 DEF Wake, Unavailable, Stop, Start, NoConversation, ClaimConversation,
       EndConversation, NoRun, ClaimRefused, RenewRefused, GiveUp, Trying
<1>4. PICK row \in Host : row.at \notin Busy /\ host' = [host EXCEPT ![m] = row]
  <2>1. CASE \E at \in {"stopped", "loop", "second", "waiting"} : Goto(m, at)
    BY <1>1, <2>1, HostRows DEF Goto, Busy
  <2>2. CASE \E kind \in Kinds : BackOff(m, kind)
    BY <1>1, <2>2, HostRows DEF BackOff, PreferenceAfter, Other, Kinds, Busy
  <2>3. CASE ClaimConversation(m)
    BY <1>1, <2>3, HostRows DEF ClaimConversation, PreferenceAfter, Other, Kinds, Busy
  <2>4. CASE Start(m)
    BY <1>1, <2>4, HostRows DEF Start, Busy
  <2> QED BY <2>1, <2>2, <2>3, <2>4 DEF Wake, Unavailable, Stop, NoConversation,
       EndConversation, NoRun, ClaimRefused, RenewRefused, GiveUp, NothingToDo
<1>5. [Next]_vars /\ AuthorityStays
  BY <1>2, QuietTables
<1> QED BY <1>2, <1>3, <1>4, <1>5, FreeHostKeepsInv
(* The Agent returns: the Host now waits for the answer to one request. *)
LEMMA ReturnKeepsInv ==
    ASSUME HostInv, NEW m \in Machines, NEW result \in Results, Return(m, result)
    PROVE  HostInv' /\ UNCHANGED vars
<1> DEFINE a == host[m].attempt
           row == [host[m] EXCEPT !.at = "sent"]
           new == [attempt |-> host[m].attempt, result |-> result]
<1>1. /\ HostTypeOK /\ host[m] \in Host /\ host[m].at = "executing"
      /\ UNCHANGED vars /\ faults' = faults /\ faults \in 0 .. MaxFaults
      /\ host' = [host EXCEPT ![m] = row] /\ requests' = requests \cup {new}
  BY DEF HostInv, HostTypeOK, Return
<1>2. a \in DOMAIN attempts /\ attempts[a].machine = m /\ a \in AttemptIds
  BY <1>1 DEF HostInv, HostsHaveAttempts, HostTypeOK, TypeOK
<1>3. row \in Host /\ row.at = "sent" /\ row.attempt = a
  BY <1>1 DEF Host
<1>4. new \in Request /\ new.attempt = a
  BY <1>2 DEF Request
<1> HIDE DEF row, new, a
<1>5. /\ host' \in [Machines -> Host] /\ host'[m] = row
      /\ \A n \in Machines : n # m => host'[n] = host[n]
  BY <1>1, <1>3 DEF HostTypeOK
<1>6. [Next]_vars /\ AuthorityStays
  BY <1>1, QuietTables
<1>7. IInv' /\ HostTypeOK' /\ AttemptsKept
  <2>1. requests' \subseteq Request
    BY <1>1, <1>4 DEF HostTypeOK
  <2> QED BY <1>1, <1>5, <1>6, <2>1, HostStepTypes
<1>8. BusySame
  BY <1>1, <1>3, <1>5 DEF BusySame, Busy, a
<1>9. HostsHaveAttempts' /\ HealthyHostKeepsRun'
  <2>1. \A q \in requests' : q.attempt \in DOMAIN attempts
    BY <1>1, <1>2, <1>4 DEF HostInv, HostsHaveAttempts
  <2> QED BY <1>1, <1>6, <1>7, <1>8, <2>1, AttemptsStay, HealthyStays
<1>10. RequestsAreAwaited'
  <2>1. ASSUME faults = 0, NEW q \in requests
        PROVE  /\ q.attempt # a
               /\ \E n \in Machines : host'[n].at = "sent" /\ host'[n].attempt = q.attempt
               /\ \A p \in requests : p.attempt = q.attempt => p = q
    <3>1. PICK n \in Machines : host[n].at = "sent" /\ host[n].attempt = q.attempt
      BY <2>1 DEF HostInv, RequestsAreAwaited
    <3>2. n # m /\ attempts[q.attempt].machine = n
      BY <1>1, <3>1 DEF HostInv, HostsHaveAttempts
    <3> QED BY <1>2, <1>5, <2>1, <3>1, <3>2 DEF HostInv, RequestsAreAwaited
  <2>2. host'[m].at = "sent" /\ host'[m].attempt = a
    BY <1>3, <1>5
  <2> QED BY <1>1, <1>4, <2>1, <2>2 DEF RequestsAreAwaited
<1> QED BY <1>1, <1>7, <1>9, <1>10 DEF HostInv

(* A claim, answered: the Host executes the Attempt it was given. *)
LEMMA ClaimKeepsInv ==
    ASSUME HostInv, NEW m \in Machines, NEW a \in AttemptIds, Claim(m, a)
    PROVE  HostInv' /\ [Next]_vars
<1> DEFINE row == [at |-> "executing", attempt |-> a, prefer |-> PreferenceAfter("run")]
<1>1. /\ HostTypeOK /\ IInv /\ host \in [Machines -> Host] /\ host[m].at \notin Busy
      /\ ClaimRun(m, a) /\ host' = [host EXCEPT ![m] = row]
      /\ requests' = requests /\ requests \subseteq Request
      /\ faults' = faults /\ faults' \in 0 .. MaxFaults
  BY DEF HostInv, HostTypeOK, Claim, Trying, Busy
<1>2. [Next]_vars
  BY <1>1 DEF ClaimRun, Next, MachineStep
<1>3. row \in Host /\ row.at = "executing" /\ row.attempt = a
  BY DEF Host, PreferenceAfter, Other, Kinds
<1> HIDE DEF row
<1>4. /\ host' \in [Machines -> Host] /\ host'[m] = row
      /\ \A n \in Machines : n # m => host'[n] = host[n]
  BY <1>1, <1>3
<1>5. IInv' /\ HostTypeOK' /\ AttemptsKept
  BY <1>1, <1>2, <1>4, HostStepTypes
<1>6. /\ a \in DOMAIN attempts' /\ attempts'[a].machine = m /\ MayAct(a)'
      /\ \A b \in DOMAIN attempts : MayAct(b) => MayAct(b)'
  BY <1>1, ClaimLeavesAuthority
<1>7. HostsHaveAttempts'
  BY <1>1, <1>3, <1>4, <1>5, <1>6 DEF HostInv, HostsHaveAttempts, AttemptsKept
<1>8. HealthyHostKeepsRun'
  <2>1. ASSUME NEW n \in Machines, host'[n].at \in Busy, machines'[n] = "connected", faults' = 0
        PROVE  MayAct(host[n].attempt)'
    <3>1. PICK b : b = host'[n].attempt
      OBVIOUS
    <3>2. CASE n = m
      BY <1>3, <1>4, <1>6, <3>1, <3>2 DEF MayAct, HoldsRun, LeaseCurrent
    <3>3. CASE n # m
      <4>1. b \in DOMAIN attempts /\ MayAct(b)
        BY <1>1, <1>4, <1>5, <2>1, <3>1, <3>3
           DEF HostInv, HostsHaveAttempts, HealthyHostKeepsRun, AttemptsKept, Busy
      <4>2. MayAct(b)'
        BY <1>6, <4>1
      <4> QED BY <3>1, <4>2 DEF MayAct, HoldsRun, LeaseCurrent
    <3> QED BY <3>2, <3>3
  <2> QED BY <2>1 DEF HealthyHostKeepsRun, Busy
<1>9. RequestsAreAwaited'
  BY <1>1, <1>4, AwaitedStays DEF Busy
<1> QED BY <1>2, <1>5, <1>7, <1>8, <1>9 DEF HostInv

(* A claim or a renewal whose answer is lost. *)
LEMMA LostAnswerKeepsInv ==
    ASSUME HostInv, NEW m \in Machines,
           LoseRenewal(m) \/ \E a \in AttemptIds : LoseClaim(m, a)
    PROVE  HostInv' /\ [Next]_vars
<1>1. HostTypeOK /\ IInv
  BY DEF HostInv
<1>2. requests' = requests /\ faults' \in 0 .. MaxFaults /\ faults' # 0
  BY <1>1, FaultCounts DEF LoseRenewal, LoseClaim
<1>3. [Next]_vars
  BY DEF LoseRenewal, LoseClaim, ClaimRun, Next, MachineStep, HostInv, HostsHaveAttempts
<1>4. PICK row \in Host : row.at \notin Busy /\ host' = [host EXCEPT ![m] = row]
  BY <1>1, HostRows DEF LoseRenewal, LoseClaim, Goto, BackOff, PreferenceAfter, Other, Kinds,
     Busy
<1>5. AuthorityStays
  BY <1>2 DEF AuthorityStays
<1> QED BY <1>2, <1>3, <1>4, <1>5, FreeHostKeepsInv

(* A renewal. *)
LEMMA RenewKeepsInv ==
    ASSUME HostInv, NEW m \in Machines, Renew(m)
    PROVE  HostInv' /\ [Next]_vars
<1>1. host[m].attempt \in DOMAIN attempts /\ RenewRunAttempt(host[m].attempt)
  BY DEF Renew, HostInv, HostsHaveAttempts
<1>2. [Next]_vars
  BY <1>1 DEF Next, MachineStep
<1>3. \A b \in DOMAIN attempts : MayAct(b) => MayAct(b)'
  BY <1>1, RenewLeavesAuthority DEF HostInv
<1>4. host' = host /\ requests' = requests /\ faults' = faults /\ faults \in 0 .. MaxFaults
  BY DEF Renew, hostVars, HostInv, HostTypeOK
<1>5. AuthorityStays
  BY <1>3 DEF AuthorityStays
<1> QED BY <1>2, <1>4, <1>5, IdleHostsKeepInv

(* A request is carried out or refused, and the Host that waits goes on. *)
LEMMA ServeKeepsInv ==
    ASSUME HostInv, NEW q \in requests, Serve(q)
    PROVE  HostInv' /\ [Next]_vars
<1>1. /\ HostTypeOK /\ IInv /\ TypeOK /\ requests' = requests \ {q} /\ Answered(q)
      /\ faults' = faults /\ faults \in 0 .. MaxFaults /\ requests \subseteq Request
      /\ host \in [Machines -> Host] /\ q.attempt \in DOMAIN attempts
  BY DEF HostInv, HostTypeOK, Serve, HostsHaveAttempts
<1>2. \/ UNCHANGED vars
      \/ \E review \in BOOLEAN : CommitWorkUnderstanding(q.attempt, review)
      \/ \E outcome \in Outcomes : FinishUnresolvedAttempt(q.attempt, outcome)
  BY DEF Serve
<1>3. [Next]_vars
  BY <1>1, <1>2 DEF Next, MachineStep
<1>4. \A n \in Machines :
        /\ host'[n] \in Host
        /\ IF host[n].at = "sent" /\ host[n].attempt = q.attempt
           THEN host'[n].at = "loop" ELSE host'[n] = host[n]
  <2>1. \A n \in Machines : host[n] \in Host
    BY <1>1
  <2>2. \A n \in Machines :
          host'[n] = IF host[n].at = "sent" /\ host[n].attempt = q.attempt
                     THEN [host[n] EXCEPT !.at = "loop", !.attempt = NoAttempt] ELSE host[n]
    BY <1>1 DEF Answered
  <2> QED BY <2>1, <2>2 DEF Host
<1>5. host' \in [Machines -> Host]
  BY <1>1, <1>4 DEF Answered
<1>6. IInv' /\ HostTypeOK' /\ AttemptsKept
  BY <1>1, <1>3, <1>5, HostStepTypes
<1>7. BusySame
  BY <1>4 DEF BusySame, Busy
<1>8. AuthorityStays
  <2>1. ASSUME NEW m \in Machines, NEW a \in DOMAIN attempts, faults' = 0,
               host'[m].at \in Busy, a = host'[m].attempt, MayAct(a)
        PROVE  MayAct(a)'
    <3>1. host'[m] = host[m] /\ host[m].at \in Busy /\ a = host[m].attempt
      BY <1>4, <2>1 DEF Busy
    <3>2. a # q.attempt
      <4>1. PICK n \in Machines : host[n].at = "sent" /\ host[n].attempt = q.attempt
        BY <1>1, <2>1 DEF HostInv, RequestsAreAwaited
      <4>2. n # m
        BY <1>4, <2>1, <4>1 DEF Busy
      <4>3. attempts[host[n].attempt].machine = n /\ attempts[a].machine = m
        BY <3>1, <4>1 DEF HostInv, HostsHaveAttempts, Busy
      <4> QED BY <4>1, <4>2, <4>3
    <3>3. CASE UNCHANGED vars
      BY <1>1, <2>1, <3>3, MembersLeaveAuthority
    <3>4. CASE \/ \E review \in BOOLEAN : CommitWorkUnderstanding(q.attempt, review)
               \/ \E outcome \in Outcomes : FinishUnresolvedAttempt(q.attempt, outcome)
      BY <1>1, <2>1, <3>2, <3>4, EndLeavesAuthority
    <3> QED BY <1>2, <3>3, <3>4
  <2> QED BY <2>1 DEF AuthorityStays
<1>9. HostsHaveAttempts' /\ HealthyHostKeepsRun'
  <2>1. \A p \in requests' : p.attempt \in DOMAIN attempts
    BY <1>1 DEF HostInv, HostsHaveAttempts
  <2> QED BY <1>1, <1>6, <1>7, <1>8, <2>1, AttemptsStay, HealthyStays
<1>10. RequestsAreAwaited'
  <2>1. faults = 0 => \A p \in requests' : p.attempt # q.attempt
    BY <1>1 DEF HostInv, RequestsAreAwaited
  <2> QED BY <1>1, <1>4, <2>1, AwaitedStays
<1> QED BY <1>3, <1>6, <1>9, <1>10 DEF HostInv

(* Members, revocations, the clock, and requests that never arrive. *)
LEMMA OutsideKeepsInv ==
    ASSUME HostInv,
           \/ MemberStep /\ UNCHANGED hostVars
           \/ \E m \in Machines : RevokeMachine(m) /\ UNCHANGED hostVars
           \/ \E q \in requests : Drop(q)
           \/ HostTick \/ LongPause
           \/ UNCHANGED allVars
    PROVE  HostInv' /\ [Next]_vars
<1>1. HostTypeOK /\ IInv /\ TypeOK
  BY DEF HostInv, IInv
<1>2. [Next]_vars
  BY DEF Next, MachineStep, Drop, HostTick, LongPause, allVars
<1>3. /\ host' = host /\ requests' \subseteq requests
      /\ faults' \in 0 .. MaxFaults /\ (faults' = 0 => faults = 0)
  <2>1. CASE Fault
    BY <1>1, <2>1, FaultCounts DEF hostVars, Drop, HostTick, LongPause, allVars
  <2>2. CASE faults' = faults
    BY <1>1, <2>2 DEF HostTypeOK, hostVars, Drop, HostTick, LongPause, allVars
  <2> QED BY <2>1, <2>2 DEF hostVars, Drop, HostTick, LongPause, allVars
<1>4. AuthorityStays
  <2>1. ASSUME NEW m \in Machines, NEW a \in DOMAIN attempts, faults' = 0,
               host'[m].at \in Busy, a = host'[m].attempt, machines'[m] = "connected", MayAct(a)
        PROVE  MayAct(a)'
    <3>1. host[m].at \in Busy /\ a = host[m].attempt /\ attempts[a].machine = m
      BY <1>3, <2>1 DEF HostInv, HostsHaveAttempts, Busy
    <3>2. CASE MemberStep \/ UNCHANGED vars
      BY <1>1, <2>1, <3>2, MembersLeaveAuthority
    <3>3. ASSUME NEW n \in Machines, RevokeMachine(n) PROVE MayAct(a)'
      <4>1. n # m
        BY <1>1, <2>1, <3>3 DEF RevokeMachine, TypeOK
      <4> QED BY <1>1, <2>1, <3>1, <3>3, <4>1, RevokeLeavesAuthority
    <3>4. CASE HostTick
      <4>1. attempts[a].lease > 1 /\ Tick
        BY <2>1, <3>1, <3>4 DEF HostTick, RenewalsInTime, MayAct, Busy
      <4> QED BY <1>1, <2>1, <4>1, TickLeavesAuthority
    <3>5. CASE LongPause
      BY <1>1, <2>1, <3>5, FaultCounts DEF LongPause
    <3> QED BY <3>2, <3>3, <3>4, <3>5 DEF Drop, allVars
  <2> QED BY <2>1 DEF AuthorityStays
<1> QED BY <1>2, <1>3, <1>4, IdleHostsKeepInv
-----------------------------------------------------------------------------
(* HostInv is kept by every step, and every step is a transaction of WorkRun
   or changes no table. *)
LEMMA HostNextKeepsInv ==
    ASSUME HostInv, [HostNext]_allVars
    PROVE  HostInv' /\ [Next]_vars
<1>1. ASSUME NEW m \in Machines, HostStep(m) \/ AgentReturns(m) \/ Start(m) \/ FaultStep(m)
      PROVE  HostInv' /\ [Next]_vars
  BY <1>1, LoopStepKeepsInv, RenewKeepsInv, ClaimKeepsInv, ReturnKeepsInv, LostAnswerKeepsInv
     DEF HostStep, AgentReturns, FaultStep
<1>2. ASSUME NEW q \in requests, Serve(q) PROVE HostInv' /\ [Next]_vars
  BY <1>2, ServeKeepsInv
<1>3. CASE \/ MemberStep /\ UNCHANGED hostVars
           \/ \E m \in Machines : RevokeMachine(m) /\ UNCHANGED hostVars
           \/ \E q \in requests : Drop(q)
           \/ HostTick \/ LongPause
           \/ UNCHANGED allVars
  BY <1>3, OutsideKeepsInv
<1> QED BY <1>1, <1>2, <1>3 DEF HostNext, Environment

(* HostInv is an invariant: Hosts that have just started satisfy it. *)
THEOREM HostInvariance == HostSpec => []HostInv
<1>1. ASSUME HostInit PROVE HostInv
  <2>1. IInv /\ TypeOK
    BY <1>1, InitIInv DEF HostInit, IInv
  <2>2. /\ host \in [Machines -> Host] /\ requests = {} /\ faults \in 0 .. MaxFaults
        /\ \A m \in Machines : host[m].at = "loop"
    BY <1>1, HostAssumption DEF HostInit, Serving, Host, Kinds
  <2> QED BY <2>1, <2>2 DEF HostInv, HostTypeOK, HostsHaveAttempts, RequestsAreAwaited,
       HealthyHostKeepsRun
<1>2. ASSUME HostInv, [HostNext]_allVars PROVE HostInv'
  BY <1>2, HostNextKeepsInv
<1> QED BY <1>1, <1>2, PTL DEF HostSpec

(* The Hosts, with lost answers, late requests, crashes and pauses, carry out
   transactions of WorkRun and nothing else: so what WorkRunProofs proves of
   the tables holds while they run. *)
THEOREM HostsUseTransactions == HostSpec => Spec
<1>1. HostInit => Init
  BY DEF HostInit
<1>2. HostInv /\ [HostNext]_allVars => [Next]_vars
  BY HostNextKeepsInv
<1> QED BY <1>1, <1>2, HostInvariance, PTL DEF HostSpec, Spec

(* So the whole chain, from Hosts that crash, pause and lose answers to what
   Carry promises of a Work, holds: input is applied in order, once, by one
   writer, and a stopped Work moves only when a member permits it. *)
THEOREM HostsImplementProgress ==
    HostSpec => /\ ImplementsProgress /\ []InputAppliedOnce /\ []SingleWriter
                /\ NothingAppliedWithoutRetry
  BY HostsUseTransactions, Refinement, AppliedOnce, OneWriter, RetryGatesProgress

(* A Host without faults keeps the authority over what it executes until its
   result is answered. *)
THEOREM HealthyHost == HostSpec => []HealthyHostKeepsRun
<1>1. HostInv => HealthyHostKeepsRun
  BY DEF HostInv
<1> QED BY <1>1, HostInvariance, PTL

(* Two Hosts that execute the same Work never both have authority. *)
THEOREM OneHost == HostSpec => []OneHostHasAuthority
<1>1. ASSUME HostInv, SingleWriter PROVE OneHostHasAuthority
  <2>1. ASSUME NEW m \in Machines, NEW n \in Machines,
               host[m].at \in Busy, host[n].at \in Busy,
               MayAct(host[m].attempt), MayAct(host[n].attempt),
               runs[attempts[host[m].attempt].run].work = runs[attempts[host[n].attempt].run].work
        PROVE  m = n
    <3>1. /\ host[m].attempt \in DOMAIN attempts /\ attempts[host[m].attempt].machine = m
          /\ host[n].attempt \in DOMAIN attempts /\ attempts[host[n].attempt].machine = n
      BY <1>1, <2>1 DEF HostInv, HostsHaveAttempts, Busy
    <3>2. host[m].attempt = host[n].attempt
      BY <1>1, <2>1, <3>1 DEF SingleWriter, MayAct
    <3> QED BY <3>1, <3>2
  <2> QED BY <2>1 DEF OneHostHasAuthority, Busy
<1> QED BY <1>1, HostInvariance, HostsUseTransactions, OneWriter, PTL
=============================================================================
