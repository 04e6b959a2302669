------------------------------- MODULE WorkRun -------------------------------
(***************************************************************************)
(* The durable core of Carry: the Works of one Space, the Runs that apply    *)
(* members' input to them, and the Attempts that give one Machine at a time *)
(* the authority to commit.  A variable is a PostgreSQL table of the        *)
(* control plane, an action is one transaction of the Store that changes    *)
(* it, with its guard made of every condition and early return before its  *)
(* first write.  The row locks (FOR UPDATE of run, attempt and work, FOR    *)
(* SHARE of machine and membership) make each transaction atomic with       *)
(* respect to the others; ORDER BY ... LIMIT 1 ... SKIP LOCKED chooses any   *)
(* eligible row, because any earlier one may be locked.                      *)
(*                                                                         *)
(* Replays of a request under a used idempotency key read and answer        *)
(* without a write, so each action's guard asks for an unused key.          *)
(* works.lifecycle is always 'open' (migration 0003), so it is no field.    *)
(***************************************************************************)
EXTENDS SpaceMembers, FiniteSetsExt

CONSTANTS
    Machines,           \* Machines connected to the Space
    WorkIds, RunIds, AttemptIds,   \* fresh identifiers (uuid.NewString)
    NoAttempt,          \* no understanding has been committed yet
    Sizes,              \* byte lengths of message texts
    MaxInputMessages,   \* run.MaxInputMessages: messages in one Run
    MaxInputTextBytes,  \* run.MaxInputTextBytes: their total length
    LeaseTicks,         \* length of a lease, in ticks of the database clock
    MaxHead             \* bound of the model on input_head_seq

ASSUME WorkRunAssumption ==
    /\ NoAttempt \notin AttemptIds
    /\ Sizes \subseteq Nat
    /\ MaxInputMessages \in Nat
    /\ MaxInputTextBytes \in Nat
    /\ LeaseTicks \in Nat \ {0}
    /\ MaxHead \in Nat

VARIABLES
    works,       \* works: a function on the identifiers of existing rows
    messages,    \* work_messages: the set of rows
    runs,        \* runs
    attempts,    \* run_attempts
    checks,      \* work_result_checks: one row per Work and version
    machines     \* machines.revoked_at: "connected" or "revoked"

vars == <<members, works, messages, runs, attempts, checks, machines>>

Outcomes == {"failed", "unknown"}

Work == [owner: Users, creator: Users, key: Keys, head: Nat, applied: Nat,
         version: Nat, content: AttemptIds \cup {NoAttempt}]
Message == [work: WorkIds, author: Users, key: Keys, seq: Nat, size: Sizes]
Run == [work: WorkIds, state: {"active", "succeeded"} \cup Outcomes,
        start: Nat, end: Nat, base: Nat, fence: Nat,
        retryBy: Users \cup {NoUser}, retryKey: Keys \cup {NoKey}]
Attempt == [run: RunIds, machine: Machines, fence: Nat, lease: 0 .. LeaseTicks,
            state: {"active", "succeeded", "expired"} \cup Outcomes]
Check == [work: WorkIds, version: Nat, content: AttemptIds,
          acceptedBy: Users \cup {NoUser}, acceptKey: Keys \cup {NoKey}]

(* INSERT of a row under a fresh identifier. *)
Insert(table, id, row) ==
    [x \in DOMAIN table \cup {id} |-> IF x = id THEN row ELSE table[x]]

TypeOK ==
    /\ MembersTypeOK
    /\ DOMAIN works \subseteq WorkIds /\ works \in [DOMAIN works -> Work]
    /\ messages \subseteq Message
    /\ DOMAIN runs \subseteq RunIds /\ runs \in [DOMAIN runs -> Run]
    /\ DOMAIN attempts \subseteq AttemptIds
    /\ attempts \in [DOMAIN attempts -> Attempt]
    /\ checks \subseteq Check
    /\ machines \in [Machines -> {"connected", "revoked"}]

EmptyTable == [x \in {} |-> x]

Init ==
    /\ MembersInit
    /\ works = EmptyTable
    /\ messages = {}
    /\ runs = EmptyTable
    /\ attempts = EmptyTable
    /\ checks = {}
    /\ machines = [m \in Machines |-> "connected"]

-----------------------------------------------------------------------------
(* What the queries ask of the rows. *)

RunsOf(w) == {r \in DOMAIN runs : runs[r].work = w}
SucceededRuns(w) == {r \in RunsOf(w) : runs[r].state = "succeeded"}

(* needs_retry: a failed or unknown Run that no member has retried. *)
NeedsRetryRun(r) == runs[r].state \in Outcomes /\ runs[r].retryBy = NoUser
NeedsRetry(w) == \E r \in RunsOf(w) : NeedsRetryRun(r)

(* The predicate of the partial unique index runs_unresolved_work_idx. *)
Unresolved(r) == runs[r].state = "active" \/ NeedsRetryRun(r)
(* Mutants: a claim that overlooks active Runs, or failed ones. *)
HasFailedRunOnly(w) == \E r \in RunsOf(w) : NeedsRetryRun(r)
HasActiveRunOnly(w) == \E r \in RunsOf(w) : runs[r].state = "active"
HasUnresolvedRun(w) == \E r \in RunsOf(w) : Unresolved(r)

(* LockAttemptForCommit, -Renew and -Finish: the Attempt holds its Run. *)
HoldsRun(a) ==
    LET r == attempts[a].run
    IN  /\ r \in DOMAIN runs
        /\ runs[r].fence = attempts[a].fence
        /\ runs[r].state = "active"
        /\ attempts[a].state = "active"
        /\ machines[attempts[a].machine] = "connected"

(* RunAttemptLeaseIsCurrent: lease_expires_at > clock_timestamp(). *)
LeaseCurrent(a) == attempts[a].lease > 0

(* The messages start .. end of a Work, and whether one Run may take them. *)
MessagesIn(w, start, end) ==
    {m \in messages : m.work = w /\ m.seq \in start .. end}
TextBytes(ms) == MapThenSumSet(LAMBDA m : m.size, ms)
FitsOneRun(w, start, end) ==
    /\ MessagesIn(w, start, end) # {}
    /\ Cardinality(MessagesIn(w, start, end)) <= MaxInputMessages
    /\ TextBytes(MessagesIn(w, start, end)) <= MaxInputTextBytes

(***************************************************************************)
(* SelectRunInputEnd: the longest run of upcoming messages within both      *)
(* limits, and the first input alone when no message qualifies.            *)
(***************************************************************************)
IsRunInputEnd(w, start, end) ==
    /\ end = start \/ FitsOneRun(w, start, end)
    /\ \A later \in (end + 1) .. works[w].head : ~ FitsOneRun(w, start, later)

-----------------------------------------------------------------------------
(* Members. *)

(* The goal is input 1; members' messages follow it. *)
CreateWork(u, w, k) ==
    /\ IsActiveMember(u)
    /\ ~ \E x \in DOMAIN works : works[x].creator = u /\ works[x].key = k
    /\ w \in WorkIds \ DOMAIN works
    /\ works' = Insert(works, w,
                  [owner |-> u, creator |-> u, key |-> k, head |-> 1,
                   applied |-> 0, version |-> 0, content |-> NoAttempt])
    /\ UNCHANGED <<members, messages, runs, attempts, checks, machines>>

(* Mutant: the message takes the number of the input before it. *)
MessageAtOldHead(u, w, k, size) ==
    [work |-> w, author |-> u, key |-> k, seq |-> works[w].head, size |-> size]
NewMessage(u, w, k, size) ==
    [work |-> w, author |-> u, key |-> k, seq |-> works[w].head + 1, size |-> size]

AppendWorkMessage(u, w, k, size) ==
    /\ IsActiveMember(u)
    /\ w \in DOMAIN works
    /\ ~ \E m \in messages : m.work = w /\ m.author = u /\ m.key = k
    /\ works[w].head < MaxHead
    /\ works' = [works EXCEPT ![w].head = @ + 1]
    /\ messages' = messages \cup {NewMessage(u, w, k, size)}
    /\ UNCHANGED <<members, runs, attempts, checks, machines>>

(* The check is of the version, the input and the content that the locked
   Work has now. *)
(* Mutant: input that arrived after the result is overlooked. *)
CheckIsOfVersion(c) ==
    /\ c.version = works[c.work].version
    /\ c.content = works[c.work].content
CheckIsCurrent(c) ==
    /\ c.version = works[c.work].version
    /\ works[c.work].applied = works[c.work].head
    /\ c.content = works[c.work].content

AcceptWorkReview(u, c, k) ==
    /\ IsActiveMember(u)
    /\ ~ \E x \in checks : x.work = c.work /\ x.acceptedBy = u /\ x.acceptKey = k
    /\ c.work \in DOMAIN works
    /\ works[c.work].owner = u
    /\ c.acceptedBy = NoUser
    /\ CheckIsCurrent(c)
    /\ checks' = (checks \ {c}) \cup
                 {[c EXCEPT !.acceptedBy = u, !.acceptKey = k]}
    /\ UNCHANGED <<members, works, messages, runs, attempts, machines>>

RequestWorkRetry(u, w, k) ==
    /\ IsActiveMember(u)
    /\ w \in DOMAIN works
    /\ ~ \E r \in RunsOf(w) : runs[r].retryKey = k
    /\ \E r \in RunsOf(w) :
         /\ NeedsRetryRun(r)
         /\ runs' = [runs EXCEPT ![r] = [@ EXCEPT !.retryBy = u, !.retryKey = k]]
    /\ UNCHANGED <<members, works, messages, attempts, checks, machines>>

(* Mutant: the transfer is skipped. *)
KeepOwners(target, successor) == works
TransferredWorks(target, successor) ==
    [w \in DOMAIN works |-> IF works[w].owner = target
                           THEN [works[w] EXCEPT !.owner = successor]
                           ELSE works[w]]

(* Open Work of the removed member passes to the successor in the same
   transaction; the member's Agents are AgentPresence's part of it. *)
RemoveSpaceMember(actor, target, successor, key) ==
    /\ RemoveMembership(actor, target, successor, key,
                        \E w \in DOMAIN works : works[w].owner = target)
    /\ works' = TransferredWorks(target, successor)
    /\ UNCHANGED <<messages, runs, attempts, checks, machines>>

-----------------------------------------------------------------------------
(* Machines. *)

NewAttempt(r, m, fence) ==
    [run |-> r, machine |-> m, fence |-> fence, lease |-> LeaseTicks,
     state |-> "active"]

HandedOver(r) == [runs[r] EXCEPT !.fence = @ + 1]

(***************************************************************************)
(* ClaimRun, first half: an active Run whose current Attempt's lease ran    *)
(* out is fenced off and handed over with its range and base unchanged.     *)
(***************************************************************************)
RecoverRun(m, old, a) ==
    /\ machines[m] = "connected"
    /\ attempts[old].state = "active"
    /\ attempts[old].run \in DOMAIN runs
    /\ attempts[old].fence = runs[attempts[old].run].fence
    /\ runs[attempts[old].run].state = "active"
    /\ ~ LeaseCurrent(old)
    /\ a \in AttemptIds \ DOMAIN attempts
    /\ LET r == attempts[old].run
       IN  /\ runs' = [runs EXCEPT ![r] = HandedOver(r)]
           /\ attempts' = Insert([attempts EXCEPT ![old].state = "expired"], a,
                                 NewAttempt(r, m, runs[r].fence + 1))
    /\ UNCHANGED <<members, works, messages, checks, machines>>

(***************************************************************************)
(* ClaimRun, second half: a Work with unapplied input and no unresolved Run *)
(* gets a Run over its next inputs.  It is tried when no expired Run could  *)
(* be locked, which SKIP LOCKED lets happen although one exists.            *)
(***************************************************************************)
CreateRun(m, w, r, a) ==
    /\ machines[m] = "connected"
    /\ works[w].applied < works[w].head
    /\ ~ HasUnresolvedRun(w)
    /\ r \in RunIds \ DOMAIN runs
    /\ a \in AttemptIds \ DOMAIN attempts
    /\ \E end \in (works[w].applied + 1) .. works[w].head :
         /\ IsRunInputEnd(w, works[w].applied + 1, end)
         /\ runs' = Insert(runs, r,
                      [work |-> w, state |-> "active",
                       start |-> works[w].applied + 1, end |-> end,
                       base |-> works[w].version, fence |-> 1,
                       retryBy |-> NoUser, retryKey |-> NoKey])
    /\ attempts' = Insert(attempts, a, NewAttempt(r, m, 1))
    /\ UNCHANGED <<members, works, messages, checks, machines>>

RenewRunAttempt(a) ==
    /\ HoldsRun(a)
    /\ LeaseCurrent(a)
    /\ attempts' = [attempts EXCEPT ![a].lease = LeaseTicks]
    /\ UNCHANGED <<members, works, messages, runs, checks, machines>>

(* The Run still describes the Work: nothing was applied beside it. *)
RunIsCurrent(r) ==
    LET w == runs[r].work
    IN  /\ works[w].version = runs[r].base
        /\ works[w].applied = runs[r].start - 1
        /\ works[w].head >= runs[r].end

(* Mutant: the commit claims all the input there is by now. *)
WorkWithAllApplied(w, r, a) ==
    [works[w] EXCEPT !.applied = works[w].head, !.version = @ + 1, !.content = a]
WorkAfterCommit(w, r, a) ==
    [works[w] EXCEPT !.applied = runs[r].end,
                     !.version = works[w].version + 1, !.content = a]

(* The range and base of the command are those of the claim, which are the
   Run's own, so the comparison with the locked row always succeeds. *)
CommitWorkUnderstanding(a, reviewRequired) ==
    /\ HoldsRun(a)
    /\ LeaseCurrent(a)
    /\ RunIsCurrent(attempts[a].run)
    /\ LET r == attempts[a].run
           w == runs[r].work
       IN  /\ works' = [works EXCEPT ![w] = WorkAfterCommit(w, r, a)]
           /\ IF reviewRequired /\ runs[r].end = works[w].head
              THEN /\ ~ \E c \in checks :
                          c.work = w /\ c.version = works[w].version + 1
                   /\ checks' = checks \cup
                        {[work |-> w, version |-> works[w].version + 1,
                          content |-> a, acceptedBy |-> NoUser,
                          acceptKey |-> NoKey]}
              ELSE checks' = checks
           /\ runs' = [runs EXCEPT ![r].state = "succeeded"]
           /\ attempts' = [attempts EXCEPT ![a].state = "succeeded"]
    /\ UNCHANGED <<members, messages, machines>>

FinishUnresolvedAttempt(a, outcome) ==
    /\ HoldsRun(a)
    /\ LeaseCurrent(a)
    /\ runs' = [runs EXCEPT ![attempts[a].run].state = outcome]
    /\ attempts' = [attempts EXCEPT ![a].state = outcome]
    /\ UNCHANGED <<members, works, messages, checks, machines>>

(* RevokeMachineFromBrowser and RevokeMachineFromHost: terminal. *)
RevokeMachine(m) ==
    /\ machines[m] = "connected"
    /\ machines' = [machines EXCEPT ![m] = "revoked"]
    /\ UNCHANGED <<members, works, messages, runs, attempts, checks>>

-----------------------------------------------------------------------------
LeaseAfterTick(a) == IF LeaseCurrent(a) THEN attempts[a].lease - 1 ELSE 0

(* The clock of the database: every running lease gets one tick shorter. *)
Tick ==
    /\ \E a \in DOMAIN attempts : LeaseCurrent(a)
    /\ attempts' = [a \in DOMAIN attempts |->
                      [attempts[a] EXCEPT !.lease = LeaseAfterTick(a)]]
    /\ UNCHANGED <<members, works, messages, runs, checks, machines>>

MemberStep ==
    \E u \in Users, k \in Keys :
        \/ \E w \in WorkIds : CreateWork(u, w, k)
        \/ \E w \in WorkIds, size \in Sizes : AppendWorkMessage(u, w, k, size)
        \/ \E c \in checks : AcceptWorkReview(u, c, k)
        \/ \E w \in WorkIds : RequestWorkRetry(u, w, k)
        \/ \E target \in Users, successor \in Users \cup {NoUser} :
               RemoveSpaceMember(u, target, successor, k)

MachineStep ==
    \/ \E m \in Machines, old \in DOMAIN attempts, a \in AttemptIds :
           RecoverRun(m, old, a)
    \/ \E m \in Machines, w \in DOMAIN works, r \in RunIds, a \in AttemptIds :
           CreateRun(m, w, r, a)
    \/ \E a \in DOMAIN attempts : RenewRunAttempt(a)
    \/ \E a \in DOMAIN attempts, review \in BOOLEAN :
           CommitWorkUnderstanding(a, review)
    \/ \E a \in DOMAIN attempts, outcome \in Outcomes :
           FinishUnresolvedAttempt(a, outcome)
    \/ \E m \in Machines : RevokeMachine(m)

Next == MemberStep \/ MachineStep \/ Tick

Spec == Init /\ [][Next]_vars
-----------------------------------------------------------------------------
(* Properties. *)

(* One writer: however claims, expiries, recoveries and late requests
   interleave, two Attempts never both pass LockAttemptForCommit for one
   Work, so no two Machines can both commit or finish it. *)
SingleWriter ==
    \A a, b \in DOMAIN attempts :
        HoldsRun(a) /\ HoldsRun(b)
          /\ runs[attempts[a].run].work = runs[attempts[b].run].work
        => a = b

(* Exactly once: every input up to applied_input_seq was taken by one
   succeeded Run and no other, and no succeeded Run reaches past it. *)
InputAppliedOnce ==
    \A w \in DOMAIN works :
        /\ \A r \in SucceededRuns(w) : runs[r].end <= works[w].applied
        /\ \A i \in 1 .. works[w].applied :
             \E r \in SucceededRuns(w) :
                /\ i \in runs[r].start .. runs[r].end
                /\ \A q \in SucceededRuns(w) :
                     i \in runs[q].start .. runs[q].end => q = r

(* The holder of an active Run is never refused as out of date: while the
   Attempt holds the Run, nobody else moved the Work's version or input
   under it (the re-checks of CommitWorkUnderstanding never fail). *)
HolderIsCurrent ==
    \A a \in DOMAIN attempts : HoldsRun(a) => RunIsCurrent(attempts[a].run)

(* Every Open Work is owned by an active member, through any order of
   creations, removals and transfers to members who are removed later. *)
OpenWorkHasActiveOwner ==
    \A w \in DOMAIN works : IsActiveMember(works[w].owner)

(* input_seq numbers a Work's messages 2 .. input_head_seq without gap or
   duplicate, so a Run's range names exactly the messages it was given. *)
InputIsContiguous ==
    \A w \in DOMAIN works :
        /\ {m.seq : m \in {x \in messages : x.work = w}} = 2 .. works[w].head
        /\ \A m, n \in messages :
             m.work = w /\ n.work = w /\ m.seq = n.seq => m = n

(* A failed or unknown Run stops its Work: nothing is applied to the Work
   until a member has asked for the retry, whatever Machines still send. *)
NothingAppliedWithoutRetry ==
    [][\A w \in DOMAIN works :
         NeedsRetry(w) => /\ works'[w].applied = works[w].applied
                          /\ works'[w].version = works[w].version]_vars

(* An accepted result is the whole result: at the step that accepts the
   check of a version, the Run that produced this version ended at the
   current input head, and the Work's owner is the member who accepts. *)
AcceptedReviewCoversAllInput ==
    [][\A c \in checks : \A d \in checks' :
         /\ c.work = d.work /\ c.version = d.version
         /\ c.acceptedBy = NoUser /\ d.acceptedBy # NoUser
         => /\ d.acceptedBy = works[c.work].owner
            /\ \E r \in SucceededRuns(c.work) :
                 /\ runs[r].base + 1 = c.version
                 /\ runs[r].end = works[c.work].head
                 /\ runs[r].end = works[c.work].applied]_vars

(***************************************************************************)
(* Why the properties hold: the inductive invariant of WorkRunProofs.       *)
(***************************************************************************)
RunRangesExist ==
    \A r \in DOMAIN runs :
        /\ runs[r].work \in DOMAIN works
        /\ runs[r].start >= 1
        /\ runs[r].start <= runs[r].end
        /\ runs[r].end <= works[runs[r].work].head

(* runs_unresolved_work_idx *)
OneUnresolvedRun ==
    \A q, r \in DOMAIN runs :
        runs[q].work = runs[r].work /\ Unresolved(q) /\ Unresolved(r) => q = r

ActiveRunIsCurrent ==
    \A r \in DOMAIN runs : runs[r].state = "active" => RunIsCurrent(r)

(* run_attempts_active_run_idx, UNIQUE (run_id, fence), and the agreement of
   the states of an Attempt and its Run. *)
AttemptsFollowRuns ==
    \A a \in DOMAIN attempts :
        /\ attempts[a].run \in DOMAIN runs
        /\ attempts[a].fence <= runs[attempts[a].run].fence
        /\ attempts[a].state = "active" =>
             /\ runs[attempts[a].run].state = "active"
             /\ runs[attempts[a].run].fence = attempts[a].fence
OneAttemptPerFence ==
    \A a, b \in DOMAIN attempts :
        attempts[a].run = attempts[b].run /\ attempts[a].fence = attempts[b].fence
        => a = b

(* The current version was produced by a succeeded Run that ended at
   applied_input_seq. *)
VersionHasRun ==
    \A w \in DOMAIN works :
        /\ works[w].applied <= works[w].head
        /\ works[w].version > 0 =>
             \E r \in SucceededRuns(w) : /\ runs[r].base + 1 = works[w].version
                                         /\ runs[r].end = works[w].applied

ChecksFollowVersions ==
    \A c \in checks : /\ c.work \in DOMAIN works
                      /\ c.version \in 1 .. works[c.work].version

IInv ==
    /\ TypeOK
    /\ RunRangesExist
    /\ OneUnresolvedRun
    /\ ActiveRunIsCurrent
    /\ AttemptsFollowRuns
    /\ OneAttemptPerFence
    /\ InputAppliedOnce
    /\ VersionHasRun
    /\ ChecksFollowVersions
    /\ OpenWorkHasActiveOwner
    /\ SpaceStaysGoverned

(***************************************************************************)
(* The invariant of the second part of WorkRunProofs: besides IInv, what    *)
(* numbers the input and the checks of a Work.  A row of work_messages or   *)
(* work_result_checks refers to an existing Work; a Work has its goal as    *)
(* input 1.                                                                 *)
(***************************************************************************)
InputFollowsWorks ==
    /\ \A w \in DOMAIN works : works[w].head >= 1
    /\ \A m \in messages : m.work \in DOMAIN works

(* UNIQUE (work_id, understanding_version) of work_result_checks. *)
OneCheckPerVersion ==
    \A c, d \in checks : c.work = d.work /\ c.version = d.version => c = d

InputInv ==
    /\ IInv
    /\ InputFollowsWorks
    /\ InputIsContiguous
    /\ OneCheckPerVersion

(* The retry columns of a Run are written only once it has failed. *)
ActiveRunsHaveNoRetry ==
    \A r \in DOMAIN runs : runs[r].state = "active" => runs[r].retryBy = NoUser

(***************************************************************************)
(* What a Work promises, whoever executes it: see WorkProgress.             *)
(***************************************************************************)
HeadOf(w) == IF w \in DOMAIN works THEN works[w].head ELSE 0
AppliedOf(w) == IF w \in DOMAIN works THEN works[w].applied ELSE 0
ActiveRunsOf(w) == {r \in RunsOf(w) : runs[r].state = "active"}
PhaseOf(w) == IF ActiveRunsOf(w) # {} THEN "working"
              ELSE IF NeedsRetry(w) THEN "stopped"
              ELSE "idle"
TargetOf(w) == IF ActiveRunsOf(w) # {}
               THEN runs[CHOOSE r \in ActiveRunsOf(w) : TRUE].end
               ELSE 0

Progress == INSTANCE WorkProgress WITH
    head <- [w \in WorkIds |-> HeadOf(w)],
    applied <- [w \in WorkIds |-> AppliedOf(w)],
    phase <- [w \in WorkIds |-> PhaseOf(w)],
    target <- [w \in WorkIds |-> TargetOf(w)]

(* The tables, with all their Runs, Attempts, fences and leases, implement
   the promise: input is applied in order, in steps fixed when they start,
   and a stopped Work moves again only when a member permits it. *)
ImplementsProgress == Progress!Spec
=============================================================================
