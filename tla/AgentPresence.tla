---------------------------- MODULE AgentPresence ----------------------------
(***************************************************************************)
(* Agents and their presence: the rows of agents, agent_presence and the    *)
(* report columns of machines, the transaction ReconcileAgentPresence, the  *)
(* three transactions that remove Agents, and the AgentReporter of each     *)
(* Host process.                                                            *)
(*                                                                         *)
(* A Machine may be served by several processes (Copies): a restarted one   *)
(* beside its late requests, or two physical copies of the same local       *)
(* state.  A report is what one process observed, and reports are numbered  *)
(* in the order of the observations; the number stands for report_id and    *)
(* for the digest of the body.  A request with a report may begin at any     *)
(* time after it was made and any number of times: the reporter repeats it  *)
(* until it has an answer, and earlier tries may arrive late.               *)
(*                                                                         *)
(* ReconcileAgentPresence reads the bindings before it holds a lock, so it  *)
(* has two steps here; all the rest is under the lock of the Machine row.   *)
(* A timestamp is the number of the last report transaction begun by then:  *)
(* transaction_timestamp() is the time of BEGIN, before the locks.          *)
(* Recognition (unsupported adapters) and Agent names are left out.         *)
(***************************************************************************)
EXTENDS SpaceMembers, Sequences

CONSTANTS
    Machines,
    Copies,            \* processes that serve one Machine
    Occurrences,       \* <<adapter, occurrence>> pairs of the vocabulary
    MaxReports,        \* bound of the model on observations
    MaxTransactions    \* bound of the model on report transactions

ASSUME AgentAssumption == MaxReports \in Nat /\ MaxTransactions \in Nat

VARIABLES
    machines,    \* machines: enroller, revoked_at, revision, last report
    agents,      \* agents with agent_presence, by binding
    reports,     \* the reports made so far
    reporters,   \* the AgentReporter of each process
    open,        \* report transactions between their pre-read and their locks
    begun,       \* report transactions begun so far
    answers,     \* answers to reports
    failed       \* whether a removal ended with an error of the database

vars == <<members, machines, agents, reports, reporters, open, begun, answers, failed>>

Processes == Machines \X Copies
Bindings == Machines \X Occurrences
ReportIds == 1 .. MaxReports

Machine == [enrolledBy: Enrollers, state: {"connected", "revoked"},
            revision: 0 .. MaxReports, last: 0 .. MaxReports]
Agent == [owner: Users, state: {"active", "removed"},
          presence: {"present", "absent"}, created: 1 .. MaxTransactions]
Report == [process: Processes, base: 0 .. MaxReports,
           seen: SUBSET Occurrences, present: SUBSET Occurrences]
Reporter == [at: {"idle", "reporting", "stopped"}, revision: 0 .. MaxReports,
             report: 0 .. MaxReports]
Transaction == [start: 1 .. MaxTransactions, report: ReportIds,
                path: {"allocation", "presence"}]
Answer == [report: ReportIds, result: {"accepted", "stale", "revoked"},
           revision: 0 .. MaxReports]

TypeOK ==
    /\ MembersTypeOK
    /\ machines \in [Machines -> Machine]
    /\ DOMAIN agents \subseteq Bindings /\ agents \in [DOMAIN agents -> Agent]
    /\ reports \in Seq(Report) /\ Len(reports) <= MaxReports
    /\ reporters \in [Processes -> Reporter]
    /\ open \subseteq Transaction
    /\ begun \in 0 .. MaxTransactions
    /\ answers \subseteq Answer
    /\ failed \in {"no", "yes"}

NewReporter == [at |-> "idle", revision |-> 0, report |-> 0]

Init ==
    /\ MembersInit
    /\ machines \in [Machines -> [enrolledBy: Enrollers, state: {"connected"},
                                  revision: {0}, last: {0}]]
    /\ agents = [b \in {} |-> b]
    /\ reports = <<>>
    /\ reporters = [p \in Processes |-> NewReporter]
    /\ open = {}
    /\ begun = 0
    /\ answers = {}
    /\ failed = "no"

-----------------------------------------------------------------------------
(* The reporter of a process. *)

(* Report: observe all adapters, then name the last revision seen. *)
Observe(p, seen, present) ==
    /\ reporters[p].at = "idle"
    /\ Len(reports) < MaxReports
    /\ present \subseteq seen
    /\ reports' = Append(reports, [process |-> p, base |-> reporters[p].revision,
                                   seen |-> seen, present |-> present])
    /\ reporters' = [reporters EXCEPT ![p] =
                       [@ EXCEPT !.at = "reporting", !.report = Len(reports) + 1]]
    /\ UNCHANGED <<members, machines, agents, open, begun, answers, failed>>

(* An answer to the report the process waits for: it was accepted, it is
   stale and the process observes again, or the Machine is revoked. *)
Receive(p, a) ==
    /\ reporters[p].at = "reporting" /\ reporters[p].report = a.report
    /\ reporters' = [reporters EXCEPT ![p] =
                       [at |-> IF a.result = "revoked" THEN "stopped" ELSE "idle",
                        revision |-> a.revision, report |-> 0]]
    /\ UNCHANGED <<members, machines, agents, reports, open, begun, answers, failed>>

(* The process ends and another one starts with a new reporter. *)
Restart(p) ==
    /\ reporters[p] # NewReporter
    /\ reporters' = [reporters EXCEPT ![p] = NewReporter]
    /\ UNCHANGED <<members, machines, agents, reports, open, begun, answers, failed>>

-----------------------------------------------------------------------------
(* ReconcileAgentPresence *)

MachineOf(i) == reports[i].process[1]
BindingsOf(m, occurrences) == {m} \X occurrences

(* Phase 1, without a lock: which path of locks the report needs. *)
BeginReport(i) ==
    /\ begun < MaxTransactions
    /\ begun' = begun + 1
    /\ open' = open \cup
         {[start |-> begun + 1, report |-> i,
           path |-> IF BindingsOf(MachineOf(i), reports[i].seen) \subseteq DOMAIN agents
                    THEN "presence" ELSE "allocation"]}
    /\ UNCHANGED <<members, machines, agents, reports, reporters, answers, failed>>

(* Mutant: the approving Membership is not asked for. *)
AnyApprover(t) == TRUE
(* Phase 2: the approver is locked and looked at on the allocation path. *)
ApproverActive(t) ==
    t.path = "allocation" => IsActiveMember(machines[MachineOf(t.report)].enrolledBy)

(* Mutant: any report is taken. *)
IsAnyBase(i) == TRUE
(* Phase 3: the report continues the revision of the Machine. *)
IsCurrentBase(i) == reports[i].base = machines[MachineOf(i)].revision

(* Phase 5: the missing bindings that get an identity. *)
Allocated(t) ==
    IF ApproverActive(t)
    THEN BindingsOf(MachineOf(t.report), reports[t.report].seen) \ DOMAIN agents
    ELSE {}

(* Mutant: Agents that the report leaves out stay present. *)
PresenceIfSeen(b, i) ==
    IF b[2] \in reports[i].present THEN "present"
    ELSE IF b[2] \in reports[i].seen \/ b \notin DOMAIN agents THEN "absent"
    ELSE agents[b].presence
(* Phase 6: presence is replaced completely. *)
PresenceAfter(b, i) == IF b[2] \in reports[i].present THEN "present" ELSE "absent"

AgentsAfterReport(t) ==
    LET m == MachineOf(t.report)
    IN  [b \in DOMAIN agents \cup Allocated(t) |->
           IF b \in Allocated(t)
           THEN [owner |-> machines[m].enrolledBy, state |-> "active",
                 presence |-> PresenceAfter(b, t.report), created |-> t.start]
           ELSE IF b[1] = m /\ agents[b].state = "active"
           THEN [agents[b] EXCEPT !.presence = PresenceAfter(b, t.report)]
           ELSE agents[b]]

Reply(t, result, revision) ==
    /\ open' = open \ {t}
    /\ answers' = answers \cup
                  {[report |-> t.report, result |-> result, revision |-> revision]}

AcceptReport(t) ==
    LET i == t.report
        m == MachineOf(i)
    IN  /\ machines[m].state = "connected"
        /\ machines[m].last # i
        /\ IsCurrentBase(i)
        /\ agents' = AgentsAfterReport(t)
        /\ machines' = [machines EXCEPT ![m].revision = @ + 1, ![m].last = i]
        /\ Reply(t, "accepted", machines[m].revision + 1)
        /\ UNCHANGED <<members, reports, reporters, begun, failed>>

(* No write: the Machine is revoked, the report is a replay of the last one,
   or its base is not the current revision. *)
AnswerReport(t) ==
    LET i == t.report
        m == MachineOf(i)
    IN  /\ \/ machines[m].state = "revoked" /\ Reply(t, "revoked", machines[m].revision)
           \/ /\ machines[m].state = "connected" /\ machines[m].last = i
              /\ Reply(t, "accepted", machines[m].revision)
           \/ /\ machines[m].state = "connected" /\ machines[m].last # i
              /\ ~ IsCurrentBase(i)
              /\ Reply(t, "stale", machines[m].revision)
        /\ UNCHANGED <<members, machines, agents, reports, reporters, begun, failed>>

-----------------------------------------------------------------------------
(* Removals.  start is the time of BEGIN, any time up to now: the removal
   may have waited for its locks since. *)

ActiveOn(m) == {b \in DOMAIN agents : b[1] = m /\ agents[b].state = "active"}
ActiveOf(u) == {b \in DOMAIN agents : agents[b].owner = u /\ agents[b].state = "active"}

Removed(gone) ==
    [b \in DOMAIN agents |->
       IF b \in gone THEN [agents[b] EXCEPT !.state = "removed", !.presence = "absent"]
       ELSE agents[b]]

(* agents_removed_time_check: removed_at >= created_at.  Where it fails the
   whole removal is rolled back. *)
TimeCheck(gone, start) == \A b \in gone : agents[b].created <= start

(* RevokeMachineFromBrowser by an enroller, RevokeMachineFromHost by anyone
   who holds the Machine's certificate: the same effect. *)
MayRevoke(by) == by # NoUser => IsActiveMember(by) /\ "enroll" \in members[by].may

RevokeMachine(by, m, start) ==
    /\ MayRevoke(by)
    /\ machines[m].state = "connected"
    /\ TimeCheck(ActiveOn(m), start)
    /\ machines' = [machines EXCEPT ![m].state = "revoked"]
    /\ agents' = Removed(ActiveOn(m))
    /\ UNCHANGED <<members, reports, reporters, open, begun, answers, failed>>

RevokeMachineFails(by, m, start) ==
    /\ MayRevoke(by)
    /\ machines[m].state = "connected"
    /\ ~ TimeCheck(ActiveOn(m), start)
    /\ failed' = "yes"
    /\ UNCHANGED <<members, machines, agents, reports, reporters, open, begun, answers>>

(* The target owns no Open Work, so no successor is named: the transfer of
   Work is in WorkRun. *)
RemoveSpaceMember(actor, target, key, start) ==
    /\ RemoveMembership(actor, target, NoUser, key, FALSE)
    /\ TimeCheck(ActiveOf(target), start)
    /\ agents' = Removed(ActiveOf(target))
    /\ UNCHANGED <<machines, reports, reporters, open, begun, answers, failed>>

RemoveSpaceMemberFails(actor, target, key, start) ==
    /\ IsActiveMember(actor) /\ "manage" \in members[actor].may
    /\ IsActiveMember(target) /\ LeavesSpaceGoverned(target)
    /\ ~ RemovalKeyUsed(actor, key)
    /\ ~ TimeCheck(ActiveOf(target), start)
    /\ failed' = "yes"
    /\ UNCHANGED <<members, machines, agents, reports, reporters, open, begun, answers>>

ReporterStep ==
    \E p \in Processes :
        \/ \E seen, present \in SUBSET Occurrences : Observe(p, seen, present)
        \/ \E a \in answers : Receive(p, a)
        \/ Restart(p)

ReportStep ==
    \/ \E i \in DOMAIN reports : BeginReport(i)
    \/ \E t \in open : AcceptReport(t) \/ AnswerReport(t)

RemovalStep ==
    \E start \in 0 .. begun :
        \/ \E by \in Users \cup {NoUser}, m \in Machines :
               RevokeMachine(by, m, start) \/ RevokeMachineFails(by, m, start)
        \/ \E u, target \in Users, k \in Keys :
               \/ RemoveSpaceMember(u, target, k, start)
               \/ RemoveSpaceMemberFails(u, target, k, start)

Next == ReporterStep \/ ReportStep \/ RemovalStep

Spec == Init /\ [][Next]_vars
-----------------------------------------------------------------------------
(* Properties. *)

(* Nobody's Agent is active: the owner of an active Agent is an active
   member and its Machine is connected, although a report decides how to
   lock before it holds a lock and a removal may come in between. *)
ActiveAgentsAreBacked ==
    \A b \in DOMAIN agents :
        agents[b].state = "active" =>
            /\ machines[b[1]].state = "connected"
            /\ IsActiveMember(agents[b].owner)

(* The presence of active Agents is that of the last accepted report, all of
   it and nothing older. *)
PresenceIsLastReport ==
    \A b \in DOMAIN agents :
        agents[b].state = "active" =>
            /\ machines[b[1]].last # 0
            /\ agents[b].presence = "present"
                 <=> b[2] \in reports[machines[b[1]].last].present

(* A newer observation is never overwritten by an older one: not by a late
   request, a repeated one, or the other process of the Machine. *)
NewestObservationWins ==
    [][\A m \in Machines : machines'[m].last # machines[m].last =>
         machines'[m].last > machines[m].last]_vars

(* A revocation or removal that races the allocation of an Agent ends with
   the Agent removed or never created: it does not fail. *)
RemovalsDoNotFail == failed = "no"

(***************************************************************************)
(* Why: the inductive invariant of AgentPresenceProofs.  Nobody knows a     *)
(* revision before the Machine has it, so a report that names the current   *)
(* revision was made after the last accepted one.                           *)
(***************************************************************************)
RevisionsAreKnownLate ==
    /\ \A m \in Machines : /\ machines[m].last \in 0 .. Len(reports)
                           /\ machines[m].revision <= machines[m].last
    /\ \A a \in answers : /\ a.report \in DOMAIN reports
                          /\ a.revision <= machines[MachineOf(a.report)].revision
    /\ \A p \in Processes :
         /\ reporters[p].revision <= machines[p[1]].revision
         /\ reporters[p].report # 0 => /\ reporters[p].report \in DOMAIN reports
                                       /\ reports[reporters[p].report].process = p

CurrentReportsAreNew ==
    \A i \in DOMAIN reports :
        /\ reports[i].base <= machines[MachineOf(i)].revision
        /\ reports[i].base = machines[MachineOf(i)].revision => i > machines[MachineOf(i)].last

(* What a report transaction read before its locks stays true: bindings are
   never deleted. *)
PreReadStaysTrue ==
    \A t \in open :
        /\ t.report \in DOMAIN reports
        /\ t.path = "presence" =>
             BindingsOf(MachineOf(t.report), reports[t.report].seen) \subseteq DOMAIN agents

AgentInv ==
    /\ TypeOK
    /\ RevisionsAreKnownLate
    /\ CurrentReportsAreNew
    /\ PreReadStaysTrue
    /\ ActiveAgentsAreBacked
    /\ PresenceIsLastReport
=============================================================================
