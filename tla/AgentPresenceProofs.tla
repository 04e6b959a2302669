------------------------ MODULE AgentPresenceProofs ------------------------
(***************************************************************************)
(* Proofs about AgentPresence, for any number of Machines, processes,       *)
(* Agents, reports and report transactions.  Two arguments carry them.      *)
(* What ReconcileAgentPresence reads before its locks can only become more  *)
(* true, so the path of locks it chose is still enough under the locks.     *)
(* And a process knows a revision only from an answer, so a report based on *)
(* the current revision is newer than the last accepted one.                *)
(***************************************************************************)
EXTENDS AgentPresence, TLAPS

-----------------------------------------------------------------------------
(* Tables and their parts. *)

(* What the types say of single rows. *)
LEMMA Rows ==
    ASSUME TypeOK
    PROVE  /\ \A m \in Machines : /\ machines[m] \in Machine
                                  /\ machines[m].revision \in Nat /\ machines[m].last \in Nat
           /\ \A b \in DOMAIN agents : agents[b] \in Agent /\ b \in Bindings
                                       /\ b[1] \in Machines /\ b[2] \in Occurrences
           /\ Len(reports) \in Nat /\ DOMAIN reports = 1 .. Len(reports)
           /\ DOMAIN reports \subseteq ReportIds
           /\ \A i \in DOMAIN reports : /\ reports[i] \in Report /\ MachineOf(i) \in Machines
                                        /\ reports[i].base \in Nat
           /\ \A p \in Processes : /\ reporters[p] \in Reporter /\ p[1] \in Machines
                                   /\ reporters[p].revision \in Nat
<1>1. \A m \in Machines : /\ machines[m] \in Machine
                          /\ machines[m].revision \in Nat /\ machines[m].last \in Nat
  BY AgentAssumption DEF TypeOK, Machine
<1>2. \A b \in DOMAIN agents : agents[b] \in Agent /\ b \in Bindings
                               /\ b[1] \in Machines /\ b[2] \in Occurrences
  BY DEF TypeOK, Bindings
<1>3. /\ Len(reports) \in Nat /\ DOMAIN reports = 1 .. Len(reports)
      /\ DOMAIN reports \subseteq ReportIds
  BY AgentAssumption DEF TypeOK, ReportIds
<1>4. \A i \in DOMAIN reports : /\ reports[i] \in Report /\ MachineOf(i) \in Machines
                                /\ reports[i].base \in Nat
  <2>1. \A i \in DOMAIN reports : reports[i] \in Report
    BY <1>3 DEF TypeOK
  <2>2. \A i \in DOMAIN reports : MachineOf(i) \in Machines
    BY <2>1 DEF Report, MachineOf, Processes
  <2>3. \A i \in DOMAIN reports : reports[i].base \in Nat
    BY <2>1, AgentAssumption DEF Report
  <2> QED BY <2>1, <2>2, <2>3
<1>5. \A p \in Processes : /\ reporters[p] \in Reporter /\ p[1] \in Machines
                           /\ reporters[p].revision \in Nat
  BY AgentAssumption DEF TypeOK, Reporter, Processes
<1> QED BY <1>1, <1>2, <1>3, <1>4, <1>5

(* A new report leaves the earlier ones as they were. *)
LEMMA ReportsGrow ==
    ASSUME TypeOK, NEW r \in Report, reports' = Append(reports, r), Len(reports) < MaxReports
    PROVE  /\ reports' \in Seq(Report) /\ Len(reports') = Len(reports) + 1
           /\ Len(reports') <= MaxReports
           /\ DOMAIN reports' = DOMAIN reports \cup {Len(reports) + 1}
           /\ reports'[Len(reports) + 1] = r
           /\ \A i \in DOMAIN reports : reports'[i] = reports[i]
  BY Rows, AgentAssumption DEF TypeOK

-----------------------------------------------------------------------------
(* The reporters. *)

(* A step of a reporter, which changes no table of the control plane. *)
LEMMA ReporterKeepsInv ==
    ASSUME AgentInv, ReporterStep
    PROVE  AgentInv'
<1>0. TypeOK
  BY DEF AgentInv
<1>1. ASSUME NEW p \in Processes, NEW seen \in SUBSET Occurrences,
             NEW present \in SUBSET Occurrences, Observe(p, seen, present)
      PROVE  AgentInv'
  <2> DEFINE n == Len(reports) + 1
             r == [process |-> p, base |-> reporters[p].revision,
                   seen |-> seen, present |-> present]
             row == [reporters[p] EXCEPT !.at = "reporting", !.report = n]
  <2>1. /\ reports' = Append(reports, r) /\ reporters' = [reporters EXCEPT ![p] = row]
        /\ Len(reports) < MaxReports
        /\ members' = members /\ machines' = machines /\ agents' = agents /\ open' = open
        /\ begun' = begun /\ answers' = answers /\ failed' = failed
    BY <1>1 DEF Observe
  <2>2. reporters[p] \in Reporter /\ p[1] \in Machines /\ Len(reports) \in Nat
    BY <1>0, Rows
  <2>3. r \in Report /\ r.process = p /\ r.base = reporters[p].revision
    BY <2>2 DEF Report, Reporter
  <2>4. /\ row \in Reporter /\ row.revision = reporters[p].revision /\ row.report = n
    <3>1. n \in 0 .. MaxReports
      BY <2>1, <2>2, AgentAssumption
    <3> HIDE DEF n
    <3> QED BY <2>2, <3>1 DEF Reporter
  <2> HIDE DEF r, row
  <2>5. /\ reports' \in Seq(Report) /\ Len(reports') = n /\ Len(reports') <= MaxReports
        /\ DOMAIN reports' = DOMAIN reports \cup {n}
        /\ reports'[n] = r
        /\ \A i \in DOMAIN reports : reports'[i] = reports[i]
    BY <1>0, <2>1, <2>3, ReportsGrow
  <2>6. /\ reporters'[p] = row
        /\ \A q \in Processes : q # p => reporters'[q] = reporters[q]
        /\ reporters' \in [Processes -> Reporter]
    BY <1>0, <2>1, <2>4 DEF TypeOK
  <2>7. TypeOK'
    BY <1>0, <2>1, <2>5, <2>6 DEF TypeOK, MembersTypeOK
  <2>8. /\ \A i \in DOMAIN reports : MachineOf(i)' = MachineOf(i) /\ MachineOf(i) \in Machines
        /\ r.process[1] = p[1]
    BY <1>0, <2>3, <2>5, Rows DEF MachineOf
  <2>9. RevisionsAreKnownLate'
    <3>1. \A m \in Machines : machines'[m].last \in 0 .. Len(reports')
                              /\ machines'[m].revision <= machines'[m].last
      BY <2>1, <2>2, <2>5 DEF AgentInv, RevisionsAreKnownLate
    <3>2. \A a \in answers : a.report \in DOMAIN reports
                             /\ a.revision <= machines[MachineOf(a.report)].revision
      BY DEF AgentInv, RevisionsAreKnownLate
    <3>3. \A a \in answers' : a.report \in DOMAIN reports'
                              /\ a.revision <= machines'[MachineOf(a.report)'].revision
      BY <2>1, <2>5, <2>8, <3>2
    <3>4. \A q \in Processes :
            /\ reporters'[q].revision <= machines'[q[1]].revision
            /\ reporters'[q].report # 0 => /\ reporters'[q].report \in DOMAIN reports'
                                           /\ reports'[reporters'[q].report].process = q
      BY <2>1, <2>3, <2>4, <2>5, <2>6 DEF AgentInv, RevisionsAreKnownLate
    <3> QED BY <3>1, <3>3, <3>4 DEF RevisionsAreKnownLate
  <2>10. CurrentReportsAreNew'
    <3>1. ASSUME NEW i \in DOMAIN reports'
          PROVE  /\ reports'[i].base <= machines'[MachineOf(i)'].revision
                 /\ reports'[i].base = machines'[MachineOf(i)'].revision
                      => i > machines'[MachineOf(i)'].last
      <4>1. CASE i \in DOMAIN reports
        BY <2>1, <2>5, <2>8, <4>1 DEF AgentInv, CurrentReportsAreNew
      <4>2. CASE i = n
        <5>1. MachineOf(i)' = p[1]
          BY <2>3, <2>5, <4>2 DEF MachineOf
        <5>2. /\ reporters[p].revision <= machines[p[1]].revision
              /\ machines[p[1]].last \in 0 .. Len(reports)
          BY <2>2 DEF AgentInv, RevisionsAreKnownLate
        <5> QED BY <2>1, <2>2, <2>3, <2>5, <4>2, <5>1, <5>2
      <4> QED BY <2>5, <4>1, <4>2
    <3> QED BY <3>1 DEF CurrentReportsAreNew
  <2>11. PreReadStaysTrue'
    BY <2>1, <2>5, <2>8 DEF AgentInv, PreReadStaysTrue, BindingsOf
  <2>12. ActiveAgentsAreBacked'
    BY <2>1 DEF AgentInv, ActiveAgentsAreBacked, IsActiveMember
  <2>13. PresenceIsLastReport'
    <3>1. ASSUME NEW b \in DOMAIN agents, agents[b].state = "active"
          PROVE  machines[b[1]].last \in DOMAIN reports
      <4>1. b[1] \in Machines
        BY <1>0, Rows
      <4>2. machines[b[1]].last # 0 /\ machines[b[1]].last \in 0 .. Len(reports)
        BY <3>1, <4>1 DEF AgentInv, PresenceIsLastReport, RevisionsAreKnownLate
      <4> QED BY <1>0, <4>2, Rows
    <3> QED BY <2>1, <2>5, <3>1 DEF AgentInv, PresenceIsLastReport
  <2> QED BY <2>7, <2>9, <2>10, <2>11, <2>12, <2>13 DEF AgentInv
<1>2. ASSUME NEW p \in Processes,
             (\E a \in answers : Receive(p, a)) \/ Restart(p)
      PROVE  AgentInv'
  <2>1. PICK row \in Reporter :
          /\ reporters' = [reporters EXCEPT ![p] = row]
          /\ row.revision <= machines[p[1]].revision /\ row.report = 0
    <3>1. CASE Restart(p)
      <4>1. NewReporter \in Reporter /\ NewReporter.revision = 0 /\ NewReporter.report = 0
        BY AgentAssumption DEF NewReporter, Reporter
      <4>2. 0 <= machines[p[1]].revision
        BY <1>0, Rows
      <4> QED BY <3>1, <4>1, <4>2 DEF Restart
    <3>2. ASSUME NEW a \in answers, Receive(p, a)
          PROVE  \E row \in Reporter :
                   /\ reporters' = [reporters EXCEPT ![p] = row]
                   /\ row.revision <= machines[p[1]].revision /\ row.report = 0
      <4> DEFINE row == [at |-> IF a.result = "revoked" THEN "stopped" ELSE "idle",
                         revision |-> a.revision, report |-> 0]
      <4>1. a \in Answer /\ a.report # 0
        BY <1>0, AgentAssumption DEF TypeOK, Answer, ReportIds
      <4>2. row \in Reporter /\ row.revision = a.revision /\ row.report = 0
        BY <4>1, AgentAssumption DEF Answer, Reporter
      <4>3. reporters[p].report = a.report /\ reporters' = [reporters EXCEPT ![p] = row]
        BY <3>2 DEF Receive
      <4>4. MachineOf(a.report) = p[1]
        BY <4>1, <4>3 DEF AgentInv, RevisionsAreKnownLate, MachineOf
      <4>5. a.revision <= machines[p[1]].revision
        BY <4>4 DEF AgentInv, RevisionsAreKnownLate
      <4> HIDE DEF row
      <4> QED BY <4>2, <4>3, <4>5
    <3> QED BY <1>2, <3>1, <3>2
  <2>2. /\ reporters'[p] = row
        /\ \A q \in Processes : q # p => reporters'[q] = reporters[q]
        /\ reporters' \in [Processes -> Reporter]
    BY <1>0, <2>1 DEF TypeOK
  <2>3. /\ members' = members /\ machines' = machines /\ agents' = agents
        /\ reports' = reports /\ open' = open
        /\ begun' = begun /\ answers' = answers /\ failed' = failed
    BY <1>2 DEF Receive, Restart
  <2>4. TypeOK'
    BY <1>0, <2>2, <2>3 DEF TypeOK, MembersTypeOK
  <2>5. RevisionsAreKnownLate'
    BY <2>1, <2>2, <2>3 DEF AgentInv, RevisionsAreKnownLate, MachineOf
  <2>6. CurrentReportsAreNew' /\ PreReadStaysTrue'
    BY <2>3 DEF AgentInv, CurrentReportsAreNew, PreReadStaysTrue, MachineOf, BindingsOf
  <2>7. ActiveAgentsAreBacked' /\ PresenceIsLastReport'
    BY <2>3 DEF AgentInv, ActiveAgentsAreBacked, PresenceIsLastReport, IsActiveMember
  <2> QED BY <2>4, <2>5, <2>6, <2>7 DEF AgentInv
<1> QED BY <1>1, <1>2 DEF ReporterStep
-----------------------------------------------------------------------------
(* Report transactions. *)

(* The pre-read, and an answer that changes no table. *)
LEMMA BeginAndAnswerKeepInv ==
    ASSUME AgentInv,
           (\E i \in DOMAIN reports : BeginReport(i)) \/ (\E t \in open : AnswerReport(t))
    PROVE  AgentInv'
<1>0. TypeOK
  BY DEF AgentInv
<1>1. /\ members' = members /\ machines' = machines /\ agents' = agents
      /\ reports' = reports /\ reporters' = reporters /\ failed' = failed
  BY DEF BeginReport, AnswerReport
<1>2. CurrentReportsAreNew' /\ ActiveAgentsAreBacked' /\ PresenceIsLastReport'
  BY <1>1 DEF AgentInv, CurrentReportsAreNew, MachineOf, ActiveAgentsAreBacked,
              PresenceIsLastReport, IsActiveMember
<1>3. ASSUME NEW i \in DOMAIN reports, BeginReport(i) PROVE AgentInv'
  <2> DEFINE known == BindingsOf(MachineOf(i), reports[i].seen) \subseteq DOMAIN agents
             t == [start |-> begun + 1, report |-> i,
                   path |-> IF known THEN "presence" ELSE "allocation"]
  <2>1. /\ open' = open \cup {t} /\ begun' = begun + 1 /\ answers' = answers
        /\ begun + 1 \in 1 .. MaxTransactions /\ i \in ReportIds
    BY <1>0, <1>3, Rows, AgentAssumption DEF BeginReport, TypeOK
  <2>2. /\ t \in Transaction /\ t.report = i /\ (t.path = "presence" => known)
    BY <2>1 DEF Transaction
  <2> HIDE DEF t
  <2>3. TypeOK'
    BY <1>0, <1>1, <2>1, <2>2, AgentAssumption DEF TypeOK, MembersTypeOK
  <2>4. PreReadStaysTrue'
    BY <1>1, <2>1, <2>2 DEF AgentInv, PreReadStaysTrue, MachineOf, BindingsOf
  <2>5. RevisionsAreKnownLate'
    BY <1>1, <2>1 DEF AgentInv, RevisionsAreKnownLate, MachineOf
  <2> QED BY <1>2, <2>3, <2>4, <2>5 DEF AgentInv
<1>4. ASSUME NEW t \in open, AnswerReport(t) PROVE AgentInv'
  <2>1. t.report \in DOMAIN reports /\ t \in Transaction
    BY <1>0 DEF AgentInv, PreReadStaysTrue, TypeOK
  <2>2. machines[MachineOf(t.report)] \in Machine
    BY <1>0, <2>1, Rows
  <2>3. PICK a \in Answer :
          /\ answers' = answers \cup {a} /\ open' = open \ {t} /\ begun' = begun
          /\ a.report = t.report /\ a.revision = machines[MachineOf(t.report)].revision
    <3>1. PICK result \in {"accepted", "stale", "revoked"} :
            Reply(t, result, machines[MachineOf(t.report)].revision)
      BY <1>4 DEF AnswerReport
    <3> DEFINE a == [report |-> t.report, result |-> result,
                     revision |-> machines[MachineOf(t.report)].revision]
    <3>2. a \in Answer
      BY <2>1, <2>2 DEF Answer, Transaction, Machine
    <3> QED BY <1>4, <3>1, <3>2 DEF Reply, AnswerReport
  <2>4. TypeOK'
    BY <1>0, <1>1, <2>3 DEF TypeOK, MembersTypeOK
  <2>5. PreReadStaysTrue'
    BY <1>1, <2>3 DEF AgentInv, PreReadStaysTrue, MachineOf, BindingsOf
  <2>6. a.revision <= machines[MachineOf(t.report)].revision
    BY <1>0, <2>1, <2>3, Rows
  <2>7. RevisionsAreKnownLate'
    BY <1>1, <2>1, <2>3, <2>6 DEF AgentInv, RevisionsAreKnownLate, MachineOf
  <2> QED BY <1>2, <2>4, <2>5, <2>7 DEF AgentInv
<1> QED BY <1>3, <1>4

(* An accepted report: Agents are allocated only under the lock of an active
   approver, since the path without it had nothing left to allocate. *)
LEMMA AcceptKeepsInv ==
    ASSUME AgentInv, NEW t \in open, AcceptReport(t)
    PROVE  AgentInv'
<1> DEFINE i == t.report
           m == MachineOf(i)
           mrow == [machines[m] EXCEPT !.revision = machines[m].revision + 1, !.last = i]
<1>1. /\ TypeOK /\ i \in DOMAIN reports /\ t \in Transaction /\ m \in Machines
      /\ machines[m] \in Machine /\ i \in ReportIds /\ i \in Nat /\ i # 0
  BY Rows, AgentAssumption DEF AgentInv, PreReadStaysTrue, TypeOK, ReportIds
<1>2. /\ machines[m].state = "connected" /\ machines[m].last # i
      /\ reports[i].base = machines[m].revision
      /\ agents' = AgentsAfterReport(t) /\ machines' = [machines EXCEPT ![m] = mrow]
      /\ Reply(t, "accepted", machines[m].revision + 1)
      /\ members' = members /\ reports' = reports /\ reporters' = reporters
      /\ begun' = begun /\ failed' = failed
  <2>1. machines' = [machines EXCEPT ![m] = mrow]
    BY DEF AcceptReport
  <2> QED BY <2>1 DEF AcceptReport, IsCurrentBase
<1>3. /\ i > machines[m].last /\ machines[m].revision \in Nat /\ machines[m].last \in Nat
      /\ machines[m].revision <= machines[m].last /\ i <= Len(reports)
      /\ machines[m].revision + 1 \in 0 .. MaxReports
  BY <1>1, <1>2, Rows, AgentAssumption
     DEF AgentInv, CurrentReportsAreNew, RevisionsAreKnownLate, TypeOK
<1>4. /\ mrow \in Machine /\ mrow.last = i /\ mrow.revision = machines[m].revision + 1
      /\ mrow.state = "connected" /\ mrow.enrolledBy = machines[m].enrolledBy
  <2>1. i \in 0 .. MaxReports
    BY <1>1, AgentAssumption DEF ReportIds
  <2> HIDE DEF i, m
  <2> QED BY <1>1, <1>2, <1>3, <2>1 DEF Machine
<1>5. /\ machines'[m] = mrow
      /\ \A q \in Machines : q # m => machines'[q] = machines[q]
      /\ machines' \in [Machines -> Machine]
  BY <1>1, <1>2, <1>4 DEF TypeOK
<1>6. Allocated(t) # {} => IsActiveMember(machines[m].enrolledBy)
  <2>1. CASE t.path = "presence"
    <3>1. BindingsOf(m, reports[i].seen) \subseteq DOMAIN agents
      BY <2>1 DEF AgentInv, PreReadStaysTrue
    <3> QED BY <3>1 DEF Allocated
  <2>2. CASE t.path = "allocation"
    BY <2>2 DEF Allocated, ApproverActive
  <2> QED BY <1>1, <2>1, <2>2 DEF Transaction
<1>7. \A b \in Allocated(t) : /\ b \notin DOMAIN agents /\ b \in Bindings
                              /\ b[1] = m /\ b[2] \in Occurrences
  <2>1. reports[i].seen \subseteq Occurrences
    BY <1>1, Rows DEF Report
  <2> QED BY <1>1, <2>1 DEF Allocated, BindingsOf, Bindings
<1>8. /\ DOMAIN agents' = DOMAIN agents \cup Allocated(t)
      /\ \A b \in Allocated(t) :
           agents'[b] = [owner |-> machines[m].enrolledBy, state |-> "active",
                         presence |-> PresenceAfter(b, i), created |-> t.start]
      /\ \A b \in DOMAIN agents :
           agents'[b] = IF b[1] = m /\ agents[b].state = "active"
                        THEN [agents[b] EXCEPT !.presence = PresenceAfter(b, i)]
                        ELSE agents[b]
  BY <1>2, <1>7 DEF AgentsAfterReport
<1>9. \A b : PresenceAfter(b, i) \in {"present", "absent"}
             /\ (PresenceAfter(b, i) = "present" <=> b[2] \in reports[i].present)
  BY DEF PresenceAfter
<1> HIDE DEF i, m, mrow
<1>10. ASSUME NEW b \in DOMAIN agents
       PROVE  /\ agents'[b] \in Agent /\ agents'[b].owner = agents[b].owner
              /\ agents'[b].state = agents[b].state
              /\ IF b[1] = m /\ agents[b].state = "active"
                 THEN agents'[b].presence = PresenceAfter(b, i)
                 ELSE agents'[b].presence = agents[b].presence
  <2>1. agents[b] \in Agent
    BY <1>1, Rows
  <2> QED BY <1>8, <1>9, <2>1 DEF Agent
<1>11. ASSUME NEW b \in Allocated(t)
       PROVE  /\ agents'[b] \in Agent /\ agents'[b].owner = machines[m].enrolledBy
              /\ agents'[b].presence = PresenceAfter(b, i)
  <2>1. machines[m].enrolledBy \in Users /\ t.start \in 1 .. MaxTransactions
    BY <1>1, MembersAssumption DEF Machine, Transaction
  <2> QED BY <1>8, <1>9, <2>1 DEF Agent
<1>12. PICK a \in Answer :
         /\ answers' = answers \cup {a} /\ open' = open \ {t}
         /\ a.report = i /\ a.revision = machines[m].revision + 1
  <2> DEFINE a == [report |-> i, result |-> "accepted", revision |-> machines[m].revision + 1]
  <2>1. a \in Answer
    BY <1>1, <1>3 DEF Answer
  <2> QED BY <1>2, <2>1 DEF Reply, i
<1>13. TypeOK'
  <2>1. DOMAIN agents' \subseteq Bindings
    BY <1>1, <1>7, <1>8, Rows
  <2>2. agents' \in [DOMAIN agents' -> Agent]
    <3>1. \A b \in DOMAIN agents' : agents'[b] \in Agent
      BY <1>8, <1>10, <1>11
    <3> QED BY <1>2, <3>1 DEF AgentsAfterReport
  <2> QED BY <1>1, <1>2, <1>5, <1>12, <2>1, <2>2 DEF TypeOK, MembersTypeOK
<1>14. RevisionsAreKnownLate'
  <2>1. \A q \in Machines : machines'[q].last \in 0 .. Len(reports)
                            /\ machines'[q].revision <= machines'[q].last
                            /\ machines[q].revision <= machines'[q].revision
                            /\ machines'[q].revision \in Nat
    BY <1>1, <1>3, <1>4, <1>5, Rows DEF AgentInv, RevisionsAreKnownLate
  <2>2. ASSUME NEW x \in answers'
        PROVE  x.report \in DOMAIN reports /\ x.revision <= machines'[MachineOf(x.report)].revision
    <3>1. CASE x \in answers
      <4>1. /\ x.report \in DOMAIN reports /\ x.revision \in Nat
            /\ x.revision <= machines[MachineOf(x.report)].revision
        BY <1>1, <3>1, AgentAssumption DEF AgentInv, RevisionsAreKnownLate, TypeOK, Answer
      <4>2. MachineOf(x.report) \in Machines /\ machines[MachineOf(x.report)].revision \in Nat
        BY <1>1, <4>1, Rows
      <4> QED BY <2>1, <4>1, <4>2
    <3>2. CASE x = a
      BY <1>1, <1>3, <1>4, <1>5, <1>12, <3>2 DEF m
    <3> QED BY <1>12, <3>1, <3>2
  <2>3. ASSUME NEW p \in Processes PROVE reporters[p].revision <= machines'[p[1]].revision
    <3>1. /\ p[1] \in Machines /\ reporters[p].revision \in Nat
          /\ machines[p[1]].revision \in Nat
          /\ reporters[p].revision <= machines[p[1]].revision
      BY <1>1, Rows DEF AgentInv, RevisionsAreKnownLate
    <3> QED BY <2>1, <3>1
  <2> QED BY <1>2, <2>1, <2>2, <2>3 DEF AgentInv, RevisionsAreKnownLate, MachineOf
<1>15. CurrentReportsAreNew'
  <2>1. ASSUME NEW j \in DOMAIN reports
        PROVE  /\ reports[j].base <= machines'[MachineOf(j)].revision
               /\ reports[j].base = machines'[MachineOf(j)].revision
                    => j > machines'[MachineOf(j)].last
    <3>1. /\ MachineOf(j) \in Machines /\ reports[j].base \in Nat
          /\ machines[MachineOf(j)].revision \in Nat
          /\ reports[j].base <= machines[MachineOf(j)].revision
          /\ reports[j].base = machines[MachineOf(j)].revision
               => j > machines[MachineOf(j)].last
      BY <1>1, Rows DEF AgentInv, CurrentReportsAreNew
    <3> QED BY <1>4, <1>5, <3>1
  <2> QED BY <1>2, <2>1 DEF CurrentReportsAreNew, MachineOf
<1>16. PreReadStaysTrue'
  BY <1>2, <1>8, <1>12 DEF AgentInv, PreReadStaysTrue, MachineOf, BindingsOf
<1>17. ActiveAgentsAreBacked'
  <2>1. ASSUME NEW b \in DOMAIN agents', agents'[b].state = "active"
        PROVE  machines'[b[1]].state = "connected" /\ IsActiveMember(agents'[b].owner)
    <3>1. CASE b \in DOMAIN agents
      <4>1. machines[b[1]].state = "connected" /\ IsActiveMember(agents[b].owner)
            /\ b[1] \in Machines
        BY <1>1, <1>10, <2>1, <3>1, Rows DEF AgentInv, ActiveAgentsAreBacked
      <4> QED BY <1>4, <1>5, <1>10, <3>1, <4>1
    <3>2. CASE b \in Allocated(t)
      BY <1>4, <1>5, <1>6, <1>7, <1>11, <3>2
    <3> QED BY <1>8, <3>1, <3>2
  <2> QED BY <1>2, <2>1 DEF ActiveAgentsAreBacked, IsActiveMember
<1>18. PresenceIsLastReport'
  <2>1. ASSUME NEW b \in DOMAIN agents', agents'[b].state = "active"
        PROVE  /\ machines'[b[1]].last # 0
               /\ agents'[b].presence = "present"
                    <=> b[2] \in reports[machines'[b[1]].last].present
    <3>1. CASE b \in Allocated(t)
      BY <1>1, <1>4, <1>5, <1>7, <1>9, <1>11, <3>1
    <3>2. CASE b \in DOMAIN agents /\ b[1] = m
      BY <1>1, <1>4, <1>5, <1>9, <1>10, <2>1, <3>2
    <3>3. CASE b \in DOMAIN agents /\ b[1] # m
      <4>1. b[1] \in Machines
        BY <1>1, <3>3, Rows
      <4> QED BY <1>5, <1>10, <2>1, <3>3, <4>1 DEF AgentInv, PresenceIsLastReport
    <3> QED BY <1>8, <3>1, <3>2, <3>3
  <2> QED BY <1>2, <2>1 DEF PresenceIsLastReport
<1> QED BY <1>13, <1>14, <1>15, <1>16, <1>17, <1>18 DEF AgentInv-----------------------------------------------------------------------------
(* Removals. *)

(* Removing Agents keeps their rows and makes none active. *)
LEMMA RemovedAgents ==
    ASSUME TypeOK, NEW gone, agents' = Removed(gone)
    PROVE  /\ DOMAIN agents' = DOMAIN agents /\ agents' \in [DOMAIN agents' -> Agent]
           /\ \A b \in DOMAIN agents :
                agents'[b].state = "active" => b \notin gone /\ agents'[b] = agents[b]
<1>1. DOMAIN agents' = DOMAIN agents
  BY DEF Removed
<1>2. ASSUME NEW b \in DOMAIN agents
      PROVE  /\ agents'[b] \in Agent
             /\ agents'[b].state = "active" => b \notin gone /\ agents'[b] = agents[b]
  <2>1. agents[b] \in Agent
    BY Rows
  <2>2. /\ [agents[b] EXCEPT !.state = "removed", !.presence = "absent"] \in Agent
        /\ [agents[b] EXCEPT !.state = "removed", !.presence = "absent"].state # "active"
    BY <2>1 DEF Agent
  <2>3. agents'[b] = IF b \in gone
                     THEN [agents[b] EXCEPT !.state = "removed", !.presence = "absent"]
                     ELSE agents[b]
    BY DEF Removed
  <2> QED BY <2>1, <2>2, <2>3
<1>3. agents' \in [DOMAIN agents' -> Agent]
  <2>1. \A b \in DOMAIN agents' : agents'[b] \in Agent
    BY <1>1, <1>2
  <2> QED BY <2>1 DEF Removed
<1> QED BY <1>1, <1>2, <1>3

(* The revocation of a Machine takes all its active Agents with it. *)
LEMMA RevokeMachineKeepsInv ==
    ASSUME AgentInv, NEW by, NEW m \in Machines, NEW start, RevokeMachine(by, m, start)
    PROVE  AgentInv'
<1> DEFINE mrow == [machines[m] EXCEPT !.state = "revoked"]
<1>1. /\ TypeOK /\ machines[m] \in Machine
  BY Rows DEF AgentInv
<1>2. /\ mrow \in Machine /\ mrow.last = machines[m].last
      /\ mrow.revision = machines[m].revision
  BY <1>1 DEF Machine
<1>3. /\ machines' = [machines EXCEPT ![m] = mrow] /\ agents' = Removed(ActiveOn(m))
      /\ members' = members /\ reports' = reports /\ reporters' = reporters
      /\ open' = open /\ begun' = begun /\ answers' = answers /\ failed' = failed
  BY DEF RevokeMachine
<1> HIDE DEF mrow
<1>4. /\ machines' \in [Machines -> Machine]
      /\ \A q \in Machines : /\ machines'[q].last = machines[q].last
                             /\ machines'[q].revision = machines[q].revision
                             /\ q # m => machines'[q] = machines[q]
  BY <1>1, <1>2, <1>3 DEF TypeOK
<1>5. /\ DOMAIN agents' = DOMAIN agents /\ agents' \in [DOMAIN agents' -> Agent]
      /\ \A b \in DOMAIN agents :
           agents'[b].state = "active" => b \notin ActiveOn(m) /\ agents'[b] = agents[b]
  BY <1>1, <1>3, RemovedAgents
<1>6. TypeOK'
  BY <1>1, <1>3, <1>4, <1>5 DEF TypeOK, MembersTypeOK
<1>7. RevisionsAreKnownLate'
  BY <1>1, <1>3, <1>4, Rows DEF AgentInv, RevisionsAreKnownLate, MachineOf
<1>8. CurrentReportsAreNew'
  BY <1>1, <1>3, <1>4, Rows DEF AgentInv, CurrentReportsAreNew, MachineOf
<1>9. PreReadStaysTrue'
  BY <1>3, <1>5 DEF AgentInv, PreReadStaysTrue, MachineOf, BindingsOf
<1>10. ASSUME NEW b \in DOMAIN agents, agents'[b].state = "active"
       PROVE  /\ agents'[b] = agents[b] /\ b[1] \in Machines /\ b[1] # m
              /\ machines'[b[1]] = machines[b[1]]
  <2>1. agents'[b] = agents[b] /\ b \notin ActiveOn(m) /\ b[1] \in Machines
    BY <1>1, <1>5, <1>10, Rows
  <2>2. b[1] # m
    BY <1>10, <2>1 DEF ActiveOn
  <2> QED BY <1>4, <2>1, <2>2
<1>11. ActiveAgentsAreBacked'
  BY <1>3, <1>5, <1>10 DEF AgentInv, ActiveAgentsAreBacked, IsActiveMember
<1>12. PresenceIsLastReport'
  BY <1>3, <1>5, <1>10 DEF AgentInv, PresenceIsLastReport
<1> QED BY <1>6, <1>7, <1>8, <1>9, <1>11, <1>12 DEF AgentInv

(* The removal of a member takes all the Agents it owns with it. *)
LEMMA RemoveMemberKeepsInv ==
    ASSUME AgentInv, NEW u \in Users, NEW target \in Users, NEW k \in Keys, NEW start,
           RemoveSpaceMember(u, target, k, start)
    PROVE  AgentInv'
<1>1. TypeOK /\ members[target] \in Membership
  BY DEF AgentInv, TypeOK, MembersTypeOK
<1> DEFINE row == [members[target] EXCEPT !.state = "revoked", !.removedBy = u,
                                          !.successor = NoUser, !.removalKey = k]
<1>2. row \in Membership
  BY <1>1 DEF Membership
<1>3. /\ members' = [members EXCEPT ![target] = row] /\ agents' = Removed(ActiveOf(target))
      /\ machines' = machines /\ reports' = reports /\ reporters' = reporters
      /\ open' = open /\ begun' = begun /\ answers' = answers /\ failed' = failed
  BY DEF RemoveSpaceMember, RemoveMembership
<1> HIDE DEF row
<1>4. /\ members' \in [Users -> Membership]
      /\ \A v \in Users : v # target => members'[v] = members[v]
  BY <1>1, <1>2, <1>3 DEF TypeOK, MembersTypeOK
<1>5. /\ DOMAIN agents' = DOMAIN agents /\ agents' \in [DOMAIN agents' -> Agent]
      /\ \A b \in DOMAIN agents :
           agents'[b].state = "active" => b \notin ActiveOf(target) /\ agents'[b] = agents[b]
  BY <1>1, <1>3, RemovedAgents
<1>6. TypeOK'
  BY <1>1, <1>3, <1>4, <1>5 DEF TypeOK, MembersTypeOK
<1>7. RevisionsAreKnownLate' /\ CurrentReportsAreNew' /\ PreReadStaysTrue'
  BY <1>3, <1>5 DEF AgentInv, RevisionsAreKnownLate, CurrentReportsAreNew, PreReadStaysTrue,
                    MachineOf, BindingsOf
<1>8. ActiveAgentsAreBacked'
  <2>1. ASSUME NEW b \in DOMAIN agents, agents'[b].state = "active"
        PROVE  /\ machines[b[1]].state = "connected"
               /\ agents'[b].owner \in Users /\ members'[agents'[b].owner].state = "active"
    <3>1. agents'[b] = agents[b] /\ agents[b].owner # target
      BY <1>5, <2>1 DEF ActiveOf
    <3> QED BY <1>4, <2>1, <3>1 DEF AgentInv, ActiveAgentsAreBacked, IsActiveMember
  <2> QED BY <1>3, <1>5, <2>1 DEF ActiveAgentsAreBacked, IsActiveMember
<1>9. PresenceIsLastReport'
  BY <1>3, <1>5 DEF AgentInv, PresenceIsLastReport
<1> QED BY <1>6, <1>7, <1>8, <1>9 DEF AgentInv

(* A removal that the database rolls back changes no table. *)
LEMMA FailureKeepsInv ==
    ASSUME AgentInv, failed' = "yes",
           UNCHANGED <<members, machines, agents, reports, reporters, open, begun, answers>>
    PROVE  AgentInv'
  BY DEF AgentInv, TypeOK, MembersTypeOK, RevisionsAreKnownLate, CurrentReportsAreNew,
         PreReadStaysTrue, ActiveAgentsAreBacked, PresenceIsLastReport, IsActiveMember,
         MachineOf, BindingsOf
-----------------------------------------------------------------------------
(* AgentInv is an invariant: Machines without a report satisfy it, and
   observations, report transactions and removals keep it. *)
THEOREM Invariance == Spec => []AgentInv
<1>1. ASSUME Init PROVE AgentInv
  <2>1. /\ machines \in [Machines -> Machine]
        /\ \A m \in Machines : machines[m].revision = 0 /\ machines[m].last = 0
    BY <1>1, AgentAssumption DEF Init, Machine
  <2>2. /\ reporters \in [Processes -> Reporter]
        /\ \A p \in Processes : reporters[p].revision = 0 /\ reporters[p].report = 0
    BY <1>1, AgentAssumption DEF Init, NewReporter, Reporter
  <2>3. reports = <<>> /\ DOMAIN reports = {} /\ Len(reports) = 0
        /\ answers = {} /\ open = {} /\ DOMAIN agents = {}
        /\ agents \in [DOMAIN agents -> Agent]
    BY <1>1 DEF Init
  <2>4. MembersTypeOK
    BY <1>1, MembersAssumption DEF Init, MembersInit, MembersTypeOK, Membership, Authorities
  <2>5. TypeOK
    BY <1>1, <2>1, <2>2, <2>3, <2>4, AgentAssumption DEF Init, TypeOK
  <2>6. \A p \in Processes : p[1] \in Machines
    BY DEF Processes
  <2> QED BY <2>1, <2>2, <2>3, <2>5, <2>6 DEF AgentInv, RevisionsAreKnownLate,
       CurrentReportsAreNew, PreReadStaysTrue, ActiveAgentsAreBacked, PresenceIsLastReport
<1>2. ASSUME AgentInv, [Next]_vars PROVE AgentInv'
  <2>1. CASE ReporterStep
    BY <1>2, <2>1, ReporterKeepsInv
  <2>2. CASE ReportStep
    BY <1>2, <2>2, BeginAndAnswerKeepInv, AcceptKeepsInv DEF ReportStep
  <2>3. CASE RemovalStep
    <3>1. ASSUME NEW start, NEW by, NEW m \in Machines,
                 RevokeMachine(by, m, start) \/ RevokeMachineFails(by, m, start)
          PROVE  AgentInv'
      BY <1>2, <3>1, RevokeMachineKeepsInv, FailureKeepsInv DEF RevokeMachineFails
    <3>2. ASSUME NEW start, NEW u \in Users, NEW target \in Users, NEW k \in Keys,
                 \/ RemoveSpaceMember(u, target, k, start)
                 \/ RemoveSpaceMemberFails(u, target, k, start)
          PROVE  AgentInv'
      BY <1>2, <3>2, RemoveMemberKeepsInv, FailureKeepsInv DEF RemoveSpaceMemberFails
    <3> QED BY <2>3, <3>1, <3>2 DEF RemovalStep
  <2>4. CASE UNCHANGED vars
    BY <1>2, <2>4 DEF vars, AgentInv, TypeOK, MembersTypeOK, RevisionsAreKnownLate,
       CurrentReportsAreNew, PreReadStaysTrue, ActiveAgentsAreBacked, PresenceIsLastReport,
       IsActiveMember, MachineOf, BindingsOf
  <2> QED BY <1>2, <2>1, <2>2, <2>3, <2>4 DEF Next
<1> QED BY <1>1, <1>2, PTL DEF Spec

(* No Agent is active whose Machine is revoked or whose owner has left the
   Space, whatever removal comes between the pre-read of a report and its
   locks. *)
THEOREM Backed == Spec => []ActiveAgentsAreBacked
<1>1. AgentInv => ActiveAgentsAreBacked
  BY DEF AgentInv
<1> QED BY <1>1, Invariance, PTL

(* An active Agent is present exactly when the last accepted report of its
   Machine names it present. *)
THEOREM LastReportDecides == Spec => []PresenceIsLastReport
<1>1. AgentInv => PresenceIsLastReport
  BY DEF AgentInv
<1> QED BY <1>1, Invariance, PTL

(* No accepted report is older than the one it replaces: a late or repeated
   request, or one of another process of the Machine, is stale. *)
THEOREM NewestWins == Spec => NewestObservationWins
<1>1. ASSUME AgentInv, [Next]_vars
      PROVE  \A m \in Machines : machines'[m].last # machines[m].last =>
               machines'[m].last > machines[m].last
  <2>1. TypeOK
    BY <1>1 DEF AgentInv
  <2>2. CASE machines' = machines
    BY <2>2
  <2>3. ASSUME NEW q \in Machines, NEW by, NEW start, RevokeMachine(by, q, start)
        PROVE  \A m \in Machines : machines'[m].last = machines[m].last
    BY <2>1, <2>3, Rows DEF RevokeMachine, TypeOK, Machine
  <2>4. ASSUME NEW t \in open, AcceptReport(t)
        PROVE  \A m \in Machines : machines'[m].last # machines[m].last =>
                 machines'[m].last > machines[m].last
    <3>1. /\ t.report \in DOMAIN reports /\ MachineOf(t.report) \in Machines
          /\ machines[MachineOf(t.report)] \in Machine
      BY <1>1, <2>1, <2>4, Rows DEF AgentInv, PreReadStaysTrue
    <3>2. t.report > machines[MachineOf(t.report)].last
      BY <1>1, <2>4, <3>1 DEF AgentInv, CurrentReportsAreNew, AcceptReport, IsCurrentBase
    <3>3. /\ machines'[MachineOf(t.report)].last = t.report
          /\ \A m \in Machines : m # MachineOf(t.report) => machines'[m] = machines[m]
      BY <2>1, <2>4, <3>1 DEF AcceptReport, TypeOK, Machine
    <3> QED BY <3>2, <3>3
  <2>5. \/ machines' = machines
        \/ \E t \in open : AcceptReport(t)
        \/ \E q \in Machines, by \in Users \cup {NoUser}, start \in 0 .. begun :
              RevokeMachine(by, q, start)
    BY <1>1 DEF Next, ReporterStep, ReportStep, RemovalStep, vars, Observe, Receive, Restart,
       BeginReport, AnswerReport, RevokeMachineFails, RemoveSpaceMember, RemoveSpaceMemberFails
  <2> QED BY <2>2, <2>3, <2>4, <2>5
<1> QED BY <1>1, Invariance, PTL DEF Spec, NewestObservationWins
=============================================================================
