----------------------------- MODULE HostWorker -----------------------------
(***************************************************************************)
(* The Hosts that execute Work: one Worker per Machine, its HTTP client,    *)
(* and the control plane of WorkRun behind it.                              *)
(*                                                                         *)
(* Serve is a serial loop.  It asks for a private reply and for a Run, the  *)
(* preferred kind first, executes what it gets with the lease renewed from  *)
(* a ticker, and waits PollInterval when there was nothing or the control   *)
(* plane was unavailable.  The private Conversation side answers anything   *)
(* here (module Conversation is its control plane).                         *)
(*                                                                         *)
(* A commit or an outcome is a request that the Host sends and then waits   *)
(* for (http.Client.Timeout): the Host may give up, and the control plane   *)
(* may still carry the request out afterwards, or never see it.  Crashes,   *)
(* lost answers, unavailability and pauses longer than a lease are faults:  *)
(* there are at most MaxFaults of them.                                     *)
(***************************************************************************)
EXTENDS WorkRun

CONSTANT MaxFaults   \* bound of the model on faults

ASSUME HostAssumption == MaxFaults \in Nat

VARIABLES
    host,       \* per Machine: where Serve is, preferConversation, the Attempt
    requests,   \* commits and outcomes on their way to the control plane
    faults      \* faults so far

hostVars == <<host, requests, faults>>
allVars == <<vars, hostVars>>

Kinds == {"conversation", "run"}
Other(kind) == IF kind = "run" THEN "conversation" ELSE "run"

(* UnderstandingUpdate without or with review_required, or the outcome of
   finishExecution. *)
Results == {"plain", "review"} \cup Outcomes

Host == [at: {"stopped", "loop", "second", "waiting", "replying", "executing", "sent"},
         prefer: Kinds, attempt: AttemptIds \cup {NoAttempt}]
Request == [attempt: AttemptIds, result: Results]

HostTypeOK ==
    /\ TypeOK
    /\ host \in [Machines -> Host]
    /\ requests \subseteq Request
    /\ faults \in 0 .. MaxFaults

Serving == [at |-> "loop", prefer |-> "conversation", attempt |-> NoAttempt]

HostInit ==
    /\ Init
    /\ host = [m \in Machines |-> Serving]
    /\ requests = {}
    /\ faults = 0

Fault == faults < MaxFaults /\ faults' = faults + 1

-----------------------------------------------------------------------------
(* The loop of Serve. *)

(* The kind that the Worker tries now. *)
Trying(m, kind) == \/ host[m].at = "loop" /\ host[m].prefer = kind
                   \/ host[m].at = "second" /\ host[m].prefer = Other(kind)

Goto(m, at) == host' = [host EXCEPT ![m] = [@ EXCEPT !.at = at, !.attempt = NoAttempt]]

(* Mutant: the kind just handled is preferred again. *)
SamePreference(kind) == kind
(* After a task or an error of one kind the other kind is preferred. *)
PreferenceAfter(kind) == Other(kind)

(* Nothing of this kind: try the other one, or wait. *)
NothingToDo(m) == Goto(m, IF host[m].at = "loop" THEN "second" ELSE "waiting")

(* A known error of a claim that leaves the Host running. *)
BackOff(m, kind) ==
    host' = [host EXCEPT ![m] = [@ EXCEPT !.at = "waiting", !.prefer = PreferenceAfter(kind)]]

(* waitForPoll *)
Wake(m) ==
    /\ host[m].at = "waiting"
    /\ Goto(m, "loop")
    /\ UNCHANGED <<vars, requests, faults>>

(* The claim request or its answer is lost, and nothing was claimed. *)
Unavailable(m) ==
    /\ Fault
    /\ \E kind \in Kinds : Trying(m, kind) /\ BackOff(m, kind)
    /\ UNCHANGED <<vars, requests>>

(* The process ends (a crash, a signal or an error that is not known to be
   temporary); what it was executing is left to the lease. *)
Stop(m) ==
    /\ host[m].at # "stopped"
    /\ Fault
    /\ Goto(m, "stopped")
    /\ UNCHANGED <<vars, requests>>

(* carry start on the same Machine *)
Start(m) ==
    /\ host[m].at = "stopped"
    /\ machines[m] = "connected"
    /\ host' = [host EXCEPT ![m] = Serving]
    /\ UNCHANGED <<vars, requests, faults>>

-----------------------------------------------------------------------------
(* tryConversation and executeConversation: the control plane has a reply to
   give or it has none; the generation may fail, be refused or be committed,
   and the Worker goes on in each case. *)

NoConversation(m) ==
    /\ Trying(m, "conversation")
    /\ machines[m] = "connected"
    /\ NothingToDo(m)
    /\ UNCHANGED <<vars, requests, faults>>

ClaimConversation(m) ==
    /\ Trying(m, "conversation")
    /\ machines[m] = "connected"
    /\ host' = [host EXCEPT ![m] = [@ EXCEPT !.at = "replying",
                                            !.prefer = PreferenceAfter("conversation")]]
    /\ UNCHANGED <<vars, requests, faults>>

EndConversation(m) ==
    /\ host[m].at = "replying"
    /\ \/ Goto(m, "loop") /\ UNCHANGED faults
       \/ Goto(m, "waiting") /\ Fault
    /\ UNCHANGED <<vars, requests>>

-----------------------------------------------------------------------------
(* tryRun and executeRun. *)

(* LockExpiredRunForClaim or LockWorkForRunClaim finds a row. *)
Recoverable(old) ==
    /\ attempts[old].state = "active" /\ ~ LeaseCurrent(old)
    /\ runs[attempts[old].run].state = "active"
    /\ runs[attempts[old].run].fence = attempts[old].fence
Ready(w) == works[w].applied < works[w].head /\ ~ HasUnresolvedRun(w)
RunAvailable == \/ \E old \in DOMAIN attempts : Recoverable(old)
                \/ \E w \in DOMAIN works : Ready(w)

NoRun(m) ==
    /\ Trying(m, "run")
    /\ machines[m] = "connected"
    /\ ~ RunAvailable
    /\ NothingToDo(m)
    /\ UNCHANGED <<vars, requests, faults>>

(* ClaimRun hands Attempt a to Machine m. *)
ClaimRun(m, a) ==
    \/ \E old \in DOMAIN attempts : RecoverRun(m, old, a)
    \/ \E w \in DOMAIN works, r \in RunIds : CreateRun(m, w, r, a)

Claim(m, a) ==
    /\ Trying(m, "run")
    /\ ClaimRun(m, a)
    /\ host' = [host EXCEPT ![m] = [at |-> "executing", attempt |-> a,
                                    prefer |-> PreferenceAfter("run")]]
    /\ UNCHANGED <<requests, faults>>

(* The answer to a claim is lost: an Attempt that nobody executes. *)
LoseClaim(m, a) ==
    /\ Fault
    /\ Trying(m, "run")
    /\ ClaimRun(m, a)
    /\ BackOff(m, "run")
    /\ UNCHANGED requests

(* The Machine is revoked: 403 ends Serve. *)
ClaimRefused(m) ==
    /\ \E kind \in Kinds : Trying(m, kind)
    /\ machines[m] = "revoked"
    /\ Goto(m, "stopped")
    /\ UNCHANGED <<vars, requests, faults>>

MayAct(a) == HoldsRun(a) /\ LeaseCurrent(a)

(* The renewal ticker.  A refusal is stale authority: the execution is
   cancelled and its result discarded. *)
Renew(m) ==
    /\ host[m].at = "executing"
    /\ RenewRunAttempt(host[m].attempt)
    /\ UNCHANGED hostVars

RenewRefused(m) ==
    /\ host[m].at = "executing"
    /\ ~ MayAct(host[m].attempt)
    /\ Goto(m, "loop")
    /\ UNCHANGED <<vars, requests, faults>>

(* A renewal without an answer cancels the execution too, whether or not the
   lease was extended. *)
LoseRenewal(m) ==
    /\ host[m].at = "executing"
    /\ Fault
    /\ RenewRunAttempt(host[m].attempt) \/ UNCHANGED vars
    /\ Goto(m, "waiting")
    /\ UNCHANGED requests

(* The Agent returns, and the Host sends its update or its outcome. *)
Return(m, result) ==
    /\ host[m].at = "executing"
    /\ host' = [host EXCEPT ![m].at = "sent"]
    /\ requests' = requests \cup {[attempt |-> host[m].attempt, result |-> result]}
    /\ UNCHANGED <<vars, faults>>

(* The Host that still waits for the answer to a request goes on with the
   loop, whether the answer is success or stale authority. *)
Answered(q) ==
    host' = [m \in Machines |->
               IF host[m].at = "sent" /\ host[m].attempt = q.attempt
               THEN [host[m] EXCEPT !.at = "loop", !.attempt = NoAttempt]
               ELSE host[m]]

Serve(q) ==
    /\ IF MayAct(q.attempt) /\ (q.result \in Outcomes \/ RunIsCurrent(attempts[q.attempt].run))
       THEN \/ q.result \in Outcomes /\ FinishUnresolvedAttempt(q.attempt, q.result)
            \/ q.result = "plain" /\ CommitWorkUnderstanding(q.attempt, FALSE)
            \/ q.result = "review" /\ CommitWorkUnderstanding(q.attempt, TRUE)
       ELSE UNCHANGED vars
    /\ requests' = requests \ {q}
    /\ Answered(q)
    /\ UNCHANGED faults

(* The Host stops waiting; its request may still arrive. *)
GiveUp(m) ==
    /\ host[m].at = "sent"
    /\ Fault
    /\ Goto(m, "waiting")
    /\ UNCHANGED <<vars, requests>>

(* A request that nobody waits for never arrives. *)
Drop(q) ==
    /\ ~ \E m \in Machines : host[m].at = "sent" /\ host[m].attempt = q.attempt
    /\ requests' = requests \ {q}
    /\ UNCHANGED <<vars, host, faults>>

-----------------------------------------------------------------------------
(* Mutant: the renewal interval is longer than the lease. *)
NeverLate == TRUE
(***************************************************************************)
(* RenewInterval (one minute) and the request timeout are shorter than a    *)
(* lease (five minutes): unless a Host pauses, its lease never runs out     *)
(* under it.                                                                *)
(***************************************************************************)
RenewalsInTime ==
    \A m \in Machines :
        host[m].at \in {"executing", "sent"} /\ HoldsRun(host[m].attempt)
        => attempts[host[m].attempt].lease > 1

HostTick == Tick /\ RenewalsInTime /\ UNCHANGED hostVars
LongPause == Tick /\ Fault /\ UNCHANGED <<host, requests>>

HostStep(m) ==
    \/ Wake(m)
    \/ NoConversation(m) \/ ClaimConversation(m) \/ EndConversation(m)
    \/ NoRun(m) \/ ClaimRefused(m) \/ Renew(m) \/ RenewRefused(m)
    \/ \E a \in AttemptIds : Claim(m, a)

AgentReturns(m) == \E result \in Results : Return(m, result)

FaultStep(m) ==
    \/ Unavailable(m) \/ Stop(m) \/ LoseRenewal(m) \/ GiveUp(m)
    \/ \E a \in AttemptIds : LoseClaim(m, a)

Environment ==
    \/ MemberStep /\ UNCHANGED hostVars
    \/ \E m \in Machines : RevokeMachine(m) /\ UNCHANGED hostVars
    \/ \E m \in Machines : Start(m) \/ FaultStep(m)
    \/ \E q \in requests : Drop(q)
    \/ LongPause

HostNext ==
    \/ Environment
    \/ HostTick
    \/ \E m \in Machines : HostStep(m) \/ AgentReturns(m)
    \/ \E q \in requests : Serve(q)

(* The process is scheduled, an Agent ends, a request that is waited for is
   carried out, and the clock of the database advances. *)
Fairness ==
    /\ \A m \in Machines : WF_allVars(HostStep(m)) /\ WF_allVars(AgentReturns(m))
    /\ WF_allVars(\E q \in requests : Serve(q))
    /\ WF_allVars(HostTick)

HostSpec == HostInit /\ [][HostNext]_allVars /\ Fairness
-----------------------------------------------------------------------------
(* Properties. *)

(* Without a fault and without a revocation a Host keeps the authority over
   what it executes until its result is answered: another Machine never
   takes the Run, and the Host's commit is never refused. *)
HealthyHostKeepsRun ==
    \A m \in Machines :
        host[m].at \in {"executing", "sent"} /\ machines[m] = "connected" /\ faults = 0
        => MayAct(host[m].attempt)

(* Two Hosts that execute the same Work do not both have authority, after any
   take-over, pause, crash or late request. *)
OneHostHasAuthority ==
    \A m, n \in Machines :
        /\ host[m].at \in {"executing", "sent"} /\ host[n].at \in {"executing", "sent"}
        /\ MayAct(host[m].attempt) /\ MayAct(host[n].attempt)
        /\ runs[attempts[host[m].attempt].run].work = runs[attempts[host[n].attempt].run].work
        => m = n

(* No input waits in vain: each is applied or a member is asked to retry, as
   long as some Host keeps running, however claims, commits, renewals and
   crashes go wrong and however many private replies there are. *)
Waits(w, i) == w \in DOMAIN works /\ works[w].applied < i /\ i <= works[w].head
InputIsHandled ==
    \A w \in WorkIds, i \in 1 .. MaxHead :
        Waits(w, i) ~> (\/ ~ Waits(w, i) \/ NeedsRetry(w)
                        \/ \A m \in Machines : host[m].at = "stopped")

(***************************************************************************)
(* Why: the inductive invariant of HostWorkerProofs.  A Host executes only  *)
(* an Attempt that was handed to its Machine, and requests are about        *)
(* Attempts that exist.                                                     *)
(***************************************************************************)
HostsHaveAttempts ==
    /\ \A m \in Machines :
         host[m].at \in {"executing", "sent"} =>
             /\ host[m].attempt \in DOMAIN attempts
             /\ attempts[host[m].attempt].machine = m
    /\ \A q \in requests : q.attempt \in DOMAIN attempts

(* Before the first fault every request is waited for by its Host, and is the
   only one about its Attempt. *)
RequestsAreAwaited ==
    faults = 0 =>
        \A q \in requests :
            /\ \E m \in Machines : host[m].at = "sent" /\ host[m].attempt = q.attempt
            /\ \A p \in requests : p.attempt = q.attempt => p = q

HostInv ==
    /\ HostTypeOK
    /\ IInv
    /\ HostsHaveAttempts
    /\ RequestsAreAwaited
    /\ HealthyHostKeepsRun
=============================================================================
