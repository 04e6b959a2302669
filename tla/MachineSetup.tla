----------------------------- MODULE MachineSetup -----------------------------
(***************************************************************************)
(* carry setup, carry host start and carry host disconnect on one computer, *)
(* with its three local files, against the control plane of                 *)
(* MachineConnection.                                                       *)
(*                                                                         *)
(* A file is published by rename and synced, so each write or removal is    *)
(* one step, and the process may stop before or after it (Crash).  One      *)
(* command runs at a time.  A request on the wire is handled at any later   *)
(* time, also when the process no longer waits for it; an answer the        *)
(* process waits for may be lost (Lose), which it sees as a transport       *)
(* error.  The second try of begin is the same request again, as is the     *)
(* next carry setup.                                                        *)
(***************************************************************************)
EXTENDS MachineConnection

CONSTANTS
    NoRequest,
    MaxFaults   \* bound of the model on crashes, interrupts and lost answers

ASSUME SetupAssumption ==
    /\ NoRequest \notin RequestIds
    /\ MaxFaults \in Nat

VARIABLES
    disk,     \* the files of the configuration directory
    host,     \* the running command
    net,      \* requests on their way to the control plane
    erased,   \* requests whose key was given up by disconnect --local-only
    faults    \* crashes, interrupts and lost answers so far

vars == <<members, requests, machines, disk, host, net, erased, faults>>

(* machine-connection.json, machine.json and the retired machine.json; a
   Machine credential holds the key of its request. *)
Disk == [pending: RequestIds \cup {NoRequest},
         credential: MachineIds \cup {NoMachine},
         retired: MachineIds \cup {NoMachine}]
Host == [at: {"off", "begin", "wait", "poll", "cancel", "install", "installed",
              "give_up", "serve", "revoke", "revoked", "retire"},
         request: RequestIds \cup {NoRequest},
         machine: MachineIds \cup {NoMachine},
         interval: 0 .. MaxInterval, sleep: 0 .. MaxInterval]
Message == [kind: {"begin", "poll", "cancel"}, request: RequestIds,
            machine: {NoMachine}, awaited: BOOLEAN]
             \cup [kind: {"revoke"}, request: {NoRequest},
                   machine: MachineIds, awaited: BOOLEAN]

TypeOK ==
    /\ ConnectionTypeOK
    /\ disk \in Disk
    /\ host \in Host
    /\ net \subseteq Message
    /\ erased \subseteq RequestIds
    /\ faults \in 0 .. MaxFaults

Off == [at |-> "off", request |-> NoRequest, machine |-> NoMachine,
        interval |-> 0, sleep |-> 0]

Init ==
    /\ ConnectionInit
    /\ disk = [pending |-> NoRequest, credential |-> NoMachine, retired |-> NoMachine]
    /\ host = Off
    /\ net = {}
    /\ erased = {}
    /\ faults = 0

server == <<members, requests, machines>>

Awaited(kind, r, m) == [kind |-> kind, request |-> r, machine |-> m, awaited |-> TRUE]
Abandoned == {[x EXCEPT !.awaited = FALSE] : x \in net}

-----------------------------------------------------------------------------
(* carry setup *)

(* The key and the proof are on disk before the first request is sent. *)
RunSetup(r) ==
    /\ host.at = "off"
    /\ disk.credential = NoMachine
    /\ IF disk.pending # NoRequest THEN r = disk.pending
       ELSE r \in RequestIds \ (DOMAIN requests \cup {x.request : x \in net} \cup erased)
    /\ disk' = [disk EXCEPT !.pending = r]
    /\ host' = [Off EXCEPT !.at = "begin", !.request = r]
    /\ net' = net \cup {Awaited("begin", r, NoMachine)}
    /\ UNCHANGED <<server, erased, faults>>

Sleep(interval) ==
    [host EXCEPT !.at = "wait", !.interval = interval, !.sleep = interval]
(* min(interval + 5s, ConnectionMaximumInterval) *)
LongerInterval ==
    IF host.interval + IntervalStep < MaxInterval
    THEN host.interval + IntervalStep ELSE MaxInterval

SendPoll ==
    /\ host.at = "wait" /\ host.sleep = 0
    /\ host' = [host EXCEPT !.at = "poll"]
    /\ net' = net \cup {Awaited("poll", host.request, NoMachine)}
    /\ UNCHANGED <<server, disk, erased, faults>>

(* The user stops the command while it waits. *)
Interrupt ==
    /\ host.at = "wait"
    /\ faults < MaxFaults /\ faults' = faults + 1
    /\ host' = [host EXCEPT !.at = "cancel"]
    /\ net' = net \cup {Awaited("cancel", host.request, NoMachine)}
    /\ UNCHANGED <<server, disk, erased>>

(* Mutant: a certificate that can no longer be retrieved leaves the pending
   key in place. *)
AfterPollKeepingPending(verdict) ==
    CASE verdict \in {"redeemed", "replayed"} ->
           [host EXCEPT !.at = "install", !.machine = PreparedMachine(host.request)]
      [] verdict \in {"pending", "slow_down"} -> Sleep(LongerInterval)
      [] verdict \in {"denied", "cancelled"} -> [host EXCEPT !.at = "give_up"]
      [] OTHER -> Off
(* What a poll's answer makes of the command. *)
AfterPoll(verdict) ==
    CASE verdict \in {"redeemed", "replayed"} ->
           [host EXCEPT !.at = "install", !.machine = PreparedMachine(host.request)]
      [] verdict = "pending" -> Sleep(host.interval)
      [] verdict = "slow_down" ->
           Sleep(IF SlowedInterval(host.request) > host.interval
                 THEN SlowedInterval(host.request) ELSE LongerInterval)
      [] verdict \in {"denied", "gone", "cancelled"} -> [host EXCEPT !.at = "give_up"]
      [] OTHER -> Off

(* Mutant: the pending key is removed whatever the cancellation says. *)
AfterAnyCancel(verdict) == [host EXCEPT !.at = "give_up"]
AfterCancel(verdict) ==
    IF verdict = "cancelled" THEN [host EXCEPT !.at = "give_up"] ELSE Off

(* Save the credential, then remove the pending key, then serve. *)
Install ==
    /\ host.at = "install"
    /\ disk' = [disk EXCEPT !.credential = host.machine]
    /\ host' = [host EXCEPT !.at = "installed"]
    /\ UNCHANGED <<server, net, erased, faults>>

RemovePending == [disk EXCEPT !.pending = NoRequest]

FinishInstall ==
    /\ host.at = "installed"
    /\ disk' = RemovePending
    /\ host' = [Off EXCEPT !.at = "serve"]
    /\ UNCHANGED <<server, net, erased, faults>>

GiveUp ==
    /\ host.at = "give_up"
    /\ disk' = RemovePending
    /\ host' = Off
    /\ UNCHANGED <<server, net, erased, faults>>

-----------------------------------------------------------------------------
(* carry host start and disconnect *)

RunStart ==
    /\ host.at = "off" /\ disk.credential # NoMachine
    /\ host' = [Off EXCEPT !.at = "serve"]
    /\ UNCHANGED <<server, disk, net, erased, faults>>

(* The report of a revoked Machine is refused; the command ends with the
   advice to run carry setup. *)
StopRevoked ==
    /\ host.at = "serve"
    /\ disk.credential # NoMachine
    /\ machines[disk.credential].state = "revoked"
    /\ host' = Off
    /\ UNCHANGED <<server, disk, net, erased, faults>>

StopServing ==
    /\ host.at = "serve"
    /\ host' = Off
    /\ UNCHANGED <<server, disk, net, erased, faults>>

(* The idempotency key of the revocation is saved before it is sent. *)
RunDisconnect ==
    /\ host.at = "off"
    /\ \/ /\ disk.credential # NoMachine
          /\ host' = [Off EXCEPT !.at = "revoke", !.machine = disk.credential]
          /\ net' = net \cup {Awaited("revoke", NoRequest, disk.credential)}
       \/ /\ disk.credential = NoMachine /\ disk.retired # NoMachine
          /\ host' = [Off EXCEPT !.at = "retire"]
          /\ UNCHANGED net
    /\ UNCHANGED <<server, disk, erased, faults>>

MarkRevoked ==
    /\ host.at = "revoked"
    /\ disk' = [disk EXCEPT !.credential = NoMachine, !.retired = disk.credential]
    /\ host' = [host EXCEPT !.at = "retire"]
    /\ UNCHANGED <<server, net, erased, faults>>

RemoveRevoked ==
    /\ host.at = "retire"
    /\ disk' = [disk EXCEPT !.retired = NoMachine]
    /\ host' = Off
    /\ UNCHANGED <<server, net, erased, faults>>

KeyOf(m) == IF m = NoMachine THEN {} ELSE {machines[m].request}

(* The files are removed in this order, without a sync between them; the
   command may stop after the first n. *)
RemoveLocalOnly(n) ==
    /\ host.at = "off"
    /\ n < 3 => faults < MaxFaults
    /\ faults' = IF n < 3 THEN faults + 1 ELSE faults
    /\ disk' = [pending |-> NoRequest,
                credential |-> IF n < 2 THEN disk.credential ELSE NoMachine,
                retired |-> IF n < 3 THEN disk.retired ELSE NoMachine]
    /\ erased' = erased \cup ({disk.pending} \ {NoRequest})
                        \cup (IF n < 2 THEN {} ELSE KeyOf(disk.credential))
    /\ host' = Off
    /\ UNCHANGED <<server, net>>

-----------------------------------------------------------------------------
(* The wire. *)

(* What an answer makes of the command that waits for it.  s is the network
   source the request comes from. *)
AfterAnswer(x, s) ==
    CASE x.kind = "begin" /\ BeginAnswer(x.request, s) = "begun" ->
           Sleep(IF x.request \in DOMAIN requests
                 THEN requests[x.request].interval ELSE InitialInterval)
      [] x.kind = "begin" /\ BeginAnswer(x.request, s) = "limited" -> Off
      [] x.kind = "poll" -> AfterPoll(PollVerdict(x.request))
      [] x.kind = "cancel" -> AfterCancel(CancelVerdict(x.request))
      [] x.kind = "revoke" -> [host EXCEPT !.at = "revoked"]

Transaction(x, s) ==
    \/ x.kind = "begin" /\ BeginMachineConnection(x.request, s)
    \/ x.kind = "poll" /\ PollMachineConnection(x.request)
    \/ x.kind = "cancel" /\ CancelMachineConnection(x.request)
    \/ x.kind = "revoke" /\ RevokeMachineFromHost(x.machine)

Handle(x, s) ==
    /\ Transaction(x, s)
    /\ host' = IF x.awaited THEN AfterAnswer(x, s) ELSE host
    /\ net' = net \ {x}
    /\ UNCHANGED <<disk, erased, faults>>

(* Mutant: a lost answer counts as the confirmation. *)
AssumedDone(x) ==
    IF x.kind = "revoke" THEN [host EXCEPT !.at = "revoked"]
    ELSE IF x.kind = "poll" THEN Sleep(LongerInterval) ELSE Off
(* No answer: a poll is tried again later, all other commands end and keep
   their files for the next try. *)
AfterLoss(x) == IF x.kind = "poll" THEN Sleep(LongerInterval) ELSE Off

(* The answer does not come: the request was lost, or is still to be
   handled. *)
Lose(x) ==
    /\ x.awaited
    /\ faults < MaxFaults /\ faults' = faults + 1
    /\ host' = AfterLoss(x)
    /\ \/ net' = net \ {x}
       \/ net' = Abandoned
    /\ UNCHANGED <<server, disk, erased>>

(* The process ends at any point. *)
Crash ==
    /\ host.at # "off"
    /\ faults < MaxFaults /\ faults' = faults + 1
    /\ host' = Off
    /\ net' = Abandoned
    /\ UNCHANGED <<server, disk, erased>>

-----------------------------------------------------------------------------
local == <<disk, host, net, erased, faults>>

(* The clock of the database and of this computer. *)
Tick ==
    /\ requests' = RequestsAfterTick
    /\ host' = [host EXCEPT !.sleep = Down(@)]
    /\ UNCHANGED <<members, machines, disk, net, erased, faults>>

Setup == \E r \in RequestIds : RunSetup(r)
Deliver == \E x \in net, s \in Sources : Handle(x, s)

MemberStep ==
    \/ \E u \in Users, r \in DOMAIN requests, k \in Keys, m \in MachineIds,
          decision \in {"approved", "denied"} :
           DecideMachineConnection(u, r, decision, k, m) /\ UNCHANGED local
    \/ \E u \in Users, m \in DOMAIN machines :
           RevokeMachineFromBrowser(u, m) /\ UNCHANGED local
    \/ \E u, target \in Users, k \in Keys :
           RemoveSpaceMember(u, target, k) /\ UNCHANGED local

FileStep == Install \/ FinishInstall \/ GiveUp \/ MarkRevoked \/ RemoveRevoked
CommandStep == RunStart \/ StopRevoked \/ StopServing
                 \/ RunDisconnect \/ Interrupt
                 \/ \E n \in 1 .. 3 : RemoveLocalOnly(n)

Next == \/ Setup \/ CommandStep \/ SendPoll \/ FileStep
        \/ Deliver \/ (\E x \in net : Lose(x)) \/ Crash
        \/ MemberStep \/ Tick

Spec == Init /\ [][Next]_vars

(***************************************************************************)
(* Requests are handled, files are written, the clock runs, and the user    *)
(* runs carry setup again as long as the computer is not connected.  Nobody *)
(* else is obliged to act.                                                  *)
(***************************************************************************)
Fairness ==
    /\ WF_vars(Deliver) /\ WF_vars(FileStep) /\ WF_vars(SendPoll) /\ WF_vars(Tick)
    /\ WF_vars(Setup)

FairSpec == Spec /\ Fairness
-----------------------------------------------------------------------------
(* Properties. *)

(* The certificate of this request can still be handed out. *)
Redeemable(r) ==
    /\ r \in DOMAIN requests /\ ~ requests[r].cancelled /\ requests[r].decision # "denied"
    /\ IF requests[r].redeemed
       THEN requests[r].replay > 0 /\ machines[requests[r].machine].state = "connected"
       ELSE requests[r].left > 0

(* While the control plane may hand out a certificate, its private key is on
   disk, in the pending file or in the credential: setup never throws away
   the only key of a Machine through a crash, a lost answer, a late poll or
   a cancellation that lost to the approval. *)
KeyIsKept ==
    \A r \in RequestIds \ erased :
        Redeemable(r) =>
            \/ disk.pending = r
            \/ r \in KeyOf(disk.credential)

(* A credential is retired, and the user told that the Machine is revoked,
   only if the control plane has revoked it. *)
RevocationIsConfirmed ==
    /\ disk.retired # NoMachine => machines[disk.retired].state = "revoked"
    /\ host.at = "revoked" => machines[disk.credential].state = "revoked"

(* A revoked Machine stays revoked, and its certificate is never handed out
   again, neither to a late poll nor to a repeated one. *)
RevocationIsFinal ==
    [][\A m \in DOMAIN machines :
         machines[m].state = "revoked" =>
             /\ machines'[m] = machines[m]
             /\ host'.at = "install" /\ host'.machine = m => host.at = "install"]_vars

(* A pending connection does not block the computer for ever: carry setup,
   run again, ends with a Machine or with the pending file removed. *)
PendingSettles ==
    disk.pending # NoRequest ~> (disk.pending = NoRequest \/ disk.credential # NoMachine)

(***************************************************************************)
(* Why: the inductive invariant of MachineSetupProofs.  What is on the wire *)
(* belongs to a request the control plane knows, or to a key that is on     *)
(* disk or given up; an answer is awaited by the command that is at it.      *)
(***************************************************************************)
WireFollowsHost ==
    \A x \in net :
        /\ x.kind = "begin" => x.request \in DOMAIN requests \cup erased \cup {disk.pending}
        /\ x.kind \in {"poll", "cancel"} => x.request \in DOMAIN requests
        /\ x.kind = "revoke" => x.machine \in DOMAIN machines
        /\ x.awaited => /\ host.at = x.kind
                        /\ IF x.kind = "revoke" THEN host.machine = x.machine
                           ELSE host.request = x.request

(* What the running command has in memory agrees with the files, and it gives
   up only a request whose certificate is out of reach. *)
HostFollowsDisk ==
    /\ {disk.credential, disk.retired} \subseteq DOMAIN machines \cup {NoMachine}
    /\ host.at \in {"begin", "wait", "poll", "cancel", "install", "installed", "give_up"} =>
         host.request = disk.pending /\ disk.pending \in RequestIds
    /\ host.at \in {"begin", "wait", "poll", "cancel", "install", "give_up"} =>
         disk.credential = NoMachine
    /\ host.at \in {"wait", "poll", "cancel", "install", "give_up"} =>
         host.request \in DOMAIN requests
    /\ host.at = "install" =>
         host.machine \in DOMAIN machines /\ machines[host.machine].request = host.request
    /\ host.at = "installed" =>
         disk.credential \in DOMAIN machines /\ machines[disk.credential].request = disk.pending
    /\ host.at = "give_up" => ~ Redeemable(host.request)
    /\ host.at \in {"revoke", "revoked"} =>
         host.machine = disk.credential /\ disk.credential \in DOMAIN machines

SetupInv ==
    /\ TypeOK
    /\ ConnectionInv
    /\ WireFollowsHost
    /\ HostFollowsDisk
    /\ KeyIsKept
    /\ RevocationIsConfirmed
=============================================================================
