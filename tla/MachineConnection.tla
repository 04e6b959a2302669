--------------------------- MODULE MachineConnection ---------------------------
(***************************************************************************)
(* How a Machine becomes part of a Space: the rows of                       *)
(* machine_connection_requests and machines, and the transactions that      *)
(* begin, decide, poll and cancel a request and revoke a Machine.  Every     *)
(* transaction locks its request row (FOR UPDATE), admission an advisory     *)
(* lock, and revocation the Machine row: each is one atomic step.           *)
(*                                                                         *)
(* A request stands for its key pair, code and poll secret, all of them     *)
(* made by the Host that begins it, so the same request never arrives with  *)
(* another digest.  A deadline is a countdown that the database clock runs  *)
(* down; a transaction begins and ends within one tick.  Browser Sessions    *)
(* are valid here.  Lookup by code reads, or counts a failed try; it is     *)
(* left out, and so are the Agents of a revoked Machine (AgentPresence).     *)
(***************************************************************************)
EXTENDS SpaceMembers

CONSTANTS
    RequestIds, MachineIds,   \* uuid.NewString
    NoMachine,                \* SQL NULL in a Machine column
    Sources,                  \* network sources that admission counts
    MaxLiveForSource,         \* undecided requests of one source (5)
    MaxLive,                  \* undecided requests of all sources (1000)
    Lifetime,                 \* ConnectionLifetime, in ticks
    ReplayLifetime,           \* ConnectionReplayLifetime
    InitialInterval, IntervalStep, MaxInterval   \* poll_interval_seconds

ASSUME ConnectionAssumption ==
    /\ NoMachine \notin MachineIds
    /\ {MaxLiveForSource, MaxLive, ReplayLifetime} \subseteq Nat
    /\ Lifetime \in Nat \ {0}
    /\ InitialInterval \in Nat \ {0} /\ IntervalStep \in Nat
    /\ MaxInterval \in Nat /\ InitialInterval <= MaxInterval

VARIABLES
    requests,   \* machine_connection_requests: a function on existing rows
    machines    \* machines: likewise

Request == [source: Sources,
            left: 0 .. Lifetime,           \* until expires_at
            interval: 0 .. MaxInterval,
            wait: 0 .. MaxInterval,        \* until a poll is not too early
            decision: {"none", "approved", "denied"},
            by: Users \cup {NoUser}, key: Keys \cup {NoKey},
            machine: MachineIds \cup {NoMachine},   \* prepared_machine_id
            cancelled: BOOLEAN, redeemed: BOOLEAN,
            replay: 0 .. ReplayLifetime]   \* until replay_until
Machine == [request: RequestIds, enrolledBy: Users, state: {"connected", "revoked"}]

ConnectionTypeOK ==
    /\ MembersTypeOK
    /\ DOMAIN requests \subseteq RequestIds /\ requests \in [DOMAIN requests -> Request]
    /\ DOMAIN machines \subseteq MachineIds /\ machines \in [DOMAIN machines -> Machine]

ConnectionInit ==
    /\ MembersInit
    /\ requests = [r \in {} |-> r]
    /\ machines = [m \in {} |-> m]

Insert(table, id, row) ==
    [x \in DOMAIN table \cup {id} |-> IF x = id THEN row ELSE table[x]]

-----------------------------------------------------------------------------
(* Begin. *)

Live(r) ==
    requests[r].left > 0 /\ requests[r].decision = "none" /\ ~ requests[r].cancelled
LiveOf(source) == {r \in DOMAIN requests : Live(r) /\ requests[r].source = source}

Admitted(source) ==
    /\ Cardinality(LiveOf(source)) < MaxLiveForSource
    /\ Cardinality({r \in DOMAIN requests : Live(r)}) < MaxLive

NewRequest(source) ==
    [source |-> source, left |-> Lifetime, interval |-> InitialInterval,
     wait |-> InitialInterval, decision |-> "none", by |-> NoUser, key |-> NoKey,
     machine |-> NoMachine, cancelled |-> FALSE, redeemed |-> FALSE, replay |-> 0]

(* A request that exists is answered as it stands; a new one is admitted or
   refused. *)
BeginAnswer(r, source) ==
    IF r \in DOMAIN requests \/ Admitted(source) THEN "begun" ELSE "limited"
BeginMachineConnection(r, source) ==
    /\ requests' = IF r \notin DOMAIN requests /\ Admitted(source)
                   THEN Insert(requests, r, NewRequest(source))
                   ELSE requests
    /\ UNCHANGED <<members, machines>>

-----------------------------------------------------------------------------
(* Decide. *)

MayEnroll(u) == IsActiveMember(u) /\ "enroll" \in members[u].may

(* machine_connection_requests_decision_idempotency_idx *)
DecisionKeyUsed(u, k) ==
    \E r \in DOMAIN requests : requests[r].by = u /\ requests[r].key = k

(* Mutant: a request is decided at any time. *)
IsDecidableLate(r) == requests[r].decision = "none" /\ ~ requests[r].cancelled
IsDecidable(r) == Live(r)

DecideMachineConnection(u, r, decision, k, m) ==
    /\ decision = "approved" => MayEnroll(u)
    /\ IsDecidable(r)
    /\ ~ DecisionKeyUsed(u, k)
    /\ m \in MachineIds \ {requests[q].machine : q \in DOMAIN requests}
    /\ requests' = [requests EXCEPT ![r] =
                      [@ EXCEPT !.decision = decision, !.by = u, !.key = k,
                                !.machine = IF decision = "approved" THEN m ELSE NoMachine]]
    /\ UNCHANGED <<members, machines>>

-----------------------------------------------------------------------------
(* Poll and cancel, with the poll secret. *)

(* Mutant: a repeated poll does not look at the state of its Machine. *)
PollForgetsRevocation(r) ==
    IF requests[r].redeemed /\ requests[r].replay = 0 THEN "gone"
    ELSE IF requests[r].redeemed THEN "replayed"
    ELSE IF requests[r].decision = "denied" THEN "denied"
    ELSE IF requests[r].cancelled THEN "cancelled"
    ELSE IF requests[r].left = 0 THEN "gone"
    ELSE IF requests[r].wait > 0 THEN "slow_down"
    ELSE IF requests[r].decision = "none" THEN "pending"
    ELSE "redeemed"
(* The verdict of PollMachineConnection on the locked row, in its order. *)
PollVerdict(r) ==
    IF requests[r].redeemed /\ requests[r].replay = 0 THEN "gone"
    ELSE IF requests[r].redeemed /\ machines[requests[r].machine].state = "revoked"
         THEN "unavailable"
    ELSE IF requests[r].redeemed THEN "replayed"
    ELSE IF requests[r].decision = "denied" THEN "denied"
    ELSE IF requests[r].cancelled THEN "cancelled"
    ELSE IF requests[r].left = 0 THEN "gone"
    ELSE IF requests[r].wait > 0 THEN "slow_down"
    ELSE IF requests[r].decision = "none" THEN "pending"
    ELSE "redeemed"

SlowedInterval(r) ==
    LET slower == requests[r].interval + IntervalStep
    IN  IF slower < MaxInterval THEN slower ELSE MaxInterval

(* Mutant: every try makes another Machine. *)
AnyMachine(r) == CHOOSE m \in MachineIds : m \notin DOMAIN machines
(* Only the prepared identity can be created. *)
PreparedMachine(r) == requests[r].machine

PollMachineConnection(r) ==
    /\ CASE PollVerdict(r) = "slow_down" ->
              /\ requests' = [requests EXCEPT ![r].interval = SlowedInterval(r),
                                              ![r].wait = SlowedInterval(r)]
              /\ UNCHANGED machines
         [] PollVerdict(r) = "pending" ->
              /\ requests' = [requests EXCEPT ![r].wait = requests[r].interval]
              /\ UNCHANGED machines
         [] PollVerdict(r) = "redeemed" ->
              /\ machines' = Insert(machines, PreparedMachine(r),
                               [request |-> r, enrolledBy |-> requests[r].by,
                                state |-> "connected"])
              /\ requests' = [requests EXCEPT ![r] =
                                [@ EXCEPT !.wait = requests[r].interval, !.redeemed = TRUE,
                                          !.replay = ReplayLifetime]]
         [] OTHER -> UNCHANGED <<requests, machines>>
    /\ UNCHANGED members

CancelVerdict(r) ==
    IF requests[r].cancelled THEN "cancelled"
    ELSE IF requests[r].decision # "none" THEN "decided"
    ELSE IF requests[r].left = 0 THEN "gone"
    ELSE "cancelled"
CancelMachineConnection(r) ==
    /\ requests' = IF CancelVerdict(r) = "cancelled"
                   THEN [requests EXCEPT ![r].cancelled = TRUE] ELSE requests
    /\ UNCHANGED <<members, machines>>

-----------------------------------------------------------------------------
(* Revocation, removal and the clock. *)

Revoked(m) == [machines EXCEPT ![m].state = "revoked"]

(* A Machine that is revoked already is answered as such. *)
RevokeMachineFromHost(m) ==
    /\ machines' = Revoked(m)
    /\ UNCHANGED <<members, requests>>

RevokeMachineFromBrowser(u, m) ==
    /\ MayEnroll(u)
    /\ machines[m].state = "connected"
    /\ machines' = Revoked(m)
    /\ UNCHANGED <<members, requests>>

(* The target owns no Open Work here: see WorkRun. *)
RemoveSpaceMember(actor, target, key) ==
    /\ RemoveMembership(actor, target, NoUser, key, FALSE)
    /\ UNCHANGED <<requests, machines>>

Down(n) == IF n > 0 THEN n - 1 ELSE 0
RequestsAfterTick ==
    [r \in DOMAIN requests |->
       [requests[r] EXCEPT !.left = Down(@), !.wait = Down(@), !.replay = Down(@)]]

-----------------------------------------------------------------------------
(* Properties of the tables. *)

(* A request makes at most one Machine, the one prepared by its approval,
   however often and however late it is polled. *)
OneMachinePerRequest ==
    /\ \A m \in DOMAIN machines :
         LET r == machines[m].request
         IN  /\ r \in DOMAIN requests /\ requests[r].redeemed
             /\ requests[r].machine = m /\ requests[r].decision = "approved"
             /\ machines[m].enrolledBy = requests[r].by
    /\ \A r \in DOMAIN requests :
         requests[r].redeemed => requests[r].machine \in DOMAIN machines

(***************************************************************************)
(* Why: the part of MachineSetupProofs' inductive invariant that is about   *)
(* the tables.  An approval prepares a Machine identity that no other       *)
(* request has, and only an approved request is redeemed.                   *)
(***************************************************************************)
PreparedOnce ==
    \A r \in DOMAIN requests :
        /\ IF requests[r].decision = "approved"
           THEN requests[r].machine \in MachineIds /\ requests[r].by \in Users
           ELSE requests[r].machine = NoMachine
        /\ requests[r].redeemed => requests[r].decision = "approved"
        /\ \A q \in DOMAIN requests :
             requests[q].machine = requests[r].machine /\ requests[r].machine # NoMachine
             => q = r

ConnectionInv == ConnectionTypeOK /\ PreparedOnce /\ OneMachinePerRequest

-----------------------------------------------------------------------------
(* The refinement of DeviceGrant *)

PhaseOf(row) ==
    IF row.redeemed THEN "issued"
    ELSE IF row.decision = "denied" \/ row.cancelled \/ row.left = 0 THEN "refused"
    ELSE IF row.decision = "approved" THEN "granted"
    ELSE "asked"
GranterOf(row) == IF row.decision = "approved" THEN row.by ELSE NoUser
Phases ==
    [r \in RequestIds |-> IF r \in DOMAIN requests THEN PhaseOf(requests[r]) ELSE "none"]
Granters ==
    [r \in RequestIds |-> IF r \in DOMAIN requests THEN GranterOf(requests[r]) ELSE NoUser]
Connected ==
    {r \in RequestIds : \E m \in DOMAIN machines :
                          machines[m].request = r /\ machines[m].state = "connected"}
MayEnrollNow == {u \in Users : MayEnroll(u)}

Grants == INSTANCE DeviceGrant WITH
    Requests <- RequestIds,
    phase <- Phases, granter <- Granters, usable <- Connected, trusted <- MayEnrollNow

(* Codes, polls, slow-downs, replays and cancellations implement the grant of
   one connection: only by an active member who may enroll, only before the
   request was denied, cancelled or overdue, and never again once revoked. *)
ImplementsGrant == Grants!Spec
=============================================================================
