----------------------------- MODULE LockOrder ------------------------------
(***************************************************************************)
(* The order in which the transactions of one Space lock rows.             *)
(*                                                                         *)
(* The Space has one row of each kind that the transactions contend for:   *)
(* one Work, one Machine with one Agent, one invitation, one CLI login;    *)
(* one membership, Browser Session and Conversation per User.  A Run that  *)
(* is being worked on and one that may be retried are never the same row   *)
(* (state 'active' or not), and the queries filter by state before they    *)
(* lock.  Locks for foreign keys are listed where the row is not already   *)
(* locked; those on carry_users wait only for the transactions of module   *)
(* IdentityLocks, which are not among these.                               *)
(***************************************************************************)
EXTENDS RowLocks

Space == <<"space", 0>>
Work == <<"work", 0>>
Machine == <<"machine", 0>>
Agent == <<"agent", 0>>
ActiveRun == <<"active run", 0>>
RetryableRun == <<"retryable run", 0>>
Attempt == <<"attempt", 0>>
ResultCheck == <<"result check", 0>>
ConnectionRequest == <<"connection request", 0>>
RecipientKey == <<"invitation recipient key", 0>>
LoginRequest == <<"CLI login request", 0>>
Credential == <<"CLI credential", 0>>
Conversation(u) == <<"conversation", u>>
ReplyClaim(u) == <<"reply claim", u>>

-----------------------------------------------------------------------------
(* The locks of each operation, in the order of its statements *)

(* The actor, the target and perhaps a successor, each once, in the order of
   their ids. *)
ParticipantLists ==
    {ids \in UNION {[1 .. n -> Users] : n \in 1 .. 3} :
        \A i, j \in DOMAIN ids : i < j => ids[i] < ids[j]}
Participants(ids) == [n \in DOMAIN ids |-> Lock(Membership(ids[n]), Update)]

(* Mutant: the participants are locked before the Space. *)
RemoveParticipantsFirst(ids) ==
    Participants(ids) \o <<Lock(Space, NoKeyUpdate), Lock(Work, Update), Lock(Agent, Update)>>
RemoveSpaceMember(ids) ==
    <<Lock(Space, NoKeyUpdate)>> \o Participants(ids)
      \o <<Lock(Work, Update), Lock(Agent, Update)>>

AppendWorkMessage(u) == <<Lock(Membership(u), Share), Lock(Work, Update)>>
AcceptWorkReview(u) ==
    <<Lock(Membership(u), Share), Lock(Work, Update), Lock(ResultCheck, Update)>>
LoadWork(u) == <<Lock(Membership(u), Share), Lock(Work, Share)>>
RequestWorkRetry(u) ==
    <<Lock(Membership(u), Share), Lock(Work, Update), Lock(RetryableRun, Update)>>

ClaimRun == <<Lock(Machine, Share), SkipLocked(ActiveRun), SkipLocked(Attempt), SkipLocked(Work)>>
RenewRunAttempt == <<Lock(ActiveRun, Update), Lock(Attempt, Update), Lock(Machine, Share)>>
CommitWorkUnderstanding ==
    <<Lock(ActiveRun, Update), Lock(Attempt, Update), Lock(Work, Update), Lock(Machine, Share)>>

DecideMachineConnection(u) ==
    <<Lock(Session(u), Update), Lock(Space, NoKeyUpdate), Lock(Membership(u), Update),
      Lock(ConnectionRequest, Update)>>
PollMachineConnection == <<Lock(ConnectionRequest, Update), Lock(Space, KeyShare)>>
RevokeMachineFromBrowser(u) ==
    <<Lock(Session(u), Update), Lock(Space, NoKeyUpdate), Lock(Membership(u), Update),
      Lock(Machine, Update), Lock(Agent, Update)>>
RevokeMachineFromHost == <<Lock(Machine, Update), Lock(Agent, Update)>>
(* A report that allocates an Agent; one that does not is like RevokeMachineFromHost. *)
ReconcileAgentPresence(u) ==
    <<Lock(Space, NoKeyUpdate), Lock(Membership(u), Update),
      Lock(Machine, Update), Lock(Agent, Update)>>

SendConversationMessage(u) ==
    <<Lock(Membership(u), Share), Lock(Conversation(u), Update)>>
ClaimConversationReply(u) ==
    <<Lock(Machine, Share), SkipLocked(ReplyClaim(u)), Lock(Membership(u), Share)>>
RenewConversationReply(u) ==
    <<Lock(Machine, Share), Lock(ReplyClaim(u), Update), Lock(Membership(u), Share)>>
CommitConversationReply(u) ==
    <<Lock(Machine, Share), Lock(ReplyClaim(u), Update), Lock(Conversation(u), Update),
      Lock(Membership(u), Share)>>

(* A login that replaces a credential; DenyCLILogin takes the first two. *)
ApproveCLILogin(u) ==
    <<Lock(LoginRequest, Update), Lock(Session(u), Update), Lock(Space, KeyShare),
      Lock(Membership(u), Update), Lock(Credential, Update)>>
PollCLILogin == <<Lock(LoginRequest, Update), Lock(Credential, Update)>>
RevokeCLICredential(u) == <<Lock(Session(u), Update), Lock(Credential, Update)>>

(* The recipient's key is an advisory lock; the new row refers to the Space. *)
IssueInvitation(u) ==
    <<Lock(Membership(u), Update), Lock(RecipientKey, Update), Lock(Space, KeyShare)>>
RevokeInvitation(u) == <<Lock(Membership(u), Update), Lock(Invitation, Update)>>
AcceptInvitation(u) ==
    <<Lock(Session(u), Update), Lock(Invitation, Update), Lock(Membership(u), Update)>>

-----------------------------------------------------------------------------
ReplyOperations == UNION {{ClaimConversationReply(u), RenewConversationReply(u),
                           CommitConversationReply(u)} : u \in Users}
AcceptOperations == {AcceptInvitation(u) : u \in Users}
MemberOperations ==
    UNION {{AppendWorkMessage(u), AcceptWorkReview(u), LoadWork(u), RequestWorkRetry(u),
            DecideMachineConnection(u), RevokeMachineFromBrowser(u),
            ReconcileAgentPresence(u), SendConversationMessage(u), IssueInvitation(u),
            RevokeInvitation(u), ApproveCLILogin(u), RevokeCLICredential(u)}
           : u \in Users}
HostOperations == {ClaimRun, RenewRunAttempt, CommitWorkUnderstanding,
                   PollMachineConnection, RevokeMachineFromHost, PollCLILogin}
Operations ==
    {RemoveSpaceMember(ids) : ids \in ParticipantLists} \cup MemberOperations
      \cup HostOperations \cup ReplyOperations \cup AcceptOperations
ASSUME NoOperationAssumption == NoOperation \notin Operations

Next == Step(Operations)
Spec == Init /\ [][Next]_vars

-----------------------------------------------------------------------------
(* Removal, revocation, reports, claims, commits and the requests of members
   never deadlock among themselves.  The deadlocks that can happen all have a
   private reply, which locks the Machine before the membership, or the
   acceptance of an invitation, which locks the invitation before it. *)
OnlyRepliesAndAcceptancesDeadlock ==
    \A ts \in SUBSET Transactions : Deadlocked(ts) /\ AllRun(ts, Operations) =>
      \E t \in ts : operation[t] \in ReplyOperations \cup AcceptOperations
=============================================================================
