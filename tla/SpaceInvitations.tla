-------------------------- MODULE SpaceInvitations --------------------------
(***************************************************************************)
(* How a Space comes to have members: its creation, the invitations a      *)
(* manager issues to email addresses, the mail submitted for each, and the *)
(* acceptance by the User who owns the address at that time.               *)
(*                                                                         *)
(* Issue and resend commit their rows first and call the mail provider     *)
(* afterwards, outside any transaction; a second request with the same key *)
(* calls it again while no outcome is recorded.  So the request handlers   *)
(* between commit, submission and record are state of the model, and each  *)
(* may die at any point.  The transactions themselves are atomic: they     *)
(* hold the inviter's membership row or the address's lock throughout.     *)
(*                                                                         *)
(* Login methods are reduced to what acceptance reads, who owns an address *)
(* (module Identity has the rest).  What only forbids a step for a time    *)
(* needs no state: the recent proof of the address, which its owner can    *)
(* make again at will, the 24 hours of a submission, the resend cooldown.  *)
(* The end of an invitation is the step Expire, because it frees the       *)
(* address for another invitation.                                         *)
(***************************************************************************)
EXTENDS SpaceMembers

CONSTANTS
    Emails, Invitations, Submissions,
    Handlers,      \* requests the server may have at the mail provider
    NoEmail, NoInvitation, NoSubmission

ASSUME InvitationsAssumption ==
    /\ NoEmail \notin Emails /\ NoInvitation \notin Invitations
    /\ NoSubmission \notin Submissions

VARIABLES
    creator,       \* spaces.created_by_user_id
    emailOwner,    \* email_identities
    invitations,   \* space_invitations
    submissions,   \* space_invitation_submissions
    handlers       \* what each request handler is doing with a submission

vars == <<members, creator, emailOwner, invitations, submissions, handlers>>

Outcomes == {"accepted", "rejected", "unknown"}
Invitation == [state: {"none", "pending", "accepted", "revoked", "expired"},
               email: Emails \cup {NoEmail}, inviter: Users \cup {NoUser},
               may: SUBSET Authorities,
               acceptedBy: Users \cup {NoUser},
               result: {"none", "joined", "already_member"}]
Submission == [state: {"none", "prepared"} \cup Outcomes,
               of: Invitations \cup {NoInvitation}, by: Users \cup {NoUser}]
Handler == [phase: {"idle", "submitting"} \cup Outcomes,
            on: Submissions \cup {NoSubmission}]
IdleHandler == [phase |-> "idle", on |-> NoSubmission]

TypeOK ==
    /\ MembersTypeOK
    /\ creator \in Users \cup {NoUser}
    /\ emailOwner \in [Emails -> Users \cup {NoUser}]
    /\ invitations \in [Invitations -> Invitation]
    /\ submissions \in [Submissions -> Submission]
    /\ handlers \in [Handlers -> Handler]

Init ==
    /\ members = [u \in Users |->
                    [may |-> {}, state |-> "none", removedBy |-> NoUser,
                     successor |-> NoUser, removalKey |-> NoKey]]
    /\ creator = NoUser
    /\ emailOwner = [e \in Emails |-> NoUser]
    /\ invitations = [i \in Invitations |->
                        [state |-> "none", email |-> NoEmail, inviter |-> NoUser,
                         may |-> {}, acceptedBy |-> NoUser, result |-> "none"]]
    /\ submissions = [s \in Submissions |->
                        [state |-> "none", of |-> NoInvitation, by |-> NoUser]]
    /\ handlers = [h \in Handlers |-> IdleHandler]

-----------------------------------------------------------------------------
(* The Space and the login methods of its people *)

(* The INSERT of a membership row: CreateSpaceMembership gives the creator
   both authorities, CreateInvitationMembership those of the invitation. *)
Admit(u, may) ==
    members' = [members EXCEPT ![u].state = "active", ![u].may = may]

CreateSpace(u) ==
    /\ creator = NoUser
    /\ creator' = u
    /\ Admit(u, Authorities)
    /\ UNCHANGED <<emailOwner, invitations, submissions, handlers>>

RemoveSpaceMember(actor, target, key) ==
    /\ RemoveMembership(actor, target, NoUser, key, FALSE)
    /\ UNCHANGED <<creator, emailOwner, invitations, submissions, handlers>>

(* A code sent to the address is verified: the address is linked, by a login
   that creates the User or by a Session of the User. *)
LinkEmail(u, e) ==
    /\ emailOwner[e] = NoUser
    /\ \A f \in Emails : emailOwner[f] # u
    /\ emailOwner' = [emailOwner EXCEPT ![e] = u]
    /\ UNCHANGED <<members, creator, invitations, submissions, handlers>>

(* The User unlinks the address, keeping another method. *)
UnlinkEmail(u, e) ==
    /\ emailOwner[e] = u
    /\ emailOwner' = [emailOwner EXCEPT ![e] = NoUser]
    /\ UNCHANGED <<members, creator, invitations, submissions, handlers>>

-----------------------------------------------------------------------------
(* Invitations *)

(* LockInvitationActorMembership *)
IsManager(u) == IsActiveMember(u) /\ "manage" \in members[u].may

(* Mutant: a manager may grant the authority to enroll without holding it. *)
MayGrantAny(actor, may) == "manage" \in may => "manage" \in members[actor].may
MayGrant(actor, may) == may \subseteq members[actor].may

(* HasCurrentSpaceInvitation *)
HasCurrentInvitation(e) ==
    \E i \in Invitations : invitations[i].email = e /\ invitations[i].state = "pending"

(* submit, up to the provider call, for a submission that is eligible. *)
BeginSubmit(h, s) ==
    /\ handlers[h].phase = "idle"
    /\ handlers' = [handlers EXCEPT ![h] = [phase |-> "submitting", on |-> s]]

(* InsertSpaceInvitationSubmission *)
InsertSubmission(s, i, actor) ==
    /\ submissions[s].state = "none"
    /\ submissions' = [submissions EXCEPT ![s] =
                         [state |-> "prepared", of |-> i, by |-> actor]]

(* Issue: PrepareInvitation with an unused key, then the start of submit. *)
IssueInvitation(h, actor, i, s, e, may) ==
    /\ IsManager(actor)
    /\ MayGrant(actor, may)
    /\ ~ HasCurrentInvitation(e)
    /\ ~ IsActiveMember(emailOwner[e])
    /\ invitations[i].state = "none"
    /\ invitations' = [invitations EXCEPT ![i] =
                         [@ EXCEPT !.state = "pending", !.email = e,
                                   !.inviter = actor, !.may = may]]
    /\ InsertSubmission(s, i, actor)
    /\ BeginSubmit(h, s)
    /\ UNCHANGED <<members, creator, emailOwner>>

(* Resend: another submission of a pending invitation, by any manager. *)
ResendInvitation(h, actor, i, s) ==
    /\ IsManager(actor)
    /\ invitations[i].state = "pending"
    /\ InsertSubmission(s, i, actor)
    /\ BeginSubmit(h, s)
    /\ UNCHANGED <<members, creator, emailOwner, invitations>>

(* LoadInvitationIssueReplay, LoadInvitationResendReplay: the same key again,
   while the submission is eligible. *)
ReplaySubmission(h, s) ==
    /\ IsManager(submissions[s].by)
    /\ submissions[s].state = "prepared"
    /\ invitations[submissions[s].of].state = "pending"
    /\ BeginSubmit(h, s)
    /\ UNCHANGED <<members, creator, emailOwner, invitations, submissions>>

RevokeInvitation(actor, i) ==
    /\ IsManager(actor)
    /\ invitations[i].state = "pending"
    /\ invitations' = [invitations EXCEPT ![i].state = "revoked"]
    /\ UNCHANGED <<members, creator, emailOwner, submissions, handlers>>

Expire(i) ==
    /\ invitations[i].state = "pending"
    /\ invitations' = [invitations EXCEPT ![i].state = "expired"]
    /\ UNCHANGED <<members, creator, emailOwner, submissions, handlers>>

(* Mutant: an earlier removal is not looked at. *)
MayJoinAgain(u) == TRUE
(* LoadMembershipForInvitation *)
MayJoin(u) == members[u].state # "revoked"

(* Mutant: a revocation committed meanwhile is not seen. *)
AcceptableAnyway(i) == invitations[i].state \in {"pending", "revoked"}
(* Neither accepted, nor revoked, nor expired, under the row's lock. *)
Acceptable(i) == invitations[i].state = "pending"

AcceptInvitation(u, i) ==
    /\ invitations[i].email # NoEmail
    /\ emailOwner[invitations[i].email] = u
    /\ Acceptable(i)
    /\ MayJoin(u)
    /\ LET joins == ~ IsActiveMember(u) IN
         /\ IF joins THEN Admit(u, invitations[i].may) ELSE UNCHANGED members
         /\ invitations' = [invitations EXCEPT ![i] =
                              [@ EXCEPT !.state = "accepted", !.acceptedBy = u,
                                        !.result = IF joins THEN "joined"
                                                            ELSE "already_member"]]
    /\ UNCHANGED <<creator, emailOwner, submissions, handlers>>

-----------------------------------------------------------------------------
(* The mail provider and the record of its answer *)

(* The provider accepts or refuses the message; an answer that is lost, or
   that decides nothing (408, 409, 425, 429, 5xx), is "unknown".  Two calls
   for one submission may be answered differently. *)
SubmitInvitation(h) ==
    /\ handlers[h].phase = "submitting"
    /\ \E outcome \in Outcomes : handlers' = [handlers EXCEPT ![h].phase = outcome]
    /\ UNCHANGED <<members, creator, emailOwner, invitations, submissions>>

(* Mutant: a later answer overwrites the record. *)
OverwriteOutcome(s, outcome) == [submissions EXCEPT ![s].state = outcome]
(* RecordSpaceInvitationSubmission: only the first answer is recorded; a
   different one afterwards is ErrInvitationSubmissionConflict. *)
RecordOutcome(s, outcome) ==
    IF submissions[s].state = "prepared"
      THEN [submissions EXCEPT ![s].state = outcome] ELSE submissions

RecordInvitationSubmission(h) ==
    /\ handlers[h].phase \in Outcomes
    /\ submissions' = RecordOutcome(handlers[h].on, handlers[h].phase)
    /\ handlers' = [handlers EXCEPT ![h] = IdleHandler]
    /\ UNCHANGED <<members, creator, emailOwner, invitations>>

(* The server dies, or the record runs into its own time limit. *)
HandlerDies(h) ==
    /\ handlers[h].phase # "idle"
    /\ handlers' = [handlers EXCEPT ![h] = IdleHandler]
    /\ UNCHANGED <<members, creator, emailOwner, invitations, submissions>>

-----------------------------------------------------------------------------
Next ==
    \/ \E u \in Users : CreateSpace(u)
    \/ \E u, v \in Users, k \in Keys : RemoveSpaceMember(u, v, k)
    \/ \E u \in Users, e \in Emails : LinkEmail(u, e) \/ UnlinkEmail(u, e)
    \/ \E h \in Handlers, u \in Users, i \in Invitations, s \in Submissions :
         \/ \E e \in Emails, may \in SUBSET Authorities :
              IssueInvitation(h, u, i, s, e, may)
         \/ ResendInvitation(h, u, i, s)
    \/ \E h \in Handlers, s \in Submissions : ReplaySubmission(h, s)
    \/ \E u \in Users, i \in Invitations :
         RevokeInvitation(u, i) \/ AcceptInvitation(u, i)
    \/ \E i \in Invitations : Expire(i)
    \/ \E h \in Handlers :
         SubmitInvitation(h) \/ RecordInvitationSubmission(h) \/ HandlerDies(h)

Spec == Init /\ [][Next]_vars

-----------------------------------------------------------------------------
(* A User whose membership was removed never gets it back: not through an
   invitation that was open at the removal, nor through one issued later, nor
   through another address (the revoked row that AcceptInvitation reads). *)
RemovedMemberStaysOut ==
    [][\A u \in Users : members[u].state = "revoked" => members'[u] = members[u]]_vars

(* Authority is handed down, never made: whoever is a member is the creator or
   joined by an invitation that carries exactly those authorities, from an
   inviter who had them too.  A second invitation that a member accepts
   (already_member) changes nothing. *)
AuthorityIsHandedDown ==
    \A u \in Users : members[u].state # "none" =>
      \/ u = creator /\ members[u].may = Authorities
      \/ \E i \in Invitations :
           /\ invitations[i].acceptedBy = u /\ invitations[i].result = "joined"
           /\ members[u].may = invitations[i].may
           /\ invitations[i].may \subseteq members[invitations[i].inviter].may

(* An invitation ends once: accepted, revoked or expired, whichever commits
   first, and the loser of the race changes nothing. *)
InvitationEndsOnce ==
    [][\A i \in Invitations :
         invitations[i].state \in {"accepted", "revoked", "expired"}
           => invitations'[i] = invitations[i]]_vars

(* The first recorded answer of the provider stands: a slower handler of the
   same submission, with a lost or another answer, does not replace it. *)
DeliveryRecordIsFinal ==
    [][\A s \in Submissions :
         submissions[s].state \in Outcomes => submissions'[s] = submissions[s]]_vars

(***************************************************************************)
(* Why: the inductive invariant of SpaceInvitationsProofs.  A membership    *)
(* row is never removed, and its authorities change only when it is         *)
(* admitted, so an inviter keeps the authorities that it has granted from.  *)
(***************************************************************************)
NoMemberBeforeCreation ==
    creator = NoUser => \A u \in Users : members[u].state = "none"
GrantedWithinInviter ==
    \A i \in Invitations : invitations[i].state # "none" =>
        /\ invitations[i].inviter \in Users
        /\ members[invitations[i].inviter].state # "none"
        /\ invitations[i].may \subseteq members[invitations[i].inviter].may
AcceptanceIsRecorded ==
    \A i \in Invitations :
        invitations[i].acceptedBy # NoUser => invitations[i].state = "accepted"

InvitationInv ==
    /\ TypeOK
    /\ NoMemberBeforeCreation
    /\ GrantedWithinInviter
    /\ AcceptanceIsRecorded
    /\ AuthorityIsHandedDown
=============================================================================
