----------------------- MODULE SpaceInvitationsProofs -----------------------
(***************************************************************************)
(* Theorems about SpaceInvitations, for every set of Users, addresses,      *)
(* invitations, submissions and request handlers.                          *)
(***************************************************************************)
EXTENDS SpaceInvitations, TLAPS

(* Every step writes well-formed rows. *)
LEMMA NextKeepsTypeOK == ASSUME TypeOK, [Next]_vars PROVE TypeOK'
<1> USE MembersAssumption, InvitationsAssumption
<1>0. /\ \A u \in Users : members[u] \in Membership
      /\ \A i \in Invitations : invitations[i] \in Invitation
      /\ \A s \in Submissions : submissions[s] \in Submission
      /\ \A h \in Handlers : handlers[h] \in Handler
      /\ IdleHandler \in Handler
  BY DEF TypeOK, MembersTypeOK, IdleHandler, Handler
<1>1. ASSUME NEW u \in Users, NEW may \in SUBSET Authorities, Admit(u, may)
      PROVE  MembersTypeOK'
  BY <1>0, <1>1 DEF TypeOK, MembersTypeOK, Admit, Membership
<1>2. ASSUME NEW h \in Handlers, NEW s \in Submissions, BeginSubmit(h, s)
      PROVE  handlers' \in [Handlers -> Handler]
  BY <1>0, <1>2 DEF TypeOK, BeginSubmit, Handler
<1>3. ASSUME NEW s \in Submissions, NEW i \in Invitations, NEW u \in Users,
             InsertSubmission(s, i, u)
      PROVE  submissions' \in [Submissions -> Submission]
  BY <1>0, <1>3 DEF TypeOK, InsertSubmission, Submission
<1>4. ASSUME NEW u \in Users, CreateSpace(u) PROVE TypeOK'
  BY <1>1, <1>4 DEF TypeOK, CreateSpace
<1>5. ASSUME NEW u \in Users, NEW v \in Users, NEW k \in Keys, RemoveSpaceMember(u, v, k)
      PROVE  TypeOK'
  <2>1. [members[v] EXCEPT !.state = "revoked", !.removedBy = u,
                           !.successor = NoUser, !.removalKey = k] \in Membership
    BY <1>0 DEF Membership
  <2> QED BY <1>5, <2>1 DEF TypeOK, MembersTypeOK, RemoveSpaceMember, RemoveMembership
<1>6. ASSUME NEW u \in Users, NEW e \in Emails, LinkEmail(u, e) \/ UnlinkEmail(u, e)
      PROVE  TypeOK'
  BY <1>6 DEF TypeOK, MembersTypeOK, LinkEmail, UnlinkEmail
<1>7. ASSUME NEW h \in Handlers, NEW u \in Users, NEW i \in Invitations,
             NEW s \in Submissions, NEW e \in Emails, NEW may \in SUBSET Authorities,
             IssueInvitation(h, u, i, s, e, may)
      PROVE  TypeOK'
  <2>1. [invitations[i] EXCEPT !.state = "pending", !.email = e, !.inviter = u,
                               !.may = may] \in Invitation
    BY <1>0 DEF Invitation
  <2>2. invitations' \in [Invitations -> Invitation]
    BY <1>7, <2>1 DEF TypeOK, IssueInvitation
  <2> QED BY <1>2, <1>3, <1>7, <2>2 DEF TypeOK, MembersTypeOK, IssueInvitation
<1>8. ASSUME NEW h \in Handlers, NEW u \in Users, NEW i \in Invitations,
             NEW s \in Submissions, ResendInvitation(h, u, i, s)
      PROVE  TypeOK'
  BY <1>2, <1>3, <1>8 DEF TypeOK, MembersTypeOK, ResendInvitation
<1>9. ASSUME NEW h \in Handlers, NEW s \in Submissions, ReplaySubmission(h, s)
      PROVE  TypeOK'
  BY <1>2, <1>9 DEF TypeOK, MembersTypeOK, ReplaySubmission
<1>10. ASSUME NEW i \in Invitations,
              Expire(i) \/ \E u \in Users : RevokeInvitation(u, i)
       PROVE  TypeOK'
  BY <1>0, <1>10 DEF TypeOK, MembersTypeOK, RevokeInvitation, Expire, Invitation
<1>11. ASSUME NEW u \in Users, NEW i \in Invitations, AcceptInvitation(u, i)
       PROVE  TypeOK'
  <2>1. ASSUME NEW result \in {"joined", "already_member"}
        PROVE  [invitations[i] EXCEPT !.state = "accepted", !.acceptedBy = u,
                                      !.result = result] \in Invitation
    BY <1>0 DEF Invitation
  <2>2. invitations' \in [Invitations -> Invitation]
    BY <1>11, <2>1 DEF TypeOK, AcceptInvitation
  <2>3. invitations[i].may \in SUBSET Authorities
    BY <1>0 DEF Invitation
  <2>4. MembersTypeOK'
    BY <1>1, <1>11, <2>3 DEF TypeOK, MembersTypeOK, AcceptInvitation
  <2> QED BY <1>11, <2>2, <2>4 DEF TypeOK, AcceptInvitation
<1>12. ASSUME NEW h \in Handlers, SubmitInvitation(h) \/ HandlerDies(h)
       PROVE  TypeOK'
  BY <1>0, <1>12 DEF TypeOK, MembersTypeOK, SubmitInvitation, HandlerDies, Handler
<1>13. ASSUME NEW h \in Handlers, RecordInvitationSubmission(h)
       PROVE  TypeOK'
  <2>1. submissions' \in [Submissions -> Submission]
    BY <1>0, <1>13 DEF TypeOK, RecordInvitationSubmission, RecordOutcome, Submission
  <2> QED BY <1>0, <1>13, <2>1 DEF TypeOK, MembersTypeOK, RecordInvitationSubmission
<1>14. CASE UNCHANGED vars
  BY <1>14 DEF vars, TypeOK, MembersTypeOK
<1> QED BY <1>4, <1>5, <1>6, <1>7, <1>8, <1>9, <1>10, <1>11, <1>12, <1>13, <1>14 DEF Next

(* A row once admitted keeps its authorities, and leaves "none" for good. *)
RowsStay ==
    \A u \in Users : members[u].state # "none" =>
        /\ members'[u].may = members[u].may
        /\ members'[u].state # "none"

(* A step that changes no membership or only revokes one, and writes no
   invitation beyond its state, keeps the chain of grants. *)
LEMMA GrantsStay ==
    ASSUME InvitationInv, TypeOK', RowsStay, creator' = creator,
           NoMemberBeforeCreation',
           \A u \in Users : members[u].state = "none" => members'[u].state = "none",
           \A i \in Invitations :
               /\ invitations'[i].inviter = invitations[i].inviter
               /\ invitations'[i].may = invitations[i].may
               /\ invitations[i].state = "none" => invitations'[i].state = "none"
               /\ \/ /\ invitations'[i].acceptedBy = invitations[i].acceptedBy
                     /\ invitations'[i].result = invitations[i].result
                     /\ invitations[i].state = "accepted" =>
                          invitations'[i].state = "accepted"
                  \/ /\ invitations[i].state # "accepted"
                     /\ invitations'[i].state = "accepted"
    PROVE  InvitationInv'
<1>1. GrantedWithinInviter'
  BY DEF InvitationInv, GrantedWithinInviter, RowsStay
<1>2. AcceptanceIsRecorded'
  BY DEF InvitationInv, AcceptanceIsRecorded
<1>3. AuthorityIsHandedDown'
  <2> SUFFICES ASSUME NEW u \in Users, members'[u].state # "none"
               PROVE  \/ u = creator /\ members'[u].may = Authorities
                      \/ \E i \in Invitations :
                           /\ invitations'[i].acceptedBy = u
                           /\ invitations'[i].result = "joined"
                           /\ members'[u].may = invitations'[i].may
                           /\ invitations'[i].may \subseteq
                                members'[invitations'[i].inviter].may
    BY DEF AuthorityIsHandedDown
  <2>1. members[u].state # "none" /\ members'[u].may = members[u].may
    BY DEF RowsStay
  <2>2. CASE u = creator /\ members[u].may = Authorities
    BY <2>1, <2>2
  <2>3. CASE \E i \in Invitations :
               /\ invitations[i].acceptedBy = u /\ invitations[i].result = "joined"
               /\ members[u].may = invitations[i].may
               /\ invitations[i].may \subseteq members[invitations[i].inviter].may
    <3>1. PICK i \in Invitations :
               /\ invitations[i].acceptedBy = u /\ invitations[i].result = "joined"
               /\ members[u].may = invitations[i].may
      BY <2>3
    <3>2. invitations[i].state = "accepted"
      BY <3>1, MembersAssumption DEF InvitationInv, AcceptanceIsRecorded
    <3>3. /\ invitations[i].inviter \in Users
          /\ members[invitations[i].inviter].state # "none"
          /\ invitations[i].may \subseteq members[invitations[i].inviter].may
      BY <3>2 DEF InvitationInv, GrantedWithinInviter
    <3>4. invitations'[i].acceptedBy = u /\ invitations'[i].result = "joined"
      BY <3>1, <3>2
    <3> QED BY <2>1, <3>1, <3>3, <3>4 DEF RowsStay
  <2> QED BY <2>1, <2>2, <2>3 DEF InvitationInv, AuthorityIsHandedDown
<1> QED BY <1>1, <1>2, <1>3 DEF InvitationInv

(* The creator is the first member and has every authority. *)
LEMMA CreateSpaceKeepsInv ==
    ASSUME InvitationInv, TypeOK', NEW u \in Users, CreateSpace(u)
    PROVE  InvitationInv'
<1>1. /\ \A v \in Users : members[v].state = "none"
      /\ creator' = u /\ invitations' = invitations
  BY DEF InvitationInv, NoMemberBeforeCreation, CreateSpace
<1>2. /\ members'[u].state = "active" /\ members'[u].may = Authorities
      /\ \A v \in Users : v # u => members'[v] = members[v]
  BY DEF InvitationInv, TypeOK, MembersTypeOK, Membership, CreateSpace, Admit
<1>3. \A i \in Invitations : invitations[i].state = "none"
  BY <1>1 DEF InvitationInv, GrantedWithinInviter
<1> QED BY <1>1, <1>2, <1>3, MembersAssumption DEF InvitationInv, NoMemberBeforeCreation,
      GrantedWithinInviter, AcceptanceIsRecorded, AuthorityIsHandedDown

(* A removal revokes a row and keeps its authorities in it. *)
LEMMA RemoveSpaceMemberKeepsInv ==
    ASSUME InvitationInv, TypeOK', NEW u \in Users, NEW v \in Users, NEW k \in Keys,
           RemoveSpaceMember(u, v, k)
    PROVE  InvitationInv'
<1>1. /\ members[v].state = "active"
      /\ members'[v].state = "revoked" /\ members'[v].may = members[v].may
      /\ \A x \in Users : x # v => members'[x] = members[x]
  BY DEF InvitationInv, TypeOK, MembersTypeOK, Membership, RemoveSpaceMember,
         RemoveMembership, IsActiveMember
<1>2. RowsStay /\ \A x \in Users : members[x].state = "none" => members'[x].state = "none"
  BY <1>1 DEF RowsStay
<1>3. creator' = creator /\ invitations' = invitations
  BY DEF RemoveSpaceMember
<1>4. NoMemberBeforeCreation'
  BY <1>1, <1>2, <1>3 DEF InvitationInv, NoMemberBeforeCreation
<1> QED BY <1>2, <1>3, <1>4, GrantsStay

(* An invitation grants what its inviter holds. *)
LEMMA IssueInvitationKeepsInv ==
    ASSUME InvitationInv, TypeOK', NEW h \in Handlers, NEW u \in Users,
           NEW i \in Invitations, NEW s \in Submissions, NEW e \in Emails,
           NEW may \in SUBSET Authorities, IssueInvitation(h, u, i, s, e, may)
    PROVE  InvitationInv'
<1>1. /\ members' = members /\ creator' = creator
      /\ members[u].state = "active" /\ may \subseteq members[u].may
      /\ invitations[i].state = "none"
  BY DEF IssueInvitation, IsManager, IsActiveMember, MayGrant
<1>2. /\ invitations'[i].state = "pending" /\ invitations'[i].inviter = u
      /\ invitations'[i].may = may
      /\ invitations'[i].acceptedBy = invitations[i].acceptedBy
      /\ \A j \in Invitations : j # i => invitations'[j] = invitations[j]
  BY DEF InvitationInv, TypeOK, Invitation, IssueInvitation
<1>3. NoMemberBeforeCreation' /\ GrantedWithinInviter'
  BY <1>1, <1>2 DEF InvitationInv, NoMemberBeforeCreation, GrantedWithinInviter
<1>4. invitations[i].acceptedBy = NoUser
  BY <1>1 DEF InvitationInv, AcceptanceIsRecorded
<1>5. AcceptanceIsRecorded'
  BY <1>2, <1>4 DEF InvitationInv, AcceptanceIsRecorded
<1>6. AuthorityIsHandedDown'
  BY <1>1, <1>2, <1>4, MembersAssumption DEF InvitationInv, AuthorityIsHandedDown
<1> QED BY <1>3, <1>5, <1>6 DEF InvitationInv

(* Who joins gets the authorities of the invitation and is nobody's inviter
   yet; who is a member already keeps what it has. *)
LEMMA AcceptInvitationKeepsInv ==
    ASSUME InvitationInv, TypeOK', NEW u \in Users, NEW i \in Invitations,
           AcceptInvitation(u, i)
    PROVE  InvitationInv'
<1>1. /\ creator' = creator /\ invitations[i].state = "pending"
      /\ members[u].state # "revoked"
  BY DEF AcceptInvitation, Acceptable, MayJoin
<1>2. /\ invitations'[i].state = "accepted" /\ invitations'[i].acceptedBy = u
      /\ invitations'[i].inviter = invitations[i].inviter
      /\ invitations'[i].may = invitations[i].may
      /\ invitations'[i].result = IF IsActiveMember(u) THEN "already_member" ELSE "joined"
      /\ \A j \in Invitations : j # i => invitations'[j] = invitations[j]
  <2>1. invitations[i] \in Invitation
    BY DEF InvitationInv, TypeOK
  <2> QED BY <2>1 DEF InvitationInv, TypeOK, Invitation, AcceptInvitation
<1>3. /\ invitations[i].inviter \in Users
      /\ members[invitations[i].inviter].state # "none"
      /\ invitations[i].may \subseteq members[invitations[i].inviter].may
  BY <1>1 DEF InvitationInv, GrantedWithinInviter
<1>4. creator # NoUser
  BY <1>3 DEF InvitationInv, NoMemberBeforeCreation
<1>5. CASE IsActiveMember(u)
  <2>1. members' = members
    BY <1>5 DEF AcceptInvitation
  <2>2. RowsStay /\ NoMemberBeforeCreation'
    BY <1>1, <1>4, <2>1 DEF RowsStay, NoMemberBeforeCreation
  <2> QED BY <1>1, <1>2, <2>1, <2>2, GrantsStay
<1>6. CASE ~ IsActiveMember(u)
  <2>1. /\ members[u].state = "none"
        /\ members'[u].state = "active" /\ members'[u].may = invitations[i].may
        /\ \A v \in Users : v # u => members'[v] = members[v]
    BY <1>1, <1>6 DEF AcceptInvitation, Admit, IsActiveMember, InvitationInv, TypeOK,
         MembersTypeOK, Membership
  <2>2. NoMemberBeforeCreation'
    BY <1>1, <1>4 DEF NoMemberBeforeCreation
  <2>3. RowsStay
    BY <2>1 DEF RowsStay
  <2>4. GrantedWithinInviter' /\ AcceptanceIsRecorded'
    BY <1>1, <1>2, <2>3 DEF InvitationInv, GrantedWithinInviter, AcceptanceIsRecorded, RowsStay
  <2>5. AuthorityIsHandedDown'
    <3> SUFFICES ASSUME NEW v \in Users, members'[v].state # "none"
                 PROVE  \/ v = creator /\ members'[v].may = Authorities
                        \/ \E j \in Invitations :
                             /\ invitations'[j].acceptedBy = v
                             /\ invitations'[j].result = "joined"
                             /\ members'[v].may = invitations'[j].may
                             /\ invitations'[j].may \subseteq
                                  members'[invitations'[j].inviter].may
      BY <1>1 DEF AuthorityIsHandedDown
    <3>1. CASE v = u
      BY <1>2, <1>3, <1>6, <2>1, <2>3, <3>1 DEF RowsStay
    <3>2. CASE v # u
      <4>1. members'[v] = members[v]
        BY <2>1, <3>2
      <4>2. CASE v = creator /\ members[v].may = Authorities
        BY <4>1, <4>2
      <4>3. ASSUME NEW j \in Invitations, invitations[j].acceptedBy = v,
                   invitations[j].result = "joined", members[v].may = invitations[j].may
            PROVE  /\ invitations'[j].acceptedBy = v /\ invitations'[j].result = "joined"
                   /\ members'[v].may = invitations'[j].may
                   /\ invitations'[j].may \subseteq members'[invitations'[j].inviter].may
        <5>1. invitations[j].state = "accepted"
          BY <4>3, MembersAssumption DEF InvitationInv, AcceptanceIsRecorded
        <5>2. j # i /\ invitations'[j] = invitations[j]
          BY <1>1, <1>2, <5>1
        <5>3. invitations[j].may \subseteq members'[invitations[j].inviter].may
          BY <2>3, <5>1 DEF InvitationInv, GrantedWithinInviter, RowsStay
        <5> QED BY <4>1, <4>3, <5>2, <5>3
      <4> QED BY <4>1, <4>2, <4>3 DEF InvitationInv, AuthorityIsHandedDown
    <3> QED BY <3>1, <3>2
  <2> QED BY <2>2, <2>4, <2>5 DEF InvitationInv
<1> QED BY <1>5, <1>6
(* A revocation or an expiry changes the state of a pending invitation. *)
LEMMA EndInvitationKeepsInv ==
    ASSUME InvitationInv, TypeOK', NEW i \in Invitations,
           Expire(i) \/ \E u \in Users : RevokeInvitation(u, i)
    PROVE  InvitationInv'
<1>1. /\ members' = members /\ creator' = creator
      /\ invitations[i].state = "pending" /\ invitations'[i].state # "none"
      /\ invitations'[i].inviter = invitations[i].inviter
      /\ invitations'[i].may = invitations[i].may
      /\ invitations'[i].acceptedBy = invitations[i].acceptedBy
      /\ invitations'[i].result = invitations[i].result
      /\ \A j \in Invitations : j # i => invitations'[j] = invitations[j]
  <2>1. invitations[i] \in Invitation
    BY DEF InvitationInv, TypeOK
  <2> QED BY <2>1 DEF InvitationInv, TypeOK, Invitation, RevokeInvitation, Expire
<1>2. RowsStay /\ NoMemberBeforeCreation'
  BY <1>1 DEF InvitationInv, RowsStay, NoMemberBeforeCreation
<1> QED BY <1>1, <1>2, GrantsStay

(* Addresses, submissions and handlers are not part of the chain. *)
LEMMA DeliveryKeepsInv ==
    ASSUME InvitationInv, TypeOK', members' = members, creator' = creator,
           invitations' = invitations
    PROVE  InvitationInv'
  BY DEF InvitationInv, NoMemberBeforeCreation, GrantedWithinInviter,
         AcceptanceIsRecorded, AuthorityIsHandedDown

(* Every step, by the lemma of its action. *)
LEMMA NextKeepsInv == ASSUME InvitationInv, [Next]_vars PROVE InvitationInv'
<1>0. TypeOK'
  BY NextKeepsTypeOK DEF InvitationInv
<1>1. ASSUME NEW u \in Users, NEW e \in Emails, LinkEmail(u, e) \/ UnlinkEmail(u, e)
      PROVE  InvitationInv'
  BY <1>0, <1>1, DeliveryKeepsInv DEF LinkEmail, UnlinkEmail
<1>2. ASSUME NEW h \in Handlers, NEW s \in Submissions,
             \/ ReplaySubmission(h, s)
             \/ \E u \in Users, i \in Invitations : ResendInvitation(h, u, i, s)
      PROVE  InvitationInv'
  BY <1>0, <1>2, DeliveryKeepsInv DEF ReplaySubmission, ResendInvitation
<1>3. ASSUME NEW h \in Handlers,
             SubmitInvitation(h) \/ RecordInvitationSubmission(h) \/ HandlerDies(h)
      PROVE  InvitationInv'
  BY <1>0, <1>3, DeliveryKeepsInv DEF SubmitInvitation, RecordInvitationSubmission, HandlerDies
<1>4. CASE UNCHANGED vars
  BY <1>0, <1>4, DeliveryKeepsInv DEF vars
<1> QED BY <1>0, <1>1, <1>2, <1>3, <1>4, CreateSpaceKeepsInv, RemoveSpaceMemberKeepsInv,
      IssueInvitationKeepsInv, AcceptInvitationKeepsInv, EndInvitationKeepsInv DEF Next

-----------------------------------------------------------------------------
(* The inductive invariant holds in every reachable state. *)
THEOREM Invariance == Spec => []InvitationInv
<1>1. Init => InvitationInv
  <2> SUFFICES ASSUME Init PROVE InvitationInv
    OBVIOUS
  <2>1. TypeOK
    BY MembersAssumption, InvitationsAssumption
    DEF Init, TypeOK, MembersTypeOK, Membership, Invitation, Submission, Handler, IdleHandler
  <2> QED BY <2>1 DEF Init, InvitationInv, NoMemberBeforeCreation, GrantedWithinInviter,
        AcceptanceIsRecorded, AuthorityIsHandedDown
<1> QED BY <1>1, NextKeepsInv, PTL DEF Spec

(* Every authority of a member comes down from the creator through inviters
   who held it: IssueInvitation compares with the locked row of the inviter,
   whose authorities no later step takes away or adds to. *)
THEOREM HandedDown == Spec => []AuthorityIsHandedDown
<1>1. InvitationInv => AuthorityIsHandedDown
  BY DEF InvitationInv
<1> QED BY <1>1, Invariance, PTL

(* A revoked membership row never changes again: AcceptInvitation refuses its
   User, a removal needs an active row, and a Space is created only once. *)
THEOREM RemovalIsFinal == Spec => RemovedMemberStaysOut
<1>1. ASSUME InvitationInv, [Next]_vars, NEW u \in Users, members[u].state = "revoked"
      PROVE  members'[u] = members[u]
  <2>1. ASSUME NEW v \in Users, NEW may, Admit(v, may), v # u
        PROVE  members'[u] = members[u]
    BY <1>1, <2>1 DEF Admit, InvitationInv, TypeOK, MembersTypeOK
  <2>2. ASSUME NEW v \in Users, CreateSpace(v) PROVE members'[u] = members[u]
    BY <1>1, <2>2 DEF CreateSpace, InvitationInv, NoMemberBeforeCreation
  <2>3. ASSUME NEW v \in Users, NEW x \in Users, NEW k \in Keys, RemoveSpaceMember(v, x, k)
        PROVE  members'[u] = members[u]
    BY <1>1, <2>3 DEF RemoveSpaceMember, RemoveMembership, IsActiveMember, InvitationInv,
         TypeOK, MembersTypeOK
  <2>4. ASSUME NEW v \in Users, NEW i \in Invitations, AcceptInvitation(v, i)
        PROVE  members'[u] = members[u]
    BY <1>1, <2>1, <2>4 DEF AcceptInvitation, MayJoin
  <2>5. CASE UNCHANGED members
    BY <2>5
  <2> QED BY <1>1, <2>2, <2>3, <2>4, <2>5 DEF Next, vars, LinkEmail, UnlinkEmail,
        IssueInvitation, ResendInvitation, ReplaySubmission, RevokeInvitation, Expire,
        SubmitInvitation, RecordInvitationSubmission, HandlerDies
<1>2. ASSUME InvitationInv, [Next]_vars
      PROVE  [\A u \in Users : members[u].state = "revoked" => members'[u] = members[u]]_vars
  BY <1>1, <1>2
<1> QED BY <1>2, Invariance, PTL DEF Spec, RemovedMemberStaysOut

(* Acceptance, revocation and expiry race for a pending row; the row of the
   winner stands. *)
THEOREM EndsOnce == Spec => InvitationEndsOnce
<1>1. ASSUME InvitationInv, [Next]_vars, NEW i \in Invitations,
             invitations[i].state \in {"accepted", "revoked", "expired"}
      PROVE  invitations'[i] = invitations[i]
  <2>2. ASSUME NEW h \in Handlers, NEW u \in Users, NEW j \in Invitations,
               NEW s \in Submissions, NEW e \in Emails, NEW may \in SUBSET Authorities,
               IssueInvitation(h, u, j, s, e, may)
        PROVE  invitations'[i] = invitations[i]
    <3>1. j # i
      BY <1>1, <2>2 DEF IssueInvitation
    <3> QED BY <1>1, <2>2, <3>1 DEF IssueInvitation, InvitationInv, TypeOK
  <2>3. ASSUME NEW u \in Users, NEW j \in Invitations,
               RevokeInvitation(u, j) \/ AcceptInvitation(u, j)
        PROVE  invitations'[i] = invitations[i]
    <3>1. j # i
      BY <1>1, <2>3 DEF RevokeInvitation, AcceptInvitation, Acceptable
    <3> QED BY <1>1, <2>3, <3>1 DEF RevokeInvitation, AcceptInvitation, InvitationInv, TypeOK
  <2>4. ASSUME NEW j \in Invitations, Expire(j) PROVE invitations'[i] = invitations[i]
    <3>1. j # i
      BY <1>1, <2>4 DEF Expire
    <3> QED BY <1>1, <2>4, <3>1 DEF Expire, InvitationInv, TypeOK
  <2>5. CASE UNCHANGED invitations
    BY <2>5
  <2> QED BY <1>1, <2>2, <2>3, <2>4, <2>5 DEF Next, vars, CreateSpace, RemoveSpaceMember,
        LinkEmail, UnlinkEmail, ResendInvitation, ReplaySubmission, SubmitInvitation,
        RecordInvitationSubmission, HandlerDies
<1>2. ASSUME InvitationInv, [Next]_vars
      PROVE  [\A i \in Invitations :
                invitations[i].state \in {"accepted", "revoked", "expired"}
                  => invitations'[i] = invitations[i]]_vars
  BY <1>1, <1>2
<1> QED BY <1>2, Invariance, PTL DEF Spec, InvitationEndsOnce

(* RecordSpaceInvitationSubmission writes a prepared row only, and a new
   submission takes an unused one. *)
THEOREM FirstAnswerStands == Spec => DeliveryRecordIsFinal
<1>1. ASSUME InvitationInv, [Next]_vars, NEW s \in Submissions,
             submissions[s].state \in Outcomes
      PROVE  submissions'[s] = submissions[s]
  <2>0. submissions[s].state # "none" /\ submissions[s].state # "prepared"
    BY <1>1 DEF Outcomes
  <2>1. ASSUME NEW x \in Submissions, NEW i \in Invitations, NEW u \in Users,
               InsertSubmission(x, i, u)
        PROVE  submissions'[s] = submissions[s]
    BY <1>1, <2>0, <2>1 DEF InsertSubmission, InvitationInv, TypeOK
  <2>2. ASSUME NEW h \in Handlers, RecordInvitationSubmission(h)
        PROVE  submissions'[s] = submissions[s]
    BY <1>1, <2>0, <2>2 DEF RecordInvitationSubmission, RecordOutcome, InvitationInv, TypeOK
  <2>3. CASE UNCHANGED submissions
    BY <2>3
  <2> QED BY <1>1, <2>1, <2>2, <2>3 DEF Next, vars, CreateSpace, RemoveSpaceMember,
        LinkEmail, UnlinkEmail, IssueInvitation, ResendInvitation, ReplaySubmission,
        RevokeInvitation, AcceptInvitation, Expire, SubmitInvitation, HandlerDies
<1>2. ASSUME InvitationInv, [Next]_vars
      PROVE  [\A s \in Submissions :
                submissions[s].state \in Outcomes => submissions'[s] = submissions[s]]_vars
  BY <1>1, <1>2
<1> QED BY <1>2, Invariance, PTL DEF Spec, DeliveryRecordIsFinal
=============================================================================
