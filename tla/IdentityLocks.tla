---------------------------- MODULE IdentityLocks ---------------------------
(***************************************************************************)
(* The order in which the transactions on Users, login methods and Browser  *)
(* Sessions take their locks.  The key of a method (an email address, an    *)
(* external account) is an advisory lock; the row of the method itself is   *)
(* only locked under it.                                                    *)
(*                                                                         *)
(* An operation may end after any of its locks, so one entry stands for all *)
(* that take a first part of it: to send or refuse a code is the first lock *)
(* of VerifyEmailChallenge, a login by code all but the last, ClaimExternal-*)
(* Login the first lock of CompleteExternalLogin.  A User has one Session   *)
(* here, an address one current code; a link ends all Sessions of the User, *)
(* whose row it holds.  The transactions of LockOrder are not among these.  *)
(***************************************************************************)
EXTENDS RowLocks

CONSTANTS
    Emails,      \* canonical addresses
    Accounts     \* Google and GitHub accounts

User(u) == <<"user", u>>
EmailKey(e) == <<"email key", e>>
EmailIdentity(e) == <<"email identity", e>>
Challenge(e) == <<"challenge", e>>
AccountKey(a) == <<"account key", a>>
AccountIdentity(a) == <<"account identity", a>>
ExternalTransaction(a) == <<"external transaction", a>>
Admission == <<"external login admission", 0>>
ExternalSource == <<"external login source", 0>>
RequestKey == <<"email request key", 0>>
EmailSource == <<"email source", 0>>

-----------------------------------------------------------------------------
(* A new code invalidates the current one; for a link or a renewed proof the
   User and the Session come first. *)
PrepareEmailLogin(e) ==
    <<Lock(RequestKey, Update), Lock(EmailKey(e), Update), Lock(EmailSource, Update),
      Lock(Challenge(e), NoKeyUpdate)>>
PrepareEmailProof(e, u) ==
    <<Lock(User(u), Update), Lock(Session(u), Update)>> \o PrepareEmailLogin(e)

VerifyEmailChallenge(e, u) ==
    <<Lock(Challenge(e), Update), Lock(EmailKey(e), Update), Lock(EmailIdentity(e), Update),
      Lock(User(u), Update), Lock(Session(u), Update)>>

(* Overdue external logins are deleted, of whatever account. *)
CreateExternalLogin(a) ==
    <<Lock(Admission, Update), Lock(ExternalSource, Update),
      Lock(ExternalTransaction(a), Update), Lock(Invitation, KeyShare)>>
CreateExternalIdentityProof(u) == <<Lock(User(u), Update), Lock(Session(u), Update)>>
CompleteExternalLogin(a, u) ==
    <<Lock(ExternalTransaction(a), Update), Lock(AccountKey(a), Update),
      Lock(AccountIdentity(a), Update), Lock(User(u), Update), Lock(Session(u), Update)>>

UnlinkEmail(e, u) ==
    <<Lock(EmailKey(e), Update), Lock(EmailIdentity(e), Update),
      Lock(User(u), Update), Lock(Session(u), Update)>>
UnlinkAccount(a, u) ==
    <<Lock(AccountKey(a), Update), Lock(AccountIdentity(a), Update),
      Lock(User(u), Update), Lock(Session(u), Update)>>
RevokeBrowserSession(u) == <<Lock(Session(u), NoKeyUpdate)>>

CreateSpace(u) == <<Lock(User(u), Update)>>

(* Mutant: the invited User is locked before the address. *)
AcceptByUserFirst(e, u) ==
    <<Lock(User(u), Update), Lock(EmailKey(e), Update), Lock(Session(u), Update),
      Lock(Invitation, Update), Lock(Membership(u), Update)>>
AcceptInvitationOf(e, u) ==
    <<Lock(EmailKey(e), Update), Lock(User(u), Update), Lock(Session(u), Update),
      Lock(Invitation, Update), Lock(Membership(u), Update)>>

-----------------------------------------------------------------------------
NewCodeOperations ==
    {PrepareEmailLogin(e) : e \in Emails}
      \cup {PrepareEmailProof(e, u) : e \in Emails, u \in Users}
MethodOperations ==
    {VerifyEmailChallenge(e, u) : e \in Emails, u \in Users}
      \cup {UnlinkEmail(e, u) : e \in Emails, u \in Users}
      \cup {AcceptInvitationOf(e, u) : e \in Emails, u \in Users}
      \cup {CompleteExternalLogin(a, u) : a \in Accounts, u \in Users}
      \cup {UnlinkAccount(a, u) : a \in Accounts, u \in Users}
      \cup {CreateExternalLogin(a) : a \in Accounts}
UserOperations ==
    UNION {{CreateExternalIdentityProof(u), RevokeBrowserSession(u), CreateSpace(u)} : u \in Users}
IdentityOperations == NewCodeOperations \cup MethodOperations \cup UserOperations
ASSUME NoIdentityOperationAssumption == NoOperation \notin IdentityOperations

IdentityNext == Step(IdentityOperations)
IdentitySpec == Init /\ [][IdentityNext]_vars

-----------------------------------------------------------------------------
(* Logins, links, unlinks, renewed proofs, acceptances and the end of
   Sessions never deadlock among themselves, and neither do requests for
   codes.  A deadlock takes both: PrepareEmailChallenge locks the User before
   the address and the address before its current code, all others the code
   before the address and the address before the User. *)
OnlyNewCodesDeadlock ==
    \A ts \in SUBSET Transactions : Deadlocked(ts) /\ AllRun(ts, IdentityOperations) =>
      /\ \E t \in ts : operation[t] \in NewCodeOperations
      /\ \E t \in ts : operation[t] \notin NewCodeOperations
=============================================================================
