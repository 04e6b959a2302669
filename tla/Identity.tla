------------------------------ MODULE Identity ------------------------------
(***************************************************************************)
(* Users, their login methods, Browser Sessions, and the two ways a method *)
(* is proved: a code sent to an email address and a login at an external   *)
(* provider (Google, GitHub).  A proof is made for a purpose: to log in,   *)
(* to prove an identity again, or to link the method to the User of the    *)
(* Session that began the proof.                                           *)
(*                                                                         *)
(* A transaction that settles a proof holds the advisory lock of the       *)
(* method's key and then the User's row until it commits, and the          *)
(* transaction that unlinks a method takes the same two locks, so each is  *)
(* one step.  What lies between transactions is kept apart: the wait for   *)
(* the code, the redirect to the provider, the exchange with the provider, *)
(* the loss of the answer of a commit and the death of the server.         *)
(*                                                                         *)
(* Requests that only replay an earlier answer (same key, same digest)     *)
(* and requests the code refuses change no row and are not steps.  Every   *)
(* deadline (10 minutes of a recent proof, 30 days of a Session, 5 minutes *)
(* of a code, 10 minutes of an external login) is a step of its own that   *)
(* may come at any time: no property depends on which comes first.         *)
(***************************************************************************)
EXTENDS Naturals, FiniteSets

CONSTANTS
    Users, Emails, GoogleAccounts, GitHubAccounts,
    Sessions,      \* Browser Session ids
    Challenges,    \* email challenge ids, one per request key of a client
    Transactions,  \* external login transaction ids
    MaxAttempts,   \* EmailCodeAttemptLimit
    MaxProofs,     \* bound of the model: proofs begun in a behaviour
    NoUser, NoSession, NoProof

Accounts == GoogleAccounts \cup GitHubAccounts
Methods == Emails \cup Accounts
Kinds == {"email", "google", "github"}
Purposes == {"login", "reauthenticate", "link"}

ASSUME IdentityAssumption ==
    /\ Emails \cap Accounts = {} /\ GoogleAccounts \cap GitHubAccounts = {}
    /\ Challenges \cap Transactions = {} /\ Sessions \cap (Challenges \cup Transactions) = {}
    /\ NoUser \notin Users /\ NoSession \notin Sessions
    /\ NoProof \notin Challenges \cup Transactions \cup Sessions
    /\ MaxAttempts \in Nat \ {0} /\ MaxProofs \in Nat

VARIABLES
    users,         \* carry_users
    owner,         \* email_identities, google_identities, github_identities
    sessions,      \* browser_sessions
    challenges,    \* email_login_challenges
    transactions   \* external_login_transactions, and the callback at work on each

vars == <<users, owner, sessions, challenges, transactions>>

Kind(m) == IF m \in Emails THEN "email"
           ELSE IF m \in GoogleAccounts THEN "google" ELSE "github"

(* A proof names the Challenge or Transaction that a Session came from; a
   Session that replaces another after an unlink names that Session. *)
SessionRow == [state: {"none", "active", "ended"}, user: Users \cup {NoUser},
               proof: Kinds \cup {"none"}, recent: BOOLEAN,
               from: Challenges \cup Transactions \cup Sessions \cup {NoProof}]
ChallengeRow == [state: {"none", "current", "dead", "consumed"},
                 email: Emails \cup {NoProof}, purpose: Purposes,
                 init: Sessions \cup {NoSession}, attempts: 0..MaxAttempts,
                 mail: {"open", "accepted", "rejected"}]
(* "overdue" is an exchange whose time is over, "gone" a transaction that has
   expired before its callback, or whose row has been deleted. *)
TransactionRow == [status: {"none", "prepared", "exchanging", "overdue", "succeeded",
                            "denied", "rejected", "unknown", "gone"},
                   provider: Kinds, purpose: Purposes,
                   init: Sessions \cup {NoSession},
                   handler: {"idle", "proving", "refused", "lost"}]

TypeOK ==
    /\ users \subseteq Users
    /\ owner \in [Methods -> Users \cup {NoUser}]
    /\ sessions \in [Sessions -> SessionRow]
    /\ challenges \in [Challenges -> ChallengeRow]
    /\ transactions \in [Transactions -> TransactionRow]

Init ==
    /\ users = {}
    /\ owner = [m \in Methods |-> NoUser]
    /\ sessions = [s \in Sessions |->
                     [state |-> "none", user |-> NoUser, proof |-> "none",
                      recent |-> FALSE, from |-> NoProof]]
    /\ challenges = [c \in Challenges |->
                       [state |-> "none", email |-> NoProof, purpose |-> "login",
                        init |-> NoSession, attempts |-> 0, mail |-> "open"]]
    /\ transactions = [t \in Transactions |->
                         [status |-> "none", provider |-> "google", purpose |-> "login",
                          init |-> NoSession, handler |-> "idle"]]

-----------------------------------------------------------------------------
(* Methods and Sessions of a User. *)
MethodsOf(u) == {m \in Methods : owner[m] = u}
LinkedOf(u, k) == {m \in MethodsOf(u) : Kind(m) = k}
SessionsOf(u) == {s \in Sessions : sessions[s].user = u /\ sessions[s].state = "active"}

(* loadIdentitySession: the Session is neither revoked nor expired and, when
   the purpose asks for it, its identity was proved within ten minutes. *)
SessionValid(s, requireRecent) ==
    /\ s \in Sessions /\ sessions[s].state = "active"
    /\ requireRecent => sessions[s].recent

(* CreateBrowserSession, after RevokeExactBrowserSession or
   RevokeUserBrowserSessions has ended the Sessions in `gone`. *)
OpenSession(gone, s, u, kind, proof) ==
    /\ sessions[s].state = "none"
    /\ sessions' = [x \in Sessions |->
         IF x = s THEN [state |-> "active", user |-> u, proof |-> kind,
                        recent |-> TRUE, from |-> proof]
         ELSE IF x \in gone THEN [sessions[x] EXCEPT !.state = "ended"]
         ELSE sessions[x]]

ProofsBegun == {c \in Challenges : challenges[c].state # "none"}
                 \cup {t \in Transactions : transactions[t].status # "none"}

(* The client may begin a proof: anyone to log in, otherwise the Session. *)
MayBegin(purpose, s) ==
  /\ Cardinality(ProofsBegun) < MaxProofs
  /\ IF purpose = "login" THEN s = NoSession ELSE SessionValid(s, purpose = "link")

(* Mutant: a proof is judged without looking at the Session that began it again. *)
ProofStandsWithoutSession(m, purpose, s) ==
    CASE purpose = "login" -> TRUE
      [] purpose = "reauthenticate" -> owner[m] = sessions[s].user
      [] purpose = "link" -> /\ LinkedOf(sessions[s].user, Kind(m)) = {}
                             /\ owner[m] = NoUser
(* The proof of method m may be turned into a Session for its purpose. *)
ProofStands(m, purpose, s) ==
    CASE purpose = "login" -> TRUE
      [] purpose = "reauthenticate" -> SessionValid(s, FALSE) /\ owner[m] = sessions[s].user
      [] purpose = "link" -> /\ SessionValid(s, TRUE)
                             /\ LinkedOf(sessions[s].user, Kind(m)) = {}
                             /\ owner[m] = NoUser

(* completeEmailLogin: the method's owner, or a new User who owns it. *)
LogIn(m, s, proof) ==
    \/ /\ owner[m] # NoUser
       /\ OpenSession({}, s, owner[m], Kind(m), proof)
       /\ UNCHANGED <<users, owner>>
    \/ /\ owner[m] = NoUser
       /\ \E u \in Users \ users :
            /\ users' = users \cup {u}
            /\ owner' = [owner EXCEPT ![m] = u]
            /\ OpenSession({}, s, u, Kind(m), proof)

(* completeEmailReauthentication: the Session that began the proof is replaced. *)
Reauthenticate(m, init, s, proof) ==
    /\ OpenSession({init}, s, sessions[init].user, Kind(m), proof)
    /\ UNCHANGED <<users, owner>>

(* completeEmailLink: every Session of the User is replaced by one. *)
Link(m, init, s, proof) ==
    /\ owner' = [owner EXCEPT ![m] = sessions[init].user]
    /\ OpenSession(SessionsOf(sessions[init].user), s, sessions[init].user, Kind(m), proof)
    /\ UNCHANGED users

CompleteProof(m, purpose, init, s, proof) ==
    /\ ProofStands(m, purpose, init)
    /\ \/ purpose = "login" /\ LogIn(m, s, proof)
       \/ purpose = "reauthenticate" /\ Reauthenticate(m, init, s, proof)
       \/ purpose = "link" /\ Link(m, init, s, proof)

-----------------------------------------------------------------------------
(* Email codes *)

(* Mutant: a new code leaves the earlier codes of the address alone. *)
KeepCurrentEmailChallenges(e) == challenges
(* InvalidateCurrentEmailChallenges *)
InvalidateCurrentEmailChallenges(e) ==
    [c \in Challenges |->
       IF challenges[c].email = e /\ challenges[c].state = "current"
         THEN [challenges[c] EXCEPT !.state = "dead"] ELSE challenges[c]]

(* PrepareEmailChallenge with an unused request key. *)
PrepareEmailChallenge(c, e, purpose, s) ==
    /\ challenges[c].state = "none"
    /\ MayBegin(purpose, s)
    /\ purpose = "reauthenticate" => owner[e] = sessions[s].user
    /\ challenges' = [InvalidateCurrentEmailChallenges(e) EXCEPT ![c] =
         [state |-> "current", email |-> e, purpose |-> purpose, init |-> s,
          attempts |-> 0, mail |-> "open"]]
    /\ UNCHANGED <<users, owner, sessions, transactions>>

(* RecordEmailSubmission: what the mail service answered.  "open" stands for
   prepared and unknown alike; both may be submitted and recorded again.  The
   row is also written for a code that is dead or consumed, where nothing
   reads it any more; that write is left out. *)
RecordEmailSubmission(c, answer) ==
    /\ challenges[c].state = "current" /\ challenges[c].mail = "open"
    /\ challenges' = [challenges EXCEPT ![c].mail = answer]
    /\ UNCHANGED <<users, owner, sessions, transactions>>

(* VerifyEmailChallenge: `usable` *)
Usable(c) ==
    /\ challenges[c].state = "current"
    /\ challenges[c].attempts < MaxAttempts
    /\ challenges[c].mail # "rejected"

(* A wrong code spends an attempt. *)
SpendEmailChallengeAttempt(c) ==
    /\ Usable(c)
    /\ challenges' = [challenges EXCEPT ![c].attempts = @ + 1]
    /\ UNCHANGED <<users, owner, sessions, transactions>>

(* ConsumeEmailChallenge *)
ConsumeEmailChallenge(c) == [challenges EXCEPT ![c].state = "consumed"]

(* The right code: the proof is turned into Session s, or the whole
   transaction is rolled back and the Challenge stays as it was. *)
VerifyEmailChallenge(c, s) ==
    /\ Usable(c)
    /\ CompleteProof(challenges[c].email, challenges[c].purpose, challenges[c].init, s, c)
    /\ challenges' = ConsumeEmailChallenge(c)
    /\ UNCHANGED transactions

-----------------------------------------------------------------------------
(* External logins *)

(* CreateExternalLogin deletes the expired transactions first.  (The rows of
   ended transactions are deleted too; only replays read them.) *)
CreateExternalLogin(t, provider) ==
    /\ transactions[t].status = "none"
    /\ MayBegin("login", NoSession)
    /\ transactions' = [x \in Transactions |->
         IF x = t THEN [status |-> "prepared", provider |-> provider, purpose |-> "login",
                        init |-> NoSession, handler |-> "idle"]
         ELSE IF transactions[x].status = "overdue" THEN [transactions[x] EXCEPT !.status = "gone"]
         ELSE transactions[x]]
    /\ UNCHANGED <<users, owner, sessions, challenges>>

CreateExternalIdentityProof(t, provider, purpose, s) ==
    /\ transactions[t].status = "none" /\ purpose # "login"
    /\ MayBegin(purpose, s)
    /\ purpose = "reauthenticate" => LinkedOf(sessions[s].user, provider) # {}
    /\ transactions' = [transactions EXCEPT ![t] =
         [status |-> "prepared", provider |-> provider, purpose |-> purpose,
          init |-> s, handler |-> "idle"]]
    /\ UNCHANGED <<users, owner, sessions, challenges>>

(* ClaimExternalLogin of a prepared transaction: the callback with a code goes
   on to the provider; a refusal or a provider error ends the transaction. *)
ClaimExternalLogin(t, outcome) ==
    /\ transactions[t].status = "prepared"
    /\ transactions' = [transactions EXCEPT ![t] =
         CASE outcome = "code" -> [@ EXCEPT !.status = "exchanging", !.handler = "proving"]
           [] outcome = "denied" -> [@ EXCEPT !.status = "denied"]
           [] outcome = "unavailable" -> [@ EXCEPT !.status = "unknown"]]
    /\ UNCHANGED <<users, owner, sessions, challenges>>

(* ClaimExternalLogin of an exchange whose time is over. *)
ClaimExpiredExchange(t) ==
    /\ transactions[t].status = "overdue"
    /\ transactions' = [transactions EXCEPT ![t].status = "unknown"]
    /\ UNCHANGED <<users, owner, sessions, challenges>>

(* validateExternalCompletion *)
CompletionValid(t) == transactions[t].status = "exchanging"

(* completeExternalProofTransaction.  The commit's answer may be lost; the
   callback then does not know that it has succeeded. *)
CompleteExternalProof(t, a, s) ==
    /\ transactions[t].handler = "proving"
    /\ Kind(a) = transactions[t].provider
    /\ CompletionValid(t)
    /\ CompleteProof(a, transactions[t].purpose, transactions[t].init, s, t)
    /\ \E h \in {"idle", "lost"} :
         transactions' = [transactions EXCEPT ![t].status = "succeeded", ![t].handler = h]
    /\ UNCHANGED challenges

CompleteGoogleLogin(t, a, s) == a \in GoogleAccounts /\ CompleteExternalProof(t, a, s)
CompleteGitHubLogin(t, a, s) == a \in GitHubAccounts /\ CompleteExternalProof(t, a, s)

(* The completion is refused (knownExternalProofRejection), or fails. *)
FailCompletion(t, a) ==
    /\ transactions[t].handler = "proving"
    /\ Kind(a) = transactions[t].provider
    /\ ~ (CompletionValid(t) /\ ProofStands(a, transactions[t].purpose, transactions[t].init))
    /\ transactions' = [transactions EXCEPT ![t].handler =
                          IF CompletionValid(t) THEN "refused" ELSE "lost"]
    /\ UNCHANGED <<users, owner, sessions, challenges>>

(* The provider or the database fails before a completion is committed. *)
LoseExchange(t) ==
    /\ transactions[t].handler = "proving"
    /\ transactions' = [transactions EXCEPT ![t].handler = "lost"]
    /\ UNCHANGED <<users, owner, sessions, challenges>>

(* Mutant: the outcome is written whatever the transaction has become. *)
SettledAnyway(t) ==
    IF transactions[t].handler = "refused" THEN "rejected" ELSE "unknown"
(* RejectExternalLogin and MarkExternalLoginUnknown: only an exchange is ended. *)
SettledStatus(t) ==
    CASE transactions[t].status = "exchanging" ->
           IF transactions[t].handler = "refused" THEN "rejected" ELSE "unknown"
      [] transactions[t].status = "overdue" -> "unknown"
      [] OTHER -> transactions[t].status

(* The end of `complete`: reconcileCompletion claims again, which finds a
   completion that did commit, or expires the exchange; then reject or
   markUnknown. *)
SettleExternalLogin(t) ==
    /\ transactions[t].handler \in {"refused", "lost"}
    /\ transactions' = [transactions EXCEPT ![t].status = SettledStatus(t),
                                            ![t].handler = "idle"]
    /\ UNCHANGED <<users, owner, sessions, challenges>>

(* The server stops while a callback is at work. *)
ServerDies(t) ==
    /\ transactions[t].handler # "idle"
    /\ transactions' = [transactions EXCEPT ![t].handler = "idle"]
    /\ UNCHANGED <<users, owner, sessions, challenges>>

-----------------------------------------------------------------------------
(* Mutant: a method may be unlinked in a Session that it proved. *)
MayUnlinkProvingMethod(s, k) ==
    /\ SessionValid(s, TRUE)
    /\ LinkedOf(sessions[s].user, k) # {}
    /\ Cardinality(MethodsOf(sessions[s].user)) > 1
(* Mutant: neither the number of methods nor the Session's proof is looked at. *)
MayUnlinkAny(s, k) ==
    SessionValid(s, TRUE) /\ LinkedOf(sessions[s].user, k) # {}
(* The checks of UnlinkIdentityMethod, in the order of the code. *)
MayUnlink(s, k) ==
    /\ SessionValid(s, TRUE)
    /\ LinkedOf(sessions[s].user, k) # {}
    /\ Cardinality(MethodsOf(sessions[s].user)) > 1
    /\ sessions[s].proof # k

UnlinkIdentityMethod(s, k, replacement) ==
    /\ MayUnlink(s, k)
    /\ owner' = [m \in Methods |-> IF m \in LinkedOf(sessions[s].user, k) THEN NoUser ELSE owner[m]]
    /\ OpenSession(SessionsOf(sessions[s].user), replacement, sessions[s].user,
                   sessions[s].proof, s)
    /\ UNCHANGED <<users, challenges, transactions>>

(* RevokeBrowserSession, or thirty days have passed. *)
EndBrowserSession(s) ==
    /\ sessions[s].state = "active"
    /\ sessions' = [sessions EXCEPT ![s].state = "ended"]
    /\ UNCHANGED <<users, owner, challenges, transactions>>

(* Ten minutes have passed since the Session's identity was proved. *)
ProofAges(s) ==
    /\ sessions[s].state = "active" /\ sessions[s].recent
    /\ sessions' = [sessions EXCEPT ![s].recent = FALSE]
    /\ UNCHANGED <<users, owner, challenges, transactions>>

ChallengeExpires(c) ==
    /\ challenges[c].state = "current"
    /\ challenges' = [challenges EXCEPT ![c].state = "dead"]
    /\ UNCHANGED <<users, owner, sessions, transactions>>

ExternalLoginExpires(t) ==
    /\ transactions[t].status \in {"prepared", "exchanging"}
    /\ transactions' = [transactions EXCEPT ![t].status =
                          IF @ = "prepared" THEN "gone" ELSE "overdue"]
    /\ UNCHANGED <<users, owner, sessions, challenges>>

-----------------------------------------------------------------------------
EmailNext ==
    \E c \in Challenges :
       \/ \E e \in Emails, p \in Purposes, s \in Sessions \cup {NoSession} :
            PrepareEmailChallenge(c, e, p, s)
       \/ \E answer \in {"accepted", "rejected"} : RecordEmailSubmission(c, answer)
       \/ SpendEmailChallengeAttempt(c)
       \/ \E s \in Sessions : VerifyEmailChallenge(c, s)
       \/ ChallengeExpires(c)

ExternalNext ==
    \E t \in Transactions :
       \/ \E k \in {"google", "github"} : CreateExternalLogin(t, k)
       \/ \E k \in {"google", "github"}, p \in Purposes, s \in Sessions :
            CreateExternalIdentityProof(t, k, p, s)
       \/ \E o \in {"code", "denied", "unavailable"} : ClaimExternalLogin(t, o)
       \/ ClaimExpiredExchange(t)
       \/ \E a \in Accounts, s \in Sessions :
            CompleteGoogleLogin(t, a, s) \/ CompleteGitHubLogin(t, a, s)
       \/ \E a \in Accounts : FailCompletion(t, a)
       \/ LoseExchange(t) \/ SettleExternalLogin(t) \/ ServerDies(t)
       \/ ExternalLoginExpires(t)

SessionNext ==
    \E s \in Sessions :
       \/ \E k \in Kinds, x \in Sessions : UnlinkIdentityMethod(s, k, x)
       \/ EndBrowserSession(s)
       \/ ProofAges(s)

Next == EmailNext \/ ExternalNext \/ SessionNext
Spec == Init /\ [][Next]_vars

-----------------------------------------------------------------------------
(* Every User keeps a login method: links, unlinks and logins race, and an
   unlink counts the methods under the User's lock (ErrLastIdentityMethod). *)
EveryUserCanLogIn == \A u \in users : MethodsOf(u) # {}

(* The method that an active Session was proved with is still linked to the
   Session's User: an unlink ends every Session and its replacement never
   carries the method that was unlinked. *)
SessionProofIsLinked ==
    \A s \in Sessions : sessions[s].state = "active" =>
        LinkedOf(sessions[s].user, sessions[s].proof) # {}

(* A proof that produced a Session is spent and produced no other, whatever
   is replayed, lost, reconciled or expired, and a proof that ended otherwise
   produced none. *)
ProofIsUsedOnce ==
    \A s \in Sessions : LET p == sessions[s].from IN
      /\ p \in Challenges => challenges[p].state = "consumed"
      /\ p \in Transactions => transactions[p].status = "succeeded"
      /\ p # NoProof => \A x \in Sessions \ {s} : sessions[x].from # p

(* At most one code of an email address can still be used. *)
OneUsableCode ==
    \A c, d \in Challenges :
        Usable(c) /\ Usable(d) /\ challenges[c].email = challenges[d].email => c = d

(* A link or a renewed proof changes nothing once the Session that began it
   has ended, for whatever reason it ended while the code or the provider's
   callback was under way. *)
InitOf(p) == IF p \in Challenges THEN challenges[p].init
             ELSE IF p \in Transactions THEN transactions[p].init ELSE p
EndedSessionHasNoSuccessor ==
    [][\A s \in Sessions :
         sessions[s].state = "none" /\ sessions'[s].state = "active" =>
           LET i == InitOf(sessions'[s].from) IN
             i \in Sessions => sessions[i].state = "active" /\ sessions'[i].state = "ended"]_vars

(***************************************************************************)
(* Why: the inductive invariant of IdentityProofs.                          *)
(***************************************************************************)
SessionHasUser ==
    \A s \in Sessions : sessions[s].state # "none" =>
        sessions[s].user \in Users /\ sessions[s].proof \in Kinds
ChallengeHasEmail ==
    \A c \in Challenges : challenges[c].state # "none" => challenges[c].email \in Emails

(* A proof to log in was begun by no Session. *)
LoginHasNoSession ==
    /\ \A c \in Challenges : challenges[c].purpose = "login" => challenges[c].init = NoSession
    /\ \A t \in Transactions :
         transactions[t].purpose = "login" => transactions[t].init = NoSession

(* A Session that was replaced after an unlink has ended. *)
ReplacedSessionEnded ==
    \A s \in Sessions : sessions[s].from \in Sessions =>
        sessions[sessions[s].from].state = "ended"

(* email_login_challenges_current_email_idx *)
OneCurrentCode ==
    \A c, d \in Challenges :
        /\ challenges[c].state = "current" /\ challenges[d].state = "current"
        /\ challenges[c].email = challenges[d].email
        => c = d

IdentityInv ==
    /\ TypeOK
    /\ SessionHasUser
    /\ ChallengeHasEmail
    /\ LoginHasNoSession
    /\ ReplacedSessionEnded
    /\ OneCurrentCode
    /\ EveryUserCanLogIn
    /\ SessionProofIsLinked
    /\ ProofIsUsedOnce
=============================================================================
