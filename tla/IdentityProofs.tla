--------------------------- MODULE IdentityProofs ---------------------------
(***************************************************************************)
(* Theorems about Identity, for every set of Users, methods, Sessions and   *)
(* proofs, and every limit on the attempts of a code.                       *)
(***************************************************************************)
EXTENDS Identity, TLAPS

Proofs == Challenges \cup Transactions

(* Session s is opened and of the others only those in `gone` have ended. *)
SessionOpened(gone, s, u, kind, proof) ==
    /\ sessions[s].state = "none"
    /\ sessions'[s] = [state |-> "active", user |-> u, proof |-> kind,
                       recent |-> TRUE, from |-> proof]
    /\ \A x \in Sessions : x # s =>
         /\ sessions'[x].user = sessions[x].user
         /\ sessions'[x].proof = sessions[x].proof
         /\ sessions'[x].from = sessions[x].from
         /\ sessions'[x].state = IF x \in gone THEN "ended" ELSE sessions[x].state

(* CreateBrowserSession inserts one row and ends the Sessions in `gone`. *)
LEMMA SessionOpens ==
    ASSUME TypeOK, NEW gone, NEW s \in Sessions, NEW u \in Users,
           NEW kind \in Kinds, NEW proof \in Proofs \cup Sessions,
           OpenSession(gone, s, u, kind, proof)
    PROVE  /\ sessions' \in [Sessions -> SessionRow]
           /\ SessionOpened(gone, s, u, kind, proof)
<1> DEFINE new == [state |-> "active", user |-> u, proof |-> kind,
                   recent |-> TRUE, from |-> proof]
<1>0. \A x \in Sessions : sessions[x] \in SessionRow
  BY DEF TypeOK
<1>1. new \in SessionRow
  BY DEF SessionRow, Proofs
<1>2. /\ \A x \in Sessions : [sessions[x] EXCEPT !.state = "ended"] \in SessionRow
      /\ \A x \in Sessions :
           /\ [sessions[x] EXCEPT !.state = "ended"].user = sessions[x].user
           /\ [sessions[x] EXCEPT !.state = "ended"].proof = sessions[x].proof
           /\ [sessions[x] EXCEPT !.state = "ended"].from = sessions[x].from
           /\ [sessions[x] EXCEPT !.state = "ended"].state = "ended"
  BY <1>0 DEF SessionRow
<1>3. sessions[s].state = "none"
  BY DEF OpenSession
<1>4. sessions' = [x \in Sessions |->
         IF x = s THEN new
         ELSE IF x \in gone THEN [sessions[x] EXCEPT !.state = "ended"] ELSE sessions[x]]
  BY DEF OpenSession
<1> HIDE DEF new
<1>5. sessions' \in [Sessions -> SessionRow] /\ sessions'[s] = new
  BY <1>0, <1>1, <1>2, <1>4
<1>6. ASSUME NEW x \in Sessions, x # s
      PROVE  /\ sessions'[x].user = sessions[x].user
             /\ sessions'[x].proof = sessions[x].proof
             /\ sessions'[x].from = sessions[x].from
             /\ sessions'[x].state = IF x \in gone THEN "ended" ELSE sessions[x].state
  <2>1. sessions'[x] = IF x \in gone THEN [sessions[x] EXCEPT !.state = "ended"]
                       ELSE sessions[x]
    BY <1>4, <1>6
  <2> QED BY <1>2, <2>1
<1> QED BY <1>3, <1>5, <1>6 DEF new, SessionOpened

(***************************************************************************)
(* What a completed proof of method m by Session `init` does: Session s is   *)
(* opened for User u, who owns m now; Sessions it replaces were active; the  *)
(* Session that began a renewal or a link was active and has ended.          *)
(***************************************************************************)
ProofCompleted(m, purpose, init, s, proof, u) ==
    /\ sessions[s].state = "none"
    /\ sessions'[s] = [state |-> "active", user |-> u, proof |-> Kind(m),
                       recent |-> TRUE, from |-> proof]
    /\ \A x \in Sessions : x # s =>
         /\ sessions'[x].user = sessions[x].user
         /\ sessions'[x].proof = sessions[x].proof
         /\ sessions'[x].from = sessions[x].from
         /\ \/ sessions'[x].state = sessions[x].state
            \/ sessions[x].state = "active" /\ sessions'[x].state = "ended"
    /\ owner'[m] = u /\ owner[m] \in {u, NoUser}
    /\ \A n \in Methods : n # m => owner'[n] = owner[n]
    /\ users' \subseteq users \cup {u}
    /\ purpose # "login" =>
         init \in Sessions /\ sessions[init].state = "active" /\ sessions'[init].state = "ended"

(* What CompleteProof does to the Sessions and the methods, for each purpose. *)
LEMMA CompletesProof ==
    ASSUME TypeOK, SessionHasUser, NEW m \in Methods, NEW purpose \in Purposes,
           NEW init \in Sessions \cup {NoSession}, NEW s \in Sessions,
           NEW proof \in Proofs, CompleteProof(m, purpose, init, s, proof)
    PROVE  /\ sessions' \in [Sessions -> SessionRow]
           /\ owner' \in [Methods -> Users \cup {NoUser}] /\ users' \subseteq Users
           /\ \E u \in Users : ProofCompleted(m, purpose, init, s, proof, u)
<1>0. Kind(m) \in Kinds /\ proof \in Proofs \cup Sessions /\ owner[m] \in Users \cup {NoUser}
  BY DEF Kind, Kinds, TypeOK
<1>1. CASE purpose = "login" /\ owner[m] # NoUser
  <2>1. OpenSession({}, s, owner[m], Kind(m), proof) /\ users' = users /\ owner' = owner
    BY <1>1 DEF CompleteProof, LogIn
  <2>2. owner[m] \in Users
    BY <1>0, <1>1
  <2>3. /\ sessions' \in [Sessions -> SessionRow]
        /\ SessionOpened({}, s, owner[m], Kind(m), proof)
    BY <1>0, <2>1, <2>2, SessionOpens
  <2>4. ProofCompleted(m, purpose, init, s, proof, owner[m])
    BY <1>1, <2>1, <2>3 DEF ProofCompleted, SessionOpened
  <2> QED BY <2>1, <2>2, <2>3, <2>4 DEF TypeOK
<1>2. CASE purpose = "login" /\ owner[m] = NoUser
  <2>1. PICK u \in Users \ users :
          /\ users' = users \cup {u}
          /\ owner' = [owner EXCEPT ![m] = u]
          /\ OpenSession({}, s, u, Kind(m), proof)
    BY <1>2 DEF CompleteProof, LogIn
  <2>2. owner' \in [Methods -> Users \cup {NoUser}] /\ users' \subseteq Users
        /\ owner'[m] = u /\ \A n \in Methods : n # m => owner'[n] = owner[n]
    BY <2>1 DEF TypeOK
  <2>3. /\ sessions' \in [Sessions -> SessionRow]
        /\ SessionOpened({}, s, u, Kind(m), proof)
    BY <1>0, <2>1, SessionOpens
  <2>4. ProofCompleted(m, purpose, init, s, proof, u)
    BY <1>2, <2>1, <2>2, <2>3 DEF ProofCompleted, SessionOpened
  <2> QED BY <2>1, <2>2, <2>3, <2>4
<1>3. CASE purpose = "reauthenticate"
  <2>1. /\ init \in Sessions /\ sessions[init].state = "active"
        /\ owner[m] = sessions[init].user
        /\ OpenSession({init}, s, sessions[init].user, Kind(m), proof)
        /\ users' = users /\ owner' = owner
    BY <1>3 DEF CompleteProof, ProofStands, SessionValid, Reauthenticate
  <2>2. sessions[init].user \in Users
    BY <2>1 DEF SessionHasUser
  <2>3. /\ sessions' \in [Sessions -> SessionRow]
        /\ SessionOpened({init}, s, sessions[init].user, Kind(m), proof)
    BY <1>0, <2>1, <2>2, SessionOpens
  <2>4. ProofCompleted(m, purpose, init, s, proof, sessions[init].user)
    BY <1>3, <2>1, <2>3 DEF ProofCompleted, SessionOpened
  <2> QED BY <2>1, <2>2, <2>3, <2>4 DEF TypeOK
<1>4. CASE purpose = "link"
  <2>u. PICK u : u = sessions[init].user
    OBVIOUS
  <2>1. /\ init \in Sessions /\ sessions[init].state = "active"
        /\ owner[m] = NoUser
        /\ owner' = [owner EXCEPT ![m] = u] /\ users' = users
        /\ OpenSession(SessionsOf(u), s, u, Kind(m), proof)
    BY <1>4, <2>u DEF CompleteProof, ProofStands, SessionValid, Link
  <2>2. u \in Users
    BY <2>1, <2>u DEF SessionHasUser
  <2>3. owner' \in [Methods -> Users \cup {NoUser}]
        /\ owner'[m] = u /\ \A n \in Methods : n # m => owner'[n] = owner[n]
    BY <2>1, <2>2 DEF TypeOK
  <2>4. /\ sessions' \in [Sessions -> SessionRow]
        /\ SessionOpened(SessionsOf(u), s, u, Kind(m), proof)
    BY <1>0, <2>1, <2>2, SessionOpens
  <2>5. ProofCompleted(m, purpose, init, s, proof, u)
    <3>1. init \in SessionsOf(u) /\ \A x \in SessionsOf(u) : sessions[x].state = "active"
      BY <2>1, <2>u DEF SessionsOf
    <3> QED BY <1>4, <2>1, <2>3, <2>4, <3>1 DEF ProofCompleted, SessionOpened
  <2> QED BY <2>1, <2>2, <2>3, <2>4, <2>5 DEF TypeOK
<1> QED BY <1>1, <1>2, <1>3, <1>4 DEF Purposes
-----------------------------------------------------------------------------
(* The part of the invariant about Users, methods and Sessions. *)
AccountsInv ==
    /\ SessionHasUser
    /\ ReplacedSessionEnded
    /\ EveryUserCanLogIn
    /\ SessionProofIsLinked

(* A completed proof takes no method away from anyone. *)
LEMMA ProofKeepsAccounts ==
    ASSUME TypeOK, AccountsInv, NEW m \in Methods, NEW purpose \in Purposes,
           NEW init \in Sessions \cup {NoSession}, NEW s \in Sessions,
           NEW proof \in Proofs, NEW u \in Users,
           ProofCompleted(m, purpose, init, s, proof, u)
    PROVE  AccountsInv'
<1> USE IdentityAssumption
<1>1. /\ sessions'[s].state = "active" /\ sessions'[s].user = u
      /\ sessions'[s].proof = Kind(m) /\ sessions'[s].from = proof
      /\ Kind(m) \in Kinds /\ proof \notin Sessions
  BY DEF ProofCompleted, Kind, Kinds, Proofs
<1>2. \A n \in Methods, v \in Users : owner[n] = v => owner'[n] = v
  BY DEF ProofCompleted
<1>3. \A x \in Sessions : x # s =>
        /\ sessions'[x].user = sessions[x].user
        /\ sessions'[x].proof = sessions[x].proof
        /\ sessions'[x].from = sessions[x].from
        /\ \/ sessions'[x].state = sessions[x].state
           \/ sessions[x].state = "active" /\ sessions'[x].state = "ended"
  BY DEF ProofCompleted
<1>4. SessionHasUser'
  BY <1>1, <1>3 DEF AccountsInv, SessionHasUser
<1>5. ReplacedSessionEnded'
  <2>1. sessions[s].state = "none"
    BY DEF ProofCompleted
  <2> QED BY <1>1, <1>3, <2>1 DEF AccountsInv, ReplacedSessionEnded
<1>6. EveryUserCanLogIn'
  <2> SUFFICES ASSUME NEW v \in users' PROVE MethodsOf(v)' # {}
    BY DEF EveryUserCanLogIn
  <2>1. CASE v = u
    BY <2>1 DEF ProofCompleted, MethodsOf
  <2>2. CASE v # u
    <3>1. v \in users /\ v \in Users
      BY <2>2 DEF ProofCompleted, TypeOK
    <3>2. PICK n \in Methods : owner[n] = v
      BY <3>1 DEF AccountsInv, EveryUserCanLogIn, MethodsOf
    <3> QED BY <1>2, <3>1, <3>2 DEF MethodsOf
  <2> QED BY <2>1, <2>2
<1>7. SessionProofIsLinked'
  <2> SUFFICES ASSUME NEW x \in Sessions, sessions'[x].state = "active"
               PROVE  \E n \in Methods : owner'[n] = sessions'[x].user
                                         /\ Kind(n) = sessions'[x].proof
    BY DEF SessionProofIsLinked, LinkedOf, MethodsOf
  <2>1. CASE x = s
    BY <1>1, <2>1 DEF ProofCompleted
  <2>2. CASE x # s
    <3>1. /\ sessions[x].state = "active" /\ sessions'[x].user = sessions[x].user
          /\ sessions'[x].proof = sessions[x].proof
      BY <1>3, <2>2
    <3>2. PICK n \in Methods : owner[n] = sessions[x].user /\ Kind(n) = sessions[x].proof
      BY <3>1 DEF AccountsInv, SessionProofIsLinked, LinkedOf, MethodsOf
    <3>3. sessions[x].user \in Users
      BY <3>1 DEF AccountsInv, SessionHasUser
    <3> QED BY <1>2, <3>1, <3>2, <3>3
  <2> QED BY <2>1, <2>2
<1> QED BY <1>4, <1>5, <1>6, <1>7 DEF AccountsInv

(* An unlink leaves the method that proved the Session, ends every Session of
   the User and opens one that carries that proof. *)
LEMMA UnlinkEffect ==
    ASSUME TypeOK, AccountsInv, NEW s \in Sessions, NEW k \in Kinds,
           NEW r \in Sessions, UnlinkIdentityMethod(s, k, r)
    PROVE  /\ sessions[s].state = "active" /\ sessions[s].user \in Users
           /\ sessions[s].proof \in Kinds /\ sessions[s].proof # k
           /\ sessions' \in [Sessions -> SessionRow]
           /\ SessionOpened(SessionsOf(sessions[s].user), r, sessions[s].user,
                            sessions[s].proof, s)
           /\ owner' \in [Methods -> Users \cup {NoUser}] /\ users' = users
           /\ \A n \in Methods :
                \/ owner'[n] = owner[n]
                \/ owner[n] = sessions[s].user /\ Kind(n) = k
<1>1. sessions[s].state = "active" /\ sessions[s].proof # k
  BY DEF UnlinkIdentityMethod, MayUnlink, SessionValid
<1>2. sessions[s].user \in Users /\ sessions[s].proof \in Kinds
  BY <1>1 DEF AccountsInv, SessionHasUser
<1>3. /\ sessions' \in [Sessions -> SessionRow]
      /\ SessionOpened(SessionsOf(sessions[s].user), r, sessions[s].user,
                       sessions[s].proof, s)
  <2>1. s \in Proofs \cup Sessions
    OBVIOUS
  <2> QED BY <1>2, <2>1, SessionOpens DEF UnlinkIdentityMethod
<1>4. /\ owner' \in [Methods -> Users \cup {NoUser}] /\ users' = users
      /\ \A n \in Methods : \/ owner'[n] = owner[n]
                            \/ owner[n] = sessions[s].user /\ Kind(n) = k
  BY DEF UnlinkIdentityMethod, TypeOK, LinkedOf, MethodsOf
<1> QED BY <1>1, <1>2, <1>3, <1>4

(* Unlinking ends the Sessions of the User and opens one whose proof is a
   method that stays linked. *)
LEMMA UnlinkKeepsAccounts ==
    ASSUME TypeOK, AccountsInv, NEW s \in Sessions, NEW k \in Kinds,
           NEW r \in Sessions, UnlinkIdentityMethod(s, k, r)
    PROVE  AccountsInv'
<1>u. PICK u : u = sessions[s].user
  OBVIOUS
<1>p. PICK p : p = sessions[s].proof
  OBVIOUS
<1>1. /\ sessions[s].state = "active" /\ u \in Users /\ p \in Kinds /\ p # k
      /\ SessionOpened(SessionsOf(u), r, u, p, s) /\ users' = users
      /\ \A n \in Methods :
           \/ owner'[n] = owner[n]
           \/ owner[n] = u /\ Kind(n) = k
  BY <1>u, <1>p, UnlinkEffect
<1>2. /\ sessions[r].state = "none"
      /\ sessions'[r].state = "active" /\ sessions'[r].user = u
      /\ sessions'[r].proof = p /\ sessions'[r].from = s
      /\ \A x \in Sessions : x # r =>
           /\ sessions'[x].user = sessions[x].user
           /\ sessions'[x].proof = sessions[x].proof
           /\ sessions'[x].from = sessions[x].from
           /\ sessions'[x].state = IF x \in SessionsOf(u) THEN "ended" ELSE sessions[x].state
  BY <1>1 DEF SessionOpened
<1>3. \A x : x \in SessionsOf(u) <=>
             x \in Sessions /\ sessions[x].user = u /\ sessions[x].state = "active"
  BY DEF SessionsOf
<1>4. PICK kept \in Methods : owner[kept] = u /\ Kind(kept) = p
  BY <1>1, <1>u, <1>p DEF AccountsInv, SessionProofIsLinked, LinkedOf, MethodsOf
<1>5. owner'[kept] = u
  BY <1>1, <1>4
<1>6. SessionHasUser'
  BY <1>1, <1>2, <1>3 DEF AccountsInv, SessionHasUser
<1>7. ReplacedSessionEnded'
  <2> SUFFICES ASSUME NEW x \in Sessions, sessions'[x].from \in Sessions
               PROVE  sessions'[sessions'[x].from].state = "ended"
    BY DEF ReplacedSessionEnded
  <2>1. CASE x = r
    BY <1>1, <1>2, <1>3, <1>u, <2>1
  <2>2. CASE x # r
    <3>1. sessions'[x].from = sessions[x].from /\ sessions[sessions[x].from].state = "ended"
      BY <1>2, <2>2 DEF AccountsInv, ReplacedSessionEnded
    <3> QED BY <1>2, <3>1
  <2> QED BY <2>1, <2>2
<1>8. EveryUserCanLogIn'
  <2> SUFFICES ASSUME NEW v \in users PROVE \E n \in Methods : owner'[n] = v
    BY <1>1 DEF EveryUserCanLogIn, MethodsOf
  <2>1. PICK n \in Methods : owner[n] = v
    BY DEF AccountsInv, EveryUserCanLogIn, MethodsOf
  <2> QED BY <1>1, <1>5, <2>1
<1>9. SessionProofIsLinked'
  <2> SUFFICES ASSUME NEW x \in Sessions, sessions'[x].state = "active"
               PROVE  \E n \in Methods : owner'[n] = sessions'[x].user
                                         /\ Kind(n) = sessions'[x].proof
    BY DEF SessionProofIsLinked, LinkedOf, MethodsOf
  <2>1. CASE x = r
    BY <1>2, <1>4, <1>5, <2>1
  <2>2. CASE x # r
    <3>1. /\ sessions[x].state = "active" /\ sessions[x].user # u
          /\ sessions'[x].user = sessions[x].user
          /\ sessions'[x].proof = sessions[x].proof
      BY <1>2, <1>3, <2>2
    <3>2. PICK n \in Methods : owner[n] = sessions[x].user /\ Kind(n) = sessions[x].proof
      BY <3>1 DEF AccountsInv, SessionProofIsLinked, LinkedOf, MethodsOf
    <3> QED BY <1>1, <3>1, <3>2
  <2> QED BY <2>1, <2>2
<1> QED BY <1>6, <1>7, <1>8, <1>9 DEF AccountsInv

(* The end of a Session, or of the time of its proof, opens nothing. *)
LEMMA SessionAgesKeepsAccounts ==
    ASSUME TypeOK, AccountsInv, users' = users, owner' = owner,
           NEW s \in Sessions, sessions[s].state = "active",
           \/ sessions' = [sessions EXCEPT ![s].state = "ended"]
           \/ sessions' = [sessions EXCEPT ![s].recent = FALSE]
    PROVE  /\ AccountsInv' /\ sessions' \in [Sessions -> SessionRow]
           /\ \A x \in Sessions :
                /\ sessions'[x].from = sessions[x].from
                /\ sessions[x].state = "none" => sessions'[x].state = "none"
<1>0. \A x \in Sessions : sessions[x] \in SessionRow
  BY DEF TypeOK
<1>1. /\ sessions' \in [Sessions -> SessionRow]
      /\ \A x \in Sessions :
           /\ sessions'[x].user = sessions[x].user
           /\ sessions'[x].proof = sessions[x].proof
           /\ sessions'[x].from = sessions[x].from
           /\ \/ sessions'[x].state = sessions[x].state
              \/ sessions[x].state = "active" /\ sessions'[x].state = "ended"
  <2>1. CASE sessions' = [sessions EXCEPT ![s].state = "ended"]
    BY <1>0, <2>1 DEF TypeOK, SessionRow
  <2>2. CASE sessions' = [sessions EXCEPT ![s].recent = FALSE]
    BY <1>0, <2>2 DEF TypeOK, SessionRow
  <2> QED BY <2>1, <2>2
<1>2. SessionHasUser' /\ ReplacedSessionEnded'
  BY <1>1 DEF AccountsInv, SessionHasUser, ReplacedSessionEnded
<1>3. EveryUserCanLogIn' /\ SessionProofIsLinked'
  BY <1>1 DEF AccountsInv, EveryUserCanLogIn, SessionProofIsLinked, LinkedOf, MethodsOf
<1> QED BY <1>1, <1>2, <1>3 DEF AccountsInv
-----------------------------------------------------------------------------
(* The part about codes: what a Challenge carries, and which are current. *)
CodesInv ==
    /\ ChallengeHasEmail
    /\ OneCurrentCode
    /\ \A c \in Challenges : challenges[c].purpose = "login" => challenges[c].init = NoSession

(* A consumed code and a succeeded external login stay so. *)
SpentStaySpent ==
    /\ \A c \in Challenges :
         challenges[c].state = "consumed" => challenges'[c].state = "consumed"
    /\ \A t \in Transactions :
         transactions[t].status = "succeeded" => transactions'[t].status = "succeeded"

(* A new code takes the place of the current code of its address. *)
LEMMA PrepareKeepsCodes ==
    ASSUME TypeOK, CodesInv, NEW c \in Challenges, NEW e \in Emails,
           NEW p \in Purposes, NEW s \in Sessions \cup {NoSession},
           PrepareEmailChallenge(c, e, p, s)
    PROVE  /\ CodesInv' /\ challenges' \in [Challenges -> ChallengeRow]
           /\ \A d \in Challenges :
                challenges[d].state = "consumed" => challenges'[d].state = "consumed"
<1> DEFINE new == [state |-> "current", email |-> e, purpose |-> p, init |-> s,
                   attempts |-> 0, mail |-> "open"]
           kept == InvalidateCurrentEmailChallenges(e)
<1>0. \A d \in Challenges : challenges[d] \in ChallengeRow
  BY DEF TypeOK
<1>1. new \in ChallengeRow
  BY IdentityAssumption DEF ChallengeRow
<1>2. p = "login" => s = NoSession
  BY DEF PrepareEmailChallenge, MayBegin
<1>3. challenges' = [kept EXCEPT ![c] = new] /\ challenges[c].state = "none"
  BY DEF PrepareEmailChallenge
<1>4. \A d \in Challenges :
        /\ kept[d] \in ChallengeRow
        /\ kept[d].email = challenges[d].email
        /\ kept[d].purpose = challenges[d].purpose
        /\ kept[d].init = challenges[d].init
        /\ kept[d].state = IF challenges[d].email = e /\ challenges[d].state = "current"
                           THEN "dead" ELSE challenges[d].state
  <2> TAKE d \in Challenges
  <2>1. kept[d] = IF challenges[d].email = e /\ challenges[d].state = "current"
                  THEN [challenges[d] EXCEPT !.state = "dead"] ELSE challenges[d]
    BY DEF InvalidateCurrentEmailChallenges
  <2> HIDE DEF kept
  <2> QED BY <1>0, <2>1 DEF ChallengeRow
<1>5. kept \in [Challenges -> ChallengeRow]
  BY <1>4 DEF InvalidateCurrentEmailChallenges
<1>6. /\ new.state = "current" /\ new.email = e /\ new.purpose = p /\ new.init = s
  OBVIOUS
<1> HIDE DEF new, kept
<1>7. /\ challenges' \in [Challenges -> ChallengeRow]
      /\ challenges'[c] = new
      /\ \A d \in Challenges : d # c => challenges'[d] = kept[d]
  BY <1>1, <1>3, <1>5
<1>8. ChallengeHasEmail'
  BY <1>4, <1>6, <1>7 DEF CodesInv, ChallengeHasEmail
<1>9. OneCurrentCode'
  BY <1>4, <1>6, <1>7 DEF CodesInv, OneCurrentCode
<1>10. \A d \in Challenges : challenges'[d].purpose = "login" => challenges'[d].init = NoSession
  BY <1>2, <1>4, <1>6, <1>7 DEF CodesInv
<1>11. \A d \in Challenges : challenges[d].state = "consumed" => challenges'[d].state = "consumed"
  BY <1>3, <1>4, <1>7
<1> QED BY <1>7, <1>8, <1>9, <1>10, <1>11 DEF CodesInv

(* The answer of the mail service, a wrong code, the right code and the end
   of its time change a current code only, and make none current. *)
LEMMA CurrentCodeMoves ==
    ASSUME TypeOK, CodesInv, NEW c \in Challenges, challenges[c].state = "current",
           \/ \E answer \in {"accepted", "rejected"} :
                challenges' = [challenges EXCEPT ![c].mail = answer]
           \/ /\ challenges[c].attempts < MaxAttempts
              /\ challenges' = [challenges EXCEPT ![c].attempts = @ + 1]
           \/ challenges' = ConsumeEmailChallenge(c)
           \/ challenges' = [challenges EXCEPT ![c].state = "dead"]
    PROVE  /\ CodesInv' /\ challenges' \in [Challenges -> ChallengeRow]
           /\ \A d \in Challenges :
                challenges[d].state = "consumed" => challenges'[d].state = "consumed"
<1>0. challenges[c] \in ChallengeRow /\ MaxAttempts \in Nat
  BY IdentityAssumption DEF TypeOK
<1>1. PICK row \in ChallengeRow :
        /\ challenges' = [challenges EXCEPT ![c] = row]
        /\ row.email = challenges[c].email /\ row.purpose = challenges[c].purpose
        /\ row.init = challenges[c].init
  <2>1. ASSUME NEW answer \in {"accepted", "rejected"},
               challenges' = [challenges EXCEPT ![c].mail = answer]
        PROVE  \E row \in ChallengeRow :
                 /\ challenges' = [challenges EXCEPT ![c] = row]
                 /\ row.email = challenges[c].email /\ row.purpose = challenges[c].purpose
                 /\ row.init = challenges[c].init
    <3> [challenges[c] EXCEPT !.mail = answer] \in ChallengeRow
      BY <1>0, <2>1 DEF ChallengeRow
    <3> WITNESS [challenges[c] EXCEPT !.mail = answer] \in ChallengeRow
    <3> QED BY <1>0, <2>1 DEF ChallengeRow
  <2>2. ASSUME challenges[c].attempts < MaxAttempts,
               challenges' = [challenges EXCEPT ![c].attempts = @ + 1]
        PROVE  \E row \in ChallengeRow :
                 /\ challenges' = [challenges EXCEPT ![c] = row]
                 /\ row.email = challenges[c].email /\ row.purpose = challenges[c].purpose
                 /\ row.init = challenges[c].init
    <3>1. challenges[c].attempts + 1 \in 0 .. MaxAttempts
      BY <1>0, <2>2 DEF ChallengeRow
    <3> [challenges[c] EXCEPT !.attempts = challenges[c].attempts + 1] \in ChallengeRow
      BY <1>0, <2>2, <3>1 DEF ChallengeRow
    <3> WITNESS [challenges[c] EXCEPT !.attempts = challenges[c].attempts + 1] \in ChallengeRow
    <3> QED BY <1>0, <2>2, <3>1 DEF ChallengeRow
  <2>3. ASSUME NEW state \in {"consumed", "dead"},
               challenges' = [challenges EXCEPT ![c].state = state]
        PROVE  \E row \in ChallengeRow :
                 /\ challenges' = [challenges EXCEPT ![c] = row]
                 /\ row.email = challenges[c].email /\ row.purpose = challenges[c].purpose
                 /\ row.init = challenges[c].init
    <3> [challenges[c] EXCEPT !.state = state] \in ChallengeRow
      BY <1>0, <2>3 DEF ChallengeRow
    <3> WITNESS [challenges[c] EXCEPT !.state = state] \in ChallengeRow
    <3> QED BY <1>0, <2>3 DEF ChallengeRow
  <2> QED BY <2>1, <2>2, <2>3 DEF ConsumeEmailChallenge
<1>2. /\ challenges' \in [Challenges -> ChallengeRow]
      /\ challenges'[c] = row
      /\ \A d \in Challenges : d # c => challenges'[d] = challenges[d]
  BY <1>1 DEF TypeOK
<1>3. ChallengeHasEmail' /\ OneCurrentCode'
  BY <1>1, <1>2 DEF CodesInv, ChallengeHasEmail, OneCurrentCode
<1>4. \A d \in Challenges : challenges'[d].purpose = "login" => challenges'[d].init = NoSession
  BY <1>1, <1>2 DEF CodesInv
<1> QED BY <1>2, <1>3, <1>4 DEF CodesInv
(* The part of LoginHasNoSession about external logins. *)
LoginsInv ==
    \A t \in Transactions : transactions[t].purpose = "login" => transactions[t].init = NoSession

(* A new external login has no Session; overdue rows are deleted, a
   succeeded one never is. *)
LEMMA CreateExternalLoginKeepsLogins ==
    ASSUME TypeOK, LoginsInv, NEW t \in Transactions, NEW k \in {"google", "github"},
           CreateExternalLogin(t, k)
    PROVE  /\ LoginsInv' /\ transactions' \in [Transactions -> TransactionRow]
           /\ \A x \in Transactions :
                transactions[x].status = "succeeded" => transactions'[x].status = "succeeded"
<1> DEFINE new == [status |-> "prepared", provider |-> k, purpose |-> "login",
                   init |-> NoSession, handler |-> "idle"]
<1>0. \A x \in Transactions : transactions[x] \in TransactionRow
  BY DEF TypeOK
<1>1. new \in TransactionRow
  BY DEF TransactionRow, Kinds, Purposes
<1>2. transactions[t].status = "none"
  BY DEF CreateExternalLogin
<1>3. transactions' = [x \in Transactions |->
        IF x = t THEN new
        ELSE IF transactions[x].status = "overdue" THEN [transactions[x] EXCEPT !.status = "gone"]
        ELSE transactions[x]]
  BY DEF CreateExternalLogin
<1>4. new.purpose = "login" /\ new.init = NoSession
  OBVIOUS
<1>5. \A x \in Transactions :
        /\ [transactions[x] EXCEPT !.status = "gone"] \in TransactionRow
        /\ [transactions[x] EXCEPT !.status = "gone"].purpose = transactions[x].purpose
        /\ [transactions[x] EXCEPT !.status = "gone"].init = transactions[x].init
  BY <1>0 DEF TransactionRow
<1> HIDE DEF new
<1> QED BY <1>0, <1>1, <1>2, <1>3, <1>4, <1>5 DEF LoginsInv

(* Every other step on a transaction replaces its row; a succeeded one only
   changes what its callback is doing. *)
LEMMA RowMoves ==
    ASSUME TypeOK, LoginsInv, NEW t \in Transactions, NEW row \in TransactionRow,
           transactions' = [transactions EXCEPT ![t] = row],
           row.purpose = "login" => row.init = NoSession,
           transactions[t].status = "succeeded" => row.status = "succeeded"
    PROVE  /\ LoginsInv' /\ transactions' \in [Transactions -> TransactionRow]
           /\ \A x \in Transactions :
                transactions[x].status = "succeeded" => transactions'[x].status = "succeeded"
<1>1. /\ transactions' \in [Transactions -> TransactionRow]
      /\ transactions'[t] = row
      /\ \A x \in Transactions : x # t => transactions'[x] = transactions[x]
  BY DEF TypeOK
<1> QED BY <1>1 DEF LoginsInv

(* Every other step of an external login keeps its purpose and its Session,
   and what has succeeded stays so. *)
LEMMA ExternalStepKeepsLogins ==
    ASSUME TypeOK, LoginsInv, NEW t \in Transactions,
           \/ \E k \in {"google", "github"}, p \in Purposes, s \in Sessions :
                CreateExternalIdentityProof(t, k, p, s)
           \/ \E o \in {"code", "denied", "unavailable"} : ClaimExternalLogin(t, o)
           \/ ClaimExpiredExchange(t)
           \/ \E a \in Accounts, s \in Sessions : CompleteExternalProof(t, a, s)
           \/ \E a \in Accounts : FailCompletion(t, a)
           \/ LoseExchange(t) \/ SettleExternalLogin(t) \/ ServerDies(t)
           \/ ExternalLoginExpires(t)
    PROVE  /\ LoginsInv' /\ transactions' \in [Transactions -> TransactionRow]
           /\ \A x \in Transactions :
                transactions[x].status = "succeeded" => transactions'[x].status = "succeeded"
<1> DEFINE old == transactions[t]
           Goal == \E row \in TransactionRow :
                     /\ transactions' = [transactions EXCEPT ![t] = row]
                     /\ row.purpose = "login" => row.init = NoSession
                     /\ old.status = "succeeded" => row.status = "succeeded"
<1> SUFFICES Goal
  BY RowMoves
<1>0. old \in TransactionRow /\ (old.purpose = "login" => old.init = NoSession)
  BY DEF TypeOK, LoginsInv
<1>1. ASSUME NEW status \in {"exchanging", "denied", "unknown", "overdue", "gone", "succeeded",
                             "rejected", old.status},
             NEW handler \in {"idle", "proving", "refused", "lost"},
             transactions' = [transactions EXCEPT ![t] =
                               [old EXCEPT !.status = status, !.handler = handler]],
             old.status = "succeeded" => status = "succeeded"
      PROVE  Goal
  <2>1. [old EXCEPT !.status = status, !.handler = handler] \in TransactionRow
    BY <1>0 DEF TransactionRow
  <2>2. /\ [old EXCEPT !.status = status, !.handler = handler].purpose = old.purpose
        /\ [old EXCEPT !.status = status, !.handler = handler].init = old.init
        /\ [old EXCEPT !.status = status, !.handler = handler].status = status
    BY <1>0 DEF TransactionRow
  <2> QED BY <1>0, <1>1, <2>1, <2>2
<1>2. /\ [old EXCEPT !.status = old.status] = old
      /\ \A st : /\ [old EXCEPT !.status = st] = [old EXCEPT !.status = st, !.handler = old.handler]
                 /\ [old EXCEPT !.handler = st] = [old EXCEPT !.status = old.status, !.handler = st]
      /\ old.handler \in {"idle", "proving", "refused", "lost"}
  BY <1>0 DEF TransactionRow
<1>3. ASSUME NEW k \in {"google", "github"}, NEW p \in Purposes, NEW s \in Sessions,
             CreateExternalIdentityProof(t, k, p, s)
      PROVE  Goal
  <2> DEFINE new == [status |-> "prepared", provider |-> k, purpose |-> p, init |-> s,
                     handler |-> "idle"]
  <2>1. new \in TransactionRow
    BY DEF TransactionRow, Kinds
  <2>2. /\ transactions' = [transactions EXCEPT ![t] = new]
        /\ p # "login" /\ old.status = "none"
    BY <1>3 DEF CreateExternalIdentityProof
  <2> QED BY <2>1, <2>2
<1>4. ASSUME NEW o \in {"code", "denied", "unavailable"}, ClaimExternalLogin(t, o)
      PROVE  Goal
  <2>0. old.status = "prepared"
    BY <1>4 DEF ClaimExternalLogin
  <2>1. CASE o = "code"
    <3>1. transactions' = [transactions EXCEPT ![t] =
                             [old EXCEPT !.status = "exchanging", !.handler = "proving"]]
      BY <1>4, <2>1 DEF ClaimExternalLogin
    <3> HIDE DEF Goal, old
    <3> QED BY <1>1, <2>0, <3>1
  <2>2. CASE o = "denied"
    <3>1. transactions' = [transactions EXCEPT ![t] = [old EXCEPT !.status = "denied"]]
      BY <1>4, <2>2 DEF ClaimExternalLogin
    <3> HIDE DEF Goal, old
    <3> QED BY <1>1, <1>2, <2>0, <3>1
  <2>3. CASE o = "unavailable"
    <3>1. transactions' = [transactions EXCEPT ![t] = [old EXCEPT !.status = "unknown"]]
      BY <1>4, <2>3 DEF ClaimExternalLogin
    <3> HIDE DEF Goal, old
    <3> QED BY <1>1, <1>2, <2>0, <3>1
  <2> QED BY <2>1, <2>2, <2>3
<1>5. CASE ClaimExpiredExchange(t)
  <2>1. /\ old.status = "overdue"
        /\ transactions' = [transactions EXCEPT ![t] = [old EXCEPT !.status = "unknown"]]
    BY <1>5 DEF ClaimExpiredExchange
  <2> HIDE DEF Goal, old
  <2> QED BY <1>1, <1>2, <2>1
<1>6. ASSUME NEW a \in Accounts, NEW s \in Sessions, CompleteExternalProof(t, a, s)
      PROVE  Goal
  <2>1. PICK h \in {"idle", "lost"} :
          transactions' = [transactions EXCEPT ![t].status = "succeeded", ![t].handler = h]
    BY <1>6 DEF CompleteExternalProof
  <2>2. transactions' = [transactions EXCEPT ![t] =
                           [old EXCEPT !.status = "succeeded", !.handler = h]]
    BY <2>1 DEF TypeOK
  <2> HIDE DEF Goal, old
  <2> QED BY <1>1, <2>2
<1>7. ASSUME NEW h \in {"idle", "refused", "lost"},
             transactions' = [transactions EXCEPT ![t].handler = h]
      PROVE  Goal
  <2>1. transactions' = [transactions EXCEPT ![t] = [old EXCEPT !.handler = h]]
    BY <1>7
  <2> HIDE DEF Goal, old
  <2> QED BY <1>1, <1>2, <2>1
<1>8. ASSUME NEW a \in Accounts, FailCompletion(t, a) PROVE Goal
  BY <1>7, <1>8 DEF FailCompletion
<1>9. CASE LoseExchange(t) \/ ServerDies(t)
  BY <1>7, <1>9 DEF LoseExchange, ServerDies
<1>10. CASE SettleExternalLogin(t)
  <2>1. /\ SettledStatus(t) \in {"rejected", "unknown", old.status}
        /\ old.status = "succeeded" => SettledStatus(t) = "succeeded"
    BY DEF SettledStatus
  <2>2. transactions' = [transactions EXCEPT ![t] =
                           [old EXCEPT !.status = SettledStatus(t), !.handler = "idle"]]
    BY <1>10 DEF SettleExternalLogin, TypeOK
  <2> HIDE DEF Goal, old
  <2> QED BY <1>1, <2>1, <2>2
<1>11. CASE ExternalLoginExpires(t)
  <2>1. old.status # "succeeded"
    BY <1>11 DEF ExternalLoginExpires
  <2>2. PICK st \in {"gone", "overdue"} :
          transactions' = [transactions EXCEPT ![t] = [old EXCEPT !.status = st]]
    BY <1>11 DEF ExternalLoginExpires
  <2>3. transactions' = [transactions EXCEPT ![t] =
                           [old EXCEPT !.status = st, !.handler = old.handler]]
    BY <1>2, <2>2
  <2> HIDE DEF Goal, old
  <2> QED BY <1>1, <1>2, <2>1, <2>3
<1> HIDE DEF Goal
<1> QED BY <1>3, <1>4, <1>5, <1>6, <1>8, <1>9, <1>10, <1>11
-----------------------------------------------------------------------------
(* The origins of Sessions: nothing is opened, or one Session is opened from
   a proof that no Session came from and that is spent in the same step. *)
LEMMA NothingOpened ==
    ASSUME ProofIsUsedOnce, SpentStaySpent,
           \A x \in Sessions : sessions'[x].from = sessions[x].from
    PROVE  ProofIsUsedOnce'
  BY DEF ProofIsUsedOnce, SpentStaySpent

(* A Session opened from a proof that no Session came from, and which is
   spent by it, leaves every proof used once. *)
LEMMA OpenedFromFreshProof ==
    ASSUME ProofIsUsedOnce, SpentStaySpent, NEW s \in Sessions, NEW p,
           sessions'[s].from = p,
           \A x \in Sessions : sessions[x].from # p,
           \A x \in Sessions : x # s => sessions'[x].from = sessions[x].from,
           p \in Challenges => challenges'[p].state = "consumed",
           p \in Transactions => transactions'[p].status = "succeeded"
    PROVE  ProofIsUsedOnce'
  BY DEF ProofIsUsedOnce, SpentStaySpent

(* The invariant, by the tables its parts speak of. *)
LEMMA IdentityInvParts ==
    IdentityInv <=> TypeOK /\ AccountsInv /\ CodesInv /\ LoginsInv /\ ProofIsUsedOnce
  BY DEF IdentityInv, AccountsInv, CodesInv, LoginsInv, LoginHasNoSession

(* Steps that open no Session and touch no method. *)
LEMMA QuietStep ==
    ASSUME IdentityInv, users' = users, owner' = owner, sessions' = sessions,
           challenges' \in [Challenges -> ChallengeRow],
           transactions' \in [Transactions -> TransactionRow],
           CodesInv', LoginsInv', SpentStaySpent
    PROVE  IdentityInv'
<1>1. TypeOK' /\ AccountsInv'
  BY DEF IdentityInv, TypeOK, AccountsInv, SessionHasUser, ReplacedSessionEnded,
         EveryUserCanLogIn, SessionProofIsLinked, LinkedOf, MethodsOf
<1>2. ProofIsUsedOnce'
  BY NothingOpened DEF IdentityInv
<1> QED BY <1>1, <1>2 DEF IdentityInv, AccountsInv, CodesInv, LoginsInv, LoginHasNoSession

(* The steps of a login or proof by email keep the invariant. *)
LEMMA EmailStepKeepsInv ==
    ASSUME IdentityInv, EmailNext PROVE IdentityInv'
<1>0. TypeOK /\ AccountsInv /\ CodesInv /\ LoginsInv /\ ProofIsUsedOnce
  BY IdentityInvParts
<1>1. ASSUME NEW c \in Challenges, NEW e \in Emails, NEW p \in Purposes,
             NEW s \in Sessions \cup {NoSession}, PrepareEmailChallenge(c, e, p, s)
      PROVE  IdentityInv'
  <2>1. /\ users' = users /\ owner' = owner /\ sessions' = sessions
        /\ transactions' = transactions
    BY <1>1 DEF PrepareEmailChallenge
  <2>2. CodesInv' /\ challenges' \in [Challenges -> ChallengeRow] /\ SpentStaySpent
    BY <1>0, <1>1, <2>1, PrepareKeepsCodes DEF SpentStaySpent
  <2> QED BY <1>0, <2>1, <2>2, QuietStep DEF LoginsInv, TypeOK
<1>2. ASSUME NEW c \in Challenges,
             \/ \E answer \in {"accepted", "rejected"} : RecordEmailSubmission(c, answer)
             \/ SpendEmailChallengeAttempt(c)
             \/ ChallengeExpires(c)
      PROVE  IdentityInv'
  <2>1. /\ users' = users /\ owner' = owner /\ sessions' = sessions
        /\ transactions' = transactions /\ challenges[c].state = "current"
    BY <1>2 DEF RecordEmailSubmission, SpendEmailChallengeAttempt, ChallengeExpires, Usable
  <2>2. \/ \E answer \in {"accepted", "rejected"} :
             challenges' = [challenges EXCEPT ![c].mail = answer]
        \/ /\ challenges[c].attempts < MaxAttempts
           /\ challenges' = [challenges EXCEPT ![c].attempts = @ + 1]
        \/ challenges' = [challenges EXCEPT ![c].state = "dead"]
    BY <1>2 DEF RecordEmailSubmission, SpendEmailChallengeAttempt, ChallengeExpires, Usable
  <2>3. CodesInv' /\ challenges' \in [Challenges -> ChallengeRow] /\ SpentStaySpent
    BY <1>0, <2>1, <2>2, CurrentCodeMoves DEF SpentStaySpent
  <2> QED BY <1>0, <2>1, <2>3, QuietStep DEF LoginsInv, TypeOK
<1>3. ASSUME NEW c \in Challenges, NEW s \in Sessions, VerifyEmailChallenge(c, s)
      PROVE  IdentityInv'
  <2> DEFINE m == challenges[c].email
             purpose == challenges[c].purpose
             init == challenges[c].init
  <2>1. /\ challenges[c].state = "current" /\ transactions' = transactions
        /\ challenges' = ConsumeEmailChallenge(c)
        /\ CompleteProof(m, purpose, init, s, c)
    BY <1>3 DEF VerifyEmailChallenge, Usable
  <2>2. /\ m \in Methods /\ purpose \in Purposes /\ init \in Sessions \cup {NoSession}
        /\ c \in Proofs
    BY <1>0, <2>1 DEF CodesInv, ChallengeHasEmail, TypeOK, ChallengeRow, Methods, Proofs
  <2> HIDE DEF m, purpose, init
  <2>3. /\ sessions' \in [Sessions -> SessionRow]
        /\ owner' \in [Methods -> Users \cup {NoUser}] /\ users' \subseteq Users
        /\ \E u \in Users : ProofCompleted(m, purpose, init, s, c, u)
    BY <1>0, <2>1, <2>2, CompletesProof DEF AccountsInv
  <2>4. PICK u \in Users : ProofCompleted(m, purpose, init, s, c, u)
    BY <2>3
  <2>5. AccountsInv'
    BY <1>0, <2>2, <2>4, ProofKeepsAccounts
  <2>6. CodesInv' /\ challenges' \in [Challenges -> ChallengeRow] /\ SpentStaySpent
    BY <1>0, <2>1, CurrentCodeMoves DEF SpentStaySpent
  <2>7. ProofIsUsedOnce'
    <3>1. challenges'[c].state = "consumed"
      BY <1>0, <2>1 DEF ConsumeEmailChallenge, TypeOK, ChallengeRow
    <3>2. /\ sessions'[s].from = c
          /\ \A x \in Sessions : x # s => sessions'[x].from = sessions[x].from
      BY <2>4 DEF ProofCompleted
    <3>3. \A x \in Sessions : sessions[x].from # c
      BY <1>0, <2>1 DEF ProofIsUsedOnce
    <3>4. c \notin Transactions
      BY IdentityAssumption
    <3> QED BY <1>0, <2>6, <3>1, <3>2, <3>3, <3>4, OpenedFromFreshProof
  <2>8. TypeOK' /\ LoginsInv'
    BY <1>0, <2>1, <2>3, <2>6 DEF TypeOK, LoginsInv
  <2> QED BY <2>5, <2>6, <2>7, <2>8
        DEF IdentityInv, AccountsInv, CodesInv, LoginsInv, LoginHasNoSession
<1> QED BY <1>1, <1>2, <1>3 DEF EmailNext

(* So do those of the external logins and proofs. *)
LEMMA ExternalStepKeepsInv ==
    ASSUME IdentityInv, ExternalNext PROVE IdentityInv'
<1>0. TypeOK /\ AccountsInv /\ CodesInv /\ LoginsInv /\ ProofIsUsedOnce
  BY IdentityInvParts
<1>1. ASSUME NEW t \in Transactions, users' = users, owner' = owner, sessions' = sessions,
             challenges' = challenges,
             LoginsInv', transactions' \in [Transactions -> TransactionRow],
             \A x \in Transactions :
               transactions[x].status = "succeeded" => transactions'[x].status = "succeeded"
      PROVE  IdentityInv'
  <2>1. SpentStaySpent /\ CodesInv'
    BY <1>0, <1>1 DEF SpentStaySpent, CodesInv, ChallengeHasEmail, OneCurrentCode
  <2> QED BY <1>0, <1>1, <2>1, QuietStep DEF TypeOK
<1>2. ASSUME NEW t \in Transactions, NEW k \in {"google", "github"}, CreateExternalLogin(t, k)
      PROVE  IdentityInv'
  BY <1>0, <1>1, <1>2, CreateExternalLoginKeepsLogins DEF CreateExternalLogin
<1>3. ASSUME NEW t \in Transactions,
             \/ \E k \in {"google", "github"}, p \in Purposes, s \in Sessions :
                  CreateExternalIdentityProof(t, k, p, s)
             \/ \E o \in {"code", "denied", "unavailable"} : ClaimExternalLogin(t, o)
             \/ ClaimExpiredExchange(t)
             \/ \E a \in Accounts : FailCompletion(t, a)
             \/ LoseExchange(t) \/ SettleExternalLogin(t) \/ ServerDies(t)
             \/ ExternalLoginExpires(t)
      PROVE  IdentityInv'
  <2>1. /\ users' = users /\ owner' = owner /\ sessions' = sessions
        /\ challenges' = challenges
    BY <1>3 DEF CreateExternalIdentityProof, ClaimExternalLogin, ClaimExpiredExchange,
         FailCompletion, LoseExchange, SettleExternalLogin, ServerDies, ExternalLoginExpires
  <2>2. /\ LoginsInv' /\ transactions' \in [Transactions -> TransactionRow]
        /\ \A x \in Transactions :
             transactions[x].status = "succeeded" => transactions'[x].status = "succeeded"
    BY <1>0, <1>3, ExternalStepKeepsLogins
  <2> QED BY <1>1, <2>1, <2>2
<1>4. ASSUME NEW t \in Transactions, NEW a \in Accounts, NEW s \in Sessions,
             CompleteExternalProof(t, a, s)
      PROVE  IdentityInv'
  <2> DEFINE purpose == transactions[t].purpose
             init == transactions[t].init
  <2>1. /\ transactions[t].status = "exchanging" /\ challenges' = challenges
        /\ CompleteProof(a, purpose, init, s, t)
    BY <1>4 DEF CompleteExternalProof, CompletionValid
  <2>2. /\ a \in Methods /\ purpose \in Purposes /\ init \in Sessions \cup {NoSession}
        /\ t \in Proofs
    BY <1>0 DEF TypeOK, TransactionRow, Methods, Proofs
  <2> HIDE DEF purpose, init
  <2>3. /\ sessions' \in [Sessions -> SessionRow]
        /\ owner' \in [Methods -> Users \cup {NoUser}] /\ users' \subseteq Users
        /\ \E u \in Users : ProofCompleted(a, purpose, init, s, t, u)
    BY <1>0, <2>1, <2>2, CompletesProof DEF AccountsInv
  <2>4. PICK u \in Users : ProofCompleted(a, purpose, init, s, t, u)
    BY <2>3
  <2>5. AccountsInv'
    BY <1>0, <2>2, <2>4, ProofKeepsAccounts
  <2>6. /\ LoginsInv' /\ transactions' \in [Transactions -> TransactionRow]
        /\ \A x \in Transactions :
             transactions[x].status = "succeeded" => transactions'[x].status = "succeeded"
    BY <1>0, <1>4, ExternalStepKeepsLogins
  <2>7. SpentStaySpent /\ CodesInv'
    BY <1>0, <2>1, <2>6 DEF SpentStaySpent, CodesInv, ChallengeHasEmail, OneCurrentCode
  <2>8. ProofIsUsedOnce'
    <3>1. transactions'[t].status = "succeeded"
      BY <1>0, <1>4 DEF CompleteExternalProof, TypeOK, TransactionRow
    <3>2. /\ sessions'[s].from = t
          /\ \A x \in Sessions : x # s => sessions'[x].from = sessions[x].from
      BY <2>4 DEF ProofCompleted
    <3>3. \A x \in Sessions : sessions[x].from # t
      BY <1>0, <2>1 DEF ProofIsUsedOnce
    <3>4. t \notin Challenges
      BY IdentityAssumption
    <3> QED BY <1>0, <2>7, <3>1, <3>2, <3>3, <3>4, OpenedFromFreshProof
  <2>9. TypeOK'
    BY <1>0, <2>1, <2>3, <2>6 DEF TypeOK
  <2> QED BY <2>5, <2>6, <2>7, <2>8, <2>9
        DEF IdentityInv, AccountsInv, CodesInv, LoginsInv, LoginHasNoSession
<1> QED BY <1>2, <1>3, <1>4 DEF ExternalNext, CompleteGoogleLogin, CompleteGitHubLogin

(* So do unlinking, the end of a Session and the ageing of its proof. *)
LEMMA SessionStepKeepsInv ==
    ASSUME IdentityInv, SessionNext PROVE IdentityInv'
<1>0. TypeOK /\ AccountsInv /\ CodesInv /\ LoginsInv /\ ProofIsUsedOnce
  BY IdentityInvParts
<1>1. challenges' = challenges /\ transactions' = transactions
  BY DEF SessionNext, UnlinkIdentityMethod, EndBrowserSession, ProofAges
<1>2. CodesInv' /\ LoginsInv' /\ SpentStaySpent
  BY <1>0, <1>1 DEF CodesInv, ChallengeHasEmail, OneCurrentCode, LoginsInv, SpentStaySpent
<1>3. ASSUME NEW s \in Sessions, NEW k \in Kinds, NEW r \in Sessions,
             UnlinkIdentityMethod(s, k, r)
      PROVE  IdentityInv'
  <2>1. AccountsInv'
    BY <1>0, <1>3, UnlinkKeepsAccounts
  <2>2. /\ sessions' \in [Sessions -> SessionRow] /\ users' = users
        /\ owner' \in [Methods -> Users \cup {NoUser}]
        /\ sessions[s].state = "active"
        /\ SessionOpened(SessionsOf(sessions[s].user), r, sessions[s].user,
                         sessions[s].proof, s)
    BY <1>0, <1>3, UnlinkEffect
  <2>3. TypeOK'
    BY <1>0, <1>1, <2>2 DEF TypeOK
  <2>4. ProofIsUsedOnce'
    <3>1. /\ sessions'[r].from = s
          /\ \A x \in Sessions : x # r => sessions'[x].from = sessions[x].from
      BY <2>2 DEF SessionOpened
    <3>2. \A x \in Sessions : sessions[x].from # s
      BY <1>0, <2>2 DEF AccountsInv, ReplacedSessionEnded
    <3>3. s \notin Challenges /\ s \notin Transactions
      BY IdentityAssumption
    <3> QED BY <1>0, <1>2, <3>1, <3>2, <3>3, OpenedFromFreshProof
  <2> QED BY <1>2, <2>1, <2>3, <2>4
        DEF IdentityInv, AccountsInv, CodesInv, LoginsInv, LoginHasNoSession
<1>4. ASSUME NEW s \in Sessions, EndBrowserSession(s) \/ ProofAges(s) PROVE IdentityInv'
  <2>1. /\ users' = users /\ owner' = owner /\ sessions[s].state = "active"
        /\ \/ sessions' = [sessions EXCEPT ![s].state = "ended"]
           \/ sessions' = [sessions EXCEPT ![s].recent = FALSE]
    BY <1>4 DEF EndBrowserSession, ProofAges
  <2>2. /\ AccountsInv' /\ sessions' \in [Sessions -> SessionRow]
        /\ \A x \in Sessions : sessions'[x].from = sessions[x].from
    BY <1>0, <2>1, SessionAgesKeepsAccounts
  <2>3. TypeOK' /\ ProofIsUsedOnce'
    BY <1>0, <1>1, <1>2, <2>1, <2>2, NothingOpened DEF TypeOK
  <2> QED BY <1>2, <2>2, <2>3
        DEF IdentityInv, AccountsInv, CodesInv, LoginsInv, LoginHasNoSession
<1> QED BY <1>3, <1>4 DEF SessionNext

-----------------------------------------------------------------------------
(* The inductive invariant holds in every reachable state. *)
THEOREM Invariance == Spec => []IdentityInv
<1>1. Init => IdentityInv
  <2> SUFFICES ASSUME Init PROVE IdentityInv
    OBVIOUS
  <2>1. TypeOK
    BY IdentityAssumption DEF Init, TypeOK, SessionRow, ChallengeRow, TransactionRow,
         Kinds, Purposes
  <2>2. \A s \in Sessions : sessions[s].state = "none" /\ sessions[s].from = NoProof
    BY DEF Init
  <2>3. /\ \A c \in Challenges : challenges[c].state = "none" /\ challenges[c].init = NoSession
        /\ \A t \in Transactions : transactions[t].init = NoSession
        /\ users = {}
    BY DEF Init
  <2> QED BY <2>1, <2>2, <2>3, IdentityAssumption DEF IdentityInv, SessionHasUser,
        ChallengeHasEmail, LoginHasNoSession, ReplacedSessionEnded, OneCurrentCode,
        EveryUserCanLogIn, SessionProofIsLinked, ProofIsUsedOnce
<1>2. ASSUME IdentityInv, [Next]_vars PROVE IdentityInv'
  <2>1. CASE UNCHANGED vars
    <3>1. /\ users' = users /\ owner' = owner /\ sessions' = sessions
          /\ challenges' = challenges /\ transactions' = transactions
      BY <2>1 DEF vars
    <3>2. TypeOK /\ CodesInv /\ LoginsInv
      BY <1>2, IdentityInvParts
    <3>3. CodesInv' /\ LoginsInv' /\ SpentStaySpent
      BY <3>1, <3>2 DEF CodesInv, ChallengeHasEmail, OneCurrentCode, LoginsInv, SpentStaySpent
    <3> QED BY <1>2, <3>1, <3>2, <3>3, QuietStep DEF TypeOK
  <2> QED BY <1>2, <2>1, EmailStepKeepsInv, ExternalStepKeepsInv, SessionStepKeepsInv DEF Next
<1> QED BY <1>1, <1>2, PTL DEF Spec

(* No order of logins, links and unlinks leaves a User without a method.  The
   count of methods is not even needed: the Session that unlinks was proved
   by another method, which is still linked. *)
THEOREM NobodyIsLockedOut == Spec => []EveryUserCanLogIn
<1>1. IdentityInv => EveryUserCanLogIn
  BY DEF IdentityInv
<1> QED BY <1>1, Invariance, PTL

(* A Session never outlives the link of the method it was proved with. *)
THEOREM ProofStaysLinked == Spec => []SessionProofIsLinked
<1>1. IdentityInv => SessionProofIsLinked
  BY DEF IdentityInv
<1> QED BY <1>1, Invariance, PTL

(* One code, one callback and one unlink yield at most one Session each. *)
THEOREM ProofYieldsOneSession == Spec => []ProofIsUsedOnce
<1>1. IdentityInv => ProofIsUsedOnce
  BY DEF IdentityInv
<1> QED BY <1>1, Invariance, PTL

(* InvalidateCurrentEmailChallenges leaves one usable code per address. *)
THEOREM OneCode == Spec => []OneUsableCode
<1>1. IdentityInv => OneUsableCode
  BY DEF IdentityInv, OneUsableCode, OneCurrentCode, Usable
<1> QED BY <1>1, Invariance, PTL

(* The transaction that settles a renewal, a link or an unlink reads the
   Session that began it again, and ends it. *)
THEOREM SuccessorNeedsActiveSession == Spec => EndedSessionHasNoSuccessor
<1>1. ASSUME IdentityInv, [Next]_vars, NEW s \in Sessions,
             sessions[s].state = "none", sessions'[s].state = "active",
             InitOf(sessions'[s].from) \in Sessions
      PROVE  /\ sessions[InitOf(sessions'[s].from)].state = "active"
             /\ sessions'[InitOf(sessions'[s].from)].state = "ended"
  <2>0. TypeOK /\ AccountsInv /\ CodesInv /\ LoginsInv
    BY <1>1, IdentityInvParts
  <2>1. ASSUME NEW c \in Challenges, NEW x \in Sessions, VerifyEmailChallenge(c, x)
        PROVE  /\ sessions[InitOf(sessions'[s].from)].state = "active"
               /\ sessions'[InitOf(sessions'[s].from)].state = "ended"
    <3>1. /\ challenges[c].state = "current"
          /\ CompleteProof(challenges[c].email, challenges[c].purpose,
                           challenges[c].init, x, c)
      BY <2>1 DEF VerifyEmailChallenge, Usable
    <3>2. /\ challenges[c].email \in Methods /\ challenges[c].purpose \in Purposes
          /\ challenges[c].init \in Sessions \cup {NoSession} /\ c \in Proofs
      BY <2>0, <3>1 DEF CodesInv, ChallengeHasEmail, TypeOK, ChallengeRow, Methods, Proofs
    <3>3. \E u \in Users : ProofCompleted(challenges[c].email, challenges[c].purpose,
                                          challenges[c].init, x, c, u)
      BY <2>0, <3>1, <3>2, CompletesProof DEF AccountsInv
    <3>4. x = s /\ sessions'[s].from = c
      BY <1>1, <3>3 DEF ProofCompleted
    <3>5. InitOf(c) = challenges[c].init
      BY DEF InitOf
    <3>6. challenges[c].purpose # "login"
      BY <1>1, <2>0, <3>4, <3>5, IdentityAssumption DEF CodesInv
    <3> QED BY <3>3, <3>4, <3>5, <3>6 DEF ProofCompleted
  <2>2. ASSUME NEW t \in Transactions, NEW a \in Accounts, NEW x \in Sessions,
               CompleteExternalProof(t, a, x)
        PROVE  /\ sessions[InitOf(sessions'[s].from)].state = "active"
               /\ sessions'[InitOf(sessions'[s].from)].state = "ended"
    <3>1. CompleteProof(a, transactions[t].purpose, transactions[t].init, x, t)
      BY <2>2 DEF CompleteExternalProof
    <3>2. /\ a \in Methods /\ transactions[t].purpose \in Purposes
          /\ transactions[t].init \in Sessions \cup {NoSession} /\ t \in Proofs
      BY <2>0 DEF TypeOK, TransactionRow, Methods, Proofs
    <3>3. \E u \in Users : ProofCompleted(a, transactions[t].purpose,
                                          transactions[t].init, x, t, u)
      BY <2>0, <3>1, <3>2, CompletesProof DEF AccountsInv
    <3>4. x = s /\ sessions'[s].from = t
      BY <1>1, <3>3 DEF ProofCompleted
    <3>5. InitOf(t) = transactions[t].init
      BY IdentityAssumption DEF InitOf
    <3>6. transactions[t].purpose # "login"
      BY <1>1, <2>0, <3>4, <3>5, IdentityAssumption DEF LoginsInv
    <3> QED BY <3>3, <3>4, <3>5, <3>6 DEF ProofCompleted
  <2>3. ASSUME NEW x \in Sessions, NEW k \in Kinds, NEW r \in Sessions,
               UnlinkIdentityMethod(x, k, r)
        PROVE  /\ sessions[InitOf(sessions'[s].from)].state = "active"
               /\ sessions'[InitOf(sessions'[s].from)].state = "ended"
    <3>1. /\ sessions[x].state = "active"
          /\ SessionOpened(SessionsOf(sessions[x].user), r, sessions[x].user,
                           sessions[x].proof, x)
      BY <2>0, <2>3, UnlinkEffect
    <3>2. x \in SessionsOf(sessions[x].user)
      BY <3>1 DEF SessionsOf
    <3>3. s = r /\ sessions'[s].from = x /\ sessions'[x].state = "ended"
      BY <1>1, <3>1, <3>2 DEF SessionOpened
    <3>4. InitOf(x) = x
      BY IdentityAssumption DEF InitOf
    <3> QED BY <3>1, <3>3, <3>4
  <2>4. ASSUME NEW x \in Sessions, EndBrowserSession(x) \/ ProofAges(x) PROVE FALSE
    BY <1>1, <2>0, <2>4, SessionAgesKeepsAccounts DEF EndBrowserSession, ProofAges
  <2>5. sessions' # sessions
    BY <1>1
  <2> QED BY <1>1, <2>1, <2>2, <2>3, <2>4, <2>5 DEF Next, vars, EmailNext, ExternalNext,
        SessionNext, PrepareEmailChallenge, RecordEmailSubmission, SpendEmailChallengeAttempt,
        ChallengeExpires, CreateExternalLogin, CreateExternalIdentityProof, ClaimExternalLogin,
        ClaimExpiredExchange, CompleteGoogleLogin, CompleteGitHubLogin, FailCompletion,
        LoseExchange, SettleExternalLogin, ServerDies, ExternalLoginExpires
<1>2. ASSUME IdentityInv, Next
      PROVE  \A s \in Sessions :
               sessions[s].state = "none" /\ sessions'[s].state = "active" =>
                 LET i == InitOf(sessions'[s].from) IN
                   i \in Sessions => sessions[i].state = "active" /\ sessions'[i].state = "ended"
  <2>1. SUFFICES ASSUME NEW s \in Sessions, sessions[s].state = "none",
                        sessions'[s].state = "active",
                        InitOf(sessions'[s].from) \in Sessions
                 PROVE  /\ sessions[InitOf(sessions'[s].from)].state = "active"
                        /\ sessions'[InitOf(sessions'[s].from)].state = "ended"
    OBVIOUS
  <2> QED BY <1>1, <1>2, <2>1
<1> QED BY <1>2, Invariance, PTL DEF Spec, EndedSessionHasNoSuccessor
=============================================================================
