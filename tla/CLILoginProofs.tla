--------------------------- MODULE CLILoginProofs ---------------------------
(***************************************************************************)
(* Proofs about CLILogin, for any number of Users and requests and any     *)
(* limit on live requests.  The argument rests on two facts.  A credential *)
(* exists only for a redeemed request, and a request is redeemed once, so  *)
(* a replaced credential cannot come back.  And while the command waits    *)
(* for a request or holds its answer, the pending login on disk is that    *)
(* request: this is what makes a crash between the server's answer and the *)
(* file harmless.                                                          *)
(***************************************************************************)
EXTENDS CLILogin, TLAPS

-----------------------------------------------------------------------------
(* The steps of the server and of people keep the command's files alone. *)

(* A step that only changes one request's row, and leaves what it replaces
   and whether it was redeemed as it was. *)
LEMMA RowChanges ==
    ASSUME CLIInv, NEW r \in Requests, NEW row \in Request,
           requests' = [requests EXCEPT ![r] = row],
           row.state = "redeemed" <=> requests[r].state = "redeemed",
           row.state = "redeemed" => row.replaces = requests[r].replaces,
           row.replay => requests[r].replay,
           requests[r].over => row.over,
           requests[r].state = "none" => row.state = "none",
           activeMembers' = activeMembers, credentials' = credentials, shown' = shown,
           process' = process, pending' = pending, file' = file, kept' = kept
    PROVE  CLIInv'
<1>1. TypeOK'
  BY DEF CLIInv, TypeOK
<1>2. /\ requests'[r] = row
      /\ \A q \in Requests : q # r => requests'[q] = requests[q]
  BY DEF CLIInv, TypeOK
<1>3. CredentialIsRedeemed'
  BY <1>2 DEF CLIInv, CredentialIsRedeemed
<1>4. ReplacedHasEnded'
  BY <1>2 DEF CLIInv, ReplacedHasEnded
<1>5. CommandHoldsPending'
  BY <1>2, CLIAssumption DEF CLIInv, CommandHoldsPending, TypeOK
<1>6. CredentialIsRecoverable'
  BY <1>2 DEF CLIInv, CredentialIsRecoverable, TypeOK, Request
<1> QED BY <1>1, <1>3, <1>4, <1>5, <1>6 DEF CLIInv

(* A step that ends a credential: revocation, expiry, "carry logout". *)
LEMMA CredentialEnds ==
    ASSUME CLIInv, NEW r \in Requests, NEW end \in {"revoked", "expired"},
           credentials[r] = "live",
           credentials' = [credentials EXCEPT ![r] = end],
           file' \in {file, NoRequest},
           activeMembers' = activeMembers, requests' = requests, shown' = shown,
           process' = process, pending' = pending, kept' = kept
    PROVE  CLIInv'
<1>1. TypeOK'
  BY DEF CLIInv, TypeOK
<1>2. /\ credentials'[r] = end
      /\ \A q \in Requests : q # r => credentials'[q] = credentials[q]
  BY DEF CLIInv, TypeOK
<1>3. CredentialIsRedeemed'
  BY <1>2 DEF CLIInv, CredentialIsRedeemed
<1>4. ReplacedHasEnded'
  BY <1>2 DEF CLIInv, ReplacedHasEnded, TypeOK, Request
<1>5. CommandHoldsPending'
  BY DEF CLIInv, CommandHoldsPending
<1>6. CredentialIsRecoverable'
  BY <1>2 DEF CLIInv, CredentialIsRecoverable
<1> QED BY <1>1, <1>3, <1>4, <1>5, <1>6 DEF CLIInv

-----------------------------------------------------------------------------
(* Every step of a person, of the server and of the clock. *)
LEMMA ServerStepKeepsInv ==
    ASSUME CLIInv, NEW r \in Requests,
           \/ \E u \in Users, old \in Requests \cup {NoRequest} : ApproveCLILogin(u, r, old)
           \/ DenyCLILogin(r) \/ RevokeFromBrowser(r)
           \/ RequestExpires(r) \/ ReplayEnds(r) \/ CredentialExpires(r)
    PROVE  CLIInv'
<1>0. requests[r] \in Request /\ requests \in [Requests -> Request]
  BY DEF CLIInv, TypeOK
<1>1. ASSUME NEW u \in Users, NEW old \in Requests \cup {NoRequest}, ApproveCLILogin(u, r, old)
      PROVE  CLIInv'
  <2> DEFINE row == [requests[r] EXCEPT !.state = "approved", !.by = u, !.replaces = old]
  <2>1. /\ row \in Request /\ row.state = "approved" /\ row.replay = requests[r].replay
        /\ row.over = requests[r].over
    BY <1>0 DEF Request
  <2>2. requests' = [requests EXCEPT ![r] = row] /\ requests[r].state = "open"
    BY <1>1 DEF ApproveCLILogin
  <2> QED BY ONLY <1>1, <2>1, <2>2, CLIInv, RowChanges DEF ApproveCLILogin
<1>2. CASE DenyCLILogin(r)
  <2> DEFINE row == [requests[r] EXCEPT !.state = "denied"]
  <2>1. /\ row \in Request /\ row.state = "denied" /\ row.replay = requests[r].replay
        /\ row.over = requests[r].over
    BY <1>0 DEF Request, Ended
  <2>2. requests' = [requests EXCEPT ![r] = row] /\ requests[r].state = "open"
    BY <1>2 DEF DenyCLILogin
  <2> QED BY <1>2, <2>1, <2>2, RowChanges DEF DenyCLILogin
<1>3. CASE RevokeFromBrowser(r)
  BY <1>3, CredentialEnds DEF RevokeFromBrowser
<1>4. CASE RequestExpires(r)
  <2> DEFINE row == [requests[r] EXCEPT !.over = TRUE]
  <2>1. /\ row \in Request /\ row.state = requests[r].state /\ row.replay = requests[r].replay
        /\ row.over /\ row.replaces = requests[r].replaces
    BY <1>0 DEF Request
  <2>2. requests' = [requests EXCEPT ![r] = row] /\ requests[r].state # "none"
    BY <1>4 DEF RequestExpires
  <2> QED BY <1>4, <2>1, <2>2, RowChanges DEF RequestExpires
<1>5. CASE ReplayEnds(r)
  <2> DEFINE row == [requests[r] EXCEPT !.replay = FALSE]
  <2>1. /\ row \in Request /\ row.state = requests[r].state /\ ~ row.replay
        /\ row.over = requests[r].over /\ row.replaces = requests[r].replaces
    BY <1>0 DEF Request
  <2>2. requests' = [requests EXCEPT ![r] = row]
    BY <1>5 DEF ReplayEnds
  <2> QED BY <1>5, <2>1, <2>2, RowChanges DEF ReplayEnds
<1>6. CASE CredentialExpires(r)
  BY <1>6, CredentialEnds DEF CredentialExpires
<1> QED BY <1>1, <1>2, <1>3, <1>4, <1>5, <1>6
-----------------------------------------------------------------------------
(* The request is cancelled or left, and a pending login goes only with a
   cancellation. *)
Cancels ==
    \/ /\ CanCancel(process.on)
       /\ requests' = [requests EXCEPT ![process.on].state = "cancelled"]
       /\ pending' = pending \/ (pending = process.on /\ pending' = NoRequest)
    \/ requests' = requests /\ pending' = pending

(* The command ends, whether or not its request was cancelled. *)
LEMMA CommandCancels ==
    ASSUME CLIInv, process.on \in Requests, process' = Idle,
           Cancels,
           activeMembers' = activeMembers, credentials' = credentials, shown' = shown,
           file' = file, kept' = kept
    PROVE  CLIInv'
<1>1. TypeOK /\ requests[process.on] \in Request
  BY DEF CLIInv, TypeOK
<1>2. CommandHoldsPending'
  BY CLIAssumption DEF CommandHoldsPending, Idle
<1>3. CASE requests' = requests /\ pending' = pending
  <2>1. TypeOK'
    BY <1>1, <1>3 DEF TypeOK, Places, Idle
  <2> QED BY <2>1, <1>2, <1>3 DEF CLIInv, CredentialIsRedeemed, ReplacedHasEnded,
             CredentialIsRecoverable
<1>4. CASE /\ CanCancel(process.on)
           /\ requests' = [requests EXCEPT ![process.on].state = "cancelled"]
           /\ pending' = pending \/ (pending = process.on /\ pending' = NoRequest)
  <2> DEFINE row == [requests[process.on] EXCEPT !.state = "cancelled"]
  <2>1. row \in Request /\ row.state = "cancelled" /\ requests[process.on].state # "redeemed"
    BY <1>1, <1>4 DEF Request, Ended, CanCancel, IsLive
  <2>2. requests' = [requests EXCEPT ![process.on] = row]
    BY <1>4
  <2> HIDE DEF row
  <2>3. TypeOK'
    BY <1>1, <1>4, <2>1, <2>2 DEF TypeOK, Places, Idle
  <2>4. /\ requests'[process.on] = row
        /\ \A q \in Requests : q # process.on => requests'[q] = requests[q]
    BY <1>1, <2>2 DEF TypeOK
  <2>5. CredentialIsRedeemed' /\ ReplacedHasEnded'
    BY <2>1, <2>4 DEF CLIInv, CredentialIsRedeemed, ReplacedHasEnded
  <2>6. CredentialIsRecoverable'
    BY <1>4, <2>1, <2>4 DEF CLIInv, CredentialIsRecoverable, CredentialIsRedeemed
  <2> QED BY <1>2, <2>3, <2>5, <2>6 DEF CLIInv
<1> QED BY <1>3, <1>4 DEF Cancels

-----------------------------------------------------------------------------
(* The command before it waits: the pending login it finds, the request it
   begins and the file it writes. *)
LEMMA LoginStarts ==
    ASSUME CLIInv,
           \/ DropPending \/ ResumeLogin \/ BeginCLILogin \/ SavePending \/ SavePendingFails
           \/ \E r \in Requests : StartLogin(r)
    PROVE  CLIInv'
<1>0. /\ TypeOK /\ CommandHoldsPending
      /\ process.at # "idle" => process.on \in Requests
      /\ process = [at |-> process.at, on |-> process.on]
  BY DEF CLIInv, TypeOK, CommandHoldsPending
<1>1. CASE DropPending
  <2>1. TypeOK' /\ CredentialIsRedeemed' /\ ReplacedHasEnded' /\ CommandHoldsPending'
    BY <1>1, <1>0 DEF CLIInv, TypeOK, DropPending, server, CredentialIsRedeemed,
                      ReplacedHasEnded, CommandHoldsPending
  <2>2. CredentialIsRecoverable'
    BY <1>1 DEF CLIInv, DropPending, server, CredentialIsRecoverable
  <2> QED BY <2>1, <2>2 DEF CLIInv
<1>2. CASE ResumeLogin
  <2>1. process'.at = "poll" /\ process'.on = pending /\ pending \in Requests
    BY <1>2, <1>0 DEF ResumeLogin, TypeOK
  <2>2. TypeOK'
    BY <1>2, <1>0, <2>1 DEF ResumeLogin, server, TypeOK, Places
  <2>3. CommandHoldsPending'
    BY <1>2, <2>1, CLIAssumption DEF ResumeLogin, CommandHoldsPending
  <2> QED BY <1>2, <2>2, <2>3 DEF ResumeLogin, server, CLIInv, CredentialIsRedeemed,
             ReplacedHasEnded, CredentialIsRecoverable
<1>3. ASSUME NEW r \in Requests, StartLogin(r) PROVE CLIInv'
  <2>1. process'.at = "begin" /\ process'.on = r
    BY <1>3 DEF StartLogin
  <2>2. TypeOK'
    BY <1>3, <1>0 DEF StartLogin, server, TypeOK, Places
  <2>3. CommandHoldsPending'
    BY <1>3, <2>1, CLIAssumption DEF StartLogin, server, CommandHoldsPending
  <2> QED BY <1>3, <2>2, <2>3 DEF StartLogin, server, CLIInv, CredentialIsRedeemed,
             ReplacedHasEnded, CredentialIsRecoverable
<1>4. CASE BeginCLILogin
  <2>1. PICK row \in Request :
          /\ requests' = [requests EXCEPT ![process.on] = row]
          /\ row.state \in {"open", "none"} /\ row.replay = requests[process.on].replay
          /\ row.over = requests[process.on].over
    <3>1. requests[process.on] \in Request /\ requests[process.on].state = "none"
      BY <1>4, <1>0 DEF BeginCLILogin, TypeOK, CommandHoldsPending
    <3>2. CASE requests' = requests
      BY <3>1, <3>2, <1>4, <1>0 DEF BeginCLILogin, TypeOK
    <3>3. CASE requests' # requests
      <4> DEFINE old == IF file # NoRequest /\ credentials[file] # "expired"
                          THEN file ELSE NoRequest
                 row == [requests[process.on] EXCEPT !.state = "open", !.replaces = old]
      <4>1. old \in Requests \cup {NoRequest}
        BY <1>0 DEF TypeOK
      <4>2. requests' = [requests EXCEPT ![process.on] = row]
        BY <1>4, <3>3 DEF BeginCLILogin
      <4> HIDE DEF old
      <4>3. /\ row \in Request /\ row.state = "open" /\ row.replay = requests[process.on].replay
            /\ row.over = requests[process.on].over
        BY <3>1, <4>1 DEF Request
      <4> QED BY <4>2, <4>3
    <3> QED BY <3>2, <3>3
  <2>2. /\ process.at = "begin" /\ process.on \in Requests
        /\ requests[process.on].state = "none" /\ pending = NoRequest
    BY <1>4, <1>0 DEF BeginCLILogin, CommandHoldsPending
  <2>3. process' = [at |-> "save", on |-> process.on] \/ process' = Idle
    BY <1>4, <1>0 DEF BeginCLILogin, Step, Stop
  <2>4. /\ requests'[process.on] = row
        /\ \A q \in Requests : q # process.on => requests'[q] = requests[q]
    BY <2>1, <2>2, <1>0 DEF TypeOK
  <2>5. /\ activeMembers' = activeMembers /\ credentials' = credentials /\ shown' = shown
        /\ pending' = pending /\ file' = file /\ kept' = kept
    BY <1>4 DEF BeginCLILogin
  <2>6. TypeOK'
    BY <1>0, <2>1, <2>2, <2>3, <2>5 DEF TypeOK, Places, Idle
  <2>7. CommandHoldsPending'
    BY <2>2, <2>3, <2>5, CLIAssumption DEF CommandHoldsPending, Idle
  <2>8. CredentialIsRedeemed' /\ ReplacedHasEnded'
    BY <2>1, <2>2, <2>4, <2>5 DEF CLIInv, CredentialIsRedeemed, ReplacedHasEnded
  <2>9. CredentialIsRecoverable'
    BY <2>1, <2>2, <2>4, <2>5 DEF CLIInv, CredentialIsRecoverable, CredentialIsRedeemed
  <2> QED BY <2>6, <2>7, <2>8, <2>9 DEF CLIInv
<1>5. CASE SavePending
  <2>1. process'.at = "poll" /\ process'.on = process.on /\ process.on \in Requests
        /\ process' = [at |-> "poll", on |-> process.on]
    BY <1>5, <1>0 DEF SavePending, Step
  <2>2. TypeOK'
    BY <1>5, <1>0, <2>1 DEF SavePending, server, TypeOK, Places
  <2>3. CommandHoldsPending'
    BY <1>5, <2>1, CLIAssumption DEF SavePending, CommandHoldsPending
  <2>4. pending = NoRequest /\ process.on # NoRequest
    BY <1>5, <1>0, <2>1, CLIAssumption DEF SavePending, CommandHoldsPending
  <2>5. CredentialIsRecoverable'
    BY <1>5, <2>4, CLIAssumption DEF SavePending, server, CLIInv, CredentialIsRecoverable
  <2> QED BY <1>5, <2>2, <2>3, <2>5 DEF SavePending, server, CLIInv, CredentialIsRedeemed,
             ReplacedHasEnded
<1>6. CASE SavePendingFails
  <2>1. /\ process' = Idle /\ pending' = pending
        /\ activeMembers' = activeMembers /\ credentials' = credentials /\ shown' = shown
        /\ file' = file /\ kept' = kept
        /\ Cancels
    BY <1>6 DEF SavePendingFails, Stop, Cancels
  <2>2. process.on \in Requests
    BY <1>6, <1>0 DEF SavePendingFails
  <2> QED BY <2>1, <2>2, CommandCancels
<1> QED BY <1>1, <1>2, <1>3, <1>4, <1>5, <1>6
-----------------------------------------------------------------------------
(* The command from its first poll to its end, and "carry logout". *)
LEMMA LoginAdvances ==
    ASSUME CLIInv,
           \/ PollRedeems \/ PollReplays \/ PollEnds \/ PollUnauthenticated
           \/ Validate \/ SaveCredential \/ ClearPending
           \/ Interrupt \/ Crash \/ Logout
    PROVE  CLIInv'
<1>0. /\ TypeOK /\ CommandHoldsPending
      /\ process.at # "idle" => process.on \in Requests
      /\ process = [at |-> process.at, on |-> process.on]
  BY DEF CLIInv, TypeOK, CommandHoldsPending
<1>1. CASE PollRedeems
  <2> DEFINE p == process.on
             row == [requests[p] EXCEPT !.state = "redeemed", !.replay = TRUE]
             old == requests[p].replaces
  <2>1. /\ process.at = "poll" /\ p \in Requests /\ pending = p
        /\ requests[p].state = "approved" /\ MayReplace(requests[p].by, old)
        /\ requests' = [requests EXCEPT ![p] = row]
        /\ credentials' = IssueCredential(p, old)
        /\ activeMembers' = activeMembers /\ shown' = shown
        /\ pending' = pending /\ file' = file /\ kept' = kept
    BY <1>1, <1>0 DEF PollRedeems, Redeem, CanRedeem, CommandHoldsPending
  <2>2. process' = [at |-> "validate", on |-> p] \/ process' = process
    BY <1>1, <1>0 DEF PollRedeems, Step
  <2>3. requests[p] \in Request /\ old \in Requests \cup {NoRequest}
    BY <1>0, <2>1 DEF TypeOK, Request
  <2>4. row \in Request /\ row.state = "redeemed" /\ row.replaces = old
    BY <2>3 DEF Request, Ended
  <2>5. credentials[p] = "none" /\ (old \in Requests => credentials[old] = "live" /\ old # p)
    BY <1>0, <2>1, CLIAssumption DEF CLIInv, TypeOK, CredentialIsRedeemed, MayReplace
  <2> HIDE DEF row, old, p
  <2>6. /\ requests'[p] = row
        /\ \A q \in Requests : q # p => requests'[q] = requests[q]
    BY <1>0, <2>1 DEF TypeOK
  <2>7. /\ credentials' \in [Requests -> {"none", "live", "revoked", "expired"}]
        /\ credentials'[p] = "live"
        /\ old \in Requests => credentials'[old] = "revoked"
        /\ \A q \in Requests : q # p /\ q # old => credentials'[q] = credentials[q]
    BY <1>0, <2>1, <2>5 DEF TypeOK, IssueCredential
  <2>8. TypeOK'
    <3>1. requests' \in [Requests -> Request]
      BY <1>0, <2>1, <2>4 DEF TypeOK
    <3>2. process' \in [at: Places, on: Requests \cup {NoRequest}]
      BY <1>0, <2>1, <2>2 DEF TypeOK, Places
    <3> QED BY <1>0, <2>1, <2>7, <3>1, <3>2 DEF TypeOK
  <2>9. CommandHoldsPending'
    BY <1>0, <2>1, <2>2, CLIAssumption DEF CommandHoldsPending, p
  <2>10. CredentialIsRedeemed'
    BY <2>4, <2>5, <2>6, <2>7 DEF CLIInv, CredentialIsRedeemed
  <2>11. ReplacedHasEnded'
    <3>1. SUFFICES ASSUME NEW q \in Requests, requests'[q].state = "redeemed",
                          requests'[q].replaces # NoRequest
                   PROVE  credentials'[requests'[q].replaces] \in {"revoked", "expired"}
      BY DEF ReplacedHasEnded
    <3>2. CASE q = p
      BY <3>1, <3>2, <2>3, <2>4, <2>6, <2>7
    <3>3. CASE q # p
      <4>1. requests'[q] = requests[q] /\ requests[q].replaces \in Requests
        BY <3>1, <3>3, <2>6, <1>0 DEF TypeOK, Request
      <4>2. credentials[requests[q].replaces] \in {"revoked", "expired"}
        BY <3>1, <4>1 DEF CLIInv, ReplacedHasEnded
      <4> QED BY <4>1, <4>2, <2>5, <2>7
    <3> QED BY <3>2, <3>3
  <2>12. CredentialIsRecoverable'
    BY <2>1, <2>5, <2>6, <2>7, CLIAssumption DEF CLIInv, CredentialIsRecoverable
  <2> QED BY <2>8, <2>9, <2>10, <2>11, <2>12 DEF CLIInv
<1>2. ASSUME PollReplays \/ Validate \/ PollUnauthenticated \/ Crash
      PROVE  CLIInv'
  <2>1. /\ process.at # "idle" /\ process.on \in Requests
        /\ \/ process' = Idle
           \/ /\ process.at = "poll" /\ process' = [at |-> "validate", on |-> process.on]
           \/ /\ process.at = "validate" /\ process' = [at |-> "keep", on |-> process.on]
        /\ activeMembers' = activeMembers /\ requests' = requests
        /\ credentials' = credentials /\ shown' = shown
        /\ pending' = pending /\ file' = file /\ kept' = kept
    BY <1>0, <1>2 DEF PollReplays, Validate, PollUnauthenticated, Crash, Step, Stop, server
  <2>2. TypeOK'
    BY <1>0, <2>1 DEF TypeOK, Places, Idle
  <2>3. CommandHoldsPending'
    BY <1>0, <2>1, CLIAssumption DEF CommandHoldsPending, Idle
  <2> QED BY <2>1, <2>2, <2>3 DEF CLIInv, CredentialIsRedeemed, ReplacedHasEnded,
             CredentialIsRecoverable
<1>3. CASE PollEnds
  <2>1. /\ process.on \in Requests /\ pending = process.on /\ pending' = NoRequest
        /\ requests[process.on].state # "redeemed" /\ process' = Idle
        /\ activeMembers' = activeMembers /\ requests' = requests
        /\ credentials' = credentials /\ shown' = shown /\ file' = file /\ kept' = kept
    BY <1>0, <1>3 DEF PollEnds, IsRefused, Stop, server, CommandHoldsPending
  <2>2. TypeOK'
    BY <1>0, <2>1 DEF TypeOK, Places, Idle
  <2>3. CommandHoldsPending'
    BY <2>1, CLIAssumption DEF CommandHoldsPending, Idle
  <2>4. CredentialIsRecoverable'
    BY <2>1 DEF CLIInv, CredentialIsRecoverable, CredentialIsRedeemed
  <2> QED BY <2>1, <2>2, <2>3, <2>4 DEF CLIInv, CredentialIsRedeemed, ReplacedHasEnded
<1>4. CASE SaveCredential
  <2>1. /\ process.on \in Requests /\ pending = process.on
        /\ process' = [at |-> "clear", on |-> process.on]
    BY <1>0, <1>4 DEF SaveCredential, Step, CommandHoldsPending
  <2>2. TypeOK'
    BY <1>0, <1>4, <2>1 DEF SaveCredential, server, TypeOK, Places
  <2>3. CommandHoldsPending'
    BY <1>4, <2>1, CLIAssumption DEF SaveCredential, CommandHoldsPending
  <2> QED BY <1>4, <2>2, <2>3 DEF SaveCredential, server, CLIInv, CredentialIsRedeemed,
             ReplacedHasEnded, CredentialIsRecoverable
<1>5. CASE ClearPending
  <2>1. /\ process.on \in kept /\ pending = process.on /\ pending' = NoRequest
        /\ process' = Idle
        /\ activeMembers' = activeMembers /\ requests' = requests
        /\ credentials' = credentials /\ shown' = shown /\ file' = file /\ kept' = kept
    BY <1>0, <1>5 DEF ClearPending, Stop, server, CommandHoldsPending
  <2>2. TypeOK'
    BY <1>0, <2>1 DEF TypeOK, Places, Idle
  <2>3. CommandHoldsPending'
    BY <2>1, CLIAssumption DEF CommandHoldsPending, Idle
  <2> QED BY <2>1, <2>2, <2>3 DEF CLIInv, CredentialIsRedeemed, ReplacedHasEnded,
             CredentialIsRecoverable
<1>6. CASE Interrupt
  <2>1. /\ process.on \in Requests /\ pending = process.on /\ process' = Idle
        /\ activeMembers' = activeMembers /\ credentials' = credentials /\ shown' = shown
        /\ file' = file /\ kept' = kept
        /\ Cancels
    BY <1>0, <1>6 DEF Interrupt, AfterInterrupt, Stop, CommandHoldsPending, Cancels
  <2> QED BY <2>1, CommandCancels
<1>7. CASE Logout
  <2>1. CASE credentials[file] = "live"
    BY <1>0, <1>7, <2>1, CredentialEnds DEF Logout, TypeOK
  <2>2. CASE credentials[file] # "live"
    <3>1. credentials' = credentials
      BY <1>0, <1>7, <2>2 DEF Logout, TypeOK
    <3> QED BY <1>0, <1>7, <3>1 DEF Logout, CLIInv, TypeOK, CredentialIsRedeemed,
               ReplacedHasEnded, CommandHoldsPending, CredentialIsRecoverable
  <2> QED BY <2>1, <2>2
<1> QED BY <1>1, <1>2, <1>3, <1>4, <1>5, <1>6, <1>7

-----------------------------------------------------------------------------
(* CLIInv is an invariant: it holds when no login was ever begun and every
   step of a person, of the server, of time and of the command keeps it. *)
THEOREM Invariance == Spec => []CLIInv
<1>1. ASSUME Init PROVE CLIInv
  <2>1. TypeOK
    BY <1>1 DEF Init, TypeOK, Request, Idle, Places
  <2>2. CredentialIsRedeemed /\ ReplacedHasEnded /\ CredentialIsRecoverable
    BY <1>1 DEF Init, CredentialIsRedeemed, ReplacedHasEnded, CredentialIsRecoverable
  <2>3. CommandHoldsPending
    BY <1>1 DEF Init, CommandHoldsPending, Idle
  <2> QED BY <2>1, <2>2, <2>3 DEF CLIInv
<1>2. ASSUME CLIInv, [Next]_vars PROVE CLIInv'
  <2>1. ASSUME NEW u \in Users, RemoveSpaceMember(u) PROVE CLIInv'
    BY <1>2, <2>1 DEF RemoveSpaceMember, CLIInv, TypeOK, CredentialIsRedeemed,
                      ReplacedHasEnded, CommandHoldsPending, CredentialIsRecoverable
  <2>2. CASE UNCHANGED vars
    BY <1>2, <2>2 DEF vars, CLIInv, TypeOK, CredentialIsRedeemed,
                      ReplacedHasEnded, CommandHoldsPending, CredentialIsRecoverable
  <2> QED BY <1>2, <2>1, <2>2, ServerStepKeepsInv, LoginStarts, LoginAdvances DEF Next
<1> QED BY <1>1, <1>2, PTL DEF Spec

(* A replacement is a swap, however many logins replace one another: the
   credential a redeemed request names as replaced is never usable. *)
THEOREM Swapped == Spec => []ReplacementIsSwap
<1>1. CLIInv => ReplacementIsSwap
  BY DEF CLIInv, ReplacedHasEnded, ReplacementIsSwap
<1> QED BY <1>1, Invariance, PTL

(* No crash, lost answer or failed write loses a credential while it can
   still be asked for again. *)
THEOREM Recoverable == Spec => []CredentialIsRecoverable
<1>1. CLIInv => CredentialIsRecoverable
  BY DEF CLIInv
<1> QED BY <1>1, Invariance, PTL

(* A request ends once, and one that was denied or cancelled never has a
   credential. *)
THEOREM EndsOnce == Spec => RequestEndsOnce
<1>1. ASSUME CLIInv, Next, NEW r \in Requests, requests[r].state \in Ended
      PROVE  /\ requests'[r].state = requests[r].state
             /\ credentials[r] = "none" => credentials'[r] = "none"
  <2>0. /\ TypeOK /\ requests[r].state \notin {"none", "open", "approved"}
        /\ process.at = "begin" => process.on # r
    BY <1>1 DEF CLIInv, CommandHoldsPending, Ended
  <2>1. ASSUME NEW q \in Requests,
               \/ \E u \in Users, old \in Requests \cup {NoRequest} : ApproveCLILogin(u, q, old)
               \/ DenyCLILogin(q) \/ RevokeFromBrowser(q)
               \/ RequestExpires(q) \/ ReplayEnds(q) \/ CredentialExpires(q)
        PROVE  /\ requests'[r].state = requests[r].state
               /\ credentials[r] = "none" => credentials'[r] = "none"
    <3>1. ASSUME NEW u \in Users, NEW old \in Requests \cup {NoRequest},
                 ApproveCLILogin(u, q, old)
          PROVE  requests'[r] = requests[r] /\ credentials' = credentials
      BY <2>0, <3>1 DEF TypeOK, ApproveCLILogin
    <3>2. CASE DenyCLILogin(q)
      BY <2>0, <3>2 DEF TypeOK, DenyCLILogin
    <3>3. CASE RevokeFromBrowser(q) \/ CredentialExpires(q)
      BY <2>0, <3>3 DEF TypeOK, RevokeFromBrowser, CredentialExpires
    <3>4. CASE RequestExpires(q) \/ ReplayEnds(q)
      BY <2>0, <3>4 DEF TypeOK, Request, RequestExpires, ReplayEnds
    <3> QED BY <2>1, <3>1, <3>2, <3>3, <3>4
  <2>2. CASE BeginCLILogin \/ SavePendingFails \/ Interrupt
    BY <2>0, <2>2 DEF TypeOK, BeginCLILogin, SavePendingFails, Interrupt, CanCancel, IsLive
  <2>3. CASE PollRedeems
    <3>1. CanRedeem(process.on) /\ process.on # r
      BY <2>0, <2>3 DEF PollRedeems, Redeem, CanRedeem
    <3>2. requests'[r] = requests[r]
      BY <2>0, <2>3, <3>1 DEF TypeOK, PollRedeems, Redeem
    <3>3. requests[process.on].replaces = r => credentials[r] = "live"
      BY <3>1, <1>1, CLIAssumption DEF CanRedeem, MayReplace
    <3>4. credentials'[r] = credentials[r] \/ credentials[r] = "live"
      BY <1>1, <2>3, <3>1, <3>3 DEF PollRedeems, Redeem, IssueCredential
    <3> QED BY <3>2, <3>4
  <2>4. CASE Logout
    BY <2>0, <2>4 DEF TypeOK, Logout
  <2>5. ASSUME \/ \E q \in Requests : StartLogin(q)
               \/ \E u \in Users : RemoveSpaceMember(u)
               \/ DropPending \/ ResumeLogin \/ SavePending
               \/ PollReplays \/ PollEnds \/ PollUnauthenticated
               \/ Validate \/ SaveCredential \/ ClearPending \/ Crash
        PROVE  requests' = requests /\ credentials' = credentials
    BY <2>5 DEF StartLogin, RemoveSpaceMember, DropPending, ResumeLogin, SavePending,
         PollReplays, PollEnds, PollUnauthenticated, Validate, SaveCredential,
         ClearPending, Crash, server
  <2> QED BY <1>1, <2>1, <2>2, <2>3, <2>4, <2>5 DEF Next
<1>2. ASSUME CLIInv, Next
      PROVE  \A r \in Requests : requests[r].state \in Ended =>
               /\ requests'[r].state = requests[r].state
               /\ credentials[r] = "none" => credentials'[r] = "none"
  BY <1>1, <1>2
<1> QED BY <1>2, Invariance, PTL DEF Spec, RequestEndsOnce
-----------------------------------------------------------------------------
(* The refinement of DeviceGrant. *)

(* What a change of one request's row changes of the grants. *)
LEMMA RowMoves ==
    ASSUME TypeOK, NEW r \in Requests, NEW row, requests' = [requests EXCEPT ![r] = row]
    PROVE  /\ Phases' = [Phases EXCEPT ![r] = PhaseOf(row)]
           /\ Granters' = [Granters EXCEPT ![r] = row.by]
<1>1. \A q \in Requests : requests'[q] = IF q = r THEN row ELSE requests[q]
  BY DEF TypeOK
<1>2. \A q \in Requests : Phases'[q] = IF q = r THEN PhaseOf(row) ELSE Phases[q]
  BY <1>1 DEF Phases
<1>3. \A q \in Requests : Granters'[q] = IF q = r THEN row.by ELSE Granters[q]
  BY <1>1 DEF Granters
<1>4. Phases' = [Phases EXCEPT ![r] = PhaseOf(row)]
  BY <1>2 DEF Phases
<1>5. Granters' = [Granters EXCEPT ![r] = row.by]
  BY <1>3 DEF Granters
<1> QED BY <1>4, <1>5

(* A request that is denied, cancelled or overdue is refused. *)
LEMMA RowIsRefused ==
    ASSUME TypeOK, NEW r \in Requests, NEW row, requests' = [requests EXCEPT ![r] = row],
           PhaseOf(requests[r]) \in {"asked", "granted"}, PhaseOf(row) = "refused",
           row.by = requests[r].by, credentials' = credentials, activeMembers' = activeMembers
    PROVE  Grants!Next
<1>1. Phases' = [Phases EXCEPT ![r] = "refused"] /\ Granters' = [Granters EXCEPT ![r] = row.by]
  BY RowMoves
<1>2. Granters' = Granters /\ LiveCredentials' = LiveCredentials
  BY <1>1 DEF Granters, LiveCredentials
<1>3. Phases[r] \in {"asked", "granted"}
  BY DEF Phases
<1>4. Phases' = [q \in Requests |-> IF q \in {r} THEN "refused" ELSE Phases[q]]
  BY <1>1 DEF Phases
<1>5. Grants!Refuse({r})
  BY <1>2, <1>3, <1>4 DEF Grants!Refuse
<1> QED BY <1>5 DEF Grants!Next

(* A row that stays in its phase is nothing to the grants. *)
LEMMA RowStays ==
    ASSUME TypeOK, NEW r \in Requests, NEW row, requests' = [requests EXCEPT ![r] = row],
           PhaseOf(row) = PhaseOf(requests[r]), row.by = requests[r].by,
           credentials' = credentials, activeMembers' = activeMembers
    PROVE  UNCHANGED Grants!grantVars
<1>1. /\ Phases' = [Phases EXCEPT ![r] = PhaseOf(row)]
      /\ Granters' = [Granters EXCEPT ![r] = row.by]
  BY RowMoves
<1>2. Phases' = Phases /\ Granters' = Granters
  BY <1>1 DEF Phases, Granters
<1> QED BY <1>2 DEF Grants!grantVars, LiveCredentials

(* An approval is a grant, by an active member. *)
LEMMA ApproveGrants ==
    ASSUME TypeOK, NEW u \in Users, NEW r \in Requests, NEW old \in Requests \cup {NoRequest},
           ApproveCLILogin(u, r, old)
    PROVE  Grants!Next
<1> DEFINE row == [requests[r] EXCEPT !.state = "approved", !.by = u, !.replaces = old]
<1>0. requests[r] \in Request
  BY DEF TypeOK
<1>1. /\ requests' = [requests EXCEPT ![r] = row] /\ requests[r].state = "open"
      /\ ~ requests[r].over /\ u \in activeMembers
      /\ credentials' = credentials /\ activeMembers' = activeMembers
  BY DEF ApproveCLILogin
<1>2. row.state = "approved" /\ row.by = u /\ ~ row.over
  BY <1>0, <1>1 DEF Request
<1>3. PhaseOf(requests[r]) = "asked" /\ PhaseOf(row) = "granted"
  BY <1>1, <1>2 DEF PhaseOf, Ended
<1> HIDE DEF row
<1>4. Phases' = [Phases EXCEPT ![r] = "granted"] /\ Granters' = [Granters EXCEPT ![r] = u]
  <2>1. /\ Phases' = [Phases EXCEPT ![r] = PhaseOf(row)]
        /\ Granters' = [Granters EXCEPT ![r] = row.by]
    BY ONLY <1>1, TypeOK, RowMoves
  <2> QED BY ONLY <1>2, <1>3, <2>1
<1>5. Grants!Grant(r, u)
  BY <1>1, <1>3, <1>4 DEF Grants!Grant, Phases, LiveCredentials
<1> QED BY <1>5 DEF Grants!Next

(* A request whose row is given this state or this deadline. *)
LEMMA ChangedRow ==
    ASSUME NEW row \in Request
    PROVE  /\ \A state : LET new == [row EXCEPT !.state = state]
                         IN  new.state = state /\ new.by = row.by /\ new.over = row.over
           /\ LET new == [row EXCEPT !.over = TRUE]
              IN  new.state = row.state /\ new.by = row.by /\ new.over
           /\ LET new == [row EXCEPT !.replay = FALSE]
              IN  new.state = row.state /\ new.by = row.by /\ new.over = row.over
  BY DEF Request

(* A cancellation refuses a live request and leaves every other. *)
LEMMA CancelRefuses ==
    ASSUME TypeOK, NEW r \in Requests, CanCancel(r),
           requests' = [requests EXCEPT ![r].state = "cancelled"],
           credentials' = credentials, activeMembers' = activeMembers
    PROVE  Grants!Next
<1> DEFINE row == [requests[r] EXCEPT !.state = "cancelled"]
<1>1. requests[r] \in Request /\ requests' = [requests EXCEPT ![r] = row]
  BY DEF TypeOK
<1>2. row.state = "cancelled" /\ row.by = requests[r].by
  BY <1>1, ChangedRow
<1>3. PhaseOf(requests[r]) \in {"asked", "granted"} /\ PhaseOf(row) = "refused"
  BY <1>2 DEF CanCancel, IsLive, PhaseOf, Ended
<1> HIDE DEF row
<1> QED BY <1>1, <1>2, <1>3, RowIsRefused
(* A denial refuses; the end of a request's time does unless it has ended. *)
LEMMA DenyOrExpireRefuses ==
    ASSUME TypeOK, NEW r \in Requests, DenyCLILogin(r) \/ RequestExpires(r) \/ ReplayEnds(r)
    PROVE  [Grants!Next]_Grants!grantVars
<1>0. requests[r] \in Request
  BY DEF TypeOK
<1>1. CASE DenyCLILogin(r)
  <2> DEFINE row == [requests[r] EXCEPT !.state = "denied"]
  <2>1. /\ requests' = [requests EXCEPT ![r] = row] /\ requests[r].state = "open"
        /\ ~ requests[r].over /\ credentials' = credentials /\ activeMembers' = activeMembers
    BY <1>1 DEF DenyCLILogin
  <2>2. row.state = "denied" /\ row.by = requests[r].by
    BY <1>0, ChangedRow
  <2>3. PhaseOf(requests[r]) = "asked" /\ PhaseOf(row) = "refused"
    BY <2>1, <2>2 DEF PhaseOf, Ended
  <2> HIDE DEF row
  <2> QED BY ONLY <2>1, <2>2, <2>3, TypeOK, RowIsRefused
<1>2. CASE RequestExpires(r)
  <2> DEFINE row == [requests[r] EXCEPT !.over = TRUE]
  <2>1. /\ requests' = [requests EXCEPT ![r] = row] /\ requests[r].state # "none"
        /\ ~ requests[r].over /\ credentials' = credentials /\ activeMembers' = activeMembers
    BY <1>2 DEF RequestExpires
  <2>2. row.state = requests[r].state /\ row.by = requests[r].by /\ row.over
    BY <1>0, ChangedRow
  <2>3. \/ PhaseOf(row) = PhaseOf(requests[r])
        \/ PhaseOf(requests[r]) \in {"asked", "granted"} /\ PhaseOf(row) = "refused"
    BY <1>0, <2>1, <2>2 DEF PhaseOf, Ended, Request
  <2> HIDE DEF row
  <2> QED BY ONLY <2>1, <2>2, <2>3, TypeOK, RowIsRefused, RowStays
<1>3. CASE ReplayEnds(r)
  <2> DEFINE row == [requests[r] EXCEPT !.replay = FALSE]
  <2>1. /\ requests' = [requests EXCEPT ![r] = row]
        /\ credentials' = credentials /\ activeMembers' = activeMembers
    BY <1>3 DEF ReplayEnds
  <2>2. row.state = requests[r].state /\ row.by = requests[r].by /\ row.over = requests[r].over
    BY <1>0, ChangedRow
  <2>3. PhaseOf(row) = PhaseOf(requests[r])
    BY <2>2 DEF PhaseOf
  <2> HIDE DEF row
  <2> QED BY ONLY <2>1, <2>2, <2>3, TypeOK, RowStays
<1> QED BY <1>1, <1>2, <1>3

(* Begin asks, if the request is admitted. *)
LEMMA BeginAsks ==
    ASSUME CLIInv, NewIsNotOver, BeginCLILogin
    PROVE  [Grants!Next]_Grants!grantVars
<1>0. TypeOK /\ credentials' = credentials /\ activeMembers' = activeMembers
  BY DEF CLIInv, BeginCLILogin
<1>1. CASE requests' = requests
  BY <1>0, <1>1 DEF Grants!grantVars, Phases, Granters, LiveCredentials
<1>2. CASE requests' # requests
  <2> DEFINE r == process.on
             old == IF file # NoRequest /\ credentials[file] # "expired" THEN file ELSE NoRequest
             row == [requests[r] EXCEPT !.state = "open", !.replaces = old]
  <2>1. r \in Requests /\ requests[r].state = "none" /\ ~ requests[r].over /\ requests[r] \in Request
    <3>1. process.at = "begin" /\ process.on \in Requests
      BY <1>0, CLIAssumption DEF BeginCLILogin, CLIInv, CommandHoldsPending, TypeOK
    <3> QED BY <3>1, <1>0 DEF CLIInv, CommandHoldsPending, TypeOK, NewIsNotOver
  <2>2. requests' = [requests EXCEPT ![r] = row]
    BY <1>2 DEF BeginCLILogin
  <2>3. row.state = "open" /\ ~ row.over /\ row.by = requests[r].by
    BY <2>1 DEF Request
  <2>4. PhaseOf(requests[r]) = "none" /\ PhaseOf(row) = "asked"
    BY <2>1, <2>3 DEF PhaseOf, Ended
  <2> HIDE DEF row
  <2>5. /\ Phases' = [Phases EXCEPT ![r] = PhaseOf(row)]
        /\ Granters' = [Granters EXCEPT ![r] = row.by]
    BY ONLY <1>0, <2>1, <2>2, RowMoves
  <2>6. /\ Phases[r] = "none" /\ Phases' = [Phases EXCEPT ![r] = "asked"]
        /\ Granters' = Granters
    BY <2>1, <2>3, <2>4, <2>5 DEF Phases, Granters
  <2>7. Grants!Ask(r)
    BY <1>0, <2>6 DEF Grants!Ask, LiveCredentials
  <2> QED BY <2>1, <2>7 DEF Grants!Next
<1> QED BY <1>1, <1>2

(* The poll that redeems issues, in exchange for the approver's own live
   credential if the request names one. *)
LEMMA RedeemIssues ==
    ASSUME CLIInv, PollRedeems
    PROVE  Grants!Next
<1> DEFINE r == process.on
           old == requests[r].replaces
           row == [requests[r] EXCEPT !.state = "redeemed", !.replay = TRUE]
<1>0. TypeOK /\ activeMembers' = activeMembers
  BY DEF CLIInv, PollRedeems
<1>1. r \in Requests /\ requests[r] \in Request
  <2>1. process.at = "poll"
    BY DEF PollRedeems
  <2> QED BY <1>0, <2>1 DEF CLIInv, CommandHoldsPending, TypeOK
<1>2. /\ requests' = [requests EXCEPT ![r] = row]
      /\ requests[r].state = "approved" /\ ~ requests[r].over
      /\ MayReplace(requests[r].by, old)
      /\ credentials' = IssueCredential(r, old)
  BY DEF PollRedeems, Redeem, CanRedeem
<1>3. row.state = "redeemed" /\ row.by = requests[r].by
  BY <1>1 DEF Request
<1>4. PhaseOf(requests[r]) = "granted" /\ PhaseOf(row) = "issued"
  BY <1>2, <1>3 DEF PhaseOf, Ended
<1> HIDE DEF row
<1>5. /\ Phases' = [Phases EXCEPT ![r] = PhaseOf(row)]
      /\ Granters' = [Granters EXCEPT ![r] = row.by]
  BY ONLY <1>0, <1>1, <1>2, RowMoves
<1>6. Grants!Issue(r)
  BY <1>0, <1>1, <1>3, <1>4, <1>5 DEF Grants!Issue, Phases, Granters
<1>7. CASE old = NoRequest
  <2>1. LiveCredentials' = LiveCredentials \cup {r}
    BY <1>1, <1>2, <1>7, CLIAssumption DEF LiveCredentials, IssueCredential
  <2>2. Grants!IssueNew(r)
    BY <1>6, <2>1 DEF Grants!IssueNew
  <2> QED BY <1>1, <2>2 DEF Grants!Next
<1>8. CASE old # NoRequest
  <2>1. old \in Requests /\ credentials[old] = "live" /\ requests[old].by = requests[r].by
    BY <1>1, <1>2, <1>8 DEF MayReplace, Request
  <2>2. LiveCredentials' = (LiveCredentials \ {old}) \cup {r}
    BY <1>1, <1>2 DEF LiveCredentials, IssueCredential
  <2>3. old \in LiveCredentials /\ Granters[old] = Granters[r]
    BY <1>1, <2>1 DEF LiveCredentials, Granters
  <2>4. Grants!Replace(r, old)
    BY <1>6, <2>2, <2>3 DEF Grants!Replace
  <2> QED BY <1>1, <2>1, <2>4 DEF Grants!Next
<1> QED BY <1>7, <1>8

(* Revocation, expiry and logout withdraw at most one credential. *)
LEMMA EndWithdraws ==
    ASSUME TypeOK, Logout \/ \E r \in Requests : RevokeFromBrowser(r) \/ CredentialExpires(r)
    PROVE  [Grants!Next]_Grants!grantVars
<1>1. PICK r \in Requests, end \in {"none", "revoked", "expired", "live"} :
        /\ credentials' = [credentials EXCEPT ![r] = end]
        /\ end = "live" => credentials[r] = "live"
  <2>1. CASE Logout
    <3>1. file \in Requests
      BY <2>1 DEF TypeOK, Logout
    <3>2. credentials' = [credentials EXCEPT ![file] =
                            IF credentials[file] = "live" THEN "revoked" ELSE credentials[file]]
      BY <2>1 DEF Logout
    <3> QED BY <3>1, <3>2 DEF TypeOK
  <2>2. CASE \E r \in Requests : RevokeFromBrowser(r) \/ CredentialExpires(r)
    BY <2>2 DEF RevokeFromBrowser, CredentialExpires
  <2> QED BY <2>1, <2>2
<1>2. requests' = requests /\ activeMembers' = activeMembers
  BY DEF Logout, RevokeFromBrowser, CredentialExpires
<1>3. LiveCredentials' = LiveCredentials \/ LiveCredentials' = LiveCredentials \ {r}
  BY <1>1 DEF LiveCredentials, TypeOK
<1>4. Phases' = Phases /\ Granters' = Granters
  BY <1>2 DEF Phases, Granters
<1>5. Grants!Withdraw(r) \/ UNCHANGED Grants!grantVars
  BY <1>2, <1>3, <1>4 DEF Grants!Withdraw, Grants!grantVars
<1> QED BY <1>5 DEF Grants!Next
(* What else the command does changes no table. *)
LEMMA CommandIsQuiet ==
    ASSUME \/ \E q \in Requests : StartLogin(q)
           \/ DropPending \/ ResumeLogin \/ SavePending
           \/ PollReplays \/ PollEnds \/ PollUnauthenticated
           \/ Validate \/ SaveCredential \/ ClearPending \/ Crash
           \/ UNCHANGED vars
    PROVE  UNCHANGED Grants!grantVars
<1>1. UNCHANGED <<requests, credentials, activeMembers>>
  BY DEF StartLogin, DropPending, ResumeLogin, SavePending, PollReplays, PollEnds,
         PollUnauthenticated, Validate, SaveCredential, ClearPending, Crash, server, vars
<1> QED BY <1>1 DEF Grants!grantVars, Phases, Granters, LiveCredentials

(* The command cancels the request it is at, or leaves the tables alone. *)
LEMMA InterruptRefuses ==
    ASSUME CLIInv, SavePendingFails \/ Interrupt
    PROVE  [Grants!Next]_Grants!grantVars
<1>1. TypeOK /\ credentials' = credentials /\ activeMembers' = activeMembers
  BY DEF CLIInv, SavePendingFails, Interrupt
<1>2. process.on \in Requests
  <2>1. process.at \in {"save", "poll"}
    BY DEF SavePendingFails, Interrupt
  <2> QED BY <1>1, <2>1 DEF CLIInv, CommandHoldsPending, TypeOK
<1>3. CASE requests' = requests
  BY <1>1, <1>3 DEF Grants!grantVars, Phases, Granters, LiveCredentials
<1>4. CASE requests' # requests
  <2>1. /\ CanCancel(process.on)
        /\ requests' = [requests EXCEPT ![process.on].state = "cancelled"]
    BY <1>4 DEF SavePendingFails, Interrupt
  <2> QED BY <1>1, <1>2, <2>1, CancelRefuses
<1> QED BY <1>3, <1>4

(* The time of a request starts with it. *)
LEMMA NewStaysNotOver ==
    ASSUME CLIInv, NewIsNotOver, [Next]_vars
    PROVE  NewIsNotOver'
<1> SUFFICES ASSUME NEW r \in Requests, requests'[r].state = "none", requests'[r].over
             PROVE  FALSE
  BY DEF NewIsNotOver
<1>0. TypeOK /\ requests[r] \in Request /\ (requests[r].state = "none" => ~ requests[r].over)
  BY DEF CLIInv, TypeOK, NewIsNotOver
<1>1. ASSUME NEW q \in Requests, NEW row,
             requests' = [requests EXCEPT ![q] = row], row.state = "none" => ~ row.over
      PROVE  FALSE
  BY <1>0, <1>1 DEF TypeOK
<1>2. ASSUME NEW q \in Requests,
             \/ \E u \in Users, old \in Requests \cup {NoRequest} : ApproveCLILogin(u, q, old)
             \/ DenyCLILogin(q)
      PROVE  FALSE
  <2>0. requests[q] \in Request
    BY <1>0 DEF TypeOK
  <2>1. ASSUME NEW u \in Users, NEW old \in Requests \cup {NoRequest}, ApproveCLILogin(u, q, old)
        PROVE  FALSE
    <3> DEFINE row == [requests[q] EXCEPT !.state = "approved", !.by = u, !.replaces = old]
    <3>1. requests' = [requests EXCEPT ![q] = row]
      BY <2>1 DEF ApproveCLILogin
    <3>2. row.state = "approved"
      BY <2>0 DEF Request
    <3> HIDE DEF row
    <3> QED BY <1>1, <3>1, <3>2
  <2>2. CASE DenyCLILogin(q)
    <3> DEFINE row == [requests[q] EXCEPT !.state = "denied"]
    <3>1. requests' = [requests EXCEPT ![q] = row]
      BY <2>2 DEF DenyCLILogin
    <3>2. row.state = "denied"
      BY <2>0 DEF Request
    <3> HIDE DEF row
    <3> QED BY <1>1, <3>1, <3>2
  <2> QED BY <1>2, <2>1, <2>2
<1>3. ASSUME NEW q \in Requests, RequestExpires(q) \/ ReplayEnds(q)
      PROVE  FALSE
  BY <1>0, <1>3 DEF TypeOK, RequestExpires, ReplayEnds, Request
<1>4. CASE PollRedeems
  <2> DEFINE q == process.on
             row == [requests[q] EXCEPT !.state = "redeemed", !.replay = TRUE]
  <2>1. q \in Requests /\ requests[q] \in Request
    <3>1. process.at = "poll"
      BY <1>4 DEF PollRedeems
    <3> QED BY <1>0, <3>1 DEF CLIInv, CommandHoldsPending, TypeOK
  <2>2. requests' = [requests EXCEPT ![q] = row]
    BY <1>4 DEF PollRedeems, Redeem
  <2>3. row.state = "redeemed"
    BY <2>1 DEF Request
  <2> HIDE DEF row
  <2> QED BY <1>1, <2>1, <2>2, <2>3
<1>5. CASE BeginCLILogin
  <2> DEFINE q == process.on
             old == IF file # NoRequest /\ credentials[file] # "expired" THEN file ELSE NoRequest
             row == [requests[q] EXCEPT !.state = "open", !.replaces = old]
  <2>1. q \in Requests /\ requests[q] \in Request
    <3>1. process.at = "begin"
      BY <1>5 DEF BeginCLILogin
    <3> QED BY <1>0, <3>1 DEF CLIInv, CommandHoldsPending, TypeOK
  <2>2. requests' = requests \/ requests' = [requests EXCEPT ![q] = row]
    BY <1>5 DEF BeginCLILogin
  <2>3. row.state = "open"
    BY <2>1 DEF Request
  <2> HIDE DEF row
  <2> QED BY <1>0, <1>1, <2>1, <2>2, <2>3
<1>6. CASE SavePendingFails \/ Interrupt
  <2> DEFINE q == process.on
             row == [requests[q] EXCEPT !.state = "cancelled"]
  <2>1. q \in Requests /\ requests[q] \in Request
    <3>1. process.at \in {"save", "poll"}
      BY <1>6 DEF SavePendingFails, Interrupt
    <3> QED BY <1>0, <3>1 DEF CLIInv, CommandHoldsPending, TypeOK
  <2>2. requests' = requests \/ requests' = [requests EXCEPT ![q] = row]
    BY <1>6 DEF SavePendingFails, Interrupt
  <2>3. row.state = "cancelled"
    BY <2>1 DEF Request
  <2> HIDE DEF row
  <2> QED BY <1>0, <1>1, <2>1, <2>2, <2>3
<1>7. ASSUME \/ \E q \in Requests : StartLogin(q) \/ RevokeFromBrowser(q) \/ CredentialExpires(q)
             \/ \E u \in Users : RemoveSpaceMember(u)
             \/ DropPending \/ ResumeLogin \/ SavePending
             \/ PollReplays \/ PollEnds \/ PollUnauthenticated
             \/ Validate \/ SaveCredential \/ ClearPending \/ Crash \/ Logout
             \/ UNCHANGED vars
      PROVE  FALSE
  <2>1. requests' = requests
    BY <1>7 DEF StartLogin, RevokeFromBrowser, CredentialExpires, RemoveSpaceMember,
         DropPending, ResumeLogin, SavePending, PollReplays, PollEnds, PollUnauthenticated,
         Validate, SaveCredential, ClearPending, Crash, Logout, server, vars
  <2> QED BY <1>0, <2>1
<1> QED BY <1>2, <1>3, <1>4, <1>5, <1>6, <1>7 DEF Next

(* Polls, lost answers, repetitions, files and crashes implement the grant of
   one credential (BeginCLILogin, ApproveCLILogin, DenyCLILogin, PollCLILogin,
   CancelCLILogin, RevokeCLICredential and the command that calls them). *)
THEOREM LoginIsGrant == Spec => ImplementsGrant
<1>1. ASSUME Init PROVE Grants!Init /\ NewIsNotOver
  <2>1. Phases = [r \in Requests |-> "none"] /\ Granters = [r \in Requests |-> NoUser]
    BY <1>1 DEF Init, Phases, Granters, PhaseOf
  <2>2. LiveCredentials = {} /\ activeMembers \subseteq Users /\ NewIsNotOver
    BY <1>1 DEF Init, LiveCredentials, NewIsNotOver
  <2> QED BY <2>1, <2>2 DEF Grants!Init
<1>2. ASSUME CLIInv, NewIsNotOver, [Next]_vars
      PROVE  [Grants!Next]_Grants!grantVars
  <2>0. TypeOK
    BY <1>2 DEF CLIInv
  <2>1. ASSUME NEW u \in Users, RemoveSpaceMember(u) PROVE Grants!Next
    <3>1. UNCHANGED <<requests, credentials>> /\ activeMembers' = activeMembers \ {u}
      BY <2>1 DEF RemoveSpaceMember
    <3>2. Grants!Distrust(u)
      BY <3>1 DEF Grants!Distrust, Phases, Granters, LiveCredentials
    <3> QED BY <3>2 DEF Grants!Next
  <2> QED BY <1>2, <2>0, <2>1, ApproveGrants, DenyOrExpireRefuses, BeginAsks, RedeemIssues,
             EndWithdraws, CommandIsQuiet, InterruptRefuses DEF Next
<1>3. CLIInv /\ NewIsNotOver /\ [Next]_vars => NewIsNotOver'
  BY NewStaysNotOver
<1> QED BY <1>1, <1>2, <1>3, Invariance, PTL DEF Spec, ImplementsGrant, Grants!Spec
=============================================================================
