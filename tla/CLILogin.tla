------------------------------ MODULE CLILogin ------------------------------
(***************************************************************************)
(* "carry login" and "carry logout": one command line process that may die *)
(* at any point, its two files (the pending login and the credential), and *)
(* the requests and credentials of the server, which people approve, deny  *)
(* and revoke in a Browser.                                                *)
(*                                                                         *)
(* A request and the credential redeemed from it have the same name here.  *)
(* Each operation of the server locks the request's row and is one step.   *)
(* A call whose answer is lost has happened at the server and looks like a *)
(* transport error to the process.  Calls that change nothing (an early    *)
(* or pending poll, a replayed approval, a lookup) are stuttering steps.   *)
(* The end of a request's 10 minutes, of the 5 minutes in which a          *)
(* redemption can be repeated and of a credential may come at any time.    *)
(***************************************************************************)
EXTENDS Naturals, FiniteSets

CONSTANTS
    Users, Requests,
    MaxLive,       \* live requests the server admits from one source (5)
    NoUser, NoRequest

ASSUME CLIAssumption ==
    /\ NoUser \notin Users /\ NoRequest \notin Requests
    /\ MaxLive \in Nat \ {0}

VARIABLES
    activeMembers, \* the Users with an active membership of the Space
    requests,      \* cli_login_requests
    credentials,   \* cli_credentials
    shown,         \* requests whose code a person has seen
    process,       \* the running command: its place and its request
    pending,       \* cli-login.json, the login under way
    file,          \* the credential file
    kept           \* history: credentials once written to the file

server == <<requests, credentials>>
vars == <<activeMembers, requests, credentials, shown, process, pending, file, kept>>

Ended == {"denied", "cancelled", "redeemed"}
Request == [state: {"none", "open", "approved"} \cup Ended, by: Users \cup {NoUser},
            replaces: Requests \cup {NoRequest},
            over: BOOLEAN,      \* expires_at has passed
            replay: BOOLEAN]    \* replay_until has not
Places == {"idle", "begin", "save", "poll", "validate", "keep", "clear"}

TypeOK ==
    /\ activeMembers \subseteq Users
    /\ requests \in [Requests -> Request]
    /\ credentials \in [Requests -> {"none", "live", "revoked", "expired"}]
    /\ shown \subseteq Requests /\ kept \subseteq Requests
    /\ process \in [at: Places, on: Requests \cup {NoRequest}]
    /\ {pending, file} \subseteq Requests \cup {NoRequest}

Idle == [at |-> "idle", on |-> NoRequest]

Init ==
    /\ activeMembers = Users
    /\ requests = [r \in Requests |->
                     [state |-> "none", by |-> NoUser, replaces |-> NoRequest,
                      over |-> FALSE, replay |-> FALSE]]
    /\ credentials = [r \in Requests |-> "none"]
    /\ shown = {} /\ kept = {}
    /\ process = Idle
    /\ pending = NoRequest /\ file = NoRequest

-----------------------------------------------------------------------------
(* The server *)

(* Not ended and not past expires_at. *)
IsLive(r) == requests[r].state \in {"open", "approved"} /\ ~ requests[r].over

(* CountLiveCLILoginsForSource *)
Admits == Cardinality({r \in Requests : IsLive(r)}) < MaxLive

(* The credential named as replaced must still be the approver's and live. *)
MayReplace(u, old) ==
    old # NoRequest => credentials[old] = "live" /\ requests[old].by = u

ApproveCLILogin(u, r, old) ==
    /\ r \in shown
    /\ requests[r].state = "open" /\ ~ requests[r].over
    /\ u \in activeMembers
    /\ MayReplace(u, old)
    /\ requests' = [requests EXCEPT ![r] =
                      [@ EXCEPT !.state = "approved", !.by = u, !.replaces = old]]
    /\ UNCHANGED <<activeMembers, credentials, shown, process, pending, file, kept>>

DenyCLILogin(r) ==
    /\ r \in shown
    /\ requests[r].state = "open" /\ ~ requests[r].over
    /\ requests' = [requests EXCEPT ![r].state = "denied"]
    /\ UNCHANGED <<activeMembers, credentials, shown, process, pending, file, kept>>

CanCancel(r) == IsLive(r)

(* Mutant: the old credential stays live beside the new one. *)
IssueBeside(r, old) == [credentials EXCEPT ![r] = "live"]
(* RevokeCLICredential of the replaced one and CreateCLICredential *)
IssueCredential(r, old) ==
    [c \in Requests |-> IF c = r THEN "live"
                        ELSE IF c = old THEN "revoked" ELSE credentials[c]]

(* Mutant: a poll that was approved in time is redeemed at any time. *)
RedeemsLate(r) ==
    requests[r].state = "approved" /\ MayReplace(requests[r].by, requests[r].replaces)
(* PollCLILogin: the request is approved and this poll redeems it. *)
CanRedeem(r) ==
    /\ requests[r].state = "approved" /\ ~ requests[r].over
    /\ MayReplace(requests[r].by, requests[r].replaces)

Redeem(r) ==
    /\ CanRedeem(r)
    /\ credentials' = IssueCredential(r, requests[r].replaces)
    /\ requests' = [requests EXCEPT ![r] = [@ EXCEPT !.state = "redeemed", !.replay = TRUE]]

(* PollCLILogin: the same answer again, within 5 minutes. *)
CanReplay(r) ==
    requests[r].state = "redeemed" /\ requests[r].replay /\ credentials[r] = "live"

RevokeFromBrowser(r) ==
    /\ credentials[r] = "live"
    /\ credentials' = [credentials EXCEPT ![r] = "revoked"]
    /\ UNCHANGED <<activeMembers, requests, shown, process, pending, file, kept>>

RequestExpires(r) ==
    /\ requests[r].state # "none" /\ ~ requests[r].over
    /\ requests' = [requests EXCEPT ![r].over = TRUE]
    /\ UNCHANGED <<activeMembers, credentials, shown, process, pending, file, kept>>

ReplayEnds(r) ==
    /\ requests[r].replay
    /\ requests' = [requests EXCEPT ![r].replay = FALSE]
    /\ UNCHANGED <<activeMembers, credentials, shown, process, pending, file, kept>>

CredentialExpires(r) ==
    /\ credentials[r] = "live"
    /\ credentials' = [credentials EXCEPT ![r] = "expired"]
    /\ UNCHANGED <<activeMembers, requests, shown, process, pending, file, kept>>

RemoveSpaceMember(u) ==
    /\ activeMembers' = activeMembers \ {u}
    /\ u \in activeMembers
    /\ UNCHANGED <<requests, credentials, shown, process, pending, file, kept>>

-----------------------------------------------------------------------------
(* carry login *)

Step(at) == process' = [process EXCEPT !.at = at]
Stop == process' = Idle

(* A pending login whose time is over is dropped before anything else. *)
DropPending ==
    /\ process.at = "idle" /\ pending # NoRequest /\ requests[pending].over
    /\ pending' = NoRequest
    /\ UNCHANGED <<activeMembers, server, shown, process, file, kept>>

ResumeLogin ==
    /\ process.at = "idle" /\ pending # NoRequest /\ ~ requests[pending].over
    /\ process' = [at |-> "poll", on |-> pending]
    /\ UNCHANGED <<activeMembers, server, shown, pending, file, kept>>

StartLogin(r) ==
    /\ process.at = "idle" /\ pending = NoRequest
    /\ requests[r].state = "none"
    /\ process' = [at |-> "begin", on |-> r]
    /\ UNCHANGED <<activeMembers, server, shown, pending, file, kept>>

(* begin tries a second time with the same key, so an answer that arrives is
   the request's; when both are lost the command ends and the row expires. *)
BeginCLILogin ==
    /\ process.at = "begin"
    /\ \/ /\ Admits
          /\ requests' = [requests EXCEPT ![process.on] =
                            [@ EXCEPT !.state = "open",
                                      !.replaces = IF file # NoRequest /\ credentials[file] # "expired"
                                                     THEN file ELSE NoRequest]]
          /\ Step("save") \/ Stop
       \/ requests' = requests /\ Stop
    /\ UNCHANGED <<activeMembers, credentials, shown, pending, file, kept>>

(* The code is displayed once the pending login is on disk. *)
SavePending ==
    /\ process.at = "save"
    /\ pending' = process.on
    /\ shown' = shown \cup {process.on}
    /\ Step("poll")
    /\ UNCHANGED <<activeMembers, server, file, kept>>

(* Otherwise the request is cancelled, when that call gets through. *)
SavePendingFails ==
    /\ process.at = "save"
    /\ requests' = IF CanCancel(process.on)
                     THEN [requests EXCEPT ![process.on].state = "cancelled"] ELSE requests
    /\ Stop
    /\ UNCHANGED <<activeMembers, credentials, shown, pending, file, kept>>

(* The answer arrives, or is lost and the poll is tried again. *)
PollRedeems ==
    /\ process.at = "poll"
    /\ Redeem(process.on)
    /\ Step("validate") \/ UNCHANGED process
    /\ UNCHANGED <<activeMembers, shown, pending, file, kept>>

PollReplays ==
    /\ process.at = "poll"
    /\ CanReplay(process.on)
    /\ Step("validate")
    /\ UNCHANGED <<activeMembers, server, shown, pending, file, kept>>

(* Mutant: an expired request is answered like one that still waits. *)
IsRefusedUnlessOver(r) ==
    \/ requests[r].state \in {"denied", "cancelled"}
    \/ requests[r].state = "approved" /\ ~ MayReplace(requests[r].by, requests[r].replaces)
(* 403, 409 and 410: this poll, and any later one, has no credential. *)
IsRefused(r) ==
    \/ requests[r].state \in {"denied", "cancelled"}
    \/ requests[r].state # "redeemed" /\ requests[r].over
    \/ requests[r].state = "approved" /\ ~ MayReplace(requests[r].by, requests[r].replaces)

(* The command ends and the pending login goes. *)
PollEnds ==
    /\ process.at = "poll"
    /\ IsRefused(process.on)
    /\ pending' = NoRequest
    /\ Stop
    /\ UNCHANGED <<activeMembers, server, shown, file, kept>>

(* 401: redeemed, but revoked meanwhile or no longer repeated. *)
PollUnauthenticated ==
    /\ process.at = "poll"
    /\ requests[process.on].state = "redeemed" /\ ~ CanReplay(process.on)
    /\ Stop
    /\ UNCHANGED <<activeMembers, server, shown, pending, file, kept>>

(* LoadMember with the new credential: it must still be accepted and its
   User a member of the approved Space; otherwise nothing is saved. *)
Validate ==
    /\ process.at = "validate"
    /\ IF credentials[process.on] = "live" /\ requests[process.on].by \in activeMembers
         THEN Step("keep") ELSE Stop
    /\ UNCHANGED <<activeMembers, server, shown, pending, file, kept>>

SaveCredential ==
    /\ process.at = "keep"
    /\ file' = process.on
    /\ kept' = kept \cup {process.on}
    /\ Step("clear")
    /\ UNCHANGED <<activeMembers, server, shown, pending>>

ClearPending ==
    /\ process.at = "clear"
    /\ pending' = NoRequest
    /\ Stop
    /\ UNCHANGED <<activeMembers, server, shown, file, kept>>

(* Mutant: the pending login is removed whatever the answer to the cancel. *)
AfterInterruptAlways(confirmed) == NoRequest
(* What is left of the pending login after an interrupted wait. *)
AfterInterrupt(confirmed) == IF confirmed THEN NoRequest ELSE pending

(* Ctrl-C while waiting: CancelCLILogin, whose answer may be lost. *)
Interrupt ==
    /\ process.at = "poll"
    /\ \/ /\ CanCancel(process.on)
          /\ requests' = [requests EXCEPT ![process.on].state = "cancelled"]
          /\ \E confirmed \in BOOLEAN : pending' = AfterInterrupt(confirmed)
       \/ requests' = requests /\ pending' = AfterInterrupt(FALSE)
    /\ Stop
    /\ UNCHANGED <<activeMembers, credentials, shown, file, kept>>

(* The process dies, or a step of it fails, and the command ends. *)
Crash ==
    /\ process.at # "idle"
    /\ Stop
    /\ UNCHANGED <<activeMembers, server, shown, pending, file, kept>>

(* carry logout: the revocation reaches the server; the file is removed only
   after the answer (a 401 included), so a lost one is retried. *)
Logout ==
    /\ process.at = "idle" /\ file # NoRequest
    /\ credentials' = [credentials EXCEPT ![file] = IF @ = "live" THEN "revoked" ELSE @]
    /\ file' \in {file, NoRequest}
    /\ UNCHANGED <<activeMembers, requests, shown, process, pending, kept>>

-----------------------------------------------------------------------------
Next ==
    \/ \E r \in Requests :
         \/ \E u \in Users, old \in Requests \cup {NoRequest} : ApproveCLILogin(u, r, old)
         \/ DenyCLILogin(r) \/ RevokeFromBrowser(r)
         \/ RequestExpires(r) \/ ReplayEnds(r) \/ CredentialExpires(r)
         \/ StartLogin(r)
    \/ \E u \in Users : RemoveSpaceMember(u)
    \/ DropPending \/ ResumeLogin \/ BeginCLILogin \/ SavePending \/ SavePendingFails
    \/ PollRedeems \/ PollReplays \/ PollEnds \/ PollUnauthenticated
    \/ Validate \/ SaveCredential \/ ClearPending
    \/ Interrupt \/ Crash \/ Logout

(***************************************************************************)
(* A waiting command polls again and again, at most 30 seconds apart, so a *)
(* poll that would go on being answered is answered some time; what        *)
(* follows is plain sequential code; and the 10 minutes of a request do    *)
(* end.  Nothing is assumed of people, of crashes or of a single call.     *)
(***************************************************************************)
Fairness ==
    /\ WF_vars(BeginCLILogin) /\ WF_vars(SavePending)
    /\ WF_vars(PollRedeems) /\ WF_vars(PollReplays)
    /\ WF_vars(PollEnds) /\ WF_vars(PollUnauthenticated)
    /\ WF_vars(Validate) /\ WF_vars(SaveCredential) /\ WF_vars(ClearPending)
    /\ \A r \in Requests : WF_vars(RequestExpires(r))

Spec == Init /\ [][Next]_vars /\ Fairness

-----------------------------------------------------------------------------
(* A request ends once.  A confirmed cancellation or denial therefore means
   that no credential exists or will ("No credential was issued."), and a
   redeemed request cannot be denied or cancelled under its credential. *)
RequestEndsOnce ==
    [][\A r \in Requests : requests[r].state \in Ended =>
         /\ requests'[r].state = requests[r].state
         /\ credentials[r] = "none" => credentials'[r] = "none"]_vars

(* A replacement is a swap: the new credential and the end of the old one are
   one step of PollCLILogin, so no crash leaves both usable. *)
ReplacementIsSwap ==
    \A r \in Requests :
      requests[r].state = "redeemed" /\ requests[r].replaces # NoRequest
        => credentials[requests[r].replaces] # "live"

(* A credential that was issued but never reached the file can be had again
   by running "carry login": until the request's time or the 5 minutes are
   over, its pending login is on disk, whatever call was lost and wherever
   the process died. *)
CredentialIsRecoverable ==
    \A r \in Requests :
      credentials[r] = "live" /\ requests[r].replay /\ ~ requests[r].over /\ r \notin kept
        => pending = r

(* "carry login" always ends: no answer of the server leaves it waiting past
   the life of its request. *)
LoginEnds == process.at = "poll" ~> process.at = "idle"

(***************************************************************************)
(* Why: the inductive invariant of CLILoginProofs.                          *)
(***************************************************************************)
CredentialIsRedeemed ==
    \A r \in Requests : credentials[r] # "none" => requests[r].state = "redeemed"

(* The replaced credential was issued once, and a request is redeemed once,
   so what the swap ended cannot become live again. *)
ReplacedHasEnded ==
    \A r \in Requests :
      requests[r].state = "redeemed" /\ requests[r].replaces # NoRequest
        => credentials[requests[r].replaces] \in {"revoked", "expired"}

(* The pending login on disk is the one the command waits for, from the
   moment its code is shown until the credential is in the file. *)
CommandHoldsPending ==
    /\ process.at = "idle" <=> process.on = NoRequest
    /\ process.at \in {"begin", "save"} => pending = NoRequest
    /\ process.at = "begin" => requests[process.on].state = "none"
    /\ process.at \in {"poll", "validate", "keep", "clear"} => pending = process.on
    /\ process.at = "clear" => process.on \in kept

CLIInv ==
    /\ TypeOK
    /\ CredentialIsRedeemed
    /\ ReplacedHasEnded
    /\ CommandHoldsPending
    /\ CredentialIsRecoverable

-----------------------------------------------------------------------------
(* The refinement of DeviceGrant *)

PhaseOf(row) ==
    IF row.state = "none" THEN "none"
    ELSE IF row.state = "redeemed" THEN "issued"
    ELSE IF row.state \in Ended \/ row.over THEN "refused"
    ELSE IF row.state = "approved" THEN "granted"
    ELSE "asked"
Phases == [r \in Requests |-> PhaseOf(requests[r])]
Granters == [r \in Requests |-> requests[r].by]
LiveCredentials == {r \in Requests : credentials[r] = "live"}

Grants == INSTANCE DeviceGrant WITH
    phase <- Phases, granter <- Granters, usable <- LiveCredentials, trusted <- activeMembers

(* Polls, lost answers, repetitions, files and crashes implement the grant of
   one credential: only by an active member, only before the request was
   refused, given up or overdue, and in exchange for at most one other
   credential of that member. *)
ImplementsGrant == Grants!Spec

(* Of the proof: the time of a request starts with the request. *)
NewIsNotOver == \A r \in Requests : requests[r].state = "none" => ~ requests[r].over
=============================================================================
