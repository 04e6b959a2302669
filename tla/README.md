# Carry: a verification project

Carry lets the members of a Space hand durable Work to native Agents. A control
plane (one Go server on PostgreSQL) keeps every fact; Hosts (`carry host`) on
members' computers claim Runs and private replies over mutual TLS, let an Agent
do them, and commit the result; a CLI and a web client serve people.

This directory holds TLA+ models of that code, TLC configurations that check
them on small instances, and TLAPS proofs. `PROJECT.json` lists the runs, the
mutants that show each property can fail, the source lines behind every
definition, the findings, the hazards and the theorems.

Checking one run, and the proofs:

    tlc -workers 2 -config RunAuthority.cfg MCWorkRun
    tlapm WorkRunProofs.tla

## 1. Inventory

The repository has seven owners of state (docs/architecture.md) and the programs
around them. All server state is in PostgreSQL; isolation is READ COMMITTED, so
what is atomic is decided by row locks, advisory locks and unique indexes.

| component | state | operations | what is hard | what makes it correct |
|---|---|---|---|---|
| Space membership | `space_memberships` | removal with transfer of Work | removals that cross, a member's transaction under way | the Space keeps a holder of each authority; Open Work has an active owner |
| Space creation, invitations | `spaces`, `space_invitations`, submissions | create, invite, resend, revoke, accept | accept against revoke, expiry and removal; the mail provider called outside the transaction, twice | an invitation ends once; authority is handed down; a removed member stays out |
| Work | `works`, `work_messages`, `work_result_checks` | create, message, accept review, retry | input that arrives while a Run works on older input | an accepted result covers all input |
| Run | `coordinator_runs`, `run_attempts` | claim, take over, renew, commit, finish, retry | expiry against a late commit, two Machines | one writer; each input applied once; no silent repeat |
| Conversation | `conversation_messages`, `conversation_reply_claims` | send, claim, renew, commit, replay | lost answers, take-over, limits of the context | strict alternation, one delegation per reply |
| Machine | `machine_connection_requests`, `machines` | begin, look up, decide, poll, cancel, revoke | cancel against approve, lost certificate, replay window | one Machine per request; revocation is final |
| Agent | `agents`, `agent_presence` | report, allocate, remove | late and concurrent reports, an unlocked pre-read | the newest observation wins; an active Agent has an active approver |
| Identity | `carry_users`, methods, `browser_sessions`, challenges, external transactions, CLI requests and credentials | email, Google, GitHub and CLI login, link, prove again, unlink | proofs under way while methods and Sessions change; lost commits | a proof is used once; a User keeps a way in |
| Host worker | memory of `host.Worker` | the loop of `Serve` | lost claims, late results, starvation | authority is never shared; input is handled |
| Host setup | three local files | setup, start, disconnect | crash between file and server | no key of a live Machine is lost |
| CLI for people | credential and pending files | login, logout, work create, message, accept, retry | crash or lost answer between file and server | an issued credential can be recovered; login ends |
| Native adapters | child processes (pi, Codex) | start, turn, stop | foreign protocols over pipes | a result or an unknown outcome |
| HTTP transport, server process | none of its own | decode, authenticate, map errors; OAuth, mail | error classes that clients act on | |
| Web client | React state | pages and request hooks | late answers after a change of page | |

The interactions: the Store's transactions share rows (a Run's commit locks Run,
Attempt, Work and Machine; removal of a member touches Work, Agents and replies;
revocation touches Runs, replies and Agents by their claim conditions). Hosts
call the server and never the reverse; all delivery is by polling, with client
time-outs, so every request may be lost, late or repeated.

The hazards that follow from this are listed in `PROJECT.json`, at their lines.

## 2. Modules

`SpaceMembers` is extended by every control-plane module. One TLA+ action is one
transaction of the `Store`, with all its conditions and early returns as its
guard; the module comments name the locks that make it atomic. A table is a
function on the identifiers of its rows, or a set of rows. NULL is a model value
(`NoUser`, `NoKey`, ...). Requests that only replay an answer under a used
idempotency key change nothing and are left out, except where the answer
matters (`ReplayConversationReply`, `AnswerReport`, a repeated poll).

| module | models | state |
|---|---|---|
| `SpaceMembers` | postgres/membership.go | `members` |
| `WorkRun` | postgres/work.go, run.go, the removal of members, revocation | `works`, `messages`, `runs`, `attempts`, `checks`, `machines` |
| `WorkProgress` | what Work promises its members (abstract) | `head`, `applied`, `phase`, `target` per Work |
| `Conversation` | postgres/conversation.go, conversation_reply.go | dialogue, claims, what Machines were handed and answered |
| `PrivateDialogue` | what a private Conversation promises (abstract) | length and texts, who waits, replies, what was told, what is closed |
| `HostWorker` | host/worker.go, cli/host/*_http.go, on top of `WorkRun` | `host`, `requests` on the wire, `faults` |
| `AgentPresence` | postgres/agent.go, host/agent_reporting.go | Machine revisions, Agents, reports, reporters, open transactions |
| `MachineConnection` | postgres/machine.go and the queries and tables behind it | `requests`, `machines` |
| `MachineSetup` | cli/host/setup.go, disconnect.go, start.go, machinefile, on top of `MachineConnection` | `disk`, `host`, `net`, `faults` |
| `Identity` | postgres/email_login.go, external_login.go, identity_methods.go, browser_session.go; identity/external_login.go | `users`, `owner` of each method, `sessions`, `challenges`, `transactions` with the callback at work on each |
| `SpaceInvitations` | postgres/space_creation.go, space_invitation.go; space/invitation.go; carry-server/resend.go; on top of `SpaceMembers` | `creator`, `emailOwner`, `invitations`, `submissions`, `handlers` |
| `CLILogin` | postgres/cli_login.go, cli/login, cli/credentialfile | `requests`, `credentials`, `process`, `pending` and `file` on disk, `activeMembers` |
| `DeviceGrant` | what a credential for a device promises (abstract), implemented by `MachineSetup` and by `CLILogin` | `phase` and `granter` of each request, `usable` credentials, `trusted` Users |
| `RowLocks` | PostgreSQL's locks: modes, waits, SKIP LOCKED, victims of a deadlock | `operation`, `taken` |
| `LockOrder` | the locks of the transactions of one Space, on top of `RowLocks` | |
| `IdentityLocks` | the locks of the transactions on Users, methods and Sessions, on top of `RowLocks` | |
| `...Proofs` | the theorems of section 5: `WorkRunProofs` (with `HostWorker`), `ConversationProofs`, `AgentPresenceProofs`, `MachineSetupProofs` (with `MachineConnection`), `IdentityProofs`, `CLILoginProofs`, `SpaceInvitationsProofs`, `LockOrderProofs` (with `IdentityLocks`) | |
| `MC...` | symmetry for TLC (`MachineSetup` and `CLILogin` are run without: liveness and symmetry do not mix) | |

**WorkRun.** `ClaimRun` is two actions, `RecoverRun` (an expired Attempt is
handed over under a new fence) and `CreateRun` (the oldest contiguous input that
fits both limits of a Run). `HoldsRun` is `LockAttemptForCommit`, `LeaseCurrent`
the check of the lease by the database clock. `Tick` runs that clock down; the
lease of an Attempt is the number of ticks left. Revocation changes only the
Machine row: what it stops follows from the claim and commit conditions.

**Conversation.** A member has one dialogue. A claim is named by its source
message. A Machine may commit at any time after it was handed a claim, and
again, with the same or another text; `answers` keeps what it was told.
The bounds of the context are those of `FixedContextSuffix`, over texts of
several sizes. `PrivateDialogue` is what is left when Machines, claims, leases and
retries are taken away: ask, answer once with at most one new Work, tell of that
answer, close. The mapping at the end of the module takes a claim without a result
for a member who waits and a result for the reply.

**HostWorker.** `Serve` is one program counter per Machine: the preferred kind,
the other kind, waiting, replying, executing, sent. A commit is put on the wire
and may be carried out after the Host has given up. Private replies are answered
by anything here, since `Conversation` models their tables.

**AgentPresence.** A report transaction is two steps, the unlocked pre-read of
the bindings (`BeginReport`) and the rest under locks (`AcceptReport`,
`AnswerReport`). Times are those of BEGIN, as `transaction_timestamp()` is.
Several processes of one Machine report independently.

**MachineConnection, MachineSetup.** Deadlines are countdowns of the database
clock, and a transaction begins and ends within one tick, so that
`transaction_timestamp()` is the time of the locks too. The Host's files are
written by rename and sync, hence in one step each; the process may end before
and after every step. An interrupt while a poll is under way ends the command
without a cancellation and is a `Crash` here; an interrupt while it sleeps is
`Interrupt`. `RemoveLocalOnly(n)` may stop after the first n files.

**Identity.** A method is an email address or an external account, and `owner`
says whose it is. A transaction that settles a proof holds the lock of the
method and of the User's row, as does an unlink, so each is one step; what lies
between transactions is not: the wait for a code, the redirect, the exchange
with the provider, the lost answer of a commit, the death of the server.
`CompleteProof` is shared by codes and external logins, since the functions
behind it (`complete...` of email_login.go, `resolve...Identity` of
external_login.go) do the same to the same rows. `SettleExternalLogin` is the
end of `complete` in identity/external_login.go, which looks again before it
rejects or marks unknown. A deadline is a step that may come at any time.

**SpaceInvitations.** Issue and resend commit before they call the mail
provider, so a request handler is state: submitting, holding an outcome, or
idle again when the server died. `ReplaySubmission` is a repeated request with
the same key, which submits again while nothing is recorded. Login methods are
reduced to who owns an address. The Space starts without members, unlike in the
other modules.

**CLILogin.** One command at a time, with a place in its code: begin, save,
poll, validate, keep, clear. A request and its credential have one name. `kept`
is a history variable of the credentials that reached the file. An answer that
is lost is a step of the server that leaves the process where it was. That a
second login finds the pending one is `ResumeLogin`, and `DropPending` is what
it does when its time is over.

**DeviceGrant.** A Machine connection and a CLI login are the same promise: a
device asks, a trusted User grants, the request then yields one credential or
none, and what was withdrawn stays withdrawn. Both modules map their rows to its
phases; a request whose time is over counts as refused. The only difference is
that a CLI login may replace one credential of the same User.

**RowLocks, LockOrder, IdentityLocks.** A transaction is the sequence of its locks
with their modes and takes them one by one; SKIP LOCKED does not wait, and a
deadlock ends with the abort of one of its transactions. An advisory lock is an
exclusive lock of a row of its own. Everything else is left out. The participants
of a removal are any increasing list of one to three Users, which is what sorting
the ids and skipping repeated ones gives. The two modules are checked in one
run, and each on its own: no transaction of the one runs beside one of the other.

## 3. Runs

Each run finishes in less than four minutes with two workers.

| run | instance | what it shows |
|---|---|---|
| `run_authority` | 2 Machines, 3 Runs, 3 Attempts, leases of 2 ticks, 2 inputs | `SingleWriter`, `HolderIsCurrent`, `NothingAppliedWithoutRetry`, and that `WorkRun` implements `WorkProgress` (`ImplementsProgress`) |
| `run_input` | 2 members who both manage and of whom one enrolls, texts of size 1 and 2, at most 2 messages and 2 bytes in a Run, 3 inputs, 2 Runs and 2 Attempts | `InputAppliedOnce`, `InputIsContiguous`, `AcceptedReviewCoversAllInput`, `OpenWorkHasActiveOwner`, `SpaceStaysGoverned` |
| `private_reply` | 2 members, 2 Machines, member messages while fewer than 3 are stored, contexts of 2 messages and 3 bytes, 2 fences | `DelegatesOnce`, `ClaimableContextIsValid`, `RemovedMemberIsSilent`, and that `Conversation` implements `PrivateDialogue` (`ImplementsDialogue`) |
| `host_authority` | 2 Hosts, 2 Runs, 3 Attempts, one fault | `OneHostHasAuthority`, and a healthy Host never loses it (`HealthyHostKeepsRun`) |
| `host_progress` | 1 Host, one fault, any number of replies | `InputIsHandled` (liveness) |
| `agent_reports` | 2 members, 2 processes of a Machine, 2 reports, 3 transactions | `PresenceIsLastReport`, `NewestObservationWins`, `ActiveAgentsAreBacked` |
| `removal_clock` | violation, see below | `RemovalsDoNotFail` |
| `machine_setup` | 2 members, 2 requests, 2 Machines, lifetime and replay window of 2 ticks, 2 faults | `KeyIsKept`, `RevocationIsConfirmed`, `RevocationIsFinal`, `OneMachinePerRequest`, that the requests implement `DeviceGrant` (`ImplementsGrant`), `PendingSettles` (liveness) |
| `login_methods` | 2 Users, an address, a Google and a GitHub account, 4 Sessions, 2 codes and 2 external logins of which 3 are begun, 2 attempts | `EveryUserCanLogIn`, `SessionProofIsLinked`, `ProofIsUsedOnce`, `OneUsableCode`, `EndedSessionHasNoSuccessor` |
| `invitations` | 3 Users, an address, 2 invitations, 2 submissions, 2 handlers | `AuthorityIsHandedDown`, `RemovedMemberStaysOut`, `InvitationEndsOnce`, `DeliveryRecordIsFinal` |
| `cli_login` | 2 Users, 2 requests, one live at a time | `ReplacementIsSwap`, `CredentialIsRecoverable`, that the requests implement `DeviceGrant` (`ImplementsGrant`), `LoginEnds` (liveness) |
| `lock_order` | 3 transactions at a time, 2 Users, 2 addresses, 1 account; 23 kinds of operation of a Space or 11 on Users and methods | `OnlyRepliesAndAcceptancesDeadlock`, `OnlyNewCodesDeadlock` |

Why the bounds are enough: an interesting case of the Run protocol needs a first
holder, a second one after expiry, and a Run after those (3 Attempts, 3 Runs for
a failure, its retry and a next input); of the input limits, a message that fits
by count and not by size and the reverse; of ownership, an actor, a target and a
successor who is removed next; of the context, one message more than fits; of
setup, a lost redeeming poll and a crash before the repeated one (2 faults), and a
second request while the first is still undecided; of the methods, two methods
of one User with a third proof under way, and a User whose account another User
takes over after an unlink; of invitations, two for one address, one after the
other, and two handlers with one submission; of CLI logins, one that replaces the
credential of the other; of locks, a cycle of three transactions. `CHECK_DEADLOCK
FALSE` is set where the tables may really come to rest once the identifiers of
the model are used up; `machine_setup`, `invitations` and `lock_order` check for
deadlock of the specification as well.

**Fairness.** `HostWorker`: a serving Host keeps stepping through its loop (it is
a loop with a finite poll interval), an Agent returns, a request on the wire is
handled if it was not dropped, and the clock runs. Nobody is obliged to claim
with a crashed Host, to ask for a retry or to send input. That an Agent returns
is an assumption the code does not enforce: it sets no limit on a turn, which the
hazards note. `MachineSetup`: requests are handled, files written, the clock
runs, and the user runs `carry setup` again while the computer is not connected;
no member is obliged to decide anything. `CLILogin`: a waiting command polls
again at most 30 seconds later, so a poll that would go on being answered is
answered some time, what follows is sequential code, and the ten minutes of a
request end; nobody is obliged to approve, and nothing is assumed of a single
call. The other modules state no fairness and no liveness.

Every module defines its type invariant (`TypeOK`, `HostTypeOK`,
`ConnectionTypeOK`). They are part of the inductive invariants of section 5 and
proved, and no run repeats them. `ConversationAlternates`, `AnswersAgree` and the
`RequestEndsOnce` of `CLILogin` are proved as well; the runs check the
refinements that imply them, `ImplementsDialogue` and `ImplementsGrant`.

**What the mutants are.** Every property of a passing run has a mutant: a
definition of the model replaced by what a plausible bug of that code would make
of it (a dropped fence or lease check, a wrong index condition, removal of the
key after an unconfirmed cancellation, ...). TLC then finds the property
violated.

## 4. Findings

`removal_clock`. `agents.removed_at` and `created_at` are both
`transaction_timestamp()`, the time of BEGIN. A revocation (or removal of a
member) that begins before a report, waits for the lock of the Machine row while
that report allocates an Agent, and then removes this Agent, computes
`removed_at < created_at`; `agents_removed_time_check` rejects it and the whole
revocation fails with an error. It succeeds when repeated. The integration tests
of this race accept no such error.

Observations that contradict no statement of the repository, or only the wording
of a message, and are therefore not runs:

- A Host that learns that it is revoked ends with "run carry setup to connect a
  new Host" (cli/host/start.go:125). The credential file is still there, so `carry
  setup` answers that the Machine is already connected; `carry host disconnect`
  has to come first.
- Transactions can deadlock, and PostgreSQL then fails one of them with an error
  the code does not retry. `lock_order` shows that among the transactions of a
  Space this takes a private reply (Machine, then membership) against a
  revocation or a report (membership, then Machine), or an acceptance
  (invitation, then membership) against a revoke or resend (membership, then
  invitation). It also shows that among the transactions on Users and
  methods it takes `PrepareEmailChallenge`: for a link or a renewed proof it locks
  the User and then the address, while verifying a code, unlinking and accepting
  lock the address and then the User; and even for a plain login it locks the
  address and then updates the current challenge, while verifying locks the
  challenge and then the address.
- After a redemption whose credential was revoked, or whose five minutes are
  over, a poll answers 401 and `carry login` keeps the pending file
  (command.go:206): each further `carry login` repeats the refusal until the
  request's ten minutes are over.
- The message of command.go:170 promises recovery within five minutes, but a
  pending login is dropped when the request's own time is over, which can come
  sooner. `CredentialIsRecoverable` is stated with both times.
- A member who was removed between approval and redemption gets a credential that
  `carry login` refuses to save, and which stays live at the server until it
  expires or is revoked in a Browser.

## 5. Proofs

Each component has one inductive invariant, a conjunction of named parts at the
end of its module under "Why". Its proof module shows that the initial states
have it and every action keeps it, one lemma or step per action, and derives the
properties from it. The theorems hold for every set of identifiers and every
limit; what is assumed of the constants is named (`...Assumption`) in the module
that declares them and says that NULL is not an identifier, that kinds of
identifiers are disjoint, that limits are numbers and that a lease is at least
one tick. `ConversationAssumption` also says that a text is not empty and not
larger than a whole context, which src/internal/conversation/conversation.go has
as constants (MaxTextBytes and MaxContextTextBytes) and checks of every text.

| module | theorem | statement |
|---|---|---|
| `WorkRunProofs` | `TypeCorrect` | `Spec => []TypeOK` |
| | `OneWriter` | `Spec => []SingleWriter` |
| | `AppliedOnce` | `Spec => []InputAppliedOnce` |
| | `HolderCurrent` | `Spec => []HolderIsCurrent` |
| | `ActiveOwner` | `Spec => []OpenWorkHasActiveOwner` |
| | `Governed` | `Spec => []SpaceStaysGoverned` |
| | `RetryGatesProgress` | `Spec => NothingAppliedWithoutRetry` |
| | `ContiguousInput` | `Spec => []InputIsContiguous` |
| | `AcceptanceIsWhole` | `Spec => AcceptedReviewCoversAllInput` |
| | `Refinement` | `Spec => ImplementsProgress` |
| | `HostsUseTransactions` | `HostSpec => Spec`, the specification of `WorkRun` |
| | `HealthyHost` | `HostSpec => []HealthyHostKeepsRun` |
| | `OneHost` | `HostSpec => []OneHostHasAuthority` |
| | `HostsImplementProgress` | `HostSpec => ImplementsProgress /\ []InputAppliedOnce /\ []SingleWriter /\ NothingAppliedWithoutRetry` |
| `ConversationProofs` | `Alternates` | `Spec => []ConversationAlternates` |
| | `DelegatedOnce` | `Spec => []DelegatesOnce` |
| | `Agreed` | `Spec => []AnswersAgree` |
| | `NeverStuck` | `Spec => []ClaimableContextIsValid` |
| | `RemovedIsSilent` | `Spec => RemovedMemberIsSilent` |
| | `DialogueRefinement` | `Spec => ImplementsDialogue` |
| `AgentPresenceProofs` | `Backed` | `Spec => []ActiveAgentsAreBacked` |
| | `LastReportDecides` | `Spec => []PresenceIsLastReport` |
| | `NewestWins` | `Spec => NewestObservationWins` |
| `MachineSetupProofs` | `KeyStays` | `Spec => []KeyIsKept` |
| | `RetiredIsRevoked` | `Spec => []RevocationIsConfirmed` |
| | `OneMachine` | `Spec => []OneMachinePerRequest` |
| | `RevokedForEver` | `Spec => RevocationIsFinal` |
| | `ConnectionIsGrant` | `Spec => ImplementsGrant` |
| `IdentityProofs` | `NobodyIsLockedOut` | `Spec => []EveryUserCanLogIn` |
| | `ProofStaysLinked` | `Spec => []SessionProofIsLinked` |
| | `ProofYieldsOneSession` | `Spec => []ProofIsUsedOnce` |
| | `OneCode` | `Spec => []OneUsableCode` |
| | `SuccessorNeedsActiveSession` | `Spec => EndedSessionHasNoSuccessor` |
| `CLILoginProofs` | `Swapped` | `Spec => []ReplacementIsSwap` |
| | `Recoverable` | `Spec => []CredentialIsRecoverable` |
| | `EndsOnce` | `Spec => RequestEndsOnce` |
| | `LoginIsGrant` | `Spec => ImplementsGrant` |
| `SpaceInvitationsProofs` | `HandedDown` | `Spec => []AuthorityIsHandedDown` |
| | `RemovalIsFinal` | `Spec => RemovedMemberStaysOut` |
| | `EndsOnce` | `Spec => InvitationEndsOnce` |
| | `FirstAnswerStands` | `Spec => DeliveryRecordIsFinal` |
| `LockOrderProofs` | `LocksAreExclusive` | `Spec => []LockInv(Operations)` |
| | `OnlyRepliesAndAcceptancesCanDeadlock` | `Spec => []OnlyRepliesAndAcceptancesDeadlock` |
| | `OnlyNewCodesCanDeadlock` | `IdentitySpec => []OnlyNewCodesDeadlock` |

Statements without `[]` are about action properties, except those about
`Implements...` and `HostsUseTransactions`, which are implementations of one
specification by another. TLC checks these properties on the instances of
section 3 too, except the type invariants and the three that a refinement there
implies, and every invariant below was checked with TLC before it was proved.

**WorkRun** (`IInv`). One writer needs that a Work has one unresolved Run (the
partial unique index, kept by the claim condition), that an active Attempt has
the fence of its Run, and that a fence names one Attempt. Applied once needs that
an active Run still has the version and the input of its Work
(`ActiveRunIsCurrent`), which holds because only the holder of the one
unresolved Run moves them, and that the ranges of the succeeded Runs cover
1 .. applied without overlap. An active owner needs nothing but the transfer, a
governed Space the counts of `LeavesSpaceGoverned`. `QuietStep` is what an action
that leaves the Run tables alone preserves.

`InputInv` adds that messages belong to existing Works whose goal is input 1, and
that a version has one check. An accepted check then is the one that was shown,
and `VersionHasRun` names the Run that made it.

The refinement maps a Work to its head, applied input, phase and the end of its
active Run. The CHOOSE in `TargetOf` is determined because an unresolved Run is
unique; a Run that is created starts at applied + 1 (`CreateRun`), so the abstract
start has its target beyond what is applied; a commit moves `applied` to the
target; a failure stops the Work, and `ActiveRunsHaveNoRetry` is what makes
`RequestWorkRetry` the only way on. Take-over, renewal and expiry are stutters.

**HostWorker** (`HostInv`). Every step of Hosts and wire is a transaction of
`WorkRun` or leaves its tables alone, hence `HostsUseTransactions` and, with the
theorems about `WorkRun`, `HostsImplementProgress`; `OneHost`
then follows from `OneWriter` once a busy Host has an Attempt of its own Machine
(`HostsHaveAttempts`). `HealthyHost` is the longest: the lease of a busy Host
stays above zero because the clock does not pass a renewal (`RenewalsInTime`, the
assumption that one-minute renewals of a five-minute lease arrive when nothing
fails), so nobody can take the Run over; and a commit answered to somebody else
would have to be on the wire, where before the first fault each request is waited
for by its Host and is the only one about its Attempt (`RequestsAreAwaited`).

**Conversation** (`ConversationInv`). A claim without a result belongs to the last
message of its dialogue, and a dialogue that ends with the member has one
(`OpenClaimIsLast`); alternation, one delegation and agreement follow, since a
result never changes. `NeverStuck` is about `FixedContextSuffix`: any single text
fits, so the set of starts that fit is not empty and has a least element
(`LeastNumber`, from the well-foundedness of the natural numbers); a range fixed
by an earlier claim still fits, since later texts lie outside it
(`ContextIsFixed`). The sum of sizes is a recursive function; only its value on
one text is needed, and `SizeOfOne` computes that by exhibiting the function.
For `DialogueRefinement` the open claim of a member is the last message
(`OpenClaimIsLast`), so a first commit is the abstract answer to the text that
waits; a repeated commit finds its result and only tells of it; claims, renewals,
take-overs, revocations and ticks are stutters.

**AgentPresence** (`AgentInv`). Nobody knows a revision before its Machine has it
(`RevisionsAreKnownLate`), so a report based on the current revision was made
after the last accepted one (`CurrentReportsAreNew`). The unlocked pre-read stays
good because bindings are never deleted (`PreReadStaysTrue`): a transaction that
chose the path without the locks of the approver allocates nothing.

**MachineConnection, MachineSetup** (`ConnectionInv`, `SetupInv`). A key may be
dropped only when no certificate can be handed out any more, and that must stay
so while requests are under way: what is on the wire belongs to a known request
or to one whose key is on disk or erased by the user (`WireFollowsHost`), and
what the command remembers agrees with the files at each place of its code
(`HostFollowsDisk`). `ConnectionIsGrant` needs that a revocation withdraws one
connection and no other (`OneMachinePerRequest`), that a redeemed request was
approved (`PreparedOnce`), and that the time of a request is at least one tick;
a tick refuses everything that becomes overdue in it at once.

**Identity** (`IdentityInv`). Proofs that are under way know the Session that began
them, if any (`LoginHasNoSession`); every Session has a User and a kind of proof;
a User keeps a method because an unlink needs another one, which the Session
that unlinks was proved with (`SessionProofIsLinked`).

**CLILogin** (`CLIInv`). A credential exists only for a redeemed request, a
replaced one has ended for good (`ReplacedHasEnded`), and the pending file follows
the place of the command (`CommandHoldsPending`). `LoginIsGrant` adds that time
runs only for a request that exists (`NewIsNotOver`), so that a request that is
begun starts out as asked.

**SpaceInvitations** (`InvitationInv`). Rows of memberships are never deleted and
their authorities are set once, so an inviter still has what it granted
(`GrantedWithinInviter`), also after its removal.

**RowLocks** (`LockInv`). A transaction holds a first part of its list, and locks of
one row that two transactions hold do not conflict. If every operation of a
deadlocked set takes its locks in the order of some rank of the rows, pick the
transaction that waits for the row of greatest rank: whoever holds that row waits
for a still greater one, a contradiction (`GreatestNumber`, `HolderWantsMore`,
`InOrderNoDeadlock`). `SpaceRank` is such an order for the Space, with two
exceptions, which `Before` and `InOrder` state: a KEY SHARE lock of the Space
row never waits, since nobody takes that row FOR UPDATE; and the memberships of a
removal have one rank, which is enough because two removals exclude each other by
the Space row they hold. That the participants are sorted is therefore not needed
for this. The transactions on methods have two orders, `MethodRank` and
`NewCodeRank`, hence the form of `OnlyNewCodesDeadlock`.

What the proofs taught about the models: sortedness of a removal's participants
was first taken with the library's `SetToSortSeq`, about which nothing can be
proved here; the lists are now stated as what they are. `PollVerdict`, `PollForgetsRevocation`
and `CancelVerdict` were CASE expressions whose guards overlapped. TLC takes the
first that is true; TLA+ says the choice is arbitrary, and the invariant could
not be proved. They are now chains of IF in the order of the code.

Only model-checked:

- `InputIsHandled`, `PendingSettles` and `LoginEnds`: liveness under fairness is out
  of the prover's reach.
- `RemovalsDoNotFail` is violated, see section 4.

## 6. Not modelled

- The native adapters (pi, Codex): protocols of external programs over pipes.
  `HostWorker` takes their result as a nondeterministic choice.
- The web client: the interface and its request hooks.
- The work commands of the CLI, with their pending files: each calls one
  endpoint under an idempotency key, and the endpoint is modelled.
- Budgets that only refuse: codes per address and source and hour, the resend
  delays, failed look-ups of a connection or login code.
- Start-up, TLS and PKI files of the server; formats of files, certificates,
  cookies and messages; listings and projections for display.
- Deadlocks between a transaction of a Space (`LockOrder`) and one on Users and
  methods (`IdentityLocks`): they share Sessions and, through foreign keys, Users.
- Two commands at a time in one configuration directory (`MachineSetup`,
  `CLILogin`).

## 7. Plan

Done: 1. `SpaceMembers`, `WorkRun`, `WorkProgress` and their proofs. 2.
`Conversation`, later its abstract `PrivateDialogue`. 3. `HostWorker`. 4.
`AgentPresence`. 5. `MachineConnection`, `MachineSetup`. 6. `Identity`. 7.
`SpaceInvitations`. 8. `CLILogin`, later the abstract `DeviceGrant` of both kinds of
device. 9. `RowLocks`, `LockOrder`, `IdentityLocks`.

Every safety property of every passing run is a theorem.

Models to add: the two groups of lock orders in one module; the pending files of
the work commands; two commands at a time in one configuration directory; the
request hooks of the web client.
