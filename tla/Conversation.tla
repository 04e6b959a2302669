---------------------------- MODULE Conversation ----------------------------
(***************************************************************************)
(* Private Conversations of one Space: each member talks with Carry alone,  *)
(* one message and one reply at a time.  A member's message comes with a    *)
(* reply claim; a Machine takes the claim under a lease and a fence, and     *)
(* commits the reply with the Work it may delegate in one transaction.      *)
(*                                                                         *)
(* A Conversation is named by its member (UNIQUE (space_id,                 *)
(* member_user_id)), a message by <<member, message_seq>>, and a claim by   *)
(* its source message.  The reply to <<u, n>> is <<u, n + 1>>.              *)
(*                                                                         *)
(* A Machine's request may arrive at any time after its claim, more than    *)
(* once and with any output the Agent generated: granted keeps what each    *)
(* Machine was ever handed, answers what a commit ever answered.            *)
(***************************************************************************)
EXTENDS SpaceMembers, FiniteSetsExt

CONSTANTS
    Machines,
    NoMachine,             \* current_machine_id IS NULL
    WorkIds,               \* fresh identifiers of delegated Works
    NoWork,                \* created_work_id IS NULL
    Sizes,                 \* byte lengths of texts, up to MaxTextBytes
    NoCandidate,           \* output_digest IS NULL
    MaxContextMessages,    \* conversation.MaxContextMessages
    MaxContextTextBytes,   \* conversation.MaxContextTextBytes
    LeaseTicks,            \* length of a lease, in ticks of the database clock
    MaxMessages,           \* bound of the model on messages
    MaxFence               \* bound of the model on current_fence

ASSUME ConversationAssumption ==
    /\ NoMachine \notin Machines
    /\ NoWork \notin WorkIds
    /\ Sizes \subseteq 1 .. MaxContextTextBytes
    /\ MaxContextMessages \in Nat \ {0}
    /\ MaxContextTextBytes \in Nat
    /\ LeaseTicks \in Nat \ {0}
    /\ MaxMessages \in Nat
    /\ MaxFence \in Nat

VARIABLES
    heads,      \* conversations.message_head_seq, 0 before the first message
    said,       \* conversation_messages: the set of rows
    claims,     \* conversation_reply_claims, by source message
    works,      \* owner of each Work that a reply delegated
    machines,   \* machines.revoked_at: "connected" or "revoked"
    granted,    \* the claims handed to Machines so far
    answers     \* the results of successful commits so far

vars == <<members, heads, said, claims, works, machines, granted, answers>>

(* ReplyCandidate: the reply and whether it delegates a goal.  Its digest
   tells any two apart. *)
Candidate == [size: Sizes, goal: {"null", "present"}]
ASSUME CandidateAssumption == NoCandidate \notin Candidate

Message == [member: Users, seq: Nat, author: {"member", "carry"},
            key: Keys \cup {NoKey}, size: Sizes]
Claim == [machine: Machines \cup {NoMachine}, fence: Nat, lease: 0 .. LeaseTicks,
          start: Nat,      \* context_start_seq, 0 for NULL
          output: Candidate \cup {NoCandidate}, work: WorkIds \cup {NoWork}]
Grant == [machine: Machines, source: Users \X Nat, fence: Nat, start: Nat]
Answer == [source: Users \X Nat, output: Candidate, work: WorkIds \cup {NoWork}]

TypeOK ==
    /\ MembersTypeOK
    /\ heads \in [Users -> Nat]
    /\ said \subseteq Message
    /\ DOMAIN claims \subseteq Users \X Nat
    /\ claims \in [DOMAIN claims -> Claim]
    /\ DOMAIN works \subseteq WorkIds /\ works \in [DOMAIN works -> Users]
    /\ machines \in [Machines -> {"connected", "revoked"}]
    /\ granted \subseteq Grant
    /\ answers \subseteq Answer

EmptyTable == [x \in {} |-> x]

Init ==
    /\ MembersInit
    /\ heads = [u \in Users |-> 0]
    /\ said = {}
    /\ claims = EmptyTable
    /\ works = EmptyTable
    /\ machines = [m \in Machines |-> "connected"]
    /\ granted = {}
    /\ answers = {}

-----------------------------------------------------------------------------
(* INSERT of a row under a fresh identifier. *)
Insert(table, id, row) ==
    [x \in DOMAIN table \cup {id} |-> IF x = id THEN row ELSE table[x]]

Committed(s) == claims[s].output # NoCandidate

(* ConversationHasUnresolvedReply *)
HasUnresolvedReply(u) == \E s \in DOMAIN claims : s[1] = u /\ ~ Committed(s)

(* The texts i .. n of a Conversation, within both context limits. *)
TextsIn(u, i, n) == {t \in said : t.member = u /\ t.seq \in i .. n}
TextBytes(ts) == MapThenSumSet(LAMBDA t : t.size, ts)
FitsContext(u, i, n) ==
    /\ n - i + 1 <= MaxContextMessages
    /\ TextBytes(TextsIn(u, i, n)) <= MaxContextTextBytes

(***************************************************************************)
(* FixedContextSuffix, which takes texts from the newest on while they fit: *)
(* where the suffix of first .. n starts; n + 1 when not even text n fits.  *)
(***************************************************************************)
SuffixStart(u, first, n) == Min({i \in first .. n : FitsContext(u, i, n)} \cup {n + 1})

(* Mutant: the whole Conversation is the context. *)
WholeConversation(s) == 1
(* fixedReplyContextRange: the range of the first claim is kept. *)
ContextStart(s) ==
    IF claims[s].start # 0 THEN claims[s].start ELSE SuffixStart(s[1], 1, s[2])

(* loadFixedReplyContext: the suffix of the fixed range is all of it. *)
ContextIsValid(s) ==
    /\ ContextStart(s) <= s[2]
    /\ SuffixStart(s[1], ContextStart(s), s[2]) = ContextStart(s)

(* LockConversationReplyForClaim: nobody's, or its lease has run out. *)
Claimable(s) ==
    /\ IsActiveMember(s[1])
    /\ ~ Committed(s)
    /\ claims[s].machine = NoMachine \/ claims[s].lease = 0

NextFence(s) == claims[s].fence + 1

(* Mutant: the membership is not looked at again. *)
HoldsClaimOfAnyone(g) ==
    /\ machines[g.machine] = "connected"
    /\ claims[g.source].machine = g.machine
    /\ claims[g.source].fence = g.fence
(* lockActiveReplyMachine and LockConversationReplyForRenew, -ForCommit: the
   exact current claim, of a connected Machine and an active member. *)
HoldsClaim(g) ==
    /\ machines[g.machine] = "connected"
    /\ IsActiveMember(g.source[1])
    /\ claims[g.source].machine = g.machine
    /\ claims[g.source].fence = g.fence

-----------------------------------------------------------------------------
SendConversationMessage(u, k, size) ==
    /\ IsActiveMember(u)
    /\ ~ \E t \in said : t.member = u /\ t.author = "member" /\ t.key = k
    /\ ~ HasUnresolvedReply(u)
    /\ Cardinality(said) < MaxMessages
    /\ heads' = [heads EXCEPT ![u] = @ + 1]
    /\ said' = said \cup {[member |-> u, seq |-> heads[u] + 1, author |-> "member",
                           key |-> k, size |-> size]}
    /\ claims' = Insert(claims, <<u, heads[u] + 1>>,
                   [machine |-> NoMachine, fence |-> 0, lease |-> 0, start |-> 0,
                    output |-> NoCandidate, work |-> NoWork])
    /\ UNCHANGED <<members, works, machines, granted, answers>>

ClaimConversationReply(m, s) ==
    /\ machines[m] = "connected"
    /\ Claimable(s)
    /\ ContextIsValid(s)
    /\ claims[s].fence < MaxFence
    /\ claims' = [claims EXCEPT ![s] =
                    [@ EXCEPT !.machine = m, !.fence = NextFence(s),
                              !.lease = LeaseTicks, !.start = ContextStart(s)]]
    /\ granted' = granted \cup {[machine |-> m, source |-> s, start |-> ContextStart(s),
                                 fence |-> NextFence(s)]}
    /\ UNCHANGED <<members, heads, said, works, machines, answers>>

RenewConversationReply(g) ==
    /\ HoldsClaim(g)
    /\ claims[g.source].lease > 0
    /\ ~ Committed(g.source)
    /\ claims' = [claims EXCEPT ![g.source].lease = LeaseTicks]
    /\ UNCHANGED <<members, heads, said, works, machines, granted, answers>>

(* Mutant: a second commit of the holder is no replay. *)
MayAlwaysCommit(s) == claims[s].lease > 0
(* The source is still the last message and the lease is current. *)
MayCommit(s) ==
    /\ ~ Committed(s)
    /\ heads[s[1]] = s[2]
    /\ claims[s].lease > 0

(* The reply, the delegated Work and the end of the claim are one
   transaction. *)
CommitConversationReply(g, candidate, w) ==
    LET s == g.source
        u == s[1]
    IN  /\ HoldsClaim(g)
        /\ MayCommit(s)
        /\ IF candidate.goal = "present"
           THEN w \in WorkIds \ DOMAIN works /\ works' = Insert(works, w, u)
           ELSE w = NoWork /\ works' = works
        /\ heads' = [heads EXCEPT ![u] = @ + 1]
        /\ said' = said \cup {[member |-> u, seq |-> heads[u] + 1, author |-> "carry",
                               key |-> NoKey, size |-> candidate.size]}
        /\ claims' = [claims EXCEPT ![s] = [@ EXCEPT !.output = candidate, !.work = w]]
        /\ answers' = answers \cup {[source |-> s, output |-> candidate, work |-> w]}
        /\ UNCHANGED <<members, machines, granted>>

(* Mutant: any later output of the holder is taken for the committed one. *)
IsAnyReplay(s, candidate) == Committed(s)
IsReplay(s, candidate) == claims[s].output = candidate

(* The answer to the first commit was lost; a different output conflicts. *)
ReplayConversationReply(g, candidate) ==
    /\ HoldsClaim(g)
    /\ IsReplay(g.source, candidate)
    /\ answers' = answers \cup {[source |-> g.source, output |-> candidate,
                                 work |-> claims[g.source].work]}
    /\ UNCHANGED <<members, heads, said, claims, works, machines, granted>>

RemoveSpaceMember(actor, target, successor, key) ==
    /\ RemoveMembership(actor, target, successor, key,
                        \E w \in DOMAIN works : works[w] = target)
    /\ works' = [w \in DOMAIN works |-> IF works[w] = target THEN successor ELSE works[w]]
    /\ UNCHANGED <<heads, said, claims, machines, granted, answers>>

RevokeMachine(m) ==
    /\ machines[m] = "connected"
    /\ machines' = [machines EXCEPT ![m] = "revoked"]
    /\ UNCHANGED <<members, heads, said, claims, works, granted, answers>>

LeaseAfterTick(s) == IF claims[s].lease > 0 THEN claims[s].lease - 1 ELSE 0

(* The clock of the database: every running lease gets one tick shorter. *)
Tick ==
    /\ \E s \in DOMAIN claims : claims[s].lease > 0
    /\ claims' = [s \in DOMAIN claims |-> [claims[s] EXCEPT !.lease = LeaseAfterTick(s)]]
    /\ UNCHANGED <<members, heads, said, works, machines, granted, answers>>

Next ==
    \/ \E u \in Users, k \in Keys, size \in Sizes : SendConversationMessage(u, k, size)
    \/ \E m \in Machines, s \in DOMAIN claims : ClaimConversationReply(m, s)
    \/ \E g \in granted : RenewConversationReply(g)
    \/ \E g \in granted, c \in Candidate, w \in WorkIds \cup {NoWork} :
           CommitConversationReply(g, c, w)
    \/ \E g \in granted, c \in Candidate : ReplayConversationReply(g, c)
    \/ \E u, target \in Users, successor \in Users \cup {NoUser}, k \in Keys :
           RemoveSpaceMember(u, target, successor, k)
    \/ \E m \in Machines : RevokeMachine(m)
    \/ Tick

Spec == Init /\ [][Next]_vars
-----------------------------------------------------------------------------
(* Properties. *)

(* A Conversation is a strict alternation: messages are numbered 1 ..
   message_head_seq without gap or duplicate, the odd ones are the member's
   and the even ones Carry's, so every reply follows the message it answers,
   through expired leases, takeovers and repeated commits. *)
ConversationAlternates ==
    \A u \in Users :
        /\ {t.seq : t \in {x \in said : x.member = u}} = 1 .. heads[u]
        /\ \A t, v \in said :
             t.member = u /\ v.member = u /\ t.seq = v.seq => t = v
        /\ \A t \in said : t.member = u =>
             (t.author = "member" <=> t.seq % 2 = 1)

(* A reply delegates once: the Works that replies created are exactly those
   of the committed claims that delegate, one each. *)
DelegatesOnce ==
    /\ \A w \in DOMAIN works :
         \E s \in DOMAIN claims :
             /\ claims[s].work = w /\ claims[s].output.goal = "present"
             /\ \A r \in DOMAIN claims : claims[r].work = w => r = s
    /\ \A s \in DOMAIN claims :
         claims[s].work # NoWork => claims[s].work \in DOMAIN works

(* Whatever a Machine is told of a commit agrees with what the member reads:
   all answers for a message are one answer, and it is the stored reply. *)
AnswersAgree ==
    \A a \in answers :
        /\ claims[a.source].output = a.output /\ claims[a.source].work = a.work
        /\ \E t \in said : /\ t.member = a.source[1] /\ t.seq = a.source[2] + 1
                           /\ t.author = "carry" /\ t.size = a.output.size

(* A message is never stuck: the context of a claim that may be taken is
   valid, so ClaimConversationReply never fails with ErrInvalidContext. *)
ClaimableContextIsValid ==
    \A s \in DOMAIN claims : Claimable(s) => ContextIsValid(s)

(* The Conversation of a removed member is closed: nothing is said in it,
   and no claim of it is handed out, extended or committed, whatever Machines
   that still hold one send. *)
RemovedMemberIsSilent ==
    [][\A u \in Users : members[u].state = "revoked" =>
         /\ heads'[u] = heads[u]
         /\ {t \in said' : t.member = u} = {t \in said : t.member = u}
         /\ {g \in granted' : g.source[1] = u} = {g \in granted : g.source[1] = u}
         /\ \A s \in DOMAIN claims : s[1] = u =>
              claims'[s].output = claims[s].output /\ claims'[s].lease <= claims[s].lease]_vars

(***************************************************************************)
(* Why: the inductive invariant of ConversationProofs.  A Conversation      *)
(* whose last message has an odd number waits for a reply, and only there   *)
(* is a claim without a result; a claim with one has its reply right after  *)
(* its source.                                                              *)
(***************************************************************************)
OpenClaimIsLast ==
    /\ \A s \in DOMAIN claims :
         /\ s[2] % 2 = 1
         /\ s[2] <= heads[s[1]]
         /\ ~ Committed(s) => s[2] = heads[s[1]]
    /\ \A u \in Users : heads[u] % 2 = 1 =>
         <<u, heads[u]>> \in DOMAIN claims /\ ~ Committed(<<u, heads[u]>>)

ReplyIsSaid ==
    \A s \in DOMAIN claims : Committed(s) =>
        \E t \in said : /\ t.member = s[1] /\ t.seq = s[2] + 1
                        /\ t.author = "carry" /\ t.size = claims[s].output.size

OnlyResultsDelegate ==
    \A s \in DOMAIN claims : ~ Committed(s) => claims[s].work = NoWork

(* Machines are handed claims that exist, and answered about such. *)
GrantsHaveClaims ==
    /\ \A g \in granted : g.source \in DOMAIN claims
    /\ \A a \in answers : a.source \in DOMAIN claims

(* The range of the first claim fits and goes on fitting: later texts are
   outside it. *)
ContextIsFixed ==
    \A s \in DOMAIN claims : claims[s].start # 0 =>
        claims[s].start \in 1 .. s[2] /\ FitsContext(s[1], claims[s].start, s[2])

ConversationInv ==
    /\ TypeOK
    /\ OpenClaimIsLast
    /\ ReplyIsSaid
    /\ OnlyResultsDelegate
    /\ GrantsHaveClaims
    /\ ConversationAlternates
    /\ DelegatesOnce
    /\ AnswersAgree
    /\ ContextIsFixed
-----------------------------------------------------------------------------
(* Refinement.  The idempotency keys of the messages, the claims without a
   result, the Machines and their grants are not part of the promise. *)
TextOf(t) == [member |-> t.member, seq |-> t.seq, author |-> t.author, size |-> t.size]
Texts == {TextOf(t) : t \in said}
WaitingMembers == {u \in Users : HasUnresolvedReply(u)}
ResultOf(s) == [output |-> claims[s].output, work |-> claims[s].work]
Results == [s \in {x \in DOMAIN claims : Committed(x)} |-> ResultOf(s)]
RemovedMembers == {u \in Users : members[u].state = "revoked"}

Dialogue == INSTANCE PrivateDialogue WITH
    length <- heads, log <- Texts, waiting <- WaitingMembers,
    replies <- Results, told <- answers, closed <- RemovedMembers

(* Claims, leases, fences, takeovers and repeated commits implement the
   promise: a member asks and gets one reply, which delegates at most one new
   Work, and every Machine is told of that reply only. *)
ImplementsDialogue == Dialogue!Spec
=============================================================================
