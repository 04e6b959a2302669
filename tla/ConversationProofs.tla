------------------------- MODULE ConversationProofs -------------------------
(***************************************************************************)
(* Proofs about Conversation, for any number of members, Machines, texts    *)
(* and messages.  The argument: a claim without a result is that of the     *)
(* last message of its Conversation, and a Conversation whose last message  *)
(* is the member's has one, so messages and replies alternate; results      *)
(* never change, so all answers for a message agree; and the texts of a     *)
(* fixed range never change, so a context that was valid stays valid.       *)
(***************************************************************************)
EXTENDS Conversation, WellFoundedInduction, TLAPS

-----------------------------------------------------------------------------
(* About the operators of the context: the least element of a set of
   numbers, and the size of a single text. *)

(* A set of natural numbers that is not empty has a least element. *)
LEMMA LeastNumber ==
    ASSUME NEW S \in SUBSET Nat, S # {}
    PROVE  Min(S) \in S /\ \A y \in S : Min(S) <= y
<1>1. IsWellFoundedOn(OpToRel(<, Nat), Nat)
  BY NatLessThanWellFounded
<1>2. \E x \in S : \A y \in S : ~ (<<y, x>> \in OpToRel(<, Nat))
  BY <1>1, WFMin
<1>3. PICK x \in S : \A y \in S : ~ (<<y, x>> \in OpToRel(<, Nat))
  BY <1>2
<1>4. ASSUME NEW y \in S PROVE x <= y
  <2>1. <<y, x>> \in Nat \X Nat
    OBVIOUS
  <2>2. ~ (<<y, x>>[1] < <<y, x>>[2])
    BY <1>3, <2>1 DEF OpToRel
  <2> QED BY <2>2
<1> QED BY <1>4 DEF Min

(* One text has its own size: the recursive function behind MapThenSumSet,
   on the two subsets of a singleton. *)
LEMMA SizeOfOne ==
    ASSUME NEW t, t.size \in Nat
    PROVE  TextBytes({t}) = t.size
<1> DEFINE Step(f) == [s \in SUBSET {t} |->
                         IF s = {} THEN 0
                         ELSE (CHOOSE x \in s : TRUE).size
                                + f[s \ {CHOOSE x \in s : TRUE}]]
           sum == [s \in SUBSET {t} |-> IF s = {} THEN 0 ELSE t.size]
           iter == CHOOSE f : f = Step(f)
<1>1. \A s \in SUBSET {t} : s = {} \/ s = {t}
  OBVIOUS
<1>2. (CHOOSE x \in {t} : TRUE) = t
  OBVIOUS
<1>3. sum = Step(sum)
  BY <1>1, <1>2
<1>4. iter = Step(iter)
  BY <1>3
<1>5. iter[{t}] = t.size
  <2> HIDE DEF iter
  <2>1. iter[{}] = 0
    BY <1>4
  <2>2. iter[{t}] = t.size + iter[{t} \ {t}]
    BY <1>2, <1>4
  <2>3. {t} \ {t} = {}
    OBVIOUS
  <2> QED BY <2>1, <2>2, <2>3
<1>6. TextBytes({t}) = iter[{t}]
  BY DEF TextBytes, MapThenSumSet, MapThenFoldSet
<1> QED BY <1>5, <1>6

(* The suffix starts within the range, or after it when nothing fits. *)
LEMMA SuffixInRange ==
    ASSUME NEW u, NEW first \in Nat, NEW n \in Nat
    PROVE  /\ SuffixStart(u, first, n) \in Nat
           /\ SuffixStart(u, first, n) = n + 1 \/ SuffixStart(u, first, n) \in first .. n
           /\ SuffixStart(u, first, n) # n + 1 => FitsContext(u, SuffixStart(u, first, n), n)
           /\ \A i \in first .. n : FitsContext(u, i, n) => SuffixStart(u, first, n) <= i
<1> DEFINE S == {i \in first .. n : FitsContext(u, i, n)} \cup {n + 1}
<1>1. S \in SUBSET Nat /\ S # {}
  OBVIOUS
<1>2. Min(S) \in S /\ \A y \in S : Min(S) <= y
  <2> HIDE DEF S
  <2> QED BY <1>1, LeastNumber
<1>3. SuffixStart(u, first, n) = Min(S)
  BY DEF SuffixStart
<1> QED BY <1>1, <1>2, <1>3

(* A range that fits starts where its own suffix starts. *)
LEMMA FittingRangeIsItsSuffix ==
    ASSUME NEW u, NEW first \in Nat, NEW n \in Nat, first <= n, FitsContext(u, first, n)
    PROVE  SuffixStart(u, first, n) = first
<1>1. first \in first .. n
  OBVIOUS
<1> QED BY <1>1, SuffixInRange

-----------------------------------------------------------------------------
(* Types. *)

(* Every step keeps the types of all tables. *)
LEMMA NextKeepsTypeOK == ASSUME TypeOK, GrantsHaveClaims, [Next]_vars PROVE TypeOK'
<1> USE MembersAssumption, ConversationAssumption
<1>0. Sizes \subseteq Nat
  OBVIOUS
<1>1. ASSUME NEW u \in Users, NEW k \in Keys, NEW size \in Sizes,
             SendConversationMessage(u, k, size)
      PROVE  TypeOK'
  <2> DEFINE row == [machine |-> NoMachine, fence |-> 0, lease |-> 0, start |-> 0,
                     output |-> NoCandidate, work |-> NoWork]
             s == <<u, heads[u] + 1>>
  <2>1. row \in Claim
    BY DEF Claim
  <2>2. heads[u] \in Nat /\ s \in Users \X Nat
    BY DEF TypeOK
  <2>3. claims' = Insert(claims, s, row)
    BY <1>1 DEF SendConversationMessage
  <2> HIDE DEF row
  <2>4. DOMAIN claims' \subseteq Users \X Nat /\ claims' \in [DOMAIN claims' -> Claim]
    BY <2>1, <2>2, <2>3 DEF TypeOK, Insert
  <2>5. heads' \in [Users -> Nat]
    BY <1>1 DEF TypeOK, SendConversationMessage
  <2>6. said' \subseteq Message
    BY <1>1, <2>2 DEF TypeOK, SendConversationMessage, Message
  <2> QED BY <1>1, <2>4, <2>5, <2>6 DEF TypeOK, MembersTypeOK, SendConversationMessage
<1>2. ASSUME NEW m \in Machines, NEW s \in DOMAIN claims, ClaimConversationReply(m, s)
      PROVE  TypeOK'
  <2>1. claims[s] \in Claim /\ s \in Users \X Nat
    BY DEF TypeOK
  <2>2. ContextStart(s) \in Nat
    BY <2>1, SuffixInRange DEF ContextStart, Claim
  <2> DEFINE row == [claims[s] EXCEPT !.machine = m, !.fence = NextFence(s),
                                      !.lease = LeaseTicks, !.start = ContextStart(s)]
  <2>3. NextFence(s) \in Nat
    BY <2>1 DEF NextFence, Claim
  <2>4. row \in Claim
    <3>1. LeaseTicks \in 0 .. LeaseTicks
      OBVIOUS
    <3> QED BY ONLY <2>1, <2>2, <2>3, <3>1, m \in Machines DEF Claim
  <2>5. claims' = [claims EXCEPT ![s] = row]
    BY <1>2 DEF ClaimConversationReply
  <2> HIDE DEF row
  <2>6. DOMAIN claims' = DOMAIN claims /\ claims' \in [DOMAIN claims' -> Claim]
    BY <2>4, <2>5 DEF TypeOK
  <2>7. granted' \subseteq Grant
    BY <1>2, <2>1, <2>2, <2>3 DEF TypeOK, ClaimConversationReply, Grant
  <2> QED BY <1>2, <2>6, <2>7 DEF TypeOK, MembersTypeOK, ClaimConversationReply
<1>3. ASSUME NEW g \in granted, RenewConversationReply(g) PROVE TypeOK'
  <2>1. g.source \in DOMAIN claims /\ claims[g.source] \in Claim
    BY DEF TypeOK, GrantsHaveClaims
  <2>2. [claims[g.source] EXCEPT !.lease = LeaseTicks] \in Claim
    BY <2>1 DEF Claim
  <2>3. claims' = [claims EXCEPT ![g.source] = [claims[g.source] EXCEPT !.lease = LeaseTicks]]
    BY <1>3 DEF RenewConversationReply
  <2>4. DOMAIN claims' = DOMAIN claims /\ claims' \in [DOMAIN claims' -> Claim]
    BY <2>2, <2>3 DEF TypeOK
  <2> QED BY <1>3, <2>4 DEF TypeOK, MembersTypeOK, RenewConversationReply
<1>4. ASSUME NEW g \in granted, NEW c \in Candidate, NEW w \in WorkIds \cup {NoWork},
             CommitConversationReply(g, c, w)
      PROVE  TypeOK'
  <2> DEFINE row == [claims[g.source] EXCEPT !.output = c, !.work = w]
  <2>1. /\ g.source \in DOMAIN claims /\ claims[g.source] \in Claim
        /\ g.source \in Users \X Nat /\ heads[g.source[1]] \in Nat
    BY DEF TypeOK, GrantsHaveClaims
  <2>2. row \in Claim
    BY <2>1 DEF Claim
  <2>3. claims' = [claims EXCEPT ![g.source] = row]
    BY <1>4 DEF CommitConversationReply
  <2> HIDE DEF row
  <2>4. DOMAIN claims' = DOMAIN claims /\ claims' \in [DOMAIN claims' -> Claim]
    BY <2>2, <2>3 DEF TypeOK
  <2>5. DOMAIN works' \subseteq WorkIds /\ works' \in [DOMAIN works' -> Users]
    BY <1>4, <2>1 DEF TypeOK, CommitConversationReply, Insert
  <2>6. heads' \in [Users -> Nat]
    BY <1>4, <2>1 DEF TypeOK, CommitConversationReply
  <2>7. said' \subseteq Message
    BY <1>4, <2>1 DEF TypeOK, CommitConversationReply, Message, Candidate
  <2>8. answers' \subseteq Answer
    BY <1>4, <2>1 DEF TypeOK, CommitConversationReply, Answer
  <2> QED BY <1>4, <2>4, <2>5, <2>6, <2>7, <2>8
           DEF TypeOK, MembersTypeOK, CommitConversationReply
<1>5. ASSUME NEW g \in granted, NEW c \in Candidate, ReplayConversationReply(g, c)
      PROVE  TypeOK'
  <2>1. /\ g.source \in Users \X Nat /\ claims[g.source].work \in WorkIds \cup {NoWork}
    BY DEF TypeOK, GrantsHaveClaims, Claim
  <2>2. answers' \subseteq Answer
    BY <1>5, <2>1 DEF TypeOK, ReplayConversationReply, Answer
  <2> QED BY <1>5, <2>2 DEF TypeOK, MembersTypeOK, ReplayConversationReply
<1>6. ASSUME NEW u \in Users, NEW target \in Users, NEW successor \in Users \cup {NoUser},
             NEW k \in Keys, RemoveSpaceMember(u, target, successor, k)
      PROVE  TypeOK'
  <2>1. members' \in [Users -> Membership]
    <3>1. members[target] \in Membership
      BY DEF TypeOK, MembersTypeOK
    <3>2. [members[target] EXCEPT !.state = "revoked", !.removedBy = u,
                                  !.successor = successor, !.removalKey = k] \in Membership
      BY <3>1 DEF Membership
    <3> QED BY <1>6, <3>2 DEF TypeOK, MembersTypeOK, RemoveSpaceMember, RemoveMembership
  <2>2. (\E w \in DOMAIN works : works[w] = target) => successor \in Users
    BY <1>6 DEF RemoveSpaceMember, RemoveMembership
  <2>3. DOMAIN works' = DOMAIN works /\ works' \in [DOMAIN works' -> Users]
    BY <1>6, <2>2 DEF TypeOK, RemoveSpaceMember
  <2> QED BY <1>6, <2>1, <2>3 DEF TypeOK, MembersTypeOK, RemoveSpaceMember
<1>7. ASSUME NEW m \in Machines, RevokeMachine(m) PROVE TypeOK'
  BY <1>7 DEF TypeOK, MembersTypeOK, RevokeMachine
<1>8. CASE Tick
  <2>1. \A s \in DOMAIN claims : [claims[s] EXCEPT !.lease = LeaseAfterTick(s)] \in Claim
    <3>1. ASSUME NEW s \in DOMAIN claims
          PROVE  [claims[s] EXCEPT !.lease = LeaseAfterTick(s)] \in Claim
      <4>1. claims[s] \in Claim
        BY DEF TypeOK
      <4>2. LeaseAfterTick(s) \in 0 .. LeaseTicks
        BY <4>1 DEF LeaseAfterTick, Claim
      <4> QED BY <4>1, <4>2 DEF Claim
    <3> QED BY <3>1
  <2>2. DOMAIN claims' = DOMAIN claims /\ claims' \in [DOMAIN claims' -> Claim]
    BY <1>8, <2>1 DEF Tick
  <2> QED BY <1>8, <2>2 DEF TypeOK, MembersTypeOK, Tick
<1>9. CASE UNCHANGED vars
  BY <1>9 DEF TypeOK, MembersTypeOK, vars
<1> QED BY <1>1, <1>2, <1>3, <1>4, <1>5, <1>6, <1>7, <1>8, <1>9 DEF Next
-----------------------------------------------------------------------------
(* The texts of a fixed range, and so whether it fits, are left alone by a
   step that says nothing or says something later. *)
LEMMA ContextStays ==
    ASSUME NEW u, NEW i, NEW n, TextsIn(u, i, n)' = TextsIn(u, i, n)
    PROVE  FitsContext(u, i, n)' <=> FitsContext(u, i, n)
  BY DEF FitsContext

(* A step that says nothing, begins and answers no claim: it may hand out or
   extend one, fix its range, transfer Works or revoke a Machine. *)
LEMMA QuietStep ==
    ASSUME ConversationInv, TypeOK',
           heads' = heads, said' = said, answers' = answers,
           DOMAIN works' = DOMAIN works, DOMAIN claims' = DOMAIN claims,
           \A s \in DOMAIN claims :
              /\ claims'[s].output = claims[s].output /\ claims'[s].work = claims[s].work
              /\ \/ claims'[s].start = claims[s].start
                 \/ /\ claims'[s].start \in 1 .. s[2]
                    /\ FitsContext(s[1], claims'[s].start, s[2]),
           \A g \in granted' : g.source \in DOMAIN claims
    PROVE  ConversationInv'
<1>1. OpenClaimIsLast' /\ ReplyIsSaid' /\ OnlyResultsDelegate'
  BY DEF ConversationInv, OpenClaimIsLast, ReplyIsSaid, OnlyResultsDelegate, Committed
<1>2. GrantsHaveClaims' /\ AnswersAgree' /\ ConversationAlternates'
  BY DEF ConversationInv, GrantsHaveClaims, AnswersAgree, ConversationAlternates
<1>3. DelegatesOnce'
  BY DEF ConversationInv, DelegatesOnce
<1>4. ContextIsFixed'
  <2>1. SUFFICES ASSUME NEW s \in DOMAIN claims, NEW i, i = claims'[s].start, i # 0
                 PROVE  i \in 1 .. s[2] /\ FitsContext(s[1], i, s[2])'
    BY DEF ContextIsFixed
  <2>2. i \in 1 .. s[2] /\ FitsContext(s[1], i, s[2])
    BY <2>1 DEF ConversationInv, ContextIsFixed
  <2>4. TextsIn(s[1], i, s[2])' = TextsIn(s[1], i, s[2])
    BY DEF TextsIn
  <2> QED BY <2>2, <2>4, ContextStays
<1> QED BY <1>1, <1>2, <1>3, <1>4 DEF ConversationInv
-----------------------------------------------------------------------------
(* What a step that says something adds to a Conversation: one text, right
   after the last, of the author whose turn it is. *)
LEMMA ConversationGrows ==
    ASSUME TypeOK, ConversationAlternates, NEW u \in Users, NEW text \in Message,
           text.member = u, text.seq = heads[u] + 1,
           text.author = "member" <=> heads[u] % 2 = 0,
           heads' = [heads EXCEPT ![u] = @ + 1], said' = said \cup {text}
    PROVE  /\ ConversationAlternates'
           /\ \A v \in Users, i \in Nat, n \in Nat :
                n <= heads[v] => TextsIn(v, i, n)' = TextsIn(v, i, n)
<1>1. /\ heads \in [Users -> Nat] /\ said \subseteq Message
      /\ \A t \in said : t.member \in Users /\ t.seq \in Nat
      /\ heads'[u] = heads[u] + 1 /\ \A v \in Users : v # u => heads'[v] = heads[v]
  BY DEF TypeOK, Message
<1>2. \A t \in said : t.seq \in 1 .. heads[t.member]
  BY <1>1 DEF ConversationAlternates
<1>3. ASSUME NEW v \in Users
      PROVE  {t.seq : t \in {x \in said' : x.member = v}} = 1 .. heads'[v]
  <2>1. {t.seq : t \in {x \in said : x.member = v}} = 1 .. heads[v]
    BY DEF ConversationAlternates
  <2>2. CASE v = u
    <3>1. \A i : i \in 1 .. heads'[u] <=> i \in 1 .. heads[u] \/ i = heads[u] + 1
      BY <1>1
    <3>2. \A i : i \in {t.seq : t \in {x \in said' : x.member = u}}
                  <=> i \in {t.seq : t \in {x \in said : x.member = u}} \/ i = heads[u] + 1
      OBVIOUS
    <3> QED BY <2>1, <2>2, <3>1, <3>2
  <2>3. CASE v # u
    <3>1. {x \in said' : x.member = v} = {x \in said : x.member = v}
      BY <2>3
    <3> QED BY <1>1, <2>1, <2>3, <3>1
  <2> QED BY <2>2, <2>3
<1>4. ASSUME NEW v \in Users, NEW t \in said', NEW x \in said',
             t.member = v, x.member = v, t.seq = x.seq
      PROVE  t = x
  <2>1. CASE t \in said /\ x \in said
    BY <1>4, <2>1 DEF ConversationAlternates
  <2>2. CASE t = text \/ x = text
    BY <1>1, <1>2, <1>4, <2>2
  <2> QED BY <2>1, <2>2
<1>5. ASSUME NEW t \in said' PROVE t.author = "member" <=> t.seq % 2 = 1
  <2>1. CASE t \in said
    BY <1>1, <2>1 DEF ConversationAlternates
  <2>2. CASE t = text
    <3>1. heads[u] % 2 = 0 <=> (heads[u] + 1) % 2 = 1
      BY <1>1
    <3> QED BY <2>2, <3>1
  <2> QED BY <2>1, <2>2
<1>6. ConversationAlternates'
  BY <1>3, <1>4, <1>5 DEF ConversationAlternates
<1>7. ASSUME NEW v \in Users, NEW i \in Nat, NEW n \in Nat, n <= heads[v]
      PROVE  TextsIn(v, i, n)' = TextsIn(v, i, n)
  <2>1. text.member = v => ~ (text.seq \in i .. n)
    BY <1>1, <1>7
  <2> QED BY <2>1 DEF TextsIn
<1> QED BY <1>6, <1>7

(* A range that is fixed stays valid while the Conversation grows. *)
LEMMA FixedContextStays ==
    ASSUME TypeOK, ContextIsFixed, OpenClaimIsLast, NEW s \in DOMAIN claims,
           NEW i, i = claims[s].start, i # 0,
           \A v \in Users, j \in Nat, n \in Nat :
              n <= heads[v] => TextsIn(v, j, n)' = TextsIn(v, j, n)
    PROVE  i \in 1 .. s[2] /\ FitsContext(s[1], i, s[2])'
<1>1. /\ s[1] \in Users /\ s[2] \in Nat /\ s[2] <= heads[s[1]]
      /\ i \in 1 .. s[2] /\ FitsContext(s[1], i, s[2])
  BY DEF TypeOK, OpenClaimIsLast, ContextIsFixed
<1>2. i \in Nat
  BY <1>1
<1>3. TextsIn(s[1], i, s[2])' = TextsIn(s[1], i, s[2])
  BY <1>1, <1>2
<1> QED BY <1>1, <1>3, ContextStays
(* A message is sent when no reply is owed, so its number is odd and its
   claim is the only one of its Conversation without a result. *)
LEMMA SendKeepsInv ==
    ASSUME ConversationInv, TypeOK', NEW u \in Users, NEW k \in Keys, NEW size \in Sizes,
           SendConversationMessage(u, k, size)
    PROVE  ConversationInv'
<1> DEFINE new == <<u, heads[u] + 1>>
           text == [member |-> u, seq |-> heads[u] + 1, author |-> "member",
                    key |-> k, size |-> size]
           row == [machine |-> NoMachine, fence |-> 0, lease |-> 0, start |-> 0,
                   output |-> NoCandidate, work |-> NoWork]
<1>1. /\ TypeOK /\ OpenClaimIsLast /\ ReplyIsSaid /\ OnlyResultsDelegate
      /\ GrantsHaveClaims /\ ConversationAlternates /\ DelegatesOnce /\ AnswersAgree
      /\ ContextIsFixed
  BY DEF ConversationInv
<1>2. /\ heads' = [heads EXCEPT ![u] = @ + 1] /\ said' = said \cup {text}
      /\ claims' = Insert(claims, new, row)
      /\ works' = works /\ granted' = granted /\ answers' = answers
  BY DEF SendConversationMessage
<1>3. /\ heads \in [Users -> Nat] /\ heads[u] \in Nat
      /\ heads'[u] = heads[u] + 1 /\ \A v \in Users : v # u => heads'[v] = heads[v]
      /\ \A s \in DOMAIN claims : s = <<s[1], s[2]>> /\ s[1] \in Users /\ s[2] \in Nat
  BY <1>1, <1>2 DEF TypeOK
<1>4. heads[u] % 2 = 0
  <2>1. \A s \in DOMAIN claims : s[1] = u => Committed(s)
    BY DEF SendConversationMessage, HasUnresolvedReply
  <2>2. <<u, heads[u]>>[1] = u
    OBVIOUS
  <2>3. heads[u] % 2 # 1
    BY <1>1, <2>1, <2>2 DEF OpenClaimIsLast
  <2> QED BY <1>3, <2>3
<1>5. new \notin DOMAIN claims
  <2>1. new[1] = u /\ new[2] = heads[u] + 1
    OBVIOUS
  <2> QED BY <1>1, <1>3, <2>1 DEF OpenClaimIsLast
<1>6. /\ DOMAIN claims' = DOMAIN claims \cup {new} /\ claims'[new] = row
      /\ \A s \in DOMAIN claims : claims'[s] = claims[s] /\ s # new
  BY <1>2, <1>5 DEF Insert
<1>7. text \in Message
  BY <1>3 DEF Message
<1>8. /\ ConversationAlternates'
      /\ \A v \in Users, i \in Nat, n \in Nat :
           n <= heads[v] => TextsIn(v, i, n)' = TextsIn(v, i, n)
  <2>1. /\ text.member = u /\ text.seq = heads[u] + 1
        /\ text.author = "member" <=> heads[u] % 2 = 0
    BY <1>4
  <2> HIDE DEF text
  <2> QED BY <1>1, <1>2, <1>7, <2>1, ConversationGrows
<1>9. \A s \in DOMAIN claims : Committed(s)' <=> Committed(s)
  BY <1>6 DEF Committed
<1>10. OpenClaimIsLast'
  <2>1. ASSUME NEW s \in DOMAIN claims'
        PROVE  /\ s[2] % 2 = 1 /\ s[2] <= heads'[s[1]]
               /\ ~ Committed(s)' => s[2] = heads'[s[1]]
    <3>1. CASE s = new
      <4>1. s[1] = u /\ s[2] = heads[u] + 1
        BY <3>1
      <4>2. (heads[u] + 1) % 2 = 1
        BY <1>3, <1>4
      <4> QED BY <1>3, <4>1, <4>2
    <3>2. CASE s \in DOMAIN claims
      <4>1. /\ s[2] % 2 = 1 /\ s[2] <= heads[s[1]]
            /\ ~ Committed(s) => s[2] = heads[s[1]]
        BY <1>1, <3>2 DEF OpenClaimIsLast
      <4>2. s[1] = u => Committed(s)
        BY <3>2 DEF SendConversationMessage, HasUnresolvedReply
      <4> QED BY <1>3, <1>9, <3>2, <4>1, <4>2
    <3> QED BY <1>6, <3>1, <3>2
  <2>2. ASSUME NEW v \in Users, heads'[v] % 2 = 1
        PROVE  /\ <<v, heads'[v]>> \in DOMAIN claims'
               /\ claims'[<<v, heads'[v]>>].output = NoCandidate
    <3>1. CASE v = u
      BY <1>3, <1>6, <3>1
    <3>2. CASE v # u
      <4>1. <<v, heads[v]>> \in DOMAIN claims /\ claims[<<v, heads[v]>>].output = NoCandidate
        BY <1>1, <1>3, <2>2, <3>2 DEF OpenClaimIsLast, Committed
      <4> QED BY <1>3, <1>6, <3>2, <4>1
    <3> QED BY <3>1, <3>2
  <2> QED BY <2>1, <2>2 DEF OpenClaimIsLast, Committed
<1>11. ReplyIsSaid' /\ OnlyResultsDelegate'
  <2>1. \A s \in DOMAIN claims' : Committed(s)' => s \in DOMAIN claims
    BY <1>6 DEF Committed
  <2>2. ReplyIsSaid'
    BY <1>1, <1>2, <1>6, <1>9, <2>1 DEF ReplyIsSaid
  <2>3. OnlyResultsDelegate'
    BY <1>1, <1>6, <1>9 DEF OnlyResultsDelegate
  <2> QED BY <2>2, <2>3
<1>12. GrantsHaveClaims' /\ AnswersAgree'
  BY <1>1, <1>2, <1>6 DEF GrantsHaveClaims, AnswersAgree
<1>13. DelegatesOnce'
  <2>1. ASSUME NEW w \in DOMAIN works'
        PROVE  \E s \in DOMAIN claims' :
                  /\ claims'[s].work = w /\ claims'[s].output.goal = "present"
                  /\ \A r \in DOMAIN claims' : claims'[r].work = w => r = s
    <3>1. PICK s \in DOMAIN claims :
             /\ claims[s].work = w /\ claims[s].output.goal = "present"
             /\ \A r \in DOMAIN claims : claims[r].work = w => r = s
      BY <1>1, <1>2 DEF DelegatesOnce
    <3>2. w # NoWork
      BY <1>1, <1>2, ConversationAssumption DEF TypeOK
    <3> QED BY <1>6, <3>1, <3>2
  <2> QED BY <1>1, <1>2, <1>6, <2>1 DEF DelegatesOnce
<1>14. ContextIsFixed'
  <2>1. SUFFICES ASSUME NEW s \in DOMAIN claims', NEW i, i = claims'[s].start, i # 0
                 PROVE  i \in 1 .. s[2] /\ FitsContext(s[1], i, s[2])'
    BY DEF ContextIsFixed
  <2>2. s \in DOMAIN claims /\ claims[s].start = i
    BY <1>6, <2>1
  <2> HIDE DEF new, text, row
  <2> QED BY <1>1, <1>8, <2>1, <2>2, FixedContextStays
<1> QED BY <1>8, <1>10, <1>11, <1>12, <1>13, <1>14 DEF ConversationInv

(* A reply follows its message and ends the claim: nothing else of the
   Conversation was waiting. *)
LEMMA CommitKeepsInv ==
    ASSUME ConversationInv, TypeOK', NEW g \in granted, NEW c \in Candidate,
           NEW w \in WorkIds \cup {NoWork}, CommitConversationReply(g, c, w)
    PROVE  ConversationInv'
<1> DEFINE src == g.source
           u == g.source[1]
           text == [member |-> u, seq |-> heads[u] + 1, author |-> "carry",
                    key |-> NoKey, size |-> c.size]
<1>1. /\ TypeOK /\ OpenClaimIsLast /\ ReplyIsSaid /\ OnlyResultsDelegate
      /\ GrantsHaveClaims /\ ConversationAlternates /\ DelegatesOnce /\ AnswersAgree
      /\ ContextIsFixed
  BY DEF ConversationInv
<1>2. /\ heads' = [heads EXCEPT ![u] = @ + 1] /\ said' = said \cup {text}
      /\ claims' = [claims EXCEPT ![src] = [@ EXCEPT !.output = c, !.work = w]]
      /\ answers' = answers \cup {[source |-> src, output |-> c, work |-> w]}
      /\ granted' = granted
      /\ ~ Committed(src) /\ heads[u] = src[2]
      /\ IF c.goal = "present"
         THEN w \in WorkIds \ DOMAIN works /\ works' = Insert(works, w, u)
         ELSE w = NoWork /\ works' = works
  BY DEF CommitConversationReply, MayCommit
<1>3. src \in DOMAIN claims /\ src = <<u, src[2]>> /\ u \in Users /\ src[2] \in Nat
  BY <1>1 DEF GrantsHaveClaims, TypeOK
<1>4. /\ heads \in [Users -> Nat] /\ heads[u] \in Nat
      /\ heads'[u] = heads[u] + 1 /\ \A v \in Users : v # u => heads'[v] = heads[v]
      /\ \A s \in DOMAIN claims : s = <<s[1], s[2]>> /\ s[1] \in Users /\ s[2] \in Nat
      /\ heads[u] % 2 = 1
  BY <1>1, <1>2, <1>3 DEF TypeOK, OpenClaimIsLast
<1>5. /\ DOMAIN claims' = DOMAIN claims
      /\ claims'[src].output = c /\ claims'[src].work = w
      /\ claims'[src].start = claims[src].start
      /\ \A s \in DOMAIN claims : s # src => claims'[s] = claims[s]
  <2>1. claims[src] \in Claim
    BY <1>1, <1>3 DEF TypeOK
  <2> QED BY <1>2, <1>3, <2>1 DEF Claim
<1>6. text \in Message
  BY <1>3, <1>4 DEF Message, Candidate
<1>7. /\ ConversationAlternates'
      /\ \A v \in Users, i \in Nat, n \in Nat :
           n <= heads[v] => TextsIn(v, i, n)' = TextsIn(v, i, n)
  <2>1. /\ text.member = u /\ text.seq = heads[u] + 1
        /\ text.author = "member" <=> heads[u] % 2 = 0
    BY <1>4
  <2>2. u \in Users
    BY <1>3
  <2> HIDE DEF text, u
  <2> QED BY <1>1, <1>2, <1>6, <2>1, <2>2, ConversationGrows
<1>8. /\ Committed(src)' /\ c # NoCandidate
      /\ \A s \in DOMAIN claims : s # src => (Committed(s)' <=> Committed(s))
  BY <1>5, CandidateAssumption DEF Committed
<1>9. OpenClaimIsLast'
  <2>1. ASSUME NEW s \in DOMAIN claims'
        PROVE  /\ s[2] % 2 = 1 /\ s[2] <= heads'[s[1]]
               /\ ~ Committed(s)' => s[2] = heads'[s[1]]
    <3>1. /\ s \in DOMAIN claims /\ s[2] % 2 = 1 /\ s[2] <= heads[s[1]]
          /\ ~ Committed(s) => s[2] = heads[s[1]]
      BY <1>1, <1>5 DEF OpenClaimIsLast
    <3>2. s[1] = u /\ ~ Committed(s) => s = src
      BY <1>2, <1>3, <1>4, <3>1
    <3> QED BY <1>4, <1>8, <3>1, <3>2
  <2>2. ASSUME NEW v \in Users, heads'[v] % 2 = 1
        PROVE  /\ <<v, heads'[v]>> \in DOMAIN claims'
               /\ claims'[<<v, heads'[v]>>].output = NoCandidate
    <3>1. v # u
      BY <1>4, <2>2
    <3>2. <<v, heads[v]>> # src
      BY <1>3, <3>1
    <3>3. <<v, heads[v]>> \in DOMAIN claims /\ claims[<<v, heads[v]>>].output = NoCandidate
      BY <1>1, <1>4, <2>2, <3>1 DEF OpenClaimIsLast, Committed
    <3> QED BY <1>4, <1>5, <3>1, <3>2, <3>3
  <2> QED BY <2>1, <2>2 DEF OpenClaimIsLast, Committed
<1>10. /\ text \in said' /\ text.member = u /\ text.seq = src[2] + 1
       /\ text.author = "carry" /\ text.size = c.size
  BY <1>2
<1>11. ReplyIsSaid'
  <2>1. SUFFICES ASSUME NEW s \in DOMAIN claims, Committed(s)'
                 PROVE  \E t \in said' : /\ t.member = s[1] /\ t.seq = s[2] + 1
                                         /\ t.author = "carry"
                                         /\ t.size = claims'[s].output.size
    BY <1>5 DEF ReplyIsSaid
  <2>2. CASE s = src
    BY <1>2, <1>5, <1>10, <2>2
  <2>3. CASE s # src
    BY <1>1, <1>2, <1>5, <1>8, <2>1, <2>3 DEF ReplyIsSaid
  <2> QED BY <2>2, <2>3
<1>12. OnlyResultsDelegate'
  BY <1>1, <1>5, <1>8 DEF OnlyResultsDelegate
<1>13. GrantsHaveClaims'
  BY <1>1, <1>2, <1>3, <1>5 DEF GrantsHaveClaims
<1>14. AnswersAgree'
  <2>1. SUFFICES ASSUME NEW a \in answers'
                 PROVE  /\ claims'[a.source].output = a.output /\ claims'[a.source].work = a.work
                        /\ \E t \in said' : /\ t.member = a.source[1]
                                            /\ t.seq = a.source[2] + 1
                                            /\ t.author = "carry" /\ t.size = a.output.size
    BY DEF AnswersAgree
  <2>2. CASE a \in answers
    <3>1. a.source \in DOMAIN claims /\ a.output \in Candidate
      BY <1>1, <2>2 DEF GrantsHaveClaims, TypeOK, Answer
    <3>2. a.source # src
      BY <1>1, <1>2, <2>2, <3>1, CandidateAssumption DEF AnswersAgree, Committed
    <3> QED BY <1>1, <1>2, <1>5, <2>2, <3>1, <3>2 DEF AnswersAgree
  <2>3. CASE a = [source |-> src, output |-> c, work |-> w]
    <3>1. a.source = src /\ a.output = c /\ a.work = w
      BY <2>3
    <3> QED BY <1>2, <1>5, <1>10, <3>1
  <2> QED BY <1>2, <2>1, <2>2, <2>3
<1>15. DelegatesOnce'
  <2>1. claims[src].work = NoWork
    BY <1>1, <1>2, <1>3 DEF OnlyResultsDelegate
  <2>2. ASSUME NEW x \in DOMAIN works'
        PROVE  \E s \in DOMAIN claims' :
                  /\ claims'[s].work = x /\ claims'[s].output.goal = "present"
                  /\ \A r \in DOMAIN claims' : claims'[r].work = x => r = s
    <3>1. CASE x \in DOMAIN works
      <4>1. PICK s \in DOMAIN claims :
               /\ claims[s].work = x /\ claims[s].output.goal = "present"
               /\ \A r \in DOMAIN claims : claims[r].work = x => r = s
        BY <1>1, <3>1 DEF DelegatesOnce
      <4>2. x # NoWork /\ x # w
        BY <1>1, <1>2, <3>1, ConversationAssumption DEF TypeOK
      <4> QED BY <1>5, <2>1, <4>1, <4>2
    <3>2. CASE x \notin DOMAIN works
      <4>1. x = w /\ c.goal = "present" /\ w \in WorkIds \ DOMAIN works /\ w # NoWork
        BY <1>2, <2>2, <3>2, ConversationAssumption DEF Insert
      <4>2. \A r \in DOMAIN claims : r # src => claims[r].work # w
        BY <1>1, <4>1 DEF DelegatesOnce
      <4> QED BY <1>3, <1>5, <4>1, <4>2
    <3> QED BY <3>1, <3>2
  <2>3. ASSUME NEW s \in DOMAIN claims', claims'[s].work # NoWork
        PROVE  claims'[s].work \in DOMAIN works'
    <3>1. DOMAIN works \subseteq DOMAIN works' /\ (w # NoWork => w \in DOMAIN works')
      BY <1>2 DEF Insert
    <3> QED BY <1>1, <1>5, <2>3, <3>1 DEF DelegatesOnce
  <2> QED BY <2>2, <2>3 DEF DelegatesOnce
<1>16. ContextIsFixed'
  <2>1. SUFFICES ASSUME NEW s \in DOMAIN claims', NEW i, i = claims'[s].start, i # 0
                 PROVE  i \in 1 .. s[2] /\ FitsContext(s[1], i, s[2])'
    BY DEF ContextIsFixed
  <2>2. s \in DOMAIN claims /\ claims[s].start = i
    BY <1>5, <2>1
  <2> HIDE DEF src, u, text
  <2> QED BY <1>1, <1>7, <2>1, <2>2, FixedContextStays
<1> QED BY <1>7, <1>9, <1>11, <1>12, <1>13, <1>14, <1>15, <1>16 DEF ConversationInv
(* A repeated commit is answered with the stored result. *)
LEMMA ReplayKeepsInv ==
    ASSUME ConversationInv, TypeOK', NEW g \in granted, NEW c \in Candidate,
           ReplayConversationReply(g, c)
    PROVE  ConversationInv'
<1> DEFINE new == [source |-> g.source, output |-> c, work |-> claims[g.source].work]
<1>1. /\ heads' = heads /\ said' = said /\ claims' = claims /\ works' = works
      /\ granted' = granted /\ answers' = answers \cup {new}
      /\ claims[g.source].output = c
  BY DEF ReplayConversationReply, IsReplay
<1>2. g.source \in DOMAIN claims /\ Committed(g.source)
  BY <1>1, CandidateAssumption DEF ConversationInv, GrantsHaveClaims, Committed
<1>3. OpenClaimIsLast' /\ ReplyIsSaid' /\ OnlyResultsDelegate'
  BY <1>1 DEF ConversationInv, OpenClaimIsLast, ReplyIsSaid, OnlyResultsDelegate, Committed
<1>4. ConversationAlternates' /\ DelegatesOnce'
  BY <1>1 DEF ConversationInv, ConversationAlternates, DelegatesOnce
<1>5. new.source = g.source /\ new.output = c /\ new.work = claims[g.source].work
  OBVIOUS
<1>6. GrantsHaveClaims'
  BY <1>1, <1>2, <1>5 DEF ConversationInv, GrantsHaveClaims
<1>7. AnswersAgree'
  <2> HIDE DEF new
  <2>1. SUFFICES ASSUME NEW a \in answers'
                 PROVE  /\ claims[a.source].output = a.output /\ claims[a.source].work = a.work
                        /\ \E t \in said : /\ t.member = a.source[1]
                                           /\ t.seq = a.source[2] + 1
                                           /\ t.author = "carry" /\ t.size = a.output.size
    BY <1>1 DEF AnswersAgree
  <2>2. CASE a \in answers
    BY <2>2 DEF ConversationInv, AnswersAgree
  <2>3. CASE a = new
    BY <1>1, <1>2, <1>5, <2>3 DEF ConversationInv, ReplyIsSaid
  <2> QED BY <1>1, <2>2, <2>3
<1>8. ContextIsFixed'
  <2>1. SUFFICES ASSUME NEW s \in DOMAIN claims, NEW i, i = claims[s].start, i # 0
                 PROVE  i \in 1 .. s[2] /\ FitsContext(s[1], i, s[2])'
    BY <1>1 DEF ContextIsFixed
  <2>2. i \in 1 .. s[2] /\ FitsContext(s[1], i, s[2])
    BY <2>1 DEF ConversationInv, ContextIsFixed
  <2>3. TextsIn(s[1], i, s[2])' = TextsIn(s[1], i, s[2])
    BY <1>1 DEF TextsIn
  <2> QED BY <2>2, <2>3, ContextStays
<1> QED BY <1>3, <1>4, <1>6, <1>7, <1>8 DEF ConversationInv

(* A claim that is handed out fixes a range that fits. *)
LEMMA ClaimKeepsInv ==
    ASSUME ConversationInv, TypeOK', NEW m \in Machines, NEW s \in DOMAIN claims,
           ClaimConversationReply(m, s)
    PROVE  ConversationInv'
<1> DEFINE start == ContextStart(s)
<1>1. claims[s] \in Claim /\ s[1] \in Users /\ s[2] \in Nat
  BY DEF ConversationInv, TypeOK
<1>2. start \in Nat /\ start <= s[2] /\ SuffixStart(s[1], start, s[2]) = start
  BY <1>1, SuffixInRange DEF ClaimConversationReply, ContextIsValid, ContextStart, Claim
<1>3. start \in 1 .. s[2] /\ FitsContext(s[1], start, s[2])
  <2>1. start >= 1
    <3>1. CASE claims[s].start # 0
      BY <1>1, <3>1 DEF ContextStart, Claim
    <3>2. CASE claims[s].start = 0
      <4>1. start = SuffixStart(s[1], 1, s[2])
        BY <3>2 DEF ContextStart
      <4> HIDE DEF start
      <4> QED BY <1>1, <1>2, <4>1, SuffixInRange
    <3> QED BY <3>1, <3>2
  <2> HIDE DEF start
  <2>2. start # s[2] + 1
    BY <1>1, <1>2
  <2> QED BY <1>1, <1>2, <2>1, <2>2, SuffixInRange
<1> HIDE DEF start
<1>4. /\ DOMAIN claims' = DOMAIN claims
      /\ claims'[s].output = claims[s].output /\ claims'[s].work = claims[s].work
      /\ claims'[s].start = start
      /\ \A r \in DOMAIN claims : r # s => claims'[r] = claims[r]
  BY <1>1 DEF ConversationInv, TypeOK, ClaimConversationReply, Claim, start
<1>5. \A g \in granted' : g.source \in DOMAIN claims
  BY DEF ConversationInv, GrantsHaveClaims, ClaimConversationReply
<1>6. heads' = heads /\ said' = said /\ answers' = answers /\ DOMAIN works' = DOMAIN works
  BY DEF ClaimConversationReply
<1>7. \A r \in DOMAIN claims :
         /\ claims'[r].output = claims[r].output /\ claims'[r].work = claims[r].work
         /\ \/ claims'[r].start = claims[r].start
            \/ /\ claims'[r].start \in 1 .. r[2]
               /\ FitsContext(r[1], claims'[r].start, r[2])
  BY <1>3, <1>4
<1> QED BY <1>4, <1>5, <1>6, <1>7, QuietStep

(* Every step keeps the invariant. *)
LEMMA NextKeepsInv == ASSUME ConversationInv, [Next]_vars PROVE ConversationInv'
<1>1. TypeOK'
  BY NextKeepsTypeOK DEF ConversationInv
<1>2. ASSUME NEW g \in granted, RenewConversationReply(g) PROVE ConversationInv'
  <2>1. /\ DOMAIN claims' = DOMAIN claims
        /\ \A s \in DOMAIN claims :
             /\ claims'[s].output = claims[s].output /\ claims'[s].work = claims[s].work
             /\ claims'[s].start = claims[s].start
    BY <1>2 DEF ConversationInv, TypeOK, GrantsHaveClaims, Claim, RenewConversationReply
  <2>2. /\ heads' = heads /\ said' = said /\ answers' = answers /\ works' = works
        /\ \A x \in granted' : x.source \in DOMAIN claims
    BY <1>2 DEF ConversationInv, GrantsHaveClaims, RenewConversationReply
  <2> QED BY <1>1, <2>1, <2>2, QuietStep
<1>3. CASE Tick
  <2>1. /\ DOMAIN claims' = DOMAIN claims
        /\ \A s \in DOMAIN claims :
             /\ claims'[s].output = claims[s].output /\ claims'[s].work = claims[s].work
             /\ claims'[s].start = claims[s].start
    BY <1>3 DEF ConversationInv, TypeOK, Claim, Tick
  <2>2. /\ heads' = heads /\ said' = said /\ answers' = answers /\ works' = works
        /\ \A x \in granted' : x.source \in DOMAIN claims
    BY <1>3 DEF ConversationInv, GrantsHaveClaims, Tick
  <2> QED BY <1>1, <2>1, <2>2, QuietStep
<1>4. ASSUME \/ \E u, target \in Users, successor \in Users \cup {NoUser}, k \in Keys :
                    RemoveSpaceMember(u, target, successor, k)
             \/ \E m \in Machines : RevokeMachine(m)
             \/ UNCHANGED vars
      PROVE  ConversationInv'
  <2>1. /\ heads' = heads /\ said' = said /\ answers' = answers /\ claims' = claims
        /\ granted' = granted /\ DOMAIN works' = DOMAIN works
    BY <1>4 DEF RemoveSpaceMember, RevokeMachine, vars
  <2>2. \A x \in granted' : x.source \in DOMAIN claims
    BY <2>1 DEF ConversationInv, GrantsHaveClaims
  <2> QED BY <1>1, <2>1, <2>2, QuietStep
<1> QED BY <1>1, <1>2, <1>3, <1>4, SendKeepsInv, ClaimKeepsInv, CommitKeepsInv, ReplayKeepsInv
        DEF Next

-----------------------------------------------------------------------------
(* ConversationInv is an invariant: a Space without Conversations satisfies
   it, and messages, claims, renewals, commits, replays, removals and the
   clock keep it. *)
THEOREM Invariance == Spec => []ConversationInv
<1>1. ASSUME Init PROVE ConversationInv
  <2>1. TypeOK
    BY <1>1, MembersAssumption DEF Init, TypeOK, MembersInit, MembersTypeOK, Membership,
       Authorities, EmptyTable
  <2>2. OpenClaimIsLast /\ ReplyIsSaid /\ OnlyResultsDelegate /\ GrantsHaveClaims
    BY <1>1 DEF Init, EmptyTable, OpenClaimIsLast, ReplyIsSaid, OnlyResultsDelegate,
       GrantsHaveClaims
  <2>3. ConversationAlternates
    BY <1>1 DEF Init, ConversationAlternates
  <2>4. DelegatesOnce /\ AnswersAgree /\ ContextIsFixed
    BY <1>1 DEF Init, EmptyTable, DelegatesOnce, AnswersAgree, ContextIsFixed
  <2> QED BY <2>1, <2>2, <2>3, <2>4 DEF ConversationInv
<1> QED BY <1>1, NextKeepsInv, PTL DEF Spec

(* Messages and replies of every Conversation alternate without a gap,
   whatever Machines send late or twice. *)
THEOREM Alternates == Spec => []ConversationAlternates
<1>1. ConversationInv => ConversationAlternates
  BY DEF ConversationInv
<1> QED BY <1>1, Invariance, PTL

(* The Works that replies created are those of the committed claims that
   delegate, one each. *)
THEOREM DelegatedOnce == Spec => []DelegatesOnce
<1>1. ConversationInv => DelegatesOnce
  BY DEF ConversationInv
<1> QED BY <1>1, Invariance, PTL

(* Every answer about a commit, a repeated one included, is the stored
   reply. *)
THEOREM Agreed == Spec => []AnswersAgree
<1>1. ConversationInv => AnswersAgree
  BY DEF ConversationInv
<1> QED BY <1>1, Invariance, PTL

(* No message is stuck: a claim that may be taken has a valid context.  The
   last message fits alone, so the first claim finds a suffix; and the range
   it fixes goes on fitting. *)
THEOREM NeverStuck == Spec => []ClaimableContextIsValid
<1>1. ASSUME ConversationInv, NEW s \in DOMAIN claims, Claimable(s) PROVE ContextIsValid(s)
  <2>1. claims[s] \in Claim /\ s[1] \in Users /\ s[2] \in Nat
    BY <1>1 DEF ConversationInv, TypeOK
  <2>2. CASE claims[s].start # 0
    <3>1. /\ ContextStart(s) = claims[s].start /\ claims[s].start \in 1 .. s[2]
          /\ FitsContext(s[1], claims[s].start, s[2])
      BY <1>1, <2>2 DEF ContextStart, ConversationInv, ContextIsFixed
    <3>2. claims[s].start \in Nat /\ claims[s].start <= s[2]
      BY <2>1, <3>1
    <3> QED BY <2>1, <3>1, <3>2, FittingRangeIsItsSuffix DEF ContextIsValid
  <2>3. CASE claims[s].start = 0
    <3>1. ContextStart(s) = SuffixStart(s[1], 1, s[2])
      BY <2>3 DEF ContextStart
    <3>2. s[2] % 2 = 1 /\ s[2] <= heads[s[1]] /\ s[2] >= 1
      BY <1>1, <2>1 DEF ConversationInv, OpenClaimIsLast
    <3>3. FitsContext(s[1], s[2], s[2])
      <4>1. /\ said \subseteq Message /\ heads[s[1]] \in Nat
            /\ {t.seq : t \in {x \in said : x.member = s[1]}} = 1 .. heads[s[1]]
            /\ \A t, v \in said :
                 t.member = s[1] /\ v.member = s[1] /\ t.seq = v.seq => t = v
        BY <1>1, <2>1 DEF ConversationInv, TypeOK, ConversationAlternates
      <4>2. s[2] \in 1 .. heads[s[1]]
        BY <2>1, <3>2, <4>1
      <4>3. PICK t \in said : t.member = s[1] /\ t.seq = s[2]
        BY <4>1, <4>2
      <4>4. t.size \in Nat /\ t.size <= MaxContextTextBytes
        <5>1. t.size \in Sizes
          BY <4>1 DEF Message
        <5>2. t.size \in 1 .. MaxContextTextBytes
          BY <5>1, ConversationAssumption
        <5> QED BY <5>2, ConversationAssumption
      <4>5. TextsIn(s[1], s[2], s[2]) = {t}
        BY <2>1, <4>1, <4>3 DEF TextsIn, Message
      <4>6. TextBytes({t}) = t.size
        BY <4>4, SizeOfOne
      <4> QED BY <2>1, <4>4, <4>5, <4>6, ConversationAssumption DEF FitsContext
    <3>4. s[2] \in 1 .. s[2]
      BY <2>1, <3>2
    <3>5. /\ SuffixStart(s[1], 1, s[2]) \in Nat /\ SuffixStart(s[1], 1, s[2]) <= s[2]
          /\ SuffixStart(s[1], 1, s[2]) # s[2] + 1
      BY <2>1, <3>3, <3>4, SuffixInRange
    <3>6. FitsContext(s[1], SuffixStart(s[1], 1, s[2]), s[2])
      BY <2>1, <3>5, SuffixInRange
    <3> QED BY <2>1, <3>1, <3>5, <3>6, FittingRangeIsItsSuffix DEF ContextIsValid
  <2> QED BY <2>2, <2>3
<1>2. ConversationInv => ClaimableContextIsValid
  BY <1>1 DEF ClaimableContextIsValid
<1> QED BY <1>2, Invariance, PTL
(* What one step may do to the Conversation of a member: nothing, unless the
   member is active. *)
Silent(u) ==
    /\ heads'[u] = heads[u]
    /\ {t \in said' : t.member = u} = {t \in said : t.member = u}
    /\ {g \in granted' : g.source[1] = u} = {g \in granted : g.source[1] = u}
    /\ \A s \in DOMAIN claims : s[1] = u =>
         claims'[s].output = claims[s].output /\ claims'[s].lease <= claims[s].lease

(* The Conversation of a removed member is closed for good: no transaction
   of a member or a Machine touches it. *)
THEOREM RemovedIsSilent == Spec => RemovedMemberIsSilent
<1>1. ASSUME ConversationInv, Next, NEW u \in Users, members[u].state = "revoked"
      PROVE  Silent(u)
  <2>0. /\ TypeOK /\ GrantsHaveClaims /\ OpenClaimIsLast /\ ~ IsActiveMember(u)
        /\ \A s \in DOMAIN claims : claims[s] \in Claim
        /\ \A s \in DOMAIN claims : claims[s].lease \in Nat
    BY <1>1, ConversationAssumption DEF ConversationInv, TypeOK, IsActiveMember, Claim
  <2>1. ASSUME NEW v \in Users, NEW k \in Keys, NEW size \in Sizes,
               SendConversationMessage(v, k, size)
        PROVE  Silent(u)
    <3>1. v # u
      BY <2>0, <2>1 DEF SendConversationMessage
    <3>2. <<v, heads[v] + 1>> \notin DOMAIN claims
      <4>1. <<v, heads[v] + 1>>[1] = v /\ <<v, heads[v] + 1>>[2] = heads[v] + 1
        OBVIOUS
      <4> QED BY <2>0, <4>1 DEF TypeOK, OpenClaimIsLast
    <3>3. heads'[u] = heads[u] /\ granted' = granted
      BY <2>0, <2>1, <3>1 DEF SendConversationMessage, TypeOK
    <3>4. {t \in said' : t.member = u} = {t \in said : t.member = u}
      BY <2>1, <3>1 DEF SendConversationMessage
    <3>5. \A s \in DOMAIN claims : claims'[s] = claims[s]
      BY <2>1, <3>2 DEF SendConversationMessage, Insert
    <3> QED BY <2>0, <3>3, <3>4, <3>5 DEF Silent
  <2>2. ASSUME NEW m \in Machines, NEW s \in DOMAIN claims, ClaimConversationReply(m, s)
        PROVE  Silent(u)
    <3>1. s[1] # u
      BY <2>0, <2>2 DEF ClaimConversationReply, Claimable
    <3>2. heads' = heads /\ said' = said
      BY <2>2 DEF ClaimConversationReply
    <3>3. {g \in granted' : g.source[1] = u} = {g \in granted : g.source[1] = u}
      BY <2>2, <3>1 DEF ClaimConversationReply
    <3>4. \A r \in DOMAIN claims : r # s => claims'[r] = claims[r]
      BY <2>2 DEF ClaimConversationReply
    <3> QED BY <2>0, <3>1, <3>2, <3>3, <3>4 DEF Silent
  <2>3. ASSUME NEW g \in granted, RenewConversationReply(g) PROVE Silent(u)
    <3>1. g.source[1] # u
      BY <2>0, <2>3 DEF RenewConversationReply, HoldsClaim
    <3>2. heads' = heads /\ said' = said /\ granted' = granted
      BY <2>3 DEF RenewConversationReply
    <3>3. \A r \in DOMAIN claims : r # g.source => claims'[r] = claims[r]
      BY <2>3 DEF RenewConversationReply
    <3> QED BY <2>0, <3>1, <3>2, <3>3 DEF Silent
  <2>4. ASSUME NEW g \in granted, NEW c \in Candidate, NEW w \in WorkIds \cup {NoWork},
               CommitConversationReply(g, c, w)
        PROVE  Silent(u)
    <3>1. g.source[1] # u
      BY <2>0, <2>4 DEF CommitConversationReply, HoldsClaim
    <3>2. heads'[u] = heads[u] /\ granted' = granted
      BY <2>0, <2>4, <3>1 DEF CommitConversationReply, TypeOK
    <3>3. {t \in said' : t.member = u} = {t \in said : t.member = u}
      BY <2>4, <3>1 DEF CommitConversationReply
    <3>4. \A r \in DOMAIN claims : r # g.source => claims'[r] = claims[r]
      BY <2>4 DEF CommitConversationReply
    <3> QED BY <2>0, <3>1, <3>2, <3>3, <3>4 DEF Silent
  <2>5. ASSUME \/ \E g \in granted, c \in Candidate : ReplayConversationReply(g, c)
               \/ \E v, target \in Users, successor \in Users \cup {NoUser}, k \in Keys :
                      RemoveSpaceMember(v, target, successor, k)
               \/ \E m \in Machines : RevokeMachine(m)
        PROVE  Silent(u)
    <3>1. heads' = heads /\ said' = said /\ granted' = granted /\ claims' = claims
      BY <2>5 DEF ReplayConversationReply, RemoveSpaceMember, RevokeMachine
    <3> QED BY <2>0, <3>1 DEF Silent
  <2>6. CASE Tick
    <3>1. heads' = heads /\ said' = said /\ granted' = granted
      BY <2>6 DEF Tick
    <3>2. ASSUME NEW s \in DOMAIN claims
          PROVE  claims'[s].output = claims[s].output /\ claims'[s].lease <= claims[s].lease
      <4>1. claims'[s] = [claims[s] EXCEPT !.lease = LeaseAfterTick(s)]
        BY <2>6 DEF Tick
      <4> QED BY <2>0, <4>1 DEF LeaseAfterTick, Claim
    <3> QED BY <3>1, <3>2 DEF Silent
  <2> QED BY <1>1, <2>1, <2>2, <2>3, <2>4, <2>5, <2>6 DEF Next
<1>2. ASSUME ConversationInv, Next
      PROVE  \A u \in Users : members[u].state = "revoked" => Silent(u)
  BY <1>1, <1>2
<1> QED BY <1>2, Invariance, PTL DEF Spec, RemovedMemberIsSilent, Silent
-----------------------------------------------------------------------------
(* The Conversations implement the promise of PrivateDialogue. *)

(* Nothing is said in the first state of either. *)
LEMMA InitDialogue == ASSUME Init PROVE Dialogue!Init
<1>1. heads = [u \in Users |-> 0] /\ said = {} /\ answers = {} /\ DOMAIN claims = {}
  BY DEF Init, EmptyTable
<1>2. Texts = {} /\ WaitingMembers = {} /\ Results = [q \in {} |-> q]
  BY <1>1 DEF Texts, WaitingMembers, HasUnresolvedReply, Results
<1>3. RemovedMembers = {}
  BY DEF Init, MembersInit, RemovedMembers
<1> QED BY <1>1, <1>2, <1>3 DEF Dialogue!Init

(* What the claims show of a Conversation is their results. *)
LEMMA SameResults ==
    ASSUME DOMAIN claims' = DOMAIN claims,
           \A s \in DOMAIN claims :
              claims'[s].output = claims[s].output /\ claims'[s].work = claims[s].work
    PROVE  WaitingMembers' = WaitingMembers /\ Results' = Results
<1>1. \A s \in DOMAIN claims :
        (Committed(s)' <=> Committed(s)) /\ ResultOf(s)' = ResultOf(s)
  BY DEF Committed, ResultOf
<1>2. \A u \in Users : HasUnresolvedReply(u)' <=> HasUnresolvedReply(u)
  BY <1>1 DEF HasUnresolvedReply
<1>3. WaitingMembers' = WaitingMembers
  BY <1>2 DEF WaitingMembers
<1>4. Results' = Results
  BY <1>1 DEF Results
<1> QED BY <1>3, <1>4

(* A message is a question of a member who waits for no reply. *)
LEMMA SendAsks ==
    ASSUME ConversationInv, NEW u \in Users, NEW k \in Keys, NEW size \in Sizes,
           SendConversationMessage(u, k, size)
    PROVE  Dialogue!Ask(u, size)
<1> DEFINE new == <<u, heads[u] + 1>>
           text == [member |-> u, seq |-> heads[u] + 1, author |-> "member",
                    key |-> k, size |-> size]
           row == [machine |-> NoMachine, fence |-> 0, lease |-> 0, start |-> 0,
                   output |-> NoCandidate, work |-> NoWork]
<1>1. /\ heads' = [heads EXCEPT ![u] = heads[u] + 1] /\ said' = said \cup {text}
      /\ claims' = Insert(claims, new, row) /\ answers' = answers /\ members' = members
      /\ IsActiveMember(u) /\ ~ HasUnresolvedReply(u)
  BY DEF SendConversationMessage
<1>2. u \notin WaitingMembers /\ u \notin RemovedMembers /\ RemovedMembers' = RemovedMembers
  BY <1>1 DEF WaitingMembers, RemovedMembers, IsActiveMember
<1>3. Texts' = Texts \cup {[member |-> u, seq |-> heads[u] + 1, author |-> "member",
                            size |-> size]}
  <2>1. TextOf(text) = [member |-> u, seq |-> heads[u] + 1, author |-> "member", size |-> size]
    BY DEF TextOf
  <2> HIDE DEF text
  <2> QED BY <1>1, <2>1 DEF Texts
<1>4. new \notin DOMAIN claims /\ new[1] = u
  <2>1. new[1] = u /\ new[2] = heads[u] + 1 /\ heads[u] \in Nat
    BY DEF ConversationInv, TypeOK
  <2> QED BY <2>1 DEF ConversationInv, OpenClaimIsLast
<1>5. /\ DOMAIN claims' = DOMAIN claims \cup {new} /\ claims'[new] = row
      /\ \A s \in DOMAIN claims : claims'[s] = claims[s]
  BY <1>1, <1>4 DEF Insert
<1>6. \A s \in DOMAIN claims : (Committed(s)' <=> Committed(s)) /\ ResultOf(s)' = ResultOf(s)
  BY <1>5 DEF Committed, ResultOf
<1>7. PICK x : x = new
  OBVIOUS
<1>8. /\ DOMAIN claims' = DOMAIN claims \cup {x} /\ x \notin DOMAIN claims
      /\ x[1] = u /\ ~ Committed(x)'
  BY <1>4, <1>5, <1>7 DEF Committed
<1> HIDE DEF new, row, text
<1>9. Results' = Results
  <2>1. {y \in DOMAIN claims' : Committed(y)'} = {y \in DOMAIN claims : Committed(y)}
    BY <1>6, <1>8
  <2> QED BY <1>6, <2>1 DEF Results
<1>10. WaitingMembers' = WaitingMembers \cup {u}
  <2>1. \A v \in Users : HasUnresolvedReply(v)' <=> HasUnresolvedReply(v) \/ v = u
    BY <1>6, <1>8 DEF HasUnresolvedReply
  <2> QED BY <2>1 DEF WaitingMembers
<1> QED BY <1>1, <1>2, <1>3, <1>9, <1>10 DEF Dialogue!Ask, Dialogue!Say

(* A commit is the one reply to the last message. *)
LEMMA CommitAnswers ==
    ASSUME ConversationInv, NEW g \in granted, NEW c \in Candidate,
           NEW w \in WorkIds \cup {NoWork}, CommitConversationReply(g, c, w)
    PROVE  g.source[1] \in Users /\ Dialogue!Answer(g.source[1], c, w)
<1> DEFINE src == g.source
           u == g.source[1]
           text == [member |-> u, seq |-> heads[u] + 1, author |-> "carry",
                    key |-> NoKey, size |-> c.size]
<1>1. /\ TypeOK /\ OpenClaimIsLast /\ OnlyResultsDelegate /\ GrantsHaveClaims /\ DelegatesOnce
  BY DEF ConversationInv
<1>2. /\ heads' = [heads EXCEPT ![u] = heads[u] + 1] /\ said' = said \cup {text}
      /\ claims' = [claims EXCEPT ![src] = [@ EXCEPT !.output = c, !.work = w]]
      /\ answers' = answers \cup {[source |-> src, output |-> c, work |-> w]}
      /\ members' = members /\ IsActiveMember(u)
      /\ ~ Committed(src) /\ heads[u] = src[2]
      /\ IF c.goal = "present" THEN w \in WorkIds \ DOMAIN works ELSE w = NoWork
  BY DEF CommitConversationReply, MayCommit, HoldsClaim
<1>3. src \in DOMAIN claims /\ src = <<u, heads[u]>> /\ u \in Users
  <2>1. src \in DOMAIN claims /\ src \in Users \X Nat
    BY <1>1 DEF GrantsHaveClaims, TypeOK
  <2> QED BY <1>2, <2>1
<1>4. /\ u \in WaitingMembers /\ u \notin RemovedMembers /\ RemovedMembers' = RemovedMembers
  BY <1>2, <1>3 DEF WaitingMembers, HasUnresolvedReply, RemovedMembers, IsActiveMember
<1>5. Texts' = Texts \cup {[member |-> u, seq |-> heads[u] + 1, author |-> "carry",
                            size |-> c.size]}
  <2>1. TextOf(text) = [member |-> u, seq |-> heads[u] + 1, author |-> "carry", size |-> c.size]
    BY DEF TextOf
  <2> HIDE DEF text
  <2> QED BY <1>2, <2>1 DEF Texts
<1>6. /\ DOMAIN claims' = DOMAIN claims
      /\ claims'[src].output = c /\ claims'[src].work = w
      /\ \A s \in DOMAIN claims : s # src => claims'[s] = claims[s]
  <2>1. claims[src] \in Claim
    BY <1>1, <1>3 DEF TypeOK
  <2> QED BY <1>2, <1>3, <2>1 DEF Claim
<1>7. /\ Committed(src)' /\ ResultOf(src)' = [output |-> c, work |-> w]
      /\ \A s \in DOMAIN claims : s # src =>
           (Committed(s)' <=> Committed(s)) /\ ResultOf(s)' = ResultOf(s)
  BY <1>6, CandidateAssumption DEF Committed, ResultOf
<1>8. \A s \in DOMAIN claims : s[1] = u /\ ~ Committed(s) => s = src
  <2> TAKE s \in DOMAIN claims
  <2>1. s = <<s[1], s[2]>>
    BY <1>1 DEF TypeOK
  <2> QED BY <1>1, <1>3, <2>1 DEF OpenClaimIsLast
<1>9. ASSUME c.goal = "present"
      PROVE  w \in WorkIds \ {Results[q].work : q \in DOMAIN Results}
  <2>1. w \in WorkIds \ DOMAIN works
    BY <1>2, <1>9
  <2>2. \A q \in DOMAIN Results : q \in DOMAIN claims /\ Results[q].work = claims[q].work
    BY DEF Results, ResultOf
  <2>3. \A q \in DOMAIN claims : claims[q].work # w
    BY <1>1, <2>1, ConversationAssumption DEF DelegatesOnce
  <2> QED BY <2>1, <2>2, <2>3
<1> HIDE DEF src, u, text
<1>10. Results' = [x \in DOMAIN Results \cup {src} |->
                     IF x = src THEN [output |-> c, work |-> w] ELSE Results[x]]
  <2>1. DOMAIN Results = {x \in DOMAIN claims : Committed(x)}
        /\ \A x \in DOMAIN Results : Results[x] = ResultOf(x)
    BY DEF Results
  <2>2. {x \in DOMAIN claims' : Committed(x)'} = DOMAIN Results \cup {src}
    BY <1>3, <1>6, <1>7, <2>1
  <2>3. Results' = [x \in {y \in DOMAIN claims' : Committed(y)'} |-> ResultOf(x)']
    BY DEF Results
  <2>4. \A x \in DOMAIN Results : x # src
    BY <1>2, <2>1
  <2>5. \A x \in DOMAIN Results : ResultOf(x)' = Results[x]
    BY <1>7, <2>1, <2>4
  <2> QED BY <1>7, <2>2, <2>3, <2>4, <2>5
<1>11. WaitingMembers' = WaitingMembers \ {u}
  <2>1. ASSUME NEW v \in Users, v # u PROVE HasUnresolvedReply(v)' <=> HasUnresolvedReply(v)
    <3>1. \A s \in DOMAIN claims : s[1] = v => s # src
      BY <2>1 DEF src, u
    <3> QED BY <1>6, <1>7, <3>1 DEF HasUnresolvedReply
  <2>2. ~ HasUnresolvedReply(u)'
    BY <1>6, <1>7, <1>8 DEF HasUnresolvedReply
  <2> QED BY <2>1, <2>2 DEF WaitingMembers
<1>12. Dialogue!Answer(u, c, w)
  BY <1>2, <1>3, <1>4, <1>5, <1>9, <1>10, <1>11
  DEF Dialogue!Answer, Dialogue!Unused, Dialogue!Say
<1> QED BY <1>3, <1>12 DEF u

(* A repeated commit tells again of the reply that was given. *)
LEMMA ReplayTells ==
    ASSUME ConversationInv, NEW g \in granted, NEW c \in Candidate, ReplayConversationReply(g, c)
    PROVE  \E q \in DOMAIN Results : Dialogue!Tell(q)
<1> DEFINE src == g.source
<1>1. /\ heads' = heads /\ said' = said /\ claims' = claims /\ members' = members
      /\ answers' = answers \cup {[source |-> src, output |-> c, work |-> claims[src].work]}
      /\ claims[src].output = c /\ IsActiveMember(src[1]) /\ src \in DOMAIN claims
  BY DEF ReplayConversationReply, IsReplay, HoldsClaim, ConversationInv, GrantsHaveClaims
<1>2. /\ Texts' = Texts /\ RemovedMembers' = RemovedMembers /\ src[1] \notin RemovedMembers
  BY <1>1 DEF Texts, RemovedMembers, IsActiveMember
<1>3. WaitingMembers' = WaitingMembers /\ Results' = Results
  BY <1>1, SameResults
<1>4. /\ src \in DOMAIN Results
      /\ Results[src].output = c /\ Results[src].work = claims[src].work
  BY <1>1, CandidateAssumption DEF Results, ResultOf, Committed
<1> QED BY <1>1, <1>2, <1>3, <1>4 DEF Dialogue!Tell

(* A removal closes the member's Conversation. *)
LEMMA RemoveCloses ==
    ASSUME TypeOK, NEW actor \in Users, NEW target \in Users,
           NEW successor \in Users \cup {NoUser}, NEW k \in Keys,
           RemoveSpaceMember(actor, target, successor, k)
    PROVE  Dialogue!Close(target)
<1>1. heads' = heads /\ said' = said /\ claims' = claims /\ answers' = answers
  BY DEF RemoveSpaceMember
<1>2. Texts' = Texts /\ WaitingMembers' = WaitingMembers /\ Results' = Results
  BY <1>1, SameResults DEF Texts
<1>3. RemovedMembers' = RemovedMembers \cup {target}
  <2>1. members' = [members EXCEPT ![target] =
                      [@ EXCEPT !.state = "revoked", !.removedBy = actor,
                                !.successor = successor, !.removalKey = k]]
    BY DEF RemoveSpaceMember, RemoveMembership
  <2>2. members'[target].state = "revoked" /\ \A u \in Users : u # target => members'[u] = members[u]
    BY <2>1 DEF TypeOK, MembersTypeOK, Membership
  <2> QED BY <2>2 DEF RemovedMembers
<1> QED BY <1>1, <1>2, <1>3 DEF Dialogue!Close

(* Claims, renewals, revocations and the clock change nothing of it. *)
LEMMA QuietDialogue ==
    ASSUME ConversationInv,
           \/ \E m \in Machines, s \in DOMAIN claims : ClaimConversationReply(m, s)
           \/ \E g \in granted : RenewConversationReply(g)
           \/ \E m \in Machines : RevokeMachine(m)
           \/ Tick \/ UNCHANGED vars
    PROVE  UNCHANGED Dialogue!dialogueVars
<1>1. heads' = heads /\ said' = said /\ answers' = answers /\ members' = members
  BY DEF ClaimConversationReply, RenewConversationReply, RevokeMachine, Tick, vars
<1>2. /\ DOMAIN claims' = DOMAIN claims
      /\ \A s \in DOMAIN claims :
           claims'[s].output = claims[s].output /\ claims'[s].work = claims[s].work
  <2>0. \A s \in DOMAIN claims : claims[s] \in Claim
    BY DEF ConversationInv, TypeOK
  <2>1. CASE \E m \in Machines, s \in DOMAIN claims : ClaimConversationReply(m, s)
    <3>1. PICK m \in Machines, s \in DOMAIN claims : ClaimConversationReply(m, s)
      BY <2>1
    <3>2. claims' = [claims EXCEPT ![s] =
                       [claims[s] EXCEPT !.machine = m, !.fence = NextFence(s),
                                         !.lease = LeaseTicks, !.start = ContextStart(s)]]
      BY <3>1 DEF ClaimConversationReply
    <3> QED BY <2>0, <3>2 DEF Claim
  <2>2. CASE \E g \in granted : RenewConversationReply(g)
    BY <2>0, <2>2 DEF RenewConversationReply, Claim, ConversationInv, GrantsHaveClaims
  <2>3. CASE Tick
    BY <2>0, <2>3 DEF Tick, Claim
  <2>4. CASE (\E m \in Machines : RevokeMachine(m)) \/ UNCHANGED vars
    BY <2>4 DEF RevokeMachine, vars
  <2> QED BY <2>1, <2>2, <2>3, <2>4
<1>3. WaitingMembers' = WaitingMembers /\ Results' = Results
  BY <1>2, SameResults
<1> QED BY <1>1, <1>3 DEF Dialogue!dialogueVars, Texts, RemovedMembers

(* Claims, leases, fences, takeovers and repeated commits implement the
   promise: a member asks and gets one reply, which delegates at most one new
   Work, and every Machine is told of that reply only. *)
THEOREM DialogueRefinement == Spec => ImplementsDialogue
<1>1. ASSUME ConversationInv, [Next]_vars
      PROVE  [Dialogue!Next]_Dialogue!dialogueVars
  <2>1. ASSUME NEW u \in Users, NEW k \in Keys, NEW size \in Sizes,
               SendConversationMessage(u, k, size)
        PROVE  Dialogue!Next
    BY <1>1, <2>1, SendAsks DEF Dialogue!Next
  <2>2. ASSUME NEW g \in granted, NEW c \in Candidate, NEW w \in WorkIds \cup {NoWork},
               CommitConversationReply(g, c, w)
        PROVE  Dialogue!Next
    <3>1. g.source[1] \in Users /\ Dialogue!Answer(g.source[1], c, w)
      BY <1>1, <2>2, CommitAnswers
    <3>2. c \in Dialogue!Reply
      BY DEF Candidate, Dialogue!Reply
    <3> QED BY <3>1, <3>2 DEF Dialogue!Next
  <2>3. ASSUME NEW g \in granted, NEW c \in Candidate, ReplayConversationReply(g, c)
        PROVE  Dialogue!Next
    BY <1>1, <2>3, ReplayTells DEF Dialogue!Next
  <2>4. ASSUME NEW u \in Users, NEW target \in Users, NEW successor \in Users \cup {NoUser},
               NEW k \in Keys, RemoveSpaceMember(u, target, successor, k)
        PROVE  Dialogue!Next
    BY <1>1, <2>4, RemoveCloses DEF Dialogue!Next, ConversationInv
  <2> QED BY <1>1, <2>1, <2>2, <2>3, <2>4, QuietDialogue DEF Next
<1> QED BY <1>1, InitDialogue, Invariance, PTL DEF Spec, ImplementsDialogue, Dialogue!Spec
=============================================================================
