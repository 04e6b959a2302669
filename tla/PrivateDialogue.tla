--------------------------- MODULE PrivateDialogue ---------------------------
(***************************************************************************)
(* What Carry promises of private Conversations, without Machines, claims,  *)
(* leases, fences or retries: a member asks, Carry replies once and may     *)
(* delegate one new Work with the reply, the member asks again.  What was    *)
(* said stays; whoever is told of a reply is told of the one that was given; *)
(* the Conversation of a member who left is closed.                          *)
(***************************************************************************)
EXTENDS Naturals

CONSTANTS Users, Sizes, WorkIds, NoWork

Reply == [size: Sizes, goal: {"null", "present"}]

VARIABLES
    length,     \* the texts of each Conversation so far
    log,        \* the texts: whose Conversation, which number, whose text
    waiting,    \* the members whose last text has no reply yet
    replies,    \* for each text that has one: the reply and its Work
    told,       \* what was told of replies
    closed      \* the members whose Conversation is closed

dialogueVars == <<length, log, waiting, replies, told, closed>>

Init ==
    /\ length = [u \in Users |-> 0]
    /\ log = {}
    /\ waiting = {}
    /\ replies = [q \in {} |-> q]
    /\ told = {}
    /\ closed = {}

(* The next text of a Conversation. *)
Say(u, author, size) ==
    /\ length' = [length EXCEPT ![u] = @ + 1]
    /\ log' = log \cup {[member |-> u, seq |-> length[u] + 1, author |-> author,
                         size |-> size]}

Ask(u, size) ==
    /\ u \notin waiting \cup closed
    /\ Say(u, "member", size)
    /\ waiting' = waiting \cup {u}
    /\ UNCHANGED <<replies, told, closed>>

Unused == WorkIds \ {replies[q].work : q \in DOMAIN replies}

Answer(u, reply, w) ==
    LET q == <<u, length[u]>>
    IN  /\ u \in waiting \ closed
        /\ w \in IF reply.goal = "present" THEN Unused ELSE {NoWork}
        /\ Say(u, "carry", reply.size)
        /\ waiting' = waiting \ {u}
        /\ replies' = [x \in DOMAIN replies \cup {q} |->
                         IF x = q THEN [output |-> reply, work |-> w] ELSE replies[x]]
        /\ told' = told \cup {[source |-> q, output |-> reply, work |-> w]}
        /\ UNCHANGED closed

Tell(q) ==
    /\ q[1] \notin closed
    /\ told' = told \cup {[source |-> q, output |-> replies[q].output,
                           work |-> replies[q].work]}
    /\ UNCHANGED <<length, log, waiting, replies, closed>>

Close(u) ==
    /\ closed' = closed \cup {u}
    /\ UNCHANGED <<length, log, waiting, replies, told>>

Next ==
    \/ \E u \in Users, size \in Sizes : Ask(u, size)
    \/ \E u \in Users, reply \in Reply, w \in WorkIds \cup {NoWork} : Answer(u, reply, w)
    \/ \E q \in DOMAIN replies : Tell(q)
    \/ \E u \in Users : Close(u)

Spec == Init /\ [][Next]_dialogueVars
=============================================================================
