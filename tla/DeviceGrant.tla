----------------------------- MODULE DeviceGrant -----------------------------
(***************************************************************************)
(* What Carry promises of a credential for a device (a Machine that is      *)
(* connected, a command line that logs in), without codes, secrets, polls,  *)
(* files or deadlines: a device asks, a trusted User grants, and the request *)
(* then yields one credential or none.  A request that was refused, given   *)
(* up or overdue never yields one; a credential that was withdrawn stays    *)
(* withdrawn; a new one replaces at most one other, of the same User.       *)
(***************************************************************************)
CONSTANTS Requests, Users, NoUser

VARIABLES
    phase,      \* of each request
    granter,    \* who granted it
    usable,     \* the requests whose credential can be used
    trusted     \* the Users who may grant

grantVars == <<phase, granter, usable, trusted>>

Init ==
    /\ phase = [r \in Requests |-> "none"]
    /\ granter = [r \in Requests |-> NoUser]
    /\ usable = {}
    /\ trusted \subseteq Users

Ask(r) ==
    /\ phase[r] = "none"
    /\ phase' = [phase EXCEPT ![r] = "asked"]
    /\ UNCHANGED <<granter, usable, trusted>>

Grant(r, u) ==
    /\ phase[r] = "asked"
    /\ u \in trusted
    /\ phase' = [phase EXCEPT ![r] = "granted"]
    /\ granter' = [granter EXCEPT ![r] = u]
    /\ UNCHANGED <<usable, trusted>>

(* Denied or cancelled, or overdue together. *)
Refuse(rs) ==
    /\ \A r \in rs : phase[r] \in {"asked", "granted"}
    /\ phase' = [r \in Requests |-> IF r \in rs THEN "refused" ELSE phase[r]]
    /\ UNCHANGED <<granter, usable, trusted>>

Issue(r) ==
    /\ phase[r] = "granted"
    /\ phase' = [phase EXCEPT ![r] = "issued"]
    /\ UNCHANGED <<granter, trusted>>

IssueNew(r) == Issue(r) /\ usable' = usable \cup {r}

Replace(r, old) ==
    /\ Issue(r)
    /\ old \in usable /\ granter[old] = granter[r]
    /\ usable' = (usable \ {old}) \cup {r}

Withdraw(r) ==
    /\ usable' = usable \ {r}
    /\ UNCHANGED <<phase, granter, trusted>>

Distrust(u) ==
    /\ trusted' = trusted \ {u}
    /\ UNCHANGED <<phase, granter, usable>>

Next ==
    \/ \E r \in Requests : Ask(r) \/ IssueNew(r) \/ Withdraw(r)
    \/ \E r \in Requests, u \in Users : Grant(r, u)
    \/ \E rs \in SUBSET Requests : Refuse(rs)
    \/ \E r, old \in Requests : Replace(r, old)
    \/ \E u \in Users : Distrust(u)

Spec == Init /\ [][Next]_grantVars
=============================================================================
