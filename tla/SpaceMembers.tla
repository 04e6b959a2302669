---------------------------- MODULE SpaceMembers ----------------------------
(***************************************************************************)
(* The memberships of one Space: the rows of space_memberships and the     *)
(* transaction that revokes one of them.                                   *)
(*                                                                         *)
(* RemoveSpaceMember locks the Space row first (FOR NO KEY UPDATE), then    *)
(* the rows of the participants (FOR UPDATE), so removals of one Space are  *)
(* serial and each is one atomic step here.  Every transaction of a member *)
(* holds the member's row FOR SHARE until it commits, so it is entirely     *)
(* before or entirely after a removal of that member.                      *)
(*                                                                         *)
(* A request that repeats the key of an earlier removal by the same actor   *)
(* answers from that removal (same request) or fails (a different one);     *)
(* neither changes a row, so only requests with an unused key are steps.   *)
(***************************************************************************)
EXTENDS Naturals, FiniteSets

CONSTANTS
    Users,        \* the users that may hold a membership row of the Space
    Managers,     \* the users admitted with can_manage_members
    Enrollers,    \* the users admitted with can_enroll_machines
    Keys,         \* idempotency keys that clients choose
    NoUser,       \* SQL NULL in a user column
    NoKey         \* SQL NULL in a key column

ASSUME MembersAssumption ==
    /\ Managers \subseteq Users
    /\ Enrollers \subseteq Users
    /\ NoUser \notin Users
    /\ NoKey \notin Keys

VARIABLE members  \* space_memberships, by user

Authorities == {"manage", "enroll"}
Membership == [may: SUBSET Authorities, state: {"none", "active", "revoked"},
               removedBy: Users \cup {NoUser},
               successor: Users \cup {NoUser},
               removalKey: Keys \cup {NoKey}]

MembersInit ==
    members = [u \in Users |->
                 [may |-> {x \in Authorities :
                             \/ x = "manage" /\ u \in Managers
                             \/ x = "enroll" /\ u \in Enrollers},
                  state |-> "active", removedBy |-> NoUser,
                  successor |-> NoUser, removalKey |-> NoKey]]

MembersTypeOK == members \in [Users -> Membership]

-----------------------------------------------------------------------------
(* revoked_at IS NULL *)
IsActiveMember(u) == u \in Users /\ members[u].state = "active"

(* The active members counted by CountActiveSpaceAuthorities. *)
Holders(x) == {u \in Users : IsActiveMember(u) /\ x \in members[u].may}

(* The replay lookup of a removal: the actor has used this key before. *)
RemovalKeyUsed(actor, key) ==
    \E u \in Users : members[u].removedBy = actor /\ members[u].removalKey = key

(* Mutant: only the authority to manage members is counted. *)
LeavesSpaceManaged(target) ==
    "manage" \in members[target].may => Holders("manage") \ {target} # {}
(* Another active holder of each authority of the target remains. *)
LeavesSpaceGoverned(target) ==
    \A x \in members[target].may : Holders(x) \ {target} # {}

(***************************************************************************)
(* The membership part of RemoveSpaceMember.  hasOpenWorks says whether     *)
(* the target owns Open Work: then, and only then, a successor is named.    *)
(***************************************************************************)
RemoveMembership(actor, target, successor, key, hasOpenWorks) ==
    /\ ~ RemovalKeyUsed(actor, key)
    /\ IsActiveMember(actor) /\ "manage" \in members[actor].may
    /\ IsActiveMember(target)
    /\ successor # NoUser => successor # target /\ IsActiveMember(successor)
    /\ LeavesSpaceGoverned(target)
    /\ hasOpenWorks <=> (successor # NoUser)
    /\ members' = [members EXCEPT ![target] =
                     [@ EXCEPT !.state = "revoked", !.removedBy = actor,
                               !.successor = successor, !.removalKey = key]]

(* The Space keeps a member who manages and a member who enrolls Machines:
   CountActiveSpaceAuthorities guards every removal, self-removal included. *)
SpaceStaysGoverned ==
    /\ Managers # {} => Holders("manage") # {}
    /\ Enrollers # {} => Holders("enroll") # {}
=============================================================================
