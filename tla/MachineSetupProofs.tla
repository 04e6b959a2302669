-------------------------- MODULE MachineSetupProofs --------------------------
(***************************************************************************)
(* Proofs about MachineSetup, for any number of requests, Machines, members *)
(* and faults.  The control plane only ever moves a request away from being *)
(* redeemable, once the request exists; so a command that has read that a   *)
(* certificate is out of reach may remove the key however late it does so,  *)
(* and a late request cannot bring a request back whose key is gone.        *)
(***************************************************************************)
EXTENDS MachineSetup, TLAPS

-----------------------------------------------------------------------------
(* The control plane. *)

(* What a transaction may do to the rows that exist: a request never becomes
   redeemable again, a Machine keeps its request, and a revoked Machine
   stays as it is. *)
Moves ==
    /\ DOMAIN requests \subseteq DOMAIN requests'
    /\ DOMAIN machines \subseteq DOMAIN machines'
    /\ \A r \in DOMAIN requests : Redeemable(r)' => Redeemable(r)
    /\ \A m \in DOMAIN machines :
         /\ machines'[m].request = machines[m].request
         /\ machines[m].state = "revoked" => machines'[m] = machines[m]

(* What the types say of single rows. *)
LEMMA Rows ==
    ASSUME ConnectionInv
    PROVE  /\ DOMAIN requests \subseteq RequestIds /\ DOMAIN machines \subseteq MachineIds
           /\ \A r \in DOMAIN requests : requests[r] \in Request
           /\ \A m \in DOMAIN machines : machines[m] \in Machine /\ m # NoMachine
  BY ConnectionAssumption DEF ConnectionInv, ConnectionTypeOK

(* No table changes. *)
LEMMA NothingMoves ==
    ASSUME ConnectionInv, UNCHANGED <<members, requests, machines>>
    PROVE  ConnectionInv' /\ Moves
<1>1. ConnectionInv'
  BY DEF ConnectionInv, ConnectionTypeOK, MembersTypeOK, PreparedOnce, OneMachinePerRequest
<1>2. Moves
  BY DEF Moves, Redeemable
<1> QED BY <1>1, <1>2

(* A new request. *)
LEMMA BeginMoves ==
    ASSUME ConnectionInv, NEW r \in RequestIds, NEW s \in Sources,
           BeginMachineConnection(r, s)
    PROVE  /\ ConnectionInv' /\ Moves
           /\ DOMAIN requests' \subseteq DOMAIN requests \cup {r}
           /\ BeginAnswer(r, s) = "begun" => r \in DOMAIN requests'
<1>1. CASE requests' = requests
  BY <1>1, NothingMoves DEF BeginMachineConnection, BeginAnswer, Insert
<1>2. CASE /\ r \notin DOMAIN requests
           /\ requests' = Insert(requests, r, NewRequest(s))
  <2>1. members' = members /\ machines' = machines
    BY DEF BeginMachineConnection
  <2>2. /\ DOMAIN requests' = DOMAIN requests \cup {r}
        /\ requests'[r] = NewRequest(s)
        /\ \A q \in DOMAIN requests : requests'[q] = requests[q]
    BY <1>2 DEF Insert
  <2>3. NewRequest(s) \in Request
    BY ConnectionAssumption DEF NewRequest, Request
  <2>4. /\ NewRequest(s).decision = "none" /\ NewRequest(s).machine = NoMachine
        /\ NewRequest(s).redeemed = FALSE
    BY DEF NewRequest
  <2>5. ConnectionTypeOK'
    <3>1. \A q \in DOMAIN requests' : requests'[q] \in Request
      BY <2>2, <2>3, Rows
    <3>2. requests' \in [DOMAIN requests' -> Request]
      BY <1>2, <3>1 DEF Insert
    <3> QED BY <2>1, <2>2, <3>2 DEF ConnectionInv, ConnectionTypeOK, MembersTypeOK
  <2>6. PreparedOnce'
    BY <2>2, <2>4 DEF ConnectionInv, PreparedOnce
  <2>7. OneMachinePerRequest'
    BY <2>1, <2>2, <2>4 DEF ConnectionInv, OneMachinePerRequest
  <2>8. Moves
    BY <1>2, <2>1, <2>2 DEF Moves, Redeemable
  <2> QED BY <2>2, <2>5, <2>6, <2>7, <2>8 DEF ConnectionInv
<1> QED BY <1>1, <1>2 DEF BeginMachineConnection

(* An update of one request that touches neither its decision nor its
   Machine, and gives it no more time. *)
LEMMA UpdateMoves ==
    ASSUME ConnectionInv, NEW r \in DOMAIN requests, NEW row \in Request,
           requests' = [requests EXCEPT ![r] = row],
           members' = members, machines' = machines,
           row.decision = requests[r].decision, row.machine = requests[r].machine,
           row.by = requests[r].by, row.redeemed = requests[r].redeemed,
           row.left = requests[r].left, row.replay = requests[r].replay,
           requests[r].cancelled => row.cancelled
    PROVE  ConnectionInv' /\ Moves
<1>1. /\ DOMAIN requests' = DOMAIN requests /\ requests'[r] = row
      /\ \A q \in DOMAIN requests : q # r => requests'[q] = requests[q]
      /\ requests' \in [DOMAIN requests' -> Request]
  BY DEF ConnectionInv, ConnectionTypeOK
<1>2. ConnectionTypeOK'
  BY <1>1 DEF ConnectionInv, ConnectionTypeOK, MembersTypeOK
<1>3. \A q \in DOMAIN requests :
        /\ requests'[q].decision = requests[q].decision
        /\ requests'[q].machine = requests[q].machine
        /\ requests'[q].by = requests[q].by
        /\ requests'[q].redeemed = requests[q].redeemed
        /\ requests'[q].left = requests[q].left
        /\ requests'[q].replay = requests[q].replay
        /\ requests[q].cancelled => requests'[q].cancelled
  BY <1>1
<1>4. PreparedOnce' /\ OneMachinePerRequest'
  BY <1>1, <1>3 DEF ConnectionInv, PreparedOnce, OneMachinePerRequest
<1>5. Moves
  BY <1>1, <1>3 DEF Moves, Redeemable
<1> QED BY <1>2, <1>4, <1>5 DEF ConnectionInv

(* A slowed interval stays within its bound. *)
LEMMA SlowedIntervalType ==
    ASSUME ConnectionInv, NEW r \in DOMAIN requests
    PROVE  SlowedInterval(r) \in 0 .. MaxInterval
<1>1. requests[r].interval \in 0 .. MaxInterval
  BY Rows DEF Request
<1> QED BY <1>1, ConnectionAssumption DEF SlowedInterval

(* The prepared identity of a request that is not redeemed is free. *)
LEMMA PreparedIsFree ==
    ASSUME ConnectionInv, NEW r \in DOMAIN requests, ~ requests[r].redeemed,
           requests[r].machine # NoMachine
    PROVE  requests[r].machine \notin DOMAIN machines
<1>1. SUFFICES ASSUME requests[r].machine \in DOMAIN machines PROVE FALSE
  OBVIOUS
<1> DEFINE q == machines[requests[r].machine].request
<1>2. q \in DOMAIN requests /\ requests[q].redeemed /\ requests[q].machine = requests[r].machine
  BY <1>1 DEF ConnectionInv, OneMachinePerRequest
<1>3. q = r
  BY <1>2 DEF ConnectionInv, PreparedOnce
<1> QED BY <1>2, <1>3

(* A redemption makes the Machine that was prepared, and no other. *)
LEMMA RedeemMoves ==
    ASSUME ConnectionInv, NEW r \in DOMAIN requests, PollMachineConnection(r),
           PollVerdict(r) = "redeemed"
    PROVE  /\ ConnectionInv' /\ Moves
           /\ PreparedMachine(r) \notin DOMAIN machines
           /\ PreparedMachine(r) \in DOMAIN machines'
           /\ machines'[PreparedMachine(r)].request = r
           /\ DOMAIN requests' = DOMAIN requests
<1> DEFINE m == PreparedMachine(r)
           row == [requests[r] EXCEPT !.wait = requests[r].interval, !.redeemed = TRUE,
                                      !.replay = ReplayLifetime]
           new == [request |-> r, enrolledBy |-> requests[r].by, state |-> "connected"]
<1>1. requests[r] \in Request
  BY Rows
<1>2. /\ ~ requests[r].redeemed /\ requests[r].decision \notin {"denied", "none"}
      /\ ~ requests[r].cancelled /\ requests[r].left # 0
  BY DEF PollVerdict
<1>3. requests[r].decision = "approved"
  BY <1>1, <1>2 DEF Request
<1>4. /\ m = requests[r].machine /\ m \in MachineIds /\ m # NoMachine
      /\ requests[r].by \in Users
  BY <1>3, ConnectionAssumption DEF ConnectionInv, PreparedOnce, PreparedMachine
<1>5. m \notin DOMAIN machines
  BY <1>2, <1>4, PreparedIsFree
<1>6. /\ row \in Request /\ row.redeemed /\ row.machine = m /\ row.decision = "approved"
      /\ row.by = requests[r].by
  <2>1. ReplayLifetime \in 0 .. ReplayLifetime /\ requests[r].interval \in 0 .. MaxInterval
    BY <1>1, ConnectionAssumption DEF Request
  <2>2. row \in Request
    BY <1>1, <2>1 DEF Request
  <2>3. /\ row.redeemed = TRUE /\ row.machine = requests[r].machine
        /\ row.decision = requests[r].decision /\ row.by = requests[r].by
    BY <1>1 DEF Request
  <2> QED BY <1>3, <1>4, <2>2, <2>3
<1>7. new \in Machine /\ new.request = r /\ new.enrolledBy = requests[r].by
  BY <1>4, Rows DEF Machine
<1>8. /\ machines' = Insert(machines, m, new) /\ members' = members
      /\ requests' = [requests EXCEPT ![r] = row]
  BY DEF PollMachineConnection
<1> HIDE DEF row, new, m
<1>9. /\ DOMAIN requests' = DOMAIN requests /\ requests'[r] = row
      /\ \A q \in DOMAIN requests : q # r => requests'[q] = requests[q]
      /\ requests' \in [DOMAIN requests' -> Request]
  BY <1>6, <1>8 DEF ConnectionInv, ConnectionTypeOK
<1>10. /\ DOMAIN machines' = DOMAIN machines \cup {m} /\ machines'[m] = new
       /\ \A n \in DOMAIN machines : machines'[n] = machines[n]
  BY <1>5, <1>8 DEF Insert
<1>11. ConnectionTypeOK'
  <2>1. \A n \in DOMAIN machines' : machines'[n] \in Machine
    BY <1>7, <1>10, Rows
  <2>2. machines' \in [DOMAIN machines' -> Machine]
    BY <1>8, <2>1 DEF Insert
  <2> QED BY <1>4, <1>8, <1>9, <1>10, <2>2 DEF ConnectionInv, ConnectionTypeOK, MembersTypeOK
<1>12. PreparedOnce'
  BY <1>3, <1>4, <1>6, <1>9 DEF ConnectionInv, PreparedOnce
<1>13. OneMachinePerRequest'
  <2>1. ASSUME NEW n \in DOMAIN machines
        PROVE  /\ machines[n].request \in DOMAIN requests /\ machines[n].request # r
               /\ requests[machines[n].request].redeemed
               /\ requests[machines[n].request].machine = n
               /\ requests[machines[n].request].decision = "approved"
               /\ machines[n].enrolledBy = requests[machines[n].request].by
    BY <1>2 DEF ConnectionInv, OneMachinePerRequest
  <2>2. \A n \in DOMAIN machines' :
          /\ machines'[n].request \in DOMAIN requests'
          /\ requests'[machines'[n].request].redeemed
          /\ requests'[machines'[n].request].machine = n
          /\ requests'[machines'[n].request].decision = "approved"
          /\ machines'[n].enrolledBy = requests'[machines'[n].request].by
    BY <1>6, <1>7, <1>9, <1>10, <2>1
  <2>3. \A q \in DOMAIN requests' :
          requests'[q].redeemed => requests'[q].machine \in DOMAIN machines'
    BY <1>6, <1>9, <1>10 DEF ConnectionInv, OneMachinePerRequest
  <2> QED BY <2>2, <2>3 DEF OneMachinePerRequest
<1>14. Moves
  <2>1. Redeemable(r)
    BY <1>1, <1>2, <1>3 DEF Redeemable, Request
  <2>2. ASSUME NEW q \in DOMAIN requests, Redeemable(q)', q # r PROVE Redeemable(q)
    <3>1. requests[q].redeemed => requests[q].machine \in DOMAIN machines
      BY DEF ConnectionInv, OneMachinePerRequest
    <3> QED BY <1>9, <1>10, <2>2, <3>1 DEF Redeemable
  <2> QED BY <1>9, <1>10, <2>1, <2>2 DEF Moves
<1> QED BY <1>5, <1>7, <1>9, <1>10, <1>11, <1>12, <1>13, <1>14 DEF ConnectionInv, m
(* A poll, whatever its verdict. *)
LEMMA PollMoves ==
    ASSUME ConnectionInv, NEW r \in DOMAIN requests, PollMachineConnection(r)
    PROVE  /\ ConnectionInv' /\ Moves /\ DOMAIN requests' = DOMAIN requests
           /\ PollVerdict(r) \in {"denied", "gone", "cancelled"} => ~ Redeemable(r)'
<1>1. requests[r] \in Request /\ members' = members
  BY Rows DEF PollMachineConnection
<1>2. CASE PollVerdict(r) = "slow_down"
  <2> DEFINE row == [requests[r] EXCEPT !.interval = SlowedInterval(r),
                                        !.wait = SlowedInterval(r)]
  <2>1. machines' = machines /\ requests' = [requests EXCEPT ![r] = row]
    BY <1>2 DEF PollMachineConnection
  <2>2. row \in Request
    BY <1>1, SlowedIntervalType DEF Request
  <2>3. /\ row.decision = requests[r].decision /\ row.machine = requests[r].machine
        /\ row.by = requests[r].by /\ row.redeemed = requests[r].redeemed
        /\ row.left = requests[r].left /\ row.replay = requests[r].replay
        /\ row.cancelled = requests[r].cancelled
    BY <1>1 DEF Request
  <2> HIDE DEF row
  <2>4. ConnectionInv' /\ Moves
    BY <1>1, <2>1, <2>2, <2>3, UpdateMoves
  <2> QED BY <1>2, <2>1, <2>4
<1>3. CASE PollVerdict(r) = "pending"
  <2> DEFINE row == [requests[r] EXCEPT !.wait = requests[r].interval]
  <2>1. machines' = machines /\ requests' = [requests EXCEPT ![r] = row]
    BY <1>3 DEF PollMachineConnection
  <2>2. row \in Request
    BY <1>1 DEF Request
  <2>3. /\ row.decision = requests[r].decision /\ row.machine = requests[r].machine
        /\ row.by = requests[r].by /\ row.redeemed = requests[r].redeemed
        /\ row.left = requests[r].left /\ row.replay = requests[r].replay
        /\ row.cancelled = requests[r].cancelled
    BY <1>1 DEF Request
  <2> HIDE DEF row
  <2>4. ConnectionInv' /\ Moves
    BY <1>1, <2>1, <2>2, <2>3, UpdateMoves
  <2> QED BY <1>3, <2>1, <2>4
<1>4. CASE PollVerdict(r) = "redeemed"
  BY <1>4, RedeemMoves
<1>5. CASE PollVerdict(r) \notin {"slow_down", "pending", "redeemed"}
  <2>1. requests' = requests /\ machines' = machines
    BY <1>5 DEF PollMachineConnection
  <2>2. PollVerdict(r) \in {"denied", "gone", "cancelled"} => ~ Redeemable(r)
    <3>1. CASE requests[r].redeemed /\ requests[r].replay = 0
      BY <3>1 DEF Redeemable
    <3>2. CASE requests[r].redeemed /\ requests[r].replay # 0
      BY <3>2 DEF PollVerdict
    <3>3. CASE ~ requests[r].redeemed
      BY <3>3 DEF PollVerdict, Redeemable
    <3> QED BY <3>1, <3>2, <3>3
  <2>3. ConnectionInv' /\ Moves
    BY <1>1, <2>1, NothingMoves
  <2>4. Redeemable(r)' => Redeemable(r)
    BY <2>1 DEF Redeemable
  <2> QED BY <2>1, <2>2, <2>3, <2>4
<1> QED BY <1>2, <1>3, <1>4, <1>5

(* A cancellation: only a confirmed one ends the request. *)
LEMMA CancelMoves ==
    ASSUME ConnectionInv, NEW r \in DOMAIN requests, CancelMachineConnection(r)
    PROVE  /\ ConnectionInv' /\ Moves /\ DOMAIN requests' = DOMAIN requests
           /\ CancelVerdict(r) = "cancelled" => ~ Redeemable(r)'
<1>1. requests[r] \in Request /\ members' = members /\ machines' = machines
  BY Rows DEF CancelMachineConnection
<1>2. CASE CancelVerdict(r) = "cancelled"
  <2> DEFINE row == [requests[r] EXCEPT !.cancelled = TRUE]
  <2>1. requests' = [requests EXCEPT ![r] = row]
    BY <1>2 DEF CancelMachineConnection
  <2>2. row \in Request
    BY <1>1 DEF Request
  <2>3. /\ row.decision = requests[r].decision /\ row.machine = requests[r].machine
        /\ row.by = requests[r].by /\ row.redeemed = requests[r].redeemed
        /\ row.left = requests[r].left /\ row.replay = requests[r].replay
        /\ row.cancelled = TRUE
    BY <1>1 DEF Request
  <2> HIDE DEF row
  <2>4. ConnectionInv' /\ Moves
    BY <1>1, <2>1, <2>2, <2>3, UpdateMoves
  <2>5. ~ Redeemable(r)'
    BY <2>1, <2>3 DEF Redeemable
  <2> QED BY <2>1, <2>4, <2>5
<1>3. CASE CancelVerdict(r) # "cancelled"
  BY <1>1, <1>3, NothingMoves DEF CancelMachineConnection
<1> QED BY <1>2, <1>3

(* A decision prepares an identity that no other request has. *)
LEMMA DecideMoves ==
    ASSUME ConnectionInv, NEW u \in Users, NEW r \in DOMAIN requests, NEW k \in Keys,
           NEW m \in MachineIds, NEW decision \in {"approved", "denied"},
           DecideMachineConnection(u, r, decision, k, m)
    PROVE  ConnectionInv' /\ Moves /\ DOMAIN requests' = DOMAIN requests
<1> DEFINE chosen == IF decision = "approved" THEN m ELSE NoMachine
           row == [requests[r] EXCEPT !.decision = decision, !.by = u, !.key = k,
                                      !.machine = chosen]
<1>1. /\ requests[r] \in Request /\ members' = members /\ machines' = machines
      /\ requests[r].decision = "none" /\ requests[r].left > 0 /\ ~ requests[r].cancelled
      /\ \A q \in DOMAIN requests : requests[q].machine # m
      /\ requests' = [requests EXCEPT ![r] = row]
  BY Rows DEF DecideMachineConnection, IsDecidable, Live
<1>2. ~ requests[r].redeemed
  BY <1>1 DEF ConnectionInv, PreparedOnce
<1>3. chosen \in MachineIds \cup {NoMachine}
      /\ (chosen # NoMachine => chosen = m /\ decision = "approved")
  OBVIOUS
<1>4. /\ row \in Request /\ row.decision = decision /\ row.by = u /\ row.machine = chosen
      /\ row.redeemed = requests[r].redeemed /\ row.left = requests[r].left
  <2> HIDE DEF chosen
  <2>1. row \in Request
    BY <1>1, <1>3 DEF Request
  <2>2. /\ row.decision = decision /\ row.by = u /\ row.machine = chosen
        /\ row.redeemed = requests[r].redeemed /\ row.left = requests[r].left
    BY <1>1 DEF Request
  <2> QED BY <2>1, <2>2
<1> HIDE DEF row
<1>5. /\ DOMAIN requests' = DOMAIN requests /\ requests'[r] = row
      /\ \A q \in DOMAIN requests : q # r => requests'[q] = requests[q]
      /\ requests' \in [DOMAIN requests' -> Request]
  BY <1>1, <1>4 DEF ConnectionInv, ConnectionTypeOK
<1>6. ConnectionTypeOK'
  BY <1>1, <1>5 DEF ConnectionInv, ConnectionTypeOK, MembersTypeOK
<1>7. PreparedOnce'
  <2>1. \A q \in DOMAIN requests' :
          /\ IF requests'[q].decision = "approved"
             THEN requests'[q].machine \in MachineIds /\ requests'[q].by \in Users
             ELSE requests'[q].machine = NoMachine
          /\ requests'[q].redeemed => requests'[q].decision = "approved"
    BY <1>2, <1>4, <1>5 DEF ConnectionInv, PreparedOnce
  <2>2. ASSUME NEW q \in DOMAIN requests', NEW p \in DOMAIN requests',
               requests'[q].machine = requests'[p].machine, requests'[p].machine # NoMachine
        PROVE  q = p
    <3>1. CASE q # r /\ p # r
      BY <1>5, <2>2, <3>1 DEF ConnectionInv, PreparedOnce
    <3>2. CASE q = r \/ p = r
      <4> HIDE DEF chosen
      <4> QED BY <1>1, <1>3, <1>4, <1>5, <2>2, <3>2
    <3> QED BY <3>1, <3>2
  <2> QED BY <2>1, <2>2 DEF PreparedOnce
<1>8. OneMachinePerRequest'
  <2>1. \A n \in DOMAIN machines : machines[n].request # r
    BY <1>2 DEF ConnectionInv, OneMachinePerRequest
  <2>2. ~ requests'[r].redeemed
    BY <1>2, <1>4, <1>5
  <2> QED BY <1>1, <1>5, <2>1, <2>2 DEF ConnectionInv, OneMachinePerRequest
<1>9. Moves
  <2>1. Redeemable(r)
    BY <1>1, <1>2 DEF Redeemable
  <2>2. \A q \in DOMAIN requests : q # r => (Redeemable(q)' => Redeemable(q))
    BY <1>1, <1>5 DEF Redeemable
  <2> QED BY <1>1, <1>5, <2>1, <2>2 DEF Moves
<1> QED BY <1>5, <1>6, <1>7, <1>8, <1>9 DEF ConnectionInv

(* A revocation. *)
LEMMA RevokeMoves ==
    ASSUME ConnectionInv, NEW m \in DOMAIN machines, machines' = Revoked(m),
           members' = members, requests' = requests
    PROVE  ConnectionInv' /\ Moves /\ machines'[m].state = "revoked"
<1> DEFINE row == [machines[m] EXCEPT !.state = "revoked"]
<1>1. machines[m] \in Machine /\ machines' = [machines EXCEPT ![m] = row]
  BY Rows DEF Revoked
<1>2. /\ row \in Machine /\ row.request = machines[m].request /\ row.state = "revoked"
      /\ row.enrolledBy = machines[m].enrolledBy
  BY <1>1 DEF Machine
<1>3. machines[m].state = "revoked" => row = machines[m]
  BY <1>1 DEF Machine
<1> HIDE DEF row
<1>4. /\ DOMAIN machines' = DOMAIN machines /\ machines'[m] = row
      /\ \A n \in DOMAIN machines : n # m => machines'[n] = machines[n]
      /\ machines' \in [DOMAIN machines' -> Machine]
  BY <1>1, <1>2 DEF ConnectionInv, ConnectionTypeOK
<1>5. ConnectionTypeOK'
  BY <1>4 DEF ConnectionInv, ConnectionTypeOK, MembersTypeOK
<1>6. \A n \in DOMAIN machines : /\ machines'[n].request = machines[n].request
                                 /\ machines'[n].enrolledBy = machines[n].enrolledBy
  BY <1>2, <1>4
<1>7. PreparedOnce' /\ OneMachinePerRequest'
  BY <1>4, <1>6 DEF ConnectionInv, PreparedOnce, OneMachinePerRequest
<1>8. Moves
  <2>1. ASSUME NEW q \in DOMAIN requests, Redeemable(q)' PROVE Redeemable(q)
    <3>1. requests[q].redeemed => requests[q].machine \in DOMAIN machines
      BY DEF ConnectionInv, OneMachinePerRequest
    <3> QED BY <1>2, <1>4, <2>1, <3>1 DEF Redeemable
  <2> QED BY <1>3, <1>4, <1>6, <2>1 DEF Moves
<1> QED BY <1>2, <1>4, <1>5, <1>7, <1>8 DEF ConnectionInv

(* The removal of a member changes no row of these tables. *)
LEMMA RemoveMemberMoves ==
    ASSUME ConnectionInv, NEW u \in Users, NEW target \in Users, NEW k \in Keys,
           RemoveSpaceMember(u, target, k)
    PROVE  ConnectionInv' /\ Moves
<1>1. members' \in [Users -> Membership]
  <2>1. members[target] \in Membership
    BY DEF ConnectionInv, ConnectionTypeOK, MembersTypeOK
  <2>2. [members[target] EXCEPT !.state = "revoked", !.removedBy = u,
                                !.successor = NoUser, !.removalKey = k] \in Membership
    BY <2>1 DEF Membership
  <2> QED BY <2>2 DEF ConnectionInv, ConnectionTypeOK, MembersTypeOK, RemoveSpaceMember,
                      RemoveMembership
<1>2. requests' = requests /\ machines' = machines
  BY DEF RemoveSpaceMember
<1>3. ConnectionInv'
  BY <1>1, <1>2 DEF ConnectionInv, ConnectionTypeOK, MembersTypeOK, PreparedOnce,
                    OneMachinePerRequest
<1>4. Moves
  BY <1>2 DEF Moves, Redeemable
<1> QED BY <1>3, <1>4

(* The clock only takes time away. *)
LEMMA TickMoves ==
    ASSUME ConnectionInv, requests' = RequestsAfterTick, members' = members,
           machines' = machines
    PROVE  ConnectionInv' /\ Moves /\ DOMAIN requests' = DOMAIN requests
<1>1. DOMAIN requests' = DOMAIN requests
  BY DEF RequestsAfterTick
<1>2. ASSUME NEW r \in DOMAIN requests
      PROVE  /\ requests'[r] \in Request
             /\ requests'[r].decision = requests[r].decision
             /\ requests'[r].machine = requests[r].machine
             /\ requests'[r].by = requests[r].by
             /\ requests'[r].redeemed = requests[r].redeemed
             /\ requests'[r].cancelled = requests[r].cancelled
             /\ requests'[r].left > 0 => requests[r].left > 0
             /\ requests'[r].replay > 0 => requests[r].replay > 0
  <2>1. requests[r] \in Request
    BY Rows
  <2>2. requests'[r] = [requests[r] EXCEPT !.left = Down(requests[r].left),
                          !.wait = Down(requests[r].wait), !.replay = Down(requests[r].replay)]
    BY DEF RequestsAfterTick
  <2>3. /\ requests[r].left \in 0 .. Lifetime /\ requests[r].wait \in 0 .. MaxInterval
        /\ requests[r].replay \in 0 .. ReplayLifetime
    BY <2>1 DEF Request
  <2>4. /\ Down(requests[r].left) \in 0 .. Lifetime
        /\ Down(requests[r].wait) \in 0 .. MaxInterval
        /\ Down(requests[r].replay) \in 0 .. ReplayLifetime
        /\ Down(requests[r].left) > 0 => requests[r].left > 0
        /\ Down(requests[r].replay) > 0 => requests[r].replay > 0
    BY <2>3, ConnectionAssumption DEF Down
  <2> QED BY <2>1, <2>2, <2>4 DEF Request
<1>3. ConnectionTypeOK'
  <2>1. requests' \in [DOMAIN requests' -> Request]
    BY <1>1, <1>2 DEF RequestsAfterTick
  <2> QED BY <1>1, <2>1 DEF ConnectionInv, ConnectionTypeOK, MembersTypeOK
<1>4. PreparedOnce' /\ OneMachinePerRequest'
  BY <1>1, <1>2 DEF ConnectionInv, PreparedOnce, OneMachinePerRequest
<1>5. Moves
  BY <1>1, <1>2 DEF Moves, Redeemable
<1> QED BY <1>1, <1>3, <1>4, <1>5 DEF ConnectionInv-----------------------------------------------------------------------------
(* Every step, seen from the control plane. *)

(* The kinds of a message and what it carries. *)
LEMMA MessageRows ==
    ASSUME TypeOK, NEW x \in net
    PROVE  /\ x \in Message /\ x.kind \in {"begin", "poll", "cancel", "revoke"}
           /\ x.kind = "revoke" => x.request = NoRequest /\ x.machine \in MachineIds
           /\ x.kind # "revoke" => x.request \in RequestIds /\ x.machine = NoMachine
           /\ x.awaited \in BOOLEAN
           /\ x = [kind |-> x.kind, request |-> x.request, machine |-> x.machine,
                   awaited |-> x.awaited]
  BY DEF TypeOK, Message

(* A request that is handled changes the tables as its transaction does, and
   a request that is new there has its key on disk or given up. *)
LEMMA HandleMoves ==
    ASSUME SetupInv, NEW x \in net, NEW s \in Sources, Transaction(x, s)
    PROVE  /\ ConnectionInv' /\ Moves
           /\ DOMAIN requests' \subseteq DOMAIN requests \cup erased \cup {disk.pending}
<1>1. TypeOK /\ ConnectionInv
  BY DEF SetupInv
<1>2. CASE x.kind = "begin"
  <2>1. /\ x.request \in RequestIds
        /\ x.request \in DOMAIN requests \cup erased \cup {disk.pending}
    BY <1>1, <1>2, MessageRows DEF SetupInv, WireFollowsHost
  <2>2. BeginMachineConnection(x.request, s)
    BY <1>2 DEF Transaction
  <2> QED BY <1>1, <2>1, <2>2, BeginMoves
<1>3. CASE x.kind = "poll"
  <2>1. x.request \in DOMAIN requests /\ PollMachineConnection(x.request)
    BY <1>3 DEF SetupInv, WireFollowsHost, Transaction
  <2> QED BY <1>1, <2>1, PollMoves
<1>4. CASE x.kind = "cancel"
  <2>1. x.request \in DOMAIN requests /\ CancelMachineConnection(x.request)
    BY <1>4 DEF SetupInv, WireFollowsHost, Transaction
  <2> QED BY <1>1, <2>1, CancelMoves
<1>5. CASE x.kind = "revoke"
  <2>1. x.machine \in DOMAIN machines /\ RevokeMachineFromHost(x.machine)
    BY <1>5 DEF SetupInv, WireFollowsHost, Transaction
  <2> QED BY <1>1, <2>1, RevokeMoves DEF RevokeMachineFromHost
<1> QED BY <1>1, <1>2, <1>3, <1>4, <1>5, MessageRows

(* A step of a command or of the network leaves the tables alone. *)
LEMMA CommandsLeaveTables ==
    ASSUME \/ Setup \/ CommandStep \/ SendPoll \/ FileStep
           \/ (\E x \in net : Lose(x)) \/ Crash
    PROVE  members' = members /\ requests' = requests /\ machines' = machines
<1>1. Setup \/ SendPoll => UNCHANGED server
  BY DEF Setup, RunSetup, SendPoll
<1>2. CommandStep => UNCHANGED server
  BY DEF CommandStep, RunStart, StopRevoked, StopServing, RunDisconnect, Interrupt,
         RemoveLocalOnly
<1>3. FileStep => UNCHANGED server
  BY DEF FileStep, Install, FinishInstall, GiveUp, MarkRevoked, RemoveRevoked
<1>4. (\E x \in net : Lose(x)) \/ Crash => UNCHANGED server
  BY DEF Lose, Crash
<1> QED BY <1>1, <1>2, <1>3, <1>4 DEF server

(* Members. *)
LEMMA MembersMove ==
    ASSUME SetupInv, MemberStep
    PROVE  /\ ConnectionInv' /\ Moves /\ DOMAIN requests' = DOMAIN requests
           /\ disk' = disk /\ host' = host /\ net' = net /\ erased' = erased
           /\ faults' = faults
<1>1. ConnectionInv
  BY DEF SetupInv
<1>2. CASE \E u \in Users, r \in DOMAIN requests, k \in Keys, m \in MachineIds,
              decision \in {"approved", "denied"} :
               DecideMachineConnection(u, r, decision, k, m) /\ UNCHANGED local
  BY <1>1, <1>2, DecideMoves DEF local
<1>3. CASE \E u \in Users, m \in DOMAIN machines :
              RevokeMachineFromBrowser(u, m) /\ UNCHANGED local
  BY <1>1, <1>3, RevokeMoves DEF local, RevokeMachineFromBrowser
<1>4. CASE \E u, target \in Users, k \in Keys :
              RemoveSpaceMember(u, target, k) /\ UNCHANGED local
  BY <1>1, <1>4, RemoveMemberMoves DEF local, RemoveSpaceMember
<1> QED BY <1>2, <1>3, <1>4 DEF MemberStep

(* So every step moves the tables in this way. *)
LEMMA StepMoves ==
    ASSUME SetupInv, [Next]_vars
    PROVE  /\ ConnectionInv' /\ Moves
           /\ DOMAIN requests' \subseteq DOMAIN requests \cup erased \cup {disk.pending}
<1>1. ConnectionInv
  BY DEF SetupInv
<1>2. CASE Setup \/ CommandStep \/ SendPoll \/ FileStep \/ (\E x \in net : Lose(x)) \/ Crash
  BY <1>1, <1>2, CommandsLeaveTables, NothingMoves
<1>3. CASE Deliver
  BY <1>3, HandleMoves DEF Deliver, Handle
<1>4. CASE MemberStep
  BY <1>4, MembersMove
<1>5. CASE Tick
  BY <1>1, <1>5, TickMoves DEF Tick
<1>6. CASE UNCHANGED vars
  BY <1>1, <1>6, NothingMoves DEF vars
<1> QED BY <1>2, <1>3, <1>4, <1>5, <1>6 DEF Next
-----------------------------------------------------------------------------
(* Steps that leave the files alone. *)

(* What is on disk stays right, however the tables move. *)
LEMMA KeysStay ==
    ASSUME SetupInv, Moves, disk' = disk, erased' = erased,
           DOMAIN requests' \subseteq DOMAIN requests \cup erased \cup {disk.pending}
    PROVE  /\ KeyIsKept'
           /\ {disk.credential, disk.retired} \subseteq DOMAIN machines' \cup {NoMachine}
           /\ disk.retired # NoMachine => machines'[disk.retired].state = "revoked"
<1>1. {disk.credential, disk.retired} \subseteq DOMAIN machines \cup {NoMachine}
  BY DEF SetupInv, HostFollowsDisk
<1>2. KeyOf(disk.credential)' = KeyOf(disk.credential)
  BY <1>1 DEF KeyOf, Moves
<1>3. ASSUME NEW r \in RequestIds \ erased, Redeemable(r)'
      PROVE  disk.pending = r \/ r \in KeyOf(disk.credential)
  <2>1. r \in DOMAIN requests \/ r = disk.pending
    BY <1>3 DEF Redeemable
  <2>2. r \in DOMAIN requests => Redeemable(r)
    BY <1>3 DEF Moves
  <2> QED BY <1>3, <2>1, <2>2 DEF SetupInv, KeyIsKept
<1>4. KeyIsKept'
  BY <1>2, <1>3 DEF KeyIsKept
<1>5. disk.retired # NoMachine => machines'[disk.retired].state = "revoked"
  BY <1>1 DEF SetupInv, RevocationIsConfirmed, Moves
<1> QED BY <1>1, <1>4, <1>5 DEF Moves

(* The command is where it was, with the same request and Machine. *)
HostSame == /\ host'.at = host.at /\ host'.request = host.request
            /\ host'.machine = host.machine

(* Nothing new is on the wire, and only a command that stays waits. *)
WireShrinks ==
    \A y \in net' : \E x \in net :
        /\ y.kind = x.kind /\ y.request = x.request /\ y.machine = x.machine
        /\ y.awaited => x.awaited /\ HostSame

(* The wire stays right. *)
LEMMA WireStays ==
    ASSUME SetupInv, Moves, WireShrinks, erased \subseteq erased',
           disk.pending \in {NoRequest, disk'.pending} \cup DOMAIN requests \cup erased'
    PROVE  WireFollowsHost'
<1>1. ASSUME NEW y \in net'
      PROVE  /\ y.kind = "begin" =>
                  y.request \in DOMAIN requests' \cup erased' \cup {disk'.pending}
             /\ y.kind \in {"poll", "cancel"} => y.request \in DOMAIN requests'
             /\ y.kind = "revoke" => y.machine \in DOMAIN machines'
             /\ y.awaited => /\ host'.at = y.kind
                             /\ IF y.kind = "revoke" THEN host'.machine = y.machine
                                ELSE host'.request = y.request
  <2>1. PICK x \in net : /\ y.kind = x.kind /\ y.request = x.request /\ y.machine = x.machine
                         /\ y.awaited => x.awaited /\ HostSame
    BY DEF WireShrinks
  <2>2. /\ x.kind = "begin" => x.request \in DOMAIN requests \cup erased \cup {disk.pending}
        /\ x.kind \in {"poll", "cancel"} => x.request \in DOMAIN requests
        /\ x.kind = "revoke" => x.machine \in DOMAIN machines
        /\ x.awaited => /\ host.at = x.kind
                        /\ IF x.kind = "revoke" THEN host.machine = x.machine
                           ELSE host.request = x.request
    BY DEF SetupInv, WireFollowsHost
  <2>3. x.kind = "begin" => x.request # NoRequest
    BY MessageRows, SetupAssumption DEF SetupInv
  <2> QED BY <2>1, <2>2, <2>3 DEF Moves, HostSame
<1> QED BY <1>1 DEF WireFollowsHost

(* A command that stays where it is stays right. *)
LEMMA HostStays ==
    ASSUME SetupInv, Moves, ConnectionInv', disk' = disk, erased' = erased, HostSame,
           DOMAIN requests' \subseteq DOMAIN requests \cup erased \cup {disk.pending}
    PROVE  HostFollowsDisk' /\ RevocationIsConfirmed'
<1>1. /\ {disk.credential, disk.retired} \subseteq DOMAIN machines' \cup {NoMachine}
      /\ disk.retired # NoMachine => machines'[disk.retired].state = "revoked"
  BY KeysStay
<1>2. ASSUME host.at = "give_up" PROVE ~ Redeemable(host.request)'
  <2>1. PICK q : q = host.request
    OBVIOUS
  <2>2. q \in DOMAIN requests /\ ~ Redeemable(q)
    BY <1>2, <2>1 DEF SetupInv, HostFollowsDisk
  <2>3. ~ Redeemable(q)' /\ host'.request = q
    BY <2>1, <2>2 DEF Moves, HostSame
  <2> QED BY <2>3 DEF Redeemable
<1>3. HostFollowsDisk'
  BY <1>1, <1>2 DEF SetupInv, HostFollowsDisk, Moves, HostSame
<1>4. host.at = "revoked" => machines'[disk.credential].state = "revoked"
  BY DEF SetupInv, HostFollowsDisk, RevocationIsConfirmed, Moves
<1> QED BY <1>1, <1>3, <1>4 DEF RevocationIsConfirmed, HostSame
(* The command ends, or goes on with nothing in memory. *)
LEMMA HostRests ==
    ASSUME SetupInv, Moves, disk' = disk, erased' = erased,
           host'.at \in {"off", "serve", "retire"},
           DOMAIN requests' \subseteq DOMAIN requests \cup erased \cup {disk.pending}
    PROVE  HostFollowsDisk' /\ RevocationIsConfirmed'
  BY KeysStay DEF HostFollowsDisk, RevocationIsConfirmed

(* carry setup goes on with a request that the control plane knows. *)
LEMMA HostWaits ==
    ASSUME SetupInv, Moves, disk' = disk, erased' = erased,
           host.at \in {"begin", "wait", "poll", "cancel"},
           host'.at \in {"wait", "poll", "cancel"}, host'.request = host.request,
           host.request \in DOMAIN requests',
           DOMAIN requests' \subseteq DOMAIN requests \cup erased \cup {disk.pending}
    PROVE  HostFollowsDisk' /\ RevocationIsConfirmed'
<1>1. /\ host.request = disk.pending /\ disk.pending \in RequestIds
      /\ disk.credential = NoMachine
  BY DEF SetupInv, HostFollowsDisk
<1> QED BY <1>1, KeysStay DEF HostFollowsDisk, RevocationIsConfirmed

(* The memory of a command that has just ended. *)
LEMMA OffRow ==
    /\ Off \in Host /\ Off.at = "off"
    /\ \A at \in {"serve", "retire"} :
         [Off EXCEPT !.at = at] \in Host /\ [Off EXCEPT !.at = at].at = at
    /\ \A r \in RequestIds : /\ [Off EXCEPT !.at = "begin", !.request = r] \in Host
                             /\ [Off EXCEPT !.at = "begin", !.request = r].at = "begin"
                             /\ [Off EXCEPT !.at = "begin", !.request = r].request = r
    /\ \A m \in MachineIds : /\ [Off EXCEPT !.at = "revoke", !.machine = m] \in Host
                             /\ [Off EXCEPT !.at = "revoke", !.machine = m].at = "revoke"
                             /\ [Off EXCEPT !.at = "revoke", !.machine = m].machine = m
<1>1. 0 \in 0 .. MaxInterval
  BY ConnectionAssumption
<1> QED BY <1>1 DEF Off, Host

(* A pause between two polls. *)
LEMMA SleepRow ==
    ASSUME TypeOK, NEW i \in 0 .. MaxInterval
    PROVE  /\ Sleep(i) \in Host /\ Sleep(i).at = "wait"
           /\ Sleep(i).request = host.request /\ Sleep(i).machine = host.machine
<1>1. host \in Host
  BY DEF TypeOK
<1> QED BY <1>1 DEF Sleep, Host

(* The interval of a poll, when slowed down, stays within its bound. *)
LEMMA LongerIntervalType ==
    ASSUME TypeOK
    PROVE  LongerInterval \in 0 .. MaxInterval
<1>1. host.interval \in 0 .. MaxInterval
  BY DEF TypeOK, Host
<1> QED BY <1>1, ConnectionAssumption DEF LongerInterval

(* Another place in the same command. *)
LEMMA PlaceRow ==
    ASSUME TypeOK, NEW at \in {"poll", "cancel", "give_up", "revoked", "retire", "installed"}
    PROVE  /\ [host EXCEPT !.at = at] \in Host /\ [host EXCEPT !.at = at].at = at
           /\ [host EXCEPT !.at = at].request = host.request
           /\ [host EXCEPT !.at = at].machine = host.machine
<1>1. host \in Host
  BY DEF TypeOK
<1> QED BY <1>1 DEF Host

(* At most one answer is awaited: the one the running command is at. *)
LEMMA AwaitedIsOne ==
    ASSUME SetupInv, NEW x \in net, NEW y \in net, x.awaited, y.awaited
    PROVE  x = y
<1>1. TypeOK
  BY DEF SetupInv
<1>2. /\ x.kind = y.kind
      /\ IF x.kind = "revoke" THEN x.machine = y.machine ELSE x.request = y.request
  BY DEF SetupInv, WireFollowsHost
<1>3. x.request = y.request /\ x.machine = y.machine
  BY <1>1, <1>2, MessageRows
<1>4. x.awaited = TRUE /\ y.awaited = TRUE
  BY <1>1, MessageRows
<1>5. /\ x = [kind |-> x.kind, request |-> x.request, machine |-> x.machine,
              awaited |-> x.awaited]
      /\ y = [kind |-> y.kind, request |-> y.request, machine |-> y.machine,
              awaited |-> y.awaited]
  BY <1>1, MessageRows
<1> QED BY <1>2, <1>3, <1>4, <1>5

(* The answer to a poll: the key is kept until the credential is there, and
   given up only if the certificate is out of reach.  A Machine that was
   revoked before is not installed. *)
LEMMA AfterPollKeepsInv ==
    ASSUME SetupInv, NEW r \in DOMAIN requests, PollMachineConnection(r),
           host.at = "poll", host.request = r, disk' = disk, erased' = erased,
           host' = AfterPoll(PollVerdict(r))
    PROVE  /\ host' \in Host /\ HostFollowsDisk' /\ RevocationIsConfirmed'
           /\ host'.at = "install" /\ host'.machine \in DOMAIN machines =>
                machines[host'.machine].state # "revoked"
<1>1. TypeOK /\ ConnectionInv /\ host \in Host
  BY DEF SetupInv, TypeOK
<1>2. /\ ConnectionInv' /\ Moves /\ DOMAIN requests' = DOMAIN requests
      /\ PollVerdict(r) \in {"denied", "gone", "cancelled"} => ~ Redeemable(r)'
  BY <1>1, PollMoves
<1>3. /\ host.request = disk.pending /\ disk.pending \in RequestIds
      /\ disk.credential = NoMachine
  BY DEF SetupInv, HostFollowsDisk
<1>4. /\ {disk.credential, disk.retired} \subseteq DOMAIN machines' \cup {NoMachine}
      /\ disk.retired # NoMachine => machines'[disk.retired].state = "revoked"
  BY <1>2, KeysStay
<1>5. CASE PollVerdict(r) \in {"redeemed", "replayed"}
  <2> DEFINE m == PreparedMachine(r)
  <2>1. /\ m \in DOMAIN machines' /\ machines'[m].request = r
        /\ m \in DOMAIN machines => machines[m].state # "revoked"
    <3>1. CASE PollVerdict(r) = "redeemed"
      BY <1>1, <3>1, RedeemMoves
    <3>2. CASE PollVerdict(r) = "replayed"
      <4>1. requests[r].redeemed /\ machines[requests[r].machine].state # "revoked"
        BY <3>2 DEF PollVerdict
      <4>2. m \in DOMAIN machines /\ machines[m].state # "revoked"
        BY <1>1, <4>1 DEF PreparedMachine, ConnectionInv, OneMachinePerRequest
      <4>3. machines[m].request = r
        <5> DEFINE q == machines[m].request
        <5>1. q \in DOMAIN requests /\ requests[q].machine = m /\ m # NoMachine
          BY <1>1, <4>2, Rows DEF ConnectionInv, OneMachinePerRequest
        <5> QED BY <1>1, <5>1 DEF PreparedMachine, ConnectionInv, PreparedOnce
      <4> QED BY <1>2, <4>2, <4>3 DEF Moves
    <3> QED BY <1>5, <3>1, <3>2
  <2>2. m \in MachineIds
    BY <1>2, <2>1 DEF ConnectionInv, ConnectionTypeOK
  <2>3. host' = [host EXCEPT !.at = "install", !.machine = m]
    BY <1>5 DEF AfterPoll
  <2> HIDE DEF m
  <2>4. host' \in Host /\ host'.at = "install" /\ host'.request = r /\ host'.machine = m
    BY <1>1, <2>2, <2>3 DEF Host
  <2>5. HostFollowsDisk' /\ RevocationIsConfirmed'
    BY <1>2, <1>3, <1>4, <2>1, <2>4 DEF HostFollowsDisk, RevocationIsConfirmed
  <2> QED BY <2>1, <2>4, <2>5
<1>6. CASE PollVerdict(r) \in {"pending", "slow_down"}
  <2>1. PICK i \in 0 .. MaxInterval : host' = Sleep(i)
    <3>1. CASE PollVerdict(r) = "pending"
      BY <1>1, <3>1 DEF AfterPoll, Host
    <3>2. CASE PollVerdict(r) = "slow_down"
      BY <1>1, <3>2, SlowedIntervalType, LongerIntervalType DEF AfterPoll
    <3> QED BY <1>6, <3>1, <3>2
  <2>2. host' \in Host /\ host'.at = "wait" /\ host'.request = host.request
    BY <1>1, <2>1, SleepRow
  <2> QED BY <1>2, <2>2, HostWaits
<1>7. CASE PollVerdict(r) \in {"denied", "gone", "cancelled"}
  <2>1. host' = [host EXCEPT !.at = "give_up"]
    BY <1>7 DEF AfterPoll
  <2>2. host' \in Host /\ host'.at = "give_up" /\ host'.request = r
    BY <1>1, <2>1, PlaceRow
  <2>3. ~ Redeemable(host.request)'
    BY <1>2, <1>7, <2>2 DEF Redeemable
  <2>4. HostFollowsDisk' /\ RevocationIsConfirmed'
    BY <1>2, <1>3, <1>4, <2>2, <2>3 DEF HostFollowsDisk, RevocationIsConfirmed
  <2> QED BY <2>2, <2>4
<1>8. CASE PollVerdict(r) = "unavailable"
  <2>1. host' = Off
    BY <1>8 DEF AfterPoll
  <2>2. host' \in Host /\ host'.at = "off"
    BY <2>1, OffRow
  <2> QED BY <1>2, <2>2, HostRests
<1>9. PollVerdict(r) \in {"redeemed", "replayed", "pending", "slow_down", "denied", "gone",
                          "cancelled", "unavailable"}
  BY DEF PollVerdict
<1> QED BY <1>5, <1>6, <1>7, <1>8, <1>9
(* A request is handled. *)
LEMMA HandleKeepsInv ==
    ASSUME SetupInv, NEW x \in net, NEW s \in Sources, Handle(x, s)
    PROVE  /\ SetupInv'
           /\ host'.at = "install" /\ host.at # "install"
                /\ host'.machine \in DOMAIN machines =>
                machines[host'.machine].state # "revoked"
<1>1. /\ TypeOK /\ ConnectionInv /\ host \in Host
      /\ disk' = disk /\ erased' = erased /\ faults' = faults /\ net' = net \ {x}
  BY DEF SetupInv, TypeOK, Handle
<1>2. /\ ConnectionInv' /\ Moves
      /\ DOMAIN requests' \subseteq DOMAIN requests \cup erased \cup {disk.pending}
  BY HandleMoves DEF Handle
<1>3. ConnectionTypeOK' /\ KeyIsKept'
  BY <1>1, <1>2, KeysStay DEF ConnectionInv
<1>4. CASE ~ x.awaited
  <2>1. host' = host
    BY <1>4 DEF Handle
  <2>2. HostSame /\ WireShrinks
    BY <1>1, <2>1 DEF HostSame, WireShrinks
  <2>3. HostFollowsDisk' /\ RevocationIsConfirmed'
    BY <1>1, <1>2, <2>2, HostStays
  <2>4. WireFollowsHost'
    BY <1>1, <1>2, <2>2, WireStays
  <2>5. TypeOK'
    BY <1>1, <1>3, <2>1 DEF TypeOK
  <2> QED BY <1>2, <1>3, <2>1, <2>3, <2>4, <2>5 DEF SetupInv
<1>5. CASE x.awaited
  <2>1. /\ host' = AfterAnswer(x, s) /\ Transaction(x, s)
        /\ host.at = x.kind /\ x.kind \in {"begin", "poll", "cancel", "revoke"}
        /\ x.kind = "revoke" => host.machine = x.machine
        /\ x.kind # "revoke" => host.request = x.request
    BY <1>1, <1>5, MessageRows DEF Handle, SetupInv, WireFollowsHost
  <2>2. WireShrinks
    <3>1. \A y \in net' : y \in net /\ ~ y.awaited
      BY <1>1, <1>5, AwaitedIsOne
    <3> QED BY <3>1 DEF WireShrinks
  <2>3. /\ host' \in Host /\ HostFollowsDisk' /\ RevocationIsConfirmed'
        /\ host'.at = "install" /\ host'.machine \in DOMAIN machines =>
             machines[host'.machine].state # "revoked"
    <3>1. CASE x.kind = "begin"
      <4>1. /\ BeginMachineConnection(x.request, s) /\ x.request \in RequestIds
        BY <1>1, <2>1, <3>1, MessageRows DEF Transaction
      <4>2. CASE BeginAnswer(x.request, s) = "begun"
        <5>1. x.request \in DOMAIN requests'
          BY <1>1, <4>1, <4>2, BeginMoves
        <5>2. PICK i \in 0 .. MaxInterval : host' = Sleep(i)
          <6>1. x.request \in DOMAIN requests => requests[x.request].interval \in 0 .. MaxInterval
            BY <1>1, Rows DEF Request
          <6>2. InitialInterval \in 0 .. MaxInterval
            BY ConnectionAssumption
          <6>3. host' = Sleep(IF x.request \in DOMAIN requests
                              THEN requests[x.request].interval ELSE InitialInterval)
            BY <2>1, <3>1, <4>2 DEF AfterAnswer
          <6> QED BY <6>1, <6>2, <6>3
        <5>3. host' \in Host /\ host'.at = "wait" /\ host'.request = host.request
          BY <1>1, <5>2, SleepRow
        <5> QED BY <1>1, <1>2, <2>1, <3>1, <5>1, <5>3, HostWaits
      <4>3. CASE BeginAnswer(x.request, s) = "limited"
        <5>1. host' = Off
          BY <2>1, <3>1, <4>3 DEF AfterAnswer
        <5>2. host' \in Host /\ host'.at = "off"
          BY <5>1, OffRow
        <5> QED BY <1>1, <1>2, <5>2, HostRests
      <4> QED BY <4>2, <4>3 DEF BeginAnswer
    <3>2. CASE x.kind = "poll"
      <4>1. /\ x.request \in DOMAIN requests /\ PollMachineConnection(x.request)
            /\ host' = AfterPoll(PollVerdict(x.request))
            /\ host.at = "poll" /\ host.request = x.request
        BY <2>1, <3>2 DEF SetupInv, WireFollowsHost, Transaction, AfterAnswer
      <4> QED BY <1>1, <4>1, AfterPollKeepsInv
    <3>3. CASE x.kind = "cancel"
      <4>1. /\ x.request \in DOMAIN requests /\ CancelMachineConnection(x.request)
            /\ host' = AfterCancel(CancelVerdict(x.request))
            /\ host.at = "cancel" /\ host.request = x.request
        BY <2>1, <3>3 DEF SetupInv, WireFollowsHost, Transaction, AfterAnswer
      <4>2. CASE CancelVerdict(x.request) = "cancelled"
        <5>1. host' = [host EXCEPT !.at = "give_up"]
          BY <4>1, <4>2 DEF AfterCancel
        <5>2. host' \in Host /\ host'.at = "give_up" /\ host'.request = x.request
          BY <1>1, <4>1, <5>1, PlaceRow
        <5>3. ~ Redeemable(x.request)' /\ DOMAIN requests' = DOMAIN requests
          BY <1>1, <4>1, <4>2, CancelMoves
        <5>4. ~ Redeemable(host.request)'
          <6>1. PICK q : q = x.request
            OBVIOUS
          <6>2. ~ Redeemable(q)' /\ host'.request = q
            BY <1>1, <4>1, <4>2, <5>2, <6>1, CancelMoves
          <6> QED BY <6>2 DEF Redeemable
        <5>5. /\ host.request = disk.pending /\ disk.pending \in RequestIds
              /\ disk.credential = NoMachine
          BY <4>1 DEF SetupInv, HostFollowsDisk
        <5>6. HostFollowsDisk' /\ RevocationIsConfirmed'
          BY <1>1, <1>2, <4>1, <5>2, <5>3, <5>4, <5>5, KeysStay
             DEF HostFollowsDisk, RevocationIsConfirmed
        <5> QED BY <5>2, <5>6
      <4>3. CASE CancelVerdict(x.request) # "cancelled"
        <5>1. host' = Off
          BY <4>1, <4>3 DEF AfterCancel
        <5>2. host' \in Host /\ host'.at = "off"
          BY <5>1, OffRow
        <5> QED BY <1>1, <1>2, <5>2, HostRests
      <4> QED BY <4>2, <4>3
    <3>4. CASE x.kind = "revoke"
      <4>1. /\ x.machine \in DOMAIN machines /\ RevokeMachineFromHost(x.machine)
            /\ host' = [host EXCEPT !.at = "revoked"]
            /\ host.at = "revoke" /\ host.machine = x.machine
        BY <2>1, <3>4 DEF SetupInv, WireFollowsHost, Transaction, AfterAnswer
      <4>2. machines'[x.machine].state = "revoked"
        BY <1>1, <4>1, RevokeMoves DEF RevokeMachineFromHost
      <4>3. host' \in Host /\ host'.at = "revoked" /\ host'.machine = x.machine
        BY <1>1, <4>1, PlaceRow
      <4>4. disk.credential = x.machine
        BY <4>1 DEF SetupInv, HostFollowsDisk
      <4>5. x.machine \in DOMAIN machines'
        BY <1>2, <4>1 DEF Moves
      <4>6. HostFollowsDisk' /\ RevocationIsConfirmed'
        BY <1>1, <1>2, <4>2, <4>3, <4>4, <4>5, KeysStay DEF HostFollowsDisk, RevocationIsConfirmed
      <4> QED BY <4>3, <4>6
    <3> QED BY <2>1, <3>1, <3>2, <3>3, <3>4
  <2>4. WireFollowsHost'
    BY <1>1, <1>2, <2>2, WireStays
  <2>5. TypeOK'
    BY <1>1, <1>3, <2>3 DEF TypeOK
  <2> QED BY <1>2, <1>3, <2>3, <2>4, <2>5 DEF SetupInv
<1> QED BY <1>4, <1>5

(* Members act, or the clock advances. *)
LEMMA OutsideKeepsInv ==
    ASSUME SetupInv, MemberStep \/ Tick
    PROVE  SetupInv' /\ host'.at = host.at
<1>1. TypeOK /\ ConnectionInv /\ host \in Host
  BY DEF SetupInv, TypeOK
<1>2. /\ ConnectionInv' /\ Moves /\ DOMAIN requests' = DOMAIN requests
      /\ disk' = disk /\ net' = net /\ erased' = erased /\ faults' = faults
      /\ HostSame /\ host' \in Host
  <2>1. CASE MemberStep
    BY <1>1, <2>1, MembersMove DEF HostSame
  <2>2. CASE Tick
    <3>1. ConnectionInv' /\ Moves /\ DOMAIN requests' = DOMAIN requests
      BY <1>1, <2>2, TickMoves DEF Tick
    <3>2. host.sleep \in 0 .. MaxInterval
      BY <1>1 DEF Host
    <3>3. Down(host.sleep) \in 0 .. MaxInterval
      BY <3>2, ConnectionAssumption DEF Down
    <3>4. host' = [host EXCEPT !.sleep = Down(host.sleep)]
      BY <2>2 DEF Tick
    <3>5. host' \in Host /\ HostSame
      BY <1>1, <3>3, <3>4 DEF Host, HostSame
    <3> QED BY <2>2, <3>1, <3>5 DEF Tick
  <2> QED BY <2>1, <2>2
<1>3. WireFollowsHost'
  <2>1. WireShrinks
    BY <1>2 DEF WireShrinks
  <2> QED BY <1>2, <2>1, WireStays
<1>4. HostFollowsDisk' /\ RevocationIsConfirmed' /\ KeyIsKept'
  BY <1>2, HostStays, KeysStay
<1>5. TypeOK'
  BY <1>1, <1>2 DEF TypeOK, ConnectionInv
<1> QED BY <1>2, <1>3, <1>4, <1>5 DEF SetupInv, HostSame-----------------------------------------------------------------------------
(* Steps of the commands and faults: the tables stay as they are. *)

(* What every such step has in common. *)
LEMMA TablesStay ==
    ASSUME SetupInv, members' = members, requests' = requests, machines' = machines
    PROVE  /\ TypeOK /\ host \in Host /\ disk \in Disk /\ Moves
           /\ ConnectionInv' /\ ConnectionTypeOK'
           /\ \A r : Redeemable(r)' <=> Redeemable(r)
<1>1. TypeOK /\ ConnectionInv /\ host \in Host /\ disk \in Disk
  BY DEF SetupInv, TypeOK
<1>2. ConnectionInv' /\ Moves
  BY <1>1, NothingMoves
<1>3. \A r : Redeemable(r)' <=> Redeemable(r)
  BY DEF Redeemable
<1> QED BY <1>1, <1>2, <1>3 DEF ConnectionInv

(* Commands that leave the files alone: what is on disk stays right, and
   nothing new is on the wire that the command does not wait for. *)
LEMMA CommandKeepsInv ==
    ASSUME SetupInv, members' = members, requests' = requests, machines' = machines,
           disk' = disk, erased' = erased, faults' \in 0 .. MaxFaults, host' \in Host,
           HostFollowsDisk' /\ RevocationIsConfirmed', WireFollowsHost', net' \subseteq Message
    PROVE  SetupInv'
<1>1. TypeOK /\ ConnectionInv' /\ ConnectionTypeOK' /\ Moves
  BY TablesStay
<1>2. KeyIsKept'
  BY <1>1, KeysStay
<1>3. TypeOK'
  BY <1>1 DEF TypeOK
<1> QED BY <1>1, <1>2, <1>3 DEF SetupInv

(* A message that the command at its kind waits for. *)
LEMMA AwaitedRow ==
    /\ \A kind \in {"begin", "poll", "cancel"}, r \in RequestIds :
         Awaited(kind, r, NoMachine) \in Message
    /\ \A m \in MachineIds : Awaited("revoke", NoRequest, m) \in Message
  BY DEF Awaited, Message

(* An abandoned message is one that nobody waits for any more. *)
LEMMA AbandonedRows ==
    ASSUME TypeOK
    PROVE  /\ Abandoned \subseteq Message
           /\ \A y \in Abandoned :
                /\ ~ y.awaited
                /\ \E x \in net : /\ y.kind = x.kind /\ y.request = x.request
                                  /\ y.machine = x.machine
<1>1. ASSUME NEW y \in Abandoned
      PROVE  /\ y \in Message /\ ~ y.awaited
             /\ \E x \in net : /\ y.kind = x.kind /\ y.request = x.request
                               /\ y.machine = x.machine
  <2>1. PICK x \in net : y = [x EXCEPT !.awaited = FALSE]
    BY DEF Abandoned
  <2>2. x \in Message
    BY DEF TypeOK
  <2>3. y.awaited = FALSE /\ y.kind = x.kind /\ y.request = x.request /\ y.machine = x.machine
    BY <2>1, <2>2 DEF Message
  <2>4. y \in Message
    BY <2>1, <2>2 DEF Message
  <2> QED BY <2>3, <2>4
<1> QED BY <1>1

(* carry setup starts, with the key on disk. *)
LEMMA RunSetupKeepsInv ==
    ASSUME SetupInv, NEW r \in RequestIds, RunSetup(r)
    PROVE  SetupInv' /\ host'.at = "begin"
<1>1. /\ members' = members /\ requests' = requests /\ machines' = machines
      /\ erased' = erased /\ faults' = faults
      /\ host.at = "off" /\ disk.credential = NoMachine
      /\ disk.pending = NoRequest \/ disk.pending = r
      /\ disk' = [disk EXCEPT !.pending = r]
      /\ host' = [Off EXCEPT !.at = "begin", !.request = r]
      /\ net' = net \cup {Awaited("begin", r, NoMachine)}
  BY DEF RunSetup, server
<1>2. /\ TypeOK /\ host \in Host /\ disk \in Disk /\ Moves
      /\ ConnectionInv' /\ ConnectionTypeOK'
      /\ \A q : Redeemable(q)' <=> Redeemable(q)
  BY <1>1, TablesStay
<1>3. /\ disk' \in Disk /\ disk'.pending = r /\ disk'.credential = NoMachine
      /\ disk'.retired = disk.retired
  BY <1>1, <1>2 DEF Disk
<1>4. host' \in Host /\ host'.at = "begin" /\ host'.request = r
  BY <1>1, OffRow
<1>5. TypeOK'
  BY <1>1, <1>2, <1>3, <1>4, AwaitedRow DEF TypeOK
<1>6. WireFollowsHost'
  <2>1. ASSUME NEW y \in net
        PROVE  ~ y.awaited /\ (y.kind = "begin" => y.request # NoRequest)
    BY <1>1, <1>2, MessageRows, SetupAssumption DEF SetupInv, WireFollowsHost
  <2>2. /\ Awaited("begin", r, NoMachine).kind = "begin"
        /\ Awaited("begin", r, NoMachine).request = r
    BY DEF Awaited
  <2> QED BY <1>1, <1>3, <1>4, <2>1, <2>2 DEF SetupInv, WireFollowsHost
<1>7. HostFollowsDisk'
  BY <1>1, <1>3, <1>4 DEF SetupInv, HostFollowsDisk
<1>8. KeyIsKept'
  <2>1. KeyOf(disk.credential)' = KeyOf(disk.credential)
    BY <1>1, <1>3 DEF KeyOf
  <2> QED BY <1>1, <1>2, <1>3, <2>1, SetupAssumption DEF SetupInv, KeyIsKept
<1>9. RevocationIsConfirmed'
  BY <1>1, <1>3, <1>4 DEF SetupInv, RevocationIsConfirmed
<1> QED BY <1>2, <1>4, <1>5, <1>6, <1>7, <1>8, <1>9 DEF SetupInv

(* carry setup polls or cancels. *)
LEMMA AskKeepsInv ==
    ASSUME SetupInv, SendPoll \/ Interrupt
    PROVE  SetupInv' /\ host'.at \in {"poll", "cancel"}
<1>1. PICK kind \in {"poll", "cancel"} :
        /\ members' = members /\ requests' = requests /\ machines' = machines
        /\ disk' = disk /\ erased' = erased /\ host.at = "wait"
        /\ host' = [host EXCEPT !.at = kind]
        /\ net' = net \cup {Awaited(kind, host.request, NoMachine)}
  BY DEF SendPoll, Interrupt, server
<1>2. /\ TypeOK /\ host \in Host /\ Moves
  BY <1>1, TablesStay
<1>3. host.request \in RequestIds /\ host.request \in DOMAIN requests
  BY <1>1 DEF SetupInv, HostFollowsDisk
<1>4. host' \in Host /\ host'.at = kind /\ host'.request = host.request
  BY <1>1, <1>2, PlaceRow
<1>5. HostFollowsDisk' /\ RevocationIsConfirmed'
  BY <1>1, <1>2, <1>3, <1>4, HostWaits
<1>6. WireFollowsHost'
  <2> DEFINE z == Awaited(kind, host.request, NoMachine)
  <2>1. \A y \in net : ~ y.awaited
    BY <1>1, <1>2, MessageRows DEF SetupInv, WireFollowsHost
  <2>2. z.kind = kind /\ z.request = host.request
    BY DEF Awaited
  <2> HIDE DEF z
  <2> QED BY <1>1, <1>3, <1>4, <2>1, <2>2 DEF SetupInv, WireFollowsHost, z
<1>7. net' \subseteq Message
  BY <1>1, <1>2, <1>3, AwaitedRow DEF TypeOK
<1>8. faults' \in 0 .. MaxFaults
  BY <1>2, SetupAssumption DEF SendPoll, Interrupt, TypeOK
<1> QED BY <1>1, <1>4, <1>5, <1>6, <1>7, <1>8, CommandKeepsInv

(* The process ends, stops or starts to serve. *)
LEMMA RestKeepsInv ==
    ASSUME SetupInv, members' = members, requests' = requests, machines' = machines,
           disk' = disk, erased' = erased, faults' \in 0 .. MaxFaults,
           host' \in Host, host'.at \in {"off", "serve", "retire"},
           \/ net' = net /\ \A y \in net : ~ y.awaited
           \/ net' = Abandoned
           \/ \E x \in net : net' = net \ {x} /\ \A y \in net : y.awaited => y = x
    PROVE  SetupInv'
<1>1. TypeOK /\ Moves
  BY TablesStay
<1>2. HostFollowsDisk' /\ RevocationIsConfirmed'
  BY <1>1, HostRests
<1>3. WireShrinks
  BY <1>1, AbandonedRows DEF WireShrinks
<1>4. WireFollowsHost'
  BY <1>1, <1>3, WireStays
<1>5. net' \subseteq Message
  BY <1>1, AbandonedRows DEF TypeOK
<1> QED BY <1>2, <1>4, <1>5, CommandKeepsInv

(* A command that is at none of the requests waits for none. *)
LEMMA NobodyWaits ==
    ASSUME SetupInv, host.at \notin {"begin", "poll", "cancel", "revoke"}
    PROVE  \A y \in net : ~ y.awaited
  BY MessageRows DEF SetupInv, WireFollowsHost

(* carry host start, and the end of serving. *)
LEMMA ServeKeepsInv ==
    ASSUME SetupInv, RunStart \/ StopRevoked \/ StopServing
    PROVE  SetupInv' /\ host'.at # "install"
<1>1. /\ members' = members /\ requests' = requests /\ machines' = machines
      /\ disk' = disk /\ erased' = erased /\ faults' = faults /\ net' = net
      /\ host.at \in {"off", "serve"}
      /\ host' = Off \/ host' = [Off EXCEPT !.at = "serve"]
  BY DEF RunStart, StopRevoked, StopServing, server
<1>2. host' \in Host /\ host'.at \in {"off", "serve"}
  BY <1>1, OffRow
<1>3. faults' \in 0 .. MaxFaults
  BY <1>1 DEF SetupInv, TypeOK
<1>4. \A y \in net : ~ y.awaited
  BY <1>1, NobodyWaits
<1> QED BY <1>1, <1>2, <1>3, <1>4, RestKeepsInv

(* carry host disconnect asks for the revocation, or goes on after it. *)
LEMMA DisconnectKeepsInv ==
    ASSUME SetupInv, RunDisconnect
    PROVE  SetupInv' /\ host'.at # "install"
<1>1. /\ members' = members /\ requests' = requests /\ machines' = machines
      /\ disk' = disk /\ erased' = erased /\ faults' = faults /\ host.at = "off"
  BY DEF RunDisconnect, server
<1>2. faults' \in 0 .. MaxFaults /\ TypeOK /\ Moves /\ disk \in Disk
  BY <1>1, TablesStay DEF TypeOK
<1>3. \A y \in net : ~ y.awaited
  BY <1>1, NobodyWaits
<1>4. CASE host' = [Off EXCEPT !.at = "retire"] /\ net' = net
  <2>1. host' \in Host /\ host'.at = "retire"
    BY <1>4, OffRow
  <2> QED BY <1>1, <1>2, <1>3, <1>4, <2>1, RestKeepsInv
<1>5. CASE /\ disk.credential # NoMachine
           /\ host' = [Off EXCEPT !.at = "revoke", !.machine = disk.credential]
           /\ net' = net \cup {Awaited("revoke", NoRequest, disk.credential)}
  <2>1. disk.credential \in DOMAIN machines /\ disk.credential \in MachineIds
    BY <1>2, <1>5 DEF SetupInv, HostFollowsDisk, Disk
  <2>2. host' \in Host /\ host'.at = "revoke" /\ host'.machine = disk.credential
    BY <1>5, <2>1, OffRow
  <2>3. HostFollowsDisk' /\ RevocationIsConfirmed'
    BY <1>1, <1>2, <2>1, <2>2, KeysStay DEF HostFollowsDisk, RevocationIsConfirmed
  <2>4. WireFollowsHost'
    <3> DEFINE z == Awaited("revoke", NoRequest, disk.credential)
    <3>1. z.kind = "revoke" /\ z.machine = disk.credential
      BY DEF Awaited
    <3> HIDE DEF z
    <3> QED BY <1>1, <1>3, <1>5, <2>1, <2>2, <3>1 DEF SetupInv, WireFollowsHost, z
  <2>5. net' \subseteq Message
    BY <1>2, <1>5, <2>1, AwaitedRow DEF TypeOK
  <2> QED BY <1>1, <1>2, <2>2, <2>3, <2>4, <2>5, CommandKeepsInv
<1> QED BY <1>4, <1>5 DEF RunDisconnect

(* Lost answers and crashes. *)
LEMMA FaultKeepsInv ==
    ASSUME SetupInv, (\E x \in net : Lose(x)) \/ Crash
    PROVE  SetupInv' /\ host'.at # "install"
<1>1. /\ members' = members /\ requests' = requests /\ machines' = machines
      /\ disk' = disk /\ erased' = erased
  BY DEF Lose, Crash, server
<1>2. faults' \in 0 .. MaxFaults /\ TypeOK /\ Moves
  BY <1>1, TablesStay, SetupAssumption DEF TypeOK, Lose, Crash
<1>3. CASE Crash
  <2>1. host' \in Host /\ host'.at = "off" /\ net' = Abandoned
    BY <1>3, OffRow DEF Crash
  <2> QED BY <1>1, <1>2, <2>1, RestKeepsInv
<1>4. ASSUME NEW x \in net, Lose(x) PROVE SetupInv' /\ host'.at # "install"
  <2>1. /\ x.awaited /\ host' = AfterLoss(x)
        /\ net' = net \ {x} \/ net' = Abandoned
    BY <1>4 DEF Lose
  <2>2. \A y \in net : y.awaited => y = x
    BY <2>1, AwaitedIsOne
  <2>3. CASE x.kind # "poll"
    <3>1. host' \in Host /\ host'.at = "off"
      BY <2>1, <2>3, OffRow DEF AfterLoss
    <3> QED BY <1>1, <1>2, <2>1, <2>2, <3>1, RestKeepsInv
  <2>4. CASE x.kind = "poll"
    <3>1. host.at = "poll" /\ host.request \in DOMAIN requests
      BY <2>1, <2>4 DEF SetupInv, WireFollowsHost, HostFollowsDisk
    <3>2. host' \in Host /\ host'.at = "wait" /\ host'.request = host.request
      BY <1>2, <2>1, <2>4, SleepRow, LongerIntervalType DEF AfterLoss
    <3>3. HostFollowsDisk' /\ RevocationIsConfirmed'
      BY <1>1, <1>2, <3>1, <3>2, HostWaits
    <3>4. WireShrinks
      BY <1>2, <2>1, <2>2, AbandonedRows DEF WireShrinks
    <3>5. WireFollowsHost' /\ net' \subseteq Message
      BY <1>1, <1>2, <2>1, <3>4, WireStays, AbandonedRows DEF TypeOK
    <3> QED BY <1>1, <1>2, <3>2, <3>3, <3>5, CommandKeepsInv
  <2> QED BY <2>3, <2>4
<1> QED BY <1>3, <1>4-----------------------------------------------------------------------------
(* Steps that write or remove a file. *)

(* What a file step has in common: the tables and the wire stay, and no
   answer is awaited. *)
LEMMA FilesKeepWire ==
    ASSUME SetupInv, members' = members, requests' = requests, machines' = machines,
           net' = net, erased \subseteq erased', host.at \notin {"begin", "poll", "cancel", "revoke"},
           disk.pending \in {NoRequest, disk'.pending} \cup DOMAIN requests \cup erased'
    PROVE  /\ TypeOK /\ host \in Host /\ disk \in Disk
           /\ ConnectionInv' /\ ConnectionTypeOK' /\ WireFollowsHost'
           /\ \A r : Redeemable(r)' <=> Redeemable(r)
           /\ \A m : KeyOf(m)' = KeyOf(m)
<1>1. /\ TypeOK /\ host \in Host /\ disk \in Disk /\ Moves
      /\ ConnectionInv' /\ ConnectionTypeOK'
      /\ \A r : Redeemable(r)' <=> Redeemable(r)
  BY TablesStay
<1>2. WireShrinks
  BY NobodyWaits DEF WireShrinks
<1>3. WireFollowsHost'
  BY <1>1, <1>2, WireStays
<1>4. \A m : KeyOf(m)' = KeyOf(m)
  BY DEF KeyOf
<1> QED BY <1>1, <1>3, <1>4

(* The key of a revoked Machine is worth nothing any more. *)
LEMMA RevokedIsNotRedeemable ==
    ASSUME ConnectionInv, NEW m \in DOMAIN machines, machines[m].state = "revoked",
           NEW r \in KeyOf(m)
    PROVE  ~ Redeemable(r)
<1>1. r = machines[m].request
  BY Rows DEF KeyOf
<1>2. requests[r].redeemed /\ requests[r].machine = m
  BY <1>1 DEF ConnectionInv, OneMachinePerRequest
<1> QED BY <1>2 DEF Redeemable

(* The credential is saved beside the pending key. *)
LEMMA InstallKeepsInv ==
    ASSUME SetupInv, Install
    PROVE  SetupInv' /\ host'.at = "installed"
<1>1. /\ members' = members /\ requests' = requests /\ machines' = machines
      /\ net' = net /\ erased' = erased /\ faults' = faults /\ host.at = "install"
      /\ disk' = [disk EXCEPT !.credential = host.machine]
      /\ host' = [host EXCEPT !.at = "installed"]
  BY DEF Install, server
<1>2. /\ host.machine \in DOMAIN machines /\ machines[host.machine].request = host.request
      /\ host.request = disk.pending /\ disk.pending \in RequestIds
      /\ disk.credential = NoMachine /\ disk.retired \in DOMAIN machines \cup {NoMachine}
  BY <1>1 DEF SetupInv, HostFollowsDisk
<1>3. host.machine \in MachineIds /\ disk \in Disk /\ TypeOK
  BY <1>2 DEF SetupInv, TypeOK, ConnectionTypeOK
<1>4. /\ disk' \in Disk /\ disk'.pending = disk.pending /\ disk'.credential = host.machine
      /\ disk'.retired = disk.retired
  BY <1>1, <1>3 DEF Disk
<1>5. /\ host' \in Host /\ host'.at = "installed" /\ host'.request = host.request
      /\ host'.machine = host.machine
  BY <1>1, <1>3, PlaceRow
<1>6. /\ ConnectionInv' /\ ConnectionTypeOK' /\ WireFollowsHost'
      /\ \A r : Redeemable(r)' <=> Redeemable(r)
  BY <1>1, <1>4, FilesKeepWire
<1>7. TypeOK'
  BY <1>1, <1>3, <1>4, <1>5, <1>6 DEF TypeOK
<1>8. HostFollowsDisk' /\ RevocationIsConfirmed'
  BY <1>1, <1>2, <1>4, <1>5 DEF HostFollowsDisk, SetupInv, RevocationIsConfirmed
<1>9. KeyIsKept'
  <2>1. KeyOf(disk.credential) = {}
    BY <1>2 DEF KeyOf
  <2> QED BY <1>1, <1>4, <1>6, <2>1 DEF SetupInv, KeyIsKept
<1> QED BY <1>5, <1>6, <1>7, <1>8, <1>9 DEF SetupInv

(* The pending key is removed, once the credential holds it or once nothing
   can be redeemed with it. *)
LEMMA RemovePendingKeepsInv ==
    ASSUME SetupInv, FinishInstall \/ GiveUp
    PROVE  SetupInv' /\ host'.at # "install"
<1>1. /\ members' = members /\ requests' = requests /\ machines' = machines
      /\ net' = net /\ erased' = erased /\ faults' = faults
      /\ host.at \in {"installed", "give_up"} /\ disk' = [disk EXCEPT !.pending = NoRequest]
      /\ host' = Off \/ host' = [Off EXCEPT !.at = "serve"]
  BY DEF FinishInstall, GiveUp, RemovePending, server
<1>2. host' \in Host /\ host'.at \in {"off", "serve"}
  BY <1>1, OffRow
<1>3. /\ {disk.credential, disk.retired} \subseteq DOMAIN machines \cup {NoMachine}
      /\ disk.pending \in DOMAIN requests
      /\ \/ disk.pending \in KeyOf(disk.credential)
         \/ ~ Redeemable(disk.pending)
  <2>1. CASE host.at = "give_up"
    BY <2>1 DEF SetupInv, HostFollowsDisk
  <2>2. CASE host.at = "installed"
    <3>1. /\ disk.credential \in DOMAIN machines
          /\ machines[disk.credential].request = disk.pending
      BY <2>2 DEF SetupInv, HostFollowsDisk
    <3>2. disk.pending \in DOMAIN requests /\ disk.credential # NoMachine
      BY <3>1, Rows DEF SetupInv, ConnectionInv, OneMachinePerRequest
    <3> QED BY <3>1, <3>2 DEF SetupInv, HostFollowsDisk, KeyOf
  <2> QED BY <1>1, <2>1, <2>2
<1>4. disk \in Disk /\ TypeOK
  BY DEF SetupInv, TypeOK
<1>5. /\ disk' \in Disk /\ disk'.pending = NoRequest
      /\ disk'.credential = disk.credential /\ disk'.retired = disk.retired
  BY <1>1, <1>4 DEF Disk
<1>6. /\ ConnectionInv' /\ ConnectionTypeOK' /\ WireFollowsHost'
      /\ \A r : Redeemable(r)' <=> Redeemable(r)
      /\ \A m : KeyOf(m)' = KeyOf(m)
  BY <1>1, <1>3, FilesKeepWire
<1>7. TypeOK'
  BY <1>1, <1>2, <1>4, <1>5, <1>6 DEF TypeOK
<1>8. HostFollowsDisk' /\ RevocationIsConfirmed'
  BY <1>1, <1>2, <1>3, <1>5 DEF HostFollowsDisk, SetupInv, RevocationIsConfirmed
<1>9. KeyIsKept'
  <2>1. KeyOf(disk.credential)' = KeyOf(disk.credential)
    BY <1>1, <1>5 DEF KeyOf
  <2>2. ASSUME NEW r \in RequestIds \ erased, Redeemable(r)
        PROVE  r \in KeyOf(disk.credential)
    <3>1. disk.pending = r \/ r \in KeyOf(disk.credential)
      BY <2>2 DEF SetupInv, KeyIsKept
    <3> QED BY <1>3, <2>2, <3>1
  <2> QED BY <1>1, <1>6, <2>1, <2>2 DEF KeyIsKept
<1> QED BY <1>2, <1>6, <1>7, <1>8, <1>9 DEF SetupInv

(* The credential of a revoked Machine is retired, then removed. *)
LEMMA RetireKeepsInv ==
    ASSUME SetupInv, MarkRevoked \/ RemoveRevoked
    PROVE  SetupInv' /\ host'.at # "install"
<1>1. /\ members' = members /\ requests' = requests /\ machines' = machines
      /\ net' = net /\ erased' = erased /\ faults' = faults
      /\ host.at \in {"revoked", "retire"}
  BY DEF MarkRevoked, RemoveRevoked, server
<1>2. /\ disk \in Disk /\ TypeOK
      /\ {disk.credential, disk.retired} \subseteq DOMAIN machines \cup {NoMachine}
  BY DEF SetupInv, TypeOK, HostFollowsDisk
<1>3. CASE MarkRevoked
  <2>1. /\ disk.credential \in DOMAIN machines /\ machines[disk.credential].state = "revoked"
    BY <1>3 DEF SetupInv, HostFollowsDisk, RevocationIsConfirmed, MarkRevoked
  <2>2. /\ disk' \in Disk /\ disk'.pending = disk.pending
        /\ disk'.credential = NoMachine /\ disk'.retired = disk.credential
    BY <1>2, <1>3 DEF Disk, MarkRevoked
  <2>3. host' \in Host /\ host'.at = "retire"
    BY <1>2, <1>3, PlaceRow DEF MarkRevoked
  <2>4. /\ ConnectionInv' /\ ConnectionTypeOK' /\ WireFollowsHost'
        /\ \A r : Redeemable(r)' <=> Redeemable(r)
    BY <1>1, <2>2, FilesKeepWire
  <2>5. TypeOK'
    BY <1>1, <1>2, <2>2, <2>3, <2>4 DEF TypeOK
  <2>6. HostFollowsDisk' /\ RevocationIsConfirmed'
    BY <1>1, <1>2, <2>1, <2>2, <2>3 DEF HostFollowsDisk, RevocationIsConfirmed
  <2>7. KeyIsKept'
    <3>1. \A r \in KeyOf(disk.credential) : ~ Redeemable(r)
      BY <2>1, RevokedIsNotRedeemable DEF SetupInv
    <3> QED BY <1>1, <2>2, <2>4, <3>1 DEF SetupInv, KeyIsKept
  <2> QED BY <2>3, <2>4, <2>5, <2>6, <2>7 DEF SetupInv
<1>4. CASE RemoveRevoked
  <2>1. /\ disk' \in Disk /\ disk'.pending = disk.pending
        /\ disk'.credential = disk.credential /\ disk'.retired = NoMachine
    BY <1>2, <1>4 DEF Disk, RemoveRevoked
  <2>2. host' \in Host /\ host'.at = "off"
    BY <1>4, OffRow DEF RemoveRevoked
  <2>3. /\ ConnectionInv' /\ ConnectionTypeOK' /\ WireFollowsHost'
        /\ \A r : Redeemable(r)' <=> Redeemable(r)
    BY <1>1, <2>1, FilesKeepWire
  <2>4. TypeOK'
    BY <1>1, <1>2, <2>1, <2>2, <2>3 DEF TypeOK
  <2>5. HostFollowsDisk' /\ RevocationIsConfirmed'
    BY <1>1, <1>2, <2>1, <2>2 DEF HostFollowsDisk, RevocationIsConfirmed
  <2>6. KeyIsKept'
    <3>1. KeyOf(disk.credential)' = KeyOf(disk.credential)
      BY <1>1, <2>1 DEF KeyOf
    <3> QED BY <1>1, <2>1, <2>3, <3>1 DEF SetupInv, KeyIsKept
  <2> QED BY <2>2, <2>3, <2>4, <2>5, <2>6 DEF SetupInv
<1> QED BY <1>3, <1>4

(* carry host disconnect --local-only gives up the keys whose files it has
   removed, in the order of the files. *)
LEMMA RemoveLocalKeepsInv ==
    ASSUME SetupInv, NEW n \in 1 .. 3, RemoveLocalOnly(n)
    PROVE  SetupInv' /\ host'.at = "off"
<1>1. /\ members' = members /\ requests' = requests /\ machines' = machines
      /\ net' = net /\ host.at = "off" /\ host' = Off
      /\ erased' = erased \cup ({disk.pending} \ {NoRequest})
                          \cup (IF n < 2 THEN {} ELSE KeyOf(disk.credential))
  BY DEF RemoveLocalOnly, server
<1>2. /\ disk \in Disk /\ TypeOK /\ ConnectionInv
      /\ {disk.credential, disk.retired} \subseteq DOMAIN machines \cup {NoMachine}
  BY DEF SetupInv, TypeOK, HostFollowsDisk
<1>3. /\ disk' \in Disk /\ disk'.pending = NoRequest
      /\ disk'.credential = IF n < 2 THEN disk.credential ELSE NoMachine
      /\ disk'.retired \in {disk.retired, NoMachine}
  BY <1>2 DEF RemoveLocalOnly, Disk
<1>4. host' \in Host /\ host'.at = "off"
  BY <1>1, OffRow
<1>5. KeyOf(disk.credential) \subseteq RequestIds
  <2>1. disk.credential # NoMachine => machines[disk.credential] \in Machine
    BY <1>2, Rows
  <2> QED BY <2>1 DEF KeyOf, Machine
<1>6. erased' \subseteq RequestIds /\ faults' \in 0 .. MaxFaults /\ erased \subseteq erased'
  <2>1. faults' \in 0 .. MaxFaults
    BY <1>2, SetupAssumption DEF RemoveLocalOnly, TypeOK
  <2>2. disk.pending \in RequestIds \cup {NoRequest}
    BY <1>2 DEF Disk
  <2> QED BY <1>1, <1>2, <1>5, <2>1, <2>2 DEF TypeOK
<1>7. disk.pending \in {NoRequest} \cup erased'
  BY <1>1
<1>8. /\ ConnectionInv' /\ ConnectionTypeOK' /\ WireFollowsHost'
      /\ \A r : Redeemable(r)' <=> Redeemable(r)
  BY <1>1, <1>6, <1>7, FilesKeepWire
<1>9. TypeOK'
  BY <1>1, <1>2, <1>3, <1>4, <1>6, <1>8 DEF TypeOK
<1>10. HostFollowsDisk' /\ RevocationIsConfirmed'
  BY <1>1, <1>2, <1>3, <1>4 DEF HostFollowsDisk, SetupInv, RevocationIsConfirmed
<1>11. KeyIsKept'
  <2>1. ASSUME NEW r \in RequestIds \ erased', Redeemable(r)
        PROVE  n < 2 /\ r \in KeyOf(disk.credential)
    <3>1. r \notin erased /\ r # disk.pending
      BY <1>6, <1>7, <2>1, SetupAssumption
    <3>2. r \in KeyOf(disk.credential)
      BY <2>1, <3>1 DEF SetupInv, KeyIsKept
    <3> QED BY <1>1, <2>1, <3>2
  <2>2. n < 2 => KeyOf(disk.credential)' = KeyOf(disk.credential)
    BY <1>1, <1>3 DEF KeyOf
  <2> QED BY <1>8, <2>1, <2>2 DEF KeyIsKept
<1> QED BY <1>4, <1>8, <1>9, <1>10, <1>11 DEF SetupInv
-----------------------------------------------------------------------------
(* SetupInv is an invariant: a fresh computer satisfies it, and commands,
   file writes, transactions, members, faults and the clock keep it.  A step
   that starts to install a Machine finds it connected. *)
LEMMA StepKeepsInv ==
    ASSUME SetupInv, [Next]_vars
    PROVE  /\ SetupInv'
           /\ host'.at = "install" /\ host.at # "install"
                /\ host'.machine \in DOMAIN machines =>
                machines[host'.machine].state # "revoked"
<1>1. CASE Setup
  BY <1>1, RunSetupKeepsInv DEF Setup
<1>2. CASE CommandStep
  BY <1>2, ServeKeepsInv, DisconnectKeepsInv, AskKeepsInv, RemoveLocalKeepsInv DEF CommandStep
<1>3. CASE SendPoll
  BY <1>3, AskKeepsInv
<1>4. CASE FileStep
  BY <1>4, InstallKeepsInv, RemovePendingKeepsInv, RetireKeepsInv DEF FileStep
<1>5. CASE Deliver
  BY <1>5, HandleKeepsInv DEF Deliver
<1>6. CASE (\E x \in net : Lose(x)) \/ Crash
  BY <1>6, FaultKeepsInv
<1>7. CASE MemberStep \/ Tick
  BY <1>7, OutsideKeepsInv
<1>8. CASE UNCHANGED vars
  <2>1. /\ members' = members /\ requests' = requests /\ machines' = machines
        /\ disk' = disk /\ host' = host /\ net' = net /\ erased' = erased
        /\ faults' = faults
    BY <1>8 DEF vars
  <2>2. TypeOK /\ Moves /\ host \in Host
    BY <2>1, TablesStay
  <2>3. HostSame /\ WireShrinks
    BY <2>1 DEF HostSame, WireShrinks
  <2>4. HostFollowsDisk' /\ RevocationIsConfirmed' /\ WireFollowsHost'
    BY <2>1, <2>2, <2>3, TablesStay, HostStays, WireStays
  <2>5. faults' \in 0 .. MaxFaults /\ net' \subseteq Message
    BY <2>1, <2>2 DEF TypeOK
  <2> QED BY <2>1, <2>2, <2>4, <2>5, CommandKeepsInv
<1> QED BY <1>1, <1>2, <1>3, <1>4, <1>5, <1>6, <1>7, <1>8 DEF Next

(* The inductive invariant. *)
THEOREM Invariance == Spec => []SetupInv
<1>1. ASSUME Init PROVE SetupInv
  <2>1. ConnectionTypeOK
    BY <1>1, MembersAssumption DEF Init, ConnectionInit, ConnectionTypeOK, MembersInit,
       MembersTypeOK, Membership, Authorities
  <2>2. DOMAIN requests = {} /\ DOMAIN machines = {}
    BY <1>1 DEF Init, ConnectionInit
  <2>3. ConnectionInv
    BY <2>1, <2>2 DEF ConnectionInv, PreparedOnce, OneMachinePerRequest
  <2>4. /\ disk \in Disk /\ disk.credential = NoMachine /\ disk.retired = NoMachine
        /\ host = Off /\ net = {} /\ erased = {} /\ faults = 0
    BY <1>1 DEF Init, Disk
  <2>5. TypeOK
    <3>1. faults \in 0 .. MaxFaults
      BY <2>4, SetupAssumption
    <3> QED BY <2>1, <2>4, <3>1, OffRow DEF TypeOK
  <2>6. HostFollowsDisk /\ RevocationIsConfirmed /\ WireFollowsHost
    BY <2>4, OffRow DEF HostFollowsDisk, RevocationIsConfirmed, WireFollowsHost
  <2>7. KeyIsKept
    BY <2>2 DEF KeyIsKept, Redeemable
  <2> QED BY <2>3, <2>5, <2>6, <2>7 DEF SetupInv
<1>2. ASSUME SetupInv, [Next]_vars PROVE SetupInv'
  BY <1>2, StepKeepsInv
<1> QED BY <1>1, <1>2, PTL DEF Spec

(* Setup never throws away the only key with which a certificate can still
   be retrieved, whatever is lost, late or interrupted. *)
THEOREM KeyStays == Spec => []KeyIsKept
<1>1. SetupInv => KeyIsKept
  BY DEF SetupInv
<1> QED BY <1>1, Invariance, PTL

(* A credential is retired only after the control plane has revoked its
   Machine. *)
THEOREM RetiredIsRevoked == Spec => []RevocationIsConfirmed
<1>1. SetupInv => RevocationIsConfirmed
  BY DEF SetupInv
<1> QED BY <1>1, Invariance, PTL

(* A request makes the one Machine its approval prepared, and no other. *)
THEOREM OneMachine == Spec => []OneMachinePerRequest
<1>1. SetupInv => OneMachinePerRequest
  BY DEF SetupInv, ConnectionInv
<1> QED BY <1>1, Invariance, PTL

(* A revoked Machine stays revoked, and no poll installs it again. *)
THEOREM RevokedForEver == Spec => RevocationIsFinal
<1>1. ASSUME SetupInv, [Next]_vars
      PROVE  \A m \in DOMAIN machines :
               machines[m].state = "revoked" =>
                   /\ machines'[m] = machines[m]
                   /\ host'.at = "install" /\ host'.machine = m => host.at = "install"
  <2>1. Moves
    BY <1>1, StepMoves
  <2>2. host'.at = "install" /\ host.at # "install" /\ host'.machine \in DOMAIN machines =>
          machines[host'.machine].state # "revoked"
    BY <1>1, StepKeepsInv
  <2> QED BY <2>1, <2>2 DEF Moves
<1> QED BY <1>1, Invariance, PTL DEF Spec, RevocationIsFinal
-----------------------------------------------------------------------------
(* The refinement of DeviceGrant. *)

(* What a change of one request's row changes of the grants. *)
LEMMA RowMoves ==
    ASSUME ConnectionInv, NEW r \in DOMAIN requests, NEW row,
           requests' = [requests EXCEPT ![r] = row]
    PROVE  /\ r \in RequestIds
           /\ Phases' = [Phases EXCEPT ![r] = PhaseOf(row)]
           /\ Granters' = [Granters EXCEPT ![r] = GranterOf(row)]
           /\ Phases[r] = PhaseOf(requests[r]) /\ Granters[r] = GranterOf(requests[r])
<1>0. r \in RequestIds
  BY Rows
<1>1. /\ DOMAIN requests' = DOMAIN requests
      /\ \A q \in DOMAIN requests : requests'[q] = IF q = r THEN row ELSE requests[q]
  BY DEF ConnectionInv, ConnectionTypeOK
<1>2. \A q \in RequestIds : Phases'[q] = IF q = r THEN PhaseOf(row) ELSE Phases[q]
  BY <1>1 DEF Phases
<1>3. \A q \in RequestIds : Granters'[q] = IF q = r THEN GranterOf(row) ELSE Granters[q]
  BY <1>1 DEF Granters
<1>4. Phases' = [Phases EXCEPT ![r] = PhaseOf(row)]
  BY <1>2 DEF Phases
<1>5. Granters' = [Granters EXCEPT ![r] = GranterOf(row)]
  BY <1>3 DEF Granters
<1>6. Phases[r] = PhaseOf(requests[r]) /\ Granters[r] = GranterOf(requests[r])
  BY <1>0 DEF Phases, Granters
<1> QED BY <1>0, <1>4, <1>5, <1>6

(* A row that stays in its phase, or is refused. *)
LEMMA RowIsRefusedOrStays ==
    ASSUME ConnectionInv, NEW r \in DOMAIN requests, NEW row,
           requests' = [requests EXCEPT ![r] = row],
           \/ PhaseOf(row) = PhaseOf(requests[r])
           \/ PhaseOf(requests[r]) \in {"asked", "granted"} /\ PhaseOf(row) = "refused",
           GranterOf(row) = GranterOf(requests[r]), machines' = machines, members' = members
    PROVE  [Grants!Next]_Grants!grantVars
<1>1. /\ r \in RequestIds
      /\ Phases' = [Phases EXCEPT ![r] = PhaseOf(row)]
      /\ Granters' = [Granters EXCEPT ![r] = GranterOf(row)]
      /\ Phases[r] = PhaseOf(requests[r]) /\ Granters[r] = GranterOf(requests[r])
  BY RowMoves
<1>2. Granters' = Granters /\ Connected' = Connected /\ MayEnrollNow' = MayEnrollNow
  <2>1. Granters' = Granters
    BY <1>1 DEF Granters
  <2> QED BY <2>1 DEF Connected, MayEnrollNow, MayEnroll, IsActiveMember
<1>3. CASE PhaseOf(row) = PhaseOf(requests[r])
  <2>1. Phases' = Phases
    BY <1>1, <1>3 DEF Phases
  <2> QED BY <1>2, <2>1 DEF Grants!grantVars
<1>4. CASE PhaseOf(requests[r]) \in {"asked", "granted"} /\ PhaseOf(row) = "refused"
  <2>1. Phases' = [q \in RequestIds |-> IF q \in {r} THEN "refused" ELSE Phases[q]]
    BY <1>1, <1>4 DEF Phases
  <2>2. Grants!Refuse({r})
    BY <1>1, <1>2, <1>4, <2>1 DEF Grants!Refuse
  <2> QED BY <1>1, <2>2 DEF Grants!Next
<1> QED BY <1>3, <1>4

(* Begin asks, if the request is new and admitted. *)
LEMMA BeginAsks ==
    ASSUME ConnectionInv, NEW r \in RequestIds, NEW s \in Sources,
           BeginMachineConnection(r, s)
    PROVE  [Grants!Next]_Grants!grantVars
<1>1. machines' = machines /\ members' = members
  BY DEF BeginMachineConnection
<1>2. Connected' = Connected /\ MayEnrollNow' = MayEnrollNow
  BY <1>1 DEF Connected, MayEnrollNow, MayEnroll, IsActiveMember
<1>3. CASE requests' = requests
  BY <1>2, <1>3 DEF Grants!grantVars, Phases, Granters
<1>4. CASE r \notin DOMAIN requests /\ requests' = Insert(requests, r, NewRequest(s))
  <2>1. /\ DOMAIN requests' = DOMAIN requests \cup {r} /\ requests'[r] = NewRequest(s)
        /\ \A q \in DOMAIN requests : requests'[q] = requests[q]
    BY <1>4 DEF Insert
  <2>2. PhaseOf(NewRequest(s)) = "asked" /\ GranterOf(NewRequest(s)) = NoUser
    BY ConnectionAssumption DEF PhaseOf, GranterOf, NewRequest
  <2>3. \A q \in RequestIds : /\ Phases'[q] = IF q = r THEN "asked" ELSE Phases[q]
                              /\ Granters'[q] = Granters[q]
    BY <1>4, <2>1, <2>2 DEF Phases, Granters
  <2>4. Phases[r] = "none" /\ Phases' = [Phases EXCEPT ![r] = "asked"]
    BY <1>4, <2>3 DEF Phases
  <2>5. Granters' = Granters
    BY <2>3 DEF Granters
  <2>6. Grants!Ask(r)
    BY <1>2, <2>4, <2>5 DEF Grants!Ask
  <2> QED BY <2>6 DEF Grants!Next
<1> QED BY <1>3, <1>4 DEF BeginMachineConnection

(* An approval is a grant by a member who may enroll, a denial refuses. *)
LEMMA DecideGrants ==
    ASSUME ConnectionInv, NEW u \in Users, NEW r \in DOMAIN requests, NEW k \in Keys,
           NEW m \in MachineIds, NEW decision \in {"approved", "denied"},
           DecideMachineConnection(u, r, decision, k, m)
    PROVE  [Grants!Next]_Grants!grantVars
<1> DEFINE chosen == IF decision = "approved" THEN m ELSE NoMachine
           row == [requests[r] EXCEPT !.decision = decision, !.by = u, !.key = k,
                                      !.machine = chosen]
<1>1. /\ requests[r] \in Request /\ members' = members /\ machines' = machines
      /\ requests[r].decision = "none" /\ requests[r].left > 0 /\ ~ requests[r].cancelled
      /\ decision = "approved" => MayEnroll(u)
      /\ requests' = [requests EXCEPT ![r] = row]
  BY Rows DEF DecideMachineConnection, IsDecidable, Live
<1>2. ~ requests[r].redeemed
  BY <1>1 DEF ConnectionInv, PreparedOnce
<1>3. /\ row.decision = decision /\ row.by = u /\ row.cancelled = requests[r].cancelled
      /\ row.redeemed = requests[r].redeemed /\ row.left = requests[r].left
  BY <1>1 DEF Request
<1>4. PhaseOf(requests[r]) = "asked" /\ GranterOf(requests[r]) = NoUser
  BY <1>1, <1>2 DEF PhaseOf, GranterOf, Request
<1> HIDE DEF row
<1>5. CASE decision = "denied"
  <2>1. PhaseOf(row) = "refused" /\ GranterOf(row) = NoUser
    BY <1>2, <1>3, <1>5 DEF PhaseOf, GranterOf
  <2> QED BY ONLY ConnectionInv, <1>1, <1>4, <2>1, RowIsRefusedOrStays
<1>6. CASE decision = "approved"
  <2>1. PhaseOf(row) = "granted" /\ GranterOf(row) = u
    BY <1>1, <1>2, <1>3, <1>6 DEF PhaseOf, GranterOf, Request
  <2>2. /\ r \in RequestIds
        /\ Phases' = [Phases EXCEPT ![r] = PhaseOf(row)]
        /\ Granters' = [Granters EXCEPT ![r] = GranterOf(row)]
        /\ Phases[r] = PhaseOf(requests[r])
    BY ONLY ConnectionInv, <1>1, RowMoves
  <2>3. /\ Connected' = Connected /\ MayEnrollNow' = MayEnrollNow /\ u \in MayEnrollNow
    BY <1>1, <1>6 DEF Connected, MayEnrollNow, MayEnroll, IsActiveMember
  <2>4. Grants!Grant(r, u)
    BY <1>4, <2>1, <2>2, <2>3 DEF Grants!Grant
  <2> QED BY <2>2, <2>4 DEF Grants!Next
<1> QED BY <1>5, <1>6
(* A poll issues once, of an approved request in its time; any other changes
   nothing of the grant. *)
LEMMA PollIssues ==
    ASSUME ConnectionInv, NEW r \in DOMAIN requests, PollMachineConnection(r)
    PROVE  [Grants!Next]_Grants!grantVars
<1>1. requests[r] \in Request /\ members' = members
  BY Rows DEF PollMachineConnection
<1>2. CASE PollVerdict(r) = "slow_down"
  <2> DEFINE row == [requests[r] EXCEPT !.interval = SlowedInterval(r),
                                        !.wait = SlowedInterval(r)]
  <2>1. machines' = machines /\ requests' = [requests EXCEPT ![r] = row]
    BY <1>2 DEF PollMachineConnection
  <2>2. /\ row.decision = requests[r].decision /\ row.by = requests[r].by
        /\ row.redeemed = requests[r].redeemed /\ row.left = requests[r].left
        /\ row.cancelled = requests[r].cancelled
    BY <1>1 DEF Request
  <2>3. PhaseOf(row) = PhaseOf(requests[r]) /\ GranterOf(row) = GranterOf(requests[r])
    BY <2>2 DEF PhaseOf, GranterOf
  <2> HIDE DEF row
  <2> QED BY ONLY ConnectionInv, <1>1, <2>1, <2>3, RowIsRefusedOrStays
<1>3. CASE PollVerdict(r) = "pending"
  <2> DEFINE row == [requests[r] EXCEPT !.wait = requests[r].interval]
  <2>1. machines' = machines /\ requests' = [requests EXCEPT ![r] = row]
    BY <1>3 DEF PollMachineConnection
  <2>2. /\ row.decision = requests[r].decision /\ row.by = requests[r].by
        /\ row.redeemed = requests[r].redeemed /\ row.left = requests[r].left
        /\ row.cancelled = requests[r].cancelled
    BY <1>1 DEF Request
  <2>3. PhaseOf(row) = PhaseOf(requests[r]) /\ GranterOf(row) = GranterOf(requests[r])
    BY <2>2 DEF PhaseOf, GranterOf
  <2> HIDE DEF row
  <2> QED BY ONLY ConnectionInv, <1>1, <2>1, <2>3, RowIsRefusedOrStays
<1>4. CASE PollVerdict(r) = "redeemed"
  <2> DEFINE m == PreparedMachine(r)
             row == [requests[r] EXCEPT !.wait = requests[r].interval, !.redeemed = TRUE,
                                        !.replay = ReplayLifetime]
             new == [request |-> r, enrolledBy |-> requests[r].by, state |-> "connected"]
  <2>1. /\ ~ requests[r].redeemed /\ requests[r].decision = "approved"
        /\ ~ requests[r].cancelled /\ requests[r].left # 0
    BY <1>1, <1>4 DEF PollVerdict, Request
  <2>2. /\ row.redeemed /\ row.decision = requests[r].decision /\ row.by = requests[r].by
    BY <1>1 DEF Request
  <2>3. /\ PhaseOf(requests[r]) = "granted" /\ PhaseOf(row) = "issued"
        /\ GranterOf(row) = GranterOf(requests[r])
    BY <2>1, <2>2 DEF PhaseOf, GranterOf
  <2>4. machines' = Insert(machines, m, new) /\ requests' = [requests EXCEPT ![r] = row]
    BY <1>4 DEF PollMachineConnection
  <2>5. m \notin DOMAIN machines
    BY <1>4, RedeemMoves
  <2> HIDE DEF row, m
  <2>6. /\ r \in RequestIds
        /\ Phases' = [Phases EXCEPT ![r] = PhaseOf(row)]
        /\ Granters' = [Granters EXCEPT ![r] = GranterOf(row)]
        /\ Phases[r] = PhaseOf(requests[r]) /\ Granters[r] = GranterOf(requests[r])
    BY ONLY ConnectionInv, <2>4, RowMoves
  <2>7. Granters' = Granters /\ MayEnrollNow' = MayEnrollNow
    BY <1>1, <2>3, <2>6 DEF Granters, MayEnrollNow, MayEnroll, IsActiveMember
  <2>8. /\ DOMAIN machines' = DOMAIN machines \cup {m} /\ machines'[m] = new
        /\ \A n \in DOMAIN machines : machines'[n] = machines[n]
    BY <2>4, <2>5 DEF Insert
  <2>9. Connected' = Connected \cup {r}
    BY <2>6, <2>8 DEF Connected
  <2>10. Grants!IssueNew(r)
    BY <2>3, <2>6, <2>7, <2>9 DEF Grants!IssueNew, Grants!Issue
  <2> QED BY <2>6, <2>10 DEF Grants!Next
<1>5. CASE PollVerdict(r) \notin {"slow_down", "pending", "redeemed"}
  <2>1. requests' = requests /\ machines' = machines
    BY <1>5 DEF PollMachineConnection
  <2> QED BY <1>1, <2>1 DEF Grants!grantVars, Phases, Granters, Connected, MayEnrollNow,
                            MayEnroll, IsActiveMember
<1> QED BY <1>2, <1>3, <1>4, <1>5

(* A cancellation refuses a request that nobody has decided. *)
LEMMA CancelRefuses ==
    ASSUME ConnectionInv, NEW r \in DOMAIN requests, CancelMachineConnection(r)
    PROVE  [Grants!Next]_Grants!grantVars
<1>1. requests[r] \in Request /\ members' = members /\ machines' = machines
  BY Rows DEF CancelMachineConnection
<1>2. CASE CancelVerdict(r) = "cancelled"
  <2> DEFINE row == [requests[r] EXCEPT !.cancelled = TRUE]
  <2>1. requests' = [requests EXCEPT ![r] = row]
    BY <1>2 DEF CancelMachineConnection
  <2>2. /\ row.decision = requests[r].decision /\ row.by = requests[r].by
        /\ row.redeemed = requests[r].redeemed /\ row.cancelled
    BY <1>1 DEF Request
  <2>3. requests[r].cancelled \/ (requests[r].decision = "none" /\ requests[r].left # 0)
    BY <1>1, <1>2 DEF CancelVerdict, Request
  <2>4. requests[r].redeemed => requests[r].decision = "approved"
    BY DEF ConnectionInv, PreparedOnce
  <2>5. /\ \/ PhaseOf(row) = PhaseOf(requests[r])
           \/ PhaseOf(requests[r]) \in {"asked", "granted"} /\ PhaseOf(row) = "refused"
        /\ GranterOf(row) = GranterOf(requests[r])
    BY <1>1, <2>2, <2>3, <2>4 DEF PhaseOf, GranterOf, Request
  <2> HIDE DEF row
  <2> QED BY ONLY ConnectionInv, <1>1, <2>1, <2>5, RowIsRefusedOrStays
<1>3. CASE CancelVerdict(r) # "cancelled"
  <2>1. requests' = requests
    BY <1>3 DEF CancelMachineConnection
  <2> QED BY <1>1, <2>1 DEF Grants!grantVars, Phases, Granters, Connected, MayEnrollNow,
                            MayEnroll, IsActiveMember
<1> QED BY <1>2, <1>3

(* A revocation withdraws the one Machine of its request. *)
LEMMA RevokeWithdraws ==
    ASSUME ConnectionInv, NEW m \in DOMAIN machines, machines' = Revoked(m),
           members' = members, requests' = requests
    PROVE  [Grants!Next]_Grants!grantVars
<1> DEFINE r == machines[m].request
<1>1. /\ DOMAIN machines' = DOMAIN machines
      /\ machines'[m].request = r /\ machines'[m].state = "revoked"
      /\ \A n \in DOMAIN machines : n # m => machines'[n] = machines[n]
  BY Rows DEF Revoked, Machine, ConnectionInv, ConnectionTypeOK
<1>2. \A n \in DOMAIN machines : machines[n].request = r => n = m
  BY DEF ConnectionInv, OneMachinePerRequest
<1>3. Connected' = Connected \ {r}
  BY <1>1, <1>2 DEF Connected
<1>4. r \in RequestIds
  BY Rows DEF Machine
<1>5. Grants!Withdraw(r)
  BY <1>3 DEF Grants!Withdraw, Phases, Granters, MayEnrollNow, MayEnroll, IsActiveMember
<1> QED BY <1>4, <1>5 DEF Grants!Next

(* A member who is removed grants nothing any more. *)
LEMMA RemoveDistrusts ==
    ASSUME ConnectionInv, NEW u \in Users, NEW target \in Users, NEW k \in Keys,
           RemoveSpaceMember(u, target, k)
    PROVE  Grants!Next
<1>1. requests' = requests /\ machines' = machines
  BY DEF RemoveSpaceMember
<1>2. members' = [members EXCEPT ![target] =
                    [members[target] EXCEPT !.state = "revoked", !.removedBy = u,
                                !.successor = NoUser, !.removalKey = k]]
  BY DEF RemoveSpaceMember, RemoveMembership
<1>3. members'[target].state = "revoked" /\ \A v \in Users : v # target => members'[v] = members[v]
  BY <1>2 DEF ConnectionInv, ConnectionTypeOK, MembersTypeOK, Membership
<1>4. MayEnrollNow' = MayEnrollNow \ {target}
  BY <1>3 DEF MayEnrollNow, MayEnroll, IsActiveMember
<1>5. Grants!Distrust(target)
  BY <1>1, <1>4 DEF Grants!Distrust, Phases, Granters, Connected
<1> QED BY <1>5 DEF Grants!Next

(* The clock refuses what is overdue, all at once. *)
LEMMA TickRefuses ==
    ASSUME ConnectionInv, requests' = RequestsAfterTick, members' = members,
           machines' = machines
    PROVE  Grants!Next
<1> DEFINE overdue == {r \in DOMAIN requests :
                         /\ PhaseOf(requests[r]) \in {"asked", "granted"}
                         /\ PhaseOf(requests'[r]) = "refused"}
<1>1. DOMAIN requests' = DOMAIN requests /\ DOMAIN requests \subseteq RequestIds
  BY Rows DEF RequestsAfterTick
<1>2. ASSUME NEW r \in DOMAIN requests
      PROVE  /\ GranterOf(requests'[r]) = GranterOf(requests[r])
             /\ \/ PhaseOf(requests'[r]) = PhaseOf(requests[r])
                \/ /\ PhaseOf(requests[r]) \in {"asked", "granted"}
                   /\ PhaseOf(requests'[r]) = "refused"
  <2>1. requests[r] \in Request
    BY Rows
  <2>2. requests'[r] = [requests[r] EXCEPT !.left = Down(requests[r].left),
                          !.wait = Down(requests[r].wait), !.replay = Down(requests[r].replay)]
    BY DEF RequestsAfterTick
  <2>3. /\ requests'[r].decision = requests[r].decision /\ requests'[r].by = requests[r].by
        /\ requests'[r].redeemed = requests[r].redeemed
        /\ requests'[r].cancelled = requests[r].cancelled
        /\ requests'[r].left = Down(requests[r].left)
    BY <2>1, <2>2 DEF Request
  <2>4. requests[r].left = 0 => Down(requests[r].left) = 0
    BY DEF Down
  <2>5. GranterOf(requests'[r]) = GranterOf(requests[r])
    BY <2>3 DEF GranterOf
  <2>6. \/ PhaseOf(requests'[r]) = PhaseOf(requests[r])
        \/ /\ PhaseOf(requests[r]) \in {"asked", "granted"}
           /\ PhaseOf(requests'[r]) = "refused"
    BY <2>1, <2>3, <2>4 DEF PhaseOf, Request
  <2> QED BY <2>5, <2>6
<1>3. \A r \in RequestIds : /\ Phases'[r] = IF r \in overdue THEN "refused" ELSE Phases[r]
                            /\ Granters'[r] = Granters[r]
                            /\ r \in overdue => Phases[r] \in {"asked", "granted"}
  BY <1>1, <1>2 DEF Phases, Granters
<1>4. overdue \in SUBSET RequestIds
  BY <1>1
<1> HIDE DEF overdue
<1>5. /\ Phases' = [r \in RequestIds |-> IF r \in overdue THEN "refused" ELSE Phases[r]]
      /\ Granters' = Granters
  BY <1>3 DEF Phases, Granters
<1>6. Connected' = Connected /\ MayEnrollNow' = MayEnrollNow
  BY DEF Connected, MayEnrollNow, MayEnroll, IsActiveMember
<1>7. Grants!Refuse(overdue)
  BY <1>3, <1>4, <1>5, <1>6 DEF Grants!Refuse
<1> QED BY <1>4, <1>7 DEF Grants!Next

(* A request on the wire is one of these transactions. *)
LEMMA DeliveryIsGrant ==
    ASSUME SetupInv, NEW x \in net, NEW s \in Sources, Transaction(x, s)
    PROVE  [Grants!Next]_Grants!grantVars
<1>1. TypeOK /\ ConnectionInv
  BY DEF SetupInv
<1>2. CASE x.kind = "begin"
  BY <1>1, <1>2, MessageRows, BeginAsks DEF Transaction
<1>3. CASE x.kind = "poll"
  BY <1>1, <1>3, PollIssues DEF SetupInv, WireFollowsHost, Transaction
<1>4. CASE x.kind = "cancel"
  BY <1>1, <1>4, CancelRefuses DEF SetupInv, WireFollowsHost, Transaction
<1>5. CASE x.kind = "revoke"
  BY <1>1, <1>5, RevokeWithdraws DEF SetupInv, WireFollowsHost, Transaction,
                                     RevokeMachineFromHost
<1> QED BY <1>1, <1>2, <1>3, <1>4, <1>5, MessageRows

(* Codes, polls, slow-downs, replays, cancellations and the commands and files
   of the Host implement the grant of one connection per request
   (BeginMachineConnection, DecideMachineConnection, PollMachineConnection,
   CancelMachineConnection and both revocations). *)
THEOREM ConnectionIsGrant == Spec => ImplementsGrant
<1>1. ASSUME Init PROVE Grants!Init
  <2>1. DOMAIN requests = {} /\ DOMAIN machines = {}
    BY <1>1 DEF Init, ConnectionInit
  <2> QED BY <2>1 DEF Grants!Init, Phases, Granters, Connected, MayEnrollNow
<1>2. ASSUME SetupInv, [Next]_vars
      PROVE  [Grants!Next]_Grants!grantVars
  <2>0. ConnectionInv
    BY <1>2 DEF SetupInv
  <2>1. CASE \/ Setup \/ CommandStep \/ SendPoll \/ FileStep
             \/ (\E x \in net : Lose(x)) \/ Crash \/ UNCHANGED vars
    <3>1. members' = members /\ requests' = requests /\ machines' = machines
      BY <2>1, CommandsLeaveTables DEF vars
    <3> QED BY <3>1 DEF Grants!grantVars, Phases, Granters, Connected, MayEnrollNow,
                        MayEnroll, IsActiveMember
  <2>2. CASE Deliver
    BY <1>2, <2>2, DeliveryIsGrant DEF Deliver, Handle
  <2>3. CASE MemberStep
    BY <2>0, <2>3, DecideGrants, RevokeWithdraws, RemoveDistrusts
       DEF MemberStep, RevokeMachineFromBrowser
  <2>4. CASE Tick
    BY <2>0, <2>4, TickRefuses DEF Tick
  <2> QED BY <1>2, <2>1, <2>2, <2>3, <2>4 DEF Next
<1> QED BY <1>1, <1>2, Invariance, PTL DEF Spec, ImplementsGrant, Grants!Spec
=============================================================================
