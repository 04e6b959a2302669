---------------------------- MODULE WorkProgress ----------------------------
(***************************************************************************)
(* What Carry promises of a Work, without Machines, Runs, leases or fences: *)
(* members append input; the input is applied in order, in steps whose end   *)
(* is fixed when the step begins; a step that fails or whose outcome is     *)
(* unknown stops the Work until a member permits it to go on.               *)
(***************************************************************************)
EXTENDS Naturals

CONSTANT WorkIds

VARIABLES
    head,      \* the inputs of each Work so far; 0 before it exists
    applied,   \* how many of them are applied
    phase,     \* "idle", "working" or "stopped"
    target     \* while working: the last input of the step

progressVars == <<head, applied, phase, target>>

Init ==
    /\ head = [w \in WorkIds |-> 0]
    /\ applied = [w \in WorkIds |-> 0]
    /\ phase = [w \in WorkIds |-> "idle"]
    /\ target = [w \in WorkIds |-> 0]

Open(w) ==
    /\ head[w] = 0
    /\ head' = [head EXCEPT ![w] = 1]
    /\ UNCHANGED <<applied, phase, target>>

Append(w) ==
    /\ head[w] > 0
    /\ head' = [head EXCEPT ![w] = @ + 1]
    /\ UNCHANGED <<applied, phase, target>>

Start(w) ==
    /\ phase[w] = "idle"
    /\ \E end \in (applied[w] + 1) .. head[w] :
         target' = [target EXCEPT ![w] = end]
    /\ phase' = [phase EXCEPT ![w] = "working"]
    /\ UNCHANGED <<head, applied>>

Apply(w) ==
    /\ phase[w] = "working"
    /\ applied' = [applied EXCEPT ![w] = target[w]]
    /\ phase' = [phase EXCEPT ![w] = "idle"]
    /\ target' = [target EXCEPT ![w] = 0]
    /\ UNCHANGED head

Stop(w) ==
    /\ phase[w] = "working"
    /\ phase' = [phase EXCEPT ![w] = "stopped"]
    /\ target' = [target EXCEPT ![w] = 0]
    /\ UNCHANGED <<head, applied>>

Permit(w) ==
    /\ phase[w] = "stopped"
    /\ phase' = [phase EXCEPT ![w] = "idle"]
    /\ UNCHANGED <<head, applied, target>>

Next ==
    \E w \in WorkIds :
        Open(w) \/ Append(w) \/ Start(w) \/ Apply(w) \/ Stop(w) \/ Permit(w)

Spec == Init /\ [][Next]_progressVars
=============================================================================
