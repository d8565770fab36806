------------------------------ MODULE Timer ------------------------------
(***************************************************************************)
(* What the scheduler promises to the rest of the server: an armed event   *)
(* fires once, not before its deadline, unless it is cancelled before that *)
(* or the timer is closed.  The code has no such type; its users (walk     *)
(* events, raids, reconnects, Lua timers) rely on this contract when they  *)
(* keep an event id and call stopEvent with it.                            *)
(***************************************************************************)
EXTENDS Naturals

CONSTANT Event

VARIABLES status, deadline, clock, open

timerVars == <<status, deadline, clock, open>>

Init ==
    /\ status = [e \in Event |-> "idle"]
    /\ deadline = [e \in Event |-> 0]
    /\ clock = 0
    /\ open = TRUE

\* The deadline is fixed while the event is being created.
Prepare(e) ==
    /\ status[e] = "idle"
    /\ deadline'[e] > clock
    /\ deadline' = [deadline EXCEPT ![e] = deadline'[e]]
    /\ UNCHANGED <<status, clock, open>>

Arm(e) ==
    /\ status[e] = "idle"
    /\ open
    /\ status' = [status EXCEPT ![e] = "armed"]
    /\ UNCHANGED <<deadline, clock, open>>

Refuse(e) ==
    /\ status[e] = "idle"
    /\ ~ open
    /\ status' = [status EXCEPT ![e] = "dropped"]
    /\ UNCHANGED <<deadline, clock, open>>

Cancel(e) ==
    /\ status[e] = "armed"
    /\ status' = [status EXCEPT ![e] = "cancelled"]
    /\ UNCHANGED <<deadline, clock, open>>

Fire(e) ==
    /\ status[e] = "armed"
    /\ deadline[e] <= clock
    /\ status' = [status EXCEPT ![e] = "fired"]
    /\ UNCHANGED <<deadline, clock, open>>

Close ==
    /\ open
    /\ open' = FALSE
    /\ UNCHANGED <<status, deadline, clock>>

\* The end of a closed timer: what is still armed never fires.
Drop ==
    /\ ~ open
    /\ status' = [e \in Event |->
                    IF status[e] = "armed" THEN "dropped" ELSE status[e]]
    /\ UNCHANGED <<deadline, clock, open>>

Advance ==
    /\ clock' \in Nat
    /\ clock' > clock
    /\ UNCHANGED <<status, deadline, open>>

Next ==
    \/ \E e \in Event : Prepare(e) \/ Arm(e) \/ Refuse(e) \/ Cancel(e) \/ Fire(e)
    \/ Close
    \/ Drop
    \/ Advance

Spec == Init /\ [][Next]_timerVars

=============================================================================
