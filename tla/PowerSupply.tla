---------------------------- MODULE PowerSupply ----------------------------
(***************************************************************************)
(* What a connector promises about power, whatever it uses to decide: the  *)
(* power circuit is closed only while current is being offered to the      *)
(* vehicle, current is first offered to a vehicle that is connected and    *)
(* not yet drawing, the circuit closes only when the vehicle asks for      *)
(* power, and an offer is never withdrawn leaving the circuit closed.      *)
(* FreeConnector and OcppCharger implement it.                             *)
(***************************************************************************)
VARIABLES
    ev,        \* the status the vehicle shows on the pilot line
    offered,   \* current is offered (the pilot carries a PWM signal)
    closed     \* the power circuit is closed

Init == ~offered /\ ~closed

\* The vehicle changes its mind, or is plugged or unplugged.
Vehicle == UNCHANGED <<offered, closed>>

Offer ==
    /\ ~offered /\ ev = "B"
    /\ offered' = TRUE
    /\ UNCHANGED <<ev, closed>>

Close ==
    /\ offered /\ ~closed /\ ev \in {"C", "D"}
    /\ closed' = TRUE
    /\ UNCHANGED <<ev, offered>>

Open ==
    /\ closed
    /\ closed' = FALSE
    /\ UNCHANGED offered

Withdraw ==
    /\ offered
    /\ offered' = FALSE
    /\ closed' = FALSE

Next == Vehicle \/ Offer \/ Close \/ Open \/ Withdraw

Spec == Init /\ [][Next]_<<ev, offered, closed>>
=============================================================================
