--------------------------- MODULE ServiceProcess ---------------------------
(***************************************************************************)
(* What a Windows service process owes the service control manager: it     *)
(* reports the states below in this order, ends by itself only with an     *)
(* error, and once asked to stop it ends, whatever its parts do.           *)
(***************************************************************************)
EXTENDS Naturals

CONSTANTS NoCode

VARIABLES status, code

processVars == <<status, code>>

Statuses == {"start_pending", "running", "stop_pending", "stopped"}
Codes == {0, 1}

Init == status = "start_pending" /\ code = NoCode

Run == status = "start_pending" /\ status' = "running" /\ UNCHANGED code

AskToStop == status = "running" /\ status' = "stop_pending" /\ UNCHANGED code

Fail == status = "running" /\ status' = "stopped" /\ code' = 1

Stop == status = "stop_pending" /\ status' = "stopped" /\ code' \in Codes

Next == Run \/ AskToStop \/ Fail \/ Stop

Spec == Init /\ [][Next]_processVars /\ WF_processVars(Stop)
=============================================================================
