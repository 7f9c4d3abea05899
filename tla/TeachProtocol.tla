--------------------------- MODULE TeachProtocol ----------------------------
(***************************************************************************)
(* What AdmittanceController promises the operator of its teach mode,      *)
(* without threads: the controller is in a mode, the operator's button     *)
(* asks for the next one, and the controller follows.  A return home is    *)
(* not interrupted by the button, and the arm is free to be guided only    *)
(* after the operator has asked for it since the controller last started.  *)
(***************************************************************************)
VARIABLES mode, request

vars == <<mode, request>>

TeachMode == {"HOME_HOLD", "ADMITTANCE", "RETURN_HOME"}

Init == mode = "RETURN_HOME" /\ request = "RETURN_HOME"

\* The controller is activated or commanding begins: nothing that was asked
\* for before counts.
Restart ==
  /\ mode' \in {"HOME_HOLD", "RETURN_HOME"}
  /\ request' = mode'

AskAdmittance ==
  /\ request = "HOME_HOLD"
  /\ request' = "ADMITTANCE"
  /\ UNCHANGED mode

AskReturn ==
  /\ request = "ADMITTANCE"
  /\ request' = "RETURN_HOME"
  /\ UNCHANGED mode

Follow ==
  /\ mode' = request
  /\ UNCHANGED request

Arrive ==
  /\ mode = "RETURN_HOME" /\ request = "RETURN_HOME"
  /\ mode' = "HOME_HOLD" /\ request' = "HOME_HOLD"

Next == Restart \/ AskAdmittance \/ AskReturn \/ Follow \/ Arrive

Spec == Init /\ [][Next]_vars
=============================================================================
