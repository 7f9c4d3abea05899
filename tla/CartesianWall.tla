----------------------------- MODULE CartesianWall -----------------------------
(***************************************************************************)
(* The Cartesian wall: the client on the PC and the application on the     *)
(* robot controller, which meet in the level of Output1, set by the        *)
(* client's reply, and in the session state of the robot's packets.  Each  *)
(* side has its own idea of whether the overlay runs.                      *)
(***************************************************************************)
EXTENDS CartesianWallClient

VARIABLES app, motion, hold, previousOutput, accepted, edge

Sunrise == INSTANCE SunriseOverlay

vars == <<clientVars, io, Sunrise!sunriseVars>>

Init == ClientInit /\ Sunrise!SunriseInit

\* A reply that changes the output may be an edge for Sunrise.
Client ==
  /\ Fri \/ Ros
  /\ edge' = (edge \/ io' # io)
  /\ UNCHANGED <<app, motion, hold, previousOutput, accepted>>

Robot ==
  /\ \/ Sunrise!Run \/ Sunrise!StopKey
     \/ Sunrise!SessionProgresses \/ Sunrise!MotionEnds
  /\ UNCHANGED clientVars

Next == Client \/ Robot

\* The FRI thread runs, where packets come or step() fails, and so does the
\* application; a cancelled motion ends.  Nobody has to call or to press a key.
Fairness ==
  /\ WF_vars(Client /\ Fri)
  /\ WF_vars(Robot /\ Sunrise!Run) /\ WF_vars(Robot /\ Sunrise!CancelEnds)

Spec == Init /\ [][Next]_vars /\ Fairness

-----------------------------------------------------------------------------
(* What the two sides keep *)

\* An authorization is granted by a START that was called after commanding last
\* ended against a request: the operator asks again after every interruption,
\* wherever the service is when the session ends (onStateChange(), the service).
LossNeedsStart == [][~ shared.authorized /\ shared'.authorized => ~ lost]_vars

\* However authorization ends in a session - STOP, a fault, a gap in the feedback -
\* at most the wrench that command() is computing is still sent (command()).
OneCycleLate == late <= 1

\* An edge that Sunrise takes for a START happened after the last motion was
\* confirmed ended, so that nobody's STOP becomes a delayed start
\* (stopOverlayAndConfirm() and the end that run() notices).
NoDelayedStart == app = "starting" => edge

\* Reversible: while the overlay runs, an output other than the one it started
\* with ends its motion, unless it is taken back or the client loses its
\* connection first (ToggleOutput, apply_output_command(), run()).
Differs == shared.output >= 0 /\ (shared.output = 1) # previousOutput
StopFollowed == motion = "running" /\ Differs
                  ~> motion # "running" \/ ~ Differs \/ fri.pc = "disconnect"

=============================================================================
