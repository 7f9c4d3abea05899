----------------------------- MODULE TeachMode ------------------------------
(***************************************************************************)
(* The teach mode of lbr_ros2_control::AdmittanceController.               *)
(*                                                                         *)
(*   update   the control loop's thread; the lifecycle callbacks never     *)
(*            overlap it and are actions of it here;                       *)
(*   toggle   the callback of the service ~/teach_mode/toggle, one call at *)
(*            a time, whether or not the controller is active.             *)
(*                                                                         *)
(* They share requested_teach_mode_, an atomic: every access to it is an   *)
(* action.  Joint angles are a distance from home, 0 for the tolerance of  *)
(* update(), and the robot reaches a command before the next update(),     *)
(* except that it may yield by a unit when it holds home.  The blend of    *)
(* the return is a ramp of one unit per update().                          *)
(*                                                                         *)
(* External: someone else may move the arm while the robot is not          *)
(* commanded by this controller, and commanding that ended is not resumed  *)
(* within one cycle of an active controller.                               *)
(***************************************************************************)
EXTENDS Integers

CONSTANT MaxPos   \* bound of the model: the largest distance from home

ASSUME TeachAssumption == MaxPos \in Nat \ {0}

VARIABLES
  commanding,             \* session state interface: COMMANDING_ACTIVE
  q,                      \* joint positions
  pc,                     \* where update() is; "off": controller inactive
  active_teach_mode_,
  requested_teach_mode_,
  session_active_prev_,
  return_start_,          \* return_start_positions_
  return_elapsed_,
  initialized_,
  t_init_,                \* pose that admittance measures the offset from
  entered,                \* history: where the arm was when guiding began
  toggle,                 \* where the service callback is
  current                 \* its local variable

robotVars == <<commanding, q>>
returnVars == <<return_start_, return_elapsed_>>
admittanceVars == <<initialized_, t_init_, entered>>
toggleVars == <<toggle, current>>
vars == <<robotVars, pc, active_teach_mode_, requested_teach_mode_,
          session_active_prev_, returnVars, admittanceVars, toggleVars>>

Mode == {"HOME_HOLD", "ADMITTANCE", "RETURN_HOME"}
Pos == 0 .. MaxPos
Duration(start) == IF start = 0 THEN 1 ELSE start

Init ==
  /\ commanding \in BOOLEAN /\ q \in Pos /\ pc = "off"
  /\ active_teach_mode_ = "RETURN_HOME" /\ requested_teach_mode_ = "RETURN_HOME"
  /\ session_active_prev_ = FALSE
  /\ return_start_ = 0 /\ return_elapsed_ = 0
  /\ initialized_ = FALSE /\ t_init_ = 0 /\ entered = 0
  /\ toggle = "idle" /\ current = "HOME_HOLD"

-----------------------------------------------------------------------------
(* Lifecycle *)

OnActivate ==
  /\ pc = "off" /\ pc' = "idle"
  /\ active_teach_mode_' = "RETURN_HOME"
  /\ requested_teach_mode_' = "RETURN_HOME"
  /\ session_active_prev_' = FALSE
  /\ initialized_' = FALSE
  /\ UNCHANGED <<robotVars, returnVars, t_init_, entered, toggleVars>>

OnDeactivate ==
  /\ pc = "idle" /\ pc' = "off"
  /\ session_active_prev_' = FALSE
  /\ initialized_' = FALSE
  /\ UNCHANGED <<robotVars, active_teach_mode_, requested_teach_mode_,
                 returnVars, t_init_, entered, toggleVars>>

-----------------------------------------------------------------------------
(* update() *)

StartReturn == return_start_' = q /\ return_elapsed_' = 0

UpdateNotCommanding ==
  /\ pc = "idle" /\ ~ commanding
  /\ session_active_prev_' = FALSE
  /\ UNCHANGED <<robotVars, pc, active_teach_mode_, requested_teach_mode_,
                 returnVars, admittanceVars, toggleVars>>

\* Plausible bug: the return starts where the last one did.
SessionBeginsElsewhere ==
  /\ pc = "idle" /\ commanding /\ ~ session_active_prev_
  /\ pc' = "store"
  /\ session_active_prev_' = TRUE
  /\ active_teach_mode_' = IF q = 0 THEN "HOME_HOLD" ELSE "RETURN_HOME"
  /\ return_elapsed_' = 0
  /\ UNCHANGED <<robotVars, requested_teach_mode_, return_start_,
                 admittanceVars, toggleVars>>

\* The first cycle of a commanding session holds or returns home.
SessionBegins ==
  /\ pc = "idle" /\ commanding /\ ~ session_active_prev_
  /\ pc' = "store"
  /\ session_active_prev_' = TRUE
  /\ IF q = 0
       THEN /\ active_teach_mode_' = "HOME_HOLD"
            /\ return_start_' = q /\ UNCHANGED return_elapsed_
       ELSE /\ active_teach_mode_' = "RETURN_HOME"
            /\ StartReturn
  /\ UNCHANGED <<robotVars, requested_teach_mode_, admittanceVars, toggleVars>>

\* requested_teach_mode_.store(...), over whatever was asked for meanwhile
StoreRequest ==
  /\ pc = "store" /\ pc' = "load"
  /\ requested_teach_mode_' = active_teach_mode_
  /\ UNCHANGED <<robotVars, active_teach_mode_, session_active_prev_,
                 returnVars, admittanceVars, toggleVars>>

\* Plausible bug: the request is read in the first cycle of a session only.
SessionContinuesDeaf ==
  /\ pc = "idle" /\ commanding /\ session_active_prev_
  /\ pc' = "command"
  /\ UNCHANGED <<robotVars, active_teach_mode_, requested_teach_mode_,
                 session_active_prev_, returnVars, admittanceVars, toggleVars>>

SessionContinues ==
  /\ pc = "idle" /\ commanding /\ session_active_prev_
  /\ pc' = "load"
  /\ UNCHANGED <<robotVars, active_teach_mode_, requested_teach_mode_,
                 session_active_prev_, returnVars, admittanceVars, toggleVars>>

\* Plausible bug: admittance goes on from the pose of the last time.
FollowRequestResumes ==
  /\ pc = "load" /\ pc' = "command"
  /\ active_teach_mode_' = requested_teach_mode_
  /\ LET changed == requested_teach_mode_ # active_teach_mode_ IN
     /\ IF changed /\ requested_teach_mode_ = "RETURN_HOME"
          THEN StartReturn ELSE UNCHANGED returnVars
     /\ entered' = IF changed /\ requested_teach_mode_ = "ADMITTANCE"
                     THEN q ELSE entered
  /\ UNCHANGED <<robotVars, requested_teach_mode_, session_active_prev_,
                 initialized_, t_init_, toggleVars>>

\* requested_teach_mode_.load() and what a new mode needs
FollowRequest ==
  /\ pc = "load" /\ pc' = "command"
  /\ active_teach_mode_' = requested_teach_mode_
  /\ LET changed == requested_teach_mode_ # active_teach_mode_ IN
     /\ IF changed /\ requested_teach_mode_ = "RETURN_HOME"
          THEN StartReturn ELSE UNCHANGED returnVars
     /\ IF changed /\ requested_teach_mode_ = "ADMITTANCE"
          THEN initialized_' = FALSE /\ entered' = q
          ELSE UNCHANGED <<initialized_, entered>>
  /\ UNCHANGED <<robotVars, requested_teach_mode_, session_active_prev_,
                 t_init_, toggleVars>>

\* The command is home; the arm may give way to someone who pushes it.
HoldHome ==
  /\ pc = "command" /\ active_teach_mode_ = "HOME_HOLD"
  /\ pc' = "idle"
  /\ q' \in {0, 1}
  /\ UNCHANGED <<commanding, active_teach_mode_, requested_teach_mode_,
                 session_active_prev_, returnVars, admittanceVars, toggleVars>>

\* Plausible bug: the return waits for more than its duration.
ReturnHomeOvershoots ==
  /\ pc = "command" /\ active_teach_mode_ = "RETURN_HOME"
  /\ return_elapsed_' =
       IF return_elapsed_ < Duration(return_start_) THEN return_elapsed_ + 1
       ELSE return_elapsed_
  /\ q' = IF return_elapsed_' > return_start_ THEN 0
          ELSE return_start_ - return_elapsed_'
  /\ IF return_elapsed_' > Duration(return_start_)
       THEN pc' = "arrive" /\ active_teach_mode_' = "HOME_HOLD"
       ELSE pc' = "idle" /\ UNCHANGED active_teach_mode_
  /\ UNCHANGED <<commanding, requested_teach_mode_, session_active_prev_,
                 return_start_, admittanceVars, toggleVars>>

\* One more step of the blend, the last one at home
ReturnHome ==
  /\ pc = "command" /\ active_teach_mode_ = "RETURN_HOME"
  /\ return_elapsed_' =
       IF return_elapsed_ < Duration(return_start_) THEN return_elapsed_ + 1
       ELSE return_elapsed_
  /\ q' = IF return_elapsed_' > return_start_ THEN 0
          ELSE return_start_ - return_elapsed_'
  /\ IF return_elapsed_' = Duration(return_start_)
       THEN pc' = "arrive" /\ active_teach_mode_' = "HOME_HOLD"
       ELSE pc' = "idle" /\ UNCHANGED active_teach_mode_
  /\ UNCHANGED <<commanding, requested_teach_mode_, session_active_prev_,
                 return_start_, admittanceVars, toggleVars>>

Arrive ==
  /\ pc = "arrive" /\ pc' = "idle"
  /\ requested_teach_mode_' = "HOME_HOLD"
  /\ UNCHANGED <<robotVars, active_teach_mode_, session_active_prev_,
                 returnVars, admittanceVars, toggleVars>>

\* The operator guides the arm, at most one unit per cycle.
Admit ==
  /\ pc = "command" /\ active_teach_mode_ = "ADMITTANCE"
  /\ pc' = "idle"
  /\ initialized_' = TRUE
  /\ t_init_' = IF initialized_ THEN t_init_ ELSE q
  /\ q' \in Pos \cap {q - 1, q, q + 1}
  /\ UNCHANGED <<commanding, active_teach_mode_, requested_teach_mode_,
                 session_active_prev_, returnVars, entered, toggleVars>>

-----------------------------------------------------------------------------
(* toggle_teach_mode_ *)

ToggleLoad ==
  /\ toggle = "idle" /\ toggle' = "decide"
  /\ current' = requested_teach_mode_
  /\ UNCHANGED <<robotVars, pc, active_teach_mode_, requested_teach_mode_,
                 session_active_prev_, returnVars, admittanceVars>>

\* "Return to home is already in progress."
ToggleRefused ==
  /\ toggle = "decide" /\ current = "RETURN_HOME"
  /\ toggle' = "idle"
  /\ UNCHANGED <<robotVars, pc, active_teach_mode_, requested_teach_mode_,
                 session_active_prev_, returnVars, admittanceVars, current>>

\* Plausible bug: a store in place of the compare_exchange.
ToggleAcceptedStores ==
  /\ toggle = "decide" /\ current # "RETURN_HOME"
  /\ toggle' = "idle"
  /\ requested_teach_mode_' =
       IF current = "HOME_HOLD" THEN "ADMITTANCE" ELSE "RETURN_HOME"
  /\ UNCHANGED <<robotVars, pc, active_teach_mode_, session_active_prev_,
                 returnVars, admittanceVars, current>>

ToggleAccepted ==
  /\ toggle = "decide" /\ current # "RETURN_HOME"
  /\ requested_teach_mode_ = current
  /\ toggle' = "idle"
  /\ requested_teach_mode_' =
       IF current = "HOME_HOLD" THEN "ADMITTANCE" ELSE "RETURN_HOME"
  /\ UNCHANGED <<robotVars, pc, active_teach_mode_, session_active_prev_,
                 returnVars, admittanceVars, current>>

\* compare_exchange_weak fails, maybe for no reason, and loads again.
ToggleRetries ==
  /\ toggle = "decide" /\ current # "RETURN_HOME"
  /\ current' = requested_teach_mode_
  /\ UNCHANGED <<robotVars, pc, active_teach_mode_, requested_teach_mode_,
                 session_active_prev_, returnVars, admittanceVars, toggle>>

-----------------------------------------------------------------------------
(* The robot, between two calls of update() *)

\* Commanding ends at any time and begins again once it was seen to end.
SessionChanges ==
  /\ pc \in {"off", "idle"}
  /\ ~ commanding /\ pc = "idle" => ~ session_active_prev_
  /\ commanding' = ~ commanding
  /\ UNCHANGED <<q, pc, active_teach_mode_, requested_teach_mode_,
                 session_active_prev_, returnVars, admittanceVars, toggleVars>>

MovedElsewhere ==
  /\ pc = "off" \/ (pc = "idle" /\ ~ commanding)
  /\ q' \in Pos
  /\ UNCHANGED <<commanding, pc, active_teach_mode_, requested_teach_mode_,
                 session_active_prev_, returnVars, admittanceVars, toggleVars>>

-----------------------------------------------------------------------------
Update ==
  \/ UpdateNotCommanding \/ SessionBegins \/ StoreRequest \/ SessionContinues
  \/ FollowRequest \/ HoldHome \/ ReturnHome \/ Arrive \/ Admit

Toggle == ToggleLoad \/ ToggleRefused \/ ToggleAccepted \/ ToggleRetries

Next ==
  \/ OnActivate \/ OnDeactivate \/ Update \/ Toggle
  \/ SessionChanges \/ MovedElsewhere

\* The control loop calls update() for ever; nobody has to press the button.
Spec == Init /\ [][Next]_vars /\ WF_vars(Update)

-----------------------------------------------------------------------------
(* Properties *)

\* Every variable has its type, and a return stays within its duration.
TypeOK ==
  /\ commanding \in BOOLEAN /\ q \in Pos
  /\ pc \in {"off", "idle", "store", "load", "command", "arrive"}
  /\ active_teach_mode_ \in Mode /\ requested_teach_mode_ \in Mode
  /\ session_active_prev_ \in BOOLEAN
  /\ return_start_ \in Pos /\ return_elapsed_ \in 0 .. MaxPos
  /\ active_teach_mode_ = "RETURN_HOME" /\ session_active_prev_ =>
       return_elapsed_ <= Duration(return_start_)
  /\ initialized_ \in BOOLEAN /\ t_init_ \in Pos /\ entered \in Pos
  /\ toggle \in {"idle", "decide"} /\ current \in Mode

\* No command is further than one cycle's motion from where the arm is: not
\* after a session that ended and began elsewhere, not after a deactivation,
\* not when the button is pressed twice between two cycles.
SmoothMotion ==
  [][pc = "command" => q' \in {q - 1, q, q + 1}]_vars

\* "every teaching segment starts from the current robot pose"
\* (admittance_controller.cpp:247)
SegmentStartsHere ==
  initialized_ /\ active_teach_mode_ = "ADMITTANCE" => t_init_ = entered

\* A return home ends at home: neither the button nor an older request keeps
\* the controller from it, as long as the robot is commanded.
ReturnCompletes ==
  active_teach_mode_ = "RETURN_HOME" /\ session_active_prev_
    ~> \/ active_teach_mode_ = "HOME_HOLD" /\ q = 0
       \/ ~ session_active_prev_

\* What requested_teach_mode_ holds is followed, or commanding ends.
RequestFollowed ==
  requested_teach_mode_ # active_teach_mode_ /\ session_active_prev_
    ~> \/ requested_teach_mode_ = active_teach_mode_
       \/ ~ session_active_prev_

\* The two members implement one protocol.  A request takes effect when it is
\* exchanged; the two stores of update() take effect with the mode they
\* follow, and a request that such a store overwrites never counted.
Request ==
  IF pc \in {"store", "arrive"} THEN active_teach_mode_ ELSE requested_teach_mode_

Protocol == INSTANCE TeachProtocol WITH
  mode <- active_teach_mode_, request <- Request

ImplementsProtocol == Protocol!Spec
=============================================================================
