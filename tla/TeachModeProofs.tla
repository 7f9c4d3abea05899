-------------------------- MODULE TeachModeProofs ---------------------------
(***************************************************************************)
(* Safety of TeachMode for every size of the workspace: its type, the      *)
(* smoothness of its motion, where a teaching segment starts, and that it  *)
(* implements TeachProtocol.  One invariant carries them all; its parts    *)
(* are named after what the action that needs them relies on.              *)
(***************************************************************************)
EXTENDS TeachMode, TLAPS

Updating == pc \in {"store", "load", "command", "arrive"}

\* Within update() the session is commanding, and update() knows.
SessionInv == Updating => commanding /\ session_active_prev_

\* Which requests are possible in which mode: the button skips no mode, since
\* it is refused during a return, until update() has stored HOME_HOLD.
RequestInv ==
  /\ pc = "store" => active_teach_mode_ # "ADMITTANCE"
  /\ pc # "store" /\ active_teach_mode_ = "RETURN_HOME" =>
       requested_teach_mode_ = "RETURN_HOME"
  /\ pc # "store" /\ active_teach_mode_ = "ADMITTANCE" =>
       requested_teach_mode_ # "HOME_HOLD"
  /\ pc = "arrive" =>
       /\ active_teach_mode_ = "HOME_HOLD"
       /\ requested_teach_mode_ = "RETURN_HOME"

\* As long as the session goes on the arm is where the mode has brought it.
MotionInv ==
  commanding /\ session_active_prev_ /\ pc # "off" =>
    /\ active_teach_mode_ = "HOME_HOLD" => q <= 1
    /\ active_teach_mode_ = "RETURN_HOME" =>
         /\ return_elapsed_ < Duration(return_start_)
         /\ q = return_start_ - return_elapsed_

\* The first cycle of a segment, and no other, has yet to take its pose.
EntryInv ==
  active_teach_mode_ = "ADMITTANCE" /\ session_active_prev_ /\ ~ initialized_ =>
    pc = "command" /\ q = entered

IInv ==
  /\ TypeOK /\ SessionInv /\ RequestInv /\ MotionInv
  /\ EntryInv /\ SegmentStartsHere

-----------------------------------------------------------------------------
LEMMA InitInv == Init => IInv
<1> SUFFICES ASSUME Init PROVE IInv
  OBVIOUS
<1>1. TypeOK
  <2>1. 0 \in 0 .. MaxPos
    BY TeachAssumption DEF TeachAssumption
  <2> QED
    BY <2>1, Zenon DEF Init, TypeOK, Pos, Mode
<1>2. SessionInv /\ RequestInv /\ MotionInv /\ EntryInv /\ SegmentStartsHere
  BY DEF Init, SessionInv, RequestInv, MotionInv, EntryInv, SegmentStartsHere,
     Updating
<1> QED
  BY <1>1, <1>2 DEF IInv

LEMMA LifecycleInv ==
  IInv /\ (OnActivate \/ OnDeactivate) => IInv'
<1> SUFFICES ASSUME IInv, OnActivate \/ OnDeactivate
             PROVE  IInv'
  OBVIOUS
<1> USE DEF OnActivate, OnDeactivate, IInv, robotVars, returnVars,
        admittanceVars, toggleVars
<1>1. TypeOK'
  BY TeachAssumption DEF TeachAssumption, TypeOK, MotionInv, SessionInv,
     Updating, Pos, Mode, Duration
<1>2. SessionInv'
  BY DEF SessionInv, Updating, TypeOK
<1>3. RequestInv'
  BY DEF RequestInv, TypeOK, Mode
<1>4. MotionInv'
  BY DEF MotionInv, SessionInv, RequestInv, Updating, TypeOK, Pos, Mode,
     Duration
<1>5. EntryInv'
  BY Zenon DEF EntryInv, RequestInv, SessionInv, Updating
<1>6. SegmentStartsHere'
  BY DEF SegmentStartsHere, TypeOK
<1> QED
  BY <1>1, <1>2, <1>3, <1>4, <1>5, <1>6

LEMMA SessionStepInv ==
  IInv /\ (UpdateNotCommanding \/ SessionBegins \/ SessionContinues) => IInv'
<1> SUFFICES ASSUME IInv, UpdateNotCommanding \/ SessionBegins \/ SessionContinues
             PROVE  IInv'
  OBVIOUS
<1> USE DEF UpdateNotCommanding, SessionBegins, SessionContinues, StartReturn,
        IInv, robotVars, returnVars, admittanceVars, toggleVars
<1>1. TypeOK'
  <2>1. CASE UpdateNotCommanding
    BY <2>1, TeachAssumption
       DEF TeachAssumption, TypeOK, MotionInv, Pos, Mode, Duration
  <2>2. CASE SessionBegins
    BY <2>2, TeachAssumption
       DEF TeachAssumption, TypeOK, MotionInv, Pos, Mode, Duration
  <2>3. CASE SessionContinues
    BY <2>3, TeachAssumption
       DEF TeachAssumption, TypeOK, MotionInv, Pos, Mode, Duration
  <2> QED
    BY <2>1, <2>2, <2>3
<1>2. SessionInv'
  BY DEF SessionInv, Updating, TypeOK
<1>3. RequestInv'
  BY DEF RequestInv, TypeOK, Mode
<1>4. MotionInv'
  <2>1. CASE UpdateNotCommanding
    BY <2>1
       DEF MotionInv, SessionInv, RequestInv, Updating, TypeOK, Pos, Duration
  <2>2. CASE SessionBegins
    BY <2>2
       DEF MotionInv, SessionInv, RequestInv, Updating, TypeOK, Pos, Duration
  <2>3. CASE SessionContinues
    BY <2>3
       DEF MotionInv, SessionInv, RequestInv, Updating, TypeOK, Pos, Duration
  <2> QED
    BY <2>1, <2>2, <2>3
<1>5. EntryInv'
  BY Zenon DEF EntryInv, RequestInv, SessionInv, Updating
<1>6. SegmentStartsHere'
  BY DEF SegmentStartsHere, TypeOK
<1> QED
  BY <1>1, <1>2, <1>3, <1>4, <1>5, <1>6

LEMMA StoreInv ==
  IInv /\ (StoreRequest \/ Arrive) => IInv'
<1> SUFFICES ASSUME IInv, StoreRequest \/ Arrive
             PROVE  IInv'
  OBVIOUS
<1> USE DEF StoreRequest, Arrive, IInv, robotVars, returnVars, admittanceVars,
        toggleVars
<1>1. TypeOK'
  BY TeachAssumption DEF TeachAssumption, TypeOK, MotionInv, SessionInv,
     Updating, Pos, Mode, Duration
<1>2. SessionInv'
  BY DEF SessionInv, Updating, TypeOK
<1>3. RequestInv'
  BY DEF RequestInv, TypeOK, Mode
<1>4. MotionInv'
  BY DEF MotionInv, SessionInv, RequestInv, Updating, TypeOK, Pos, Mode,
     Duration
<1>5. EntryInv'
  BY Zenon DEF EntryInv, RequestInv, SessionInv, Updating
<1>6. SegmentStartsHere'
  BY DEF SegmentStartsHere, TypeOK
<1> QED
  BY <1>1, <1>2, <1>3, <1>4, <1>5, <1>6

LEMMA FollowRequestInv == IInv /\ FollowRequest => IInv'
<1> SUFFICES ASSUME IInv, FollowRequest PROVE IInv'
  OBVIOUS
<1> USE DEF FollowRequest, IInv, robotVars, returnVars,
        admittanceVars, toggleVars, StartReturn
<1>1. TypeOK'
  <2>1. return_start_' \in Pos /\ return_elapsed_' \in 0 .. MaxPos
    BY TeachAssumption DEF TeachAssumption, TypeOK, Pos
  <2>2. initialized_' \in BOOLEAN /\ entered' \in Pos
    BY Zenon DEF TypeOK
  <2>3. active_teach_mode_' = "RETURN_HOME" /\ session_active_prev_'
          => return_elapsed_' <= Duration(return_start_)'
    BY DEF TypeOK, Duration, Pos
  <2> QED
    BY <2>1, <2>2, <2>3 DEF TypeOK, Mode
<1>2. SessionInv'
  BY DEF SessionInv, Updating, TypeOK
<1>3. RequestInv'
  BY DEF RequestInv, TypeOK, Mode
<1>4. MotionInv'
  BY DEF MotionInv, SessionInv, RequestInv, Updating, TypeOK, Pos, Mode,
     Duration
<1>5. EntryInv'
  BY Zenon DEF EntryInv, RequestInv, SessionInv, Updating
<1>6. SegmentStartsHere'
  BY DEF SegmentStartsHere, TypeOK
<1> QED
  BY <1>1, <1>2, <1>3, <1>4, <1>5, <1>6

LEMMA HoldHomeInv == IInv /\ HoldHome => IInv'
<1> SUFFICES ASSUME IInv, HoldHome PROVE IInv'
  OBVIOUS
<1> USE DEF HoldHome, IInv, robotVars, returnVars,
        admittanceVars, toggleVars
<1>1. TypeOK'
  BY TeachAssumption DEF TeachAssumption, TypeOK, MotionInv, SessionInv,
     Updating, Pos, Mode, Duration
<1>2. SessionInv'
  BY DEF SessionInv, Updating, TypeOK
<1>3. RequestInv'
  BY DEF RequestInv, TypeOK, Mode
<1>4. MotionInv'
  BY DEF MotionInv, SessionInv, RequestInv, Updating, TypeOK, Pos, Mode,
     Duration
<1>5. EntryInv'
  BY Zenon DEF EntryInv, RequestInv, SessionInv, Updating
<1>6. SegmentStartsHere'
  BY DEF SegmentStartsHere, TypeOK
<1> QED
  BY <1>1, <1>2, <1>3, <1>4, <1>5, <1>6

LEMMA ReturnHomeInv == IInv /\ ReturnHome => IInv'
<1> SUFFICES ASSUME IInv, ReturnHome PROVE IInv'
  OBVIOUS
<1> USE DEF ReturnHome, IInv, robotVars, returnVars,
        admittanceVars, toggleVars
<1>1. TypeOK'
  BY TeachAssumption DEF TeachAssumption, TypeOK, MotionInv, SessionInv,
     Updating, Pos, Mode, Duration
<1>2. SessionInv'
  BY DEF SessionInv, Updating, TypeOK
<1>3. RequestInv'
  BY DEF RequestInv, TypeOK, Mode
<1>4. MotionInv'
  BY DEF MotionInv, SessionInv, RequestInv, Updating, TypeOK, Pos, Mode,
     Duration
<1>5. EntryInv'
  BY Zenon DEF EntryInv, RequestInv, SessionInv, Updating
<1>6. SegmentStartsHere'
  BY DEF SegmentStartsHere, TypeOK
<1> QED
  BY <1>1, <1>2, <1>3, <1>4, <1>5, <1>6

LEMMA AdmitInv == IInv /\ Admit => IInv'
<1> SUFFICES ASSUME IInv, Admit PROVE IInv'
  OBVIOUS
<1> USE DEF Admit, IInv, robotVars, returnVars,
        admittanceVars, toggleVars
<1>1. TypeOK'
  BY TeachAssumption DEF TeachAssumption, TypeOK, MotionInv, SessionInv,
     Updating, Pos, Mode, Duration
<1>2. SessionInv'
  BY DEF SessionInv, Updating, TypeOK
<1>3. RequestInv'
  BY DEF RequestInv, TypeOK, Mode
<1>4. MotionInv'
  BY DEF MotionInv, SessionInv, RequestInv, Updating, TypeOK, Pos, Mode,
     Duration
<1>5. EntryInv'
  BY DEF EntryInv
<1>6. SegmentStartsHere'
  <2>1. CASE initialized_
    BY <2>1 DEF SegmentStartsHere
  <2>2. CASE ~ initialized_
    <3>1. q = entered
      BY <2>2 DEF EntryInv, SessionInv, Updating
    <3>2. t_init_' = q /\ entered' = entered
      BY <2>2, Zenon
    <3> QED
      BY <3>1, <3>2 DEF SegmentStartsHere
  <2> QED
    BY <2>1, <2>2
<1> QED
  BY <1>1, <1>2, <1>3, <1>4, <1>5, <1>6

LEMMA ToggleInv == IInv /\ Toggle => IInv'
<1> SUFFICES ASSUME IInv, Toggle PROVE IInv'
  OBVIOUS
<1> USE DEF Toggle, IInv, robotVars, returnVars,
        admittanceVars, toggleVars, ToggleLoad, ToggleRefused, ToggleAccepted, ToggleRetries
<1>1. TypeOK'
  BY TeachAssumption DEF TeachAssumption, TypeOK, MotionInv, SessionInv,
     Updating, Pos, Mode, Duration
<1>2. SessionInv'
  BY DEF SessionInv, Updating, TypeOK
<1>3. RequestInv'
  BY DEF RequestInv, TypeOK, Mode
<1>4. MotionInv'
  BY DEF MotionInv, SessionInv, RequestInv, Updating, TypeOK, Pos, Mode,
     Duration
<1>5. EntryInv'
  BY Zenon DEF EntryInv, RequestInv, SessionInv, Updating
<1>6. SegmentStartsHere'
  BY DEF SegmentStartsHere, TypeOK
<1> QED
  BY <1>1, <1>2, <1>3, <1>4, <1>5, <1>6

LEMMA RobotInv ==
  IInv /\ (SessionChanges \/ MovedElsewhere) => IInv'
<1> SUFFICES ASSUME IInv, SessionChanges \/ MovedElsewhere
             PROVE  IInv'
  OBVIOUS
<1> USE DEF SessionChanges, MovedElsewhere, IInv, robotVars, returnVars,
        admittanceVars, toggleVars
<1>1. TypeOK'
  <2>1. CASE SessionChanges
    BY <2>1, TeachAssumption
       DEF TeachAssumption, TypeOK, MotionInv, Pos, Mode, Duration
  <2>2. CASE MovedElsewhere
    BY <2>2, TeachAssumption
       DEF TeachAssumption, TypeOK, MotionInv, Pos, Mode, Duration
  <2> QED
    BY <2>1, <2>2
<1>2. SessionInv'
  BY DEF SessionInv, Updating, TypeOK
<1>3. RequestInv'
  BY DEF RequestInv, TypeOK, Mode
<1>4. MotionInv'
  BY DEF MotionInv, SessionInv, RequestInv, Updating, TypeOK, Pos, Mode,
     Duration
<1>5. EntryInv'
  BY Zenon DEF EntryInv, RequestInv, SessionInv, Updating
<1>6. SegmentStartsHere'
  BY DEF SegmentStartsHere, TypeOK
<1> QED
  BY <1>1, <1>2, <1>3, <1>4, <1>5, <1>6

LEMMA StepInv == IInv /\ [Next]_vars => IInv'
<1> SUFFICES ASSUME IInv, [Next]_vars PROVE IInv'
  OBVIOUS
<1>1. CASE OnActivate \/ OnDeactivate
  BY <1>1, LifecycleInv
<1>2. CASE Update
  BY <1>2, SessionStepInv, StoreInv, FollowRequestInv, HoldHomeInv,
     ReturnHomeInv, AdmitInv DEF Update
<1>3. CASE Toggle
  BY <1>3, ToggleInv
<1>4. CASE SessionChanges \/ MovedElsewhere
  BY <1>4, RobotInv
<1>5. CASE UNCHANGED vars
  BY <1>5 DEF vars, robotVars, returnVars, admittanceVars, toggleVars, IInv,
     TypeOK, SessionInv, RequestInv, MotionInv, EntryInv, SegmentStartsHere,
     Updating
<1> QED
  BY <1>1, <1>2, <1>3, <1>4, <1>5 DEF Next

LEMMA Invariance == Spec => []IInv
BY InitInv, StepInv, PTL DEF Spec

\* Every variable keeps its type, whatever the size of the workspace.
THEOREM TypeCorrect == Spec => []TypeOK
<1>1. IInv => TypeOK
  BY DEF IInv
<1> QED
  BY <1>1, Invariance, PTL

\* A teaching segment measures its offset from where the arm was when it
\* began (initialized_ and t_init_ of update()).
THEOREM SegmentsStartHere == Spec => []SegmentStartsHere
<1>1. IInv => SegmentStartsHere
  BY DEF IInv
<1> QED
  BY <1>1, Invariance, PTL

-----------------------------------------------------------------------------
(* Motion *)

LEMMA CommandIsSmooth ==
  IInv /\ [Next]_vars /\ pc = "command" => q' \in {q - 1, q, q + 1}
<1> SUFFICES ASSUME IInv, [Next]_vars, pc = "command"
             PROVE  q' \in {q - 1, q, q + 1}
  OBVIOUS
<1>1. commanding /\ session_active_prev_
  BY DEF IInv, SessionInv, Updating
<1>2. CASE HoldHome
  <2>1. q \in {0, 1}
    BY <1>1, <1>2 DEF HoldHome, IInv, MotionInv, TypeOK, Pos
  <2> QED
    BY <1>2, <2>1 DEF HoldHome
<1>3. CASE ReturnHome
  <2>1. /\ return_elapsed_ < Duration(return_start_)
        /\ q = return_start_ - return_elapsed_
    BY <1>1, <1>3 DEF ReturnHome, IInv, MotionInv
  <2> QED
    BY <1>3, <2>1 DEF ReturnHome, IInv, TypeOK, Pos, Duration
<1>4. CASE Admit
  BY <1>4 DEF Admit
<1>5. CASE UNCHANGED q
  BY <1>5
<1> QED
  BY <1>2, <1>3, <1>4, <1>5
     DEF Next, Update, Toggle, OnActivate, OnDeactivate, UpdateNotCommanding,
         SessionBegins, StoreRequest, SessionContinues, FollowRequest, Arrive,
         ToggleLoad, ToggleRefused, ToggleAccepted, ToggleRetries,
         SessionChanges, MovedElsewhere, robotVars, vars

\* The arm never jumps, however sessions, activations and the button interleave
\* with update().
THEOREM MotionIsSmooth == Spec => SmoothMotion
<1>1. IInv /\ [Next]_vars => [pc = "command" => q' \in {q - 1, q, q + 1}]_vars
  BY CommandIsSmooth
<1> QED
  BY <1>1, Invariance, PTL DEF Spec, SmoothMotion

-----------------------------------------------------------------------------
(* Refinement *)

LEMMA InitRefines == Init => Protocol!Init
BY DEF Init, Protocol!Init, Request

LEMMA Stutters ==
  ASSUME active_teach_mode_' = active_teach_mode_, Request' = Request
  PROVE  [Protocol!Next]_(Protocol!vars)
BY DEF Protocol!vars

LEMMA RestartRefines ==
  ASSUME IInv, OnActivate \/ SessionBegins PROVE Protocol!Restart
BY DEF OnActivate, SessionBegins, Protocol!Restart, Request

LEMMA FollowRefines == ASSUME FollowRequest PROVE Protocol!Follow
BY DEF FollowRequest, Protocol!Follow, Request

LEMMA ReturnRefines ==
  ASSUME IInv, ReturnHome PROVE [Protocol!Next]_(Protocol!vars)
<1>1. CASE pc' = "idle"
  BY <1>1, Stutters DEF ReturnHome, Request
<1>2. CASE pc' = "arrive"
  <2>1. requested_teach_mode_ = "RETURN_HOME"
    BY DEF ReturnHome, IInv, RequestInv
  <2>2. Protocol!Arrive
    BY <1>2, <2>1 DEF ReturnHome, Protocol!Arrive, Request
  <2> QED
    BY <2>2 DEF Protocol!Next
<1> QED
  BY <1>1, <1>2 DEF ReturnHome

\* A request that the stores of update() are about to overwrite is no request.
LEMMA AcceptedRefines ==
  ASSUME IInv, ToggleAccepted PROVE [Protocol!Next]_(Protocol!vars)
<1>1. CASE pc \in {"store", "arrive"}
  BY <1>1, Stutters DEF ToggleAccepted, Request
<1>2. CASE pc \notin {"store", "arrive"}
  <2>1. Request = requested_teach_mode_ /\ Request' = requested_teach_mode_'
    BY <1>2 DEF ToggleAccepted, Request
  <2>2. Protocol!AskAdmittance \/ Protocol!AskReturn
    BY <2>1 DEF ToggleAccepted, Protocol!AskAdmittance, Protocol!AskReturn,
       IInv, TypeOK, Mode
  <2> QED
    BY <2>2 DEF Protocol!Next
<1> QED
  BY <1>1, <1>2

LEMMA StoreRefines ==
  ASSUME IInv, StoreRequest \/ Arrive PROVE [Protocol!Next]_(Protocol!vars)
BY Stutters DEF StoreRequest, Arrive, Request, IInv, RequestInv

LEMMA OtherRefines ==
  ASSUME \/ OnDeactivate \/ UpdateNotCommanding \/ SessionContinues
         \/ HoldHome \/ Admit \/ ToggleLoad \/ ToggleRefused \/ ToggleRetries
         \/ SessionChanges \/ MovedElsewhere \/ UNCHANGED vars
  PROVE  [Protocol!Next]_(Protocol!vars)
BY Stutters
   DEF OnDeactivate, UpdateNotCommanding, SessionContinues, HoldHome, Admit,
       ToggleLoad, ToggleRefused, ToggleRetries, SessionChanges,
       MovedElsewhere, vars, Request

LEMMA StepRefines == IInv /\ [Next]_vars => [Protocol!Next]_(Protocol!vars)
<1> SUFFICES ASSUME IInv, [Next]_vars PROVE [Protocol!Next]_(Protocol!vars)
  OBVIOUS
<1>1. CASE OnActivate \/ SessionBegins
  BY <1>1, RestartRefines DEF Protocol!Next
<1>2. CASE FollowRequest
  BY <1>2, FollowRefines DEF Protocol!Next
<1>3. CASE ReturnHome
  BY <1>3, ReturnRefines
<1>4. CASE ToggleAccepted
  BY <1>4, AcceptedRefines
<1>5. CASE StoreRequest \/ Arrive
  BY <1>5, StoreRefines
<1> QED
  BY <1>1, <1>2, <1>3, <1>4, <1>5, OtherRefines DEF Next, Update, Toggle

\* requested_teach_mode_ and active_teach_mode_, written by two threads, keep
\* the one protocol that the operator was promised.
THEOREM Refinement == Spec => ImplementsProtocol
<1> QED
  BY InitRefines, StepRefines, Invariance, PTL
     DEF Spec, ImplementsProtocol, Protocol!Spec
=============================================================================
