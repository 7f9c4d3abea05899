---------------------------- MODULE CommandPath -----------------------------
(***************************************************************************)
(* The way of a joint position command from a ros2_control controller to   *)
(* the robot, and of the robot's state back to the controller.             *)
(*                                                                         *)
(*   FRI thread   ClientApplication::step() hands each message to          *)
(*                AsyncClient::onStateChange, monitor, waitForCommand or   *)
(*                command; these fill the state interface, initialize the  *)
(*                command interface and send the buffered command.         *)
(*   CM thread    the controller manager: SystemInterface::read, the       *)
(*                controllers' update, SystemInterface::write.             *)
(*                                                                         *)
(* The threads share the state snapshot, an atomic register (StateSnapshot *)
(* shows that it is one), and command_target_, which nothing protects: it  *)
(* is read and written here joint by joint.                                *)
(*                                                                         *)
(* The joints of the robot, and the joints of a controller's command, move *)
(* together, so that one number stands for either; what the driver mixes   *)
(* from several of them is kept per joint.                                 *)
(***************************************************************************)
EXTENDS Integers

CONSTANTS
  Joints,
  MaxPos,     \* positions are 0 .. MaxPos
  MaxLimit,   \* the guard's position limits are 0 and MaxLimit
  MaxStep,    \* its velocity limit: the largest motion within a sample
  Targets,    \* positions that controllers ask for
  OpenLoops   \* values of the parameter open_loop to consider

ASSUME CommandAssumption ==
  /\ MaxPos \in Nat /\ MaxLimit \in 0 .. MaxPos /\ MaxStep \in Nat
  /\ Targets \subseteq 0 .. MaxPos
  /\ OpenLoops \subseteq BOOLEAN

VARIABLES
  session,             \* the message at hand: session state,
  position,            \*   measured position,
  controlMode,         \*   control mode
  pc,                  \* where the FRI thread is
  onChange,            \* init_command is called by onStateChange
  todo,                \* joints that the FRI thread's loop has yet to visit
  state_,              \* StateInterface::state_.measured_joint_position
  published,           \* session state of the snapshot; "none": uninitialized
  open_loop_,          \* AsyncClient::open_loop_
  command_,            \* BaseCommandInterface: the command sent last,
  command_target_,     \*   the command asked for,
  command_initialized_,
  prev_measured,       \* CommandGuard::prev_measured_joint_position_
  sent,                \* positions in the last message to the robot
  refused,             \* why buffered_command_to_fri threw, or "no"
  cm,                  \* what the CM thread does next, or "error"
  unwritten,           \* joints that write() has yet to copy
  hw_session_state_,
  hw_lbr_command_,
  asked                \* history: where the robot was at the last init_command
                       \*   and what controllers have asked for since then

robotVars == <<session, position, controlMode>>
stateVars == <<state_, published, open_loop_>>
commandVars == <<command_, command_target_, command_initialized_>>
guardVars == <<prev_measured, sent, refused>>
cmVars == <<cm, unwritten, hw_session_state_, hw_lbr_command_>>
vars == <<robotVars, pc, onChange, todo, stateVars, commandVars, guardVars,
          cmVars, asked>>

-----------------------------------------------------------------------------
Session == {"IDLE", "MONITORING", "COMMANDING_WAIT", "COMMANDING_ACTIVE"}
Commanding(s) == s \in {"COMMANDING_WAIT", "COMMANDING_ACTIVE"}

Pos == 0 .. MaxPos
NaN == MaxPos + 1
All(p) == [j \in Joints |-> p]
None == All(NaN)

Distance(a, b) == IF a < b THEN b - a ELSE a - b
Between(a, b) == IF a < b THEN a .. b ELSE b .. a

\* joint_position_filter_.compute: alpha * target + (1 - alpha) * previous
Smooth(target, previous) ==
  IF target = NaN \/ previous = NaN THEN {NaN} ELSE Between(previous, target)

Init ==
  /\ session = "IDLE" /\ position \in 0 .. MaxLimit /\ controlMode = "POSITION"
  /\ pc = "idle" /\ onChange = FALSE /\ todo = {}
  /\ state_ = None /\ published = "none" /\ open_loop_ \in OpenLoops
  /\ command_ = All(0) /\ command_target_ = All(0)
  /\ command_initialized_ = FALSE
  /\ prev_measured = None /\ sent = None /\ refused = "no"
  /\ cm = "read" /\ unwritten = {} /\ hw_session_state_ = "none"
  /\ hw_lbr_command_ = NaN /\ asked = {}

-----------------------------------------------------------------------------
(* The robot *)

\* It opens a session in monitoring, commands only a client that answered in
\* COMMANDING_WAIT, changes its control mode outside of these two states only,
\* and keeps within the position and velocity limits.
RobotMayReport(s, p, m) ==
  /\ session = "IDLE" => s = "MONITORING"
  /\ s = "COMMANDING_ACTIVE" => Commanding(session)
  /\ Distance(position, p) <= MaxStep
  /\ m # controlMode => ~ Commanding(s)

\* step() receives a message.  The run thread ends after IDLE and, once read()
\* has requested it, before the next step.
Receive(s, p, m) ==
  /\ pc = "idle" /\ cm # "error"
  /\ RobotMayReport(s, p, m)
  /\ session' = s /\ position' = p /\ controlMode' = m
  /\ pc' = IF s # session THEN "change" ELSE "callback"
  /\ UNCHANGED <<onChange, todo, stateVars, commandVars, guardVars, cmVars,
                 asked>>

-----------------------------------------------------------------------------
(* AsyncClient's callbacks *)

SetState(p) == state_' = p /\ published' = session

\* Plausible bug: init_command() returns early if there is a command already.
BeginInitOnce(change) ==
  /\ onChange' = change
  /\ IF command_initialized_
       THEN pc' = (IF change THEN "callback" ELSE "check") /\ todo' = {}
       ELSE pc' = "init" /\ todo' = Joints
  /\ asked' = {position, hw_lbr_command_} \ {NaN}

\* The callback goes on with init_command.
BeginInit(change) ==
  /\ pc' = "init" /\ onChange' = change /\ todo' = Joints
  /\ asked' = {position, hw_lbr_command_} \ {NaN}

\* onStateChange, up to init_command
OnStateChange ==
  /\ pc = "change"
  /\ SetState(All(position))
  /\ BeginInit(TRUE)
  /\ UNCHANGED <<robotVars, open_loop_, commandVars, guardVars, cmVars>>

Monitor ==
  /\ pc = "callback" /\ session = "MONITORING"
  /\ SetState(All(position))
  /\ pc' = "idle"
  /\ UNCHANGED <<robotVars, onChange, todo, open_loop_, commandVars, guardVars,
                 cmVars, asked>>

\* The run thread leaves its loop and uninitializes the state.
Leave ==
  /\ pc = "callback" /\ session = "IDLE"
  /\ pc' = "done"
  /\ published' = "none"
  /\ UNCHANGED <<robotVars, onChange, todo, state_, open_loop_, commandVars,
                 guardVars, cmVars, asked>>

\* waitForCommand, up to init_command
WaitForCommand ==
  /\ pc = "callback" /\ session = "COMMANDING_WAIT"
  /\ SetState(All(position))
  /\ BeginInit(FALSE)
  /\ UNCHANGED <<robotVars, open_loop_, commandVars, guardVars, cmVars>>

\* command(), up to buffered_command_to_fri: impedance control closes the loop.
Command ==
  /\ pc = "callback" /\ session = "COMMANDING_ACTIVE"
  /\ open_loop_' = (open_loop_ /\ controlMode # "IMPEDANCE")
  /\ SetState(IF open_loop_' THEN command_ ELSE All(position))
  /\ pc' = "check"
  /\ UNCHANGED <<robotVars, onChange, todo, commandVars, guardVars, cmVars,
                 asked>>

-----------------------------------------------------------------------------
(* BaseCommandInterface::init_command *)

\* One joint of a loop whose last iteration takes the thread from from to to
Visit(j, from, to) ==
  /\ pc = from /\ j \in todo
  /\ pc' = IF todo = {j} THEN to ELSE from
  /\ todo' = IF todo = {j} /\ from = "init" THEN Joints ELSE todo \ {j}

\* Plausible bug: the target keeps its old position.
InitTargetForgotten(j) ==
  /\ Visit(j, "init", "initCommand")
  /\ UNCHANGED <<robotVars, onChange, stateVars, commandVars, guardVars, cmVars,
                 asked>>

\* command_target_.joint_position = state.measured_joint_position
InitTarget(j) ==
  /\ Visit(j, "init", "initCommand")
  /\ command_target_' = [command_target_ EXCEPT ![j] = state_[j]]
  /\ UNCHANGED <<robotVars, onChange, stateVars, command_,
                 command_initialized_, guardVars, cmVars, asked>>

\* command_ = command_target_, read back from the shared member
InitCommand(j) ==
  /\ Visit(j, "initCommand", IF onChange THEN "callback" ELSE "check")
  /\ command_' = [command_ EXCEPT ![j] = command_target_[j]]
  /\ command_initialized_' = TRUE
  /\ UNCHANGED <<robotVars, onChange, stateVars, command_target_, guardVars,
                 cmVars, asked>>

-----------------------------------------------------------------------------
(* PositionCommandInterface::buffered_command_to_fri *)

Throw(why) == refused' = why /\ pc' = "dead"

\* The robot is in another client command mode than position, or the filter
\* refuses its time constant: the call throws before it does anything else.
CheckFails ==
  /\ pc = "check"
  /\ Throw("mode")
  /\ UNCHANGED <<robotVars, onChange, todo, stateVars, commandVars,
                 prev_measured, sent, cmVars, asked>>

\* Without init_command the call throws.  A target with a NaN is not used.
CheckTarget ==
  /\ pc = "check"
  /\ IF ~ command_initialized_ THEN Throw("uninitialized") /\ UNCHANGED todo
     ELSE /\ UNCHANGED refused
          /\ IF \E j \in Joints : command_target_[j] = NaN
               THEN pc' = "guard" /\ UNCHANGED todo
               ELSE pc' = "filter" /\ todo' = Joints
  /\ UNCHANGED <<robotVars, onChange, stateVars, commandVars, prev_measured,
                 sent, cmVars, asked>>

\* The filter reads the target again.
FilterTarget(j) ==
  /\ Visit(j, "filter", "guard")
  /\ \E p \in Smooth(command_target_[j], command_[j]) :
       command_' = [command_ EXCEPT ![j] = p]
  /\ UNCHANGED <<robotVars, onChange, stateVars, command_target_,
                 command_initialized_, guardVars, cmVars, asked>>

\* CommandGuard; a comparison with NaN is false.
InPositionLimits ==
  \A j \in Joints : command_[j] = NaN \/ command_[j] <= MaxLimit

InVelocityLimits ==
  \A j \in Joints : \/ prev_measured[j] = NaN \/ state_[j] = NaN
                    \/ Distance(prev_measured[j], state_[j]) <= MaxStep

\* "Invalid command." is thrown out of the run thread: the process ends.
GuardRefuses ==
  /\ pc = "guard"
  /\ ~ (InPositionLimits /\ InVelocityLimits)
  /\ Throw(IF InPositionLimits THEN "velocity" ELSE "position")
  /\ UNCHANGED <<robotVars, onChange, todo, stateVars, commandVars,
                 prev_measured, sent, cmVars, asked>>

Send ==
  /\ pc = "guard"
  /\ InPositionLimits /\ InVelocityLimits
  /\ prev_measured' = state_
  /\ sent' = command_
  /\ pc' = "idle"
  /\ UNCHANGED <<robotVars, onChange, todo, stateVars, commandVars, refused,
                 cmVars, asked>>

-----------------------------------------------------------------------------
(* The cycle of the controller manager: read, update, write *)

fri == <<robotVars, pc, onChange, todo, stateVars, command_,
         command_initialized_, guardVars>>

LeftCommandingActive ==
  hw_session_state_ = "COMMANDING_ACTIVE" /\ published # "COMMANDING_ACTIVE"

\* read() of an uninitialized state changes nothing.
ReadNothing ==
  /\ cm = "read" /\ published = "none"
  /\ cm' = "update"
  /\ UNCHANGED <<fri, command_target_, unwritten, hw_session_state_,
                 hw_lbr_command_, asked>>

Read ==
  /\ cm = "read" /\ published # "none" /\ ~ LeftCommandingActive
  /\ hw_session_state_' = published
  /\ cm' = "update"
  /\ UNCHANGED <<fri, command_target_, unwritten, hw_lbr_command_, asked>>

\* "LBR left COMMANDING_ACTIVE": the App is told to stop.
ReadExit ==
  /\ cm = "read" /\ published # "none" /\ LeftCommandingActive
  /\ cm' = "error"
  /\ UNCHANGED <<fri, command_target_, unwritten, hw_session_state_,
                 hw_lbr_command_, asked>>

\* Controllers keep the command, or ask for another position.
Update ==
  /\ cm = "update"
  /\ hw_lbr_command_' \in {hw_lbr_command_} \cup Targets
  /\ asked' = asked \cup ({hw_lbr_command_'} \ {NaN})
  /\ cm' = "write"
  /\ unwritten' = Joints
  /\ UNCHANGED <<fri, command_target_, hw_session_state_>>

WriteNothing ==
  /\ cm = "write" /\ hw_session_state_ # "COMMANDING_ACTIVE"
  /\ cm' = "read"
  /\ unwritten' = {}
  /\ UNCHANGED <<fri, command_target_, hw_session_state_, hw_lbr_command_,
                 asked>>

\* Plausible bug: write() does not look at the session state.
WriteAlways(j) ==
  /\ cm = "write" /\ j \in unwritten
  /\ command_target_' = [command_target_ EXCEPT ![j] = hw_lbr_command_]
  /\ unwritten' = unwritten \ {j}
  /\ cm' = IF unwritten = {j} THEN "read" ELSE "write"
  /\ UNCHANGED <<fri, hw_session_state_, hw_lbr_command_, asked>>

\* buffer_command_target: one joint of command_target_ = command
Write(j) ==
  /\ cm = "write" /\ hw_session_state_ = "COMMANDING_ACTIVE"
  /\ j \in unwritten
  /\ command_target_' = [command_target_ EXCEPT ![j] = hw_lbr_command_]
  /\ unwritten' = unwritten \ {j}
  /\ cm' = IF unwritten = {j} THEN "read" ELSE "write"
  /\ UNCHANGED <<fri, hw_session_state_, hw_lbr_command_, asked>>

-----------------------------------------------------------------------------
ReceiveAny ==
  \E s \in Session, p \in 0 .. MaxLimit, m \in {"POSITION", "IMPEDANCE"} :
    Receive(s, p, m)

FriStep ==
  \/ OnStateChange \/ Monitor \/ Leave \/ WaitForCommand \/ Command
  \/ CheckFails \/ CheckTarget \/ GuardRefuses \/ Send
  \/ \E j \in Joints : InitTarget(j) \/ InitCommand(j) \/ FilterTarget(j)

CmStep ==
  \/ ReadNothing \/ Read \/ ReadExit \/ Update \/ WriteNothing
  \/ \E j \in Joints : Write(j)

\* A refused command ends the process, the CM thread with it.
Next == ReceiveAny \/ FriStep \/ (pc # "dead" /\ CmStep)

Spec == Init /\ [][Next]_vars

-----------------------------------------------------------------------------
(* Properties *)

\* Each joint that is sent lies between where the robot was at the last
\* init_command and what controllers asked for then or since: of the targets
\* that write() mixes joint by joint, while init_command, the check and the
\* filter read them, none is older, even if write() goes on storing them after
\* the robot has left the session they were meant for and entered another.
SentWithinAsked ==
  pc = "idle" /\ Commanding(session) =>
    \A j \in Joints :
      sent[j] = NaN \/ \E a, b \in asked : a <= sent[j] /\ sent[j] <= b

\* What is sent in COMMANDING_WAIT is the position the robot is at, as long as
\* read() has not taken the robot to be in COMMANDING_ACTIVE.
WaitMirrorsRobot ==
  /\ pc = "idle" /\ session = "COMMANDING_WAIT"
  /\ hw_session_state_ # "COMMANDING_ACTIVE"
  => sent = All(position)

\* The robot does not move before a controller asks for it: the command is
\* initialized with the position the robot is at, and stays there (or NaN)
\* however the initialization, the filter and write() interleave.
HoldsWithoutTarget ==
  [][hw_lbr_command_ = NaN /\ Commanding(session) =>
       \A j \in Joints :
         \/ command_'[j] = NaN
         \/ command_'[j] = IF pc = "initCommand" /\ j \notin todo'
                             THEN position ELSE command_[j]]_vars

\* Only a target without NaN is written to the command, "else use internal
\* command_" (position_command.cpp:45-46): the robot is never sent a NaN once
\* it has been sent a command.
NaNNeverSent == pc = "idle" /\ Commanding(session) => \A j \in Joints : sent[j] # NaN
=============================================================================
