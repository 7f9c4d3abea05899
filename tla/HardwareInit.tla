------------------------------ MODULE HardwareInit ------------------------------
(***************************************************************************)
(* SystemInterface::on_init() of a hardware description, and the           *)
(* interfaces that export_state_interfaces() and                           *)
(* export_command_interfaces() hand to the resource manager.               *)
(*                                                                         *)
(* on_init() uses joints and sensors by index before it verifies them.  A  *)
(* parameter that is not there or is no number leaves by an exception,     *)
(* which only parse_parameters_() and the construction of the client       *)
(* catch; an index past the end may do anything, here stop or go on.       *)
(***************************************************************************)
EXTENDS Integers, Sequences, SequencesExt

CONSTANTS
  Descriptions,  \* hardware descriptions (URDF)
  NJoints,       \* N_JNTS
  FriMajor       \* FRI_CLIENT_VERSION_MAJOR

ASSUME HardwareAssumption == NJoints \in Nat \ {0} /\ FriMajor \in {1, 2}

VARIABLES
  info,      \* the hardware description
  stage,     \* where on_init() is, or how it ended
  driver,    \* the parts that it made: "client", "estimator", "service"
  states, commands  \* exported interfaces

initVars == <<info, stage, driver, states, commands>>

\* Conversions of parameters that are there: "ok", "out_of_range" (not there,
\* or too large), "invalid_argument".
Converted(outcome) == outcome = "ok"

JointStates == {"position", "effort", "commanded_torque", "external_torque",
                "ipo_joint_position", "velocity"}
                 \union IF FriMajor = 1 THEN {"commanded_joint_position"} ELSE {}
JointCommands == {"position", "effort"}
AuxiliaryStates == {"sample_time", "session_state", "connection_quality", "safety_state",
                    "operation_mode", "drive_state", "client_command_mode", "overlay_type",
                    "control_mode", "time_stamp_sec", "time_stamp_nano_sec",
                    "tracking_performance"}
\* Accepted of the auxiliary sensor, but not exported for it.
AuxiliaryExtra == {"commanded_joint_position", "commanded_torque", "external_torque",
                   "ipo_joint_position"}
Cartesian == {"force.x", "force.y", "force.z", "torque.x", "torque.y", "torque.z"}

InitInit ==
  /\ info \in Descriptions
  /\ stage = "on_init" /\ driver = {} /\ states = {} /\ commands = {}

Go(s) == stage' = s /\ UNCHANGED <<info, states, commands>>
Fails(s) == Go(s) /\ UNCHANGED driver

-----------------------------------------------------------------------------
(* on_init(), in the order of the code *)

BaseOnInit ==
  /\ stage = "on_init" /\ UNCHANGED driver
  /\ Go(IF info.base THEN "parse" ELSE "error")

ParametersValid ==
  /\ info.major = FriMajor
  /\ info.mode \in {"position", "torque", "wrench"}
  /\ info.port \in 30200 .. 30209

\* Catches std::out_of_range and no other exception.
Parse ==
  /\ stage = "parse" /\ UNCHANGED driver
  /\ \/ info.parameters = "invalid_argument" /\ Go("thrown")
     \/ (info.parameters = "out_of_range" \/ ~ ParametersValid) /\ Go("error")
     \/ Converted(info.parameters) /\ ParametersValid /\ Go("guard")

Joint(i) == info.joints[i]

\* Fills arrays of NJoints elements from all joints.
GuardParameters ==
  /\ stage = "guard" /\ UNCHANGED driver
  /\ \/ /\ \E i \in DOMAIN info.joints : ~ Converted(Joint(i).limits)
        /\ Go("thrown")
     \/ Len(info.joints) > NJoints /\ Go("undefined")
     \/ /\ \A i \in DOMAIN info.joints : Converted(Joint(i).limits)
        /\ Go("client")

\* The guard's variant is looked up by the command interface's constructor.
CreateClient ==
  /\ stage = "client"
  /\ \/ info.variant \notin {"default", "safe_stop"} /\ Fails("error")
     \/ /\ info.variant \in {"default", "safe_stop"}
        /\ driver' = driver \union {"client"} /\ Go("estimator")

Estimator == info.sensors[2]
Enabled == Estimator.enabled

\* chain_root and chain_tip have to name links of the robot.
CreateEstimator ==
  /\ stage = "estimator"
  /\ \/ Len(info.sensors) < 2 /\ Fails("undefined")
     \/ /\ Len(info.sensors) >= 2
        /\ ~ Converted(Estimator.parameters) \/ (Enabled /\ ~ info.chain)
        /\ Fails("thrown")
     \/ /\ Len(info.sensors) >= 2
        /\ Converted(Estimator.parameters) /\ (Enabled => info.chain)
        /\ driver' = driver \union (IF Enabled THEN {"estimator"} ELSE {})
        /\ Go("verify")

NumberOfJoints == Len(info.joints) = NJoints
JointCommandInterfaces ==
  \A i \in DOMAIN info.joints :
    Len(Joint(i).commands) = 2 /\ ToSet(Joint(i).commands) \subseteq JointCommands
\* Plausible bug: the names are not looked at.
JointStateInterfacesCounted ==
  \A i \in DOMAIN info.joints : Len(Joint(i).states) = IF FriMajor = 1 THEN 7 ELSE 6
\* A name that only another version of FRI exports is accepted too.
JointStateInterfaces ==
  \A i \in DOMAIN info.joints :
    /\ Len(Joint(i).states) = IF FriMajor = 1 THEN 7 ELSE 6
    /\ ToSet(Joint(i).states) \subseteq JointStates \union {"commanded_joint_position"}
AuxiliarySensor ==
  /\ info.sensors[1].name = "auxiliary_sensor" /\ Len(info.sensors[1].states) = 12
  /\ ToSet(info.sensors[1].states) \subseteq AuxiliaryStates \union AuxiliaryExtra
EstimatedFtSensor ==
  /\ Estimator.name = "estimated_ft_sensor" /\ Len(Estimator.states) = 6
  /\ ToSet(Estimator.states) \subseteq Cartesian
Sensors == Len(info.sensors) = 2 /\ AuxiliarySensor /\ (Enabled => EstimatedFtSensor)
\* The commands of the wrench are counted, their names are not looked at.
Gpios ==
  /\ Len(info.gpios) = 1
  /\ info.gpios[1].name = "wrench" /\ Len(info.gpios[1].commands) = 6

Verify ==
  /\ stage = "verify" /\ UNCHANGED driver
  /\ LET verified == /\ NumberOfJoints /\ JointCommandInterfaces /\ JointStateInterfaces
                     /\ Sensors /\ Gpios
     IN Go(IF verified THEN "service" ELSE "error")

\* Node, service, executor and the thread that will spin it.
CreateService ==
  /\ stage = "service"
  /\ driver' = driver \union {"service"} /\ Go("up")

-----------------------------------------------------------------------------
(* Exported interfaces: <<prefix, name>> *)

JointNames == {Joint(i).name : i \in DOMAIN info.joints}

Export ==
  /\ stage = "up" /\ stage' = "exported"
  /\ states' = (JointNames \X JointStates)
                 \union ({"auxiliary_sensor"} \X AuxiliaryStates)
                 \union (IF Enabled THEN {"estimated_ft_sensor"} \X Cartesian ELSE {})
  /\ commands' = (JointNames \X JointCommands) \union ({"wrench"} \X Cartesian)
  /\ UNCHANGED <<info, driver>>

OnInit ==
  \/ BaseOnInit \/ Parse \/ GuardParameters \/ CreateClient \/ CreateEstimator
  \/ Verify \/ CreateService \/ Export

Ended == {"error", "thrown", "undefined"}
=============================================================================
