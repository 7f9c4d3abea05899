----------------------------- MODULE MCMediaFlange -----------------------------
EXTENDS MediaFlange

\* lbr_system_interface.xacro, with two joints.
MCJoint(n) == [name |-> n, limits |-> "ok", commands |-> <<"position", "effort">>,
            states |-> <<"position", "velocity", "effort", "commanded_joint_position",
                         "commanded_torque", "external_torque", "ipo_joint_position">>]
MCAxes == <<"force.x", "force.y", "force.z", "torque.x", "torque.y", "torque.z">>
MCAuxiliary == <<"sample_time", "session_state", "connection_quality", "safety_state",
                 "operation_mode", "drive_state", "client_command_mode", "overlay_type",
                 "control_mode", "time_stamp_sec", "time_stamp_nano_sec",
                 "tracking_performance">>
MCWrench == [name |-> "wrench", commands |-> MCAxes]
MCDescription ==
  [base |-> TRUE, major |-> 1, mode |-> "position", port |-> 30200, parameters |-> "ok",
   variant |-> "default", chain |-> TRUE,
   joints |-> <<MCJoint("A1"), MCJoint("A2")>>,
   sensors |-> <<[name |-> "auxiliary_sensor", states |-> MCAuxiliary],
                 [name |-> "estimated_ft_sensor", parameters |-> "ok", enabled |-> TRUE,
                  states |-> MCAxes]>>,
   gpios |-> <<MCWrench>>]

\* One thing written differently.
MCDescriptions ==
  LET D == MCDescription
      J == MCJoint("A2")
      joints(j) == [D EXCEPT !.joints = Append(Front(@), j)]
      withStates(s) == joints([J EXCEPT !.states = s])
      withCommands(s) == joints([J EXCEPT !.commands = s])
      estimator(e) == [D EXCEPT !.sensors[2] = e]
  IN {D,
      [D EXCEPT !.base = FALSE], [D EXCEPT !.major = 2], [D EXCEPT !.mode = "other"],
      [D EXCEPT !.mode = "wrench"], [D EXCEPT !.port = 30210],
      [D EXCEPT !.parameters = "out_of_range"], [D EXCEPT !.parameters = "invalid_argument"],
      [D EXCEPT !.variant = "other"], [D EXCEPT !.chain = FALSE],
      [D EXCEPT !.joints = Front(@)], [D EXCEPT !.joints = Append(@, MCJoint("A3"))],
      joints([J EXCEPT !.limits = "out_of_range"]),
      withCommands(<<"position">>), withCommands(<<"position", "velocity">>),
      withCommands(<<"effort", "effort">>),
      withStates(Front(J.states)), withStates(Append(Front(J.states), "acceleration")),
      withStates(Append(Front(J.states), "position")),
      [D EXCEPT !.sensors = Front(@)], [D EXCEPT !.sensors = Append(@, @[2])],
      [D EXCEPT !.sensors[1].name = "other"], [D EXCEPT !.sensors[1].states = Front(@)],
      [D EXCEPT !.sensors[1].states = Append(Front(@), "external_torque")],
      estimator([D.sensors[2] EXCEPT !.parameters = "invalid_argument"]),
      estimator([D.sensors[2] EXCEPT !.name = "other"]),
      estimator([D.sensors[2] EXCEPT !.states = Front(@)]),
      estimator([D.sensors[2] EXCEPT !.enabled = FALSE, !.states = <<>>]),
      [D EXCEPT !.gpios = <<>>], [D EXCEPT !.gpios[1].name = "other"],
      [D EXCEPT !.gpios[1].commands = Front(@)],
      [D EXCEPT !.gpios[1].commands = Append(Front(@), "stiffness")]}
=============================================================================
