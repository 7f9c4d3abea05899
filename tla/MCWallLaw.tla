------------------------------- MODULE MCWallLaw -------------------------------
(* One joint with two priorities of the task; a joint without a wall; and a  *)
(* configuration that the constructor refuses.  Blends are in eighths.       *)
EXTENDS WallLaw

Joint == [lower |-> 0, upper |-> 12, activation |-> 3, full_wall_reserve |-> 1,
          startup_clearance |-> 1, prediction |-> 1, outward_task_scale |-> 0,
          wall_stiffness |-> 1, wall_damping |-> 1, wall_torque_cap |-> 24,
          overlay_torque_cap |-> 24, overlay_torque_rate |-> 8,
          force_cap |-> 16, wrench_rate |-> 4]
JointConfigs == {Joint,
                 [Joint EXCEPT !.outward_task_scale = 1],
                 [Joint EXCEPT !.wall_stiffness = 0, !.wall_torque_cap = 0],
                 [Joint EXCEPT !.full_wall_reserve = 3]}
JointSpeeds == {-2, 0, 2}
Wrenches == {-20, 0, 6, 20}
JointTasks == {-24, -5, 0, 24}
=============================================================================
