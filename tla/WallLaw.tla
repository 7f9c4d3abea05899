-------------------------------- MODULE WallLaw --------------------------------
(***************************************************************************)
(* CartesianWallController for one joint and one axis of the wrench: the   *)
(* wall, its priority over the task, the caps and the two slew limits,     *)
(* from activation on.                                                     *)
(*                                                                         *)
(* Integers: the smoothstep of the wall over a width w is w^3 where it is  *)
(* one, and torques are in units of 1 / w^3.  The task torque              *)
(* J^T (K error - D twist) is an input, and so are angle, speed, interval. *)
(* An axis of the wrench (J J^T + l^2 I)^-1 J tau mixes the torques of all *)
(* seven joints, so that it may be anything for a torque of this joint: it *)
(* is an input, too, and nothing here relates its sign to the wall's.      *)
(***************************************************************************)
EXTENDS Integers

CONSTANTS
  Configs,  \* configurations that load_config() may read
  Speeds,   \* joint speeds
  Tasks,    \* task torques
  Mapped,   \* wrenches that the joints' torques are mapped to
  Intervals \* times between updates, which update() wants positive

ASSUME LawAssumption ==
  /\ Configs \subseteq [lower : Int, upper : Int, activation : Int, full_wall_reserve : Int,
                        startup_clearance : Int, prediction : Int, outward_task_scale : Int,
                        wall_stiffness : Int, wall_damping : Int, wall_torque_cap : Int,
                        overlay_torque_cap : Int, overlay_torque_rate : Int,
                        force_cap : Int, wrench_rate : Int]
  /\ Speeds \subseteq Int /\ Tasks \subseteq Int /\ Mapped \subseteq Int
  /\ Intervals \subseteq Nat \ {0}

VARIABLES
  config, active,
  previous_command, previous_wrench,
  wall,     \* torque of the wall in the last update
  start     \* angle of a start whose first update is to come, else NoStart

lawVars == <<config, active, previous_command, previous_wrench, wall, start>>

NoStart == -1000

Larger(a, b) == IF a > b THEN a ELSE b
Smaller(a, b) == IF a < b THEN a ELSE b
Clamp(x, low, high) == Larger(low, Smaller(x, high))
Abs(x) == IF x < 0 THEN -x ELSE x

\* CartesianWallConfig::validate()
Valid(c) ==
  /\ c.activation > c.full_wall_reserve /\ c.full_wall_reserve > 0
  /\ c.prediction >= 0 /\ c.startup_clearance >= 0 /\ c.outward_task_scale \in {0, 1}
  /\ c.force_cap > 0 /\ c.wrench_rate > 0
  /\ c.upper - c.lower > 2 * (c.activation + c.startup_clearance)
  /\ c.wall_stiffness >= 0 /\ c.wall_damping >= 0 /\ c.wall_torque_cap >= 0
  /\ c.overlay_torque_cap >= 0 /\ c.overlay_torque_rate > 0

Reset == previous_command' = 0 /\ previous_wrench' = 0

\* The constructor throws unless the configuration is valid.
LawInit ==
  /\ config \in {c \in Configs : Valid(c)}
  /\ active = FALSE /\ previous_command = 0 /\ previous_wrench = 0
  /\ wall = 0 /\ start = NoStart

Angles == config.lower + 1 .. config.upper - 1

\* Plausible bug: the clearance is not asked for on top of the wall.
MayStartNear(q) ==
  config.wall_stiffness > 0 => /\ q > config.lower + config.startup_clearance
                               /\ q < config.upper - config.startup_clearance

Margin == config.activation + config.startup_clearance

\* validate_startup(); a joint without stiffness has no wall.
MayStart(q) ==
  config.wall_stiffness > 0 => /\ q > config.lower + Margin
                               /\ q < config.upper - Margin

\* The torque of the wall at the lower (-1) or upper (1) limit, towards the inside.
WallOf(side, q, dq) ==
  LET distance == IF side > 0 THEN config.upper - q ELSE q - config.lower
      outward_speed == Larger(0, side * dq)
      penetration == Larger(0, config.activation - distance
                                 + config.prediction * outward_speed)
      width == config.activation - config.full_wall_reserve
      x == Clamp(Smaller(penetration, config.activation), 0, width)
      blend == x * x * (3 * width - 2 * x)
  IN - side * blend * (config.wall_stiffness * penetration
                         + config.wall_damping * outward_speed)

Wall(q, dq) ==
  Clamp(WallOf(-1, q, dq) + WallOf(1, q, dq),
        - config.wall_torque_cap, config.wall_torque_cap)

Priority(task, w) == IF w # 0 /\ task * w < 0 THEN task * config.outward_task_scale ELSE task

\* Plausible bug: the residual is slewed like any other command.
CommandSlewed(task, w, dt) ==
  LET raw == Clamp(Priority(task, w) + w,
                   - config.overlay_torque_cap, config.overlay_torque_cap)
      delta == config.overlay_torque_rate * dt
  IN Clamp(raw, previous_command - delta, previous_command + delta)

\* Rate-limited, then an outward residual is cut for the wall.
Command(task, w, dt) ==
  LET raw == Clamp(Priority(task, w) + w,
                   - config.overlay_torque_cap, config.overlay_torque_cap)
      delta == config.overlay_torque_rate * dt
      commanded == Clamp(raw, previous_command - delta, previous_command + delta)
  IN IF w # 0 /\ commanded * w < 0 THEN 0 ELSE commanded

\* Plausible bug: the cap is left to the slew limit.
WrenchUncapped(mapped, dt) ==
  LET delta == config.wrench_rate * dt
  IN Clamp(mapped, previous_wrench - delta, previous_wrench + delta)

\* Of the mapped wrench: capped, then rate-limited.
Wrench(mapped, dt) ==
  LET raw == Clamp(mapped, - config.force_cap, config.force_cap)
      delta == config.wrench_rate * dt
  IN Clamp(raw, previous_wrench - delta, previous_wrench + delta)

Activate ==
  /\ ~ active /\ active' = TRUE /\ Reset
  /\ start' \in {q \in Angles : MayStart(q)}
  /\ UNCHANGED <<config, wall>>

\* Any callback may end a segment, before its first update too.
Deactivate ==
  /\ active /\ active' = FALSE /\ Reset
  /\ wall' = 0 /\ start' = NoStart
  /\ UNCHANGED config

\* The first update has the sample of the start, taken with a new velocity
\* estimate; an invalid input throws and changes nothing.
Update ==
  /\ active
  /\ \E q \in Angles, dq \in Speeds, task \in Tasks, mapped \in Mapped,
        dt \in Intervals :
       /\ start # NoStart => q = start /\ dq = 0
       /\ wall' = Wall(q, dq)
       /\ previous_command' = Command(task, wall', dt)
       /\ previous_wrench' = Wrench(mapped, dt)
  /\ start' = NoStart
  /\ UNCHANGED <<config, active>>

LawNext == Activate \/ Deactivate \/ Update

LawSpec == LawInit /\ [][LawNext]_lawVars

-----------------------------------------------------------------------------

\* However the slew limits, the cut and the wall act together, neither torque
\* nor wrench ever leaves its cap (the three clamps of update()).
WithinCaps ==
  /\ Abs(previous_command) <= config.overlay_torque_cap
  /\ Abs(previous_wrench) <= config.force_cap
  /\ Abs(wall) <= config.wall_torque_cap

\* A segment starts without a wall and from a zero wrench, whatever the last one
\* ended with: a start is never felt as a push (validate_startup(), activate()).
StartsGently ==
  [][start # NoStart /\ active'
       => /\ wall' = 0
          /\ \E dt \in Intervals : Abs(previous_wrench') <= config.wrench_rate * dt]_lawVars

\* "A newly active wall may cut a previously rate-limited outward command
\* directly to zero" (CARTESIAN_WALL.md:17): no torque is commanded against a
\* wall that is felt, and nothing else breaks the rate limit.  Once cut, the
\* command cannot turn outward again while that wall lasts, so that the limit
\* gives way in the first update with a wall only.
OnlyNewWallCuts ==
  [][active /\ active' =>
       /\ wall' * previous_command' >= 0
       /\ \/ \E dt \in Intervals :
               Abs(previous_command' - previous_command)
                 <= config.overlay_torque_rate * dt
          \/ /\ previous_command' = 0 /\ wall' * previous_command < 0
             /\ wall' * wall <= 0]_lawVars
=============================================================================
