# Formal model of the KUKA iiwa FRI teleoperation stack

TLA+ specifications of this repository's concurrent core, TLC configurations
that check them on small instances and TLAPS proofs. File names below are
relative to `src/`.

## 1. Inventory

| Component | Where | State | Operations | Talks to |
|---|---|---|---|---|
| State snapshot | `lbr_fri_ros2/.../state_snapshot.hpp` | three slots, exchange word, reader mutex | `publish`, `read` | FRI thread writes; ros2_control, estimator and services read |
| State interface | `lbr_fri_ros2/.../interfaces/state.*` | `state_`, `state_initialized_`, filters | `set_state`, `set_state_open_loop`, `get_state`, `uninitialize` | filled by AsyncClient, read by SystemInterface |
| Worker, App, FTEstimator | `lbr_fri_ros2/src/{worker,app,ft_estimator}.cpp` | `should_stop_`, `running_`, thread handle, UDP socket | `run_async`, `request_stop`, `open/close_udp_socket`, run threads | started and stopped by SystemInterface |
| AsyncClient | `lbr_fri_ros2/src/async_client.cpp` | `open_loop_`, media flange command and readback | FRI callbacks, `toggle_media_flange_output1` | called by the FRI SDK's `step()` |
| Command interfaces, guard, filter | `lbr_fri_ros2/src/interfaces/*_command.cpp`, `command_guard.cpp`, `filters.cpp` | `command_`, `command_target_`, `prev_measured_joint_position_` | `init_command`, `buffer_command_target`, `buffered_command_to_fri` | FRI thread and control loop share `command_target_` |
| System interface | `lbr_ros2_control/src/system_interface.cpp` | `hw_*` copies, `hw_session_state_`, media flange service thread | lifecycle callbacks, `read`, `write` | controller manager above, App and AsyncClient below |
| Admittance controller (teach mode) | `lbr_ros2_control/src/controllers/admittance_controller.cpp` | mode and requested mode, integrators, session edge | `update`, toggle service, activation | ros2_control, a service thread |
| Twist controller | `.../twist_controller.cpp` | last twist, updates since the last command | `update`, subscription | ros2_control |
| Forward command controllers | `.../lbr_{joint_position,torque,wrench}_command_controller.cpp` | real-time buffers | `update`, subscription, activation | ros2_control |
| State broadcaster | `.../lbr_state_broadcaster.cpp` | the message of its real-time publisher | `update`, activation | ros2_control, the telemetry bridge |
| Media flange output | `async_client.cpp`, `system_interface.cpp` | requested value, readback, service thread | toggle service, `update_media_flange_output1_` | a service caller, the FRI thread, the robot |
| Cartesian wall client | `lbr_demos/lbr_demos_cpp/src/fri_cartesian_wall_client.cpp`, `cartesian_wall_controller.hpp` | run request, authorization, fault latch, output, sample history | FRI callbacks, START/STOP service | the Sunrise application through a digital output |
| Sunrise overlay | `lbr_demos/lbr_demos_cpp/sunrise/FRICartesianWall.java` | hold motion, overlay, last output, lockout | polling loop, start and stop of the overlay | the client, over FRI |
| Telemetry bridge | `lbr_bringup/lbr_bringup/telemetry_timing.py`, `scripts/admittance_telemetry_bridge` | clock offset, segment, last position | `map`, `_on_state` | the broadcaster's topic, derived topics |
| Keyboard teleoperation | `lbr_demos/lbr_moveit/` | pressed keys | key listener, publishing timer | twist controller or MoveIt Servo |

Left aside: URDFs, meshes, MoveIt configuration and launch files (data without
state), and the demos that publish one message per timer tick.

**Hard behaviours.** A real-time thread that the FRI SDK blocks in `step()`
shares memory with the control loop without a common lock (torn and stale data,
wait-freedom). The driver's threads are started, stopped, detached and joined
through two flags by callbacks that run at any point of the session's life
(lost stops, two producers, unbounded waits, `std::terminate`). The session
changes under the code that acts on it: monitoring, commanding, idle, and back.
Toggle services change the mode that a real-time loop is executing. The robot
and the Cartesian wall client agree on START and STOP through one bit that
either side may miss. `PROJECT.json` lists each of these as a hazard at its
line, with the property that covers it.

**What makes each component correct.** *Snapshot*: every read is one whole
published state, no older than the call, and neither side waits for the other.
*Lifecycle*: one FRI producer at a time; nothing of a connection outlives its
deactivation; every wait ends; the process survives legal lifecycle calls; a robot
that leaves COMMANDING_ACTIVE ends the activation. *Command path*: the robot is
sent positions between its own and what controllers asked for, its own until one
asks, and never a NaN. *Teach mode*: joints move only in a mode an operator asked
for; return home ends in a hold. *Cartesian wall*: no wrench without a START that
is still valid; STOP and every fault end it; a STOP never becomes a START; torque
and wrench within their caps, gentle at a start and never against a wall that is
felt. *Command controllers*: a message moves the robot until the watchdog ends it
and never again after a newer one or an activation. *Initialization*: what is
verified is what is exported, with the exceptions of section 5. *Media flange*: no
accepted request is lost, and none is served by what is gone. *Telemetry*: each
packet is shown once, with its own velocity, stamped no later than it arrived.

## 2. Plan

Done, in this order:

1. `SnapshotRegister`, `StateSnapshot`, with the refinement proved.
2. `DriverLifecycle`: SystemInterface with its workers, with its safety proved.
3. `CommandPath`: AsyncClient, state and command interfaces, guard, read and
   write (it uses the register that 1. establishes), with its safety proved.
4. `TeachProtocol`, `TeachMode`: the admittance controller's modes against its
   toggle service, with the refinement proved.
5. `CartesianWallClient` and `SunriseOverlay`, composed in `CartesianWall` over
   the output bit and the FRI session; `WallLaw`, the arithmetic of the wall; the
   safety of both proved.
6. `CommandControllers`: the twist and the forward controllers on their buffers,
   with its properties proved.
7. `HardwareInit` and, extending it, `MediaFlange`: the component from its
   description on, and the toggle service, with its safety proved.
8. `TimeMapper`, a pure algorithm, and `Telemetry`, which composes it with
   `read()`, the broadcaster and the bridge, with its properties proved.

Every safety property that a run checks is proved. Left, in the order of their
use: the wrench and torque command interfaces in `CommandPath`, with the
theorems about it extended to them; a theorem that `DriverLifecycle` gives
`StateSnapshot` the single producer it assumes, as a refinement; the keyboard
demo.

## 3. Modules and runs

### State snapshot

`SnapshotRegister` is the promise: a read takes effect atomically between its
call and its return. `StateSnapshot` is `state_snapshot.hpp` with one action per
atomic operation and per word of a copied state (`StoreWord`, `CopyWord`): the
producer's store into its slot and its exchange, the readers' lock, load,
exchange, copy and unlock. A state `T` is reduced to the number of the publish
that wrote each of its words. `Register` is the refinement mapping; a read
takes effect at its load if nothing is unread, else at its exchange.

Run `snapshot` (two readers, two words, three publications): `SlotOwnership`,
`NoTornRead`, `LatestReachable`, the refinement `ImplementsRegister`, and
`PublishWaitFree` and `ReadWaitFree`. Two readers are the fewest that compete
for the mutex; two words the fewest that can be torn; with three publications
every slot changes its owner and two of them fit between two steps of a reader.
The specification has no fairness: the two liveness properties assume, as their
hypothesis, that the steps of the side in question alone are scheduled, which
is what wait-freedom means.

### Driver lifecycle

`DriverLifecycle` has one controller-manager thread (`cm` is its place in
`on_activate`, `on_deactivate`, the error path of `read()` and the
destructors), the App's detached run threads and the estimator's threads, one
per `run_async`. An action is an access to `running_`, `should_stop_`,
`state_initialized_` or the socket. The robot is external: it opens a session
in monitoring and changes its state as FRI allows. ros2_control is external: it
serialises lifecycle callbacks and `read()`, and finalizes a component after an
error. `rosOk` is `rclcpp::ok()`.

- Run `lifecycle` (two activations): `SingleProducer` (what `StateSnapshot`
  assumes of its users), `StoppedWhenInactive`, `NoStaleHeartbeat` and
  `DiesForKnownReasons`: apart from a refused command, a second start of the
  estimator and the error path without an estimator, no legal order of
  activations, session ends and deactivations ends the process. Two activations
  let the second meet whatever the first left; nothing but the thread that is
  still running connects activations further apart.
- The same run's liveness: `CloseCompletes`, `ShutdownStopsThreads`,
  `ShutdownEndsActivation`. Fairness: the operating system schedules each
  thread, the control loop keeps calling `read()`, and the `step()` of a run that
  a robot has answered ends, because the robot goes on sending or the connection
  fails. A run that no robot has answered (`Unanswered`) may end its `step()` or
  be stuck in it for ever, as app.cpp:94 says. `ShutdownStopsThreads` holds for
  all other threads and excepts that one, which the code detaches for this very
  reason; `CloseCompletes` and `ShutdownEndsActivation` hold with it, since
  `running_` is not set before the first `step()` has ended and nothing joins the
  thread. A robot that answers once and then neither sends nor fails is outside of
  the assumption: `close_udp_socket` then waits for ever. Operators owe nothing:
  activation, deactivation, shutdown and destruction are never fair.
- Runs `exit_missed` and `estimator_restart`: two disagreements between code and
  its comments or documents, see section 5.

### Command path

`CommandPath` has the FRI thread (`pc`) inside AsyncClient's callbacks and the
controller manager's loop (`cm`): read, update, write. `command_target_` has no
lock, so both threads visit it joint by joint; `command_` and the guard's
memory belong to the FRI thread. `Smooth` is what the exponential filter
promises, some value between the last command and the target. Positions are
`0 .. MaxPos` with `MaxLimit` the guard's limit, and one value stands for NaN,
which compares false with every limit, as in C++. The robot keeps its own
limits and moves at most `MaxStep` per message. A client command mode other than
position, and a filter that refuses its parameters, end the callback before it
looks at the command (`CheckFails`). `asked` is a history variable: the position
at the last `init_command`, the command that controllers kept then and all that
they asked for since.

- Run `command` (two joints, limits 0..2 and a position beyond, targets at both
  ends): `SentWithinAsked`, `WaitMirrorsRobot`, `HoldsWithoutTarget`. Two
  joints are the fewest that can be torn; they are interchangeable, hence the
  symmetry. A refused command or an error ends the loop, so deadlock is not
  checked.
- Run `nan_sent`: see section 5.

Torque and wrench commands are not modelled: their interfaces repeat the
position interface with one more array.

### Teach mode

`TeachProtocol` is what the operator of the teach mode may rely on: the button
asks for guiding while the arm holds home and for a return while it is guided,
a return is not interrupted, and after an activation or at the beginning of a
session nothing that was asked for earlier counts. `TeachMode` is
`AdmittanceController`: `update()` with one action per access to the atomic
`requested_teach_mode_` (`SessionBegins`, `StoreRequest`, `FollowRequest`,
`ReturnHome` and `Arrive` are its pieces), the compare-exchange loop of
`toggle_teach_mode_`, and activation. `Request` is the refinement mapping: while
`update()` is about to overwrite the request, its own mode is what counts.

Joint angles are one distance from home. The quintic blend is a ramp, since
only its ends and its bounded speed matter here; the robot reaches each
command, but may give way a little while it holds home. `entered`, where the
arm was when guiding began, is a history variable. A session that ended is
assumed to be seen by an active controller before the next one begins: the
robot passes through COMMANDING_WAIT, which takes longer than a cycle.

Run `teach` (home and three units away from it): `SegmentStartsHere`,
`SmoothMotion`, the refinement `ImplementsProtocol`, `ReturnCompletes` and
`RequestFollowed`. A return of three cycles leaves room for the button and for
the end of a session in each of them. Fairness: the controller manager keeps
calling `update()`; the operator need not do anything, and both liveness
properties hold only as long as the session lasts.

### Cartesian wall

`CartesianWallClient` is the client's two threads on their shared atomics: the
FRI thread goes through `onStateChange`, `sample_state`, `command` and
`apply_output_command` with one action per access that the service can tell
apart, and the service through its own. Angles, forces and the wall's arithmetic
are left out: a cycle samples or throws, a start is accepted or refused.
`SunriseOverlay` is `run()` of the application on the robot controller with its
edge logic, the lockout, `startOverlay` and `stopOverlayAndConfirm`; the end of a
motion and the progress of a session are external. `CartesianWall` composes the
two over what they share: the level of Output1, set by a reply, and the session
state of the next packet. `lost`, `late` and `edge` are history variables.

Run `wall` (all of it: the state space is finite without a bound):
`OneCycleLate`, `LossNeedsStart`, `NoDelayedStart` and `StopFollowed`. Fairness:
the FRI thread runs because packets come or `step()` fails, the application
polls, and a cancelled motion ends. Nobody has to press a button. A STOP that is
answered while `command()` is at work is followed by one more wrench, although
CARTESIAN_WALL.md:40 says that it immediately disables torque; `OneCycleLate`
says that there is no second one.

`WallLaw` is `CartesianWallController::update()` for one joint and one axis of the
wrench, in integers: smoothstep, damping and prediction of the wall,
its priority over the task, the cut of an outward residual, and the slew limits
and caps of torque and wrench. Torques are scaled by the third power of the
blend's width, so that nothing is rounded. Angle, speed, task torque and interval
are arbitrary in each update. So is the wrench that the torques of all seven
joints are mapped to, (J J^T + l^2 I)^-1 J tau, before its caps and slew limit: its
sign does not follow from the torque of one joint, and no property says that it
does.

Run `wall_law` (11 angles, speeds towards and off the wall, tasks and mapped
wrenches beyond their caps, two intervals; a wall with and without task priority,
a joint without a wall and a refused configuration): `WithinCaps`, `StartsGently`
and `OnlyNewWallCuts`, which is CARTESIAN_WALL.md:17: the rate limit of the torque
gives way to a wall that is newly felt, and to nothing else. The proofs below are
for every configuration.

### Command controllers

`CommandControllers` is one of the four controllers at a time. The subscription
callback takes the lock of the real-time buffer, stores, and (twist) resets the
count of updates; `update()` reads the buffer, decides, writes the interfaces it
claims, and increments the count. `RealtimeBuffer` is external: two places that
a reader swaps unless the writer has the lock. A message is its number.

Run `controllers` (a timeout of two updates, three messages): `TwistStops`,
`FreshTwist` and `NeverBack`. Three messages are one in each place and one being
stored; the timeout is the smallest with an update that is neither first nor
last. A controller that is refused or out of messages still runs, so deadlock is
checked.

An update may fall between the storing of a twist and the reset of the count,
and so may as many as the callback's thread is late; `TwistStops` therefore bounds
the motions of one twist by a timeout until the reset and by two in all, and TLC
reaches both bounds.

### Initialization and media flange output

`HardwareInit` is `on_init()` in the order of the code, on a description that is
a record of what the code looks at: the parameters, the guard's limits, the
client, the estimator, the five verifications, the service; and the export of
interfaces. An index beyond the joints or the sensors, which are used before
they are verified, may stop the component or go on. `MediaFlange` goes on from
there: the service's thread in its executor, the toggle with its two loads and
its store, the FRI thread's readback and command, a robot program that may not
have registered the output, and the ends of all these.

Run `io` (the repository's own description with two joints and each of some
thirty ways to write one thing differently): `DeclaredAreExported`, `NoRequestLost`,
`RequestReachesRobot`, `NoCallWithoutService` and `StopEnds`. `DeclaredAreExported`
leaves out the names that are accepted and not exported (`AuxiliaryExtra`,
`JointExtra`, commands of the gpio outside `Cartesian`; section 5). Fairness: the
threads run, the robot acts on the last command it was sent, a join and a
`close_udp_socket` return when they may. The operator, the executor's next
callback and ROS shutdown owe nothing. `raced` excludes one case from `StopEnds`:
`cancel()` of an executor whose thread has not begun to spin is lost, and the
join then waits for a ROS shutdown (system_interface.cpp:308). The component
ends, so deadlock is not checked.

### Telemetry

`TimeMapper` is `NativeTimeMapper.map()` as an operator from a mapper and a sample
to the next mapper. `Telemetry` composes it with the state interface, `read()`
with its velocity, the broadcaster, whose message waits for the publisher's
thread, the topic, on which messages may be lost and queue for the bridge up to
`Depth`, and `_on_state()` of the bridge. The range checks of `map()` and
`_on_state()` are left out: with clocks that are not negative they pass. The
robot's clock restarts with a session, the host's may be stepped either way around
the mapper's threshold, and a broadcaster may be activated again, which puts NaN
and a zero stamp into a message that may be waiting.

Run `telemetry` (four instants, three packets, a queue of two, two disturbances of
a clock or an activation, two units of time to the second): `OncePerPacket`,
`NeverInFuture`, `StepStartsSegment` and `VelocityOfState`. Three packets and two
disturbances let a packet be repeated after one step and missed after another; a
queue of two, and a third message in the publisher, hold all three packets, though
the real depth is ten; two units to the second let packets differ in either part
of their stamp alone. The bounds end the run, so deadlock is not checked.

## 4. Proofs

### StateSnapshotProofs

It proves, for every finite or infinite set of readers and
words and every bound `MaxPublish`: type correctness (`TypeCorrect`),
`SlotsStayApart`, `ReadsAreWhole`, `LatestIsReachable` and the refinement
`Refinement`. They rest on `SnapshotAssumption`, that `NoReader` is not a
reader.

`SlotOwnership` is inductive only together with what it protects. `IInv` adds
to it: the mutex belongs to exactly the reader in the critical section; a
reader about to exchange still finds the unread flag, since only readers clear
it; the words the producer has stored in its slot are the current publication's
and the middle slot, or the readers' if nothing is unread, holds the latest
(`StoreInv`, `LatestReachable`); and what a reader has copied so far equals its
slot, which is one whole image (`CopyInv`). One lemma per action shows that it
is preserved. The refinement follows from `IInv`, again one lemma per action:
`PublishExchange` is the register's `Publish`, `LoadSeen` and `ReadExchange`
its `Take`, `Unlock` its `Return`, the rest stutters.

### TeachModeProofs

For every `MaxPos` (`TeachAssumption`: at least one position other than home):
`TypeCorrect`, `SegmentsStartHere`, `MotionIsSmooth` and the `Refinement` of
`TeachProtocol`. None of these is inductive. `RequestInv` says which requests
are possible in which mode: the button is refused until `update()` has stored
HOME_HOLD, so a return that is under way is also what is requested, and guiding
never turns into holding without a return. `MotionInv` says where the mode has
brought the arm as long as the session goes on, `SessionInv` that `update()`
knows of the session it runs in, and `EntryInv` that only the first cycle of a
segment has yet to take its start pose. With the type invariant they are
preserved by every action, and the four theorems follow.

### DriverLifecycleProofs

For every number of activations (`LifecycleAssumption`): `ProducerIsSingle`,
`InactiveIsStopped`, `HeartbeatIsFresh` and `DeathsAreKnown`. The run threads are
detached, so the argument is about the one that may still produce: `OneAtATime`
says that those before the last are past their last access to anything shared.
`ReportInv` relates its place to `running_`: it is true from the first completed
`step()` on, so a thread that has not reported yet has heard at most the first
message, which opens a session in monitoring. `ManagerInv` says what the
controller manager has waited for at each of its places: an active component has
heard a commanding state, hence `running_` tells `close_udp_socket` the truth, and
no thread starts before the last is over. `HeardInv` ties `state_initialized_` to
what this thread heard, `JoinInv` the estimator's handle to the number of starts.
The robot's opening state is what the model takes from outside; without it a
stop that is requested before `running_` is set would be lost.

### CommandPathProofs

For every set of joints, limits, targets and step (`CommandAssumption`):
`SentIsAskedFor`, `RobotIsMirrored` and `CommandHoldsWithoutTarget`. The first
rests on `AskedInv`: the command that controllers keep has been asked for since
the last `init_command`, hence so has every joint of the target that `write()` or
`init_command` has stored, in whatever order they interleave, and the filter stays
between the two it is given. The second rests on `MirrorInv`, what each step of a
callback in COMMANDING_WAIT has made of the position: the state, then joint by
joint the targets and the command, then what is sent; `write()` does not come
between, as it goes by the session that `read()` saw. The third rests on
`HoldInv`: as long as `write()` has only NaN to store, what `init_command` has
stored so far, joint by joint, is the robot's position or NaN, and afterwards
every target is NaN, or what is sent anyway, so that the filter cannot move
(`SmoothBetween`).

### CommandControllersProofs

For every timeout and number of messages: `TwistsEnd` from `WatchInv` (from
the reset on the count is not behind the motions it bounds, but for the one that
is about to be counted, and before the reset they have already been bounded
once), `CommandsNeverGoBack` from `NewerInv` (a message that waits in the
buffer is newer than the reader's, which is no older than what was written) and
`TwistsAreFresh` from `SinceInv` (an active controller has nothing of before its
activation left to read, unless an update finds the buffer locked by a newer
message: the theorem excepts that update).

### CartesianWallProofs

*Protocol.* Its model has no parameters: TLC has all of its states, and the
theorems say why they are right. `AtMostOneLateWrench` rests on `LateInv`: a
wrench is late only if authorization was withdrawn between its test in
`command()` and the reply, and then the FRI thread is at a place from which the
next wrench is behind another test. `AuthorizedByNewStart` (an action property)
rests on `LossInv`: the end of commanding takes the request back before the FRI
thread can come to authorize, and a service call that found a request is no
START. `StartIsNotDelayed` rests on `EdgeInv`: since the last motion was confirmed
ended, either the output had an edge, or it is the level that `run()` compares
with.

*Law.* For every set of configurations of integers, speeds, tasks and positive
intervals (`LawAssumption`): `CapsHold`, `StartsAreGentle` and `NewWallCuts`.
`WallInv` says that the last torque was not against the last wall, so that the cut
cannot come again while the wall stays on its side; `StartInv` says that a start
that waits for its first update has the margin that keeps the wall away from it.
The lemmas on the clamps, on the sign of the wall and on the cut carry the rest;
no property needs the products of the blend to be computed.

### MediaFlangeProofs

For every set of descriptions, number of joints and either version of FRI
(`HardwareAssumption`): `AcceptedIsExported`, `ServiceOutlivesCalls` and
`RequestsAreTaken` (an action property). `ExportInv` carries what was verified to
the export; what the theorem excepts is exactly what the verifications let pass.
`ThreadInv` says that the service's thread is over before the service goes, and
the service before the component; only a component that is not destroyed yet makes
one. The requests rest on `UnrequestedInv` and `RequestedInv`: until the robot
takes a request the output is the opposite value, and neither what the FRI thread
has sampled nor what it has stored is the value asked for; once it is taken both
only change towards it. So the toggle's two loads cannot see a confirmation that
belongs to an older request.

### TelemetryProofs

For every period, age, threshold and bound (`MapperAssumption`,
`TelemetryAssumption`): `StampsAreNotLate`, `VelocityMatchesState`,
`ClockStepsStartSegments` and `PacketsAreShownOnce`. `OrderInv`, `SameInv` and
`RepeatInv` relate the messages in the publisher and in the queue, for every depth,
to the mapper's last packet and the last one published, through reactivations and
restarts: they come in order, a packet has one stamp, and one that comes again has
been followed by nothing else; `SegmentInv` the mapper's clocks
to those of the last message published in its segment.

### What is only model-checked

Liveness: it needs fairness and ENABLED, which the prover's temporal backend does
not reason about here. These are `PublishWaitFree`, `ReadWaitFree`,
`CloseCompletes`, `ShutdownStopsThreads`, `ShutdownEndsActivation`,
`ReturnCompletes`, `RequestFollowed`, `StopFollowed`, `RequestReachesRobot`
and `StopEnds`. Nothing else is left to TLC alone.

## 5. What the runs found

| Run | Where | What |
|---|---|---|
| `exit_missed` | system_interface.cpp:317 | The run thread uninitializes the state when the session ends; `read()` then answers OK before it compares sessions, so the component stays active without a robot. |
| `estimator_restart` | worker.cpp:19 | The estimator's thread is not joined on deactivation; starting it again terminates the process. |
| `nan_sent` | position_command.cpp:43 | A NaN target can be stored between the check for NaN and its use, and passes the guard. |

The models also have, without a run of their own: `hw_session_state_` survives a
deactivation, so that the next activation's first `read()` may report that
COMMANDING_ACTIVE was left (system_interface.cpp:332); the error path dereferences
an estimator that a disabled estimation never creates (system_interface.cpp:340,
one of the endings of `DiesForKnownReasons`); the velocity guard compares across
commanding sessions and may refuse a slow robot (command_guard.cpp:53); an
activation does not reset the count of the twist controller, so that one that
timed out may refuse the first update with a new twist (twist_controller.cpp:103);
and a second activation has no toggle service (system_interface.cpp:307). Three
kinds of names are verified and not exported, which `DeclaredAreExported` leaves
out: `commanded_joint_position`, `commanded_torque`, `external_torque` and
`ipo_joint_position` of the auxiliary sensor (system_interface.cpp:613 against
168-188), `commanded_joint_position` of a joint in a build for FRI 2 (543 against
146), and the gpio's commands, whose number is verified and whose names are not
(662-689). The repository's own description uses none of these.

## 6. Not modelled

Real arithmetic (kinematics, the force estimate, filter coefficients, PID, the
admittance law): outside TLC's values, and no property here tells its results
apart. ROS, real-time tools and the FRI SDK: external, as far as the code relies
on them. The keyboard and the other demos: one thread that publishes per tick.
The data-only packages. Torque and wrench command interfaces: they repeat the
position interface with one more array.
