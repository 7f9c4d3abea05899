------------------------------ MODULE MediaFlange ------------------------------
(***************************************************************************)
(* The hardware component from on_init() to its destruction, and the media *)
(* flange output: a service whose thread on_init() starts and              *)
(* stop_media_flange_service_() joins, which toggles a requested value;    *)
(* the FRI thread, which reports the output and sends the request; and     *)
(* the robot, which sets the output by the last command that arrived.      *)
(*                                                                         *)
(* The activation's waits and the threads' ends are in DriverLifecycle.    *)
(* Nothing else sets the output.                                           *)
(***************************************************************************)
EXTENDS HardwareInit

VARIABLES
  life,      \* "inactive", "active", "failed", "stopping", "destroying", "destroyed"
  stop,      \* stop_media_flange_service_(): "idle", "join"
  ok,        \* rclcpp::ok()
  thread,    \* service thread: "none", "created", "spinning", "taken",
             \* "loading", "storing", "ended"
  spinning,  \* of the executor
  seen,      \* readback that the callback loaded
  request, readback,  \* media_flange_output1_command_ and _readback_
  fri, sample,        \* FRI thread: "off", "idle", "sampled", "stored"
  registered,         \* the robot program registered the output
  wire, output,       \* last command sent; the output
  taken,     \* history: the output was as requested since the request
  raced      \* history: the service was stopped before its thread spun

serviceVars == <<thread, spinning, seen, request>>
friVars == <<readback, fri, sample>>
robotVars == <<registered, wire, output>>
componentVars == <<initVars, life, stop, ok, raced>>
vars == <<componentVars, serviceVars, friVars, robotVars, taken>>

Init ==
  /\ InitInit
  /\ life = "inactive" /\ stop = "idle" /\ ok = TRUE
  /\ thread = "none" /\ spinning = FALSE /\ seen = -1
  /\ request = -1 /\ readback = -1
  /\ fri = "off" /\ sample = -1
  /\ registered \in BOOLEAN /\ wire = -1 /\ output \in {0, 1}
  /\ taken = FALSE /\ raced = FALSE

-----------------------------------------------------------------------------
(* Component *)

OnInitStep ==
  /\ OnInit
  /\ thread' = IF "service" \in driver' \ driver THEN "created" ELSE thread
  /\ UNCHANGED <<life, stop, ok, raced, spinning, seen, request, friVars, robotVars, taken>>

\* The second activation has no service: only on_init() makes one.
Activate ==
  /\ stage = "exported" /\ life = "inactive" /\ ok
  /\ life' = "active" /\ fri' = "idle"
  /\ UNCHANGED <<initVars, stop, ok, raced, serviceVars, readback, sample, robotVars, taken>>

\* The robot left COMMANDING_ACTIVE: the run thread ends, the service does not.
ReadExit ==
  /\ life = "active" /\ life' = "failed"
  /\ fri \in {"idle", "off"} /\ fri' = "off"
  /\ UNCHANGED <<initVars, stop, ok, raced, serviceVars, readback, sample, robotVars, taken>>

\* Plausible bug: the executor is not cancelled.
StopServiceUncancelled(l) ==
  /\ life' = l /\ stop' = "join"
  /\ raced' = (thread = "created")
  /\ UNCHANGED <<initVars, ok, thread, spinning, seen, request, friVars, robotVars, taken>>

\* cancel(); a join of the thread follows.
StopService(l) ==
  /\ life' = l /\ stop' = "join"
  /\ spinning' = FALSE /\ raced' = (thread = "created")
  /\ UNCHANGED <<initVars, ok, thread, seen, request, friVars, robotVars, taken>>

Deactivate == life = "active" /\ StopService("stopping")

Destroy ==
  /\ stage \in {"error", "up", "exported"} /\ life \in {"inactive", "active", "failed"}
  /\ StopService("destroying")

\* Plausible bug: the service is dropped under its callback.
JoinServiceAtOnce ==
  /\ stop = "join"
  /\ stop' = "idle" /\ driver' = driver \ {"service"}
  /\ UNCHANGED <<info, stage, states, commands, life, ok, raced,
                 serviceVars, friVars, robotVars, taken>>

\* A thread that was joined, or never made, is not joinable.
JoinService ==
  /\ stop = "join" /\ thread \in {"none", "ended"}
  /\ stop' = "idle" /\ driver' = driver \ {"service"}
  /\ UNCHANGED <<info, stage, states, commands, life, ok, raced,
                 serviceVars, friVars, robotVars, taken>>

\* request_stop(), close_udp_socket(); the destructor of App does the same.
CloseSocket ==
  /\ life \in {"stopping", "destroying"} /\ stop = "idle"
  /\ life' = IF life = "stopping" THEN "inactive" ELSE "destroyed"
  /\ fri \in {"idle", "off"} /\ fri' = "off"
  /\ UNCHANGED <<initVars, stop, ok, raced, serviceVars, readback, sample, robotVars, taken>>

Shutdown ==
  /\ ok /\ ok' = FALSE
  /\ UNCHANGED <<initVars, life, stop, raced, serviceVars, friVars, robotVars, taken>>

-----------------------------------------------------------------------------
(* Service thread *)

Thread(from, to) == thread = from /\ thread' = to
ServiceElse == UNCHANGED <<componentVars, friVars, robotVars>>

SpinStarts ==
  /\ Thread("created", "spinning") /\ spinning' = TRUE
  /\ ServiceElse /\ UNCHANGED <<seen, request, taken>>

SpinEnds ==
  /\ Thread("spinning", "ended") /\ (~ spinning \/ ~ ok) /\ spinning' = FALSE
  /\ ServiceElse /\ UNCHANGED <<seen, request, taken>>

\* A request that the executor took is answered, cancelled or not.
TakeRequest ==
  /\ spinning /\ ok /\ Thread("spinning", "taken")
  /\ ServiceElse /\ UNCHANGED <<spinning, seen, request, taken>>

LoadReadback ==
  /\ Thread("taken", IF readback < 0 THEN "spinning" ELSE "loading")
  /\ seen' = readback
  /\ ServiceElse /\ UNCHANGED <<spinning, request, taken>>

\* Plausible bug: a request that was not confirmed is toggled again.
LoadRequestUnconfirmed ==
  /\ Thread("loading", "storing")
  /\ ServiceElse /\ UNCHANGED <<spinning, seen, request, taken>>

LoadRequest ==
  /\ Thread("loading", IF request >= 0 /\ request # seen THEN "spinning" ELSE "storing")
  /\ ServiceElse /\ UNCHANGED <<spinning, seen, request, taken>>

StoreRequest ==
  /\ Thread("storing", "spinning")
  /\ request' = 1 - (IF request >= 0 THEN request ELSE seen)
  /\ taken' = (output = request')
  /\ ServiceElse /\ UNCHANGED <<spinning, seen>>

-----------------------------------------------------------------------------
(* FRI thread: update_media_flange_output1_() in every callback *)

FriElse == UNCHANGED <<componentVars, serviceVars, registered, output, taken>>

\* request_stop() comes after the service is stopped.
StopRequested == life \in {"stopping", "destroying"} /\ stop = "idle"

\* getBooleanIOValue() throws for an output that is not registered.
Sample ==
  /\ fri = "idle" /\ ~ StopRequested /\ ok /\ registered
  /\ fri' = "sampled" /\ sample' = output
  /\ FriElse /\ UNCHANGED <<readback, wire>>

StoreReadback ==
  /\ fri = "sampled" /\ fri' = "stored" /\ readback' = sample
  /\ FriElse /\ UNCHANGED <<sample, wire>>

\* Plausible bug: a request to switch off is taken for none.
SendRequestTrue ==
  /\ fri = "stored" /\ fri' = "idle"
  /\ wire' = IF request > 0 THEN request ELSE wire
  /\ FriElse /\ UNCHANGED <<readback, sample>>

SendRequest ==
  /\ fri = "stored" /\ fri' = "idle"
  /\ wire' = IF request >= 0 THEN request ELSE wire
  /\ FriElse /\ UNCHANGED <<readback, sample>>

FriEnds ==
  /\ fri = "idle" /\ ~ ok /\ fri' = "off"
  /\ FriElse /\ UNCHANGED <<readback, sample, wire>>

\* A command that the next one overtakes is one that was lost.
RobotSets ==
  /\ wire >= 0 /\ output # wire /\ output' = wire
  /\ taken' = (taken \/ wire = request)
  /\ UNCHANGED <<componentVars, serviceVars, friVars, registered, wire>>

FriThread == Sample \/ StoreReadback \/ SendRequest \/ FriEnds
Callback == LoadReadback \/ LoadRequest \/ StoreRequest

Next ==
  \/ OnInitStep \/ Activate \/ ReadExit \/ Deactivate \/ Destroy \/ JoinService \/ CloseSocket
  \/ Shutdown \/ SpinStarts \/ SpinEnds \/ TakeRequest \/ Callback \/ FriThread \/ RobotSets

\* Threads run, and the robot acts on what arrives.
Spec ==
  /\ Init /\ [][Next]_vars
  /\ WF_vars(FriThread) /\ WF_vars(SpinStarts \/ SpinEnds \/ Callback)
  /\ WF_vars(RobotSets) /\ WF_vars(JoinService) /\ WF_vars(CloseSocket)

-----------------------------------------------------------------------------

\* What an accepted description declares is exported, but for three things that
\* the verification, 400 lines from the export, lets pass: four names of the
\* auxiliary sensor, one of a joint in a build for FRI 2, and any command of the
\* wrench that is no axis. A controller that claims one of these is refused when
\* it is configured or activated, long after on_init() accepted the description.
JointExtra == IF FriMajor = 1 THEN {} ELSE {"commanded_joint_position"}
DeclaredAreExported ==
  stage = "exported" =>
    /\ \A i \in DOMAIN info.joints :
         /\ {Joint(i).name} \X (ToSet(Joint(i).states) \ JointExtra) \subseteq states
         /\ {Joint(i).name} \X ToSet(Joint(i).commands) \subseteq commands
    /\ {info.sensors[1].name} \X (ToSet(info.sensors[1].states) \ AuxiliaryExtra) \subseteq states
    /\ Enabled => {Estimator.name} \X ToSet(Estimator.states) \subseteq states
    /\ {info.gpios[1].name} \X (ToSet(info.gpios[1].commands) \intersect Cartesian)
         \subseteq commands

\* An accepted request is replaced only after the output had its value: the
\* toggle's two loads and its store cannot confirm an older request, wherever
\* the FRI thread's update falls (toggle_media_flange_output1()).
NoRequestLost == [][request' # request /\ request >= 0 => taken]_vars

\* A request reaches the robot while the FRI thread runs
\* (update_media_flange_output1_()).
RequestReachesRobot == (request >= 0 /\ ~ taken) ~> (taken \/ fri = "off")

\* No callback is running, and none will, when the service and the client that
\* it uses are gone (stop_media_flange_service_()).
NoCallWithoutService ==
  thread \in {"taken", "loading", "storing"} => "service" \in driver /\ life # "destroyed"

\* Stopping the service ends, in the middle of a callback too, unless its
\* thread had not begun to spin.
StopEnds == (stop = "join" /\ ~ raced) ~> (stop = "idle")
=============================================================================
