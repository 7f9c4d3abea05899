-------------------------- MODULE DriverLifecycle ---------------------------
(***************************************************************************)
(* Who starts and stops the driver's threads.  The controller manager's    *)
(* thread walks through SystemInterface::on_activate, on_deactivate, the   *)
(* error path of read() and, at process exit, the destructors; each calls  *)
(* lbr_fri_ros2::Worker operations on two workers:                         *)
(*                                                                         *)
(*   "app"  lbr_fri_ros2::App, whose detached run thread blocks in the FRI *)
(*          SDK's ClientApplication::step();                               *)
(*   "ft"   lbr_fri_ros2::FTEstimator, whose run thread is joined by the   *)
(*          destructor only.                                               *)
(*                                                                         *)
(* One action per access to the atomics running_ and should_stop_, to the  *)
(* state interface's state_initialized_ and to the UDP socket.  The store  *)
(* of request_stop() is one step with its load of running_: only the       *)
(* controller manager's thread starts a worker, so nothing that the run    *)
(* thread does between the two depends on their order.                     *)
(*                                                                         *)
(* What the modules take from outside src/: a robot opens every session in *)
(* monitoring, step() hands one message to the client and returns, and     *)
(* ros2_control finalizes a component whose callback or read() fails.      *)
(***************************************************************************)
EXTENDS Naturals, FiniteSets

CONSTANT MaxRuns   \* bound of the model: number of activations

ASSUME LifecycleAssumption == MaxRuns \in Nat \ {0}

VARIABLES
  ftEnabled,          \* the configured estimated_ft_sensor/enabled
  rosOk,              \* rclcpp::ok()
  cm,                 \* where the controller manager's thread is
  leaving,            \* why it stops the workers, or why the process died
  running_,           \* running_[w], should_stop_[w]: the atomics of worker w
  should_stop_,
  joinable,           \* joinable[w]: run_thread_ of w owns a thread
  thread,             \* thread[w][i]: where the i-th run thread of w is
  runs,               \* number of App::run_async calls that spawned a thread
  success,            \* result of the last step() of the App's run thread
  socketOpen,         \* UdpConnection::isOpen()
  session,            \* session state in the last message from the robot
  heard,              \* session states received by the current run of the App
  state_initialized_, \* StateInterface::is_initialized()
  hw_session_state_   \* session state that read() saw last

cmVars == <<cm, leaving>>
workerVars == <<running_, should_stop_, joinable, thread, runs, success>>
friVars == <<socketOpen, session, heard, state_initialized_>>
vars == <<ftEnabled, rosOk, cmVars, workerVars, friVars, hw_session_state_>>

Worker == {"app", "ft"}
Run == 1 .. MaxRuns
Session == {"IDLE", "MONITORING", "COMMANDING_WAIT", "COMMANDING_ACTIVE"}
Commanding(s) == s \in {"COMMANDING_WAIT", "COMMANDING_ACTIVE"}

Alive(w, i) == thread[w][i] \notin {"none", "done"}
AnyAlive(w) == \E i \in Run : Alive(w, i)
NextRun(w) == Cardinality({i \in Run : thread[w][i] # "none"}) + 1

Init ==
  /\ ftEnabled \in BOOLEAN
  /\ rosOk = TRUE
  /\ cm = "inactive"
  /\ leaving = "none"
  /\ running_ = [w \in Worker |-> FALSE]
  /\ should_stop_ = [w \in Worker |-> TRUE]
  /\ joinable = [w \in Worker |-> FALSE]
  /\ thread = [w \in Worker |-> [i \in Run |-> "none"]]
  /\ runs = 0
  /\ success = TRUE
  /\ socketOpen = FALSE
  /\ session = "IDLE"
  /\ heard = {}
  /\ state_initialized_ = FALSE
  /\ hw_session_state_ = "NaN"

-----------------------------------------------------------------------------
(* Pieces of the actions *)

GoCm(from, to) == cm = from /\ cm' = to

\* std::terminate, a pure virtual call or a null dereference ends the process.
Terminate(why) == cm' = "terminated" /\ leaving' = why
Up == cm \notin {"terminated", "destroyed"}

\* run_thread_ = std::thread(...)
Spawn(w) == thread' = [thread EXCEPT ![w][NextRun(w)] = "spawned"]

\* Worker::request_stop returns early unless running_.
RequestStop(w) ==
  should_stop_' = [should_stop_ EXCEPT ![w] = running_[w] \/ @]

GoThread(w, i, from, to) ==
  /\ Up
  /\ thread[w][i] = from
  /\ thread' = [thread EXCEPT ![w][i] = to]

\* ~FTEstimator() is over and Worker::~Worker() runs: LOGGER_NAME() and
\* perform_work_() are pure virtual.
Dying(w) == w = "ft" /\ cm = "dtorFt"

-----------------------------------------------------------------------------
(* The run thread of the App *)

\* should_stop_ = false, at the start of the thread function of either worker
ThreadStart(w, i) ==
  /\ ~ Dying(w)
  /\ GoThread(w, i, "spawned", IF w = "app" THEN "loop" ELSE "begin")
  /\ should_stop_' = [should_stop_ EXCEPT ![w] = FALSE]
  /\ success' = (w = "app" \/ success)
  /\ UNCHANGED <<ftEnabled, rosOk, cmVars, running_, joinable, runs, friVars,
                 hw_session_state_>>

\* The loop condition of App::perform_work_
AppEnterStep(i) ==
  /\ rosOk /\ success /\ ~ should_stop_["app"]
  /\ GoThread("app", i, "loop", "step")
  /\ UNCHANGED <<ftEnabled, rosOk, cmVars, running_, should_stop_, joinable,
                 runs, success, friVars, hw_session_state_>>

AppLeaveLoop(i) ==
  /\ ~ rosOk \/ ~ success \/ should_stop_["app"]
  /\ GoThread("app", i, "loop", "uninit")
  /\ UNCHANGED <<ftEnabled, rosOk, cmVars, running_, should_stop_, joinable,
                 runs, success, friVars, hw_session_state_>>

\* The robot opens a session in monitoring and commands only a client that
\* has answered in COMMANDING_WAIT; otherwise its state may fall back, end or,
\* with messages lost, repeat at any time.
RobotMayReport(s) ==
  /\ heard = {} => s = "MONITORING"
  /\ s = "COMMANDING_ACTIVE" => Commanding(session)

\* step() receives a message and runs a callback of AsyncClient; every one of
\* them calls StateInterface::set_state or set_state_open_loop.
AppReceive(i, s) ==
  /\ socketOpen
  /\ RobotMayReport(s)
  /\ GoThread("app", i, "step", "received")
  /\ session' = s
  /\ heard' = heard \cup {s}
  /\ state_initialized_' = TRUE
  /\ UNCHANGED <<ftEnabled, rosOk, cmVars, running_, should_stop_, joinable,
                 runs, success, socketOpen, hw_session_state_>>

AppStepReturns(i) ==
  /\ GoThread("app", i, "received", "stepped")
  /\ success' = TRUE
  /\ UNCHANGED <<ftEnabled, rosOk, cmVars, running_, should_stop_, joinable,
                 runs, friVars, hw_session_state_>>

\* step() returns false: nothing could be received or sent.
AppStepFails(i) ==
  /\ \/ GoThread("app", i, "step", "stepped")
     \/ GoThread("app", i, "received", "stepped")
  /\ success' = FALSE
  /\ UNCHANGED <<ftEnabled, rosOk, cmVars, running_, should_stop_, joinable,
                 runs, friVars, hw_session_state_>>

\* buffered_command_to_fri throws (a refused command, another command mode);
\* nothing between it and the thread function catches the exception.
AppThrows(i) ==
  /\ Up
  /\ thread["app"][i] = "received"
  /\ Commanding(session)
  /\ Terminate("throw")
  /\ UNCHANGED <<ftEnabled, rosOk, workerVars, friVars, hw_session_state_>>

\* Plausible bug: the run thread never reports that it runs.
AppSetRunningForgotten(i) ==
  /\ GoThread("app", i, "stepped", "check")
  /\ UNCHANGED <<ftEnabled, rosOk, cmVars, running_, should_stop_, joinable,
                 runs, success, friVars, hw_session_state_>>

\* running_ = true, after the first and every later step()
AppSetRunning(i) ==
  /\ GoThread("app", i, "stepped", "check")
  /\ running_' = [running_ EXCEPT !["app"] = TRUE]
  /\ UNCHANGED <<ftEnabled, rosOk, cmVars, should_stop_, joinable, runs,
                 success, friVars, hw_session_state_>>

AppCheckIdle(i) ==
  /\ GoThread("app", i, "check", IF session = "IDLE" THEN "uninit" ELSE "loop")
  /\ UNCHANGED <<ftEnabled, rosOk, cmVars, running_, should_stop_, joinable,
                 runs, success, friVars, hw_session_state_>>

\* Plausible bug: the state interface keeps the last session's state.
AppUninitializeForgotten(i) ==
  /\ GoThread("app", i, "uninit", "exit")
  /\ UNCHANGED <<ftEnabled, rosOk, cmVars, running_, should_stop_, joinable,
                 runs, success, friVars, hw_session_state_>>

AppUninitialize(i) ==
  /\ GoThread("app", i, "uninit", "exit")
  /\ state_initialized_' = FALSE
  /\ UNCHANGED <<ftEnabled, rosOk, cmVars, running_, should_stop_, joinable,
                 runs, success, socketOpen, session, heard, hw_session_state_>>

\* running_ = false, after perform_work_ of either worker
ThreadExit(w, i) ==
  /\ GoThread(w, i, "exit", "log")
  /\ running_' = [running_ EXCEPT ![w] = FALSE]
  /\ UNCHANGED <<ftEnabled, rosOk, cmVars, should_stop_, joinable, runs,
                 success, friVars, hw_session_state_>>

\* The last message, which still uses the worker
ThreadLog(w, i) ==
  /\ ~ Dying(w)
  /\ GoThread(w, i, "log", "done")
  /\ UNCHANGED <<ftEnabled, rosOk, cmVars, running_, should_stop_, joinable,
                 runs, success, friVars, hw_session_state_>>

-----------------------------------------------------------------------------
(* The run thread of the FTEstimator *)

FtSetRunning(i) ==
  /\ ~ Dying("ft")
  /\ GoThread("ft", i, "begin", "loop")
  /\ running_' = [running_ EXCEPT !["ft"] = TRUE]
  /\ UNCHANGED <<ftEnabled, rosOk, cmVars, should_stop_, joinable, runs,
                 success, friVars, hw_session_state_>>

\* Plausible bug: the loop does not look at rclcpp::ok().
FtLeaveLoopDeaf(i) ==
  /\ should_stop_["ft"]
  /\ GoThread("ft", i, "loop", "exit")
  /\ UNCHANGED <<ftEnabled, rosOk, cmVars, running_, should_stop_, joinable,
                 runs, success, friVars, hw_session_state_>>

FtLeaveLoop(i) ==
  /\ ~ rosOk \/ should_stop_["ft"]
  /\ GoThread("ft", i, "loop", "exit")
  /\ UNCHANGED <<ftEnabled, rosOk, cmVars, running_, should_stop_, joinable,
                 runs, success, friVars, hw_session_state_>>

\* The run thread calls LOGGER_NAME() or perform_work_() of a dying worker.
PureVirtualCall(i) ==
  /\ Dying("ft")
  /\ thread["ft"][i] \in {"spawned", "begin", "log"}
  /\ Terminate("pure virtual")
  /\ UNCHANGED <<ftEnabled, rosOk, workerVars, friVars, hw_session_state_>>

-----------------------------------------------------------------------------
(* on_activate *)

Activate ==
  /\ runs < MaxRuns
  /\ GoCm("inactive", "open")
  /\ UNCHANGED <<ftEnabled, rosOk, leaving, workerVars, friVars,
                 hw_session_state_>>

\* open_udp_socket fails: on_activate returns ERROR.
OpenFails ==
  /\ ~ socketOpen
  /\ GoCm("open", "finalized")
  /\ UNCHANGED <<ftEnabled, rosOk, leaving, workerVars, friVars,
                 hw_session_state_>>

OpenOk ==
  /\ GoCm("open", "run")
  /\ socketOpen' = TRUE
  /\ UNCHANGED <<ftEnabled, rosOk, leaving, workerVars, session, heard,
                 state_initialized_, hw_session_state_>>

\* App::run_async: Worker::run_async, then run_thread_.detach(), so that the
\* handle never stays joinable.  If the worker still runs, detach() meets a
\* handle without a thread and throws.
RunApp ==
  /\ cm = "run"
  /\ IF running_["app"]
       THEN Terminate("detach") /\ UNCHANGED <<thread, runs, heard>>
       ELSE /\ cm' = "await" /\ UNCHANGED leaving
            /\ Spawn("app")
            /\ runs' = runs + 1
            /\ heard' = {}
  /\ UNCHANGED <<ftEnabled, rosOk, running_, should_stop_, joinable, success,
                 socketOpen, session, state_initialized_, hw_session_state_>>

\* "Awaiting robot heartbeat"
AwaitHeartbeat ==
  /\ state_initialized_
  /\ GoCm("await", "awaitSession")
  /\ UNCHANGED <<ftEnabled, rosOk, leaving, workerVars, friVars,
                 hw_session_state_>>

\* get_state().session_state >= COMMANDING_WAIT
AwaitSession ==
  /\ Commanding(session)
  /\ GoCm("awaitSession", "runFt")
  /\ UNCHANGED <<ftEnabled, rosOk, leaving, workerVars, friVars,
                 hw_session_state_>>

\* Plausible bug: the second wait does not look at rclcpp::ok().
AbortActivationOnce ==
  /\ ~ rosOk
  /\ ~ state_initialized_ /\ GoCm("await", "finalized")
  /\ UNCHANGED <<ftEnabled, rosOk, leaving, workerVars, friVars,
                 hw_session_state_>>

\* Both waits end when ROS shuts down; on_activate returns ERROR.
AbortActivation ==
  /\ ~ rosOk
  /\ \/ ~ state_initialized_ /\ GoCm("await", "finalized")
     \/ ~ Commanding(session) /\ GoCm("awaitSession", "finalized")
  /\ UNCHANGED <<ftEnabled, rosOk, leaving, workerVars, friVars,
                 hw_session_state_>>

\* There is no estimator, or Worker::run_async finds it running.
KeepFt ==
  /\ ~ ftEnabled \/ running_["ft"]
  /\ GoCm("runFt", "active")
  /\ UNCHANGED <<ftEnabled, rosOk, leaving, workerVars, friVars,
                 hw_session_state_>>

StartFt ==
  /\ ftEnabled /\ ~ running_["ft"] /\ ~ joinable["ft"]
  /\ GoCm("runFt", "active")
  /\ Spawn("ft")
  /\ joinable' = [joinable EXCEPT !["ft"] = TRUE]
  /\ UNCHANGED <<ftEnabled, rosOk, leaving, running_, should_stop_, runs,
                 success, friVars, hw_session_state_>>

\* run_thread_ still owns the thread of an earlier activation: assigning to a
\* joinable std::thread terminates the process.
RestartFt ==
  /\ cm = "runFt"
  /\ ftEnabled /\ ~ running_["ft"] /\ joinable["ft"]
  /\ Terminate("assign")
  /\ UNCHANGED <<ftEnabled, rosOk, workerVars, friVars, hw_session_state_>>

-----------------------------------------------------------------------------
(* read(), which ros2_control calls on inactive and active components *)

ReadState ==
  /\ cm \in {"inactive", "active"}
  /\ state_initialized_
  /\ ~ (hw_session_state_ = "COMMANDING_ACTIVE" /\ session # "COMMANDING_ACTIVE")
  /\ hw_session_state_' = session
  /\ UNCHANGED <<ftEnabled, rosOk, cmVars, workerVars, friVars>>

\* "LBR left COMMANDING_ACTIVE": request_stop(), then close_udp_socket()
ReadExit ==
  /\ cm \in {"inactive", "active"}
  /\ state_initialized_
  /\ hw_session_state_ = "COMMANDING_ACTIVE" /\ session # "COMMANDING_ACTIVE"
  /\ cm' = "close"
  /\ leaving' = "error"
  /\ RequestStop("app")
  /\ UNCHANGED <<ftEnabled, rosOk, running_, joinable, thread, runs, success,
                 friVars, hw_session_state_>>

-----------------------------------------------------------------------------
(* on_deactivate, the rest of the error path, and process exit *)

\* Plausible bug: on_deactivate closes the socket without a request_stop().
DeactivateUnrequested ==
  /\ GoCm("active", "close")
  /\ leaving' = "deactivate"
  /\ UNCHANGED <<ftEnabled, rosOk, workerVars, friVars, hw_session_state_>>

Deactivate ==
  /\ GoCm("active", "close")
  /\ leaving' = "deactivate"
  /\ RequestStop("app")
  /\ UNCHANGED <<ftEnabled, rosOk, running_, joinable, thread, runs, success,
                 friVars, hw_session_state_>>

\* Plausible bug: close_udp_socket does not wait for the run thread.
CloseSocketAtOnce ==
  /\ cm = "close"
  /\ cm' = IF leaving = "destroy" THEN "destroyed" ELSE "stopFt"
  /\ socketOpen' = FALSE
  /\ UNCHANGED <<ftEnabled, rosOk, leaving, workerVars, session, heard,
                 state_initialized_, hw_session_state_>>

\* close_udp_socket waits while running_.
CloseSocket ==
  /\ cm = "close"
  /\ ~ running_["app"]
  /\ cm' = IF leaving = "destroy" THEN "destroyed" ELSE "stopFt"
  /\ socketOpen' = FALSE
  /\ UNCHANGED <<ftEnabled, rosOk, leaving, workerVars, session, heard,
                 state_initialized_, hw_session_state_>>

\* on_deactivate asks whether there is an estimator; read() does not.
StopFt ==
  /\ leaving = "deactivate" \/ ftEnabled
  /\ GoCm("stopFt", IF leaving = "deactivate" THEN "inactive" ELSE "finalized")
  /\ RequestStop("ft")
  /\ UNCHANGED <<ftEnabled, rosOk, leaving, running_, joinable, thread, runs,
                 success, friVars, hw_session_state_>>

\* Plausible bug: on_deactivate does not ask either.
StopNoFtUnguarded ==
  /\ cm = "stopFt"
  /\ ~ ftEnabled
  /\ cm' = "terminated"
  /\ leaving' = IF leaving = "error" THEN "null" ELSE leaving
  /\ UNCHANGED <<ftEnabled, rosOk, workerVars, friVars, hw_session_state_>>

\* ft_estimator_ptr_->request_stop() without an estimator
StopNoFt ==
  /\ cm = "stopFt"
  /\ leaving = "error" /\ ~ ftEnabled
  /\ Terminate("null")
  /\ UNCHANGED <<ftEnabled, rosOk, workerVars, friVars, hw_session_state_>>

\* rclcpp::shutdown(), from a signal
Shutdown ==
  /\ Up
  /\ rosOk
  /\ rosOk' = FALSE
  /\ UNCHANGED <<ftEnabled, cmVars, workerVars, friVars, hw_session_state_>>

\* ~SystemInterface() joins the service thread; then the members go, the
\* estimator before the App.
Destroy ==
  /\ ~ rosOk
  /\ cm \in {"inactive", "active", "finalized"}
  /\ cm' = "dtorFt"
  /\ leaving' = "destroy"
  /\ UNCHANGED <<ftEnabled, rosOk, workerVars, friVars, hw_session_state_>>

\* Worker::~Worker() of the estimator: request_stop() names the logger of a
\* running worker, a pure virtual call by now; join() waits for the thread.
\* Then ~App() calls request_stop().
DestroyFt ==
  /\ ~ running_["ft"]
  /\ joinable["ft"] => ~ AnyAlive("ft")
  /\ GoCm("dtorFt", "close")
  /\ joinable' = [joinable EXCEPT !["ft"] = FALSE]
  /\ RequestStop("app")
  /\ UNCHANGED <<ftEnabled, rosOk, leaving, running_, thread, runs, success,
                 friVars, hw_session_state_>>

DestroyRunningFt ==
  /\ cm = "dtorFt"
  /\ running_["ft"]
  /\ Terminate("pure virtual")
  /\ UNCHANGED <<ftEnabled, rosOk, workerVars, friVars, hw_session_state_>>

-----------------------------------------------------------------------------
ThreadStep(w, i) == ThreadStart(w, i) \/ ThreadExit(w, i) \/ ThreadLog(w, i)

AppThread(i) ==
  \/ ThreadStep("app", i)
  \/ AppEnterStep(i) \/ AppLeaveLoop(i) \/ AppStepReturns(i) \/ AppStepFails(i)
  \/ \E s \in Session : AppReceive(i, s)
  \/ AppThrows(i) \/ AppSetRunning(i) \/ AppCheckIdle(i) \/ AppUninitialize(i)

FtThread(i) ==
  \/ ThreadStep("ft", i)
  \/ FtSetRunning(i) \/ FtLeaveLoop(i) \/ PureVirtualCall(i)

Activation ==
  \/ OpenFails \/ OpenOk \/ RunApp \/ AwaitHeartbeat
  \/ AwaitSession \/ AbortActivation \/ KeepFt \/ StartFt \/ RestartFt

Read == ReadState \/ ReadExit

Leaving ==
  CloseSocket \/ StopFt \/ StopNoFt \/ DestroyFt \/ DestroyRunningFt

\* The process is over, or it waits for its user.
Rest == cm \in {"terminated", "destroyed"} /\ UNCHANGED vars

Next ==
  \/ \E i \in Run : AppThread(i) \/ FtThread(i)
  \/ Activate \/ Activation \/ Read \/ Deactivate \/ Leaving \/ Destroy
  \/ Shutdown \/ Rest

\* step() of a run that no robot has answered yet: "stuck if never connected"
\* (app.cpp:94).
Unanswered(i) == thread["app"][i] = "step" /\ heard = {}

\* The threads are scheduled.  A step() ends if a robot has answered this run:
\* it keeps sending or the connection fails.  An unanswered one may end or stay
\* for ever.  Nobody has to activate, deactivate, shut down or destroy anything.
Fairness ==
  /\ \A i \in Run : WF_vars(~ Unanswered(i) /\ AppThread(i)) /\ WF_vars(FtThread(i))
  /\ WF_vars(Activation) /\ WF_vars(Read) /\ WF_vars(Leaving)

Spec == Init /\ [][Next]_vars /\ Fairness

-----------------------------------------------------------------------------
(* Properties *)

\* The state interface has one producer at any time: however activations and
\* deactivations interleave with the detached run threads, two of them are
\* never between their start and their end.
SingleProducer ==
  Cardinality({i \in Run : Alive("app", i) /\ thread["app"][i] # "log"}) <= 1

\* After on_deactivate nothing of the connection is left: no run thread that
\* could publish a state, no initialized state, no socket.
StoppedWhenInactive ==
  cm = "inactive" =>
    /\ \A i \in Run : thread["app"][i] \in {"none", "log", "done"}
    /\ ~ state_initialized_
    /\ ~ socketOpen

\* The heartbeat that on_activate waits for comes from this activation, not
\* from the state that an earlier session left in the state interface.
NoStaleHeartbeat == cm = "await" /\ state_initialized_ => heard # {}

\* Activations, deactivations, read() and session ends in any legal order end
\* the process in three ways only: a refused command, the error path of read()
\* without an estimator (system_interface.cpp:340), and a second start of the
\* estimator, whose thread nobody joined (worker.cpp:19).
DiesForKnownReasons ==
  cm = "terminated" /\ rosOk =>
    \/ leaving = "throw"
    \/ leaving = "null" /\ ~ ftEnabled
    \/ leaving = "assign" /\ ftEnabled /\ runs > 1

\* close_udp_socket, which read() calls in the control loop, stops waiting:
\* either request_stop() reached the loop of a robot that answers, or no step()
\* has ever ended and running_ is not set.
CloseCompletes == cm = "close" ~> cm # "close"

\* Once ROS shuts down both run threads leave their loops, whatever
\* on_activate, read() or on_deactivate were doing.  The one thread that may
\* outlast the shutdown is the App's in the step() of a robot that never
\* answered, for which app.cpp:94-95 detaches it.
ShutdownStopsThreads ==
  ~ rosOk ~>
    \/ ~ Up
    \/ /\ ~ AnyAlive("ft")
       /\ \A i \in Run : Alive("app", i) => Unanswered(i)

\* An activation ends; if ROS shuts down it ends without a robot, too.
ShutdownEndsActivation ==
  ~ rosOk ~> cm \notin {"open", "run", "await", "awaitSession", "runFt"}

\* "exit once robot exits COMMANDING_ACTIVE (for safety)"
\* (system_interface.cpp:331): a component whose read() has seen
\* COMMANDING_ACTIVE does not stay active for ever when the robot has left it.
ExitsCommandingActive ==
  ~ <>[](/\ rosOk /\ cm = "active"
         /\ hw_session_state_ = "COMMANDING_ACTIVE"
         /\ session # "COMMANDING_ACTIVE")

\* The estimator is "deactivateable" (CHANGELOG.rst:45): an activation after a
\* deactivation starts it again.
EstimatorRestarts == ~ (cm = "terminated" /\ leaving = "assign")
=============================================================================
