------------------------- MODULE DriverLifecycleProofs -------------------------
(***************************************************************************)
(* The safety of DriverLifecycle for every number of activations.  The run *)
(* threads of earlier activations outlive on_deactivate, so all of it      *)
(* rests on what the controller manager's thread knows, at each of its     *)
(* places, about the one thread that may still produce.                    *)
(***************************************************************************)
EXTENDS DriverLifecycle, FiniteSetTheorems, TLAPS

Pc == {"none", "spawned", "begin", "loop", "step", "received", "stepped", "check",
       "uninit", "exit", "log", "done"}

\* The thread is past its last access to what it shares with the others.
Over == {"log", "done"}

TypeInv ==
  /\ running_ \in [Worker -> BOOLEAN]
  /\ joinable \in [Worker -> BOOLEAN]
  /\ thread \in [Worker -> [Run -> Pc]]
  /\ runs \in 0 .. MaxRuns
  /\ session \in Session /\ heard \subseteq Session

\* App::run_async starts a thread only when those before are over.
OneAtATime ==
  \A i \in Run : /\ i < runs => thread["app"][i] \in Over
                 /\ i > runs => thread["app"][i] = "none"

\* Where the last of them is.
Current == IF runs = 0 THEN "done" ELSE thread["app"][runs]

\* running_ is true from the first completed step() on, so that a thread that has
\* not reported yet has heard the robot's first message at most.
ReportInv ==
  /\ Current \notin {"none", "begin"}
  /\ Current \in Over \cup {"spawned"} => ~ running_["app"]
  /\ Current \in {"spawned", "loop", "step", "uninit", "exit"} =>
       running_["app"] \/ heard = {}
  /\ Current \in {"received", "stepped"} => running_["app"] \/ heard \subseteq {"MONITORING"}
  /\ Current = "check" => running_["app"]

\* The state interface is initialized by a message to this thread, and no longer
\* when the thread has uninitialized it.
HeardInv ==
  /\ state_initialized_ => heard # {} /\ Current \notin Over \cup {"spawned", "exit"}
  /\ heard # {} => session \in heard

\* What has been established where the controller manager's thread is.  Until it
\* asks an active thread to stop the robot has been commanding, hence running_ tells
\* whether that thread has ended; close_udp_socket relies on it.
ManagerInv ==
  /\ cm \in {"inactive", "open", "run", "stopFt"} => Current \in Over
  /\ cm \in {"inactive", "open", "stopFt"} => ~ socketOpen
  /\ cm \in {"open", "run"} => runs < MaxRuns
  /\ cm = "awaitSession" => heard # {}
  /\ cm \in {"runFt", "active"} \/ (cm = "close" /\ leaving # "destroy") =>
       \E s \in heard : Commanding(s)
  /\ cm = "dtorFt" => leaving = "destroy"
  /\ leaving = "destroy" => ~ rosOk

\* The estimator's thread is never joined before the process exits.
JoinInv ==
  /\ joinable["ft"] \/ cm \in {"await", "awaitSession", "runFt"} => runs > 0
  /\ joinable["ft"] /\ cm \in {"await", "awaitSession", "runFt"} => runs > 1

IInv ==
  /\ TypeInv /\ OneAtATime
  /\ ReportInv /\ HeardInv /\ ManagerInv /\ JoinInv /\ DiesForKnownReasons

-----------------------------------------------------------------------------
LEMMA Bounds ==
  /\ MaxRuns \in Nat /\ MaxRuns > 0
  /\ \A i \in Run : i \in Nat /\ i > 0 /\ i <= MaxRuns
  /\ "app" \in Worker /\ "ft" \in Worker
  BY LifecycleAssumption DEF LifecycleAssumption, Run, Worker

\* The last thread is a thread of the App, or nobody has started one.
LEMMA CurrentThread ==
  ASSUME TypeInv
  PROVE  /\ Current \in Pc
         /\ runs # 0 => runs \in Run /\ Current = thread["app"][runs]
         /\ runs = 0 => Current = "done"
  BY Bounds DEF TypeInv, Current, Pc, Run

LEMMA UnmovedThreads ==
  ASSUME OneAtATime, thread' = thread, runs' = runs
  PROVE  OneAtATime' /\ Current' = Current
  BY DEF OneAtATime, Current

\* A thread that moves is, unless it is over, the last one; a thread of the
\* estimator is none of the App's.
LEMMA MovedThread ==
  ASSUME TypeInv, OneAtATime, NEW w \in Worker, NEW i \in Run,
         NEW from \in Pc \ {"none"}, NEW to \in Pc \ {"none"},
         GoThread(w, i, from, to), runs' = runs,
         from \in Over => to \in Over
  PROVE  /\ thread' \in [Worker -> [Run -> Pc]]
         /\ OneAtATime'
         /\ w = "ft" => Current' = Current
         /\ w = "app" /\ from \notin Over => Current = from /\ Current' = to
         /\ w = "app" /\ from \in Over =>
              \/ Current' = Current
              \/ Current = from /\ Current' = to
<1>1. thread' \in [Worker -> [Run -> Pc]]
  BY DEF TypeInv, GoThread
<1>2. /\ w = "ft" => thread'["app"] = thread["app"]
      /\ w = "app" => thread'["app"] = [thread["app"] EXCEPT ![i] = to]
  BY Bounds DEF TypeInv, GoThread
<1>3. thread["app"] \in [Run -> Pc] /\ w \in {"app", "ft"}
  BY Bounds DEF TypeInv, Worker
<1>4. runs \in Nat /\ i \in Nat /\ i > 0
  BY Bounds DEF TypeInv
<1>5. w = "app" => i <= runs /\ (from \notin Over => i = runs)
  BY <1>4, Bounds DEF OneAtATime, GoThread
<1>6. OneAtATime'
  BY <1>2, <1>3, <1>4, <1>5, Bounds DEF OneAtATime
<1>7. CASE w = "ft"
  BY <1>1, <1>2, <1>6, <1>7 DEF Current
<1>8. CASE w = "app" /\ i = runs
  BY <1>1, <1>2, <1>3, <1>4, <1>6, <1>8 DEF Current, GoThread
<1>9. CASE w = "app" /\ i # runs
  BY <1>1, <1>2, <1>3, <1>4, <1>5, <1>6, <1>9, CurrentThread DEF Current, GoThread
<1> QED
  BY <1>3, <1>7, <1>8, <1>9

\* Starting a thread when the last one is over.
LEMMA SpawnedThread ==
  ASSUME TypeInv, OneAtATime, runs < MaxRuns, Current \in Over,
         Spawn("app"), runs' = runs + 1
  PROVE  /\ thread' \in [Worker -> [Run -> Pc]]
         /\ runs' \in 0 .. MaxRuns /\ OneAtATime' /\ Current' = "spawned"
<1>1. thread["app"] \in [Run -> Pc] /\ runs \in Nat
  BY Bounds DEF TypeInv
<1>2. \A i \in Run : i <= runs => thread["app"][i] \in Over
  BY <1>1, Bounds, CurrentThread DEF OneAtATime
<1>3. {i \in Run : thread["app"][i] # "none"} = 1 .. runs
  <2>1. \A i \in Run : thread["app"][i] # "none" <=> i <= runs
    BY <1>1, <1>2, Bounds DEF OneAtATime, Over
  <2>2. runs <= MaxRuns
    BY Bounds DEF TypeInv
  <2> QED
    BY <1>1, <2>1, <2>2, Bounds DEF Run
<1>4. Cardinality(1 .. runs) = runs
  BY <1>1, FS_Interval
<1>5. NextRun("app") = runs + 1 /\ runs + 1 \in Run
  <2>1. NextRun("app") = Cardinality({i \in Run : thread["app"][i] # "none"}) + 1
    BY DEF NextRun
  <2>2. NextRun("app") = runs + 1
    BY <1>3, <1>4, <2>1
  <2>3. runs + 1 \in Run
    BY <1>1, Bounds DEF Run
  <2> QED
    BY <2>2, <2>3
<1>6. thread' = [thread EXCEPT !["app"][runs + 1] = "spawned"]
  BY <1>5 DEF Spawn
<1>7. /\ thread' \in [Worker -> [Run -> Pc]]
      /\ thread'["app"] = [thread["app"] EXCEPT ![runs + 1] = "spawned"]
  BY <1>6, Bounds DEF TypeInv, Pc
<1>8. OneAtATime'
  BY <1>5, <1>7, <1>1, <1>2, Bounds DEF OneAtATime
<1>9. Current' = "spawned"
  BY <1>5, <1>7, <1>1 DEF Current
<1> QED
  BY <1>7, <1>8, <1>9, Bounds, <1>5 DEF Run

-----------------------------------------------------------------------------
(* The run thread of the App *)

LEMMA AppThreadInv == ASSUME IInv, NEW i \in Run, AppThread(i) PROVE IInv'
<1> USE Bounds DEF IInv, TypeInv, ReportInv, HeardInv, ManagerInv, JoinInv,
          DiesForKnownReasons, Over, Session, Up, cmVars, workerVars, friVars
<1>1. CASE ThreadStart("app", i)
  <2>1. GoThread("app", i, "spawned", "loop") /\ runs' = runs
    BY <1>1 DEF ThreadStart
  <2>2. /\ Current = "spawned" /\ Current' = "loop"
        /\ OneAtATime' /\ thread' \in [Worker -> [Run -> Pc]]
    BY <2>1, MovedThread DEF Pc
  <2> QED
    BY <1>1, <2>2 DEF ThreadStart, Dying, GoThread
<1>2. CASE ThreadExit("app", i)
  <2>1. GoThread("app", i, "exit", "log") /\ runs' = runs
    BY <1>2 DEF ThreadExit
  <2>2. /\ Current = "exit" /\ Current' = "log"
        /\ OneAtATime' /\ thread' \in [Worker -> [Run -> Pc]]
    BY <2>1, MovedThread DEF Pc
  <2> QED
    BY <1>2, <2>2 DEF ThreadExit, GoThread
<1>3. CASE AppEnterStep(i)
  <2>1. GoThread("app", i, "loop", "step") /\ runs' = runs
    BY <1>3 DEF AppEnterStep
  <2>2. /\ Current = "loop" /\ Current' = "step"
        /\ OneAtATime' /\ thread' \in [Worker -> [Run -> Pc]]
    BY <2>1, MovedThread DEF Pc
  <2> QED
    BY <1>3, <2>2 DEF AppEnterStep, GoThread
<1>4. CASE AppLeaveLoop(i)
  <2>1. GoThread("app", i, "loop", "uninit") /\ runs' = runs
    BY <1>4 DEF AppLeaveLoop
  <2>2. /\ Current = "loop" /\ Current' = "uninit"
        /\ OneAtATime' /\ thread' \in [Worker -> [Run -> Pc]]
    BY <2>1, MovedThread DEF Pc
  <2> QED
    BY <1>4, <2>2 DEF AppLeaveLoop, GoThread
<1>5. CASE AppStepReturns(i)
  <2>1. GoThread("app", i, "received", "stepped") /\ runs' = runs
    BY <1>5 DEF AppStepReturns
  <2>2. /\ Current = "received" /\ Current' = "stepped"
        /\ OneAtATime' /\ thread' \in [Worker -> [Run -> Pc]]
    BY <2>1, MovedThread DEF Pc
  <2> QED
    BY <1>5, <2>2 DEF AppStepReturns, GoThread
<1>6. CASE AppSetRunning(i)
  <2>1. GoThread("app", i, "stepped", "check") /\ runs' = runs
    BY <1>6 DEF AppSetRunning
  <2>2. /\ Current = "stepped" /\ Current' = "check"
        /\ OneAtATime' /\ thread' \in [Worker -> [Run -> Pc]]
    BY <2>1, MovedThread DEF Pc
  <2> QED
    BY <1>6, <2>2 DEF AppSetRunning, GoThread
<1>7. CASE AppUninitialize(i)
  <2>1. GoThread("app", i, "uninit", "exit") /\ runs' = runs
    BY <1>7 DEF AppUninitialize
  <2>2. /\ Current = "uninit" /\ Current' = "exit"
        /\ OneAtATime' /\ thread' \in [Worker -> [Run -> Pc]]
    BY <2>1, MovedThread DEF Pc
  <2> QED
    BY <1>7, <2>2 DEF AppUninitialize, GoThread
<1>8. CASE ThreadLog("app", i)
  <2>1. GoThread("app", i, "log", "done") /\ runs' = runs
    BY <1>8 DEF ThreadLog
  <2>2. /\ Current' = Current \/ (Current = "log" /\ Current' = "done")
        /\ OneAtATime' /\ thread' \in [Worker -> [Run -> Pc]]
    BY <2>1, MovedThread DEF Pc
  <2> QED
    BY <1>8, <2>2 DEF ThreadLog, GoThread
<1>9. CASE AppStepFails(i)
  <2>1. PICK from \in {"step", "received"} :
          GoThread("app", i, from, "stepped") /\ runs' = runs
    BY <1>9 DEF AppStepFails
  <2>2. /\ Current = from /\ Current' = "stepped"
        /\ OneAtATime' /\ thread' \in [Worker -> [Run -> Pc]]
    BY <2>1, MovedThread DEF Pc
  <2> QED
    BY <1>9, <2>2 DEF AppStepFails, GoThread
<1>10. ASSUME NEW s \in Session, AppReceive(i, s) PROVE IInv'
  <2>1. GoThread("app", i, "step", "received") /\ runs' = runs
    BY <1>10 DEF AppReceive
  <2>2. /\ Current = "step" /\ Current' = "received"
        /\ OneAtATime' /\ thread' \in [Worker -> [Run -> Pc]]
    BY <2>1, MovedThread DEF Pc
  <2>3. running_["app"] \/ heard' = {"MONITORING"}
    BY <1>10, <2>2 DEF IInv, ReportInv, AppReceive, RobotMayReport
  <2> QED
    BY <1>10, <2>2, <2>3 DEF AppReceive, GoThread
<1>11. CASE AppCheckIdle(i)
  <2>1. /\ GoThread("app", i, "check", "uninit") \/ GoThread("app", i, "check", "loop")
        /\ runs' = runs
    BY <1>11 DEF AppCheckIdle
  <2>2. /\ Current = "check" /\ Current' \in {"uninit", "loop"}
        /\ OneAtATime' /\ thread' \in [Worker -> [Run -> Pc]]
    BY <2>1, MovedThread DEF Pc
  <2> QED
    BY <1>11, <2>2 DEF AppCheckIdle, GoThread
<1>12. CASE AppThrows(i)
  BY <1>12, UnmovedThreads DEF AppThrows, Terminate
<1> QED
  BY <1>1, <1>2, <1>3, <1>4, <1>5, <1>6, <1>7, <1>8, <1>9, <1>10, <1>11, <1>12
     DEF AppThread, ThreadStep

-----------------------------------------------------------------------------
(* The run thread of the FTEstimator *)

LEMMA FtThreadInv == ASSUME IInv, NEW i \in Run, FtThread(i) PROVE IInv'
<1> USE Bounds DEF IInv, TypeInv, ReportInv, HeardInv, ManagerInv, JoinInv,
          DiesForKnownReasons, Over, Session, Up, cmVars, workerVars, friVars
<1>1. CASE ThreadStart("ft", i)
  <2>1. GoThread("ft", i, "spawned", "begin") /\ runs' = runs
    BY <1>1 DEF ThreadStart
  <2>2. Current' = Current /\ OneAtATime' /\ thread' \in [Worker -> [Run -> Pc]]
    BY <2>1, MovedThread DEF Pc
  <2> QED
    BY <1>1, <2>2 DEF ThreadStart, GoThread
<1>2. CASE ThreadExit("ft", i)
  <2>1. GoThread("ft", i, "exit", "log") /\ runs' = runs
    BY <1>2 DEF ThreadExit
  <2>2. Current' = Current /\ OneAtATime' /\ thread' \in [Worker -> [Run -> Pc]]
    BY <2>1, MovedThread DEF Pc
  <2> QED
    BY <1>2, <2>2 DEF ThreadExit, GoThread
<1>3. CASE ThreadLog("ft", i)
  <2>1. GoThread("ft", i, "log", "done") /\ runs' = runs
    BY <1>3 DEF ThreadLog
  <2>2. Current' = Current /\ OneAtATime' /\ thread' \in [Worker -> [Run -> Pc]]
    BY <2>1, MovedThread DEF Pc
  <2> QED
    BY <1>3, <2>2 DEF ThreadLog, GoThread
<1>4. CASE FtSetRunning(i)
  <2>1. GoThread("ft", i, "begin", "loop") /\ runs' = runs
    BY <1>4 DEF FtSetRunning
  <2>2. Current' = Current /\ OneAtATime' /\ thread' \in [Worker -> [Run -> Pc]]
    BY <2>1, MovedThread DEF Pc
  <2> QED
    BY <1>4, <2>2 DEF FtSetRunning, GoThread
<1>5. CASE FtLeaveLoop(i)
  <2>1. GoThread("ft", i, "loop", "exit") /\ runs' = runs
    BY <1>5 DEF FtLeaveLoop
  <2>2. Current' = Current /\ OneAtATime' /\ thread' \in [Worker -> [Run -> Pc]]
    BY <2>1, MovedThread DEF Pc
  <2> QED
    BY <1>5, <2>2 DEF FtLeaveLoop, GoThread
<1>6. CASE PureVirtualCall(i)
  BY <1>6, UnmovedThreads DEF PureVirtualCall, Dying, Terminate
<1> QED
  BY <1>1, <1>2, <1>3, <1>4, <1>5, <1>6 DEF FtThread, ThreadStep

-----------------------------------------------------------------------------
(* The controller manager's thread *)

LEMMA ActivationInv == ASSUME IInv, Activate \/ Activation PROVE IInv'
<1> USE Bounds DEF IInv, TypeInv, ReportInv, HeardInv, ManagerInv, JoinInv,
          DiesForKnownReasons, Over, Session, Up, cmVars, workerVars, friVars
<1>1. CASE Activate
  BY <1>1, UnmovedThreads DEF Activate, GoCm
<1>2. CASE OpenFails
  BY <1>2, UnmovedThreads DEF OpenFails, GoCm
<1>3. CASE OpenOk
  BY <1>3, UnmovedThreads DEF OpenOk, GoCm
<1>4. CASE AwaitHeartbeat
  BY <1>4, UnmovedThreads DEF AwaitHeartbeat, GoCm
<1>5. CASE AwaitSession
  BY <1>5, UnmovedThreads DEF AwaitSession, GoCm
<1>6. CASE AbortActivation
  BY <1>6, UnmovedThreads DEF AbortActivation, GoCm
<1>7. CASE KeepFt
  BY <1>7, UnmovedThreads DEF KeepFt, GoCm
<1>8. CASE RestartFt
  BY <1>8, UnmovedThreads DEF RestartFt, Terminate
<1>9. CASE RunApp
  <2>1. ~ running_["app"] /\ Current \in Over /\ runs < MaxRuns
    BY <1>9 DEF IInv, ReportInv, ManagerInv, RunApp
  <2>2. Spawn("app") /\ runs' = runs + 1
    BY <1>9, <2>1 DEF RunApp
  <2>3. /\ thread' \in [Worker -> [Run -> Pc]]
        /\ runs' \in 0 .. MaxRuns /\ OneAtATime' /\ Current' = "spawned"
    BY <2>1, <2>2, SpawnedThread DEF IInv
  <2> QED
    BY <1>9, <2>1, <2>2, <2>3 DEF RunApp
<1>10. CASE StartFt
  <2>1. thread' \in [Worker -> [Run -> Pc]] /\ thread'["app"] = thread["app"]
    BY <1>10 DEF StartFt, Spawn, IInv, TypeInv, Pc
  <2>2. OneAtATime' /\ Current' = Current
    BY <1>10, <2>1 DEF IInv, StartFt, OneAtATime, Current
  <2> QED
    BY <1>10, <2>1, <2>2 DEF StartFt, GoCm
<1> QED
  BY <1>1, <1>2, <1>3, <1>4, <1>5, <1>6, <1>7, <1>8, <1>9, <1>10 DEF Activation

LEMMA LeavingInv ==
  ASSUME IInv, Read \/ Deactivate \/ Leaving \/ Destroy \/ Shutdown PROVE IInv'
<1> USE Bounds DEF IInv, TypeInv, ReportInv, HeardInv, ManagerInv, JoinInv,
          DiesForKnownReasons, Over, Session, Up, cmVars, workerVars, friVars
<1>1. CASE ReadState
  BY <1>1, UnmovedThreads DEF ReadState
<1>2. CASE ReadExit
  BY <1>2, UnmovedThreads DEF ReadExit, RequestStop
<1>3. CASE Deactivate
  BY <1>3, UnmovedThreads DEF Deactivate, GoCm, RequestStop
<1>4. CASE CloseSocket
  <2>1. OneAtATime' /\ Current' = Current
    BY <1>4, UnmovedThreads DEF IInv, CloseSocket, workerVars
  <2>2. leaving # "destroy" => Current \in Over
    <3>1. leaving # "destroy" => ~ (heard \subseteq {"MONITORING"})
      BY <1>4 DEF CloseSocket, IInv, ManagerInv, Commanding
    <3> QED
      BY <1>4, <3>1, CurrentThread
         DEF CloseSocket, IInv, TypeInv, ReportInv, Pc, Over
  <2> QED
    BY <1>4, <2>1, <2>2 DEF CloseSocket
<1>5. CASE StopFt
  BY <1>5, UnmovedThreads DEF StopFt, GoCm, RequestStop
<1>6. CASE StopNoFt
  BY <1>6, UnmovedThreads DEF StopNoFt, Terminate
<1>7. CASE DestroyFt
  BY <1>7, UnmovedThreads DEF DestroyFt, GoCm, RequestStop
<1>8. CASE DestroyRunningFt
  BY <1>8, UnmovedThreads DEF DestroyRunningFt, Terminate
<1>9. CASE Destroy
  BY <1>9, UnmovedThreads DEF Destroy
<1>10. CASE Shutdown
  BY <1>10, UnmovedThreads DEF Shutdown
<1> QED
  BY <1>1, <1>2, <1>3, <1>4, <1>5, <1>6, <1>7, <1>8, <1>9, <1>10 DEF Read, Leaving

-----------------------------------------------------------------------------
LEMMA InitInv == Init => IInv
<1> SUFFICES ASSUME Init PROVE IInv
  OBVIOUS
<1>1. Current = "done"
  BY DEF Init, Current
<1>2. TypeInv /\ OneAtATime
  BY Bounds DEF Init, TypeInv, OneAtATime, Session, Pc
<1> QED
  BY <1>1, <1>2, Bounds DEF Init, IInv, ReportInv, HeardInv, ManagerInv, JoinInv,
     DiesForKnownReasons, Over

LEMMA NextInv == IInv /\ [Next]_vars => IInv'
<1> SUFFICES ASSUME IInv, [Next]_vars PROVE IInv'
  OBVIOUS
<1>1. CASE UNCHANGED vars
  <2>1. OneAtATime' /\ Current' = Current
    BY <1>1, UnmovedThreads DEF IInv, vars, workerVars
  <2> QED
    BY <1>1, <2>1 DEF IInv, TypeInv, ReportInv, HeardInv, ManagerInv, JoinInv,
       DiesForKnownReasons, Over, Session, Up, cmVars, workerVars, friVars, vars
<1>2. CASE \E i \in Run : AppThread(i) \/ FtThread(i)
  BY <1>2, AppThreadInv, FtThreadInv
<1>3. CASE Activate \/ Activation
  BY <1>3, ActivationInv
<1>4. CASE Read \/ Deactivate \/ Leaving \/ Destroy \/ Shutdown
  BY <1>4, LeavingInv
<1> QED
  BY <1>1, <1>2, <1>3, <1>4 DEF Next, Rest

THEOREM Invariant == Spec => []IInv
  BY InitInv, NextInv, PTL DEF Spec

\* However activations and deactivations interleave with the detached run threads,
\* the state interface has one producer: the last thread, if any.
THEOREM ProducerIsSingle == Spec => []SingleProducer
<1>1. IInv => SingleProducer
  <2> SUFFICES ASSUME IInv PROVE SingleProducer
    OBVIOUS
  <2> DEFINE Producers == {i \in Run : Alive("app", i) /\ thread["app"][i] # "log"}
  <2>1. Producers \subseteq {runs}
    <3>1. runs \in Nat
      BY Bounds DEF IInv, TypeInv
    <3>2. \A i \in Producers : i \in Run /\ thread["app"][i] \notin Over \cup {"none"}
      BY DEF Alive, Over
    <3> QED
      BY <3>1, <3>2, Bounds DEF IInv, OneAtATime
  <2>2. Cardinality({runs}) = 1 /\ IsFiniteSet({runs})
    BY FS_Singleton
  <2>3. Cardinality(Producers) <= 1
    BY <2>1, <2>2, FS_Subset
  <2> QED
    BY <2>3 DEF SingleProducer
<1> QED
  BY <1>1, Invariant, PTL

\* An inactive component has no thread that produces, no state and no socket:
\* close_udp_socket's wait for running_ is enough.
THEOREM InactiveIsStopped == Spec => []StoppedWhenInactive
<1>1. IInv => StoppedWhenInactive
  <2> SUFFICES ASSUME IInv, cm = "inactive" PROVE StoppedWhenInactive
    BY DEF StoppedWhenInactive
  <2>1. Current \in Over /\ ~ state_initialized_ /\ ~ socketOpen
    BY DEF IInv, HeardInv, ManagerInv
  <2>2. \A i \in Run : thread["app"][i] \in Over \cup {"none"}
    <3>1. runs \in Nat
      BY Bounds DEF IInv, TypeInv
    <3>2. runs # 0 => thread["app"][runs] \in Over
      BY <2>1, CurrentThread DEF IInv
    <3> QED
      BY <3>1, <3>2, Bounds DEF IInv, OneAtATime
  <2> QED
    BY <2>1, <2>2 DEF StoppedWhenInactive, Over
<1> QED
  BY <1>1, Invariant, PTL

\* The heartbeat that on_activate waits for is one of this activation's session.
THEOREM HeartbeatIsFresh == Spec => []NoStaleHeartbeat
<1>1. IInv => NoStaleHeartbeat
  BY DEF IInv, HeardInv, NoStaleHeartbeat
<1> QED
  BY <1>1, Invariant, PTL

\* Before ROS shuts down the process ends for the three reasons named, and no
\* other: no start finds the App running, and no worker runs while it is destroyed.
THEOREM DeathsAreKnown == Spec => []DiesForKnownReasons
<1>1. IInv => DiesForKnownReasons
  BY DEF IInv
<1> QED
  BY <1>1, Invariant, PTL
=============================================================================
