-------------------------- MODULE CartesianWallProofs --------------------------
(***************************************************************************)
(* The safety of the Cartesian wall.  Of its protocol first: three         *)
(* threads, two of the client and one of the robot controller, meet in     *)
(* atomics and one output, and each property rests on what one of them     *)
(* cannot have missed.  Then of its law, for every configuration that the  *)
(* constructor accepts and every input: the caps, the gentle start and     *)
(* the cut.                                                                *)
(***************************************************************************)
EXTENDS CartesianWall, WallLaw, TLAPS

Atomics == [run_requested : BOOLEAN, authorized : BOOLEAN, fault : BOOLEAN,
            output : {-1, 0, 1}, has_readback : BOOLEAN, readback : BOOLEAN]

FriPc == {"idle", "disconnect", "forget", "revoke", "exchange", "latch", "requested",
          "fault", "authorize", "sample", "gap", "feedback", "authorized", "latched",
          "send", "refuse", "refuse run", "withdraw", "return", "reply"}

CallPc == {"idle", "decide", "start", "run", "stop", "revoke", "output"}

FriState == [pc : FriPc, old : Session, new : Session, active : BOOLEAN,
             velocity_initialized : BOOLEAN]

TypeInv ==
  /\ session \in Session /\ io \in BOOLEAN
  /\ shared \in Atomics
  /\ fri \in FriState
  /\ call \in [pc : CallPc, was_requested : BOOLEAN, next : BOOLEAN]
  /\ lost \in BOOLEAN /\ late \in Nat

\* Places of the FRI thread that neither follow the test of the authorization nor
\* lead to one being given.
Unauthorized == {"idle", "sample", "gap", "feedback", "authorized", "reply",
                 "disconnect", "forget"}

\* A wrench that was sent late is the only one: authorization is gone for the rest
\* of the session state, and the FRI thread is not past its test of it.
LateInv ==
  \/ late = 0
  \/ late = 1 /\ ~ shared.authorized /\ fri.pc \in Unauthorized

\* A service call that takes itself for a START, and has not requested yet.
Starting ==
  \/ call.pc = "decide" /\ ~ call.was_requested
  \/ call.pc \in {"start", "run"}

\* onStateChange() is about to take the request back.
Interrupted(f) ==
  \/ f.pc = "revoke" /\ f.old \in Commanding /\ f.new # "ACTIVE"
  \/ f.pc = "exchange"

\* A request that survives the end of commanding is still to be exchanged: the START
\* that made it was over, and no other has begun.
LossInv ==
  /\ Starting => ~ shared.run_requested /\ ~ lost
  /\ lost /\ shared.run_requested => Interrupted(fri)
  /\ fri.pc \in {"fault", "authorize"} => ~ lost

\* Sunrise has seen every level of the output since the last motion was confirmed
\* ended, or there was an edge since.
EdgeInv ==
  /\ edge \/ io = previousOutput
  /\ NoDelayedStart

\* What does not depend on the application on the robot controller.
ClientInv == TypeInv /\ LateInv /\ LossInv

IInv == TypeInv /\ LateInv /\ LossInv /\ EdgeInv

-----------------------------------------------------------------------------
(* The client *)

\* What a step of the FRI thread that leaves the robot alone may do.
Allowed(after, atomics) ==
  /\ after \in FriState /\ atomics \in Atomics
  /\ late = 0 \/ (~ atomics.authorized /\ after.pc \in Unauthorized)
  /\ atomics.run_requested => shared.run_requested
  /\ lost /\ atomics.run_requested => Interrupted(after)
  /\ after.pc \in {"fault", "authorize"} => ~ lost

LEMMA AllowedInv ==
  ASSUME ClientInv, UNCHANGED <<session, io, call, history>>, Allowed(fri', shared')
  PROVE  ClientInv'
<1>1. TypeInv'
  BY DEF ClientInv, TypeInv, Allowed, history
<1>2. LateInv'
  BY DEF ClientInv, LateInv, Allowed, history
<1>3. LossInv'
  BY DEF ClientInv, TypeInv, Atomics, LossInv, Starting, Interrupted, Allowed, history
<1> QED
  BY <1>1, <1>2, <1>3 DEF ClientInv

FriLocal ==
  \/ StepFails \/ MarkDisconnected \/ Forget
  \/ Revoke \/ Exchange \/ Latch \/ LoadRequested \/ LoadFault \/ Authorize
  \/ SampleThrows \/ SampleGap \/ LatchGap \/ StoreFeedback
  \/ LoadAuthorized \/ LoadLatched \/ ComputeThrows \/ StartRefused
  \/ RefuseLatch \/ RefuseRun \/ RefuseWithdraw \/ RefuseOutput

\* A request is only ever taken back here, and every test of the authorization or of
\* the fault comes before the step that it lets through.
LEMMA FriLocalAllowed ==
  ASSUME ClientInv, FriLocal PROVE Allowed(fri', shared')
<1> USE DEF ClientInv, TypeInv, FriStep, At, FriState, FriPc, Atomics, LateInv, Unauthorized,
            LossInv, Interrupted, Allowed
<1>1. CASE StepFails
  BY <1>1 DEF StepFails
<1>2. CASE MarkDisconnected
  BY <1>2 DEF MarkDisconnected
<1>3. CASE Forget
  BY <1>3 DEF Forget
<1>4. CASE Revoke
  BY <1>4 DEF Revoke, RevokeIf, Callback, Commanding, Session
<1>5. CASE Exchange
  BY <1>5 DEF Exchange, Callback
<1>6. CASE Latch
  BY <1>6 DEF Latch, Callback
<1>7. CASE LoadRequested
  BY <1>7 DEF LoadRequested
<1>8. CASE LoadFault
  BY <1>8 DEF LoadFault
<1>9. CASE Authorize
  BY <1>9 DEF Authorize
<1>10. CASE SampleThrows
  BY <1>10 DEF SampleThrows
<1>11. CASE SampleGap
  BY <1>11 DEF SampleGap
<1>12. CASE LatchGap
  BY <1>12 DEF LatchGap
<1>13. CASE StoreFeedback
  BY <1>13 DEF StoreFeedback
<1>14. CASE LoadAuthorized
  BY <1>14 DEF LoadAuthorized, Zero
<1>15. CASE LoadLatched
  BY <1>15 DEF LoadLatched, Zero
<1>16. CASE ComputeThrows
  BY <1>16 DEF ComputeThrows
<1>17. CASE StartRefused
  BY <1>17 DEF StartRefused
<1>18. CASE RefuseLatch
  BY <1>18 DEF RefuseLatch
<1>19. CASE RefuseRun
  BY <1>19 DEF RefuseRun
<1>20. CASE RefuseWithdraw
  BY <1>20 DEF RefuseWithdraw
<1>21. CASE RefuseOutput
  BY <1>21 DEF RefuseOutput
<1> QED
  BY <1>1, <1>2, <1>3, <1>4, <1>5, <1>6, <1>7, <1>8, <1>9, <1>10, <1>11, <1>12, <1>13, <1>14,
     <1>15, <1>16, <1>17, <1>18, <1>19, <1>20, <1>21 DEF FriLocal

\* Commanding that ends here is still to be found interrupted by Revoke.
LEMMA ReceiveInv == ASSUME ClientInv, Receive PROVE ClientInv'
<1> USE DEF ClientInv, Receive, FriState
<1>1. TypeInv'
  BY DEF TypeInv, Callback, Session, FriPc
<1>2. LateInv'
  BY DEF TypeInv, LateInv, Callback, Unauthorized
<1>3. LossInv'
  BY DEF TypeInv, LossInv, Starting, Interrupted, Callback
<1> QED
  BY <1>1, <1>2, <1>3

\* A late wrench is sent from where the authorization was tested, hence the first one.
LEMMA ReplyInv == ASSUME ClientInv, Reply PROVE ClientInv'
<1> USE DEF ClientInv, Reply, At, FriState
<1>1. TypeInv'
  <2>1. io' \in BOOLEAN
    <3>1. CASE shared.output >= 0
      BY <3>1
    <3>2. CASE ~ shared.output >= 0
      BY <3>2 DEF TypeInv
    <3> QED
      BY <3>1, <3>2
  <2>2. fri' \in FriState
    BY DEF TypeInv, FriPc
  <2>3. late' \in Nat
    BY DEF TypeInv
  <2> QED
    BY <2>1, <2>2, <2>3 DEF TypeInv
<1>2. LateInv'
  BY DEF TypeInv, LateInv, Unauthorized
<1>3. LossInv'
  BY DEF TypeInv, LossInv, Starting, Interrupted
<1> QED
  BY <1>1, <1>2, <1>3

LEMMA FriInv == ASSUME ClientInv, Fri PROVE ClientInv'
<1>1. CASE FriLocal
  <2>1. UNCHANGED <<session, io, call, history>>
    BY <1>1 DEF FriLocal, FriStep, StepFails, MarkDisconnected, Forget, Revoke, RevokeIf,
                Exchange, Latch, LoadRequested, LoadFault, Authorize, SampleThrows, SampleGap,
                LatchGap, StoreFeedback, LoadAuthorized, LoadLatched, ComputeThrows,
                StartRefused, RefuseLatch, RefuseRun, RefuseWithdraw, RefuseOutput
  <2> QED
    BY <1>1, <2>1, FriLocalAllowed, AllowedInv
<1> QED
  BY <1>1, ReceiveInv, ReplyInv DEF Fri, FriLocal

\* No step of the ROS thread gives an authorization, and one that requests follows a
\* START that was called since commanding last ended.
LEMMA RosInv == ASSUME ClientInv, Ros PROVE ClientInv'
<1> USE DEF ClientInv, TypeInv, LateInv, LossInv, Starting, Interrupted, Step, NoCall, CallPc,
            Atomics, history
<1>1. CASE ToggleCalled
  BY <1>1 DEF ToggleCalled
<1>2. CASE ToggleDecides
  BY <1>2 DEF ToggleDecides
<1>3. CASE ToggleClears
  BY <1>3 DEF ToggleClears
<1>4. CASE ToggleRuns
  BY <1>4 DEF ToggleRuns
<1>5. CASE ToggleStops
  BY <1>5 DEF ToggleStops
<1>6. CASE ToggleRevokes
  BY <1>6 DEF ToggleRevokes
<1>7. CASE ToggleOutput
  BY <1>7 DEF ToggleOutput
<1>8. CASE PublishStale
  BY <1>8 DEF PublishStale
<1> QED
  BY <1>1, <1>2, <1>3, <1>4, <1>5, <1>6, <1>7, <1>8 DEF Ros, Toggle

-----------------------------------------------------------------------------
(* The robot, and the whole *)

\* What the output did is an edge, or Sunrise has seen it.
LEMMA ClientStepInv == ASSUME IInv, Client PROVE IInv'
<1>1. ClientInv'
  BY FriInv, RosInv DEF IInv, ClientInv, Client
<1>2. EdgeInv'
  BY DEF IInv, EdgeInv, NoDelayedStart, Client
<1> QED
  BY <1>1, <1>2 DEF IInv, ClientInv

LEMMA RobotStepInv == ASSUME IInv, Robot PROVE IInv'
<1>1. io' = io /\ session' \in Session
  BY DEF IInv, TypeInv, Session, Robot, Sunrise!Run, Sunrise!Observe, Sunrise!NoticeEnd,
         Sunrise!EdgeStops, Sunrise!EdgeStarts, Sunrise!EdgeIgnored, Sunrise!StartCancelled,
         Sunrise!StartFails, Sunrise!CancelHold, Sunrise!StartMotion, Sunrise!StopConfirmed,
         Sunrise!StopTimesOut, Sunrise!Close, Sunrise!StopKey, Sunrise!SessionProgresses,
         Sunrise!MotionEnds
<1>2. ClientInv'
  BY <1>1 DEF IInv, ClientInv, TypeInv, LateInv, LossInv, Starting, Interrupted, Robot,
              clientVars, history
<1>3. EdgeInv'
  BY DEF IInv, EdgeInv, NoDelayedStart, Robot, Sunrise!Run, Sunrise!Observe,
         Sunrise!NoticeEnd, Sunrise!EdgeStops, Sunrise!EdgeStarts, Sunrise!EdgeIgnored,
         Sunrise!StartCancelled, Sunrise!StartFails, Sunrise!CancelHold, Sunrise!StartMotion,
         Sunrise!StopConfirmed, Sunrise!StopTimesOut, Sunrise!Close, Sunrise!StopKey,
         Sunrise!SessionProgresses, Sunrise!MotionEnds
<1> QED
  BY <1>2, <1>3 DEF IInv, ClientInv

LEMMA InitInv == Init => IInv
<1> SUFFICES ASSUME Init PROVE IInv
  OBVIOUS
<1> USE DEF Init, ClientInit, NoCall, Sunrise!SunriseInit
<1>1. TypeInv
  BY DEF TypeInv, Session, Atomics, FriState, FriPc, CallPc
<1>2. LateInv /\ LossInv
  BY DEF LateInv, LossInv, Starting, Interrupted
<1>3. EdgeInv
  BY DEF EdgeInv, NoDelayedStart
<1> QED
  BY <1>1, <1>2, <1>3 DEF IInv

LEMMA StutterInv == ASSUME IInv, UNCHANGED vars PROVE IInv'
  BY DEF vars, clientVars, history, Sunrise!sunriseVars, IInv, TypeInv, LateInv, LossInv,
         Starting, Interrupted, EdgeInv, NoDelayedStart

LEMMA NextInv == IInv /\ [Next]_vars => IInv'
  BY ClientStepInv, RobotStepInv, StutterInv DEF Next

-----------------------------------------------------------------------------
(* The theorems *)

\* The inductive invariant holds of every behaviour of the client and the robot.
THEOREM Invariant == Spec => []IInv
  BY InitInv, NextInv, PTL DEF Spec

\* However authorization ends in a session, at most the wrench that command() is
\* computing is still sent: its next call reads the atomic again.
THEOREM AtMostOneLateWrench == Spec => []OneCycleLate
<1>1. IInv => OneCycleLate
  BY DEF IInv, LateInv, OneCycleLate
<1> QED
  BY <1>1, Invariant, PTL

\* An edge that Sunrise takes for a START came after the last motion was confirmed
\* ended (stopOverlayAndConfirm(), and the end that run() notices).
THEOREM StartIsNotDelayed == Spec => []NoDelayedStart
<1>1. IInv => NoDelayedStart
  BY DEF IInv, EdgeInv
<1> QED
  BY <1>1, Invariant, PTL

\* Only the last step of onStateChange() authorizes, and it is not reached with a request
\* from before commanding last ended.
LEMMA OnlyAuthorize ==
  ASSUME IInv, Next, ~ shared.authorized, shared'.authorized PROVE ~ lost
<1> USE DEF IInv, TypeInv, Atomics, FriStep, Step
<1>1. ~ Ros
  BY DEF Ros, Toggle, ToggleCalled, ToggleDecides, ToggleClears, ToggleRuns, ToggleStops,
         ToggleRevokes, ToggleOutput, PublishStale
<1>2. ~ Robot
  BY DEF Robot, clientVars
<1>3. Fri
  BY <1>1, <1>2 DEF Next, Client
<1>4. Authorize
  BY <1>3 DEF Fri, Receive, StepFails, MarkDisconnected, Forget, Revoke, RevokeIf,
              Exchange, Latch, LoadRequested, LoadFault, SampleThrows, SampleGap,
              LatchGap, StoreFeedback, LoadAuthorized, LoadLatched, ComputeThrows,
              StartRefused, RefuseLatch, RefuseRun, RefuseWithdraw, RefuseOutput, Reply
<1> QED
  BY <1>4 DEF Authorize, LossInv

\* An authorization is granted by a START that was called after commanding last ended
\* against a request: the operator asks again after every interruption.
THEOREM AuthorizedByNewStart == Spec => LossNeedsStart
<1>1. IInv /\ [Next]_vars => [~ shared.authorized /\ shared'.authorized => ~ lost]_vars
  BY OnlyAuthorize
<1> QED
  BY <1>1, Invariant, PTL DEF Spec, LossNeedsStart

-----------------------------------------------------------------------------
(* The law: the wall and what it lets the controller send *)

LawTypeInv ==
  /\ config \in Configs /\ Valid(config)
  /\ active \in BOOLEAN
  /\ previous_command \in Int /\ previous_wrench \in Int
  /\ wall \in Int /\ start \in Int

\* A start that is still to be updated has nothing left of the last segment.
StartInv ==
  start # NoStart =>
    /\ active /\ MayStart(start) /\ start \in Angles
    /\ previous_command = 0 /\ previous_wrench = 0

\* The command is never against the wall of the update it comes from.
WallInv == (wall > 0 => previous_command >= 0) /\ (wall < 0 => previous_command <= 0)

-----------------------------------------------------------------------------
(* Integer arithmetic *)

LEMMA Product ==
  ASSUME NEW a \in Nat, NEW b \in Nat PROVE a * b \in Nat
  OBVIOUS

LEMMA PositiveProduct ==
  ASSUME NEW a \in Nat \ {0}, NEW b \in Nat \ {0} PROVE a * b \in Nat \ {0}
  OBVIOUS

LEMMA Opposite ==
  ASSUME NEW a \in Int, NEW b \in Int
  PROVE  a * b < 0 <=> (a < 0 /\ b > 0) \/ (a > 0 /\ b < 0)
  OBVIOUS

LEMMA Agreeing ==
  ASSUME NEW a \in Int, NEW b \in Int, a > 0 => b >= 0, a < 0 => b <= 0
  PROVE  a * b >= 0
  OBVIOUS

LEMMA Disagreeing ==
  ASSUME NEW a \in Int, NEW b \in Int, a > 0 => b <= 0, a < 0 => b >= 0
  PROVE  a * b <= 0
  OBVIOUS

-----------------------------------------------------------------------------
(* The operators of one update *)

\* What a configuration that the constructor accepts is made of.
LEMMA ConfigType ==
  ASSUME LawTypeInv
  PROVE  /\ config.lower \in Int /\ config.upper \in Int /\ config.activation \in Int
         /\ config.full_wall_reserve \in Int /\ config.activation > config.full_wall_reserve
         /\ config.full_wall_reserve > 0
         /\ config.prediction \in Nat /\ config.startup_clearance \in Nat
         /\ config.outward_task_scale \in Nat
         /\ config.wall_stiffness \in Nat /\ config.wall_damping \in Nat
         /\ config.wall_torque_cap \in Nat /\ config.overlay_torque_cap \in Nat
         /\ config.force_cap \in Nat
         /\ config.overlay_torque_rate \in Nat \ {0} /\ config.wrench_rate \in Nat \ {0}
  BY LawAssumption DEF LawAssumption, LawTypeInv, Valid

LEMMA WallOfType ==
  ASSUME LawTypeInv, NEW side \in {-1, 1}, NEW q \in Int, NEW dq \in Int
  PROVE  WallOf(side, q, dq) \in Int
<1> DEFINE distance == IF side > 0 THEN config.upper - q ELSE q - config.lower
           outward == Larger(0, side * dq)
           penetration == Larger(0, config.activation - distance + config.prediction * outward)
           width == config.activation - config.full_wall_reserve
           x == Clamp(Smaller(penetration, config.activation), 0, width)
           blend == x * x * (3 * width - 2 * x)
           force == config.wall_stiffness * penetration + config.wall_damping * outward
<1>1. distance \in Int /\ width \in Nat
  BY ConfigType
<1>2. side * dq \in Int
  OBVIOUS
<1>3. outward \in Nat
  BY <1>2 DEF Larger
<1>4. config.prediction * outward \in Nat
  BY <1>3, ConfigType, Product
<1>5. penetration \in Nat
  BY <1>1, <1>4, ConfigType DEF Larger
<1>6. x \in Int
  <2>1. width \in Nat /\ penetration \in Nat
    BY <1>1, <1>5
  <2> HIDE DEF width, penetration
  <2> QED
    BY <2>1, ConfigType DEF x, Clamp, Larger, Smaller
<1>7. blend \in Int
  BY <1>1, <1>6
<1>8. force \in Int
  <2> config.wall_stiffness * penetration \in Nat /\ config.wall_damping * outward \in Nat
    BY <1>3, <1>5, ConfigType, Product
  <2> QED
    OBVIOUS
<1>9. - side * blend * force \in Int
  BY <1>7, <1>8
<1>10. WallOf(side, q, dq) = - side * blend * force
  BY Zenon DEF WallOf
<1> QED
  BY <1>9, <1>10

LEMMA WallCapped ==
  ASSUME LawTypeInv, NEW q \in Int, NEW dq \in Int
  PROVE  Wall(q, dq) \in Int /\ Abs(Wall(q, dq)) <= config.wall_torque_cap
<1> DEFINE both == WallOf(-1, q, dq) + WallOf(1, q, dq)
           cap == config.wall_torque_cap
<1>1. both \in Int /\ cap \in Nat
  BY WallOfType, ConfigType
<1>2. Wall(q, dq) = Clamp(both, - cap, cap)
  BY DEF Wall
<1> HIDE DEF both, cap
<1>3. Wall(q, dq) \in Int /\ Abs(Wall(q, dq)) <= cap
  BY <1>1, <1>2 DEF Clamp, Larger, Smaller, Abs
<1> QED
  BY <1>3 DEF cap

\* The command is capped, slewed and then, against the wall, cut to zero.
LEMMA CommandCapped ==
  ASSUME LawTypeInv, NEW task \in Int, NEW w \in Int, NEW dt \in Nat \ {0},
         Abs(previous_command) <= config.overlay_torque_cap
  PROVE  /\ Command(task, w, dt) \in Int
         /\ Abs(Command(task, w, dt)) <= config.overlay_torque_cap
         /\ w > 0 => Command(task, w, dt) >= 0
         /\ w < 0 => Command(task, w, dt) <= 0
         /\ \/ Abs(Command(task, w, dt) - previous_command) <= config.overlay_torque_rate * dt
            \/ Command(task, w, dt) = 0 /\ w * previous_command < 0
<1> DEFINE cap == config.overlay_torque_cap
           raw == Clamp(Priority(task, w) + w, - cap, cap)
           delta == config.overlay_torque_rate * dt
           commanded == Clamp(raw, previous_command - delta, previous_command + delta)
<1>1. Priority(task, w) \in Int
  BY ConfigType DEF Priority
<1>2. raw \in Int /\ - cap <= raw /\ raw <= cap
  <2> DEFINE sum == Priority(task, w) + w
  <2>1. sum \in Int /\ cap \in Nat /\ raw = Clamp(sum, - cap, cap)
    BY <1>1, ConfigType
  <2> HIDE DEF sum, cap, raw
  <2> QED
    BY <2>1 DEF Clamp, Larger, Smaller
<1>3. delta \in Nat
  BY ConfigType, Product
<1>4. - cap <= previous_command /\ previous_command <= cap /\ previous_command \in Int
  BY ConfigType DEF LawTypeInv, Abs
<1>5. commanded \in Int /\ - cap <= commanded /\ commanded <= cap
  <2>1. cap \in Nat
    BY ConfigType
  <2> HIDE DEF raw, delta, cap
  <2> QED
    BY <2>1, <1>2, <1>3, <1>4 DEF Clamp, Larger, Smaller
<1>6. Command(task, w, dt) = IF w # 0 /\ commanded * w < 0 THEN 0 ELSE commanded
  BY DEF Command
<1>11. Abs(commanded - previous_command) <= delta
  <2> HIDE DEF raw, delta
  <2> QED
    BY <1>2, <1>3, <1>4 DEF Clamp, Larger, Smaller, Abs
<1> HIDE DEF commanded, cap, delta
<1>12. w # 0 /\ commanded * w < 0 =>
         Abs(0 - previous_command) <= delta \/ w * previous_command < 0
  <2> SUFFICES ASSUME commanded * w < 0, ~ w * previous_command < 0
               PROVE  Abs(0 - previous_command) <= delta
    OBVIOUS
  <2>1. (commanded < 0 /\ w > 0) \/ (commanded > 0 /\ w < 0)
    BY <1>5, Opposite
  <2>2. ~ ((w < 0 /\ previous_command > 0) \/ (w > 0 /\ previous_command < 0))
    BY <1>4, Opposite
  <2> QED
    BY <2>1, <2>2, <1>3, <1>4, <1>5, <1>11 DEF Abs
<1>13. \/ Abs(Command(task, w, dt) - previous_command) <= delta
       \/ Command(task, w, dt) = 0 /\ w * previous_command < 0
  BY <1>6, <1>11, <1>12
<1>7. w > 0 /\ ~ commanded * w < 0 => commanded >= 0
  BY <1>5
<1>8. w < 0 /\ ~ commanded * w < 0 => commanded <= 0
  BY <1>5
<1>9. cap \in Nat
  BY ConfigType DEF cap
<1>10. Command(task, w, dt) \in Int /\ Abs(Command(task, w, dt)) <= cap
  BY <1>5, <1>6, <1>9 DEF Abs
<1> QED
  BY <1>6, <1>7, <1>8, <1>10, <1>13 DEF cap, delta

\* The wrench is capped and slewed, whatever it is mapped from.
LEMMA WrenchCapped ==
  ASSUME LawTypeInv, NEW mapped \in Int, NEW dt \in Nat \ {0},
         Abs(previous_wrench) <= config.force_cap
  PROVE  /\ Wrench(mapped, dt) \in Int
         /\ Abs(Wrench(mapped, dt)) <= config.force_cap
         /\ previous_wrench = 0 => Abs(Wrench(mapped, dt)) <= config.wrench_rate * dt
<1> DEFINE cap == config.force_cap
           raw == Clamp(mapped, - cap, cap)
           delta == config.wrench_rate * dt
<1>1. raw \in Int /\ - cap <= raw /\ raw <= cap
  BY ConfigType DEF Clamp, Larger, Smaller
<1>2. delta \in Nat \ {0}
  BY ConfigType, PositiveProduct
<1>3. - cap <= previous_wrench /\ previous_wrench <= cap /\ previous_wrench \in Int /\ cap \in Nat
  BY ConfigType DEF LawTypeInv, Abs
<1>4. Wrench(mapped, dt) = Clamp(raw, previous_wrench - delta, previous_wrench + delta)
  BY DEF Wrench
<1> HIDE DEF raw, delta, cap
<1>5. Wrench(mapped, dt) \in Int /\ - cap <= Wrench(mapped, dt) /\ Wrench(mapped, dt) <= cap
  BY <1>1, <1>2, <1>3, <1>4 DEF Clamp, Larger, Smaller
<1>6. previous_wrench = 0 => Abs(Wrench(mapped, dt)) <= delta
  BY <1>1, <1>2, <1>3, <1>4 DEF Clamp, Larger, Smaller, Abs
<1>7. Abs(Wrench(mapped, dt)) <= cap
  BY <1>3, <1>5 DEF Abs
<1> QED
  BY <1>5, <1>6, <1>7 DEF cap, delta

-----------------------------------------------------------------------------
(* The specification *)

LEMMA LawInitInv == LawInit => LawTypeInv /\ StartInv /\ WallInv /\ WithinCaps
<1> SUFFICES ASSUME LawInit PROVE LawTypeInv /\ StartInv /\ WallInv /\ WithinCaps
  OBVIOUS
<1>1. LawTypeInv /\ StartInv
  <2>1. config \in Configs /\ Valid(config)
    BY DEF LawInit
  <2>2. NoStart \in Int
    BY DEF NoStart
  <2>3. active \in BOOLEAN /\ StartInv
    BY Zenon DEF LawInit, StartInv
  <2> QED
    BY <2>1, <2>2, <2>3 DEF LawInit, LawTypeInv
<1>2. WithinCaps
  BY <1>1, ConfigType DEF LawInit, WithinCaps, Abs
<1>3. WallInv
  BY DEF LawInit, WallInv
<1> QED
  BY <1>1, <1>2, <1>3

\* What an update does, to be cited with the sample that it takes.
LEMMA UpdateStep ==
  ASSUME LawTypeInv, StartInv, WithinCaps, Update
  PROVE  \E q \in Angles, dq \in Speeds, task \in Tasks, mapped \in Mapped, dt \in Intervals :
           /\ start # NoStart => q = start /\ dq = 0
           /\ q \in Int /\ dq \in Int /\ task \in Int /\ mapped \in Int /\ dt \in Nat \ {0}
           /\ wall' = Wall(q, dq)
           /\ previous_command' = Command(task, wall', dt)
           /\ previous_wrench' = Wrench(mapped, dt)
<1>1. Angles \subseteq Int
  BY ConfigType DEF Angles
<1> QED
  BY <1>1, LawAssumption DEF LawAssumption, Update

LEMMA UpdateInv ==
  ASSUME LawTypeInv, StartInv, WithinCaps, Update PROVE LawTypeInv' /\ StartInv' /\ WallInv' /\ WithinCaps'
<1>1. PICK q \in Angles, dq \in Speeds, task \in Tasks, mapped \in Mapped, dt \in Intervals :
           /\ q \in Int /\ dq \in Int /\ task \in Int /\ mapped \in Int /\ dt \in Nat \ {0}
           /\ wall' = Wall(q, dq)
           /\ previous_command' = Command(task, wall', dt)
           /\ previous_wrench' = Wrench(mapped, dt)
  BY UpdateStep
<1>2. UNCHANGED config /\ active' = active /\ start' = NoStart
  BY DEF Update
<1>3. wall' \in Int /\ Abs(wall') <= config.wall_torque_cap
  BY <1>1, WallCapped
<1>4. previous_command' \in Int /\ Abs(previous_command') <= config.overlay_torque_cap
  BY <1>1, <1>3, CommandCapped DEF WithinCaps
<1>5. previous_wrench' \in Int /\ Abs(previous_wrench') <= config.force_cap
  BY <1>1, <1>4, WrenchCapped DEF WithinCaps
<1>7. WallInv'
  BY <1>1, <1>3, CommandCapped DEF WithinCaps, WallInv
<1>6. LawTypeInv' /\ StartInv'
  BY <1>2, <1>3, <1>4, <1>5 DEF LawTypeInv, StartInv, NoStart, Valid
<1> QED
  BY <1>2, <1>3, <1>4, <1>5, <1>6, <1>7 DEF WithinCaps

LEMMA LawStepInv ==
  LawTypeInv /\ StartInv /\ WallInv /\ WithinCaps /\ [LawNext]_lawVars
    => LawTypeInv' /\ StartInv' /\ WallInv' /\ WithinCaps'
<1> SUFFICES ASSUME LawTypeInv, StartInv, WallInv, WithinCaps, [LawNext]_lawVars
             PROVE  LawTypeInv' /\ StartInv' /\ WallInv' /\ WithinCaps'
  OBVIOUS
<1>1. Abs(0) = 0
  BY DEF Abs
<1>2. CASE Activate
  <2>1. LawTypeInv'
    BY <1>2, ConfigType DEF Activate, Reset, LawTypeInv, Angles, Valid
  <2>2. StartInv'
    BY <1>2 DEF Activate, Reset, StartInv, MayStart, Margin, Angles
  <2>3. WithinCaps'
    BY <1>1, <1>2, ConfigType DEF Activate, Reset, WithinCaps
  <2>4. WallInv'
    BY <1>2 DEF Activate, Reset, WallInv
  <2> QED
    BY <2>1, <2>2, <2>3, <2>4
<1>3. CASE Deactivate
  <2>1. LawTypeInv'
    <3>1. active' \in BOOLEAN /\ UNCHANGED config
      BY <1>3, Zenon DEF Deactivate
    <3>2. start' \in Int
      BY <1>3 DEF Deactivate, NoStart
    <3> QED
      BY <1>3, <3>1, <3>2 DEF Deactivate, Reset, LawTypeInv, Valid
  <2>3. StartInv'
    BY <1>3 DEF Deactivate, StartInv
  <2>2. WithinCaps'
    BY <1>1, <1>3, ConfigType DEF Deactivate, Reset, WithinCaps
  <2>4. WallInv'
    BY <1>3 DEF Deactivate, Reset, WallInv
  <2> QED
    BY <2>1, <2>2, <2>3, <2>4
<1>4. CASE Update
  BY <1>4, UpdateInv
<1>5. CASE UNCHANGED lawVars
  BY <1>5 DEF lawVars, LawTypeInv, StartInv, WallInv, WithinCaps, Valid, MayStart, Margin, Angles
<1> QED
  BY <1>2, <1>3, <1>4, <1>5 DEF LawNext

LEMMA Invariance == LawSpec => [](LawTypeInv /\ StartInv /\ WallInv /\ WithinCaps)
  BY LawInitInv, LawStepInv, PTL DEF LawSpec

\* Neither torque, wrench nor wall ever leaves its cap, for every configuration
\* and input that update() takes (cartesian_wall_controller.hpp).
THEOREM CapsHold == LawSpec => []WithinCaps
  BY Invariance, PTL

\* The clearance of a start keeps it out of the reach of both walls.
LEMMA StartIsFree ==
  ASSUME LawTypeInv, NEW q \in Int, MayStart(q) PROVE Wall(q, 0) = 0
<1>1. ASSUME NEW side \in {-1, 1} PROVE WallOf(side, q, 0) = 0
  <2> DEFINE distance == IF side > 0 THEN config.upper - q ELSE q - config.lower
             penetration == Larger(0, config.activation - distance + config.prediction * Larger(0, side * 0))
             width == config.activation - config.full_wall_reserve
             x == Clamp(Smaller(penetration, config.activation), 0, width)
             blend == x * x * (3 * width - 2 * x)
             force == config.wall_stiffness * penetration + config.wall_damping * Larger(0, side * 0)
  <2>1. Larger(0, side * 0) = 0
    BY DEF Larger
  <2>2. penetration \in Nat /\ x \in Int /\ width \in Nat
    <3>1. config.prediction * Larger(0, side * 0) = 0
      BY <2>1, ConfigType
    <3>2. distance \in Int /\ width \in Nat
      BY ConfigType
    <3>3. penetration \in Nat
      BY <3>1, <3>2, ConfigType DEF Larger
    <3> HIDE DEF penetration, width
    <3> QED
      BY <3>2, <3>3, ConfigType DEF x, Clamp, Larger, Smaller
  <2>3. force = 0
    <3>1. config.wall_damping * Larger(0, side * 0) = 0
      BY <2>1, ConfigType
    <3>2. config.wall_stiffness > 0 => penetration = 0
      <4>1. config.wall_stiffness > 0 => config.activation - distance < 0
        BY ConfigType DEF MayStart, Margin
      <4>2. config.prediction * Larger(0, side * 0) = 0 /\ distance \in Int
        BY <2>1, ConfigType
      <4> QED
        BY <4>1, <4>2, ConfigType DEF Larger
    <3>3. config.wall_stiffness * penetration = 0
      <4> HIDE DEF penetration
      <4> QED
        BY <2>2, <3>2, ConfigType
    <3> QED
      BY <3>1, <3>3
  <2>4. WallOf(side, q, 0) = - side * blend * force
    BY Zenon DEF WallOf
  <2>5. blend \in Int
    BY <2>2
  <2> HIDE DEF blend, force
  <2> QED
    BY <2>3, <2>4, <2>5
<1>2. WallOf(-1, q, 0) + WallOf(1, q, 0) = 0
  BY <1>1
<1> QED
  BY <1>2, ConfigType DEF Wall, Clamp, Larger, Smaller

\* A segment starts without a wall and with one slew step of wrench at most,
\* whatever the last segment ended with and wherever the start was accepted.
THEOREM StartsAreGentle == LawSpec => StartsGently
<1> DEFINE Gentle == start # NoStart /\ active'
                       => /\ wall' = 0
                          /\ \E dt \in Intervals : Abs(previous_wrench') <= config.wrench_rate * dt
<1>1. LawTypeInv /\ StartInv /\ WallInv /\ WithinCaps /\ [LawNext]_lawVars => [Gentle]_lawVars
  <2> SUFFICES ASSUME LawTypeInv, StartInv, WallInv, WithinCaps, LawNext, start # NoStart, active' PROVE Gentle
    BY DEF lawVars
  <2>1. active /\ MayStart(start) /\ start \in Int /\ previous_wrench = 0
    BY DEF StartInv, LawTypeInv
  <2>2. Update
    BY <2>1, Zenon DEF LawNext, Activate, Deactivate
  <2>3. PICK q \in Angles, dq \in Speeds, task \in Tasks, mapped \in Mapped, dt \in Intervals :
           /\ q = start /\ dq = 0
           /\ task \in Int /\ mapped \in Int /\ dt \in Nat \ {0}
           /\ wall' = Wall(q, dq)
           /\ previous_command' = Command(task, wall', dt)
           /\ previous_wrench' = Wrench(mapped, dt)
    BY <2>2, UpdateStep
  <2>4. wall' = 0
    BY <2>1, <2>3, StartIsFree
  <2>6. Abs(previous_wrench') <= config.wrench_rate * dt
    BY <2>1, <2>3, WrenchCapped DEF WithinCaps
  <2> QED
    BY <2>4, <2>6
<1> QED
  BY <1>1, Invariance, PTL DEF LawSpec, StartsGently

\* Only a wall that has not been felt before cuts a command, for every rate, cap
\* and task; while it is felt the command stays on its side.
THEOREM NewWallCuts == LawSpec => OnlyNewWallCuts
<1> DEFINE Cuts == active /\ active' =>
                     /\ wall' * previous_command' >= 0
                     /\ \/ \E dt \in Intervals :
                             Abs(previous_command' - previous_command)
                               <= config.overlay_torque_rate * dt
                        \/ /\ previous_command' = 0 /\ wall' * previous_command < 0
                           /\ wall' * wall <= 0
<1>1. LawTypeInv /\ StartInv /\ WallInv /\ WithinCaps /\ [LawNext]_lawVars => [Cuts]_lawVars
  <2> SUFFICES ASSUME LawTypeInv, StartInv, WallInv, WithinCaps, LawNext, active, active'
               PROVE  Cuts
    BY DEF lawVars
  <2>1. Update
    BY Zenon DEF LawNext, Activate, Deactivate
  <2>2. PICK q \in Angles, dq \in Speeds, task \in Tasks, mapped \in Mapped, dt \in Intervals :
           /\ q \in Int /\ dq \in Int /\ task \in Int /\ mapped \in Int /\ dt \in Nat \ {0}
           /\ wall' = Wall(q, dq)
           /\ previous_command' = Command(task, wall', dt)
           /\ previous_wrench' = Wrench(mapped, dt)
    BY <2>1, UpdateStep
  <2>3. wall' \in Int
    BY <2>2, WallCapped
  <2>4. /\ previous_command' \in Int
        /\ wall' > 0 => previous_command' >= 0
        /\ wall' < 0 => previous_command' <= 0
        /\ \/ Abs(previous_command' - previous_command) <= config.overlay_torque_rate * dt
           \/ previous_command' = 0 /\ wall' * previous_command < 0
    BY <2>2, <2>3, CommandCapped DEF WithinCaps
  <2>5. wall' * previous_command' >= 0
    BY <2>3, <2>4, Agreeing
  <2>6. ASSUME wall' * previous_command < 0 PROVE wall' * wall <= 0
    <3>1. (wall' < 0 /\ previous_command > 0) \/ (wall' > 0 /\ previous_command < 0)
      BY <2>3, <2>6, Opposite DEF LawTypeInv
    <3>2. (wall' > 0 => wall <= 0) /\ (wall' < 0 => wall >= 0)
      BY <2>3, <3>1 DEF WallInv, LawTypeInv
    <3> QED
      BY <2>3, <3>2, Disagreeing DEF LawTypeInv
  <2> QED
    BY <2>2, <2>4, <2>5, <2>6
<1> QED
  BY <1>1, Invariance, PTL DEF LawSpec, OnlyNewWallCuts
=============================================================================
