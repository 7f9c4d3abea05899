------------------------------- MODULE Telemetry -------------------------------
(***************************************************************************)
(* The way of a measurement from the robot to the telemetry topics: the    *)
(* state interface, read() with the velocity that it computes, the state   *)
(* broadcaster, whose message waits in its real-time publisher, the topic, *)
(* whose subscription queues messages, and the telemetry bridge, which     *)
(* maps the robot's clock to the host's.                                   *)
(*                                                                         *)
(* A measurement is a packet of the robot, its number and time stamp;      *)
(* number 0 is the NaN of the initial message and interfaces.  The host's  *)
(* clock may be stepped, the robot's restarts with a session, and any      *)
(* thread may be late.  The range checks of map() and _on_state() are left *)
(* out, as they pass: no clock is negative, and a mapped time lies between *)
(* zero and the arrival.                                                   *)
(***************************************************************************)
EXTENDS TimeMapper, Sequences

CONSTANTS
  PerSecond,  \* units of time in a second of the time stamp
  MaxAge,     \* _max_age_ns
  Depth,      \* of the bridge's subscription
  Horizon,    \* bound of the model: time
  Packets,    \* bound of the model: packets
  Steps       \* bound of the model: steps and restarts of clocks, reactivations

ASSUME TelemetryAssumption ==
  /\ PerSecond \in Nat \ {0} /\ MaxAge \in Nat /\ Depth \in Nat \ {0}
  /\ Horizon \in Nat /\ Packets \in Nat /\ Steps \in Nat

VARIABLES
  now,        \* time.monotonic_ns()
  ros, clock, \* the host's and the robot's clock
  steps,
  initialized, state,  \* StateInterface
  hw, last_hw,         \* state interfaces exported by the driver; last_hw_*
  velocity,            \* hw_velocity_: the two packets it was computed from
  active,              \* the broadcaster
  msg, waiting,        \* its message; handed to the publisher's thread
  topic,               \* messages that the bridge's subscription has received
  mapper, last,        \* NativeTimeMapper; _last_segment, _last_position
  published            \* last derived message

clocks == <<now, ros, clock, steps>>
robot == <<clocks, initialized, state>>
driver == <<hw, last_hw, velocity>>
broadcaster == <<active, msg, waiting, topic>>
bridge == <<mapper, last, published>>
vars == <<robot, driver, broadcaster, bridge>>

NaN == [id |-> 0, stamp |-> 0]
Sec(p) == p.stamp \div PerSecond
NanoSec(p) == p.stamp % PerSecond

Init ==
  /\ now = 0 /\ ros = Steps /\ clock = 1 /\ steps = 0
  /\ initialized = FALSE /\ state = NaN
  /\ hw = NaN /\ last_hw = NaN /\ velocity = <<NaN, NaN>>
  /\ active = TRUE /\ msg = NaN /\ waiting = FALSE /\ topic = <<>>
  /\ mapper = NewMapper /\ last = [segment |-> 0, id |-> 0, stamp |-> 0]
  /\ published = [id |-> 0, native |-> 0, stamp |-> 0, segment |-> 0,
                  ros |-> 0, now |-> 0, from |-> 0]

-----------------------------------------------------------------------------
(* Time, and the robot *)

Tick ==
  /\ now < Horizon
  /\ now' = now + 1 /\ ros' = ros + 1 /\ clock' = clock + 1
  /\ UNCHANGED <<steps, initialized, state, driver, broadcaster, bridge>>

StepHostClock ==
  /\ steps < Steps /\ steps' = steps + 1
  /\ ros' \in {ros - ClockJump - 1, ros - 1, ros + 1, ros + ClockJump + 1} /\ ros' >= 0
  /\ UNCHANGED <<now, clock, initialized, state, driver, broadcaster, bridge>>

\* The session ends; the robot may be restarted before the next.
SessionEnds ==
  /\ initialized /\ initialized' = FALSE
  /\ \/ UNCHANGED <<clock, steps>>
     \/ steps < Steps /\ steps' = steps + 1 /\ clock' = 1
  /\ UNCHANGED <<now, ros, state, driver, broadcaster, bridge>>

Packet ==
  /\ clock # state.stamp \/ state.id = 0
  /\ initialized' = TRUE /\ state' = [id |-> state.id + 1, stamp |-> clock]
  /\ state.id < Packets
  /\ UNCHANGED <<clocks, driver, broadcaster, bridge>>

-----------------------------------------------------------------------------
(* Controller manager *)

\* Plausible bug: one of the two numbers is enough to tell states apart.
ComputeVelocityNano(p) ==
  IF last_hw.id = 0 \/ NanoSec(last_hw) = NanoSec(p)
    THEN velocity ELSE <<last_hw, p>>

\* compute_hw_velocity_()
ComputeVelocity(p) ==
  IF last_hw.id = 0 \/ (Sec(last_hw) = Sec(p) /\ NanoSec(last_hw) = NanoSec(p))
    THEN velocity ELSE <<last_hw, p>>

\* Keeps what it last exported when the session is over.
Read ==
  IF initialized
    THEN hw' = state /\ velocity' = ComputeVelocity(state) /\ last_hw' = state
    ELSE UNCHANGED driver

\* trylock() fails as long as the message waits for the publisher's thread.
Update ==
  IF active /\ hw'.id # 0 /\ ~ waiting
    THEN msg' = hw' /\ waiting' = TRUE
    ELSE UNCHANGED <<msg, waiting>>

\* One thread, and no other looks at what read() leaves to update().
Cycle == Read /\ Update /\ UNCHANGED <<robot, active, topic, bridge>>

\* init_state_msg_() does not lock the message that may be waiting.
BroadcasterActivates ==
  /\ ~ active /\ active' = TRUE /\ msg' = NaN
  /\ steps < Steps /\ steps' = steps + 1
  /\ UNCHANGED <<now, ros, clock, initialized, state, driver, waiting, topic, bridge>>

BroadcasterDeactivates ==
  /\ active /\ active' = FALSE
  /\ UNCHANGED <<robot, driver, msg, waiting, topic, bridge>>

\* The publisher's thread sends the message, which may be lost; a queue that is
\* full loses its oldest.
Publish ==
  /\ waiting /\ waiting' = FALSE
  /\ topic' \in {topic, Append(IF Len(topic) = Depth THEN Tail(topic) ELSE topic, msg)}
  /\ UNCHANGED <<robot, driver, active, msg, bridge>>

-----------------------------------------------------------------------------
(* Bridge: _on_state() *)

\* What map() answers may be a sample too old, or one without a position.
OnState ==
  /\ topic # <<>> /\ topic' = Tail(topic)
  /\ LET state_msg == Head(topic)
         next == Mapped(mapper, state_msg.stamp, ros, now)
         answer == Answered(mapper, next)
         fresh == ros - next.stamp <= MaxAge
         shown == answer /\ fresh /\ state_msg.id # 0
         before == IF last.segment = next.segment
                     THEN last ELSE [segment |-> next.segment, id |-> 0, stamp |-> 0]
         close == before.id # 0 /\ state_msg.stamp - before.stamp \in 1 .. MaxAge
     IN /\ mapper' = next
        /\ last' = CASE ~ answer -> last
                     [] shown -> [before EXCEPT !.id = state_msg.id, !.stamp = state_msg.stamp]
                     [] OTHER -> [before EXCEPT !.id = 0, !.stamp = 0]
        /\ published' = IF shown
                          THEN [id |-> state_msg.id, native |-> state_msg.stamp,
                                stamp |-> next.stamp, segment |-> next.segment,
                                ros |-> ros, now |-> now,
                                from |-> IF close THEN before.id ELSE 0]
                          ELSE published
  /\ UNCHANGED <<robot, driver, active, msg, waiting>>

Next ==
  \/ Tick \/ StepHostClock \/ SessionEnds \/ Packet
  \/ Cycle \/ BroadcasterActivates \/ BroadcasterDeactivates \/ Publish \/ OnState

Spec == Init /\ [][Next]_vars

-----------------------------------------------------------------------------

\* The derived telemetry shows a packet of the robot once, and never an older
\* one, although the broadcaster repeats the last packet after a session is
\* over and both clocks may be stepped; a velocity is that between this packet
\* and the one shown before.  Only the initial message of a broadcaster that is
\* activated again, if it is sent, lets the last packet be shown once more
\* (map(), _on_state()).
OncePerPacket ==
  [][published' # published
       => /\ published'.id > published.id
               \/ (published'.id = published.id /\ mapper.native = NaN.stamp)
          /\ published'.from \in {0, published.id}]_vars

\* No measurement is stamped later than the host received it (the offset of
\* map() is the lowest seen in the segment).
NeverInFuture == published.stamp <= published.ros

\* A step of the host's clock is never absorbed: two packets shown one after the
\* other in one segment were received on one clock, whatever repetitions and
\* lost packets came in between.  Only through packets that it stamped and did
\* not show can the mapper follow several steps (map()).
StepStartsSegment ==
  [][published' # published /\ published'.segment = published.segment
       => \/ Abs((published'.ros - published.ros) - (published'.now - published.now)) <= ClockJump
          \/ mapper.native # published.native]_vars

\* The velocity that read() exposes is that of the state it exposes with it,
\* when time stamps agree in their seconds or in their nanoseconds and when a
\* state is read twice (compute_hw_velocity_(), update_last_hw_states_()).
VelocityOfState == velocity = <<NaN, NaN>> \/ velocity[2].stamp = hw.stamp
=============================================================================
