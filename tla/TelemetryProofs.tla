----------------------------- MODULE TelemetryProofs -----------------------------
(***************************************************************************)
(* The properties of Telemetry for all thresholds, horizons and numbers of *)
(* packets and clock steps.  MapperStep says what the rest relies on of    *)
(* map(); after that the proofs follow a packet from state to telemetry.   *)
(***************************************************************************)
EXTENDS Telemetry, TLAPS

Samples == [id : Nat, stamp : Nat]
Mappers == [segment : Nat, known : BOOLEAN, offset : Int,
            native : Int, ros : Int, steady : Int, stamp : Int]

TypeInv ==
  /\ now \in Nat /\ ros \in Nat /\ clock \in Nat /\ steps \in Nat
  /\ initialized \in BOOLEAN /\ active \in BOOLEAN /\ waiting \in BOOLEAN
  /\ state \in Samples /\ hw \in Samples /\ last_hw \in Samples /\ msg \in Samples
  /\ topic \in Seq(Samples)
  /\ mapper \in Mappers
  /\ mapper.known => mapper.steady # None
  /\ last \in [segment : Nat, id : Nat, stamp : Nat]
  /\ published \in [id : Nat, native : Nat, stamp : Int, segment : Nat,
                    ros : Nat, now : Nat, from : Nat]

-----------------------------------------------------------------------------
(* map() *)

\* A sample is dropped without a trace, or becomes the mapper's last; then it
\* is later than the one before, on the same clocks, or starts a segment.
LEMMA MapperStep ==
  ASSUME NEW m \in Mappers, m.known => m.steady # None,
         NEW native \in Nat, NEW r \in Nat, NEW s \in Nat, NEW n \in {Mapped(m, native, r, s)}
  PROVE  /\ n \in Mappers
         /\ \/ n = m
            \/ native # m.native /\ n.native = native /\ n.ros = r /\ n.steady = s
         /\ n # m /\ n.segment = m.segment =>
              /\ m.steady # None /\ native > m.native
              /\ Abs((r - m.ros) - (s - m.steady)) <= ClockJump
         /\ n.segment >= m.segment
         /\ Answered(m, n) => n # m /\ n.stamp <= r
<1> ClockJump \in Nat /\ Restart \in Nat
  BY MapperAssumption DEF MapperAssumption
<1> DEFINE new == ~ m.known \/ Reset(m, native, r, s)
           offset == IF new THEN r - native ELSE Smaller(m.offset, r - native)
           before == IF new THEN None ELSE m.stamp
           stamp == native + offset
           a == Advanced(m, native, r, s)
<1>1. CASE n = m
  BY <1>1 DEF Answered, Mappers
<1>2. CASE n # m
  <2>1. n = a /\ native # m.native /\ ~ OutOfOrder(m, native, r, s)
    BY <1>2 DEF Mapped
  <2>2. a = [segment |-> m.segment + (IF new THEN 1 ELSE 0), known |-> TRUE, offset |-> offset,
             native |-> native, ros |-> r, steady |-> s,
             stamp |-> IF before # None /\ stamp <= before THEN before ELSE stamp]
    BY Zenon DEF Advanced
  <2>3. offset \in Int /\ before \in Int /\ offset <= r - native
    BY DEF Mappers, Smaller, None
  <2> HIDE DEF new, offset, before
  <2>4. stamp \in Int /\ stamp <= r
    BY <2>3
  <2>5. n \in Mappers /\ n.native = native /\ n.ros = r /\ n.steady = s
    BY <2>1, <2>2, <2>3, <2>4 DEF Mappers
  <2>6. n.segment = m.segment => ~ new
    BY <2>1, <2>2 DEF Mappers
  <2>7. n.segment >= m.segment
    BY <2>1, <2>2 DEF Mappers
  <2>8. ~ new => m.steady # None /\ native > m.native /\ Abs((r - m.ros) - (s - m.steady)) <= ClockJump
    <3> SUFFICES ASSUME ~ new
                 PROVE  /\ m.steady # None /\ native > m.native
                        /\ Abs((r - m.ros) - (s - m.steady)) <= ClockJump
      OBVIOUS
    <3>1. m.steady # None /\ ~ HostJumped(m, r, s) /\ ~ NativeReset(m, native, s)
      BY DEF new, Reset
    <3>2. ~ native < m.native
      BY <2>1, <3>1 DEF OutOfOrder
    <3>3. (r - m.ros) - (s - m.steady) \in Int
      BY DEF Mappers
    <3> QED
      BY <2>1, <3>1, <3>2, <3>3 DEF HostJumped, Abs, Mappers
  <2>9. Answered(m, n) => n.stamp <= r
    <3>1. CASE before # None /\ stamp <= before
      <4>1. ~ new /\ before = m.stamp
        BY <3>1 DEF before
      <4>2. n.segment = m.segment /\ n.stamp = m.stamp
        BY <2>1, <2>2, <3>1, <4>1 DEF Mappers
      <4> QED
        BY <4>2 DEF Answered
    <3>2. CASE ~ (before # None /\ stamp <= before)
      BY <2>1, <2>2, <2>4, <3>2
    <3> QED
      BY <3>1, <3>2
  <2> QED
    BY <1>2, <2>1, <2>5, <2>6, <2>7, <2>8, <2>9
<1> QED
  BY <1>1, <1>2
-----------------------------------------------------------------------------
(* Types, and what the actions do *)

LEMMA NaNType == NaN \in Samples /\ NaN.id = 0 /\ NaN.stamp = 0
  BY DEF NaN, Samples

LEMMA TypeInit == Init => TypeInv
<1> SUFFICES ASSUME Init PROVE TypeInv
  OBVIOUS
<1>1. mapper \in Mappers /\ ~ mapper.known
  BY DEF Init, NewMapper, Mappers, None
<1>2. Steps \in Nat
  BY TelemetryAssumption DEF TelemetryAssumption
<1>3. initialized \in BOOLEAN /\ active \in BOOLEAN /\ waiting \in BOOLEAN
  BY Zenon DEF Init
<1> QED
  BY <1>1, <1>2, <1>3, NaNType DEF Init, TypeInv

\* What read() and update() of a cycle do.
LEMMA CycleStep ==
  ASSUME TypeInv, Cycle
  PROVE  /\ UNCHANGED <<robot, active, topic, bridge>>
         /\ \/ UNCHANGED driver
            \/ /\ initialized /\ hw' = state /\ last_hw' = state
               /\ velocity' = ComputeVelocity(state)
         /\ \/ UNCHANGED <<msg, waiting>>
            \/ msg' = hw' /\ waiting' = TRUE /\ ~ waiting /\ hw'.id # 0
  BY DEF Cycle, Read, Update

\* The subscription's queue loses its oldest message, or the one that is sent.
LEMMA PublishStep ==
  ASSUME TypeInv, Publish
  PROVE  /\ UNCHANGED <<robot, driver, active, msg, bridge>>
         /\ waiting /\ waiting' = FALSE /\ topic' \in Seq(Samples)
         /\ \E q \in {topic, Tail(topic)} :
              q \in Seq(Samples) /\ (topic' = topic \/ topic' = Append(q, msg))
<1>1. topic \in Seq(Samples) /\ msg \in Samples /\ Depth \in Nat \ {0}
  BY TelemetryAssumption DEF TypeInv, TelemetryAssumption
<1>2. CASE Len(topic) = Depth
  <2>1. Tail(topic) \in Seq(Samples)
    BY <1>1, <1>2
  <2> QED
    BY <1>1, <1>2, <2>1 DEF Publish
<1>3. CASE Len(topic) # Depth
  BY <1>1, <1>3 DEF Publish
<1> QED
  BY <1>2, <1>3

LEMMA HeadTail ==
  ASSUME TypeInv, topic # <<>>
  PROVE  /\ Head(topic) = topic[1] /\ Head(topic) \in Samples /\ Tail(topic) \in Seq(Samples)
         /\ 1 \in DOMAIN topic
         /\ \A i \in DOMAIN Tail(topic) : i + 1 \in DOMAIN topic /\ Tail(topic)[i] = topic[i + 1]
  BY DEF TypeInv

\* MapperStep for the first message of the queue.
LEMMA NextMapper ==
  ASSUME TypeInv, topic # <<>>
  PROVE  LET next == Mapped(mapper, Head(topic).stamp, ros, now)
         IN next \in Mappers /\ (next.known => next.steady # None)
<1>1. ASSUME NEW next \in {Mapped(mapper, Head(topic).stamp, ros, now)}
      PROVE  next \in Mappers /\ (next.known => next.steady # None)
  <2>1. /\ mapper \in Mappers /\ (mapper.known => mapper.steady # None)
        /\ Head(topic).stamp \in Nat /\ ros \in Nat /\ now \in Nat
    BY HeadTail DEF TypeInv, Samples
  <2>2. next \in Mappers /\ (next = mapper \/ next.steady = now)
    BY <2>1, MapperStep
  <2>3. CASE next = mapper
    BY <2>1, <2>3
  <2>4. CASE next.steady = now
    BY <2>1, <2>2, <2>4 DEF None
  <2> QED
    BY <2>2, <2>3, <2>4
<1> QED
  BY <1>1

\* What the bridge does with the first message of its queue; `answer' and `usable'
\* are _on_state()'s.
LEMMA OnStateStep ==
  ASSUME TypeInv, OnState, NEW m \in {Head(topic)}
  PROVE  \E answer, usable \in BOOLEAN :
           /\ topic # <<>> /\ topic' = Tail(topic)
           /\ UNCHANGED <<robot, driver, active, msg, waiting>>
           /\ mapper' = Mapped(mapper, m.stamp, ros, now)
           /\ answer = Answered(mapper, mapper')
           /\ usable => m.id # 0
           /\ answer /\ usable =>
                /\ published'.id = m.id /\ published'.native = m.stamp
                /\ published'.stamp = mapper'.stamp /\ published'.segment = mapper'.segment
                /\ published'.ros = ros /\ published'.now = now
                /\ published'.from \in {0, last.id}
                /\ last'.id = m.id
                /\ published' \in [id : Nat, native : Nat, stamp : Int, segment : Nat,
                                   ros : Nat, now : Nat, from : Nat]
           /\ ~ (answer /\ usable) => published' = published /\ last'.id \in {0, last.id}
           /\ mapper' \in Mappers /\ (mapper'.known => mapper'.steady # None)
           /\ last' \in [segment : Nat, id : Nat, stamp : Nat]
<1> DEFINE next == Mapped(mapper, m.stamp, ros, now)
           answer == Answered(mapper, next)
           before == IF last.segment = next.segment
                       THEN last ELSE [segment |-> next.segment, id |-> 0, stamp |-> 0]
           fresh == ros - next.stamp <= MaxAge
           usable == fresh /\ m.id # 0
           close == before.id # 0 /\ m.stamp - before.stamp \in 1 .. MaxAge
<1>1. /\ topic # <<>> /\ topic' = Tail(topic)
      /\ UNCHANGED <<robot, driver, active, msg, waiting>>
      /\ mapper' = next
      /\ last' = CASE ~ answer -> last
                   [] answer /\ usable -> [before EXCEPT !.id = m.id, !.stamp = m.stamp]
                   [] OTHER -> [before EXCEPT !.id = 0, !.stamp = 0]
      /\ published' = IF answer /\ usable
                        THEN [id |-> m.id, native |-> m.stamp, stamp |-> next.stamp,
                              segment |-> next.segment, ros |-> ros, now |-> now,
                              from |-> IF close THEN before.id ELSE 0]
                        ELSE published
  <2>1. m = Head(topic)
    OBVIOUS
  <2> QED
    BY <2>1, Zenon DEF OnState
<1>2. next \in Mappers /\ (next.known => next.steady # None)
  BY <1>1, NextMapper
<1>3. answer \in BOOLEAN /\ usable \in BOOLEAN
  BY DEF Answered
<1>8. next = Mapped(mapper, m.stamp, ros, now) /\ answer = Answered(mapper, next)
  OBVIOUS
<1> HIDE DEF next
<1>4. /\ before \in [segment : Nat, id : Nat, stamp : Nat]
      /\ before.id \in {0, last.id}
  BY <1>2 DEF TypeInv, Mappers
<1>9. usable => m.id # 0
  OBVIOUS
<1> HIDE DEF before, answer, usable, close, fresh
<1> SUFFICES
      /\ answer /\ usable =>
           /\ published'.id = m.id /\ published'.native = m.stamp
           /\ published'.stamp = next.stamp /\ published'.segment = next.segment
           /\ published'.ros = ros /\ published'.now = now
           /\ published'.from \in {0, last.id}
           /\ last'.id = m.id
           /\ published' \in [id : Nat, native : Nat, stamp : Int, segment : Nat,
                              ros : Nat, now : Nat, from : Nat]
      /\ ~ (answer /\ usable) => published' = published /\ last'.id \in {0, last.id}
      /\ last' \in [segment : Nat, id : Nat, stamp : Nat]
  BY <1>1, <1>2, <1>3, <1>8, <1>9
<1>5. CASE ~ answer
  <2>1. last' = last /\ published' = published
    BY <1>1, <1>5
  <2> QED
    BY <1>5, <2>1 DEF TypeInv
<1>6. CASE answer /\ usable
  <2>1. last' = [before EXCEPT !.id = m.id, !.stamp = m.stamp]
    BY <1>1, <1>6
  <2>2. m.id \in Nat /\ m.stamp \in Nat /\ ros \in Nat /\ now \in Nat
    BY <1>1, HeadTail DEF TypeInv, Samples
  <2>3. last' \in [segment : Nat, id : Nat, stamp : Nat] /\ last'.id = m.id
    BY <1>4, <2>1, <2>2
  <2>4. /\ published' = [id |-> m.id, native |-> m.stamp, stamp |-> next.stamp,
                         segment |-> next.segment, ros |-> ros, now |-> now,
                         from |-> IF close THEN before.id ELSE 0]
        /\ next.stamp \in Int /\ next.segment \in Nat
    BY <1>1, <1>2, <1>6 DEF Mappers
  <2>5. /\ published' \in [id : Nat, native : Nat, stamp : Int, segment : Nat,
                           ros : Nat, now : Nat, from : Nat]
        /\ published'.from \in {0, last.id}
    BY <1>4, <2>2, <2>4
  <2> QED
    BY <1>6, <2>3, <2>4, <2>5
<1>7. CASE answer /\ ~ usable
  <2>1. last' = [before EXCEPT !.id = 0, !.stamp = 0] /\ published' = published
    BY <1>1, <1>7
  <2>2. last' \in [segment : Nat, id : Nat, stamp : Nat] /\ last'.id = 0
    BY <1>4, <2>1
  <2> QED
    BY <1>7, <2>1, <2>2
<1> QED
  BY <1>3, <1>5, <1>6, <1>7

LEMMA TypeStep == TypeInv /\ [Next]_vars => TypeInv'
<1> SUFFICES ASSUME TypeInv, [Next]_vars PROVE TypeInv'
  OBVIOUS
<1>1. CASE Tick \/ StepHostClock
  <2> ClockJump \in Nat
    BY MapperAssumption DEF MapperAssumption
  <2>1. now \in Nat /\ ros \in Nat /\ clock \in Nat /\ steps \in Nat
    BY DEF TypeInv
  <2>2. now' \in Nat /\ ros' \in Nat /\ clock' \in Nat /\ steps' \in Nat
    BY <1>1, <2>1 DEF Tick, StepHostClock
  <2>3. UNCHANGED <<initialized, state, driver, broadcaster, bridge>>
    BY <1>1 DEF Tick, StepHostClock
  <2> QED
    BY <2>2, <2>3 DEF TypeInv, driver, broadcaster, bridge
<1>2. CASE SessionEnds
  <2> initialized' \in BOOLEAN
    BY <1>2, Zenon DEF SessionEnds
  <2> QED
    BY <1>2 DEF TypeInv, SessionEnds, driver, broadcaster, bridge
<1>3. CASE Packet
  <2>1. state \in Samples /\ clock \in Nat
    BY DEF TypeInv
  <2> state' \in Samples
    BY <1>3, <2>1 DEF Packet, Samples
  <2> QED
    BY <1>3 DEF TypeInv, Packet, clocks, driver, broadcaster, bridge
<1>4. CASE Cycle
  BY <1>4, CycleStep DEF TypeInv, robot, clocks, driver, bridge
<1>5. CASE BroadcasterActivates
  BY <1>5, NaNType DEF TypeInv, BroadcasterActivates, driver, bridge
<1>6. CASE BroadcasterDeactivates
  BY <1>6 DEF TypeInv, BroadcasterDeactivates, robot, clocks, driver, bridge
<1>9. CASE Publish
  BY <1>9, PublishStep DEF TypeInv, robot, clocks, driver, bridge
<1>7. CASE OnState
  <2> topic' \in Seq(Samples)
    BY <1>7, OnStateStep, HeadTail
  <2> QED
    BY <1>7, OnStateStep DEF TypeInv, robot, clocks, driver
<1>8. CASE UNCHANGED vars
  BY <1>8 DEF TypeInv, vars, robot, clocks, driver, broadcaster, bridge
<1> QED
  BY <1>1, <1>2, <1>3, <1>4, <1>5, <1>6, <1>7, <1>8, <1>9 DEF Next

LEMMA TypeInvariance == Spec => []TypeInv
  BY TypeInit, TypeStep, PTL DEF Spec

\* MapperStep for the bridge's mapper.
LEMMA BridgeStep ==
  ASSUME TypeInv, OnState, NEW m \in {Head(topic)}
  PROVE  /\ \/ mapper' = mapper
            \/ /\ m.stamp # mapper.native /\ mapper'.native = m.stamp
               /\ mapper'.ros = ros /\ mapper'.steady = now
         /\ mapper' # mapper /\ mapper'.segment = mapper.segment =>
              /\ mapper.steady # None /\ m.stamp > mapper.native
              /\ Abs((ros - mapper.ros) - (now - mapper.steady)) <= ClockJump
         /\ mapper'.segment >= mapper.segment
         /\ Answered(mapper, mapper') => mapper' # mapper /\ mapper'.stamp <= ros
<1>1. mapper' \in {Mapped(mapper, m.stamp, ros, now)} /\ topic # <<>>
  BY OnStateStep
<1>2. /\ mapper \in Mappers /\ (mapper.known => mapper.steady # None)
      /\ m.stamp \in Nat /\ ros \in Nat /\ now \in Nat
  BY <1>1, HeadTail DEF TypeInv, Samples
<1> QED
  BY <1>1, <1>2, MapperStep

\* Only the bridge shows packets, and only what its mapper stamped.
LEMMA ShowStep ==
  ASSUME TypeInv, [Next]_vars, published' # published, NEW m \in {Head(topic)}
  PROVE  /\ OnState /\ mapper' # mapper /\ mapper'.stamp <= ros
         /\ topic # <<>> /\ m.id # 0
         /\ published'.id = m.id /\ published'.native = m.stamp
         /\ published'.stamp = mapper'.stamp /\ published'.segment = mapper'.segment
         /\ published'.ros = ros /\ published'.now = now
         /\ published'.from \in {0, last.id} /\ last'.id = m.id
<1>1. OnState
  BY CycleStep
  DEF Next, Tick, StepHostClock, SessionEnds, Packet, BroadcasterActivates,
      BroadcasterDeactivates, Publish, vars, bridge
<1> QED
  BY <1>1, OnStateStep, BridgeStep

-----------------------------------------------------------------------------
\* No measurement is stamped later than the host received it, whatever the
\* clocks of host and robot do and however late any thread is.
THEOREM StampsAreNotLate == Spec => []NeverInFuture
<1>1. Init => NeverInFuture
  BY DEF Init, NeverInFuture
<1>2. TypeInv /\ NeverInFuture /\ [Next]_vars => NeverInFuture'
  <2> SUFFICES ASSUME TypeInv, NeverInFuture, [Next]_vars PROVE NeverInFuture'
    OBVIOUS
  <2>1. CASE published' = published
    BY <2>1 DEF NeverInFuture
  <2>2. CASE published' # published
    BY <2>2, ShowStep DEF NeverInFuture
  <2> QED
    BY <2>1, <2>2
<1> QED
  BY <1>1, <1>2, TypeInvariance, PTL DEF Spec

-----------------------------------------------------------------------------
\* What is exported is what read() remembers for the next difference.
VelocityInv ==
  /\ last_hw = hw
  /\ initialized => state.id # 0
  /\ hw.id = 0 => velocity = <<NaN, NaN>>
  /\ VelocityOfState

LEMMA Division ==
  ASSUME NEW k \in Nat \ {0}, NEW a \in Nat, NEW b \in Nat, a \div k = b \div k, a % k = b % k
  PROVE  a = b
  OBVIOUS

LEMMA SameStamp ==
  ASSUME NEW p \in Samples, NEW q \in Samples, Sec(p) = Sec(q), NanoSec(p) = NanoSec(q)
  PROVE  p.stamp = q.stamp
<1>1. PerSecond \in Nat \ {0} /\ p.stamp \in Nat /\ q.stamp \in Nat
  BY TelemetryAssumption DEF TelemetryAssumption, Samples
<1> QED
  BY <1>1, Division DEF Sec, NanoSec

\* The velocity that read() exposes is that of the state that it exposes with
\* it, however seconds and nanoseconds of the stamps agree.
THEOREM VelocityMatchesState == Spec => []VelocityOfState
<1>1. Init => VelocityInv
  BY NaNType DEF Init, VelocityInv, VelocityOfState
<1>2. TypeInv /\ VelocityInv /\ [Next]_vars => VelocityInv'
  <2> SUFFICES ASSUME TypeInv, VelocityInv, [Next]_vars PROVE VelocityInv'
    OBVIOUS
  <2>1. CASE hw' = state /\ last_hw' = state /\ velocity' = ComputeVelocity(state)
             /\ initialized /\ UNCHANGED <<initialized, state>>
    <3>1. state \in Samples /\ last_hw \in Samples /\ state.id # 0
      BY <2>1 DEF TypeInv, VelocityInv
    <3>2. CASE last_hw.id = 0
      BY <2>1, <3>1, <3>2 DEF VelocityInv, VelocityOfState, ComputeVelocity
    <3>3. CASE last_hw.id # 0 /\ Sec(last_hw) = Sec(state) /\ NanoSec(last_hw) = NanoSec(state)
      <4>1. last_hw.stamp = state.stamp /\ velocity' = velocity
        BY <2>1, <3>1, <3>3, SameStamp DEF ComputeVelocity
      <4> QED
        BY <2>1, <3>1, <3>3, <4>1 DEF VelocityInv, VelocityOfState
    <3>4. CASE last_hw.id # 0 /\ ~ (Sec(last_hw) = Sec(state) /\ NanoSec(last_hw) = NanoSec(state))
      <4>1. velocity' = <<last_hw, state>>
        BY <2>1, <3>4 DEF ComputeVelocity
      <4> QED
        BY <2>1, <3>1, <4>1 DEF VelocityInv, VelocityOfState
    <3> QED
      BY <3>2, <3>3, <3>4
  <2>2. CASE UNCHANGED driver /\ (initialized' => (initialized /\ state' = state) \/ state'.id # 0)
    BY <2>2 DEF driver, VelocityInv, VelocityOfState
  <2>3. CASE Packet
    <3>1. state \in Samples
      BY DEF TypeInv
    <3> state'.id # 0
      BY <2>3, <3>1 DEF Packet, Samples
    <3> QED
      BY <2>2, <2>3 DEF Packet
  <2>4. CASE Cycle
    BY <2>1, <2>2, <2>4, CycleStep DEF robot
  <2> QED
    <3>1. CASE Tick \/ StepHostClock \/ BroadcasterActivates \/ BroadcasterDeactivates \/ Publish
               \/ OnState \/ UNCHANGED vars
      <4> UNCHANGED driver /\ initialized' = initialized /\ state' = state
        BY <3>1, OnStateStep
        DEF Tick, StepHostClock, BroadcasterActivates, BroadcasterDeactivates, Publish, vars, robot
      <4> QED
        BY <2>2
    <3>2. CASE SessionEnds
      BY <3>2, <2>2 DEF SessionEnds
    <3> QED
      BY <2>3, <2>4, <3>1, <3>2 DEF Next
<1>3. VelocityInv => VelocityOfState
  BY DEF VelocityInv
<1> QED
  BY <1>1, <1>2, <1>3, TypeInvariance, PTL DEF Spec
-----------------------------------------------------------------------------
\* In the segment of what was published last the mapper has moved forward only,
\* and if not at all its times are those of the publication.
SegmentInv ==
  /\ mapper.segment = 0 => mapper.steady = None
  /\ published.segment <= mapper.segment
  /\ published.segment = mapper.segment /\ mapper.segment # 0 =>
       /\ published.native <= mapper.native
       /\ published.native = mapper.native =>
            mapper.ros = published.ros /\ mapper.steady = published.now

LEMMA SegmentStep == TypeInv /\ SegmentInv /\ [Next]_vars => SegmentInv'
<1> SUFFICES ASSUME TypeInv, SegmentInv, [Next]_vars PROVE SegmentInv'
  OBVIOUS
<1>1. CASE ~ OnState
  <2> UNCHANGED <<mapper, published>>
    BY <1>1, CycleStep
    DEF Next, Tick, StepHostClock, SessionEnds, Packet, BroadcasterActivates,
        BroadcasterDeactivates, Publish, vars, bridge
  <2> QED
    BY DEF SegmentInv
<1>2. CASE OnState
  <2> DEFINE m == Head(topic)
  <2>1. /\ mapper \in Mappers /\ mapper' \in Mappers /\ m.stamp \in Nat /\ now \in Nat
        /\ published.native \in Nat /\ published.segment \in Nat
    BY <1>2, OnStateStep, HeadTail DEF TypeInv, Samples
  <2>2. CASE mapper' = mapper
    BY <1>2, <2>2, ShowStep DEF SegmentInv
  <2>3. CASE mapper' # mapper
    <3>1. /\ mapper'.native = m.stamp /\ mapper'.ros = ros /\ mapper'.steady = now
          /\ mapper'.segment >= mapper.segment
          /\ mapper'.segment = mapper.segment => mapper.steady # None /\ m.stamp > mapper.native
      BY <1>2, <2>3, BridgeStep
    <3>2. mapper'.segment # 0
      BY <2>1, <3>1 DEF SegmentInv, Mappers
    <3>3. CASE published' = published
      BY <2>1, <3>1, <3>2, <3>3 DEF SegmentInv, Mappers
    <3>4. CASE published' # published
      <4>1. mapper'.segment \in Nat
        BY <2>1 DEF Mappers
      <4>2. /\ published'.segment = mapper'.segment /\ published'.native = m.stamp
            /\ published'.ros = ros /\ published'.now = now
        BY <3>4, ShowStep
      <4> QED
        BY <2>1, <3>1, <3>2, <4>1, <4>2 DEF SegmentInv
    <3> QED
      BY <3>3, <3>4
  <2> QED
    BY <2>2, <2>3
<1> QED
  BY <1>1, <1>2

\* A step of the host's clock is never absorbed in a segment, however many
\* packets are lost or repeated in between.
THEOREM ClockStepsStartSegments == Spec => StepStartsSegment
<1> DEFINE Kept ==
      published' # published /\ published'.segment = published.segment
        => \/ Abs((published'.ros - published.ros) - (published'.now - published.now)) <= ClockJump
           \/ mapper.native # published.native
<1>1. Init => SegmentInv
  BY DEF Init, SegmentInv, NewMapper
<1>2. TypeInv /\ SegmentInv /\ [Next]_vars => [Kept]_vars
  <2> SUFFICES ASSUME TypeInv, SegmentInv, [Next]_vars, published' # published,
                      published'.segment = published.segment, mapper.native = published.native
               PROVE  Abs((published'.ros - published.ros) - (published'.now - published.now)) <= ClockJump
    OBVIOUS
  <2>1. /\ OnState /\ mapper' # mapper /\ published'.segment = mapper'.segment
        /\ published'.ros = ros /\ published'.now = now
    BY ShowStep
  <2>2. mapper'.segment = mapper.segment /\ published.segment = mapper.segment
    <3>1. mapper'.segment >= mapper.segment /\ published.segment <= mapper.segment
      BY <2>1, BridgeStep DEF SegmentInv
    <3>2. mapper \in Mappers /\ mapper' \in Mappers /\ published.segment \in Nat
      BY <2>1, OnStateStep DEF TypeInv
    <3> QED
      BY <2>1, <3>1, <3>2 DEF Mappers
  <2>3. mapper.steady # None /\ Abs((ros - mapper.ros) - (now - mapper.steady)) <= ClockJump
    BY <2>1, <2>2, BridgeStep
  <2>4. mapper.ros = published.ros /\ mapper.steady = published.now
    BY <2>2, <2>3 DEF SegmentInv
  <2> QED
    BY <2>1, <2>3, <2>4
<1> QED
  BY <1>1, <1>2, SegmentStep, TypeInvariance, PTL DEF Spec, StepStartsSegment

-----------------------------------------------------------------------------
\* A packet is never followed by an older one on its way, and what carries the
\* number of another packet carries its stamp.
Shown == [id |-> published.id, stamp |-> published.native]
OrderInv ==
  /\ hw.id <= state.id /\ published.id <= hw.id /\ msg.id <= hw.id
  /\ last.id \in {0, published.id}
  /\ waiting /\ msg.id # 0 => published.id <= msg.id
  /\ \A i \in DOMAIN topic :
       /\ topic[i].id <= hw.id
       /\ topic[i].id # 0 => published.id <= topic[i].id
       /\ waiting /\ msg.id # 0 => topic[i].id <= msg.id
       /\ \A j \in DOMAIN topic : i < j /\ topic[j].id # 0 => topic[i].id <= topic[j].id

Same(p, q) == p.id = q.id => p.stamp = q.stamp
SameInv ==
  /\ Same(NaN, state) /\ Same(NaN, hw) /\ Same(NaN, msg) /\ Same(NaN, Shown)
  /\ Same(state, hw) /\ Same(hw, msg) /\ Same(hw, Shown) /\ Same(msg, Shown)
  /\ \A i \in DOMAIN topic :
       /\ Same(NaN, topic[i]) /\ Same(hw, topic[i]) /\ Same(msg, topic[i])
       /\ Same(Shown, topic[i])
       /\ \A j \in DOMAIN topic : Same(topic[i], topic[j])

\* As long as a packet that may come is the one shown last, the mapper has seen
\* nothing since but repetitions and the initial message.
Seen(p) == p.id = published.id /\ p.id # 0 => mapper.native \in {0, published.native}
RepeatInv ==
  /\ Seen(hw) /\ (waiting => Seen(msg))
  /\ \A i \in DOMAIN topic : Seen(topic[i])

WayInv == OrderInv /\ SameInv /\ RepeatInv

LEMMA Numbers ==
  TypeInv => /\ state \in Samples /\ hw \in Samples /\ msg \in Samples
             /\ state.id \in Nat /\ hw.id \in Nat /\ msg.id \in Nat
             /\ published.id \in Nat /\ last.id \in Nat
             /\ \A i \in DOMAIN topic : topic[i] \in Samples /\ topic[i].id \in Nat
<1>1. TypeInv => /\ state \in Samples /\ hw \in Samples /\ msg \in Samples
                 /\ published.id \in Nat /\ last.id \in Nat /\ topic \in Seq(Samples)
  BY DEF TypeInv
<1>2. topic \in Seq(Samples) => \A i \in DOMAIN topic : topic[i] \in Samples
  OBVIOUS
<1>3. \A p \in Samples : p.id \in Nat
  BY DEF Samples
<1> QED
  BY <1>1, <1>2, <1>3

LEMMA InitWay == Init => WayInv
  BY NaNType DEF Init, WayInv, OrderInv, SameInv, RepeatInv, Same, Seen, Shown

LEMMA PacketWay == ASSUME TypeInv, WayInv, Packet PROVE WayInv'
<1>1. /\ UNCHANGED <<hw, msg, waiting, topic, mapper, last, published>>
      /\ state'.id = state.id + 1
  BY DEF Packet, driver, broadcaster, bridge
<1>2. hw.id < state'.id /\ state'.id # 0
  BY <1>1, Numbers DEF WayInv, OrderInv
<1>3. OrderInv'
  BY <1>1, <1>2, Numbers DEF WayInv, OrderInv
<1>4. SameInv'
  <2>1. Same(NaN, state') /\ Same(state', hw)
    BY <1>2, Numbers, NaNType DEF Same
  <2>2. Shown' = Shown /\ NaN' = NaN
    BY <1>1 DEF Shown, NaN
  <2> QED
    BY <1>1, <2>1, <2>2 DEF WayInv, SameInv, Same
<1>5. RepeatInv'
  BY <1>1 DEF WayInv, RepeatInv, Seen
<1> QED
  BY <1>3, <1>4, <1>5 DEF WayInv

LEMMA ActivateWay == ASSUME TypeInv, WayInv, BroadcasterActivates PROVE WayInv'
<1>1. /\ UNCHANGED <<state, hw, waiting, topic, mapper, last, published>>
      /\ msg' = NaN
  BY DEF BroadcasterActivates, driver, bridge
<1>2. OrderInv'
  BY <1>1, Numbers, NaNType DEF WayInv, OrderInv
<1>3. SameInv'
  BY <1>1 DEF WayInv, SameInv, Same, Shown, NaN
<1>4. RepeatInv'
  BY <1>1, NaNType DEF WayInv, RepeatInv, Seen
<1> QED
  BY <1>2, <1>3, <1>4 DEF WayInv

\* What read() exports is the state, or what it exported before.
LEMMA ReadWay ==
  ASSUME TypeInv, WayInv, Cycle
  PROVE  /\ UNCHANGED <<state, topic, mapper, last, published>>
         /\ hw'.id \in Nat /\ hw.id <= hw'.id /\ hw'.id <= state.id
         /\ hw'.id = hw.id => hw'.stamp = hw.stamp
         /\ Same(NaN, hw') /\ Same(state, hw')
<1>1. hw' = hw \/ hw' = state
  BY CycleStep DEF driver
<1>2. UNCHANGED <<state, topic, mapper, last, published>>
  BY CycleStep DEF robot, bridge
<1> QED
  BY <1>1, <1>2, Numbers DEF WayInv, OrderInv, SameInv, Same

LEMMA CycleWay == ASSUME TypeInv, WayInv, Cycle PROVE WayInv'
<1>1. (msg' = msg /\ waiting' = waiting) \/ (msg' = hw' /\ hw'.id # 0)
  BY CycleStep
<1>2. /\ published.id <= hw'.id /\ msg.id <= hw'.id
      /\ \A i \in DOMAIN topic : topic[i].id <= hw'.id
  BY ReadWay, Numbers DEF WayInv, OrderInv
<1>3. OrderInv'
  BY <1>1, <1>2, ReadWay DEF WayInv, OrderInv
<1>4. /\ Same(hw', Shown) /\ Same(hw', msg)
      /\ \A i \in DOMAIN topic : Same(hw', topic[i])
  <2>1. ASSUME NEW p, p.id \in Nat, p.id <= hw.id, Same(hw, p) PROVE Same(hw', p)
    BY <2>1, ReadWay, Numbers DEF Same
  <2>2. Shown.id \in Nat /\ Shown.id <= hw.id
    BY Numbers DEF WayInv, OrderInv, Shown
  <2> QED
    BY <2>1, <2>2, Numbers DEF WayInv, OrderInv, SameInv
<1>5. Same(NaN, msg') /\ Same(hw', msg') /\ Same(msg', Shown)
        /\ \A i \in DOMAIN topic : Same(msg', topic[i])
  BY <1>1, <1>4, ReadWay DEF WayInv, SameInv, Same
<1>6. Shown' = Shown /\ NaN' = NaN
  BY ReadWay DEF Shown, NaN
<1>7. SameInv'
  BY <1>4, <1>5, <1>6, ReadWay DEF WayInv, SameInv, Same, Shown
<1>8. RepeatInv'
  <2>1. hw'.id = published.id => hw.id = published.id
    BY ReadWay, Numbers DEF WayInv, OrderInv
  <2> QED
    BY <1>1, <2>1, ReadWay DEF WayInv, RepeatInv, Seen
<1> QED
  BY <1>3, <1>7, <1>8 DEF WayInv

\* The queue after Publish: what is left of it, moved by one if it was full, and msg.
LEMMA QueueStep ==
  ASSUME TypeInv, Publish
  PROVE  \E d \in {0, 1} : \A i \in DOMAIN topic' :
           \/ i = Len(topic') /\ topic'[i] = msg
           \/ i + d \in DOMAIN topic /\ topic'[i] = topic[i + d]
<1>1. PICK q \in {topic, Tail(topic)} :
        q \in Seq(Samples) /\ (topic' = topic \/ topic' = Append(q, msg))
  BY PublishStep
<1>2. topic \in Seq(Samples) /\ msg \in Samples
  BY DEF TypeInv
<1>3. CASE topic' = topic
  BY <1>3, <1>2
<1>4. CASE topic' = Append(topic, msg)
  BY <1>4, <1>2
<1>5. CASE topic' = Append(Tail(topic), msg) /\ topic # <<>>
  BY <1>5, <1>2
<1>6. CASE topic' = Append(Tail(topic), msg) /\ topic = <<>> /\ Tail(topic) \in Seq(Samples)
  <2>1. topic' = topic \/ topic' = Append(topic, msg)
    <3>1. Depth # 0
      BY TelemetryAssumption DEF TelemetryAssumption
    <3> QED
      BY <3>1, <1>6 DEF Publish
  <2> QED
    BY <2>1, <1>3, <1>4
<1> QED
  BY <1>1, <1>3, <1>4, <1>5, <1>6

LEMMA PublishWay == ASSUME TypeInv, WayInv, Publish PROVE WayInv'
<1>1. /\ UNCHANGED <<state, hw, msg, mapper, last, published>>
      /\ waiting /\ ~ waiting'
  BY DEF Publish, robot, driver, bridge
<1>2. PICK d \in {0, 1} : \A i \in DOMAIN topic' :
        \/ i = Len(topic') /\ topic'[i] = msg
        \/ i + d \in DOMAIN topic /\ topic'[i] = topic[i + d]
  BY QueueStep
<1>3. DOMAIN topic' = 1 .. Len(topic') /\ Len(topic') \in Nat
  BY PublishStep
<1>4. OrderInv'
  <2> SUFFICES ASSUME NEW i \in DOMAIN topic'
               PROVE  /\ topic'[i].id <= hw.id
                      /\ topic'[i].id # 0 => published.id <= topic'[i].id
                      /\ \A j \in DOMAIN topic' :
                           i < j /\ topic'[j].id # 0 => topic'[i].id <= topic'[j].id
    BY <1>1 DEF WayInv, OrderInv
  <2>1. topic'[i].id <= hw.id /\ (topic'[i].id # 0 => published.id <= topic'[i].id)
    BY <1>1, <1>2 DEF WayInv, OrderInv
  <2>2. ASSUME NEW j \in DOMAIN topic', i < j, topic'[j].id # 0
        PROVE  topic'[i].id <= topic'[j].id
    <3>1. i + d \in DOMAIN topic /\ topic'[i] = topic[i + d]
      BY <1>2, <1>3, <2>2
    <3>2. CASE topic'[j] = msg
      BY <1>1, <2>2, <3>1, <3>2 DEF WayInv, OrderInv
    <3>3. CASE j + d \in DOMAIN topic /\ topic'[j] = topic[j + d]
      <4>1. i + d < j + d
        BY <1>3, <2>2
      <4> QED
        BY <2>2, <3>1, <3>3, <4>1 DEF WayInv, OrderInv
    <3> QED
      BY <1>2, <3>2, <3>3
  <2> QED
    BY <2>1, <2>2
<1>5. \A i \in DOMAIN topic' : topic'[i] = msg \/ \E k \in DOMAIN topic : topic'[i] = topic[k]
  BY <1>2
<1>6. SameInv'
  <2>1. Shown' = Shown /\ NaN' = NaN
    BY <1>1 DEF Shown, NaN
  <2>2. ASSUME NEW i \in DOMAIN topic', NEW j \in DOMAIN topic' PROVE Same(topic'[i], topic'[j])
    BY <1>5, <2>2 DEF WayInv, SameInv, Same
  <2>3. ASSUME NEW i \in DOMAIN topic'
        PROVE  /\ Same(NaN, topic'[i]) /\ Same(hw, topic'[i]) /\ Same(msg, topic'[i])
               /\ Same(Shown, topic'[i])
    BY <1>5, <2>3 DEF WayInv, SameInv, Same
  <2> QED
    BY <1>1, <2>1, <2>2, <2>3 DEF WayInv, SameInv, Same
<1>7. RepeatInv'
  BY <1>1, <1>5 DEF WayInv, RepeatInv, Seen
<1> QED
  BY <1>4, <1>6, <1>7 DEF WayInv

LEMMA OnStateWay == ASSUME TypeInv, WayInv, OnState PROVE WayInv'
<1> DEFINE m == topic[1]
<1>1. /\ m = Head(topic) /\ topic # <<>> /\ topic' = Tail(topic) /\ 1 \in DOMAIN topic
      /\ \A i \in DOMAIN topic' : i + 1 \in DOMAIN topic /\ topic'[i] = topic[i + 1] /\ 1 < i + 1
      /\ DOMAIN topic' = 1 .. Len(topic') /\ Len(topic') \in Nat
  <2>1. topic # <<>> /\ topic' = Tail(topic)
    BY OnStateStep
  <2>2. topic \in Seq(Samples) /\ topic' \in Seq(Samples)
    BY <2>1, HeadTail DEF TypeInv
  <2> QED
    BY <2>1, <2>2, HeadTail
<1>2. /\ UNCHANGED <<state, hw, msg, waiting>>
      /\ mapper'.native \in {mapper.native, m.stamp}
      /\ m.id \in Nat
  BY <1>1, OnStateStep, BridgeStep, Numbers DEF robot, driver
<1>3. /\ m.id <= hw.id /\ (m.id # 0 => published.id <= m.id)
      /\ waiting /\ msg.id # 0 => m.id <= msg.id
      /\ \A i \in DOMAIN topic' : topic'[i].id # 0 => m.id <= topic'[i].id
  BY <1>1 DEF WayInv, OrderInv
<1>4. /\ Same(NaN, m) /\ Same(hw, m) /\ Same(msg, m) /\ Same(Shown, m)
      /\ \A i \in DOMAIN topic' : Same(m, topic'[i])
  BY <1>1 DEF WayInv, SameInv
<1>5. /\ \A i \in DOMAIN topic' : topic'[i].id <= hw.id
      /\ waiting /\ msg.id # 0 => \A i \in DOMAIN topic' : topic'[i].id <= msg.id
      /\ \A i, j \in DOMAIN topic' :
           i < j /\ topic'[j].id # 0 => topic'[i].id <= topic'[j].id
  <2>1. \A i, j \in DOMAIN topic' : i < j => i + 1 < j + 1
    BY <1>1
  <2> QED
    BY <1>1, <2>1 DEF WayInv, OrderInv
<1>6. /\ \A i \in DOMAIN topic' : Same(NaN, topic'[i]) /\ Same(hw, topic'[i])
                                    /\ Same(msg, topic'[i]) /\ Same(Shown, topic'[i])
      /\ \A i, j \in DOMAIN topic' : Same(topic'[i], topic'[j])
  BY <1>1 DEF WayInv, SameInv
<1> HIDE DEF m
<1>7. CASE published' = published
  <2>1. last'.id \in {0, published.id}
    <3>1. last'.id \in {0, last.id} \/ last'.id = published.id
      BY <1>7, OnStateStep
    <3> QED
      BY <3>1 DEF WayInv, OrderInv
  <2>2. OrderInv'
    <3>1. \A i \in DOMAIN topic' : topic'[i].id # 0 => published.id <= topic'[i].id
      BY <1>1 DEF WayInv, OrderInv
    <3> QED
      BY <1>2, <1>5, <1>7, <2>1, <3>1 DEF WayInv, OrderInv
  <2>3. SameInv'
    BY <1>2, <1>6, <1>7 DEF WayInv, SameInv, Same, Shown, NaN
  <2>4. ASSUME NEW p, Seen(p), p.id = published.id, p.id # 0, m.id <= p.id
        PROVE  mapper'.native \in {0, published.native}
    <3>1. m.id = 0 \/ m.id = published.id
      BY <1>2, <1>3, <2>4, Numbers
    <3>2. m.stamp \in {0, published.native}
      BY <1>4, <3>1, NaNType DEF Same, Shown
    <3> QED
      BY <1>2, <2>4, <3>2 DEF Seen
  <2>5. RepeatInv'
    <3>1. Seen(hw)'
      BY <1>2, <1>3, <1>7, <2>4 DEF WayInv, RepeatInv, Seen
    <3>2. waiting => Seen(msg)'
      BY <1>2, <1>3, <1>7, <2>4 DEF WayInv, RepeatInv, Seen
    <3>3. ASSUME NEW i \in DOMAIN topic' PROVE Seen(topic[i])'
      <4>1. Seen(topic'[i]) /\ (topic'[i].id # 0 => m.id <= topic'[i].id)
        BY <1>1, <1>3 DEF WayInv, RepeatInv
      <4> QED
        BY <1>7, <2>4, <4>1 DEF Seen
    <3> QED
      BY <1>2, <3>1, <3>2, <3>3 DEF RepeatInv
  <2> QED
    BY <2>2, <2>3, <2>5 DEF WayInv
<1>8. CASE published' # published
  <2>1. /\ published'.id = m.id /\ published'.native = m.stamp
        /\ last'.id = m.id /\ mapper'.native = m.stamp
    <3>1. m \in {Head(topic)} /\ [Next]_vars
      BY <1>1 DEF Next
    <3> QED
      BY <1>8, <3>1, ShowStep, BridgeStep
  <2>2. OrderInv'
    BY <1>2, <1>3, <1>5, <2>1 DEF WayInv, OrderInv
  <2>3. SameInv'
    BY <1>2, <1>4, <1>6, <2>1 DEF WayInv, SameInv, Same, Shown, NaN
  <2>4. RepeatInv'
    BY <2>1 DEF RepeatInv, Seen
  <2> QED
    BY <2>2, <2>3, <2>4 DEF WayInv
<1> QED
  BY <1>7, <1>8

LEMMA WayStep == TypeInv /\ WayInv /\ [Next]_vars => WayInv'
<1> SUFFICES ASSUME TypeInv, WayInv, [Next]_vars PROVE WayInv'
  OBVIOUS
<1>1. CASE Tick \/ StepHostClock \/ SessionEnds \/ BroadcasterDeactivates \/ UNCHANGED vars
  <2> UNCHANGED <<state, hw, msg, waiting, topic, mapper, last, published>>
    BY <1>1
    DEF Tick, StepHostClock, SessionEnds, BroadcasterDeactivates, vars,
        robot, driver, broadcaster, bridge
  <2> QED
    BY DEF WayInv, OrderInv, SameInv, RepeatInv, Same, Seen, Shown, NaN
<1> QED
  BY <1>1, PacketWay, ActivateWay, CycleWay, PublishWay, OnStateWay DEF Next

\* Telemetry shows each packet of the robot once and in order, however many wait
\* in the queue, but for the last one after the initial message of a broadcaster
\* that was activated again; and its velocities are differences of packets shown
\* one after the other.
THEOREM PacketsAreShownOnce == Spec => OncePerPacket
<1> DEFINE Once ==
      published' # published
        => /\ published'.id > published.id
                \/ (published'.id = published.id /\ mapper.native = NaN.stamp)
           /\ published'.from \in {0, published.id}
<1>1. TypeInv /\ WayInv /\ [Next]_vars => [Once]_vars
  <2> SUFFICES ASSUME TypeInv, WayInv, [Next]_vars, published' # published PROVE Once
    OBVIOUS
  <2> DEFINE m == Head(topic)
  <2>1. /\ OnState /\ topic # <<>> /\ m.id # 0
        /\ mapper' # mapper /\ published'.id = m.id /\ published'.from \in {0, last.id}
    BY ShowStep
  <2>2. mapper.native # m.stamp
    BY <2>1, BridgeStep
  <2>3. 1 \in DOMAIN topic /\ m = topic[1]
    BY <2>1, HeadTail
  <2>4. m.id \in Nat /\ published.id <= m.id /\ last.id \in {0, published.id}
    BY <2>1, <2>3, Numbers DEF WayInv, OrderInv
  <2>5. m.id = published.id => mapper.native = 0
    <3>1. Seen(m) /\ Same(Shown, m)
      BY <2>3 DEF WayInv, RepeatInv, SameInv
    <3> QED
      BY <2>1, <2>2, <3>1 DEF Seen, Same, Shown
  <2> HIDE DEF m
  <2> QED
    BY <2>1, <2>4, <2>5, Numbers, NaNType
<1> QED
  BY <1>1, InitWay, WayStep, TypeInvariance, PTL DEF Spec, OncePerPacket
=============================================================================
