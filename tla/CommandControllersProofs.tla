------------------------ MODULE CommandControllersProofs ------------------------
(***************************************************************************)
(* The three properties of CommandControllers for every timeout and every  *)
(* number of messages.  Each rests on an invariant of its own: what the    *)
(* watchdog's counter bounds, what the two places of the buffer hold       *)
(* relative to the command interfaces, and relative to the activation.     *)
(***************************************************************************)
EXTENDS CommandControllers, TLAPS

Buffers == [rt : Nat, nonrt : Nat, new_data : BOOLEAN]

TypeInv ==
  /\ kind \in {"position", "torque", "wrench", "twist"}
  /\ life \in {"new", "failed", "inactive", "active"}
  /\ buffer \in Buffers
  /\ count \in Nat /\ moves \in Nat
  /\ received \in Nat /\ since \in Nat
  /\ callback \in {"idle", "storing", "reset"}
  /\ update \in {"idle", "write", "count"}
  /\ command \in [Interfaces -> Nat]

\* What updates may have moved the robot by before the counter was reset for the
\* twist stored last.
Before == IF callback = "reset" THEN 0 ELSE Timeout + 1

\* From then on the counter is not behind the motions, but for the one that
\* update() has just made: a callback may reset the counter before it is counted.
WatchInv ==
  /\ kind # "twist" => moves = 0 /\ count = 0 /\ update # "count"
  /\ update = "idle" => moves <= Before + count /\ count <= Timeout + 1
  /\ update = "write" => moves <= Before + count /\ count <= Timeout
  /\ update = "count" => moves <= Before + count + 1 /\ count <= Timeout

\* Both places hold messages already received, or the 0 of a reset; a message
\* that waits for the reader is newer than the reader's, which is no older than
\* what the interfaces were set to.
NewerInv ==
  /\ buffer.rt <= received /\ buffer.nonrt <= received
  /\ \A i \in Interfaces : command[i] <= received
  /\ buffer.rt # 0 => \A i \in Interfaces : command[i] <= buffer.rt
  /\ buffer.new_data /\ buffer.nonrt # 0 =>
       /\ buffer.rt <= buffer.nonrt
       /\ \A i \in Interfaces : command[i] <= buffer.nonrt
  /\ update = "write" => buffer.rt # 0

\* An active twist controller has nothing of before its activation left to read.
SinceInv ==
  /\ since <= received
  /\ kind = "twist" /\ life = "active" =>
       /\ callback = "storing" => since < received
       /\ buffer.new_data => buffer.nonrt = 0 \/ since < buffer.nonrt
       /\ ~ buffer.new_data => buffer.rt = 0 \/ since < buffer.rt

-----------------------------------------------------------------------------
\* What a writer and a reader that gets the lock leave in the two places.
LEMMA WrittenBuffer ==
  ASSUME TypeInv, NEW m \in Nat, buffer' = Written(buffer, m)
  PROVE  /\ buffer' \in Buffers
         /\ buffer'.rt = buffer.rt /\ buffer'.nonrt = m /\ buffer'.new_data
  BY DEF Written, TypeInv, Buffers

LEMMA SwappedBuffer ==
  ASSUME TypeInv, buffer' = Swapped(buffer)
  PROVE  /\ buffer' \in Buffers /\ ~ buffer'.new_data
         /\ buffer'.rt = IF buffer.new_data THEN buffer.nonrt ELSE buffer.rt
         /\ buffer.new_data => buffer'.nonrt = buffer.rt
         /\ buffer.new_data \/ buffer' = buffer
  BY DEF Swapped, TypeInv, Buffers

LEMMA TypeInit == Init => TypeInv
  BY DEF Init, TypeInv, Empty, Buffers

\* What on_init(), on_activate() and on_deactivate() do, for any of the
\* controllers: only twist touches the buffer, and starts with none of its own.
LEMMA LifecycleStep ==
  ASSUME TypeInv, Lifecycle
  PROVE  /\ UNCHANGED <<kind, count, executorVars, loopVars, moves>>
         /\ life' \in {"failed", "inactive", "active"}
         /\ buffer' = buffer \/ buffer' = Written(buffer, 0)
         /\ since' = since \/ since' = received
         /\ kind = "twist" /\ life' = "active" =>
              callback # "storing" /\ since' = received /\ buffer' = Written(buffer, 0)
<1>1. CASE PositionOnInit \/ TorqueOnInit \/ WrenchOnInit \/ TwistOnInit
  BY <1>1 DEF PositionOnInit, TorqueOnInit, WrenchOnInit, TwistOnInit, Initialized
<1>2. CASE PositionOnActivate \/ TorqueOnActivate \/ WrenchOnActivate
  BY <1>2 DEF PositionOnActivate, TorqueOnActivate, WrenchOnActivate, Activated
<1>3. CASE TwistOnActivate
  BY <1>3 DEF TwistOnActivate, Activated, Unlocked
<1>4. CASE PositionOnDeactivate \/ TorqueOnDeactivate \/ WrenchOnDeactivate
  BY <1>4 DEF PositionOnDeactivate, TorqueOnDeactivate, WrenchOnDeactivate, Deactivated
<1>5. CASE TwistOnDeactivate
  BY <1>5 DEF TwistOnDeactivate, Deactivated
<1> QED
  BY <1>1, <1>2, <1>3, <1>4, <1>5 DEF Lifecycle

\* The controller manager's and the subscription's steps keep the types.
LEMMA TypeEvents ==
  TypeInv /\ (Lifecycle \/ Receive \/ Store \/ ResetCount \/ SessionChanges) => TypeInv'
<1> SUFFICES ASSUME TypeInv, Lifecycle \/ Receive \/ Store \/ ResetCount \/ SessionChanges
             PROVE  TypeInv'
  OBVIOUS
<1>1. CASE Lifecycle
  <2> buffer' \in Buffers
    <3>1. CASE buffer' = buffer
      BY <3>1 DEF TypeInv
    <3>2. CASE buffer' = Written(buffer, 0)
      BY <3>2, WrittenBuffer
    <3> QED
      BY <1>1, <3>1, <3>2, LifecycleStep
  <2> QED
    BY <1>1, LifecycleStep DEF TypeInv, executorVars, loopVars
<1>2. CASE Receive
  BY <1>2 DEF TypeInv, Receive, loopVars
<1>3. CASE Store
  <2> received \in Nat /\ buffer' = Written(buffer, received)
    BY <1>3 DEF TypeInv, Store
  <2> buffer' \in Buffers
    BY WrittenBuffer
  <2> QED
    BY <1>3 DEF TypeInv, Store, loopVars
<1>4. CASE ResetCount
  BY <1>4 DEF TypeInv, ResetCount, loopVars
<1>5. CASE SessionChanges
  BY <1>5 DEF TypeInv, SessionChanges, executorVars, loopVars
<1> QED
  BY <1>1, <1>2, <1>3, <1>4, <1>5

\* What reading the buffer does, for any of the controllers.
LEMMA ReadStep ==
  ASSUME TypeInv, ForwardRead \/ TwistRead
  PROVE  /\ life = "active" /\ update = "idle" /\ update' \in {"idle", "write"}
         /\ buffer' = buffer \/ buffer' = Swapped(buffer)
         /\ callback # "storing" => buffer' = Swapped(buffer)
         /\ update' = "write" => buffer'.rt # 0
         /\ kind = "twist" /\ update' = "write" => count <= Timeout
         /\ UNCHANGED <<kind, life, count, received, callback, command, since, moves>>
  BY ControllersAssumption
  DEF ControllersAssumption, TypeInv, ForwardRead, TwistRead, Read, Forward, executorVars

\* What writing the command interfaces does, for any of the controllers.
LEMMA WriteStep ==
  ASSUME TypeInv, PositionUpdate \/ TorqueUpdate \/ WrenchUpdate \/ TwistUpdate
  PROVE  /\ update = "write"
         /\ \A i \in Interfaces : command'[i] \in {command[i], buffer.rt}
         /\ command' \in [Interfaces -> Nat]
         /\ UNCHANGED <<kind, life, buffer, count, received, callback, since>>
         /\ \/ /\ kind # "twist" /\ update' = "idle" /\ UNCHANGED moves
            \/ /\ kind = "twist" /\ update' = "count"
               /\ moves' = moves + 1
  BY DEF TypeInv, Buffers, PositionUpdate, TorqueUpdate, WrenchUpdate, TwistUpdate, Write, executorVars

LEMMA TypeStep == TypeInv /\ [Next]_vars => TypeInv'
<1> SUFFICES ASSUME TypeInv, [Next]_vars PROVE TypeInv'
  OBVIOUS
<1>1. CASE Lifecycle \/ Receive \/ Store \/ ResetCount \/ SessionChanges
  BY <1>1, TypeEvents
<1>2. CASE ForwardRead \/ TwistRead
  <2> buffer' \in Buffers
    BY <1>2, ReadStep, SwappedBuffer DEF TypeInv
  <2> QED
    BY <1>2, ReadStep DEF TypeInv
<1>3. CASE PositionUpdate \/ TorqueUpdate \/ WrenchUpdate \/ TwistUpdate
  BY <1>3, WriteStep DEF TypeInv
<1>4. CASE TwistCount
  BY <1>4 DEF TypeInv, TwistCount, executorVars
<1>5. CASE UNCHANGED vars
  BY <1>5 DEF TypeInv, vars, executorVars, loopVars
<1> QED
  BY <1>1, <1>2, <1>3, <1>4, <1>5 DEF Next, Update

-----------------------------------------------------------------------------
LEMMA WatchInit == Init => WatchInv
  BY ControllersAssumption DEF ControllersAssumption, Init, WatchInv, Before

LEMMA WatchStep == TypeInv /\ WatchInv /\ [Next]_vars => WatchInv'
<1> SUFFICES ASSUME TypeInv, WatchInv, [Next]_vars PROVE WatchInv'
  OBVIOUS
<1> Timeout \in Nat
  BY ControllersAssumption DEF ControllersAssumption
<1>1. CASE Lifecycle \/ Receive \/ SessionChanges \/ UNCHANGED vars
  <2> /\ UNCHANGED <<kind, count, update, moves>>
      /\ callback' = "reset" <=> callback = "reset"
    BY <1>1, LifecycleStep DEF Receive, SessionChanges, vars, executorVars, loopVars
  <2> QED
    BY DEF WatchInv, Before
<1>6. CASE Store
  BY <1>6 DEF TypeInv, WatchInv, Before, Store, loopVars
<1>2. CASE ResetCount
  BY <1>2 DEF TypeInv, WatchInv, Before, ResetCount, loopVars
<1>3. CASE ForwardRead \/ TwistRead
  BY <1>3, ReadStep DEF TypeInv, WatchInv, Before
<1>4. CASE PositionUpdate \/ TorqueUpdate \/ WrenchUpdate \/ TwistUpdate
  BY <1>4, WriteStep DEF TypeInv, WatchInv, Before
<1>5. CASE TwistCount
  BY <1>5 DEF TypeInv, WatchInv, Before, TwistCount, executorVars
<1> QED
  BY <1>1, <1>2, <1>3, <1>4, <1>5, <1>6 DEF Next, Update

\* A stored twist moves the robot for its timeout at most until the counter is
\* reset and for twice that in all, whatever the timeout and however callback,
\* update() and lifecycle interleave (twist_controller.cpp:34-35).
THEOREM TwistsEnd == Spec => []TwistStops
<1>1. TypeInv /\ WatchInv => TwistStops
  BY ControllersAssumption DEF ControllersAssumption, TypeInv, WatchInv, Before, TwistStops
<1> QED
  BY <1>1, TypeInit, TypeStep, WatchInit, WatchStep, PTL DEF Spec

-----------------------------------------------------------------------------
LEMMA NewerInit == Init => NewerInv
  BY DEF Init, NewerInv, Empty

LEMMA NewerStep == TypeInv /\ NewerInv /\ [Next]_vars => NewerInv'
<1> SUFFICES ASSUME TypeInv, NewerInv, [Next]_vars PROVE NewerInv'
  OBVIOUS
<1>1. CASE Lifecycle
  <2>1. CASE buffer' = buffer
    BY <1>1, <2>1, LifecycleStep DEF NewerInv, executorVars, loopVars
  <2>2. CASE buffer' = Written(buffer, 0)
    <3> buffer'.rt = buffer.rt /\ buffer'.nonrt = 0
      BY <2>2, WrittenBuffer
    <3> QED
      BY <1>1, LifecycleStep DEF TypeInv, NewerInv, executorVars, loopVars
  <2> QED
    BY <1>1, <2>1, <2>2, LifecycleStep
<1>2. CASE Receive
  BY <1>2 DEF TypeInv, Buffers, NewerInv, Receive, loopVars
<1>3. CASE Store
  <2> received \in Nat /\ buffer' = Written(buffer, received)
    BY <1>3 DEF TypeInv, Store
  <2> buffer'.rt = buffer.rt /\ buffer'.nonrt = received
    BY WrittenBuffer
  <2> QED
    BY <1>3 DEF NewerInv, Store, loopVars
<1>4. CASE ResetCount \/ SessionChanges \/ TwistCount \/ UNCHANGED vars
  <2> /\ UNCHANGED <<buffer, received, command>>
      /\ update' = "write" => update = "write"
    BY <1>4 DEF ResetCount, SessionChanges, TwistCount, vars, executorVars, loopVars
  <2> QED
    BY DEF NewerInv
<1>5. CASE ForwardRead \/ TwistRead
  <2>1. CASE buffer' = buffer
    BY <1>5, <2>1, ReadStep DEF NewerInv
  <2>2. CASE buffer' = Swapped(buffer)
    <3>1. CASE buffer.new_data
      <4> buffer'.rt = buffer.nonrt /\ buffer'.nonrt = buffer.rt /\ ~ buffer'.new_data
        BY <2>2, <3>1, SwappedBuffer
      <4> buffer'.rt # 0 => \A i \in Interfaces : command[i] <= buffer'.rt
        BY <3>1 DEF NewerInv
      <4> /\ UNCHANGED <<received, command>>
          /\ update' = "write" => buffer'.rt # 0
        BY <1>5, ReadStep
      <4> QED
        BY <3>1 DEF NewerInv
    <3>2. CASE ~ buffer.new_data
      BY <1>5, <2>2, <3>2, ReadStep, SwappedBuffer DEF NewerInv
    <3> QED
      BY <3>1, <3>2
  <2> QED
    BY <1>5, <2>1, <2>2, ReadStep
<1>6. CASE PositionUpdate \/ TorqueUpdate \/ WrenchUpdate \/ TwistUpdate
  <2> \A i \in Interfaces : command'[i] <= buffer.rt
    BY <1>6, WriteStep DEF TypeInv, NewerInv
  <2> QED
    BY <1>6, WriteStep DEF TypeInv, NewerInv
<1> QED
  BY <1>1, <1>2, <1>3, <1>4, <1>5, <1>6 DEF Next, Update

\* No command interface goes back to an older message, through any order of
\* messages, activations and updates that find the buffer locked.
THEOREM CommandsNeverGoBack == Spec => NeverBack
<1>1. TypeInv /\ NewerInv /\ [Next]_vars => [\A i \in Interfaces : command'[i] >= command[i]]_vars
  <2> SUFFICES ASSUME TypeInv, NewerInv, Next PROVE \A i \in Interfaces : command'[i] >= command[i]
    BY DEF vars
  <2>1. CASE PositionUpdate \/ TorqueUpdate \/ WrenchUpdate \/ TwistUpdate
    BY <2>1, WriteStep DEF TypeInv, NewerInv
  <2>2. CASE ~ (PositionUpdate \/ TorqueUpdate \/ WrenchUpdate \/ TwistUpdate)
    <3> command' = command
      BY <2>2, LifecycleStep, ReadStep
      DEF Next, Update, Receive, Store, ResetCount, SessionChanges, TwistCount, loopVars
    <3> QED
      BY DEF TypeInv
  <2> QED
    BY <2>1, <2>2
<1> QED
  BY <1>1, TypeInit, TypeStep, NewerInit, NewerStep, PTL DEF Spec, NeverBack

-----------------------------------------------------------------------------
LEMMA SinceInit == Init => SinceInv
  BY DEF Init, SinceInv

LEMMA SinceStep == TypeInv /\ SinceInv /\ [Next]_vars => SinceInv'
<1> SUFFICES ASSUME TypeInv, SinceInv, [Next]_vars PROVE SinceInv'
  OBVIOUS
<1>1. CASE Lifecycle
  <2>1. since' <= received'
    BY <1>1, LifecycleStep DEF TypeInv, SinceInv, executorVars
  <2>2. CASE kind' = "twist" /\ life' = "active"
    <3> buffer' = Written(buffer, 0) /\ callback # "storing"
      BY <1>1, <2>2, LifecycleStep
    <3> buffer'.nonrt = 0 /\ buffer'.new_data
      BY WrittenBuffer
    <3> QED
      BY <1>1, <2>1, <2>2, LifecycleStep DEF SinceInv, executorVars
  <2> QED
    BY <2>1, <2>2 DEF SinceInv
<1>2. CASE Receive
  BY <1>2 DEF TypeInv, SinceInv, Receive
<1>3. CASE Store
  <2> received \in Nat /\ buffer' = Written(buffer, received)
    BY <1>3 DEF TypeInv, Store
  <2> buffer'.rt = buffer.rt /\ buffer'.nonrt = received /\ buffer'.new_data
    BY WrittenBuffer
  <2> QED
    BY <1>3 DEF SinceInv, Store
<1>4. CASE ResetCount \/ SessionChanges \/ TwistCount \/ UNCHANGED vars
  <2> /\ UNCHANGED <<kind, life, buffer, received, since>>
      /\ callback' = "storing" => callback = "storing"
    BY <1>4 DEF ResetCount, SessionChanges, TwistCount, vars, executorVars, loopVars
  <2> QED
    BY DEF SinceInv
<1>5. CASE ForwardRead \/ TwistRead
  <2>1. CASE buffer' = buffer
    BY <1>5, <2>1, ReadStep DEF SinceInv
  <2>2. CASE buffer' = Swapped(buffer)
    <3> /\ ~ buffer'.new_data
        /\ buffer'.rt = IF buffer.new_data THEN buffer.nonrt ELSE buffer.rt
      BY <2>2, SwappedBuffer
    <3> QED
      BY <1>5, ReadStep DEF SinceInv
  <2> QED
    BY <1>5, <2>1, <2>2, ReadStep
<1>6. CASE PositionUpdate \/ TorqueUpdate \/ WrenchUpdate \/ TwistUpdate
  BY <1>6, WriteStep DEF SinceInv
<1> QED
  BY <1>1, <1>2, <1>3, <1>4, <1>5, <1>6 DEF Next, Update

\* After an activation the robot moves by twists received since, although the
\* buffer still holds an older one in its other place; excepted is an update
\* that finds the buffer locked by a newer twist, which may use the older one.
THEOREM TwistsAreFresh == Spec => FreshTwist
<1> DEFINE Fresh == kind = "twist" /\ update = "idle" /\ update' = "write" /\ callback # "storing"
                      => buffer'.rt > since
<1>1. TypeInv /\ SinceInv /\ [Next]_vars => [Fresh]_vars
  <2> SUFFICES ASSUME TypeInv, SinceInv, Next, kind = "twist", update = "idle",
                      update' = "write", callback # "storing"
               PROVE  buffer'.rt > since
    BY DEF vars
  <2>1. ForwardRead \/ TwistRead
    BY LifecycleStep, WriteStep
    DEF Next, Update, Receive, Store, ResetCount, SessionChanges, TwistCount, loopVars
  <2> QED
    <3> buffer' = Swapped(buffer) /\ life = "active" /\ buffer'.rt # 0
      BY <2>1, ReadStep
    <3> buffer'.rt = IF buffer.new_data THEN buffer.nonrt ELSE buffer.rt
      BY SwappedBuffer
    <3> QED
      BY DEF SinceInv
<1> QED
  BY <1>1, TypeInit, TypeStep, SinceInit, SinceStep, PTL DEF Spec, FreshTwist
=============================================================================
