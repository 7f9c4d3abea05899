--------------------------- MODULE CommandControllers ---------------------------
(***************************************************************************)
(* The controllers that turn a topic into commands: joint position, torque *)
(* and wrench, which forward a message, and twist, which integrates one    *)
(* under a watchdog that counts updates.  One of them is loaded; its       *)
(* subscription callback runs in the executor's thread, its update() and   *)
(* lifecycle in the controller manager's.                                  *)
(*                                                                         *)
(* A message is its number.  An update reads the buffer and decides, then  *)
(* writes the command interfaces, then (twist) increments the count, which *)
(* is atomic.                                                              *)
(*                                                                         *)
(* External: realtime_tools::RealtimeBuffer, two places that a reader      *)
(* swaps unless a writer holds the lock; the controller manager, which     *)
(* activates a controller when the hardware exports what it claims.        *)
(***************************************************************************)
EXTENDS Integers

CONSTANTS
  Timeout,     \* timeout / period, in updates
  MaxMessage   \* bound of the model: messages received

ASSUME ControllersAssumption == Timeout \in Nat /\ MaxMessage \in Nat

VARIABLES
  kind,        \* the controller that is loaded
  life,        \* "new", "failed", "inactive", "active"
  matches,     \* its robot_name is the one of the hardware's joints
  session,     \* session state interface: COMMANDING_ACTIVE
  buffer,      \* RealtimeBuffer of the command; 0 is no message
  count,       \* updates_since_last_command_
  received, callback,  \* last message; where the subscription callback is
  update,      \* where update() is
  command,     \* what each command interface was set to
  since,       \* history: last message received before the activation
  moves        \* history: motions since a twist was stored last

executorVars == <<received, callback>>
loopVars == <<update, command>>
vars == <<kind, life, matches, session, buffer, count, executorVars, loopVars, since, moves>>

Interfaces == {"position", "effort", "wrench"}

\* command_interface_configuration() of each
PositionClaims == {"position"}
TorqueClaims == {"position", "effort"}
WrenchClaims == {"position", "wrench"}
TwistClaims == {"position"}

Empty == [rt |-> 0, nonrt |-> 0, new_data |-> FALSE]
Written(b, message) == [b EXCEPT !.nonrt = message, !.new_data = TRUE]
Swapped(b) == IF b.new_data THEN [rt |-> b.nonrt, nonrt |-> b.rt, new_data |-> FALSE] ELSE b

Init ==
  /\ kind \in {"position", "torque", "wrench", "twist"}
  /\ life = "new" /\ matches = FALSE /\ session = FALSE
  /\ buffer = Empty /\ count = 0 /\ received = 0 /\ callback = "idle"
  /\ update = "idle"
  /\ command = [i \in Interfaces |-> 0]
  /\ since = 0 /\ moves = 0

-----------------------------------------------------------------------------
(* Lifecycle *)

\* on_init() of a controller subscribes, then reads its parameters.
Initialized(k, parametersOk) ==
  /\ kind = k /\ life = "new"
  /\ life' = IF parametersOk THEN "inactive" ELSE "failed"
  /\ matches' \in BOOLEAN
  /\ UNCHANGED <<kind, session, buffer, count, executorVars, loopVars, since, moves>>

PositionOnInit == Initialized("position", TRUE)
TorqueOnInit == Initialized("torque", TRUE)
WrenchOnInit == Initialized("wrench", TRUE)
TwistOnInit == \E description, gains \in BOOLEAN : Initialized("twist", description /\ gains)

\* reset_command_buffer_() waits for a writer.
Unlocked == callback # "storing"

Activated(ks, b) ==
  /\ kind \in ks /\ life = "inactive" /\ matches /\ life' = "active"
  /\ buffer' = b /\ since' = received
  /\ UNCHANGED <<kind, matches, session, count, executorVars, loopVars, moves>>

\* Plausible bug: activation leaves the buffer alone.
TwistOnActivateKeeps == Unlocked /\ Activated({"twist"}, buffer)
TwistOnActivate == Unlocked /\ Activated({"twist"}, Written(buffer, 0))
PositionOnActivate == Activated({"position"}, buffer)
TorqueOnActivate == Activated({"torque"}, buffer)
WrenchOnActivate == Activated({"wrench"}, buffer)

Deactivated(ks, b) ==
  /\ kind \in ks /\ life = "active" /\ update = "idle" /\ life' = "inactive"
  /\ buffer' = b
  /\ UNCHANGED <<kind, matches, session, count, executorVars, loopVars, since, moves>>

TwistOnDeactivate == Unlocked /\ Deactivated({"twist"}, Written(buffer, 0))
PositionOnDeactivate == Deactivated({"position"}, buffer)
TorqueOnDeactivate == Deactivated({"torque"}, buffer)
WrenchOnDeactivate == Deactivated({"wrench"}, buffer)

Lifecycle ==
  \/ PositionOnInit \/ TorqueOnInit \/ WrenchOnInit \/ TwistOnInit
  \/ PositionOnActivate \/ TorqueOnActivate \/ WrenchOnActivate \/ TwistOnActivate
  \/ PositionOnDeactivate \/ TorqueOnDeactivate \/ WrenchOnDeactivate \/ TwistOnDeactivate

-----------------------------------------------------------------------------
(* Subscription callback *)

\* writeFromNonRT() takes the lock ...
Receive ==
  /\ callback = "idle" /\ life # "new" /\ received < MaxMessage
  /\ received' = received + 1 /\ callback' = "storing"
  /\ UNCHANGED <<kind, life, matches, session, buffer, count, loopVars, since, moves>>

\* ... and gives it back.
Store ==
  /\ callback = "storing" /\ callback' = IF kind = "twist" THEN "reset" ELSE "idle"
  /\ buffer' = Written(buffer, received) /\ moves' = 0
  /\ UNCHANGED <<kind, life, matches, session, count, received, loopVars, since>>

ResetCount ==
  /\ callback = "reset" /\ callback' = "idle"
  /\ count' = 0
  /\ UNCHANGED <<kind, life, matches, session, buffer, received, loopVars, since, moves>>

-----------------------------------------------------------------------------
(* update() *)

\* readFromRT(), and an early return unless it proceeds with the message.
Read(ks, proceeds, unlocked) ==
  /\ kind \in ks /\ life = "active" /\ update = "idle"
  /\ buffer' = IF callback = "storing" THEN buffer ELSE unlocked
  /\ update' = IF buffer'.rt # 0 /\ proceeds THEN "write" ELSE "idle"
  /\ UNCHANGED <<kind, life, matches, session, count, executorVars, command, since, moves>>

Forward == {"position", "torque", "wrench"}
\* Plausible bug: the places are swapped whether or not there is new data.
ForwardReadSwaps == Read(Forward, TRUE, [rt |-> buffer.nonrt, nonrt |-> buffer.rt, new_data |-> FALSE])
ForwardRead == Read(Forward, TRUE, Swapped(buffer))

\* Plausible bug: the watchdog counts the updates without a session only.
TwistReadUnwatched == Read({"twist"}, session, Swapped(buffer))
TwistRead == Read({"twist"}, session /\ ~ count > Timeout, Swapped(buffer))

Write(k, claims) ==
  /\ kind = k /\ update = "write"
  /\ command' = [i \in Interfaces |-> IF i \in claims THEN buffer.rt ELSE command[i]]

PositionUpdate ==
  /\ Write("position", PositionClaims) /\ update' = "idle"
  /\ UNCHANGED <<kind, life, matches, session, buffer, count, executorVars, since, moves>>
TorqueUpdate ==
  /\ Write("torque", TorqueClaims) /\ update' = "idle"
  /\ UNCHANGED <<kind, life, matches, session, buffer, count, executorVars, since, moves>>
WrenchUpdate ==
  /\ Write("wrench", WrenchClaims) /\ update' = "idle"
  /\ UNCHANGED <<kind, life, matches, session, buffer, count, executorVars, since, moves>>
TwistUpdate ==
  /\ Write("twist", TwistClaims) /\ update' = "count"
  /\ moves' = moves + 1
  /\ UNCHANGED <<kind, life, matches, session, buffer, count, executorVars, since>>

TwistCount ==
  /\ update = "count" /\ update' = "idle"
  /\ count' = count + 1
  /\ UNCHANGED <<kind, life, matches, session, buffer, executorVars, command, since, moves>>

Update == ForwardRead \/ TwistRead \/ PositionUpdate \/ TorqueUpdate \/ WrenchUpdate
            \/ TwistUpdate \/ TwistCount

SessionChanges ==
  /\ update = "idle" /\ session' = ~ session
  /\ UNCHANGED <<kind, life, matches, buffer, count, executorVars, loopVars, since, moves>>

Next == Lifecycle \/ Receive \/ Store \/ ResetCount \/ Update \/ SessionChanges

Spec == Init /\ [][Next]_vars

-----------------------------------------------------------------------------

\* The counter is reset after the twist is stored (twist_controller.cpp:34-35),
\* and updates may come between the two, through sessions and activations that
\* end meanwhile: until the reset a stored twist moves the robot for one timeout
\* at most, and from its storing on for twice the timeout at most.
TwistStops ==
  /\ callback = "reset" => moves <= Timeout + 1
  /\ moves <= 2 * (Timeout + 1)

\* After an activation the robot moves by twists received since, never by an
\* earlier one; only an update that finds the buffer locked by a newer twist
\* may use the one before (reset_command_buffer_()).
FreshTwist ==
  [][kind = "twist" /\ update = "idle" /\ update' = "write" /\ callback # "storing"
       => buffer'.rt > since]_vars

\* No command interface goes back to an older message, across activations too
\* (readFromRT(), on_deactivate()).
NeverBack == [][\A i \in Interfaces : command'[i] >= command[i]]_vars
=============================================================================
