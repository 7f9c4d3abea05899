------------------------------- MODULE TimeMapper -------------------------------
(***************************************************************************)
(* NativeTimeMapper of telemetry_timing.py as an operator: the mapper's    *)
(* next state and its answer for one sample.  Times are integers in a unit *)
(* in which both thresholds are at least one.                              *)
(***************************************************************************)
EXTENDS Integers

CONSTANTS
  ClockJump,  \* clock_jump_ns
  Restart     \* restart_ns

ASSUME MapperAssumption == ClockJump \in Nat \ {0} /\ Restart \in Nat \ {0}

None == -1  \* Python's None; a time is not negative

NewMapper ==
  [segment |-> 0, known |-> FALSE, offset |-> 0,
   native |-> None, ros |-> None, steady |-> None, stamp |-> None]

Abs(x) == IF x < 0 THEN -x ELSE x
Smaller(a, b) == IF a < b THEN a ELSE b

HostJumped(m, ros, steady) ==
  steady < m.steady \/ Abs((ros - m.ros) - (steady - m.steady)) > ClockJump

\* A step of the robot's clock that is large, or backwards and long ago.
NativeReset(m, native, steady) ==
  LET elapsed == steady - m.steady
  IN IF native < m.native
       THEN m.native - native >= Restart \/ elapsed >= Restart
       ELSE native - m.native - elapsed > Restart

Reset(m, native, ros, steady) ==
  m.steady # None /\ (HostJumped(m, ros, steady) \/ NativeReset(m, native, steady))

OutOfOrder(m, native, ros, steady) ==
  /\ m.steady # None /\ native < m.native
  /\ ~ HostJumped(m, ros, steady) /\ ~ NativeReset(m, native, steady)

\* The mapper after a sample that it does not reject at once.
\* Plausible bug: the offset is that of the latest sample.
AdvancedLate(m, native, ros, steady) ==
  LET new == ~ m.known \/ Reset(m, native, ros, steady)
      offset == IF new THEN ros - native ELSE m.offset
      last == IF new THEN None ELSE m.stamp
      stamp == native + offset
  IN [segment |-> m.segment + (IF new THEN 1 ELSE 0), known |-> TRUE, offset |-> offset,
      native |-> native, ros |-> ros, steady |-> steady,
      stamp |-> IF last # None /\ stamp <= last THEN last ELSE stamp]

Advanced(m, native, ros, steady) ==
  LET new == ~ m.known \/ Reset(m, native, ros, steady)
      offset == IF new THEN ros - native ELSE Smaller(m.offset, ros - native)
      last == IF new THEN None ELSE m.stamp
      stamp == native + offset
  IN [segment |-> m.segment + (IF new THEN 1 ELSE 0), known |-> TRUE, offset |-> offset,
      native |-> native, ros |-> ros, steady |-> steady,
      stamp |-> IF last # None /\ stamp <= last THEN last ELSE stamp]

\* Plausible bug: a repeated sample refreshes the times of the host.
MappedRefreshing(m, native, ros, steady) ==
  CASE OutOfOrder(m, native, ros, steady) -> m
    [] native = m.native -> [m EXCEPT !.ros = ros, !.steady = steady]
    [] OTHER -> Advanced(m, native, ros, steady)

\* Plausible bug: repeated samples are looked for on one clock only.
MappedRepeating(m, native, ros, steady) ==
  IF \/ OutOfOrder(m, native, ros, steady)
     \/ native = m.native /\ ~ Reset(m, native, ros, steady)
    THEN m ELSE Advanced(m, native, ros, steady)

\* map(): a repeated sample changes nothing, after a clock step too.
Mapped(m, native, ros, steady) ==
  IF OutOfOrder(m, native, ros, steady) \/ native = m.native
    THEN m ELSE Advanced(m, native, ros, steady)

\* map() answers with a sample when it stamped one.
Answered(m, next) == next.segment # m.segment \/ next.stamp # m.stamp
=============================================================================
