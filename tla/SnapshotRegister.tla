-------------------------- MODULE SnapshotRegister --------------------------
(***************************************************************************)
(* What lbr_fri_ros2::StateSnapshot promises its users, without slots,     *)
(* exchange word or mutex: an atomic register.  One producer publishes     *)
(* snapshots number 1, 2, 3, ... (number 0 is the value-initialised T{});  *)
(* a read that is called and later returns delivers, whole, the snapshot   *)
(* that was the latest one at an instant between its call and its return.  *)
(*                                                                         *)
(* A snapshot T is copied word by word by the implementation, so a result  *)
(* is a function from Words: every word of snapshot n carries n.           *)
(***************************************************************************)
EXTENDS Naturals

CONSTANTS
  Readers,    \* the threads that call read()
  Words       \* the words a snapshot T consists of

VARIABLES
  latest,     \* number of the last published snapshot
  phase,      \* phase[r]: where reader r is in its call of read()
  seen        \* seen[r]: the snapshot r has taken, kept after it returned

vars == <<latest, phase, seen>>

\* Snapshot number n as T holds it.
Image(n) == [w \in Words |-> n]

Init ==
  /\ latest = 0
  /\ phase = [r \in Readers |-> "idle"]
  /\ seen = [r \in Readers |-> Image(0)]

Publish ==
  /\ latest' = latest + 1
  /\ UNCHANGED <<phase, seen>>

Call(r) ==
  /\ phase[r] = "idle"
  /\ phase' = [phase EXCEPT ![r] = "called"]
  /\ UNCHANGED <<latest, seen>>

\* The instant at which the read takes effect.
Take(r) ==
  /\ phase[r] = "called"
  /\ phase' = [phase EXCEPT ![r] = "taken"]
  /\ seen' = [seen EXCEPT ![r] = Image(latest)]
  /\ UNCHANGED latest

Return(r) ==
  /\ phase[r] = "taken"
  /\ phase' = [phase EXCEPT ![r] = "idle"]
  /\ UNCHANGED <<latest, seen>>

Next ==
  \/ Publish
  \/ \E r \in Readers : Call(r) \/ Take(r) \/ Return(r)

Spec == Init /\ [][Next]_vars
=============================================================================
