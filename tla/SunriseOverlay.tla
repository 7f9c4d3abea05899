---------------------------- MODULE SunriseOverlay -----------------------------
(***************************************************************************)
(* FRICartesianWall.java on the robot controller: it holds the arm stiff,  *)
(* polls Output1, and an edge starts or stops the compliant motion with    *)
(* the FRI overlay.  The robot's FRI session follows that motion.          *)
(*                                                                         *)
(* External: the end of a motion, and the progress of the session.  That a *)
(* motion cannot be cancelled within five seconds ends the application.    *)
(***************************************************************************)
EXTENDS Integers

VARIABLES
  session, io,  \* of the robot: FRI session state, Output1
  app,          \* where run() is
  motion,       \* the overlay's motion: "none", "running", "cancelled", "finished"
  hold,         \* a stiff hold is commanded
  previousOutput,
  accepted,     \* lastAcceptedEdge # 0: the last START may be less than a second ago
  edge          \* history: Output1 changed since the last motion was confirmed ended

sunriseVars == <<session, app, motion, hold, previousOutput, accepted, edge>>

SunriseInit ==
  /\ session = "MONITORING" /\ io = FALSE  \* either level: only its changes matter
  /\ app = "loop" /\ motion = "none" /\ hold = TRUE
  /\ previousOutput = io /\ accepted = FALSE /\ edge = FALSE

Observe == io # previousOutput /\ previousOutput' = io

\* The motion ended by itself: hold, and take the output as it is.
NoticeEnd ==
  /\ app = "loop" /\ motion = "finished"
  /\ motion' = "none" /\ hold' = TRUE /\ previousOutput' = io /\ edge' = FALSE
  /\ UNCHANGED <<session, io, app, accepted>>

EdgeStops ==
  /\ app = "loop" /\ motion # "none"
  /\ Observe
  /\ app' = "stopping" /\ motion' = IF motion = "finished" THEN motion ELSE "cancelled"
  /\ UNCHANGED <<session, io, hold, accepted, edge>>

EdgeStarts ==
  /\ app = "loop" /\ motion = "none"
  /\ Observe
  /\ app' = "starting" /\ accepted' = TRUE
  /\ UNCHANGED <<session, io, motion, hold, edge>>

EdgeIgnored ==
  /\ app = "loop" /\ motion = "none" /\ accepted
  /\ Observe
  /\ UNCHANGED <<session, io, app, motion, hold, accepted, edge>>

\* startOverlay(): an edge cancels it, and so does the stop key or a failed check.
StartCancelled ==
  /\ app = "starting" /\ Observe /\ app' = "loop"
  /\ UNCHANGED <<session, io, motion, hold, accepted, edge>>

StartFails ==
  /\ app \in {"starting", "release"} /\ app' = "loop"
  /\ hold' = TRUE
  /\ UNCHANGED <<session, io, motion, previousOutput, accepted, edge>>

CancelHold ==
  /\ app = "starting" /\ app' = "release"
  /\ hold' = FALSE
  /\ UNCHANGED <<session, io, motion, previousOutput, accepted, edge>>

StartMotion ==
  /\ app = "release" /\ app' = "loop"
  /\ motion' = "running"
  /\ UNCHANGED <<session, io, hold, previousOutput, accepted, edge>>

\* Plausible bug: no rebase.
StopConfirmedNoRebase ==
  /\ app = "stopping" /\ motion = "finished" /\ app' = "loop"
  /\ motion' = "none" /\ hold' = TRUE /\ edge' = FALSE
  /\ UNCHANGED <<session, io, previousOutput, accepted>>

\* stopOverlayAndConfirm(true): rebase, so that no edge becomes a delayed start.
StopConfirmed ==
  /\ app = "stopping" /\ motion = "finished" /\ app' = "loop"
  /\ motion' = "none" /\ hold' = TRUE
  /\ previousOutput' = io /\ edge' = FALSE
  /\ UNCHANGED <<session, io, accepted>>

StopTimesOut ==
  /\ app = "stopping" /\ motion = "cancelled" /\ app' = "ending"
  /\ UNCHANGED <<session, io, motion, hold, previousOutput, accepted, edge>>

\* The stop key, where run() notices it: cancel what moves, then close the session.
StopKey ==
  /\ app \in {"loop", "starting", "release"} /\ app' = "ending"
  /\ motion' = IF motion = "running" THEN "cancelled" ELSE motion
  /\ UNCHANGED <<session, io, hold, previousOutput, accepted, edge>>

Close ==
  /\ app = "ending" /\ motion # "cancelled" /\ app' = "ended"
  /\ motion' = "none" /\ hold' = FALSE /\ session' = "IDLE" /\ previousOutput' = io
  /\ UNCHANGED <<io, accepted, edge>>

Run == NoticeEnd \/ EdgeStops \/ EdgeStarts \/ EdgeIgnored \/ StartCancelled \/ StartFails
         \/ CancelHold \/ StartMotion \/ StopConfirmed \/ StopTimesOut \/ Close

-----------------------------------------------------------------------------
(* External: the robot *)

SessionProgresses ==
  /\ motion = "running"
  /\ \/ session = "MONITORING" /\ session' = "WAIT"
     \/ session = "WAIT" /\ session' = "ACTIVE"
  /\ UNCHANGED <<io, app, motion, hold, previousOutput, accepted, edge>>

MotionEnds ==
  /\ motion \in {"running", "cancelled"}
  /\ motion' = "finished" /\ session' = "MONITORING"
  /\ UNCHANGED <<io, app, hold, previousOutput, accepted, edge>>

CancelEnds == motion = "cancelled" /\ MotionEnds
=============================================================================
