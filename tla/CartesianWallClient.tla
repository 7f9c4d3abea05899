-------------------------- MODULE CartesianWallClient --------------------------
(***************************************************************************)
(* FriCartesianWallClient: the FRI thread, which runs application.step()   *)
(* in main's loop, and the ROS thread, which answers the START/STOP        *)
(* service and publishes.  They share atomics; every access that the other *)
(* thread can tell apart is an action.                                     *)
(*                                                                         *)
(* Joint angles, forces and the wall law are left out: a cycle samples,    *)
(* throws or misses its deadline, a start is accepted or refused, and a    *)
(* wrench is sent that is zero or computed.  Feedback may grow stale at    *)
(* any time after a sample.                                                *)
(***************************************************************************)
EXTENDS Integers

VARIABLES
  session, io,  \* of the robot: FRI session state, Output1
  shared,       \* the atomics: run_requested_ and the others
  fri,          \* FRI thread: where it is, and what only it uses
  call,         \* service callback: where it is, and its locals
  lost,         \* history: commanding ended while requested, no START called since
  late          \* history: wrenches computed since authorization was withdrawn

history == <<lost, late>>
clientVars == <<shared, fri, call, history>>

Session == {"IDLE", "MONITORING", "WAIT", "ACTIVE"}
Commanding == {"WAIT", "ACTIVE"}

NoCall == [pc |-> "idle", was_requested |-> FALSE, next |-> FALSE]

ClientInit ==
  /\ shared = [run_requested |-> FALSE, authorized |-> FALSE, fault |-> FALSE,
               output |-> -1, has_readback |-> FALSE, readback |-> FALSE]
  /\ fri = [pc |-> "idle", old |-> "IDLE", new |-> "IDLE", active |-> FALSE,
            velocity_initialized |-> FALSE]
  /\ call = NoCall
  /\ lost = FALSE /\ late = 0

-----------------------------------------------------------------------------
(* FRI thread *)

\* A step of the FRI thread that leaves the robot alone.
FriStep(from, after, atomics) ==
  /\ fri.pc = from /\ fri' = after /\ shared' = atomics
  /\ UNCHANGED <<session, io, call, history>>

At(to) == [fri EXCEPT !.pc = to]

\* The callback of a session state; there is none in IDLE.
Callback(s) == IF s = "IDLE" THEN "idle" ELSE "sample"

\* A packet arrives: the callbacks of the cycle follow its session state.
Receive ==
  LET changed == session # fri.new IN
  /\ fri.pc = "idle"
  /\ fri' = [fri EXCEPT !.pc = IF changed THEN "revoke" ELSE Callback(session),
                        !.old = fri.new, !.new = session]
  /\ lost' = (lost \/ (shared.run_requested /\ changed
                         /\ fri.new \in Commanding /\ session # "ACTIVE"))
  /\ late' = IF changed THEN 0 ELSE late
  /\ UNCHANGED <<session, io, shared, call>>

\* step() returns false or throws.
StepFails == FriStep("idle", At("disconnect"), shared)

\* mark_disconnected(), first the authorization, then the rest.
MarkDisconnected ==
  FriStep("disconnect", At("forget"), [shared EXCEPT !.authorized = FALSE])

Forget ==
  FriStep("forget", [At("idle") EXCEPT !.active = FALSE],
          [shared EXCEPT !.run_requested = FALSE, !.has_readback = FALSE])

\* onStateChange(old, new)
RevokeIf(interrupted) ==
  FriStep("revoke",
          [fri EXCEPT !.pc = CASE interrupted -> "exchange"
                               [] fri.new = "ACTIVE" -> "requested"
                               [] OTHER -> Callback(fri.new),
                      !.old = fri.new, !.active = FALSE, !.velocity_initialized = FALSE],
          [shared EXCEPT !.authorized = FALSE])

\* Plausible bug: only the end of COMMANDING_ACTIVE is an interruption.
RevokeAfterActive == RevokeIf(fri.old = "ACTIVE")

Revoke == RevokeIf(fri.old \in Commanding /\ fri.new # "ACTIVE")

Exchange ==
  FriStep("exchange", At(IF shared.run_requested THEN "latch" ELSE Callback(fri.new)),
          [shared EXCEPT !.run_requested = FALSE])

\* Commanding began or ended unrequested.
Latch == FriStep("latch", At(Callback(fri.new)), [shared EXCEPT !.fault = TRUE])

LoadRequested ==
  FriStep("requested", At(IF shared.run_requested THEN "fault" ELSE "latch"), shared)

LoadFault == FriStep("fault", At(IF shared.fault THEN "latch" ELSE "authorize"), shared)

Authorize == FriStep("authorize", At("sample"), [shared EXCEPT !.authorized = TRUE])

\* sample_state() throws, or command() finds another mode.
SampleThrows == FriStep("sample", At("disconnect"), shared)

\* The last sample is older than the timeout.
SampleGap ==
  /\ fri.velocity_initialized /\ shared.authorized
  /\ FriStep("sample", [At("gap") EXCEPT !.velocity_initialized = FALSE],
             [shared EXCEPT !.authorized = FALSE])

LatchGap ==
  FriStep("gap", [At("feedback") EXCEPT !.active = FALSE], [shared EXCEPT !.fault = TRUE])

\* The sample is stored; the readback of the output may be missing.
StoreFeedback ==
  \E from \in {"sample", "feedback"}, there \in BOOLEAN :
    FriStep(from,
            [fri EXCEPT !.pc = IF fri.new = "ACTIVE" THEN "authorized" ELSE "reply",
                        !.velocity_initialized = TRUE],
            [shared EXCEPT !.has_readback = there, !.readback = IF there THEN io ELSE @])

\* command(): without an authorization the controller is off and the wrench zero.
Zero == [At("reply") EXCEPT !.active = FALSE]

\* Plausible bug: an active controller is not asked again.
LoadAuthorizedOnce ==
  FriStep("authorized", IF shared.authorized \/ fri.active THEN At("latched") ELSE Zero, shared)

LoadAuthorized ==
  FriStep("authorized", IF shared.authorized THEN At("latched") ELSE Zero, shared)

\* The controller starts, if it has to, and computes a wrench.
LoadLatched ==
  FriStep("latched", IF shared.fault THEN Zero ELSE [At("send") EXCEPT !.active = TRUE], shared)

\* Its update() throws.
ComputeThrows ==
  ~ shared.fault /\ FriStep("latched", [At("disconnect") EXCEPT !.active = TRUE], shared)

\* validate_startup() or activate() throws: four stores.
StartRefused ==
  ~ shared.fault /\ ~ fri.active /\ FriStep("latched", At("refuse"), shared)

RefuseLatch == FriStep("refuse", At("refuse run"), [shared EXCEPT !.fault = TRUE])
RefuseRun == FriStep("refuse run", At("withdraw"), [shared EXCEPT !.run_requested = FALSE])
RefuseWithdraw == FriStep("withdraw", At("return"), [shared EXCEPT !.authorized = FALSE])
RefuseOutput ==
  FriStep("return", At("reply"), [shared EXCEPT !.output = IF shared.readback THEN 0 ELSE 1])

\* Plausible bug: the early return of command() forgets the output.
ReplyForgets ==
  /\ fri.pc \in {"reply", "send"} /\ fri' = At("idle")
  /\ io' = IF shared.output >= 0 /\ (fri.pc = "send" \/ fri.new # "ACTIVE")
             THEN shared.output = 1 ELSE io
  /\ late' = IF fri.pc = "send" /\ ~ shared.authorized THEN late + 1 ELSE late
  /\ UNCHANGED <<session, shared, call, lost>>

\* apply_output_command(), and the reply that carries it and the wrench.
Reply ==
  /\ fri.pc \in {"reply", "send"} /\ fri' = At("idle")
  /\ io' = IF shared.output >= 0 THEN shared.output = 1 ELSE io
  /\ late' = IF fri.pc = "send" /\ ~ shared.authorized THEN late + 1 ELSE late
  /\ UNCHANGED <<session, shared, call, lost>>

Fri ==
  \/ Receive \/ StepFails \/ MarkDisconnected \/ Forget
  \/ Revoke \/ Exchange \/ Latch \/ LoadRequested \/ LoadFault \/ Authorize
  \/ SampleThrows \/ SampleGap \/ LatchGap \/ StoreFeedback
  \/ LoadAuthorized \/ LoadLatched \/ ComputeThrows \/ StartRefused
  \/ RefuseLatch \/ RefuseRun \/ RefuseWithdraw \/ RefuseOutput \/ Reply

-----------------------------------------------------------------------------
(* ROS thread *)

Step(from, to, atomics) ==
  /\ call.pc = from /\ call' = [call EXCEPT !.pc = to] /\ shared' = atomics
  /\ UNCHANGED <<session, io, fri, history>>

\* A request with a readback, fresh; any other is refused at once.
ToggleCalled ==
  /\ call.pc = "idle" /\ shared.has_readback
  /\ call' = [call EXCEPT !.pc = "decide", !.was_requested = shared.run_requested]
  /\ lost' = (lost /\ shared.run_requested)
  /\ UNCHANGED <<session, io, fri, shared, late>>

ToggleDecides ==
  LET previous == shared.output
      unconfirmed == ~ call.was_requested /\ previous >= 0
                       /\ (previous = 1) # shared.readback
  IN
  /\ call.pc = "decide"
  /\ call' = IF unconfirmed THEN NoCall ELSE [call EXCEPT
       !.pc = IF call.was_requested THEN "stop" ELSE "start",
       !.next = IF previous >= 0 THEN previous = 0 ELSE ~ shared.readback]
  /\ UNCHANGED <<session, io, fri, shared, history>>

\* START clears the latch, then requests; STOP requests, then revokes.
ToggleClears == Step("start", "run", [shared EXCEPT !.fault = FALSE])
ToggleRuns == Step("run", "output", [shared EXCEPT !.run_requested = TRUE])
ToggleStops == Step("stop", "revoke", [shared EXCEPT !.run_requested = FALSE])
ToggleRevokes == Step("revoke", "output", [shared EXCEPT !.authorized = FALSE])

ToggleOutput ==
  /\ call.pc = "output" /\ call' = NoCall
  /\ shared' = [shared EXCEPT !.output = IF call.next THEN 1 ELSE 0]
  /\ UNCHANGED <<session, io, fri, history>>

\* publish_joint_state() without fresh feedback.
PublishStale ==
  /\ shared.has_readback
  /\ Step("idle", "idle", [shared EXCEPT !.has_readback = FALSE])

Toggle == ToggleDecides \/ ToggleClears \/ ToggleRuns \/ ToggleStops \/ ToggleRevokes
            \/ ToggleOutput

Ros == ToggleCalled \/ Toggle \/ PublishStale
=============================================================================
