--------------------------- MODULE MediaFlangeProofs ---------------------------
(***************************************************************************)
(* The safety of the component from on_init() to its destruction, for      *)
(* every set of descriptions and either version of FRI: what it exports,   *)
(* its service thread's end, and the requests that this thread stores.     *)
(***************************************************************************)
EXTENDS MediaFlange, TLAPS

Bit == {0, 1}
Value == {-1, 0, 1}

TypeInv ==
  /\ thread \in {"none", "created", "spinning", "taken", "loading", "storing", "ended"}
  /\ fri \in {"off", "idle", "sampled", "stored"}
  /\ seen \in Value /\ request \in Value /\ readback \in Value /\ sample \in Value
  /\ wire \in Value /\ output \in Bit /\ taken \in BOOLEAN

\* What verification has established when the interfaces are exported.
ExportInv ==
  /\ stage \in {"service", "up", "exported"} =>
       JointCommandInterfaces /\ JointStateInterfaces /\ AuxiliarySensor
         /\ (Enabled => EstimatedFtSensor) /\ Gpios
  /\ stage = "exported" =>
       /\ JointNames \X JointStates \subseteq states
       /\ JointNames \X JointCommands \subseteq commands
       /\ {"auxiliary_sensor"} \X AuxiliaryStates \subseteq states
       /\ Enabled => {"estimated_ft_sensor"} \X Cartesian \subseteq states
       /\ {"wrench"} \X Cartesian \subseteq commands

\* The thread is over before the service goes, and the service before the client.
\* A component that is not up cannot be destroyed.
ThreadInv ==
  /\ stage \in {"error", "up", "exported"} \/ life = "inactive"
  /\ thread \notin {"none", "ended"} => "service" \in driver
  /\ life \in {"destroying", "destroyed"} /\ stop = "idle" => thread \in {"none", "ended"}
  /\ life = "destroyed" => stop = "idle"

\* Before the first request, all that is seen of the output is the output.
UnrequestedInv ==
  request = -1 =>
    /\ wire = -1 /\ ~ taken
    /\ readback \in {-1, output}
    /\ fri = "sampled" => sample = output
    /\ thread \in {"loading", "storing"} => seen = output

\* Afterwards it is as requested from when the robot took the request, and what the
\* FRI thread samples and stores, in this order, cannot confirm it earlier.
RequestedInv ==
  request # -1 =>
    /\ output = IF taken THEN request ELSE 1 - request
    /\ taken => wire = request
    /\ ~ taken => readback # request /\ (fri = "sampled" => sample # request)
    /\ readback = request /\ fri = "sampled" => sample = request
    /\ thread = "loading" /\ seen = request => readback = request
    /\ thread = "storing" => seen = request /\ readback = request

IInv == TypeInv /\ ExportInv /\ ThreadInv /\ UnrequestedInv /\ RequestedInv

-----------------------------------------------------------------------------
(* What is exported *)

LEMMA ExportStep == ASSUME ExportInv, OnInit PROVE ExportInv'
<1> USE DEF ExportInv, Go, Fails
<1>1. CASE BaseOnInit
  BY <1>1 DEF BaseOnInit
<1>2. CASE Parse
  BY <1>2 DEF Parse
<1>3. CASE GuardParameters
  BY <1>3 DEF GuardParameters
<1>4. CASE CreateClient
  BY <1>4 DEF CreateClient
<1>5. CASE CreateEstimator
  BY <1>5 DEF CreateEstimator
<1>6. CASE Verify
  <2>1. UNCHANGED info /\ stage' \in {"service", "error"}
    BY <1>6 DEF Verify
  <2>2. stage' = "service" =>
          JointCommandInterfaces /\ JointStateInterfaces /\ AuxiliarySensor
            /\ (Enabled => EstimatedFtSensor) /\ Gpios
    BY <1>6 DEF Verify, Sensors
  <2> QED
    BY <2>1, <2>2 DEF JointCommandInterfaces, JointStateInterfaces, Enabled, EstimatedFtSensor,
                      AuxiliarySensor, Gpios, Estimator, Joint
<1>7. CASE CreateService
  <2>1. UNCHANGED info /\ stage = "service" /\ stage' = "up"
    BY <1>7 DEF CreateService
  <2> QED
    BY <2>1 DEF JointCommandInterfaces, JointStateInterfaces, Enabled, EstimatedFtSensor,
                AuxiliarySensor, Gpios, Estimator, Joint
<1>8. CASE Export
  <2>1. UNCHANGED info /\ stage = "up" /\ stage' = "exported"
    BY <1>8 DEF Export
  <2>2. /\ JointNames \X JointStates \subseteq states'
        /\ JointNames \X JointCommands \subseteq commands'
        /\ {"auxiliary_sensor"} \X AuxiliaryStates \subseteq states'
        /\ Enabled => {"estimated_ft_sensor"} \X Cartesian \subseteq states'
        /\ {"wrench"} \X Cartesian \subseteq commands'
    BY <1>8 DEF Export
  <2> QED
    BY <2>1, <2>2 DEF JointCommandInterfaces, JointStateInterfaces, Enabled, EstimatedFtSensor,
                      AuxiliarySensor, Gpios, Estimator, Joint, JointNames
<1> QED
  BY <1>1, <1>2, <1>3, <1>4, <1>5, <1>6, <1>7, <1>8 DEF OnInit

LEMMA ExportKept ==
  ASSUME ExportInv, UNCHANGED <<info, stage, states, commands>> PROVE ExportInv'
  BY DEF ExportInv, JointCommandInterfaces, JointStateInterfaces, Enabled, EstimatedFtSensor,
         AuxiliarySensor, Gpios, Estimator, Joint, JointNames

LEMMA ExportedAsDeclared == ExportInv => DeclaredAreExported
<1> SUFFICES ASSUME ExportInv, stage = "exported" PROVE DeclaredAreExported
  BY DEF DeclaredAreExported
<1>1. ASSUME NEW i \in DOMAIN info.joints
      PROVE  /\ {Joint(i).name} \X (ToSet(Joint(i).states) \ JointExtra) \subseteq states
             /\ {Joint(i).name} \X ToSet(Joint(i).commands) \subseteq commands
  <2>1. Joint(i).name \in JointNames
    BY DEF JointNames
  <2>2. ToSet(Joint(i).commands) \subseteq JointCommands
    BY DEF ExportInv, JointCommandInterfaces
  <2>3. ToSet(Joint(i).states) \ JointExtra \subseteq JointStates
    BY DEF ExportInv, JointStateInterfaces, JointStates, JointExtra
  <2> QED
    BY <2>1, <2>2, <2>3 DEF ExportInv
<1>2. Enabled => {Estimator.name} \X ToSet(Estimator.states) \subseteq states
  BY DEF ExportInv, EstimatedFtSensor
<1>3. {info.sensors[1].name} \X (ToSet(info.sensors[1].states) \ AuxiliaryExtra) \subseteq states
  BY DEF ExportInv, AuxiliarySensor
<1>4. {info.gpios[1].name} \X (ToSet(info.gpios[1].commands) \intersect Cartesian) \subseteq commands
  BY DEF ExportInv, Gpios
<1> QED
  BY <1>1, <1>2, <1>3, <1>4 DEF DeclaredAreExported

-----------------------------------------------------------------------------
(* The service and its thread *)

LEMMA ThreadStep == ASSUME TypeInv, ThreadInv, OnInitStep PROVE ThreadInv'
<1>1. UNCHANGED <<life, stop>> /\ driver \subseteq driver'
  BY DEF OnInitStep, OnInit, BaseOnInit, Parse, GuardParameters, CreateClient, CreateEstimator,
         Verify, CreateService, Export, Go, Fails
<1>2. stage' \in {"error", "up", "exported"} \/ life = "inactive"
  BY DEF ThreadInv, OnInitStep, OnInit, BaseOnInit, Parse, GuardParameters, CreateClient,
         CreateEstimator, Verify, CreateService, Export, Go, Fails
<1>3. CASE CreateService
  BY <1>1, <1>2, <1>3 DEF CreateService, OnInitStep, ThreadInv, Go
<1>4. CASE ~ CreateService
  <2>1. ~ "service" \in driver' \ driver
    BY <1>4 DEF OnInitStep, OnInit, BaseOnInit, Parse, GuardParameters, CreateClient,
                CreateEstimator, Verify, Export, Go, Fails
  <2> QED
    BY <1>1, <1>2, <2>1 DEF OnInitStep, ThreadInv
<1> QED
  BY <1>3, <1>4

-----------------------------------------------------------------------------
(* Every step *)

LEMMA OnInitInv == ASSUME IInv, OnInitStep PROVE IInv'
<1>1. TypeInv' /\ UNCHANGED <<request, readback, fri, sample, wire, output, taken, seen>>
  BY DEF IInv, TypeInv, OnInitStep, friVars, robotVars
<1>2. UnrequestedInv' /\ RequestedInv'
  BY <1>1 DEF IInv, UnrequestedInv, RequestedInv, OnInitStep
<1> QED
  BY <1>1, <1>2, ThreadStep, ExportStep DEF IInv, OnInitStep

LEMMA ComponentInv ==
  ASSUME IInv, \/ Activate \/ ReadExit \/ Deactivate \/ Destroy
               \/ JoinService \/ CloseSocket \/ Shutdown
  PROVE  IInv'
<1> USE DEF Activate, ReadExit, Deactivate, Destroy, StopService, JoinService, CloseSocket,
            Shutdown, initVars, serviceVars, friVars, robotVars
<1>1. TypeInv'
  BY DEF IInv, TypeInv
<1>2. ExportInv'
  BY ExportKept DEF IInv
<1>3. ThreadInv'
  BY DEF IInv, TypeInv, ThreadInv
<1>4. UnrequestedInv' /\ RequestedInv'
  BY DEF IInv, UnrequestedInv, RequestedInv
<1> QED
  BY <1>1, <1>2, <1>3, <1>4 DEF IInv

\* The request that is replaced was taken, or is the first: the output is the one seen.
LEMMA StoreInv == ASSUME IInv, StoreRequest PROVE IInv'
<1> USE DEF StoreRequest, Thread, ServiceElse, componentVars, initVars, friVars, robotVars
<1>1. request' = 1 - seen /\ request' \in Bit
  BY DEF IInv, TypeInv, UnrequestedInv, RequestedInv, Bit, Value
<1>2. output = seen /\ ~ taken'
  <2>1. request = -1 => output = seen
    BY DEF IInv, UnrequestedInv
  <2>2. request # -1 => output = seen
    BY DEF IInv, RequestedInv
  <2>3. output # request'
    BY <1>1, <2>1, <2>2 DEF IInv, TypeInv, Value
  <2>4. taken' = (output = request')
    OBVIOUS
  <2> QED
    BY <2>1, <2>2, <2>3, <2>4, Zenon
<1>3. TypeInv'
  BY <1>1, <1>2 DEF IInv, TypeInv, Bit, Value
<1>4. ThreadInv' /\ UnrequestedInv'
  BY <1>1 DEF IInv, ThreadInv, UnrequestedInv, Bit
<1>5. RequestedInv'
  BY <1>1, <1>2 DEF IInv, TypeInv, Bit, Value, UnrequestedInv, RequestedInv
<1> QED
  BY <1>3, <1>4, <1>5, ExportKept DEF IInv

LEMMA ServiceInv ==
  ASSUME IInv, SpinStarts \/ SpinEnds \/ TakeRequest \/ LoadReadback \/ LoadRequest
  PROVE  IInv'
<1> USE DEF SpinStarts, SpinEnds, TakeRequest, LoadReadback, LoadRequest,
            Thread, ServiceElse, componentVars, initVars, friVars, robotVars
<1>1. TypeInv'
  BY DEF IInv, TypeInv, Value
<1>2. ThreadInv'
  BY DEF IInv, TypeInv, ThreadInv
<1>3. UnrequestedInv'
  BY DEF IInv, TypeInv, Bit, Value, UnrequestedInv
<1>4. RequestedInv'
  BY DEF IInv, TypeInv, Bit, Value, RequestedInv
<1> QED
  BY <1>1, <1>2, <1>3, <1>4, ExportKept DEF IInv

LEMMA FriInv == ASSUME IInv, FriThread PROVE IInv'
<1> USE DEF FriThread, Sample, StoreReadback, SendRequest, FriEnds, FriElse,
            componentVars, initVars, serviceVars
<1>1. TypeInv'
  BY DEF IInv, TypeInv, Bit, Value
<1>2. ThreadInv'
  BY DEF IInv, ThreadInv
<1>3. UnrequestedInv'
  BY DEF IInv, TypeInv, Bit, Value, UnrequestedInv
<1>4. RequestedInv'
  BY DEF IInv, TypeInv, Bit, Value, RequestedInv
<1> QED
  BY <1>1, <1>2, <1>3, <1>4, ExportKept DEF IInv

\* The robot has something to set only for a request that it has not taken yet.
LEMMA RobotInv == ASSUME IInv, RobotSets PROVE IInv'
<1> USE DEF RobotSets, componentVars, initVars, serviceVars, friVars
<1>1. request # -1 /\ ~ taken /\ wire = request
  BY DEF IInv, TypeInv, UnrequestedInv, RequestedInv, Bit, Value
<1>2. taken' = TRUE /\ output' = request
  BY <1>1
<1>3. TypeInv'
  BY <1>1, <1>2 DEF IInv, TypeInv, Bit, Value
<1>4. ThreadInv' /\ UnrequestedInv'
  BY <1>1 DEF IInv, ThreadInv, UnrequestedInv
<1>5. RequestedInv'
  BY <1>1, <1>2 DEF IInv, RequestedInv
<1> QED
  BY <1>3, <1>4, <1>5, ExportKept DEF IInv

LEMMA InitInv == Init => IInv
  BY DEF Init, InitInit, IInv, TypeInv, Bit, Value, ExportInv, ThreadInv, UnrequestedInv,
         RequestedInv

LEMMA StutterInv == ASSUME IInv, UNCHANGED vars PROVE IInv'
<1> USE DEF vars, componentVars, initVars, serviceVars, friVars, robotVars
<1>1. ExportInv'
  BY ExportKept DEF IInv
<1> QED
  BY <1>1 DEF IInv, TypeInv, ThreadInv, UnrequestedInv, RequestedInv

LEMMA NextInv == IInv /\ [Next]_vars => IInv'
  BY OnInitInv, ComponentInv, ServiceInv, StoreInv, FriInv, RobotInv, StutterInv DEF Next, Callback

-----------------------------------------------------------------------------
(* The theorems *)

\* The inductive invariant holds from on_init() to destruction.
THEOREM Invariant == Spec => []IInv
  BY InitInv, NextInv, PTL DEF Spec

\* What an accepted description declares is exported, for every description, but
\* for what the verifications are shown to let pass: AuxiliaryExtra, JointExtra,
\* and commands of the wrench that are no axis
\* (verify_*_(), export_state_interfaces(), export_command_interfaces()).
THEOREM AcceptedIsExported == Spec => []DeclaredAreExported
<1>1. IInv => DeclaredAreExported
  BY ExportedAsDeclared DEF IInv
<1> QED
  BY <1>1, Invariant, PTL

\* The toggle's callback never runs without what it uses
\* (stop_media_flange_service_(), the destructor).
THEOREM ServiceOutlivesCalls == Spec => []NoCallWithoutService
<1>1. IInv => NoCallWithoutService
  BY DEF IInv, ThreadInv, NoCallWithoutService
<1> QED
  BY <1>1, Invariant, PTL

\* No toggle confirms a request that the robot has not taken yet, wherever the FRI
\* thread samples and stores (toggle_media_flange_output1()).
THEOREM RequestsAreTaken == Spec => NoRequestLost
<1>1. IInv /\ [Next]_vars => [request' # request /\ request >= 0 => taken]_vars
  <2> SUFFICES ASSUME IInv, Next, request' # request, request >= 0 PROVE taken
    OBVIOUS
  <2>1. StoreRequest
    BY DEF Next, OnInitStep, Activate, ReadExit, Deactivate, Destroy, StopService, JoinService,
           CloseSocket, Shutdown, SpinStarts, SpinEnds, TakeRequest, Callback, LoadReadback,
           LoadRequest, FriThread, Sample, StoreReadback, SendRequest, FriEnds, RobotSets,
           FriElse, serviceVars
  <2> QED
    BY <2>1 DEF IInv, RequestedInv, StoreRequest, Thread
<1> QED
  BY <1>1, Invariant, PTL DEF Spec, NoRequestLost
=============================================================================
