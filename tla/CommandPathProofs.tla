---------------------------- MODULE CommandPathProofs ----------------------------
(***************************************************************************)
(* What CommandPath sends, for any set of joints, any limits and targets:  *)
(* nothing beyond what controllers ask for since the command was           *)
(* initialized, and nothing but the robot's own position while it waits,   *)
(* or as long as no controller has asked for another.                      *)
(***************************************************************************)
EXTENDS CommandPath, TLAPS

Value == Pos \cup {NaN}

TypeInv ==
  /\ position \in Pos /\ todo \subseteq Joints
  /\ {state_, command_, command_target_, sent} \subseteq [Joints -> Value]
  /\ hw_lbr_command_ \in Value /\ asked \subseteq Pos

\* What a joint of an array may hold while the robot's position is taken over.
Taken(value) == value \in {position, NaN}

\* A target that is not used, or that is what is sent anyway.
Settled(j) ==
  command_target_[j] = NaN \/ command_[j] = NaN \/ command_target_[j] = command_[j]

\* Until a controller asks for a position write() stores NaN only, so that what
\* init_command has stored, joint by joint, is the robot's position or NaN.
HoldInv ==
  hw_lbr_command_ = NaN =>
    /\ pc = "init" =>
         /\ state_ = All(position)
         /\ \A j \in Joints \ todo : Taken(command_target_[j])
    /\ pc = "initCommand" =>
         /\ \A j \in Joints : Taken(command_target_[j])
         /\ \A j \in Joints \ todo : Taken(command_[j])
    /\ pc \notin {"init", "initCommand"} => \A j \in Joints : Settled(j)

\* read() has not taken the robot to be in COMMANDING_ACTIVE, so that write() has
\* stored nothing; then the answer to a message in COMMANDING_WAIT is made of
\* nothing but the position in that message.
Waiting == session = "COMMANDING_WAIT" /\ hw_session_state_ # "COMMANDING_ACTIVE"

MirrorInv ==
  Waiting =>
    /\ pc = "init" =>
         /\ \A j \in Joints : state_[j] = position
         /\ \A j \in Joints \ todo : command_target_[j] = position
    /\ pc = "initCommand" =>
         /\ \A j \in Joints : command_target_[j] = position
         /\ \A j \in Joints \ todo : command_[j] = position
    /\ pc \in {"check", "filter", "guard"} =>
         \A j \in Joints : command_target_[j] = position /\ command_[j] = position
    /\ pc = "idle" => \A j \in Joints : sent[j] = position

\* A position between two of those the history remembers, or NaN.
Asked(v) == v = NaN \/ \E a, b \in asked : a <= v /\ v <= b

\* From its initialization on the command, and the target it follows, hold
\* nothing but such positions; until then joints that init_command has visited.
AskedInv ==
  /\ hw_lbr_command_ \in asked \cup {NaN}
  /\ pc = "init" =>
       /\ position \in asked /\ \A j \in Joints : state_[j] = position
       /\ \A j \in Joints \ todo : Asked(command_target_[j])
  /\ pc = "initCommand" =>
       /\ \A j \in Joints : Asked(command_target_[j])
       /\ \A j \in Joints \ todo : Asked(command_[j])
  /\ pc \notin {"init", "initCommand"} /\ command_initialized_ =>
       \A j \in Joints : Asked(command_target_[j]) /\ Asked(command_[j])
  /\ pc \in {"filter", "guard"} => command_initialized_
  /\ pc = "idle" /\ Commanding(session) => \A j \in Joints : Asked(sent[j])

-----------------------------------------------------------------------------
LEMMA Positions ==
  /\ Pos \subseteq Int /\ NaN \in Int /\ NaN \notin Pos /\ 0 \in Pos
  /\ 0 .. MaxLimit \subseteq Pos /\ Targets \subseteq Pos
  BY CommandAssumption DEF CommandAssumption, Pos, NaN

LEMMA AllType == ASSUME NEW p \in Value PROVE All(p) \in [Joints -> Value]
  BY DEF All

\* The filter's value is one of the robot's, and if the target is not used or
\* is what was sent last, it is that or NaN.
LEMMA SmoothBetween ==
  ASSUME NEW target \in Value, NEW previous \in Value, NEW p \in Smooth(target, previous)
  PROVE  /\ p \in Value
         /\ target = NaN \/ previous = NaN \/ target = previous => p \in {NaN, previous}
  BY Positions, CommandAssumption DEF CommandAssumption, Value, Pos, NaN, Smooth, Between

LEMMA TypeInit == Init => TypeInv
<1> SUFFICES ASSUME Init PROVE TypeInv
  OBVIOUS
<1>1. All(NaN) \in [Joints -> Value] /\ All(0) \in [Joints -> Value]
  BY Positions, AllType DEF Value
<1> QED
  BY <1>1, Positions DEF Init, TypeInv, Value, None

\* What the FRI thread's steps do to the arrays, one group of actions each.
LEMMA FriArrays ==
  ASSUME TypeInv, NEW j \in Joints
  PROVE  /\ InitTarget(j) =>
              /\ command_target_' = [command_target_ EXCEPT ![j] = state_[j]]
              /\ UNCHANGED <<position, state_, command_, sent, hw_lbr_command_, asked>>
         /\ InitCommand(j) =>
              /\ command_' = [command_ EXCEPT ![j] = command_target_[j]]
              /\ UNCHANGED <<position, state_, command_target_, sent, hw_lbr_command_, asked>>
         /\ FilterTarget(j) =>
              /\ \E p \in Smooth(command_target_[j], command_[j]) :
                   command_' = [command_ EXCEPT ![j] = p]
              /\ UNCHANGED <<position, state_, command_target_, sent, hw_lbr_command_, asked>>
         /\ InitTarget(j) \/ InitCommand(j) \/ FilterTarget(j) => todo' \subseteq Joints
  BY DEF TypeInv, InitTarget, InitCommand, FilterTarget, Visit, robotVars, stateVars, guardVars, cmVars

\* The other steps of the FRI thread: set_state(), and all that only decides.
LEMMA FriOther ==
  ASSUME TypeInv,
         \/ OnStateChange \/ Monitor \/ Leave \/ WaitForCommand \/ Command
         \/ CheckFails \/ CheckTarget \/ GuardRefuses \/ Send
  PROVE  /\ UNCHANGED <<position, command_, command_target_, hw_lbr_command_>>
         /\ state_' \in {state_, command_, All(position)}
         /\ sent' \in {sent, command_}
         /\ todo' \subseteq Joints
         /\ pc \notin {"init", "initCommand"} /\ pc' # "initCommand"
         /\ pc' = "init" => state_' = All(position) /\ todo' = Joints
         /\ asked' = IF pc' = "init" THEN {position, hw_lbr_command_} \ {NaN} ELSE asked
         /\ UNCHANGED <<session, command_initialized_>>
<1>1. CASE OnStateChange \/ Monitor \/ WaitForCommand \/ Command
  BY <1>1 DEF TypeInv, OnStateChange, Monitor, WaitForCommand, Command, SetState, BeginInit,
     robotVars, commandVars, guardVars, cmVars
<1>2. CASE Leave
  BY <1>2 DEF TypeInv, Leave, robotVars, commandVars, guardVars, cmVars
<1>3. CASE CheckFails \/ CheckTarget
  BY <1>3 DEF TypeInv, CheckFails, CheckTarget, Throw, robotVars, stateVars, commandVars, cmVars
<1>4. CASE GuardRefuses
  BY <1>4 DEF TypeInv, GuardRefuses, Throw, robotVars, stateVars, commandVars, cmVars
<1>5. CASE Send
  BY <1>5 DEF TypeInv, Send, robotVars, stateVars, commandVars, cmVars
<1> QED
  BY <1>1, <1>2, <1>3, <1>4, <1>5

\* The controller manager's steps: at most one joint of the target, or a new
\* command of the controllers.
LEMMA CmArrays ==
  ASSUME TypeInv, CmStep
  PROVE  /\ UNCHANGED <<position, pc, todo, state_, command_, sent>>
         /\ \/ UNCHANGED command_target_
            \/ \E j \in Joints : command_target_' = [command_target_ EXCEPT ![j] = hw_lbr_command_]
         /\ hw_lbr_command_' \in {hw_lbr_command_} \cup Targets
         /\ asked \subseteq asked' /\ asked' \subseteq asked \cup ({hw_lbr_command_'} \ {NaN})
         /\ hw_lbr_command_' \in {hw_lbr_command_, NaN} \cup asked'
         /\ UNCHANGED <<session, command_initialized_>>
<1>1. CASE ReadNothing \/ Read \/ ReadExit \/ Update \/ WriteNothing
  BY <1>1 DEF ReadNothing, Read, ReadExit, Update, WriteNothing, fri, robotVars, stateVars, guardVars
<1>2. CASE \E j \in Joints : Write(j)
  BY <1>2 DEF Write, fri, robotVars, stateVars, guardVars
<1> QED
  BY <1>1, <1>2 DEF CmStep

LEMMA ReceiveStep ==
  ASSUME TypeInv, ReceiveAny
  PROVE  /\ UNCHANGED <<todo, state_, command_, command_target_, sent, hw_lbr_command_, asked>>
         /\ UNCHANGED command_initialized_
         /\ position' \in Pos /\ pc = "idle" /\ pc' \in {"change", "callback"}
  BY Positions DEF ReceiveAny, Receive, stateVars, commandVars, guardVars, cmVars

LEMMA TypeStep == TypeInv /\ [Next]_vars => TypeInv'
<1> SUFFICES ASSUME TypeInv, [Next]_vars PROVE TypeInv'
  OBVIOUS
<1>1. CASE ReceiveAny
  BY <1>1, ReceiveStep DEF TypeInv
<1>2. CASE OnStateChange \/ Monitor \/ Leave \/ WaitForCommand \/ Command
           \/ CheckFails \/ CheckTarget \/ GuardRefuses \/ Send
  <2> All(position) \in [Joints -> Value]
    BY AllType DEF TypeInv, Value
  <2> asked' \subseteq Pos
    BY <1>2, FriOther, Positions DEF TypeInv, Value
  <2> QED
    BY <1>2, FriOther DEF TypeInv
<1>3. ASSUME NEW j \in Joints, InitTarget(j) \/ InitCommand(j) \/ FilterTarget(j) PROVE TypeInv'
  <2>1. command_target_[j] \in Value /\ command_[j] \in Value /\ state_[j] \in Value
    BY DEF TypeInv
  <2>2. CASE InitTarget(j)
    BY <2>1, <2>2, FriArrays DEF TypeInv
  <2>3. CASE InitCommand(j)
    BY <2>1, <2>3, FriArrays DEF TypeInv
  <2>4. CASE FilterTarget(j)
    <3>1. PICK p \in Smooth(command_target_[j], command_[j]) : command_' = [command_ EXCEPT ![j] = p]
      BY <2>4, FriArrays
    <3>2. p \in Value
      BY <2>1, <3>1, SmoothBetween
    <3>3. command_' \in [Joints -> Value]
      BY <3>1, <3>2 DEF TypeInv
    <3>4. /\ UNCHANGED <<position, state_, command_target_, sent, hw_lbr_command_, asked>>
          /\ todo' \subseteq Joints
      BY <2>4, FriArrays
    <3> QED
      BY <3>3, <3>4 DEF TypeInv
  <2> QED
    BY <1>3, <2>2, <2>3, <2>4
<1>4. CASE CmStep
  <2> hw_lbr_command_' \in Value
    BY <1>4, CmArrays, Positions DEF TypeInv, Value
  <2> asked' \subseteq Pos
    BY <1>4, CmArrays, Positions DEF TypeInv, Value
  <2> QED
    BY <1>4, CmArrays DEF TypeInv
<1>5. CASE UNCHANGED vars
  BY <1>5 DEF TypeInv, vars, robotVars, stateVars, commandVars, guardVars, cmVars
<1> QED
  BY <1>1, <1>2, <1>3, <1>4, <1>5 DEF Next, FriStep

LEMMA TypeInvariance == Spec => []TypeInv
  BY TypeInit, TypeStep, PTL DEF Spec

-----------------------------------------------------------------------------
(* SentWithinAsked *)

LEMMA AskedInit == Init => AskedInv
  BY DEF Init, AskedInv, Commanding

\* What lay between two positions that were asked for still does when more are.
LEMMA AskedGrows ==
  ASSUME asked \subseteq asked'
  PROVE  \A v \in Value : Asked(v) => (v = NaN \/ \E a, b \in asked' : a <= v /\ v <= b)
  BY DEF Asked

\* The filter's value lies between its arguments.
LEMMA SmoothAsked ==
  ASSUME asked \subseteq Pos, NEW target \in Value, NEW previous \in Value,
         Asked(target), Asked(previous), NEW p \in Smooth(target, previous)
  PROVE  p \in Value /\ Asked(p)
<1>1. CASE p = NaN
  BY <1>1 DEF Asked, Value
<1>2. CASE p # NaN
  <2>1. target # NaN /\ previous # NaN /\ p \in Between(previous, target)
    BY <1>2 DEF Smooth
  <2>2. target \in Int /\ previous \in Int
    BY Positions DEF Value
  <2>3. p \in Int /\ ((previous <= p /\ p <= target) \/ (target <= p /\ p <= previous))
    BY <2>1, <2>2 DEF Between
  <2>4. PICK a, b \in asked : a <= target /\ target <= b
    BY <2>1 DEF Asked
  <2>5. PICK c, d \in asked : c <= previous /\ previous <= d
    BY <2>1 DEF Asked
  <2>6. a \in Int /\ b \in Int /\ c \in Int /\ d \in Int
    BY Positions
  <2>7. CASE previous <= p /\ p <= target
    <3> c <= p /\ p <= b
      BY <2>2, <2>3, <2>4, <2>5, <2>6, <2>7
    <3> QED
      BY SmoothBetween DEF Asked
  <2>8. CASE target <= p /\ p <= previous
    <3> a <= p /\ p <= d
      BY <2>2, <2>3, <2>4, <2>5, <2>6, <2>8
    <3> QED
      BY SmoothBetween DEF Asked
  <2> QED
    BY <2>3, <2>7, <2>8
<1> QED
  BY <1>1, <1>2

LEMMA AskedInitTarget ==
  ASSUME TypeInv, AskedInv, NEW j \in Joints, InitTarget(j)
  PROVE  AskedInv'
<1>1. /\ command_target_' = [command_target_ EXCEPT ![j] = state_[j]]
      /\ UNCHANGED <<position, state_, command_, sent, hw_lbr_command_, asked>>
  BY FriArrays
<1>2. /\ pc = "init" /\ j \in todo
      /\ \/ todo = {j} /\ pc' = "initCommand" /\ todo' = Joints
         \/ todo # {j} /\ pc' = "init" /\ todo' = todo \ {j}
  BY DEF InitTarget, Visit
<1>3. (\A k \in Joints : state_[k] = position) /\ position \in asked
  BY <1>2 DEF AskedInv
<1>4. position <= position
  BY <1>3, Positions DEF TypeInv
<1>5. \A k \in Joints \ (todo \ {j}) : Asked(command_target_'[k])
  BY <1>1, <1>2, <1>3, <1>4 DEF AskedInv, Asked, TypeInv
<1> QED
  BY <1>1, <1>2, <1>3, <1>5 DEF AskedInv, Asked

LEMMA AskedInitCommand ==
  ASSUME TypeInv, AskedInv, NEW j \in Joints, InitCommand(j)
  PROVE  AskedInv'
<1>1. /\ command_' = [command_ EXCEPT ![j] = command_target_[j]]
      /\ UNCHANGED <<position, state_, command_target_, sent, hw_lbr_command_, asked>>
  BY FriArrays
<1>2. /\ pc = "initCommand" /\ todo' = todo \ {j}
      /\ \/ todo = {j} /\ pc' \in {"callback", "check"}
         \/ todo # {j} /\ pc' = "initCommand"
  BY DEF InitCommand, Visit
<1>3. \A k \in Joints : Asked(command_target_[k])
  BY <1>2 DEF AskedInv
<1>4. \A k \in Joints \ todo' : Asked(command_'[k])
  BY <1>1, <1>2, <1>3 DEF AskedInv, TypeInv
<1> QED
  BY <1>1, <1>2, <1>3, <1>4 DEF AskedInv, Asked

LEMMA AskedFilter ==
  ASSUME TypeInv, AskedInv, NEW j \in Joints, FilterTarget(j)
  PROVE  AskedInv'
<1>1. pc = "filter" /\ pc' \in {"filter", "guard"}
  BY DEF FilterTarget, Visit
<1>2. UNCHANGED <<position, command_target_, hw_lbr_command_, asked, command_initialized_>>
  BY FriArrays DEF FilterTarget
<1>3. PICK p \in Smooth(command_target_[j], command_[j]) : command_' = [command_ EXCEPT ![j] = p]
  BY FriArrays
<1>4. \A k \in Joints : Asked(command_target_[k]) /\ Asked(command_[k])
  BY <1>1 DEF AskedInv
<1>5. Asked(p)
  BY <1>3, <1>4, SmoothAsked DEF TypeInv
<1>6. \A k \in Joints : Asked(command_'[k])
  BY <1>3, <1>4, <1>5 DEF TypeInv
<1> QED
  BY <1>1, <1>2, <1>4, <1>6 DEF AskedInv, Asked

LEMMA AskedOther ==
  ASSUME TypeInv, AskedInv,
         \/ OnStateChange \/ Monitor \/ Leave \/ WaitForCommand \/ Command
         \/ CheckFails \/ CheckTarget \/ GuardRefuses \/ Send
  PROVE  AskedInv'
<1>1. /\ UNCHANGED <<position, command_, command_target_, hw_lbr_command_>>
      /\ UNCHANGED <<session, command_initialized_>>
      /\ pc \notin {"init", "initCommand"} /\ pc' # "initCommand"
      /\ pc' = "init" => state_' = All(position) /\ todo' = Joints
      /\ asked' = IF pc' = "init" THEN {position, hw_lbr_command_} \ {NaN} ELSE asked
  BY FriOther
<1>2. CASE pc' = "init"
  <2>1. position \in asked' /\ hw_lbr_command_ \in asked' \cup {NaN}
    BY <1>1, <1>2, Positions DEF TypeInv
  <2>2. \A k \in Joints : state_'[k] = position
    BY <1>1, <1>2 DEF All
  <2> QED
    BY <1>1, <1>2, <2>1, <2>2 DEF AskedInv
<1>3. CASE pc' # "init" /\ pc' # "idle"
  <2>1. pc' \in {"filter", "guard"} => command_initialized_
    BY <1>3 DEF OnStateChange, Monitor, Leave, WaitForCommand, Command, CheckFails, CheckTarget,
       GuardRefuses, Send, BeginInit, Throw
  <2> QED
    BY <1>1, <1>3, <2>1 DEF AskedInv, Asked
<1>4. CASE pc' = "idle"
  <2>1. Monitor \/ Send
    BY <1>4 DEF OnStateChange, Leave, WaitForCommand, Command, CheckFails, CheckTarget,
       GuardRefuses, BeginInit, Throw
  <2>2. Commanding(session) => pc = "guard" /\ sent' = command_
    BY <2>1 DEF Monitor, Send, Commanding
  <2>3. Commanding(session) => \A k \in Joints : Asked(sent'[k])
    BY <1>1, <2>2 DEF AskedInv
  <2> QED
    BY <1>1, <1>4, <2>3 DEF AskedInv, Asked, Commanding
<1> QED
  BY <1>2, <1>3, <1>4

\* write() stores what controllers ask for now; what they ask for is remembered.
LEMMA AskedCm == ASSUME TypeInv, AskedInv, CmStep PROVE AskedInv'
<1>1. /\ UNCHANGED <<position, pc, todo, state_, command_, sent, session, command_initialized_>>
      /\ \/ UNCHANGED command_target_
         \/ \E j \in Joints : command_target_' = [command_target_ EXCEPT ![j] = hw_lbr_command_]
      /\ asked \subseteq asked'
      /\ hw_lbr_command_' \in {hw_lbr_command_, NaN} \cup asked'
  BY CmArrays
<1>2. hw_lbr_command_ \in asked \cup {NaN}
  BY DEF AskedInv
<1>3. Asked(hw_lbr_command_)
  <2> hw_lbr_command_ # NaN => hw_lbr_command_ <= hw_lbr_command_
    BY Positions DEF TypeInv, Value
  <2> QED
    BY <1>2 DEF Asked
<1>4. \A k \in Joints : Asked(command_target_[k]) => Asked(command_target_'[k])
  BY <1>1, <1>3 DEF TypeInv
<1>5. \A v \in Value : Asked(v) => (v = NaN \/ \E a, b \in asked' : a <= v /\ v <= b)
  BY <1>1, AskedGrows
<1>6. \A k \in Joints : /\ command_target_'[k] \in Value
                        /\ command_[k] \in Value /\ sent[k] \in Value
  BY <1>1 DEF TypeInv
<1>7. \A k \in Joints : /\ Asked(command_target_[k]) => Asked(command_target_[k])'
                        /\ Asked(command_[k]) => Asked(command_[k])'
                        /\ Asked(sent[k]) => Asked(sent[k])'
  BY <1>1, <1>4, <1>5, <1>6 DEF Asked
<1> QED
  BY <1>1, <1>2, <1>7 DEF AskedInv, Commanding

LEMMA AskedStep == TypeInv /\ AskedInv /\ [Next]_vars => AskedInv'
<1> SUFFICES ASSUME TypeInv, AskedInv, [Next]_vars PROVE AskedInv'
  OBVIOUS
<1>1. CASE FriStep
  BY <1>1, AskedInitTarget, AskedInitCommand, AskedFilter, AskedOther DEF FriStep
<1>2. CASE ReceiveAny
  BY <1>2, ReceiveStep DEF AskedInv, Asked
<1>3. CASE CmStep
  BY <1>3, AskedCm
<1>4. CASE UNCHANGED vars
  BY <1>4 DEF vars, robotVars, stateVars, commandVars, guardVars, cmVars, AskedInv, Asked, Commanding
<1> QED
  BY <1>1, <1>2, <1>3, <1>4 DEF Next

\* Whatever sessions begin and end while write() copies a target joint by joint,
\* and whichever of its joints the FRI thread takes over, filters and sends:
\* each lies between where the robot was when the command was initialized last
\* and what controllers asked for then or since.
THEOREM SentIsAskedFor == Spec => []SentWithinAsked
<1>1. Spec => [](TypeInv /\ AskedInv)
  BY TypeInit, TypeStep, AskedInit, AskedStep, PTL DEF Spec
<1>2. AskedInv => SentWithinAsked
  BY DEF AskedInv, Asked, SentWithinAsked
<1> QED
  BY <1>1, <1>2, PTL

-----------------------------------------------------------------------------
(* HoldsWithoutTarget *)

LEMMA HoldInit == Init => HoldInv
  BY DEF Init, HoldInv, Settled, All

LEMMA HoldInitTarget ==
  ASSUME TypeInv, HoldInv, hw_lbr_command_ = NaN, NEW j \in Joints, InitTarget(j)
  PROVE  HoldInv'
<1>1. /\ command_target_' = [command_target_ EXCEPT ![j] = state_[j]]
      /\ UNCHANGED <<position, state_, command_, sent, hw_lbr_command_, asked>>
  BY FriArrays
<1>2. /\ pc = "init" /\ j \in todo
      /\ \/ todo = {j} /\ pc' = "initCommand" /\ todo' = Joints
         \/ todo # {j} /\ pc' = "init" /\ todo' = todo \ {j}
  BY DEF InitTarget, Visit
<1>3. state_ = All(position) /\ \A k \in Joints \ todo : Taken(command_target_[k])
  BY <1>2 DEF HoldInv
<1>4. command_target_'[j] = position
  BY <1>1, <1>3 DEF TypeInv, All
<1>5. \A k \in Joints \ {j} : command_target_'[k] = command_target_[k]
  BY <1>1 DEF TypeInv
<1>6. \A k \in Joints \ (todo \ {j}) : Taken(command_target_[k])'
  BY <1>1, <1>3, <1>4, <1>5 DEF Taken
<1>7. CASE todo = {j} /\ pc' = "initCommand" /\ todo' = Joints
  <2>1. \A k \in Joints : Taken(command_target_[k])'
    BY <1>6, <1>7
  <2> QED
    BY <1>7, <2>1 DEF HoldInv
<1>8. CASE todo # {j} /\ pc' = "init" /\ todo' = todo \ {j}
  <2>1. state_' = All(position)'
    BY <1>1, <1>3 DEF All
  <2> QED
    BY <1>6, <1>8, <2>1 DEF HoldInv
<1> QED
  BY <1>2, <1>7, <1>8

\* Each joint that InitCommand has visited holds the robot's position, or NaN.
LEMMA InitCommandTakes ==
  ASSUME TypeInv, HoldInv, hw_lbr_command_ = NaN, NEW j \in Joints, InitCommand(j)
  PROVE  /\ \A k \in Joints : Taken(command_target_[k]) /\ UNCHANGED command_target_[k]
         /\ \A k \in Joints \ (todo \ {j}) : Taken(command_'[k])
         /\ \A k \in Joints \ {j} : command_'[k] = command_[k]
<1>1. command_' = [command_ EXCEPT ![j] = command_target_[j]] /\ UNCHANGED command_target_
  BY FriArrays
<1>2. pc = "initCommand"
  BY DEF InitCommand, Visit
<1>3. /\ \A k \in Joints : Taken(command_target_[k])
      /\ \A k \in Joints \ todo : Taken(command_[k])
  BY <1>2 DEF HoldInv
<1>4. command_'[j] = command_target_[j] /\ \A k \in Joints \ {j} : command_'[k] = command_[k]
  BY <1>1 DEF TypeInv
<1> QED
  BY <1>1, <1>3, <1>4

LEMMA HoldInitCommand ==
  ASSUME TypeInv, HoldInv, hw_lbr_command_ = NaN, NEW j \in Joints, InitCommand(j)
  PROVE  HoldInv'
<1>1. UNCHANGED <<position, state_, hw_lbr_command_>>
  BY FriArrays
<1>2. /\ \/ todo = {j} /\ pc' \in {"callback", "check"}
         \/ todo # {j} /\ pc' = "initCommand"
      /\ todo' = todo \ {j}
  BY DEF InitCommand, Visit
<1>3. \A k \in Joints : Taken(command_target_[k])'
  BY <1>1, InitCommandTakes DEF Taken
<1>4. \A k \in Joints \ todo' : Taken(command_[k])'
  BY <1>1, <1>2, InitCommandTakes DEF Taken
<1>5. CASE todo = {j} /\ pc' \in {"callback", "check"}
  <2>1. \A k \in Joints : Settled(k)'
    BY <1>2, <1>3, <1>4, <1>5 DEF Settled, Taken
  <2> QED
    BY <1>5, <2>1 DEF HoldInv
<1>6. CASE todo # {j} /\ pc' = "initCommand"
  BY <1>3, <1>4, <1>6 DEF HoldInv
<1> QED
  BY <1>2, <1>5, <1>6

\* The filter keeps what was sent last, or makes it NaN.
LEMMA FilterKeeps ==
  ASSUME TypeInv, HoldInv, hw_lbr_command_ = NaN, NEW j \in Joints, FilterTarget(j)
  PROVE  /\ pc = "filter" /\ pc' \in {"filter", "guard"}
         /\ UNCHANGED command_target_
         /\ command_'[j] \in {NaN, command_[j]}
         /\ \A k \in Joints \ {j} : command_'[k] = command_[k]
         /\ \A k \in Joints : Settled(k)
<1>1. pc = "filter" /\ pc' \in {"filter", "guard"}
  BY DEF FilterTarget, Visit
<1>2. \A k \in Joints : Settled(k)
  BY <1>1 DEF HoldInv
<1>3. PICK p \in Smooth(command_target_[j], command_[j]) : command_' = [command_ EXCEPT ![j] = p]
  BY FriArrays
<1>4. command_target_[j] \in Value /\ command_[j] \in Value
  BY DEF TypeInv
<1>5. p \in {NaN, command_[j]}
  BY <1>2, <1>3, <1>4, SmoothBetween DEF Settled
<1>6. command_'[j] = p /\ \A k \in Joints \ {j} : command_'[k] = command_[k]
  BY <1>3 DEF TypeInv
<1>7. UNCHANGED command_target_
  BY FriArrays
<1> QED
  BY <1>1, <1>2, <1>5, <1>6, <1>7

LEMMA HoldFilter ==
  ASSUME TypeInv, HoldInv, hw_lbr_command_ = NaN, NEW j \in Joints, FilterTarget(j)
  PROVE  HoldInv'
<1>1. \A k \in Joints : Settled(k)'
  BY FilterKeeps DEF Settled
<1> QED
  BY <1>1, FilterKeeps DEF HoldInv

LEMMA HoldStep == TypeInv /\ HoldInv /\ [Next]_vars => HoldInv'
<1> SUFFICES ASSUME TypeInv, HoldInv, [Next]_vars, hw_lbr_command_' = NaN PROVE HoldInv'
  BY DEF HoldInv
<1>1. ASSUME NEW j \in Joints, InitTarget(j) \/ InitCommand(j) \/ FilterTarget(j)
      PROVE  HoldInv'
  <2> hw_lbr_command_ = NaN
    BY <1>1, FriArrays
  <2> QED
    BY <1>1, HoldInitTarget, HoldInitCommand, HoldFilter
<1>2. CASE OnStateChange \/ Monitor \/ Leave \/ WaitForCommand \/ Command
           \/ CheckFails \/ CheckTarget \/ GuardRefuses \/ Send
  <2>1. /\ UNCHANGED <<position, command_, command_target_, hw_lbr_command_>>
        /\ pc \notin {"init", "initCommand"} /\ pc' # "initCommand"
        /\ pc' = "init" => state_' = All(position) /\ todo' = Joints
    BY <1>2, FriOther
  <2>2. All(position)' = All(position)
    BY <2>1 DEF All
  <2>3. \A k \in Joints : Settled(k)'
    BY <2>1 DEF HoldInv, Settled
  <2> QED
    BY <2>1, <2>2, <2>3 DEF HoldInv
<1>3. CASE ReceiveAny
  BY <1>3, ReceiveStep DEF HoldInv, Settled
<1>4. CASE CmStep
  <2>1. /\ UNCHANGED <<position, pc, todo, state_, command_>>
        /\ \/ UNCHANGED command_target_
           \/ \E j \in Joints : command_target_' = [command_target_ EXCEPT ![j] = hw_lbr_command_]
    BY <1>4, CmArrays
  <2>2. hw_lbr_command_ = NaN
    BY <1>4, CmArrays, Positions
  <2>3. \A k \in Joints : command_target_'[k] \in {command_target_[k], NaN}
    BY <2>1, <2>2 DEF TypeInv
  <2>4. All(position)' = All(position)
    BY <2>1 DEF All
  <2>5. \A k \in Joints : /\ Taken(command_target_[k]) => Taken(command_target_[k])'
                          /\ Taken(command_[k]) => Taken(command_[k])'
                          /\ Settled(k) => Settled(k)'
    BY <2>1, <2>3 DEF Taken, Settled
  <2> QED
    BY <2>1, <2>2, <2>4, <2>5 DEF HoldInv
<1>5. CASE UNCHANGED vars
  BY <1>5 DEF vars, robotVars, stateVars, commandVars, cmVars, HoldInv, Settled, Taken, All
<1> QED
  BY <1>1, <1>2, <1>3, <1>4, <1>5 DEF Next, FriStep

\* What a step may do to the command as long as no controller asked for one.
Holds ==
  hw_lbr_command_ = NaN =>
    \A j \in Joints :
      \/ command_'[j] = NaN
      \/ command_'[j] = IF pc = "initCommand" /\ j \notin todo' THEN position ELSE command_[j]

LEMMA StepHolds == TypeInv /\ HoldInv /\ [Next]_vars => Holds
<1> SUFFICES ASSUME TypeInv, HoldInv, [Next]_vars, hw_lbr_command_ = NaN PROVE Holds
  BY DEF Holds
<1>1. ASSUME NEW j \in Joints, InitCommand(j) PROVE Holds
  <2>1. todo' = todo \ {j} /\ pc = "initCommand"
    BY <1>1 DEF InitCommand, Visit
  <2>2. \A k \in Joints : k \notin todo' => command_'[k] \in {position, NaN}
    BY <1>1, <2>1, InitCommandTakes DEF Taken
  <2>3. \A k \in Joints : k \in todo' => command_'[k] = command_[k]
    BY <1>1, <2>1, InitCommandTakes
  <2> QED
    BY <2>1, <2>2, <2>3 DEF Holds
<1>2. ASSUME NEW j \in Joints, FilterTarget(j) PROVE Holds
  <2>1. \A k \in Joints : command_'[k] \in {NaN, command_[k]}
    BY <1>2, FilterKeeps
  <2>2. pc = "filter"
    BY <1>2, FilterKeeps
  <2> QED
    BY <2>1, <2>2 DEF Holds
<1>3. ASSUME NEW j \in Joints, InitTarget(j) PROVE Holds
  <2>1. pc = "init" /\ UNCHANGED command_
    BY <1>3, FriArrays DEF InitTarget, Visit
  <2> QED
    BY <2>1 DEF Holds
<1>4. CASE OnStateChange \/ Monitor \/ Leave \/ WaitForCommand \/ Command
           \/ CheckFails \/ CheckTarget \/ GuardRefuses \/ Send
  BY <1>4, FriOther DEF Holds
<1>5. CASE ReceiveAny
  BY <1>5, ReceiveStep DEF Holds
<1>6. CASE CmStep \/ UNCHANGED vars
  <2>1. UNCHANGED <<command_, todo>>
    BY <1>6, CmArrays DEF vars, commandVars
  <2>2. pc = "initCommand" => \A k \in Joints \ todo : Taken(command_[k])
    BY DEF HoldInv
  <2> QED
    BY <2>1, <2>2 DEF Holds, Taken
<1> QED
  BY <1>1, <1>2, <1>3, <1>4, <1>5, <1>6 DEF Next, FriStep

\* The robot does not move before a controller asks for it, whatever joints
\* write() and the FRI thread have reached when they interleave.
THEOREM CommandHoldsWithoutTarget == Spec => HoldsWithoutTarget
<1>1. Spec => [](TypeInv /\ HoldInv)
  BY TypeInit, TypeStep, HoldInit, HoldStep, PTL DEF Spec
<1>2. TypeInv /\ HoldInv /\ [Next]_vars => [Holds]_vars
  BY StepHolds
<1>3. Spec => [][Holds]_vars
  BY <1>1, <1>2, PTL DEF Spec
<1>4. [Holds]_vars =>
        [hw_lbr_command_ = NaN /\ Commanding(session) =>
           \A j \in Joints :
             \/ command_'[j] = NaN
             \/ command_'[j] = IF pc = "initCommand" /\ j \notin todo'
                                 THEN position ELSE command_[j]]_vars
  BY DEF Holds
<1> QED
  BY <1>3, <1>4, PTL DEF HoldsWithoutTarget

-----------------------------------------------------------------------------
(* WaitMirrorsRobot *)

LEMMA MirrorInit == Init => MirrorInv
  BY DEF Init, MirrorInv, Waiting

\* No step of the FRI thread changes what makes a message one of COMMANDING_WAIT.
LEMMA WaitingFri == FriStep => (Waiting' <=> Waiting)
<1> SUFFICES ASSUME FriStep PROVE UNCHANGED <<session, hw_session_state_>>
  BY DEF Waiting
<1>1. CASE OnStateChange \/ Monitor \/ Leave \/ WaitForCommand \/ Command
  BY <1>1 DEF OnStateChange, Monitor, Leave, WaitForCommand, Command, robotVars, cmVars
<1>2. CASE CheckFails \/ CheckTarget \/ GuardRefuses \/ Send
  BY <1>2 DEF CheckFails, Throw, CheckTarget, GuardRefuses, Send, robotVars, cmVars
<1>3. ASSUME NEW j \in Joints, InitTarget(j) \/ InitCommand(j) \/ FilterTarget(j)
      PROVE  UNCHANGED <<session, hw_session_state_>>
  BY <1>3 DEF InitTarget, InitCommand, FilterTarget, robotVars, cmVars
<1> QED
  BY <1>1, <1>2, <1>3 DEF FriStep

LEMMA MirrorInitTarget ==
  ASSUME TypeInv, MirrorInv, Waiting, NEW j \in Joints, InitTarget(j)
  PROVE  MirrorInv'
<1>1. /\ command_target_' = [command_target_ EXCEPT ![j] = state_[j]]
      /\ UNCHANGED <<position, state_>>
  BY FriArrays
<1>2. /\ pc = "init" /\ j \in todo
      /\ \/ todo = {j} /\ pc' = "initCommand" /\ todo' = Joints
         \/ todo # {j} /\ pc' = "init" /\ todo' = todo \ {j}
  BY DEF InitTarget, Visit
<1>3. \A k \in Joints \ (todo \ {j}) : command_target_'[k] = position
  BY <1>1, <1>2 DEF MirrorInv, TypeInv
<1> QED
  BY <1>1, <1>2, <1>3 DEF MirrorInv

LEMMA MirrorInitCommand ==
  ASSUME TypeInv, MirrorInv, Waiting, NEW j \in Joints, InitCommand(j)
  PROVE  MirrorInv'
<1>1. /\ command_' = [command_ EXCEPT ![j] = command_target_[j]]
      /\ UNCHANGED <<position, command_target_>>
  BY FriArrays
<1>2. /\ pc = "initCommand" /\ todo' = todo \ {j}
      /\ \/ todo = {j} /\ pc' \in {"callback", "check"}
         \/ todo # {j} /\ pc' = "initCommand"
  BY DEF InitCommand, Visit
<1>3. \A k \in Joints \ todo' : command_'[k] = position
  BY <1>1, <1>2 DEF MirrorInv, TypeInv
<1> QED
  BY <1>1, <1>2, <1>3 DEF MirrorInv

\* The filter has nothing to smooth.
LEMMA MirrorFilter ==
  ASSUME TypeInv, MirrorInv, Waiting, NEW j \in Joints, FilterTarget(j)
  PROVE  MirrorInv'
<1>1. pc = "filter" /\ pc' \in {"filter", "guard"}
  BY DEF FilterTarget, Visit
<1>2. UNCHANGED <<position, command_target_>>
  BY FriArrays
<1>3. PICK p \in Smooth(command_target_[j], command_[j]) : command_' = [command_ EXCEPT ![j] = p]
  BY FriArrays
<1>4. \A k \in Joints : command_target_[k] = position /\ command_[k] = position
  BY <1>1 DEF MirrorInv
<1>5. p = position
  BY <1>3, <1>4, Positions DEF TypeInv, Smooth, Between
<1>6. \A k \in Joints : command_'[k] = position
  BY <1>3, <1>4, <1>5 DEF TypeInv
<1> QED
  BY <1>1, <1>2, <1>4, <1>6 DEF MirrorInv

LEMMA MirrorOther ==
  ASSUME TypeInv, MirrorInv, Waiting,
         \/ OnStateChange \/ Monitor \/ Leave \/ WaitForCommand \/ Command
         \/ CheckFails \/ CheckTarget \/ GuardRefuses \/ Send
  PROVE  MirrorInv'
<1>1. /\ UNCHANGED <<position, command_, command_target_>>
      /\ pc \notin {"init", "initCommand"} /\ pc' # "initCommand"
      /\ pc' = "init" => state_' = All(position) /\ todo' = Joints
  BY FriOther
<1>2. pc' = "init" => \A j \in Joints : state_'[j] = position
  BY <1>1 DEF All
<1>3. CASE OnStateChange \/ WaitForCommand
  BY <1>1, <1>2, <1>3 DEF OnStateChange, WaitForCommand, BeginInit, MirrorInv
<1>4. CASE Monitor \/ Leave \/ Command
  BY <1>4 DEF Monitor, Leave, Command, Waiting
<1>5. CASE CheckFails \/ CheckTarget
  BY <1>1, <1>5 DEF CheckFails, CheckTarget, Throw, MirrorInv
<1>6. CASE GuardRefuses
  BY <1>6 DEF GuardRefuses, Throw, MirrorInv
<1>7. CASE Send
  BY <1>1, <1>7 DEF Send, MirrorInv
<1> QED
  BY <1>3, <1>4, <1>5, <1>6, <1>7

\* read() stays with COMMANDING_ACTIVE, and write() stores nothing before it.
LEMMA MirrorCm == ASSUME TypeInv, MirrorInv, CmStep PROVE MirrorInv'
<1> SUFFICES ASSUME Waiting' PROVE MirrorInv'
  BY DEF MirrorInv
<1>1. UNCHANGED <<session, position, pc, todo, state_, command_, sent>>
  <2>1. UNCHANGED session
    BY DEF CmStep, ReadNothing, Read, ReadExit, Update, WriteNothing, Write, fri, robotVars
  <2> QED
    BY <2>1, CmArrays
<1>2. hw_session_state_ # "COMMANDING_ACTIVE" /\ UNCHANGED command_target_
  <2>1. CASE ReadNothing \/ ReadExit \/ Update \/ WriteNothing
    BY <2>1 DEF ReadNothing, ReadExit, Update, WriteNothing, Waiting
  <2>2. CASE Read
    BY <2>2 DEF Read, LeftCommandingActive, Waiting
  <2>3. CASE \E j \in Joints : Write(j)
    BY <2>3 DEF Write, Waiting
  <2> QED
    BY <2>1, <2>2, <2>3 DEF CmStep
<1>3. Waiting
  BY <1>1, <1>2 DEF Waiting
<1> QED
  BY <1>1, <1>2, <1>3 DEF MirrorInv

LEMMA MirrorStep == TypeInv /\ MirrorInv /\ [Next]_vars => MirrorInv'
<1> SUFFICES ASSUME TypeInv, MirrorInv, [Next]_vars PROVE MirrorInv'
  OBVIOUS
<1>1. CASE FriStep
  <2> SUFFICES ASSUME Waiting PROVE MirrorInv'
    BY <1>1, WaitingFri DEF MirrorInv
  <2> QED
    BY <1>1, MirrorInitTarget, MirrorInitCommand, MirrorFilter, MirrorOther DEF FriStep
<1>2. CASE ReceiveAny
  BY <1>2, ReceiveStep DEF MirrorInv
<1>3. CASE CmStep
  BY <1>3, MirrorCm
<1>4. CASE UNCHANGED vars
  BY <1>4 DEF vars, robotVars, stateVars, commandVars, guardVars, cmVars, MirrorInv, Waiting
<1> QED
  BY <1>1, <1>2, <1>3, <1>4 DEF Next

\* Until read() has seen COMMANDING_ACTIVE the robot gets its own position back in
\* COMMANDING_WAIT, as FRI demands before it commands the robot.
THEOREM RobotIsMirrored == Spec => []WaitMirrorsRobot
<1>1. Spec => [](TypeInv /\ MirrorInv)
  BY TypeInit, TypeStep, MirrorInit, MirrorStep, PTL DEF Spec
<1>2. TypeInv /\ MirrorInv => WaitMirrorsRobot
  <2> SUFFICES ASSUME TypeInv, \A j \in Joints : sent[j] = position PROVE sent = All(position)
    BY DEF WaitMirrorsRobot, MirrorInv, Waiting
  <2> QED
    BY DEF TypeInv, All
<1> QED
  BY <1>1, <1>2, PTL
=============================================================================
