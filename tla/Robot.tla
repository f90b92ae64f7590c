-------------------------------- MODULE Robot --------------------------------
(***************************************************************************)
(* The robot on the field: the state machines of StateWizard, the process  *)
(* that listens to the referee's GameController and to the position of the *)
(* robot's arms (Run/gc_wizard.lua), and the referee.  The two processes   *)
(* share gcm and are tied by the Game FSM's event channel.                 *)
(***************************************************************************)
EXTENDS StateWizard, Integers

CONSTANTS
  MaxGameEvents,  \* the Game FSM drains its channel before it holds more messages
  Positions       \* where the arms may be put

\* both arms raised, both lowered, or anything else
Raised == -1
Lowered == 1
Neutral == 0

ASSUME RobotAssumption ==
  /\ MaxGameEvents \in Nat \ {0}
  /\ Positions \subseteq {Raised, Lowered, Neutral}

VARIABLES
  referee,         \* the game state the GameController broadcasts
  pc,              \* whether gc_wizard has yet to write the role it chose
  last_position    \* the position of the arms it noticed last, or Unknown

gcVars == <<referee, pc, last_position>>

vars == <<wizardVars, gcVars>>

Unknown == 2

\* libGC.state_to_name, in lower case
NameOf == [s \in Initial .. Finished |-> <<"init", "ready", "set", "play", "finish">>[s + 1]]

RoleOf == [p \in {Raised, Lowered, Neutral} |->
             CASE p = Lowered -> Attacker [] p = Raised -> Goalie [] OTHER -> ForceStop]

-----------------------------------------------------------------------------
(* gc_wizard *)

fsmVars == <<game, body, motion, bodyQ, motionQ, mcm, last_ph, turns>>

\* The arms, looked at once a second, have moved: the first half of
\* process_arm_switch.  Neutral arms end the game at once.
NoticeArms ==
  /\ pc = "loop" /\ pc' = "role"
  /\ \E p \in Positions \ {last_position} :
       /\ last_position' = p
       /\ gameQ' = IF p = Neutral THEN Append(gameQ, "finish") ELSE gameQ
  /\ Len(gameQ) < MaxGameEvents
  /\ UNCHANGED <<referee, gcm, fsmVars>>

\* Its second half: the role is not changed while the game is on.
SetRole ==
  /\ pc = "role" /\ pc' = "loop"
  /\ gcm' = IF gcm.state # Playing THEN [gcm EXCEPT !.role = RoleOf[last_position]] ELSE gcm
  /\ UNCHANGED <<referee, last_position, gameQ, fsmVars>>

\* A packet has come (otherwise the loop turns to no effect) and the arms do not
\* stop the robot.
ProcessPacket ==
  /\ pc = "loop"
  /\ gcm.role # ForceStop
  /\ Len(gameQ) < MaxGameEvents
  /\ gcm' = [gcm EXCEPT !.state = referee]
  /\ gameQ' = Append(gameQ, NameOf[referee])
  /\ UNCHANGED <<gcVars, fsmVars>>

\* The referee starts the game, stops it after a goal, resumes it and ends it.
Referee ==
  /\ \/ referee < Finished /\ referee' = referee + 1
     \/ referee = Playing /\ referee' = Ready
     \/ referee = Finished /\ referee' = Initial
  /\ UNCHANGED <<pc, last_position, wizardVars>>

-----------------------------------------------------------------------------
(* Specification *)

Init ==
  /\ WizardInit
  /\ referee = Initial /\ pc = "loop" /\ last_position = Unknown

Wizard == WizardNext /\ UNCHANGED gcVars

Next == Wizard \/ NoticeArms \/ SetRole \/ ProcessPacket \/ Referee

Spec == Init /\ [][Next]_vars

\* What Motion has begun (standing up, a step, a kick) comes to its end.
MotionEnds ==
  /\ \/ MotionInit \/ MotionHybridWalkInit \/ MotionHybridWalkEnd
     \/ MotionNextStep \/ MotionHybridWalkKick
  /\ motion' # motion
  /\ UNCHANGED gcVars

\* Each loop goes on, packets keep coming, and Motion ends what it has begun.
FairSpec ==
  /\ Spec
  /\ WF_vars(Wizard)
  /\ SF_vars(ProcessPacket) /\ WF_vars(SetRole)
  /\ SF_vars(MotionEnds)

-----------------------------------------------------------------------------
(* Properties *)

\* The state of both processes has its type.
TypeOK ==
  /\ game \in StatesOf(GameTransitions)
  /\ body \in StatesOf(BodyTransitions)
  /\ motion \in StatesOf(MotionTransitions)
  /\ \A e \in {gameQ[i] : i \in DOMAIN gameQ} : e \in {NameOf[s] : s \in DOMAIN NameOf}
  /\ Len(gameQ) <= MaxGameEvents
  /\ gcm \in [state : Initial .. PreInit, role : {Goalie, Attacker, ForceStop}]
  /\ mcm \in [stoprequest : 0 .. 1, steprequest : 0 .. 1, kickphase : 0 .. 2,
              ismoving : 0 .. 1, body_init : 0 .. 1, strong : BOOLEAN, ph : BOOLEAN]
  /\ turns \in Orders

\* The handshake of a kick: Motion is asked for one, or makes it, only while the
\* Body FSM stands in bodyRobocupKick and waits for the answer, and the answer
\* finds it there.  No request outlives the state that made it (bodyRobocupKick.lua
\* and the walk's states share mcm.walk, updated by different FSMs).
KickHandshake ==
  /\ mcm.steprequest = 1 \/ motion = "motionHybridWalkKick" => mcm.kickphase = 1
  /\ mcm.kickphase # 0 => body = "bodyRobocupKick"

\* The Body FSM leaves its initialisation only when Motion has stood up
\* (bodyInit.lua polls mcm.status.body_init, which motionInit.lua sets).
StandsBeforePlaying ==
  body \notin {"bodyIdle", "bodyInit"} => motion \notin {"motionIdle", "motionInit"}

\* How far the kick is, read from the states of both FSMs and the words they share.
Stage ==
  IF motion = "motionHybridWalkKick" THEN "making"
  ELSE IF mcm.steprequest = 1 THEN "asked"
  ELSE IF body # "bodyRobocupKick" THEN "none"
  ELSE <<"begun", "forgotten", "made">>[mcm.kickphase + 1]

Kicking == INSTANCE Kick WITH stage <- Stage

\* A kick goes through its stages in order: it is asked for once (a request that is
\* made or lost is not repeated), made once for a request, and the Body FSM leaves
\* bodyRobocupKick only when the kick was made; from a request that Motion erased
\* (motionStance.entry, motionHybridWalk.entry) nothing leads on, whatever the Game
\* FSM, the referee and the arms do.
ImplementsKick == Kicking!Spec

\* What the Body FSM reads before it asks for a stop is true: a walking robot
\* says that it moves (bodyStop.lua asks for a stop only if it does).
WalkIsReported ==
  motion \in {"motionHybridWalkInit", "motionHybridWalk", "motionHybridWalkEnd",
              "motionHybridWalkKick"} => mcm.ismoving = 1

\* The referee ends the game for good and the arms do not stop the robot.
Over == referee = Finished /\ gcm.role # ForceStop

\* After the end of the game the Game FSM comes to rest, whatever events it missed
\* before, and shared memory agrees (gc_wizard.lua:216-217 writes both).
FinishStopsGame ==
  <>[]Over => <>[](game \in {"gamePreinit", "gameStop"} /\ gcm.state = Finished)

\* After the end of the game the robot no longer follows the ball, even when the
\* Body FSM dropped the Game FSM's stop (bodyRobocupFollow.lua checks gcm itself).
FollowEnds == <>[]Over => <>[](body # "bodyRobocupFollow")

\* A robot that is told to stand up stands up, and the Body FSM learns of it
\* (bodyInit.lua, motionInit.lua).
StandsUp == body = "bodyInit" ~> body = "bodyStop"

\* What the Body FSM asked for in bodyRobocupKick and nobody remembers: a step
\* request erased by the entry of motionStance (after a stop or an emergency) or of
\* motionHybridWalk, or a stop erased by the entry of a walk.
KickForgotten ==
  \/ mcm.kickphase = 1 /\ mcm.steprequest = 0
  \/ mcm.kickphase = 0 /\ mcm.strong /\ mcm.ismoving = 1 /\ mcm.stoprequest = 0

\* A kick ends, unless Motion has forgotten a request: nothing else keeps the Body
\* FSM in bodyRobocupKick, which has no timeout and no transition for a stop.
KickEnds == body = "bodyRobocupKick" ~> (body # "bodyRobocupKick" \/ KickForgotten)

\* Arms set to stop hold a stopped robot until they are set to something else, as
\* gc_wizard.lua:127 and :262 have it ("ARM SET TO STOP", "IGNORING GAMECONTROLLER").
ForceStopHolds ==
  [][last_position = Neutral /\ game = "gameStop" /\ body = "bodyStop"
       => body' = "bodyStop"]_vars
=============================================================================
