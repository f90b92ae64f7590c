----------------------------- MODULE StateWizard -----------------------------
(***************************************************************************)
(* The process that runs the robot's state machines                        *)
(* (Run/state_wizard.lua): the Game, Body and Motion FSMs of the THOROP    *)
(* configuration, each a coroutine resumed once per cycle, which talk      *)
(* through their event channels and through the shared memory segments gcm *)
(* (game) and mcm (motion).  What a state computes about the ball, its pose*)
(* and the gait is abstracted to the events it may return.                 *)
(***************************************************************************)
EXTENDS Fsm, FiniteSets

CONSTANT
  KickTypes       \* the kicks Approach may choose: TRUE for a strong one

ASSUME WizardAssumption == KickTypes \subseteq BOOLEAN /\ KickTypes # {}

VARIABLES
  game, body, motion,      \* currentState of each FSM
  gameQ, bodyQ, motionQ,   \* messages in its event channel
  gcm,                     \* shared memory: game state and role
  mcm,                     \* shared memory: requests to the walk and its status
  last_ph,                 \* phase of the step when Follow or Approach last looked
  turns                    \* the coroutines in the order of their next turns

wizardVars == <<game, body, motion, gameQ, bodyQ, motionQ, gcm, mcm, last_ph, turns>>

\* gcm.game.state
Initial == 0
Ready == 1
SetState == 2
Playing == 3
Finished == 4
PreInit == 5

\* gcm.game.role
Goalie == 0
Attacker == 1
ForceStop == 2

GameRows == {
  <<"gamePreinit", "init", "gameSet">>, <<"gamePreinit", "set", "gameSet">>,
  <<"gameSet", "play", "gamePlaying">>, <<"gameSet", "finish", "gameStop">>,
  <<"gamePlaying", "finish", "gameStop">>,
  <<"gameStop", "init", "gameSet">>, <<"gameStop", "set", "gameSet">>}

\* Mutant: a game that is being played does not end.
GameTransitionsMutant == Table(GameRows \ {<<"gamePlaying", "finish", "gameStop">>})

GameTransitions == Table(GameRows)

BodyRows == {
  <<"bodyIdle", "init", "bodyInit">>, <<"bodyInit", "done", "bodyStop">>,
  <<"bodyStop", "kick", "bodyRobocupKick">>,
  <<"bodyStop", "approach", "bodyRobocupApproach">>,
  <<"bodyStop", "play", "bodyRobocupIdle">>,
  <<"bodyStop", "goalie", "bodyRobocupGoalieIdle">>,
  <<"bodyRobocupIdle", "spin", "bodyRobocupSpin">>,
  <<"bodyRobocupSpin", "ballfound", "bodyRobocupFollow">>,
  <<"bodyRobocupIdle", "timeout", "bodyRobocupIdle">>,
  <<"bodyRobocupIdle", "ballfound", "bodyRobocupFollow">>,
  <<"bodyRobocupIdle", "stop", "bodyStop">>,
  <<"bodyRobocupIdle", "goalie", "bodyRobocupGoalieIdle">>,
  <<"bodyRobocupApproach", "done", "bodyRobocupKick">>,
  <<"bodyRobocupApproach", "ballfar", "bodyRobocupFollow">>,
  <<"bodyRobocupApproach", "stop", "bodyStop">>,
  <<"bodyRobocupFollow", "done", "bodyRobocupIdle">>,
  <<"bodyRobocupFollow", "timeout", "bodyRobocupFollow">>,
  <<"bodyRobocupFollow", "ballclose", "bodyRobocupApproach">>,
  <<"bodyRobocupFollow", "stop", "bodyStop">>,
  <<"bodyRobocupKick", "done", "bodyRobocupIdle">>,
  <<"bodyRobocupKick", "testdone", "bodyStop">>,
  <<"bodyRobocupGoalieIdle", "attacker", "bodyRobocupIdle">>,
  <<"bodyRobocupGoalieIdle", "stop", "bodyStop">>,
  <<"bodyRobocupGoalieIdle", "position", "bodyRobocupGoaliePosition">>,
  <<"bodyRobocupGoalieIdle", "timeout", "bodyRobocupGoalieIdle">>,
  <<"bodyRobocupGoaliePosition", "timeout", "bodyRobocupGoalieDone">>,
  <<"bodyRobocupGoaliePosition", "idle", "bodyRobocupGoalieIdle">>,
  <<"bodyRobocupGoaliePosition", "done", "bodyRobocupGoalieDone">>,
  <<"bodyRobocupGoaliePosition", "stop", "bodyStop">>,
  <<"bodyRobocupGoaliePosition", "attacker", "bodyRobocupIdle">>,
  <<"bodyRobocupGoalieDone", "stop", "bodyStop">>,
  <<"bodyRobocupGoalieDone", "attacker", "bodyRobocupIdle">>}

\* Mutant: the kick can be stopped like the other states.
BodyTransitionsMutant == Table(BodyRows \cup {<<"bodyRobocupKick", "stop", "bodyStop">>})

BodyTransitions == Table(BodyRows)

MotionRows == {
  <<"motionIdle", "stand", "motionInit">>, <<"motionInit", "done", "motionStance">>,
  <<"motionStance", "hybridwalk", "motionHybridWalkInit">>,
  <<"motionStance", "done_step", "motionHybridWalkKick">>,
  <<"motionHybridWalkInit", "done", "motionHybridWalk">>,
  <<"motionHybridWalk", "done", "motionHybridWalkEnd">>,
  <<"motionHybridWalk", "emergency", "motionStance">>,
  <<"motionHybridWalkEnd", "done", "motionStance">>,
  <<"motionHybridWalk", "done_step", "motionHybridWalkKick">>,
  <<"motionHybridWalkKick", "done", "motionStance">>,
  <<"motionHybridWalkKick", "walkalong", "motionHybridWalk">>}

MotionTransitions == Table(MotionRows)

StatesOf(transitions) == {p[1] : p \in DOMAIN transitions} \cup
                         {transitions[p] : p \in DOMAIN transitions}

-----------------------------------------------------------------------------
(* The cycle of the process *)

Fsms == {"Game", "Body", "Motion"}

\* pairs gives the coroutines in some order, the same in every cycle.
Orders == {o \in [1 .. 3 -> Fsms] : \A i, j \in 1 .. 3 : o[i] = o[j] => i = j}

Turn(f) == turns[1] = f /\ turns' = Append(Tail(turns), f)

-----------------------------------------------------------------------------
(* Game *)

\* exit of the state that is left and entry of the one that is reached

\* Mutant: a stopped game counts as one that is being tested.
GameStateOfMutant == [gameSet |-> SetState, gamePlaying |-> Playing, gameStop |-> 6]

GameStateOf == [gameSet |-> SetState, gamePlaying |-> Playing, gameStop |-> Finished]

GameTold(from, to) ==
  (IF from = "gamePreinit" THEN <<"init">> ELSE <<>>) \o
  (IF to \in {"gameSet", "gameStop"} THEN <<"stop">> ELSE <<>>)

UpdateGame ==
  /\ Turn("Game")
  /\ \E r \in Received(gameQ) :
       LET to == Target(GameTransitions, game, <<r.event>>) IN
       /\ gameQ' = r.rest
       /\ \/ to = None /\ UNCHANGED <<game, gcm, mcm, bodyQ>>
          \/ /\ to # None
             /\ game' = to
             /\ gcm' = [gcm EXCEPT !.state = GameStateOf[to]]
             /\ bodyQ' = bodyQ \o GameTold(game, to)
             /\ mcm' = IF to = "gameSet" THEN [mcm EXCEPT !.stoprequest = 1] ELSE mcm
  /\ UNCHANGED <<body, motion, motionQ, last_ph>>

-----------------------------------------------------------------------------
(* Body *)

\* Mutant: nobody asks Motion to stand up.
BodyToldMutant(to) ==
  IF to \in {"bodyRobocupFollow", "bodyRobocupSpin"} THEN <<"hybridwalk">> ELSE <<>>

\* A state that walks asks Motion for it when it is entered, bodyInit to stand up.
BodyTold(to) ==
  IF to = "bodyInit" THEN <<"stand">>
  ELSE IF to \in {"bodyRobocupFollow", "bodyRobocupSpin"} THEN <<"hybridwalk">>
  ELSE <<>>

RequestStop(m) == [m EXCEPT !.stoprequest = 1]

RequestStopIfMoving(m) == IF m.ismoving = 1 THEN RequestStop(m) ELSE m

ApproachEntry(m) == {[m EXCEPT !.strong = s] : s \in KickTypes}

KickEntry(m) == [(IF m.strong THEN RequestStop(m) ELSE m) EXCEPT !.kickphase = 0]

\* What entry can make of mcm.
BodyEntry(to, m) ==
  CASE to \in {"bodyStop", "bodyRobocupGoalieIdle", "bodyRobocupGoalieDone"} ->
         {RequestStopIfMoving(m)}
    [] to = "bodyRobocupApproach" -> ApproachEntry(m)
    [] to = "bodyRobocupKick" -> {KickEntry(m)}
    [] OTHER -> {m}

BodyExit(from, m) == IF from = "bodyRobocupKick" THEN [m EXCEPT !.kickphase = 0] ELSE m

\* One turn of the Body FSM in a state that returns ret, leaves mcm as m and has
\* sent the messages sent to Motion.
RunBody(ret, m, sent) ==
  /\ Turn("Body")
  /\ \E r \in Received(bodyQ) :
       LET to == Target(BodyTransitions, body, <<r.event, ret>>) IN
       /\ bodyQ' = r.rest
       /\ \/ /\ to = None
             /\ mcm' = m
             /\ motionQ' = motionQ \o sent
             /\ last_ph' = (m.ph /\ body \in {"bodyRobocupFollow", "bodyRobocupApproach"})
             /\ UNCHANGED body
          \/ /\ to # None
             /\ body' = to
             /\ mcm' \in BodyEntry(to, BodyExit(body, m))
             /\ motionQ' = motionQ \o sent \o BodyTold(to)
             /\ last_ph' = FALSE
  /\ UNCHANGED <<game, motion, gameQ, gcm>>

\* The step has just come to its end (ph crossed check_ph = 0.95).
StepEnds == ~last_ph /\ mcm.ph

BodyIdle == body = "bodyIdle" /\ RunBody(None, [mcm EXCEPT !.strong = FALSE], <<>>)

\* Mutant: the Body FSM does not wait for Motion.
BodyInitMutant == body = "bodyInit" /\ RunBody("done", mcm, <<>>)

BodyInit ==
  /\ body = "bodyInit"
  /\ RunBody(IF mcm.body_init = 1 THEN "done" ELSE None, mcm, <<>>)

BodyStop ==
  /\ body = "bodyStop"
  /\ RunBody(IF gcm.state # Playing \/ gcm.role = ForceStop THEN None
             ELSE IF gcm.role = Goalie THEN "goalie" ELSE "play", mcm, <<>>)

\* RobocupIdle and Spin stop a walk when the game is not on, but stay.
StopOffGame == IF gcm.state # Playing /\ motion = "motionHybridWalk"
               THEN RequestStop(mcm) ELSE mcm

BodyRobocupIdle ==
  /\ body = "bodyRobocupIdle"
  /\ \E ret \in IF gcm.role = Goalie THEN {"goalie"} ELSE {None, "timeout", "ballfound"} :
       RunBody(ret, StopOffGame, <<>>)

BodyRobocupSpin ==
  /\ body = "bodyRobocupSpin"
  /\ \E ret \in IF gcm.role = Goalie THEN {"goalie"} ELSE {None, "ballfound"} :
       RunBody(ret, StopOffGame, <<>>)

\* Mutant: only the Game FSM's event stops the robot.
BodyRobocupFollowMutant ==
  /\ body = "bodyRobocupFollow"
  /\ \E ret \in IF StepEnds THEN {None, "ballclose"} ELSE {None} : RunBody(ret, mcm, <<>>)

BodyRobocupFollow ==
  /\ body = "bodyRobocupFollow"
  /\ \E ret \in IF gcm.state # Playing \/ gcm.role = ForceStop THEN {"stop"}
                ELSE IF StepEnds THEN {None, "ballclose"} ELSE {None} :
       RunBody(ret, mcm, <<>>)

BodyRobocupApproach ==
  /\ body = "bodyRobocupApproach"
  /\ \E ret \in IF StepEnds THEN {None, "ballfar", "done"} ELSE {None} :
       RunBody(ret, mcm, <<>>)

\* A walk-kick is asked for at once, a strong kick when the walk has stopped.
BodyRobocupKick ==
  /\ body = "bodyRobocupKick"
  /\ IF mcm.kickphase = 2 THEN RunBody("done", mcm, <<>>)
     ELSE IF mcm.kickphase = 0 /\ (~mcm.strong \/ mcm.ismoving = 0)
     THEN RunBody(None, [mcm EXCEPT !.steprequest = 1, !.kickphase = 1], <<>>)
     ELSE RunBody(None, mcm, <<>>)

BodyRobocupGoalieIdle ==
  /\ body = "bodyRobocupGoalieIdle"
  /\ \/ RunBody("position", mcm, <<"hybridwalk">>)
     \/ \E ret \in {None, "timeout"} : RunBody(ret, mcm, <<>>)

BodyRobocupGoaliePosition ==
  /\ body = "bodyRobocupGoaliePosition"
  /\ LET sent == IF mcm.ismoving = 0 THEN <<"hybridwalk">> ELSE <<>> IN
     \/ RunBody("done", RequestStop(mcm), sent)
     \/ \E ret \in {None, "timeout"} : RunBody(ret, mcm, sent)

BodyRobocupGoalieDone == body = "bodyRobocupGoalieDone" /\ RunBody(None, mcm, <<>>)

UpdateBody ==
  \/ BodyIdle \/ BodyInit \/ BodyStop
  \/ BodyRobocupIdle \/ BodyRobocupSpin \/ BodyRobocupFollow
  \/ BodyRobocupApproach \/ BodyRobocupKick
  \/ BodyRobocupGoalieIdle \/ BodyRobocupGoaliePosition \/ BodyRobocupGoalieDone

\* The Head FSM, which lost the ball and scans behind the robot.  (A bound: it
\* sends into an empty channel only.)
HeadSpin ==
  /\ game = "gamePlaying"
  /\ bodyQ = <<>>
  /\ bodyQ' = <<"spin">>
  /\ UNCHANGED <<game, body, motion, gameQ, motionQ, gcm, mcm, last_ph, turns>>

-----------------------------------------------------------------------------
(* Motion *)

StanceEntry(m) == [m EXCEPT !.steprequest = 0]

HybridWalkInitEntry(m) == [m EXCEPT !.stoprequest = 0, !.ismoving = 1]

HybridWalkEntry(m) == [m EXCEPT !.stoprequest = 0, !.steprequest = 0, !.ismoving = 1]

HybridWalkEndEntry(m) == [m EXCEPT !.ismoving = 1]

\* Mutant: the kick from a stand does not say that the robot moves.
HybridWalkKickEntryMutant(m) == [m EXCEPT !.stoprequest = 0]

HybridWalkKickEntry(m) == [m EXCEPT !.stoprequest = 0, !.ismoving = 1]

MotionEntry(to, m) ==
  CASE to = "motionStance" -> StanceEntry(m)
    [] to = "motionHybridWalkInit" -> HybridWalkInitEntry(m)
    [] to = "motionHybridWalk" -> HybridWalkEntry(m)
    [] to = "motionHybridWalkEnd" -> HybridWalkEndEntry(m)
    [] to = "motionHybridWalkKick" -> HybridWalkKickEntry(m)
    [] OTHER -> m

InitExit(m) == [m EXCEPT !.body_init = 1, !.ismoving = 0]

HybridWalkEndExit(m) == [m EXCEPT !.stoprequest = 0, !.ismoving = 0]

\* Mutant: the walk-kick ends without an answer.
HybridWalkKickExitMutant(m) == [m EXCEPT !.steprequest = 0]

HybridWalkKickExit(m) == [m EXCEPT !.steprequest = 0, !.kickphase = 2]

MotionExit(from, m) ==
  CASE from = "motionInit" -> InitExit(m)
    [] from = "motionHybridWalkEnd" -> HybridWalkEndExit(m)
    [] from = "motionHybridWalkKick" -> HybridWalkKickExit(m)
    [] OTHER -> m

RunMotion(ret, m) ==
  /\ Turn("Motion")
  /\ \E r \in Received(motionQ) :
       LET to == Target(MotionTransitions, motion, <<r.event, ret>>) IN
       /\ motionQ' = r.rest
       /\ \/ to = None /\ mcm' = m /\ UNCHANGED motion
          \/ /\ to # None
             /\ motion' = to
             /\ mcm' = MotionEntry(to, MotionExit(motion, m))
  /\ UNCHANGED <<game, body, gameQ, bodyQ, gcm, last_ph>>

\* store_stance publishes the phase of the step that is being made.
Stepping == {[mcm EXCEPT !.ph = p] : p \in BOOLEAN}

MotionIdle == motion = "motionIdle" /\ RunMotion(None, mcm)

MotionInit == motion = "motionInit" /\ \E ret \in {None, "done"} : RunMotion(ret, mcm)

MotionStance ==
  /\ motion = "motionStance"
  /\ RunMotion(IF mcm.steprequest = 1 THEN "done_step" ELSE None, [mcm EXCEPT !.ph = FALSE])

\* The first and the last steps of a walk, planned in advance.
MotionHybridWalkInit ==
  /\ motion = "motionHybridWalkInit"
  /\ \E m \in Stepping, ret \in {None, "done"} : RunMotion(ret, m)

MotionHybridWalkEnd ==
  /\ motion = "motionHybridWalkEnd"
  /\ \E m \in Stepping, ret \in {None, "done"} : RunMotion(ret, m)

MotionHybridWalk == motion = "motionHybridWalk" /\ \E m \in Stepping : RunMotion(None, m)

\* Mutant: a walk looks for a stop only.
MotionNextStepMutant ==
  motion = "motionHybridWalk" /\ mcm.stoprequest = 1 /\ RunMotion("done", mcm)

\* Requests are looked at between two steps only, a stop before a kick.
MotionNextStep ==
  /\ motion = "motionHybridWalk"
  /\ IF mcm.stoprequest = 1 THEN RunMotion("done", mcm)
     ELSE mcm.steprequest = 1 /\ RunMotion("done_step", mcm)

\* The body rolled too far.
MotionEmergency ==
  /\ motion = "motionHybridWalk"
  /\ RunMotion("emergency", [mcm EXCEPT !.ismoving = 0])

MotionHybridWalkKick ==
  /\ motion = "motionHybridWalkKick"
  /\ \E ret \in {None, "done", "walkalong"} : RunMotion(ret, mcm)

UpdateMotion ==
  \/ MotionIdle \/ MotionInit \/ MotionStance
  \/ MotionHybridWalkInit \/ MotionHybridWalkEnd
  \/ MotionHybridWalk \/ MotionNextStep \/ MotionEmergency \/ MotionHybridWalkKick

-----------------------------------------------------------------------------
(* The process *)

WizardInit ==
  /\ game = "gamePreinit" /\ body = "bodyIdle" /\ motion = "motionIdle"
  /\ gameQ = <<>> /\ bodyQ = <<>> /\ motionQ = <<>>
  /\ gcm = [state |-> PreInit, role |-> ForceStop]
  /\ mcm = [stoprequest |-> 0, steprequest |-> 0, kickphase |-> 0, ismoving |-> 0,
            body_init |-> 0, strong |-> FALSE, ph |-> FALSE]
  /\ last_ph = FALSE
  /\ turns \in Orders

WizardNext == UpdateGame \/ UpdateBody \/ HeadSpin \/ UpdateMotion

=============================================================================
