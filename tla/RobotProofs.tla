----------------------------- MODULE RobotProofs -----------------------------
(***************************************************************************)
(* Theorems about Robot, for every lag of the channels, every bound of the *)
(* Game FSM's channel, every set of positions of the arms and of kicks.    *)
(***************************************************************************)
EXTENDS Robot, SequenceTheorems, TLAPS

-----------------------------------------------------------------------------
(* The engine: what fires is a row of the table. *)

LEMMA TableIsRow ==
  ASSUME NEW rows, NEW p \in DOMAIN Table(rows)
  PROVE  \E r \in rows : <<r[1], r[2]>> = p /\ Table(rows)[p] = r[3]
<1>1. \E r \in rows : <<r[1], r[2]>> = p
  BY DEF Table
<1>2. Table(rows)[p] = (CHOOSE r \in rows : <<r[1], r[2]>> = p)[3]
  BY DEF Table
<1> QED
  BY <1>1, <1>2

LEMMA RowIsInTable ==
  ASSUME NEW rows, NEW r \in rows
  PROVE  <<r[1], r[2]>> \in DOMAIN Table(rows)
BY DEF Table

\* One event, as the Game FSM has.
LEMMA TargetOfOne ==
  ASSUME NEW rows, NEW s, NEW e,
         Target(Table(rows), s, <<e>>) # None
  PROVE  /\ \E r \in rows : r[1] = s /\ r[2] = e /\ Target(Table(rows), s, <<e>>) = r[3]
         /\ Target(Table(rows), s, <<e>>) \in StatesOf(Table(rows))
<1> DEFINE t == Table(rows)
           firing == {i \in DOMAIN <<e>> : <<s, <<e>>[i]>> \in DOMAIN t}
<1>1. Target(t, s, <<e>>) = IF firing = {} THEN None
        ELSE t[<<s, <<e>>[CHOOSE i \in firing : \A j \in firing : i <= j]>>]
  BY DEF Target
<1>2. firing # {} /\ firing = {1} /\ <<s, e>> \in DOMAIN t
  BY <1>1
<1>3. Target(t, s, <<e>>) = t[<<s, e>>]
  BY <1>1, <1>2
<1> HIDE DEF t
<1>4. PICK r \in rows : <<r[1], r[2]>> = <<s, e>> /\ t[<<s, e>>] = r[3]
  BY <1>2, TableIsRow DEF t
<1>5. t[<<s, e>>] \in StatesOf(t)
  BY <1>2 DEF StatesOf
<1> QED
  BY <1>3, <1>4, <1>5 DEF t

\* Two: the received one, and the one the state returned.
LEMMA TargetOfTwo ==
  ASSUME NEW rows, NEW s, NEW e, NEW f,
         \/ Target(Table(rows), s, <<e, f>>) # None
         \/ \E r \in rows : r[1] = s /\ r[2] \in {e, f}
  PROVE  /\ \E r \in rows : /\ r[1] = s /\ r[2] \in {e, f}
                            /\ Target(Table(rows), s, <<e, f>>) = r[3]
         /\ Target(Table(rows), s, <<e, f>>) \in StatesOf(Table(rows))
<1> DEFINE t == Table(rows)
           events == <<e, f>>
           firing == {i \in DOMAIN events : <<s, events[i]>> \in DOMAIN t}
           first == CHOOSE i \in firing : \A j \in firing : i <= j
<1>1. Target(t, s, events) = IF firing = {} THEN None ELSE t[<<s, events[first]>>]
  BY DEF Target
<1>2. firing # {}
  <2>1. CASE Target(t, s, events) # None
    BY <2>1, <1>1
  <2>2. CASE \E r \in rows : r[1] = s /\ r[2] \in {e, f}
    <3>1. PICK r \in rows : r[1] = s /\ r[2] \in {e, f}
      BY <2>2
    <3>2. <<s, r[2]>> \in DOMAIN t
      BY <3>1, RowIsInTable
    <3>3. PICK i \in {1, 2} : r[2] = events[i]
      BY <3>1
    <3> QED
      BY <3>2, <3>3
  <2> QED
    BY <2>1, <2>2
<1>3. firing \subseteq {1, 2}
  OBVIOUS
<1>4. first \in firing
  <2> HIDE DEF firing
  <2>1. CASE 1 \in firing
    <3>1. \A j \in firing : 1 <= j
      BY <1>3
    <3> QED
      BY <2>1, <3>1
  <2>2. CASE 1 \notin firing
    <3>1. \A j \in firing : j = 2
      BY <2>2, <1>3
    <3>2. 2 \in firing
      BY <3>1, <1>2
    <3>3. \A j \in firing : 2 <= j
      BY <3>1
    <3> QED
      BY <3>2, <3>3
  <2> QED
    BY <2>1, <2>2
<1>5. <<s, events[first]>> \in DOMAIN t /\ events[first] \in {e, f}
  <2>1. \A i \in firing : <<s, events[i]>> \in DOMAIN t /\ events[i] \in {e, f}
    <3> SUFFICES ASSUME NEW i \in firing PROVE events[i] \in {e, f}
      OBVIOUS
    <3> QED
      BY <1>3
  <2> HIDE DEF first, firing, events
  <2> QED
    BY <1>4, <2>1
<1>6. PICK r \in rows : <<r[1], r[2]>> = <<s, events[first]>> /\ t[<<s, events[first]>>] = r[3]
  BY <1>5, TableIsRow
<1>7. t[<<s, events[first]>>] \in StatesOf(t)
  BY <1>5 DEF StatesOf
<1> QED
  BY <1>1, <1>2, <1>5, <1>6, <1>7

\* What a channel delivers was sent.
LEMMA ReceivedWasSent ==
  ASSUME NEW S, NEW q \in Seq(S), NEW r \in Received(q)
  PROVE  /\ r.event \in S \cup {None}
         /\ r.rest \in Seq(S)
         /\ Len(r.rest) <= Len(q)
<1>1. CASE q # <<>> /\ r = [event |-> Head(q), rest |-> Tail(q)]
  BY <1>1
<1>2. CASE r = [event |-> None, rest |-> q]
  BY <1>2
<1> QED
  BY <1>1, <1>2 DEF Received

-----------------------------------------------------------------------------
(* What the tables say *)

LEMMA GameRowFacts ==
  \A r \in GameRows : r[3] \in {"gameSet", "gamePlaying", "gameStop"}
BY DEF GameRows

LEMMA BodyRowFacts ==
  \A r \in BodyRows :
    /\ r[1] = "bodyIdle" => r[3] = "bodyInit"
    /\ r[1] = "bodyInit" => r[2] = "done"
    /\ r[1] = "bodyRobocupKick" => /\ r[2] \in {"done", "testdone"}
                                   /\ r[3] # "bodyRobocupKick"
BY DEF BodyRows

LEMMA MotionRowFacts ==
  \A r \in MotionRows :
    /\ r[3] \notin {None, "motionIdle"}
    /\ r[3] = "motionInit" => r[1] = "motionIdle"
    /\ r[1] \in {"motionInit", "motionHybridWalkEnd"} => r[3] = "motionStance"
    /\ r[3] = "motionHybridWalkKick" => r[2] = "done_step"
    /\ r[1] = "motionHybridWalkKick" => r[3] \in {"motionStance", "motionHybridWalk"}
    /\ r[1] = "motionHybridWalk" => r[2] \in {"done", "done_step"} \/ r[3] = "motionStance"
<1> SUFFICES ASSUME NEW r \in MotionRows
             PROVE  /\ r[3] \notin {None, "motionIdle"}
                    /\ r[3] = "motionInit" => r[1] = "motionIdle"
                    /\ r[1] \in {"motionInit", "motionHybridWalkEnd"} => r[3] = "motionStance"
                    /\ r[3] = "motionHybridWalkKick" => r[2] = "done_step"
                    /\ r[1] = "motionHybridWalkKick" => r[3] \in {"motionStance", "motionHybridWalk"}
                    /\ r[1] = "motionHybridWalk"
                         => r[2] \in {"done", "done_step"} \/ r[3] = "motionStance"
  OBVIOUS
<1>1. r[3] \notin {None, "motionIdle"}
  <2>1. r[3] \in {"motionInit", "motionStance", "motionHybridWalkInit", "motionHybridWalk",
                  "motionHybridWalkEnd", "motionHybridWalkKick"}
    BY DEF MotionRows
  <2> HIDE DEF MotionRows
  <2> QED
    BY <2>1 DEF None
<1>2. r[3] = "motionInit" => r[1] = "motionIdle"
  BY DEF MotionRows
<1>3. r[1] \in {"motionInit", "motionHybridWalkEnd"} => r[3] = "motionStance"
  BY DEF MotionRows
<1>4. r[3] = "motionHybridWalkKick" => r[2] = "done_step"
  BY DEF MotionRows
<1>5. r[1] = "motionHybridWalkKick" => r[3] \in {"motionStance", "motionHybridWalk"}
  BY DEF MotionRows
<1>6. r[1] = "motionHybridWalk" => r[2] \in {"done", "done_step"} \/ r[3] = "motionStance"
  BY DEF MotionRows
<1> QED
  BY <1>1, <1>2, <1>3, <1>4, <1>5, <1>6

\* The initial states, and that an emergency ends a walk.
LEMMA TableFacts ==
  /\ "gamePreinit" \in StatesOf(GameTransitions)
  /\ "bodyIdle" \in StatesOf(BodyTransitions)
  /\ "motionIdle" \in StatesOf(MotionTransitions)
  /\ <<"motionHybridWalk", "emergency", "motionStance">> \in MotionRows
<1>1. \A rows : \A r \in rows : r[1] \in StatesOf(Table(rows))
  <2> SUFFICES ASSUME NEW rows, NEW r \in rows PROVE r[1] \in StatesOf(Table(rows))
    OBVIOUS
  <2>1. <<r[1], r[2]>> \in DOMAIN Table(rows) /\ <<r[1], r[2]>>[1] = r[1]
    BY RowIsInTable
  <2> QED
    BY <2>1 DEF StatesOf
<1>2. <<"gamePreinit", "init", "gameSet">> \in GameRows
  BY DEF GameRows
<1>3. <<"bodyIdle", "init", "bodyInit">> \in BodyRows
  BY DEF BodyRows
<1>4. /\ <<"motionIdle", "stand", "motionInit">> \in MotionRows
      /\ <<"motionHybridWalk", "emergency", "motionStance">> \in MotionRows
  BY DEF MotionRows
<1>5. "gamePreinit" \in StatesOf(GameTransitions)
  BY <1>1, <1>2 DEF GameTransitions
<1>6. "bodyIdle" \in StatesOf(BodyTransitions)
  BY <1>1, <1>3 DEF BodyTransitions
<1>7. "motionIdle" \in StatesOf(MotionTransitions)
  BY <1>1, <1>4 DEF MotionTransitions
<1> QED
  BY <1>4, <1>5, <1>6, <1>7

-----------------------------------------------------------------------------
(***************************************************************************)
(* The inductive invariant.  To the four that the runs check it adds what  *)
(* the channels carry, since an event of another name could move the Body  *)
(* FSM out of a kick or out of its initialisation, and that Motion stands  *)
(* once it has said so.                                                    *)
(***************************************************************************)
GameEvents == {NameOf[s] : s \in DOMAIN NameOf}
BodyEvents == {"init", "stop", "spin"}
MotionEvents == {"stand", "hybridwalk"}
Placed == {Raised, Lowered, Neutral}

Mcm == [stoprequest : 0 .. 1, steprequest : 0 .. 1, kickphase : 0 .. 2,
        ismoving : 0 .. 1, body_init : 0 .. 1, strong : BOOLEAN, ph : BOOLEAN]
Gcm == [state : Initial .. PreInit, role : {Goalie, Attacker, ForceStop}]

\* One field after another.
LEMMA McmUpdated ==
  /\ \A m \in Mcm : \A v \in 0 .. 1 :
       /\ [m EXCEPT !.stoprequest = v] \in Mcm
       /\ [m EXCEPT !.steprequest = v] \in Mcm
       /\ [m EXCEPT !.ismoving = v] \in Mcm
       /\ [m EXCEPT !.body_init = v] \in Mcm
  /\ \A m \in Mcm : \A v \in 0 .. 2 : [m EXCEPT !.kickphase = v] \in Mcm
  /\ 0 \in 0 .. 1 /\ 1 \in 0 .. 1 /\ 1 \in 0 .. 2 /\ 2 \in 0 .. 2
BY DEF Mcm

Typed ==
  /\ game \in StatesOf(GameTransitions)
  /\ body \in StatesOf(BodyTransitions)
  /\ motion \in StatesOf(MotionTransitions)
  /\ gameQ \in Seq(GameEvents) /\ Len(gameQ) <= MaxGameEvents
  /\ bodyQ \in Seq(BodyEvents)
  /\ motionQ \in Seq(MotionEvents)
  /\ gcm \in Gcm /\ mcm \in Mcm
  /\ turns \in Orders
  /\ referee \in Initial .. Finished
  /\ pc = "role" => last_position \in Placed

Stood == mcm.body_init = 1 => motion \notin {"motionIdle", "motionInit"}

IInv == Typed /\ KickHandshake /\ StandsBeforePlaying /\ WalkIsReported /\ Stood

LEMMA InitIInv == Init => IInv
<1> SUFFICES ASSUME Init PROVE IInv
  OBVIOUS
<1> USE DEF Init, WizardInit
<1>1. Typed
  <2>1. gcm \in Gcm
    BY DEF Gcm, Initial, PreInit, Goalie, Attacker, ForceStop
  <2>2. mcm \in Mcm
    BY DEF Mcm
  <2>3. Len(gameQ) <= MaxGameEvents
    BY RobotAssumption
  <2>4. referee \in Initial .. Finished
    BY DEF Initial, Finished
  <2> QED
    BY <2>1, <2>2, <2>3, <2>4, TableFacts DEF Typed
<1>2. KickHandshake /\ StandsBeforePlaying /\ WalkIsReported /\ Stood
  BY DEF KickHandshake, StandsBeforePlaying, WalkIsReported, Stood
<1> QED
  BY <1>1, <1>2 DEF IInv

-----------------------------------------------------------------------------
(* The stages of a kick.  A step of the robot is a step of Kick or leaves    *)
(* the stage alone; both are shown with the invariant, action by action.     *)

Advances == Kicking!Next \/ UNCHANGED Stage

LEMMA StagesAre ==
  /\ motion = "motionHybridWalkKick" => Stage = "making"
  /\ motion # "motionHybridWalkKick" /\ mcm.steprequest = 1 => Stage = "asked"
  /\ motion # "motionHybridWalkKick" /\ mcm.steprequest # 1
       => /\ body # "bodyRobocupKick" => Stage = "none"
          /\ body = "bodyRobocupKick"
               => /\ mcm.kickphase = 0 => Stage = "begun"
                  /\ mcm.kickphase = 1 => Stage = "forgotten"
                  /\ mcm.kickphase = 2 => Stage = "made"
BY DEF Stage

\* The same of the state after a step.
LEMMA StagesAreNext ==
  /\ motion' = "motionHybridWalkKick" => Stage' = "making"
  /\ motion' # "motionHybridWalkKick" /\ mcm'.steprequest = 1 => Stage' = "asked"
  /\ motion' # "motionHybridWalkKick" /\ mcm'.steprequest # 1
       => /\ body' # "bodyRobocupKick" => Stage' = "none"
          /\ body' = "bodyRobocupKick"
               => /\ mcm'.kickphase = 0 => Stage' = "begun"
                  /\ mcm'.kickphase = 1 => Stage' = "forgotten"
                  /\ mcm'.kickphase = 2 => Stage' = "made"
BY DEF Stage

LEMMA SameStage ==
  ASSUME UNCHANGED <<body, motion>>,
         mcm'.steprequest = mcm.steprequest, mcm'.kickphase = mcm.kickphase
  PROVE  Advances
BY DEF Stage, Advances

LEMMA NextStage ==
  ASSUME \/ Stage = "none" /\ Stage' = "begun"
         \/ Stage = "begun" /\ Stage' = "asked"
         \/ Stage = "asked" /\ Stage' \in {"making", "forgotten"}
         \/ Stage = "making" /\ Stage' = "made"
         \/ Stage = "made" /\ Stage' = "none"
  PROVE  Advances
BY DEF Advances, Kicking!Next, Kicking!Go, Kicking!Begin, Kicking!Ask, Kicking!Make,
       Kicking!Answer, Kicking!End, Kicking!Forget

-----------------------------------------------------------------------------
(* Turns *)

LEMMA Rotated ==
  ASSUME NEW F, NEW t \in [1 .. 3 -> F]
  PROVE  Append(Tail(t), t[1]) = <<t[2], t[3], t[1]>>
<1>1. t \in Seq(F)
  <2>1. 3 \in Nat
    OBVIOUS
  <2> QED
    BY <2>1, SeqDef, Zenon
<1>2. Len(t) = 3 /\ t # <<>>
  <2>1. Len(t) = 3
    BY <1>1, LenProperties
  <2> QED
    BY <1>1, <2>1
<1> DEFINE u == Tail(t)
<1>3. u \in Seq(F) /\ Len(u) = 2 /\ u[1] = t[2] /\ u[2] = t[3]
  <2>1. u \in Seq(F) /\ Len(u) = Len(t) - 1 /\ \A i \in 1 .. Len(u) : u[i] = t[i + 1]
    BY <1>1, <1>2, HeadTailProperties
  <2> HIDE DEF u
  <2> QED
    BY <1>2, <2>1
<1> HIDE DEF u
<1> DEFINE v == Append(u, t[1])
<1>4. t[1] \in F /\ t[2] \in F /\ t[3] \in F
  OBVIOUS
<1>5. v \in Seq(F) /\ Len(v) = 3 /\ v[1] = t[2] /\ v[2] = t[3] /\ v[3] = t[1]
  <2>1. \A e \in F : /\ Append(u, e) \in Seq(F) /\ Len(Append(u, e)) = Len(u) + 1
                     /\ \A i \in 1 .. Len(u) : Append(u, e)[i] = u[i]
                     /\ Append(u, e)[Len(u) + 1] = e
    <3>1. u \in Seq(F)
      BY <1>3
    <3> TAKE e \in F
    <3> DEFINE x == Append(u, e)
    <3>2. x \in Seq(F) /\ Len(x) = Len(u) + 1
      BY <3>1, AppendProperties
    <3>3. \A i \in 1 .. Len(u) : x[i] = u[i]
      BY <3>1, AppendProperties
    <3>4. x[Len(u) + 1] = e
      BY <3>1, AppendProperties
    <3> QED
      BY <3>2, <3>3, <3>4
  <2>2. /\ v \in Seq(F) /\ Len(v) = Len(u) + 1
        /\ \A i \in 1 .. Len(u) : v[i] = u[i]
        /\ v[Len(u) + 1] = t[1]
    BY <1>4, <2>1, Zenon
  <2> HIDE DEF v
  <2> QED
    BY <1>3, <2>2
<1> HIDE DEF v
<1> DEFINE w == <<t[2], t[3], t[1]>>
<1>6. w \in Seq(F) /\ Len(w) = 3 /\ w[1] = t[2] /\ w[2] = t[3] /\ w[3] = t[1]
  BY <1>4
<1> HIDE DEF w
<1>7. \A i \in 1 .. Len(v) : v[i] = w[i]
  BY <1>5, <1>6
<1>8. v = w
  BY <1>5, <1>6, <1>7, SeqEqual
<1> QED
  BY <1>8 DEF u, v, w

LEMMA TurnKeepsOrder ==
  ASSUME turns \in Orders, NEW f \in Fsms, Turn(f)
  PROVE  turns' \in Orders
<1>1. turns \in [1 .. 3 -> Fsms] /\ \A i, j \in 1 .. 3 : turns[i] = turns[j] => i = j
  BY DEF Orders
<1>2. turns' = Append(Tail(turns), turns[1])
  BY DEF Turn
<1>3. turns' = <<turns[2], turns[3], turns[1]>>
  <2>1. turns \in [1 .. 3 -> Fsms]
    BY <1>1
  <2> QED
    BY <1>2, <2>1, Rotated
<1>4. turns' \in [1 .. 3 -> Fsms]
  BY <1>1, <1>3
<1>5. \A i, j \in 1 .. 3 : turns'[i] = turns'[j] => i = j
  BY <1>1, <1>3
<1> QED
  BY <1>4, <1>5 DEF Orders

LEMMA GameKeeps ==
  ASSUME IInv, UpdateGame, UNCHANGED gcVars
  PROVE  IInv' /\ Advances
<1>1. /\ Turn("Game")
      /\ UNCHANGED <<body, motion, motionQ, last_ph>>
      /\ UNCHANGED <<referee, pc, last_position>>
  BY DEF UpdateGame, gcVars
<1>2. PICK r \in Received(gameQ) :
        LET to == Target(GameTransitions, game, <<r.event>>) IN
        /\ gameQ' = r.rest
        /\ \/ to = None /\ UNCHANGED <<game, gcm, mcm, bodyQ>>
           \/ /\ to # None
              /\ game' = to
              /\ gcm' = [gcm EXCEPT !.state = GameStateOf[to]]
              /\ bodyQ' = bodyQ \o GameTold(game, to)
              /\ mcm' = IF to = "gameSet" THEN [mcm EXCEPT !.stoprequest = 1] ELSE mcm
  BY DEF UpdateGame
<1> DEFINE to == Target(GameTransitions, game, <<r.event>>)
<1>3. gameQ' \in Seq(GameEvents) /\ Len(gameQ') <= MaxGameEvents
  <2>1. gameQ \in Seq(GameEvents) /\ Len(gameQ) <= MaxGameEvents
    BY DEF IInv, Typed
  <2>2. r.rest \in Seq(GameEvents) /\ Len(r.rest) <= Len(gameQ)
    BY <2>1, ReceivedWasSent
  <2>3. Len(r.rest) \in Nat /\ Len(gameQ) \in Nat
    BY <2>1, <2>2
  <2> QED
    BY <1>2, <2>1, <2>2, <2>3, RobotAssumption
<1>4. turns' \in Orders
  BY <1>1, TurnKeepsOrder DEF IInv, Typed, Fsms
<1>5. CASE to = None
  <2>1. UNCHANGED <<game, gcm, mcm, bodyQ>>
    BY <1>2, <1>5
  <2>2. Advances
    BY <1>1, <2>1, SameStage
  <2> QED
    BY <1>1, <1>3, <1>4, <2>1, <2>2
       DEF IInv, Typed, KickHandshake, StandsBeforePlaying, WalkIsReported, Stood
<1>6. CASE to # None
  <2>1. /\ to \in StatesOf(GameTransitions)
        /\ to \in {"gameSet", "gamePlaying", "gameStop"}
    BY <1>6, TargetOfOne, GameRowFacts DEF GameTransitions
  <2>2. game' = to /\ bodyQ' = bodyQ \o GameTold(game, to)
        /\ gcm' = [gcm EXCEPT !.state = GameStateOf[to]]
        /\ mcm' = IF to = "gameSet" THEN [mcm EXCEPT !.stoprequest = 1] ELSE mcm
    BY <1>2, <1>6
  <2> HIDE DEF to
  <2>3. gcm' \in Gcm
    <3>1. GameStateOf[to] \in Initial .. PreInit
      BY <2>1 DEF GameStateOf, SetState, Playing, Finished, Initial, PreInit
    <3> QED
      BY <2>2, <3>1 DEF IInv, Typed, Gcm
  <2>4. bodyQ' \in Seq(BodyEvents)
    <3>1. <<"init">> \in Seq(BodyEvents) /\ <<"stop">> \in Seq(BodyEvents)
          /\ <<>> \in Seq(BodyEvents)
      BY DEF BodyEvents
    <3>2. GameTold(game, to) \in Seq(BodyEvents)
      BY <3>1, ConcatProperties DEF GameTold
    <3> QED
      BY <2>2, <3>2, ConcatProperties DEF IInv, Typed
  <2>5. /\ mcm' \in Mcm
        /\ mcm'.steprequest = mcm.steprequest /\ mcm'.kickphase = mcm.kickphase
        /\ mcm'.ismoving = mcm.ismoving /\ mcm'.body_init = mcm.body_init
    BY <2>2 DEF IInv, Typed, Mcm
  <2>6. Typed'
    BY <1>1, <1>3, <1>4, <2>1, <2>2, <2>3, <2>4, <2>5 DEF IInv, Typed
  <2>7. Advances
    BY <1>1, <2>5, SameStage
  <2> QED
    BY <1>1, <2>5, <2>6, <2>7
       DEF IInv, KickHandshake, StandsBeforePlaying, WalkIsReported, Stood
<1> QED
  BY <1>5, <1>6

-----------------------------------------------------------------------------
(* Body *)

\* What a state of the Body FSM may have made of mcm before it returns ret: it
\* leaves the handshake of a kick alone, or begins it.
Unasked(m, ret) ==
  /\ m \in Mcm
  /\ m.ismoving = mcm.ismoving /\ m.body_init = mcm.body_init
  /\ \/ m.steprequest = mcm.steprequest /\ m.kickphase = mcm.kickphase
     \/ /\ body = "bodyRobocupKick" /\ mcm.kickphase = 0 /\ ret = None
        /\ m.steprequest = 1 /\ m.kickphase = 1

\* What a Body state returns when it may leave a kick, or its initialisation.
Waited(ret) ==
  /\ body = "bodyInit" /\ ret = "done" => mcm.body_init = 1
  /\ body = "bodyRobocupKick" => ret = None \/ (ret = "done" /\ mcm.kickphase = 2)

\* Entry and exit of the Body FSM's states keep what Motion relies on.
LEMMA BodyEntryKeeps ==
  ASSUME NEW m \in Mcm, NEW from, NEW to, NEW m2 \in BodyEntry(to, BodyExit(from, m))
  PROVE  /\ m2 \in Mcm
         /\ m2.steprequest = m.steprequest
         /\ m2.ismoving = m.ismoving
         /\ m2.body_init = m.body_init
         /\ m2.kickphase \in {0, m.kickphase}
         /\ from = "bodyRobocupKick" => m2.kickphase = 0
<1> DEFINE x == BodyExit(from, m)
<1>1. /\ x \in Mcm /\ x.steprequest = m.steprequest /\ x.ismoving = m.ismoving
      /\ x.body_init = m.body_init /\ x.kickphase \in {0, m.kickphase}
      /\ from = "bodyRobocupKick" => x.kickphase = 0
  BY DEF BodyExit, Mcm
<1> HIDE DEF x
<1>2. /\ m2 \in Mcm /\ m2.steprequest = x.steprequest /\ m2.ismoving = x.ismoving
      /\ m2.body_init = x.body_init /\ m2.kickphase \in {0, x.kickphase}
  <2>1. m2 \in BodyEntry(to, x)
    BY DEF x
  <2>2. CASE to \in {"bodyStop", "bodyRobocupGoalieIdle", "bodyRobocupGoalieDone"}
    <3>1. m2 = RequestStopIfMoving(x)
      BY <2>1, <2>2 DEF BodyEntry
    <3> QED
      BY <3>1, <1>1 DEF RequestStopIfMoving, RequestStop, Mcm
  <2>3. CASE to = "bodyRobocupApproach"
    <3>1. m2 \in ApproachEntry(x)
      BY <2>1, <2>3 DEF BodyEntry
    <3>2. PICK strong \in KickTypes : m2 = [x EXCEPT !.strong = strong]
      BY <3>1 DEF ApproachEntry
    <3> QED
      BY <3>2, <1>1, WizardAssumption DEF Mcm
  <2>4. CASE to = "bodyRobocupKick"
    <3>1. m2 = KickEntry(x)
      BY <2>1, <2>4 DEF BodyEntry
    <3> QED
      BY <3>1, <1>1 DEF KickEntry, RequestStop, Mcm
  <2>5. CASE to \notin {"bodyStop", "bodyRobocupGoalieIdle", "bodyRobocupGoalieDone",
                        "bodyRobocupApproach", "bodyRobocupKick"}
    <3>1. m2 = x
      BY <2>1, <2>5 DEF BodyEntry
    <3> QED
      BY <3>1, <1>1
  <2> QED
    BY <2>2, <2>3, <2>4, <2>5
<1> QED
  BY <1>1, <1>2

LEMMA RunBodyKeeps ==
  ASSUME IInv, NEW ret, NEW m, NEW sent \in {<<>>, <<"hybridwalk">>},
         RunBody(ret, m, sent), UNCHANGED gcVars,
         Unasked(m, ret), Waited(ret)
  PROVE  IInv' /\ Advances
<1>1. /\ Turn("Body")
      /\ UNCHANGED <<game, motion, gameQ, gcm>>
      /\ UNCHANGED <<referee, pc, last_position>>
  BY DEF RunBody, gcVars
<1>2. PICK r \in Received(bodyQ) :
        LET to == Target(BodyTransitions, body, <<r.event, ret>>) IN
        /\ bodyQ' = r.rest
        /\ \/ /\ to = None /\ mcm' = m
              /\ motionQ' = motionQ \o sent
              /\ UNCHANGED body
           \/ /\ to # None /\ body' = to
              /\ mcm' \in BodyEntry(to, BodyExit(body, m))
              /\ motionQ' = motionQ \o sent \o BodyTold(to)
  BY DEF RunBody
<1> DEFINE to == Target(BodyTransitions, body, <<r.event, ret>>)
<1>3. r.event \in BodyEvents \cup {None} /\ bodyQ' \in Seq(BodyEvents)
  BY <1>2, ReceivedWasSent DEF IInv, Typed
<1>4. turns' \in Orders
  BY <1>1, TurnKeepsOrder DEF IInv, Typed, Fsms
<1>5. motionQ' \in Seq(MotionEvents)
  <2>1. /\ motionQ \in Seq(MotionEvents)
        /\ <<>> \in Seq(MotionEvents)
        /\ <<"stand">> \in Seq(MotionEvents) /\ <<"hybridwalk">> \in Seq(MotionEvents)
    BY DEF IInv, Typed, MotionEvents
  <2>2. sent \in Seq(MotionEvents) /\ BodyTold(to) \in Seq(MotionEvents)
    BY <2>1 DEF BodyTold
  <2> HIDE DEF to
  <2>3. motionQ \o sent \in Seq(MotionEvents)
    BY <2>1, <2>2, ConcatProperties
  <2>4. motionQ \o sent \o BodyTold(to) \in Seq(MotionEvents)
    BY <2>2, <2>3, ConcatProperties
  <2> QED
    BY <1>2, <2>3, <2>4 DEF to
<1>6. CASE to = None
  <2>1. UNCHANGED body /\ mcm' = m
    BY <1>2, <1>6
  <2>2. Typed'
    BY <1>1, <1>3, <1>4, <1>5, <2>1 DEF IInv, Typed, Unasked
  <2>3. KickHandshake'
    BY <1>1, <2>1 DEF IInv, KickHandshake, Unasked
  <2>4. Advances
    <3>1. CASE m.steprequest = mcm.steprequest /\ m.kickphase = mcm.kickphase
      BY <1>1, <2>1, <3>1, SameStage
    <3>2. CASE /\ body = "bodyRobocupKick" /\ mcm.kickphase = 0
               /\ m.steprequest = 1 /\ m.kickphase = 1
      <4>1. mcm.steprequest # 1 /\ motion # "motionHybridWalkKick"
        BY <3>2 DEF IInv, KickHandshake
      <4>2. Stage = "begun"
        BY <3>2, <4>1, StagesAre
      <4>3. Stage' = "asked"
        BY <1>1, <2>1, <3>2, <4>1, StagesAreNext
      <4> QED
        BY <4>2, <4>3, NextStage
    <3> QED
      BY <3>1, <3>2 DEF Unasked
  <2> QED
    BY <1>1, <2>1, <2>2, <2>3, <2>4
       DEF IInv, StandsBeforePlaying, WalkIsReported, Stood, Unasked
<1>7. CASE to # None
  <2>1. /\ to \in StatesOf(BodyTransitions)
        /\ \E row \in BodyRows : row[1] = body /\ row[2] \in {r.event, ret} /\ to = row[3]
    BY <1>7, TargetOfTwo DEF BodyTransitions
  <2>2. PICK row \in BodyRows : row[1] = body /\ row[2] \in {r.event, ret} /\ to = row[3]
    BY <2>1
  <2>3. body' = to /\ mcm' \in BodyEntry(to, BodyExit(body, m))
    BY <1>2, <1>7
  <2> HIDE DEF to
  <2>4. /\ mcm' \in Mcm /\ mcm'.steprequest = m.steprequest
        /\ mcm'.ismoving = mcm.ismoving /\ mcm'.body_init = mcm.body_init
        /\ mcm'.kickphase \in {0, m.kickphase}
        /\ body = "bodyRobocupKick" => mcm'.kickphase = 0
    <3>1. m \in Mcm /\ m.ismoving = mcm.ismoving /\ m.body_init = mcm.body_init
      BY DEF Unasked
    <3> QED
      BY <2>3, <3>1, BodyEntryKeeps
  <2>5. "done" \notin BodyEvents \cup {None} /\ "testdone" \notin BodyEvents \cup {None}
    BY DEF BodyEvents, None
  <2>6. body \in {"bodyRobocupKick", "bodyInit"} => ret = "done"
    <3>1. CASE body = "bodyRobocupKick"
      <4>1. row[2] \in {"done", "testdone"}
        BY <2>2, <3>1, BodyRowFacts
      <4>2. row[2] = ret
        BY <4>1, <2>2, <2>5, <1>3
      <4>3. ret # None
        BY <4>1, <4>2, <2>5
      <4> QED
        BY <3>1, <4>3 DEF Waited
    <3>2. CASE body = "bodyInit"
      <4>1. row[2] = "done"
        BY <2>2, <3>2, BodyRowFacts
      <4> QED
        BY <4>1, <2>2, <2>5, <1>3
    <3> QED
      BY <3>1, <3>2
  <2>7. mcm'.kickphase = 0 /\ mcm'.steprequest # 1 /\ motion # "motionHybridWalkKick"
    <3>1. "done" # None
      BY <2>5
    <3>2. CASE body = "bodyRobocupKick"
      <4>1. mcm.kickphase = 2 /\ ret = "done"
        BY <2>6, <3>1, <3>2 DEF Waited
      <4>2. m.steprequest = mcm.steprequest
        BY <4>1, <3>1 DEF Unasked
      <4> QED
        BY <2>4, <3>2, <4>1, <4>2 DEF IInv, KickHandshake
    <3>3. CASE body # "bodyRobocupKick"
      <4>1. mcm.kickphase = 0
        BY <3>3 DEF IInv, KickHandshake
      <4>2. m.steprequest = mcm.steprequest /\ m.kickphase = mcm.kickphase
        BY <3>3 DEF Unasked
      <4> QED
        BY <2>4, <4>1, <4>2 DEF IInv, KickHandshake
    <3> QED
      BY <3>2, <3>3
  <2>8. Typed'
    BY <1>1, <1>3, <1>4, <1>5, <2>1, <2>3, <2>4 DEF IInv, Typed
  <2>9. KickHandshake'
    BY <1>1, <2>7 DEF KickHandshake
  <2>10. StandsBeforePlaying'
    <3>1. CASE body = "bodyIdle"
      <4>1. to = "bodyInit"
        BY <2>2, <3>1, BodyRowFacts
      <4> QED
        BY <4>1, <2>3 DEF StandsBeforePlaying
    <3>2. CASE body = "bodyInit"
      <4>1. mcm.body_init = 1
        BY <2>6, <3>2 DEF Waited
      <4> QED
        BY <4>1, <1>1 DEF IInv, Stood, StandsBeforePlaying
    <3>3. CASE body \notin {"bodyIdle", "bodyInit"}
      BY <3>3, <1>1 DEF IInv, StandsBeforePlaying
    <3> QED
      BY <3>1, <3>2, <3>3
  <2>11. WalkIsReported' /\ Stood'
    BY <1>1, <2>4 DEF IInv, WalkIsReported, Stood
  <2>12. Advances
    <3>1. Stage' = IF to = "bodyRobocupKick" THEN "begun" ELSE "none"
      BY <1>1, <2>3, <2>7, StagesAreNext
    <3>2. CASE body = "bodyRobocupKick"
      <4>1. mcm.kickphase = 2 /\ to # "bodyRobocupKick"
        BY <2>2, <2>5, <2>6, <3>2, BodyRowFacts DEF Waited
      <4>2. mcm.steprequest # 1
        BY <4>1 DEF IInv, KickHandshake
      <4>3. Stage = "made"
        BY <2>7, <3>2, <4>1, <4>2, StagesAre
      <4> QED
        BY <3>1, <4>1, <4>3, NextStage
    <3>3. CASE body # "bodyRobocupKick"
      <4>1. mcm.steprequest # 1
        BY <3>3 DEF IInv, KickHandshake
      <4>2. Stage = "none"
        BY <2>7, <3>3, <4>1, StagesAre
      <4> QED
        BY <3>1, <4>2, NextStage DEF Advances
    <3> QED
      BY <3>2, <3>3
  <2> QED
    BY <2>8, <2>9, <2>10, <2>11, <2>12 DEF IInv
<1> QED
  BY <1>6, <1>7

\* A state that leaves mcm's handshake alone, outside of the kick and of the
\* initialisation.
LEMMA PlainKeeps ==
  ASSUME IInv, NEW ret, NEW m, NEW sent \in {<<>>, <<"hybridwalk">>},
         RunBody(ret, m, sent), UNCHANGED gcVars,
         m \in {mcm, RequestStop(mcm), [mcm EXCEPT !.strong = FALSE]},
         body \notin {"bodyInit", "bodyRobocupKick"}
  PROVE  IInv' /\ Advances
<1>1. Unasked(m, ret)
  <2>1. mcm \in Mcm
    BY DEF IInv, Typed
  <2>2. /\ m \in Mcm /\ m.ismoving = mcm.ismoving /\ m.body_init = mcm.body_init
        /\ m.steprequest = mcm.steprequest /\ m.kickphase = mcm.kickphase
    <3>1. CASE m = mcm
      BY <2>1, <3>1
    <3>2. CASE m = [mcm EXCEPT !.stoprequest = 1]
      BY <2>1, <3>2 DEF Mcm
    <3>3. CASE m = [mcm EXCEPT !.strong = FALSE]
      BY <2>1, <3>3 DEF Mcm
    <3> QED
      BY <3>1, <3>2, <3>3 DEF RequestStop
  <2> QED
    BY <2>2 DEF Unasked
<1>2. Waited(ret)
  BY DEF Waited
<1> QED
  BY <1>1, <1>2, RunBodyKeeps

LEMMA BodyKeeps ==
  ASSUME IInv, UpdateBody, UNCHANGED gcVars
  PROVE  IInv' /\ Advances
<1> DEFINE Plain(ret, m, sent) ==
             /\ RunBody(ret, m, sent)
             /\ m \in {mcm, RequestStop(mcm), [mcm EXCEPT !.strong = FALSE]}
             /\ sent \in {<<>>, <<"hybridwalk">>}
<1>1. ASSUME NEW ret, NEW m, NEW sent, Plain(ret, m, sent),
             body \notin {"bodyInit", "bodyRobocupKick"}
      PROVE  IInv' /\ Advances
  BY <1>1, PlainKeeps
<1>2. StopOffGame \in {mcm, RequestStop(mcm)}
  BY DEF StopOffGame
<1>3. CASE BodyIdle
  <2>1. body = "bodyIdle" /\ Plain(None, [mcm EXCEPT !.strong = FALSE], <<>>)
    BY <1>3 DEF BodyIdle
  <2> HIDE DEF Plain
  <2> QED
    BY <2>1, <1>1
<1>4. CASE BodyInit
  <2> DEFINE ret == IF mcm.body_init = 1 THEN "done" ELSE None
  <2>1. body = "bodyInit" /\ RunBody(ret, mcm, <<>>)
    BY <1>4 DEF BodyInit
  <2>2. Unasked(mcm, ret)
    BY DEF IInv, Typed, Unasked
  <2>3. Waited(ret)
    BY <2>1 DEF Waited, None
  <2> HIDE DEF ret
  <2> QED
    BY <2>1, <2>2, <2>3, RunBodyKeeps
<1>5. CASE BodyStop
  <2> DEFINE ret == IF gcm.state # Playing \/ gcm.role = ForceStop THEN None
                    ELSE IF gcm.role = Goalie THEN "goalie" ELSE "play"
  <2>1. body = "bodyStop" /\ Plain(ret, mcm, <<>>)
    BY <1>5 DEF BodyStop
  <2> HIDE DEF Plain, ret
  <2> QED
    BY <2>1, <1>1
<1>6. CASE BodyRobocupIdle
  <2>1. body = "bodyRobocupIdle" /\ \E ret : Plain(ret, StopOffGame, <<>>)
    BY <1>6, <1>2 DEF BodyRobocupIdle
  <2> HIDE DEF Plain
  <2> QED
    BY <2>1, <1>1
<1>7. CASE BodyRobocupSpin
  <2>1. body = "bodyRobocupSpin" /\ \E ret : Plain(ret, StopOffGame, <<>>)
    BY <1>7, <1>2 DEF BodyRobocupSpin
  <2> HIDE DEF Plain
  <2> QED
    BY <2>1, <1>1
<1>8. CASE BodyRobocupFollow
  <2>1. body = "bodyRobocupFollow" /\ \E ret : Plain(ret, mcm, <<>>)
    BY <1>8 DEF BodyRobocupFollow
  <2> HIDE DEF Plain
  <2> QED
    BY <2>1, <1>1
<1>9. CASE BodyRobocupApproach
  <2>1. body = "bodyRobocupApproach" /\ \E ret : Plain(ret, mcm, <<>>)
    BY <1>9 DEF BodyRobocupApproach
  <2> HIDE DEF Plain
  <2> QED
    BY <2>1, <1>1
<1>10. CASE BodyRobocupKick
  <2> DEFINE asked == [mcm EXCEPT !.steprequest = 1, !.kickphase = 1]
  <2>1. body = "bodyRobocupKick"
    BY <1>10 DEF BodyRobocupKick
  <2>2. \/ mcm.kickphase = 2 /\ RunBody("done", mcm, <<>>)
        \/ mcm.kickphase = 0 /\ RunBody(None, asked, <<>>)
        \/ RunBody(None, mcm, <<>>)
    BY <1>10 DEF BodyRobocupKick
  <2>3. \A ret : Unasked(mcm, ret)
    BY DEF IInv, Typed, Unasked
  <2>4. mcm.kickphase = 0 => Unasked(asked, None)
    <3>1. mcm \in Mcm
      BY DEF IInv, Typed
    <3>2. asked \in Mcm
      BY <3>1, McmUpdated
    <3>3. /\ asked.ismoving = mcm.ismoving /\ asked.body_init = mcm.body_init
          /\ asked.steprequest = 1 /\ asked.kickphase = 1
      BY <3>1 DEF Mcm
    <3> HIDE DEF asked
    <3> QED
      BY <2>1, <3>2, <3>3 DEF Unasked
  <2>5. Waited(None)
    BY <2>1 DEF Waited
  <2>6. mcm.kickphase = 2 => Waited("done")
    BY <2>1 DEF Waited
  <2> HIDE DEF asked
  <2> QED
    BY <2>2, <2>3, <2>4, <2>5, <2>6, RunBodyKeeps
<1>11. CASE BodyRobocupGoalieIdle
  <2>1. body = "bodyRobocupGoalieIdle" /\ \E ret, sent : Plain(ret, mcm, sent)
    BY <1>11 DEF BodyRobocupGoalieIdle
  <2> HIDE DEF Plain
  <2> QED
    BY <2>1, <1>1
<1>12. CASE BodyRobocupGoaliePosition
  <2>1. body = "bodyRobocupGoaliePosition" /\ \E ret, m, sent : Plain(ret, m, sent)
    BY <1>12 DEF BodyRobocupGoaliePosition
  <2> HIDE DEF Plain
  <2> QED
    BY <2>1, <1>1
<1>13. CASE BodyRobocupGoalieDone
  <2>1. body = "bodyRobocupGoalieDone" /\ Plain(None, mcm, <<>>)
    BY <1>13 DEF BodyRobocupGoalieDone
  <2> HIDE DEF Plain
  <2> QED
    BY <2>1, <1>1
<1> QED
  BY <1>3, <1>4, <1>5, <1>6, <1>7, <1>8, <1>9, <1>10, <1>11, <1>12, <1>13 DEF UpdateBody

LEMMA HeadSpinKeeps ==
  ASSUME IInv, HeadSpin, UNCHANGED gcVars
  PROVE  IInv' /\ Advances
<1>1. /\ UNCHANGED <<game, body, motion, gameQ, motionQ, gcm, mcm, last_ph, turns>>
      /\ UNCHANGED <<referee, pc, last_position>>
  BY DEF HeadSpin, gcVars
<1>2. bodyQ' \in Seq(BodyEvents)
  BY DEF HeadSpin, BodyEvents
<1>3. Advances
  BY <1>1, SameStage
<1> QED
  BY <1>1, <1>2, <1>3
     DEF IInv, Typed, KickHandshake, StandsBeforePlaying, WalkIsReported, Stood

-----------------------------------------------------------------------------
(* Motion *)

\* What a state of the Motion FSM may have made of mcm before it returns ret: it
\* leaves the handshake alone, and says that the robot stands still only when it
\* ends a walk.  A kick is made only when it was asked for.
Stepped(m, ret) ==
  /\ m \in Mcm
  /\ m.steprequest = mcm.steprequest /\ m.kickphase = mcm.kickphase
  /\ m.body_init = mcm.body_init
  /\ \/ m.ismoving = mcm.ismoving
     \/ motion = "motionHybridWalk" /\ ret = "emergency"
  /\ ret = "done_step" => mcm.steprequest = 1

\* A transition as the invariant needs it.
Moves(from, to) ==
  /\ to \notin {None, "motionIdle"}
  /\ to = "motionInit" => from = "motionIdle"
  /\ from \in {"motionInit", "motionHybridWalkEnd"} => to = "motionStance"
  /\ from = "motionHybridWalkKick" => to \in {"motionStance", "motionHybridWalk"}

Walking == {"motionHybridWalkInit", "motionHybridWalk", "motionHybridWalkEnd",
            "motionHybridWalkKick"}

LEMMA MotionInMcm ==
  ASSUME NEW m \in Mcm
  PROVE  /\ InitExit(m) \in Mcm /\ HybridWalkEndExit(m) \in Mcm /\ HybridWalkKickExit(m) \in Mcm
         /\ HybridWalkInitEntry(m) \in Mcm /\ HybridWalkEntry(m) \in Mcm
         /\ HybridWalkKickEntry(m) \in Mcm
<1>1. InitExit(m) \in Mcm /\ HybridWalkEndExit(m) \in Mcm
  BY McmUpdated DEF InitExit, HybridWalkEndExit
<1>2. HybridWalkKickExit(m) \in Mcm
  BY McmUpdated DEF HybridWalkKickExit
<1>3. HybridWalkInitEntry(m) \in Mcm /\ HybridWalkKickEntry(m) \in Mcm
  BY McmUpdated DEF HybridWalkInitEntry, HybridWalkKickEntry
<1>4. HybridWalkEntry(m) \in Mcm
  BY McmUpdated DEF HybridWalkEntry
<1> QED
  BY <1>1, <1>2, <1>3, <1>4

\* Exit and entry of the Motion FSM's states, together.
LEMMA MotionEntryKeeps ==
  ASSUME NEW m \in Mcm, NEW from, NEW to, Moves(from, to),
         NEW m2, m2 = MotionEntry(to, MotionExit(from, m))
  PROVE  /\ m2 \in Mcm
         /\ m2.steprequest \in {0, m.steprequest}
         /\ to \in Walking => m2.ismoving = 1
         /\ m2.body_init = IF from = "motionInit" THEN 1 ELSE m.body_init
         /\ from # "motionHybridWalkKick" => m2.kickphase = m.kickphase
         /\ from = "motionHybridWalkKick" => m2.kickphase = 2 /\ m2.steprequest = 0
<1> DEFINE x == MotionExit(from, m)
<1>1. /\ x \in Mcm
      /\ x.steprequest \in {0, m.steprequest}
      /\ x.body_init = IF from = "motionInit" THEN 1 ELSE m.body_init
      /\ from # "motionHybridWalkKick" => x.kickphase = m.kickphase
      /\ from = "motionHybridWalkKick" => x.kickphase = 2 /\ x.steprequest = 0
  <2>1. CASE from = "motionInit"
    <3>1. x = InitExit(m)
      BY <2>1 DEF MotionExit
    <3>2. x \in Mcm
      BY <3>1, MotionInMcm
    <3> HIDE DEF x
    <3> QED
      BY <2>1, <3>1, <3>2 DEF InitExit, Mcm
  <2>2. CASE from = "motionHybridWalkEnd"
    <3>1. x = HybridWalkEndExit(m)
      BY <2>2 DEF MotionExit
    <3>2. x \in Mcm
      BY <3>1, MotionInMcm
    <3> HIDE DEF x
    <3> QED
      BY <2>2, <3>1, <3>2 DEF HybridWalkEndExit, Mcm
  <2>3. CASE from = "motionHybridWalkKick"
    <3>1. x = HybridWalkKickExit(m)
      BY <2>3 DEF MotionExit
    <3>2. x \in Mcm
      BY <3>1, MotionInMcm
    <3> HIDE DEF x
    <3> QED
      BY <2>3, <3>1, <3>2 DEF HybridWalkKickExit, Mcm
  <2>4. CASE from \notin {"motionInit", "motionHybridWalkEnd", "motionHybridWalkKick"}
    <3>1. x = m
      BY <2>4 DEF MotionExit
    <3> QED
      BY <3>1, <2>4
  <2> QED
    BY <2>1, <2>2, <2>3, <2>4
<1>2. m2 = MotionEntry(to, x)
  OBVIOUS
<1> HIDE DEF x
<1>3. /\ m2 \in Mcm
      /\ m2.steprequest \in {0, x.steprequest}
      /\ to \in Walking => m2.ismoving = 1
      /\ m2.body_init = x.body_init /\ m2.kickphase = x.kickphase
  <2>1. CASE to = "motionStance"
    <3>1. m2 = StanceEntry(x)
      BY <1>2, <2>1 DEF MotionEntry
    <3> QED
      BY <1>1, <2>1, <3>1 DEF StanceEntry, Mcm, Walking
  <2>2. CASE to = "motionHybridWalkInit"
    <3>1. m2 = HybridWalkInitEntry(x)
      BY <1>2, <2>2 DEF MotionEntry
    <3>2. m2 \in Mcm
      BY <1>1, <3>1, MotionInMcm
    <3> QED
      BY <1>1, <2>2, <3>1, <3>2 DEF HybridWalkInitEntry, Mcm
  <2>3. CASE to = "motionHybridWalk"
    <3>1. m2 = HybridWalkEntry(x)
      BY <1>2, <2>3 DEF MotionEntry
    <3>2. m2 \in Mcm
      BY <1>1, <3>1, MotionInMcm
    <3> QED
      BY <1>1, <2>3, <3>1, <3>2 DEF HybridWalkEntry, Mcm
  <2>4. CASE to = "motionHybridWalkEnd"
    <3>1. m2 = HybridWalkEndEntry(x)
      BY <1>2, <2>4 DEF MotionEntry
    <3> QED
      BY <1>1, <2>4, <3>1 DEF HybridWalkEndEntry, Mcm
  <2>5. CASE to = "motionHybridWalkKick"
    <3>1. m2 = HybridWalkKickEntry(x)
      BY <1>2, <2>5 DEF MotionEntry
    <3>2. m2 \in Mcm
      BY <1>1, <3>1, MotionInMcm
    <3> QED
      BY <1>1, <2>5, <3>1, <3>2 DEF HybridWalkKickEntry, Mcm
  <2>6. CASE to \notin Walking \cup {"motionStance"}
    <3>1. m2 = x
      BY <1>2, <2>6 DEF MotionEntry, Walking
    <3> QED
      BY <3>1, <1>1, <2>6
  <2> QED
    BY <2>1, <2>2, <2>3, <2>4, <2>5, <2>6 DEF Walking
<1> QED
  BY <1>1, <1>3

LEMMA RunMotionKeeps ==
  ASSUME IInv, NEW ret, NEW m, RunMotion(ret, m), UNCHANGED gcVars, Stepped(m, ret)
  PROVE  IInv' /\ Advances
<1>1. /\ Turn("Motion")
      /\ UNCHANGED <<game, body, gameQ, bodyQ, gcm>>
      /\ UNCHANGED <<referee, pc, last_position>>
  BY DEF RunMotion, gcVars
<1>2. PICK r \in Received(motionQ) :
        LET to == Target(MotionTransitions, motion, <<r.event, ret>>) IN
        /\ motionQ' = r.rest
        /\ \/ to = None /\ mcm' = m /\ UNCHANGED motion
           \/ /\ to # None
              /\ motion' = to
              /\ mcm' = MotionEntry(to, MotionExit(motion, m))
  BY DEF RunMotion
<1> DEFINE to == Target(MotionTransitions, motion, <<r.event, ret>>)
<1>3. r.event \in MotionEvents \cup {None} /\ motionQ' \in Seq(MotionEvents)
  BY <1>2, ReceivedWasSent DEF IInv, Typed
<1>4. turns' \in Orders
  BY <1>1, TurnKeepsOrder DEF IInv, Typed, Fsms
<1>5. CASE to = None
  <2>1. UNCHANGED motion /\ mcm' = m
    BY <1>2, <1>5
  <2>2. ~(motion = "motionHybridWalk" /\ ret = "emergency")
    <3> SUFFICES ASSUME motion = "motionHybridWalk", ret = "emergency" PROVE FALSE
      OBVIOUS
    <3> DEFINE e == <<"motionHybridWalk", "emergency", "motionStance">>
    <3>1. e \in MotionRows /\ e[1] = motion /\ e[2] \in {r.event, ret}
      BY TableFacts
    <3> HIDE DEF e
    <3>2. PICK row \in MotionRows : to = row[3]
      BY <3>1, TargetOfTwo DEF MotionTransitions
    <3> QED
      BY <3>2, <1>5, MotionRowFacts
  <2>3. Typed'
    BY <1>1, <1>3, <1>4, <2>1 DEF IInv, Typed, Stepped
  <2>4. Advances
    BY <1>1, <2>1, SameStage DEF Stepped
  <2> QED
    BY <1>1, <2>1, <2>2, <2>3, <2>4
       DEF IInv, KickHandshake, StandsBeforePlaying, WalkIsReported, Stood, Stepped
<1>6. CASE to # None
  <2>1. /\ to \in StatesOf(MotionTransitions)
        /\ \E row \in MotionRows : row[1] = motion /\ row[2] \in {r.event, ret} /\ to = row[3]
    BY <1>6, TargetOfTwo DEF MotionTransitions
  <2>2. PICK row \in MotionRows : row[1] = motion /\ row[2] \in {r.event, ret} /\ to = row[3]
    BY <2>1
  <2>3. motion' = to /\ mcm' = MotionEntry(to, MotionExit(motion, m))
    BY <1>2, <1>6
  <2> HIDE DEF to
  <2>4. Moves(motion, to)
    BY <2>2, MotionRowFacts DEF Moves
  <2>5. to = "motionHybridWalkKick" => mcm.steprequest = 1 /\ motion # "motionHybridWalkKick"
    <3> SUFFICES ASSUME to = "motionHybridWalkKick"
                 PROVE  mcm.steprequest = 1 /\ motion # "motionHybridWalkKick"
      OBVIOUS
    <3>1. row[2] = "done_step" /\ motion # "motionHybridWalkKick"
      BY <2>2, MotionRowFacts
    <3>2. "done_step" \notin MotionEvents \cup {None}
      BY DEF MotionEvents, None
    <3>3. ret = "done_step"
      BY <3>1, <3>2, <2>2, <1>3
    <3> QED
      BY <3>1, <3>3 DEF Stepped
  <2>6. /\ m \in Mcm /\ m.steprequest = mcm.steprequest
        /\ m.kickphase = mcm.kickphase /\ m.body_init = mcm.body_init
    BY DEF Stepped
  <2>7. /\ mcm' \in Mcm
        /\ mcm'.steprequest \in {0, mcm.steprequest}
        /\ to \in Walking => mcm'.ismoving = 1
        /\ mcm'.body_init = IF motion = "motionInit" THEN 1 ELSE mcm.body_init
        /\ motion # "motionHybridWalkKick" => mcm'.kickphase = mcm.kickphase
        /\ motion = "motionHybridWalkKick" => mcm'.kickphase = 2 /\ mcm'.steprequest = 0
    BY <2>3, <2>4, <2>6, MotionEntryKeeps
  <2>8. Typed'
    BY <1>1, <1>3, <1>4, <2>1, <2>3, <2>7 DEF IInv, Typed
  <2>9. KickHandshake'
    <3>1. CASE motion = "motionHybridWalkKick"
      <4>1. mcm.kickphase = 1 /\ body = "bodyRobocupKick"
        BY <3>1 DEF IInv, KickHandshake
      <4> QED
        BY <1>1, <2>3, <2>5, <2>7, <3>1, <4>1 DEF KickHandshake
    <3>2. CASE motion # "motionHybridWalkKick"
      BY <1>1, <2>3, <2>5, <2>7, <3>2 DEF IInv, KickHandshake
    <3> QED
      BY <3>1, <3>2
  <2>10. StandsBeforePlaying'
    BY <1>1, <2>3, <2>4 DEF IInv, StandsBeforePlaying, Moves
  <2>11. WalkIsReported'
    BY <2>3, <2>7 DEF WalkIsReported, Walking
  <2>12. Stood'
    BY <2>3, <2>4, <2>7 DEF IInv, Stood, Moves
  <2>13. Advances
    <3>1. CASE motion = "motionHybridWalkKick"
      <4>1. body = "bodyRobocupKick" /\ Stage = "making"
        BY <3>1, StagesAre DEF IInv, KickHandshake
      <4>2. Stage' = "made"
        BY <1>1, <2>3, <2>5, <2>7, <3>1, <4>1, StagesAreNext
      <4> QED
        BY <4>1, <4>2, NextStage
    <3>2. CASE motion # "motionHybridWalkKick" /\ to = "motionHybridWalkKick"
      <4>1. Stage = "asked" /\ Stage' = "making"
        BY <2>3, <2>5, <3>2, StagesAre, StagesAreNext
      <4> QED
        BY <4>1, NextStage
    <3>3. CASE motion # "motionHybridWalkKick" /\ to # "motionHybridWalkKick"
      <4>1. CASE mcm'.steprequest = mcm.steprequest
        <5>1. Stage' = Stage
          BY <1>1, <2>3, <2>7, <3>3, <4>1 DEF Stage
        <5> QED
          BY <5>1 DEF Advances
      <4>2. CASE mcm.steprequest = 1 /\ mcm'.steprequest = 0
        <5>1. mcm.kickphase = 1 /\ body = "bodyRobocupKick"
          BY <4>2 DEF IInv, KickHandshake
        <5>2. Stage = "asked"
          BY <3>3, <4>2, StagesAre
        <5>3. Stage' = "forgotten"
          BY <1>1, <2>3, <2>7, <3>3, <4>2, <5>1, StagesAreNext
        <5> QED
          BY <5>2, <5>3, NextStage
      <4>3. mcm.steprequest \in 0 .. 1
        BY DEF IInv, Typed, Mcm
      <4> QED
        BY <2>7, <4>1, <4>2, <4>3
    <3> QED
      BY <3>1, <3>2, <3>3
  <2> QED
    BY <2>8, <2>9, <2>10, <2>11, <2>12, <2>13 DEF IInv
<1> QED
  BY <1>5, <1>6

LEMMA MotionKeeps ==
  ASSUME IInv, UpdateMotion, UNCHANGED gcVars
  PROVE  IInv' /\ Advances
<1>1. mcm \in Mcm
  BY DEF IInv, Typed
<1>2. \A m \in Stepping \cup {mcm} :
        /\ m \in Mcm /\ m.steprequest = mcm.steprequest /\ m.kickphase = mcm.kickphase
        /\ m.body_init = mcm.body_init /\ m.ismoving = mcm.ismoving
  BY <1>1 DEF Stepping, Mcm
<1>3. ASSUME NEW ret, NEW m \in Stepping \cup {mcm}, RunMotion(ret, m),
             ret = "done_step" => mcm.steprequest = 1
      PROVE  IInv' /\ Advances
  <2>1. Stepped(m, ret)
    BY <1>2, <1>3 DEF Stepped
  <2> QED
    BY <1>3, <2>1, RunMotionKeeps
<1>4. [mcm EXCEPT !.ph = FALSE] \in Stepping
  BY DEF Stepping
<1>5. "done_step" \notin {None, "done", "walkalong"}
  BY DEF None
<1>6. CASE MotionIdle
  BY <1>3, <1>5, <1>6 DEF MotionIdle
<1>7. CASE MotionInit
  BY <1>3, <1>5, <1>7 DEF MotionInit
<1>8. CASE MotionStance
  <2> DEFINE ret == IF mcm.steprequest = 1 THEN "done_step" ELSE None
  <2>1. RunMotion(ret, [mcm EXCEPT !.ph = FALSE])
    BY <1>8 DEF MotionStance
  <2>2. ret = "done_step" => mcm.steprequest = 1
    BY <1>5
  <2> HIDE DEF ret
  <2> QED
    BY <2>1, <2>2, <1>3, <1>4
<1>9. CASE MotionHybridWalkInit
  BY <1>3, <1>5, <1>9 DEF MotionHybridWalkInit
<1>10. CASE MotionHybridWalkEnd
  BY <1>3, <1>5, <1>10 DEF MotionHybridWalkEnd
<1>11. CASE MotionHybridWalk
  BY <1>3, <1>5, <1>11 DEF MotionHybridWalk
<1>12. CASE MotionNextStep
  <2>1. CASE RunMotion("done", mcm)
    BY <1>3, <1>5, <2>1
  <2>2. CASE mcm.steprequest = 1 /\ RunMotion("done_step", mcm)
    BY <1>3, <2>2
  <2> QED
    BY <1>12, <2>1, <2>2 DEF MotionNextStep
<1>13. CASE MotionEmergency
  <2> DEFINE m == [mcm EXCEPT !.ismoving = 0]
  <2>1. motion = "motionHybridWalk" /\ RunMotion("emergency", m)
    BY <1>13 DEF MotionEmergency
  <2>2. /\ m \in Mcm /\ m.steprequest = mcm.steprequest /\ m.kickphase = mcm.kickphase
        /\ m.body_init = mcm.body_init
    BY <1>1 DEF Mcm
  <2> HIDE DEF m
  <2>3. Stepped(m, "emergency")
    BY <2>1, <2>2 DEF Stepped
  <2> QED
    BY <2>1, <2>3, RunMotionKeeps
<1>14. CASE MotionHybridWalkKick
  BY <1>3, <1>5, <1>14 DEF MotionHybridWalkKick
<1> QED
  BY <1>6, <1>7, <1>8, <1>9, <1>10, <1>11, <1>12, <1>13, <1>14 DEF UpdateMotion

-----------------------------------------------------------------------------
(* The listener and the referee *)

LEMMA NoticeArmsKeeps ==
  ASSUME IInv, NoticeArms
  PROVE  IInv' /\ Advances
<1>1. /\ UNCHANGED <<referee, gcm>>
      /\ UNCHANGED <<game, body, motion, bodyQ, motionQ, mcm, last_ph, turns>>
  BY DEF NoticeArms, fsmVars
<1>2. PICK p \in Positions \ {last_position} :
        /\ last_position' = p
        /\ gameQ' = IF p = Neutral THEN Append(gameQ, "finish") ELSE gameQ
  BY DEF NoticeArms
<1>3. "finish" \in GameEvents
  <2>1. 4 \in DOMAIN NameOf /\ NameOf[4] = "finish"
    BY DEF NameOf, Initial, Finished
  <2> QED
    BY <2>1 DEF GameEvents
<1>4. gameQ' \in Seq(GameEvents) /\ Len(gameQ') <= MaxGameEvents
  <2>1. gameQ \in Seq(GameEvents) /\ Len(gameQ) < MaxGameEvents /\ Len(gameQ) \in Nat
    BY DEF NoticeArms, IInv, Typed
  <2>2. /\ Append(gameQ, "finish") \in Seq(GameEvents)
        /\ Len(Append(gameQ, "finish")) = Len(gameQ) + 1
    BY <2>1, <1>3, AppendProperties
  <2> QED
    BY <1>2, <2>1, <2>2, RobotAssumption
<1>5. last_position' \in Placed
  BY <1>2, RobotAssumption DEF Placed
<1>10. Advances
  BY <1>1, SameStage
<1> QED
  BY <1>1, <1>4, <1>5, <1>10
     DEF IInv, Typed, KickHandshake, StandsBeforePlaying, WalkIsReported, Stood

LEMMA SetRoleKeeps ==
  ASSUME IInv, SetRole
  PROVE  IInv' /\ Advances
<1>1. /\ UNCHANGED <<referee, last_position, gameQ>> /\ pc' = "loop"
      /\ UNCHANGED <<game, body, motion, bodyQ, motionQ, mcm, last_ph, turns>>
  BY DEF SetRole, fsmVars
<1>2. RoleOf[last_position] \in {Goalie, Attacker, ForceStop}
  BY DEF IInv, Typed, SetRole, Placed, RoleOf
<1>3. gcm' \in Gcm
  BY <1>2 DEF SetRole, IInv, Typed, Gcm
<1>10. Advances
  BY <1>1, SameStage
<1> QED
  BY <1>1, <1>3, <1>10
     DEF IInv, Typed, KickHandshake, StandsBeforePlaying, WalkIsReported, Stood

LEMMA ProcessPacketKeeps ==
  ASSUME IInv, ProcessPacket
  PROVE  IInv' /\ Advances
<1>1. /\ UNCHANGED <<referee, pc, last_position>>
      /\ UNCHANGED <<game, body, motion, bodyQ, motionQ, mcm, last_ph, turns>>
  BY DEF ProcessPacket, fsmVars, gcVars
<1>2. referee \in Initial .. Finished
  BY DEF IInv, Typed
<1>3. gcm' \in Gcm
  <2>1. referee \in Initial .. PreInit
    BY <1>2 DEF Initial, Finished, PreInit
  <2> QED
    BY <2>1 DEF ProcessPacket, IInv, Typed, Gcm
<1>4. NameOf[referee] \in GameEvents
  BY <1>2 DEF GameEvents, NameOf
<1>5. gameQ' \in Seq(GameEvents) /\ Len(gameQ') <= MaxGameEvents
  <2>1. /\ gameQ \in Seq(GameEvents) /\ Len(gameQ) < MaxGameEvents /\ Len(gameQ) \in Nat
        /\ gameQ' = Append(gameQ, NameOf[referee])
    BY DEF ProcessPacket, IInv, Typed
  <2>2. gameQ' \in Seq(GameEvents) /\ Len(gameQ') = Len(gameQ) + 1
    BY <2>1, <1>4, AppendProperties
  <2> QED
    BY <2>1, <2>2, RobotAssumption
<1>10. Advances
  BY <1>1, SameStage
<1> QED
  BY <1>1, <1>3, <1>5, <1>10
     DEF IInv, Typed, KickHandshake, StandsBeforePlaying, WalkIsReported, Stood

LEMMA RefereeKeeps ==
  ASSUME IInv, Referee
  PROVE  IInv' /\ Advances
<1>1. /\ UNCHANGED <<pc, last_position>>
      /\ UNCHANGED <<game, body, motion, gameQ, bodyQ, motionQ, gcm, mcm, last_ph, turns>>
  BY DEF Referee, wizardVars
<1>2. referee' \in Initial .. Finished
  BY DEF Referee, IInv, Typed, Initial, Finished, Playing, Ready
<1>10. Advances
  BY <1>1, SameStage
<1> QED
  BY <1>1, <1>2, <1>10
     DEF IInv, Typed, KickHandshake, StandsBeforePlaying, WalkIsReported, Stood

-----------------------------------------------------------------------------
(* Theorems *)

LEMMA StepKeeps ==
  ASSUME IInv, [Next]_vars
  PROVE  IInv' /\ Advances
<1>1. CASE Wizard
  <2>1. UNCHANGED gcVars
    BY <1>1 DEF Wizard
  <2> QED
    BY <1>1, <2>1, GameKeeps, BodyKeeps, HeadSpinKeeps, MotionKeeps DEF Wizard, WizardNext
<1>2. CASE UNCHANGED vars
  <2>1. Advances
    BY <1>2, SameStage DEF vars, wizardVars
  <2> QED
    BY <1>2, <2>1 DEF vars, wizardVars, gcVars,
       IInv, Typed, KickHandshake, StandsBeforePlaying, WalkIsReported, Stood
<1> QED
  BY <1>1, <1>2, NoticeArmsKeeps, SetRoleKeeps, ProcessPacketKeeps, RefereeKeeps DEF Next

\* The conjunction of the above is an invariant of the robot.
THEOREM Inductive == Spec => []IInv
<1>1. IInv /\ [Next]_vars => IInv'
  BY StepKeeps
<1> QED
  BY <1>1, InitIInv, PTL DEF Spec

\* The variables of both processes keep their types, the Game FSM's channel its
\* bound, and only names of game states travel in it.
THEOREM TypeCorrect == Spec => []TypeOK
<1>1. IInv => TypeOK
  <2> SUFFICES ASSUME IInv PROVE TypeOK
    OBVIOUS
  <2>1. \A e \in {gameQ[i] : i \in DOMAIN gameQ} : e \in GameEvents
    BY DEF IInv, Typed
  <2> QED
    BY <2>1 DEF IInv, Typed, TypeOK, GameEvents, Mcm, Gcm
<1> QED
  BY <1>1, Inductive, PTL

\* A kick that is asked for or made is waited for: no request outlives the state of
\* the Body FSM that made it, and no answer comes when it has left that state.
THEOREM Kicks == Spec => []KickHandshake
<1>1. IInv => KickHandshake
  BY DEF IInv
<1> QED
  BY <1>1, Inductive, PTL

\* Every step of the robot is a step of Kick or leaves the stage of the kick alone, so
\* that a kick is asked for once, made at most once for it, and left when it was made.
THEOREM KicksInStages == Spec => ImplementsKick
<1>1. Init => Kicking!Init
  <2> SUFFICES ASSUME Init PROVE Kicking!Init
    OBVIOUS
  <2>1. /\ motion = "motionIdle" /\ body = "bodyIdle"
        /\ mcm.steprequest = 0
    BY DEF Init, WizardInit
  <2> QED
    BY <2>1, StagesAre DEF Kicking!Init
<1>2. IInv /\ [Next]_vars => [Kicking!Next]_Stage
  BY StepKeeps DEF Advances
<1> QED
  BY <1>1, <1>2, Inductive, PTL DEF Spec, ImplementsKick, Kicking!Spec

\* The Body FSM starts to play only when Motion stands.
THEOREM Stands == Spec => []StandsBeforePlaying
<1>1. IInv => StandsBeforePlaying
  BY DEF IInv
<1> QED
  BY <1>1, Inductive, PTL

\* A walking robot says that it moves, so that a stop that is owed to it is asked for.
THEOREM Walks == Spec => []WalkIsReported
<1>1. IInv => WalkIsReported
  BY DEF IInv
<1> QED
  BY <1>1, Inductive, PTL
=============================================================================
