---------------------------- MODULE GatewayProofs ----------------------------
(***************************************************************************)
(* Theorems about Gateway, for every number of servos, every set of id     *)
(* maps and modes, every time an answer takes and every longer period of   *)
(* timer 1.                                                                *)
(***************************************************************************)
EXTENDS Gateway, SequenceTheorems, TLAPS

Asked(p) == Awaits(p) /\ p.kind \in {"position", "error"}

(***************************************************************************)
(* Why one query at a time.  The loop asks when it has the answer, or when *)
(* timer 1 has overflowed: that cannot be before the answer has come or is *)
(* lost, because the timer is never ahead of the age of the answer; and it *)
(* asks with the timer at zero, because a loop that has nothing to wait    *)
(* for lets no time pass.                                                  *)
(***************************************************************************)
Bus ==
  ~manual =>
    /\ mode # "manual"
    /\ \A i \in Servos : currPos[i] # "status"
    /\ Len(coming) <= 1 /\ Len(busRx) <= 1
    /\ \A i \in DOMAIN coming : Asked(coming[i]) /\ tcnt1 <= coming[i].age
    /\ \A i \in DOMAIN busRx : Asked(busRx[i].packet) /\ (busRx[i].last => coming = <<>>)
    /\ coming # <<>> \/ busRx # <<>> => ~busTimeout
    /\ state = "IDLE" => tcnt1 = 0 /\ ~busTimeout /\ busPacketIn = Nothing
    /\ pc = "rest" => busRx = <<>> /\ coming = <<>>

(***************************************************************************)
(* Why a confirmation belongs to the request it is read for: a request is  *)
(* under way, or its answer is, but never two of them.                     *)
(***************************************************************************)
Handshake ==
  ~refused =>
    /\ toHost \in {<<>>, <<"NO_ERROR">>}
    /\ hostRx = <<>> \/ \E p \in Requests : hostRx = <<p>> /\ Awaited(p) = call
    /\ hostRx # <<>> => toHost = <<>>
    /\ call = Nothing => toHost = <<>>
    /\ call \in Modes => confirmed = Nothing /\ (toHost # <<>> => mode = call)
    /\ confirmed # Nothing => mode = confirmed

IInv == TypeOK /\ Bus /\ Handshake

-----------------------------------------------------------------------------
(* Sequences of one element *)

LEMMA AppendOne ==
  ASSUME NEW S, NEW s \in Seq(S), NEW e \in S
  PROVE  /\ Append(s, e) \in Seq(S)
         /\ Len(Append(s, e)) = Len(s) + 1
         /\ s = <<>> => Append(s, e) = <<e>>
<1>1. Append(s, e) \in Seq(S)
  BY AppendProperties
<1>2. Len(Append(s, e)) = Len(s) + 1
  BY AppendProperties
<1>3. s = <<>> => Append(s, e) = <<e>>
  OBVIOUS
<1> QED
  BY <1>1, <1>2, <1>3

LEMMA TailOfOne ==
  ASSUME NEW S, NEW s \in Seq(S), s # <<>>
  PROVE  /\ Head(s) \in S /\ Head(s) = s[1]
         /\ Tail(s) \in Seq(S)
         /\ Len(s) <= 1 => Tail(s) = <<>>
<1>1. Head(s) \in S
  BY HeadTailProperties
<1>2. Head(s) = s[1]
  OBVIOUS
<1>3. Tail(s) \in Seq(S) /\ Len(Tail(s)) = Len(s) - 1
  BY HeadTailProperties
<1>4. Len(s) <= 1 => Tail(s) = <<>>
  <2> HAVE Len(s) <= 1
  <2>1. Len(s) \in Nat /\ Len(s) # 0
    BY LenProperties, EmptySeq
  <2>2. Len(Tail(s)) = 0
    BY <1>3, <2>1
  <2> QED
    BY <1>3, <2>2, EmptySeq
<1> QED
  BY <1>1, <1>2, <1>3, <1>4

LEMMA InitIInv == Init => IInv
<1> SUFFICES ASSUME Init PROVE IInv
  OBVIOUS
<1> USE DEF Init
<1>1. TypeOK
  <2>1. /\ currServo \in 0 .. MAX_NUM_SERVOS
        /\ tcnt1 \in 0 .. Timer1Period - 1
    BY GatewayAssumption
  <2>2. idMap \in IdMaps
    BY GatewayAssumption
  <2>3. currPos \in [Servos -> {"position", "status"}]
    OBVIOUS
  <2>4. \A S : <<>> \in Seq(S)
    OBVIOUS
  <2>5. /\ hostRx \in Seq(Requests) /\ busRx \in Seq(Chunks(Answers)) /\ coming \in Seq(Answers)
        /\ toHost \in Seq({"NO_ERROR", "INVALID_MODE"})
    BY <2>4
  <2> QED
    BY <2>1, <2>2, <2>3, <2>5 DEF TypeOK
<1>2. Bus
  BY DEF Bus
<1>3. Handshake
  BY GatewayAssumption DEF Handshake
<1> QED
  BY <1>1, <1>2, <1>3 DEF IInv

-----------------------------------------------------------------------------
(* The host *)

LEMMA SendKeeps ==
  ASSUME IInv, NEW p \in Requests, Send(p)
  PROVE  IInv'
<1>1. /\ hostRx' \in {<<p>>, <<>>}
      /\ call = Nothing /\ call' = Awaited(p) /\ hostRx = <<>>
      /\ confirmed' = IF p.type = "mode" THEN Nothing ELSE confirmed
      /\ UNCHANGED <<mode, state, currServo, idMap, currPos, pc, busPacketIn, busRx,
                     tcnt1, busTimeout, toHost, coming, manual, refused, overlooked>>
  BY DEF Send, table, timers, history
<1>2. Awaited(p) \in Modes \cup {"table", Nothing} /\ (Awaited(p) \in Modes => p.type = "mode")
  BY GatewayAssumption DEF Requests, Awaited
<1>3. hostRx' \in Seq(Requests)
  <2>1. \A S : \A e \in S : <<e>> \in Seq(S) /\ <<>> \in Seq(S)
    OBVIOUS
  <2> QED
    BY <1>1, <2>1
<1>4. TypeOK'
  BY <1>1, <1>2, <1>3 DEF IInv, TypeOK
<1>5. Bus'
  BY <1>1 DEF IInv, Bus, Asked, Awaits
<1>6. Handshake'
  BY <1>1, <1>2 DEF IInv, Handshake
<1> QED
  BY <1>4, <1>5, <1>6 DEF IInv

LEMMA ReceivePacketKeeps ==
  ASSUME IInv, ReceivePacket
  PROVE  IInv'
<1>1. /\ toHost # <<>> /\ toHost' = Tail(toHost)
      /\ call # Nothing /\ call' = Nothing
      /\ confirmed' = IF call \in Modes /\ Head(toHost) = "NO_ERROR" THEN call ELSE confirmed
      /\ UNCHANGED <<mode, state, currServo, idMap, currPos, pc, busPacketIn, hostRx, busRx,
                     tcnt1, busTimeout, coming, manual, refused, overlooked>>
  BY DEF ReceivePacket, table, timers, receivers, history
<1>2. toHost' \in Seq({"NO_ERROR", "INVALID_MODE"})
  BY <1>1, TailOfOne DEF IInv, TypeOK
<1>3. TypeOK'
  BY <1>1, <1>2 DEF IInv, TypeOK
<1>4. Bus'
  BY <1>1 DEF IInv, Bus, Asked, Awaits
<1>5. Handshake'
  <2> SUFFICES ASSUME ~refused
               PROVE  /\ toHost' = <<>> /\ hostRx' = <<>>
                      /\ call' \notin Modes
                      /\ confirmed' # Nothing => mode' = confirmed'
    BY <1>1 DEF Handshake
  <2>1. toHost = <<"NO_ERROR">> /\ hostRx = <<>>
    BY <1>1 DEF IInv, Handshake
  <2>2. toHost' = <<>>
    BY <1>1, <2>1
  <2>3. call' \notin Modes
    BY <1>1, GatewayAssumption
  <2>4. confirmed' # Nothing => mode' = confirmed'
    BY <1>1 DEF IInv, Handshake
  <2> QED
    BY <1>1, <2>1, <2>2, <2>3, <2>4
<1> QED
  BY <1>3, <1>4, <1>5 DEF IInv

LEMMA NoResponseKeeps ==
  ASSUME IInv, NoResponse
  PROVE  IInv'
<1>1. /\ call' = Nothing /\ toHost = <<>> /\ hostRx = <<>>
      /\ UNCHANGED <<mode, state, currServo, idMap, currPos, pc, busPacketIn, hostRx, busRx,
                     tcnt1, busTimeout, toHost, coming, confirmed, manual, refused, overlooked>>
  BY DEF NoResponse, table, timers, receivers, history
<1>2. TypeOK'
  BY <1>1 DEF IInv, TypeOK
<1>3. Bus'
  BY <1>1 DEF IInv, Bus, Asked, Awaits
<1>4. Handshake'
  BY <1>1, GatewayAssumption DEF IInv, Handshake
<1> QED
  BY <1>2, <1>3, <1>4 DEF IInv

LEMMA HostCharsKeeps ==
  ASSUME IInv, HostChars
  PROVE  IInv'
<1>1. /\ pc' = "bus"
      /\ UNCHANGED <<state, currServo, currPos, busPacketIn, busRx, tcnt1, call, confirmed,
                     overlooked>>
  BY DEF HostChars, host
<1>2. CASE hostRx = <<>>
  <2>1. UNCHANGED <<mode, idMap, busTimeout, hostRx, toHost, coming, manual, refused>>
    BY <1>2 DEF HostChars
  <2>2. TypeOK'
    BY <1>1, <2>1 DEF IInv, TypeOK
  <2>3. Bus'
    BY <1>1, <2>1 DEF IInv, Bus, Asked, Awaits
  <2>4. Handshake'
    BY <1>1, <2>1 DEF IInv, Handshake
  <2> QED
    BY <2>2, <2>3, <2>4 DEF IInv
<1>3. CASE hostRx # <<>>
  <2> DEFINE p == Head(hostRx)
  <2>1. p \in Requests /\ Tail(hostRx) \in Seq(Requests)
    BY <1>3, TailOfOne DEF IInv, TypeOK
  <2>2. busTimeout' = FALSE /\ hostRx' = Tail(hostRx) /\ ProcessHostPacket(p)
    BY <1>3 DEF HostChars
  <2>3. ~refused => hostRx' = <<>> /\ toHost = <<>> /\ Awaited(p) = call
    <3> SUFFICES ASSUME ~refused PROVE hostRx' = <<>> /\ toHost = <<>> /\ Awaited(p) = call
      OBVIOUS
    <3>1. PICK q \in Requests : hostRx = <<q>> /\ Awaited(q) = call
      BY <1>3 DEF IInv, Handshake
    <3>2. toHost = <<>>
      BY <1>3 DEF IInv, Handshake
    <3>3. p = q
      BY <3>1
    <3>4. hostRx' = <<>>
      BY <2>2, <3>1
    <3> QED
      BY <3>1, <3>2, <3>3, <3>4
  <2> HIDE DEF p
  <2>4. /\ mode' = IF p.type = "mode" THEN p.mode ELSE mode
        /\ manual' = (manual \/ mode' = "manual")
        /\ idMap' = IF p.type = "ids" THEN p.ids ELSE idMap
    BY <2>2 DEF ProcessHostPacket
  <2>5. /\ mode' \in Modes \cup {"read"} /\ idMap' \in IdMaps /\ manual' \in BOOLEAN
    BY <2>1, <2>4 DEF Requests, IInv, TypeOK
  <2>6. CASE p.type = "servo" /\ mode = "manual"
    <3>1. /\ coming' = Append(coming, ServoAnswer(p.id, Nothing, "status", FALSE))
          /\ UNCHANGED <<toHost, refused>>
      BY <2>2, <2>6 DEF ProcessHostPacket
    <3>2. ServoAnswer(p.id, Nothing, "status", FALSE) \in Answers
      <4>1. p.id \in Ids
        BY <2>1, <2>6 DEF Requests
      <4>2. 0 \in 0 .. AnswerTime
        BY GatewayAssumption
      <4> QED
        BY <4>1, <4>2 DEF ServoAnswer, Answers
    <3>3. coming' \in Seq(Answers)
      BY <3>1, <3>2, AppendOne DEF IInv, TypeOK
    <3>4. TypeOK'
      BY <1>1, <2>1, <2>2, <2>5, <3>1, <3>3 DEF IInv, TypeOK
    <3>5. manual'
      BY <2>4, <2>6
    <3>6. Handshake'
      <4>1. call = Nothing \/ refused
        BY <2>3, <2>6 DEF Awaited
      <4> QED
        BY <1>1, <2>3, <2>4, <2>6, <3>1, <4>1, GatewayAssumption DEF IInv, Handshake
    <3> QED
      BY <3>4, <3>5, <3>6 DEF IInv, Bus
  <2>7. CASE ~(p.type = "servo" /\ mode = "manual")
    <3>1. /\ toHost' = Append(toHost, Answer(p))
          /\ refused' = (refused \/ p.type = "servo")
          /\ coming' = coming
      BY <2>2, <2>7 DEF ProcessHostPacket
    <3>2. Answer(p) \in {"NO_ERROR", "INVALID_MODE"} /\ (p.type # "servo" => Answer(p) = "NO_ERROR")
      BY DEF Answer
    <3>3. /\ toHost' \in Seq({"NO_ERROR", "INVALID_MODE"})
          /\ toHost = <<>> => toHost' = <<Answer(p)>>
      BY <3>1, <3>2, AppendOne DEF IInv, TypeOK
    <3>4. TypeOK'
      BY <1>1, <2>1, <2>2, <2>5, <3>1, <3>3 DEF IInv, TypeOK
    <3>5. Bus'
      BY <1>1, <2>2, <2>4, <3>1 DEF IInv, Bus, Asked, Awaits
    <3>6. Handshake'
      <4> SUFFICES ASSUME ~refused'
                   PROVE  /\ toHost' = <<"NO_ERROR">> /\ hostRx' = <<>>
                          /\ call' # Nothing
                          /\ call' \in Modes => confirmed' = Nothing /\ mode' = call'
                          /\ confirmed' # Nothing => mode' = confirmed'
        BY DEF Handshake
      <4>1. ~refused /\ p.type # "servo"
        BY <3>1
      <4>2. toHost' = <<"NO_ERROR">> /\ hostRx' = <<>>
        BY <2>3, <3>2, <3>3, <4>1
      <4>3. call' = Awaited(p) /\ call = Awaited(p)
        BY <1>1, <2>3, <4>1
      <4>4. /\ Awaited(p) # Nothing
            /\ Awaited(p) \in Modes => p.type = "mode" /\ Awaited(p) = p.mode
            /\ p.type = "mode" => Awaited(p) \in Modes
        BY <2>1, <4>1, GatewayAssumption DEF Requests, Awaited
      <4>5. call' \in Modes => confirmed' = Nothing /\ mode' = call'
        BY <1>1, <2>4, <4>1, <4>3, <4>4 DEF IInv, Handshake
      <4>6. confirmed' # Nothing => mode' = confirmed'
        BY <1>1, <2>4, <4>1, <4>3, <4>4 DEF IInv, Handshake
      <4> QED
        BY <4>2, <4>3, <4>4, <4>5, <4>6
    <3> QED
      BY <3>4, <3>5, <3>6 DEF IInv
  <2> QED
    BY <2>6, <2>7
<1> QED
  BY <1>2, <1>3

-----------------------------------------------------------------------------
(* The bus *)

\* The others do not look at the host.
LEMMA HandshakeAlone ==
  ASSUME IInv, UNCHANGED <<mode, hostRx, toHost, call, confirmed, refused>>
  PROVE  Handshake'
BY DEF IInv, Handshake

LEMMA BusCharKeeps ==
  ASSUME IInv, BusChar
  PROVE  IInv'
<1> DEFINE c == Head(busRx)
           packet == busPacketIn
<1>1. /\ pc = "bus" /\ busRx # <<>>
      /\ tcnt1' = 0 /\ busTimeout' = FALSE
      /\ busRx' = Tail(busRx)
      /\ busPacketIn' = PacketWith(packet, c)
      /\ IF Complete(packet, c) THEN ProcessBusPacket(packet)
         ELSE UNCHANGED <<state, currServo, currPos, pc>>
      /\ UNCHANGED <<mode, idMap, hostRx, toHost, coming, call, confirmed, manual, refused>>
  BY DEF BusChar, BusTimer1, host
<1>2. overlooked' \in BOOLEAN
  <2>1. overlooked' = (overlooked \/ Overlooks(c))
    BY DEF BusChar
  <2> QED
    BY <2>1 DEF Overlooks
<1>3. /\ c \in Chunks(Answers) /\ c = busRx[1] /\ 1 \in DOMAIN busRx
      /\ Tail(busRx) \in Seq(Chunks(Answers))
      /\ Len(busRx) <= 1 => Tail(busRx) = <<>>
  <2>1. busRx \in Seq(Chunks(Answers))
    BY DEF IInv, TypeOK
  <2>2. 1 \in DOMAIN busRx
    BY <1>1, <2>1
  <2> QED
    BY <1>1, <2>1, <2>2, TailOfOne
<1>4. c.packet \in Answers /\ c.last \in BOOLEAN
  BY <1>3 DEF Chunks
<1> HIDE DEF c
<1>5. Complete(packet, c) => packet = c.packet /\ c.last
  BY DEF Complete
<1>6. TypeOK'
  <2>1. busPacketIn' \in Answers \cup {Nothing}
    BY <1>1, <1>4 DEF PacketWith
  <2>2. 0 \in 0 .. Timer1Period - 1
    BY GatewayAssumption
  <2>3. /\ state' \in {"IDLE", "WAITING", "PAUSE"}
        /\ currServo' \in 0 .. MAX_NUM_SERVOS
        /\ currPos' \in [Servos -> {"position", "status"}]
        /\ pc' \in {"host", "bus", "rest"}
    <3>1. CASE Complete(packet, c)
      <4>1. packet.kind \in {"position", "error", "status"}
        BY <1>4, <1>5, <3>1 DEF Answers
      <4>2. ProcessBusPacket(packet)
        BY <1>1, <3>1
      <4>3. CASE mode = "manual"
        BY <4>2, <4>3, GatewayAssumption DEF ProcessBusPacket, IInv, TypeOK
      <4>4. CASE mode # "manual" /\ IsResponse(packet)
        BY <4>1, <4>2, <4>4 DEF ProcessBusPacket, IsResponse, IInv, TypeOK
      <4>5. CASE mode # "manual" /\ ~IsResponse(packet)
        BY <4>2, <4>5 DEF ProcessBusPacket, IInv, TypeOK
      <4> QED
        BY <4>3, <4>4, <4>5
    <3>2. CASE ~Complete(packet, c)
      BY <1>1, <3>2 DEF IInv, TypeOK
    <3> QED
      BY <3>1, <3>2
  <2> QED
    BY <1>1, <1>2, <1>3, <2>1, <2>2, <2>3 DEF IInv, TypeOK
<1>7. Bus'
  <2> SUFFICES ASSUME ~manual PROVE Bus'
    BY <1>1 DEF Bus
  <2>1. /\ mode # "manual" /\ \A i \in Servos : currPos[i] # "status"
        /\ Asked(c.packet) /\ (c.last => coming = <<>>)
        /\ Len(busRx) <= 1
    BY <1>3 DEF IInv, Bus
  <2>2. busRx' = <<>> /\ state = "WAITING" /\ c.packet.kind \in {"position", "error"}
    BY <1>1, <1>3, <2>1 DEF Asked, Awaits
  <2>3. \A i \in DOMAIN coming : Asked(coming[i]) /\ coming[i].age \in Nat
    <3>1. \A i \in DOMAIN coming : coming[i] \in Answers
      BY DEF IInv, TypeOK
    <3>2. \A i \in DOMAIN coming : coming[i].age \in Nat
      BY <3>1, GatewayAssumption DEF Answers
    <3> QED
      BY <3>2 DEF IInv, Bus
  <2>4. CASE ~Complete(packet, c)
    <3>1. UNCHANGED <<state, currServo, currPos, pc>>
      BY <1>1, <2>4
    <3>2. \A i \in DOMAIN coming' : Asked(coming[i])' /\ tcnt1' <= coming'[i].age
      BY <1>1, <2>3, <3>1 DEF Asked, Awaits
    <3> QED
      BY <1>1, <2>1, <2>2, <3>1, <3>2 DEF IInv, Bus
  <2>5. CASE Complete(packet, c)
    <3>1. coming' = <<>> /\ packet = c.packet /\ busPacketIn' = Nothing
      BY <1>1, <1>5, <2>1, <2>5 DEF PacketWith
    <3>2. ProcessBusPacket(packet)
      BY <1>1, <2>5
    <3>3. \A i \in Servos : currPos'[i] # "status"
      <4>1. CASE IsResponse(packet)
        <5>1. currPos' = [currPos EXCEPT ![currServo] = packet.kind]
          BY <2>1, <3>2, <4>1 DEF ProcessBusPacket
        <5> QED
          BY <2>1, <2>2, <3>1, <5>1 DEF IInv, TypeOK
      <4>2. CASE ~IsResponse(packet)
        BY <2>1, <3>2, <4>2 DEF ProcessBusPacket
      <4> QED
        BY <4>1, <4>2
    <3> QED
      BY <1>1, <2>1, <2>2, <3>1, <3>3 DEF Bus
  <2> QED
    BY <2>4, <2>5
<1>8. Handshake'
  BY <1>1, HandshakeAlone
<1> QED
  BY <1>6, <1>7, <1>8 DEF IInv

\* What the rest of a turn does with what may be asked.
LEMMA ScheduleCases ==
  ASSUME Schedule
  PROVE  \/ /\ mode = "manual" \/ StateThen # "IDLE"
            /\ state' = StateThen /\ UNCHANGED <<currServo, coming>>
         \/ /\ mode # "manual" /\ StateThen = "IDLE"
            /\ currServo' = (currServo + 1) % (MAX_NUM_SERVOS + 1)
            /\ \/ state' \in {"IDLE", "PAUSE"} /\ UNCHANGED coming
               \/ /\ currServo' # MAX_NUM_SERVOS /\ state' = "WAITING"
                  /\ \E kind \in {"position", "error"} :
                       coming' = Append(coming, ServoAnswer(idMap[currServo'], currServo', kind, Clean))
<1>1. CASE mode # "manual" /\ StateThen = "IDLE"
  <2> DEFINE servo == (currServo + 1) % (MAX_NUM_SERVOS + 1)
  <2>1. /\ currServo' = servo
        /\ IF servo = MAX_NUM_SERVOS /\ SYNC_WRITE(mode) THEN SyncWrite
           ELSE IF servo # MAX_NUM_SERVOS /\ FEEDBACK_READ(mode) THEN Query(servo)
           ELSE state' = "IDLE" /\ UNCHANGED coming
    BY <1>1 DEF Schedule
  <2> HIDE DEF servo
  <2>2. CASE servo = MAX_NUM_SERVOS /\ SYNC_WRITE(mode)
    BY <1>1, <2>1, <2>2 DEF SyncWrite, servo
  <2>3. CASE servo # MAX_NUM_SERVOS /\ FEEDBACK_READ(mode)
    BY <1>1, <2>1, <2>3 DEF Query, servo
  <2>4. CASE /\ ~(servo = MAX_NUM_SERVOS /\ SYNC_WRITE(mode))
             /\ ~(servo # MAX_NUM_SERVOS /\ FEEDBACK_READ(mode))
    BY <1>1, <2>1, <2>4 DEF servo
  <2> QED
    BY <2>2, <2>3, <2>4
<1>2. CASE ~(mode # "manual" /\ StateThen = "IDLE")
  BY <1>2 DEF Schedule
<1> QED
  BY <1>1, <1>2

LEMMA RestOfTurnKeeps ==
  ASSUME IInv, RestOfTurn
  PROVE  IInv'
<1>1. /\ pc = "rest" \/ (pc = "bus" /\ busRx = <<>>)
      /\ pc' = "host" /\ Schedule
      /\ busTimeout' = FALSE
      /\ IF busTimeout THEN tcnt1' = 0 /\ busPacketIn' = Nothing
         ELSE UNCHANGED <<tcnt1, busPacketIn>>
      /\ UNCHANGED <<mode, idMap, currPos, hostRx, busRx, toHost, call, confirmed,
                     manual, refused, overlooked>>
  BY DEF RestOfTurn, Timeouts, host, history
<1>2. StateThen \in {"IDLE", "WAITING", "PAUSE"}
  BY DEF StateThen, IInv, TypeOK
<1>3. (currServo + 1) % (MAX_NUM_SERVOS + 1) \in 0 .. MAX_NUM_SERVOS
  <2>1. currServo \in Nat /\ MAX_NUM_SERVOS \in Nat
    BY GatewayAssumption DEF IInv, TypeOK
  <2> QED
    BY <2>1, Z3
<1>4. ASSUME NEW servo \in Servos, NEW kind \in {"position", "error"}
      PROVE  ServoAnswer(idMap[servo], servo, kind, Clean) \in Answers
  <2>1. idMap[servo] \in Ids
    BY GatewayAssumption DEF IInv, TypeOK
  <2>2. 0 \in 0 .. AnswerTime
    BY GatewayAssumption
  <2>3. Clean \in BOOLEAN
    BY DEF Clean
  <2> QED
    BY <2>1, <2>2, <2>3 DEF ServoAnswer, Answers
<1>5. currServo' \in 0 .. MAX_NUM_SERVOS /\ (currServo' # MAX_NUM_SERVOS => currServo' \in Servos)
  <2>1. currServo' \in 0 .. MAX_NUM_SERVOS
    BY <1>1, <1>3, ScheduleCases DEF IInv, TypeOK
  <2> QED
    BY <2>1, GatewayAssumption DEF Servos
<1>6. TypeOK'
  <2>1. state' \in {"IDLE", "WAITING", "PAUSE"}
    BY <1>1, <1>2, ScheduleCases
  <2>2. coming' \in Seq(Answers)
    <3>1. CASE coming' = coming
      BY <3>1 DEF IInv, TypeOK
    <3>2. CASE \E kind \in {"position", "error"} :
                 /\ currServo' # MAX_NUM_SERVOS
                 /\ coming' = Append(coming, ServoAnswer(idMap[currServo'], currServo', kind, Clean))
      BY <3>2, <1>4, <1>5, AppendOne DEF IInv, TypeOK
    <3> QED
      BY <1>1, <3>1, <3>2, ScheduleCases
  <2>3. tcnt1' \in 0 .. Timer1Period - 1 /\ busPacketIn' \in Answers \cup {Nothing}
    BY <1>1, GatewayAssumption DEF IInv, TypeOK
  <2> QED
    BY <1>1, <1>5, <2>1, <2>2, <2>3 DEF IInv, TypeOK
<1>7. Bus'
  <2> SUFFICES ASSUME ~manual PROVE Bus'
    BY <1>1 DEF Bus
  <2>1. /\ mode # "manual" /\ busRx = <<>> /\ busRx' = <<>>
        /\ \A i \in Servos : currPos'[i] # "status"
    BY <1>1 DEF IInv, Bus
  <2>2. CASE StateThen # "IDLE"
    <3>1. UNCHANGED <<state, currServo, coming>> /\ ~busTimeout /\ state # "IDLE"
      BY <1>1, <2>1, <2>2, ScheduleCases DEF StateThen
    <3>2. UNCHANGED <<tcnt1, busPacketIn>>
      BY <1>1, <3>1
    <3> QED
      BY <1>1, <2>1, <3>1, <3>2 DEF IInv, Bus, Asked, Awaits
  <2>3. CASE StateThen = "IDLE"
    <3>1. tcnt1' = 0 /\ busPacketIn' = Nothing /\ coming = <<>>
      <4>1. CASE busTimeout
        BY <1>1, <4>1 DEF IInv, Bus
      <4>2. CASE ~busTimeout
        <5>1. state = "IDLE"
          BY <2>3, <4>2 DEF StateThen
        <5>2. coming = <<>>
          <6>1. coming \in Seq(Answers) /\ \A i \in DOMAIN coming : state = "WAITING"
            BY DEF IInv, TypeOK, Bus, Asked, Awaits
          <6>2. DOMAIN coming = {} 
            BY <5>1, <6>1
          <6> QED
            BY <6>1, <6>2
        <5> QED
          BY <1>1, <4>2, <5>1, <5>2 DEF IInv, Bus
      <4> QED
        BY <4>1, <4>2
    <3>2. CASE coming' = <<>>
      BY <1>1, <2>1, <3>1, <3>2 DEF Bus
    <3>3. ASSUME NEW kind \in {"position", "error"}, state' = "WAITING",
                 currServo' # MAX_NUM_SERVOS,
                 coming' = Append(coming, ServoAnswer(idMap[currServo'], currServo', kind, Clean))
          PROVE  Bus'
      <4> DEFINE a == ServoAnswer(idMap[currServo'], currServo', kind, Clean)
      <4>1. a \in Answers
        BY <1>4, <1>5, <3>3
      <4>2. Clean
        BY <2>1, <3>1 DEF Clean
      <4>3. a.age = 0 /\ a.kind = kind /\ a.servo = currServo' /\ a.clean
        BY <4>2 DEF ServoAnswer
      <4>4. coming' = <<a>>
        BY <3>1, <3>3
      <4> HIDE DEF a
      <4>5. Len(coming') <= 1 /\ \A i \in DOMAIN coming' : coming'[i] = a
        BY <4>4
      <4>6. \A i \in DOMAIN coming' : Asked(coming[i])' /\ tcnt1' <= coming'[i].age
        BY <3>1, <3>3, <4>3, <4>5 DEF Asked, Awaits
      <4> QED
        BY <1>1, <2>1, <3>3, <4>5, <4>6 DEF Bus
    <3> QED
      BY <1>1, <2>1, <2>3, <3>1, <3>2, <3>3, ScheduleCases
  <2> QED
    BY <2>2, <2>3
<1>8. Handshake'
  BY <1>1, HandshakeAlone
<1> QED
  BY <1>6, <1>7, <1>8 DEF IInv

-----------------------------------------------------------------------------
(* Servos and time *)

\* What TypeOK says of the answers on their way.
LEMMA ComingTyped ==
  ASSUME TypeOK, coming # <<>>
  PROVE  /\ coming \in Seq(Answers) /\ 1 \in DOMAIN coming /\ coming[1] \in Answers
         /\ Tail(coming) \in Seq(Answers)
         /\ Len(coming) <= 1 => Tail(coming) = <<>>
<1>1. coming \in Seq(Answers)
  BY DEF TypeOK
<1>2. 1 \in DOMAIN coming /\ coming[1] \in Answers
  BY <1>1
<1> QED
  BY <1>1, <1>2, TailOfOne

LEMMA LoseKeeps ==
  ASSUME IInv, Lose
  PROVE  IInv'
<1>1. /\ coming # <<>> /\ coming' = Tail(coming) /\ pc = "host"
      /\ UNCHANGED <<mode, state, currServo, idMap, currPos, pc, busPacketIn, hostRx, busRx,
                     tcnt1, busTimeout, toHost, call, confirmed, manual, refused, overlooked>>
  BY DEF Lose, table, timers, receivers, host, history
<1>2. Tail(coming) \in Seq(Answers) /\ (Len(coming) <= 1 => Tail(coming) = <<>>)
  BY <1>1, ComingTyped DEF IInv
<1>3. TypeOK'
  BY <1>1, <1>2 DEF IInv, TypeOK
<1>4. Bus'
  <2> SUFFICES ASSUME ~manual PROVE Bus'
    BY <1>1 DEF Bus
  <2>1. coming' = <<>>
    BY <1>1, <1>2 DEF IInv, Bus
  <2> QED
    BY <1>1, <2>1 DEF IInv, Bus, Asked, Awaits
<1>5. Handshake'
  BY <1>1, HandshakeAlone
<1> QED
  BY <1>3, <1>4, <1>5 DEF IInv

LEMMA RespondKeeps ==
  ASSUME IInv, Respond
  PROVE  IInv'
<1> DEFINE a == [coming[1] EXCEPT !.age = 0, !.begun = FALSE]
           b == [coming[1] EXCEPT !.begun = TRUE]
<1>1. /\ coming # <<>> /\ busRx = <<>> /\ pc = "host"
      /\ IF coming[1].begun
         THEN busRx' = Append(busRx, LastChunk(a)) /\ coming' = Tail(coming)
         ELSE busRx' = Append(busRx, FirstChunk(a)) /\ coming' = [coming EXCEPT ![1].begun = TRUE]
      /\ UNCHANGED <<mode, state, currServo, idMap, currPos, pc, busPacketIn, hostRx,
                     tcnt1, busTimeout, toHost, call, confirmed, manual, refused, overlooked>>
  BY DEF Respond, table, timers, host, history
<1>2. /\ coming \in Seq(Answers) /\ 1 \in DOMAIN coming /\ coming[1] \in Answers
      /\ Tail(coming) \in Seq(Answers)
      /\ Len(coming) <= 1 => Tail(coming) = <<>>
  BY <1>1, ComingTyped DEF IInv
<1>3. /\ a \in Answers
      /\ a.kind = coming[1].kind /\ a.servo = coming[1].servo /\ a.clean = coming[1].clean
  <2>1. 0 \in 0 .. AnswerTime
    BY GatewayAssumption
  <2>2. \A x \in Answers : \A t \in 0 .. AnswerTime :
          /\ [x EXCEPT !.age = t] \in Answers
          /\ [x EXCEPT !.begun = FALSE] \in Answers
    BY DEF Answers
  <2>3. a \in Answers
    BY <1>2, <2>1, <2>2
  <2> QED
    BY <1>2, <2>3 DEF Answers
<1>4. /\ b \in Answers
      /\ b.kind = coming[1].kind /\ b.servo = coming[1].servo /\ b.clean = coming[1].clean
      /\ b.age = coming[1].age
  BY <1>2 DEF Answers
<1>5. ~coming[1].begun => coming' = [coming EXCEPT ![1] = b]
  BY <1>1
<1> HIDE DEF a, b
<1>6. LastChunk(a) \in Chunks(Answers) /\ FirstChunk(a) \in Chunks(Answers)
  BY <1>3 DEF LastChunk, FirstChunk, Chunks
<1>7. \E c \in Chunks(Answers) :
        /\ busRx' = <<c>> /\ busRx' \in Seq(Chunks(Answers))
        /\ c.packet = a
        /\ \/ c.last /\ coming' = Tail(coming)
           \/ ~c.last /\ coming' = [coming EXCEPT ![1] = b]
  <2>1. \A c \in Chunks(Answers) : <<c>> \in Seq(Chunks(Answers)) /\ Append(<<>>, c) = <<c>>
    OBVIOUS
  <2>2. CASE coming[1].begun
    <3>1. busRx' = <<LastChunk(a)>> /\ coming' = Tail(coming)
      BY <1>1, <2>2
    <3>2. LastChunk(a).packet = a /\ LastChunk(a).last
      BY DEF LastChunk
    <3> QED
      BY <1>6, <2>1, <3>1, <3>2
  <2>3. CASE ~coming[1].begun
    <3>1. busRx' = <<FirstChunk(a)>> /\ coming' = [coming EXCEPT ![1] = b]
      BY <1>1, <1>5, <2>3
    <3>2. FirstChunk(a).packet = a /\ ~FirstChunk(a).last
      BY DEF FirstChunk
    <3> QED
      BY <1>6, <2>1, <3>1, <3>2
  <2> QED
    BY <2>2, <2>3
<1>8. PICK c \in Chunks(Answers) :
        /\ busRx' = <<c>> /\ busRx' \in Seq(Chunks(Answers))
        /\ c.packet = a
        /\ \/ c.last /\ coming' = Tail(coming)
           \/ ~c.last /\ coming' = [coming EXCEPT ![1] = b]
  BY <1>7
<1>9. TypeOK'
  <2>1. coming' \in Seq(Answers)
    BY <1>2, <1>4, <1>8
  <2> QED
    BY <1>1, <1>8, <2>1 DEF IInv, TypeOK
<1>10. Bus'
  <2> SUFFICES ASSUME ~manual PROVE Bus'
    BY <1>1 DEF Bus
  <2>1. /\ mode # "manual" /\ Len(coming) <= 1 /\ ~busTimeout
        /\ Asked(coming[1]) /\ tcnt1 <= coming[1].age
        /\ \A i \in Servos : currPos[i] # "status"
        /\ state = "WAITING"
    BY <1>1, <1>2 DEF IInv, Bus, Asked, Awaits
  <2>2. Asked(a) /\ Asked(b) /\ tcnt1' <= b.age
    BY <1>1, <1>3, <1>4, <2>1 DEF Asked, Awaits
  <2>3. coming' = <<>> \/ (~c.last /\ Len(coming') <= 1 /\ \A i \in DOMAIN coming' : coming'[i] = b)
    <3>1. CASE c.last
      BY <1>2, <1>8, <2>1, <3>1
    <3>2. CASE ~c.last
      <4>1. coming' = [coming EXCEPT ![1] = b]
        BY <1>8, <3>2
      <4>2. DOMAIN coming = 1 .. Len(coming) /\ Len(coming) \in Nat
        BY <1>2
      <4>3. \A i \in DOMAIN coming : i = 1
        BY <2>1, <4>2
      <4>4. coming' \in Seq(Answers) /\ Len(coming') = Len(coming)
        BY <1>2, <1>4, <4>1
      <4>5. \A i \in DOMAIN coming' : coming'[i] = b
        BY <4>1, <4>3
      <4> QED
        BY <2>1, <3>2, <4>4, <4>5
    <3> QED
      BY <3>1, <3>2
  <2>4. Len(busRx') <= 1 /\ \A i \in DOMAIN busRx' : busRx'[i] = c
    BY <1>8
  <2>5. \A i \in DOMAIN busRx' : Asked(busRx[i].packet)' /\ (busRx'[i].last => coming' = <<>>)
    BY <1>1, <1>8, <2>2, <2>3, <2>4 DEF Asked, Awaits
  <2>6. Len(coming') <= 1 /\ \A i \in DOMAIN coming' : Asked(coming[i])' /\ tcnt1' <= coming'[i].age
    BY <1>1, <2>2, <2>3 DEF Asked, Awaits
  <2> QED
    BY <1>1, <2>1, <2>4, <2>5, <2>6 DEF Bus
<1>11. Handshake'
  BY <1>1, HandshakeAlone
<1> QED
  BY <1>9, <1>10, <1>11 DEF IInv

LEMMA TickKeeps ==
  ASSUME IInv, Tick
  PROVE  IInv'
<1>1. /\ pc = "host" /\ ~Busy
      /\ tcnt1' = (tcnt1 + 1) % Timer1Period
      /\ busTimeout' = (tcnt1' = 0)
      /\ coming' = [i \in DOMAIN coming |-> [coming[i] EXCEPT !.age = @ + 1]]
      /\ UNCHANGED <<mode, state, currServo, idMap, currPos, pc, busPacketIn, hostRx, busRx,
                     toHost, call, confirmed, manual, refused, overlooked>>
  BY DEF Tick, table, receivers, host, history
<1>2. /\ busRx = <<>> /\ (mode = "manual" \/ state # "IDLE")
      /\ \A i \in DOMAIN coming : coming[i].age # AnswerTime
  BY <1>1 DEF Busy
<1>3. coming \in Seq(Answers) /\ \A i \in DOMAIN coming : coming[i] \in Answers
  BY DEF IInv, TypeOK
<1>4. tcnt1 \in Nat /\ tcnt1 < Timer1Period /\ Timer1Period \in Nat \ {0} /\ AnswerTime \in Nat
      /\ AnswerTime < Timer1Period
  BY GatewayAssumption DEF IInv, TypeOK
<1>5. \A i \in DOMAIN coming :
        /\ coming'[i] \in Answers /\ coming'[i].age = coming[i].age + 1
        /\ coming'[i].kind = coming[i].kind /\ coming'[i].servo = coming[i].servo
        /\ coming'[i].clean = coming[i].clean
  <2> TAKE i \in DOMAIN coming
  <2>1. coming'[i] = [coming[i] EXCEPT !.age = coming[i].age + 1]
    BY <1>1
  <2>2. coming[i] \in Answers /\ coming[i].age \in 0 .. AnswerTime
    BY <1>3 DEF Answers
  <2>3. coming[i].age + 1 \in 0 .. AnswerTime
    BY <1>2, <1>4, <2>2
  <2>4. \A x \in Answers : \A t \in 0 .. AnswerTime :
          LET y == [x EXCEPT !.age = t]
          IN  y \in Answers /\ y.age = t /\ y.kind = x.kind /\ y.servo = x.servo /\ y.clean = x.clean
    BY DEF Answers
  <2> QED
    BY <2>1, <2>2, <2>3, <2>4
<1>6. DOMAIN coming' = DOMAIN coming /\ coming' \in Seq(Answers) /\ Len(coming') = Len(coming)
  <2>1. DOMAIN coming = 1 .. Len(coming) /\ Len(coming) \in Nat
    BY <1>3
  <2>2. coming' \in [1 .. Len(coming) -> Answers]
    BY <1>1, <1>5, <2>1
  <2> QED
    BY <2>1, <2>2
<1>7. TypeOK'
  <2>1. tcnt1' \in 0 .. Timer1Period - 1
    BY <1>1, <1>4, Z3
  <2> QED
    BY <1>1, <1>6, <2>1 DEF IInv, TypeOK
<1>8. Bus'
  <2> SUFFICES ASSUME ~manual PROVE Bus'
    BY <1>1 DEF Bus
  <2>1. \A i \in DOMAIN coming :
          Asked(coming[i]) /\ tcnt1 <= coming[i].age /\ coming[i].age \in 0 .. AnswerTime
    BY <1>3 DEF IInv, Bus, Answers
  <2>2. DOMAIN coming # {} => tcnt1' = tcnt1 + 1
    <3>1. ASSUME NEW i \in DOMAIN coming PROVE tcnt1' = tcnt1 + 1
      <4>1. tcnt1 + 1 < Timer1Period
        BY <1>2, <1>4, <2>1
      <4>2. (tcnt1 + 1) % Timer1Period = tcnt1 + 1
        BY <1>4, <4>1, Z3
      <4> QED
        BY <1>1, <4>2
    <3> QED
      BY <3>1
  <2>3. \A i \in DOMAIN coming' : Asked(coming[i])' /\ tcnt1' <= coming'[i].age
    <3> TAKE i \in DOMAIN coming'
    <3>1. i \in DOMAIN coming /\ tcnt1' = tcnt1 + 1
      BY <1>6, <2>2
    <3> QED
      BY <1>1, <1>4, <1>5, <2>1, <3>1 DEF Asked, Awaits
  <2>4. coming' # <<>> => ~busTimeout'
    <3>1. coming' # <<>> => DOMAIN coming # {}
      BY <1>6
    <3>2. tcnt1 + 1 # 0
      BY <1>4
    <3> QED
      BY <1>1, <2>2, <3>1, <3>2
  <2> QED
    BY <1>1, <1>2, <1>6, <2>3, <2>4 DEF IInv, Bus
<1>9. Handshake'
  BY <1>1, HandshakeAlone
<1> QED
  BY <1>7, <1>8, <1>9 DEF IInv

-----------------------------------------------------------------------------
(* Answers that are kept *)

\* What a servo sends when it answers a.
Sent(a) == [a EXCEPT !.age = 0, !.begun = FALSE]

\* A clean answer a is awaited, timer 1 will not overflow before it is there, and
\* what has been received is its beginning and nothing else.
Due(a) ==
  /\ Awaits(a) /\ tcnt1 <= a.age /\ ~busTimeout /\ pc # "rest"
  /\ IF a.begun
     THEN \/ busRx = <<FirstChunk(Sent(a))>> /\ busPacketIn = Nothing
          \/ busRx = <<>> /\ busPacketIn = Sent(a)
     ELSE busRx = <<>> /\ busPacketIn = Nothing

\* What completes a clean answer is awaited, and finds the rest of it received.
Arrives(chunk) == Awaits(chunk.packet) /\ busPacketIn = chunk.packet

(***************************************************************************)
(* Why no clean answer is overlooked, in manual mode or after it.  It is   *)
(* the first on its way, as nothing else was when it was asked for; so     *)
(* until it is there the loop receives no other packet, and timer 1 is not *)
(* ahead of its age.                                                       *)
(***************************************************************************)
CleanAnswers ==
  /\ ~overlooked
  /\ Len(busRx) <= 1
  /\ pc = "rest" => busRx = <<>>
  /\ \A i \in DOMAIN coming : coming[i].clean => i = 1 /\ Due(coming[i])
  /\ \A i \in DOMAIN busRx :
       busRx[i].last /\ busRx[i].packet.clean => Arrives(busRx[i])

\* What is on the bus does not look at the host.
LEMMA CleanAnswersAlone ==
  ASSUME CleanAnswers, pc = "host",
         UNCHANGED <<state, currServo, pc, busPacketIn, busRx, tcnt1, busTimeout, coming, overlooked>>
  PROVE  CleanAnswers'
<1>1. \A i \in DOMAIN coming : Due(coming[i]) => Due(coming[i])'
  BY DEF Due, Awaits
<1>2. \A i \in DOMAIN busRx : Arrives(busRx[i]) => Arrives(busRx[i])'
  BY DEF Arrives, Awaits
<1> QED
  BY <1>1, <1>2 DEF CleanAnswers

LEMMA HostCharsKeepsAnswers ==
  ASSUME IInv, CleanAnswers, HostChars
  PROVE  CleanAnswers'
<1>1. /\ pc = "host" /\ pc' = "bus" /\ busTimeout' \in {busTimeout, FALSE}
      /\ UNCHANGED <<state, currServo, busPacketIn, busRx, tcnt1, overlooked>>
  BY DEF HostChars
<1>2. coming \in Seq(Answers)
  BY DEF IInv, TypeOK
<1>3. \/ coming' = coming
      \/ coming' = Append(coming, ServoAnswer(Head(hostRx).id, Nothing, "status", FALSE))
  BY DEF HostChars, ProcessHostPacket
<1>4. \A i \in DOMAIN coming' :
        coming'[i].clean => i \in DOMAIN coming /\ coming'[i] = coming[i]
  <2>1. CASE coming' = coming
    BY <2>1
  <2>2. CASE coming' = Append(coming, ServoAnswer(Head(hostRx).id, Nothing, "status", FALSE))
    <3> DEFINE a == ServoAnswer(Head(hostRx).id, Nothing, "status", FALSE)
    <3>1. ~a.clean
      BY DEF ServoAnswer
    <3>2. coming' = Append(coming, a)
      BY <2>2
    <3> HIDE DEF a
    <3>3. \A i \in DOMAIN coming' :
            \/ i \in DOMAIN coming /\ coming'[i] = coming[i]
            \/ coming'[i] = a
      BY <1>2, <3>2
    <3> QED
      BY <3>1, <3>3
  <2> QED
    BY <1>3, <2>1, <2>2
<1>5. \A i \in DOMAIN coming' : coming'[i].clean => i = 1 /\ Due(coming[i])'
  BY <1>1, <1>4 DEF CleanAnswers, Due, Awaits
<1>6. \A i \in DOMAIN busRx' : busRx'[i].last /\ busRx'[i].packet.clean => Arrives(busRx[i])'
  BY <1>1 DEF CleanAnswers, Arrives, Awaits
<1> QED
  BY <1>1, <1>5, <1>6 DEF CleanAnswers

LEMMA BusCharKeepsAnswers ==
  ASSUME IInv, CleanAnswers, BusChar
  PROVE  CleanAnswers'
<1> DEFINE c == Head(busRx)
           packet == busPacketIn
<1>1. /\ pc = "bus" /\ busRx # <<>>
      /\ tcnt1' = 0 /\ busTimeout' = FALSE
      /\ busRx' = Tail(busRx)
      /\ busPacketIn' = PacketWith(packet, c)
      /\ IF Complete(packet, c) THEN ProcessBusPacket(packet)
         ELSE UNCHANGED <<state, currServo, currPos, pc>>
      /\ overlooked' = (overlooked \/ Overlooks(c))
      /\ UNCHANGED <<idMap, coming>>
  BY DEF BusChar, BusTimer1
<1>2. busRx' = <<>> /\ 1 \in DOMAIN busRx /\ c = busRx[1] /\ c \in Chunks(Answers)
  <2>1. busRx \in Seq(Chunks(Answers))
    BY DEF IInv, TypeOK
  <2>2. 1 \in DOMAIN busRx
    BY <1>1, <2>1
  <2> QED
    BY <1>1, <2>1, <2>2, TailOfOne DEF CleanAnswers
<1> HIDE DEF c
<1>3. ~Overlooks(c)
  <2> SUFFICES ASSUME c.last, Valid(c.packet)
               PROVE  Complete(packet, c) /\ IsResponse(c.packet) /\ c.packet.servo = currServo
    BY DEF Overlooks
  <2>1. Arrives(c)
    BY <1>2 DEF CleanAnswers, Valid
  <2> QED
    BY <2>1 DEF Arrives, Awaits, Complete, IsResponse, Valid
<1>4. ASSUME NEW i \in DOMAIN coming, coming[i].clean
      PROVE  i = 1 /\ Due(coming[i])'
  <2> DEFINE a == coming[i]
  <2>1. i = 1 /\ Due(a)
    BY <1>4 DEF CleanAnswers
  <2>2. a.begun /\ busRx = <<FirstChunk(Sent(a))>> /\ packet = Nothing
    BY <1>1, <2>1 DEF Due
  <2>3. c = FirstChunk(Sent(a))
    BY <1>2, <2>2
  <2>4. ~c.last /\ c.packet = Sent(a)
    BY <2>3 DEF FirstChunk
  <2>5. ~Complete(packet, c) /\ busPacketIn' = Sent(a)
    BY <1>1, <2>2, <2>4 DEF Complete, PacketWith
  <2>6. UNCHANGED <<state, currServo, pc>>
    BY <1>1, <2>5
  <2>7. a.age \in Nat
    <3>1. a \in Answers
      BY DEF IInv, TypeOK
    <3> QED
      BY <3>1, GatewayAssumption DEF Answers
  <2>8. Awaits(a)' /\ tcnt1' <= a.age /\ ~busTimeout' /\ pc' # "rest"
    BY <1>1, <2>1, <2>6, <2>7 DEF Due, Awaits
  <2>9. coming' = coming
    BY <1>1
  <2>10. busRx' = <<>> /\ busPacketIn' = Sent(coming'[i]) /\ coming'[i].begun
    BY <1>2, <2>2, <2>5, <2>9
  <2>11. Awaits(coming[i])' /\ tcnt1' <= coming'[i].age
    BY <2>8, <2>9 DEF Awaits
  <2> QED
    BY <2>1, <2>8, <2>10, <2>11 DEF Due, Sent
<1>5. ~overlooked'
  BY <1>1, <1>3 DEF CleanAnswers
<1>6. Len(busRx') <= 1 /\ DOMAIN busRx' = {}
  BY <1>2
<1>7. coming' = coming
  BY <1>1
<1> QED
  BY <1>2, <1>4, <1>5, <1>6, <1>7 DEF CleanAnswers

LEMMA RestOfTurnKeepsAnswers ==
  ASSUME IInv, CleanAnswers, RestOfTurn
  PROVE  CleanAnswers'
<1>1. /\ pc' = "host" /\ Schedule
      /\ busTimeout' = FALSE
      /\ IF busTimeout THEN tcnt1' = 0 /\ busPacketIn' = Nothing
         ELSE UNCHANGED <<tcnt1, busPacketIn>>
      /\ busRx = <<>> /\ UNCHANGED <<busRx, overlooked>>
  BY DEF RestOfTurn, Timeouts, CleanAnswers, history
<1>2. ASSUME NEW i \in DOMAIN coming, coming[i].clean
      PROVE  /\ i = 1 /\ Due(coming[i])
             /\ StateThen = "WAITING" /\ UNCHANGED <<tcnt1, busPacketIn>>
  BY <1>1, <1>2 DEF CleanAnswers, Due, Awaits, StateThen
<1>3. CASE state' = StateThen /\ UNCHANGED <<currServo, coming>>
  <2>1. ASSUME NEW i \in DOMAIN coming', coming'[i].clean
        PROVE  i = 1 /\ Due(coming[i])'
    <3>1. i \in DOMAIN coming /\ coming[i].clean /\ coming'[i] = coming[i]
      BY <1>3, <2>1
    <3>2. /\ i = 1 /\ Due(coming[i]) /\ ~busTimeout'
          /\ UNCHANGED <<state, currServo, busRx, tcnt1, busPacketIn>>
      BY <1>1, <1>2, <1>3, <3>1 DEF Due, Awaits
    <3> QED
      BY <1>1, <3>1, <3>2 DEF Due, Awaits
  <2>2. DOMAIN busRx' = {} /\ Len(busRx') <= 1
    BY <1>1
  <2> QED
    BY <1>1, <2>1, <2>2 DEF CleanAnswers
<1>4. CASE StateThen = "IDLE" /\ UNCHANGED coming
  <2>1. \A i \in DOMAIN coming' : ~coming'[i].clean
    BY <1>2, <1>4
  <2>2. DOMAIN busRx' = {} /\ Len(busRx') <= 1
    BY <1>1
  <2> QED
    BY <1>1, <2>1, <2>2 DEF CleanAnswers
<1>5. ASSUME StateThen = "IDLE", state' = "WAITING", NEW kind \in {"position", "error"},
             coming' = Append(coming, ServoAnswer(idMap[currServo'], currServo', kind, Clean))
      PROVE  CleanAnswers'
  <2> DEFINE a == ServoAnswer(idMap[currServo'], currServo', kind, Clean)
  <2>1. a.clean = Clean /\ a.servo = currServo' /\ a.age = 0 /\ ~a.begun
    BY DEF ServoAnswer
  <2>2. coming' = Append(coming, a) /\ coming \in Seq(Answers)
    BY <1>5 DEF IInv, TypeOK
  <2> HIDE DEF a
  <2>3. \A i \in DOMAIN coming : ~coming[i].clean
    BY <1>2, <1>5
  <2>4. \A i \in DOMAIN coming' :
          \/ i \in DOMAIN coming /\ coming'[i] = coming[i]
          \/ i = Len(coming) + 1 /\ coming'[i] = a
    BY <2>2
  <2>5. ASSUME NEW i \in DOMAIN coming', coming'[i].clean
        PROVE  i = 1 /\ Due(coming[i])'
    <3>1. i = Len(coming) + 1 /\ coming'[i] = a /\ a.clean
      BY <2>3, <2>4, <2>5
    <3>2. coming = <<>> /\ busPacketIn' = Nothing /\ tcnt1' = 0
      BY <2>1, <3>1 DEF Clean
    <3>3. i = 1
      BY <3>1, <3>2
    <3> QED
      BY <1>1, <1>5, <2>1, <3>1, <3>2, <3>3 DEF Due, Awaits
  <2>6. DOMAIN busRx' = {} /\ Len(busRx') <= 1
    BY <1>1
  <2> QED
    BY <1>1, <2>5, <2>6 DEF CleanAnswers
<1> QED
  BY <1>1, <1>3, <1>4, <1>5, ScheduleCases

\* Without its first element, coming has no clean answer.
LEMMA TailNotClean ==
  ASSUME IInv, CleanAnswers, coming # <<>>
  PROVE  \A i \in DOMAIN Tail(coming) : ~Tail(coming)[i].clean
<1>1. coming \in Seq(Answers)
  BY DEF IInv, TypeOK
<1>2. \A i \in DOMAIN Tail(coming) :
        i + 1 \in DOMAIN coming /\ i + 1 # 1 /\ Tail(coming)[i] = coming[i + 1]
  BY <1>1
<1> QED
  BY <1>2 DEF CleanAnswers

LEMMA LoseKeepsAnswers ==
  ASSUME IInv, CleanAnswers, Lose
  PROVE  CleanAnswers'
<1>1. /\ coming # <<>> /\ coming' = Tail(coming) /\ pc = "host"
      /\ UNCHANGED <<state, currServo, pc, busPacketIn, busRx, tcnt1, busTimeout, overlooked>>
  BY DEF Lose, table, timers, receivers, history
<1>2. \A i \in DOMAIN coming' : ~coming'[i].clean
  BY <1>1, TailNotClean
<1>3. \A i \in DOMAIN busRx : Arrives(busRx[i]) => Arrives(busRx[i])'
  BY <1>1 DEF Arrives, Awaits
<1> QED
  BY <1>1, <1>2, <1>3 DEF CleanAnswers

LEMMA RespondKeepsAnswers ==
  ASSUME IInv, CleanAnswers, Respond
  PROVE  CleanAnswers'
<1> DEFINE a == coming[1]
           b == [a EXCEPT !.begun = TRUE]
<1>1. /\ coming # <<>> /\ busRx = <<>> /\ pc = "host"
      /\ IF a.begun
         THEN busRx' = Append(busRx, LastChunk(Sent(a))) /\ coming' = Tail(coming)
         ELSE busRx' = Append(busRx, FirstChunk(Sent(a))) /\ coming' = [coming EXCEPT ![1] = b]
      /\ UNCHANGED <<state, currServo, pc, busPacketIn, tcnt1, busTimeout, overlooked>>
  BY DEF Respond, Sent, table, timers, history
<1>2. coming \in Seq(Answers) /\ 1 \in DOMAIN coming /\ a \in Answers
  BY <1>1, ComingTyped DEF IInv
<1>3. /\ Sent(a).servo = a.servo /\ Sent(a).clean = a.clean
      /\ b.servo = a.servo /\ b.clean = a.clean /\ b.age = a.age /\ b.begun
      /\ Sent(b) = Sent(a)
  BY <1>2 DEF Sent, Answers
<1>4. a.clean => Due(a)
  BY <1>2 DEF CleanAnswers
<1> HIDE DEF a, b
<1>5. CASE a.begun
  <2>1. busRx' = <<LastChunk(Sent(a))>> /\ coming' = Tail(coming)
    BY <1>1, <1>5
  <2>2. \A i \in DOMAIN coming' : ~coming'[i].clean
    BY <1>1, <2>1, TailNotClean
  <2>3. Len(busRx') <= 1 /\ \A i \in DOMAIN busRx' : busRx'[i] = LastChunk(Sent(a))
    BY <2>1
  <2>4. a.clean => Awaits(a) /\ busPacketIn = Sent(a)
    BY <1>1, <1>4, <1>5 DEF Due
  <2>5. \A i \in DOMAIN busRx' : busRx'[i].packet.clean => Arrives(busRx[i])'
    BY <1>1, <1>3, <2>3, <2>4 DEF LastChunk, Arrives, Awaits
  <2> QED
    BY <1>1, <2>2, <2>3, <2>5 DEF CleanAnswers
<1>6. CASE ~a.begun
  <2>1. busRx' = <<FirstChunk(Sent(a))>> /\ coming' = [coming EXCEPT ![1] = b]
    BY <1>1, <1>6
  <2>2. Len(busRx') <= 1 /\ \A i \in DOMAIN busRx' : ~busRx'[i].last
    BY <2>1 DEF FirstChunk
  <2>3. ASSUME NEW i \in DOMAIN coming', coming'[i].clean
        PROVE  i = 1 /\ Due(coming[i])'
    <3>1. i = 1 /\ coming'[i] = b
      BY <1>2, <2>1, <2>3 DEF CleanAnswers
    <3>2. Due(a)
      BY <1>3, <1>4, <2>3, <3>1
    <3>3. busRx' = <<FirstChunk(Sent(coming'[i]))>> /\ busPacketIn' = Nothing
      BY <1>1, <1>3, <1>6, <2>1, <3>1, <3>2 DEF Due
    <3>4. Awaits(coming[i])' /\ tcnt1' <= coming'[i].age /\ ~busTimeout' /\ pc' # "rest"
      BY <1>1, <1>3, <3>1, <3>2 DEF Due, Awaits
    <3>5. coming'[i].begun
      BY <1>3, <3>1
    <3> QED
      BY <3>1, <3>3, <3>4, <3>5 DEF Due, FirstChunk, Sent
  <2> QED
    BY <1>1, <2>2, <2>3 DEF CleanAnswers
<1> QED
  BY <1>5, <1>6

LEMMA TickKeepsAnswers ==
  ASSUME IInv, CleanAnswers, Tick
  PROVE  CleanAnswers'
<1>1. /\ pc = "host" /\ busRx = <<>>
      /\ \A i \in DOMAIN coming : coming[i].age # AnswerTime
      /\ tcnt1' = (tcnt1 + 1) % Timer1Period
      /\ busTimeout' = (tcnt1' = 0)
      /\ coming' = [i \in DOMAIN coming |-> [coming[i] EXCEPT !.age = @ + 1]]
      /\ UNCHANGED <<state, currServo, pc, busPacketIn, busRx, overlooked>>
  BY DEF Tick, Busy, table, receivers, history
<1>2. ASSUME NEW i \in DOMAIN coming', coming'[i].clean
      PROVE  i = 1 /\ Due(coming[i])'
  <2> DEFINE a == coming[i]
             b == [a EXCEPT !.age = @ + 1]
  <2>1. i \in DOMAIN coming /\ coming'[i] = b
    BY <1>1
  <2>2. a \in Answers
    BY <2>1 DEF IInv, TypeOK
  <2>3. /\ b.age = a.age + 1 /\ b.servo = a.servo /\ b.clean = a.clean /\ b.begun = a.begun
        /\ Sent(b) = Sent(a)
    BY <2>2 DEF Answers, Sent
  <2>4. i = 1 /\ Due(a)
    BY <1>2, <2>1, <2>3 DEF CleanAnswers
  <2>5. tcnt1' = tcnt1 + 1 /\ tcnt1' # 0 /\ tcnt1' <= b.age
    <3>1. /\ a.age \in 0 .. AnswerTime /\ a.age # AnswerTime
          /\ tcnt1 \in Nat /\ tcnt1 <= a.age
          /\ AnswerTime \in Nat /\ Timer1Period \in Nat /\ AnswerTime < Timer1Period
      BY <1>1, <2>1, <2>2, <2>4, GatewayAssumption DEF Due, Answers, IInv, TypeOK
    <3> HIDE DEF a, b
    <3>2. tcnt1 + 1 < Timer1Period
      BY <3>1
    <3>3. (tcnt1 + 1) % Timer1Period = tcnt1 + 1
      BY <3>1, <3>2, Z3
    <3> QED
      BY <1>1, <2>3, <3>1, <3>3
  <2> HIDE DEF a, b
  <2>6. Awaits(coming[i])' /\ tcnt1' <= coming'[i].age /\ ~busTimeout' /\ pc' # "rest"
    BY <1>1, <2>1, <2>3, <2>4, <2>5 DEF Due, Awaits
  <2>7. /\ coming'[i].begun => busRx' = <<>> /\ busPacketIn' = Sent(coming'[i])
        /\ ~coming'[i].begun => busRx' = <<>> /\ busPacketIn' = Nothing
    BY <1>1, <2>1, <2>3, <2>4 DEF Due
  <2> QED
    BY <2>4, <2>6, <2>7 DEF Due, Sent
<1>3. DOMAIN busRx' = {} /\ Len(busRx') <= 1
  BY <1>1
<1> QED
  BY <1>1, <1>2, <1>3 DEF CleanAnswers

LEMMA StepKeepsAnswers ==
  ASSUME IInv, CleanAnswers, [Next]_vars
  PROVE  CleanAnswers'
<1>1. ASSUME NEW p \in Requests, Send(p)
      PROVE  CleanAnswers'
  BY <1>1, CleanAnswersAlone DEF Send, table, timers, history
<1>2. CASE ReceivePacket
  BY <1>2, CleanAnswersAlone DEF ReceivePacket, table, timers, receivers, history
<1>3. CASE NoResponse
  BY <1>3, CleanAnswersAlone DEF NoResponse, table, timers, receivers, history
<1>4. CASE Loop
  BY <1>4, HostCharsKeepsAnswers, BusCharKeepsAnswers, RestOfTurnKeepsAnswers DEF Loop
<1>5. CASE UNCHANGED vars
  <2>1. UNCHANGED <<state, currServo, pc, busPacketIn, busRx, tcnt1, busTimeout, coming, overlooked>>
    BY <1>5 DEF vars, table, timers, receivers, history
  <2>2. \A i \in DOMAIN coming : Due(coming[i]) => Due(coming[i])'
    BY <2>1 DEF Due, Awaits
  <2>3. \A i \in DOMAIN busRx : Arrives(busRx[i]) => Arrives(busRx[i])'
    BY <2>1 DEF Arrives, Awaits
  <2> QED
    BY <2>1, <2>2, <2>3 DEF CleanAnswers
<1> QED
  BY <1>1, <1>2, <1>3, <1>4, <1>5, RespondKeepsAnswers, LoseKeepsAnswers, TickKeepsAnswers DEF Next

-----------------------------------------------------------------------------
(* Theorems *)

\* The conjunction of the above is an invariant of the gateway.
THEOREM Inductive == Spec => []IInv
<1>1. IInv /\ [Next]_vars => IInv'
  <2> SUFFICES ASSUME IInv, [Next]_vars PROVE IInv'
    OBVIOUS
  <2>1. CASE Loop
    BY <2>1, HostCharsKeeps, BusCharKeeps, RestOfTurnKeeps DEF Loop
  <2>2. CASE UNCHANGED vars
    BY <2>2 DEF vars, table, timers, receivers, host, history,
                IInv, TypeOK, Bus, Asked, Awaits, Handshake
  <2> QED
    BY <2>1, <2>2, SendKeeps, ReceivePacketKeeps, NoResponseKeeps, RespondKeeps, LoseKeeps,
       TickKeeps DEF Next
<1> QED
  BY <1>1, InitIInv, PTL DEF Spec

\* The control table, the buffers and the timer keep their types.
THEOREM TypeCorrect == Spec => []TypeOK
<1>1. IInv => TypeOK
  BY DEF IInv
<1> QED
  BY <1>1, Inductive, PTL

\* As long as the gateway has not been in manual mode, it never asks a servo while
\* another has an answer to give, and waits for each answer until it is there.
THEOREM OneAtATime == Spec => []OneQueryAtATime
<1>1. IInv => OneQueryAtATime
  BY DEF IInv, Bus, Asked, OneQueryAtATime
<1> QED
  BY <1>1, Inductive, PTL

\* A mode that SetMode has reported is the mode, unless a packet was refused.
THEOREM Confirmed == Spec => []ConfirmedModeHolds
<1>1. IInv => ConfirmedModeHolds
  BY DEF IInv, Handshake, ConfirmedModeHolds
<1> QED
  BY <1>1, Inductive, PTL

\* A position that was asked for with nothing else on the bus and the timer just
\* reset is stored in its entry, in spite of the host, the timer and manual mode.
THEOREM NoneOverlooked == Spec => []AnswersKept
<1>1. Init => CleanAnswers
  BY DEF Init, CleanAnswers
<1>2. IInv /\ CleanAnswers /\ [Next]_vars => CleanAnswers'
  BY StepKeepsAnswers
<1>3. CleanAnswers => AnswersKept
  BY DEF CleanAnswers, AnswersKept
<1> QED
  BY <1>1, <1>2, <1>3, Inductive, PTL DEF Spec
=============================================================================
