------------------------------- MODULE Gateway -------------------------------
(***************************************************************************)
(* The Dynamixel gateway: the main loop of its firmware (Atmel/main.c)     *)
(* between a host, which uses the library Host/DynamixelGateway.cc, and    *)
(* the servos.  The firmware queries one servo after the other for its     *)
(* position, writes the goals of all of them, and answers the host; timer 1 *)
(* tells it that a servo has fallen silent.                                *)
(*                                                                         *)
(* A packet of the host arrives whole or never.  An answer of a servo is   *)
(* two chunks: its first byte to its last but one, and the byte that       *)
(* completes it.  Time passes in ticks: a servo has answered AnswerTime of *)
(* them after it was asked, or does not, and timer 1 overflows every       *)
(* Timer1Period.  A turn of the loop takes microseconds: what the others   *)
(* do during one is seen in the next, so they take their steps between.    *)
(***************************************************************************)
EXTENDS Integers, Sequences

CONSTANTS
  MAX_NUM_SERVOS,   \* 24 entries of the control table
  Ids, SKIP_ID,     \* ids of servos, and 255 for an unused entry
  IdMaps,           \* the id maps a host sets
  DefaultIds,       \* the one the firmware starts with
  Modes,            \* the modes it sets
  AnswerTime, Timer1Period,
  Nothing,          \* no packet, no call, no mode
  MaxUnread, MaxForwarded   \* bounds of what waits to be read, or answered

Servos == 0 .. MAX_NUM_SERVOS - 1

ASSUME GatewayAssumption ==
  /\ MAX_NUM_SERVOS \in Nat \ {0}
  /\ SKIP_ID \in Ids
  /\ IdMaps \subseteq [Servos -> Ids] /\ DefaultIds \in IdMaps
  /\ Modes \subseteq {"manual", "read", "write", "readwrite"}
  /\ AnswerTime \in Nat /\ Timer1Period \in Nat /\ AnswerTime < Timer1Period
  /\ MaxUnread \in Nat /\ MaxForwarded \in Nat
  /\ Nothing \notin Modes \cup {"table"}

VARIABLES
  mode, state, currServo, idMap, currPos,   \* the control table
  pc,             \* the part of the main loop that comes next
  busPacketIn,    \* the packet received in part
  tcnt1,          \* the count of timer 1
  busTimeout,     \* set by its interrupt
  hostRx, busRx,  \* packets and chunks that wait in the receive buffers
  toHost,         \* answers on their way to the host
  coming,         \* answers the servos have not finished
  call,           \* the library function that waits for its answer
  confirmed,      \* the mode SetMode has last reported success for
  manual,         \* history: manual mode has been on
  refused,        \* history: a packet of the host has been refused
  overlooked      \* history: a clean answer was not stored

table == <<mode, state, currServo, idMap, currPos>>
timers == <<tcnt1, busTimeout>>
receivers == <<busPacketIn, hostRx, busRx>>
host == <<call, confirmed>>
history == <<manual, refused, overlooked>>
vars == <<table, pc, receivers, timers, toHost, coming, host, history>>

Init ==
  /\ mode = "read" /\ state = "IDLE" /\ currServo = 0
  /\ idMap = DefaultIds
  /\ currPos = [i \in Servos |-> "position"]   \* 0
  /\ pc = "host"
  /\ busPacketIn = Nothing
  /\ tcnt1 = 0 /\ busTimeout = FALSE
  /\ hostRx = <<>> /\ busRx = <<>> /\ toHost = <<>> /\ coming = <<>>
  /\ call = Nothing /\ confirmed = Nothing
  /\ manual = FALSE /\ refused = FALSE /\ overlooked = FALSE

FEEDBACK_READ(m) == m \in {"read", "readwrite"}
SYNC_WRITE(m) == m \in {"write", "readwrite"}

-----------------------------------------------------------------------------
(* The host *)

Requests ==
  [type : {"mode"}, mode : Modes] \cup [type : {"ids"}, ids : IdMaps]
    \cup [type : {"read"}] \cup [type : {"servo"}, id : Ids \ {SKIP_ID}]

FirstChunk(p) == [packet |-> p, last |-> FALSE]
LastChunk(p) == [packet |-> p, last |-> TRUE]

\* Mutant: SetIDs does not wait for the confirmation.
AwaitedMutant(p) ==
  CASE p.type \in {"servo", "ids"} -> Nothing [] p.type = "mode" -> p.mode [] OTHER -> "table"

\* What a function waits for once it has sent p: that a mode is set, or another
\* part of the table is written or read.
Awaited(p) ==
  CASE p.type = "servo" -> Nothing [] p.type = "mode" -> p.mode [] OTHER -> "table"

\* A function of the library writes its request, which may be lost; SyncWrite
\* passes on a packet for a servo and waits for nothing.
Send(p) ==
  /\ pc = "host" /\ call = Nothing /\ hostRx = <<>>
  /\ p.type = "servo" => Len(toHost) < MaxUnread
  /\ p.type = "servo" /\ mode = "manual" => Len(coming) + Len(busRx) < MaxForwarded
  /\ hostRx' \in {<<p>>, <<>>}
  /\ call' = Awaited(p)
  /\ confirmed' = IF p.type = "mode" THEN Nothing ELSE confirmed
  /\ UNCHANGED <<table, pc, busPacketIn, busRx, timers, toHost, coming, history>>

\* ReceivePacket returns the next answer, whichever request it belongs to.
ReceivePacket ==
  /\ pc = "host" /\ call # Nothing
  /\ toHost # <<>>
  /\ toHost' = Tail(toHost)
  /\ confirmed' = IF call \in Modes /\ Head(toHost) = "NO_ERROR"
                  THEN call ELSE confirmed
  /\ call' = Nothing
  /\ UNCHANGED <<table, pc, receivers, timers, coming, history>>

\* Or nothing has come for 20 ms, in which the gateway has done all it had to.
NoResponse ==
  /\ pc = "host" /\ call # Nothing
  /\ toHost = <<>> /\ hostRx = <<>>
  /\ call' = Nothing
  /\ UNCHANGED <<table, pc, receivers, timers, toHost, coming, confirmed, history>>

-----------------------------------------------------------------------------
(* Receiving *)

(***************************************************************************)
(* DynamixelPacketProcessChar: what packet becomes with one chunk more,    *)
(* and whether it is complete.  Chunks of two packets fail the checksum.  *)
(***************************************************************************)
Complete(packet, chunk) == chunk.last /\ packet = chunk.packet

\* Mutant: the chunk is kept with its place in the packet.
PacketWithMutant(packet, chunk) ==
  IF ~chunk.last /\ packet = Nothing THEN chunk ELSE Nothing

PacketWith(packet, chunk) ==
  IF ~chunk.last /\ packet = Nothing THEN chunk.packet ELSE Nothing

\* What ProcessHostPacket answers.
Answer(p) == IF p.type = "servo" THEN "INVALID_MODE" ELSE "NO_ERROR"

\* An answer that a servo will give.
ServoAnswer(id, servo, kind, clean) ==
  [id |-> id, servo |-> servo, kind |-> kind, clean |-> clean, age |-> 0, begun |-> FALSE]

\* A packet for a servo goes to the bus in manual mode, where the servo's status
\* answers it; otherwise it is refused.
ProcessHostPacket(p) ==
  /\ mode' = IF p.type = "mode" THEN p.mode ELSE mode
  /\ manual' = (manual \/ mode' = "manual")
  /\ idMap' = IF p.type = "ids" THEN p.ids ELSE idMap
  /\ IF p.type = "servo" /\ mode = "manual"
     THEN /\ coming' = Append(coming, ServoAnswer(p.id, Nothing, "status", FALSE))
          /\ UNCHANGED <<toHost, refused>>
     ELSE /\ toHost' = Append(toHost, Answer(p))
          /\ refused' = (refused \/ p.type = "servo")
          /\ UNCHANGED coming

\* The characters of the host, until there are no more or a packet is complete.
HostChars ==
  /\ pc = "host" /\ pc' = "bus"
  /\ IF hostRx # <<>>
     THEN /\ busTimeout' = FALSE
          /\ hostRx' = Tail(hostRx)
          /\ ProcessHostPacket(Head(hostRx))
     ELSE UNCHANGED <<mode, idMap, busTimeout, hostRx, toHost, coming, manual, refused>>
  /\ UNCHANGED <<state, currServo, currPos, busPacketIn, busRx, tcnt1, host, overlooked>>

\* Mutant: the number of the entry is taken for the id.
IsResponseMutant(p) == state = "WAITING" /\ p.id = currServo + 1 /\ p.kind # "error"

\* The answer the loop waits for, without an error.
IsResponse(p) == state = "WAITING" /\ p.id = idMap[currServo] /\ p.kind # "error"

ProcessBusPacket(p) ==
  \/ /\ mode = "manual"
     /\ state' = "IDLE" /\ currServo' = 0
     /\ pc' = "rest"
     /\ UNCHANGED currPos
  \/ /\ mode # "manual" /\ IsResponse(p)
     /\ currPos' = [currPos EXCEPT ![currServo] = p.kind]
     /\ state' = "IDLE"
     /\ pc' = "rest"
     /\ UNCHANGED currServo
  \/ /\ mode # "manual" /\ ~IsResponse(p)
     /\ pc' = IF state = "WAITING" THEN "host" ELSE "rest"
     /\ UNCHANGED <<state, currServo, currPos>>

\* A position that was asked for cleanly, of a servo that still has its entry.
Valid(p) == p.clean /\ p.kind = "position" /\ p.id = idMap[p.servo] /\ mode # "manual"

\* The last chunk of one is there, and it is not what is stored in its entry.
Overlooks(chunk) ==
  /\ chunk.last /\ Valid(chunk.packet)
  /\ ~(/\ Complete(busPacketIn, chunk)
       /\ IsResponse(chunk.packet) /\ chunk.packet.servo = currServo)

\* Mutant: the characters of the bus do not reset the timer.
BusTimer1Mutant == tcnt1

\* TCNT1 after a character of the bus.
BusTimer1 == 0

\* The same for the bus; a packet that is not the one waited for starts the loop anew.
BusChar ==
  /\ pc = "bus" /\ busRx # <<>>
  /\ tcnt1' = BusTimer1 /\ busTimeout' = FALSE
  /\ busRx' = Tail(busRx)
  /\ busPacketIn' = PacketWith(busPacketIn, Head(busRx))
  /\ IF Complete(busPacketIn, Head(busRx)) THEN ProcessBusPacket(busPacketIn)
     ELSE UNCHANGED <<state, currServo, currPos, pc>>
  /\ overlooked' = (overlooked \/ Overlooks(Head(busRx)))
  /\ UNCHANGED <<mode, idMap, hostRx, toHost, coming, host, manual, refused>>

-----------------------------------------------------------------------------
(* Timeouts and queries *)

\* What the rest of the turn finds once the timeout of the bus has been seen to.
Timeouts ==
  /\ busTimeout' = FALSE
  /\ IF busTimeout THEN tcnt1' = 0 /\ busPacketIn' = Nothing
     ELSE UNCHANGED <<tcnt1, busPacketIn>>

StateThen == IF busTimeout THEN "IDLE" ELSE state

\* A sync-write is sent to all servos, and none answers. What it carries for each
\* of them is left out.
SyncWrite ==
  /\ state' = "PAUSE"
  /\ UNCHANGED coming

\* A query with nothing else on the bus, and the timer just reset.
Clean == coming = <<>> /\ busRx = <<>> /\ busPacketIn' = Nothing /\ tcnt1' = 0

\* Also an unused entry is queried: its index, not its id, is compared with SKIP_ID.
Query(servo) ==
  /\ \E kind \in {"position", "error"} :
       coming' = Append(coming, ServoAnswer(idMap[servo], servo, kind, Clean))
  /\ state' = "WAITING"

Schedule ==
  IF mode # "manual" /\ StateThen = "IDLE"
  THEN LET servo == (currServo + 1) % (MAX_NUM_SERVOS + 1)
       IN  /\ currServo' = servo
           /\ IF servo = MAX_NUM_SERVOS /\ SYNC_WRITE(mode) THEN SyncWrite
              ELSE IF servo # MAX_NUM_SERVOS /\ FEEDBACK_READ(mode) THEN Query(servo)
              ELSE state' = "IDLE" /\ UNCHANGED coming
  ELSE state' = StateThen /\ UNCHANGED <<currServo, coming>>

\* The characters of the bus are read, or a packet of it is complete.
RestOfTurn ==
  /\ pc = "rest" \/ (pc = "bus" /\ busRx = <<>>)
  /\ pc' = "host"
  /\ Timeouts /\ Schedule
  /\ UNCHANGED <<mode, idMap, currPos, hostRx, busRx, toHost, host, history>>

Loop == HostChars \/ BusChar \/ RestOfTurn

-----------------------------------------------------------------------------
(* Servos and time (external) *)

\* The servo that was asked first sends the first part of its answer, or the rest:
\* the loop is faster than the bus and has read what came before.
Respond ==
  /\ pc = "host" /\ coming # <<>> /\ busRx = <<>>
  /\ coming[1].id # SKIP_ID
  /\ LET answer == [coming[1] EXCEPT !.age = 0, !.begun = FALSE]
     IN  IF coming[1].begun
         THEN /\ busRx' = Append(busRx, LastChunk(answer))
              /\ coming' = Tail(coming)
         ELSE /\ busRx' = Append(busRx, FirstChunk(answer))
              /\ coming' = [coming EXCEPT ![1].begun = TRUE]
  /\ UNCHANGED <<table, pc, busPacketIn, hostRx, timers, toHost, host, history>>

\* Nobody has this id, or what it sends is lost, from some byte on.
Lose ==
  /\ pc = "host" /\ coming # <<>>
  /\ coming' = Tail(coming)
  /\ UNCHANGED <<table, pc, receivers, timers, toHost, host, history>>

\* What happens before time goes on.
Busy ==
  \/ hostRx # <<>> \/ busRx # <<>> \/ busTimeout
  \/ (mode # "manual" /\ state = "IDLE")
  \/ \E i \in DOMAIN coming : coming[i].age = AnswerTime

\* The interrupt of timer 1 comes when it overflows.
Tick ==
  /\ pc = "host" /\ ~Busy
  /\ tcnt1' = (tcnt1 + 1) % Timer1Period
  /\ busTimeout' = (tcnt1' = 0)
  /\ coming' = [i \in DOMAIN coming |-> [coming[i] EXCEPT !.age = @ + 1]]
  /\ UNCHANGED <<table, pc, receivers, toHost, host, history>>

Next ==
  \/ \E p \in Requests : Send(p)
  \/ ReceivePacket \/ NoResponse
  \/ Loop
  \/ Respond \/ Lose \/ Tick

Spec == Init /\ [][Next]_vars

-----------------------------------------------------------------------------
(* Properties *)

Answers == [id : Ids, servo : Servos \cup {Nothing}, kind : {"position", "error", "status"},
            clean : BOOLEAN, age : 0 .. AnswerTime, begun : BOOLEAN]

Chunks(packets) == [packet : packets, last : BOOLEAN]

TypeOK ==
  /\ mode \in Modes \cup {"read"} /\ state \in {"IDLE", "WAITING", "PAUSE"}
  /\ currServo \in 0 .. MAX_NUM_SERVOS
  /\ idMap \in IdMaps
  /\ currPos \in [Servos -> {"position", "status"}]
  /\ pc \in {"host", "bus", "rest"}
  /\ busPacketIn \in Answers \cup {Nothing}
  /\ tcnt1 \in 0 .. Timer1Period - 1 /\ busTimeout \in BOOLEAN
  /\ hostRx \in Seq(Requests) /\ busRx \in Seq(Chunks(Answers))
  /\ toHost \in Seq({"NO_ERROR", "INVALID_MODE"})
  /\ coming \in Seq(Answers)
  /\ call \in Modes \cup {"table", Nothing}
  /\ confirmed \in Modes \cup {Nothing}
  /\ manual \in BOOLEAN /\ refused \in BOOLEAN /\ overlooked \in BOOLEAN

\* The answer p is the one the loop waits for.
Awaits(p) == p.clean /\ state = "WAITING" /\ p.servo = currServo

(***************************************************************************)
(* As long as the gateway has not been in manual mode, a servo is asked    *)
(* only when no other has an answer to give, so that nothing collides on   *)
(* the bus, and the loop waits for the answer until it is there; what it   *)
(* stores are positions.  (A query after manual mode may come just before  *)
(* timer 1 overflows, which nothing has reset then.)                       *)
(***************************************************************************)
OneQueryAtATime ==
  ~manual =>
    /\ Len(coming) <= 1
    /\ \A i \in DOMAIN coming : Awaits(coming[i])
    /\ \A i \in DOMAIN busRx : Awaits(busRx[i].packet)
    /\ \A i \in Servos : currPos[i] # "status"

(***************************************************************************)
(* A position that was asked for with nothing else on the bus and the      *)
(* timer just reset is stored in the entry it was asked for, also after    *)
(* manual mode, and whatever the host sends in between.                    *)
(***************************************************************************)
AnswersKept == ~overlooked

(***************************************************************************)
(* When SetMode reports success, the gateway is in that mode, although the *)
(* confirmation does not say which request it belongs to; unless it had to *)
(* refuse a packet, whose answer nobody reads.                             *)
(***************************************************************************)
ConfirmedModeHolds == confirmed # Nothing /\ ~refused => mode = confirmed
=============================================================================
