--------------------------------- MODULE Udp ---------------------------------
(***************************************************************************)
(* Messages over UDP: lua_udp.cpp.  send_all cuts a message into datagrams *)
(* under one uuid; the receiver collects the parts of each uuid and hands  *)
(* the message over when it has as many as the header says.  All sockets   *)
(* of a process share one static table of parts.                           *)
(*                                                                         *)
(* The uuid comes from rand(), which nobody seeds: every process, and each *)
(* one anew after a restart, goes through the same sequence of uuids.  The *)
(* number of a uuid in that sequence stands for it.                        *)
(*                                                                         *)
(* The network (external) loses, repeats and reorders datagrams at will;   *)
(* send_triple of simple_ipc.lua, which sends each of them three times, is *)
(* one of the ways in which a datagram arrives more than once.             *)
(***************************************************************************)
EXTENDS Integers, FiniteSets, Sequences

CONSTANTS
  Sender, Port,
  PortOf,             \* the port a sender sends to
  Message, Size,      \* what can be sent, and its number of bytes
  MAX_BODY_LENGTH,    \* 1462: bytes of a message in one datagram
  EXTRA_LENGTH,       \* 10: bytes of the header
  CountSize,          \* 256: values of the uint8_t fields
  maxQueueSize,       \* 12
  Nobody, Missing,    \* no socket, no part
  MaxUuid             \* bound: how far anyone gets in the sequence of rand()

ASSUME UdpAssumption ==
  /\ PortOf \in [Sender -> Port]
  /\ Size \in [Message -> Nat]
  /\ MAX_BODY_LENGTH \in Nat \ {0} /\ EXTRA_LENGTH \in Nat
  /\ CountSize \in Nat \ {0, 1}
  /\ maxQueueSize \in Nat \ {0}
  /\ Nobody \notin Port
  /\ Missing \notin [msg : Message, first : Nat, len : Nat]
  /\ MaxUuid \in Nat

Order == 0 .. CountSize - 1
Uuid == 1 .. MaxUuid
Raw == 0                      \* in place of the uuid of a message without header

VARIABLES
  uuids,       \* how far each sender is in the sequence of rand()
  net,         \* the datagrams that were sent: any of them may arrive, or not
  uuid_buf,    \* the parts that wait for others, by uuid and order
  recv_queue,  \* the messages each socket holds for its program
  updating,    \* the socket that is in comm_update, or Nobody
  names,       \* history: the messages sent under each uuid
  got,         \* history: how often each datagram of a uuid was taken
  handed,      \* history: how many messages each uuid has made
  log,         \* history: all messages that entered each recv_queue
  last         \* history: the place in log of the last one received

vars == <<uuids, net, uuid_buf, recv_queue, updating, names, got, handed, log, last>>
sending == <<uuids, net, names>>
receiving == <<uuid_buf, recv_queue, updating, got, handed, log, last>>

-----------------------------------------------------------------------------
\* The remainder counts as a datagram; the count has eight bits.
NumPackets(m) ==
  (Size[m] \div MAX_BODY_LENGTH + (IF Size[m] % MAX_BODY_LENGTH > 0 THEN 1 ELSE 0))
    % CountSize

\* The last datagram has the remainder, which may be nothing.
PacketLen(m, i) ==
  IF i < NumPackets(m) - 1 THEN MAX_BODY_LENGTH ELSE Size[m] % MAX_BODY_LENGTH

Part(m, i) == [msg |-> m, first |-> i * MAX_BODY_LENGTH, len |-> PacketLen(m, i)]

Packets(port, uuid, m) ==
  {[port |-> port, uuid |-> uuid, order |-> i, number |-> NumPackets(m), part |-> Part(m, i)] :
     i \in 0 .. NumPackets(m) - 1}

\* recvfrom cuts a datagram off at MAX_LENGTH.
MAX_LENGTH == MAX_BODY_LENGTH + EXTRA_LENGTH

RawPart(m) ==
  [msg |-> m, first |-> 0, len |-> IF Size[m] < MAX_LENGTH THEN Size[m] ELSE MAX_LENGTH]

RawPacket(port, m) ==
  [port |-> port, uuid |-> Raw, order |-> 0, number |-> 1, part |-> RawPart(m)]

NoParts == [i \in Order |-> Missing]

Init ==
  /\ uuids = [s \in Sender |-> 0]
  /\ net = {}
  /\ uuid_buf = [u \in Uuid |-> NoParts]
  /\ recv_queue = [p \in Port |-> <<>>]
  /\ updating = Nobody
  /\ names = [u \in Uuid |-> {}]
  /\ got = [u \in Uuid |-> [i \in Order |-> 0]]
  /\ handed = [u \in Uuid |-> 0]
  /\ log = [p \in Port |-> <<>>]
  /\ last = [p \in Port |-> 0]

-----------------------------------------------------------------------------
\* send_all without a uuid of the caller's, and what send_triple repeats.
SendAll(s, m) ==
  LET uuid == uuids[s] + 1
  IN  /\ uuid \in Uuid
      /\ uuids' = [uuids EXCEPT ![s] = uuid]
      /\ net' = net \cup Packets(PortOf[s], uuid, m)
      /\ names' = [names EXCEPT ![uuid] = @ \cup {m}]
      /\ UNCHANGED receiving

\* send: the message as it is.
Send(s, m) ==
  /\ net' = net \cup {RawPacket(PortOf[s], m)}
  /\ UNCHANGED <<uuids, names, receiving>>

\* A sender that starts again begins the sequence of rand() anew.
Restart(s) ==
  /\ uuids[s] # 0
  /\ uuids' = [uuids EXCEPT ![s] = 0]
  /\ UNCHANGED <<net, names, receiving>>

-----------------------------------------------------------------------------
(***************************************************************************)
(* The receiving process.  size and receive call comm_update, which takes  *)
(* what the socket has, hands each datagram to packet_update and drops old *)
(* messages at the end.                                                    *)
(***************************************************************************)
CommUpdate(p) ==
  /\ updating = Nobody
  /\ updating' = p
  /\ UNCHANGED <<sending, uuid_buf, recv_queue, got, handed, log, last>>

Enqueue(p, uuid, parts) ==
  /\ recv_queue' = [recv_queue EXCEPT ![p] = Append(@, [uuid |-> uuid, parts |-> parts])]
  /\ log' = [log EXCEPT ![p] = Append(@, [uuid |-> uuid, parts |-> parts])]

Count(d) == got' = [got EXCEPT ![d.uuid][d.order] = @ + 1]

\* Without a valid checksum the datagram is the message, header and all; an
\* empty one ends the loop instead.
PacketRaw(d) ==
  /\ d \in net /\ d.port = updating
  /\ d.uuid = Raw /\ d.part.len > 0
  /\ Enqueue(d.port, Raw, [i \in 0 .. 0 |-> d.part])
  /\ UNCHANGED <<sending, uuid_buf, updating, got, handed, last>>

PacketOnly(d) ==
  /\ d \in net /\ d.port = updating
  /\ d.uuid # Raw /\ d.number = 1
  /\ Enqueue(d.port, d.uuid, [i \in 0 .. 0 |-> d.part])
  /\ handed' = [handed EXCEPT ![d.uuid] = @ + 1]
  /\ Count(d)
  /\ UNCHANGED <<sending, uuid_buf, updating, last>>

\* A table that keeps the header with the data.
WithMutant(parts, d) == [parts EXCEPT ![d.order] = IF @ = Missing THEN d ELSE @]

\* The parts of a uuid with those of one more datagram.
With(parts, d) == [parts EXCEPT ![d.order] = IF @ = Missing THEN d.part ELSE @]

\* The number of the last part that is there.
PartsHeldMutant(parts) ==
  LET there == {i \in Order : parts[i] # Missing}
  IN  1 + (CHOOSE i \in there : \A j \in there : j <= i)

PartsHeld(parts) == Cardinality({i \in Order : parts[i] # Missing})

\* Parts that stay after the message was handed over.
ClearedMutant(parts) == parts

Cleared(parts) == NoParts

PacketPart(d) ==
  LET parts == With(uuid_buf[d.uuid], d)
  IN  /\ d \in net /\ d.port = updating
      /\ d.uuid # Raw /\ d.number # 1
      /\ IF PartsHeld(parts) = d.number
         THEN /\ Enqueue(d.port, d.uuid, [i \in 0 .. d.number - 1 |-> parts[i]])
              /\ uuid_buf' = [uuid_buf EXCEPT ![d.uuid] = Cleared(parts)]
              /\ handed' = [handed EXCEPT ![d.uuid] = @ + 1]
         ELSE /\ uuid_buf' = [uuid_buf EXCEPT ![d.uuid] = parts]
              /\ UNCHANGED <<recv_queue, handed, log>>
      /\ Count(d)
      /\ UNCHANGED <<sending, updating, last>>

\* The newest are dropped.
NewestMutant(queue) == SubSeq(queue, 1, maxQueueSize)

\* What is left of a queue that is too long.
Newest(queue) == SubSeq(queue, Len(queue) - maxQueueSize + 1, Len(queue))

Trimmed(queue) == IF Len(queue) > maxQueueSize THEN Newest(queue) ELSE queue

\* lua_udp_size returns the length of the queue.
SizeReturns ==
  /\ updating # Nobody
  /\ recv_queue' = [recv_queue EXCEPT ![updating] = Trimmed(@)]
  /\ updating' = Nobody
  /\ UNCHANGED <<sending, uuid_buf, got, handed, log, last>>

\* lua_udp_receive returns the first message, if there is one.
ReceiveReturns ==
  LET queue == Trimmed(recv_queue[updating])
  IN  /\ updating # Nobody
      /\ queue # <<>>
      /\ recv_queue' = [recv_queue EXCEPT ![updating] = Tail(queue)]
      /\ last' = [last EXCEPT ![updating] = Len(log[updating]) - Len(queue) + 1]
      /\ updating' = Nobody
      /\ UNCHANGED <<sending, uuid_buf, got, handed, log>>

Next ==
  \/ \E s \in Sender, m \in Message : SendAll(s, m) \/ Send(s, m)
  \/ \E s \in Sender : Restart(s)
  \/ \E p \in Port : CommUpdate(p)
  \/ \E d \in net : PacketRaw(d) \/ PacketOnly(d) \/ PacketPart(d)
  \/ SizeReturns \/ ReceiveReturns

Spec == Init /\ [][Next]_vars

-----------------------------------------------------------------------------
Parts == {Part(m, i) : m \in Message, i \in Order} \cup {RawPart(m) : m \in Message}

Received ==
  [uuid : Uuid \cup {Raw},
   parts : UNION {[0 .. n - 1 -> Parts \cup {Missing}] : n \in Order}]

Datagrams ==
  [port : Port, uuid : Uuid \cup {Raw}, order : Order, number : Order,
   part : Parts]

TypeOK ==
  /\ uuids \in [Sender -> 0 .. MaxUuid]
  /\ \A d \in net : d \in Datagrams
  /\ uuid_buf \in [Uuid -> [Order -> Parts \cup {Missing}]]
  /\ recv_queue \in [Port -> Seq(Received)]
  /\ updating \in Port \cup {Nobody}
  /\ names \in [Uuid -> SUBSET Message]
  /\ got \in [Uuid -> [Order -> Nat]]
  /\ handed \in [Uuid -> Nat]
  /\ log \in [Port -> Seq(Received)]
  /\ last \in [Port -> Nat]

\* The parts are the bytes of m from the first to the last, without a gap.
Tiles(parts, m) ==
  \E n \in Order \ {0} :
    /\ DOMAIN parts = 0 .. n - 1
    /\ \A i \in 0 .. n - 1 : parts[i] # Missing /\ parts[i].msg = m
    /\ parts[0].first = 0
    /\ \A i \in 0 .. n - 2 : parts[i].first + parts[i].len = parts[i + 1].first
    /\ parts[n - 1].first + parts[n - 1].len = Size[m]

\* The sizes that send_all and send carry whole.
Sendable(m) ==
  /\ Size[m] % MAX_BODY_LENGTH # 0
  /\ Size[m] \div MAX_BODY_LENGTH < CountSize - 1

Entries == UNION {{log[p][k] : k \in DOMAIN log[p]} : p \in Port}

(***************************************************************************)
(* What reaches a program is a whole message, when no other one was sent   *)
(* under its uuid, whatever is lost, repeated or reordered, in however     *)
(* many copies, and whatever is left of other messages in the table.       *)
(***************************************************************************)
DeliveredWhole ==
  \A e \in Entries :
    IF e.uuid = Raw
    THEN LET m == e.parts[0].msg IN Size[m] <= MAX_LENGTH => Tiles(e.parts, m)
    ELSE \A m \in Message : names[e.uuid] = {m} /\ Sendable(m) => Tiles(e.parts, m)

(***************************************************************************)
(* A message arrives when each of its datagrams did, be it in different    *)
(* copies, and it arrives no more often than the datagram that came least. *)
(***************************************************************************)
ArrivesAsOftenAsItsParts ==
  \A u \in Uuid, m \in Message : names[u] = {m} =>
    LET ids == 0 .. NumPackets(m) - 1
    IN  /\ ids # {} /\ (\A i \in ids : got[u][i] > 0) => handed[u] > 0
        /\ \A i \in ids : handed[u] <= got[u][i]

(***************************************************************************)
(* Messages are received in the order they were complete, none twice, and  *)
(* none is passed over while the queue had room: a program that comes late *)
(* finds the newest maxQueueSize.                                          *)
(***************************************************************************)
NewestKept ==
  \A p \in Port :
    LET queued == Len(recv_queue[p])
        passed == Len(log[p]) - queued
    IN  /\ passed >= 0
        /\ recv_queue[p] = SubSeq(log[p], passed + 1, Len(log[p]))
        /\ last[p] <= passed
        /\ last[p] < passed => queued >= maxQueueSize
        /\ updating # p => queued <= maxQueueSize

\* lua_udp.cpp:396, "for sending data without size limit": nothing of a
\* message is missing when it arrives, also at a multiple of the body length.
NothingCutOff ==
  \A e \in Entries, m \in Message :
    e.uuid # Raw /\ names[e.uuid] = {m} => Tiles(e.parts, m)
=============================================================================
