------------------------------ MODULE UdpProofs ------------------------------
(***************************************************************************)
(* Theorems about Udp, for any senders, sockets, messages, sizes and       *)
(* limits, and a network that loses, repeats and reorders what it likes.   *)
(***************************************************************************)
EXTENDS Udp, FiniteSetTheorems, SequenceTheorems, TLAPS

-----------------------------------------------------------------------------
(***************************************************************************)
(* How send_all cuts a message.                                            *)
(***************************************************************************)
LEMMA Quotient ==
  ASSUME NEW a \in Nat, NEW n \in Nat \ {0}
  PROVE  /\ a = n * (a \div n) + (a % n)
         /\ a % n \in 0 .. n - 1
         /\ a \div n \in Nat
OBVIOUS

LEMMA OneQuotient ==
  ASSUME NEW n \in Nat \ {0}, NEW q \in 0 .. n - 1
  PROVE  q % n = q
OBVIOUS

LEMMA NumPacketsType ==
  ASSUME NEW m \in Message
  PROVE  NumPackets(m) \in Order
<1>1. Size[m] \in Nat /\ MAX_BODY_LENGTH \in Nat \ {0} /\ CountSize \in Nat \ {0}
  BY UdpAssumption
<1> DEFINE q == Size[m] \div MAX_BODY_LENGTH
           extra == IF Size[m] % MAX_BODY_LENGTH > 0 THEN 1 ELSE 0
<1>2. q \in Nat
  BY <1>1, Quotient
<1>3. extra \in Nat
  OBVIOUS
<1> HIDE DEF q, extra
<1>4. q + extra \in Nat
  BY <1>2, <1>3
<1>5. (q + extra) % CountSize \in 0 .. CountSize - 1
  BY <1>1, <1>4, Quotient
<1> QED
  BY <1>5 DEF NumPackets, Order, q, extra

LEMMA PartType ==
  ASSUME NEW m \in Message, NEW i \in Order
  PROVE  /\ Part(m, i) \in Parts
         /\ Part(m, i) \in [msg : Message, first : Nat, len : Nat]
         /\ Part(m, i) # Missing
<1>1. Size[m] \in Nat /\ MAX_BODY_LENGTH \in Nat \ {0} /\ i \in Nat
  BY UdpAssumption DEF Order
<1>2. Size[m] % MAX_BODY_LENGTH \in Nat
  BY <1>1, Quotient
<1>3. PacketLen(m, i) \in Nat
  BY <1>1, <1>2 DEF PacketLen
<1>4. i * MAX_BODY_LENGTH \in Nat
  BY <1>1
<1>5. Part(m, i) \in [msg : Message, first : Nat, len : Nat]
  BY <1>3, <1>4 DEF Part
<1> QED
  BY <1>5, UdpAssumption DEF Parts

LEMMA RawPartType ==
  ASSUME NEW m \in Message
  PROVE  /\ RawPart(m) \in Parts
         /\ RawPart(m).msg = m /\ RawPart(m) # Missing
<1>1. RawPart(m) \in [msg : Message, first : Nat, len : Nat]
  BY UdpAssumption DEF RawPart, MAX_LENGTH
<1> QED
  BY <1>1, UdpAssumption DEF Parts, RawPart

\* What a complete set of parts becomes.
Cut(m) == [i \in 0 .. NumPackets(m) - 1 |-> Part(m, i)]

(***************************************************************************)
(* The parts of a sendable message are its bytes without a gap.            *)
(***************************************************************************)
LEMMA CutTiles ==
  ASSUME NEW m \in Message, Sendable(m)
  PROVE  Tiles(Cut(m), m)
<1> DEFINE B == MAX_BODY_LENGTH
           q == Size[m] \div B
           r == Size[m] % B
<1>1. Size[m] \in Nat /\ B \in Nat \ {0} /\ CountSize \in Nat \ {0, 1}
  BY UdpAssumption
<1>2. Size[m] = B * q + r /\ r \in 0 .. B - 1 /\ q \in Nat
  BY <1>1, Quotient
<1>3. r # 0 /\ q < CountSize - 1
  BY DEF Sendable
<1>4. NumPackets(m) = (q + 1) % CountSize
  BY <1>2, <1>3, <1>1 DEF NumPackets
<1> HIDE DEF B, q, r
<1>5. NumPackets(m) = q + 1
  BY <1>1, <1>2, <1>3, <1>4, OneQuotient
<1>6. \A i \in 0 .. q :
        /\ Cut(m)[i] = Part(m, i)
        /\ Cut(m)[i].msg = m
        /\ Cut(m)[i].first = i * B
        /\ Cut(m)[i].len = IF i < q THEN B ELSE r
  BY <1>2, <1>5 DEF Cut, Part, PacketLen, B, r
<1>7. q + 1 \in Order \ {0}
  BY <1>1, <1>2, <1>3 DEF Order
<1>8. \A i \in 0 .. q : Cut(m)[i] # Missing
  BY <1>1, <1>2, <1>3, <1>6, PartType DEF Order
<1>9. \A i \in 0 .. q - 1 : Cut(m)[i].first + Cut(m)[i].len = Cut(m)[i + 1].first
  <2> SUFFICES ASSUME NEW i \in 0 .. q - 1
               PROVE  Cut(m)[i].first + Cut(m)[i].len = Cut(m)[i + 1].first
    OBVIOUS
  <2>1. i \in 0 .. q /\ i + 1 \in 0 .. q /\ i < q /\ i \in Nat
    BY <1>2
  <2>2. i * B + B = (i + 1) * B
    BY <2>1, <1>1
  <2> QED
    BY <2>1, <2>2, <1>6
<1>10. Cut(m)[0].first = 0
  BY <1>1, <1>2, <1>6
<1>11. Cut(m)[q].first + Cut(m)[q].len = Size[m]
  BY <1>1, <1>2, <1>6
<1>12. DOMAIN Cut(m) = 0 .. (q + 1) - 1
  BY <1>5 DEF Cut
<1>13. (q + 1) - 1 = q /\ (q + 1) - 2 = q - 1
  BY <1>2
<1> QED
  BY <1>6, <1>7, <1>8, <1>9, <1>10, <1>11, <1>12, <1>13 DEF Tiles

(***************************************************************************)
(* And those of no other message are: at a multiple of the body length the *)
(* last datagram is empty, and beyond CountSize - 1 datagrams there are    *)
(* too few of them.                                                        *)
(***************************************************************************)
LEMMA OnlySendableTiles ==
  ASSUME NEW m \in Message, Tiles(Cut(m), m)
  PROVE  Sendable(m)
<1> DEFINE B == MAX_BODY_LENGTH
           q == Size[m] \div B
           r == Size[m] % B
           N == NumPackets(m)
<1>1. Size[m] \in Nat /\ B \in Nat \ {0} /\ CountSize \in Nat \ {0, 1}
  BY UdpAssumption
<1>2. Size[m] = B * q + r /\ r \in 0 .. B - 1 /\ q \in Nat
  BY <1>1, Quotient
<1>3. PICK n \in Order \ {0} :
        /\ DOMAIN Cut(m) = 0 .. n - 1
        /\ Cut(m)[n - 1].first + Cut(m)[n - 1].len = Size[m]
  BY DEF Tiles
<1>4. N \in 0 .. CountSize - 1 /\ n \in 1 .. CountSize - 1
  BY NumPacketsType, <1>1 DEF Order
<1>5. N = n
  <2>1. 0 .. N - 1 = 0 .. n - 1
    BY <1>3 DEF Cut
  <2> HIDE DEF N
  <2>2. n - 1 \in 0 .. N - 1 /\ N \notin 0 .. N - 1
    BY <1>1, <1>4, <2>1
  <2> QED
    BY <1>1, <1>4, <2>1, <2>2
<1>6. Cut(m)[N - 1].first = (N - 1) * B /\ Cut(m)[N - 1].len = r
  <2>1. N - 1 \in 0 .. N - 1 /\ ~(N - 1 < N - 1)
    BY <1>1, <1>4, <1>5
  <2>2. Cut(m)[N - 1] = Part(m, N - 1)
    BY <2>1 DEF Cut
  <2> QED
    BY <2>1, <2>2 DEF Part, PacketLen
<1>7. N = (q + (IF r > 0 THEN 1 ELSE 0)) % CountSize
  BY DEF NumPackets
<1> HIDE DEF B, q, r, N
<1>8. N - 1 = q
  <2>1. (N - 1) * B = B * q
    BY <1>1, <1>2, <1>3, <1>4, <1>5, <1>6
  <2> QED
    BY <1>1, <1>2, <1>4, <2>1
<1>9. r # 0
  <2> SUFFICES ASSUME r = 0 PROVE FALSE
    OBVIOUS
  <2>1. N = q % CountSize
    BY <1>2, <1>7
  <2>2. q = CountSize * (q \div CountSize) + (q % CountSize) /\ q \div CountSize \in Nat
    BY <1>1, <1>2, Quotient
  <2>3. q % CountSize <= q
    BY <1>1, <1>2, <2>2
  <2> QED
    BY <1>2, <1>4, <1>8, <2>1, <2>3
<1>10. q < CountSize - 1
  BY <1>1, <1>2, <1>4, <1>5, <1>8
<1> QED
  BY <1>9, <1>10 DEF Sendable, q, r, B

LEMMA RawTiles ==
  ASSUME NEW m \in Message, Size[m] <= MAX_LENGTH
  PROVE  Tiles([i \in 0 .. 0 |-> RawPart(m)], m)
<1> DEFINE parts == [i \in 0 .. 0 |-> RawPart(m)]
<1>1. Size[m] \in Nat /\ MAX_LENGTH \in Nat /\ 1 \in Order \ {0}
  BY UdpAssumption DEF MAX_LENGTH, Order
<1>2. parts[0].first = 0 /\ parts[0].len = Size[m]
  BY <1>1 DEF RawPart
<1>3. \A i \in 0 .. 0 : parts[i] # Missing /\ parts[i].msg = m
  BY RawPartType
<1>4. DOMAIN parts = 0 .. 1 - 1 /\ 0 .. 1 - 2 = {}
  OBVIOUS
<1> HIDE DEF parts
<1>5. Tiles(parts, m)
  BY <1>1, <1>2, <1>3, <1>4 DEF Tiles
<1> QED
  BY <1>5 DEF parts

LEMMA LongRawIsCut ==
  ASSUME NEW m \in Message, Tiles([i \in 0 .. 0 |-> RawPart(m)], m)
  PROVE  Size[m] <= MAX_LENGTH
<1> DEFINE parts == [i \in 0 .. 0 |-> RawPart(m)]
<1>1. Size[m] \in Nat /\ MAX_LENGTH \in Nat
  BY UdpAssumption DEF MAX_LENGTH
<1>2. PICK n \in Order \ {0} :
        DOMAIN parts = 0 .. n - 1 /\ parts[n - 1].first + parts[n - 1].len = Size[m]
  BY DEF Tiles
<1>3. n = 1
  <2>1. n \in Nat \ {0}
    BY <1>2, UdpAssumption DEF Order
  <2>2. n - 1 \in 0 .. n - 1
    BY <2>1
  <2>3. n - 1 \in 0 .. 0
    BY <1>2, <2>2
  <2> QED
    BY <2>1, <2>3
<1>4. parts[0] = RawPart(m)
  OBVIOUS
<1> HIDE DEF parts
<1>5. RawPart(m).first + RawPart(m).len = Size[m]
  BY <1>2, <1>3, <1>4
<1> QED
  BY <1>1, <1>5 DEF RawPart

-----------------------------------------------------------------------------
(***************************************************************************)
(* The invariant.  A datagram of a uuid is one of the datagrams of a       *)
(* message sent under it, and so is each part in the table; what was       *)
(* handed over under a uuid with one message is the cut of that message;   *)
(* and each datagram of it came once for every copy handed over and once   *)
(* more if it waits in the table.                                          *)
(***************************************************************************)
NetInv ==
  \A d \in net :
    IF d.uuid = Raw
    THEN \E m \in Message : d.part = RawPart(m)
    ELSE \E m \in names[d.uuid] :
           /\ d.number = NumPackets(m) /\ d.order < NumPackets(m)
           /\ d.part = Part(m, d.order)

TableInv ==
  \A u \in Uuid, i \in Order :
    uuid_buf[u][i] # Missing =>
      \E m \in names[u] :
        /\ NumPackets(m) # 1 /\ i < NumPackets(m)
        /\ uuid_buf[u][i] = Part(m, i)

\* A set that is complete was handed over: none stays in the table.
OpenInv ==
  \A u \in Uuid, m \in Message :
    names[u] = {m} => \/ NumPackets(m) = 0
                      \/ \E i \in 0 .. NumPackets(m) - 1 : uuid_buf[u][i] = Missing

IsWhole(e) ==
  IF e.uuid = Raw
  THEN \E m \in Message : e.parts = [i \in 0 .. 0 |-> RawPart(m)]
  ELSE /\ names[e.uuid] # {}
       /\ \A m \in Message : names[e.uuid] = {m} => e.parts = Cut(m)

LogInv == \A p \in Port : \A k \in 1 .. Len(log[p]) : IsWhole(log[p][k])

Waiting(u, i) == IF uuid_buf[u][i] = Missing THEN 0 ELSE 1

CountInv ==
  \A u \in Uuid :
    /\ names[u] = {} => handed[u] = 0 /\ \A i \in Order : got[u][i] = 0
    /\ \A m \in Message : names[u] = {m} =>
         \A i \in 0 .. NumPackets(m) - 1 :
           /\ handed[u] + Waiting(u, i) <= got[u][i]
           /\ uuid_buf[u][i] = Missing /\ got[u][i] > 0 => handed[u] > 0

Inv == TypeOK /\ NetInv /\ TableInv /\ OpenInv /\ LogInv /\ CountInv /\ NewestKept

LEMMA InitInv == Init => Inv
<1> SUFFICES ASSUME Init PROVE Inv
  OBVIOUS
<1> USE UdpAssumption
<1>1. TypeOK
  BY DEF Init, TypeOK, NoParts, Order, Uuid
<1>2. NetInv /\ TableInv /\ CountInv
  BY NumPacketsType DEF Init, NetInv, TableInv, CountInv, NoParts, Waiting, Order, Uuid
<1>3. OpenInv
  <2> SUFFICES ASSUME NEW u \in Uuid, NEW m \in Message, names[u] = {m} PROVE FALSE
    BY DEF OpenInv
  <2> QED
    BY DEF Init
<1>4. LogInv /\ NewestKept
  BY DEF Init, LogInv, NewestKept
<1> QED
  BY <1>1, <1>2, <1>3, <1>4 DEF Inv

-----------------------------------------------------------------------------
(***************************************************************************)
(* A sender's steps.                                                       *)
(***************************************************************************)
LEMMA SendAllInv ==
  ASSUME Inv, NEW s \in Sender, NEW m \in Message, SendAll(s, m)
  PROVE  Inv'
<1> USE UdpAssumption
<1> DEFINE uuid == uuids[s] + 1
           sent == Packets(PortOf[s], uuid, m)
<1>1. /\ uuid \in Uuid /\ uuid # Raw
      /\ uuids' = [uuids EXCEPT ![s] = uuid]
      /\ net' = net \cup sent
      /\ names' = [names EXCEPT ![uuid] = @ \cup {m}]
      /\ UNCHANGED receiving
  BY DEF SendAll, Uuid, Raw
<1>2. TypeOK
  BY DEF Inv
<1>3. \A u \in Uuid : names'[u] = IF u = uuid THEN names[u] \cup {m} ELSE names[u]
  BY <1>1, <1>2 DEF TypeOK
<1>4. \A d \in sent : \E i \in 0 .. NumPackets(m) - 1 :
        d = [port |-> PortOf[s], uuid |-> uuid, order |-> i,
             number |-> NumPackets(m), part |-> Part(m, i)]
  BY DEF Packets
<1>5. NumPackets(m) \in Order /\ Order \subseteq Nat
  BY NumPacketsType DEF Order
<1> HIDE DEF uuid, sent
<1>6. \A d \in sent : d \in Datagrams
  <2> SUFFICES ASSUME NEW i \in 0 .. NumPackets(m) - 1
               PROVE  [port |-> PortOf[s], uuid |-> uuid, order |-> i,
                       number |-> NumPackets(m), part |-> Part(m, i)] \in Datagrams
    BY <1>4
  <2>1. i \in Order
    BY <1>5 DEF Order
  <2>2. Part(m, i) \in Parts
    BY <2>1, PartType
  <2> QED
    BY <1>1, <1>5, <2>1, <2>2 DEF Datagrams
<1>7. TypeOK'
  <2>1. uuids' \in [Sender -> 0 .. MaxUuid] /\ names' \in [Uuid -> SUBSET Message]
    BY <1>1, <1>2 DEF TypeOK, Uuid
  <2>2. \A d \in net' : d \in Datagrams
    BY <1>1, <1>2, <1>6 DEF TypeOK
  <2> QED
    BY <1>1, <1>2, <2>1, <2>2 DEF TypeOK, receiving
<1>8. NetInv'
  <2> SUFFICES ASSUME NEW d \in net', d.uuid # Raw
               PROVE  \E n \in names'[d.uuid] :
                        /\ d.number = NumPackets(n) /\ d.order < NumPackets(n)
                        /\ d.part = Part(n, d.order)
    BY <1>1, <1>4 DEF NetInv, Inv
  <2>1. CASE d \in net
    BY <2>1, <1>2, <1>3 DEF Inv, NetInv, TypeOK, Datagrams
  <2>2. CASE d \in sent
    <3>0. PICK i \in 0 .. NumPackets(m) - 1 :
                 d = [port |-> PortOf[s], uuid |-> uuid, order |-> i,
                      number |-> NumPackets(m), part |-> Part(m, i)]
      BY <2>2, <1>4
    <3>1. d.uuid = uuid /\ d.number = NumPackets(m) /\ d.order = i /\ d.part = Part(m, i)
      BY <3>0
    <3>2. m \in names'[d.uuid]
      BY <3>1, <1>1, <1>3
    <3>3. i < NumPackets(m)
      <4>1. NumPackets(m) \in Nat
        BY <1>5
      <4> QED
        BY <4>1
    <3> QED
      BY <3>1, <3>2, <3>3
  <2> QED
    BY <2>1, <2>2, <1>1
<1>9. uuid_buf' = uuid_buf /\ got' = got /\ handed' = handed /\ log' = log
  BY <1>1 DEF receiving
<1>10. TableInv'
  BY <1>3, <1>9 DEF Inv, TableInv
<1>11. OpenInv'
  <2> SUFFICES ASSUME NEW u \in Uuid, NEW n \in Message, names'[u] = {n}, NumPackets(n) # 0
               PROVE  \E i \in 0 .. NumPackets(n) - 1 : uuid_buf[u][i] = Missing
    BY <1>9 DEF OpenInv
  <2>1. names[u] = {n} \/ names[u] = {}
    BY <1>3
  <2>2. CASE names[u] = {}
    <3>1. 0 \in Order /\ 0 \in 0 .. NumPackets(n) - 1
      BY NumPacketsType DEF Order
    <3> QED
      BY <2>2, <3>1 DEF Inv, TableInv
  <2> QED
    BY <2>1, <2>2 DEF Inv, OpenInv
<1>12. LogInv'
  <2> SUFFICES ASSUME NEW p \in Port, NEW k \in 1 .. Len(log[p])
               PROVE  IsWhole(log[p][k])'
    BY <1>9 DEF LogInv
  <2>1. log[p][k] \in Received /\ IsWhole(log[p][k])
    BY <1>2 DEF Inv, LogInv, TypeOK
  <2>2. CASE log[p][k].uuid = Raw
    BY <2>1, <2>2, <1>9 DEF IsWhole
  <2>3. CASE log[p][k].uuid \in Uuid /\ log[p][k].uuid # Raw
    <3> DEFINE u == log[p][k].uuid
    <3>1. names[u] # {} /\ \A n \in Message : names[u] = {n} => log[p][k].parts = Cut(n)
      BY <2>1, <2>3 DEF IsWhole
    <3>2. names'[u] # {} /\ \A n \in Message : names'[u] = {n} => names[u] = {n}
      <4>1. names[u] \subseteq names'[u]
        BY <2>3, <1>3
      <4> QED
        BY <3>1, <4>1
    <3> QED
      BY <2>3, <3>1, <3>2, <1>9 DEF IsWhole
  <2> QED
    BY <2>1, <2>2, <2>3 DEF Received
<1>13. CountInv'
  <2> SUFFICES ASSUME NEW u \in Uuid
      PROVE  /\ names'[u] = {} => handed[u] = 0 /\ \A i \in Order : got[u][i] = 0
             /\ \A n \in Message : names'[u] = {n} =>
                  \A i \in 0 .. NumPackets(n) - 1 :
                    /\ handed[u] + Waiting(u, i) <= got[u][i]
                    /\ uuid_buf[u][i] = Missing /\ got[u][i] > 0 => handed[u] > 0
    BY <1>9 DEF CountInv, Waiting
  <2>1. CASE names'[u] = {}
    BY <2>1, <1>3 DEF Inv, CountInv
  <2>2. ASSUME NEW n \in Message, names'[u] = {n}, NEW i \in 0 .. NumPackets(n) - 1
        PROVE  /\ handed[u] + Waiting(u, i) <= got[u][i]
               /\ uuid_buf[u][i] = Missing /\ got[u][i] > 0 => handed[u] > 0
    <3>1. names[u] = {n} \/ names[u] = {}
      BY <2>2, <1>3
    <3>2. i \in Order
      BY NumPacketsType DEF Order
    <3>3. CASE names[u] = {}
      BY <3>2, <3>3 DEF Inv, CountInv, TableInv, Waiting
    <3> QED
      BY <2>2, <3>1, <3>3 DEF Inv, CountInv
  <2> QED
    BY <2>1, <2>2
<1>14. NewestKept'
  BY <1>1 DEF Inv, NewestKept, receiving
<1> QED
  BY <1>7, <1>8, <1>10, <1>11, <1>12, <1>13, <1>14 DEF Inv

LEMMA SendInv ==
  ASSUME Inv, NEW s \in Sender, NEW m \in Message, Send(s, m)
  PROVE  Inv'
<1> USE UdpAssumption
<1> DEFINE d == RawPacket(PortOf[s], m)
<1>1. net' = net \cup {d} /\ UNCHANGED <<uuids, names, receiving>>
  BY DEF Send
<1>2. d \in Datagrams /\ d.uuid = Raw /\ d.part = RawPart(m)
  BY RawPartType DEF RawPacket, Datagrams, Raw, Order
<1> HIDE DEF d
<1>3. TypeOK'
  BY <1>1, <1>2 DEF Inv, TypeOK, receiving
<1>4. NetInv'
  BY <1>1, <1>2 DEF Inv, NetInv
<1>5. TableInv' /\ OpenInv'
  BY <1>1 DEF Inv, TableInv, OpenInv, receiving
<1>6. LogInv' /\ CountInv'
  BY <1>1 DEF Inv, LogInv, IsWhole, CountInv, Waiting, receiving
<1>7. NewestKept'
  BY <1>1 DEF Inv, NewestKept, receiving
<1> QED
  BY <1>3, <1>4, <1>5, <1>6, <1>7 DEF Inv

LEMMA RestartInv ==
  ASSUME Inv, NEW s \in Sender, Restart(s)
  PROVE  Inv'
<1>1. uuids' = [uuids EXCEPT ![s] = 0] /\ UNCHANGED <<net, names, receiving>>
  BY DEF Restart
<1>2. TypeOK'
  BY <1>1, UdpAssumption DEF Inv, TypeOK, receiving
<1>3. NetInv' /\ TableInv' /\ OpenInv' /\ LogInv' /\ CountInv' /\ NewestKept'
  BY <1>1 DEF Inv, NetInv, TableInv, OpenInv, LogInv, IsWhole, CountInv, Waiting,
              NewestKept, receiving
<1> QED
  BY <1>2, <1>3 DEF Inv

LEMMA CommUpdateInv ==
  ASSUME Inv, NEW p \in Port, CommUpdate(p)
  PROVE  Inv'
<1>1. /\ updating = Nobody /\ updating' = p
      /\ UNCHANGED <<sending, uuid_buf, recv_queue, got, handed, log, last>>
  BY DEF CommUpdate
<1>2. TypeOK'
  BY <1>1 DEF Inv, TypeOK, sending
<1>3. NetInv' /\ TableInv' /\ OpenInv' /\ LogInv' /\ CountInv'
  BY <1>1 DEF Inv, NetInv, TableInv, OpenInv, LogInv, IsWhole, CountInv, Waiting, sending
<1>4. NewestKept'
  BY <1>1, UdpAssumption DEF Inv, NewestKept
<1> QED
  BY <1>2, <1>3, <1>4 DEF Inv

-----------------------------------------------------------------------------
(***************************************************************************)
(* A message enters a queue, and messages leave it.                        *)
(***************************************************************************)
\* The end of a sequence, and what it becomes when the sequence grows.
LEMMA EndEntries ==
  ASSUME NEW S, NEW L \in Seq(S), NEW n \in 0 .. Len(L)
  PROVE  /\ SubSeq(L, n + 1, Len(L)) \in Seq(S)
         /\ Len(SubSeq(L, n + 1, Len(L))) = Len(L) - n
         /\ \A j \in 1 .. Len(L) - n : SubSeq(L, n + 1, Len(L))[j] = L[n + j]
<1>1. Len(L) \in Nat /\ n \in Nat /\ \A i \in n + 1 .. Len(L) : L[i] \in S
  OBVIOUS
<1>2. /\ SubSeq(L, n + 1, Len(L)) \in Seq(S)
      /\ Len(SubSeq(L, n + 1, Len(L))) =
           IF n + 1 <= Len(L) THEN Len(L) - (n + 1) + 1 ELSE 0
      /\ \A j \in 1 .. Len(L) - (n + 1) + 1 :
           SubSeq(L, n + 1, Len(L))[j] = L[(n + 1) + j - 1]
  BY <1>1, SubSeqProperties
<1>3. Len(L) - (n + 1) + 1 = Len(L) - n
  BY <1>1
<1>4. \A j \in 1 .. Len(L) - n : (n + 1) + j - 1 = n + j
  BY <1>1
<1>5. (IF n + 1 <= Len(L) THEN Len(L) - (n + 1) + 1 ELSE 0) = Len(L) - n
  BY <1>1
<1>6. Len(SubSeq(L, n + 1, Len(L))) = Len(L) - n
  BY <1>2, <1>5
<1>7. \A j \in 1 .. Len(L) - n : SubSeq(L, n + 1, Len(L))[j] = L[n + j]
  BY <1>2, <1>3, <1>4
<1> QED
  BY <1>2, <1>6, <1>7

LEMMA EndGrows ==
  ASSUME NEW S, NEW L \in Seq(S), NEW e \in S, NEW n \in 0 .. Len(L)
  PROVE  Append(SubSeq(L, n + 1, Len(L)), e) = SubSeq(Append(L, e), n + 1, Len(L) + 1)
<1> DEFINE Q == SubSeq(L, n + 1, Len(L))
           M == Append(L, e)
           R == SubSeq(M, n + 1, Len(M))
<1>1. /\ Q \in Seq(S) /\ Len(Q) = Len(L) - n
      /\ \A j \in 1 .. Len(L) - n : Q[j] = L[n + j]
  BY EndEntries
<1>2. M \in Seq(S) /\ Len(M) = Len(L) + 1 /\ M[Len(L) + 1] = e
      /\ \A j \in 1 .. Len(L) : M[j] = L[j]
  OBVIOUS
<1> HIDE DEF Q, M
<1>3. n \in 0 .. Len(M) /\ Len(L) \in Nat /\ n \in Nat
  BY <1>2
<1>4. /\ R \in Seq(S) /\ Len(R) = Len(M) - n
      /\ \A j \in 1 .. Len(M) - n : R[j] = M[n + j]
  BY <1>2, <1>3, EndEntries
<1>5. Append(Q, e) \in Seq(S) /\ Len(Append(Q, e)) = Len(Q) + 1
      /\ Append(Q, e)[Len(Q) + 1] = e /\ \A j \in 1 .. Len(Q) : Append(Q, e)[j] = Q[j]
  BY <1>1
<1>6. ASSUME NEW j \in 1 .. Len(Q) + 1 PROVE Append(Q, e)[j] = R[j]
  <2>1. j \in 1 .. Len(M) - n
    BY <1>1, <1>2, <1>3
  <2>2. CASE j = Len(Q) + 1
    <3>1. n + j = Len(L) + 1
      BY <2>2, <1>1, <1>3
    <3> QED
      BY <2>1, <2>2, <3>1, <1>2, <1>4, <1>5
  <2>3. CASE j \in 1 .. Len(Q)
    <3>1. n + j \in 1 .. Len(L) /\ j \in 1 .. Len(L) - n
      BY <2>3, <1>1, <1>3
    <3> QED
      BY <2>1, <2>3, <3>1, <1>1, <1>2, <1>4, <1>5
  <2>4. Len(Q) \in Nat
    BY <1>1
  <2>5. j = Len(Q) + 1 \/ j \in 1 .. Len(Q)
    BY <2>4
  <2> QED
    BY <2>2, <2>3, <2>5
<1>7. Len(R) = Len(Q) + 1
  BY <1>1, <1>2, <1>3, <1>4
<1>8. Append(Q, e) = R
  BY <1>4, <1>5, <1>6, <1>7, SeqEqual
<1> QED
  BY <1>2, <1>8 DEF Q, M

LEMMA EnqueueInv ==
  ASSUME TypeOK, NewestKept, LogInv, NEW p \in Port, p = updating, UNCHANGED <<updating, last, names>>,
         NEW uuid \in Uuid \cup {Raw}, NEW parts,
         [uuid |-> uuid, parts |-> parts] \in Received,
         IsWhole([uuid |-> uuid, parts |-> parts]),
         Enqueue(p, uuid, parts)
  PROVE  /\ recv_queue' \in [Port -> Seq(Received)] /\ log' \in [Port -> Seq(Received)]
         /\ NewestKept' /\ LogInv'
<1> DEFINE e == [uuid |-> uuid, parts |-> parts]
<1>1. /\ recv_queue' = [recv_queue EXCEPT ![p] = Append(@, e)]
      /\ log' = [log EXCEPT ![p] = Append(@, e)]
      /\ e \in Received /\ IsWhole(e)
  BY DEF Enqueue
<1> HIDE DEF e
<1>2. recv_queue' \in [Port -> Seq(Received)] /\ log' \in [Port -> Seq(Received)]
  BY <1>1 DEF TypeOK
<1>3. NewestKept'
  <2> SUFFICES ASSUME NEW q \in Port
      PROVE LET queued == Len(recv_queue'[q])
                passed == Len(log'[q]) - queued
            IN  /\ passed >= 0
                /\ recv_queue'[q] = SubSeq(log'[q], passed + 1, Len(log'[q]))
                /\ last[q] <= passed
                /\ last[q] < passed => queued >= maxQueueSize
                /\ updating # q => queued <= maxQueueSize
    BY DEF NewestKept
  <2>1. CASE q # p
    BY <2>1, <1>1 DEF NewestKept, TypeOK
  <2>2. CASE q = p
    <3> DEFINE Q == recv_queue[p]
               L == log[p]
               n == Len(L) - Len(Q)
    <3>1. Q \in Seq(Received) /\ L \in Seq(Received) /\ last[p] \in Nat
      BY DEF TypeOK
    <3>2. /\ n >= 0 /\ Q = SubSeq(L, n + 1, Len(L)) /\ last[p] <= n
          /\ last[p] < n => Len(Q) >= maxQueueSize
      BY DEF NewestKept
    <3>3. recv_queue'[p] = Append(Q, e) /\ log'[p] = Append(L, e)
      BY <1>1 DEF TypeOK
    <3> HIDE DEF Q, L
    <3>4. Len(Append(Q, e)) = Len(Q) + 1 /\ Len(Append(L, e)) = Len(L) + 1
      BY <1>1, <3>1
    <3>5. Append(Q, e) = SubSeq(Append(L, e), n + 1, Len(L) + 1)
      <4>1. Len(L) \in Nat /\ Len(Q) \in Nat
        BY <3>1
      <4>2. n \in 0 .. Len(L)
        BY <3>2, <4>1
      <4> HIDE DEF n
      <4> QED
        BY <1>1, <3>1, <3>2, <4>2, EndGrows
    <3>6. maxQueueSize \in Nat
      BY UdpAssumption
    <3> QED
      BY <2>2, <3>1, <3>2, <3>3, <3>4, <3>5, <3>6
  <2> QED
    BY <2>1, <2>2
<1>4. LogInv'
  <2> SUFFICES ASSUME NEW q \in Port, NEW k \in 1 .. Len(log'[q])
               PROVE  IsWhole(log'[q][k])
    BY DEF LogInv, IsWhole
  <2>1. log[q] \in Seq(Received)
    BY DEF TypeOK
  <2>2. CASE q = p /\ k = Len(log[p]) + 1
    BY <2>1, <2>2, <1>1 DEF TypeOK
  <2>3. CASE log'[q][k] = log[q][k] /\ k \in 1 .. Len(log[q])
    BY <2>3 DEF LogInv
  <2> QED
    BY <2>1, <2>2, <2>3, <1>1 DEF TypeOK
<1> QED
  BY <1>2, <1>3, <1>4

\* What is left of a queue is its end.
LEMMA TrimmedEnd ==
  ASSUME NEW Q \in Seq(Received)
  PROVE  /\ Trimmed(Q) \in Seq(Received)
         /\ Len(Trimmed(Q)) <= Len(Q) /\ Len(Trimmed(Q)) <= maxQueueSize
         /\ Len(Trimmed(Q)) < Len(Q) => Len(Trimmed(Q)) = maxQueueSize
         /\ Trimmed(Q) = SubSeq(Q, Len(Q) - Len(Trimmed(Q)) + 1, Len(Q))
<1>1. maxQueueSize \in Nat
  BY UdpAssumption
<1>2. CASE Len(Q) <= maxQueueSize
  <2>1. Trimmed(Q) = Q
    BY <1>1, <1>2 DEF Trimmed
  <2>2. SubSeq(Q, 1, Len(Q)) = Q
    OBVIOUS
  <2>3. Len(Q) \in Nat /\ Len(Q) - Len(Trimmed(Q)) + 1 = 1
    BY <2>1
  <2>4. Trimmed(Q) = SubSeq(Q, Len(Q) - Len(Trimmed(Q)) + 1, Len(Q))
    BY <2>1, <2>2, <2>3
  <2>5. Len(Trimmed(Q)) = Len(Q) /\ Trimmed(Q) \in Seq(Received)
    BY <2>1
  <2>6. Len(Trimmed(Q)) <= Len(Q) /\ Len(Trimmed(Q)) <= maxQueueSize
    BY <1>2, <2>3, <2>5
  <2>7. ~(Len(Trimmed(Q)) < Len(Q))
    BY <2>3, <2>5
  <2> QED
    BY <2>4, <2>5, <2>6, <2>7
<1>3. CASE Len(Q) > maxQueueSize
  <2>1. Trimmed(Q) = SubSeq(Q, Len(Q) - maxQueueSize + 1, Len(Q))
    BY <1>3 DEF Trimmed, Newest
  <2>2. Len(Trimmed(Q)) = maxQueueSize /\ Trimmed(Q) \in Seq(Received)
    BY <1>1, <1>3, <2>1
  <2>3. Trimmed(Q) = SubSeq(Q, Len(Q) - Len(Trimmed(Q)) + 1, Len(Q))
    BY <2>1, <2>2
  <2> QED
    BY <1>1, <1>3, <2>2, <2>3
<1> QED
  BY <1>1, <1>2, <1>3

\* The end of the end of a sequence.
LEMMA EndOfEnd ==
  ASSUME NEW L \in Seq(Received), NEW n \in 0 .. Len(L), NEW k \in 0 .. Len(L) - n
  PROVE  LET Q == SubSeq(L, n + 1, Len(L))
         IN  SubSeq(Q, k + 1, Len(Q)) = SubSeq(L, n + k + 1, Len(L))
<1> DEFINE Q == SubSeq(L, n + 1, Len(L))
           A == SubSeq(Q, k + 1, Len(Q))
           B == SubSeq(L, (n + k) + 1, Len(L))
<1>1. /\ Q \in Seq(Received) /\ Len(Q) = Len(L) - n
      /\ \A j \in 1 .. Len(L) - n : Q[j] = L[n + j]
  BY EndEntries
<1>2. Len(L) \in Nat /\ n \in Nat /\ k \in Nat /\ n + k \in 0 .. Len(L)
  OBVIOUS
<1> HIDE DEF Q
<1>3. k \in 0 .. Len(Q)
  BY <1>1, <1>2
<1>4. /\ A \in Seq(Received) /\ Len(A) = Len(Q) - k
      /\ \A j \in 1 .. Len(Q) - k : A[j] = Q[k + j]
  BY <1>1, <1>3, EndEntries
<1>5. /\ B \in Seq(Received) /\ Len(B) = Len(L) - (n + k)
      /\ \A j \in 1 .. Len(L) - (n + k) : B[j] = L[(n + k) + j]
  BY <1>2, EndEntries
<1>6. ASSUME NEW j \in 1 .. Len(A) PROVE A[j] = B[j]
  <2>1. /\ j \in 1 .. Len(Q) - k /\ k + j \in 1 .. Len(L) - n
        /\ j \in 1 .. Len(L) - (n + k) /\ n + (k + j) = (n + k) + j
    BY <1>1, <1>2, <1>4
  <2> QED
    BY <2>1, <1>1, <1>4, <1>5
<1>7. Len(A) = Len(B)
  BY <1>1, <1>2, <1>4, <1>5
<1>8. A = B
  BY <1>4, <1>5, <1>6, <1>7, SeqEqual
<1> QED
  BY <1>8 DEF Q

-----------------------------------------------------------------------------
(***************************************************************************)
(* The steps of the receiver.                                              *)
(***************************************************************************)
LEMMA PacketRawInv ==
  ASSUME Inv, NEW d \in net, PacketRaw(d)
  PROVE  Inv'
<1> USE UdpAssumption
<1>1. /\ d.port = updating /\ d.uuid = Raw
      /\ Enqueue(d.port, Raw, [i \in 0 .. 0 |-> d.part])
      /\ UNCHANGED <<sending, uuid_buf, updating, got, handed, last>>
  BY DEF PacketRaw
<1>2. PICK m \in Message : d.part = RawPart(m)
  BY <1>1 DEF Inv, NetInv
<1>3. d \in Datagrams /\ d.port \in Port
  BY DEF Inv, TypeOK, Datagrams
<1> DEFINE parts == [i \in 0 .. 0 |-> d.part]
<1>4. [uuid |-> Raw, parts |-> parts] \in Received
  <2>1. 1 \in Order /\ 0 .. 0 = 0 .. 1 - 1
    BY DEF Order
  <2>2. parts \in [0 .. 1 - 1 -> Parts \cup {Missing}]
    BY <2>1, <1>3 DEF Datagrams
  <2> QED
    BY <2>1, <2>2 DEF Received
<1>5. IsWhole([uuid |-> Raw, parts |-> parts])
  BY <1>2 DEF IsWhole
<1> HIDE DEF parts
<1>6. /\ recv_queue' \in [Port -> Seq(Received)] /\ log' \in [Port -> Seq(Received)]
      /\ NewestKept' /\ LogInv'
  BY <1>1, <1>3, <1>4, <1>5, EnqueueInv DEF Inv, sending, parts
<1>7. TypeOK'
  BY <1>1, <1>6 DEF Inv, TypeOK, sending
<1>8. NetInv' /\ TableInv' /\ OpenInv' /\ CountInv'
  BY <1>1 DEF Inv, NetInv, TableInv, OpenInv, CountInv, Waiting, sending
<1> QED
  BY <1>6, <1>7, <1>8 DEF Inv

\* A datagram of a uuid with one message is one of that message.
LEMMA OfTheMessage ==
  ASSUME Inv, NEW d \in net, d.uuid # Raw
  PROVE  /\ d \in Datagrams /\ d.uuid \in Uuid /\ d.port \in Port /\ d.order \in Order
         /\ d.part \in Parts /\ d.part # Missing /\ d.number \in Order
         /\ \E m \in names[d.uuid] :
              d.number = NumPackets(m) /\ d.order < NumPackets(m) /\ d.part = Part(m, d.order)
         /\ names[d.uuid] \subseteq Message
         /\ \A m \in Message : names[d.uuid] = {m} =>
              d.number = NumPackets(m) /\ d.order < NumPackets(m) /\ d.part = Part(m, d.order)
<1>1. /\ d \in Datagrams /\ d.uuid \in Uuid /\ d.port \in Port /\ d.order \in Order
      /\ d.part \in Parts /\ d.number \in Order /\ names[d.uuid] \subseteq Message
  BY DEF Inv, TypeOK, Datagrams
<1>2. PICK m \in names[d.uuid] :
        d.number = NumPackets(m) /\ d.order < NumPackets(m) /\ d.part = Part(m, d.order)
  BY DEF Inv, NetInv
<1>3. d.part # Missing
  BY <1>1, <1>2, PartType
<1> QED
  BY <1>1, <1>2, <1>3

LEMMA CountStep ==
  ASSUME TypeOK, NEW d, d.uuid \in Uuid, d.order \in Order, Count(d)
  PROVE  /\ got' \in [Uuid -> [Order -> Nat]]
         /\ \A u \in Uuid, i \in Order :
              got'[u][i] = IF u = d.uuid /\ i = d.order THEN got[u][i] + 1 ELSE got[u][i]
BY DEF TypeOK, Count

LEMMA PacketOnlyInv ==
  ASSUME Inv, NEW d \in net, PacketOnly(d)
  PROVE  Inv'
<1> USE UdpAssumption
<1> DEFINE u == d.uuid
           parts == [i \in 0 .. 0 |-> d.part]
<1>1. /\ d.port = updating /\ u # Raw /\ d.number = 1
      /\ Enqueue(d.port, u, parts)
      /\ handed' = [handed EXCEPT ![u] = @ + 1]
      /\ Count(d)
      /\ UNCHANGED <<sending, uuid_buf, updating, last>>
  BY DEF PacketOnly
<1>2. TypeOK /\ NewestKept /\ LogInv
  BY DEF Inv
<1>3. /\ u \in Uuid /\ d.port \in Port /\ d.order \in Order /\ d.part \in Parts
      /\ \E m \in names[u] :
           d.number = NumPackets(m) /\ d.order < NumPackets(m) /\ d.part = Part(m, d.order)
      /\ \A m \in Message : names[u] = {m} =>
           d.number = NumPackets(m) /\ d.order < NumPackets(m) /\ d.part = Part(m, d.order)
  BY <1>1, OfTheMessage
<1>4. d.order = 0
  BY <1>1, <1>3 DEF Order
<1>5. \A m \in Message : names[u] = {m} => parts = Cut(m)
  BY <1>1, <1>3, <1>4 DEF Cut
<1>6. [uuid |-> u, parts |-> parts] \in Received
  <2>1. 1 \in Order /\ 0 .. 0 = 0 .. 1 - 1
    BY DEF Order
  <2>2. parts \in [0 .. 1 - 1 -> Parts \cup {Missing}]
    BY <2>1, <1>3
  <2> QED
    BY <2>1, <2>2, <1>3 DEF Received
<1>7. IsWhole([uuid |-> u, parts |-> parts])
  BY <1>1, <1>3, <1>5 DEF IsWhole
<1> HIDE DEF parts, u
<1>8. /\ recv_queue' \in [Port -> Seq(Received)] /\ log' \in [Port -> Seq(Received)]
      /\ NewestKept' /\ LogInv'
  BY <1>1, <1>2, <1>3, <1>6, <1>7, EnqueueInv DEF sending
<1>9. /\ got' \in [Uuid -> [Order -> Nat]]
      /\ \A v \in Uuid, i \in Order :
           got'[v][i] = IF v = u /\ i = d.order THEN got[v][i] + 1 ELSE got[v][i]
  BY <1>1, <1>2, <1>3, CountStep DEF u
<1>10. /\ handed' \in [Uuid -> Nat]
       /\ \A v \in Uuid : handed'[v] = IF v = u THEN handed[v] + 1 ELSE handed[v]
  BY <1>1, <1>2, <1>3 DEF TypeOK
<1>11. TypeOK'
  BY <1>1, <1>2, <1>8, <1>9, <1>10 DEF TypeOK, sending
<1>12. NetInv' /\ TableInv' /\ OpenInv'
  BY <1>1 DEF Inv, NetInv, TableInv, OpenInv, sending
<1>13. CountInv'
  <2> SUFFICES ASSUME NEW v \in Uuid
      PROVE  /\ names[v] = {} => handed'[v] = 0 /\ \A i \in Order : got'[v][i] = 0
             /\ \A m \in Message : names[v] = {m} =>
                  \A i \in 0 .. NumPackets(m) - 1 :
                    /\ handed'[v] + Waiting(v, i) <= got'[v][i]
                    /\ uuid_buf[v][i] = Missing /\ got'[v][i] > 0 => handed'[v] > 0
    BY <1>1 DEF CountInv, Waiting, sending
  <2>1. CASE v # u
    <3>1. \A m \in Message : \A i \in 0 .. NumPackets(m) - 1 : i \in Order
      BY NumPacketsType DEF Order
    <3> QED
      BY <2>1, <3>1, <1>9, <1>10 DEF Inv, CountInv
  <2>2. ASSUME v = u, NEW m \in Message, names[v] = {m}, NEW i \in 0 .. NumPackets(m) - 1
        PROVE  /\ handed'[v] + Waiting(v, i) <= got'[v][i]
               /\ uuid_buf[v][i] = Missing /\ got'[v][i] > 0 => handed'[v] > 0
    <3>1. NumPackets(m) = 1 /\ i = 0 /\ i \in Order
      BY <2>2, <1>1, <1>3 DEF Order
    <3>2. handed[v] + Waiting(v, i) <= got[v][i]
      BY <2>2 DEF Inv, CountInv
    <3>3. handed[v] \in Nat /\ got[v][i] \in Nat /\ Waiting(v, i) \in Nat
      BY <3>1, <1>2 DEF TypeOK, Waiting
    <3> QED
      BY <2>2, <3>1, <3>2, <3>3, <1>4, <1>9, <1>10
  <2> QED
    BY <2>1, <2>2, <1>3
<1> QED
  BY <1>8, <1>11, <1>12, <1>13 DEF Inv

\* The parts of 0 .. n - 1 are n only if all of them are there.
LEMMA AllHeld ==
  ASSUME NEW parts, NEW n \in Order,
         \A i \in Order : parts[i] # Missing => i < n
  PROVE  PartsHeld(parts) = n <=> \A i \in 0 .. n - 1 : parts[i] # Missing
<1> DEFINE held == {i \in Order : parts[i] # Missing}
           ids == 0 .. n - 1
<1>1. n \in Nat /\ CountSize \in Nat
  BY UdpAssumption DEF Order
<1>2. held \subseteq ids /\ ids \subseteq Order
  BY <1>1 DEF Order
<1>3. IsFiniteSet(ids) /\ Cardinality(ids) = n
  <2>1. n - 1 \in Int /\ (IF 0 > n - 1 THEN 0 ELSE n - 1 - 0 + 1) = n
    BY <1>1
  <2>2. IsFiniteSet(ids) /\ Cardinality(ids) = IF 0 > n - 1 THEN 0 ELSE n - 1 - 0 + 1
    BY <2>1, FS_Interval
  <2> QED
    BY <2>1, <2>2
<1>4. IsFiniteSet(held) /\ (Cardinality(held) = n => held = ids)
  BY <1>2, <1>3, FS_Subset
<1>5. PartsHeld(parts) = Cardinality(held)
  BY DEF PartsHeld
<1>6. (held = ids) <=> \A i \in ids : parts[i] # Missing
  BY <1>2
<1> QED
  BY <1>3, <1>4, <1>5, <1>6

LEMMA PacketPartInv ==
  ASSUME Inv, NEW d \in net, PacketPart(d)
  PROVE  Inv'
<1> USE UdpAssumption
<1> DEFINE u == d.uuid
           o == d.order
           parts == With(uuid_buf[u], d)
           out == [i \in 0 .. d.number - 1 |-> parts[i]]
           full == PartsHeld(parts) = d.number
<1>1. /\ d.port = updating /\ u # Raw /\ d.number # 1
      /\ IF full
         THEN /\ Enqueue(d.port, u, out)
              /\ uuid_buf' = [uuid_buf EXCEPT ![u] = NoParts]
              /\ handed' = [handed EXCEPT ![u] = @ + 1]
         ELSE /\ uuid_buf' = [uuid_buf EXCEPT ![u] = parts]
              /\ UNCHANGED <<recv_queue, handed, log>>
      /\ Count(d)
      /\ UNCHANGED <<sending, updating, last>>
  BY DEF PacketPart, Cleared
<1>2. TypeOK /\ NewestKept /\ LogInv /\ TableInv
  BY DEF Inv
<1>3. /\ u \in Uuid /\ d.port \in Port /\ o \in Order /\ d.part \in Parts /\ d.part # Missing
      /\ d.number \in Order /\ names[u] \subseteq Message
      /\ \E m \in names[u] :
           d.number = NumPackets(m) /\ o < NumPackets(m) /\ d.part = Part(m, o)
      /\ \A m \in Message : names[u] = {m} =>
           d.number = NumPackets(m) /\ o < NumPackets(m) /\ d.part = Part(m, o)
  BY <1>1, OfTheMessage
<1>4. uuid_buf[u] \in [Order -> Parts \cup {Missing}]
  BY <1>2, <1>3 DEF TypeOK
<1>5. /\ parts \in [Order -> Parts \cup {Missing}]
      /\ \A i \in Order :
           parts[i] = IF i = o /\ uuid_buf[u][o] = Missing THEN d.part ELSE uuid_buf[u][i]
  BY <1>3, <1>4 DEF With
\* What the table holds of u, with the new part, are parts of its messages.
<1>6. \A i \in Order : parts[i] # Missing =>
        \E m \in names[u] : NumPackets(m) # 1 /\ i < NumPackets(m) /\ parts[i] = Part(m, i)
  BY <1>1, <1>2, <1>3, <1>5 DEF TableInv
<1>7. \A m \in Message : names[u] = {m} =>
        \A i \in Order : parts[i] # Missing => i < NumPackets(m) /\ parts[i] = Part(m, i)
  BY <1>6
<1>8. \A m \in Message : names[u] = {m} =>
        (full <=> \A i \in 0 .. NumPackets(m) - 1 : parts[i] # Missing)
  <2> SUFFICES ASSUME NEW m \in Message, names[u] = {m}
               PROVE  full <=> \A i \in 0 .. NumPackets(m) - 1 : parts[i] # Missing
    OBVIOUS
  <2>1. d.number = NumPackets(m) /\ \A i \in Order : parts[i] # Missing => i < d.number
    BY <1>3, <1>7
  <2> HIDE DEF parts
  <2> QED
    BY <2>1, <1>3, AllHeld
<1>9. full => [uuid |-> u, parts |-> out] \in Received
  <2>1. 0 .. d.number - 1 \subseteq Order
    BY <1>3 DEF Order
  <2>2. out \in [0 .. d.number - 1 -> Parts \cup {Missing}]
    BY <2>1, <1>5
  <2> QED
    BY <2>2, <1>3 DEF Received
<1>10. full => IsWhole([uuid |-> u, parts |-> out])
  <2> SUFFICES ASSUME full, NEW m \in Message, names[u] = {m} PROVE out = Cut(m)
    BY <1>1, <1>3 DEF IsWhole
  <2>1. d.number = NumPackets(m) /\ 0 .. d.number - 1 \subseteq Order
    BY <1>3 DEF Order
  <2>2. \A i \in 0 .. d.number - 1 : parts[i] = Part(m, i)
    BY <2>1, <1>7, <1>8
  <2> QED
    BY <2>1, <2>2 DEF Cut
<1> HIDE DEF parts, out, full, u, o
<1>11. /\ recv_queue' \in [Port -> Seq(Received)] /\ log' \in [Port -> Seq(Received)]
       /\ NewestKept' /\ LogInv'
  <2>1. CASE full
    BY <2>1, <1>1, <1>2, <1>3, <1>9, <1>10, EnqueueInv DEF sending
  <2>2. CASE ~full
    <3>1. UNCHANGED <<recv_queue, log, last, updating, names>>
      BY <2>2, <1>1 DEF sending
    <3>2. NewestKept'
      BY <3>1, <1>2 DEF NewestKept
    <3>3. LogInv'
      BY <3>1, <1>2 DEF LogInv, IsWhole
    <3> QED
      BY <3>1, <3>2, <3>3, <1>2 DEF TypeOK
  <2> QED
    BY <2>1, <2>2
<1>12. /\ got' \in [Uuid -> [Order -> Nat]]
       /\ \A v \in Uuid, i \in Order :
            got'[v][i] = IF v = u /\ i = o THEN got[v][i] + 1 ELSE got[v][i]
  BY <1>1, <1>2, <1>3, CountStep DEF u, o
<1>13. /\ handed' \in [Uuid -> Nat]
       /\ \A v \in Uuid : handed'[v] = IF full /\ v = u THEN handed[v] + 1 ELSE handed[v]
  <2>1. handed \in [Uuid -> Nat]
    BY <1>2 DEF TypeOK
  <2>2. CASE full
    BY <2>1, <2>2, <1>1, <1>3
  <2>3. CASE ~full
    BY <2>1, <2>3, <1>1
  <2> QED
    BY <2>2, <2>3
<1>14. NoParts \in [Order -> Parts \cup {Missing}] /\ \A i \in Order : NoParts[i] = Missing
  BY DEF NoParts
<1>15. /\ uuid_buf' \in [Uuid -> [Order -> Parts \cup {Missing}]]
       /\ \A v \in Uuid : uuid_buf'[v] = IF v # u THEN uuid_buf[v]
                                         ELSE IF full THEN NoParts ELSE parts
  BY <1>1, <1>2, <1>3, <1>5, <1>14 DEF TypeOK
<1>16. TypeOK'
  BY <1>1, <1>2, <1>11, <1>12, <1>13, <1>15 DEF TypeOK, sending
<1>17. NetInv'
  BY <1>1 DEF Inv, NetInv, sending
<1>18. TableInv'
  <2> SUFFICES ASSUME NEW v \in Uuid, NEW i \in Order, uuid_buf'[v][i] # Missing
               PROVE  \E m \in names[v] : /\ NumPackets(m) # 1 /\ i < NumPackets(m)
                                          /\ uuid_buf'[v][i] = Part(m, i)
    BY <1>1 DEF TableInv, sending
  <2>1. CASE v # u
    BY <2>1, <1>2, <1>15 DEF TableInv
  <2>2. CASE v = u
    BY <2>2, <1>3, <1>6, <1>14, <1>15
  <2> QED
    BY <2>1, <2>2
<1>19. OpenInv'
  <2> SUFFICES ASSUME NEW v \in Uuid, NEW m \in Message, names[v] = {m}, NumPackets(m) # 0
               PROVE  \E i \in 0 .. NumPackets(m) - 1 : uuid_buf'[v][i] = Missing
    BY <1>1 DEF OpenInv, sending
  <2>1. CASE v # u
    BY <2>1, <1>15 DEF Inv, OpenInv
  <2>2. CASE v = u /\ full
    <3>1. 0 \in Order /\ 0 \in 0 .. NumPackets(m) - 1
      BY NumPacketsType DEF Order
    <3> QED
      BY <2>2, <3>1, <1>14, <1>15
  <2>3. CASE v = u /\ ~full
    BY <2>3, <1>8, <1>15
  <2> QED
    BY <2>1, <2>2, <2>3
<1>20. CountInv'
  <2> DEFINE W(v, i) == IF uuid_buf'[v][i] = Missing THEN 0 ELSE 1
  <2> SUFFICES ASSUME NEW v \in Uuid
      PROVE  /\ names[v] = {} => handed'[v] = 0 /\ \A i \in Order : got'[v][i] = 0
             /\ \A m \in Message : names[v] = {m} =>
                  \A i \in 0 .. NumPackets(m) - 1 :
                    /\ handed'[v] + W(v, i) <= got'[v][i]
                    /\ uuid_buf'[v][i] = Missing /\ got'[v][i] > 0 => handed'[v] > 0
    BY <1>1 DEF CountInv, Waiting, sending
  <2>1. CASE v # u
    <3>1. \A m \in Message : \A i \in 0 .. NumPackets(m) - 1 : i \in Order
      BY NumPacketsType DEF Order
    <3>2. /\ names[v] = {} => handed[v] = 0 /\ \A i \in Order : got[v][i] = 0
          /\ \A m \in Message : names[v] = {m} =>
               \A i \in 0 .. NumPackets(m) - 1 :
                 /\ handed[v] + Waiting(v, i) <= got[v][i]
                 /\ uuid_buf[v][i] = Missing /\ got[v][i] > 0 => handed[v] > 0
      BY DEF Inv, CountInv
    <3>3. \A i \in Order : W(v, i) = Waiting(v, i)
      BY <2>1, <1>15 DEF Waiting
    <3> QED
      BY <2>1, <3>1, <3>2, <3>3, <1>12, <1>13, <1>15
  <2>2. ASSUME v = u, NEW m \in Message, names[v] = {m}, NEW i \in 0 .. NumPackets(m) - 1
        PROVE  /\ handed'[v] + W(v, i) <= got'[v][i]
               /\ uuid_buf'[v][i] = Missing /\ got'[v][i] > 0 => handed'[v] > 0
    <3>1. i \in Order
      BY NumPacketsType DEF Order
    <3>2. /\ handed[v] + Waiting(v, i) <= got[v][i]
          /\ uuid_buf[v][i] = Missing /\ got[v][i] > 0 => handed[v] > 0
      BY <2>2 DEF Inv, CountInv
    <3>3. handed[v] \in Nat /\ got[v][i] \in Nat
      BY <3>1, <1>2 DEF TypeOK
    <3>4. got'[v][i] = IF i = o THEN got[v][i] + 1 ELSE got[v][i]
      BY <2>2, <3>1, <1>12
    <3>5. parts[i] = IF i = o /\ uuid_buf[u][o] = Missing THEN d.part ELSE uuid_buf[u][i]
      BY <3>1, <1>5
    <3>6. CASE full
      <4>1. parts[i] # Missing
        BY <2>2, <3>6, <1>8
      <4>2. uuid_buf'[v][i] = Missing /\ handed'[v] = handed[v] + 1
        BY <2>2, <3>1, <3>6, <1>13, <1>14, <1>15
      <4>3. i = o \/ uuid_buf[v][i] # Missing
        BY <2>2, <4>1, <3>5
      <4> QED
        BY <4>2, <4>3, <3>2, <3>3, <3>4 DEF Waiting
    <3>7. CASE ~full
      <4>1. uuid_buf'[v][i] = parts[i] /\ handed'[v] = handed[v]
        BY <2>2, <3>7, <1>13, <1>15
      <4>2. CASE i = o
        <5>1. parts[i] # Missing
          BY <2>2, <4>2, <3>5, <1>3
        <5> QED
          BY <4>1, <4>2, <5>1, <3>2, <3>3, <3>4 DEF Waiting
      <4>3. CASE i # o
        BY <2>2, <4>1, <4>3, <3>2, <3>4, <3>5 DEF Waiting
      <4> QED
        BY <4>2, <4>3
    <3> QED
      BY <3>6, <3>7
  <2> QED
    BY <2>1, <2>2, <1>3
<1> QED
  BY <1>11, <1>16, <1>17, <1>18, <1>19, <1>20 DEF Inv

(***************************************************************************)
(* The end of comm_update and what size and receive do then.               *)
(***************************************************************************)
LEMMA SizeReturnsInv ==
  ASSUME Inv, SizeReturns
  PROVE  Inv'
<1> USE UdpAssumption
<1> DEFINE p == updating
           Q == recv_queue[p]
           T == Trimmed(Q)
           L == log[p]
           n == Len(L) - Len(Q)
           k == Len(Q) - Len(T)
<1>1. /\ p # Nobody /\ updating' = Nobody
      /\ recv_queue' = [recv_queue EXCEPT ![p] = T]
      /\ UNCHANGED <<sending, uuid_buf, got, handed, log, last>>
  BY DEF SizeReturns
<1>2. TypeOK /\ NewestKept
  BY DEF Inv
<1>3. p \in Port /\ Q \in Seq(Received) /\ L \in Seq(Received) /\ last[p] \in Nat
  BY <1>1, <1>2 DEF TypeOK
<1>4. /\ T \in Seq(Received) /\ Len(T) <= Len(Q) /\ Len(T) <= maxQueueSize
      /\ (Len(T) < Len(Q) => Len(T) = maxQueueSize)
      /\ T = SubSeq(Q, k + 1, Len(Q))
  BY <1>3, TrimmedEnd
<1>5. /\ n >= 0 /\ Q = SubSeq(L, n + 1, Len(L)) /\ last[p] <= n
      /\ (last[p] < n => Len(Q) >= maxQueueSize)
  BY <1>2, <1>3 DEF NewestKept
<1>6. Len(L) \in Nat /\ Len(Q) \in Nat /\ Len(T) \in Nat /\ maxQueueSize \in Nat
  BY <1>3, <1>4
<1> HIDE DEF p, Q, T, L
<1>7. n \in 0 .. Len(L) /\ k \in 0 .. Len(L) - n /\ n + k = Len(L) - Len(T)
  BY <1>4, <1>5, <1>6
<1>8. T = SubSeq(L, (Len(L) - Len(T)) + 1, Len(L))
  BY <1>3, <1>4, <1>5, <1>7, EndOfEnd
<1> HIDE DEF n, k
<1>9. TypeOK'
  BY <1>1, <1>2, <1>3, <1>4 DEF TypeOK, sending
<1>10. NetInv' /\ TableInv' /\ OpenInv'
  BY <1>1 DEF Inv, NetInv, TableInv, OpenInv, sending
<1>11. LogInv' /\ CountInv'
  BY <1>1 DEF Inv, LogInv, IsWhole, CountInv, Waiting, sending
<1>12. NewestKept'
  <2> SUFFICES ASSUME NEW q \in Port
      PROVE LET queued == Len(recv_queue'[q])
                passed == Len(log[q]) - queued
            IN  /\ passed >= 0
                /\ recv_queue'[q] = SubSeq(log[q], passed + 1, Len(log[q]))
                /\ last[q] <= passed
                /\ last[q] < passed => queued >= maxQueueSize
                /\ queued <= maxQueueSize
    BY <1>1 DEF NewestKept
  <2>1. CASE q # p
    BY <2>1, <1>1, <1>2 DEF NewestKept, TypeOK, p
  <2>2. CASE q = p
    <3>1. recv_queue'[q] = T /\ log[q] = L
      BY <2>2, <1>1, <1>2 DEF TypeOK, L
    <3>2. Len(L) - Len(T) >= 0 /\ last[p] <= Len(L) - Len(T)
      BY <1>3, <1>5, <1>6, <1>7
    <3>3. last[p] < Len(L) - Len(T) => Len(T) >= maxQueueSize
      BY <1>3, <1>4, <1>5, <1>6, <1>7 DEF n
    <3> QED
      BY <2>2, <3>1, <3>2, <3>3, <1>4, <1>8
  <2> QED
    BY <2>1, <2>2
<1> QED
  BY <1>9, <1>10, <1>11, <1>12 DEF Inv

LEMMA ReceiveReturnsInv ==
  ASSUME Inv, ReceiveReturns
  PROVE  Inv'
<1> USE UdpAssumption
<1> DEFINE p == updating
           Q == recv_queue[p]
           T == Trimmed(Q)
           L == log[p]
           n == Len(L) - Len(Q)
           k == Len(Q) - Len(T)
           passed == Len(L) - Len(T)
<1>1. /\ p # Nobody /\ T # <<>> /\ updating' = Nobody
      /\ recv_queue' = [recv_queue EXCEPT ![p] = Tail(T)]
      /\ last' = [last EXCEPT ![p] = passed + 1]
      /\ UNCHANGED <<sending, uuid_buf, got, handed, log>>
  BY DEF ReceiveReturns
<1>2. TypeOK /\ NewestKept
  BY DEF Inv
<1>3. p \in Port /\ Q \in Seq(Received) /\ L \in Seq(Received) /\ last[p] \in Nat
  BY <1>1, <1>2 DEF TypeOK
<1>4. /\ T \in Seq(Received) /\ Len(T) <= Len(Q) /\ Len(T) <= maxQueueSize
      /\ T = SubSeq(Q, k + 1, Len(Q))
  BY <1>3, TrimmedEnd
<1>5. n >= 0 /\ Q = SubSeq(L, n + 1, Len(L))
  BY <1>2, <1>3 DEF NewestKept
<1>6. Len(L) \in Nat /\ Len(Q) \in Nat /\ Len(T) \in Nat /\ Len(T) # 0 /\ maxQueueSize \in Nat
  BY <1>1, <1>3, <1>4
<1> HIDE DEF p, Q, T, L
<1>7. n \in 0 .. Len(L) /\ k \in 0 .. Len(L) - n /\ n + k = passed /\ passed \in Nat
  BY <1>4, <1>5, <1>6
<1>8. T = SubSeq(L, passed + 1, Len(L))
  BY <1>3, <1>4, <1>5, <1>7, EndOfEnd
<1>9. Tail(T) \in Seq(Received) /\ Len(Tail(T)) = Len(T) - 1
  BY <1>1, <1>4
\* Taking off the first leaves a shorter end.
<1>10. Tail(T) = SubSeq(L, (passed + 1) + 1, Len(L))
  <2>1. Tail(T) = SubSeq(T, 1 + 1, Len(T))
    BY <1>1, <1>4
  <2>2. passed \in 0 .. Len(L) /\ 1 \in 0 .. Len(L) - passed
    BY <1>4, <1>6, <1>7
  <2> HIDE DEF passed
  <2>3. Tail(T) = SubSeq(L, passed + 1 + 1, Len(L))
    BY <1>3, <1>8, <2>1, <2>2, EndOfEnd
  <2> QED
    BY <2>3
<1>11. Len(L) - Len(Tail(T)) = passed + 1
  BY <1>6, <1>9
<1> HIDE DEF n, k, passed
<1>12. passed + 1 \in Nat
  BY <1>7
<1>13. TypeOK'
  BY <1>1, <1>2, <1>3, <1>9, <1>12 DEF TypeOK, sending
<1>14. NetInv' /\ TableInv' /\ OpenInv'
  BY <1>1 DEF Inv, NetInv, TableInv, OpenInv, sending
<1>15. LogInv' /\ CountInv'
  BY <1>1 DEF Inv, LogInv, IsWhole, CountInv, Waiting, sending
<1>16. NewestKept'
  <2> SUFFICES ASSUME NEW q \in Port
      PROVE LET queued == Len(recv_queue'[q])
                before == Len(log[q]) - queued
            IN  /\ before >= 0
                /\ recv_queue'[q] = SubSeq(log[q], before + 1, Len(log[q]))
                /\ last'[q] <= before
                /\ last'[q] < before => queued >= maxQueueSize
                /\ queued <= maxQueueSize
    BY <1>1 DEF NewestKept
  <2>1. CASE q # p
    BY <2>1, <1>1, <1>2 DEF NewestKept, TypeOK, p
  <2>2. CASE q = p
    <3>1. recv_queue'[q] = Tail(T) /\ log[q] = L /\ last'[q] = passed + 1
      BY <2>2, <1>1, <1>2 DEF TypeOK, L
    <3>2. Len(recv_queue'[q]) = Len(Tail(T)) /\ Len(log[q]) - Len(recv_queue'[q]) = passed + 1
      BY <3>1, <1>11
    <3>3. Len(Tail(T)) <= maxQueueSize
      BY <1>4, <1>6, <1>9
    <3>4. passed + 1 >= 0 /\ passed + 1 <= passed + 1 /\ ~(passed + 1 < passed + 1)
      BY <1>12
    <3> QED
      BY <3>1, <3>2, <3>3, <3>4, <1>10
  <2> QED
    BY <2>1, <2>2
<1> QED
  BY <1>13, <1>14, <1>15, <1>16 DEF Inv

-----------------------------------------------------------------------------
LEMMA StepInv ==
  ASSUME Inv, [Next]_vars
  PROVE  Inv'
<1>1. CASE UNCHANGED vars
  <2>1. TypeOK' /\ NetInv' /\ TableInv' /\ OpenInv'
    BY <1>1 DEF Inv, TypeOK, NetInv, TableInv, OpenInv, vars
  <2>2. LogInv' /\ CountInv' /\ NewestKept'
    BY <1>1 DEF Inv, LogInv, IsWhole, CountInv, Waiting, NewestKept, vars
  <2> QED
    BY <2>1, <2>2 DEF Inv
<1>2. CASE Next
  BY <1>2, SendAllInv, SendInv, RestartInv, CommUpdateInv, PacketRawInv, PacketOnlyInv,
     PacketPartInv, SizeReturnsInv, ReceiveReturnsInv DEF Next
<1> QED
  BY <1>1, <1>2

THEOREM Invariance == Spec => []Inv
BY InitInv, StepInv, PTL DEF Spec

(***************************************************************************)
(* The state keeps its type, for any network and any number of copies.     *)
(***************************************************************************)
THEOREM TypeCorrect == Spec => []TypeOK
<1>1. Inv => TypeOK
  BY DEF Inv
<1> QED
  BY <1>1, Invariance, PTL

(***************************************************************************)
(* What reaches a program under a uuid with one message is that message,   *)
(* whole, of every size that send_all can carry.                           *)
(***************************************************************************)
THEOREM Whole == Spec => []DeliveredWhole
<1>1. Inv => DeliveredWhole
  <2> SUFFICES ASSUME Inv, NEW p \in Port, NEW j \in DOMAIN log[p]
      PROVE LET e == log[p][j]
            IN  IF e.uuid = Raw
                THEN LET m == e.parts[0].msg IN Size[m] <= MAX_LENGTH => Tiles(e.parts, m)
                ELSE \A m \in Message : names[e.uuid] = {m} /\ Sendable(m) => Tiles(e.parts, m)
    BY DEF DeliveredWhole, Entries
  <2>0. log[p] \in Seq(Received)
    BY DEF Inv, TypeOK
  <2>1. IsWhole(log[p][j])
    BY <2>0 DEF Inv, LogInv
  <2>2. CASE log[p][j].uuid = Raw
    <3>1. PICK m \in Message : log[p][j].parts = [i \in 0 .. 0 |-> RawPart(m)]
      BY <2>1, <2>2 DEF IsWhole
    <3>2. log[p][j].parts[0].msg = m
      BY <3>1, RawPartType
    <3> QED
      BY <2>2, <3>1, <3>2, RawTiles
  <2>3. CASE log[p][j].uuid # Raw
    BY <2>1, <2>3, CutTiles DEF IsWhole
  <2> QED
    BY <2>2, <2>3
<1> QED
  BY <1>1, Invariance, PTL

(***************************************************************************)
(* The exception DeliveredWhole makes is exact: what was sent alone under  *)
(* its uuid arrives whole if and only if its size is not a multiple of the *)
(* body length and needs at most CountSize - 1 datagrams; and without a    *)
(* header, if and only if it fits the buffer.  lua_udp.cpp:396 says "for   *)
(* sending data without size limit".                                       *)
(***************************************************************************)
WholeOrCutOff ==
  \A e \in Entries :
    IF e.uuid = Raw
    THEN LET m == e.parts[0].msg IN Tiles(e.parts, m) <=> Size[m] <= MAX_LENGTH
    ELSE \A m \in Message : names[e.uuid] = {m} => (Tiles(e.parts, m) <=> Sendable(m))

THEOREM Limits == Spec => []WholeOrCutOff
<1>1. Inv => WholeOrCutOff
  <2> SUFFICES ASSUME Inv, NEW p \in Port, NEW j \in DOMAIN log[p]
      PROVE LET e == log[p][j]
            IN  IF e.uuid = Raw
                THEN LET m == e.parts[0].msg IN Tiles(e.parts, m) <=> Size[m] <= MAX_LENGTH
                ELSE \A m \in Message :
                       names[e.uuid] = {m} => (Tiles(e.parts, m) <=> Sendable(m))
    BY DEF WholeOrCutOff, Entries
  <2>0. log[p] \in Seq(Received)
    BY DEF Inv, TypeOK
  <2>1. IsWhole(log[p][j])
    BY <2>0 DEF Inv, LogInv
  <2>2. CASE log[p][j].uuid = Raw
    <3>1. PICK m \in Message : log[p][j].parts = [i \in 0 .. 0 |-> RawPart(m)]
      BY <2>1, <2>2 DEF IsWhole
    <3>2. log[p][j].parts[0].msg = m
      BY <3>1, RawPartType
    <3> QED
      BY <2>2, <3>1, <3>2, RawTiles, LongRawIsCut
  <2>3. CASE log[p][j].uuid # Raw
    BY <2>1, <2>3, CutTiles, OnlySendableTiles DEF IsWhole
  <2> QED
    BY <2>2, <2>3
<1> QED
  BY <1>1, Invariance, PTL

(***************************************************************************)
(* A message arrives once all its datagrams did, in whatever copies, and   *)
(* no more often than the rarest of them.                                  *)
(***************************************************************************)
THEOREM AsOften == Spec => []ArrivesAsOftenAsItsParts
<1>1. Inv => ArrivesAsOftenAsItsParts
  <2> SUFFICES ASSUME Inv, NEW u \in Uuid, NEW m \in Message, names[u] = {m}
      PROVE LET ids == 0 .. NumPackets(m) - 1
            IN  /\ ids # {} /\ (\A i \in ids : got[u][i] > 0) => handed[u] > 0
                /\ \A i \in ids : handed[u] <= got[u][i]
    BY DEF ArrivesAsOftenAsItsParts
  <2> DEFINE ids == 0 .. NumPackets(m) - 1
  <2>1. \A i \in ids : /\ handed[u] + Waiting(u, i) <= got[u][i]
                       /\ uuid_buf[u][i] = Missing /\ got[u][i] > 0 => handed[u] > 0
    BY DEF Inv, CountInv
  <2>2. NumPackets(m) \in Nat /\ ids \subseteq Order
    BY NumPacketsType, UdpAssumption DEF Order
  <2>3. \A i \in ids : handed[u] \in Nat /\ got[u][i] \in Nat /\ Waiting(u, i) \in Nat
    BY <2>2 DEF Inv, TypeOK, Waiting
  <2>4. \A i \in ids : handed[u] <= got[u][i]
    BY <2>1, <2>3
  <2>5. ASSUME ids # {}, \A i \in ids : got[u][i] > 0
        PROVE  handed[u] > 0
    <3>1. NumPackets(m) # 0
      BY <2>2, <2>5
    <3>2. PICK i \in ids : uuid_buf[u][i] = Missing
      BY <3>1 DEF Inv, OpenInv
    <3> QED
      BY <2>1, <2>5, <3>2
  <2> QED
    BY <2>4, <2>5
<1> QED
  BY <1>1, Invariance, PTL

(***************************************************************************)
(* Messages are received in order, none twice, and the newest are kept.    *)
(***************************************************************************)
THEOREM NewestStay == Spec => []NewestKept
<1>1. Inv => NewestKept
  BY DEF Inv
<1> QED
  BY <1>1, Invariance, PTL
=============================================================================
