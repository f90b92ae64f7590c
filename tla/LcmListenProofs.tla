--------------------------- MODULE LcmListenProofs ---------------------------
(***************************************************************************)
(* Theorems about LcmListen, for every set of messages, network and        *)
(* registration of channels: what the handlers are run with, and that the  *)
(* listener implements LcmChannel.                                         *)
(***************************************************************************)
EXTENDS LcmListen, LcmAssemblerProofs

\* The bytes of a message.
Contents(m) == [i \in 0 .. m.msg_len - 1 |-> m.body]

\* A handler call tells which message it was: announcements of the same bytes on
\* the same channel are one message.
DistinctMessages ==
  \A m1, m2 \in Messages :
    m1.channel = m2.channel /\ Contents(m1) = Contents(m2) => m1 = m2

-----------------------------------------------------------------------------
(* Datagrams *)

LEMMA ShortIsNoFragment ==
  ASSUME NEW m, NEW n, NEW id, NEW offset
  PROVE  ShortDatagram(m) # Fragment(n, id, offset)
<1>1. "name_len" \notin DOMAIN ShortDatagram(m)
  BY DEF ShortDatagram
<1>2. "name_len" \in DOMAIN Fragment(n, id, offset)
  BY DEF Fragment
<1> QED
  BY <1>1, <1>2

\* A datagram with a long message's header comes from a long message.
LEMMA PacketIsFragment ==
  ASSUME NEW p \in Packets, NEW m \in Messages, p \in DatagramsOf(m)
  PROVE  m \in LongMessages /\ p \in Fragments(m)
<1>1. PICK n \in LongMessages : p \in Fragments(n)
  BY PacketOfMessage
<1>2. ~Short(m.msg_len)
  <2> SUFFICES ASSUME Short(m.msg_len) PROVE FALSE
    OBVIOUS
  <2>1. p = ShortDatagram(m)
    BY DEF DatagramsOf
  <2> QED
    BY <1>1, <2>1, ShortIsNoFragment DEF Fragments
<1> QED
  BY <1>2 DEF DatagramsOf, LongMessages

LEMMA ShortIsShort ==
  ASSUME NEW d \in ShortDatagrams, NEW m \in Messages, d \in DatagramsOf(m)
  PROVE  d = ShortDatagram(m)
<1>1. PICK n \in ShortMessages : d = ShortDatagram(n)
  BY DEF ShortDatagrams
<1>2. Short(m.msg_len)
  <2> SUFFICES ASSUME ~Short(m.msg_len) PROVE FALSE
    OBVIOUS
  <2>1. d \in Fragments(m)
    BY DEF DatagramsOf
  <2> QED
    BY <1>1, <2>1, ShortIsNoFragment DEF Fragments
<1> QED
  BY <1>2 DEF DatagramsOf

-----------------------------------------------------------------------------
(* The network: what arrives was announced. *)

OnlyAnnounced ==
  \A d \in Datagrams : network[d] > 0 => \E m \in announced : d \in DatagramsOf(m)

Network == ListenTypeOK /\ OnlyAnnounced

LEMMA AnnounceNetwork ==
  ASSUME Network, NEW m \in Messages, Announce(m)
  PROVE  Network'
<1>1. PICK copies \in [DatagramsOf(m) -> 0 .. MaxCopies[m]] :
        /\ network' = [d \in Datagrams |->
                         IF d \in DatagramsOf(m) THEN network[d] + copies[d] ELSE network[d]]
        /\ lost' = IF \E d \in DatagramsOf(m) : copies[d] = 0 THEN lost \cup {m} ELSE lost
  BY DEF Announce
<1>2. announced' = announced \cup {m} /\ listener' = listener
  BY DEF Announce
<1>3. MaxCopies[m] \in Nat /\ network \in [Datagrams -> Nat]
  BY ListenAssumption DEF Network, ListenTypeOK
<1>4. network' \in [Datagrams -> Nat]
  <2>1. ASSUME NEW d \in Datagrams
        PROVE  (IF d \in DatagramsOf(m) THEN network[d] + copies[d] ELSE network[d]) \in Nat
    BY <1>3
  <2> QED
    BY <1>1, <2>1
<1>5. ListenTypeOK'
  BY <1>1, <1>2, <1>4 DEF Network, ListenTypeOK
<1>6. ASSUME NEW d \in Datagrams, network'[d] > 0
      PROVE  \E n \in announced' : d \in DatagramsOf(n)
  <2>1. CASE d \in DatagramsOf(m)
    BY <1>2, <2>1
  <2>2. CASE d \notin DatagramsOf(m)
    BY <1>1, <1>2, <1>6, <2>2 DEF Network, OnlyAnnounced
  <2> QED
    BY <2>1, <2>2
<1>7. OnlyAnnounced'
  BY <1>6 DEF OnlyAnnounced, DatagramsOf
<1> QED
  BY <1>5, <1>7 DEF Network

LEMMA UpdateNetwork ==
  ASSUME Network, NEW d \in Datagrams, Receive(d), listener' \in {"running", "dead"}
  PROVE  Network' /\ \E m \in announced : d \in DatagramsOf(m)
<1>1. /\ network[d] > 0
      /\ network' = [network EXCEPT ![d] = @ - 1]
      /\ UNCHANGED <<announced, lost>>
  BY DEF Receive
<1>2. network' \in [Datagrams -> Nat] /\ \A e \in Datagrams : network'[e] <= network[e]
  BY <1>1 DEF Network, ListenTypeOK
<1>3. \A e \in Datagrams : network'[e] > 0 => network[e] > 0
  BY <1>2 DEF Network, ListenTypeOK
<1>4. OnlyAnnounced'
  BY <1>1, <1>3 DEF Network, OnlyAnnounced, DatagramsOf
<1>5. ListenTypeOK'
  BY <1>1, <1>2 DEF Network, ListenTypeOK
<1> QED
  BY <1>1, <1>4, <1>5 DEF Network, OnlyAnnounced

LEMMA InitNetwork == ListenInit => Network
BY DEF ListenInit, Network, ListenTypeOK, OnlyAnnounced

\* A step of the listener assembles a datagram of an announced message.
LEMMA DispatchListener ==
  ASSUME Network, NEW r, Dispatch(r)
  PROVE  /\ listener' \in {"running", "dead"}
         /\ \/ calls' = calls
            \/ calls' = calls \cup {r} /\ r.kind = "message"
            \/ calls' = calls \cup {r} /\ r.kind = "partial" /\ r.channel \in Plain
BY DEF Dispatch, Network, ListenTypeOK

LEMMA StepNetwork ==
  ASSUME Network, [ListenNext]_listenVars
  PROVE  Network'
<1>1. ASSUME NEW d \in ShortDatagrams, UpdateShort(d) PROVE Network'
  <2>1. d \in Datagrams /\ Receive(d) /\ listener' \in {"running", "dead"}
    BY <1>1, DispatchListener DEF UpdateShort, Datagrams
  <2> QED
    BY <2>1, UpdateNetwork
<1>2. ASSUME NEW p \in Packets, UpdateLong(p) PROVE Network'
  <2>1. p \in Datagrams /\ Receive(p) /\ listener' \in {"running", "dead"}
    BY <1>2, DispatchListener DEF UpdateLong, Datagrams
  <2> QED
    BY <2>1, UpdateNetwork
<1>3. CASE UNCHANGED listenVars
  BY <1>3 DEF listenVars, Network, ListenTypeOK, OnlyAnnounced, DatagramsOf
<1> QED
  BY <1>1, <1>2, <1>3, AnnounceNetwork DEF ListenNext, Update

\* The network holds a number of copies of each datagram, the listener runs or is
\* dead, and only announced messages are lost (lcm.lua:39-61, racecar.lua:90-113).
THEOREM ListenTypeCorrect == ListenSpec => []ListenTypeOK
<1>1. Network => ListenTypeOK
  BY DEF Network
<1> QED
  BY InitNetwork, StepNetwork, <1>1, PTL DEF ListenSpec

-----------------------------------------------------------------------------
(* The number of missing fragments *)

\* A buffer that was taken over keeps its channel, so the channel a number comes
\* with is only known to be that of some announced message.
ChannelsAnnounced ==
  \A i \in DOMAIN fragment_buffers :
    \/ fragment_buffers[i].channel = NoName
    \/ \E m \in LongAnnounced : fragment_buffers[i].channel = m.channel

\* Fewer fragments are missing than the message has, once one is stored.
LEMMA FewerMissing ==
  ASSUME NEW n \in LongMessages, NEW g, Collects(g, n),
         NEW id \in g.frag_received
  PROVE  g.fragments_remaining \in 0 .. fragments_in_msg(n.channel_len, n.msg_len) - 1
<1> DEFINE N == fragments_in_msg(n.channel_len, n.msg_len)
<1>1. N \in Nat /\ FragmentIds(n) = 0 .. N - 1
  BY CountIsNat DEF FragmentIds
<1>2. IsFiniteSet(FragmentIds(n)) /\ Cardinality(FragmentIds(n)) = N
  BY <1>1, FS_Interval
<1>3. g.frag_received \subseteq FragmentIds(n)
  BY DEF Collects
<1>4. /\ IsFiniteSet(g.frag_received)
      /\ Cardinality(g.frag_received) \in Nat
      /\ Cardinality(g.frag_received) <= N
  BY <1>2, <1>3, FS_Subset, FS_CardinalityType
<1>5. Cardinality(g.frag_received) # 0
  BY <1>4, FS_EmptySet
<1>6. g.fragments_remaining = N - Cardinality(g.frag_received)
  BY DEF Collects
<1> QED
  BY <1>1, <1>4, <1>5, <1>6

LEMMA AcceptNumber ==
  ASSUME ChannelsAnnounced,
         NEW n \in LongAnnounced, NEW p \in Fragments(n),
         NEW m \in LongMessages, NEW f \in BufferFor(m), Collects(f, n),
         \/ f.channel = NoName
         \/ \E k \in LongAnnounced : f.channel = k.channel,
         NEW i, last_fragment_count \in Nat, Accept(p, f, i), announced' = announced
  PROVE  /\ ChannelsAnnounced'
         /\ ret'.kind = "partial" =>
              \/ ret'.channel = NoName
              \/ \E k \in LongAnnounced : IsCount(ret', k, n)
<1> DEFINE s == [f EXCEPT !.last_fragment_count = last_fragment_count]
           g == Stored(s, p)
<1>0. n \in LongMessages
  BY DEF LongAnnounced
<1>1. s \in BufferFor(m) /\ Collects(s, n) /\ s.channel = f.channel
  <2>1. s.channel = f.channel
    BY DEF BufferFor
  <2> QED
    BY <1>0, <2>1, StampedType, StampedCollects
<1>2. Collects(g, n) /\ p.fragment_id \in g.frag_received
  <2>1. p.fragment_id \in g.frag_received
    BY <1>1 DEF Stored, BufferFor
  <2> QED
    BY <1>0, <1>1, <2>1, StoredCollects
<1>3. \/ g.channel = NoName
      \/ \E k \in LongAnnounced : g.channel = k.channel
  <2>1. g.channel = IF p.fragment_id = 0 THEN p.channel ELSE s.channel
    BY <1>1 DEF Stored, BufferFor
  <2>2. p.channel = n.channel
    BY <1>0, FragmentFields
  <2> QED
    BY <1>1, <2>1, <2>2
<1>4. ChannelsAnnounced'
  <2>1. fragment_buffers' = [j \in DOMAIN fragment_buffers \cup {i} |->
                               IF j = i THEN Left(p, f) ELSE fragment_buffers[j]]
    BY DEF Accept, Left
  <2>2. Left(p, f) \in {s, g}
    BY DEF Left
  <2>3. LongAnnounced' = LongAnnounced
    BY DEF LongAnnounced
  <2>4. ASSUME NEW j \in DOMAIN fragment_buffers'
        PROVE  \/ fragment_buffers'[j].channel = NoName
               \/ \E k \in LongAnnounced : fragment_buffers'[j].channel = k.channel
    <3>1. CASE j = i
      BY <1>1, <1>3, <2>1, <2>2, <3>1
    <3>2. CASE j # i
      BY <2>1, <3>2 DEF ChannelsAnnounced
    <3> QED
      BY <3>1, <3>2
  <2> QED
    BY <2>3, <2>4 DEF ChannelsAnnounced
<1>5. ASSUME ret'.kind = "partial"
      PROVE  /\ ret'.channel = g.channel
             /\ ret'.remaining = g.fragments_remaining
  <2>1. ret' \in Returned(s, p)
    BY DEF Accept
  <2> QED
    BY <1>5, <2>1 DEF Returned, Error
<1>6. g.fragments_remaining \in 0 .. fragments_in_msg(n.channel_len, n.msg_len) - 1
  BY <1>0, <1>2, FewerMissing
<1> QED
  BY <1>3, <1>4, <1>5, <1>6 DEF IsCount

LEMMA CallNumber ==
  ASSUME UniqueKeys, Shape, Coherent, ChannelsAnnounced,
         NEW n \in LongAnnounced, NEW p \in Fragments(n), Assemble3(p),
         announced' = announced
  PROVE  /\ ChannelsAnnounced'
         /\ ret'.kind = "partial" =>
              \/ ret'.channel = NoName
              \/ \E k \in LongAnnounced : IsCount(ret', k, n)
<1>0. last_fragment_count \in Nat /\ n \in LongMessages /\ p \in Packets
  BY DEF Shape, TypeOK, Packets, LongAnnounced
<1>1. CASE Refuse(p)
  BY <1>1 DEF Refuse, ChannelsAnnounced, LongAnnounced, Error
<1>2. CASE Find(p)
  <2> DEFINE i == FirstOf(Search(p))
             f == fragment_buffers[i]
  <2>1. /\ i \in DOMAIN fragment_buffers
        /\ Key(f) = Key(p)
        /\ Accept(p, f, i)
        /\ \E m \in LongMessages : f \in BufferFor(m)
    BY <1>0, <1>2, FindGiven DEF Given
  <2>2. PICK m \in LongMessages : Collects(f, m)
    BY <2>1 DEF Coherent
  <2>3. m = n
    <3>1. Key(f) = Key(m)
      BY <2>2 DEF Collects
    <3>2. Key(p) = Key(n)
      BY <1>0, FragmentFields
    <3> QED
      BY <1>0, <2>1, <3>1, <3>2 DEF UniqueKeys
  <2>4. f.channel = NoName \/ \E k \in LongAnnounced : f.channel = k.channel
    BY <2>1 DEF ChannelsAnnounced
  <2> QED
    BY <1>0, <2>1, <2>2, <2>3, <2>4, AcceptNumber
<1>3. CASE Create(p)
  <2> DEFINE f == NewBuffer(p, NoName)
  <2>1. Collects(f, n) /\ f.channel = NoName
    BY <1>0, NewBufferCollects DEF NewBuffer
  <2>2. f \in BufferFor(n) /\ Accept(p, f, Len(fragment_buffers) + 1)
    BY <1>0, <1>3, CreateGiven
  <2> QED
    BY <1>0, <2>1, <2>2, AcceptNumber
<1>4. CASE Evict(p)
  <2> DEFINE f == NewBuffer(p, fragment_buffers[Victim].channel)
  <2>1. Collects(f, n) /\ f.channel = fragment_buffers[Victim].channel
    BY <1>0, NewBufferCollects DEF NewBuffer
  <2>2. Victim \in DOMAIN fragment_buffers /\ f \in BufferFor(n) /\ Accept(p, f, Victim)
    BY <1>0, <1>4, EvictGiven
  <2>3. f.channel = NoName \/ \E k \in LongAnnounced : f.channel = k.channel
    BY <2>1, <2>2 DEF ChannelsAnnounced
  <2> QED
    BY <1>0, <2>1, <2>2, <2>3, AcceptNumber
<1> QED
  BY <1>1, <1>2, <1>3, <1>4 DEF Assemble3

-----------------------------------------------------------------------------
(* The listener on top of the assembler *)

Assembly == Shape /\ Coherent /\ ChannelsAnnounced

LInv == Network /\ Assembly /\ CallsIntact

\* A call of an announced message, or of a number.
Justified(r) ==
  \/ \E m \in announced : IsCall(r, m)
  \/ r.channel \in Plain /\ \E m, n \in LongAnnounced : IsCount(r, m, n)

\* What a turn of the loop hands over is an announced message, or a number.
LEMMA TurnCalls ==
  ASSUME UniqueKeys, LInv, Update
  PROVE  /\ Assembly'
         /\ announced' = announced
         /\ \/ calls' = calls
            \/ \E r : calls' = calls \cup {r} /\ Justified(r)
<1>1. ASSUME NEW d \in ShortDatagrams, UpdateShort(d)
      PROVE  /\ Assembly' /\ announced' = announced
             /\ \/ calls' = calls
                \/ \E r : calls' = calls \cup {r} /\ Justified(r)
  <2> DEFINE r == [kind |-> "message", channel |-> d.channel,
                   data |-> [i \in 0 .. d.msg_size - 1 |-> d.body]]
  <2>1. Assembly' /\ announced' = announced
    <3>1. UNCHANGED vars /\ announced' = announced
      BY <1>1 DEF UpdateShort, Receive
    <3>2. Shape'
      BY <3>1, StepShape DEF LInv, Assembly
    <3>3. Coherent'
      BY <3>1 DEF vars, LInv, Assembly, Coherent, Collects, Key
    <3>4. ChannelsAnnounced'
      BY <3>1 DEF vars, LInv, Assembly, ChannelsAnnounced, LongAnnounced
    <3> QED
      BY <3>1, <3>2, <3>3, <3>4 DEF Assembly
  <2>2. PICK m \in announced : d \in DatagramsOf(m)
    <3>1. d \in Datagrams /\ Receive(d) /\ listener' \in {"running", "dead"}
      BY <1>1, DispatchListener DEF UpdateShort, Datagrams, LInv
    <3> QED
      BY <3>1, UpdateNetwork DEF LInv
  <2>3. m \in Messages
    BY DEF LInv, Network, ListenTypeOK
  <2>4. d = ShortDatagram(m)
    BY <2>2, <2>3, ShortIsShort
  <2>5. IsCall(r, m)
    BY <2>4 DEF IsCall, IsMessage, ShortDatagram
  <2>6. Dispatch(r)
    BY <1>1 DEF UpdateShort
  <2> HIDE DEF r
  <2>7. calls' = calls \/ calls' = calls \cup {r}
    BY <2>6, DispatchListener DEF LInv
  <2> QED
    BY <2>1, <2>5, <2>7 DEF Justified
<1>2. ASSUME NEW p \in Packets, UpdateLong(p)
      PROVE  /\ Assembly' /\ announced' = announced
             /\ \/ calls' = calls
                \/ \E r : calls' = calls \cup {r} /\ Justified(r)
  <2>1. PICK m \in announced : p \in DatagramsOf(m)
    <3>1. p \in Datagrams /\ Receive(p) /\ listener' \in {"running", "dead"}
      BY <1>2, DispatchListener DEF UpdateLong, Datagrams, LInv
    <3> QED
      BY <3>1, UpdateNetwork DEF LInv
  <2>2. m \in LongAnnounced /\ m \in LongMessages /\ p \in Fragments(m)
    <3>1. m \in Messages
      BY DEF LInv, Network, ListenTypeOK
    <3> QED
      BY <2>1, <3>1, PacketIsFragment DEF LongAnnounced
  <2>3. Assemble3(p) /\ announced' = announced
    BY <1>2 DEF UpdateLong, Receive
  <2>4. Shape'
    <3>1. Next
      BY <2>3 DEF Next, Assemble3
    <3> QED
      BY <3>1, StepShape DEF LInv, Assembly
  <2>5. Coherent' /\ (ret'.kind = "message" => IsMessage(m, ret'))
    BY <2>2, <2>3, CallIntact DEF LInv, Assembly
  <2>6. /\ ChannelsAnnounced'
        /\ ret'.kind = "partial" =>
             \/ ret'.channel = NoName
             \/ \E k \in LongAnnounced : IsCount(ret', k, m)
    BY <2>2, <2>3, CallNumber DEF LInv, Assembly
  <2>7. \/ calls' = calls
        \/ calls' = calls \cup {ret'} /\ ret'.kind = "message"
        \/ calls' = calls \cup {ret'} /\ ret'.kind = "partial" /\ ret'.channel \in Plain
    <3>1. Dispatch(ret')
      BY <1>2 DEF UpdateLong
    <3> QED
      BY <3>1, DispatchListener DEF LInv
  <2>8. ASSUME calls' = calls \cup {ret'}, ret'.kind = "message"
        PROVE  Justified(ret')
    BY <2>1, <2>5, <2>8 DEF Justified, IsCall
  <2>9. ASSUME ret'.kind = "partial", ret'.channel \in Plain
        PROVE  Justified(ret')
    BY <2>2, <2>6, <2>9, ListenAssumption DEF Justified
  <2> QED
    BY <2>3, <2>4, <2>5, <2>6, <2>7, <2>8, <2>9 DEF Assembly
<1> QED
  BY <1>1, <1>2 DEF Update

LEMMA InitLInv == ListenInit => LInv
<1> SUFFICES ASSUME ListenInit PROVE LInv
  OBVIOUS
<1>1. Init
  BY DEF ListenInit
<1>2. Coherent
  BY <1>1 DEF Init, Coherent
<1>3. CallsIntact
  BY DEF ListenInit, CallsIntact
<1>4. ChannelsAnnounced
  BY <1>1 DEF Init, ChannelsAnnounced
<1> QED
  BY <1>1, <1>2, <1>3, <1>4, InitShape, InitNetwork DEF LInv, Assembly

LEMMA StepLInv ==
  ASSUME UniqueKeys, LInv, [ListenNext]_listenVars
  PROVE  LInv'
<1>1. Network'
  BY StepNetwork DEF LInv
<1>2. ASSUME UNCHANGED vars, announced \subseteq announced' PROVE Assembly'
  <2>1. Shape'
    BY <1>2, StepShape DEF LInv, Assembly
  <2>2. Coherent'
    BY <1>2 DEF vars, LInv, Assembly, Coherent, Collects, Key
  <2>3. ChannelsAnnounced'
    BY <1>2 DEF vars, LInv, Assembly, ChannelsAnnounced, LongAnnounced
  <2> QED
    BY <2>1, <2>2, <2>3 DEF Assembly
<1>3. ASSUME calls' = calls, announced \subseteq announced' PROVE CallsIntact'
  BY <1>3 DEF LInv, CallsIntact, IsCall, IsMessage, IsCount, LongAnnounced
<1>4. ASSUME NEW m \in Messages, Announce(m) PROVE LInv'
  <2>1. UNCHANGED vars /\ calls' = calls /\ announced \subseteq announced'
    BY <1>4 DEF Announce
  <2> QED
    BY <1>1, <1>2, <1>3, <2>1 DEF LInv
<1>5. CASE Update
  <2>1. /\ Assembly' /\ announced' = announced
        /\ \/ calls' = calls
           \/ \E r : calls' = calls \cup {r} /\ Justified(r)
    BY <1>5, TurnCalls
  <2>2. CASE calls' = calls
    BY <1>1, <1>3, <2>1, <2>2 DEF LInv
  <2>3. ASSUME NEW r, calls' = calls \cup {r}, Justified(r) PROVE CallsIntact'
    BY <2>1, <2>3
       DEF LInv, CallsIntact, Justified, IsCall, IsMessage, IsCount, LongAnnounced
  <2> QED
    BY <1>1, <2>1, <2>2, <2>3 DEF LInv
<1>6. CASE UNCHANGED listenVars
  <2>1. UNCHANGED vars /\ UNCHANGED <<announced, calls>>
    BY <1>6 DEF listenVars
  <2> QED
    BY <1>1, <1>2, <1>3, <2>1 DEF LInv
<1> QED
  BY <1>4, <1>5, <1>6 DEF ListenNext

\* As long as a key belongs to one message, a handler is run with an
\* announced message, whole, on its own channel, or with a number, where nothing
\* is decoded and a message of fragments was announced (lcm.lua:50-57).
THEOREM Handlers == UniqueKeys => (ListenSpec => []CallsIntact)
<1> SUFFICES ASSUME UniqueKeys
             PROVE  ListenSpec => []CallsIntact
  OBVIOUS
<1>1. LInv => CallsIntact
  BY DEF LInv
<1>2. LInv /\ [ListenNext]_listenVars => LInv'
  BY StepLInv
<1> QED
  BY InitLInv, <1>1, <1>2, PTL DEF ListenSpec

-----------------------------------------------------------------------------
(* The refinement *)

LEMMA OriginIsTheMessage ==
  ASSUME DistinctMessages, NEW c, NEW m \in Messages, IsCall(c, m)
  PROVE  Origin(c) = m
<1>1. \A n \in Messages : IsCall(c, n) => n = m
  BY DEF IsCall, IsMessage, DistinctMessages, Contents
<1> QED
  BY <1>1 DEF Origin

handled == {Origin(c) : c \in {d \in calls : d.kind = "message"}}

numbered == {c.channel : c \in {d \in calls : d.kind # "message"}}

LEMMA InitRefines == ListenInit => Channel!Init
BY DEF ListenInit, Channel!Init

LEMMA StepRefines ==
  ASSUME UniqueKeys, DistinctMessages, LInv, [ListenNext]_listenVars
  PROVE  [Channel!Next]_<<announced, handled, numbered>>
<1>1. ASSUME NEW m \in Messages, Announce(m) PROVE Channel!Announce(m)
  <2>1. m \notin announced /\ announced' = announced \cup {m} /\ calls' = calls
    BY <1>1 DEF Announce
  <2> QED
    BY <2>1 DEF Channel!Announce
<1>2. CASE Update
  <2>1. /\ announced' = announced
        /\ \/ calls' = calls
           \/ \E r : calls' = calls \cup {r} /\ Justified(r)
    BY <1>2, TurnCalls
  <2>2. CASE calls' = calls
    BY <2>1, <2>2 DEF handled, numbered
  <2>3. announced \subseteq Messages
    BY DEF LInv, Network, ListenTypeOK
  <2>4. ASSUME NEW r, calls' = calls \cup {r}, NEW m \in announced, IsCall(r, m)
        PROVE  Channel!Handle(m)
    <3>1. r.kind = "message" /\ Origin(r) = m
      BY <2>3, <2>4, OriginIsTheMessage DEF IsCall
    <3>2. handled' = handled \cup {m}
      BY <2>4, <3>1 DEF handled
    <3>3. numbered' = numbered
      BY <2>4, <3>1 DEF numbered
    <3> QED
      BY <2>1, <3>2, <3>3 DEF Channel!Handle, handled, numbered
  <2>5. ASSUME NEW r, calls' = calls \cup {r}, r.channel \in Plain,
               NEW m \in LongAnnounced, NEW n \in LongAnnounced, IsCount(r, m, n)
        PROVE  Channel!Number(m)
    <3>1. r.kind = "partial" /\ r.channel = m.channel
      BY <2>5 DEF IsCount
    <3>2. numbered' = numbered \cup {m.channel}
      BY <2>5, <3>1 DEF numbered
    <3>3. handled' = handled
      BY <2>5, <3>1 DEF handled
    <3> QED
      BY <2>1, <2>5, <3>1, <3>2, <3>3 DEF Channel!Number, handled, numbered, LongAnnounced
  <2> QED
    BY <2>1, <2>2, <2>3, <2>4, <2>5 DEF Channel!Next, Justified, LongAnnounced
<1>3. CASE UNCHANGED listenVars
  BY <1>3 DEF listenVars, handled, numbered
<1> QED
  BY <1>1, <1>2, <1>3 DEF ListenNext, Channel!Next

\* The listener implements the channel: what the network loses, doubles and
\* reorders shows as a message that is not handled, handled again, or handled late,
\* and as numbers given to handlers without a decoder, and as nothing else.
THEOREM Implements ==
  UniqueKeys /\ DistinctMessages => (ListenSpec => ImplementsChannel)
<1> SUFFICES ASSUME UniqueKeys, DistinctMessages
             PROVE  ListenSpec => ImplementsChannel
  OBVIOUS
<1>1. LInv /\ [ListenNext]_listenVars => LInv'
  BY StepLInv
<1>2. LInv /\ [ListenNext]_listenVars => [Channel!Next]_<<announced, handled, numbered>>
  BY StepRefines
<1> QED
  BY InitLInv, InitRefines, <1>1, <1>2, PTL DEF ListenSpec, ImplementsChannel, Channel!Spec, handled, numbered
=============================================================================
