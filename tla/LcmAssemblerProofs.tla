-------------------------- MODULE LcmAssemblerProofs -------------------------
(***************************************************************************)
(* What LcmAssembler promises for every set of messages, every number of   *)
(* buffers and every size of datagram.                                     *)
(***************************************************************************)
EXTENDS LcmAssembler, FiniteSetTheorems, TLAPS

-----------------------------------------------------------------------------
(* Fragments *)

\* frag3 puts at least one byte of data into every fragment.
LEMMA MaxPositive ==
  ASSUME NEW m \in LongMessages
  PROVE  /\ m \in Messages
         /\ m.msg_len \in Nat
         /\ m.channel_len \in Nat
         /\ max_fragment_size(m.channel_len) \in Nat \ {0}
  BY MessagesAssumption, SizesAssumption
     DEF LongMessages, max_fragment_size, LCM3_HEADER

\* The announced number of fragments is a number.
LEMMA CountIsNat ==
  ASSUME NEW m \in LongMessages
  PROVE  fragments_in_msg(m.channel_len, m.msg_len) \in Nat
<1>1. /\ m.msg_len \in Nat
      /\ max_fragment_size(m.channel_len) \in Nat \ {0}
  BY MaxPositive
<1> QED
  BY <1>1, Z3 DEF fragments_in_msg

\* Dividing 0 .. L-1 into blocks of M leaves no number out.
LEMMA Blocks ==
  ASSUME NEW L \in Nat, NEW M \in Nat \ {0}, NEW j \in 0 .. L - 1
  PROVE  \E k \in 0 .. ((L + M - 1) \div M) - 1 : k * M <= j /\ j < k * M + M
<1> DEFINE k == j \div M
<1>1. k \in Nat /\ k * M <= j /\ j < k * M + M
  BY Z3
<1>2. k < (L + M - 1) \div M
  BY <1>1, Z3
<1>3. (L + M - 1) \div M \in Nat
  BY Z3
<1> HIDE DEF k
<1>4. k \in 0 .. ((L + M - 1) \div M) - 1
  BY <1>1, <1>2, <1>3
<1> QED
  BY <1>1, <1>4

\* The fields of a fragment, and where its data lies in the message.
LEMMA FragmentFields ==
  ASSUME NEW m \in LongMessages, NEW p \in Fragments(m)
  PROVE  /\ Key(p) = Key(m)
         /\ p.from_addr = m.from_addr
         /\ p.msg_seq = m.msg_seq
         /\ p.msg_size = m.msg_len
         /\ p.body = m.body
         /\ p.channel = m.channel
         /\ p.fragment_id \in FragmentIds(m)
         /\ p.fragment_id \in Nat
         /\ p.fragments_in_msg = fragments_in_msg(m.channel_len, m.msg_len)
         /\ p.fragment_offset = p.fragment_id * max_fragment_size(m.channel_len)
         /\ p.data_len = frag_sz(m.channel_len, m.msg_len, p.fragment_offset)
<1>1. PICK id \in FragmentIds(m) :
        p = Fragment(m, id, id * max_fragment_size(m.channel_len))
  BY DEF Fragments
<1>2. id \in Nat
  BY CountIsNat DEF FragmentIds
<1> QED
  BY <1>1, <1>2 DEF Fragment, Key

\* Every byte of a message is carried by one of its fragments.
LEMMA FragmentsCover ==
  ASSUME NEW m \in LongMessages, NEW j \in 0 .. m.msg_len - 1
  PROVE  \E p \in Fragments(m) : j \in Covered(p)
<1> DEFINE M == max_fragment_size(m.channel_len)
<1>1. m.msg_len \in Nat /\ M \in Nat \ {0}
  BY MaxPositive
<1>2. PICK k \in FragmentIds(m) : k * M <= j /\ j < k * M + M
  <2>1. \E k \in 0 .. ((m.msg_len + M - 1) \div M) - 1 : k * M <= j /\ j < k * M + M
    BY <1>1, Blocks
  <2> QED
    BY <2>1 DEF FragmentIds, fragments_in_msg
<1> DEFINE p == Fragment(m, k, k * M)
<1>3. p \in Fragments(m)
  BY DEF Fragments
<1>4. k \in Nat
  BY CountIsNat DEF FragmentIds
<1>5. k * M \in Nat
  BY <1>1, <1>4, Z3
<1>6. p.fragment_offset = k * M /\ p.data_len = frag_sz(m.channel_len, m.msg_len, k * M)
  BY DEF Fragment
<1> DEFINE o == k * M
<1>7. j \in o .. o + frag_sz(m.channel_len, m.msg_len, o) - 1
  <2> HIDE DEF o
  <2>1. o \in Nat /\ o <= j /\ j < o + max_fragment_size(m.channel_len)
    BY <1>2, <1>5 DEF o
  <2> QED
    BY <1>1, <2>1 DEF frag_sz
<1> QED
  BY <1>3, <1>6, <1>7 DEF Covered

\* The data of a fragment lies inside its message.
LEMMA CoveredInMessage ==
  ASSUME NEW m \in LongMessages, NEW p \in Fragments(m)
  PROVE  Covered(p) \subseteq 0 .. m.msg_len - 1
<1> DEFINE M == max_fragment_size(m.channel_len)
           o == p.fragment_offset
<1>1. m.msg_len \in Nat /\ M \in Nat \ {0}
  BY MaxPositive
<1>2. /\ p.fragment_id \in Nat
      /\ o = p.fragment_id * M
      /\ p.data_len = frag_sz(m.channel_len, m.msg_len, o)
  BY FragmentFields
<1>3. o \in Nat
  BY <1>1, <1>2, Z3
<1> HIDE DEF o
<1>4. p.data_len \in Int /\ p.data_len <= m.msg_len - o
  BY <1>1, <1>2, <1>3 DEF frag_sz
<1> QED
  BY <1>1, <1>3, <1>4 DEF Covered, o

\* The datagrams of the network are fragments of long messages.
LEMMA PacketOfMessage ==
  ASSUME NEW p \in Packets
  PROVE  \E m \in LongMessages : p \in Fragments(m)
  BY DEF Packets

-----------------------------------------------------------------------------
(* One buffer *)

\* What a call leaves in the buffer it was given.
LEMMA StoredType ==
  ASSUME NEW m \in LongMessages, NEW f \in BufferFor(m),
         NEW n \in LongMessages, NEW p \in Fragments(n), ~HeaderError(p)
  PROVE  /\ Stored(f, p) \in BufferFor(m)
         /\ Stored(f, p).last_fragment_count = f.last_fragment_count
         /\ Key(Stored(f, p)) = Key(f)
<1>1. /\ p.fragment_id \in Nat
      /\ p.fragment_id < p.fragments_in_msg
      /\ p.fragments_in_msg <= LCM3_MAX_FRAGMENTS
      /\ p.fragments_in_msg \in Nat
      /\ p.body \in Bytes /\ p.channel \in Names
  <2>1. p.fragments_in_msg \in Nat
    BY FragmentFields, CountIsNat
  <2> QED
    BY <2>1, FragmentFields, SizesAssumption
       DEF HeaderError, BadFragmentId, TooManyFragments, Bytes, Names
<1>2. p.fragment_id \in 0 .. LCM3_MAX_FRAGMENTS - 1
  BY <1>1, SizesAssumption
<1>3. [i \in DOMAIN f.buf |-> IF i \in Covered(p) THEN p.body ELSE f.buf[i]]
        \in [0 .. m.msg_len - 1 -> Bytes]
  BY <1>1 DEF BufferFor
<1>4. f.frag_received \cup {p.fragment_id} \in SUBSET (0 .. LCM3_MAX_FRAGMENTS - 1)
  BY <1>2 DEF BufferFor
<1>5. (IF p.fragment_id \in f.frag_received THEN f.fragments_remaining
       ELSE f.fragments_remaining - 1) \in Int
  BY DEF BufferFor
<1>6. (IF p.fragment_id = 0 THEN p.channel ELSE f.channel) \in Names
  BY <1>1 DEF BufferFor
<1> QED
  BY <1>3, <1>4, <1>5, <1>6 DEF Stored, BufferFor, Key

\* Stamping a buffer changes nothing else.
LEMMA StampedType ==
  ASSUME NEW m \in LongMessages, NEW f \in BufferFor(m), NEW t \in Nat
  PROVE  /\ [f EXCEPT !.last_fragment_count = t] \in BufferFor(m)
         /\ [f EXCEPT !.last_fragment_count = t].last_fragment_count = t
         /\ Key([f EXCEPT !.last_fragment_count = t]) = Key(f)
  BY DEF BufferFor, Key

\* A new buffer is as long as the message of its fragment.
LEMMA NewBufferType ==
  ASSUME NEW m \in LongMessages, NEW p \in Fragments(m), NEW c \in Names,
         last_fragment_count \in Nat
  PROVE  /\ NewBuffer(p, c) \in BufferFor(m)
         /\ Key(NewBuffer(p, c)) = Key(p)
<1>1. p.fragments_in_msg \in Nat
  BY FragmentFields, CountIsNat
<1> QED
  BY <1>1, FragmentFields DEF NewBuffer, BufferFor, Key, Bytes

\* A new buffer collects the message of its fragment.
LEMMA NewBufferCollects ==
  ASSUME NEW m \in LongMessages, NEW p \in Fragments(m), NEW c
  PROVE  Collects(NewBuffer(p, c), m)
<1>1. Cardinality({}) = 0
  BY FS_EmptySet
<1>2. p.fragments_in_msg \in Nat
  BY FragmentFields, CountIsNat
<1> QED
  BY <1>1, <1>2, FragmentFields DEF NewBuffer, Collects, Key

\* Stamping a buffer leaves it collecting its message.
LEMMA StampedCollects ==
  ASSUME NEW m \in LongMessages, NEW n \in LongMessages, NEW f \in BufferFor(n),
         Collects(f, m), NEW t
  PROVE  Collects([f EXCEPT !.last_fragment_count = t], m)
  BY DEF BufferFor, Collects, Key

\* Two fragments of a message with the same id are the same.
LEMMA SameIdSameFragment ==
  ASSUME NEW m \in LongMessages, NEW p \in Fragments(m), NEW q \in Fragments(m),
         p.fragment_id = q.fragment_id
  PROVE  p = q
  BY DEF Fragments, Fragment

\* A fragment of its message leaves a buffer collecting that message.
LEMMA StoredCollects ==
  ASSUME NEW m \in LongMessages, NEW n \in LongMessages, NEW f \in BufferFor(n),
         Collects(f, m), NEW p \in Fragments(m)
  PROVE  Collects(Stored(f, p), m)
<1> DEFINE g == Stored(f, p)
           N == fragments_in_msg(m.channel_len, m.msg_len)
<1>0. /\ p.fragment_id \in FragmentIds(m)
      /\ p.body = m.body /\ p.channel = m.channel
      /\ N \in Nat
  BY FragmentFields, CountIsNat
<1>1. Key(g) = Key(m) /\ DOMAIN g.buf = 0 .. m.msg_len - 1
  BY DEF Stored, Collects, BufferFor, Key
<1>2. g.frag_received = f.frag_received \cup {p.fragment_id}
  BY DEF Stored, BufferFor
<1>3. g.frag_received \subseteq FragmentIds(m)
  BY <1>0, <1>2 DEF Collects
<1>4. g.fragments_remaining = N - Cardinality(g.frag_received)
  <2>1. IsFiniteSet(f.frag_received) /\ Cardinality(f.frag_received) \in Nat
    <3>1. IsFiniteSet(FragmentIds(m))
      BY <1>0, FS_Interval DEF FragmentIds
    <3> QED
      BY <3>1, FS_Subset, FS_CardinalityType DEF Collects
  <2>2. Cardinality(g.frag_received) =
          IF p.fragment_id \in f.frag_received THEN Cardinality(f.frag_received)
          ELSE Cardinality(f.frag_received) + 1
    BY <1>2, <2>1, FS_AddElement
  <2>3. g.fragments_remaining =
          IF p.fragment_id \in f.frag_received THEN f.fragments_remaining
          ELSE f.fragments_remaining - 1
    BY DEF Stored, BufferFor
  <2>4. f.fragments_remaining = N - Cardinality(f.frag_received)
    BY DEF Collects
  <2> QED
    BY <1>0, <2>1, <2>2, <2>3, <2>4
<1>5. 0 \in g.frag_received => g.channel = m.channel
  BY <1>0, <1>2 DEF Stored, BufferFor, Collects
<1>6. ASSUME NEW q \in Fragments(m), q.fragment_id \in g.frag_received, NEW i \in Covered(q)
      PROVE  i \in DOMAIN f.buf => g.buf[i] = m.body
  <2>1. i \in DOMAIN f.buf => g.buf[i] = IF i \in Covered(p) THEN p.body ELSE f.buf[i]
    BY DEF Stored, BufferFor
  <2>2. CASE q.fragment_id = p.fragment_id
    BY <1>0, <2>1, <2>2, SameIdSameFragment
  <2>3. CASE q.fragment_id \in f.frag_received
    BY <1>0, <2>1, <2>3 DEF Collects
  <2> QED
    BY <1>2, <1>6, <2>2, <2>3
<1>7. \A q \in Fragments(m) : Covered(q) \subseteq DOMAIN f.buf
  BY CoveredInMessage DEF Collects
<1> QED
  BY <1>1, <1>3, <1>4, <1>5, <1>6, <1>7 DEF Collects

-----------------------------------------------------------------------------
(* Which buffer a call uses *)

\* A set of numbers that is not empty has a least one.
LEMMA LeastNumber ==
  ASSUME NEW S \in SUBSET Nat, S # {}
  PROVE  \E i \in S : \A j \in S : i <= j
<1> DEFINE R == OpToRel(<, Nat)
<1>1. PICK i \in S : \A j \in S : ~(<<j, i>> \in R)
  BY NatLessThanWellFounded, WFMin
<1>2. \A j \in S : ~(j < i)
  BY <1>1 DEF OpToRel
<1> QED
  BY <1>2

LEMMA FirstOfSet ==
  ASSUME NEW S \in SUBSET Nat, S # {}
  PROVE  FirstOf(S) \in S
  BY LeastNumber DEF FirstOf

\* The buffers in use are the first ones.
LEMMA BuffersInUse ==
  ASSUME TypeOK
  PROVE  /\ Len(fragment_buffers) \in 0 .. LCM3_NUM_BUFFERS
         /\ DOMAIN fragment_buffers = 1 .. Len(fragment_buffers)
         /\ DOMAIN fragment_buffers \subseteq Nat
<1>1. PICK n \in 0 .. LCM3_NUM_BUFFERS : DOMAIN fragment_buffers = 1 .. n
  BY DEF TypeOK
<1>2. n \in Nat
  BY <1>1, BuffersAssumption
<1>3. Len(fragment_buffers) = n
  BY <1>1, <1>2
<1> QED
  BY <1>1, <1>2, <1>3

\* Some buffer in use is the oldest.
LEMMA OldestExists ==
  ASSUME TypeOK, DOMAIN fragment_buffers # {}
  PROVE  Oldest # {}
<1> DEFINE T == {fragment_buffers[i].last_fragment_count : i \in DOMAIN fragment_buffers}
<1>1. T \subseteq Nat /\ T # {}
  BY DEF TypeOK, BufferFor
<1>2. PICK t \in T : \A u \in T : t <= u
  BY <1>1, LeastNumber
<1>3. PICK i \in DOMAIN fragment_buffers : fragment_buffers[i].last_fragment_count = t
  BY <1>2
<1>4. last_fragment_count \in Nat
  BY DEF TypeOK
<1>5. \A j \in DOMAIN fragment_buffers : Age(j) <= Age(i)
  <2> TAKE j \in DOMAIN fragment_buffers
  <2>1. fragment_buffers[j].last_fragment_count \in T
    OBVIOUS
  <2>2. t \in Nat /\ fragment_buffers[j].last_fragment_count \in Nat
    BY <1>1, <1>2, <2>1
  <2>3. t <= fragment_buffers[j].last_fragment_count
    BY <1>2, <2>1
  <2> HIDE DEF T
  <2> QED
    BY <1>3, <1>4, <2>2, <2>3 DEF Age
<1> QED
  BY <1>5 DEF Oldest

\* When all buffers are in use, the one that is taken over is one of them.
LEMMA VictimInUse ==
  ASSUME TypeOK, DOMAIN fragment_buffers # {}
  PROVE  Victim \in DOMAIN fragment_buffers
<1>1. DOMAIN fragment_buffers \subseteq Nat
  BY BuffersInUse
<1>2. Oldest # {}
  BY OldestExists
<1>3. Finished \subseteq DOMAIN fragment_buffers /\ Oldest \subseteq DOMAIN fragment_buffers
  BY DEF Finished, Oldest
<1>4. CASE Finished # {}
  BY <1>1, <1>3, <1>4, FirstOfSet DEF Victim
<1>5. CASE Finished = {}
  BY <1>1, <1>2, <1>3, <1>5, FirstOfSet DEF Victim
<1> QED
  BY <1>4, <1>5

-----------------------------------------------------------------------------
(* Types, and one buffer for each key *)

Shape == TypeOK /\ OneBufferPerKey

\* A call that was given a buffer f for the key of p, to be the i-th one.
Given(p, f, i) ==
  /\ Key(f) = Key(p)
  /\ \E n \in 1 .. LCM3_NUM_BUFFERS : DOMAIN fragment_buffers \cup {i} = 1 .. n
  /\ \A j \in DOMAIN fragment_buffers \ {i} : Key(fragment_buffers[j]) # Key(p)

\* The buffer a call leaves behind.
Left(p, f) ==
  LET stamped == [f EXCEPT !.last_fragment_count = last_fragment_count]
  IN  IF BadName(p) THEN stamped ELSE Stored(stamped, p)

\* That buffer has the key of the fragment and the current time.
LEMMA LeftType ==
  ASSUME NEW m \in LongMessages, NEW f \in BufferFor(m), last_fragment_count \in Nat,
         NEW n \in LongMessages, NEW p \in Fragments(n), ~HeaderError(p)
  PROVE  /\ Left(p, f) \in BufferFor(m)
         /\ Left(p, f).last_fragment_count = last_fragment_count
         /\ Key(Left(p, f)) = Key(f)
<1> DEFINE s == [f EXCEPT !.last_fragment_count = last_fragment_count]
<1>1. /\ s \in BufferFor(m)
      /\ s.last_fragment_count = last_fragment_count
      /\ Key(s) = Key(f)
  BY StampedType
<1>2. /\ Stored(s, p) \in BufferFor(m)
      /\ Stored(s, p).last_fragment_count = s.last_fragment_count
      /\ Key(Stored(s, p)) = Key(s)
  BY <1>1, StoredType
<1> QED
  BY <1>1, <1>2 DEF Left

\* What a call returns has the length its fragment announced.
LEMMA ReturnedType ==
  ASSUME NEW m \in LongMessages, NEW f \in BufferFor(m),
         NEW n \in LongMessages, NEW p \in Fragments(n), ~HeaderError(p),
         NEW r \in Returned(f, p)
  PROVE  r = Error \/ r \in ResultFor(n)
<1> DEFINE g == Stored(f, p)
<1>1. g \in BufferFor(m)
  BY StoredType
<1>2. Data(g, p) \in [0 .. n.msg_len - 1 -> Bytes \cup {Junk}]
  BY <1>1, FragmentFields DEF Data, BufferFor
<1>3. g.channel \in Names /\ g.fragments_remaining \in Int
  BY <1>1 DEF BufferFor
<1>4. \/ r = Error
      \/ r = [kind |-> "message", channel |-> g.channel, data |-> Data(g, p)]
      \/ r = [kind |-> "partial", channel |-> g.channel, remaining |-> g.fragments_remaining]
  BY DEF Returned
<1> QED
  BY <1>2, <1>3, <1>4 DEF ResultFor

\* Accepting a fragment keeps the buffers in shape.
LEMMA AcceptShape ==
  ASSUME Shape,
         NEW n \in LongMessages, NEW p \in Fragments(n), ~HeaderError(p),
         NEW m \in LongMessages, NEW f \in BufferFor(m), NEW i,
         Given(p, f, i), Accept(p, f, i)
  PROVE  Shape'
<1> DEFINE s == [f EXCEPT !.last_fragment_count = last_fragment_count]
<1>0. last_fragment_count \in Nat /\ last_fragment_count' = last_fragment_count + 1
  BY DEF Shape, TypeOK, Accept
<1>1. fragment_buffers' = [j \in DOMAIN fragment_buffers \cup {i} |->
                             IF j = i THEN Left(p, f) ELSE fragment_buffers[j]]
  BY DEF Accept, Left
<1>2. /\ Left(p, f) \in BufferFor(m)
      /\ Left(p, f).last_fragment_count = last_fragment_count
      /\ Key(Left(p, f)) = Key(p)
  BY <1>0, LeftType DEF Given
<1>3. \A j \in DOMAIN fragment_buffers' :
        /\ \E k \in LongMessages : fragment_buffers'[j] \in BufferFor(k)
        /\ fragment_buffers'[j].last_fragment_count < last_fragment_count'
  <2> SUFFICES ASSUME NEW j \in DOMAIN fragment_buffers'
               PROVE  /\ \E k \in LongMessages : fragment_buffers'[j] \in BufferFor(k)
                      /\ fragment_buffers'[j].last_fragment_count < last_fragment_count'
    OBVIOUS
  <2>1. CASE j = i
    BY <1>0, <1>1, <1>2, <2>1
  <2>2. CASE j # i
    <3>1. j \in DOMAIN fragment_buffers /\ fragment_buffers'[j] = fragment_buffers[j]
      BY <1>1, <2>2
    <3>2. PICK k \in LongMessages : fragment_buffers[j] \in BufferFor(k)
      BY <3>1 DEF Shape, TypeOK
    <3>3. fragment_buffers[j].last_fragment_count \in Nat
      BY <3>2 DEF BufferFor
    <3>4. fragment_buffers[j].last_fragment_count < last_fragment_count
      BY <3>1 DEF Shape, TypeOK
    <3> QED
      BY <1>0, <3>1, <3>2, <3>3, <3>4
  <2> QED
    BY <2>1, <2>2
<1>4. ret' = Error \/ \E k \in LongMessages : ret' \in ResultFor(k)
  <2>1. s \in BufferFor(m)
    BY <1>0, StampedType
  <2>2. ret' \in Returned(s, p)
    BY DEF Accept
  <2> QED
    BY <2>1, <2>2, ReturnedType
<1>5. behind' \in [Keys -> SUBSET Keys]
  <2>1. Key(p) \in Keys
    BY FragmentFields DEF Keys
  <2> QED
    BY <2>1 DEF Accept, Shape, TypeOK
<1>6. \E k \in 0 .. LCM3_NUM_BUFFERS : DOMAIN fragment_buffers' = 1 .. k
  BY <1>1, BuffersAssumption DEF Given
<1>7. fragment_buffers' = [j \in DOMAIN fragment_buffers' |-> fragment_buffers'[j]]
  BY <1>1
<1>8. TypeOK'
  BY <1>0, <1>3, <1>4, <1>5, <1>6, <1>7 DEF TypeOK
<1>9. OneBufferPerKey'
  <2> SUFFICES ASSUME NEW j \in DOMAIN fragment_buffers', NEW k \in DOMAIN fragment_buffers',
                      Key(fragment_buffers'[j]) = Key(fragment_buffers'[k])
               PROVE  j = k
    BY DEF OneBufferPerKey, Key
  <2>1. \A l \in DOMAIN fragment_buffers' :
          l # i => l \in DOMAIN fragment_buffers /\ fragment_buffers'[l] = fragment_buffers[l]
    BY <1>1
  <2>2. fragment_buffers'[i] = Left(p, f)
    BY <1>1
  <2> QED
    BY <1>2, <2>1, <2>2 DEF Given, Shape, OneBufferPerKey
<1> QED
  BY <1>8, <1>9 DEF Shape

\* What each way of obtaining a buffer gives to Accept.
LEMMA FindGiven ==
  ASSUME Shape, NEW p \in Packets, Find(p)
  PROVE  LET i == FirstOf(Search(p))
         IN  /\ i \in DOMAIN fragment_buffers
             /\ Given(p, fragment_buffers[i], i)
             /\ \E m \in LongMessages : fragment_buffers[i] \in BufferFor(m)
             /\ Accept(p, fragment_buffers[i], i)
<1> DEFINE i == FirstOf(Search(p))
<1>1. DOMAIN fragment_buffers \subseteq Nat
  BY BuffersInUse DEF Shape
<1>2. i \in Search(p)
  BY <1>1, FirstOfSet DEF Find, Search
<1>3. i \in DOMAIN fragment_buffers /\ Key(fragment_buffers[i]) = Key(p)
  BY <1>2 DEF Search
<1>4. \E n \in 1 .. LCM3_NUM_BUFFERS : DOMAIN fragment_buffers \cup {i} = 1 .. n
  BY <1>3, BuffersAssumption DEF Shape, TypeOK
<1>5. \A j \in DOMAIN fragment_buffers \ {i} : Key(fragment_buffers[j]) # Key(p)
  BY <1>3 DEF Shape, OneBufferPerKey
<1> QED
  BY <1>3, <1>4, <1>5 DEF Given, Find, Shape, TypeOK

LEMMA CreateGiven ==
  ASSUME Shape, NEW m \in LongMessages, NEW p \in Fragments(m), Create(p)
  PROVE  LET i == Len(fragment_buffers) + 1
             f == NewBuffer(p, NoName)
         IN  Given(p, f, i) /\ f \in BufferFor(m) /\ Accept(p, f, i)
<1> DEFINE i == Len(fragment_buffers) + 1
<1>1. /\ Len(fragment_buffers) \in 0 .. LCM3_NUM_BUFFERS
      /\ DOMAIN fragment_buffers = 1 .. Len(fragment_buffers)
  BY BuffersInUse DEF Shape
<1>2. i \in 1 .. LCM3_NUM_BUFFERS /\ DOMAIN fragment_buffers \cup {i} = 1 .. i
  BY <1>1, BuffersAssumption DEF Create
<1>3. NoName \in Names /\ last_fragment_count \in Nat
  BY DEF Names, Shape, TypeOK
<1>4. NewBuffer(p, NoName) \in BufferFor(m) /\ Key(NewBuffer(p, NoName)) = Key(p)
  BY <1>3, NewBufferType
<1>5. \A j \in DOMAIN fragment_buffers : Key(fragment_buffers[j]) # Key(p)
  BY DEF Create, Search
<1> QED
  BY <1>2, <1>4, <1>5 DEF Given, Create

LEMMA EvictGiven ==
  ASSUME Shape, NEW m \in LongMessages, NEW p \in Fragments(m), Evict(p)
  PROVE  LET i == Victim
             f == NewBuffer(p, fragment_buffers[i].channel)
         IN  /\ i \in DOMAIN fragment_buffers
             /\ Given(p, f, i)
             /\ f \in BufferFor(m)
             /\ Accept(p, f, i)
<1> DEFINE i == Victim
           c == fragment_buffers[i].channel
<1>1. DOMAIN fragment_buffers = 1 .. LCM3_NUM_BUFFERS
  <2>1. /\ Len(fragment_buffers) \in 0 .. LCM3_NUM_BUFFERS
        /\ DOMAIN fragment_buffers = 1 .. Len(fragment_buffers)
    BY BuffersInUse DEF Shape
  <2>2. Len(fragment_buffers) >= LCM3_NUM_BUFFERS
    BY DEF Evict
  <2>3. \A k \in 0 .. LCM3_NUM_BUFFERS : k >= LCM3_NUM_BUFFERS => k = LCM3_NUM_BUFFERS
    BY BuffersAssumption
  <2>4. Len(fragment_buffers) = LCM3_NUM_BUFFERS
    BY <2>1, <2>2, <2>3
  <2> QED
    BY <2>1, <2>4
<1>2. i \in DOMAIN fragment_buffers
  BY <1>1, BuffersAssumption, VictimInUse DEF Shape
<1>3. c \in Names /\ last_fragment_count \in Nat
  BY <1>2 DEF Shape, TypeOK, BufferFor
<1>4. NewBuffer(p, c) \in BufferFor(m) /\ Key(NewBuffer(p, c)) = Key(p)
  BY <1>3, NewBufferType
<1>5. \A j \in DOMAIN fragment_buffers : Key(fragment_buffers[j]) # Key(p)
  BY DEF Evict, Search
<1>6. \E n \in 1 .. LCM3_NUM_BUFFERS : DOMAIN fragment_buffers \cup {i} = 1 .. n
  BY <1>1, <1>2, BuffersAssumption
<1> QED
  BY <1>2, <1>4, <1>5, <1>6 DEF Given, Evict

\* Every call keeps the buffers in shape.
LEMMA StepShape ==
  ASSUME Shape, [Next]_vars
  PROVE  Shape'
<1>1. ASSUME NEW p \in Packets, Refuse(p)
      PROVE  Shape'
  BY <1>1 DEF Refuse, Shape, TypeOK, OneBufferPerKey
<1>2. ASSUME NEW p \in Packets, Find(p)
      PROVE  Shape'
  <2>1. PICK n \in LongMessages : p \in Fragments(n)
    BY PacketOfMessage
  <2> DEFINE f == fragment_buffers[FirstOf(Search(p))]
  <2>2. /\ Given(p, f, FirstOf(Search(p)))
        /\ Accept(p, f, FirstOf(Search(p)))
        /\ \E m \in LongMessages : f \in BufferFor(m)
    BY <1>2, FindGiven
  <2> QED
    BY <1>2, <2>1, <2>2, AcceptShape DEF Find
<1>3. ASSUME NEW p \in Packets, Create(p)
      PROVE  Shape'
  <2>1. PICK n \in LongMessages : p \in Fragments(n)
    BY PacketOfMessage
  <2> QED
    BY <1>3, <2>1, CreateGiven, AcceptShape DEF Create
<1>4. ASSUME NEW p \in Packets, Evict(p)
      PROVE  Shape'
  <2>1. PICK n \in LongMessages : p \in Fragments(n)
    BY PacketOfMessage
  <2> QED
    BY <1>4, <2>1, EvictGiven, AcceptShape DEF Evict
<1>5. CASE UNCHANGED vars
  BY <1>5 DEF vars, Shape, TypeOK, OneBufferPerKey
<1> QED
  BY <1>1, <1>2, <1>3, <1>4, <1>5 DEF Next

LEMMA InitShape == Init => Shape
<1> SUFFICES ASSUME Init
             PROVE  Shape
  OBVIOUS
<1>1. DOMAIN fragment_buffers = 1 .. 0 /\ DOMAIN fragment_buffers = {}
  BY DEF Init
<1>2. fragment_buffers = [i \in DOMAIN fragment_buffers |-> fragment_buffers[i]]
  BY DEF Init
<1>3. 0 \in 0 .. LCM3_NUM_BUFFERS
  BY BuffersAssumption
<1> QED
  BY <1>1, <1>2, <1>3 DEF Init, Shape, TypeOK, OneBufferPerKey

\* The state keeps its type, whatever the network does: in particular at most
\* LCM3_NUM_BUFFERS buffers exist and none is stamped in the future.
THEOREM TypeCorrect == Spec => []TypeOK
<1>1. Shape => TypeOK
  BY DEF Shape
<1> QED
  BY InitShape, StepShape, <1>1, PTL DEF Spec

\* No two buffers ever have the same key, even when messages share one.
THEOREM OneBuffer == Spec => []OneBufferPerKey
<1>1. Shape => OneBufferPerKey
  BY DEF Shape
<1> QED
  BY InitShape, StepShape, <1>1, PTL DEF Spec

-----------------------------------------------------------------------------
(* The messages handed over are whole *)

\* A buffer that misses no fragment holds the whole message and its channel.
LEMMA WholeMessage ==
  ASSUME NEW m \in LongMessages, NEW g, Collects(g, m),
         g.fragments_remaining = 0, FragmentIds(m) # {}
  PROVE  /\ g.channel = m.channel
         /\ \A j \in 0 .. m.msg_len - 1 : g.buf[j] = m.body
<1> DEFINE N == fragments_in_msg(m.channel_len, m.msg_len)
<1>1. N \in Nat /\ FragmentIds(m) = 0 .. N - 1
  BY CountIsNat DEF FragmentIds
<1>2. IsFiniteSet(FragmentIds(m)) /\ Cardinality(FragmentIds(m)) = N
  BY <1>1, FS_Interval
<1>3. g.frag_received \subseteq FragmentIds(m)
  BY DEF Collects
<1>4. Cardinality(g.frag_received) = N
  <2>1. IsFiniteSet(g.frag_received) /\ Cardinality(g.frag_received) \in Nat
    BY <1>2, <1>3, FS_Subset, FS_CardinalityType
  <2> QED
    BY <1>1, <2>1 DEF Collects
<1>5. g.frag_received = FragmentIds(m)
  BY <1>2, <1>3, <1>4, FS_Subset
<1>6. 0 \in FragmentIds(m)
  BY <1>1
<1>7. \A j \in 0 .. m.msg_len - 1 : g.buf[j] = m.body
  <2> TAKE j \in 0 .. m.msg_len - 1
  <2>1. PICK p \in Fragments(m) : j \in Covered(p)
    BY FragmentsCover
  <2>2. p.fragment_id \in g.frag_received
    BY <1>5, FragmentFields
  <2> QED
    BY <2>1, <2>2 DEF Collects
<1> QED
  BY <1>5, <1>6, <1>7 DEF Collects

\* Accepting a fragment of n with a buffer that collects n.
LEMMA AcceptIntact ==
  ASSUME Coherent,
         NEW n \in LongMessages, NEW p \in Fragments(n),
         NEW m \in LongMessages, NEW f \in BufferFor(m), Collects(f, n),
         NEW i, last_fragment_count \in Nat, Accept(p, f, i)
  PROVE  Coherent' /\ (ret'.kind = "message" => IsMessage(n, ret'))
<1> DEFINE s == [f EXCEPT !.last_fragment_count = last_fragment_count]
           g == Stored(s, p)
<1>1. s \in BufferFor(m) /\ Collects(s, n)
  BY StampedType, StampedCollects
<1>2. Collects(g, n)
  BY <1>1, StoredCollects
<1>3. Coherent'
  <2>1. fragment_buffers' = [j \in DOMAIN fragment_buffers \cup {i} |->
                               IF j = i THEN Left(p, f) ELSE fragment_buffers[j]]
    BY DEF Accept, Left
  <2>2. Collects(Left(p, f), n)
    BY <1>1, <1>2 DEF Left
  <2>3. ASSUME NEW j \in DOMAIN fragment_buffers'
        PROVE  \E k \in LongMessages : Collects(fragment_buffers'[j], k)
    <3>1. CASE j = i
      BY <2>1, <2>2, <3>1
    <3>2. CASE j # i
      BY <2>1, <3>2 DEF Coherent
    <3> QED
      BY <3>1, <3>2
  <2> QED
    BY <2>3 DEF Coherent, Collects, Key
<1>4. ASSUME ret'.kind = "message"
      PROVE  IsMessage(n, ret')
  <2>1. /\ g.fragments_remaining = 0
        /\ ret' = [kind |-> "message", channel |-> g.channel, data |-> Data(g, p)]
    <3>1. ret' \in Returned(s, p)
      BY DEF Accept
    <3> QED
      BY <1>4, <3>1 DEF Returned, Error
  <2>2. FragmentIds(n) # {} /\ p.msg_size = n.msg_len
    BY FragmentFields
  <2>3. g.channel = n.channel /\ \A j \in 0 .. n.msg_len - 1 : g.buf[j] = n.body
    BY <1>2, <2>1, <2>2, WholeMessage
  <2>4. DOMAIN g.buf = 0 .. n.msg_len - 1
    BY <1>2 DEF Collects
  <2>5. Data(g, p) = [j \in 0 .. n.msg_len - 1 |-> n.body]
    BY <2>2, <2>3, <2>4 DEF Data
  <2> QED
    BY <2>1, <2>3, <2>5 DEF IsMessage
<1> QED
  BY <1>3, <1>4

\* Every call keeps the buffers coherent, and the message it returns, if any, is
\* the one its fragment belongs to.
LEMMA CallIntact ==
  ASSUME UniqueKeys, Shape, Coherent,
         NEW n \in LongMessages, NEW p \in Fragments(n), Assemble3(p)
  PROVE  Coherent' /\ (ret'.kind = "message" => IsMessage(n, ret'))
<1>0. last_fragment_count \in Nat /\ p \in Packets
  BY DEF Shape, TypeOK, Packets
<1>1. CASE Refuse(p)
  BY <1>1 DEF Refuse, Coherent, Collects, Key, Error
<1>2. CASE Find(p)
  <2> DEFINE i == FirstOf(Search(p))
             f == fragment_buffers[i]
  <2>1. /\ i \in DOMAIN fragment_buffers
        /\ Key(f) = Key(p)
        /\ Accept(p, f, i)
        /\ \E m \in LongMessages : f \in BufferFor(m)
    BY <1>0, <1>2, FindGiven DEF Given
  <2>2. PICK m \in LongMessages : Collects(f, m)
    BY <2>1 DEF Coherent
  <2>3. m = n
    <3>1. Key(f) = Key(m)
      BY <2>2 DEF Collects
    <3>2. Key(p) = Key(n)
      BY FragmentFields
    <3> QED
      BY <2>1, <3>1, <3>2 DEF UniqueKeys
  <2> QED
    BY <1>0, <2>1, <2>2, <2>3, AcceptIntact
<1>3. CASE Create(p)
  <2>1. Collects(NewBuffer(p, NoName), n)
    BY NewBufferCollects
  <2> QED
    BY <1>0, <1>3, <2>1, CreateGiven, AcceptIntact
<1>4. CASE Evict(p)
  <2>1. Collects(NewBuffer(p, fragment_buffers[Victim].channel), n)
    BY NewBufferCollects
  <2> QED
    BY <1>0, <1>4, <2>1, EvictGiven, AcceptIntact
<1> QED
  BY <1>1, <1>2, <1>3, <1>4 DEF Assemble3

LEMMA StepIntact ==
  ASSUME UniqueKeys, Shape, Coherent, Intact, [Next]_vars
  PROVE  Coherent' /\ Intact'
<1>1. ASSUME NEW p \in Packets, Assemble3(p)
      PROVE  Coherent' /\ Intact'
  <2>1. PICK n \in LongMessages : p \in Fragments(n)
    BY PacketOfMessage
  <2>2. Coherent' /\ (ret'.kind = "message" => IsMessage(n, ret'))
    BY <1>1, <2>1, CallIntact
  <2> QED
    BY <2>2 DEF Intact, IsMessage
<1>2. CASE UNCHANGED vars
  BY <1>2 DEF vars, Coherent, Collects, Key, Intact, IsMessage
<1> QED
  BY <1>1, <1>2 DEF Next, Assemble3

\* As long as a key belongs to one message, a message is handed over only when
\* all its bytes are there, and under its own channel.
THEOREM WholeMessagesOnly == UniqueKeys => (Spec => [](Coherent /\ Intact))
<1> SUFFICES ASSUME UniqueKeys
             PROVE  Spec => [](Coherent /\ Intact)
  OBVIOUS
<1>1. Init => Coherent /\ Intact
  BY DEF Init, Coherent, Intact, Error
<1>2. Shape /\ Coherent /\ Intact /\ [Next]_vars => (Shape /\ Coherent /\ Intact)'
  BY StepShape, StepIntact
<1> QED
  BY InitShape, <1>1, <1>2, PTL DEF Spec

\* As long as a key belongs to one message, the accounting of a buffer never
\* parts from its contents, however often its fragments come and whatever it held
\* before it was taken over.
THEOREM CoherentBuffers == UniqueKeys => (Spec => []Coherent)
<1>1. Coherent /\ Intact => Coherent
  OBVIOUS
<1> QED
  BY WholeMessagesOnly, <1>1, PTL

-----------------------------------------------------------------------------
(* Who loses a buffer *)

(***************************************************************************)
(* The stamps of the buffers are the order in which their messages were    *)
(* last heard of: of two buffers, the one that is not stamped later has    *)
(* the key of the other among those accepted since.                        *)
(***************************************************************************)
Staleness ==
  /\ \A i \in DOMAIN fragment_buffers : Key(fragment_buffers[i]) \in Keys
  /\ \A i, j \in DOMAIN fragment_buffers :
       fragment_buffers[i].last_fragment_count <= fragment_buffers[j].last_fragment_count =>
         i = j \/ Key(fragment_buffers[j]) \in behind[Key(fragment_buffers[i])]

LEMMA AcceptStaleness ==
  ASSUME Shape, Staleness,
         NEW n \in LongMessages, NEW p \in Fragments(n), ~HeaderError(p),
         NEW m \in LongMessages, NEW f \in BufferFor(m), NEW i,
         Given(p, f, i), Accept(p, f, i)
  PROVE  Staleness'
<1>1. fragment_buffers' = [j \in DOMAIN fragment_buffers \cup {i} |->
                             IF j = i THEN Left(p, f) ELSE fragment_buffers[j]]
  BY DEF Accept, Left
<1>2. last_fragment_count \in Nat
  BY DEF Shape, TypeOK
<1>3. /\ Left(p, f).last_fragment_count = last_fragment_count
      /\ Key(Left(p, f)) = Key(p)
  BY <1>2, LeftType DEF Given
<1>4. Key(p) \in Keys
  BY FragmentFields DEF Keys
<1>5. behind' = [k \in Keys |-> IF k = Key(p) THEN {} ELSE behind[k] \cup {Key(p)}]
  BY DEF Accept
\* A buffer that is not the one of this call: it was stamped before, it has
\* another key, and the key of p comes behind it.
<1>6. ASSUME NEW j \in DOMAIN fragment_buffers', j # i
      PROVE  /\ j \in DOMAIN fragment_buffers
             /\ fragment_buffers'[j] = fragment_buffers[j]
             /\ fragment_buffers[j].last_fragment_count \in Nat
             /\ fragment_buffers[j].last_fragment_count < last_fragment_count
             /\ Key(fragment_buffers[j]) \in Keys
             /\ behind'[Key(fragment_buffers[j])] =
                  behind[Key(fragment_buffers[j])] \cup {Key(p)}
  <2>1. j \in DOMAIN fragment_buffers /\ fragment_buffers'[j] = fragment_buffers[j]
    BY <1>1, <1>6
  <2>2. /\ fragment_buffers[j].last_fragment_count < last_fragment_count
        /\ \E k \in LongMessages : fragment_buffers[j] \in BufferFor(k)
    BY <2>1 DEF Shape, TypeOK
  <2>3. fragment_buffers[j].last_fragment_count \in Nat
    BY <2>2 DEF BufferFor
  <2>4. Key(fragment_buffers[j]) \in Keys /\ Key(fragment_buffers[j]) # Key(p)
    BY <1>6, <2>1 DEF Staleness, Given
  <2> QED
    BY <1>5, <2>1, <2>2, <2>3, <2>4
<1>7. fragment_buffers'[i] = Left(p, f)
  BY <1>1
<1>8. \A j \in DOMAIN fragment_buffers' : Key(fragment_buffers'[j]) \in Keys
  BY <1>3, <1>4, <1>6, <1>7
<1>9. ASSUME NEW j \in DOMAIN fragment_buffers', NEW k \in DOMAIN fragment_buffers', j # k,
             fragment_buffers'[j].last_fragment_count <= fragment_buffers'[k].last_fragment_count
      PROVE  Key(fragment_buffers'[k]) \in behind'[Key(fragment_buffers'[j])]
  <2>1. CASE j = i
    \* It has the latest stamp of all.
    BY <1>2, <1>3, <1>6, <1>7, <1>9, <2>1
  <2>2. CASE j # i /\ k = i
    BY <1>3, <1>6, <1>7, <2>2
  <2>3. CASE j # i /\ k # i
    BY <1>6, <1>9, <2>3 DEF Staleness
  <2> QED
    BY <1>9, <2>1, <2>2, <2>3
<1>10. \A j \in DOMAIN fragment_buffers' : Key(fragment_buffers[j])' = Key(fragment_buffers'[j])
  BY DEF Key
<1> QED
  BY <1>8, <1>9, <1>10 DEF Staleness, Keys, Key

LEMMA StepStaleness ==
  ASSUME Shape, Staleness, [Next]_vars
  PROVE  Staleness'
<1>1. ASSUME NEW p \in Packets, Refuse(p)
      PROVE  Staleness'
  BY <1>1 DEF Refuse, Staleness, Keys, Key
<1>2. ASSUME NEW p \in Packets, Find(p)
      PROVE  Staleness'
  <2>1. PICK n \in LongMessages : p \in Fragments(n)
    BY PacketOfMessage
  <2> DEFINE f == fragment_buffers[FirstOf(Search(p))]
  <2>2. /\ Given(p, f, FirstOf(Search(p)))
        /\ Accept(p, f, FirstOf(Search(p)))
        /\ \E m \in LongMessages : f \in BufferFor(m)
    BY <1>2, FindGiven
  <2> QED
    BY <1>2, <2>1, <2>2, AcceptStaleness DEF Find
<1>3. ASSUME NEW p \in Packets, Create(p)
      PROVE  Staleness'
  <2>1. PICK n \in LongMessages : p \in Fragments(n)
    BY PacketOfMessage
  <2> QED
    BY <1>3, <2>1, CreateGiven, AcceptStaleness DEF Create
<1>4. ASSUME NEW p \in Packets, Evict(p)
      PROVE  Staleness'
  <2>1. PICK n \in LongMessages : p \in Fragments(n)
    BY PacketOfMessage
  <2> QED
    BY <1>4, <2>1, EvictGiven, AcceptStaleness DEF Evict
<1>5. CASE UNCHANGED vars
  BY <1>5 DEF vars, Staleness, Keys, Key
<1> QED
  BY <1>1, <1>2, <1>3, <1>4, <1>5 DEF Next

\* A call changes the key of no buffer but the victim of an Evict.
LEMMA KeysStay ==
  ASSUME Shape, NEW p \in Packets, Assemble3(p), NEW i \in DOMAIN fragment_buffers,
         Key(fragment_buffers'[i]) # Key(fragment_buffers[i])
  PROVE  Evict(p) /\ i = Victim
<1>1. PICK n \in LongMessages : p \in Fragments(n)
  BY PacketOfMessage
<1>2. ASSUME NEW m \in LongMessages, NEW f \in BufferFor(m), NEW k, Accept(p, f, k), i # k
      PROVE  FALSE
  BY <1>2 DEF Accept
<1>3. CASE Refuse(p)
  BY <1>3 DEF Refuse
<1>4. CASE Find(p)
  <2> DEFINE k == FirstOf(Search(p))
             f == fragment_buffers[k]
  <2>1. /\ Accept(p, f, k)
        /\ \E m \in LongMessages : f \in BufferFor(m)
    BY <1>4, FindGiven
  <2>2. PICK m \in LongMessages : f \in BufferFor(m)
    BY <2>1
  <2>3. fragment_buffers'[k] = Left(p, f)
    BY <2>1 DEF Accept, Left
  <2>4. Key(Left(p, f)) = Key(f)
    BY <1>1, <1>4, <2>2, LeftType DEF Find, Shape, TypeOK
  <2>5. i = k
    BY <1>2, <2>1, <2>2
  <2> QED
    BY <2>3, <2>4, <2>5
<1>5. CASE Create(p)
  <2>1. /\ NewBuffer(p, NoName) \in BufferFor(n)
        /\ Accept(p, NewBuffer(p, NoName), Len(fragment_buffers) + 1)
    BY <1>1, <1>5, CreateGiven
  <2>2. i # Len(fragment_buffers) + 1
    BY BuffersInUse, BuffersAssumption DEF Shape
  <2> QED
    BY <1>2, <2>1, <2>2
<1>6. CASE Evict(p)
  BY <1>1, <1>2, <1>6, EvictGiven
<1> QED
  BY <1>3, <1>4, <1>5, <1>6 DEF Assemble3

\* An unfinished victim is the stalest of buffers that are all unfinished.
LEMMA VictimIsStalest ==
  ASSUME Shape, Staleness, DOMAIN fragment_buffers # {}, Unfinished(Victim),
         NEW j \in DOMAIN fragment_buffers \ {Victim}
  PROVE  /\ Unfinished(j)
         /\ Key(fragment_buffers[j]) \in behind[Key(fragment_buffers[Victim])]
<1>1. /\ Victim \in DOMAIN fragment_buffers
      /\ DOMAIN fragment_buffers \subseteq Nat
  BY VictimInUse, BuffersInUse DEF Shape
<1>2. Finished = {}
  <2> SUFFICES ASSUME Finished # {}
               PROVE  FALSE
    OBVIOUS
  <2>1. Victim \in Finished
    BY <1>1, FirstOfSet DEF Victim, Finished
  <2> QED
    BY <2>1 DEF Finished, Unfinished
<1>3. Unfinished(j)
  BY <1>2 DEF Finished, Unfinished
<1>4. Victim \in Oldest
  <2>1. Oldest # {} /\ Oldest \subseteq Nat
    BY <1>1, OldestExists DEF Oldest, Shape
  <2> QED
    BY <1>2, <2>1, FirstOfSet DEF Victim
<1>5. Age(j) <= Age(Victim)
  BY <1>4 DEF Oldest
<1>6. fragment_buffers[Victim].last_fragment_count <= fragment_buffers[j].last_fragment_count
  <2>1. \A k \in DOMAIN fragment_buffers : fragment_buffers[k].last_fragment_count \in Nat
    BY DEF Shape, TypeOK, BufferFor
  <2>2. last_fragment_count \in Nat
    BY DEF Shape, TypeOK
  <2> QED
    BY <1>1, <1>5, <2>1, <2>2 DEF Age
<1> QED
  BY <1>1, <1>3, <1>6 DEF Staleness

\* A message that is not finished loses its buffer only when no buffer is
\* finished, and every other message with a buffer was heard of after it.
THEOREM EvictsStalest == Spec => LosesBufferOnlyToFresher
<1> DEFINE Keeps ==
      \A i \in DOMAIN fragment_buffers :
        (Unfinished(i) /\ Key(fragment_buffers'[i]) # Key(fragment_buffers[i])) =>
          \A j \in DOMAIN fragment_buffers \ {i} :
            /\ Unfinished(j)
            /\ Key(fragment_buffers[j]) \in behind[Key(fragment_buffers[i])]
<1>1. Init => Staleness
  BY DEF Init, Staleness
<1>2. Shape /\ Staleness /\ [Next]_vars => (Shape /\ Staleness)'
  BY StepShape, StepStaleness
<1>3. Shape /\ Staleness /\ [Next]_vars => [Keeps]_vars
  <2> SUFFICES ASSUME Shape, Staleness, NEW p \in Packets, Assemble3(p)
               PROVE  Keeps
    BY DEF Next, Assemble3
  <2>1. SUFFICES ASSUME NEW i \in DOMAIN fragment_buffers, Unfinished(i),
                        Key(fragment_buffers'[i]) # Key(fragment_buffers[i]),
                        NEW j \in DOMAIN fragment_buffers \ {i}
                 PROVE  /\ Unfinished(j)
                        /\ Key(fragment_buffers[j]) \in behind[Key(fragment_buffers[i])]
    OBVIOUS
  <2>2. i = Victim
    BY <2>1, KeysStay
  <2> QED
    BY <2>1, <2>2, VictimIsStalest
<1> QED
  BY InitShape, <1>1, <1>2, <1>3, PTL DEF Spec, LosesBufferOnlyToFresher

=============================================================================
