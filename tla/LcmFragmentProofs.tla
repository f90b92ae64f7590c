-------------------------- MODULE LcmFragmentProofs --------------------------
(***************************************************************************)
(* Theorems about LcmFragment, for every size of the buffers, every length *)
(* of a message and every channel.  What they rest on is the loop's count: *)
(* fragment_id datagrams have been built, the one with number i for the    *)
(* bytes from i * max_fragment_size on, and the number that frag3 rounds   *)
(* up is the number of turns the loop takes.                               *)
(***************************************************************************)
EXTENDS LcmFragment, SequenceTheorems, TLAPS

-----------------------------------------------------------------------------
(* Rounding up *)

LEMMA Quotient ==
  ASSUME NEW a \in Nat, NEW n \in Nat \ {0}
  PROVE  /\ a = n * (a \div n) + (a % n)
         /\ a % n \in 0 .. n - 1
         /\ a \div n \in Nat
OBVIOUS

LEMMA TimesMonotone ==
  ASSUME NEW n \in Nat, NEW a \in Nat, NEW b \in Nat, a <= b
  PROVE  n * a <= n * b
<1>1. PICK k \in Nat : b = a + k
  <2>1. b - a \in Nat /\ b = a + (b - a)
    OBVIOUS
  <2> QED
    BY <2>1
<1>2. n * b = n * a + n * k /\ n * k \in Nat /\ n * a \in Nat
  BY <1>1
<1> QED
  BY <1>2

\* The multiples of n below len are those of the numbers below the quotient
\* of len and n, rounded up.
LEMMA RoundedUp ==
  ASSUME NEW len \in Nat, NEW n \in Nat \ {0}, NEW i \in Nat
  PROVE  /\ (len + n - 1) \div n \in Nat
         /\ i < (len + n - 1) \div n <=> i * n < len
<1> DEFINE q == (len + n - 1) \div n
           r == (len + n - 1) % n
<1>1. /\ len + n - 1 \in Nat
      /\ len + n - 1 = n * q + r
      /\ r \in 0 .. n - 1
      /\ q \in Nat
  <2>1. len + n - 1 \in Nat
    OBVIOUS
  <2> QED
    BY <2>1, Quotient
<1> HIDE DEF q, r
<1>2. n * i \in Nat /\ n * q \in Nat /\ i * n = n * i
  BY <1>1
<1>3. ASSUME i < q PROVE n * i < len
  <2>1. n * (i + 1) <= n * q
    BY <1>1, <1>3, TimesMonotone
  <2>2. n * (i + 1) = n * i + n
    OBVIOUS
  <2> QED
    BY <1>1, <1>2, <2>1, <2>2
<1>4. ASSUME q <= i PROVE ~(n * i < len)
  <2>1. n * q <= n * i
    BY <1>1, <1>4, TimesMonotone
  <2> QED
    BY <1>1, <1>2, <2>1
<1>5. i < q <=> n * i < len
  BY <1>1, <1>3, <1>4
<1> QED
  BY <1>1, <1>2, <1>5 DEF q

-----------------------------------------------------------------------------
(* The sizes of a message *)

LEMMA Sizes ==
  ASSUME NEW m \in Messages
  PROVE  /\ m.msg_len \in Nat /\ m.channel_len \in Nat
         /\ LCM_PUBLISH_BUFFER_SIZE \in Nat
         /\ max_fragment_size(m.channel_len) \in Nat \ {0}
         /\ max_fragment_size(m.channel_len) + LCM3_HEADER + m.channel_len + 1
              = LCM_PUBLISH_BUFFER_SIZE
         /\ fragments_in_msg(m.channel_len, m.msg_len) \in Nat
         /\ \A i \in Nat : i < fragments_in_msg(m.channel_len, m.msg_len)
                             <=> i * max_fragment_size(m.channel_len) < m.msg_len
<1>1. /\ m.msg_len \in Nat /\ m.channel_len \in Nat
      /\ LCM_PUBLISH_BUFFER_SIZE \in Nat
      /\ LCM3_HEADER + m.channel_len + 1 < LCM_PUBLISH_BUFFER_SIZE
  BY SizesAssumption, MessagesAssumption
<1>2. /\ max_fragment_size(m.channel_len) \in Nat \ {0}
      /\ max_fragment_size(m.channel_len) + LCM3_HEADER + m.channel_len + 1
           = LCM_PUBLISH_BUFFER_SIZE
  BY <1>1 DEF max_fragment_size, LCM3_HEADER
<1>3. fragments_in_msg(m.channel_len, m.msg_len)
        = (m.msg_len + max_fragment_size(m.channel_len) - 1)
            \div max_fragment_size(m.channel_len)
  BY DEF fragments_in_msg
<1>4. \A i \in Nat :
        /\ fragments_in_msg(m.channel_len, m.msg_len) \in Nat
        /\ i < fragments_in_msg(m.channel_len, m.msg_len)
             <=> i * max_fragment_size(m.channel_len) < m.msg_len
  BY <1>1, <1>2, <1>3, RoundedUp
<1> QED
  BY <1>1, <1>2, <1>4

\* Where the datagram of a number starts, and what it carries.
LEMMA DataOf ==
  ASSUME NEW m \in Messages,
         NEW i \in FragmentIds(m)
  PROVE  LET max == max_fragment_size(m.channel_len)
             p == Fragment(m, i, i * max)
         IN  /\ i \in Nat /\ i * max \in Nat
             /\ i * max < m.msg_len
             /\ p.data_len \in Nat
             /\ p.data_len <= max
             /\ p.fragment_offset + p.data_len <= m.msg_len
             /\ i + 1 \in FragmentIds(m) => p.data_len = max
             /\ i + 1 \notin FragmentIds(m) => i * max + p.data_len = m.msg_len
<1> DEFINE max == max_fragment_size(m.channel_len)
           n == fragments_in_msg(m.channel_len, m.msg_len)
           p == Fragment(m, i, i * max)
<1>1. /\ m.msg_len \in Nat /\ max \in Nat \ {0} /\ n \in Nat /\ i \in 0 .. n - 1
      /\ \A j \in Nat : j < n <=> j * max < m.msg_len
  BY Sizes DEF FragmentIds
<1>2. p.data_len = frag_sz(m.channel_len, m.msg_len, i * max) /\ p.fragment_offset = i * max
  BY DEF Fragment
<1>3. p.data_len = IF m.msg_len - i * max < max THEN m.msg_len - i * max ELSE max
  BY <1>2 DEF frag_sz
<1>4. i + 1 \in FragmentIds(m) <=> (i + 1) * max < m.msg_len
  BY <1>1 DEF FragmentIds
<1> HIDE DEF max, n, p
<1>5. i \in Nat /\ i * max \in Nat /\ i * max < m.msg_len /\ (i + 1) * max = i * max + max
  BY <1>1
<1>6. p.data_len \in Nat /\ p.data_len <= max /\ i * max + p.data_len <= m.msg_len
  BY <1>1, <1>3, <1>5
<1>7. i + 1 \in FragmentIds(m) => p.data_len = max
  BY <1>1, <1>3, <1>4, <1>5
<1>8. i + 1 \notin FragmentIds(m) => i * max + p.data_len = m.msg_len
  BY <1>1, <1>3, <1>4, <1>5
<1> QED
  BY <1>2, <1>5, <1>6, <1>7, <1>8 DEF max, p

-----------------------------------------------------------------------------
(* The loop *)

Max == max_fragment_size(msg.channel_len)
Number == fragments_in_msg(msg.channel_len, msg.msg_len)

\* What has been built, and where the loop stands.
Built ==
  /\ fragment_id \in 0 .. Number
  /\ fragment_offset = IF fragment_id = Number THEN msg.msg_len ELSE fragment_id * Max
  /\ Len(fragments) = fragment_id
  /\ \A i \in 1 .. Len(fragments) : fragments[i] = Fragment(msg, i - 1, (i - 1) * Max)

Stands ==
  /\ pc \in {"start", "short"} => fragment_id = 0
  /\ pc = "short" => Short(msg.msg_len)
  /\ pc \in {"loop", "done"} => ~Short(msg.msg_len)
  /\ pc = "done" => fragment_offset >= msg.msg_len

IInv == TypeOK /\ Built /\ Stands

LEMMA FragmentIsTyped ==
  ASSUME NEW m \in Messages, NEW i \in FragmentIds(m)
  PROVE  LET max == max_fragment_size(m.channel_len)
         IN  Fragment(m, i, i * max) \in
               [from_addr : {m.from_addr}, msg_seq : {m.msg_seq}, msg_size : {m.msg_len},
                fragment_offset : Nat, fragment_id : Nat, fragments_in_msg : Nat,
                channel : {m.channel}, name_len : Nat, data_len : Nat, body : {m.body}]
<1> DEFINE max == max_fragment_size(m.channel_len)
<1>1. /\ i \in Nat /\ i * max \in Nat
      /\ Fragment(m, i, i * max).data_len \in Nat
  BY DataOf
<1>2. frag_sz(m.channel_len, m.msg_len, i * max) \in Nat
  BY <1>1 DEF Fragment
<1>3. fragments_in_msg(m.channel_len, m.msg_len) \in Nat /\ m.channel_len \in Nat
  BY Sizes
<1>4. name_len(m.channel_len, i) \in Nat
  BY <1>3 DEF name_len
<1> HIDE DEF max
<1> QED
  BY <1>1, <1>2, <1>3, <1>4 DEF Fragment, max

LEMMA InitIInv == Init => IInv
<1> SUFFICES ASSUME Init PROVE IInv
  OBVIOUS
<1>1. msg \in Messages /\ fragments = <<>> /\ fragment_id = 0 /\ fragment_offset = 0 /\ pc = "start"
  BY DEF Init
<1>2. /\ Number \in Nat /\ msg.msg_len \in Nat /\ Max \in Nat
      /\ 0 < Number <=> 0 * Max < msg.msg_len
  BY <1>1, Sizes DEF Number, Max
<1>3. TypeOK
  BY <1>1 DEF TypeOK
<1>4. Number = 0 => msg.msg_len = 0
  BY <1>2
<1>5. Built
  BY <1>1, <1>2, <1>4 DEF Built
<1> QED
  BY <1>1, <1>3, <1>5 DEF IInv, Stands

LEMMA NextFragmentKeeps ==
  ASSUME IInv, NextFragment
  PROVE  IInv'
<1>1. /\ msg \in Messages /\ msg' = msg /\ pc' = pc /\ pc = "loop"
      /\ fragment_offset < msg.msg_len
      /\ fragment_id' = fragment_id + 1
      /\ fragments' = Append(fragments, Fragment(msg, fragment_id, fragment_offset))
      /\ fragment_offset' =
           fragment_offset + frag_sz(msg.channel_len, msg.msg_len, fragment_offset)
      /\ fragments \in Seq(FragmentType) /\ Len(fragments) = fragment_id
  BY DEF IInv, TypeOK, Built, NextFragment
<1>2. /\ Number \in Nat /\ msg.msg_len \in Nat /\ Max \in Nat \ {0}
      /\ Max' = Max /\ Number' = Number /\ FragmentType' = FragmentType
  BY <1>1, Sizes DEF Number, Max, FragmentType
<1>3. /\ fragment_id \in 0 .. Number - 1
      /\ fragment_offset = fragment_id * Max
  BY <1>1, <1>2 DEF IInv, Built
<1>4. fragment_id \in FragmentIds(msg)
  BY <1>3 DEF FragmentIds, Number
<1> DEFINE p == Fragment(msg, fragment_id, fragment_id * Max)
<1>5. p \in FragmentType
  BY <1>1, <1>4, FragmentIsTyped DEF Max, FragmentType
<1>6. /\ fragment_id * Max \in Nat /\ p.data_len \in Nat
      /\ fragment_id + 1 \in FragmentIds(msg) => p.data_len = Max
      /\ fragment_id + 1 \notin FragmentIds(msg) => fragment_id * Max + p.data_len = msg.msg_len
  BY <1>1, <1>4, DataOf DEF Max
<1>7. fragments' = Append(fragments, p)
  BY <1>1, <1>3
<1>8. fragment_offset' = fragment_id * Max + p.data_len
  BY <1>1, <1>3 DEF Fragment
<1> HIDE DEF p
<1>9. fragment_id + 1 \in FragmentIds(msg) <=> fragment_id + 1 # Number
  BY <1>2, <1>3 DEF FragmentIds, Number
<1>10. (fragment_id + 1) * Max = fragment_id * Max + Max
  BY <1>2, <1>3
<1>11. fragment_offset' = IF fragment_id + 1 = Number THEN msg.msg_len ELSE (fragment_id + 1) * Max
  BY <1>6, <1>8, <1>9, <1>10
<1>12. /\ fragments' \in Seq(FragmentType)
       /\ Len(fragments') = fragment_id + 1
       /\ \A i \in 1 .. Len(fragments) : fragments'[i] = fragments[i]
       /\ fragments'[Len(fragments) + 1] = p
  BY <1>1, <1>5, <1>7, AppendProperties
<1>13. TypeOK'
  BY <1>1, <1>2, <1>3, <1>6, <1>8, <1>12 DEF IInv, TypeOK
<1>14. \A i \in 1 .. Len(fragments') : fragments'[i] = Fragment(msg, i - 1, (i - 1) * Max)
  <2> TAKE i \in 1 .. Len(fragments')
  <2>1. CASE i \in 1 .. Len(fragments)
    BY <2>1, <1>12 DEF IInv, Built
  <2>2. CASE i = Len(fragments) + 1
    <3>1. i - 1 = fragment_id
      BY <2>2, <1>1, <1>3
    <3> QED
      BY <3>1, <2>2, <1>12 DEF p
  <2> QED
    BY <2>1, <2>2, <1>1, <1>3, <1>12
<1>15. Built'
  <2>1. fragment_id' \in 0 .. Number
    BY <1>1, <1>2, <1>3
  <2> QED
    BY <2>1, <1>1, <1>2, <1>11, <1>12, <1>14 DEF Built
<1>16. Stands'
  BY <1>1 DEF IInv, Stands
<1> QED
  BY <1>13, <1>15, <1>16 DEF IInv

LEMMA OthersKeep ==
  ASSUME IInv, Frag2 \/ Frag3 \/ Return \/ UNCHANGED vars
  PROVE  IInv'
<1>1. UNCHANGED <<msg, fragment_offset, fragment_id, fragments>>
  BY DEF Frag2, Frag3, Return, vars
<1>2. Max' = Max /\ Number' = Number /\ FragmentType' = FragmentType
  BY <1>1 DEF Max, Number, FragmentType
<1>3. pc' \in {"start", "loop", "done", "short"}
  BY DEF Frag2, Frag3, Return, vars, IInv, TypeOK
<1>4. TypeOK' /\ Built'
  BY <1>1, <1>2, <1>3 DEF IInv, TypeOK, Built
<1>5. Stands'
  BY <1>1 DEF IInv, Stands, Frag2, Frag3, Return, vars
<1> QED
  BY <1>4, <1>5 DEF IInv

THEOREM Inductive == Spec => []IInv
<1>1. IInv /\ [Next]_vars => IInv'
  BY NextFragmentKeeps, OthersKeep DEF Next
<1> QED
  BY <1>1, InitIInv, PTL DEF Spec

\* TypeOK for every size: the loop builds well-formed headers only.
THEOREM TypeCorrect == Spec => []TypeOK
<1>1. IInv => TypeOK
  BY DEF IInv
<1> QED
  BY <1>1, Inductive, PTL

-----------------------------------------------------------------------------
(* What the loop has built *)

\* The datagrams are those of the first fragment_id numbers.
LEMMA BuiltDatagrams ==
  ASSUME IInv
  PROVE  /\ msg \in Messages
         /\ Datagrams = {Fragment(msg, i, i * Max) : i \in 0 .. fragment_id - 1}
         /\ 0 .. fragment_id - 1 \subseteq FragmentIds(msg)
<1>1. /\ msg \in Messages /\ fragment_id \in 0 .. Number /\ Len(fragments) = fragment_id
      /\ \A i \in 1 .. Len(fragments) : fragments[i] = Fragment(msg, i - 1, (i - 1) * Max)
  BY DEF IInv, TypeOK, Built
<1>2. Number \in Nat
  BY <1>1, Sizes DEF Number
<1>3. ASSUME NEW d \in Datagrams PROVE d \in {Fragment(msg, i, i * Max) : i \in 0 .. fragment_id - 1}
  <2>1. PICK i \in 1 .. Len(fragments) : d = fragments[i]
    BY <1>3 DEF Datagrams
  <2>2. d = Fragment(msg, i - 1, (i - 1) * Max) /\ i - 1 \in 0 .. fragment_id - 1
    BY <2>1, <1>1, <1>2
  <2> QED
    BY <2>2
<1>4. ASSUME NEW i \in 0 .. fragment_id - 1 PROVE Fragment(msg, i, i * Max) \in Datagrams
  <2>1. i + 1 \in 1 .. Len(fragments) /\ (i + 1) - 1 = i
    BY <1>1, <1>2
  <2>2. fragments[i + 1] = Fragment(msg, i, i * Max)
    BY <2>1, <1>1
  <2> QED
    BY <2>1, <2>2 DEF Datagrams
<1>5. 0 .. fragment_id - 1 \subseteq FragmentIds(msg)
  BY <1>1, <1>2 DEF FragmentIds, Number
<1> QED
  BY <1>1, <1>3, <1>4, <1>5

\* FitsPublishBuffer for every size: nothing is written past the end of buf.
THEOREM Fits == Spec => []FitsPublishBuffer
<1>1. IInv => FitsPublishBuffer
  <2> SUFFICES ASSUME IInv PROVE FitsPublishBuffer
    OBVIOUS
  <2>1. ASSUME NEW p \in Datagrams
        PROVE LCM3_HEADER + p.name_len + p.data_len <= LCM_PUBLISH_BUFFER_SIZE
    <3>1. PICK i \in FragmentIds(msg) : p = Fragment(msg, i, i * Max)
      BY <2>1, BuiltDatagrams
    <3>2. p.data_len \in Nat /\ p.data_len <= Max /\ i \in Nat
      BY <3>1, BuiltDatagrams, DataOf DEF Max
    <3>3. /\ msg.channel_len \in Nat /\ Max \in Nat /\ LCM_PUBLISH_BUFFER_SIZE \in Nat
          /\ Max + LCM3_HEADER + msg.channel_len + 1 = LCM_PUBLISH_BUFFER_SIZE
      BY BuiltDatagrams, Sizes DEF Max
    <3>4. p.name_len \in Nat /\ p.name_len <= msg.channel_len + 1
      BY <3>1, <3>3 DEF Fragment, name_len
    <3> QED
      BY <3>2, <3>3, <3>4 DEF LCM3_HEADER
  <2>2. ASSUME pc = "short"
        PROVE LCM2_HEADER + msg.channel_len + 1 + msg.msg_len <= LCM_PUBLISH_BUFFER_SIZE
    <3>1. /\ msg.channel_len \in Nat /\ msg.msg_len \in Nat
          /\ LCM2_HEADER + msg.channel_len + 1 <= MAXIMUM_HEADER_LENGTH
      BY BuiltDatagrams, MessagesAssumption
    <3>2. msg.msg_len < LCM_PUBLISH_BUFFER_SIZE - MAXIMUM_HEADER_LENGTH
      BY <2>2 DEF IInv, Stands, Short
    <3> QED
      BY <3>1, <3>2, SizesAssumption DEF LCM2_HEADER
  <2> QED
    BY <2>1, <2>2 DEF FitsPublishBuffer
<1> QED
  BY <1>1, Inductive, PTL

\* CutsWholeMessage for every size: the number in the headers is the number of
\* turns the loop takes.
THEOREM Whole == Spec => []CutsWholeMessage
<1>1. IInv => CutsWholeMessage
  <2> SUFFICES ASSUME IInv, pc = "done" PROVE /\ fragment_offset = msg.msg_len
                                             /\ fragment_id = Number
                                             /\ Datagrams = Fragments(msg)
    BY DEF CutsWholeMessage, Number
  <2>1. /\ fragment_id \in 0 .. Number /\ fragment_offset >= msg.msg_len
        /\ fragment_offset = IF fragment_id = Number THEN msg.msg_len ELSE fragment_id * Max
    BY DEF IInv, Built, Stands
  <2>2. /\ Number \in Nat /\ msg.msg_len \in Nat /\ Max \in Nat
        /\ \A i \in Nat : i < Number <=> i * Max < msg.msg_len
    BY BuiltDatagrams, Sizes DEF Number, Max
  <2>3. fragment_id = Number
    <3> SUFFICES ASSUME fragment_id # Number PROVE FALSE
      OBVIOUS
    <3>1. fragment_id \in Nat /\ fragment_id < Number
      BY <2>1, <2>2
    <3>2. fragment_id * Max < msg.msg_len
      BY <3>1, <2>2
    <3> QED
      BY <2>1, <2>2, <3>1, <3>2
  <2>4. Datagrams = Fragments(msg)
    BY <2>3, BuiltDatagrams DEF Fragments, FragmentIds, Number, Max
  <2> QED
    BY <2>1, <2>3, <2>4
<1> QED
  BY <1>1, Inductive, PTL

-----------------------------------------------------------------------------
(* What the receiver's header checks say to them *)

\* LongFragmentsAccepted for every size.
THEOREM LongAccepted == Spec => []LongFragmentsAccepted
<1>1. IInv => LongFragmentsAccepted
  <2> SUFFICES ASSUME IInv, ReceivableLength, Number <= LCM3_MAX_FRAGMENTS,
                      NEW p \in Datagrams
               PROVE  ~HeaderError(p)
    BY DEF LongFragmentsAccepted, Number
  <2>1. PICK i \in FragmentIds(msg) : p = Fragment(msg, i, i * Max)
    BY BuiltDatagrams
  <2>2. /\ i \in Nat /\ p.data_len \in Nat /\ p.data_len <= Max
        /\ p.fragment_offset + p.data_len <= msg.msg_len
    BY <2>1, BuiltDatagrams, DataOf DEF Max
  <2>3. /\ msg.channel_len \in Nat /\ msg.msg_len \in Nat /\ Max \in Nat /\ Number \in Nat
        /\ LCM_PUBLISH_BUFFER_SIZE \in Nat
        /\ Max + LCM3_HEADER + msg.channel_len + 1 = LCM_PUBLISH_BUFFER_SIZE
    BY BuiltDatagrams, Sizes DEF Max, Number
  <2>4. /\ p.fragments_in_msg = Number /\ p.fragment_id = i /\ p.msg_size = msg.msg_len
        /\ p.fragment_offset = i * Max
        /\ p.name_len = IF i = 0 THEN msg.channel_len + 1 ELSE 0
    BY <2>1 DEF Fragment, Number, name_len
  <2>5. ~TooManyFragments(p)
    BY <2>3, <2>4, SizesAssumption DEF TooManyFragments
  <2>6. ~BadFragmentId(p)
    BY <2>1, <2>3, <2>4 DEF BadFragmentId, FragmentIds, Number
  <2>7. ~BadFragmentSize(p)
    <3>1. CASE i = 0
      <4>1. p.fragment_offset = 0
        BY <3>1, <2>3, <2>4
      <4>2. msg.msg_len >= LCM_PUBLISH_BUFFER_SIZE - LCM3_HEADER
        BY DEF ReceivableLength
      <4> QED
        BY <3>1, <4>1, <4>2, <2>2, <2>3, <2>4 DEF BadFragmentSize, LCM3_HEADER
    <3>2. CASE i # 0
      <4>1. p.fragment_offset \in Nat
        BY <2>2, <2>3, <2>4
      <4> QED
        BY <3>2, <4>1, <2>2, <2>3, <2>4 DEF BadFragmentSize
    <3> QED
      BY <3>1, <3>2
  <2> QED
    BY <2>5, <2>6, <2>7 DEF HeaderError
<1> QED
  BY <1>1, Inductive, PTL

\* BandRefused for every size: lib.fragment sends these messages, and nobody
\* can receive them.
THEOREM Refused == Spec => []BandRefused
<1>1. IInv => BandRefused
  <2> SUFFICES ASSUME IInv, pc = "done", ~ReceivableLength
               PROVE  \E p \in Datagrams : HeaderError(p)
    BY DEF BandRefused
  <2>1. /\ fragment_id \in 0 .. Number /\ fragment_offset >= msg.msg_len
        /\ fragment_offset = IF fragment_id = Number THEN msg.msg_len ELSE fragment_id * Max
        /\ ~Short(msg.msg_len)
    BY DEF IInv, Built, Stands
  <2>2. /\ msg \in Messages
        /\ msg.channel_len \in Nat /\ msg.msg_len \in Nat /\ Max \in Nat \ {0} /\ Number \in Nat
        /\ LCM_PUBLISH_BUFFER_SIZE \in Nat
        /\ Max + LCM3_HEADER + msg.channel_len + 1 = LCM_PUBLISH_BUFFER_SIZE
        /\ 0 < Number <=> 0 * Max < msg.msg_len
    BY BuiltDatagrams, Sizes DEF Max, Number
  <2>3. msg.msg_len > 0
    BY <2>1, <2>2, SizesAssumption DEF Short
  <2>4. Number > 0
    BY <2>2, <2>3
  <2>5. fragment_id > 0
    <3>1. fragment_id = 0 => fragment_offset = 0
      BY <2>1, <2>2, <2>4
    <3> QED
      BY <3>1, <2>1, <2>2, <2>3
  <2> DEFINE p == Fragment(msg, 0, 0 * Max)
  <2>6. p \in Datagrams
    BY <2>1, <2>2, <2>5, BuiltDatagrams
  <2>7. /\ p.fragment_offset = 0 /\ p.msg_size = msg.msg_len
        /\ p.name_len = msg.channel_len + 1
        /\ p.data_len = IF msg.msg_len < Max THEN msg.msg_len ELSE Max
    BY <2>2 DEF Fragment, name_len, frag_sz, Max
  <2> HIDE DEF p
  <2>8. msg.msg_len < LCM_PUBLISH_BUFFER_SIZE - LCM3_HEADER
    BY <2>2 DEF ReceivableLength, LCM3_HEADER
  <2>9. BadFragmentSize(p)
    BY <2>2, <2>7, <2>8 DEF BadFragmentSize, LCM3_HEADER
  <2> QED
    BY <2>6, <2>9 DEF HeaderError
<1> QED
  BY <1>1, Inductive, PTL
=============================================================================
