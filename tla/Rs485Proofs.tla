---------------------------- MODULE Rs485Proofs -----------------------------
(***************************************************************************)
(* The serial port of Rs485 for every alphabet, every size of its buffers  *)
(* and every width of their indices: nothing is lost, repeated or          *)
(* overtaken between the main program and the bus, in either direction,    *)
(* at any interleaving with the interrupt handlers.                        *)
(***************************************************************************)
EXTENDS Rs485, CbufProofs, SequenceTheorems

\* The bytes that have left the buffer: on the line, in the shift register, in UDR1.
InShift == IF shift = NoByte THEN 0 ELSE 1
InUdr == IF UDR1 = NoByte THEN 0 ELSE 1
Gone == Len(line) + InShift + InUdr

\* The bytes of the packet that are still to be pushed.
Todo == IF pc = "enable" THEN left - 1 ELSE left

\* The elements g + 1 to Len(s) of s are in their slots.
Holds(cbuf, s, g) ==
  /\ cbuf.m_putIdx = Len(s) % IndexSize
  /\ cbuf.m_getIdx = g % IndexSize
  /\ g <= Len(s)
  /\ \A k \in g + 1 .. Len(s) : cbuf.m_entry[(k - 1) % CbufSize] = s[k]

TxInv ==
  /\ Holds(uart1_putbuf, accepted, Gone)
  /\ Len(accepted) - Gone + Todo <= CbufSize
  /\ pc \in {"push", "enable"} => left > 0
  /\ pc = "push" => /\ c \in Byte
                    /\ uart1_putbuf.m_entry[Len(accepted) % CbufSize] = c
  /\ shift # NoByte => shift = accepted[Len(line) + 1]
  /\ UDR1 # NoByte => UDR1 = accepted[Len(line) + InShift + 1]
  /\ \A k \in 1 .. Len(line) : line[k] = accepted[k]

\* The bytes taken out of uart1_getbuf, one of them perhaps not fetched yet.
Taken == Len(read) + (IF pc = "fetch" THEN 1 ELSE 0)

RxInv ==
  /\ Holds(uart1_getbuf, heard, Taken)
  /\ Len(heard) - Len(read) <= CbufSize
  /\ pc = "fetch" =>
       uart1_getbuf.m_entry[Len(read) % CbufSize] = heard[Len(read) + 1]
  /\ \A k \in 1 .. Len(read) : read[k] = heard[k]

Inv == TypeOK /\ TxInv /\ RxInv

-----------------------------------------------------------------------------
LEMMA HoldsLen ==
  ASSUME NEW cbuf, NEW s \in Seq(Byte), NEW g \in Nat,
         Holds(cbuf, s, g), Len(s) - g <= CbufSize
  PROVE  CBUF_Len(cbuf) = Len(s) - g /\ (CBUF_IsEmpty(cbuf) <=> g = Len(s))
<1>1. Len(s) \in Nat /\ g <= Len(s)
  BY DEF Holds
<1>2. CBUF_Len(cbuf) = Len(s) - g
  BY <1>1, LenCounts DEF Holds
<1> QED
  BY <1>1, <1>2 DEF CBUF_IsEmpty

\* Storing an entry that is not announced yet disturbs no other.
LEMMA StoreHolds ==
  ASSUME NEW cbuf \in CbufType(Byte), NEW s \in Seq(Byte), NEW g \in Nat, NEW e \in Byte,
         Holds(cbuf, s, g), Len(s) - g < CbufSize
  PROVE  /\ StoreEntry(cbuf, e) \in CbufType(Byte)
         /\ Holds(StoreEntry(cbuf, e), s, g)
         /\ StoreEntry(cbuf, e).m_entry[Len(s) % CbufSize] = e
<1> DEFINE b == StoreEntry(cbuf, e)
           here == Len(s) % CbufSize
<1>1. Len(s) \in Nat /\ g <= Len(s)
  BY DEF Holds
<1>2. Slot(cbuf.m_putIdx) = here /\ here \in Slots
  BY <1>1, SlotOfIndex, IndexType DEF Holds
<1>3. b.m_putIdx = cbuf.m_putIdx /\ b.m_getIdx = cbuf.m_getIdx
      /\ b.m_entry = [cbuf.m_entry EXCEPT ![here] = e]
  BY <1>2 DEF StoreEntry, CbufType
<1>4. b \in CbufType(Byte)
  BY <1>2 DEF StoreEntry, CbufType
<1>5. b.m_entry[here] = e
  BY <1>2, <1>3 DEF CbufType
<1>6. ASSUME NEW k \in g + 1 .. Len(s)
      PROVE  b.m_entry[(k - 1) % CbufSize] = s[k]
  <2>1. k - 1 \in Int /\ k - 1 < Len(s) /\ Len(s) - (k - 1) < CbufSize + 1
    BY <1>1, Sizes
  <2>2. k - 1 >= g
    BY <1>1
  <2>3. (k - 1) % CbufSize # here
    BY <1>1, <2>1, <2>2, SlotsDiffer, Sizes
  <2>4. (k - 1) % CbufSize \in Slots
    BY <2>1, IndexType
  <2> QED
    BY <1>2, <1>3, <2>3, <2>4 DEF Holds, CbufType
<1> QED
  BY <1>1, <1>3, <1>4, <1>5, <1>6 DEF Holds

\* Stepping the index announces the entry that is there.
LEMMA StepHolds ==
  ASSUME NEW cbuf \in CbufType(Byte), NEW s \in Seq(Byte), NEW g \in Nat, NEW e \in Byte,
         Holds(cbuf, s, g), cbuf.m_entry[Len(s) % CbufSize] = e
  PROVE  /\ StepPutIdx(cbuf) \in CbufType(Byte)
         /\ Holds(StepPutIdx(cbuf), Append(s, e), g)
<1> DEFINE b == StepPutIdx(cbuf)
           t == Append(s, e)
<1>1. Len(s) \in Nat /\ g <= Len(s) /\ Len(t) = Len(s) + 1
  BY DEF Holds
<1>2. NextIdx(cbuf.m_putIdx) = (Len(s) + 1) % IndexSize
  BY <1>1, NextOfIndex DEF Holds
<1>3. b.m_putIdx = Len(t) % IndexSize /\ b.m_getIdx = cbuf.m_getIdx /\ b.m_entry = cbuf.m_entry
  BY <1>1, <1>2 DEF StepPutIdx, CbufType
<1>4. b \in CbufType(Byte)
  BY <1>1, <1>2, IndexType DEF StepPutIdx, CbufType
<1>5. ASSUME NEW k \in g + 1 .. Len(t)
      PROVE  b.m_entry[(k - 1) % CbufSize] = t[k]
  <2>1. CASE k = Len(t)
    BY <1>1, <1>3, <2>1
  <2>2. CASE k # Len(t)
    <3>1. k \in g + 1 .. Len(s) /\ t[k] = s[k]
      BY <1>1, <2>2
    <3> QED
      BY <1>3, <3>1 DEF Holds
  <2> QED
    BY <2>1, <2>2
<1> QED
  BY <1>1, <1>3, <1>4, <1>5 DEF Holds

LEMMA PopHolds ==
  ASSUME NEW cbuf \in CbufType(Byte), NEW s \in Seq(Byte), NEW g \in Nat,
         Holds(cbuf, s, g), g < Len(s)
  PROVE  /\ CBUF_Pop(cbuf) \in CbufType(Byte)
         /\ Holds(CBUF_Pop(cbuf), s, g + 1)
         /\ Popped(cbuf) = s[g + 1] /\ Popped(cbuf) \in Byte
         /\ CBUF_Pop(cbuf).m_entry[g % CbufSize] = s[g + 1]
<1> DEFINE b == CBUF_Pop(cbuf)
<1>1. Len(s) \in Nat
  OBVIOUS
<1>2. NextIdx(cbuf.m_getIdx) = (g + 1) % IndexSize
  BY NextOfIndex DEF Holds
<1>3. b.m_getIdx = (g + 1) % IndexSize /\ b.m_putIdx = cbuf.m_putIdx /\ b.m_entry = cbuf.m_entry
  BY <1>2 DEF CBUF_Pop, CbufType
<1>4. b \in CbufType(Byte)
  BY <1>2, IndexType DEF CBUF_Pop, CbufType
<1>5. Slot(cbuf.m_getIdx) = g % CbufSize /\ g % CbufSize \in Slots
  BY SlotOfIndex, IndexType DEF Holds
<1>6. cbuf.m_entry[g % CbufSize] = s[g + 1]
  <2>1. g + 1 \in g + 1 .. Len(s) /\ (g + 1) - 1 = g
    BY <1>1
  <2> QED
    BY <2>1 DEF Holds
<1>7. Popped(cbuf) = s[g + 1]
  BY <1>5, <1>6 DEF Popped
<1>8. s[g + 1] \in Byte
  BY <1>1
<1>9. Holds(b, s, g + 1)
  <2>1. \A k \in g + 2 .. Len(s) : k \in g + 1 .. Len(s)
    BY <1>1
  <2> QED
    BY <1>1, <1>3, <2>1 DEF Holds
<1> QED
  BY <1>3, <1>4, <1>6, <1>7, <1>8, <1>9

-----------------------------------------------------------------------------
LEMMA ZeroInByte == Zero \in Byte
BY Rs485Assumption DEF Zero

LEMMA InitInv == Init => Inv
<1> SUFFICES ASSUME Init PROVE Inv
  OBVIOUS
<1>1. Zero \in Byte
  BY ZeroInByte
<1>2. 0 % IndexSize = 0 /\ 0 \in Indices
  BY Sizes DEF Indices
<1>3. CBUF_Init(Zero) \in CbufType(Byte)
  BY <1>1, <1>2 DEF CBUF_Init, CbufType
<1>4. TypeOK
  <2>1. 0 \in 0 .. MaxPacket
    BY Rs485Assumption, Sizes
  <2>2. <<>> \in Seq(Byte)
    OBVIOUS
  <2> QED
    BY <1>3, <2>1, <2>2 DEF Init, TypeOK
<1>5. Gone = 0 /\ Taken = 0 /\ Todo = 0
  BY DEF Init, Gone, InShift, InUdr, Taken, Todo
<1>6. Holds(CBUF_Init(Zero), <<>>, 0)
  BY <1>2 DEF Holds, CBUF_Init
<1>7. TxInv
  BY <1>5, <1>6, Sizes DEF Init, TxInv
<1>8. RxInv
  BY <1>5, <1>6, Sizes DEF Init, RxInv
<1> QED
  BY <1>4, <1>7, <1>8 DEF Inv

\* A step that leaves the receiver alone, or the transmitter.
LEMMA RxUntouched ==
  ASSUME RxInv, UNCHANGED rx, pc' = "fetch" <=> pc = "fetch"
  PROVE  RxInv'
BY DEF RxInv, rx, Taken, Holds

LEMMA TxUntouched ==
  ASSUME TxInv, UNCHANGED tx, UNCHANGED <<pc, c>>
  PROVE  TxInv'
BY DEF TxInv, tx, Gone, InShift, InUdr, Todo, Holds

\* What has left the buffer is a number of bytes that were taken.
LEMMA GoneType ==
  ASSUME TypeOK, TxInv
  PROVE  /\ Gone \in Nat /\ Len(accepted) \in Nat /\ Len(line) \in Nat
         /\ Gone <= Len(accepted)
         /\ InShift \in {0, 1} /\ InUdr \in {0, 1}
         /\ Gone = Len(line) + InShift + InUdr
         /\ Todo \in Int /\ left \in Nat
         /\ Len(accepted) - Gone + Todo <= CbufSize
         /\ pc # "enable" => Todo = left
         /\ pc = "enable" => Todo = left - 1
<1>1. InShift \in {0, 1} /\ InUdr \in {0, 1}
  BY DEF InShift, InUdr
<1>2. Len(accepted) \in Nat /\ Len(line) \in Nat /\ left \in Nat
  BY Rs485Assumption DEF TypeOK
<1>3. Gone = Len(line) + InShift + InUdr /\ Gone \in Nat
  BY <1>1, <1>2 DEF Gone
<1>4. /\ Todo \in Int
      /\ pc # "enable" => Todo = left
      /\ pc = "enable" => Todo = left - 1
  BY <1>2 DEF Todo
<1> QED
  BY <1>1, <1>2, <1>3, <1>4 DEF TxInv, Holds

LEMMA BusSendPacketInv ==
  ASSUME Inv, BusSendPacket
  PROVE  Inv'
<1>1. Gone = Len(accepted)
  <2>1. accepted \in Seq(Byte) /\ Gone \in Nat /\ Holds(uart1_putbuf, accepted, Gone)
    BY GoneType DEF Inv, TypeOK, TxInv
  <2>2. Len(accepted) - Gone <= CbufSize
    BY GoneType, Sizes DEF Inv, BusSendPacket
  <2>3. CBUF_IsEmpty(uart1_putbuf) <=> Gone = Len(accepted)
    BY <2>1, <2>2, HoldsLen
  <2> QED
    BY <2>3 DEF BusSendPacket
<1>2. PICK n \in 1 .. MaxPacket : left' = n
  BY DEF BusSendPacket
<1>3. TypeOK'
  BY <1>2, Rs485Assumption DEF Inv, TypeOK, BusSendPacket, rx
<1>4. Gone' = Gone /\ accepted' = accepted /\ Todo' = n /\ pc' = pc
  BY <1>2 DEF BusSendPacket, Gone, InShift, InUdr, Todo
<1>5. TxInv'
  <2>1. Len(accepted) - Gone + n <= CbufSize
    BY <1>1, <1>2, Rs485Assumption, GoneType, Sizes DEF Inv
  <2> QED
    BY <1>2, <1>4, <2>1 DEF Inv, TxInv, BusSendPacket, Gone, InShift, InUdr, Holds
<1>6. RxInv'
  BY RxUntouched DEF Inv, BusSendPacket
<1> QED
  BY <1>3, <1>5, <1>6 DEF Inv

LEMMA PutcharInv ==
  ASSUME Inv, NEW b \in Byte, rs485_putchar(b)
  PROVE  Inv'
<1>1. uart1_putbuf' = StoreEntry(uart1_putbuf, b)
  BY DEF rs485_putchar, PushHalves
<1>2. Len(accepted) - Gone < CbufSize
  BY GoneType, Sizes DEF Inv, rs485_putchar
<1>3. /\ uart1_putbuf' \in CbufType(Byte)
      /\ Holds(uart1_putbuf', accepted, Gone)
      /\ uart1_putbuf'.m_entry[Len(accepted) % CbufSize] = b
  BY <1>1, <1>2, StoreHolds, GoneType DEF Inv, TypeOK, TxInv
<1>4. TypeOK'
  BY <1>3 DEF Inv, TypeOK, rs485_putchar, rx
<1>5. Gone' = Gone /\ accepted' = accepted /\ Todo' = Todo
  BY DEF rs485_putchar, Gone, InShift, InUdr, Todo
<1>6. TxInv'
  <2>1. Holds(uart1_putbuf, accepted, Gone)'
    BY <1>3, <1>5 DEF Holds
  <2> QED
    BY <1>3, <1>5, <2>1 DEF Inv, TxInv, rs485_putchar, InShift, TypeOK
<1>7. RxInv'
  BY RxUntouched DEF Inv, rs485_putchar
<1> QED
  BY <1>4, <1>6, <1>7 DEF Inv

LEMMA PushInv ==
  ASSUME Inv, Push
  PROVE  Inv'
<1>1. c \in Byte /\ uart1_putbuf' = StepPutIdx(uart1_putbuf) /\ accepted' = Append(accepted, c)
  BY DEF Inv, TxInv, Push, PushHalves
<1>2. /\ uart1_putbuf' \in CbufType(Byte)
      /\ Holds(uart1_putbuf', accepted', Gone)
  BY <1>1, StepHolds, GoneType DEF Inv, TypeOK, TxInv, Push
<1>3. TypeOK'
  BY <1>1, <1>2 DEF Inv, TypeOK, Push, rx
<1>4. Gone' = Gone /\ Todo' = Todo - 1 /\ Len(accepted') = Len(accepted) + 1
  BY <1>1 DEF Push, Gone, InShift, InUdr, Todo, Inv, TypeOK
<1>5. \A k \in 1 .. Len(accepted) : accepted'[k] = accepted[k]
  BY <1>1 DEF Inv, TypeOK
<1>6. TxInv'
  <2>1. Holds(uart1_putbuf, accepted, Gone)'
    BY <1>2, <1>4 DEF Holds
  <2>2. Len(accepted') - Gone' + Todo' <= CbufSize
    BY <1>4, GoneType, Sizes DEF Inv
  <2>3. shift' # NoByte => shift' = accepted'[Len(line') + 1]
    BY <1>5, GoneType DEF Inv, TxInv, Push, InShift
  <2>4. UDR1' # NoByte => UDR1' = accepted'[Len(line') + InShift' + 1]
    BY <1>5, GoneType DEF Inv, TxInv, Push, InShift, InUdr
  <2>5. \A k \in 1 .. Len(line') : line'[k] = accepted'[k]
    BY <1>5, GoneType DEF Inv, TxInv, Push
  <2>6. pc' = "enable" /\ left' = left /\ left > 0
    BY DEF Push, Inv, TxInv
  <2> QED
    BY <2>1, <2>2, <2>3, <2>4, <2>5, <2>6 DEF TxInv
<1>7. RxInv'
  BY RxUntouched DEF Inv, Push
<1> QED
  BY <1>3, <1>6, <1>7 DEF Inv

LEMMA EnableInv ==
  ASSUME Inv, Enable
  PROVE  Inv'
<1>1. left > 0
  BY DEF Inv, TxInv, Enable
<1>2. TypeOK'
  BY <1>1, Rs485Assumption DEF Inv, TypeOK, Enable, rx
<1>3. Gone' = Gone /\ Todo' = Todo /\ accepted' = accepted
  BY DEF Enable, Gone, InShift, InUdr, Todo
<1>4. TxInv'
  BY <1>3 DEF Inv, TxInv, Enable, InShift, Holds
<1>5. RxInv'
  BY RxUntouched DEF Inv, Enable
<1> QED
  BY <1>2, <1>4, <1>5 DEF Inv

\* The length of uart1_getbuf counts the bytes nobody has taken.
LEMMA TakenType ==
  ASSUME TypeOK, RxInv
  PROVE  /\ Taken \in Nat /\ Len(heard) \in Nat /\ Len(read) \in Nat
         /\ Taken <= Len(heard) /\ Len(read) <= Taken
         /\ Len(heard) - Len(read) <= CbufSize
         /\ pc = "fetch" => Taken = Len(read) + 1
         /\ pc # "fetch" => Taken = Len(read)
<1>1. Len(heard) \in Nat /\ Len(read) \in Nat
  BY DEF TypeOK
<1>2. /\ Taken \in Nat
      /\ pc = "fetch" => Taken = Len(read) + 1
      /\ pc # "fetch" => Taken = Len(read)
  BY <1>1 DEF Taken
<1> QED
  BY <1>1, <1>2 DEF RxInv, Holds

LEMMA GetcharInv ==
  ASSUME Inv, rs485_getchar
  PROVE  Inv'
<1>1. Taken = Len(read) /\ Taken < Len(heard)
  <2>1. pc = "main" /\ ~CBUF_IsEmpty(uart1_getbuf)
    BY DEF rs485_getchar
  <2>2. heard \in Seq(Byte) /\ Taken \in Nat /\ Holds(uart1_getbuf, heard, Taken)
    BY TakenType DEF Inv, TypeOK, RxInv
  <2>3. Len(heard) - Taken <= CbufSize
    BY TakenType, Sizes DEF Inv
  <2>4. ~(Taken = Len(heard))
    BY <2>1, <2>2, <2>3, HoldsLen
  <2> QED
    BY <2>1, <2>4, TakenType DEF Inv
<1>2. /\ uart1_getbuf' \in CbufType(Byte)
      /\ Holds(uart1_getbuf', heard, Taken + 1)
      /\ uart1_getbuf'.m_entry[Taken % CbufSize] = heard[Taken + 1]
  BY <1>1, PopHolds, TakenType DEF Inv, TypeOK, RxInv, rs485_getchar
<1>3. TypeOK'
  BY <1>2 DEF Inv, TypeOK, rs485_getchar, tx
<1>4. Taken' = Taken + 1 /\ heard' = heard /\ read' = read /\ pc' = "fetch"
  BY <1>1, TakenType DEF rs485_getchar, Taken, Inv
<1>5. RxInv'
  BY <1>1, <1>2, <1>4 DEF RxInv, Inv, Holds
<1>6. TxInv'
  BY DEF Inv, TxInv, rs485_getchar, tx, Gone, InShift, InUdr, Todo, Holds
<1> QED
  BY <1>3, <1>5, <1>6 DEF Inv

LEMMA FetchInv ==
  ASSUME Inv, Fetch
  PROVE  Inv'
<1>1. /\ pc = "fetch" /\ Taken = Len(read) + 1 /\ Taken <= Len(heard)
      /\ Len(read) \in Nat /\ Len(heard) \in Nat
  BY TakenType DEF Inv, Fetch
<1>2. Fetched = heard[Len(read) + 1]
  <2>1. uart1_getbuf.m_getIdx = Taken % IndexSize
    BY DEF Inv, RxInv, Holds
  <2>2. ((Taken % IndexSize) + (- 1)) % IndexSize = (Taken + (- 1)) % IndexSize
    <3>1. Taken \in Int /\ - 1 \in Int /\ IndexSize \in Nat \ {0}
      BY <1>1, Sizes
    <3> QED
      BY <3>1, RemainderOfSum
  <2>3. Taken % IndexSize \in Int
    BY <1>1, Division, Sizes
  <2>4. (Taken % IndexSize) - 1 = (Taken % IndexSize) + (- 1) /\ Taken + (- 1) = Len(read)
    BY <1>1, <2>3
  <2>5. Slot((uart1_getbuf.m_getIdx - 1) % IndexSize) = Slot(Len(read) % IndexSize)
    BY <2>1, <2>2, <2>4
  <2>6. Slot(Len(read) % IndexSize) = Len(read) % CbufSize
    BY <1>1, SlotOfIndex
  <2> QED
    BY <1>1, <2>5, <2>6 DEF Fetched, Inv, RxInv
<1>3. heard[Len(read) + 1] \in Byte
  BY <1>1 DEF Inv, TypeOK
<1>4. read' = Append(read, heard[Len(read) + 1]) /\ Len(read') = Len(read) + 1
  BY <1>2 DEF Fetch, Inv, TypeOK
<1>5. TypeOK'
  BY <1>3, <1>4 DEF Inv, TypeOK, Fetch, tx
<1>6. Taken' = Taken /\ heard' = heard /\ uart1_getbuf' = uart1_getbuf /\ pc' = "main"
  BY <1>1, <1>4 DEF Fetch, Taken
<1>7. RxInv'
  <2>1. Len(heard') - Len(read') <= CbufSize
    BY <1>1, <1>4, <1>6, TakenType, Sizes DEF Inv
  <2>2. \A k \in 1 .. Len(read') : read'[k] = heard'[k]
    BY <1>1, <1>4, <1>6 DEF Inv, RxInv, TypeOK
  <2> QED
    BY <1>6, <2>1, <2>2 DEF RxInv, Inv, Holds
<1>8. TxInv'
  BY DEF Inv, TxInv, Fetch, tx, Gone, InShift, InUdr, Todo, Holds
<1> QED
  BY <1>5, <1>7, <1>8 DEF Inv

LEMMA ReceiveInv ==
  ASSUME Inv, NEW b \in Byte, USART1_RX_vect(b)
  PROVE  Inv'
<1> DEFINE stored == StoreEntry(uart1_getbuf, b)
<1>1. Len(heard) - Len(read) < CbufSize /\ Len(heard) - Taken < CbufSize
  BY TakenType, Sizes DEF Inv, USART1_RX_vect, Backlog
<1>2. /\ stored \in CbufType(Byte)
      /\ Holds(stored, heard, Taken)
      /\ stored.m_entry[Len(heard) % CbufSize] = b
  BY <1>1, StoreHolds, TakenType DEF Inv, TypeOK, RxInv
<1>3. uart1_getbuf' = StepPutIdx(stored) /\ heard' = Append(heard, b)
  BY DEF USART1_RX_vect, CBUF_Push
<1> HIDE DEF stored
<1>4. uart1_getbuf' \in CbufType(Byte) /\ Holds(uart1_getbuf', heard', Taken)
  BY <1>2, <1>3, StepHolds, TakenType DEF Inv, TypeOK
<1>5. TypeOK'
  BY <1>3, <1>4 DEF Inv, TypeOK, USART1_RX_vect, tx
<1>6. /\ Taken' = Taken /\ read' = read /\ pc' = pc
      /\ Len(heard') = Len(heard) + 1
      /\ \A k \in 1 .. Len(heard) : heard'[k] = heard[k]
  BY <1>3 DEF USART1_RX_vect, Taken, Inv, TypeOK
<1>7. pc = "fetch" => uart1_getbuf'.m_entry[Len(read) % CbufSize] = heard'[Len(read) + 1]
  <2> SUFFICES ASSUME pc = "fetch"
               PROVE  uart1_getbuf'.m_entry[Len(read) % CbufSize] = heard'[Len(read) + 1]
    OBVIOUS
  <2>1. Len(read) < Len(heard) /\ Len(read) \in Nat /\ Len(heard) \in Nat
    BY TakenType DEF Inv
  <2>2. Len(read) % CbufSize # Len(heard) % CbufSize
    BY <1>1, <2>1, SlotsDiffer
  <2>3. uart1_getbuf'.m_entry = [uart1_getbuf.m_entry EXCEPT ![Len(heard) % CbufSize] = b]
    <3>1. Slot(uart1_getbuf.m_putIdx) = Len(heard) % CbufSize
      BY <2>1, SlotOfIndex DEF Inv, RxInv, Holds
    <3> QED
      BY <3>1, <1>3 DEF stored, StoreEntry, StepPutIdx, Inv, TypeOK, CbufType
  <2>4. Len(read) % CbufSize \in Slots
    BY <2>1, IndexType
  <2>5. uart1_getbuf.m_entry[Len(read) % CbufSize] = heard[Len(read) + 1]
    BY DEF Inv, RxInv
  <2>6. uart1_getbuf.m_entry \in [Slots -> Byte]
    BY DEF Inv, TypeOK, CbufType
  <2>7. uart1_getbuf'.m_entry[Len(read) % CbufSize] = uart1_getbuf.m_entry[Len(read) % CbufSize]
    BY <2>2, <2>3, <2>4, <2>6
  <2>8. heard'[Len(read) + 1] = heard[Len(read) + 1]
    BY <1>6, <2>1
  <2> QED
    BY <2>5, <2>7, <2>8
<1>8. RxInv'
  BY <1>1, <1>4, <1>6, <1>7, TakenType, Sizes DEF Inv, RxInv, Holds
<1>9. TxInv'
  BY TxUntouched DEF Inv, USART1_RX_vect
<1> QED
  BY <1>5, <1>8, <1>9 DEF Inv

LEMMA UdreInv ==
  ASSUME Inv, USART1_UDRE_vect
  PROVE  Inv'
<1>1. RxInv'
  BY RxUntouched DEF Inv, USART1_UDRE_vect
<1>2. UDR1 = NoByte /\ InUdr = 0
  BY DEF USART1_UDRE_vect, UdrePending, InUdr
<1>3. CASE CBUF_IsEmpty(uart1_putbuf)
  <2>1. TypeOK'
    BY <1>3 DEF Inv, TypeOK, USART1_UDRE_vect, rx
  <2>2. TxInv'
    BY <1>3 DEF Inv, TxInv, USART1_UDRE_vect, Gone, InShift, InUdr, Todo, Holds
  <2> QED
    BY <1>1, <2>1, <2>2 DEF Inv
<1>4. CASE ~CBUF_IsEmpty(uart1_putbuf)
  <2>1. Gone < Len(accepted)
    <3>1. accepted \in Seq(Byte) /\ Gone \in Nat /\ Holds(uart1_putbuf, accepted, Gone)
      BY GoneType DEF Inv, TypeOK, TxInv
    <3>2. Todo >= 0
      BY GoneType DEF Inv, TxInv
    <3>3. Len(accepted) - Gone <= CbufSize
      BY <3>2, GoneType, Sizes DEF Inv
    <3>4. ~(Gone = Len(accepted))
      BY <1>4, <3>1, <3>3, HoldsLen
    <3> QED
      BY <3>4, GoneType DEF Inv
  <2>2. /\ uart1_putbuf' = CBUF_Pop(uart1_putbuf) /\ UDR1' = Popped(uart1_putbuf)
        /\ UNCHANGED <<shift, line, accepted, left, pc, c, UDRIE1>>
    BY <1>4 DEF USART1_UDRE_vect
  <2>3. /\ uart1_putbuf' \in CbufType(Byte)
        /\ Holds(uart1_putbuf', accepted, Gone + 1)
        /\ UDR1' = accepted[Gone + 1] /\ UDR1' \in Byte
    BY <2>1, <2>2, PopHolds, GoneType DEF Inv, TypeOK, TxInv
  <2>4. uart1_putbuf'.m_entry = uart1_putbuf.m_entry
    BY <2>2 DEF CBUF_Pop, Inv, TypeOK, CbufType
  <2>5. TypeOK'
    BY <1>4, <2>2, <2>3 DEF Inv, TypeOK, USART1_UDRE_vect, rx
  <2>6. UDR1' # NoByte
    BY <2>3, Rs485Assumption
  <2>7. Gone' = Gone + 1 /\ Todo' = Todo /\ InShift' = InShift
    BY <1>2, <2>2, <2>6, GoneType DEF Gone, InShift, InUdr, Todo, Inv
  <2>8. Gone = Len(line) + InShift
    BY <1>2, GoneType DEF Inv
  <2>9. TxInv'
    <3>1. Holds(uart1_putbuf, accepted, Gone)'
      BY <2>2, <2>3, <2>7
    <3>2. Len(accepted') - Gone' + Todo' <= CbufSize
      BY <2>2, <2>7, GoneType, Sizes DEF Inv
    <3>3. UDR1' = accepted'[Len(line') + InShift' + 1]
      BY <2>2, <2>3, <2>7, <2>8
    <3>4. pc' = "push" => c' \in Byte /\ uart1_putbuf'.m_entry[Len(accepted') % CbufSize] = c'
      BY <2>2, <2>4 DEF Inv, TxInv
    <3>5. /\ pc' \in {"push", "enable"} => left' > 0
          /\ shift' # NoByte => shift' = accepted'[Len(line') + 1]
          /\ \A k \in 1 .. Len(line') : line'[k] = accepted'[k]
      BY <2>2 DEF Inv, TxInv
    <3> QED
      BY <3>1, <3>2, <3>3, <3>4, <3>5 DEF TxInv
  <2> QED
    BY <1>1, <2>5, <2>9 DEF Inv
<1> QED
  BY <1>3, <1>4

LEMMA TxVectInv ==
  ASSUME Inv, USART1_TX_vect
  PROVE  Inv'
<1>1. RxInv'
  BY RxUntouched DEF Inv, USART1_TX_vect
<1>2. TypeOK'
  BY DEF Inv, TypeOK, USART1_TX_vect, rx
<1>3. TxInv'
  BY DEF Inv, TxInv, USART1_TX_vect, Gone, InShift, InUdr, Todo, Holds
<1> QED
  BY <1>1, <1>2, <1>3 DEF Inv

LEMMA LoadInv ==
  ASSUME Inv, Load
  PROVE  Inv'
<1>1. RxInv'
  BY RxUntouched DEF Inv, Load
<1>2. TypeOK'
  BY DEF Inv, TypeOK, Load, rx
<1>3. /\ InShift = 0 /\ InUdr = 1 /\ InShift' = 1 /\ InUdr' = 0
      /\ Gone' = Gone /\ Todo' = Todo
      /\ shift' = UDR1 /\ UDR1' = NoByte /\ shift' # NoByte
      /\ UNCHANGED <<uart1_putbuf, accepted, line, pc, c, left>>
  <2>1. InShift = 0 /\ InUdr = 1 /\ InShift' = 1 /\ InUdr' = 0
    BY DEF Load, InShift, InUdr
  <2>2. Gone' = Gone /\ Todo' = Todo
    BY <2>1, GoneType DEF Load, Gone, Todo, Inv
  <2> QED
    BY <2>1, <2>2 DEF Load
<1>4. Len(line) + 0 + 1 = Len(line) + 1
  BY GoneType DEF Inv
<1>5. TxInv'
  BY <1>3, <1>4 DEF Inv, TxInv, Holds
<1> QED
  BY <1>1, <1>2, <1>5 DEF Inv

LEMMA ShiftOutInv ==
  ASSUME Inv, ShiftOut
  PROVE  Inv'
<1>1. RxInv'
  BY RxUntouched DEF Inv, ShiftOut
<1>2. /\ shift \in Byte /\ shift = accepted[Len(line) + 1]
      /\ line' = Append(line, shift) /\ shift' = NoByte
      /\ UNCHANGED <<uart1_putbuf, accepted, UDR1, pc, c, left>>
  BY DEF Inv, TypeOK, TxInv, ShiftOut
<1>3. TypeOK'
  BY <1>2 DEF Inv, TypeOK, ShiftOut, rx
<1>4. InShift = 1 /\ InShift' = 0 /\ InUdr' = InUdr
  BY <1>2, Rs485Assumption DEF InShift, InUdr
<1>5. Len(line') = Len(line) + 1 /\ Len(line) \in Nat
  BY <1>2 DEF Inv, TypeOK
<1>6. Gone' = Gone /\ Todo' = Todo
  BY <1>2, <1>4, <1>5, GoneType DEF Gone, Todo, Inv
<1>7. TxInv'
  <2>1. \A k \in 1 .. Len(line') : line'[k] = accepted'[k]
    BY <1>2, <1>5 DEF Inv, TypeOK, TxInv
  <2>2. UDR1' # NoByte => UDR1' = accepted'[Len(line') + InShift' + 1]
    BY <1>2, <1>4, <1>5 DEF Inv, TxInv
  <2> QED
    BY <1>2, <1>6, <2>1, <2>2 DEF Inv, TxInv, Holds
<1> QED
  BY <1>1, <1>3, <1>7 DEF Inv

LEMMA NextInv == Inv /\ [Next]_vars => Inv'
<1> SUFFICES ASSUME Inv, [Next]_vars PROVE Inv'
  OBVIOUS
<1>1. CASE BusSendPacket
  BY <1>1, BusSendPacketInv
<1>2. CASE \E b \in Byte : rs485_putchar(b)
  BY <1>2, PutcharInv
<1>3. CASE Push
  BY <1>3, PushInv
<1>4. CASE Enable
  BY <1>4, EnableInv
<1>5. CASE rs485_getchar
  BY <1>5, GetcharInv
<1>6. CASE Fetch
  BY <1>6, FetchInv
<1>7. CASE USART1_UDRE_vect
  BY <1>7, UdreInv
<1>8. CASE USART1_TX_vect
  BY <1>8, TxVectInv
<1>9. CASE Load
  BY <1>9, LoadInv
<1>10. CASE ShiftOut
  BY <1>10, ShiftOutInv
<1>11. CASE \E b \in Byte : USART1_RX_vect(b)
  BY <1>11, ReceiveInv
<1>12. CASE UNCHANGED vars
  <2>1. RxInv'
    BY <1>12, RxUntouched DEF Inv, vars
  <2>2. TxInv'
    BY <1>12, TxUntouched DEF Inv, vars
  <2>3. TypeOK'
    BY <1>12 DEF Inv, TypeOK, vars, tx, rx
  <2> QED
    BY <2>1, <2>2, <2>3 DEF Inv
<1> QED
  BY <1>1, <1>2, <1>3, <1>4, <1>5, <1>6, <1>7, <1>8, <1>9, <1>10, <1>11, <1>12
     DEF Next, Main, Transmit, Receive

(***************************************************************************)
(* The invariant: each buffer holds exactly the bytes between the two      *)
(* ends, and the registers the bytes next to leave.                        *)
(***************************************************************************)
THEOREM Invariance == Spec => []Inv
<1>1. Init => Inv
  BY InitInv
<1>2. Inv /\ [Next]_vars => Inv'
  BY NextInv
<1> QED
  BY <1>1, <1>2, PTL DEF Spec

(***************************************************************************)
(* The indices and registers of the port of rs485.c keep their types.      *)
(***************************************************************************)
THEOREM TypeCorrect == Spec => []TypeOK
<1>1. Inv => TypeOK
  BY DEF Inv
<1> QED
  BY <1>1, Invariance, PTL

(***************************************************************************)
(* rs485_putchar and the UDRE handler hand every byte to the bus once and  *)
(* in order, without a lock.                                               *)
(***************************************************************************)
THEOREM Sending == Spec => []SentInOrder
<1>1. Inv => SentInOrder
  BY GoneType DEF Inv, TxInv, SentInOrder
<1> QED
  BY <1>1, Invariance, PTL

(***************************************************************************)
(* The RX handler and rs485_getchar hand every byte of the bus to the main *)
(* program once and in order, while no more than a buffer waits.           *)
(***************************************************************************)
THEOREM Reading == Spec => []ReadInOrder
<1>1. Inv => ReadInOrder
  BY TakenType DEF Inv, RxInv, ReadInOrder
<1> QED
  BY <1>1, Invariance, PTL

-----------------------------------------------------------------------------
(***************************************************************************)
(* The direction of the bus.  TX is pending while something is on its way  *)
(* out only if UDRE has stored a byte in between.                          *)
(***************************************************************************)
DriverInv ==
  /\ (shift # NoByte \/ UDR1 # NoByte) /\ ~overtaken => driver
  /\ TXC1 /\ (shift # NoByte \/ UDR1 # NoByte) => overtaken
  /\ DriverReleased

\* Whether the buffer is empty, before a step and after it.
LEMMA EmptyIff == Inv => (CBUF_IsEmpty(uart1_putbuf) <=> Gone = Len(accepted))
<1> SUFFICES ASSUME Inv PROVE CBUF_IsEmpty(uart1_putbuf) <=> Gone = Len(accepted)
  OBVIOUS
<1>1. accepted \in Seq(Byte) /\ Gone \in Nat /\ Holds(uart1_putbuf, accepted, Gone)
  BY GoneType DEF Inv, TypeOK, TxInv
<1>2. Todo >= 0
  BY GoneType DEF Inv, TxInv
<1>3. Len(accepted) - Gone <= CbufSize
  BY <1>2, GoneType, Sizes DEF Inv
<1> QED
  BY <1>1, <1>3, HoldsLen

LEMMA DriverStep ==
  ASSUME Inv, DriverInv, [Next]_vars
  PROVE  DriverInv'
<1> USE DEF DriverInv, DriverReleased
<1>1. CASE BusSendPacket
  BY <1>1 DEF BusSendPacket
<1>2. ASSUME NEW b \in Byte, rs485_putchar(b) PROVE DriverInv'
  <2>1. CBUF_IsEmpty(uart1_putbuf') <=> CBUF_IsEmpty(uart1_putbuf)
    BY <1>2 DEF rs485_putchar, PushHalves, StoreEntry, CBUF_IsEmpty, CBUF_Len, Inv, TypeOK, CbufType
  <2> QED
    BY <1>2, <2>1 DEF rs485_putchar
<1>3. CASE Push
  <2>1. Inv'
    BY <1>3, PushInv
  <2>2. Len(accepted') = Len(accepted) + 1 /\ Gone' = Gone
    BY <1>3 DEF Push, Gone, InShift, InUdr, Inv, TypeOK
  <2>3. Gone' # Len(accepted')
    BY <2>2, GoneType DEF Inv
  <2>4. Inv' => ((CBUF_IsEmpty(uart1_putbuf))' <=> (Gone = Len(accepted))')
    BY EmptyIff, PTL
  <2> QED
    BY <1>3, <2>1, <2>3, <2>4 DEF Push
<1>4. CASE Enable
  BY <1>4 DEF Enable
<1>5. CASE rs485_getchar
  BY <1>5 DEF rs485_getchar, tx
<1>6. CASE Fetch
  BY <1>6 DEF Fetch, tx
<1>7. CASE USART1_UDRE_vect
  <2>1. Inv'
    BY <1>7, UdreInv
  <2>2. CASE CBUF_IsEmpty(uart1_putbuf)
    BY <1>7, <2>2 DEF USART1_UDRE_vect, UdrePending
  <2>3. CASE ~CBUF_IsEmpty(uart1_putbuf)
    <3>1. Popped(uart1_putbuf) \in Byte
      <4>1. Slot(uart1_putbuf.m_getIdx) \in Slots
        BY SlotOfIndex, IndexType, GoneType DEF Inv, TxInv, Holds
      <4> QED
        BY <4>1 DEF Popped, Inv, TypeOK, CbufType
    <3>2. UDR1' # NoByte /\ driver' = TRUE /\ UNCHANGED <<TXC1, shift>> /\ overtaken' = TXC1
      BY <1>7, <2>3, <3>1, Rs485Assumption DEF USART1_UDRE_vect, UdrePending
    <3> QED
      BY <3>2
  <2> QED
    BY <2>2, <2>3
<1>8. CASE USART1_TX_vect
  BY <1>8 DEF USART1_TX_vect
<1>9. CASE Load
  BY <1>9 DEF Load
<1>10. CASE ShiftOut
  BY <1>10 DEF ShiftOut
<1>11. ASSUME NEW b \in Byte, USART1_RX_vect(b) PROVE DriverInv'
  BY <1>11 DEF USART1_RX_vect, tx
<1>12. CASE UNCHANGED vars
  BY <1>12 DEF vars, tx
<1> QED
  BY <1>1, <1>2, <1>3, <1>4, <1>5, <1>6, <1>7, <1>8, <1>9, <1>10, <1>11, <1>12
     DEF Next, Main, Transmit, Receive

(***************************************************************************)
(* The driver is on while a byte is in the transmitter (rs485.c:37-59),    *)
(* however the handlers and the program interleave, unless UDRE stored     *)
(* that byte before the TX handler had seen the end of the one before.     *)
(***************************************************************************)
THEOREM Held == Spec => []DriverHeld
<1>1. Init => DriverInv
  BY DEF Init, DriverInv, DriverReleased
<1>2. Inv /\ DriverInv /\ [Next]_vars => DriverInv'
  BY DriverStep
<1>3. DriverInv => DriverHeld
  BY DEF DriverInv, DriverHeld
<1> QED
  BY <1>1, <1>2, <1>3, Invariance, PTL DEF Spec

(***************************************************************************)
(* The driver is released when the last byte is out, at any interleaving.  *)
(***************************************************************************)
THEOREM Released == Spec => []DriverReleased
<1>1. Init => DriverInv
  BY DEF Init, DriverInv, DriverReleased
<1>2. Inv /\ DriverInv /\ [Next]_vars => DriverInv'
  BY DriverStep
<1>3. DriverInv => DriverReleased
  BY DEF DriverInv
<1> QED
  BY <1>1, <1>2, <1>3, Invariance, PTL DEF Spec

-----------------------------------------------------------------------------
LEMMA LineStep ==
  ASSUME Inv, Inv', [Next]_vars
  PROVE  [Line!Next]_(Line!vars)
<1> DEFINE queue == SubSeq(accepted, Len(line) + 1, Len(accepted))
<1>0. /\ accepted \in Seq(Byte) /\ line \in Seq(Byte)
      /\ Len(line) \in Nat /\ Len(accepted) \in Nat /\ Len(line) <= Len(accepted)
  BY GoneType DEF Inv, TypeOK
<1>1. ASSUME UNCHANGED <<accepted, line>> PROVE [Line!Next]_(Line!vars)
  BY <1>1 DEF Line!vars
<1>2. CASE Push
  <2>1. c \in Byte /\ accepted' = Append(accepted, c) /\ line' = line
    BY <1>2 DEF Push, Inv, TxInv
  <2>2. Len(accepted') = Len(accepted) + 1 /\ accepted' = accepted \o <<c>>
    BY <1>0, <2>1, AppendIsConcat
  <2>3. SubSeq(accepted', Len(line) + 1, Len(accepted')) = Append(queue, c)
    <3> DEFINE m == Len(line) + 1
               n == Len(accepted) + 1
    <3>1. /\ accepted' \in Seq(Byte) /\ m \in 1 .. Len(accepted') /\ n \in m .. Len(accepted')
          /\ Len(accepted') = n /\ accepted'[n] = c /\ n - 1 = Len(accepted)
      BY <1>0, <2>1, <2>2, AppendProperties
    <3>2. SubSeq(accepted', m, n) = SubSeq(accepted', m, n - 1) \o <<accepted'[n]>>
      BY <3>1, SubSeqRecursiveSecond
    <3>3. SubSeq(accepted', m, Len(accepted)) = queue
      BY <1>0, <2>1, <2>2, SubSeqOfConcat1
    <3>4. queue \in Seq(Byte)
      BY <1>0, SubSeqProperties
    <3>5. Append(queue, c) = queue \o <<c>>
      BY <2>1, <3>4, AppendIsConcat
    <3> QED
      BY <3>1, <3>2, <3>3, <3>5
  <2>4. Line!Put(c)
    BY <2>1, <2>3 DEF Line!Put
  <2> QED
    BY <2>1, <2>4 DEF Line!Next
<1>3. CASE ShiftOut
  <2>1. /\ line' = Append(line, shift) /\ shift = accepted[Len(line) + 1]
        /\ accepted' = accepted /\ Len(line') = Len(line) + 1
    BY <1>0, <1>3 DEF ShiftOut, Inv, TxInv
  <2>2. Len(line) + 1 <= Len(accepted)
    BY <1>0, <1>3, GoneType DEF Inv, ShiftOut, InShift
  <2>3. Head(queue) = accepted[Len(line) + 1]
        /\ Tail(queue) = SubSeq(accepted, Len(line) + 1 + 1, Len(accepted))
    BY <1>0, <2>2, HeadTailOfSubSeq
  <2>4. queue # <<>>
    <3>1. Len(queue) = Len(accepted) - (Len(line) + 1) + 1
      BY <1>0, <2>2, SubSeqProperties
    <3>2. Len(queue) >= 1
      BY <1>0, <2>2, <3>1
    <3> HIDE DEF queue
    <3>3. Len(<<>>) = 0
      OBVIOUS
    <3> QED
      BY <3>2, <3>3
  <2>5. Line!Leave
    BY <2>1, <2>3, <2>4 DEF Line!Leave
  <2> QED
    BY <2>5 DEF Line!Next
<1> QED
  BY <1>1, <1>2, <1>3
     DEF Next, Main, Transmit, Receive, BusSendPacket, rs485_putchar, Enable, rs485_getchar,
         Fetch, USART1_RX_vect, USART1_UDRE_vect, USART1_TX_vect, Load, vars, tx

(***************************************************************************)
(* The port implements the serial line (its safety part).                  *)
(***************************************************************************)
THEOREM Implements == Spec => Line!Spec
<1>1. Init => Line!Init
  BY DEF Init, Line!Init
<1>2. Inv /\ Inv' /\ [Next]_vars => [Line!Next]_(Line!vars)
  BY LineStep
<1> QED
  BY <1>1, <1>2, Invariance, PTL DEF Spec, Line!Spec

=============================================================================
