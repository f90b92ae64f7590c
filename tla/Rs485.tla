------------------------------- MODULE Rs485 --------------------------------
(***************************************************************************)
(* The serial port to the servo bus: rs485.c of the Dynamixel gateway.     *)
(* The main program puts bytes into uart1_putbuf and takes bytes out of    *)
(* uart1_getbuf; the three interrupt handlers of USART1 do the rest and    *)
(* switch the direction of the bus driver.  An interrupt can come between  *)
(* any two steps of the main program; no lock is taken anywhere.           *)
(*                                                                         *)
(* The transmitter of the USART (external) is a data register UDR1 and a   *)
(* shift register.  The handler UDRE is pending while UDR1 is empty and    *)
(* UDRIE1 is set; TX is pending from the moment a byte has left with UDR1  *)
(* empty until its handler runs.                                           *)
(***************************************************************************)
EXTENDS Cbuf, Sequences

CONSTANTS
  Byte,        \* what a character can be
  NoByte,      \* an empty register
  MaxPacket    \* the longest packet the main program sends

ASSUME Rs485Assumption ==
  /\ NoByte \notin Byte
  /\ Byte # {}
  /\ MaxPacket \in 0 .. CbufSize

VARIABLES
  uart1_putbuf, uart1_getbuf,
  pc,          \* where the main program is in rs485_putchar or rs485_getchar
  c,           \* its argument or its result in the making
  left,        \* bytes of the packet that are not put yet
  UDRIE1, TXC1, UDR1, shift,
  driver,      \* RS485_TX_ENABLE_PIN
  overtaken,   \* history: the last byte was stored in UDR1 before the TX handler
               \* had seen the end of the one before
  accepted,    \* history: the bytes rs485_putchar took
  line,        \* history: the bytes that were clocked out
  heard,       \* history: the bytes that came from the bus
  read         \* history: the bytes rs485_getchar returned

tx == <<uart1_putbuf, UDRIE1, TXC1, UDR1, shift, driver, accepted, line, left>>
rx == <<uart1_getbuf, heard, read>>
vars == <<tx, rx, pc, c, overtaken>>

Zero == CHOOSE b \in Byte : TRUE

Init ==
  /\ uart1_putbuf = CBUF_Init(Zero) /\ uart1_getbuf = CBUF_Init(Zero)
  /\ pc = "main" /\ c = NoByte /\ left = 0
  /\ UDRIE1 = FALSE /\ TXC1 = FALSE
  /\ UDR1 = NoByte /\ shift = NoByte
  /\ driver = FALSE /\ overtaken = FALSE
  /\ accepted = <<>> /\ line = <<>> /\ heard = <<>> /\ read = <<>>

UdrePending == UDRIE1 /\ UDR1 = NoByte

-----------------------------------------------------------------------------
(***************************************************************************)
(* The main program starts a packet when the one before is out: a query    *)
(* waits for its answer or for a silence of 4 ms, a sync-write for such a  *)
(* silence.  A packet forwarded in manual mode does not wait: it is not    *)
(* modelled here.                                                          *)
(***************************************************************************)
BusSendPacket ==
  /\ pc = "main" /\ left = 0
  /\ CBUF_IsEmpty(uart1_putbuf)
  /\ \E n \in 1 .. MaxPacket : left' = n
  /\ UNCHANGED <<rx, overtaken, pc, c, uart1_putbuf, UDRIE1, TXC1, UDR1, shift, driver, accepted, line>>

\* A compiler that steps the index first.
PushHalvesMutant(b) ==
  <<StepPutIdx(uart1_putbuf),
    [uart1_putbuf EXCEPT !.m_entry[Slot((uart1_putbuf.m_putIdx - 1) % IndexSize)] = b]>>

(***************************************************************************)
(* The two stores of CBUF_Push in rs485_putchar.  The buffer is volatile,  *)
(* so both are made, but one assignment holds both and C does not sequence *)
(* them.  The UDRE handler can come between them: only in this order is    *)
(* the entry there before the index announces it.                          *)
(***************************************************************************)
PushHalves(b) == <<StoreEntry(uart1_putbuf, b), StepPutIdx(uart1_putbuf)>>

rs485_putchar(b) ==
  /\ pc = "main" /\ left > 0
  /\ uart1_putbuf' = PushHalves(b)[1]
  /\ c' = b /\ pc' = "push"
  /\ UNCHANGED <<rx, overtaken, left, UDRIE1, TXC1, UDR1, shift, driver, accepted, line>>

Push ==
  /\ pc = "push"
  /\ uart1_putbuf' = PushHalves(c)[2]
  /\ accepted' = Append(accepted, c)
  /\ pc' = "enable"
  /\ UNCHANGED <<rx, overtaken, c, left, UDRIE1, TXC1, UDR1, shift, driver, line>>

\* A program that starts the transmitter only when it is at rest.
EnableMutant ==
  /\ pc = "enable"
  /\ UDRIE1' = (UDRIE1 \/ shift = NoByte)
  /\ left' = left - 1
  /\ pc' = "main" /\ c' = NoByte
  /\ UNCHANGED <<rx, overtaken, uart1_putbuf, TXC1, UDR1, shift, driver, accepted, line>>

(***************************************************************************)
(* Then the interrupt that empties the buffer is enabled.  The register is *)
(* read, changed and written back, but the handler that may come between   *)
(* does nothing but clear the very bit that is set here: one step.         *)
(***************************************************************************)
Enable ==
  /\ pc = "enable"
  /\ UDRIE1' = TRUE
  /\ left' = left - 1
  /\ pc' = "main" /\ c' = NoByte
  /\ UNCHANGED <<rx, overtaken, uart1_putbuf, TXC1, UDR1, shift, driver, accepted, line>>

\* rs485_getchar: CBUF_Pop steps the index and fetches the entry.
rs485_getchar ==
  /\ pc = "main" /\ left = 0
  /\ ~CBUF_IsEmpty(uart1_getbuf)
  /\ uart1_getbuf' = CBUF_Pop(uart1_getbuf)
  /\ pc' = "fetch"
  /\ UNCHANGED <<tx, overtaken, c, heard, read>>

\* The slot the index has just left.
Fetched == uart1_getbuf.m_entry[Slot((uart1_getbuf.m_getIdx - 1) % IndexSize)]

Fetch ==
  /\ pc = "fetch"
  /\ read' = Append(read, Fetched)
  /\ pc' = "main"
  /\ UNCHANGED <<tx, overtaken, c, uart1_getbuf, heard>>

-----------------------------------------------------------------------------
(***************************************************************************)
(* The interrupt handlers, which nothing interrupts.  Of two pending ones  *)
(* the hardware takes RX, then UDRE, then TX.                              *)
(***************************************************************************)
\* A byte arrives; at most CbufSize wait for the main program.
Backlog == Len(heard) - Len(read) < CbufSize

USART1_RX_vect(b) ==
  /\ Backlog
  /\ uart1_getbuf' = CBUF_Push(uart1_getbuf, b)
  /\ heard' = Append(heard, b)
  /\ UNCHANGED <<tx, pc, c, overtaken, read>>

\* A handler that releases the bus as soon as the buffer is empty.
USART1_UDRE_vectMutant ==
  /\ UdrePending
  /\ IF ~CBUF_IsEmpty(uart1_putbuf)
     THEN /\ driver' = TRUE
          /\ UDR1' = Popped(uart1_putbuf)
          /\ uart1_putbuf' = CBUF_Pop(uart1_putbuf)
          /\ overtaken' = TXC1
          /\ UNCHANGED UDRIE1
     ELSE /\ UDRIE1' = FALSE /\ driver' = FALSE
          /\ UNCHANGED <<UDR1, uart1_putbuf, overtaken>>
  /\ UNCHANGED <<rx, pc, c, left, TXC1, shift, accepted, line>>

USART1_UDRE_vect ==
  /\ UdrePending
  /\ IF ~CBUF_IsEmpty(uart1_putbuf)
     THEN /\ driver' = TRUE
          /\ UDR1' = Popped(uart1_putbuf)
          /\ uart1_putbuf' = CBUF_Pop(uart1_putbuf)
          /\ overtaken' = TXC1
          /\ UNCHANGED UDRIE1
     ELSE /\ UDRIE1' = FALSE
          /\ UNCHANGED <<driver, UDR1, uart1_putbuf, overtaken>>
  /\ UNCHANGED <<rx, pc, c, left, TXC1, shift, accepted, line>>

\* A handler that leaves the driver on while the program is in the port.
USART1_TX_vectMutant ==
  /\ TXC1 /\ ~UdrePending
  /\ TXC1' = FALSE
  /\ driver' = (driver /\ pc # "main")
  /\ UNCHANGED <<rx, pc, c, left, overtaken, UDRIE1, UDR1, shift, uart1_putbuf, accepted, line>>

USART1_TX_vect ==
  /\ TXC1 /\ ~UdrePending
  /\ TXC1' = FALSE
  /\ driver' = (driver /\ ~CBUF_IsEmpty(uart1_putbuf))
  /\ UNCHANGED <<rx, pc, c, left, overtaken, UDRIE1, UDR1, shift, uart1_putbuf, accepted, line>>

-----------------------------------------------------------------------------
\* The hardware moves a byte to the shift register and clocks it out.
Load ==
  /\ UDR1 # NoByte /\ shift = NoByte
  /\ shift' = UDR1 /\ UDR1' = NoByte
  /\ UNCHANGED <<rx, pc, c, left, overtaken, UDRIE1, TXC1, driver, uart1_putbuf, accepted, line>>

ShiftOut ==
  /\ shift # NoByte
  /\ line' = Append(line, shift)
  /\ shift' = NoByte
  /\ TXC1' = (TXC1 \/ UDR1 = NoByte)
  /\ UNCHANGED <<rx, overtaken, pc, c, left, UDRIE1, UDR1, driver, uart1_putbuf, accepted>>

-----------------------------------------------------------------------------
Main ==
  \/ BusSendPacket
  \/ \E b \in Byte : rs485_putchar(b)
  \/ Push \/ Enable
  \/ rs485_getchar \/ Fetch

Transmit == USART1_UDRE_vect \/ USART1_TX_vect \/ Load \/ ShiftOut

Receive == \E b \in Byte : USART1_RX_vect(b)

Next == Main \/ Transmit \/ Receive

Spec == Init /\ [][Next]_vars

(***************************************************************************)
(* The hardware and the interrupts are fair, and so is the program once it *)
(* is inside one of the two functions; nobody has to send.                 *)
(***************************************************************************)
Fairness ==
  /\ WF_vars(USART1_UDRE_vect) /\ WF_vars(USART1_TX_vect)
  /\ WF_vars(Load) /\ WF_vars(ShiftOut)
  /\ WF_vars(Push \/ Enable \/ Fetch)

FairSpec == Spec /\ Fairness

-----------------------------------------------------------------------------
TypeOK ==
  /\ uart1_putbuf \in CbufType(Byte) /\ uart1_getbuf \in CbufType(Byte)
  /\ pc \in {"main", "push", "enable", "fetch"}
  /\ c \in Byte \cup {NoByte}
  /\ left \in 0 .. MaxPacket
  /\ UDRIE1 \in BOOLEAN /\ TXC1 \in BOOLEAN /\ driver \in BOOLEAN
  /\ overtaken \in BOOLEAN
  /\ UDR1 \in Byte \cup {NoByte} /\ shift \in Byte \cup {NoByte}
  /\ accepted \in Seq(Byte) /\ line \in Seq(Byte)
  /\ heard \in Seq(Byte) /\ read \in Seq(Byte)

(***************************************************************************)
(* The bytes leave in the order in which rs485_putchar took them, although *)
(* its buffer is written by the main program and emptied by an interrupt   *)
(* without a lock, up to a packet that fills the buffer to the last entry. *)
(***************************************************************************)
SentInOrder ==
  /\ Len(line) <= Len(accepted)
  /\ \A k \in 1 .. Len(line) : line[k] = accepted[k]

(***************************************************************************)
(* rs485_getchar returns the bytes of the bus in the order they came.      *)
(***************************************************************************)
ReadInOrder ==
  /\ Len(read) <= Len(heard)
  /\ \A k \in 1 .. Len(read) : read[k] = heard[k]

(***************************************************************************)
(* The driver is on as long as a byte is in the transmitter, whatever the  *)
(* order of handlers and program, but for one: a byte that is stored while *)
(* the TX handler of the byte before is still pending is cut off when that *)
(* handler runs, because it looks at the buffer only (rs485.c:51-59).  It  *)
(* happens when rs485_putchar enables the UDRE interrupt just before a     *)
(* byte ends: of the two, UDRE is served first.                            *)
(***************************************************************************)
DriverHeld == (shift # NoByte \/ UDR1 # NoByte) /\ ~overtaken => driver

(***************************************************************************)
(* The driver is never left on when nothing is going out any more, where   *)
(* it would drown the answer of the servo.                                 *)
(***************************************************************************)
DriverReleased ==
  driver => \/ shift # NoByte \/ UDR1 # NoByte \/ TXC1
            \/ ~CBUF_IsEmpty(uart1_putbuf)

-----------------------------------------------------------------------------
(***************************************************************************)
(* The port implements the serial line: each of its steps is a step of the *)
(* line or none, and with fair interrupts every byte that was taken leaves *)
(* (the interrupt is enabled after the byte is in the buffer).             *)
(***************************************************************************)
Line == INSTANCE SerialLine
  WITH queue <- SubSeq(accepted, Len(line) + 1, Len(accepted)), line <- line

ImplementsLine == Line!FairSpec
=============================================================================
