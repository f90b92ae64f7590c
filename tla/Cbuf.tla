-------------------------------- MODULE Cbuf --------------------------------
(***************************************************************************)
(* The circular buffer of CBUF.h, through which the main program and an    *)
(* interrupt handler of the microcontroller exchange bytes.  Both indices  *)
(* run freely through the range of their type and are reduced to a slot    *)
(* only when the array is accessed, so that a full buffer and an empty one *)
(* have different indices.                                                 *)
(***************************************************************************)
EXTENDS Integers

CONSTANTS
  IndexSize,   \* values of m_getIdx and m_putIdx: 256 for uint8_t
  CbufSize     \* xxx_SIZE, the entries of the buffer

(***************************************************************************)
(* The size is a power of two that divides the range of the index and is   *)
(* smaller than it; of the powers of two the macros need nothing else.     *)
(***************************************************************************)
ASSUME CbufAssumption ==
  /\ CbufSize \in Nat \ {0}
  /\ IndexSize \in Nat
  /\ \E k \in 2 .. IndexSize : IndexSize = k * CbufSize

Slots == 0 .. CbufSize - 1
Indices == 0 .. IndexSize - 1

CbufType(Entry) == [m_getIdx : Indices, m_putIdx : Indices, m_entry : [Slots -> Entry]]

\* The storage of a static buffer is zero before CBUF_Init.
CBUF_Init(zero) == [m_getIdx |-> 0, m_putIdx |-> 0, m_entry |-> [i \in Slots |-> zero]]

CBUF_Len(cbuf) == (cbuf.m_putIdx - cbuf.m_getIdx) % IndexSize

CBUF_IsEmpty(cbuf) == CBUF_Len(cbuf) = 0

Slot(idx) == idx % CbufSize

\* An index that does not wrap.
NextIdxMutant(idx) == idx + 1

NextIdx(idx) == (idx + 1) % IndexSize

(***************************************************************************)
(* CBUF_Push is an assignment with a side effect on its left: the entry    *)
(* and the index are written by two stores, which C does not sequence.     *)
(* These are the two halves; Rs485 says in which order they happen.        *)
(***************************************************************************)
StoreEntry(cbuf, elem) == [cbuf EXCEPT !.m_entry[Slot(cbuf.m_putIdx)] = elem]

StepPutIdx(cbuf) == [cbuf EXCEPT !.m_putIdx = NextIdx(@)]

\* An increment before the store instead of after it.
CBUF_PushMutant(cbuf, elem) == StoreEntry(StepPutIdx(cbuf), elem)

\* In an interrupt handler nothing comes between the two.
CBUF_Push(cbuf, elem) == StepPutIdx(StoreEntry(cbuf, elem))

\* CBUF_Pop: the element it returns and the buffer it leaves.
Popped(cbuf) == cbuf.m_entry[Slot(cbuf.m_getIdx)]

CBUF_Pop(cbuf) == [cbuf EXCEPT !.m_getIdx = NextIdx(@)]
=============================================================================
