----------------------------- MODULE LcmFragment -----------------------------
(***************************************************************************)
(* lib.fragment of Modules/luajit-lcm_packet/lcm_packet.lua as the loop it *)
(* is: one step per datagram. A call is chosen in the initial state; the   *)
(* loop appends fragments until the whole message has been cut.            *)
(***************************************************************************)
EXTENDS LcmPacket, Sequences

VARIABLES
  msg,               \* the message of the call
  fragment_offset,   \* bytes of the message already cut
  fragment_id,       \* id of the next fragment
  fragments,         \* the datagrams built so far
  pc                 \* "start", "loop", "done" or "short"

vars == <<msg, fragment_offset, fragment_id, fragments, pc>>

FragmentType ==
  [from_addr : {msg.from_addr}, msg_seq : {msg.msg_seq}, msg_size : {msg.msg_len},
   fragment_offset : Nat, fragment_id : Nat, fragments_in_msg : Nat,
   channel : {msg.channel}, name_len : Nat, data_len : Nat, body : {msg.body}]

TypeOK ==
  /\ msg \in Messages
  /\ fragment_offset \in Nat
  /\ fragment_id \in Nat
  /\ fragments \in Seq(FragmentType)
  /\ pc \in {"start", "loop", "done", "short"}

Init ==
  /\ msg \in Messages
  /\ fragment_offset = 0
  /\ fragment_id = 0
  /\ fragments = << >>
  /\ pc = "start"

\* frag2: the message goes out as one LCM2 datagram.
Frag2 ==
  /\ pc = "start"
  /\ Short(msg.msg_len)
  /\ pc' = "short"
  /\ UNCHANGED <<msg, fragment_offset, fragment_id, fragments>>

\* frag3 is entered with fragment_offset and fragment_id at 0.
Frag3 ==
  /\ pc = "start"
  /\ ~Short(msg.msg_len)
  /\ pc' = "loop"
  /\ UNCHANGED <<msg, fragment_offset, fragment_id, fragments>>

\* One turn of the while loop of frag3.
NextFragment ==
  /\ pc = "loop"
  /\ fragment_offset < msg.msg_len
  /\ fragments' = Append(fragments, Fragment(msg, fragment_id, fragment_offset))
  /\ fragment_offset' =
       fragment_offset + frag_sz(msg.channel_len, msg.msg_len, fragment_offset)
  /\ fragment_id' = fragment_id + 1
  /\ UNCHANGED <<msg, pc>>

Return ==
  /\ pc = "loop"
  /\ fragment_offset >= msg.msg_len
  /\ pc' = "done"
  /\ UNCHANGED <<msg, fragment_offset, fragment_id, fragments>>

Next == Frag2 \/ Frag3 \/ NextFragment \/ Return

Spec == Init /\ [][Next]_vars

-----------------------------------------------------------------------------
(* Properties *)

Datagrams == {fragments[i] : i \in 1 .. Len(fragments)}

\* A datagram never outgrows the buffer it is built in (lcm_packet.lua:263 and
\* :294): a longer one would be written past the end of buf.
FitsPublishBuffer ==
  /\ \A p \in Datagrams :
       LCM3_HEADER + p.name_len + p.data_len <= LCM_PUBLISH_BUFFER_SIZE
  /\ pc = "short" => LCM2_HEADER + msg.channel_len + 1 + msg.msg_len <= LCM_PUBLISH_BUFFER_SIZE

\* When the loop ends, it has built one datagram per id below the number of
\* fragments every header announced, at the offset its id stands for, and
\* together they carry the whole message once (lcm_packet.lua:290 against the
\* loop at :316): were one missing, fragments_remaining would never reach 0.
CutsWholeMessage ==
  pc = "done" =>
    /\ fragment_offset = msg.msg_len
    /\ fragment_id = fragments_in_msg(msg.channel_len, msg.msg_len)
    /\ Datagrams = Fragments(msg)

\* The lengths for which the data and the channel name fit the length check.
ReceivableLength == msg.msg_len >= LCM_PUBLISH_BUFFER_SIZE - LCM3_HEADER

\* The receiver's header checks accept every fragment of a message that is
\* longer than one datagram's payload and has at most LCM3_MAX_FRAGMENTS.
LongFragmentsAccepted ==
  (/\ ReceivableLength
   /\ fragments_in_msg(msg.channel_len, msg.msg_len) <= LCM3_MAX_FRAGMENTS)
  => \A p \in Datagrams : ~HeaderError(p)

\* In the band between Short and ReceivableLength fragment 0 is always refused:
\* its channel name counts as payload (lcm_packet.lua:118 and :130).
BandRefused ==
  (pc = "done" /\ ~ReceivableLength) => \E p \in Datagrams : HeaderError(p)
=============================================================================
