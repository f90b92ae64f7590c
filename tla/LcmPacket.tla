------------------------------ MODULE LcmPacket ------------------------------
(***************************************************************************)
(* The LCM wire format of Modules/luajit-lcm_packet/lcm_packet.lua: how    *)
(* lib.fragment cuts a message into datagrams and which datagrams the      *)
(* receiver's header checks accept.                                        *)
(*                                                                         *)
(* A message is a record                                                   *)
(*   from_addr    the sender id the receiver is given for its datagrams    *)
(*   msg_seq      the sequence number the sender puts in the header        *)
(*   channel      its channel, channel_len bytes long                      *)
(*   msg_len      its length in bytes                                      *)
(*   body         what tells its bytes from those of another message       *)
(* Byte i of a message is identified with its body: a datagram carries its *)
(* data at a fixed offset, so only the origin of a byte can be wrong.      *)
(***************************************************************************)
EXTENDS Integers, FiniteSets

CONSTANTS
  Messages,                  \* the messages that are sent
  LCM_PUBLISH_BUFFER_SIZE,   \* bytes in the largest datagram
  MAXIMUM_HEADER_LENGTH,     \* room lib.fragment keeps for header and channel
  LCM3_MAX_FRAGMENTS,        \* fragments the receiver accepts for one message
  LCM_MAX_CHANNEL_LENGTH     \* longest channel name the receiver accepts

\* The header of a fragment: four 32 bit and two 16 bit words.
LCM3_HEADER == 20

\* The header of a short message: its magic number and its sequence number.
LCM2_HEADER == 8

ASSUME SizesAssumption ==
  /\ LCM_PUBLISH_BUFFER_SIZE \in Nat
  /\ MAXIMUM_HEADER_LENGTH \in Nat
  /\ MAXIMUM_HEADER_LENGTH < LCM_PUBLISH_BUFFER_SIZE
  /\ LCM3_MAX_FRAGMENTS \in Nat
  /\ LCM_MAX_CHANNEL_LENGTH \in Nat

\* Nothing in lib.fragment checks that the channel name leaves room for data;
\* the channels of the system are short names.
ASSUME MessagesAssumption ==
  \A m \in Messages :
    /\ m.channel_len \in Nat
    /\ m.msg_len \in Nat
    /\ LCM2_HEADER + m.channel_len + 1 <= MAXIMUM_HEADER_LENGTH
    /\ LCM3_HEADER + m.channel_len + 1 < LCM_PUBLISH_BUFFER_SIZE

-----------------------------------------------------------------------------
(* Fragmentation, lib.fragment and frag3 *)

\* lib.fragment sends a message of this length as one LCM2 datagram.
Short(msg_len) == msg_len < LCM_PUBLISH_BUFFER_SIZE - MAXIMUM_HEADER_LENGTH

\* Mutant: the channel name of fragment 0 is forgotten.
max_fragment_sizeMutant(channel_len) == LCM_PUBLISH_BUFFER_SIZE - LCM3_HEADER

max_fragment_size(channel_len) ==
  LCM_PUBLISH_BUFFER_SIZE - LCM3_HEADER - channel_len - 1

\* Mutant: the last, shorter fragment is not counted.
fragments_in_msgMutant(channel_len, msg_len) == msg_len \div max_fragment_size(channel_len)

fragments_in_msg(channel_len, msg_len) ==
  LET max == max_fragment_size(channel_len)
  IN  (msg_len + max - 1) \div max

\* The data bytes of the fragment that starts at offset.
frag_sz(channel_len, msg_len, offset) ==
  LET left == msg_len - offset
      max  == max_fragment_size(channel_len)
  IN  IF left < max THEN left ELSE max

\* What precedes the data: fragment 0 carries the channel and a zero.
name_len(channel_len, fragment_id) ==
  IF fragment_id = 0 THEN channel_len + 1 ELSE 0

\* Mutant: the offset is taken from the end of the fragment.
FragmentMutant(m, id, offset) ==
  LET data_len == frag_sz(m.channel_len, m.msg_len, offset)
  IN  [from_addr        |-> m.from_addr,
       msg_seq          |-> m.msg_seq,
       msg_size         |-> m.msg_len,
       fragment_offset  |-> offset - data_len,
       fragment_id      |-> id,
       fragments_in_msg |-> fragments_in_msg(m.channel_len, m.msg_len),
       channel          |-> m.channel,
       name_len         |-> name_len(m.channel_len, id),
       data_len         |-> data_len,
       body             |-> m.body]

\* The datagram frag3 builds for the part of the message at an offset.
Fragment(m, id, offset) ==
  [from_addr        |-> m.from_addr,
   msg_seq          |-> m.msg_seq,
   msg_size         |-> m.msg_len,
   fragment_offset  |-> offset,
   fragment_id      |-> id,
   fragments_in_msg |-> fragments_in_msg(m.channel_len, m.msg_len),
   channel          |-> m.channel,
   name_len         |-> name_len(m.channel_len, id),
   data_len         |-> frag_sz(m.channel_len, m.msg_len, offset),
   body             |-> m.body]

FragmentIds(m) == 0 .. fragments_in_msg(m.channel_len, m.msg_len) - 1

\* The fragments of a message, in closed form: LcmFragment shows that the
\* loop of frag3 builds exactly these.
Fragments(m) ==
  {Fragment(m, id, id * max_fragment_size(m.channel_len)) : id \in FragmentIds(m)}

-----------------------------------------------------------------------------
(* The header checks at the start of assemble3 *)

TooManyFragments(p) == p.fragments_in_msg > LCM3_MAX_FRAGMENTS

BadFragmentId(p) == p.fragment_id >= p.fragments_in_msg

\* Mutant: a fragment may not end where the message ends.
BadFragmentSizeMutant1(p) ==
  p.fragment_offset + (p.name_len + p.data_len) >= p.msg_size

\* Mutant: only the data of the fragment counts.
BadFragmentSizeMutant2(p) == p.fragment_offset + p.data_len > p.msg_size

\* payload_len is all that follows the header, the channel name included.
BadFragmentSize(p) ==
  p.fragment_offset + (p.name_len + p.data_len) > p.msg_size

HeaderError(p) ==
  \/ TooManyFragments(p)
  \/ BadFragmentId(p)
  \/ BadFragmentSize(p)

\* The name scan of fragment 0 gives up after LCM_MAX_CHANNEL_LENGTH bytes.
BadName(p) ==
  /\ p.fragment_id = 0
  /\ p.name_len - 1 > LCM_MAX_CHANNEL_LENGTH
=============================================================================
