----------------------------- MODULE MCLcmListen -----------------------------
(* Senders and a listener with two buffers. update computes the id it gives *)
(* to assemble from an address and a port that recvfrom never fills in      *)
(* (self.addr is not set), so every datagram has the same from_addr; the    *)
(* sequence numbers keep the messages apart unless a configuration says     *)
(* otherwise.                                                               *)
EXTENDS LcmListen

Msg(seq, channel, msg_len, body) ==
  [from_addr |-> "same id", msg_seq |-> seq, channel |-> channel,
   channel_len |-> 1, msg_len |-> msg_len, body |-> body]

None == {}
ChannelA == {"a"}
ChannelB == {"b"}
ChannelsAB == {"a", "b"}

\* Two messages of two fragments, and a short one that needs no buffer.
TwoMessages == {Msg(1, "a", 5, "m1"), Msg(2, "b", 6, "m2"), Msg(1, "a", 2, "short")}

\* Two long messages that compete for two buffers with one whose decoder is
\* given numbers, and a short one that is decoded well.
Doubled == Msg(1, "b", 5, "m1")
MixedMessages ==
  {Doubled, Msg(2, "b", 6, "m2"), Msg(3, "a", 5, "decoded"), Msg(1, "a", 2, "short")}

\* The network doubles the datagrams of one of them.
MixedCopies == [m \in MixedMessages |-> IF m = Doubled THEN 2 ELSE 1]

\* Two senders that both announce their first message (cnt of racecar.lua:99
\* counts the entries of the sender's own log).
SameSeq == {Msg(1, "a", 5, "m1"), Msg(1, "b", 5, "m2")}

TwoCopies == [m \in TwoMessages |-> 1]
SameSeqCopies == [m \in SameSeq |-> 1]
=============================================================================
