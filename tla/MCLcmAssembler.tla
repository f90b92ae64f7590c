--------------------------- MODULE MCLcmAssembler ----------------------------
(* Datagrams of 25 bytes: three data bytes a fragment under a one letter    *)
(* channel. Two messages can be received, one is in the band of lengths     *)
(* whose fragment 0 is refused, one has a channel name that is too long and *)
(* one has too many fragments.                                              *)
EXTENDS LcmAssembler

Msg(seq, channel, channel_len, msg_len, body) ==
  [from_addr |-> "addr", msg_seq |-> seq, channel |-> channel,
   channel_len |-> channel_len, msg_len |-> msg_len, body |-> body]

MCMessages ==
  {Msg(1, "a", 1, 5, "m1"), Msg(2, "b", 1, 7, "m2"),
   Msg(3, "c", 1, 4, "band"), Msg(4, "dd", 2, 5, "long name"),
   Msg(5, "e", 1, 10, "too long")}
=============================================================================
