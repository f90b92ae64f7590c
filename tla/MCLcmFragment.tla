---------------------------- MODULE MCLcmFragment ----------------------------
(* LcmFragment with the sizes of lcm_packet.lua and lengths around every    *)
(* boundary: the short limit, one datagram, and whole numbers of datagrams. *)
EXTENDS LcmFragment

Near(n) == n - 2 .. n + 2

MCMsgLens ==
  UNION {Near(n) : n \in {1135, 1414, 2 * 1413, 3 * 1412, 255 * 1412, 256 * 1413}}
    \cup {2, 1, 300, 1200, 1300, 2000, 300000}

MCMessages ==
  {[from_addr |-> "addr", msg_seq |-> 0, channel |-> "ch", body |-> "m",
    channel_len |-> c, msg_len |-> n] : c \in {1, 2, 200}, n \in MCMsgLens}
=============================================================================
