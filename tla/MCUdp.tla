------------------------------- MODULE MCUdp --------------------------------
(***************************************************************************)
(* Two senders, as the two camera programs, in one receiving process.  The *)
(* bodies have two bytes; the messages have one, two and three datagrams.  *)
(***************************************************************************)
EXTENDS Udp

CONSTANTS MaxGot, MaxLog, MaxNet,    \* bounds of the histories and of the network
          s0, s1, p0, p1, one, two, three, multiple

Senders == {s0, s1}
Ports == {p0, p1}
Cameras == [s \in Senders |-> IF s = s0 THEN p0 ELSE p1]
Messages == {one, two, three}
Sizes == [m \in Messages |-> CASE m = one -> 1 [] m = two -> 3 [] m = three -> 5]
MultipleMessages == {one, multiple}
MultipleSizes == [m \in MultipleMessages |-> IF m = one THEN 1 ELSE 4]

Bounded ==
  /\ \A u \in Uuid, i \in Order : got'[u][i] <= MaxGot
  /\ Len(log'[p0]) + Len(log'[p1]) <= MaxLog
  /\ Cardinality(net') <= MaxNet

MCSpec == Init /\ [][Next /\ Bounded]_vars
=============================================================================
