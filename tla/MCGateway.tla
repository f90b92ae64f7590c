----------------------------- MODULE MCGateway ------------------------------
(***************************************************************************)
(* Two entries; in one of the maps an unused one comes first.              *)
(***************************************************************************)
EXTENDS Gateway

CONSTANTS s1, s2, skip

AllIds == {s1, s2, skip}
BothServos == [i \in {0, 1} |-> IF i = 0 THEN s1 ELSE s2]
FirstUnused == [i \in {0, 1} |-> IF i = 0 THEN skip ELSE s1]
Maps == {BothServos, FirstUnused}
=============================================================================
