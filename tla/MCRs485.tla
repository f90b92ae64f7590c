------------------------------ MODULE MCRs485 -------------------------------
(***************************************************************************)
(* A buffer of two entries behind an index of four values, so that a       *)
(* packet can fill the buffer and the indices wrap.                        *)
(***************************************************************************)
EXTENDS Rs485

CONSTANTS MaxAccepted, MaxHeard   \* bounds of the histories

Bounded == Len(accepted') <= MaxAccepted /\ Len(heard') <= MaxHeard

MCSpec == Init /\ [][Next /\ Bounded]_vars /\ Fairness
=============================================================================
