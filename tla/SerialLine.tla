----------------------------- MODULE SerialLine -----------------------------
(***************************************************************************)
(* What a serial port promises to the program that uses it: the bytes it   *)
(* was given leave one after the other, none lost, repeated or overtaken.  *)
(***************************************************************************)
EXTENDS Sequences

CONSTANT Byte

VARIABLES
  queue,   \* bytes given to the port that have not left
  line     \* bytes that have left

vars == <<queue, line>>

Init == queue = <<>> /\ line = <<>>

Put(b) ==
  /\ queue' = Append(queue, b)
  /\ UNCHANGED line

Leave ==
  /\ queue # <<>>
  /\ line' = Append(line, Head(queue))
  /\ queue' = Tail(queue)

Next == (\E b \in Byte : Put(b)) \/ Leave

Spec == Init /\ [][Next]_vars

FairSpec == Spec /\ WF_vars(Leave)
=============================================================================
