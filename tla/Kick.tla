-------------------------------- MODULE Kick --------------------------------
(***************************************************************************)
(* What the Body and the Motion FSM promise each other about a kick: it is *)
(* begun, asked for once, made once, answered, and only then does the Body *)
(* FSM go on.  A request may also be forgotten by Motion, which settles    *)
(* into a stance or walks on; the Body FSM then waits for good.            *)
(***************************************************************************)
VARIABLE stage   \* how far the kick is

Go(from, to) == stage = from /\ stage' = to

Begin == Go("none", "begun")

Ask == Go("begun", "asked")

Make == Go("asked", "making")

Answer == Go("making", "made")

End == Go("made", "none")

Forget == Go("asked", "forgotten")

Init == stage = "none"

Next == Begin \/ Ask \/ Make \/ Answer \/ End \/ Forget

Spec == Init /\ [][Next]_stage
=============================================================================
