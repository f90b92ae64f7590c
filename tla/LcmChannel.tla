----------------------------- MODULE LcmChannel ------------------------------
(***************************************************************************)
(* What an LCM channel does for the programs that use it: a handler is run *)
(* with messages that were announced, on their channel. Messages may be    *)
(* lost, reordered or handled more than once. A handler that was           *)
(* registered without a decoder is also run with numbers, once a message   *)
(* of several fragments was announced on its channel.                      *)
(***************************************************************************)
CONSTANTS
  Messages,
  LongMessages,   \* those that are cut into fragments
  Plain           \* channels registered without a decoder

VARIABLES
  announced,   \* the messages announced so far
  handled,     \* the messages a handler has been run with
  numbered     \* the channels whose handler has been run with a number

Init == announced = {} /\ handled = {} /\ numbered = {}

Announce(m) ==
  /\ m \notin announced
  /\ announced' = announced \cup {m}
  /\ UNCHANGED <<handled, numbered>>

Handle(m) ==
  /\ m \in announced
  /\ handled' = handled \cup {m}
  /\ UNCHANGED <<announced, numbered>>

Number(m) ==
  /\ m \in announced \cap LongMessages
  /\ m.channel \in Plain
  /\ numbered' = numbered \cup {m.channel}
  /\ UNCHANGED <<announced, handled>>

Next == \E m \in Messages : Announce(m) \/ Handle(m) \/ Number(m)

Spec == Init /\ [][Next]_<<announced, handled, numbered>>
=============================================================================
