--------------------------------- MODULE Fsm ---------------------------------
(***************************************************************************)
(* The state machine engine every robot FSM runs on (Util/fsm.lua), and    *)
(* the channel its events come through (Util/fsm_helper.lua with a ZeroMQ  *)
(* PUB/SUB socket of Util/simple_ipc.lua).                                 *)
(***************************************************************************)
EXTENDS Sequences, Naturals

CONSTANT
  Lag   \* this many messages in an inbox have surely arrived, fewer may be on their way

ASSUME LagAssumption == Lag \in Nat \ {0}

\* Neither an event nor a state.
None == ""

\* The transitions table built from the rows {from, event, to} of Config.fsm.
Table(rows) ==
  [p \in {<<r[1], r[2]>> : r \in rows} |-> (CHOOSE r \in rows : <<r[1], r[2]>> = p)[3]]

\* What update makes of the events of one turn, the received one and then the
\* one the state returned: the first that has a transition wins, and the others
\* are dropped whether they had one or not.
Target(transitions, state, events) ==
  LET firing == {i \in DOMAIN events : <<state, events[i]>> \in DOMAIN transitions}
  IN  IF firing = {} THEN None
      ELSE transitions[<<state, events[CHOOSE i \in firing : \A j \in firing : i <= j]>>]

\* What one non-blocking receive can return, with the inbox it leaves: the
\* oldest message, or nothing when that message has not arrived yet.
Received(inbox) ==
  (IF inbox # <<>> THEN {[event |-> Head(inbox), rest |-> Tail(inbox)]} ELSE {})
    \cup (IF Len(inbox) < Lag THEN {[event |-> None, rest |-> inbox]} ELSE {})

=============================================================================
