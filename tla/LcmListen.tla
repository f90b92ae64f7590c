------------------------------ MODULE LcmListen ------------------------------
(***************************************************************************)
(* Programs that announce messages on a multicast socket (lib.announce of  *)
(* Modules/luajit-racecar/racecar.lua), the network, and a program that    *)
(* listens to it (lib.listen, with update of Modules/luajit-lcm/lcm.lua):  *)
(* each turn of the loop reads one datagram, assembles it and runs the     *)
(* handler of its channel.                                                 *)
(***************************************************************************)
EXTENDS LcmAssembler

CONSTANTS
  Decoded,     \* channels registered with a decoder, as lib.listen does
  Plain,       \* channels registered without one, as lcm.init does
  MaxCopies    \* times the network may deliver one datagram of a message

\* register takes a string for a channel: what has no name yet has no handler.
ASSUME ListenAssumption ==
  /\ Decoded \cap Plain = {}
  /\ NoName \notin Decoded \cup Plain
  /\ MaxCopies \in [Messages -> Nat]

VARIABLES
  announced,   \* the messages announced so far
  network,     \* for each datagram, how often it will still arrive
  listener,    \* "running", or "dead" after an error nobody catches
  calls,       \* history: what the handlers were run with
  lost         \* history: messages a datagram of which never arrives

listenVars == <<vars, announced, network, listener, calls, lost>>

\* The single datagram of a short message (frag2).
ShortDatagram(m) == [from_addr |-> m.from_addr, msg_seq |-> m.msg_seq,
                     channel |-> m.channel, msg_size |-> m.msg_len, body |-> m.body]

ShortMessages == Messages \ LongMessages

ShortDatagrams == {ShortDatagram(m) : m \in ShortMessages}

DatagramsOf(m) == IF Short(m.msg_len) THEN {ShortDatagram(m)} ELSE Fragments(m)

Datagrams == ShortDatagrams \cup Packets

-----------------------------------------------------------------------------
(* Announcing *)

\* send_all hands every datagram to the socket; the network loses and
\* duplicates them independently.
Announce(m) ==
  /\ m \notin announced
  /\ announced' = announced \cup {m}
  /\ \E copies \in [DatagramsOf(m) -> 0 .. MaxCopies[m]] :
       /\ network' = [d \in Datagrams |->
                        IF d \in DatagramsOf(m) THEN network[d] + copies[d] ELSE network[d]]
       /\ lost' = IF \E d \in DatagramsOf(m) : copies[d] = 0 THEN lost \cup {m} ELSE lost
  /\ UNCHANGED <<vars, listener, calls>>

-----------------------------------------------------------------------------
(* Listening *)

\* The rest of update after assemble returned r. Whatever is not nil counts as
\* data: the number of fragments that are missing does, and so does the text of
\* an error, but that comes without a channel. A decoder refuses a number; a
\* handler without one is run with it.
Dispatch(r) ==
  \/ /\ r.kind = "partial" /\ r.channel \in Decoded
     /\ listener' = "dead"
     /\ UNCHANGED calls
  \/ /\ \/ r.kind = "message" /\ r.channel \in Decoded \cup Plain
        \/ r.kind = "partial" /\ r.channel \in Plain
     /\ calls' = calls \cup {r}
     /\ UNCHANGED listener
  \/ /\ r.kind = "error" \/ r.channel \notin Decoded \cup Plain
     /\ UNCHANGED <<listener, calls>>

\* Mutant: a datagram is read that is not there.
ReceiveMutant(d) ==
  /\ listener = "running"
  /\ \E m \in announced : d \in DatagramsOf(m)
  /\ network' = [network EXCEPT ![d] = @ - 1]
  /\ UNCHANGED <<announced, lost>>

Receive(d) ==
  /\ listener = "running"
  /\ network[d] > 0
  /\ network' = [network EXCEPT ![d] = @ - 1]
  /\ UNCHANGED <<announced, lost>>

\* assemble2: a short message is handed over at once.
UpdateShort(d) ==
  /\ Receive(d)
  /\ Dispatch([kind |-> "message", channel |-> d.channel,
               data |-> [i \in 0 .. d.msg_size - 1 |-> d.body]])
  /\ UNCHANGED vars

UpdateLong(p) ==
  /\ Receive(p)
  /\ Assemble3(p)
  /\ Dispatch(ret')

ListenInit ==
  /\ Init
  /\ announced = {}
  /\ network = [d \in Datagrams |-> 0]
  /\ listener = "running"
  /\ calls = {}
  /\ lost = {}

Update ==
  \/ \E d \in ShortDatagrams : UpdateShort(d)
  \/ \E p \in Packets : UpdateLong(p)

ListenNext == (\E m \in Messages : Announce(m)) \/ Update

ListenSpec == ListenInit /\ [][ListenNext]_listenVars

\* The loop polls and reads as long as it runs: a datagram that the network
\* brings is read some time.
FairListenSpec == ListenSpec /\ WF_listenVars(Update)

-----------------------------------------------------------------------------
(* Properties *)

\* A call of a handler with message m.
IsCall(c, m) == c.kind = "message" /\ IsMessage(m, c)

\* A call of the handler of m's channel with the number of fragments that miss
\* of n. A buffer that was taken over keeps the channel it had until fragment 0
\* comes, so the two can differ.
IsCount(c, m, n) ==
  /\ c.kind = "partial"
  /\ c.channel = m.channel
  /\ c.remaining \in 0 .. fragments_in_msg(n.channel_len, n.msg_len) - 1

Handled == {m \in Messages : \E c \in calls : IsCall(c, m)}

\* No datagram arrives more often than the network copied it, and only datagrams
\* of announced messages are lost.
ListenTypeOK ==
  /\ announced \subseteq Messages
  /\ network \in [Datagrams -> Nat]
  /\ listener \in {"running", "dead"}
  /\ lost \subseteq announced

\* The message a handler was run with, or NoName when it was none.
Origin(c) ==
  IF \E m \in Messages : IsCall(c, m) THEN CHOOSE m \in Messages : IsCall(c, m)
  ELSE NoName

LongAnnounced == announced \cap LongMessages

\* A handler is run with one announced message, whole, on its own channel, or, for
\* want of a decoder, with a number smaller than the fragments of an announced
\* message, on a channel on which a message of fragments was announced, however
\* datagrams of several senders interleave on the one socket (lcm.lua:50-57 on
\* top of the buffers of lcm_packet.lua).
CallsIntact ==
  \A c \in calls :
    \/ \E m \in announced : IsCall(c, m)
    \/ c.channel \in Plain /\ \E m, n \in LongAnnounced : IsCount(c, m, n)

\* The messages the handlers were run with, and the channels whose handler was
\* run with a number: each call is one or the other.
Channel == INSTANCE LcmChannel
  WITH handled <- {Origin(c) : c \in {d \in calls : d.kind = "message"}},
       numbered <- {c.channel : c \in {d \in calls : d.kind # "message"}}

\* The listener implements the channel of LcmChannel: no handler is run with bytes
\* nobody announced, numbers go only to a handler without a decoder, on a channel
\* with a message of fragments, and an announcement is never taken back.
ImplementsChannel == Channel!Spec

\* A message the header checks let through and the listener wants.
Receivable(m) ==
  /\ m.channel \in Decoded \cup Plain
  /\ \A d \in DatagramsOf(m) : d \in Packets => ~HeaderError(d) /\ ~BadName(d)

\* More long messages were announced than there are buffers.
Crowded == Cardinality(announced \cap LongMessages) > LCM3_NUM_BUFFERS

\* A wanted message of which no datagram is lost is handled some time: with no
\* more messages under way than there are buffers, duplicates, reordering and
\* interleaving cannot starve it as long as the listener runs
\* (lcm_packet.lua:137-180).
EventuallyHandled ==
  \A m \in Messages :
    (m \in announced /\ Receivable(m))
      ~> (m \in Handled \/ m \in lost \/ Crowded \/ listener = "dead")

\* Data that is not a string is not a message yet (test_listen.lua:47), so lib.listen
\* survives the fragments of a message that is not complete yet.
ListenerSurvives == listener = "running"
=============================================================================
