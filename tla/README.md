# TLA+ models of tri-robot

tri-robot is the code of the THOR humanoid robots and of a model race car: Lua
programs on LuaJIT that run beside each other as processes, share memory segments
and talk through sockets, with C and C++ modules below them.  This directory holds
specifications of the parts in which the program's own logic is about *order*: what
comes first, what is lost, what two actors do to the same state.  They are checked
with TLC on small instances, and all the safety properties of the passing runs are
proved with TLAPS for every value of the constants.

## 1. Inventory

| Part | State it keeps | Operations | Talks to |
|---|---|---|---|
| LCM packets, `Modules/luajit-lcm_packet/lcm_packet.lua` | four fragment buffers (key, data, received ids, count, time of the last packet) | `fragment`, `assemble` (short and long packets) | called by the announcer and the listener |
| LCM listener and announcer, `Modules/luajit-lcm/lcm.lua`, `Modules/luajit-racecar/racecar.lua` | callbacks and decoders by channel, `lib.running`, jitter tables | `announce`, `register`, `update`, `listen`, `play` | multicast socket, logger |
| FSM engine, `Util/fsm.lua`, `Util/fsm_helper.lua`, `Util/simple_ipc.lua` | current and next state, events of the turn, inbox | `set_transition`, `add_event`, `update`, `send`, `receive` | every robot FSM |
| State wizard, `Run/state_wizard.lua` with the Game, Body, Motion, Head and Arm FSMs in `Player/` | a coroutine per FSM, the states' locals, `gcm` and `mcm` in shared memory | one `update` of each FSM per cycle | channels `GameFSM!`, `BodyFSM!`, `MotionFSM!`, shared memory |
| GameController listener, `Run/gc_wizard.lua` | last position of the arms, time of the last switch and packet | `wait_for_gc`, `process_arm_switch`, `process_packet` | referee (UDP), `GameFSM!`, `gcm` |
| UDP messages, `Modules/udp/lua_udp.cpp` | one static table of parts by uuid for all sockets of a process, a queue per socket | `send_all`, `send`, `size`, `receive` | network, camera and coach programs |
| Dynamixel gateway: serial ports, `Tools/Firmware/DynamixelGateway/Atmel/rs485.c`, `uart0.c`, `CBUF.h` | two circular buffers per port, interrupt enables, the direction of the bus driver | `putchar`, `getchar`, three interrupt handlers | main loop, servo bus, host line |
| Dynamixel gateway: main loop, `Atmel/main.c`, and host library, `Host/DynamixelGateway.cc` | control table (mode, state, current servo, id map, positions), packets received in part, timer; the host's pending request | query, sync-write, forward, timeout; `SetMode`, `SetIDs`, `SyncWrite`, reads | servos, host program |
| VESC driver, `Modules/luajit-vesc`, `luajit-racecar/run_vesc.lua` | commands to send, the parser's partial packet | command encoders, parser coroutine, control loop | listener, serial port |
| Logger, `Modules/luajit-logger/logger.lua` | file, entry count, last count | `write`, `write_raw`, `playback`, merge of several logs | announcer, tools |
| Coroutine FSM, `Modules/lua-cofsm/cofsm.lua` | states, transitions, callbacks, current coroutine | `enter`, `dispatch`, `update`, `exit` | race car programs |
| Shared memory and other sockets, `Memory/`, `Modules/shm`, `luajit-skt`, `tcp` | named segments; sockets | get and set; send and receive | everything |
| Dynamixel packets, drivers, other firmware | register caches, receive buffers | packet building and parsing | hardware |
| World, vision, localisation, walking, arm planning | images, particles, trajectories | numerical computation | Body, Head and Motion FSMs through shared memory |
| Vendored code, Webots, tools | | | |

What is hard in them, and what has to hold:

* **Packets.**  Datagrams are lost, duplicated and reordered; the pool of buffers is
  small and buffers are taken away from messages under way; sizes are computed with
  headers and a name that shares the first fragment.  What is handed over must be a
  message somebody sent, whole; no two buffers may work on one message; a message
  may lose its buffer only to fresher ones; every length a program may send must be
  cut into fragments the receiver lets through.
* **Listening.**  Several senders share one socket; what `assemble` returns for an
  incomplete message is not a message, but a number.  What a handler takes for a
  message must be one, and a number must not stop the listener.
* **State machines.**  Five FSMs take turns and tell each other what to do by events
  (delivered later, dropped when the state has no transition for them, at most one
  per turn used) and by flags in shared memory (seen at once, and written by both
  sides); a second process writes the same memory.  Requests must not be lost, must
  not outlive their reason, and the end of the game must reach everybody.
* **UDP messages.**  Datagrams are lost, repeated and reordered; parts of a message
  that was never complete stay in the table; uuids come from an unseeded `rand()`,
  so two processes, or one before and after a restart, use the same ones.  A message
  must arrive whole and as often as its parts allow, and the newest are kept.
* **Serial port.**  The main program and three interrupt handlers share buffers and
  the direction of the bus without a lock.  Bytes must keep their order, the driver
  must be on while a byte goes out and off when none does.
* **Gateway.**  A servo may answer late, in part, with an error or not at all while
  the host changes the mode or the id map, and no answer has a number.  No two may
  talk on the bus at once, a good answer must be stored where it belongs, and a
  confirmed mode must be the mode.
* **Drivers, logs and coroutine FSMs.**  Parsers resumed in the middle of a packet,
  commands that nobody renews, entries merged by time, callbacks of transitions.

`PROJECT.json` lists each hazard at its line, with the properties about it.

## 2. Modules

| Module | Models | How state and actions correspond |
|---|---|---|
| `LcmPacket` | the data of `lcm_packet.lua` | `Fragments(m)` is what `frag3` writes, one record per packet; `HeaderError` and `BadName` are the checks at the head of `assemble3` |
| `LcmFragment` | `lib.fragment` as the loop it is | one `NextFragment` per turn of the loop, the offset and the fragment number as in the code |
| `LcmAssembler` | `assemble3` with its pool | `fragment_buffers` is the table of the code in its order; `Find`, `Create` and `Evict` are the three ways to a buffer, `Refuse` every early return; `ret` is what the call returns; `behind` is history |
| `LcmChannel` | what a channel does for its listeners | a message is handled only after it was announced, and is the message; a handler without a decoder is also run with numbers, on channels with messages in fragments |
| `LcmListen` | senders, network, listener | `Announce` is one call of `announce`; the network keeps, per datagram, how often it will still arrive; `Update` is one turn of `lib.listen`, with the whole of `lcm.update` and the assembler's step |
| `Fsm` | `fsm.lua`, `fsm_helper.lua` and the channel | `Target` picks the event that fires, `Received` is a non-blocking receive |
| `StateWizard` | Game, Body and Motion FSMs | variables are the `currentState` of each, the inboxes and the words of `gcm` and `mcm` they use; one action per state of a FSM is one `update` of that FSM in that state, with the exit and the entry it leads to |
| `Kick` | what the Body and the Motion FSM promise each other about a kick | begun, asked for, made and answered in this order, or asked for and forgotten; a request that is forgotten is never repeated |
| `Robot` | `StateWizard` with `gc_wizard.lua` and the referee | `NoticeArms` and `SetRole` are the two halves of `process_arm_switch`, because the Game FSM can run between the event and the role; `ProcessPacket` is one packet |
| `Cbuf` | `CBUF.h` | operators on one buffer; the two stores of `CBUF_Push` are also operators of their own |
| `Rs485` | `rs485.c` and the way `main.c` sends a packet | each half of `CBUF_Push` in `putchar`, the read and the fetch of `getchar`, and each interrupt handler is an action; `Load` and `ShiftOut` are the hardware; `accepted`, `line`, `heard`, `read` and `overtaken` are history |
| `SerialLine` | what a serial port promises | bytes leave in the order they were put |
| `Udp` | `lua_udp.cpp` | `SendAll` and `Send` are one call each; a turn of `comm_update` begins with `CommUpdate`, takes datagrams one by one (`PacketRaw`, `PacketOnly`, `PacketPart`) and ends with the return of `size` or `receive`; `names`, `got`, `handed`, `log`, `last` are history |
| `Gateway` | `main.c` and `DynamixelGateway.cc` | the main loop is cut at the places where it looks at the outside: `HostChars`, `BusChar`, `RestOfTurn`; `Send`, `ReceivePacket` and `NoResponse` are the library; `Respond`, `Lose`, `Tick` are servos and time |
| `LcmFragmentProofs`, `LcmAssemblerProofs`, `LcmListenProofs`, `RobotProofs`, `CbufProofs`, `Rs485Proofs`, `UdpProofs`, `GatewayProofs` | theorems about the module of the name | |
| `MCLcmFragment`, `MCLcmAssembler`, `MCLcmListen`, `MCRobot`, `MCRs485`, `MCUdp`, `MCGateway` | constants for TLC | |

`LcmAssembler` uses the packets of `LcmPacket`; `LcmListen` composes the assembler
with senders and a network and implements `LcmChannel`; `Robot` composes the process
of `StateWizard`, whose FSMs run on `Fsm`, with a second one, and implements `Kick`; `Rs485` is built on
`Cbuf` and implements `SerialLine`; `Gateway` stands on what `Rs485` shows, and
takes its chunks of bytes to come in order.

Abstractions worth knowing:

* A payload is an array whose bytes name the message they belong to and their place
  in it, so any mixture of two messages shows; header encoding and byte order are
  left out.
* An update of an FSM is one step.  All FSMs are coroutines of one process, so only
  `gc_wizard` can run in between, and it touches one word of `gcm` or one inbox per
  step.  In `ProcessPacket` the word and the event are written in one step; the Game
  FSM reads only the event, and Body only the word, once per turn.
* What a state sees of the world (the ball, its pose, the phase of the gait, the
  roll of the body) is a free choice among the events it can return then.  Only the
  *crossing* of the phase that Follow and Approach wait for is kept (`ph`,
  `last_ph`), because it happens only while Motion makes steps.
* The configuration is THOROP0: walk-kicks on, kick not disabled, spin detection on,
  no goalie spread, no automatic init.  What is shown of the robot holds for it; one with
  goalie spread or automatic init, as `Config_THOROP1.lua`, is outside.  Transitions for `bias`, `uninit` and step
  preview are omitted: no program that takes part in a game sends these events.

* In `Rs485` a main-program step is one C statement on one shared object.  The buffers
  are volatile (`rs485.c:18-27`), so both stores of `CBUF_Push` are made, but they are in
  one assignment, within which C does not sequence them: which comes first is the
  compiler's choice.  The model takes the entry first, so `SentInOrder` and
  `ImplementsLine` hold for that order only; the mutant of `SentInOrder` is the other
  choice, and it breaks.  `BusSendPacket` starts with an empty buffer and a packet that
  fits it, as in the modes other than manual.  Nothing is assumed of how fast handlers,
  program and line are; `overtaken` says of the byte stored last that the TX handler of
  the byte before it was still pending.
* In `Udp` a uuid is its number in the sequence of `rand()`.  Nothing is said of a
  message whose uuid another message has used (`names`): their parts do mix.
* In `Gateway` a packet of the host arrives whole or not at all, and its timeout is
  not modelled; an answer of a servo is two chunks, all but its last byte, and that
  byte.  A turn of the loop takes microseconds and a chunk milliseconds, so the
  outside moves between two turns only, and the loop has read a chunk before the next
  is there.  In manual mode the forwarded packet and its status answer are modelled,
  their bytes are not.  The analog inputs and the button are left out.

## 3. Runs

| Run | What it asks | Bounds |
|---|---|---|
| `fragment` | every fragment fits the publish buffer, the fragments are the message cut into pieces, every long message outside a band of lengths passes the receiver's checks, and none inside the band does | the real sizes, message lengths at and around every boundary: the short limit, one to three fragments, the exact multiples |
| `assembler` | only whole messages are handed over; one buffer per key; buffers are coherent; a buffer is lost only to fresher messages | three buffers, five messages with up to three fragments, any packet at any time, as often as the network likes |
| `listen` | handlers are run with announced messages, whole, on their channel, and those without a decoder also with the number of missing fragments; the listener implements `LcmChannel`; a wanted message no datagram of which is lost reaches its handler unless more messages were announced than there are buffers | two buffers, three long messages (one of a decoded channel) and a short one, the datagrams of one of them doubled |
| `listen_decoder` (violated) | the listener survives a message in fragments: the decoder of `lib.listen` gets the number of missing ones | |
| `listen_same_seq` (violated) | two senders with the same sequence number do not disturb each other: they share a buffer | |
| `robot` | a kick is asked for and made only while Body waits for it and the answer finds it; Body plays only on a robot that stands; a robot that walks says so; the kick, read off `motion`, `body`, `steprequest` and `kickphase` (`Stage`), implements `Kick` | all positions of the arms, every kind of kick, one undelivered event for Game; every order of the three FSMs |
| `robot_live` | a robot told to stand up does; a kick ends unless Motion has forgotten a request; after the end of the game the Game FSM rests in a stopped state, `gcm` agrees, and the robot no longer follows the ball | an attacker whose arms stay lowered, both kinds of kick |
| `robot_stop` (violated) | arms put to stop hold a stopped robot: when they are moved during play the role is not written, and the next packet starts the robot again | an attacker or a stopped robot, walk-kicks |
| `rs485` | bytes leave and arrive in order; the bus driver is on while a byte is in the transmitter, with one exception (section 5), and off when none is; the port implements `SerialLine`, with its liveness | two entries behind an index of four values, packets that fill the buffer, five bytes out and three in |
| `udp` | messages arrive whole; as often as their datagrams did; the newest are kept | two senders that restart, two sockets, messages of one to three datagrams, a queue of one, one uuid for all, so that different messages meet under it |
| `udp_multiple` (violated) | nothing of a message is cut off: its last datagram is empty when its size is a multiple of the body length | messages of one datagram and of exactly two |
| `gateway` | one query at a time, as long as the gateway has not been in manual mode; no good answer is lost; a confirmed mode is the mode, as long as no packet was refused | two servos, two id maps (one that begins with an unused entry), modes `manual`, `readwrite` and the initial `read` |

The bounds are the smallest at which the interesting cases occur.  Eviction by age
needs a full pool and a newcomer, so three buffers and five messages leave two
generations of evictions; a stale `received` entry needs a message with a fragment
in the middle, so three fragments.  The event queue of Game is bounded by one
message (`MaxGameEvents`) because the Game FSM reads one event in each of its turns
and packets come a hundred times slower than turns do; the other inboxes are
bounded by the protocol itself, except for the Head FSM, which sends `spin` only
into an empty inbox in the model.  `Lag = 1` says that a message has arrived when
its reader looks.  With `Lag = 2` (a message may be on its way when a later turn
looks) `robot` holds too, with 12 million states instead of 4.4 million; the run
uses the smaller one, and the theorems hold for every lag.  `robot_live` keeps the
arms where they are: what moves of the arms during the game add is in `robot` and
`robot_stop`.

`MaxFragmentCount` bounds the counter that stamps the buffers of the assembler, and
`MaxCopies` says of each message how often the network doubles its datagrams.  In
`rs485`, `MaxAccepted` and `MaxHeard` bound the histories: five bytes through an
index of four values wrap it and leave one to overtake.  In `udp`, `MaxUuid` bounds the
sequence of `rand()`, `MaxGot` how often one datagram counts, `MaxLog` the messages
received and `MaxNet` the network.  In `gateway`, `MaxUnread` bounds the answers the
host leaves unread and `MaxForwarded` the packets forwarded to the bus that are not
answered; an answer takes `AnswerTime = 1` tick and the timer overflows after
`Timer1Period = 2`, the least at which a late answer and a timeout can race.

Deadlock is checked where the system goes on for ever (the robot, the assembler, the
gateway).  It is off where it stops: a fragmentation ends, a listener with no more
datagrams waits, and `rs485` and `udp` come to the bounds of their histories.

### Fairness

`listen` assumes weak fairness of `Update`: the loop of `lib.listen` polls and
reads as long as it runs, and a datagram in the socket's queue stays there.  Nothing
is assumed of senders or of the network, which may lose what it likes.

`rs485` assumes weak fairness of the UDRE and TX handlers (an enabled interrupt is
served), of the transmitter, and of the main program once it is inside `putchar` or
`getchar`, which are straight-line code.  When the program calls them is its own
choice.

`robot_live` assumes weak fairness of the state wizard (a loop that sleeps and
goes on), weak fairness of `SetRole` (the straight-line second half of a function),
strong fairness of `ProcessPacket` (the referee broadcasts without end and the
inbox of Game is empty again and again), and strong fairness of `MotionEnds`: a state
of Motion that runs a plan of finite length (standing up, the first and the last
steps of a walk, a kick) comes to its end, and a walk comes to the end of a step,
where it looks at the requests.  Nothing is assumed of the ball, the arms, the roll of
the body or the referee: `FinishStopsGame` and `FollowEnds` are about runs in which
the game does end.

`gateway` and `udp` state no liveness: the gateway polls for ever and promises nothing
of a bus on which answers may be lost, and a datagram once sent may never arrive.

## 4. Proofs

Each proof module shows `Init => IInv`, `IInv /\ [Next]_vars => IInv'` with a lemma
per action, and then the properties from `IInv`.  The only assumptions are the named
`ASSUME`s on the constants, which TLC evaluates in the runs.

* **`LcmFragmentProofs`**: `TypeOK`, `FitsPublishBuffer`, `CutsWholeMessage`,
  `LongFragmentsAccepted`, `BandRefused`, for every size of the buffer, limit and
  message length.  Invariant: after `i` turns of the loop the packets are the first
  `i` of `Fragment(m, k, k * max)` and the offset is `i * max` or, after the last,
  the length (`Built`).  The rest is arithmetic of rounded-up quotients.
* **`LcmAssemblerProofs`**: `TypeCorrect`, the pool never exceeds its size;
  `OneBuffer`, no two buffers have the same key, also when senders share keys;
  `WholeMessagesOnly`, when every key belongs to one message (`UniqueKeys`), every
  buffer is coherent and every message handed over is whole.  `Intact` is not
  inductive: what is returned is right because the buffer it comes from is.  The
  strengthening is `Coherent`: in every buffer, the bytes of each received fragment
  are those of the one message that has this key, and the number still missing is the
  number of ids not received.  It is preserved by `Find` because a fragment of that
  key is a fragment of that message, by `Create` and `Evict` because a new buffer has
  received nothing; with none missing the fragments cover the whole length.
  `UniqueKeys` is what `listen_same_seq` shows to fail in the program as it is: the
  theorem says what the reassembly promises to a caller that keeps senders apart.
  Who loses a buffer (`EvictsStalest`, the action property `LosesBufferOnlyToFresher`)
  needs no unique keys.  `Staleness` is its invariant: of two buffers, the one that is not
  stamped later has the key of the other among those accepted since its own last packet
  (`behind`).  An accepted packet gets the latest stamp of all and enters `behind` of every
  other key; the victim has the least stamp of the unfinished ones (`VictimIsStalest`).
* **`LcmListenProofs`**: `ListenTypeOK`; under `UniqueKeys`, `CallsIntact`; with no two
  messages equal in channel and bytes besides, `ListenSpec => ImplementsChannel`, the refinement in
  full (its abstract specification has no fairness).  The strengthening says that every
  datagram in the network belongs to an announced message and adds the assembler's
  `Shape` and `Coherent`; what the assembler hands over is then a whole message, by the
  lemmas of `LcmAssemblerProofs`, and the one whose datagram completed it.  For the
  numbers it adds that a buffer has no name yet or the channel of an announced message
  (`ChannelsAnnounced`); that they are smaller than the count of fragments is
  `Coherent` with one fragment received.
* **`RobotProofs`**: `TypeOK`, `KickHandshake`, `StandsBeforePlaying`, `WalkIsReported`,
  for every lag, inbox bound, set of arm positions and of kicks.  The invariants are
  inductive together with two more: `Stood` (`mcm.status.body_init` is set only when
  Motion has left its initialisation) and `Typed`, which adds to the types what each
  inbox can hold.  Of those events none leads the Body FSM out of `bodyRobocupKick`:
  only its own `done` does, and it says that the kick is over.  Which transitions there
  are is read off the tables row by row.  With the invariant goes the refinement
  `KicksInStages` (`Spec => ImplementsKick`, in full): the lemma of each action also
  shows that the step is one of `Kick` or leaves `Stage` alone (`Advances`).  The Body FSM
  makes the steps `Begin`, `Ask` and `End`, the Motion FSM `Make`, `Answer` and
  `Forget`; the handshake says of each in which stage it finds the kick.
* **`CbufProofs`**, **`Rs485Proofs`**: for every alphabet, buffer size, packet length and
  width of the indices, `TypeOK`, `SentInOrder`, `ReadInOrder`, `DriverHeld`,
  `DriverReleased`, and that every step of the port is a step of `SerialLine` or none.
  Invariant (`Holds`): the k-th byte given to the port is in slot `(k - 1) % CbufSize` as
  long as it has not been taken, and the indices are the two counts modulo
  `IndexSize`.  `CBUF_Len` is then the difference of the counts (`LenCounts`), also past a
  wrap, because the width of the index is a multiple of the size of the buffer and more
  than it.  The driver (`Held`): while TX is pending nothing is in the transmitter, or what
  is there was stored after TX became pending (`DriverInv`).
* **`UdpProofs`**: `TypeOK`, `DeliveredWhole`, `ArrivesAsOftenAsItsParts`, `NewestKept`,
  for every set of senders and sockets, every size and every network.  Invariant: every
  datagram in the network and every part in the table was cut from a message sent under
  its uuid, at the place its number says; the number of messages made of a uuid and what
  is in its table account for the datagrams taken (`CountInv`); every message in the log
  is whole.  That the exception `DeliveredWhole` makes is exact is a theorem of its own
  (`Limits`): a message whose size is a multiple of the body length, or takes more than
  `CountSize - 1` datagrams, never arrives whole (`udp_multiple` shows one such message).
* **`GatewayProofs`**: `TypeOK`, `OneQueryAtATime`, `ConfirmedModeHolds` (with the
  exceptions each states: after manual mode, after a refusal) and `AnswersKept`, for every
  number of servos, set of maps and modes, and every period of the timer longer than an
  answer takes.  One query at a time: the timer is never ahead of the age of the answer
  under way, and a query is sent with the timer at zero (`Bus`).  Confirmation: a request
  is under way or its answer is, never two (`Handshake`).  Answers kept: an answer that
  was asked for with nothing else on the bus is the first on its way, timer 1 is not ahead
  of its age, and what the loop has received is the beginning of it and nothing else
  (`CleanAnswers`); so when its last byte comes, the loop awaits it and finds the rest
  there.

Left to TLC is liveness: `EventuallyHandled`, `FinishStopsGame`, `FollowEnds`, `StandsUp`,
`KickEnds` and the fair part of `ImplementsLine`, because the prover has no ENABLED.  No
module declares a recursive operator.

## 5. What the runs disagree with

Four runs end in a counterexample on purpose; `findings` in `PROJECT.json` quote the
line each contradicts: the decoder that is given a number, the senders that share a
buffer, the stop that does not hold, and the multiple of the body length that is cut.

`BandRefused` passes, and says something about the program all the same: messages of
1135 to 1414 bytes have a first fragment the receiver always refuses, because the short
limit reserves 300 bytes for the header and the name (`lcm_packet.lua:35`) while the
check at `:130` counts the name as payload.

Seen while reading and modelling, without a run of its own:

* LCM: a handler without a decoder is run with the number of missing fragments of every
  incomplete message (`lcm.lua:53-57`), and when fragment 0 has not come yet, on the
  channel of the message that had the buffer before (nothing resets `fbuf.channel`,
  `lcm_packet.lua:173-180`): `b` is called with the number of a message of `a`.
  A duplicate that arrives after its finished buffer was reused opens a new one
  (`lcm_packet.lua:145` says it should not).
* Robot: a stop asked for while Motion is between `hybridwalk` and its first step is
  erased by the entry of the walk; a kick asked for just before an emergency stop is
  erased and `bodyRobocupKick` waits for ever (`KickEnds` makes an exception of these,
  and shows there is no other way); Approach looks at the game no more; the value
  `gamePlaying.entry` returns is dropped by `fsm.lua`.
* Serial port: when `rs485_putchar` enables the UDRE interrupt just before the byte
  before ends, both UDRE and TX are pending.  UDRE is served first and moves the new byte
  to the register; TX then finds the buffer empty and turns the driver off under it
  (`rs485.c:51-59`).  The byte goes out to a bus nobody drives.  `DriverHeld` excepts
  exactly the bytes that were stored so, and shows that there is no other way.
* Gateway: a byte from the host clears the timeout of the bus, not its own
  (`main.c:475`).  `TCNT1` is not reset when a query is sent, so the first query after
  manual mode may time out at once.  `main.c:578` compares the index of an entry, not
  its id, with `SKIP_ID`, so unused entries are queried although `ControlTable.h:19` says
  they are not.  `SyncWrite` (`main.c:331`) skips an unused entry without advancing its
  pointers, so nothing after the first unused entry is written, against
  `main.c:330` ("see if we are skipping this id").  The status answer to a
  packet forwarded in manual mode can be stored as a position.  The refusal of a
  `SyncWrite` that nobody reads shifts every later answer by one.  A forwarded packet has
  up to 250 bytes and the buffer of the port 128.
* Logger: the mapped playback reads the first entry's bytes for every entry.

## 6. Plan and what is not modelled

Done: packets, fragmentation, assembler and listener; FSM engine, state wizard and
robot; UDP messages; the gateway's serial port, main loop and host library; proofs of
each of them.

Next, in this order:

1. `Vesc`: the resumable parser of `vesc.lua` against a reference parse of the same
   bytes (every chunking gives the same packets), and the loop of `run_vesc.lua`.
2. `Logger`: merge of logs by time and the count discipline of `write` and `write_raw`.
3. `Cofsm`: dispatch, callbacks and coroutines, against a plain transition system.
4. Shutdown of the race car programs (signals between the steps of the loop).

Not modelled, and why.  By far the most of the repository's lines are vendored
libraries (OpenCL headers, zlib, MessagePack, the B-Human gait, the Robotis framework
with three copies of an HTTP streamer), generated wrappers, Webots worlds, MATLAB and
browser tools.  Of the repository's own code most is numerical (gait, kinematics, vision,
localisation, planners) or a thin wrapper of a device or a system call: real-valued
computation on which TLC has nothing to enumerate, and whose control is a loop.  The
models cover the parts in which several actors share state; their share of all lines
is therefore small, and cannot come near a third without modelling code that is not
the project's own.
Shared memory is taken as atomic by the word.  `uart0.c` is `rs485.c` without the
direction of the driver.  Other sets of FSM states (DRC, Steve) are other tables for the
same engine.
