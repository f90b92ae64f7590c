---------------------------- MODULE LcmAssembler -----------------------------
(***************************************************************************)
(* The receiving half of Modules/luajit-lcm_packet/lcm_packet.lua:         *)
(* assemble3 collects the fragments of a message in one of a few buffers   *)
(* shared by the whole process. Datagrams come from the network: any       *)
(* fragment of any message, in any order, any number of times.             *)
(***************************************************************************)
EXTENDS LcmPacket, Sequences

CONSTANTS
  LCM3_NUM_BUFFERS,
  NoName,             \* the channel of a buffer that has not had fragment 0
  Zero,               \* a byte of a buffer nothing was copied to
  Junk,               \* a byte read past the end of a buffer
  MaxFragmentCount    \* bound on the fragments accepted in a behaviour

ASSUME BuffersAssumption ==
  /\ LCM3_NUM_BUFFERS \in Nat \ {0}
  /\ MaxFragmentCount \in Nat

VARIABLES
  fragment_buffers,      \* the buffers in use, in the order they were created
  last_fragment_count,   \* fragments accepted so far, the clock of the buffers
  ret,                   \* what the last call of assemble3 returned
  behind                 \* history: for each key, the keys of the fragments
                         \* accepted after the last one with this key
vars == <<fragment_buffers, last_fragment_count, ret, behind>>

\* Mutant: the sequence number is not looked at.
KeyMutant(x) == <<x.from_addr, 0>>

\* What identifies the message a header or a buffer belongs to.
Key(x) == <<x.from_addr, x.msg_seq>>

LongMessages == {m \in Messages : ~Short(m.msg_len)}

Packets == UNION {Fragments(m) : m \in LongMessages}

Keys == {Key(m) : m \in LongMessages}

Bytes == {m.body : m \in LongMessages} \cup {Zero}

Names == {m.channel : m \in LongMessages} \cup {NoName}

-----------------------------------------------------------------------------
(* The buffers *)

\* Mutant: finished buffers are not searched.
SearchMutant(p) ==
  {i \in DOMAIN fragment_buffers :
     /\ Key(fragment_buffers[i]) = Key(p)
     /\ fragment_buffers[i].fragments_remaining # 0}

\* The buffers that have the key of p.
Search(p) == {i \in DOMAIN fragment_buffers : Key(fragment_buffers[i]) = Key(p)}

FirstOf(S) == CHOOSE i \in S : \A j \in S : i <= j

Finished == {i \in DOMAIN fragment_buffers : fragment_buffers[i].fragments_remaining = 0}

Age(i) == last_fragment_count - fragment_buffers[i].last_fragment_count

\* Mutant: the youngest buffers.
OldestMutant == {i \in DOMAIN fragment_buffers :
                   \A j \in DOMAIN fragment_buffers : Age(i) <= Age(j)}

Oldest == {i \in DOMAIN fragment_buffers :
             \A j \in DOMAIN fragment_buffers : Age(j) <= Age(i)}

\* The buffer taken for a new message when all are in use.
Victim == IF Finished # {} THEN FirstOf(Finished) ELSE FirstOf(Oldest)

\* Mutant: the fragment at hand is counted as received.
NewBufferMutant(p, channel) ==
  [from_addr           |-> p.from_addr,
   msg_seq             |-> p.msg_seq,
   buf                 |-> [i \in 0 .. p.msg_size - 1 |-> Zero],
   frag_received       |-> {},
   fragments_remaining |-> p.fragments_in_msg - 1,
   last_fragment_count |-> last_fragment_count,
   channel             |-> channel]

\* A buffer initialised for the message of p. A buffer that is taken over keeps
\* the channel it had: nothing resets it.
NewBuffer(p, channel) ==
  [from_addr           |-> p.from_addr,
   msg_seq             |-> p.msg_seq,
   buf                 |-> [i \in 0 .. p.msg_size - 1 |-> Zero],
   frag_received       |-> {},
   fragments_remaining |-> p.fragments_in_msg,
   last_fragment_count |-> last_fragment_count,
   channel             |-> channel]

Covered(p) == p.fragment_offset .. p.fragment_offset + p.data_len - 1

\* Mutant: a duplicate counts as a missing fragment.
StoredMutant(f, p) ==
  [f EXCEPT
    !.channel             = IF p.fragment_id = 0 THEN p.channel ELSE @,
    !.buf                 = [i \in DOMAIN @ |-> IF i \in Covered(p) THEN p.body ELSE @[i]],
    !.frag_received       = @ \cup {p.fragment_id},
    !.fragments_remaining = @ - 1]

\* The channel, the copy and the accounting of one fragment.
Stored(f, p) ==
  [f EXCEPT
    !.channel             = IF p.fragment_id = 0 THEN p.channel ELSE @,
    !.buf                 = [i \in DOMAIN @ |-> IF i \in Covered(p) THEN p.body ELSE @[i]],
    !.frag_received       = @ \cup {p.fragment_id},
    !.fragments_remaining = IF p.fragment_id \in f.frag_received THEN @ ELSE @ - 1]

\* The bytes handed over: as many as the header of the last fragment says.
Data(f, p) == [i \in 0 .. p.msg_size - 1 |-> IF i \in DOMAIN f.buf THEN f.buf[i] ELSE Junk]

\* The values #frag_received may have: the borders of the Lua table.
Borders(S) == {n \in 1 .. LCM3_MAX_FRAGMENTS : n - 1 \in S /\ n \notin S}

Error == [kind |-> "error", channel |-> NoName]

\* What assemble3 may return for a fragment that goes to buffer f.
Returned(f, p) ==
  LET g     == Stored(f, p)
      fresh == p.fragment_id \notin f.frag_received
  IN  IF BadName(p) THEN {Error}
      ELSE IF fresh /\ g.fragments_remaining = 0
      THEN {[kind |-> "message", channel |-> g.channel, data |-> Data(g, p)]}
      ELSE {[kind |-> "partial", channel |-> g.channel, remaining |-> g.fragments_remaining]}
             \cup {e \in {Error} : fresh /\ \E n \in Borders(g.frag_received) : n > p.fragments_in_msg}

\* The rest of a call once it has a buffer f, to be the i-th one. A bad name is
\* noticed after the buffer was stamped.
Accept(p, f, i) ==
  LET stamped == [f EXCEPT !.last_fragment_count = last_fragment_count]
      stored  == IF BadName(p) THEN stamped ELSE Stored(stamped, p)
  IN  /\ last_fragment_count < MaxFragmentCount
      /\ fragment_buffers' =
           [j \in DOMAIN fragment_buffers \cup {i} |->
              IF j = i THEN stored ELSE fragment_buffers[j]]
      /\ last_fragment_count' = last_fragment_count + 1
      /\ ret' \in Returned(stamped, p)
      /\ behind' = [k \in Keys |-> IF k = Key(p) THEN {} ELSE behind[k] \cup {Key(p)}]

-----------------------------------------------------------------------------
(* The calls of assemble3 *)

\* A header check fails: the buffers are not looked at.
Refuse(p) ==
  /\ HeaderError(p)
  /\ ret' = Error
  /\ UNCHANGED <<fragment_buffers, last_fragment_count, behind>>

\* The message has a buffer already.
Find(p) ==
  /\ ~HeaderError(p)
  /\ Search(p) # {}
  /\ LET i == FirstOf(Search(p)) IN Accept(p, fragment_buffers[i], i)

\* Mutant: one buffer too many.
CreateMutant(p) ==
  /\ ~HeaderError(p)
  /\ Search(p) = {}
  /\ Len(fragment_buffers) <= LCM3_NUM_BUFFERS
  /\ Accept(p, NewBuffer(p, NoName), Len(fragment_buffers) + 1)

\* A new message while there is room.
Create(p) ==
  /\ ~HeaderError(p)
  /\ Search(p) = {}
  /\ Len(fragment_buffers) < LCM3_NUM_BUFFERS
  /\ Accept(p, NewBuffer(p, NoName), Len(fragment_buffers) + 1)

\* A new message when all buffers are in use.
Evict(p) ==
  /\ ~HeaderError(p)
  /\ Search(p) = {}
  /\ Len(fragment_buffers) >= LCM3_NUM_BUFFERS
  /\ Accept(p, NewBuffer(p, fragment_buffers[Victim].channel), Victim)

Assemble3(p) == Refuse(p) \/ Find(p) \/ Create(p) \/ Evict(p)

Init ==
  /\ fragment_buffers = << >>
  /\ last_fragment_count = 0
  /\ ret = Error
  /\ behind = [k \in Keys |-> {}]

Next == \E p \in Packets : Refuse(p) \/ Find(p) \/ Create(p) \/ Evict(p)

Spec == Init /\ [][Next]_vars

-----------------------------------------------------------------------------
(* Properties *)

\* A buffer as long as m.
BufferFor(m) ==
  [from_addr : {n.from_addr : n \in LongMessages},
   msg_seq : {n.msg_seq : n \in LongMessages},
   buf : [0 .. m.msg_len - 1 -> Bytes],
   frag_received : SUBSET (0 .. LCM3_MAX_FRAGMENTS - 1),
   fragments_remaining : Int,
   last_fragment_count : Nat,
   channel : Names]

\* What assemble3 may hand to its caller, the data as long as m.
ResultFor(m) ==
  {Error}
    \cup [kind : {"message"}, channel : Names,
          data : [0 .. m.msg_len - 1 -> Bytes \cup {Junk}]]
    \cup [kind : {"partial"}, channel : Names, remaining : Int]

\* At most LCM3_NUM_BUFFERS buffers of the right shape, all stamped before the
\* clock's time.
TypeOK ==
  /\ \E n \in 0 .. LCM3_NUM_BUFFERS : DOMAIN fragment_buffers = 1 .. n
  /\ fragment_buffers = [i \in DOMAIN fragment_buffers |-> fragment_buffers[i]]
  /\ \A i \in DOMAIN fragment_buffers :
       /\ \E m \in LongMessages : fragment_buffers[i] \in BufferFor(m)
       /\ fragment_buffers[i].last_fragment_count < last_fragment_count
  /\ last_fragment_count \in Nat
  /\ ret = Error \/ \E m \in LongMessages : ret \in ResultFor(m)
  /\ behind \in [Keys -> SUBSET Keys]

\* A key belongs to one message.
UniqueKeys == \A m1, m2 \in LongMessages : Key(m1) = Key(m2) => m1 = m2

\* What is handed over is one message, whole, under its own channel.
IsMessage(m, r) ==
  /\ r.channel = m.channel
  /\ r.data = [i \in 0 .. m.msg_len - 1 |-> m.body]

\* assemble3 never returns a message with a hole, a byte of another message, or
\* another channel's name (lcm_packet.lua:222-225), whatever the order, the loss
\* and the duplication of the fragments and the reuse of the buffers.
Intact == ret.kind = "message" => \E m \in LongMessages : IsMessage(m, ret)

\* The buffer of one message is never split in two (lcm_packet.lua:137-151), or
\* neither half would ever be complete.
OneBufferPerKey ==
  \A i, j \in DOMAIN fragment_buffers :
    Key(fragment_buffers[i]) = Key(fragment_buffers[j]) => i = j

\* Buffer b collects m: it counts the fragments still missing, and every one
\* received is in its place.
Collects(b, m) ==
  /\ Key(b) = Key(m)
  /\ DOMAIN b.buf = 0 .. m.msg_len - 1
  /\ b.frag_received \subseteq FragmentIds(m)
  /\ b.fragments_remaining =
       fragments_in_msg(m.channel_len, m.msg_len) - Cardinality(b.frag_received)
  /\ 0 \in b.frag_received => b.channel = m.channel
  /\ \A p \in Fragments(m) :
       p.fragment_id \in b.frag_received => \A i \in Covered(p) : b.buf[i] = m.body

\* The accounting of every buffer agrees with its contents.
Coherent ==
  \A i \in DOMAIN fragment_buffers :
    \E m \in LongMessages : Collects(fragment_buffers[i], m)

Unfinished(i) == fragment_buffers[i].fragments_remaining # 0

\* An unfinished message loses its buffer only when every other buffer holds an
\* unfinished message too, with a fragment that came after its own last one
\* (lcm_packet.lua:154-169): finished messages go first, then the stalest.
LosesBufferOnlyToFresher ==
  [][\A i \in DOMAIN fragment_buffers :
       (Unfinished(i) /\ Key(fragment_buffers'[i]) # Key(fragment_buffers[i])) =>
         \A j \in DOMAIN fragment_buffers \ {i} :
           /\ Unfinished(j)
           /\ Key(fragment_buffers[j]) \in behind[Key(fragment_buffers[i])]]_vars
=============================================================================
