# Sponge in TLA+

A TLA+ model of Sponge, the user-space TCP/IP stack under `sponge/libsponge`:
what its parts do, from the byte stream to the router, checked by TLC on small instances and, where it matters
most, proved by TLAPS for every instance. Line numbers are those of the files
under `src/sponge/`; `PROJECT.json` maps every definition to its lines.

## The system

| Component | State | Operations | Who calls it |
|---|---|---|---|
| `ByteStream` | bytes queued, counts of bytes written and read, input ended, error | `write`, `peek_output`, `pop_output`, `read`, `end_input`, `set_error` | reassembler (output side of the receiver), sender (its input), the event-loop rules |
| `StreamReassembler` | ordered set of blocks above the head, `_unassembled_byte`, `_head_index`, `_eof_flag`, output stream | `push_substring` | `TCPReceiver` |
| `WrappingInt32` | none | `wrap`, `unwrap`, `+` | sender, receiver |
| `TCPReceiver` | `_syn`, `_fin`, `_isn`, `_ackno`, `_fin_not_count`, reassembler | `segment_received`, `ackno`, `window_size` | `TCPConnection` |
| `TCPSender` | `_next_seqno`, `_receive_ack`, `_window_size`, queue in flight, outgoing queue, clock and timeout, outgoing stream | `fill_window`, `ack_received`, `tick`, `send_empty_segment` | `TCPConnection` |
| `TCPConnection`, `TCPState` | sender, receiver, active, linger, RST flag, time since the last segment | `segment_received`, `write`, `connect`, `end_input_stream`, `tick`, destructor; `state` | `TCPSpongeSocket` |
| `NetworkInterface` | ARP table with ages, datagrams waiting for an address, frames out | `send_datagram`, `recv_frame`, `tick` | adapters, `Router` |
| `Router` | routes, interfaces | `add_route`, `route` | `network_simulator`, `lab7` |
| `EventLoop`, `TCPSpongeSocket` | rules; TCP thread, socket pair, abort and shutdown flags | `wait_next_event`; `connect`, `listen_and_accept`, `wait_until_closed` | applications, two threads |
| adapters | addresses of both ends, listening or not | `read` and `write` of a segment | event-loop rules 1 and 4 |
| headers, datagrams, frames | none | `parse`, `serialize`, checksum | adapters, `NetworkInterface` |

An application writes to a local socket. The TCP thread reads the other end of
the pair, hands the bytes to a `TCPConnection`, and its segments to an adapter,
which wraps them in UDP, IPv4 or Ethernet; `NetworkInterface` and `Router` carry
the datagrams. On the way back the receiver's reassembler writes to the inbound
stream, which the TCP thread copies to the pair.

What makes the parts hard: segments and acknowledgments are lost, duplicated,
delayed and reordered; 32-bit numbers wrap around; timers race with late
acknowledgments; buffers and pipes run full; containers are changed while they
are iterated over; two threads, each with an event loop, share a socket pair.

What makes each correct:

* reassembler: what is read is the stream, in order and without a gap; the
  count of waiting bytes is exact; the capacity holds; the end comes at the end;
* receiver: the same across wrap-around; the acknowledgment is exactly the first
  missing number, never retreats and never claims too much; the window edge
  never shrinks; the stream is eventually complete;
* sender: what is in flight is what is sent and not acknowledged; nothing goes
  beyond the window; the oldest segment is retransmitted on time;
* connection: end to end, each side reads a prefix of what the other wrote; both
  ends close with both streams complete, also after a loss; a reset stops both
  streams and is announced once; what `state()` reports only advances;
* interface and router: a datagram takes the longest route, to the owner of its
  next hop, once; none is forgotten;
* socket: no byte is cut off in either direction, no write to a closed pipe, the
  program ends;
* adapters and formats: a read returns what the peer wrote, or nothing.

`PROJECT.json` lists the hazards line by line.

## Modules

| Module | What it is |
|---|---|
| `WrappingIntegers` | `wrap`, `unwrap`, `operator+`; the widths are constants (`HALF` for 2^31, `M64` for 2^64) so that a wrap-around fits a small instance |
| `SequenceNumbers` | a speaker and a listener that use them the way sender and receiver do |
| `ByteStream` | the stream class as records and operators from record to record |
| `StreamSource`, `PeerSends` | the stream being transferred; which pieces of it a peer may send |
| `StreamReassembler` | the reassembler as coded: blocks, `merge_block`, the two merge loops, the write to the output, `JUDGE_EOF` |
| `ReassemblerSpec`, `Reassembly` | what it amounts to: the waiting bytes as a function from index to byte; `Reassembly` is the state machine over it |
| `ReassemblerInvariant` | what holds between two calls |
| `TCPSegment` | the segment fields sender and receiver use |
| `TCPReceiver`, `ReceiverSystem` | the receiver; the receiver between a network and a reader |
| `TCPSender`, `SenderSystem` | the sender; the sender between an application, a peer and the clock, called in the order `TCPConnection` calls it |
| `TCPState`, `TCPConnection`, `ConnectionSystem` | the summaries and named states; the connection; two of them, their applications and a channel with faults |
| `NetworkInterface`, `Router`, `NetworkSystem` | the interface with ARP; the routing table; a router, hosts, links, loss and time |
| `EventLoop`, `SocketSystem` | `wait_next_event` in its parts; the owner thread and the TCP thread around the socket pair |
| `WireFormats`, `AdapterSystem` | parsers, serialisers and checksums over words; the UDP, TUN and TAP adapters of a client, a server and a stranger |
| `MC...` | streams and piece sets for TLC |
| `ReassemblerSpec_proofs`, `StreamReassembler_proofs`, `ReceiverSystem_proofs`, `SenderSystem_proofs`, `ConnectionSystem_proofs`, `NetworkSystem_proofs`, `SocketSystem_proofs` | theorems about the module of that name; those about `SequenceNumbers` are in `ReceiverSystem_proofs` |
| `CommonLemmas` | lemmas about sequences, iteration and folds, and `wrap` and `unwrap` for any modulus |

A class is a record and each method an operator from the old object to the new
one, so that classes compose the way they do in the code: a receiver contains a
reassembler, which contains a byte stream. The `...System` modules are the state
machines. Each of their actions is one whole call from outside. Definitions whose
name has a suffix and whose comment begins with "Mutant" are plausible mistakes
in the definition that follows; `PROJECT.json` says which property each breaks.

Correspondence, where it is not by name:

* `StreamReassembler!NewBlock`, `MergeNext`, `MergePrev`, `InsertBlock`,
  `WriteHead`, `JudgeEof` are consecutive parts of `push_substring`. A loop is a
  function of the number of passes; a pass after the end of the loop changes
  nothing. The field `length` of a block is the length of its data, and the
  unused `_buffer` is left out.
* `TCPReceiver!AcceptSyn`, `PushPayload`, `CountFin` are the three parts of
  `segment_received`; `syn_with_data_sign` is `seg.syn`, since a second SYN
  returns at once.
* `ackno` returns a set that is empty or holds the value, for the `optional`.
* `TCPSender!Remaining` is the one difference that can be negative and is taken
  modulo `M64`. `FillOnce` is one pass of the loop of `fill_window`. The `uint`
  timeout is not given a width: it would have to double at least 16 times to overflow and
  the connection gives up after 8.
* `SenderSystem!Tick` includes what `TCPConnection::tick` and
  `unclean_shutdown` do to the sender after too many retransmissions.

* `TCPConnection!Stamped` is the body of the loop of `segment_sends`, `Reply` and
  `TakeAck` are parts of `segment_received`. Methods that share their name with a
  method of the sender or the stream have the prefix `conn_`.
* The `segments_out` queue of a connection in `ConnectionSystem` is also the
  channel to the other end. `destruct` empties it: the queue dies with the
  object.
* `NetworkInterface!StageVisit` is one pass of the loop of `send_stage_datagram`,
  which erases from the vector it iterates over: cells behind an erased one move
  up, and the last cell is visited once more after its element was destroyed. The
  model keeps what that cell still holds (`hops`). `tick` erases the map node it
  stands on; the model chooses between going on, stopping and crashing.
* `EventLoop` is a record per loop. `SetUp`, `Poll` and `Serve` are the three
  parts of `wait_next_event`; the rules are passed in as operators. Between `Poll`
  and the last `Serve` the other thread may run, so that a poll result is stale
  when it is used. The busy-wait exception is left out (every callback of the
  program reads or writes its descriptor or loses interest), and so is EINTR.
* `SocketSystem` keeps byte counts, not bytes: every queue on the way is FIFO.
  The connection is reduced to what the rules see of it; segments of the peer
  arrive one at a time.
* In `WireFormats` a buffer is a sequence of words, a field is one word, and
  fields nothing reads are left out. The checksum is the real one, modulo `W`.

## Environment and bounds

* `ReceiverSystem` has no network variable: at any moment any segment the peer
  may ever have sent can arrive. That includes every loss, duplication, delay and
  reordering. Two limits apply. A segment lies within half the sequence space of
  what was written (`Near`); TCP itself relies on that. And with
  `WindowRespected` the peer stays within the window; with `BareFin = FALSE` an end
  mark without payload does not overtake data.
* `FixedPieces` is a peer that retransmits the segments it first sent, as
  `TCPSender` does; `AnyPieces` one that may cut its stream anew, as TCP allows.
* In the passing receiver runs `HALF` is 8 or 12 and the initial number lies close below
  the modulus, so that the numbers of a 13-byte (7-byte) stream wrap around.
* `SenderSystem` takes any acknowledgment number up to one beyond the largest in
  use and any window. `peer.acks` remembers how far they could be trusted: in
  order, overtaken by a later one, or anything. Ticks of half the timeout make the
  timer expire between, at and after calls. `MaxIdle` bounds the clock while
  nothing is in flight, `MaxRetx` stands for `MAX_RETX_ATTEMPTS`; a sender that
  has given up stops, hence no deadlock check.
* `StreamReassembler` is pushed substrings within and beyond the window, with end
  marks that may overtake data; `behaved` remembers whether the peer kept to the
  rules, and the properties that need it say so. `MaxUnassembled` bounds
  `_unassembled_byte`, which can grow without limit when a peer exceeds the
  window; it is above anything a peer within the window reaches.
* `ConnectionSystem`: `x` sends two bytes, `y` one, and both may open, so that
  active, passive and simultaneous opening all happen. The inbound stream holds
  one byte, so that windows close and are probed. `MaxFaults = 1`: one segment lost,
  duplicated or overtaken, one early timeout, or one owner that drops its
  connection, at any point of any interleaving. No number of the instance wraps around, so that no
  ackno is 0, after which connections may fail; that the safety properties hold with any initial
  numbers is proved. `MAX_RETX_ATTEMPTS` is 4: the model
  lets several timeouts pass before a stalled peer is reached. `MaxIdle` bounds time
  with nothing to wait for.
* `NetworkSystem`: two router interfaces, a host on each, eight addresses, a
  table with a default route, a network and a host route in it; before traffic starts
  every table of up to three of six routes is built (`LongestPrefix`). Two of four
  datagrams are sent (one with its time to live used up), one frame may be lost, mappings
  last two ticks and requests one. `MaxSent` and `MaxLoss` are the bounds.
* `SocketSystem`: three bytes each way, a pipe of one byte (every write is
  partial), an outbound stream of two, application buffers of three. The peer may
  reset at any time, the owner may be thrown out of the copy loop at any time.
* `AdapterSystem`: 32 word values, five kinds of segments, one packet on the wire; every
  word of it may change to every other value, or any tail be cut off. A change
  the one's complement sum cannot see (0 and all ones) is excluded (`Visible`).

Payload bytes all differ, so that a byte in a wrong place shows.

## Runs

| Run | States | Shows |
|---|---|---|
| `SequenceNumbers` | 264 | over four turns of the sequence space and every initial number the recovered number stays the true one, and `unwrap` is the closest number in both directions, compared with a search |
| `Reassembler` | 7888 | every order, overlap and repetition of pieces of 8 bytes into capacity 5, also beyond the window and with early end marks: prefix, separated blocks and refinement of `Reassembly`; exact count, capacity and end while the peer behaves |
| `Receiver_fixed` | 117 | exact acknowledgment, window edge monotone, end of stream reached under fairness |
| `Receiver_any` | 325 | the inductive invariant, prefix, acknowledgment never ahead and never retreating, for arbitrary overlap |
| `Sender` | 118557 | flight queue tiles the unacknowledged numbers, numbers match the stream, retransmission in time, what is acknowledged is never sent again, under any acknowledgment; data within the window while they are in order |
| `Connection` | 291686 | end-to-end prefix, what is taken for acknowledged was received, a clean close is complete at both ends, no reset without cause, one RST, both ends close, states only advance |
| `Network` | 173275 | longest prefix for every table, true mappings, no datagram in two places or none, arrival at the right host, and arrival at all unless a frame is lost or the program fails |
| `Socket` | 882009 | FIN only after the last byte, standard output complete, no broken pipe without a reset, the program ends |
| `Wire` | 200503 | a read returns what the peer wrote or nothing, the listener turns to a host that called it, undamaged packets are not refused |
| `Receiver_barefin` | violated | a bare FIN that overtakes data ends the stream early |
| `Sender_stale` | violated | an overtaken acknowledgment brings back a smaller window; the unsigned remainder wraps around and data goes beyond the window |
| `Network_staged` | violated | two datagrams staged for one address: the loop visits a destroyed element and serialising it throws |

The violated runs each check one statement of a comment, a test or an assertion
against the code; `findings` in `PROJECT.json` quotes them.

What the connection runs exclude, because the code is known to fail there: an ackno of value 0
(`NoAcknoZero`; the instance's initial numbers are 3 and 9, its modulus 16); a FIN that comes
too early (`earlyfin`), a probe byte that leaks from the count of the
reassembler (`Leaked`), and owners that drop their connection (`aborted`). A FIN is too early
when bytes before it are missing and its segment leaves nothing in the reassembler that would wait
for them: it carries no data, or its data begin at or beyond the limit of the window, where
`push_substring` returns and `segment_received` counts the FIN all the same
(`TooEarly`; a stale window lets a sender send such a segment). The last
is a fact of TCP: a RST is sent once, and a peer in FIN_WAIT_2 that misses it waits for
ever; here the RST of a destroyed connection is never sent at all.

Further disagreements, found with these modules and not kept as runs:

* A substring that does not fit the output leaves bytes counted in
  `_unassembled_byte` that are stored nowhere (`stream_reassembler.cc:76`, against
  `stream_reassembler.hh:56`), and one that begins below the capacity limit is
  stored whole (`stream_reassembler.hh:42-43`). In a connection whose reader is
  slow, the byte that probes a full window leaks this way, and the FIN that
  follows is never accepted.
* A segment that overlaps received bytes and adds new ones does not advance the ackno
  (`tcp_receiver.cc:36`, against `tcp_receiver.hh:43-44`).
* An ackno of value 0 counts as none (`tcp_receiver.cc:56`, against
  `tcp_receiver.hh:41`, "returns empty if no SYN has been received"): the state of the receiver
  falls back to LISTEN, and what arrives is not answered until the ackno moves on. If the sender has
  to wait for that answer it retransmits until it gives up.
* The FIN is added when the payload is shorter than the whole window, not than
  the rest of it (`tcp_sender.cc:47`, against `tests/send_extra.cc:236`).
* After everything was acknowledged the clock keeps counting until the next
  tick, and a segment sent before that tick is retransmitted early
  (`tcp_sender.cc:18`).
* `unwrap` is not the closest number when the checkpoint is within 2^32 of 2^64;
  no connection gets there, and `Usable` and the theorem exclude it.
* `tcp_connection.hh:100` says the "destructor sends a RST if the connection is
  still open"; the segment goes to a queue that is destroyed with the object
  (`tcp_connection.cc:97`).
* A segment with payload that acknowledges the SYN is dropped in SYN_SENT; it is
  retransmitted (`tcp_connection.cc:31`).
* After a reset, rule 3 of the socket shuts its direction down with bytes left in the
  stream, stays interested, and its next write fails (`tcp_sponge_socket.cc:128-150`);
  the owner in turn may write into the closed pair, and SIGPIPE ends the program.
* A descriptor that hung up is reported by every poll, also to a rule that asked for
  nothing (`eventloop.cc:86`): the loop then spins until another rule ends it.
* `connect()` of the socket announces success when the connection was reset in
  SYN_SENT (`tcp_sponge_socket.cc:226`).
* `IPv4Datagram::parse` and `TCPSegment::parse` ignore the result of the header
  parsers: a wrong IPv4 header checksum is accepted, and so is a short Ethernet frame.
  The checksum of the segment and its pseudo header still catch every single damaged
  word (`Unforged`).
* The lossy adapter drops a SYN after the listening adapter has turned to its
  sender (`lossy_fd_adapter.hh:43`).

## Fairness

Weak fairness throughout, never strong. `NetworkSystem` writes it with `WF_`: links
carry frames, the router routes, hosts look at what they received; nothing has to wait for the
clock. The others write the enabling conditions out (`<>[]enabled => []<><<A>>_vars`),
since TLC takes too long to compute ENABLED there.

* `Receiver_fixed`: the peer's retransmission of what is unacknowledged arrives again
  and again while it may be sent (its timer fires, not every copy is lost), and
  the application reads while there is something to read (rule 3 of the event
  loop). A retransmission that changes nothing does not count as enabled, so that
  a receiver that refuses every retransmission is stuck, not excluded.
* `Connection`: applications open, write, end and read while they can (the loop of
  `tcp_benchmark`), the channel delivers what it does not lose, and time passes once
  nothing is under way.
* `Socket`: both threads are scheduled, the peer opens and goes on with its
  stream, and lingering ends (`~<>[]MayFinish`), which `Connection` shows.

## Proofs

All for every stream, capacity, segmentation, initial number, width, table and
topology, unless a hypothesis is named. What a proof assumes of constants is an
`...Assumption` of the module that declares them, which TLC evaluates in the runs, or a
named hypothesis of the theorem.

**Numbers** (`ReceiverSystem_proofs`). `UnwrapNearest`: `unwrap(wrap(x))` is `x` for
`x` within half the sequence space of the checkpoint, given that `M64` is a
multiple of `M32` and the checkpoint is at least one turn below `M64`. `wrap` is
congruent to `n + isn` (`WrapCongruent`; both are in `CommonLemmas` for any modulus), so the 32-bit difference is `x - c` or
`x - c + M32`, and the comparison with `HALF` tells which.
In `SequenceNumbers` a listener always agrees with the speaker
(`ListenerAlwaysAgrees`, invariant `Agreement`), and `unwrap` returns the closest of
all numbers that wrap to its argument (`UnwrapAlwaysClosest`).

**Reassembler by indices** (`ReassemblerSpec_proofs`). `PushPreserves`:
`push_substring` preserves `ReassemblerOK`: output contiguous with what was read and
no longer than the capacity, nothing stored below the head, `_unassembled_byte` at
least the number of bytes stored. One lemma for each part of the call. For a peer
that keeps to the window, `Tight` and `Exact` are preserved as well: nothing is lost
for lack of room, the head is never stored, the count is exact, the end mark is
kept only with the last byte.

**Reassembler as coded** (`StreamReassembler_proofs`). `ReassemblerImplementsSpec` is the
refinement of `Reassembly` by the block set: every `push_substring` of the code is
one step of the description, every `read` another. The five invariants of run
`Reassembler` are proved besides. `Inv` says that the blocks are finitely many, lie above
the head, hold the stream's bytes and leave a gap between any two (`Sound`), and for
a well-behaved peer that the description is tight and exact (`Orderly`). Inside a
call it does not hold, so the loops have their own: `Merging` (element and remaining blocks
cover the same indices, the count is off by what is still to come), to
which the upward loop adds, when it ends, a gap above (`GapAbove`), and the downward loop a
gap below. Each pass that merges removes a block, so that as many passes as there
are blocks suffice, and that the order of the set makes the next block the only candidate
follows from the gaps.

**Receiver** (`ReceiverSystem_proofs`). `InvAlways`, `TypeCorrect` and
`OutputIsPrefixAlways` hold for any network and any peer, also one that exceeds the
window or lets its FIN overtake data. The prefix property alone is not inductive: a byte
written now was stored earlier, under an index computed from the initial number.
`Inv` adds that the initial number is the peer's, that stored bytes are the stream's
at their index, and that the count is large enough for the subtraction of the
bytes written. `IndexOfPayload` shows with `UnwrapNearest` that the index
computed for a segment is that of its payload. Assumed: `StreamLen + M32 + Capacity <
M64`, and `Near` for every segment.

What is said of the ackno needs `OrderlyPeer`: the peer stays in the window, its FIN
comes with or after the last byte, and `HALF` is at least 3 (2^31 in the program). Then `RcvTight` is inductive (nothing the receiver
took is forgotten, the FIN is counted once and last; `Good`), which gives
`EofOnlyAtEndAlways`. Run `Receiver_barefin` shows that it is false otherwise.

* `AckNeverAheadAlways`, `AckNeverRetreatsAlways`: for a stream of at most half the
  sequence space. The number of the ackno is some `b` that is at most the first missing
  number (`Lagging`). A segment that overlaps received bytes and adds new ones does not
  advance the ackno, so nothing but the length of the stream keeps it within reach of
  `unwrap`.
* `AckIsFirstMissingAlways`, `EdgeNeverShrinksAlways`: for a stream of any length and a peer
  that keeps its segments (`Segmented`, as the sender of this code does). The head always
  lies at a segment boundary and segments are stored whole (`Aligned`).

**Sender** (`SenderSystem_proofs`), one whole call of `TCPConnection` at a time.

* `NumbersAlwaysMatch` (`Numbered`): the next number is SYN, bytes read and FIN together, and
  the stream read so far and the rest are the stream. `FillOnce` preserves it, hence
  every number of passes of the loop of `fill_window`.
* `AlwaysRetransmitsInTime` (`TimerOK`): while something is in flight the clock runs and shows at
  least the time really waited.
* `InFlightAlwaysTiles`, `AckedAlwaysStaysAcked` (`Tiles`, `Tiled`): the queue is a
  sequence of non-empty pieces end to end, with the acknowledged number inside the
  first. What a call may do to it is stated once (`Follows`) and shown for
  every pass and every call. Both hold as long as at most half the sequence space is in
  flight (`FewInFlight`): beyond that `unwrap` mistakes a segment in flight for an old
  one. A 16-bit window is far from that, but a stale acknowledgment lifts the limit of the
  window (run `Sender_stale`). The versions whose name ends in `Short` need no such
  condition, for a stream that fits in half the sequence space.
* `DataAlwaysWithinWindow` (`Windowed`): while acknowledgments come in order, and for windows
  smaller than half the sequence space (`SmallWindow`; a window has 16 bits, a number 32). It holds
  for a stream of any length, since `Windowed` bounds what is in flight.

Assumed: `StreamLen + 2 + M32 + MaxWindow <= M64`.

**Connection** (`ConnectionSystem_proofs`), two of them, their applications and the channel, for any
number of faults and whatever initial sequence numbers. `AlwaysDeliveredIsPrefix` follows from the
inductive invariant `Inv` (`AlwaysTruthful`). Neither is inductive alone: a byte
delivered now was cut from the stream by the other end, numbered, sent, possibly kept for a
retransmission, and stored out of order. `Inv` says what each of these steps leaves behind:

* a segment under way, in flight or queued carries the number of the piece it holds
  (`CutFrom`), and its ackno is one of the numbers its sender had received when it was
  sent (`Truthful`, which grows with `Reached`);
* a sender's next number counts its SYN, the bytes taken off the stream and its FIN, and its two
  copies of the acknowledged number agree (`SenderOK`);
* a receiver keeps bytes of the other side's stream at their index, and its ackno is a number it
  has reached (`ReceiverOK`); it need not be the first missing one, which is not true of this
  code when segments overlap;
* what the sender takes for acknowledged the other receiver has reached, and what the
  application has read is the part of the stream taken off.

Each method of `TCPConnection` has a lemma: what the application calls, and time, leave the
acknowledged number alone (`Follows`); a segment that acknowledges up to `m` moves it at most
to `m` (`Advances`). Numbers may wrap around anywhere in a stream: `wrap` commutes with `Plus32`
(`WrapPlus`), and `unwrap` recovers what is below half the sequence space (`UnwrapShort`).
Hypothesis `ShortStreams`: a stream and its two flags fit in half the sequence space, so that an old segment, or
an old ackno, is never mistaken for a new one, and 64-bit numbers have room for two turns. For
longer streams TCP depends on the lifetime of segments, which the channel does not limit.

`AlwaysResetOnce` needs a second invariant, `AllReady`, because the flag `need_send_rst` is put on
every segment that leaves after it is set: one RST goes out only if one segment does.
Between two calls an active connection (`Ready`) has not set the flag, has an empty sender queue, has
counted at most `MAX_RETX_ATTEMPTS` retransmissions, and either has sent nothing and heard no SYN, or has
filled its window (`Filled`: the loop of `fill_window` would stop at once). So in the tick that gives
up, `segment_sends` finds nothing new to send and the last retransmission leaves alone (`GivesUp`).
Every method keeps this (`ConnectCalm`,
`CallCalm`, `ConnTickCalm`, `ConnReceivedCalm`); what `fill_window` leaves is
`Filled` by an invariant of the passes of its loop.

`AlwaysStatesAdvance` needs a third, `AllLive`, because the state is computed from numbers. A sender
leaves `SYN_SENT` when not everything it has sent is in flight, and enters `FIN_ACKED` when nothing is; so the
first number in flight (`Base`) must not go back. It does not, since the segments in flight lie end to end up to
the next number (`Tiled`), and those popped are a first part of them (`TilesPop`): `bytes_in_flight` and the
queue are two counts of the same thing. The FIN is the last number sent, and an endpoint has
stopped because both its streams failed, or because its FIN is acknowledged and the other side's
has come (`StoppedOver`). The last is not what `clean_shutdown` tests: it asks for an empty outbound stream and nothing in
flight, and only because the window was filled before (`FinSent`, `FilledFin`) was the FIN sent by then.
Each method moves both halves on (`Onward`). The theorem holds for all initial numbers, and for that it
names an exception, which the code has: a receiver whose ackno is 0 counts as one without an ackno
(`tcp_receiver.cc:56`), so that its state is LISTEN again until the ackno moves on. When that ackno is the
last one of the stream, the endpoint stops with its sender in FIN_ACKED and its receiver in LISTEN,
which is none of the states of `tcp_state.cc` (`AcknoZero`). The same invariant gives the second half of `CleanCloseComplete`: who
closes without an error has its FIN acknowledged, so that the peer has the whole stream (`CloseFromInv`).

The first half, that it has also received the whole stream of its peer, is false as soon as a FIN comes too early.
Otherwise it follows from a fourth invariant, `AllEnd` (`AlwaysEndsInTime`): a receiver
that has seen the FIN has written the last byte, or keeps it, or has lost bytes it still counts (`EndKept`). In the
last case it will never end the stream, since `_unassembled_byte` never comes down to 0 (`Leak`, which is
never negative and never shrinks: `Assemble` drops a run as a whole and subtracts what it wrote). So nothing waits
only when the last byte is written (`EmptyHasEnd`). For this the invariant `Inv` says that the FIN
comes with the last piece of its stream (`CutFrom`, `EndsWhole`), and `Follows` that
only the arrival of a segment changes what a receiver keeps (`SameStore`, `ConnReceivedTakes`).
`AlwaysAckedIsReceived` combines `Inv` and `AllEnd`: what is acknowledged was reached (`Inv`), and an
ended output has the last byte (`AllEnd`), so that the FIN's number counts only behind all the bytes.
For a stream whose FIN came too early the formula says less: the receiver acknowledges that FIN at once
(`tcp_receiver.cc:46-51`) with the number of a byte that is missing, and there it is counted as received.

`AlwaysStatesAdvance` and `AlwaysCleanCloseComplete` assume besides `ShortStreams` that the window is smaller
than the range of a 64-bit number (`RecvCapacity < M64`), where the unsigned remainder of the window is computed.

**Network** (`NetworkSystem_proofs`).

* `AlwaysLongestPrefix`: for every table that `add_route` can build, `find_longest_prefix`
  returns the first of the longest routes that apply. The fold over the table is taken
  apart by `BestOf`, which says what has been found in the first `k` routes.
* `MappingsAlwaysTrue`: an interface has a mapping exactly while its status is not negative, and
  the mapping is the owner's. It needs that every frame names its true sender, and every
  queue and stage its type, so the lemmas say for each operation of an interface from
  which set of states to which it goes: `State(i, O, D)`, where `O` are the
  datagrams interface `i` may be asked to send and `D` those it may deliver.
  `NetworkStep` shows once that every action of the system keeps all interfaces in
  their sets, for any `O` and `D` that frames respect.
* `AlwaysArrivesRight`: the same with `O` and `D` chosen as the datagrams on their course
  (`OnCourse`): a host sends its own, the router's interfaces send those that were
  sent, are routable and leave through this interface, reduced by one in time to live. Hypothesis
  `WellWired`: no host uses another host as its next hop, and the router has one interface per
  link. The topology of `network_simulator.cc:207-222` is of this kind, and TLC evaluates
  `WellWired` for that of the run. Without it a host would be handed what it has to forward.

**Socket** (`SocketSystem_proofs`), for streams and buffers of any size and every order in which the
two threads run. `FinAfterLastByteAlways`, `OutputCompleteAlways` and `NoBrokenPipeAlways` follow
from the inductive invariant `Inv` (`InOrder`), of which the three alone are a small part. Until an
error or an abort it says (`Orderly`):

* `Flow`: the counts along each way are ordered, no queue exceeds its capacity, and every sign
  of an end comes after the last byte. In particular a direction of the socket pair is shut down
  only after its last byte was written, and by its reader only after it has all of them; and the connection becomes
  inactive only when both streams have finished. Without the last part, the TCP thread could end
  with bytes on the way.
* `OwnerServing`, `ThreadServing`: a loop has the rules it needs, or the flag that made
  it drop them; no rule that still has a callback to come hung up; and a descriptor that was
  reported readable, and not served yet, still has bytes or an end (`Unserved`). This is what makes
  a stale poll result harmless: only the reader takes bytes away, and it is the same thread.
* `Waiting`: the segment under way is one the peer may send next.

`SetUp`, a fold over the rules with a world that cancel callbacks change, is shown once for any
loop to keep distinct rules, the asked among them (`PassKeeps`, `PassesExist`); each loop instantiates this
(`OwnerSetUpPasses`, `ThreadSetUpPasses`). Until an error no cancel callback changes anything
(`Steady`). Each callback has a lemma about what it does for its own thread
(`Served`) and what it leaves to the other (`OwnerKeeps`, `ThreadKeeps`), and each action one
that it preserves `Inv`. Hypothesis: positive capacities (`SocketAssumption`).

`CommonLemmas` holds what these proofs share: pieces of sequences, and that
functions defined by recursion on a number or by a fold exist and satisfy their equations.
With these a loop is reasoned about by an invariant of its passes, in sets of states, without
induction over an operator.

Only model-checked:

* `Conserved` of the network;
* `NoNeedlessReset` of `ConnectionSystem`;
* all of `AdapterSystem`. `Unforged` is no theorem: a cut that removes words whose sum the checksum takes for 0
  goes unnoticed where no length is checked (UDP), so that it holds for segments like those of
  the run;
* liveness under fairness, which is out of the prover's reach;
* what the checksum and the other recursive operators of `WireFormats` compute.

## Not modelled

* Addresses and name resolution, TUN and TAP devices, timestamps, random numbers
  and the hex dump of `util`: wrappers of system calls and of the library.
* `webget` and `udp_tcpdump`, command lines and printing: no state of their own.
  The loops of `tcp_benchmark`, `bidirectional_stream_copy`, `network_simulator` and
  of the network thread of `lab7` are the environments of the systems above.
* That copies of a `Buffer` share their storage; `BufferViewList`.
* The service counters behind the busy-wait check of the event loop, and the race on them
  when the TCP thread shuts the owner's socket down (`tcp_sponge_socket.cc:261`).
* IPv4 and TCP options: the parsers skip them and nothing writes them.

## What is left to prove

In the order of their worth:

* `Conserved` of the network, which needs distinct identifiers and disjoint links as
  hypotheses, and counting over all queues.
