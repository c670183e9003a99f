# AOO in TLA+

A verification development kept beside AOO ("audio over OSC"): TLA+ models of
its protocols, threads and data structures, TLC configurations that check them
on small instances, and proofs checked by TLAPS for every instance. Paths below
are relative to the repository's source tree.

1. [The system](#the-system)
2. [The modules and the code](#the-modules-and-the-code)
3. [What the runs check](#what-the-runs-check)
4. [What is proved](#what-is-proved)
5. [What disagrees with the code's own words](#what-disagrees-with-the-codes-own-words)
6. [What is not modelled](#what-is-not-modelled)

## The system

An `AooSource` streams audio blocks to one or more `AooSink`s over UDP. Sources
and sinks find each other by address, or through an `AooServer`: an `AooClient`
logs in over TCP, joins groups and exchanges messages with the other members,
its peers. On Apple platforms a bridge wraps source and sink and a browser looks
for receivers; there are objects for Pure Data and units for SuperCollider.
Nothing is kept on disk; the difficulties are threads that share state without
locks, a network that loses, repeats and reorders datagrams, rings and counters
at their limits, and calls and callbacks that cross.

`PROJECT.json` lists every part of the system with its status (`components`),
the lines each definition stands for (`map`), and the hazards line by line.

## The modules and the code

Operators and actions carry the name of the function they translate. A handler
that reads shared state, lets another thread in and stores later is cut there:
a program counter (`network`, `audio`, `sender`, `thread`, ...) says where each
thread is. Data is abstracted to what the properties tell apart. Most `...Max`
constants are bounds for TLC. The wrong variant before a definition (its name
says what is dropped or swapped) is kept to show that a property can fail.

### Streams

| module | code | state and actions |
|---|---|---|
| `SourceStream` | `aoo/src/source.cpp` | `stream` is `stream_state_` with the metadata in its upper bits; `sinks` the list of sinks with ids, tokens, flags and data requests; `history` the sent blocks. The user's calls, requests from the network, the audio thread (`process...`; `start_sink` and `start_sink_id` are the loop of `make_new_stream`) and the send thread (`dispatch_requests`, `send_start`, `send_xruns`, `send_data`, `resend_data`) are actions, cut at every unlock. |
| `StreamMessages` | `source.cpp` | the two sample clocks, the resampler and the audio queue in blocks, xruns, resets, the queue and the priority queue that stream messages pass. |
| `SinkStream` | `aoo/src/sink.cpp` | `state` is `state_`, the atomic that three threads write; stream id, format, decoder, packet queue, buffering, invitations. `handle_start`, `handle_start_update`, `handle_start_store` are the parts of `source_desc::handle_start` before, under and after the lock; likewise `handle_data`/`handle_data_push`, `invite`/`invite_store`, and `process`, `add_packet`, `process_blocks`. |
| `JitterBuffer` | `packet_buffer.*`, `sink.cpp` | `jb` is the ring: data, head, tail, size, last pushed and popped; `reserved` the capacity of its vector, which a resize leaves above its size. `add_packet`, `try_decode_block`, `handle_underrun` and `update` are the places where the sink touches it, with overrun, wrapped sequence numbers and the low-latency rules (expired, stale, backlog, silence, re-acquisition). |
| `BlockQueue` | | what the ring promises: a bounded queue of consecutive blocks. |
| `Resend` | `sink.cpp` | `check_missing_blocks`, the queue of data requests, and their packing in the binary and the OSC format. |
| `DataFrames` | `data_frame.*`, `sink.cpp` | the free list without tags between the network and the audio thread; the list of the frames of a block. |
| `Resampler` | `resampler.cpp` | `setup`, `reset`, `write`, `read`, `update` and the three mirrored frames; positions are fractions of a frame. |
| `SinkMessages` | `sink.cpp` | scheduling of stream messages and their dispatch against the process clock, at nominal sample rates. |

### Clients, peers and server

| module | code | state and actions |
|---|---|---|
| `Client` | `net/client.cpp` | commands queued by the public functions and performed by `run()`; connect, UDP handshake, login, join, leave, requests, timeout, disconnect and close. `handle_query` queues the login and a later step of `run()` performs it. A TCP connection is a number with two streams of messages. |
| `Server` | `net/server.cpp`, `client_endpoint.*` | clients, groups and users; login, join, leave, eject, requests that the host answers later, notifications. |
| `Session` | | composes the two over TCP connections that may be lost. |
| `TcpServer` | `net/tcp_server.cpp` | the thread that polls, receives, closes, accepts and purges, with its two parallel vectors; the kernel is external. |
| `PeerHandshake` | `net/peer.cpp`, `ping_timer.hpp` | first pings, fallback to the relay, regular pings, probing, timeouts; time goes in steps of the probe interval. |
| `PeerMessage` | `net/peer.cpp`, `message_buffer.*` | reliable messages between two connected peers: `send_message` cuts into frames, `do_send` applies acknowledgements and resends, `handle_client_message` reassembles and delivers, `send_ack` and `handle_ack` go back. Wires are sets of datagrams that stay once sent, so each may arrive late, again or never. A frame carries an onset, a size and the byte positions it was cut from, so that a copied frame shows where each byte came from. |
| `MessageChannel` | | what they promise: a first-in first-out channel. |

### Below and above

| module | code | state and actions |
|---|---|---|
| `ConcurrentList` | `common/lockfree.hpp` | the list of sinks, sources and peers: iterate, push, erase, `reclaim`; each atomic access is a step. |
| `Queues` | `common/lockfree.hpp` | `unbounded_mpsc_queue` and `spsc_queue`. |
| `MemoryPool` | `rt_memory_pool.hpp` | tagged free lists, splitting of larger blocks, the bitset and the linear allocator; each atomic access is a step. |
| `Sync` | `common/sync.*` | `semaphore`, `event`, `shared_spinlock`, `shared_recursive_mutex`; a behaviour uses the one that `Init` chooses. |
| `AppleSender` | `AOOAppleBridge.cpp` | blocks and gaps from the audio callback to the process thread; start, stop, destination. |
| `AppleReceiver` | `AOOAppleBridge.cpp` | the source that is listened to, the channel map read without a lock, latency settings; the query for the format of a stream may fail. |
| `PeerBrowser` | `Discovery.swift` | browser and probe sessions on one serial queue, with callbacks of browsers that were replaced. |
| `ScUnits` | `sc/src` | units, delegates, commands and nodes with their lifetimes between the two threads. |
| `PdObjects`, `PdClient` | `pd/src` | objects that share nodes by port; the `aoo_client` object with its requests, events and scheduled messages, and below it the commands of `AooClient` (`perform_connect`, `perform_group_join`, ...), the answers of the server and the loss of the link. |

### How the parts meet

`Session` is a composition: `Client` and `Server` act on the same connections.
`SinkStream` decides which packets reach the jitter buffer and when it is reset,
`JitterBuffer` what happens to them within one stream; `Resend`, `DataFrames`,
`SinkMessages` and `Resampler` take the same events (a packet, a block, a reset)
as inputs and own one part of `source_desc` each. `SourceStream` sends what
`SinkStream` receives; in either module the other side is the network that
delivers any of its messages. `ConcurrentList`, `Queues`, `Sync` and `MemoryPool`
justify that the modules above treat a list, a queue, a lock or an allocation
as one step.

The modules `MC...` are for TLC. `MCSinkStream` adds a symmetry.
`MCPeerMessage`, `MCProtocol`, `MCRuntime` and `MCLiveness` each hold several
components that do not act on each other: the variable `part` is chosen in the
initial state and never changes, the component it names runs by its own `Next`
and the others rest. Their state space is the sum, not the product, of the
components', so one run asks one kind of question of all of them. Each extends
one component and instantiates the others with `WITH`, where their bounds are.

## What the runs check

| run | instance | shows |
|---|---|---|
| `peers` (`MCPeerMessage`) | three OSC messages of one or two frames, at most one of two (`OneMultiFrame`); two peers with a direct way and a relay | messages are delivered `InOrder` and intact (`DeliveredIntact`), the receive buffer has no holes (`BufferContiguous`), nothing is forgotten early (`ForgottenIsReceived`), the protocol implements `MessageChannel`; two peers do not stay half connected (`ConnectedTogether`) |
| `sink_stream_safety` | two streams; a plain, a low-latency and a rejected format | no block or decoder of another stream is used (`OnlyCurrentStream`, `DecoderFits`); late messages do not revive an idle stream (`IdleStays`) |
| `jitter_buffer` | rings of 2 and 3 blocks, latencies 1 and 2, three profiles, blocks of two frames and an empty one, five blocks across the wrap of the sequence number at 8 | `RingSound`, `Consecutive`, `NothingBehind`, `InSync`, and that the ring implements `BlockQueue` |
| `protocol_parts` (`MCProtocol`) | see the `WITH` clauses | `SourceStream`: one format and one block for each sequence number under a stream id, metadata with one owner (`StreamConsistent`), no active sink without `/start` (`ActiveSinkAnnounced`); `StreamMessages`: with all that waits sent, the clock of the stream is not ahead of the clock of `process` (`NeverAhead`); `Resend`: requests for exactly what is missing, at a distance (`AsksForMissing`, `RequestsSpaced`); `ResamplerSound`; `FramesSound`; `SinkMessages`: in order, in their block and once (`MessagesOnTime`); `Session`: clients and server agree on members, peers and requests (`SessionAgrees`); `TcpServer`: slots, descriptors and endpoints belong together (`ClientsServed`) |
| `runtime_parts` (`MCRuntime`) | see the `WITH` clauses | no node is freed under a reader (`NodesAlive`), queues keep their order (`TakenInOrder`), memory has one owner (`OneOwner`), locks and wake-ups (`LocksSound`), blocks and gaps of the Apple sender (`HandoffIntact`), one source and one channel map in the receiver (`OneSourceShown`), lifetimes in SuperCollider and Pure Data (`UnitsSafe`, `ObjectsSound`), the state an `aoo_client` object shows (`ObjectKeepsUp`) |
| `liveness` (`MCLiveness`) | one stream id; two one-frame binary messages and loss; two paths; one block in the Apple queue | an ended stream stops though its `/stop` was lost (`EndedStreamStops`), an invitation is answered or withdrawn (`InvitationAnswered`), every message is delivered (`EventuallyDelivered`) and the send buffer drains (`EventuallyForgotten`), a search ends (`SearchEnds`) with its probes counted right (`ProbesAccounted`), no block stays behind (`BlocksTaken`) |
| `peer_message_exact_multiple`, `peer_handshake_relay`, `sink_stream_idle`, `sink_stream_decoder`, `jitter_buffer_find`, `stream_messages_time` | instances that hold the case | six disagreements, see below |

The largest are `runtime_parts` (3.2 million distinct states) and
`protocol_parts` (1.3 million); every run ends within three minutes on two
cores.

`UnitsSafe` does not say that the SuperCollider plugin is free of faults. It
excludes a use of an object that is gone and keeps the registration of an object
with the client to the time the object exists. Three other faults are reachable
in the model, as in the code, and are outside it; they are listed below.

**Bounds.** They are chosen so that each hazard happens. Three messages are the
least with which one is delivered, one waits complete and one is a placeholder;
two frames the least with which a message is half received. Two streams are the
least that can be mixed up; a sink keeps the state of one stream only. A ring of
three blocks and five blocks to put into it make every position, a full ring, a
gap larger than the free space and a wrapped ring happen; `IntMax = 8` and a
first block 5 put the wrap of the sequence number into the run; `MaxMissing = 2`
(4 in the code) and `SearchThreshold = 2` (10) bring re-acquisition and the
binary search within reach; `Window` says how late a packet is. In `Resend` a
request has 2 bits instead of 16, so that a block of three frames needs two. The
list has three nodes and seven calls, enough to free a node and use its address
again; the pool a request that is split from a larger block and one that falls
back to the heap; the spin lock three threads below the `LOCKED` bit 4.
`SourceStream` has one sink and two streams: the flags and ids of sinks do not
touch each other, and the proof covers any number. A session has two clients and
one group, and `OneDisturbance` allows a fault or a call of the host but not
both. As each client makes few calls (`MaxCalls`) a member that leaves by a call
of its own while another one stays is not reached there; ejection and a lost
connection, which take the same way through the server, are. `TcpServer` purges at 1 stale client (100 in the code). What is proved
holds without the bounds.

**Symmetry.** `Clients` (`MCProtocol`), `Sources` (`MCRuntime`) and stream ids
(`MCSinkStream`) are only compared for equality. No run with a liveness property
uses symmetry.

**Deadlock** is checked in the runs of one component and in `peers`, where some
thread can always step. The three other runs with a `part` say `CHECK_DEADLOCK FALSE`: a component
whose calls are used up (`MaxCalls`, `MaxOps`, ...) really has nothing to do. The
waiting that would matter there is covered by the liveness properties.

**Fairness.** Threads loop, so their steps are weakly fair. What needs time to
pass (a resend that is due, the end of a probe session, a tick of the ping
timer) is always due again, because the code compares with a clock and never
gives up. The network is strongly fair where a sender repeats itself: a datagram
sent again and again arrives (`PeerMessage`, `PeerHandshake`, the requests to stop
and `/stop` messages in `SinkStream`); without that no protocol delivers anything.
The send thread and `/stop` are strongly fair outside the audio callback, since
neither runs in step with it, and so is the timeout of an invitation, which is
looked at in every round. In `MCLiveness` only one component runs, and two strong
fairness conditions of different components are stated as one disjunction to
keep the formula small. `EndedStreamStops` excepts low-latency streams (one that
buffers when its `/stop` is lost goes on buffering: the code excepts it from
giving up) and a user who never stops uninviting or resetting.

## What is proved

The theorems hold for every value of the constants that satisfies the named
assumptions (`...Assumption` in the modules; TLC evaluates them in the runs).
They ask for no more than the code gives: sizes are positive, a null value is
none of the others, a latency is no larger than the buffer, there are fewer
threads than the `LOCKED` bit of the spin lock, paths are finitely many.

* **PeerMessage** (`PeerMessageProofs`): types, `InOrder`, `BufferContiguous`;
  `DeliveredIntact` and the refinement of `MessageChannel` under `FramesCarry` (no
  multi-frame binary message is an exact multiple of the frame size);
  `ForgottenIsReceived` if no message is empty. Both conditions are real: without
  the first one the run `peer_message_exact_multiple` finds a counterexample, and
  a message without frames is forgotten as soon as it is sent. `IInv` says of every packet,
  buffered message and acknowledgement, wherever it is, which bytes and which
  received frames it stands for. Without the acknowledgements in flight
  (`AckInv`) `ForgottenIsReceived` is not inductive.
* **SinkStream** (`SinkStreamProofs`): types, `OnlyCurrentStream`, `DecoderFits`
  and the action property `IdleStays`. `IInv` adds what each thread knows between
  two of its steps: the message of the network thread is of a created stream, the
  token of the send thread was drawn by `inviteSource`, and the audio thread
  works with a decoder that no other thread takes away.
* **JitterBuffer** (`JitterBufferProofs`): types, `Consecutive`, `RingSound` (its
  parts as theorems of their own) and the refinement of `BlockQueue`. `Good(r)`
  describes a well-formed ring, and a lemma for each operation (`PushGood`,
  `PopGood`, ...) says that it keeps it; `RingStep` names the five things a step
  may do to the ring, `NextStep` shows that every action does one of them, and
  `StepRefines` that each is a step of the queue. The strengthening is the lower
  bound `last_pushed - size >= -1` and that a placeholder holds no frames.
* **Playout** (`PlayoutProofs`): `InSync`, and `NothingBehind` during the first
  round of sequence numbers (`sent <= IntMax`, 2^31 - 1 in the code). `NothingBehind`
  is not inductive: an empty ring forgets where it was. `Upcoming` bounds the
  number the ring expects next by the playout position whether it is empty or
  not, and `InStep` ties the position to the number popped last modulo `IntMax`;
  `NextNumber` is the arithmetic of a wrapped successor. Beyond the first round a
  receiver that slept through it could hold blocks of two rounds, which the
  numbers cannot tell apart; there `NothingBehind` is checked by TLC for packets
  that are late by at most `Window`.
* **SourceStream** (`SourceStreamInv` has the invariant, its types and the steps
  that leave the sinks alone, `SourceStreamProofs` the others): `StreamConsistent` and
  `ActiveSinkAnnounced`, for any number of sinks, streams and calls. The argument:
  ids are new (`Ids`: all ids and tokens in use are below `next_id`, and the token
  of an invitation that waits was never used); the history is of the current
  stream (`History`); what a sink got under its id agrees with format and history
  (`Streams`) except for the sinks that `make_new_stream` has yet to give a new id
  (`Restarting`), during which, by `Locks`, no `/start` is collected. Then a message
  that is sent agrees with the earlier ones under its id (`Consistent`). `Announced`
  says which flag is still set, or which thread is about to set or read it, at
  each point between the flag of a sink and the flag of the source.
* **Sync** (`SyncProofs`): `LocksSound`. `SignalForEveryWaiter` is inductive by
  counting: each step moves a thread between the waiters, the signallers and the
  negative part of `count_`. `SpinWord` says that the word is the number of
  readers, those about to undo their attempt included, plus `LOCKED`; the bound on
  the threads keeps readers from carrying into the bit. `MutexOwner` relates owner,
  depth and nested locks.
* **PeerBrowser** (`PeerBrowserProofs`): `ProbesAccounted`, inductive with types;
  lemmas say how starting, changing, finishing and dropping sessions changes the
  number of unfinished ones.

Only model-checked:

* the liveness properties, since fairness and ENABLED are out of the prover's
  reach;
* `MemoryPool`, which has a recursive operator (a walk along a free list), and
  the reachability of nodes in `ConcurrentList` and `Queues`, which would need
  induction along links;
* `SessionAgrees`, `ClientsServed`, `FramesSound`, `HandoffIntact` and the other
  properties of `protocol_parts` and `runtime_parts` not named above: no inductive
  invariant has been worked out for them;
* `NothingBehind` after the first wrap, as explained.

## What disagrees with the code's own words

Each is a run that TLC finishes with a counterexample; `findings` in
`PROJECT.json` quotes the text.

* `peer_message_exact_multiple`: a binary message of several full frames is
  delivered with its last frame unwritten (`peer.cpp:366`).
* `peer_handshake_relay`: of two peers that reach each other only through the
  relay, the one that has not timed out yet takes a relayed ping for a direct
  one and answers where nothing gets through (`peer.cpp:540`).
* `sink_stream_idle`: a stream that starts while the audio thread stops the one
  before ends up idle, and its data is ignored (`sink.cpp:1964`).
* `sink_stream_decoder`: after a failed decoder setup a second `/start` with the
  same format goes on without a decoder (`sink.cpp:1863`).
* `jitter_buffer_find`: after a resize the binary search runs to the capacity of
  the vector, not to its size (`packet_buffer.cpp:266`).
* `stream_messages_time`: a block that does not fit is counted twice by
  `process_samples_` and made up for once in `stream_samples_`; later messages go
  out late (`source.cpp:873`). What remains true is `NeverAhead`.

Met while modelling; the models have the behaviour and the properties are stated
around it:

* `send_xruns` goes on with stream ids it read before it released the lock
  (`source.cpp:1974`; the comment at line 1993 promises a snapshot in every
  iteration). An empty block of a new stream can go out under an old id, so
  `StreamConsistent` is about blocks with audio.
* The assertion `offset >= 0` (`source.cpp:2103`) fails when a scheduled message is
  passed by the empty blocks of an xrun.
* `login_cmd` asserts a connection that the timeout of an earlier handshake may
  have closed between the query and the login (`client.cpp:1275-1276`); the client
  of the model is then `crashed`.
* A user that the host has created is not bound to the client that joins under
  its name; no client does so in the model.
* An empty reliable message is never resent; if it is lost it blocks all later
  ones (`peer.cpp:346`). The runs have no empty message and the proof of
  `ForgottenIsReceived` assumes none.
* One of two peers may stay on the direct connection while the other one uses
  the relay (`peer.cpp:560`); `ConnectedTogether` allows it. A server may announce
  a relay and have it switched off; then it is a relay that loses everything, and
  a peer that fell back to it is half connected as in `peer_handshake_relay`.
* SuperCollider (`fault` of `ScUnits`): a command composes its reply through a unit
  that was freed meanwhile (`"unit"`, `Aoo.cpp:160`; `CmdData::alive()`, which would
  tell, is never called); the source or sink of a unit that was freed before its
  open command came back stays registered with the client of the node
  (`"dangling"`); the callback of a request of an `sc::AooClient` runs after that
  was freed (`"client"`).
* Pure Data: the tick of a client object that has no node reads through a null
  pointer (`fault` of `PdObjects`). The late reply to a leave erases a peer that has
  joined the group since (`pd/src/aoo_client.cpp:827`), so `ObjectKeepsUp` speaks of
  the groups.
* `free_list::empty()` is inverted (`rt_memory_pool.hpp:217`), so the bitset of the
  memory pool names the buckets that have no block; a request then takes new
  memory where a larger block could be split. `OneOwner` holds all the same.
* `semaphore::try_wait` spins for ever when the count is not positive; nothing
  calls it, and it is not translated.
* The Apple sender may process a gap before earlier blocks
  (`AOOAppleBridge.cpp:1549`); `HandoffIntact` is about the blocks.

## What is not modelled

* The time DLL, codecs, the interpolation of samples and the Apple latency
  controller: floating-point signal processing. The ratio, the failure of a
  decoder and the latency they yield are inputs of the models.
* Failures with no state of their own: a format that cannot be serialized, with
  which `send_start` returns early (`source.cpp:1669`), and a write that the
  resampler refuses (`sink.cpp:3034`, `3105`, `3204`), which the code calls a bug and
  after which the sink lets the buffer run out.
* In `SinkStream` the flush of a changed buffer size when the format is unchanged;
  whether a stream has low latency follows from its format.
* Messages of more than 256 frames, which the bit set of a message cannot hold
  (`message_buffer.cpp:16` and `110` assert it).
* A relay that works one way only (`server.cpp:1597` rewrites addresses of another
  IP family); in the model it reaches both peers or none.
* Two threads of the Apple application that control one sender at once:
  `AOOAppleSenderSetEnabled` does not take `destinationMutex`
  (`AOOAppleBridge.cpp:2347`); the model has one control thread.
* In `Queues` the value is written into a node in the same step that publishes it
  (`lockfree.hpp:289`): until then no other thread has the node. In `PdClient` a
  group is known by its name alone.
* Byte layouts of messages, sockets, time and utilities; the UDP server, a
  receiving loop whose queue is in `Queues`.
* Validation and telemetry of the low-latency configuration; a latency above the
  size of the buffer (`SizesAssumption`), which `sink.cpp:1633` rules out for each pair
  it computes and `setLowLatencyTarget` does not.
* Metadata of users and groups, unreliable peer messages (no state besides their
  reassembly), options that only store a number, metrics and user events except
  those that answer a call.
* `reset` and `resize` of the memory pool, the Apple advertiser, `aoo_server` for
  Pure Data, the command-line server and the examples.
* Weak memory: atomic accesses are sequentially consistent.
