----------------------------- MODULE MCProtocol -----------------------------
(***************************************************************************)
(* The parts of the protocol for TLC: the stream of a source, its messages,*)
(* resend requests, the resampler, the memory of received data, messages at*)
(* the sink, the session of clients and server and the TCP server.  They do*)
(* not act on each other here: part says which of them runs, so that one   *)
(* run of TLC checks them all, each within its own bounds.  The module    *)
(* extends SourceStream and instantiates the others; a component that does *)
(* not run rests, SourceStream in its initial state.                       *)
(***************************************************************************)
EXTENDS SourceStream, TLC

CONSTANTS
    Memory, Null, Clients, HostUsers, Names, None, Fds

VARIABLES
    part,  \* the component that runs
    state, process_samples, stream_samples, messages_resampler, messages_audio_queue,
    capacity, messages_xruns, adding, messages_taken, messages_lost, message_queue,
    message_prio_queue, messages_sent, messages_messages, messages_blocks, messages_streams,
    profile, binary, now, first, size, slots, resend_requests, wanted, told, packets, asked,
    args, method, resampler_size, advance, buffer, wrpos, rdpos, balance, written, taken,
    heard, setups,
    frames_live, bin, next, index, queue, num, store, base, net, frames_audio, added,
    frames_packets,
    stream_messages, sink_process_samples, sink_stream_samples, stock, sink_sent, given,
    last, skipped, lost,
    client, session_calls, connections, faults, clients_, groups_, next_group_id_, deferred,
    message_queue_, hostcalls, up, down, alive, served,
    clients, poll, stale, count, running, pc, tcp_index, listening, endpoints, socket,
    incoming, event, waiting, ids, tcp_sent, starts

\* One use of the resampler: blocks of f frames at rate a become blocks of t at rate b.
Setup(f, t, fixed_n, a, b, fixed_sr, mode) ==
    [nfrom |-> f, nto |-> t, fixed_n |-> fixed_n, srfrom |-> a, srto |-> b,
     fixed_sr |-> fixed_sr, mode |-> mode]

\* Drifting clocks with two methods of interpolation, both integer ratios, two
\* ways of only changing the block size, and nothing to do at all.
Setups == {Setup(8, 7, TRUE, 1, 1, FALSE, "cubic"), Setup(7, 8, TRUE, 1, 1, FALSE, "linear"),
           Setup(4, 6, TRUE, 2, 1, TRUE, "cubic"), Setup(6, 4, TRUE, 1, 2, TRUE, "hold"),
           Setup(6, 6, TRUE, 1, 2, TRUE, "cubic"), Setup(3, 4, TRUE, 1, 1, TRUE, "cubic"),
           Setup(4, 4, FALSE, 1, 1, TRUE, "cubic"), Setup(4, 4, TRUE, 1, 1, TRUE, "cubic")}

\* A fault or a call of the host, but not both: each alone meets every message of a session.
OneDisturbance == part = "session" => faults + hostcalls <= 1

Symmetry == Permutations(Clients)

MessagesVars == <<state, process_samples, stream_samples, messages_resampler,
                  messages_audio_queue, capacity, messages_xruns, adding, messages_taken,
                  messages_lost, message_queue, message_prio_queue, messages_sent,
                  messages_messages, messages_blocks, messages_streams>>
ResendVars == <<profile, binary, now, first, size, slots, resend_requests, wanted, told,
                packets, asked>>
ResamplerVars == <<args, method, resampler_size, advance, buffer, wrpos, rdpos, balance,
                   written, taken, heard, setups>>
FramesVars == <<frames_live, bin, next, index, queue, num, store, base, net, frames_audio,
                added, frames_packets>>
SinkMessagesVars == <<stream_messages, sink_process_samples, sink_stream_samples, stock,
                      sink_sent, given, last, skipped, lost>>
SessionVars == <<client, session_calls, connections, faults, clients_, groups_,
                 next_group_id_, deferred, message_queue_, hostcalls, up, down, alive,
                 served>>
TcpServerVars == <<clients, poll, stale, count, running, pc, tcp_index, listening,
                   endpoints, socket, incoming, event, waiting, ids, tcp_sent, starts>>
partvars == <<part, vars, MessagesVars, ResendVars, ResamplerVars, FramesVars, SinkMessagesVars,
              SessionVars, TcpServerVars>>

Messages == INSTANCE StreamMessages WITH
    Block <- 1, Group <- 2, QueueSizes <- {1, 2}, MaxOffset <- 1, MaxMessages <- 1,
    MaxBlocks <- 7, MaxStreams <- 1, resampler <- messages_resampler,
    audio_queue <- messages_audio_queue, xruns <- messages_xruns, taken <- messages_taken,
    lost <- messages_lost, sent <- messages_sent, messages <- messages_messages,
    blocks <- messages_blocks, streams <- messages_streams

Resend == INSTANCE Resend WITH
    Capacity <- 2, NumFrames <- 3, Width <- 2, MaxRequests <- 2, Interval <- 2, Limit <- 2,
    Profiles <- {"none", "wired", "wireless"}, RoundTrips <- {0, 1}, Margin <- 0,
    MaxBlocks <- 4, MaxPackets <- 3, MaxTime <- 3, requests <- resend_requests

Resampler == INSTANCE Resampler WITH
    Unit <- 10, Drift <- {-1, 0, 1}, MaxFrames <- 36, MaxSetups <- 1, size <- resampler_size

Frames == INSTANCE DataFrames WITH
    Frames <- Memory, SmallLimit <- 1, BitsetSize <- 2, Counts <- {1, 3}, Slots <- 1,
    MaxBlocks <- 2, MaxPackets <- 3, live <- frames_live, audio <- frames_audio,
    packets <- frames_packets

SinkMessages == INSTANCE SinkMessages WITH
    Unit <- 4, Block <- 2, StreamBlock <- 12, Offsets <- {0, 3, 7}, Delay <- 4,
    MaxMessages <- 3, MaxTime <- 40, process_samples <- sink_process_samples,
    stream_samples <- sink_stream_samples, sent <- sink_sent

Session == INSTANCE Session WITH
    MaxCalls <- 4, MaxWaiting <- 1, MaxConnections <- 2, MaxFaults <- 1, MaxHostCalls <- 1,
    calls <- session_calls

TcpServer == INSTANCE TcpServer WITH
    MaxStale <- 1, MaxAccepts <- 3, MaxData <- 1, MaxStarts <- 2, index <- tcp_index,
    sent <- tcp_sent

Parts == {"source", "messages", "resend", "resampler", "frames", "sink", "session",
           "server"}

\* The variables of a component that does not run.
MessagesRests ==
    /\ state = 0 /\ process_samples = 0 /\ stream_samples = 0 /\ messages_resampler = 0
    /\ messages_audio_queue = 0 /\ capacity = 0 /\ messages_xruns = 0 /\ adding = 0
    /\ messages_taken = 0 /\ messages_lost = 0 /\ message_queue = 0 /\ message_prio_queue = 0
    /\ messages_sent = 0 /\ messages_messages = 0 /\ messages_blocks = 0
    /\ messages_streams = 0

ResendRests ==
    /\ profile = 0 /\ binary = 0 /\ now = 0 /\ first = 0 /\ size = 0 /\ slots = 0
    /\ resend_requests = 0 /\ wanted = 0 /\ told = 0 /\ packets = 0 /\ asked = 0

ResamplerRests ==
    /\ args = 0 /\ method = 0 /\ resampler_size = 0 /\ advance = 0 /\ buffer = 0
    /\ wrpos = 0 /\ rdpos = 0 /\ balance = 0 /\ written = 0 /\ taken = 0 /\ heard = 0
    /\ setups = 0

FramesRests ==
    /\ frames_live = 0 /\ bin = 0 /\ next = 0 /\ index = 0 /\ queue = 0 /\ num = 0
    /\ store = 0 /\ base = 0 /\ net = 0 /\ frames_audio = 0 /\ added = 0
    /\ frames_packets = 0

SinkMessagesRests ==
    /\ stream_messages = 0 /\ sink_process_samples = 0 /\ sink_stream_samples = 0
    /\ stock = 0 /\ sink_sent = 0 /\ given = 0 /\ last = 0 /\ skipped = 0 /\ lost = 0

SessionRests ==
    /\ client = 0 /\ session_calls = 0 /\ connections = 0 /\ faults = 0 /\ clients_ = 0
    /\ groups_ = 0 /\ next_group_id_ = 0 /\ deferred = 0 /\ message_queue_ = 0
    /\ hostcalls = 0 /\ up = 0 /\ down = 0 /\ alive = 0 /\ served = 0

TcpServerRests ==
    /\ clients = 0 /\ poll = 0 /\ stale = 0 /\ count = 0 /\ running = 0 /\ pc = 0
    /\ tcp_index = 0 /\ listening = 0 /\ endpoints = 0 /\ socket = 0 /\ incoming = 0
    /\ event = 0 /\ waiting = 0 /\ ids = 0 /\ tcp_sent = 0 /\ starts = 0

PartsInit ==
    /\ part \in Parts
    /\ Init
    /\ IF part = "messages" THEN Messages!Init ELSE MessagesRests
    /\ IF part = "resend" THEN Resend!Init ELSE ResendRests
    /\ IF part = "resampler" THEN Resampler!Init ELSE ResamplerRests
    /\ IF part = "frames" THEN Frames!Init ELSE FramesRests
    /\ IF part = "sink" THEN SinkMessages!Init ELSE SinkMessagesRests
    /\ IF part = "session" THEN Session!Init ELSE SessionRests
    /\ IF part = "server" THEN TcpServer!Init ELSE TcpServerRests

PartsNext ==
    \/ /\ part = "source" /\ Next
       /\ UNCHANGED <<part, MessagesVars, ResendVars, ResamplerVars, FramesVars,
                         SinkMessagesVars, SessionVars, TcpServerVars>>
    \/ /\ part = "messages" /\ Messages!Next
       /\ UNCHANGED <<part, vars, ResendVars, ResamplerVars, FramesVars, SinkMessagesVars,
                         SessionVars, TcpServerVars>>
    \/ /\ part = "resend" /\ Resend!Next
       /\ UNCHANGED <<part, vars, MessagesVars, ResamplerVars, FramesVars, SinkMessagesVars,
                         SessionVars, TcpServerVars>>
    \/ /\ part = "resampler" /\ Resampler!Next
       /\ UNCHANGED <<part, vars, MessagesVars, ResendVars, FramesVars, SinkMessagesVars,
                         SessionVars, TcpServerVars>>
    \/ /\ part = "frames" /\ Frames!Next
       /\ UNCHANGED <<part, vars, MessagesVars, ResendVars, ResamplerVars, SinkMessagesVars,
                         SessionVars, TcpServerVars>>
    \/ /\ part = "sink" /\ SinkMessages!Next
       /\ UNCHANGED <<part, vars, MessagesVars, ResendVars, ResamplerVars, FramesVars,
                         SessionVars, TcpServerVars>>
    \/ /\ part = "session" /\ Session!Next
       /\ UNCHANGED <<part, vars, MessagesVars, ResendVars, ResamplerVars, FramesVars,
                         SinkMessagesVars, TcpServerVars>>
    \/ /\ part = "server" /\ TcpServer!Next
       /\ UNCHANGED <<part, vars, MessagesVars, ResendVars, ResamplerVars, FramesVars,
                         SinkMessagesVars, SessionVars>>

PartsSpec == PartsInit /\ [][PartsNext]_partvars

-----------------------------------------------------------------------------
\* StreamMessages: the clock of the stream never runs ahead of the clock of process.
NeverAhead == part = "messages" => Messages!NeverAhead

\* Resend: a sink asks for the frames it misses and for no others.
AsksForMissing == part = "resend" => Resend!AsksForMissing

\* Resend: requests for a block keep their distance.
RequestsSpaced == [][part = "resend" => Resend!Spaced]_partvars

\* Resampler: it plays what was written and never blocks the stream.
ResamplerSound == part = "resampler" => Resampler!ResamplerSound

\* DataFrames: every frame has one owner, every block its frames in order.
FramesSound == part = "frames" => Frames!FramesSound

\* SinkMessages: messages are given out in order, in their block, and once.
MessagesOnTime == part = "sink" => SinkMessages!MessagesOnTime

\* Session: clients and server agree about members, peers and requests.
SessionAgrees == part = "session" => Session!SessionAgrees

\* TcpServer: slots, descriptors and endpoints belong together.
ClientsServed == part = "server" => TcpServer!ClientsServed
=============================================================================
