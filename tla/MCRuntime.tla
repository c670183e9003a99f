----------------------------- MODULE MCRuntime ------------------------------
(***************************************************************************)
(* What the protocol runs on, for TLC: the list, queues, memory and locks  *)
(* of aoo/common, the Apple bridge, and the SuperCollider and Pure Data    *)
(* objects.  They do not act on each other: part says which of them runs,  *)
(* so that one run of TLC checks them all, each within its own bounds.     *)
(* The module extends Sync and instantiates the others; a component that   *)
(* does not run rests, Sync in an initial state.                           *)
(***************************************************************************)
EXTENDS Sync, TLC

CONSTANTS
    ListNodes, Owner, Reader, Collector, Null, Producers, QueueNodes, Allocators, Heap,
    Sources, Nobody, UGens, Senders, Receivers, ClientObjects, Endpoints

VARIABLES
    part,  \* the component that runs
    head, free, refcount, next, alive, list_thread, ops,
    first, divider, last, queue_next, data, producer, consumer, pushed, popped, ring,
    balance, rdhead, wrhead, writing, reading, written, taken,
    heads, memory_next, bitset, index, used, memory_thread, allocs,
    enabled, hasDestination, streaming, streamGeneration, running, shouldRun, queue,
    writeIndex, readIndex, gapQueue, gapWriteIndex, gapReadIndex, pending, audio,
    sender_thread, todo, sender_calls, position, processed, skipped,
    revision, mapCount, map, endpoint, streamState, sourceChannelCount, roundTrip, wireless,
    targetLatency, sinkTarget, receiver_todo, receiver_audio, setters, events,
    receiver_calls, announced,
    unit, delegate, toNRT, toRT, registered, client, created, requests, commands, fault,
    pd_object, node, has, listed, pd_queue, moves, pd_events, pd_fault,
    client_object, now, polling, client_events, replies, link, joined, members,
    client_pending, client_requests, messages, client_calls, changes

ChannelMaps == {<<0, 1>>, <<1>>, <<1, 1>>}

Symmetry == Permutations(Sources)

ListVars == <<head, free, refcount, next, alive, list_thread, ops>>
QueuesVars == <<first, divider, last, queue_next, data, producer, consumer, pushed, popped,
                ring, balance, rdhead, wrhead, writing, reading, written, taken>>
MemoryVars == <<heads, memory_next, bitset, index, used, memory_thread, allocs>>
SenderVars == <<enabled, hasDestination, streaming, streamGeneration, running, shouldRun,
                queue, writeIndex, readIndex, gapQueue, gapWriteIndex, gapReadIndex,
                pending, audio, sender_thread, todo, sender_calls, position, processed,
                skipped>>
ReceiverVars == <<revision, mapCount, map, endpoint, streamState, sourceChannelCount,
                  roundTrip, wireless, targetLatency, sinkTarget, receiver_todo,
                  receiver_audio, setters, events, receiver_calls, announced>>
UnitsVars == <<unit, delegate, toNRT, toRT, registered, client, created, requests, commands,
               fault>>
ObjectsVars == <<pd_object, node, has, listed, pd_queue, moves, pd_events, pd_fault>>
ClientVars == <<client_object, now, polling, client_events, replies, link, joined, members,
                client_pending, client_requests, messages, client_calls, changes>>
partvars == <<part, vars, ListVars, QueuesVars, MemoryVars, SenderVars, ReceiverVars, UnitsVars,
              ObjectsVars, ClientVars>>

List == INSTANCE ConcurrentList WITH
    Nodes <- ListNodes, Threads <- {Owner, Reader}, MaxOps <- 7, thread <- list_thread

Queues == INSTANCE Queues WITH
    Nodes <- QueueNodes, Capacity <- 2, MaxPushes <- 4, next <- queue_next

Memory == INSTANCE MemoryPool WITH
    SmallBits <- 2, Steps <- 2, Buckets <- 6, PoolSize <- 9, Sizes <- {1, 7},
    MaxAllocs <- 5, Threads <- Allocators, next <- memory_next, thread <- memory_thread

Sender == INSTANCE AppleSender WITH
    BlockFrames <- 2, Capacity <- 1, GapCapacity <- 1, CallSizes <- {1, 3}, MaxFrames <- 6,
    MaxCalls <- 3, thread <- sender_thread, calls <- sender_calls

Receiver == INSTANCE AppleReceiver WITH
    ChannelCount <- 2, Latencies <- {2}, ExpectedLatency <- 1, MaxEvents <- 3,
    MaxCalls <- 1, todo <- receiver_todo, audio <- receiver_audio, calls <- receiver_calls

Units == INSTANCE ScUnits WITH
    Units <- UGens, Ports <- {1}, Ids <- {1}, MaxCommands <- 3, MaxClients <- 1

Objects == INSTANCE PdObjects WITH
    Ports <- {1, 2}, Ids <- {1}, MaxMoves <- 4, MaxEvents <- 3, object <- pd_object,
    queue <- pd_queue, events <- pd_events, fault <- pd_fault

Client == INSTANCE PdClient WITH
    Groups <- {"G"}, Users <- {"u"}, Delays <- {-1, 0, 2}, MaxTime <- 3, MaxRequests <- 4,
    MaxMessages <- 2, MaxChanges <- 1, object <- client_object, events <- client_events,
    requests <- client_requests, pending <- client_pending, calls <- client_calls

Parts == {"sync", "list", "queues", "memory", "sender", "receiver", "units", "objects",
           "client"}

\* The variables of a component that does not run.
ListRests ==
    /\ head = 0 /\ free = 0 /\ refcount = 0 /\ next = 0 /\ alive = 0 /\ list_thread = 0
    /\ ops = 0

QueuesRests ==
    /\ first = 0 /\ divider = 0 /\ last = 0 /\ queue_next = 0 /\ data = 0 /\ producer = 0
    /\ consumer = 0 /\ pushed = 0 /\ popped = 0 /\ ring = 0 /\ balance = 0 /\ rdhead = 0
    /\ wrhead = 0 /\ writing = 0 /\ reading = 0 /\ written = 0 /\ taken = 0

MemoryRests ==
    /\ heads = 0 /\ memory_next = 0 /\ bitset = 0 /\ index = 0 /\ used = 0
    /\ memory_thread = 0 /\ allocs = 0

SenderRests ==
    /\ enabled = 0 /\ hasDestination = 0 /\ streaming = 0 /\ streamGeneration = 0
    /\ running = 0 /\ shouldRun = 0 /\ queue = 0 /\ writeIndex = 0 /\ readIndex = 0
    /\ gapQueue = 0 /\ gapWriteIndex = 0 /\ gapReadIndex = 0 /\ pending = 0 /\ audio = 0
    /\ sender_thread = 0 /\ todo = 0 /\ sender_calls = 0 /\ position = 0 /\ processed = 0
    /\ skipped = 0

ReceiverRests ==
    /\ revision = 0 /\ mapCount = 0 /\ map = 0 /\ endpoint = 0 /\ streamState = 0
    /\ sourceChannelCount = 0 /\ roundTrip = 0 /\ wireless = 0 /\ targetLatency = 0
    /\ sinkTarget = 0 /\ receiver_todo = 0 /\ receiver_audio = 0 /\ setters = 0
    /\ events = 0 /\ receiver_calls = 0 /\ announced = 0

UnitsRests ==
    /\ unit = 0 /\ delegate = 0 /\ toNRT = 0 /\ toRT = 0 /\ registered = 0 /\ client = 0
    /\ created = 0 /\ requests = 0 /\ commands = 0 /\ fault = 0

ObjectsRests ==
    /\ pd_object = 0 /\ node = 0 /\ has = 0 /\ listed = 0 /\ pd_queue = 0 /\ moves = 0
    /\ pd_events = 0 /\ pd_fault = 0

ClientRests ==
    /\ client_object = 0 /\ now = 0 /\ polling = 0 /\ client_events = 0 /\ replies = 0
    /\ link = 0 /\ joined = 0 /\ members = 0 /\ client_pending = 0 /\ client_requests = 0
    /\ messages = 0 /\ client_calls = 0 /\ changes = 0

PartsInit ==
    /\ part \in Parts
    /\ Init /\ (part # "sync" => object = "semaphore")
    /\ IF part = "list" THEN List!Init ELSE ListRests
    /\ IF part = "queues" THEN Queues!Init ELSE QueuesRests
    /\ IF part = "memory" THEN Memory!Init ELSE MemoryRests
    /\ IF part = "sender" THEN Sender!Init ELSE SenderRests
    /\ IF part = "receiver" THEN Receiver!Init ELSE ReceiverRests
    /\ IF part = "units" THEN Units!Init ELSE UnitsRests
    /\ IF part = "objects" THEN Objects!Init ELSE ObjectsRests
    /\ IF part = "client" THEN Client!Init ELSE ClientRests

PartsNext ==
    \/ /\ part = "sync" /\ Next
       /\ UNCHANGED <<part, ListVars, QueuesVars, MemoryVars, SenderVars, ReceiverVars,
                         UnitsVars, ObjectsVars, ClientVars>>
    \/ /\ part = "list" /\ List!Next
       /\ UNCHANGED <<part, vars, QueuesVars, MemoryVars, SenderVars, ReceiverVars, UnitsVars,
                         ObjectsVars, ClientVars>>
    \/ /\ part = "queues" /\ Queues!Next
       /\ UNCHANGED <<part, vars, ListVars, MemoryVars, SenderVars, ReceiverVars, UnitsVars,
                         ObjectsVars, ClientVars>>
    \/ /\ part = "memory" /\ Memory!Next
       /\ UNCHANGED <<part, vars, ListVars, QueuesVars, SenderVars, ReceiverVars, UnitsVars,
                         ObjectsVars, ClientVars>>
    \/ /\ part = "sender" /\ Sender!Next
       /\ UNCHANGED <<part, vars, ListVars, QueuesVars, MemoryVars, ReceiverVars, UnitsVars,
                         ObjectsVars, ClientVars>>
    \/ /\ part = "receiver" /\ Receiver!Next
       /\ UNCHANGED <<part, vars, ListVars, QueuesVars, MemoryVars, SenderVars, UnitsVars,
                         ObjectsVars, ClientVars>>
    \/ /\ part = "units" /\ Units!Next
       /\ UNCHANGED <<part, vars, ListVars, QueuesVars, MemoryVars, SenderVars, ReceiverVars,
                         ObjectsVars, ClientVars>>
    \/ /\ part = "objects" /\ Objects!Next
       /\ UNCHANGED <<part, vars, ListVars, QueuesVars, MemoryVars, SenderVars, ReceiverVars,
                         UnitsVars, ClientVars>>
    \/ /\ part = "client" /\ Client!Next
       /\ UNCHANGED <<part, vars, ListVars, QueuesVars, MemoryVars, SenderVars, ReceiverVars,
                         UnitsVars, ObjectsVars>>

PartsSpec == PartsInit /\ [][PartsNext]_partvars

-----------------------------------------------------------------------------
\* ConcurrentList: a node is not freed while a thread may still look at it.
NodesAlive == part = "list" => List!NodesAlive

\* Queues: what is taken from a queue is what was put into it, in order.
TakenInOrder == part = "queues" => Queues!TakenInOrder

\* MemoryPool: a piece of memory belongs to one owner.
OneOwner == part = "memory" => Memory!OneOwner

\* AppleSender: a block reaches the source as the audio thread left it, once, in its
\* place and in the stream it was captured for.
HandoffIntact == part = "sender" => Sender!HandoffIntact

\* AppleReceiver: what is shown and played is of one source and one channel map.
OneSourceShown == part = "receiver" => Receiver!OneSourceShown

\* ScUnits: a command or an event finds the source or sink of its unit, and the
\* client of the node knows that of an initialized unit as long as it exists and no
\* longer (what happens to a unit freed before it was initialized is not covered).
UnitsSafe == part = "units" => Units!UnitsSafe

\* PdObjects: a node lives as long as objects hold it and knows only these, and a
\* sender lists every sink it sends to (a tick of a client object without a node, which
\* the code does not guard against, is not covered).
ObjectsSound == part = "objects" => Objects!ObjectsSound

\* PdClient: an object tells what its client knows, and sends what it was given.
ObjectKeepsUp == part = "client" => Client!ObjectKeepsUp
=============================================================================
