----------------------------- MODULE MemoryPool -----------------------------
(***************************************************************************)
(* rt_memory_pool (aoo/src/rt_memory_pool.hpp): real-time threads allocate   *)
(* and free blocks of one arena without a lock.  A request takes a block of  *)
(* its own bucket, else one of a larger bucket, which is split, else fresh   *)
(* memory from the linear allocator, else memory from the heap.  The buckets *)
(* are free lists with tagged heads, and a tagged bitset says which of them  *)
(* to look at.  Sizes are counted in units of block_alignment and the size   *)
(* classes are scaled down: SmallLimit stands for 4096 bytes and Steps for   *)
(* the 16 classes in each power of two above it.                             *)
(***************************************************************************)
EXTENDS Integers, Sequences, FiniteSets

CONSTANTS Threads,
          Null,        \* free_list::sentinel
          Heap,        \* memory of the default allocator
          SmallBits,   \* small_alloc_limit_bits, without the alignment's
          Steps,       \* size classes in a power of two
          Buckets,     \* bucket_count
          PoolSize,    \* size of the arena
          Sizes,       \* the sizes requested
          MaxAllocs    \* bound: calls of allocate()

VARIABLES heads,   \* buckets_: the tagged head of each free list
          next,    \* memory_block::next of the block at an address
          bitset,  \* bitset_: its bits and its tag
          index,   \* index_ of the linear allocator
          used,    \* the blocks that callers hold: <<address, requested size>>
          thread, allocs

vars == <<heads, next, bitset, index, used, thread, allocs>>

SmallLimit == 2 ^ SmallBits
Bucket == 0 .. Buckets - 1
Ilog2(n) == CHOOSE k \in 0..20 : 2 ^ k <= n /\ n < 2 ^ (k + 1)

\* bucket_sizes_, as the constructor fills it.
bucket_sizes == [i \in Bucket |->
    IF i < SmallLimit THEN i + 1
    ELSE LET pow2 == 2 ^ ((i - SmallLimit) \div Steps + SmallBits)
             step == pow2 \div Steps
             rem  == (((i - SmallLimit) % Steps) * pow2) \div Steps
         IN  pow2 + ((rem + step) \div step) * step]

size_to_index == [size \in 1 .. bucket_sizes[Buckets - 1] - 1 |->
    IF size <= SmallLimit THEN size - 1
    ELSE LET k == Ilog2(size)
         IN  k * Steps + (((size * Steps) \div (2 ^ k)) % Steps) + SmallLimit - SmallBits * Steps]

Idle == [pc |-> "idle", size |-> 0, bucket |-> 0, head |-> Null, next |-> Null,
         bitset |-> Null, bits |-> {}, searched |-> FALSE, have |-> Null,
         block |-> Null, rest |-> <<>>]

Init ==
    /\ heads = [b \in Bucket |-> [tag |-> 0, value |-> Null]]
    /\ next = [a \in 0 .. PoolSize - 1 |-> Null]
    /\ bitset = [bits |-> {}, tag |-> 0]
    /\ index = 0 /\ used = {}
    /\ thread = [t \in Threads |-> Idle]
    /\ allocs = 0

At(t, pc) == thread[t].pc = pc

-----------------------------------------------------------------------------
(* allocate()                                                                *)

allocate(t, size) ==
    /\ At(t, "idle") /\ allocs < MaxAllocs
    /\ allocs' = allocs + 1
    /\ thread' = [thread EXCEPT ![t] = [Idle EXCEPT !.pc = "pop", !.size = size,
                                                    !.bucket = size_to_index[size]]]
    /\ UNCHANGED <<heads, next, bitset, index, used>>

\* find_matching_block(): the candidates are the buckets above the request's
\* whose bits were set when the bitset was read, the largest first.
Candidates(r) ==
    IF r.searched THEN r.bits \ {r.bucket}
    ELSE {b \in bitset.bits : b > size_to_index[r.size]}

\* The next bucket to try, or the linear allocator.
Search(r) ==
    LET bits == Candidates(r)
        r1 == [r EXCEPT !.searched = TRUE, !.bits = bits]
    IN  IF bits = {} THEN [r1 EXCEPT !.pc = "linear"]
        ELSE [r1 EXCEPT !.pc = "pop", !.bucket = CHOOSE b \in bits : \A c \in bits : c <= b]

\* free_list::pop(): the head is loaded, ...
pop(t) ==
    LET r == thread[t] IN
    /\ At(t, "pop")
    /\ thread' = [thread EXCEPT ![t] = [r EXCEPT !.pc = "pop_next", !.head = heads[r.bucket]]]
    /\ UNCHANGED <<heads, next, bitset, index, used, allocs>>

\* ... the link of its block is read, which another thread may have taken meanwhile, ...
pop_next(t) ==
    LET r == thread[t] IN
    /\ At(t, "pop_next")
    /\ thread' = [thread EXCEPT ![t] =
                    IF r.head.value = Null THEN Search([r EXCEPT !.head = Null])
                    ELSE [r EXCEPT !.pc = "pop_cas", !.next = next[r.head.value]]]
    /\ UNCHANGED <<heads, next, bitset, index, used, allocs>>

\* split_block(): what is left of a block beyond the request's bucket size, cut
\* into blocks of the buckets' sizes, the largest first.
Remainder(at, size) ==
    LET cut[n \in 0..size] ==
          IF n = 0 THEN <<>>
          ELSE LET i == size_to_index[n]
                   j == IF i >= SmallLimit THEN i - 1 ELSE i
               IN  <<[at |-> at + size - n, bucket |-> j]>> \o cut[n - bucket_sizes[j]]
    IN  cut[size]

split_block(at, block_index, start_index) ==
    Remainder(at + bucket_sizes[start_index], bucket_sizes[block_index] - bucket_sizes[start_index])

\* The exchange of a head succeeds if it is still the one that was loaded, tag included.
Exchanges_always(r) == TRUE
Exchanges(r) == heads[r.bucket] = r.head

\* The tag a new head gets, of tag_bits.
Retag(tag) == (tag + 1) % 2 ^ 16

\* ... and the head is exchanged, or loaded again.
pop_cas(t) ==
    LET r == thread[t]  start == size_to_index[r.size] IN
    /\ At(t, "pop_cas")
    /\ IF Exchanges(r)
       THEN /\ heads' = [heads EXCEPT ![r.bucket] =
                           [tag |-> Retag(r.head.tag), value |-> r.next]]
            /\ thread' = [thread EXCEPT ![t] =
                 [r EXCEPT !.pc = "bits", !.head = Null, !.next = Null, !.have = r.head.value,
                           !.rest = IF r.bucket > start /\ r.bucket >= SmallLimit
                                    THEN split_block(r.head.value, r.bucket, start)
                                    ELSE <<>>]]
       ELSE /\ thread' = [thread EXCEPT ![t] =
                 [r EXCEPT !.pc = "pop_next", !.head = heads[r.bucket], !.next = Null]]
            /\ UNCHANGED heads
    /\ UNCHANGED <<next, bitset, index, used, allocs>>

\* concurrent_linear_allocator::allocate(), whose loop ends when no other thread
\* has moved the index, and the fallback to the heap.
linear(t) ==
    LET r == thread[t]  size == bucket_sizes[size_to_index[r.size]]
        fits == PoolSize - index >= size IN
    /\ At(t, "linear")
    /\ index' = IF fits THEN index + size ELSE index
    /\ used' = used \cup {<<IF fits THEN index ELSE Heap, r.size>>}
    /\ thread' = [thread EXCEPT ![t] = Idle]
    /\ UNCHANGED <<heads, next, bitset, allocs>>

-----------------------------------------------------------------------------
(* deallocate(), and push_block() for it and for the rest of a split block.   *)

deallocate(t) ==
    /\ At(t, "idle")
    /\ \E u \in used :
         /\ used' = used \ {u}
         /\ thread' = [thread EXCEPT ![t] =
              IF u[1] = Heap THEN Idle
              ELSE [Idle EXCEPT !.pc = "push", !.bucket = size_to_index[u[2]], !.block = u[1]]]
    /\ UNCHANGED <<heads, next, bitset, index, allocs>>

\* free_list::push()
push(t) ==
    LET r == thread[t] IN
    /\ At(t, "push")
    /\ thread' = [thread EXCEPT ![t] = [r EXCEPT !.pc = "push_cas", !.head = heads[r.bucket]]]
    /\ UNCHANGED <<heads, next, bitset, index, used, allocs>>

push_cas(t) ==
    LET r == thread[t] IN
    /\ At(t, "push_cas")
    /\ next' = [next EXCEPT ![r.block] = r.head.value]
    /\ IF Exchanges(r)
       THEN /\ heads' = [heads EXCEPT ![r.bucket] =
                           [tag |-> Retag(r.head.tag), value |-> r.block]]
            /\ thread' = [thread EXCEPT ![t] = [r EXCEPT !.pc = "bits", !.head = Null, !.block = Null]]
       ELSE /\ thread' = [thread EXCEPT ![t] = [r EXCEPT !.head = heads[r.bucket]]]
            /\ UNCHANGED heads
    /\ UNCHANGED <<bitset, index, used, allocs>>

\* free_list::empty(), as it is written: true of a list that holds a block, so that the
\* bitset names the buckets that have none.
is_empty(b) == heads[b].value # Null

\* update_bitset(): the bitset is loaded, the bucket looked at, and the bit set
\* unless another thread has changed the bitset; then the remaining blocks.
update_bitset(t) ==
    /\ At(t, "bits")
    /\ thread' = [thread EXCEPT ![t].pc = "bits_check", ![t].bitset = bitset]
    /\ UNCHANGED <<heads, next, bitset, index, used, allocs>>

update_bitset_check(t) ==
    LET r == thread[t] IN
    /\ At(t, "bits_check")
    /\ thread' = [thread EXCEPT ![t].pc = "bits_cas",
                    ![t].bits = IF is_empty(r.bucket) THEN r.bitset.bits \ {r.bucket}
                                ELSE r.bitset.bits \cup {r.bucket}]
    /\ UNCHANGED <<heads, next, bitset, index, used, allocs>>

Done(t) ==
    LET r == thread[t] IN
    IF r.rest # <<>>
    THEN /\ thread' = [thread EXCEPT ![t] =
              [r EXCEPT !.pc = "push", !.bitset = Null, !.bits = {}, !.rest = Tail(r.rest),
                        !.bucket = Head(r.rest).bucket, !.block = Head(r.rest).at]]
         /\ UNCHANGED used
    ELSE /\ thread' = [thread EXCEPT ![t] = Idle]
         /\ used' = IF r.have = Null THEN used ELSE used \cup {<<r.have, r.size>>}

update_bitset_cas(t) ==
    LET r == thread[t] IN
    /\ At(t, "bits_cas")
    /\ IF bitset = r.bitset
       THEN /\ bitset' = [bits |-> r.bits, tag |-> (bitset.tag + 1) % 2 ^ 16]
            /\ Done(t)
       ELSE /\ thread' = [thread EXCEPT ![t].pc = "bits_check", ![t].bitset = bitset]
            /\ UNCHANGED <<bitset, used>>
    /\ UNCHANGED <<heads, next, index, allocs>>

-----------------------------------------------------------------------------
Next ==
    \E t \in Threads :
      \/ \E size \in Sizes : allocate(t, size)
      \/ pop(t) \/ pop_next(t) \/ pop_cas(t) \/ linear(t)
      \/ deallocate(t) \/ push(t) \/ push_cas(t)
      \/ update_bitset(t) \/ update_bitset_check(t) \/ update_bitset_cas(t)

Spec == Init /\ [][Next]_vars

-----------------------------------------------------------------------------
\* The addresses on the free list of a bucket.
RECURSIVE From(_, _)
From(a, seen) == IF a = Null \/ a \in seen THEN seen ELSE From(next[a], seen \cup {a})

Free(b) == From(heads[b].value, {})

\* Every piece of the arena that a caller, a free list or a thread in the
\* middle of a call has.
Pieces ==
    UNION {
      {[at |-> u[1], size |-> bucket_sizes[size_to_index[u[2]]], by |-> -1]
         : u \in {u \in used : u[1] # Heap}},
      UNION {{[at |-> a, size |-> bucket_sizes[b], by |-> b] : a \in Free(b)}
         : b \in Bucket},
      {[at |-> thread[t].have, size |-> bucket_sizes[size_to_index[thread[t].size]], by |-> t]
         : t \in {t \in Threads : thread[t].have # Null}},
      {[at |-> thread[t].block, size |-> bucket_sizes[thread[t].bucket], by |-> t]
         : t \in {t \in Threads : thread[t].block # Null}},
      UNION {{[at |-> thread[t].rest[i].at, size |-> bucket_sizes[thread[t].rest[i].bucket], by |-> t]
         : i \in DOMAIN thread[t].rest} : t \in Threads}}

\* No byte of the arena has two owners: the blocks of the callers, the blocks on
\* the free lists and those a thread is moving never overlap and never leave the
\* part the linear allocator has given out, whatever threads pop, push and split
\* at the same time (rt_memory_pool.hpp:200).
OneOwner ==
    /\ \A p \in Pieces : p.at + p.size <= index
    /\ \A p, q \in Pieces : p # q => p.at + p.size <= q.at \/ q.at + q.size <= p.at
=============================================================================
