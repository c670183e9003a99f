--------------------------- MODULE PlayoutProofs ---------------------------
(***************************************************************************)
(* Low-latency playout of the jitter buffer: nothing in the buffer lies    *)
(* behind the playout position, and silence keeps the position and the     *)
(* sequence numbers together.  Both hold in the first round of sequence    *)
(* numbers, in which the number of a block is its position.                *)
(***************************************************************************)
EXTENDS JitterBufferProofs

\* A leaf that names no prover is tried with each of these in turn.
USE SMT, Zenon, SMTT(30)

\* The blocks in ring r are among the first n (a placeholder has no position), and they begin at position p or behind it; so does
\* the next one if the ring knows which one that is and p has not left the round.
Upcoming(r, p, n) ==
    /\ \A k \in 0 .. r.size - 1 :
          IF placeholder(At(r, k)) THEN At(r, k).pos = 0 ELSE At(r, k).pos < n
    /\ r.size > 0 => r.last_pushed - r.size + 1 >= p
    /\ r.last_pushed # Sentinel /\ p <= IntMax => r.last_pushed - r.size + 1 >= p

\* Position p is the one behind the block that was played last.
InStep(r, p) ==
    /\ r.last_popped # Sentinel
    /\ p >= 1
    /\ p % IntMax = (r.last_popped + 1) % IntMax

\* The inductive invariant.
Playout ==
    profile # "none" /\ sent <= IntMax =>
        /\ Upcoming(jb, position, sent)
        /\ stream_state = "active" => InStep(jb, position)

-----------------------------------------------------------------------------
(* Sequence numbers and positions                                          *)

\* A position in the first round is its own sequence number; the one behind it is 0.
LEMMA FirstRound ==
    ASSUME NEW n \in Nat \ {0}
    PROVE  /\ \A x \in 0 .. n - 1 : x % n = x
           /\ n % n = 0
  BY Z3

\* The next sequence number of a position.
LEMMA NextNumber ==
    ASSUME NEW n \in Nat \ {0}, NEW x \in Nat
    PROVE  /\ x % n \in 0 .. n - 1
           /\ (x + 1) % n = IF x % n = n - 1 THEN 0 ELSE (x % n) + 1
<1> DEFINE q == x \div n
           r == x % n
           u == (x + 1) \div n
           v == (x + 1) % n
<1>1. q \in Int /\ r \in 0 .. n - 1 /\ x = n * q + r
  OBVIOUS
<1>2. u \in Int /\ v \in 0 .. n - 1 /\ x + 1 = n * u + v
  OBVIOUS
<1> HIDE DEF q, r, u, v
<1>3. PICK d \in Int : d = u - q
  BY <1>1, <1>2
<1>4. n * d = n * u - n * q
  BY <1>1, <1>2, <1>3
<1>5. n * d = r + 1 - v
  BY <1>1, <1>2, <1>4
<1>6. d < 2
  <2>1. d >= 2 => n * d >= 2 * n
    BY <1>3
  <2>2. QED
    BY <2>1, <1>1, <1>2, <1>5
<1>7. d > -1
  <2>1. d <= -1 => n * d <= -n
    BY <1>3
  <2>2. QED
    BY <2>1, <1>1, <1>2, <1>5
<1>8. d = 0 \/ d = 1
  BY <1>3, <1>6, <1>7
<1>9. v = r + 1 \/ v = r + 1 - n
  BY <1>5, <1>8, <1>1, <1>2
<1>10. v = IF r = n - 1 THEN 0 ELSE r + 1
  BY <1>9, <1>1, <1>2
<1>11. QED
  BY <1>1, <1>10 DEF r, v

-----------------------------------------------------------------------------
(* Rings and positions                                                     *)

LEMMA RingTypes ==
    ASSUME NEW r, Good(r)
    PROVE  /\ IntMax \in Nat \ {0} /\ r.capacity \in Nat \ {0} /\ r.size \in 0 .. r.capacity
           /\ r.last_pushed \in Int /\ r.last_popped \in Int
           /\ Sentinel \in Int /\ Sentinel < -1
           /\ r.last_pushed < IntMax /\ r.last_popped < IntMax
           /\ r.last_pushed # Sentinel => r.last_pushed >= -1
           /\ r.last_popped # Sentinel => r.last_popped >= 0
<1>1. /\ IntMax \in Nat \ {0} /\ r.capacity \in Nat \ {0} /\ r \in Rings(r.capacity)
  BY SizesAssumption, NumbersAssumption DEF Good
<1>2. /\ r.size \in 0 .. r.capacity /\ r.last_pushed \in -1 .. IntMax - 1 \cup {Sentinel}
      /\ r.last_popped \in 0 .. IntMax - 1 \cup {Sentinel}
  BY <1>1 DEF Rings
<1>3. Sentinel \in Int /\ Sentinel < -1
  BY <1>1 DEF Sentinel
<1> QED  BY <1>1, <1>2, <1>3

\* In the first round a block lies at the position that its place in the ring says.
LEMMA PlaceOf ==
    ASSUME NEW r, Good(r), NEW p, NEW n \in Nat, n <= IntMax, Upcoming(r, p, n),
           NEW k \in 0 .. r.size - 1
    PROVE  /\ At(r, k).pos \in Nat /\ At(r, k).received_frames \in Int
           /\ At(r, k).num_frames \in Nat
           /\ At(r, k).pos = IF placeholder(At(r, k)) THEN 0
                             ELSE r.last_pushed - r.size + 1 + k
<1>1. /\ IntMax \in Nat \ {0} /\ r.capacity \in Nat \ {0} /\ r.size \in 0 .. r.capacity
      /\ r \in Rings(r.capacity) /\ NumFrames \in Nat
  BY RingTypes, NumbersAssumption DEF Good
<1>2. k \in 0 .. r.capacity - 1
  BY <1>1
<1>3. At(r, k) \in Blocks
  BY <1>1, <1>2, AtFacts
<1>4. At(r, k).pos \in Nat /\ At(r, k).received_frames \in Int /\ At(r, k).num_frames \in Nat
  BY <1>1, <1>3 DEF Blocks
<1>5. ASSUME ~placeholder(At(r, k))
      PROVE  At(r, k).pos = r.last_pushed - r.size + 1 + k
  <2>1. At(r, k).pos < n
    BY <1>5 DEF Upcoming
  <2>2. At(r, k).sequence = At(r, k).pos % IntMax
    BY <1>5 DEF Good, Counted
  <2>3. At(r, k).sequence = r.last_pushed - r.size + 1 + k
    BY DEF Good
  <2>4. At(r, k).pos % IntMax = At(r, k).pos
    BY <1>1, <1>4, <2>1, FirstRound
  <2> QED  BY <2>2, <2>3, <2>4
<1>6. placeholder(At(r, k)) => At(r, k).pos = 0
  BY DEF Upcoming
<1> QED  BY <1>4, <1>5, <1>6

\* The blocks that complete_blocks() counts are complete.
LEMMA CompleteOnes ==
    ASSUME NEW r, r.size \in Nat, NEW k \in Nat, k < complete_blocks(r, 0)
    PROVE  k < r.size /\ complete(At(r, k))
<1> DEFINE S == {j \in 0 .. r.size - 1 : \A i \in 0 .. j : complete(At(r, i))}
<1>1. complete_blocks(r, 0) = Cardinality(S)
  BY DEF complete_blocks
<1>2. k < r.size /\ Cardinality(S) \in Nat
  BY <1>1, CompleteBound
<1>3. ASSUME ~complete(At(r, k)) PROVE FALSE
  <2>1. S \subseteq 0 .. k - 1
    <3> SUFFICES ASSUME NEW j \in S, ~(j \in 0 .. k - 1) PROVE FALSE
      OBVIOUS
    <3>1. j \in Nat /\ k \in 0 .. j
      BY <1>2
    <3> QED  BY <1>3, <3>1
  <2> HIDE DEF S
  <2>2. IsFiniteSet(0 .. k - 1) /\ Cardinality(0 .. k - 1) = k
    BY Below
  <2>3. Cardinality(S) <= k
    BY <2>1, <2>2, FS_Subset
  <2> QED  BY <1>1, <1>2, <2>3
<1> QED  BY <1>2, <1>3

\* Dropping blocks, the last of which is complete unless it is the only one, leaves blocks
\* at the new position.
LEMMA SkipUpcoming ==
    ASSUME NEW r, Good(r), NEW p \in Nat, NEW s \in Nat, s <= IntMax, Upcoming(r, p, s),
           NEW n \in 0 .. r.size, n > 1 => complete(At(r, n - 1))
    PROVE  /\ Upcoming(Skip(r, p, n).jb, Skip(r, p, n).position, s)
           /\ n > 0 /\ complete(At(r, n - 1)) =>
                 InStep(Skip(r, p, n).jb, Skip(r, p, n).position)
           /\ n = 0 => Skip(r, p, n).jb = r /\ Skip(r, p, n).position = p
<1> DEFINE q == Skip(r, p, n).jb
           x == Skip(r, p, n).position
           j == n - 1
<1>1. Good(q) /\ x \in Nat /\ Popped(r, q, n)
  BY SkipGood
<1>2. n = 0 => q = r /\ x = p
  BY DEF Skip, pop
<1>3. n # 0 => x = Behind(p, At(r, j))
  BY DEF Skip
<1>4. /\ IntMax \in Nat \ {0} /\ r.size \in Nat /\ r.last_pushed \in Int
      /\ Sentinel \in Int /\ Sentinel < -1 /\ r.last_pushed < IntMax
      /\ q.size \in Nat /\ q.last_pushed \in Int
  BY <1>1, RingTypes
<1>5. n # 0 => j \in 0 .. r.size - 1
  BY <1>4
<1>6. n > 1 => complete(At(r, j))
  OBVIOUS
<1>7. n > 0 => n - 1 = j /\ j \in Nat /\ n = j + 1
  OBVIOUS
<1> HIDE DEF q, x, j
<1>8. CASE n = 0
  BY <1>2, <1>8 DEF q, x
<1>9. CASE n > 0
  <2> DEFINE b == At(r, j)
             f == r.last_pushed - r.size + 1
  <2>1. /\ b.pos \in Nat /\ b.received_frames \in Int /\ b.num_frames \in Nat
        /\ b.pos = IF placeholder(b) THEN 0 ELSE f + j
    BY <1>5, <1>9, PlaceOf
  <2>2. f \in Nat /\ f >= p /\ f + j < IntMax /\ r.size >= n
    <3>1. r.size > 0 /\ r.size >= n
      BY <1>4, <1>9
    <3>2. r.last_pushed - r.size >= -1 /\ f >= p
      BY <3>1 DEF Good, Upcoming
    <3> QED  BY <1>4, <1>7, <1>9, <3>1, <3>2
  <2>3. /\ q.size = r.size - n /\ q.last_pushed = r.last_pushed
        /\ q.last_popped = r.last_pushed - r.size + n
        /\ \A k \in 0 .. q.size - 1 : At(q, k) = At(r, n + k)
    BY <1>1, <1>9 DEF Popped
  <2>4. x = IF b.pos + 1 > p THEN b.pos + 1 ELSE p
    BY <1>3, <1>9 DEF Behind
  <2>5. \A k \in 0 .. q.size - 1 :
           IF placeholder(At(q, k)) THEN At(q, k).pos = 0 ELSE At(q, k).pos < s
    <3> SUFFICES ASSUME NEW k \in 0 .. q.size - 1
                 PROVE  IF placeholder(At(q, k)) THEN At(q, k).pos = 0 ELSE At(q, k).pos < s
      OBVIOUS
    <3> DEFINE i == n + k
    <3>1. At(q, k) = At(r, i)
      BY <2>3
    <3>2. i \in 0 .. r.size - 1
      BY <1>4, <2>3
    <3> HIDE DEF i
    <3>3. IF placeholder(At(r, i)) THEN At(r, i).pos = 0 ELSE At(r, i).pos < s
      BY <3>2 DEF Upcoming
    <3> QED  BY <3>1, <3>3
  <2>6. complete(b) => ~placeholder(b)
    BY <2>1 DEF complete, placeholder
  <2>7. q.last_pushed - q.size + 1 = f + n /\ q.last_popped = f + j
    BY <1>4, <1>7, <1>9, <2>3
  <2> HIDE DEF b, f
  <2>8. x <= f + n
    BY <1>7, <1>9, <2>1, <2>2, <2>4
  <2>9. complete(b) => x = f + n
    BY <1>7, <1>9, <2>1, <2>2, <2>4, <2>6
  <2>10. Upcoming(q, x, s)
    BY <1>1, <1>4, <2>2, <2>5, <2>7, <2>8 DEF Upcoming
  <2>11. complete(b) => InStep(q, x)
    <3> SUFFICES ASSUME complete(b) PROVE InStep(q, x)
      OBVIOUS
    <3>1. x = q.last_popped + 1 /\ x >= 1 /\ q.last_popped # Sentinel
      BY <1>4, <1>7, <1>9, <2>2, <2>7, <2>9
    <3> QED  BY <3>1 DEF InStep
  <2> QED  BY <1>9, <2>10, <2>11 DEF q, x, b, j
<1> QED  BY <1>8, <1>9

\* What a wired stream drops before it plays.
LEMMA TrimUpcoming ==
    ASSUME IInv, NEW st \in {"inactive", "buffering", "active"}, NEW l \in Latencies,
           sent <= IntMax, Upcoming(jb, position, sent),
           st = "active" => InStep(jb, position)
    PROVE  /\ Upcoming(Trimmed(st, l).jb, Trimmed(st, l).position, sent)
           /\ st = "active" => InStep(Trimmed(st, l).jb, Trimmed(st, l).position)
<1> DEFINE T == Trimmed(st, l)
           Stay == [jb |-> jb, position |-> position]
           s == IF st = "buffering" THEN Skip(jb, position, Stale(jb, l)) ELSE Stay
           b == Backlog(s.jb, l)
           j == b - 1
<1>1. Good(jb) /\ position \in Nat /\ sent \in Nat /\ jb.size \in Nat /\ l \in Nat \ {0}
  <2>1. Good(jb) /\ RestOK
    BY Split
  <2>2. jb.capacity \in Nat /\ jb.size \in 0 .. jb.capacity
    BY <2>1, RingTypes
  <2> QED  BY <2>1, <2>2, SizesAssumption DEF RestOK
<1>2. Stay.jb = jb /\ Stay.position = position
  OBVIOUS
<1>3. T = IF profile # "wired" THEN Stay
          ELSE IF st = "inactive" THEN s
          ELSE Skip(s.jb, s.position, b)
  BY DEF Trimmed
<1> HIDE DEF Stay
<1>4. st # "buffering" => s = Stay
  OBVIOUS
<1>5. st = "buffering" => s = Skip(jb, position, Stale(jb, l))
  OBVIOUS
<1> HIDE DEF s
<1>6. Good(s.jb) /\ s.position \in Nat /\ Upcoming(s.jb, s.position, sent)
  <2>1. CASE st = "buffering"
    <3>1. Stale(jb, l) \in 0 .. jb.size /\ Stale(jb, l) \in {0, 1}
      BY <1>1 DEF Stale
    <3> QED  BY <1>1, <1>5, <2>1, <3>1, SkipGood, SkipUpcoming
  <2> QED  BY <1>1, <1>2, <1>4, <2>1
<1>7. st = "active" => InStep(s.jb, s.position)
  BY <1>2, <1>4
<1>8. s.jb.size \in Nat
  BY <1>6, RingTypes
<1>9. b \in 0 .. s.jb.size /\ (b > 0 => complete(At(s.jb, j)))
  <2>1. complete_blocks(s.jb, 0) \in Nat /\ complete_blocks(s.jb, 0) <= s.jb.size
    BY <1>8, CompleteBound
  <2>2. b \in 0 .. s.jb.size /\ (b > 0 => j \in Nat /\ j < complete_blocks(s.jb, 0))
    BY <1>1, <1>8, <2>1 DEF Backlog
  <2> HIDE DEF b, j
  <2> QED  BY <1>8, <2>2, CompleteOnes
<1>10. b - 1 = j
  OBVIOUS
<1> HIDE DEF T, b, j
<1>11. /\ Upcoming(Skip(s.jb, s.position, b).jb, Skip(s.jb, s.position, b).position, sent)
       /\ st = "active" =>
             InStep(Skip(s.jb, s.position, b).jb, Skip(s.jb, s.position, b).position)
  <2>1. b > 1 => complete(At(s.jb, b - 1))
    BY <1>9, <1>10
  <2>2. /\ Upcoming(Skip(s.jb, s.position, b).jb, Skip(s.jb, s.position, b).position, sent)
        /\ b > 0 => InStep(Skip(s.jb, s.position, b).jb, Skip(s.jb, s.position, b).position)
        /\ b = 0 => /\ Skip(s.jb, s.position, b).jb = s.jb
                    /\ Skip(s.jb, s.position, b).position = s.position
    BY <1>1, <1>6, <1>9, <1>10, <2>1, SkipUpcoming
  <2>3. b > 0 \/ b = 0
    BY <1>8, <1>9
  <2> QED  BY <1>7, <2>2, <2>3
<1> QED  BY <1>2, <1>3, <1>6, <1>7, <1>11 DEF T

\* A ring that starts over.
LEMMA ResetUpcoming ==
    ASSUME NEW r, Good(r), NEW p \in Nat, NEW n \in Nat
    PROVE  Upcoming(reset(r), p, n)
<1>1. reset(r).size = 0 /\ reset(r).last_pushed = Sentinel
  BY ResetGood
<1> QED  BY <1>1 DEF Upcoming

\* push() of a block at or behind position p, with placeholders for the ones before it.
LEMMA PushUpcoming ==
    ASSUME NEW r, Good(r), NEW p \in Nat, NEW s \in Nat, s <= IntMax, Upcoming(r, p, s),
           NEW m \in Nat, m < s, p <= m, NEW i \in 0 .. NumFrames - 1, NEW n \in Nat,
           r.size + n + 1 <= r.capacity, m >= n,
           r.last_pushed = Sentinel => n = 0,
           r.last_pushed # Sentinel => m = r.last_pushed + n + 1
    PROVE  LET q == push(r, n, Received(Block(Packet(m, i)), Packet(m, i)))
           IN  Upcoming(q, p, s) /\ q.last_popped = r.last_popped
<1> DEFINE d == Packet(m, i)
           b == Received(Block(d), d)
           q == push(r, n, b)
<1>1. /\ IntMax \in Nat \ {0} /\ r.size \in Nat /\ r.last_pushed \in Int
      /\ Sentinel \in Int /\ Sentinel < -1
  BY RingTypes
<1>2. m % IntMax = m
  BY <1>1, FirstRound
<1>3. b \in Blocks /\ Counted(b) /\ b.sequence = m /\ m \in 0 .. IntMax - 1
  BY <1>1, <1>2, BlockCounted
<1>4. b.pos = m
  BY DEF Received, Block, Packet, add_frame
<1> HIDE DEF b
<1>5. /\ Good(q) /\ q.size = r.size + n + 1 /\ q.last_pushed = m
      /\ q.last_popped = r.last_popped
      /\ \A k \in 0 .. r.size - 1 : At(q, k) = At(r, k)
      /\ \A k \in r.size .. r.size + n - 1 : At(q, k) = Placeholder(m - n + (k - r.size))
      /\ At(q, r.size + n) = b
  BY <1>3, PushGood
<1> HIDE DEF q
<1>6. ASSUME NEW k \in 0 .. q.size - 1
      PROVE  IF placeholder(At(q, k)) THEN At(q, k).pos = 0 ELSE At(q, k).pos < s
  <2>1. k \in 0 .. r.size - 1 \/ k \in r.size .. r.size + n - 1 \/ k = r.size + n
    BY <1>1, <1>5
  <2>2. CASE k \in 0 .. r.size - 1
    BY <1>5, <2>2 DEF Upcoming
  <2>3. CASE k \in r.size .. r.size + n - 1
    <3>1. At(q, k) = Placeholder(m - n + (k - r.size))
      BY <1>5, <2>3
    <3> QED  BY <3>1 DEF Placeholder, placeholder
  <2>4. CASE k = r.size + n
    <3>1. At(q, k) = b
      BY <1>5, <2>4
    <3>2. ~placeholder(b)
      <4>1. b.received_frames \in {0, 1}
        BY DEF b, Received, Block, Packet, add_frame
      <4> QED  BY <4>1 DEF placeholder
    <3> QED  BY <1>4, <3>1, <3>2
  <2> QED  BY <2>1, <2>2, <2>3, <2>4
<1>7. q.last_pushed - q.size + 1 >= p
  <2>1. CASE r.last_pushed # Sentinel
    <3>1. p <= IntMax
      BY <1>1
    <3>2. r.last_pushed - r.size + 1 >= p
      BY <2>1, <3>1 DEF Upcoming
    <3> QED  BY <1>1, <1>5, <2>1, <3>2
  <2>2. CASE r.last_pushed = Sentinel
    <3>1. r.size = 0
      <4>1. r.size > 0 => r.last_pushed - r.size >= -1
        BY DEF Good
      <4> QED  BY <1>1, <2>2, <4>1
    <3> QED  BY <1>1, <1>5, <2>2, <3>1
  <2> QED  BY <2>1, <2>2
<1>8. Upcoming(q, p, s)
  BY <1>6, <1>7 DEF Upcoming
<1> QED  BY <1>5, <1>8 DEF q, b

-----------------------------------------------------------------------------
(* The steps of the audio thread                                           *)

\* The part of add_packet() for a block in the ring.
LEMMA FillUpcoming ==
    ASSUME NEW r, Good(r), NEW p \in Nat, NEW s \in Nat, Upcoming(r, p, s),
           NEW m \in Nat, m < s, NEW i \in 0 .. NumFrames - 1,
           NEW k \in 0 .. r.capacity - 1, NEW j \in 0 .. r.size - 1,
           k = Slot(r.capacity, r.tail, j), r.data[k].sequence = m % IntMax,
           add_to_block(r, k, Packet(m, i))
    PROVE  Upcoming(jb', p, s) /\ jb'.last_popped = r.last_popped
           /\ stream_state' = stream_state
<1> DEFINE d == Packet(m, i)
           b == r.data[k]
           y == IF placeholder(b) THEN Block(d) ELSE b
           x == Received(y, d)
<1>1. Gained(r, jb', j) /\ stream_state' = stream_state
  BY AddToBlock
<1>2. /\ r.capacity \in Nat \ {0} /\ r \in Rings(r.capacity) /\ r.size \in 0 .. r.capacity
      /\ r.data \in [0 .. r.capacity - 1 -> Blocks] /\ b = At(r, j) /\ b \in Blocks
      /\ NumFrames \in Nat
  BY RingTypes, NumbersAssumption DEF Good, Rings, At
<1>3. jb' = [r EXCEPT !.data[k] = x]
  BY DEF add_to_block
<1> HIDE DEF x
<1>4. At(jb', j) = x
  BY <1>2, <1>3 DEF Rings, At
<1>5. y.received_frames \in Nat /\ y.pos < s
  <2>1. CASE placeholder(b)
    BY <2>1 DEF Block, Packet
  <2>2. CASE ~placeholder(b)
    <3>1. b.received_frames \in Int
      BY <1>2 DEF Blocks
    <3>2. b.pos < s
      BY <1>2, <2>2 DEF Upcoming
    <3> QED  BY <2>2, <3>1, <3>2 DEF placeholder
  <2> QED  BY <2>1, <2>2
<1>6. x = y \/ x = add_frame(y, d.index)
  BY DEF x, Received
<1>7. x.received_frames \in Nat /\ x.pos < s
  <2>1. add_frame(y, d.index).received_frames = y.received_frames + 1
        /\ add_frame(y, d.index).pos = y.pos
    <3>1. CASE placeholder(b)
      BY <3>1 DEF add_frame, Block
    <3>2. CASE ~placeholder(b)
      BY <1>2, <3>2 DEF add_frame, Blocks
    <3> QED  BY <3>1, <3>2
  <2> HIDE DEF y
  <2> QED  BY <1>5, <1>6, <2>1
<1>8. ASSUME NEW u \in 0 .. r.size - 1
      PROVE  IF placeholder(At(jb', u)) THEN At(jb', u).pos = 0 ELSE At(jb', u).pos < s
  <2>1. CASE u = j
    BY <1>4, <1>7, <2>1 DEF placeholder
  <2>2. CASE u # j
    BY <1>1, <2>2 DEF Gained, Upcoming
  <2> QED  BY <2>1, <2>2
<1>9. jb'.size = r.size /\ jb'.last_pushed = r.last_pushed /\ jb'.last_popped = r.last_popped
  BY <1>1 DEF Gained
<1>10. Upcoming(jb', p, s)
  BY <1>8, <1>9 DEF Upcoming
<1> QED  BY <1>1, <1>9, <1>10

\* The part of add_packet() for a new block.
LEMMA NewUpcoming ==
    ASSUME NEW r, Good(r), NEW p \in Nat, NEW s \in Nat, s <= IntMax, Upcoming(r, p, s),
           NEW m \in Nat, m < s, p <= m, NEW i \in 0 .. NumFrames - 1,
           add_block(r, Packet(m, i))
    PROVE  /\ Upcoming(jb', p, s)
           /\ stream_state' # "buffering" =>
                 stream_state' = stream_state /\ jb'.last_popped = r.last_popped
<1> DEFINE d == Packet(m, i)
           b == Received(Block(d), d)
           numblocks == IF r.last_pushed = Sentinel THEN 1 ELSE m - r.last_pushed
           n == numblocks - 1
<1>1. /\ IntMax \in Nat \ {0} /\ r.size \in 0 .. r.capacity /\ r.last_pushed \in Int
      /\ Sentinel \in Int /\ Sentinel < -1 /\ r.capacity \in Nat \ {0}
      /\ r.last_pushed # Sentinel => r.last_pushed >= -1
  BY RingTypes
<1>2. d.sequence = m
  <2>1. m % IntMax = m
    BY <1>1, FirstRound
  <2> QED  BY <2>1 DEF Packet
<1>3. /\ m > r.last_pushed
      /\ \/ /\ numblocks <= r.capacity - r.size
            /\ jb' = push(r, n, b)
            /\ UNCHANGED stream_state
         \/ /\ jb' = push(reset(r), 0, b)
            /\ stream_state' = "buffering"
  BY <1>2 DEF add_block
<1>4. /\ n \in Nat /\ m >= n
      /\ r.last_pushed = Sentinel => n = 0
      /\ r.last_pushed # Sentinel => m = r.last_pushed + n + 1
  BY <1>1, <1>3
<1> HIDE DEF b
<1>5. CASE numblocks <= r.capacity - r.size /\ jb' = push(r, n, b) /\ UNCHANGED stream_state
  <2>1. r.size + n + 1 <= r.capacity
    BY <1>1, <1>5
  <2> HIDE DEF n
  <2>2. Upcoming(jb', p, s) /\ jb'.last_popped = r.last_popped
    BY <1>4, <1>5, <2>1, PushUpcoming DEF b
  <2> QED  BY <1>5, <2>2
<1>6. CASE jb' = push(reset(r), 0, b) /\ stream_state' = "buffering"
  <2>1. /\ Good(reset(r)) /\ reset(r).size = 0 /\ reset(r).capacity = r.capacity
        /\ reset(r).last_pushed = Sentinel /\ Upcoming(reset(r), p, s)
    BY ResetGood, ResetUpcoming
  <2>2. reset(r).size + 0 + 1 <= reset(r).capacity /\ m >= 0 /\ 0 \in Nat
    BY <1>1, <2>1
  <2>3. Upcoming(jb', p, s)
    BY <1>6, <2>1, <2>2, PushUpcoming DEF b
  <2> QED  BY <1>6, <2>3
<1> QED  BY <1>3, <1>5, <1>6

\* A packet that is not behind the playout position is not older than the block that was
\* played last, as long as the stream is active: it does not empty the buffer.
LEMMA NotOld ==
    ASSUME NEW r, Good(r), NEW p \in Nat, InStep(r, p), NEW m \in Nat, m < IntMax, p <= m
    PROVE  ~(m <= r.last_popped)
<1>1. /\ IntMax \in Nat \ {0} /\ r.last_popped \in 0 .. IntMax - 1
      /\ p >= 1 /\ p % IntMax = (r.last_popped + 1) % IntMax
  BY RingTypes DEF InStep
<1>2. p % IntMax = p
  BY <1>1, FirstRound
<1>3. CASE r.last_popped = IntMax - 1
  <2>1. r.last_popped + 1 = IntMax /\ IntMax % IntMax = 0
    BY <1>1, <1>3, FirstRound
  <2> QED  BY <1>1, <1>2, <2>1
<1>4. CASE r.last_popped # IntMax - 1
  <2>1. (r.last_popped + 1) % IntMax = r.last_popped + 1
    BY <1>1, <1>4, FirstRound
  <2> QED  BY <1>1, <1>2, <2>1
<1> QED  BY <1>3, <1>4

\* add_packet()
LEMMA AddPacketPlayout ==
    ASSUME IInv, Playout, NEW m \in 0 .. MaxBlocks, NEW i \in 0 .. NumFrames - 1,
           add_packet(m, i)
    PROVE  Playout'
<1> DEFINE d == Packet(m, i)
           old == d.sequence <= jb.last_popped
           r == IF old THEN reset(jb) ELSE jb
<1> SUFFICES ASSUME profile' # "none", sent' <= IntMax
             PROVE  /\ Upcoming(jb', position', sent')
                    /\ stream_state' = "active" => InStep(jb', position')
  BY DEF Playout, Upcoming, InStep
<1>1. UNCHANGED <<sent, profile, position>> /\ m < sent /\ ~Expired(m)
  BY DEF add_packet, Arrives
<1>2. PICK k \in find(r, d.sequence) : IF k = None THEN add_block(r, d) ELSE add_to_block(r, k, d)
  BY DEF add_packet
<1>3. /\ Good(jb) /\ sent \in Nat /\ position \in Nat /\ m \in Nat
      /\ profile # "none" /\ sent <= IntMax /\ IntMax \in Nat \ {0}
  BY <1>1, Split, NumbersAssumption DEF RestOK
<1>4. Upcoming(jb, position, sent) /\ (stream_state = "active" => InStep(jb, position))
  BY <1>3 DEF Playout
<1>5. position <= m
  BY <1>1, <1>3 DEF Expired
<1>6. d.sequence = m % IntMax /\ m % IntMax = m
  BY <1>1, <1>3, FirstRound DEF Packet
<1>7. stream_state = "active" => ~old
  BY <1>1, <1>3, <1>4, <1>5, <1>6, NotOld
<1>8. r = IF old THEN reset(jb) ELSE jb
  OBVIOUS
<1> HIDE DEF d, old, r
<1>9. Good(r) /\ Upcoming(r, position, sent) /\ (stream_state = "active" => r = jb)
  BY <1>3, <1>4, <1>7, <1>8, ResetGood, ResetUpcoming
<1>10. /\ Upcoming(jb', position, sent)
       /\ stream_state' = "active" =>
             stream_state = "active" /\ jb'.last_popped = r.last_popped
  <2>1. CASE k = None
    <3>1. add_block(r, Packet(m, i))
      BY <1>2, <2>1 DEF d
    <3> QED  BY <1>1, <1>3, <1>5, <1>9, <3>1, NewUpcoming
  <2>2. CASE k # None
    <3> DEFINE j == Offset(r.capacity, r.tail, k)
    <3>1. add_to_block(r, k, Packet(m, i))
      BY <1>2, <2>2 DEF d
    <3>2. /\ k \in 0 .. r.capacity - 1 /\ r.data[k].sequence = m % IntMax
          /\ j \in 0 .. r.size - 1 /\ k = Slot(r.capacity, r.tail, j)
      BY <1>2, <1>6, <1>9, <2>2, FindGood, SMTT(20)
    <3> HIDE DEF j
    <3> QED  BY <1>1, <1>3, <1>9, <3>1, <3>2, FillUpcoming
  <2> QED  BY <2>1, <2>2
<1> QED  BY <1>1, <1>4, <1>9, <1>10 DEF InStep

\* Silence for a missing block: the position and the sequence number go on together.
LEMMA SilenceInStep ==
    ASSUME NEW r, Good(r), r.size = 0, NEW p \in Nat, InStep(r, p), NEW s \in Nat
    PROVE  /\ InStep(advance_missing(r), p + 1)
           /\ Upcoming(advance_missing(r), p + 1, s)
<1> DEFINE q == advance_missing(r)
           e == r.last_popped
           next == IF e = IntMax - 1 THEN 0 ELSE e + 1
<1>1. /\ IntMax \in Nat \ {0} /\ e \in 0 .. IntMax - 1
      /\ p >= 1 /\ p % IntMax = (e + 1) % IntMax /\ e # Sentinel
      /\ Sentinel < -1 /\ Sentinel \in Int
  BY RingTypes DEF InStep
<1>2. q.size = 0 /\ q.last_popped = next /\ q.last_pushed = next
  BY <1>1, AdvanceGood
<1> HIDE DEF q, e
<1>3. (e + 1) % IntMax = next
  <2>1. e % IntMax = e /\ e \in Nat
    BY <1>1, FirstRound
  <2>2. (e + 1) % IntMax = IF e % IntMax = IntMax - 1 THEN 0 ELSE (e % IntMax) + 1
    BY <1>1, <2>1, NextNumber
  <2> QED  BY <2>1, <2>2
<1>4. /\ p % IntMax = next /\ next \in 0 .. IntMax - 1
      /\ (p + 1) % IntMax = IF next = IntMax - 1 THEN 0 ELSE next + 1
      /\ (next + 1) % IntMax = IF next = IntMax - 1 THEN 0 ELSE next + 1
  <2>1. p % IntMax = next /\ next \in 0 .. IntMax - 1
    BY <1>1, <1>3
  <2> HIDE DEF next
  <2>2. next % IntMax = next /\ next \in Nat
    BY <1>1, <2>1, FirstRound
  <2>3. (p + 1) % IntMax = IF p % IntMax = IntMax - 1 THEN 0 ELSE (p % IntMax) + 1
    BY <1>1, NextNumber
  <2>4. (next + 1) % IntMax = IF next % IntMax = IntMax - 1 THEN 0 ELSE (next % IntMax) + 1
    BY <1>1, <2>2, NextNumber
  <2> QED  BY <2>1, <2>2, <2>3, <2>4
<1>5. InStep(q, p + 1)
  <2>1. q.last_popped # Sentinel /\ p + 1 >= 1
    BY <1>1, <1>2, <1>4
  <2> QED  BY <1>2, <1>4, <2>1 DEF InStep
<1>6. ASSUME p + 1 <= IntMax PROVE next = p
  <2>1. p % IntMax = p
    BY <1>1, <1>6, FirstRound
  <2> QED  BY <1>4, <2>1
<1> HIDE DEF next
<1>7. p + 1 <= IntMax => q.last_pushed - q.size + 1 >= p + 1
  BY <1>2, <1>6
<1>8. Upcoming(q, p + 1, s)
  BY <1>2, <1>7 DEF Upcoming
<1> QED  BY <1>5, <1>8 DEF q

\* Silence for an incomplete block: so they do when the block is dropped.
LEMMA DropInStep ==
    ASSUME NEW r, Good(r), r.size > 0, NEW p \in Nat, NEW s \in Nat, s <= IntMax,
           Upcoming(r, p, s)
    PROVE  /\ Upcoming(pop(r, 1), p + 1, s)
           /\ InStep(r, p) => InStep(pop(r, 1), p + 1)
<1> DEFINE q == pop(r, 1)
           f == r.last_pushed - r.size + 1
<1>1. /\ IntMax \in Nat \ {0} /\ r.size \in Nat /\ r.last_pushed \in Int
      /\ r.last_pushed < IntMax /\ Sentinel \in Int /\ Sentinel < -1
  BY RingTypes
<1>2. 1 \in 0 .. r.size
  BY <1>1
<1>3. Good(q) /\ Popped(r, q, 1)
  BY <1>2, PopGood
<1>4. /\ q.size = r.size - 1 /\ q.last_pushed = r.last_pushed
      /\ q.last_popped = r.last_pushed - r.size + 1
      /\ \A k \in 0 .. q.size - 1 : At(q, k) = At(r, 1 + k)
  BY <1>3 DEF Popped
<1>5. f >= p /\ f \in 0 .. IntMax - 1
  <2>1. r.last_pushed - r.size >= -1 /\ f >= p
    BY DEF Good, Upcoming
  <2> QED  BY <1>1, <2>1
<1>6. q.last_pushed - q.size + 1 = f + 1 /\ q.last_popped = f
  BY <1>1, <1>4
<1>7. \A k \in 0 .. q.size - 1 :
         IF placeholder(At(q, k)) THEN At(q, k).pos = 0 ELSE At(q, k).pos < s
  <2> SUFFICES ASSUME NEW k \in 0 .. q.size - 1
               PROVE  IF placeholder(At(q, k)) THEN At(q, k).pos = 0 ELSE At(q, k).pos < s
    OBVIOUS
  <2> DEFINE i == 1 + k
  <2>1. At(q, k) = At(r, i)
    BY <1>4
  <2>2. i \in 0 .. r.size - 1
    BY <1>1, <1>4
  <2> HIDE DEF i
  <2> QED  BY <2>1, <2>2 DEF Upcoming
<1> HIDE DEF q
<1>8. Upcoming(q, p + 1, s)
  <2> HIDE DEF f
  <2> QED  BY <1>5, <1>6, <1>7 DEF Upcoming
<1>9. ASSUME InStep(r, p) PROVE InStep(q, p + 1)
  <2>1. r.last_popped + 1 = f
    BY <1>1, <1>9 DEF InStep, Good
  <2> HIDE DEF f
  <2>2. p % IntMax = f % IntMax /\ p % IntMax = p /\ f % IntMax = f
    BY <1>1, <1>5, <1>9, <2>1, FirstRound DEF InStep
  <2>3. q.last_popped + 1 = p + 1 /\ q.last_popped # Sentinel /\ p + 1 >= 1
    BY <1>1, <1>5, <1>6, <2>2
  <2> QED  BY <2>3 DEF InStep
<1> QED  BY <1>8, <1>9 DEF q

\* try_decode_block()
LEMMA DecodePlayout ==
    ASSUME IInv, Playout, try_decode_block
    PROVE  Playout'
<1> SUFFICES ASSUME profile' # "none", sent' <= IntMax
             PROVE  /\ Upcoming(jb', position', sent')
                    /\ stream_state' = "active" => InStep(jb', position')
  BY DEF Playout, Upcoming, InStep
<1>1. Good(jb) /\ RestOK
  BY Split
<1>2. UNCHANGED <<sent, reserved, profile>>
  BY DEF try_decode_block
<1>3. PICK l \in Latencies :
       LET st == IF l > latency /\ stream_state = "active" THEN "buffering" ELSE stream_state
           r == Trimmed(st, l).jb
           p == Trimmed(st, l).position
       IN  \/ /\ st = "buffering"
              /\ jb' = r /\ position' = p
              /\ stream_state' = st
              /\ UNCHANGED <<underrun, missing>>
           \/ st = "buffering" /\ no_block(jb, position)
           \/ /\ st = "buffering" => ~Wait(r, l)
              /\ r.size > 0
              /\ play_block(r, p, IF st = "buffering" THEN "active" ELSE st)
           \/ st = "active" /\ r.size = 0 /\ profile # "none" /\ play_silence(r, p)
           \/ /\ st # "buffering" /\ r.size = 0 /\ (st = "active" => profile = "none")
              /\ no_block(r, p)
  BY <1>2 DEF try_decode_block
<1> DEFINE st == IF l > latency /\ stream_state = "active" THEN "buffering" ELSE stream_state
           r == Trimmed(st, l).jb
           p == Trimmed(st, l).position
<1>4. \/ st = "buffering" /\ jb' = r /\ position' = p /\ stream_state' = st
      \/ no_block(jb, position)
      \/ /\ st = "buffering" => ~Wait(r, l)
         /\ r.size > 0
         /\ play_block(r, p, IF st = "buffering" THEN "active" ELSE st)
      \/ st = "active" /\ r.size = 0 /\ play_silence(r, p)
      \/ no_block(r, p)
  BY <1>3
<1>5. st \in {"inactive", "buffering", "active"} /\ (st = "active" => stream_state = "active")
  BY <1>1 DEF RestOK
<1>6. /\ sent \in Nat /\ sent <= IntMax /\ profile # "none" /\ position \in Nat
      /\ l \in Nat \ {0}
  BY <1>1, <1>2, SizesAssumption DEF RestOK
<1>7. Upcoming(jb, position, sent) /\ (st = "active" => InStep(jb, position))
  BY <1>5, <1>6 DEF Playout
<1> HIDE DEF st
<1>8. /\ Good(r) /\ p \in Nat /\ Upcoming(r, p, sent)
      /\ st = "active" => InStep(r, p)
  BY <1>5, <1>6, <1>7, TrimGood, TrimUpcoming
<1> HIDE DEF r, p
<1>9. r.size \in Nat /\ Upcoming(reset(r), p + 1, sent)
  BY <1>6, <1>8, RingTypes, ResetUpcoming
<1>10. /\ Upcoming(jb', position', sent)
       /\ stream_state' = "active" => InStep(jb', position')
  <2>1. CASE st = "buffering" /\ jb' = r /\ position' = p /\ stream_state' = st
    BY <1>8, <2>1
  <2>2. CASE no_block(jb, position)
    BY <1>7, <2>2 DEF no_block
  <2>3. CASE no_block(r, p)
    BY <1>8, <2>3 DEF no_block
  <2>4. CASE st = "active" /\ r.size = 0 /\ play_silence(r, p)
    <3>1. position' = p + 1
      BY <2>4 DEF play_silence
    <3>2. CASE Reacquire(r)
      BY <1>9, <3>1, <3>2 DEF Reacquire
    <3>3. CASE jb' = advance_missing(r)
      BY <1>6, <1>8, <2>4, <3>1, <3>3, SilenceInStep
    <3> QED  BY <2>4, <3>2, <3>3 DEF play_silence
  <2>5. CASE /\ st = "buffering" => ~Wait(r, l)
             /\ r.size > 0
             /\ play_block(r, p, IF st = "buffering" THEN "active" ELSE st)
    <3> DEFINE b == At(r, 0)
    <3>1. position' = IF complete(b) THEN Behind(p, b) ELSE p + 1
      BY <1>6, <2>5 DEF play_block
    <3>2. \/ Reacquire(r) /\ ~complete(b)
          \/ jb' = pop(r, 1) /\ stream_state' = IF st = "buffering" THEN "active" ELSE st
      BY <2>5 DEF play_block
    <3>3. CASE Reacquire(r) /\ ~complete(b)
      BY <1>9, <3>1, <3>3 DEF Reacquire
    <3>4. CASE jb' = pop(r, 1) /\ complete(b)
      <4>1. Skip(r, p, 1).jb = jb' /\ Skip(r, p, 1).position = position'
        BY <3>1, <3>4 DEF Skip
      <4>2. 1 \in 0 .. r.size /\ ~(1 > 1) /\ 1 - 1 = 0
        BY <1>9, <2>5
      <4> HIDE DEF b
      <4>3. /\ Upcoming(Skip(r, p, 1).jb, Skip(r, p, 1).position, sent)
            /\ 1 > 0 /\ complete(At(r, 1 - 1)) =>
                  InStep(Skip(r, p, 1).jb, Skip(r, p, 1).position)
        BY <1>6, <1>8, <4>2, SkipUpcoming
      <4>4. complete(At(r, 1 - 1))
        BY <3>4, <4>2 DEF b
      <4> QED  BY <4>1, <4>3, <4>4
    <3>5. CASE jb' = pop(r, 1) /\ ~complete(b)
               /\ stream_state' = IF st = "buffering" THEN "active" ELSE st
      <4>1. st # "buffering"
        <5>1. Wait(r, l) \/ complete_blocks(r, 0) > 0
          <6>1. complete_blocks(r, 0) \in Nat
            BY <1>9, CompleteBound
          <6> QED  BY <1>6, <6>1 DEF Wait
        <5>2. complete_blocks(r, 0) > 0 => complete(At(r, 0))
          BY <1>9, CompleteOnes
        <5> QED  BY <2>5, <3>5, <5>1, <5>2
      <4>2. /\ Upcoming(pop(r, 1), p + 1, sent)
            /\ InStep(r, p) => InStep(pop(r, 1), p + 1)
        BY <1>6, <1>8, <2>5, DropInStep
      <4>3. stream_state' = st /\ position' = p + 1
        BY <3>1, <3>5, <4>1
      <4> QED  BY <1>8, <3>5, <4>2, <4>3
    <3> QED  BY <3>2, <3>3, <3>4, <3>5
  <2> QED  BY <1>4, <2>1, <2>2, <2>3, <2>4, <2>5
<1> QED  BY <1>2, <1>10

\* Every step keeps the playout in order.
LEMMA NextPlayout ==
    ASSUME IInv, Playout, [Next]_vars
    PROVE  Playout'
<1>1. Good(jb) /\ RestOK
  BY Split
<1>2. CASE SendBlock
  <2> SUFFICES ASSUME profile' # "none", sent' <= IntMax
               PROVE  /\ Upcoming(jb', position', sent')
                      /\ stream_state' = "active" => InStep(jb', position')
    BY DEF Playout, Upcoming, InStep
  <2>1. /\ sent' = sent + 1 /\ UNCHANGED <<jb, profile, stream_state, position>>
        /\ sent \in Nat /\ IntMax \in Nat
    BY <1>1, <1>2, NumbersAssumption DEF SendBlock, RestOK
  <2>2. sent <= IntMax /\ profile # "none"
    BY <2>1
  <2>3. Upcoming(jb, position, sent) /\ (stream_state = "active" => InStep(jb, position))
    BY <2>2 DEF Playout
  <2>4. Upcoming(jb, position, sent + 1)
    <3>1. ASSUME NEW k \in 0 .. jb.size - 1
          PROVE  /\ At(jb, k).pos \in Nat
                 /\ IF placeholder(At(jb, k)) THEN At(jb, k).pos = 0 ELSE At(jb, k).pos < sent
      BY <1>1, <2>1, <2>2, <2>3, PlaceOf DEF Upcoming
    <3>2. ASSUME NEW k \in 0 .. jb.size - 1
          PROVE  IF placeholder(At(jb, k)) THEN At(jb, k).pos = 0
                 ELSE At(jb, k).pos < sent + 1
      BY <2>1, <3>1
    <3> QED  BY <2>3, <3>2 DEF Upcoming
  <2> QED  BY <2>1, <2>3, <2>4
<1>3. CASE \E m \in 0 .. MaxBlocks, i \in 0 .. NumFrames - 1 : add_packet(m, i)
  BY <1>3, AddPacketPlayout
<1>4. CASE handle_underrun
  <2>1. /\ jb' = reset(jb) /\ stream_state' = "buffering" /\ UNCHANGED <<sent, position>>
        /\ sent \in Nat /\ position \in Nat
    BY <1>1, <1>4 DEF handle_underrun, RestOK
  <2>2. Upcoming(jb', position', sent')
    BY <1>1, <2>1, ResetUpcoming
  <2> QED  BY <2>1, <2>2 DEF Playout, Upcoming
<1>5. CASE try_decode_block
  BY <1>5, DecodePlayout
<1>6. CASE \E c \in Sizes, l \in Latencies : update(c, l)
  <2>1. PICK c \in Sizes, l \in Latencies : update(c, l)
    BY <1>6
  <2>2. jb'.size = 0 /\ jb'.last_pushed = Sentinel /\ stream_state' = "buffering"
    BY <2>1 DEF update, resize, Fresh
  <2>3. Upcoming(jb', position', sent')
    BY <2>2 DEF Upcoming
  <2> QED  BY <2>2, <2>3 DEF Playout, Upcoming
<1>7. CASE UNCHANGED vars
  BY <1>7 DEF vars, Playout, Upcoming, InStep
<1> QED  BY <1>2, <1>3, <1>4, <1>5, <1>6, <1>7 DEF Next

LEMMA InitPlayout == Init => Playout
<1> SUFFICES ASSUME Init PROVE Playout
  OBVIOUS
<1>1. PICK c \in Sizes : jb = Fresh(c, (sent % IntMax) - 1)
  BY DEF Init
<1>2. /\ sent \in Nat /\ IntMax \in Nat \ {0} /\ sent % IntMax \in Nat
      /\ position = 0 /\ stream_state = "buffering"
  BY NumbersAssumption DEF Init
<1>3. jb.size = 0 /\ jb.last_pushed = (sent % IntMax) - 1
  BY <1>1 DEF Fresh
<1>4. jb.last_pushed - jb.size + 1 >= position
  BY <1>2, <1>3
<1>5. Upcoming(jb, position, sent)
  BY <1>3, <1>4 DEF Upcoming
<1> QED  BY <1>2, <1>5 DEF Playout

LEMMA PlayoutInvariance == Spec => [](IInv /\ Playout)
<1>1. Init => IInv /\ Playout
  BY InitInv, InitPlayout
<1>2. IInv /\ Playout /\ [Next]_vars => (IInv /\ Playout)'
  BY NextStep, NextPlayout
<1> QED  BY <1>1, <1>2, PTL DEF Spec

-----------------------------------------------------------------------------

\* Throughout the first round of sequence numbers (2^31 - 1 blocks) no block waits behind the
\* playout position of a low-latency stream, whatever is lost, late or repeated, however
\* often the buffer overruns, starts over or is resized.
THEOREM NeverBehind == Spec => [](sent <= IntMax => NothingBehind)
<1>1. IInv /\ Playout => (sent <= IntMax => NothingBehind)
  <2> SUFFICES ASSUME IInv, Playout, sent <= IntMax, profile # "none",
                      NEW k \in 0 .. jb.size - 1, ~placeholder(At(jb, k))
               PROVE  At(jb, k).pos >= position
    BY DEF NothingBehind
  <2>1. Good(jb) /\ sent \in Nat /\ position \in Nat /\ Upcoming(jb, position, sent)
    BY Split DEF RestOK, Playout
  <2>2. At(jb, k).pos = jb.last_pushed - jb.size + 1 + k
    BY <2>1, PlaceOf
  <2>3. jb.size \in Nat /\ jb.last_pushed \in Int
    BY <2>1, RingTypes
  <2>4. jb.last_pushed - jb.size + 1 >= position
    BY <2>1, <2>3 DEF Upcoming
  <2> QED  BY <2>1, <2>2, <2>3, <2>4
<1> QED  BY <1>1, PlayoutInvariance, PTL

\* Silence for missing blocks keeps the playout position and the sequence numbers together
\* for as long as the stream stays active, past the wrap of the numbers in the silence.
THEOREM AlwaysInSync == Spec => []InSync
<1>1. IInv /\ Playout => InSync
  BY DEF Playout, InStep, InSync
<1> QED  BY <1>1, PlayoutInvariance, PTL

=============================================================================
