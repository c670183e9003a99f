------------------------- MODULE JitterBufferProofs -------------------------
(***************************************************************************)
(* Proofs about JitterBuffer, for buffers of any size and any number of    *)
(* blocks, frames and sequence numbers.  First what each operation does to *)
(* a well-formed ring, then the steps of the audio thread, which only use  *)
(* these operations, and last that the ring implements BlockQueue.         *)
(***************************************************************************)
EXTENDS JitterBuffer, FiniteSetTheorems, SequenceTheorems, TLAPS

\* A leaf that names no prover is tried with each of these in turn.
USE SMT, Zenon, SMTT(30)

\* A block whose counter agrees with its frames.
Counted(b) ==
    /\ placeholder(b) => b.frames = {}
    /\ ~placeholder(b) => /\ b.received_frames = Cardinality(b.frames)
                          /\ b.frames \subseteq 0 .. b.num_frames - 1
                          /\ b.sequence = b.pos % IntMax
                          /\ b.num_frames = 0 <=> b.pos \in EmptyBlocks

\* A well-formed ring.
Good(r) ==
    /\ r.capacity \in Sizes /\ r \in Rings(r.capacity)
    /\ r.head = Slot(r.capacity, r.tail, r.size)
    /\ \A k \in 0 .. r.size - 1 : At(r, k).sequence = r.last_pushed - r.size + 1 + k
    /\ r.size > 0 => r.last_pushed - r.size >= -1
    /\ r.last_popped # Sentinel => r.last_popped = r.last_pushed - r.size
    /\ \A k \in 0 .. r.capacity - 1 :
          Offset(r.capacity, r.tail, k) >= r.size => r.data[k] = Cleared
    /\ \A k \in 0 .. r.size - 1 : Counted(At(r, k))

-----------------------------------------------------------------------------
(* The ring                                                                *)

\* The slots of a ring: Offset is the inverse of Slot.
LEMMA SlotFacts ==
    ASSUME NEW c \in Nat \ {0}, NEW i \in 0 .. c - 1
    PROVE  /\ \A k \in 0 .. c : Slot(c, i, k) \in 0 .. c - 1
           /\ \A k \in 0 .. c - 1 : /\ Offset(c, i, k) \in 0 .. c - 1
                                    /\ Slot(c, i, Offset(c, i, k)) = k
                                    /\ Offset(c, i, Slot(c, i, k)) = k
  BY DEF Slot, Offset

\* Counting on from slot h, which lies s slots behind slot i.
LEMMA SlotShift ==
    ASSUME NEW c \in Nat \ {0}, NEW i \in 0 .. c - 1, NEW s \in 0 .. c
    PROVE  /\ \A k \in 0 .. c - 1 :
                 Offset(c, Slot(c, i, s), k) = IF Offset(c, i, k) < s THEN Offset(c, i, k) - s + c
                                               ELSE Offset(c, i, k) - s
           /\ \A n \in 0 .. c - s : Slot(c, Slot(c, i, s), n) = Slot(c, i, s + n)
  BY DEF Slot, Offset

\* The k-th oldest block sits at offset k.
LEMMA AtFacts ==
    ASSUME NEW r, r.capacity \in Nat \ {0}, r \in Rings(r.capacity),
           NEW k \in 0 .. r.capacity - 1
    PROVE  /\ Slot(r.capacity, r.tail, k) \in 0 .. r.capacity - 1
           /\ Offset(r.capacity, r.tail, Slot(r.capacity, r.tail, k)) = k
           /\ At(r, k) = r.data[Slot(r.capacity, r.tail, k)]
           /\ At(r, k) \in Blocks
<1>1. r.tail \in 0 .. r.capacity - 1 /\ r.data \in [0 .. r.capacity - 1 -> Blocks]
  BY DEF Rings
<1>2. /\ Slot(r.capacity, r.tail, k) \in 0 .. r.capacity - 1
      /\ Offset(r.capacity, r.tail, Slot(r.capacity, r.tail, k)) = k
  BY <1>1, SlotFacts
<1> QED  BY <1>1, <1>2 DEF At

\* jitter_buffer::resize, reset and reset_head leave a well-formed, empty ring.
LEMMA FreshGood ==
    ASSUME NEW c \in Sizes, NEW s \in -1 .. IntMax - 1 \cup {Sentinel}
    PROVE  Good(Fresh(c, s))
<1>1. c \in Nat \ {0} /\ IntMax \in Nat \ {0}
  BY SizesAssumption, NumbersAssumption
<1>2. Cleared \in Blocks
  BY <1>1, NumbersAssumption DEF Cleared, Blocks, Sentinel
<1>3. Fresh(c, s) \in Rings(c)
  BY <1>1, <1>2 DEF Rings, Fresh
<1> QED  BY <1>1, <1>3 DEF Good, Slot, Fresh

\* push() leaves a well-formed ring.
LEMMA PushGood ==
    ASSUME NEW r, Good(r), NEW n \in Nat, NEW b \in Blocks, Counted(b),
           r.size + n + 1 <= r.capacity, b.sequence \in 0 .. IntMax - 1, b.sequence >= n,
           r.last_pushed = Sentinel => n = 0,
           r.last_pushed # Sentinel => b.sequence = r.last_pushed + n + 1
    PROVE  /\ Good(push(r, n, b))
           /\ push(r, n, b).capacity = r.capacity /\ push(r, n, b).size = r.size + n + 1
           /\ push(r, n, b).last_pushed = b.sequence
           /\ push(r, n, b).last_popped = r.last_popped
           /\ \A k \in 0 .. r.size - 1 : At(push(r, n, b), k) = At(r, k)
           /\ \A k \in r.size .. r.size + n - 1 :
                 At(push(r, n, b), k) = Placeholder(b.sequence - n + (k - r.size))
           /\ At(push(r, n, b), r.size + n) = b
<1> DEFINE c == r.capacity
           h == r.head
           t == r.tail
           m == r.size
           s == b.sequence
           q == push(r, n, b)
           O(k) == Offset(c, h, k)
           D(k) == IF O(k) < n THEN Placeholder(s - n + O(k))
                   ELSE IF O(k) = n THEN b ELSE r.data[k]
<1>1. /\ c \in Nat \ {0} /\ IntMax \in Nat \ {0} /\ NumFrames \in Nat \ {0}
      /\ r \in Rings(c) /\ r.data \in [0 .. c - 1 -> Blocks] /\ c \in Sizes
      /\ h \in 0 .. c - 1 /\ t \in 0 .. c - 1 /\ m \in 0 .. c
      /\ h = Slot(c, t, m)
      /\ m + n + 1 <= c /\ s \in 0 .. IntMax - 1 /\ s >= n
  BY SizesAssumption, NumbersAssumption DEF Good, Rings
<1>2. /\ q.data = [k \in 0 .. c - 1 |-> D(k)]
      /\ q.capacity = c /\ q.tail = t /\ q.last_popped = r.last_popped
      /\ q.head = Slot(c, h, n + 1) /\ q.size = m + n + 1
      /\ q.last_pushed = s
  BY <1>1 DEF push, Rings
<1>3. DOMAIN q = DOMAIN r /\ r.capacity = c /\ r.head = h /\ r.tail = t /\ r.size = m
  BY DEF push
<1>4. \A k \in 0 .. c - 1 : q.data[k] = D(k)
  BY <1>2
<1>5. \A k \in 0 .. c - 1 : O(k) = Offset(c, h, k)
  OBVIOUS
<1>6. \A k \in 0 .. c - 1 :
         /\ O(k) < n => D(k) = Placeholder(s - n + O(k))
         /\ O(k) = n => D(k) = b
         /\ O(k) > n => D(k) = r.data[k]
  <2> SUFFICES ASSUME NEW k \in 0 .. c - 1
               PROVE  /\ O(k) < n => D(k) = Placeholder(s - n + O(k))
                      /\ O(k) = n => D(k) = b
                      /\ O(k) > n => D(k) = r.data[k]
    OBVIOUS
  <2>1. O(k) \in 0 .. c - 1
    BY <1>1, SlotFacts
  <2> HIDE DEF O, c, s
  <2> QED  BY <1>1, <2>1
<1>7. q = [r EXCEPT !.data = q.data, !.head = q.head, !.size = q.size, !.last_pushed = s]
  BY <1>1, <1>2 DEF push
<1>8. /\ r.last_pushed = Sentinel => n = 0
      /\ r.last_pushed # Sentinel => s = r.last_pushed + n + 1
      /\ s = b.sequence
  OBVIOUS
<1>9. \A k \in 0 .. c - 1 : O(k) \in 0 .. c - 1
  <2> SUFFICES ASSUME NEW k \in 0 .. c - 1 PROVE O(k) \in 0 .. c - 1
    OBVIOUS
  <2> QED  BY <1>1, SlotFacts
<1> HIDE DEF c, h, t, m, s, q, D, O
<1>0. /\ c \in Nat \ {0} /\ m \in 0 .. c /\ s \in Nat /\ m + n + 1 <= c
      /\ q.size = m + n + 1 /\ t \in 0 .. c - 1 /\ h \in 0 .. c - 1 /\ h = Slot(c, t, m)
  BY <1>1, <1>2
<1>10. \A k \in 0 .. c - 1 : D(k) \in Blocks
  <2> SUFFICES ASSUME NEW k \in 0 .. c - 1 PROVE D(k) \in Blocks
    OBVIOUS
  <2>1. O(k) \in 0 .. c - 1
    BY <1>9
  <2>2. ASSUME O(k) < n PROVE Placeholder(s - n + O(k)) \in Blocks
    <3>1. s - n + O(k) \in 0 .. IntMax - 1
      BY <1>1, <2>1, <2>2
    <3> QED  BY <1>1, <3>1 DEF Placeholder, Blocks
  <2>3. r.data[k] \in Blocks
    BY <1>1
  <2>4. O(k) < n \/ O(k) = n \/ O(k) > n
    BY <2>1
  <2> QED  BY <1>6, <2>2, <2>3, <2>4
<1>11. /\ q.head = Slot(c, q.tail, q.size)
       /\ q.head \in 0 .. c - 1 /\ q.size \in 0 .. c
  <2>1. n + 1 \in 0 .. c - m /\ q.size \in 0 .. c /\ m + (n + 1) = q.size
    BY <1>0
  <2>2. Slot(c, h, n + 1) = Slot(c, t, m + (n + 1))
    BY <1>1, <2>1, SlotShift
  <2> QED  BY <1>1, <1>2, <2>1, <2>2, SlotFacts
<1>12. q \in Rings(c)
  <2>1. q.data \in [0 .. c - 1 -> Blocks]
    BY <1>2, <1>10
  <2>2. s \in -1 .. IntMax - 1 \cup {Sentinel}
    BY <1>1
  <2> QED  BY <1>1, <1>2, <1>7, <1>11, <2>1, <2>2 DEF Rings
<1>13. \A k \in 0 .. c - 1 : At(q, k) = D(Slot(c, t, k)) /\ At(r, k) = r.data[Slot(c, t, k)]
  BY <1>1, <1>2, <1>3, <1>4, SlotFacts DEF At
<1>14. \A k \in 0 .. c - 1 : /\ Slot(c, t, k) \in 0 .. c - 1
                             /\ O(Slot(c, t, k)) = IF k < m THEN k - m + c ELSE k - m
  <2> SUFFICES ASSUME NEW k \in 0 .. c - 1
               PROVE  /\ Slot(c, t, k) \in 0 .. c - 1
                      /\ O(Slot(c, t, k)) = IF k < m THEN k - m + c ELSE k - m
    OBVIOUS
  <2>1. Slot(c, t, k) \in 0 .. c - 1 /\ Offset(c, t, Slot(c, t, k)) = k
    BY <1>0 DEF Slot, Offset
  <2>2. O(Slot(c, t, k)) = Offset(c, Slot(c, t, m), Slot(c, t, k))
    BY <1>0, <1>5, <2>1
  <2>3. \A i \in 0 .. c - 1 :
           Offset(c, Slot(c, t, m), i) = IF Offset(c, t, i) < m THEN Offset(c, t, i) - m + c
                                         ELSE Offset(c, t, i) - m
    BY <1>0, SlotShift
  <2> QED  BY <2>1, <2>2, <2>3
<1>15. \A k \in 0 .. m - 1 : At(q, k) = At(r, k)
  <2> SUFFICES ASSUME NEW k \in 0 .. m - 1 PROVE At(q, k) = At(r, k)
    OBVIOUS
  <2>1. k \in 0 .. c - 1 /\ k - m + c > n /\ k < m
    BY <1>1
  <2> QED  BY <1>6, <1>13, <1>14, <2>1
<1>16. \A k \in m .. m + n - 1 : At(q, k) = Placeholder(s - n + (k - m))
  <2> SUFFICES ASSUME NEW k \in m .. m + n - 1 PROVE At(q, k) = Placeholder(s - n + (k - m))
    OBVIOUS
  <2>1. k \in 0 .. c - 1 /\ k - m < n /\ ~(k < m)
    BY <1>1
  <2> QED  BY <1>6, <1>13, <1>14, <2>1
<1>17. At(q, m + n) = b
  <2> DEFINE j == m + n
  <2>1. j \in 0 .. c - 1 /\ j - m = n /\ ~(j < m)
    BY <1>0
  <2> HIDE DEF j
  <2>2. O(Slot(c, t, j)) = n /\ Slot(c, t, j) \in 0 .. c - 1
    BY <1>14, <2>1
  <2>3. At(q, j) = b
    BY <1>6, <1>13, <2>1, <2>2
  <2> QED  BY <2>3 DEF j
<1>18. \A k \in 0 .. q.size - 1 : k \in 0 .. m - 1 \/ k \in m .. m + n - 1 \/ k = m + n
  BY <1>0
<1>19. r.last_pushed \in Int /\ (m > 0 => r.last_pushed # Sentinel)
  BY <1>1, <1>3 DEF Good, Sentinel, Rings
<1>20. \A k \in 0 .. q.size - 1 : At(q, k).sequence = s - q.size + 1 + k
  <2> SUFFICES ASSUME NEW k \in 0 .. q.size - 1 PROVE At(q, k).sequence = s - q.size + 1 + k
    OBVIOUS
  <2>1. CASE k \in 0 .. m - 1
    <3>1. At(r, k).sequence = r.last_pushed - m + 1 + k
      BY <1>3, <2>1 DEF Good
    <3>2. s = r.last_pushed + n + 1
      BY <1>1, <1>8, <1>19, <2>1
    <3>3. r.last_pushed - m + 1 + k = s - q.size + 1 + k
      BY <1>0, <1>19, <3>2
    <3> QED  BY <1>15, <2>1, <3>1, <3>3
  <2>2. CASE k \in m .. m + n - 1
    <3>1. At(q, k).sequence = s - n + (k - m)
      BY <1>16, <2>2 DEF Placeholder
    <3> QED  BY <1>1, <1>2, <2>2, <3>1
  <2>3. CASE k = m + n
    BY <1>1, <1>2, <1>8, <1>17, <2>3
  <2> QED  BY <1>18, <2>1, <2>2, <2>3
<1>21. s - q.size >= -1
  <2>1. m > 0 => r.last_pushed - m >= -1
    BY <1>3 DEF Good
  <2>2. CASE m = 0
    BY <1>1, <1>2, <2>2
  <2>3. CASE m > 0
    BY <1>1, <1>2, <1>8, <1>19, <2>1, <2>3
  <2> QED  BY <1>1, <2>2, <2>3
<1>22. q.last_popped # Sentinel => q.last_popped = s - q.size
  <2> SUFFICES ASSUME r.last_popped # Sentinel PROVE r.last_popped = s - q.size
    BY <1>2
  <2>1. r.last_popped = r.last_pushed - m /\ r.last_popped \in 0 .. IntMax - 1
    BY <1>1, <1>3 DEF Good, Rings
  <2>2. r.last_pushed # Sentinel
    BY <1>1, <1>19, <2>1 DEF Sentinel
  <2> QED  BY <1>1, <1>2, <1>8, <1>19, <2>1, <2>2
<1>23. \A k \in 0 .. c - 1 : Offset(c, t, k) >= q.size => q.data[k] = Cleared
  <2> SUFFICES ASSUME NEW k \in 0 .. c - 1, Offset(c, t, k) >= q.size
               PROVE  q.data[k] = Cleared
    OBVIOUS
  <2>1. Offset(c, t, k) \in 0 .. c - 1 /\ Offset(c, t, k) >= m + n + 1
    BY <1>1, <1>2, SlotFacts
  <2>2. O(k) = IF Offset(c, t, k) < m THEN Offset(c, t, k) - m + c ELSE Offset(c, t, k) - m
    BY <1>1, <1>5, SlotShift
  <2>3. O(k) > n
    BY <1>1, <2>1, <2>2
  <2>4. r.data[k] = Cleared
    BY <1>1, <1>3, <2>1 DEF Good
  <2> QED  BY <1>4, <1>6, <2>3, <2>4
<1>24. \A k \in 0 .. q.size - 1 : Counted(At(q, k))
  <2>1. \A x : Counted(Placeholder(x))
    BY DEF Counted, Placeholder, placeholder
  <2>2. \A k \in 0 .. m - 1 : Counted(At(r, k))
    BY <1>3 DEF Good
  <2> QED  BY <1>15, <1>16, <1>17, <1>18, <2>1, <2>2
<1>25. Good(q)
  BY <1>1, <1>2, <1>11, <1>12, <1>20, <1>21, <1>22, <1>23, <1>24 DEF Good
<1>26. q = push(r, n, b)
  BY DEF q
<1> QED  BY <1>2, <1>3, <1>8, <1>15, <1>16, <1>17, <1>25, <1>26

\* Ring q is ring r without its n oldest blocks.
Popped(r, q, n) ==
    /\ q.capacity = r.capacity /\ q.size = r.size - n /\ q.last_pushed = r.last_pushed
    /\ n = 0 => q.last_popped = r.last_popped
    /\ n > 0 => q.last_popped = r.last_pushed - r.size + n
    /\ \A k \in 0 .. q.size - 1 : At(q, k) = At(r, n + k)

\* pop() leaves a well-formed ring with the other blocks.
LEMMA PopGood ==
    ASSUME NEW r, Good(r), NEW n \in 0 .. r.size
    PROVE  Good(pop(r, n)) /\ Popped(r, pop(r, n), n)
<1> DEFINE c == r.capacity
           t == r.tail
           m == r.size
           e == r.last_pushed
           q == pop(r, n)
           D(k) == IF Offset(c, t, k) < n THEN Cleared ELSE r.data[k]
<1>1. /\ c \in Nat \ {0} /\ IntMax \in Nat \ {0} /\ NumFrames \in Nat \ {0}
      /\ r \in Rings(c) /\ r.data \in [0 .. c - 1 -> Blocks] /\ c \in Sizes
      /\ r.head \in 0 .. c - 1 /\ r.head = Slot(c, t, m)
  BY SizesAssumption, NumbersAssumption DEF Good, Rings
<1>2. c \in Nat \ {0} /\ t \in 0 .. c - 1 /\ m \in 0 .. c /\ n \in 0 .. m
  BY <1>1 DEF Rings
<1>3. CASE n = 0
  BY <1>1, <1>2, <1>3 DEF pop, Popped
<1>4. CASE n > 0
  <2>1. /\ q.data = [k \in 0 .. c - 1 |-> D(k)]
        /\ q.capacity = c /\ q.head = r.head /\ q.last_pushed = e
        /\ q.tail = Slot(c, t, n) /\ q.size = m - n
        /\ q.last_popped = At(r, n - 1).sequence
    BY <1>1, <1>2, <1>4 DEF pop, Rings
  <2>2. q = [r EXCEPT !.data = [k \in 0 .. c - 1 |-> D(k)], !.tail = Slot(c, t, n),
                      !.size = @ - n, !.last_popped = At(r, n - 1).sequence]
    BY <1>4 DEF pop
  <2>3. \A k \in 0 .. c - 1 : q.data[k] = D(k)
    BY <2>1
  <2>4. /\ r.capacity = c /\ r.tail = t /\ r.size = m /\ r.last_pushed = e
        /\ \A k \in 0 .. c - 1 : /\ Offset(c, t, k) < n => D(k) = Cleared
                                 /\ ~(Offset(c, t, k) < n) => D(k) = r.data[k]
    OBVIOUS
  <2> HIDE DEF c, t, m, e, q, D
  <2>5. /\ \A k \in 0 .. m - 1 : At(r, k).sequence = e - m + 1 + k
        /\ \A k \in 0 .. m - 1 : Counted(At(r, k))
        /\ m > 0 => e - m >= -1
        /\ \A k \in 0 .. c - 1 : Offset(c, t, k) >= m => r.data[k] = Cleared
        /\ e \in -1 .. IntMax - 1 \cup {Sentinel} /\ e \in Int
    BY <1>1, <2>4 DEF Good, Rings, Sentinel
  <2>6. q.tail \in 0 .. c - 1 /\ q.size \in 0 .. c /\ q.size = m - n
    BY <1>2, <2>1 DEF Slot
  <2>7. r.head = Slot(c, q.tail, q.size)
    BY <1>1, <1>2, <2>1 DEF Slot
  <2>8. q.last_popped = e - m + n /\ q.last_popped \in 0 .. IntMax - 1
    <3> DEFINE j == n - 1
    <3>1. j \in 0 .. m - 1 /\ j \in 0 .. c - 1 /\ e - m + 1 + j = e - m + n /\ e - m + n >= 0
      BY <1>2, <1>4, <2>5
    <3>2. q.last_popped = At(r, j).sequence
      BY <2>1
    <3> HIDE DEF j
    <3>3. At(r, j) \in Blocks
      BY <1>1, <2>4, <3>1, AtFacts
    <3>4. At(r, j).sequence = e - m + n
      BY <2>5, <3>1
    <3>5. At(r, j).sequence \in 0 .. IntMax - 1 \cup {Sentinel}
      BY <3>3 DEF Blocks
    <3> QED  BY <1>1, <3>1, <3>2, <3>4, <3>5 DEF Sentinel
  <2>9. q \in Rings(c)
    <3>1. Cleared \in Blocks
      BY <1>1 DEF Cleared, Blocks, Sentinel
    <3>2. \A k \in 0 .. c - 1 : D(k) \in Blocks
      BY <1>1, <2>4, <3>1
    <3>3. q.data \in [0 .. c - 1 -> Blocks]
      BY <2>1, <3>2
    <3> QED  BY <1>1, <2>1, <2>2, <2>4, <2>6, <2>8, <3>3 DEF Rings
  <2>10. \A k \in 0 .. q.size - 1 : At(q, k) = At(r, n + k)
    <3> SUFFICES ASSUME NEW k \in 0 .. q.size - 1 PROVE At(q, k) = At(r, n + k)
      OBVIOUS
    <3> DEFINE x == Slot(c, t, n + k)
    <3>1. /\ Slot(c, Slot(c, t, n), k) = x /\ x \in 0 .. c - 1
          /\ ~(Offset(c, t, x) < n)
      BY <1>2, <2>6 DEF Slot, Offset
    <3>2. At(q, k) = q.data[x] /\ At(r, n + k) = r.data[x]
      BY <2>1, <2>4, <3>1 DEF At
    <3> HIDE DEF x
    <3> QED  BY <2>3, <2>4, <3>1, <3>2
  <2>11. \A k \in 0 .. q.size - 1 : n + k \in 0 .. m - 1 /\ e - m + 1 + (n + k) = e - q.size + 1 + k
    BY <1>2, <2>5, <2>6
  <2>12. \A k \in 0 .. q.size - 1 : /\ At(q, k).sequence = e - q.size + 1 + k
                                    /\ Counted(At(q, k))
    <3> SUFFICES ASSUME NEW k \in 0 .. q.size - 1
                 PROVE  At(q, k).sequence = e - q.size + 1 + k /\ Counted(At(q, k))
      OBVIOUS
    <3> DEFINE j == n + k
    <3>1. j \in 0 .. m - 1 /\ e - m + 1 + j = e - q.size + 1 + k /\ At(q, k) = At(r, j)
      BY <2>10, <2>11
    <3> HIDE DEF j
    <3> QED  BY <2>5, <3>1
  <2>13. \A k \in 0 .. c - 1 : Offset(c, q.tail, k) >= q.size => q.data[k] = Cleared
    <3> SUFFICES ASSUME NEW k \in 0 .. c - 1, Offset(c, q.tail, k) >= q.size
                 PROVE  q.data[k] = Cleared
      OBVIOUS
    <3>1. Offset(c, t, k) < n \/ Offset(c, t, k) >= m
      BY <1>2, <2>1, <2>6 DEF Slot, Offset
    <3> QED  BY <2>3, <2>4, <2>5, <3>1
  <2>14. q.size > 0 => e - q.size >= -1
    BY <1>2, <2>5, <2>6
  <2>15. q.last_popped = e - q.size
    BY <1>2, <2>5, <2>6, <2>8
  <2>16. Good(q)
    BY <1>1, <2>1, <2>7, <2>9, <2>12, <2>13, <2>14, <2>15 DEF Good
  <2>17. Popped(r, q, n)
    BY <1>4, <2>1, <2>4, <2>8, <2>10 DEF Popped
  <2> QED  BY <2>16, <2>17 DEF q
<1> QED  BY <1>2, <1>3, <1>4

\* Popping a blocks and then b more is popping a + b blocks.
LEMMA PoppedTwice ==
    ASSUME NEW r, NEW q, NEW w, NEW a \in Nat, NEW b \in Nat,
           r.size \in Nat, r.last_pushed \in Int, a + b <= r.size,
           Popped(r, q, a), Popped(q, w, b)
    PROVE  Popped(r, w, a + b)
<1>1. /\ w.size = r.size - (a + b) /\ w.capacity = r.capacity
      /\ w.last_pushed = r.last_pushed /\ q.size = r.size - a
  BY DEF Popped
<1>2. a + b = 0 => w.last_popped = r.last_popped
  BY DEF Popped
<1>3. a + b > 0 => w.last_popped = r.last_pushed - r.size + (a + b)
  BY DEF Popped
<1>4. ASSUME NEW k \in 0 .. w.size - 1
      PROVE  At(w, k) = At(r, a + b + k)
  <2> DEFINE j == b + k
  <2>1. j \in 0 .. q.size - 1 /\ a + j = a + b + k
    BY <1>1, <1>4
  <2>2. At(w, k) = At(q, j)
    BY <1>4 DEF Popped
  <2> HIDE DEF j
  <2>3. At(q, j) = At(r, a + j)
    BY <2>1 DEF Popped
  <2> QED  BY <2>1, <2>2, <2>3
<1> QED  BY <1>1, <1>2, <1>3, <1>4 DEF Popped

\* advance_missing() on an empty ring.
LEMMA AdvanceGood ==
    ASSUME NEW r, Good(r), r.size = 0
    PROVE  /\ Good(advance_missing(r))
           /\ advance_missing(r).capacity = r.capacity /\ advance_missing(r).size = 0
           /\ r.last_popped = Sentinel => advance_missing(r) = r
           /\ r.last_popped # Sentinel =>
                 /\ advance_missing(r).last_popped =
                       IF r.last_popped = IntMax - 1 THEN 0 ELSE r.last_popped + 1
                 /\ advance_missing(r).last_pushed = advance_missing(r).last_popped
<1> DEFINE q == advance_missing(r)
           next == IF r.last_popped = IntMax - 1 THEN 0 ELSE r.last_popped + 1
<1>1. IntMax \in Nat \ {0} /\ r.capacity \in Nat \ {0} /\ r \in Rings(r.capacity)
  BY NumbersAssumption, SizesAssumption DEF Good
<1>2. CASE r.last_popped = Sentinel
  BY <1>2 DEF advance_missing
<1>3. CASE r.last_popped # Sentinel
  <2>1. r.last_popped \in 0 .. IntMax - 1
    BY <1>1, <1>3 DEF Rings
  <2>2. next \in 0 .. IntMax - 1
    BY <1>1, <2>1
  <2>3. q = [r EXCEPT !.last_popped = next, !.last_pushed = next]
    BY <1>3 DEF advance_missing
  <2> HIDE DEF q, next
  <2>4. q \in Rings(r.capacity)
    <3>1. next \in -1 .. IntMax - 1 \cup {Sentinel} /\ next \in 0 .. IntMax - 1 \cup {Sentinel}
      BY <1>1, <2>2
    <3> QED  BY <1>1, <2>3, <3>1 DEF Rings
  <2>5. /\ q.capacity = r.capacity /\ q.size = 0 /\ q.head = r.head /\ q.tail = r.tail
        /\ q.data = r.data /\ q.last_popped = next /\ q.last_pushed = next
    BY <1>1, <2>3 DEF Rings
  <2>6. Good(q)
    BY <1>1, <2>2, <2>4, <2>5 DEF Good
  <2> QED  BY <1>3, <2>5, <2>6 DEF q, next
<1> QED  BY <1>2, <1>3

\* A block of the ring replaced by one with the same sequence number.
LEMMA ReplaceGood ==
    ASSUME NEW r, Good(r), NEW j \in 0 .. r.size - 1, NEW x,
           x = Slot(r.capacity, r.tail, j),
           NEW b \in Blocks, Counted(b), b.sequence = r.data[x].sequence
    PROVE  /\ Good([r EXCEPT !.data[x] = b])
           /\ \A k \in 0 .. r.size - 1 :
                 At([r EXCEPT !.data[x] = b], k) = IF k = j THEN b ELSE At(r, k)
<1> DEFINE q == [r EXCEPT !.data[x] = b]
           c == r.capacity
           t == r.tail
           m == r.size
<1>1. /\ c \in Nat \ {0} /\ r \in Rings(c) /\ r.data \in [0 .. c - 1 -> Blocks]
      /\ t \in 0 .. c - 1 /\ m \in 0 .. c
  BY SizesAssumption DEF Good, Rings
<1>2. x \in 0 .. c - 1 /\ Offset(c, t, x) = j /\ j < m
  BY <1>1 DEF Slot, Offset
<1>3. q.data = [r.data EXCEPT ![x] = b] /\ q.data \in [0 .. c - 1 -> Blocks]
  BY <1>1, <1>2 DEF Rings
<1>4. q \in Rings(c)
  BY <1>1, <1>2 DEF Rings
<1>5. /\ q.capacity = c /\ q.size = m /\ q.head = r.head /\ q.tail = t
      /\ q.last_popped = r.last_popped /\ q.last_pushed = r.last_pushed
      /\ r.capacity = c /\ r.size = m /\ r.tail = t
  BY <1>1 DEF Rings
<1>6. q = [r EXCEPT !.data[x] = b]
  OBVIOUS
<1> HIDE DEF q, c, t, m
<1>7. \A k \in 0 .. c - 1 : q.data[k] = IF k = x THEN b ELSE r.data[k]
  BY <1>1, <1>2, <1>3
<1>8. \A k \in 0 .. m - 1 : At(q, k) = IF k = j THEN b ELSE At(r, k)
  <2> SUFFICES ASSUME NEW k \in 0 .. m - 1 PROVE At(q, k) = IF k = j THEN b ELSE At(r, k)
    OBVIOUS
  <2>1. Slot(c, t, k) \in 0 .. c - 1 /\ (Slot(c, t, k) = x <=> k = j)
    BY <1>1, <1>2, <1>5 DEF Slot
  <2> QED  BY <1>5, <1>7, <2>1 DEF At
<1>9. At(r, j) = r.data[x]
  BY <1>5 DEF At
<1>10. \A k \in 0 .. m - 1 : At(q, k).sequence = At(r, k).sequence /\ Counted(At(q, k))
  BY <1>5, <1>8, <1>9 DEF Good
<1>11. Good(q)
  BY <1>1, <1>2, <1>4, <1>5, <1>7, <1>10 DEF Good
<1> QED  BY <1>5, <1>6, <1>8, <1>11

-----------------------------------------------------------------------------
(* Packets                                                                 *)

\* The numbers below n.
LEMMA Below ==
    ASSUME NEW n \in Nat
    PROVE  IsFiniteSet(0 .. n - 1) /\ Cardinality(0 .. n - 1) = n
<1>1. IsFiniteSet(0 .. n - 1)
      /\ Cardinality(0 .. n - 1) = IF 0 > n - 1 THEN 0 ELSE (n - 1) - 0 + 1
  BY FS_Interval
<1> QED  BY <1>1

\* A block with a new frame of its number counts its frames.
LEMMA FrameCounted ==
    ASSUME NEW b \in Blocks, Counted(b), ~placeholder(b), NEW i \in 0 .. NumFrames - 1,
           i \notin b.frames, b.num_frames > 0
    PROVE  /\ add_frame(b, i) \in Blocks /\ Counted(add_frame(b, i))
           /\ add_frame(b, i).sequence = b.sequence
           /\ add_frame(b, i).frames = b.frames \cup {i}
<1> DEFINE q == add_frame(b, i)
           f == b.frames \cup {i}
<1>1. /\ NumFrames \in Nat \ {0} /\ b.num_frames = NumFrames
      /\ b.frames \in SUBSET (0 .. NumFrames - 1)
  BY NumbersAssumption DEF Blocks
<1>2. /\ q.frames = f /\ q.sequence = b.sequence /\ q.pos = b.pos /\ q.num_frames = NumFrames
      /\ q.received_frames = b.received_frames + 1
  BY <1>1 DEF add_frame, Blocks
<1>3. IsFiniteSet(0 .. NumFrames - 1) /\ Cardinality(0 .. NumFrames - 1) = NumFrames
  BY <1>1, Below
<1>4. IsFiniteSet(b.frames) /\ f \in SUBSET (0 .. NumFrames - 1)
  BY <1>1, <1>3, FS_Subset
<1>5. Cardinality(f) = Cardinality(b.frames) + 1
  BY <1>4, FS_AddElement
<1>6. b.received_frames = Cardinality(b.frames)
  BY DEF Counted
<1>7. Cardinality(f) <= NumFrames /\ Cardinality(f) \in Nat
  BY <1>3, <1>4, FS_Subset, FS_CardinalityType
<1>8. q.received_frames \in 0 .. NumFrames /\ q.received_frames = Cardinality(f)
  BY <1>1, <1>2, <1>5, <1>6, <1>7
<1>9. q \in Blocks
  <2>1. q = [b EXCEPT !.frames = f, !.received_frames = b.received_frames + 1]
    BY DEF add_frame, Blocks
  <2>2. b.received_frames + 1 \in -1 .. NumFrames
    BY <1>1, <1>2, <1>8
  <2> QED  BY <1>4, <2>1, <2>2 DEF Blocks
<1>10. Counted(q)
  <2>1. ~placeholder(q)
    BY <1>1, <1>8 DEF placeholder
  <2>2. /\ b.sequence = b.pos % IntMax
        /\ b.num_frames = 0 <=> b.pos \in EmptyBlocks
    BY DEF Counted
  <2>3. q.frames \subseteq 0 .. q.num_frames - 1
    BY <1>2, <1>4
  <2> HIDE DEF q
  <2> QED  BY <1>1, <1>2, <1>8, <2>1, <2>2, <2>3 DEF Counted
<1> QED  BY <1>2, <1>9, <1>10

\* A new block with its first frame.
LEMMA BlockCounted ==
    ASSUME NEW m \in Nat, NEW i \in 0 .. NumFrames - 1
    PROVE  /\ Received(Block(Packet(m, i)), Packet(m, i)) \in Blocks
           /\ Counted(Received(Block(Packet(m, i)), Packet(m, i)))
           /\ Received(Block(Packet(m, i)), Packet(m, i)).sequence = m % IntMax
           /\ m % IntMax \in 0 .. IntMax - 1
<1> DEFINE d == Packet(m, i)
           b == Block(d)
<1>1. NumFrames \in Nat \ {0} /\ IntMax \in Nat \ {0} /\ m % IntMax \in 0 .. IntMax - 1
  BY NumbersAssumption
<1>2. /\ d.sequence = m % IntMax /\ d.index = i
      /\ d.num_frames = IF m \in EmptyBlocks THEN 0 ELSE NumFrames
  BY DEF Packet
<1>3. /\ b.sequence = m % IntMax /\ b.pos = m /\ b.num_frames = d.num_frames
      /\ b.frames = {} /\ b.received_frames = 0
  BY DEF Block, Packet
<1>4. b \in Blocks
  BY <1>1 DEF Block, Packet, Blocks
<1>5. Counted(b) /\ ~placeholder(b)
  BY <1>1, <1>2, <1>3, FS_EmptySet DEF Counted, placeholder
<1> HIDE DEF d, b
<1>6. CASE d.num_frames > 0
  <2>1. /\ add_frame(b, i) \in Blocks /\ Counted(add_frame(b, i))
        /\ add_frame(b, i).sequence = b.sequence
    BY <1>3, <1>4, <1>5, <1>6, FrameCounted
  <2> QED  BY <1>1, <1>2, <1>3, <1>6, <2>1 DEF Received, d, b
<1>7. CASE ~(d.num_frames > 0)
  BY <1>1, <1>3, <1>4, <1>5, <1>7 DEF Received, d, b
<1> QED  BY <1>6, <1>7

\* A slot that find() returns holds the block with that number.
LEMMA FindGood ==
    ASSUME NEW r, Good(r), NEW s, NEW k \in find(r, s), k # None
    PROVE  /\ k \in 0 .. r.capacity - 1 /\ r.data[k].sequence = s
           /\ Offset(r.capacity, r.tail, k) \in 0 .. r.size - 1
           /\ k = Slot(r.capacity, r.tail, Offset(r.capacity, r.tail, k))
<1> DEFINE c == r.capacity
           t == r.tail
           h == r.head
           m == r.size
<1>1. c \in Nat \ {0} /\ t \in 0 .. c - 1 /\ h \in 0 .. c - 1 /\ m \in 0 .. c /\ h = Slot(c, t, m)
  BY SizesAssumption DEF Good, Rings
<1>2. m # 0
  BY DEF find
<1>3. \/ k = back(r) /\ r.data[k].sequence = s
      \/ k \in Searched(r) /\ r.data[k].sequence = s
  BY DEF find
<1>4. back(r) = (IF h = 0 THEN c - 1 ELSE h - 1)
  BY DEF back
<1>5. Searched(r) = IF h > t THEN t .. h - 1 ELSE (0 .. h - 1) \cup (t .. c - 1)
  BY DEF Searched
<1> HIDE DEF c, t, h, m
<1>6. back(r) \in 0 .. c - 1 /\ Offset(c, t, back(r)) \in 0 .. m - 1
  BY <1>1, <1>2, <1>4 DEF Slot, Offset
<1>7. \A x \in Searched(r) : x \in 0 .. c - 1 /\ Offset(c, t, x) \in 0 .. m - 1
  BY <1>1, <1>2, <1>5 DEF Slot, Offset
<1>8. k \in 0 .. c - 1 /\ r.data[k].sequence = s /\ Offset(c, t, k) \in 0 .. m - 1
  BY <1>3, <1>6, <1>7
<1>9. k = Slot(c, t, Offset(c, t, k))
  BY <1>1, <1>8 DEF Slot, Offset
<1> QED  BY <1>8, <1>9 DEF c, t, m

\* The number of complete blocks.
LEMMA CompleteBound ==
    ASSUME NEW r, r.size \in Nat, NEW from \in {0, 1}
    PROVE  complete_blocks(r, from) \in Nat /\ complete_blocks(r, from) <= r.size
<1> DEFINE S == {k \in from .. r.size - 1 : \A i \in from .. k : complete(At(r, i))}
<1>1. IsFiniteSet(0 .. r.size - 1) /\ Cardinality(0 .. r.size - 1) = r.size
  BY Below
<1>2. S \subseteq 0 .. r.size - 1
  OBVIOUS
<1> HIDE DEF S
<1>3. IsFiniteSet(S) /\ Cardinality(S) <= r.size /\ Cardinality(S) \in Nat
  BY <1>1, <1>2, FS_Subset, FS_CardinalityType
<1> QED  BY <1>3 DEF S, complete_blocks

-----------------------------------------------------------------------------
(* The steps of the audio thread                                           *)

\* What a step does to the ring: blocks are added behind the newest one, a block gains
\* frames, the oldest blocks leave (or nothing happens), the place of a missing block is
\* passed, or the ring starts over.
Added(r, q) ==
    /\ q.capacity = r.capacity /\ q.last_popped = r.last_popped
    /\ q.size \in r.size + 1 .. r.capacity
    /\ \A k \in 0 .. r.size - 1 : At(q, k) = At(r, k)
    /\ \A k \in r.size .. q.size - 2 : At(q, k).frames = {}
    /\ r.last_pushed # Sentinel => q.last_pushed = r.last_pushed + q.size - r.size

Gained(r, q, j) ==
    /\ q.capacity = r.capacity /\ q.size = r.size
    /\ q.last_pushed = r.last_pushed /\ q.last_popped = r.last_popped
    /\ \A k \in 0 .. r.size - 1 : k # j => At(q, k) = At(r, k)
    /\ At(q, j).sequence = At(r, j).sequence
    /\ At(r, j).frames \subseteq At(q, j).frames

Missed(r, q) ==
    /\ q.capacity = r.capacity /\ q.size = 0 /\ r.size = 0
    /\ r.last_popped # Sentinel
    /\ q.last_popped = IF r.last_popped = IntMax - 1 THEN 0 ELSE r.last_popped + 1
    /\ q.last_pushed = q.last_popped

Restarted(q) == q.size <= 1 /\ q.last_popped = Sentinel

RingStep(r, q) ==
    \/ Added(r, q)
    \/ \E j \in 0 .. r.size - 1 : Gained(r, q, j)
    \/ \E n \in 0 .. r.size : Popped(r, q, n)
    \/ Missed(r, q)
    \/ Restarted(q)

\* A ring that is left alone.
LEMMA SameStep ==
    ASSUME NEW r, Good(r)
    PROVE  RingStep(r, r)
<1>1. r.size \in Nat
  BY SizesAssumption DEF Good, Rings
<1>2. Popped(r, r, 0)
  BY <1>1 DEF Popped
<1> QED  BY <1>1, <1>2 DEF RingStep

\* A ring that starts over.
LEMMA ResetGood ==
    ASSUME NEW r, Good(r)
    PROVE  /\ Good(reset(r)) /\ Restarted(reset(r)) /\ reset(r).size = 0
           /\ reset(r).capacity = r.capacity /\ reset(r).last_pushed = Sentinel
<1>1. r.capacity \in Sizes
  BY DEF Good
<1>2. Good(Fresh(r.capacity, Sentinel))
  BY <1>1, FreshGood
<1> QED  BY <1>2 DEF reset, resize, Fresh, Restarted

\* The part of add_packet() for a new block.
LEMMA AddBlock ==
    ASSUME NEW r, Good(r), NEW m \in Nat, NEW i \in 0 .. NumFrames - 1,
           add_block(r, Packet(m, i))
    PROVE  Good(jb') /\ (Added(r, jb') \/ Restarted(jb')) /\ jb'.capacity = r.capacity
           /\ (Restarted(r) /\ r.size = 0 /\ r.last_pushed = Sentinel => Restarted(jb'))
           /\ (stream_state' = stream_state \/ stream_state' = "buffering")
<1> DEFINE d == Packet(m, i)
           b == Received(Block(d), d)
           s == m % IntMax
           numblocks == IF r.last_pushed = Sentinel THEN 1 ELSE d.sequence - r.last_pushed
<1>1. b \in Blocks /\ Counted(b) /\ b.sequence = s /\ s \in 0 .. IntMax - 1 /\ d.sequence = s
  BY BlockCounted DEF Packet
<1>2. /\ r.capacity \in Nat \ {0} /\ r.size \in 0 .. r.capacity /\ IntMax \in Nat \ {0}
      /\ r.last_pushed \in -1 .. IntMax - 1 \cup {Sentinel}
  BY SizesAssumption, NumbersAssumption DEF Good, Rings
<1>3. s > r.last_pushed
  BY <1>1 DEF add_block
<1>4. \/ /\ numblocks <= r.capacity - r.size
         /\ jb' = push(r, numblocks - 1, b)
         /\ UNCHANGED stream_state
      \/ /\ numblocks > r.capacity - r.size
         /\ jb' = push(reset(r), 0, b)
         /\ stream_state' = "buffering"
  BY DEF add_block
<1>5. numblocks = IF r.last_pushed = Sentinel THEN 1 ELSE s - r.last_pushed
  BY <1>1
<1> HIDE DEF d, b, s, numblocks
<1>6. CASE numblocks <= r.capacity - r.size /\ jb' = push(r, numblocks - 1, b)
           /\ UNCHANGED stream_state
  <2> DEFINE n == numblocks - 1
  <2>1. /\ n \in Nat /\ r.size + n + 1 <= r.capacity /\ s >= n
        /\ r.last_pushed = Sentinel => n = 0
        /\ r.last_pushed # Sentinel => s = r.last_pushed + n + 1
    BY <1>1, <1>2, <1>3, <1>5, <1>6
  <2>2. jb' = push(r, n, b)
    BY <1>6
  <2> HIDE DEF n
  <2>3. /\ Good(jb') /\ jb'.capacity = r.capacity /\ jb'.size = r.size + n + 1
        /\ jb'.last_pushed = s /\ jb'.last_popped = r.last_popped
        /\ \A k \in 0 .. r.size - 1 : At(jb', k) = At(r, k)
        /\ \A k \in r.size .. r.size + n - 1 : At(jb', k) = Placeholder(s - n + (k - r.size))
    BY <1>1, <2>1, <2>2, PushGood
  <2>4. jb'.size - 2 = r.size + n - 1 /\ jb'.size \in r.size + 1 .. r.capacity
    BY <1>2, <2>1, <2>3
  <2>5. \A k \in r.size .. jb'.size - 2 : At(jb', k).frames = {}
    BY <2>3, <2>4 DEF Placeholder
  <2>6. r.last_pushed # Sentinel => jb'.last_pushed = r.last_pushed + jb'.size - r.size
    BY <1>2, <2>1, <2>3 DEF Sentinel
  <2>7. Added(r, jb')
    BY <2>3, <2>4, <2>5, <2>6 DEF Added
  <2>8. Restarted(r) /\ r.size = 0 /\ r.last_pushed = Sentinel => Restarted(jb')
    <3> SUFFICES ASSUME Restarted(r), r.size = 0, r.last_pushed = Sentinel PROVE Restarted(jb')
      OBVIOUS
    <3>1. jb'.last_popped = Sentinel
      BY <2>3 DEF Restarted
    <3> QED  BY <2>1, <2>3, <3>1 DEF Restarted
  <2> QED  BY <1>6, <2>3, <2>7, <2>8
<1>7. CASE numblocks > r.capacity - r.size /\ jb' = push(reset(r), 0, b)
           /\ stream_state' = "buffering"
  <2>1. /\ Good(reset(r)) /\ reset(r).size = 0 /\ reset(r).capacity = r.capacity
        /\ reset(r).last_pushed = Sentinel /\ reset(r).last_popped = Sentinel
    BY ResetGood DEF Restarted
  <2>2. reset(r).size + 0 + 1 <= reset(r).capacity /\ s >= 0
    BY <1>1, <1>2, <2>1
  <2>3. /\ Good(jb') /\ jb'.capacity = r.capacity /\ jb'.size = 0 + 0 + 1
        /\ jb'.last_popped = Sentinel
    BY <1>1, <1>7, <2>1, <2>2, PushGood
  <2> QED  BY <1>7, <2>3 DEF Restarted
<1> QED  BY <1>4, <1>6, <1>7

\* The part of add_packet() for a block in the ring.
LEMMA AddToBlock ==
    ASSUME NEW r, Good(r), NEW m \in Nat, NEW i \in 0 .. NumFrames - 1,
           NEW k \in 0 .. r.capacity - 1, NEW j \in 0 .. r.size - 1,
           k = Slot(r.capacity, r.tail, j), r.data[k].sequence = m % IntMax,
           add_to_block(r, k, Packet(m, i))
    PROVE  Good(jb') /\ Gained(r, jb', j) /\ stream_state' = stream_state
<1> DEFINE d == Packet(m, i)
           b == r.data[k]
           x == Received(IF placeholder(b) THEN Block(d) ELSE b, d)
<1>1. /\ placeholder(b) \/ (b.num_frames > 0 /\ d.index \notin b.frames)
      /\ jb' = [r EXCEPT !.data[k] = x] /\ stream_state' = stream_state
  BY DEF add_to_block
<1>2. /\ r.capacity \in Nat \ {0} /\ r \in Rings(r.capacity)
      /\ r.data \in [0 .. r.capacity - 1 -> Blocks] /\ b \in Blocks /\ b = At(r, j)
  BY SizesAssumption DEF Good, Rings, At
<1>3. Counted(b)
  BY <1>2 DEF Good
<1>4. d.index = i /\ b.sequence = m % IntMax /\ b = r.data[k]
  BY DEF Packet
<1> HIDE DEF d, b, x
<1>5. x \in Blocks /\ Counted(x) /\ x.sequence = b.sequence /\ b.frames \subseteq x.frames
  <2>1. CASE placeholder(b)
    <3>1. x = Received(Block(d), d)
      BY <2>1 DEF x
    <3>2. b.frames = {}
      BY <1>3, <2>1 DEF Counted
    <3> QED  BY <1>4, <3>1, <3>2, BlockCounted DEF d
  <2>2. CASE ~placeholder(b)
    <3>1. CASE d.num_frames > 0
      <4>1. x = add_frame(b, i)
        BY <1>4, <2>2, <3>1 DEF x, Received
      <4> QED  BY <1>1, <1>2, <1>3, <1>4, <2>2, <4>1, FrameCounted
    <3>2. CASE ~(d.num_frames > 0)
      <4>1. x = b
        BY <2>2, <3>2 DEF x, Received
      <4> QED  BY <1>2, <1>3, <4>1
    <3> QED  BY <3>1, <3>2
  <2> QED  BY <2>1, <2>2
<1>6. Good(jb') /\ \A y \in 0 .. r.size - 1 : At(jb', y) = IF y = j THEN x ELSE At(r, y)
  <2>1. /\ Good([r EXCEPT !.data[k] = x])
        /\ \A y \in 0 .. r.size - 1 :
              At([r EXCEPT !.data[k] = x], y) = IF y = j THEN x ELSE At(r, y)
    BY <1>4, <1>5, ReplaceGood
  <2> QED  BY <1>1, <2>1
<1>7. /\ jb'.capacity = r.capacity /\ jb'.size = r.size
      /\ jb'.last_pushed = r.last_pushed /\ jb'.last_popped = r.last_popped
  BY <1>1, <1>2 DEF Rings
<1> QED  BY <1>1, <1>2, <1>5, <1>6, <1>7 DEF Gained

\* The inductive invariant.
IInv == TypeOK /\ Good(jb)

\* The part of TypeOK that is not about the ring.
RestOK ==
    /\ sent \in Nat /\ reserved \in Nat /\ reserved >= jb.capacity
    /\ profile \in Profiles /\ latency \in Latencies
    /\ stream_state \in {"inactive", "buffering", "active"} /\ underrun \in BOOLEAN
    /\ missing \in 0 .. MaxMissing - 1 /\ position \in Nat

LEMMA Split == IInv <=> RestOK /\ Good(jb)
  BY DEF IInv, TypeOK, RestOK, Good

LEMMA InitInv == Init => IInv
<1> SUFFICES ASSUME Init PROVE IInv
  OBVIOUS
<1>1. PICK c \in Sizes : jb = Fresh(c, (sent % IntMax) - 1) /\ reserved = c
  BY DEF Init
<1>2. sent \in Nat /\ IntMax \in Nat \ {0} /\ MaxMissing \in Nat \ {0} /\ c \in Nat \ {0}
  BY NumbersAssumption, SizesAssumption DEF Init
<1>3. (sent % IntMax) - 1 \in -1 .. IntMax - 1 \cup {Sentinel}
  BY <1>2
<1>4. Good(jb) /\ jb.capacity = c
  BY <1>1, <1>3, FreshGood DEF Fresh
<1>5. RestOK
  <2>1. underrun \in BOOLEAN
    BY DEF Init
  <2>2. missing \in 0 .. MaxMissing - 1 /\ position \in Nat /\ reserved \in Nat /\ reserved >= c
    BY <1>1, <1>2 DEF Init
  <2>3. stream_state \in {"inactive", "buffering", "active"}
    BY DEF Init
  <2>4. profile \in Profiles /\ latency \in Latencies
    BY DEF Init
  <2> QED  BY <1>2, <1>4, <2>1, <2>2, <2>3, <2>4 DEF RestOK
<1> QED  BY <1>4, <1>5, Split

\* Dropping blocks.
LEMMA SkipGood ==
    ASSUME NEW r, Good(r), NEW p \in Nat, NEW n \in 0 .. r.size
    PROVE  /\ Good(Skip(r, p, n).jb) /\ Skip(r, p, n).position \in Nat
           /\ Popped(r, Skip(r, p, n).jb, n)
<1>1. Skip(r, p, n).jb = pop(r, n)
  BY DEF Skip
<1>2. Skip(r, p, n).position = IF n = 0 THEN p ELSE Behind(p, At(r, n - 1))
  BY DEF Skip
<1>3. ASSUME n # 0 PROVE Behind(p, At(r, n - 1)) \in Nat
  <2> DEFINE j == n - 1
  <2>1. r.capacity \in Nat \ {0} /\ r.size \in 0 .. r.capacity /\ r \in Rings(r.capacity)
    BY SizesAssumption DEF Good, Rings
  <2>2. j \in 0 .. r.capacity - 1
    BY <1>3, <2>1
  <2> HIDE DEF j
  <2>3. At(r, j) \in Blocks
    BY <2>1, <2>2, AtFacts
  <2>4. At(r, j).pos \in Nat
    BY <2>3 DEF Blocks
  <2>5. Behind(p, At(r, j)) \in Nat
    BY <2>4 DEF Behind
  <2> QED  BY <2>5 DEF j
<1> QED  BY <1>1, <1>2, <1>3, PopGood

\* What the wired profile drops before it plays: it never empties an active buffer.
LEMMA TrimGood ==
    ASSUME IInv, NEW st \in {"inactive", "buffering", "active"}, NEW l \in Latencies
    PROVE  /\ Good(Trimmed(st, l).jb) /\ Trimmed(st, l).position \in Nat
           /\ \E n \in 0 .. jb.size :
                 /\ Popped(jb, Trimmed(st, l).jb, n)
                 /\ st = "active" /\ Trimmed(st, l).jb.size = 0 => n = 0
<1> DEFINE T == Trimmed(st, l)
           Stay == [jb |-> jb, position |-> position]
           s == IF st = "buffering" THEN Skip(jb, position, Stale(jb, l)) ELSE Stay
<1>1. /\ Good(jb) /\ position \in Nat /\ jb.size \in Nat /\ jb.last_pushed \in Int
      /\ l \in Nat \ {0}
  <2>1. Good(jb) /\ position \in Nat
    BY DEF IInv, TypeOK
  <2>2. jb \in Rings(jb.capacity) /\ jb.capacity \in Nat \ {0} /\ IntMax \in Nat
    BY <2>1, SizesAssumption, NumbersAssumption DEF Good
  <2>3. jb.size \in 0 .. jb.capacity /\ jb.last_pushed \in -1 .. IntMax - 1 \cup {Sentinel}
    BY <2>2 DEF Rings
  <2> QED  BY <2>1, <2>2, <2>3, SizesAssumption DEF Sentinel
<1>2. Stay.jb = jb /\ Stay.position = position /\ Popped(jb, jb, 0)
  BY <1>1 DEF Popped
<1>3. T = IF profile # "wired" THEN Stay
          ELSE IF st = "inactive" THEN s
          ELSE Skip(s.jb, s.position, Backlog(s.jb, l))
  BY DEF Trimmed
<1>4. PICK a \in 0 .. jb.size :
         /\ Good(s.jb) /\ s.position \in Nat /\ Popped(jb, s.jb, a)
         /\ st # "buffering" => a = 0 /\ s.jb = jb
  <2>1. CASE st = "buffering"
    <3>1. Stale(jb, l) \in 0 .. jb.size
      BY <1>1 DEF Stale
    <3> HIDE DEF Stay
    <3>2. s = Skip(jb, position, Stale(jb, l))
      BY <2>1
    <3> QED  BY <1>1, <2>1, <3>1, <3>2, SkipGood
  <2>2. CASE st # "buffering"
    <3>1. 0 \in 0 .. jb.size
      BY <1>1
    <3> HIDE DEF Stay
    <3>2. s = Stay
      BY <2>2
    <3> QED  BY <1>1, <1>2, <2>2, <3>1, <3>2
  <2> QED  BY <2>1, <2>2
<1> HIDE DEF T, Stay, s
<1>5. CASE profile # "wired"
  <2>1. 0 \in 0 .. jb.size /\ T = Stay
    BY <1>1, <1>3, <1>5
  <2> QED  BY <1>1, <1>2, <2>1 DEF T
<1>6. CASE profile = "wired" /\ st = "inactive"
  <2>1. T = s
    BY <1>3, <1>6
  <2> QED  BY <1>4, <1>6, <2>1 DEF T
<1>7. CASE profile = "wired" /\ st # "inactive"
  <2> DEFINE b == Backlog(s.jb, l)
  <2>1. s.jb.size \in Nat /\ s.jb.size = jb.size - a
    BY <1>1, <1>4 DEF Popped
  <2>2. complete_blocks(s.jb, 0) \in Nat /\ complete_blocks(s.jb, 0) <= s.jb.size
    BY <2>1, CompleteBound
  <2>3. b \in 0 .. s.jb.size /\ (b > 0 => s.jb.size - b > 0)
    BY <1>1, <2>1, <2>2 DEF Backlog
  <2>4. T = Skip(s.jb, s.position, b)
    BY <1>3, <1>7
  <2> HIDE DEF b
  <2>5. Good(T.jb) /\ T.position \in Nat /\ Popped(s.jb, T.jb, b)
    BY <1>4, <2>3, <2>4, SkipGood
  <2>6. a + b \in 0 .. jb.size /\ a + b <= jb.size /\ a \in Nat /\ b \in Nat
    BY <1>1, <2>1, <2>3
  <2>7. Popped(jb, T.jb, a + b)
    BY <1>1, <1>4, <2>5, <2>6, PoppedTwice
  <2>8. T.jb.size = s.jb.size - b
    BY <2>5 DEF Popped
  <2>9. st = "active" /\ T.jb.size = 0 => a + b = 0
    BY <1>4, <2>1, <2>3, <2>6, <2>8
  <2> QED  BY <2>5, <2>6, <2>7, <2>9 DEF T
<1> QED  BY <1>5, <1>6, <1>7

\* add_packet()
LEMMA AddPacketStep ==
    ASSUME IInv, NEW m \in 0 .. MaxBlocks, NEW i \in 0 .. NumFrames - 1, add_packet(m, i)
    PROVE  IInv' /\ RingStep(jb, jb')
<1> DEFINE d == Packet(m, i)
           old == d.sequence <= jb.last_popped
           r == IF old THEN reset(jb) ELSE jb
<1>1. Good(jb) /\ RestOK /\ m \in Nat
  BY Split, NumbersAssumption
<1>2. d.sequence = m % IntMax
  BY DEF Packet
<1>3. PICK k \in find(r, d.sequence) : IF k = None THEN add_block(r, d) ELSE add_to_block(r, k, d)
  BY DEF add_packet
<1>4. UNCHANGED <<sent, reserved, profile, latency, underrun, missing, position>>
  BY DEF add_packet
<1>5. old => r = reset(jb)
  OBVIOUS
<1>6. ~old => r = jb
  OBVIOUS
<1> HIDE DEF d, old, r
<1>7. /\ Good(r) /\ r.capacity = jb.capacity
      /\ old => r.size = 0 /\ Restarted(r) /\ r.last_pushed = Sentinel
  BY <1>1, <1>5, <1>6, ResetGood
<1>8. /\ Good(jb') /\ jb'.capacity = jb.capacity /\ RingStep(jb, jb')
      /\ stream_state' = stream_state \/ stream_state' = "buffering"
  <2>1. CASE k = None
    <3>1. add_block(r, Packet(m, i))
      BY <1>3, <2>1 DEF d
    <3>2. /\ Good(jb') /\ (Added(r, jb') \/ Restarted(jb')) /\ jb'.capacity = r.capacity
          /\ (Restarted(r) /\ r.size = 0 /\ r.last_pushed = Sentinel => Restarted(jb'))
          /\ (stream_state' = stream_state \/ stream_state' = "buffering")
      BY <1>1, <1>7, <3>1, AddBlock
    <3> QED  BY <1>6, <1>7, <3>2 DEF RingStep
  <2>2. CASE k # None
    <3> DEFINE j == Offset(r.capacity, r.tail, k)
    <3>1. add_to_block(r, k, Packet(m, i))
      BY <1>3, <2>2 DEF d
    <3>2. /\ k \in 0 .. r.capacity - 1 /\ r.data[k].sequence = m % IntMax
          /\ j \in 0 .. r.size - 1 /\ k = Slot(r.capacity, r.tail, j)
      BY <1>2, <1>3, <1>7, <2>2, FindGood, SMTT(20)
    <3> HIDE DEF j
    <3>3. Good(jb') /\ Gained(r, jb', j) /\ stream_state' = stream_state
      BY <1>1, <1>7, <3>1, <3>2, AddToBlock
    <3>4. ~old
      BY <1>7, <3>2
    <3>5. jb'.capacity = jb.capacity
      BY <1>7, <3>3 DEF Gained
    <3> QED  BY <1>6, <3>2, <3>3, <3>4, <3>5 DEF RingStep
  <2> QED  BY <2>1, <2>2
<1>9. RestOK'
  BY <1>1, <1>4, <1>8 DEF RestOK
<1>10. (RestOK /\ Good(jb))' => IInv'
  BY Split, PTL
<1> QED  BY <1>8, <1>9, <1>10

\* try_decode_block(): what it leaves of the ring, and the rest of its state.
LEMMA DecodeStep ==
    ASSUME IInv, try_decode_block
    PROVE  IInv' /\ RingStep(jb, jb')
<1>1. Good(jb) /\ RestOK /\ RingStep(jb, jb)
  BY Split, SameStep
<1>2. PICK l \in IF profile = "none" THEN {latency} ELSE Latencies :
       LET st == IF l > latency /\ stream_state = "active" THEN "buffering" ELSE stream_state
           r == Trimmed(st, l).jb
           p == Trimmed(st, l).position
       IN /\ latency' = l
          /\ \/ /\ st = "buffering"
                /\ jb' = r /\ position' = p
                /\ stream_state' = st
                /\ UNCHANGED <<underrun, missing>>
             \/ st = "buffering" /\ no_block(jb, position)
             \/ /\ st = "buffering" => ~Wait(r, l)
                /\ r.size > 0
                /\ play_block(r, p, IF st = "buffering" THEN "active" ELSE st)
             \/ st = "active" /\ r.size = 0 /\ profile # "none" /\ play_silence(r, p)
             \/ /\ st # "buffering" /\ r.size = 0 /\ (st = "active" => profile = "none")
                /\ no_block(r, p)
          /\ UNCHANGED <<sent, reserved, profile>>
  BY DEF try_decode_block
<1> DEFINE st == IF l > latency /\ stream_state = "active" THEN "buffering" ELSE stream_state
           r == Trimmed(st, l).jb
           p == Trimmed(st, l).position
           States == {"inactive", "buffering", "active"}
<1>3. l \in Latencies /\ latency' = l /\ UNCHANGED <<sent, reserved, profile>>
  BY <1>1, <1>2 DEF RestOK
<1>4. st \in States
  BY <1>1 DEF RestOK
<1>5. \/ /\ st = "buffering"
         /\ jb' = r /\ position' = p
         /\ stream_state' = st
         /\ UNCHANGED <<underrun, missing>>
      \/ st = "buffering" /\ no_block(jb, position)
      \/ r.size > 0 /\ play_block(r, p, IF st = "buffering" THEN "active" ELSE st)
      \/ st = "active" /\ r.size = 0 /\ play_silence(r, p)
      \/ no_block(r, p)
  BY <1>2
<1> HIDE DEF st, States
<1>6. PICK n \in 0 .. jb.size :
         /\ Good(r) /\ p \in Nat
         /\ Popped(jb, r, n) /\ (st = "active" /\ r.size = 0 => n = 0)
  BY <1>3, <1>4, TrimGood DEF States
<1> HIDE DEF r, p
<1>7. /\ RingStep(jb, r) /\ r.capacity = jb.capacity /\ r.size \in Nat
      /\ jb.size \in Nat /\ jb.last_pushed \in Int
      /\ Good(reset(r)) /\ RingStep(jb, reset(r)) /\ reset(r).capacity = r.capacity
  <2>1. RingStep(jb, r) /\ r.capacity = jb.capacity
    BY <1>6 DEF RingStep, Popped
  <2>2. r.size \in Nat
    BY <1>6, SizesAssumption DEF Good, Rings
  <2>3. jb.size \in Nat
    BY <1>1, SizesAssumption DEF Good, Rings
  <2>4. jb.last_pushed \in -1 .. IntMax - 1 \cup {Sentinel}
    BY <1>1 DEF Good, Rings
  <2>5. jb.last_pushed \in Int
    BY <2>4, NumbersAssumption DEF Sentinel
  <2> QED  BY <1>6, <2>1, <2>2, <2>3, <2>5, ResetGood DEF RingStep
<1>8. MaxMissing \in Nat \ {0} /\ missing \in 0 .. MaxMissing - 1 /\ position \in Nat
  BY <1>1, NumbersAssumption DEF RestOK
<1>9. /\ Good(jb') /\ jb'.capacity = jb.capacity /\ RingStep(jb, jb')
      /\ stream_state' \in States /\ position' \in Nat
      /\ missing' \in 0 .. MaxMissing - 1 /\ underrun' \in BOOLEAN
  <2>0. underrun \in BOOLEAN
    BY <1>1 DEF RestOK
  <2>1. CASE st = "buffering" /\ jb' = r /\ position' = p /\ stream_state' = st
             /\ UNCHANGED <<underrun, missing>>
    BY <1>4, <1>6, <1>7, <1>8, <2>0, <2>1
  <2>2. CASE no_block(jb, position)
    BY <1>1, <1>8, <2>2 DEF no_block, States
  <2>3. CASE no_block(r, p)
    BY <1>6, <1>7, <1>8, <2>3 DEF no_block, States
  <2>4. CASE st = "active" /\ r.size = 0 /\ play_silence(r, p)
    <3>1. position' = p + 1 /\ underrun' = underrun
      BY <2>4 DEF play_silence
    <3>2. CASE Reacquire(r)
      BY <1>6, <1>7, <1>8, <2>0, <3>1, <3>2 DEF Reacquire, States
    <3>3. CASE ~(missing + 1 >= MaxMissing) /\ jb' = advance_missing(r)
               /\ stream_state' = "active" /\ missing' = missing + 1
      <4>1. n = 0 /\ r.last_popped = jb.last_popped /\ jb.size = 0
        BY <1>6, <1>7, <2>4 DEF Popped
      <4>2. /\ Good(jb') /\ jb'.capacity = r.capacity
            /\ jb' = r \/ Missed(jb, jb')
        BY <1>6, <1>7, <2>4, <3>3, <4>1, AdvanceGood DEF Missed
      <4>3. RingStep(jb, jb')
        BY <1>7, <4>2 DEF RingStep
      <4>4. missing' \in 0 .. MaxMissing - 1 /\ position' \in Nat
        BY <1>6, <1>8, <3>1, <3>3
      <4> QED  BY <1>7, <2>0, <3>1, <3>3, <4>2, <4>3, <4>4 DEF States
    <3> QED  BY <2>4, <3>2, <3>3 DEF play_silence
  <2>5. CASE r.size > 0 /\ play_block(r, p, IF st = "buffering" THEN "active" ELSE st)
    <3> DEFINE b == At(r, 0)
               next == IF st = "buffering" THEN "active" ELSE st
    <3>1. next \in States
      BY <1>4 DEF States
    <3>2. b.pos \in Nat
      <4>1. r.capacity \in Nat \ {0} /\ r \in Rings(r.capacity)
        BY <1>6, SizesAssumption DEF Good
      <4>2. 0 \in 0 .. r.capacity - 1
        BY <4>1
      <4>3. b \in Blocks
        BY <4>1, <4>2, AtFacts
      <4> QED  BY <4>3 DEF Blocks
    <3> HIDE DEF b, next
    <3>3. position' \in Nat
      <4>1. position' = IF profile = "none" THEN p
                        ELSE IF complete(b) THEN Behind(p, b) ELSE p + 1
        BY <2>5 DEF play_block, b
      <4>2. Behind(p, b) \in Nat /\ p + 1 \in Nat
        BY <1>6, <3>2 DEF Behind
      <4> QED  BY <1>6, <4>1, <4>2
    <3>4. underrun' = underrun
      BY <2>5 DEF play_block
    <3>5. CASE Reacquire(r)
      BY <1>7, <1>8, <2>0, <3>3, <3>4, <3>5 DEF Reacquire, States
    <3>6. CASE /\ ~(profile # "none" /\ ~complete(b) /\ missing + 1 >= MaxMissing)
               /\ jb' = pop(r, 1) /\ stream_state' = next
               /\ missing' = IF profile = "none" THEN missing
                             ELSE IF complete(b) THEN 0 ELSE missing + 1
      <4>1. 1 \in 0 .. r.size /\ 1 \in Nat /\ n \in Nat
        BY <1>7, <2>5
      <4>2. Good(jb') /\ Popped(r, jb', 1)
        BY <1>6, <3>6, <4>1, PopGood
      <4>3. r.size = jb.size - n /\ n + 1 \in 0 .. jb.size /\ n + 1 <= jb.size
        BY <1>6, <1>7, <2>5 DEF Popped
      <4>4. Popped(jb, jb', n + 1)
        BY <1>6, <1>7, <4>1, <4>2, <4>3, PoppedTwice
      <4>5. RingStep(jb, jb') /\ jb'.capacity = jb.capacity
        BY <4>3, <4>4 DEF RingStep, Popped
      <4>6. missing' \in 0 .. MaxMissing - 1
        BY <1>8, <3>6
      <4> QED  BY <2>0, <3>1, <3>3, <3>4, <3>6, <4>2, <4>5, <4>6
    <3> QED  BY <2>5, <3>5, <3>6 DEF play_block, b, next
  <2> QED  BY <1>5, <2>1, <2>2, <2>3, <2>4, <2>5
<1>10. RestOK'
  BY <1>1, <1>3, <1>9 DEF RestOK, States
<1>11. (RestOK /\ Good(jb))' => IInv'
  BY Split, PTL
<1> QED  BY <1>9, <1>10, <1>11

\* Every step keeps the invariant, and is one of the steps of the ring.
LEMMA NextStep ==
    ASSUME IInv, [Next]_vars
    PROVE  IInv' /\ RingStep(jb, jb')
<1>1. Good(jb) /\ RestOK /\ RingStep(jb, jb)
  BY Split, SameStep
<1>2. (RestOK /\ Good(jb))' => IInv'
  BY Split, PTL
<1>3. CASE SendBlock
  <2>1. /\ sent' \in Nat
        /\ UNCHANGED <<jb, reserved, profile, latency, stream_state, underrun, missing, position>>
    BY <1>1, <1>3 DEF SendBlock, RestOK
  <2> QED  BY <1>1, <1>2, <2>1 DEF RestOK
<1>4. CASE \E m \in 0 .. MaxBlocks, i \in 0 .. NumFrames - 1 : add_packet(m, i)
  BY <1>4, AddPacketStep
<1>5. CASE handle_underrun
  <2>1. Good(jb') /\ RingStep(jb, jb') /\ jb'.capacity = jb.capacity
    BY <1>1, <1>5, ResetGood DEF handle_underrun, RingStep
  <2>2. underrun' \in BOOLEAN /\ stream_state' \in {"inactive", "buffering", "active"}
    BY <1>5 DEF handle_underrun
  <2>3. UNCHANGED <<sent, reserved, profile, latency, missing, position>>
    BY <1>5 DEF handle_underrun
  <2> QED  BY <1>1, <1>2, <2>1, <2>2, <2>3 DEF RestOK
<1>6. CASE try_decode_block
  BY <1>6, DecodeStep
<1>7. CASE \E c \in Sizes, l \in Latencies : update(c, l)
  <2>1. PICK c \in Sizes, l \in Latencies : update(c, l)
    BY <1>7
  <2>2. Good(jb') /\ RingStep(jb, jb') /\ jb'.capacity = c
    <3>1. jb' = Fresh(c, Sentinel)
      BY <2>1 DEF update, resize
    <3>2. Restarted(jb') /\ jb'.capacity = c
      BY <3>1 DEF Fresh, Restarted
    <3> QED  BY <3>1, <3>2, FreshGood DEF RingStep
  <2>3. reserved' \in Nat /\ reserved' >= c
    <3>1. reserved' \in IF c <= reserved THEN {reserved}
                        ELSE {c} \cup {x \in {2 * reserved} : x >= c}
      BY <2>1 DEF update
    <3>2. reserved \in Nat /\ c \in Nat
      BY <1>1, SizesAssumption DEF RestOK
    <3> QED  BY <3>1, <3>2
  <2>4. underrun' \in BOOLEAN /\ stream_state' \in {"inactive", "buffering", "active"}
    BY <2>1 DEF update
  <2>5. latency' = l /\ UNCHANGED <<sent, profile, missing, position>>
    BY <2>1 DEF update
  <2> QED  BY <1>1, <1>2, <2>2, <2>3, <2>4, <2>5 DEF RestOK
<1>8. CASE UNCHANGED vars
  BY <1>1, <1>2, <1>8 DEF vars, RestOK
<1> QED  BY <1>3, <1>4, <1>5, <1>6, <1>7, <1>8 DEF Next

\* The invariant holds throughout.
LEMMA Invariance == Spec => []IInv
<1>1. IInv /\ [Next]_vars => IInv'
  BY NextStep
<1> QED  BY InitInv, <1>1, PTL DEF Spec

\* find() finds every block of a well-formed ring if its search is linear or stays within
\* the buffer.
LEMMA FindFinds ==
    ASSUME Good(jb), jb.size < SearchThreshold \/ reserved = jb.capacity,
           NEW j \in 0 .. jb.size - 1
    PROVE  find(jb, At(jb, j).sequence) = {Slot(jb.capacity, jb.tail, j)}
<1> DEFINE c == jb.capacity
           t == jb.tail
           h == jb.head
           m == jb.size
           e == jb.last_pushed
           y == Slot(c, t, j)
           s == At(jb, j).sequence
           N(k) == jb.data[k].sequence
           hits == {k \in Searched(jb) : jb.data[k].sequence = s}
           exact == /\ Sorted(jb, t, h - 1)
                    /\ h <= t => /\ Sorted(jb, 0, h - 1)
                                 /\ Sorted(jb, t, c - 1)
                                 /\ reserved = c
<1>1. c \in Nat \ {0} /\ t \in 0 .. c - 1 /\ h \in 0 .. c - 1 /\ m \in 0 .. c /\ h = Slot(c, t, m)
  BY SizesAssumption DEF Good, Rings
<1>2. e \in Int /\ \A k \in 0 .. m - 1 : At(jb, k).sequence = e - m + 1 + k
  <2>1. e \in -1 .. IntMax - 1 \cup {Sentinel}
    BY DEF Good, Rings
  <2>2. e \in Int
    BY <2>1, NumbersAssumption DEF Sentinel
  <2> QED  BY <2>2 DEF Good
<1>3. \A k \in 0 .. m - 1 : At(jb, k) = jb.data[Slot(c, t, k)]
  BY DEF At
<1>4. find(jb, s) = IF m = 0 THEN {None}
                    ELSE IF N(back(jb)) = s THEN {back(jb)}
                    ELSE IF hits = {} THEN {None}
                    ELSE IF m < SearchThreshold \/ exact THEN hits
                    ELSE hits \cup {None}
  BY DEF find
<1>5. back(jb) = (IF h = 0 THEN c - 1 ELSE h - 1)
  BY DEF back
<1>6. Searched(jb) = IF h > t THEN t .. h - 1 ELSE (0 .. h - 1) \cup (t .. c - 1)
  BY DEF Searched
<1>7. \A a, b : Sorted(jb, a, b) <=> \A u, v \in a .. b : u < v => N(u) < N(v)
  BY DEF Sorted
<1>8. \A k : jb.data[k].sequence = N(k)
  OBVIOUS
<1>9. j \in 0 .. m - 1 /\ (m < SearchThreshold \/ reserved = c)
  OBVIOUS
<1> HIDE DEF c, t, h, m, e, N
<1>10. \A k \in Searched(jb) : /\ k \in 0 .. c - 1 /\ Offset(c, t, k) \in 0 .. m - 1
                               /\ Slot(c, t, Offset(c, t, k)) = k
  BY <1>1, <1>6, <1>9 DEF Slot, Offset
<1>11. \A k \in Searched(jb) : N(k) = e - m + 1 + Offset(c, t, k)
  <2> SUFFICES ASSUME NEW k \in Searched(jb) PROVE N(k) = e - m + 1 + Offset(c, t, k)
    OBVIOUS
  <2> DEFINE x == Offset(c, t, k)
  <2>1. x \in 0 .. m - 1 /\ Slot(c, t, x) = k
    BY <1>10
  <2> HIDE DEF x
  <2>2. N(k) = e - m + 1 + x
    BY <1>2, <1>3, <1>8, <2>1
  <2> QED  BY <2>2 DEF x
<1>12. y \in Searched(jb) /\ Offset(c, t, y) = j
  BY <1>1, <1>6, <1>9 DEF Slot, Offset
<1>13. s = e - m + 1 + j
  BY <1>2, <1>9
<1>14. back(jb) \in Searched(jb)
  BY <1>1, <1>5, <1>6, <1>9 DEF Slot
<1> HIDE DEF y, s
<1>15. \A k \in Searched(jb) : N(k) = s <=> k = y
  <2> SUFFICES ASSUME NEW k \in Searched(jb) PROVE N(k) = s <=> k = y
    OBVIOUS
  <2>1. N(k) = s <=> Offset(c, t, k) = j
    BY <1>1, <1>2, <1>9, <1>10, <1>11, <1>13
  <2>2. Offset(c, t, k) = j <=> k = y
    BY <1>10, <1>12 DEF y
  <2> QED  BY <2>1, <2>2
<1>16. hits = {y}
  BY <1>8, <1>12, <1>15
<1>17. m < SearchThreshold \/ exact
  <2> SUFFICES ASSUME reserved = c PROVE exact
    BY <1>9
  <2>1. ASSUME NEW a \in Int, NEW b \in Int, a .. b \subseteq Searched(jb),
               \A u, v \in a .. b : u < v => Offset(c, t, u) < Offset(c, t, v)
        PROVE  Sorted(jb, a, b)
    <3> SUFFICES ASSUME NEW u \in a .. b, NEW v \in a .. b, u < v PROVE N(u) < N(v)
      BY <1>7
    <3>1. Offset(c, t, u) < Offset(c, t, v)
      BY <2>1
    <3>2. /\ N(u) = e - m + 1 + Offset(c, t, u) /\ Offset(c, t, u) \in 0 .. m - 1
          /\ N(v) = e - m + 1 + Offset(c, t, v) /\ Offset(c, t, v) \in 0 .. m - 1
      BY <1>10, <1>11, <2>1
    <3> QED  BY <1>1, <1>2, <3>1, <3>2
  <2>2. Sorted(jb, t, h - 1)
    <3>1. CASE h > t
      <4>1. /\ t \in Int /\ h - 1 \in Int /\ t .. h - 1 \subseteq Searched(jb)
            /\ \A u, v \in t .. h - 1 : u < v => Offset(c, t, u) < Offset(c, t, v)
        BY <1>1, <1>6, <3>1 DEF Offset
      <4> QED  BY <2>1, <4>1
    <3>2. CASE ~(h > t)
      BY <1>1, <1>7, <3>2
    <3> QED  BY <3>1, <3>2
  <2>3. ASSUME h <= t PROVE Sorted(jb, 0, h - 1) /\ Sorted(jb, t, c - 1)
    <3>1. /\ 0 .. h - 1 \subseteq Searched(jb) /\ h - 1 \in Int
          /\ \A u, v \in 0 .. h - 1 : u < v => Offset(c, t, u) < Offset(c, t, v)
      BY <1>1, <1>6, <2>3 DEF Offset
    <3>2. /\ t .. c - 1 \subseteq Searched(jb) /\ t \in Int /\ c - 1 \in Int
          /\ \A u, v \in t .. c - 1 : u < v => Offset(c, t, u) < Offset(c, t, v)
      BY <1>1, <1>6, <2>3 DEF Offset
    <3>3. Sorted(jb, 0, h - 1)
      BY <2>1, <3>1
    <3>4. Sorted(jb, t, c - 1)
      BY <2>1, <3>2
    <3> QED  BY <3>3, <3>4
  <2> QED  BY <2>2, <2>3
<1> HIDE DEF hits, exact
<1>18. m # 0
  BY <1>1, <1>9
<1>19. find(jb, s) = {y}
  BY <1>4, <1>14, <1>15, <1>16, <1>17, <1>18
<1> QED  BY <1>19 DEF s, y, c, t

-----------------------------------------------------------------------------
(* The theorems                                                            *)

\* The type invariant of the jitter buffer and the audio thread that works on it.
THEOREM TypeCorrect == Spec => []TypeOK
  BY Invariance, PTL DEF IInv

\* The blocks in the ring are consecutive, so the assertion in push() never fails.
THEOREM AlwaysConsecutive == Spec => []Consecutive
<1>1. IInv => Consecutive
  BY DEF IInv, Good, Consecutive
<1> QED  BY Invariance, <1>1, PTL

\* A free slot holds no frames, so the assertion in received_block::init() never fails.
THEOREM AlwaysClean == Spec => []CleanSlots
<1>1. IInv => CleanSlots
  <2> SUFFICES ASSUME Good(jb) PROVE CleanSlots
    BY DEF IInv
  <2>1. DOMAIN jb.data = 0 .. jb.capacity - 1
    BY DEF Good, Rings
  <2> QED  BY <2>1 DEF Good, CleanSlots
<1> QED  BY Invariance, <1>1, PTL

\* The counter of received frames agrees with the frames a block holds, whatever packets are
\* lost, repeated or reordered.
THEOREM AlwaysCounted == Spec => []FramesCounted
<1>1. IInv => FramesCounted
  BY DEF IInv, Good, Counted, FramesCounted
<1> QED  BY Invariance, <1>1, PTL

\* find() finds every block if the search is linear or the vector is as large as the buffer.
THEOREM AlwaysFound == Spec => []FindWithin
<1>1. IInv => FindWithin
  BY FindFinds DEF IInv, FindWithin, FindExact
<1> QED  BY Invariance, <1>1, PTL

\* The ring stays intact: no slot is dirty when push() reuses it, no frame is miscounted and
\* no block is out of the reach of find().
THEOREM AlwaysSound == Spec => []RingSound
  BY TypeCorrect, AlwaysClean, AlwaysCounted, AlwaysFound, PTL DEF RingSound

-----------------------------------------------------------------------------
(* The ring implements BlockQueue.                                         *)

Entries == [sequence : Int, frames : SUBSET Int]

\* The queue of a well-formed ring.
LEMMA QueueFacts ==
    ASSUME NEW r, Good(r)
    PROVE  /\ Queue(r) \in Seq(Entries) /\ Len(Queue(r)) = r.size /\ r.size \in 0 .. r.capacity
           /\ r.capacity \in Nat \ {0} /\ r.last_pushed \in Int
           /\ \A k \in 1 .. r.size :
                 /\ Queue(r)[k] = [sequence |-> At(r, k - 1).sequence,
                                   frames |-> At(r, k - 1).frames]
                 /\ Queue(r)[k].sequence = r.last_pushed - r.size + k
<1>1. r.capacity \in Nat \ {0} /\ r \in Rings(r.capacity) /\ IntMax \in Nat /\ NumFrames \in Nat
  BY SizesAssumption, NumbersAssumption DEF Good
<1>2. r.size \in 0 .. r.capacity /\ r.last_pushed \in -1 .. IntMax - 1 \cup {Sentinel}
  BY <1>1 DEF Rings
<1>3. r.last_pushed \in Int
  BY <1>1, <1>2 DEF Sentinel
<1>4. ASSUME NEW k \in 1 .. r.size
      PROVE  /\ At(r, k - 1).sequence = r.last_pushed - r.size + k
             /\ At(r, k - 1).frames \in SUBSET Int
  <2> DEFINE j == k - 1
  <2>1. /\ j \in 0 .. r.size - 1 /\ j \in 0 .. r.capacity - 1
        /\ r.last_pushed - r.size + 1 + j = r.last_pushed - r.size + k
    BY <1>1, <1>2, <1>3
  <2> HIDE DEF j
  <2>2. At(r, j).sequence = r.last_pushed - r.size + k
    BY <2>1 DEF Good
  <2>3. At(r, j) \in Blocks
    BY <1>1, <2>1, AtFacts
  <2>4. At(r, j).frames \in SUBSET (0 .. NumFrames - 1)
    BY <2>3 DEF Blocks
  <2>5. At(r, j).frames \in SUBSET Int
    BY <1>1, <2>4
  <2> QED  BY <2>2, <2>5 DEF j
<1> DEFINE E(k) == [sequence |-> At(r, k - 1).sequence, frames |-> At(r, k - 1).frames]
<1>5. \A k \in 1 .. r.size : E(k) \in Entries
  <2> SUFFICES ASSUME NEW k \in 1 .. r.size PROVE E(k) \in Entries
    OBVIOUS
  <2>1. r.last_pushed - r.size + k \in Int
    BY <1>2, <1>3
  <2> QED  BY <1>4, <2>1 DEF Entries
<1>6. \A k \in 1 .. r.size : E(k).sequence = r.last_pushed - r.size + k
  BY <1>4
<1>7. Queue(r) = [k \in 1 .. r.size |-> E(k)]
  BY DEF Queue
<1>8. \A k \in 1 .. r.size : Queue(r)[k] = E(k)
  BY <1>7
<1>9. r.size \in Nat
  BY <1>1, <1>2
<1>10. Queue(r) \in Seq(Entries) /\ Len(Queue(r)) = r.size
  <2> HIDE DEF E
  <2> QED  BY <1>5, <1>7, <1>9
<1> QED  BY <1>1, <1>2, <1>3, <1>6, <1>8, <1>10

\* Every step of the ring is a step of the queue.
LEMMA StepRefines ==
    ASSUME IInv, IInv', RingStep(jb, jb')
    PROVE  [Q!Next]_(Q!vars)
<1> DEFINE q == Queue(jb)
           w == Queue(jb')
           m == jb.size
           n == jb'.size
<1>1. Good(jb) /\ Good(jb')
  BY DEF IInv
<1>2. /\ q \in Seq(Entries) /\ Len(q) = m /\ m \in 0 .. jb.capacity /\ jb.last_pushed \in Int
      /\ \A k \in 1 .. m :
            /\ q[k] = [sequence |-> At(jb, k - 1).sequence, frames |-> At(jb, k - 1).frames]
            /\ q[k].sequence = jb.last_pushed - m + k
  BY <1>1, QueueFacts
<1>3. /\ w \in Seq(Entries) /\ Len(w) = n /\ n \in 0 .. jb'.capacity /\ jb'.last_pushed \in Int
      /\ \A k \in 1 .. n :
            /\ w[k] = [sequence |-> At(jb', k - 1).sequence, frames |-> At(jb', k - 1).frames]
            /\ w[k].sequence = jb'.last_pushed - n + k
  BY <1>1, QueueFacts
<1>4. jb.capacity \in Nat \ {0} /\ jb'.capacity \in Nat \ {0}
  BY <1>1, QueueFacts
<1>5. Q!EndsWith(w, jb'.last_pushed)
  BY <1>3 DEF Q!EndsWith
<1>6. q = Queue(jb) /\ w = Queue(jb)' /\ m = jb.size /\ n = jb'.size
  BY DEF Queue, At
<1> HIDE DEF q, w, m, n
<1>7. m \in Nat /\ n \in Nat
  BY <1>2, <1>3, <1>4
<1>8. CASE Added(jb, jb')
  <2>1. n \in m + 1 .. jb.capacity
    BY <1>6, <1>8 DEF Added
  <2>2. \A k \in 1 .. m : w[k] = q[k]
    <3> SUFFICES ASSUME NEW k \in 1 .. m PROVE w[k] = q[k]
      OBVIOUS
    <3> DEFINE j == k - 1
    <3>1. j \in 0 .. jb.size - 1 /\ k \in 1 .. n
      BY <1>2, <1>6, <1>7, <2>1
    <3>2. /\ q[k] = [sequence |-> At(jb, j).sequence, frames |-> At(jb, j).frames]
          /\ w[k] = [sequence |-> At(jb', j).sequence, frames |-> At(jb', j).frames]
      BY <1>2, <1>3, <3>1
    <3> HIDE DEF j
    <3>3. At(jb', j) = At(jb, j)
      BY <1>8, <3>1 DEF Added
    <3> QED  BY <3>2, <3>3
  <2>3. \A k \in m + 1 .. n - 1 : w[k].frames = {}
    <3> SUFFICES ASSUME NEW k \in m + 1 .. n - 1 PROVE w[k].frames = {}
      OBVIOUS
    <3> DEFINE j == k - 1
    <3>1. j \in jb.size .. jb'.size - 2 /\ k \in 1 .. n
      BY <1>6, <1>7
    <3>2. w[k].frames = At(jb', j).frames
      BY <1>3, <3>1
    <3> HIDE DEF j
    <3> QED  BY <1>8, <3>1, <3>2 DEF Added
  <2>4. jb.last_pushed # Sentinel => jb'.last_pushed = jb.last_pushed + n - m
    BY <1>6, <1>8 DEF Added
  <2>5. jb'.capacity = jb.capacity /\ jb'.last_popped = jb.last_popped
    BY <1>8 DEF Added
  <2>6. Q!Add
    BY <1>2, <1>3, <1>5, <1>6, <2>1, <2>2, <2>3, <2>4, <2>5 DEF Q!Add
  <2> QED  BY <2>6 DEF Q!Next
<1>9. CASE \E j \in 0 .. jb.size - 1 : Gained(jb, jb', j)
  <2>1. PICK j \in 0 .. jb.size - 1 : Gained(jb, jb', j)
    BY <1>9
  <2> DEFINE x == j + 1
  <2>2. n = m /\ x \in 1 .. m /\ x - 1 = j
    BY <1>6, <1>7, <2>1 DEF Gained
  <2> HIDE DEF x
  <2>3. \A k \in 1 .. m : k # x => w[k] = q[k]
    <3> SUFFICES ASSUME NEW k \in 1 .. m, k # x PROVE w[k] = q[k]
      OBVIOUS
    <3> DEFINE i == k - 1
    <3>1. i \in 0 .. jb.size - 1 /\ i # j
      BY <1>6, <1>7, <2>2
    <3>2. /\ q[k] = [sequence |-> At(jb, i).sequence, frames |-> At(jb, i).frames]
          /\ w[k] = [sequence |-> At(jb', i).sequence, frames |-> At(jb', i).frames]
      BY <1>2, <1>3, <2>2
    <3> HIDE DEF i
    <3>3. At(jb', i) = At(jb, i)
      BY <2>1, <3>1 DEF Gained
    <3> QED  BY <3>2, <3>3
  <2>4. /\ q[x] = [sequence |-> At(jb, j).sequence, frames |-> At(jb, j).frames]
        /\ w[x] = [sequence |-> At(jb, j).sequence, frames |-> At(jb', j).frames]
        /\ q[x].frames \subseteq w[x].frames
    BY <1>2, <1>3, <2>1, <2>2, SMTT(20) DEF Gained
  <2>5. w[x] = [q[x] EXCEPT !.frames = w[x].frames]
    BY <2>4
  <2>6. w = [q EXCEPT ![x] = [q[x] EXCEPT !.frames = w[x].frames]]
    BY <1>2, <1>3, <2>2, <2>3, <2>5
  <2>7. w = [q EXCEPT ![x].frames = w[x].frames]
    BY <2>6
  <2>8. /\ jb'.capacity = jb.capacity /\ jb'.last_popped = jb.last_popped
        /\ jb'.last_pushed = jb.last_pushed
    BY <2>1 DEF Gained
  <2>9. Q!Receive
    BY <1>2, <1>3, <1>6, <2>2, <2>4, <2>7, <2>8 DEF Q!Receive
  <2> QED  BY <2>9 DEF Q!Next
<1>10. CASE \E x \in 0 .. jb.size : Popped(jb, jb', x)
  <2>1. PICK x \in 0 .. jb.size : Popped(jb, jb', x)
    BY <1>10
  <2>2. /\ n = m - x /\ jb'.capacity = jb.capacity /\ jb'.last_pushed = jb.last_pushed
        /\ x = 0 => jb'.last_popped = jb.last_popped
        /\ x > 0 => jb'.last_popped = jb.last_pushed - m + x
        /\ x \in 0 .. m
    BY <1>6, <2>1 DEF Popped
  <2>3. \A k \in 1 .. n : w[k] = q[x + k]
    <3> SUFFICES ASSUME NEW k \in 1 .. n PROVE w[k] = q[x + k]
      OBVIOUS
    <3> DEFINE i == k - 1
               z == x + k
    <3>1. i \in 0 .. jb'.size - 1 /\ z \in 1 .. m /\ z - 1 = x + i
      BY <1>6, <1>7, <2>2
    <3>2. w[k] = [sequence |-> At(jb', i).sequence, frames |-> At(jb', i).frames]
      BY <1>3
    <3> HIDE DEF i, z
    <3>3. q[z] = [sequence |-> At(jb, x + i).sequence, frames |-> At(jb, x + i).frames]
      BY <1>2, <3>1
    <3>4. At(jb', i) = At(jb, x + i)
      BY <2>1, <3>1 DEF Popped
    <3>5. w[k] = q[z]
      BY <3>2, <3>3, <3>4
    <3> QED  BY <3>5 DEF z
  <2>4. CASE x = 0
    <3>1. w = q
      BY <1>2, <1>3, <2>2, <2>3, <2>4, SMTT(20)
    <3> QED  BY <1>6, <2>2, <2>4, <3>1 DEF Q!vars
  <2>5. CASE x > 0
    <3>1. x \in 1 .. Len(q) /\ Len(q) = m
      BY <1>2, <1>7, <2>2, <2>5, SMTT(20)
    <3>2. w = SubSeq(q, x + 1, Len(q))
      <4>1. /\ SubSeq(q, x + 1, m) \in Seq(Entries)
            /\ Len(SubSeq(q, x + 1, m)) = n
            /\ \A k \in 1 .. n : SubSeq(q, x + 1, m)[k] = q[x + k]
        BY <1>2, <1>7, <2>2, <3>1
      <4> DEFINE v == SubSeq(q, x + 1, m)
      <4>2. \A k \in 1 .. n : w[k] = v[k]
        BY <2>3, <4>1
      <4>3. v \in Seq(Entries) /\ Len(w) = Len(v) /\ Len(w) = n
        BY <1>3, <4>1
      <4> HIDE DEF v
      <4>4. w = v
        BY <1>3, <4>2, <4>3, SeqEqual
      <4> QED  BY <3>1, <4>4 DEF v
    <3>3. q[x].sequence = jb'.last_popped
      BY <1>2, <2>2, <2>5, <3>1
    <3>4. Q!Leave
      BY <1>6, <2>2, <3>1, <3>2, <3>3 DEF Q!Leave
    <3> QED  BY <3>4 DEF Q!Next
  <2> QED  BY <2>2, <2>4, <2>5
<1>11. CASE Missed(jb, jb')
  <2>1. /\ m = 0 /\ n = 0 /\ jb'.capacity = jb.capacity /\ jb.last_popped # Sentinel
        /\ jb'.last_popped = IF jb.last_popped = IntMax - 1 THEN 0 ELSE jb.last_popped + 1
        /\ jb'.last_pushed = jb'.last_popped
    BY <1>6, <1>11 DEF Missed
  <2>2. q = <<>> /\ w = <<>>
    BY <1>2, <1>3, <2>1
  <2>3. Q!Miss
    BY <1>6, <2>1, <2>2 DEF Q!Miss
  <2> QED  BY <2>3 DEF Q!Next
<1>12. CASE Restarted(jb')
  <2>1. Q!Restart
    BY <1>3, <1>4, <1>5, <1>6, <1>12 DEF Q!Restart, Restarted
  <2> QED  BY <2>1 DEF Q!Next
<1> QED  BY <1>8, <1>9, <1>10, <1>11, <1>12 DEF RingStep

\* The ring implements the queue: whatever packets are lost, repeated or reordered, and
\* wherever the ring wraps around, is full, starts over or is resized, a step of the sink
\* adds blocks behind the newest, gives a block frames, plays or skips the oldest, or starts
\* over.
THEOREM Refinement == Spec => ImplementsQueue
<1>1. Init => Q!Init
  <2> SUFFICES ASSUME Init PROVE Q!Init
    OBVIOUS
  <2>1. PICK c \in Sizes : jb = Fresh(c, (sent % IntMax) - 1)
    BY DEF Init
  <2>2. Good(jb)
    BY InitInv DEF IInv
  <2>3. jb.size = 0 /\ jb.last_popped = Sentinel
    BY <2>1 DEF Fresh
  <2>4. /\ Queue(jb) \in Seq(Entries) /\ Len(Queue(jb)) = 0
        /\ jb.capacity \in Nat /\ jb.last_pushed \in Int
    BY <2>2, <2>3, QueueFacts
  <2>5. Queue(jb) = <<>>
    BY <2>4
  <2> QED  BY <2>3, <2>4, <2>5 DEF Q!Init
<1>2. IInv /\ [Next]_vars => [Q!Next]_(Q!vars)
  <2> SUFFICES ASSUME IInv, [Next]_vars PROVE [Q!Next]_(Q!vars)
    OBVIOUS
  <2>1. IInv' /\ RingStep(jb, jb')
    BY NextStep
  <2> QED  BY <2>1, StepRefines
<1> QED  BY Invariance, <1>1, <1>2, PTL DEF Spec, ImplementsQueue, Q!Spec

=============================================================================
