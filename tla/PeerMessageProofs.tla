------------------------ MODULE PeerMessageProofs ------------------------
(***************************************************************************)
(* Proofs about PeerMessage, for every set of message sizes, every frame   *)
(* size and any number of messages.                                        *)
(***************************************************************************)
EXTENDS PeerMessage, SequenceTheorems, TLAPS

\* A leaf that names no prover is tried with each of these in turn.
USE SMT, Zenon, SMTT(30)

----------------------------------------------------------------------------
(* Frames: what a packet of a message carries and where add_frame puts it. *)

\* Every packet the code ever builds for message s: as sent and as resent.
FramePackets(s, size) ==
    SendPackets(s, size)
      \cup {GetFrame(SentMessage(s, size), i) : i \in 0 .. num_frames(size) - 1}

\* The number of frames the receiver expects
WireFrames(size) == IF num_frames(size) > 1 THEN num_frames(size) ELSE 1

\* Division facts used below; maxsize is a constant but arbitrary.
LEMMA DivMod ==
    ASSUME NEW a \in Nat, NEW b \in Nat \ {0}
    PROVE  /\ a \div b \in Nat
           /\ a % b \in 0 .. b - 1
           /\ a = b * (a \div b) + (a % b)
OBVIOUS

LEMMA Times ==
    ASSUME NEW i \in Nat, NEW j \in Nat, NEW b \in Nat
    PROVE  /\ i * b \in Nat
           /\ i <= j => i * b <= j * b
           /\ i < j => i * b + b <= j * b
           /\ (i - 1) * b = i * b - b
           /\ b * i = i * b
OBVIOUS

\* num_frames frames of maxsize bytes cover the message, one less does not.
LEMMA FrameCount ==
    ASSUME NEW size \in Nat
    PROVE  /\ num_frames(size) \in Nat
           /\ size <= num_frames(size) * maxsize
           /\ size > 0 => num_frames(size) > 0
           /\ num_frames(size) > 0 => num_frames(size) * maxsize - maxsize < size
           /\ size % maxsize # 0 =>
                num_frames(size) * maxsize - maxsize = size - (size % maxsize)
           /\ size % maxsize = 0 => num_frames(size) * maxsize = size
           /\ WireFrames(size) \in Nat \ {0}
  <1> DEFINE q == size \div maxsize
             r == size % maxsize
  <1>1. /\ q \in Nat /\ r \in 0 .. maxsize - 1 /\ size = maxsize * q + r
        /\ maxsize \in Nat /\ maxsize > 0
    BY DivMod, MaxsizeAssumption
  <1>2. q * maxsize = maxsize * q /\ (q + 1) * maxsize = maxsize * q + maxsize
    BY <1>1
  <1>3. num_frames(size) = IF r # 0 THEN q + 1 ELSE q
    BY <1>1 DEF num_frames
  <1> HIDE DEF q, r
  <1>4. q > 0 => maxsize * q > 0
    BY <1>1
  <1>5. r = size % maxsize
    BY DEF r
  <1> QED
    BY <1>1, <1>2, <1>3, <1>4, <1>5 DEF WireFrames

\* What the proofs use of a packet p of a message: its header is right, its
\* payload goes where it came from, and unless it is the empty last frame it
\* carries every byte of its frame.
Fits(p, s, size) ==
    /\ p = [sequence |-> s, total_size |-> size, num_frames |-> WireFrames(size),
            frame_index |-> p.frame_index, onset |-> p.onset, size |-> p.size]
    /\ p.frame_index \in 0 .. WireFrames(size) - 1
    /\ p.onset \in Nat /\ p.size \in Nat
    /\ (IF p.frame_index = WireFrames(size) - 1
        THEN size - p.size ELSE p.frame_index * p.size) = p.onset
    /\ p.size > 0 \/ num_frames(size) <= 1 =>
         \A j \in 0 .. size - 1 :
            j \div maxsize = p.frame_index => p.onset <= j /\ j < p.onset + p.size
    /\ p.size = 0 /\ num_frames(size) > 1 => size % maxsize = 0

LEMMA OwnFrame ==
    ASSUME NEW size \in Nat, NEW j \in 0 .. size - 1
    PROVE  /\ j \div maxsize \in 0 .. WireFrames(size) - 1
           /\ (j \div maxsize) * maxsize <= j
           /\ j < (j \div maxsize) * maxsize + maxsize
  <1> DEFINE q == j \div maxsize
             r == j % maxsize
  <1>1. /\ q \in Nat /\ r \in 0 .. maxsize - 1 /\ j = q * maxsize + r
        /\ maxsize \in Nat /\ maxsize > 0
    BY DivMod, Times, MaxsizeAssumption
  <1> HIDE DEF q, r
  <1>2. /\ num_frames(size) \in Nat /\ size <= num_frames(size) * maxsize
        /\ num_frames(size) > 0 /\ WireFrames(size) = num_frames(size)
    BY FrameCount DEF WireFrames
  <1>3. ASSUME num_frames(size) <= q PROVE FALSE
    <2>1. num_frames(size) * maxsize <= q * maxsize
      BY <1>1, <1>2, <1>3, Times
    <2> QED BY <2>1, <1>1, <1>2
  <1>4. q < num_frames(size)
    BY <1>1, <1>2, <1>3
  <1>5. q \in 0 .. WireFrames(size) - 1 /\ q * maxsize <= j /\ j < q * maxsize + maxsize
    BY <1>1, <1>2, <1>4
  <1> QED BY <1>5 DEF q

LEMMA SentFits ==
    ASSUME NEW s \in Nat, NEW size \in Nat, NEW p \in SendPackets(s, size)
    PROVE  Fits(p, s, size)
  <1> DEFINE nf == num_frames(size)
             rem == size % maxsize
  <1>1. /\ nf \in Nat /\ maxsize \in Nat /\ maxsize > 0 /\ rem \in 0 .. maxsize - 1
        /\ size <= nf * maxsize /\ WireFrames(size) = (IF nf > 1 THEN nf ELSE 1)
        /\ rem # 0 => nf * maxsize - maxsize = size - rem
        /\ nf > 0 => nf * maxsize - maxsize < size
    BY FrameCount, DivMod, MaxsizeAssumption DEF WireFrames
  <1>2. CASE nf <= 1
    <2>1. p = Packet(s, size, 0, 0, size)
      BY <1>1, <1>2 DEF SendPackets
    <2> QED BY <2>1, <1>1, <1>2 DEF Packet, Fits, WireFrames
  <1>3. ASSUME nf > 1, NEW i \in 0 .. nf - 2, p = Packet(s, size, i, i * maxsize, maxsize)
        PROVE  Fits(p, s, size)
    <2>1. i * maxsize \in Nat
      BY <1>1, Times
    <2>2. /\ p.frame_index = i /\ p.onset = i * maxsize /\ p.size = maxsize
          /\ p = [sequence |-> s, total_size |-> size, num_frames |-> WireFrames(size),
                  frame_index |-> i, onset |-> i * maxsize, size |-> maxsize]
      BY <1>3 DEF Packet, WireFrames
    <2>3. \A j \in 0 .. size - 1 :
            j \div maxsize = i => i * maxsize <= j /\ j < i * maxsize + maxsize
      BY OwnFrame
    <2> QED BY <2>1, <2>2, <2>3, <1>1, <1>3 DEF Fits
  <1>4. ASSUME nf > 1, p = Packet(s, size, nf - 1, size - rem, rem)
        PROVE  Fits(p, s, size)
    <2>1. /\ p.frame_index = nf - 1 /\ p.onset = size - rem /\ p.size = rem
          /\ p = [sequence |-> s, total_size |-> size, num_frames |-> WireFrames(size),
                  frame_index |-> nf - 1, onset |-> size - rem, size |-> rem]
      BY <1>4 DEF Packet, WireFrames
    <2>2. (nf - 1) * maxsize = nf * maxsize - maxsize
      BY <1>1, Times
    <2>3. rem > 0 => \A j \in 0 .. size - 1 :
            j \div maxsize = nf - 1 => size - rem <= j /\ j < size
      BY OwnFrame, <1>1, <2>2
    <2>4. size - rem \in Nat
      <3>1. /\ size \div maxsize \in Nat
            /\ size = maxsize * (size \div maxsize) + rem
        BY DivMod, MaxsizeAssumption
      <3>2. maxsize * (size \div maxsize) \in Nat
        BY <3>1, Times, MaxsizeAssumption
      <3> QED BY <3>1, <3>2, <1>1
    <2> QED BY <2>1, <2>3, <2>4, <1>1, <1>4 DEF Fits
  <1>5. nf > 1 => \/ \E i \in 0 .. nf - 2 : p = Packet(s, size, i, i * maxsize, maxsize)
                  \/ p = Packet(s, size, nf - 1, size - rem, rem)
    BY <1>1 DEF SendPackets
  <1> HIDE DEF nf, rem
  <1> QED BY <1>1, <1>2, <1>3, <1>4, <1>5

\* Resent frames: the last one starts a frame early, so it overlaps the frame
\* before it, but every byte still goes where it came from.
LEMMA ResentFits ==
    ASSUME NEW s \in Nat, NEW size \in Nat, NEW i \in 0 .. num_frames(size) - 1,
           NEW m, m.sequence = s, m.size = size, m.num_frames = num_frames(size),
           m.frame_size = SentMessage(s, size).frame_size
    PROVE  Fits(GetFrame(m, i), s, size)
  <1> DEFINE nf == num_frames(size)
             p == GetFrame(m, i)
  <1>1. /\ nf \in Nat /\ maxsize \in Nat /\ maxsize > 0 /\ nf > 0
        /\ size <= nf * maxsize /\ WireFrames(size) = nf
        /\ nf * maxsize - maxsize < size
    BY FrameCount, MaxsizeAssumption DEF WireFrames
  <1>2. CASE nf = 1
    <2>1. p = Packet(s, size, 0, 0, size)
      BY <1>1, <1>2 DEF GetFrame
    <2> QED BY <2>1, <1>1, <1>2 DEF Packet, Fits, WireFrames
  <1>3. CASE nf > 1
    <2>1. m.frame_size = maxsize
      <3>1. /\ size \div maxsize \in Nat /\ size % maxsize \in 0 .. maxsize - 1
            /\ nf = (size \div maxsize) + (IF size % maxsize # 0 THEN 1 ELSE 0)
        BY DivMod, MaxsizeAssumption DEF num_frames
      <3>2. size \div maxsize # 0
        BY <3>1, <1>3
      <3> QED BY <3>2 DEF SentMessage
    <2>2. CASE i < nf - 1
      <3>1. /\ p.frame_index = i /\ p.onset = i * maxsize /\ p.size = maxsize
            /\ p = [sequence |-> s, total_size |-> size, num_frames |-> WireFrames(size),
                    frame_index |-> i, onset |-> i * maxsize, size |-> maxsize]
        BY <1>1, <1>3, <2>1, <2>2 DEF GetFrame, Packet, WireFrames
      <3>2. \A j \in 0 .. size - 1 :
              j \div maxsize = i => i * maxsize <= j /\ j < i * maxsize + maxsize
        BY OwnFrame
      <3>3. i * maxsize \in Nat
        BY <1>1, Times
      <3> QED BY <3>1, <3>2, <3>3, <1>1, <1>3, <2>2 DEF Fits
    <2>3. CASE i = nf - 1
      <3> DEFINE onset == (i - 1) * maxsize
      <3>1. /\ i \in Nat /\ i - 1 \in Nat
            /\ i * maxsize = nf * maxsize - maxsize /\ onset = i * maxsize - maxsize
        BY <1>1, <1>3, <2>3, Times
      <3>2. onset \in Nat
        BY <3>1, <1>1, Times
      <3>3. /\ p.frame_index = i /\ p.onset = onset /\ p.size = size - onset
            /\ p = [sequence |-> s, total_size |-> size, num_frames |-> WireFrames(size),
                    frame_index |-> i, onset |-> onset, size |-> size - onset]
        BY <1>1, <1>3, <2>1, <2>3 DEF GetFrame, Packet, WireFrames
      <3> HIDE DEF onset
      <3>4. \A j \in 0 .. size - 1 :
              j \div maxsize = i => onset <= j /\ j < onset + (size - onset)
        <4> SUFFICES ASSUME NEW j \in 0 .. size - 1, j \div maxsize = i
                     PROVE  onset <= j /\ j < onset + (size - onset)
          OBVIOUS
        <4>1. i * maxsize <= j
          BY OwnFrame
        <4>2. i * maxsize \in Int
          BY <3>1, <1>1
        <4> QED BY <4>1, <4>2, <3>1, <3>2, <1>1
      <3>5. size - onset \in Nat /\ size - onset > 0
        BY <3>1, <3>2, <1>1
      <3>6. size - (size - onset) = onset
        BY <3>2
      <3> QED BY <3>2, <3>3, <3>4, <3>5, <3>6, <1>1, <2>3 DEF Fits
    <2> QED BY <1>1, <2>2, <2>3
  <1> QED BY <1>1, <1>2, <1>3

----------------------------------------------------------------------------
(* The inductive invariant                                                 *)

\* No frame that counts as received is empty: in binary format no message of
\* several frames may have a size that is a multiple of maxsize.
FramesCarry ==
    Binary => \A size \in Sizes : num_frames(size) > 1 => size % maxsize # 0

Buffers == UNION {[0 .. n - 1 -> Int] : n \in Nat}

SentMessages ==
    [sequence : Nat, size : Nat, num_frames : Nat, frame_size : Nat,
     frames : SUBSET Nat, armed : BOOLEAN]

ReceivedMessages ==
    [sequence : Nat, placeholder : BOOLEAN, size : Nat, num_frames : Nat,
     frames : SUBSET Nat, data : Buffers]

Events == [sequence : Nat, data : Buffers]

\* An entry of the send buffer for the message with sequence number s
SentOK(msgs, m, s) ==
    /\ m.sequence = s
    /\ m.size = msgs[s + 1]
    /\ m.num_frames = num_frames(m.size)
    /\ m.frame_size = SentMessage(s, m.size).frame_size
    /\ m.frames \subseteq 0 .. m.num_frames - 1

\* The bytes of every frame that was received are in place.
DataOK(m) ==
    \A j \in 0 .. m.size - 1 : j \div maxsize \notin m.frames => m.data[j] = j

\* An entry of the receive buffer for the message with sequence number s
ReceivedOK(msgs, m, s) ==
    /\ m.sequence = s
    /\ ~m.placeholder =>
         /\ m.size = msgs[s + 1]
         /\ m.num_frames = WireFrames(m.size)
         /\ m.frames \subseteq 0 .. m.num_frames - 1
         /\ m.data \in [0 .. m.size - 1 -> Int]
         /\ FramesCarry => DataOK(m)

\* The receiver has frame i of message s, resp. all of message s.
HasFrame(buf, popped, s, i) ==
    \/ s <= popped
    \/ /\ s <= popped + Len(buf)
       /\ ~buf[s - popped].placeholder
       /\ i \notin buf[s - popped].frames

HasAll(buf, popped, s) ==
    s <= popped \/ (s <= popped + Len(buf) /\ Complete(buf[s - popped]))

SentInv ==
    /\ sent \in Seq(Sizes)
    /\ next_sequence_reliable = Len(sent)

WireInv ==
    \A p \in data_wire :
        /\ p.sequence \in 0 .. Len(sent) - 1
        /\ Fits(p, p.sequence, sent[p.sequence + 1])

SendBufferInv ==
    /\ send_buffer \in Seq(SentMessages)
    /\ Len(send_buffer) <= Len(sent)
    /\ \A k \in 1 .. Len(send_buffer) :
          SentOK(sent, send_buffer[k], Len(sent) - Len(send_buffer) + k - 1)

ReceiveBufferInv ==
    /\ receive_buffer \in Seq(ReceivedMessages)
    /\ last_popped \in Int /\ last_popped >= -1
    /\ last_pushed \in Int /\ last_pushed < Len(sent)
    /\ last_pushed = last_popped + Len(receive_buffer)
    /\ \A k \in 1 .. Len(receive_buffer) : ReceivedOK(sent, receive_buffer[k], last_popped + k)

DeliveredInv ==
    /\ delivered \in Seq(Events)
    /\ Len(delivered) = last_popped + 1
    /\ \A k \in 1 .. Len(delivered) :
          /\ delivered[k].sequence = k - 1
          /\ FramesCarry => delivered[k] = Message(k - 1, sent[k])

\* An acknowledgement, wherever it is, means the receiver has the frame.
AckInv ==
    \A a \in received_acks \cup ack_wire \cup send_acks :
        /\ a \in (0 .. Len(sent) - 1) \X Nat
        /\ HasFrame(receive_buffer, last_popped, a[1], a[2])

\* What the sender no longer waits for has arrived.
AckedInv ==
    /\ \A k \in 1 .. Len(send_buffer) :
         \A i \in 0 .. send_buffer[k].num_frames - 1 :
            i \notin send_buffer[k].frames =>
              HasFrame(receive_buffer, last_popped, send_buffer[k].sequence, i)
    /\ 0 \notin Sizes =>
         \A s \in 0 .. Len(sent) - Len(send_buffer) - 1 :
            HasAll(receive_buffer, last_popped, s)

IInv ==
    /\ SentInv
    /\ WireInv
    /\ SendBufferInv
    /\ ReceiveBufferInv
    /\ DeliveredInv
    /\ AckInv
    /\ AckedInv

LEMMA IInvInit == Init => IInv
  <1> SUFFICES ASSUME Init PROVE IInv
    OBVIOUS
  <1> USE DEF Init
  <1>1. SentInv BY DEF SentInv
  <1>2. WireInv BY DEF WireInv
  <1>3. SendBufferInv BY DEF SendBufferInv
  <1>4. ReceiveBufferInv BY DEF ReceiveBufferInv
  <1>5. DeliveredInv BY DEF DeliveredInv
  <1>6. AckInv BY DEF AckInv
  <1>7. AckedInv BY DEF AckedInv
  <1> QED BY <1>1, <1>2, <1>3, <1>4, <1>5, <1>6, <1>7 DEF IInv

\* Sending keeps the prefix of sent, on which everything else depends.
LEMMA SendStep ==
    ASSUME IInv, NEW size \in Sizes, send_message(size)
    PROVE  IInv'
  <1> USE DEF send_message
  <1>1. /\ size \in Nat /\ sent \in Seq(Sizes) /\ next_sequence_reliable = Len(sent)
        /\ Len(sent) \in Nat
    BY SizesAssumption DEF IInv, SentInv
  <1>2. /\ sent' \in Seq(Sizes) /\ Len(sent') = Len(sent) + 1
        /\ sent'[Len(sent) + 1] = size
        /\ \A k \in 1 .. Len(sent) : sent'[k] = sent[k]
    BY <1>1
  <1>3. SentInv'
    BY <1>1, <1>2 DEF SentInv
  <1>4. WireInv'
    <2> SUFFICES ASSUME NEW p \in data_wire'
                 PROVE  /\ p.sequence \in 0 .. Len(sent') - 1
                        /\ Fits(p, p.sequence, sent'[p.sequence + 1])
      BY DEF WireInv
    <2>1. CASE p \in data_wire
      <3>1. /\ p.sequence \in 0 .. Len(sent) - 1
            /\ Fits(p, p.sequence, sent[p.sequence + 1])
        BY <2>1 DEF IInv, WireInv
      <3>2. sent'[p.sequence + 1] = sent[p.sequence + 1]
        BY <3>1, <1>1, <1>2
      <3> QED BY <3>1, <3>2, <1>1, <1>2
    <2>2. CASE p \in SendPackets(next_sequence_reliable, size)
      <3>1. Fits(p, Len(sent), size)
        BY <2>2, <1>1, SentFits
      <3>2. p.sequence = Len(sent)
        BY <3>1 DEF Fits
      <3> QED BY <3>1, <3>2, <1>1, <1>2
    <2> QED BY <2>1, <2>2
  <1>5. SendBufferInv'
    <2> DEFINE new == SentMessage(Len(sent), size)
               n == Len(send_buffer)
    <2>1. /\ send_buffer \in Seq(SentMessages) /\ n \in Nat /\ n <= Len(sent)
          /\ \A k \in 1 .. n : SentOK(sent, send_buffer[k], Len(sent) - n + k - 1)
      BY DEF IInv, SendBufferInv
    <2>2. /\ num_frames(size) \in Nat
          /\ new.frame_size \in Nat
      <3>1. size % maxsize \in Nat /\ maxsize \in Nat
        BY <1>1, DivMod, MaxsizeAssumption
      <3> QED BY <3>1, <1>1, FrameCount DEF SentMessage
    <2>3. new \in SentMessages
      BY <1>1, <2>2 DEF SentMessage, SentMessages
    <2>4. send_buffer' = Append(send_buffer, new)
      BY <1>1
    <2>5. /\ send_buffer' \in Seq(SentMessages) /\ Len(send_buffer') = n + 1
          /\ send_buffer'[n + 1] = new
          /\ \A k \in 1 .. n : send_buffer'[k] = send_buffer[k]
      BY <2>1, <2>3, <2>4
    <2>6. SentOK(sent', new, Len(sent))
      BY <1>1, <1>2 DEF SentOK, SentMessage
    <2>7. ASSUME NEW k \in 1 .. n
          PROVE  SentOK(sent', send_buffer'[k], Len(sent') - (n + 1) + k - 1)
      <3>1. SentOK(sent, send_buffer[k], Len(sent) - n + k - 1)
        BY <2>1
      <3>2. /\ Len(sent') - (n + 1) + k - 1 = Len(sent) - n + k - 1
            /\ Len(sent) - n + k - 1 \in 0 .. Len(sent) - 1
        BY <1>1, <1>2, <2>1, <2>5
      <3>3. sent'[Len(sent) - n + k - 1 + 1] = sent[Len(sent) - n + k - 1 + 1]
        BY <1>2, <3>2, <1>1
      <3> QED BY <3>1, <3>2, <3>3, <2>5 DEF SentOK
    <2>8. ASSUME NEW k \in 1 .. n + 1
          PROVE  SentOK(sent', send_buffer'[k], Len(sent') - (n + 1) + k - 1)
      <3>1. CASE k = n + 1
        BY <3>1, <2>1, <2>5, <2>6, <1>1, <1>2
      <3> QED BY <3>1, <2>7, <2>1
    <2> HIDE DEF n, new
    <2> QED BY <2>1, <2>5, <2>8, <1>2, <1>1 DEF SendBufferInv
  <1>6. ReceiveBufferInv'
    <2>1. /\ receive_buffer \in Seq(ReceivedMessages) /\ last_popped \in Int
          /\ last_popped >= -1 /\ last_pushed \in Int /\ last_pushed < Len(sent)
          /\ last_pushed = last_popped + Len(receive_buffer)
          /\ \A k \in 1 .. Len(receive_buffer) :
                ReceivedOK(sent, receive_buffer[k], last_popped + k)
      BY DEF IInv, ReceiveBufferInv
    <2>2. ASSUME NEW k \in 1 .. Len(receive_buffer)
          PROVE  ReceivedOK(sent', receive_buffer[k], last_popped + k)
      <3>1. last_popped + k + 1 \in 1 .. Len(sent)
        BY <2>1, <1>1
      <3> QED BY <3>1, <2>1, <1>2 DEF ReceivedOK
    <2>3. UNCHANGED <<receive_buffer, last_popped, last_pushed>>
      BY DEF receiver
    <2> QED BY <2>1, <2>2, <2>3, <1>1, <1>2 DEF ReceiveBufferInv
  <1>7. DeliveredInv'
    <2>1. /\ delivered \in Seq(Events) /\ Len(delivered) = last_popped + 1
          /\ \A k \in 1 .. Len(delivered) :
                /\ delivered[k].sequence = k - 1
                /\ FramesCarry => delivered[k] = Message(k - 1, sent[k])
      BY DEF IInv, DeliveredInv
    <2>2. Len(delivered) <= Len(sent)
      BY <2>1, <1>1 DEF IInv, ReceiveBufferInv
    <2>3. \A k \in 1 .. Len(delivered) : sent'[k] = sent[k]
      BY <2>1, <2>2, <1>1, <1>2
    <2>4. UNCHANGED <<delivered, last_popped>>
      BY DEF receiver
    <2> QED BY <2>1, <2>3, <2>4 DEF DeliveredInv
  <1>8. AckInv'
    <2>1. UNCHANGED <<received_acks, ack_wire, send_acks, receive_buffer, last_popped>>
      BY DEF receiver
    <2> QED BY <2>1, <1>1, <1>2 DEF IInv, AckInv
  <1>9. AckedInv'
    <2> DEFINE n == Len(send_buffer)
               new == SentMessage(Len(sent), size)
    <2>1. /\ send_buffer \in Seq(SentMessages) /\ n \in Nat
          /\ send_buffer' = Append(send_buffer, new)
      BY <1>1 DEF IInv, SendBufferInv
    <2>2. /\ Len(send_buffer') = n + 1 /\ send_buffer'[n + 1] = new
          /\ \A k \in 1 .. n : send_buffer'[k] = send_buffer[k]
      BY <2>1
    <2>3. new.frames = 0 .. new.num_frames - 1
      BY DEF SentMessage
    <2>4. UNCHANGED <<receive_buffer, last_popped>>
      BY DEF receiver
    <2>5. AckedInv
      BY DEF IInv
    <2> HIDE DEF n, new
    <2>6. \A k \in 1 .. n + 1 : k = n + 1 \/ k \in 1 .. n
      BY <2>1
    <2>7. Len(sent') - (n + 1) = Len(sent) - n
      BY <2>1, <1>1, <1>2
    <2> QED BY <2>2, <2>3, <2>4, <2>5, <2>6, <2>7 DEF AckedInv, n
  <1> QED BY <1>3, <1>4, <1>5, <1>6, <1>7, <1>8, <1>9 DEF IInv

\* Steps that leave sent, both buffers and what was delivered as they are.
LEMMA QuietStep ==
    ASSUME IInv,
           UNCHANGED <<sent, next_sequence_reliable, send_buffer, receive_buffer,
                       last_pushed, last_popped, delivered>>,
           data_wire' \subseteq data_wire,
           received_acks' \cup ack_wire' \cup send_acks'
             \subseteq received_acks \cup ack_wire \cup send_acks
    PROVE  IInv'
  BY DEF IInv, SentInv, WireInv, SendBufferInv, ReceiveBufferInv, DeliveredInv,
         AckInv, AckedInv

LEMMA SentSizes ==
    ASSUME IInv
    PROVE  /\ sent \in Seq(Sizes) /\ Len(sent) \in Nat
           /\ \A k \in 1 .. Len(sent) : sent[k] \in Sizes /\ sent[k] \in Nat
  <1>1. sent \in Seq(Sizes)
    BY DEF IInv, SentInv
  <1>2. Len(sent) \in Nat /\ \A k \in 1 .. Len(sent) : sent[k] \in Sizes
    BY <1>1
  <1> QED BY <1>1, <1>2, SizesAssumption

\* The receiver has a message when it has all its frames.
LEMMA AllFrames ==
    ASSUME IInv, NEW s \in 0 .. Len(sent) - 1, sent[s + 1] > 0,
           \A i \in 0 .. num_frames(sent[s + 1]) - 1 :
              HasFrame(receive_buffer, last_popped, s, i)
    PROVE  HasAll(receive_buffer, last_popped, s)
  <1>1. CASE s <= last_popped
    BY <1>1 DEF HasAll
  <1>2. CASE ~(s <= last_popped)
    <2> DEFINE m == receive_buffer[s - last_popped]
               nf == num_frames(sent[s + 1])
    <2>1. sent[s + 1] \in Nat /\ Len(sent) \in Nat
      BY SentSizes
    <2>2. nf \in Nat /\ nf > 0 /\ WireFrames(sent[s + 1]) = nf
      <3>1. nf \in Nat /\ nf > 0
        BY <2>1, FrameCount
      <3> QED BY <3>1 DEF WireFrames
    <2>3. /\ s <= last_popped + Len(receive_buffer)
          /\ ~m.placeholder
          /\ \A i \in 0 .. nf - 1 : i \notin m.frames
      BY <1>2, <2>2 DEF HasFrame
    <2>4. /\ last_popped \in Int /\ Len(receive_buffer) \in Nat
          /\ \A k \in 1 .. Len(receive_buffer) :
                ReceivedOK(sent, receive_buffer[k], last_popped + k)
      BY DEF IInv, ReceiveBufferInv
    <2>5. s - last_popped \in 1 .. Len(receive_buffer) /\ last_popped + (s - last_popped) = s
      BY <1>2, <2>1, <2>3, <2>4
    <2>6. ReceivedOK(sent, m, s)
      BY <2>4, <2>5
    <2>7. m.frames = {}
      BY <2>2, <2>3, <2>6 DEF ReceivedOK
    <2> QED BY <2>3, <2>7 DEF HasAll, Complete
  <1> QED BY <1>1, <1>2

LEMMA DoSendStep ==
    ASSUME IInv, NEW due \in SUBSET (1 .. Len(send_buffer)), do_send(due)
    PROVE  IInv'
  <1> DEFINE N == Len(send_buffer)
             base == Len(sent) - N
  <1>1. PICK n \in 0 .. N :
          /\ \A k \in 1 .. n : Acked[k].frames = {}
          /\ received_acks' = {}
          /\ send_buffer' = [k \in 1 .. N - n |-> [Acked[n + k] EXCEPT !.armed = TRUE]]
          /\ data_wire' = data_wire \cup
               UNION {{GetFrame(Acked[k], i) : i \in Acked[k].frames} :
                      k \in {j \in due : j > n /\ send_buffer[j].armed}}
          /\ UNCHANGED <<sent, next_sequence_reliable, ack_wire, receiver>>
    BY DEF do_send
  <1>2. /\ sent \in Seq(Sizes) /\ Len(sent) \in Nat
        /\ \A k \in 1 .. Len(sent) : sent[k] \in Nat /\ sent[k] \in Sizes
    BY SentSizes
  <1>3. /\ send_buffer \in Seq(SentMessages) /\ N \in Nat /\ base \in Nat
        /\ \A k \in 1 .. N : /\ send_buffer[k] \in SentMessages
                             /\ SentOK(sent, send_buffer[k], base + k - 1)
    BY <1>2 DEF IInv, SendBufferInv
  <1> HIDE DEF N, base
  \* what step 4) leaves of each message
  <1>4. ASSUME NEW k \in 1 .. N
        PROVE  /\ Acked[k] \in SentMessages
               /\ SentOK(sent, Acked[k], base + k - 1)
               /\ \A i \in 0 .. Acked[k].num_frames - 1 :
                     i \notin Acked[k].frames =>
                       HasFrame(receive_buffer, last_popped, base + k - 1, i)
    <2> DEFINE m == send_buffer[k]
               f == {i \in m.frames : <<m.sequence, i>> \notin received_acks}
    <2>1. Acked[k] = [m EXCEPT !.frames = f]
      BY DEF Acked, N
    <2>2. m \in SentMessages /\ SentOK(sent, m, base + k - 1)
      BY <1>3
    <2>3. /\ Acked[k] \in SentMessages
          /\ Acked[k].sequence = m.sequence /\ Acked[k].size = m.size
          /\ Acked[k].num_frames = m.num_frames /\ Acked[k].frame_size = m.frame_size
          /\ Acked[k].frames = f
      BY <2>1, <2>2 DEF SentMessages
    <2>4. \A i \in 0 .. m.num_frames - 1 :
             i \notin m.frames => HasFrame(receive_buffer, last_popped, m.sequence, i)
      BY DEF IInv, AckedInv, N
    <2>5. \A i : <<m.sequence, i>> \in received_acks =>
             HasFrame(receive_buffer, last_popped, m.sequence, i)
      BY DEF IInv, AckInv
    <2>6. m.sequence = base + k - 1
      BY <2>2 DEF SentOK
    <2> QED BY <2>2, <2>3, <2>4, <2>5, <2>6 DEF SentOK
  <1>5. SentInv'
    BY <1>1 DEF IInv, SentInv
  <1>6. WireInv'
    <2>1. ASSUME NEW k \in 1 .. N, NEW i \in Acked[k].frames,
                 NEW p, p = GetFrame(Acked[k], i)
          PROVE  /\ p.sequence \in 0 .. Len(sent) - 1
                 /\ Fits(p, p.sequence, sent[p.sequence + 1])
      <3> DEFINE s == base + k - 1
      <3>1. SentOK(sent, Acked[k], s)
        BY <1>4
      <3>2. s \in 0 .. Len(sent) - 1 /\ s + 1 \in 1 .. Len(sent) /\ s \in Nat
        BY <1>2, <1>3 DEF base
      <3>3. sent[s + 1] \in Nat
        BY <3>2, <1>2
      <3> HIDE DEF s
      <3>4. Fits(p, s, sent[s + 1])
        BY <3>1, <3>2, <3>3, <2>1, ResentFits DEF SentOK
      <3>5. p.sequence = s
        BY <3>4 DEF Fits
      <3> QED BY <3>2, <3>4, <3>5
    <2>2. \A p \in data_wire' :
            p \in data_wire \/ \E k \in 1 .. N : \E i \in Acked[k].frames :
                                  p = GetFrame(Acked[k], i)
      BY <1>1 DEF N
    <2>3. sent' = sent
      BY <1>1
    <2> QED BY <2>1, <2>2, <2>3 DEF IInv, WireInv
  <1>7. /\ send_buffer' \in Seq(SentMessages) /\ Len(send_buffer') = N - n
        /\ \A k \in 1 .. N - n :
             /\ send_buffer'[k].frames = Acked[n + k].frames
             /\ send_buffer'[k].num_frames = Acked[n + k].num_frames
             /\ send_buffer'[k].sequence = Acked[n + k].sequence
             /\ SentOK(sent, send_buffer'[k], base + n + k - 1)
    <2>1. ASSUME NEW k \in 1 .. N - n
          PROVE  LET m == [Acked[n + k] EXCEPT !.armed = TRUE] IN
                 /\ m \in SentMessages /\ m.frames = Acked[n + k].frames
                 /\ m.num_frames = Acked[n + k].num_frames
                 /\ m.sequence = Acked[n + k].sequence
                 /\ SentOK(sent, m, base + n + k - 1)
      <3>1. n + k \in 1 .. N /\ base + (n + k) - 1 = base + n + k - 1
        BY <1>3
      <3>2. Acked[n + k] \in SentMessages /\ SentOK(sent, Acked[n + k], base + n + k - 1)
        BY <3>1, <1>4
      <3> QED BY <3>2 DEF SentOK, SentMessages
    <2>2. N - n \in Nat
      BY <1>3
    <2>3. \A k \in 1 .. N - n : send_buffer'[k] = [Acked[n + k] EXCEPT !.armed = TRUE]
      BY <1>1
    <2>4. send_buffer' = [k \in 1 .. N - n |-> [Acked[n + k] EXCEPT !.armed = TRUE]]
      BY <1>1
    <2>5. send_buffer' \in Seq(SentMessages) /\ Len(send_buffer') = N - n
      <3>1. send_buffer' \in [1 .. N - n -> SentMessages]
        BY <2>1, <2>4
      <3> QED BY <3>1, <2>2
    <2> QED BY <2>1, <2>3, <2>5
  <1>8. SendBufferInv'
    <2>1. Len(sent') - Len(send_buffer') = base + n /\ Len(send_buffer') <= Len(sent')
      BY <1>1, <1>2, <1>3, <1>7 DEF base
    <2> QED BY <1>1, <1>3, <1>7, <2>1 DEF SendBufferInv
  <1>9. ReceiveBufferInv' /\ DeliveredInv' /\ AckInv'
    BY <1>1 DEF receiver, IInv, ReceiveBufferInv, DeliveredInv, AckInv
  <1>10. AckedInv'
    <2>1. UNCHANGED <<sent, receive_buffer, last_popped>>
      BY <1>1 DEF receiver
    <2>2. ASSUME NEW k \in 1 .. Len(send_buffer'),
                 NEW i \in 0 .. send_buffer'[k].num_frames - 1, i \notin send_buffer'[k].frames
          PROVE  HasFrame(receive_buffer, last_popped, send_buffer'[k].sequence, i)
      <3>1. n + k \in 1 .. N
        BY <1>3, <1>7
      <3>2. Acked[n + k].sequence = base + (n + k) - 1
        BY <3>1, <1>4 DEF SentOK
      <3> QED BY <3>1, <3>2, <2>2, <1>4, <1>7
    <2>3. ASSUME 0 \notin Sizes, NEW s \in 0 .. Len(sent) - (N - n) - 1
          PROVE  HasAll(receive_buffer, last_popped, s)
      <3>1. CASE s < base
        BY <3>1, <2>3, <1>2, <1>3 DEF IInv, AckedInv, base, N
      <3>2. CASE ~(s < base)
        <4> DEFINE k == s - base + 1
        <4>1. k \in 1 .. n /\ k \in 1 .. N /\ base + k - 1 = s /\ s \in 0 .. Len(sent) - 1
          BY <3>2, <1>2, <1>3 DEF base
        <4> HIDE DEF k
        <4>2. /\ Acked[k].frames = {} /\ SentOK(sent, Acked[k], s)
              /\ \A i \in 0 .. Acked[k].num_frames - 1 :
                    i \notin Acked[k].frames => HasFrame(receive_buffer, last_popped, s, i)
          BY <4>1, <1>1, <1>4
        <4>3. sent[s + 1] > 0
          BY <4>1, <2>3, <1>2
        <4> QED BY <4>1, <4>2, <4>3, AllFrames DEF SentOK
      <3> QED BY <3>1, <3>2
    <2> QED BY <2>1, <2>2, <2>3, <1>7 DEF AckedInv
  <1> QED BY <1>5, <1>6, <1>8, <1>9, <1>10 DEF IInv

----------------------------------------------------------------------------
(* Receiving                                                               *)

\* received_message::init makes a well-formed entry with nothing received.
LEMMA InitMessageOK ==
    ASSUME NEW msgs, NEW s \in Nat, msgs[s + 1] \in Nat,
           NEW p, Fits(p, s, msgs[s + 1])
    PROVE  /\ InitMessage(p) \in ReceivedMessages
           /\ ReceivedOK(msgs, InitMessage(p), s)
           /\ ~InitMessage(p).placeholder
           /\ InitMessage(p).frames = 0 .. WireFrames(msgs[s + 1]) - 1
  <1> DEFINE size == msgs[s + 1]
             m == InitMessage(p)
             d == [j \in 0 .. size - 1 |-> Unset]
  <1>1. /\ p.sequence = s /\ p.total_size = size /\ p.num_frames = WireFrames(size)
    BY DEF Fits
  <1>2. m = [sequence |-> s, placeholder |-> FALSE, size |-> size,
             num_frames |-> WireFrames(size), frames |-> 0 .. WireFrames(size) - 1,
             data |-> d]
    BY <1>1 DEF InitMessage
  <1>3. d \in [0 .. size - 1 -> Int] /\ d \in Buffers
    <2>1. d \in [0 .. size - 1 -> Int]
      BY DEF Unset
    <2> QED BY <2>1 DEF Buffers
  <1>4. WireFrames(size) \in Nat
    BY FrameCount
  <1>5. \A j \in 0 .. size - 1 : j \div maxsize \in 0 .. WireFrames(size) - 1
    BY OwnFrame
  <1> HIDE DEF d, m
  <1>6. m \in ReceivedMessages
    BY <1>2, <1>3, <1>4 DEF ReceivedMessages
  <1>7. DataOK(m)
    BY <1>2, <1>5 DEF DataOK
  <1>8. ReceivedOK(msgs, m, s)
    BY <1>2, <1>3, <1>4, <1>7 DEF ReceivedOK
  <1> QED BY <1>2, <1>6, <1>8 DEF m

\* received_message::add_frame puts the bytes of a frame in place.
LEMMA AddFrameOK ==
    ASSUME NEW msgs, NEW s \in Nat, msgs[s + 1] \in Nat,
           NEW p, Fits(p, s, msgs[s + 1]),
           FramesCarry => p.size > 0 \/ num_frames(msgs[s + 1]) <= 1,
           NEW m \in ReceivedMessages, ReceivedOK(msgs, m, s), ~m.placeholder
    PROVE  /\ AddFrame(m, p) \in ReceivedMessages
           /\ ReceivedOK(msgs, AddFrame(m, p), s)
           /\ ~AddFrame(m, p).placeholder
           /\ AddFrame(m, p).frames = m.frames \ {p.frame_index}
  <1> DEFINE size == msgs[s + 1]
             d == [j \in DOMAIN m.data |->
                     IF p.onset <= j /\ j < p.onset + p.size
                     THEN p.onset + (j - p.onset) ELSE m.data[j]]
             r == AddFrame(m, p)
  <1>1. /\ p.frame_index \in 0 .. WireFrames(size) - 1
        /\ p.onset \in Nat /\ p.size \in Nat
        /\ (IF p.frame_index = WireFrames(size) - 1
            THEN size - p.size ELSE p.frame_index * p.size) = p.onset
        /\ p.size > 0 \/ num_frames(size) <= 1 =>
             \A j \in 0 .. size - 1 :
                j \div maxsize = p.frame_index => p.onset <= j /\ j < p.onset + p.size
    BY DEF Fits
  <1>2. /\ m.sequence = s /\ m.size = size /\ m.num_frames = WireFrames(size)
        /\ m.frames \subseteq 0 .. WireFrames(size) - 1
        /\ m.data \in [0 .. size - 1 -> Int]
        /\ FramesCarry => DataOK(m)
    BY DEF ReceivedOK
  <1>3. r = [m EXCEPT !.frames = m.frames \ {p.frame_index}, !.data = d]
    BY <1>1, <1>2 DEF AddFrame
  <1>4. d \in [0 .. size - 1 -> Int]
    BY <1>1, <1>2
  <1>5. \A j \in 0 .. size - 1 :
           d[j] = IF p.onset <= j /\ j < p.onset + p.size THEN j ELSE m.data[j]
    BY <1>1, <1>2
  <1>6. d \in Buffers
    BY <1>4 DEF Buffers
  <1> HIDE DEF d, r
  <1>7. /\ r \in ReceivedMessages
        /\ r.sequence = m.sequence /\ r.placeholder = m.placeholder /\ r.size = m.size
        /\ r.num_frames = m.num_frames /\ r.frames = m.frames \ {p.frame_index}
        /\ r.data = d
    BY <1>3, <1>6 DEF ReceivedMessages
  <1>8. FramesCarry => DataOK(r)
    <2> SUFFICES ASSUME FramesCarry, NEW j \in 0 .. size - 1, j \div maxsize \notin r.frames
                 PROVE  d[j] = j
      BY <1>2, <1>7 DEF DataOK
    <2>1. CASE j \div maxsize = p.frame_index
      BY <2>1, <1>1, <1>5
    <2>2. CASE j \div maxsize # p.frame_index
      BY <2>2, <1>2, <1>5, <1>7 DEF DataOK
    <2> QED BY <2>1, <2>2
  <1>9. ReceivedOK(msgs, r, s)
    BY <1>2, <1>4, <1>7, <1>8 DEF ReceivedOK
  <1> QED BY <1>7, <1>9 DEF r

LEMMA Concat ==
    ASSUME NEW S, NEW u \in Seq(S), NEW v \in Seq(S)
    PROVE  /\ u \o v \in Seq(S)
           /\ Len(u \o v) = Len(u) + Len(v)
           /\ \A i \in 1 .. Len(u) : (u \o v)[i] = u[i]
           /\ \A i \in 1 .. Len(v) : (u \o v)[Len(u) + i] = v[i]
OBVIOUS

LEMMA AppendConcat ==
    ASSUME NEW S, NEW u \in Seq(S), NEW v \in Seq(S), NEW e \in S
    PROVE  /\ Append(u \o v, e) \in Seq(S)
           /\ Len(Append(u \o v, e)) = Len(u) + Len(v) + 1
           /\ \A i \in 1 .. Len(u) : Append(u \o v, e)[i] = u[i]
           /\ \A i \in 1 .. Len(v) : Append(u \o v, e)[Len(u) + i] = v[i]
           /\ Append(u \o v, e)[Len(u) + Len(v) + 1] = e
  <1> DEFINE w == u \o v
  <1>1. /\ w \in Seq(S) /\ Len(w) = Len(u) + Len(v)
        /\ \A i \in 1 .. Len(u) : w[i] = u[i]
        /\ \A i \in 1 .. Len(v) : w[Len(u) + i] = v[i]
    BY Concat
  <1> HIDE DEF w
  <1>2. /\ Append(w, e) \in Seq(S) /\ Len(Append(w, e)) = Len(w) + 1
        /\ \A i \in 1 .. Len(w) : Append(w, e)[i] = w[i]
        /\ Append(w, e)[Len(w) + 1] = e
    BY <1>1
  <1>3. Len(u) \in Nat /\ Len(v) \in Nat
    OBVIOUS
  <1>4. \A i \in 1 .. Len(v) : Len(u) + i \in 1 .. Len(w)
    BY <1>1, <1>3
  <1>5. /\ \A i \in 1 .. Len(u) : Append(w, e)[i] = u[i]
        /\ \A i \in 1 .. Len(v) : Append(w, e)[Len(u) + i] = v[i]
    BY <1>1, <1>2, <1>3, <1>4
  <1> QED BY <1>1, <1>2, <1>5 DEF w

\* What the receiver had before it filed a packet, it still has.
LEMMA FiledOK ==
    ASSUME IInv, NEW p \in data_wire, WellFormed(p), ~Outdated(p)
    PROVE  LET buf == Filed(p)
               pushed == IF p.sequence > last_pushed THEN p.sequence ELSE last_pushed
           IN  /\ buf \in Seq(ReceivedMessages)
               /\ pushed \in Int /\ pushed < Len(sent)
               /\ pushed = last_popped + Len(buf)
               /\ Len(receive_buffer) <= Len(buf)
               /\ \A k \in 1 .. Len(buf) : ReceivedOK(sent, buf[k], last_popped + k)
               /\ \A k \in 1 .. Len(receive_buffer) :
                     ~receive_buffer[k].placeholder =>
                        /\ ~buf[k].placeholder
                        /\ buf[k].frames \subseteq receive_buffer[k].frames
               /\ p.sequence - last_popped \in 1 .. Len(buf)
               /\ ~buf[p.sequence - last_popped].placeholder
               /\ p.frame_index \notin buf[p.sequence - last_popped].frames
  <1> DEFINE s == p.sequence
             L == Len(receive_buffer)
             size == sent[s + 1]
             first == InitMessage(p)
  <1>1. /\ s \in 0 .. Len(sent) - 1 /\ Fits(p, s, size)
        /\ s \in Nat /\ size \in Nat /\ size \in Sizes /\ Len(sent) \in Nat
    BY SentSizes DEF IInv, WireInv
  <1>2. FramesCarry => p.size > 0 \/ num_frames(size) <= 1
    <2>1. p.size \in Nat /\ (p.size = 0 /\ num_frames(size) > 1 => size % maxsize = 0)
      BY <1>1 DEF Fits
    <2>2. num_frames(size) \in Nat
      BY <1>1, FrameCount
    <2> QED BY <2>1, <2>2, <1>1 DEF FramesCarry, WellFormed
  <1>3. /\ receive_buffer \in Seq(ReceivedMessages) /\ L \in Nat
        /\ last_popped \in Int /\ last_popped >= -1
        /\ last_pushed \in Int /\ last_pushed < Len(sent) /\ last_pushed = last_popped + L
        /\ \A k \in 1 .. L : /\ receive_buffer[k] \in ReceivedMessages
                             /\ ReceivedOK(sent, receive_buffer[k], last_popped + k)
    BY DEF IInv, ReceiveBufferInv
  <1>4. s > last_popped
    BY <1>1, <1>3 DEF Outdated
  <1>5. /\ first \in ReceivedMessages /\ ReceivedOK(sent, first, s) /\ ~first.placeholder
        /\ p.frame_index \in first.frames
    <2>1. /\ first \in ReceivedMessages /\ ReceivedOK(sent, first, s) /\ ~first.placeholder
          /\ first.frames = 0 .. WireFrames(size) - 1
      BY <1>1, InitMessageOK
    <2>2. p.frame_index \in 0 .. WireFrames(size) - 1
      BY <1>1 DEF Fits
    <2> QED BY <2>1, <2>2
  <1>6. ASSUME NEW m \in ReceivedMessages, ReceivedOK(sent, m, s), ~m.placeholder
        PROVE  /\ AddFrame(m, p) \in ReceivedMessages /\ ReceivedOK(sent, AddFrame(m, p), s)
               /\ ~AddFrame(m, p).placeholder
               /\ AddFrame(m, p).frames = m.frames \ {p.frame_index}
    BY <1>1, <1>2, <1>6, AddFrameOK
  <1> HIDE DEF s, L, size, first
  <1>7. CASE s > last_pushed
    <2> DEFINE gap == [i \in 1 .. s - last_pushed - 1 |-> Placeholder(last_pushed + i)]
               new == AddFrame(first, p)
               buf == Append(receive_buffer \o gap, new)
    <2>1. Filed(p) = buf
      BY <1>7 DEF Filed, Pushed, s, first
    <2>2. \A i \in 1 .. s - last_pushed - 1 :
             /\ Placeholder(last_pushed + i) \in ReceivedMessages
             /\ ReceivedOK(sent, Placeholder(last_pushed + i), last_popped + L + i)
      <3> TAKE i \in 1 .. s - last_pushed - 1
      <3>1. last_pushed + i \in Nat /\ last_pushed + i = last_popped + L + i
        BY <1>1, <1>3
      <3>2. [j \in 0 .. -1 |-> Unset] \in Buffers
        <4>1. [j \in 0 .. 0 - 1 |-> Unset] \in [0 .. 0 - 1 -> Int]
          BY DEF Unset
        <4> QED BY <4>1 DEF Buffers
      <3> QED BY <3>1, <3>2 DEF Placeholder, ReceivedMessages, ReceivedOK
    <2>3. gap \in Seq(ReceivedMessages) /\ Len(gap) = s - last_pushed - 1
      <3>1. gap \in [1 .. s - last_pushed - 1 -> ReceivedMessages]
        BY <2>2
      <3>2. s - last_pushed - 1 \in Nat
        BY <1>1, <1>3, <1>7
      <3> QED BY <3>1, <3>2
    <2>4. \A i \in 1 .. s - last_pushed - 1 : gap[i] = Placeholder(last_pushed + i)
      OBVIOUS
    <2>5. new \in ReceivedMessages
      BY <1>5, <1>6
    <2> HIDE DEF gap
    <2>6. /\ buf \in Seq(ReceivedMessages)
          /\ Len(buf) = L + Len(gap) + 1
          /\ \A i \in 1 .. L : buf[i] = receive_buffer[i]
          /\ \A i \in 1 .. Len(gap) : buf[L + i] = gap[i]
          /\ buf[L + Len(gap) + 1] = new
      BY <1>3, <2>3, <2>5, AppendConcat DEF L
    <2>7. L + Len(gap) + 1 = s - last_popped
      BY <2>3, <1>1, <1>3
    <2> HIDE DEF buf
    <2>8. Len(buf) = s - last_popped
      BY <2>6, <2>7
    <2>9. buf[s - last_popped] = AddFrame(first, p)
      BY <2>6, <2>7
    <2>10. \A k \in 1 .. L : buf[k] = receive_buffer[k]
      BY <2>6
    <2>11. ASSUME NEW k \in 1 .. Len(buf)
           PROVE  ReceivedOK(sent, buf[k], last_popped + k)
      <3>1. CASE k \in 1 .. L
        BY <3>1, <2>10, <1>3
      <3>2. CASE k = s - last_popped
        BY <3>2, <2>9, <1>1, <1>3, <1>5, <1>6, SMTT(20)
      <3>3. CASE k > L /\ k < s - last_popped
        <4>1. k - L \in 1 .. s - last_pushed - 1 /\ L + (k - L) = k
          BY <3>3, <1>1, <1>3, <2>8
        <4>2. buf[k] = Placeholder(last_pushed + (k - L))
          BY <4>1, <2>3, <2>4, <2>6
        <4>3. last_popped + L + (k - L) = last_popped + k
          BY <1>3
        <4> QED BY <4>1, <4>2, <4>3, <2>2
      <3> QED BY <3>1, <3>2, <3>3, <2>8, <1>1, <1>3
    <2>12. ~buf[s - last_popped].placeholder /\ p.frame_index \notin buf[s - last_popped].frames
      BY <2>9, <1>5, <1>6
    <2>13. /\ s \in Int /\ s < Len(sent) /\ s = last_popped + Len(buf) /\ L <= Len(buf)
           /\ s - last_popped \in 1 .. Len(buf)
      BY <2>8, <1>1, <1>3, <1>4, <1>7
    <2>14. \A k \in 1 .. L : ~receive_buffer[k].placeholder =>
              ~buf[k].placeholder /\ buf[k].frames \subseteq receive_buffer[k].frames
      BY <2>10
    <2> QED BY <2>1, <2>6, <2>11, <2>12, <2>13, <2>14, <1>7 DEF L, s
  <1>8. CASE ~(s > last_pushed)
    <2> DEFINE got(m) == IF m.placeholder THEN first ELSE m
               upd(m) == IF p.frame_index \in got(m).frames
                         THEN AddFrame(got(m), p) ELSE got(m)
               buf == [k \in 1 .. L |->
                         IF receive_buffer[k].sequence # s THEN receive_buffer[k]
                         ELSE upd(receive_buffer[k])]
    <2>1. Filed(p) = buf
      BY <1>8 DEF Filed, Added, s, first, L
    <2>2. ASSUME NEW k \in 1 .. L
          PROVE  /\ buf[k] \in ReceivedMessages
                 /\ ReceivedOK(sent, buf[k], last_popped + k)
                 /\ ~receive_buffer[k].placeholder =>
                       ~buf[k].placeholder /\ buf[k].frames \subseteq receive_buffer[k].frames
                 /\ k = s - last_popped =>
                       ~buf[k].placeholder /\ p.frame_index \notin buf[k].frames
      <3> DEFINE m == receive_buffer[k]
      <3>1. m \in ReceivedMessages /\ ReceivedOK(sent, m, last_popped + k)
        BY <1>3
      <3>2. m.sequence = last_popped + k
        BY <3>1 DEF ReceivedOK
      <3>3. CASE k # s - last_popped
        <4>1. m.sequence # s
          BY <3>2, <3>3, <1>1, <1>3
        <4>2. buf[k] = m
          BY <4>1
        <4> QED BY <4>2, <3>1, <3>3
      <3>4. CASE k = s - last_popped
        <4>1. last_popped + k = s
          BY <3>4, <1>1, <1>3
        <4>2. buf[k] = upd(m)
          BY <3>2, <4>1
        <4>3. /\ got(m) \in ReceivedMessages /\ ReceivedOK(sent, got(m), s)
              /\ ~got(m).placeholder /\ (~m.placeholder => got(m) = m)
          BY <3>1, <4>1, <1>5
        <4> HIDE DEF got, m, buf
        <4>4. /\ upd(m) \in ReceivedMessages /\ ReceivedOK(sent, upd(m), s)
              /\ ~upd(m).placeholder /\ upd(m).frames \subseteq got(m).frames
              /\ p.frame_index \notin upd(m).frames
          BY <4>3, <1>6
        <4> HIDE DEF upd
        <4> QED BY <4>1, <4>2, <4>3, <4>4, <3>4 DEF m
      <3> QED BY <3>3, <3>4
    <2>3. buf \in Seq(ReceivedMessages) /\ Len(buf) = L
      <3>1. buf \in [1 .. L -> ReceivedMessages]
        <4>1. buf = [k \in 1 .. L |-> buf[k]]
          OBVIOUS
        <4> HIDE DEF buf
        <4> QED BY <4>1, <2>2
      <3> HIDE DEF buf
      <3> QED BY <3>1, <1>3
    <2> HIDE DEF buf
    <2>4. s - last_popped \in 1 .. L
      BY <1>1, <1>3, <1>4, <1>8
    <2> QED BY <2>1, <2>2, <2>3, <2>4, <1>3, <1>8 DEF L, s
  <1> QED BY <1>7, <1>8

\* A complete message whose frames all carry their bytes is delivered intact.
LEMMA CompleteIsIntact ==
    ASSUME NEW msgs, NEW s \in Nat, msgs[s + 1] \in Nat,
           NEW m \in ReceivedMessages, ReceivedOK(msgs, m, s), Complete(m)
    PROVE  /\ MessageEvent(m) \in Events
           /\ MessageEvent(m).sequence = s
           /\ FramesCarry => MessageEvent(m) = Message(s, msgs[s + 1])
  <1>1. /\ m.sequence = s /\ m.size = msgs[s + 1] /\ m.frames = {}
        /\ m.data \in [0 .. m.size - 1 -> Int] /\ (FramesCarry => DataOK(m))
    BY DEF ReceivedOK, Complete
  <1>2. MessageEvent(m) \in Events
    BY DEF MessageEvent, Events, ReceivedMessages
  <1>3. FramesCarry => m.data = [j \in 0 .. msgs[s + 1] - 1 |-> j]
    BY <1>1 DEF DataOK
  <1> QED BY <1>1, <1>2, <1>3 DEF MessageEvent, Message

LEMMA ReceiveStep ==
    ASSUME IInv, NEW p \in data_wire, handle_client_message(p)
    PROVE  IInv'
  <1>1. /\ UNCHANGED <<sender, data_wire, ack_wire>>
        /\ UNCHANGED <<sent, next_sequence_reliable, send_buffer, received_acks>>
        /\ WellFormed(p)
        /\ send_acks' = send_acks \cup {<<p.sequence, p.frame_index>>}
    BY DEF sender, handle_client_message
  <1>2. /\ p.sequence \in 0 .. Len(sent) - 1 /\ p.frame_index \in Nat
        /\ Len(sent) \in Nat
    <2>1. /\ p.sequence \in 0 .. Len(sent) - 1
          /\ Fits(p, p.sequence, sent[p.sequence + 1])
      BY DEF IInv, WireInv
    <2> QED BY <2>1, SentSizes DEF Fits
  <1>3. CASE Outdated(p)
    <2>1. UNCHANGED <<receive_buffer, last_pushed, last_popped, delivered>>
      BY <1>3 DEF handle_client_message
    <2>2. HasFrame(receive_buffer, last_popped, p.sequence, p.frame_index)
      BY <1>3 DEF HasFrame, Outdated
    <2>3. AckInv'
      BY <1>1, <1>2, <2>1, <2>2 DEF IInv, AckInv
    <2> QED BY <1>1, <2>1, <2>3 DEF IInv, SentInv, WireInv, SendBufferInv,
                 ReceiveBufferInv, DeliveredInv, AckedInv
  <1>4. CASE ~Outdated(p)
    <2> DEFINE buf == Filed(p)
               L == Len(receive_buffer)
    <2>1. PICK n \in 0 .. Len(buf) :
            /\ \A k \in 1 .. n : Complete(buf[k])
            /\ delivered' = delivered \o [k \in 1 .. n |-> MessageEvent(buf[k])]
            /\ receive_buffer' = SubSeq(buf, n + 1, Len(buf))
            /\ last_popped' = IF n > 0 THEN buf[n].sequence ELSE last_popped
            /\ last_pushed' = IF p.sequence > last_pushed THEN p.sequence ELSE last_pushed
      BY <1>4 DEF file_and_deliver, handle_client_message
    <2>2. /\ buf \in Seq(ReceivedMessages) /\ Len(buf) \in Nat
          /\ last_pushed' \in Int /\ last_pushed' < Len(sent)
          /\ last_pushed' = last_popped + Len(buf)
          /\ L <= Len(buf)
          /\ \A k \in 1 .. Len(buf) : ReceivedOK(sent, buf[k], last_popped + k)
          /\ \A k \in 1 .. L : ~receive_buffer[k].placeholder =>
                ~buf[k].placeholder /\ buf[k].frames \subseteq receive_buffer[k].frames
          /\ p.sequence - last_popped \in 1 .. Len(buf)
          /\ ~buf[p.sequence - last_popped].placeholder
          /\ p.frame_index \notin buf[p.sequence - last_popped].frames
      BY <1>1, <1>4, <2>1, FiledOK, SMTT(20)
    <2>3. last_popped \in Int /\ last_popped >= -1 /\ L \in Nat
      BY DEF IInv, ReceiveBufferInv
    <2>a. /\ Len(buf) \in Nat /\ L <= Len(buf) /\ last_popped + Len(buf) < Len(sent)
          /\ p.sequence - last_popped \in 1 .. Len(buf)
      BY <2>2
    <2> HIDE DEF buf, L
    <2>4. last_popped' = last_popped + n
      <3>1. n > 0 => buf[n].sequence = last_popped + n
        BY <2>2 DEF ReceivedOK
      <3> QED BY <3>1, <2>1, <2>3
    <2>5. /\ receive_buffer' \in Seq(ReceivedMessages)
          /\ Len(receive_buffer') = Len(buf) - n
          /\ \A k \in 1 .. Len(buf) - n : receive_buffer'[k] = buf[n + k]
      <3>1. \A k \in n + 1 .. Len(buf) : buf[k] \in ReceivedMessages
        BY <2>2
      <3>2. /\ receive_buffer' \in Seq(ReceivedMessages)
            /\ Len(receive_buffer') = IF n + 1 <= Len(buf) THEN Len(buf) - (n + 1) + 1 ELSE 0
            /\ \A k \in 1 .. Len(buf) - (n + 1) + 1 : receive_buffer'[k] = buf[n + 1 + k - 1]
        BY <3>1, <2>1, <2>2, SubSeqProperties
      <3> QED BY <3>2, <2>2
    <2>6. ASSUME NEW s \in Nat, NEW i \in Nat,
                 HasFrame(receive_buffer, last_popped, s, i)
          PROVE  HasFrame(receive_buffer', last_popped', s, i)
      <3>1. CASE s <= last_popped + n
        BY <3>1, <2>4 DEF HasFrame
      <3>2. CASE s > last_popped + n
        <4>1. /\ s <= last_popped + L /\ ~receive_buffer[s - last_popped].placeholder
              /\ i \notin receive_buffer[s - last_popped].frames
          BY <3>2, <2>6, <2>3 DEF HasFrame, L
        <4>2. s - last_popped \in 1 .. L /\ s - last_popped' \in 1 .. Len(buf) - n
              /\ n + (s - last_popped') = s - last_popped
          BY <3>2, <4>1, <2>a, <2>3, <2>4
        <4>3. receive_buffer'[s - last_popped'] = buf[s - last_popped]
          BY <4>2, <2>5
        <4>4. s <= last_popped' + Len(receive_buffer')
          BY <4>1, <2>a, <2>3, <2>4, <2>5
        <4> QED BY <4>1, <4>2, <4>3, <4>4, <2>2 DEF HasFrame
      <3> QED BY <3>1, <3>2, <2>3
    <2>7. ASSUME NEW s \in Nat, HasAll(receive_buffer, last_popped, s)
          PROVE  HasAll(receive_buffer', last_popped', s)
      <3>1. CASE s <= last_popped + n
        BY <3>1, <2>4 DEF HasAll
      <3>2. CASE s > last_popped + n
        <4>1. s <= last_popped + L /\ Complete(receive_buffer[s - last_popped])
          BY <3>2, <2>7, <2>3 DEF HasAll, L
        <4>2. s - last_popped \in 1 .. L /\ s - last_popped' \in 1 .. Len(buf) - n
              /\ n + (s - last_popped') = s - last_popped
          BY <3>2, <4>1, <2>a, <2>3, <2>4
        <4>3. receive_buffer'[s - last_popped'] = buf[s - last_popped]
          BY <4>2, <2>5
        <4>4. s <= last_popped' + Len(receive_buffer')
          BY <4>1, <2>a, <2>3, <2>4, <2>5
        <4>5. Complete(buf[s - last_popped])
          BY <4>1, <4>2, <2>2 DEF Complete
        <4> QED BY <4>3, <4>4, <4>5 DEF HasAll
      <3> QED BY <3>1, <3>2, <2>3
    <2>8. SentInv' /\ WireInv' /\ SendBufferInv'
      BY <1>1 DEF IInv, SentInv, WireInv, SendBufferInv
    <2>9. ReceiveBufferInv'
      <3>1. ASSUME NEW k \in 1 .. Len(buf) - n
            PROVE  ReceivedOK(sent, receive_buffer'[k], last_popped' + k)
        <4>1. n + k \in 1 .. Len(buf) /\ last_popped + (n + k) = last_popped' + k
          BY <2>2, <2>3, <2>4
        <4> QED BY <4>1, <2>2, <2>5
      <3>2. /\ last_popped' \in Int /\ last_popped' >= -1
            /\ last_pushed' = last_popped' + Len(receive_buffer')
        BY <2>2, <2>3, <2>4, <2>5
      <3> QED BY <3>1, <3>2, <1>1, <2>2, <2>5 DEF ReceiveBufferInv
    <2>10. DeliveredInv'
      <3> DEFINE ev == [k \in 1 .. n |-> MessageEvent(buf[k])]
      <3>1. /\ delivered \in Seq(Events) /\ Len(delivered) = last_popped + 1
            /\ \A k \in 1 .. Len(delivered) :
                  /\ delivered[k].sequence = k - 1
                  /\ FramesCarry => delivered[k] = Message(k - 1, sent[k])
        BY DEF IInv, DeliveredInv
      <3>2. ASSUME NEW k \in 1 .. n
            PROVE  /\ ev[k] \in Events
                   /\ ev[k].sequence = last_popped + k
                   /\ FramesCarry => ev[k] = Message(last_popped + k, sent[last_popped + k + 1])
        <4>1. /\ k \in 1 .. Len(buf) /\ last_popped + k \in Nat
              /\ last_popped + k + 1 \in 1 .. Len(sent)
          BY <1>2, <2>a, <2>3
        <4>2. sent[last_popped + k + 1] \in Nat /\ buf[k] \in ReceivedMessages
          BY <4>1, <2>2, SentSizes
        <4>3. ev[k] = MessageEvent(buf[k])
          OBVIOUS
        <4> QED BY <4>1, <4>2, <4>3, <2>1, <2>2, CompleteIsIntact, SMTT(20)
      <3>3. ev \in Seq(Events) /\ Len(ev) = n
        <4>1. ev \in [1 .. n -> Events]
          BY <3>2
        <4> QED BY <4>1
      <3> HIDE DEF ev
      <3>4. delivered' = delivered \o ev
        BY <2>1 DEF ev
      <3>5. /\ delivered' \in Seq(Events) /\ Len(delivered') = Len(delivered) + n
            /\ \A k \in 1 .. Len(delivered) : delivered'[k] = delivered[k]
            /\ \A k \in 1 .. n : delivered'[Len(delivered) + k] = ev[k]
        <4>1. /\ delivered \o ev \in Seq(Events)
              /\ Len(delivered \o ev) = Len(delivered) + Len(ev)
              /\ \A k \in 1 .. Len(delivered) : (delivered \o ev)[k] = delivered[k]
              /\ \A k \in 1 .. Len(ev) : (delivered \o ev)[Len(delivered) + k] = ev[k]
          <5>1. delivered \in Seq(Events) /\ ev \in Seq(Events)
            BY <3>1, <3>3
          <5> QED BY <5>1, Concat
        <4> QED BY <4>1, <3>3, <3>4
      <3>6. ASSUME NEW k \in 1 .. Len(delivered')
            PROVE  /\ delivered'[k].sequence = k - 1
                   /\ FramesCarry => delivered'[k] = Message(k - 1, sent[k])
        <4>1. CASE k \in 1 .. Len(delivered)
          BY <4>1, <3>1, <3>5
        <4>2. CASE k > Len(delivered)
          <5>1. /\ k - Len(delivered) \in 1 .. n /\ Len(delivered) + (k - Len(delivered)) = k
                /\ last_popped + (k - Len(delivered)) = k - 1 /\ k - 1 + 1 = k
            BY <4>2, <3>1, <3>5, <2>3
          <5> QED BY <5>1, <3>2, <3>5
        <4> QED BY <4>1, <4>2, <3>1
      <3>7. Len(delivered') = last_popped' + 1
        BY <3>1, <3>5, <2>3, <2>4
      <3> QED BY <3>5, <3>6, <3>7, <1>1 DEF DeliveredInv
    <2>11. AckInv'
      <3>1. HasFrame(receive_buffer', last_popped', p.sequence, p.frame_index)
        <4>1. CASE p.sequence <= last_popped + n
          BY <4>1, <2>4 DEF HasFrame
        <4>2. CASE p.sequence > last_popped + n
          <5>1. /\ p.sequence - last_popped' \in 1 .. Len(buf) - n
                /\ n + (p.sequence - last_popped') = p.sequence - last_popped
                /\ p.sequence <= last_popped' + Len(receive_buffer')
            <6>1. n \in Nat /\ n <= Len(buf) /\ p.sequence \in Int
              BY <1>2, <2>a
            <6>2. Len(receive_buffer') = Len(buf) - n
              BY <2>5
            <6>3. p.sequence - last_popped \in Int /\ p.sequence - last_popped <= Len(buf)
              BY <2>a
            <6>4. p.sequence - last_popped' = (p.sequence - last_popped) - n
              BY <6>1, <2>3, <2>4
            <6>5. p.sequence <= last_popped' + Len(receive_buffer')
              BY <6>1, <6>2, <6>3, <2>3, <2>4
            <6>6. p.sequence - last_popped' \in 1 .. Len(buf) - n
              BY <6>1, <6>3, <6>4, <4>2, <2>3
            <6> QED BY <6>1, <6>3, <6>4, <6>5, <6>6
          <5>2. receive_buffer'[p.sequence - last_popped'] = buf[p.sequence - last_popped]
            BY <5>1, <2>5
          <5> QED BY <5>1, <5>2, <2>2 DEF HasFrame
        <4> QED BY <4>1, <4>2, <1>2, <2>3
      <3>2. \A a \in received_acks \cup ack_wire \cup send_acks :
               /\ a \in (0 .. Len(sent) - 1) \X Nat
               /\ HasFrame(receive_buffer', last_popped', a[1], a[2])
        <4>1. \A a \in received_acks \cup ack_wire \cup send_acks :
               /\ a \in (0 .. Len(sent) - 1) \X Nat
               /\ HasFrame(receive_buffer, last_popped, a[1], a[2])
          BY DEF IInv, AckInv
        <4>2. \A a \in (0 .. Len(sent) - 1) \X Nat : a[1] \in Nat /\ a[2] \in Nat
          BY <1>2
        <4> QED BY <4>1, <4>2, <2>6
      <3> QED BY <3>1, <3>2, <1>1, <1>2 DEF AckInv
    <2>12. AckedInv'
      <3>1. \A k \in 1 .. Len(send_buffer) : /\ send_buffer[k].sequence \in Nat
                                             /\ send_buffer[k].num_frames \in Nat
        <4>1. \A k \in 1 .. Len(send_buffer) : send_buffer[k] \in SentMessages
          BY DEF IInv, SendBufferInv
        <4> QED BY <4>1 DEF SentMessages
      <3>2. Len(sent) - Len(send_buffer) \in Nat
        BY <1>2 DEF IInv, SendBufferInv
      <3> QED BY <3>1, <3>2, <1>1, <2>6, <2>7, SMTT(20) DEF IInv, AckedInv
    <2> QED BY <2>8, <2>9, <2>10, <2>11, <2>12 DEF IInv
  <1> QED BY <1>3, <1>4

----------------------------------------------------------------------------
(* Theorems                                                                *)

LEMMA IInvStep == IInv /\ [LossyNext]_vars => IInv'
  <1> SUFFICES ASSUME IInv, [LossyNext]_vars PROVE IInv'
    OBVIOUS
  <1>1. ASSUME NEW size \in Sizes, send_message(size) PROVE IInv'
    BY <1>1, SendStep
  <1>2. ASSUME NEW a \in ack_wire, handle_ack(a) PROVE IInv'
    BY <1>2, QuietStep DEF handle_ack, receiver
  <1>3. ASSUME NEW due \in SUBSET (1 .. Len(send_buffer)), do_send(due) PROVE IInv'
    BY <1>3, DoSendStep
  <1>4. ASSUME NEW p \in data_wire, handle_client_message(p) PROVE IInv'
    BY <1>4, ReceiveStep
  <1>5. ASSUME send_ack PROVE IInv'
    BY <1>5, QuietStep DEF send_ack, sender
  <1>6. ASSUME NEW p \in data_wire, LoseData(p) PROVE IInv'
    BY <1>6, QuietStep DEF LoseData, sender, receiver
  <1>7. ASSUME NEW a \in ack_wire, LoseAck(a) PROVE IInv'
    BY <1>7, QuietStep DEF LoseAck, sender, receiver
  <1>8. ASSUME UNCHANGED vars PROVE IInv'
    BY <1>8, QuietStep DEF vars, sender, receiver
  <1> QED BY <1>1, <1>2, <1>3, <1>4, <1>5, <1>6, <1>7, <1>8 DEF LossyNext, Next

LEMMA IInvHolds == Spec => []IInv
  <1>1. IInv /\ [Next]_vars => IInv'
    BY IInvStep DEF LossyNext
  <1> QED BY <1>1, IInvInit, PTL DEF Spec

\* The buffers, wires and counters have their types and bounds.
THEOREM TypeCorrect == Spec => []TypeOK
  <1>1. IInv => TypeOK
    <2> SUFFICES ASSUME IInv PROVE TypeOK
      OBVIOUS
    <2>1. sent \in Seq(Sizes) /\ next_sequence_reliable = Len(sent)
      BY DEF IInv, SentInv
    <2>2. \A k \in 1 .. Len(send_buffer) :
             send_buffer[k].frames \subseteq 0 .. send_buffer[k].num_frames - 1
      BY DEF IInv, SendBufferInv, SentOK
    <2>3. received_acks \cup ack_wire \cup send_acks \subseteq (0 .. Len(sent) - 1) \X Nat
      BY DEF IInv, AckInv
    <2>4. \A p \in data_wire : p.sequence \in 0 .. Len(sent) - 1
      BY DEF IInv, WireInv
    <2>5. last_popped \in -1 .. last_pushed /\ last_pushed \in -1 .. Len(sent) - 1
      BY SentSizes DEF IInv, ReceiveBufferInv
    <2> QED BY <2>1, <2>2, <2>3, <2>4, <2>5 DEF TypeOK
  <1> QED BY <1>1, IInvHolds, PTL

\* Whatever the network does, the k-th message the receiver delivers is the
\* k-th message that was sent (do_handle_client_message).
THEOREM DeliveryInOrder == Spec => []InOrder
  <1>1. IInv => InOrder
    BY SentSizes DEF IInv, DeliveredInv, ReceiveBufferInv, InOrder
  <1> QED BY <1>1, IInvHolds, PTL

\* The receive buffer never has a hole, so a late frame finds its message.
THEOREM ReceiveBufferContiguous == Spec => []BufferContiguous
  <1>1. IInv => BufferContiguous
    <2> SUFFICES ASSUME IInv PROVE BufferContiguous
      OBVIOUS
    <2>1. /\ last_popped \in Int /\ Len(receive_buffer) \in Nat
          /\ last_pushed = last_popped + Len(receive_buffer)
          /\ \A k \in 1 .. Len(receive_buffer) :
                receive_buffer[k].sequence = last_popped + k
      BY DEF IInv, ReceiveBufferInv, ReceivedOK
    <2> QED BY <2>1 DEF BufferContiguous
  <1> QED BY <1>1, IInvHolds, PTL

\* Every delivered payload is the payload sent, provided that no multi-frame
\* binary message has a size that is a multiple of the frame size (then
\* send_message sends an empty last frame, which the receiver accepts).
THEOREM DeliveryIntact == ASSUME FramesCarry PROVE Spec => []DeliveredIntact
  <1>1. IInv => DeliveredIntact
    BY DEF IInv, DeliveredInv, DeliveredIntact
  <1> QED BY <1>1, IInvHolds, PTL

\* The sender pops a message only when the receiver has all of it, provided
\* that no message is empty (an empty message has no frame to wait for).
THEOREM NothingForgottenEarly ==
    ASSUME 0 \notin Sizes PROVE Spec => []ForgottenIsReceived
  <1>1. IInv => ForgottenIsReceived
    <2> SUFFICES ASSUME IInv, NEW s \in 0 .. next_sequence_reliable - 1
                 PROVE  \/ \E k \in 1 .. Len(send_buffer) : send_buffer[k].sequence = s
                        \/ s <= last_popped
                        \/ \E k \in 1 .. Len(receive_buffer) :
                              /\ receive_buffer[k].sequence = s
                              /\ Complete(receive_buffer[k])
      BY DEF ForgottenIsReceived
    <2> DEFINE n == Len(send_buffer)
               base == Len(sent) - n
    <2>1. /\ n \in Nat /\ base \in Nat /\ s \in 0 .. Len(sent) - 1 /\ Len(sent) \in Nat
          /\ \A k \in 1 .. n : send_buffer[k].sequence = base + k - 1
      BY SentSizes DEF IInv, SendBufferInv, SentInv, SentOK
    <2>2. CASE s >= base
      <3>1. s - base + 1 \in 1 .. n /\ base + (s - base + 1) - 1 = s
        BY <2>1, <2>2
      <3> QED BY <2>1, <3>1
    <2>3. CASE s < base
      <3>1. HasAll(receive_buffer, last_popped, s)
        BY <2>1, <2>3 DEF IInv, AckedInv
      <3>2. /\ last_popped \in Int /\ Len(receive_buffer) \in Nat
            /\ \A k \in 1 .. Len(receive_buffer) :
                  receive_buffer[k].sequence = last_popped + k
        BY DEF IInv, ReceiveBufferInv, ReceivedOK
      <3>3. CASE s > last_popped
        <4>1. s - last_popped \in 1 .. Len(receive_buffer) /\ last_popped + (s - last_popped) = s
          BY <3>1, <3>2, <3>3, <2>1 DEF HasAll
        <4>2. Complete(receive_buffer[s - last_popped])
          BY <3>1, <3>3, <3>2, <2>1 DEF HasAll
        <4> QED BY <4>1, <4>2, <3>2
      <3> QED BY <3>2, <3>3, <2>1
    <2> QED BY <2>1, <2>2, <2>3
  <1> QED BY <1>1, IInvHolds, PTL

----------------------------------------------------------------------------
(* Refinement                                                              *)

LEMMA ChannelSentLen ==
    ASSUME IInv
    PROVE  Len(channelSent) = Len(sent)
  <1>1. Len(sent) \in Nat
    BY SentSizes
  <1> QED BY <1>1 DEF channelSent

\* What is delivered is a prefix of what was sent.
LEMMA DeliveredPrefix ==
    ASSUME IInv, FramesCarry
    PROVE  /\ Len(delivered) \in 0 .. Len(sent)
           /\ delivered = SubSeq(channelSent, 1, Len(delivered))
  <1> DEFINE n == Len(delivered)
  <1>1. /\ delivered \in Seq(Events) /\ n \in 0 .. Len(sent) /\ Len(sent) \in Nat
        /\ \A k \in 1 .. n : delivered[k] = Message(k - 1, sent[k])
    BY SentSizes DEF IInv, DeliveredInv, ReceiveBufferInv
  <1>2. SubSeq(channelSent, 1, n) = [k \in 1 .. n |-> channelSent[k]]
    BY <1>1, ChannelSentLen
  <1>3. \A k \in 1 .. n : channelSent[k] = Message(k - 1, sent[k])
    BY <1>1 DEF channelSent
  <1>4. delivered = [k \in 1 .. n |-> delivered[k]]
    BY <1>1
  <1> QED BY <1>1, <1>2, <1>3, <1>4

\* The protocol implements the first-in first-out channel, under the
\* assumption of DeliveryIntact.
THEOREM Refinement == ASSUME FramesCarry PROVE Spec => ImplementsChannel
  <1>1. Init => Channel!Init
    BY DEF Init, Channel!Init, channelSent
  <1> DEFINE Prefix == /\ Len(delivered) \in 0 .. Len(sent)
                       /\ delivered = SubSeq(channelSent, 1, Len(delivered))
  <1>p. IInv => Prefix
    BY DeliveredPrefix
  <1>2. IInv /\ Prefix /\ Prefix' /\ [Next]_vars => [Channel!Next]_<<channelSent, delivered>>
    <2> SUFFICES ASSUME IInv, Prefix, Prefix', [Next]_vars
                 PROVE  [Channel!Next]_<<channelSent, delivered>>
      OBVIOUS
    <2>1. ASSUME NEW size \in Sizes, send_message(size)
          PROVE  Channel!Next
      <3>1. /\ sent' = Append(sent, size) /\ Len(sent) < MaxMessages
            /\ delivered' = delivered
        BY <2>1 DEF send_message, receiver
      <3>2. sent \in Seq(Sizes) /\ Len(sent) \in Nat
        BY SentSizes
      <3>3. /\ Len(sent') = Len(sent) + 1 /\ sent'[Len(sent) + 1] = size
            /\ \A k \in 1 .. Len(sent) : sent'[k] = sent[k]
        BY <3>1, <3>2
      <3>4. channelSent' = Append(channelSent, Message(Len(sent), size))
        <4> DEFINE e == Message(Len(sent), size)
                   S == {Message(k - 1, sent[k]) : k \in 1 .. Len(sent)} \cup {e}
        <4>1. channelSent \in [1 .. Len(sent) -> S] /\ e \in S
          BY DEF channelSent
        <4>2. channelSent' = [k \in 1 .. Len(sent) + 1 |-> Message(k - 1, sent'[k])]
          BY <3>3 DEF channelSent
        <4>3. ASSUME NEW k \in 1 .. Len(sent) + 1
              PROVE  Message(k - 1, sent'[k]) =
                       IF k <= Len(sent) THEN channelSent[k] ELSE e
          <5>1. CASE k <= Len(sent)
            BY <5>1, <3>2, <3>3 DEF channelSent
          <5>2. CASE k = Len(sent) + 1
            BY <5>2, <3>2, <3>3
          <5> QED BY <5>1, <5>2, <3>2
        <4> HIDE DEF e, S
        <4>4. channelSent \in Seq(S) /\ Len(channelSent) = Len(sent)
          BY <4>1, <3>2
        <4>5. /\ Append(channelSent, e) \in Seq(S)
              /\ Len(Append(channelSent, e)) = Len(sent) + 1
              /\ \A k \in 1 .. Len(sent) : Append(channelSent, e)[k] = channelSent[k]
              /\ Append(channelSent, e)[Len(sent) + 1] = e
          BY <4>1, <4>4, <3>2, AppendProperties
        <4>6. ASSUME NEW k \in 1 .. Len(sent) + 1
              PROVE  channelSent'[k] = Append(channelSent, e)[k] /\ channelSent'[k] \in S
          <5>1. channelSent'[k] = IF k <= Len(sent) THEN channelSent[k] ELSE e
            BY <4>2, <4>3
          <5> QED BY <5>1, <4>1, <4>5, <3>2
        <4>7. channelSent' \in Seq(S) /\ Len(channelSent') = Len(sent) + 1
          <5>1. channelSent' \in [1 .. Len(sent) + 1 -> S]
            BY <4>2, <4>6
          <5> QED BY <5>1, <3>2
        <4>8. channelSent' = Append(channelSent, e)
          BY <4>5, <4>6, <4>7, SeqEqual
        <4> QED BY <4>8 DEF e
      <3>5. Len(sent) \in 0 .. MaxMessages - 1
        BY <3>1, <3>2, MaxMessagesAssumption
      <3> QED BY <3>1, <3>4, <3>5 DEF Channel!Next, Channel!Send
    <2>2. ASSUME NEW p \in data_wire, handle_client_message(p)
          PROVE  Channel!Next \/ UNCHANGED <<channelSent, delivered>>
      <3>1. UNCHANGED sent
        BY <2>2 DEF handle_client_message, sender
      <3>2. channelSent' = channelSent
        BY <3>1 DEF channelSent
      <3>3. CASE delivered' = delivered
        BY <3>2, <3>3
      <3>4. CASE delivered' # delivered
        <4>1. /\ Len(delivered') \in 0 .. Len(sent)
              /\ delivered' = SubSeq(channelSent, 1, Len(delivered'))
          BY <3>1, <3>2
        <4>2. /\ Len(delivered) \in 0 .. Len(sent) /\ Len(sent) \in Nat
              /\ delivered = SubSeq(channelSent, 1, Len(delivered))
          BY SentSizes
        <4>3. PICK n \in 0 .. Len(Filed(p)) : delivered' = delivered \o [k \in 1 .. n |-> MessageEvent(Filed(p)[k])]
          <5>1. file_and_deliver(p)
            BY <2>2, <3>4 DEF handle_client_message
          <5> QED BY <5>1 DEF file_and_deliver
        <4>n. n \in Nat
          OBVIOUS
        <4>4. Len(delivered') = Len(delivered) + n
          <5> DEFINE ev == [k \in 1 .. n |-> MessageEvent(Filed(p)[k])]
                     S == Events \cup {MessageEvent(Filed(p)[k]) : k \in 1 .. n}
          <5>1. ev \in [1 .. n -> S]
            OBVIOUS
          <5>2. delivered \in Seq(Events)
            BY DEF IInv, DeliveredInv
          <5>3. \A k \in 1 .. Len(delivered) : delivered[k] \in S
            BY <5>2
          <5>4. delivered' = delivered \o ev
            BY <4>3
          <5> HIDE DEF ev, S
          <5>5. delivered \in Seq(S) /\ ev \in Seq(S) /\ Len(ev) = n
            BY <5>1, <5>2, <5>3, <4>n
          <5> QED BY <5>4, <5>5, Concat
        <4>5. Len(delivered') # Len(delivered)
          BY <4>1, <4>2, <3>4
        <4>6. Len(delivered') \in Len(delivered) + 1 .. Len(channelSent)
          <5>1. Len(delivered) \in Nat /\ Len(delivered') \in 0 .. Len(sent)
            BY <4>1, <4>2
          <5>2. n > 0
            <6> DEFINE a == Len(delivered)
                       b == Len(delivered')
            <6>1. a \in Nat /\ b = a + n /\ b # a
              BY <5>1, <4>4, <4>5
            <6> HIDE DEF a, b, Prefix
            <6> QED BY <6>1, <4>n
          <5>3. Len(channelSent) = Len(sent)
            BY ChannelSentLen
          <5> QED BY <5>1, <5>2, <5>3, <4>n, <4>4
        <4> QED BY <4>1, <4>6, <3>2 DEF Channel!Next, Channel!Deliver
      <3> QED BY <3>3, <3>4
    <2>3. ASSUME UNCHANGED <<sent, delivered>>
          PROVE  UNCHANGED <<channelSent, delivered>>
      BY <2>3 DEF channelSent
    <2>4. ASSUME NEW a \in ack_wire, handle_ack(a) PROVE UNCHANGED <<sent, delivered>>
      BY <2>4 DEF handle_ack, receiver
    <2>5. ASSUME NEW due \in SUBSET (1 .. Len(send_buffer)), do_send(due)
          PROVE  UNCHANGED <<sent, delivered>>
      BY <2>5 DEF do_send, receiver
    <2>6. ASSUME send_ack PROVE UNCHANGED <<sent, delivered>>
      BY <2>6 DEF send_ack, sender
    <2>7. ASSUME UNCHANGED vars PROVE UNCHANGED <<sent, delivered>>
      BY <2>7 DEF vars, sender, receiver
    <2> QED BY <2>1, <2>2, <2>3, <2>4, <2>5, <2>6, <2>7 DEF Next
  <1> QED BY <1>1, <1>p, <1>2, IInvHolds, PTL DEF Spec, ImplementsChannel, Channel!Spec

=============================================================================
