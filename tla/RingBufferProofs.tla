--------------------------- MODULE RingBufferProofs ---------------------------
(***************************************************************************)
(* Proofs about RingBuffer, for every even ring size, every width of the   *)
(* positions and any number of bytes.                                      *)
(***************************************************************************)
EXTENDS RingBuffer, DivisionLemmas, TLAPS

-----------------------------------------------------------------------------
(* What the position arithmetic of the code computes. *)

LEMMA SizeFact == Size \in Nat \ {0} /\ Size > 1
  BY SizeAssumption

LEMMA PosModFact == PosMod \in Nat \ {0}
  BY SizeAssumption DEF PosMod

LEMMA HalfFact == Size \div 2 \in Nat /\ (Size \div 2) + (Size \div 2) = Size
  BY SizeAssumption, HalfAssumption

(* Masking a wrapped position. *)
LEMMA MaskWrapped ==
    ASSUME NEW a \in Int
    PROVE  (a % PosMod) % Size = a % Size
  <1>1. PosMod = Size * Wraps
    BY DEF PosMod
  <1> QED BY <1>1, SizeAssumption, SizeFact, ModMod

(* A difference of wrapped positions, masked, is the masked difference of  *)
(* the positions; c is the constant the code subtracts.                    *)
LEMMA MaskedDifference ==
    ASSUME NEW a \in Int, NEW b \in Int, NEW c \in Int
    PROVE  (((a % PosMod) - (b % PosMod) - c) % PosMod) % Size = (a - b - c) % Size
  <1>1. PICK p \in Int, r \in 0..(PosMod - 1) : a = PosMod * p + r /\ a % PosMod = r
    BY PosModFact, DivMod
  <1>2. PICK q \in Int, t \in 0..(PosMod - 1) : b = PosMod * q + t /\ b % PosMod = t
    BY PosModFact, DivMod
  <1> DEFINE k == Wraps * (p - q)
             d == r - t - c
  <1>3. (PosMod * p) - (PosMod * q) = Size * k /\ k \in Int
    <2>1. (PosMod * p) - (PosMod * q) = PosMod * (p - q)
      BY PosModFact, Distribute
    <2>2. ASSUME NEW z \in Int PROVE (Size * Wraps) * z = Size * (Wraps * z) /\ Wraps * z \in Int
      BY SizeAssumption
    <2>3. p - q \in Int
      OBVIOUS
    <2> QED BY <2>1, <2>2, <2>3 DEF PosMod
  <1>4. PosMod * p \in Int /\ PosMod * q \in Int /\ Size * k \in Int
    BY <1>3, PosModFact, SizeFact
  <1>5. d \in Int /\ r \in Int /\ t \in Int
    BY PosModFact
  <1>6. a - b - c = d + (Size * k)
    <2> HIDE DEF k
    <2> QED BY <1>1, <1>2, <1>3, <1>4, <1>5
  <1> HIDE DEF k, d
  <1>7. (d + (Size * k)) % Size = d % Size
    BY <1>3, <1>5, SizeFact, ModShift
  <1>8. (d % PosMod) % Size = d % Size
    BY <1>5, MaskWrapped
  <1>9. (a % PosMod) - (b % PosMod) - c = d
    BY <1>1, <1>2 DEF d
  <1> QED BY <1>6, <1>7, <1>8, <1>9

(* The two counts of available bytes, while the ring is not overfull. *)
LEMMA Available ==
    ASSUME TypeOK, Positions, Occupancy
    PROVE  /\ ring_buffer_available_read = wTotal - rTotal
           /\ ring_buffer_available_write = Size - 1 - (wTotal - rTotal)
  <1>1. wTotal \in Int /\ rTotal \in Int /\ wTotal - rTotal \in 0..(Size - 1)
    BY SizeFact DEF TypeOK, Occupancy
  <1>2. ring_buffer_available_read = (wTotal - rTotal - 0) % Size
    <2>1. (((wTotal % PosMod) - (rTotal % PosMod) - 0) % PosMod) % Size = (wTotal - rTotal - 0) % Size
      BY <1>1, MaskedDifference
    <2>2. write_pos - read_pos - 0 = write_pos - read_pos
      BY PosModFact DEF TypeOK
    <2> QED BY <2>1, <2>2 DEF ring_buffer_available_read, get_ring_pos, Positions
  <1>3. ring_buffer_available_write = (rTotal - wTotal - 1) % Size
    <2>1. (((rTotal % PosMod) - (wTotal % PosMod) - 1) % PosMod) % Size = (rTotal - wTotal - 1) % Size
      BY <1>1, MaskedDifference
    <2> QED BY <2>1 DEF ring_buffer_available_write, get_ring_pos, Positions
  <1>4. (wTotal - rTotal - 0) % Size = wTotal - rTotal
    <2>1. wTotal - rTotal - 0 = Size * 0 + (wTotal - rTotal)
      BY <1>1, SizeFact
    <2> QED BY <1>1, <2>1, SizeFact, ModUnique
  <1>5. (rTotal - wTotal - 1) % Size = Size - 1 - (wTotal - rTotal)
    <2>1. Size * (-1) = -Size
      BY SizeFact
    <2>2. /\ rTotal - wTotal - 1 = Size * (-1) + (Size - 1 - (wTotal - rTotal))
          /\ Size - 1 - (wTotal - rTotal) \in 0..(Size - 1)
          /\ rTotal - wTotal - 1 \in Int
      BY <1>1, <2>1, SizeFact
    <2> QED BY <2>2, SizeFact, ModUnique
  <1> QED BY <1>2, <1>3, <1>4, <1>5

(* The i-th byte of a copy from the wrapped position of T is in slot       *)
(* (T + i) % Size, on either side of the split.                            *)
LEMMA ByteSlot ==
    ASSUME NEW T \in Nat, NEW i \in 0..(Size - 1)
    PROVE  ByteAt(T % PosMod, i) = (T + i) % Size /\ (T + i) % Size \in 0..(Size - 1)
  <1> DEFINE pos == T % PosMod
             g == T % Size
  <1>0. T \in Int
    OBVIOUS
  <1>1. g \in 0..(Size - 1) /\ T = Size * (T \div Size) + g /\ T \div Size \in Int
    BY <1>0, SizeFact, DivMod
  <1>2. pos \in Nat /\ pos % Size = g
    <2>1. pos \in 0..(PosMod - 1)
      BY <1>0, PosModFact, DivMod
    <2> QED BY <1>0, <2>1, PosModFact, MaskWrapped
  <1>3. pos = Size * (pos \div Size) + g /\ pos \div Size \in Int
    <2>1. pos \in Int
      BY <1>2
    <2> HIDE DEF pos
    <2>2. pos = Size * (pos \div Size) + (pos % Size) /\ pos \div Size \in Int
      BY <2>1, SizeFact, DivMod
    <2> QED BY <1>2, <2>2
  <1> PICK q \in Int, p \in Int : T = Size * q + g /\ pos = Size * p + g
    BY <1>1, <1>3
  <1> HIDE DEF pos, g
  <1>4. Size * q \in Int /\ Size * p \in Int /\ Size * (q + 1) = Size * q + Size
        /\ Size * (p + 1) = Size * p + Size
    BY SizeFact, Distribute
  <1>5. available_at_end(pos) = Size - g /\ get_ring_pos(pos) = g
    BY <1>2 DEF available_at_end, get_ring_pos
  <1>6. CASE i < Size - g
    <2>1. T + i = Size * q + (g + i) /\ g + i \in 0..(Size - 1) /\ T + i \in Int
      BY <1>1, <1>4, <1>6, SizeFact
    <2>2. (T + i) % Size = g + i
      BY <2>1, SizeFact, ModUnique
    <2> QED BY <1>5, <1>6, <2>1, <2>2 DEF ByteAt, pos
  <1>7. CASE ~(i < Size - g)
    <2>1. /\ T + i = Size * (q + 1) + (g + i - Size) /\ g + i - Size \in 0..(Size - 1)
          /\ T + i \in Int /\ q + 1 \in Int
      BY <1>1, <1>4, <1>7, SizeFact
    <2>2. (T + i) % Size = g + i - Size
      BY <2>1, SizeFact, ModUnique
    <2>3. pos + (Size - g) = Size * (p + 1) + 0 /\ pos + (Size - g) \in Int
      BY <1>1, <1>2, <1>3, <1>4, SizeFact
    <2>4. (pos + (Size - g)) % Size = 0
      BY <2>3, SizeFact, ModUnique
    <2>5. ByteAt(pos, i) = 0 + (i - (Size - g))
      BY <1>5, <1>7, <2>4 DEF ByteAt, get_ring_pos
    <2>6. 0 + (i - (Size - g)) = g + i - Size
      BY <1>1, SizeFact
    <2> QED BY <2>1, <2>2, <2>5, <2>6 DEF pos
  <1> QED BY <1>6, <1>7

(* Advancing a wrapped position. *)
LEMMA Advance ==
    ASSUME NEW a \in Nat, NEW k \in Nat
    PROVE  ((a % PosMod) + k) % PosMod = (a + k) % PosMod /\ (a + k) % PosMod \in 0..(PosMod - 1)
  <1>0. a \in Int
    OBVIOUS
  <1>1. PICK q \in Int, r \in 0..(PosMod - 1) : a = PosMod * q + r /\ a % PosMod = r
    BY <1>0, PosModFact, DivMod
  <1>2. r + k \in Int /\ a + k \in Int /\ PosMod * q \in Int
    BY PosModFact
  <1>3. a + k = (r + k) + (PosMod * q)
    BY <1>1, <1>2
  <1>4. (a + k) % PosMod = (r + k) % PosMod
    BY <1>2, <1>3, PosModFact, ModShift
  <1>5. (a + k) % PosMod \in 0..(PosMod - 1)
    BY <1>2, PosModFact, DivMod
  <1> QED BY <1>1, <1>4, <1>5

LEMMA AtMostFacts ==
    ASSUME NEW n \in Nat, NEW k \in Nat
    PROVE  AtMost(n, k) \in Nat /\ AtMost(n, k) =< n /\ AtMost(n, k) =< k
  BY DEF AtMost
-----------------------------------------------------------------------------
(* The invariant of the ring, one lemma per action. *)

IInv == TypeOK /\ RingInv

LEMMA WriteFullyStep ==
    ASSUME IInv, NEW n \in Calls, ring_buffer_write_fully(n) PROVE IInv'
  <1>1. n \in Nat /\ get_step_size(n) \in Nat /\ get_step_size(n) =< n
        /\ get_step_size(n) =< Size \div 2
    BY HalfFact, AtMostFacts, BytesAssumption DEF Calls, get_step_size
  <1>2. TypeOK'
    BY <1>1 DEF IInv, TypeOK, ring_buffer_write_fully, consumer
  <1>3. ProducerClaim' /\ wCopied' = wCopied
    BY <1>1 DEF IInv, RingInv, TypeOK, ProducerClaim, ring_buffer_write_fully
  <1> QED BY <1>2, <1>3 DEF IInv, RingInv, Positions, Occupancy, ConsumerClaim,
          Contents, Fifo, ring_buffer_write_fully, consumer

LEMMA WriteStep ==
    ASSUME IInv, NEW n \in Calls, ring_buffer_write(n) PROVE IInv'
  <1>1. n \in Nat /\ Size - 1 - (wTotal - rTotal) >= n
    BY Available, BytesAssumption
       DEF Calls, IInv, RingInv, ring_buffer_write, ring_buffer_can_write
  <1>2. TypeOK'
    BY <1>1 DEF IInv, TypeOK, ring_buffer_write, consumer
  <1>3. wTotal + n =< rTotal + (Size - 1)
    BY <1>1, SizeFact DEF IInv, TypeOK
  <1>4. ProducerClaim' /\ wCopied' = wCopied
    BY <1>1, <1>3 DEF IInv, RingInv, TypeOK, ProducerClaim, ring_buffer_write
  <1> QED BY <1>2, <1>4 DEF IInv, RingInv, Positions, Occupancy, ConsumerClaim,
          Contents, Fifo, ring_buffer_write, consumer

LEMMA WaitWriteStep ==
    ASSUME IInv, ring_buffer_wait_write PROVE IInv'
  <1>1. wStep \in Nat /\ Size - 1 - (wTotal - rTotal) >= wStep
    BY Available DEF IInv, RingInv, TypeOK, ring_buffer_wait_write, ring_buffer_can_write
  <1>2. TypeOK'
    BY DEF IInv, TypeOK, ring_buffer_wait_write, consumer
  <1>3. wTotal + wStep =< rTotal + (Size - 1)
    BY <1>1, SizeFact DEF IInv, TypeOK
  <1>4. ProducerClaim' /\ wCopied' = wCopied
    BY <1>1, <1>3 DEF IInv, RingInv, TypeOK, ProducerClaim, ring_buffer_wait_write
  <1> QED BY <1>2, <1>4 DEF IInv, RingInv, Positions, Occupancy, ConsumerClaim,
          Contents, Fifo, ring_buffer_wait_write, consumer

(* The byte the producer's copy is about to store. *)
LEMMA CopyInSlot ==
    ASSUME IInv, pcP = "copy", wCopied < wStep
    PROVE  /\ ByteAt(write_pos, wCopied) = (wTotal + wCopied) % Size
           /\ (wTotal + wCopied) % Size \in 0..(Size - 1)
           /\ \A k \in rTotal..(wTotal + wCopied - 1) :
                 k % Size # (wTotal + wCopied) % Size /\ k % Size \in 0..(Size - 1)
  <1>1. /\ wTotal \in Nat /\ rTotal \in Nat /\ wCopied \in Nat /\ wStep \in Nat
        /\ rTotal =< wTotal /\ wTotal + wStep =< rTotal + (Size - 1)
        /\ write_pos = wTotal % PosMod
    BY DEF IInv, TypeOK, RingInv, Positions, Occupancy, ProducerClaim
  <1>2. wCopied \in 0..(Size - 1)
    BY <1>1, SizeFact
  <1>3. ASSUME NEW k \in rTotal..(wTotal + wCopied - 1)
        PROVE  k % Size # (wTotal + wCopied) % Size /\ k % Size \in 0..(Size - 1)
    <2>1. /\ k \in Int /\ wTotal + wCopied \in Int
          /\ k < wTotal + wCopied /\ wTotal + wCopied < k + Size
      BY <1>1, SizeFact
    <2>2. k % Size # (wTotal + wCopied) % Size
      BY <2>1, SizeFact, ModDistinct
    <2>3. k % Size \in 0..(Size - 1)
      BY <2>1, SizeFact, DivMod
    <2> QED BY <2>2, <2>3
  <1> QED BY <1>1, <1>2, <1>3, ByteSlot

LEMMA CopyInStep ==
    ASSUME IInv, CopyIn PROVE IInv'
  <1>1. /\ wTotal \in Nat /\ rTotal \in Nat /\ wCopied \in Nat /\ wStep \in Nat
        /\ wCopied < wStep /\ pcP = "copy" /\ wCopied' = wCopied + 1
        /\ buf \in [0..(Size - 1) -> Int]
    BY DEF IInv, TypeOK, CopyIn
  <1>2. PICK w \in Nat : w = wTotal + wCopied
    BY <1>1
  <1>3. PICK slot \in 0..(Size - 1) : slot = w % Size
    BY <1>1, <1>2, CopyInSlot
  <1>4. buf' = [buf EXCEPT ![slot] = w]
    BY <1>1, <1>2, <1>3, CopyInSlot DEF CopyIn
  <1>5. \A k \in rTotal..(w - 1) :
           k % Size # slot /\ k % Size \in 0..(Size - 1) /\ buf[k % Size] = k
    BY <1>1, <1>2, <1>3, CopyInSlot DEF IInv, RingInv, Contents
  <1>6. Contents'
    <2> SUFFICES ASSUME NEW k \in rTotal..w PROVE buf'[k % Size] = k
      <3>1. wTotal' + wCopied' - 1 = w /\ rTotal' = rTotal
        BY <1>1, <1>2 DEF CopyIn
      <3> QED BY <3>1 DEF Contents
    <2>1. CASE k = w
      BY <1>1, <1>3, <1>4, <2>1
    <2>2. CASE k # w
      <3>1. k \in rTotal..(w - 1)
        BY <1>1, <2>2
      <3> QED BY <1>1, <1>4, <1>5, <3>1
    <2> QED BY <2>1, <2>2
  <1>7. TypeOK'
    <2>1. buf' \in [0..(Size - 1) -> Int]
      BY <1>1, <1>4
    <2>2. wCopied' \in Nat
      BY <1>1
    <2> QED BY <2>1, <2>2 DEF IInv, TypeOK, CopyIn, consumer
  <1>8. ProducerClaim'
    BY <1>1 DEF IInv, RingInv, TypeOK, ProducerClaim, CopyIn
  <1> QED BY <1>6, <1>7, <1>8 DEF IInv, RingInv, Positions, Occupancy, ConsumerClaim,
          Fifo, CopyIn, consumer

LEMMA PublishWriteStep ==
    ASSUME IInv, PublishWrite PROVE IInv'
  <1>1. /\ wTotal \in Nat /\ rTotal \in Nat /\ wStep \in Nat /\ wBytes \in Nat /\ wDone \in Nat
        /\ wDone + wStep =< wBytes /\ wTotal + wStep =< rTotal + (Size - 1)
        /\ rTotal =< wTotal
        /\ wDone + wStep # wBytes => wStep =< Size \div 2
    BY DEF IInv, RingInv, TypeOK, ProducerClaim, Occupancy, PublishWrite
  <1> DEFINE left == wBytes - (wDone + wStep)
  <1>2. left \in Nat /\ (wDone + wStep) + left = wBytes
    BY <1>1
  <1>3. AtMost(wStep, left) \in Nat /\ AtMost(wStep, left) =< wStep /\ AtMost(wStep, left) =< left
    BY <1>1, <1>2, AtMostFacts
  <1>4. write_pos' = (wTotal + wStep) % PosMod /\ write_pos' \in 0..(PosMod - 1)
    BY <1>1, Advance DEF PublishWrite, IInv, RingInv, Positions
  <1>5. /\ wStep' = AtMost(wStep, left) /\ wDone' = wDone + wStep /\ wTotal' = wTotal + wStep
        /\ wCopied' = 0 /\ wCopied = wStep /\ wBytes' = wBytes
        /\ pcP' \in {"ready", "wait"} /\ (pcP' = "wait" => wDone + wStep # wBytes)
        /\ UNCHANGED <<read_pos, buf, abort, pcC, rBytes, rDone, rStep, rCopied, rTotal, received>>
    BY DEF PublishWrite, consumer
  <1> HIDE DEF left
  <1>6. TypeOK'
    BY <1>1, <1>3, <1>4, <1>5 DEF IInv, TypeOK
  <1>7. Positions' /\ Occupancy'
    BY <1>1, <1>4, <1>5 DEF IInv, RingInv, Positions, Occupancy
  <1>8. ProducerClaim'
    BY <1>1, <1>2, <1>3, <1>5, HalfFact DEF ProducerClaim
  <1>9. ConsumerClaim'
    BY <1>1, <1>5 DEF IInv, RingInv, TypeOK, ConsumerClaim
  <1>10. Contents'
    <2>1. wTotal' + wCopied' - 1 = wTotal + wCopied - 1
      BY <1>1, <1>5
    <2> QED BY <1>5, <2>1 DEF IInv, RingInv, Contents
  <1> QED BY <1>5, <1>6, <1>7, <1>8, <1>9, <1>10 DEF IInv, RingInv, Fifo

LEMMA ReadFullyStep ==
    ASSUME IInv, NEW n \in Calls, ring_buffer_read_fully(n) PROVE IInv'
  <1>1. n \in Nat /\ get_step_size(n) \in Nat /\ get_step_size(n) =< n
        /\ get_step_size(n) =< Size \div 2
    BY HalfFact, AtMostFacts, BytesAssumption DEF Calls, get_step_size
  <1>2. TypeOK'
    BY <1>1 DEF IInv, TypeOK, ring_buffer_read_fully, producer
  <1>3. ConsumerClaim' /\ rCopied' = rCopied
    BY <1>1 DEF IInv, RingInv, TypeOK, ConsumerClaim, ring_buffer_read_fully
  <1> QED BY <1>2, <1>3 DEF IInv, RingInv, Positions, Occupancy, ProducerClaim,
          Contents, Fifo, ring_buffer_read_fully, producer

LEMMA ReadStep ==
    ASSUME IInv, NEW n \in Calls, ring_buffer_read(n) PROVE IInv'
  <1>1. n \in Nat /\ wTotal - rTotal >= n
    BY Available, BytesAssumption
       DEF Calls, IInv, RingInv, ring_buffer_read, ring_buffer_can_read
  <1>2. TypeOK'
    BY <1>1 DEF IInv, TypeOK, ring_buffer_read, producer
  <1>3. rTotal + n =< wTotal
    BY <1>1 DEF IInv, TypeOK
  <1>4. ConsumerClaim' /\ rCopied' = rCopied
    BY <1>1, <1>3 DEF IInv, RingInv, TypeOK, ConsumerClaim, ring_buffer_read
  <1> QED BY <1>2, <1>4 DEF IInv, RingInv, Positions, Occupancy, ProducerClaim,
          Contents, Fifo, ring_buffer_read, producer

LEMMA WaitReadStep ==
    ASSUME IInv, ring_buffer_wait_read PROVE IInv'
  <1>1. rStep \in Nat /\ wTotal - rTotal >= rStep
    BY Available DEF IInv, RingInv, TypeOK, ring_buffer_wait_read, ring_buffer_can_read
  <1>2. TypeOK'
    BY DEF IInv, TypeOK, ring_buffer_wait_read, producer
  <1>3. rTotal + rStep =< wTotal
    BY <1>1 DEF IInv, TypeOK
  <1>4. ConsumerClaim' /\ rCopied' = rCopied
    BY <1>1, <1>3 DEF IInv, RingInv, TypeOK, ConsumerClaim, ring_buffer_wait_read
  <1> QED BY <1>2, <1>4 DEF IInv, RingInv, Positions, Occupancy, ProducerClaim,
          Contents, Fifo, ring_buffer_wait_read, producer

(* The byte the consumer's copy is about to load is the next of the stream. *)
LEMMA CopyOutByte ==
    ASSUME IInv, pcC = "copy", rCopied < rStep
    PROVE  buf[ByteAt(read_pos, rCopied)] = rTotal + rCopied
  <1>1. /\ wTotal \in Nat /\ rTotal \in Nat /\ rCopied \in Nat /\ rStep \in Nat
        /\ wCopied \in Nat
        /\ rTotal + rStep =< wTotal /\ wTotal =< rTotal + (Size - 1)
        /\ read_pos = rTotal % PosMod
    BY DEF IInv, TypeOK, RingInv, Positions, Occupancy, ConsumerClaim
  <1>2. rCopied \in 0..(Size - 1)
    BY <1>1, SizeFact
  <1>3. ByteAt(read_pos, rCopied) = (rTotal + rCopied) % Size
    BY <1>1, <1>2, ByteSlot
  <1>4. rTotal + rCopied \in rTotal..(wTotal + wCopied - 1)
    BY <1>1
  <1>5. buf[(rTotal + rCopied) % Size] = rTotal + rCopied
    BY <1>4 DEF IInv, RingInv, Contents
  <1> QED BY <1>3, <1>5

LEMMA CopyOutStep ==
    ASSUME IInv, CopyOut PROVE IInv'
  <1>1. /\ rTotal \in Nat /\ rCopied \in Nat /\ rStep \in Nat
        /\ rCopied < rStep /\ pcC = "copy" /\ rCopied' = rCopied + 1
        /\ rTotal' = rTotal
        /\ received \in Seq(Int) /\ Len(received) = rTotal + rCopied
        /\ \A k \in 1..Len(received) : received[k] = k - 1
    BY DEF IInv, RingInv, TypeOK, Fifo, CopyOut
  <1>2. PICK b \in Int : b = rTotal + rCopied
    BY <1>1
  <1>3. received' = Append(received, b)
    BY <1>1, <1>2, CopyOutByte DEF CopyOut
  <1>4. /\ received' \in Seq(Int) /\ Len(received') = Len(received) + 1
        /\ \A k \in 1..Len(received) : received'[k] = received[k]
        /\ received'[Len(received) + 1] = b
    BY <1>1, <1>3
  <1>5. Fifo'
    <2>1. Len(received') = rTotal' + rCopied'
      BY <1>1, <1>4
    <2>2. ASSUME NEW k \in 1..Len(received') PROVE received'[k] = k - 1
      <3>1. CASE k \in 1..Len(received)
        BY <1>1, <1>4, <3>1
      <3>2. CASE k = Len(received) + 1
        BY <1>1, <1>2, <1>4, <3>2
      <3> QED BY <1>1, <1>4, <3>1, <3>2
    <2> QED BY <2>1, <2>2 DEF Fifo
  <1>6. TypeOK'
    BY <1>1, <1>4 DEF IInv, TypeOK, CopyOut, producer
  <1>7. ConsumerClaim'
    BY <1>1 DEF IInv, RingInv, TypeOK, ConsumerClaim, CopyOut
  <1> QED BY <1>5, <1>6, <1>7 DEF IInv, RingInv, Positions, Occupancy, ProducerClaim,
          Contents, CopyOut, producer

LEMMA PublishReadStep ==
    ASSUME IInv, PublishRead PROVE IInv'
  <1>1. /\ wTotal \in Nat /\ rTotal \in Nat /\ rStep \in Nat /\ rBytes \in Nat /\ rDone \in Nat
        /\ wCopied \in Nat /\ wStep \in Nat
        /\ rDone + rStep =< rBytes /\ rTotal + rStep =< wTotal
        /\ wTotal =< rTotal + (Size - 1)
        /\ rDone + rStep # rBytes => rStep =< Size \div 2
    BY DEF IInv, RingInv, TypeOK, ConsumerClaim, Occupancy, PublishRead
  <1> DEFINE left == rBytes - (rDone + rStep)
  <1>2. left \in Nat /\ (rDone + rStep) + left = rBytes
    BY <1>1
  <1>3. AtMost(rStep, left) \in Nat /\ AtMost(rStep, left) =< rStep /\ AtMost(rStep, left) =< left
    BY <1>1, <1>2, AtMostFacts
  <1>4. read_pos' = (rTotal + rStep) % PosMod /\ read_pos' \in 0..(PosMod - 1)
    BY <1>1, Advance DEF PublishRead, IInv, RingInv, Positions
  <1>5. /\ rStep' = AtMost(rStep, left) /\ rDone' = rDone + rStep /\ rTotal' = rTotal + rStep
        /\ rCopied' = 0 /\ rCopied = rStep /\ rBytes' = rBytes
        /\ pcC' \in {"ready", "wait"} /\ (pcC' = "wait" => rDone + rStep # rBytes)
        /\ UNCHANGED <<write_pos, buf, abort, pcP, wBytes, wDone, wStep, wCopied, wTotal, received>>
    BY DEF PublishRead, producer
  <1> HIDE DEF left
  <1>6. TypeOK'
    BY <1>1, <1>3, <1>4, <1>5 DEF IInv, TypeOK
  <1>7. Positions' /\ Occupancy'
    BY <1>1, <1>4, <1>5, SizeFact DEF IInv, RingInv, Positions, Occupancy
  <1>8. ConsumerClaim'
    BY <1>1, <1>2, <1>3, <1>5, HalfFact DEF ConsumerClaim
  <1>9. ProducerClaim'
    BY <1>1, <1>5, SizeFact DEF IInv, RingInv, TypeOK, ProducerClaim
  <1>10. Contents'
    <2>1. \A k \in (rTotal + rStep)..(wTotal + wCopied - 1) : k \in rTotal..(wTotal + wCopied - 1)
      BY <1>1
    <2> QED BY <1>5, <2>1 DEF IInv, RingInv, Contents
  <1>11. Fifo'
    BY <1>1, <1>5 DEF IInv, RingInv, Fifo
  <1> QED BY <1>6, <1>7, <1>8, <1>9, <1>10, <1>11 DEF IInv, RingInv

LEMMA SetAbortStep ==
    ASSUME IInv, SetAbort PROVE IInv'
  <1>1. TypeOK'
    BY DEF IInv, TypeOK, SetAbort, producer, consumer
  <1> QED BY <1>1 DEF IInv, RingInv, Positions, Occupancy, ProducerClaim, ConsumerClaim,
          Contents, Fifo, SetAbort, producer, consumer

LEMMA StutterStep ==
    ASSUME IInv, UNCHANGED vars PROVE IInv'
  BY DEF IInv, TypeOK, RingInv, Positions, Occupancy, ProducerClaim, ConsumerClaim,
     Contents, Fifo, vars, producer, consumer

LEMMA InitInv ==
    ASSUME Init PROVE IInv
  <1>1. 0 \in 0..(PosMod - 1) /\ 0 % PosMod = 0
    <2>1. 0 = PosMod * 0 + 0 /\ 0 \in 0..(PosMod - 1)
      BY PosModFact
    <2> QED BY <2>1, PosModFact, ModUnique
  <1>2. buf \in [0..(Size - 1) -> Int]
    BY SizeFact DEF Init
  <1>3. received \in Seq(Int) /\ Len(received) = 0
    BY DEF Init
  <1>4. TypeOK
    BY <1>1, <1>2, <1>3 DEF Init, TypeOK
  <1>5. RingInv
    BY <1>1, <1>3, SizeFact DEF Init, RingInv, Positions, Occupancy, ProducerClaim,
       ConsumerClaim, Contents, Fifo
  <1> QED BY <1>4, <1>5 DEF IInv

LEMMA Inductive == Safety => []IInv
  <1>1. Init => IInv
    BY InitInv
  <1>2. IInv /\ [Next]_vars => IInv'
    <2> SUFFICES ASSUME IInv, [Next]_vars PROVE IInv'
      OBVIOUS
    <2>1. CASE \E n \in Calls : ring_buffer_write_fully(n) \/ ring_buffer_write(n)
      BY <2>1, WriteFullyStep, WriteStep
    <2>2. CASE \E n \in Calls : ring_buffer_read_fully(n) \/ ring_buffer_read(n)
      BY <2>2, ReadFullyStep, ReadStep
    <2>3. CASE ProducerStep
      BY <2>3, WaitWriteStep, CopyInStep, PublishWriteStep DEF ProducerStep
    <2>4. CASE ConsumerStep
      BY <2>4, WaitReadStep, CopyOutStep, PublishReadStep DEF ConsumerStep
    <2>5. CASE SetAbort
      BY <2>5, SetAbortStep
    <2>6. CASE UNCHANGED vars
      BY <2>6, StutterStep
    <2> QED BY <2>1, <2>2, <2>3, <2>4, <2>5, <2>6 DEF Next
  <1> QED BY <1>1, <1>2, PTL DEF Safety
-----------------------------------------------------------------------------
(* The theorems, for every even Size > 1, every wrap-around of the         *)
(* positions and every length of stream and of call.                       *)

(* The state keeps its types: in particular the two positions stay in the  *)
(* range of the wrapping uint32_t counters of struct ring_buffer.          *)
THEOREM RingTypeCorrect == Safety => []TypeOK
  BY Inductive, PTL DEF IInv

(* The inductive invariant that ties both positions, both copies in        *)
(* progress and the bytes in the buffer together.                          *)
THEOREM RingCorrect == Safety => []RingInv
  BY Inductive, PTL DEF IInv

(* ring_buffer_read* hands out the bytes given to ring_buffer_write*, each *)
(* once and in order.                                                      *)
THEOREM RingFifo == Safety => []Fifo
  <1>1. IInv => Fifo
    BY DEF IInv, RingInv
  <1> QED BY <1>1, Inductive, PTL

(* The memcpy of ring_buffer_write never stores to a byte that the memcpy  *)
(* of ring_buffer_read may load: no data race on the shared buffer.        *)
THEOREM RingNoRace == Safety => []NoRace
  <1>1. IInv => NoRace
    <2> SUFFICES ASSUME IInv, pcP = "copy", wCopied < wStep, NEW k \in rTotal..(wTotal - 1)
                 PROVE  k % Size # ByteAt(write_pos, wCopied)
      BY DEF NoRace
    <2>1. wTotal \in Nat /\ rTotal \in Nat /\ wCopied \in Nat
      BY DEF IInv, TypeOK
    <2>2. k \in rTotal..(wTotal + wCopied - 1)
      BY <2>1
    <2> QED BY <2>2, CopyInSlot
  <1> QED BY <1>1, Inductive, PTL

(* The check of ring_buffer_can_write always leaves a byte free. *)
THEOREM RingNeverOverfull == Safety => []NeverOverfull
  <1>1. IInv => NeverOverfull
    BY SizeFact DEF IInv, RingInv, TypeOK, Occupancy, NeverOverfull
  <1> QED BY <1>1, Inductive, PTL

(* Steps of get_step_size keep a blocked writer and a blocked reader from  *)
(* waiting for each other.                                                 *)
THEOREM RingNeverBothBlocked == Safety => []NeverBothBlocked
  <1>1. IInv => NeverBothBlocked
    <2> SUFFICES ASSUME IInv, pcP = "wait", pcC = "wait",
                        ~ring_buffer_can_write(wStep), ~ring_buffer_can_read(rStep)
                 PROVE  FALSE
      BY DEF NeverBothBlocked
    <2>1. /\ wTotal \in Nat /\ rTotal \in Nat /\ wStep \in Nat /\ rStep \in Nat
          /\ wStep =< Size \div 2 /\ rStep =< Size \div 2
      BY DEF IInv, RingInv, TypeOK, ProducerClaim, ConsumerClaim
    <2>2. /\ ~(Size - 1 - (wTotal - rTotal) >= wStep)
          /\ ~(wTotal - rTotal >= rStep)
      BY Available DEF IInv, RingInv, ring_buffer_can_write, ring_buffer_can_read
    <2> QED BY <2>1, <2>2, SizeFact, HalfFact, HalfAssumption
  <1> QED BY <1>1, Inductive, PTL

(* The k-th byte that ring_buffer_copy_contents takes out of a view. *)
LEMMA CopiedByte ==
    ASSUME IInv, NEW n \in 0..(wTotal - rTotal), NEW k \in 1..n
    PROVE  ring_buffer_copy_contents(TRUE, n)[k] = rTotal + (k - 1)
  <1>1. /\ wTotal \in Nat /\ rTotal \in Nat /\ wCopied \in Nat
        /\ wTotal =< rTotal + (Size - 1) /\ read_pos = rTotal % PosMod
    BY DEF IInv, RingInv, TypeOK, Positions, Occupancy
  <1>2. PICK i \in Nat : i = k - 1
    BY <1>1
  <1>3. n \in Nat /\ i < n /\ i \in 0..(Size - 1)
        /\ rTotal + i \in rTotal..(wTotal + wCopied - 1)
    BY <1>1, <1>2, SizeFact
  <1>4. PICK e \in Int : e = available_at_end(read_pos)
    <2>1. read_pos \in Int
      BY PosModFact DEF IInv, TypeOK
    <2>2. get_ring_pos(read_pos) \in 0..(Size - 1)
      BY <2>1, SizeFact, DivMod DEF get_ring_pos
    <2> QED BY <2>2, SizeFact DEF available_at_end
  <1>5. PICK at \in 0..(Size - 1) : at = ByteAt(read_pos, i) /\ at = (rTotal + i) % Size
    BY <1>1, <1>3, ByteSlot
  <1>6. at = IF n > e /\ i >= e
             THEN get_ring_pos(read_pos + e) + (i - e)
             ELSE get_ring_pos(read_pos) + i
    <2>1. n > e /\ i >= e <=> ~(i < e)
      BY <1>3, <1>4
    <2> QED BY <1>4, <1>5, <2>1 DEF ByteAt
  <1>7. at < Size
    BY SizeFact
  <1>8. buf[at] = rTotal + i
    BY <1>3, <1>5 DEF IInv, RingInv, Contents
  <1>9. ring_buffer_copy_contents(TRUE, n)[k] = buf[at]
    BY <1>2, <1>4, <1>6, <1>7 DEF ring_buffer_copy_contents, end_of_copy
  <1> QED BY <1>2, <1>8, <1>9

(* ring_buffer_copy_contents of a view copies out the next readable bytes, *)
(* in order, for every length up to what is available, on either side of   *)
(* the end of the buffer and whatever the producer is in the middle of.    *)
THEOREM RingCopyExact == Safety => []CopyViewExact
  <1>1. IInv => CopyViewExact
    <2> SUFFICES ASSUME IInv, NEW n \in 0..ring_buffer_available_read
                 PROVE  ring_buffer_copy_contents(TRUE, n) = Readable(n)
      BY DEF CopyViewExact
    <2>1. n \in 0..(wTotal - rTotal)
      BY Available DEF IInv, RingInv
    <2>2. \A k \in 1..n : ring_buffer_copy_contents(TRUE, n)[k] = Readable(n)[k]
      BY <2>1, CopiedByte DEF Readable
    <2>3. /\ ring_buffer_copy_contents(TRUE, n)
                = [k \in 1..n |-> ring_buffer_copy_contents(TRUE, n)[k]]
          /\ Readable(n) = [k \in 1..n |-> Readable(n)[k]]
      BY DEF ring_buffer_copy_contents, Readable
    <2> QED BY <2>2, <2>3
  <1> QED BY <1>1, Inductive, PTL
=============================================================================
