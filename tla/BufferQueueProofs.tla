-------------------------- MODULE BufferQueueProofs --------------------------
(***************************************************************************)
(* Proofs about the operators of BufferQueue: whatever the place of the    *)
(* oldest buffer in the ring, and also when the ring grows, the queue is a *)
(* sequence of buffers to which a push appends and from which a pop takes  *)
(* the first.                                                              *)
(***************************************************************************)
EXTENDS BufferQueue, DivisionLemmas, FiniteSetTheorems, SequenceTheorems, TLAPS

(* Sequences. *)

LEMMA FunctionIsSeq ==
    ASSUME NEW S, NEW n \in Nat, NEW f \in [1 .. n -> S]
    PROVE  f \in Seq(S) /\ Len(f) = n
  OBVIOUS

(* The wrap by comparison, in tryPushLocked and tryPopLocked, is the       *)
(* remainder that onSaveLocked and grow compute.                           *)
LEMMA WrapIsMod ==
    ASSUME NEW n \in Nat \ {0}, NEW a \in 0 .. 2 * n - 1
    PROVE  (IF a >= n THEN a - n ELSE a) = a % n
  <1>1. CASE a < n
    BY <1>1, ModSmall
  <1>2. CASE a >= n
    <2>1. a - n \in 0 .. (n - 1) /\ a = n * 1 + (a - n) /\ a \in Int
      BY <1>2
    <2>2. PICK k \in Int, r \in 0 .. (n - 1) : k = 1 /\ r = a - n
      BY <2>1
    <2>3. a = n * k + r
      BY <2>1, <2>2
    <2>4. a % n = r
      BY <2>1, <2>3, ModUnique
    <2> QED BY <1>2, <2>2, <2>4
  <1> QED BY <1>1, <1>2
-----------------------------------------------------------------------------
(* The type of a queue. *)

Queues(n) == [mBuffers : [0 .. n - 1 -> Seq(Nat)], mPos : 0 .. n - 1, mCount : 0 .. n,
              mClosed : BOOLEAN, mSnapshotMode : BOOLEAN]

LEMMA SizeIs ==
    ASSUME NEW q, NEW n \in Nat, DOMAIN q.mBuffers = 0 .. n - 1
    PROVE  Size(q) = n
  <1>1. Cardinality(0 .. n - 1) = IF 0 > n - 1 THEN 0 ELSE n - 1 - 0 + 1
    BY FS_Interval
  <1> QED BY <1>1 DEF Size

LEMMA QueueIs ==
    ASSUME NEW n \in Nat \ {0}, NEW q \in Queues(n)
    PROVE  QueueOK(q) /\ Size(q) = n
  <1>1. DOMAIN q.mBuffers = 0 .. n - 1
    BY DEF Queues
  <1>2. Size(q) = n
    BY <1>1, SizeIs
  <1>3. q.mBuffers \in [0 .. Size(q) - 1 -> Seq(Nat)]
    BY <1>2 DEF Queues
  <1>4. q \in [mBuffers : {q.mBuffers}, mPos : 0 .. Size(q) - 1, mCount : 0 .. Size(q),
               mClosed : BOOLEAN, mSnapshotMode : BOOLEAN]
    BY <1>2 DEF Queues
  <1> QED BY <1>2, <1>3, <1>4 DEF QueueOK

LEMMA QueueFacts ==
    ASSUME NEW q, QueueOK(q)
    PROVE  /\ Size(q) \in Nat \ {0} /\ q \in Queues(Size(q))
           /\ DOMAIN q.mBuffers = 0 .. Size(q) - 1
           /\ \A i \in 0 .. Size(q) - 1 : q.mBuffers[i] \in Seq(Nat)
           /\ q.mPos \in 0 .. Size(q) - 1 /\ q.mCount \in 0 .. Size(q)
           /\ q.mClosed \in BOOLEAN /\ q.mSnapshotMode \in BOOLEAN
  BY DEF QueueOK, Queues

LEMMA ContentsFacts ==
    ASSUME NEW q, QueueOK(q)
    PROVE  /\ Contents(q) \in Seq(Seq(Nat)) /\ Len(Contents(q)) = q.mCount
           /\ \A i \in 1 .. q.mCount : /\ (q.mPos + i - 1) % Size(q) \in 0 .. Size(q) - 1
                                       /\ Contents(q)[i] = q.mBuffers[(q.mPos + i - 1) % Size(q)]
                                       /\ Contents(q)[i] \in Seq(Nat)
  <1>1. /\ Size(q) \in Nat \ {0} /\ q.mPos \in Nat /\ q.mCount \in Nat
        /\ \A i \in 0 .. Size(q) - 1 : q.mBuffers[i] \in Seq(Nat)
    BY QueueFacts
  <1>2. ASSUME NEW i \in 1 .. q.mCount
        PROVE  (q.mPos + i - 1) % Size(q) \in 0 .. Size(q) - 1
    <2>1. q.mPos + i - 1 \in Int
      BY <1>1
    <2> QED BY <1>1, <2>1, DivMod
  <1>3. ASSUME NEW i \in 1 .. q.mCount
        PROVE  q.mBuffers[(q.mPos + i - 1) % Size(q)] \in Seq(Nat)
    BY <1>1, <1>2
  <1>4. Contents(q) \in [1 .. q.mCount -> Seq(Nat)]
    BY <1>3 DEF Contents
  <1>5. Contents(q) \in Seq(Seq(Nat)) /\ Len(Contents(q)) = q.mCount
    BY <1>1, <1>4, FunctionIsSeq
  <1> QED BY <1>2, <1>3, <1>5 DEF Contents

LEMMA NewQueueOK ==
    ASSUME NEW capacity \in Nat \ {0}
    PROVE  /\ QueueOK(NewQueue(capacity)) /\ Size(NewQueue(capacity)) = capacity
           /\ Contents(NewQueue(capacity)) = <<>>
  <1>1. NewQueue(capacity) \in Queues(capacity)
    BY DEF NewQueue, Queues
  <1>2. QueueOK(NewQueue(capacity)) /\ Size(NewQueue(capacity)) = capacity
    BY <1>1, QueueIs
  <1>3. Contents(NewQueue(capacity)) = <<>>
    <2>1. Len(Contents(NewQueue(capacity))) = 0 /\ Contents(NewQueue(capacity)) \in Seq(Seq(Nat))
      BY <1>2, ContentsFacts DEF NewQueue
    <2> QED BY <2>1
  <1> QED BY <1>2, <1>3

(* closeLocked leaves the buffers alone, ... *)
LEMMA CloseKeepsContents ==
    ASSUME NEW q, QueueOK(q)
    PROVE  /\ QueueOK(closed(q)) /\ Size(closed(q)) = Size(q) /\ Contents(closed(q)) = Contents(q)
           /\ closed(q).mClosed /\ closed(q).mCount = q.mCount
           /\ closed(q).mSnapshotMode = q.mSnapshotMode
  <1>1. Size(q) \in Nat \ {0} /\ q \in Queues(Size(q))
    BY QueueFacts
  <1>2. closed(q) \in Queues(Size(q))
    BY <1>1 DEF closed, Queues
  <1>3. QueueOK(closed(q)) /\ Size(closed(q)) = Size(q)
    BY <1>1, <1>2, QueueIs
  <1>4. closed(q).mBuffers = q.mBuffers /\ closed(q).mPos = q.mPos /\ closed(q).mCount = q.mCount
    BY <1>1 DEF closed, Queues
  <1>5. Contents(closed(q)) = Contents(q)
    BY <1>3, <1>4 DEF Contents
  <1>6. closed(q).mClosed
    BY <1>1 DEF closed, Queues
  <1>7. closed(q).mSnapshotMode = q.mSnapshotMode
    BY <1>1 DEF closed, Queues
  <1> QED BY <1>3, <1>4, <1>5, <1>6, <1>7

(* ... and so does setSnapshotModeLocked. *)
LEMMA ModeKeepsContents ==
    ASSUME NEW q, QueueOK(q), NEW on \in BOOLEAN
    PROVE  /\ QueueOK(setSnapshotMode(q, on)) /\ Size(setSnapshotMode(q, on)) = Size(q)
           /\ Contents(setSnapshotMode(q, on)) = Contents(q)
           /\ setSnapshotMode(q, on).mCount = q.mCount
           /\ setSnapshotMode(q, on).mClosed = q.mClosed
           /\ setSnapshotMode(q, on).mSnapshotMode = on
  <1> DEFINE r == setSnapshotMode(q, on)
  <1>1. Size(q) \in Nat \ {0} /\ q \in Queues(Size(q))
    BY QueueFacts
  <1>2. r \in Queues(Size(q))
    BY <1>1 DEF setSnapshotMode, Queues
  <1>3. QueueOK(r) /\ Size(r) = Size(q)
    BY <1>1, <1>2, QueueIs
  <1>4. r.mBuffers = q.mBuffers /\ r.mPos = q.mPos /\ r.mCount = q.mCount
    BY <1>1 DEF setSnapshotMode, Queues
  <1>5. Contents(r) = Contents(q)
    BY <1>3, <1>4 DEF Contents
  <1>6. r.mClosed = q.mClosed
    BY <1>1 DEF setSnapshotMode, Queues
  <1>7. r.mSnapshotMode = on
    BY <1>1 DEF setSnapshotMode, Queues
  <1> QED BY <1>3, <1>4, <1>5, <1>6, <1>7
-----------------------------------------------------------------------------
(* What the methods do to the contents. *)

(* grow doubles the ring and keeps what is in it, wherever it began. *)
LEMMA GrowKeepsContents ==
    ASSUME NEW q, QueueOK(q)
    PROVE  /\ QueueOK(grow(q)) /\ Size(grow(q)) = 2 * Size(q)
           /\ Contents(grow(q)) = Contents(q) /\ grow(q).mCount = q.mCount
           /\ grow(q).mClosed = q.mClosed /\ grow(q).mSnapshotMode = q.mSnapshotMode
  <1> DEFINE n == Size(q)
             r == grow(q)
             at(i) == (q.mPos + i) % n
             buffers == [i \in 0 .. 2 * n - 1 |->
                            IF i < q.mCount THEN q.mBuffers[at(i)] ELSE <<>>]
  <1>1. /\ n \in Nat \ {0} /\ 2 * n \in Nat \ {0} /\ q \in Queues(n)
        /\ q.mPos \in 0 .. n - 1 /\ q.mCount \in 0 .. n
        /\ \A i \in 0 .. n - 1 : q.mBuffers[i] \in Seq(Nat)
    BY QueueFacts
  <1>2. ASSUME NEW i \in 0 .. 2 * n - 1 PROVE at(i) \in 0 .. n - 1
    <2>1. q.mPos + i \in Int
      BY <1>1
    <2> QED BY <1>1, <2>1, DivMod
  <1>3. buffers \in [0 .. 2 * n - 1 -> Seq(Nat)]
    <2>1. ASSUME NEW i \in 0 .. 2 * n - 1
          PROVE  (IF i < q.mCount THEN q.mBuffers[at(i)] ELSE <<>>) \in Seq(Nat)
      <3>1. q.mBuffers[at(i)] \in Seq(Nat) /\ <<>> \in Seq(Nat)
        BY <1>1, <1>2
      <3> QED BY <3>1
    <2> QED BY <2>1
  <1>4. r = [q EXCEPT !.mBuffers = buffers, !.mPos = 0, !.mCount = q.mCount]
    BY <1>1 DEF grow, Queues
  <1> HIDE DEF buffers, r
  <1>5. 0 \in 0 .. 2 * n - 1 /\ q.mCount \in 0 .. 2 * n
    BY <1>1
  <1>6. /\ QueueOK(r) /\ Size(r) = 2 * n
        /\ r.mBuffers = buffers /\ r.mPos = 0 /\ r.mCount = q.mCount
        /\ r.mClosed = q.mClosed /\ r.mSnapshotMode = q.mSnapshotMode
    <2>1. PICK m \in Nat \ {0} : m = 2 * n
      BY <1>1
    <2>2. /\ buffers \in [0 .. m - 1 -> Seq(Nat)] /\ 0 \in 0 .. m - 1 /\ q.mCount \in 0 .. m
      BY <1>3, <1>5, <2>1
    <2>3. r = [q EXCEPT !.mBuffers = buffers, !.mPos = 0, !.mCount = q.mCount]
      BY <1>4
    <2> HIDE DEF n
    <2>4. r \in Queues(m)
      BY <1>1, <2>2, <2>3 DEF Queues
    <2>5. QueueOK(r) /\ Size(r) = m
      BY <2>4, QueueIs
    <2>6. r.mBuffers = buffers /\ r.mPos = 0 /\ r.mCount = q.mCount
      BY <1>1, <2>3 DEF Queues
    <2>7. r.mClosed = q.mClosed
      BY <1>1, <2>3 DEF Queues
    <2>8. r.mSnapshotMode = q.mSnapshotMode
      BY <1>1, <2>3 DEF Queues
    <2> QED BY <2>1, <2>5, <2>6, <2>7, <2>8
  <1>7. ASSUME NEW i \in 1 .. q.mCount PROVE Contents(r)[i] = Contents(q)[i]
    <2>1. Contents(r)[i] = r.mBuffers[(r.mPos + i - 1) % Size(r)]
      BY <1>6, ContentsFacts
    <2>2. PICK k \in 0 .. 2 * n - 1 : k = i - 1 /\ k < q.mCount
      BY <1>1
    <2>3. r.mPos + i - 1 = k /\ q.mPos + i - 1 = q.mPos + k
      BY <1>1, <1>6, <2>2
    <2>4. k % (2 * n) = k
      BY <1>1, ModSmall
    <2>5. Contents(r)[i] = buffers[k]
      BY <1>6, <2>1, <2>3, <2>4
    <2>6. buffers[k] = q.mBuffers[at(k)]
      BY <2>2 DEF buffers
    <2>7. Contents(q)[i] = q.mBuffers[at(k)]
      BY <2>3, ContentsFacts
    <2> QED BY <2>5, <2>6, <2>7
  <1>8. Contents(r) = Contents(q)
    <2>1. /\ Contents(r) \in Seq(Seq(Nat)) /\ Contents(q) \in Seq(Seq(Nat))
          /\ Len(Contents(r)) = q.mCount /\ Len(Contents(q)) = q.mCount
      BY <1>6, ContentsFacts
    <2> QED BY <1>7, <2>1, SeqEqual
  <1> QED BY <1>6, <1>8 DEF r

(* A push into a ring with room. *)
LEMMA PlainPush ==
    ASSUME NEW q, QueueOK(q), q.mCount < Size(q), NEW b \in Seq(Nat),
           NEW pos \in 0 .. Size(q) - 1, pos = (q.mPos + q.mCount) % Size(q),
           NEW r, r \in Queues(Size(q)), r.mPos = q.mPos, r.mCount = q.mCount + 1,
           r.mBuffers[pos] = b,
           \A i \in 0 .. Size(q) - 1 : i # pos => r.mBuffers[i] = q.mBuffers[i]
    PROVE  /\ QueueOK(r) /\ Size(r) = Size(q) /\ Contents(r) = Append(Contents(q), b)
  <1>1. /\ Size(q) \in Nat \ {0} /\ q.mPos \in 0 .. Size(q) - 1 /\ q.mCount \in 0 .. Size(q) - 1
        /\ q.mBuffers \in [0 .. Size(q) - 1 -> Seq(Nat)]
    BY QueueFacts DEF Queues
  <1>2. PICK n \in Nat \ {0}, c \in Nat, p \in Nat :
           n = Size(q) /\ c = q.mCount /\ p = q.mPos
    BY <1>1
  <1>3. p \in 0 .. n - 1 /\ c \in 0 .. n - 1 /\ q.mBuffers \in [0 .. n - 1 -> Seq(Nat)]
    BY <1>1, <1>2
  <1>4. pos = (p + c) % n /\ pos \in 0 .. n - 1
    BY <1>2
  <1>5. QueueOK(r) /\ Size(r) = n
    BY <1>2, QueueIs
  <1>6. r.mPos = p /\ r.mCount = c + 1
    BY <1>2
  <1>7. /\ Contents(r) \in Seq(Seq(Nat)) /\ Len(Contents(r)) = c + 1
        /\ \A i \in 1 .. (c + 1) : Contents(r)[i] = r.mBuffers[(p + i - 1) % n]
    BY <1>5, <1>6, ContentsFacts
  <1>8. /\ Contents(q) \in Seq(Seq(Nat)) /\ Len(Contents(q)) = c
         /\ \A i \in 1 .. c : Contents(q)[i] = q.mBuffers[(p + i - 1) % n]
    BY <1>2, ContentsFacts
  <1>9. ASSUME NEW i \in 1 .. c PROVE Contents(r)[i] = Contents(q)[i]
    <2>1. /\ p + i - 1 \in Int /\ p + c \in Int /\ p + i - 1 < p + c
          /\ p + c < p + i - 1 + n /\ i \in 1 .. (c + 1)
      BY <1>3
    <2>2. (p + i - 1) % n # pos /\ (p + i - 1) % n \in 0 .. n - 1
      BY <1>4, <2>1, ModDistinct, DivMod
    <2>3. r.mBuffers[(p + i - 1) % n] = q.mBuffers[(p + i - 1) % n]
      BY <1>2, <2>2
    <2> QED BY <1>7, <1>8, <2>1, <2>3
  <1>10. Contents(r)[c + 1] = b
    <2>1. c + 1 \in 1 .. (c + 1) /\ p + (c + 1) - 1 = p + c
      OBVIOUS
    <2>2. Contents(r)[c + 1] = r.mBuffers[pos]
      BY <1>4, <1>7, <2>1
    <2> QED BY <2>2
  <1>11. /\ Append(Contents(q), b) \in Seq(Seq(Nat)) /\ Len(Append(Contents(q), b)) = c + 1
         /\ \A i \in 1 .. c : Append(Contents(q), b)[i] = Contents(q)[i]
         /\ Append(Contents(q), b)[c + 1] = b
    BY <1>8, AppendProperties
  <1>12. ASSUME NEW i \in 1 .. (c + 1) PROVE Contents(r)[i] = Append(Contents(q), b)[i]
    <2>1. i \in 1 .. c \/ i = c + 1
      OBVIOUS
    <2> QED BY <1>9, <1>10, <1>11, <2>1
  <1>13. Contents(r) = Append(Contents(q), b)
    <2>1. /\ Contents(r) \in Seq(Seq(Nat)) /\ Append(Contents(q), b) \in Seq(Seq(Nat))
          /\ Len(Contents(r)) = Len(Append(Contents(q), b))
          /\ \A i \in 1 .. Len(Contents(r)) : Contents(r)[i] = Append(Contents(q), b)[i]
      BY <1>7, <1>11, <1>12
    <2> QED BY <2>1, SeqEqual
  <1> QED BY <1>2, <1>5, <1>13

(* tryPushLocked and pushLocked append the buffer, also to a full queue,   *)
(* which grows.                                                            *)
THEOREM PushAppends ==
    ASSUME NEW q, QueueOK(q), NEW b \in Seq(Nat)
    PROVE  LET r == tryPushed(q, b)
           IN  /\ QueueOK(r) /\ r.mCount = q.mCount + 1
               /\ Contents(r) = Append(Contents(q), b)
               /\ Size(r) = IF q.mCount >= Size(q) THEN 2 * Size(q) ELSE Size(q)
               /\ r.mClosed = q.mClosed /\ r.mSnapshotMode = q.mSnapshotMode
  <1> DEFINE g == IF q.mCount >= Size(q) THEN grow(q) ELSE q
             pos == IF g.mPos + g.mCount >= Size(g)
                    THEN g.mPos + g.mCount - Size(g) ELSE g.mPos + g.mCount
             r == tryPushed(q, b)
  <1>1. Size(q) \in Nat \ {0} /\ q.mCount \in 0 .. Size(q)
    BY QueueFacts
  <1>2. /\ QueueOK(g) /\ g.mCount < Size(g) /\ g.mCount = q.mCount
        /\ Size(g) = IF q.mCount >= Size(q) THEN 2 * Size(q) ELSE Size(q)
        /\ Contents(g) = Contents(q)
        /\ g.mClosed = q.mClosed /\ g.mSnapshotMode = q.mSnapshotMode
    <2>1. CASE q.mCount >= Size(q)
      BY <1>1, <2>1, GrowKeepsContents
    <2>2. CASE q.mCount < Size(q)
      BY <1>1, <2>2
    <2> QED BY <1>1, <2>1, <2>2
  <1>3. r = [g EXCEPT !.mBuffers[pos] = b, !.mCount = @ + 1]
    BY DEF tryPushed
  <1>4. pos = IF g.mPos + g.mCount >= Size(g)
              THEN g.mPos + g.mCount - Size(g) ELSE g.mPos + g.mCount
    OBVIOUS
  <1> HIDE DEF g, pos, r
  <1>5. PICK n \in Nat \ {0} : n = Size(g)
    BY <1>2, QueueFacts
  <1>6. g \in Queues(n) /\ g.mPos \in 0 .. n - 1 /\ g.mCount \in 0 .. n - 1
    BY <1>2, <1>5, QueueFacts
  <1>7. /\ pos = (g.mPos + g.mCount) % n /\ pos \in 0 .. n - 1
        /\ g.mCount + 1 \in 0 .. n
    <2>1. PICK p \in 0 .. n - 1, c \in 0 .. n - 1 : p = g.mPos /\ c = g.mCount
      BY <1>6
    <2>2. pos = IF p + c >= n THEN p + c - n ELSE p + c
      BY <1>4, <1>5, <2>1
    <2>3. PICK a \in 0 .. 2 * n - 1 : a = p + c
      OBVIOUS
    <2>4. (IF a >= n THEN a - n ELSE a) = a % n
      BY WrapIsMod
    <2>5. pos = a % n
      BY <2>2, <2>3, <2>4
    <2>6. a % n \in 0 .. n - 1
      BY <2>3, DivMod
    <2>7. c + 1 \in 0 .. n
      OBVIOUS
    <2> QED BY <2>1, <2>3, <2>5, <2>6, <2>7
  <1>8. g.mBuffers \in [0 .. n - 1 -> Seq(Nat)]
    BY <1>6 DEF Queues
  <1>9. [g.mBuffers EXCEPT ![pos] = b] \in [0 .. n - 1 -> Seq(Nat)]
    BY <1>7, <1>8
  <1>10. PICK f \in [0 .. n - 1 -> Seq(Nat)] : f = [g.mBuffers EXCEPT ![pos] = b]
    BY <1>9
  <1>11. PICK c \in 0 .. n : c = g.mCount + 1
    BY <1>7
  <1>12. r = [g EXCEPT !.mBuffers = f, !.mCount = c]
    BY <1>3, <1>6, <1>10, <1>11 DEF Queues
  <1>13. r \in Queues(n)
    BY <1>6, <1>12 DEF Queues
  <1>14. r.mPos = g.mPos /\ r.mCount = c /\ r.mBuffers = f
    BY <1>6, <1>12 DEF Queues
  <1>15. r.mClosed = g.mClosed
    BY <1>6, <1>12 DEF Queues
  <1>16. r.mSnapshotMode = g.mSnapshotMode
    BY <1>6, <1>12 DEF Queues
  <1>17. QueueOK(r) /\ Size(r) = Size(g) /\ Contents(r) = Append(Contents(g), b)
    <2>1. f[pos] = b /\ \A i \in 0 .. n - 1 : i # pos => f[i] = g.mBuffers[i]
      BY <1>7, <1>8, <1>10
    <2>2. pos \in 0 .. Size(g) - 1 /\ pos = (g.mPos + g.mCount) % Size(g)
      BY <1>5, <1>7
    <2>3. /\ r \in Queues(Size(g)) /\ r.mPos = g.mPos /\ r.mCount = g.mCount + 1
          /\ r.mBuffers[pos] = b
      BY <1>5, <1>11, <1>13, <1>14, <2>1
    <2>4. \A i \in 0 .. Size(g) - 1 : i # pos => r.mBuffers[i] = g.mBuffers[i]
      BY <1>5, <1>14, <2>1
    <2>5. QueueOK(g) /\ g.mCount < Size(g) /\ b \in Seq(Nat)
      BY <1>2
    <2> QED BY <2>2, <2>3, <2>4, <2>5, PlainPush, Zenon
  <1> QED BY <1>2, <1>11, <1>14, <1>15, <1>16, <1>17 DEF r

(* tryPopLocked and popLocked take the oldest buffer and keep the others   *)
(* in order.                                                               *)
THEOREM PopTakesOldest ==
    ASSUME NEW q, QueueOK(q), q.mCount > 0
    PROVE  LET r == tryPopped(q)
           IN  /\ QueueOK(r) /\ r.mCount = q.mCount - 1 /\ Size(r) = Size(q)
               /\ Contents(r) = Tail(Contents(q)) /\ Oldest(q) = Contents(q)[1]
               /\ r.mClosed = q.mClosed /\ r.mSnapshotMode = q.mSnapshotMode
  <1> DEFINE n == Size(q)
             r == tryPopped(q)
             p == IF q.mPos + 1 >= n THEN q.mPos + 1 - n ELSE q.mPos + 1
             c == q.mCount
  <1>1. /\ n \in Nat \ {0} /\ q \in Queues(n) /\ q.mPos \in 0 .. n - 1 /\ c \in 1 .. n
        /\ q.mBuffers \in [0 .. n - 1 -> Seq(Nat)]
    BY QueueFacts DEF Queues
  <1>2. p \in 0 .. n - 1
    BY <1>1
  <1>3. p = (q.mPos + 1) % n
    <2>1. PICK a \in 0 .. 2 * n - 1 : a = q.mPos + 1
      BY <1>1
    <2>2. (IF a >= n THEN a - n ELSE a) = a % n
      BY <1>1, WrapIsMod
    <2> QED BY <1>1, <2>1, <2>2
  <1>4. PICK buffers \in [0 .. n - 1 -> Seq(Nat)] : buffers = [q.mBuffers EXCEPT ![q.mPos] = <<>>]
    <2>1. <<>> \in Seq(Nat)
      OBVIOUS
    <2> QED BY <1>1, <2>1
  <1>5. r = [q EXCEPT !.mBuffers = buffers, !.mPos = p, !.mCount = c - 1]
    BY <1>1, <1>4 DEF Queues, tryPopped
  <1> HIDE DEF r, p
  <1>6. c - 1 \in 0 .. n
    BY <1>1
  <1>7. /\ QueueOK(r) /\ Size(r) = n
        /\ r.mBuffers = buffers /\ r.mPos = p /\ r.mCount = c - 1
        /\ r.mClosed = q.mClosed /\ r.mSnapshotMode = q.mSnapshotMode
    <2>1. PICK count \in 0 .. n : count = c - 1
      BY <1>6
    <2>3. r = [q EXCEPT !.mBuffers = buffers, !.mPos = p, !.mCount = count]
      BY <1>5, <2>1
    <2> HIDE DEF n
    <2>4. r \in Queues(n)
      BY <1>1, <1>2, <2>3 DEF Queues
    <2>5. QueueOK(r) /\ Size(r) = n
      BY <1>1, <2>4, QueueIs
    <2>6. r.mBuffers = buffers /\ r.mPos = p /\ r.mCount = count
      BY <1>1, <2>3 DEF Queues
    <2>7. r.mClosed = q.mClosed
      BY <1>1, <2>3 DEF Queues
    <2>8. r.mSnapshotMode = q.mSnapshotMode
      BY <1>1, <2>3 DEF Queues
    <2> QED BY <2>1, <2>5, <2>6, <2>7, <2>8
  <1>8. /\ Contents(r) \in Seq(Seq(Nat)) /\ Len(Contents(r)) = c - 1
        /\ \A i \in 1 .. c - 1 : Contents(r)[i] = r.mBuffers[(p + i - 1) % n]
    BY <1>7, ContentsFacts
  <1>9. /\ Contents(q) \in Seq(Seq(Nat)) /\ Len(Contents(q)) = c
         /\ \A i \in 1 .. c : Contents(q)[i] = q.mBuffers[(q.mPos + i - 1) % n]
    BY ContentsFacts
  <1>10. ASSUME NEW i \in 1 .. c - 1 PROVE Contents(r)[i] = Contents(q)[i + 1]
    <2>1. /\ q.mPos + i \in Int /\ q.mPos \in Int /\ q.mPos < q.mPos + i
          /\ q.mPos + i < q.mPos + n /\ i + 1 \in 1 .. c /\ q.mPos + (i + 1) - 1 = q.mPos + i
      BY <1>1
    <2>2. (q.mPos + i) % n # q.mPos % n /\ (q.mPos + i) % n \in 0 .. n - 1
      BY <1>1, <2>1, ModDistinct, DivMod
    <2>3. q.mPos % n = q.mPos
      BY <1>1, ModSmall
    <2>4. (p + i - 1) % n = (q.mPos + i) % n
      <3>1. q.mPos + 1 \in Int /\ i - 1 \in Int /\ (q.mPos + 1) + (i - 1) = q.mPos + i
        BY <1>1
      <3>2. (((q.mPos + 1) % n) + (i - 1)) % n = ((q.mPos + 1) + (i - 1)) % n
        BY <1>1, <3>1, ModInner
      <3>3. p + i - 1 = p + (i - 1)
        BY <1>1, <1>2
      <3> QED BY <1>3, <3>1, <3>2, <3>3
    <2>5. Contents(r)[i] = r.mBuffers[(q.mPos + i) % n]
      BY <1>8, <2>4
    <2>6. r.mBuffers[(q.mPos + i) % n] = q.mBuffers[(q.mPos + i) % n]
      BY <1>1, <1>4, <1>7, <2>2, <2>3
    <2>7. Contents(q)[i + 1] = q.mBuffers[(q.mPos + i) % n]
      BY <1>9, <2>1
    <2> QED BY <2>5, <2>6, <2>7
  <1>11. Contents(r) = Tail(Contents(q))
    <2>1. Contents(q) # <<>>
      BY <1>1, <1>9
    <2>2. /\ Tail(Contents(q)) \in Seq(Seq(Nat)) /\ Len(Tail(Contents(q))) = c - 1
          /\ \A i \in 1 .. c - 1 : Tail(Contents(q))[i] = Contents(q)[i + 1]
      BY <1>9, <2>1, HeadTailProperties
    <2> QED BY <1>8, <1>10, <2>2, SeqEqual
  <1>12. Oldest(q) = Contents(q)[1]
    <2>1. 1 \in 1 .. c /\ q.mPos + 1 - 1 = q.mPos
      BY <1>1
    <2>2. q.mPos % n = q.mPos
      BY <1>1, ModSmall
    <2> QED BY <1>9, <2>1, <2>2 DEF Oldest
  <1> QED BY <1>7, <1>11, <1>12 DEF r
=============================================================================
