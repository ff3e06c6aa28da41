------------------------ MODULE MessageChannelProofs ------------------------
(***************************************************************************)
(* For any number of threads, any capacity and any use, MessageChannel     *)
(* keeps its types, implements MessageQueue, and loses no wakeup but to a  *)
(* thread of the wrong kind.                                               *)
(***************************************************************************)
EXTENDS MessageChannel, FiniteSetTheorems, SequenceTheorems, TLAPS

LEMMA CapacityNat == Capacity \in Nat /\ Capacity > 0
BY ChannelAssumption

\* afterWrite and afterRead wake threads, and nothing but threads.
LEMMA SignalledType ==
    ASSUME NEW cv, cv \subseteq Threads, NEW s \in Signalled(cv)
    PROVE  s[1] \subseteq cv /\ s[2] \subseteq cv
BY DEF Signalled

LEMMA WriteType ==
    ASSUME TypeOK, NEW t \in Threads, NEW b \in BOOLEAN, b => mCount < Capacity,
           Write(t, b)
    PROVE  /\ usage' \in Usages /\ mPos' \in 0 .. Capacity - 1
           /\ mCount' \in 0 .. Capacity
           /\ mItems' \in [0 .. Capacity - 1 -> Nat]
           /\ mStopped' \in BOOLEAN
           /\ canRead' \subseteq Threads /\ canWrite' \subseteq Threads
           /\ woken' \subseteq Threads
           /\ sent' \in Nat /\ received' \in Seq(Nat)
           /\ strayed' \subseteq canRead' \cup canWrite'
<1>1. PICK s \in Signalled(canRead) : canRead' = s[1] /\ woken' = (woken \ {t}) \cup s[2]
  BY DEF Write, afterWrite
<1>2. canRead' \subseteq Threads /\ woken' \subseteq Threads
  BY <1>1, SignalledType DEF TypeOK
<1>3. mCount' \in 0 .. Capacity
  BY CapacityNat DEF TypeOK, Write, afterWrite
<1>4. mItems' \in [0 .. Capacity - 1 -> Nat] /\ sent' \in Nat
  BY DEF TypeOK, Write
<1>5. strayed' \subseteq canRead' \cup canWrite'
  BY DEF Write, afterWrite, Stray
<1> QED
  BY <1>2, <1>3, <1>4, <1>5 DEF TypeOK, Write, afterWrite

LEMMA ReadType ==
    ASSUME TypeOK, NEW t \in Threads, NEW b \in BOOLEAN, b => mCount > 0,
           Read(t, b)
    PROVE  /\ usage' \in Usages /\ mPos' \in 0 .. Capacity - 1
           /\ mCount' \in 0 .. Capacity
           /\ mItems' \in [0 .. Capacity - 1 -> Nat]
           /\ mStopped' \in BOOLEAN
           /\ canRead' \subseteq Threads /\ canWrite' \subseteq Threads
           /\ woken' \subseteq Threads
           /\ sent' \in Nat /\ received' \in Seq(Nat)
           /\ strayed' \subseteq canRead' \cup canWrite'
<1>1. PICK s \in Signalled(canWrite) : canWrite' = s[1] /\ woken' = (woken \ {t}) \cup s[2]
  BY DEF Read, afterRead
<1>2. canWrite' \subseteq Threads /\ woken' \subseteq Threads
  BY <1>1, SignalledType DEF TypeOK
<1>3. mCount' \in 0 .. Capacity
  BY CapacityNat DEF TypeOK, Read, afterRead
<1>4. mPos' \in 0 .. Capacity - 1
  BY CapacityNat DEF TypeOK, Read, afterRead
<1>5. received' \in Seq(Nat)
  <2>1. mItems[mPos] \in Nat
    BY DEF TypeOK
  <2> QED BY <2>1 DEF TypeOK, Read
<1>6. strayed' \subseteq canRead' \cup canWrite'
  BY DEF Read, afterRead, Stray
<1> QED
  BY <1>2, <1>3, <1>4, <1>5, <1>6 DEF TypeOK, Read, afterRead

LEMMA InitType == Init => TypeOK
<1> SUFFICES ASSUME Init PROVE TypeOK
  OBVIOUS
<1>1. mItems \in [0 .. Capacity - 1 -> Nat]
  BY DEF Init
<1>2. call \in [Threads -> Blocking \cup {"none"}]
  BY DEF Init
<1>3. received \in Seq(Nat) /\ sent \in Nat
  BY DEF Init
<1>4. mPos \in 0 .. Capacity - 1 /\ mCount \in 0 .. Capacity
  BY CapacityNat DEF Init
<1> QED
  BY <1>1, <1>2, <1>3, <1>4, Zenon DEF Init, TypeOK

LEMMA NextType == TypeOK /\ [Next]_vars => TypeOK'
<1> SUFFICES ASSUME TypeOK, [Next]_vars PROVE TypeOK'
  OBVIOUS
<1>1. ASSUME NEW t \in Threads, NEW c \in Blocking, Begin(t, c) PROVE TypeOK'
  BY <1>1 DEF TypeOK, Begin, channel
<1>2. ASSUME NEW t \in Threads, send(t) PROVE TypeOK'
  <2>1. CASE WaitCanWrite(t)
    BY <2>1 DEF TypeOK, WaitCanWrite, channel
  <2>2. CASE ~WriteBlocked(t) /\ Write(t, ~mStopped) /\ Return(t)
    <3>1. ~mStopped => mCount < Capacity
      BY <2>2, CapacityNat DEF WriteBlocked, TypeOK
    <3> QED BY <2>2, <3>1, WriteType DEF TypeOK, Return
  <2> QED BY <1>2, <2>1, <2>2 DEF send
<1>3. ASSUME NEW t \in Threads, trySend(t) PROVE TypeOK'
  BY <1>3, WriteType DEF TypeOK, trySend
<1>4. ASSUME NEW t \in Threads, ~ReadBlocked, Read(t, ~mStopped), Return(t) PROVE TypeOK'
  <2>1. ~mStopped => mCount > 0
    BY <1>4 DEF ReadBlocked, TypeOK
  <2> QED BY <1>4, <2>1, ReadType DEF TypeOK, Return
<1>5. ASSUME NEW t \in Threads, WaitCanRead(t) PROVE TypeOK'
  BY <1>5 DEF TypeOK, WaitCanRead, channel
<1>6. ASSUME NEW t \in Threads, receive(t) \/ timedReceive(t) PROVE TypeOK'
  BY <1>4, <1>5, <1>6 DEF receive, timedReceive
<1>7. ASSUME NEW t \in Threads, tryReceive(t) PROVE TypeOK'
  BY <1>7, ReadType DEF TypeOK, tryReceive
<1>8. ASSUME NEW t \in Threads, timedReceive_timeout(t) PROVE TypeOK'
  <2>1. PICK s \in Signalled(canWrite) : canWrite' = s[1] /\ woken' = (woken \ {t}) \cup s[2]
    BY <1>8 DEF timedReceive_timeout
  <2>2. canWrite' \subseteq Threads /\ woken' \subseteq Threads
    BY <2>1, SignalledType DEF TypeOK
  <2> QED BY <1>8, <2>2 DEF TypeOK, timedReceive_timeout, Return, channel, Stray
<1>9. ASSUME NEW t \in Threads, waitForEmpty(t) PROVE TypeOK'
  <2>1. CASE WaitCanWrite(t)
    BY <2>1 DEF TypeOK, WaitCanWrite, channel
  <2>2. CASE ~WaitCanWrite(t)
    BY <1>9, <2>2 DEF TypeOK, waitForEmpty, Return, channel
  <2> QED BY <2>1, <2>2
<1>10. ASSUME NEW t \in Threads, SpuriousWakeup(t) PROVE TypeOK'
  BY <1>10 DEF TypeOK, SpuriousWakeup, channel, Stray
<1>11. ASSUME stop PROVE TypeOK'
  BY <1>11, CapacityNat DEF TypeOK, stop
<1>12. CASE UNCHANGED vars
  BY <1>12 DEF TypeOK, vars
<1> QED
  BY <1>1, <1>2, <1>3, <1>6, <1>7, <1>8, <1>9, <1>10, <1>11, <1>12 DEF Next, Step

\* The channel keeps its types: the position and the count stay within the ring
\* whatever the order of sends, receptions, timeouts and stop.
THEOREM TypeCorrect == Safety => []TypeOK
BY InitType, NextType, PTL DEF Safety
-----------------------------------------------------------------------------
(* The refinement *)

LEMMA TailIs ==
    ASSUME NEW s \in Seq(Nat), Len(s) > 0
    PROVE  Tail(s) = [i \in 1 .. (Len(s) - 1) |-> s[i + 1]]
<1> DEFINE n == Len(s) - 1
<1>1. /\ Tail(s) \in Seq(Nat) /\ Len(Tail(s)) = n
      /\ \A i \in 1 .. Len(Tail(s)) : Tail(s)[i] = s[i + 1]
  BY HeadTailProperties
<1>2. ASSUME NEW q \in Seq(Nat) PROVE q = [i \in 1 .. Len(q) |-> q[i]]
  OBVIOUS
<1>3. Tail(s) = [i \in 1 .. Len(Tail(s)) |-> Tail(s)[i]]
  BY <1>1, <1>2, Zenon
<1> QED
  BY <1>1, <1>3, Zenon

LEMMA ContentsType == TypeOK => Contents \in Seq(Nat) /\ Len(Contents) = mCount
<1> SUFFICES ASSUME TypeOK PROVE Contents \in Seq(Nat) /\ Len(Contents) = mCount
  OBVIOUS
<1>1. mCount \in Nat
  BY CapacityNat DEF TypeOK
<1>2. ASSUME NEW i \in 1 .. mCount PROVE mItems[SlotOf(i)] \in Nat
  <2>1. SlotOf(i) \in 0 .. Capacity - 1
    BY CapacityNat DEF SlotOf, TypeOK
  <2> QED BY <2>1 DEF TypeOK
<1>3. Contents \in [1 .. mCount -> Nat]
  BY <1>2 DEF Contents
<1> QED
  BY <1>1, <1>3

\* A write appends: the slot is none of those in use, and the one after them.
LEMMA WriteAppends ==
    ASSUME TypeOK, mCount < Capacity, mPos' = mPos, mCount' = mCount + 1,
           mItems' = [mItems EXCEPT ![WritePos] = sent + 1]
    PROVE  Contents' = Append(Contents, sent + 1)
<1>0. mCount \in Nat /\ mPos \in Nat /\ mPos < Capacity /\ Capacity \in Nat
  BY CapacityNat DEF TypeOK
<1>1. WritePos \in 0 .. Capacity - 1 /\ WritePos = SlotOf(mCount + 1)
  BY <1>0 DEF WritePos, SlotOf
<1>2. ASSUME NEW i \in 1 .. mCount PROVE SlotOf(i)' = SlotOf(i) /\ SlotOf(i) # WritePos
  BY <1>0 DEF SlotOf, WritePos
<1>3. ASSUME NEW i \in 1 .. mCount PROVE mItems'[SlotOf(i)'] = mItems[SlotOf(i)]
  <2>1. SlotOf(i) \in 0 .. Capacity - 1
    BY <1>0 DEF SlotOf
  <2> QED BY <1>1, <1>2, <2>1 DEF TypeOK
<1>4. ASSUME NEW i \in Nat, i = mCount + 1 PROVE mItems'[SlotOf(i)'] = sent + 1
  <2>1. SlotOf(i)' = SlotOf(i)
    BY <1>0 DEF SlotOf
  <2> QED BY <1>1, <1>4, <2>1 DEF TypeOK
<1>5. /\ Contents' = [i \in 1 .. (mCount + 1) |-> mItems'[SlotOf(i)']]
      /\ Contents = [i \in 1 .. mCount |-> mItems[SlotOf(i)]]
  BY DEF Contents
<1>6. Append(Contents, sent + 1) = [i \in 1 .. (mCount + 1) |->
            IF i = mCount + 1 THEN sent + 1 ELSE mItems[SlotOf(i)]]
  <2>1. Contents \in Seq(Nat) /\ Len(Contents) = mCount /\ sent + 1 \in Nat
    BY ContentsType DEF TypeOK
  <2>2. Append(Contents, sent + 1) = [i \in 1 .. (mCount + 1) |->
            IF i = mCount + 1 THEN sent + 1 ELSE Contents[i]]
    BY <2>1, <1>0
  <2>3. ASSUME NEW i \in 1 .. (mCount + 1), i # mCount + 1
        PROVE  Contents[i] = mItems[SlotOf(i)]
    BY <1>0, <1>5, <2>3
  <2> QED BY <2>2, <2>3
<1>7. ASSUME NEW i \in 1 .. (mCount + 1)
      PROVE  mItems'[SlotOf(i)'] =
                IF i = mCount + 1 THEN sent + 1 ELSE mItems[SlotOf(i)]
  <2>1. CASE i = mCount + 1
    BY <1>0, <1>4, <2>1
  <2>2. CASE i # mCount + 1
    BY <1>0, <1>3, <2>2
  <2> QED BY <2>1, <2>2
<1> QED
  BY <1>5, <1>6, <1>7

\* A read takes the first message and keeps the others.
LEMMA ReadTakes ==
    ASSUME TypeOK, mCount > 0, mCount' = mCount - 1, mItems' = mItems,
           mPos' = IF mPos + 1 = Capacity THEN 0 ELSE mPos + 1
    PROVE  Contents' = Tail(Contents) /\ Head(Contents) = mItems[mPos]
<1>0. mCount \in Nat /\ mPos \in Nat /\ mPos < Capacity /\ Capacity \in Nat
      /\ mCount <= Capacity
  BY CapacityNat DEF TypeOK
<1>1. ASSUME NEW i \in 1 .. (mCount - 1) PROVE SlotOf(i)' = SlotOf(i + 1)
  BY <1>0 DEF SlotOf
<1>2. Contents \in Seq(Nat) /\ Len(Contents) = mCount
  BY ContentsType
<1>3. Tail(Contents) = [i \in 1 .. (mCount - 1) |-> Contents[i + 1]]
  BY <1>2, TailIs
<1>4. Contents' = [i \in 1 .. (mCount - 1) |-> mItems[SlotOf(i)']]
  BY DEF Contents
<1>5. ASSUME NEW i \in 1 .. (mCount - 1) PROVE Contents[i + 1] = mItems[SlotOf(i)']
  <2>1. i + 1 \in 1 .. mCount
    BY <1>0
  <2> QED BY <1>1, <2>1 DEF Contents
<1>6. Head(Contents) = mItems[mPos]
  <2>1. SlotOf(1) = mPos
    BY <1>0 DEF SlotOf
  <2>2. Contents[1] = mItems[SlotOf(1)]
    BY <1>0 DEF Contents
  <2> QED BY <1>2, <2>1, <2>2
<1> QED
  BY <1>3, <1>4, <1>5, <1>6

LEMMA NothingChanges ==
    ASSUME mPos' = mPos, mCount' = mCount, mItems' = mItems
    PROVE  Contents' = Contents
BY DEF Contents, SlotOf

LEMMA WriteRefines ==
    ASSUME TypeOK, NEW t \in Threads, NEW b \in BOOLEAN,
           b => mCount < Capacity /\ ~mStopped, Write(t, b)
    PROVE  Queue!Put \/ UNCHANGED Queue!vars
<1>1. CASE b
  <2>1. /\ mPos' = mPos /\ mCount' = mCount + 1 /\ mStopped' = mStopped
        /\ mItems' = [mItems EXCEPT ![WritePos] = sent + 1]
        /\ sent' = sent + 1 /\ received' = received
    BY <1>1 DEF Write, afterWrite
  <2>2. Contents' = Append(Contents, sent + 1)
    BY <1>1, <2>1, WriteAppends
  <2>3. Len(Contents) < Capacity /\ ~mStopped
    BY <1>1, ContentsType
  <2> QED BY <2>1, <2>2, <2>3 DEF Queue!Put
<1>2. CASE ~b
  <2>1. /\ mPos' = mPos /\ mCount' = mCount /\ mItems' = mItems
        /\ mStopped' = mStopped /\ sent' = sent /\ received' = received
    BY <1>2 DEF Write, afterWrite
  <2>2. Contents' = Contents
    BY <2>1, NothingChanges
  <2> QED BY <2>1, <2>2 DEF Queue!vars
<1> QED BY <1>1, <1>2

LEMMA ReadRefines ==
    ASSUME TypeOK, NEW t \in Threads, NEW b \in BOOLEAN,
           b => mCount > 0 /\ ~mStopped, Read(t, b)
    PROVE  Queue!Take \/ UNCHANGED Queue!vars
<1>1. CASE b
  <2>1. /\ mPos' = (IF mPos + 1 = Capacity THEN 0 ELSE mPos + 1)
        /\ mCount' = mCount - 1 /\ mItems' = mItems
        /\ mStopped' = mStopped /\ sent' = sent
        /\ received' = Append(received, mItems[mPos])
    BY <1>1 DEF Read, afterRead
  <2>2. Contents' = Tail(Contents) /\ Head(Contents) = mItems[mPos]
    BY <1>1, <2>1, ReadTakes
  <2>3. Contents # <<>> /\ ~mStopped
    BY <1>1, ContentsType
  <2> QED BY <2>1, <2>2, <2>3 DEF Queue!Take
<1>2. CASE ~b
  <2>1. /\ mPos' = mPos /\ mCount' = mCount /\ mItems' = mItems
        /\ mStopped' = mStopped /\ sent' = sent /\ received' = received
    BY <1>2 DEF Read, afterRead
  <2>2. Contents' = Contents
    BY <2>1, NothingChanges
  <2> QED BY <2>1, <2>2 DEF Queue!vars
<1> QED BY <1>1, <1>2

LEMMA StopRefines == TypeOK /\ stop => Queue!Stop
<1> SUFFICES ASSUME TypeOK, stop PROVE Queue!Stop
  OBVIOUS
<1>1. mCount' = 0 /\ mStopped' = TRUE /\ sent' = sent /\ received' = received
  BY DEF stop
<1>2. Contents' = [i \in 1 .. 0 |-> mItems'[SlotOf(i)']]
  BY <1>1 DEF Contents
<1>3. Contents' = <<>>
  BY <1>2
<1> QED
  BY <1>1, <1>3 DEF Queue!Stop

\* What leaves the ring and the history alone is a stutter of the queue.
LEMMA WaitingStutters ==
    ASSUME UNCHANGED <<channel, sent, received>>
    PROVE  UNCHANGED Queue!vars
<1>1. Contents' = Contents
  BY NothingChanges DEF channel
<1> QED
  BY <1>1 DEF Queue!vars, channel

LEMMA NextRefines == TypeOK /\ [Next]_vars => [Queue!Next]_(Queue!vars)
<1> SUFFICES ASSUME TypeOK, [Next]_vars PROVE Queue!Next \/ UNCHANGED Queue!vars
  OBVIOUS
<1>1. ASSUME NEW t \in Threads, send(t) \/ trySend(t)
      PROVE  Queue!Next \/ UNCHANGED Queue!vars
  <2>1. CASE WaitCanWrite(t)
    BY <2>1, WaitingStutters DEF WaitCanWrite
  <2>2. CASE ~WaitCanWrite(t)
    <3>1. CASE send(t)
      <4>1. Write(t, ~mStopped) /\ ~WriteBlocked(t)
        BY <2>2, <3>1 DEF send
      <4>2. ~mStopped => mCount < Capacity /\ ~mStopped
        BY <4>1, CapacityNat DEF WriteBlocked, TypeOK
      <4>3. (~mStopped) \in BOOLEAN
        OBVIOUS
      <4> QED BY <4>1, <4>2, <4>3, WriteRefines, Zenon DEF Queue!Next
    <3>2. CASE trySend(t)
      <4>1. Write(t, mCount < Capacity /\ ~mStopped)
        BY <3>2 DEF trySend
      <4>2. (mCount < Capacity /\ ~mStopped) \in BOOLEAN
        OBVIOUS
      <4> QED BY <4>1, <4>2, WriteRefines, Zenon DEF Queue!Next
    <3> QED BY <1>1, <3>1, <3>2
  <2> QED BY <2>1, <2>2
<1>2. ASSUME NEW t \in Threads, receive(t) \/ timedReceive(t) \/ tryReceive(t)
      PROVE  Queue!Next \/ UNCHANGED Queue!vars
  <2>1. CASE WaitCanRead(t)
    BY <2>1, WaitingStutters DEF WaitCanRead
  <2>2. CASE ~WaitCanRead(t)
    <3>1. CASE receive(t) \/ timedReceive(t)
      <4>1. Read(t, ~mStopped) /\ ~ReadBlocked
        BY <2>2, <3>1 DEF receive, timedReceive
      <4>2. ~mStopped => mCount > 0 /\ ~mStopped
        BY <4>1 DEF ReadBlocked, TypeOK
      <4>3. (~mStopped) \in BOOLEAN
        OBVIOUS
      <4> QED BY <4>1, <4>2, <4>3, ReadRefines, Zenon DEF Queue!Next
    <3>2. CASE tryReceive(t)
      <4>1. Read(t, mCount > 0 /\ ~mStopped)
        BY <3>2 DEF tryReceive
      <4>2. (mCount > 0 /\ ~mStopped) \in BOOLEAN
        OBVIOUS
      <4> QED BY <4>1, <4>2, ReadRefines, Zenon DEF Queue!Next
    <3> QED BY <1>2, <3>1, <3>2
  <2> QED BY <2>1, <2>2
<1>3. ASSUME NEW t \in Threads, waitForEmpty(t) \/ timedReceive_timeout(t) \/ SpuriousWakeup(t)
      PROVE  UNCHANGED Queue!vars
  BY <1>3, WaitingStutters DEF waitForEmpty, timedReceive_timeout, SpuriousWakeup,
     WaitCanWrite
<1>4. ASSUME NEW t \in Threads, NEW c \in Blocking, Begin(t, c) PROVE UNCHANGED Queue!vars
  BY <1>4, WaitingStutters DEF Begin
<1>5. CASE stop
  BY <1>5, StopRefines DEF Queue!Next
<1>6. CASE UNCHANGED vars
  BY <1>6, WaitingStutters DEF vars, channel
<1> QED
  BY <1>1, <1>2, <1>3, <1>4, <1>5, <1>6 DEF Next, Step

LEMMA InitRefines == Init => Queue!Init
<1> SUFFICES ASSUME Init PROVE Queue!Init
  OBVIOUS
<1>1. Contents = [i \in 1 .. 0 |-> mItems[SlotOf(i)]]
  BY DEF Init, Contents
<1>2. Contents = <<>>
  BY <1>1
<1> QED
  BY <1>2 DEF Init, Queue!Init

\* The channel implements MessageQueue for every capacity and any threads: every
\* step of every call is a put, a take or a stop of a bounded FIFO, or a stutter.
THEOREM ChannelRefines == Safety => ImplementsQueue
<1>1. Safety => Queue!Init
  BY InitRefines DEF Safety
<1> QED
  BY <1>1, TypeCorrect, NextRefines, PTL DEF Safety, ImplementsQueue, Queue!Spec
-----------------------------------------------------------------------------
(* No lost wakeup *)

\* Who waits on which condition variable, and nobody on a stopped channel.
WaitersInv ==
    /\ \A t \in canRead : call[t] \in {"receive", "timedReceive"}
    /\ \A t \in canWrite : call[t] \in {"send", "waitForEmpty"}
    /\ \A t \in Threads : call[t] # "none" => call[t] \in usage[t]
    /\ mStopped => mCount = 0 /\ canRead = {} /\ canWrite = {}

Readers == AwakeIn({"receive", "timedReceive"})
Writers == AwakeIn({"send"})

LEMMA CardMono ==
    ASSUME NEW B, IsFiniteSet(B), NEW A, A \subseteq B
    PROVE  IsFiniteSet(A) /\ Cardinality(A) \in Nat /\ Cardinality(B) \in Nat
           /\ Cardinality(A) <= Cardinality(B)
BY FS_Subset, FS_CardinalityType

LEMMA CardMore ==
    ASSUME NEW B, IsFiniteSet(B), NEW A, NEW x, x \notin A, A \cup {x} \subseteq B
    PROVE  Cardinality(A) \in Nat /\ Cardinality(B) \in Nat
           /\ Cardinality(A) + 1 <= Cardinality(B)
<1>1. IsFiniteSet(A)
  BY CardMono
<1>2. Cardinality(A \cup {x}) = Cardinality(A) + 1
  BY <1>1, FS_AddElement
<1> QED
  BY <1>1, <1>2, CardMono, FS_CardinalityType

LEMMA CardLess ==
    ASSUME NEW A, IsFiniteSet(A), NEW B, IsFiniteSet(B), NEW x, A \ {x} \subseteq B
    PROVE  Cardinality(A) \in Nat /\ Cardinality(B) \in Nat
           /\ Cardinality(A) <= Cardinality(B) + 1
<1>1. Cardinality(A) \in Nat /\ Cardinality(B) \in Nat
  BY FS_CardinalityType
<1>2. Cardinality(A \ {x}) <= Cardinality(B) /\ Cardinality(A \ {x}) \in Nat
  BY CardMono
<1>3. CASE x \in A
  <2>1. Cardinality(A \ {x}) = Cardinality(A) - 1
    BY <1>3, FS_RemoveElement
  <2> QED BY <1>1, <1>2, <2>1
<1>4. CASE x \notin A
  <2>1. A \ {x} = A
    BY <1>4
  <2> QED BY <1>1, <1>2, <2>1
<1> QED BY <1>3, <1>4

LEMMA AwakeFinite ==
    /\ IsFiniteSet(Readers) /\ IsFiniteSet(Writers)
    /\ IsFiniteSet(Readers') /\ IsFiniteSet(Writers')
<1>1. IsFiniteSet(Threads)
  BY ChannelAssumption
<1>2. /\ Readers \subseteq Threads /\ Writers \subseteq Threads
      /\ Readers' \subseteq Threads /\ Writers' \subseteq Threads
  BY DEF Readers, Writers, AwakeIn
<1> QED
  BY <1>1, <1>2, CardMono

\* A condition variable that has waiters loses one of them, who wakes up.
LEMMA SignalledOne ==
    ASSUME NEW cv, cv # {}, NEW s \in Signalled(cv)
    PROVE  \E w \in cv : s[1] = cv \ {w} /\ s[2] = {w}
BY DEF Signalled

LEMMA WaitersNext == TypeOK /\ WaitersInv /\ [Next]_vars => WaitersInv'
<1> SUFFICES ASSUME TypeOK, WaitersInv, [Next]_vars PROVE WaitersInv'
  OBVIOUS
<1>1. ASSUME NEW t \in Threads, NEW c \in Blocking, Begin(t, c) PROVE WaitersInv'
  BY <1>1 DEF WaitersInv, TypeOK, Begin, channel, Blocking
<1>2. ASSUME NEW t \in Threads, NEW b \in BOOLEAN, Write(t, b), mStopped => ~b,
             t \notin canRead \cup canWrite,
             call' = [call EXCEPT ![t] = "none"] \/ call' = call
      PROVE  WaitersInv'
  <2>1. PICK s \in Signalled(canRead) : canRead' = s[1] /\ woken' = (woken \ {t}) \cup s[2]
    BY <1>2 DEF Write, afterWrite
  <2>2. canRead' \subseteq canRead
    BY <2>1, SignalledType DEF TypeOK
  <2>3. /\ canWrite' = canWrite /\ usage' = usage /\ mStopped' = mStopped
        /\ mStopped => mCount' = mCount
    BY <1>2 DEF Write, afterWrite
  <2> QED BY <1>2, <2>2, <2>3 DEF WaitersInv, TypeOK
<1>3. ASSUME NEW t \in Threads, NEW b \in BOOLEAN, Read(t, b), mStopped => ~b,
             t \notin canRead \cup canWrite,
             call' = [call EXCEPT ![t] = "none"] \/ call' = call
      PROVE  WaitersInv'
  <2>1. PICK s \in Signalled(canWrite) : canWrite' = s[1] /\ woken' = (woken \ {t}) \cup s[2]
    BY <1>3 DEF Read, afterRead
  <2>2. canWrite' \subseteq canWrite
    BY <2>1, SignalledType DEF TypeOK
  <2>3. /\ canRead' = canRead /\ usage' = usage /\ mStopped' = mStopped
        /\ mStopped => mCount' = mCount
    BY <1>3 DEF Read, afterRead
  <2> QED BY <1>3, <2>2, <2>3 DEF WaitersInv, TypeOK
<1>4. ASSUME NEW t \in Threads, timedReceive_timeout(t) PROVE WaitersInv'
  <2>1. PICK s \in Signalled(canWrite) : canWrite' = s[1] /\ woken' = (woken \ {t}) \cup s[2]
    BY <1>4 DEF timedReceive_timeout
  <2>2. canWrite' \subseteq canWrite
    BY <2>1, SignalledType DEF TypeOK
  <2>3. t \notin canWrite
    BY <1>4 DEF timedReceive_timeout, WaitersInv
  <2> QED BY <1>4, <2>2, <2>3 DEF WaitersInv, TypeOK, timedReceive_timeout, Return, channel
<1>5. ASSUME NEW t \in Threads, WaitCanRead(t), ReadBlocked,
             call[t] \in {"receive", "timedReceive"}
      PROVE  WaitersInv'
  BY <1>5 DEF WaitersInv, WaitCanRead, ReadBlocked, channel
<1>6. ASSUME NEW t \in Threads, WaitCanWrite(t), ~mStopped,
             call[t] \in {"send", "waitForEmpty"}
      PROVE  WaitersInv'
  BY <1>6 DEF WaitersInv, WaitCanWrite, channel
<1>7. ASSUME NEW t \in Threads, send(t) \/ trySend(t) PROVE WaitersInv'
  <2>1. CASE WriteBlocked(t) /\ WaitCanWrite(t) /\ call[t] = "send"
    BY <1>6, <2>1 DEF WriteBlocked
  <2>2. t \notin canRead \cup canWrite
    BY <1>7 DEF send, trySend, Locked, Waiting, WaitersInv
  <2>3. CASE send(t) /\ Write(t, ~mStopped) /\ Return(t)
    BY <1>2, <2>2, <2>3 DEF Return
  <2>4. CASE trySend(t)
    <3>1. (mCount < Capacity /\ ~mStopped) \in BOOLEAN
      OBVIOUS
    <3> QED BY <1>2, <2>2, <2>4, <3>1, Zenon DEF trySend
  <2> QED BY <1>7, <2>1, <2>3, <2>4 DEF send, Locked
<1>8. ASSUME NEW t \in Threads, receive(t) \/ timedReceive(t) \/ tryReceive(t)
      PROVE  WaitersInv'
  <2>1. CASE ReadBlocked /\ WaitCanRead(t) /\ call[t] \in {"receive", "timedReceive"}
    BY <1>5, <2>1
  <2>2. t \notin canRead \cup canWrite
    BY <1>8 DEF receive, timedReceive, tryReceive, Locked, Waiting, WaitersInv
  <2>3. CASE Read(t, ~mStopped) /\ Return(t)
    BY <1>3, <2>2, <2>3 DEF Return
  <2>4. CASE tryReceive(t)
    <3>1. (mCount > 0 /\ ~mStopped) \in BOOLEAN
      OBVIOUS
    <3> QED BY <1>3, <2>2, <2>4, <3>1, Zenon DEF tryReceive
  <2> QED BY <1>8, <2>1, <2>3, <2>4 DEF receive, timedReceive, Locked
<1>9. ASSUME NEW t \in Threads, waitForEmpty(t) PROVE WaitersInv'
  <2>1. CASE mCount > 0 /\ WaitCanWrite(t)
    <3>1. ~mStopped
      BY <2>1 DEF WaitersInv
    <3> QED BY <1>6, <1>9, <2>1, <3>1 DEF waitForEmpty, Locked
  <2>2. CASE ~(mCount > 0 /\ WaitCanWrite(t))
    <3>1. t \notin canRead \cup canWrite
      BY <1>9 DEF waitForEmpty, Locked, Waiting
    <3>2. /\ call' = [call EXCEPT ![t] = "none"]
          /\ canRead' = canRead /\ canWrite' = canWrite /\ usage' = usage
          /\ mStopped' = mStopped /\ mCount' = mCount
      BY <1>9, <2>2 DEF waitForEmpty, Return, channel
    <3> QED BY <3>1, <3>2 DEF WaitersInv, TypeOK
  <2> QED BY <2>1, <2>2
<1>10. ASSUME NEW t \in Threads, SpuriousWakeup(t) PROVE WaitersInv'
  BY <1>10 DEF SpuriousWakeup, WaitersInv, channel
<1>11. ASSUME stop PROVE WaitersInv'
  BY <1>11 DEF stop, WaitersInv
<1>12. CASE UNCHANGED vars
  BY <1>12 DEF vars, WaitersInv
<1> QED
  BY <1>1, <1>4, <1>7, <1>8, <1>9, <1>10, <1>11, <1>12 DEF Next, Step

\* Who sleeps and has not strayed had not before, or what it waits for is not there.
LEMMA Unstrayed ==
    ASSUME NEW losers, Stray(losers), NEW u \in canRead' \cup canWrite', u \notin strayed'
    PROVE  u \notin strayed \cup losers \/ MustWait(call[u], mCount')
BY DEF Stray

\* A waiter that is signalled makes up for a message or a slot more; a caller
\* that returns, for one less.
LEMMA WriteWakes ==
    ASSUME TypeOK, WaitersInv, NoLostWakeup, NEW t \in Threads, NEW b \in BOOLEAN,
           Write(t, b), t \notin canRead \cup canWrite,
           call[t] \notin {"receive", "timedReceive"},
           \/ call' = [call EXCEPT ![t] = "none"] /\ (~b => mStopped)
           \/ call' = call
    PROVE  NoLostWakeup'
<1>0. /\ mCount \in Nat /\ mCount' \in Nat /\ Capacity \in Nat
      /\ mCount' = (IF b THEN mCount + 1 ELSE mCount)
      /\ canWrite' = canWrite /\ mStopped' = mStopped /\ Stray({})
  BY CapacityNat DEF TypeOK, Write, afterWrite
<1>r. PICK r \in Signalled(canRead) : canRead' = r[1]
  BY DEF Write, afterWrite
<1>4. canRead' \subseteq canRead
  BY <1>r, SignalledType DEF TypeOK
<1>5. ASSUME NEW u \in (canRead' \cup canWrite') \ strayed'
      PROVE  /\ u \in canRead \cup canWrite /\ u \in Threads /\ call'[u] = call[u] /\ ~mStopped
             /\ u \notin strayed \/ MustWait(call[u], mCount')
  BY <1>0, <1>4, Unstrayed DEF WaitersInv, TypeOK
<1>6. /\ Cardinality(Readers') \in Nat /\ Cardinality(Writers') \in Nat
  BY AwakeFinite, FS_CardinalityType
<1>1. ASSUME NEW u \in AsleepIn({"receive", "timedReceive"})'
      PROVE  mCount' <= Cardinality(Readers')
  <2>1. /\ u \in (canRead' \cup canWrite') \ strayed'
        /\ call'[u] \in {"receive", "timedReceive"}
    BY DEF AsleepIn
  <2>2. /\ u \in canRead' /\ call[u] \in {"receive", "timedReceive"}
    BY <1>0, <1>5, <2>1 DEF WaitersInv
  <2>3. CASE MustWait(call[u], mCount')
    BY <1>6, <2>2, <2>3 DEF MustWait
  <2>4. CASE u \notin strayed
    <3>1. u \in AsleepIn({"receive", "timedReceive"})
      BY <1>5, <2>1, <2>2, <2>4 DEF AsleepIn
    <3>2. mCount <= Cardinality(Readers)
      BY <3>1 DEF NoLostWakeup, Readers
    <3>3. PICK w \in canRead : canRead' = canRead \ {w}
      BY <1>r, <1>4, <2>2, SignalledOne
    <3>4. w \notin Readers /\ Readers \cup {w} \subseteq Readers'
      BY <1>0, <3>3 DEF Readers, AwakeIn, Waiting, WaitersInv, TypeOK
    <3>5. /\ Cardinality(Readers) \in Nat
          /\ Cardinality(Readers) + 1 <= Cardinality(Readers')
      BY <3>4, AwakeFinite, CardMore
    <3> QED BY <1>0, <1>6, <3>2, <3>5
  <2> QED BY <1>5, <2>1, <2>3, <2>4
<1>2. ASSUME NEW u \in AsleepIn({"send"})'
      PROVE  Capacity - mCount' <= Cardinality(Writers')
  <2>1. u \in (canRead' \cup canWrite') \ strayed' /\ call'[u] = "send"
    BY DEF AsleepIn
  <2>2. u \in canRead \cup canWrite /\ call[u] = "send" /\ ~mStopped
    BY <1>5, <2>1
  <2>3. CASE MustWait(call[u], mCount')
    BY <1>0, <1>6, <2>2, <2>3 DEF MustWait
  <2>4. CASE u \notin strayed
    <3>1. u \in AsleepIn({"send"})
      BY <2>2, <2>4 DEF AsleepIn
    <3>2. Capacity - mCount <= Cardinality(Writers)
      BY <3>1 DEF NoLostWakeup, Writers
    <3>3. CASE b
      <4>1. Writers \ {t} \subseteq Writers'
        BY <1>0, <1>4 DEF Writers, AwakeIn, Waiting, TypeOK
      <4>2. /\ Cardinality(Writers) \in Nat
            /\ Cardinality(Writers) <= Cardinality(Writers') + 1
        BY <4>1, AwakeFinite, CardLess
      <4> QED BY <1>0, <1>6, <3>2, <3>3, <4>2
    <3>4. CASE ~b
      <4>1. Writers \subseteq Writers'
        BY <1>0, <1>4, <2>2, <3>4 DEF Writers, AwakeIn, Waiting, TypeOK
      <4>2. /\ Cardinality(Writers) \in Nat
            /\ Cardinality(Writers) <= Cardinality(Writers')
        BY <4>1, AwakeFinite, CardMono
      <4> QED BY <1>0, <1>6, <3>2, <3>4, <4>2
    <3> QED BY <3>3, <3>4
  <2> QED BY <1>5, <2>1, <2>3, <2>4
<1>3. ASSUME NEW u \in AsleepIn({"waitForEmpty"})' PROVE mCount' > 0 \/ Writers' # {}
  <2>1. u \in (canRead' \cup canWrite') \ strayed' /\ call'[u] = "waitForEmpty"
    BY DEF AsleepIn
  <2>2. u \in canRead \cup canWrite /\ call[u] = "waitForEmpty" /\ ~mStopped
    BY <1>5, <2>1
  <2>3. CASE MustWait(call[u], mCount')
    BY <2>2, <2>3 DEF MustWait
  <2>4. CASE u \notin strayed
    <3>1. u \in AsleepIn({"waitForEmpty"})
      BY <2>2, <2>4 DEF AsleepIn
    <3>2. mCount > 0 \/ Writers # {}
      BY <3>1 DEF NoLostWakeup, Writers
    <3>3. CASE b
      BY <1>0, <3>3
    <3>4. CASE ~b
      <4>1. Writers \subseteq Writers'
        BY <1>0, <1>4, <2>2, <3>4 DEF Writers, AwakeIn, Waiting, TypeOK
      <4> QED BY <1>0, <3>2, <3>4, <4>1
    <3> QED BY <3>3, <3>4
  <2> QED BY <1>5, <2>1, <2>3, <2>4
<1> QED
  BY <1>1, <1>2, <1>3 DEF NoLostWakeup, Readers, Writers

LEMMA ReadWakes ==
    ASSUME TypeOK, WaitersInv, NoLostWakeup, NEW t \in Threads, NEW b \in BOOLEAN,
           Read(t, b), t \notin canRead \cup canWrite,
           b => mCount > 0,
           call[t] \notin {"send", "waitForEmpty"},
           \/ call' = [call EXCEPT ![t] = "none"] /\ (~b => mStopped)
           \/ call' = call
    PROVE  NoLostWakeup'
<1>0. /\ mCount \in Nat /\ mCount' \in Nat /\ Capacity \in Nat
      /\ mCount' = (IF b THEN mCount - 1 ELSE mCount)
      /\ canRead' = canRead /\ mStopped' = mStopped
  BY CapacityNat DEF TypeOK, Read, afterRead
<1>s. PICK s \in Signalled(canWrite) :
         /\ canWrite' = s[1]
         /\ Stray(IF b /\ \E w \in s[2] : call[w] = "waitForEmpty" THEN s[1] ELSE {})
  BY DEF Read, afterRead
<1>4. canWrite' \subseteq canWrite
  BY <1>s, SignalledType DEF TypeOK
<1>5. ASSUME NEW u \in (canRead' \cup canWrite') \ strayed'
      PROVE  /\ u \in canRead \cup canWrite /\ u \in Threads /\ call'[u] = call[u] /\ ~mStopped
             /\ u \notin strayed \/ MustWait(call[u], mCount')
  BY <1>0, <1>s, <1>4, Unstrayed DEF WaitersInv, TypeOK
<1>6. /\ Cardinality(Readers') \in Nat /\ Cardinality(Writers') \in Nat
  BY AwakeFinite, FS_CardinalityType
<1>7. Writers \subseteq Writers'
  BY <1>0, <1>4 DEF Writers, AwakeIn, Waiting, TypeOK
\* A sleeper that is left, and has not strayed, sees a sender woken.
<1>8. ASSUME b, NEW u \in canWrite' \ strayed', ~MustWait(call[u], mCount')
      PROVE  \E w \in canWrite : canWrite' = canWrite \ {w} /\ call[w] = "send"
  <2>1. PICK w \in canWrite : s[1] = canWrite \ {w} /\ s[2] = {w}
    BY <1>s, <1>4, <1>8, SignalledOne
  <2>2. call[w] # "waitForEmpty"
    <3> SUFFICES ASSUME call[w] = "waitForEmpty" PROVE FALSE
      OBVIOUS
    <3>1. Stray(s[1])
      BY <1>s, <1>8, <2>1
    <3> QED BY <1>s, <1>8, <3>1, Unstrayed
  <2> QED BY <1>s, <2>1, <2>2 DEF WaitersInv
<1>1. ASSUME NEW u \in AsleepIn({"receive", "timedReceive"})'
      PROVE  mCount' <= Cardinality(Readers')
  <2>1. /\ u \in (canRead' \cup canWrite') \ strayed'
        /\ call'[u] \in {"receive", "timedReceive"}
    BY DEF AsleepIn
  <2>2. /\ u \in canRead \cup canWrite /\ call[u] \in {"receive", "timedReceive"} /\ ~mStopped
    BY <1>5, <2>1
  <2>3. CASE MustWait(call[u], mCount')
    BY <1>6, <2>2, <2>3 DEF MustWait
  <2>4. CASE u \notin strayed
    <3>1. u \in AsleepIn({"receive", "timedReceive"})
      BY <2>2, <2>4 DEF AsleepIn
    <3>2. mCount <= Cardinality(Readers)
      BY <3>1 DEF NoLostWakeup, Readers
    <3>3. CASE b
      <4>1. Readers \ {t} \subseteq Readers'
        BY <1>0, <1>4 DEF Readers, AwakeIn, Waiting, TypeOK
      <4>2. /\ Cardinality(Readers) \in Nat
            /\ Cardinality(Readers) <= Cardinality(Readers') + 1
        BY <4>1, AwakeFinite, CardLess
      <4> QED BY <1>0, <1>6, <3>2, <3>3, <4>2
    <3>4. CASE ~b
      <4>1. Readers \subseteq Readers'
        BY <1>0, <1>4, <2>2, <3>4 DEF Readers, AwakeIn, Waiting, TypeOK
      <4>2. /\ Cardinality(Readers) \in Nat
            /\ Cardinality(Readers) <= Cardinality(Readers')
        BY <4>1, AwakeFinite, CardMono
      <4> QED BY <1>0, <1>6, <3>2, <3>4, <4>2
    <3> QED BY <3>3, <3>4
  <2> QED BY <1>5, <2>1, <2>3, <2>4
<1>2. ASSUME NEW u \in AsleepIn({"send"})'
      PROVE  Capacity - mCount' <= Cardinality(Writers')
  <2>1. u \in (canRead' \cup canWrite') \ strayed' /\ call'[u] = "send"
    BY DEF AsleepIn
  <2>2. u \in canWrite' /\ call[u] = "send"
    BY <1>0, <1>5, <2>1 DEF WaitersInv
  <2>3. CASE MustWait(call[u], mCount')
    BY <1>0, <1>6, <2>2, <2>3 DEF MustWait
  <2>4. CASE u \notin strayed /\ ~MustWait(call[u], mCount')
    <3>1. u \in AsleepIn({"send"})
      BY <1>4, <2>2, <2>4 DEF AsleepIn
    <3>2. Capacity - mCount <= Cardinality(Writers)
      BY <3>1 DEF NoLostWakeup, Writers
    <3>3. CASE b
      <4>1. PICK w \in canWrite : canWrite' = canWrite \ {w} /\ call[w] = "send"
        BY <1>8, <2>1, <2>2, <2>4, <3>3
      <4>2. w \notin Writers /\ Writers \cup {w} \subseteq Writers'
        <5>1. w \in Threads /\ w \notin canRead /\ w # t
          BY <4>1 DEF WaitersInv, TypeOK
        <5> QED BY <1>0, <4>1, <5>1 DEF Writers, AwakeIn, Waiting, TypeOK
      <4>3. /\ Cardinality(Writers) \in Nat
            /\ Cardinality(Writers) + 1 <= Cardinality(Writers')
        BY <4>2, AwakeFinite, CardMore
      <4> QED BY <1>0, <1>6, <3>2, <3>3, <4>3
    <3>4. CASE ~b
      <4>1. /\ Cardinality(Writers) \in Nat
            /\ Cardinality(Writers) <= Cardinality(Writers')
        BY <1>7, AwakeFinite, CardMono
      <4> QED BY <1>0, <1>6, <3>2, <3>4, <4>1
    <3> QED BY <3>3, <3>4
  <2> QED BY <1>5, <2>1, <2>3, <2>4
<1>3. ASSUME NEW u \in AsleepIn({"waitForEmpty"})' PROVE mCount' > 0 \/ Writers' # {}
  <2>1. u \in (canRead' \cup canWrite') \ strayed' /\ call'[u] = "waitForEmpty"
    BY DEF AsleepIn
  <2>2. u \in canWrite' /\ call[u] = "waitForEmpty"
    BY <1>0, <1>5, <2>1 DEF WaitersInv
  <2>3. CASE MustWait(call[u], mCount')
    BY <2>2, <2>3 DEF MustWait
  <2>4. CASE u \notin strayed /\ ~MustWait(call[u], mCount')
    <3>1. u \in AsleepIn({"waitForEmpty"})
      BY <1>4, <2>2, <2>4 DEF AsleepIn
    <3>2. mCount > 0 \/ Writers # {}
      BY <3>1 DEF NoLostWakeup, Writers
    <3>3. CASE b
      <4>1. PICK w \in canWrite : canWrite' = canWrite \ {w} /\ call[w] = "send"
        BY <1>8, <2>1, <2>2, <2>4, <3>3
      <4>2. w \in Writers'
        <5>1. w \in Threads /\ w \notin canRead /\ w # t
          BY <4>1 DEF WaitersInv, TypeOK
        <5> QED BY <1>0, <4>1, <5>1 DEF Writers, AwakeIn, Waiting, TypeOK
      <4> QED BY <4>2
    <3>4. CASE ~b
      BY <1>0, <1>7, <3>2, <3>4
    <3> QED BY <3>3, <3>4
  <2> QED BY <1>5, <2>1, <2>3, <2>4
<1> QED
  BY <1>1, <1>2, <1>3 DEF NoLostWakeup, Readers, Writers

\* A step that wakes or begins, and leaves the ring alone, keeps what is awake.
LEMMA KeepsAwake ==
    ASSUME TypeOK, WaitersInv, NoLostWakeup, mCount' = mCount,
           canRead' \subseteq canRead, canWrite' \subseteq canWrite,
           \A u \in canRead' \cup canWrite' : call'[u] = call[u],
           \A u \in (canRead' \cup canWrite') \ strayed' :
              u \notin strayed \/ MustWait(call[u], mCount'),
           Readers \subseteq Readers' \/ \A u \in canRead' \ strayed' : mCount' = 0,
           Writers \subseteq Writers'
    PROVE  NoLostWakeup'
<1>0. mCount \in Nat /\ Capacity \in Nat
  BY CapacityNat DEF TypeOK
<1>6. /\ Cardinality(Readers) \in Nat /\ Cardinality(Writers) \in Nat
      /\ Cardinality(Readers') \in Nat /\ Cardinality(Writers') \in Nat
      /\ Cardinality(Writers) <= Cardinality(Writers')
      /\ Readers \subseteq Readers' => Cardinality(Readers) <= Cardinality(Readers')
  BY AwakeFinite, CardMono, FS_CardinalityType
<1>1. ASSUME NEW u \in AsleepIn({"receive", "timedReceive"})'
      PROVE  mCount' <= Cardinality(Readers')
  <2>1. /\ u \in (canRead' \cup canWrite') \ strayed'
        /\ call[u] \in {"receive", "timedReceive"}
    BY DEF AsleepIn
  <2>2. u \in canRead'
    BY <2>1 DEF WaitersInv
  <2>3. CASE mCount' = 0
    BY <1>6, <2>3
  <2>4. CASE mCount' # 0
    <3>1. u \notin strayed /\ Readers \subseteq Readers'
      BY <2>1, <2>2, <2>4 DEF MustWait
    <3>2. u \in AsleepIn({"receive", "timedReceive"})
      BY <2>1, <3>1 DEF AsleepIn
    <3>3. mCount <= Cardinality(Readers)
      BY <3>2 DEF NoLostWakeup, Readers
    <3> QED BY <1>0, <1>6, <3>1, <3>3
  <2> QED BY <2>3, <2>4
<1>2. ASSUME NEW u \in AsleepIn({"send"})'
      PROVE  Capacity - mCount' <= Cardinality(Writers')
  <2>1. u \in (canRead' \cup canWrite') \ strayed' /\ call[u] = "send"
    BY DEF AsleepIn
  <2>2. CASE mCount' >= Capacity
    BY <1>0, <1>6, <2>2
  <2>3. CASE ~(mCount' >= Capacity)
    <3>1. u \in AsleepIn({"send"})
      BY <2>1, <2>3 DEF AsleepIn, MustWait
    <3>2. Capacity - mCount <= Cardinality(Writers)
      BY <3>1 DEF NoLostWakeup, Writers
    <3> QED BY <1>0, <1>6, <3>2
  <2> QED BY <2>2, <2>3
<1>3. ASSUME NEW u \in AsleepIn({"waitForEmpty"})' PROVE mCount' > 0 \/ Writers' # {}
  <2>1. u \in (canRead' \cup canWrite') \ strayed' /\ call[u] = "waitForEmpty"
    BY DEF AsleepIn
  <2>2. CASE ~(mCount' > 0)
    <3>1. u \in AsleepIn({"waitForEmpty"})
      BY <2>1, <2>2 DEF AsleepIn, MustWait
    <3> QED BY <2>2, <3>1 DEF NoLostWakeup, Writers
  <2> QED BY <2>2
<1> QED
  BY <1>1, <1>2, <1>3 DEF NoLostWakeup, Readers, Writers

\* A thread goes to sleep: not for what is there.
LEMMA GoesToSleep ==
    ASSUME TypeOK, WaitersInv, NoLostWakeup, NEW t \in Threads, mCount' = mCount,
           call' = call, strayed' = strayed,
           canRead' \cup canWrite' = canRead \cup canWrite \cup {t},
           MustWait(call[t], mCount)
    PROVE  NoLostWakeup'
<1>0. mCount \in Nat /\ Capacity \in Nat
  BY CapacityNat DEF TypeOK
<1>1. \A cs : AsleepIn(cs)' \subseteq AsleepIn(cs) \cup {t}
  BY DEF AsleepIn
<1>2. /\ call[t] \notin {"receive", "timedReceive"} => Readers' = Readers
      /\ call[t] # "send" => Writers' = Writers
  BY DEF Readers, Writers, AwakeIn, Waiting
<1>3. /\ Cardinality(Readers') \in Nat /\ Cardinality(Writers') \in Nat
  BY AwakeFinite, FS_CardinalityType
<1>4. AsleepIn({"receive", "timedReceive"})' # {} => mCount' <= Cardinality(Readers')
  <2>1. CASE call[t] \in {"receive", "timedReceive"}
    BY <1>3, <2>1 DEF MustWait
  <2>2. CASE call[t] \notin {"receive", "timedReceive"}
    <3>1. t \notin AsleepIn({"receive", "timedReceive"})'
      BY <2>2 DEF AsleepIn
    <3> QED BY <1>1, <1>2, <2>2, <3>1 DEF NoLostWakeup, Readers
  <2> QED BY <2>1, <2>2
<1>5. AsleepIn({"send"})' # {} => Capacity - mCount' <= Cardinality(Writers')
  <2>1. CASE call[t] = "send"
    BY <1>0, <1>3, <2>1 DEF MustWait
  <2>2. CASE call[t] # "send"
    <3>1. t \notin AsleepIn({"send"})'
      BY <2>2 DEF AsleepIn
    <3> QED BY <1>1, <1>2, <2>2, <3>1 DEF NoLostWakeup, Writers
  <2> QED BY <2>1, <2>2
<1>6. AsleepIn({"waitForEmpty"})' # {} => mCount' > 0 \/ Writers' # {}
  <2>1. CASE call[t] = "send"
    BY <1>0, <2>1, CapacityNat DEF MustWait
  <2>2. CASE call[t] = "waitForEmpty"
    BY <2>2 DEF MustWait
  <2>3. CASE call[t] \notin {"send", "waitForEmpty"}
    <3>1. t \notin AsleepIn({"waitForEmpty"})'
      BY <2>3 DEF AsleepIn
    <3> QED BY <1>1, <1>2, <2>3, <3>1 DEF NoLostWakeup, Writers
  <2> QED BY <2>1, <2>2, <2>3
<1> QED
  BY <1>4, <1>5, <1>6 DEF NoLostWakeup, Readers, Writers

LEMMA WakeupNext == TypeOK /\ WaitersInv /\ NoLostWakeup /\ [Next]_vars => NoLostWakeup'
<1> SUFFICES ASSUME TypeOK, WaitersInv, NoLostWakeup, [Next]_vars PROVE NoLostWakeup'
  OBVIOUS
<1>1. ASSUME NEW t \in Threads, NEW c \in Blocking, Begin(t, c) PROVE NoLostWakeup'
  <2>1. /\ canRead' = canRead /\ canWrite' = canWrite /\ mCount' = mCount
        /\ strayed' = strayed /\ call' = [call EXCEPT ![t] = c] /\ call[t] = "none"
        /\ t \notin canRead \cup canWrite
    BY <1>1 DEF Begin, channel, WaitersInv
  <2>2. Readers \subseteq Readers' /\ Writers \subseteq Writers'
    BY <2>1 DEF Readers, Writers, AwakeIn, Waiting, TypeOK
  <2>3. \A u \in canRead' \cup canWrite' : call'[u] = call[u]
    BY <2>1 DEF TypeOK
  <2> QED BY <2>1, <2>2, <2>3, KeepsAwake
<1>2. ASSUME NEW t \in Threads, send(t) PROVE NoLostWakeup'
  <2>0. call[t] = "send" /\ t \notin canRead \cup canWrite
    BY <1>2 DEF send, Locked, Waiting
  <2>1. CASE WriteBlocked(t) /\ WaitCanWrite(t)
    BY <2>0, <2>1, GoesToSleep DEF WaitCanWrite, WriteBlocked, channel, MustWait
  <2>2. CASE Write(t, ~mStopped) /\ Return(t)
    BY <2>0, <2>2, WriteWakes DEF Return
  <2> QED BY <1>2, <2>1, <2>2 DEF send
<1>3. ASSUME NEW t \in Threads, trySend(t) PROVE NoLostWakeup'
  <2>1. /\ call[t] = "none" /\ call' = call /\ t \notin canRead \cup canWrite
        /\ Write(t, mCount < Capacity /\ ~mStopped)
    BY <1>3 DEF trySend, WaitersInv
  <2>2. (mCount < Capacity /\ ~mStopped) \in BOOLEAN
    OBVIOUS
  <2>3. call[t] \notin {"receive", "timedReceive"}
    BY <2>1
  <2> QED BY <2>1, <2>2, <2>3, WriteWakes, Zenon
<1>4. ASSUME NEW t \in Threads, receive(t) \/ timedReceive(t) PROVE NoLostWakeup'
  <2>0. call[t] \in {"receive", "timedReceive"} /\ t \notin canRead \cup canWrite
    BY <1>4 DEF receive, timedReceive, Locked, Waiting
  <2>1. CASE ReadBlocked /\ WaitCanRead(t)
    BY <2>0, <2>1, GoesToSleep DEF WaitCanRead, ReadBlocked, channel, MustWait
  <2>2. CASE ~ReadBlocked /\ Read(t, ~mStopped) /\ Return(t)
    <3>1. ~mStopped => mCount > 0
      BY <2>2 DEF ReadBlocked, TypeOK
    <3>2. call[t] \notin {"send", "waitForEmpty"}
      BY <2>0
    <3> QED BY <2>0, <2>2, <3>1, <3>2, ReadWakes DEF Return
  <2> QED BY <1>4, <2>1, <2>2 DEF receive, timedReceive
<1>5. ASSUME NEW t \in Threads, tryReceive(t) PROVE NoLostWakeup'
  <2>1. /\ call[t] = "none" /\ call' = call /\ t \notin canRead \cup canWrite
        /\ Read(t, mCount > 0 /\ ~mStopped)
    BY <1>5 DEF tryReceive, WaitersInv
  <2>2. (mCount > 0 /\ ~mStopped) \in BOOLEAN
    OBVIOUS
  <2>3. call[t] \notin {"send", "waitForEmpty"}
    BY <2>1
  <2> QED BY <2>1, <2>2, <2>3, ReadWakes, Zenon
<1>6. ASSUME NEW t \in Threads, timedReceive_timeout(t) PROVE NoLostWakeup'
  <2>1. PICK s \in Signalled(canWrite) : canWrite' = s[1]
    BY <1>6 DEF timedReceive_timeout
  <2>2. canWrite' \subseteq canWrite
    BY <2>1, SignalledType DEF TypeOK
  <2>3. /\ canRead' = canRead \ {t} /\ mCount' = mCount /\ t \notin canWrite
        /\ call' = [call EXCEPT ![t] = "none"] /\ call[t] = "timedReceive"
        /\ Stray(IF t \in woken THEN canRead ELSE {}) /\ t \in canRead \cup woken
    BY <1>6 DEF timedReceive_timeout, Return, channel, WaitersInv
  <2>4. Readers \subseteq Readers' \/ \A u \in canRead' \ strayed' : mCount' = 0
    <3>1. CASE t \notin woken
      BY <2>2, <2>3, <3>1 DEF Readers, AwakeIn, Waiting, TypeOK
    <3>2. CASE t \in woken
      <4> SUFFICES ASSUME NEW u \in canRead' \ strayed' PROVE mCount' = 0
        OBVIOUS
      <4>1. MustWait(call[u], mCount') /\ u \in canRead
        BY <2>3, <3>2, Unstrayed
      <4> QED BY <4>1 DEF MustWait, WaitersInv
    <3> QED BY <3>1, <3>2
  <2>5. Writers \subseteq Writers'
    BY <2>2, <2>3 DEF Writers, AwakeIn, Waiting, TypeOK
  <2>6. \A u \in canRead' \cup canWrite' : call'[u] = call[u]
    BY <2>2, <2>3 DEF TypeOK
  <2>7. \A u \in (canRead' \cup canWrite') \ strayed' :
           u \notin strayed \/ MustWait(call[u], mCount')
    BY <2>3, Unstrayed
  <2> QED BY <2>2, <2>3, <2>4, <2>5, <2>6, <2>7, KeepsAwake
<1>7. ASSUME NEW t \in Threads, waitForEmpty(t) PROVE NoLostWakeup'
  <2>0. call[t] = "waitForEmpty" /\ t \notin canRead \cup canWrite
    BY <1>7 DEF waitForEmpty, Locked, Waiting
  <2>1. CASE mCount > 0 /\ WaitCanWrite(t)
    BY <2>0, <2>1, GoesToSleep DEF WaitCanWrite, channel, MustWait
  <2>2. CASE mCount = 0 /\ Return(t) /\ UNCHANGED <<channel, canRead, canWrite, strayed>>
    <3>1. /\ canRead' = canRead /\ canWrite' = canWrite /\ mCount' = mCount
          /\ strayed' = strayed /\ call' = [call EXCEPT ![t] = "none"]
      BY <2>2 DEF Return, channel
    <3>2. Readers \subseteq Readers' /\ Writers \subseteq Writers'
      BY <2>0, <3>1 DEF Readers, Writers, AwakeIn, Waiting, TypeOK
    <3>3. \A u \in canRead' \cup canWrite' : call'[u] = call[u]
      BY <2>0, <3>1 DEF TypeOK
    <3> QED BY <3>1, <3>2, <3>3, KeepsAwake
  <2> QED BY <1>7, <2>1, <2>2 DEF waitForEmpty
<1>8. ASSUME NEW t \in Threads, SpuriousWakeup(t) PROVE NoLostWakeup'
  <2>1. /\ canRead' = canRead \ {t} /\ canWrite' = canWrite \ {t}
        /\ mCount' = mCount /\ call' = call /\ Stray({})
    BY <1>8 DEF SpuriousWakeup, channel
  <2>2. Readers \subseteq Readers' /\ Writers \subseteq Writers'
    BY <2>1 DEF Readers, Writers, AwakeIn, Waiting
  <2>3. \A u \in (canRead' \cup canWrite') \ strayed' :
           u \notin strayed \/ MustWait(call[u], mCount')
    BY <2>1, Unstrayed
  <2> QED BY <2>1, <2>2, <2>3, KeepsAwake
<1>9. ASSUME stop PROVE NoLostWakeup'
  BY <1>9 DEF stop, NoLostWakeup, AsleepIn
<1>10. CASE UNCHANGED vars
  BY <1>10 DEF vars, NoLostWakeup, AwakeIn, AsleepIn, Waiting
<1> QED
  BY <1>1, <1>2, <1>3, <1>4, <1>5, <1>6, <1>7, <1>8, <1>9, <1>10 DEF Next, Step

\* No wakeup of the channel is lost but to a thread of the wrong kind, for any
\* number of threads and any use: a thread whose signal has not strayed sleeps only
\* while those that are awake are enough for the messages, or the slots.
THEOREM NoWakeupLost == Safety => []NoLostWakeup
<1>1. Init => WaitersInv /\ NoLostWakeup
  BY DEF Init, WaitersInv, NoLostWakeup, AsleepIn
<1> QED
  BY <1>1, TypeCorrect, WaitersNext, WakeupNext, PTL DEF Safety
=============================================================================
