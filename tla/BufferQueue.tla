----------------------------- MODULE BufferQueue -----------------------------
(***************************************************************************)
(* BufferQueue (src/aemu/base/include/aemu/base/containers/BufferQueue.h): *)
(* the FIFO of buffers of the pipe transport, as operators on its state.   *)
(* The lock belongs to the user, so every operator is one critical section *)
(* or a part of one; a blocking call is a loop of the user's steps around  *)
(* the condition variables.  tryPushed, tryPopped, grow and closed are the *)
(* queue after the method.                                                 *)
(***************************************************************************)
EXTENDS Naturals, Sequences, FiniteSets

\* The queue's fields.  A slot that holds nothing holds the empty buffer.
NewQueue(capacity) ==
    [mBuffers |-> [i \in 0 .. capacity - 1 |-> <<>>],
     mPos |-> 0, mCount |-> 0, mClosed |-> FALSE, mSnapshotMode |-> FALSE]

Size(q) == Cardinality(DOMAIN q.mBuffers)

\* The type of a queue of buffers of numbered units.
QueueOK(q) ==
    /\ Size(q) \in Nat \ {0} /\ q.mBuffers \in [0 .. Size(q) - 1 -> Seq(Nat)]
    /\ q \in [mBuffers : {q.mBuffers}, mPos : 0 .. Size(q) - 1, mCount : 0 .. Size(q),
             mClosed : BOOLEAN, mSnapshotMode : BOOLEAN]

canPush(q) == ~q.mClosed /\ q.mCount < Size(q)

canPop(q) == q.mCount > 0

\* Mutant: the buffers keep their indices.
grow_inPlace(q) ==
    [q EXCEPT !.mBuffers = [i \in 0 .. 2 * Size(q) - 1 |->
                              IF i < Size(q) THEN q.mBuffers[i] ELSE <<>>]]

\* Twice the size, with the oldest buffer first.
grow(q) ==
    [q EXCEPT !.mBuffers = [i \in 0 .. 2 * Size(q) - 1 |->
                              IF i < q.mCount
                              THEN q.mBuffers[(q.mPos + i) % Size(q)]
                              ELSE <<>>],
              !.mPos = 0]

tryPushResult(q) ==
    IF q.mClosed THEN "Error"
    ELSE IF q.mCount >= Size(q) /\ ~q.mSnapshotMode THEN "TryAgain" ELSE "Ok"

tryPushed(q, buffer) ==
    LET g == IF q.mCount >= Size(q) THEN grow(q) ELSE q
        pos == IF g.mPos + g.mCount >= Size(g)
               THEN g.mPos + g.mCount - Size(g) ELSE g.mPos + g.mCount
    IN  [g EXCEPT !.mBuffers[pos] = buffer, !.mCount = @ + 1]

\* The condition of the loop in pushLocked; the queue is looked at again
\* after every wakeup.
pushBlocked(q) == q.mCount = Size(q) /\ ~q.mSnapshotMode /\ ~q.mClosed

tryPopResult(q) ==
    IF q.mCount > 0 THEN "Ok"
    ELSE IF q.mClosed \/ q.mSnapshotMode THEN "Error" ELSE "TryAgain"

Oldest(q) == q.mBuffers[q.mPos]

\* Mutant: the position does not wrap.
tryPopped_noWrap(q) ==
    [q EXCEPT !.mBuffers[q.mPos] = <<>>, !.mPos = @ + 1, !.mCount = @ - 1]

tryPopped(q) ==
    [q EXCEPT !.mBuffers[q.mPos] = <<>>,
              !.mPos = IF q.mPos + 1 >= Size(q) THEN q.mPos + 1 - Size(q) ELSE q.mPos + 1,
              !.mCount = @ - 1]

\* The condition of the loop in popLocked.
popBlocked(q) == q.mCount = 0 /\ ~q.mSnapshotMode /\ ~q.mClosed

\* A push to an empty queue signals mCanPop, a pop from a full one mCanPush.
pushWakesPopper(q) == q.mCount = 0

popWakesPusher(q) == q.mCount = Size(q)

\* Mutant: a snapshot does not wake anybody.
snapshotWakes_never(q) == FALSE

\* setSnapshotModeLocked(true) reaches wakeAllWaiters.
snapshotWakes(q) == ~q.mClosed

\* Mutant: the two conditions swapped.
wakeAllWakesPopper_full(q) == q.mCount = Size(q)

\* wakeAllWaiters tells by the count who may be waiting.
wakeAllWakesPusher(q) == q.mCount = Size(q)
wakeAllWakesPopper(q) == q.mCount = 0

setSnapshotMode(q, on) == [q EXCEPT !.mSnapshotMode = on]

closed(q) == [q EXCEPT !.mClosed = TRUE]

\* The buffers from the oldest to the newest: what onSaveLocked writes.
Contents(q) == [i \in 1 .. q.mCount |-> q.mBuffers[(q.mPos + i - 1) % Size(q)]]
=============================================================================
