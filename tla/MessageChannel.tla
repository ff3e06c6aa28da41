--------------------------- MODULE MessageChannel ---------------------------
(***************************************************************************)
(* MessageChannel (src/aemu/base/MessageChannel.cpp and its header): a     *)
(* ring of messages under one lock, with a condition variable for readers  *)
(* and one that writers share with waitForEmpty.                           *)
(*                                                                         *)
(* The lock is free between two steps: a step is what a thread does from   *)
(* taking the lock to giving it up, at the end of the call or in the wait  *)
(* of a condition variable.  signalAndUnlock signals under the lock, as    *)
(* the POSIX build does.                                                   *)
(***************************************************************************)
EXTENDS Naturals, Sequences, FiniteSets

CONSTANTS Threads,      \* the threads that share the channel
          Capacity,     \* CAPACITY of the template
          Usages,       \* how the threads use it: which calls each one makes
          MaxMessages,  \* bound: how many messages are sent
          MayStop       \* somebody may call stop()

Blocking == {"send", "receive", "timedReceive", "waitForEmpty"}
Calls == Blocking \cup {"trySend", "tryReceive"}

\* Any thread may make any calls: nothing in the class keeps its users from it.
ASSUME ChannelAssumption ==
    /\ IsFiniteSet(Threads)
    /\ Capacity \in Nat \ {0}
    /\ MaxMessages \in Nat
    /\ MayStop \in BOOLEAN
    /\ Usages \subseteq [Threads -> SUBSET Calls]

VARIABLES
    usage,      \* which calls each thread makes: fixed at the start
    mPos, mCount, mItems, mStopped,
    call,       \* the blocking call a thread is in, or "none"
    canRead,    \* the threads waiting on mCanRead
    canWrite,   \* the threads waiting on mCanWrite
    woken,      \* the threads woken in a wait, that have not got the lock yet
    sent,       \* how many messages were accepted: the k-th one is k
    received,   \* the messages received
    strayed     \* history: the sleepers whose signal another thread used up

channel == <<mPos, mCount, mItems, mStopped>>
vars == <<usage, mPos, mCount, mItems, mStopped, call, canRead, canWrite,
          woken, sent, received, strayed>>

Init ==
    /\ usage \in Usages
    /\ mPos = 0
    /\ mCount = 0
    /\ mItems = [i \in 0 .. Capacity - 1 |-> 0]
    /\ mStopped = FALSE
    /\ call = [t \in Threads |-> "none"]
    /\ canRead = {} /\ canWrite = {} /\ woken = {}
    /\ sent = 0
    /\ received = <<>>
    /\ strayed = {}
-----------------------------------------------------------------------------
Waiting(t) == t \in canRead \cup canWrite

\* A thread begins a blocking call; it does not have the lock yet.
Begin(t, c) ==
    /\ call[t] = "none"
    /\ c \in usage[t] \cap Blocking
    /\ c = "send" => sent < MaxMessages
    /\ call' = [call EXCEPT ![t] = c]
    /\ UNCHANGED <<usage, channel, canRead, canWrite, woken, sent, received, strayed>>

\* The thread gets the lock, for the first time or at the end of a wait.
Locked(t, c) == call[t] = c /\ ~Waiting(t)

\* One waiter of the condition variable, if there is one, is woken: the
\* waiters that are left, and the thread that is not among them any more.
Signalled(cv) ==
    IF cv = {} THEN {<<cv, {}>>} ELSE {<<cv \ {w}, {w}>> : w \in cv}

(***************************************************************************)
(* History.  mCanWrite has two kinds of waiters, and a timed wait may end  *)
(* with its signal unused: the one signal of a call can go to a thread     *)
(* that has no use for it.  Those it was meant for, losers, are strayed    *)
(* until they are woken or what they wait for is gone again.               *)
(***************************************************************************)
MustWait(c, count) ==
    \/ c = "send" /\ count >= Capacity
    \/ c = "waitForEmpty" /\ count > 0
    \/ c \in {"receive", "timedReceive"} /\ count = 0

Stray(losers) ==
    strayed' = {t \in (strayed \cup losers) \cap (canRead' \cup canWrite') :
                   ~MustWait(call[t], mCount')}

\* Mutant: the wrong condition variable is signalled.
afterWrite_canWrite(t, success) ==
    /\ mCount' = IF success THEN mCount + 1 ELSE mCount
    /\ \E s \in Signalled(canWrite) :
          /\ canWrite' = s[1]
          /\ woken' = (woken \ {t}) \cup s[2]
    /\ UNCHANGED canRead
    /\ Stray({})

\* Mutant: the signal only for the first message of an empty channel.
afterWrite_first(t, success) ==
    /\ mCount' = IF success THEN mCount + 1 ELSE mCount
    /\ \E s \in IF mCount = 0 THEN Signalled(canRead) ELSE {<<canRead, {}>>} :
          /\ canRead' = s[1]
          /\ woken' = (woken \ {t}) \cup s[2]
    /\ UNCHANGED canWrite
    /\ Stray({})

afterWrite(t, success) ==
    /\ mCount' = IF success THEN mCount + 1 ELSE mCount
    /\ \E s \in Signalled(canRead) :
          /\ canRead' = s[1]
          /\ woken' = (woken \ {t}) \cup s[2]
    /\ UNCHANGED canWrite
    /\ Stray({})

afterRead(t, success) ==
    /\ mPos' = IF ~success THEN mPos ELSE IF mPos + 1 = Capacity THEN 0 ELSE mPos + 1
    /\ mCount' = IF success THEN mCount - 1 ELSE mCount
    /\ UNCHANGED canRead
    /\ \E s \in Signalled(canWrite) :
          /\ canWrite' = s[1]
          /\ woken' = (woken \ {t}) \cup s[2]
          /\ Stray(IF success /\ \E w \in s[2] : call[w] = "waitForEmpty" THEN s[1] ELSE {})

Return(t) == call' = [call EXCEPT ![t] = "none"]

WaitCanRead(t) ==
    /\ canRead' = canRead \cup {t}
    /\ woken' = woken \ {t}
    /\ UNCHANGED <<usage, channel, call, canWrite, sent, received, strayed>>

WaitCanWrite(t) ==
    /\ canWrite' = canWrite \cup {t}
    /\ woken' = woken \ {t}
    /\ UNCHANGED <<usage, channel, call, canRead, sent, received, strayed>>

\* The slot that the next message goes to.
WritePos ==
    LET result == mPos + mCount IN
    IF result >= Capacity THEN result - Capacity ELSE result

\* The message goes into its slot (success), or nothing happens to the ring.
Write(t, success) ==
    /\ IF success
       THEN /\ mItems' = [mItems EXCEPT ![WritePos] = sent + 1]
            /\ sent' = sent + 1
       ELSE UNCHANGED <<mItems, sent>>
    /\ afterWrite(t, success)
    /\ UNCHANGED <<usage, mPos, mStopped, received>>

Read(t, success) ==
    /\ received' = IF success THEN Append(received, mItems[mPos]) ELSE received
    /\ afterRead(t, success)
    /\ UNCHANGED <<usage, mItems, mStopped, sent>>
-----------------------------------------------------------------------------
\* Mutant: one wait instead of a loop around it.
WriteBlocked_once(t) == mCount >= Capacity /\ ~mStopped /\ t \notin woken

\* The condition of the loop in beforeWrite.
WriteBlocked(t) == mCount >= Capacity /\ ~mStopped

send(t) ==
    /\ Locked(t, "send")
    /\ \/ WriteBlocked(t) /\ WaitCanWrite(t)
       \/ ~WriteBlocked(t) /\ Write(t, ~mStopped) /\ Return(t)

trySend(t) ==
    /\ "trySend" \in usage[t] /\ call[t] = "none"
    /\ sent < MaxMessages
    /\ Write(t, mCount < Capacity /\ ~mStopped)
    /\ UNCHANGED call

\* The condition of the loops in beforeRead and beforeTimedRead.
ReadBlocked == mCount = 0 /\ ~mStopped

receive(t) ==
    /\ Locked(t, "receive")
    /\ \/ ReadBlocked /\ WaitCanRead(t)
       \/ ~ReadBlocked /\ Read(t, ~mStopped) /\ Return(t)

tryReceive(t) ==
    /\ "tryReceive" \in usage[t] /\ call[t] = "none"
    /\ Read(t, mCount > 0 /\ ~mStopped)
    /\ UNCHANGED call

timedReceive(t) ==
    /\ Locked(t, "timedReceive")
    /\ \/ ReadBlocked /\ WaitCanRead(t)
       \/ ~ReadBlocked /\ Read(t, ~mStopped) /\ Return(t)

\* timedWait returns false: the call ends without a look at mCount.  This may
\* also happen to a waiter that has been signalled; the signal is used up.
timedReceive_timeout(t) ==
    /\ call[t] = "timedReceive"
    /\ t \in canRead \cup woken
    /\ \E s \in Signalled(canWrite) :
          /\ canWrite' = s[1]
          /\ woken' = (woken \ {t}) \cup s[2]
    /\ canRead' = canRead \ {t}
    /\ Return(t)
    /\ UNCHANGED <<usage, channel, sent, received>>
    /\ Stray(IF t \in woken THEN canRead ELSE {})

waitForEmpty(t) ==
    /\ Locked(t, "waitForEmpty")
    /\ \/ mCount > 0 /\ WaitCanWrite(t)
       \/ /\ mCount = 0
          /\ woken' = woken \ {t}
          /\ Return(t)
          /\ UNCHANGED <<usage, channel, canRead, canWrite, sent, received, strayed>>

\* Mutant: the count is left, so that waitForEmpty goes on waiting.
stop_keepsCount ==
    /\ MayStop /\ ~mStopped
    /\ mStopped' = TRUE
    /\ woken' = woken \cup canRead \cup canWrite
    /\ canRead' = {} /\ canWrite' = {} /\ strayed' = {}
    /\ UNCHANGED <<usage, mPos, mCount, mItems, call, sent, received>>

\* Called by any thread that has the channel.
stop ==
    /\ MayStop /\ ~mStopped
    /\ mStopped' = TRUE
    /\ mCount' = 0
    /\ woken' = woken \cup canRead \cup canWrite
    /\ canRead' = {} /\ canWrite' = {} /\ strayed' = {}
    /\ UNCHANGED <<usage, mPos, mItems, call, sent, received>>

\* ConditionVariable: "spurious wakeups are always a possibility".
SpuriousWakeup(t) ==
    /\ Waiting(t)
    /\ canRead' = canRead \ {t}
    /\ canWrite' = canWrite \ {t}
    /\ woken' = woken \cup {t}
    /\ UNCHANGED <<usage, channel, call, sent, received>>
    /\ Stray({})
-----------------------------------------------------------------------------
\* What a thread does on its own inside a blocking call.
Step(t) ==
    \/ send(t) \/ receive(t) \/ timedReceive(t) \/ timedReceive_timeout(t)
    \/ waitForEmpty(t)

Next ==
    \/ \E t \in Threads :
          \/ \E c \in Blocking : Begin(t, c)
          \/ Step(t) \/ trySend(t) \/ tryReceive(t)
          \/ SpuriousWakeup(t)
    \/ stop

Safety == Init /\ [][Next]_vars

(***************************************************************************)
(* A thread that has the lock to get gets it, and receivers receive again  *)
(* and again, as their loops do.  Nobody has to send, to stop or to wake   *)
(* up without a signal.                                                    *)
(***************************************************************************)
Receives(t) == \E c \in {"receive", "timedReceive"} : Begin(t, c)

Fairness == \A t \in Threads : WF_vars(Step(t)) /\ WF_vars(Receives(t))

Spec == Safety /\ Fairness
-----------------------------------------------------------------------------
\* The position and the count stay within the ring, and only threads wait.
TypeOK ==
    /\ usage \in Usages
    /\ mPos \in 0 .. Capacity - 1
    /\ mCount \in 0 .. Capacity
    /\ mItems \in [0 .. Capacity - 1 -> Nat]
    /\ mStopped \in BOOLEAN
    /\ call \in [Threads -> Blocking \cup {"none"}]
    /\ canRead \subseteq Threads
    /\ canWrite \subseteq Threads
    /\ woken \subseteq Threads
    /\ sent \in Nat
    /\ received \in Seq(Nat)
    /\ strayed \subseteq canRead \cup canWrite

\* The messages in the ring, the oldest first.
SlotOf(i) == IF mPos + i <= Capacity THEN mPos + i - 1 ELSE mPos + i - 1 - Capacity

Contents == [i \in 1 .. mCount |-> mItems[SlotOf(i)]]

Queue == INSTANCE MessageQueue
    WITH queue <- Contents, stopped <- mStopped

(***************************************************************************)
(* The ring under the lock is a bounded FIFO: no call puts a message into  *)
(* a slot that is in use, skips or repeats one, or works on a stopped      *)
(* channel, whatever other threads do while it waits.                      *)
(***************************************************************************)
ImplementsQueue == Queue!Spec

AwakeIn(cs) == {t \in Threads : call[t] \in cs /\ ~Waiting(t)}

\* Who sleeps in one of these calls, although no signal meant for it has strayed.
AsleepIn(cs) == {t \in (canRead \cup canWrite) \ strayed : call[t] \in cs}

(***************************************************************************)
(* No wakeup is lost but to a thread of the wrong kind.  While a receiver  *)
(* sleeps there are no more messages than receivers that are awake and     *)
(* about to take one; while a sender sleeps there are no more free slots   *)
(* than senders awake; who waits for the channel to be empty does not      *)
(* sleep when it is, unless a sender is about to write.  Each wakeup of    *)
(* one thread, by afterWrite and afterRead, must make up for exactly one   *)
(* message or slot.  The exception is strayed: afterRead's signal woke     *)
(* somebody in waitForEmpty (AsyncMetricsReporter.cpp:46 sends beside the  *)
(* waitForEmpty at 55), or a receiver timed out with a signal in hand.     *)
(***************************************************************************)
NoLostWakeup ==
    /\ AsleepIn({"receive", "timedReceive"}) # {} =>
          mCount <= Cardinality(AwakeIn({"receive", "timedReceive"}))
    /\ AsleepIn({"send"}) # {} => Capacity - mCount <= Cardinality(AwakeIn({"send"}))
    /\ AsleepIn({"waitForEmpty"}) # {} => mCount > 0 \/ AwakeIn({"send"}) # {}

(***************************************************************************)
(* send and waitForEmpty return, all but those whose signal has strayed,   *)
(* and stop() ends every pending call, strayed or not ("Abort the          *)
(* currently pending operations", MessageChannel.h:34).  The bound on the  *)
(* messages stands for senders that pause: without a pause one call may    *)
(* lose every race for the lock.                                           *)
(***************************************************************************)
CallsReturn ==
    \A t \in Threads :
        /\ (call[t] \in {"send", "waitForEmpty"}) ~> (call[t] = "none" \/ t \in strayed)
        /\ (mStopped /\ call[t] # "none") ~> (call[t] = "none")

(***************************************************************************)
(* Every message sent is received in the end, unless the channel is        *)
(* stopped.                                                                *)
(***************************************************************************)
AllReceived == \A k \in 1 .. MaxMessages : (sent = k) ~> (Len(received) >= k \/ mStopped)
=============================================================================
