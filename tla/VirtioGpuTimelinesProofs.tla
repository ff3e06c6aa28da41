---------------------- MODULE VirtioGpuTimelinesProofs ----------------------
(***************************************************************************)
(* Proofs about VirtioGpuTimelines, for all sets of rings, all numbers of  *)
(* tasks and fences, and both modes.                                       *)
(***************************************************************************)
EXTENDS VirtioGpuTimelines, SequenceTheorems, TLAPS

(* What a task or a fence of a queue looks like. *)
LEMMA ItemShape ==
    ASSUME NEW x \in Item
    PROVE  /\ x.kind \in {"task", "fence"}
           /\ x.kind = "task" => x = Task(x.id) /\ x.id \in TaskId
           /\ x.kind = "fence" => x = Fence(x.id) /\ x.id \in FenceId
  BY DEF Item, Task, Fence

(* Every action of the timelines preserves the types of the variables. *)
LEMMA TypeStep == TypeOK /\ [Next]_vars => TypeOK'
  <1> SUFFICES ASSUME TypeOK, [Next]_vars PROVE TypeOK'
    OBVIOUS
  <1> USE RingsAssumption, BoundsAssumption, ModeAssumption
  <1>1. ASSUME NEW r \in Rings, enqueueTask(r) PROVE TypeOK'
    <2>1. mNextId \in TaskId
      BY <1>1 DEF enqueueTask, TypeOK, TaskId
    <2>2. Task(mNextId) \in Item
      BY <2>1 DEF Item
    <2> QED BY <1>1, <2>1, <2>2 DEF enqueueTask, TypeOK, poller
  <1>2. ASSUME NEW r \in Rings, enqueueFence(r) PROVE TypeOK'
    <2>1. Fence(nextFence) \in Item
      BY <1>2 DEF enqueueFence, TypeOK, FenceId, Item
    <2> QED BY <1>2, <2>1 DEF enqueueFence, TypeOK, PollIfAsync
  <1>3. ASSUME NEW t \in TaskId, notifyTaskCompletion(t) PROVE TypeOK'
    <2>1. CASE Notifiable(t)
      <3>1. mHasCompleted' \in [TaskId -> BOOLEAN] /\ aborted' \in BOOLEAN
        BY <1>3, <2>1, Zenon DEF notifyTaskCompletion, TypeOK
      <3>2. pollRing' \in Rings \cup {NoRing} /\ pollPos' \in Nat
        BY <1>3, <2>1 DEF notifyTaskCompletion, TypeOK, PollIfAsync
      <3> QED BY <1>3, <2>1, <3>1, <3>2
              DEF notifyTaskCompletion, TypeOK, PollIfAsync, history
    <2>2. CASE ~Notifiable(t)
      BY <1>3, <2>2, Zenon DEF notifyTaskCompletion, TypeOK, poller, history
    <2> QED BY <2>1, <2>2
  <1>4. CASE poll
    BY <1>4 DEF poll, TypeOK, timeline, caller, history
  <1>5. ASSUME AtItem PROVE CurrentItem \in Item
    BY <1>5 DEF AtItem, CurrentItem, TypeOK
  <1>6. CASE poll_locked_fence
    <2>1. CurrentItem.id \in FenceId
      BY <1>5, <1>6, ItemShape DEF poll_locked_fence
    <2> QED BY <1>6, <2>1 DEF poll_locked_fence, AtItem, TypeOK, timeline, caller
  <1>7. CASE poll_locked_task
    BY <1>7 DEF poll_locked_task, TypeOK, timeline, caller, history
  <1>8. CASE poll_locked_erase
    BY <1>8 DEF poll_locked_erase, TypeOK, caller, history
  <1>9. CASE UNCHANGED vars
    BY <1>9 DEF vars, timeline, poller, caller, history, TypeOK
  <1> QED BY <1>1, <1>2, <1>3, <1>4, <1>6, <1>7, <1>8, <1>9 DEF Next, poll_locked

(* Type correctness of the timelines. *)
THEOREM TypeCorrect == Safety => []TypeOK
  <1>1. Init => TypeOK
    <2> SUFFICES ASSUME Init PROVE TypeOK
      OBVIOUS
    <2>1. mHasCompleted \in [TaskId -> BOOLEAN] /\ aborted \in BOOLEAN
      BY Zenon DEF Init
    <2> QED BY <2>1, BoundsAssumption DEF Init, TypeOK
  <1> QED BY <1>1, TypeStep, PTL DEF Safety
-----------------------------------------------------------------------------
(* The inductive invariant, one lemma per group of actions. *)

(* The items of a ring's log and queue. *)
LEMMA RingTypes ==
    ASSUME TypeOK, NEW q \in Rings
    PROVE  /\ log[q] \in Seq(Item) /\ mQueue[q] \in Seq(Item)
           /\ signalled[q] \in Seq(FenceId)
           /\ Len(log[q]) \in Nat /\ Len(mQueue[q]) \in Nat
           /\ Erased(q) \in Int /\ Passed(q) \in Int
           /\ \A i \in 1..Len(log[q]) : log[q][i] \in Item
           /\ \A i \in 1..Len(mQueue[q]) : mQueue[q][i] \in Item
  BY DEF TypeOK, Erased, Passed

(* A step that leaves a ring's log, queue and signals alone, and only adds *)
(* tasks, fences and completions, keeps the ring's invariant.              *)
LEMMA RingFrame ==
    ASSUME TypeOK, TypeOK', NEW q \in Rings, RingInv(q),
           mQueue'[q] = mQueue[q], log'[q] = log[q], signalled'[q] = signalled[q],
           Passed(q)' = Passed(q),
           q = pollRing' => pollPos' =< Len(mQueue[q]),
           nextFence =< nextFence', mNextId =< mNextId',
           \A t \in TaskId : t < mNextId => mRing'[t] = mRing[t],
           \A t \in TaskId : mHasCompleted[t] => mHasCompleted'[t]
    PROVE  RingInv(q)'
  <1>1. Erased(q)' = Erased(q)
    BY DEF Erased
  <1>2. Abstract!Signalled(q)' = Abstract!Signalled(q)
    BY DEF Abstract!Signalled
  <1>3. \A i \in 1..Len(log[q]) :
          /\ log[q][i].kind = "task" => log[q][i].id \in TaskId
          /\ log[q][i].kind = "fence" => log[q][i].id \in FenceId
    BY RingTypes, ItemShape
  <1>31. Passed(q) \in 0..Len(log[q])
    BY RingTypes DEF RingInv, QueueIsSuffix, Passed, Erased, TypeOK
  <1>4. QueueIsSuffix(q)'
    BY <1>1 DEF RingInv, QueueIsSuffix
  <1>5. PassedItems(q)'
    <2> SUFFICES ASSUME NEW i \in 1..Passed(q)
                 PROVE  /\ log[q][i].kind = "fence" => log[q][i].id \in Abstract!Signalled(q)
                        /\ log[q][i].kind = "task" => mHasCompleted'[log[q][i].id]
      BY <1>2 DEF PassedItems
    <2>1. i \in 1..Len(log[q])
      BY <1>31, RingTypes
    <2> QED BY <1>3, <2>1 DEF RingInv, PassedItems
  <1>6. PendingFences(q)'
    BY <1>2 DEF RingInv, PendingFences
  <1>7. FencesNumbered(q)'
    <2>1. nextFence \in Int /\ nextFence' \in Int /\ FenceId \subseteq Int
      BY BoundsAssumption DEF TypeOK, FenceId
    <2>2. ASSUME NEW f \in FenceId, f < nextFence PROVE f < nextFence'
      <3>1. f \in Int
        BY <2>1
      <3> QED BY <2>1, <2>2, <3>1
    <2>3. Abstract!Signalled(q) \subseteq FenceId
      BY RingTypes DEF Abstract!Signalled
    <2> QED BY <1>2, <1>3, <2>2, <2>3 DEF RingInv, FencesNumbered
  <1>8. TasksNumbered(q)'
    <2>1. mNextId \in Int /\ mNextId' \in Int /\ TaskId \subseteq Int
      BY BoundsAssumption DEF TypeOK, TaskId
    <2>2. \A t \in TaskId : t < mNextId => t < mNextId' /\ mRing'[t] = mRing[t]
      BY <2>1
    <2> QED BY <1>3, <2>2 DEF RingInv, TasksNumbered
  <1> QED BY <1>4, <1>5, <1>6, <1>7, <1>8 DEF RingInv

(* Appending an item x to the log and to the queue of ring r, which is not *)
(* being polled before the step and, if it is after, from its beginning.   *)
LEMMA RingAppend ==
    ASSUME TypeOK, TypeOK', NEW r \in Rings, RingInv(r), NEW x \in Item,
           log'[r] = Append(log[r], x), mQueue'[r] = Append(mQueue[r], x),
           signalled'[r] = signalled[r], r # pollRing, r = pollRing' => pollPos' = 0,
           nextFence =< nextFence', mNextId =< mNextId',
           x.kind = "fence" => nextFence =< x.id /\ x.id < nextFence',
           x.kind = "task" => x.id < mNextId' /\ mRing'[x.id] = r,
           \A t \in TaskId : t < mNextId => mRing'[t] = mRing[t],
           mHasCompleted' = mHasCompleted
    PROVE  RingInv(r)'
  <1> DEFINE n == Len(log[r])
             m == Len(mQueue[r])
  <1>1. /\ n \in Nat /\ Len(log'[r]) = n + 1
        /\ \A i \in 1..n : log'[r][i] = log[r][i]
        /\ log'[r][n + 1] = x
    BY RingTypes
  <1>2. /\ m \in Nat /\ Len(mQueue'[r]) = m + 1
        /\ \A i \in 1..m : mQueue'[r][i] = mQueue[r][i]
        /\ mQueue'[r][m + 1] = x
    BY RingTypes
  <1>21. Erased(r) = n - m /\ Erased(r)' = (n + 1) - (m + 1)
    BY <1>1, <1>2 DEF Erased
  <1>22. Erased(r) >= 0 /\ \A i \in 1..m : mQueue[r][i] = log[r][Erased(r) + i]
    BY DEF RingInv, QueueIsSuffix
  <1> HIDE DEF n, m
  <1>3. Erased(r) \in Nat /\ Erased(r)' = Erased(r) /\ n = Erased(r) + m
    BY <1>1, <1>2, <1>21, <1>22
  <1>4. Passed(r) = Erased(r) /\ Passed(r)' = Erased(r)
    <2>1. Passed(r) = Erased(r) + 0 /\ Passed(r)' = Erased(r)' + 0
      BY DEF Passed
    <2> QED BY <1>3, <2>1
  <1>5. Abstract!Signalled(r)' = Abstract!Signalled(r)
    BY DEF Abstract!Signalled
  <1>6. \A i \in 1..n :
          /\ log[r][i].kind = "task" => log[r][i].id \in TaskId
          /\ log[r][i].kind = "fence" => log[r][i].id \in FenceId
    BY RingTypes, ItemShape DEF n
  <1>7. QueueIsSuffix(r)'
    <2>1. ASSUME NEW i \in 1..(m + 1)
          PROVE  mQueue'[r][i] = log'[r][Erased(r) + i]
      <3>1. CASE i = m + 1
        <4>1. Erased(r) + i = n + 1
          BY <1>2, <1>3, <3>1
        <4> QED BY <1>1, <1>2, <3>1, <4>1
      <3>2. CASE i \in 1..m
        <4>1. Erased(r) + i \in 1..n
          BY <1>2, <1>3, <3>2
        <4>2. log'[r][Erased(r) + i] = log[r][Erased(r) + i]
          BY <1>1, <4>1
        <4>3. mQueue'[r][i] = mQueue[r][i] /\ mQueue[r][i] = log[r][Erased(r) + i]
          BY <1>2, <1>22, <3>2
        <4> QED BY <4>2, <4>3
      <3>3. i = m + 1 \/ i \in 1..m
        BY <1>2
      <3> QED BY <3>1, <3>2, <3>3
    <2>2. r = pollRing' => pollPos' =< m + 1
      BY <1>2
    <2>3. Erased(r)' >= 0
      BY <1>3
    <2>4. \A i \in 1..Len(mQueue'[r]) : mQueue'[r][i] = log'[r][Erased(r)' + i]
      BY <1>2, <1>3, <2>1
    <2> QED BY <1>2, <2>2, <2>3, <2>4 DEF QueueIsSuffix
  <1>8. PassedItems(r)'
    <2> SUFFICES ASSUME NEW i \in 1..Passed(r)
                 PROVE  /\ log'[r][i].kind = "fence" => log'[r][i].id \in Abstract!Signalled(r)
                        /\ log'[r][i].kind = "task" => mHasCompleted[log'[r][i].id]
      BY <1>4, <1>5 DEF PassedItems
    <2>1. i \in 1..n
      BY <1>1, <1>2, <1>3, <1>4
    <2> QED BY <1>1, <2>1 DEF RingInv, PassedItems
  <1>9. PendingFences(r)'
    <2> SUFFICES ASSUME NEW i \in (Passed(r) + 1)..(n + 1), log'[r][i].kind = "fence"
                 PROVE  log'[r][i].id \notin Abstract!Signalled(r)
      BY <1>1, <1>4, <1>5 DEF PendingFences
    <2>1. CASE i = n + 1
      <3>1. x.kind = "fence" /\ log'[r][i] = x
        BY <1>1, <2>1
      <3>2. x.id \in Int /\ nextFence \in Int
        BY <3>1, ItemShape, BoundsAssumption DEF FenceId, TypeOK
      <3>3. ~(x.id < nextFence)
        BY <3>1, <3>2
      <3> QED BY <3>1, <3>3 DEF RingInv, FencesNumbered
    <2>2. CASE i \in (Passed(r) + 1)..n
      <3>1. i \in 1..n /\ i \in (Passed(r) + 1)..Len(log[r])
        BY <1>1, <1>3, <1>4, <2>2 DEF n
      <3> QED BY <1>1, <3>1 DEF RingInv, PendingFences
    <2> QED BY <1>1, <1>3, <1>4, <2>1, <2>2
  <1>10. FencesNumbered(r)'
    <2>1. nextFence \in Int /\ nextFence' \in Int /\ FenceId \subseteq Int
      BY BoundsAssumption DEF TypeOK, FenceId
    <2>2. Abstract!Signalled(r) \subseteq FenceId
      BY RingTypes DEF Abstract!Signalled
    <2>3. \A f \in Abstract!Signalled(r) : f < nextFence'
      <3> TAKE f \in Abstract!Signalled(r)
      <3>1. f \in Int /\ f < nextFence
        BY <2>1, <2>2 DEF RingInv, FencesNumbered
      <3> QED BY <2>1, <3>1
    <2>4. ASSUME NEW i \in 1..(n + 1), log'[r][i].kind = "fence"
          PROVE  log'[r][i].id < nextFence' /\ (i \in 1..n => log'[r][i].id < nextFence)
                    /\ log'[r][i].id \in Int
      <3>1. CASE i = n + 1
        <4>1. log'[r][i] = x /\ x.kind = "fence"
          BY <1>1, <2>4, <3>1
        <4>2. x.id \in Int
          BY <2>1, <4>1, ItemShape
        <4>3. i \notin 1..n
          BY <1>1, <3>1
        <4> QED BY <4>1, <4>2, <4>3
      <3>2. CASE i \in 1..n
        <4>1. log[r][i].id \in Int /\ log[r][i].id < nextFence
          BY <1>1, <1>6, <2>1, <2>4, <3>2 DEF RingInv, FencesNumbered, n
        <4> QED BY <1>1, <2>1, <3>2, <4>1
      <3> QED BY <1>1, <3>1, <3>2
    <2>5. ASSUME NEW i \in 1..(n + 1), NEW j \in 1..(n + 1),
                 log'[r][i].kind = "fence", log'[r][j].kind = "fence",
                 log'[r][j].id = log'[r][i].id
          PROVE  i = j
      <3>1. CASE i \in 1..n /\ j \in 1..n
        BY <1>1, <2>5, <3>1 DEF RingInv, FencesNumbered, n
      <3>2. CASE i \in 1..n /\ j = n + 1
        BY <1>1, <2>1, <2>4, <2>5, <3>2
      <3>3. CASE i = n + 1 /\ j \in 1..n
        BY <1>1, <2>1, <2>4, <2>5, <3>3
      <3> QED BY <1>1, <3>1, <3>2, <3>3
    <2> QED BY <1>1, <1>5, <2>3, <2>4, <2>5 DEF FencesNumbered
  <1>11. TasksNumbered(r)'
    <2> SUFFICES ASSUME NEW i \in 1..(n + 1), log'[r][i].kind = "task"
                 PROVE  log'[r][i].id < mNextId' /\ mRing'[log'[r][i].id] = r
      BY <1>1 DEF TasksNumbered
    <2>1. CASE i = n + 1
      BY <1>1, <2>1
    <2>2. CASE i \in 1..n
      <3>1. /\ log[r][i].id \in TaskId /\ log[r][i].id < mNextId
            /\ mRing[log[r][i].id] = r
        BY <1>1, <1>6, <2>2 DEF RingInv, TasksNumbered, n
      <3>2. log[r][i].id < mNextId'
        BY <3>1, BoundsAssumption DEF TaskId, TypeOK
      <3> QED BY <1>1, <2>2, <3>1, <3>2
    <2> QED BY <1>1, <2>1, <2>2
  <1> QED BY <1>7, <1>8, <1>9, <1>10, <1>11 DEF RingInv

LEMMA EnqueueTaskStep ==
    ASSUME TypeOK, TypeOK', TimelineInv, NEW r \in Rings, enqueueTask(r)
    PROVE  TimelineInv'
  <1> USE BoundsAssumption, RingsAssumption
  <1> DEFINE x == Task(mNextId)
  <1>1. /\ mNextId \in TaskId /\ mNextId' = mNextId + 1 /\ mNextId \in Nat
        /\ mRing' = [mRing EXCEPT ![mNextId] = r]
        /\ mTaskIdToTask' = mTaskIdToTask \cup {mNextId}
        /\ outstanding' = outstanding \cup {mNextId}
        /\ mQueue' = [mQueue EXCEPT ![r] = Append(@, x)]
        /\ log' = [log EXCEPT ![r] = Append(@, x)]
        /\ x \in Item /\ x.kind = "task" /\ x.id = mNextId
        /\ pollRing = NoRing /\ pollRing' = NoRing
        /\ UNCHANGED <<mWithAsyncCallback, pollTodo, mHasCompleted, nextFence,
                       aborted, signalled>>
    BY DEF enqueueTask, TypeOK, TaskId, Task, Item, LockFree, poller
  <1> HIDE DEF x
  <1>2. nextFence' = nextFence /\ nextFence \in Nat /\ TaskId \subseteq Nat
    BY <1>1 DEF TypeOK, TaskId
  <1>3. /\ mRing'[mNextId] = r
        /\ \A t \in TaskId : t < mNextId => mRing'[t] = mRing[t]
    BY <1>1, <1>2 DEF TypeOK
  <1>4. ASSUME NEW q \in Rings PROVE RingInv(q)'
    <2>1. RingInv(q) /\ q # pollRing /\ q # pollRing'
      BY <1>1 DEF TimelineInv
    <2>2. CASE q = r
      <3>1. log'[r] = Append(log[r], x) /\ mQueue'[r] = Append(mQueue[r], x)
        BY <1>1 DEF TypeOK
      <3> QED BY <1>1, <1>2, <1>3, <2>1, <2>2, <3>1, RingAppend
    <2>3. CASE q # r
      <3>1. log'[q] = log[q] /\ mQueue'[q] = mQueue[q]
        BY <1>1, <2>3 DEF TypeOK
      <3>2. Passed(q)' = Passed(q)
        BY <2>1, <3>1 DEF Passed, Erased
      <3> QED BY <1>1, <1>2, <1>3, <2>1, <3>1, <3>2, RingFrame
    <2> QED BY <2>2, <2>3
  <1>5. ASSUME NEW t \in TaskId PROVE TaskInv(t)'
    <2>1. TaskInv(t) /\ t \in Nat
      BY <1>2 DEF TimelineInv
    <2>2. CASE t = mNextId
      BY <1>1, <1>3, <2>1, <2>2 DEF TaskInv
    <2>3. CASE t # mNextId
      <3>1. t < mNextId' <=> t < mNextId
        BY <1>1, <2>1, <2>3
      <3> QED BY <1>1, <1>3, <2>1, <2>3, <3>1 DEF TaskInv
    <2> QED BY <2>2, <2>3
  <1>6. OthersBlocked'
    <2> SUFFICES ASSUME mWithAsyncCallback, NEW q \in Rings
                 PROVE  pollTodo = {} /\ Blocked(q)'
      BY <1>1 DEF OthersBlocked
    <2>1. pollTodo = {} /\ Blocked(q)
      BY <1>1 DEF TimelineInv, OthersBlocked
    <2>2. CASE q # r \/ mQueue[q] # <<>>
      <3>1. mQueue[q] # <<>> => mQueue'[q] # <<>> /\ Head(mQueue'[q]) = Head(mQueue[q])
        BY <1>1, RingTypes
      <3>2. mQueue[q] = <<>> => mQueue'[q] = <<>>
        BY <1>1, <2>2 DEF TypeOK
      <3> QED BY <1>1, <2>1, <3>1, <3>2 DEF Blocked
    <2>3. CASE q = r /\ mQueue[q] = <<>>
      <3>1. Head(mQueue'[q]) = x
        BY <1>1, <2>3 DEF TypeOK
      <3>2. ~mHasCompleted[mNextId]
        BY <1>1 DEF TimelineInv, TaskInv
      <3> QED BY <1>1, <2>1, <3>1, <3>2 DEF Blocked
    <2> QED BY <2>2, <2>3
  <1>7. NeverAborts'
    BY <1>1 DEF TimelineInv, NeverAborts
  <1> QED BY <1>4, <1>5, <1>6, <1>7 DEF TimelineInv

LEMMA EnqueueFenceStep ==
    ASSUME TypeOK, TypeOK', TimelineInv, NEW r \in Rings, enqueueFence(r)
    PROVE  TimelineInv'
  <1> USE BoundsAssumption, RingsAssumption
  <1> DEFINE x == Fence(nextFence)
  <1>1. /\ nextFence \in FenceId /\ nextFence' = nextFence + 1 /\ nextFence \in Nat
        /\ mQueue' = [mQueue EXCEPT ![r] = Append(@, x)]
        /\ log' = [log EXCEPT ![r] = Append(@, x)]
        /\ x \in Item /\ x.kind = "fence" /\ x.id = nextFence
        /\ pollRing = NoRing /\ pollPos' = 0
        /\ pollRing' = IF mWithAsyncCallback THEN r ELSE NoRing
        /\ UNCHANGED <<mWithAsyncCallback, mNextId, mTaskIdToTask, mRing,
                       mHasCompleted, outstanding>>
        /\ UNCHANGED <<pollTodo, aborted, signalled>>
    BY DEF enqueueFence, TypeOK, FenceId, Fence, Item, LockFree, PollIfAsync
  <1> HIDE DEF x
  <1>2. mNextId' = mNextId /\ mNextId \in Nat
    BY <1>1 DEF TypeOK
  <1>4. ASSUME NEW q \in Rings PROVE RingInv(q)'
    <2>1. RingInv(q) /\ q # pollRing
      BY <1>1 DEF TimelineInv
    <2>2. CASE q = r
      <3>1. log'[r] = Append(log[r], x) /\ mQueue'[r] = Append(mQueue[r], x)
        BY <1>1 DEF TypeOK
      <3> QED BY <1>1, <1>2, <2>1, <2>2, <3>1, RingAppend
    <2>3. CASE q # r
      <3>1. log'[q] = log[q] /\ mQueue'[q] = mQueue[q] /\ q # pollRing'
        BY <1>1, <2>3 DEF TypeOK
      <3>2. Passed(q)' = Passed(q)
        BY <2>1, <3>1 DEF Passed, Erased
      <3> QED BY <1>1, <1>2, <2>1, <3>1, <3>2, RingFrame
    <2> QED BY <2>2, <2>3
  <1>5. ASSUME NEW t \in TaskId PROVE TaskInv(t)'
    BY <1>1 DEF TimelineInv, TaskInv
  <1>6. OthersBlocked'
    <2> SUFFICES ASSUME mWithAsyncCallback
                 PROVE  pollTodo' = {} /\ \A q \in Rings \ {pollRing'} : Blocked(q)'
      BY <1>1 DEF OthersBlocked
    <2>0. pollTodo' = {}
      BY <1>1 DEF TimelineInv, OthersBlocked
    <2> SUFFICES ASSUME NEW q \in Rings \ {pollRing'} PROVE Blocked(q)'
      BY <2>0
    <2>1. Blocked(q) /\ q # r
      BY <1>1 DEF TimelineInv, OthersBlocked
    <2>2. mQueue'[q] = mQueue[q]
      BY <1>1 DEF TypeOK
    <2> QED BY <1>1, <2>1, <2>2 DEF Blocked
  <1>7. NeverAborts'
    BY <1>1 DEF TimelineInv, NeverAborts
  <1> QED BY <1>4, <1>5, <1>6, <1>7 DEF TimelineInv

(* The tasks at the head of ring q's queue belong to ring q. *)
LEMMA HeadTask ==
    ASSUME TypeOK, NEW q \in Rings, RingInv(q), mQueue[q] # <<>>, Head(mQueue[q]).kind = "task"
    PROVE  Head(mQueue[q]).id \in TaskId /\ mRing[Head(mQueue[q]).id] = q
  <1> DEFINE n == Len(log[q])
             m == Len(mQueue[q])
  <1>1. n \in Nat /\ m \in Nat /\ m # 0 /\ Head(mQueue[q]) = mQueue[q][1]
    BY RingTypes
  <1>2. Erased(q) = n - m /\ Erased(q) >= 0
    BY DEF Erased, RingInv, QueueIsSuffix
  <1> HIDE DEF n, m
  <1>3. 1 \in 1..m /\ Erased(q) + 1 \in 1..n
    BY <1>1, <1>2
  <1>4. mQueue[q][1] = log[q][Erased(q) + 1]
    BY <1>3 DEF m, RingInv, QueueIsSuffix
  <1>5. log[q][Erased(q) + 1] \in Item
    BY <1>3, RingTypes DEF n
  <1> QED BY <1>1, <1>3, <1>4, <1>5, ItemShape DEF RingInv, TasksNumbered, n

LEMMA NotifyStep ==
    ASSUME TypeOK, TypeOK', TimelineInv, NEW t \in TaskId, notifyTaskCompletion(t)
    PROVE  TimelineInv'
  <1> USE BoundsAssumption, RingsAssumption
  <1>1. TaskInv(t) /\ t \in outstanding /\ pollRing = NoRing
    BY DEF TimelineInv, notifyTaskCompletion, LockFree
  <1>2. Notifiable(t) /\ t < mNextId /\ mRing[t] \in Rings
    BY <1>1 DEF TaskInv, Notifiable
  <1>3. /\ mHasCompleted' = [mHasCompleted EXCEPT ![t] = TRUE]
        /\ pollRing' = IF mWithAsyncCallback THEN mRing[t] ELSE NoRing
        /\ pollPos' = 0 /\ outstanding' = outstanding \ {t}
        /\ UNCHANGED <<mNextId, mTaskIdToTask, mRing, mQueue, nextFence>>
        /\ UNCHANGED <<mWithAsyncCallback, log, signalled, pollTodo, aborted>>
    BY <1>2 DEF notifyTaskCompletion, PollIfAsync, history
  <1>4. /\ mHasCompleted'[t]
        /\ \A u \in TaskId : u # t => (mHasCompleted'[u] <=> mHasCompleted[u])
    BY <1>3, Zenon DEF TypeOK
  <1>5. mNextId' = mNextId /\ nextFence' = nextFence /\ mNextId \in Nat /\ nextFence \in Nat
    BY <1>3 DEF TypeOK
  <1>6. ASSUME NEW q \in Rings PROVE RingInv(q)'
    <2>1. RingInv(q) /\ q # pollRing
      BY <1>1 DEF TimelineInv
    <2>2. log'[q] = log[q] /\ mQueue'[q] = mQueue[q] /\ signalled'[q] = signalled[q]
      BY <1>3
    <2>3. Passed(q)' = Passed(q)
      BY <1>3, <2>1, <2>2 DEF Passed, Erased
    <2>4. pollPos' =< Len(mQueue[q])
      BY <1>3, RingTypes
    <2>5. \A u \in TaskId : mHasCompleted[u] => mHasCompleted'[u]
      BY <1>4
    <2> QED BY <1>3, <1>5, <2>1, <2>2, <2>3, <2>4, <2>5, RingFrame
  <1>7. ASSUME NEW u \in TaskId PROVE TaskInv(u)'
    <2>1. TaskInv(u)
      BY DEF TimelineInv
    <2>2. CASE u = t
      BY <1>2, <1>3, <1>4, <2>2 DEF TaskInv
    <2>3. CASE u # t
      BY <1>3, <1>4, <2>1, <2>3 DEF TaskInv
    <2> QED BY <2>2, <2>3
  <1>8. OthersBlocked'
    <2> SUFFICES ASSUME mWithAsyncCallback
                 PROVE  pollTodo' = {} /\ \A q \in Rings \ {pollRing'} : Blocked(q)'
      BY <1>3 DEF OthersBlocked
    <2>0. pollTodo' = {}
      BY <1>3 DEF TimelineInv, OthersBlocked
    <2> SUFFICES ASSUME NEW q \in Rings \ {pollRing'} PROVE Blocked(q)'
      BY <2>0
    <2>1. Blocked(q) /\ RingInv(q) /\ q # mRing[t]
      BY <1>1, <1>3 DEF TimelineInv, OthersBlocked
    <2>2. CASE mQueue[q] = <<>>
      BY <1>3, <2>1, <2>2 DEF Blocked
    <2>3. CASE mQueue[q] # <<>>
      <3>1. /\ Head(mQueue[q]).kind = "task" /\ ~mHasCompleted[Head(mQueue[q]).id]
            /\ Head(mQueue[q]).id \in TaskId /\ mRing[Head(mQueue[q]).id] = q
        BY <2>1, <2>3, HeadTask DEF Blocked
      <3> QED BY <1>3, <1>4, <2>1, <3>1 DEF Blocked
    <2> QED BY <2>2, <2>3
  <1>9. NeverAborts'
    BY <1>3 DEF TimelineInv, NeverAborts
  <1> QED BY <1>6, <1>7, <1>8, <1>9 DEF TimelineInv

(* poll(), which only exists in synchronous mode. *)
LEMMA PollStep ==
    ASSUME TypeOK, TypeOK', TimelineInv, poll
    PROVE  TimelineInv'
  <1>1. /\ pollRing = NoRing /\ pollPos' = 0 /\ ~mWithAsyncCallback
        /\ UNCHANGED <<mNextId, mTaskIdToTask, mRing, mHasCompleted, mQueue>>
        /\ UNCHANGED <<mWithAsyncCallback, nextFence, outstanding, aborted, log,
                       signalled>>
    BY DEF poll, LockFree, timeline, caller, history
  <1>2. mNextId' = mNextId /\ nextFence' = nextFence /\ mNextId \in Nat /\ nextFence \in Nat
    BY <1>1, BoundsAssumption DEF TypeOK
  <1>3. ASSUME NEW q \in Rings PROVE RingInv(q)'
    <2>1. RingInv(q) /\ q # pollRing
      BY <1>1, RingsAssumption DEF TimelineInv
    <2>2. Passed(q)' = Passed(q)
      BY <1>1, <2>1 DEF Passed, Erased
    <2>3. pollPos' =< Len(mQueue[q])
      BY <1>1, RingTypes
    <2> QED BY <1>1, <1>2, <2>1, <2>2, <2>3, RingFrame
  <1>4. ASSUME NEW t \in TaskId PROVE TaskInv(t)'
    BY <1>1 DEF TimelineInv, TaskInv
  <1> QED BY <1>1, <1>3, <1>4 DEF TimelineInv, OthersBlocked, NeverAborts

(* The item poll_locked looks at, as an item of the log. *)
LEMMA CurrentInLog ==
    ASSUME TypeOK, AtItem, RingInv(pollRing)
    PROVE  /\ pollRing \in Rings
           /\ Passed(pollRing) \in Nat /\ Passed(pollRing) + 1 \in 1..Len(log[pollRing])
           /\ CurrentItem = log[pollRing][Passed(pollRing) + 1]
           /\ CurrentItem \in Item
  <1> DEFINE q == pollRing
             n == Len(log[q])
             m == Len(mQueue[q])
  <1>1. q \in Rings /\ pollPos \in Nat /\ pollPos < m
    BY DEF AtItem, TypeOK
  <1>2. n \in Nat /\ m \in Nat
    BY <1>1, RingTypes
  <1>3. Erased(q) = n - m /\ Erased(q) >= 0 /\ Passed(q) = Erased(q) + pollPos
    BY <1>1, <1>2 DEF Erased, Passed, RingInv, QueueIsSuffix
  <1> HIDE DEF n, m
  <1>4. pollPos + 1 \in 1..m /\ Erased(q) + (pollPos + 1) \in 1..n
    BY <1>1, <1>2, <1>3
  <1>5. Passed(q) \in Nat /\ Passed(q) + 1 = Erased(q) + (pollPos + 1)
    BY <1>1, <1>2, <1>3
  <1>6. mQueue[q][pollPos + 1] = log[q][Erased(q) + (pollPos + 1)]
    BY <1>4 DEF m, RingInv, QueueIsSuffix
  <1>7. mQueue[q][pollPos + 1] \in Item
    BY <1>1, <1>4, RingTypes DEF m
  <1> QED BY <1>1, <1>4, <1>5, <1>6, <1>7 DEF CurrentItem, n

(* What a sequence contains after an Append. *)
LEMMA RangeAppend ==
    ASSUME NEW S, NEW s \in Seq(S), NEW x \in S, NEW u, u = Append(s, x)
    PROVE  {u[k] : k \in DOMAIN u} = {s[k] : k \in DOMAIN s} \cup {x}
  <1> DEFINE n == Len(s)
  <1>1. /\ n \in Nat /\ DOMAIN s = 1..n /\ DOMAIN u = 1..(n + 1)
        /\ u[n + 1] = x /\ \A k \in 1..n : u[k] = s[k]
    OBVIOUS
  <1> HIDE DEF n
  <1>2. 1..(n + 1) = 1..n \cup {n + 1}
    BY <1>1
  <1> QED BY <1>1, <1>2

(* poll_locked passes one item: a fence it signals or a completed task. *)
LEMMA PassStep ==
    ASSUME TypeOK, TypeOK', TimelineInv, poll_locked_fence \/ poll_locked_task
    PROVE  TimelineInv'
  <1>0. pollRing \in Rings
    BY DEF poll_locked_fence, poll_locked_task, AtItem, TypeOK
  <1> PICK p \in Rings : p = pollRing
    BY <1>0
  <1> DEFINE c == Passed(p) + 1
  <1>1. /\ AtItem /\ pollPos' = pollPos + 1 /\ pollPos \in Nat
        /\ UNCHANGED <<mNextId, mTaskIdToTask, mRing, mHasCompleted, mQueue>>
        /\ UNCHANGED <<mWithAsyncCallback, pollRing, pollTodo, nextFence,
                       outstanding, aborted, log>>
    BY DEF poll_locked_fence, poll_locked_task, timeline, caller, history, TypeOK
  <1>2. mNextId' = mNextId /\ nextFence' = nextFence /\ mNextId \in Nat /\ nextFence \in Nat
    BY <1>1, BoundsAssumption DEF TypeOK
  <1>3. RingInv(p)
    BY DEF TimelineInv
  <1>4. /\ Passed(p) \in Nat /\ c \in 1..Len(log[p]) /\ Len(log[p]) \in Nat
        /\ CurrentItem = log[p][c] /\ CurrentItem \in Item
    BY <1>1, <1>3, CurrentInLog, RingTypes
  <1>5. /\ CurrentItem.kind = "fence" =>
              /\ CurrentItem.id \in FenceId
              /\ signalled' = [signalled EXCEPT ![p] = Append(@, CurrentItem.id)]
        /\ CurrentItem.kind = "task" => mHasCompleted[CurrentItem.id] /\ signalled' = signalled
        /\ CurrentItem.kind \in {"task", "fence"}
    BY <1>4, ItemShape DEF poll_locked_fence, poll_locked_task, history
  <1>6. Passed(p)' = c /\ Erased(p)' = Erased(p)
    <2>1. Passed(p) = Erased(p) + pollPos /\ Passed(p)' = Erased(p)' + pollPos'
      BY <1>1 DEF Passed
    <2>2. Erased(p)' = Erased(p) /\ Erased(p) \in Int
      BY <1>1, <1>3, RingTypes DEF Erased
    <2> QED BY <1>1, <2>1, <2>2
  <1>7. Abstract!Signalled(p)' = IF CurrentItem.kind = "fence"
                                 THEN Abstract!Signalled(p) \cup {CurrentItem.id}
                                 ELSE Abstract!Signalled(p)
    <2>1. CASE CurrentItem.kind = "fence"
      <3>1. signalled'[p] = Append(signalled[p], CurrentItem.id) /\ signalled[p] \in Seq(FenceId)
        BY <1>3, <1>5, <2>1 DEF TypeOK
      <3> QED BY <1>5, <2>1, <3>1, RangeAppend DEF Abstract!Signalled
    <2>2. CASE CurrentItem.kind = "task"
      BY <1>5, <2>2 DEF Abstract!Signalled
    <2> QED BY <1>5, <2>1, <2>2
  <1> HIDE DEF c
  <1>8. RingInv(p)'
    <2>1. QueueIsSuffix(p)'
      <3>1. pollPos' =< Len(mQueue[p])
        BY <1>1, <1>3, RingTypes DEF AtItem
      <3> QED BY <1>1, <1>3, <1>6, <3>1 DEF RingInv, QueueIsSuffix
    <2>2. PassedItems(p)'
      <3> SUFFICES ASSUME NEW i \in 1..c
                   PROVE  /\ log[p][i].kind = "fence" => log[p][i].id \in Abstract!Signalled(p)'
                          /\ log[p][i].kind = "task" => mHasCompleted[log[p][i].id]
        BY <1>1, <1>6 DEF PassedItems
      <3>1. CASE i = c
        BY <1>4, <1>5, <1>7, <3>1
      <3>2. CASE i # c
        <4>1. i \in 1..Passed(p)
          BY <1>4, <3>2 DEF c
        <4> QED BY <1>3, <1>7, <4>1 DEF RingInv, PassedItems
      <3> QED BY <3>1, <3>2
    <2>3. PendingFences(p)'
      <3> SUFFICES ASSUME NEW i \in (c + 1)..Len(log[p]), log[p][i].kind = "fence"
                   PROVE  log[p][i].id \notin Abstract!Signalled(p)'
        BY <1>1, <1>6 DEF PendingFences
      <3>1. i # c /\ i \in 1..Len(log[p]) /\ i \in (Passed(p) + 1)..Len(log[p])
        BY <1>4 DEF c
      <3>2. log[p][i].id \notin Abstract!Signalled(p)
        BY <1>3, <3>1 DEF RingInv, PendingFences
      <3>3. CurrentItem.kind = "fence" => log[p][i].id # CurrentItem.id
        BY <1>3, <1>4, <3>1 DEF RingInv, FencesNumbered
      <3> QED BY <1>7, <3>2, <3>3
    <2>4. FencesNumbered(p)'
      <3>1. CurrentItem.kind = "fence" => CurrentItem.id < nextFence
        BY <1>3, <1>4 DEF RingInv, FencesNumbered
      <3>2. \A f \in Abstract!Signalled(p)' : f < nextFence
        BY <1>3, <1>7, <3>1 DEF RingInv, FencesNumbered
      <3> QED BY <1>1, <1>3, <3>2 DEF RingInv, FencesNumbered
    <2>5. TasksNumbered(p)'
      BY <1>1, <1>3 DEF RingInv, TasksNumbered
    <2> QED BY <2>1, <2>2, <2>3, <2>4, <2>5 DEF RingInv
  <1>9. ASSUME NEW q \in Rings PROVE RingInv(q)'
    <2>1. CASE q = p
      BY <1>8, <2>1
    <2>2. CASE q # p
      <3>1. RingInv(q) /\ q # pollRing'
        BY <1>1, <2>2 DEF TimelineInv
      <3>2. signalled'[q] = signalled[q]
        BY <1>5, <2>2 DEF TypeOK
      <3>3. Passed(q)' = Passed(q)
        BY <1>1, <2>2 DEF Passed, Erased
      <3> QED BY <1>1, <1>2, <3>1, <3>2, <3>3, RingFrame
    <2> QED BY <2>1, <2>2
  <1>10. ASSUME NEW t \in TaskId PROVE TaskInv(t)'
    BY <1>1 DEF TimelineInv, TaskInv
  <1>11. OthersBlocked'
    BY <1>1 DEF TimelineInv, OthersBlocked, Blocked
  <1> QED BY <1>1, <1>9, <1>10, <1>11 DEF TimelineInv, NeverAborts

(* What is left of a queue after its first k items are erased. *)
LEMMA Suffix ==
    ASSUME NEW S, NEW s \in Seq(S), NEW k \in Nat, NEW m, m = Len(s), k =< m,
           NEW u, u = SubSeq(s, k + 1, m)
    PROVE  /\ Len(u) = m - k
           /\ \A i \in 1..(m - k) : u[i] = s[k + i]
  <1>1. m \in Nat /\ DOMAIN s = 1..m
    OBVIOUS
  <1>2. \A i \in (k + 1)..m : s[i] \in S
    BY <1>1
  <1>3. /\ Len(u) = IF k + 1 =< m THEN m - (k + 1) + 1 ELSE 0
        /\ \A i \in 1..(m - (k + 1) + 1) : u[i] = s[k + 1 + i - 1]
    BY <1>1, <1>2, SubSeqProperties
  <1>4. m - (k + 1) + 1 = m - k
    BY <1>1
  <1>5. ASSUME NEW i \in 1..(m - k) PROVE k + 1 + i - 1 = k + i
    BY <1>1
  <1> QED BY <1>1, <1>3, <1>4, <1>5

(* poll_locked stops and erases what it has passed. *)
LEMMA EraseStep ==
    ASSUME TypeOK, TypeOK', TimelineInv, poll_locked_erase
    PROVE  TimelineInv'
  <1>0. pollRing \in Rings
    BY DEF poll_locked_erase, TypeOK
  <1> PICK p \in Rings : p = pollRing
    BY <1>0
  <1> DEFINE m == Len(mQueue[p])
             n == Len(log[p])
  <1>1. /\ RingInv(p) /\ pollPos \in Nat /\ ShouldStop /\ pollPos' = 0
        /\ mQueue' = [mQueue EXCEPT ![p] = SubSeq(@, pollPos + 1, Len(@))]
        /\ mTaskIdToTask' = mTaskIdToTask \ TasksOf(mQueue[p], pollPos)
        /\ UNCHANGED <<mNextId, mRing, mHasCompleted, nextFence, outstanding>>
        /\ UNCHANGED <<mWithAsyncCallback, aborted, log, signalled>>
        /\ pollTodo = {} => pollRing' = NoRing /\ pollTodo' = {}
    BY DEF poll_locked_erase, caller, history, TimelineInv, TypeOK
  <1>2. mNextId' = mNextId /\ nextFence' = nextFence /\ mNextId \in Nat /\ nextFence \in Nat
    BY <1>1, BoundsAssumption DEF TypeOK
  <1>3. /\ n \in Nat /\ m \in Nat /\ Erased(p) = n - m /\ Erased(p) >= 0 /\ pollPos =< m
        /\ Passed(p) = Erased(p) + pollPos
        /\ \A i \in 1..m : mQueue[p][i] = log[p][Erased(p) + i]
    BY <1>1, RingTypes DEF Erased, Passed, RingInv, QueueIsSuffix
  <1>4. /\ Len(mQueue'[p]) = m - pollPos
        /\ \A i \in 1..(m - pollPos) : mQueue'[p][i] = mQueue[p][pollPos + i]
    <2>1. mQueue'[p] = SubSeq(mQueue[p], pollPos + 1, m) /\ mQueue[p] \in Seq(Item)
      BY <1>1 DEF TypeOK
    <2>2. pollPos \in Nat /\ pollPos =< m
      BY <1>1, <1>3
    <2> QED BY <2>1, <2>2, Suffix
  <1>5. Erased(p)' = n - (m - pollPos)
    BY <1>1, <1>4 DEF Erased
  <1> HIDE DEF m, n
  <1>6. /\ Erased(p)' = Erased(p) + pollPos /\ Erased(p)' \in Nat /\ m - pollPos \in Nat
        /\ Passed(p)' = Passed(p)
    <2>1. Erased(p)' = Erased(p) + pollPos /\ Erased(p)' \in Nat /\ m - pollPos \in Nat
      BY <1>1, <1>3, <1>5
    <2>2. Passed(p)' = Erased(p)' + 0
      BY <1>1 DEF Passed
    <2> QED BY <1>1, <1>3, <2>1, <2>2
  <1>7. RingInv(p)'
    <2>1. QueueIsSuffix(p)'
      <3>1. ASSUME NEW i \in 1..(m - pollPos) PROVE mQueue'[p][i] = log[p][Erased(p)' + i]
        <4>1. pollPos + i \in 1..m /\ Erased(p)' + i = Erased(p) + (pollPos + i)
          BY <1>1, <1>3, <1>6
        <4> QED BY <1>3, <1>4, <3>1, <4>1
      <3>2. pollPos' =< Len(mQueue'[p])
        BY <1>1, <1>4, <1>6
      <3>3. \A i \in 1..Len(mQueue'[p]) : mQueue'[p][i] = log'[p][Erased(p)' + i]
        BY <1>1, <1>4, <3>1
      <3>4. Erased(p)' >= 0
        BY <1>6
      <3> QED BY <3>2, <3>3, <3>4 DEF QueueIsSuffix
    <2>2. Abstract!Signalled(p)' = Abstract!Signalled(p)
      BY <1>1 DEF Abstract!Signalled
    <2>3. PassedItems(p)'
      BY <1>1, <1>6, <2>2 DEF RingInv, PassedItems
    <2>4. PendingFences(p)'
      BY <1>1, <1>6, <2>2 DEF RingInv, PendingFences
    <2>5. FencesNumbered(p)'
      BY <1>1, <2>2 DEF RingInv, FencesNumbered
    <2>6. TasksNumbered(p)'
      BY <1>1 DEF RingInv, TasksNumbered
    <2> QED BY <2>1, <2>3, <2>4, <2>5, <2>6 DEF RingInv
  <1>8. ASSUME NEW q \in Rings PROVE RingInv(q)'
    <2>1. CASE q = p
      BY <1>7, <2>1
    <2>2. CASE q # p
      <3>1. RingInv(q) /\ mQueue'[q] = mQueue[q]
        BY <1>1, <2>2 DEF TimelineInv, TypeOK
      <3>2. Erased(q)' = Erased(q) /\ Erased(q) \in Int
        BY <1>1, <3>1, RingTypes DEF Erased
      <3>3. Passed(q) = Erased(q) + 0 /\ Passed(q)' = Erased(q)' + 0
        BY <1>1, <2>2 DEF Passed
      <3>4. Passed(q)' = Passed(q)
        BY <3>2, <3>3
      <3>5. pollPos' =< Len(mQueue[q])
        BY <1>1, RingTypes
      <3> QED BY <1>1, <1>2, <3>1, <3>4, <3>5, RingFrame
    <2> QED BY <2>1, <2>2
  <1>9. ASSUME NEW t \in TasksOf(mQueue[p], pollPos) PROVE mHasCompleted[t]
    <2>1. PICK i \in 1..pollPos : mQueue[p][i].kind = "task" /\ mQueue[p][i].id = t
      BY DEF TasksOf
    <2>2. i \in 1..m /\ Erased(p) + i \in 1..Passed(p)
      BY <1>1, <1>3
    <2>3. mQueue[p][i] = log[p][Erased(p) + i]
      BY <1>3, <2>2
    <2>4. PassedItems(p)
      BY <1>1 DEF RingInv
    <2>5. log[p][Erased(p) + i].kind = "task" => mHasCompleted[log[p][Erased(p) + i].id]
      BY <2>2, <2>4 DEF PassedItems
    <2> QED BY <2>1, <2>3, <2>5
  <1>10. ASSUME NEW t \in TaskId PROVE TaskInv(t)'
    BY <1>1, <1>9 DEF TimelineInv, TaskInv
  <1>11. OthersBlocked'
    <2> SUFFICES ASSUME mWithAsyncCallback
                 PROVE  pollTodo' = {} /\ \A q \in Rings \ {pollRing'} : Blocked(q)'
      BY <1>1 DEF OthersBlocked
    <2>1. pollTodo' = {}
      BY <1>1 DEF TimelineInv, OthersBlocked
    <2> SUFFICES ASSUME NEW q \in Rings PROVE Blocked(q)'
      BY <2>1
    <2>2. CASE q # p
      BY <1>1, <2>2 DEF TimelineInv, OthersBlocked, Blocked, TypeOK
    <2>3. CASE q = p
      <3> SUFFICES ASSUME mQueue'[p] # <<>>
                   PROVE  /\ Head(mQueue'[p]).kind = "task"
                          /\ ~mHasCompleted[Head(mQueue'[p]).id]
        BY <1>1, <2>3 DEF Blocked
      <3>1. mQueue'[p] \in Seq(Item)
        BY <1>1 DEF TypeOK
      <3>2. Len(mQueue'[p]) # 0 /\ Head(mQueue'[p]) = mQueue'[p][1]
        BY <3>1
      <3>3. pollPos < m /\ 1 \in 1..(m - pollPos)
        <4>1. m - pollPos # 0
          BY <1>4, <3>2
        <4>2. pollPos \in Nat /\ m \in Nat /\ pollPos =< m
          BY <1>1, <1>3
        <4> QED BY <4>1, <4>2
      <3>4. AtItem /\ Head(mQueue'[p]) = CurrentItem
        BY <1>1, <1>4, <3>2, <3>3, RingsAssumption DEF AtItem, CurrentItem, m
      <3> QED BY <1>1, <3>4 DEF ShouldStop
    <2> QED BY <2>2, <2>3
  <1> QED BY <1>1, <1>8, <1>10, <1>11 DEF TimelineInv, NeverAborts
-----------------------------------------------------------------------------
(* TimelineInv is an invariant: the queues, the task table and the signals *)
(* already made always agree with the history of the rings.                *)
THEOREM TimelineCorrect == Safety => []TimelineInv
  <1>1. Init => TimelineInv
    <2> SUFFICES ASSUME Init PROVE TimelineInv
      OBVIOUS
    <2>1. ASSUME NEW r \in Rings PROVE RingInv(r)
      <3>1. /\ log[r] = <<>> /\ mQueue[r] = <<>> /\ signalled[r] = <<>>
            /\ r # pollRing /\ Erased(r) = 0 /\ Passed(r) = 0
        BY RingsAssumption DEF Init, Erased, Passed
      <3> QED BY <3>1 DEF RingInv, QueueIsSuffix, PassedItems, PendingFences,
                          FencesNumbered, TasksNumbered, Abstract!Signalled
    <2>2. ASSUME NEW t \in TaskId PROVE TaskInv(t)
      <3>1. ~mHasCompleted[t] /\ ~(t < mNextId) /\ outstanding = {}
        BY BoundsAssumption DEF Init, TaskId
      <3> QED BY <3>1 DEF TaskInv
    <2>3. OthersBlocked /\ NeverAborts
      BY DEF Init, OthersBlocked, Blocked, NeverAborts
    <2> QED BY <2>1, <2>2, <2>3 DEF TimelineInv
  <1>2. TypeOK /\ TypeOK' /\ TimelineInv /\ [Next]_vars => TimelineInv'
    <2> SUFFICES ASSUME TypeOK, TypeOK', TimelineInv, [Next]_vars PROVE TimelineInv'
      OBVIOUS
    <2>1. CASE UNCHANGED vars
      <3>1. /\ UNCHANGED <<mNextId, mTaskIdToTask, mRing, mHasCompleted, mQueue>>
            /\ UNCHANGED <<mWithAsyncCallback, pollRing, pollPos, pollTodo,
                           nextFence, outstanding, aborted>>
            /\ log' = log /\ signalled' = signalled
        BY <2>1 DEF vars, timeline, poller, caller, history
      <3>2. mNextId \in Nat /\ nextFence \in Nat
        BY BoundsAssumption DEF TypeOK
      <3>3. ASSUME NEW q \in Rings PROVE RingInv(q)'
        <4>1. RingInv(q) /\ (q = pollRing' => pollPos' =< Len(mQueue[q]))
          BY <3>1 DEF TimelineInv, RingInv, QueueIsSuffix
        <4>2. Passed(q)' = Passed(q)
          BY <3>1 DEF Passed, Erased
        <4> QED BY <3>1, <3>2, <4>1, <4>2, RingFrame
      <3>4. ASSUME NEW t \in TaskId PROVE TaskInv(t)'
        BY <3>1 DEF TimelineInv, TaskInv
      <3> QED BY <3>1, <3>3, <3>4 DEF TimelineInv, OthersBlocked, Blocked, NeverAborts
    <2>2. CASE Next
      BY <2>2, EnqueueTaskStep, EnqueueFenceStep, NotifyStep, PollStep, PassStep, EraseStep
         DEF Next, poll_locked
    <2> QED BY <2>1, <2>2
  <1> QED BY <1>1, <1>2, TypeCorrect, PTL DEF Safety

(* notifyTaskCompletion never reaches one of its aborts. *)
THEOREM NoAbort == Safety => []NeverAborts
  <1>1. TimelineInv => NeverAborts
    BY DEF TimelineInv
  <1> QED BY <1>1, TimelineCorrect, PTL

(* With asynchronous callbacks no signallable fence is ever left in a      *)
(* queue once the lock is released.                                        *)
THEOREM AsyncNeverStuck == Safety => []AsyncDrained
  <1>1. TimelineInv => AsyncDrained
    BY RingsAssumption DEF TimelineInv, OthersBlocked, AsyncDrained, LockFree
  <1> QED BY <1>1, TimelineCorrect, PTL

-----------------------------------------------------------------------------
(* The map of tasks. *)

(* Item i of ring r's queue is the task t. *)
TaskAt(r, i, t) == mQueue[r][i].kind = "task" /\ mQueue[r][i].id = t

(* The map holds a task exactly when some queue does, and no queue holds a *)
(* task twice: what erasing its first items takes out of the map is then   *)
(* in no queue any more.                                                   *)
MapInv ==
    /\ \A t \in TaskId :
          t \in mTaskIdToTask <=> \E r \in Rings : \E i \in 1..Len(mQueue[r]) : TaskAt(r, i, t)
    /\ \A r \in Rings : \A i, j \in 1..Len(mQueue[r]) :
          mQueue[r][i].kind = "task" /\ TaskAt(r, j, mQueue[r][i].id) => i = j

(* A task in a queue is an earlier one, of that ring. *)
LEMMA QueuedTask ==
    ASSUME TypeOK, TimelineInv, NEW r \in Rings, NEW i \in 1..Len(mQueue[r]), NEW t, TaskAt(r, i, t)
    PROVE  t \in TaskId /\ t < mNextId /\ mRing[t] = r
  <1>1. QueueIsSuffix(r) /\ TasksNumbered(r)
    BY DEF TimelineInv, RingInv
  <1>2. Len(log[r]) \in Nat /\ Len(mQueue[r]) \in Nat /\ mQueue[r][i] \in Item
    BY RingTypes
  <1>3. PICK k \in Int : k = Erased(r) + i /\ k \in 1..Len(log[r])
    <2>1. PICK l \in Nat, m \in Nat, e \in Int :
             l = Len(log[r]) /\ m = Len(mQueue[r]) /\ e = Erased(r) /\ e = l - m /\ e >= 0
      BY <1>1, <1>2 DEF QueueIsSuffix, Erased
    <2>2. i \in 1..m
      BY <2>1
    <2>3. e = l - m /\ e >= 0
      BY <2>1
    <2>4. i \in Int /\ 1 =< i /\ i =< m
      BY <2>2
    <2>5. e + i \in Int /\ 1 =< e + i /\ e + i =< l
      BY <2>3, <2>4
    <2>6. e + i \in 1..l
      BY <2>5
    <2> QED BY <2>1, <2>5, <2>6
  <1>4. mQueue[r][i] = log[r][k]
    BY <1>1, <1>3 DEF QueueIsSuffix
  <1> QED BY <1>1, <1>2, <1>3, <1>4, ItemShape DEF TaskAt, TasksNumbered

(* An item appended to ring q's queue. *)
LEMMA AppendedQueue ==
    ASSUME TypeOK, NEW q \in Rings, NEW x \in Item,
           mQueue' = [mQueue EXCEPT ![q] = Append(@, x)]
    PROVE  /\ Len(mQueue[q]) \in Nat /\ Len(mQueue'[q]) = Len(mQueue[q]) + 1
           /\ mQueue'[q][Len(mQueue[q]) + 1] = x
           /\ \A i \in 1..Len(mQueue[q]) : mQueue'[q][i] = mQueue[q][i]
           /\ \A r \in Rings \ {q} : mQueue'[r] = mQueue[r]
  <1>1. mQueue[q] \in Seq(Item) /\ mQueue'[q] = Append(mQueue[q], x)
    BY DEF TypeOK
  <1>2. \A r \in Rings \ {q} : mQueue'[r] = mQueue[r]
    BY DEF TypeOK
  <1> QED BY <1>1, <1>2

LEMMA MapEnqueueTask ==
    ASSUME TypeOK, TimelineInv, MapInv, NEW q \in Rings, enqueueTask(q)
    PROVE  MapInv'
  <1>1. /\ mNextId \in TaskId /\ mNextId \in Int /\ mTaskIdToTask' = mTaskIdToTask \cup {mNextId}
        /\ mQueue' = [mQueue EXCEPT ![q] = Append(@, Task(mNextId))]
    BY BoundsAssumption DEF enqueueTask, TypeOK, TaskId
  <1>2. Task(mNextId) \in Item /\ Task(mNextId).kind = "task" /\ Task(mNextId).id = mNextId
    BY <1>1 DEF Item, Task
  <1> DEFINE n == Len(mQueue[q])
  <1>3. /\ n \in Nat /\ Len(mQueue'[q]) = n + 1 /\ mQueue'[q][n + 1] = Task(mNextId)
        /\ \A i \in 1..n : mQueue'[q][i] = mQueue[q][i]
        /\ \A r \in Rings \ {q} : mQueue'[r] = mQueue[r]
    BY <1>1, <1>2, AppendedQueue
  <1> HIDE DEF n
  <1>4. \A i \in 1..(n + 1) : i \in 1..n \/ i = n + 1
    BY <1>3
  <1>5. \A i \in 1..n : i \in 1..(n + 1) /\ i # n + 1
    BY <1>3
  <1>6. n + 1 \in 1..(n + 1)
    BY <1>3
  <1>7. \A r \in Rings : \A i \in 1..Len(mQueue[r]) : ~TaskAt(r, i, mNextId)
    <2>1. SUFFICES ASSUME NEW r \in Rings, NEW i \in 1..Len(mQueue[r]), TaskAt(r, i, mNextId)
                   PROVE  FALSE
      OBVIOUS
    <2>2. mNextId < mNextId
      BY <2>1, QueuedTask
    <2> QED BY <1>1, <2>2
  <1>8. ASSUME NEW t \in TaskId
        PROVE  (t \in mTaskIdToTask <=> \E r \in Rings : \E i \in 1..Len(mQueue[r]) : TaskAt(r, i, t))'
    <2>1. t \in mTaskIdToTask' <=> t = mNextId \/ t \in mTaskIdToTask
      BY <1>1
    <2>2. t \in mTaskIdToTask <=> \E r \in Rings : \E i \in 1..Len(mQueue[r]) : TaskAt(r, i, t)
      BY DEF MapInv
    <2>k. PICK k \in 1..(n + 1) : k = n + 1
      BY <1>6
    <2>3. ASSUME t = mNextId PROVE TaskAt(q, k, t)' /\ k \in 1..Len(mQueue'[q])
      BY <1>2, <1>3, <2>k, <2>3 DEF TaskAt
    <2>4. ASSUME NEW r \in Rings, NEW i \in 1..Len(mQueue[r]), TaskAt(r, i, t)
          PROVE  i \in 1..Len(mQueue'[r]) /\ TaskAt(r, i, t)'
      <3>1. CASE r = q
        BY <1>3, <1>5, <2>4, <3>1 DEF TaskAt, n
      <3>2. CASE r # q
        BY <1>3, <2>4, <3>2 DEF TaskAt
      <3> QED BY <3>1, <3>2
    <2>5. ASSUME NEW r \in Rings, NEW i \in 1..Len(mQueue'[r]), TaskAt(r, i, t)'
          PROVE  t = mNextId \/ (i \in 1..Len(mQueue[r]) /\ TaskAt(r, i, t))
      <3>1. CASE r = q
        BY <1>2, <1>3, <1>4, <2>5, <3>1 DEF TaskAt, n
      <3>2. CASE r # q
        BY <1>3, <2>5, <3>2 DEF TaskAt
      <3> QED BY <3>1, <3>2
    <2>6. t \in mTaskIdToTask' => \E r \in Rings : \E i \in 1..Len(mQueue'[r]) : TaskAt(r, i, t)'
      BY <2>1, <2>2, <2>3, <2>4
    <2>7. (\E r \in Rings : \E i \in 1..Len(mQueue'[r]) : TaskAt(r, i, t)') => t \in mTaskIdToTask'
      BY <2>1, <2>2, <2>5
    <2> QED BY <2>6, <2>7
  <1>9. ASSUME NEW r \in Rings, NEW i \in 1..Len(mQueue'[r]), NEW j \in 1..Len(mQueue'[r]),
               mQueue'[r][i].kind = "task", TaskAt(r, j, mQueue[r][i].id)'
        PROVE  i = j
    <2>1. CASE r # q
      BY <1>3, <1>9, <2>1 DEF TaskAt, MapInv
    <2>2. CASE r = q
      <3>1. CASE i \in 1..n /\ j \in 1..n
        BY <1>3, <1>9, <2>2, <3>1 DEF TaskAt, MapInv, n
      <3>2. CASE i = n + 1 /\ j \in 1..n
        <4>1. TaskAt(q, j, mNextId)
          BY <1>2, <1>3, <1>9, <2>2, <3>2 DEF TaskAt
        <4> QED BY <1>7, <3>2, <4>1 DEF n
      <3>3. CASE i \in 1..n /\ j = n + 1
        <4>1. TaskAt(q, i, mNextId)
          BY <1>2, <1>3, <1>9, <2>2, <3>3 DEF TaskAt
        <4> QED BY <1>7, <3>3, <4>1 DEF n
      <3> QED BY <1>3, <1>4, <2>2, <3>1, <3>2, <3>3
    <2> QED BY <2>1, <2>2
  <1> QED BY <1>8, <1>9 DEF MapInv

LEMMA MapEnqueueFence ==
    ASSUME TypeOK, MapInv, NEW q \in Rings, enqueueFence(q)
    PROVE  MapInv'
  <1>1. /\ nextFence \in FenceId /\ mTaskIdToTask' = mTaskIdToTask
        /\ mQueue' = [mQueue EXCEPT ![q] = Append(@, Fence(nextFence))]
    BY BoundsAssumption DEF enqueueFence, TypeOK, FenceId
  <1>2. Fence(nextFence) \in Item /\ Fence(nextFence).kind = "fence"
    BY <1>1 DEF Item, Fence
  <1> DEFINE n == Len(mQueue[q])
  <1>3. /\ n \in Nat /\ Len(mQueue'[q]) = n + 1 /\ mQueue'[q][n + 1] = Fence(nextFence)
        /\ \A i \in 1..n : mQueue'[q][i] = mQueue[q][i]
        /\ \A r \in Rings \ {q} : mQueue'[r] = mQueue[r]
    BY <1>1, <1>2, AppendedQueue
  <1> HIDE DEF n
  <1>4. \A i \in 1..(n + 1) : i \in 1..n \/ i = n + 1
    BY <1>3
  <1>5. \A i \in 1..n : i \in 1..(n + 1)
    BY <1>3
  <1>6. ASSUME NEW r \in Rings, NEW i \in 1..Len(mQueue[r])
        PROVE  i \in 1..Len(mQueue'[r]) /\ mQueue'[r][i] = mQueue[r][i]
    <2>1. CASE r = q
      BY <1>3, <1>5, <2>1 DEF n
    <2>2. CASE r # q
      BY <1>3, <2>2
    <2> QED BY <2>1, <2>2
  <1>7. ASSUME NEW r \in Rings, NEW i \in 1..Len(mQueue'[r]), mQueue'[r][i].kind = "task"
        PROVE  i \in 1..Len(mQueue[r]) /\ mQueue'[r][i] = mQueue[r][i]
    <2>1. CASE r = q
      BY <1>2, <1>3, <1>4, <1>7, <2>1 DEF n
    <2>2. CASE r # q
      BY <1>3, <2>2
    <2> QED BY <2>1, <2>2
  <1>8. ASSUME NEW t \in TaskId
        PROVE  (t \in mTaskIdToTask <=> \E r \in Rings : \E i \in 1..Len(mQueue[r]) : TaskAt(r, i, t))'
    <2>1. t \in mTaskIdToTask <=> \E r \in Rings : \E i \in 1..Len(mQueue[r]) : TaskAt(r, i, t)
      BY DEF MapInv
    <2> QED BY <1>1, <1>6, <1>7, <2>1 DEF TaskAt
  <1>9. ASSUME NEW r \in Rings, NEW i \in 1..Len(mQueue'[r]), NEW j \in 1..Len(mQueue'[r]),
               mQueue'[r][i].kind = "task", TaskAt(r, j, mQueue[r][i].id)'
        PROVE  i = j
    <2>1. i \in 1..Len(mQueue[r]) /\ mQueue'[r][i] = mQueue[r][i]
      BY <1>7, <1>9
    <2>2. j \in 1..Len(mQueue[r]) /\ mQueue'[r][j] = mQueue[r][j]
      BY <1>7, <1>9 DEF TaskAt
    <2> QED BY <1>9, <2>1, <2>2 DEF MapInv, TaskAt
  <1> QED BY <1>8, <1>9 DEF MapInv

(* What poll_locked erases is in no queue any more. *)
LEMMA MapErase ==
    ASSUME TypeOK, TimelineInv, MapInv, poll_locked_erase
    PROVE  MapInv'
  <1>0. PICK p \in Rings : p = pollRing
    BY DEF poll_locked_erase, TypeOK
  <1> DEFINE m == Len(mQueue[p])
  <1>1. /\ mQueue' = [mQueue EXCEPT ![p] = SubSeq(@, pollPos + 1, Len(@))]
        /\ mTaskIdToTask' = mTaskIdToTask \ TasksOf(mQueue[p], pollPos)
        /\ pollPos \in Nat /\ pollPos =< m /\ m \in Nat
    BY <1>0, RingTypes DEF poll_locked_erase, TypeOK, TimelineInv, RingInv, QueueIsSuffix
  <1>2. /\ Len(mQueue'[p]) = m - pollPos
        /\ \A i \in 1..(m - pollPos) : mQueue'[p][i] = mQueue[p][pollPos + i]
    <2>1. mQueue'[p] = SubSeq(mQueue[p], pollPos + 1, m) /\ mQueue[p] \in Seq(Item)
      BY <1>1 DEF TypeOK
    <2> QED BY <1>1, <2>1, Suffix
  <1>3. \A r \in Rings \ {p} : mQueue'[r] = mQueue[r]
    BY <1>1 DEF TypeOK
  <1>4. \A t : t \in TasksOf(mQueue[p], pollPos) <=> \E i \in 1..pollPos : TaskAt(p, i, t)
    BY DEF TasksOf, TaskAt
  <1> HIDE DEF m
  <1>5. \A i \in 1..(m - pollPos) : pollPos + i \in 1..m /\ pollPos + i \notin 1..pollPos
    BY <1>1
  <1>6. \A i \in 1..m : i \in 1..pollPos \/ (i - pollPos \in 1..(m - pollPos) /\ pollPos + (i - pollPos) = i)
    BY <1>1
  <1>7. \A i \in 1..pollPos : i \in 1..m
    BY <1>1
  <1>8. ASSUME NEW t \in TaskId
        PROVE  (t \in mTaskIdToTask <=> \E r \in Rings : \E i \in 1..Len(mQueue[r]) : TaskAt(r, i, t))'
    <2>1. t \in mTaskIdToTask <=> \E r \in Rings : \E i \in 1..Len(mQueue[r]) : TaskAt(r, i, t)
      BY DEF MapInv
    <2>2. ASSUME t \in mTaskIdToTask'
          PROVE  \E r \in Rings : \E i \in 1..Len(mQueue'[r]) : TaskAt(r, i, t)'
      <3>1. t \in mTaskIdToTask /\ ~\E i \in 1..pollPos : TaskAt(p, i, t)
        BY <1>1, <1>4, <2>2
      <3>r. PICK r \in Rings : \E i \in 1..Len(mQueue[r]) : TaskAt(r, i, t)
        BY <2>1, <3>1
      <3>2. PICK i \in 1..Len(mQueue[r]) : TaskAt(r, i, t)
        BY <3>r
      <3>3. CASE r # p
        BY <1>3, <3>2, <3>3 DEF TaskAt
      <3>4. CASE r = p
        <4>1. i \in 1..m
          BY <3>4 DEF m
        <4>2. i - pollPos \in 1..(m - pollPos) /\ pollPos + (i - pollPos) = i
          BY <1>6, <3>1, <3>2, <3>4, <4>1
        <4>3. PICK k \in 1..(m - pollPos) : pollPos + k = i
          BY <4>2
        <4>4. TaskAt(p, k, t)' /\ k \in 1..Len(mQueue'[p])
          BY <1>2, <3>2, <3>4, <4>3 DEF TaskAt
        <4> QED BY <4>4
      <3> QED BY <3>3, <3>4
    <2>3. ASSUME NEW r \in Rings, NEW i \in 1..Len(mQueue'[r]), TaskAt(r, i, t)'
          PROVE  t \in mTaskIdToTask'
      <3>1. CASE r # p
        <4>1. i \in 1..Len(mQueue[r]) /\ TaskAt(r, i, t)
          BY <1>3, <2>3, <3>1 DEF TaskAt
        <4>2. mRing[t] = r
          BY <4>1, QueuedTask
        <4>3. \A k \in 1..pollPos : ~TaskAt(p, k, t)
          BY <1>7, <3>1, <4>2, QueuedTask DEF m
        <4> QED BY <1>1, <1>4, <2>1, <4>1, <4>3
      <3>2. CASE r = p
        <4>1. i \in 1..(m - pollPos)
          BY <1>2, <3>2
        <4>2. pollPos + i \in 1..m /\ pollPos + i \notin 1..pollPos /\ TaskAt(p, pollPos + i, t)
          BY <1>2, <1>5, <2>3, <3>2, <4>1 DEF TaskAt
        <4>3. \A k \in 1..pollPos : ~TaskAt(p, k, t)
          <5>1. SUFFICES ASSUME NEW k \in 1..pollPos, TaskAt(p, k, t) PROVE FALSE
            OBVIOUS
          <5>2. k \in 1..m
            BY <1>7
          <5>3. k = pollPos + i
            BY <4>2, <5>1, <5>2 DEF MapInv, TaskAt, m
          <5> QED BY <4>2, <5>3
        <4>4. t \in mTaskIdToTask
          BY <2>1, <4>2 DEF m
        <4> QED BY <1>1, <1>4, <4>3, <4>4
      <3> QED BY <3>1, <3>2
    <2> QED BY <2>2, <2>3
  <1>9. ASSUME NEW r \in Rings, NEW i \in 1..Len(mQueue'[r]), NEW j \in 1..Len(mQueue'[r]),
               mQueue'[r][i].kind = "task", TaskAt(r, j, mQueue[r][i].id)'
        PROVE  i = j
    <2>1. CASE r # p
      BY <1>3, <1>9, <2>1 DEF TaskAt, MapInv
    <2>2. CASE r = p
      <3>1. i \in 1..(m - pollPos) /\ j \in 1..(m - pollPos)
        BY <1>2, <2>2
      <3>2. pollPos + i = pollPos + j
        <4>1. pollPos + i \in 1..m /\ pollPos + j \in 1..m
          BY <1>5, <3>1
        <4>2. mQueue[p][pollPos + i].kind = "task" /\ TaskAt(p, pollPos + j, mQueue[p][pollPos + i].id)
          BY <1>2, <1>9, <2>2, <3>1 DEF TaskAt
        <4> QED BY <4>1, <4>2 DEF MapInv, m
      <3> QED BY <1>1, <3>1, <3>2
    <2> QED BY <2>1, <2>2
  <1> QED BY <1>8, <1>9 DEF MapInv

(* The map of weak pointers and the queues agree: notifyTaskCompletion     *)
(* finds a task exactly as long as a timeline holds it.                    *)
THEOREM TaskMapCorrect == Safety => []TaskMapExact
  <1>1. Init => MapInv
    BY DEF Init, MapInv
  <1>2. TypeOK /\ TimelineInv /\ MapInv /\ [Next]_vars => MapInv'
    <2> SUFFICES ASSUME TypeOK, TimelineInv, MapInv, [Next]_vars PROVE MapInv'
      OBVIOUS
    <2>1. CASE UNCHANGED <<mQueue, mTaskIdToTask>>
      BY <2>1 DEF MapInv, TaskAt
    <2>2. CASE UNCHANGED vars
      BY <2>1, <2>2 DEF vars, timeline
    <2>3. ASSUME NEW t \in TaskId, notifyTaskCompletion(t) PROVE MapInv'
      BY <2>1, <2>3 DEF notifyTaskCompletion
    <2>4. CASE poll \/ poll_locked_fence \/ poll_locked_task
      BY <2>1, <2>4 DEF poll, poll_locked_fence, poll_locked_task, timeline
    <2> QED BY <2>2, <2>3, <2>4, MapEnqueueTask, MapEnqueueFence, MapErase DEF Next, poll_locked
  <1>3. TypeOK /\ TimelineInv /\ MapInv => TaskMapExact
    <2> SUFFICES ASSUME TypeOK, TimelineInv, MapInv PROVE TaskMapExact
      OBVIOUS
    <2>1. ASSUME NEW t
          PROVE  t \in UNION {TasksOf(mQueue[r], Len(mQueue[r])) : r \in Rings}
                   <=> \E r \in Rings : \E i \in 1..Len(mQueue[r]) : TaskAt(r, i, t)
      BY DEF TasksOf, TaskAt
    <2>2. ASSUME NEW r \in Rings, NEW i \in 1..Len(mQueue[r]), NEW t, TaskAt(r, i, t) PROVE t \in TaskId
      BY <2>2, QueuedTask
    <2>3. mTaskIdToTask \subseteq TaskId
      BY DEF TypeOK
    <2>4. ASSUME NEW t
          PROVE  t \in mTaskIdToTask <=> t \in UNION {TasksOf(mQueue[r], Len(mQueue[r])) : r \in Rings}
      BY <2>1, <2>2, <2>3 DEF MapInv
    <2> QED BY <2>4 DEF TaskMapExact
  <1> QED BY <1>1, <1>2, <1>3, TypeCorrect, TimelineCorrect, PTL DEF Safety
-----------------------------------------------------------------------------
(* The refinement. *)

(* Every step of the timelines is a step of FenceTimeline or changes       *)
(* nothing there: fences are signalled once, in order, after their tasks.  *)
THEOREM TimelinesRefine == Safety => Abstract!AbsSafety
  <1> DEFINE done == {t \in TaskId : mHasCompleted[t]}
  <1>1. Init => Abstract!AbsInit
    BY DEF Init, Abstract!AbsInit
  <1>2. TypeOK /\ TimelineInv /\ [Next]_vars => [Abstract!AbsNext]_(Abstract!absVars)
    <2> SUFFICES ASSUME TypeOK, TimelineInv, [Next]_vars
                 PROVE  Abstract!AbsNext \/ UNCHANGED Abstract!absVars
      OBVIOUS
    <2> USE BoundsAssumption, RingsAssumption
    <2>1. ASSUME NEW r \in Rings, enqueueTask(r) PROVE Abstract!Submit(r)
      <3>1. mNextId \in TaskId /\ Task(mNextId) \in Abstract!AbsItem
        BY <2>1 DEF enqueueTask, TypeOK, TaskId, Task, Abstract!AbsItem
      <3> QED BY <2>1, <3>1 DEF enqueueTask, Abstract!Submit
    <2>2. ASSUME NEW r \in Rings, enqueueFence(r) PROVE Abstract!Submit(r)
      <3>1. nextFence \in FenceId /\ Fence(nextFence) \in Abstract!AbsItem
        BY <2>2 DEF enqueueFence, TypeOK, FenceId, Fence, Abstract!AbsItem
      <3> QED BY <2>2, <3>1 DEF enqueueFence, Abstract!Submit
    <2>3. ASSUME NEW t \in TaskId, notifyTaskCompletion(t) PROVE Abstract!Complete(t)
      <3>1. Notifiable(t)
        BY <2>3 DEF notifyTaskCompletion, TimelineInv, TaskInv, Notifiable
      <3>2. /\ mHasCompleted' = [mHasCompleted EXCEPT ![t] = TRUE] /\ ~mHasCompleted[t]
            /\ log' = log /\ signalled' = signalled
        BY <2>3, <3>1 DEF notifyTaskCompletion, Notifiable, history
      <3>3. t \notin done /\ done' = done \cup {t}
        BY <3>2 DEF TypeOK
      <3> QED BY <3>2, <3>3 DEF Abstract!Complete
    <2>4. CASE poll
      BY <2>4 DEF poll, timeline, history, Abstract!absVars
    <2>5. CASE poll_locked_fence
      <3>0. pollRing \in Rings
        BY <2>5 DEF poll_locked_fence, AtItem, TypeOK
      <3> PICK p \in Rings : p = pollRing
        BY <3>0
      <3> DEFINE c == Passed(p) + 1
      <3>1. RingInv(p)
        BY DEF TimelineInv
      <3>2. /\ CurrentItem = log[p][c] /\ CurrentItem \in Item
            /\ Passed(p) \in Nat /\ c \in 1..Len(log[p]) /\ Len(log[p]) \in Nat
            /\ log[p] \in Seq(Item)
        BY <2>5, <3>1, CurrentInLog, RingTypes DEF poll_locked_fence
      <3>3. /\ log[p][c].kind = "fence" /\ log' = log /\ done' = done
            /\ signalled' = [signalled EXCEPT ![p] = Append(@, log[p][c].id)]
        BY <2>5, <3>2 DEF poll_locked_fence, timeline
      <3>4. log[p][c].id \notin Abstract!Signalled(p)
        BY <3>1, <3>2, <3>3 DEF RingInv, PendingFences
      <3>5. ASSUME NEW j \in 1..(c - 1)
            PROVE  /\ log[p][j].kind = "fence" => log[p][j].id \in Abstract!Signalled(p)
                   /\ log[p][j].kind = "task" => log[p][j].id \in done
        <4>1. j \in 1..Passed(p) /\ j \in 1..Len(log[p])
          BY <3>2
        <4>2. log[p][j].kind = "task" => log[p][j].id \in TaskId
          BY <3>2, <4>1, ItemShape
        <4> QED BY <3>1, <4>1, <4>2 DEF RingInv, PassedItems
      <3>6. Abstract!Due(p, c)
        BY <3>3, <3>4, <3>5 DEF Abstract!Due, Abstract!IdsBefore
      <3>7. c \in DOMAIN log[p]
        BY <3>2
      <3> QED BY <3>3, <3>6, <3>7 DEF Abstract!Signal, Abstract!AbsNext
    <2>6. CASE poll_locked_task
      BY <2>6 DEF poll_locked_task, timeline, history, Abstract!absVars
    <2>7. CASE poll_locked_erase
      BY <2>7 DEF poll_locked_erase, history, Abstract!absVars
    <2>8. CASE UNCHANGED vars
      BY <2>8 DEF vars, timeline, history, Abstract!absVars
    <2> QED BY <2>1, <2>2, <2>3, <2>4, <2>5, <2>6, <2>7, <2>8
            DEF Next, poll_locked, Abstract!AbsNext
  <1> QED BY <1>1, <1>2, TypeCorrect, TimelineCorrect, PTL DEF Safety, Abstract!AbsSafety
=============================================================================
