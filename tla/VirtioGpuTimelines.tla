-------------------------- MODULE VirtioGpuTimelines --------------------------
(***************************************************************************)
(* gfxstream/host/VirtioGpuTimelines.{h,cpp}: the object that decides when *)
(* the fence of a virtio-gpu command is signalled to the VMM.  The thread  *)
(* that decodes the virtio-gpu commands enqueues tasks and fences on       *)
(* rings; the SyncThread's workers report tasks complete from other        *)
(* threads, in any order.  All operations run under mLock.  The one        *)
(* visible effect they have outside of it is the fence callback, made one  *)
(* fence at a time by poll_locked while the lock is held, so poll_locked   *)
(* is a loop of single steps here.                                         *)
(*                                                                         *)
(* A ring of the model is a std::variant value of VirtioGpuRing: only      *)
(* equality of rings matters.  Tracing is left out.                        *)
(***************************************************************************)
EXTENDS Integers, Sequences

CONSTANTS
    Rings,              \* the rings the guest uses
    NoRing,             \* "no ring": mLock is free
    MaxTasks,           \* bound on enqueueTask calls
    MaxFences,          \* bound on enqueueFence calls
    Modes               \* the values of mWithAsyncCallback: set at construction

ASSUME RingsAssumption == NoRing \notin Rings
ASSUME BoundsAssumption == MaxTasks \in Nat /\ MaxFences \in Nat
ASSUME ModeAssumption == Modes \subseteq BOOLEAN

TaskId == 0..(MaxTasks - 1)
FenceId == 0..(MaxFences - 1)

VARIABLES
    mWithAsyncCallback, \* fences are signalled by callbacks, and nobody polls
    mNextId,            \* id of the next task
    mTaskIdToTask,      \* ids whose Task object is alive
    mRing,              \* mRing[t]: Task::mRing
    mHasCompleted,      \* mHasCompleted[t]: Task::mHasCompleted
    mQueue,             \* mQueue[r]: Timeline::mQueue of ring r
    pollRing,           \* ring poll_locked is working on (mLock held), or NoRing
    pollPos,            \* poll_locked's iterator: items before it were passed
    pollTodo,           \* the rings poll() has still to visit
    nextFence,          \* id of the guest's next fence
    outstanding,        \* tasks whose completion callback has not run yet
    aborted,            \* GFXSTREAM_ABORT was reached
    log, signalled      \* history: items enqueued, fence callbacks made, per ring

timeline == <<mNextId, mTaskIdToTask, mRing, mHasCompleted, mQueue>>
poller == <<pollRing, pollPos, pollTodo>>
caller == <<nextFence, outstanding>>
history == <<log, signalled>>
vars == <<mWithAsyncCallback, timeline, poller, caller, aborted, history>>

Task(t) == [kind |-> "task", id |-> t]
Fence(f) == [kind |-> "fence", id |-> f]
Item == {Task(t) : t \in TaskId} \cup {Fence(f) : f \in FenceId}

Init ==
    /\ mWithAsyncCallback \in Modes
    /\ mNextId = 0
    /\ mTaskIdToTask = {}
    /\ mRing = [t \in TaskId |-> NoRing]
    /\ mHasCompleted = [t \in TaskId |-> FALSE]
    /\ mQueue = [r \in Rings |-> <<>>]
    /\ pollRing = NoRing /\ pollPos = 0 /\ pollTodo = {}
    /\ nextFence = 0 /\ outstanding = {}
    /\ aborted = FALSE
    /\ log = [r \in Rings |-> <<>>]
    /\ signalled = [r \in Rings |-> <<>>]

LockFree == pollRing = NoRing /\ ~aborted

----------------------------------------------------------------------------
(* The operations of the class. *)

enqueueTask(r) ==
    /\ LockFree
    /\ mNextId < MaxTasks
    /\ mNextId' = mNextId + 1
    /\ mTaskIdToTask' = mTaskIdToTask \cup {mNextId}
    /\ mRing' = [mRing EXCEPT ![mNextId] = r]
    /\ mQueue' = [mQueue EXCEPT ![r] = Append(@, Task(mNextId))]
    /\ log' = [log EXCEPT ![r] = Append(@, Task(mNextId))]
    /\ outstanding' = outstanding \cup {mNextId}
    /\ UNCHANGED <<mWithAsyncCallback, mHasCompleted, poller, nextFence, aborted,
                   signalled>>

(* Mutant: the poll at the end is missing. *)
PollIfAsync_never(r) == pollRing' = NoRing /\ pollPos' = 0 /\ UNCHANGED pollTodo

(* What enqueueFence and notifyTaskCompletion do last. *)
PollIfAsync(r) ==
    /\ pollRing' = IF mWithAsyncCallback THEN r ELSE NoRing
    /\ pollPos' = 0
    /\ UNCHANGED pollTodo

enqueueFence(r) ==
    /\ LockFree
    /\ nextFence < MaxFences
    /\ nextFence' = nextFence + 1
    /\ mQueue' = [mQueue EXCEPT ![r] = Append(@, Fence(nextFence))]
    /\ log' = [log EXCEPT ![r] = Append(@, Fence(nextFence))]
    /\ PollIfAsync(r)
    /\ UNCHANGED <<mWithAsyncCallback, mNextId, mTaskIdToTask, mRing,
                   mHasCompleted, outstanding, aborted, signalled>>

(* The checks notifyTaskCompletion makes before it touches the task. *)
Notifiable(t) == t \in mTaskIdToTask /\ ~mHasCompleted[t]

notifyTaskCompletion(t) ==
    /\ LockFree
    /\ t \in outstanding
    /\ outstanding' = outstanding \ {t}
    /\ IF Notifiable(t)
       THEN /\ mHasCompleted' = [mHasCompleted EXCEPT ![t] = TRUE]
            /\ PollIfAsync(mRing[t])
            /\ UNCHANGED aborted
       ELSE aborted' = TRUE /\ UNCHANGED <<mHasCompleted, poller>>
    /\ UNCHANGED <<mWithAsyncCallback, mNextId, mTaskIdToTask, mRing, mQueue,
                   nextFence, history>>

(* poll() walks an unordered map: the rings come in any order. *)
poll ==
    /\ LockFree
    /\ ~mWithAsyncCallback
    /\ \E r \in Rings : pollRing' = r /\ pollTodo' = Rings \ {r}
    /\ pollPos' = 0
    /\ UNCHANGED <<mWithAsyncCallback, timeline, caller, aborted, history>>
----------------------------------------------------------------------------
(* poll_locked, one item at a time. *)

AtItem == pollRing # NoRing /\ pollPos < Len(mQueue[pollRing])
CurrentItem == mQueue[pollRing][pollPos + 1]

poll_locked_fence ==
    /\ AtItem
    /\ CurrentItem.kind = "fence"
    /\ signalled' = [signalled EXCEPT ![pollRing] = Append(@, CurrentItem.id)]
    /\ pollPos' = pollPos + 1
    /\ UNCHANGED <<mWithAsyncCallback, timeline, pollRing, pollTodo, caller,
                   aborted, log>>

(* Mutant: a task is passed whether or not it has completed. *)
poll_locked_task_unchecked ==
    /\ AtItem
    /\ CurrentItem.kind = "task"
    /\ pollPos' = pollPos + 1
    /\ UNCHANGED <<mWithAsyncCallback, timeline, pollRing, pollTodo, caller,
                   aborted, history>>

poll_locked_task ==
    /\ AtItem
    /\ CurrentItem.kind = "task"
    /\ mHasCompleted[CurrentItem.id]
    /\ pollPos' = pollPos + 1
    /\ UNCHANGED <<mWithAsyncCallback, timeline, pollRing, pollTodo, caller,
                   aborted, history>>

(* Mutant: the loop stops at every task. *)
ShouldStop_anyTask == AtItem => CurrentItem.kind = "task"

(* shouldStop, or the end of the list. *)
ShouldStop == AtItem => CurrentItem.kind = "task" /\ ~mHasCompleted[CurrentItem.id]

(* The tasks among the first n items of a queue. *)
TasksOf(q, n) == {q[i].id : i \in {j \in 1..n : q[j].kind = "task"}}

(* Mutant: the deleter leaves the entry of mTaskIdToTask. *)
poll_locked_erase_keepsEntry ==
    /\ pollRing # NoRing
    /\ ShouldStop
    /\ mQueue' = [mQueue EXCEPT ![pollRing] = SubSeq(@, pollPos + 1, Len(@))]
    /\ pollPos' = 0
    /\ \/ pollTodo = {} /\ pollRing' = NoRing /\ UNCHANGED pollTodo
       \/ \E r \in pollTodo : pollRing' = r /\ pollTodo' = pollTodo \ {r}
    /\ UNCHANGED <<mWithAsyncCallback, mNextId, mTaskIdToTask, mRing,
                   mHasCompleted, caller, aborted, history>>

(* The items passed are erased; the deleter of each Task erases its entry  *)
(* of mTaskIdToTask.  Then mLock is released, or poll() goes on.           *)
poll_locked_erase ==
    /\ pollRing # NoRing
    /\ ShouldStop
    /\ mQueue' = [mQueue EXCEPT ![pollRing] = SubSeq(@, pollPos + 1, Len(@))]
    /\ mTaskIdToTask' = mTaskIdToTask \ TasksOf(mQueue[pollRing], pollPos)
    /\ pollPos' = 0
    /\ \/ pollTodo = {} /\ pollRing' = NoRing /\ UNCHANGED pollTodo
       \/ \E r \in pollTodo : pollRing' = r /\ pollTodo' = pollTodo \ {r}
    /\ UNCHANGED <<mWithAsyncCallback, mNextId, mRing, mHasCompleted, caller,
                   aborted, history>>

poll_locked == poll_locked_fence \/ poll_locked_task \/ poll_locked_erase

Next ==
    \/ \E r \in Rings : enqueueTask(r) \/ enqueueFence(r)
    \/ \E t \in TaskId : notifyTaskCompletion(t)
    \/ poll
    \/ poll_locked

Safety == Init /\ [][Next]_vars

(* The lock's holder runs to the end of its critical section.  Nothing     *)
(* obliges the guest to submit, or a GPU task to finish.  A VMM without    *)
(* asynchronous callbacks calls poll() again and again.                    *)
Spec == Safety /\ WF_vars(poll_locked) /\ WF_vars(poll)
----------------------------------------------------------------------------
\* Types of the queues, the map and the environment's record of the tasks.
TypeOK ==
    /\ mWithAsyncCallback \in Modes
    /\ mNextId \in 0..MaxTasks
    /\ mTaskIdToTask \in SUBSET TaskId
    /\ mRing \in [TaskId -> Rings \cup {NoRing}]
    /\ mHasCompleted \in [TaskId -> BOOLEAN]
    /\ mQueue \in [Rings -> Seq(Item)]
    /\ pollRing \in Rings \cup {NoRing}
    /\ pollPos \in Nat
    /\ pollTodo \in SUBSET Rings
    /\ nextFence \in 0..MaxFences
    /\ outstanding \in SUBSET TaskId
    /\ aborted \in BOOLEAN
    /\ log \in [Rings -> Seq(Item)]
    /\ signalled \in [Rings -> Seq(FenceId)]

(* The aborts of notifyTaskCompletion ("can't be found", "has been set to  *)
(* completed") are not reached when each completion callback runs once:    *)
(* no polling erases a task whose callback is still to come.               *)
NeverAborts == ~aborted

(* The map of weak pointers holds exactly the tasks some timeline owns:    *)
(* poll_locked's erase and the Task deleter agree.                         *)
TaskMapExact ==
    mTaskIdToTask = UNION {TasksOf(mQueue[r], Len(mQueue[r])) : r \in Rings}

(* Nothing at the head of ring r's timeline can go: it is empty or an      *)
(* incomplete task comes first.                                            *)
Blocked(r) ==
    mQueue[r] # <<>> => Head(mQueue[r]).kind = "task" /\ ~mHasCompleted[Head(mQueue[r]).id]

(* With asynchronous callbacks nothing that could go is left in a queue    *)
(* when mLock is free: every timeline is empty or waits for the task at    *)
(* its head.  (A fence left behind here would never be signalled.)         *)
AsyncDrained ==
    mWithAsyncCallback /\ LockFree =>
        \A r \in Rings : Blocked(r)

(* A fence is signalled after all the tasks enqueued before it on its ring *)
(* completed, and the fences of a ring are signalled once each, in order:  *)
(* the specification of FenceTimeline, its liveness included.              *)
Abstract == INSTANCE FenceTimeline WITH done <- {t \in TaskId : mHasCompleted[t]}

ImplementsTimeline == Abstract!AbsSpec
----------------------------------------------------------------------------
(* The inductive invariant behind these properties. *)

(* Items of ring r that were erased, and items poll_locked has dealt with. *)
Erased(r) == Len(log[r]) - Len(mQueue[r])
Passed(r) == Erased(r) + (IF r = pollRing THEN pollPos ELSE 0)

QueueIsSuffix(r) ==
    /\ Erased(r) >= 0
    /\ r = pollRing => pollPos =< Len(mQueue[r])
    /\ \A i \in 1..Len(mQueue[r]) : mQueue[r][i] = log[r][Erased(r) + i]

PassedItems(r) ==
    \A i \in 1..Passed(r) :
        /\ log[r][i].kind = "fence" => log[r][i].id \in Abstract!Signalled(r)
        /\ log[r][i].kind = "task" => mHasCompleted[log[r][i].id]

PendingFences(r) ==
    \A i \in (Passed(r) + 1)..Len(log[r]) :
        log[r][i].kind = "fence" => log[r][i].id \notin Abstract!Signalled(r)

FencesNumbered(r) ==
    /\ \A i \in 1..Len(log[r]) : log[r][i].kind = "fence" =>
          /\ log[r][i].id < nextFence
          /\ \A j \in 1..Len(log[r]) :
                log[r][j].kind = "fence" /\ log[r][j].id = log[r][i].id => i = j
    /\ \A f \in Abstract!Signalled(r) : f < nextFence

TasksNumbered(r) ==
    \A i \in 1..Len(log[r]) : log[r][i].kind = "task" =>
        log[r][i].id < mNextId /\ mRing[log[r][i].id] = r

(* The queue of a ring is what is left of its log: what came before has    *)
(* been signalled or has completed, no fence after it has been signalled.  *)
RingInv(r) ==
    /\ QueueIsSuffix(r) /\ PassedItems(r) /\ PendingFences(r)
    /\ FencesNumbered(r) /\ TasksNumbered(r)

(* Every task whose callback is still to come can be found by its id. *)
TaskInv(t) ==
    /\ mHasCompleted[t] => t < mNextId
    /\ t < mNextId => mRing[t] \in Rings
    /\ t < mNextId /\ ~mHasCompleted[t] => t \in mTaskIdToTask
    /\ t \in outstanding => t < mNextId /\ ~mHasCompleted[t]

(* In asynchronous mode the one ring that may have work at its head is the *)
(* ring being polled.                                                      *)
OthersBlocked ==
    mWithAsyncCallback => pollTodo = {} /\ \A r \in Rings \ {pollRing} : Blocked(r)

TimelineInv ==
    /\ \A r \in Rings : RingInv(r)
    /\ \A t \in TaskId : TaskInv(t)
    /\ OthersBlocked
    /\ NeverAborts
=============================================================================
