---------------------------- MODULE GoldfishPipe ----------------------------
(***************************************************************************)
(* The goldfish pipe: the guest's driver                                   *)
(* (src/virtual-device/goldfish_drivers/goldfish_pipe.c), the virtual      *)
(* device (src/qemu/hw/misc/goldfish_pipe.c, version 2) and PipeWaker,     *)
(* which carries the wishes of the host's services to the device's thread. *)
(*                                                                         *)
(* A command of the driver runs the device under the VM lock, in one step, *)
(* but for PIPE_CMD_CLOSE: services queue operations without that lock, so *)
(* the steps of a close, which take them back and end the service, are     *)
(* apart.  What the driver does under dev->lock (open, the interrupt       *)
(* handler, the pop of the interrupt thread, the end of release) is one    *)
(* step too.  Everything else interleaves: the two directions of a pipe,   *)
(* the interrupt thread, which works on a popped pipe without the lock,    *)
(* the services and the timer of PipeWaker.                                *)
(*                                                                         *)
(* The service is EmuglPipe of OpenglEsPipe.cpp.  It alone takes back what *)
(* is queued once more when it has stopped its channel; a service that     *)
(* calls signalWake from a thread of its own and does not can leave an     *)
(* operation behind for a pipe that is freed.                              *)
(*                                                                         *)
(* A kernel object that was freed is allocated again by a later open, also *)
(* while the interrupt thread still holds a pointer to it.                 *)
(*                                                                         *)
(* The two linked lists, of the device and of the driver, hold a pipe at   *)
(* most once, and so they are sets: the code takes a pipe from the front,  *)
(* the model any.  PipeWaker's vector is a set too: its operations are     *)
(* performed all at once, and one that is there twice does nothing new.    *)
(***************************************************************************)
EXTENDS Naturals, FiniteSets

CONSTANTS Objects,      \* the addresses of struct goldfish_pipe
          MaxId,        \* bound: ids are 0 .. MaxId
          Usages,       \* bound: which calls are made for which object, how often open
          BufferSize,   \* MAX_SIGNALLED_PIPES
          MaxCalls,     \* bound: calls of read and write
          MaxPending    \* bound: operations PipeWaker holds

Ids  == 0 .. MaxId
Dirs == {"Read", "Write"}
WakeFlags == Dirs \cup {"Closed"}

ASSUME PipeAssumption ==
    /\ IsFiniteSet(Objects) /\ Cardinality(Objects) <= MaxId + 1
    /\ {MaxId, MaxCalls} \subseteq Nat /\ MaxPending \in Nat \ {0}
    /\ BufferSize \in Nat \ {0}
    /\ Usages \subseteq [calls : SUBSET (Objects \X Dirs), opens : Nat]

VARIABLES
    usage,      \* one of Usages: fixed at the start
    \* the driver
    file,       \* an object is "free", "open", or in release, which is in the device
                \* ("stopping", "aborting") or back from it ("closing")
    id,         \* pipe->id
    flags,      \* pipe->flags: who waits, and BIT_CLOSED_ON_HOST
    signalled,  \* pipe->signalled_flags
    list,       \* the list of signalled pipes
    runthread,  \* the interrupt thread was asked to run
    task,       \* where it is: "idle", "pop", "apply"
    popped,     \* the pipe and the wakes it has popped
    misled,     \* history: objects freed while popped, up to the next release or to
                \* the wakes that were not theirs, if those did not mark them closed
    pc,         \* where the call in each direction of each pipe is
    count,      \* how much the call has transferred
    opens, calls,   \* how many calls there were
    \* the device
    hw,         \* by id: [open, closed, wanted]
    wantedPipes,\* the list of pipes with something to report
    irq,        \* the level of the interrupt line
    \* the services, and what they have asked PipeWaker for
    service,    \* by id: [ready, asked, closed]
    pending     \* a set of [id, flags]

driver == <<file, id, flags, signalled, list, runthread, task, popped, misled>>
thread == <<usage, pc, count, opens, calls>>
device == <<hw, wantedPipes, irq>>
host   == <<service, pending>>
vars   == <<driver, thread, device, host>>

NoPipe    == [open |-> FALSE, closed |-> FALSE, wanted |-> {}]
NoService == [ready |-> {}, asked |-> {}, closed |-> FALSE]

Init ==
    /\ usage \in Usages
    /\ file = [o \in Objects |-> "free"]
    /\ id = [o \in Objects |-> 0]
    /\ flags = [o \in Objects |-> {}]
    /\ signalled = [o \in Objects |-> {}]
    /\ list = {} /\ runthread = FALSE
    /\ task = "idle" /\ popped = <<>> /\ misled = {}
    /\ pc = [o \in Objects |-> [d \in Dirs |-> "idle"]]
    /\ count = [o \in Objects |-> [d \in Dirs |-> 0]]
    /\ opens = 0 /\ calls = 0
    /\ hw = [i \in Ids |-> NoPipe]
    /\ wantedPipes = {} /\ irq = FALSE
    /\ service = [i \in Ids |-> NoService]
    /\ pending = {}

\* dev->pipes[i] of the driver, as a set of at most one object.
PipesAt(i) == {o \in Objects : file[o] # "free" /\ id[o] = i}
FreeIds == {i \in Ids : PipesAt(i) = {}}

\* No command is inside the device.
VmLockFree == \A o \in Objects : file[o] \notin {"stopping", "aborting"}

\* The device's pipe is allocated, and its service exists.
Allocated(i) == \E o \in PipesAt(i) : file[o] \in {"open", "stopping", "aborting"}

\* mIsWorking, and the channel is not stopped.
IsWorking(i) == \E o \in PipesAt(i) : file[o] \in {"open", "stopping"}
-----------------------------------------------------------------------------
(* The device *)

\* goldfish_pipe_signal_wake, for the pipes in I: wanted_pipes_add_v2, which
\* does nothing for a pipe in the list, and the interrupt.
signal_wake(I) ==
    /\ wantedPipes' = wantedPipes \cup I
    /\ irq' = (irq \/ I # {})

\* Mutant: the close is not signalled.
close_from_host_silent(i, fs) == fs \ {"Closed"}

\* The wakes that come of the flags asked for: closing a pipe that is closed
\* already signals nothing.
close_from_host(i, fs) == IF hw[i].closed THEN fs \ {"Closed"} ELSE fs

getPendingFlags(i) == {f \in WakeFlags : \E op \in pending : op.id = i /\ f \in op.flags}

\* performDeviceOperation, for all operations of a pipe.
Perform(i) == close_from_host(i, getPendingFlags(i))

\* PipeWaker's timer, on the thread that holds the VM lock.
onTimerEvent ==
    /\ pending # {} /\ VmLockFree
    /\ hw' = [i \in Ids |-> [hw[i] EXCEPT !.closed = @ \/ "Closed" \in getPendingFlags(i),
                                         !.wanted = @ \cup Perform(i)]]
    /\ signal_wake({i \in Ids : Perform(i) # {}})
    /\ pending' = {}
    /\ UNCHANGED <<driver, thread, service>>

\* A read of PIPE_REG_GET_SIGNALLED can report the pipes in R: all of them, or
\* as many as the buffer holds.
CanReport(R) ==
    IF Cardinality(wantedPipes) <= BufferSize THEN R = wantedPipes
    ELSE R \subseteq wantedPipes /\ Cardinality(R) = BufferSize

\* signalled_pipes_add_locked: the objects of the reported pipes.
signalled_pipes_add(R) == {o \in Objects : file[o] # "free" /\ id[o] \in R}

(***************************************************************************)
(* The interrupt handler, with the read of PIPE_REG_GET_SIGNALLED.  The    *)
(* device reports everything in wanted, also what was only asked for and   *)
(* has not happened.                                                       *)
(***************************************************************************)
Interrupt ==
    /\ irq /\ VmLockFree
    /\ \E R \in SUBSET wantedPipes :
          /\ CanReport(R)
          /\ hw' = [i \in Ids |-> IF i \in R THEN [hw[i] EXCEPT !.wanted = {}] ELSE hw[i]]
          /\ wantedPipes' = wantedPipes \ R
          /\ irq' = (wantedPipes \ R # {})
          /\ signalled' = [o \in Objects |->
                              IF o \in signalled_pipes_add(R)
                              THEN signalled[o] \cup hw[id[o]].wanted ELSE signalled[o]]
          /\ list' = list \cup signalled_pipes_add(R)
          /\ runthread' = (runthread \/ R # {})
    /\ UNCHANGED <<file, id, flags, task, popped, misled, thread, host>>
-----------------------------------------------------------------------------
(* The interrupt thread *)

TaskStart ==
    /\ task = "idle" /\ runthread
    /\ task' = "pop" /\ runthread' = FALSE
    /\ UNCHANGED <<file, id, flags, signalled, list, popped, misled, thread, device, host>>

signalled_pipes_pop_front ==
    /\ task = "pop"
    /\ \/ list = {} /\ task' = "idle" /\ UNCHANGED <<signalled, list, popped>>
       \/ \E o \in list : /\ task' = "apply"
                          /\ popped' = <<o, signalled[o]>>
                          /\ signalled' = [signalled EXCEPT ![o] = {}]
                          /\ list' = list \ {o}
    /\ UNCHANGED <<file, id, flags, runthread, misled, thread, device, host>>

\* Mutant: the handler wakes one pipe.
interrupt_task_again_once == "idle"

\* The handler loops until the list is empty.
interrupt_task_again == "pop"

\* The loop's body: the pipe may have been freed, and even opened again.
interrupt_task ==
    /\ task = "apply"
    /\ LET o == popped[1]
           wakes == popped[2]
       IN  /\ flags' = [flags EXCEPT ![o] =
                            IF file[o] = "free" THEN @
                            ELSE IF "Closed" \in wakes THEN {"Closed"} ELSE @ \ wakes]
           /\ pc' = [pc EXCEPT ![o] = [d \in Dirs |->
                            IF @[d] = "sleep" THEN "awake" ELSE @[d]]]
           /\ misled' = {p \in misled : p = o => "Closed" \in flags'[o]}
    /\ task' = interrupt_task_again
    /\ popped' = <<>>
    /\ UNCHANGED <<file, id, signalled, list, runthread, usage, count, opens, calls,
                   device, host>>
-----------------------------------------------------------------------------
(* open and release *)

\* An open that fails leaves everything as it was.
open(o) ==
    /\ file[o] = "free" /\ VmLockFree
    /\ opens < usage.opens /\ \E d \in Dirs : <<o, d>> \in usage.calls
    /\ opens' = opens + 1
    /\ \E i \in FreeIds :
           /\ \A j \in FreeIds : i <= j
           /\ file' = [file EXCEPT ![o] = "open"]
           /\ id' = [id EXCEPT ![o] = i]
           /\ flags' = [flags EXCEPT ![o] = {}]
           /\ signalled' = [signalled EXCEPT ![o] = {}]
           /\ hw' = [hw EXCEPT ![i] = [NoPipe EXCEPT !.open = TRUE]]
           /\ service' = [service EXCEPT ![i] = NoService]
    /\ UNCHANGED <<list, runthread, task, popped, misled, usage, pc, count, calls,
                   wantedPipes, irq, pending>>

\* android_pipe_guest_close: abortPendingOperation
abortPending(i) == {op \in pending : op.id # i}

\* Mutant: a closed pipe stays in the list.
wanted_pipes_remove_none(i) == wantedPipes

wanted_pipes_remove(i) == wantedPipes \ {i}

\* PIPE_CMD_CLOSE, up to onGuestClose.  The interrupt line stays as it is.
CloseCommand(o) ==
    /\ file[o] = "open" /\ VmLockFree
    /\ \A d \in Dirs : pc[o][d] = "idle"
    /\ file' = [file EXCEPT ![o] = "stopping"]
    /\ hw' = [hw EXCEPT ![id[o]] = NoPipe]
    /\ wantedPipes' = wanted_pipes_remove(id[o])
    /\ pending' = abortPending(id[o])
    /\ UNCHANGED <<id, flags, signalled, list, runthread, task, popped, misled, thread, irq,
                   service>>

\* onGuestClose stops the channel, whose lock is held around its callbacks: from
\* here on the service queues nothing.
onGuestClose(o) ==
    /\ file[o] = "stopping"
    /\ file' = [file EXCEPT ![o] = "aborting"]
    /\ UNCHANGED <<id, flags, signalled, list, runthread, task, popped, misled, thread,
                   device, host>>

\* Mutant: what was queued before the channel was stopped stays.
abortAgain_none(i) == pending

\* abortPendingOperation in onGuestClose
abortAgain(i) == {op \in pending : op.id # i}

\* The rest of onGuestClose and of hwpipe_free: service and pipe are freed.
hwpipe_free(o) ==
    /\ file[o] = "aborting"
    /\ file' = [file EXCEPT ![o] = "closing"]
    /\ pending' = abortAgain(id[o])
    /\ service' = [service EXCEPT ![id[o]] = NoService]
    /\ UNCHANGED <<id, flags, signalled, list, runthread, task, popped, misled, thread,
                   device>>

\* Mutant: the freed object stays in the list of signalled pipes.
release_listed(o) ==
    /\ file[o] = "closing"
    /\ file' = [file EXCEPT ![o] = "free"]
    /\ id' = [id EXCEPT ![o] = 0]
    /\ flags' = [flags EXCEPT ![o] = {}]
    /\ signalled' = [signalled EXCEPT ![o] = {}]
    /\ UNCHANGED <<list, runthread, task, popped, misled, thread, device, host>>

release(o) ==
    /\ file[o] = "closing"
    /\ file' = [file EXCEPT ![o] = "free"]
    /\ list' = list \ {o}
    /\ id' = [id EXCEPT ![o] = 0]
    /\ flags' = [flags EXCEPT ![o] = {}]
    /\ signalled' = [signalled EXCEPT ![o] = {}]
    /\ misled' = (misled \ {o}) \cup (IF task = "apply" /\ popped[1] = o THEN {o} ELSE {})
    /\ UNCHANGED <<runthread, task, popped, thread, device, host>>
-----------------------------------------------------------------------------
(* read and write *)

Goto(o, d, where) == pc' = [pc EXCEPT ![o][d] = where]
Return(o, d) == Goto(o, d, "idle") /\ count' = [count EXCEPT ![o][d] = 0]

read_write(o, d) ==
    /\ file[o] = "open" /\ pc[o][d] = "idle" /\ "Closed" \notin flags[o]
    /\ calls < MaxCalls /\ <<o, d>> \in usage.calls
    /\ calls' = calls + 1
    /\ Goto(o, d, "transfer")
    /\ UNCHANGED <<driver, usage, count, opens, device, host>>

\* Something is transferred.  A call wants at most two of what the service
\* hands over at once.
TransferSome(o, d) ==
    /\ pc[o][d] = "transfer" /\ VmLockFree
    /\ d \in service[id[o]].ready
    /\ ~hw[id[o]].closed
    /\ service' = [service EXCEPT ![id[o]].ready = @ \ {d}]
    /\ \/ Return(o, d)
       \/ /\ count[o][d] = 0
          /\ count' = [count EXCEPT ![o][d] = 1]
          /\ Goto(o, d, "transfer")
    /\ UNCHANGED <<usage, opens, calls, driver, device, pending>>

\* PIPE_ERROR_AGAIN; the pipe may be in non-blocking mode.
TransferAgain(o, d) ==
    /\ pc[o][d] = "transfer" /\ VmLockFree
    /\ d \notin service[id[o]].ready
    /\ ~hw[id[o]].closed /\ ~service[id[o]].closed
    /\ \/ Return(o, d)
       \/ count[o][d] = 0 /\ Goto(o, d, "setbit") /\ UNCHANGED count
    /\ UNCHANGED <<usage, opens, calls, driver, device, host>>

TransferFails(o, d) ==
    /\ pc[o][d] = "transfer" /\ VmLockFree
    /\ hw[id[o]].closed \/ service[id[o]].closed
    /\ Return(o, d)
    /\ UNCHANGED <<usage, opens, calls, driver, device, host>>

wait_for_host_signal(o, d) ==
    /\ pc[o][d] = "setbit"
    /\ flags' = [flags EXCEPT ![o] = @ \cup {d}]
    /\ Goto(o, d, "command")
    /\ UNCHANGED <<file, id, signalled, list, runthread, task, popped, misled, usage, count,
                   opens, calls, device, host>>

\* Mutant: the service is asked only when nothing is wanted yet.
asksService_first(o, d) == ~hw[id[o]].closed /\ hw[id[o]].wanted = {}

\* A direction that is wanted already is not asked for again.
asksService(o, d) == ~hw[id[o]].closed /\ d \notin hw[id[o]].wanted

(***************************************************************************)
(* PIPE_CMD_WAKE_ON_READ and _WRITE.  The service answers at once, with    *)
(* the VM lock held, what it can already do, and keeps the rest.  The      *)
(* driver does not look at the status.                                     *)
(***************************************************************************)
WakeOn(o, d) ==
    /\ pc[o][d] = "command" /\ VmLockFree
    /\ Goto(o, d, "check")
    /\ LET i == id[o]
           wanted == hw[i].wanted \cup {d}
           now == wanted \cap service[i].ready
       IN  IF asksService(o, d)
           THEN /\ service' = [service EXCEPT ![i].asked = @ \cup (wanted \ now)]
                /\ hw' = [hw EXCEPT ![i].wanted = wanted]
                /\ signal_wake(IF now = {} THEN {} ELSE {i})
           ELSE UNCHANGED <<service, device>>
    /\ UNCHANGED <<driver, usage, count, opens, calls, pending>>

\* The loop's condition, before the wait.
check(o, d) ==
    /\ pc[o][d] = "check"
    /\ Goto(o, d, IF d \in flags[o] THEN "sleep" ELSE "transfer")
    /\ UNCHANGED <<driver, usage, count, opens, calls, device, host>>

\* wait_event_interruptible has been woken.
awake(o, d) ==
    /\ pc[o][d] = "awake"
    /\ Goto(o, d, IF d \in flags[o] THEN "sleep"
                  ELSE IF "Closed" \in flags[o] THEN "idle" ELSE "transfer")
    /\ UNCHANGED <<driver, usage, count, opens, calls, device, host>>

\* -ERESTARTSYS: the bit stays set, and the wake asked for.
Interrupted(o, d) ==
    /\ pc[o][d] = "sleep"
    /\ Goto(o, d, "idle")
    /\ UNCHANGED <<driver, usage, count, opens, calls, device, host>>
-----------------------------------------------------------------------------
(* The services behind the pipes *)

\* A service can take or give something; it reports what it was asked for.
\* Before a call or a request it would not be seen.
ServiceReady(i, d) ==
    /\ IsWorking(i) /\ ~service[i].closed /\ d \notin service[i].ready
    /\ d \in service[i].asked \/ \E o \in PipesAt(i) : pc[o][d] # "idle"
    /\ Cardinality(pending) < MaxPending
    /\ service' = [service EXCEPT ![i].ready = @ \cup {d}, ![i].asked = @ \ {d}]
    /\ pending' = IF d \in service[i].asked
                  THEN pending \cup {[id |-> i, flags |-> {d}]} ELSE pending
    /\ UNCHANGED <<driver, thread, device>>

ServiceClose(i) ==
    /\ IsWorking(i) /\ ~service[i].closed
    /\ Cardinality(pending) < MaxPending
    /\ service' = [service EXCEPT ![i] = [NoService EXCEPT !.closed = TRUE]]
    /\ pending' = pending \cup {[id |-> i, flags |-> {"Closed"}]}
    /\ UNCHANGED <<driver, thread, device>>
-----------------------------------------------------------------------------
CallStep(o, d) ==
    \/ TransferSome(o, d) \/ TransferAgain(o, d) \/ TransferFails(o, d)
    \/ wait_for_host_signal(o, d) \/ WakeOn(o, d) \/ check(o, d) \/ awake(o, d)

CloseStep(o) == onGuestClose(o) \/ hwpipe_free(o)

TaskStep == TaskStart \/ signalled_pipes_pop_front \/ interrupt_task

Next ==
    \/ \E o \in Objects : \/ open(o) \/ CloseCommand(o) \/ CloseStep(o)
                          \/ release(o)
    \/ \E o \in Objects, d \in Dirs :
          read_write(o, d) \/ CallStep(o, d) \/ Interrupted(o, d)
    \/ Interrupt \/ TaskStep \/ onTimerEvent
    \/ \E i \in Ids : ServiceClose(i) \/ \E d \in Dirs : ServiceReady(i, d)

Safety == Init /\ [][Next]_vars

(***************************************************************************)
(* The guest's kernel runs its threads and takes its interrupts, a close   *)
(* inside the device gets to its end and PipeWaker's timer goes off: some  *)
(* of it happens while any of it can.  Services become ready.  No actor    *)
(* needs a fairness of its own: a call does a bounded number of steps      *)
(* between two signals.                                                    *)
(***************************************************************************)
Progress ==
    \/ TaskStep \/ Interrupt \/ onTimerEvent
    \/ \E o \in Objects : CloseStep(o) \/ \E d \in Dirs : CallStep(o, d)

Fairness ==
    /\ WF_vars(Progress)
    /\ WF_vars(\E i \in Ids, d \in Dirs : ServiceReady(i, d))

Spec == Safety /\ Fairness
-----------------------------------------------------------------------------
\* The types of the driver's, the device's and the services' state.
TypeOK ==
    /\ file \in [Objects -> {"free", "open", "stopping", "aborting", "closing"}]
    /\ id \in [Objects -> Ids]
    /\ flags \in [Objects -> SUBSET WakeFlags]
    /\ signalled \in [Objects -> SUBSET WakeFlags]
    /\ list \subseteq Objects /\ misled \subseteq Objects /\ wantedPipes \subseteq Ids
    /\ runthread \in BOOLEAN /\ irq \in BOOLEAN
    /\ task \in {"idle", "pop", "apply"}
    /\ task = "apply" => popped \in Objects \X SUBSET WakeFlags
    /\ pc \in [Objects -> [Dirs -> {"idle", "transfer", "setbit", "command",
                                    "check", "sleep", "awake"}]]
    /\ hw \in [Ids -> [open : BOOLEAN, closed : BOOLEAN, wanted : SUBSET WakeFlags]]
    /\ service \in [Ids -> [ready : SUBSET Dirs, asked : SUBSET Dirs, closed : BOOLEAN]]
    /\ pending \subseteq [id : Ids, flags : SUBSET WakeFlags]

\* The asserts of pipeDevice_doCommand_v2 and of the lists: the device never has
\* a pipe under an id that the driver can give to open, only pipes that exist are
\* in the lists, and PipeWaker, which keeps pointers to the device's pipes, has
\* none to a pipe that was freed, although EmuglPipe's render thread may queue one
\* between android_pipe_guest_close's abort and the end of onGuestClose.
NoStalePipe ==
    /\ \A i \in FreeIds : ~hw[i].open
    /\ \A i \in wantedPipes : hw[i].open
    /\ \A op \in pending : Allocated(op.id)
    /\ \A o \in list : file[o] # "free"

\* The interrupt line is up while the device has pipes to report, and the
\* interrupt thread runs, or will, while the driver has pipes to wake.
InterruptsPending ==
    /\ wantedPipes # {} => irq
    /\ list # {} => runthread \/ task # "idle"

(***************************************************************************)
(* The call went to sleep after the close had been handled: it set its bit *)
(* after interrupt_task stored BIT_CLOSED_ON_HOST, WAKE_ON failed, which   *)
(* nobody looks at, and nothing clears the bit any more.                   *)
(***************************************************************************)
CloseOvertook(o, d) == pc[o][d] = "sleep" /\ {"Closed", d} \subseteq flags[o]

\* A wake for direction d, or the close, is on its way to the object.
OnItsWay(o, d) ==
    LET news == {d, "Closed"}
    IN  \/ \E op \in pending : op.id = id[o] /\ op.flags \cap news # {}
        \/ id[o] \in wantedPipes /\ hw[id[o]].wanted \cap news # {}
        \/ o \in list /\ signalled[o] \cap news # {}
        \/ task = "apply" /\ popped[1] = o /\ popped[2] \cap news # {}

\* No wake is lost between the service and wait_for_host_signal: each station on
\* the way has somebody who will take it on (InterruptsPending), and a sleeping call
\* has its wake on its way, or a service that was asked and has nothing for it;
\* and then wanted, by which the device decides whether to ask, says so.
NoLostWakeup ==
    /\ InterruptsPending
    /\ \A o \in Objects, d \in Dirs :
          pc[o][d] = "sleep" =>
              \/ OnItsWay(o, d) \/ CloseOvertook(o, d)
              \/ /\ d \in service[id[o]].asked \ service[id[o]].ready
                 /\ d \in hw[id[o]].wanted

\* An open pipe is closed in the device only if its own service has closed it,
\* and only then does its user see BIT_CLOSED_ON_HOST: ids are used again, and what
\* was queued for the pipe before must not reach the new one.  Left out is the one
\* way on which it does: the interrupt thread had popped the object when release
\* freed it, and a new open got it back before the wakes were applied (misled).
ClosedIsReal ==
    \A o \in Objects : file[o] = "open" =>
        /\ hw[id[o]].closed => service[id[o]].closed
        /\ "Closed" \in signalled[o] => hw[id[o]].closed
        /\ "Closed" \in flags[o] => hw[id[o]].closed \/ o \in misled

\* A read or write that has to wait returns, whatever the order of the wait, the
\* signals and the interrupts; all but one that CloseOvertook describes.
CallsReturn ==
    \A o \in Objects, d \in Dirs :
        (pc[o][d] # "idle") ~> (pc[o][d] = "idle" \/ CloseOvertook(o, d))

\* A service's close reaches the driver, unless the pipe is closed first.
CloseReported ==
    \A o \in Objects :
        (file[o] = "open" /\ service[id[o]].closed)
            ~> (file[o] # "open" \/ "Closed" \in flags[o])
-----------------------------------------------------------------------------
(* The inductive invariant behind the safety properties. *)

\* No two pipes of the driver have the same id.
IdsDiffer ==
    \A o, p \in Objects : file[o] # "free" /\ file[p] # "free" /\ id[o] = id[p] => o = p

\* The device has the driver's pipes, but for one that release is about to free.
DeviceAgrees ==
    \A o \in Objects : /\ file[o] = "open" => hw[id[o]].open
                       /\ file[o] \notin {"free", "open"} => ~hw[id[o]].open

CallsAreOpen ==
    \A o \in Objects, d \in Dirs : pc[o][d] # "idle" => file[o] = "open"

UnusedIsClear ==
    \A i \in Ids : /\ ~hw[i].open => hw[i] = NoPipe
                   /\ ~Allocated(i) => service[i] = NoService

\* The close of a pipe is on its way from the device to the call.
CloseOnItsWay(o) ==
    \/ id[o] \in wantedPipes /\ "Closed" \in hw[id[o]].wanted
    \/ o \in list /\ "Closed" \in signalled[o]
    \/ task = "apply" /\ popped[1] = o /\ "Closed" \in popped[2]

(* A close goes from the service through PipeWaker, the device and the     *)
(* driver; it never appears on the way without having passed what is       *)
(* before, and is never gone before the driver has it.                     *)
CloseQueued == \A op \in pending : "Closed" \in op.flags => service[op.id].closed

CloseInDevice ==
    \A i \in Ids : /\ hw[i].closed => service[i].closed
                   /\ "Closed" \in hw[i].wanted => hw[i].closed

CloseInDriver ==
    \A o \in Objects : file[o] = "open" =>
        /\ "Closed" \in signalled[o] => hw[id[o]].closed
        /\ hw[id[o]].closed => "Closed" \in flags[o] \/ CloseOnItsWay(o)
        /\ "Closed" \in flags[o] => hw[id[o]].closed \/ o \in misled

\* What the interrupt thread holds is not freed, nor its close untrue, but for an
\* object that is known to be misled.
CloseInTask ==
    task = "apply" =>
        \/ popped[1] \in misled
        \/ /\ file[popped[1]] # "free"
           /\ file[popped[1]] = "open" /\ "Closed" \in popped[2] => hw[id[popped[1]]].closed

\* PipeWaker has something for direction d of pipe i.
InWaker(i, d) == \E op \in pending : op.id = i /\ op.flags \cap {d, "Closed"} # {}

(* What wanted says is true: it is about to be reported, or to be set once *)
(* more, or the service knows of it.  By wanted the device decides whether *)
(* to ask the service.                                                     *)
WantedIsKnown ==
    \A i \in Ids : \A d \in hw[i].wanted \cap Dirs :
        \/ i \in wantedPipes \/ hw[i].closed \/ InWaker(i, d)
        \/ d \in service[i].asked \ service[i].ready

(* From the command on, a call whose bit is set has a wake on its way or a *)
(* service that knows.                                                     *)
WaitsKnown ==
    \A o \in Objects, d \in Dirs :
        /\ pc[o][d] = "sleep" => d \in flags[o]
        /\ pc[o][d] \in {"check", "sleep", "awake"} /\ d \in flags[o] =>
              \/ OnItsWay(o, d) \/ "Closed" \in flags[o]
              \/ /\ d \in service[id[o]].asked \ service[id[o]].ready
                 /\ d \in hw[id[o]].wanted

(* The inductive invariant of driver, device and PipeWaker: what open,     *)
(* close, the interrupt and the wakes leave behind at each of their steps. *)
PipeInv ==
    /\ TypeOK
    /\ NoStalePipe /\ IdsDiffer /\ DeviceAgrees /\ CallsAreOpen /\ UnusedIsClear
    /\ InterruptsPending
    /\ CloseQueued /\ CloseInDevice /\ CloseInDriver /\ CloseInTask
    /\ WantedIsKnown /\ WaitsKnown
=============================================================================
