# Verification of the emulator's guest-host graphics transport

This directory holds TLA+ models of the part of the Android Emulator that
carries graphics commands from a guest to the host and tells the guest when they
are done, the TLC configurations that check them, and TLAPS proofs about them.

The repository joins five trees: `aemu/` (base library and host-side device
logic), `gfxstream/` (guest and host halves of the graphics stack),
`goldfish-opengl/`, `qemu/` (a QEMU fork with Android devices and an older copy
of many `aemu` and `gfxstream` files) and `virtual-device/` (guest kernel
drivers). Most of their eight million lines are vendored, generated or plain
calls into GL and Vulkan. What is this program's own, concurrent, and hard to
test is the transport, and the project is about that.

## 1. Inventory

| Component | State | Operations | Interacts with |
|---|---|---|---|
| `ring_buffer` (`aemu/base/ring_buffer.cpp`) | `write_pos`, `read_pos`, bytes, in shared memory | `write`, `read`, the `view_` variants, `*_fully(_with_abort)`, waits, `available_*`, `copy_contents`; a sync handshake | every transport below; a peer in another address space |
| ASG guest stream (`AddressSpaceStream.cpp`) | write slot, read buffer | `allocBuffer`, `commitBuffer`, `writeFully`, `writeFullyAsync`, `readFully`, destructor | three rings, one shared buffer, `host_state`, `transfer_mode`, `transfer_size`; pings (VM exits) |
| ASG host stream (`RingStream.cpp`) | read buffer, exit and snapshot flags | `readRaw` (`type1Read`, `type3Read`), `commitBuffer` | the same shared memory; `onUnavailableRead` of the context |
| ASG context (`address_space_graphics.cpp`) | `mExiting`, `mUnavailableReadCount`, message channel | constructor, destructor, `perform`, `onUnavailableRead`, `preSave`, `save`, `postSave`, `load` | guest pings; render thread; snapshotter |
| `RenderThread` (`RenderThread.cpp`) | `mState`, `mFinished`, `mStream` | `pausePreSnapshot`, `save`, `resume`, `doSnapshotOperation`, main loop | stream, decoders, snapshotter |
| `MessageChannel` (`aemu/base`) | ring of messages, `mStopped` | `send`, `trySend`, `receive`, `tryReceive`, `timedReceive`, `stop`, `waitForEmpty` | used by the context and by most worker threads |
| `VirtioGpuTimelines` (`gfxstream/host`) | task map, one queue of tasks and fences per ring, `mLock` | `enqueueTask`, `enqueueFence`, `notifyTaskCompletion`, `poll` | virtio-gpu frontend, SyncThread workers, VMM fence callback |
| Pipe transport (`BufferQueue`, `RenderChannelImpl`, `ChannelStream`, `RenderThread`, `OpenglEsPipe`; modelled from the copy in `qemu/`, which also has the pipe service) | two bounded queues per channel, wanted and available events, the unread rest of a buffer on each side | `tryWrite`, `tryRead`, `onGuestWantWakeOn`, `readFromGuest`, `writeToGuest`, `stop`, `stopFromHost`, `pausePreSnapshot`, `onSave`, `resume` | goldfish pipe or a virtio guest, render thread, snapshotter |
| goldfish pipe: device (`qemu/hw/misc/goldfish_pipe.c`), `PipeWaker` (`AndroidPipe.cpp`, `DeviceContextRunner.h`), guest driver (`virtual-device/goldfish_drivers/goldfish_pipe.c`) | per pipe `wanted` and `closed`; list of pipes to report, interrupt line; queued operations; wait bits, list of signalled pipes | open, release, read, write, wake-on, interrupt, interrupt thread, `signalWake`, `closeFromHost`, timer | the services behind pipes; the guest's kernel |
| SyncThread, ThreadPool | worker queues | `triggerWait…`, `cleanup` | timelines, goldfish sync |
| goldfish sync, address space devices (`qemu/hw`), their guest drivers | device command buffers, block maps | register writes, interrupts | all of the above |
| FrameBuffer, PostWorker, VsyncThread, HealthMonitor, decoders | GL and Vulkan objects | - | drivers |

What is hard here:

* **Concurrency without locks.** Guest and host share memory; each side acts on
  words the other may be changing. `memcpy`s of both run at the same time.
* **Sleep and wakeup.** The host sleeps after some fruitless polls. The guest
  decides from one word whether a (costly) ping is needed, and pings may be
  dropped.
* **One buffer, three uses.** Only the order of waits keeps small commands,
  large transfers and replies from overwriting each other.
* **Snapshots and death.** The VM may be stopped, or the guest process killed,
  between any two instructions of the guest, while the host is anywhere.
* **Completion out of order.** GPU tasks finish on other threads in any order.
* **Signals at the edges.** Condition variables are signalled for the first item or
  the first free slot only, events nobody asked for are dropped, and checks and
  registrations are separate critical sections.
* **Ids used again.** A wake or a close passes through a queue, a list, an
  interrupt and a kernel thread; the pipe it was meant for may be gone by then.

The properties that make the parts correct: the ring is a FIFO without data
races and without deadlock; the channel delivers commands and replies intact, in
order and always; snapshots and destruction end; fences are signalled once, in
order, not early and not never; a queue is a bounded FIFO whose waiters are woken;
a snapshot misses nothing that was sent; a wake or a close reaches the call it is
for, and no other. `PROJECT.json` lists the hazards, each at its
line, with the properties that cover it.

## 2. Modules

| Module | Models | Proofs |
|---|---|---|
| `RingBuffer` | `ring_buffer.cpp`: two threads, byte by byte | `RingBufferProofs` |
| `AddressSpaceGraphics` | guest stream, host stream, context and snapshot state machine over one shared memory | `AddressSpaceGraphicsProofs` |
| `FenceTimeline` | what the timelines promise (abstract) | - |
| `VirtioGpuTimelines` | `VirtioGpuTimelines.cpp`; implements `FenceTimeline` | `VirtioGpuTimelinesProofs` |
| `MessageQueue` | a bounded FIFO that can be stopped (abstract) | - |
| `MessageChannel` | `MessageChannel.cpp` and `.h`; implements `MessageQueue` | `MessageChannelProofs` |
| `BufferQueue` | `BufferQueue.h` as operators on a queue: results, edges, growth | `BufferQueueProofs` |
| `RenderChannel` | the pipe transport over two `BufferQueue`s: guest, render thread, snapshotter | `RenderChannelProofs` |
| `GoldfishPipe` | driver, device and `PipeWaker` of the goldfish pipe | `GoldfishPipeProofs` |

`MC…` modules instantiate these for TLC; `DivisionLemmas` has the arithmetic of `%` and
`\div` that several proofs need. Operators whose comment starts with
"Mutant:" are not part of a model: each is a variant of the definition after it
with a plausible mistake, used to see that a property notices it.

### RingBuffer

Variables `write_pos`, `read_pos`, `buf` are the shared words, the rest the
locals of one call of the producer and one of the consumer. A call goes
`ready -> wait -> copy -> ...`: a wait ends when the atomic load of the peer's
position shows room; the copy moves one byte per step; publishing is the atomic
add, with the end of the loop of `*_fully_with_abort`. The k-th byte ever
written is the number k, so that any loss, duplication or reordering shows.
Positions count modulo `Size * Wraps`, as a `uint32_t` does modulo 2^32.

The code has each function twice, for the static ring and for a view. They
differ in where size and mask come from (`Size`), except
`ring_buffer_copy_contents`, which is modelled with both branches.

### AddressSpaceGraphics

Three processes:

* the **guest** (`gpc`): `Begin` starts `commitBuffer`, `writeFully` or
  `writeFullyAsync`, with or without a reply to read afterwards; `Close` is the
  destructor. The operations share their phases: the waits
  `ensureType3Finished` and `ensureType1Finished` (with the tables `AfterType3`
  and `AfterType1` saying what follows each use), the write of a descriptor or a
  chunk, `CheckHost` (the ping inside the loops), `NotifyAfter` (the one after
  them), the stores of size and mode, `speculativeRead`;
* the **host** (`hpc`): `readRaw` with its loop (`DrainReadBuffer`,
  `ReturnData`, `LoopTop`, the two loads, `type1Read`, `type3Read` in its three
  parts, `Unavailable`), `onUnavailableRead` and `ReceiveCommand`,
  `commitBuffer`, and what the render thread does when its stream ends
  (`doSnapshotOperation`, `snapshotOperation`);
* the **device thread** (`ctl`): `preSave`, `send`, `saveRingBlocks`,
  `saveBufferBlocks`, `save`, `resume`, in the order of
  `AddressSpaceDeviceState::save`, and `destroy`.

A snapshot is written while the render thread may still be reading:
`globalStateSave` (`address_space_device.cpp:216`) writes the blocks of the rings,
then those of the buffers, and only the `save` of the contexts (232) waits for the
thread. `image` is what has been written of the shared memory, `decoded` the units that the
thread has decoded, or has in its own read buffer, when it writes its state, at rest.
So an image can hold a unit twice, in a ring and decoded, and can miss a reply that was written after the rings
were. What must not happen is that a unit is in neither; that is `SnapshotHoldsAll`.
The write of the blocks of one kind is one step: with the VM stopped, all that
changes of the rings to the host are their read positions, the thread writes to the
buffer only when these rings are empty, and a unit it takes during the write is one
it has when it rests.

Every load and store of shared memory that another process can observe is a step
of its own. A ring operation is one step; `RingBuffer` justifies it, since what
a ring with one producer and one consumer shows to each of them is a FIFO whose
room and contents only the owner of the other end can enlarge. Descriptors and
data are kept apart as in the code: the data of a small command stays in its
slot of `buffer` until the host copies it, and a large transfer or a reply goes
through the same `buffer`, so an overlap corrupts what is read.

Abstractions: a unit stands for any number of bytes; the host decodes what it
reads at once, and a reply (`ReplySize` units) is owed as soon as the last unit of
a call has been read; `host_state` is read once where plain accesses of the code
could read it twice (the second read can only add a ping); the message channel
is an atomic bounded queue, which `MessageChannel` justifies; the VM being stopped and the
guest being killed are
external events. Left out: `m_tmpBuf` (its contents go through `writeFully`),
`in_error` (only a test sets it), `type2` (aborts), loading from a snapshot, the
allocation of the shared memory, backoff and statistics.

### VirtioGpuTimelines and FenceTimeline

One action per method; methods run under `mLock`, so `LockFree` guards them.
`poll_locked` calls out for every fence and is therefore taken item by item,
with the lock held (`pollRing`). A task's shared pointer is owned by the queue
alone, so erasing the item runs the deleter, which erases the map's entry. An
abort is the variable `aborted`. The environment (external to the class) reports
each task's completion once, in any order. Whether the VMM passed asynchronous
callbacks is the variable `mWithAsyncCallback`, chosen from `Modes` at the start
and never changed, as in the constructor. `FenceTimeline` has no queue and no
map: a log per ring, the set of completed tasks, and a `Signal` action that is
enabled when the next fence of a ring is due.

### MessageChannel and MessageQueue

A step is what a thread does from taking the lock to giving it up, so the lock is
free between steps. A waiting thread is in `canRead` or `canWrite`; a signal moves
one of them, any, to `woken`, and it competes for the lock with everybody else
before it looks at its condition again. `SpuriousWakeup` and a time-out that
comes after the signal are there. `stop` zeroes the count and wakes everybody.
`usage` says which calls each thread makes. Any thread may make any calls: nothing
in the class keeps its users from it.

One signal is given for each message and for each slot, and it can go to a thread
that has no use for it. `send` and `waitForEmpty` share `mCanWrite`, so the signal of
a freed slot can wake a thread that waits for the channel to drain, and a sender
sleeps on with room in the ring; and a `timedReceive` that times out after it was
signalled uses the signal up, while another receiver sleeps on beside a message.
The history variable `strayed` names these sleepers, until they are woken or what
they wait for is gone. `NoLostWakeup` and the first part of `CallsReturn` are stated
for all the others; the second part, that `stop` ends every call, has no
exception. Users of a channel that are exposed: `AsyncMetricsReporter.cpp` (`send`
from any thread at 46, `waitForEmpty` at 55), `RendererImpl.cpp` of `qemu` (82 and
90), and `RenderWindow.cpp` (695 against 488 and 591).

### BufferQueue and RenderChannel

`BufferQueue` has the queue of the class as a record (`mBuffers`, `mPos`, `mCount`,
`mClosed`, `mSnapshotMode`) with an operator per method and one per condition
under which a method signals; the blocking is in `RenderChannel`, which has:

* the **guest** (`gpc`): `Send` begins a write, with or without a reply to read;
  `tryWrite`, `onGuestRecv` (the copy from the rest of a buffer, then `tryRead`, in
  parts), and for a pipe guest `SetWakeBit`, `onGuestWantWakeOn`,
  `setWantedEvents`, sleep and `Deliver`; for a virtio guest the blocking
  `waitUntilReady`. `recvMode` is one of the three modes of `OpenglEsPipe`;
* the **render thread** (`hpc`): `readRaw`, `readFromGuest`, `decode`,
  `writeToGuest`, `doSnapshotOperation`, `snapshotOperation`, `setFinished`;
* the **snapshotter** (`ctl`): `pausePreSnapshot`, `onSave` (the queues), `save` (the
  thread), `resume`; `image` is what has been written so far;
* `stop` by the guest's close and `stopFromHost`.

The sleep of a pipe guest is the driver's loop (`goldfish_pipe.c:443-450`): it ends
only when the wake bit is clear, and a close is looked at after that. A close that
was delivered before the bit was set therefore leaves the guest asleep
(`CloseOvertook`).

Data are numbered units. `wake` is what goes through PipeWaker and the device; it
is a set here, which `GoldfishPipe` looks at in detail. Abstractions: a command is
`PacketSize` units, only the last of a write asks for a reply, the decoder takes
whole commands and answers each before it reads on; a stopped guest runs no step.

### GoldfishPipe

A command of the driver is a register write, which runs the device under the VM
lock: one step, but for PIPE_CMD_CLOSE (below). Under `dev->lock` are
open, the interrupt handler, the pop of the
interrupt thread, and the end of release. All else interleaves: both directions of
a pipe, setting the wait bit and sending WAKE_ON as two steps, the interrupt
thread with a popped pipe and no lock, the services, the timer of PipeWaker.
Objects stand for addresses: an object that was freed is used by a later open
while the interrupt thread may still point to it. `service` (external) is what the
host's end of a pipe can do, has been asked to report, and whether it has closed.
A transfer moves one unit; a service becomes ready only when that can be seen.

The VM lock keeps other commands, the interrupt handler's reads and the timer out of
the device (`VmLockFree`), but not the services: they queue operations exactly when
they do not hold it. So a close is taken in steps, and an operation can be queued
between any two of them: `CloseCommand` takes the pipe out of the device and
aborts its operations (`AndroidPipe.cpp:694`; `file` is then "stopping");
`onGuestClose` stops the channel ("aborting"), whose lock is held around the
callbacks that queue, so that the service is silent from here on; `hwpipe_free`
aborts once more (`OpenglEsPipe.cpp:301-303`) and frees service and pipe
("closing"); `release` is the driver's part, after which the object is free. The
service of the model is `EmuglPipe`, for which this second abort was written. Of a
service that queues from a thread of its own and does not abort again
(`ClipboardPipe.cpp:33-36` describes the race) `NoStalePipe` says nothing: the mutant
`abortAgain_none` shows what happens then.

The history variable `misled` has the objects that were freed while the interrupt
thread had popped them. The thread then applies old wakes to whatever pipe the
object has become, and can mark a new pipe closed whose service is open.

The two linked lists hold a
pipe at most once and are sets, from which the model takes any pipe where the code
takes the first: it has the code's orders and others, so that nothing shown
depends on the order. PipeWaker's vector is a set as well; the timer performs all of
it at once, and a wake or a close that is in it twice does what one does.

## 3. Runs

Bounds are small but were chosen for what must happen under them.

| Run | Bounds | Shows |
|---|---|---|
| `ring` | 4 bytes, positions modulo 8, 11 bytes in calls of 1 to 5 | every copy wraps at every offset, positions wrap, calls are larger than the ring and larger than a step; `Fifo`, `NoRace`, `NeverBothBlocked`, `CopyViewExact`, `RingInv`, `AllDelivered` |
| `ring_copy_static` | the same, 8 bytes | violated: `CopyStaticExact` |
| `timelines` | 2 rings, 3 tasks, 3 fences, both modes | `NeverAborts`, `TaskMapExact`, `AsyncDrained`, `TimelineInv`, `ImplementsTimeline` |
| `asg_transfer` | buffer of 4 units, 2 slots, commands of 1 to 4 units, replies larger than the ring | the buffer is reused by all three transports, chunks do not fit at first, replies come in parts; `StreamInOrder`, `RepliesInOrder`, `TransferConsistent`, `NoLostWakeup`, and `ProtocolInv`, on which their proofs rest; liveness `GuestReturns`, `AllConsumed`; deadlock is checked |
| `asg_lifecycle` | 2 units, one snapshot, guest may be killed | the thread reads on while rings and buffers are written; `SnapshotHoldsAll`, `SaveCompletes`, `ConsumerExits` |
| `message_channel` | 4 threads, 2 slots, 5 messages, stop, spurious wakeups; four usages: two senders and two receivers; a timed receiver with a sender that waits for empty; senders beside others that wait for empty; a timed receiver beside another receiver | the ring wraps, signals are stolen, go astray and meet time-outs; `NoLostWakeup`, `ImplementsQueue`, `CallsReturn`, `AllReceived`; deadlock is checked |
| `render_channel` | queues of 2, writes of 1 or 3 units up to 5, replies of 3 buffers of 2 units, the three receive modes, two snapshots, stop from both sides | a reply does not fit its queue, which grows in the snapshot; the second snapshot finds the thread parked in the first; `StreamExact`, `RepliesExact`, `GuestNotForgotten`, `WaitsForReason`, `NoCommandMissed`, and `ChannelInv`, which is inductive; liveness `GuestReturns`, `SaveCompletes`, `ThreadExits` |
| `goldfish_pipe` | 2 objects, 2 ids, report buffer of 1 pipe, 2 calls, 2 operations in PipeWaker; one pipe in both directions, or two pipes | more pipes signalled than fit a report, ids and objects used again, both directions asleep, operations queued while a pipe is being closed; `NoStalePipe`, `NoLostWakeup`, `ClosedIsReal`, and `PipeInv`, which is inductive; liveness `CallsReturn`, `CloseReported` |
| the five violations | as needed | see Findings |

The runs check the type invariants of `RenderChannel` and `GoldfishPipe` as parts of
`ChannelInv` and `PipeInv`; those of the other modules, and `NeverOverfull`, are proved and
not run. `RingInv`, `TimelineInv`, `ProtocolInv`, `PipeInv` and `ChannelInv` are the
inductive invariants of the proofs: a run of each shows on a small instance that it holds, and its mutant that
it notices a mistake.

`MaxSpins`, `MaxUnavailableReads` and `Capacity` are 30, 8 and 4 in the code. They
only decide how long the host polls before it sleeps and how many pings are kept;
1 and 2 let it sleep in more states, which is the harder case. `MaxUnits` bounds a
run's length; four units go round the buffer once, and one unit more than its
ring holds.

Sixty-four pipes fit a report of the real device; one makes the case of a full
report happen with two pipes. Two operations in PipeWaker are a wake and a close of
the same pipe, or one of each pipe. Two of the host-to-guest queue's slots against
three buffers of a reply make the render thread wait for room.

Deadlock is checked in `asg_transfer` and `message_channel`. It is not in `ring` and
`timelines`, where everything stops when the bounded input is through, in
`asg_lifecycle`, where a host that needs a dead guest really stops or spins, in
`render_channel`, where a closed channel is the end, and in `goldfish_pipe`, where
nothing is left to do once every pipe has been closed.

Fairness. `RingBuffer`: the two threads keep running and keep calling, as the
loops of guest and host do. `VirtioGpuTimelines`: the holder of `mLock` goes on, and
without asynchronous callbacks the VMM polls again and again; no task has to
finish. `AddressSpaceGraphics`: weak fairness of each of the three threads as a
whole, which is what a scheduler gives; nothing obliges the guest to begin a
command, to crash, or a snapshot to be taken, and the guest's fairness means
nothing while the VM is stopped. `MessageChannel`: a thread that can take the lock
takes it in the end, and receivers receive again, as their loops do; nobody has to
send. That `CallsReturn` rests on `MaxMessages` is meant: it stands for senders that
pause, since without a pause one sender can lose every race for the lock. `RenderChannel`: weak fairness of the guest inside a call, of the delivery of
events, of the render thread and of the snapshotter; nobody has to begin a write,
a close, a stop or a snapshot. `GoldfishPipe`: the guest's kernel and PipeWaker's
timer make progress as a whole (no actor needs a fairness of its own, since a call
takes a bounded number of steps between two signals), a close that is inside the
device gets to its end, and services become ready; without that a read may of
course wait for ever.

## 4. Findings

* **`ring_copy_static`**: `ring_buffer_copy_contents` without a view takes the
  distance to the end of the buffer from `write_pos` where it needs `read_pos`
  (`ring_buffer.cpp:286`). `RingStream::type1Read` avoids the effect by using the
  first descriptor only, under a TODO about unexplained data corruption
  (`RingStream.cpp:273`).
* **`asg_crash_commit`**: the `EXIT` that tells `commitBuffer` that the guest is
  gone is overwritten by the render thread's own stores; the thread, and the
  destructor that joins it, may then spin for ever. (For the same reason
  `host_state` reads `CAN_CONSUME`, not `EXIT`, after every normal exit.)
* **`asg_save_mid_transfer`**: a VM stopped between two chunks of a large transfer
  leaves the host in a loop that looks at nothing but the ring, so the snapshot
  waits for ever.
* **`asg_save_twice`**: a second snapshot that begins before the parked thread has
  got the lock back leaves it parked, and the second save waits for ever.
* **`render_snapshot`**: `BufferQueue` says that a queue in snapshot mode returns an
  error on all reads, but it returns what it holds; the queues are saved before the
  thread has come to rest, so an image can hold a command twice, queued and
  executed, and miss its reply. `NoCommandMissed` of `render_channel` shows the other
  half: nothing is missing from an image.

`SaveCompletes` and `ConsumerExits` of the passing `asg_lifecycle` are stated for a
host that does not need the guest (`HostNeedsGuest`); the two liveness findings on
stopped and killed guests are exactly the cases this leaves out.

Other properties of passing runs leave out a case by name, because no text in the
repository promises otherwise. The code really has these cases:

* `CloseOvertook` (`NoLostWakeup` and `CallsReturn` of `GoldfishPipe`, `GuestReturns` of
  `RenderChannel`): a call that sets its wait bit just after the interrupt thread has
  dealt with the close. WAKE_ON then fails, nobody looks at its status, and only a
  signal or the end of the process ends the wait.
* `StopOvertook` (`GuestReturns`): a virtio guest that is about to wait when its channel
  is stopped waits for ever, since `waitUntilPushable` and `waitUntilPopable` do not
  look at `mClosed`.
* `StillParked` (`GuestReturns`, `SaveCompletes`, `ThreadExits`): the render thread of the
  pipe transport (`qemu`, `RenderThread.cpp:198`) has the loop of `asg_save_twice`; a
  second snapshot finds it parked in the first, and hangs.
* `misled` (`ClosedIsReal`): an object that was freed and opened again while the
  interrupt thread held it is marked closed by the old pipe's close.
* `strayed` (`NoLostWakeup` and `CallsReturn` of `MessageChannel`): a signal that went to a
  thread without use for it.

`writeFullyAsync` changes `transfer_mode` with data in the ring, against the
description of the protocol in `address_space_graphics_types.h`; `asg_transfer`
contains this behaviour and shows that nothing depends on it.

## 5. Proofs

Each proof module establishes an inductive invariant and reads the results off it;
theorems hold for every value of the constants that satisfies the named `ASSUME`s.

**RingBufferProofs** (any even `Size > 1`, any number of wraps, any stream).
`Fifo` alone is not inductive: whether the next byte is right depends on the
buffer, the positions and what each side has claimed. `RingInv` adds:
`Positions` (a position is the total modulo its width), `Occupancy` (at most
`Size - 1` bytes between the totals), `ProducerClaim` and `ConsumerClaim` (the room
a side has seen is still there until it publishes, and steps inside a
`*_fully` call are at most half the ring), `Contents` (the bytes published and
those copied so far are in the buffer). Lemmas about `%` show that the code's
computations on wrapped positions equal those on totals, and that distinct
bytes of a window smaller than `Size` lie at distinct indices. For `RingCopyExact` the
two pieces in which `ring_buffer_copy_contents` copies are joined, and each byte is
found in `Contents`. Results: `RingTypeCorrect`, `RingCorrect`, `RingFifo`, `RingNoRace`,
`RingNeverOverfull`, `RingNeverBothBlocked`, `RingCopyExact`.

**VirtioGpuTimelinesProofs** (any set of rings, any number of tasks and fences,
both modes). `TimelineInv` says that each queue is the rest of its ring's log
(`QueueIsSuffix`), that what was passed is signalled or complete and what is
pending is not signalled, that ids are fresh, that tasks still to be reported are
in the map, and that in asynchronous mode every ring but the one being polled is
blocked. That the map is exact needs `MapInv` as well: a task is in the map if and only
if some queue holds it, and no queue holds it twice, so that erasing the item at the
head is right to erase the entry. Results: `TypeCorrect`, `TimelineCorrect`, `NoAbort`,
`AsyncNeverStuck`, `TaskMapCorrect`, and
`TimelinesRefine`: every behaviour satisfies the safety part of `FenceTimeline`.

**MessageChannelProofs** (any capacity, any finite set of threads, any usage, with
`stop` and spurious wakeups). The invariant is
`TypeOK`, `WaitersInv` and `NoLostWakeup`. `NoLostWakeup` counts awake threads and those
asleep that have not strayed, so it
needs to know who can be asleep where: `WaitersInv` says that readers wait on
`mCanRead` and senders and `waitForEmpty` on `mCanWrite`, that a thread is only in
calls of its usage, and that nobody waits and the count is 0 once the channel is
stopped. Lemmas on cardinalities say that a thread that begins a call, falls asleep
or is woken changes the number awake by exactly one; each action then changes
messages, slots and awake threads in step. Refinement needs arithmetic on the slot
that follows `mCount` others: `Contents` grows at its end and loses its head.
Results: `TypeCorrect`, `NoWakeupLost`, `ChannelRefines`.

**AddressSpaceGraphicsProofs** (any buffer that is a whole number of at least two
slots, any size of replies, any limits of the host, any stream, any number of
snapshots, with and without a killed guest). What the host reads is right only if
nobody has written over it since, and one buffer serves three transports; so
`ProtocolInv` says, for every point where either side may be, who may use what:

* `GuestInv`, `CallInv`, `HostInv`: what each side holds at each place of its code;
* `RingsInv`, `WaitedInv`: at most one of the two rings to the host holds anything, and
  what the guest has waited for is still so while it relies on it;
* `TransferInv`: `transfer_size` is what has been announced and not been claimed, also
  while the host has read the ring and not yet subtracted;
* `SlotsInv`, `FilledInv`, `SmallInv`: the descriptors in the ring name the slots just
  before the one being filled, no two the same, and hold consecutive units; `LargeInv`
  says the same of the ring for large transfers; `DecodedInv`: what the host has copied
  is the beginning of the stream;
* `ReplyInv`: a reply is under way only when all of its call has been received, so that
  nothing else is in the buffer;
* `WakeInv`: a host that is about to sleep has a message, or the guest will look at
  `host_state` once more. It has to speak of the states before the sleep (`Idling`) and of
  a guest that has already pinged (`Quiet`), which `NoLostWakeup` does not;
* `ExitInv`, `SnapshotInv`: who may store EXIT, and where thread and VM are in a snapshot.

One lemma per part shows that every step keeps it, with lemmas about what each
actor leaves alone; `SlotOffset` and `RingOffset` show that the bytes of different slots,
or of different places of a ring, are different.

`SnapshotsHoldAll` needs one more invariant, `ImageInv`: between the two writes, the
rings as they were written hold what they hold now and before it what the thread
has taken since; after them, every unit that the thread has not copied is in the
image; and a thread that rests has decoded all it has copied. That a unit which is
not copied lies in one of the rings at all is seen from the first place whose units
reach beyond it (`LeastNat`, which follows from the well-foundedness of `<`), since
the places hold consecutive units. Results: `ProtocolInvariant`,
`TypeCorrect`, `StreamReachesDecoder`, `RepliesReachGuest`, `TransfersConsistent`,
`WakeupsNotLost`, `SnapshotsHoldAll`.

**GoldfishPipeProofs** (any number of objects, ids, calls and queued operations, any
report buffer). A wake passes through PipeWaker, the device's list, the driver's list
and the interrupt thread. `PipeInv` is `TypeOK`, `NoStalePipe` and what ties the
stations together: open pipes have different ids
(`IdsDiffer`) and the device has exactly the pipes that are open in the driver
(`DeviceAgrees`); calls
are made on open pipes, and what is unused is clear (`CallsAreOpen`, `UnusedIsClear`);
who has to act on a list will do so (`InterruptsPending`); a
close is at a station only after it has been at those before, and is not gone from
the device before the driver has it (`CloseQueued`, `CloseInDevice`, `CloseInDriver`);
what the interrupt thread holds is of a pipe of the driver, and a close in it is the
pipe's own, or the object is `misled` (`CloseInTask`);
a flag in `wanted` is about to be reported, is in PipeWaker, or was asked of the service
(`WantedIsKnown`), which is what lets the device decide from `wanted` that the service
need not be asked; and a call whose bit is set is as safe between WAKE_ON and the wait
as in it (`WaitsKnown`). That nothing stays in PipeWaker for a pipe that is freed holds
step by step through a close: the first abort alone does not give it, since
`NoStalePipe` allows operations until the pipe is freed, and after `onGuestClose` only
the second abort changes them. `NoLostWakeup` and `ClosedIsReal` follow from the
invariant. Results: `PipeInvariant`, `NoStalePipes`, `NoWakeupLost`, `ClosesAreReal`.

**BufferQueueProofs** (any capacity, any state that `QueueOK` allows). What the ring
holds, oldest first, is `Contents`. `PushAppends`: a push appends to it, also when the
ring wraps and when it is full in snapshot mode and is copied into a larger one;
`PopTakesOldest`: a pop takes its head and leaves its tail. Both rest on
`DivisionLemmas`: the code wraps a position with one comparison, `Contents` with `%`.

**RenderChannelProofs** (any capacity of the queues, sizes of packets, writes, reads and
replies, the three receive modes, any number of snapshots, with and without stop). It
uses the queues only through the two theorems above. `ChannelInv` is `TypeOK`,
`StreamExact`, `RepliesExact`, `WaitsForReason` and what they need:

* `GuestInv`, `ThreadInv`: what each side holds at each place of its code; in particular
  that a thread owes a reply only while it pushes, and has read an unfinished command
  only while it reads;
* `ClosedInv`: the two queues are closed together and with the callback, and `mState` is
  up to date until then, so that a flag in it says what the queues hold;
* `WakeInv`: a guest asleep for an event has the wake on its way, or is registered for
  it while it is not in `mState`. `GuestNotForgotten` follows from this and `ClosedInv`;
* `AsksInv`: a reply is asked for by a command that has been sent in full, so a command
  counts as answered in the step that decodes it and in no other;
* `QueueInv`, `SnapshotInv`: each unit sent has been taken by the thread or is in the
  queue, and, once the queues are saved, in the image of the queue; the thread's part of
  the image is what it had taken. The thread may take units between the two saves,
  so the image may hold a unit twice (`render_snapshot`), but none is missing.

That buffers hold consecutive units is stated of each buffer and the one before it, never
by concatenating a queue, so no induction over data is needed. Results:
`ChannelInvariant`, `TypeCorrect`, `StreamReachesThread`, `RepliesReachGuest`,
`WaitersHaveReason`, `GuestNeverForgotten`, `NothingMissed`.

Only model-checked: all liveness (`AllDelivered`, the fairness part of
`ImplementsTimeline`, and every property with `~>`), which is out of the prover's
reach; and the properties of the five violations.

## 6. Not modelled, and plan

Left, in this order:

1. `SyncThread` and `ThreadPool` as the environment of the timelines; goldfish sync,
   device and driver.
2. Loading of snapshots, in both transports: what a thread that was saved before it
   had read its flags does, and the queues restored with a position.
3. Of modelled components: the handshake of `ring_buffer.cpp:620-680` (no transport
   calls it), `in_error` (only a test sets it), CMD_POLL, DMA, save and load, and
   version 1 of the goldfish pipe, the services of pipes other than `EmuglPipe`, several
   channels in one renderer.
4. The store-buffer view of the `host_state` handshake: the models are sequentially
   consistent.
5. Block allocators of the address space device and of the ASG globals, as pure
   algorithms.
6. Every safety property of the passing runs is proved. Of proofs, what is left is that
   the two transports implement an abstract channel, below.

The abstract specifications are `FenceTimeline` and `MessageQueue`. One more is worth
stating: a reliable duplex channel, for both transports.

Not planned: encoders and decoders (generated marshalling), FrameBuffer and
display threads (calls into drivers), QEMU itself, vendored code.

## 7. Running

    tlc -workers 2 -config AsgTransfer.cfg MCAddressSpaceGraphics
    tlc -workers 2 -config GoldfishPipe.cfg MCGoldfishPipe
    tlapm RingBufferProofs.tla
