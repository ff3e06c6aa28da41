------------------------- MODULE AddressSpaceGraphics -------------------------
(***************************************************************************)
(* Address space graphics (ASG): one guest thread sends graphics commands  *)
(* to one host RenderThread through memory they share, and rings the host  *)
(* (a VM exit) only when the host may be asleep.                           *)
(*                                                                         *)
(*   guest    gfxstream/guest/GoldfishAddressSpace/AddressSpaceStream.cpp  *)
(*   host     gfxstream/host/RingStream.cpp, and the snapshot part of      *)
(*            gfxstream/host/RenderThread.cpp                              *)
(*   context  aemu/host-common/address_space_graphics.cpp: the device side *)
(*            that creates, pauses, saves, resumes and destroys the host   *)
(*            thread, and passes the guest's pings on to it                *)
(*                                                                         *)
(* The shared memory holds three rings and ONE auxiliary buffer.  Small    *)
(* commands (type 1) are built in place in a slot of the buffer and only a *)
(* descriptor goes through to_host; large transfers (type 3) and replies   *)
(* use the whole same buffer as the storage of to_host_large_xfer and      *)
(* from_host_large_xfer.  Nothing but the protocol keeps the three uses    *)
(* apart.  A ring operation is one step here: RingBuffer shows that a      *)
(* ring with one producer and one consumer behaves so.  All other accesses *)
(* to shared memory are steps of their own.                                *)
(*                                                                         *)
(* A command is a run of units, numbered 1, 2, ... in the order in which   *)
(* the guest hands them to the stream; the k-th unit of reply is -k.       *)
(***************************************************************************)
EXTENDS Integers, Sequences

CONSTANTS
    BufferSize,             \* ring_config->buffer_size
    FlushInterval,          \* ring_config->flush_interval: the size of a slot
    RingEntries,            \* descriptors that fit in to_host
    Capacity,               \* of mConsumerMessages
    MaxSpins,               \* maxSpins of readRaw
    MaxUnavailableReads,    \* kMaxUnavailableReads
    ReplySize,              \* units of the reply to a call
    MaxUnits, MaxSize, MaxWanted, MaxSaves,
        \* bounds: units sent, units of one command, of one read; snapshots
    MayCrash                \* whether the guest process may be killed

ASSUME SizesAssumption ==
    /\ BufferSize \in Nat /\ FlushInterval \in Nat \ {0}
    /\ BufferSize % FlushInterval = 0 /\ BufferSize % 4 = 0
    /\ BufferSize \div FlushInterval > 1
ASSUME LimitsAssumption ==
    /\ {RingEntries, Capacity, MaxSpins, MaxUnavailableReads, ReplySize} \subseteq Nat \ {0}
    /\ {MaxUnits, MaxSize, MaxWanted, MaxSaves} \subseteq Nat
    /\ MayCrash \in BOOLEAN

VARIABLES
    toHost,                 \* to_host: descriptors [slot, size]
    largeW, largeR,         \* units ever written to, read from to_host_large_xfer
    fromW, fromR,           \* the same of from_host_large_xfer
    buffer,                 \* the auxiliary buffer
    host_state, transfer_mode, transfer_size,
    messages,               \* mConsumerMessages
    gpc, gop, gsent, pinged, nudging, writeStart, sent, callEnd, got,
        \* guest: where it is, its command, units of it sent, hostPinged,
        \* inside the loop of ensureType3Finished, m_writeStart, units of
        \* earlier commands, last unit of a command that wants a reply
        \* (0: none), replies received
    hpc, wanted, dst, readBuffer, inLargeXfer, spins, todo,
    unavailableReads, shouldExit, shouldExitForSnapshot, owed, received,
        \* host: where it is, the locals and members of RingStream, units
        \* type3Read has still to copy; mUnavailableReadCount, units of
        \* reply still to be sent, units received
    ctl, vmRunning, alive, exiting, state, inSnapshotOperation, saves,
        \* context: what the device thread is doing, whether the VM runs and
        \* the guest process lives, mExiting, RenderThread::mState,
        \* mInSnapshotOperation, snapshots taken
    image, decoded
        \* the snapshot: the rings to the host and the buffer as they were
        \* written; how far the thread was that saved itself in mStream

large == <<largeW, largeR>>
from == <<fromW, fromR>>
config == <<transfer_mode, transfer_size>>
shared == <<toHost, large, from, buffer, host_state, config, messages>>
op == <<gop, gsent, pinged>>
stream == <<nudging, writeStart, sent, callEnd, got>>
guest == <<gpc, op, stream>>
reading == <<wanted, dst, readBuffer, inLargeXfer, spins, todo>>
thread == <<unavailableReads, shouldExit, shouldExitForSnapshot, owed, received>>
host == <<hpc, reading, thread>>
snapshot == <<image, decoded>>
control == <<ctl, vmRunning, alive, exiting, state, inSnapshotOperation, saves, snapshot>>
vars == <<shared, guest, host, control>>

Kinds == {"commit", "writeFully", "writeFullyAsync"}
NoOp == [kind |-> "commit", size |-> 0, call |-> FALSE]

EmptyBuffer == [c \in 0..(BufferSize - 1) |-> 0]
NoImage == [toHost |-> <<>>, largeW |-> 0, largeR |-> 0, buffer |-> EmptyBuffer]

(* The constructor of AddressSpaceGraphicsContext, with the guest at rest. *)
Init ==
    /\ toHost = <<>> /\ largeW = 0 /\ largeR = 0 /\ fromW = 0 /\ fromR = 0
    /\ buffer = EmptyBuffer
    /\ host_state = "NEED_NOTIFY" /\ transfer_mode = 1 /\ transfer_size = 0
    /\ messages = <<>>
    /\ gpc = "idle" /\ gop = NoOp /\ gsent = 0 /\ pinged = FALSE /\ nudging = FALSE
    /\ writeStart = 0 /\ sent = 0 /\ callEnd = 0 /\ got = <<>>
    /\ hpc = "render" /\ wanted = 0 /\ dst = <<>> /\ readBuffer = <<>>
    /\ inLargeXfer = TRUE /\ spins = 0 /\ unavailableReads = 0
    /\ shouldExit = FALSE /\ shouldExitForSnapshot = FALSE
    /\ todo = 0 /\ owed = 0 /\ received = <<>>
    /\ ctl = "run" /\ vmRunning = TRUE /\ alive = TRUE /\ exiting = FALSE
    /\ state = "Empty" /\ inSnapshotOperation = FALSE /\ saves = 0
    /\ image = NoImage /\ decoded = 0
-----------------------------------------------------------------------------
AtMost(n, k) == IF k < n THEN k ELSE n

Slots == BufferSize \div FlushInterval

(* The buffer after n units have been put in from position pos, the i-th   *)
(* of them being U(i).                                                     *)
Put(pos, n, U(_)) ==
    [c \in DOMAIN buffer |->
       LET i == (c - pos) % BufferSize IN IF i < n THEN U(i) ELSE buffer[c]]

(* n units of the buffer from position pos. *)
Take(pos, n) == [i \in 1..n |-> buffer[(pos + i - 1) % BufferSize]]

(* perform(ASG_NOTIFY_AVAILABLE), with the trySend of the channel. *)
notifyAvailable ==
    messages' = IF Len(messages) < Capacity THEN Append(messages, "Wakeup") ELSE messages
-----------------------------------------------------------------------------
(* The guest's stream. *)

GuestRuns == vmRunning /\ alive
At(pc) == GuestRuns /\ gpc = pc
Goto(pc) == gpc' = pc

Awake == host_state \in {"CAN_CONSUME", "RENDERING"}

(* What follows each use of ensureType3Finished and ensureType1Finished. *)
AfterType3 == [alloc3 |-> "fill", commit3 |-> "room", write3 |-> "write1",
               end3 |-> "mode", read3 |-> "read1", close3 |-> "close1"]
AfterType1 == [write1 |-> "size", read1 |-> "read", close1 |-> "closed"]

(* allocBuffer and commitBuffer of a small command, or a large one through *)
(* writeFully or writeFullyAsync; with call, the guest then reads a reply. *)
Begin(o) ==
    /\ At("idle")
    /\ sent + o.size =< MaxUnits
    /\ o.kind = "commit" => o.size =< FlushInterval
    /\ Goto(IF o.kind = "commit" THEN "alloc3" ELSE "write3")
    /\ gop' = o
    /\ callEnd' = IF o.call THEN sent + o.size ELSE callEnd
    /\ UNCHANGED <<gsent, pinged, nudging, writeStart, sent, got, shared, host, control>>

(* ~AddressSpaceStream: everything is finished before the handle is closed. *)
Close ==
    /\ At("idle") /\ Goto("close3")
    /\ UNCHANGED <<op, stream, shared, host, control>>

(* One round of the loop.  An empty ring stays empty, the guest being its  *)
(* only producer, so looking at the ring and at host_state in one step     *)
(* loses no behaviour but repeated pings.                                  *)
ensureType3Finished ==
    /\ GuestRuns /\ gpc \in DOMAIN AfterType3
    /\ IF largeW = largeR
       THEN Goto(AfterType3[gpc]) /\ nudging' = FALSE
       ELSE Goto(gpc) /\ nudging' = TRUE
    /\ IF nudging /\ ~Awake THEN notifyAvailable ELSE UNCHANGED messages
    /\ UNCHANGED <<op, writeStart, sent, callEnd, got, toHost, large, from, buffer,
                   host_state, config, host, control>>

Type1Finished == toHost = <<>>

ensureType1Finished ==
    /\ GuestRuns /\ gpc \in DOMAIN AfterType1
    /\ Type1Finished
    /\ Goto(AfterType1[gpc])
    /\ UNCHANGED <<op, stream, shared, host, control>>

(* The encoder writes its command to the slot allocBuffer gave it. *)
Fill ==
    /\ At("fill") /\ Goto("commit3")
    /\ buffer' = Put(writeStart * FlushInterval, gop.size, LAMBDA i : sent + i + 1)
    /\ UNCHANGED <<op, stream, toHost, large, from, host_state, config, messages, host, control>>

(* Mutant: the slot being filled is not set aside. *)
maxOutstanding_all == Slots

maxOutstanding == IF Slots > 1 THEN Slots - 1 ELSE 1

(* type1Write: wait for room, ... *)
type1Write_room ==
    /\ At("room") /\ Goto("write")
    /\ Len(toHost) < maxOutstanding
    /\ UNCHANGED <<op, stream, shared, host, control>>

(* ... put the descriptor in the ring, if it fits, ... *)
type1Write_ring ==
    /\ At("write") /\ Goto("check")
    /\ gop.kind = "commit"
    /\ IF Len(toHost) < RingEntries
       THEN /\ toHost' = Append(toHost, [slot |-> writeStart, size |-> gop.size])
            /\ gsent' = gop.size
       ELSE UNCHANGED <<toHost, gsent>>
    /\ UNCHANGED <<gop, pinged, stream, large, from, buffer, host_state, config, messages,
                   host, control>>

(* The chunks of writeFully and of writeFullyAsync, ... *)
chunkSize == AtMost(gop.size, BufferSize \div (IF gop.kind = "writeFully" THEN 4 ELSE 2))
sendThisTime == AtMost(gop.size - gsent, chunkSize)

(* ... each written whole or, without room, not at all. *)
writeFully_chunk ==
    /\ At("write") /\ Goto("check")
    /\ gop.kind # "commit"
    /\ IF BufferSize - 1 - (largeW - largeR) >= sendThisTime
       THEN /\ buffer' = Put(largeW, sendThisTime, LAMBDA i : sent + gsent + i + 1)
            /\ largeW' = largeW + sendThisTime
            /\ gsent' = gsent + sendThisTime
       ELSE UNCHANGED <<buffer, largeW, gsent>>
    /\ UNCHANGED <<gop, pinged, stream, toHost, largeR, from, host_state, config, messages,
                   host, control>>

(* The loop of type1Write, writeFully and writeFullyAsync: a host that may *)
(* be asleep is pinged, once.                                              *)
CheckHost ==
    /\ At("check") /\ Goto(IF gsent = gop.size THEN "after" ELSE "write")
    /\ IF ~pinged /\ ~Awake
       THEN pinged' = TRUE /\ notifyAvailable
       ELSE UNCHANGED <<pinged, messages>>
    /\ UNCHANGED <<gop, gsent, stream, toHost, large, from, buffer, host_state, config,
                   host, control>>

(* The command is on its way, and the locals of its call are gone. *)
Finish ==
    /\ Goto(IF gop.call THEN "read3" ELSE "idle")
    /\ sent' = sent + gop.size
    /\ gop' = NoOp /\ gsent' = 0 /\ pinged' = FALSE

(* Mutant: only a host that sleeps is pinged. *)
isRenderingAfter_awake == Awake

isRenderingAfter == host_state = "RENDERING"

(* Mutant: the next command is given the same slot. *)
advanceWrite_same == writeStart' = writeStart

advanceWrite == writeStart' = (writeStart + 1) % Slots

(* After the loop the host is pinged unless it is rendering.  This ends    *)
(* commitBuffer of a small command, and leaves writeFully its epilogue.    *)
NotifyAfter ==
    /\ At("after")
    /\ IF isRenderingAfter THEN UNCHANGED messages ELSE notifyAvailable
    /\ IF gop.kind = "commit"
       THEN Finish /\ advanceWrite
       ELSE /\ Goto(IF gop.kind = "writeFully" THEN "end3" ELSE "mode")
            /\ UNCHANGED <<op, sent, writeStart>>
    /\ UNCHANGED <<nudging, callEnd, got, toHost, large, from, buffer, host_state, config,
                   host, control>>

(* The stores before the loop of writeFully, and the one after it. *)
SetTransferSize ==
    /\ At("size") /\ Goto("mode3")
    /\ transfer_size' = gop.size
    /\ UNCHANGED <<op, stream, toHost, large, from, buffer, host_state, transfer_mode, messages,
                   host, control>>

SetTransferMode ==
    /\ \/ At("mode3") /\ transfer_mode' = 3 /\ Goto("write") /\ UNCHANGED <<op, sent>>
       \/ At("mode") /\ transfer_mode' = 1 /\ Finish
    /\ UNCHANGED <<nudging, writeStart, callEnd, got, toHost, large, from, buffer, host_state,
                   transfer_size, messages, host, control>>

(* Mutant: readFully is content with the first part of a reply. *)
ReplyComplete_atOnce == TRUE

ReplyComplete == fromW % ReplySize = 0

(* speculativeRead takes what there is; readFully repeats it until the     *)
(* reply is complete.                                                      *)
speculativeRead ==
    /\ At("read")
    /\ fromW > fromR
    /\ got' = got \o Take(fromR, fromW - fromR)
    /\ fromR' = fromW
    /\ IF ReplyComplete
       THEN Goto("idle") /\ callEnd' = 0
       ELSE Goto("read3") /\ UNCHANGED callEnd
    /\ UNCHANGED <<op, nudging, writeStart, sent, toHost, large, fromW, buffer,
                   host_state, config, messages, host, control>>
-----------------------------------------------------------------------------
(* The host's RenderThread and its RingStream. *)

HAt(pc) == hpc = pc
HGoto(pc) == hpc' = pc

(* readRaw is called for up to w units. *)
readRaw(w) ==
    /\ HAt("render") /\ owed = 0 /\ HGoto("top")
    /\ host_state' = "CAN_CONSUME"
    /\ wanted' = w
    /\ UNCHANGED <<dst, readBuffer, inLargeXfer, spins, todo, thread, toHost, large, from, buffer,
                   config, messages, guest, control>>

(* What is left of an earlier command goes first. *)
DrainReadBuffer ==
    /\ HAt("top") /\ HGoto("top")
    /\ readBuffer # <<>> /\ Len(dst) < wanted
    /\ LET n == AtMost(Len(readBuffer), wanted - Len(dst))
       IN /\ dst' = dst \o SubSeq(readBuffer, 1, n)
          /\ readBuffer' = SubSeq(readBuffer, n + 1, Len(readBuffer))
    /\ UNCHANGED <<wanted, inLargeXfer, spins, todo, thread, shared, guest, control>>

(* There is something to return: the RenderThread decodes it, which may    *)
(* complete a command that is owed a reply.  readRaw's locals are reset    *)
(* here to what the next call starts with.                                 *)
ReturnData ==
    /\ HAt("top") /\ HGoto("render")
    /\ dst # <<>> /\ (readBuffer = <<>> \/ Len(dst) = wanted)
    /\ host_state' = "RENDERING"
    /\ received' = received \o dst
    /\ owed' = IF \E i \in 1..Len(dst) : callEnd # 0 /\ dst[i] = callEnd THEN ReplySize ELSE 0
    /\ wanted' = 0 /\ dst' = <<>> /\ inLargeXfer' = TRUE /\ spins' = 0 /\ todo' = 0
    /\ UNCHANGED <<readBuffer, unavailableReads, shouldExit, shouldExitForSnapshot,
                   toHost, large, from, buffer, config, messages, guest, control>>

LoopTop ==
    /\ HAt("top") /\ HGoto(IF shouldExit THEN "null" ELSE "poll")
    /\ dst = <<>> /\ readBuffer = <<>>
    /\ host_state' = "CAN_CONSUME"
    /\ UNCHANGED <<reading, thread, toHost, large, from, buffer, config, messages, guest, control>>

(* The two loads of the available counts; todo keeps the second. *)
PollToHost ==
    /\ HAt("poll") /\ HGoto(IF toHost # <<>> THEN "type1" ELSE "pollLarge")
    /\ inLargeXfer' = (inLargeXfer /\ toHost = <<>>)
    /\ UNCHANGED <<wanted, dst, readBuffer, spins, todo, thread, shared, guest, control>>

PollLarge ==
    /\ HAt("pollLarge") /\ HGoto(IF largeW > largeR THEN "type3" ELSE "unavailable")
    /\ todo' = largeW - largeR
    /\ UNCHANGED <<wanted, dst, readBuffer, inLargeXfer, spins, thread, shared, guest, control>>

(* type1Read copies the first command out, into readBuffer if it is larger *)
(* than what was asked for, ...                                            *)
type1Read ==
    /\ HAt("type1") /\ HGoto(IF transfer_mode = 1 THEN "advance" ELSE "top")
    /\ LET d == toHost[1]
           bytes == Take(d.slot * FlushInterval, d.size)
       IN /\ dst' = IF transfer_mode = 1 /\ d.size =< wanted THEN bytes ELSE dst
          /\ readBuffer' = IF transfer_mode = 1 /\ d.size > wanted THEN bytes ELSE readBuffer
    /\ UNCHANGED <<wanted, inLargeXfer, spins, todo, thread, shared, guest, control>>

(* ... and only then gives its slot back. *)
type1Read_advance ==
    /\ HAt("advance") /\ HGoto("top")
    /\ toHost' = Tail(toHost)
    /\ UNCHANGED <<reading, thread, large, from, buffer, host_state, config, messages, guest, control>>

(* type3Read: how much, ... *)
type3Read ==
    /\ HAt("type3") /\ HGoto("type3sub")
    /\ todo' = AtMost(todo, AtMost(transfer_size, wanted))
    /\ UNCHANGED <<wanted, dst, readBuffer, inLargeXfer, spins, thread, shared, guest, control>>

(* Mutant: transfer_size is reduced only after the ring has been read. *)
type3Read_subLate ==
    /\ \/ /\ HAt("type3sub") /\ HGoto("subLate")
          /\ dst' = dst \o Take(largeR, todo)
          /\ largeR' = largeR + todo /\ UNCHANGED transfer_size
       \/ /\ HAt("subLate") /\ HGoto("top")
          /\ transfer_size' = transfer_size - todo /\ UNCHANGED <<dst, largeR>>
    /\ UNCHANGED <<wanted, readBuffer, inLargeXfer, spins, todo, thread, toHost, largeW, from,
                   buffer, host_state, transfer_mode, messages, guest, control>>

(* ... which is taken off transfer_size before the guest can see the room, *)
(* ...                                                                     *)
type3Read_sub ==
    /\ HAt("type3sub") /\ HGoto("type3copy")
    /\ transfer_size' = transfer_size - todo
    /\ UNCHANGED <<reading, thread, toHost, large, from, buffer, host_state, transfer_mode,
                   messages, guest, control>>

(* ... and read in steps of half the ring.  Then readRaw looks whether the *)
(* transfer is over.                                                       *)
type3Read_copy ==
    /\ HAt("type3copy")
    /\ LET n == AtMost(todo, BufferSize \div 2)
       IN /\ dst' = dst \o Take(largeR, n)
          /\ largeR' = largeR + n
          /\ todo' = todo - n
          /\ HGoto(IF todo = n THEN "top" ELSE "type3copy")
          /\ inLargeXfer' = IF todo = n THEN transfer_size # 0 ELSE inLargeXfer
    /\ UNCHANGED <<wanted, readBuffer, spins, thread, toHost, largeW, from, buffer, host_state,
                   config, messages, guest, control>>

(* Both rings were empty.  In a large transfer the host keeps looking; in  *)
(* time it leaves for a snapshot, or asks the context what to do.          *)
Unavailable ==
    /\ HAt("unavailable")
    /\ IF inLargeXfer /\ transfer_size # 0
       THEN HGoto("top") /\ UNCHANGED <<inLargeXfer, spins>>
       ELSE /\ inLargeXfer' = FALSE
            /\ spins' = (spins + 1) % MaxSpins
            /\ HGoto(IF spins + 1 < MaxSpins THEN "top"
                     ELSE IF shouldExit \/ (shouldExitForSnapshot /\ inSnapshotOperation)
                          THEN "null" ELSE "callback")
    /\ UNCHANGED <<wanted, dst, readBuffer, todo, thread, shared, guest, control>>

(* AddressSpaceGraphicsContext::onUnavailableRead: from time to time the   *)
(* host goes to sleep, ...                                                 *)
onUnavailableRead ==
    /\ HAt("callback")
    /\ IF exiting \/ unavailableReads + 1 >= MaxUnavailableReads
       THEN unavailableReads' = 0 /\ host_state' = "NEED_NOTIFY" /\ HGoto("receive")
       ELSE unavailableReads' = unavailableReads + 1 /\ HGoto("top") /\ UNCHANGED host_state
    /\ UNCHANGED <<reading, shouldExit, shouldExitForSnapshot, owed, received,
                   toHost, large, from, buffer, config, messages, guest, control>>

(* ... until a command comes.  (Nobody sends the fifth command, Sleep.)    *)
ReceiveCommand ==
    /\ HAt("receive") /\ HGoto("top")
    /\ messages # <<>>
    /\ messages' = Tail(messages)
    /\ LET cmd == Head(messages)
       IN /\ host_state' = CASE cmd = "Wakeup" -> "CAN_CONSUME"
                             [] cmd = "Exit" -> "EXIT"
                             [] OTHER -> host_state
          /\ shouldExit' = (shouldExit \/ cmd = "Exit")
          /\ shouldExitForSnapshot' =
                (cmd = "PausePreSnapshot" \/ (shouldExitForSnapshot /\ cmd # "ResumePostSnapshot"))
    /\ UNCHANGED <<reading, unavailableReads, owed, received, toHost, large, from, buffer, config,
                   guest, control>>

(* The decoder sends its reply: what fits; when nothing does, it gives up  *)
(* if the device has said EXIT, and otherwise tries again.                 *)
commitBuffer ==
    /\ HAt("render") /\ owed > 0 /\ HGoto("render")
    /\ LET avail == BufferSize - 1 - (fromW - fromR)
           n == AtMost(owed, avail)
       IN \/ /\ avail > 0
             /\ buffer' = Put(fromW, n, LAMBDA i : -(fromW + i + 1))
             /\ fromW' = fromW + n
             /\ owed' = owed - n
          \/ /\ avail = 0 /\ host_state = "EXIT"
             /\ owed' = 0
             /\ UNCHANGED <<buffer, fromW>>
    /\ UNCHANGED <<reading, unavailableReads, shouldExit, shouldExitForSnapshot, received,
                   toHost, large, fromR, host_state, config, messages, guest, control>>

(* RenderThread::main when readRaw has returned null: the thread saves     *)
(* itself when a snapshot is pending, and ends otherwise (setFinished).    *)
doSnapshotOperation ==
    /\ HAt("null")
    /\ IF state = "StartSaving"
       THEN state' = "InProgress" /\ HGoto("saving")
       ELSE state' = state /\ HGoto("exited")
    /\ UNCHANGED <<reading, thread, shared, guest, ctl, vmRunning, alive, exiting,
                   inSnapshotOperation, saves, snapshot>>

(* The thread saves itself, with the readBuffer of its stream.  Then it    *)
(* waits to be resumed, and calls readRaw anew.                            *)
snapshotOperation ==
    /\ \/ /\ HAt("saving") /\ state' = "Finished" /\ HGoto("paused")
          /\ decoded' = Len(received) + Len(readBuffer)
          /\ UNCHANGED reading
       \/ /\ HAt("paused") /\ state = "Empty" /\ state' = state /\ HGoto("render")
          /\ wanted' = 0 /\ inLargeXfer' = TRUE /\ spins' = 0 /\ todo' = 0
          /\ UNCHANGED <<dst, readBuffer, decoded>>
    /\ UNCHANGED <<thread, shared, guest, ctl, vmRunning, alive, exiting,
                   inSnapshotOperation, saves, image>>
-----------------------------------------------------------------------------
(* The device: AddressSpaceDeviceState::save, and the end of the context. *)

(* The VM is stopped and RenderThread::pausePreSnapshot runs, with a new,  *)
(* empty mStream.                                                          *)
preSave ==
    /\ ctl = "run" /\ saves < MaxSaves
    /\ ctl' = "pause" /\ saves' = saves + 1 /\ vmRunning' = FALSE
    /\ state' = "StartSaving" /\ inSnapshotOperation' = TRUE
    /\ decoded' = 0
    /\ UNCHANGED <<alive, exiting, image, shared, guest, host>>

(* globalStateSave writes the blocks: first the rings, then the buffers    *)
(* (a virtio context has both in one block, in this order).  The thread    *)
(* has been told of the snapshot and may not have heard of it: it reads    *)
(* and answers as before, also during a write.  Of the rings to the host   *)
(* it changes only the read positions, and it writes to the buffer only    *)
(* when they are empty; so each write is one step.                         *)
saveRingBlocks ==
    /\ ctl = "rings" /\ ctl' = "buffers"
    /\ image' = [image EXCEPT !.toHost = toHost, !.largeW = largeW, !.largeR = largeR]
    /\ UNCHANGED <<vmRunning, alive, exiting, state, inSnapshotOperation, saves, decoded,
                   shared, guest, host>>

saveBufferBlocks ==
    /\ ctl = "buffers" /\ ctl' = "save"
    /\ image' = [image EXCEPT !.buffer = buffer]
    /\ UNCHANGED <<vmRunning, alive, exiting, state, inSnapshotOperation, saves, decoded,
                   shared, guest, host>>

(* Mutant: it is enough that a snapshot has been asked for. *)
SnapshotComplete_started == state # "Empty" \/ hpc = "exited"

(* waitForSnapshotCompletion. *)
SnapshotComplete == state = "Finished" \/ hpc = "exited"

(* RenderThread::save waits for the thread, and writes its mStream. *)
save ==
    /\ ctl = "save" /\ ctl' = "postSave"
    /\ SnapshotComplete
    /\ UNCHANGED <<vmRunning, alive, exiting, state, inSnapshotOperation, saves, snapshot,
                   shared, guest, host>>

(* RenderThread::resume clears mStream, and the VM runs again. *)
resume ==
    /\ ctl = "resume" /\ ctl' = "run"
    /\ SnapshotComplete
    /\ state' = "Empty" /\ inSnapshotOperation' = FALSE /\ vmRunning' = TRUE
    /\ decoded' = 0 /\ image' = NoImage
    /\ UNCHANGED <<alive, exiting, saves, shared, guest, host>>

(* The guest process is killed, in the middle of anything. *)
Crash ==
    /\ MayCrash /\ GuestRuns /\ gpc # "closed"
    /\ alive' = FALSE
    /\ UNCHANGED <<ctl, vmRunning, exiting, state, inSnapshotOperation, saves, snapshot,
                   shared, guest, host>>

(* ~AddressSpaceGraphicsContext, once the handle is closed: it stores      *)
(* mExiting and EXIT, sends Exit, and waits for the thread to end.         *)
destroy ==
    /\ \/ /\ ctl = "run" /\ (gpc = "closed" \/ ~alive)
          /\ exiting' = TRUE /\ ctl' = "setExit" /\ UNCHANGED host_state
       \/ /\ ctl = "setExit"
          /\ host_state' = "EXIT" /\ ctl' = "exit" /\ UNCHANGED exiting
       \/ /\ ctl = "destroy" /\ hpc = "exited"
          /\ ctl' = "destroyed" /\ UNCHANGED <<exiting, host_state>>
    /\ UNCHANGED <<vmRunning, alive, state, inSnapshotOperation, saves, snapshot,
                   toHost, large, from, buffer, config, messages, guest, host>>

(* What the device thread sends, and what it does next. *)
Command == [pause |-> "PausePreSnapshot", postSave |-> "ResumePostSnapshot", exit |-> "Exit"]
AfterSend == [pause |-> "rings", postSave |-> "resume", exit |-> "destroy"]

(* Mutant: a command is sent as a ping is, and may be dropped. *)
Enqueue_try(cmd) ==
    messages' = IF Len(messages) < Capacity THEN Append(messages, cmd) ELSE messages

Enqueue(cmd) == Len(messages) < Capacity /\ messages' = Append(messages, cmd)

(* The blocking send of the channel. *)
send ==
    /\ ctl \in DOMAIN Command /\ ctl' = AfterSend[ctl]
    /\ Enqueue(Command[ctl])
    /\ UNCHANGED <<vmRunning, alive, exiting, state, inSnapshotOperation, saves, snapshot,
                   toHost, large, from, buffer, host_state, config, guest, host>>
-----------------------------------------------------------------------------
Ops == [kind : Kinds, size : 1..MaxSize, call : BOOLEAN]

GuestStep ==
    \/ ensureType3Finished \/ ensureType1Finished
    \/ Fill \/ type1Write_room \/ type1Write_ring \/ writeFully_chunk
    \/ CheckHost \/ NotifyAfter \/ SetTransferSize \/ SetTransferMode
    \/ speculativeRead

HostStep ==
    \/ \E w \in 1..MaxWanted : readRaw(w)
    \/ DrainReadBuffer \/ ReturnData \/ LoopTop \/ PollToHost \/ PollLarge
    \/ type1Read \/ type1Read_advance
    \/ type3Read \/ type3Read_sub \/ type3Read_copy
    \/ Unavailable \/ onUnavailableRead \/ ReceiveCommand
    \/ commitBuffer \/ doSnapshotOperation \/ snapshotOperation

ControlStep == saveRingBlocks \/ saveBufferBlocks \/ save \/ resume \/ destroy \/ send

(* The context is gone; only now may everything stop. *)
Gone == ctl = "destroyed" /\ UNCHANGED vars

Next ==
    \/ \E o \in Ops : Begin(o)
    \/ Close \/ Crash \/ preSave
    \/ GuestStep \/ HostStep \/ ControlStep \/ Gone

Safety == Init /\ [][Next]_vars

(* Three threads that the schedulers keep running (the guest's only while  *)
(* the VM runs); whether the guest starts a command, crashes or a snapshot *)
(* is taken is left open.                                                  *)
Spec == Safety /\ WF_vars(GuestStep) /\ WF_vars(HostStep) /\ WF_vars(ControlStep)
-----------------------------------------------------------------------------
\* Types of the shared words and of the three processes; rings within their size.
TypeOK ==
    /\ toHost \in Seq([slot : 0..(Slots - 1), size : 1..FlushInterval])
    /\ {largeW, largeR, fromW, fromR} \subseteq Nat
    /\ buffer \in [0..(BufferSize - 1) -> Int]
    /\ host_state \in {"NEED_NOTIFY", "CAN_CONSUME", "EXIT", "RENDERING"}
    /\ transfer_mode \in {1, 3} /\ transfer_size \in Nat
    /\ messages \in Seq({"Wakeup", "Exit", "PausePreSnapshot", "ResumePostSnapshot"})
    /\ Len(messages) =< Capacity
    /\ gpc \in {"idle", "fill", "room", "write", "check", "after", "size", "mode3", "mode", "read", "closed"}
              \cup DOMAIN AfterType3 \cup DOMAIN AfterType1
    /\ gop \in Ops \cup {NoOp} /\ gsent \in 0..gop.size
    /\ {pinged, nudging} \subseteq BOOLEAN
    /\ writeStart \in 0..(Slots - 1) /\ sent \in Nat /\ callEnd \in Nat /\ got \in Seq(Int)
    /\ hpc \in {"render", "top", "poll", "pollLarge", "type1", "advance", "type3", "type3sub",
                "type3copy", "unavailable", "callback", "receive", "null", "saving", "paused", "exited"}
    /\ wanted \in 0..MaxWanted /\ dst \in Seq(Int) /\ readBuffer \in Seq(Int)
    /\ {inLargeXfer, shouldExit, shouldExitForSnapshot} \subseteq BOOLEAN
    /\ spins \in 0..MaxSpins /\ unavailableReads \in 0..MaxUnavailableReads
    /\ todo \in Nat /\ owed \in 0..ReplySize /\ received \in Seq(Int)
    /\ ctl \in {"run", "rings", "buffers", "save", "resume", "setExit", "destroy", "destroyed"} \cup DOMAIN Command
    /\ {vmRunning, alive, exiting, inSnapshotOperation} \subseteq BOOLEAN
    /\ state \in {"Empty", "StartSaving", "InProgress", "Finished"} /\ saves \in 0..MaxSaves
    /\ image \in [toHost : Seq([slot : 0..(Slots - 1), size : 1..FlushInterval]),
                  largeW : Nat, largeR : Nat, buffer : [0..(BufferSize - 1) -> Int]]
    /\ decoded \in Nat

(* The host decodes the units the guest sent, each once, in order and      *)
(* intact, whichever way each travelled: although slots, large transfers   *)
(* and replies share one buffer, and slots are used again and again.       *)
StreamInOrder == \A k \in 1..Len(received) : received[k] = k

(* The guest reads the replies of the host, in order and intact.           *)
RepliesInOrder == \A k \in 1..Len(got) : got[k] = -k

(* Units in to_host_large_xfer that type3Read has not claimed yet. *)
LargeUnclaimed == largeW - largeR - (IF hpc = "type3copy" THEN todo ELSE 0)

(* What the guest has announced and not yet written. *)
LargeUnwritten ==
    IF gop.kind # "commit" /\ gpc \in {"mode3", "write", "check"} THEN gop.size - gsent ELSE 0

(* The host always finds the transfer as announced.  No descriptor is in   *)
(* the ring in transfer mode 3 (RingStream.cpp:167: "Guest should never    *)
(* set to transfer mode 3 with ringAvailable != 0"): the host would spin   *)
(* on it.  transfer_size is what the host has still to take, however its   *)
(* subtractions fall between the steps of the guest: never into the next   *)
(* transfer's announcement, the race type3Read's comment is about          *)
(* (RingStream.cpp:322); and the host always finds something to take.      *)
TransferConsistent ==
    /\ transfer_mode = 3 => toHost = <<>>
    /\ transfer_size = LargeUnclaimed + LargeUnwritten
    /\ hpc = "type3sub" => todo > 0

(* The guest is on its way to looking at host_state. *)
WillPing ==
    \/ gpc = "after"
    \/ gpc \in {"write", "check"} /\ (~pinged \/ gsent = gop.size)
    \/ gpc \in DOMAIN AfterType3 /\ largeW # largeR

(* No wakeup is lost: while the host sleeps with no message to wake it,    *)
(* there is nothing for it to read, or the guest is still about to ping.   *)
NoLostWakeup ==
    hpc = "receive" /\ messages = <<>> /\ alive /\ (toHost # <<>> \/ largeW # largeR) => WillPing

(* Every operation of the guest ends: no order of the waits of the two     *)
(* sides, of sleeping and of pinging leaves it waiting for good.           *)
GuestReturns == gpc \notin {"idle", "closed"} ~> gpc \in {"idle", "closed"} \/ ~alive

(* What is in the rings reaches the host, also after the last operation of *)
(* the guest.                                                              *)
AllConsumed == (toHost # <<>> \/ largeW # largeR) ~> (toHost = <<>> /\ largeW = largeR) \/ ~alive

(* A thread that is loaded finds the unit in one of the rings. *)
InImage(u) ==
    \/ \E r \in image.largeR..(image.largeW - 1) : image.buffer[r % BufferSize] = u
    \/ \E k \in 1..Len(image.toHost) : \E j \in 0..(image.toHost[k].size - 1) :
          image.buffer[image.toHost[k].slot * FlushInterval + j] = u

(* A snapshot holds every unit the guest has sent, although its parts are  *)
(* of three moments: the thread goes on after globalStateSave has written  *)
(* the rings, and after it has written the buffers.  What the thread in    *)
(* mStream has not decoded is in the image of the rings, and where the     *)
(* image of the buffer has it, not overwritten by a reply.                 *)
SnapshotHoldsAll ==
    ctl \in {"postSave", "resume"} /\ hpc # "exited" =>
        \A u \in (decoded + 1)..(sent + gsent) : InImage(u)

(* The host cannot get on by itself: the guest has announced more of a     *)
(* large transfer than it has written, or must make room for a reply.      *)
HostNeedsGuest ==
    \/ transfer_size > LargeUnclaimed
    \/ callEnd # 0 /\ ReplySize > BufferSize - 1

(* A snapshot that stops the VM while the host does not need the guest is  *)
(* taken, and the VM runs again: pausePreSnapshot, the messages and the    *)
(* two waits of the device thread fit together.                            *)
SaveCompletes == (ctl = "pause" /\ ~HostNeedsGuest) ~> ctl = "run"

(* The same of every snapshot: "Make sure it never happens that we wait    *)
(* forever for the thread to save to snapshot" (RenderThread.cpp:253).     *)
SaveAlwaysCompletes == ctl = "save" ~> ctl = "postSave"

(* Once the context is being destroyed, the render thread ends and so does *)
(* addressSpaceGraphicsConsumerDestroy, unless the guest was killed while  *)
(* the host needed it.                                                     *)
ConsumerExits == (ctl = "exit" /\ ~HostNeedsGuest) ~> ctl = "destroyed"

(* commitBuffer stops waiting for room when the guest is gone: "Check if   *)
(* the guest process crashed." (RingStream.cpp:66).                        *)
CrashUnblocksCommit == (ctl = "destroy" /\ owed > 0) ~> owed = 0
-----------------------------------------------------------------------------
(***************************************************************************)
(* The inductive invariant behind the safety properties, in parts.         *)
(***************************************************************************)
Reading == {"read3", "read1", "read"}
Resting == {"idle", "close3", "close1", "closed"} \cup Reading

(* Where the guest is fits what it does, and how much of it is sent. *)
GuestInv ==
    /\ gop = NoOp => gpc \in Resting
    /\ gop # NoOp => gop \in Ops
    /\ gop # NoOp /\ gop.kind = "commit" =>
          /\ gpc \in {"alloc3", "fill", "commit3", "room", "write", "check", "after"}
          /\ gop.size =< FlushInterval /\ gsent \in {0, gop.size}
    /\ gop.kind # "commit" =>
          gpc \in {"write3", "write1", "size", "mode3", "write", "check", "after", "end3", "mode"}
    /\ gpc \notin {"write", "check", "after", "end3", "mode"} => gsent = 0 /\ ~pinged
    /\ gpc = "write" => gsent < gop.size
    /\ gpc = "check" /\ gop.kind # "commit" => gsent > 0
    /\ gpc \in {"after", "end3", "mode"} => gsent = gop.size

(* A call is under way from its first unit to the end of its reply. *)
CallInv ==
    /\ callEnd = IF gpc \in Reading \/ gop.call THEN sent + gop.size ELSE 0
    /\ gpc \in Reading => sent > 0

(* The rings are not overfull, and only one of the two to the host holds   *)
(* anything.                                                               *)
RingsInv ==
    /\ largeR =< largeW /\ largeW - largeR < BufferSize
    /\ fromR =< fromW /\ fromW - fromR < BufferSize
    /\ Len(toHost) < Slots
    /\ toHost # <<>> => largeW = largeR

(* Where the guest has waited for a ring, it is empty or has room. *)
WaitedInv ==
    /\ \/ gpc \in {"fill", "commit3", "room", "write1", "size", "mode3", "read1", "read",
                   "close1", "closed"}
       \/ gpc \in {"write", "check", "after"} /\ gop.kind = "commit"
       \/ gpc = "write" /\ gsent = 0
       => largeW = largeR
    /\ \/ gpc \in {"size", "mode3", "end3", "mode", "read", "closed"}
       \/ gpc \in {"write", "check", "after"} /\ gop.kind # "commit"
       => toHost = <<>>
    /\ gpc \in {"write", "check"} /\ gop.kind = "commit" /\ gsent = 0 => Len(toHost) < Slots - 1

(* What readRaw holds at each point. *)
HostInv ==
    /\ hpc # "render" => wanted > 0 /\ owed = 0
    /\ hpc \notin {"top", "advance", "type3copy"} => dst = <<>>
    /\ hpc \notin {"render", "top", "advance"} => readBuffer = <<>>
    /\ hpc \in {"type1", "advance"} => toHost # <<>>
    /\ hpc \in {"type3", "type3sub", "type3copy"} => todo > 0 /\ todo =< largeW - largeR

TransferInv ==
    /\ transfer_mode = 3 <=> gop.kind # "commit" /\ gpc \in {"write", "check", "after", "end3", "mode"}
    /\ transfer_size = LargeUnclaimed + LargeUnwritten

(* EXIT is stored and sent only when there is no guest any more. *)
ExitInv ==
    /\ exiting <=> ctl \in {"setExit", "exit", "destroy", "destroyed"}
    /\ exiting => gpc = "closed" \/ ~alive
    /\ host_state = "EXIT" => exiting
    /\ \A i \in 1..Len(messages) : messages[i] = "Exit" => exiting

(* The slots in use are the ones before the next, in order. *)
NextSlot == IF gop.kind = "commit" /\ gsent > 0 THEN writeStart + 1 ELSE writeStart

SlotsInv ==
    \A k \in 1..Len(toHost) : toHost[k].slot = (NextSlot - Len(toHost) + k - 1) % Slots

(* What the host has is the beginning of the stream. *)
DecodedInv ==
    /\ \A k \in 1..Len(received) : received[k] = k
    /\ \A k \in 1..Len(dst) : dst[k] = Len(received) + k
    /\ \A k \in 1..Len(readBuffer) : readBuffer[k] = Len(received) + Len(dst) + k

Copied == Len(received) + Len(dst) + Len(readBuffer)

(* The first descriptor whose command the host has not copied yet, and the *)
(* first unit of a command.                                                *)
First == IF hpc = "advance" THEN 2 ELSE 1
Start(k) == buffer[toHost[k].slot * FlushInterval]

(* The commands in their slots are the rest of it, ... *)
SmallInv ==
    /\ \A k \in First..Len(toHost) : \A j \in 0..(toHost[k].size - 1) :
          buffer[toHost[k].slot * FlushInterval + j] = Start(k) + j
    /\ First =< Len(toHost) =>
          /\ Start(First) = Copied + 1
          /\ Start(Len(toHost)) + toHost[Len(toHost)].size = sent + gsent + 1
    /\ \A k \in (First + 1)..Len(toHost) : Start(k) = Start(k - 1) + toHost[k - 1].size
    /\ \A k, l \in First..Len(toHost) : k < l => Start(k) + toHost[k].size =< Start(l)

(* ... or what is in the ring for large transfers is. *)
LargeInv ==
    /\ First > Len(toHost) => Copied + (largeW - largeR) = sent + gsent
    /\ \A j \in 0..(largeW - largeR - 1) : buffer[(largeR + j) % BufferSize] = Copied + j + 1

(* The command in its slot, not yet committed. *)
FilledInv ==
    gpc \in {"commit3", "room", "write", "check"} /\ gop.kind = "commit" /\ gsent = 0 =>
        \A j \in 0..(gop.size - 1) : buffer[writeStart * FlushInterval + j] = sent + j + 1

(* A reply is on its way only after all of its call has been received. *)
ReplyInv ==
    /\ Len(got) = fromR
    /\ \A k \in 1..Len(got) : got[k] = -k
    /\ \A j \in 0..(fromW - fromR - 1) : buffer[(fromR + j) % BufferSize] = -(fromR + j + 1)
    /\ owed > 0 \/ fromW # fromR =>
          /\ callEnd # 0 /\ gsent = gop.size /\ Len(received) = callEnd
          /\ toHost = <<>> /\ largeW = largeR
    /\ (fromW + owed) % ReplySize = 0 \/ gpc = "closed" \/ ~alive
    /\ owed = ReplySize => fromW = fromR

(* A host about to sleep finds out about what came after it had looked. *)
Idling == {"unavailable", "callback", "receive"}

(* The guest has pinged and will not do it again before the next chunk. *)
Quiet == alive /\ gop.kind # "commit" /\ gpc \in {"write", "check"} /\ gsent < gop.size

WakeInv ==
    /\ host_state = "RENDERING" => hpc = "render"
    /\ hpc = "render" => inLargeXfer
    /\ hpc \in Idling \cup {"pollLarge"} /\ toHost # <<>> /\ alive => messages # <<>> \/ WillPing
    /\ hpc \in Idling /\ largeW # largeR /\ alive =>
          \/ messages # <<>> \/ WillPing
          \/ hpc = "unavailable" /\ inLargeXfer /\ transfer_size # 0
    /\ Quiet /\ gsent > 0 /\ largeW = largeR =>
          /\ hpc \notin {"callback", "receive"}
          /\ hpc \in {"poll", "pollLarge", "unavailable"}
             \/ (hpc = "top" /\ dst = <<>> /\ readBuffer = <<>>) => inLargeXfer
    /\ Quiet /\ pinged => gsent > 0
    /\ Quiet /\ pinged /\ hpc \in Idling => messages # <<>> \/ (hpc = "unavailable" /\ inLargeXfer)

(* The VM is stopped and the thread at rest while a snapshot is complete. *)
SnapshotInv ==
    /\ vmRunning <=> ctl \notin {"pause", "rings", "buffers", "save", "postSave", "resume"}
    /\ vmRunning => state = "Empty"
    /\ state = "InProgress" <=> hpc = "saving"
    /\ state = "Finished" => hpc = "paused"
    /\ ctl \in {"postSave", "resume"} => SnapshotComplete

(* The state of the protocol at any moment, guest and host stopped between *)
(* any two of their accesses: which ring may hold anything, which slots    *)
(* are in use and by which commands, where in the one buffer each unit of  *)
(* the stream and of a reply lies that has not been read yet, what the     *)
(* host still has to take, and who will wake whom.  Every step of          *)
(* AddressSpaceStream, RingStream, RenderThread and the context keeps it.  *)
ProtocolInv ==
    /\ GuestInv /\ CallInv /\ RingsInv /\ WaitedInv /\ HostInv /\ TransferInv /\ ExitInv
    /\ SlotsInv /\ DecodedInv /\ SmallInv /\ LargeInv /\ FilledInv /\ ReplyInv /\ WakeInv
    /\ SnapshotInv
=============================================================================
