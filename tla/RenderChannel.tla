---------------------------- MODULE RenderChannel ----------------------------
(***************************************************************************)
(* The pipe transport of graphics commands: a guest that writes commands   *)
(* and reads replies through OpenglEsPipe, the two BufferQueues of a       *)
(* RenderChannelImpl, the render thread behind ChannelStream, and the      *)
(* snapshotter that pauses, saves and resumes them.                        *)
(*                                                                         *)
(* Data are numbered units: the k-th unit the guest sends is k, and so is  *)
(* the k-th unit of all replies.  Unit 1 is the word of flags that opens a *)
(* stream; PacketSize units make a command.  The last command of a write   *)
(* may ask for a reply, which the guest then reads to its end.             *)
(*                                                                         *)
(* A step is a critical section of mLock, the lock of the channel, or what *)
(* a thread does on its own between two of them.                           *)
(***************************************************************************)
EXTENDS BufferQueue, SequencesExt

CONSTANTS FromCapacity,   \* kGuestToHostQueueCapacity
          ToCapacity,     \* kHostToGuestQueueCapacity
          PacketSize,     \* units of a command
          ReplyBuffers,   \* writeToGuest calls of a reply
          ReplyUnits,     \* units of each of them
          RecvModes,      \* recvMode: "Android", "Fuchsia", "VirtioGpu"
          MaxUnits,       \* bound: units the guest sends
          SendSizes,      \* bound: units of one write
          RecvSizes,      \* bound: units the guest reads at a time
          MaxWanted,      \* bound: units the render thread has room for
          MaxSaves,       \* bound: snapshots
          MayStop         \* the host may stop the renderer

ASSUME RenderChannelAssumption ==
    /\ {FromCapacity, ToCapacity, PacketSize, ReplyBuffers, ReplyUnits} \subseteq Nat \ {0}
    /\ RecvModes \subseteq {"Android", "Fuchsia", "VirtioGpu"}
    /\ {MaxUnits, MaxWanted, MaxSaves} \subseteq Nat
    /\ SendSizes \cup RecvSizes \subseteq Nat \ {0}
    /\ MaxWanted >= PacketSize
    /\ MayStop \in BOOLEAN

VARIABLES
    recvMode,   \* fixed at the start; VirtioGpu is a virtio guest, the others
                \* have a goldfish pipe
    mFromGuest, mToGuest,          \* the two queues
    mState, mWantedEvents,
    mEventCallback,                \* FALSE: replaced by one that does nothing
    wake,       \* events on their way to the guest: PipeWaker and the device
    \* The guest and its side of the pipe.
    gpc,        \* where the guest is
    gop,        \* what it does: "write" or "read"
    gsize,      \* units of the write, or still wanted by onGuestRecv
    gask,       \* the write asks for a reply
    gany,       \* onGuestRecv has copied something: len > 0
    gleft,      \* units of the reply still to read
    gwait,      \* the events the guest waits for: the wake bits of the driver
    gclosed,    \* the guest has been told that the host closed the pipe
    mDataForReading,               \* its part that has not been read
    sent, asks, \* units sent, and the commands that ask for a reply
    gotten,     \* units of replies received
    \* The render thread.
    hpc,        \* where the thread is
    hwanted,    \* wanted of readRaw
    hgot,       \* what readRaw has copied so far
    mReadBuffer,                   \* its part that has not been read
    readBuf,    \* units read and not decoded
    started,    \* the flags have been read
    executed,   \* units decoded
    owed,       \* writeToGuest calls left for the current command
    replied,    \* units written to the guest
    \* RenderThread's snapshot state, the snapshotter and what it has saved.
    mSnapshot, mFinished, ctl, saves, image

chan   == <<mFromGuest, mToGuest, mState, mWantedEvents, mEventCallback, wake>>
guestRest  == <<gop, gsize, gask, gany, gleft, gwait, gclosed, mDataForReading,
                sent, asks, gotten>>
guest  == <<gpc, guestRest>>
threadRest == <<hwanted, hgot, mReadBuffer, readBuf, started, executed, owed, replied>>
thread == <<hpc, threadRest>>
snap   == <<mSnapshot, mFinished, ctl, saves, image>>
vars   == <<recvMode, chan, guest, thread, snap>>

Units(from, n) == [i \in 1 .. n |-> from + i]
Drop(s, n) == SubSeq(s, n + 1, Len(s))
ReplySize == ReplyBuffers * ReplyUnits

\* What updateStateLocked computes.
StateOf(from, to) ==
    (IF canPop(to) THEN {"CanRead"} ELSE {}) \cup
    (IF canPush(from) THEN {"CanWrite"} ELSE {}) \cup
    (IF to.mClosed THEN {"Stopped"} ELSE {})

NoImage == [from |-> <<>>, to |-> <<>>, readBuf |-> <<>>, executed |-> 0, saved |-> "no"]

Init ==
    /\ recvMode \in RecvModes
    /\ mFromGuest = NewQueue(FromCapacity)
    /\ mToGuest = NewQueue(ToCapacity)
    /\ mState = StateOf(mFromGuest, mToGuest)
    /\ mWantedEvents = {} /\ mEventCallback = TRUE /\ wake = {}
    /\ gpc = "idle" /\ gop = "write" /\ gsize = 0 /\ gask = FALSE /\ gany = FALSE
    /\ gleft = 0 /\ gwait = {} /\ gclosed = FALSE /\ mDataForReading = <<>>
    /\ sent = 0 /\ asks = {} /\ gotten = <<>>
    /\ hpc = "top" /\ hwanted = 0 /\ hgot = <<>> /\ mReadBuffer = <<>>
    /\ readBuf = <<>> /\ started = FALSE /\ executed = 0 /\ owed = 0 /\ replied = 0
    /\ mSnapshot = "Empty" /\ mFinished = FALSE /\ ctl = "run" /\ saves = 0
    /\ image = NoImage
-----------------------------------------------------------------------------
\* The callback is OpenglEsPipe's onChannelHostEvent.
notifyStateChange(st, wanted) ==
    LET available == st \cap (wanted \cup {"Stopped"}) IN
    /\ mWantedEvents' = IF available = {} THEN wanted ELSE wanted \ st
    /\ wake' = IF ~mEventCallback THEN wake
               ELSE IF "Stopped" \in available THEN wake \cup {"Closed"}
               ELSE wake \cup available

Update(from, to) ==
    /\ mFromGuest' = from /\ mToGuest' = to
    /\ mState' = StateOf(from, to)
    /\ UNCHANGED mEventCallback

\* The guest's own calls do not notify the guest.
UpdateQuietly(from, to) == Update(from, to) /\ UNCHANGED <<mWantedEvents, wake>>

UpdateAndNotify(from, to) ==
    Update(from, to) /\ notifyStateChange(StateOf(from, to), mWantedEvents)

\* Whom a signal of a condition variable finds waiting: the render thread in
\* popLocked or pushLocked, a virtio guest in waitUntilPopableLocked or
\* waitUntilPushableLocked.
WakeThread(signalled, at, to) == hpc' = IF signalled /\ hpc = at THEN to ELSE hpc
WakeGuest(signalled, op) == gpc' = IF signalled /\ gpc = "blocked" /\ gop = op THEN op ELSE gpc
-----------------------------------------------------------------------------
(***************************************************************************)
(* The guest.  Its VM does not run while it is saved.                      *)
(***************************************************************************)
Running == ctl \in {"run", "stopped"}

\* The guest has something to write, and a reply to wait for or not.
Send(n, ask) ==
    /\ Running /\ gpc = "idle"
    /\ sent + n <= MaxUnits
    /\ ask => sent + n > 1 /\ (sent + n - 1) % PacketSize = 0
    /\ gpc' = "write" /\ gop' = "write" /\ gsize' = n /\ gask' = ask
    /\ UNCHANGED <<recvMode, chan, gany, gleft, gwait, gclosed, mDataForReading, sent,
                   asks, gotten, thread, snap>>

\* PIPE_ERROR_AGAIN: the goldfish driver will ask to be woken up, the virtio
\* device waits in the channel.
TryAgain == gpc' = IF recvMode # "VirtioGpu" THEN "again" ELSE "block"

\* onGuestSend.
tryWrite ==
    /\ Running /\ gpc = "write"
    /\ LET result == tryPushResult(mFromGuest) IN
       \/ /\ result = "Ok"
          /\ UpdateQuietly(tryPushed(mFromGuest, Units(sent, gsize)), mToGuest)
          /\ sent' = sent + gsize
          /\ asks' = IF gask THEN asks \cup {(sent' - 1) \div PacketSize} ELSE asks
          /\ gleft' = IF gask THEN ReplySize ELSE 0
          /\ gpc' = IF gask THEN "read" ELSE "idle"
          /\ gsize' = 0 /\ gask' = FALSE
          /\ WakeThread(pushWakesPopper(mFromGuest), "popWait", "readRaw")
       \/ /\ result # "Ok"
          /\ UpdateQuietly(mFromGuest, mToGuest)
          /\ IF result = "Error" THEN gpc' = "error" ELSE TryAgain
          /\ UNCHANGED <<sent, asks, gleft, gsize, gask, hpc>>
    /\ UNCHANGED <<recvMode, gop, gany, gwait, gclosed, mDataForReading,
                   gotten, threadRest, snap>>

\* The guest reads n units of its reply, or fewer; a command for a pipe that was
\* closed from the host fails.
onGuestRecv(n) ==
    /\ Running /\ gpc = "read"
    /\ gpc' = IF gclosed THEN "error" ELSE "recv"
    /\ gop' = "read" /\ gsize' = Min({n, gleft}) /\ gany' = FALSE
    /\ UNCHANGED <<recvMode, chan, gask, gleft, gwait, gclosed, mDataForReading, sent,
                   asks, gotten, thread, snap>>

onGuestRecv_copy ==
    /\ gpc = "recv"
    /\ mDataForReading # <<>>
    /\ LET curSize == Min({gsize, Len(mDataForReading)}) IN
       /\ gotten' = gotten \o SubSeq(mDataForReading, 1, curSize)
       /\ mDataForReading' = Drop(mDataForReading, curSize)
       /\ gsize' = gsize - curSize
       /\ gleft' = gleft - curSize
    /\ gany' = (gsize' > 0)
    /\ gpc' = IF gsize' > 0 THEN "recv" ELSE IF gleft' > 0 THEN "read" ELSE "idle"
    /\ UNCHANGED <<recvMode, chan, gop, gask, gwait, gclosed, sent, asks, thread,
                   snap>>

\* tryRead, or readBefore: a guest that blocks in there for a while is one that
\* takes this step late.
onGuestRecv_tryRead ==
    /\ gpc = "recv"
    /\ mDataForReading = <<>>
    /\ LET result == tryPopResult(mToGuest) IN
       \/ /\ recvMode # "Android" /\ gany
          /\ gpc' = "read"
          /\ UNCHANGED <<chan, mDataForReading, hpc>>
       \/ /\ recvMode = "Android" \/ ~gany
          /\ result = "Ok"
          /\ mDataForReading' = Oldest(mToGuest)
          /\ UpdateQuietly(mFromGuest, tryPopped(mToGuest))
          /\ WakeThread(popWakesPusher(mToGuest), "pushWait", "push")
          /\ UNCHANGED gpc
       \/ /\ recvMode = "Android" \/ ~gany
          /\ result # "Ok"
          /\ UpdateQuietly(mFromGuest, mToGuest)
          /\ IF gany THEN gpc' = "read"
             ELSE IF result = "Error" THEN gpc' = "error" ELSE TryAgain
          /\ UNCHANGED <<mDataForReading, hpc>>
    /\ UNCHANGED <<recvMode, gop, gsize, gask, gany, gleft, gwait, gclosed, sent,
                   asks, gotten, threadRest, snap>>

Event == IF gop = "read" THEN "CanRead" ELSE "CanWrite"

\* The driver sets its wake bit before it asks the device.
SetWakeBit ==
    /\ Running /\ gpc = "again"
    /\ gwait' = {Event}
    /\ gpc' = "want"
    /\ UNCHANGED <<recvMode, chan, gop, gsize, gask, gany, gleft, gclosed,
                   mDataForReading, sent, asks, gotten, thread, snap>>

\* Signal what is already there.  For a closed pipe the device returns an error,
\* which the driver does not look at.
onGuestWantWakeOn ==
    /\ Running /\ gpc = "want"
    /\ \/ gclosed /\ gpc' = "sleep" /\ UNCHANGED wake
       \/ ~gclosed /\ Event \in mState /\ gpc' = "sleep" /\ wake' = wake \cup {Event}
       \/ ~gclosed /\ Event \notin mState /\ gpc' = "wanted" /\ UNCHANGED wake
    /\ UNCHANGED <<recvMode, mFromGuest, mToGuest, mState, mWantedEvents,
                   mEventCallback, guestRest, thread, snap>>

\* Mutant: the events that are there already are not looked at again.
setWantedEvents_noNotify ==
    /\ gpc = "wanted" /\ gpc' = "sleep"
    /\ mWantedEvents' = mWantedEvents \cup {Event}
    /\ UNCHANGED <<recvMode, mFromGuest, mToGuest, mState, mEventCallback, wake,
                   guestRest, thread, snap>>

setWantedEvents ==
    /\ gpc = "wanted"
    /\ gpc' = "sleep"
    /\ notifyStateChange(mState, mWantedEvents \cup {Event})
    /\ UNCHANGED <<recvMode, mFromGuest, mToGuest, mState, mEventCallback, guestRest,
                   thread, snap>>

\* The device is in the middle of a command of the guest.
InDevice == gpc \in {"recv", "wanted", "block", "blocked"}

\* PipeWaker runs on the device's thread and the interrupt reaches the driver, where
\* a close clears both wake bits.
Deliver ==
    /\ Running /\ ~InDevice
    /\ wake # {}
    /\ wake' = {}
    /\ gwait' = IF "Closed" \in wake THEN {} ELSE gwait \ wake
    /\ gclosed' = (gclosed \/ "Closed" \in wake)
    /\ UNCHANGED <<recvMode, mFromGuest, mToGuest, mState, mWantedEvents,
                   mEventCallback, gpc, gop, gsize, gask, gany, gleft,
                   mDataForReading, sent, asks, gotten, thread, snap>>

\* The loop of wait_for_host_signal ends when the wake bit is clear, and only then
\* looks whether the pipe is closed.
WakeUp ==
    /\ Running /\ gpc = "sleep"
    /\ gwait = {}
    /\ gpc' = IF gclosed THEN "error" ELSE gop
    /\ UNCHANGED <<recvMode, chan, guestRest, thread, snap>>

\* waitGuestRecv and waitGuestSend of a virtio guest: one wait, no loop.
waitUntilReady ==
    /\ gpc = "block"
    /\ gpc' = IF (gop = "read" /\ canPop(mToGuest)) \/ (gop = "write" /\ canPush(mFromGuest))
              THEN gop ELSE "blocked"
    /\ UNCHANGED <<recvMode, chan, guestRest, thread, snap>>
-----------------------------------------------------------------------------
(***************************************************************************)
(* The end of a channel.                                                   *)
(***************************************************************************)
\* closeLocked of both queues: only who waits for what cannot come is woken.
CloseQueues ==
    /\ mFromGuest' = closed(mFromGuest) /\ mToGuest' = closed(mToGuest)
    /\ hpc' = IF hpc = "popWait" /\ wakeAllWakesPopper(mFromGuest) THEN "readRaw"
              ELSE IF hpc = "pushWait" /\ wakeAllWakesPusher(mToGuest) THEN "push"
              ELSE hpc
    /\ mEventCallback' = FALSE

\* onGuestClose, of a guest that is done, fails or is killed while it waits.
stop ==
    /\ Running /\ gpc \in {"idle", "error", "sleep"}
    /\ gpc' = "closed"
    /\ CloseQueues
    /\ wake' = {}
    /\ UNCHANGED <<recvMode, mState, mWantedEvents, guestRest, threadRest, snap>>

\* Mutant: the guest is not told.
stopFromHost_silent ==
    /\ MayStop /\ ctl = "run"
    /\ ctl' = "stopped"
    /\ CloseQueues
    /\ mState' = mState \cup {"Stopped"}
    /\ gpc' = IF gpc = "blocked" /\ (IF gop = "read" THEN wakeAllWakesPopper(mToGuest)
                                     ELSE wakeAllWakesPusher(mFromGuest))
              THEN gop ELSE gpc
    /\ UNCHANGED <<recvMode, mWantedEvents, wake, guestRest, threadRest, mSnapshot, mFinished, saves,
                   image>>

\* RendererImpl::stop, once.  It is not called while a snapshot is taken, and no
\* snapshot is taken after it.
stopFromHost ==
    /\ MayStop /\ ctl = "run"
    /\ ctl' = "stopped"
    /\ CloseQueues
    /\ mState' = mState \cup {"Stopped"}
    /\ notifyStateChange(mState', mWantedEvents)
    /\ gpc' = IF gpc = "blocked" /\ (IF gop = "read" THEN wakeAllWakesPopper(mToGuest)
                                     ELSE wakeAllWakesPusher(mFromGuest))
              THEN gop ELSE gpc
    /\ UNCHANGED <<recvMode, guestRest, threadRest, mSnapshot, mFinished, saves,
                   image>>
-----------------------------------------------------------------------------
(***************************************************************************)
(* The render thread.                                                      *)
(***************************************************************************)
\* main: the flags first, then commands; getData wants at least the rest of a
\* command and takes whatever more there is room for.
getData(wanted) ==
    /\ hpc = "top"
    /\ IF started THEN /\ Len(readBuf) < PacketSize
                       /\ wanted \in PacketSize - Len(readBuf) .. MaxWanted
                  ELSE wanted = 1
    /\ hwanted' = wanted
    /\ hgot' = <<>>
    /\ hpc' = "readRaw"
    /\ UNCHANGED <<recvMode, chan, guest, mReadBuffer, readBuf, started, executed, owed,
                   replied, snap>>

\* Mutant: the rest of the buffer is forgotten.
readRaw_copy_once ==
    /\ hpc = "readRaw"
    /\ Len(hgot) < hwanted /\ mReadBuffer # <<>>
    /\ LET avail == Min({hwanted - Len(hgot), Len(mReadBuffer)}) IN
       hgot' = hgot \o SubSeq(mReadBuffer, 1, avail)
    /\ mReadBuffer' = <<>>
    /\ UNCHANGED <<recvMode, chan, guest, hpc, hwanted, readBuf, started, executed,
                   owed, replied, snap>>

readRaw_copy ==
    /\ hpc = "readRaw"
    /\ Len(hgot) < hwanted /\ mReadBuffer # <<>>
    /\ LET avail == Min({hwanted - Len(hgot), Len(mReadBuffer)}) IN
       /\ hgot' = hgot \o SubSeq(mReadBuffer, 1, avail)
       /\ mReadBuffer' = Drop(mReadBuffer, avail)
    /\ UNCHANGED <<recvMode, chan, guest, hpc, hwanted, readBuf, started, executed, owed,
                   replied, snap>>

\* readRaw has got something to return.
readRaw_return ==
    /\ hpc' = "top"
    /\ hgot' = <<>> /\ hwanted' = 0
    /\ IF started THEN readBuf' = readBuf \o hgot /\ UNCHANGED <<started, executed>>
                  ELSE started' = TRUE /\ executed' = 1 /\ UNCHANGED readBuf

readRaw_full ==
    /\ hpc = "readRaw" /\ Len(hgot) = hwanted
    /\ readRaw_return
    /\ UNCHANGED <<recvMode, chan, guest, mReadBuffer, owed, replied, snap>>

blocking == hgot = <<>>

readFromGuest ==
    /\ hpc = "readRaw" /\ Len(hgot) < hwanted /\ mReadBuffer = <<>>
    /\ LET result == tryPopResult(mFromGuest) IN
       \/ /\ blocking /\ popBlocked(mFromGuest)
          /\ hpc' = "popWait"
          /\ UNCHANGED <<chan, gpc, hgot, hwanted, mReadBuffer, readBuf, started, executed>>
       \/ /\ result = "Ok"
          /\ mReadBuffer' = Oldest(mFromGuest)
          /\ UpdateAndNotify(tryPopped(mFromGuest), mToGuest)
          /\ WakeGuest(popWakesPusher(mFromGuest), "write")
          /\ UNCHANGED <<hpc, hgot, hwanted, readBuf, started, executed>>
       \/ /\ result # "Ok" /\ ~(blocking /\ popBlocked(mFromGuest))
          /\ UpdateAndNotify(mFromGuest, mToGuest)
          /\ IF hgot # <<>>
             THEN readRaw_return
             ELSE hpc' = "ended" /\ UNCHANGED <<hgot, hwanted, readBuf, started,
                                                 executed>>
          /\ UNCHANGED <<gpc, mReadBuffer>>
    /\ UNCHANGED <<recvMode, guestRest, owed, replied, snap>>

\* A complete command is decoded; one that asks for a reply gets it at once.
decode ==
    /\ hpc = "top" /\ started /\ Len(readBuf) >= PacketSize
    /\ readBuf' = Drop(readBuf, PacketSize)
    /\ executed' = executed + PacketSize
    /\ LET reply == (executed' - 1) \div PacketSize \in asks IN
       /\ owed' = IF reply THEN ReplyBuffers ELSE 0
       /\ hpc' = IF reply THEN "push" ELSE "top"
    /\ UNCHANGED <<recvMode, chan, guest, hwanted, hgot, mReadBuffer, started, replied, snap>>

\* commitBuffer does not look at the result.
writeToGuest ==
    /\ hpc = "push"
    /\ \/ /\ pushBlocked(mToGuest)
          /\ hpc' = "pushWait"
          /\ UNCHANGED <<chan, gpc, owed, replied>>
       \/ /\ ~pushBlocked(mToGuest)
          /\ IF tryPushResult(mToGuest) = "Ok"
             THEN /\ UpdateAndNotify(mFromGuest,
                                     tryPushed(mToGuest, Units(replied, ReplyUnits)))
                  /\ replied' = replied + ReplyUnits
                  /\ WakeGuest(pushWakesPopper(mToGuest), "read")
             ELSE UpdateAndNotify(mFromGuest, mToGuest) /\ UNCHANGED <<gpc, replied>>
          /\ owed' = owed - 1
          /\ hpc' = IF owed' = 0 THEN "top" ELSE "push"
    /\ UNCHANGED <<recvMode, guestRest, hwanted, hgot, mReadBuffer, readBuf, started,
                   executed, snap>>

\* The stream has ended: for a snapshot, or for good.
doSnapshotOperation ==
    /\ hpc = "ended"
    /\ IF mSnapshot = "StartSaving"
       THEN mSnapshot' = "InProgress" /\ hpc' = "saving"
       ELSE hpc' = "exiting" /\ UNCHANGED mSnapshot
    /\ UNCHANGED <<recvMode, chan, guest, threadRest, mFinished, ctl, saves, image>>

\* Mutant: what was read and not decoded is left out.
savedReadBuf_none == <<>>

\* ReadBuffer::onSave and ChannelStream::onSave.
savedReadBuf == readBuf \o mReadBuffer

\* saveImpl, and then parked until somebody resumes.
snapshotOperation ==
    /\ \/ /\ hpc = "saving"
          /\ mSnapshot' = "Finished"
          /\ image' = [image EXCEPT !.readBuf = savedReadBuf, !.executed = executed]
          /\ hpc' = "parked"
       \/ /\ hpc = "parked" /\ mSnapshot = "Empty"
          /\ hpc' = "top"
          /\ UNCHANGED <<mSnapshot, image>>
    /\ UNCHANGED <<recvMode, chan, guest, threadRest, mFinished, ctl, saves>>

setFinished ==
    /\ hpc = "exiting"
    /\ hpc' = "finished"
    /\ mFinished' = TRUE
    /\ UNCHANGED <<recvMode, chan, guest, threadRest, mSnapshot, ctl, saves, image>>
-----------------------------------------------------------------------------
(***************************************************************************)
(* The snapshotter: preSave, onSave and postSave of the pipe service.      *)
(***************************************************************************)
\* The threads that wait in the channel are woken; RenderThread's own lock is
\* held over both parts, so that the thread cannot see one without the other.
pausePreSnapshot ==
    /\ ctl = "run" /\ saves < MaxSaves
    /\ recvMode # "VirtioGpu" /\ ~InDevice
    /\ ctl' = "paused" /\ saves' = saves + 1
    /\ mSnapshot' = "StartSaving"
    /\ mFromGuest' = setSnapshotMode(mFromGuest, TRUE)
    /\ mToGuest' = setSnapshotMode(mToGuest, TRUE)
    /\ hpc' = IF hpc = "popWait" /\ snapshotWakes(mFromGuest) /\ wakeAllWakesPopper(mFromGuest)
              THEN "readRaw"
              ELSE IF hpc = "pushWait" /\ snapshotWakes(mToGuest) /\ wakeAllWakesPusher(mToGuest)
              THEN "push" ELSE hpc
    /\ UNCHANGED <<recvMode, mState, mWantedEvents, mEventCallback, wake, guest, threadRest,
                   mFinished, image>>

onSave ==
    /\ ctl = "paused" /\ gpc # "closed"
    /\ ctl' = "save"
    /\ image' = [image EXCEPT
                   !.from = IF mFromGuest.mClosed THEN <<>> ELSE Contents(mFromGuest),
                   !.to = IF mToGuest.mClosed THEN <<>> ELSE Contents(mToGuest)]
    /\ UNCHANGED <<recvMode, chan, guest, thread, mSnapshot, mFinished, saves>>

\* The condition that ends waitForSnapshotCompletion.
SnapshotComplete == mSnapshot = "Finished" \/ mFinished

save ==
    /\ ctl = "save" /\ SnapshotComplete
    /\ ctl' = "saved"
    /\ image' = [image EXCEPT !.saved = IF mSnapshot = "Finished" THEN "thread" ELSE "none"]
    /\ UNCHANGED <<recvMode, chan, guest, thread, mSnapshot, mFinished, saves>>

\* The channel of a pipe that is gone is paused and resumed, but not saved.
resume ==
    /\ ctl = "saved" \/ (ctl = "paused" /\ gpc = "closed")
    /\ SnapshotComplete
    /\ ctl' = "run"
    /\ mSnapshot' = "Empty"
    /\ mFromGuest' = setSnapshotMode(mFromGuest, FALSE)
    /\ mToGuest' = setSnapshotMode(mToGuest, FALSE)
    /\ image' = NoImage
    /\ UNCHANGED <<recvMode, mState, mWantedEvents, mEventCallback, wake, guest, thread,
                   mFinished, saves>>
-----------------------------------------------------------------------------
GuestStep ==
    \/ tryWrite \/ onGuestRecv_copy \/ onGuestRecv_tryRead
    \/ \E n \in RecvSizes : onGuestRecv(n)
    \/ SetWakeBit \/ onGuestWantWakeOn \/ setWantedEvents \/ WakeUp \/ waitUntilReady

ThreadStep ==
    \/ \E n \in 1 .. MaxWanted : getData(n)
    \/ readRaw_copy \/ readRaw_full \/ readFromGuest
    \/ decode \/ writeToGuest
    \/ doSnapshotOperation \/ snapshotOperation \/ setFinished

SaveStep == onSave \/ save \/ resume

Next ==
    \/ \E n \in SendSizes, ask \in BOOLEAN : Send(n, ask)
    \/ GuestStep \/ Deliver \/ stop
    \/ ThreadStep
    \/ stopFromHost
    \/ pausePreSnapshot \/ SaveStep

Safety == Init /\ [][Next]_vars

(***************************************************************************)
(* The guest goes on with what it has begun, the threads of the host run.  *)
(* Nobody has to begin a write, to close, to stop or to take a snapshot.   *)
(***************************************************************************)
Fairness ==
    /\ WF_vars(GuestStep) /\ WF_vars(Deliver)
    /\ WF_vars(ThreadStep) /\ WF_vars(SaveStep)

Spec == Safety /\ Fairness
-----------------------------------------------------------------------------
Flags == {"CanRead", "CanWrite", "Stopped"}

ChanOK ==
    /\ QueueOK(mFromGuest) /\ QueueOK(mToGuest)
    /\ mState \subseteq Flags /\ mWantedEvents \subseteq Flags \ {"Stopped"}
    /\ mEventCallback \in BOOLEAN /\ wake \subseteq {"CanRead", "CanWrite", "Closed"}

GuestOK ==
    /\ gpc \in {"idle", "write", "read", "recv", "again", "want", "wanted", "sleep",
                "block", "blocked", "error", "closed"}
    /\ gop \in {"write", "read"} /\ gask \in BOOLEAN /\ gany \in BOOLEAN /\ gclosed \in BOOLEAN
    /\ gsize \in Nat /\ gleft \in 0 .. ReplySize /\ gwait \subseteq {"CanRead", "CanWrite"}
    /\ sent \in 0 .. MaxUnits /\ asks \subseteq 1 .. MaxUnits
    /\ mDataForReading \in Seq(Nat) /\ gotten \in Seq(Nat)

ThreadOK ==
    /\ hpc \in {"top", "readRaw", "popWait", "push", "pushWait", "ended", "saving",
                "parked", "exiting", "finished"}
    /\ hwanted \in 0 .. MaxWanted /\ hgot \in Seq(Nat)
    /\ mReadBuffer \in Seq(Nat) /\ readBuf \in Seq(Nat) /\ started \in BOOLEAN
    /\ executed \in Nat /\ owed \in 0 .. ReplyBuffers /\ replied \in Nat

SnapOK ==
    /\ mSnapshot \in {"Empty", "StartSaving", "InProgress", "Finished"}
    /\ mFinished \in BOOLEAN /\ ctl \in {"run", "stopped", "paused", "save", "saved"}
    /\ image \in [from : Seq(Seq(Nat)), to : Seq(Seq(Nat)), readBuf : Seq(Nat),
                 executed : Nat, saved : {"no", "thread", "none"}]

\* The positions and counts of the two queues stay within their rings, even when
\* one grows in snapshot mode, and every process is at a place of its own code.
TypeOK == ChanOK /\ GuestOK /\ ThreadOK /\ SnapOK

\* s is the units after the first n.
Following(s, n) == \A k \in 1 .. Len(s) : s[k] = n + k

\* The buffers, one after the other, are the units from n + 1 to m.
Consecutive(buffers, n, m) ==
    LET before(i) == IF i = 1 THEN n ELSE Last(buffers[i - 1])
    IN  /\ \A i \in 1 .. Len(buffers) : buffers[i] # <<>> /\ Following(buffers[i], before(i))
        /\ before(Len(buffers) + 1) = m

\* The units that the render thread has taken from the queue.
Taken == executed + Len(readBuf) + Len(hgot) + Len(mReadBuffer)

(***************************************************************************)
(* No unit of the guest is lost, repeated or reordered on its way through  *)
(* the queue (which wraps, and grows while it is paused), the rest of a    *)
(* buffer, an unfinished read and the rest of a command.                   *)
(***************************************************************************)
StreamExact ==
    /\ Following(readBuf, executed)
    /\ Following(hgot, executed + Len(readBuf))
    /\ Following(mReadBuffer, executed + Len(readBuf) + Len(hgot))
    /\ Consecutive(Contents(mFromGuest), Taken, sent)

\* The units of replies that the guest's end has taken from the queue.
Received == Len(gotten) + Len(mDataForReading)

\* The commands that ask for a reply and have been decoded.
Answered == {c \in asks : c * PacketSize + 1 <= executed}

(***************************************************************************)
(* The guest gets the replies unit by unit in order, and a command that    *)
(* has been decoded owes exactly its reply, unless the channel is closed.  *)
(***************************************************************************)
RepliesExact ==
    /\ Following(gotten, 0)
    /\ Following(mDataForReading, Len(gotten))
    /\ Consecutive(Contents(mToGuest), Received, replied)
    /\ ~mToGuest.mClosed => replied + owed * ReplyUnits = ReplySize * Cardinality(Answered)

(***************************************************************************)
(* No wakeup of the guest is lost: while it sleeps for an event that is    *)
(* there, or on a channel that the host has stopped, the event is on its   *)
(* way or was delivered.  notifyStateChangeLocked drops what is not        *)
(* wanted, the guest's own calls do not notify, and the check and the      *)
(* registration in onGuestWantWakeOn are two critical sections.  A guest    *)
(* that was told of the close before it set its wake bit (CloseOvertook)   *)
(* is left out.                                                            *)
(***************************************************************************)
GuestNotForgotten ==
    (gpc = "sleep" /\ gwait # {} /\ ~gclosed) =>
        /\ "CanRead" \in gwait /\ canPop(mToGuest) => wake # {}
        /\ "CanWrite" \in gwait /\ canPush(mFromGuest) => wake # {}
        /\ ctl = "stopped" => wake # {}

(***************************************************************************)
(* A thread that waits on a condition variable of the channel waits for    *)
(* something that is not there: signals are given only at the edges (the   *)
(* first buffer, the first free slot) and wakeAllWaiters picks by count.   *)
(***************************************************************************)
WaitsForReason ==
    /\ hpc = "popWait" => popBlocked(mFromGuest)
    /\ hpc = "pushWait" => pushBlocked(mToGuest)
    /\ gpc = "blocked" => IF gop = "read" THEN ~canPop(mToGuest) ELSE ~canPush(mFromGuest)

\* The units that the saved thread has decoded or holds.
ThreadUnits == image.executed + Len(image.readBuf)

Holds(buffers, k) == \E i \in DOMAIN buffers : \E j \in DOMAIN buffers[i] : buffers[i][j] = k

(***************************************************************************)
(* A complete image of a channel holds every unit that the guest had sent: *)
(* in the saved queue or in the saved thread ("we won't miss some          *)
(* important rendering call", RenderChannelImpl.h:99).                     *)
(***************************************************************************)
NoCommandMissed ==
    (ctl = "saved" /\ image.saved = "thread" /\ ~mFromGuest.mClosed) =>
        \A k \in 1 .. sent : k <= ThreadUnits \/ Holds(image.from, k)

(***************************************************************************)
(* An image is one moment of the channel: a unit that the saved thread has *)
(* decoded or holds is not in the saved queue as well, and the replies to  *)
(* what it has decoded are there ("we can make sure all data at the        *)
(* snapshot time is here and is saved", RenderChannelImpl.h:98).           *)
(***************************************************************************)
SnapshotExact ==
    (ctl = "saved" /\ image.saved = "thread" /\ ~mFromGuest.mClosed) =>
        /\ Consecutive(image.from, ThreadUnits, sent)
        /\ Consecutive(image.to, Received, replied)

\* A second snapshot was begun before the thread of the first had the lock again:
\* snapshotOperation waits for "Empty", which it did not see, and
\* waitForSnapshotCompletion for "Finished", which it will not store again;
\* the snapshotter hangs, and the VM with it.
StillParked == hpc = "parked" /\ mSnapshot = "StartSaving"

\* The close was delivered before the guest set its wake bit: WAKE_ON failed, and
\* nothing clears the bit any more.
CloseOvertook == gpc = "sleep" /\ gclosed /\ Event \in gwait

\* A virtio guest whose channel was stopped between its failed try and its wait,
\* which does not look at mClosed.
StopOvertook == gpc = "blocked" /\ ctl = "stopped"

(***************************************************************************)
(* What the guest has begun ends, in all orders of its calls, the render   *)
(* thread, the wakes, a snapshot and a close, but for the two in which the *)
(* close comes after the guest's failed try and before its wait, and for a *)
(* snapshot that hangs.                                                    *)
(***************************************************************************)
GuestReturns ==
    (gpc \notin {"idle", "error", "closed"})
        ~> (gpc \in {"idle", "error", "closed"} \/ CloseOvertook \/ StopOvertook \/ StillParked)

(***************************************************************************)
(* A snapshot ends, wherever the render thread is: waiting for a command   *)
(* or for room, decoding, replying, exiting; in all places but StillParked.*)
(***************************************************************************)
SaveCompletes == (ctl \in {"paused", "save", "saved"}) ~> (ctl = "run" \/ StillParked)

(***************************************************************************)
(* A closed channel ends its render thread, wherever it waits; all but one *)
(* that a second snapshot has left parked.                                 *)
(***************************************************************************)
ThreadExits == mFromGuest.mClosed ~> (mFinished \/ StillParked)
-----------------------------------------------------------------------------
(***************************************************************************)
(* The inductive invariant behind the safety properties, in parts.         *)
(***************************************************************************)
Waiting == {"again", "want", "wanted", "sleep", "block", "blocked"}

(* What the guest does fits where it is. *)
GuestInv ==
    /\ gpc = "write" => gop = "write"
    /\ gpc = "recv" => gop = "read" /\ gsize > 0 /\ gsize <= gleft
    /\ gpc = "read" \/ (gpc \in Waiting /\ gop = "read") => gleft > 0
    /\ gpc = "write" \/ (gpc \in Waiting /\ gop = "write") =>
          /\ gsize > 0 /\ sent + gsize <= MaxUnits
          /\ gask => sent + gsize > 1 /\ (sent + gsize - 1) % PacketSize = 0
    /\ gpc \in {"want", "wanted", "sleep"} => gwait \subseteq {Event}

(* What the render thread holds at each place. *)
ThreadInv ==
    /\ hpc \in {"push", "pushWait"} <=> owed > 0
    /\ hpc # "readRaw" => hgot = <<>>
    /\ hpc \in {"readRaw", "popWait"} =>
          hwanted > 0 /\ Len(hgot) <= hwanted /\ (~started => hwanted = 1)
    /\ started => executed > 0 /\ (executed - 1) % PacketSize = 0
    /\ ~started => executed = 0 /\ readBuf = <<>> /\ owed = 0

(* The queues are closed together, and their users told; until then mState *)
(* is up to date.                                                          *)
ClosedInv ==
    /\ mEventCallback <=> gpc # "closed" /\ ctl # "stopped"
    /\ mFromGuest.mClosed <=> ~mEventCallback
    /\ mToGuest.mClosed <=> ~mEventCallback
    /\ mEventCallback => mState = StateOf(mFromGuest, mToGuest)

(* A guest that sleeps is registered for what it waits for, or it is on    *)
(* its way; a stopped channel has been reported.                           *)
WakeInv ==
    /\ ctl = "stopped" /\ gpc # "closed" => gclosed \/ "Closed" \in wake
    /\ gpc = "sleep" /\ Event \in gwait =>
          \/ gclosed \/ wake \cap {Event, "Closed"} # {}
          \/ Event \in mWantedEvents \ mState

(* Every unit sent has been taken or is in the queue, which holds no other. *)
QueueInv ==
    /\ Taken <= sent
    /\ \A k \in 1 .. sent : k <= Taken \/ Holds(Contents(mFromGuest), k)
    /\ \A b \in 1 .. mFromGuest.mCount : Last(Contents(mFromGuest)[b]) <= sent

(* The requests for replies are of commands that have been sent. *)
AsksInv == \A c \in asks : c * PacketSize + 1 <= sent

(* Where thread and snapshotter are, and what an image holds so far. *)
SnapshotInv ==
    /\ mSnapshot = "Empty" <=> ctl \in {"run", "stopped"}
    /\ mSnapshot = "InProgress" <=> hpc = "saving"
    /\ mFinished => hpc = "finished"
    /\ mSnapshot = "Finished" => hpc = "parked" /\ ThreadUnits = Taken
    /\ image.saved = "thread" => mSnapshot = "Finished"
    /\ ctl \in {"save", "saved"} /\ ~mFromGuest.mClosed =>
          \A k \in 1 .. sent : k <= Taken \/ Holds(image.from, k)

(***************************************************************************)
(* The state of a channel between any two critical sections: what guest,   *)
(* render thread and snapshotter have taken and owe, whom the edges of the *)
(* queues have woken, and what has been saved.  Every step of OpenglEsPipe,*)
(* RenderChannelImpl, ChannelStream and RenderThread keeps it.             *)
(***************************************************************************)
ChannelInv ==
    /\ TypeOK /\ GuestInv /\ ThreadInv /\ ClosedInv /\ WakeInv /\ WaitsForReason
    /\ StreamExact /\ QueueInv /\ AsksInv /\ RepliesExact /\ SnapshotInv
=============================================================================
