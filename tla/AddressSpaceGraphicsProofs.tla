---------------------- MODULE AddressSpaceGraphicsProofs ----------------------
(***************************************************************************)
(* Proofs about AddressSpaceGraphics, for every size of the buffer, of its *)
(* slots and of the rings, every limit of the host, any number of commands *)
(* and of snapshots, with and without a crash of the guest.                *)
(***************************************************************************)
EXTENDS AddressSpaceGraphics, DivisionLemmas, WellFoundedInduction, TLAPS

-----------------------------------------------------------------------------
(* The sizes. *)

LEMMA SlotsProduct ==
    /\ BufferSize \in Nat \ {0} /\ FlushInterval \in Nat \ {0}
    /\ Slots \in Nat /\ Slots > 1 /\ FlushInterval * Slots = BufferSize
    /\ FlushInterval =< BufferSize
  <1>1. BufferSize \in Int /\ FlushInterval \in Nat \ {0} /\ BufferSize \in Nat
    BY SizesAssumption
  <1>2. Slots \in Int /\ BufferSize = FlushInterval * Slots + (BufferSize % FlushInterval)
    BY <1>1, DivMod DEF Slots
  <1>3. Slots > 1 /\ BufferSize % FlushInterval = 0
    BY SizesAssumption DEF Slots
  <1>4. FlushInterval * Slots = BufferSize
    BY <1>1, <1>2, <1>3
  <1>5. FlushInterval * Slots >= FlushInterval
    BY <1>1, <1>2, <1>3, MulAtLeast
  <1> QED BY <1>1, <1>2, <1>3, <1>4, <1>5

LEMMA SizeFacts ==
    /\ BufferSize \in Nat \ {0} /\ FlushInterval \in Nat \ {0} /\ FlushInterval =< BufferSize
    /\ Slots \in Nat /\ Slots > 1
  BY SlotsProduct

LEMMA HalfFacts ==
    /\ BufferSize \div 2 \in Nat /\ BufferSize \div 4 \in Nat
    /\ 1 =< BufferSize \div 4 /\ BufferSize \div 4 =< BufferSize - 1
    /\ 1 =< BufferSize \div 2 /\ BufferSize \div 2 =< BufferSize - 1
  <1>1. BufferSize \in Nat /\ BufferSize > 0 /\ BufferSize % 4 = 0
    BY SizeFacts, SizesAssumption
  <1> QED BY <1>1

LEMMA LimitFacts ==
    /\ RingEntries \in Nat \ {0} /\ Capacity \in Nat \ {0} /\ MaxSpins \in Nat \ {0}
    /\ MaxUnavailableReads \in Nat \ {0} /\ ReplySize \in Nat \ {0}
    /\ MaxUnits \in Nat /\ MaxSize \in Nat /\ MaxWanted \in Nat /\ MaxSaves \in Nat
  BY LimitsAssumption

LEMMA AtMostFact ==
    ASSUME NEW n \in Int, NEW k \in Int
    PROVE  /\ AtMost(n, k) \in {n, k} /\ AtMost(n, k) \in Int
           /\ AtMost(n, k) =< n /\ AtMost(n, k) =< k
  BY DEF AtMost

(* The bytes of a slot. *)
LEMMA SlotPosition ==
    ASSUME NEW s \in 0..(Slots - 1), NEW j \in 0..(FlushInterval - 1)
    PROVE  s * FlushInterval \in Nat /\ s * FlushInterval + j \in 0..(BufferSize - 1)
  <1>1. s \in Int /\ Slots \in Int /\ FlushInterval \in Int
    BY SlotsProduct
  <1>2. /\ s * FlushInterval = FlushInterval * s /\ FlushInterval * s \in Int
        /\ FlushInterval * (Slots - s) = FlushInterval * Slots - FlushInterval * s
    BY <1>1
  <1>3. FlushInterval * (Slots - s) >= FlushInterval
    BY <1>1, SlotsProduct, MulAtLeast
  <1>4. FlushInterval * s >= 0
    <2>1. CASE s = 0
      BY <2>1, <1>1
    <2>2. CASE s >= 1
      BY <2>2, <1>1, SlotsProduct, MulAtLeast
    <2> QED BY <2>1, <2>2
  <1> QED BY <1>1, <1>2, <1>3, <1>4, SlotsProduct

(* Where the bytes of slot s lie, seen from the beginning of slot w: what  *)
(* is put in one slot touches no other.                                    *)
LEMMA SlotOffset ==
    ASSUME NEW s \in 0..(Slots - 1), NEW w \in 0..(Slots - 1), NEW j \in 0..(FlushInterval - 1)
    PROVE  /\ s = w => (s * FlushInterval + j - w * FlushInterval) % BufferSize = j
           /\ s # w => (s * FlushInterval + j - w * FlushInterval) % BufferSize >= FlushInterval
  <1>1. /\ s \in Int /\ w \in Int /\ Slots \in Int /\ FlushInterval \in Nat \ {0}
        /\ BufferSize \in Nat \ {0} /\ FlushInterval * Slots = BufferSize
        /\ FlushInterval =< BufferSize /\ j \in Int /\ 0 =< j /\ j < FlushInterval
    BY SlotsProduct
  <1>2. PICK d \in Int : d = s - w /\ -Slots < d /\ d < Slots
    BY <1>1
  <1>3. /\ FlushInterval * d = s * FlushInterval - w * FlushInterval
        /\ FlushInterval * d \in Int /\ s * FlushInterval \in Int /\ w * FlushInterval \in Int
    BY <1>1, <1>2
  <1>4. PICK x \in Int : /\ x = s * FlushInterval + j - w * FlushInterval
                         /\ x = FlushInterval * d + j
    BY <1>1, <1>3
  <1>5. CASE d = 0
    <2>1. x = j
      BY <1>1, <1>4, <1>5
    <2> QED BY <1>1, <1>2, <1>4, <1>5, <2>1, ModSmall
  <1>6. CASE d >= 1
    <2>1. FlushInterval * d >= FlushInterval
      BY <1>1, <1>6, MulAtLeast
    <2>2. FlushInterval * (Slots - d) >= FlushInterval
      BY <1>1, <1>2, MulAtLeast
    <2>3. FlushInterval * (Slots - d) = FlushInterval * Slots - FlushInterval * d
      BY <1>1, Distribute
    <2>4. x >= FlushInterval /\ x \in 0..(BufferSize - 1)
      BY <1>1, <1>3, <1>4, <2>1, <2>2, <2>3
    <2> QED BY <1>1, <1>2, <1>4, <1>6, <2>4, ModSmall
  <1>7. CASE d =< -1
    <2>1. FlushInterval * d =< -FlushInterval
      BY <1>1, <1>7, MulAtMost
    <2>2. FlushInterval * (Slots + d) >= FlushInterval
      BY <1>1, <1>2, MulAtLeast
    <2>3. FlushInterval * (Slots + d) = FlushInterval * Slots + FlushInterval * d
      BY <1>1, Distribute
    <2>4. x < 0 /\ -BufferSize =< x /\ x + BufferSize >= FlushInterval
      BY <1>1, <1>3, <1>4, <2>1, <2>2, <2>3
    <2> QED BY <1>1, <1>2, <1>4, <1>7, <2>4, ModNegative
  <1> QED BY <1>2, <1>5, <1>6, <1>7

(* The same in a ring: the i-th byte from position p, and a byte that is   *)
(* k before it.                                                            *)
LEMMA RingOffset ==
    ASSUME NEW p \in Int, NEW i \in Int, -BufferSize =< i, i < BufferSize
    PROVE  /\ (p + i) % BufferSize \in 0..(BufferSize - 1)
           /\ (((p + i) % BufferSize) - p) % BufferSize = IF i < 0 THEN i + BufferSize ELSE i
  <1>1. BufferSize \in Nat \ {0} /\ p + i \in Int /\ -p \in Int
    BY SizeFacts
  <1>2. (p + i) % BufferSize \in 0..(BufferSize - 1)
    BY <1>1, DivMod
  <1>3. (((p + i) % BufferSize) + (-p)) % BufferSize = ((p + i) + (-p)) % BufferSize
    BY <1>1, ModInner
  <1>4. (p + i) + (-p) = i /\ ((p + i) % BufferSize) + (-p) = ((p + i) % BufferSize) - p
    BY <1>1, <1>2
  <1>5. (((p + i) % BufferSize) - p) % BufferSize = i % BufferSize
    BY <1>3, <1>4
  <1>6. i % BufferSize = IF i < 0 THEN i + BufferSize ELSE i
    BY <1>1, ModSmall, ModNegative
  <1> QED BY <1>2, <1>5, <1>6
-----------------------------------------------------------------------------
(* Abbreviations that every proof looks through. *)

USE DEF large, from, config, shared, op, stream, guest, reading, thread, host, snapshot, control,
        GuestRuns, At, Goto, HAt, HGoto

(* The three actors. *)
GuestMove == (\E o \in Ops : Begin(o)) \/ Close \/ GuestStep
DeviceMove == ControlStep \/ Crash \/ preSave

LEMMA Actors == ASSUME [Next]_vars PROVE GuestMove \/ HostStep \/ DeviceMove \/ UNCHANGED vars
  BY DEF Next, GuestMove, DeviceMove, Gone

(* What each of them leaves alone. *)
LEMMA GuestFrame ==
    ASSUME GuestMove
    PROVE  /\ vmRunning /\ alive
           /\ UNCHANGED <<hpc, wanted, dst, readBuffer, inLargeXfer, spins, todo>>
           /\ UNCHANGED <<unavailableReads, shouldExit, shouldExitForSnapshot, owed, received>>
           /\ UNCHANGED <<ctl, vmRunning, alive, exiting, state, inSnapshotOperation, saves>>
           /\ UNCHANGED <<image, decoded>>
           /\ UNCHANGED <<largeR, fromW, host_state>>
  <1>1. CASE \E o \in Ops : Begin(o)
    BY <1>1 DEF Begin
  <1>2. CASE Close
    BY <1>2 DEF Close
  <1>3. CASE GuestStep
    <2>1. CASE ensureType3Finished BY <2>1 DEF ensureType3Finished
    <2>2. CASE ensureType1Finished BY <2>2 DEF ensureType1Finished
    <2>3. CASE Fill BY <2>3 DEF Fill
    <2>4. CASE type1Write_room BY <2>4 DEF type1Write_room
    <2>5. CASE type1Write_ring BY <2>5 DEF type1Write_ring
    <2>6. CASE writeFully_chunk BY <2>6 DEF writeFully_chunk
    <2>7. CASE CheckHost BY <2>7 DEF CheckHost
    <2>8. CASE NotifyAfter BY <2>8 DEF NotifyAfter
    <2>9. CASE SetTransferSize BY <2>9 DEF SetTransferSize
    <2>10. CASE SetTransferMode BY <2>10 DEF SetTransferMode
    <2>11. CASE speculativeRead BY <2>11 DEF speculativeRead
    <2> QED BY <1>3, <2>1, <2>2, <2>3, <2>4, <2>5, <2>6, <2>7, <2>8, <2>9, <2>10, <2>11 DEF GuestStep
  <1> QED BY <1>1, <1>2, <1>3 DEF GuestMove

LEMMA HostFrame ==
    ASSUME HostStep
    PROVE  /\ UNCHANGED <<gpc, gop, gsent, pinged, nudging, writeStart, sent, callEnd, got>>
           /\ UNCHANGED <<ctl, vmRunning, alive, exiting, inSnapshotOperation, saves, image>>
           /\ UNCHANGED <<largeW, fromR, transfer_mode>>
  <1>1. CASE \E w \in 1..MaxWanted : readRaw(w) BY <1>1 DEF readRaw
  <1>2. CASE DrainReadBuffer BY <1>2 DEF DrainReadBuffer
  <1>3. CASE ReturnData BY <1>3 DEF ReturnData
  <1>4. CASE LoopTop BY <1>4 DEF LoopTop
  <1>5. CASE PollToHost BY <1>5 DEF PollToHost
  <1>6. CASE PollLarge BY <1>6 DEF PollLarge
  <1>7. CASE type1Read BY <1>7 DEF type1Read
  <1>8. CASE type1Read_advance BY <1>8 DEF type1Read_advance
  <1>9. CASE type3Read BY <1>9 DEF type3Read
  <1>10. CASE type3Read_sub BY <1>10 DEF type3Read_sub
  <1>11. CASE type3Read_copy BY <1>11 DEF type3Read_copy
  <1>12. CASE Unavailable BY <1>12 DEF Unavailable
  <1>13. CASE onUnavailableRead BY <1>13 DEF onUnavailableRead
  <1>14. CASE ReceiveCommand BY <1>14 DEF ReceiveCommand
  <1>15. CASE commitBuffer BY <1>15 DEF commitBuffer
  <1>16. CASE doSnapshotOperation BY <1>16 DEF doSnapshotOperation
  <1>17. CASE snapshotOperation BY <1>17 DEF snapshotOperation
  <1> QED BY <1>1, <1>2, <1>3, <1>4, <1>5, <1>6, <1>7, <1>8, <1>9, <1>10, <1>11, <1>12, <1>13,
             <1>14, <1>15, <1>16, <1>17 DEF HostStep

LEMMA DeviceFrame ==
    ASSUME DeviceMove
    PROVE  /\ UNCHANGED <<gpc, gop, gsent, pinged, nudging, writeStart, sent, callEnd, got>>
           /\ UNCHANGED <<hpc, wanted, dst, readBuffer, inLargeXfer, spins, todo>>
           /\ UNCHANGED <<unavailableReads, shouldExit, shouldExitForSnapshot, owed, received>>
           /\ UNCHANGED <<toHost, largeW, largeR, fromW, fromR, buffer, transfer_mode, transfer_size>>
  <1>1. CASE save BY <1>1 DEF save
  <1>2. CASE resume BY <1>2 DEF resume
  <1>3. CASE destroy BY <1>3 DEF destroy
  <1>4. CASE send BY <1>4 DEF send
  <1>5. CASE Crash BY <1>5 DEF Crash
  <1>6. CASE preSave BY <1>6 DEF preSave
  <1>7. CASE saveRingBlocks BY <1>7 DEF saveRingBlocks
  <1>8. CASE saveBufferBlocks BY <1>8 DEF saveBufferBlocks
  <1> QED BY <1>1, <1>2, <1>3, <1>4, <1>5, <1>6, <1>7, <1>8 DEF DeviceMove, ControlStep
-----------------------------------------------------------------------------
(* The command of the guest. *)

LEMMA OpFacts ==
    ASSUME TypeOK
    PROVE  /\ gop.kind \in Kinds /\ gop.size \in Nat /\ gop.call \in BOOLEAN
           /\ gop = NoOp => gop.kind = "commit" /\ gop.size = 0 /\ gop.call = FALSE
           /\ gop # NoOp => gop \in Ops /\ gop.size > 0
           /\ gsent \in 0..gop.size /\ gsent \in Nat /\ sent \in Nat
  <1>1. gop \in Ops \cup {NoOp} /\ gsent \in 0..gop.size /\ sent \in Nat
    BY DEF TypeOK
  <1>2. gop \in Ops => gop.kind \in Kinds /\ gop.size \in 1..MaxSize /\ gop.call \in BOOLEAN
    BY DEF Ops
  <1>3. gop = NoOp => gop.kind = "commit" /\ gop.size = 0 /\ gop.call = FALSE
    BY DEF NoOp
  <1>4. "commit" \in Kinds /\ FALSE \in BOOLEAN
    BY DEF Kinds
  <1>5. CASE gop \in Ops
    BY <1>1, <1>2, <1>3, <1>5, LimitFacts
  <1>6. CASE gop = NoOp
    <2>1. gop.kind \in Kinds /\ gop.call \in BOOLEAN
      BY <1>3, <1>4, <1>6, Zenon
    <2>2. gop.size = 0 /\ gsent \in 0..gop.size
      BY <1>1, <1>3, <1>6
    <2> QED BY <1>1, <1>3, <1>6, <2>1, <2>2
  <1> QED BY <1>1, <1>5, <1>6

LEMMA NumberFacts ==
    ASSUME TypeOK
    PROVE  /\ largeW \in Nat /\ largeR \in Nat /\ fromW \in Nat /\ fromR \in Nat
           /\ transfer_size \in Nat /\ transfer_mode \in {1, 3}
           /\ writeStart \in 0..(Slots - 1) /\ writeStart \in Nat /\ callEnd \in Nat
           /\ wanted \in Nat /\ todo \in Nat /\ owed \in 0..ReplySize /\ owed \in Nat
           /\ spins \in Nat /\ unavailableReads \in Nat /\ saves \in Nat
  <1>1. {largeW, largeR, fromW, fromR} \subseteq Nat
    BY DEF TypeOK
  <1>2. /\ transfer_size \in Nat /\ transfer_mode \in {1, 3} /\ writeStart \in 0..(Slots - 1)
        /\ callEnd \in Nat /\ wanted \in 0..MaxWanted /\ todo \in Nat /\ owed \in 0..ReplySize
        /\ spins \in 0..MaxSpins /\ unavailableReads \in 0..MaxUnavailableReads
        /\ saves \in 0..MaxSaves
    BY DEF TypeOK
  <1> QED BY <1>1, <1>2, SizeFacts, LimitFacts

LEMMA SeqFacts ==
    ASSUME TypeOK
    PROVE  /\ toHost \in Seq([slot : 0..(Slots - 1), size : 1..FlushInterval]) /\ Len(toHost) \in Nat
           /\ messages \in Seq({"Wakeup", "Exit", "PausePreSnapshot", "ResumePostSnapshot"})
           /\ Len(messages) \in Nat /\ Len(messages) =< Capacity
           /\ got \in Seq(Int) /\ Len(got) \in Nat /\ dst \in Seq(Int) /\ Len(dst) \in Nat
           /\ readBuffer \in Seq(Int) /\ Len(readBuffer) \in Nat
           /\ received \in Seq(Int) /\ Len(received) \in Nat
  <1>1. /\ toHost \in Seq([slot : 0..(Slots - 1), size : 1..FlushInterval])
        /\ messages \in Seq({"Wakeup", "Exit", "PausePreSnapshot", "ResumePostSnapshot"})
        /\ Len(messages) =< Capacity
        /\ got \in Seq(Int) /\ dst \in Seq(Int) /\ readBuffer \in Seq(Int) /\ received \in Seq(Int)
    BY DEF TypeOK
  <1> QED BY <1>1

(* A chunk of a large transfer is not empty and fits in an empty ring. *)
LEMMA ChunkFacts ==
    ASSUME TypeOK, gsent < gop.size
    PROVE  /\ sendThisTime \in Nat /\ sendThisTime >= 1 /\ sendThisTime =< gop.size - gsent
           /\ sendThisTime =< BufferSize - 1
  <1>1. gop.size \in Nat /\ gsent \in Nat
    BY OpFacts
  <1> DEFINE part == BufferSize \div (IF gop.kind = "writeFully" THEN 4 ELSE 2)
  <1>2. part \in Nat /\ part >= 1 /\ part =< BufferSize - 1
    BY HalfFacts
  <1>3. chunkSize = AtMost(gop.size, part)
    BY DEF chunkSize
  <1> HIDE DEF part
  <1>4. chunkSize \in Int /\ chunkSize >= 1 /\ chunkSize =< part
    BY <1>1, <1>2, <1>3 DEF AtMost
  <1>5. /\ sendThisTime \in {gop.size - gsent, chunkSize}
        /\ sendThisTime =< gop.size - gsent /\ sendThisTime =< chunkSize
    BY <1>1, <1>4 DEF sendThisTime, AtMost
  <1> QED BY <1>1, <1>2, <1>4, <1>5, SizeFacts

(* A chunk is written whole or not at all; an empty ring has room for it. *)
LEMMA ChunkStep ==
    ASSUME TypeOK, GuestInv, WaitedInv, writeFully_chunk
    PROVE  /\ gpc = "write" /\ gpc' = "check" /\ gop.kind # "commit"
           /\ UNCHANGED <<gop, pinged, nudging, writeStart, sent, callEnd, got, toHost, largeR,
                          fromW, fromR, host_state, transfer_mode, transfer_size, messages>>
           /\ \/ /\ BufferSize - 1 - (largeW - largeR) >= sendThisTime
                 /\ buffer' = [c \in DOMAIN buffer |->
                       IF (c - largeW) % BufferSize < sendThisTime
                       THEN sent + gsent + ((c - largeW) % BufferSize) + 1 ELSE buffer[c]]
                 /\ largeW' = largeW + sendThisTime /\ gsent' = gsent + sendThisTime
              \/ UNCHANGED <<buffer, largeW, gsent>> /\ gsent # 0
  <1>1. /\ gpc = "write" /\ gpc' = "check" /\ gop.kind # "commit"
        /\ UNCHANGED <<gop, pinged, nudging, writeStart, sent, callEnd, got, toHost, largeR,
                       fromW, fromR, host_state, transfer_mode, transfer_size, messages>>
    BY DEF writeFully_chunk, Put
  <1>2. \/ /\ BufferSize - 1 - (largeW - largeR) >= sendThisTime
           /\ buffer' = [c \in DOMAIN buffer |->
                 IF (c - largeW) % BufferSize < sendThisTime
                 THEN sent + gsent + ((c - largeW) % BufferSize) + 1 ELSE buffer[c]]
           /\ largeW' = largeW + sendThisTime /\ gsent' = gsent + sendThisTime
        \/ /\ UNCHANGED <<buffer, largeW, gsent>>
           /\ ~(BufferSize - 1 - (largeW - largeR) >= sendThisTime)
    BY DEF writeFully_chunk, Put
  <1>3. sendThisTime \in Nat /\ sendThisTime =< BufferSize - 1
    BY <1>1, ChunkFacts DEF GuestInv
  <1>4. gsent = 0 => largeW - largeR = 0
    BY <1>1, NumberFacts DEF WaitedInv
  <1> QED BY <1>1, <1>2, <1>3, <1>4, SizeFacts

(* Every step keeps the guest's position and its command in step. *)
LEMMA GuestInvariant ==
    ASSUME TypeOK, GuestInv, WaitedInv, [Next]_vars
    PROVE  GuestInv'
  <1> USE OpFacts
  <1>1. CASE HostStep \/ DeviceMove \/ UNCHANGED vars
    BY <1>1, HostFrame, DeviceFrame DEF vars, GuestInv
  <1>2. ASSUME NEW o \in Ops, Begin(o) PROVE GuestInv'
    <2>1. o.kind \in Kinds /\ o.size \in 1..MaxSize /\ o # NoOp
      BY LimitFacts DEF Ops, NoOp
    <2> QED BY <1>2, <2>1 DEF Begin, GuestInv, Kinds, Resting, Reading
  <1>3. CASE Close
    BY <1>3 DEF Close, GuestInv, Resting, Reading
  <1>4. CASE ensureType3Finished
    BY <1>4 DEF ensureType3Finished, AfterType3, GuestInv, Resting, Reading
  <1>5. CASE ensureType1Finished
    BY <1>5 DEF ensureType1Finished, AfterType1, GuestInv, Resting, Reading
  <1>6. CASE Fill
    BY <1>6 DEF Fill, GuestInv, Resting, Reading
  <1>7. CASE type1Write_room
    BY <1>7 DEF type1Write_room, GuestInv, Resting, Reading
  <1>8. CASE type1Write_ring
    BY <1>8 DEF type1Write_ring, GuestInv, Resting, Reading
  <1>9. CASE writeFully_chunk
    <2>1. sendThisTime \in Nat /\ sendThisTime >= 1 /\ sendThisTime =< gop.size - gsent
      BY <1>9, ChunkStep, ChunkFacts DEF GuestInv
    <2> QED BY <1>9, <2>1, ChunkStep DEF GuestInv, Resting, Reading
  <1>10. CASE CheckHost
    BY <1>10 DEF CheckHost, GuestInv, Resting, Reading
  <1>11. CASE NotifyAfter
    BY <1>11 DEF NotifyAfter, Finish, GuestInv, Resting, Reading, NoOp
  <1>12. CASE SetTransferSize
    BY <1>12 DEF SetTransferSize, GuestInv, Resting, Reading
  <1>13. CASE SetTransferMode
    BY <1>13 DEF SetTransferMode, Finish, GuestInv, Resting, Reading, NoOp
  <1>14. CASE speculativeRead
    BY <1>14 DEF speculativeRead, GuestInv, Resting, Reading
  <1> QED BY <1>1, <1>2, <1>3, <1>4, <1>5, <1>6, <1>7, <1>8, <1>9, <1>10, <1>11, <1>12, <1>13,
             <1>14, Actors DEF GuestMove, GuestStep

(* The guest rests exactly when it has no command. *)
LEMMA RestingFacts ==
    ASSUME TypeOK, GuestInv
    PROVE  /\ gpc \in Resting <=> gop = NoOp
           /\ gpc \in {"alloc3", "fill", "commit3", "room"} => gop # NoOp /\ gop.kind = "commit"
           /\ gpc \in {"write3", "write1", "size", "mode3", "end3", "mode"} => gop.kind # "commit"
           /\ gpc \in {"write", "check", "after"} => gop # NoOp
  BY OpFacts DEF GuestInv, Resting, Reading, TypeOK, AfterType3, AfterType1

LEMMA CallInvariant ==
    ASSUME TypeOK, GuestInv, CallInv, [Next]_vars
    PROVE  CallInv'
  <1> USE OpFacts, RestingFacts
  <1>1. CASE HostStep \/ DeviceMove \/ UNCHANGED vars
    BY <1>1, HostFrame, DeviceFrame DEF vars, CallInv
  <1>2. ASSUME NEW o \in Ops, Begin(o) PROVE CallInv'
    <2>1. o.size \in Nat /\ o.call \in BOOLEAN
      BY DEF Ops
    <2> QED BY <1>2, <2>1 DEF Begin, CallInv, Reading, Resting
  <1>3. CASE Close
    BY <1>3 DEF Close, CallInv, Reading
  <1>4. CASE ensureType3Finished
    BY <1>4 DEF ensureType3Finished, AfterType3, CallInv, Reading
  <1>5. CASE ensureType1Finished
    BY <1>5 DEF ensureType1Finished, AfterType1, CallInv, Reading
  <1>6. CASE Fill \/ type1Write_room \/ type1Write_ring \/ writeFully_chunk \/ CheckHost \/ SetTransferSize
    BY <1>6 DEF Fill, type1Write_room, type1Write_ring, writeFully_chunk, CheckHost, SetTransferSize,
                CallInv, Reading
  <1>7. CASE NotifyAfter
    BY <1>7 DEF NotifyAfter, Finish, CallInv, Reading, NoOp
  <1>8. CASE SetTransferMode
    BY <1>8 DEF SetTransferMode, Finish, CallInv, Reading, NoOp
  <1>9. CASE speculativeRead
    BY <1>9 DEF speculativeRead, CallInv, Reading, Resting
  <1> QED BY <1>1, <1>2, <1>3, <1>4, <1>5, <1>6, <1>7, <1>8, <1>9, Actors DEF GuestMove, GuestStep
-----------------------------------------------------------------------------
(* The rings and the two ends of a transfer. *)

LEMMA GuestEffects ==
    ASSUME GuestMove
    PROVE  /\ type1Write_ring \/ UNCHANGED toHost
           /\ writeFully_chunk \/ UNCHANGED largeW
           /\ speculativeRead \/ UNCHANGED <<fromR, got>>
           /\ Fill \/ writeFully_chunk \/ UNCHANGED buffer
           /\ messages' = messages \/ notifyAvailable
  <1>1. CASE \E o \in Ops : Begin(o) BY <1>1 DEF Begin
  <1>2. CASE Close BY <1>2 DEF Close
  <1>3. CASE ensureType3Finished BY <1>3 DEF ensureType3Finished
  <1>4. CASE ensureType1Finished BY <1>4 DEF ensureType1Finished
  <1>5. CASE Fill BY <1>5 DEF Fill
  <1>6. CASE type1Write_room BY <1>6 DEF type1Write_room
  <1>7. CASE type1Write_ring BY <1>7 DEF type1Write_ring
  <1>8. CASE writeFully_chunk BY <1>8 DEF writeFully_chunk
  <1>9. CASE CheckHost BY <1>9 DEF CheckHost
  <1>10. CASE NotifyAfter BY <1>10 DEF NotifyAfter
  <1>11. CASE SetTransferSize BY <1>11 DEF SetTransferSize
  <1>12. CASE SetTransferMode BY <1>12 DEF SetTransferMode
  <1>13. CASE speculativeRead BY <1>13 DEF speculativeRead
  <1> QED BY <1>1, <1>2, <1>3, <1>4, <1>5, <1>6, <1>7, <1>8, <1>9, <1>10, <1>11, <1>12, <1>13
          DEF GuestMove, GuestStep

LEMMA HostEffects ==
    ASSUME HostStep
    PROVE  /\ type1Read_advance \/ UNCHANGED toHost
           /\ type3Read_copy \/ UNCHANGED largeR
           /\ type3Read_sub \/ UNCHANGED transfer_size
           /\ commitBuffer \/ UNCHANGED <<fromW, buffer>>
           /\ ReceiveCommand \/ UNCHANGED messages
           /\ ReturnData \/ UNCHANGED received
           /\ ReturnData \/ commitBuffer \/ UNCHANGED owed
           /\ doSnapshotOperation \/ snapshotOperation \/ UNCHANGED <<state, decoded>>
  <1>1. CASE \E w \in 1..MaxWanted : readRaw(w) BY <1>1 DEF readRaw
  <1>2. CASE DrainReadBuffer BY <1>2 DEF DrainReadBuffer
  <1>3. CASE ReturnData BY <1>3 DEF ReturnData
  <1>4. CASE LoopTop BY <1>4 DEF LoopTop
  <1>5. CASE PollToHost BY <1>5 DEF PollToHost
  <1>6. CASE PollLarge BY <1>6 DEF PollLarge
  <1>7. CASE type1Read BY <1>7 DEF type1Read
  <1>8. CASE type1Read_advance BY <1>8 DEF type1Read_advance
  <1>9. CASE type3Read BY <1>9 DEF type3Read
  <1>10. CASE type3Read_sub BY <1>10 DEF type3Read_sub
  <1>11. CASE type3Read_copy BY <1>11 DEF type3Read_copy
  <1>12. CASE Unavailable BY <1>12 DEF Unavailable
  <1>13. CASE onUnavailableRead BY <1>13 DEF onUnavailableRead
  <1>14. CASE ReceiveCommand BY <1>14 DEF ReceiveCommand
  <1>15. CASE commitBuffer BY <1>15 DEF commitBuffer
  <1>16. CASE doSnapshotOperation BY <1>16 DEF doSnapshotOperation
  <1>17. CASE snapshotOperation BY <1>17 DEF snapshotOperation
  <1> QED BY <1>1, <1>2, <1>3, <1>4, <1>5, <1>6, <1>7, <1>8, <1>9, <1>10, <1>11, <1>12, <1>13,
             <1>14, <1>15, <1>16, <1>17 DEF HostStep

(* A part of a reply fits; a reply is given up only when the device has    *)
(* said EXIT.                                                              *)
LEMMA ReplyStep ==
    ASSUME TypeOK, RingsInv, commitBuffer
    PROVE  /\ hpc = "render" /\ hpc' = "render" /\ owed > 0
           /\ UNCHANGED <<wanted, dst, readBuffer, inLargeXfer, spins, todo>>
           /\ UNCHANGED <<unavailableReads, shouldExit, shouldExitForSnapshot, received>>
           /\ UNCHANGED <<toHost, largeW, largeR, fromR, host_state, transfer_mode, transfer_size,
                          messages, state>>
           /\ \/ \E n \in Nat :
                   /\ n >= 1 /\ n =< owed /\ n =< BufferSize - 1 - (fromW - fromR)
                   /\ buffer' = [c \in DOMAIN buffer |->
                         IF (c - fromW) % BufferSize < n
                         THEN -(fromW + ((c - fromW) % BufferSize) + 1) ELSE buffer[c]]
                   /\ fromW' = fromW + n /\ owed' = owed - n
              \/ host_state = "EXIT" /\ owed' = 0 /\ UNCHANGED <<buffer, fromW>>
  <1> DEFINE avail == BufferSize - 1 - (fromW - fromR)
             n == AtMost(owed, avail)
  <1>1. /\ hpc = "render" /\ hpc' = "render" /\ owed > 0
        /\ UNCHANGED <<wanted, dst, readBuffer, inLargeXfer, spins, todo>>
        /\ UNCHANGED <<unavailableReads, shouldExit, shouldExitForSnapshot, received>>
        /\ UNCHANGED <<toHost, largeW, largeR, fromR, host_state, transfer_mode, transfer_size,
                       messages, state>>
    BY DEF commitBuffer, Put
  <1>2. \/ /\ avail > 0
           /\ buffer' = [c \in DOMAIN buffer |->
                 IF (c - fromW) % BufferSize < n
                 THEN -(fromW + ((c - fromW) % BufferSize) + 1) ELSE buffer[c]]
           /\ fromW' = fromW + n /\ owed' = owed - n
        \/ host_state = "EXIT" /\ owed' = 0 /\ UNCHANGED <<buffer, fromW>>
    BY DEF commitBuffer, Put
  <1>3. avail \in Int /\ owed \in Nat
    BY NumberFacts, SizeFacts
  <1>4. avail > 0 => n \in Nat /\ n >= 1 /\ n =< owed /\ n =< avail
    BY <1>1, <1>3 DEF AtMost
  <1> HIDE DEF n
  <1> QED BY <1>1, <1>2, <1>4

(* type3Read takes what the ring holds, in one or more parts. *)
LEMMA CopyStep ==
    ASSUME TypeOK, HostInv, type3Read_copy
    PROVE  \E n \in Nat :
             /\ n >= 1 /\ n =< todo /\ n =< largeW - largeR
             /\ dst' = dst \o Take(largeR, n) /\ largeR' = largeR + n /\ todo' = todo - n
             /\ hpc = "type3copy" /\ hpc' = IF todo = n THEN "top" ELSE "type3copy"
             /\ inLargeXfer' = IF todo = n THEN transfer_size # 0 ELSE inLargeXfer
             /\ UNCHANGED <<wanted, readBuffer, spins, toHost, largeW, fromW, fromR, buffer,
                            host_state, transfer_mode, transfer_size, messages, received, owed>>
  <1> DEFINE n == AtMost(todo, BufferSize \div 2)
  <1>1. hpc = "type3copy" /\ todo > 0 /\ todo =< largeW - largeR
    BY DEF type3Read_copy, HostInv
  <1>2. n \in Nat /\ n >= 1 /\ n =< todo
    BY <1>1, NumberFacts, HalfFacts DEF AtMost
  <1>3. n =< largeW - largeR
    BY <1>1, <1>2, NumberFacts
  <1>4. /\ dst' = dst \o Take(largeR, n) /\ largeR' = largeR + n /\ todo' = todo - n
        /\ hpc' = IF todo = n THEN "top" ELSE "type3copy"
        /\ inLargeXfer' = IF todo = n THEN transfer_size # 0 ELSE inLargeXfer
        /\ UNCHANGED <<wanted, readBuffer, spins, toHost, largeW, fromW, fromR, buffer,
                       host_state, transfer_mode, transfer_size, messages, received, owed>>
    BY DEF type3Read_copy
  <1> HIDE DEF n
  <1> QED BY <1>1, <1>2, <1>3, <1>4

LEMMA RingsInvariant ==
    ASSUME TypeOK, GuestInv, RingsInv, WaitedInv, HostInv, [Next]_vars
    PROVE  RingsInv'
  <1>n. /\ largeW \in Nat /\ largeR \in Nat /\ fromW \in Nat /\ fromR \in Nat
        /\ BufferSize \in Nat /\ BufferSize > 0 /\ Slots \in Nat /\ Slots > 1
    BY NumberFacts, SizeFacts
  <1>0. Len(toHost) \in Nat /\ (toHost = <<>> <=> Len(toHost) = 0)
    BY SeqFacts
  <1>1. CASE UNCHANGED <<toHost, largeW, largeR, fromW, fromR>>
    BY <1>1 DEF RingsInv
  <1>2. CASE type1Write_ring
    <2>1. gsent = 0 /\ Len(toHost) < Slots - 1 /\ largeW = largeR
      BY <1>2, RestingFacts, OpFacts DEF type1Write_ring, WaitedInv, GuestInv
    <2>2. toHost' = toHost \/ (toHost' # <<>> /\ Len(toHost') = Len(toHost) + 1)
      BY <1>2, SeqFacts DEF type1Write_ring
    <2>3. UNCHANGED <<largeW, largeR, fromW, fromR>>
      BY <1>2 DEF type1Write_ring
    <2> QED BY <1>0, <2>1, <2>2, <2>3, <1>n DEF RingsInv
  <1>3. CASE writeFully_chunk
    <2>1. sendThisTime \in Nat /\ sendThisTime >= 1
      BY <1>3, ChunkStep, ChunkFacts DEF GuestInv
    <2>2. toHost = <<>>
      BY <1>3, ChunkStep DEF WaitedInv
    <2>3. UNCHANGED <<toHost, largeR, fromW, fromR>>
      BY <1>3, ChunkStep, GuestFrame DEF GuestMove, GuestStep
    <2>4. \/ BufferSize - 1 - (largeW - largeR) >= sendThisTime /\ largeW' = largeW + sendThisTime
          \/ largeW' = largeW
      BY <1>3, ChunkStep
    <2>5. largeR' =< largeW' /\ largeW' - largeR' < BufferSize
      BY <2>1, <2>3, <2>4, <1>n DEF RingsInv
    <2> QED BY <1>n, <2>2, <2>3, <2>5 DEF RingsInv
  <1>4. CASE speculativeRead
    <2>1. fromR' = fromW /\ UNCHANGED <<toHost, largeW, largeR, fromW>>
      BY <1>4 DEF speculativeRead
    <2> QED BY <2>1, <1>n DEF RingsInv
  <1>5. CASE type1Read_advance
    <2>1. toHost # <<>> /\ UNCHANGED <<largeW, largeR, fromW, fromR>>
      BY <1>5 DEF type1Read_advance, HostInv
    <2>2. Len(toHost') = Len(toHost) - 1
      BY <1>5, <2>1, SeqFacts DEF type1Read_advance
    <2> QED BY <1>0, <2>1, <2>2, <1>n DEF RingsInv
  <1>6. CASE type3Read_copy
    <2>1. PICK n \in Nat : n >= 1 /\ n =< largeW - largeR /\ largeR' = largeR + n
      BY <1>6, CopyStep
    <2>2. UNCHANGED <<largeW, fromW, fromR, toHost>>
      BY <1>6 DEF type3Read_copy
    <2>3. toHost = <<>>
      BY <2>1, <1>n DEF RingsInv
    <2>4. largeR' =< largeW' /\ largeW' - largeR' < BufferSize
      BY <2>1, <2>2, <1>n DEF RingsInv
    <2> QED BY <1>n, <2>2, <2>3, <2>4 DEF RingsInv
  <1>7. CASE commitBuffer
    <2>1. \/ fromW' = fromW
          \/ \E n \in Nat : n >= 1 /\ n =< BufferSize - 1 - (fromW - fromR) /\ fromW' = fromW + n
      BY <1>7, ReplyStep
    <2>2. UNCHANGED <<largeW, largeR, fromR, toHost>>
      BY <1>7, ReplyStep
    <2>3. fromR' =< fromW' /\ fromW' - fromR' < BufferSize
      BY <2>1, <2>2, <1>n DEF RingsInv
    <2> QED BY <2>2, <2>3 DEF RingsInv
  <1>8. CASE GuestMove
    BY <1>1, <1>2, <1>3, <1>4, <1>8, GuestEffects, GuestFrame
  <1>9. CASE HostStep
    BY <1>1, <1>5, <1>6, <1>7, <1>9, HostFrame, HostEffects
  <1>10. CASE DeviceMove \/ UNCHANGED vars
    BY <1>1, <1>10, DeviceFrame DEF vars
  <1> QED BY <1>8, <1>9, <1>10, Actors

LEMMA WaitedInvariant ==
    ASSUME TypeOK, GuestInv, RingsInv, WaitedInv, HostInv, [Next]_vars
    PROVE  WaitedInv'
  <1>0. Len(toHost) \in Nat /\ Slots \in Nat
    BY SeqFacts, SizeFacts
  <1>1. CASE DeviceMove \/ UNCHANGED vars
    BY <1>1, DeviceFrame DEF vars, WaitedInv
  <1>2. ASSUME NEW o \in Ops, Begin(o) PROVE WaitedInv'
    BY <1>2 DEF Begin, WaitedInv
  <1>3. CASE Close
    BY <1>3 DEF Close, WaitedInv
  <1>4. CASE ensureType3Finished
    BY <1>4, RestingFacts DEF ensureType3Finished, AfterType3, WaitedInv
  <1>5. CASE ensureType1Finished
    BY <1>5 DEF ensureType1Finished, AfterType1, Type1Finished, WaitedInv
  <1>6. CASE Fill
    BY <1>6 DEF Fill, WaitedInv, Put
  <1>7. CASE type1Write_room
    <2>1. Len(toHost) < Slots - 1 /\ gop.kind = "commit"
      BY <1>7, RestingFacts, SizeFacts DEF type1Write_room, maxOutstanding
    <2> QED BY <1>7, <2>1 DEF type1Write_room, WaitedInv
  <1>8. CASE type1Write_ring
    <2>1. gop.size # 0
      BY <1>8, RestingFacts, OpFacts DEF type1Write_ring
    <2> QED BY <1>8, <2>1 DEF type1Write_ring, WaitedInv
  <1>9. CASE writeFully_chunk
    <2>1. UNCHANGED <<toHost, largeR, gop>> /\ gop.kind # "commit" /\ gpc = "write" /\ gpc' = "check"
      BY <1>9, ChunkStep
    <2> QED BY <2>1 DEF WaitedInv
  <1>10. CASE CheckHost
    <2>1. gop.kind # "commit" => gsent # 0
      BY <1>10, OpFacts DEF CheckHost, GuestInv
    <2>2. gop.kind = "commit" /\ gpc' = "write" => gsent = 0
      BY <1>10, OpFacts, RestingFacts DEF CheckHost, GuestInv
    <2> QED BY <1>10, <2>1, <2>2 DEF CheckHost, WaitedInv
  <1>11. CASE NotifyAfter
    BY <1>11 DEF NotifyAfter, Finish, WaitedInv, NoOp
  <1>12. CASE SetTransferSize
    BY <1>12 DEF SetTransferSize, WaitedInv
  <1>13. CASE SetTransferMode
    BY <1>13, RestingFacts DEF SetTransferMode, Finish, WaitedInv
  <1>14. CASE speculativeRead
    BY <1>14 DEF speculativeRead, WaitedInv
  <1>15. CASE type1Read_advance
    <2>1. toHost # <<>> /\ UNCHANGED <<largeW, largeR, gpc, gop, gsent>>
      BY <1>15 DEF type1Read_advance, HostInv
    <2>2. Len(toHost') = Len(toHost) - 1
      BY <1>15, <2>1, SeqFacts DEF type1Read_advance
    <2> QED BY <1>0, <2>1, <2>2 DEF WaitedInv
  <1>16. CASE type3Read_copy
    <2>1. largeW # largeR
      <3>1. PICK n \in Nat : n >= 1 /\ n =< largeW - largeR
        BY <1>16, CopyStep
      <3>2. largeW \in Nat /\ largeR \in Nat
        BY NumberFacts
      <3> QED BY <3>1, <3>2
    <2>2. UNCHANGED <<gpc, gop, gsent, toHost>>
      BY <1>16 DEF type3Read_copy
    <2> QED BY <2>1, <2>2 DEF WaitedInv
  <1>17. CASE HostStep
    BY <1>15, <1>16, <1>17, HostFrame, HostEffects DEF WaitedInv
  <1> QED BY <1>1, <1>2, <1>3, <1>4, <1>5, <1>6, <1>7, <1>8, <1>9, <1>10, <1>11, <1>12, <1>13,
             <1>14, <1>17, Actors DEF GuestMove, GuestStep
-----------------------------------------------------------------------------
(* What the host holds, and what it has announced. *)

(* The guest only adds to the rings. *)
LEMMA GuestAdds ==
    ASSUME TypeOK, GuestInv, WaitedInv, GuestMove
    PROVE  (toHost # <<>> => toHost' # <<>>) /\ largeW' \in Nat /\ largeW' >= largeW
  <1>n. largeW \in Nat
    BY NumberFacts
  <1>1. CASE type1Write_ring
    <2>1. largeW' = largeW
      BY <1>1 DEF type1Write_ring
    <2>2. toHost' # <<>> \/ toHost' = toHost
      BY <1>1, SeqFacts DEF type1Write_ring
    <2> QED BY <1>n, <2>1, <2>2
  <1>2. CASE writeFully_chunk
    <2>1. sendThisTime \in Nat
      BY <1>2, ChunkStep, ChunkFacts DEF GuestInv
    <2>2. toHost' = toHost /\ (largeW' = largeW \/ largeW' = largeW + sendThisTime)
      BY <1>2, ChunkStep
    <2> QED BY <1>n, <2>1, <2>2
  <1> QED BY <1>n, <1>1, <1>2, GuestEffects

(* transfer_size covers what the ring holds, for a host that has not taken *)
(* it off yet.                                                             *)
LEMMA Announced ==
    ASSUME TypeOK, RingsInv, HostInv, TransferInv
    PROVE  /\ LargeUnclaimed \in Nat /\ LargeUnwritten \in Nat
           /\ LargeUnclaimed =< transfer_size
           /\ hpc # "type3copy" => LargeUnclaimed = largeW - largeR
           /\ hpc \in {"type3", "type3sub"} => todo =< transfer_size
  <1>n. /\ largeW \in Nat /\ largeR \in Nat /\ largeR =< largeW /\ todo \in Nat
        /\ transfer_size \in Nat /\ gop.size \in Nat /\ gsent \in 0..gop.size
    BY NumberFacts, OpFacts DEF RingsInv
  <1>1. hpc \in {"type3", "type3sub", "type3copy"} => todo =< largeW - largeR
    BY DEF HostInv
  <1>2. LargeUnclaimed \in Nat
    BY <1>n, <1>1 DEF LargeUnclaimed
  <1>3. LargeUnwritten \in Nat
    BY <1>n DEF LargeUnwritten
  <1>4. transfer_size = LargeUnclaimed + LargeUnwritten
    BY DEF TransferInv
  <1>5. hpc # "type3copy" => LargeUnclaimed = largeW - largeR
    BY <1>n DEF LargeUnclaimed
  <1> QED BY <1>n, <1>1, <1>2, <1>3, <1>4, <1>5

LEMMA HostInvariant ==
    ASSUME TypeOK, GuestInv, RingsInv, WaitedInv, HostInv, TransferInv, [Next]_vars
    PROVE  HostInv'
  <1>n. /\ largeW \in Nat /\ largeR \in Nat /\ largeR =< largeW /\ todo \in Nat
        /\ transfer_size \in Nat /\ wanted \in Nat /\ MaxWanted \in Nat
    BY NumberFacts, LimitFacts DEF RingsInv
  <1>1. CASE DeviceMove \/ UNCHANGED vars
    BY <1>1, DeviceFrame DEF vars, HostInv
  <1>2. CASE GuestMove
    BY <1>n, <1>2, GuestAdds, GuestFrame DEF HostInv
  <1>3. ASSUME NEW w \in 1..MaxWanted, readRaw(w) PROVE HostInv'
    <2>1. w > 0
      BY <1>n
    <2> QED BY <1>3, <2>1 DEF readRaw, HostInv
  <1>4. CASE DrainReadBuffer
    BY <1>4 DEF DrainReadBuffer, HostInv
  <1>5. CASE ReturnData
    BY <1>5 DEF ReturnData, HostInv
  <1>6. CASE LoopTop
    BY <1>6 DEF LoopTop, HostInv
  <1>7. CASE PollToHost
    BY <1>7 DEF PollToHost, HostInv
  <1>8. CASE PollLarge
    <2>1. todo' = largeW - largeR /\ (largeW > largeR => todo' > 0)
      BY <1>n, <1>8 DEF PollLarge
    <2> QED BY <1>n, <1>8, <2>1 DEF PollLarge, HostInv
  <1>9. CASE type1Read
    <2>1. transfer_mode = 1
      BY <1>9, NumberFacts DEF type1Read, HostInv, TransferInv, WaitedInv
    <2> QED BY <1>9, <2>1 DEF type1Read, HostInv
  <1>10. CASE type1Read_advance
    BY <1>10 DEF type1Read_advance, HostInv
  <1>11. CASE type3Read
    <2>1. todo > 0 /\ todo =< largeW - largeR /\ wanted > 0
      BY <1>11 DEF type3Read, HostInv
    <2>2. todo =< transfer_size
      BY <1>11, Announced DEF type3Read
    <2>3. todo' = AtMost(todo, AtMost(transfer_size, wanted))
      BY <1>11 DEF type3Read
    <2>4. todo' > 0 /\ todo' =< largeW - largeR
      BY <1>n, <2>1, <2>2, <2>3 DEF AtMost
    <2> QED BY <1>11, <2>4 DEF type3Read, HostInv
  <1>12. CASE type3Read_sub
    BY <1>12 DEF type3Read_sub, HostInv
  <1>13. CASE type3Read_copy
    <2>1. PICK n \in Nat :
             /\ n =< todo /\ largeR' = largeR + n /\ todo' = todo - n /\ largeW' = largeW
             /\ hpc' = IF todo = n THEN "top" ELSE "type3copy"
             /\ UNCHANGED <<wanted, readBuffer, toHost, owed>> /\ hpc = "type3copy"
      BY <1>13, CopyStep
    <2>2. todo =< largeW - largeR
      BY <2>1 DEF HostInv
    <2>3. hpc' # "top" => todo' > 0 /\ todo' =< largeW' - largeR'
      BY <1>n, <2>1, <2>2
    <2>4. hpc' \in {"top", "type3copy"}
      BY <2>1
    <2> QED BY <2>1, <2>3, <2>4 DEF HostInv
  <1>14. CASE Unavailable
    BY <1>14 DEF Unavailable, HostInv
  <1>15. CASE onUnavailableRead
    BY <1>15 DEF onUnavailableRead, HostInv
  <1>16. CASE ReceiveCommand
    BY <1>16 DEF ReceiveCommand, HostInv
  <1>17. CASE commitBuffer
    BY <1>17, ReplyStep DEF HostInv
  <1>18. CASE doSnapshotOperation
    BY <1>18 DEF doSnapshotOperation, HostInv
  <1>19. CASE snapshotOperation
    BY <1>19 DEF snapshotOperation, HostInv
  <1> QED BY <1>1, <1>2, <1>3, <1>4, <1>5, <1>6, <1>7, <1>8, <1>9, <1>10, <1>11, <1>12, <1>13,
             <1>14, <1>15, <1>16, <1>17, <1>18, <1>19, Actors DEF HostStep

LEMMA TransferInvariant ==
    ASSUME TypeOK, GuestInv, RingsInv, WaitedInv, HostInv, TransferInv, [Next]_vars
    PROVE  TransferInv'
  <1>n. /\ largeW \in Nat /\ largeR \in Nat /\ largeR =< largeW /\ todo \in Nat
        /\ transfer_size \in Nat /\ gop.size \in Nat /\ gsent \in Nat /\ gsent =< gop.size
    <2>1. gop.size \in Nat /\ gsent \in 0..gop.size
      BY OpFacts
    <2>2. /\ largeW \in Nat /\ largeR \in Nat /\ largeR =< largeW /\ todo \in Nat
          /\ transfer_size \in Nat
      BY NumberFacts DEF RingsInv
    <2> QED BY <2>1, <2>2
  <1>t. transfer_size = LargeUnclaimed + LargeUnwritten
    BY DEF TransferInv
  <1>1. CASE DeviceMove \/ UNCHANGED vars
    BY <1>1, DeviceFrame DEF vars, TransferInv, LargeUnclaimed, LargeUnwritten
  <1>2. ASSUME NEW o \in Ops, Begin(o) PROVE TransferInv'
    <2>1. gop.kind = "commit"
      BY <1>2, RestingFacts, OpFacts DEF Begin, Resting
    <2> QED BY <1>2, <2>1 DEF Begin, TransferInv, LargeUnclaimed, LargeUnwritten
  <1>3. CASE Close
    BY <1>3 DEF Close, TransferInv, LargeUnclaimed, LargeUnwritten
  <1>4. CASE ensureType3Finished
    BY <1>4, RestingFacts, OpFacts DEF ensureType3Finished, AfterType3, TransferInv, LargeUnclaimed,
       LargeUnwritten
  <1>5. CASE ensureType1Finished
    BY <1>5 DEF ensureType1Finished, AfterType1, TransferInv, LargeUnclaimed, LargeUnwritten
  <1>6. CASE Fill
    BY <1>6 DEF Fill, TransferInv, LargeUnclaimed, LargeUnwritten, Put
  <1>7. CASE type1Write_room
    BY <1>7, RestingFacts DEF type1Write_room, TransferInv, LargeUnclaimed, LargeUnwritten
  <1>8. CASE type1Write_ring
    BY <1>8 DEF type1Write_ring, TransferInv, LargeUnclaimed, LargeUnwritten
  <1>9. CASE writeFully_chunk
    <2>1. sendThisTime \in Nat
      BY <1>9, ChunkStep, ChunkFacts DEF GuestInv
    <2>2. UNCHANGED <<hpc, todo, largeR>>
      BY <1>9, GuestFrame DEF GuestMove, GuestStep
    <2>3. \/ largeW' = largeW + sendThisTime /\ gsent' = gsent + sendThisTime
          \/ largeW' = largeW /\ gsent' = gsent
      BY <1>9, ChunkStep
    <2>4. /\ gop' = gop /\ gop.kind # "commit" /\ gpc = "write" /\ gpc' = "check"
          /\ transfer_size' = transfer_size /\ transfer_mode' = transfer_mode
      BY <1>9, ChunkStep
    <2>5. LargeUnclaimed' + LargeUnwritten' = LargeUnclaimed + LargeUnwritten
      BY <1>n, <2>1, <2>2, <2>3, <2>4 DEF LargeUnclaimed, LargeUnwritten
    <2> QED BY <1>t, <2>4, <2>5 DEF TransferInv
  <1>10. CASE CheckHost
    <2>1. UNCHANGED <<hpc, todo, largeW, largeR, transfer_size>>
      BY <1>10 DEF CheckHost
    <2>2. LargeUnwritten' = LargeUnwritten
      BY <1>n, <1>10 DEF CheckHost, LargeUnwritten
    <2> QED BY <1>t, <1>10, <2>1, <2>2 DEF CheckHost, TransferInv, LargeUnclaimed
  <1>11. CASE NotifyAfter
    <2>1. UNCHANGED <<hpc, todo, largeW, largeR, transfer_size>>
      BY <1>11 DEF NotifyAfter
    <2>2. LargeUnwritten' = 0 /\ LargeUnwritten = 0
      BY <1>11 DEF NotifyAfter, LargeUnwritten, Finish, NoOp
    <2>3. (transfer_mode = 3)' <=> (gop.kind # "commit" /\ gpc \in {"write", "check", "after", "end3", "mode"})'
      BY <1>11 DEF NotifyAfter, TransferInv, Finish, NoOp
    <2> QED BY <1>t, <2>1, <2>2, <2>3 DEF TransferInv, LargeUnclaimed
  <1>12. CASE SetTransferSize
    <2>1. largeW = largeR /\ hpc # "type3copy"
      BY <1>n, <1>12 DEF SetTransferSize, WaitedInv, HostInv
    <2>2. gop.kind # "commit" /\ gsent = 0
      BY <1>12, RestingFacts DEF SetTransferSize, GuestInv
    <2>3. LargeUnclaimed' = 0
      <3>1. largeW' = largeW /\ largeR' = largeR /\ hpc' = hpc
        BY <1>12 DEF SetTransferSize
      <3> QED BY <1>n, <2>1, <3>1 DEF LargeUnclaimed
    <2>4. LargeUnwritten' = gop.size
      BY <1>n, <1>12, <2>2 DEF SetTransferSize, LargeUnwritten
    <2> QED BY <1>n, <1>12, <2>3, <2>4 DEF SetTransferSize, TransferInv
  <1>13. CASE SetTransferMode
    <2>1. UNCHANGED <<hpc, todo, largeW, largeR, transfer_size>>
      BY <1>13 DEF SetTransferMode
    <2>2. LargeUnwritten' = LargeUnwritten
      BY <1>13 DEF SetTransferMode, LargeUnwritten, Finish, NoOp
    <2>3. (transfer_mode = 3)' <=> (gop.kind # "commit" /\ gpc \in {"write", "check", "after", "end3", "mode"})'
      BY <1>13, RestingFacts DEF SetTransferMode, TransferInv, Finish, NoOp
    <2> QED BY <1>t, <2>1, <2>2, <2>3 DEF TransferInv, LargeUnclaimed
  <1>14. CASE speculativeRead
    BY <1>14 DEF speculativeRead, TransferInv, LargeUnclaimed, LargeUnwritten
  <1>15. CASE HostStep
    <2>1. UNCHANGED <<transfer_mode, gop, gpc, gsent, largeW>> /\ LargeUnwritten' = LargeUnwritten
      BY <1>15, HostFrame DEF LargeUnwritten
    <2>2. CASE UNCHANGED transfer_size /\ LargeUnclaimed' = LargeUnclaimed
      BY <1>t, <2>1, <2>2 DEF TransferInv
    <2>3. CASE type3Read_sub
      <3>1. /\ hpc = "type3sub" /\ hpc' = "type3copy" /\ transfer_size' = transfer_size - todo
            /\ UNCHANGED <<largeW, largeR, todo>>
        BY <2>3 DEF type3Read_sub
      <3>2. LargeUnclaimed' = LargeUnclaimed - todo /\ LargeUnclaimed \in Int
        BY <1>n, <3>1 DEF LargeUnclaimed
      <3>3. LargeUnwritten \in Nat
        BY Announced
      <3>4. transfer_size' = LargeUnclaimed' + LargeUnwritten'
        BY <1>n, <1>t, <2>1, <3>1, <3>2, <3>3
      <3> QED BY <2>1, <3>4 DEF TransferInv
    <2>4. CASE type3Read_copy
      <3>1. PICK n \in Nat :
               /\ n =< todo /\ largeR' = largeR + n /\ todo' = todo - n /\ largeW' = largeW
               /\ hpc' = IF todo = n THEN "top" ELSE "type3copy"
               /\ hpc = "type3copy" /\ transfer_size' = transfer_size
        BY <2>4, CopyStep
      <3>2. LargeUnclaimed' = LargeUnclaimed
        BY <1>n, <3>1 DEF LargeUnclaimed
      <3> QED BY <2>2, <3>1, <3>2
    <2>5. CASE ~type3Read_sub /\ ~type3Read_copy
      <3>1. UNCHANGED <<largeW, largeR, transfer_size>>
        BY <1>15, <2>5, HostFrame, HostEffects
      <3>2. hpc # "type3copy" /\ hpc' # "type3copy"
        BY <1>15, <2>5 DEF HostStep, readRaw, DrainReadBuffer, ReturnData, LoopTop, PollToHost,
           PollLarge, type1Read, type1Read_advance, type3Read, Unavailable, onUnavailableRead,
           ReceiveCommand, commitBuffer, doSnapshotOperation, snapshotOperation, Put
      <3>3. LargeUnclaimed' = LargeUnclaimed
        BY <1>n, <3>1, <3>2 DEF LargeUnclaimed
      <3> QED BY <2>2, <3>1, <3>3
    <2> QED BY <2>3, <2>4, <2>5
  <1> QED BY <1>1, <1>2, <1>3, <1>4, <1>5, <1>6, <1>7, <1>8, <1>9, <1>10, <1>11, <1>12, <1>13,
             <1>14, <1>15, Actors DEF GuestMove, GuestStep
-----------------------------------------------------------------------------
(* The device. *)

(* What a ping or a command adds to the messages. *)
LEMMA MessageFacts ==
    ASSUME TypeOK
    PROVE  /\ notifyAvailable =>
                /\ messages' # <<>>
                /\ \A i \in 1..Len(messages') :
                      messages'[i] = "Wakeup" \/ (i \in 1..Len(messages) /\ messages'[i] = messages[i])
           /\ \A cmd : Enqueue(cmd) =>
                /\ messages' # <<>>
                /\ \A i \in 1..Len(messages') :
                      messages'[i] = cmd \/ (i \in 1..Len(messages) /\ messages'[i] = messages[i])
  <1>1. /\ messages \in Seq({"Wakeup", "Exit", "PausePreSnapshot", "ResumePostSnapshot"})
        /\ Len(messages) \in Nat /\ Len(messages) =< Capacity /\ Capacity \in Nat \ {0}
    BY SeqFacts, LimitFacts
  <1>2. Len(messages) >= Capacity => messages # <<>>
    BY <1>1
  <1>3. ASSUME NEW m
        PROVE  /\ Append(messages, m) # <<>>
               /\ \A i \in 1..Len(Append(messages, m)) :
                     Append(messages, m)[i] = m
                     \/ (i \in 1..Len(messages) /\ Append(messages, m)[i] = messages[i])
    BY <1>1
  <1>4. ASSUME notifyAvailable
        PROVE  /\ messages' # <<>>
               /\ \A i \in 1..Len(messages') :
                     messages'[i] = "Wakeup" \/ (i \in 1..Len(messages) /\ messages'[i] = messages[i])
    <2>1. CASE Len(messages) < Capacity
      <3>1. messages' = Append(messages, "Wakeup")
        BY <1>4, <2>1 DEF notifyAvailable
      <3> QED BY <1>3, <3>1
    <2>2. CASE ~(Len(messages) < Capacity)
      <3>1. messages' = messages
        BY <1>4, <2>2 DEF notifyAvailable
      <3> QED BY <1>1, <1>2, <2>2, <3>1
    <2> QED BY <2>1, <2>2
  <1>5. ASSUME NEW cmd, Enqueue(cmd)
        PROVE  /\ messages' # <<>>
               /\ \A i \in 1..Len(messages') :
                     messages'[i] = cmd \/ (i \in 1..Len(messages) /\ messages'[i] = messages[i])
    BY <1>3, <1>5 DEF Enqueue
  <1> QED BY <1>4, <1>5

LEMMA ExitInvariant ==
    ASSUME TypeOK, ExitInv, [Next]_vars
    PROVE  ExitInv'
  <1> DEFINE Said == \A i \in 1..Len(messages) : messages[i] = "Exit" => exiting
  <1>0. exiting \in BOOLEAN
    BY DEF TypeOK
  <1>1. CASE UNCHANGED vars
    BY <1>1 DEF vars, ExitInv
  <1>2. CASE GuestMove
    <2>1. UNCHANGED <<ctl, exiting, host_state, alive>> /\ alive /\ (gpc = "closed" => gpc' = "closed")
      BY <1>2, GuestFrame DEF GuestMove, GuestStep, Begin, Close, ensureType3Finished,
         ensureType1Finished, Fill, type1Write_room, type1Write_ring, writeFully_chunk, CheckHost,
         NotifyAfter, SetTransferSize, SetTransferMode, speculativeRead, AfterType3, AfterType1, Put
    <2>2. Said'
      BY <1>2, <2>1, GuestEffects, MessageFacts DEF ExitInv
    <2> QED BY <2>1, <2>2 DEF ExitInv
  <1>3. CASE HostStep
    <2>1. UNCHANGED <<ctl, exiting, alive, gpc>>
      BY <1>3, HostFrame
    <2>2. CASE ReceiveCommand
      <3>1. messages # <<>> /\ messages' = Tail(messages)
        BY <2>2 DEF ReceiveCommand
      <3>2. Said'
        BY <2>1, <3>1, SeqFacts DEF ExitInv
      <3>3. host_state' \in {host_state, "CAN_CONSUME"} \/ (host_state' = "EXIT" /\ messages[1] = "Exit")
        BY <2>2 DEF ReceiveCommand
      <3>4. messages[1] = "Exit" => exiting
        BY <3>1, SeqFacts DEF ExitInv
      <3> QED BY <2>1, <3>2, <3>3, <3>4 DEF ExitInv
    <2>3. CASE ~ReceiveCommand
      <3>1. messages' = messages
        BY <1>3, <2>3, HostEffects
      <3>2. host_state' \in {host_state, "CAN_CONSUME", "RENDERING", "NEED_NOTIFY"}
        BY <1>3, <2>3 DEF HostStep, readRaw, DrainReadBuffer, ReturnData, LoopTop, PollToHost,
           PollLarge, type1Read, type1Read_advance, type3Read, type3Read_sub, type3Read_copy,
           Unavailable, onUnavailableRead, commitBuffer, doSnapshotOperation, snapshotOperation, Put
      <3> QED BY <2>1, <3>1, <3>2 DEF ExitInv
    <2> QED BY <2>2, <2>3
  <1>4. CASE saveRingBlocks \/ saveBufferBlocks \/ save \/ resume \/ preSave \/ Crash
    BY <1>4 DEF saveRingBlocks, saveBufferBlocks, save, resume, preSave, Crash, ExitInv
  <1>5. CASE destroy
    BY <1>0, <1>5 DEF destroy, ExitInv
  <1>6. CASE send
    <2>1. /\ ctl \in DOMAIN Command /\ ctl' = AfterSend[ctl] /\ Enqueue(Command[ctl])
          /\ UNCHANGED <<exiting, alive, gpc, host_state>>
      BY <1>6 DEF send
    <2>2. exiting <=> ctl' \in {"setExit", "exit", "destroy", "destroyed"}
      BY <2>1 DEF ExitInv, Command, AfterSend
    <2>3. Command[ctl] = "Exit" => exiting
      BY <2>1 DEF ExitInv, Command
    <2>4. Said'
      BY <2>1, <2>3, MessageFacts DEF ExitInv
    <2> QED BY <2>1, <2>2, <2>4 DEF ExitInv
  <1> QED BY <1>1, <1>2, <1>3, <1>4, <1>5, <1>6, Actors DEF DeviceMove, ControlStep

LEMMA SnapshotInvariant ==
    ASSUME TypeOK, SnapshotInv, [Next]_vars
    PROVE  SnapshotInv'
  <1>0. vmRunning \in BOOLEAN
    BY DEF TypeOK
  <1>1. CASE UNCHANGED vars
    BY <1>1 DEF vars, SnapshotInv, SnapshotComplete
  <1>2. CASE GuestMove
    BY <1>2, GuestFrame DEF SnapshotInv, SnapshotComplete
  <1>3. CASE doSnapshotOperation
    BY <1>3 DEF doSnapshotOperation, SnapshotInv, SnapshotComplete
  <1>4. CASE snapshotOperation
    BY <1>4 DEF snapshotOperation, SnapshotInv, SnapshotComplete
  <1>5. CASE HostStep /\ ~doSnapshotOperation /\ ~snapshotOperation
    <2>1. UNCHANGED <<ctl, vmRunning, state>>
      BY <1>5, HostFrame, HostEffects
    <2>2. /\ hpc \notin {"saving", "paused", "exited", "null"}
          /\ hpc' \notin {"saving", "paused", "exited"}
      BY <1>5 DEF HostStep, readRaw, DrainReadBuffer, ReturnData, LoopTop, PollToHost,
         PollLarge, type1Read, type1Read_advance, type3Read, type3Read_sub, type3Read_copy,
         Unavailable, onUnavailableRead, ReceiveCommand, commitBuffer, Put
    <2> QED BY <2>1, <2>2 DEF SnapshotInv, SnapshotComplete
  <1>6. CASE save
    BY <1>6 DEF save, SnapshotInv, SnapshotComplete
  <1>7. CASE resume
    BY <1>7 DEF resume, SnapshotInv, SnapshotComplete
  <1>8. CASE preSave
    BY <1>8 DEF preSave, SnapshotInv, SnapshotComplete
  <1>9. CASE Crash
    BY <1>9 DEF Crash, SnapshotInv, SnapshotComplete
  <1>10. CASE destroy
    BY <1>10 DEF destroy, SnapshotInv, SnapshotComplete
  <1>11. CASE send
    BY <1>11 DEF send, Command, AfterSend, SnapshotInv, SnapshotComplete
  <1>12. CASE saveRingBlocks
    BY <1>12 DEF saveRingBlocks, SnapshotInv, SnapshotComplete
  <1>13. CASE saveBufferBlocks
    BY <1>13 DEF saveBufferBlocks, SnapshotInv, SnapshotComplete
  <1> QED BY <1>1, <1>2, <1>3, <1>4, <1>5, <1>6, <1>7, <1>8, <1>9, <1>10, <1>11, <1>12, <1>13, Actors
          DEF DeviceMove, ControlStep
-----------------------------------------------------------------------------
(* Slots. *)

(* A slot that holds a command on its way is not the one the next command  *)
(* is built in.                                                            *)
LEMMA SlotInUse ==
    ASSUME TypeOK, RingsInv, SlotsInv, gsent = 0, NEW k \in 1..Len(toHost)
    PROVE  toHost[k].slot # writeStart
  <1>n. Len(toHost) \in Nat /\ Len(toHost) < Slots /\ Slots \in Nat \ {0} /\ writeStart \in 0..(Slots - 1)
    BY SeqFacts, SizeFacts, NumberFacts DEF RingsInv
  <1> DEFINE a == writeStart - Len(toHost) + k - 1
  <1>1. NextSlot = writeStart
    BY DEF NextSlot
  <1>2. toHost[k].slot = a % Slots
    BY <1>1 DEF SlotsInv
  <1>3. a \in Int /\ writeStart \in Int /\ a < writeStart /\ writeStart < a + Slots
    BY <1>n
  <1> HIDE DEF a
  <1>4. a % Slots # writeStart % Slots
    BY <1>n, <1>3, ModDistinct
  <1>5. writeStart % Slots = writeStart
    BY <1>n, ModSmall
  <1> QED BY <1>2, <1>4, <1>5

(* Which steps change where the next command goes. *)
LEMMA NextSlotFrame ==
    ASSUME TypeOK, GuestInv, GuestMove
    PROVE  type1Write_ring \/ (NotifyAfter /\ gop.kind = "commit") \/ NextSlot' = NextSlot
  <1> USE DEF NextSlot
  <1>1. CASE \E o \in Ops : Begin(o)
    BY <1>1 DEF Begin, GuestInv
  <1>2. CASE Close \/ ensureType3Finished \/ ensureType1Finished \/ type1Write_room \/ CheckHost
             \/ SetTransferSize \/ speculativeRead
    BY <1>2 DEF Close, ensureType3Finished, ensureType1Finished, type1Write_room, CheckHost,
                SetTransferSize, speculativeRead
  <1>3. CASE Fill
    BY <1>3 DEF Fill, Put
  <1>4. CASE writeFully_chunk
    BY <1>4 DEF writeFully_chunk, Put
  <1>5. CASE NotifyAfter /\ gop.kind # "commit"
    BY <1>5 DEF NotifyAfter
  <1>6. CASE SetTransferMode
    BY <1>6, RestingFacts, OpFacts DEF SetTransferMode, Finish, NoOp
  <1> QED BY <1>1, <1>2, <1>3, <1>4, <1>5, <1>6 DEF GuestMove, GuestStep

LEMMA SlotsInvariant ==
    ASSUME TypeOK, GuestInv, WaitedInv, HostInv, SlotsInv, [Next]_vars
    PROVE  SlotsInv'
  <1>m. writeStart \in 0..(Slots - 1) /\ writeStart \in Nat /\ gop.size \in Nat /\ gsent \in Nat
    BY NumberFacts, OpFacts
  <1>n. /\ Len(toHost) \in Nat /\ Slots \in Nat \ {0} /\ writeStart \in 0..(Slots - 1)
        /\ NextSlot \in Nat /\ gop.size \in Nat /\ gsent \in Nat
        /\ toHost \in Seq([slot : 0..(Slots - 1), size : 1..FlushInterval])
    BY <1>m, SeqFacts, SizeFacts DEF NextSlot
  <1>1. CASE UNCHANGED toHost /\ NextSlot' = NextSlot
    BY <1>1 DEF SlotsInv
  <1>2. CASE type1Write_ring
    <2>1. gsent = 0 /\ gop.size > 0 /\ gop.kind = "commit" /\ NextSlot = writeStart
      BY <1>2, RestingFacts, OpFacts DEF type1Write_ring, GuestInv, NextSlot
    <2>2. CASE UNCHANGED <<toHost, gsent>>
      <3>1. NextSlot' = NextSlot
        BY <1>2, <2>2 DEF type1Write_ring, NextSlot
      <3> QED BY <1>1, <2>2, <3>1
    <2>3. CASE ~UNCHANGED <<toHost, gsent>>
      <3>1. toHost' = Append(toHost, [slot |-> writeStart, size |-> gop.size]) /\ gsent' = gop.size
        BY <1>2, <2>3 DEF type1Write_ring
      <3>2. NextSlot' = writeStart + 1
        BY <1>2, <2>1, <3>1 DEF type1Write_ring, NextSlot
      <3>3. Len(toHost') = Len(toHost) + 1
        BY <1>n, <3>1
      <3>4. ASSUME NEW k \in 1..Len(toHost')
            PROVE  toHost'[k].slot = (NextSlot' - Len(toHost') + k - 1) % Slots
        <4>1. CASE k =< Len(toHost)
          <5>1. toHost'[k] = toHost[k] /\ k \in 1..Len(toHost)
            BY <1>n, <3>1, <3>3, <3>4, <4>1
          <5>2. toHost[k].slot = (writeStart - Len(toHost) + k - 1) % Slots
            BY <2>1, <5>1 DEF SlotsInv
          <5>3. writeStart - Len(toHost) + k - 1 = NextSlot' - Len(toHost') + k - 1
            BY <1>n, <3>2, <3>3, <3>4
          <5> QED BY <5>1, <5>2, <5>3
        <4>2. CASE k = Len(toHost) + 1
          <5>1. toHost'[k].slot = writeStart
            BY <1>n, <3>1, <4>2
          <5>2. NextSlot' - Len(toHost') + k - 1 = writeStart
            BY <1>n, <3>2, <3>3, <4>2
          <5>3. writeStart % Slots = writeStart
            BY <1>n, ModSmall
          <5> QED BY <5>1, <5>2, <5>3
        <4> QED BY <1>n, <3>3, <3>4, <4>1, <4>2
      <3> QED BY <3>4 DEF SlotsInv
    <2> QED BY <2>2, <2>3
  <1>3. CASE NotifyAfter /\ gop.kind = "commit"
    <2>1. gsent = gop.size /\ gop.size > 0 /\ NextSlot = writeStart + 1
      BY <1>3, RestingFacts, OpFacts DEF NotifyAfter, GuestInv, NextSlot
    <2>2. toHost' = toHost /\ writeStart' = (writeStart + 1) % Slots /\ gsent' = 0
      BY <1>3 DEF NotifyAfter, Finish, advanceWrite
    <2>3. NextSlot' = (writeStart + 1) % Slots
      BY <2>2 DEF NextSlot
    <2>4. ASSUME NEW k \in 1..Len(toHost)
          PROVE  (NextSlot' - Len(toHost) + k - 1) % Slots = (NextSlot - Len(toHost) + k - 1) % Slots
      <3> DEFINE c == k - 1 - Len(toHost)
      <3>1. c \in Int /\ writeStart + 1 \in Int
        BY <1>n
      <3>2. (((writeStart + 1) % Slots) + c) % Slots = (writeStart + 1 + c) % Slots
        BY <1>n, <3>1, ModInner
      <3>3. (writeStart + 1) % Slots \in Int
        BY <1>n, <3>1, DivMod
      <3>4. /\ NextSlot' - Len(toHost) + k - 1 = ((writeStart + 1) % Slots) + c
            /\ NextSlot - Len(toHost) + k - 1 = writeStart + 1 + c
        BY <1>n, <2>1, <2>3, <3>3
      <3> QED BY <3>2, <3>4
    <2> QED BY <2>2, <2>4 DEF SlotsInv
  <1>4. CASE type1Read_advance
    <2>1. /\ toHost # <<>> /\ toHost' = Tail(toHost)
          /\ UNCHANGED <<gop, gsent, writeStart>>
      BY <1>4 DEF type1Read_advance, HostInv
    <2>2. NextSlot' = NextSlot
      BY <2>1 DEF NextSlot
    <2>3. Len(toHost') = Len(toHost) - 1
      BY <1>n, <2>1
    <2>4. ASSUME NEW k \in 1..Len(toHost')
          PROVE  toHost'[k].slot = (NextSlot' - Len(toHost') + k - 1) % Slots
      <3>1. toHost'[k] = toHost[k + 1] /\ k + 1 \in 1..Len(toHost)
        BY <1>n, <2>1, <2>3
      <3>2. NextSlot - Len(toHost) + (k + 1) - 1 = NextSlot' - Len(toHost') + k - 1
        BY <1>n, <2>2, <2>3
      <3> QED BY <3>1, <3>2 DEF SlotsInv
    <2> QED BY <2>4 DEF SlotsInv
  <1>5. CASE GuestMove
    BY <1>1, <1>2, <1>3, <1>5, GuestEffects, NextSlotFrame
  <1>6. CASE HostStep
    BY <1>1, <1>4, <1>6, HostFrame, HostEffects DEF NextSlot
  <1>7. CASE DeviceMove \/ UNCHANGED vars
    BY <1>1, <1>7, DeviceFrame DEF vars, NextSlot
  <1> QED BY <1>5, <1>6, <1>7, Actors
-----------------------------------------------------------------------------
(* The stream. *)

LEMMA ElementOf ==
    ASSUME NEW S, NEW s \in Seq(S), NEW k \in 1..Len(s)
    PROVE  s[k] \in S
  OBVIOUS

LEMMA ConcatFacts ==
    ASSUME NEW s \in Seq(Int), NEW t \in Seq(Int)
    PROVE  /\ s \o t \in Seq(Int) /\ Len(s \o t) = Len(s) + Len(t)
           /\ \A k \in 1..Len(s) : (s \o t)[k] = s[k]
           /\ \A k \in (Len(s) + 1)..(Len(s) + Len(t)) : (s \o t)[k] = t[k - Len(s)]
  OBVIOUS

LEMMA SplitFacts ==
    ASSUME NEW s \in Seq(Int), NEW n \in 0..Len(s)
    PROVE  /\ SubSeq(s, 1, n) \in Seq(Int) /\ Len(SubSeq(s, 1, n)) = n
           /\ \A k \in 1..n : SubSeq(s, 1, n)[k] = s[k]
           /\ SubSeq(s, n + 1, Len(s)) \in Seq(Int) /\ Len(SubSeq(s, n + 1, Len(s))) = Len(s) - n
           /\ \A k \in 1..(Len(s) - n) : SubSeq(s, n + 1, Len(s))[k] = s[n + k]
  <1>1. Len(s) \in Nat /\ n \in Nat /\ n =< Len(s)
    OBVIOUS
  <1>2. /\ SubSeq(s, 1, n) \in Seq(Int) /\ Len(SubSeq(s, 1, n)) = n
        /\ \A k \in 1..n : SubSeq(s, 1, n)[k] = s[k]
    BY <1>1
  <1>3. /\ SubSeq(s, n + 1, Len(s)) \in Seq(Int) /\ Len(SubSeq(s, n + 1, Len(s))) = Len(s) - n
        /\ \A k \in 1..(Len(s) - n) : SubSeq(s, n + 1, Len(s))[k] = s[n + k]
    BY <1>1
  <1> QED BY <1>2, <1>3

LEMMA TakeFacts ==
    ASSUME TypeOK, NEW p \in Nat, NEW n \in Nat
    PROVE  /\ Take(p, n) \in Seq(Int) /\ Len(Take(p, n)) = n
           /\ \A i \in 1..n : Take(p, n)[i] = buffer[(p + i - 1) % BufferSize]
  <1>1. ASSUME NEW i \in 1..n PROVE buffer[(p + i - 1) % BufferSize] \in Int
    <2>1. (p + i - 1) % BufferSize \in 0..(BufferSize - 1)
      BY SizeFacts, DivMod
    <2> QED BY <2>1 DEF TypeOK
  <1> QED BY <1>1 DEF Take

(* A command in its slot does not wrap. *)
LEMMA TakeSlot ==
    ASSUME TypeOK, NEW k \in 1..Len(toHost)
    PROVE  LET s == toHost[k].slot * FlushInterval
               t == Take(s, toHost[k].size)
           IN  /\ toHost[k].size \in 1..FlushInterval /\ s \in Nat
               /\ t \in Seq(Int) /\ Len(t) = toHost[k].size
               /\ \A i \in 1..toHost[k].size : t[i] = buffer[s + (i - 1)]
  <1> DEFINE s == toHost[k].slot * FlushInterval
             n == toHost[k].size
             t == Take(s, n)
  <1>0. toHost \in Seq([slot : 0..(Slots - 1), size : 1..FlushInterval])
    BY SeqFacts
  <1>1. toHost[k].slot \in 0..(Slots - 1) /\ n \in 1..FlushInterval /\ n \in Nat
    <2>1. toHost[k] \in [slot : 0..(Slots - 1), size : 1..FlushInterval]
      BY <1>0, ElementOf
    <2>2. toHost[k].slot \in 0..(Slots - 1) /\ toHost[k].size \in 1..FlushInterval
      BY <2>1
    <2> QED BY <2>2, SizeFacts
  <1>2. 0 \in 0..(FlushInterval - 1) /\ BufferSize \in Nat \ {0} /\ FlushInterval \in Nat
    BY SizeFacts
  <1>3. s \in Nat
    BY <1>1, <1>2, SlotPosition
  <1>4. t \in Seq(Int) /\ Len(t) = n /\ \A i \in 1..n : t[i] = buffer[(s + i - 1) % BufferSize]
    BY <1>1, <1>3, TakeFacts
  <1>5. ASSUME NEW i \in 1..n PROVE (s + i - 1) % BufferSize = s + (i - 1)
    <2>1. i - 1 \in 0..(FlushInterval - 1)
      BY <1>1, <1>2
    <2>2. s + (i - 1) \in 0..(BufferSize - 1)
      BY <1>1, <2>1, SlotPosition
    <2> HIDE DEF s
    <2>3. s + (i - 1) = s + i - 1
      BY <1>1, <1>2, <1>3
    <2> QED BY <1>2, <2>2, <2>3, ModSmall
  <1> QED BY <1>1, <1>3, <1>4, <1>5

(* The first n units of readBuffer move to the end of dst. *)
LEMMA DrainStep ==
    ASSUME TypeOK, DrainReadBuffer
    PROVE  \E n \in Nat :
             /\ n =< Len(readBuffer) /\ received' = received
             /\ Len(dst') = Len(dst) + n /\ Len(readBuffer') = Len(readBuffer) - n
             /\ \A k \in 1..Len(dst) : dst'[k] = dst[k]
             /\ \A k \in (Len(dst) + 1)..(Len(dst) + n) : dst'[k] = readBuffer[k - Len(dst)]
             /\ \A k \in 1..Len(readBuffer') : readBuffer'[k] = readBuffer[n + k]
  <1>n. /\ dst \in Seq(Int) /\ Len(dst) \in Nat
        /\ readBuffer \in Seq(Int) /\ Len(readBuffer) \in Nat
    BY SeqFacts
  <1> DEFINE n == AtMost(Len(readBuffer), wanted - Len(dst))
  <1>1. n \in Nat /\ n =< Len(readBuffer)
    <2>1. wanted \in Nat /\ Len(dst) < wanted
      BY NumberFacts DEF DrainReadBuffer
    <2> QED BY <1>n, <2>1 DEF AtMost
  <1>2. /\ dst' = dst \o SubSeq(readBuffer, 1, n)
        /\ readBuffer' = SubSeq(readBuffer, n + 1, Len(readBuffer))
        /\ received' = received
    BY DEF DrainReadBuffer
  <1> HIDE DEF n
  <1>3. /\ Len(dst') = Len(dst) + n /\ Len(readBuffer') = Len(readBuffer) - n
        /\ \A k \in 1..Len(dst) : dst'[k] = dst[k]
        /\ \A k \in (Len(dst) + 1)..(Len(dst) + n) : dst'[k] = readBuffer[k - Len(dst)]
        /\ \A k \in 1..Len(readBuffer') : readBuffer'[k] = readBuffer[n + k]
    <2> DEFINE a == SubSeq(readBuffer, 1, n)
               b == SubSeq(readBuffer, n + 1, Len(readBuffer))
    <2>1. /\ a \in Seq(Int) /\ Len(a) = n /\ \A k \in 1..n : a[k] = readBuffer[k]
          /\ Len(b) = Len(readBuffer) - n
          /\ \A k \in 1..(Len(readBuffer) - n) : b[k] = readBuffer[n + k]
      <3>1. n \in 0..Len(readBuffer)
        BY <1>n, <1>1
      <3> QED BY <1>n, <3>1, SplitFacts
    <2> HIDE DEF a, b
    <2>2. /\ Len(dst \o a) = Len(dst) + n
          /\ \A k \in 1..Len(dst) : (dst \o a)[k] = dst[k]
          /\ \A k \in (Len(dst) + 1)..(Len(dst) + n) : (dst \o a)[k] = a[k - Len(dst)]
      BY <1>n, <2>1, ConcatFacts
    <2>3. \A k \in (Len(dst) + 1)..(Len(dst) + n) : k - Len(dst) \in 1..n
      BY <1>n, <1>1
    <2>4. dst' = dst \o a /\ readBuffer' = b
      BY <1>2 DEF a, b
    <2> QED BY <2>1, <2>2, <2>3, <2>4
  <1> QED BY <1>1, <1>2, <1>3

(* The first command goes whole to one of the two. *)
LEMMA Type1Step ==
    ASSUME TypeOK, WaitedInv, HostInv, TransferInv, type1Read
    PROVE  LET t == Take(toHost[1].slot * FlushInterval, toHost[1].size)
           IN  /\ hpc = "type1" /\ hpc' = "advance" /\ 1 \in 1..Len(toHost)
               /\ dst = <<>> /\ readBuffer = <<>>
               /\ UNCHANGED <<received, toHost, buffer, largeW, largeR, sent, gsent>>
               /\ (dst' = t /\ readBuffer' = readBuffer) \/ (dst' = dst /\ readBuffer' = t)
               /\ Copied' = Copied + toHost[1].size
  <1>1. transfer_mode = 1 /\ toHost # <<>> /\ dst = <<>> /\ readBuffer = <<>> /\ hpc = "type1"
    BY NumberFacts DEF type1Read, HostInv, TransferInv, WaitedInv
  <1> DEFINE t == Take(toHost[1].slot * FlushInterval, toHost[1].size)
  <1>2. 1 \in 1..Len(toHost)
    BY <1>1, SeqFacts
  <1>3. Len(t) = toHost[1].size /\ toHost[1].size \in Nat
    BY <1>2, SizeFacts, TakeSlot
  <1>4. (dst' = t /\ readBuffer' = readBuffer) \/ (dst' = dst /\ readBuffer' = t)
    <2>1. CASE toHost[1].size =< wanted
      <3>1. ~(toHost[1].size > wanted)
        BY <1>3, <2>1, NumberFacts
      <3> QED BY <1>1, <2>1, <3>1 DEF type1Read
    <2>2. CASE ~(toHost[1].size =< wanted)
      <3>1. toHost[1].size > wanted
        BY <1>3, <2>2, NumberFacts
      <3> QED BY <1>1, <2>2, <3>1 DEF type1Read
    <2> QED BY <2>1, <2>2
  <1>5. /\ hpc' = "advance"
        /\ UNCHANGED <<received, toHost, buffer, largeW, largeR, sent, gsent>>
    BY <1>1 DEF type1Read
  <1> HIDE DEF t
  <1>6. Copied' = Copied + toHost[1].size
    <2>1. Len(dst) = 0 /\ Len(readBuffer) = 0 /\ Len(received) \in Nat /\ received' = received
      BY <1>1, <1>5, SeqFacts
    <2> QED BY <1>3, <1>4, <2>1 DEF Copied
  <1> QED BY <1>1, <1>2, <1>4, <1>5, <1>6 DEF t

LEMMA DecodedInvariant ==
    ASSUME TypeOK, WaitedInv, RingsInv, HostInv, TransferInv, DecodedInv, SmallInv, LargeInv,
           [Next]_vars
    PROVE  DecodedInv'
  <1>n. /\ received \in Seq(Int) /\ Len(received) \in Nat
        /\ dst \in Seq(Int) /\ Len(dst) \in Nat
        /\ readBuffer \in Seq(Int) /\ Len(readBuffer) \in Nat
    BY SeqFacts
  <1>1. CASE UNCHANGED <<received, dst, readBuffer>>
    BY <1>1 DEF DecodedInv
  <1>2. CASE DrainReadBuffer
    <2>1. PICK n \in Nat :
             /\ n =< Len(readBuffer) /\ received' = received
             /\ Len(dst') = Len(dst) + n /\ Len(readBuffer') = Len(readBuffer) - n
             /\ \A k \in 1..Len(dst) : dst'[k] = dst[k]
             /\ \A k \in (Len(dst) + 1)..(Len(dst) + n) : dst'[k] = readBuffer[k - Len(dst)]
             /\ \A k \in 1..Len(readBuffer') : readBuffer'[k] = readBuffer[n + k]
      BY <1>2, DrainStep
    <2>2. received' = received
      BY <2>1
    <2>3. /\ Len(dst') = Len(dst) + n /\ Len(readBuffer') = Len(readBuffer) - n
          /\ \A k \in 1..Len(dst) : dst'[k] = dst[k]
          /\ \A k \in (Len(dst) + 1)..(Len(dst) + n) : dst'[k] = readBuffer[k - Len(dst)]
          /\ \A k \in 1..Len(readBuffer') : readBuffer'[k] = readBuffer[n + k]
      BY <2>1
    <2>4. ASSUME NEW k \in 1..Len(dst') PROVE dst'[k] = Len(received') + k
      <3>1. CASE k =< Len(dst)
        BY <1>n, <2>1, <2>2, <2>3, <3>1 DEF DecodedInv
      <3>2. CASE k > Len(dst)
        <4>1. k - Len(dst) \in 1..Len(readBuffer) /\ k \in (Len(dst) + 1)..(Len(dst) + n)
          BY <1>n, <2>1, <2>3, <3>2
        <4>2. dst'[k] = readBuffer[k - Len(dst)]
          BY <2>3, <4>1
        <4>3. readBuffer[k - Len(dst)] = Len(received) + Len(dst) + (k - Len(dst))
          BY <4>1 DEF DecodedInv
        <4>4. received' = received
          BY <2>2
        <4> QED BY <1>n, <2>1, <2>3, <4>2, <4>3, <4>4
      <3> QED BY <1>n, <2>1, <2>3, <3>1, <3>2
    <2>5. ASSUME NEW k \in 1..Len(readBuffer')
          PROVE  readBuffer'[k] = Len(received') + Len(dst') + k
      <3>1. n + k \in 1..Len(readBuffer) /\ readBuffer'[k] = readBuffer[n + k]
        BY <1>n, <2>1, <2>3
      <3>2. readBuffer[n + k] = Len(received) + Len(dst) + (n + k)
        BY <3>1 DEF DecodedInv
      <3>3. received' = received
        BY <2>2
      <3> QED BY <1>n, <2>1, <2>3, <3>1, <3>2, <3>3
    <2> QED BY <2>2, <2>4, <2>5 DEF DecodedInv
  <1>3. CASE ReturnData
    <2>1. received' = received \o dst /\ dst' = <<>> /\ readBuffer' = readBuffer
      BY <1>3 DEF ReturnData
    <2>2. /\ Len(received') = Len(received) + Len(dst)
          /\ \A k \in 1..Len(received) : received'[k] = received[k]
          /\ \A k \in (Len(received) + 1)..(Len(received) + Len(dst)) :
                received'[k] = dst[k - Len(received)]
      BY <1>n, <2>1, ConcatFacts
    <2>3. ASSUME NEW k \in 1..Len(received') PROVE received'[k] = k
      <3>1. CASE k =< Len(received)
        BY <1>n, <2>2, <3>1 DEF DecodedInv
      <3>2. CASE k > Len(received)
        <4>1. /\ k - Len(received) \in 1..Len(dst)
              /\ k \in (Len(received) + 1)..(Len(received) + Len(dst))
          BY <1>n, <2>2, <3>2
        <4>2. received'[k] = dst[k - Len(received)]
          BY <2>2, <4>1
        <4>3. dst[k - Len(received)] = Len(received) + (k - Len(received))
          BY <4>1 DEF DecodedInv
        <4> QED BY <1>n, <2>2, <4>2, <4>3
      <3> QED BY <1>n, <2>2, <3>1, <3>2
    <2>4. Len(dst') = 0
      BY <2>1
    <2>5. ASSUME NEW k \in 1..Len(readBuffer')
          PROVE  readBuffer'[k] = Len(received') + Len(dst') + k
      BY <1>n, <2>1, <2>2, <2>4 DEF DecodedInv
    <2> QED BY <2>3, <2>4, <2>5 DEF DecodedInv
  <1>4. CASE type1Read
    <2> DEFINE s == toHost[1].slot * FlushInterval
               t == Take(s, toHost[1].size)
    <2>1. /\ dst = <<>> /\ readBuffer = <<>> /\ hpc = "type1" /\ 1 \in 1..Len(toHost)
          /\ received' = received
          /\ (dst' = t /\ readBuffer' = readBuffer) \/ (dst' = dst /\ readBuffer' = t)
      BY <1>4, Type1Step
    <2>2. 1 \in 1..Len(toHost) /\ First = 1 /\ First =< Len(toHost)
      BY <2>1, SeqFacts DEF First
    <2>3. /\ t \in Seq(Int) /\ Len(t) = toHost[1].size /\ toHost[1].size \in Nat
          /\ \A i \in 1..toHost[1].size : t[i] = buffer[s + (i - 1)]
      BY <2>2, SizeFacts, TakeSlot
    <2>4. received' = received /\ \/ dst' = t /\ readBuffer' = readBuffer
                                  \/ dst' = dst /\ readBuffer' = t
      BY <2>1
    <2>5. Start(1) = Len(received) + 1
      BY <1>n, <2>1, <2>2 DEF SmallInv, Copied
    <2>6. ASSUME NEW i \in 1..toHost[1].size PROVE t[i] = Len(received) + i
      <3>1. i - 1 \in 0..(toHost[1].size - 1)
        BY <2>3
      <3>2. buffer[s + (i - 1)] = Start(1) + (i - 1)
        BY <2>2, <3>1 DEF SmallInv
      <3> QED BY <1>n, <2>3, <2>5, <3>2
    <2> HIDE DEF s, t
    <2>7. CASE dst' = t /\ readBuffer' = readBuffer
      BY <2>1, <2>3, <2>4, <2>6, <2>7 DEF DecodedInv
    <2>8. CASE dst' = dst /\ readBuffer' = t
      <3>1. Len(dst') = 0 /\ Len(readBuffer') = toHost[1].size
        BY <2>1, <2>3, <2>8
      <3>2. ASSUME NEW k \in 1..Len(readBuffer')
            PROVE  readBuffer'[k] = Len(received') + Len(dst') + k
        BY <1>n, <2>3, <2>4, <2>6, <2>8, <3>1
      <3> QED BY <2>4, <3>1, <3>2 DEF DecodedInv
    <2> QED BY <2>4, <2>7, <2>8
  <1>5. CASE type3Read_copy
    <2>1. PICK n \in Nat : /\ n =< largeW - largeR /\ dst' = dst \o Take(largeR, n)
                           /\ UNCHANGED <<readBuffer, received>> /\ hpc = "type3copy"
      BY <1>5, CopyStep
    <2>2. readBuffer = <<>> /\ largeR \in Nat /\ largeW \in Nat
      BY <2>1, NumberFacts DEF HostInv
    <2>3. /\ Take(largeR, n) \in Seq(Int) /\ Len(Take(largeR, n)) = n
          /\ \A i \in 1..n : Take(largeR, n)[i] = buffer[(largeR + i - 1) % BufferSize]
      BY <2>2, TakeFacts
    <2>4. /\ Len(dst') = Len(dst) + n
          /\ \A k \in 1..Len(dst) : dst'[k] = dst[k]
          /\ \A k \in (Len(dst) + 1)..(Len(dst) + n) : dst'[k] = Take(largeR, n)[k - Len(dst)]
      BY <1>n, <2>1, <2>3, ConcatFacts
    <2>5. ASSUME NEW k \in 1..Len(dst') PROVE dst'[k] = Len(received') + k
      <3>1. CASE k =< Len(dst)
        BY <1>n, <2>1, <2>4, <3>1 DEF DecodedInv
      <3>2. CASE k > Len(dst)
        <4> DEFINE j == k - Len(dst) - 1
        <4>1. /\ k - Len(dst) \in 1..n /\ k \in (Len(dst) + 1)..(Len(dst) + n)
              /\ j \in 0..(largeW - largeR - 1) /\ largeR + (k - Len(dst)) - 1 = largeR + j
          BY <1>n, <2>1, <2>2, <2>4, <3>2
        <4>2. dst'[k] = buffer[(largeR + (k - Len(dst)) - 1) % BufferSize]
          BY <2>3, <2>4, <4>1
        <4>3. buffer[(largeR + j) % BufferSize] = Copied + j + 1
          BY <4>1 DEF LargeInv
        <4>4. Copied + j + 1 = Len(received) + k
          BY <1>n, <2>2, <2>4 DEF Copied
        <4> QED BY <2>1, <4>1, <4>2, <4>3, <4>4
      <3> QED BY <1>n, <2>4, <3>1, <3>2
    <2>6. Len(readBuffer') = 0
      BY <2>1, <2>2
    <2> QED BY <2>1, <2>5, <2>6 DEF DecodedInv
  <1>6. CASE HostStep
    <2>1. \/ DrainReadBuffer \/ ReturnData \/ type1Read \/ type3Read_copy
          \/ UNCHANGED <<received, dst, readBuffer>>
      BY <1>6 DEF HostStep, readRaw, LoopTop, PollToHost, PollLarge, type1Read_advance, type3Read,
         type3Read_sub, Unavailable, onUnavailableRead, ReceiveCommand, commitBuffer,
         doSnapshotOperation, snapshotOperation, Put
    <2> QED BY <1>1, <1>2, <1>3, <1>4, <1>5, <2>1
  <1>7. CASE GuestMove \/ DeviceMove \/ UNCHANGED vars
    BY <1>1, <1>7, GuestFrame, DeviceFrame DEF vars
  <1> QED BY <1>6, <1>7, Actors

(* Types of the descriptors. *)
LEMMA DescriptorFacts ==
    ASSUME TypeOK, NEW k \in 1..Len(toHost)
    PROVE  /\ toHost[k].slot \in 0..(Slots - 1)
           /\ toHost[k].size \in 1..FlushInterval /\ toHost[k].size \in Nat /\ toHost[k].size >= 1
           /\ toHost[k].slot * FlushInterval \in Nat /\ Start(k) \in Int
           /\ \A j \in 0..(toHost[k].size - 1) : j \in 0..(FlushInterval - 1)
  <1>0. toHost \in Seq([slot : 0..(Slots - 1), size : 1..FlushInterval])
    BY SeqFacts
  <1>1. toHost[k] \in [slot : 0..(Slots - 1), size : 1..FlushInterval]
    BY <1>0, ElementOf
  <1>2. toHost[k].slot \in 0..(Slots - 1) /\ toHost[k].size \in 1..FlushInterval
    BY <1>1
  <1>3. FlushInterval \in Nat /\ 0 \in 0..(FlushInterval - 1)
    BY SizeFacts
  <1>4. /\ toHost[k].slot * FlushInterval \in Nat
        /\ toHost[k].slot * FlushInterval + 0 \in 0..(BufferSize - 1)
    BY <1>2, <1>3, SlotPosition
  <1>5. Start(k) \in Int
    <2>1. toHost[k].slot * FlushInterval \in 0..(BufferSize - 1)
      BY <1>4
    <2> QED BY <2>1 DEF TypeOK, Start
  <1> QED BY <1>2, <1>3, <1>4, <1>5

LEMMA CopiedFacts ==
    ASSUME TypeOK
    PROVE  /\ Copied \in Nat /\ First \in {1, 2} /\ Len(toHost) \in Nat
           /\ sent \in Nat /\ gsent \in Nat /\ largeW \in Nat /\ largeR \in Nat
  BY SeqFacts, OpFacts, NumberFacts DEF Copied, First

(* What SmallInv speaks of. *)
LEMMA SmallFrame ==
    ASSUME TypeOK, SmallInv, toHost' = toHost, First' = First, Copied' = Copied,
           sent' + gsent' = sent + gsent,
           \A k \in First..Len(toHost) : \A j \in 0..(toHost[k].size - 1) :
              buffer'[toHost[k].slot * FlushInterval + j] = buffer[toHost[k].slot * FlushInterval + j]
    PROVE  SmallInv'
  <1>n. /\ Copied \in Nat /\ First \in {1, 2} /\ Len(toHost) \in Nat
        /\ sent \in Nat /\ gsent \in Nat
    BY CopiedFacts
  <1>1. ASSUME NEW k \in First..Len(toHost) PROVE Start(k)' = Start(k)
    <2>1. k \in 1..Len(toHost)
      BY <1>n
    <2>2. 0 \in 0..(toHost[k].size - 1) /\ toHost[k].slot * FlushInterval \in Nat
      BY <2>1, DescriptorFacts
    <2>3. toHost[k].slot * FlushInterval + 0 = toHost[k].slot * FlushInterval
      BY <2>2
    <2>4. buffer'[toHost[k].slot * FlushInterval + 0] = buffer[toHost[k].slot * FlushInterval + 0]
      BY <1>1, <2>2
    <2> QED BY <2>3, <2>4 DEF Start
  <1>2. First =< Len(toHost) => First \in First..Len(toHost) /\ Len(toHost) \in First..Len(toHost)
    BY <1>n
  <1>3. \A k \in (First + 1)..Len(toHost) : k \in First..Len(toHost) /\ k - 1 \in First..Len(toHost)
    BY <1>n
  <1>4. ASSUME NEW k \in First..Len(toHost), NEW j \in 0..(toHost[k].size - 1)
        PROVE  buffer'[toHost[k].slot * FlushInterval + j] = Start(k)' + j
    BY <1>1, <1>4 DEF SmallInv
  <1>5. First =< Len(toHost) =>
           /\ Start(First)' = Copied + 1
           /\ Start(Len(toHost))' + toHost[Len(toHost)].size = sent' + gsent' + 1
    BY <1>1, <1>2 DEF SmallInv
  <1>6. \A k \in (First + 1)..Len(toHost) : Start(k)' = Start(k - 1)' + toHost[k - 1].size
    BY <1>1, <1>3 DEF SmallInv
  <1>7. \A k, l \in First..Len(toHost) : k < l => Start(k)' + toHost[k].size =< Start(l)'
    BY <1>1 DEF SmallInv
  <1> QED BY <1>4, <1>5, <1>6, <1>7 DEF SmallInv

LEMMA LargeFrame ==
    ASSUME LargeInv, UNCHANGED <<toHost, buffer, largeW, largeR>>, First' = First,
           Copied' = Copied, sent' + gsent' = sent + gsent
    PROVE  LargeInv'
  BY DEF LargeInv

(* Which steps touch what the two invariants speak of. *)
LEMMA StreamSteps ==
    ASSUME TypeOK, GuestInv, WaitedInv, [Next]_vars
    PROVE  \/ Fill \/ type1Write_ring \/ writeFully_chunk
           \/ type1Read \/ type1Read_advance \/ type3Read_copy \/ commitBuffer
           \/ /\ UNCHANGED <<toHost, buffer, largeW, largeR>> /\ First' = First
              /\ Copied' = Copied /\ sent' + gsent' = sent + gsent
  <1>1. CASE GuestMove
    <2>1. UNCHANGED <<largeR, hpc, received, dst, readBuffer>>
      BY <1>1, GuestFrame
    <2>2. CASE Fill \/ type1Write_ring \/ writeFully_chunk
      BY <2>2
    <2>3. CASE (NotifyAfter /\ gop.kind = "commit") \/ SetTransferMode
      <3>1. UNCHANGED <<sent, gsent>> \/ (sent' = sent + gop.size /\ gsent' = 0 /\ gsent = gop.size)
        BY <2>3 DEF NotifyAfter, SetTransferMode, Finish, GuestInv
      <3>2. sent' + gsent' = sent + gsent
        BY <3>1, OpFacts
      <3>3. UNCHANGED <<toHost, buffer, largeW>>
        BY <2>3 DEF NotifyAfter, SetTransferMode
      <3> QED BY <2>1, <3>2, <3>3 DEF First, Copied
    <2>4. CASE (\E o \in Ops : Begin(o)) \/ Close \/ ensureType3Finished \/ ensureType1Finished
               \/ type1Write_room \/ CheckHost \/ (NotifyAfter /\ gop.kind # "commit")
               \/ SetTransferSize \/ speculativeRead
      <3>1. UNCHANGED <<sent, gsent, toHost, buffer, largeW>>
        BY <2>4 DEF Begin, Close, ensureType3Finished, ensureType1Finished, type1Write_room,
           CheckHost, NotifyAfter, SetTransferSize, speculativeRead
      <3> QED BY <2>1, <3>1 DEF First, Copied
    <2> QED BY <1>1, <2>2, <2>3, <2>4 DEF GuestMove, GuestStep
  <1>2. CASE HostStep
    <2>1. UNCHANGED <<largeW, sent, gsent>>
      BY <1>2, HostFrame
    <2>2. CASE DrainReadBuffer
      <3>1. UNCHANGED <<hpc, received, toHost, buffer, largeR>>
        BY <2>2 DEF DrainReadBuffer
      <3>2. Copied' = Copied
        <4>1. PICK n \in Nat : /\ received' = received
                               /\ Len(dst') = Len(dst) + n /\ Len(readBuffer') = Len(readBuffer) - n
          BY <2>2, DrainStep
        <4>2. Len(received) \in Nat /\ Len(dst) \in Nat /\ Len(readBuffer) \in Nat
          BY SeqFacts
        <4> QED BY <4>1, <4>2 DEF Copied
      <3> QED BY <2>1, <3>1, <3>2 DEF First
    <2>3. CASE ReturnData
      <3>1. /\ hpc = "top" /\ hpc' = "render" /\ received' = received \o dst /\ dst' = <<>>
            /\ UNCHANGED <<readBuffer, toHost, buffer, largeR>>
        BY <2>3 DEF ReturnData
      <3>2. Len(received') = Len(received) + Len(dst) /\ Len(dst') = 0
        BY <3>1, SeqFacts, ConcatFacts
      <3>3. Len(received) \in Nat /\ Len(dst) \in Nat /\ Len(readBuffer) \in Nat
        BY SeqFacts
      <3>4. Copied' = Copied
        BY <3>1, <3>2, <3>3 DEF Copied
      <3> QED BY <2>1, <3>1, <3>4 DEF First
    <2>4. CASE ~(DrainReadBuffer \/ ReturnData \/ type1Read \/ type1Read_advance \/ type3Read_copy
                 \/ commitBuffer)
      <3>1. /\ UNCHANGED <<toHost, buffer, largeR, received, dst, readBuffer>>
            /\ hpc # "advance" /\ hpc' # "advance"
        BY <1>2, <2>4 DEF HostStep, readRaw, LoopTop, PollToHost, PollLarge, type3Read,
           type3Read_sub, Unavailable, onUnavailableRead, ReceiveCommand, doSnapshotOperation,
           snapshotOperation
      <3> QED BY <2>1, <3>1 DEF First, Copied
    <2> QED BY <2>2, <2>3, <2>4
  <1>3. CASE DeviceMove \/ UNCHANGED vars
    BY <1>3, DeviceFrame DEF vars, First, Copied
  <1> QED BY <1>1, <1>2, <1>3, Actors

(* The encoder fills the next slot and touches none that is in use. *)
LEMMA FillStep ==
    ASSUME TypeOK, GuestInv, RingsInv, WaitedInv, SlotsInv, Fill
    PROVE  /\ gpc = "fill" /\ gpc' = "commit3" /\ largeW = largeR /\ gsent = 0
           /\ UNCHANGED <<gop, gsent, pinged, nudging, writeStart, sent, callEnd, got, toHost, largeW,
                          largeR, fromW, fromR, host_state, transfer_mode, transfer_size, messages>>
           /\ \A k \in 1..Len(toHost) : \A j \in 0..(FlushInterval - 1) :
                 buffer'[toHost[k].slot * FlushInterval + j] = buffer[toHost[k].slot * FlushInterval + j]
           /\ \A j \in 0..(gop.size - 1) : buffer'[writeStart * FlushInterval + j] = sent + j + 1
  <1>1. /\ gpc = "fill" /\ gpc' = "commit3"
        /\ UNCHANGED <<gop, gsent, pinged, nudging, writeStart, sent, callEnd, got, toHost, largeW,
                       largeR, fromW, fromR, host_state, transfer_mode, transfer_size, messages>>
    BY DEF Fill, Put
  <1>2. largeW = largeR /\ gsent = 0 /\ gop # NoOp /\ gop.kind = "commit"
    BY <1>1, RestingFacts DEF WaitedInv, GuestInv
  <1>3. gop.size \in Nat /\ gop.size =< FlushInterval /\ FlushInterval \in Nat /\ sent \in Nat
    BY <1>2, OpFacts, SizeFacts DEF GuestInv
  <1>4. DOMAIN buffer = 0..(BufferSize - 1) /\ writeStart \in 0..(Slots - 1)
    BY NumberFacts DEF TypeOK
  <1>5. buffer' = [c \in 0..(BufferSize - 1) |->
           IF (c - writeStart * FlushInterval) % BufferSize < gop.size
           THEN sent + ((c - writeStart * FlushInterval) % BufferSize) + 1 ELSE buffer[c]]
    BY <1>4 DEF Fill, Put
  <1>6. ASSUME NEW k \in 1..Len(toHost), NEW j \in 0..(FlushInterval - 1)
        PROVE  buffer'[toHost[k].slot * FlushInterval + j] = buffer[toHost[k].slot * FlushInterval + j]
    <2>1. PICK s \in 0..(Slots - 1), w \in 0..(Slots - 1) :
             s = toHost[k].slot /\ w = writeStart /\ s # w
      BY <1>2, <1>4, DescriptorFacts, SlotInUse
    <2>2. PICK c \in 0..(BufferSize - 1), d \in Int :
             c = s * FlushInterval + j /\ d = s * FlushInterval + j - w * FlushInterval
      BY SlotPosition
    <2>3. d % BufferSize >= FlushInterval /\ d % BufferSize \in Int
      <3>1. d % BufferSize >= FlushInterval
        BY <2>1, <2>2, SlotOffset
      <3>2. d % BufferSize \in 0..(BufferSize - 1)
        BY SizeFacts, DivMod
      <3> QED BY <3>1, <3>2
    <2>4. ~(d % BufferSize < gop.size)
      BY <1>3, <2>3
    <2>5. c - writeStart * FlushInterval = d
      <3>1. PICK a \in Int, e \in Int : a = s * FlushInterval /\ e = w * FlushInterval
        BY SlotPosition
      <3>2. writeStart * FlushInterval = e
        BY <2>1, <3>1
      <3>3. c = a + j /\ d = a + j - e
        BY <2>2, <3>1
      <3> QED BY <3>2, <3>3
    <2> QED BY <1>5, <2>1, <2>2, <2>4, <2>5
  <1>7. ASSUME NEW j \in 0..(gop.size - 1)
        PROVE  buffer'[writeStart * FlushInterval + j] = sent + j + 1
    <2>1. PICK w \in 0..(Slots - 1) : w = writeStart
      BY <1>4
    <2>2. j \in 0..(FlushInterval - 1)
      BY <1>3
    <2>3. PICK c \in 0..(BufferSize - 1), d \in Int :
             c = w * FlushInterval + j /\ d = w * FlushInterval + j - w * FlushInterval
      BY <2>2, SlotPosition
    <2>4. d % BufferSize = j
      BY <2>2, <2>3, SlotOffset
    <2>5. c - writeStart * FlushInterval = d
      BY <1>3, <2>1, <2>3
    <2>6. d % BufferSize < gop.size
      BY <1>3, <2>4
    <2> QED BY <1>5, <2>1, <2>3, <2>4, <2>5, <2>6
  <1> QED BY <1>1, <1>2, <1>6, <1>7

(* A descriptor is added for the command in the next slot, or the guest    *)
(* tries again.                                                            *)
LEMMA RingStep ==
    ASSUME TypeOK, GuestInv, WaitedInv, type1Write_ring
    PROVE  /\ gpc = "write" /\ gpc' = "check" /\ gop.kind = "commit" /\ gsent = 0 /\ gop.size > 0
           /\ gop.size \in 1..FlushInterval /\ largeW = largeR /\ Len(toHost) < Slots - 1
           /\ UNCHANGED <<gop, pinged, nudging, writeStart, sent, callEnd, got, largeW, largeR, fromW,
                          fromR, buffer, host_state, transfer_mode, transfer_size, messages>>
           /\ \/ UNCHANGED <<toHost, gsent>>
              \/ /\ toHost' = Append(toHost, [slot |-> writeStart, size |-> gop.size])
                 /\ gsent' = gop.size
                 /\ Len(toHost') = Len(toHost) + 1
                 /\ \A k \in 1..Len(toHost) : toHost'[k] = toHost[k]
                 /\ toHost'[Len(toHost) + 1] = [slot |-> writeStart, size |-> gop.size]
  <1>1. /\ gpc = "write" /\ gpc' = "check" /\ gop.kind = "commit"
        /\ UNCHANGED <<gop, pinged, nudging, writeStart, sent, callEnd, got, largeW, largeR, fromW,
                       fromR, buffer, host_state, transfer_mode, transfer_size, messages>>
        /\ \/ UNCHANGED <<toHost, gsent>>
           \/ /\ toHost' = Append(toHost, [slot |-> writeStart, size |-> gop.size])
              /\ gsent' = gop.size
    BY DEF type1Write_ring
  <1>2. gsent = 0 /\ gop.size > 0 /\ gop.size \in Nat /\ gop.size =< FlushInterval
    BY <1>1, RestingFacts, OpFacts DEF GuestInv
  <1>3. largeW = largeR /\ Len(toHost) < Slots - 1
    BY <1>1, <1>2 DEF WaitedInv
  <1>4. gop.size \in 1..FlushInterval
    BY <1>2, SizeFacts
  <1>5. toHost' = Append(toHost, [slot |-> writeStart, size |-> gop.size]) =>
           /\ Len(toHost') = Len(toHost) + 1
           /\ \A k \in 1..Len(toHost) : toHost'[k] = toHost[k]
           /\ toHost'[Len(toHost) + 1] = [slot |-> writeStart, size |-> gop.size]
    BY SeqFacts
  <1> QED BY <1>1, <1>2, <1>3, <1>4, <1>5

(* The slot of the first command is given back. *)
LEMMA AdvanceStep ==
    ASSUME TypeOK, HostInv, type1Read_advance
    PROVE  /\ hpc = "advance" /\ hpc' = "top" /\ toHost # <<>> /\ Len(toHost) >= 1
           /\ Len(toHost') = Len(toHost) - 1
           /\ \A k \in 1..Len(toHost') : toHost'[k] = toHost[k + 1]
           /\ UNCHANGED <<wanted, dst, readBuffer, inLargeXfer, received, owed, largeW, largeR, fromW,
                          buffer, host_state, transfer_size, messages>>
  <1>1. /\ hpc = "advance" /\ hpc' = "top" /\ toHost # <<>> /\ toHost' = Tail(toHost)
        /\ UNCHANGED <<wanted, dst, readBuffer, inLargeXfer, received, owed, largeW, largeR, fromW,
                       buffer, host_state, transfer_size, messages>>
    BY DEF type1Read_advance, HostInv
  <1>2. /\ Len(toHost) >= 1 /\ Len(toHost') = Len(toHost) - 1
        /\ \A k \in 1..Len(toHost') : toHost'[k] = toHost[k + 1]
    BY <1>1, SeqFacts
  <1> QED BY <1>1, <1>2

(* Nothing is in the rings to the host while a reply is on its way. *)
LEMMA Replying ==
    ASSUME TypeOK, ReplyInv, owed > 0 \/ fromW # fromR
    PROVE  toHost = <<>> /\ largeW = largeR /\ gsent = gop.size /\ callEnd # 0 /\ Len(received) = callEnd
  BY DEF ReplyInv

LEMMA SmallInvariant ==
    ASSUME TypeOK, GuestInv, RingsInv, WaitedInv, HostInv, TransferInv, SlotsInv, SmallInv, LargeInv,
           FilledInv, ReplyInv, [Next]_vars
    PROVE  SmallInv'
  <1>n. /\ Copied \in Nat /\ First \in {1, 2} /\ Len(toHost) \in Nat
        /\ sent \in Nat /\ gsent \in Nat /\ largeW \in Nat /\ largeR \in Nat
    BY CopiedFacts
  <1>1. CASE /\ UNCHANGED <<toHost, buffer, largeW, largeR>> /\ First' = First
             /\ Copied' = Copied /\ sent' + gsent' = sent + gsent
    BY <1>1, SmallFrame
  <1>2. CASE Fill
    <2>1. /\ UNCHANGED <<hpc, received, dst, readBuffer>>
          /\ UNCHANGED <<toHost, sent, gsent>>
      BY <1>2, GuestFrame, FillStep DEF GuestMove, GuestStep
    <2>2. First' = First /\ Copied' = Copied /\ sent' + gsent' = sent + gsent /\ toHost' = toHost
      BY <2>1 DEF First, Copied
    <2>3. ASSUME NEW k \in First..Len(toHost), NEW j \in 0..(toHost[k].size - 1)
          PROVE  buffer'[toHost[k].slot * FlushInterval + j] = buffer[toHost[k].slot * FlushInterval + j]
      <3>1. k \in 1..Len(toHost)
        BY <1>n
      <3>2. j \in 0..(FlushInterval - 1)
        BY <3>1, DescriptorFacts
      <3> QED BY <1>2, <3>1, <3>2, FillStep
    <2> QED BY <2>2, <2>3, SmallFrame
  <1>3. CASE type1Write_ring
    <2>1. UNCHANGED <<hpc, received, dst, readBuffer>>
      BY <1>3, GuestFrame DEF GuestMove, GuestStep
    <2>2. First' = First /\ Copied' = Copied
      BY <2>1 DEF First, Copied
    <2>3. CASE UNCHANGED <<toHost, gsent>>
      BY <1>1, <1>3, <2>2, <2>3, RingStep
    <2>4. CASE ~UNCHANGED <<toHost, gsent>>
      <3> PICK L \in Nat, F \in {1, 2} : L = Len(toHost) /\ F = First
        BY <1>n
      <3>1. /\ gsent' = gop.size /\ Len(toHost') = L + 1 /\ gop.size \in Nat /\ gop.size >= 1
            /\ \A k \in 1..L : toHost'[k] = toHost[k]
            /\ toHost'[L + 1].slot = writeStart /\ toHost'[L + 1].size = gop.size
            /\ buffer' = buffer /\ sent' = sent
        BY <1>3, <2>4, RingStep, OpFacts
      <3>2. \A k \in 1..L : Start(k)' = Start(k)
        BY <3>1 DEF Start
      <3>3. gpc = "write" /\ gop.kind = "commit" /\ gsent = 0 /\ largeW = largeR
        BY <1>3, RingStep
      <3>4. \A j \in 0..(gop.size - 1) : buffer[writeStart * FlushInterval + j] = sent + j + 1
        BY <3>3 DEF FilledInv
      <3>5. Start(L + 1)' = sent + 1
        <4>1. 0 \in 0..(gop.size - 1) /\ 0 \in 0..(FlushInterval - 1) /\ writeStart \in 0..(Slots - 1)
          <5>1. 0 \in 0..(gop.size - 1)
            BY <3>1
          <5>2. 0 \in 0..(FlushInterval - 1)
            BY SizeFacts
          <5>3. writeStart \in 0..(Slots - 1)
            BY NumberFacts
          <5> QED BY <5>1, <5>2, <5>3
        <4>2. writeStart * FlushInterval \in Nat
          BY <4>1, SlotPosition
        <4>3. writeStart * FlushInterval + 0 = writeStart * FlushInterval /\ sent + 0 + 1 = sent + 1
          BY <1>n, <4>2
        <4>4. buffer[writeStart * FlushInterval + 0] = sent + 0 + 1
          BY <3>4, <4>1
        <4> QED BY <3>1, <4>3, <4>4 DEF Start
      <3>6. F =< L + 1
        <4>1. F = 2 => toHost # <<>>
          BY DEF First, HostInv
        <4>2. toHost # <<>> => L >= 1
          BY SeqFacts
        <4> QED BY <4>1, <4>2
      <3>7. F = L + 1 => Copied = sent
        <4>1. F = L + 1 => F > L
          OBVIOUS
        <4>2. F > L => Copied + (largeW - largeR) = sent + gsent
          BY DEF LargeInv
        <4> QED BY <1>n, <3>3, <4>1, <4>2
      <3>8. F =< L => Start(L) + toHost[L].size = sent + 1 /\ Start(F) = Copied + 1
        BY <1>n, <3>3 DEF SmallInv
      <3>s. /\ \A k \in F..L : \A j \in 0..(toHost[k].size - 1) :
                  buffer[toHost[k].slot * FlushInterval + j] = Start(k) + j
            /\ \A k \in (F + 1)..L : Start(k) = Start(k - 1) + toHost[k - 1].size
            /\ \A k, l \in F..L : k < l => Start(k) + toHost[k].size =< Start(l)
        BY DEF SmallInv
      <3>9. ASSUME NEW k \in F..L PROVE Start(k) + toHost[k].size =< sent + 1
        <4>1. CASE k = L
          BY <1>n, <3>8, <3>9, <4>1
        <4>2. CASE k < L
          <5>1. k \in 1..L /\ L \in 1..L /\ L \in F..L /\ F =< L
            BY <4>2
          <5>2. Start(k) + toHost[k].size =< Start(L)
            BY <3>s, <4>2, <5>1
          <5>3. /\ Start(k) \in Int /\ Start(L) \in Int
                /\ toHost[k].size \in Nat /\ toHost[L].size \in Nat
            BY <5>1, DescriptorFacts
          <5> QED BY <1>n, <3>8, <5>1, <5>2, <5>3
        <4> QED BY <4>1, <4>2
      <3>10. ASSUME NEW k \in F..(L + 1), NEW j \in 0..(toHost'[k].size - 1)
             PROVE  buffer'[toHost'[k].slot * FlushInterval + j] = Start(k)' + j
        <4>1. CASE k = L + 1
          <5>1. j \in 0..(gop.size - 1) /\ j \in Int
            BY <3>1, <4>1
          <5>2. buffer'[toHost'[k].slot * FlushInterval + j] = sent + j + 1
            BY <3>1, <3>4, <4>1, <5>1
          <5>3. Start(k)' = sent + 1
            BY <3>5, <4>1
          <5> QED BY <1>n, <5>1, <5>2, <5>3
        <4>2. CASE k # L + 1
          <5>1. k \in F..L /\ k \in 1..L
            BY <4>2
          <5> QED BY <3>1, <3>2, <3>s, <5>1
        <4> QED BY <4>1, <4>2
      <3>11. Start(F)' = Copied + 1
        <4>1. CASE F = L + 1
          BY <3>5, <3>7, <4>1
        <4>2. CASE F # L + 1
          <5>1. F \in 1..L /\ F =< L
            BY <3>6, <4>2
          <5> QED BY <3>2, <3>8, <5>1
        <4> QED BY <4>1, <4>2
      <3>12. Start(L + 1)' + toHost'[L + 1].size = sent' + gsent' + 1
        BY <1>n, <3>1, <3>5
      <3>13. ASSUME NEW k \in (F + 1)..(L + 1)
             PROVE  Start(k)' = Start(k - 1)' + toHost'[k - 1].size
        <4>1. CASE k = L + 1
          <5>1. k - 1 = L /\ L \in 1..L /\ F =< L
            BY <4>1
          <5>2. Start(L)' = Start(L) /\ toHost'[L] = toHost[L] /\ Start(k)' = sent + 1
            BY <3>1, <3>2, <3>5, <4>1, <5>1
          <5> QED BY <3>8, <5>1, <5>2
        <4>2. CASE k # L + 1
          <5>1. k \in (F + 1)..L /\ k \in 1..L /\ k - 1 \in 1..L
            BY <4>2
          <5> QED BY <3>1, <3>2, <3>s, <5>1
        <4> QED BY <4>1, <4>2
      <3>14. ASSUME NEW k \in F..(L + 1), NEW l \in F..(L + 1), k < l
             PROVE  Start(k)' + toHost'[k].size =< Start(l)'
        <4>1. k \in F..L /\ k \in 1..L
          BY <3>14
        <4>2. CASE l = L + 1
          BY <3>1, <3>2, <3>5, <3>9, <4>1, <4>2
        <4>3. CASE l # L + 1
          <5>1. l \in F..L /\ l \in 1..L
            BY <4>3
          <5> QED BY <3>1, <3>2, <3>14, <3>s, <4>1, <5>1
        <4> QED BY <4>2, <4>3
      <3> QED BY <2>2, <3>1, <3>10, <3>11, <3>12, <3>13, <3>14 DEF SmallInv, Start
    <2> QED BY <2>3, <2>4
  <1>4. CASE writeFully_chunk
    <2>1. toHost' = toHost /\ toHost = <<>> /\ hpc' = hpc
      BY <1>4, ChunkStep, GuestFrame DEF WaitedInv, GuestMove, GuestStep
    <2>2. Len(toHost') = 0 /\ First' = 1
      BY <2>1 DEF First, HostInv
    <2> QED BY <2>2 DEF SmallInv
  <1>5. CASE type1Read
    <2> PICK L \in Nat : L = Len(toHost)
      BY <1>n
    <2>1. /\ hpc = "type1" /\ hpc' = "advance" /\ 1 \in 1..L
          /\ UNCHANGED <<toHost, buffer, sent, gsent>> /\ Copied' = Copied + toHost[1].size
      BY <1>5, Type1Step
    <2>2. First = 1 /\ First' = 2
      BY <2>1 DEF First
    <2>3. \A k \in 1..L : Start(k)' = Start(k)
      BY <2>1 DEF Start
    <2>4. Start(1) = Copied + 1 /\ Start(1) \in Int /\ toHost[1].size \in Nat
      BY <1>n, <2>1, <2>2, DescriptorFacts DEF SmallInv
    <2>5. 2 =< L => Start(2)' = Copied' + 1
      <3>1. 2 =< L => 2 \in 1..L /\ 2 \in (1 + 1)..L /\ 2 - 1 = 1
        BY <1>n
      <3>2. 2 =< L => Start(2) = Start(1) + toHost[1].size
        BY <2>2, <3>1 DEF SmallInv
      <3> QED BY <1>n, <2>1, <2>3, <2>4, <3>1, <3>2
    <2>6. /\ \A k \in 2..L : k \in 1..L /\ k \in First..L
          /\ \A k \in (2 + 1)..L : k - 1 \in 1..L /\ k \in 1..L /\ k \in (First + 1)..L
          /\ 2 =< L => First =< L /\ L \in 1..L
      BY <1>n, <2>2
    <2>7. \A k \in 2..L : \A j \in 0..(toHost[k].size - 1) :
             buffer[toHost[k].slot * FlushInterval + j] = Start(k)' + j
      BY <2>3, <2>6 DEF SmallInv
    <2>8. 2 =< L => Start(L)' + toHost[L].size = sent + gsent + 1
      BY <2>3, <2>6 DEF SmallInv
    <2>9. \A k \in (2 + 1)..L : Start(k)' = Start(k - 1)' + toHost[k - 1].size
      BY <2>3, <2>6 DEF SmallInv
    <2>10. \A k, l \in 2..L : k < l => Start(k)' + toHost[k].size =< Start(l)'
      BY <2>3, <2>6 DEF SmallInv
    <2> QED BY <2>1, <2>2, <2>5, <2>7, <2>8, <2>9, <2>10 DEF SmallInv, Start
  <1>6. CASE type1Read_advance
    <2> PICK L \in Nat, M \in Nat : L = Len(toHost) /\ M = Len(toHost')
      <3>1. Len(toHost') = Len(toHost) - 1 /\ Len(toHost) >= 1
        BY <1>6, AdvanceStep
      <3> QED BY <1>n, <3>1
    <2>1. /\ hpc = "advance" /\ hpc' = "top" /\ L >= 1 /\ M = L - 1
          /\ \A k \in 1..M : toHost'[k] = toHost[k + 1]
          /\ UNCHANGED <<buffer, received, dst, readBuffer>>
      BY <1>6, AdvanceStep
    <2>2. First = 2 /\ First' = 1 /\ Copied' = Copied
      BY <2>1 DEF First, Copied
    <2>3. UNCHANGED <<sent, gsent>>
      BY <1>6 DEF type1Read_advance
    <2>4. \A k \in 1..M : Start(k)' = Start(k + 1)
      BY <2>1 DEF Start
    <2>5. /\ \A k \in 1..M : k + 1 \in First..L
          /\ \A k \in 2..M : k \in 1..M /\ k - 1 \in 1..M /\ k + 1 \in (First + 1)..L
                             /\ (k + 1) - 1 = k /\ (k - 1) + 1 = k
          /\ 1 =< M => 1 \in 1..M /\ M \in 1..M /\ M + 1 = L /\ First =< L /\ 1 + 1 = First
      BY <1>n, <2>1, <2>2
    <2>6. ASSUME NEW k \in 1..M, NEW j \in 0..(toHost'[k].size - 1)
          PROVE  buffer'[toHost'[k].slot * FlushInterval + j] = Start(k)' + j
      <3>1. k + 1 \in First..Len(toHost) /\ toHost'[k] = toHost[k + 1] /\ Start(k)' = Start(k + 1)
        BY <2>1, <2>4, <2>5
      <3>2. j \in 0..(toHost[k + 1].size - 1)
        BY <3>1
      <3>3. buffer[toHost[k + 1].slot * FlushInterval + j] = Start(k + 1) + j
        BY <3>1, <3>2 DEF SmallInv
      <3> QED BY <2>1, <3>1, <3>3
    <2>7. 1 =< M => /\ Start(1)' = Copied' + 1
                    /\ Start(M)' + toHost'[M].size = sent' + gsent' + 1
      BY <2>1, <2>2, <2>3, <2>4, <2>5 DEF SmallInv
    <2>8. ASSUME NEW k \in 2..M PROVE Start(k)' = Start(k - 1)' + toHost'[k - 1].size
      <3>1. Start(k + 1) = Start(k) + toHost[k].size
        BY <2>5 DEF SmallInv
      <3>2. Start(k)' = Start(k + 1) /\ Start(k - 1)' = Start(k) /\ toHost'[k - 1] = toHost[k]
        BY <2>1, <2>4, <2>5
      <3> QED BY <3>1, <3>2
    <2>9. ASSUME NEW k \in 1..M, NEW l \in 1..M, k < l
          PROVE  Start(k)' + toHost'[k].size =< Start(l)'
      <3>1. k + 1 < l + 1
        BY <2>9
      <3> QED BY <2>1, <2>4, <2>5, <3>1 DEF SmallInv
    <2> QED BY <2>2, <2>6, <2>7, <2>8, <2>9 DEF SmallInv, Start
  <1>7. CASE type3Read_copy
    <2>1. toHost' = toHost /\ largeW # largeR /\ hpc' \in {"top", "type3copy"}
      BY <1>n, <1>7, CopyStep
    <2>2. toHost = <<>>
      BY <2>1 DEF RingsInv
    <2>3. Len(toHost') = 0 /\ First' = 1
      BY <2>1, <2>2 DEF First
    <2> QED BY <2>3 DEF SmallInv
  <1>8. CASE commitBuffer
    <2>1. toHost' = toHost /\ owed > 0 /\ hpc' = "render"
      BY <1>8, ReplyStep
    <2>2. toHost = <<>>
      BY <2>1, Replying
    <2>3. Len(toHost') = 0 /\ First' = 1
      BY <2>1, <2>2 DEF First
    <2> QED BY <2>3 DEF SmallInv
  <1> QED BY <1>1, <1>2, <1>3, <1>4, <1>5, <1>6, <1>7, <1>8, StreamSteps

LEMMA LargeInvariant ==
    ASSUME TypeOK, GuestInv, RingsInv, WaitedInv, HostInv, TransferInv, SlotsInv, SmallInv, LargeInv,
           ReplyInv, [Next]_vars
    PROVE  LargeInv'
  <1>n. /\ Copied \in Nat /\ First \in {1, 2} /\ Len(toHost) \in Nat
        /\ sent \in Nat /\ gsent \in Nat /\ largeW \in Nat /\ largeR \in Nat
        /\ BufferSize \in Nat \ {0} /\ largeR =< largeW /\ largeW - largeR < BufferSize
    BY CopiedFacts, SizeFacts DEF RingsInv
  <1>1. CASE /\ UNCHANGED <<toHost, buffer, largeW, largeR>> /\ First' = First
             /\ Copied' = Copied /\ sent' + gsent' = sent + gsent
    BY <1>1, LargeFrame
  <1>e. ASSUME largeW' = largeR' /\ largeR' \in Nat,
               First' > Len(toHost') => Copied' = sent' + gsent',
               Copied' \in Nat
        PROVE  LargeInv'
    <2>0. PICK w \in Nat, c \in Nat : w = largeW' /\ w = largeR' /\ c = Copied'
      BY <1>e
    <2>1. w - w = 0 /\ c + (w - w) = c
      OBVIOUS
    <2>2. largeW' - largeR' = 0 /\ Copied' + (largeW' - largeR') = Copied'
      BY <2>0, <2>1
    <2>3. 0..(largeW' - largeR' - 1) = {}
      BY <2>2
    <2> QED BY <1>e, <2>2, <2>3 DEF LargeInv
  <1>2. CASE Fill
    <2>1. /\ UNCHANGED <<hpc, received, dst, readBuffer, largeR>>
          /\ UNCHANGED <<toHost, sent, gsent, largeW>> /\ largeW = largeR
      BY <1>2, GuestFrame, FillStep DEF GuestMove, GuestStep
    <2>2. First' = First /\ Copied' = Copied
      BY <2>1 DEF First, Copied
    <2>3. First > Len(toHost) => Copied = sent + gsent
      BY <1>n, <2>1 DEF LargeInv
    <2> QED BY <1>n, <1>e, <2>1, <2>2, <2>3
  <1>3. CASE type1Write_ring
    <2>1. /\ UNCHANGED <<hpc, received, dst, readBuffer, largeR>>
          /\ UNCHANGED <<sent, largeW, buffer>> /\ largeW = largeR
      BY <1>3, GuestFrame, RingStep DEF GuestMove, GuestStep
    <2>2. First' = First /\ Copied' = Copied
      BY <2>1 DEF First, Copied
    <2>3. CASE UNCHANGED <<toHost, gsent>>
      BY <1>1, <2>1, <2>2, <2>3
    <2>4. CASE ~UNCHANGED <<toHost, gsent>>
      <3>1. Len(toHost') = Len(toHost) + 1
        BY <1>3, <2>4, RingStep
      <3>2. First = 2 => Len(toHost) >= 1
        BY SeqFacts DEF First, HostInv
      <3>3. ~(First' > Len(toHost'))
        BY <1>n, <2>2, <3>1, <3>2
      <3> QED BY <1>n, <1>e, <2>1, <2>2, <3>3
    <2> QED BY <2>3, <2>4
  <1>4. CASE writeFully_chunk
    <2>1. /\ UNCHANGED <<hpc, received, dst, readBuffer, largeR>> /\ gpc = "write" /\ gop.kind # "commit"
          /\ UNCHANGED <<sent, toHost>>
      BY <1>4, GuestFrame, ChunkStep DEF GuestMove, GuestStep
    <2>2. First' = First /\ Copied' = Copied
      BY <2>1 DEF First, Copied
    <2>3. toHost = <<>> /\ gsent < gop.size
      BY <2>1 DEF WaitedInv, GuestInv
    <2>4. Copied + (largeW - largeR) = sent + gsent
      <3>1. First = 1 /\ Len(toHost) = 0
        BY <2>3 DEF First, HostInv
      <3> QED BY <3>1 DEF LargeInv
    <2>5. PICK n \in Nat : n = sendThisTime /\ n >= 1
      BY <2>3, ChunkFacts
    <2>6. CASE UNCHANGED <<buffer, largeW, gsent>>
      BY <1>1, <2>1, <2>2, <2>6
    <2>7. CASE ~UNCHANGED <<buffer, largeW, gsent>>
      <3>1. /\ BufferSize - 1 - (largeW - largeR) >= n
            /\ buffer' = [c \in DOMAIN buffer |->
                  IF (c - largeW) % BufferSize < n
                  THEN sent + gsent + ((c - largeW) % BufferSize) + 1 ELSE buffer[c]]
            /\ largeW' = largeW + n /\ gsent' = gsent + n
        BY <1>4, <2>5, <2>7, ChunkStep
      <3>2. DOMAIN buffer = 0..(BufferSize - 1)
        BY DEF TypeOK
      <3>3. Copied' + (largeW' - largeR') = sent' + gsent'
        BY <1>n, <2>1, <2>2, <2>4, <3>1
      <3>4. ASSUME NEW j \in 0..(largeW' - largeR' - 1)
            PROVE  buffer'[(largeR' + j) % BufferSize] = Copied' + j + 1
        <4>1. PICK i \in Int : i = j - (largeW - largeR)
          BY <1>n, <2>1, <3>1
        <4>2. largeW + i = largeR + j /\ -BufferSize =< i /\ i < n /\ n < BufferSize
          BY <1>n, <2>1, <3>1, <3>4, <4>1
        <4>w. largeW \in Int /\ i \in Int /\ -BufferSize =< i /\ i < BufferSize
          BY <1>n, <2>5, <4>1, <4>2
        <4>o. /\ (largeW + i) % BufferSize \in 0..(BufferSize - 1)
              /\ (((largeW + i) % BufferSize) - largeW) % BufferSize
                   = IF i < 0 THEN i + BufferSize ELSE i
          BY <4>w, RingOffset
        <4>3. PICK c \in 0..(BufferSize - 1) : c = (largeW + i) % BufferSize
          BY <4>o
        <4>4. (c - largeW) % BufferSize = IF i < 0 THEN i + BufferSize ELSE i
          BY <4>o, <4>3
        <4>5. buffer'[c] = IF (c - largeW) % BufferSize < n
                           THEN sent + gsent + ((c - largeW) % BufferSize) + 1 ELSE buffer[c]
          BY <3>1, <3>2, <4>3
        <4>6. c = (largeR + j) % BufferSize /\ largeR' = largeR
          BY <2>1, <4>2, <4>3
        <4>7. CASE i < 0
          <5>1. ~(i + BufferSize < n) /\ j \in 0..(largeW - largeR - 1)
            BY <1>n, <2>1, <3>1, <3>4, <4>1, <4>7
          <5>2. buffer'[c] = buffer[c]
            BY <4>4, <4>5, <4>7, <5>1
          <5>3. buffer[c] = Copied + j + 1
            BY <4>6, <5>1 DEF LargeInv
          <5> QED BY <2>2, <4>6, <5>2, <5>3
        <4>8. CASE i >= 0
          <5>1. buffer'[c] = sent + gsent + i + 1
            BY <4>2, <4>4, <4>5, <4>8
          <5>2. sent + gsent + i + 1 = Copied + j + 1
            BY <1>n, <2>1, <2>4, <3>1, <4>1
          <5> QED BY <2>2, <4>6, <5>1, <5>2
        <4> QED BY <4>7, <4>8
      <3> QED BY <3>3, <3>4 DEF LargeInv
    <2> QED BY <2>6, <2>7
  <1>5. CASE type1Read
    <2>1. /\ hpc = "type1" /\ hpc' = "advance" /\ 1 \in 1..Len(toHost)
          /\ UNCHANGED <<toHost, sent, gsent, largeW, largeR>> /\ Copied' = Copied + toHost[1].size
      BY <1>5, Type1Step
    <2>2. First = 1 /\ First' = 2
      BY <2>1 DEF First
    <2>3. Start(1) = Copied + 1 /\ Start(1) \in Int /\ toHost[1].size \in Nat
      BY <1>n, <2>1, <2>2, DescriptorFacts DEF SmallInv
    <2>4. First' > Len(toHost') => Copied' = sent' + gsent'
      <3>0. Len(toHost) \in Nat /\ Len(toHost) >= 1 /\ Len(toHost') = Len(toHost)
        BY <1>n, <2>1
      <3>1. First' > Len(toHost') => Len(toHost) = 1
        BY <2>2, <3>0
      <3>2. Len(toHost) = 1 => Start(1) + toHost[1].size = sent + gsent + 1
        BY <2>2 DEF SmallInv
      <3>3. PICK c \in Int, z \in Nat : c = Copied /\ z = toHost[1].size /\ Start(1) = c + 1
        BY <1>n, <2>3
      <3>4. Len(toHost) = 1 => c + z = sent + gsent
        BY <1>n, <3>2, <3>3
      <3>5. Copied' = c + z /\ sent' = sent /\ gsent' = gsent
        BY <2>1, <3>3
      <3> QED BY <3>1, <3>4, <3>5
    <2>5. largeW = largeR
      BY <1>n, <2>1 DEF RingsInv
    <2> QED BY <1>e, <1>n, <2>1, <2>3, <2>4, <2>5
  <1>6. CASE type1Read_advance
    <2>1. /\ hpc = "advance" /\ hpc' = "top" /\ toHost # <<>> /\ Len(toHost') = Len(toHost) - 1
          /\ UNCHANGED <<received, dst, readBuffer, largeW, largeR>>
      BY <1>6, AdvanceStep
    <2>2. UNCHANGED <<sent, gsent>>
      BY <1>6 DEF type1Read_advance
    <2>3. First = 2 /\ First' = 1 /\ Copied' = Copied
      BY <2>1 DEF First, Copied
    <2>4. largeW = largeR
      BY <2>1 DEF RingsInv
    <2>5. First' > Len(toHost') => Copied = sent + gsent
      BY <1>n, <2>1, <2>3, <2>4 DEF LargeInv
    <2> QED BY <1>e, <1>n, <2>1, <2>2, <2>3, <2>4, <2>5
  <1>7. CASE type3Read_copy
    <2>1. PICK n \in Nat :
             /\ n >= 1 /\ n =< largeW - largeR /\ largeR' = largeR + n
             /\ dst' = dst \o Take(largeR, n) /\ hpc = "type3copy" /\ hpc' \in {"top", "type3copy"}
             /\ UNCHANGED <<readBuffer, toHost, largeW, buffer, received>>
      BY <1>7, CopyStep
    <2>2. UNCHANGED <<sent, gsent>>
      BY <1>7 DEF type3Read_copy
    <2>3. Copied' = Copied + n
      <3>1. Take(largeR, n) \in Seq(Int) /\ Len(Take(largeR, n)) = n
        BY <1>n, TakeFacts
      <3>0. dst \in Seq(Int)
        BY SeqFacts
      <3>2. Len(dst') = Len(dst) + n
        BY <2>1, <3>0, <3>1, ConcatFacts
      <3>3. Len(received) \in Nat /\ Len(dst) \in Nat /\ Len(readBuffer) \in Nat
        BY SeqFacts
      <3>4. Len(received') = Len(received) /\ Len(readBuffer') = Len(readBuffer)
        BY <2>1
      <3> QED BY <3>2, <3>3, <3>4 DEF Copied
    <2>4. First' = First
      BY <2>1 DEF First
    <2>5. First > Len(toHost) => Copied' + (largeW' - largeR') = sent + gsent
      <3>1. First > Len(toHost) => Copied + (largeW - largeR) = sent + gsent
        BY DEF LargeInv
      <3> QED BY <1>n, <2>1, <2>3, <3>1
    <2>6. ASSUME NEW j \in 0..(largeW' - largeR' - 1)
          PROVE  buffer'[(largeR' + j) % BufferSize] = Copied' + j + 1
      <3>1. n + j \in 0..(largeW - largeR - 1) /\ largeR' + j = largeR + (n + j)
            /\ Copied' + j + 1 = Copied + (n + j) + 1
        BY <1>n, <2>1, <2>3
      <3>2. buffer[(largeR + (n + j)) % BufferSize] = Copied + (n + j) + 1
        BY <3>1 DEF LargeInv
      <3> QED BY <2>1, <3>1, <3>2
    <2> QED BY <2>1, <2>2, <2>4, <2>5, <2>6 DEF LargeInv
  <1>8. CASE commitBuffer
    <2>1. /\ owed > 0 /\ hpc = "render" /\ hpc' = "render"
          /\ UNCHANGED <<toHost, largeW, largeR, received, dst, readBuffer>>
      BY <1>8, ReplyStep
    <2>2. UNCHANGED <<sent, gsent>>
      BY <1>8 DEF commitBuffer, Put
    <2>3. largeW = largeR
      BY <2>1, Replying
    <2>4. First' = First /\ Copied' = Copied
      BY <2>1 DEF First, Copied
    <2>5. First > Len(toHost) => Copied = sent + gsent
      BY <1>n, <2>3 DEF LargeInv
    <2> QED BY <1>e, <1>n, <2>1, <2>2, <2>3, <2>4, <2>5
  <1> QED BY <1>1, <1>2, <1>3, <1>4, <1>5, <1>6, <1>7, <1>8, StreamSteps

LEMMA FilledInvariant ==
    ASSUME TypeOK, GuestInv, RingsInv, WaitedInv, SlotsInv, FilledInv, ReplyInv, [Next]_vars
    PROVE  FilledInv'
  <1>1. CASE Fill
    BY <1>1, FillStep DEF FilledInv
  <1>2. CASE type1Write_ring
    BY <1>2, RingStep DEF FilledInv
  <1>3. CASE writeFully_chunk
    BY <1>3, ChunkStep DEF FilledInv
  <1>4. CASE GuestMove /\ ~Fill /\ ~type1Write_ring /\ ~writeFully_chunk
    <2>1. UNCHANGED buffer
      BY <1>4, GuestEffects
    <2>2. (gpc \in {"commit3", "room", "write", "check"} /\ gop.kind = "commit")' =>
             /\ gpc \in {"commit3", "room", "write", "check"} /\ gop.kind = "commit"
             /\ UNCHANGED <<gop, gsent, writeStart, sent>>
      BY <1>4, RestingFacts DEF GuestMove, GuestStep, Begin, Close, ensureType3Finished,
         ensureType1Finished, type1Write_room, CheckHost, NotifyAfter, SetTransferSize,
         SetTransferMode, Finish, speculativeRead, AfterType3, AfterType1
    <2> QED BY <2>1, <2>2 DEF FilledInv
  <1>5. CASE commitBuffer
    <2>1. gsent = gop.size
      BY <1>5, ReplyStep, Replying
    <2>2. ~(gpc \in {"commit3", "room", "write", "check"} /\ gop.kind = "commit" /\ gsent = 0)
      BY <2>1, RestingFacts, OpFacts DEF GuestInv
    <2>3. UNCHANGED <<gpc, gop, gsent>>
      BY <1>5 DEF commitBuffer, Put
    <2> QED BY <2>2, <2>3 DEF FilledInv
  <1>6. CASE HostStep
    BY <1>5, <1>6, HostFrame, HostEffects DEF FilledInv
  <1>7. CASE DeviceMove \/ UNCHANGED vars
    BY <1>7, DeviceFrame DEF vars, FilledInv
  <1> QED BY <1>1, <1>2, <1>3, <1>4, <1>6, <1>7, Actors

(* The host has copied no more than was sent, and less while a command is  *)
(* still in its slot.                                                      *)
LEMMA CopiedBound ==
    ASSUME TypeOK, RingsInv, SmallInv, LargeInv
    PROVE  /\ Copied =< sent + gsent
           /\ First =< Len(toHost) => Copied < sent + gsent
           /\ First > Len(toHost) => Copied + (largeW - largeR) = sent + gsent
  <1>n. /\ Copied \in Nat /\ First \in {1, 2} /\ Len(toHost) \in Nat
        /\ sent \in Nat /\ gsent \in Nat /\ largeW \in Nat /\ largeR \in Nat /\ largeR =< largeW
    BY CopiedFacts DEF RingsInv
  <1>1. CASE First > Len(toHost)
    <2>1. Copied + (largeW - largeR) = sent + gsent
      BY <1>1 DEF LargeInv
    <2> QED BY <1>n, <1>1, <2>1
  <1>2. CASE First =< Len(toHost)
    <2>1. PICK f \in 1..Len(toHost), l \in 1..Len(toHost) : f = First /\ l = Len(toHost)
      BY <1>n, <1>2
    <2>2. /\ Start(f) \in Int /\ Start(l) \in Int
          /\ toHost[f].size \in Nat /\ toHost[f].size >= 1
          /\ toHost[l].size \in Nat /\ toHost[l].size >= 1
      BY DescriptorFacts
    <2>3. Start(f) = Copied + 1 /\ Start(l) + toHost[l].size = sent + gsent + 1
      BY <1>2, <2>1 DEF SmallInv
    <2>4. f < l => Start(f) + toHost[f].size =< Start(l)
      <3>1. f \in First..Len(toHost) /\ l \in First..Len(toHost)
        BY <1>n, <2>1
      <3> QED BY <3>1 DEF SmallInv
    <2>5. f = l \/ f < l
      BY <1>n, <2>1
    <2>6. Copied < sent + gsent
      <3>1. CASE f = l
        BY <1>n, <2>2, <2>3, <3>1
      <3>2. CASE f < l
        BY <1>n, <2>2, <2>3, <2>4, <3>2
      <3> QED BY <2>5, <3>1, <3>2
    <2> QED BY <1>n, <1>2, <2>6
  <1> QED BY <1>n, <1>1, <1>2

(* A call has been received to its last unit only when all that was sent   *)
(* has been, and the rings to the host are empty.                          *)
LEMMA CallReceived ==
    ASSUME TypeOK, RingsInv, CallInv, SmallInv, LargeInv, hpc = "top", callEnd # 0,
           callEnd =< Len(received) + Len(dst)
    PROVE  /\ callEnd = Len(received) + Len(dst) /\ gsent = gop.size
           /\ toHost = <<>> /\ largeW = largeR
  <1>n. /\ sent \in Nat /\ gsent \in Nat /\ gop.size \in Nat /\ gsent =< gop.size
        /\ Len(received) \in Nat /\ Len(dst) \in Nat /\ Len(readBuffer) \in Nat
        /\ Len(toHost) \in Nat /\ largeW \in Nat /\ largeR \in Nat /\ largeR =< largeW
        /\ callEnd \in Nat
    <2>1. gsent \in 0..gop.size /\ gop.size \in Nat /\ sent \in Nat
      BY OpFacts
    <2>2. gsent \in Nat /\ gsent =< gop.size
      BY <2>1
    <2>3. /\ Len(received) \in Nat /\ Len(dst) \in Nat /\ Len(readBuffer) \in Nat
          /\ Len(toHost) \in Nat
      BY SeqFacts
    <2>4. largeW \in Nat /\ largeR \in Nat /\ largeR =< largeW /\ callEnd \in Nat
      BY NumberFacts DEF RingsInv
    <2> QED BY <2>1, <2>2, <2>3, <2>4
  <1>1. callEnd = sent + gop.size
    BY DEF CallInv
  <1>2. First = 1
    BY DEF First
  <1>3. PICK c \in Nat : c = Copied /\ c = Len(received) + Len(dst) + Len(readBuffer)
    BY CopiedFacts DEF Copied
  <1>4. /\ c =< sent + gsent /\ (1 =< Len(toHost) => c < sent + gsent)
        /\ (1 > Len(toHost) => c + (largeW - largeR) = sent + gsent)
    BY <1>2, <1>3, CopiedBound
  <1>a. PICK a \in Nat : a = Len(received) + Len(dst) /\ callEnd =< a /\ a =< c
    BY <1>n, <1>3
  <1>b. PICK e \in Nat : e = sent + gsent /\ e =< callEnd
    BY <1>n, <1>1
  <1>5. ~(1 =< Len(toHost))
    BY <1>n, <1>4, <1>a, <1>b
  <1>6. callEnd = Len(received) + Len(dst) /\ gsent = gop.size /\ largeW = largeR
    <2>1. c + (largeW - largeR) = e
      BY <1>n, <1>4, <1>5, <1>b
    <2>2. callEnd = a /\ e = callEnd /\ largeW = largeR
      BY <1>n, <1>a, <1>b, <2>1
    <2>3. gsent = gop.size
      BY <1>n, <1>1, <1>b, <2>2
    <2> QED BY <1>a, <2>2, <2>3
  <1>7. toHost = <<>>
    BY <1>n, <1>5, SeqFacts
  <1> QED BY <1>6, <1>7

(* ReplyInv speaks only of these. *)
LEMMA ReplyFrame ==
    ASSUME ReplyInv,
           UNCHANGED <<got, fromW, fromR, buffer, owed, callEnd, gop, gsent, received, toHost, largeW, largeR>>,
           gpc = "closed" \/ ~alive => gpc' = "closed" \/ ~alive'
    PROVE  ReplyInv'
  BY DEF ReplyInv

(* What the guest does while a reply is on its way does not concern it. *)
LEMMA GuestWaits ==
    ASSUME TypeOK, GuestInv, CallInv, ReplyInv, GuestMove, ~speculativeRead,
           owed > 0 \/ fromW # fromR
    PROVE  /\ gsent' = gop'.size /\ callEnd' = callEnd
           /\ ~Fill /\ ~writeFully_chunk /\ ~type1Write_ring
  <1>1. gsent = gop.size /\ callEnd # 0
    BY Replying
  <1>2. gop = NoOp => gpc \in Reading
    BY <1>1, RestingFacts, OpFacts DEF CallInv
  <1>3. gop # NoOp => gsent # 0
    BY <1>1, OpFacts
  <1>4. gop # NoOp => gpc \in {"check", "after", "end3", "mode"}
    <2>1. gop # NoOp => gpc \in {"write", "check", "after", "end3", "mode"}
      BY <1>3 DEF GuestInv
    <2>2. gpc # "write"
      <3>1. gpc = "write" => gsent < gop.size
        BY DEF GuestInv
      <3> QED BY <1>1, <3>1, OpFacts
    <2> QED BY <2>1, <2>2
  <1>5. ~Fill /\ ~writeFully_chunk /\ ~type1Write_ring
    BY <1>2, <1>4 DEF Fill, writeFully_chunk, type1Write_ring, Reading
  <1>6. NoOp.size = 0
    BY DEF NoOp
  <1>7. ~\E o \in Ops : Begin(o)
    BY <1>2, <1>4 DEF Begin, Reading
  <1>8. GuestStep
    BY <1>2, <1>4, <1>7 DEF GuestMove, Close, Reading
  <1>9. gsent' = gop'.size /\ callEnd' = callEnd
    BY <1>1, <1>2, <1>4, <1>5, <1>6, <1>8 DEF GuestStep, Reading, ensureType3Finished,
       ensureType1Finished, type1Write_room, CheckHost, NotifyAfter, SetTransferSize,
       SetTransferMode, Finish
  <1> QED BY <1>5, <1>9

LEMMA ClosedStays ==
    ASSUME [Next]_vars, gpc = "closed" \/ ~alive
    PROVE  gpc' = "closed" \/ ~alive'
  <1>1. CASE GuestMove
    <2>1. gpc # "closed"
      BY <1>1 DEF GuestMove, GuestStep, Begin, Close, ensureType3Finished, ensureType1Finished, Fill,
         type1Write_room, type1Write_ring, writeFully_chunk, CheckHost, NotifyAfter, SetTransferSize,
         SetTransferMode, speculativeRead, AfterType3, AfterType1
    <2> QED BY <1>1, <2>1, GuestFrame
  <1>2. CASE HostStep
    BY <1>2, HostFrame
  <1>3. CASE DeviceMove
    BY <1>3, DeviceFrame DEF DeviceMove, ControlStep, saveRingBlocks, saveBufferBlocks, save, resume, destroy, send, Crash, preSave
  <1>4. CASE UNCHANGED vars
    BY <1>4 DEF vars
  <1> QED BY <1>1, <1>2, <1>3, <1>4, Actors

LEMMA ReplyInvariant ==
    ASSUME TypeOK, GuestInv, CallInv, RingsInv, WaitedInv, HostInv, TransferInv, ExitInv, DecodedInv,
           SmallInv, LargeInv, ReplyInv, [Next]_vars
    PROVE  ReplyInv'
  <1>n. /\ fromW \in Nat /\ fromR \in Nat /\ fromR =< fromW /\ fromW - fromR < BufferSize
        /\ BufferSize \in Nat \ {0} /\ ReplySize \in Nat \ {0}
        /\ owed \in Nat /\ owed =< ReplySize /\ callEnd \in Nat
    BY NumberFacts, SizeFacts, LimitsAssumption DEF RingsInv
  <1>c. gpc = "closed" \/ ~alive => gpc' = "closed" \/ ~alive'
    BY ClosedStays
  <1>1. CASE speculativeRead
    <2>1. /\ gpc = "read" /\ alive /\ fromW > fromR
          /\ got' = got \o Take(fromR, fromW - fromR) /\ fromR' = fromW
          /\ IF ReplyComplete THEN callEnd' = 0 ELSE callEnd' = callEnd
          /\ UNCHANGED <<gop, gsent, toHost, largeW, largeR, fromW, buffer, owed, received>>
      BY <1>1 DEF speculativeRead
    <2>2. PICK n \in Nat : n = fromW - fromR
      BY <1>n
    <2>3. /\ got \in Seq(Int) /\ Take(fromR, n) \in Seq(Int) /\ Len(Take(fromR, n)) = n
          /\ \A i \in 1..n : Take(fromR, n)[i] = buffer[(fromR + i - 1) % BufferSize]
      BY <1>n, SeqFacts, TakeFacts
    <2>4. Len(got) = fromR /\ \A k \in 1..Len(got) : got[k] = -k
      BY DEF ReplyInv
    <2>5. /\ got' = got \o Take(fromR, n)
          /\ Len(got') = fromR + n
          /\ \A k \in 1..fromR : got'[k] = got[k]
          /\ \A k \in (fromR + 1)..(fromR + n) : got'[k] = Take(fromR, n)[k - fromR]
      <3>1. got' = got \o Take(fromR, n)
        BY <2>1, <2>2
      <3>2. PICK t \in Seq(Int) : t = Take(fromR, n) /\ Len(t) = n
        BY <2>3
      <3>3. got' = got \o t
        BY <3>1, <3>2
      <3>4. /\ Len(got \o t) = Len(got) + Len(t)
            /\ \A k \in 1..Len(got) : (got \o t)[k] = got[k]
            /\ \A k \in (Len(got) + 1)..(Len(got) + Len(t)) : (got \o t)[k] = t[k - Len(got)]
        BY <2>3, ConcatFacts
      <3> QED BY <2>4, <3>1, <3>2, <3>3, <3>4
    <2>6. Len(got') = fromR'
      BY <1>n, <2>1, <2>2, <2>5
    <2>7. ASSUME NEW k \in 1..Len(got')
          PROVE  got'[k] = -k
      <3>1. CASE k \in 1..fromR
        BY <2>4, <2>5, <3>1
      <3>2. CASE k \in (fromR + 1)..(fromR + n)
        <4>1. PICK i \in Nat : i = k - fromR /\ i \in 1..n /\ fromR + i - 1 = fromR + (i - 1)
                                /\ i - 1 \in 0..(fromW - fromR - 1)
          BY <1>n, <2>2, <3>2
        <4>2. got'[k] = buffer[(fromR + (i - 1)) % BufferSize]
          BY <2>3, <2>5, <3>2, <4>1
        <4>3. buffer[(fromR + (i - 1)) % BufferSize] = -(fromR + (i - 1) + 1)
          BY <4>1 DEF ReplyInv
        <4>4. fromR + (i - 1) + 1 = k
          BY <1>n, <3>2, <4>1
        <4> QED BY <4>2, <4>3, <4>4
      <3> QED BY <1>n, <2>5, <3>1, <3>2
    <2>8. owed < ReplySize /\ (fromW + owed) % ReplySize = 0
      BY <1>n, <2>1 DEF ReplyInv
    <2>9. ReplyComplete => owed = 0
      <3>1. SUFFICES ASSUME ReplyComplete PROVE owed = 0
        OBVIOUS
      <3>2. fromW % ReplySize = 0
        BY <3>1 DEF ReplyComplete
      <3>i. fromW \in Int /\ owed \in Int /\ ReplySize \in Nat \ {0}
        BY <1>n
      <3>3. ((fromW % ReplySize) + owed) % ReplySize = (fromW + owed) % ReplySize
        BY <3>i, ModInner
      <3>4. owed % ReplySize = 0
        <4>1. 0 + owed = owed
          BY <1>n
        <4> QED BY <2>8, <3>2, <3>3, <4>1
      <3>5. owed \in 0..(ReplySize - 1)
        BY <1>n, <2>8
      <3> QED BY <1>n, <3>4, <3>5, ModSmall
    <2>10. fromW' = fromR' /\ 0..(fromW' - fromR' - 1) = {}
      <3>1. PICK w \in Nat : w = fromW' /\ w = fromR'
        BY <1>n, <2>1
      <3>2. w - w - 1 = -1
        OBVIOUS
      <3>3. fromW' - fromR' - 1 = -1
        BY <3>1, <3>2
      <3>4. 0..(fromW' - fromR' - 1) = {}
        BY <3>3
      <3> QED BY <3>1, <3>4
    <2>11. /\ callEnd # 0 /\ gsent = gop.size /\ Len(received) = callEnd
           /\ toHost = <<>> /\ largeW = largeR
      BY <1>n, <2>1, Replying
    <2>12. owed' > 0 => callEnd' = callEnd
      BY <1>n, <2>1, <2>9
    <2> QED BY <2>1, <2>6, <2>7, <2>8, <2>10, <2>11, <2>12 DEF ReplyInv
  <1>2. CASE GuestMove /\ ~speculativeRead
    <2>1. UNCHANGED <<got, fromR, fromW, owed, received, largeR>>
      BY <1>2, GuestFrame, GuestEffects
    <2>2. CASE owed > 0 \/ fromW # fromR
      <3>1. gsent' = gop'.size /\ UNCHANGED <<callEnd, buffer, toHost, largeW>>
        BY <1>2, <2>2, GuestWaits, GuestEffects
      <3> QED BY <1>c, <2>1, <3>1 DEF ReplyInv
    <2>3. CASE ~(owed > 0 \/ fromW # fromR)
      <3>1. fromW - fromR - 1 = -1 /\ 0..(fromW - fromR - 1) = {}
        BY <1>n, <2>3
      <3> QED BY <1>c, <2>1, <2>3, <3>1 DEF ReplyInv
    <2> QED BY <2>2, <2>3
  <1>3. CASE ReturnData
    <2>1. /\ hpc = "top" /\ dst # <<>> /\ received' = received \o dst
          /\ owed' = IF \E i \in 1..Len(dst) : callEnd # 0 /\ dst[i] = callEnd THEN ReplySize ELSE 0
          /\ UNCHANGED <<got, fromW, fromR, buffer, callEnd, gop, gsent, gpc, alive, toHost, largeW, largeR>>
      BY <1>3 DEF ReturnData
    <2>2. /\ Len(received) \in Nat /\ Len(dst) \in Nat /\ Len(dst) >= 1
          /\ Len(received') = Len(received) + Len(dst)
      BY <2>1, SeqFacts, ConcatFacts
    <2>3. owed = 0
      BY <2>1 DEF HostInv
    <2>4. fromW = fromR
      <3>1. SUFFICES ASSUME fromW # fromR PROVE FALSE
        OBVIOUS
      <3>2. callEnd # 0 /\ Len(received) = callEnd
        BY <3>1, Replying
      <3>3. callEnd = Len(received) + Len(dst)
        BY <1>n, <2>1, <2>2, <3>2, CallReceived
      <3> QED BY <2>2, <3>2, <3>3
    <2>5. owed' > 0 => callEnd # 0 /\ callEnd = Len(received') /\ gsent = gop.size
                       /\ toHost = <<>> /\ largeW = largeR
      <3>1. SUFFICES ASSUME owed' > 0
                     PROVE  callEnd # 0 /\ callEnd = Len(received') /\ gsent = gop.size
                            /\ toHost = <<>> /\ largeW = largeR
        OBVIOUS
      <3>2. PICK i \in 1..Len(dst) : callEnd # 0 /\ dst[i] = callEnd
        BY <2>1, <3>1
      <3>3. dst[i] = Len(received) + i
        BY DEF DecodedInv
      <3>4. callEnd =< Len(received) + Len(dst)
        BY <2>2, <3>2, <3>3
      <3> QED BY <2>1, <2>2, <3>2, <3>4, CallReceived
    <2>6. (fromW' + owed') % ReplySize = 0 \/ gpc' = "closed" \/ ~alive'
      <3>1. SUFFICES ASSUME ~(gpc = "closed" \/ ~alive) PROVE (fromW + owed') % ReplySize = 0
        BY <2>1
      <3>2. fromW % ReplySize = 0
        <4>1. fromW + 0 = fromW
          BY <1>n
        <4> QED BY <2>3, <3>1, <4>1 DEF ReplyInv
      <3>i. fromW \in Int /\ ReplySize \in Nat \ {0} /\ 1 \in Int
        BY <1>n
      <3>3. (fromW + ReplySize * 1) % ReplySize = fromW % ReplySize
        BY <3>i, ModShift
      <3>4. fromW + ReplySize * 1 = fromW + ReplySize /\ fromW + 0 = fromW
        BY <1>n
      <3>5. owed' \in {0, ReplySize}
        BY <2>1
      <3> QED BY <3>2, <3>3, <3>4, <3>5
    <2>7. fromW' = fromR' /\ 0..(fromW' - fromR' - 1) = 0..(fromW - fromR - 1)
      BY <2>1, <2>4
    <2> QED BY <2>1, <2>4, <2>5, <2>6, <2>7 DEF ReplyInv
  <1>4. CASE commitBuffer
    <2>1. /\ owed > 0 /\ UNCHANGED <<toHost, largeW, largeR, fromR, received>>
      BY <1>4, ReplyStep
    <2>2. UNCHANGED <<got, callEnd, gop, gsent, gpc, alive>>
      BY <1>4, HostFrame DEF HostStep
    <2>3. /\ callEnd # 0 /\ gsent = gop.size /\ Len(received) = callEnd
          /\ toHost = <<>> /\ largeW = largeR
      BY <2>1, Replying
    <2>4. CASE host_state = "EXIT" /\ owed' = 0 /\ UNCHANGED <<buffer, fromW>>
      <3>1. gpc = "closed" \/ ~alive
        BY <2>4 DEF ExitInv
      <3> QED BY <1>n, <1>c, <2>1, <2>2, <2>3, <2>4, <3>1 DEF ReplyInv
    <2>5. CASE ~(host_state = "EXIT" /\ owed' = 0 /\ UNCHANGED <<buffer, fromW>>)
      <3>1. PICK n \in Nat :
                 /\ n >= 1 /\ n =< owed /\ n =< BufferSize - 1 - (fromW - fromR)
                 /\ buffer' = [c \in DOMAIN buffer |->
                       IF (c - fromW) % BufferSize < n
                       THEN -(fromW + ((c - fromW) % BufferSize) + 1) ELSE buffer[c]]
                 /\ fromW' = fromW + n /\ owed' = owed - n
        BY <1>4, <2>5, ReplyStep
      <3>2. DOMAIN buffer = 0..(BufferSize - 1)
        BY DEF TypeOK
      <3>3. ASSUME NEW j \in 0..(fromW' - fromR' - 1)
            PROVE  buffer'[(fromR' + j) % BufferSize] = -(fromR' + j + 1)
        <4>1. PICK i \in Int : i = j - (fromW - fromR)
          BY <1>n, <2>1, <3>1
        <4>2. fromW + i = fromR + j /\ -BufferSize =< i /\ i < n /\ n < BufferSize
          BY <1>n, <2>1, <3>1, <3>3, <4>1
        <4>w. fromW \in Int /\ i \in Int /\ -BufferSize =< i /\ i < BufferSize
          BY <1>n, <3>1, <4>1, <4>2
        <4>o. /\ (fromW + i) % BufferSize \in 0..(BufferSize - 1)
              /\ (((fromW + i) % BufferSize) - fromW) % BufferSize
                   = IF i < 0 THEN i + BufferSize ELSE i
          BY <4>w, RingOffset
        <4>3. PICK c \in 0..(BufferSize - 1) : c = (fromW + i) % BufferSize
          BY <4>o
        <4>4. (c - fromW) % BufferSize = IF i < 0 THEN i + BufferSize ELSE i
          BY <4>o, <4>3
        <4>5. buffer'[c] = IF (c - fromW) % BufferSize < n
                           THEN -(fromW + ((c - fromW) % BufferSize) + 1) ELSE buffer[c]
          BY <3>1, <3>2, <4>3
        <4>6. c = (fromR + j) % BufferSize /\ fromR' = fromR
          BY <2>1, <4>2, <4>3
        <4>7. CASE i < 0
          <5>1. ~(i + BufferSize < n) /\ j \in 0..(fromW - fromR - 1)
            BY <1>n, <2>1, <3>1, <3>3, <4>1, <4>7
          <5>2. buffer'[c] = buffer[c]
            BY <4>4, <4>5, <4>7, <5>1
          <5>3. buffer[c] = -(fromR + j + 1)
            BY <4>6, <5>1 DEF ReplyInv
          <5> QED BY <4>6, <5>2, <5>3
        <4>8. CASE i >= 0
          <5>1. buffer'[c] = -(fromW + i + 1)
            BY <4>2, <4>4, <4>5, <4>8
          <5> QED BY <4>2, <4>6, <5>1
        <4> QED BY <4>7, <4>8
      <3>4. fromW' + owed' = fromW + owed /\ owed' # ReplySize
        BY <1>n, <3>1
      <3> QED BY <1>c, <2>1, <2>2, <2>3, <3>3, <3>4 DEF ReplyInv
    <2> QED BY <2>4, <2>5
  <1>5. CASE type1Read_advance \/ type3Read_copy
    <2>1. toHost # <<>> \/ largeW # largeR
      <3>1. CASE type1Read_advance
        BY <3>1, AdvanceStep
      <3>2. CASE type3Read_copy
        <4>1. PICK n \in Nat : n >= 1 /\ n =< largeW - largeR
          BY <3>2, CopyStep
        <4>2. largeW \in Nat /\ largeR \in Nat
          BY NumberFacts
        <4> QED BY <4>1, <4>2
      <3> QED BY <1>5, <3>1, <3>2
    <2>2. ~(owed > 0 \/ fromW # fromR)
      BY <2>1, Replying
    <2>3. UNCHANGED <<got, fromW, fromR, buffer, owed, callEnd, gpc, alive>>
      BY <1>5 DEF type1Read_advance, type3Read_copy
    <2> QED BY <2>2, <2>3 DEF ReplyInv
  <1>6. CASE HostStep
    <2>1. CASE ~ReturnData /\ ~commitBuffer /\ ~type1Read_advance /\ ~type3Read_copy
      BY <1>6, <2>1, HostFrame, HostEffects, ReplyFrame
    <2> QED BY <1>3, <1>4, <1>5, <2>1
  <1>7. CASE DeviceMove
    BY <1>7, <1>c, DeviceFrame, ReplyFrame
  <1>8. CASE UNCHANGED vars
    BY <1>8, ReplyFrame DEF vars
  <1> QED BY <1>1, <1>2, <1>6, <1>7, <1>8, Actors
-----------------------------------------------------------------------------
(* Sleeping and waking. *)

(* Only the host takes messages away. *)
LEMMA MessagesStay ==
    ASSUME TypeOK, [Next]_vars, ~ReceiveCommand, messages # <<>>
    PROVE  messages' # <<>>
  <1>1. CASE GuestMove
    BY <1>1, GuestEffects, MessageFacts
  <1>2. CASE HostStep
    BY <1>2, HostEffects
  <1>3. CASE DeviceMove
    <2>1. CASE send
      BY <2>1, MessageFacts DEF send
    <2>2. CASE ~send
      BY <1>3, <2>2 DEF DeviceMove, ControlStep, saveRingBlocks, saveBufferBlocks, save, resume, destroy, Crash, preSave
    <2> QED BY <2>1, <2>2
  <1>4. CASE UNCHANGED vars
    BY <1>4 DEF vars
  <1> QED BY <1>1, <1>2, <1>3, <1>4, Actors

(* A guest on its way to looking at host_state stays on it, or pings. *)
LEMMA PingKept ==
    ASSUME TypeOK, GuestInv, WaitedInv, GuestMove, host_state # "RENDERING", WillPing
    PROVE  WillPing' \/ messages' # <<>>
  <1>1. CASE gpc = "after"
    <2>1. NotifyAfter
      BY <1>1 DEF GuestMove, GuestStep, Begin, Close, ensureType3Finished, ensureType1Finished, Fill,
         type1Write_room, type1Write_ring, writeFully_chunk, CheckHost, SetTransferSize,
         SetTransferMode, speculativeRead, AfterType3, AfterType1
    <2>2. notifyAvailable
      BY <2>1 DEF NotifyAfter, isRenderingAfter
    <2> QED BY <2>2, MessageFacts
  <1>2. CASE gpc = "write" /\ (~pinged \/ gsent = gop.size)
    <2>1. type1Write_ring \/ writeFully_chunk
      BY <1>2 DEF GuestMove, GuestStep, Begin, Close, ensureType3Finished, ensureType1Finished, Fill,
         type1Write_room, NotifyAfter, CheckHost, SetTransferSize,
         SetTransferMode, speculativeRead, AfterType3, AfterType1
    <2>2. gsent < gop.size /\ gsent \in Nat /\ gop.size \in Nat
      BY <1>2, OpFacts DEF GuestInv
    <2>3. ~pinged
      BY <1>2, <2>2
    <2>4. gpc' = "check" /\ pinged' = pinged
      BY <2>1, RingStep, ChunkStep
    <2> QED BY <2>3, <2>4 DEF WillPing
  <1>3. CASE gpc = "check" /\ (~pinged \/ gsent = gop.size)
    <2>1. CheckHost
      BY <1>3 DEF GuestMove, GuestStep, Begin, Close, ensureType3Finished, ensureType1Finished, Fill,
         type1Write_room, type1Write_ring, writeFully_chunk, NotifyAfter, SetTransferSize,
         SetTransferMode, speculativeRead, AfterType3, AfterType1
    <2>2. /\ gpc' = IF gsent = gop.size THEN "after" ELSE "write"
          /\ notifyAvailable \/ pinged' = pinged
      BY <2>1 DEF CheckHost
    <2>3. notifyAvailable => messages' # <<>>
      BY MessageFacts
    <2> QED BY <1>3, <2>2, <2>3 DEF WillPing
  <1>4. CASE gpc \in DOMAIN AfterType3 /\ largeW # largeR
    <2>1. ensureType3Finished
      BY <1>4 DEF GuestMove, GuestStep, Begin, Close, NotifyAfter, ensureType1Finished, Fill,
         type1Write_room, type1Write_ring, writeFully_chunk, CheckHost, SetTransferSize,
         SetTransferMode, speculativeRead, AfterType3, AfterType1
    <2>2. gpc' = gpc /\ largeW' = largeW /\ largeR' = largeR
      BY <1>4, <2>1 DEF ensureType3Finished
    <2> QED BY <1>4, <2>2 DEF WillPing
  <1> QED BY <1>1, <1>2, <1>3, <1>4 DEF WillPing

(* How the guest comes to be quiet. *)
LEMMA QuietSteps ==
    ASSUME TypeOK, GuestInv, WaitedInv, GuestMove, Quiet'
    PROVE  \/ gsent' = 0 /\ ~pinged' /\ UNCHANGED largeW
           \/ /\ Quiet /\ writeFully_chunk /\ pinged' = pinged /\ UNCHANGED <<messages, gop>>
           \/ /\ Quiet /\ CheckHost /\ gpc = "check" /\ UNCHANGED <<gop, gsent, largeW>>
              /\ pinged' # pinged => messages' # <<>>
  <1>1. /\ gop'.kind # "commit" /\ gpc' \in {"write", "check"} /\ gsent' < gop'.size /\ alive
    BY GuestFrame DEF Quiet
  <1>2. SetTransferMode \/ CheckHost \/ type1Write_ring \/ writeFully_chunk \/ type1Write_room
    <2>1. ensureType3Finished => gpc' \notin {"write", "check"}
      BY DEF ensureType3Finished, AfterType3
    <2>2. ensureType1Finished => gpc' \notin {"write", "check"}
      BY DEF ensureType1Finished, AfterType1
    <2>3. ~NotifyAfter
      BY <1>1 DEF NotifyAfter, Finish
    <2>4. ~(\E o \in Ops : Begin(o)) /\ ~Close /\ ~Fill /\ ~SetTransferSize /\ ~speculativeRead
      BY <1>1 DEF Begin, Close, Fill, SetTransferSize, speculativeRead
    <2> QED BY <1>1, <2>1, <2>2, <2>3, <2>4 DEF GuestMove, GuestStep
  <1>3. CASE SetTransferMode
    <2>1. gpc = "mode3" /\ UNCHANGED <<gsent, pinged, largeW>>
      BY <1>1, <1>3 DEF SetTransferMode, Finish
    <2> QED BY <2>1 DEF GuestInv
  <1>4. CASE CheckHost
    <2>1. gpc = "check" /\ UNCHANGED <<gop, gsent, largeW>> /\ (notifyAvailable \/ pinged' = pinged)
      BY <1>4 DEF CheckHost
    <2>2. notifyAvailable => messages' # <<>>
      BY MessageFacts
    <2> QED BY <1>1, <1>4, <2>1, <2>2 DEF Quiet
  <1>5. CASE type1Write_ring
    BY <1>1, <1>5, RingStep
  <1>6. CASE writeFully_chunk
    <2>1. gpc = "write" /\ UNCHANGED <<gop, messages, pinged>>
      BY <1>6, ChunkStep
    <2>2. gsent < gop.size
      BY <2>1 DEF GuestInv
    <2> QED BY <1>1, <1>6, <2>1, <2>2 DEF Quiet
  <1>7. CASE type1Write_room
    <2>1. gpc = "room" /\ gop' = gop
      BY <1>7 DEF type1Write_room
    <2> QED BY <1>1, <2>1, RestingFacts
  <1> QED BY <1>2, <1>3, <1>4, <1>5, <1>6, <1>7

(* While the guest has still to write, the host is told so. *)
LEMMA QuietTransfer ==
    ASSUME TypeOK, RingsInv, HostInv, WaitedInv, TransferInv, Quiet
    PROVE  transfer_size > 0 /\ toHost = <<>>
  <1>1. gop.kind # "commit" /\ gpc \in {"write", "check"} /\ gsent < gop.size
    BY DEF Quiet
  <1>2. LargeUnwritten = gop.size - gsent
    BY <1>1 DEF LargeUnwritten
  <1>3. gop.size \in Nat /\ gsent \in Nat /\ LargeUnclaimed \in Nat
    BY OpFacts, Announced
  <1>4. transfer_size = LargeUnclaimed + (gop.size - gsent)
    BY <1>2 DEF TransferInv
  <1>5. transfer_size > 0
    BY <1>1, <1>3, <1>4
  <1> QED BY <1>1, <1>5 DEF WaitedInv

(* How the host comes to where it may go to sleep. *)
LEMMA HostArrives ==
    ASSUME HostStep
    PROVE  /\ hpc' \in {"callback", "receive"} =>
                \/ /\ hpc = "unavailable" /\ hpc' = "callback" /\ ~(inLargeXfer /\ transfer_size # 0)
                \/ hpc = "callback" /\ hpc' = "receive"
           /\ hpc' = "unavailable" => hpc = "pollLarge" /\ ~(largeW > largeR)
           /\ hpc' = "pollLarge" => hpc = "poll" /\ toHost = <<>>
           /\ hpc' \in Idling => UNCHANGED <<toHost, largeR, transfer_size, messages>>
           /\ hpc' \in {"unavailable", "pollLarge"} =>
                (inLargeXfer => inLargeXfer')
  <1>1. CASE \E w \in 1..MaxWanted : readRaw(w) BY <1>1 DEF readRaw, Idling
  <1>2. CASE DrainReadBuffer BY <1>2 DEF DrainReadBuffer, Idling
  <1>3. CASE ReturnData BY <1>3 DEF ReturnData, Idling
  <1>4. CASE LoopTop BY <1>4 DEF LoopTop, Idling
  <1>5. CASE PollToHost BY <1>5 DEF PollToHost, Idling
  <1>6. CASE PollLarge BY <1>6 DEF PollLarge, Idling
  <1>7. CASE type1Read BY <1>7 DEF type1Read, Idling
  <1>8. CASE type1Read_advance BY <1>8 DEF type1Read_advance, Idling
  <1>9. CASE type3Read BY <1>9 DEF type3Read, Idling
  <1>10. CASE type3Read_sub BY <1>10 DEF type3Read_sub, Idling
  <1>11. CASE type3Read_copy BY <1>11 DEF type3Read_copy, Idling
  <1>12. CASE Unavailable BY <1>12 DEF Unavailable, Idling
  <1>13. CASE onUnavailableRead BY <1>13 DEF onUnavailableRead, Idling
  <1>14. CASE ReceiveCommand BY <1>14 DEF ReceiveCommand, Idling
  <1>15. CASE commitBuffer BY <1>15 DEF commitBuffer, Idling, Put
  <1>16. CASE doSnapshotOperation BY <1>16 DEF doSnapshotOperation, Idling
  <1>17. CASE snapshotOperation BY <1>17 DEF snapshotOperation, Idling
  <1> QED BY <1>1, <1>2, <1>3, <1>4, <1>5, <1>6, <1>7, <1>8, <1>9, <1>10, <1>11, <1>12, <1>13,
             <1>14, <1>15, <1>16, <1>17 DEF HostStep

(* How the host comes to the top of its loop with nothing in hand. *)
LEMMA HostReturns ==
    ASSUME TypeOK, HostInv, HostStep
    PROVE  /\ (hpc' = "top" /\ dst' = <<>> /\ readBuffer' = <<>>) =>
                \/ hpc = "render" /\ inLargeXfer' = inLargeXfer
                \/ hpc = "unavailable" /\ (inLargeXfer /\ transfer_size # 0 => inLargeXfer')
                \/ hpc \in {"type1", "advance", "callback", "receive"}
           /\ hpc' = "poll" => /\ hpc = "top" /\ dst = <<>> /\ readBuffer = <<>>
                               /\ inLargeXfer' = inLargeXfer
  <1>1. CASE \E w \in 1..MaxWanted : readRaw(w) BY <1>1 DEF readRaw
  <1>2. CASE DrainReadBuffer
    <2>1. hpc' = "top"
      BY <1>2 DEF DrainReadBuffer
    <2>2. /\ dst \in Seq(Int) /\ Len(dst) \in Nat /\ wanted \in Nat
          /\ readBuffer \in Seq(Int) /\ Len(readBuffer) \in Nat
      BY SeqFacts, NumberFacts
    <2>3. PICK n \in 0..Len(readBuffer) : n >= 1 /\ dst' = dst \o SubSeq(readBuffer, 1, n)
      <3>1. readBuffer # <<>> /\ Len(dst) < wanted
        BY <1>2 DEF DrainReadBuffer
      <3>2. AtMost(Len(readBuffer), wanted - Len(dst)) \in 1..Len(readBuffer)
        BY <2>2, <3>1 DEF AtMost
      <3>3. dst' = dst \o SubSeq(readBuffer, 1, AtMost(Len(readBuffer), wanted - Len(dst)))
        BY <1>2 DEF DrainReadBuffer
      <3>4. AtMost(Len(readBuffer), wanted - Len(dst)) \in 0..Len(readBuffer)
            /\ AtMost(Len(readBuffer), wanted - Len(dst)) >= 1
        BY <2>2, <3>2
      <3> QED BY <3>3, <3>4
    <2>4. SubSeq(readBuffer, 1, n) \in Seq(Int) /\ Len(SubSeq(readBuffer, 1, n)) = n
      BY <2>2, SplitFacts
    <2>5. Len(dst') = Len(dst) + n
      BY <2>2, <2>3, <2>4, ConcatFacts
    <2>6. Len(dst') # 0
      BY <2>2, <2>3, <2>5
    <2> QED BY <2>1, <2>6
  <1>3. CASE ReturnData BY <1>3 DEF ReturnData
  <1>4. CASE LoopTop BY <1>4 DEF LoopTop
  <1>5. CASE PollToHost BY <1>5 DEF PollToHost
  <1>6. CASE PollLarge BY <1>6 DEF PollLarge
  <1>7. CASE type1Read BY <1>7 DEF type1Read
  <1>8. CASE type1Read_advance BY <1>8 DEF type1Read_advance
  <1>9. CASE type3Read BY <1>9 DEF type3Read
  <1>10. CASE type3Read_sub BY <1>10 DEF type3Read_sub
  <1>11. CASE type3Read_copy
    <2>1. PICK n \in Nat : n >= 1 /\ dst' = dst \o Take(largeR, n) /\ hpc' \in {"top", "type3copy"}
      BY <1>11, CopyStep
    <2>2. dst \in Seq(Int) /\ Len(dst) \in Nat /\ largeR \in Nat
      BY SeqFacts, NumberFacts
    <2>3. Take(largeR, n) \in Seq(Int) /\ Len(Take(largeR, n)) = n
      BY <2>2, TakeFacts
    <2>4. Len(dst') = Len(dst) + n
      BY <2>1, <2>2, <2>3, ConcatFacts
    <2>5. Len(dst') # 0
      BY <2>1, <2>2, <2>4
    <2> QED BY <2>1, <2>5
  <1>12. CASE Unavailable BY <1>12 DEF Unavailable
  <1>13. CASE onUnavailableRead BY <1>13 DEF onUnavailableRead
  <1>14. CASE ReceiveCommand BY <1>14 DEF ReceiveCommand
  <1>15. CASE commitBuffer BY <1>15 DEF commitBuffer, Put
  <1>16. CASE doSnapshotOperation BY <1>16 DEF doSnapshotOperation
  <1>17. CASE snapshotOperation BY <1>17 DEF snapshotOperation
  <1> QED BY <1>1, <1>2, <1>3, <1>4, <1>5, <1>6, <1>7, <1>8, <1>9, <1>10, <1>11, <1>12, <1>13,
             <1>14, <1>15, <1>16, <1>17 DEF HostStep

(* The host says that it renders only while it does, ... *)
LEMMA RenderingStep ==
    ASSUME TypeOK, WakeInv, [Next]_vars
    PROVE  /\ (host_state = "RENDERING" => hpc = "render")'
           /\ (hpc = "render" => inLargeXfer)'
  <1>0. (host_state = "RENDERING" => hpc = "render") /\ (hpc = "render" => inLargeXfer)
    BY DEF WakeInv
  <1>1. CASE HostStep
    <2>1. CASE \E w \in 1..MaxWanted : readRaw(w) BY <1>0, <2>1 DEF readRaw
    <2>2. CASE DrainReadBuffer BY <1>0, <2>2 DEF DrainReadBuffer
    <2>3. CASE ReturnData BY <1>0, <2>3 DEF ReturnData
    <2>4. CASE LoopTop BY <1>0, <2>4 DEF LoopTop
    <2>5. CASE PollToHost BY <1>0, <2>5 DEF PollToHost
    <2>6. CASE PollLarge BY <1>0, <2>6 DEF PollLarge
    <2>7. CASE type1Read BY <1>0, <2>7 DEF type1Read
    <2>8. CASE type1Read_advance BY <1>0, <2>8 DEF type1Read_advance
    <2>9. CASE type3Read BY <1>0, <2>9 DEF type3Read
    <2>10. CASE type3Read_sub BY <1>0, <2>10 DEF type3Read_sub
    <2>11. CASE type3Read_copy BY <1>0, <2>11 DEF type3Read_copy
    <2>12. CASE Unavailable BY <1>0, <2>12 DEF Unavailable
    <2>13. CASE onUnavailableRead BY <1>0, <2>13 DEF onUnavailableRead
    <2>14. CASE ReceiveCommand BY <1>0, <2>14 DEF ReceiveCommand
    <2>15. CASE commitBuffer BY <1>0, <2>15 DEF commitBuffer, Put
    <2>16. CASE doSnapshotOperation BY <1>0, <2>16 DEF doSnapshotOperation
    <2>17. CASE snapshotOperation BY <1>0, <2>17 DEF snapshotOperation
    <2> QED BY <1>1, <2>1, <2>2, <2>3, <2>4, <2>5, <2>6, <2>7, <2>8, <2>9, <2>10, <2>11, <2>12, <2>13,
               <2>14, <2>15, <2>16, <2>17 DEF HostStep
  <1>2. CASE GuestMove
    BY <1>0, <1>2, GuestFrame
  <1>3. CASE DeviceMove
    <2>1. host_state' \in {host_state, "EXIT"}
      BY <1>3 DEF DeviceMove, ControlStep, saveRingBlocks, saveBufferBlocks, save, resume, destroy, send, Crash, preSave
    <2> QED BY <1>0, <1>3, <2>1, DeviceFrame
  <1>4. CASE UNCHANGED vars
    BY <1>0, <1>4 DEF vars
  <1> QED BY <1>1, <1>2, <1>3, <1>4, Actors

(* What the device does wakes the host or does not concern it. *)
LEMMA DeviceWake ==
    ASSUME TypeOK, DeviceMove
    PROVE  /\ UNCHANGED <<hpc, toHost, largeW, largeR, transfer_size, inLargeXfer, dst, readBuffer,
                          gpc, gop, gsent, pinged>>
           /\ alive' => alive
  BY DeviceFrame DEF DeviceMove, ControlStep, saveRingBlocks, saveBufferBlocks, save, resume, destroy, send, Crash, preSave

LEMMA WakeInvariant ==
    ASSUME TypeOK, GuestInv, RingsInv, WaitedInv, HostInv, TransferInv, WakeInv, [Next]_vars
    PROVE  WakeInv'
  <1>a. alive' => alive
    <2>1. CASE DeviceMove BY <2>1, DeviceWake
    <2>2. CASE ~DeviceMove BY <2>2, Actors, GuestFrame, HostFrame DEF vars
    <2> QED BY <2>1, <2>2
  <1>n. /\ largeW \in Nat /\ largeR \in Nat /\ largeR =< largeW /\ gsent \in Nat /\ gop.size \in Nat
        /\ transfer_size \in Nat /\ Len(toHost) \in Nat
    BY NumberFacts, OpFacts, SeqFacts DEF RingsInv
  <1>m. ~ReceiveCommand => (messages # <<>> => messages' # <<>>)
    BY MessagesStay
  <1>r. ReceiveCommand => hpc = "receive" /\ hpc' = "top"
    BY DEF ReceiveCommand
  <1>g. GuestMove => ~ReceiveCommand
    <2>1. ReceiveCommand => ~UNCHANGED hpc
      BY <1>r
    <2> QED BY <2>1, GuestFrame
  <1>d. DeviceMove => ~ReceiveCommand
    <2>1. ReceiveCommand => ~UNCHANGED hpc
      BY <1>r
    <2> QED BY <2>1, DeviceFrame
  <1>u. UNCHANGED vars => ~ReceiveCommand
    BY <1>r DEF vars
  <1>1. (host_state = "RENDERING" => hpc = "render")' /\ (hpc = "render" => inLargeXfer)'
    BY RenderingStep
  <1>2. ASSUME (hpc \in Idling \cup {"pollLarge"} /\ toHost # <<>> /\ alive)'
        PROVE  (messages # <<>> \/ WillPing)'
    <2>1. CASE GuestMove
      <3>1. /\ hpc \in Idling \cup {"pollLarge"} /\ alive /\ host_state # "RENDERING"
        BY <1>a, <1>2, <2>1, GuestFrame DEF WakeInv, Idling
      <3>2. CASE toHost # <<>>
        <4>1. messages # <<>> \/ WillPing
          BY <3>1, <3>2 DEF WakeInv
        <4>2. WillPing => WillPing' \/ messages' # <<>>
          BY <2>1, <3>1, PingKept
        <4> QED BY <1>g, <1>m, <2>1, <4>1, <4>2
      <3>3. CASE toHost = <<>>
        <4>1. type1Write_ring
          BY <1>2, <2>1, <3>3, GuestEffects
        <4>2. gpc' = "check" /\ gsent' = gop'.size
          BY <1>2, <3>3, <4>1, RingStep
        <4> QED BY <4>2 DEF WillPing
      <3> QED BY <3>2, <3>3
    <2>2. CASE HostStep
      <3>1. /\ UNCHANGED <<toHost, messages, gpc, gop, gsent, pinged, largeW, largeR>>
            /\ hpc \in Idling \cup {"pollLarge"}
        <4>1. CASE hpc' \in Idling
          BY <2>2, <4>1, HostArrives, HostFrame DEF Idling
        <4>2. CASE hpc' = "pollLarge"
          <5>1. hpc = "poll" /\ toHost = <<>>
            BY <2>2, <4>2, HostArrives
          <5>2. toHost' = toHost
            BY <2>2, <5>1, HostEffects DEF type1Read_advance
          <5> QED BY <1>2, <5>1, <5>2
        <4> QED BY <1>2, <4>1, <4>2
      <3>2. messages # <<>> \/ WillPing
        BY <1>a, <1>2, <3>1 DEF WakeInv
      <3> QED BY <3>1, <3>2 DEF WillPing
    <2>3. CASE DeviceMove
      <3>1. messages # <<>> \/ WillPing
        BY <1>a, <1>2, <2>3, DeviceWake DEF WakeInv
      <3> QED BY <1>d, <1>m, <2>3, <3>1, DeviceWake DEF WillPing
    <2>4. CASE UNCHANGED vars
      BY <1>2, <2>4 DEF vars, WakeInv, WillPing
    <2> QED BY <2>1, <2>2, <2>3, <2>4, Actors
  <1>3. ASSUME (hpc \in Idling /\ largeW # largeR /\ alive)'
        PROVE  (\/ messages # <<>> \/ WillPing
                \/ hpc = "unavailable" /\ inLargeXfer /\ transfer_size # 0)'
    <2>1. CASE GuestMove
      <3>1. /\ hpc \in Idling /\ alive /\ host_state # "RENDERING" /\ UNCHANGED <<hpc, inLargeXfer, largeR>>
        BY <1>a, <1>3, <2>1, GuestFrame DEF WakeInv, Idling
      <3>2. CASE largeW # largeR
        <4>1. \/ messages # <<>> \/ WillPing
              \/ hpc = "unavailable" /\ inLargeXfer /\ transfer_size # 0
          BY <3>1, <3>2 DEF WakeInv
        <4>2. WillPing => WillPing' \/ messages' # <<>>
          BY <2>1, <3>1, PingKept
        <4>3. UNCHANGED transfer_size
          <5>1. ~SetTransferSize
            BY <3>2 DEF SetTransferSize, WaitedInv
          <5> QED BY <2>1, <5>1 DEF GuestMove, GuestStep, Begin, Close, ensureType3Finished,
                 ensureType1Finished, Fill, type1Write_room, type1Write_ring, writeFully_chunk, CheckHost,
                 NotifyAfter, SetTransferMode, speculativeRead
        <4> QED BY <1>g, <1>m, <2>1, <3>1, <4>1, <4>2, <4>3
      <3>3. CASE largeW = largeR
        <4>1. writeFully_chunk /\ ~UNCHANGED largeW
          BY <1>3, <2>1, <3>1, <3>3, GuestEffects
        <4>2. gpc = "write" /\ gpc' = "check" /\ gop.kind # "commit"
              /\ UNCHANGED <<gop, pinged, messages, transfer_size>>
          BY <4>1, ChunkStep
        <4>3. CASE ~pinged \/ gsent' = gop.size
          BY <4>2, <4>3 DEF WillPing
        <4>4. CASE pinged /\ gsent' # gop.size
          <5>1. gsent < gop.size
            BY <4>2 DEF GuestInv
          <5>2. Quiet
            BY <3>1, <4>2, <5>1 DEF Quiet
          <5>3. messages # <<>> \/ (hpc = "unavailable" /\ inLargeXfer)
            BY <3>1, <4>4, <5>2 DEF WakeInv
          <5>4. transfer_size > 0
            BY <5>2, QuietTransfer
          <5>5. transfer_size # 0
            BY <1>n, <5>4
          <5> QED BY <3>1, <4>2, <5>3, <5>5
        <4> QED BY <4>3, <4>4
      <3> QED BY <3>2, <3>3
    <2>2. CASE HostStep
      <3>1. UNCHANGED <<toHost, messages, gpc, gop, gsent, pinged, largeW, largeR, transfer_size>>
        BY <1>3, <2>2, HostArrives, HostFrame
      <3>2. hpc' # "unavailable"
        BY <1>n, <1>3, <2>2, <3>1, HostArrives
      <3>3. \/ hpc = "unavailable" /\ ~(inLargeXfer /\ transfer_size # 0)
            \/ hpc = "callback"
        BY <1>3, <2>2, <3>2, HostArrives DEF Idling
      <3>4. messages # <<>> \/ WillPing
        BY <1>a, <1>3, <3>1, <3>3 DEF WakeInv, Idling
      <3> QED BY <3>1, <3>4 DEF WillPing
    <2>3. CASE DeviceMove
      <3>1. \/ messages # <<>> \/ WillPing
            \/ hpc = "unavailable" /\ inLargeXfer /\ transfer_size # 0
        BY <1>a, <1>3, <2>3, DeviceWake DEF WakeInv
      <3> QED BY <1>d, <1>m, <2>3, <3>1, DeviceWake DEF WillPing
    <2>4. CASE UNCHANGED vars
      BY <1>3, <2>4 DEF vars, WakeInv, WillPing
    <2> QED BY <2>1, <2>2, <2>3, <2>4, Actors
  <1>4. ASSUME (Quiet /\ gsent > 0 /\ largeW = largeR)'
        PROVE  (/\ hpc \notin {"callback", "receive"}
                /\ hpc \in {"poll", "pollLarge", "unavailable"}
                   \/ (hpc = "top" /\ dst = <<>> /\ readBuffer = <<>>) => inLargeXfer)'
    <2>1. CASE GuestMove
      <3>1. UNCHANGED <<hpc, dst, readBuffer, inLargeXfer, largeR>>
        BY <2>1, GuestFrame
      <3>2. Quiet /\ gsent > 0 /\ largeW = largeR
        <4>1. ~(gsent' = 0)
          BY <1>4
        <4>2. CASE Quiet /\ writeFully_chunk
          <5>1. gsent < gop.size
            BY <4>2 DEF Quiet
          <5>2. PICK n \in Nat : n = sendThisTime /\ n >= 1
            BY <5>1, ChunkFacts
          <5>3. \/ largeW' = largeW + n
                \/ UNCHANGED <<largeW, gsent>>
            BY <4>2, <5>2, ChunkStep
          <5>4. UNCHANGED <<largeW, gsent>>
            BY <1>n, <1>4, <3>1, <5>2, <5>3
          <5> QED BY <1>4, <3>1, <4>2, <5>4
        <4>3. CASE Quiet /\ UNCHANGED <<gsent, largeW>>
          BY <1>4, <3>1, <4>3
        <4> QED BY <1>4, <2>1, <4>1, <4>2, <4>3, QuietSteps
      <3> QED BY <3>1, <3>2 DEF WakeInv
    <2>2. CASE HostStep
      <3>1. Quiet /\ gsent > 0 /\ UNCHANGED <<gpc, gop, gsent, largeW>>
        BY <1>4, <2>2, HostFrame DEF Quiet
      <3>2. transfer_size # 0 /\ toHost = <<>>
        BY <1>n, <3>1, QuietTransfer
      <3>3. ~(hpc \in {"type1", "advance"})
        BY <3>2 DEF HostInv
      <3>4. CASE type3Read_copy
        <4>1. hpc = "type3copy" /\ hpc' \in {"top", "type3copy"}
          BY <3>4 DEF type3Read_copy
        <4> QED BY <2>2, <4>1, HostReturns
      <3>5. CASE ~type3Read_copy
        <4>1. largeR' = largeR /\ largeW = largeR
          BY <1>4, <2>2, <3>1, <3>5, HostEffects
        <4>2. /\ hpc \notin {"callback", "receive"}
              /\ hpc \in {"poll", "pollLarge", "unavailable"}
                 \/ (hpc = "top" /\ dst = <<>> /\ readBuffer = <<>>) => inLargeXfer
          BY <3>1, <4>1 DEF WakeInv
        <4>3. hpc' \notin {"callback", "receive"}
          BY <2>2, <3>2, <4>2, HostArrives
        <4>4. hpc' \in {"poll", "pollLarge", "unavailable"} => inLargeXfer'
          BY <2>2, <4>2, HostArrives, HostReturns
        <4>5. (hpc' = "top" /\ dst' = <<>> /\ readBuffer' = <<>>) => inLargeXfer'
          <5>1. hpc = "render" => inLargeXfer
            BY DEF WakeInv
          <5> QED BY <2>2, <3>2, <3>3, <4>2, <5>1, HostReturns
        <4> QED BY <4>3, <4>4, <4>5
      <3> QED BY <3>4, <3>5
    <2>3. CASE DeviceMove
      <3>1. Quiet /\ gsent > 0 /\ largeW = largeR
        BY <1>a, <1>4, <2>3, DeviceWake DEF Quiet
      <3> QED BY <2>3, <3>1, DeviceWake DEF WakeInv
    <2>4. CASE UNCHANGED vars
      <3>1. Quiet /\ gsent > 0 /\ largeW = largeR
        BY <1>4, <2>4 DEF Quiet, vars
      <3> QED BY <2>4, <3>1 DEF WakeInv, vars
    <2> QED BY <2>1, <2>2, <2>3, <2>4, Actors
  <1>5. ASSUME (Quiet /\ pinged)'
        PROVE  (gsent > 0 /\ (hpc \in Idling => messages # <<>> \/ (hpc = "unavailable" /\ inLargeXfer)))'
    <2>1. CASE GuestMove
      <3>1. UNCHANGED <<hpc, inLargeXfer>>
        BY <2>1, GuestFrame
      <3>2. CASE Quiet /\ writeFully_chunk /\ pinged' = pinged /\ UNCHANGED <<messages, gop>>
        <4>1. gsent > 0 /\ gsent' >= gsent /\ gsent' \in Nat
          <5>1. gsent > 0 /\ gsent < gop.size
            BY <1>5, <3>2 DEF WakeInv, Quiet
          <5>2. PICK n \in Nat : n = sendThisTime
            BY <5>1, ChunkFacts
          <5>3. gsent' = gsent + n \/ gsent' = gsent
            BY <3>2, <5>2, ChunkStep
          <5> QED BY <1>n, <5>1, <5>2, <5>3
        <4>2. gsent' > 0
          BY <1>n, <4>1
        <4> QED BY <1>5, <3>1, <3>2, <4>2 DEF WakeInv
      <3>3. CASE /\ Quiet /\ gpc = "check" /\ UNCHANGED <<gop, gsent, largeW>>
                 /\ pinged' # pinged => messages' # <<>>
        <4>1. gsent > 0
          BY <3>3 DEF GuestInv, Quiet
        <4>2. hpc \in Idling => messages' # <<>> \/ (hpc = "unavailable" /\ inLargeXfer)
          <5>1. CASE pinged' # pinged
            BY <3>3, <5>1
          <5>2. CASE pinged' = pinged
            BY <1>5, <1>g, <1>m, <2>1, <3>3, <5>2 DEF WakeInv
          <5> QED BY <5>1, <5>2
        <4> QED BY <3>1, <3>3, <4>1, <4>2
      <3> QED BY <1>5, <2>1, <3>2, <3>3, QuietSteps
    <2>2. CASE HostStep
      <3>1. Quiet /\ pinged /\ UNCHANGED <<gpc, gop, gsent, pinged, largeW>>
        BY <1>5, <2>2, HostFrame DEF Quiet
      <3>2. transfer_size # 0 /\ gsent > 0
        BY <1>n, <3>1, QuietTransfer DEF WakeInv
      <3>3. ASSUME hpc' \in Idling
            PROVE  messages' # <<>> \/ (hpc' = "unavailable" /\ inLargeXfer')
        <4>1. UNCHANGED messages
          BY <2>2, <3>3, HostArrives
        <4>2. CASE hpc' = "unavailable"
          <5>1. hpc = "pollLarge" /\ largeW = largeR
            BY <1>n, <2>2, <4>2, HostArrives
          <5>2. inLargeXfer
            BY <3>1, <3>2, <5>1 DEF WakeInv
          <5> QED BY <2>2, <4>2, <5>2, HostArrives
        <4>3. CASE hpc' \in {"callback", "receive"}
          <5>1. \/ hpc = "unavailable" /\ ~(inLargeXfer /\ transfer_size # 0)
                \/ hpc = "callback"
            BY <2>2, <4>3, HostArrives
          <5>2. messages # <<>>
            BY <3>1, <3>2, <5>1 DEF WakeInv, Idling
          <5> QED BY <4>1, <5>2
        <4> QED BY <3>3, <4>2, <4>3 DEF Idling
      <3> QED BY <3>1, <3>2, <3>3
    <2>3. CASE DeviceMove
      <3>1. Quiet /\ pinged
        BY <1>a, <1>5, <2>3, DeviceWake DEF Quiet
      <3> QED BY <1>d, <1>m, <2>3, <3>1, DeviceWake DEF WakeInv
    <2>4. CASE UNCHANGED vars
      <3>1. Quiet /\ pinged
        BY <1>5, <2>4 DEF Quiet, vars
      <3> QED BY <2>4, <3>1 DEF WakeInv, vars
    <2> QED BY <2>1, <2>2, <2>3, <2>4, Actors
  <1> QED BY <1>1, <1>2, <1>3, <1>4, <1>5 DEF WakeInv
-----------------------------------------------------------------------------
(* Types. *)

Descriptors == [slot : 0..(Slots - 1), size : 1..FlushInterval]
Messages == {"Wakeup", "Exit", "PausePreSnapshot", "ResumePostSnapshot"}

LEMMA ToHostType ==
    ASSUME TypeOK, GuestInv, WaitedInv, HostInv, [Next]_vars
    PROVE  toHost' \in Seq(Descriptors)
  <1>0. toHost \in Seq(Descriptors)
    BY SeqFacts DEF Descriptors
  <1>1. CASE type1Write_ring
    <2>1. gop.size \in 1..FlushInterval /\ writeStart \in 0..(Slots - 1)
      BY <1>1, RingStep, NumberFacts
    <2>2. [slot |-> writeStart, size |-> gop.size] \in Descriptors
      BY <2>1 DEF Descriptors
    <2>3. toHost' = toHost \/ toHost' = Append(toHost, [slot |-> writeStart, size |-> gop.size])
      BY <1>1, RingStep
    <2> QED BY <1>0, <2>2, <2>3
  <1>2. CASE type1Read_advance
    <2>1. toHost' = Tail(toHost) /\ toHost # <<>>
      BY <1>2, AdvanceStep DEF type1Read_advance
    <2> QED BY <1>0, <2>1
  <1>3. CASE ~type1Write_ring /\ ~type1Read_advance
    BY <1>0, <1>3, Actors, GuestEffects, HostEffects, DeviceFrame DEF vars
  <1> QED BY <1>1, <1>2, <1>3

LEMMA RingTypes ==
    ASSUME TypeOK, GuestInv, RingsInv, WaitedInv, HostInv, [Next]_vars
    PROVE  /\ largeW' \in Nat /\ largeR' \in Nat /\ fromW' \in Nat /\ fromR' \in Nat
  <1>0. largeW \in Nat /\ largeR \in Nat /\ fromW \in Nat /\ fromR \in Nat
    BY NumberFacts
  <1>1. largeW' \in Nat
    <2>1. CASE GuestMove
      BY <2>1, GuestAdds
    <2>2. CASE ~GuestMove
      BY <1>0, <2>2, Actors, HostFrame, DeviceFrame DEF vars
    <2> QED BY <2>1, <2>2
  <1>2. largeR' \in Nat
    <2>1. CASE type3Read_copy
      <3>1. PICK n \in Nat : largeR' = largeR + n
        BY <2>1, CopyStep
      <3> QED BY <1>0, <3>1
    <2>2. CASE ~type3Read_copy
      BY <1>0, <2>2, Actors, GuestFrame, HostEffects, DeviceFrame DEF vars
    <2> QED BY <2>1, <2>2
  <1>3. fromW' \in Nat
    <2>1. CASE commitBuffer
      <3>1. PICK n \in Nat : fromW' = fromW + n \/ fromW' = fromW
        BY <2>1, ReplyStep
      <3> QED BY <1>0, <3>1
    <2>2. CASE ~commitBuffer
      BY <1>0, <2>2, Actors, GuestFrame, HostEffects, DeviceFrame DEF vars
    <2> QED BY <2>1, <2>2
  <1>4. fromR' \in Nat
    <2>1. CASE speculativeRead
      BY <1>0, <2>1 DEF speculativeRead
    <2>2. CASE ~speculativeRead
      BY <1>0, <2>2, Actors, GuestEffects, HostFrame, DeviceFrame DEF vars
    <2> QED BY <2>1, <2>2
  <1> QED BY <1>1, <1>2, <1>3, <1>4

LEMMA BufferType ==
    ASSUME TypeOK, GuestInv, RingsInv, WaitedInv, [Next]_vars
    PROVE  buffer' \in [0..(BufferSize - 1) -> Int]
  <1>0. buffer \in [0..(BufferSize - 1) -> Int] /\ DOMAIN buffer = 0..(BufferSize - 1)
    BY DEF TypeOK
  <1>n. /\ BufferSize \in Nat \ {0} /\ FlushInterval \in Nat /\ largeW \in Nat /\ fromW \in Nat
        /\ sent \in Nat /\ gsent \in Nat /\ writeStart \in Nat
    BY SizeFacts, SizesAssumption, NumberFacts, OpFacts
  <1>i. \A a \in Int : \A c \in 0..(BufferSize - 1) : (c - a) % BufferSize \in Int
    <2>1. SUFFICES ASSUME NEW a \in Int, NEW c \in 0..(BufferSize - 1)
                   PROVE  (c - a) % BufferSize \in Int
      OBVIOUS
    <2>2. c - a \in Int
      OBVIOUS
    <2>3. (c - a) % BufferSize \in 0..(BufferSize - 1)
      BY <1>n, <2>2, DivMod
    <2> QED BY <2>3
  <1>1. CASE Fill
    <2>1. PICK a \in Int : a = writeStart * FlushInterval
      BY <1>n
    <2>2. buffer' = [c \in DOMAIN buffer |-> IF (c - a) % BufferSize < gop.size
                                             THEN sent + ((c - a) % BufferSize) + 1 ELSE buffer[c]]
      BY <1>1, <2>1 DEF Fill, Put
    <2>3. \A c \in 0..(BufferSize - 1) :
             (IF (c - a) % BufferSize < gop.size
              THEN sent + ((c - a) % BufferSize) + 1 ELSE buffer[c]) \in Int
      BY <1>0, <1>i, <1>n
    <2> QED BY <1>0, <2>2, <2>3
  <1>2. CASE writeFully_chunk
    <2>1. \A c \in 0..(BufferSize - 1) :
             (IF (c - largeW) % BufferSize < sendThisTime
              THEN sent + gsent + ((c - largeW) % BufferSize) + 1 ELSE buffer[c]) \in Int
      BY <1>0, <1>i, <1>n
    <2>2. buffer' = buffer \/
             buffer' = [c \in DOMAIN buffer |->
                          IF (c - largeW) % BufferSize < sendThisTime
                          THEN sent + gsent + ((c - largeW) % BufferSize) + 1 ELSE buffer[c]]
      BY <1>2, ChunkStep
    <2> QED BY <1>0, <2>1, <2>2
  <1>3. CASE commitBuffer
    <2>1. CASE buffer' = buffer
      BY <1>0, <2>1
    <2>2. CASE buffer' # buffer
      <3>1. PICK n \in Nat :
               buffer' = [c \in DOMAIN buffer |->
                            IF (c - fromW) % BufferSize < n
                            THEN -(fromW + ((c - fromW) % BufferSize) + 1) ELSE buffer[c]]
        BY <1>3, <2>2, ReplyStep
      <3>2. \A c \in 0..(BufferSize - 1) :
             (IF (c - fromW) % BufferSize < n
              THEN -(fromW + ((c - fromW) % BufferSize) + 1) ELSE buffer[c]) \in Int
        BY <1>0, <1>i, <1>n
      <3> QED BY <1>0, <3>1, <3>2
    <2> QED BY <2>1, <2>2
  <1>4. CASE ~Fill /\ ~writeFully_chunk /\ ~commitBuffer
    BY <1>0, <1>4, Actors, GuestEffects, HostEffects, DeviceFrame DEF vars
  <1> QED BY <1>1, <1>2, <1>3, <1>4

LEMMA WordTypes ==
    ASSUME TypeOK, RingsInv, HostInv, TransferInv, [Next]_vars
    PROVE  /\ host_state' \in {"NEED_NOTIFY", "CAN_CONSUME", "EXIT", "RENDERING"}
           /\ transfer_mode' \in {1, 3} /\ transfer_size' \in Nat
  <1>0. /\ host_state \in {"NEED_NOTIFY", "CAN_CONSUME", "EXIT", "RENDERING"}
        /\ transfer_mode \in {1, 3} /\ transfer_size \in Nat
    BY DEF TypeOK
  <1>1. host_state' \in {"NEED_NOTIFY", "CAN_CONSUME", "EXIT", "RENDERING"}
    <2>1. CASE HostStep
      <3>1. CASE ReceiveCommand
        BY <1>0, <3>1 DEF ReceiveCommand
      <3>2. CASE commitBuffer
        BY <1>0, <3>2, ReplyStep
      <3>3. CASE ~ReceiveCommand /\ ~commitBuffer
        BY <1>0, <2>1, <3>3 DEF HostStep, readRaw, DrainReadBuffer, ReturnData, LoopTop, PollToHost,
           PollLarge, type1Read, type1Read_advance, type3Read, type3Read_sub, type3Read_copy,
           Unavailable, onUnavailableRead, doSnapshotOperation, snapshotOperation
      <3> QED BY <3>1, <3>2, <3>3
    <2>2. CASE DeviceMove
      BY <1>0, <2>2 DEF DeviceMove, ControlStep, saveRingBlocks, saveBufferBlocks, save, resume, destroy, send, Crash, preSave
    <2>3. CASE ~HostStep /\ ~DeviceMove
      BY <1>0, <2>3, Actors, GuestFrame DEF vars
    <2> QED BY <2>1, <2>2, <2>3
  <1>2. transfer_mode' \in {1, 3}
    <2>1. CASE SetTransferMode
      BY <2>1 DEF SetTransferMode
    <2>2. CASE GuestMove /\ ~SetTransferMode
      BY <1>0, <2>2 DEF GuestMove, GuestStep, Begin, Close, ensureType3Finished,
         ensureType1Finished, Fill, type1Write_room, type1Write_ring, writeFully_chunk, CheckHost,
         NotifyAfter, SetTransferSize, speculativeRead
    <2>3. CASE ~GuestMove
      BY <1>0, <2>3, Actors, HostFrame, DeviceFrame DEF vars
    <2> QED BY <2>1, <2>2, <2>3
  <1>3. transfer_size' \in Nat
    <2>1. CASE GuestMove
      <3>1. transfer_size' \in {transfer_size, gop.size}
        BY <2>1 DEF GuestMove, GuestStep, Begin, Close, ensureType3Finished,
           ensureType1Finished, Fill, type1Write_room, type1Write_ring, writeFully_chunk, CheckHost,
           NotifyAfter, SetTransferSize, SetTransferMode, speculativeRead
      <3>2. gop.size \in Nat
        BY OpFacts
      <3> QED BY <1>0, <3>1, <3>2
    <2>2. CASE type3Read_sub
      <3>1. hpc = "type3sub" /\ transfer_size' = transfer_size - todo
        BY <2>2 DEF type3Read_sub
      <3>2. todo \in Nat /\ todo =< transfer_size
        BY <3>1, Announced, NumberFacts
      <3> QED BY <1>0, <3>1, <3>2
    <2>3. CASE ~GuestMove /\ ~type3Read_sub
      BY <1>0, <2>3, Actors, HostEffects, DeviceFrame DEF vars
    <2> QED BY <2>1, <2>2, <2>3
  <1> QED BY <1>1, <1>2, <1>3

LEMMA MessagesType ==
    ASSUME TypeOK, [Next]_vars
    PROVE  messages' \in Seq(Messages) /\ Len(messages') =< Capacity
  <1>0. messages \in Seq(Messages) /\ Len(messages) =< Capacity /\ Capacity \in Nat
    BY SeqFacts, LimitsAssumption DEF Messages
  <1>1. ASSUME NEW cmd \in Messages, Len(messages) < Capacity, messages' = Append(messages, cmd)
        PROVE  messages' \in Seq(Messages) /\ Len(messages') =< Capacity
    <2>1. messages' \in Seq(Messages) /\ Len(messages') = Len(messages) + 1 /\ Len(messages) \in Nat
      BY <1>0, <1>1
    <2> QED BY <1>0, <1>1, <2>1
  <1>2. CASE messages' = messages
    BY <1>0, <1>2
  <1>3. CASE GuestMove
    <2>1. messages' = messages \/ (Len(messages) < Capacity /\ messages' = Append(messages, "Wakeup"))
      BY <1>3, GuestEffects DEF notifyAvailable
    <2>2. "Wakeup" \in Messages
      BY DEF Messages
    <2> QED BY <1>1, <1>2, <2>1, <2>2
  <1>4. CASE ReceiveCommand
    <2>1. messages # <<>> /\ messages' = Tail(messages)
      BY <1>4 DEF ReceiveCommand
    <2>2. /\ Tail(messages) \in Seq(Messages) /\ Len(Tail(messages)) = Len(messages) - 1
          /\ Len(messages) \in Nat
      BY <1>0, <2>1
    <2> QED BY <1>0, <2>1, <2>2
  <1>5. CASE send
    <2>1. ctl \in {"pause", "postSave", "exit"} /\ Command[ctl] \in Messages
      BY <1>5 DEF send, Command, Messages
    <2>2. Len(messages) < Capacity /\ messages' = Append(messages, Command[ctl])
      BY <1>5 DEF send, Enqueue
    <2> QED BY <1>1, <2>1, <2>2
  <1>6. CASE DeviceMove
    <2>1. CASE ~send
      BY <1>2, <1>6, <2>1 DEF DeviceMove, ControlStep, saveRingBlocks, saveBufferBlocks, save, resume, destroy, Crash, preSave
    <2> QED BY <1>5, <2>1
  <1>7. CASE HostStep
    BY <1>2, <1>4, <1>7, HostEffects
  <1>8. CASE UNCHANGED vars
    BY <1>2, <1>8 DEF vars
  <1> QED BY <1>3, <1>6, <1>7, <1>8, Actors

GuestPlaces == {"idle", "fill", "room", "write", "check", "after", "size", "mode3", "mode", "read", "closed"}
                 \cup DOMAIN AfterType3 \cup DOMAIN AfterType1

GuestTypes ==
    /\ gpc \in GuestPlaces
    /\ gop \in Ops \cup {NoOp} /\ gsent \in 0..gop.size
    /\ {pinged, nudging} \subseteq BOOLEAN
    /\ writeStart \in 0..(Slots - 1) /\ sent \in Nat /\ callEnd \in Nat /\ got \in Seq(Int)

LEMMA GuestTypesStep ==
    ASSUME TypeOK, GuestInv, RingsInv, WaitedInv, [Next]_vars
    PROVE  GuestTypes'
  <1>0. GuestTypes
    BY DEF TypeOK, GuestTypes, GuestPlaces
  <1>n. /\ gop.size \in Nat /\ gsent \in Nat /\ gsent \in 0..gop.size /\ sent \in Nat /\ callEnd \in Nat
        /\ Slots \in Nat \ {0} /\ writeStart \in Nat /\ fromW \in Nat /\ fromR \in Nat /\ fromR =< fromW
    <2>1. gop.size \in Nat /\ gsent \in Nat /\ gsent \in 0..gop.size /\ sent \in Nat
      BY OpFacts
    <2>2. callEnd \in Nat /\ writeStart \in Nat /\ fromW \in Nat /\ fromR \in Nat
      BY NumberFacts
    <2>3. Slots \in Nat \ {0}
      BY SlotsProduct
    <2>4. fromR =< fromW
      BY DEF RingsInv
    <2> QED BY <2>1, <2>2, <2>3, <2>4
  <1>z. NoOp.size = 0 /\ 0 \in 0..0
    BY DEF NoOp
  <1>1. ASSUME NEW o \in Ops, Begin(o) PROVE GuestTypes'
    <2>1. o.size \in Nat
      BY DEF Ops, LimitsAssumption
    <2>2. /\ gpc' \in {"alloc3", "write3"} /\ gop' = o /\ callEnd' \in {callEnd, sent + o.size}
          /\ UNCHANGED <<gsent, pinged, nudging, writeStart, sent, got>> /\ gpc = "idle"
      BY <1>1 DEF Begin
    <2>3. gsent = 0
      BY <2>2 DEF GuestInv
    <2>4. gsent' \in 0..gop'.size /\ callEnd' \in Nat
      BY <1>n, <2>1, <2>2, <2>3
    <2> QED BY <1>0, <2>2, <2>4 DEF GuestTypes, GuestPlaces, AfterType3
  <1>2. CASE Close
    BY <1>0, <1>2 DEF Close, GuestTypes, GuestPlaces, AfterType3
  <1>3. CASE ensureType3Finished
    <2>1. gpc' \in GuestPlaces
      BY <1>3 DEF ensureType3Finished, GuestPlaces, AfterType3, AfterType1
    <2>2. nudging' \in BOOLEAN
      BY <1>3 DEF ensureType3Finished
    <2>3. UNCHANGED <<gop, gsent, pinged, writeStart, sent, callEnd, got>>
      BY <1>3 DEF ensureType3Finished
    <2> QED BY <1>0, <2>1, <2>2, <2>3 DEF GuestTypes
  <1>4. CASE ensureType1Finished
    <2>1. gpc' \in GuestPlaces
      BY <1>4 DEF ensureType1Finished, GuestPlaces, AfterType1
    <2> QED BY <1>0, <1>4, <2>1 DEF ensureType1Finished, GuestTypes
  <1>5. CASE Fill
    BY <1>0, <1>5 DEF Fill, GuestTypes, GuestPlaces, AfterType3
  <1>6. CASE type1Write_room
    BY <1>0, <1>6 DEF type1Write_room, GuestTypes, GuestPlaces
  <1>7. CASE type1Write_ring
    <2>1. /\ gpc' = "check" /\ UNCHANGED <<gop, pinged, nudging, writeStart, sent, callEnd, got>>
          /\ gsent' \in {gsent, gop.size}
      BY <1>7, RingStep
    <2>2. gsent' \in 0..gop'.size
      BY <1>n, <2>1
    <2> QED BY <1>0, <2>1, <2>2 DEF GuestTypes, GuestPlaces
  <1>8. CASE writeFully_chunk
    <2>1. /\ gpc = "write" /\ gpc' = "check"
          /\ UNCHANGED <<gop, pinged, nudging, writeStart, sent, callEnd, got>>
          /\ gsent' \in {gsent, gsent + sendThisTime}
      BY <1>8, ChunkStep
    <2>2. gsent < gop.size
      BY <2>1 DEF GuestInv
    <2>3. PICK n \in Nat : n = sendThisTime /\ n =< gop.size - gsent
      BY <2>2, ChunkFacts
    <2>4. gsent' \in 0..gop'.size
      BY <1>n, <2>1, <2>3
    <2> QED BY <1>0, <2>1, <2>4 DEF GuestTypes, GuestPlaces
  <1>9. CASE CheckHost
    <2>1. /\ gpc' \in {"after", "write"} /\ pinged' \in {pinged, TRUE}
          /\ UNCHANGED <<gop, gsent, nudging, writeStart, sent, callEnd, got>>
      BY <1>9 DEF CheckHost
    <2> QED BY <1>0, <2>1 DEF GuestTypes, GuestPlaces
  <1>f. ASSUME Finish PROVE /\ gpc' \in GuestPlaces /\ gop' \in Ops \cup {NoOp} /\ gsent' \in 0..gop'.size
                            /\ pinged' \in BOOLEAN /\ sent' \in Nat
    <2>1. gpc' \in GuestPlaces
      BY <1>f DEF Finish, GuestPlaces, AfterType3
    <2>2. gop' = NoOp /\ gsent' = 0 /\ pinged' = FALSE /\ sent' = sent + gop.size
      BY <1>f DEF Finish
    <2>3. gsent' \in 0..gop'.size
      BY <1>z, <2>2
    <2>4. sent' \in Nat
      BY <1>n, <2>2
    <2> QED BY <2>1, <2>2, <2>3, <2>4
  <1>10. CASE NotifyAfter
    <2>1. CASE gop.kind = "commit"
      <3>1. Finish /\ writeStart' = (writeStart + 1) % Slots /\ UNCHANGED <<nudging, callEnd, got>>
        BY <1>10, <2>1 DEF NotifyAfter, advanceWrite
      <3>2. writeStart + 1 \in Int
        BY <1>n
      <3>3. (writeStart + 1) % Slots \in 0..(Slots - 1)
        BY <1>n, <3>2, DivMod
      <3> QED BY <1>0, <1>f, <3>1, <3>3 DEF GuestTypes
    <2>2. CASE gop.kind # "commit"
      <3>1. gpc' \in {"end3", "mode"} /\ UNCHANGED <<gop, gsent, pinged, sent, writeStart, nudging, callEnd, got>>
        BY <1>10, <2>2 DEF NotifyAfter
      <3> QED BY <1>0, <3>1 DEF GuestTypes, GuestPlaces, AfterType3
    <2> QED BY <2>1, <2>2
  <1>11. CASE SetTransferSize
    BY <1>0, <1>11 DEF SetTransferSize, GuestTypes, GuestPlaces
  <1>12. CASE SetTransferMode
    <2>1. UNCHANGED <<nudging, writeStart, callEnd, got>>
      BY <1>12 DEF SetTransferMode
    <2>2. CASE gpc' = "write" /\ UNCHANGED <<op, sent>>
      BY <1>0, <2>1, <2>2 DEF GuestTypes, GuestPlaces
    <2>3. CASE Finish
      BY <1>0, <1>f, <2>1, <2>3 DEF GuestTypes
    <2> QED BY <1>12, <2>2, <2>3 DEF SetTransferMode
  <1>13. CASE speculativeRead
    <2>1. /\ gpc' \in {"idle", "read3"} /\ callEnd' \in {0, callEnd}
          /\ got' = got \o Take(fromR, fromW - fromR)
          /\ UNCHANGED <<gop, gsent, pinged, nudging, writeStart, sent>>
      BY <1>13 DEF speculativeRead
    <2>2. fromW - fromR \in Nat
      BY <1>n
    <2>3. got \in Seq(Int) /\ Take(fromR, fromW - fromR) \in Seq(Int)
      BY <1>n, <2>2, TakeFacts, SeqFacts
    <2>4. got' \in Seq(Int) /\ callEnd' \in Nat
      BY <1>n, <2>1, <2>3, ConcatFacts
    <2> QED BY <1>0, <2>1, <2>4 DEF GuestTypes, GuestPlaces, AfterType3
  <1>14. CASE HostStep \/ DeviceMove \/ UNCHANGED vars
    BY <1>0, <1>14, HostFrame, DeviceFrame DEF vars, GuestTypes
  <1> QED BY <1>1, <1>2, <1>3, <1>4, <1>5, <1>6, <1>7, <1>8, <1>9, <1>10, <1>11, <1>12, <1>13, <1>14,
             Actors DEF GuestMove, GuestStep

HostPlaces == {"render", "top", "poll", "pollLarge", "type1", "advance", "type3", "type3sub",
               "type3copy", "unavailable", "callback", "receive", "null", "saving", "paused", "exited"}

HostTypes ==
    /\ hpc \in HostPlaces
    /\ wanted \in 0..MaxWanted /\ dst \in Seq(Int) /\ readBuffer \in Seq(Int)
    /\ {inLargeXfer, shouldExit, shouldExitForSnapshot} \subseteq BOOLEAN
    /\ spins \in 0..MaxSpins /\ unavailableReads \in 0..MaxUnavailableReads
    /\ todo \in Nat /\ owed \in 0..ReplySize /\ received \in Seq(Int)

LEMMA HostTypesStep ==
    ASSUME TypeOK, RingsInv, WaitedInv, HostInv, TransferInv, [Next]_vars
    PROVE  HostTypes'
  <1>0. HostTypes
    BY DEF TypeOK, HostTypes, HostPlaces
  <1>n. /\ wanted \in Nat /\ todo \in Nat /\ largeW \in Nat /\ largeR \in Nat /\ largeR =< largeW
        /\ transfer_size \in Nat /\ owed \in Nat /\ owed =< ReplySize /\ ReplySize \in Nat \ {0}
        /\ MaxWanted \in Nat /\ MaxSpins \in Nat \ {0} /\ MaxUnavailableReads \in Nat \ {0}
        /\ spins \in Nat /\ unavailableReads \in Nat
    BY NumberFacts, LimitsAssumption DEF RingsInv
  <1>s. dst \in Seq(Int) /\ readBuffer \in Seq(Int) /\ received \in Seq(Int)
        /\ Len(dst) \in Nat /\ Len(readBuffer) \in Nat /\ <<>> \in Seq(Int)
    BY SeqFacts
  <1>1. ASSUME NEW w \in 1..MaxWanted, readRaw(w) PROVE HostTypes'
    <2>1. w \in 0..MaxWanted
      BY <1>n
    <2> QED BY <1>0, <1>1, <2>1 DEF readRaw, HostTypes, HostPlaces
  <1>2. CASE DrainReadBuffer
    <2>1. /\ readBuffer # <<>> /\ Len(dst) < wanted /\ hpc' = "top"
          /\ dst' = dst \o SubSeq(readBuffer, 1, AtMost(Len(readBuffer), wanted - Len(dst)))
          /\ readBuffer' = SubSeq(readBuffer, AtMost(Len(readBuffer), wanted - Len(dst)) + 1, Len(readBuffer))
          /\ UNCHANGED <<wanted, inLargeXfer, spins, todo, thread>>
      BY <1>2 DEF DrainReadBuffer
    <2>2. PICK n \in 0..Len(readBuffer) : n = AtMost(Len(readBuffer), wanted - Len(dst))
      BY <1>n, <1>s, <2>1 DEF AtMost
    <2>3. SubSeq(readBuffer, 1, n) \in Seq(Int) /\ SubSeq(readBuffer, n + 1, Len(readBuffer)) \in Seq(Int)
      BY <1>s, SplitFacts
    <2>4. dst' \in Seq(Int) /\ readBuffer' \in Seq(Int)
      BY <1>s, <2>1, <2>2, <2>3, ConcatFacts
    <2> QED BY <1>0, <2>1, <2>4 DEF HostTypes, HostPlaces
  <1>3. CASE ReturnData
    <2>1. /\ hpc' = "render" /\ received' = received \o dst /\ owed' \in {0, ReplySize}
          /\ wanted' = 0 /\ dst' = <<>> /\ inLargeXfer' = TRUE /\ spins' = 0 /\ todo' = 0
          /\ UNCHANGED <<readBuffer, unavailableReads, shouldExit, shouldExitForSnapshot>>
      BY <1>3 DEF ReturnData
    <2>2. received' \in Seq(Int) /\ owed' \in 0..ReplySize
      BY <1>n, <1>s, <2>1, ConcatFacts
    <2>3. 0 \in 0..MaxWanted /\ 0 \in 0..MaxSpins /\ 0 \in Nat
      BY <1>n
    <2> QED BY <1>0, <1>s, <2>1, <2>2, <2>3 DEF HostTypes, HostPlaces
  <1>4. CASE LoopTop
    BY <1>0, <1>4 DEF LoopTop, HostTypes, HostPlaces
  <1>5. CASE PollToHost
    <2>1. hpc' \in {"type1", "pollLarge"} /\ inLargeXfer' \in BOOLEAN
          /\ UNCHANGED <<wanted, dst, readBuffer, spins, todo, thread>>
      BY <1>5 DEF PollToHost
    <2> QED BY <1>0, <2>1 DEF HostTypes, HostPlaces
  <1>6. CASE PollLarge
    <2>1. hpc' \in {"type3", "unavailable"} /\ todo' = largeW - largeR
          /\ UNCHANGED <<wanted, dst, readBuffer, inLargeXfer, spins, thread>>
      BY <1>6 DEF PollLarge
    <2>2. todo' \in Nat
      BY <1>n, <2>1
    <2> QED BY <1>0, <2>1, <2>2 DEF HostTypes, HostPlaces
  <1>7. CASE type1Read
    <2>1. hpc' = "advance" /\ UNCHANGED <<wanted, inLargeXfer, spins, todo, thread>>
      BY <1>7, Type1Step DEF type1Read
    <2>2. Take(toHost[1].slot * FlushInterval, toHost[1].size) \in Seq(Int)
      BY <1>7, Type1Step, TakeSlot
    <2>3. dst' \in Seq(Int) /\ readBuffer' \in Seq(Int)
      BY <1>7, <1>s, <2>2, Type1Step
    <2> QED BY <1>0, <2>1, <2>3 DEF HostTypes, HostPlaces
  <1>8. CASE type1Read_advance
    BY <1>0, <1>8 DEF type1Read_advance, HostTypes, HostPlaces
  <1>9. CASE type3Read
    <2>1. hpc' = "type3sub" /\ todo' = AtMost(todo, AtMost(transfer_size, wanted))
          /\ UNCHANGED <<wanted, dst, readBuffer, inLargeXfer, spins, thread>>
      BY <1>9 DEF type3Read
    <2>2. todo' \in Nat
      BY <1>n, <2>1 DEF AtMost
    <2> QED BY <1>0, <2>1, <2>2 DEF HostTypes, HostPlaces
  <1>10. CASE type3Read_sub
    BY <1>0, <1>10 DEF type3Read_sub, HostTypes, HostPlaces
  <1>11. CASE type3Read_copy
    <2>1. PICK n \in Nat :
             /\ n =< todo /\ dst' = dst \o Take(largeR, n) /\ todo' = todo - n
             /\ hpc' \in {"top", "type3copy"}
             /\ inLargeXfer' \in {transfer_size # 0, inLargeXfer}
      BY <1>11, CopyStep
    <2>2. UNCHANGED <<wanted, readBuffer, spins, thread>>
      BY <1>11 DEF type3Read_copy
    <2>3. Take(largeR, n) \in Seq(Int)
      BY <1>n, TakeFacts
    <2>4. dst' \in Seq(Int) /\ todo' \in Nat
      BY <1>n, <1>s, <2>1, <2>3, ConcatFacts
    <2>5. inLargeXfer' \in BOOLEAN
      BY <1>0, <2>1 DEF HostTypes
    <2> QED BY <1>0, <2>1, <2>2, <2>4, <2>5 DEF HostTypes, HostPlaces
  <1>12. CASE Unavailable
    <2>1. /\ hpc' \in {"top", "null", "callback"} /\ inLargeXfer' \in {inLargeXfer, FALSE}
          /\ spins' \in {spins, (spins + 1) % MaxSpins}
          /\ UNCHANGED <<wanted, dst, readBuffer, todo, thread>>
      BY <1>12 DEF Unavailable
    <2>2. spins + 1 \in Int
      BY <1>n
    <2>3. (spins + 1) % MaxSpins \in 0..(MaxSpins - 1)
      BY <1>n, <2>2, DivMod
    <2>4. spins' \in 0..MaxSpins
      BY <1>0, <1>n, <2>1, <2>3 DEF HostTypes
    <2> QED BY <1>0, <2>1, <2>4 DEF HostTypes, HostPlaces
  <1>13. CASE onUnavailableRead
    <2>1. /\ hpc' \in {"receive", "top"} /\ UNCHANGED <<reading, shouldExit, shouldExitForSnapshot, owed, received>>
          /\ \/ unavailableReads' = 0
             \/ unavailableReads' = unavailableReads + 1 /\ ~(unavailableReads + 1 >= MaxUnavailableReads)
      BY <1>13 DEF onUnavailableRead
    <2>2. unavailableReads' \in 0..MaxUnavailableReads
      BY <1>n, <2>1
    <2> QED BY <1>0, <2>1, <2>2 DEF HostTypes, HostPlaces
  <1>14. CASE ReceiveCommand
    <2>1. /\ hpc' = "top" /\ UNCHANGED <<reading, unavailableReads, owed, received>>
          /\ shouldExit' \in BOOLEAN /\ shouldExitForSnapshot' \in BOOLEAN
      BY <1>14 DEF ReceiveCommand
    <2> QED BY <1>0, <2>1 DEF HostTypes, HostPlaces
  <1>15. CASE commitBuffer
    <2>1. /\ hpc' = "render" /\ UNCHANGED <<wanted, dst, readBuffer, inLargeXfer, spins, todo>>
          /\ UNCHANGED <<unavailableReads, shouldExit, shouldExitForSnapshot, received>>
      BY <1>15, ReplyStep
    <2>2. PICK n \in Nat : n =< owed /\ (owed' = owed - n \/ owed' = 0)
      BY <1>15, <1>n, ReplyStep
    <2>3. owed' \in 0..ReplySize
      BY <1>n, <2>2
    <2> QED BY <1>0, <2>1, <2>3 DEF HostTypes, HostPlaces
  <1>16. CASE doSnapshotOperation
    BY <1>0, <1>16 DEF doSnapshotOperation, HostTypes, HostPlaces
  <1>17. CASE snapshotOperation
    <2>1. 0 \in 0..MaxWanted /\ 0 \in 0..MaxSpins /\ 0 \in Nat
      BY <1>n
    <2> QED BY <1>0, <1>17, <2>1 DEF snapshotOperation, HostTypes, HostPlaces
  <1>18. CASE HostStep
    BY <1>1, <1>2, <1>3, <1>4, <1>5, <1>6, <1>7, <1>8, <1>9, <1>10, <1>11, <1>12, <1>13, <1>14, <1>15,
       <1>16, <1>17, <1>18 DEF HostStep
  <1>19. CASE GuestMove \/ DeviceMove \/ UNCHANGED vars
    BY <1>0, <1>19, GuestFrame, DeviceFrame DEF vars, HostTypes
  <1> QED BY <1>18, <1>19, Actors

Controls == {"run", "rings", "buffers", "save", "resume", "setExit", "destroy", "destroyed"}
              \cup DOMAIN Command
Images == [toHost : Seq([slot : 0..(Slots - 1), size : 1..FlushInterval]),
           largeW : Nat, largeR : Nat, buffer : [0..(BufferSize - 1) -> Int]]

LEMMA ControlTypesStep ==
    ASSUME TypeOK, [Next]_vars
    PROVE  /\ ctl' \in Controls
           /\ {vmRunning', alive', exiting', inSnapshotOperation'} \subseteq BOOLEAN
           /\ state' \in {"Empty", "StartSaving", "InProgress", "Finished"} /\ saves' \in 0..MaxSaves
  <1>0. /\ ctl \in Controls
        /\ {vmRunning, alive, exiting, inSnapshotOperation} \subseteq BOOLEAN
        /\ state \in {"Empty", "StartSaving", "InProgress", "Finished"} /\ saves \in 0..MaxSaves
    BY DEF TypeOK, Controls
  <1>1. CASE GuestMove
    BY <1>0, <1>1, GuestFrame
  <1>2. CASE HostStep
    <2>1. state' \in {"Empty", "StartSaving", "InProgress", "Finished"}
      BY <1>0, <1>2, HostEffects DEF doSnapshotOperation, snapshotOperation
    <2> QED BY <1>0, <1>2, <2>1, HostFrame
  <1>3. CASE save
    BY <1>0, <1>3 DEF save, Controls, Command
  <1>4. CASE resume
    BY <1>0, <1>4 DEF resume, Controls
  <1>5. CASE destroy
    BY <1>0, <1>5 DEF destroy, Controls, Command
  <1>6. CASE send
    <2>1. ctl' \in {"rings", "resume", "destroy"}
      BY <1>6 DEF send, Command, AfterSend
    <2> QED BY <1>0, <1>6, <2>1 DEF send, Controls
  <1>7. CASE Crash
    BY <1>0, <1>7 DEF Crash
  <1>8. CASE preSave
    <2>1. saves' = saves + 1 /\ saves < MaxSaves /\ MaxSaves \in Nat
      BY <1>8, LimitsAssumption DEF preSave
    <2>2. saves' \in 0..MaxSaves
      BY <1>0, <2>1
    <2> QED BY <1>0, <1>8, <2>2 DEF preSave, Controls, Command
  <1>9. CASE UNCHANGED vars
    BY <1>0, <1>9 DEF vars
  <1>10. CASE saveRingBlocks
    BY <1>0, <1>10 DEF saveRingBlocks, Controls
  <1>11. CASE saveBufferBlocks
    BY <1>0, <1>11 DEF saveBufferBlocks, Controls
  <1> QED BY <1>1, <1>2, <1>3, <1>4, <1>5, <1>6, <1>7, <1>8, <1>9, <1>10, <1>11, Actors DEF DeviceMove, ControlStep

LEMMA NoImageType == NoImage \in Images /\ EmptyBuffer \in [0..(BufferSize - 1) -> Int]
  <1>1. EmptyBuffer \in [0..(BufferSize - 1) -> Int]
    BY DEF EmptyBuffer
  <1> QED BY <1>1 DEF NoImage, Images

LEMMA SnapshotTypesStep ==
    ASSUME TypeOK, [Next]_vars
    PROVE  image' \in Images /\ decoded' \in Nat
  <1>0. /\ image \in Images /\ decoded \in Nat
        /\ toHost \in Seq([slot : 0..(Slots - 1), size : 1..FlushInterval])
        /\ largeW \in Nat /\ largeR \in Nat /\ buffer \in [0..(BufferSize - 1) -> Int]
    BY DEF TypeOK, Images
  <1>1. CASE GuestMove
    BY <1>0, <1>1, GuestFrame
  <1>2. CASE HostStep
    <2>1. decoded' \in {decoded, Len(received) + Len(readBuffer)}
      BY <1>2, HostEffects DEF doSnapshotOperation, snapshotOperation
    <2> QED BY <1>0, <1>2, <2>1, HostFrame, SeqFacts
  <1>3. CASE saveRingBlocks
    BY <1>0, <1>3 DEF saveRingBlocks, Images
  <1>4. CASE saveBufferBlocks
    BY <1>0, <1>4 DEF saveBufferBlocks, Images
  <1>5. CASE resume \/ preSave
    BY <1>0, <1>5, NoImageType DEF resume, preSave
  <1>6. CASE save \/ destroy \/ send \/ Crash \/ UNCHANGED vars
    BY <1>0, <1>6 DEF save, destroy, send, Crash, vars
  <1> QED BY <1>1, <1>2, <1>3, <1>4, <1>5, <1>6, Actors DEF DeviceMove, ControlStep

LEMMA TypeInvariant ==
    ASSUME TypeOK, ProtocolInv, [Next]_vars
    PROVE  TypeOK'
  <1>0. GuestInv /\ RingsInv /\ WaitedInv /\ HostInv /\ TransferInv
    BY DEF ProtocolInv
  <1>1. toHost' \in Seq([slot : 0..(Slots - 1), size : 1..FlushInterval])
    BY <1>0, ToHostType DEF Descriptors
  <1>2. {largeW', largeR', fromW', fromR'} \subseteq Nat
    BY <1>0, RingTypes
  <1>3. buffer' \in [0..(BufferSize - 1) -> Int]
    BY <1>0, BufferType
  <1>4. /\ host_state' \in {"NEED_NOTIFY", "CAN_CONSUME", "EXIT", "RENDERING"}
        /\ transfer_mode' \in {1, 3} /\ transfer_size' \in Nat
    BY <1>0, WordTypes
  <1>5. /\ messages' \in Seq({"Wakeup", "Exit", "PausePreSnapshot", "ResumePostSnapshot"})
        /\ Len(messages') =< Capacity
    BY MessagesType DEF Messages
  <1>6. GuestTypes'
    BY <1>0, GuestTypesStep
  <1>7. HostTypes'
    BY <1>0, HostTypesStep
  <1>8. /\ ctl' \in Controls
        /\ {vmRunning', alive', exiting', inSnapshotOperation'} \subseteq BOOLEAN
        /\ state' \in {"Empty", "StartSaving", "InProgress", "Finished"} /\ saves' \in 0..MaxSaves
    BY ControlTypesStep
  <1>9. image' \in Images /\ decoded' \in Nat
    BY SnapshotTypesStep
  <1> QED BY <1>1, <1>2, <1>3, <1>4, <1>5, <1>6, <1>7, <1>8, <1>9
          DEF TypeOK, Controls, Images, GuestTypes, GuestPlaces, HostTypes, HostPlaces
-----------------------------------------------------------------------------
(* The whole invariant. *)

LEMMA InitTypes == ASSUME Init PROVE TypeOK
  <1>n. /\ BufferSize \in Nat \ {0} /\ Slots \in Nat /\ Slots > 1
        /\ {Capacity, MaxSpins, MaxUnavailableReads, ReplySize} \subseteq Nat \ {0}
        /\ MaxWanted \in Nat /\ MaxSaves \in Nat
    BY SizeFacts, LimitsAssumption
  <1>1. buffer \in [0..(BufferSize - 1) -> Int] /\ image \in Images /\ decoded \in Nat
    BY NoImageType DEF Init
  <1>2. /\ gop \in Ops \cup {NoOp} /\ gsent \in 0..gop.size
    BY DEF Init, NoOp
  <1>3. /\ 0 \in 0..(Slots - 1) /\ 0 \in 0..MaxWanted /\ 0 \in 0..MaxSpins /\ 0 \in 0..MaxUnavailableReads
        /\ 0 \in 0..ReplySize /\ 0 \in 0..MaxSaves
    BY <1>n
  <1>4. /\ toHost \in Seq([slot : 0..(Slots - 1), size : 1..FlushInterval])
        /\ messages \in Seq({"Wakeup", "Exit", "PausePreSnapshot", "ResumePostSnapshot"})
        /\ Len(messages) =< Capacity
        /\ got \in Seq(Int) /\ dst \in Seq(Int) /\ readBuffer \in Seq(Int) /\ received \in Seq(Int)
    BY <1>n DEF Init
  <1>5. /\ {largeW, largeR, fromW, fromR} \subseteq Nat
        /\ host_state \in {"NEED_NOTIFY", "CAN_CONSUME", "EXIT", "RENDERING"}
        /\ transfer_mode \in {1, 3} /\ transfer_size \in Nat
        /\ gpc = "idle" /\ sent \in Nat /\ callEnd \in Nat
        /\ hpc = "render" /\ todo \in Nat /\ ctl = "run" /\ state = "Empty"
    BY DEF Init
  <1>6. /\ {pinged, nudging} \subseteq BOOLEAN
        /\ {inLargeXfer, shouldExit, shouldExitForSnapshot} \subseteq BOOLEAN
        /\ {vmRunning, alive, exiting, inSnapshotOperation} \subseteq BOOLEAN
    BY DEF Init
  <1>7. /\ writeStart \in 0..(Slots - 1) /\ wanted \in 0..MaxWanted
        /\ spins \in 0..MaxSpins /\ unavailableReads \in 0..MaxUnavailableReads
        /\ owed \in 0..ReplySize /\ saves \in 0..MaxSaves
    <2>1. /\ writeStart = 0 /\ wanted = 0 /\ spins = 0 /\ unavailableReads = 0 /\ owed = 0
          /\ saves = 0
      BY DEF Init
    <2> QED BY <1>3, <2>1
  <1> QED BY <1>1, <1>2, <1>4, <1>5, <1>6, <1>7 DEF TypeOK, Images

LEMMA InitInvariant == ASSUME Init PROVE ProtocolInv
  <1>n. /\ BufferSize \in Nat \ {0} /\ Slots \in Nat /\ Slots > 1 /\ ReplySize \in Nat \ {0}
    BY SizeFacts, LimitsAssumption
  <1>0. /\ toHost = <<>> /\ messages = <<>> /\ got = <<>> /\ dst = <<>> /\ readBuffer = <<>>
        /\ received = <<>> /\ largeW = 0 /\ largeR = 0 /\ fromW = 0 /\ fromR = 0
        /\ host_state = "NEED_NOTIFY" /\ transfer_mode = 1 /\ transfer_size = 0
        /\ gpc = "idle" /\ gop = NoOp /\ gsent = 0 /\ pinged = FALSE /\ sent = 0 /\ callEnd = 0
        /\ hpc = "render" /\ inLargeXfer = TRUE /\ owed = 0
        /\ ctl = "run" /\ vmRunning = TRUE /\ alive = TRUE /\ exiting = FALSE /\ state = "Empty"
    BY DEF Init
  <1>o. NoOp.kind = "commit" /\ NoOp.size = 0 /\ NoOp.call = FALSE
    BY DEF NoOp
  <1>l. Len(toHost) = 0 /\ Len(messages) = 0 /\ Len(got) = 0 /\ Len(dst) = 0 /\ Len(readBuffer) = 0
        /\ Len(received) = 0
    BY <1>0
  <1>e. 1..0 = {} /\ 2..0 = {} /\ 0..(0 - 0 - 1) = {}
    OBVIOUS
  <1>1. GuestInv
    BY <1>0, <1>o DEF GuestInv, Resting
  <1>2. CallInv
    BY <1>0, <1>o DEF CallInv, Reading
  <1>3. RingsInv
    BY <1>0, <1>l, <1>n DEF RingsInv
  <1>4. WaitedInv
    BY <1>0 DEF WaitedInv
  <1>5. HostInv
    BY <1>0 DEF HostInv
  <1>6. TransferInv
    <2>1. LargeUnclaimed = 0 /\ LargeUnwritten = 0
      BY <1>0 DEF LargeUnclaimed, LargeUnwritten
    <2> QED BY <1>0, <1>o, <2>1 DEF TransferInv
  <1>7. ExitInv
    BY <1>0, <1>e, <1>l DEF ExitInv
  <1>8. SlotsInv
    BY <1>e, <1>l DEF SlotsInv
  <1>9. DecodedInv
    BY <1>e, <1>l DEF DecodedInv
  <1>f. First = 1 /\ Copied = 0 /\ 1 + 1 = 2
    BY <1>0, <1>l DEF First, Copied
  <1>10. SmallInv
    BY <1>e, <1>f, <1>l DEF SmallInv
  <1>11. LargeInv
    BY <1>0, <1>e, <1>f, <1>l DEF LargeInv
  <1>12. FilledInv
    BY <1>0 DEF FilledInv
  <1>13. ReplyInv
    <2>1. 0 % ReplySize = 0
      BY <1>n, ModSmall
    <2> QED BY <1>0, <1>e, <1>l, <1>n, <2>1 DEF ReplyInv
  <1>14. WakeInv
    BY <1>0, <1>o DEF WakeInv, Idling, Quiet
  <1>15. SnapshotInv
    BY <1>0 DEF SnapshotInv
  <1> QED BY <1>1, <1>2, <1>3, <1>4, <1>5, <1>6, <1>7, <1>8, <1>9, <1>10, <1>11, <1>12, <1>13, <1>14,
             <1>15 DEF ProtocolInv

LEMMA StepInvariant ==
    ASSUME TypeOK, ProtocolInv, [Next]_vars
    PROVE  ProtocolInv'
  <1>0. /\ GuestInv /\ CallInv /\ RingsInv /\ WaitedInv /\ HostInv /\ TransferInv /\ ExitInv
        /\ SlotsInv /\ DecodedInv /\ SmallInv /\ LargeInv /\ FilledInv /\ ReplyInv /\ WakeInv
        /\ SnapshotInv
    BY DEF ProtocolInv
  <1>1. GuestInv' /\ CallInv' /\ RingsInv' /\ WaitedInv'
    BY <1>0, GuestInvariant, CallInvariant, RingsInvariant, WaitedInvariant
  <1>2. HostInv' /\ TransferInv' /\ ExitInv' /\ SnapshotInv'
    BY <1>0, HostInvariant, TransferInvariant, ExitInvariant, SnapshotInvariant
  <1>3. SlotsInv' /\ DecodedInv' /\ FilledInv'
    BY <1>0, SlotsInvariant, DecodedInvariant, FilledInvariant
  <1>4. SmallInv' /\ LargeInv'
    BY <1>0, SmallInvariant, LargeInvariant
  <1>5. ReplyInv' /\ WakeInv'
    BY <1>0, ReplyInvariant, WakeInvariant
  <1> QED BY <1>1, <1>2, <1>3, <1>4, <1>5 DEF ProtocolInv

(* The protocol's state is what the parts of the invariant say, for every  *)
(* size of the buffer and of its slots, every capacity of the rings and    *)
(* of the channel, and every length of the stream.                         *)
THEOREM ProtocolInvariant == Safety => [](TypeOK /\ ProtocolInv)
  <1>1. Init => TypeOK /\ ProtocolInv
    BY InitTypes, InitInvariant
  <1>2. TypeOK /\ ProtocolInv /\ [Next]_vars => (TypeOK /\ ProtocolInv)'
    BY TypeInvariant, StepInvariant
  <1> QED BY <1>1, <1>2, PTL DEF Safety

(* The shared words, the rings and the three processes always have their   *)
(* types: no descriptor but of a slot that exists, no ring overfull, and   *)
(* transfer_size never below zero, although guest and host both change it. *)
THEOREM TypeCorrect == Safety => []TypeOK
  BY ProtocolInvariant, PTL

(* What RingStream hands to the decoder is what AddressSpaceStream was     *)
(* given, each unit once, in order and intact, through snapshots, crashes  *)
(* and every mix of small commands and large transfers.                    *)
THEOREM StreamReachesDecoder == Safety => []StreamInOrder
  <1>1. ProtocolInv => StreamInOrder
    BY DEF ProtocolInv, DecodedInv, StreamInOrder
  <1> QED BY <1>1, ProtocolInvariant, PTL

(* What speculativeRead hands to the guest is the host's replies, in order *)
(* and intact, although they use the buffer that the commands use.         *)
THEOREM RepliesReachGuest == Safety => []RepliesInOrder
  <1>1. ProtocolInv => RepliesInOrder
    BY DEF ProtocolInv, ReplyInv, RepliesInOrder
  <1> QED BY <1>1, ProtocolInvariant, PTL

(* The host never meets a descriptor in transfer mode 3, transfer_size is  *)
(* what it has still to take however its subtractions and the guest's      *)
(* stores interleave, and type3Read never takes nothing.                   *)
THEOREM TransfersConsistent == Safety => []TransferConsistent
  <1>1. ProtocolInv => TransferConsistent
    BY DEF ProtocolInv, TransferInv, WaitedInv, HostInv, TransferConsistent
  <1> QED BY <1>1, ProtocolInvariant, PTL

(* When onUnavailableRead sleeps with something to read and no message,    *)
(* the guest is on its way to pinging it.                                  *)
THEOREM WakeupsNotLost == Safety => []NoLostWakeup
  <1>1. ProtocolInv => NoLostWakeup
    BY DEF ProtocolInv, WakeInv, NoLostWakeup, Idling
  <1> QED BY <1>1, ProtocolInvariant, PTL

-----------------------------------------------------------------------------
(* What a snapshot holds. *)

(* The rings in the image are those of a moment since when the host has    *)
(* only taken from them; the whole image has what the host had not copied  *)
(* when the buffer was written, which it can only copy since; and the      *)
(* thread has saved itself with all it has copied.                         *)
ImageInv ==
    /\ ctl = "buffers" =>
          /\ image.largeW = largeW /\ image.largeR =< largeR
          /\ Len(toHost) =< Len(image.toHost)
          /\ \A k \in 1..Len(toHost) :
                toHost[k] = image.toHost[k + (Len(image.toHost) - Len(toHost))]
    /\ ctl \in {"save", "postSave", "resume"} =>
          \A u \in (Copied + 1)..(sent + gsent) : InImage(u)
    /\ state = "Finished" => decoded = Copied

LEMMA LeastNat ==
    ASSUME NEW T, T \subseteq Nat, T # {}
    PROVE  \E x \in T : \A y \in T : x =< y
  <1> DEFINE R == OpToRel(<, Nat)
  <1>1. IsWellFoundedOn(R, Nat)
    BY NatLessThanWellFounded
  <1>2. \A x, y \in Nat : x < y => <<x, y>> \in R
    BY DEF OpToRel
  <1> HIDE DEF R
  <1>3. PICK x \in T : \A y \in T : ~(<<y, x>> \in R)
    BY <1>1, WFMin
  <1>4. ASSUME NEW y \in T PROVE x =< y
    <2>1. x \in Nat /\ y \in Nat /\ ~(<<y, x>> \in R)
      BY <1>3
    <2>2. ~(y < x)
      BY <1>2, <2>1
    <2> QED BY <2>1, <2>2
  <1> QED BY <1>4

(* A unit that has been sent and not copied is in one of the commands in   *)
(* their slots (the first that ends after it), if there are any.           *)
LEMMA UnitInSlot ==
    ASSUME TypeOK, SmallInv, First =< Len(toHost), NEW u \in (Copied + 1)..(sent + gsent)
    PROVE  \E k \in 1..Len(toHost) : \E j \in 0..(toHost[k].size - 1) :
              buffer[toHost[k].slot * FlushInterval + j] = u
  <1>n. /\ Copied \in Nat /\ First \in {1, 2} /\ Len(toHost) \in Nat
        /\ sent \in Nat /\ gsent \in Nat /\ u \in Nat /\ Copied + 1 =< u /\ u < sent + gsent + 1
    BY CopiedFacts
  <1> DEFINE T == {k \in First..Len(toHost) : u < Start(k) + toHost[k].size}
  <1>1. Len(toHost) \in T
    BY <1>n DEF SmallInv
  <1>2. T \subseteq Nat /\ T # {}
    BY <1>1, <1>n
  <1>3. PICK k \in T : \A l \in T : k =< l
    BY <1>2, LeastNat
  <1>4. /\ k \in First..Len(toHost) /\ k \in 1..Len(toHost) /\ k \in Nat
        /\ u < Start(k) + toHost[k].size
    BY <1>3, <1>n
  <1>5. Start(k) \in Int /\ toHost[k].size \in Int
    BY <1>4, DescriptorFacts
  <1>6. Start(k) =< u
    <2>1. CASE k = First
      BY <2>1, <1>n DEF SmallInv
    <2>2. CASE k # First
      <3>1. k - 1 \in First..Len(toHost) /\ k \in (First + 1)..Len(toHost) /\ k - 1 \in 1..Len(toHost)
        BY <2>2, <1>4, <1>n
      <3>2. k - 1 \notin T
        <4>1. ~(k =< k - 1)
          BY <1>4
        <4> QED BY <4>1, <1>3
      <3>3. ~(u < Start(k - 1) + toHost[k - 1].size)
        BY <3>1, <3>2
      <3>4. Start(k) = Start(k - 1) + toHost[k - 1].size
        BY <3>1 DEF SmallInv
      <3> QED BY <3>3, <3>4, <1>5, <1>n
    <2> QED BY <2>1, <2>2
  <1>7. PICK j \in 0..(toHost[k].size - 1) : Start(k) + j = u
    <2>1. u - Start(k) \in 0..(toHost[k].size - 1) /\ Start(k) + (u - Start(k)) = u
      BY <1>4, <1>5, <1>6, <1>n
    <2> QED BY <2>1
  <1>8. buffer[toHost[k].slot * FlushInterval + j] = Start(k) + j
    BY <1>4 DEF SmallInv
  <1> QED BY <1>4, <1>7, <1>8

(* Otherwise it is in the ring for large transfers. *)
LEMMA UnitInRing ==
    ASSUME TypeOK, LargeInv, First > Len(toHost), NEW u \in (Copied + 1)..(sent + gsent)
    PROVE  \E r \in largeR..(largeW - 1) : buffer[r % BufferSize] = u
  <1>n. /\ Copied \in Nat /\ sent \in Nat /\ gsent \in Nat /\ largeW \in Nat /\ largeR \in Nat
        /\ u \in Nat
    BY CopiedFacts
  <1>1. Copied + (largeW - largeR) = sent + gsent
    BY DEF LargeInv
  <1>2. PICK j \in 0..(largeW - largeR - 1) : Copied + j + 1 = u
    <2>1. u - Copied - 1 \in 0..(largeW - largeR - 1) /\ Copied + (u - Copied - 1) + 1 = u
      BY <1>1, <1>n
    <2> QED BY <2>1
  <1>3. buffer[(largeR + j) % BufferSize] = u
    BY <1>2 DEF LargeInv
  <1>4. largeR + j \in largeR..(largeW - 1)
    BY <1>2, <1>n
  <1> QED BY <1>3, <1>4

(* So it is in the image as soon as the buffer has been written. *)
LEMMA BufferWritten ==
    ASSUME TypeOK, SmallInv, LargeInv, ImageInv, saveBufferBlocks
    PROVE  \A u \in (Copied + 1)..(sent + gsent) : InImage(u)'
  <1>0. /\ image' = [image EXCEPT !.buffer = buffer]
        /\ image.largeW = largeW /\ image.largeR =< largeR
        /\ Len(toHost) =< Len(image.toHost)
        /\ \A k \in 1..Len(toHost) :
              toHost[k] = image.toHost[k + (Len(image.toHost) - Len(toHost))]
    BY DEF saveBufferBlocks, ImageInv
  <1>t. /\ image.toHost \in Seq([slot : 0..(Slots - 1), size : 1..FlushInterval])
        /\ image.largeR \in Nat /\ largeW \in Nat /\ largeR \in Nat
        /\ toHost \in Seq([slot : 0..(Slots - 1), size : 1..FlushInterval])
    BY DEF TypeOK
  <1>1. /\ image'.toHost = image.toHost /\ image'.largeW = largeW /\ image'.largeR = image.largeR
        /\ image'.buffer = buffer
    <2>1. image \in Images
      BY DEF TypeOK, Images
    <2> QED BY <1>0, <2>1 DEF Images
  <1> SUFFICES ASSUME NEW u \in (Copied + 1)..(sent + gsent) PROVE InImage(u)'
    OBVIOUS
  <1>2. CASE First =< Len(toHost)
    <2>1. PICK k \in 1..Len(toHost) : \E j \in 0..(toHost[k].size - 1) :
              buffer[toHost[k].slot * FlushInterval + j] = u
      BY <1>2, UnitInSlot
    <2>2. PICK l \in 1..Len(image.toHost) : toHost[k] = image.toHost[l]
      <3>1. k + (Len(image.toHost) - Len(toHost)) \in 1..Len(image.toHost)
        <4>1. Len(toHost) \in Nat /\ Len(image.toHost) \in Nat
          BY <1>t
        <4> QED BY <1>0, <4>1
      <3> QED BY <1>0, <3>1
    <2> QED BY <1>1, <2>1, <2>2 DEF InImage
  <1>3. CASE First > Len(toHost)
    <2>1. PICK r \in largeR..(largeW - 1) : buffer[r % BufferSize] = u
      BY <1>3, UnitInRing
    <2>2. r \in image.largeR..(largeW - 1)
      BY <1>0, <1>t
    <2> QED BY <1>1, <2>1, <2>2 DEF InImage
  <1>4. First \in {1, 2} /\ Len(toHost) \in Nat
    BY CopiedFacts
  <1> QED BY <1>2, <1>3, <1>4

(* The host never gives back what it has copied, and its step outside the  *)
(* two snapshot operations leaves a saved state alone.                     *)
LEMMA CopiedGrows ==
    ASSUME TypeOK, ProtocolInv, HostStep
    PROVE  /\ Copied \in Nat /\ Copied' \in Nat /\ Copied =< Copied'
           /\ UNCHANGED <<sent, gsent>>
           /\ hpc \in {"saving", "paused"} => Copied' = Copied
  <1>0. GuestInv /\ WaitedInv /\ HostInv /\ TransferInv
    BY DEF ProtocolInv
  <1>n. Copied \in Nat /\ largeR \in Nat
    BY CopiedFacts
  <1>1. UNCHANGED <<sent, gsent, largeW>>
    BY HostFrame
  <1>2. CASE type1Read
    <2>1. /\ 1 \in 1..Len(toHost) /\ Copied' = Copied + toHost[1].size /\ hpc = "type1"
      BY <1>0, <1>2, Type1Step
    <2>2. toHost[1].size \in Nat
      BY <2>1, DescriptorFacts
    <2> QED BY <1>1, <1>n, <2>1, <2>2
  <1>3. CASE type1Read_advance
    <2>1. Copied' = Copied
      BY <1>0, <1>3, AdvanceStep DEF Copied
    <2> QED BY <1>1, <1>n, <2>1
  <1>4. CASE type3Read_copy
    <2>1. PICK n \in Nat :
             /\ dst' = dst \o Take(largeR, n) /\ UNCHANGED <<readBuffer, received>>
             /\ hpc = "type3copy"
      BY <1>0, <1>4, CopyStep
    <2>2. Take(largeR, n) \in Seq(Int) /\ Len(Take(largeR, n)) = n
      BY <1>n, TakeFacts
    <2>4. dst \in Seq(Int) /\ Len(received) \in Nat /\ Len(dst) \in Nat /\ Len(readBuffer) \in Nat
      BY SeqFacts
    <2>3. Len(dst') = Len(dst) + n
      BY <2>1, <2>2, <2>4, ConcatFacts
    <2> QED BY <1>1, <2>1, <2>3, <2>4 DEF Copied
  <1>5. CASE commitBuffer
    <2>1. Copied' = Copied
      BY <1>5 DEF commitBuffer, Copied
    <2> QED BY <1>1, <1>n, <2>1
  <1>6. CASE ~(type1Read \/ type1Read_advance \/ type3Read_copy \/ commitBuffer)
    <2>1. ~(Fill \/ type1Write_ring \/ writeFully_chunk) \/ Copied' = Copied
      BY GuestFrame DEF GuestMove, GuestStep, Copied
    <2>2. Copied' = Copied
      BY <1>0, <1>6, <2>1, StreamSteps DEF Next
    <2> QED BY <1>1, <1>n, <2>2
  <1> QED BY <1>2, <1>3, <1>4, <1>5, <1>6

LEMMA NextPlace ==
    ASSUME NEW l \in Int, NEW m \in Int, NEW k \in 1..(l - 1)
    PROVE  k + 1 \in 1..l /\ (k + 1) + (m - l) = k + (m - (l - 1))
  OBVIOUS

LEMMA RestShrinks ==
    ASSUME NEW a \in Int, NEW b \in Int, NEW c \in Int, a =< b
    PROVE  \A u \in (b + 1)..c : u \in (a + 1)..c
  OBVIOUS

LEMMA ImageInvariant ==
    ASSUME TypeOK, ProtocolInv, ImageInv, [Next]_vars
    PROVE  ImageInv'
  <1>0. SmallInv /\ LargeInv /\ HostInv /\ SnapshotInv
    BY DEF ProtocolInv
  <1>n. /\ Copied \in Nat /\ sent \in Nat /\ gsent \in Nat
        /\ Len(toHost) \in Nat /\ largeR \in Nat /\ largeW \in Nat
    BY CopiedFacts
  <1>i. image \in Images
    BY DEF TypeOK, Images
  <1>t. Len(image.toHost) \in Nat /\ image.largeR \in Nat
    <2>1. /\ image.toHost \in Seq([slot : 0..(Slots - 1), size : 1..FlushInterval])
          /\ image.largeR \in Nat
      BY <1>i DEF Images
    <2> QED BY <2>1
  <1>1. CASE UNCHANGED vars
    BY <1>1 DEF vars, ImageInv, InImage, Copied
  <1>2. CASE GuestMove
    <2>1. vmRunning /\ UNCHANGED <<ctl, state>>
      BY <1>2, GuestFrame
    <2>2. ctl \notin {"buffers", "save", "postSave", "resume"} /\ state # "Finished"
      BY <1>0, <2>1 DEF SnapshotInv
    <2> QED BY <2>1, <2>2 DEF ImageInv
  <1>3. CASE HostStep
    <2>1. /\ UNCHANGED <<ctl, image, largeW, sent, gsent>>
          /\ Copied' \in Nat /\ Copied =< Copied'
      BY <1>3, HostFrame, CopiedGrows
    <2>2. ctl = "buffers" => image.largeR =< largeR'
      <3>1. largeR' \in Nat /\ largeR =< largeR'
        <4>1. CASE type3Read_copy
          BY <1>0, <1>n, <4>1, CopyStep
        <4>2. CASE ~type3Read_copy
          BY <1>3, <1>n, <4>2, HostEffects
        <4> QED BY <4>1, <4>2
      <3> QED BY <3>1, <1>n, <1>t DEF ImageInv
    <2>3. ctl = "buffers" =>
            /\ Len(toHost') =< Len(image.toHost)
            /\ \A k \in 1..Len(toHost') :
                  toHost'[k] = image.toHost[k + (Len(image.toHost) - Len(toHost'))]
      <3>1. CASE type1Read_advance
        <4>1. /\ Len(toHost') = Len(toHost) - 1
              /\ \A k \in 1..Len(toHost') : toHost'[k] = toHost[k + 1]
          BY <1>0, <3>1, AdvanceStep
        <4> SUFFICES ASSUME ctl = "buffers"
                     PROVE  /\ Len(toHost') =< Len(image.toHost)
                            /\ \A k \in 1..Len(toHost') :
                                  toHost'[k] = image.toHost[k + (Len(image.toHost) - Len(toHost'))]
          OBVIOUS
        <4>2. Len(toHost') =< Len(image.toHost)
          BY <1>n, <1>t, <4>1 DEF ImageInv
        <4>3. ASSUME NEW k \in 1..Len(toHost')
              PROVE  toHost'[k] = image.toHost[k + (Len(image.toHost) - Len(toHost'))]
          <5>1. /\ k + 1 \in 1..Len(toHost)
                /\ (k + 1) + (Len(image.toHost) - Len(toHost)) = k + (Len(image.toHost) - Len(toHost'))
            <6>1. k \in 1..(Len(toHost) - 1)
              BY <4>1, Zenon
            <6>2. Len(toHost) \in Int /\ Len(image.toHost) \in Int
              BY <1>n, <1>t
            <6>3. /\ k + 1 \in 1..Len(toHost)
                  /\ (k + 1) + (Len(image.toHost) - Len(toHost))
                        = k + (Len(image.toHost) - (Len(toHost) - 1))
              BY <6>1, <6>2, NextPlace, Zenon
            <6> QED BY <4>1, <6>3, Zenon
          <5>2. toHost[k + 1] = image.toHost[(k + 1) + (Len(image.toHost) - Len(toHost))]
            BY <5>1 DEF ImageInv
          <5> QED BY <4>1, <5>1, <5>2
        <4> QED BY <4>2, <4>3
      <3>2. CASE ~type1Read_advance
        <4>1. toHost' = toHost
          BY <1>3, <3>2, HostEffects
        <4> QED BY <4>1 DEF ImageInv
      <3> QED BY <3>1, <3>2
    <2>4. ctl \in {"save", "postSave", "resume"} =>
            \A u \in (Copied' + 1)..(sent + gsent) : InImage(u)'
      <3>1. \A u \in (Copied' + 1)..(sent + gsent) : u \in (Copied + 1)..(sent + gsent)
        <4>1. sent + gsent \in Int /\ Copied \in Int /\ Copied' \in Int
          BY <1>n, <2>1
        <4> QED BY <2>1, <4>1, RestShrinks
      <3>2. \A u \in (Copied + 1)..(sent + gsent) : InImage(u)' <=> InImage(u)
        BY <2>1 DEF InImage
      <3> QED BY <3>1, <3>2 DEF ImageInv
    <2>5. state' = "Finished" => decoded' = Copied'
      <3>1. CASE snapshotOperation /\ hpc = "saving"
        <4>1. decoded' = Len(received) + Len(readBuffer) /\ dst = <<>>
          BY <1>0, <3>1 DEF snapshotOperation, HostInv
        <4>2. Len(dst) = 0 /\ Len(received) \in Nat /\ Len(readBuffer) \in Nat
          BY <4>1, SeqFacts
        <4>3. decoded' = Copied
          BY <4>1, <4>2 DEF Copied
        <4> QED BY <1>3, <3>1, <4>3, CopiedGrows
      <3>2. CASE ~(snapshotOperation /\ hpc = "saving")
        <4>1. state' = "Finished" => state = "Finished" /\ decoded' = decoded
          BY <1>3, <3>2, HostEffects DEF doSnapshotOperation, snapshotOperation
        <4>2. state = "Finished" => hpc = "paused"
          BY <1>0 DEF SnapshotInv
        <4> QED BY <1>3, <4>1, <4>2, CopiedGrows DEF ImageInv
      <3> QED BY <3>1, <3>2
    <2> QED BY <2>1, <2>2, <2>3, <2>4, <2>5 DEF ImageInv
  <1>4. CASE DeviceMove
    <2>1. /\ Copied' = Copied
          /\ UNCHANGED <<hpc, sent, gsent, toHost, largeW, largeR>>
      BY <1>4, DeviceFrame DEF Copied
    <2>2. CASE saveRingBlocks
      <3>1. /\ ctl' = "buffers" /\ UNCHANGED <<state, decoded>>
            /\ image' = [image EXCEPT !.toHost = toHost, !.largeW = largeW, !.largeR = largeR]
        BY <2>2 DEF saveRingBlocks
      <3>2. image'.toHost = toHost /\ image'.largeW = largeW /\ image'.largeR = largeR
        BY <1>i, <3>1 DEF Images
      <3>3. \A k \in 1..Len(toHost) : k + (Len(toHost) - Len(toHost)) = k
        BY <1>n
      <3> QED BY <1>n, <2>1, <3>1, <3>2, <3>3 DEF ImageInv
    <2>3. CASE saveBufferBlocks
      <3>1. ctl' = "save" /\ UNCHANGED <<state, decoded>>
        BY <2>3 DEF saveBufferBlocks
      <3>2. \A u \in (Copied + 1)..(sent + gsent) : InImage(u)'
        BY <1>0, <2>3, BufferWritten
      <3> QED BY <2>1, <3>1, <3>2 DEF ImageInv
    <2>4. CASE save \/ send \/ destroy \/ Crash
      <3>1. /\ ctl' # "buffers" \/ ctl' = ctl
            /\ ctl' \in {"save", "postSave", "resume"} => ctl \in {"save", "postSave", "resume"}
            /\ UNCHANGED <<state, image, decoded>>
        BY <2>4 DEF save, send, destroy, Crash, Command, AfterSend
      <3>2. \A u \in (Copied + 1)..(sent + gsent) : InImage(u)' <=> InImage(u)
        BY <3>1 DEF InImage
      <3> QED BY <2>1, <3>1, <3>2 DEF ImageInv
    <2>5. CASE resume \/ preSave
      <3>1. ctl' \in {"run", "pause"} /\ state' # "Finished"
        BY <2>5 DEF resume, preSave
      <3> QED BY <3>1 DEF ImageInv
    <2> QED BY <1>4, <2>2, <2>3, <2>4, <2>5 DEF DeviceMove, ControlStep
  <1> QED BY <1>1, <1>2, <1>3, <1>4, Actors

(* Whatever the thread does between the writing of the rings, of the       *)
(* buffers and of its own state in AddressSpaceDeviceState::save, the      *)
(* snapshot holds every unit the guest has sent: decoded, or in the rings  *)
(* and the buffer as they were written.                                    *)
THEOREM SnapshotsHoldAll == Safety => []SnapshotHoldsAll
  <1>1. Init => ImageInv
    BY DEF Init, ImageInv
  <1>2. TypeOK /\ ProtocolInv /\ ImageInv /\ [Next]_vars => ImageInv'
    BY ImageInvariant
  <1>3. ProtocolInv /\ ImageInv => SnapshotHoldsAll
    <2> SUFFICES ASSUME ProtocolInv, ImageInv, ctl \in {"postSave", "resume"}, hpc # "exited"
                 PROVE  \A u \in (decoded + 1)..(sent + gsent) : InImage(u)
      BY DEF SnapshotHoldsAll
    <2>1. state = "Finished"
      BY DEF ProtocolInv, SnapshotInv, SnapshotComplete
    <2> QED BY <2>1 DEF ImageInv
  <1> QED BY <1>1, <1>2, <1>3, ProtocolInvariant, PTL DEF Safety
=============================================================================
