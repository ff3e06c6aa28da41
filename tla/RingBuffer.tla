------------------------------ MODULE RingBuffer ------------------------------
(***************************************************************************)
(* aemu/base/ring_buffer.cpp: the single-producer single-consumer ring in  *)
(* memory shared by guest and host, over which every graphics command      *)
(* travels.  There is no lock: the producer owns write_pos, the consumer   *)
(* owns read_pos, each reads the other's position with one atomic load,    *)
(* copies bytes with memcpy, and publishes with one atomic add.  The copy  *)
(* is not atomic: here it moves one byte per step, so every interleaving   *)
(* of the two copies is explored.                                          *)
(*                                                                         *)
(* The functions exist twice in the code, for the statically allocated     *)
(* buffer and for a view; they differ in where size and mask come from,    *)
(* and that is what the constant Size stands for.  (The one function whose *)
(* two branches do not correspond, ring_buffer_copy_contents, is given     *)
(* with both.)  The k-th byte ever written is represented by the number k. *)
(***************************************************************************)
EXTENDS Integers, Sequences

CONSTANTS
    Size,           \* RING_BUFFER_SIZE, or v->size
    Wraps,          \* the uint32_t positions count modulo Size * Wraps
    MaxBytes,       \* bound on the bytes the producer sends
    MaxCall,        \* bound on the bytes of one call
    Outside         \* what is read beyond the end of the buffer

PosMod == Size * Wraps

(* A ring of one byte could never hold any. *)
ASSUME SizeAssumption == Size \in Nat /\ Size > 1 /\ Wraps \in Nat \ {0}
ASSUME HalfAssumption == 2 * (Size \div 2) = Size
ASSUME BytesAssumption == MaxBytes \in Nat /\ MaxCall \in Nat
ASSUME OutsideAssumption == Outside \notin Int

VARIABLES
    write_pos, read_pos,        \* the shared positions
    buf,                        \* the shared bytes
    abort,                      \* *abort_ptr equals abort_value
    pcP, wBytes, wDone, wStep, wCopied,
    pcC, rBytes, rDone, rStep, rCopied,
        \* producer and consumer: where the call is, its |bytes|, |processed|,
        \* |candidate_step|, and how far its memcpy has come
    wTotal, rTotal,             \* history: bytes ever published and ever freed
    received                    \* history: the bytes handed to the reader

producer == <<pcP, wBytes, wDone, wStep, wCopied>>
consumer == <<pcC, rBytes, rDone, rStep, rCopied>>
vars == <<write_pos, read_pos, buf, abort, producer, consumer, wTotal, rTotal, received>>

Init ==
    /\ write_pos = 0 /\ read_pos = 0
    /\ buf = [i \in 0..(Size - 1) |-> -1]
    /\ abort = FALSE
    /\ pcP = "ready" /\ wBytes = 0 /\ wDone = 0 /\ wStep = 0 /\ wCopied = 0
    /\ pcC = "ready" /\ rBytes = 0 /\ rDone = 0 /\ rStep = 0 /\ rCopied = 0
    /\ wTotal = 0 /\ rTotal = 0
    /\ received = <<>>
-----------------------------------------------------------------------------
(* Positions. *)

get_ring_pos(index) == index % Size

(* The uint32_t subtractions of the code. *)
ring_buffer_available_read == get_ring_pos((write_pos - read_pos) % PosMod)
ring_buffer_available_write == get_ring_pos((read_pos - write_pos - 1) % PosMod)

(* Mutants: the last free byte may be used; the last byte is not seen. *)
ring_buffer_can_write_full(n) == ring_buffer_available_write + 1 >= n
ring_buffer_can_read_strict(n) == ring_buffer_available_read > n

ring_buffer_can_write(n) == ring_buffer_available_write >= n
ring_buffer_can_read(n) == ring_buffer_available_read >= n

(* Where the i-th byte of a copy that starts at position pos lies in the   *)
(* buffer: a copy that would run over the end is split in two memcpys.     *)
available_at_end(pos) == Size - get_ring_pos(pos)

ByteAt(pos, i) ==
    IF i < available_at_end(pos)
    THEN get_ring_pos(pos) + i
    ELSE get_ring_pos(pos + available_at_end(pos)) + (i - available_at_end(pos))

AtMost(n, k) == IF k < n THEN k ELSE n

(* Mutant: steps as large as the ring can hold. *)
get_step_size_whole(n) == AtMost(n, Size - 1)

get_step_size(n) == AtMost(n, Size \div 2)
-----------------------------------------------------------------------------
(* The producer. *)

(* ring_buffer_write_fully(_with_abort): n bytes, in steps of at most half *)
(* the ring.                                                               *)
ring_buffer_write_fully(n) ==
    /\ pcP = "ready"
    /\ wTotal + n =< MaxBytes
    /\ pcP' = "wait"
    /\ wBytes' = n /\ wDone' = 0 /\ wStep' = get_step_size(n) /\ wCopied' = 0
    /\ UNCHANGED <<write_pos, read_pos, buf, abort, consumer, wTotal, rTotal, received>>

(* ring_buffer_write / ring_buffer_view_write of one step of n bytes: when *)
(* there is no room it returns 0 and changes nothing.                      *)
ring_buffer_write(n) ==
    /\ pcP = "ready"
    /\ wTotal + n =< MaxBytes
    /\ ring_buffer_can_write(n)
    /\ pcP' = "copy"
    /\ wBytes' = n /\ wDone' = 0 /\ wStep' = n /\ wCopied' = 0
    /\ UNCHANGED <<write_pos, read_pos, buf, abort, consumer, wTotal, rTotal, received>>

(* The spinning wait ends.  (The write that follows checks once more; only *)
(* the producer itself can take the room away again.)                      *)
ring_buffer_wait_write ==
    /\ pcP = "wait"
    /\ ring_buffer_can_write(wStep)
    /\ pcP' = "copy" /\ wCopied' = 0
    /\ UNCHANGED <<write_pos, read_pos, buf, abort, wBytes, wDone, wStep,
                   consumer, wTotal, rTotal, received>>

CopyIn ==
    /\ pcP = "copy"
    /\ wCopied < wStep
    /\ buf' = [buf EXCEPT ![ByteAt(write_pos, wCopied)] = wTotal + wCopied]
    /\ wCopied' = wCopied + 1
    /\ UNCHANGED <<write_pos, read_pos, abort, pcP, wBytes, wDone, wStep,
                   consumer, wTotal, rTotal, received>>

(* Mutant: the position is published before the bytes are copied. *)
PublishWrite_early ==
    /\ pcP = "copy"
    /\ write_pos' = (write_pos + wStep) % PosMod
    /\ wTotal' = wTotal + wStep
    /\ wDone' = wDone + wStep
    /\ pcP' = IF abort \/ wDone + wStep = wBytes THEN "ready" ELSE "wait"
    /\ wStep' = AtMost(wStep, wBytes - (wDone + wStep))
    /\ wCopied' = 0
    /\ UNCHANGED <<read_pos, buf, abort, wBytes, consumer, rTotal, received>>

(* The atomic add, then the end of the loop of write_fully_with_abort. *)
PublishWrite ==
    /\ pcP = "copy"
    /\ wCopied = wStep
    /\ write_pos' = (write_pos + wStep) % PosMod
    /\ wTotal' = wTotal + wStep
    /\ wDone' = wDone + wStep
    /\ pcP' = IF abort \/ wDone + wStep = wBytes THEN "ready" ELSE "wait"
    /\ wStep' = AtMost(wStep, wBytes - (wDone + wStep))
    /\ wCopied' = 0
    /\ UNCHANGED <<read_pos, buf, abort, wBytes, consumer, rTotal, received>>
-----------------------------------------------------------------------------
(* The consumer. *)

(* The reader never asks for more than the peer is going to send. *)
ring_buffer_read_fully(n) ==
    /\ pcC = "ready"
    /\ rTotal + n =< MaxBytes
    /\ pcC' = "wait"
    /\ rBytes' = n /\ rDone' = 0 /\ rStep' = get_step_size(n) /\ rCopied' = 0
    /\ UNCHANGED <<write_pos, read_pos, buf, abort, producer, wTotal, rTotal, received>>

(* ring_buffer_read / ring_buffer_view_read of one step; also a            *)
(* ring_buffer_copy_contents of n bytes followed by                        *)
(* ring_buffer_advance_read, as RingStream::type1Read does it.             *)
ring_buffer_read(n) ==
    /\ pcC = "ready"
    /\ ring_buffer_can_read(n)
    /\ pcC' = "copy"
    /\ rBytes' = n /\ rDone' = 0 /\ rStep' = n /\ rCopied' = 0
    /\ UNCHANGED <<write_pos, read_pos, buf, abort, producer, wTotal, rTotal, received>>

ring_buffer_wait_read ==
    /\ pcC = "wait"
    /\ ring_buffer_can_read(rStep)
    /\ pcC' = "copy" /\ rCopied' = 0
    /\ UNCHANGED <<write_pos, read_pos, buf, abort, rBytes, rDone, rStep,
                   producer, wTotal, rTotal, received>>

CopyOut ==
    /\ pcC = "copy"
    /\ rCopied < rStep
    /\ received' = Append(received, buf[ByteAt(read_pos, rCopied)])
    /\ rCopied' = rCopied + 1
    /\ UNCHANGED <<write_pos, read_pos, buf, abort, pcC, rBytes, rDone, rStep,
                   producer, wTotal, rTotal>>

PublishRead ==
    /\ pcC = "copy"
    /\ rCopied = rStep
    /\ read_pos' = (read_pos + rStep) % PosMod
    /\ rTotal' = rTotal + rStep
    /\ rDone' = rDone + rStep
    /\ pcC' = IF abort \/ rDone + rStep = rBytes THEN "ready" ELSE "wait"
    /\ rStep' = AtMost(rStep, rBytes - (rDone + rStep))
    /\ rCopied' = 0
    /\ UNCHANGED <<write_pos, buf, abort, rBytes, producer, wTotal, received>>
-----------------------------------------------------------------------------
(* Some other thread stores the abort value. *)
SetAbort ==
    /\ ~abort
    /\ abort' = TRUE
    /\ UNCHANGED <<write_pos, read_pos, buf, producer, consumer, wTotal, rTotal, received>>

Calls == 1..MaxCall

ProducerStep == ring_buffer_wait_write \/ CopyIn \/ PublishWrite
ConsumerStep == ring_buffer_wait_read \/ CopyOut \/ PublishRead

Next ==
    \/ \E n \in Calls : ring_buffer_write_fully(n) \/ ring_buffer_write(n)
    \/ \E n \in Calls : ring_buffer_read_fully(n) \/ ring_buffer_read(n)
    \/ ProducerStep
    \/ ConsumerStep
    \/ SetAbort

Safety == Init /\ [][Next]_vars

(* The two threads keep running, and keep calling write_fully and          *)
(* read_fully until the whole stream of MaxBytes bytes is through: the     *)
(* guest's and the host's loops do nothing else.                           *)
Spec ==
    /\ Safety
    /\ WF_vars(ProducerStep) /\ WF_vars(ConsumerStep)
    /\ WF_vars(\E n \in Calls : ring_buffer_write_fully(n))
    /\ WF_vars(\E n \in Calls : ring_buffer_read_fully(n))
-----------------------------------------------------------------------------
(* ring_buffer_copy_contents: the bytes it copies to |res|, with a view    *)
(* (viewed) and without; what it reads past the end is Outside.            *)

(* Mutant: the view's branch has the slip of the other one. *)
end_of_copy_write(viewed) == available_at_end(write_pos)

end_of_copy(viewed) == available_at_end(IF viewed THEN read_pos ELSE write_pos)

ring_buffer_copy_contents(viewed, n) ==
    [k \in 1..n |->
       LET i == k - 1
           e == end_of_copy(viewed)
           at == IF n > e /\ i >= e
                 THEN get_ring_pos(read_pos + e) + (i - e)
                 ELSE get_ring_pos(read_pos) + i
       IN IF at < Size THEN buf[at] ELSE Outside]
-----------------------------------------------------------------------------
\* Types of the positions, the bytes and the locals of the two calls.
TypeOK ==
    /\ write_pos \in 0..(PosMod - 1) /\ read_pos \in 0..(PosMod - 1)
    /\ buf \in [0..(Size - 1) -> Int]
    /\ abort \in BOOLEAN
    /\ pcP \in {"ready", "wait", "copy"} /\ pcC \in {"ready", "wait", "copy"}
    /\ wBytes \in Nat /\ wDone \in Nat /\ wStep \in Nat /\ wCopied \in Nat
    /\ rBytes \in Nat /\ rDone \in Nat /\ rStep \in Nat /\ rCopied \in Nat
    /\ wTotal \in Nat /\ rTotal \in Nat
    /\ received \in Seq(Int)

(* The reader receives the bytes that were sent, each once and in order,   *)
(* however the copies of the two sides interleave and wherever the copies  *)
(* wrap around the end of the buffer and the positions around 2^32.        *)
Fifo ==
    /\ Len(received) = rTotal + rCopied
    /\ \A k \in 1..Len(received) : received[k] = k - 1

(* The producer's memcpy never touches a byte that is published and not    *)
(* yet freed, which is where the consumer's memcpy may be: the two never   *)
(* access the same byte at the same time.                                  *)
NoRace ==
    pcP = "copy" /\ wCopied < wStep =>
        \A k \in rTotal..(wTotal - 1) : k % Size # ByteAt(write_pos, wCopied)

(* One byte of the ring always stays free, so that equal positions mean    *)
(* "empty" and never "full".                                               *)
NeverOverfull == wTotal - rTotal \in 0..(Size - 1)

(* A blocked write_fully and a blocked read_fully never wait for each      *)
(* other: this is what the half-ring step of get_step_size is for.         *)
NeverBothBlocked ==
    ~ /\ pcP = "wait" /\ ~ring_buffer_can_write(wStep)
      /\ pcC = "wait" /\ ~ring_buffer_can_read(rStep)

(* The readable bytes, in order. *)
Readable(n) == [k \in 1..n |-> rTotal + (k - 1)]

(* ring_buffer_copy_contents "copies out contents from the consumer side   *)
(* of ring buffer/view |r,v|" (ring_buffer.h:180): with a view it does.    *)
CopyViewExact ==
    \A n \in 0..ring_buffer_available_read : ring_buffer_copy_contents(TRUE, n) = Readable(n)

(* The same of the statically allocated ring (|v| null). *)
CopyStaticExact ==
    \A n \in 0..ring_buffer_available_read : ring_buffer_copy_contents(FALSE, n) = Readable(n)

(* Everything that is sent arrives. *)
AllDelivered == <>(Len(received) = MaxBytes)
-----------------------------------------------------------------------------
(* The inductive invariant behind the safety properties. *)

Positions == write_pos = wTotal % PosMod /\ read_pos = rTotal % PosMod

Occupancy == rTotal =< wTotal /\ wTotal =< rTotal + (Size - 1)

(* What a side has claimed by its check stays true until it publishes. *)
ProducerClaim ==
    /\ pcP = "copy" => wTotal + wStep =< rTotal + (Size - 1) /\ wCopied =< wStep
    /\ pcP # "copy" => wCopied = 0
    /\ pcP # "ready" => wDone + wStep =< wBytes
    /\ pcP = "wait" \/ (pcP = "copy" /\ wDone + wStep # wBytes) => wStep =< Size \div 2

ConsumerClaim ==
    /\ pcC = "copy" => rTotal + rStep =< wTotal /\ rCopied =< rStep
    /\ pcC # "copy" => rCopied = 0
    /\ pcC # "ready" => rDone + rStep =< rBytes
    /\ pcC = "wait" \/ (pcC = "copy" /\ rDone + rStep # rBytes) => rStep =< Size \div 2

(* The bytes published and not yet freed, and those of the copy under way, *)
(* are in the buffer.                                                      *)
Contents == \A k \in rTotal..(wTotal + wCopied - 1) : buf[k % Size] = k

RingInv ==
    /\ Positions /\ Occupancy /\ ProducerClaim /\ ConsumerClaim
    /\ Contents /\ Fifo
=============================================================================
