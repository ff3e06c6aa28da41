---------------------------- MODULE MessageQueue ----------------------------
(***************************************************************************)
(* What a MessageChannel promises the threads that share it: a bounded     *)
(* FIFO that can be stopped.  There are no slots, no lock and no condition *)
(* variables here.  MessageChannel implements this specification.          *)
(***************************************************************************)
EXTENDS Naturals, Sequences

CONSTANT Capacity     \* how many messages the channel holds

VARIABLES sent,       \* how many messages were accepted: the k-th one is k
          queue,      \* the messages sent and not yet received
          stopped,    \* nothing goes in or out any more
          received    \* the messages received, in the order of the receptions

vars == <<sent, queue, stopped, received>>

Init ==
    /\ sent = 0
    /\ queue = <<>>
    /\ stopped = FALSE
    /\ received = <<>>

Put ==
    /\ ~stopped
    /\ Len(queue) < Capacity
    /\ sent' = sent + 1
    /\ queue' = Append(queue, sent + 1)
    /\ UNCHANGED <<stopped, received>>

Take ==
    /\ ~stopped
    /\ queue # <<>>
    /\ queue' = Tail(queue)
    /\ received' = Append(received, Head(queue))
    /\ UNCHANGED <<sent, stopped>>

Stop ==
    /\ stopped' = TRUE
    /\ queue' = <<>>
    /\ UNCHANGED <<sent, received>>

Next == Put \/ Take \/ Stop

Spec == Init /\ [][Next]_vars
=============================================================================
