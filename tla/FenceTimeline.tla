---------------------------- MODULE FenceTimeline ----------------------------
(***************************************************************************)
(* What the virtio-gpu timelines promise to the VMM, with no queue, lock   *)
(* or task table: on every ring the guest submits tasks and fences in one  *)
(* order, a fence is signalled once, after every task submitted before it  *)
(* on its ring has completed and after every earlier fence of that ring,   *)
(* and it is signalled eventually once that is the case.                   *)
(***************************************************************************)
EXTENDS Naturals, Sequences

CONSTANTS
    Rings,              \* the virtio-gpu rings (global and context specific)
    TaskId,             \* names of tasks
    FenceId             \* names of fences

VARIABLES
    log,                \* log[r]: all the items ever submitted on ring r
    done,               \* the tasks that have completed
    signalled           \* signalled[r]: the fences of r signalled so far, in order

absVars == <<log, done, signalled>>

AbsInit ==
    /\ log = [r \in Rings |-> <<>>]
    /\ done = {}
    /\ signalled = [r \in Rings |-> <<>>]

AbsItem == [kind : {"task"}, id : TaskId] \cup [kind : {"fence"}, id : FenceId]

Submit(r) ==
    /\ \E item \in AbsItem : log' = [log EXCEPT ![r] = Append(@, item)]
    /\ UNCHANGED <<done, signalled>>

Complete(t) ==
    /\ t \notin done
    /\ done' = done \cup {t}
    /\ UNCHANGED <<log, signalled>>

IdsBefore(r, i, kind) ==
    {log[r][j].id : j \in {k \in 1..(i - 1) : log[r][k].kind = kind}}
Signalled(r) == {signalled[r][k] : k \in DOMAIN signalled[r]}

(* The item at position i is the next fence of ring r, and it is due. *)
Due(r, i) ==
    /\ log[r][i].kind = "fence"
    /\ log[r][i].id \notin Signalled(r)
    /\ IdsBefore(r, i, "fence") \subseteq Signalled(r)
    /\ IdsBefore(r, i, "task") \subseteq done

Signal(r) ==
    /\ \E i \in DOMAIN log[r] :
          /\ Due(r, i)
          /\ signalled' = [signalled EXCEPT ![r] = Append(@, log[r][i].id)]
    /\ UNCHANGED <<log, done>>

AbsNext ==
    \/ \E r \in Rings : Submit(r) \/ Signal(r)
    \/ \E t \in TaskId : Complete(t)

AbsSafety == AbsInit /\ [][AbsNext]_absVars
AbsSpec == AbsSafety /\ \A r \in Rings : WF_absVars(Signal(r))
=============================================================================
