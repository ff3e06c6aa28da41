-------------------------- MODULE GoldfishPipeProofs --------------------------
(***************************************************************************)
(* Proofs about GoldfishPipe, for every number of pipes, every size of the *)
(* buffer of signalled pipes and any number of calls: PipeInv is inductive *)
(* and the safety properties follow from it.                               *)
(***************************************************************************)
EXTENDS GoldfishPipe, TLAPS

Places == {"idle", "transfer", "setbit", "command", "check", "sleep", "awake"}
Waiting == {"check", "sleep", "awake"}
Files == {"free", "open", "stopping", "aborting", "closing"}

-----------------------------------------------------------------------------
(* Facts that the proofs of several actions use. *)

LEMMA GotoEffect ==
    ASSUME TypeOK, NEW o \in Objects, NEW d \in Dirs, NEW w \in Places, Goto(o, d, w)
    PROVE  /\ pc' \in [Objects -> [Dirs -> Places]]
           /\ \A p \in Objects, e \in Dirs :
                 pc'[p][e] = IF p = o /\ e = d THEN w ELSE pc[p][e]
  BY DEF TypeOK, Goto, Places

(* Nothing of the invariant depends on the counters. *)
LEMMA StutterStep ==
    ASSUME PipeInv, UNCHANGED <<driver, device, host, pc>> PROVE PipeInv'
  BY DEF PipeInv, driver, device, host, TypeOK, NoStalePipe, FreeIds, PipesAt, Allocated,
         IdsDiffer, DeviceAgrees, CallsAreOpen, UnusedIsClear, InterruptsPending, CloseQueued,
         CloseInDevice, CloseInDriver, CloseInTask, CloseOnItsWay, WantedIsKnown, InWaker,
         WaitsKnown, OnItsWay
-----------------------------------------------------------------------------
(* The calls of the driver. *)

(* A step of a call that only moves on: to a place where it does not wait, *)
(* or to sleep after it has seen its bit.                                  *)
LEMMA CallMoves ==
    ASSUME PipeInv, NEW o \in Objects, NEW d \in Dirs, NEW w \in Places, Goto(o, d, w),
           UNCHANGED <<driver, device, host>>,
           w # "idle" => file[o] = "open",
           w \in Waiting => w = "sleep" /\ pc[o][d] \in Waiting /\ d \in flags[o]
    PROVE  PipeInv'
  <1>1. /\ pc' \in [Objects -> [Dirs -> Places]]
        /\ \A p \in Objects, e \in Dirs :
              pc'[p][e] = IF p = o /\ e = d THEN w ELSE pc[p][e]
    BY GotoEffect DEF PipeInv
  <1>2. TypeOK'
    BY <1>1 DEF PipeInv, TypeOK, Places, driver, device, host
  <1>3. /\ NoStalePipe' /\ InterruptsPending' /\ CloseQueued' /\ CloseInDevice'
        /\ CloseInDriver' /\ CloseInTask' /\ WantedIsKnown'
    BY DEF PipeInv, driver, device, host, NoStalePipe, FreeIds, PipesAt, Allocated,
           InterruptsPending, CloseQueued, CloseInDevice, CloseInDriver, CloseInTask,
           CloseOnItsWay, WantedIsKnown, InWaker
  <1>4. IdsDiffer' /\ DeviceAgrees' /\ CallsAreOpen' /\ UnusedIsClear'
    BY <1>1 DEF PipeInv, driver, device, host, IdsDiffer, DeviceAgrees,
                CallsAreOpen, UnusedIsClear, PipesAt, Allocated
  <1>5. WaitsKnown'
    <2> SUFFICES ASSUME NEW p \in Objects, NEW e \in Dirs
                 PROVE  /\ pc'[p][e] = "sleep" => e \in flags[p]
                        /\ pc'[p][e] \in Waiting /\ e \in flags[p] =>
                              \/ OnItsWay(p, e) \/ "Closed" \in flags[p]
                              \/ /\ e \in service[id[p]].asked \ service[id[p]].ready
                                 /\ e \in hw[id[p]].wanted
      BY DEF WaitsKnown, OnItsWay, Waiting, driver, device, host
    <2>1. /\ pc[p][e] = "sleep" => e \in flags[p]
          /\ pc[p][e] \in Waiting /\ e \in flags[p] =>
                \/ OnItsWay(p, e) \/ "Closed" \in flags[p]
                \/ /\ e \in service[id[p]].asked \ service[id[p]].ready
                   /\ e \in hw[id[p]].wanted
      BY DEF PipeInv, WaitsKnown, Waiting
    <2> QED BY <1>1, <2>1 DEF Waiting
  <1> QED BY <1>2, <1>3, <1>4, <1>5 DEF PipeInv

LEMMA ReadWriteStep ==
    ASSUME PipeInv, NEW o \in Objects, NEW d \in Dirs, read_write(o, d) PROVE PipeInv'
  BY CallMoves DEF read_write, Places, Waiting

LEMMA TransferAgainStep ==
    ASSUME PipeInv, NEW o \in Objects, NEW d \in Dirs, TransferAgain(o, d) PROVE PipeInv'
  <1>1. file[o] = "open"
    BY DEF PipeInv, CallsAreOpen, TransferAgain
  <1> QED BY <1>1, CallMoves DEF TransferAgain, Return, Places, Waiting

LEMMA TransferFailsStep ==
    ASSUME PipeInv, NEW o \in Objects, NEW d \in Dirs, TransferFails(o, d) PROVE PipeInv'
  BY CallMoves DEF TransferFails, Return, Places, Waiting

LEMMA CheckStep ==
    ASSUME PipeInv, NEW o \in Objects, NEW d \in Dirs, check(o, d) PROVE PipeInv'
  <1>1. file[o] = "open" /\ pc[o][d] \in Waiting
    BY DEF PipeInv, CallsAreOpen, check, Waiting
  <1> QED BY <1>1, CallMoves DEF check, Places, Waiting

LEMMA AwakeStep ==
    ASSUME PipeInv, NEW o \in Objects, NEW d \in Dirs, awake(o, d) PROVE PipeInv'
  <1>1. file[o] = "open" /\ pc[o][d] \in Waiting
    BY DEF PipeInv, CallsAreOpen, awake, Waiting
  <1> QED BY <1>1, CallMoves DEF awake, Places, Waiting

LEMMA InterruptedStep ==
    ASSUME PipeInv, NEW o \in Objects, NEW d \in Dirs, Interrupted(o, d) PROVE PipeInv'
  BY CallMoves DEF Interrupted, Places, Waiting

(* A service that has less ready still knows what it was asked for. *)
LEMMA TransferSomeStep ==
    ASSUME PipeInv, NEW o \in Objects, NEW d \in Dirs, TransferSome(o, d) PROVE PipeInv'
  <1>1. PICK w \in {"idle", "transfer"} : Goto(o, d, w)
    BY DEF TransferSome, Return
  <1>2. /\ pc' \in [Objects -> [Dirs -> Places]]
        /\ \A p \in Objects, e \in Dirs :
              pc'[p][e] = IF p = o /\ e = d THEN w ELSE pc[p][e]
    BY <1>1, GotoEffect DEF PipeInv, Places
  <1>3. file[o] = "open" /\ hw[id[o]].open /\ id[o] \in Ids
    <2>1. file[o] = "open"
      BY DEF PipeInv, CallsAreOpen, TransferSome
    <2>2. hw[id[o]].open
      BY <2>1 DEF PipeInv, DeviceAgrees
    <2> QED BY <2>1, <2>2 DEF PipeInv, TypeOK
  <1>4. /\ UNCHANGED <<file, id, flags, signalled, list, runthread, task, popped, misled,
                       hw, wantedPipes, irq, pending>>
        /\ service' = [service EXCEPT ![id[o]].ready = @ \ {d}]
        /\ service \in [Ids -> [ready : SUBSET Dirs, asked : SUBSET Dirs, closed : BOOLEAN]]
    BY DEF TransferSome, driver, device, PipeInv, TypeOK
  <1>5. /\ service' \in [Ids -> [ready : SUBSET Dirs, asked : SUBSET Dirs, closed : BOOLEAN]]
        /\ \A i \in Ids : /\ service'[i].asked = service[i].asked
                          /\ service'[i].closed = service[i].closed
                          /\ service'[i].ready \subseteq service[i].ready
                          /\ i # id[o] => service'[i] = service[i]
    BY <1>3, <1>4
  <1>6. TypeOK'
    BY <1>2, <1>4, <1>5 DEF PipeInv, TypeOK, Places
  <1>7. NoStalePipe' /\ InterruptsPending'
    BY <1>4 DEF PipeInv, NoStalePipe, FreeIds, PipesAt, Allocated, InterruptsPending
  <1>8. IdsDiffer' /\ DeviceAgrees' /\ CallsAreOpen' /\ UnusedIsClear'
    <2>1. IdsDiffer' /\ DeviceAgrees' /\ CallsAreOpen'
      BY <1>2, <1>3, <1>4 DEF PipeInv, IdsDiffer, DeviceAgrees, CallsAreOpen
    <2>2. Allocated(id[o])
      BY <1>3 DEF Allocated, PipesAt
    <2>3. UnusedIsClear'
      BY <1>4, <1>5, <2>2 DEF PipeInv, UnusedIsClear, PipesAt, Allocated
    <2> QED BY <2>1, <2>3
  <1>9. CloseQueued' /\ CloseInDevice' /\ CloseInDriver' /\ CloseInTask'
    BY <1>4, <1>5 DEF PipeInv, TypeOK, CloseQueued, CloseInDevice, CloseInDriver,
                CloseInTask, CloseOnItsWay
  <1>10. WantedIsKnown'
    BY <1>4, <1>5 DEF PipeInv, WantedIsKnown, InWaker
  <1>11. WaitsKnown'
    BY <1>2, <1>4, <1>5 DEF PipeInv, TypeOK, WaitsKnown, OnItsWay
  <1> QED BY <1>6, <1>7, <1>8, <1>9, <1>10, <1>11 DEF PipeInv

(* The bit that is set is that of a call which has not given its command. *)
LEMMA SetBitStep ==
    ASSUME PipeInv, NEW o \in Objects, NEW d \in Dirs, wait_for_host_signal(o, d) PROVE PipeInv'
  <1>1. /\ pc' \in [Objects -> [Dirs -> Places]]
        /\ \A p \in Objects, e \in Dirs :
              pc'[p][e] = IF p = o /\ e = d THEN "command" ELSE pc[p][e]
    BY GotoEffect DEF PipeInv, Places, wait_for_host_signal
  <1>2. /\ UNCHANGED <<file, id, signalled, list, runthread, task, popped, misled,
                       hw, wantedPipes, irq, service, pending>>
        /\ flags' = [flags EXCEPT ![o] = @ \cup {d}]
        /\ flags \in [Objects -> SUBSET WakeFlags]
        /\ file[o] = "open"
    BY DEF wait_for_host_signal, device, host, PipeInv, TypeOK, CallsAreOpen
  <1>3. /\ flags' \in [Objects -> SUBSET WakeFlags]
        /\ \A p \in Objects : /\ "Closed" \in flags'[p] <=> "Closed" \in flags[p]
                              /\ \A e \in Dirs : (p # o \/ e # d) =>
                                     (e \in flags'[p] <=> e \in flags[p])
    BY <1>2 DEF WakeFlags, Dirs
  <1>4. TypeOK'
    BY <1>1, <1>2, <1>3 DEF PipeInv, TypeOK, Places
  <1>5. NoStalePipe' /\ InterruptsPending' /\ WantedIsKnown'
    BY <1>2 DEF PipeInv, NoStalePipe, FreeIds, PipesAt, Allocated, InterruptsPending, WantedIsKnown, InWaker
  <1>6. IdsDiffer' /\ DeviceAgrees' /\ CallsAreOpen' /\ UnusedIsClear'
    BY <1>1, <1>2 DEF PipeInv, IdsDiffer, DeviceAgrees, CallsAreOpen, UnusedIsClear, PipesAt, Allocated
  <1>7. CloseQueued' /\ CloseInDevice' /\ CloseInDriver' /\ CloseInTask'
    BY <1>2, <1>3 DEF PipeInv, CloseQueued, CloseInDevice, CloseInDriver,
                CloseInTask, CloseOnItsWay
  <1>8. WaitsKnown'
    BY <1>1, <1>2, <1>3 DEF PipeInv, WaitsKnown, OnItsWay
  <1> QED BY <1>4, <1>5, <1>6, <1>7, <1>8 DEF PipeInv

(* The command: the service is asked, or it need not be. *)
LEMMA WakeOnStep ==
    ASSUME PipeInv, NEW o \in Objects, NEW d \in Dirs, WakeOn(o, d) PROVE PipeInv'
  <1>1. /\ pc' \in [Objects -> [Dirs -> Places]]
        /\ \A p \in Objects, e \in Dirs :
              pc'[p][e] = IF p = o /\ e = d THEN "check" ELSE pc[p][e]
    BY GotoEffect DEF PipeInv, Places, WakeOn
  <1>2. PICK i \in Ids : i = id[o]
    BY DEF PipeInv, TypeOK
  <1>3. /\ UNCHANGED <<file, id, flags, signalled, list, runthread, task, popped, misled, pending>>
        /\ file[o] = "open" /\ hw[i].open
        /\ \A p \in Objects : p # o /\ file[p] # "free" => id[p] # i
    <2>1. file[o] = "open"
      BY DEF PipeInv, CallsAreOpen, WakeOn
    <2>2. hw[i].open
      BY <1>2, <2>1 DEF PipeInv, DeviceAgrees
    <2>3. \A p \in Objects : p # o /\ file[p] # "free" => id[p] # i
      BY <1>2, <2>1 DEF PipeInv, IdsDiffer
    <2> QED BY <2>1, <2>2, <2>3 DEF WakeOn, driver
  <1>4. /\ hw \in [Ids -> [open : BOOLEAN, closed : BOOLEAN, wanted : SUBSET WakeFlags]]
        /\ service \in [Ids -> [ready : SUBSET Dirs, asked : SUBSET Dirs, closed : BOOLEAN]]
        /\ wantedPipes \subseteq Ids /\ irq \in BOOLEAN
    BY DEF PipeInv, TypeOK
  <1>5. CASE asksService(o, d)
    <2>1. PICK want \in SUBSET Dirs : want = hw[i].wanted \cup {d}
      <3>1. "Closed" \notin hw[i].wanted
        BY <1>2, <1>5 DEF asksService, PipeInv, CloseQueued, CloseInDevice, CloseInDriver
      <3>2. hw[i].wanted \subseteq WakeFlags
        BY <1>4
      <3> QED BY <3>1, <3>2 DEF WakeFlags
    <2>2. PICK now \in SUBSET Dirs : now = want \cap service[i].ready
      OBVIOUS
    <2>3. /\ service' = [service EXCEPT ![i].asked = @ \cup (want \ now)]
          /\ hw' = [hw EXCEPT ![i].wanted = want]
          /\ wantedPipes' = wantedPipes \cup (IF now = {} THEN {} ELSE {i})
          /\ irq' = (irq \/ (IF now = {} THEN {} ELSE {i}) # {})
      BY <1>2, <1>5, <2>1, <2>2 DEF WakeOn, signal_wake
    <2>4. /\ service' \in [Ids -> [ready : SUBSET Dirs, asked : SUBSET Dirs, closed : BOOLEAN]]
          /\ service'[i].asked = service[i].asked \cup (want \ now)
          /\ \A j \in Ids : /\ service'[j].ready = service[j].ready
                            /\ service'[j].closed = service[j].closed
                            /\ service[j].asked \subseteq service'[j].asked
                            /\ j # i => service'[j] = service[j]
      BY <1>4, <2>3
    <2>5. /\ hw' \in [Ids -> [open : BOOLEAN, closed : BOOLEAN, wanted : SUBSET WakeFlags]]
          /\ hw'[i].wanted = want
          /\ \A j \in Ids : /\ hw'[j].open = hw[j].open
                            /\ hw'[j].closed = hw[j].closed
                            /\ hw[j].wanted \subseteq hw'[j].wanted
                            /\ j # i => hw'[j] = hw[j]
      BY <1>4, <2>1, <2>3 DEF WakeFlags
    <2>6. /\ wantedPipes \subseteq wantedPipes'
          /\ wantedPipes' \subseteq wantedPipes \cup {i}
          /\ wantedPipes' \subseteq Ids
          /\ now # {} => i \in wantedPipes' /\ irq'
          /\ now = {} => wantedPipes' = wantedPipes /\ irq' = irq
          /\ irq' \in BOOLEAN
      BY <1>4, <2>3
    <2>7. TypeOK'
      BY <1>1, <1>3, <2>4, <2>5, <2>6 DEF PipeInv, TypeOK, Places
    <2>8. NoStalePipe'
      BY <1>3, <2>5, <2>6 DEF PipeInv, TypeOK, NoStalePipe, FreeIds, PipesAt, Allocated
    <2>9. InterruptsPending'
      BY <1>3, <2>6 DEF PipeInv, InterruptsPending
    <2>10. IdsDiffer' /\ DeviceAgrees' /\ CallsAreOpen' /\ UnusedIsClear'
      <3>1. IdsDiffer'
        BY <1>3 DEF PipeInv, IdsDiffer
      <3>2. DeviceAgrees'
        BY <1>3, <2>5 DEF PipeInv, TypeOK, DeviceAgrees
      <3>3. CallsAreOpen'
        BY <1>1, <1>3 DEF PipeInv, CallsAreOpen
      <3>4. Allocated(i)
        BY <1>2, <1>3 DEF Allocated, PipesAt
      <3>5. UnusedIsClear'
        BY <1>3, <2>4, <2>5, <3>4 DEF PipeInv, UnusedIsClear, PipesAt, Allocated
      <3> QED BY <3>1, <3>2, <3>3, <3>5
    <2>11. "Closed" \notin want /\ ~hw[i].closed
      BY <1>2, <1>5, <2>1 DEF asksService, Dirs
    <2>12. CloseQueued' /\ CloseInDevice' /\ CloseInDriver' /\ CloseInTask'
      <3>1. CloseQueued'
        BY <1>3, <2>4 DEF PipeInv, TypeOK, CloseQueued
      <3>2. CloseInDevice'
        BY <2>4, <2>5, <2>11 DEF PipeInv, CloseInDevice
      <3>3. CloseInDriver' /\ CloseInTask'
        BY <1>3, <2>5, <2>6 DEF PipeInv, TypeOK, CloseInDriver, CloseInTask, CloseOnItsWay
      <3> QED BY <3>1, <3>2, <3>3
    <2>13. WantedIsKnown'
      <3> SUFFICES ASSUME NEW j \in Ids, NEW e \in hw'[j].wanted \cap Dirs
                   PROVE  \/ j \in wantedPipes' \/ hw'[j].closed \/ InWaker(j, e)'
                          \/ e \in service'[j].asked \ service'[j].ready
        BY DEF WantedIsKnown
      <3>1. CASE j = i
        BY <2>2, <2>4, <2>5, <2>6, <3>1
      <3>2. CASE j # i
        BY <1>3, <2>4, <2>5, <2>6, <3>2 DEF PipeInv, WantedIsKnown, InWaker
      <3> QED BY <3>1, <3>2
    <2>14. WaitsKnown'
      <3> SUFFICES ASSUME NEW p \in Objects, NEW e \in Dirs
                   PROVE  /\ pc'[p][e] = "sleep" => e \in flags[p]
                          /\ pc'[p][e] \in Waiting /\ e \in flags[p] =>
                                \/ OnItsWay(p, e)' \/ "Closed" \in flags[p]
                                \/ /\ e \in service'[id[p]].asked \ service'[id[p]].ready
                                   /\ e \in hw'[id[p]].wanted
        BY <1>3 DEF WaitsKnown, Waiting
      <3>1. CASE p = o /\ e = d
        BY <1>1, <1>2, <1>3, <2>1, <2>2, <2>4, <2>5, <2>6, <3>1 DEF OnItsWay, Waiting
      <3>2. CASE ~(p = o /\ e = d)
        BY <1>1, <1>3, <2>4, <2>5, <2>6, <3>2 DEF PipeInv, TypeOK, WaitsKnown, OnItsWay, Waiting
      <3> QED BY <3>1, <3>2
    <2> QED BY <2>7, <2>8, <2>9, <2>10, <2>12, <2>13, <2>14 DEF PipeInv
  <1>6. CASE ~asksService(o, d)
    <2>1. UNCHANGED <<hw, wantedPipes, irq, service>>
      BY <1>6 DEF WakeOn, device
    <2>2. TypeOK'
      BY <1>1, <1>3, <2>1 DEF PipeInv, TypeOK, Places
    <2>3. /\ NoStalePipe' /\ InterruptsPending' /\ CloseQueued' /\ CloseInDevice'
          /\ CloseInDriver' /\ CloseInTask' /\ WantedIsKnown'
      BY <1>3, <2>1 DEF PipeInv, NoStalePipe, FreeIds, PipesAt, Allocated,
             InterruptsPending, CloseQueued, CloseInDevice, CloseInDriver, CloseInTask,
           CloseOnItsWay, WantedIsKnown, InWaker
    <2>4. IdsDiffer' /\ DeviceAgrees' /\ CallsAreOpen' /\ UnusedIsClear'
      BY <1>1, <1>3, <2>1 DEF PipeInv, IdsDiffer, DeviceAgrees, CallsAreOpen, UnusedIsClear, PipesAt, Allocated
    <2>5. \/ OnItsWay(o, d) \/ "Closed" \in flags[o]
          \/ /\ d \in service[i].asked \ service[i].ready
             /\ d \in hw[i].wanted
      <3>1. CASE hw[i].closed
        BY <1>2, <1>3, <3>1 DEF PipeInv, CloseQueued, CloseInDevice, CloseInDriver, CloseInTask, CloseOnItsWay, OnItsWay
      <3>2. CASE ~hw[i].closed /\ d \in hw[i].wanted
        BY <1>2, <3>2 DEF PipeInv, WantedIsKnown, InWaker, OnItsWay
      <3> QED BY <1>2, <1>6, <3>1, <3>2 DEF asksService
    <2>6. WaitsKnown'
      BY <1>1, <1>2, <1>3, <2>1, <2>5 DEF PipeInv, WaitsKnown, OnItsWay
    <2> QED BY <2>2, <2>3, <2>4, <2>6 DEF PipeInv
  <1> QED BY <1>5, <1>6

-----------------------------------------------------------------------------
(* The device and the interrupt thread. *)

(* What onTimerEvent does to the device, pipe by pipe. *)
LEMMA TimerEffect ==
    ASSUME TypeOK, onTimerEvent
    PROVE  /\ hw' \in [Ids -> [open : BOOLEAN, closed : BOOLEAN, wanted : SUBSET WakeFlags]]
           /\ wantedPipes' \subseteq Ids /\ wantedPipes \subseteq wantedPipes'
           /\ wantedPipes' # {} => irq' \/ wantedPipes # {}
           /\ irq => irq'
           /\ irq' \in BOOLEAN
           /\ \A i \in Ids :
                 /\ hw'[i].open = hw[i].open
                 /\ hw'[i].closed <=> hw[i].closed \/ "Closed" \in getPendingFlags(i)
                 /\ hw'[i].wanted = hw[i].wanted \cup Perform(i)
                 /\ i \in wantedPipes' <=> i \in wantedPipes \/ Perform(i) # {}
                 /\ Perform(i) = {} => hw'[i] = hw[i]
  <1>1. /\ hw \in [Ids -> [open : BOOLEAN, closed : BOOLEAN, wanted : SUBSET WakeFlags]]
        /\ wantedPipes \subseteq Ids /\ irq \in BOOLEAN
    BY DEF TypeOK
  <1>2. \A i \in Ids : /\ getPendingFlags(i) \subseteq WakeFlags
                       /\ Perform(i) \subseteq WakeFlags
                       /\ Perform(i) = {} => getPendingFlags(i) \subseteq {"Closed"}
                       /\ Perform(i) = {} /\ "Closed" \in getPendingFlags(i) => hw[i].closed
    BY DEF Perform, close_from_host, getPendingFlags
  <1>3. hw' = [i \in Ids |-> [hw[i] EXCEPT !.closed = @ \/ "Closed" \in getPendingFlags(i),
                                           !.wanted = @ \cup Perform(i)]]
    BY DEF onTimerEvent
  <1>4. \A i \in Ids : /\ hw'[i] \in [open : BOOLEAN, closed : BOOLEAN, wanted : SUBSET WakeFlags]
                       /\ hw'[i].open = hw[i].open
                       /\ hw'[i].closed = (hw[i].closed \/ "Closed" \in getPendingFlags(i))
                       /\ hw'[i].wanted = hw[i].wanted \cup Perform(i)
    BY <1>1, <1>2, <1>3
  <1>5. hw' \in [Ids -> [open : BOOLEAN, closed : BOOLEAN, wanted : SUBSET WakeFlags]]
    BY <1>3, <1>4
  <1>6. ASSUME NEW i \in Ids, Perform(i) = {} PROVE hw'[i] = hw[i]
    <2>1. hw'[i].wanted = hw[i].wanted
      BY <1>4, <1>6
    <2>2. hw'[i].closed = hw[i].closed
      BY <1>1, <1>2, <1>4, <1>6
    <2> QED BY <1>1, <1>4, <2>1, <2>2
  <1>7. /\ wantedPipes' = wantedPipes \cup {i \in Ids : Perform(i) # {}}
        /\ irq' = (irq \/ {i \in Ids : Perform(i) # {}} # {})
    BY DEF onTimerEvent, signal_wake
  <1>8. /\ wantedPipes' \subseteq Ids /\ wantedPipes \subseteq wantedPipes'
        /\ wantedPipes' # {} => irq' \/ wantedPipes # {}
        /\ irq => irq'
        /\ irq' \in BOOLEAN
        /\ \A i \in Ids : i \in wantedPipes' <=> i \in wantedPipes \/ Perform(i) # {}
    BY <1>1, <1>7
  <1> QED BY <1>4, <1>5, <1>6, <1>8

(* What was in PipeWaker's queue is afterwards with the device. *)
LEMMA TimerDelivers ==
    ASSUME PipeInv, onTimerEvent, NEW i \in Ids, NEW d \in Dirs, InWaker(i, d)
    PROVE  \/ i \in wantedPipes' /\ hw'[i].wanted \cap {d, "Closed"} # {}
           \/ hw[i].closed
  <1>1. \/ d \in getPendingFlags(i) \/ "Closed" \in getPendingFlags(i)
    BY DEF InWaker, getPendingFlags, WakeFlags
  <1>2. CASE ~hw[i].closed
    <2>1. Perform(i) = getPendingFlags(i)
      BY <1>2 DEF Perform, close_from_host
    <2> QED BY <1>1, <2>1, TimerEffect DEF PipeInv
  <1> QED BY <1>2

LEMMA TimerStep ==
    ASSUME PipeInv, onTimerEvent PROVE PipeInv'
  <1>1. UNCHANGED <<file, id, flags, signalled, list, runthread, task, popped, misled, pc, service>>
        /\ pending' = {}
    BY DEF onTimerEvent, driver, thread
  <1>2. TypeOK /\ \A o \in Objects : id[o] \in Ids
    BY DEF PipeInv, TypeOK
  <1>3. \A i \in Ids : Perform(i) # {} => hw[i].open
    <2> SUFFICES ASSUME NEW i \in Ids, Perform(i) # {} PROVE hw[i].open
      OBVIOUS
    <2>1. Allocated(i)
      BY DEF PipeInv, NoStalePipe, Perform, close_from_host, getPendingFlags
    <2>2. PICK o \in Objects : file[o] = "open" /\ id[o] = i
      BY <2>1 DEF Allocated, PipesAt, onTimerEvent, VmLockFree
    <2> QED BY <2>2 DEF PipeInv, DeviceAgrees
  <1>4. \A i \in Ids : "Closed" \in getPendingFlags(i) => service[i].closed
    BY DEF PipeInv, CloseQueued, getPendingFlags
  <1>5. TypeOK'
    BY <1>1, <1>2, TimerEffect DEF TypeOK
  <1>6. NoStalePipe'
    <2>1. \A i \in FreeIds' : ~hw'[i].open
      BY <1>1, <1>2, TimerEffect DEF PipeInv, NoStalePipe, FreeIds, PipesAt, Allocated
    <2>2. \A i \in wantedPipes' : hw'[i].open
      BY <1>2, <1>3, TimerEffect DEF PipeInv, NoStalePipe
    <2> QED BY <1>1, <2>1, <2>2 DEF PipeInv, NoStalePipe
  <1>7. IdsDiffer' /\ CallsAreOpen'
    BY <1>1 DEF PipeInv, IdsDiffer, CallsAreOpen
  <1>8. DeviceAgrees'
    BY <1>1, <1>2, TimerEffect DEF PipeInv, DeviceAgrees
  <1>9. UnusedIsClear'
    BY <1>1, <1>2, <1>3, TimerEffect DEF PipeInv, UnusedIsClear, PipesAt, Allocated
  <1>10. InterruptsPending'
    BY <1>1, <1>2, TimerEffect DEF PipeInv, InterruptsPending
  <1>11. CloseQueued'
    BY <1>1 DEF CloseQueued
  <1>12. CloseInDevice'
    <2> SUFFICES ASSUME NEW i \in Ids
                 PROVE  /\ hw'[i].closed => service[i].closed
                        /\ "Closed" \in hw'[i].wanted => hw'[i].closed
      BY <1>1 DEF CloseInDevice
    <2>1. Perform(i) \subseteq getPendingFlags(i)
      BY DEF Perform, close_from_host
    <2> QED BY <1>2, <1>4, <2>1, TimerEffect DEF PipeInv, CloseInDevice
  <1>13. CloseInDriver'
    <2> SUFFICES ASSUME NEW o \in Objects, file[o] = "open"
                 PROVE  /\ "Closed" \in signalled[o] => hw'[id[o]].closed
                        /\ hw'[id[o]].closed => "Closed" \in flags[o] \/ CloseOnItsWay(o)'
                        /\ "Closed" \in flags[o] => hw'[id[o]].closed \/ o \in misled
      BY <1>1 DEF CloseInDriver, CloseOnItsWay
    <2>1. /\ "Closed" \in signalled[o] => hw'[id[o]].closed
          /\ "Closed" \in flags[o] => hw'[id[o]].closed \/ o \in misled
      BY <1>2, TimerEffect DEF PipeInv, CloseInDriver
    <2>2. CASE hw[id[o]].closed
      BY <1>1, <1>2, <2>1, <2>2, TimerEffect DEF PipeInv, CloseInDriver, CloseOnItsWay
    <2>3. CASE ~hw[id[o]].closed /\ hw'[id[o]].closed
      <3>1. "Closed" \in getPendingFlags(id[o])
        BY <1>2, <2>3, TimerEffect
      <3>2. "Closed" \in Perform(id[o])
        BY <2>3, <3>1 DEF Perform, close_from_host
      <3> QED BY <1>1, <1>2, <2>1, <3>2, TimerEffect DEF CloseOnItsWay
    <2>4. CASE ~hw'[id[o]].closed
      BY <2>1, <2>4
    <2> QED BY <2>2, <2>3, <2>4
  <1>14. WantedIsKnown'
    <2> SUFFICES ASSUME NEW i \in Ids, NEW d \in hw'[i].wanted \cap Dirs
                 PROVE  \/ i \in wantedPipes' \/ hw'[i].closed
                        \/ d \in service[i].asked \ service[i].ready
      BY <1>1 DEF WantedIsKnown
    <2>1. CASE d \in Perform(i)
      BY <1>2, <2>1, TimerEffect
    <2>2. CASE d \notin Perform(i)
      <3>1. d \in hw[i].wanted \cap Dirs
        BY <1>2, <2>2, TimerEffect
      <3>2. \/ i \in wantedPipes \/ hw[i].closed \/ InWaker(i, d)
            \/ d \in service[i].asked \ service[i].ready
        BY <3>1 DEF PipeInv, WantedIsKnown
      <3> QED BY <1>2, <3>2, TimerEffect, TimerDelivers
    <2> QED BY <2>1, <2>2
  <1>15. WaitsKnown'
    <2> SUFFICES ASSUME NEW o \in Objects, NEW d \in Dirs
                 PROVE  /\ pc[o][d] = "sleep" => d \in flags[o]
                        /\ pc[o][d] \in Waiting /\ d \in flags[o] =>
                              \/ OnItsWay(o, d)' \/ "Closed" \in flags[o]
                              \/ /\ d \in service[id[o]].asked \ service[id[o]].ready
                                 /\ d \in hw'[id[o]].wanted
      BY <1>1 DEF WaitsKnown, Waiting
    <2>1. pc[o][d] = "sleep" => d \in flags[o]
      BY DEF PipeInv, WaitsKnown
    <2>2. ASSUME pc[o][d] \in Waiting, d \in flags[o], "Closed" \notin flags[o]
          PROVE  \/ OnItsWay(o, d)'
                 \/ /\ d \in service[id[o]].asked \ service[id[o]].ready
                    /\ d \in hw'[id[o]].wanted
      <3>1. \/ OnItsWay(o, d)
            \/ /\ d \in service[id[o]].asked \ service[id[o]].ready
               /\ d \in hw[id[o]].wanted
        BY <2>2 DEF PipeInv, WaitsKnown, Waiting
      <3>2. CASE InWaker(id[o], d)
        <4>1. file[o] = "open"
          BY <2>2 DEF PipeInv, CallsAreOpen, Waiting
        <4>2. CASE hw[id[o]].closed
          <5>1. CloseOnItsWay(o)
            BY <2>2, <4>1, <4>2 DEF PipeInv, CloseInDriver
          <5> QED BY <1>1, <1>2, <5>1, TimerEffect DEF CloseOnItsWay, OnItsWay
        <4>3. CASE id[o] \in wantedPipes' /\ hw'[id[o]].wanted \cap {d, "Closed"} # {}
          BY <1>1, <4>3 DEF OnItsWay
        <4> QED BY <1>2, <3>2, <4>2, <4>3, TimerDelivers
      <3>3. CASE ~InWaker(id[o], d)
        BY <1>1, <1>2, <3>1, <3>3, TimerEffect DEF OnItsWay, InWaker
      <3> QED BY <3>2, <3>3
    <2> QED BY <2>1, <2>2
  <1>16. CloseInTask'
    BY <1>1, <1>2, TimerEffect DEF PipeInv, TypeOK, CloseInTask
  <1> QED BY <1>5, <1>6, <1>7, <1>8, <1>9, <1>10, <1>11, <1>12, <1>13, <1>14, <1>15,
             <1>16 DEF PipeInv

(* The interrupt handler moves the reported pipes' wishes to the driver. *)
LEMMA InterruptStep ==
    ASSUME PipeInv, Interrupt PROVE PipeInv'
  <1>1. PICK R \in SUBSET wantedPipes :
          /\ hw' = [i \in Ids |-> IF i \in R THEN [hw[i] EXCEPT !.wanted = {}] ELSE hw[i]]
          /\ wantedPipes' = wantedPipes \ R
          /\ irq' = (wantedPipes \ R # {})
          /\ signalled' = [o \in Objects |->
                              IF o \in signalled_pipes_add(R)
                              THEN signalled[o] \cup hw[id[o]].wanted ELSE signalled[o]]
          /\ list' = list \cup signalled_pipes_add(R)
          /\ runthread' = (runthread \/ R # {})
    BY DEF Interrupt
  <1>2. UNCHANGED <<file, id, flags, task, popped, misled, pc, service, pending>>
    BY DEF Interrupt, thread, host
  <1>3. /\ hw \in [Ids -> [open : BOOLEAN, closed : BOOLEAN, wanted : SUBSET WakeFlags]]
        /\ wantedPipes \subseteq Ids /\ list \subseteq Objects
        /\ signalled \in [Objects -> SUBSET WakeFlags]
        /\ runthread \in BOOLEAN
        /\ \A o \in Objects : id[o] \in Ids
    BY DEF PipeInv, TypeOK
  <1>4. /\ hw' \in [Ids -> [open : BOOLEAN, closed : BOOLEAN, wanted : SUBSET WakeFlags]]
        /\ \A i \in Ids : /\ hw'[i].open = hw[i].open
                          /\ hw'[i].closed = hw[i].closed
                          /\ hw'[i].wanted = IF i \in R THEN {} ELSE hw[i].wanted
                          /\ i \notin R => hw'[i] = hw[i]
    BY <1>1, <1>3
  <1>5. \A o \in Objects : o \in signalled_pipes_add(R) <=> file[o] # "free" /\ id[o] \in R
    BY DEF signalled_pipes_add
  <1>6. /\ list' \subseteq Objects /\ list \subseteq list'
        /\ \A o \in Objects : o \in list' <=> o \in list \/ (file[o] # "free" /\ id[o] \in R)
    BY <1>1, <1>3, <1>5 DEF signalled_pipes_add
  <1>7. /\ signalled' \in [Objects -> SUBSET WakeFlags]
        /\ \A o \in Objects : signalled'[o] = IF file[o] # "free" /\ id[o] \in R
                                              THEN signalled[o] \cup hw[id[o]].wanted
                                              ELSE signalled[o]
    <2>1. \A o \in Objects : hw[id[o]].wanted \subseteq WakeFlags
      BY <1>3
    <2> QED BY <1>1, <1>3, <1>5, <2>1
  <1>8. \A i \in R : hw[i].open /\ i \in Ids
    BY <1>3 DEF PipeInv, NoStalePipe
  <1>9. TypeOK'
    BY <1>1, <1>2, <1>3, <1>4, <1>6, <1>7 DEF PipeInv, TypeOK
  <1>10. NoStalePipe'
    <2>1. \A i \in FreeIds' : ~hw'[i].open
      BY <1>2, <1>4 DEF PipeInv, NoStalePipe, FreeIds, PipesAt, Allocated
    <2>2. \A i \in wantedPipes' : hw'[i].open
      BY <1>1, <1>3, <1>4 DEF PipeInv, NoStalePipe
    <2>3. \A op \in pending' : Allocated(op.id)'
      BY <1>2 DEF PipeInv, NoStalePipe, Allocated, PipesAt
    <2>4. \A o \in list' : file'[o] # "free"
      BY <1>2, <1>6 DEF PipeInv, NoStalePipe
    <2> QED BY <2>1, <2>2, <2>3, <2>4 DEF NoStalePipe
  <1>11. IdsDiffer' /\ CallsAreOpen' /\ CloseQueued'
    BY <1>2 DEF PipeInv, IdsDiffer, CallsAreOpen, CloseQueued
  <1>12. DeviceAgrees'
    BY <1>2, <1>3, <1>4 DEF PipeInv, DeviceAgrees
  <1>13. UnusedIsClear'
    BY <1>2, <1>4, <1>8 DEF PipeInv, UnusedIsClear, PipesAt, Allocated
  <1>14. InterruptsPending'
    <2>1. R = {} => list' = list
      BY <1>1 DEF signalled_pipes_add
    <2> QED BY <1>1, <1>2, <1>3, <2>1 DEF PipeInv, InterruptsPending
  <1>15. CloseInDevice'
    BY <1>2, <1>4 DEF PipeInv, CloseInDevice
  <1>16. CloseInDriver'
    <2> SUFFICES ASSUME NEW o \in Objects, file[o] = "open"
                 PROVE  /\ "Closed" \in signalled'[o] => hw'[id[o]].closed
                        /\ hw'[id[o]].closed => "Closed" \in flags[o] \/ CloseOnItsWay(o)'
                        /\ "Closed" \in flags[o] => hw'[id[o]].closed \/ o \in misled
      BY <1>2 DEF CloseInDriver, CloseOnItsWay
    <2>1. /\ "Closed" \in signalled'[o] => hw'[id[o]].closed
          /\ "Closed" \in flags[o] => hw'[id[o]].closed \/ o \in misled
      BY <1>3, <1>4, <1>7 DEF PipeInv, CloseInDriver, CloseInDevice
    <2>2. ASSUME hw[id[o]].closed PROVE "Closed" \in flags[o] \/ CloseOnItsWay(o)'
      <3>1. CASE "Closed" \in flags[o]
        BY <3>1
      <3>2. CASE CloseOnItsWay(o)
        <4>1. CASE id[o] \in R
          <5>1. o \in list' /\ signalled'[o] = signalled[o] \cup hw[id[o]].wanted
            BY <1>6, <1>7, <4>1
          <5> QED BY <1>2, <3>2, <5>1 DEF CloseOnItsWay
        <4>2. CASE id[o] \notin R
          <5>1. /\ signalled'[o] = signalled[o] /\ hw'[id[o]] = hw[id[o]]
                /\ id[o] \in wantedPipes => id[o] \in wantedPipes'
            BY <1>1, <1>3, <1>4, <1>7, <4>2
          <5> QED BY <1>2, <1>6, <3>2, <5>1 DEF CloseOnItsWay
        <4> QED BY <4>1, <4>2
      <3>3. "Closed" \in flags[o] \/ CloseOnItsWay(o)
        BY <2>2 DEF PipeInv, CloseInDriver
      <3> QED BY <3>1, <3>2, <3>3
    <2> QED BY <1>3, <1>4, <2>1, <2>2
  <1>17. WantedIsKnown'
    BY <1>1, <1>2, <1>4 DEF PipeInv, WantedIsKnown, InWaker
  <1>18. WaitsKnown'
    <2> SUFFICES ASSUME NEW o \in Objects, NEW d \in Dirs
                 PROVE  /\ pc[o][d] = "sleep" => d \in flags[o]
                        /\ pc[o][d] \in Waiting /\ d \in flags[o] =>
                              \/ OnItsWay(o, d)' \/ "Closed" \in flags[o]
                              \/ /\ d \in service[id[o]].asked \ service[id[o]].ready
                                 /\ d \in hw'[id[o]].wanted
      BY <1>2 DEF WaitsKnown, Waiting
    <2>1. pc[o][d] = "sleep" => d \in flags[o]
      BY DEF PipeInv, WaitsKnown
    <2>2. ASSUME pc[o][d] \in Waiting, d \in flags[o], "Closed" \notin flags[o]
          PROVE  \/ OnItsWay(o, d)'
                 \/ /\ d \in service[id[o]].asked \ service[id[o]].ready
                    /\ d \in hw'[id[o]].wanted
      <3>1. \/ OnItsWay(o, d)
            \/ /\ d \in service[id[o]].asked \ service[id[o]].ready
               /\ d \in hw[id[o]].wanted
        BY <2>2 DEF PipeInv, WaitsKnown, Waiting
      <3>2. file[o] = "open"
        BY <2>2 DEF PipeInv, CallsAreOpen, Waiting
      <3>3. CASE id[o] \in R
        BY <1>2, <1>3, <1>6, <1>7, <3>1, <3>2, <3>3 DEF OnItsWay
      <3>4. CASE id[o] \notin R
        BY <1>1, <1>2, <1>3, <1>4, <1>6, <1>7, <3>1, <3>4 DEF OnItsWay
      <3> QED BY <3>3, <3>4
    <2> QED BY <2>1, <2>2
  <1>19. CloseInTask'
    BY <1>2, <1>3, <1>4 DEF PipeInv, TypeOK, CloseInTask
  <1> QED BY <1>9, <1>10, <1>11, <1>12, <1>13, <1>14, <1>15, <1>16, <1>17, <1>18,
             <1>19 DEF PipeInv

LEMMA TaskStartStep ==
    ASSUME PipeInv, TaskStart PROVE PipeInv'
  <1>1. /\ UNCHANGED <<file, id, flags, signalled, list, popped, misled, pc, hw, wantedPipes, irq,
                       service, pending>>
        /\ task = "idle" /\ task' = "pop" /\ runthread' = FALSE
    BY DEF TaskStart, thread, device, host
  <1>2. TypeOK'
    BY <1>1 DEF PipeInv, TypeOK
  <1>3. NoStalePipe' /\ IdsDiffer' /\ DeviceAgrees' /\ CallsAreOpen' /\ UnusedIsClear'
    BY <1>1 DEF PipeInv, NoStalePipe, FreeIds, PipesAt, Allocated, IdsDiffer, DeviceAgrees,
                CallsAreOpen, UnusedIsClear
  <1>4. InterruptsPending' /\ CloseQueued' /\ CloseInDevice' /\ WantedIsKnown'
    BY <1>1 DEF PipeInv, InterruptsPending, CloseQueued, CloseInDevice, WantedIsKnown, InWaker
  <1>5. CloseInDriver' /\ CloseInTask'
    BY <1>1 DEF PipeInv, CloseInDriver, CloseInTask, CloseOnItsWay
  <1>6. WaitsKnown'
    BY <1>1 DEF PipeInv, WaitsKnown, OnItsWay
  <1> QED BY <1>2, <1>3, <1>4, <1>5, <1>6 DEF PipeInv

(* A popped pipe takes what it was signalled along. *)
LEMMA PopStep ==
    ASSUME PipeInv, signalled_pipes_pop_front PROVE PipeInv'
  <1>1. /\ UNCHANGED <<file, id, flags, runthread, misled, pc, hw, wantedPipes, irq, service, pending>>
        /\ task = "pop"
    BY DEF signalled_pipes_pop_front, thread, device, host
  <1>2. NoStalePipe => /\ \A i \in FreeIds' : ~hw'[i].open
                       /\ \A op \in pending' : Allocated(op.id)'
    BY <1>1 DEF NoStalePipe, FreeIds, PipesAt, Allocated
  <1>3. /\ IdsDiffer' /\ DeviceAgrees' /\ CallsAreOpen' /\ UnusedIsClear'
        /\ CloseQueued' /\ CloseInDevice' /\ WantedIsKnown'
    BY <1>1 DEF PipeInv, IdsDiffer, DeviceAgrees, CallsAreOpen, UnusedIsClear, PipesAt, Allocated,
                CloseQueued, CloseInDevice, WantedIsKnown, InWaker
  <1>4. CASE list = {} /\ task' = "idle" /\ UNCHANGED <<signalled, list, popped>>
    <2>1. TypeOK' /\ InterruptsPending'
      BY <1>1, <1>4 DEF PipeInv, TypeOK, InterruptsPending
    <2>2. NoStalePipe'
      BY <1>1, <1>2, <1>4 DEF PipeInv, NoStalePipe
    <2>3. CloseInDriver' /\ CloseInTask'
      BY <1>1, <1>4 DEF PipeInv, CloseInDriver, CloseInTask, CloseOnItsWay
    <2>4. WaitsKnown'
      BY <1>1, <1>4 DEF PipeInv, WaitsKnown, OnItsWay
    <2> QED BY <1>3, <2>1, <2>2, <2>3, <2>4 DEF PipeInv
  <1>5. ASSUME NEW x \in list, task' = "apply", popped' = <<x, signalled[x]>>,
               signalled' = [signalled EXCEPT ![x] = {}], list' = list \ {x}
        PROVE  PipeInv'
    <2>1. /\ x \in Objects /\ list \subseteq Objects
          /\ signalled \in [Objects -> SUBSET WakeFlags]
      BY DEF PipeInv, TypeOK
    <2>2. /\ signalled' \in [Objects -> SUBSET WakeFlags]
          /\ \A o \in Objects : signalled'[o] = IF o = x THEN {} ELSE signalled[o]
          /\ \A o \in Objects : o \in list' <=> o \in list /\ o # x
          /\ popped'[1] = x /\ popped'[2] = signalled[x]
          /\ popped' \in Objects \X SUBSET WakeFlags
      BY <1>5, <2>1
    <2>3. TypeOK'
      BY <1>1, <1>5, <2>1, <2>2 DEF PipeInv, TypeOK
    <2>4. InterruptsPending'
      BY <1>1, <1>5 DEF PipeInv, InterruptsPending
    <2>5. NoStalePipe'
      BY <1>1, <1>2, <1>5 DEF PipeInv, NoStalePipe
    <2>6. CloseInDriver'
      BY <1>1, <1>5, <2>1, <2>2 DEF PipeInv, CloseInDriver, CloseOnItsWay
    <2>7. WaitsKnown'
      BY <1>1, <1>5, <2>1, <2>2 DEF PipeInv, WaitsKnown, OnItsWay
    <2>8. CloseInTask'
      BY <1>1, <2>1, <2>2 DEF PipeInv, NoStalePipe, CloseInDriver, CloseInTask
    <2> QED BY <1>3, <2>3, <2>4, <2>5, <2>6, <2>7, <2>8 DEF PipeInv
  <1> QED BY <1>4, <1>5 DEF signalled_pipes_pop_front

(* The wakes are applied, be it to a pipe that was opened in between. *)
LEMMA InterruptTaskStep ==
    ASSUME PipeInv, interrupt_task PROVE PipeInv'
  <1>1. PICK x \in Objects, wakes \in SUBSET WakeFlags : popped = <<x, wakes>>
    BY DEF PipeInv, TypeOK, interrupt_task
  <1>2. /\ UNCHANGED <<file, id, signalled, list, runthread, hw, wantedPipes, irq, service, pending>>
        /\ task = "apply" /\ task' = "pop"
        /\ misled' = {p \in misled : p = x => "Closed" \in flags'[x]}
        /\ flags' = [flags EXCEPT ![x] =
                            IF file[x] = "free" THEN @
                            ELSE IF "Closed" \in wakes THEN {"Closed"} ELSE @ \ wakes]
        /\ pc' = [pc EXCEPT ![x] = [d \in Dirs |->
                            IF @[d] = "sleep" THEN "awake" ELSE @[d]]]
    BY <1>1 DEF interrupt_task, interrupt_task_again, device, host
  <1>3. /\ flags \in [Objects -> SUBSET WakeFlags]
        /\ pc \in [Objects -> [Dirs -> Places]]
    BY DEF PipeInv, TypeOK, Places
  <1>4. /\ flags' \in [Objects -> SUBSET WakeFlags]
        /\ \A o \in Objects : o # x => flags'[o] = flags[o]
        /\ flags'[x] = IF file[x] = "free" THEN flags[x]
                       ELSE IF "Closed" \in wakes THEN {"Closed"} ELSE flags[x] \ wakes
    BY <1>2, <1>3 DEF WakeFlags
  <1>5. /\ pc' \in [Objects -> [Dirs -> Places]]
        /\ \A o \in Objects, d \in Dirs :
              pc'[o][d] = IF o = x /\ pc[o][d] = "sleep" THEN "awake" ELSE pc[o][d]
    BY <1>2, <1>3 DEF Places
  <1>6. TypeOK'
    BY <1>2, <1>4, <1>5 DEF PipeInv, TypeOK, Places
  <1>7. NoStalePipe' /\ IdsDiffer' /\ DeviceAgrees' /\ UnusedIsClear'
    BY <1>2 DEF PipeInv, NoStalePipe, FreeIds, PipesAt, Allocated, IdsDiffer, DeviceAgrees, UnusedIsClear
  <1>8. CallsAreOpen'
    BY <1>2, <1>5 DEF PipeInv, CallsAreOpen
  <1>9. InterruptsPending' /\ CloseQueued' /\ CloseInDevice' /\ WantedIsKnown'
    BY <1>2 DEF PipeInv, InterruptsPending, CloseQueued, CloseInDevice, WantedIsKnown, InWaker
  <1>10. CloseInDriver' /\ CloseInTask'
    <2> SUFFICES ASSUME NEW o \in Objects, file[o] = "open"
                 PROVE  /\ "Closed" \in signalled[o] => hw[id[o]].closed
                        /\ hw[id[o]].closed => "Closed" \in flags'[o] \/ CloseOnItsWay(o)'
                        /\ "Closed" \in flags'[o] => hw[id[o]].closed \/ o \in misled'
      BY <1>2 DEF CloseInDriver, CloseInTask, CloseOnItsWay
    <2>1. /\ "Closed" \in signalled[o] => hw[id[o]].closed
          /\ hw[id[o]].closed => "Closed" \in flags'[o] \/ CloseOnItsWay(o)'
      BY <1>1, <1>2, <1>4 DEF PipeInv, CloseInDriver, CloseOnItsWay
    <2>2. ASSUME "Closed" \in flags'[o] PROVE hw[id[o]].closed \/ o \in misled
      <3>1. \/ "Closed" \in flags[o] \/ (o = x /\ "Closed" \in wakes)
        BY <1>4, <2>2
      <3>2. CASE "Closed" \in flags[o]
        BY <3>2 DEF PipeInv, CloseInDriver
      <3>3. CASE o = x /\ "Closed" \in wakes
        BY <1>1, <1>2, <3>3 DEF PipeInv, CloseInTask
      <3> QED BY <3>1, <3>2, <3>3
    <2> QED BY <1>2, <2>1, <2>2
  <1>11. WaitsKnown'
    <2> SUFFICES ASSUME NEW o \in Objects, NEW d \in Dirs
                 PROVE  /\ pc'[o][d] = "sleep" => d \in flags'[o]
                        /\ pc'[o][d] \in Waiting /\ d \in flags'[o] =>
                              \/ OnItsWay(o, d)' \/ "Closed" \in flags'[o]
                              \/ /\ d \in service[id[o]].asked \ service[id[o]].ready
                                 /\ d \in hw[id[o]].wanted
      BY <1>2 DEF WaitsKnown, Waiting
    <2>1. CASE o # x
      BY <1>1, <1>2, <1>4, <1>5, <2>1 DEF PipeInv, WaitsKnown, OnItsWay, Waiting
    <2>2. CASE o = x /\ pc[o][d] \in Waiting
      <3>1. file[o] = "open"
        BY <2>2 DEF PipeInv, CallsAreOpen, Waiting
      <3>2. pc'[o][d] # "sleep"
        BY <1>5, <2>2
      <3>3. d \in flags'[o] => d \in flags[o] /\ d \notin wakes /\ "Closed" \notin wakes
        BY <1>4, <2>2, <3>1 DEF Dirs
      <3>4. "Closed" \in flags[o] => "Closed" \in flags'[o]
        BY <1>4, <2>2, <3>1
      <3>5. d \in flags[o] => \/ OnItsWay(o, d) \/ "Closed" \in flags[o]
                              \/ /\ d \in service[id[o]].asked \ service[id[o]].ready
                                 /\ d \in hw[id[o]].wanted
        BY <2>2 DEF PipeInv, WaitsKnown, Waiting
      <3> QED BY <1>1, <1>2, <2>2, <3>2, <3>3, <3>4, <3>5 DEF OnItsWay
    <2>3. CASE o = x /\ pc[o][d] \notin Waiting
      BY <1>5, <2>3 DEF Waiting
    <2> QED BY <2>1, <2>2, <2>3
  <1> QED BY <1>6, <1>7, <1>8, <1>9, <1>10, <1>11 DEF PipeInv

-----------------------------------------------------------------------------
(* open and release. *)

(* The new pipe is clean on every station: its id had nothing queued. *)
LEMMA OpenStep ==
    ASSUME PipeInv, NEW o \in Objects, open(o) PROVE PipeInv'
  <1>1. PICK i \in FreeIds :
           /\ file' = [file EXCEPT ![o] = "open"]
           /\ id' = [id EXCEPT ![o] = i]
           /\ flags' = [flags EXCEPT ![o] = {}]
           /\ signalled' = [signalled EXCEPT ![o] = {}]
           /\ hw' = [hw EXCEPT ![i] = [NoPipe EXCEPT !.open = TRUE]]
           /\ service' = [service EXCEPT ![i] = NoService]
    BY DEF open
  <1>2. /\ UNCHANGED <<list, runthread, task, popped, misled, pc, wantedPipes, irq, pending>>
        /\ file[o] = "free"
    BY DEF open
  <1>3. /\ i \in Ids /\ ~hw[i].open
        /\ \A p \in Objects : file[p] # "free" => id[p] # i /\ p # o
    BY <1>2 DEF FreeIds, PipesAt, Allocated, PipeInv, NoStalePipe
  <1>4. /\ i \notin wantedPipes /\ \A op \in pending : op.id # i
        /\ o \notin list /\ \A d \in Dirs : pc[o][d] = "idle"
    BY <1>2, <1>3 DEF PipeInv, NoStalePipe, CallsAreOpen, Allocated, PipesAt
  <1>5. /\ file \in [Objects -> Files]
        /\ id \in [Objects -> Ids]
        /\ flags \in [Objects -> SUBSET WakeFlags]
        /\ signalled \in [Objects -> SUBSET WakeFlags]
        /\ hw \in [Ids -> [open : BOOLEAN, closed : BOOLEAN, wanted : SUBSET WakeFlags]]
        /\ service \in [Ids -> [ready : SUBSET Dirs, asked : SUBSET Dirs, closed : BOOLEAN]]
    BY DEF PipeInv, TypeOK, Files
  <1>6. /\ file'[o] = "open" /\ id'[o] = i /\ flags'[o] = {} /\ signalled'[o] = {}
        /\ \A p \in Objects : p # o => /\ file'[p] = file[p] /\ id'[p] = id[p]
                                       /\ flags'[p] = flags[p] /\ signalled'[p] = signalled[p]
    BY <1>1, <1>5
  <1>7. /\ hw'[i] = [open |-> TRUE, closed |-> FALSE, wanted |-> {}]
        /\ service'[i] = [ready |-> {}, asked |-> {}, closed |-> FALSE]
        /\ \A j \in Ids : j # i => hw'[j] = hw[j] /\ service'[j] = service[j]
    BY <1>1, <1>3, <1>5 DEF NoPipe, NoService
  <1>8. /\ file' \in [Objects -> Files]
        /\ id' \in [Objects -> Ids]
        /\ flags' \in [Objects -> SUBSET WakeFlags]
        /\ signalled' \in [Objects -> SUBSET WakeFlags]
    BY <1>1, <1>3, <1>5 DEF Files
  <1>9. hw' \in [Ids -> [open : BOOLEAN, closed : BOOLEAN, wanted : SUBSET WakeFlags]]
    BY <1>1, <1>3, <1>5 DEF NoPipe
  <1>10. service' \in [Ids -> [ready : SUBSET Dirs, asked : SUBSET Dirs, closed : BOOLEAN]]
    BY <1>1, <1>3, <1>5 DEF NoService
  <1>11. TypeOK'
    BY <1>2, <1>8, <1>9, <1>10 DEF PipeInv, TypeOK, Files
  <1>12. NoStalePipe'
    <2>1. \A j \in FreeIds' : ~hw'[j].open
      <3> SUFFICES ASSUME NEW j \in Ids, \A p \in Objects : ~(file'[p] # "free" /\ id'[p] = j)
                   PROVE  ~hw'[j].open
        BY DEF FreeIds, PipesAt, Allocated
      <3>1. j # i
        BY <1>6
      <3>2. \A p \in Objects : ~(file[p] # "free" /\ id[p] = j)
        BY <1>2, <1>6
      <3> QED BY <1>7, <3>1, <3>2 DEF PipeInv, NoStalePipe, FreeIds, PipesAt, Allocated
    <2>2. \A j \in wantedPipes' : hw'[j].open
      BY <1>2, <1>4, <1>7 DEF PipeInv, TypeOK, NoStalePipe
    <2>3. \A op \in pending' : Allocated(op.id)'
      BY <1>2, <1>6 DEF PipeInv, NoStalePipe, Allocated, PipesAt
    <2>4. \A p \in list' : file'[p] # "free"
      BY <1>2, <1>4, <1>6 DEF PipeInv, TypeOK, NoStalePipe
    <2> QED BY <2>1, <2>2, <2>3, <2>4 DEF NoStalePipe
  <1>13. IdsDiffer'
    BY <1>3, <1>6 DEF PipeInv, IdsDiffer
  <1>14. DeviceAgrees'
    BY <1>3, <1>5, <1>6, <1>7 DEF PipeInv, DeviceAgrees
  <1>15. CallsAreOpen'
    BY <1>2, <1>4, <1>6 DEF PipeInv, CallsAreOpen
  <1>16. UnusedIsClear'
    <2>1. \A j \in Ids : Allocated(j) => Allocated(j)'
      BY <1>2, <1>6 DEF Allocated, PipesAt
    <2> QED BY <1>7, <2>1 DEF PipeInv, UnusedIsClear, NoService
  <1>17. InterruptsPending'
    BY <1>2 DEF PipeInv, InterruptsPending
  <1>18. CloseQueued'
    BY <1>2, <1>4, <1>7 DEF PipeInv, TypeOK, CloseQueued
  <1>19. CloseInDevice'
    BY <1>7 DEF PipeInv, CloseInDevice
  <1>20. CloseInDriver'
    BY <1>2, <1>3, <1>5, <1>6, <1>7 DEF PipeInv, CloseInDriver, CloseOnItsWay
  <1>21. WantedIsKnown'
    BY <1>2, <1>7 DEF PipeInv, WantedIsKnown, InWaker
  <1>22. WaitsKnown'
    <2> SUFFICES ASSUME NEW p \in Objects, NEW e \in Dirs, p # o
                 PROVE  /\ pc[p][e] = "sleep" => e \in flags[p]
                        /\ pc[p][e] \in Waiting /\ e \in flags[p] =>
                              \/ OnItsWay(p, e)' \/ "Closed" \in flags[p]
                              \/ /\ e \in service'[id[p]].asked \ service'[id[p]].ready
                                 /\ e \in hw'[id[p]].wanted
      BY <1>2, <1>4, <1>6 DEF WaitsKnown, OnItsWay, Waiting
    <2>1. pc[p][e] \in Waiting => id[p] \in Ids /\ id[p] # i
      BY <1>3, <1>5 DEF PipeInv, CallsAreOpen, Waiting
    <2> QED BY <1>2, <1>6, <1>7, <2>1 DEF PipeInv, WaitsKnown, OnItsWay, Waiting
  <1>23. CloseInTask'
    <2> SUFFICES ASSUME task = "apply", popped[1] \notin misled
                 PROVE  /\ file'[popped[1]] # "free"
                        /\ file'[popped[1]] = "open" /\ "Closed" \in popped[2] =>
                               hw'[id'[popped[1]]].closed
      BY <1>2 DEF CloseInTask
    <2>1. /\ file[popped[1]] # "free" /\ popped[1] \in Objects
          /\ file[popped[1]] = "open" /\ "Closed" \in popped[2] => hw[id[popped[1]]].closed
      BY DEF PipeInv, TypeOK, CloseInTask
    <2> QED BY <1>3, <1>5, <1>6, <1>7, <2>1
  <1> QED BY <1>11, <1>12, <1>13, <1>14, <1>15, <1>16, <1>17, <1>18, <1>19, <1>20, <1>21,
             <1>22, <1>23 DEF PipeInv

(* PIPE_CMD_CLOSE takes the id out of PipeWaker and of the device's list;  *)
(* the service can still queue something.                                  *)
LEMMA CloseCommandStep ==
    ASSUME PipeInv, NEW o \in Objects, CloseCommand(o) PROVE PipeInv'
  <1>1. PICK i \in Ids : i = id[o]
    BY DEF PipeInv, TypeOK
  <1>2. /\ UNCHANGED <<id, flags, signalled, list, runthread, task, popped, misled, pc, irq, service>>
        /\ file[o] = "open" /\ \A d \in Dirs : pc[o][d] = "idle"
        /\ file' = [file EXCEPT ![o] = "stopping"]
        /\ hw' = [hw EXCEPT ![i] = NoPipe]
        /\ wantedPipes' = wantedPipes \ {i}
        /\ pending' = {op \in pending : op.id # i}
    BY <1>1 DEF CloseCommand, thread, wanted_pipes_remove, abortPending
  <1>3. /\ file \in [Objects -> Files]
        /\ \A p \in Objects : id[p] \in Ids
        /\ hw \in [Ids -> [open : BOOLEAN, closed : BOOLEAN, wanted : SUBSET WakeFlags]]
    BY DEF PipeInv, TypeOK, Files
  <1>4. /\ file' \in [Objects -> Files]
        /\ file'[o] = "stopping" /\ \A p \in Objects : p # o => file'[p] = file[p]
    BY <1>2, <1>3 DEF Files
  <1>5. /\ hw' \in [Ids -> [open : BOOLEAN, closed : BOOLEAN, wanted : SUBSET WakeFlags]]
        /\ hw'[i] = NoPipe /\ \A j \in Ids : j # i => hw'[j] = hw[j]
    BY <1>2, <1>3 DEF NoPipe
  <1>6. \A j \in Ids : Allocated(j)' <=> Allocated(j)
    BY <1>2, <1>4 DEF Allocated, PipesAt
  <1>7. \A p \in Objects : p # o /\ file[p] # "free" => id[p] # i
    BY <1>1, <1>2 DEF PipeInv, IdsDiffer
  <1>8. ~NoPipe.open /\ ~NoPipe.closed /\ NoPipe.wanted = {}
    BY DEF NoPipe
  <1>9. TypeOK'
    BY <1>2, <1>4, <1>5 DEF PipeInv, TypeOK, Files
  <1>10. NoStalePipe'
    <2>1. \A j \in FreeIds' : ~hw'[j].open
      <3> SUFFICES ASSUME NEW j \in Ids, \A p \in Objects : ~(file'[p] # "free" /\ id'[p] = j)
                   PROVE  ~hw'[j].open
        BY DEF FreeIds, PipesAt, Allocated
      <3>1. j # i
        BY <1>1, <1>2, <1>4
      <3>2. \A p \in Objects : ~(file[p] # "free" /\ id[p] = j)
        BY <1>2, <1>4
      <3> QED BY <1>5, <3>1, <3>2 DEF PipeInv, NoStalePipe, FreeIds, PipesAt, Allocated
    <2>2. \A j \in wantedPipes' : hw'[j].open
      BY <1>2, <1>5 DEF PipeInv, TypeOK, NoStalePipe
    <2>3. \A op \in pending' : Allocated(op.id)'
      BY <1>2, <1>6 DEF PipeInv, TypeOK, NoStalePipe
    <2>4. \A p \in list' : file'[p] # "free"
      BY <1>2, <1>4 DEF PipeInv, TypeOK, NoStalePipe
    <2> QED BY <2>1, <2>2, <2>3, <2>4 DEF NoStalePipe
  <1>11. IdsDiffer'
    BY <1>2, <1>4 DEF PipeInv, IdsDiffer
  <1>12. DeviceAgrees'
    <2> SUFFICES ASSUME NEW p \in Objects
                 PROVE  /\ file'[p] = "open" => hw'[id[p]].open
                        /\ file'[p] \notin {"free", "open"} => ~hw'[id[p]].open
      BY <1>2 DEF DeviceAgrees
    <2>1. CASE p = o
      BY <1>1, <1>4, <1>5, <1>8, <2>1
    <2>2. CASE p # o /\ file[p] # "free"
      BY <1>3, <1>4, <1>5, <1>7, <2>2 DEF PipeInv, DeviceAgrees
    <2>3. CASE p # o /\ file[p] = "free"
      BY <1>4, <2>3
    <2> QED BY <2>1, <2>2, <2>3
  <1>13. CallsAreOpen'
    BY <1>2, <1>4 DEF PipeInv, CallsAreOpen
  <1>14. UnusedIsClear'
    BY <1>2, <1>5, <1>6 DEF PipeInv, UnusedIsClear
  <1>15. InterruptsPending'
    BY <1>2 DEF PipeInv, InterruptsPending
  <1>16. CloseQueued'
    BY <1>2 DEF PipeInv, CloseQueued
  <1>17. CloseInDevice'
    BY <1>2, <1>5, <1>8 DEF PipeInv, CloseInDevice
  <1>18. CloseInDriver'
    BY <1>2, <1>3, <1>4, <1>5, <1>7 DEF PipeInv, CloseInDriver, CloseOnItsWay
  <1>19. WantedIsKnown'
    <2> SUFFICES ASSUME NEW j \in Ids, NEW d \in hw'[j].wanted \cap Dirs
                 PROVE  \/ j \in wantedPipes' \/ hw'[j].closed \/ InWaker(j, d)'
                        \/ d \in service[j].asked \ service[j].ready
      BY <1>2 DEF WantedIsKnown
    <2>1. j # i
      BY <1>5, <1>8
    <2> QED BY <1>2, <1>5, <2>1 DEF PipeInv, WantedIsKnown, InWaker
  <1>20. WaitsKnown'
    <2> SUFFICES ASSUME NEW p \in Objects, NEW e \in Dirs, p # o
                 PROVE  /\ pc[p][e] = "sleep" => e \in flags[p]
                        /\ pc[p][e] \in Waiting /\ e \in flags[p] =>
                              \/ OnItsWay(p, e)' \/ "Closed" \in flags[p]
                              \/ /\ e \in service[id[p]].asked \ service[id[p]].ready
                                 /\ e \in hw'[id[p]].wanted
      BY <1>2 DEF WaitsKnown, Waiting
    <2>1. pc[p][e] \in Waiting => id[p] \in Ids /\ id[p] # i
      BY <1>3, <1>7 DEF PipeInv, CallsAreOpen, Waiting
    <2> QED BY <1>2, <1>5, <2>1 DEF PipeInv, WaitsKnown, OnItsWay, Waiting
  <1>21. CloseInTask'
    <2> SUFFICES ASSUME task = "apply", popped[1] \notin misled
                 PROVE  /\ file'[popped[1]] # "free"
                        /\ file'[popped[1]] = "open" /\ "Closed" \in popped[2] =>
                               hw'[id[popped[1]]].closed
      BY <1>2 DEF CloseInTask
    <2>1. /\ file[popped[1]] # "free" /\ popped[1] \in Objects
          /\ file[popped[1]] = "open" /\ "Closed" \in popped[2] => hw[id[popped[1]]].closed
      BY DEF PipeInv, TypeOK, CloseInTask
    <2> QED BY <1>3, <1>4, <1>5, <1>7, <2>1
  <1> QED BY <1>9, <1>10, <1>11, <1>12, <1>13, <1>14, <1>15, <1>16, <1>17, <1>18, <1>19,
             <1>20, <1>21 DEF PipeInv

(* The channel is stopped: nothing else is new. *)
LEMMA OnGuestCloseStep ==
    ASSUME PipeInv, NEW o \in Objects, onGuestClose(o) PROVE PipeInv'
  <1>1. /\ UNCHANGED <<id, flags, signalled, list, runthread, task, popped, misled, pc, hw,
                       wantedPipes, irq, service, pending>>
        /\ file[o] = "stopping" /\ file' = [file EXCEPT ![o] = "aborting"]
    BY DEF onGuestClose, thread, device, host
  <1>2. file \in [Objects -> Files]
    BY DEF PipeInv, TypeOK, Files
  <1>3. /\ file' \in [Objects -> Files]
        /\ file'[o] = "aborting" /\ \A p \in Objects : p # o => file'[p] = file[p]
    BY <1>1, <1>2 DEF Files
  <1>4. /\ \A p \in Objects : file'[p] = "open" <=> file[p] = "open"
        /\ \A p \in Objects : file'[p] = "free" <=> file[p] = "free"
        /\ \A j \in Ids : Allocated(j)' <=> Allocated(j)
    BY <1>1, <1>3 DEF Allocated, PipesAt
  <1>5. TypeOK'
    BY <1>1, <1>3 DEF PipeInv, TypeOK, Files
  <1>6. NoStalePipe'
    BY <1>1, <1>4 DEF PipeInv, TypeOK, NoStalePipe, FreeIds, PipesAt
  <1>7. IdsDiffer' /\ DeviceAgrees' /\ CallsAreOpen' /\ UnusedIsClear'
    BY <1>1, <1>4 DEF PipeInv, IdsDiffer, DeviceAgrees, CallsAreOpen, UnusedIsClear
  <1>8. InterruptsPending' /\ CloseQueued' /\ CloseInDevice' /\ WantedIsKnown'
    BY <1>1 DEF PipeInv, InterruptsPending, CloseQueued, CloseInDevice, WantedIsKnown, InWaker
  <1>9. CloseInDriver'
    BY <1>1, <1>4 DEF PipeInv, CloseInDriver, CloseOnItsWay
  <1>10. CloseInTask'
    BY <1>1, <1>4 DEF PipeInv, TypeOK, CloseInTask
  <1>11. WaitsKnown'
    BY <1>1 DEF PipeInv, WaitsKnown, OnItsWay
  <1> QED BY <1>5, <1>6, <1>7, <1>8, <1>9, <1>10, <1>11 DEF PipeInv

(* The second abort leaves nothing of the pipe with PipeWaker. *)
LEMMA HwpipeFreeStep ==
    ASSUME PipeInv, NEW o \in Objects, hwpipe_free(o) PROVE PipeInv'
  <1>1. PICK i \in Ids : i = id[o]
    BY DEF PipeInv, TypeOK
  <1>2. /\ UNCHANGED <<id, flags, signalled, list, runthread, task, popped, misled, pc, hw,
                       wantedPipes, irq>>
        /\ file[o] = "aborting" /\ file' = [file EXCEPT ![o] = "closing"]
        /\ service' = [service EXCEPT ![i] = NoService]
        /\ pending' = {op \in pending : op.id # i}
    BY <1>1 DEF hwpipe_free, thread, device, abortAgain
  <1>3. /\ file \in [Objects -> Files]
        /\ \A p \in Objects : id[p] \in Ids
        /\ service \in [Ids -> [ready : SUBSET Dirs, asked : SUBSET Dirs, closed : BOOLEAN]]
    BY DEF PipeInv, TypeOK, Files
  <1>4. /\ file' \in [Objects -> Files]
        /\ file'[o] = "closing" /\ \A p \in Objects : p # o => file'[p] = file[p]
        /\ \A p \in Objects : file'[p] = "open" <=> file[p] = "open"
        /\ \A p \in Objects : file'[p] = "free" <=> file[p] = "free"
    BY <1>2, <1>3 DEF Files
  <1>5. /\ service' \in [Ids -> [ready : SUBSET Dirs, asked : SUBSET Dirs, closed : BOOLEAN]]
        /\ service'[i] = NoService /\ \A j \in Ids : j # i => service'[j] = service[j]
    BY <1>2, <1>3 DEF NoService
  <1>6. /\ \A p \in Objects : p # o /\ file[p] # "free" => id[p] # i
        /\ ~hw[i].open /\ hw[i] = NoPipe
    BY <1>1, <1>2 DEF PipeInv, IdsDiffer, DeviceAgrees, UnusedIsClear
  <1>7. \A j \in Ids : j # i => (Allocated(j)' <=> Allocated(j))
    BY <1>1, <1>2, <1>4 DEF Allocated, PipesAt
  <1>8. ~NoPipe.closed /\ NoPipe.wanted = {}
    BY DEF NoPipe
  <1>9. TypeOK'
    BY <1>2, <1>4, <1>5 DEF PipeInv, TypeOK, Files
  <1>10. NoStalePipe'
    <2>1. \A j \in FreeIds' : ~hw'[j].open
      BY <1>2, <1>4 DEF PipeInv, NoStalePipe, FreeIds, PipesAt
    <2>2. \A op \in pending' : Allocated(op.id)'
      BY <1>2, <1>7 DEF PipeInv, TypeOK, NoStalePipe
    <2> QED BY <1>2, <1>4, <2>1, <2>2 DEF PipeInv, TypeOK, NoStalePipe
  <1>11. IdsDiffer' /\ DeviceAgrees' /\ CallsAreOpen'
    BY <1>2, <1>4 DEF PipeInv, IdsDiffer, DeviceAgrees, CallsAreOpen
  <1>12. UnusedIsClear'
    BY <1>2, <1>5, <1>7 DEF PipeInv, UnusedIsClear
  <1>13. InterruptsPending'
    BY <1>2 DEF PipeInv, InterruptsPending
  <1>14. CloseQueued'
    BY <1>2, <1>5 DEF PipeInv, TypeOK, CloseQueued
  <1>15. CloseInDevice'
    BY <1>2, <1>5, <1>6, <1>8 DEF PipeInv, CloseInDevice
  <1>16. CloseInDriver'
    BY <1>2, <1>4 DEF PipeInv, CloseInDriver, CloseOnItsWay
  <1>17. CloseInTask'
    BY <1>2, <1>4 DEF PipeInv, TypeOK, CloseInTask
  <1>18. WantedIsKnown'
    <2> SUFFICES ASSUME NEW j \in Ids, NEW d \in hw[j].wanted \cap Dirs
                 PROVE  \/ j \in wantedPipes \/ hw[j].closed \/ InWaker(j, d)'
                        \/ d \in service'[j].asked \ service'[j].ready
      BY <1>2 DEF WantedIsKnown
    <2>1. j # i
      BY <1>6, <1>8
    <2> QED BY <1>2, <1>5, <2>1 DEF PipeInv, WantedIsKnown, InWaker
  <1>19. WaitsKnown'
    <2> SUFFICES ASSUME NEW p \in Objects, NEW e \in Dirs
                 PROVE  /\ pc[p][e] = "sleep" => e \in flags[p]
                        /\ pc[p][e] \in Waiting /\ e \in flags[p] =>
                              \/ OnItsWay(p, e)' \/ "Closed" \in flags[p]
                              \/ /\ e \in service'[id[p]].asked \ service'[id[p]].ready
                                 /\ e \in hw[id[p]].wanted
      BY <1>2 DEF WaitsKnown, Waiting
    <2>1. pc[p][e] \in Waiting => id[p] \in Ids /\ id[p] # i
      BY <1>2, <1>3, <1>6 DEF PipeInv, CallsAreOpen, Waiting
    <2> QED BY <1>2, <1>5, <2>1 DEF PipeInv, WaitsKnown, OnItsWay, Waiting
  <1> QED BY <1>9, <1>10, <1>11, <1>12, <1>13, <1>14, <1>15, <1>16, <1>17, <1>18, <1>19
         DEF PipeInv

LEMMA ReleaseStep ==
    ASSUME PipeInv, NEW o \in Objects, release(o) PROVE PipeInv'
  <1>1. /\ UNCHANGED <<runthread, task, popped, pc, hw, wantedPipes, irq, service, pending>>
        /\ file[o] = "closing"
        /\ file' = [file EXCEPT ![o] = "free"]
        /\ list' = list \ {o}
        /\ id' = [id EXCEPT ![o] = 0]
        /\ flags' = [flags EXCEPT ![o] = {}]
        /\ signalled' = [signalled EXCEPT ![o] = {}]
        /\ misled' = (misled \ {o}) \cup (IF task = "apply" /\ popped[1] = o THEN {o} ELSE {})
    BY DEF release, thread, device, host
  <1>2. /\ file \in [Objects -> Files]
        /\ id \in [Objects -> Ids] /\ 0 \in Ids
        /\ flags \in [Objects -> SUBSET WakeFlags]
        /\ signalled \in [Objects -> SUBSET WakeFlags]
    BY PipeAssumption DEF PipeInv, TypeOK, Ids, Files
  <1>3. /\ file' \in [Objects -> Files]
        /\ id' \in [Objects -> Ids]
        /\ flags' \in [Objects -> SUBSET WakeFlags]
        /\ signalled' \in [Objects -> SUBSET WakeFlags]
        /\ file'[o] = "free"
        /\ \A p \in Objects : p # o => /\ file'[p] = file[p] /\ id'[p] = id[p]
                                       /\ flags'[p] = flags[p] /\ signalled'[p] = signalled[p]
    BY <1>1, <1>2 DEF Files
  <1>4. \A d \in Dirs : pc[o][d] = "idle"
    BY <1>1 DEF PipeInv, CallsAreOpen
  <1>5. TypeOK'
    BY <1>1, <1>3 DEF PipeInv, TypeOK, Files
  <1>6. \A j \in Ids : Allocated(j)' <=> Allocated(j)
    BY <1>1, <1>3 DEF Allocated, PipesAt
  <1>7. NoStalePipe'
    <2>1. \A j \in FreeIds' : ~hw[j].open
      <3> SUFFICES ASSUME NEW j \in Ids, \A p \in Objects : ~(file'[p] # "free" /\ id'[p] = j)
                   PROVE  ~hw[j].open
        BY DEF FreeIds, PipesAt, Allocated
      <3>1. CASE j = id[o]
        BY <1>1, <3>1 DEF PipeInv, DeviceAgrees
      <3>2. CASE j # id[o]
        <4>1. \A p \in Objects : ~(file[p] # "free" /\ id[p] = j)
          BY <1>3, <3>2
        <4> QED BY <4>1 DEF PipeInv, NoStalePipe, FreeIds, PipesAt, Allocated
      <3> QED BY <3>1, <3>2
    <2>2. \A p \in list' : file'[p] # "free"
      BY <1>1, <1>3 DEF PipeInv, TypeOK, NoStalePipe
    <2> QED BY <1>1, <1>6, <2>1, <2>2 DEF PipeInv, TypeOK, NoStalePipe
  <1>8. IdsDiffer'
    BY <1>3 DEF PipeInv, IdsDiffer
  <1>9. DeviceAgrees'
    BY <1>1, <1>3 DEF PipeInv, DeviceAgrees
  <1>10. CallsAreOpen'
    BY <1>1, <1>3, <1>4 DEF PipeInv, CallsAreOpen
  <1>11. UnusedIsClear' /\ InterruptsPending' /\ CloseQueued' /\ CloseInDevice' /\ WantedIsKnown'
    BY <1>1, <1>6 DEF PipeInv, UnusedIsClear, InterruptsPending, CloseQueued, CloseInDevice,
                WantedIsKnown, InWaker
  <1>12. CloseInDriver'
    BY <1>1, <1>3 DEF PipeInv, CloseInDriver, CloseOnItsWay
  <1>13. WaitsKnown'
    <2> SUFFICES ASSUME NEW p \in Objects, NEW e \in Dirs, p # o
                 PROVE  /\ pc[p][e] = "sleep" => e \in flags[p]
                        /\ pc[p][e] \in Waiting /\ e \in flags[p] =>
                              \/ OnItsWay(p, e)' \/ "Closed" \in flags[p]
                              \/ /\ e \in service[id[p]].asked \ service[id[p]].ready
                                 /\ e \in hw[id[p]].wanted
      BY <1>1, <1>3, <1>4 DEF WaitsKnown, OnItsWay, Waiting
    <2> QED BY <1>1, <1>3 DEF PipeInv, WaitsKnown, OnItsWay, Waiting
  <1>14. CloseInTask'
    BY <1>1, <1>3 DEF PipeInv, TypeOK, CloseInTask
  <1> QED BY <1>5, <1>7, <1>8, <1>9, <1>10, <1>11, <1>12, <1>13, <1>14 DEF PipeInv

-----------------------------------------------------------------------------
(* The services. *)

LEMMA ServiceReadyStep ==
    ASSUME PipeInv, NEW i \in Ids, NEW d \in Dirs, ServiceReady(i, d) PROVE PipeInv'
  <1>1. /\ UNCHANGED <<file, id, flags, signalled, list, runthread, task, popped, misled, pc, hw,
                       wantedPipes, irq>>
        /\ Allocated(i)
        /\ service' = [service EXCEPT ![i].ready = @ \cup {d}, ![i].asked = @ \ {d}]
        /\ pending' = IF d \in service[i].asked
                      THEN pending \cup {[id |-> i, flags |-> {d}]} ELSE pending
    BY DEF ServiceReady, IsWorking, Allocated, driver, thread, device
  <1>2. /\ service \in [Ids -> [ready : SUBSET Dirs, asked : SUBSET Dirs, closed : BOOLEAN]]
        /\ pending \subseteq [id : Ids, flags : SUBSET WakeFlags]
        /\ \A o \in Objects : id[o] \in Ids
    BY DEF PipeInv, TypeOK
  <1>3. /\ service' \in [Ids -> [ready : SUBSET Dirs, asked : SUBSET Dirs, closed : BOOLEAN]]
        /\ service'[i].ready = service[i].ready \cup {d}
        /\ service'[i].asked = service[i].asked \ {d}
        /\ service'[i].closed = service[i].closed
        /\ \A j \in Ids : j # i => service'[j] = service[j]
    BY <1>1, <1>2
  <1>4. /\ pending \subseteq pending'
        /\ pending' \subseteq pending \cup {[id |-> i, flags |-> {d}]}
        /\ d \in service[i].asked => InWaker(i, d)'
    <2>1. ASSUME d \in service[i].asked PROVE InWaker(i, d)'
      <3>1. [id |-> i, flags |-> {d}] \in pending'
        BY <1>1, <2>1
      <3>2. [id |-> i, flags |-> {d}].flags \cap {d, "Closed"} # {}
        OBVIOUS
      <3> QED BY <3>1, <3>2 DEF InWaker
    <2> QED BY <1>1, <2>1
  <1>5. \A op \in pending' : /\ op \in [id : Ids, flags : SUBSET WakeFlags]
                             /\ op \in pending \/ (op.id = i /\ "Closed" \notin op.flags)
    BY <1>2, <1>4 DEF WakeFlags, Dirs
  <1>6. TypeOK'
    BY <1>1, <1>3, <1>5 DEF PipeInv, TypeOK
  <1>7. NoStalePipe'
    BY <1>1, <1>5 DEF PipeInv, NoStalePipe, FreeIds, PipesAt, Allocated
  <1>8. IdsDiffer' /\ DeviceAgrees' /\ CallsAreOpen' /\ InterruptsPending'
    BY <1>1 DEF PipeInv, IdsDiffer, DeviceAgrees, CallsAreOpen, InterruptsPending
  <1>9. UnusedIsClear'
    BY <1>1, <1>3 DEF PipeInv, UnusedIsClear, Allocated, PipesAt
  <1>10. \A j \in Ids : service'[j].closed = service[j].closed
    BY <1>3
  <1>11. CloseQueued'
    BY <1>2, <1>5, <1>10 DEF PipeInv, CloseQueued
  <1>12. CloseInDevice'
    BY <1>1, <1>10 DEF PipeInv, CloseInDevice
  <1>13. CloseInDriver' /\ CloseInTask'
    BY <1>1 DEF PipeInv, CloseInDriver, CloseInTask, CloseOnItsWay
  <1>14. \A j \in Ids, e \in Dirs : e \in service[j].asked \ service[j].ready =>
            e \in service'[j].asked \ service'[j].ready \/ (j = i /\ e = d /\ InWaker(i, d)')
    BY <1>3, <1>4
  <1>15. \A j \in Ids, e \in Dirs : InWaker(j, e) => InWaker(j, e)'
    BY <1>4 DEF InWaker
  <1>16. WantedIsKnown'
    <2> SUFFICES ASSUME NEW j \in Ids, NEW e \in hw[j].wanted \cap Dirs
                 PROVE  \/ j \in wantedPipes \/ hw[j].closed \/ InWaker(j, e)'
                        \/ e \in service'[j].asked \ service'[j].ready
      BY <1>1 DEF WantedIsKnown
    <2>1. \/ j \in wantedPipes \/ hw[j].closed \/ InWaker(j, e)
          \/ e \in service[j].asked \ service[j].ready
      BY DEF PipeInv, WantedIsKnown
    <2> QED BY <1>14, <1>15, <2>1
  <1>17. WaitsKnown'
    <2> SUFFICES ASSUME NEW o \in Objects, NEW e \in Dirs
                 PROVE  /\ pc[o][e] = "sleep" => e \in flags[o]
                        /\ pc[o][e] \in Waiting /\ e \in flags[o] =>
                              \/ OnItsWay(o, e)' \/ "Closed" \in flags[o]
                              \/ /\ e \in service'[id[o]].asked \ service'[id[o]].ready
                                 /\ e \in hw[id[o]].wanted
      BY <1>1 DEF WaitsKnown, Waiting
    <2>1. OnItsWay(o, e) => OnItsWay(o, e)'
      BY <1>1, <1>4 DEF OnItsWay
    <2>2. id[o] = i /\ e = d /\ InWaker(i, d)' => OnItsWay(o, e)'
      BY <1>1 DEF OnItsWay, InWaker
    <2>3. e \in service[id[o]].asked \ service[id[o]].ready =>
             e \in service'[id[o]].asked \ service'[id[o]].ready \/ OnItsWay(o, e)'
      BY <1>2, <1>14, <2>2
    <2> QED BY <2>1, <2>3 DEF PipeInv, WaitsKnown, Waiting
  <1> QED BY <1>6, <1>7, <1>8, <1>9, <1>11, <1>12, <1>13, <1>16, <1>17 DEF PipeInv

(* A close replaces what the service was asked for by the news of it. *)
LEMMA ServiceCloseStep ==
    ASSUME PipeInv, NEW i \in Ids, ServiceClose(i) PROVE PipeInv'
  <1>1. /\ UNCHANGED <<file, id, flags, signalled, list, runthread, task, popped, misled, pc, hw,
                       wantedPipes, irq>>
        /\ Allocated(i)
        /\ service' = [service EXCEPT ![i] = [NoService EXCEPT !.closed = TRUE]]
        /\ pending' = pending \cup {[id |-> i, flags |-> {"Closed"}]}
    BY DEF ServiceClose, IsWorking, Allocated, driver, thread, device
  <1>2. /\ service \in [Ids -> [ready : SUBSET Dirs, asked : SUBSET Dirs, closed : BOOLEAN]]
        /\ pending \subseteq [id : Ids, flags : SUBSET WakeFlags]
        /\ \A o \in Objects : id[o] \in Ids
    BY DEF PipeInv, TypeOK
  <1>3. /\ service' \in [Ids -> [ready : SUBSET Dirs, asked : SUBSET Dirs, closed : BOOLEAN]]
        /\ service'[i].closed
        /\ \A j \in Ids : j # i => service'[j] = service[j]
    BY <1>1, <1>2 DEF NoService
  <1>4. /\ pending \subseteq pending'
        /\ \A op \in pending' : /\ op \in [id : Ids, flags : SUBSET WakeFlags]
                                /\ op \in pending \/ op.id = i
    BY <1>1, <1>2 DEF WakeFlags
  <1>5. \A e \in Dirs : InWaker(i, e)'
    <2>1. [id |-> i, flags |-> {"Closed"}] \in pending'
      BY <1>1
    <2>2. \A e \in Dirs : [id |-> i, flags |-> {"Closed"}].flags \cap {e, "Closed"} # {}
      OBVIOUS
    <2> QED BY <2>1, <2>2 DEF InWaker
  <1>6. TypeOK'
    BY <1>1, <1>3, <1>4 DEF PipeInv, TypeOK
  <1>7. NoStalePipe'
    BY <1>1, <1>4 DEF PipeInv, NoStalePipe, FreeIds, PipesAt, Allocated
  <1>8. IdsDiffer' /\ DeviceAgrees' /\ CallsAreOpen' /\ InterruptsPending'
    BY <1>1 DEF PipeInv, IdsDiffer, DeviceAgrees, CallsAreOpen, InterruptsPending
  <1>9. UnusedIsClear'
    BY <1>1, <1>3 DEF PipeInv, UnusedIsClear, Allocated, PipesAt
  <1>10. CloseQueued'
    BY <1>2, <1>3, <1>4 DEF PipeInv, CloseQueued
  <1>11. CloseInDevice'
    BY <1>1, <1>3 DEF PipeInv, CloseInDevice
  <1>12. CloseInDriver' /\ CloseInTask'
    BY <1>1 DEF PipeInv, CloseInDriver, CloseInTask, CloseOnItsWay
  <1>13. WantedIsKnown'
    BY <1>1, <1>3, <1>4, <1>5 DEF PipeInv, WantedIsKnown, InWaker
  <1>14. WaitsKnown'
    <2> SUFFICES ASSUME NEW o \in Objects, NEW e \in Dirs
                 PROVE  /\ pc[o][e] = "sleep" => e \in flags[o]
                        /\ pc[o][e] \in Waiting /\ e \in flags[o] =>
                              \/ OnItsWay(o, e)' \/ "Closed" \in flags[o]
                              \/ /\ e \in service'[id[o]].asked \ service'[id[o]].ready
                                 /\ e \in hw[id[o]].wanted
      BY <1>1 DEF WaitsKnown, Waiting
    <2>1. CASE id[o] = i
      <3>1. OnItsWay(o, e)'
        BY <1>1, <1>5, <2>1 DEF OnItsWay, InWaker
      <3> QED BY <3>1 DEF PipeInv, WaitsKnown
    <2>2. CASE id[o] # i
      <3>1. OnItsWay(o, e) => OnItsWay(o, e)'
        BY <1>1, <1>4 DEF OnItsWay
      <3>2. service'[id[o]] = service[id[o]]
        BY <1>2, <1>3, <2>2
      <3> QED BY <3>1, <3>2 DEF PipeInv, WaitsKnown, Waiting
    <2> QED BY <2>1, <2>2
  <1> QED BY <1>6, <1>7, <1>8, <1>9, <1>10, <1>11, <1>12, <1>13, <1>14 DEF PipeInv
-----------------------------------------------------------------------------
LEMMA InitInv == Init => PipeInv
  <1> SUFFICES ASSUME Init PROVE PipeInv
    OBVIOUS
  <1>1. 0 \in Ids
    BY PipeAssumption DEF Ids
  <1>2. TypeOK
    BY <1>1 DEF Init, TypeOK, NoPipe, NoService
  <1>3. \A i \in Ids : hw[i] = NoPipe /\ ~hw[i].open /\ ~hw[i].closed /\ hw[i].wanted = {}
    BY DEF Init, NoPipe
  <1>4. NoStalePipe
    BY <1>3 DEF Init, NoStalePipe, FreeIds
  <1>5. IdsDiffer /\ CallsAreOpen /\ InterruptsPending /\ CloseQueued
    BY DEF Init, IdsDiffer, CallsAreOpen, InterruptsPending, CloseQueued
  <1>6. DeviceAgrees /\ CloseInDriver /\ CloseInTask
    BY DEF Init, DeviceAgrees, CloseInDriver, CloseInTask
  <1>7. UnusedIsClear
    BY <1>3 DEF Init, UnusedIsClear
  <1>8. CloseInDevice /\ WantedIsKnown
    BY <1>3 DEF CloseInDevice, WantedIsKnown
  <1>9. WaitsKnown
    BY DEF Init, WaitsKnown
  <1> QED BY <1>2, <1>4, <1>5, <1>6, <1>7, <1>8, <1>9 DEF PipeInv

LEMMA CallsStep ==
    ASSUME PipeInv, NEW o \in Objects, NEW d \in Dirs,
           read_write(o, d) \/ CallStep(o, d) \/ Interrupted(o, d)
    PROVE  PipeInv'
  BY ReadWriteStep, TransferSomeStep, TransferAgainStep, TransferFailsStep, SetBitStep,
     WakeOnStep, CheckStep, AwakeStep, InterruptedStep DEF CallStep

LEMMA NextStep ==
    ASSUME PipeInv, [Next]_vars PROVE PipeInv'
  <1>1. CASE \E o \in Objects : open(o) \/ CloseCommand(o) \/ CloseStep(o) \/ release(o)
    BY <1>1, OpenStep, CloseCommandStep, OnGuestCloseStep, HwpipeFreeStep, ReleaseStep
       DEF CloseStep
  <1>2. CASE \E o \in Objects, d \in Dirs : read_write(o, d) \/ CallStep(o, d) \/ Interrupted(o, d)
    BY <1>2, CallsStep
  <1>3. CASE Interrupt \/ TaskStep \/ onTimerEvent
    BY <1>3, InterruptStep, TaskStartStep, PopStep, InterruptTaskStep, TimerStep DEF TaskStep
  <1>4. CASE \E i \in Ids : ServiceClose(i) \/ \E d \in Dirs : ServiceReady(i, d)
    BY <1>4, ServiceCloseStep, ServiceReadyStep
  <1>5. CASE UNCHANGED vars
    <2>1. UNCHANGED <<driver, device, host, pc>>
      BY <1>5 DEF vars, thread
    <2> QED BY <2>1, StutterStep
  <1> QED BY <1>1, <1>2, <1>3, <1>4, <1>5 DEF Next
-----------------------------------------------------------------------------
(* The theorems, for every set of objects, every number of ids at least    *)
(* as large, and any use of the pipes.                                     *)

(* The inductive invariant: the driver, the device, PipeWaker and the      *)
(* services agree on which pipes exist, and every close and every wake is  *)
(* at one of its stations.                                                 *)
THEOREM PipeInvariant == Safety => []PipeInv
  <1>1. PipeInv /\ [Next]_vars => PipeInv'
    BY NextStep
  <1> QED BY <1>1, InitInv, PTL DEF Safety

(* The asserts of pipeDevice_doCommand_v2 and of the intrusive lists hold, *)
(* an id or an object is never used again while something of its earlier   *)
(* pipe is still queued, and PipeWaker never has an operation for a pipe   *)
(* that hwpipe_free has freed, although EmuglPipe's thread can queue one   *)
(* while the close is under way.                                           *)
THEOREM NoStalePipes == Safety => []NoStalePipe
  <1>1. PipeInv => NoStalePipe
    BY DEF PipeInv
  <1> QED BY <1>1, PipeInvariant, PTL

(* A call asleep in wait_for_host_signal has its wake on its way, in       *)
(* PipeWaker, the device, the list of signalled pipes or the interrupt     *)
(* thread, or its service knows that it waits; but for CloseOvertook.      *)
THEOREM NoWakeupLost == Safety => []NoLostWakeup
  <1>1. PipeInv => NoLostWakeup
    <2> SUFFICES ASSUME PipeInv, NEW o \in Objects, NEW d \in Dirs, pc[o][d] = "sleep"
                 PROVE  \/ OnItsWay(o, d) \/ CloseOvertook(o, d)
                        \/ /\ d \in service[id[o]].asked \ service[id[o]].ready
                           /\ d \in hw[id[o]].wanted
      BY DEF PipeInv, NoLostWakeup
    <2> QED BY DEF PipeInv, WaitsKnown, CloseOvertook
  <1> QED BY <1>1, PipeInvariant, PTL

(* goldfish_pipe_close_from_host, the signalled list and the flags that    *)
(* the user sees say closed only of a pipe whose own service has closed    *)
(* it; but for an object freed and opened again while the interrupt thread *)
(* still held it, whose flags may say so.                                  *)
THEOREM ClosesAreReal == Safety => []ClosedIsReal
  <1>1. PipeInv => ClosedIsReal
    <2> SUFFICES ASSUME PipeInv, NEW o \in Objects, file[o] = "open"
                 PROVE  /\ hw[id[o]].closed => service[id[o]].closed
                        /\ "Closed" \in signalled[o] => hw[id[o]].closed
                        /\ "Closed" \in flags[o] => hw[id[o]].closed \/ o \in misled
      BY DEF ClosedIsReal
    <2>1. id[o] \in Ids
      BY DEF PipeInv, TypeOK
    <2>2. hw[id[o]].closed => service[id[o]].closed
      BY <2>1 DEF PipeInv, CloseInDevice
    <2>3. /\ "Closed" \in signalled[o] => hw[id[o]].closed
          /\ "Closed" \in flags[o] => hw[id[o]].closed \/ o \in misled
      BY DEF PipeInv, CloseInDriver
    <2> QED BY <2>2, <2>3
  <1> QED BY <1>1, PipeInvariant, PTL
=============================================================================
